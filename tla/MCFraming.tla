----------------------------- MODULE MCFraming -----------------------------
(***************************************************************************)
(* Bounds for Framing.tla.                                                 *)
(***************************************************************************)
EXTENDS Framing

(* Payloads: none, a lone int, and an int with a 1-byte string.            *)
MCPayloadLengths == {0, 4, 9}

(* A greeter that answers one or two prompts.                              *)
MCSecretCounts == {0, 2}

(* A greeter that sends n_secrets = 0xFFFFFFFF, read as -1.                *)
MCHostileSecretCounts == {0, -1}

(* Requests up to a gigabyte succeed.                                      *)
MCAllocLimit == 2^30
====
