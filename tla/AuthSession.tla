---------------------------- MODULE AuthSession ----------------------------
(***************************************************************************)
(* What one authentication session promises its user (spec section 4.1), *)
(* abstractly: authenticate() takes it from IDLE to AUTHENTICATING; the   *)
(* worker's conversation moves it between AUTHENTICATING and PROMPTING;   *)
(* when the auth library returns, the worker records the result, and the  *)
(* supervisor's join turns it into SUCCEEDED or FAILED, for good.         *)
(* cancel() sets the stop request for good.  The conversation protocol    *)
(* (section 4.1) makes a stopped worker return CONV_ERR when it wakes; it *)
(* does not forbid a GOT_MESSAGES after the cancel, and what the library  *)
(* returns after a CONV_ERR is left open.                                  *)
(***************************************************************************)
CONSTANTS
  Results,   \* the result codes of the auth library
  NoResult   \* no result recorded yet

States == {"IDLE", "AUTHENTICATING", "PROMPTING", "SUCCEEDED", "FAILED"}

VARIABLES
  state,     \* the session's AuthState
  result,    \* the result the worker stored, until the join consumes it
  stop       \* stop_requested

vars == <<state, result, stop>>

TypeOK ==
  /\ state \in States
  /\ result \in Results \cup {NoResult}
  /\ stop \in BOOLEAN

Init ==
  /\ state = "IDLE"
  /\ result = NoResult
  /\ stop = FALSE

Authenticate ==
  /\ state = "IDLE"
  /\ state' = "AUTHENTICATING"
  /\ UNCHANGED <<result, stop>>

(* The library calls the conversation with messages: GOT_MESSAGES.        *)
Prompt ==
  /\ state = "AUTHENTICATING" /\ result = NoResult
  /\ state' = "PROMPTING"
  /\ UNCHANGED <<result, stop>>

(* The worker wakes with a response or the sentinel; the library may      *)
(* return at once.                                                         *)
Answer ==
  /\ state = "PROMPTING"
  /\ state' = "AUTHENTICATING"
  /\ result' \in Results \cup {NoResult}
  /\ UNCHANGED stop

(* The library returns without a conversation, and the worker stores it.  *)
Complete ==
  /\ state = "AUTHENTICATING" /\ result = NoResult
  /\ result' \in Results
  /\ UNCHANGED <<state, stop>>

(* The supervisor joins the worker and takes its result.                   *)
Finish ==
  /\ state = "AUTHENTICATING" /\ result # NoResult
  /\ state' = IF result = "SUCCESS" THEN "SUCCEEDED" ELSE "FAILED"
  /\ result' = NoResult
  /\ UNCHANGED stop

Cancel ==
  /\ state \in {"AUTHENTICATING", "PROMPTING"}
  /\ stop' = TRUE
  /\ UNCHANGED <<state, result>>

Next == Authenticate \/ Prompt \/ Answer \/ Complete \/ Finish \/ Cancel

Spec == Init /\ [][Next]_vars

====
