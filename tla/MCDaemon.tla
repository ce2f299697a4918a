------------------------------ MODULE MCDaemon ------------------------------
(* Model values and bounds for checking the daemon with its default seat. *)
EXTENDS Daemon

MCUsers == {"alice"}
MCGuestNames == {"guest"}
MCMaxDisplays == 3

====
