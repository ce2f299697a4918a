------------------------------ MODULE MCGreeter ------------------------------
(* Model-checking instance of Greeter: two authentication requests and the *)
(* users of the test PAM library whose scripts differ in their             *)
(* conversations.                                                          *)
EXTENDS Greeter

MCRequests == 2

MCSessions == 1..MCRequests

(* log-pam: info-only batches, from pam_authenticate and pam_acct_mgmt,   *)
(* that the daemon answers itself.                                         *)
MCConvUsers == {"log-pam"}

(* two-factor: two prompts in a row; new-authtok: pam_chauthtok after      *)
(* pam_acct_mgmt; denied: pam_acct_mgmt refuses.                           *)
MCAcctUsers == {"two-factor", "new-authtok", "denied"}

=============================================================================
