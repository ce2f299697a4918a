------------------------------ MODULE PAMSession ------------------------------
(***************************************************************************)
(* The authentication object of src/src/pam-session.c and the PAM library  *)
(* it drives.                                                              *)
(*                                                                         *)
(* pam_session_authenticate starts a worker thread (authenticate_cb) that  *)
(* runs pam_authenticate, then pam_acct_mgmt and, on NEW_AUTHTOK_REQD,     *)
(* pam_chauthtok.  Every call the library makes into the conversation      *)
(* function pam_conv_cb publishes the messages in shared fields, schedules *)
(* notify_messages_cb on the main loop (g_idle_add) and blocks on a        *)
(* GAsyncQueue until the main loop pushes a response (pam_session_respond) *)
(* or the cancel sentinel (pam_session_cancel).  When the library returns  *)
(* the worker schedules notify_auth_complete_cb, which joins the thread    *)
(* and reports the result.                                                 *)
(*                                                                         *)
(* The library is the repository's own PAM (src/tests/src/libsystem.c),    *)
(* whose conversation script depends on the user name.  A secret is        *)
(* abstracted to whether it matches, a response to its number of slots.    *)
(* This module holds the state and the operations; Greeter.tla composes    *)
(* them with the greeter's handlers into a specification.                  *)
(***************************************************************************)
EXTENDS Naturals, Sequences

CONSTANTS
  Sessions,   \* the PAMSession objects that may be created
  Users,      \* user names the test PAM library may be asked about
  None        \* model value standing for NULL

ASSUME None \notin Sessions /\ None \notin Users

(* Where the authentication thread of a session is in its code.           *)
WorkerPcs == {"idle", "authenticate", "user_known", "password", "otp",
              "acct_mgmt", "chauthtok", "converse", "wait", "done", "joined"}

(* The places at which libsystem.c calls the conversation function.       *)
ConvPoints == {"login", "log", "password", "otp", "acct_log", "newtok"}

Results == {"SUCCESS", "AUTH_ERR", "CONV_ERR", "PERM_DENIED", "ACCT_EXPIRED",
            "NEW_AUTHTOK_REQD", "SYSTEM_ERR", "USER_UNKNOWN"}

(* A message batch: how many messages and how many of them are prompts.   *)
NoMessages == [msgs |-> 0, prompts |-> 0]

(* The batch libsystem.c passes at a conversation point for a user.        *)
Batch(u, p) ==
  CASE p = "password" /\ u = "info-prompt"       -> [msgs |-> 2, prompts |-> 1]
    [] p = "password" /\ u = "multi-info-prompt" -> [msgs |-> 4, prompts |-> 1]
    [] p = "password" /\ u = "multi-prompt"      -> [msgs |-> 2, prompts |-> 2]
    [] p \in {"log", "acct_log"}                 -> [msgs |-> 1, prompts |-> 0]
    [] OTHER                                     -> [msgs |-> 1, prompts |-> 1]

(* Items of the response queue: a response array of n slots, filled when  *)
(* its prompt slots hold secrets (the greeter's answer) and not when it is *)
(* the zeroed array the daemon answers a prompt-less batch with; or the    *)
(* GINT_TO_POINTER (-1) sentinel pushed by pam_session_cancel.            *)
Response(n, filled) == [kind |-> "response", size |-> n, filled |-> filled]
Sentinel == [kind |-> "cancel", size |-> 0, filled |-> FALSE]

VARIABLES
  worker,      \* worker[s]: where the authentication thread of s is
  waitPoint,   \* waitPoint[s]: the conversation point it is blocked at
  user,        \* user[s]: PAM_USER of the handle, None until known
  thread,      \* thread[s]: authentication_thread != NULL
  stopThread,  \* stop_thread
  inAuth,      \* in_authentication
  isAuthed,    \* is_authenticated
  messages,    \* num_messages/messages as last written by pam_conv_cb
  queue,       \* authentication_response_queue
  authResult,  \* authentication_result
  idle         \* idle callbacks scheduled on the main loop, in order

pamVars == <<worker, waitPoint, user, thread, stopThread, inAuth, isAuthed,
             messages, queue, authResult, idle>>

IdleCallbacks == [cb : {"messages", "complete"}, s : Sessions]

PAMTypeOK ==
  /\ worker \in [Sessions -> WorkerPcs]
  /\ waitPoint \in [Sessions -> ConvPoints \cup {None}]
  /\ user \in [Sessions -> Users \cup {None}]
  /\ thread \in [Sessions -> BOOLEAN]
  /\ stopThread \in [Sessions -> BOOLEAN]
  /\ inAuth \in [Sessions -> BOOLEAN]
  /\ isAuthed \in [Sessions -> BOOLEAN]
  /\ messages \in [Sessions -> [msgs : 0..4, prompts : 0..2]]
  /\ queue \in [Sessions -> Seq({Sentinel} \cup {Response(n, f) : n \in 0..4, f \in BOOLEAN})]
  /\ authResult \in [Sessions -> Results]
  /\ idle \in Seq(IdleCallbacks)

(* pam_session_init: the private struct is zeroed, so the result field    *)
(* starts as 0, which is PAM_SUCCESS.                                      *)
PAMInit ==
  /\ worker = [s \in Sessions |-> "idle"]
  /\ waitPoint = [s \in Sessions |-> None]
  /\ user = [s \in Sessions |-> None]
  /\ thread = [s \in Sessions |-> FALSE]
  /\ stopThread = [s \in Sessions |-> FALSE]
  /\ inAuth = [s \in Sessions |-> FALSE]
  /\ isAuthed = [s \in Sessions |-> FALSE]
  /\ messages = [s \in Sessions |-> NoMessages]
  /\ queue = [s \in Sessions |-> <<>>]
  /\ authResult = [s \in Sessions |-> "SUCCESS"]
  /\ idle = <<>>

-----------------------------------------------------------------------------
(* Calls made from the main loop.                                          *)

(* pam_session_new: pam_start with the user name, None for "".            *)
New(s, u) == user' = [user EXCEPT ![s] = u]

(* pam_session_authenticate when g_thread_create succeeds.                 *)
AuthenticateStarted(s) ==
  /\ ~inAuth[s] /\ ~isAuthed[s]
  /\ inAuth' = [inAuth EXCEPT ![s] = TRUE]
  /\ thread' = [thread EXCEPT ![s] = TRUE]
  /\ worker' = [worker EXCEPT ![s] = "authenticate"]

(* pam_session_authenticate when g_thread_create fails: in_authentication *)
(* stays TRUE and there is no thread.                                      *)
AuthenticateThreadFailed(s) ==
  /\ ~inAuth[s] /\ ~isAuthed[s]
  /\ inAuth' = [inAuth EXCEPT ![s] = TRUE]
  /\ UNCHANGED <<thread, worker>>

(* pam_session_respond: pushed only while a thread exists.                 *)
Respond(s, n, filled) ==
  IF s # None /\ thread[s]
  THEN queue' = [queue EXCEPT ![s] = Append(@, Response(n, filled))]
  ELSE UNCHANGED queue

(* Variant of Cancel that sets stop_thread without pushing the sentinel,   *)
(* leaving a blocked thread asleep.                                        *)
CancelNoWake(s) ==
  IF thread[s]
  THEN /\ stopThread' = [stopThread EXCEPT ![s] = TRUE]
       /\ UNCHANGED queue
  ELSE UNCHANGED <<stopThread, queue>>

(* pam_session_cancel: flag the thread and wake it with the sentinel.      *)
Cancel(s) ==
  IF thread[s]
  THEN /\ stopThread' = [stopThread EXCEPT ![s] = TRUE]
       /\ queue' = [queue EXCEPT ![s] = Append(@, Sentinel)]
  ELSE UNCHANGED <<stopThread, queue>>

-----------------------------------------------------------------------------
(* Steps of the authentication thread.                                     *)

(* authenticate_cb after a PAM call returned r: store the result and       *)
(* schedule notify_auth_complete_cb.                                       *)
Done(s, r) ==
  /\ authResult' = [authResult EXCEPT ![s] = r]
  /\ worker' = [worker EXCEPT ![s] = "done"]
  /\ idle' = Append(idle, [cb |-> "complete", s |-> s])

GoTo(s, pc) ==
  /\ worker' = [worker EXCEPT ![s] = pc]
  /\ UNCHANGED <<authResult, idle>>

(* pam_authenticate returned; on success authenticate_cb goes on to       *)
(* pam_acct_mgmt.                                                           *)
AuthenticateReturns(s, match) ==
  IF match
  THEN /\ authResult' = [authResult EXCEPT ![s] = "SUCCESS"]
       /\ worker' = [worker EXCEPT ![s] = "acct_mgmt"]
       /\ UNCHANGED idle
  ELSE Done(s, "AUTH_ERR")

(* pam_acct_mgmt of libsystem.c decides by user name; NEW_AUTHTOK_REQD     *)
(* sends authenticate_cb on to pam_chauthtok.                              *)
AcctMgmtReturns(s) ==
  \/ user[s] = "denied" /\ Done(s, "PERM_DENIED")
  \/ user[s] = "expired" /\ Done(s, "ACCT_EXPIRED")
  \/ /\ user[s] = "new-authtok"
     /\ authResult' = [authResult EXCEPT ![s] = "NEW_AUTHTOK_REQD"]
     /\ worker' = [worker EXCEPT ![s] = "chauthtok"]
     /\ UNCHANGED idle
  \/ user[s] \notin {"denied", "expired", "new-authtok"} /\ Done(s, "SUCCESS")

(* What the library does once the conversation at point p returns, ok     *)
(* being PAM_SUCCESS with a secret in the prompt slot.  send_info ignores  *)
(* the outcome; at the other points a failure or a NULL slot ends the PAM  *)
(* call with PAM_CONV_ERR.                                                 *)
ConvReturned(s, p, ok) ==
  /\ waitPoint' = [waitPoint EXCEPT ![s] = None]
  /\ \/ /\ p = "login" /\ ok
        /\ \E u \in Users : user' = [user EXCEPT ![s] = u]
        /\ GoTo(s, "user_known")
     \/ p \in {"login", "password", "otp", "newtok"} /\ ~ok
        /\ Done(s, "CONV_ERR") /\ UNCHANGED user
     \/ p = "log" /\ GoTo(s, "password") /\ UNCHANGED user
     \/ /\ p = "password" /\ ok /\ user[s] = "two-factor"
        /\ (GoTo(s, "otp") \/ AuthenticateReturns(s, FALSE))
        /\ UNCHANGED user
     \/ /\ p = "password" /\ ok /\ user[s] # "two-factor"
        /\ \E match \in BOOLEAN : AuthenticateReturns(s, match)
        /\ UNCHANGED user
     \/ /\ p = "otp" /\ ok
        /\ \E match \in BOOLEAN : AuthenticateReturns(s, match)
        /\ UNCHANGED user
     \/ p = "acct_log" /\ AcctMgmtReturns(s) /\ UNCHANGED user
     \/ p = "newtok" /\ ok /\ Done(s, "SUCCESS") /\ UNCHANGED user

(* pam_conv_cb's unlocked stop_thread check: a stopped thread gets        *)
(* PAM_CONV_ERR at once.  The interactive check never fails: sessions      *)
(* started for a greeter keep the default interactive = TRUE of            *)
(* pam_session_init.  A cancel may come between this check and Publish.    *)
Converse(s, p) ==
  IF stopThread[s]
  THEN ConvReturned(s, p, FALSE) /\ UNCHANGED <<messages, queue>>
  ELSE /\ worker' = [worker EXCEPT ![s] = "converse"]
       /\ waitPoint' = [waitPoint EXCEPT ![s] = p]
       /\ UNCHANGED <<user, authResult, queue, messages, idle>>

(* pam_conv_cb past the check: store the batch, schedule                   *)
(* notify_messages_cb and block in g_async_queue_pop.                      *)
Publish(s) ==
  /\ worker[s] = "converse"
  /\ messages' = [messages EXCEPT ![s] = Batch(user[s], waitPoint[s])]
  /\ idle' = Append(idle, [cb |-> "messages", s |-> s])
  /\ worker' = [worker EXCEPT ![s] = "wait"]
  /\ UNCHANGED <<waitPoint, user, authResult, queue>>

(* pam_conv_cb after g_async_queue_pop returns: clear the shared messages, *)
(* then PAM_CONV_ERR if stop_thread is set, else hand the response to the  *)
(* library, which fails on an empty prompt slot.                           *)
Pop(s) ==
  /\ worker[s] = "wait"
  /\ queue[s] # <<>>
  /\ queue' = [queue EXCEPT ![s] = Tail(@)]
  /\ messages' = [messages EXCEPT ![s] = NoMessages]
  /\ ConvReturned(s, waitPoint[s], ~stopThread[s] /\ Head(queue[s]).filled)

(* One step of the authentication thread of s.                             *)
WorkerStep(s) ==
  /\ UNCHANGED <<thread, stopThread, inAuth, isAuthed>>
  /\ \/ worker[s] = "authenticate" /\ user[s] = None /\ Converse(s, "login")
     \/ /\ worker[s] \in {"authenticate", "user_known"} /\ user[s] = "log-pam"
        /\ Converse(s, "log")
     \/ /\ worker[s] \in {"authenticate", "user_known"}
        /\ user[s] \notin {None, "log-pam"}
        /\ Converse(s, "password")
     \/ worker[s] = "password" /\ Converse(s, "password")
     \/ worker[s] = "otp" /\ Converse(s, "otp")
     \/ worker[s] = "acct_mgmt" /\ user[s] = "log-pam" /\ Converse(s, "acct_log")
     \/ /\ worker[s] = "acct_mgmt" /\ user[s] # "log-pam"
        /\ AcctMgmtReturns(s)
        /\ UNCHANGED <<waitPoint, user, messages, queue>>
     \/ worker[s] = "chauthtok" /\ Converse(s, "newtok")
     \/ Publish(s)
     \/ Pop(s)

-----------------------------------------------------------------------------
(* Idle callbacks run by the main loop.                                    *)

Join(s) ==
  /\ idle # <<>>
  /\ Head(idle) = [cb |-> "complete", s |-> s]
  /\ idle' = Tail(idle)
  /\ thread' = [thread EXCEPT ![s] = FALSE]
  /\ worker' = [worker EXCEPT ![s] = "joined"]
  /\ queue' = [queue EXCEPT ![s] = <<>>]
  /\ inAuth' = [inAuth EXCEPT ![s] = FALSE]
  /\ isAuthed' = [isAuthed EXCEPT ![s] = authResult[s] = "SUCCESS"]
  /\ authResult' = [authResult EXCEPT ![s] = "SUCCESS"]
  /\ UNCHANGED <<stopThread, messages, user, waitPoint>>

-----------------------------------------------------------------------------
(* The refinement mapping to AuthSession.tla, one session at a time: the   *)
(* join decides SUCCEEDED or FAILED by is_authenticated; a thread blocked  *)
(* in pam_conv_cb is PROMPTING; in_authentication otherwise is            *)
(* AUTHENTICATING (also between the stop check and Publish).  The result  *)
(* is the one authenticate_cb stored, from when the worker is done until  *)
(* the join resets it.                                                     *)
AState(s) ==
  CASE worker[s] = "joined" -> IF isAuthed[s] THEN "SUCCEEDED" ELSE "FAILED"
    [] worker[s] = "wait"   -> "PROMPTING"
    [] inAuth[s]            -> "AUTHENTICATING"
    [] OTHER                -> "IDLE"

AResult(s) == IF worker[s] = "done" THEN authResult[s] ELSE None

=============================================================================
