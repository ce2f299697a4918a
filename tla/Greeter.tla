------------------------------- MODULE Greeter -------------------------------
(***************************************************************************)
(* The daemon side of the greeter protocol (src/src/greeter.c) driving the *)
(* PAM sessions of PAMSession.tla on the daemon's single main loop.        *)
(*                                                                         *)
(* Each greeter message is handled to completion by read_cb; idle          *)
(* callbacks scheduled by the authentication threads run between greeter   *)
(* messages, in the order they were added.  The greeter is untrusted: it  *)
(* may send any request at any time, with any number of secrets.           *)
(*                                                                         *)
(* The greeter numbers its authentication requests 1, 2, ...; the history *)
(* variables ends, lastEnd and started record what the daemon answered.   *)
(***************************************************************************)
EXTENDS PAMSession, FiniteSets

CONSTANTS
  MaxRequests,  \* bound on AUTHENTICATE / AUTHENTICATE_AS_GUEST requests
  MaxSecrets,   \* bound on the secrets a CONTINUE_AUTHENTICATION carries
  QueueBound,   \* bound on items waiting in one response queue
  AllowGuest    \* the allow_guest flag the display gave the greeter

Requests == 1..MaxRequests

(* Every request to authenticate gets a fresh PAMSession, named after it. *)
ASSUME Sessions = Requests

VARIABLES
  auth,         \* authentication: the PAMSession being driven, or None
  seqNo,        \* authentication_sequence_number
  guestAuthed,  \* guest_account_authenticated
  handlers,     \* sessions whose got-messages/authentication-result
                \* handlers are connected to this greeter
  req,          \* the last request number the greeter used
  ends,         \* ends[r]: END_AUTHENTICATION frames sent for number r
  lastEnd,      \* the last END_AUTHENTICATION frame sent
  started       \* for each START_SESSION emitted: lastEnd and req then

greeterVars == <<auth, seqNo, guestAuthed, handlers, req, ends, lastEnd,
                 started>>
vars == <<pamVars, greeterVars>>

NoEnd == [seq |-> 0, result |-> "SUCCESS"]

TypeOK ==
  /\ PAMTypeOK
  /\ auth \in Sessions \cup {None}
  /\ seqNo \in 0..MaxRequests
  /\ guestAuthed \in BOOLEAN
  /\ handlers \subseteq Sessions
  /\ req \in 0..MaxRequests
  /\ ends \in [Requests -> Nat]
  /\ lastEnd \in [seq : 0..MaxRequests, result : Results]
  /\ started \subseteq [end : [seq : 0..MaxRequests, result : Results],
                        req : 0..MaxRequests]

Init ==
  /\ PAMInit
  /\ auth = None
  /\ seqNo = 0
  /\ guestAuthed = FALSE
  /\ handlers = {}
  /\ req = 0
  /\ ends = [r \in Requests |-> 0]
  /\ lastEnd = NoEnd
  /\ started = {}

(* Variant of SendEnd that writes the sequence number one too high.         *)
SendEndOffByOne(r, result) ==
  /\ ends' = [ends EXCEPT ![r] = @ + 1]
  /\ lastEnd' = [seq |-> r + 1, result |-> result]

(* send_end_authentication                                                 *)
SendEnd(r, result) ==
  /\ ends' = [ends EXCEPT ![r] = @ + 1]
  /\ lastEnd' = [seq |-> r, result |-> result]

-----------------------------------------------------------------------------
(* reset_session: disconnect the greeter's handlers from the current       *)
(* session, cancel it and drop it; then forget a guest authentication.     *)
(* Variant of ResetCancel that drops the session without cancelling it.    *)
ResetKeepsRunning == UNCHANGED <<stopThread, queue>>

ResetCancel ==
  IF auth # None THEN Cancel(auth) ELSE UNCHANGED <<stopThread, queue>>

(* Variant of HandlersAfterReset that leaves the handlers connected.        *)
HandlersKept == handlers

HandlersAfterReset == handlers \ {auth}

(* Variant of ResetSession that keeps guest_account_authenticated.         *)
ResetKeepsGuest == ResetCancel /\ UNCHANGED guestAuthed

ResetSession ==
  /\ ResetCancel
  /\ guestAuthed' = FALSE

(* handle_login: reset, take the new sequence number, ask the display for  *)
(* a session (START_AUTHENTICATION), connect to it and start it.          *)
HandleLogin ==
  /\ req < MaxRequests
  /\ \E u \in Users \cup {None} :
       LET r == req + 1 IN
       /\ req' = r
       /\ ResetSession
       /\ seqNo' = r
       /\ \/ /\ auth' = None
             /\ handlers' = HandlersAfterReset
             /\ SendEnd(r, "USER_UNKNOWN")
             /\ UNCHANGED <<user, inAuth, thread, worker>>
          \/ /\ auth' = r
             /\ handlers' = HandlersAfterReset \cup {r}
             /\ New(r, u)
             /\ \/ AuthenticateStarted(r) /\ UNCHANGED <<ends, lastEnd>>
                \/ AuthenticateThreadFailed(r) /\ SendEnd(r, "SYSTEM_ERR")
  /\ UNCHANGED <<waitPoint, isAuthed, messages, authResult, idle, started>>

(* handle_login_as_guest: reset, then answer from allow_guest alone.  The  *)
(* sequence number of the greeter is not stored.                           *)
HandleLoginAsGuest ==
  /\ req < MaxRequests
  /\ req' = req + 1
  /\ ResetCancel
  /\ auth' = None
  /\ handlers' = HandlersAfterReset
  /\ guestAuthed' = AllowGuest
  /\ SendEnd(req + 1, IF AllowGuest THEN "SUCCESS" ELSE "USER_UNKNOWN")
  /\ UNCHANGED <<worker, waitPoint, user, thread, inAuth, isAuthed, messages,
                 authResult, idle, seqNo, started>>

(* handle_continue_authentication with n secrets: compare n with the       *)
(* prompts of the messages the session holds now; cancel on a mismatch,   *)
(* else answer with one slot per message, the prompt slots filled.         *)
HandleContinue ==
  /\ auth # None
  /\ Len(queue[auth]) < QueueBound
  /\ \E n \in 0..MaxSecrets :
       LET m == messages[auth] IN
       IF n # m.prompts
       THEN Cancel(auth)
       ELSE Respond(auth, m.msgs, m.prompts > 0) /\ UNCHANGED stopThread
  /\ UNCHANGED <<worker, waitPoint, user, thread, inAuth, isAuthed, messages,
                 authResult, idle, greeterVars>>

(* handle_cancel_authentication                                            *)
HandleCancel ==
  /\ auth # None
  /\ Len(queue[auth]) < QueueBound
  /\ Cancel(auth)
  /\ UNCHANGED <<worker, waitPoint, user, thread, inAuth, isAuthed, messages,
                 authResult, idle, greeterVars>>

(* handle_start_session: START_SESSION is emitted only for a guest or an   *)
(* authenticated session; otherwise SESSION_RESULT(1) is all that is sent. *)
HandleStartSession ==
  /\ guestAuthed \/ (auth # None /\ isAuthed[auth])
  /\ started' = started \cup {[end |-> lastEnd, req |-> req]}
  /\ UNCHANGED <<pamVars, auth, seqNo, guestAuthed, handlers, req, ends,
                 lastEnd>>

-----------------------------------------------------------------------------
(* notify_messages_cb emitting got-messages with whatever the session      *)
(* holds at dispatch time, and pam_messages_cb: send the PROMPT frame and, *)
(* when no message is a prompt, answer at once with an empty array.        *)
DispatchMessages ==
  /\ idle # <<>>
  /\ Head(idle).cb = "messages"
  /\ idle' = Tail(idle)
  /\ LET s == Head(idle).s
         m == messages[s]
     IN IF s \in handlers /\ m.prompts = 0
        THEN Respond(auth, m.msgs, FALSE)
        ELSE UNCHANGED queue
  /\ UNCHANGED <<worker, waitPoint, user, thread, stopThread, inAuth,
                 isAuthed, messages, authResult, greeterVars>>

(* notify_auth_complete_cb and authentication_result_cb: END is sent with  *)
(* the greeter's current sequence number.                                  *)
DispatchComplete ==
  /\ idle # <<>>
  /\ Head(idle).cb = "complete"
  /\ LET s == Head(idle).s IN
     /\ Join(s)
     /\ IF s \in handlers
        THEN SendEnd(seqNo, authResult[s])
        ELSE UNCHANGED <<ends, lastEnd>>
  /\ UNCHANGED <<auth, seqNo, guestAuthed, handlers, req, started>>

Worker(s) == WorkerStep(s) /\ UNCHANGED greeterVars

Next ==
  \/ HandleLogin
  \/ HandleLoginAsGuest
  \/ HandleContinue
  \/ HandleCancel
  \/ HandleStartSession
  \/ DispatchMessages
  \/ DispatchComplete
  \/ \E s \in Sessions : Worker(s)

(* The threads run until they block, and the main loop runs its idle       *)
(* callbacks whenever no greeter input is waiting; the greeter is never   *)
(* obliged to send anything.                                               *)
Fairness ==
  /\ \A s \in Sessions : WF_vars(Worker(s))
  /\ WF_vars(DispatchMessages \/ DispatchComplete)

Spec == Init /\ [][Next]_vars /\ Fairness

-----------------------------------------------------------------------------
(* Properties.                                                             *)

(* At most one authentication is live, and it is the greeter's current    *)
(* one: reset_session cancels a session before handle_login or            *)
(* handle_login_as_guest replaces it, so every other thread still running *)
(* has stop_thread set.                                                    *)
LiveSessionIsCurrent ==
  \A s \in Sessions : thread[s] /\ ~stopThread[s] => s = auth

(* The greeter hears END_AUTHENTICATION at most once for each sequence     *)
(* number, even though a replaced session's thread finishes later and     *)
(* authentication_result_cb stamps its frame with the current number.     *)
EndAtMostOnce == \A r \in Requests : ends[r] <= 1

(* START_SESSION is emitted only when the last END_AUTHENTICATION the      *)
(* greeter saw was SUCCESS for its latest request: handle_start_session    *)
(* trusts guest_account_authenticated and is_authenticated, which          *)
(* reset_session and a new session must not let outlive their request.     *)
StartOnlyAfterSuccess ==
  \A e \in started : e.end.result = "SUCCESS" /\ e.end.seq = e.req

(* A cancelled authentication thread is eventually joined:                 *)
(* pam_session_cancel's sentinel wakes a thread blocked in pam_conv_cb,    *)
(* and notify_auth_complete_cb then joins it, whatever the greeter does.   *)
CancelledSessionJoins ==
  \A s \in Sessions : stopThread[s] ~> worker[s] = "joined"

(* The response a waiting, uncancelled thread will pop has one slot per    *)
(* message of the batch it is waiting on (libsystem.c reads               *)
(* resp[password_index] of it); handle_continue_authentication sizes the  *)
(* response from the messages the session holds when it is handled.       *)
ResponseFitsBatch ==
  \A s \in Sessions :
    /\ worker[s] = "wait" /\ ~stopThread[s] /\ queue[s] # <<>>
    /\ Head(queue[s]).kind = "response"
    => Head(queue[s]).size = messages[s].msgs

(* Every session the greeter creates behaves as the spec's AuthSession:   *)
(* it prompts only while authenticating and with no result stored, an     *)
(* answer moves it back to authenticating, a cancel sticks, and           *)
(* notify_auth_complete_cb turns the stored result into SUCCEEDED or      *)
(* FAILED exactly once, SUCCEEDED only for PAM_SUCCESS, although the same *)
(* callback resets the result field to 0, which is PAM_SUCCESS.           *)
AS(s) == INSTANCE AuthSession
           WITH state <- AState(s), result <- AResult(s), stop <- stopThread[s],
                Results <- Results, NoResult <- None

CancelledNeverAuthenticated ==
  auth # None /\ stopThread[auth] => ~isAuthed[auth]

=============================================================================
