------------------------------ MODULE UserList ------------------------------
(***************************************************************************)
(* The client library's user list (src/liblightdm-gobject/user.c), as a   *)
(* greeter process uses it, beside the two services it mirrors: the       *)
(* accounts service (or, when that does not answer, the password file)    *)
(* and the daemon's own session objects on the bus (src/src/lightdm.c).   *)
(*                                                                         *)
(* The client is single-threaded.  load_users subscribes to the signals,  *)
(* then makes blocking calls: ListCachedUsers, one GetAll per listed user, *)
(* Get Sessions, one Get UserName per listed session.  The services keep  *)
(* changing meanwhile; the signals they emit wait in the client's main    *)
(* context and are dispatched, in order, only once load_users returns.    *)
(* Each blocking call is a step of its own; the services act between      *)
(* them.                                                                   *)
(*                                                                         *)
(* A user object is named by its accounts object path, or by its login    *)
(* name when it comes from the password file.  Display names are fixed,   *)
(* given as their rank in the sort order.                                 *)
(***************************************************************************)
EXTENDS Integers, Sequences, SequencesExt, Functions

CONSTANTS
  Paths,        \* object paths of the accounts service's users
  SystemPaths,  \* those whose SystemAccount property is true
  Names,        \* login names a visible password entry may have
  SessionPaths, \* the daemon's /org/freedesktop/DisplayManager/SessionN
  SessionUser,  \* the UserName of each session
  Rank,         \* the display name order of every user object
  Langs,        \* values the Language property of an account may take
  MaxChanges    \* bound on the changes the services make

ASSUME SystemPaths \subseteq Paths
ASSUME SessionUser \in [SessionPaths -> Names]
ASSUME Rank \in [Paths \cup Names -> Nat]

Signals == [sig : {"UserAdded", "UserDeleted", "Changed"}, arg : Paths]
      \cup [sig : {"SessionAdded", "SessionRemoved"}, arg : SessionPaths]

Phases == {"idle", "ListCachedUsers", "GetAll", "GetSessions", "GetUserName",
           "loaded"}

VARIABLES
  acct,        \* the accounts service: which user objects exist
  lang,        \* the Language property of each account
  passwd,      \* the visible entries of the password database
  dm,          \* each session path: unborn, live (on the bus) or gone
  changes,     \* changes the services made so far
  pc,          \* how far load_users has got
  mode,        \* the source the list follows: accounts or passwd
  subAcct,     \* UserAdded/UserDeleted subscribed
  subDM,       \* SessionAdded/SessionRemoved subscribed
  inbox,       \* signals waiting in the client's main context
  passwdDirty, \* the file monitor has a change to report
  toLoad,      \* paths of the reply being walked by load_users
  users,       \* priv->users
  cLang,       \* each user object's priv->language, as its GetAll left it
  sessions     \* priv->sessions, by path

serviceVars == <<acct, lang, passwd, dm, changes>>
vars == <<serviceVars, pc, mode, subAcct, subDM, inbox, passwdDirty, toLoad,
          users, cLang, sessions>>

-----------------------------------------------------------------------------
(* The daemon side (lightdm.c).                                            *)

(* The Sessions property: every session with a bus entry.                  *)
LiveSessions == {s \in SessionPaths : dm[s] = "live"}

(* A session's UserName property, readable while its object is on the    *)
(* bus: a Get for it fails once the object is gone.                        *)
UserNameReadable(s) == dm[s] = "live"

-----------------------------------------------------------------------------
(* The client's helpers (user.c).                                          *)

(* get_user_by_path                                                        *)
HasUserByPath(p) == \E i \in 1..Len(users) : users[i] = p

(* g_list_insert_sorted with compare_user: before the first user whose    *)
(* display name is not smaller.                                            *)
InsertSorted(s, u) ==
  LET i == SelectInSeq(s, LAMBDA v : Rank[u] <= Rank[v])
  IN IF i = 0 THEN Append(s, u) ELSE InsertAt(s, i, u)

(* load_accounts_user's GetAll succeeds and the user is no system        *)
(* account: add_accounts_user keeps it.                                    *)
AccountsUserLoads(p) == acct[p] /\ p \notin SystemPaths

(* add_accounts_user                                                       *)
AddAccountsUser(p) ==
  IF AccountsUserLoads(p) THEN InsertSorted(users, p) ELSE users

(* load_accounts_user's effect on the cached values: when GetAll answers, *)
(* the Language it returns is stored, system account or not.               *)
LoadAccountsUser(p) ==
  IF acct[p] THEN [cLang EXCEPT ![p] = lang[p]] ELSE cLang

(* The user object's Changed subscription (priv->changed_signal): made    *)
(* by load_accounts_user before its GetAll, dropped by                     *)
(* lightdm_user_finalize when the list lets the object go.                 *)
Subscribed(p) == mode = "accounts" /\ HasUserByPath(p)

(* lightdm_user_get_language: load_user_values does nothing once          *)
(* load_accounts_user has set loaded_values, so the cached value is read.  *)
UserLanguage(p) == cLang[p]

(* Variant of PasswdList that adds the new entries to the old list and    *)
(* never drops the users gone from the file.                               *)
PasswdListKeepOld(entries) ==
  FoldLeft(LAMBDA acc, n : InsertSorted(acc, n), users,
           SetToSeq(entries \ ToSet(users)))

(* load_passwd_file: the visible entries, in getpwent order, each         *)
(* inserted sorted.  A name already in the list keeps its object, so the  *)
(* new list is the file's; the users left out are dropped.                *)
PasswdList(entries) ==
  FoldLeft(LAMBDA acc, n : InsertSorted(acc, n), <<>>, SetToSeq(entries))

(* load_session: Get UserName, and append the session if it answered.     *)
LoadSession(s) ==
  IF UserNameReadable(s) THEN Append(sessions, s) ELSE sessions

(* Record the signal when its subscription exists.                         *)
Emit(sub, sig, arg) ==
  IF sub THEN Append(inbox, [sig |-> sig, arg |-> arg]) ELSE inbox

-----------------------------------------------------------------------------

TypeOK ==
  /\ acct \in [Paths -> BOOLEAN]
  /\ lang \in [Paths -> Langs]
  /\ passwd \subseteq Names
  /\ dm \in [SessionPaths -> {"unborn", "live", "gone"}]
  /\ changes \in 0..MaxChanges
  /\ pc \in Phases
  /\ mode \in {"accounts", "passwd"}
  /\ subAcct \in BOOLEAN /\ subDM \in BOOLEAN
  /\ inbox \in Seq(Signals)
  /\ passwdDirty \in BOOLEAN
  /\ toLoad \in Seq(Paths \cup SessionPaths)
  /\ users \in Seq(IF mode = "accounts" THEN Paths ELSE Names)
  /\ cLang \in [Paths -> Langs \cup {"unset"}]
  /\ sessions \in Seq(SessionPaths)

(* Before the greeter first asks for the list, nothing is loaded and      *)
(* nothing subscribed; the services may be in any state.                   *)
Init ==
  /\ acct \in [Paths -> BOOLEAN]
  /\ lang \in [Paths -> Langs]
  /\ passwd \in SUBSET Names
  /\ dm \in [SessionPaths -> {"unborn", "live"}]
  /\ changes = 0
  /\ pc = "idle"
  /\ mode = "accounts"
  /\ subAcct = FALSE /\ subDM = FALSE
  /\ inbox = <<>>
  /\ passwdDirty = FALSE
  /\ toLoad = <<>>
  /\ users = <<>>
  /\ cLang = [p \in Paths |-> "unset"]
  /\ sessions = <<>>

-----------------------------------------------------------------------------
(* The services.                                                           *)

clientVars == <<pc, mode, subAcct, subDM, toLoad, users, cLang, sessions>>

AcctAdd(p) ==
  /\ changes < MaxChanges /\ ~acct[p]
  /\ acct' = [acct EXCEPT ![p] = TRUE]
  /\ changes' = changes + 1
  /\ inbox' = Emit(subAcct, "UserAdded", p)
  /\ UNCHANGED <<lang, passwd, dm, passwdDirty, clientVars>>

AcctDelete(p) ==
  /\ changes < MaxChanges /\ acct[p]
  /\ acct' = [acct EXCEPT ![p] = FALSE]
  /\ changes' = changes + 1
  /\ inbox' = Emit(subAcct, "UserDeleted", p)
  /\ UNCHANGED <<lang, passwd, dm, passwdDirty, clientVars>>

(* SetLanguage on an account: the property changes and the account emits *)
(* Changed, which reaches the client while a user object subscribes.      *)
AcctSetLanguage(p) ==
  /\ changes < MaxChanges /\ acct[p]
  /\ \E l \in Langs \ {lang[p]} : lang' = [lang EXCEPT ![p] = l]
  /\ changes' = changes + 1
  /\ inbox' = Emit(Subscribed(p), "Changed", p)
  /\ UNCHANGED <<acct, passwd, dm, passwdDirty, clientVars>>

(* The password file is rewritten; the monitor, set up when the list      *)
(* fell back to the file, reports it.                                      *)
PasswdEdit ==
  /\ changes < MaxChanges
  /\ \E e \in SUBSET Names \ {passwd} : passwd' = e
  /\ changes' = changes + 1
  /\ passwdDirty' = (passwdDirty \/ mode = "passwd")
  /\ UNCHANGED <<acct, lang, dm, inbox, clientVars>>

(* session_started_cb: the session's bus entry is added, its object       *)
(* registered and SessionAdded emitted.  Paths are never reused.           *)
SessionStarted(s) ==
  /\ changes < MaxChanges /\ dm[s] = "unborn"
  /\ dm' = [dm EXCEPT ![s] = "live"]
  /\ changes' = changes + 1
  /\ inbox' = Emit(subDM, "SessionAdded", s)
  /\ UNCHANGED <<acct, lang, passwd, passwdDirty, clientVars>>

(* session_stopped_cb removes the bus entry; bus_entry_free unregisters   *)
(* the object and emits SessionRemoved.                                    *)
SessionStopped(s) ==
  /\ changes < MaxChanges /\ dm[s] = "live"
  /\ dm' = [dm EXCEPT ![s] = "gone"]
  /\ changes' = changes + 1
  /\ inbox' = Emit(subDM, "SessionRemoved", s)
  /\ UNCHANGED <<acct, lang, passwd, passwdDirty, clientVars>>


-----------------------------------------------------------------------------
(* The client.                                                             *)

(* The rest of load_users once the users are in: subscribe to             *)
(* SessionAdded and SessionRemoved, then call Get Sessions.                 *)
WatchSessions ==
  /\ subDM' = TRUE
  /\ pc' = "GetSessions"

(* load_users, first call: have_users, subscribe to UserAdded and          *)
(* UserDeleted, call ListCachedUsers.                                       *)
LoadUsers ==
  /\ pc = "idle"
  /\ subAcct' = TRUE
  /\ pc' = "ListCachedUsers"
  /\ UNCHANGED <<serviceVars, mode, subDM, inbox, passwdDirty, toLoad, users,
                 cLang, sessions>>

(* The reply lists the users the service has now.                          *)
ListCachedUsersReply ==
  /\ pc = "ListCachedUsers"
  /\ LET listed == SetToSeq({p \in Paths : acct[p]}) IN
     /\ toLoad' = listed
     /\ IF listed = <<>> THEN WatchSessions
        ELSE pc' = "GetAll" /\ UNCHANGED subDM
  /\ UNCHANGED <<serviceVars, mode, subAcct, inbox, passwdDirty, users,
                 cLang, sessions>>

(* Variant of ListCachedUsersFailed whose callbacks still run for the     *)
(* signals that were waiting when it unsubscribed.                         *)
ListCachedUsersFailedKeepsSignals ==
  /\ pc = "ListCachedUsers"
  /\ subAcct' = FALSE
  /\ users' = PasswdList(passwd)
  /\ mode' = "passwd"
  /\ WatchSessions
  /\ UNCHANGED <<serviceVars, inbox, passwdDirty, toLoad, cLang, sessions>>

(* The call fails: unsubscribe (signals already waiting are not           *)
(* delivered), load the password file, monitor it, watch sessions.        *)
ListCachedUsersFailed ==
  /\ pc = "ListCachedUsers"
  /\ subAcct' = FALSE
  /\ inbox' = SelectSeq(inbox, LAMBDA m : m.sig \notin {"UserAdded", "UserDeleted"})
  /\ users' = PasswdList(passwd)
  /\ mode' = "passwd"
  /\ WatchSessions
  /\ UNCHANGED <<serviceVars, passwdDirty, toLoad, cLang, sessions>>

(* add_accounts_user for the next listed path: GetAll answers with the    *)
(* service's state now.  After the last, watch sessions.                   *)
AddListedUser ==
  /\ pc = "GetAll"
  /\ users' = AddAccountsUser(Head(toLoad))
  /\ cLang' = LoadAccountsUser(Head(toLoad))
  /\ toLoad' = Tail(toLoad)
  /\ IF Tail(toLoad) = <<>> THEN WatchSessions
     ELSE UNCHANGED <<pc, subDM>>
  /\ UNCHANGED <<serviceVars, mode, subAcct, inbox, passwdDirty, sessions>>

(* The Get Sessions reply lists the live sessions.                          *)
GetSessionsReply ==
  /\ pc = "GetSessions"
  /\ LET listed == SetToSeq(LiveSessions) IN
     /\ toLoad' = listed
     /\ pc' = IF listed = <<>> THEN "loaded" ELSE "GetUserName"
  /\ UNCHANGED <<serviceVars, mode, subAcct, subDM, inbox, passwdDirty, users,
                 cLang, sessions>>

(* Variant of LoadListedSession whose loop stops one path early: the last *)
(* session is never loaded and load_users never returns.                  *)
LoadListedSessionStopsEarly ==
  /\ pc = "GetUserName" /\ Len(toLoad) > 1
  /\ sessions' = LoadSession(Head(toLoad))
  /\ toLoad' = Tail(toLoad)
  /\ UNCHANGED <<serviceVars, pc, mode, subAcct, subDM, inbox, passwdDirty,
                 users, cLang>>

(* load_session for the next listed path.  After the last, load_users     *)
(* returns.                                                                 *)
LoadListedSession ==
  /\ pc = "GetUserName"
  /\ sessions' = LoadSession(Head(toLoad))
  /\ toLoad' = Tail(toLoad)
  /\ pc' = IF Tail(toLoad) = <<>> THEN "loaded" ELSE pc
  /\ UNCHANGED <<serviceVars, mode, subAcct, subDM, inbox, passwdDirty, users,
                 cLang>>

(* The main loop takes the oldest waiting signal for its callback.         *)
Dispatch(sig) ==
  /\ pc = "loaded"
  /\ inbox # <<>> /\ Head(inbox).sig = sig
  /\ UNCHANGED <<serviceVars, pc, mode, subAcct, subDM, passwdDirty, toLoad>>

(* Variant of UserAddedCb without the get_user_by_path check.            *)
UserAddedCbNoLookup(p) ==
  /\ inbox' = Tail(inbox)
  /\ users' = AddAccountsUser(p)
  /\ cLang' = LoadAccountsUser(p)
  /\ UNCHANGED sessions

(* accounts_user_added_cb: add the user unless get_user_by_path has it.    *)
UserAddedCb(p) ==
  /\ inbox' = Tail(inbox)
  /\ IF HasUserByPath(p) THEN UNCHANGED <<users, cLang>>
     ELSE users' = AddAccountsUser(p) /\ cLang' = LoadAccountsUser(p)
  /\ UNCHANGED sessions

(* accounts_user_deleted_cb: g_list_remove of the user with that path,    *)
(* whose unref ends its Changed subscription: the Changed signals still   *)
(* waiting for it are not delivered.                                        *)
UserDeletedCb(p) ==
  /\ inbox' = IF HasUserByPath(p)
              THEN SelectSeq(Tail(inbox), LAMBDA m : m # [sig |-> "Changed", arg |-> p])
              ELSE Tail(inbox)
  /\ users' = RemoveFirst(users, p)
  /\ UNCHANGED <<cLang, sessions>>

(* Variant of SessionAddedCb that only tells the user's listeners.        *)
SessionAddedCbChangedOnly(s) ==
  /\ inbox' = Tail(inbox)
  /\ UNCHANGED <<users, cLang, sessions>>

(* session_added_cb: load_session, then a changed signal for its user.     *)
SessionAddedCb(s) ==
  /\ inbox' = Tail(inbox)
  /\ sessions' = LoadSession(s)
  /\ UNCHANGED <<users, cLang>>

(* session_removed_cb: unlink the first session with that path.            *)
SessionRemovedCb(s) ==
  /\ inbox' = Tail(inbox)
  /\ sessions' = RemoveFirst(sessions, s)
  /\ UNCHANGED <<users, cLang>>

(* Variant of AccountsUserChangedCb that only tells the listeners.        *)
AccountsUserChangedCbNoReload(p) ==
  /\ inbox' = Tail(inbox)
  /\ UNCHANGED <<users, cLang, sessions>>

(* accounts_user_changed_cb: load_accounts_user again; its GetAll stores  *)
(* the values of now, or fails and leaves them.                             *)
AccountsUserChangedCb(p) ==
  /\ inbox' = Tail(inbox)
  /\ cLang' = LoadAccountsUser(p)
  /\ UNCHANGED <<users, sessions>>

(* passwd_changed_cb on CHANGES_DONE_HINT: load_passwd_file (TRUE).        *)
PasswdChanged ==
  /\ pc = "loaded" /\ passwdDirty
  /\ passwdDirty' = FALSE
  /\ users' = PasswdList(passwd)
  /\ UNCHANGED <<serviceVars, pc, mode, subAcct, subDM, inbox, toLoad, cLang,
                 sessions>>

Next ==
  \/ \E p \in Paths : AcctAdd(p) \/ AcctDelete(p) \/ AcctSetLanguage(p)
  \/ PasswdEdit
  \/ \E s \in SessionPaths : SessionStarted(s) \/ SessionStopped(s)
  \/ LoadUsers
  \/ ListCachedUsersReply
  \/ ListCachedUsersFailed
  \/ AddListedUser
  \/ GetSessionsReply
  \/ LoadListedSession
  \/ Dispatch("UserAdded") /\ UserAddedCb(Head(inbox).arg)
  \/ Dispatch("UserDeleted") /\ UserDeletedCb(Head(inbox).arg)
  \/ Dispatch("SessionAdded") /\ SessionAddedCb(Head(inbox).arg)
  \/ Dispatch("SessionRemoved") /\ SessionRemovedCb(Head(inbox).arg)
  \/ Dispatch("Changed") /\ AccountsUserChangedCb(Head(inbox).arg)
  \/ PasswdChanged

Spec == Init /\ [][Next]_vars

(* The client's own steps, each taken once it is enabled: a blocking call *)
(* returns, with the reply or with an error (GDBus's call timeout), and    *)
(* the main loop dispatches every waiting signal and file-monitor event.   *)
(* The greeter need never ask for the list, and the services owe nothing.  *)
ClientFairness ==
  /\ WF_vars(ListCachedUsersReply \/ ListCachedUsersFailed)
  /\ WF_vars(AddListedUser)
  /\ WF_vars(GetSessionsReply)
  /\ WF_vars(LoadListedSession)
  /\ WF_vars(PasswdChanged)
  /\ \A sig \in {"UserAdded", "UserDeleted", "SessionAdded", "SessionRemoved",
                  "Changed"} :
       WF_vars(Dispatch(sig) /\ Next)

FairSpec == Spec /\ ClientFairness

-----------------------------------------------------------------------------
(* Properties.  The list is compared with its source when the client has  *)
(* caught up: load_users has returned and no signal or file change waits. *)

Quiescent == pc = "loaded" /\ inbox = <<>> /\ ~passwdDirty

(* The users the list should show: the accounts service's non-system     *)
(* users, or the visible password entries after the fallback.              *)
SourceUsers ==
  IF mode = "accounts" THEN {p \in Paths : AccountsUserLoads(p)} ELSE passwd

(* lightdm_user_get_logged_in: a session in priv->sessions has the name.   *)
LoggedIn(n) == \E i \in 1..Len(sessions) : SessionUser[sessions[i]] = n

(* No user object is in the list twice, though a user added while         *)
(* ListCachedUsers is outstanding arrives both in the reply and as a       *)
(* UserAdded signal.                                                       *)
UsersUnique == IsInjective(users)

(* Once caught up, the list shows exactly the source's users, whatever    *)
(* additions and deletions raced the blocking calls of load_users.         *)
UserListAccurate == Quiescent => ToSet(users) = SourceUsers

(* Once caught up, every session on the bus is known to the client: no    *)
(* session started around load_users is missed.                            *)
LiveSessionsKnown == Quiescent => LiveSessions \subseteq ToSet(sessions)

(* lightdm_user_get_logged_in is TRUE exactly for the users with a live   *)
(* session, once the client has caught up.                                 *)
LoggedInAccurate ==
  Quiescent =>
    \A n \in Names : LoggedIn(n) <=> \E s \in LiveSessions : SessionUser[s] = n


(* Once caught up, every listed accounts user reports, through            *)
(* lightdm_user_get_language, the Language the service holds now: a       *)
(* SetLanguage racing load_users, a user's GetAll or its deletion and     *)
(* re-creation is not lost, because each user object subscribes to        *)
(* Changed before its GetAll and reloads on every Changed.                 *)
UserValuesFresh ==
  (Quiescent /\ mode = "accounts") =>
    \A i \in 1..Len(users) : UserLanguage(users[i]) = lang[users[i]]

(* Once the greeter has asked for the list, the client catches up for     *)
(* good: load_users returns from its chain of blocking calls, and every    *)
(* signal and file change the services send while it waits is dispatched, *)
(* so the list ends up matching its source (UserListAccurate) once the     *)
(* services stop changing, whatever the order of their changes.            *)
ListConverges == pc # "idle" ~> []Quiescent

====
