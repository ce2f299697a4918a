-------------------------------- MODULE Seat --------------------------------
(***************************************************************************)
(* A seat (src/src/seat.c) and the displays it owns, on the daemon's main  *)
(* loop.  Every step below is one callback run to completion: a bus call  *)
(* of lightdm.c (SwitchToGreeter, SwitchToUser, SwitchToGuest), a signal  *)
(* a display emits to the seat (start-display-server, start-greeter,      *)
(* start-session, ready, switch-to-user, switch-to-guest,                 *)
(* get-guest-username, stopped), a session's "stopped", or the daemon     *)
(* stopping the seat.                                                      *)
(*                                                                         *)
(* display.c is not part of the repository: the display life cycle the    *)
(* seat reacts to is taken from the specification (section 4.3): a        *)
(* display starts its server, runs the display-setup hook, then either    *)
(* autologs in or starts a greeter; the greeter logs a user or the guest  *)
(* in; the session-setup hook guards the session; a display whose greeter *)
(* or session ends, or that is told to stop, stops.                        *)
(*                                                                         *)
(* A display is a number, allocated once and never reused, as a GObject   *)
(* the seat still holds a reference to is never freed.                     *)
(***************************************************************************)
EXTENDS Naturals, Sequences, SequencesExt

CONSTANTS
  Users,          \* user names the greeter and the bus may ask for
  GuestNames,     \* names guest_account_setup may return
  None,           \* NULL
  MaxDisplays,    \* bound on the displays the seat ever creates
  CanSwitch,      \* can_switch (set TRUE by the local X seat's setup)
  AllowGuest,     \* allow-guest is "true" and a guest account is installed
  AutologinUser,  \* the autologin-user property ("" is None)
  AutologinGuest, \* the autologin-guest property
  HookMayFail     \* hook scripts are configured and may exit nonzero

ASSUME None \notin Users /\ None \notin GuestNames /\ Users \cap GuestNames = {}
ASSUME AutologinUser \in Users \cup {None}

DisplayIds == 1..MaxDisplays
Names == Users \cup GuestNames

(* "unused": not created yet.  Live displays may still be stopped.         *)
DisplayStates ==
  {"unused", "starting", "autologin", "greeter", "session", "stopping",
   "stopped"}
Live == {"starting", "autologin", "greeter", "session"}

(* The exit status of a configured hook: run_script is TRUE for status 0.  *)
HookOutcomes == IF HookMayFail THEN BOOLEAN ELSE {TRUE}

VARIABLES
  displays,     \* priv->displays, in list order
  active,       \* priv->active_display, or None
  guestName,    \* priv->guest_username, or None
  seatStarted,  \* seat_start has run
  stopping,     \* priv->stopping
  stopped,      \* priv->stopped
  dstate,       \* dstate[d]: the state of display d
  dUser,        \* display_get_username: the user of d's session, or None
  dAuto,        \* the autologin display_set_autologin_user gave d
  pending,      \* the user an autologin display is authenticating
  dSession,     \* d's user session is running
  ready         \* d has emitted "ready"

seatVars == <<displays, active, guestName, seatStarted, stopping, stopped>>
displayVars == <<dstate, dUser, dAuto, pending, dSession, ready>>
vars == <<seatVars, displayVars>>

TypeOK ==
  /\ displays \in Seq(DisplayIds)
  /\ active \in DisplayIds \cup {None}
  /\ guestName \in GuestNames \cup {None}
  /\ {seatStarted, stopping, stopped} \subseteq BOOLEAN
  /\ dstate \in [DisplayIds -> DisplayStates]
  /\ dUser \in [DisplayIds -> Names \cup {None}]
  /\ dAuto \in [DisplayIds -> {"none", "user", "guest"}]
  /\ pending \in [DisplayIds -> Names \cup {None}]
  /\ dSession \in [DisplayIds -> BOOLEAN]
  /\ ready \in [DisplayIds -> BOOLEAN]

(* seat_init and the SeatPrivate a new seat starts with.                    *)
Init ==
  /\ displays = <<>>
  /\ active = None
  /\ guestName = None
  /\ seatStarted = FALSE
  /\ stopping = FALSE
  /\ stopped = FALSE
  /\ dstate = [d \in DisplayIds |-> "unused"]
  /\ dUser = [d \in DisplayIds |-> None]
  /\ dAuto = [d \in DisplayIds |-> "none"]
  /\ pending = [d \in DisplayIds |-> None]
  /\ dSession = [d \in DisplayIds |-> FALSE]
  /\ ready = [d \in DisplayIds |-> FALSE]

-----------------------------------------------------------------------------
(* Helpers: values computed from the current state.                       *)

(* display_stop on each display of S: a live display starts stopping; a   *)
(* display already stopping or stopped is left alone.                      *)
StopSet(S) ==
  [d \in DisplayIds |-> IF d \in S /\ dstate[d] \in Live THEN "stopping"
                                                        ELSE dstate[d]]

(* seat_real_set_active_display(x): the displays it stops, namely the      *)
(* active one when it is a greeter (no username) being switched away from. *)
Switched(x) ==
  IF x # active /\ active # None /\ dUser[active] = None
  THEN {active} ELSE {}

(* switch_to_user's scan: the index in the list of the first display whose *)
(* username equals u (g_strcmp0, so None matches a display with none), or 0.*)
FirstWithUser(u) == SelectInSeq(displays, LAMBDA x : dUser[x] = u)

(* display_get_guest_username_cb: the stored name, or a new one from       *)
(* guest_account_setup.                                                    *)
GuestFor == IF guestName # None THEN {guestName} ELSE GuestNames

-----------------------------------------------------------------------------
(* switch_to_user_or_start_greeter(u, is_guest, autologin): switch to the  *)
(* first display whose username is u; otherwise create a display, hand it *)
(* the autologin or select-user hint, append it, make it active when none *)
(* is, and display_start it.                                               *)
SwitchToUserOrStartGreeter(u, isGuest, autologin) ==
  \/ /\ FirstWithUser(u) # 0
     /\ LET x == displays[FirstWithUser(u)] IN
        /\ active' = x
        /\ dstate' = StopSet(Switched(x))
     /\ UNCHANGED <<displays, dAuto, pending>>
  \/ /\ FirstWithUser(u) = 0
     /\ \E d \in DisplayIds :
          /\ dstate[d] = "unused"
          /\ \A e \in DisplayIds : dstate[e] = "unused" => d <= e
          /\ dstate' = [dstate EXCEPT ![d] = "starting"]
          /\ dAuto' = [dAuto EXCEPT ![d] = IF ~autologin THEN "none"
                                            ELSE IF isGuest THEN "guest"
                                            ELSE "user"]
          /\ pending' = [pending EXCEPT ![d] =
                           IF autologin /\ ~isGuest THEN u ELSE None]
          /\ displays' = Append(displays, d)
          /\ active' = IF active = None THEN d ELSE active

(* seat_real_start picks the first display: autologin for autologin-user, *)
(* else autologin for the guest when autologin-guest, else a greeter.      *)
SeatRealStart ==
  IF AutologinUser # None
  THEN SwitchToUserOrStartGreeter(AutologinUser, FALSE, TRUE)
  ELSE IF AutologinGuest
  THEN SwitchToUserOrStartGreeter(None, TRUE, TRUE)
  ELSE SwitchToUserOrStartGreeter(None, FALSE, FALSE)

(* seat_start, once, when the daemon adds the seat: setup (nothing in the  *)
(* base class) then start.                                                 *)
SeatStart ==
  /\ ~seatStarted
  /\ seatStarted' = TRUE
  /\ SeatRealStart
  /\ UNCHANGED <<guestName, stopping, stopped, dUser, dSession, ready>>

(* The bus calls of lightdm.c's handle_seat_call, through                  *)
(* seat_switch_to_greeter, seat_switch_to_user and seat_switch_to_guest.  *)
SeatSwitchToGreeter ==
  /\ seatStarted
  /\ CanSwitch
  /\ SwitchToUserOrStartGreeter(None, FALSE, FALSE)
  /\ UNCHANGED <<guestName, seatStarted, stopping, stopped, dUser, dSession,
                 ready>>

SeatSwitchToUser(u) ==
  /\ seatStarted
  /\ CanSwitch
  /\ SwitchToUserOrStartGreeter(u, FALSE, FALSE)
  /\ UNCHANGED <<guestName, seatStarted, stopping, stopped, dUser, dSession,
                 ready>>

SeatSwitchToGuest ==
  /\ seatStarted
  /\ CanSwitch /\ AllowGuest
  /\ SwitchToUserOrStartGreeter(guestName, TRUE, TRUE)
  /\ UNCHANGED <<guestName, seatStarted, stopping, stopped, dUser, dSession,
                 ready>>

(* check_stopped, after a step that leaves displays' and stopping': a      *)
(* stopping seat with no display left becomes stopped, once.               *)
CheckStopped == stopped' = (stopped \/ (stopping' /\ displays' = <<>>))

(* seat_real_stop: check_stopped, and unless that stopped the seat,        *)
(* display_stop on every display.                                          *)
SeatRealStop ==
  /\ CheckStopped
  /\ dstate' = IF displays = <<>> THEN dstate ELSE StopSet(ToSet(displays))

(* seat_stop: ignored while stopping, else set stopping and stop.          *)
SeatStop ==
  /\ seatStarted /\ ~stopping
  /\ stopping' = TRUE
  /\ UNCHANGED <<displays, active, guestName, seatStarted, dUser, dAuto,
                 pending, dSession, ready>>
  /\ SeatRealStop

-----------------------------------------------------------------------------
(* The display steps.  The display is the specification's; what the seat  *)
(* does when the display emits a signal is seat.c's.                       *)

InSeat(d) == d \in ToSet(displays)

(* The greeter-setup hook, then the greeter runs (display_start_greeter_cb *)
(* aborts the start when the hook fails).                                  *)
StartGreeter(d) ==
  \E ok \in HookOutcomes :
    dstate' = [dstate EXCEPT ![d] = IF ok THEN "greeter" ELSE "stopping"]

(* start-session for user u: the session-setup hook                        *)
(* (display_start_session_cb) and, when it passes, the session runs and   *)
(* display_session_started_cb connects session_stopped_cb to it.           *)
StartSession(d, u) ==
  \E ok \in HookOutcomes :
    /\ dUser' = [dUser EXCEPT ![d] = u]
    /\ dstate' = [dstate EXCEPT ![d] = IF ok THEN "session" ELSE "stopping"]
    /\ dSession' = [dSession EXCEPT ![d] = ok]

(* The display server is ready: start-display-server runs the              *)
(* display-setup hook (display_start_display_server_cb), then the display *)
(* autologs in, asking the seat for the guest name when the autologin is  *)
(* for the guest, or starts its greeter.                                   *)
ServerReady(d) ==
  /\ InSeat(d) /\ dstate[d] = "starting"
  /\ \E ok \in HookOutcomes :
       \/ /\ ~ok
          /\ dstate' = [dstate EXCEPT ![d] = "stopping"]
          /\ UNCHANGED <<guestName, pending>>
       \/ /\ ok /\ dAuto[d] = "user"
          /\ dstate' = [dstate EXCEPT ![d] = "autologin"]
          /\ UNCHANGED <<guestName, pending>>
       \/ /\ ok /\ dAuto[d] = "guest"
          /\ \E g \in GuestFor :
               /\ guestName' = g
               /\ pending' = [pending EXCEPT ![d] = g]
          /\ dstate' = [dstate EXCEPT ![d] = "autologin"]
       \/ /\ ok /\ dAuto[d] = "none"
          /\ StartGreeter(d)
          /\ UNCHANGED <<guestName, pending>>
  /\ UNCHANGED <<displays, active, seatStarted, stopping, stopped, dUser,
                 dAuto, dSession, ready>>

(* The display server fails before it is ready.                            *)
ServerFails(d) ==
  /\ InSeat(d) /\ dstate[d] = "starting"
  /\ dstate' = [dstate EXCEPT ![d] = "stopping"]
  /\ UNCHANGED <<seatVars, dUser, dAuto, pending, dSession, ready>>

(* The autologin authentication ends: the session starts for the pending  *)
(* user, or the display falls back to its greeter.                         *)
AutologinResult(d) ==
  /\ InSeat(d) /\ dstate[d] = "autologin"
  /\ \/ StartSession(d, pending[d])
     \/ StartGreeter(d) /\ UNCHANGED <<dUser, dSession>>
  /\ UNCHANGED <<seatVars, dAuto, pending, ready>>

(* The greeter's user u is authenticated and asks for its session: the    *)
(* switch-to-user upcall (display_switch_to_user_cb) switches to a display *)
(* already running u and this display stops; else the session starts.     *)
GreeterLogin(d, u) ==
  /\ InSeat(d) /\ dstate[d] = "greeter"
  /\ \/ /\ FirstWithUser(u) # 0
        /\ LET x == displays[FirstWithUser(u)] IN
           /\ active' = x
           /\ dstate' = StopSet(Switched(x) \cup {d})
        /\ UNCHANGED <<dUser, dSession>>
     \/ /\ FirstWithUser(u) = 0
        /\ StartSession(d, u)
        /\ UNCHANGED active
  /\ UNCHANGED <<displays, guestName, seatStarted, stopping, stopped, dAuto,
                 pending, ready>>

(* The greeter logged in as the guest: display_switch_to_guest_cb switches *)
(* to the display of the stored guest name if there is one; otherwise     *)
(* display_get_guest_username_cb names the guest and the session starts.   *)
GreeterGuestLogin(d) ==
  /\ AllowGuest
  /\ InSeat(d) /\ dstate[d] = "greeter"
  /\ \/ /\ guestName # None /\ FirstWithUser(guestName) # 0
        /\ LET x == displays[FirstWithUser(guestName)] IN
           /\ active' = x
           /\ dstate' = StopSet(Switched(x) \cup {d})
        /\ UNCHANGED <<guestName, dUser, dSession>>
     \/ /\ guestName = None \/ FirstWithUser(guestName) = 0
        /\ \E g \in GuestFor :
             /\ guestName' = g
             /\ StartSession(d, g)
        /\ UNCHANGED active
  /\ UNCHANGED <<displays, seatStarted, stopping, stopped, dAuto, pending,
                 ready>>

(* The greeter exits without starting a session.                           *)
GreeterQuits(d) ==
  /\ InSeat(d) /\ dstate[d] = "greeter"
  /\ dstate' = [dstate EXCEPT ![d] = "stopping"]
  /\ UNCHANGED <<seatVars, dUser, dAuto, pending, dSession, ready>>

(* The display emits "ready" once its greeter or session is up;            *)
(* display_ready_cb makes it the active display.                           *)
Ready(d) ==
  /\ InSeat(d) /\ dstate[d] \in {"greeter", "session"} /\ ~ready[d]
  /\ ready' = [ready EXCEPT ![d] = TRUE]
  /\ active' = d
  /\ dstate' = StopSet(Switched(d))
  /\ UNCHANGED <<displays, guestName, seatStarted, stopping, stopped, dUser,
                 dAuto, pending, dSession>>

(* Variant of GuestCleanup that, when the session is not the guest's,     *)
(* stores the session's user instead of keeping the guest name.            *)
GuestCleanupWrongName(d) ==
  guestName' = IF guestName # None /\ dUser[d] = guestName THEN None
                                                         ELSE dUser[d]

(* session_stopped_cb, for the session of display d: the session-cleanup  *)
(* hook (its status is ignored), then, when the session's user is the     *)
(* stored guest name, guest_account_cleanup and the name is forgotten.     *)
GuestCleanup(d) ==
  guestName' = IF guestName # None /\ dUser[d] = guestName THEN None
                                                         ELSE guestName

(* A running session stops: the user logs out, or the display stopping     *)
(* ends it; session_stopped_cb runs and the display stops.                 *)
SessionStopped(d) ==
  /\ InSeat(d) /\ dSession[d]
  /\ dSession' = [dSession EXCEPT ![d] = FALSE]
  /\ dstate' = [dstate EXCEPT ![d] = "stopping"]
  /\ GuestCleanup(d)
  /\ UNCHANGED <<displays, active, seatStarted, stopping, stopped, dUser,
                 dAuto, pending, ready>>

(* The display has stopped: display_stopped_cb takes it out of the list,  *)
(* disconnects from it and drops it (priv->active_display keeps its own   *)
(* reference and is left as it is), then check_stopped: a stopping seat    *)
(* with no display left is stopped.                                        *)
DisplayStopped(d) ==
  /\ InSeat(d) /\ dstate[d] = "stopping" /\ ~dSession[d]
  /\ dstate' = [dstate EXCEPT ![d] = "stopped"]
  /\ displays' = RemoveFirst(displays, d)
  /\ UNCHANGED <<active, guestName, seatStarted, stopping, dUser, dAuto,
                 pending, dSession, ready>>
  /\ CheckStopped

(* The seat's own steps.  The switch requests reach a seat only through   *)
(* the bus object lightdm.c registers for it, so they are steps of        *)
(* Daemon.tla (HandleSeatCall), taken while that object exists.           *)
Next ==
  \/ SeatStart
  \/ SeatStop
  \/ \E d \in DisplayIds :
       \/ ServerReady(d)
       \/ ServerFails(d)
       \/ AutologinResult(d)
       \/ \E u \in Users : GreeterLogin(d, u)
       \/ GreeterGuestLogin(d)
       \/ GreeterQuits(d)
       \/ Ready(d)
       \/ SessionStopped(d)
       \/ DisplayStopped(d)

Spec == Init /\ [][Next]_vars

-----------------------------------------------------------------------------
(* Properties.                                                             *)

(* While a guest session runs, its account is the seat's guest account:    *)
(* session_stopped_cb cleans the guest account up when any session of it   *)
(* stops, so two sessions of one guest must never run at once.             *)
GuestSessionKeepsAccount ==
  \A d \in ToSet(displays) :
    dSession[d] /\ dUser[d] \in GuestNames => guestName = dUser[d]

====
