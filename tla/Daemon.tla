------------------------------- MODULE Daemon -------------------------------
(***************************************************************************)
(* The daemon's bus adapter (src/src/lightdm.c) composed with the seat it  *)
(* serves (Seat).  main starts the seats (display_manager_start) and asks  *)
(* for the bus name before it enters the main loop; bus_acquired_cb runs  *)
(* from that loop, whenever the bus daemon answers, like every seat and   *)
(* display callback.  Each step is one main-loop callback run to         *)
(* completion.                                                             *)
(*                                                                         *)
(* The adapter's handlers ride on the seat's signals: seat_added_cb        *)
(* connects display_added_cb to the seat's "display-added" and calls it   *)
(* for the displays already there, so every display in the seat's list    *)
(* carries the adapter's "start-session" handlers exactly when the bus has *)
(* been acquired.  The seat's own display_start_session_cb runs first; a  *)
(* failing session-setup hook stops the emission, so the adapter sees     *)
(* only the sessions that really start.                                    *)
(*                                                                         *)
(* display-manager.c is not part of the repository; the display manager   *)
(* is the specification's (section 4.5): stop() stops every seat, a seat   *)
(* that stops is removed (seat-removed) and "stopped" follows once no      *)
(* seat is left.  The configuration has the default seat only.             *)
(***************************************************************************)
EXTENDS Seat

VARIABLES
  busUp,        \* bus_acquired_cb has run
  seatEntry,    \* the seat's entry in seat_bus_entries (object registered)
  dmSeat,       \* the display manager still holds the seat
  dmStopping,   \* display_manager_stop has been called
  sessionIndex, \* session_index: the N of the next /Session<N>
  sessionEnv,   \* XDG_SESSION_PATH of d's session: its N, or None
  sessionEntry, \* d's session has an entry in session_bus_entries
  exited        \* the process has called exit

daemonVars == <<busUp, seatEntry, dmSeat, dmStopping, sessionIndex,
                sessionEnv, sessionEntry, exited>>
allVars == <<vars, daemonVars>>

(* Every session path the adapter can hand out: one per display at most.  *)
SessionNumbers == 0..MaxDisplays - 1

DaemonTypeOK ==
  /\ {busUp, seatEntry, dmSeat, dmStopping, exited} \subseteq BOOLEAN
  /\ sessionIndex \in 0..MaxDisplays
  /\ sessionEnv \in [DisplayIds -> SessionNumbers \cup {None}]
  /\ sessionEntry \in [DisplayIds -> BOOLEAN]

(* main: static variables as the process starts, the default seat added   *)
(* to the display manager; the seat itself as seat_init leaves it.         *)
DaemonInit ==
  /\ Init
  /\ busUp = FALSE
  /\ seatEntry = FALSE
  /\ dmSeat = TRUE
  /\ dmStopping = FALSE
  /\ sessionIndex = 0
  /\ sessionEnv = [d \in DisplayIds |-> None]
  /\ sessionEntry = [d \in DisplayIds |-> FALSE]
  /\ exited = FALSE

-----------------------------------------------------------------------------
(* The adapter's reaction to a seat step, in the same callback.            *)

(* The displays whose session the step started, and those it ended.        *)
Started == {d \in DisplayIds : ~dSession[d] /\ dSession'[d]}
Ended == {d \in DisplayIds : dSession[d] /\ ~dSession'[d]}

(* Variant of StartSessionCb that increments session_index before use.   *)
StartSessionCbPreIncrement ==
  /\ sessionEnv' = [d \in DisplayIds |->
                      IF d \in Started /\ busUp THEN sessionIndex + 1
                                                ELSE sessionEnv[d]]
  /\ sessionIndex' = IF Started # {} /\ busUp THEN sessionIndex + 1
                                             ELSE sessionIndex

(* start_session_cb, on "start-session" once the hook has passed: the     *)
(* session gets XDG_SEAT_PATH and XDG_SESSION_PATH = /Session<N> for the  *)
(* next N.  Only with the bus acquired are the handlers connected.         *)
StartSessionCb ==
  /\ sessionEnv' = [d \in DisplayIds |->
                      IF d \in Started /\ busUp THEN sessionIndex
                                                ELSE sessionEnv[d]]
  /\ sessionIndex' = IF Started # {} /\ busUp THEN sessionIndex + 1
                                             ELSE sessionIndex

(* Variant of SessionStoppedCb that leaves the entries of ended sessions. *)
SessionStoppedCbKeepsEntry(e) == e

(* session_stopped_cb: g_hash_table_remove of the session's entry, whose  *)
(* bus_entry_free unregisters the object and emits SessionRemoved.         *)
SessionStoppedCb(e) == [d \in DisplayIds |-> e[d] /\ d \notin Ended]

(* session_started_cb, connected after: the entry at the path of          *)
(* XDG_SESSION_PATH is registered and SessionAdded emitted; its "stopped"  *)
(* handler is session_stopped_cb.                                          *)
SessionStartedCb ==
  sessionEntry' = SessionStoppedCb([d \in DisplayIds |->
                                      sessionEntry[d] \/ (d \in Started /\ busUp)])

(* Variant of SeatRemovedCb in which the display manager keeps a seat    *)
(* that has stopped.                                                        *)
SeatRemovedCbKeepsSeat ==
  /\ dmSeat' = dmSeat
  /\ seatEntry' = (seatEntry /\ ~stopped')
  /\ dmStopping' = (dmStopping \/ stopped')

(* The seat emits "stopped" (check_stopped) within the step: the display *)
(* manager removes it and emits seat-removed at once; seat_removed_cb     *)
(* drops its bus entry (SeatRemoved) and, the default seat having          *)
(* exit-on-failure, calls display_manager_stop.                            *)
SeatRemovedCb ==
  /\ dmSeat' = (dmSeat /\ ~stopped')
  /\ seatEntry' = (seatEntry /\ ~stopped')
  /\ dmStopping' = (dmStopping \/ stopped')

(* The display manager, stopping with no seat left, emits "stopped" in    *)
(* the same call chain: display_manager_stopped_cb calls exit.             *)
DisplayManagerStoppedCb == exited' = (dmStopping' /\ ~dmSeat')

(* A display or session callback of the seat, with the adapter's handlers *)
(* riding on it.                                                           *)
SeatStep(A) ==
  /\ ~exited
  /\ A
  /\ StartSessionCb
  /\ SessionStartedCb
  /\ SeatRemovedCb
  /\ DisplayManagerStoppedCb
  /\ UNCHANGED busUp

-----------------------------------------------------------------------------
(* The daemon's own callbacks.                                             *)

(* main: display_manager_start starts the seat before the main loop runs. *)
DisplayManagerStart ==
  /\ SeatStart
  /\ UNCHANGED daemonVars

(* bus_acquired_cb: register the manager object, then seat_added_cb for   *)
(* every seat the display manager holds: connect display_added_cb for its *)
(* displays, register /Seat0 and emit SeatAdded.                           *)
BusAcquired ==
  /\ seatStarted /\ ~busUp /\ ~exited
  /\ busUp' = TRUE
  /\ seatEntry' = dmSeat
  /\ UNCHANGED <<vars, dmSeat, dmStopping, sessionIndex, sessionEnv,
                 sessionEntry, exited>>

(* name_lost_cb: no connection, or the name is taken: exit (EXIT_FAILURE). *)
NameLost ==
  /\ seatStarted /\ ~exited
  /\ exited' = TRUE
  /\ UNCHANGED <<vars, busUp, seatEntry, dmSeat, dmStopping, sessionIndex,
                 sessionEnv, sessionEntry>>

(* signal_cb: a caught signal calls display_manager_stop, which stops    *)
(* the seat.  A seat without displays stops at once, and the daemon exits *)
(* in the same call.  A later signal finds everything stopping already.   *)
SignalCb ==
  /\ seatStarted /\ ~dmStopping /\ ~exited
  /\ SeatStop
  /\ dmSeat' = (dmSeat /\ ~stopped')
  /\ seatEntry' = (seatEntry /\ ~stopped')
  /\ dmStopping' = TRUE
  /\ DisplayManagerStoppedCb
  /\ UNCHANGED <<busUp, sessionIndex, sessionEnv, sessionEntry>>

(* handle_seat_call: SwitchToGreeter, SwitchToUser and SwitchToGuest on    *)
(* the seat's registered object.                                           *)
HandleSeatCall ==
  /\ seatEntry
  /\ \/ SeatSwitchToGreeter
     \/ SeatSwitchToGuest
     \/ \E u \in Users : SeatSwitchToUser(u)

DaemonNext ==
  \/ DisplayManagerStart
  \/ BusAcquired
  \/ NameLost
  \/ SignalCb
  \/ SeatStep(HandleSeatCall)
  \/ \E d \in DisplayIds :
       \/ SeatStep(ServerReady(d))
       \/ SeatStep(ServerFails(d))
       \/ SeatStep(AutologinResult(d))
       \/ \E u \in Users : SeatStep(GreeterLogin(d, u))
       \/ SeatStep(GreeterGuestLogin(d))
       \/ SeatStep(GreeterQuits(d))
       \/ SeatStep(Ready(d))
       \/ SeatStep(SessionStopped(d))
       \/ SeatStep(DisplayStopped(d))

(* As for the seat alone: the processes of a display told to stop exit,  *)
(* and their child watches run session_stopped_cb and display_stopped_cb;  *)
(* the adapter's handlers and the display manager's reactions ride on     *)
(* those callbacks.  The bus daemon, the users and the signals owe nothing. *)
DaemonFairness ==
  \A d \in DisplayIds :
    /\ WF_allVars(SeatStep(dstate[d] = "stopping" /\ SessionStopped(d)))
    /\ WF_allVars(SeatStep(DisplayStopped(d)))

DaemonSpec == DaemonInit /\ [][DaemonNext]_allVars /\ DaemonFairness

-----------------------------------------------------------------------------
(* Properties.                                                             *)

(* The bus shows only sessions that run, each at its own path under a     *)
(* seat that is itself on the bus: session_stopped_cb drops the entry of   *)
(* every session that ends, session_index never hands a path out twice,   *)
(* and the seat leaves the bus only after its last display has gone.       *)
BusEntriesTrackSessions ==
  \A d \in DisplayIds :
    sessionEntry[d] =>
      /\ dSession[d] /\ seatEntry /\ sessionEnv[d] # None
      /\ \A e \in DisplayIds \ {d} :
           sessionEntry[e] => sessionEnv[e] # sessionEnv[d]

(* Once the daemon owns its bus name, every running session of the seat  *)
(* is on the bus, as the Sessions property and the greeter's user list   *)
(* (lightdm_user_get_logged_in) take for granted.                          *)
SessionsOnBus ==
  busUp => \A d \in ToSet(displays) : dSession[d] => sessionEntry[d]

(* A caught signal makes the daemon exit: display_manager_stop stops the *)
(* seat, every display's processes end, the last display_stopped_cb's     *)
(* check_stopped emits the seat's "stopped", the display manager lets it  *)
(* go and emits its own "stopped", and display_manager_stopped_cb exits.   *)
ShutdownCompletes == dmStopping ~> exited

(* A display the seat started after seat_real_stop told every display to *)
(* stop: only a switch call (switch_to_user_or_start_greeter) adds one.    *)
DisplayStartedWhileStopping ==
  \E d \in ToSet(displays) : stopping /\ dstate[d] # "stopping"

(* The switch calls are the only thing that holds shutdown up: after a    *)
(* caught signal the daemon exits, unless handle_seat_call has started a  *)
(* display since.  Whatever state the displays are in when the signal    *)
(* comes (starting, at a greeter, running a session, refused by the       *)
(* hook), display_stop ends each, the last display_stopped_cb stops the    *)
(* seat, the display manager lets it go and display_manager_stopped_cb     *)
(* exits.                                                                  *)
ShutdownCompletesUnlessSwitched ==
  dmStopping ~> (exited \/ DisplayStartedWhileStopping)

====
