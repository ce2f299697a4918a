CONSTANTS
  None = None
  Users <- MCUsers
  GuestNames <- MCGuestNames
  MaxDisplays <- MCMaxDisplays
  CanSwitch = TRUE
  AllowGuest = TRUE
  AutologinUser = "alice"
  AutologinGuest = FALSE
  HookMayFail = TRUE
SPECIFICATION DaemonSpec
INVARIANTS
  TypeOK
  DaemonTypeOK
  BusEntriesTrackSessions
PROPERTY
  ShutdownCompletesUnlessSwitched
CHECK_DEADLOCK FALSE
