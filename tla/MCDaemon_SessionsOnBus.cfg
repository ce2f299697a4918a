CONSTANTS
  None = None
  Users <- MCUsers
  GuestNames <- MCGuestNames
  MaxDisplays <- MCMaxDisplays
  CanSwitch = TRUE
  AllowGuest = TRUE
  AutologinUser = "alice"
  AutologinGuest = FALSE
  HookMayFail = TRUE
SPECIFICATION DaemonSpec
INVARIANT SessionsOnBus
CHECK_DEADLOCK FALSE
