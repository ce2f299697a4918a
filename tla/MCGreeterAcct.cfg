CONSTANTS
  None = None
  MaxRequests <- MCRequests
  Sessions <- MCSessions
  Users <- MCAcctUsers
  MaxSecrets = 1
  QueueBound = 1
  AllowGuest = TRUE

SPECIFICATION Spec

\* With its requests used up the greeter may fall silent and the daemon
\* then waits on the greeter pipe with nothing left to do.
CHECK_DEADLOCK FALSE

INVARIANTS
  LiveSessionIsCurrent
  EndAtMostOnce
  StartOnlyAfterSuccess


PROPERTY
  
  CancelledSessionJoins
