CONSTANTS
  None = None
  MaxRequests <- MCRequests
  Sessions <- MCSessions
  Users <- MCConvUsers
  MaxSecrets = 1
  QueueBound = 2
  AllowGuest = TRUE

SPECIFICATION Spec

\* With its requests used up the greeter may fall silent and the daemon
\* then waits on the greeter pipe with nothing left to do.
CHECK_DEADLOCK FALSE

INVARIANTS
  TypeOK
  LiveSessionIsCurrent
  EndAtMostOnce
  StartOnlyAfterSuccess



  
