CONSTANTS
  None = None
  MaxRequests <- MCRequests
  Sessions <- MCSessions
  Users <- MCConvUsers
  MaxSecrets = 1
  QueueBound = 2
  AllowGuest = TRUE

SPECIFICATION Spec

CHECK_DEADLOCK FALSE

INVARIANT
  ResponseFitsBatch
