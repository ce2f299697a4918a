CONSTANTS
  PayloadLengths <- MCPayloadLengths
  SecretCounts <- MCHostileSecretCounts
  AllocLimit <- MCAllocLimit
  MaxFrames = 2
SPECIFICATION Spec
INVARIANT ReadCbNeverFails
CHECK_DEADLOCK FALSE
