CONSTANTS
  PayloadLengths <- MCPayloadLengths
  SecretCounts <- MCSecretCounts
  AllocLimit <- MCAllocLimit
  MaxFrames = 3
SPECIFICATION Spec
INVARIANT TypeOK
INVARIANT FramesDelivered
CHECK_DEADLOCK FALSE
