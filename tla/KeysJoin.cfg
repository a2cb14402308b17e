SPECIFICATION Spec
CONSTANTS
  NoKey = NoKey
  NoOne = NoOne
  Member = {1, 2}
  SHARE_RETRIES = 2
  JOIN_RETRIES = 1
  KEEP_EPOCHS = 0
  InfoInOrder = TRUE
  MaxEpoch = 2
  MaxInits = 2
  MaxStarts = 1
  MaxLeaves = 0
  Lossy = {"KEY_SHARE", "CHAIN_SHARE", "KEY_REQ"}
  MaxLosses = 1
  MaxInFlight = 1
INVARIANTS
  TypeOK
  OneKeyPerEpoch
  ChainsAgree
  
CHECK_DEADLOCK FALSE
