SPECIFICATION Spec
CONSTANTS
  NoKey = NoKey
  NoOne = NoOne
  Member = {1, 2}
  SHARE_RETRIES = 0
  JOIN_RETRIES = 0
  KEEP_EPOCHS = 1
  InfoInOrder = FALSE
  MaxEpoch = 2
  MaxInits = 3
  MaxStarts = 2
  MaxLeaves = 1
  Lossy = {"MEMBER_INFO"}
  MaxLosses = 1
  MaxInFlight = 1
INVARIANTS
  OneCreator
PROPERTIES
  EpochsAdvance
CHECK_DEADLOCK FALSE
