\* Each of the three games, two epochs of two plays, a component that comes and goes.
SPECIFICATION DemoFairSpec
CONSTANTS
  Null = Null
  MaxTarget = 2
  Unit = 2
  SigBytes = {0, 255}
  MaxPlays = 2
  MaxEpochs = 2
CHECK_DEADLOCK FALSE
INVARIANTS
  PixelsAgreeWithReceipt
  EveryRevealIsGreen
  ViewIsCurrent
  PaysWithinRtp
PROPERTIES
  LockIsReleased
