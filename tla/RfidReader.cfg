SPECIFICATION FairSpec
CONSTANTS
  Cards = {1, 2, 3}
  Garbage = 0
  Threshold = 3
INVARIANTS TypeOK LoneCardWaits HeldBackByTimer
PROPERTY NeverLockedOut
