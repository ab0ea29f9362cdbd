SPECIFICATION FairSpec
CONSTANTS
  Spins = 2
  MaxNum = 2
  MaxUses <- MCMaxUses
INVARIANTS TypeOK WifiSendsWhole LowSendsWhole ReadyKept
PROPERTY SendEnds
CHECK_DEADLOCK FALSE
