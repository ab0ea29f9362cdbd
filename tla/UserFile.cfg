SPECIFICATION Spec
CONSTANTS
  MaxSlot = 3
  Versions = {v1, v2}
  None = None
  Mixed = Mixed
  Junk = Junk
  Unwritten <- MCUnwritten
  Ask <- MCAsk
  MaxUint16 = 65535
  MaxCuts = 1
INVARIANTS TypeOK WrittenAloneStays SyncSeesLoss ReloadWorks AnswerIsComplete
