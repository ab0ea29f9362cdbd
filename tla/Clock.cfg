SPECIFICATION FairSpec
CONSTANTS
  Times <- MCTimes
  Calendar <- MCCalendar
  SetTimes <- MCSetTimes
  MaxSyncs = 2
  MaxSets = 1
  MaxResets = 1
  Noise = Noise
  Unknown = Unknown
INVARIANTS TypeOK ChipKeepsTime ShownLags
PROPERTY TimeRecovers
