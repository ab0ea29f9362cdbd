SPECIFICATION Spec
CONSTANTS
  Times <- MCTimes
  Calendar <- MCCalendar
  SetTimes <- MCSetTimes
  MaxSyncs = 1
  MaxSets = 1
  MaxResets = 1
  Noise = Noise
  Unknown = Unknown
PROPERTY InitialisedOnce
