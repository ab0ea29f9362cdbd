SPECIFICATION Spec
CONSTANTS
  Info = {r1}
  Blank = Blank
  NoHeader = NoHeader
  MaxCuts = 2
  MaxTotal = 3
  AskNums = {2, 5}
  LenthValues = 4
INVARIANTS TypeOK HolesBoundedByCuts GetAnswersAll
PROPERTY LogKept
