SPECIFICATION Spec
CONSTANTS
  MaxUserId = 2
  Cards = {1, 2}
  ListLen = 2
  Added <- MCAdded
  InitFile <- MCFile
  MaxTime = 1
  Sent <- CardEvents
  Typed = {"open_door"}
  MaxPackets = 2
INVARIANTS TypeOK DoorUnlockedOnlyInPulse AdmittedHoldsCard DeletedStaysOut NoPassback
PROPERTY IsAdmission
