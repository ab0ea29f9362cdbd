SPECIFICATION FairSpec
CONSTANTS
  MaxUserId = 1
  Cards = {1}
  ListLen = 1
  Added <- OneAdded
  InitFile <- OneFile
  MaxTime = 1
  Sent <- CardAndFinger
  Typed = {"open_door", "wipe_att_db"}
  MaxPackets = 2
PROPERTIES DoorRelocks OpeningRecorded EventsConsumed HolderLetIn
