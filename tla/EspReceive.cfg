SPECIFICATION Spec
CONSTANTS
  NoFragment = NoFragment
  Lenths <- MCLenths
  Payload = 2
  Slots = 12
INVARIANTS TypeOK IntactIsDelivered RunsOnOverLostOnly
PROPERTY IsChannel
CHECK_DEADLOCK FALSE
