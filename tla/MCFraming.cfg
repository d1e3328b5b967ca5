SPECIFICATION FairSpec
CONSTANTS
  HeaderSize = 2
  BodySize = 3
  MaxAttempts = 2
  Capacity = 2
  ListSize = 3
  ResponseSize = 2
  MaxLength = 4
  MaxMessages = 2
  MaxNotices = 1
INVARIANTS
  TypeOK
  InStep
  ListWhole
PROPERTIES
  BodyReadEnds
  ListSent
CHECK_DEADLOCK FALSE
