SPECIFICATION Spec
CONSTANTS
  PacketMax = 4
  Block = 2
  FieldsSize = 5
  CountMax = 7
  IntMax = 63
  Sizes <- EverySize
INVARIANT LastMeansWhole
INVARIANT LastPacketSent
INVARIANT SizeLimit
CHECK_DEADLOCK FALSE
