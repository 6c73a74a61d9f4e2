CONSTANTS
  Bytes <- AllBytes
  SysexCap = 8
  MaxStream = 11
SPECIFICATION DecodeSpec
INVARIANTS FramedDataBounded PacketTellsMessage
PROPERTY EmitsDecodedMessages
