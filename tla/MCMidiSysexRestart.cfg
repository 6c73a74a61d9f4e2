CONSTANTS
  Bytes <- AllBytes
  SysexCap = 8
  MaxStream = 11
SPECIFICATION DecodeSpec
PROPERTY InterruptingStatusIsNewStatus
