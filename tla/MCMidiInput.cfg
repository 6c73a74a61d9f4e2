CONSTANTS
  Bytes <- WireBytes
  SysexCap = 2
  MaxStream = 6
  QueueCap = 2
  UartCap = 1
SPECIFICATION BoundedSpec
INVARIANTS EveryByteAccounted DropsReportedOnce OnlyPolledOvertaken
PROPERTIES ResynchronisesAtStatus EverythingDrained
