CONSTANTS
  ItemCount = 2
  EntryItem = 1
  OptMax <- FixedAndTwo
  OptTop = 1
  OptDefault <- FirstValue
  CueMax = 2
  CueTop = 3
  Detent = 2
  DeltaMax = 3
  PendingTimeout = 3
  BlinkInterval = 2
  LongPress = 2
  MaxSleep = 2
SPECIFICATION Spec
INVARIANTS TypeOK  PressActsOnce PendingExpires ReceiverHasCue
PROPERTY KeepsCueSheet
