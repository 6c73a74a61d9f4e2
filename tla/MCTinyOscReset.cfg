CONSTANTS
  Size = 64
  Lengths = {62, 63, 64}
  Messages <- Several
  Timetag <- Tag
  MaxWrites = 2
SPECIFICATION Spec
INVARIANT ResetToFirst
