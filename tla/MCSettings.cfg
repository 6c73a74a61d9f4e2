SPECIFICATION Spec
CONSTANTS
  Options <- MCOptions
  Least <- MCLeast
  Most <- MCMost
  Step <- MCStep
  Default <- MCDefault
  Hysteresis = "hysteresis"
  NoteThru = "thru"
  Records <- MCRecords
INVARIANTS OptionsInForce SavedOptionsReturn
