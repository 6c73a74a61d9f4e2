CONSTANTS
  Duration = 3
  MaxTurn = 2
  Texts <- Three
  Blanks <- NoText
  Visible = 2
  Gap = 1
  MaxLen = 4
  Interval = 3
  Space = " "
  Channels = {0, 1}
  Remap <- Crossed
  MaxRaw = 4095
  MaxPixels = 28
  Inputs <- Voltages
  Hysts = {5, 20}
  Periods = {2}
  Still <- Lowest
  MaxFailures = 1
SPECIFICATION Spec
INVARIANTS FlushedEachTurn BlinkEnds ReceiverWithinHysteresis BarsShowSamples
PROPERTIES GlassRecovers BlinkLastsDuration StartsStill WholeMessageShown
