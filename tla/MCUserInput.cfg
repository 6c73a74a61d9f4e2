CONSTANTS
  Debounce = 3
  Bounce = 2
  Rest = 3
  PollPeriod = 8
  MaxMoves = 4
  DeltaMax = 2
  Positions <- Around
  Start = 1
SPECIFICATION InputSpec
INVARIANTS FollowsShaft RestingLevelReported EveryReleaseClicksOnce SteadyContactShows
PROPERTY MovesOncePerWindow
