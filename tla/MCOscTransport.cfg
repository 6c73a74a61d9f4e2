CONSTANTS
  Targets = {"t1", "t2"}
  Ports = {"p1"}
  Triggers = {"tr1"}
  Packets <- SomePackets
  Burst = 2
  RxCap = 2
  MaxRx = 3
  MaxFaults = 2
SPECIFICATION Spec
INVARIANT OneSocket
PROPERTIES SendsToConfiguredTarget TargetHeldDuringEdit RecoversWithNetwork TriggersCaughtUp
