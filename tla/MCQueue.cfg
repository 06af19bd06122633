SPECIFICATION FairSpec
CONSTANTS
  Producers = {p1, p2}
  Consumers = {c}
  Frames = {f1, f2}
  Capacity = 2
  NoThread = NoThread
  NoFrame = NoFrame
INVARIANTS RingInv NoLostWakeup
PROPERTIES PopServed StopWakesSleepers ImplementsChannel
