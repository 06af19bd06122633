SPECIFICATION Spec
CONSTANTS
  Producer = producer
  Worker = worker
  TotalFrames = 6
  Capacity = 1
  MaxInFlight = 2
  NoThread = NoThread
  NoFrame = NoFrame
INVARIANTS OnlyStopDeadlocks PoolSafe ResultIsHonest NothingOutlivesRunVideo CancelIsPrompt
PROPERTY SamplesInOrder
