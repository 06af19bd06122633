SPECIFICATION FairSpec
CONSTANTS
  Producer = producer
  Worker = worker
  TotalFrames = 3
  Capacity = 1
  MaxInFlight = 1
  NoThread = NoThread
  NoFrame = NoFrame
PROPERTY EveryVideoEnds
