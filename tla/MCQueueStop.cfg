SPECIFICATION FairSpec
CONSTANTS
  Producers = {p}
  Consumers = {c}
  Frames = {f1, f2}
  Capacity = 2
  NoThread = NoThread
  NoFrame = NoFrame

PROPERTY StopUnblocks
