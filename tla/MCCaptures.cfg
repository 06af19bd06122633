SPECIFICATION FairSpec
CONSTANTS
  Width = 3
  Height = 1
  MaxColours = 2
  MaxLevel = 2
  Threshold = 1
  Pictures <- MCPictures
  MaxParts = 1
  MaxRetries = 2
  Dirs <- MCDirs
  MaxCaptures = 2
  MaxFrames = 3
INVARIANTS NoOrphan OutputIsHonest CanvasIsFrame DriftIsBounded ApngFileValid FrameGoesBack ComBalanced
PROPERTIES DirInUse EveryCaptureEnds
