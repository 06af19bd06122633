SPECIFICATION Spec
CONSTANTS
  VM = VM
  Other = Other
  Worker = Worker
  Game = Game
  PauseMenus = {}
  Popups = {}
  Calls = {}
  MaxCaptures = 2
  MaxTasks = 1
INVARIANT HiddenWhileRecording
CHECK_DEADLOCK FALSE
