SPECIFICATION Spec
CONSTANTS
  VM = VM
  Other = Other
  Worker = Worker
  Game = Game
  PauseMenus = {inventory}
  Popups = {loot}
  Calls = {"cancel", "reset", "load"}
  MaxCaptures = 2
  MaxTasks = 1
INVARIANTS
  InterfaceComesBack
  RestoredBeforeEvent
  SinkHoldsRunning
