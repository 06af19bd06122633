SPECIFICATION FairSpec
CONSTANTS
  Presses = {p1, p2}
  FirstSequence = 1677718
  MaxCaptures = 3
  MaxPresses = 3
  MaxLoads = 1
  Saves <- MCSaves
INVARIANTS NeverStuck EventsExact ToldTruth
PROPERTY HotkeyComesBack
CHECK_DEADLOCK FALSE
