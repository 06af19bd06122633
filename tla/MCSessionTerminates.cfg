SPECIFICATION Spec
CONSTANTS
  Callers = {vm1, vm2}
  Starters = {vm1, vm2}
  MaxCaptures = 2
  NoThread = NoThread
INVARIANT NeverTerminates
