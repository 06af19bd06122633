SPECIFICATION FairSpec
CONSTANTS
  Callers = {vm1, vm2}
  Starters = {vm1, vm2}
  MaxCaptures = 2
  NoThread = NoThread
INVARIANTS OneWorker StateMatchesWorker NoWaitCycle OwnCallbacks BusyCancelledMeansGone
PROPERTIES ImplementsContract EveryCaptureReports EveryCallReturns
