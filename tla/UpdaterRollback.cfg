SPECIFICATION UpdaterSpec
CONSTANTS
  MaxVersion = 3
  Workerless = {1}
  unconfirmedStarts = 2
  maxDownloads = 2
  MaxRuns = 6
INVARIANTS
  NewDaemonNewPrograms
CHECK_DEADLOCK FALSE
