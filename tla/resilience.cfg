SPECIFICATION FairSpec
CONSTANTS
  MaxMissed = 2
  Retries = 2
  MaxBackoff = 3
  MaxSockets = 2
  Finalised = TRUE
  MaxFaults = 4
  InFlight = 2
INVARIANTS StoppedWhileDown SessionOwned NoFalseAlarm NothingLeaked ResilienceInv
PROPERTIES Recovers DetectsDeath StaleStopsRunning
CHECK_DEADLOCK FALSE
