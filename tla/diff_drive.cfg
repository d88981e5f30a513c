SPECIFICATION FairSpec
CONSTANTS
  TickMod = 10
  MaxGap = 1
  Period = 1
  MaxSamples = 2
  RenewMs = 2
  InFlight = 1
  ClockStep = 2
  Timeout = 2
  MaxAge = 7
INVARIANTS TimerAhead RenewedInTime MotorsFollowTimer
PROPERTIES SilenceEnds StaleStops
