\* One source may lie; millis() rolls over during the run.
SPECIFICATION Spec
CONSTANTS
  Wrap = 32
  Base = 20
  Start = 30
  MaxTime = 33
  Liars = {"gnss"}
  Errors <- AllErrors
  GpsPolls <- TwoPolls
  GnssSlack = 1
  SntpFresh = 4
  NitzFresh = 3
  QuorumAgree = 1
  QuarantineDiff = 1
  QuarantineDuration = 2
  QuarantineMax = 3
  Deadband = 1
  LoopDelay = 1
  LoopPeriod = 2
INVARIANTS AtMostOneExcluded ClockNearUTC
PROPERTIES ClockOnlyForward OnlyFreshSamplesWin
