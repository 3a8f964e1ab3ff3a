\* Any two forms and two resets on a device that ran this or an older firmware, with
\* one flash fault; four datagrams over the rollover of millis(), with two outages;
\* any two dialogs with the modem, with an answer that comes too late, one refusal
\* and one report.
\* Deadlock is off: the bounds on saves, resets, datagrams and dialogs stop the device.
SPECIFICATION MCSpec
CONSTANTS
  Stores = {"network", "zte", "modem", "gps", "smtp"}
  Networks = {"home"}
  Exotic = {"heim"}
  Passwords = {"p", "q"}
  Secrets = {"s", "t"}
  Intervals = {4, 5, 300, 301}
  Ports = {0, 25, 65536}
  MinPoll = 5
  MaxPoll = 300
  MaxSaves = 2
  MaxResets = 2
  MaxFlashFaults = 1
  Second = 3
  Turn = 4
  Limit = 1
  Behind = 2
  MaxDatagrams = 4
  MaxTime = 6
  MaxOutages = 2
  Kinds = {"init", "poll", "gsm", "ucs2", "long", "gnss"}
  Parts = 2
  Tries = 2
  MaxDialogs = 2
  MaxLate = 1
  MaxFaults = 1
CHECK_DEADLOCK FALSE
INVARIANTS
  OperatorsWordKept PageRoundTrips BudgetInAnySecond
  SuccessMeansSent PartsInOrder RestoredAfterDialog AnswersFit StartedWithBias
PROPERTIES NeverDeaf
