\* Requests of every kind, a save and the end of safe mode, with polling.
\* It stops when no request is left and nothing polls.
SPECIFICATION FairSpec
CONSTANTS
  MaxStarts = 2
  MaxSaves = 1
  Faults = {"noMemory", "stopTimeout"}
INVARIANTS AnswerIsWhole
PROPERTIES EveryRequestEnds PollingContinues
CHECK_DEADLOCK FALSE
