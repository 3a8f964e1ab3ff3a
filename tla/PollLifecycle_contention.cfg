\* Two sends, a save and GNSS polling contend for Serial1 and anything may fail.
\* It stops when nothing is switched on and all saves and sends are used up.
SPECIFICATION Spec
CONSTANTS
  t1 = t1  t2 = t2  t3 = t3  s1 = s1  s2 = s2
  Loop = Loop  None = None
  Tasks = {t1, t2, t3}
  Senders = {s1, s2}
  Services = {"modem", "gps"}
  MaxSaves = 1
  MaxSends = 2
  Faults = {"stopTimeout", "lockTimeout", "noMemory"}
INVARIANTS OneDialog ModemKeepsUart PollTaskIsNamed
SYMMETRY TasksAndSenders
CHECK_DEADLOCK FALSE
