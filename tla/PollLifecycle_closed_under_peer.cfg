\* The modem is switched off while GNSS polls: nothing fails, nothing is sent.
SPECIFICATION Spec
CONSTANTS
  t1 = t1  t2 = t2  t3 = t3  s1 = s1  s2 = s2
  Loop = Loop  None = None
  Tasks = {t1, t2}
  Senders = {}
  Services = {"modem", "gps"}
  MaxSaves = 1
  MaxSends = 0
  Faults = {}
INVARIANT EndDisruptsNobody
CHECK_DEADLOCK FALSE
