\* Sends and a save while the modem is polled; stops and the lock may time out.
\* It stops when nothing is switched on and all saves and sends are used up.
SPECIFICATION FairSpec
CONSTANTS
  t1 = t1  t2 = t2  t3 = t3  s1 = s1  s2 = s2
  Loop = Loop  None = None
  Tasks = {t1, t2, t3}
  Senders = {s1}
  Services = {"modem"}
  MaxSaves = 1
  MaxSends = 2
  Faults = {"stopTimeout", "lockTimeout"}
PROPERTIES ModemKeepsPolling SendEnds
CHECK_DEADLOCK FALSE
