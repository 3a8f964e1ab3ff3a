\* Resets, submitted settings, outages and failing parts in any order, with two networks
\* that work and one that does not.
SPECIFICATION MCSpec
CONSTANTS
  n1 = n1  n2 = n2  n3 = n3  p1 = p1  p2 = p2
  None = None
  Networks = {n1, n2, n3}
  Good = {n1, n2}
  Passwords = {p1, p2}
  Threshold = 2
  MaxRequests = 2
  MaxResets = 2
  MaxOutages = 1
  Faults = {"storeFails", "apFails"}
INVARIANTS CrashLoopContained ApFollowsPassword
PROPERTIES ReachableAgain RejoinsNetwork ServicesResume ApCloses
