\* Forwarding with every fault but a lost CMGD reply: two sets at once, a
\* duplicate part, a plain message and one part whose sibling never comes.
SPECIFICATION Spec
CONSTANTS
  a1 = a1  a2 = a2  a1dup = a1dup  b1 = b1  big = big  p1 = p1
  b2 = b2  x1 = x1  KA = KA  KB = KB
  Messages = {a1, a2, a1dup, b1, p1}
  Keys = {KA, KB}
  NoKey = NoKey  NoRec = NoRec  NoMsg = NoMsg
  Locs <- TwoMeOneSm
  Hdr <- Headers
  Oversized <- NoKeys
  MaxSets = 2
  MaxParts = 2
  ExpireCycles = 1
  Faults = {"select", "list", "read", "probe", "mode", "smtp", "delete", "reboot"}
INVARIANTS NoLoss CacheMirrorsInbox
PROPERTIES SetReleasedWhenClean DeliveryContract
