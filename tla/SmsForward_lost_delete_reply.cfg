\* The OK of a CMGD is lost and its slot is used again before the retry.
SPECIFICATION Spec
CONSTANTS
  a1 = a1  a2 = a2  a1dup = a1dup  b1 = b1  big = big  p1 = p1
  b2 = b2  x1 = x1  KA = KA  KB = KB
  Messages = {a1, a2, p1}
  Keys = {KA, KB}
  NoKey = NoKey  NoRec = NoRec  NoMsg = NoMsg
  Locs <- TwoMe
  Hdr <- Headers
  Oversized <- NoKeys
  MaxSets = 1
  MaxParts = 2
  ExpireCycles = 2
  Faults = {"deleteReply"}
INVARIANT NoLoss
