\* Delivery in the end, with well-formed messages and faults that do not last.
SPECIFICATION FairSpec
CONSTANTS
  a1 = a1  a2 = a2  a1dup = a1dup  b1 = b1  big = big  p1 = p1
  b2 = b2  x1 = x1  KA = KA  KB = KB
  Messages = {a1, a2, b1}
  Keys = {KA, KB}
  NoKey = NoKey  NoRec = NoRec  NoMsg = NoMsg
  Locs <- TwoMeOneSm
  Hdr <- Headers
  Oversized <- NoKeys
  MaxSets = 1
  MaxParts = 2
  ExpireCycles = 1
  Faults = {"smtp", "delete", "select", "list"}
PROPERTIES EveryMessageMailed EveryMessageErased
