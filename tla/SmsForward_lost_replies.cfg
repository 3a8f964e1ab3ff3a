\* Lost CMGD replies, an oversized complete message and a malformed record.
SPECIFICATION Spec
CONSTANTS
  a1 = a1  a2 = a2  a1dup = a1dup  b1 = b1  big = big  p1 = p1
  b2 = b2  x1 = x1  KA = KA  KB = KB
  Messages = {a1, a2, b1, b2, x1, big}
  Keys = {KA, KB}
  NoKey = NoKey  NoRec = NoRec  NoMsg = NoMsg
  Locs <- TwoMe
  Hdr <- Headers
  Oversized <- OnlyKB
  MaxSets = 1
  MaxParts = 2
  ExpireCycles = 1
  Faults = {"smtp", "deleteReply", "mode", "reboot"}
INVARIANTS SubmittedOncePerBoot FlagsFollowMail
