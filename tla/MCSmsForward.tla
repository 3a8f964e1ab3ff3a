---------------------------- MODULE MCSmsForward ----------------------------
(* Instances of SmsForward for TLC. *)
EXTENDS SmsForward

CONSTANTS a1, a2, a1dup, b1, b2, big, p1, x1, KA, KB

Me(n) == {<<"ME", i>> : i \in 1 .. n}
Sm(n) == {<<"SM", i>> : i \in 1 .. n}

Part(k, t, q) == [kind |-> "part", key |-> k, total |-> t, seq |-> q]
Plain         == [kind |-> "plain", key |-> KA, total |-> 0, seq |-> 0]
Malformed     == [kind |-> "malformed", key |-> KA, total |-> 0, seq |-> 0]

Headers ==
  [m \in Messages |->
     CASE m = a1 -> Part(KA, 2, 1)
       [] m = a2 -> Part(KA, 2, 2)
       [] m = a1dup -> Part(KA, 2, 1)
       [] m = b1 -> Part(KB, 2, 1)
       [] m = b2 -> Part(KB, 2, 2)
       [] m = big -> Part(KB, MaxParts + 1, 1)
       [] m = p1 -> Plain
       [] OTHER -> Malformed]

\* Slots of the instances.
TwoMe == Me(2)
TwoMeOneSm == Me(2) \cup Sm(1)

NoKeys == {}
OnlyKB == {KB}
=============================================================================
