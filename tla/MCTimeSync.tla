----------------------------- MODULE MCTimeSync -----------------------------
(* Instances of TimeSync for TLC: one unit of time is a few minutes. *)
EXTENDS TimeSync

NoErrors  == {0}
LongPolls == {2}
TwoPolls  == {1, 2}

\* A large error ahead, and one that leads before 1970.
AllErrors == {0, 6, -80}
=============================================================================
