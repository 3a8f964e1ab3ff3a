--------------------------- MODULE MCPollLifecycle ---------------------------
(* An instance of PollLifecycle for TLC. *)
EXTENDS PollLifecycle, TLC

CONSTANTS t1, t2, t3, s1, s2

\* For runs without temporal properties.
TasksAndSenders == Permutations(Tasks) \cup Permutations(Senders)
=============================================================================
