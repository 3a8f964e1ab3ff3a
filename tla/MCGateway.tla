------------------------------ MODULE MCGateway ------------------------------
(* An instance of Gateway for TLC. *)
EXTENDS Gateway

CONSTANTS n1, n2, n3, p1, p2

\* Passwords and good networks are alike: a device that is set up has p1 and not n2.
MCInit == Init /\ (stored # None => stored.admin = p1 /\ stored.ssid # n2)

MCSpec == MCInit /\ [][Next]_vars /\ Fairness
=============================================================================
