----------------------------- MODULE SmsDelivery -----------------------------
(***************************************************************************)
(* What forwarding promises: at-least-once delivery with the modem's       *)
(* message store as the only durable state.  A message may be mailed more  *)
(* than once and may be mailed together with others, but it leaves the     *)
(* store only after an e-mail that carries it was accepted.                *)
(***************************************************************************)
CONSTANT Messages

VARIABLES
  arrived,   \* messages that reached the gateway
  store,     \* messages still stored
  mailed     \* messages an accepted e-mail has carried

vars == <<arrived, store, mailed>>

Init == store \subseteq Messages /\ arrived = store /\ mailed = {}

Arrive(m) ==
  /\ m \notin arrived
  /\ arrived' = arrived \cup {m}
  /\ store' = store \cup {m}
  /\ UNCHANGED mailed

Mail(S) ==
  /\ S \subseteq arrived
  /\ mailed' = mailed \cup S
  /\ UNCHANGED <<arrived, store>>

Erase(m) ==
  /\ m \in store \cap mailed
  /\ store' = store \ {m}
  /\ UNCHANGED <<arrived, mailed>>

Next ==
  \/ \E m \in Messages : Arrive(m) \/ Erase(m)
  \/ \E S \in SUBSET Messages : Mail(S)

Spec == Init /\ [][Next]_vars
=============================================================================
