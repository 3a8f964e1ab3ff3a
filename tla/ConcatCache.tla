----------------------------- MODULE ConcatCache -----------------------------
(***************************************************************************)
(* The volatile reassembly cache of multipart SMS (ModemConcatCache in     *)
(* modem/concat_cache.h), as operators on the array of sets.               *)
(*                                                                         *)
(* A text is abstracted to the message it belongs to, and a sender, its    *)
(* reference and the reference's width to one key: the code only compares  *)
(* them.  have[p] of the code is parts[p] # NoRec.                         *)
(***************************************************************************)
EXTENDS Integers, FiniteSets

CONSTANTS
  Messages,      \* every SMS the network may deliver
  Locs,          \* modem slots: pairs <<storage, index>>
  Keys,          \* (ref, ref width, sender) of a multipart message
  NoKey,         \* the key of an unused set
  NoRec,         \* an absent part
  MaxSets,       \* kMaxSets
  MaxParts,      \* kMaxParts
  ExpireCycles   \* kExpirePollCycles

ASSUME CacheAssumption ==
  /\ MaxSets \in Nat \ {0}
  /\ MaxParts \in Nat \ {0, 1}
  /\ ExpireCycles \in Nat \ {0}
  /\ NoRec \notin [msg : Messages, loc : Locs]

Sets == 1 .. MaxSets
Seqs == 1 .. MaxParts

\* A copied record: the message read, and the id and storage it was read from.
Rec == [msg : Messages, loc : Locs]

SetRec == [used : BOOLEAN, key : Keys \cup {NoKey}, total : 0 .. MaxParts,
           age : 0 .. ExpireCycles, parts : [Seqs -> Rec \cup {NoRec}],
           complete : BOOLEAN, accepted : SUBSET Seqs, deleted : SUBSET Seqs]

NoParts == [p \in Seqs |-> NoRec]

EmptySet == [used |-> FALSE, key |-> NoKey, total |-> 0, age |-> 0, parts |-> NoParts,
             complete |-> FALSE, accepted |-> {}, deleted |-> {}]

\* The set a first part with header h opens.
OpenedBy(h) ==
  [used |-> TRUE, key |-> h.key, total |-> h.total, age |-> 0, parts |-> NoParts,
   complete |-> FALSE, accepted |-> {}, deleted |-> {}]

-----------------------------------------------------------------------------
(* Plausible bugs, used only to show that the properties notice them.      *)

CompleteAgain(set) == set.used /\ \A p \in 1 .. set.total : set.parts[p] # NoRec

NeedsDeleteJoined(set) ==
  {p \in Seqs : set.complete /\ p <= set.total /\ p \notin set.deleted}

AcceptedWhole(set, p)  == [set EXCEPT !.accepted = Seqs]
DeletedWhole(set, p)   == [set EXCEPT !.deleted = Seqs]
DeletedNothing(set, p) == set

-----------------------------------------------------------------------------
(* Queries on one set.                                                     *)

Present(set) == {p \in Seqs : set.used /\ p <= set.total /\ set.parts[p] # NoRec}

IsComplete(set) == set.used /\ \A p \in 1 .. set.total : set.parts[p] # NoRec

IsExpired(set) == set.used /\ set.age >= ExpireCycles

CompleteReady(set) == IsComplete(set) /\ ~set.complete

PartReady(set, p) == p \in Present(set) /\ p \notin set.accepted

NeedsDelete(set) ==
  {p \in Present(set) : p \notin set.deleted /\ (set.complete \/ p \in set.accepted)}

Removable(set) == set.used /\ Present(set) \subseteq set.deleted

(* Queries on the array.  The code's searches return the first match.      *)

ContainsId(sets, loc) ==
  \E s \in Sets : \E p \in Present(sets[s]) : sets[s].parts[p].loc = loc

IsFirst(s, P) == s \in P /\ \A t \in P : s <= t

CompleteSets(sets) == {s \in Sets : IsComplete(sets[s])}
ExpiredSets(sets)  == {s \in Sets : IsExpired(sets[s])}

-----------------------------------------------------------------------------
(* Updates.                                                                *)

\* The sets that already collect the message a part header belongs to.
Matching(sets, h) ==
  {s \in Sets : sets[s].used /\ sets[s].key = h.key /\ sets[s].total = h.total}

Free(sets) == {s \in Sets : ~sets[s].used}

\* The set store() writes to: the first match, else the first free set.
IsTarget(sets, h, s) ==
  IF Matching(sets, h) # {} THEN IsFirst(s, Matching(sets, h))
                            ELSE IsFirst(s, Free(sets))

Storable(sets, h) ==
  /\ h.total \in 2 .. MaxParts
  /\ h.seq \in 1 .. h.total
  /\ \E s \in Sets : IsTarget(sets, h, s)

\* A part already held is not replaced, yet the age restarts in either case.
StoreIn(set, h, rec) ==
  LET base  == IF set.used THEN set ELSE OpenedBy(h)
      kept  == IF base.parts[h.seq] = NoRec THEN rec ELSE base.parts[h.seq]
      given == [base EXCEPT !.parts = [base.parts EXCEPT ![h.seq] = kept]]
  IN  [given EXCEPT !.age = 0]

Aged(set) ==
  IF set.used /\ set.age < ExpireCycles THEN [set EXCEPT !.age = @ + 1] ELSE set

AdvanceCycle(sets) == [s \in Sets |-> Aged(sets[s])]

MarkComplete(set)   == [set EXCEPT !.complete = TRUE]
MarkAccepted(set, p) == [set EXCEPT !.accepted = @ \cup {p}]
MarkDeleted(set, p)  == [set EXCEPT !.deleted = @ \cup {p}]

\* remove() is a no-op while a present part is not deleted.
Remove(set) == IF Removable(set) THEN EmptySet ELSE set
=============================================================================
