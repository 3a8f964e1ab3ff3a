-------------------------- MODULE SmsForwardProofs --------------------------
(***************************************************************************)
(* Theorems about SmsForward, for every set of messages, slots, headers    *)
(* and faults.  Forwarding loses no message: IInv is inductive when no     *)
(* CMGD reply is lost.  At least once: it implements SmsDelivery then -    *)
(* every step of the cycle is an arrival, an accepted e-mail, a deletion   *)
(* of something mailed, or a stutter.  At most once: within one boot no    *)
(* message is submitted twice, under every fault.                          *)
(***************************************************************************)
EXTENDS SmsForward, TLAPS

(***************************************************************************)
(* The cache operators keep their type and say what they change.           *)
(***************************************************************************)

LEMMA EmptySetFacts ==
  EmptySet \in SetRec /\ Present(EmptySet) = {} /\ ~EmptySet.complete
BY CacheAssumption DEF EmptySet, NoParts, SetRec, Present

LEMMA AgedFacts ==
  ASSUME NEW set \in SetRec
  PROVE  /\ Aged(set) \in SetRec
         /\ Aged(set).used = set.used
         /\ Aged(set).total = set.total
         /\ Aged(set).parts = set.parts
         /\ Aged(set).complete = set.complete
         /\ Aged(set).accepted = set.accepted
         /\ Aged(set).deleted = set.deleted
BY CacheAssumption DEF Aged, SetRec

LEMMA MarkFacts ==
  ASSUME NEW set \in SetRec, NEW p \in Seqs
  PROVE  /\ MarkComplete(set) = [set EXCEPT !.complete = TRUE]
         /\ MarkComplete(set) \in SetRec
         /\ MarkAccepted(set, p) \in SetRec
         /\ MarkDeleted(set, p) \in SetRec
BY DEF MarkComplete, MarkAccepted, MarkDeleted, SetRec

LEMMA RemoveFacts ==
  ASSUME NEW set \in SetRec
  PROVE  /\ Remove(set) \in SetRec
         /\ Remove(set) = EmptySet \/ Remove(set) = set
BY EmptySetFacts DEF Remove

\* A stored part adds at most one part, the record itself; the rest keep their
\* contents and flags.  A set opened by the part starts without flags.
LEMMA StoreInFacts ==
  ASSUME NEW set \in SetRec, NEW rec \in Rec,
         NEW h, h.key \in Keys, h.total \in 2 .. MaxParts, h.seq \in 1 .. h.total,
         set.used => h.total = set.total
  PROVE  LET new == StoreIn(set, h, rec) IN
         /\ new \in SetRec
         /\ new.used /\ new.total = h.total
         /\ new.complete <=> set.used /\ set.complete
         /\ set.used => new.accepted = set.accepted /\ new.deleted = set.deleted
         /\ ~set.used => new.accepted = {} /\ new.deleted = {}
         /\ Present(set) \subseteq Present(new)
         /\ \A p \in Present(new) :
              \/ p \in Present(set) /\ set.used /\ new.parts[p] = set.parts[p]
              \/ p = h.seq /\ new.parts[p] = rec /\ p \notin Present(set)
<1> DEFINE base  == IF set.used THEN set ELSE OpenedBy(h)
           kept  == IF base.parts[h.seq] = NoRec THEN rec ELSE base.parts[h.seq]
           parts == [base.parts EXCEPT ![h.seq] = kept]
           given == [base EXCEPT !.parts = parts]
<1>1. h.total \in 0 .. MaxParts /\ h.seq \in Seqs /\ NoRec \notin Rec
  BY CacheAssumption DEF Seqs, Rec
<1>2. base \in SetRec /\ base.used /\ base.total = h.total
  <2>1. OpenedBy(h) \in SetRec
    BY <1>1, CacheAssumption DEF OpenedBy, NoParts, SetRec
  <2>2. QED
    BY <2>1 DEF OpenedBy
<1>3. /\ base.complete <=> set.used /\ set.complete
      /\ Present(set) \subseteq Present(base)
      /\ \A p \in Present(base) : p \in Present(set)
      /\ set.used => base = set
      /\ ~set.used => Present(base) = {}
  BY DEF OpenedBy, NoParts, Present
<1>4. kept \in Rec \cup {NoRec} /\ (base.parts[h.seq] = NoRec => kept = rec)
  BY <1>1, <1>2 DEF SetRec
<1> HIDE DEF base
<1>5. /\ parts \in [Seqs -> Rec \cup {NoRec}]
      /\ \A p \in Seqs : parts[p] = IF p = h.seq THEN kept ELSE base.parts[p]
  BY <1>1, <1>2, <1>4 DEF SetRec
<1> HIDE DEF parts
<1>6. given \in SetRec /\ given.parts = parts /\ given.used = base.used
      /\ given.total = base.total /\ given.complete = base.complete
      /\ given.accepted = base.accepted /\ given.deleted = base.deleted
  BY <1>2, <1>5 DEF SetRec
<1> HIDE DEF given
<1>7. StoreIn(set, h, rec) = [given EXCEPT !.age = 0]
  BY DEF StoreIn, base, kept, parts, given
<1>8. /\ StoreIn(set, h, rec) \in SetRec
      /\ StoreIn(set, h, rec).parts = parts
      /\ StoreIn(set, h, rec).used = base.used
      /\ StoreIn(set, h, rec).total = base.total
      /\ StoreIn(set, h, rec).complete = base.complete
      /\ StoreIn(set, h, rec).accepted = base.accepted
      /\ StoreIn(set, h, rec).deleted = base.deleted
  BY <1>6, <1>7, CacheAssumption DEF SetRec
<1>9. \A p \in Present(StoreIn(set, h, rec)) :
         \/ p \in Present(base) /\ parts[p] = base.parts[p]
         \/ p = h.seq /\ parts[p] = rec /\ p \notin Present(base)
  BY <1>1, <1>2, <1>4, <1>5, <1>8 DEF Present
<1>10. Present(base) \subseteq Present(StoreIn(set, h, rec))
  BY <1>1, <1>2, <1>4, <1>5, <1>8 DEF Present
<1>11. QED
  BY <1>2, <1>3, <1>8, <1>9, <1>10 DEF base, OpenedBy

-----------------------------------------------------------------------------
(* Frames: what a step needs to show of the cache to keep the facts on it. *)

\* What holds whatever the modem replies.
Steady == TypeOK /\ FlagsFollowMail /\ ScanLooksAtMem1 /\ JobMatchesStep

\* What the slots hold, as long as no CMGD reply is lost.
CacheSlots == CacheMirrorsInbox /\ CacheHoldsDistinctSlots
SlotFacts  == NoLoss /\ CacheSlots /\ SingleHasItsSlot

LEMMA IInvParts == IInv <=> Steady /\ SlotFacts
BY DEF IInv, Steady, SlotFacts, CacheSlots

\* A step that leaves the cache alone, and one that leaves the slots alone, too.
LEMMA FlagsFrame ==
  ASSUME FlagsFollowMail, sets' = sets, mailed \subseteq mailed'
  PROVE  FlagsFollowMail'
BY DEF FlagsFollowMail

LEMMA SlotsFrame ==
  ASSUME CacheSlots, sets' = sets, inbox' = inbox
  PROVE  CacheSlots'
BY DEF CacheSlots, CacheMirrorsInbox, CacheHoldsDistinctSlots

\* Live parts may only go, and only keep what they hold, slot included.
LEMMA LiveFrame ==
  ASSUME CacheSlots,
         \A s \in Sets : \A p \in Live(sets'[s]) :
           /\ p \in Live(sets[s])
           /\ sets'[s].parts[p] = sets[s].parts[p]
           /\ inbox'[sets[s].parts[p].loc] = inbox[sets[s].parts[p].loc]
  PROVE  CacheSlots'
<1>1. CacheMirrorsInbox'
  BY DEF CacheSlots, CacheMirrorsInbox
<1>2. CacheHoldsDistinctSlots'
  <2> SUFFICES ASSUME NEW s \in Sets, NEW t \in Sets,
                      NEW p \in Live(sets'[s]), NEW q \in Live(sets'[t]),
                      sets'[s].parts[p].loc = sets'[t].parts[q].loc
               PROVE  s = t /\ p = q
    BY DEF CacheHoldsDistinctSlots, Live
  <2>1. /\ p \in Live(sets[s]) /\ sets'[s].parts[p] = sets[s].parts[p]
        /\ q \in Live(sets[t]) /\ sets'[t].parts[q] = sets[t].parts[q]
    OBVIOUS
  <2>2. sets[s].parts[p].loc = sets[t].parts[q].loc
    BY <2>1
  <2>3. QED
    BY <2>1, <2>2 DEF CacheSlots, CacheHoldsDistinctSlots
<1>3. QED
  BY <1>1, <1>2 DEF CacheSlots

LEMMA StoredFrame ==
  ASSUME NoLoss, UNCHANGED <<inbox, arrived>>, mailed \subseteq mailed'
  PROVE  NoLoss'
BY DEF NoLoss, Stored

LEMMA CalmFrame ==
  ASSUME SlotFacts, UNCHANGED <<inbox, arrived, sets>>, mailed \subseteq mailed',
         SingleHasItsSlot'
  PROVE  SlotFacts'
BY StoredFrame, SlotsFrame DEF SlotFacts

\* What the typing gives on the record a set job works on and on one part.
LEMMA PartTyping ==
  ASSUME NEW set \in SetRec, NEW p \in Present(set)
  PROVE  p \in Seqs /\ set.used /\ p \in 1 .. set.total /\ set.parts[p] \in Rec
BY CacheAssumption DEF SetRec, Present, Seqs

LEMMA LocTyping ==
  ASSUME NEW l \in Locs
  PROVE  l[1] \in {"ME", "SM"} /\ l = <<l[1], l[2]>>
BY ForwardAssumption

-----------------------------------------------------------------------------
(* The inductive step, one lemma per group of actions.                     *)

Control == ScanLooksAtMem1 /\ JobMatchesStep

\* Steps of the scan that only move its bookkeeping.
LEMMA ScanStep ==
  ASSUME Steady,
         \/ ListInbox \/ ListFails \/ ScanDone
         \/ \E l \in Locs : SkipCached(l) \/ ReadFails(l) \/ SkipUnprobed(l)
  PROVE  Steady' /\ (SlotFacts => SlotFacts')
<1> USE DEF scan, mail, modem
<1>1. TypeOK'
  BY DEF Steady, TypeOK, ListInbox, ListFails, ScanDone, SkipCached, ReadFails,
         SkipUnprobed, ProbeMode, Examine, IsNext, Lowest, Occupied
<1>2. UNCHANGED <<inbox, arrived, sets, job, mailed, found>>
  BY DEF ListInbox, ListFails, ScanDone, SkipCached, ReadFails, SkipUnprobed
<1>3. FlagsFollowMail'
  BY <1>2, FlagsFrame DEF Steady
<1>4. ScanLooksAtMem1'
  BY <1>2 DEF Steady, ScanLooksAtMem1, ListInbox, ListFails, ScanDone, SkipCached,
              ReadFails, SkipUnprobed, Examine, IsNext, Lowest, Occupied
<1>5. found = NoRec
  BY DEF Steady, JobMatchesStep, ListInbox, ListFails, ScanDone, SkipCached, ReadFails,
         SkipUnprobed, Examine, IsNext
<1>6. SingleHasItsSlot'
  BY <1>2, <1>5 DEF SingleHasItsSlot
<1>7. JobMatchesStep'
  BY <1>2, <1>5 DEF Steady, JobMatchesStep, ListInbox, ListFails, ScanDone, SkipCached,
         ReadFails, SkipUnprobed, Examine, IsNext, NoJob
<1>8. QED
  BY <1>1, <1>2, <1>3, <1>4, <1>6, <1>7, CalmFrame DEF Steady

\* A record found to be forwarded is no live part: the cache knows no slot of it.
LEMMA FindSingleStep ==
  ASSUME Steady, NEW l \in Locs, FindSingle(l)
  PROVE  Steady' /\ (SlotFacts => SlotFacts')
<1> USE DEF scan, mail, modem
<1>1. UNCHANGED <<inbox, arrived, sets, job, mailed, mem1>>
  BY DEF FindSingle
<1>2. /\ pc = "scan" /\ pc' = "choose" /\ found' = RecAt(l)
      /\ ~ContainsId(sets, l) /\ l[1] = mem1 /\ inbox[l] \in Messages
  BY DEF FindSingle, Examine, IsNext, Steady, ScanLooksAtMem1, TypeOK
<1>3. TypeOK'
  <2>1. found' \in Rec
    BY <1>2 DEF RecAt, Rec
  <2>2. fallback' \in BOOLEAN
    BY Zenon DEF FindSingle
  <2>3. QED
    BY <1>1, <1>2, <2>1, <2>2 DEF Steady, TypeOK, FindSingle, ProbeMode
<1>4. FlagsFollowMail'
  BY <1>1, FlagsFrame DEF Steady
<1>5. SingleHasItsSlot'
  <2>1. \A s \in Sets : \A p \in Live(sets[s]) : sets[s].parts[p].loc # l
    BY <1>2 DEF ContainsId, Live
  <2>2. QED
    BY <2>1, <1>1, <1>2 DEF SingleHasItsSlot, RecAt
<1>6. ScanLooksAtMem1' /\ JobMatchesStep'
  BY <1>1, <1>2 DEF Steady, ScanLooksAtMem1, JobMatchesStep, NoJob
<1>7. QED
  BY <1>1, <1>3, <1>4, <1>5, <1>6, CalmFrame DEF Steady

\* Steps between two dialogs that leave the cache, the slots and the mail alone.
LEMMA IdleStep ==
  ASSUME Steady,
         ChooseSet \/ ChooseSingle \/ Rejected \/ CompleteTooLong \/ FragmentPassed
           \/ EraseSingleFails \/ Restore \/ RestartTask
  PROVE  Steady' /\ (SlotFacts => SlotFacts')
<1> USE DEF scan, mail, modem, GiveUp
<1>1. UNCHANGED <<inbox, arrived, sets, mailed>>
  BY DEF ChooseSet, ChooseSingle, Rejected, CompleteTooLong, FragmentPassed,
         EraseSingleFails, Restore, RestartTask
<1>2. FlagsFollowMail'
  BY <1>1, FlagsFrame DEF Steady
<1>3. CASE ChooseSet \/ ChooseSingle
  <2>1. UNCHANGED <<mem1, textMode, active, pending, found, fallback, joined, frags>>
        /\ pc = "choose" /\ pc' \in {"submit", "erase", "restore"}
    BY <1>3 DEF ChooseSet, ChooseSingle
  <2>2. job = NoJob
    BY <2>1 DEF Steady, JobMatchesStep
  <2>3. job' = NoJob \/ \E s \in 0 .. MaxSets, k \in {"single", "complete", "expired"} :
                         job' = [kind |-> k, set |-> s, part |-> 1]
    BY <1>3, <2>2, CacheAssumption DEF ChooseSet, ChooseSingle, StartJob, Sets, IsFirst
  <2>4. TypeOK'
    BY <2>1, <2>3, <1>1, CacheAssumption DEF Steady, TypeOK, NoJob
  <2>5. ScanLooksAtMem1'
    BY <1>1, <2>1 DEF Steady, ScanLooksAtMem1
  <2>6. JobMatchesStep'
    BY <1>1, <1>3, <2>1, <2>2
       DEF JobMatchesStep, ChooseSet, ChooseSingle, StartJob, NoJob, IsFirst,
           CompleteSets, ExpiredSets, CompleteReady, IsComplete, IsExpired
  <2>7. SlotFacts => SingleHasItsSlot'
    BY <1>1, <2>1 DEF SlotFacts, SingleHasItsSlot
  <2>8. QED
    BY <1>1, <1>2, <2>4, <2>5, <2>6, <2>7, CalmFrame DEF Steady
<1>4. CASE FragmentPassed
  <2> DEFINE JobType == [kind : {"none", "single", "complete", "expired"},
                         set : 0 .. MaxSets, part : 0 .. MaxParts + 1]
  <2>0. job' \in JobType
    <3>1. job \in JobType /\ sets[job.set].total \in 0 .. MaxParts
          /\ job.part <= sets[job.set].total /\ (job' = job \/ NextFragment)
      BY <1>4 DEF Steady, TypeOK, JobMatchesStep, FragmentPassed, Submitting, SetRec
    <3>2. job.part + 1 \in 0 .. MaxParts + 1
      BY <3>1, CacheAssumption
    <3>3. QED
      BY <3>1, <3>2 DEF NextFragment
  <2>4. UNCHANGED <<mem1, textMode, active, pending, found, fallback, joined, frags>>
        /\ pc' \in {"erase", "submit"}
    BY <1>4 DEF FragmentPassed, Submitting
  <2>1. TypeOK'
    BY <1>1, <2>4, <2>0 DEF Steady, TypeOK
  <2>2. Control'
    BY <1>1, <1>4, CacheAssumption
       DEF Steady, TypeOK, JobMatchesStep, ScanLooksAtMem1, Control, FragmentPassed,
           Submitting, NextFragment, SetRec
  <2>3. SingleHasItsSlot'
    <3>1. job'.kind = "expired"
      BY <1>4 DEF Steady, TypeOK, FragmentPassed, Submitting, NextFragment
    <3>2. QED
      BY <2>4, <3>1 DEF SingleHasItsSlot
  <2>5. QED
    BY <1>1, <1>2, <2>1, <2>2, <2>3, CalmFrame DEF Steady, Control
<1>5. CASE Rejected \/ CompleteTooLong \/ EraseSingleFails \/ Restore \/ RestartTask
  <2>1. TypeOK'
    <3>1. CASE Rejected \/ CompleteTooLong \/ EraseSingleFails
      <4>1. /\ UNCHANGED <<mem1, textMode, active, pending, found, fallback, job, joined, frags>>
            /\ pc' = "restore"
        BY <3>1 DEF Rejected, CompleteTooLong, EraseSingleFails
      <4>2. QED
        BY <1>1, <4>1 DEF Steady, TypeOK
    <3>2. CASE Restore
      <4>1. fallback' \in BOOLEAN
        BY <3>2, Zenon DEF Restore
      <4>2. mem1' \in {"ME", "SM"}
        BY <3>2 DEF Steady, TypeOK, Restore
      <4>3. /\ UNCHANGED <<textMode, joined, frags>>
            /\ pc' = "idle" /\ active' = "ME" /\ pending' = {} /\ found' = NoRec
            /\ job' = NoJob
        BY <3>2 DEF Restore
      <4>4. job' \in [kind : {"none", "single", "complete", "expired"},
                      set : 0 .. MaxSets, part : 0 .. MaxParts + 1]
        BY <4>3, CacheAssumption DEF NoJob
      <4>5. QED
        BY <1>1, <4>1, <4>2, <4>3, <4>4 DEF Steady, TypeOK
    <3>3. CASE RestartTask
      <4>1. textMode' \in BOOLEAN
        BY <3>3, Zenon DEF Steady, TypeOK, RestartTask
      <4>2. mem1' \in {"ME", "SM"}
        BY <3>3 DEF Steady, TypeOK, RestartTask
      <4>3. UNCHANGED <<pc, active, pending, found, fallback, job, joined, frags>>
        BY <3>3 DEF RestartTask
      <4>4. QED
        BY <1>1, <4>1, <4>2, <4>3 DEF Steady, TypeOK
    <3>4. QED
      BY <1>5, <3>1, <3>2, <3>3
  <2>2. Control'
    BY <1>1, <1>5
       DEF Steady, JobMatchesStep, ScanLooksAtMem1, Control, NoJob, Rejected,
           CompleteTooLong, EraseSingleFails, Restore, RestartTask
  <2>3. SlotFacts => SingleHasItsSlot'
    BY <1>1, <1>5
       DEF SlotFacts, SingleHasItsSlot, Rejected, CompleteTooLong, EraseSingleFails, Restore,
           RestartTask
  <2>4. QED
    BY <1>1, <1>2, <2>1, <2>2, <2>3, CalmFrame DEF Steady, Control
<1>6. QED
  BY <1>3, <1>4, <1>5

-----------------------------------------------------------------------------
(* Steps on one set: the flags move, the slots do not.                      *)

\* Two typed records agree on everything the cache facts look at.
SameContents(new, old) ==
  /\ new.used = old.used /\ new.total = old.total /\ new.parts = old.parts

LEMMA SameContentsFacts ==
  ASSUME NEW new, NEW old, SameContents(new, old)
  PROVE  /\ Present(new) = Present(old)
         /\ IsComplete(new) = IsComplete(old)
BY DEF SameContents, Present, IsComplete

\* A new cycle ages every set.
LEMMA BeginCycleStep ==
  ASSUME Steady, BeginCycle
  PROVE  Steady' /\ (SlotFacts => SlotFacts')
<1> USE DEF scan, mail, modem
<1>1. /\ UNCHANGED <<inbox, arrived, mem1, textMode, active, pending, found, fallback,
                     job, mailed, joined, frags>>
      /\ pc = "idle" /\ pc' = "list" /\ sets' = [s \in Sets |-> Aged(sets[s])]
  BY DEF BeginCycle, AdvanceCycle
<1>2. \A s \in Sets : /\ sets'[s] \in SetRec /\ SameContents(sets'[s], sets[s])
                      /\ sets'[s].complete = sets[s].complete
                      /\ sets'[s].accepted = sets[s].accepted
                      /\ sets'[s].deleted = sets[s].deleted
  BY <1>1, AgedFacts DEF Steady, TypeOK, SameContents
<1>3. TypeOK'
  BY <1>1, <1>2 DEF Steady, TypeOK
<1>4. \A s \in Sets : /\ Present(sets'[s]) = Present(sets[s])
                      /\ IsComplete(sets'[s]) = IsComplete(sets[s])
                      /\ sets'[s].parts = sets[s].parts
  BY <1>2, SameContentsFacts DEF SameContents
<1>5. FlagsFollowMail'
  BY <1>1, <1>2, <1>4 DEF Steady, FlagsFollowMail
<1>6. Control'
  BY <1>1 DEF Steady, Control, ScanLooksAtMem1, JobMatchesStep
<1>7. ASSUME SlotFacts PROVE SlotFacts'
  <2>1. NoLoss'
    BY <1>1, <1>7, StoredFrame DEF SlotFacts
  <2>2. \A s \in Sets : Live(sets'[s]) = Live(sets[s])
    BY <1>2, <1>4 DEF Live
  <2>3. CacheSlots'
    BY <1>1, <1>4, <1>7, <2>2, LiveFrame DEF SlotFacts
  <2>4. SingleHasItsSlot'
    BY <1>1 DEF SingleHasItsSlot
  <2>5. QED
    BY <2>1, <2>3, <2>4 DEF SlotFacts
<1>8. QED
  BY <1>3, <1>5, <1>6, <1>7 DEF Steady, Control

LEMMA BumpFacts ==
  ASSUME NEW count \in [Messages -> 0 .. MaxCount], NEW S
  PROVE  Bump(count, S) \in [Messages -> 0 .. MaxCount]
BY DEF Bump, MaxCount

\* The set a set job works on.
LEMMA JobSetFacts ==
  ASSUME Steady, pc \in {"submit", "erase"}, job.kind \in {"complete", "expired"}
  PROVE  /\ job.set \in Sets
         /\ sets[job.set] \in SetRec
         /\ sets[job.set].used
         /\ \A p \in Present(sets[job.set]) :
              p \in Seqs /\ sets[job.set].parts[p] \in Rec
BY PartTyping DEF Steady, TypeOK, JobMatchesStep

\* One set changes its flags for the better, the rest stay as they are.
LEMMA FlagFrame ==
  ASSUME Steady, NEW s \in Sets, NEW new \in SetRec,
         SameContents(new, sets[s]),
         sets[s].deleted \subseteq new.deleted,
         new.accepted \subseteq Present(new),
         new.complete => IsComplete(new),
         mailed \subseteq mailed',
         \A p \in Present(new) :
           new.complete \/ p \in new.accepted => new.parts[p].msg \in mailed',
         sets' = [sets EXCEPT ![s] = new]
  PROVE  /\ sets' \in [Sets -> SetRec] /\ FlagsFollowMail'
         /\ \A t \in Sets : \A p \in Live(sets'[t]) :
              p \in Live(sets[t]) /\ sets'[t].parts[p] = sets[t].parts[p]
<1>1. /\ sets' \in [Sets -> SetRec] /\ sets'[s] = new
      /\ \A t \in Sets : t # s => sets'[t] = sets[t]
  BY DEF Steady, TypeOK
<1>2. \A t \in Sets : \A p \in Live(sets'[t]) :
        p \in Live(sets[t]) /\ sets'[t].parts[p] = sets[t].parts[p]
  <2>1. Present(new) = Present(sets[s]) /\ new.parts = sets[s].parts
    BY SameContentsFacts DEF SameContents
  <2>2. QED
    BY <1>1, <2>1 DEF Live
<1>3. FlagsFollowMail'
  BY <1>1 DEF Steady, FlagsFollowMail
<1>4. QED
  BY <1>1, <1>2, <1>3

\* With the slots as they were, the live parts that stay keep theirs.
LEMMA SameSlots ==
  ASSUME SlotFacts, UNCHANGED <<inbox, arrived>>, mailed \subseteq mailed',
         \A t \in Sets : \A p \in Live(sets'[t]) :
           p \in Live(sets[t]) /\ sets'[t].parts[p] = sets[t].parts[p],
         SingleHasItsSlot'
  PROVE  SlotFacts'
BY StoredFrame, LiveFrame DEF SlotFacts

LEMMA CompleteAcceptedStep ==
  ASSUME Steady, CompleteAccepted
  PROVE  Steady' /\ (SlotFacts => SlotFacts')
<1> USE DEF scan, mail, modem
<1> DEFINE set == sets[job.set]
<1>1. /\ UNCHANGED <<inbox, arrived, mem1, textMode, active, pending, found, fallback,
                     job, frags>>
      /\ pc = "submit" /\ job.kind = "complete" /\ pc' = "erase"
      /\ mailed' = mailed \cup Texts(set) /\ joined' = Bump(joined, Texts(set))
      /\ sets' = [sets EXCEPT ![job.set] = MarkComplete(set)]
  BY DEF CompleteAccepted, Submitting
<1>2. job.set \in Sets /\ set \in SetRec /\ set.used /\ IsComplete(set)
      /\ \A p \in Present(set) : p \in Seqs /\ set.parts[p] \in Rec
  <2>1. IsComplete(set)
    BY <1>1 DEF Steady, JobMatchesStep, CompleteReady
  <2>2. QED
    BY <1>1, <2>1, JobSetFacts
<1> HIDE DEF set
<1>3. MarkComplete(set) \in SetRec /\ SameContents(MarkComplete(set), set)
      /\ MarkComplete(set).complete /\ MarkComplete(set).deleted = set.deleted
      /\ MarkComplete(set).accepted = set.accepted
  BY <1>2 DEF MarkComplete, SameContents, SetRec
<1>4. Present(MarkComplete(set)) = Present(set) /\ IsComplete(MarkComplete(set))
      /\ MarkComplete(set).parts = set.parts
  BY <1>2, <1>3, SameContentsFacts DEF SameContents
<1>5. set.accepted \subseteq Present(set)
  BY <1>2 DEF Steady, FlagsFollowMail, set
<1>6. \A p \in Present(set) : set.parts[p].msg \in mailed'
  BY <1>1 DEF Texts
<1>7. /\ sets' \in [Sets -> SetRec] /\ FlagsFollowMail'
      /\ \A t \in Sets : \A p \in Live(sets'[t]) :
           p \in Live(sets[t]) /\ sets'[t].parts[p] = sets[t].parts[p]
  BY <1>1, <1>2, <1>3, <1>4, <1>5, <1>6, FlagFrame DEF set
<1>8. mailed' \subseteq Messages
  BY <1>1, <1>2 DEF Steady, TypeOK, Texts, Rec
<1>9. TypeOK'
  BY <1>1, <1>7, <1>8, BumpFacts DEF Steady, TypeOK
<1>10. Control'
  <2>1. sets'[job.set].used
    BY <1>1, <1>2, <1>3 DEF Steady, TypeOK, SameContents
  <2>2. QED
    BY <1>1, <1>2, <2>1 DEF Steady, Control, ScanLooksAtMem1, JobMatchesStep
<1>11. SingleHasItsSlot'
  BY <1>1 DEF SingleHasItsSlot
<1>12. QED
  BY <1>1, <1>7, <1>9, <1>10, <1>11, SameSlots DEF Steady, Control

LEMMA FragmentAcceptedStep ==
  ASSUME Steady, FragmentAccepted
  PROVE  Steady' /\ (SlotFacts => SlotFacts')
<1> USE DEF scan, mail, modem
<1> DEFINE set == sets[job.set]
           new == MarkAccepted(set, job.part)
<1>1. /\ UNCHANGED <<inbox, arrived, mem1, textMode, active, pending, found, fallback,
                     job, joined>>
      /\ pc = "submit" /\ job.kind = "expired" /\ pc' = "erase"
      /\ job.part \in Present(set)
      /\ mailed' = mailed \cup {set.parts[job.part].msg}
      /\ frags' = Bump(frags, {set.parts[job.part].msg})
      /\ sets' = [sets EXCEPT ![job.set] = new]
  BY DEF FragmentAccepted, Submitting, PartReady
<1>2. job.set \in Sets /\ set \in SetRec /\ set.used
      /\ \A p \in Present(set) : p \in Seqs /\ set.parts[p] \in Rec
  BY <1>1, JobSetFacts
<1>3. /\ set.complete => IsComplete(set)
      /\ set.accepted \subseteq Present(set)
      /\ \A p \in Present(set) :
           set.complete \/ p \in set.accepted => set.parts[p].msg \in mailed
  BY <1>2 DEF Steady, FlagsFollowMail
<1>11. sets[job.set] = set
  OBVIOUS
<1> HIDE DEF set
<1>4. new \in SetRec /\ SameContents(new, set) /\ new.complete = set.complete
      /\ new.deleted = set.deleted /\ new.accepted = set.accepted \cup {job.part}
  BY <1>1, <1>2 DEF MarkAccepted, SameContents, SetRec
<1> HIDE DEF new
<1>5. Present(new) = Present(set) /\ IsComplete(new) = IsComplete(set)
      /\ new.parts = set.parts
  BY <1>4, SameContentsFacts DEF SameContents
<1>6. \A p \in Present(new) :
         new.complete \/ p \in new.accepted => new.parts[p].msg \in mailed'
  BY <1>1, <1>3, <1>4, <1>5
<1>7. /\ sets' \in [Sets -> SetRec] /\ FlagsFollowMail'
      /\ \A t \in Sets : \A p \in Live(sets'[t]) :
           p \in Live(sets[t]) /\ sets'[t].parts[p] = sets[t].parts[p]
  <2>1. /\ SameContents(new, sets[job.set]) /\ sets[job.set].deleted \subseteq new.deleted
        /\ new.accepted \subseteq Present(new) /\ (new.complete => IsComplete(new))
        /\ mailed \subseteq mailed'
    BY <1>1, <1>3, <1>4, <1>5, <1>11
  <2>2. QED
    BY <1>1, <1>2, <1>4, <1>6, <2>1, FlagFrame
<1>8. TypeOK'
  <2>1. mailed' \subseteq Messages
    BY <1>1, <1>2 DEF Steady, TypeOK, Rec
  <2>2. QED
    BY <1>1, <1>7, <2>1, BumpFacts DEF Steady, TypeOK
<1>9. Control'
  <2>1. sets'[job.set].used /\ sets'[job.set].total = set.total
    BY <1>1, <1>2, <1>4 DEF Steady, TypeOK, SameContents
  <2>2. job.part <= set.total
    BY <1>1, <1>2, PartTyping DEF SetRec
  <2>3. QED
    BY <1>1, <1>2, <2>1, <2>2 DEF Steady, Control, ScanLooksAtMem1, JobMatchesStep
<1>10. SingleHasItsSlot'
  BY <1>1 DEF SingleHasItsSlot
<1>12. QED
  BY <1>1, <1>7, <1>8, <1>9, <1>10, SameSlots DEF Steady, Control

LEMMA SingleAcceptedStep ==
  ASSUME Steady, SingleAccepted
  PROVE  Steady' /\ (SlotFacts => SlotFacts')
<1> USE DEF scan, mail, modem
<1>1. /\ UNCHANGED <<inbox, arrived, mem1, textMode, active, pending, found, fallback,
                     job, joined, frags, sets>>
      /\ pc = "submit" /\ job.kind = "single" /\ pc' = "erase"
      /\ mailed' = mailed \cup {found.msg}
  BY DEF SingleAccepted, Submitting
<1>2. found \in Rec
  BY <1>1 DEF Steady, TypeOK, JobMatchesStep
<1>3. TypeOK'
  <2>1. mailed' \subseteq Messages
    BY <1>1, <1>2 DEF Steady, TypeOK, Rec
  <2>2. QED
    BY <1>1, <2>1 DEF Steady, TypeOK
<1>4. FlagsFollowMail'
  BY <1>1, FlagsFrame DEF Steady
<1>5. Control'
  BY <1>1 DEF Steady, Control, ScanLooksAtMem1, JobMatchesStep
<1>6. SlotFacts => SingleHasItsSlot'
  BY <1>1 DEF SlotFacts, SingleHasItsSlot
<1>7. QED
  BY <1>1, <1>3, <1>4, <1>5, <1>6, CalmFrame DEF Steady, Control

-----------------------------------------------------------------------------
(* Steps that release sets.                                                *)

\* Sets become empty or stay; nothing else the cache facts look at moves.
LEMMA ReleaseFrame ==
  ASSUME Steady, sets' \in [Sets -> SetRec], mailed' = mailed,
         \A s \in Sets : sets'[s] = sets[s] \/ sets'[s] = EmptySet
  PROVE  /\ FlagsFollowMail'
         /\ \A s \in Sets : \A p \in Live(sets'[s]) :
              p \in Live(sets[s]) /\ sets'[s].parts[p] = sets[s].parts[p]
<1>1. \A s \in Sets : \A p \in Live(sets'[s]) :
         p \in Live(sets[s]) /\ sets'[s].parts[p] = sets[s].parts[p]
  BY EmptySetFacts DEF Live
<1>2. FlagsFollowMail'
  BY EmptySetFacts DEF Steady, FlagsFollowMail, EmptySet
<1>3. QED
  BY <1>1, <1>2

LEMMA ReleaseStep ==
  ASSUME Steady, FragmentsDone \/ EraseDone
  PROVE  Steady' /\ (SlotFacts => SlotFacts')
<1> USE DEF scan, mail, modem
<1>1. /\ UNCHANGED <<inbox, arrived, mem1, textMode, active, pending, found, fallback,
                     mailed, joined, frags>>
      /\ pc \in {"submit", "erase"} /\ job.kind \in {"complete", "expired"}
  BY DEF FragmentsDone, EraseDone, Submitting, Erasing
<1>2. job.set \in Sets /\ sets[job.set] \in SetRec /\ sets[job.set].used
  BY <1>1, JobSetFacts
<1>3. /\ sets' = sets \/ ReleaseSet
      /\ \/ pc' = "restore" /\ job' = job
         \/ /\ pc = "erase" /\ job.kind = "expired" /\ NextFragment
            /\ pc' = "submit" /\ sets' = sets
  BY <1>1 DEF FragmentsDone, EraseDone, Submitting, Erasing
<1>4. sets' \in [Sets -> SetRec] /\ \A s \in Sets : sets'[s] = sets[s] \/ sets'[s] = EmptySet
  BY <1>2, <1>3, RemoveFacts DEF Steady, TypeOK, ReleaseSet
<1>5. /\ FlagsFollowMail'
      /\ \A s \in Sets : \A p \in Live(sets'[s]) :
           p \in Live(sets[s]) /\ sets'[s].parts[p] = sets[s].parts[p]
  BY <1>1, <1>4, ReleaseFrame
<1>6. job' \in [kind : {"none", "single", "complete", "expired"},
                set : 0 .. MaxSets, part : 0 .. MaxParts + 1]
  <2>1. CASE job' = job
    BY <2>1 DEF Steady, TypeOK
  <2>2. CASE pc = "erase" /\ job.kind = "expired" /\ NextFragment
    <3>1. job.part \in Nat /\ job.part <= sets[job.set].total
      BY <2>2 DEF Steady, TypeOK, JobMatchesStep
    <3>2. job.part + 1 \in 0 .. MaxParts + 1
      BY <3>1, <1>2, CacheAssumption DEF SetRec
    <3>3. QED
      BY <2>2, <3>2 DEF Steady, TypeOK, NextFragment
  <2>3. QED
    BY <1>3, <2>1, <2>2
<1>7. TypeOK'
  <2>1. pc' \in {"submit", "restore"}
    BY <1>3
  <2>2. QED
    BY <1>1, <1>4, <1>6, <2>1 DEF Steady, TypeOK
<1>8. CASE pc' = "restore" /\ job' = job
  <2>1. Control' /\ SingleHasItsSlot'
    BY <1>1, <1>8 DEF Control, ScanLooksAtMem1, SingleHasItsSlot, JobMatchesStep
  <2>2. QED
    BY <1>1, <1>5, <1>7, <2>1, SameSlots DEF Steady, Control
<1>9. CASE /\ pc = "erase" /\ job.kind = "expired" /\ NextFragment
           /\ pc' = "submit" /\ sets' = sets
  <2>1. job.part \in Nat /\ job' = [job EXCEPT !.part = job.part + 1]
        /\ job'.kind = "expired" /\ job'.set = job.set /\ job'.part = job.part + 1
    BY <1>9 DEF Steady, TypeOK, NextFragment
  <2>2. Control' /\ SingleHasItsSlot'
    BY <1>1, <1>2, <1>9, <2>1
       DEF Control, ScanLooksAtMem1, SingleHasItsSlot, JobMatchesStep
  <2>3. QED
    BY <1>1, <1>5, <1>7, <2>2, SameSlots DEF Steady, Control
<1>10. QED
  BY <1>3, <1>8, <1>9

LEMMA RebootStep ==
  ASSUME Steady, Reboot
  PROVE  Steady' /\ (SlotFacts => SlotFacts')
<1>1. sets' \in [Sets -> SetRec] /\ \A s \in Sets : sets'[s] = EmptySet
  BY EmptySetFacts DEF Reboot
<1>2. /\ FlagsFollowMail'
      /\ \A s \in Sets : \A p \in Live(sets'[s]) :
           p \in Live(sets[s]) /\ sets'[s].parts[p] = sets[s].parts[p]
  BY <1>1, ReleaseFrame DEF Reboot
<1>3. TypeOK'
  <2>1. textMode' \in BOOLEAN /\ fallback' \in BOOLEAN
    BY Zenon DEF Reboot, Steady, TypeOK
  <2>2. mem1' \in {"ME", "SM"}
    BY DEF Reboot, Steady, TypeOK
  <2>3. /\ pc' = "idle" /\ active' = "ME" /\ pending' = {} /\ found' = NoRec
        /\ joined' = [m \in Messages |-> 0] /\ frags' = [m \in Messages |-> 0]
        /\ UNCHANGED <<inbox, arrived, mailed>>
    BY DEF Reboot
  <2>4. job' \in [kind : {"none", "single", "complete", "expired"},
                  set : 0 .. MaxSets, part : 0 .. MaxParts + 1]
    BY CacheAssumption DEF Reboot, NoJob
  <2>5. QED
    BY <1>1, <2>1, <2>2, <2>3, <2>4 DEF Steady, TypeOK, MaxCount
<1>4. Control'
  BY DEF Reboot, Control, ScanLooksAtMem1, JobMatchesStep, NoJob
<1>5. SingleHasItsSlot'
  BY DEF Reboot, SingleHasItsSlot
<1>6. UNCHANGED <<inbox, arrived, mailed>>
  BY DEF Reboot
<1>7. QED
  BY <1>2, <1>3, <1>4, <1>5, <1>6, SameSlots DEF Steady, Control

-----------------------------------------------------------------------------
(* Steps that change the slots or add to the cache.                        *)

\* A new message takes a free slot, so no live part's and not the single's.
LEMMA ArriveStep ==
  ASSUME Steady, NEW m \in Messages, NEW l \in Locs, Arrive(m, l)
  PROVE  Steady' /\ (SlotFacts => SlotFacts')
<1> USE DEF scan, mail, modem
<1>1. /\ UNCHANGED <<mem1, textMode, sets, pc, active, pending, found, fallback, job,
                     mailed, joined, frags>>
      /\ inbox[l] = NoMsg /\ inbox' = [inbox EXCEPT ![l] = m]
      /\ arrived' = arrived \cup {m}
  BY DEF Arrive
<1>2. /\ inbox' \in [Locs -> Messages \cup {NoMsg}] /\ inbox'[l] = m /\ m # NoMsg
      /\ \A k \in Locs : inbox'[k] = IF k = l THEN m ELSE inbox[k]
  BY <1>1, ForwardAssumption DEF Steady, TypeOK
<1>3. TypeOK'
  BY <1>1, <1>2 DEF Steady, TypeOK
<1>4. FlagsFollowMail'
  BY <1>1, FlagsFrame DEF Steady
<1>5. Control'
  BY <1>1, <1>2 DEF Steady, TypeOK, Control, ScanLooksAtMem1, JobMatchesStep
<1>6. ASSUME SlotFacts PROVE SlotFacts'
  <2>1. NoLoss'
    BY <1>1, <1>2, <1>6 DEF SlotFacts, NoLoss, Stored
  <2>2. \A s \in Sets : \A p \in Live(sets[s]) :
           sets[s].parts[p].loc \in Locs /\ sets[s].parts[p].loc # l
    <3> TAKE s \in Sets
    <3> TAKE p \in Live(sets[s])
    <3>1. sets[s].parts[p] \in Rec
      BY PartTyping DEF Steady, TypeOK, Live
    <3>2. inbox[sets[s].parts[p].loc] # NoMsg
      BY <3>1, <1>6, ForwardAssumption DEF SlotFacts, CacheSlots, CacheMirrorsInbox, Rec
    <3>3. QED
      BY <3>1, <3>2, <1>1 DEF Rec
  <2>3. CacheSlots'
    BY <1>1, <1>2, <1>6, <2>2, LiveFrame DEF SlotFacts
  <2>4. SingleHasItsSlot'
    <3>1. found # NoRec => found \in Rec /\ found.loc \in Locs /\ found.msg # NoMsg
      BY ForwardAssumption DEF Steady, TypeOK, Rec
    <3>2. QED
      BY <3>1, <1>1, <1>2, <1>6 DEF SlotFacts, SingleHasItsSlot
  <2>5. QED
    BY <2>1, <2>3, <2>4 DEF SlotFacts
<1>7. QED
  BY <1>3, <1>4, <1>5, <1>6 DEF Steady, Control

\* Emptying a place changes at most that one slot, and only to NoMsg.
LEMMA EmptiedTyping ==
  ASSUME inbox \in [Locs -> Messages \cup {NoMsg}], NEW l,
         inbox' = [inbox EXCEPT ![l] = NoMsg]
  PROVE  /\ inbox' \in [Locs -> Messages \cup {NoMsg}]
         /\ \A k \in Locs : k # l => inbox'[k] = inbox[k]
         /\ \A k \in Locs : inbox'[k] \in {inbox[k], NoMsg}
BY ForwardAssumption

\* Deleting one slot whose message is mailed.
LEMMA EmptiedFacts ==
  ASSUME NoLoss, NEW l \in Locs, inbox[l] \in mailed,
         \A k \in Locs : k # l => inbox'[k] = inbox[k],
         arrived' = arrived, mailed' = mailed
  PROVE  NoLoss'
<1>1. Stored \subseteq Stored' \cup {inbox[l]}
  BY DEF Stored
<1>2. QED
  BY <1>1 DEF NoLoss

LEMMA ErasePartStep ==
  ASSUME Steady, NEW p \in Seqs, ErasePart(p)
  PROVE  Steady' /\ (SlotFacts => SlotFacts')
<1> USE DEF scan, mail, modem
<1> DEFINE set == sets[job.set]
           loc == set.parts[p].loc
           new == MarkDeleted(set, p)
<1>1. /\ UNCHANGED <<arrived, textMode, pc, active, pending, found, fallback, job,
                     mailed, joined, frags>>
      /\ pc = "erase" /\ job.kind \in {"complete", "expired"}
      /\ p \in Live(set) /\ (set.complete \/ p \in set.accepted)
      /\ mem1' = loc[1] /\ inbox' = [inbox EXCEPT ![<<loc[1], loc[2]>>] = NoMsg]
      /\ sets' = [sets EXCEPT ![job.set] = new]
  BY DEF ErasePart, Erasing, IsPurged, IsFirst, NeedsDelete, PartLoc, Emptied, Live
<1>2. job.set \in Sets /\ set \in SetRec /\ set.used /\ p \in Present(set)
      /\ set.parts[p] \in Rec
  BY <1>1, JobSetFacts DEF Live
<1>3. loc \in Locs /\ loc[1] \in {"ME", "SM"} /\ loc = <<loc[1], loc[2]>>
  BY <1>2, LocTyping DEF Rec
<1>4. /\ set.complete => IsComplete(set)
      /\ set.accepted \subseteq Present(set)
      /\ \A q \in Present(set) :
           set.complete \/ q \in set.accepted => set.parts[q].msg \in mailed
  BY <1>2 DEF Steady, FlagsFollowMail
<1>5. sets[job.set] = set
  OBVIOUS
<1> HIDE DEF loc
<1>6. /\ inbox' \in [Locs -> Messages \cup {NoMsg}]
      /\ \A k \in Locs : k # loc => inbox'[k] = inbox[k]
  BY <1>1, <1>3, EmptiedTyping DEF Steady, TypeOK
<1>7. SlotFacts => inbox[loc] = set.parts[p].msg
  BY <1>1, <1>2 DEF SlotFacts, CacheSlots, CacheMirrorsInbox, loc
<1>8. SlotFacts => \A t \in Sets : \A q \in Live(sets[t]) :
         sets[t].parts[q].loc \in Locs /\ (sets[t].parts[q].loc = loc => t = job.set /\ q = p)
  <2> HAVE SlotFacts
  <2> TAKE t \in Sets
  <2> TAKE q \in Live(sets[t])
  <2>1. sets[t].parts[q] \in Rec
    BY PartTyping DEF Steady, TypeOK, Live
  <2>2. QED
    BY <2>1, <1>1, <1>2 DEF SlotFacts, CacheSlots, CacheHoldsDistinctSlots, Rec, loc
<1> HIDE DEF set
<1>9. new \in SetRec /\ SameContents(new, set) /\ new.complete = set.complete
      /\ new.accepted = set.accepted /\ new.deleted = set.deleted \cup {p}
  BY <1>2 DEF MarkDeleted, SameContents, SetRec
<1> HIDE DEF new
<1>10. Present(new) = Present(set) /\ IsComplete(new) = IsComplete(set)
       /\ new.parts = set.parts
  BY <1>9, SameContentsFacts DEF SameContents
<1>11. /\ sets' \in [Sets -> SetRec] /\ FlagsFollowMail'
       /\ \A t \in Sets : \A q \in Live(sets'[t]) :
            q \in Live(sets[t]) /\ sets'[t].parts[q] = sets[t].parts[q]
  <2>1. /\ SameContents(new, sets[job.set]) /\ sets[job.set].deleted \subseteq new.deleted
        /\ new.accepted \subseteq Present(new) /\ (new.complete => IsComplete(new))
        /\ mailed \subseteq mailed'
        /\ \A q \in Present(new) :
             new.complete \/ q \in new.accepted => new.parts[q].msg \in mailed'
    BY <1>1, <1>4, <1>9, <1>5, <1>10
  <2>2. QED
    BY <1>1, <1>2, <1>9, <2>1, FlagFrame
<1>12. TypeOK'
  BY <1>1, <1>3, <1>6, <1>11 DEF Steady, TypeOK
<1>13. Control'
  <2>1. sets'[job.set].used = set.used /\ sets'[job.set].total = set.total
    BY <1>1, <1>2, <1>9 DEF Steady, TypeOK, SameContents
  <2>2. QED
    BY <1>1, <1>2, <1>5, <2>1 DEF Steady, Control, ScanLooksAtMem1, JobMatchesStep
<1>14. ASSUME SlotFacts PROVE SlotFacts'
  <2>1. NoLoss'
    <3>1. set.parts[p].msg \in mailed
      BY <1>1, <1>2, <1>4
    <3>2. QED
      BY <3>1, <1>1, <1>3, <1>6, <1>7, <1>14, EmptiedFacts DEF SlotFacts
  <2>2. \A t \in Sets : \A q \in Live(sets'[t]) : ~(t = job.set /\ q = p)
    BY <1>1, <1>2, <1>9 DEF Steady, TypeOK, Live
  <2>3. \A t \in Sets : \A q \in Live(sets'[t]) :
           inbox'[sets[t].parts[q].loc] = inbox[sets[t].parts[q].loc]
    BY <1>6, <1>8, <1>11, <1>14, <2>2
  <2>4. CacheSlots'
    BY <1>11, <1>14, <2>3, LiveFrame DEF SlotFacts
  <2>5. SingleHasItsSlot'
    BY <1>1 DEF SingleHasItsSlot
  <2>6. QED
    BY <2>1, <2>4, <2>5 DEF SlotFacts
<1>15. QED
  BY <1>11, <1>12, <1>13, <1>14 DEF Steady, Control

\* Only a deletion whose OK is lost changes a slot here.
LEMMA ErasePartFailsStep ==
  ASSUME Steady, NEW p \in Seqs, ErasePartFails(p)
  PROVE  Steady' /\ ("deleteReply" \notin Faults => (SlotFacts => SlotFacts'))
<1> USE DEF scan, mail, modem
<1>1. /\ UNCHANGED <<arrived, textMode, sets, active, pending, found, fallback, job,
                     mailed, joined, frags>>
      /\ pc = "erase" /\ job.kind \in {"complete", "expired"} /\ pc' = "restore"
      /\ p \in Present(sets[job.set]) /\ mem1' \in {mem1, PartLoc(p)[1]}
      /\ inbox' = inbox \/ ("deleteReply" \in Faults /\ inbox' = Emptied(mem1', PartLoc(p)))
  BY DEF ErasePartFails, Erasing, IsPurged, IsFirst, NeedsDelete, GiveUp
<1>2. PartLoc(p) \in Locs
  BY <1>1, JobSetFacts DEF PartLoc, Rec
<1>3. mem1' \in {"ME", "SM"}
  BY <1>1, <1>2, LocTyping DEF Steady, TypeOK
<1>4. inbox' \in [Locs -> Messages \cup {NoMsg}]
  BY <1>1, EmptiedTyping DEF Steady, TypeOK, Emptied
<1>5. TypeOK'
  BY <1>1, <1>3, <1>4 DEF Steady, TypeOK
<1>6. FlagsFollowMail'
  BY <1>1, FlagsFrame DEF Steady
<1>7. Control' /\ SingleHasItsSlot'
  BY <1>1 DEF Steady, Control, ScanLooksAtMem1, SingleHasItsSlot, JobMatchesStep
<1>8. "deleteReply" \notin Faults => (SlotFacts => SlotFacts')
  BY <1>1, <1>7, CalmFrame
<1>9. QED
  BY <1>5, <1>6, <1>7, <1>8 DEF Steady, Control

LEMMA EraseSingleStep ==
  ASSUME Steady, EraseSingle
  PROVE  Steady' /\ (SlotFacts => SlotFacts')
<1> USE DEF scan, mail, modem
<1>1. /\ UNCHANGED <<arrived, textMode, mem1, sets, active, pending, found, fallback, job,
                     mailed, joined, frags>>
      /\ pc = "erase" /\ job.kind = "single" /\ pc' = "restore"
      /\ inbox' = [inbox EXCEPT ![<<mem1, found.loc[2]>>] = NoMsg]
  BY DEF EraseSingle, Erasing, Emptied, GiveUp
<1>2. found \in Rec /\ found # NoRec /\ found.msg \in mailed /\ found.loc \in Locs
  BY <1>1 DEF Steady, TypeOK, JobMatchesStep, Rec
<1>3. inbox' \in [Locs -> Messages \cup {NoMsg}]
  BY <1>1, EmptiedTyping DEF Steady, TypeOK
<1>4. TypeOK'
  BY <1>1, <1>3 DEF Steady, TypeOK
<1>5. FlagsFollowMail'
  BY <1>1, FlagsFrame DEF Steady
<1>6. Control' /\ SingleHasItsSlot'
  BY <1>1 DEF Steady, Control, ScanLooksAtMem1, SingleHasItsSlot, JobMatchesStep
<1>7. ASSUME SlotFacts PROVE SlotFacts'
  <2>1. /\ inbox[found.loc] = found.msg /\ found.loc[1] = mem1
        /\ \A s \in Sets : \A p \in Live(sets[s]) : sets[s].parts[p].loc # found.loc
    BY <1>1, <1>2, <1>7 DEF SlotFacts, SingleHasItsSlot
  <2>2. \A k \in Locs : k # found.loc => inbox'[k] = inbox[k]
    BY <1>1, <1>2, <2>1, LocTyping, EmptiedTyping DEF Steady, TypeOK
  <2>3. NoLoss'
    BY <1>1, <1>2, <1>7, <2>1, <2>2, EmptiedFacts DEF SlotFacts
  <2>4. \A s \in Sets : \A p \in Live(sets[s]) : sets[s].parts[p].loc \in Locs
    BY PartTyping DEF Steady, TypeOK, Live, Rec
  <2>5. CacheSlots'
    BY <1>1, <1>7, <2>1, <2>2, <2>4, LiveFrame DEF SlotFacts
  <2>6. QED
    BY <1>6, <2>3, <2>5 DEF SlotFacts
<1>8. QED
  BY <1>4, <1>5, <1>6, <1>7 DEF Steady, Control

\* A part joins the cache with a slot the cache did not know.
LEMMA CachePartStep ==
  ASSUME Steady, NEW l \in Locs, CachePart(l)
  PROVE  Steady' /\ (SlotFacts => SlotFacts')
<1> USE DEF scan, mail, modem
<1> DEFINE h == Hdr[inbox[l]]
           rec == RecAt(l)
<1>1. /\ UNCHANGED <<inbox, arrived, mem1, active, found, fallback, job, mailed, joined,
                     frags, pc>>
      /\ pc = "scan" /\ l \in pending /\ pending' = pending \ {l}
      /\ ~ContainsId(sets, l) /\ h.total \in 2 .. MaxParts /\ h.seq \in 1 .. h.total
  BY DEF CachePart, Examine, IsNext, Storable
<1>2. PICK s \in Sets : IsTarget(sets, h, s) /\ sets' = [sets EXCEPT ![s] = StoreIn(@, h, rec)]
  BY DEF CachePart
<1> DEFINE old == sets[s]
           new == StoreIn(old, h, rec)
<1>3. inbox[l] \in Messages /\ rec \in Rec /\ rec.loc = l /\ rec.msg = inbox[l] /\ h.key \in Keys
  BY <1>1, ForwardAssumption DEF Steady, TypeOK, ScanLooksAtMem1, RecAt, Rec
<1>4. old \in SetRec /\ (old.used => h.total = old.total)
  BY <1>2 DEF Steady, TypeOK, IsTarget, IsFirst, Matching, Free
<1>5. /\ old.complete => IsComplete(old)
      /\ old.accepted \subseteq Present(old)
      /\ \A p \in Present(old) :
           old.complete \/ p \in old.accepted => old.parts[p].msg \in mailed
  BY DEF Steady, FlagsFollowMail
<1> HIDE DEF h, rec
<1>6. /\ new \in SetRec /\ new.used /\ new.total = h.total
      /\ new.complete => old.used /\ old.complete
      /\ old.used => new.accepted = old.accepted /\ new.deleted = old.deleted
      /\ ~old.used => new.accepted = {} /\ new.deleted = {}
      /\ Present(old) \subseteq Present(new)
      /\ \A p \in Present(new) :
           \/ p \in Present(old) /\ old.used /\ new.parts[p] = old.parts[p]
           \/ p = h.seq /\ new.parts[p] = rec /\ p \notin Present(old)
  BY <1>1, <1>3, <1>4, StoreInFacts
<1>7. sets' = [sets EXCEPT ![s] = new] /\ sets' \in [Sets -> SetRec] /\ sets'[s] = new
      /\ \A t \in Sets : t # s => sets'[t] = sets[t]
  BY <1>2, <1>6 DEF Steady, TypeOK
<1> HIDE DEF new
<1>8. FlagsFollowMail'
  <2>1. new.complete => IsComplete(new) /\ Present(new) \subseteq Present(old)
    <3> SUFFICES ASSUME new.complete PROVE IsComplete(new) /\ Present(new) \subseteq Present(old)
      OBVIOUS
    <3>1. old.used /\ old.complete /\ IsComplete(old) /\ old.total = h.total
      BY <1>4, <1>5, <1>6
    <3>2. 1 .. h.total \subseteq Present(old)
      BY <1>1, <3>1, CacheAssumption DEF IsComplete, Present, Seqs
    <3>3. QED
      BY <1>1, <1>6, <3>2 DEF IsComplete, Present
  <2>2. new.accepted \subseteq Present(old) /\ new.accepted \subseteq Present(new)
    BY <1>5, <1>6
  <2>3. \A p \in Present(new) :
           new.complete \/ p \in new.accepted => new.parts[p].msg \in mailed
    BY <1>5, <1>6, <2>1, <2>2
  <2>4. QED
    BY <1>1, <1>7, <2>1, <2>2, <2>3 DEF Steady, FlagsFollowMail
<1>9. TypeOK'
  <2>1. textMode' \in BOOLEAN
    BY Zenon DEF CachePart, ProbeMode
  <2>2. QED
    BY <1>1, <1>7, <2>1 DEF Steady, TypeOK
<1>10. Control' /\ SingleHasItsSlot'
  <2>1. found = NoRec
    BY <1>1 DEF Steady, JobMatchesStep
  <2>2. QED
    BY <1>1, <2>1 DEF Steady, Control, ScanLooksAtMem1, SingleHasItsSlot, JobMatchesStep
<1>11. ASSUME SlotFacts PROVE SlotFacts'
  <2>1. NoLoss'
    BY <1>1, <1>11, StoredFrame DEF SlotFacts
  <2>2. \A t \in Sets : \A p \in Live(sets[t]) : sets[t].parts[p].loc # l
    BY <1>1 DEF ContainsId, Live
  <2>3. \A t \in Sets : \A p \in Live(sets'[t]) :
           \/ p \in Live(sets[t]) /\ sets'[t].parts[p] = sets[t].parts[p]
           \/ t = s /\ p = h.seq /\ sets'[t].parts[p] = rec
    BY <1>6, <1>7 DEF Live
  <2>4. CacheMirrorsInbox'
    BY <1>1, <1>3, <1>11, <2>3 DEF SlotFacts, CacheSlots, CacheMirrorsInbox
  <2>5. CacheHoldsDistinctSlots'
    <3> SUFFICES ASSUME NEW t \in Sets, NEW u \in Sets,
                        NEW p \in Live(sets'[t]), NEW q \in Live(sets'[u]),
                        sets'[t].parts[p].loc = sets'[u].parts[q].loc
                 PROVE  t = u /\ p = q
      BY DEF CacheHoldsDistinctSlots, Live
    <3>1. CASE p \in Live(sets[t]) /\ sets'[t].parts[p] = sets[t].parts[p]
      <4>1. sets'[t].parts[p].loc # l
        BY <3>1, <2>2
      <4>2. q \in Live(sets[u]) /\ sets'[u].parts[q] = sets[u].parts[q]
        BY <4>1, <1>3, <2>3
      <4>3. sets[t].parts[p].loc = sets[u].parts[q].loc
        BY <3>1, <4>2
      <4>4. QED
        BY <1>11, <3>1, <4>2, <4>3 DEF SlotFacts, CacheSlots, CacheHoldsDistinctSlots
    <3>2. CASE t = s /\ p = h.seq /\ sets'[t].parts[p] = rec
      <4>1. sets'[u].parts[q].loc = l
        BY <3>2, <1>3
      <4>2. u = s /\ q = h.seq
        BY <4>1, <2>2, <2>3
      <4>3. QED
        BY <3>2, <4>2
    <3>3. QED
      BY <3>1, <3>2, <2>3
  <2>6. QED
    BY <1>10, <2>1, <2>4, <2>5 DEF SlotFacts, CacheSlots
<1>12. QED
  BY <1>8, <1>9, <1>10, <1>11 DEF Steady, Control

-----------------------------------------------------------------------------
(* The theorems.                                                           *)

LEMMA InitIInv ==
  ASSUME Init PROVE IInv
<1>1. sets \in [Sets -> SetRec] /\ \A s \in Sets : sets[s] = EmptySet
  BY EmptySetFacts DEF Init
<1>2. TypeOK
  <2>1. textMode \in BOOLEAN /\ fallback \in BOOLEAN
    BY Zenon DEF Init
  <2>2. /\ inbox \in [Locs -> Messages \cup {NoMsg}] /\ arrived = Stored /\ mem1 = "ME"
        /\ pc = "idle" /\ active = "ME" /\ pending = {} /\ found = NoRec /\ mailed = {}
        /\ joined = [m \in Messages |-> 0] /\ frags = [m \in Messages |-> 0]
    BY DEF Init
  <2>3. arrived \subseteq Messages
    BY <2>2 DEF Stored
  <2>4. job \in [kind : {"none", "single", "complete", "expired"},
                 set : 0 .. MaxSets, part : 0 .. MaxParts + 1]
    BY CacheAssumption DEF Init, NoJob
  <2>5. QED
    BY <1>1, <2>1, <2>2, <2>3, <2>4 DEF TypeOK, MaxCount
<1>3. NoLoss
  BY DEF Init, NoLoss
<1>4. CacheSlots /\ FlagsFollowMail
  <2>1. \A s \in Sets : Live(sets[s]) = {} /\ Present(sets[s]) = {}
    BY <1>1, EmptySetFacts DEF Live
  <2>2. \A s \in Sets : sets[s].accepted = {} /\ ~sets[s].complete
    BY <1>1 DEF EmptySet
  <2>3. CacheMirrorsInbox /\ CacheHoldsDistinctSlots
    BY <2>1 DEF CacheMirrorsInbox, CacheHoldsDistinctSlots
  <2>4. FlagsFollowMail
    BY <2>1, <2>2 DEF FlagsFollowMail
  <2>5. QED
    BY <2>3, <2>4 DEF CacheSlots
<1>5. Control /\ SingleHasItsSlot
  BY DEF Init, Control, ScanLooksAtMem1, SingleHasItsSlot, JobMatchesStep
<1>6. QED
  BY <1>2, <1>3, <1>4, <1>5, IInvParts DEF Steady, SlotFacts, Control

\* Every step of the firmware, the network or the board keeps Steady whatever the
\* faults are, and the facts on the slots, too, unless the OK of a CMGD is lost.
LEMMA NextFacts ==
  ASSUME Steady, [Next]_vars
  PROVE  Steady' /\ ("deleteReply" \notin Faults => (SlotFacts => SlotFacts'))
<1>1. CASE \E m \in Messages, l \in Locs : Arrive(m, l)
  BY <1>1, ArriveStep
<1>2. CASE Reboot
  BY <1>2, RebootStep
<1>3. CASE Scanning
  <2>1. CASE BeginCycle
    BY <2>1, BeginCycleStep
  <2>2. CASE ListInbox \/ ListFails \/ ScanDone
    BY <2>2, ScanStep
  <2>3. ASSUME NEW l \in Locs, Examined(l) PROVE Steady' /\ (SlotFacts => SlotFacts')
    BY <2>3, ScanStep, CachePartStep, FindSingleStep DEF Examined
  <2>4. QED
    BY <1>3, <2>1, <2>2, <2>3 DEF Scanning
<1>4. CASE Forwarding
  BY <1>4, IdleStep, SingleAcceptedStep, CompleteAcceptedStep, FragmentAcceptedStep,
     ReleaseStep DEF Forwarding
<1>5. CASE Deleting
  BY <1>5, ReleaseStep, EraseSingleStep, IdleStep, ErasePartStep, ErasePartFailsStep
     DEF Deleting
<1>6. CASE Restore \/ RestartTask
  BY <1>6, IdleStep
<1>7. CASE UNCHANGED vars
  <2>1. UNCHANGED <<inbox, arrived, mem1, textMode, sets, pc, active, pending, found,
                    fallback, job, mailed, joined, frags>>
    BY <1>7 DEF vars, modem, scan, mail
  <2>2. TypeOK'
    BY <2>1 DEF Steady, TypeOK
  <2>3. FlagsFollowMail'
    BY <2>1, FlagsFrame DEF Steady
  <2>4. Control' /\ (SlotFacts => SingleHasItsSlot')
    BY <2>1 DEF Steady, SlotFacts, Control, ScanLooksAtMem1, SingleHasItsSlot, JobMatchesStep
  <2>5. QED
    BY <2>1, <2>2, <2>3, <2>4, CalmFrame DEF Steady, Control
<1>8. QED
  BY <1>1, <1>2, <1>3, <1>4, <1>5, <1>6, <1>7 DEF Next, Cycle

\* The inductive step of IInv.
LEMMA NextIInv ==
  ASSUME "deleteReply" \notin Faults, IInv, [Next]_vars
  PROVE  IInv'
<1>1. Steady /\ SlotFacts
  BY IInvParts
<1>2. Steady' /\ SlotFacts'
  BY <1>1, NextFacts
<1>3. QED
  BY <1>2 DEF IInv, Steady, SlotFacts, CacheSlots

\* The part of IInv that holds in every reachable state whatever the modem answers.
THEOREM SteadyInvariant == Spec => []Steady
<1>1. Init => Steady
  BY InitIInv, IInvParts
<1>2. Steady /\ [Next]_vars => Steady'
  BY NextFacts
<1>3. QED
  BY <1>1, <1>2, PTL DEF Spec

\* The inductive invariant holds in every reachable state.
THEOREM InductiveInvariant ==
  ASSUME "deleteReply" \notin Faults PROVE Spec => []IInv
<1>1. Init => IInv
  BY InitIInv
<1>2. IInv /\ [Next]_vars => IInv'
  BY NextIInv
<1>3. QED
  BY <1>1, <1>2, PTL DEF Spec

\* The forwarding state stays well typed under every fault: the cache, the scan and
\* the delivery in progress never leave their ranges.
THEOREM TypeCorrect == Spec => []TypeOK
<1>1. Steady => TypeOK
  BY DEF Steady
<1>2. QED
  BY <1>1, SteadyInvariant, PTL

\* No message is lost: whatever left the modem was in an accepted e-mail first,
\* for any number of messages, slots and sets, across restarts and failures.
THEOREM NothingLost ==
  ASSUME "deleteReply" \notin Faults PROVE Spec => []NoLoss
<1>1. IInv => NoLoss
  BY DEF IInv
<1>2. QED
  BY <1>1, InductiveInvariant, PTL

\* A slot the firmware is still to delete holds the very part it copied.
THEOREM CacheIsFaithful ==
  ASSUME "deleteReply" \notin Faults PROVE Spec => []CacheMirrorsInbox
<1>1. IInv => CacheMirrorsInbox
  BY DEF IInv
<1>2. QED
  BY <1>1, InductiveInvariant, PTL

\* The progress flags of a set never say more than the mail server has accepted,
\* so no part is deleted on the strength of a submission that failed: under every
\* fault, the lost OK of a deletion included.
THEOREM FlagsAreTrue == Spec => []FlagsFollowMail
<1>1. Steady => FlagsFollowMail
  BY DEF Steady
<1>2. QED
  BY <1>1, SteadyInvariant, PTL

-----------------------------------------------------------------------------
(* What forwarding promises: it implements SmsDelivery. *)

\* Only what the network delivered is stored, cached or mailed.
KnownMessages ==
  /\ Stored \cup mailed \subseteq arrived
  /\ \A s \in Sets : \A p \in Present(sets[s]) : sets[s].parts[p].msg \in arrived

Promised == [Abstract!Next]_(Abstract!vars)

-----------------------------------------------------------------------------
(* Frames.                                                                 *)

\* Cached parts that were there before, or whose message is known.
CacheGrowsKnown ==
  \A s \in Sets : \A p \in Present(sets'[s]) :
    \/ p \in Present(sets[s]) /\ sets'[s].parts[p] = sets[s].parts[p]
    \/ sets'[s].parts[p].msg \in arrived

LEMMA QuietStep ==
  ASSUME KnownMessages, CacheGrowsKnown, UNCHANGED <<inbox, arrived, mailed>>
  PROVE  KnownMessages' /\ Promised
<1>1. Stored' = Stored
  BY DEF Stored
<1>2. KnownMessages'
  BY <1>1 DEF KnownMessages, CacheGrowsKnown
<1>3. QED
  BY <1>1, <1>2 DEF Promised, Abstract!vars

LEMMA MailStep ==
  ASSUME KnownMessages, CacheGrowsKnown, UNCHANGED <<inbox, arrived>>,
         NEW S, S \subseteq arrived, S \subseteq Messages, mailed' = mailed \cup S
  PROVE  KnownMessages' /\ Promised
<1>1. Stored' = Stored
  BY DEF Stored
<1>2. KnownMessages'
  BY <1>1 DEF KnownMessages, CacheGrowsKnown
<1>3. Abstract!Mail(S)
  BY <1>1 DEF Abstract!Mail
<1>4. QED
  BY <1>2, <1>3 DEF Promised, Abstract!Next

LEMMA EraseStep ==
  ASSUME IInv, KnownMessages, CacheGrowsKnown, UNCHANGED <<arrived, mailed>>,
         NEW l \in Locs, inbox[l] \in mailed, inbox' = [inbox EXCEPT ![l] = NoMsg]
  PROVE  KnownMessages' /\ Promised
<1>1. /\ \A k \in Locs : inbox'[k] = IF k = l THEN NoMsg ELSE inbox[k]
      /\ inbox[l] \in Messages /\ inbox[l] # NoMsg
  BY ForwardAssumption DEF IInv, TypeOK
<1>2. Stored' = Stored \/ Stored' = Stored \ {inbox[l]}
  BY <1>1 DEF Stored
<1>3. inbox[l] \in Stored
  BY <1>1 DEF Stored
<1>4. KnownMessages'
  BY <1>2 DEF KnownMessages, CacheGrowsKnown
<1>5. CASE Stored' = Stored
  BY <1>4, <1>5 DEF Promised, Abstract!vars
<1>6. CASE Stored' = Stored \ {inbox[l]}
  <2>1. Abstract!Erase(inbox[l])
    BY <1>3, <1>6 DEF Abstract!Erase
  <2>2. QED
    BY <1>1, <1>4, <2>1 DEF Promised, Abstract!Next
<1>7. QED
  BY <1>2, <1>5, <1>6

-----------------------------------------------------------------------------
(* What the actions do to the cache.                                       *)

LEMMA SameCache ==
  ASSUME sets' = sets PROVE CacheGrowsKnown
BY DEF CacheGrowsKnown

\* One set is replaced by one that holds no more.
LEMMA SetReplaced ==
  ASSUME IInv, NEW s \in Sets, NEW new,
         \A p \in Present(new) : p \in Present(sets[s]) /\ new.parts[p] = sets[s].parts[p],
         sets' = [sets EXCEPT ![s] = new]
  PROVE  CacheGrowsKnown
<1>1. sets'[s] = new /\ \A t \in Sets : t # s => sets'[t] = sets[t]
  BY DEF IInv, TypeOK
<1>2. QED
  BY <1>1 DEF CacheGrowsKnown

LEMMA MarkedContents ==
  ASSUME NEW set \in SetRec, NEW q
  PROVE  /\ Present(MarkComplete(set)) = Present(set)
         /\ MarkComplete(set).parts = set.parts
         /\ Present(MarkAccepted(set, q)) = Present(set)
         /\ MarkAccepted(set, q).parts = set.parts
         /\ Present(MarkDeleted(set, q)) = Present(set)
         /\ MarkDeleted(set, q).parts = set.parts
BY DEF MarkComplete, MarkAccepted, MarkDeleted, SetRec, Present

\* The slot a set job deletes holds a mailed message.
LEMMA ErasedPart ==
  ASSUME IInv, NEW p \in Seqs, Erasing({"complete", "expired"}), IsPurged(p)
  PROVE  LET loc == PartLoc(p)
         IN  loc \in Locs /\ <<loc[1], loc[2]>> = loc /\ inbox[loc] \in mailed
<1> DEFINE set == sets[job.set]
<1>1. /\ pc = "erase" /\ job.kind \in {"complete", "expired"}
      /\ p \in Live(set) /\ (set.complete \/ p \in set.accepted)
  BY DEF Erasing, IsPurged, IsFirst, NeedsDelete, Live
<1>2. job.set \in Sets /\ p \in Present(set) /\ set.parts[p] \in Rec
  BY <1>1, IInvParts, JobSetFacts DEF Live
<1>3. PartLoc(p) \in Locs /\ PartLoc(p) = <<PartLoc(p)[1], PartLoc(p)[2]>>
  BY <1>2, LocTyping DEF Rec, PartLoc
<1>4. inbox[PartLoc(p)] = set.parts[p].msg
  BY <1>1, <1>2 DEF IInv, CacheMirrorsInbox, PartLoc
<1>5. set.parts[p].msg \in mailed
  BY <1>1, <1>2 DEF IInv, FlagsFollowMail
<1>6. QED
  BY <1>3, <1>4, <1>5

LEMMA SetMarked ==
  ASSUME IInv, NEW s \in Sets, NEW q,
         \/ sets' = [sets EXCEPT ![s] = MarkComplete(sets[s])]
         \/ sets' = [sets EXCEPT ![s] = MarkAccepted(sets[s], q)]
         \/ sets' = [sets EXCEPT ![s] = MarkDeleted(sets[s], q)]
  PROVE  CacheGrowsKnown
<1>1. sets[s] \in SetRec
  BY DEF IInv, TypeOK
<1>2. PICK new : /\ sets' = [sets EXCEPT ![s] = new]
                 /\ Present(new) = Present(sets[s]) /\ new.parts = sets[s].parts
  BY <1>1, MarkedContents
<1>3. QED
  BY <1>2, SetReplaced

-----------------------------------------------------------------------------
(* The steps.                                                              *)

LEMMA ArriveImplements ==
  ASSUME IInv, KnownMessages, NEW m \in Messages, NEW l \in Locs, Arrive(m, l)
  PROVE  KnownMessages' /\ Promised
<1>1. /\ m \notin arrived /\ arrived' = arrived \cup {m} /\ UNCHANGED <<sets, mailed>>
      /\ inbox[l] = NoMsg /\ inbox' = [inbox EXCEPT ![l] = m]
  BY DEF Arrive, mail
<1>2. m # NoMsg /\ \A k \in Locs : inbox'[k] = IF k = l THEN m ELSE inbox[k]
  BY <1>1, ForwardAssumption DEF IInv, TypeOK
<1>3. Stored' = Stored \cup {m}
  BY <1>1, <1>2 DEF Stored
<1>4. KnownMessages'
  BY <1>1, <1>3 DEF KnownMessages
<1>5. Abstract!Arrive(m)
  BY <1>1, <1>3 DEF Abstract!Arrive
<1>6. QED
  BY <1>4, <1>5 DEF Promised, Abstract!Next

\* Steps that neither mail nor delete anything.
LEMMA OtherImplements ==
  ASSUME IInv, KnownMessages,
         \/ Reboot \/ RestartTask \/ Restore \/ BeginCycle \/ ListInbox \/ ListFails
         \/ ScanDone \/ ChooseSet \/ ChooseSingle \/ Rejected \/ CompleteTooLong
         \/ FragmentPassed \/ EraseSingleFails \/ UNCHANGED vars
  PROVE  KnownMessages' /\ Promised
<1> USE DEF modem, scan, mail
<1>1. CASE Reboot
  <2>1. UNCHANGED <<inbox, arrived, mailed>> /\ sets' = [s \in Sets |-> EmptySet]
    BY <1>1 DEF Reboot
  <2>2. CacheGrowsKnown
    BY <2>1, EmptySetFacts DEF CacheGrowsKnown
  <2>3. QED
    BY <2>1, <2>2, QuietStep
<1>2. CASE BeginCycle
  <2>1. UNCHANGED <<inbox, arrived, mailed>> /\ sets' = AdvanceCycle(sets)
    BY <1>2 DEF BeginCycle
  <2>2. ASSUME NEW s \in Sets
        PROVE  Present(sets'[s]) = Present(sets[s]) /\ sets'[s].parts = sets[s].parts
    <3>1. sets[s] \in SetRec /\ sets'[s] = Aged(sets[s])
      BY <2>1 DEF IInv, TypeOK, AdvanceCycle
    <3>2. QED
      BY <3>1, AgedFacts DEF Present
  <2>3. CacheGrowsKnown
    BY <2>2 DEF CacheGrowsKnown
  <2>4. QED
    BY <2>1, <2>3, QuietStep
<1>3. CASE ~Reboot /\ ~BeginCycle
  <2>1. UNCHANGED <<inbox, arrived, mailed, sets>>
    BY <1>3 DEF RestartTask, Restore, ListInbox, ListFails, ScanDone, ChooseSet,
       ChooseSingle, Rejected, CompleteTooLong, FragmentPassed, EraseSingleFails, GiveUp,
       vars
  <2>2. QED
    BY <2>1, SameCache, QuietStep
<1>4. QED
  BY <1>1, <1>2, <1>3

\* Looking at a candidate.
LEMMA ExaminedImplements ==
  ASSUME IInv, KnownMessages, NEW l \in Locs, Examined(l)
  PROVE  KnownMessages' /\ Promised
<1> USE DEF modem, scan, mail
<1>1. CASE CachePart(l)
  <2> DEFINE h == Hdr[inbox[l]]
             rec == RecAt(l)
  <2>1. /\ UNCHANGED <<inbox, arrived, mailed>>
        /\ pc = "scan" /\ l \in pending
        /\ h.total \in 2 .. MaxParts /\ h.seq \in 1 .. h.total
    BY <1>1 DEF CachePart, Examine, IsNext, Storable
  <2>2. PICK s \in Sets : IsTarget(sets, h, s) /\ sets' = [sets EXCEPT ![s] = StoreIn(@, h, rec)]
    BY <1>1 DEF CachePart
  <2>3. inbox[l] \in Messages /\ rec \in Rec /\ rec.msg = inbox[l] /\ h.key \in Keys
    BY <2>1, ForwardAssumption DEF IInv, TypeOK, ScanLooksAtMem1, RecAt, Rec
  <2>4. inbox[l] \in arrived
    BY <2>3, ForwardAssumption DEF KnownMessages, Stored
  <2>5. sets[s] \in SetRec /\ (sets[s].used => h.total = sets[s].total)
    BY <2>2 DEF IInv, TypeOK, IsTarget, IsFirst, Matching, Free
  <2>6. /\ sets'[s] = StoreIn(sets[s], h, rec)
        /\ \A t \in Sets : t # s => sets'[t] = sets[t]
    BY <2>2 DEF IInv, TypeOK
  <2> HIDE DEF h, rec
  <2>7. \A p \in Present(sets'[s]) :
          \/ p \in Present(sets[s]) /\ sets'[s].parts[p] = sets[s].parts[p]
          \/ sets'[s].parts[p] = rec
    BY <2>1, <2>3, <2>5, <2>6, StoreInFacts
  <2>8. CacheGrowsKnown
    BY <2>3, <2>4, <2>6, <2>7 DEF CacheGrowsKnown
  <2>9. QED
    BY <2>1, <2>8, QuietStep
<1>2. CASE ~CachePart(l)
  <2>1. UNCHANGED <<inbox, arrived, mailed, sets>>
    BY <1>2 DEF Examined, SkipCached, ReadFails, SkipUnprobed, FindSingle
  <2>2. QED
    BY <2>1, SameCache, QuietStep
<1>3. QED
  BY <1>1, <1>2

LEMMA AcceptedImplements ==
  ASSUME IInv, KnownMessages, SingleAccepted \/ CompleteAccepted \/ FragmentAccepted
  PROVE  KnownMessages' /\ Promised
<1> USE DEF modem, scan, mail
<1>1. CASE SingleAccepted
  <2>1. /\ UNCHANGED <<inbox, arrived, sets>> /\ mailed' = mailed \cup {found.msg}
        /\ pc = "submit" /\ job.kind = "single"
    BY <1>1 DEF SingleAccepted, Submitting
  <2>2. found \in Rec /\ inbox[found.loc] = found.msg
    BY <2>1 DEF IInv, TypeOK, JobMatchesStep, SingleHasItsSlot
  <2>3. found.msg \in Stored
    BY <2>2, ForwardAssumption DEF Stored, Rec
  <2>4. {found.msg} \subseteq arrived /\ {found.msg} \subseteq Messages
    BY <2>2, <2>3 DEF KnownMessages, Rec
  <2>5. PICK S : S = {found.msg}
    OBVIOUS
  <2>6. /\ S \subseteq arrived /\ S \subseteq Messages /\ mailed' = mailed \cup S
        /\ UNCHANGED <<inbox, arrived>> /\ CacheGrowsKnown
    BY <2>1, <2>4, <2>5, SameCache
  <2>7. QED
    BY <2>6, MailStep
<1>2. CASE CompleteAccepted
  <2> DEFINE set == sets[job.set]
  <2>1. /\ UNCHANGED <<inbox, arrived>> /\ mailed' = mailed \cup Texts(set)
        /\ pc = "submit" /\ job.kind = "complete"
        /\ sets' = [sets EXCEPT ![job.set] = MarkComplete(set)]
    BY <1>2 DEF CompleteAccepted, Submitting
  <2>2. /\ job.set \in Sets /\ set \in SetRec
        /\ \A p \in Present(set) : set.parts[p] \in Rec
    BY <2>1, IInvParts, JobSetFacts
  <2>3. Texts(set) \subseteq arrived /\ Texts(set) \subseteq Messages
    BY <2>2 DEF KnownMessages, Texts, Rec
  <2>4. CacheGrowsKnown
    BY <2>1, <2>2, SetMarked
  <2>5. QED
    BY <2>1, <2>3, <2>4, MailStep
<1>3. CASE FragmentAccepted
  <2> DEFINE set == sets[job.set]
             text == set.parts[job.part].msg
  <2>1. /\ UNCHANGED <<inbox, arrived>> /\ mailed' = mailed \cup {text}
        /\ pc = "submit" /\ job.kind = "expired" /\ job.part \in Present(set)
        /\ sets' = [sets EXCEPT ![job.set] = MarkAccepted(set, job.part)]
    BY <1>3 DEF FragmentAccepted, Submitting, PartReady
  <2>2. job.set \in Sets /\ set \in SetRec /\ set.parts[job.part] \in Rec
    BY <2>1, IInvParts, JobSetFacts
  <2>3. {text} \subseteq arrived /\ {text} \subseteq Messages
    BY <2>1, <2>2 DEF KnownMessages, Rec
  <2>4. CacheGrowsKnown
    BY <2>1, <2>2, SetMarked
  <2>5. PICK S : S = {text}
    OBVIOUS
  <2>6. /\ S \subseteq arrived /\ S \subseteq Messages /\ mailed' = mailed \cup S
        /\ UNCHANGED <<inbox, arrived>>
    BY <2>1, <2>3, <2>5
  <2>7. QED
    BY <2>4, <2>6, MailStep
<1>4. QED
  BY <1>1, <1>2, <1>3

LEMMA ReleaseImplements ==
  ASSUME IInv, KnownMessages, FragmentsDone \/ EraseDone
  PROVE  KnownMessages' /\ Promised
<1> USE DEF modem, scan, mail
<1> DEFINE set == sets[job.set]
<1>1. /\ UNCHANGED <<inbox, arrived, mailed>>
      /\ sets' = [sets EXCEPT ![job.set] = Remove(set)] \/ sets' = sets
      /\ pc \in {"submit", "erase"} /\ job.kind \in {"complete", "expired"}
  BY DEF FragmentsDone, EraseDone, ReleaseSet, Submitting, Erasing
<1>2. job.set \in Sets /\ set \in SetRec
  BY <1>1, IInvParts, JobSetFacts
<1>3. \A p \in Present(Remove(set)) : p \in Present(set) /\ Remove(set).parts[p] = set.parts[p]
  BY <1>2, RemoveFacts, EmptySetFacts
<1>4. CacheGrowsKnown
  BY <1>1, <1>2, <1>3, SetReplaced, SameCache
<1>5. QED
  BY <1>1, <1>4, QuietStep

LEMMA EraseImplements ==
  ASSUME "deleteReply" \notin Faults, IInv, KnownMessages,
         \/ EraseSingle
         \/ \E p \in Seqs : ErasePart(p) \/ ErasePartFails(p)
  PROVE  KnownMessages' /\ Promised
<1> USE DEF modem, scan, mail
<1>1. CASE EraseSingle
  <2>1. /\ UNCHANGED <<arrived, mailed, sets>>
        /\ pc = "erase" /\ job.kind = "single"
        /\ inbox' = [inbox EXCEPT ![<<mem1, found.loc[2]>>] = NoMsg]
    BY <1>1 DEF EraseSingle, Erasing, GiveUp, Emptied
  <2>2. /\ found \in Rec /\ inbox[found.loc] = found.msg /\ found.loc[1] = mem1
        /\ found.msg \in mailed
    BY <2>1 DEF IInv, TypeOK, JobMatchesStep, SingleHasItsSlot
  <2>3. found.loc \in Locs /\ found.loc = <<mem1, found.loc[2]>>
    BY <2>2, LocTyping DEF Rec
  <2>4. QED
    BY <2>1, <2>2, <2>3, SameCache, EraseStep
<1>2. ASSUME NEW p \in Seqs, ErasePart(p) PROVE KnownMessages' /\ Promised
  <2> DEFINE loc == PartLoc(p)
             set == sets[job.set]
  <2>1. /\ UNCHANGED <<arrived, mailed>>
        /\ Erasing({"complete", "expired"}) /\ IsPurged(p)
        /\ inbox' = [inbox EXCEPT ![<<loc[1], loc[2]>>] = NoMsg]
        /\ sets' = [sets EXCEPT ![job.set] = MarkDeleted(set, p)]
    BY <1>2 DEF ErasePart, Emptied
  <2>2. loc \in Locs /\ <<loc[1], loc[2]>> = loc /\ inbox[loc] \in mailed
    BY <2>1, ErasedPart
  <2>3. job.set \in Sets /\ set \in SetRec
    BY <2>1, IInvParts, JobSetFacts DEF Erasing
  <2>4. CacheGrowsKnown
    BY <2>1, <2>3, SetMarked
  <2> HIDE DEF loc
  <2>5. QED
    BY <2>1, <2>2, <2>4, EraseStep
<1>3. ASSUME NEW p \in Seqs, ErasePartFails(p) PROVE KnownMessages' /\ Promised
  <2>1. UNCHANGED <<inbox, arrived, mailed, sets>>
    BY <1>3 DEF ErasePartFails, GiveUp
  <2>2. QED
    BY <2>1, SameCache, QuietStep
<1>4. QED
  BY <1>1, <1>2, <1>3

LEMMA NextImplements ==
  ASSUME "deleteReply" \notin Faults, IInv, KnownMessages, [Next]_vars
  PROVE  KnownMessages' /\ Promised
<1>1. CASE \E m \in Messages, l \in Locs : Arrive(m, l)
  BY <1>1, ArriveImplements
<1>2. CASE Reboot \/ RestartTask \/ Restore \/ UNCHANGED vars
  BY <1>2, OtherImplements
<1>3. CASE Scanning
  BY <1>3, OtherImplements, ExaminedImplements DEF Scanning
<1>4. CASE Forwarding
  BY <1>4, OtherImplements, AcceptedImplements, ReleaseImplements DEF Forwarding
<1>5. CASE Deleting
  BY <1>5, OtherImplements, EraseImplements, ReleaseImplements DEF Deleting
<1>6. QED
  BY <1>1, <1>2, <1>3, <1>4, <1>5 DEF Next, Cycle

\* Nothing is cached or mailed that the network did not deliver.
THEOREM OnlyKnownMessages ==
  ASSUME "deleteReply" \notin Faults PROVE Spec => []KnownMessages
<1>1. Init => KnownMessages
  BY EmptySetFacts DEF Init, KnownMessages
<1>2. IInv /\ KnownMessages /\ [Next]_vars => KnownMessages'
  BY NextImplements
<1>3. QED
  BY <1>1, <1>2, InductiveInvariant, PTL DEF Spec

\* The forwarding cycle implements at-least-once delivery: every behaviour of it
\* is one SmsDelivery allows, with the modem's store for the durable store.
THEOREM ForwardingImplementsDelivery ==
  ASSUME "deleteReply" \notin Faults PROVE Spec => DeliveryContract
<1>1. Init => Abstract!Init
  BY ForwardAssumption DEF Init, Abstract!Init, Stored
<1>2. IInv /\ KnownMessages /\ [Next]_vars => [Abstract!Next]_(Abstract!vars)
  BY NextImplements DEF Promised
<1>3. QED
  BY <1>1, <1>2, InductiveInvariant, OnlyKnownMessages, PTL
     DEF Spec, DeliveryContract, Abstract!Spec

-----------------------------------------------------------------------------
(* At most once per boot.  A repeated submission needs a message that is   *)
(* cached anew after it was mailed, so the invariant follows each message  *)
(* from its one slot to its one cached part and to that part's flags.      *)

\* A message sits in one slot only, and only when the network delivered it.
SlotsHoldOneEach ==
  /\ Stored \subseteq arrived
  /\ \A k, l \in Locs : inbox[k] = inbox[l] /\ inbox[k] # NoMsg => k = l

\* A cached part's message is nowhere but in the slot it was read from, and in no
\* slot at all once its deletion is recorded, which follows an accepted e-mail.
PartsAreCopies ==
  \A s \in Sets :
    /\ sets[s].deleted \subseteq Present(sets[s])
    /\ \A p \in Present(sets[s]) :
         /\ sets[s].parts[p].msg \in arrived
         /\ sets[s].parts[p].msg \in Stored =>
              inbox[sets[s].parts[p].loc] = sets[s].parts[p].msg
         /\ p \in sets[s].deleted =>
              /\ sets[s].parts[p].msg \notin Stored
              /\ sets[s].complete \/ p \in sets[s].accepted

\* No message is cached twice.
PartsHoldOneEach ==
  \A s, t \in Sets : \A p \in Present(sets[s]), q \in Present(sets[t]) :
    sets[s].parts[p].msg = sets[t].parts[q].msg => s = t /\ p = q

Copies == SlotsHoldOneEach /\ PartsAreCopies /\ PartsHoldOneEach

IsCached(m) == \E s \in Sets : \E p \in Present(sets[s]) : sets[s].parts[p].msg = m

\* A message mailed in this boot that is still in the modem is still cached, and
\* its part carries the flag that keeps it from being mailed again.
JoinedOnce ==
  \A m \in Messages :
    /\ joined[m] <= 1
    /\ joined[m] # 0 =>
         /\ m \in arrived
         /\ m \in Stored => IsCached(m)
         /\ \A s \in Sets : \A p \in Present(sets[s]) :
              sets[s].parts[p].msg = m => sets[s].complete

FragOnce ==
  \A m \in Messages :
    /\ frags[m] <= 1
    /\ frags[m] # 0 =>
         /\ m \in arrived
         /\ m \in Stored => IsCached(m)
         /\ \A s \in Sets : \A p \in Present(sets[s]) :
              sets[s].parts[p].msg = m => p \in sets[s].accepted

OnceInv == Copies /\ JoinedOnce /\ FragOnce

\* What a step may do to the cached parts: keep them, their flags only growing, or
\* add parts no e-mail of this boot has carried.
PartsKept ==
  \A s \in Sets : \A p \in Present(sets'[s]) :
    \/ /\ p \in Present(sets[s]) /\ sets'[s].parts[p] = sets[s].parts[p]
       /\ sets[s].complete => sets'[s].complete
       /\ p \in sets[s].accepted => p \in sets'[s].accepted
    \/ joined[sets'[s].parts[p].msg] = 0 /\ frags[sets'[s].parts[p].msg] = 0

\* What it may do to the messages known before: nothing returns to the modem, and
\* nothing stored leaves the cache.
StaysCached ==
  /\ arrived \subseteq arrived'
  /\ \A m \in arrived : m \in Stored' => m \in Stored /\ (IsCached(m) => IsCached(m)')

LEMMA JoinedFrame ==
  ASSUME JoinedOnce, PartsKept, StaysCached, joined' = joined
  PROVE  JoinedOnce'
<1> SUFFICES ASSUME NEW m \in Messages
             PROVE  /\ joined[m] <= 1
                    /\ joined[m] # 0 =>
                         /\ m \in arrived'
                         /\ m \in Stored' => IsCached(m)'
                         /\ \A s \in Sets : \A p \in Present(sets'[s]) :
                              sets'[s].parts[p].msg = m => sets'[s].complete
  BY DEF JoinedOnce
<1>1. joined[m] <= 1
  BY DEF JoinedOnce
<1>2. ASSUME joined[m] # 0
      PROVE  /\ m \in arrived'
             /\ m \in Stored' => IsCached(m)'
             /\ \A s \in Sets : \A p \in Present(sets'[s]) :
                  sets'[s].parts[p].msg = m => sets'[s].complete
  BY <1>2 DEF JoinedOnce, PartsKept, StaysCached
<1>3. QED
  BY <1>1, <1>2

LEMMA FragFrame ==
  ASSUME FragOnce, PartsKept, StaysCached, frags' = frags
  PROVE  FragOnce'
<1> SUFFICES ASSUME NEW m \in Messages
             PROVE  /\ frags[m] <= 1
                    /\ frags[m] # 0 =>
                         /\ m \in arrived'
                         /\ m \in Stored' => IsCached(m)'
                         /\ \A s \in Sets : \A p \in Present(sets'[s]) :
                              sets'[s].parts[p].msg = m => p \in sets'[s].accepted
  BY DEF FragOnce
<1>1. frags[m] <= 1
  BY DEF FragOnce
<1>2. ASSUME frags[m] # 0
      PROVE  /\ m \in arrived'
             /\ m \in Stored' => IsCached(m)'
             /\ \A s \in Sets : \A p \in Present(sets'[s]) :
                  sets'[s].parts[p].msg = m => p \in sets'[s].accepted
  BY <1>2 DEF FragOnce, PartsKept, StaysCached
<1>3. QED
  BY <1>1, <1>2

\* Slots may only be emptied.
SlotsEmpty == \A k \in Locs : inbox'[k] \in {inbox[k], NoMsg}

LEMMA EmptySlots ==
  ASSUME SlotsEmpty PROVE Stored' \subseteq Stored
BY DEF SlotsEmpty, Stored

\* Cached parts may go, and be marked deleted once their message is gone.
PartsFade ==
  \A s \in Sets :
    /\ sets'[s].deleted \subseteq Present(sets'[s])
    /\ \A p \in Present(sets'[s]) :
         /\ p \in Present(sets[s]) /\ sets'[s].parts[p] = sets[s].parts[p]
         /\ sets[s].complete => sets'[s].complete
         /\ p \in sets[s].accepted => p \in sets'[s].accepted
         /\ p \in sets'[s].deleted =>
              \/ p \in sets[s].deleted
              \/ /\ sets[s].parts[p].msg \notin Stored'
                 /\ sets[s].complete \/ p \in sets[s].accepted

LEMMA CopiesFrame ==
  ASSUME Steady, Copies, SlotsEmpty, PartsFade, arrived' = arrived
  PROVE  Copies'
<1>1. Stored' \subseteq Stored
  BY EmptySlots
<1>2. SlotsHoldOneEach'
  BY <1>1 DEF Copies, SlotsHoldOneEach, SlotsEmpty
<1>3. PartsHoldOneEach'
  <2> SUFFICES ASSUME NEW s \in Sets, NEW t \in Sets,
                      NEW p \in Present(sets'[s]), NEW q \in Present(sets'[t]),
                      sets'[s].parts[p].msg = sets'[t].parts[q].msg
               PROVE  s = t /\ p = q
    BY DEF PartsHoldOneEach
  <2>1. p \in Present(sets[s]) /\ sets'[s].parts[p] = sets[s].parts[p]
    BY DEF PartsFade
  <2>2. q \in Present(sets[t]) /\ sets'[t].parts[q] = sets[t].parts[q]
    BY DEF PartsFade
  <2>3. sets[s].parts[p].msg = sets[t].parts[q].msg
    BY <2>1, <2>2
  <2> QED
    BY <2>1, <2>2, <2>3 DEF Copies, PartsHoldOneEach
<1>4. PartsAreCopies'
  <2> SUFFICES ASSUME NEW s \in Sets
               PROVE  /\ sets'[s].deleted \subseteq Present(sets'[s])
                      /\ \A p \in Present(sets'[s]) :
                           /\ sets'[s].parts[p].msg \in arrived'
                           /\ sets'[s].parts[p].msg \in Stored' =>
                                inbox'[sets'[s].parts[p].loc] = sets'[s].parts[p].msg
                           /\ p \in sets'[s].deleted =>
                                /\ sets'[s].parts[p].msg \notin Stored'
                                /\ sets'[s].complete \/ p \in sets'[s].accepted
    BY DEF PartsAreCopies
  <2>1. sets'[s].deleted \subseteq Present(sets'[s])
    BY DEF PartsFade
  <2>2. ASSUME NEW p \in Present(sets'[s])
        PROVE  /\ sets'[s].parts[p].msg \in arrived'
               /\ sets'[s].parts[p].msg \in Stored' =>
                    inbox'[sets'[s].parts[p].loc] = sets'[s].parts[p].msg
               /\ p \in sets'[s].deleted =>
                    /\ sets'[s].parts[p].msg \notin Stored'
                    /\ sets'[s].complete \/ p \in sets'[s].accepted
    <3>1. /\ p \in Present(sets[s]) /\ sets'[s].parts[p] = sets[s].parts[p]
          /\ sets[s].complete => sets'[s].complete
          /\ p \in sets[s].accepted => p \in sets'[s].accepted
          /\ p \in sets'[s].deleted =>
               \/ p \in sets[s].deleted
               \/ /\ sets[s].parts[p].msg \notin Stored'
                  /\ sets[s].complete \/ p \in sets[s].accepted
      BY <2>2 DEF PartsFade
    <3>2. PICK msg, loc : msg = sets[s].parts[p].msg /\ loc = sets[s].parts[p].loc
      OBVIOUS
    <3>3. /\ msg \in arrived
          /\ msg \in Stored => inbox[loc] = msg
          /\ p \in sets[s].deleted =>
               msg \notin Stored /\ (sets[s].complete \/ p \in sets[s].accepted)
      BY <3>1, <3>2 DEF Copies, PartsAreCopies
    <3>4. msg \in Stored' => inbox'[loc] = msg
      <4> SUFFICES ASSUME msg \in Stored' PROVE inbox'[loc] = msg
        OBVIOUS
      <4>1. PICK k \in Locs : inbox'[k] = msg /\ msg # NoMsg
        BY DEF Stored
      <4>2. inbox[k] = msg /\ inbox[loc] = msg
        BY <1>1, <3>3, <4>1 DEF SlotsEmpty
      <4>3. loc \in Locs
        BY <3>1, <3>2, PartTyping DEF Steady, TypeOK, Rec
      <4>4. k = loc
        BY <4>1, <4>2, <4>3 DEF Copies, SlotsHoldOneEach
      <4>5. QED
        BY <4>1, <4>4
    <3>5. QED
      BY <1>1, <3>1, <3>2, <3>3, <3>4
  <2>3. QED
    BY <2>1, <2>2
<1>5. QED
  BY <1>2, <1>3, <1>4 DEF Copies

LEMMA FadeStep ==
  ASSUME Steady, OnceInv, SlotsEmpty, PartsFade,
         \A m \in Stored' : IsCached(m) => IsCached(m)',
         arrived' = arrived, joined' = joined, frags' = frags
  PROVE  OnceInv'
<1>1. Copies'
  BY CopiesFrame DEF OnceInv
<1>2. PartsKept /\ StaysCached
  BY EmptySlots DEF PartsKept, StaysCached, PartsFade
<1>3. QED
  BY <1>1, <1>2, JoinedFrame, FragFrame DEF OnceInv

\* The cache stays as it is; the slots may be emptied.
LEMMA QuietOnce ==
  ASSUME Steady, OnceInv, SlotsEmpty, sets' = sets,
         arrived' = arrived, joined' = joined, frags' = frags
  PROVE  OnceInv'
<1>1. PartsFade
  BY DEF PartsFade, OnceInv, Copies, PartsAreCopies
<1>2. \A m \in Stored' : IsCached(m) => IsCached(m)'
  BY DEF IsCached
<1>3. QED
  BY <1>1, <1>2, FadeStep

-----------------------------------------------------------------------------
(* The steps.                                                              *)

\* Steps that leave the cache alone.
LEMMA CacheAloneOnce ==
  ASSUME Steady, OnceInv,
         \/ RestartTask \/ Restore \/ ListInbox \/ ListFails \/ ScanDone \/ ChooseSet
         \/ ChooseSingle \/ Rejected \/ CompleteTooLong \/ SingleAccepted \/ FragmentPassed
         \/ EraseSingle \/ EraseSingleFails
         \/ \E p \in Seqs : ErasePartFails(p)
         \/ \E l \in Locs : SkipCached(l) \/ ReadFails(l) \/ SkipUnprobed(l) \/ FindSingle(l)
         \/ UNCHANGED vars
  PROVE  OnceInv'
<1> USE DEF modem, scan, mail, GiveUp
<1>1. UNCHANGED <<arrived, sets, joined, frags>>
      /\ (inbox' = inbox \/ \E x, l : inbox' = Emptied(x, l))
  BY DEF RestartTask, Restore, ListInbox, ListFails, ScanDone, ChooseSet, ChooseSingle,
         Rejected, CompleteTooLong, SingleAccepted, FragmentPassed, EraseSingle,
         EraseSingleFails, ErasePartFails, SkipCached, ReadFails, SkipUnprobed,
         FindSingle, vars
<1>2. SlotsEmpty
  BY <1>1, EmptiedTyping DEF Steady, TypeOK, SlotsEmpty, Emptied
<1>3. QED
  BY <1>1, <1>2, QuietOnce

LEMMA BeginCycleOnce ==
  ASSUME Steady, OnceInv, BeginCycle
  PROVE  OnceInv'
<1>1. /\ UNCHANGED <<inbox, arrived, joined, frags>>
      /\ sets' = [s \in Sets |-> Aged(sets[s])]
  BY DEF BeginCycle, AdvanceCycle, modem, mail
<1>2. \A s \in Sets : /\ Present(sets'[s]) = Present(sets[s])
                      /\ sets'[s].parts = sets[s].parts
                      /\ sets'[s].complete = sets[s].complete
                      /\ sets'[s].accepted = sets[s].accepted
                      /\ sets'[s].deleted = sets[s].deleted
  BY <1>1, AgedFacts DEF Steady, TypeOK, Present
<1>3. PartsFade
  BY <1>2 DEF PartsFade, OnceInv, Copies, PartsAreCopies
<1>4. \A m \in Stored' : IsCached(m) => IsCached(m)'
  BY <1>2 DEF IsCached
<1>5. QED
  BY <1>1, <1>3, <1>4, FadeStep DEF SlotsEmpty

\* A released set held deleted parts only, whose messages are in no slot.
LEMMA RemovedSet ==
  ASSUME Steady, Copies, NEW s \in Sets, sets[s].used, ~Remove(sets[s]).used
  PROVE  Texts(sets[s]) \subseteq mailed \ Stored
<1>1. Present(sets[s]) \subseteq sets[s].deleted
  BY DEF Remove, Removable
<1>2. \A p \in Present(sets[s]) : sets[s].parts[p].msg \in mailed \ Stored
  BY <1>1 DEF Copies, PartsAreCopies, Steady, FlagsFollowMail
<1>3. QED
  BY <1>2 DEF Texts

LEMMA ReleaseOnce ==
  ASSUME Steady, OnceInv, FragmentsDone \/ EraseDone
  PROVE  OnceInv'
<1>1. /\ UNCHANGED <<inbox, arrived, joined, frags>>
      /\ sets' = [sets EXCEPT ![job.set] = Remove(@)] \/ sets' = sets
      /\ pc \in {"submit", "erase"} /\ job.kind \in {"complete", "expired"}
  BY DEF FragmentsDone, EraseDone, ReleaseSet, Submitting, Erasing, modem, mail
<1>2. job.set \in Sets /\ sets[job.set] \in SetRec /\ sets[job.set].used
  BY <1>1, JobSetFacts
<1>3. \A s \in Sets : \/ sets'[s] = sets[s]
                      \/ sets'[s] = EmptySet /\ Texts(sets[s]) \cap Stored = {}
  <2>1. Remove(sets[job.set]) = sets[job.set] \/ Remove(sets[job.set]) = EmptySet
    BY <1>2, RemoveFacts
  <2>2. Remove(sets[job.set]) = EmptySet => Texts(sets[job.set]) \cap Stored = {}
    BY <1>2, RemovedSet DEF OnceInv, EmptySet
  <2>3. QED
    BY <1>1, <1>2, <2>1, <2>2 DEF Steady, TypeOK
<1>4. PartsFade
  <2>1. ASSUME NEW s \in Sets, sets'[s] = EmptySet
        PROVE  sets'[s].deleted = {} /\ Present(sets'[s]) = {}
    <3>1. EmptySet.deleted = {}
      BY DEF EmptySet
    <3>2. QED
      BY <2>1, <3>1, EmptySetFacts
  <2>2. \A s \in Sets : sets[s].deleted \subseteq Present(sets[s])
    BY DEF OnceInv, Copies, PartsAreCopies
  <2>3. QED
    BY <1>3, <2>1, <2>2 DEF PartsFade
<1>5. \A m \in Stored' : IsCached(m) => IsCached(m)'
  <2> TAKE m \in Stored'
  <2> HAVE IsCached(m)
  <2>1. PICK s \in Sets : \E p \in Present(sets[s]) : sets[s].parts[p].msg = m
    BY DEF IsCached
  <2>2. m \in Texts(sets[s]) /\ m \in Stored
    BY <1>1, <2>1 DEF Texts, Stored
  <2>3. sets'[s] = sets[s]
    BY <1>3, <2>2
  <2>4. QED
    BY <2>1, <2>3 DEF IsCached
<1>6. QED
  BY <1>1, <1>4, <1>5, FadeStep DEF SlotsEmpty

\* A deletion takes the message from the only slot that held it.
LEMMA ErasePartOnce ==
  ASSUME Steady, OnceInv, NEW p \in Seqs, ErasePart(p)
  PROVE  OnceInv'
<1> DEFINE set == sets[job.set]
           loc == set.parts[p].loc
           msg == set.parts[p].msg
<1>1. /\ UNCHANGED <<arrived, joined, frags>>
      /\ pc = "erase" /\ job.kind \in {"complete", "expired"}
      /\ p \in Present(set) /\ (set.complete \/ p \in set.accepted)
      /\ inbox' = [inbox EXCEPT ![<<loc[1], loc[2]>>] = NoMsg]
      /\ sets' = [sets EXCEPT ![job.set] = MarkDeleted(set, p)]
  BY DEF ErasePart, Erasing, IsPurged, IsFirst, NeedsDelete, PartLoc, Emptied, mail
<1>2. job.set \in Sets /\ set \in SetRec /\ set.parts[p] \in Rec
  BY <1>1, JobSetFacts
<1>3. loc \in Locs /\ loc = <<loc[1], loc[2]>>
  BY <1>2, LocTyping DEF Rec
<1>4. inbox'[loc] = NoMsg /\ SlotsEmpty
  BY <1>1, <1>3, EmptiedTyping DEF Steady, TypeOK, SlotsEmpty
<1>5. msg \notin Stored'
  <2> SUFFICES ASSUME msg \in Stored' PROVE FALSE
    OBVIOUS
  <2>1. PICK k \in Locs : inbox'[k] = msg /\ msg # NoMsg
    BY DEF Stored
  <2>2. inbox[k] = msg /\ msg \in Stored
    BY <1>4, <2>1, EmptySlots DEF SlotsEmpty
  <2>3. inbox[loc] = msg
    BY <1>1, <1>2, <2>2 DEF OnceInv, Copies, PartsAreCopies
  <2>4. k = loc
    BY <1>3, <2>1, <2>2, <2>3 DEF OnceInv, Copies, SlotsHoldOneEach
  <2>5. QED
    BY <1>4, <2>1, <2>4
<1>6. /\ \A s \in Sets : s # job.set => sets'[s] = sets[s]
      /\ Present(sets'[job.set]) = Present(set) /\ sets'[job.set].parts = set.parts
      /\ sets'[job.set].complete = set.complete
      /\ sets'[job.set].accepted = set.accepted
      /\ sets'[job.set].deleted = set.deleted \cup {p}
  BY <1>1, <1>2, MarkedContents DEF Steady, TypeOK, MarkDeleted, SetRec
<1>7. PartsFade
  BY SMTT(30), <1>1, <1>2, <1>5, <1>6 DEF PartsFade, OnceInv, Copies, PartsAreCopies
<1>8. \A m \in Stored' : IsCached(m) => IsCached(m)'
  BY <1>6 DEF IsCached
<1>9. QED
  BY <1>1, <1>4, <1>7, <1>8, FadeStep

LEMMA ArriveOnce ==
  ASSUME Steady, OnceInv, NEW m \in Messages, NEW l \in Locs, Arrive(m, l)
  PROVE  OnceInv'
<1>1. /\ UNCHANGED <<sets, joined, frags>> /\ m \notin arrived
      /\ arrived' = arrived \cup {m} /\ inbox[l] = NoMsg /\ inbox' = [inbox EXCEPT ![l] = m]
  BY DEF Arrive, mail
<1>2. m # NoMsg /\ \A k \in Locs : inbox'[k] = IF k = l THEN m ELSE inbox[k]
  BY <1>1, ForwardAssumption DEF Steady, TypeOK
<1>3. Stored' = Stored \cup {m} /\ m \notin Stored
  BY <1>1, <1>2 DEF Stored, OnceInv, Copies, SlotsHoldOneEach
<1>4. SlotsHoldOneEach'
  <2>1. \A k \in Locs : inbox[k] # m
    BY <1>2, <1>3 DEF Stored
  <2>2. QED
    BY <1>1, <1>2, <1>3, <2>1 DEF OnceInv, Copies, SlotsHoldOneEach
<1>5. ASSUME NEW s \in Sets, NEW p \in Present(sets[s])
      PROVE  sets[s].parts[p].loc \in Locs /\ sets[s].parts[p].msg # NoMsg
             /\ sets[s].parts[p].msg # m
  <2>1. sets[s].parts[p] \in Rec
    BY PartTyping DEF Steady, TypeOK
  <2>2. QED
    BY <1>1, <2>1, ForwardAssumption DEF Rec, OnceInv, Copies, PartsAreCopies
<1>6. PartsAreCopies'
  <2>1. \A s \in Sets : \A p \in Present(sets[s]) :
           sets[s].parts[p].msg \in Stored =>
             inbox'[sets[s].parts[p].loc] = sets[s].parts[p].msg
    BY <1>1, <1>2, <1>5 DEF OnceInv, Copies, PartsAreCopies
  <2>2. QED
    BY <1>1, <1>3, <1>5, <2>1 DEF OnceInv, Copies, PartsAreCopies
<1>7. PartsHoldOneEach'
  BY <1>1 DEF OnceInv, Copies, PartsHoldOneEach
<1>8. PartsKept /\ StaysCached
  BY <1>1, <1>3 DEF PartsKept, StaysCached, IsCached
<1>9. QED
  BY <1>1, <1>4, <1>6, <1>7, <1>8, JoinedFrame, FragFrame DEF OnceInv, Copies

\* A part is cached from a slot the cache does not know, so its message is cached
\* nowhere else and no e-mail of this boot has carried it.
LEMMA CachePartOnce ==
  ASSUME Steady, OnceInv, NEW l \in Locs, CachePart(l)
  PROVE  OnceInv'
<1> DEFINE h == Hdr[inbox[l]]
           rec == RecAt(l)
<1>1. /\ UNCHANGED <<inbox, arrived, joined, frags>>
      /\ pc = "scan" /\ l \in pending /\ ~ContainsId(sets, l)
      /\ h.total \in 2 .. MaxParts /\ h.seq \in 1 .. h.total
  BY DEF CachePart, Examine, IsNext, Storable, mail
<1>2. PICK s \in Sets : IsTarget(sets, h, s) /\ sets' = [sets EXCEPT ![s] = StoreIn(@, h, rec)]
  BY DEF CachePart
<1>3. /\ inbox[l] \in Messages /\ rec \in Rec /\ h.key \in Keys
      /\ rec.msg = inbox[l] /\ rec.loc = l
  BY <1>1, ForwardAssumption DEF Steady, TypeOK, ScanLooksAtMem1, RecAt, Rec
<1>4. inbox[l] \in Stored /\ inbox[l] \in arrived
  BY <1>3, ForwardAssumption DEF OnceInv, Copies, SlotsHoldOneEach, Stored
<1>5. ~IsCached(inbox[l])
  <2> SUFFICES ASSUME IsCached(inbox[l]) PROVE FALSE
    OBVIOUS
  <2>1. PICK t \in Sets : \E p \in Present(sets[t]) : sets[t].parts[p].msg = inbox[l]
    BY DEF IsCached
  <2>2. PICK p \in Present(sets[t]) : sets[t].parts[p].msg = inbox[l]
    BY <2>1
  <2>3. inbox[sets[t].parts[p].loc] = inbox[l]
    BY <1>4, <2>2 DEF OnceInv, Copies, PartsAreCopies
  <2>4. sets[t].parts[p].loc \in Locs
    BY PartTyping DEF Steady, TypeOK, Rec
  <2>5. sets[t].parts[p].loc = l
    BY <1>4, <2>3, <2>4 DEF OnceInv, Copies, SlotsHoldOneEach, Stored
  <2>6. QED
    BY <1>1, <2>5 DEF ContainsId
<1>6. joined[inbox[l]] = 0 /\ frags[inbox[l]] = 0
  BY <1>3, <1>4, <1>5 DEF OnceInv, JoinedOnce, FragOnce
<1> DEFINE old == sets[s]
           new == sets'[s]
<1>7. old \in SetRec /\ (old.used => h.total = old.total)
  BY <1>2 DEF Steady, TypeOK, IsTarget, IsFirst, Matching, Free
<1>8. new = StoreIn(old, h, rec) /\ \A t \in Sets : t # s => sets'[t] = sets[t]
  BY <1>2 DEF Steady, TypeOK
<1> HIDE DEF h, rec
<1>9. /\ new.complete <=> old.used /\ old.complete
      /\ old.used => new.accepted = old.accepted /\ new.deleted = old.deleted
      /\ ~old.used => new.accepted = {} /\ new.deleted = {}
      /\ Present(old) \subseteq Present(new)
      /\ \A p \in Present(new) :
           \/ p \in Present(old) /\ old.used /\ new.parts[p] = old.parts[p]
           \/ p = h.seq /\ new.parts[p] = rec /\ p \notin Present(old)
  BY <1>1, <1>3, <1>7, <1>8, StoreInFacts
<1> HIDE DEF new, old
<1>10. old.deleted \subseteq Present(old) /\ new.deleted \subseteq Present(old)
       /\ new.deleted \subseteq old.deleted
  <2>1. old.deleted \subseteq Present(old)
    BY DEF OnceInv, Copies, PartsAreCopies, old
  <2>2. QED
    BY <1>9, <2>1
\* Every part is an old one with its flags, or the record read from l.
<1>11. \A t \in Sets : \A p \in Present(sets'[t]) :
          \/ /\ p \in Present(sets[t]) /\ sets'[t].parts[p] = sets[t].parts[p]
             /\ sets'[t].complete = sets[t].complete
             /\ sets'[t].accepted = sets[t].accepted
             /\ p \in sets'[t].deleted => p \in sets[t].deleted
          \/ /\ t = s /\ p = h.seq /\ sets'[t].parts[p] = rec
             /\ p \notin sets'[t].deleted
  <2> SUFFICES ASSUME NEW t \in Sets, NEW p \in Present(sets'[t])
               PROVE  \/ /\ p \in Present(sets[t]) /\ sets'[t].parts[p] = sets[t].parts[p]
                         /\ sets'[t].complete = sets[t].complete
                         /\ sets'[t].accepted = sets[t].accepted
                         /\ p \in sets'[t].deleted => p \in sets[t].deleted
                      \/ /\ t = s /\ p = h.seq /\ sets'[t].parts[p] = rec
                         /\ p \notin sets'[t].deleted
    OBVIOUS
  <2>1. CASE t # s
    BY <1>8, <2>1
  <2>2. CASE t = s
    <3>1. CASE p \in Present(old) /\ old.used /\ new.parts[p] = old.parts[p]
      <4>1. new.complete = old.complete
        <5>1. new.complete \in BOOLEAN /\ old.complete \in BOOLEAN
          BY <1>7, <1>8, <1>1, <1>3, StoreInFacts DEF SetRec
        <5>2. new.complete <=> old.complete
          BY <1>9, <3>1
        <5>3. QED
          BY <5>1, <5>2
      <4>2. QED
        BY <1>9, <2>2, <3>1, <4>1 DEF new, old
    <3>2. CASE p = h.seq /\ new.parts[p] = rec /\ p \notin Present(old)
      BY <1>10, <2>2, <3>2 DEF new, old
    <3>3. QED
      BY <1>9, <2>2, <3>1, <3>2 DEF new
  <2>3. QED
    BY <2>1, <2>2
<1>12. Stored' = Stored /\ SlotsHoldOneEach'
  BY <1>1 DEF OnceInv, Copies, SlotsHoldOneEach, Stored
<1>13. \A t \in Sets : sets'[t].deleted \subseteq Present(sets'[t])
  BY <1>8, <1>9, <1>10 DEF OnceInv, Copies, PartsAreCopies, new
<1>14. PartsAreCopies'
  <2>1. ASSUME NEW t \in Sets, NEW p \in Present(sets'[t])
        PROVE  /\ sets'[t].parts[p].msg \in arrived
               /\ sets'[t].parts[p].msg \in Stored =>
                    inbox[sets'[t].parts[p].loc] = sets'[t].parts[p].msg
               /\ p \in sets'[t].deleted =>
                    /\ sets'[t].parts[p].msg \notin Stored
                    /\ sets'[t].complete \/ p \in sets'[t].accepted
    BY <1>3, <1>4, <1>11, <2>1 DEF OnceInv, Copies, PartsAreCopies
  <2>2. QED
    BY <1>1, <1>12, <1>13, <2>1 DEF PartsAreCopies
<1>15. PartsHoldOneEach'
  <2> SUFFICES ASSUME NEW t \in Sets, NEW u \in Sets,
                      NEW p \in Present(sets'[t]), NEW q \in Present(sets'[u]),
                      sets'[t].parts[p].msg = sets'[u].parts[q].msg
               PROVE  t = u /\ p = q
    BY DEF PartsHoldOneEach
  <2>1. \A v \in Sets : \A r \in Present(sets[v]) : sets[v].parts[r].msg # inbox[l]
    BY <1>5 DEF IsCached
  <2>2. \/ p \in Present(sets[t]) /\ sets'[t].parts[p] = sets[t].parts[p]
        \/ t = s /\ p = h.seq /\ sets'[t].parts[p] = rec
    BY <1>11
  <2>3. \/ q \in Present(sets[u]) /\ sets'[u].parts[q] = sets[u].parts[q]
        \/ u = s /\ q = h.seq /\ sets'[u].parts[q] = rec
    BY <1>11
  <2>4. QED
    BY SMTT(30), <1>3, <2>1, <2>2, <2>3 DEF OnceInv, Copies, PartsHoldOneEach
<1>16. PartsKept
  BY <1>3, <1>6, <1>11 DEF PartsKept
<1>17. StaysCached
  <2>1. \A t \in Sets : \A p \in Present(sets[t]) :
           p \in Present(sets'[t]) /\ sets'[t].parts[p] = sets[t].parts[p]
    <3>1. \A p \in Present(old) : p \in Present(new) /\ new.parts[p] = old.parts[p]
      BY <1>9
    <3>2. QED
      BY <1>8, <3>1 DEF new, old
  <2>2. QED
    BY <1>1, <1>12, <2>1 DEF StaysCached, IsCached
<1>18. QED
  BY <1>1, <1>12, <1>14, <1>15, <1>16, <1>17, JoinedFrame, FragFrame DEF OnceInv, Copies

\* The joined e-mail carries the messages of a set that was not complete before, so
\* of none that a joined e-mail of this boot carried.
LEMMA CompleteAcceptedOnce ==
  ASSUME Steady, OnceInv, CompleteAccepted
  PROVE  OnceInv'
<1> DEFINE set == sets[job.set]
<1>1. /\ UNCHANGED <<inbox, arrived, frags>>
      /\ pc = "submit" /\ job.kind = "complete" /\ joined' = Bump(joined, Texts(set))
      /\ sets' = [sets EXCEPT ![job.set] = MarkComplete(set)]
  BY DEF CompleteAccepted, Submitting, modem
<1>2. job.set \in Sets /\ set \in SetRec /\ ~set.complete
  BY <1>1, JobSetFacts DEF Steady, JobMatchesStep, CompleteReady
<1>3. /\ \A s \in Sets : s # job.set => sets'[s] = sets[s]
      /\ Present(sets'[job.set]) = Present(set) /\ sets'[job.set].parts = set.parts
      /\ sets'[job.set].complete
      /\ sets'[job.set].accepted = set.accepted
      /\ sets'[job.set].deleted = set.deleted
  BY <1>1, <1>2, MarkedContents DEF Steady, TypeOK, MarkComplete, SetRec
<1>4. PartsFade /\ SlotsEmpty
  BY <1>1, <1>3 DEF PartsFade, SlotsEmpty, OnceInv, Copies, PartsAreCopies
<1>5. Copies'
  BY <1>1, <1>4, CopiesFrame DEF OnceInv
<1>6. PartsKept /\ StaysCached
  <2>1. PartsKept
    BY <1>4 DEF PartsFade, PartsKept
  <2>2. \A m : IsCached(m) => IsCached(m)'
    BY <1>3 DEF IsCached
  <2>3. QED
    BY <1>1, <2>1, <2>2 DEF StaysCached, Stored
<1>7. FragOnce'
  BY <1>1, <1>6, FragFrame DEF OnceInv
<1>8. JoinedOnce'
  <2> SUFFICES ASSUME NEW m \in Messages
               PROVE  /\ joined'[m] <= 1
                      /\ joined'[m] # 0 =>
                           /\ m \in arrived'
                           /\ m \in Stored' => IsCached(m)'
                           /\ \A s \in Sets : \A p \in Present(sets'[s]) :
                                sets'[s].parts[p].msg = m => sets'[s].complete
    BY DEF JoinedOnce
  <2>1. CASE m \in Texts(set)
    <3>1. PICK p \in Present(set) : set.parts[p].msg = m
      BY <2>1 DEF Texts
    <3>2. joined[m] = 0
      BY <1>2, <3>1 DEF OnceInv, JoinedOnce
    <3>3. joined'[m] = 1
      BY <1>1, <2>1, <3>2 DEF Bump, MaxCount
    <3>4. m \in arrived' /\ IsCached(m)'
      BY <1>1, <1>2, <1>3, <3>1 DEF OnceInv, Copies, PartsAreCopies, IsCached
    <3>5. \A s \in Sets : \A q \in Present(sets'[s]) :
            sets'[s].parts[q].msg = m => s = job.set
      BY <1>2, <1>3, <3>1 DEF OnceInv, Copies, PartsHoldOneEach
    <3>6. QED
      BY <1>3, <3>3, <3>4, <3>5
  <2>2. CASE m \notin Texts(set)
    <3>1. joined'[m] = joined[m]
      BY <1>1, <2>2 DEF Bump
    <3>2. /\ joined[m] <= 1
          /\ joined[m] # 0 =>
               /\ m \in arrived
               /\ m \in Stored => IsCached(m)
               /\ \A s \in Sets : \A p \in Present(sets[s]) :
                    sets[s].parts[p].msg = m => sets[s].complete
      BY DEF OnceInv, JoinedOnce
    <3>3. joined[m] # 0 =>
               \A s \in Sets : \A p \in Present(sets'[s]) :
                  sets'[s].parts[p].msg = m => sets'[s].complete
      BY <1>3, <3>2
    <3>4. joined[m] # 0 => m \in arrived' /\ (m \in Stored' => IsCached(m)')
      BY <1>6, <3>2 DEF StaysCached
    <3>5. QED
      BY <3>1, <3>2, <3>3, <3>4
  <2>3. QED
    BY <2>1, <2>2
<1>9. QED
  BY <1>5, <1>7, <1>8 DEF OnceInv

\* A fragment is sent from a part that was not accepted before.
LEMMA FragmentAcceptedOnce ==
  ASSUME Steady, OnceInv, FragmentAccepted
  PROVE  OnceInv'
<1> DEFINE set == sets[job.set]
           text == set.parts[job.part].msg
<1>1. /\ UNCHANGED <<inbox, arrived, joined>>
      /\ pc = "submit" /\ job.kind = "expired" /\ frags' = Bump(frags, {text})
      /\ job.part \in Present(set) /\ job.part \notin set.accepted
      /\ sets' = [sets EXCEPT ![job.set] = MarkAccepted(set, job.part)]
  BY DEF FragmentAccepted, Submitting, PartReady, modem
<1>2. job.set \in Sets /\ set \in SetRec /\ set.parts[job.part] \in Rec
  BY <1>1, JobSetFacts
<1>3. /\ \A s \in Sets : s # job.set => sets'[s] = sets[s]
      /\ Present(sets'[job.set]) = Present(set) /\ sets'[job.set].parts = set.parts
      /\ sets'[job.set].complete = set.complete
      /\ sets'[job.set].accepted = set.accepted \cup {job.part}
      /\ sets'[job.set].deleted = set.deleted
  BY <1>1, <1>2, MarkedContents DEF Steady, TypeOK, MarkAccepted, SetRec
<1>4. PartsFade /\ SlotsEmpty
  BY <1>1, <1>3 DEF PartsFade, SlotsEmpty, OnceInv, Copies, PartsAreCopies
<1>5. Copies'
  BY <1>1, <1>4, CopiesFrame DEF OnceInv
<1>6. PartsKept /\ StaysCached
  <2>1. PartsKept
    BY <1>4 DEF PartsFade, PartsKept
  <2>2. \A m : IsCached(m) => IsCached(m)'
    BY <1>3 DEF IsCached
  <2>3. QED
    BY <1>1, <2>1, <2>2 DEF StaysCached, Stored
<1>7. JoinedOnce'
  BY <1>1, <1>6, JoinedFrame DEF OnceInv
<1>8. FragOnce'
  <2> SUFFICES ASSUME NEW m \in Messages
               PROVE  /\ frags'[m] <= 1
                      /\ frags'[m] # 0 =>
                           /\ m \in arrived'
                           /\ m \in Stored' => IsCached(m)'
                           /\ \A s \in Sets : \A p \in Present(sets'[s]) :
                                sets'[s].parts[p].msg = m => p \in sets'[s].accepted
    BY DEF FragOnce
  <2>1. CASE m = text
    <3>1. frags[m] = 0
      BY <1>1, <1>2, <2>1 DEF OnceInv, FragOnce
    <3>2. frags'[m] = 1
      BY SMTT(30), <1>1, <2>1, <3>1 DEF Bump, MaxCount
    <3>3. m \in arrived' /\ IsCached(m)'
      BY <1>1, <1>2, <1>3, <2>1 DEF OnceInv, Copies, PartsAreCopies, IsCached
    <3>4. \A s \in Sets : \A q \in Present(sets'[s]) :
            sets'[s].parts[q].msg = m => s = job.set /\ q = job.part
      BY SMTT(30), <1>1, <1>2, <1>3, <2>1 DEF OnceInv, Copies, PartsHoldOneEach
    <3>5. QED
      BY <1>3, <3>2, <3>3, <3>4
  <2>2. CASE m # text
    <3>1. frags'[m] = frags[m]
      BY <1>1, <2>2 DEF Bump
    <3>2. /\ frags[m] <= 1
          /\ frags[m] # 0 =>
               /\ m \in arrived
               /\ m \in Stored => IsCached(m)
               /\ \A s \in Sets : \A p \in Present(sets[s]) :
                    sets[s].parts[p].msg = m => p \in sets[s].accepted
      BY DEF OnceInv, FragOnce
    <3>3. frags[m] # 0 =>
               \A s \in Sets : \A p \in Present(sets'[s]) :
                  sets'[s].parts[p].msg = m => p \in sets'[s].accepted
      BY <1>3, <3>2
    <3>4. frags[m] # 0 => m \in arrived' /\ (m \in Stored' => IsCached(m)')
      BY <1>6, <3>2 DEF StaysCached
    <3>5. QED
      BY <3>1, <3>2, <3>3, <3>4
  <2>3. QED
    BY <2>1, <2>2
<1>9. QED
  BY <1>5, <1>7, <1>8 DEF OnceInv

\* A restart forgets the counts along with the cache.
LEMMA RebootOnce ==
  ASSUME Steady, OnceInv, Reboot
  PROVE  OnceInv'
<1>1. /\ UNCHANGED <<inbox, arrived>> /\ \A s \in Sets : sets'[s] = EmptySet
      /\ \A m \in Messages : joined'[m] = 0 /\ frags'[m] = 0
  BY DEF Reboot
<1>2. \A s \in Sets : sets'[s].deleted = {} /\ Present(sets'[s]) = {}
  <2>1. EmptySet.deleted = {}
    BY DEF EmptySet
  <2>2. QED
    BY <1>1, <2>1, EmptySetFacts
<1>3. SlotsHoldOneEach'
  BY <1>1 DEF OnceInv, Copies, SlotsHoldOneEach, Stored
<1>4. PartsAreCopies' /\ PartsHoldOneEach'
  BY <1>2 DEF PartsAreCopies, PartsHoldOneEach
<1>5. JoinedOnce' /\ FragOnce'
  BY <1>1 DEF JoinedOnce, FragOnce
<1>6. QED
  BY <1>3, <1>4, <1>5 DEF OnceInv, Copies

LEMMA InitOnce ==
  ASSUME Init PROVE OnceInv
<1>1. \A s \in Sets : sets[s].deleted = {} /\ Present(sets[s]) = {}
  <2>1. EmptySet.deleted = {}
    BY DEF EmptySet
  <2>2. QED
    BY <2>1, EmptySetFacts DEF Init
<1>2. SlotsHoldOneEach
  BY DEF Init, SlotsHoldOneEach
<1>3. PartsAreCopies /\ PartsHoldOneEach
  BY <1>1 DEF PartsAreCopies, PartsHoldOneEach
<1>4. JoinedOnce /\ FragOnce
  BY DEF Init, JoinedOnce, FragOnce
<1>5. QED
  BY <1>2, <1>3, <1>4 DEF OnceInv, Copies

LEMMA NextOnce ==
  ASSUME Steady, OnceInv, [Next]_vars
  PROVE  OnceInv'
<1>1. CASE \E m \in Messages, l \in Locs : Arrive(m, l)
  BY <1>1, ArriveOnce
<1>2. CASE Reboot
  BY <1>2, RebootOnce
<1>3. CASE Scanning
  BY <1>3, BeginCycleOnce, CacheAloneOnce, CachePartOnce DEF Scanning, Examined
<1>4. CASE Forwarding
  BY <1>4, CacheAloneOnce, CompleteAcceptedOnce, FragmentAcceptedOnce, ReleaseOnce
     DEF Forwarding
<1>5. CASE Deleting
  BY <1>5, CacheAloneOnce, ReleaseOnce, ErasePartOnce DEF Deleting
<1>6. CASE RestartTask \/ Restore \/ UNCHANGED vars
  BY <1>6, CacheAloneOnce
<1>7. QED
  BY <1>1, <1>2, <1>3, <1>4, <1>5, <1>6 DEF Next, Cycle

\* Every message is in one slot, at most one cached part is a copy of it, and the
\* part's flags remember the e-mails of this boot, whatever the modem answers.
THEOREM OnceInvariant == Spec => []OnceInv
<1>1. Init => OnceInv
  BY InitOnce
<1>2. Steady /\ OnceInv /\ [Next]_vars => OnceInv'
  BY NextOnce
<1>3. QED
  BY <1>1, <1>2, SteadyInvariant, PTL DEF Spec

\* Within one boot no message is submitted twice as part of a joined e-mail, and no
\* fragment twice, under every fault: a lost OK of a deletion, a failed session and
\* the loss of text mode included.
THEOREM AtMostOncePerBoot == Spec => []SubmittedOncePerBoot
<1>1. OnceInv => SubmittedOncePerBoot
  BY DEF OnceInv, JoinedOnce, FragOnce, SubmittedOncePerBoot
<1>2. QED
  BY <1>1, OnceInvariant, PTL

\* Only a restart and the release of a set empty it.
LEMMA ReleasedSet ==
  ASSUME Steady, OnceInv, [Next]_vars, NEW s \in Sets, sets[s].used, ~sets'[s].used
  PROVE  pc' = "idle" \/ Texts(sets[s]) \subseteq mailed \ Stored
<1> USE DEF modem, scan, mail, GiveUp
<1>1. sets[s] \in SetRec
  BY DEF Steady, TypeOK
<1>2. CASE Reboot
  BY <1>2 DEF Reboot
<1>3. CASE FragmentsDone \/ EraseDone
  <2>1. sets' = [sets EXCEPT ![job.set] = Remove(@)] \/ sets' = sets
    BY <1>3 DEF FragmentsDone, EraseDone, ReleaseSet
  <2>2. sets'[s] = Remove(sets[s])
    BY <2>1 DEF Steady, TypeOK
  <2>3. QED
    BY <2>2, RemovedSet DEF OnceInv
<1>4. CASE BeginCycle
  BY <1>1, <1>4, AgedFacts DEF BeginCycle, AdvanceCycle
<1>5. CASE CompleteAccepted \/ FragmentAccepted \/ \E p \in Seqs : ErasePart(p)
  <2>1. PICK q : \/ sets' = [sets EXCEPT ![job.set] = MarkComplete(@)]
                 \/ sets' = [sets EXCEPT ![job.set] = MarkAccepted(@, q)]
                 \/ sets' = [sets EXCEPT ![job.set] = MarkDeleted(@, q)]
    BY <1>5 DEF CompleteAccepted, FragmentAccepted, ErasePart
  <2>2. \/ sets'[s] \in {sets[s], MarkComplete(sets[s]), MarkAccepted(sets[s], q)}
        \/ sets'[s] = MarkDeleted(sets[s], q)
    BY <2>1 DEF Steady, TypeOK
  <2>3. sets'[s].used = sets[s].used
    BY <1>1, <2>2 DEF MarkComplete, MarkAccepted, MarkDeleted, SetRec
  <2>4. QED
    BY <2>3
<1>6. ASSUME NEW l \in Locs, CachePart(l) PROVE FALSE
  <2> DEFINE h == Hdr[inbox[l]]
  <2>1. pc = "scan" /\ l \in pending /\ h.total \in 2 .. MaxParts /\ h.seq \in 1 .. h.total
    BY <1>6 DEF CachePart, Examine, IsNext, Storable
  <2>2. PICK t \in Sets : /\ IsTarget(sets, h, t)
                          /\ sets' = [sets EXCEPT ![t] = StoreIn(@, h, RecAt(l))]
    BY <1>6 DEF CachePart
  <2>3. RecAt(l) \in Rec /\ h.key \in Keys
    BY <2>1, ForwardAssumption DEF Steady, TypeOK, ScanLooksAtMem1, RecAt, Rec
  <2>4. sets[t] \in SetRec /\ (sets[t].used => h.total = sets[t].total)
    BY <2>2 DEF Steady, TypeOK, IsTarget, IsFirst, Matching, Free
  <2> HIDE DEF h
  <2>5. StoreIn(sets[t], h, RecAt(l)).used
    BY <2>1, <2>3, <2>4, StoreInFacts
  <2>6. QED
    BY <2>2, <2>5 DEF Steady, TypeOK
<1>7. CASE /\ ~(Reboot \/ FragmentsDone \/ EraseDone \/ BeginCycle)
           /\ ~(CompleteAccepted \/ FragmentAccepted \/ \E p \in Seqs : ErasePart(p))
           /\ ~\E l \in Locs : CachePart(l)
  <2>1. sets' = sets
    BY <1>7 DEF Next, Cycle, Scanning, Forwarding, Deleting, Examined, Arrive, RestartTask,
       Restore, ListInbox, ListFails, ScanDone, ChooseSet, ChooseSingle, Rejected,
       CompleteTooLong, SingleAccepted, FragmentPassed, EraseSingle, EraseSingleFails,
       ErasePartFails, SkipCached, ReadFails, SkipUnprobed, FindSingle, vars
  <2>2. QED
    BY <2>1
<1>8. QED
  BY <1>2, <1>3, <1>4, <1>5, <1>6, <1>7

\* Restarts aside, a set leaves the cache only when every part it held is mailed and
\* in no slot of the modem any more: also after a deletion whose OK was lost.
THEOREM ReleasedWhenClean == Spec => SetReleasedWhenClean
<1>1. Steady /\ OnceInv /\ [Next]_vars =>
        [\A s \in Sets : sets[s].used /\ ~sets'[s].used =>
           \/ pc' = "idle"
           \/ Texts(sets[s]) \subseteq mailed \ Stored]_vars
  BY ReleasedSet
<1>2. QED
  BY <1>1, SteadyInvariant, OnceInvariant, PTL DEF Spec, SetReleasedWhenClean
=============================================================================
