----------------------------- MODULE SmsForward -----------------------------
(***************************************************************************)
(* Receiving and forwarding SMS: one poll cycle of ModemService            *)
(* (modem_service.cpp, runPollCycle and the delivery functions it calls)   *)
(* against the modem's message store and the SMTP server.                  *)
(*                                                                         *)
(* The cycle runs under modem_lock in one task, so it is one thread here;  *)
(* what interleaves with it is the network (a message arrives between two  *)
(* AT dialogs) and the restart of the board.  Each blocking dialog - CPMS  *)
(* with CMGL, CMGR with its PDU probe, an SMTP session, CPMS with CMGD -   *)
(* is one step, with the outcomes the firmware can observe.  The faults a  *)
(* run admits are the members of Faults:                                   *)
(*   select       AT+CPMS fails                                            *)
(*   list         AT+CMGL fails                                            *)
(*   read         AT+CMGR fails                                            *)
(*   probe        the PDU probe of a well-formed record fails              *)
(*   mode         the AT+CMGF=1 that ends a probe has no effect            *)
(*   smtp         the session ends without 250 (refused, or 250 lost)      *)
(*   delete       AT+CMGD fails and deletes nothing                        *)
(*   deleteReply  AT+CMGD deletes, its OK is lost                          *)
(*   reboot       the board restarts                                       *)
(***************************************************************************)
EXTENDS ConcatCache

CONSTANTS
  NoMsg,      \* an empty modem slot
  Hdr,        \* Hdr[m]: what a probe of m finds
  Oversized,  \* keys whose joined text overflows ModemSms.text
  Faults      \* the faults this run admits

AllFaults == {"select", "list", "read", "probe", "mode", "smtp", "delete",
              "deleteReply", "reboot"}

ASSUME ForwardAssumption ==
  /\ Locs \subseteq {"ME", "SM"} \X Nat
  /\ NoMsg \notin Messages
  /\ Hdr \in [Messages -> [kind : {"plain", "part", "malformed"},
                           key : Keys, total : Nat, seq : Nat]]
  /\ Oversized \subseteq Keys
  /\ Faults \subseteq AllFaults

VARIABLES
  inbox,     \* modem store: slot -> message or NoMsg
  arrived,   \* messages the network has delivered to the modem so far
  mem1,      \* storage CMGL, CMGR and CMGD work on (CPMS mem1)
  textMode,  \* TRUE: CMGF=1
  sets,      \* concatCache_
  pc,        \* step of the poll cycle; "idle" is pollCycleActive_ = FALSE
  active,    \* activeStorage
  pending,   \* candidates not yet examined
  found,     \* the single record to forward, or NoRec
  fallback,  \* fallbackFound
  job,       \* the delivery in progress
  mailed,    \* messages some e-mail with a 250 has carried
  joined,    \* per message: joined e-mails accepted since boot
  frags      \* per message: fragment e-mails accepted since boot

modem == <<inbox, arrived, mem1, textMode>>
scan  == <<active, pending, found, fallback>>
mail  == <<mailed, joined, frags>>
vars  == <<modem, sets, pc, scan, job, mail>>

NoJob == [kind |-> "none", set |-> 0, part |-> 0]

\* The counters stop at MaxCount: one repetition is enough to see.
MaxCount == 2
Bump(count, S) ==
  [m \in Messages |-> IF m \in S /\ count[m] < MaxCount THEN count[m] + 1 ELSE count[m]]

Stored == {inbox[l] : l \in Locs} \ {NoMsg}

TypeOK ==
  /\ inbox \in [Locs -> Messages \cup {NoMsg}]
  /\ arrived \subseteq Messages
  /\ mem1 \in {"ME", "SM"}
  /\ textMode \in BOOLEAN
  /\ sets \in [Sets -> SetRec]
  /\ pc \in {"idle", "list", "scan", "choose", "submit", "erase", "restore"}
  /\ active \in {"ME", "SM"}
  /\ pending \subseteq Locs
  /\ found \in Rec \cup {NoRec}
  /\ fallback \in BOOLEAN
  /\ job \in [kind : {"none", "single", "complete", "expired"},
              set : 0 .. MaxSets, part : 0 .. MaxParts + 1]
  /\ mailed \subseteq Messages
  /\ joined \in [Messages -> 0 .. MaxCount]
  /\ frags \in [Messages -> 0 .. MaxCount]

\* Messages left in the SIM by an earlier owner of the board may be there at boot.
Init ==
  /\ inbox \in {f \in [Locs -> Messages \cup {NoMsg}] :
                  /\ \A l \in Locs : l[1] = "ME" => f[l] = NoMsg
                  /\ \A k, l \in Locs : f[k] = f[l] /\ f[k] # NoMsg => k = l}
  /\ arrived = Stored
  /\ mem1 = "ME"
  /\ textMode = TRUE
  /\ sets = [s \in Sets |-> EmptySet]
  /\ pc = "idle"
  /\ active = "ME"
  /\ pending = {}
  /\ found = NoRec
  /\ fallback = FALSE
  /\ job = NoJob
  /\ mailed = {}
  /\ joined = [m \in Messages |-> 0]
  /\ frags = [m \in Messages |-> 0]

-----------------------------------------------------------------------------
(* Plausible bugs, used only to show that the properties notice them.      *)

GiveUpErasing == pc' = "erase" /\ UNCHANGED <<sets, scan, job, mail>>

ListMeOnly ==
  /\ pc = "list"
  /\ textMode
  /\ mem1' = active
  /\ pc' = "scan"
  /\ pending' = {l \in Locs : l[1] = active /\ inbox[l] # NoMsg}
  /\ UNCHANGED <<inbox, arrived, textMode, sets, active, found, fallback, job, mail>>

-----------------------------------------------------------------------------
(* The environment.                                                        *)

\* New messages land in ME (CPMS mem3), in any free slot.
Arrive(m, l) ==
  /\ m \notin arrived
  /\ l[1] = "ME"
  /\ inbox[l] = NoMsg
  /\ inbox' = [inbox EXCEPT ![l] = m]
  /\ arrived' = arrived \cup {m}
  /\ UNCHANGED <<mem1, textMode, sets, pc, scan, job, mail>>

\* Everything volatile is lost; the new poll task's init is best effort.
Reboot ==
  /\ "reboot" \in Faults
  /\ mem1' \in {mem1, "ME"}
  /\ textMode' \in {textMode, TRUE}
  /\ sets' = [s \in Sets |-> EmptySet]
  /\ pc' = "idle"
  /\ active' = "ME" /\ pending' = {} /\ found' = NoRec /\ fallback' = FALSE
  /\ job' = NoJob
  /\ joined' = [m \in Messages |-> 0]
  /\ frags' = [m \in Messages |-> 0]
  /\ UNCHANGED <<inbox, arrived, mailed>>

\* A poll task stopped between cycles and created again: init() on the modem,
\* while the cache, a member of ModemService, survives.
RestartTask ==
  /\ pc = "idle"
  /\ mem1' \in {mem1, "ME"}
  /\ textMode' \in {textMode, TRUE}
  /\ UNCHANGED <<inbox, arrived, sets, pc, scan, job, mail>>

-----------------------------------------------------------------------------
(* runPollCycle: scan the inbox.                                           *)

BeginCycle ==
  /\ pc = "idle"
  /\ pc' = "list"
  /\ sets' = AdvanceCycle(sets)
  /\ UNCHANGED <<modem, scan, job, mail>>

CandidateCapacity == MaxSets * MaxParts + 1

Occupied(storage) == {l \in Locs : l[1] = storage /\ inbox[l] # NoMsg}

\* The candidates findUnreadCandidates keeps: the lowest indices.
Lowest(S) == {l \in S : Cardinality({k \in S : k[2] < l[2]}) < CandidateCapacity}

\* An empty ME makes the scan fall back to SM, once.
ListInbox ==
  /\ pc = "list"
  /\ textMode
  /\ mem1' = active
  /\ IF Occupied(active) = {} /\ active = "ME"
       THEN active' = "SM" /\ UNCHANGED <<pc, pending>>
       ELSE pc' = "scan" /\ pending' = Lowest(Occupied(active)) /\ UNCHANGED active
  /\ UNCHANGED <<inbox, arrived, textMode, sets, found, fallback, job, mail>>

\* CMGL="ALL" is an error outside text mode.  A failed scan delivers nothing.
ListFails ==
  /\ pc = "list"
  /\ Faults \cap {"select", "list"} # {} \/ ~textMode
  /\ pc' = "restore"
  /\ mem1' \in {mem1, active}
  /\ UNCHANGED <<inbox, arrived, textMode, sets, scan, job, mail>>

IsNext(l) == pc = "scan" /\ l \in pending /\ \A k \in pending : l[2] <= k[2]

Examine(l) == IsNext(l) /\ ~ContainsId(sets, l) /\ textMode

\* The probe leaves text mode and returns to it, unless that command is lost.
ProbeMode == textMode' \in {TRUE} \cup (IF "mode" \in Faults THEN {FALSE} ELSE {})

RecAt(l) == [msg |-> inbox[l], loc |-> l]

SkipCached(l) ==
  /\ IsNext(l)
  /\ ContainsId(sets, l)
  /\ pending' = pending \ {l}
  /\ UNCHANGED <<modem, sets, pc, active, found, fallback, job, mail>>

\* In PDU mode the text reply of CMGR does not parse.
ReadFails(l) ==
  /\ IsNext(l)
  /\ ~ContainsId(sets, l)
  /\ "read" \in Faults \/ ~textMode
  /\ pc' = "restore"
  /\ UNCHANGED <<modem, sets, scan, job, mail>>

SkipUnprobed(l) ==
  /\ Examine(l)
  /\ "probe" \in Faults \/ Hdr[inbox[l]].kind = "malformed"
  /\ ProbeMode
  /\ pending' = pending \ {l}
  /\ UNCHANGED <<inbox, arrived, mem1, sets, pc, active, found, fallback, job, mail>>

CachePart(l) ==
  LET h == Hdr[inbox[l]] IN
  /\ Examine(l)
  /\ h.kind = "part"
  /\ Storable(sets, h)
  /\ ProbeMode
  /\ \E s \in Sets : /\ IsTarget(sets, h, s)
                     /\ sets' = [sets EXCEPT ![s] = StoreIn(@, h, RecAt(l))]
  /\ pending' = pending \ {l}
  /\ UNCHANGED <<inbox, arrived, mem1, pc, active, found, fallback, job, mail>>

\* A single message, or a part the cache has no room for, ends the scan.
FindSingle(l) ==
  LET h == Hdr[inbox[l]] IN
  /\ Examine(l)
  /\ h.kind = "plain" \/ (h.kind = "part" /\ ~Storable(sets, h))
  /\ ProbeMode
  /\ found' = RecAt(l)
  /\ fallback' = (h.kind = "part")
  /\ pc' = "choose"
  /\ UNCHANGED <<inbox, arrived, mem1, sets, active, pending, job, mail>>

ScanDone ==
  /\ pc = "scan"
  /\ pending = {}
  /\ pc' = "choose"
  /\ UNCHANGED <<modem, sets, scan, job, mail>>

-----------------------------------------------------------------------------
(* runPollCycle: forward one delivery and delete what it carried.          *)

StartJob(kind, set) == job' = [kind |-> kind, set |-> set, part |-> 1]

\* A complete set goes first, then an expired one, then the single record.  A
\* record that found no room in the cache takes precedence over both.
ChooseSet ==
  /\ pc = "choose"
  /\ ~fallback
  /\ \/ \E s \in Sets : /\ IsFirst(s, CompleteSets(sets))
                        /\ StartJob("complete", s)
                        /\ pc' = IF CompleteReady(sets[s]) THEN "submit" ELSE "erase"
     \/ /\ CompleteSets(sets) = {}
        /\ \E s \in Sets : IsFirst(s, ExpiredSets(sets)) /\ StartJob("expired", s)
        /\ pc' = "submit"
  /\ UNCHANGED <<modem, sets, scan, mail>>

ChooseSingle ==
  /\ pc = "choose"
  /\ fallback \/ CompleteSets(sets) \cup ExpiredSets(sets) = {}
  /\ IF found = NoRec THEN pc' = "restore" /\ UNCHANGED job
                      ELSE pc' = "submit" /\ StartJob("single", 0)
  /\ UNCHANGED <<modem, sets, scan, mail>>

Submitting(kind) == pc = "submit" /\ job.kind = kind
Erasing(kinds)   == pc = "erase" /\ job.kind \in kinds

GiveUp == pc' = "restore" /\ UNCHANGED <<sets, scan, job, mail>>

\* No 250 seen.  For the receiver this covers a 250 lost on the way.
Rejected ==
  /\ pc = "submit"
  /\ "smtp" \in Faults
  /\ job.kind = "expired" => PartReady(sets[job.set], job.part)
  /\ GiveUp
  /\ UNCHANGED modem

SingleAccepted ==
  /\ Submitting("single")
  /\ mailed' = mailed \cup {found.msg}
  /\ pc' = "erase"
  /\ UNCHANGED <<modem, sets, scan, job, joined, frags>>

Texts(set) == {set.parts[p].msg : p \in Present(set)}

CompleteAccepted ==
  LET set == sets[job.set] IN
  /\ Submitting("complete")
  /\ set.key \notin Oversized
  /\ mailed' = mailed \cup Texts(set)
  /\ joined' = Bump(joined, Texts(set))
  /\ sets' = [sets EXCEPT ![job.set] = MarkComplete(@)]
  /\ pc' = "erase"
  /\ UNCHANGED <<modem, scan, job, frags>>

\* buildComplete: the joined text does not fit.
CompleteTooLong ==
  /\ Submitting("complete")
  /\ sets[job.set].key \in Oversized
  /\ GiveUp
  /\ UNCHANGED modem

FragmentAccepted ==
  LET set == sets[job.set] IN
  /\ Submitting("expired")
  /\ PartReady(set, job.part)
  /\ mailed' = mailed \cup {set.parts[job.part].msg}
  /\ frags' = Bump(frags, {set.parts[job.part].msg})
  /\ sets' = [sets EXCEPT ![job.set] = MarkAccepted(@, job.part)]
  /\ pc' = "erase"
  /\ UNCHANGED <<modem, scan, job, joined>>

NextFragment == job' = [job EXCEPT !.part = @ + 1]

\* An absent part is passed over; one accepted before only needs its deletion.
FragmentPassed ==
  /\ Submitting("expired")
  /\ job.part <= sets[job.set].total
  /\ ~PartReady(sets[job.set], job.part)
  /\ IF job.part \in Present(sets[job.set])
       THEN pc' = "erase" /\ UNCHANGED job
       ELSE NextFragment /\ UNCHANGED pc
  /\ UNCHANGED <<modem, sets, scan, mail>>

ReleaseSet == sets' = [sets EXCEPT ![job.set] = Remove(@)]

FragmentsDone ==
  /\ Submitting("expired")
  /\ job.part > sets[job.set].total
  /\ ReleaseSet
  /\ pc' = "restore"
  /\ UNCHANGED <<modem, scan, job, mail>>

\* CMGD=index empties that slot of the storage mem1 selects.
Emptied(storage, l) ==
  [inbox EXCEPT ![<<storage, l[2]>>] = NoMsg]

\* deleteConcatSet: the record to delete now is part p's, if any is left.
IsPurged(p) == IsFirst(p, NeedsDelete(sets[job.set]))

PartLoc(p) == sets[job.set].parts[p].loc

EraseDone ==
  /\ Erasing({"complete", "expired"})
  /\ NeedsDelete(sets[job.set]) = {}
  /\ IF job.kind = "complete" THEN ReleaseSet /\ pc' = "restore" /\ UNCHANGED job
                              ELSE NextFragment /\ pc' = "submit" /\ UNCHANGED sets
  /\ UNCHANGED <<modem, scan, mail>>

ErasePart(p) ==
  /\ Erasing({"complete", "expired"})
  /\ IsPurged(p)
  /\ mem1' = PartLoc(p)[1]
  /\ inbox' = Emptied(mem1', PartLoc(p))
  /\ sets' = [sets EXCEPT ![job.set] = MarkDeleted(@, p)]
  /\ UNCHANGED <<arrived, textMode, pc, scan, job, mail>>

\* CPMS or CMGD fails: nothing is deleted, or its OK did not arrive.
ErasePartFails(p) ==
  /\ Erasing({"complete", "expired"})
  /\ IsPurged(p)
  /\ \/ "select" \in Faults /\ mem1' \in {mem1, PartLoc(p)[1]} /\ UNCHANGED inbox
     \/ "delete" \in Faults /\ mem1' = PartLoc(p)[1] /\ UNCHANGED inbox
     \/ "deleteReply" \in Faults /\ mem1' = PartLoc(p)[1]
                                 /\ inbox' = Emptied(mem1', PartLoc(p))
  /\ GiveUp
  /\ UNCHANGED <<arrived, textMode>>

\* The storage found was read from is still selected.  An erased slot whose OK is
\* lost looks no different: nothing of the cycle depends on the result.
EraseSingle ==
  /\ Erasing({"single"})
  /\ inbox' = Emptied(mem1, found.loc)
  /\ GiveUp
  /\ UNCHANGED <<arrived, mem1, textMode>>

EraseSingleFails ==
  /\ Erasing({"single"})
  /\ "delete" \in Faults
  /\ GiveUp
  /\ UNCHANGED modem

\* Back to ME on every outcome; a failure is only logged.
Restore ==
  /\ pc = "restore"
  /\ mem1' \in {"ME"} \cup (IF "select" \in Faults THEN {mem1} ELSE {})
  /\ pc' = "idle"
  /\ active' = "ME" /\ pending' = {} /\ found' = NoRec /\ fallback' = FALSE
  /\ job' = NoJob
  /\ UNCHANGED <<inbox, arrived, textMode, sets, mail>>

-----------------------------------------------------------------------------
Examined(l) ==
  SkipCached(l) \/ ReadFails(l) \/ SkipUnprobed(l) \/ CachePart(l) \/ FindSingle(l)

Scanning == BeginCycle \/ ListInbox \/ ListFails \/ ScanDone \/ (\E l \in Locs : Examined(l))

Forwarding ==
  \/ ChooseSet \/ ChooseSingle
  \/ Rejected \/ SingleAccepted \/ CompleteAccepted \/ CompleteTooLong
  \/ FragmentAccepted \/ FragmentPassed \/ FragmentsDone

Deleting ==
  \/ EraseDone \/ EraseSingle \/ EraseSingleFails
  \/ \E p \in Seqs : ErasePart(p) \/ ErasePartFails(p)

Cycle == Scanning \/ Forwarding \/ Deleting \/ Restore

Next ==
  \/ \E m \in Messages, l \in Locs : Arrive(m, l)
  \/ Reboot
  \/ RestartTask
  \/ Cycle

\* A poll task that is allowed to run keeps running cycles; a server or a modem
\* that is asked again and again answers in the end.
Fairness ==
  /\ WF_vars(Cycle)
  /\ \A storage \in {"ME", "SM"} : SF_vars(active = storage /\ ListInbox)
  /\ SF_vars(SingleAccepted)
  /\ SF_vars(CompleteAccepted)
  /\ SF_vars(FragmentAccepted)
  /\ SF_vars(\E p \in Seqs : ErasePart(p))
  /\ SF_vars(EraseSingle)

Spec == Init /\ [][Next]_vars
FairSpec == Spec /\ Fairness

-----------------------------------------------------------------------------
(* Properties.                                                             *)

\* No loss (README: "A message is removed from modem storage only after
\* successful email delivery"): what is gone from the modem was mailed first,
\* whatever the scan, the cache and the deletions did, across restarts.
NoLoss == arrived \subseteq Stored \cup mailed

\* Parts whose deletion is not yet recorded.
Live(set) == Present(set) \ set.deleted

\* Until its deletion is recorded, a cached part's slot still holds the very
\* message the part was copied from, so a delayed CMGD deletes no stranger.
CacheMirrorsInbox ==
  \A s \in Sets : \A p \in Live(sets[s]) :
    inbox[sets[s].parts[p].loc] = sets[s].parts[p].msg

\* Within one boot a set is submitted once as a joined e-mail and each fragment
\* once by itself, whatever happens to the deletions that follow.
SubmittedOncePerBoot == \A m \in Messages : joined[m] <= 1 /\ frags[m] <= 1

\* A set leaves the cache, restarts aside, only when every part it held is
\* mailed and no longer in the modem.
SetReleasedWhenClean ==
  [][\A s \in Sets : sets[s].used /\ ~sets'[s].used =>
       \/ pc' = "idle"
       \/ Texts(sets[s]) \subseteq mailed \ Stored]_vars

WellFormed == {m \in Messages : Hdr[m].kind # "malformed"}

\* Every well-formed message the modem stores reaches SMTP in the end, joined
\* or as a fragment, and then leaves the modem.
EveryMessageMailed == \A m \in WellFormed : (m \in arrived) ~> (m \in mailed)
EveryMessageErased == \A m \in WellFormed : (m \in mailed) ~> (m \notin Stored)

\* Forwarding delivers at least once and forgets nothing on the way: it
\* implements SmsDelivery, the modem's message store being the durable store.
Abstract == INSTANCE SmsDelivery WITH store <- Stored
DeliveryContract == Abstract!Spec

-----------------------------------------------------------------------------
(* The inductive invariant behind NoLoss, when no CMGD reply is lost.      *)

\* No two live parts share a slot, so deleting one leaves the others alone.
CacheHoldsDistinctSlots ==
  \A s, t \in Sets : \A p \in Live(sets[s]), q \in Live(sets[t]) :
    sets[s].parts[p].loc = sets[t].parts[q].loc => s = t /\ p = q

\* The progress flags never run ahead of SMTP.
FlagsFollowMail ==
  \A s \in Sets :
    /\ sets[s].complete => IsComplete(sets[s])
    /\ sets[s].accepted \subseteq Present(sets[s])
    /\ \A p \in Present(sets[s]) :
         sets[s].complete \/ p \in sets[s].accepted => sets[s].parts[p].msg \in mailed

\* The slots still to be examined are occupied slots of the selected storage.
ScanLooksAtMem1 ==
  pc = "scan" => /\ mem1 = active
                 /\ \A l \in pending : l[1] = active /\ inbox[l] # NoMsg

\* While a single record is on its way, its slot holds it, is selected, and is
\* the source of no live part.
SingleHasItsSlot ==
  found # NoRec /\ (pc = "choose" \/ (pc \in {"submit", "erase"} /\ job.kind = "single")) =>
    /\ inbox[found.loc] = found.msg
    /\ found.loc[1] = mem1
    /\ \A s \in Sets : \A p \in Live(sets[s]) : sets[s].parts[p].loc # found.loc

\* The delivery in progress is one the cycle may be in.
JobMatchesStep ==
  /\ pc \notin {"submit", "erase", "restore"} => job = NoJob
  /\ pc \in {"idle", "list", "scan"} => found = NoRec
  /\ pc \in {"submit", "erase"} => job.kind # "none"
  /\ pc \in {"submit", "erase"} /\ job.kind = "single" => found # NoRec
  /\ pc = "erase" /\ job.kind = "single" => found.msg \in mailed
  /\ pc \in {"submit", "erase"} /\ job.kind \in {"complete", "expired"} =>
       job.set \in Sets /\ sets[job.set].used /\ job.part # 0
  /\ pc = "submit" /\ job.kind = "complete" => CompleteReady(sets[job.set])
  /\ pc = "erase" /\ job.kind = "expired" => job.part <= sets[job.set].total

IInv ==
  /\ TypeOK
  /\ NoLoss
  /\ CacheMirrorsInbox
  /\ CacheHoldsDistinctSlots
  /\ FlagsFollowMail
  /\ ScanLooksAtMem1
  /\ SingleHasItsSlot
  /\ JobMatchesStep
=============================================================================
