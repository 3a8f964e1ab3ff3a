------------------------------ MODULE ZteDialog ------------------------------
(***************************************************************************)
(* The ZTE MF79RU as an SMS source: the HTTP dialogs of zte_client.cpp,    *)
(* the three jobs of zte_service.cpp that run them (poll cycle, connection *)
(* test, send) and the device's message store.  ZteService lets one job    *)
(* run at a time; AsyncOps models how.                                     *)
(*                                                                         *)
(* A request ends in one of: an answer, a stale or garbled answer or none  *)
(* (kHttpFailed), no connection (kConnectFailed).  The faults a run admits *)
(* are counted in `events':                                                *)
(*   connect   the device cannot be reached                                *)
(*   http      the answer is lost; the request may have been carried out   *)
(*   silent    the device answers a deletion with success and keeps it     *)
(*   smtp      the submission fails                                        *)
(*   expire    the device drops the session                                *)
(*                                                                         *)
(* A page is modelled as the set of its records: the walk over it looks    *)
(* only at the first two ids (for the order), at the first or the last     *)
(* incoming record (the oldest one either way) and at their number.        *)
(***************************************************************************)
EXTENDS Integers, FiniteSets, FiniteSetsExt

CONSTANTS
  Ids,          \* record ids of the device, in the order it gives them out
  PageSize,     \* kZtePageSize
  MaxPages,     \* kZteMaxPages
  MaxStatus,    \* kZteSendStatusAttempts
  MaxCleanups,  \* kZteOutgoingCleanupMaxAttempts
  Devices,      \* kinds of device: [newestFirst, paged]
  Stored,       \* what a record may be when the gateway starts
  MaxStored,    \* bound: records stored when the gateway starts
  MaxEvents,    \* bound: sends, connection tests and faults
  Faults

ASSUME ZteAssumption ==
  /\ Ids \subseteq Nat \ {0} /\ IsFiniteSet(Ids)
  /\ PageSize \in Nat /\ PageSize >= 2
  /\ MaxPages \in Nat \ {0}
  /\ MaxStatus \in Nat \ {0}
  /\ MaxCleanups \in Nat \ {0}
  /\ Devices \subseteq [newestFirst : BOOLEAN, paged : BOOLEAN]
  /\ Stored \subseteq {"in", "sent", "failed"}
  /\ MaxStored \in Nat
  /\ MaxEvents \in Nat
  /\ Faults \subseteq {"connect", "http", "silent", "smtp", "expire"}

NoId == 0

VARIABLES
  device,     \* whether lists start with the newest record and honour `page'
  box,        \* what each record is: unused, tag 0/1, being sent, tag 2, tag 3, deleted
  alive,      \* the device knows the session of the client's cookie
  word,       \* sms_cmd_status_result of the device
  work,       \* the job that runs
  phase,      \* part of the job
  step,       \* request whose answer the job waits for
  resume,     \* request that follows a login
  relogin,    \* openSession is at its second login
  attempt,    \* 0-based try of fetchRd and fetchSmsPage
  page,       \* page of scanOldest
  target,     \* record found by scanOldest or findOutgoing
  verifying,  \* the list is read to verify a deletion
  tag,        \* tag cleanupOutgoing works on
  deleted,    \* records this cleanup has deleted
  polls,      \* status polls of this send
  cleanups,   \* cleanups this send has finished
  verdict,    \* confirmed, statusFailed or neither, of the last send
  result,     \* outcome the last job published
  stage, security, tls, offers, listedTls, taken, outcome,  \* the SMTP submission
  mailed,     \* incoming records the mail server has taken
  excused,    \* records whose last mail was followed by a reported failure, or
              \* by a verification that overlooked them
  mine,       \* record of the last send
  alone,      \* no other record was being sent when it was posted
  events      \* sends, tests and faults so far

Smtp == INSTANCE SmtpDialog

deviceVars == <<device, box, alive, word>>
session    == <<resume, relogin, attempt>>
scan       == <<page, target, verifying>>
sending    == <<tag, deleted, polls, cleanups, verdict, mine, alone>>
smtp       == <<stage, security, tls, offers, listedTls, taken, outcome>>
history    == <<mailed, excused>>
vars == <<deviceVars, work, phase, step, session, scan, sending, result, smtp, history, events>>

TypeOK ==
  /\ device \in Devices
  /\ box \in [Ids -> {"none", "in", "pending", "sent", "failed", "gone"}]
  /\ alive \in BOOLEAN
  /\ word \in {"progress", "done", "failed"}
  /\ work \in {"none", "poll", "test", "send"}
  /\ phase \in {"none", "scan", "forward", "erase", "check", "submit", "confirm", "clean"}
  /\ step \in {"none", "login", "versions", "list", "rd", "delete", "post", "status",
               "capacity", "giveup"}
  /\ resume \in {"none", "list", "rd", "capacity", "giveup"}
  /\ relogin \in BOOLEAN
  /\ attempt \in 0 .. 1
  /\ page \in 0 .. MaxPages - 1
  /\ target \in Ids \cup {NoId}
  /\ verifying \in BOOLEAN
  /\ tag \in {"sent", "failed"}
  /\ deleted \in 0 .. MaxPages * PageSize
  /\ polls \in 0 .. MaxStatus
  /\ cleanups \in 0 .. MaxCleanups
  /\ verdict \in {"none", "confirmed", "failed"}
  /\ result \in {"none", "forwarded", "delete_unverified", "forward_failed", "inbox_empty",
                 "failed", "tested", "sent", "status_failed", "in_progress"}
  /\ Smtp!TypeOK
  /\ mailed \subseteq Ids
  /\ excused \subseteq Ids
  /\ mine \in Ids \cup {NoId}
  /\ alone \in BOOLEAN
  /\ events \in 0 .. MaxEvents

Live     == {i \in Ids : box[i] \notin {"none", "gone"}}
Incoming == {i \in Ids : box[i] = "in"}
Pending  == {i \in Ids : box[i] = "pending"}
Fresh    == {i \in Ids : \A j \in Ids : j >= i => box[j] = "none"}

Init ==
  /\ device \in Devices
  /\ box \in [Ids -> Stored \cup {"none"}]
  /\ \A i, j \in Ids : i < j /\ box[j] # "none" => box[i] # "none"
  /\ Cardinality(Live) <= MaxStored
  /\ alive = FALSE
  /\ word = "progress"
  /\ work = "none" /\ phase = "none" /\ step = "none"
  /\ resume = "none" /\ relogin = FALSE /\ attempt = 0
  /\ page = 0 /\ target = NoId /\ verifying = FALSE
  /\ tag = "sent" /\ deleted = 0 /\ polls = 0 /\ cleanups = 0 /\ verdict = "none"
  /\ result = "none"
  /\ Smtp!Init
  /\ mailed = {} /\ excused = {}
  /\ mine = NoId /\ alone = TRUE
  /\ events = 0

-----------------------------------------------------------------------------
(* Plausible bugs, used only to show that the properties notice them.      *)

\* Only the first page of the inbox is looked at.
FirstPageOnly(here) == TRUE

\* A page without an incoming record ends the walk.
EmptyPageIsLast(here) ==
  here \cap Incoming = {} \/ Cardinality(here) < PageSize \/ page + 1 = MaxPages

\* Any end of the submission is followed by the deletion.
MailedAnyway(o) == o # "none"

\* The deletion is not verified.
Unchecked == "done"

\* A status that cannot be read counts as delivered.
MissingIsDone == IF alive THEN word ELSE "done"

-----------------------------------------------------------------------------
(* The device.                                                             *)

TagsOf(t) == {t}

Listing(tags) == IF tags = "10" THEN Live ELSE {i \in Ids : box[i] \in TagsOf(tags)}

Event == events < MaxEvents /\ events' = events + 1

Fault(f) == f \in Faults /\ Event

\* Place of a record in a list.
Place(i, list) ==
  Cardinality({j \in list : IF device.newestFirst THEN j > i ELSE j < i})

OnPage(p, tags) ==
  LET first == IF device.paged THEN PageSize * p ELSE 0
  IN {i \in Listing(tags) : Place(i, Listing(tags)) \in first .. first + PageSize - 1}

Arrive ==
  /\ Fresh # {}
  /\ box' = [box EXCEPT ![Min(Fresh)] = "in"]
  /\ UNCHANGED <<device, alive, word, work, phase, step, session, scan, sending, result,
                 smtp, history, events>>

\* The network delivers or rejects a record the device is sending.
Deliver ==
  /\ \E i \in Pending, fate \in {"sent", "failed"} :
       /\ box' = [box EXCEPT ![i] = fate]
       /\ word' = IF fate = "sent" THEN "done" ELSE "failed"
  /\ UNCHANGED <<device, alive, work, phase, step, session, scan, sending, result,
                 smtp, history, events>>

Expire ==
  /\ alive
  /\ Fault("expire")
  /\ alive' = FALSE
  /\ UNCHANGED <<device, box, word, work, phase, step, session, scan, sending, result,
                 smtp, history>>

-----------------------------------------------------------------------------
(* Jobs and sessions.                                                      *)

\* Every job has a client object of its own; the poll task's is as good as new.
Begin(job, part, first) ==
  /\ work = "none"
  /\ work' = job /\ phase' = part
  /\ step' = "login" /\ resume' = first /\ relogin' = FALSE /\ attempt' = 0
  /\ page' = 0 /\ target' = NoId /\ verifying' = FALSE
  /\ tag' = "sent" /\ deleted' = 0 /\ polls' = 0 /\ cleanups' = 0 /\ verdict' = "none"
  /\ mine' = NoId /\ alone' = TRUE
  /\ stage' = "closed" /\ tls' = FALSE /\ offers' = {} /\ listedTls' = FALSE
  /\ taken' = FALSE /\ outcome' = "none"
  /\ result' = "none"
  /\ UNCHANGED <<deviceVars, security, history>>

End(r) ==
  /\ work' = "none" /\ phase' = "none" /\ step' = "none"
  /\ result' = r

\* What a send reports once its verdict is known.
SendResult == IF verdict = "confirmed" THEN "sent" ELSE "status_failed"

\* A request fails for good: the job ends.
Abort ==
  /\ End(CASE phase = "erase" -> "delete_unverified"
           [] phase = "clean" -> SendResult
           [] OTHER -> "failed")
  /\ excused' = IF phase = "erase" THEN excused \cup {target} ELSE excused

Request(s) == step' = s /\ attempt' = 0 /\ UNCHANGED <<resume, relogin>>

StartPoll ==
  /\ Begin("poll", "scan", "list")
  /\ UNCHANGED events

StartTest == Begin("test", "check", "capacity") /\ Event

StartSend == Begin("send", "submit", "rd") /\ Event

LoginAccepted ==
  /\ step = "login"
  /\ alive' = TRUE
  /\ step' = "versions"
  /\ UNCHANGED <<device, box, word, work, phase, session, scan, sending, result, smtp,
                 history, events>>

VersionsRead ==
  /\ step = "versions" /\ alive
  /\ IF resume = "giveup" THEN Abort
     ELSE step' = resume /\ UNCHANGED <<work, phase, result, excused>>
  /\ UNCHANGED <<deviceVars, session, scan, sending, smtp, mailed, events>>

\* openSession: one more login when the versions are missing.
VersionsStale ==
  /\ step = "versions" /\ ~alive
  /\ IF relogin THEN Abort /\ UNCHANGED session
     ELSE /\ step' = "login" /\ relogin' = TRUE
          /\ UNCHANGED <<work, phase, result, excused, resume, attempt>>
  /\ UNCHANGED <<deviceVars, scan, sending, smtp, mailed, events>>

\* After the second failed try the session is opened once more and the call fails.
AfterLogin(try) == IF try = 0 THEN step ELSE "giveup"

LogInAgain ==
  /\ step' = "login" /\ relogin' = FALSE
  /\ resume' = AfterLogin(attempt)
  /\ attempt' = 1
  /\ UNCHANGED <<deviceVars, work, phase, scan, sending, result, smtp, history>>

\* fetchRd and fetchSmsPage see the stale shape, or no answer at all.
AnswerStale  == step \in {"list", "rd"} /\ ~alive /\ LogInAgain /\ UNCHANGED events
AnswerLost   == step \in {"list", "rd"} /\ Fault("http") /\ LogInAgain

\* Requests that are not repeated; the lost one was not carried out.
RequestFails ==
  /\ step # "none"
  /\ \/ Fault("connect")
     \/ step \notin {"list", "rd"} /\ Fault("http")
  /\ Abort
  /\ UNCHANGED <<deviceVars, session, scan, sending, smtp, mailed>>

-----------------------------------------------------------------------------
(* scanOldest                                                              *)

\* A page replaces the record captured so far only when lists start with the
\* newest one; its oldest incoming record is then its last.
Better(best, here) == here # {} /\ (device.newestFirst \/ best = NoId)

LastPage(here) == Cardinality(here) < PageSize \/ page + 1 = MaxPages

ScanPage ==
  /\ phase = "scan" /\ step = "list" /\ alive
  /\ LET here == OnPage(page, "10")
         incoming == here \cap Incoming
         best == IF Better(target, incoming) THEN Min(incoming) ELSE target
     IN /\ target' = best
        /\ IF LastPage(here) \/ (best # NoId /\ ~device.newestFirst)
           THEN /\ page' = 0
                /\ IF best = NoId THEN End("inbox_empty") /\ UNCHANGED outcome
                   ELSE /\ phase' = "forward" /\ step' = "none" /\ outcome' = "none"
                        /\ UNCHANGED <<work, result>>
           ELSE /\ page' = page + 1
                /\ UNCHANGED <<work, phase, step, result, outcome>>
  /\ attempt' = 0
  /\ UNCHANGED <<deviceVars, resume, relogin, verifying, sending, stage, security, tls, offers,
                 listedTls, taken, history, events>>

-----------------------------------------------------------------------------
(* forwardSms and deleteMessage                                            *)

Submit ==
  /\ phase = "forward"
  /\ stage # "closed" \/ outcome = "none"
  /\ Smtp!Next
  /\ IF outcome' \in {"none", "success"} THEN UNCHANGED events ELSE Fault("smtp")
  /\ IF taken' /\ ~taken
     THEN mailed' = mailed \cup {target} /\ excused' = excused \ {target}
     ELSE UNCHANGED history
  /\ UNCHANGED <<deviceVars, work, phase, step, session, scan, sending, result>>

MailAccepted(o) == o = "success"

MailDone ==
  /\ phase = "forward" /\ stage = "closed" /\ outcome # "none"
  /\ IF MailAccepted(outcome)
     THEN /\ phase' = "erase" /\ Request("rd")
          /\ UNCHANGED <<work, result, excused>>
     ELSE /\ End("forward_failed")
          /\ excused' = excused \cup {target}
          /\ UNCHANGED session
  /\ UNCHANGED <<deviceVars, scan, sending, smtp, mailed, events>>

TokenRead ==
  /\ step = "rd" /\ alive
  /\ Request(IF phase = "submit" THEN "post" ELSE "delete")
  /\ UNCHANGED <<deviceVars, work, phase, scan, sending, result, smtp, history, events>>

\* The page is read again to see whether the record is gone.
AfterDeletion == "list"

Erase == box' = [box EXCEPT ![target] = "gone"] /\ UNCHANGED <<device, alive, word>>

DeletionAnswered ==
  /\ step = "delete" /\ alive
  /\ \/ Erase /\ UNCHANGED events
     \/ Fault("silent") /\ UNCHANGED deviceVars
  /\ IF AfterDeletion = "list"
     THEN /\ Request("list") /\ verifying' = TRUE
          /\ UNCHANGED <<work, phase, result>>
     ELSE End("forwarded") /\ UNCHANGED <<session, verifying>>
  /\ UNCHANGED <<page, target, sending, smtp, history>>

\* The record is deleted, but the answer is lost.
DeletionLost ==
  /\ step = "delete" /\ alive
  /\ Erase /\ Fault("http") /\ Abort
  /\ UNCHANGED <<session, scan, sending, smtp, mailed>>

DeletionRefused ==
  /\ step = "delete" /\ ~alive
  /\ Abort
  /\ UNCHANGED <<deviceVars, session, scan, sending, smtp, mailed, events>>

-----------------------------------------------------------------------------
(* verifyAbsent and cleanupOutgoing                                        *)

Filter == IF phase = "clean" THEN tag ELSE "10"

Verified ==
  /\ step = "list" /\ verifying /\ alive
  /\ target \notin OnPage(0, Filter)
  /\ IF phase = "erase"
     THEN /\ End("forwarded")
          /\ excused' = IF box[target] = "gone" THEN excused ELSE excused \cup {target}
          /\ UNCHANGED <<session, deleted>>
     ELSE /\ deleted' = deleted + 1
          /\ IF deleted + 1 = MaxPages * PageSize THEN End(SendResult) /\ UNCHANGED session
             ELSE Request("list") /\ UNCHANGED <<work, phase, result>>
          /\ UNCHANGED excused
  /\ verifying' = FALSE
  /\ UNCHANGED <<deviceVars, page, target, tag, polls, cleanups, verdict, mine, alone, smtp,
                 mailed, events>>

\* The record is still listed: the poll cycle ends, a cleanup starts anew.
Unverified ==
  /\ step = "list" /\ verifying /\ alive
  /\ target \in OnPage(0, Filter)
  /\ IF phase = "erase" \/ cleanups + 1 = MaxCleanups
     THEN Abort /\ UNCHANGED <<session, tag, deleted, cleanups>>
     ELSE /\ cleanups' = cleanups + 1 /\ deleted' = 0 /\ tag' = "sent"
          /\ Request("list")
          /\ UNCHANGED <<work, phase, result, excused>>
  /\ verifying' = FALSE
  /\ UNCHANGED <<deviceVars, page, target, polls, verdict, mine, alone, smtp, mailed, events>>

\* findOutgoing: the first record of the page with the wanted tag.
FindOutgoing ==
  /\ phase = "clean" /\ step = "list" /\ ~verifying /\ alive
  /\ LET here == OnPage(0, tag)
     IN IF here # {}
        THEN /\ target' = IF device.newestFirst THEN Max(here) ELSE Min(here)
             /\ Request("rd")
             /\ UNCHANGED <<work, phase, result, tag>>
        ELSE /\ UNCHANGED target
             /\ IF tag = "sent"
                THEN tag' = "failed" /\ Request("list") /\ UNCHANGED <<work, phase, result>>
                ELSE End(SendResult) /\ UNCHANGED <<session, tag>>
  /\ UNCHANGED <<deviceVars, page, verifying, deleted, polls, cleanups, verdict, mine, alone,
                 smtp, history, events>>

-----------------------------------------------------------------------------
(* sendSms, readSendStatus, readInboxStatus                                *)

\* The device stores the message and starts to send it.
TakeForSending ==
  /\ alive /\ Fresh # {}
  /\ mine' = Min(Fresh)
  /\ box' = [box EXCEPT ![Min(Fresh)] = "pending"]
  /\ alone' = (Pending = {})
  /\ word' = "progress"
  /\ UNCHANGED <<device, alive>>

PostAccepted ==
  /\ step = "post"
  /\ TakeForSending
  /\ phase' = "confirm" /\ Request("status") /\ polls' = 0
  /\ UNCHANGED <<work, scan, tag, deleted, cleanups, verdict, result, smtp, history, events>>

PostLost ==
  /\ step = "post"
  /\ TakeForSending /\ Fault("http") /\ Abort
  /\ UNCHANGED <<session, scan, tag, deleted, polls, cleanups, verdict, smtp, mailed>>

PostRejected ==
  /\ step = "post"
  /\ ~alive \/ Fresh = {}
  /\ Abort
  /\ UNCHANGED <<deviceVars, session, scan, sending, smtp, mailed, events>>

\* Without a session the member is missing, which reads as in progress.
StatusWord == IF alive THEN word ELSE "progress"

LastPoll == polls + 1 = MaxStatus

StatusPolled ==
  /\ step = "status"
  /\ polls' = polls + 1
  /\ IF StatusWord = "progress"
     THEN /\ IF LastPoll THEN End("in_progress")
             ELSE UNCHANGED <<work, phase, step, result>>
          /\ UNCHANGED <<session, scan, tag, deleted, cleanups, verdict>>
     ELSE /\ verdict' = IF StatusWord = "done" THEN "confirmed" ELSE "failed"
          /\ phase' = "clean" /\ Request("list")
          /\ tag' = "sent" /\ deleted' = 0 /\ cleanups' = 0 /\ verifying' = FALSE
          /\ UNCHANGED <<work, page, target, result>>
  /\ UNCHANGED <<deviceVars, mine, alone, smtp, history, events>>

CapacityRead ==
  /\ step = "capacity"
  /\ End(IF alive THEN "tested" ELSE "failed")
  /\ UNCHANGED <<deviceVars, session, scan, sending, smtp, history, events>>

-----------------------------------------------------------------------------

Job ==
  \/ LoginAccepted \/ VersionsRead \/ VersionsStale
  \/ AnswerStale \/ AnswerLost \/ RequestFails
  \/ ScanPage \/ Submit \/ MailDone \/ TokenRead
  \/ DeletionAnswered \/ DeletionLost \/ DeletionRefused
  \/ Verified \/ Unverified \/ FindOutgoing
  \/ PostAccepted \/ PostLost \/ PostRejected \/ StatusPolled \/ CapacityRead

Next ==
  \/ Arrive \/ Deliver \/ Expire
  \/ StartPoll \/ StartTest \/ StartSend
  \/ Job

Spec == Init /\ [][Next]_vars

\* A job that runs goes on; the poll task starts another cycle after its interval.
Fairness == WF_vars(Job) /\ WF_vars(StartPoll)

FairSpec == Spec /\ Fairness

-----------------------------------------------------------------------------

Outgoing == Live \ Incoming

\* What forwarding promises, as in SmsDelivery: a record that came in leaves
\* the device only after a mail with it was accepted.
Delivery == INSTANCE SmsDelivery
  WITH Messages <- Ids,
       arrived <- {i \in Ids : box[i] = "in" \/ i \in mailed},
       store <- Incoming

DeliveryContract == Delivery!Spec

\* Records are mailed in the order they came in: what is taken is the oldest
\* incoming record, on every device whose lists can be walked to their end or
\* start with the oldest record.
ForwardsOldest ==
  [][\A i \in mailed' \ mailed :
       device.paged \/ ~device.newestFirst => \A j \in Incoming : i <= j]_vars

\* A record is mailed again only when the cycle that mailed it last did not
\* report it as forwarded, or when its verification looked at a first page the
\* record was not on.
RemailedOnlyAfterFailure ==
  [][~taken /\ taken' /\ target \in mailed => target \in excused]_vars

\* A send reported as sent was delivered, unless another record was still
\* being sent when it was posted: the device has one status word for all.
ConfirmedMeansSent ==
  verdict = "confirmed" /\ alone => box[mine] \in {"sent", "gone"}

\* Time and again every incoming record has been mailed, unless a device that
\* ignores page numbers has a page full of outgoing records to show.  No job may
\* hang for this, and the retries of every request must come to an end.
EveryIncomingMailed ==
  []<>(\/ Incoming \subseteq mailed
       \/ ~device.paged /\ Cardinality(Outgoing) >= PageSize)
=============================================================================
