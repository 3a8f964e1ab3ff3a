------------------------------ MODULE AsyncOps ------------------------------
(***************************************************************************)
(* The requests the web interface starts and asks after while a worker     *)
(* task carries them out (WebAsyncOp): the connection test and the send of *)
(* the ZTE modem and the test delivery of SMTP, with the ZTE poll task     *)
(* they share the modem with (zte_service.cpp, smtp_service.cpp and the    *)
(* handlers of http_server.cpp).                                           *)
(*                                                                         *)
(* The loop task serves one HTTP request at a time, but a handler reads    *)
(* and writes shared fields one after the other while the workers run.     *)
(* Flags and texts are not locked; only activeOperation_ is.  A text is    *)
(* modelled by the number of the request it belongs to.  Faults:           *)
(*   noMemory     xTaskCreate fails                                        *)
(*   stopTimeout  the poll task outlives the wait for it to stop           *)
(***************************************************************************)
EXTENDS Integers, FiniteSets, FiniteSetsExt

CONSTANTS
  MaxStarts,   \* bound: requests accepted
  MaxSaves,    \* bound: settings saved
  Faults

ASSUME AsyncAssumption ==
  /\ MaxStarts \in Nat
  /\ MaxSaves \in Nat
  /\ Faults \subseteq {"noMemory", "stopTimeout"}

Ops    == {"test", "send", "mail"}   \* ZTE test, ZTE send, SMTP test delivery
ZteOps == {"test", "send"}

\* Module off; module on; forwarding on too, and SMTP ready.
Policies == {"off", "module", "forward"}

VARIABLES
  active,     \* activeOperation_ of ZteService
  mailing,    \* testRunning_ of SmtpService
  request,    \* testCandidate_, sendTo_ and sendText_
  done,       \* testDone_, sendDone_
  success,    \* testSuccess_, sendSuccess_, testResult_
  message,    \* testMessage_, sendMessage_
  worker,     \* step of each worker task
  own,        \* request a worker copied
  started,    \* requests accepted so far
  loop,       \* step of the loop task's handler
  subject,    \* operation the handler is about
  answer,     \* what the status handler has read so far
  policy,     \* ZTE and SMTP profiles, as shouldRunModule and shouldRunPoll read them
  safeMode,   \* watchdog::isSafeMode
  handle,     \* pollHandle_ is set
  stop,       \* pollStopRequested_
  poll,       \* step of the ZTE poll task
  stranded,   \* the last sync gave up or could not create the task, or the
              \* task was created with the stop flag of an older wait
  saves

requests == <<active, mailing, request, done, success, message>>
workers  == <<worker, own>>
handler  == <<loop, subject, answer>>
settings == <<policy, safeMode>>
polling  == <<handle, stop, poll, stranded>>
bounds   == <<started, saves>>
vars == <<requests, workers, handler, settings, polling, bounds>>

WorkerSteps == {"none", "copy", "dialog", "first", "second", "done", "release"}
LoopSteps   == {"idle", "start", "create", "readDone", "readResult", "readMessage",
                "reply", "stop", "stopWait", "createPoll"}
NoAnswer    == [running |-> FALSE, done |-> FALSE, success |-> 0, message |-> 0]

TypeOK ==
  /\ active \in {"none", "poll"} \cup ZteOps
  /\ mailing \in BOOLEAN
  /\ request \in [Ops -> Nat] /\ success \in [Ops -> Nat] /\ message \in [Ops -> Nat]
  /\ done \in [Ops -> BOOLEAN]
  /\ worker \in [Ops -> WorkerSteps]
  /\ own \in [Ops -> Nat]
  /\ started \in [Ops -> Nat]
  /\ loop \in LoopSteps
  /\ subject \in Ops
  /\ answer \in [running : BOOLEAN, done : BOOLEAN, success : Nat, message : Nat]
  /\ policy \in Policies
  /\ safeMode \in BOOLEAN
  /\ handle \in BOOLEAN /\ stop \in BOOLEAN /\ stranded \in BOOLEAN
  /\ poll \in {"none", "top", "cycle", "sleep", "exit"}
  /\ saves \in Nat

Init ==
  /\ active = "none" /\ mailing = FALSE
  /\ request = [o \in Ops |-> 0] /\ success = [o \in Ops |-> 0]
  /\ message = [o \in Ops |-> 0] /\ done = [o \in Ops |-> FALSE]
  /\ worker = [o \in Ops |-> "none"] /\ own = [o \in Ops |-> 0]
  /\ started = [o \in Ops |-> 0]
  /\ loop = "stop" /\ subject = "test" /\ answer = NoAnswer   \* setup() syncs first
  /\ policy \in Policies /\ safeMode \in BOOLEAN
  /\ handle = FALSE /\ stop = FALSE /\ poll = "none" /\ stranded = FALSE
  /\ saves = 0

ShouldRunModule == policy # "off"
ShouldRunPoll   == policy = "forward"

Running(o) == IF o = "mail" THEN mailing ELSE active = o

-----------------------------------------------------------------------------
(* Plausible bugs, used only to show that the properties notice them.      *)

\* The worker reports completion before it has stored the texts.
PublishEarly(step) ==
  CASE step = "dialog" -> "done" [] step = "done" -> "first" [] step = "first" -> "second"
    [] step = "second" -> "release"

\* Only the poll cycle gives the reservation back.
ReleasePoll(o) ==
  /\ active' = IF o = "poll" THEN "none" ELSE active
  /\ UNCHANGED mailing

\* Only the workers give it back.
ReleaseOps(o) ==
  /\ active' = IF o \in ZteOps /\ active = o THEN "none" ELSE active
  /\ mailing' = (mailing /\ o # "mail")

-----------------------------------------------------------------------------
(* Starting and asking.                                                    *)

\* checkCommonSendBusy and the guards of handleZteTestStart, handleSmtpTestStart.
\* They also refuse while the SIM7670G polls or sends, and without a station;
\* a request refused for that is one that is not made.
Admits(o) == IF o = "mail" THEN ~mailing ELSE active = "none"

Accepted == MapThenSumSet(LAMBDA o : started[o], Ops)

Ask(o) ==
  /\ loop = "idle"
  /\ Accepted < MaxStarts
  /\ Admits(o)
  /\ loop' = "start" /\ subject' = o
  /\ UNCHANGED <<requests, workers, answer, settings, polling, bounds>>

\* reserveOperation; the SMTP service looks at its own flag.
Reservable(o) == IF o = "mail" THEN ~mailing ELSE active = "none"

Reserve(o) ==
  IF o = "mail" THEN mailing' = TRUE /\ UNCHANGED active
  ELSE active' = o /\ UNCHANGED mailing

Release(o) ==
  IF o = "mail" THEN mailing' = FALSE /\ UNCHANGED active
  ELSE active' = (IF active = o THEN "none" ELSE active) /\ UNCHANGED mailing

Start ==
  /\ loop = "start"
  /\ subject = "send" => ShouldRunModule
  /\ Reservable(subject)
  /\ Reserve(subject)
  /\ started' = [started EXCEPT ![subject] = @ + 1]
  /\ request' = [request EXCEPT ![subject] = started'[subject]]
  /\ done' = [done EXCEPT ![subject] = FALSE]
  /\ message' = [message EXCEPT ![subject] = 0]
  /\ loop' = "create"
  /\ UNCHANGED <<success, workers, subject, answer, settings, polling, saves>>

\* The module is off, the clock is not set, or another operation came first.
StartRefused ==
  /\ loop = "start"
  /\ loop' = "idle"
  /\ UNCHANGED <<requests, workers, subject, answer, settings, polling, bounds>>

CreateWorker ==
  /\ loop = "create"
  /\ worker' = [worker EXCEPT ![subject] = "copy"]
  /\ loop' = "idle"
  /\ UNCHANGED <<requests, own, subject, answer, settings, polling, bounds>>

CreateWorkerFails ==
  /\ loop = "create" /\ "noMemory" \in Faults
  /\ Release(subject)
  /\ loop' = "idle"
  /\ UNCHANGED <<request, done, success, message, workers, subject, answer, settings,
                 polling, bounds>>

\* testStatus and sendStatus: one field after the other.
ReadRunning(o) ==
  /\ loop = "idle"
  /\ answer' = [NoAnswer EXCEPT !.running = Running(o)]
  /\ loop' = "readDone" /\ subject' = o
  /\ UNCHANGED <<requests, workers, settings, polling, bounds>>

ReadDone ==
  /\ loop = "readDone"
  /\ answer' = [answer EXCEPT !.done = done[subject]]
  /\ loop' = IF done[subject] THEN "readResult" ELSE "reply"
  /\ UNCHANGED <<requests, workers, subject, settings, polling, bounds>>

ReadResult ==
  /\ loop = "readResult"
  /\ answer' = [answer EXCEPT !.success = success[subject]]
  /\ loop' = "readMessage"
  /\ UNCHANGED <<requests, workers, subject, settings, polling, bounds>>

ReadMessage ==
  /\ loop = "readMessage"
  /\ answer' = [answer EXCEPT !.message = message[subject]]
  /\ loop' = "reply"
  /\ UNCHANGED <<requests, workers, subject, settings, polling, bounds>>

Reply ==
  /\ loop = "reply"
  /\ answer' = NoAnswer
  /\ loop' = "idle"
  /\ UNCHANGED <<requests, workers, subject, settings, polling, bounds>>

-----------------------------------------------------------------------------
(* The workers.                                                            *)

Copy(o) ==
  /\ worker[o] = "copy"
  /\ own' = [own EXCEPT ![o] = request[o]]
  /\ worker' = [worker EXCEPT ![o] = "dialog"]
  /\ UNCHANGED <<requests, handler, settings, polling, bounds>>

\* Texts first, then the flag, then the reservation.
Following(step) ==
  CASE step = "dialog" -> "first" [] step = "first" -> "second" [] step = "second" -> "done"
    [] step = "done" -> "release"

Publish(o) ==
  /\ worker[o] \in {"dialog", "first", "second", "done"}
  /\ worker' = [worker EXCEPT ![o] = Following(worker[o])]
  /\ success' = IF worker[o] = (IF o = "mail" THEN "first" ELSE "second")
                THEN [success EXCEPT ![o] = own[o]] ELSE success
  /\ message' = IF worker[o] = (IF o = "mail" THEN "second" ELSE "first")
                THEN [message EXCEPT ![o] = own[o]] ELSE message
  /\ done' = IF worker[o] = "done" THEN [done EXCEPT ![o] = TRUE] ELSE done
  /\ UNCHANGED <<active, mailing, request, own, handler, settings, polling, bounds>>

Finished(o) == worker[o] = "release"

Finish(o) ==
  /\ Finished(o)
  /\ Release(o)
  /\ worker' = [worker EXCEPT ![o] = "none"]
  /\ UNCHANGED <<request, done, success, message, own, handler, settings, polling, bounds>>

-----------------------------------------------------------------------------
(* The poll task and the settings that govern it.                          *)

\* A station, a profile and a free modem: one cycle.
PollBegin ==
  /\ poll = "top" /\ ~stop
  /\ ShouldRunPoll
  /\ active = "none"
  /\ active' = "poll" /\ poll' = "cycle"
  /\ UNCHANGED <<mailing, request, done, success, message, workers, handler, settings,
                 handle, stop, stranded, bounds>>

PollEnd ==
  /\ poll = "cycle"
  /\ Release("poll")
  /\ poll' = "sleep"
  /\ UNCHANGED <<request, done, success, message, workers, handler, settings,
                 handle, stop, stranded, bounds>>

PollNext ==
  /\ poll = "sleep" /\ ~stop
  /\ poll' = "top"
  /\ UNCHANGED <<requests, workers, handler, settings, handle, stop, stranded, bounds>>

PollStops ==
  /\ poll \in {"top", "sleep"} /\ stop
  /\ poll' = "exit"
  /\ UNCHANGED <<requests, workers, handler, settings, handle, stop, stranded, bounds>>

PollExits ==
  /\ poll = "exit"
  /\ handle' = FALSE /\ poll' = "none"
  /\ UNCHANGED <<requests, workers, handler, settings, stop, stranded, bounds>>

\* handleZteSaveSubmission and handleSmtpSaveSubmission, when the store could be written.
Save ==
  /\ loop = "idle" /\ saves < MaxSaves
  /\ saves' = saves + 1
  /\ policy' \in Policies
  /\ loop' = "stop"
  /\ UNCHANGED <<requests, workers, subject, answer, safeMode, polling, started>>

\* Safe mode ends; loop() resumes the services.
LeaveSafeMode ==
  /\ loop = "idle" /\ safeMode
  /\ safeMode' = FALSE
  /\ loop' = "stop"
  /\ UNCHANGED <<requests, workers, subject, answer, policy, polling, bounds>>

\* syncPollTask asks a task to stop only when there is one.
SyncStop ==
  /\ loop = "stop"
  /\ stop' = (handle \/ stop)
  /\ loop' = IF handle THEN "stopWait" ELSE "createPoll"
  /\ UNCHANGED <<requests, workers, subject, answer, settings, handle, poll, stranded, bounds>>

ClearedStop == FALSE

SyncStopped ==
  /\ loop = "stopWait" /\ ~handle
  /\ stop' = ClearedStop
  /\ loop' = "createPoll"
  /\ UNCHANGED <<requests, workers, subject, answer, settings, handle, poll, stranded, bounds>>

SyncTimeout ==
  /\ loop = "stopWait" /\ handle /\ "stopTimeout" \in Faults
  /\ loop' = "idle" /\ stranded' = TRUE
  /\ UNCHANGED <<requests, workers, subject, answer, settings, handle, stop, poll, bounds>>

SyncEnd ==
  /\ loop = "createPoll"
  /\ safeMode \/ ~ShouldRunModule
  /\ loop' = "idle"
  /\ UNCHANGED <<requests, workers, subject, answer, settings, polling, bounds>>

SyncCreate ==
  /\ loop = "createPoll"
  /\ ~safeMode /\ ShouldRunModule
  /\ \/ handle' = TRUE /\ poll' = "top" /\ stranded' = (stranded /\ stop)
     \/ "noMemory" \in Faults /\ stranded' = TRUE /\ UNCHANGED <<handle, poll>>
  /\ loop' = "idle"
  /\ UNCHANGED <<requests, workers, subject, answer, settings, stop, bounds>>

-----------------------------------------------------------------------------

Handler ==
  \/ Start \/ StartRefused \/ CreateWorker \/ CreateWorkerFails
  \/ ReadDone \/ ReadResult \/ ReadMessage \/ Reply
  \/ SyncStop \/ SyncStopped \/ SyncTimeout \/ SyncEnd \/ SyncCreate

Worker(o) == Copy(o) \/ Publish(o) \/ Finish(o)
PollTask  == PollBegin \/ PollEnd \/ PollNext \/ PollStops \/ PollExits

Next ==
  \/ \E o \in Ops : Ask(o) \/ ReadRunning(o) \/ Worker(o)
  \/ Handler \/ PollTask
  \/ Save \/ LeaveSafeMode

Spec == Init /\ [][Next]_vars

\* FreeRTOS runs every task that is ready, and the poll task tries again every
\* half second while the modem is taken.
Fairness ==
  /\ WF_vars(Handler)
  /\ \A o \in Ops : WF_vars(Worker(o))
  /\ WF_vars(PollBegin) /\ WF_vars(PollEnd) /\ WF_vars(PollNext)
  /\ WF_vars(PollStops) /\ WF_vars(PollExits)

FairSpec == Spec /\ Fairness

-----------------------------------------------------------------------------

\* Jobs that are in a dialog with the ZTE modem.
Dialogs == {o \in ZteOps : worker[o] # "none"} \cup {p \in {"poll"} : poll = "cycle"}

\* Who may hold the reservation, and when an operation has no worker.
Ownership ==
  /\ \A o \in ZteOps : worker[o] # "none" => active = o
  /\ poll = "cycle" => active = "poll"
  /\ worker["mail"] # "none" => mailing
  /\ loop = "create" => Running(subject) /\ worker[subject] = "none" /\ ~done[subject]

\* What the fields of an operation hold at each step of its worker.
FieldsOf(o) ==
  LET first == IF o = "mail" THEN success ELSE message
      second == IF o = "mail" THEN message ELSE success
  IN /\ request[o] = started[o]
     /\ worker[o] \notin {"none", "copy"} => own[o] = started[o]
     /\ worker[o] \in {"second", "done"} => first[o] = started[o]
     /\ worker[o] = "done" => second[o] = started[o]
     /\ done[o] => /\ worker[o] \in {"none", "release"}
                   /\ success[o] = started[o] /\ message[o] = started[o]

Fields == \A o \in Ops : FieldsOf(o)

\* What the status handler has read still holds.
Reading ==
  /\ loop = "readDone" => ~answer.done
  /\ loop \in {"readResult", "readMessage"} => answer.done /\ done[subject]
  /\ loop = "readMessage" => answer.success = started[subject]
  /\ loop = "reply" /\ answer.done =>
       answer.success = started[subject] /\ answer.message = started[subject]

IInv == TypeOK /\ Ownership /\ Fields /\ Reading

\* The ZTE modem is in at most one dialog, and the reservation names it.
OneDialog == \A d \in Dialogs : active = d

\* A status that says done comes with the result and the text of the request
\* accepted last, never with those of an earlier one or with half of each.
AnswerIsWhole ==
  loop = "reply" /\ answer.done =>
    answer.success = started[subject] /\ answer.message = started[subject]

\* A worker carries out the request that started it.
WorkerHasItsRequest ==
  \A o \in Ops : worker[o] \notin {"none", "copy"} => own[o] = started[o]

\* A poll task whose stop flag is still set has been asked to stop by a sync
\* that waits for it, or a wait for it timed out.
StopFlagExplained ==
  stop => loop = "stopWait" \/ stranded

\* Every accepted request is answered and makes room for the next.
EveryRequestEnds == \A o \in Ops : Running(o) ~> ~Running(o)

\* Forwarding goes on: while it is switched on there is another cycle, unless
\* a sync gave up on the poll task.
PollingContinues ==
  []<>(poll = "cycle" \/ ~ShouldRunPoll \/ safeMode \/ stranded)
=============================================================================
