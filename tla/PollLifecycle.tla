---------------------------- MODULE PollLifecycle ----------------------------
(***************************************************************************)
(* The tasks that share Serial1 and how they are started and stopped:      *)
(* the modem and GNSS poll tasks, the modem send tasks, and the loop task  *)
(* that serves HTTP (modem_service.cpp, gps_service.cpp,                   *)
(* system/task_control.h, system/modem_lock.h, modem/modem_transport.h).   *)
(*                                                                         *)
(* A poll task is stopped by setting its service's stop flag and waiting a *)
(* bounded time for its handle to become null; it is started by creating a *)
(* new task.  The loop task does both when settings are saved, a send task *)
(* does both around its AT dialog, and nothing serialises the two.         *)
(*                                                                         *)
(* Waiting with a time limit is two actions: the awaited thing happens, or *)
(* the limit passes while it has not.  The faults a run admits:            *)
(*   stopTimeout   a poll task outlives the wait for it to stop            *)
(*   lockTimeout   the lock is not free in time                            *)
(*   noMemory      malloc or xTaskCreate fails                             *)
(*                                                                         *)
(* begin() and end() of a transport count its users in a plain int and     *)
(* test a plain bool.  The poll task of the modem leaves the UART without  *)
(* the lock, so they are modelled access by access: any other task of the  *)
(* core may run in between.                                                *)
(***************************************************************************)
EXTENDS Integers

CONSTANTS
  Tasks,      \* poll task incarnations that may exist at once
  Senders,    \* send tasks that may exist at once
  Services,   \* the poll services present, of "modem" and "gps"
  Loop,       \* the loop task
  None,       \* a null task handle; no owner
  MaxSaves,   \* bound: settings saved
  MaxSends,   \* bound: sends accepted
  Faults

ASSUME LifecycleAssumption ==
  /\ Services \subseteq {"modem", "gps"}
  /\ "modem" \in Services
  /\ MaxSaves \in Nat
  /\ MaxSends \in Nat
  /\ Tasks \cap Senders = {}
  /\ Loop \notin Senders
  /\ None \notin Tasks \cup Senders \cup Services
  /\ Faults \subseteq {"stopTimeout", "lockTimeout", "noMemory"}

Actors == Senders \cup {Loop}

\* Tasks that have a ModemTransport.
Users == Tasks \cup Senders

\* shouldRunTask is mode # "off", shouldPoll is mode = "poll".
Modes == {"off", "on", "poll"}

VARIABLES
  handle,    \* taskHandle_ of each service
  stop,      \* taskStopRequested_ of each service
  mode,      \* settings of each service: module off, module on, and polling on
  lock,      \* owner of the modem lock
  tpc,       \* step of each poll task
  svc,       \* service each poll task belongs to
  apc,       \* step of the loop task and of each send task
  target,    \* service an actor's syncTask is about
  clean,     \* pollStopped of each send task
  sending,   \* sendRunning_
  cycling,   \* pollCycleActive_
  refs,      \* s_refCount
  active,    \* s_serialActive
  uart,      \* Serial1 runs: between Serial1.begin() and Serial1.end()
  started,   \* started_ of each task's transport
  call,      \* step of begin() or end() of each task's transport, or "none"
  seen,      \* what that call last read or wrote of s_refCount
  doubled,   \* history: a modem poll task was created while another one was alive
  booting,   \* services setup() has still to start
  saves,     \* settings saved so far
  sends      \* sends accepted so far

control == <<handle, stop>>
tasks   == <<tpc, svc, cycling>>
actors  == <<apc, target, clean, sending, booting, saves, sends>>
counted == <<refs, active, uart, seen, doubled>>
serial  == <<counted, started, call>>
vars    == <<control, mode, lock, tasks, actors, serial>>

\* Steps of a poll task and of a send task that own the lock: the AT dialog, and
\* what follows until the lock is given back.
TaskDialog == {"init", "poll", "cycle"}
TaskOwns   == TaskDialog \cup {"give"}
SenderOwns == {"dialog", "give"}

TypeOK ==
  /\ handle \in [Services -> Tasks \cup {None}]
  /\ stop \in [Services -> BOOLEAN]
  /\ mode \in [Services -> Modes]
  /\ lock \in Tasks \cup Senders \cup {None}
  /\ tpc \in [Tasks -> {"dead", "born", "initHead", "initLock", "init", "idle", "pollLock",
                        "poll", "cycle", "give", "exit"}]
  /\ svc \in [Tasks -> Services \cup {None}]
  /\ apc \in [Actors -> {"ready", "accept", "stop", "stopWait", "lock", "dialog", "give",
                         "publish", "sync", "syncWait", "create"}]
  /\ target \in [Actors -> Services \cup {None}]
  /\ clean \in [Senders -> BOOLEAN]
  /\ sending \in BOOLEAN
  /\ cycling \in BOOLEAN
  /\ refs \in Nat
  /\ active \in BOOLEAN
  /\ uart \in BOOLEAN
  /\ started \in [Users -> BOOLEAN]
  /\ call \in [Users -> {"none", "test", "open", "activate", "load", "store", "loadDown",
                         "storeDown", "look", "ask", "close", "clear"}]
  /\ seen \in [Users -> Nat]
  /\ \A x \in Users : call[x] = "storeDown" => seen[x] > 0
  /\ doubled \in BOOLEAN
  /\ booting \subseteq Services
  /\ saves \in 0 .. MaxSaves
  /\ sends \in 0 .. MaxSends

Init ==
  /\ handle = [s \in Services |-> None]
  /\ stop = [s \in Services |-> FALSE]
  /\ mode \in [Services -> Modes]
  /\ lock = None
  /\ tpc = [t \in Tasks |-> "dead"]
  /\ svc = [t \in Tasks |-> None]
  /\ apc = [a \in Actors |-> "ready"]
  /\ target = [a \in Actors |-> None]
  /\ clean = [a \in Senders |-> FALSE]
  /\ sending = FALSE
  /\ cycling = FALSE
  /\ refs = 0
  /\ active = FALSE
  /\ uart = FALSE
  /\ started = [x \in Users |-> FALSE]
  /\ call = [x \in Users |-> "none"]
  /\ seen = [x \in Users |-> 0]
  /\ doubled = FALSE
  /\ booting = Services
  /\ saves = 0
  /\ sends = 0

-----------------------------------------------------------------------------
(* Plausible bugs, used only to show that the properties notice them.      *)

\* The result of taking the lock is not looked at.
TakeUnchecked(x) == lock' = x

\* Whoever ends a transport stops Serial1, whatever the count.
LookAway(x) ==
  /\ call[x] = "look"
  /\ call' = [call EXCEPT ![x] = "ask"]
  /\ seen' = [seen EXCEPT ![x] = 0]
  /\ UNCHANGED <<started, refs, active, uart>>

\* A stop that timed out counts as done.
StopTimeoutIsClean(a) ==
  /\ apc[a] = "stopWait"
  /\ handle["modem"] # None
  /\ apc' = [apc EXCEPT ![a] = "publish"]
  /\ clean' = [clean EXCEPT ![a] = TRUE]
  /\ handle' = [handle EXCEPT !["modem"] = None]
  /\ UNCHANGED <<stop, mode, lock, tasks, target, sending, booting, saves, sends, serial>>

\* A stop that timed out ends the send task without a result.
StopTimeoutReturns(a) ==
  /\ apc[a] = "stopWait"
  /\ handle["modem"] # None
  /\ apc' = [apc EXCEPT ![a] = "ready"]
  /\ UNCHANGED <<control, mode, lock, tasks, target, clean, sending, booting, saves, sends,
                 serial>>

\* The poll task is not started again after a send.
PublishOnly(a) ==
  /\ apc[a] = "publish"
  /\ apc' = [apc EXCEPT ![a] = "ready"]
  /\ sending' = FALSE
  /\ UNCHANGED <<control, mode, lock, tasks, target, clean, booting, saves, sends, serial>>

-----------------------------------------------------------------------------
(* Serial1 and its lock.                                                   *)

Take(x) == lock = None /\ lock' = x
Give    == lock' = None

CallStep(x, from, to) == call[x] = from /\ call' = [call EXCEPT ![x] = to]

\* ModemTransport::begin and end are called, the latter of a transport that has
\* begun, ...
BeginUart(x) == CallStep(x, "none", "test") /\ UNCHANGED started
EndUart(x)   == CallStep(x, "none", "loadDown") /\ started' = [started EXCEPT ![x] = FALSE]

\* ... and have returned.
CallDone(x) == call[x] = "none"

\* begin() starts Serial1 unless it is active.
TestActive(x) ==
  /\ CallStep(x, "test", IF active THEN "load" ELSE "open")
  /\ UNCHANGED <<counted, started>>

OpenUart(x) ==
  /\ CallStep(x, "open", "activate")
  /\ uart' = TRUE
  /\ UNCHANGED <<started, refs, active, seen>>

SetActive(x) ==
  /\ CallStep(x, "activate", "load")
  /\ active' = TRUE
  /\ UNCHANGED <<started, refs, uart, seen>>

\* s_refCount++ and s_refCount--, the latter only of a positive count.
LoadCount(x) ==
  /\ \/ CallStep(x, "load", "store")
     \/ CallStep(x, "loadDown", IF refs > 0 THEN "storeDown" ELSE "look")
  /\ seen' = [seen EXCEPT ![x] = refs]
  /\ UNCHANGED <<started, refs, active, uart>>

StoreUp(x) ==
  /\ CallStep(x, "store", "none")
  /\ refs' = seen[x] + 1
  /\ seen' = [seen EXCEPT ![x] = 0]
  /\ started' = [started EXCEPT ![x] = TRUE]
  /\ UNCHANGED <<active, uart>>

StoreDown(x) ==
  /\ CallStep(x, "storeDown", "look")
  /\ refs' = seen[x] - 1
  /\ seen' = [seen EXCEPT ![x] = seen[x] - 1]
  /\ UNCHANGED <<started, active, uart>>

\* end() looks whether that was the last reference: at the count it just wrote or
\* at the variable again, as the compiler has it.
LookAtCount(x) ==
  /\ \E n \in {seen[x], refs} : CallStep(x, "look", IF n = 0 THEN "ask" ELSE "none")
  /\ seen' = [seen EXCEPT ![x] = 0]
  /\ UNCHANGED <<started, refs, active, uart>>

AskActive(x) ==
  /\ CallStep(x, "ask", IF active THEN "close" ELSE "none")
  /\ UNCHANGED <<counted, started>>

CloseUart(x) ==
  /\ CallStep(x, "close", "clear")
  /\ uart' = FALSE
  /\ UNCHANGED <<started, refs, active, seen>>

ClearActive(x) ==
  /\ CallStep(x, "clear", "none")
  /\ active' = FALSE
  /\ UNCHANGED <<started, refs, uart, seen>>

TransportStep(x) ==
  /\ \/ TestActive(x) \/ OpenUart(x) \/ SetActive(x) \/ LoadCount(x) \/ StoreUp(x)
     \/ StoreDown(x) \/ LookAtCount(x) \/ AskActive(x) \/ CloseUart(x) \/ ClearActive(x)
  /\ UNCHANGED <<control, mode, lock, tasks, actors, doubled>>

-----------------------------------------------------------------------------
(* A poll task.                                                            *)

Step(t, from, to) == tpc[t] = from /\ tpc' = [tpc EXCEPT ![t] = to]

\* malloc of the scratch buffer; a modem task then initialises the modem.
Start(t) ==
  /\ \/ Step(t, "born", IF svc[t] = "modem" THEN "initHead" ELSE "idle")
     \/ "noMemory" \in Faults /\ Step(t, "born", "exit")
  /\ UNCHANGED <<control, mode, lock, svc, cycling, actors, serial>>

\* A stop before the modem is initialised ends the task; its transport has not
\* begun, so end() does nothing.
TryInit(t) ==
  /\ Step(t, "initHead", IF stop[svc[t]] THEN "exit" ELSE "initLock")
  /\ UNCHANGED <<control, mode, lock, svc, cycling, actors, serial>>

InitLocked(t) ==
  /\ Step(t, "initLock", "init")
  /\ Take(t)
  /\ BeginUart(t)
  /\ UNCHANGED <<control, mode, svc, cycling, actors, counted>>

InitLockTimeout(t) ==
  /\ "lockTimeout" \in Faults
  /\ lock # None
  /\ Step(t, "initLock", "initHead")
  /\ UNCHANGED <<control, mode, lock, svc, cycling, actors, serial>>

\* Whatever init() returned, the loop is entered.
InitDone(t) ==
  /\ CallDone(t)
  /\ Step(t, "init", "idle")
  /\ Give
  /\ UNCHANGED <<control, mode, svc, cycling, actors, serial>>

\* A modem task ends its transport on the way out, without the lock.
Leave(t) ==
  /\ Step(t, "idle", "exit")
  /\ stop[svc[t]]
  /\ IF svc[t] = "modem" THEN EndUart(t) ELSE UNCHANGED <<call, started>>
  /\ UNCHANGED <<control, mode, lock, svc, cycling, actors, counted>>

WantPoll(t) ==
  /\ Step(t, "idle", "pollLock")
  /\ ~stop[svc[t]]
  /\ mode[svc[t]] = "poll"
  /\ UNCHANGED <<control, mode, lock, svc, cycling, actors, serial>>

\* The modem task's transport is open since init, a GNSS poll opens its own.
PollLocked(t) ==
  /\ Step(t, "pollLock", "poll")
  /\ Take(t)
  /\ IF svc[t] = "gps" THEN BeginUart(t) ELSE UNCHANGED <<call, started>>
  /\ UNCHANGED <<control, mode, svc, cycling, actors, counted>>

PollLockTimeout(t) ==
  /\ "lockTimeout" \in Faults
  /\ lock # None
  /\ Step(t, "pollLock", "idle")
  /\ UNCHANGED <<control, mode, lock, svc, cycling, actors, serial>>

\* Forwarding follows a status poll when no send is running (and Wi-Fi, SMTP and
\* the SIM allow).
BeginCycle(t) ==
  /\ svc[t] = "modem"
  /\ ~sending
  /\ Step(t, "poll", "cycle")
  /\ cycling' = TRUE
  /\ UNCHANGED <<control, mode, lock, svc, actors, serial>>

EndCycle(t) ==
  /\ Step(t, "cycle", "give")
  /\ cycling' = FALSE
  /\ UNCHANGED <<control, mode, lock, svc, actors, serial>>

\* A GNSS task ends its transport before it gives the lock back.
PollDone(t) ==
  /\ CallDone(t)
  /\ Step(t, "poll", "give")
  /\ IF svc[t] = "gps" THEN EndUart(t) ELSE UNCHANGED <<call, started>>
  /\ UNCHANGED <<control, mode, lock, svc, cycling, actors, counted>>

GiveLock(t) ==
  /\ CallDone(t)
  /\ Step(t, "give", "idle")
  /\ Give
  /\ UNCHANGED <<control, mode, svc, cycling, actors, serial>>

\* The handle is cleared whichever task it names.
Exit(t) ==
  /\ CallDone(t)
  /\ Step(t, "exit", "dead")
  /\ handle' = [handle EXCEPT ![svc[t]] = None]
  /\ svc' = [svc EXCEPT ![t] = None]
  /\ UNCHANGED <<stop, mode, lock, cycling, actors, serial>>

TaskStep(t) ==
  \/ Start(t) \/ TryInit(t) \/ InitLocked(t) \/ InitLockTimeout(t) \/ InitDone(t)
  \/ Leave(t) \/ WantPoll(t) \/ PollLocked(t) \/ PollLockTimeout(t)
  \/ BeginCycle(t) \/ EndCycle(t) \/ PollDone(t) \/ GiveLock(t)
  \/ TransportStep(t) \/ Exit(t)

-----------------------------------------------------------------------------
(* syncTask, run by the loop task and by a send task that is done.         *)

At(a, from)       == apc[a] = from
Goto(a, to)       == apc' = [apc EXCEPT ![a] = to]
Move(a, from, to) == At(a, from) /\ Goto(a, to)

EndSync(a) == Goto(a, "ready") /\ target' = [target EXCEPT ![a] = None]

\* A null handle skips stopTask altogether, which leaves the flag as it is.
Sync(a) ==
  /\ At(a, "sync")
  /\ IF handle[target[a]] = None
       THEN Goto(a, "create") /\ UNCHANGED stop
       ELSE Goto(a, "syncWait") /\ stop' = [stop EXCEPT ![target[a]] = TRUE]
  /\ UNCHANGED <<handle, mode, lock, tasks, target, clean, sending, booting, saves, sends,
                 serial>>

SyncStopped(a) ==
  /\ Move(a, "syncWait", "create")
  /\ handle[target[a]] = None
  /\ stop' = [stop EXCEPT ![target[a]] = FALSE]
  /\ UNCHANGED <<handle, mode, lock, tasks, target, clean, sending, booting, saves, sends,
                 serial>>

\* The stop request stays.
SyncTimeout(a) ==
  /\ "stopTimeout" \in Faults
  /\ At(a, "syncWait")
  /\ handle[target[a]] # None
  /\ EndSync(a)
  /\ UNCHANGED <<control, mode, lock, tasks, clean, sending, booting, saves, sends, serial>>

Create(a) ==
  /\ At(a, "create")
  /\ mode[target[a]] # "off"
  /\ \E t \in Tasks :
       /\ tpc[t] = "dead"
       /\ tpc' = [tpc EXCEPT ![t] = "born"]
       /\ svc' = [svc EXCEPT ![t] = target[a]]
       /\ handle' = [handle EXCEPT ![target[a]] = t]
  /\ doubled' = (doubled \/ (target[a] = "modem" /\ \E u \in Tasks : svc[u] = "modem"))
  /\ EndSync(a)
  /\ UNCHANGED <<stop, mode, lock, cycling, clean, sending, booting, saves, sends, refs, active,
                 uart, seen, started, call>>

CreateFails(a) ==
  /\ At(a, "create")
  /\ IF mode[target[a]] # "off"
       THEN "noMemory" \in Faults /\ handle' = [handle EXCEPT ![target[a]] = None]
       ELSE UNCHANGED handle
  /\ EndSync(a)
  /\ UNCHANGED <<stop, mode, lock, tasks, clean, sending, booting, saves, sends, serial>>

SyncStep(a) == Sync(a) \/ SyncStopped(a) \/ SyncTimeout(a) \/ Create(a) \/ CreateFails(a)

-----------------------------------------------------------------------------
(* The loop task.                                                          *)

StartSync(s) ==
  /\ Move(Loop, "ready", "sync")
  /\ target' = [target EXCEPT ![Loop] = s]

\* setup() starts the services before loop() serves the first request.
Boot(s) ==
  /\ s \in booting
  /\ StartSync(s)
  /\ booting' = booting \ {s}
  /\ UNCHANGED <<control, mode, lock, tasks, clean, sending, saves, sends, serial>>

\* handleModemSourceSave, handleGpsSaveSubmission
SaveSettings(s, m) ==
  /\ booting = {}
  /\ saves < MaxSaves
  /\ StartSync(s)
  /\ mode' = [mode EXCEPT ![s] = m]
  /\ saves' = saves + 1
  /\ UNCHANGED <<control, lock, tasks, clean, sending, booting, sends, serial>>

\* startSend looks at what runs, and only then claims the send.
GateSend ==
  /\ booting = {}
  /\ sends < MaxSends
  /\ mode["modem"] # "off"
  /\ ~sending
  /\ ~cycling
  /\ Move(Loop, "ready", "accept")
  /\ UNCHANGED <<control, mode, lock, tasks, target, clean, sending, booting, saves, sends,
                 serial>>

AcceptSend(a) ==
  /\ sends < MaxSends
  /\ At(Loop, "accept")
  /\ At(a, "ready")
  /\ apc' = [apc EXCEPT ![Loop] = "ready", ![a] = "stop"]
  /\ clean' = [clean EXCEPT ![a] = FALSE]
  /\ sending' = TRUE
  /\ sends' = sends + 1
  /\ UNCHANGED <<control, mode, lock, tasks, target, booting, saves, serial>>

\* No task for the send: sendRunning_ is taken back.
RefuseSend ==
  /\ "noMemory" \in Faults
  /\ Move(Loop, "accept", "ready")
  /\ UNCHANGED <<control, mode, lock, tasks, target, clean, sending, booting, saves, sends,
                 serial>>

LoopStep ==
  \/ \E s \in Services : Boot(s)
  \/ GateSend \/ RefuseSend
  \/ \E a \in Senders : AcceptSend(a)
  \/ SyncStep(Loop)

-----------------------------------------------------------------------------
(* A send task.                                                            *)

SendRest == <<mode, tasks, target, booting, saves, sends>>

\* Without a scratch buffer the poll task is left alone.
SendNoMemory(a) ==
  /\ "noMemory" \in Faults
  /\ Move(a, "stop", "publish")
  /\ UNCHANGED <<SendRest, control, lock, clean, sending, serial>>

StopPoll(a) ==
  /\ IF handle["modem"] = None
       THEN /\ Move(a, "stop", "lock")
            /\ clean' = [clean EXCEPT ![a] = TRUE]
            /\ UNCHANGED stop
       ELSE /\ Move(a, "stop", "stopWait")
            /\ stop' = [stop EXCEPT !["modem"] = TRUE]
            /\ UNCHANGED clean
  /\ UNCHANGED <<SendRest, handle, lock, sending, serial>>

PollStopped(a) ==
  /\ handle["modem"] = None
  /\ Move(a, "stopWait", "lock")
  /\ stop' = [stop EXCEPT !["modem"] = FALSE]
  /\ clean' = [clean EXCEPT ![a] = TRUE]
  /\ UNCHANGED <<SendRest, handle, lock, sending, serial>>

StopPollTimeout(a) ==
  /\ "stopTimeout" \in Faults
  /\ handle["modem"] # None
  /\ Move(a, "stopWait", "publish")
  /\ UNCHANGED <<SendRest, control, lock, clean, sending, serial>>

SendLocked(a) ==
  /\ Move(a, "lock", "dialog")
  /\ Take(a)
  /\ BeginUart(a)
  /\ UNCHANGED <<SendRest, control, clean, sending, counted>>

SendLockTimeout(a) ==
  /\ "lockTimeout" \in Faults
  /\ lock # None
  /\ Move(a, "lock", "publish")
  /\ UNCHANGED <<SendRest, control, lock, clean, sending, serial>>

\* sendSms, whatever its outcome; the transport ends before the lock is given back.
SendDone(a) ==
  /\ CallDone(a)
  /\ Move(a, "dialog", "give")
  /\ EndUart(a)
  /\ UNCHANGED <<SendRest, control, lock, clean, sending, counted>>

GiveSendLock(a) ==
  /\ CallDone(a)
  /\ Move(a, "give", "publish")
  /\ Give
  /\ UNCHANGED <<SendRest, control, clean, sending, serial>>

\* The result is published before the poll task is started again, and that only
\* after a clean stop.
Publish(a) ==
  /\ At(a, "publish")
  /\ sending' = FALSE
  /\ IF clean[a] THEN Goto(a, "sync") /\ target' = [target EXCEPT ![a] = "modem"]
                 ELSE Goto(a, "ready") /\ UNCHANGED target
  /\ UNCHANGED <<control, mode, lock, tasks, clean, booting, saves, sends, serial>>

SendStep(a) ==
  \/ SendNoMemory(a) \/ StopPoll(a) \/ PollStopped(a) \/ StopPollTimeout(a)
  \/ SendLocked(a) \/ SendLockTimeout(a) \/ SendDone(a)
  \/ TransportStep(a) \/ GiveSendLock(a) \/ Publish(a) \/ SyncStep(a)

-----------------------------------------------------------------------------
Next ==
  \/ LoopStep
  \/ \E s \in Services, m \in Modes : SaveSettings(s, m)
  \/ \E t \in Tasks : TaskStep(t)
  \/ \E a \in Senders : SendStep(a)

Spec == Init /\ [][Next]_vars

\* Every task runs; the lock goes to whoever keeps waiting for it (a FreeRTOS
\* mutex serves equal priorities in the order they came).
Fairness ==
  /\ WF_vars(LoopStep)
  /\ \A t \in Tasks : /\ WF_vars(TaskStep(t))
                      /\ SF_vars(InitLocked(t))
                      /\ SF_vars(PollLocked(t))
  /\ \A a \in Senders : WF_vars(SendStep(a)) /\ SF_vars(SendLocked(a))

FairSpec == Spec /\ Fairness

-----------------------------------------------------------------------------
(* Properties.                                                             *)

Talking == {t \in Tasks : tpc[t] \in TaskDialog} \cup {a \in Senders : apc[a] = "dialog"}

\* "Serial1 has one owner": no two AT dialogs are ever interleaved, however
\* tasks are stopped, started, duplicated or timed out.
OneDialog == \A x, y \in Talking : x = y

\* "Releases this transport's UART reference without disrupting peers": Serial1 runs
\* under every AT dialog.  It does not under one of a peer that begins its transport
\* while the modem poll task, which takes no lock for that, ends its own.
EndDisruptsNobody ==
  \A x \in Talking : CallDone(x) => uart

\* Serial1 never stops under the modem poll task, which keeps its transport begun
\* between its polls: GNSS polls and sends come and go in that time, and the count
\* that holds them from stopping Serial1 may be wrong by what an earlier poll task of
\* the modem did to it.  Excepted is the time after two of them were alive at once.
ModemKeepsUart ==
  ~doubled => \A t \in Tasks : svc[t] = "modem" /\ started[t] => uart

\* After a single save or a single send, with whatever timeouts, every live poll
\* task is the one its service's handle names, so it can still be stopped and
\* there is no second one.  Two that overlap make a second one: both see no task.
PollTaskIsNamed ==
  saves + sends <= 1 => \A t \in Tasks : tpc[t] # "dead" => handle[svc[t]] = t

\* A send that was accepted ends, with whatever result.
SendEnds == sending ~> ~sending

\* The modem is polled again and again unless switched off, or a stop request
\* that a timeout left behind is still standing.
ModemKeepsPolling ==
  []<>(\/ mode["modem"] # "poll" \/ stop["modem"]
       \/ \E t \in Tasks : svc[t] = "modem" /\ tpc[t] = "poll")

-----------------------------------------------------------------------------
(* The inductive invariant behind OneDialog and ModemKeepsUart.            *)

\* Whoever is at a step that owns the lock is its owner.
LockIsHeld ==
  /\ \A t \in Tasks : tpc[t] \in TaskOwns => lock = t
  /\ \A a \in Senders : apc[a] \in SenderOwns => lock = a

\* A live task has a service, a synchronisation is about one, and only a modem
\* task initialises hardware before it polls.
ServicesAreKnown ==
  /\ \A t \in Tasks : svc[t] = None <=> tpc[t] = "dead"
  /\ \A t \in Tasks : tpc[t] \in {"initHead", "initLock", "init"} => svc[t] = "modem"
  /\ \A a \in Actors : apc[a] \in {"sync", "syncWait", "create"} => target[a] \in Services

\* A transport is begun and ended where its task says so, by the owner of the lock
\* unless a modem task is on its way out.
Beginning == {"test", "open", "activate", "load", "store"}
Ending    == {"loadDown", "storeDown", "look", "ask", "close", "clear"}

CallsArePlaced ==
  /\ \A t \in Tasks : svc[t] = "modem" =>
       /\ call[t] \in Beginning => tpc[t] = "init"
       /\ call[t] \in Ending => tpc[t] = "exit"
       /\ started[t] <=> CallDone(t) /\ tpc[t] \in TaskOwns \cup {"idle", "pollLock"}
  /\ \A t \in Tasks : svc[t] # "modem" =>
       /\ call[t] \in Beginning => tpc[t] = "poll"
       /\ call[t] \in Ending => tpc[t] = "give"
       /\ started[t] <=> CallDone(t) /\ tpc[t] = "poll"
  /\ \A a \in Senders :
       /\ call[a] \in Beginning => apc[a] = "dialog"
       /\ call[a] \in Ending => apc[a] = "give"
       /\ started[a] <=> CallDone(a) /\ apc[a] = "dialog"

ModemTask(x) == x \in Tasks /\ svc[x] = "modem"

OneModemTask == \A t, u \in Tasks : ModemTask(t) /\ ModemTask(u) => t = u

\* A transport whose reference the count must hold.
HasRef(x) == started[x] \/ call[x] \in {"loadDown", "storeDown"}

\* While the modem task has its reference Serial1 runs, and whoever comes and goes
\* under the lock counts exactly and on top of it.
ModemCounts ==
  \A t \in Tasks : ModemTask(t) /\ HasRef(t) =>
    /\ uart /\ active /\ refs >= 1
    /\ \A x \in Users \ {t} :
         /\ HasRef(x) => refs >= 2
         /\ call[x] \notin {"open", "activate", "ask", "close", "clear"}
         /\ call[x] \in {"store", "storeDown", "look"} => seen[x] = refs

\* The modem task begins alone.
ModemBegins ==
  \A t \in Tasks : ModemTask(t) =>
    /\ call[t] = "test" => (active => uart)
    /\ call[t] = "activate" => uart
    /\ call[t] \in {"load", "store"} => uart /\ active
    /\ call[t] = "store" => seen[t] = refs

\* When the modem task is about to stop Serial1 under a peer that stops or starts it
\* too, the count has no other reference left.
ModemCloses ==
  \A t \in Tasks : ModemTask(t) =>
    /\ call[t] \in {"look", "ask", "close"} =>
         \A x \in Users \ {t} :
           \/ call[x] \in {"ask", "close", "clear"}
           \/ call[x] = "look" /\ seen[x] = 0
           => refs = 0
    /\ call[t] = "close" /\ ~active =>
         refs = 0 /\ \A x \in Users \ {t} : call[x] \notin {"load", "store", "storeDown"}

StartsInactive ==
  \A x \in Users : call[x] \in {"open", "activate"} => ~active

StoppedWhileStarting ==
  \A x \in Users : call[x] = "activate" /\ ~uart => refs = 0

\* Serial1 is stopped and yet marked active only while somebody is bound to clear that
\* mark: whoever stopped it, or a peer that has the only reference.
WillClear(x) ==
  \/ call[x] = "clear"
  \/ /\ ~ModemTask(x)
     /\ \/ call[x] \in {"ask", "close"}
        \/ call[x] = "load" /\ refs = 0
        \/ call[x] \in {"store", "look"} /\ refs = 0 /\ seen[x] = 0
        \/ (started[x] \/ call[x] = "loadDown") /\ refs = 1
        \/ call[x] = "storeDown" /\ seen[x] = 1

StoppedIsCleared == active /\ ~uart => \E x \in Users : WillClear(x)

SerialIsRight ==
  /\ OneModemTask /\ ModemCounts /\ ModemBegins /\ ModemCloses
  /\ StartsInactive /\ StoppedWhileStarting /\ StoppedIsCleared

IInv ==
  TypeOK /\ LockIsHeld /\ ServicesAreKnown /\ CallsArePlaced /\ (~doubled => SerialIsRight)
=============================================================================
