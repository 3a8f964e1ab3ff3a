--------------------------- MODULE AsyncOpsProofs ---------------------------
(***************************************************************************)
(* The requests of the web interface and their workers, for any number of  *)
(* requests and saves and all faults: the ZTE modem is in one dialog, an   *)
(* answer belongs to the request accepted last, and a stop flag that is    *)
(* still set is accounted for.                                             *)
(***************************************************************************)
EXTENDS AsyncOps, TLAPS

LEMMA InitEstablishes == Init => IInv
<1> SUFFICES ASSUME Init PROVE IInv OBVIOUS
<1>1. TypeOK BY DEF Init, TypeOK, Ops, LoopSteps, WorkerSteps, NoAnswer, Policies
<1>2. Ownership BY DEF Init, Ownership, ZteOps, Ops
<1>3. Fields BY DEF Init, Fields, FieldsOf, Ops
<1>4. Reading BY DEF Init, Reading
<1> QED BY <1>1, <1>2, <1>3, <1>4 DEF IInv

(***************************************************************************)
(* The handlers that start a request.                                      *)
(***************************************************************************)

LEMMA StartKeeps ==
  ASSUME IInv, Start
  PROVE  IInv'
<1> USE DEF IInv, Ops, ZteOps
<1>1. /\ loop = "start" /\ loop' = "create" /\ subject' = subject /\ subject \in Ops
      /\ started' = [started EXCEPT ![subject] = @ + 1]
      /\ request' = [request EXCEPT ![subject] = started'[subject]]
      /\ done' = [done EXCEPT ![subject] = FALSE]
      /\ message' = [message EXCEPT ![subject] = 0]
      /\ UNCHANGED <<success, worker, own, answer, policy, safeMode, handle, stop, poll,
                     stranded, saves>>
  BY DEF Start, TypeOK, workers, settings, polling
<1>2. /\ subject = "mail" => ~mailing /\ mailing' = TRUE /\ active' = active
      /\ subject # "mail" => active = "none" /\ active' = subject /\ mailing' = mailing
  BY DEF Start, Reservable, Reserve
<1>3. worker[subject] = "none"
  BY <1>1, <1>2 DEF Ownership, TypeOK
<1>4. TypeOK'
  <2>1. started' \in [Ops -> Nat] BY <1>1 DEF TypeOK
  <2>2. request' \in [Ops -> Nat] BY <1>1, <2>1 DEF TypeOK
  <2>3. message' \in [Ops -> Nat] /\ done' \in [Ops -> BOOLEAN] BY <1>1 DEF TypeOK
  <2>4. active' \in {"none", "poll"} \cup ZteOps /\ mailing' \in BOOLEAN
    BY <1>1, <1>2 DEF TypeOK
  <2> QED BY <1>1, <2>1, <2>2, <2>3, <2>4 DEF TypeOK, LoopSteps
<1>5. Ownership'
  BY <1>1, <1>2, <1>3 DEF Ownership, TypeOK, Running
<1>6. Fields'
  <2> SUFFICES ASSUME NEW o \in Ops PROVE FieldsOf(o)'
    BY DEF Fields, FieldsOf
  <2>1. FieldsOf(o) BY DEF Fields, FieldsOf
  <2>2. CASE o = subject
    BY <1>1, <1>3, <2>2 DEF FieldsOf, TypeOK
  <2>3. CASE o # subject
    BY <1>1, <2>1, <2>3 DEF FieldsOf, TypeOK
  <2> QED BY <2>2, <2>3
<1>7. Reading' BY <1>1 DEF Reading
<1> QED BY <1>4, <1>5, <1>6, <1>7

LEMMA CreateKeeps ==
  ASSUME IInv, CreateWorker \/ CreateWorkerFails
  PROVE  IInv'
<1> USE DEF IInv, Ops, ZteOps
<1>1. CASE CreateWorker
  <2>1. /\ loop = "create" /\ loop' = "idle" /\ subject \in Ops /\ subject' = subject
        /\ worker' = [worker EXCEPT ![subject] = "copy"]
        /\ UNCHANGED <<active, mailing, request, done, success, message, own, answer, policy,
                       safeMode, handle, stop, poll, stranded, started, saves>>
    BY <1>1 DEF CreateWorker, TypeOK, requests, settings, polling, bounds
  <2>2. TypeOK' BY <2>1 DEF TypeOK, WorkerSteps, LoopSteps
  <2>3. Ownership' BY <2>1 DEF Ownership, TypeOK, Running
  <2>4. Fields' BY <2>1 DEF Fields, FieldsOf, TypeOK, Ownership
  <2>5. Reading' BY <2>1 DEF Reading
  <2> QED BY <2>2, <2>3, <2>4, <2>5
<1>2. CASE CreateWorkerFails
  <2>1. /\ loop = "create" /\ loop' = "idle" /\ subject \in Ops /\ subject' = subject
        /\ UNCHANGED <<request, done, success, message, worker, own, answer, policy,
                       safeMode, handle, stop, poll, stranded, started, saves>>
    BY <1>2 DEF CreateWorkerFails, TypeOK, workers, settings, polling, bounds
  <2>2. /\ subject = "mail" => mailing' = FALSE /\ active' = active
        /\ subject # "mail" => active = subject /\ active' = "none" /\ mailing' = mailing
    BY <1>2, <2>1 DEF CreateWorkerFails, Release, Ownership, Running
  <2>3. worker[subject] = "none" BY <2>1 DEF Ownership
  <2>4. TypeOK'
    <3>1. active' \in {"none", "poll"} \cup ZteOps BY <2>2 DEF TypeOK
    <3>2. mailing' \in BOOLEAN BY <2>2 DEF TypeOK
    <3> QED BY <2>1, <3>1, <3>2 DEF TypeOK, LoopSteps
  <2>5. Ownership' BY <2>1, <2>2, <2>3 DEF Ownership
  <2>6. Fields' BY <2>1 DEF Fields, FieldsOf
  <2>7. Reading' BY <2>1 DEF Reading
  <2> QED BY <2>4, <2>5, <2>6, <2>7
<1> QED BY <1>1, <1>2

(***************************************************************************)
(* Steps of the loop task that touch neither the requests nor the workers: *)
(* asking, reading a status, settings and the poll task's start and stop.  *)
(***************************************************************************)

HandlerOnly ==
  \/ \E o \in Ops : Ask(o) \/ ReadRunning(o)
  \/ StartRefused \/ ReadDone \/ ReadResult \/ ReadMessage \/ Reply

SettingsOnly ==
  \/ SyncStop \/ SyncStopped \/ SyncTimeout \/ SyncEnd \/ SyncCreate
  \/ Save \/ LeaveSafeMode

LEMMA HandlerKeeps ==
  ASSUME IInv, HandlerOnly
  PROVE  IInv'
<1> USE DEF IInv, Ops
<1>1. /\ UNCHANGED <<active, mailing, request, done, success, message, worker, own, policy,
                     safeMode, handle, stop, poll, stranded, started, saves>>
      /\ loop # "create" /\ loop' # "create"
  BY DEF HandlerOnly, Ask, ReadRunning, StartRefused, ReadDone, ReadResult, ReadMessage, Reply,
         requests, workers, settings, polling, bounds
<1>2. Ownership' BY <1>1 DEF Ownership
<1>3. Fields' BY <1>1 DEF Fields, FieldsOf
<1>4. TypeOK' /\ Reading'
  <2> USE DEF TypeOK, LoopSteps, NoAnswer
  <2>1. ASSUME NEW o \in Ops, Ask(o) PROVE TypeOK' /\ Reading'
    BY <1>1, <2>1 DEF Ask, Reading
  <2>2. ASSUME NEW o \in Ops, ReadRunning(o) PROVE TypeOK' /\ Reading'
    <3>1. Running(o) \in BOOLEAN BY DEF Running
    <3>2. /\ answer' = [running |-> Running(o), done |-> FALSE, success |-> 0, message |-> 0]
          /\ loop' = "readDone" /\ subject' = o
      BY <2>2 DEF ReadRunning
    <3>3. answer' \in [running : BOOLEAN, done : BOOLEAN, success : Nat, message : Nat]
      BY <3>1, <3>2
    <3>4. ~answer'.done BY <3>2
    <3> HIDE DEF NoAnswer
    <3>5. TypeOK' BY <1>1, <3>2, <3>3
    <3>6. Reading' BY <3>2, <3>4 DEF Reading
    <3> QED BY <3>5, <3>6
  <2>3. CASE StartRefused BY <1>1, <2>3 DEF StartRefused, Reading
  <2>4. CASE ReadDone BY <1>1, <2>4 DEF ReadDone, Reading
  <2>5. CASE ReadResult BY <1>1, <2>5 DEF ReadResult, Reading, Fields, FieldsOf
  <2>6. CASE ReadMessage BY <1>1, <2>6 DEF ReadMessage, Reading, Fields, FieldsOf
  <2>7. CASE Reply BY <1>1, <2>7 DEF Reply, Reading
  <2> QED BY <2>1, <2>2, <2>3, <2>4, <2>5, <2>6, <2>7 DEF HandlerOnly
<1> QED BY <1>2, <1>3, <1>4

LEMMA SettingsKeep ==
  ASSUME IInv, SettingsOnly
  PROVE  IInv'
<1> USE DEF IInv
<1>1. /\ UNCHANGED <<active, mailing, request, done, success, message, worker, own, subject,
                     answer, started>>
      /\ loop' \in {"idle", "stop", "stopWait", "createPoll"}
      /\ poll' = poll \/ poll' = "top"
  BY DEF SettingsOnly, SyncStop, SyncStopped, SyncTimeout, SyncEnd, SyncCreate, Save,
         LeaveSafeMode, requests, workers, settings, polling, bounds
<1>2. TypeOK'
  <2> USE DEF TypeOK, LoopSteps, Policies, settings, polling, bounds
  <2>1. CASE SyncStop BY <1>1, <2>1 DEF SyncStop
  <2>2. CASE SyncStopped BY <1>1, <2>2 DEF SyncStopped, ClearedStop
  <2>3. CASE SyncTimeout BY <1>1, <2>3 DEF SyncTimeout
  <2>4. CASE SyncEnd BY <1>1, <2>4 DEF SyncEnd
  <2>5. CASE SyncCreate BY <1>1, <2>5 DEF SyncCreate
  <2>6. CASE Save BY <1>1, <2>6 DEF Save
  <2>7. CASE LeaveSafeMode BY <1>1, <2>7 DEF LeaveSafeMode
  <2> QED BY <2>1, <2>2, <2>3, <2>4, <2>5, <2>6, <2>7 DEF SettingsOnly
<1>3. Ownership' BY <1>1 DEF Ownership
<1>4. Fields' BY <1>1 DEF Fields, FieldsOf
<1>5. Reading' BY <1>1 DEF Reading
<1> QED BY <1>2, <1>3, <1>4, <1>5

(***************************************************************************)
(* The workers.                                                            *)
(***************************************************************************)

LEMMA CopyKeeps ==
  ASSUME IInv, NEW o \in Ops, Copy(o)
  PROVE  IInv'
<1> USE DEF IInv, Ops, ZteOps
<1>1. /\ worker[o] = "copy"
      /\ own' = [own EXCEPT ![o] = request[o]]
      /\ worker' = [worker EXCEPT ![o] = "dialog"]
      /\ UNCHANGED <<active, mailing, request, done, success, message, loop, subject, answer,
                     policy, safeMode, handle, stop, poll, stranded, started, saves>>
  BY DEF Copy, requests, handler, settings, polling, bounds
<1>2. TypeOK' BY <1>1 DEF TypeOK, WorkerSteps
<1>3. Ownership' BY <1>1 DEF Ownership, TypeOK, Running
<1>4. Fields' BY <1>1 DEF Fields, FieldsOf, TypeOK
<1>5. Reading' BY <1>1 DEF Reading
<1> QED BY <1>2, <1>3, <1>4, <1>5

LEMMA PublishKeeps ==
  ASSUME IInv, NEW o \in Ops, Publish(o)
  PROVE  IInv'
<1> USE DEF IInv, Ops, ZteOps
<1>1. /\ worker[o] \in {"dialog", "first", "second", "done"}
      /\ worker' = [worker EXCEPT ![o] = Following(worker[o])]
      /\ UNCHANGED <<active, mailing, request, own, loop, subject, answer, policy, safeMode,
                     handle, stop, poll, stranded, started, saves>>
  BY DEF Publish, handler, settings, polling, bounds
<1>2. /\ worker[o] = "dialog" => Following(worker[o]) = "first"
      /\ worker[o] = "first" => Following(worker[o]) = "second"
      /\ worker[o] = "second" => Following(worker[o]) = "done"
      /\ worker[o] = "done" => Following(worker[o]) = "release"
  BY DEF Following
<1>3. \/ success' = success
      \/ /\ worker[o] = (IF o = "mail" THEN "first" ELSE "second")
         /\ success' = [success EXCEPT ![o] = own[o]]
  BY DEF Publish
<1>4. worker[o] = (IF o = "mail" THEN "first" ELSE "second")
        => success' = [success EXCEPT ![o] = own[o]]
  BY DEF Publish
<1>5. \/ message' = message
      \/ /\ worker[o] = (IF o = "mail" THEN "second" ELSE "first")
         /\ message' = [message EXCEPT ![o] = own[o]]
  BY DEF Publish
<1>6. worker[o] = (IF o = "mail" THEN "second" ELSE "first")
        => message' = [message EXCEPT ![o] = own[o]]
  BY DEF Publish
<1>7. done' = IF worker[o] = "done" THEN [done EXCEPT ![o] = TRUE] ELSE done
  BY DEF Publish
<1>8. own[o] = started[o] /\ ~done[o] /\ request[o] = started[o]
  BY <1>1 DEF Fields, FieldsOf
<1>9. TypeOK'
  <2>1. worker' \in [Ops -> WorkerSteps] BY <1>1, <1>2 DEF TypeOK, WorkerSteps
  <2>2. success' \in [Ops -> Nat] BY <1>3 DEF TypeOK
  <2>3. message' \in [Ops -> Nat] BY <1>5 DEF TypeOK
  <2>4. done' \in [Ops -> BOOLEAN] BY <1>7 DEF TypeOK
  <2> QED BY <1>1, <2>1, <2>2, <2>3, <2>4 DEF TypeOK
<1>10. \A p \in Ops : (worker'[p] # "none") = (worker[p] # "none")
  BY <1>1, <1>2 DEF TypeOK
<1>11. Ownership'
  BY <1>1, <1>7, <1>10 DEF Ownership, TypeOK, Running
<1>12. \A p \in Ops \ {o} : /\ worker'[p] = worker[p] /\ success'[p] = success[p]
                            /\ message'[p] = message[p] /\ done'[p] = done[p]
  BY <1>1, <1>3, <1>5, <1>7 DEF TypeOK
<1>13. Fields'
  <2> SUFFICES ASSUME NEW p \in Ops PROVE FieldsOf(p)'
    BY DEF Fields
  <2>1. FieldsOf(p) BY DEF Fields
  <2>2. CASE p # o
    <3>1. p \in Ops \ {o} BY <2>2
    <3> QED BY <1>1, <1>12, <2>1, <3>1 DEF FieldsOf
  <2>3. CASE p = o
    <3>1. worker'[o] = Following(worker[o]) BY <1>1 DEF TypeOK
    <3>2. CASE worker[o] = "dialog"
      BY <1>1, <1>2, <1>7, <1>8, <2>3, <3>1, <3>2 DEF FieldsOf
    <3>3. CASE worker[o] = "first"
      <4>1. o = "mail" => success'[o] = started[o] BY <1>4, <1>8, <3>3 DEF TypeOK
      <4>2. o # "mail" => message'[o] = started[o] BY <1>6, <1>8, <3>3 DEF TypeOK
      <4> QED BY <1>1, <1>2, <1>7, <1>8, <2>3, <3>1, <3>3, <4>1, <4>2 DEF FieldsOf
    <3>4. CASE worker[o] = "second"
      <4>1. o = "mail" => /\ success[o] = started[o] /\ success' = success
                          /\ message'[o] = started[o]
        BY <1>3, <1>6, <1>8, <2>1, <2>3, <3>4 DEF FieldsOf, TypeOK
      <4>2. o # "mail" => /\ message[o] = started[o] /\ message' = message
                          /\ success'[o] = started[o]
        BY <1>4, <1>5, <1>8, <2>1, <2>3, <3>4 DEF FieldsOf, TypeOK
      <4> QED BY <1>1, <1>2, <1>7, <1>8, <2>3, <3>1, <3>4, <4>1, <4>2 DEF FieldsOf
    <3>5. CASE worker[o] = "done"
      <4>1. success' = success /\ message' = message BY <1>3, <1>5, <3>5
      <4>2. success[o] = started[o] /\ message[o] = started[o]
        BY <2>1, <2>3, <3>5 DEF FieldsOf
      <4> QED BY <1>1, <1>2, <1>7, <1>8, <2>3, <3>1, <3>5, <4>1, <4>2 DEF FieldsOf
    <3> QED BY <1>1, <3>2, <3>3, <3>4, <3>5
  <2> QED BY <2>2, <2>3
<1>14. Reading'
  <2>1. done[subject] => /\ done'[subject]
                         /\ success'[subject] = success[subject]
                         /\ message'[subject] = message[subject]
    BY <1>7, <1>8, <1>12 DEF TypeOK
  <2> QED BY <1>1, <2>1 DEF Reading
<1> QED BY <1>9, <1>11, <1>13, <1>14

LEMMA FinishKeeps ==
  ASSUME IInv, NEW o \in Ops, Finish(o)
  PROVE  IInv'
<1> USE DEF IInv, Ops, ZteOps
<1>1. /\ worker[o] = "release"
      /\ worker' = [worker EXCEPT ![o] = "none"]
      /\ UNCHANGED <<request, done, success, message, own, loop, subject, answer, policy,
                     safeMode, handle, stop, poll, stranded, started, saves>>
  BY DEF Finish, Finished, handler, settings, polling, bounds
<1>2. /\ o = "mail" => mailing' = FALSE /\ active' = active
      /\ o # "mail" => active = o /\ active' = "none" /\ mailing' = mailing
  BY <1>1 DEF Finish, Release, Ownership
<1>3. TypeOK'
  <2>1. active' \in {"none", "poll"} \cup ZteOps BY <1>2 DEF TypeOK
  <2>2. mailing' \in BOOLEAN BY <1>2 DEF TypeOK
  <2>3. worker' \in [Ops -> WorkerSteps] BY <1>1 DEF TypeOK, WorkerSteps
  <2> QED BY <1>1, <2>1, <2>2, <2>3 DEF TypeOK
<1>4. Ownership' BY <1>1, <1>2 DEF Ownership, TypeOK, Running
<1>5. Fields' BY <1>1 DEF Fields, FieldsOf, TypeOK
<1>6. Reading' BY <1>1 DEF Reading
<1> QED BY <1>3, <1>4, <1>5, <1>6

(***************************************************************************)
(* The poll task.                                                          *)
(***************************************************************************)

LEMMA PollTaskKeeps ==
  ASSUME IInv, PollTask
  PROVE  IInv'
<1> USE DEF IInv, Ops, ZteOps
<1>1. /\ UNCHANGED <<mailing, request, done, success, message, worker, own, loop, subject,
                     answer, policy, safeMode, stop, stranded, started, saves>>
  BY DEF PollTask, PollBegin, PollEnd, PollNext, PollStops, PollExits, Release,
         requests, workers, handler, settings, bounds
<1>2. CASE PollBegin
  <2>1. active = "none" /\ active' = "poll" /\ poll' = "cycle" /\ handle' = handle
    BY <1>2 DEF PollBegin
  <2> QED BY <1>1, <2>1 DEF TypeOK, Ownership, Running, Fields, FieldsOf, Reading
<1>3. CASE PollEnd
  <2>1. /\ active = "poll" /\ active' = "none" /\ poll' = "sleep" /\ handle' = handle
    BY <1>3 DEF PollEnd, Release, Ownership
  <2> QED BY <1>1, <2>1 DEF TypeOK, Ownership, Running, Fields, FieldsOf, Reading
<1>4. CASE PollNext \/ PollStops \/ PollExits
  <2>1. /\ active' = active /\ poll' \in {"top", "exit", "none"} /\ handle' \in BOOLEAN
    BY <1>4 DEF PollNext, PollStops, PollExits, requests, TypeOK
  <2> QED BY <1>1, <2>1 DEF TypeOK, Ownership, Running, Fields, FieldsOf, Reading
<1> QED BY <1>2, <1>3, <1>4 DEF PollTask

(***************************************************************************)
(* The theorems.                                                           *)
(***************************************************************************)

LEMMA StepKeeps ==
  ASSUME IInv, [Next]_vars
  PROVE  IInv'
<1>1. CASE Start BY <1>1, StartKeeps
<1>2. CASE CreateWorker \/ CreateWorkerFails BY <1>2, CreateKeeps
<1>3. CASE HandlerOnly BY <1>3, HandlerKeeps
<1>4. CASE SettingsOnly BY <1>4, SettingsKeep
<1>5. ASSUME NEW o \in Ops, Worker(o) PROVE IInv'
  BY <1>5, CopyKeeps, PublishKeeps, FinishKeeps DEF Worker
<1>6. CASE PollTask BY <1>6, PollTaskKeeps
<1>7. CASE UNCHANGED vars
  BY <1>7 DEF IInv, TypeOK, Ownership, Running, Fields, FieldsOf, Reading, vars, requests,
              workers, handler, settings, polling, bounds
<1> QED BY <1>1, <1>2, <1>3, <1>4, <1>5, <1>6, <1>7
        DEF Next, Handler, HandlerOnly, SettingsOnly

\* Types, the owners of the reservations, the fields of every operation and what
\* a status handler has read of them, in every reachable state.
THEOREM InductiveInvariant == Spec => []IInv
BY InitEstablishes, StepKeeps, PTL DEF Spec

\* The ZTE modem is in at most one dialog, and the reservation names it.
THEOREM DialogsDoNotOverlap == Spec => []OneDialog
<1>1. IInv => OneDialog BY DEF IInv, Ownership, OneDialog, Dialogs, ZteOps
<1> QED BY <1>1, InductiveInvariant, PTL

\* A status that says done comes with the result and the text of the request
\* accepted last, though the handler reads them one by one while workers write.
THEOREM AnswersAreWhole == Spec => []AnswerIsWhole
<1>1. IInv => AnswerIsWhole BY DEF IInv, Reading, AnswerIsWhole
<1> QED BY <1>1, InductiveInvariant, PTL

\* A worker carries out the request that started it.
THEOREM WorkersHaveTheirRequests == Spec => []WorkerHasItsRequest
<1>1. IInv => WorkerHasItsRequest BY DEF IInv, Fields, FieldsOf, WorkerHasItsRequest
<1> QED BY <1>1, InductiveInvariant, PTL

\* A stop flag that is still set belongs to a sync that waits, or to one that
\* gave up or started a task under the flag of an earlier wait.
THEOREM StopFlagsAreExplained == Spec => []StopFlagExplained
<1>1. Init => StopFlagExplained BY DEF Init, StopFlagExplained
<1>2. ASSUME IInv, StopFlagExplained, [Next]_vars PROVE StopFlagExplained'
  <2> USE DEF StopFlagExplained
  <2>1. CASE UNCHANGED <<stop, stranded>> /\ (loop = "stopWait" => loop' = "stopWait")
    BY <1>2, <2>1
  <2>2. CASE SyncStop BY <1>2, <2>2 DEF SyncStop, IInv, TypeOK
  <2>3. CASE SyncStopped BY <2>3 DEF SyncStopped, ClearedStop
  <2>4. CASE SyncTimeout BY <2>4 DEF SyncTimeout
  <2>5. CASE SyncCreate BY <1>2, <2>5 DEF SyncCreate, IInv, TypeOK
  <2>6. Next /\ ~SyncStop /\ ~SyncStopped /\ ~SyncTimeout /\ ~SyncCreate =>
          UNCHANGED <<stop, stranded>> /\ (loop = "stopWait" => loop' = "stopWait")
    BY DEF Next, Handler, Worker, PollTask, Ask, ReadRunning, Start, StartRefused, CreateWorker,
           CreateWorkerFails, ReadDone, ReadResult, ReadMessage, Reply, SyncEnd, Save,
           LeaveSafeMode, Copy, Publish, Finish, PollBegin, PollEnd, PollNext, PollStops,
           PollExits, polling, handler
  <2> QED BY <1>2, <2>1, <2>2, <2>3, <2>4, <2>5, <2>6 DEF vars, handler, polling
<1> QED BY <1>1, <1>2, InductiveInvariant, PTL DEF Spec
=============================================================================
