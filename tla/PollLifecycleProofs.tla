------------------------- MODULE PollLifecycleProofs -------------------------
(***************************************************************************)
(* Three facts about the tasks that share Serial1, for any number of poll  *)
(* and send tasks and all faults: AT dialogs never interleave, Serial1     *)
(* runs as long as the modem poll task uses it, and one save or one send   *)
(* leaves every live poll task the one its service's handle names.         *)
(***************************************************************************)
EXTENDS PollLifecycle, TLAPS

(***************************************************************************)
(* Every step keeps the types.                                             *)
(***************************************************************************)

LEMMA TransportTypes ==
  ASSUME TypeOK, NEW x \in Users, TransportStep(x)
  PROVE  TypeOK'
<1>1. /\ refs' \in Nat /\ active' \in BOOLEAN /\ uart' \in BOOLEAN /\ seen' \in [Users -> Nat]
      /\ started' \in [Users -> BOOLEAN]
      /\ call' \in [Users -> {"none", "test", "open", "activate", "load", "store", "loadDown",
                              "storeDown", "look", "ask", "close", "clear"}]
      /\ \A y \in Users : call'[y] = "storeDown" => seen'[y] > 0
  <2> USE DEF TypeOK, CallStep, counted
  <2>1. CASE TestActive(x) BY <2>1 DEF TestActive
  <2>2. CASE OpenUart(x) BY <2>2 DEF OpenUart
  <2>3. CASE SetActive(x) BY <2>3 DEF SetActive
  <2>4. CASE LoadCount(x) BY <2>4 DEF LoadCount
  <2>5. CASE StoreUp(x) BY <2>5 DEF StoreUp
  <2>6. CASE StoreDown(x) BY <2>6 DEF StoreDown
  <2>7. CASE LookAtCount(x) BY <2>7 DEF LookAtCount
  <2>8. CASE AskActive(x) BY <2>8 DEF AskActive
  <2>9. CASE CloseUart(x) BY <2>9 DEF CloseUart
  <2>10. CASE ClearActive(x) BY <2>10 DEF ClearActive
  <2> QED BY <2>1, <2>2, <2>3, <2>4, <2>5, <2>6, <2>7, <2>8, <2>9, <2>10 DEF TransportStep
<1>2. UNCHANGED <<control, mode, lock, tasks, actors, doubled>>
  BY DEF TransportStep
<1> QED BY <1>1, <1>2 DEF TypeOK, control, tasks, actors

LEMMA TaskTypes ==
  ASSUME TypeOK, NEW t \in Tasks, TaskStep(t)
  PROVE  TypeOK'
<1>0. t \in Users BY DEF Users
<1> USE LifecycleAssumption, <1>0
    DEF TypeOK, vars, control, tasks, actors, serial, counted, Step, CallStep, BeginUart, EndUart
<1>1. CASE Start(t) BY <1>1 DEF Start
<1>2. CASE TryInit(t) BY <1>2 DEF TryInit
<1>3. CASE InitLocked(t) BY <1>3 DEF InitLocked, Take
<1>4. CASE InitLockTimeout(t) BY <1>4 DEF InitLockTimeout
<1>5. CASE InitDone(t) BY <1>5 DEF InitDone, Give
<1>6. CASE Leave(t) BY <1>6 DEF Leave
<1>7. CASE WantPoll(t) BY <1>7 DEF WantPoll
<1>8. CASE PollLocked(t)
  <2>1. CASE svc[t] = "gps" BY <1>8, <2>1 DEF PollLocked, Take
  <2>2. CASE svc[t] # "gps" BY <1>8, <2>2 DEF PollLocked, Take
  <2> QED BY <2>1, <2>2
<1>9. CASE PollLockTimeout(t) BY <1>9 DEF PollLockTimeout
<1>10. CASE BeginCycle(t) BY <1>10 DEF BeginCycle
<1>11. CASE EndCycle(t) BY <1>11 DEF EndCycle
<1>12. CASE PollDone(t) BY <1>12 DEF PollDone
<1>13. CASE GiveLock(t) BY <1>13 DEF GiveLock, Give
<1>14. CASE TransportStep(t) BY <1>14, TransportTypes
<1>15. CASE Exit(t) BY <1>15 DEF Exit
<1> QED BY <1>1, <1>2, <1>3, <1>4, <1>5, <1>6, <1>7, <1>8, <1>9, <1>10, <1>11, <1>12,
           <1>13, <1>14, <1>15 DEF TaskStep

LEMMA SyncTypes ==
  ASSUME TypeOK, NEW a \in Actors, SyncStep(a)
  PROVE  TypeOK'
<1> USE LifecycleAssumption
    DEF TypeOK, vars, control, tasks, actors, serial, counted, At, Goto, Move, EndSync
<1>1. CASE Sync(a) BY ZenonT(30), <1>1 DEF Sync
<1>2. CASE SyncStopped(a) BY <1>2 DEF SyncStopped
<1>3. CASE SyncTimeout(a) BY <1>3 DEF SyncTimeout
<1>4. CASE Create(a)
  <2>1. PICK t \in Tasks : /\ tpc' = [tpc EXCEPT ![t] = "born"]
                           /\ svc' = [svc EXCEPT ![t] = target[a]]
                           /\ handle' = [handle EXCEPT ![target[a]] = t]
    BY <1>4 DEF Create
  <2>2. apc' = [apc EXCEPT ![a] = "ready"] /\ target' = [target EXCEPT ![a] = None]
        /\ UNCHANGED <<stop, mode, lock, cycling, clean, sending, booting, saves, sends,
                        refs, active, uart, seen, started, call>>
        /\ doubled' \in BOOLEAN
    BY <1>4 DEF Create
  <2> QED BY <2>1, <2>2
<1>5. CASE CreateFails(a) BY <1>5 DEF CreateFails
<1> QED BY <1>1, <1>2, <1>3, <1>4, <1>5 DEF SyncStep

LEMMA LoopTypes ==
  ASSUME TypeOK,
         \/ LoopStep
         \/ \E s \in Services, m \in Modes : SaveSettings(s, m)
  PROVE  TypeOK'
<1> USE LifecycleAssumption
    DEF TypeOK, vars, control, tasks, actors, serial, counted, At, Goto, Move, StartSync, Actors
<1>1. CASE \E s \in Services : Boot(s) BY <1>1 DEF Boot
<1>2. CASE \E s \in Services, m \in Modes : SaveSettings(s, m)
  BY <1>2 DEF SaveSettings
<1>3. CASE GateSend BY <1>3 DEF GateSend
<1>4. CASE RefuseSend BY <1>4 DEF RefuseSend
<1>5. CASE \E a \in Senders : AcceptSend(a)
  <2>1. PICK a \in Senders : AcceptSend(a) BY <1>5
  <2>2. apc' \in [Actors -> {"ready", "accept", "stop", "stopWait", "lock", "dialog",
                             "give", "publish", "sync", "syncWait", "create"}]
    BY <2>1 DEF AcceptSend
  <2>3. clean' \in [Senders -> BOOLEAN]
    BY <2>1 DEF AcceptSend
  <2>4. UNCHANGED <<handle, stop, mode, lock, tpc, svc, cycling, target, booting, saves,
                    refs, active, uart,
                    seen, started, call, doubled>>
        /\ sending' = TRUE /\ sends' = sends + 1 /\ sends < MaxSends
    BY <2>1 DEF AcceptSend
  <2> QED BY <2>2, <2>3, <2>4
<1>6. CASE SyncStep(Loop) BY <1>6, SyncTypes DEF Actors
<1> QED BY <1>1, <1>2, <1>3, <1>4, <1>5, <1>6 DEF LoopStep

LEMMA SendTypes ==
  ASSUME TypeOK, NEW a \in Senders, SendStep(a)
  PROVE  TypeOK'
<1> USE LifecycleAssumption
    DEF TypeOK, vars, control, tasks, actors, serial, counted, At, Goto, Move, SendRest, Actors
<1>1. CASE SendNoMemory(a) BY <1>1 DEF SendNoMemory
<1>2. CASE StopPoll(a) BY ZenonT(30), <1>2 DEF StopPoll
<1>3. CASE PollStopped(a) BY <1>3 DEF PollStopped
<1>4. CASE StopPollTimeout(a) BY <1>4 DEF StopPollTimeout
<1>5. CASE SendLocked(a) BY <1>5 DEF SendLocked, Take, BeginUart, CallStep, Users
<1>6. CASE SendLockTimeout(a) BY <1>6 DEF SendLockTimeout
<1>7. CASE SendDone(a) BY <1>7 DEF SendDone, EndUart, CallStep, Users
<1>8. CASE TransportStep(a) BY <1>8, TransportTypes DEF Users
<1>9. CASE GiveSendLock(a) BY <1>9 DEF GiveSendLock, Give
<1>10. CASE Publish(a)
  <2>1. target' \in [Actors -> Services \cup {None}] BY <1>10 DEF Publish
  <2>2. apc' \in [Actors -> {"ready", "accept", "stop", "stopWait", "lock", "dialog",
                             "give", "publish", "sync", "syncWait", "create"}]
    BY <1>10 DEF Publish
  <2>3. UNCHANGED <<handle, stop, mode, lock, tpc, svc, cycling, clean, booting, saves,
                    sends, refs, active, uart,
                    seen, started, call, doubled>>
        /\ sending' = FALSE
    BY <1>10 DEF Publish
  <2> QED BY <2>1, <2>2, <2>3
<1>11. CASE SyncStep(a) BY <1>11, SyncTypes DEF Actors
<1> QED BY <1>1, <1>2, <1>3, <1>4, <1>5, <1>6, <1>7, <1>8, <1>9, <1>10, <1>11
        DEF SendStep

LEMMA NextTypes ==
  ASSUME TypeOK, [Next]_vars
  PROVE  TypeOK'
<1>1. CASE UNCHANGED vars
  BY <1>1 DEF TypeOK, vars, control, tasks, actors, serial, counted
<1> QED BY <1>1, TaskTypes, LoopTypes, SendTypes DEF Next

(***************************************************************************)
(* Lock ownership.  Only the step of a poll task or a send task that takes *)
(* or gives the lock disturbs it.                                          *)
(***************************************************************************)

LEMMA TaskLock ==
  ASSUME TypeOK, LockIsHeld, NEW t \in Tasks, TaskStep(t)
  PROVE  LockIsHeld'
<1> USE LifecycleAssumption
    DEF TypeOK, LockIsHeld, TaskOwns, TaskDialog, SenderOwns, control, tasks, actors, serial,
        Step
<1>1. CASE Start(t) BY <1>1 DEF Start
<1>2. CASE TryInit(t) BY <1>2 DEF TryInit
<1>3. CASE InitLocked(t) BY <1>3 DEF InitLocked, Take
<1>4. CASE InitLockTimeout(t) BY <1>4 DEF InitLockTimeout
<1>5. CASE InitDone(t) BY <1>5 DEF InitDone, Give
<1>6. CASE Leave(t) BY <1>6 DEF Leave
<1>7. CASE WantPoll(t) BY <1>7 DEF WantPoll
<1>8. CASE PollLocked(t) BY <1>8 DEF PollLocked, Take
<1>9. CASE PollLockTimeout(t) BY <1>9 DEF PollLockTimeout
<1>10. CASE BeginCycle(t) BY <1>10 DEF BeginCycle
<1>11. CASE EndCycle(t) BY <1>11 DEF EndCycle
<1>12. CASE PollDone(t) BY <1>12 DEF PollDone
<1>13. CASE GiveLock(t) BY <1>13 DEF GiveLock, Give
<1>14. CASE TransportStep(t) BY <1>14 DEF TransportStep, tasks
<1>15. CASE Exit(t) BY <1>15 DEF Exit
<1> QED BY <1>1, <1>2, <1>3, <1>4, <1>5, <1>6, <1>7, <1>8, <1>9, <1>10, <1>11, <1>12,
           <1>13, <1>14, <1>15 DEF TaskStep

LEMMA SyncLock ==
  ASSUME TypeOK, LockIsHeld, NEW a \in Actors, SyncStep(a)
  PROVE  LockIsHeld'
<1> USE LifecycleAssumption
    DEF TypeOK, LockIsHeld, TaskOwns, TaskDialog, SenderOwns, Actors, control, tasks, actors,
        serial, At, Goto, Move, EndSync
<1>1. CASE Sync(a) BY <1>1 DEF Sync
<1>2. CASE SyncStopped(a) BY <1>2 DEF SyncStopped
<1>3. CASE SyncTimeout(a) BY <1>3 DEF SyncTimeout
<1>4. CASE Create(a) BY <1>4 DEF Create
<1>5. CASE CreateFails(a) BY <1>5 DEF CreateFails
<1> QED BY <1>1, <1>2, <1>3, <1>4, <1>5 DEF SyncStep

LEMMA LoopLock ==
  ASSUME TypeOK, LockIsHeld,
         \/ LoopStep
         \/ \E s \in Services, m \in Modes : SaveSettings(s, m)
  PROVE  LockIsHeld'
<1> USE LifecycleAssumption
    DEF TypeOK, LockIsHeld, TaskOwns, TaskDialog, SenderOwns, Actors, control, tasks, actors,
        serial, At, Goto, Move, StartSync
<1>1. CASE \E s \in Services : Boot(s) BY <1>1 DEF Boot
<1>2. CASE \E s \in Services, m \in Modes : SaveSettings(s, m)
  BY <1>2 DEF SaveSettings
<1>3. CASE GateSend BY <1>3 DEF GateSend
<1>4. CASE RefuseSend BY <1>4 DEF RefuseSend
<1>5. CASE \E a \in Senders : AcceptSend(a) BY <1>5 DEF AcceptSend
<1>6. CASE SyncStep(Loop) BY <1>6, SyncLock DEF Actors
<1> QED BY <1>1, <1>2, <1>3, <1>4, <1>5, <1>6 DEF LoopStep

LEMMA SendLock ==
  ASSUME TypeOK, LockIsHeld, NEW a \in Senders, SendStep(a)
  PROVE  LockIsHeld'
<1> USE LifecycleAssumption
    DEF TypeOK, LockIsHeld, TaskOwns, TaskDialog, SenderOwns, Actors, control, tasks, actors,
        serial, At, Goto, Move, SendRest
<1>1. CASE SendNoMemory(a) BY <1>1 DEF SendNoMemory
<1>2. CASE StopPoll(a) BY <1>2 DEF StopPoll
<1>3. CASE PollStopped(a) BY <1>3 DEF PollStopped
<1>4. CASE StopPollTimeout(a) BY <1>4 DEF StopPollTimeout
<1>5. CASE SendLocked(a) BY <1>5 DEF SendLocked, Take
<1>6. CASE SendLockTimeout(a) BY <1>6 DEF SendLockTimeout
<1>7. CASE SendDone(a) BY <1>7 DEF SendDone
<1>8. CASE TransportStep(a) BY <1>8 DEF TransportStep, tasks, actors
<1>9. CASE GiveSendLock(a) BY <1>9 DEF GiveSendLock, Give
<1>10. CASE Publish(a) BY <1>10 DEF Publish
<1>11. CASE SyncStep(a) BY <1>11, SyncLock DEF Actors
<1> QED BY <1>1, <1>2, <1>3, <1>4, <1>5, <1>6, <1>7, <1>8, <1>9, <1>10, <1>11
        DEF SendStep

LEMMA NextLock ==
  ASSUME TypeOK, LockIsHeld, [Next]_vars
  PROVE  LockIsHeld'
<1>1. CASE UNCHANGED vars
  BY <1>1 DEF LockIsHeld, TaskOwns, vars, control, tasks, actors, serial
<1> QED BY <1>1, TaskLock, LoopLock, SendLock DEF Next

(***************************************************************************)
(* What tasks and synchronisations are about.                              *)
(***************************************************************************)

LEMMA TaskInits ==
  ASSUME TypeOK, ServicesAreKnown, NEW t \in Tasks, TaskStep(t)
  PROVE  ServicesAreKnown'
<1> USE LifecycleAssumption DEF TypeOK, ServicesAreKnown, actors, Step
<1>1. CASE Start(t) BY <1>1 DEF Start
<1>2. CASE TryInit(t) BY <1>2 DEF TryInit
<1>3. CASE InitLocked(t) BY <1>3 DEF InitLocked
<1>4. CASE InitLockTimeout(t) BY <1>4 DEF InitLockTimeout
<1>5. CASE InitDone(t) BY <1>5 DEF InitDone
<1>6. CASE Leave(t) BY <1>6 DEF Leave
<1>7. CASE WantPoll(t) BY <1>7 DEF WantPoll
<1>8. CASE PollLocked(t) BY <1>8 DEF PollLocked
<1>9. CASE PollLockTimeout(t) BY <1>9 DEF PollLockTimeout
<1>10. CASE BeginCycle(t) BY <1>10 DEF BeginCycle
<1>11. CASE EndCycle(t) BY <1>11 DEF EndCycle
<1>12. CASE PollDone(t) BY <1>12 DEF PollDone
<1>13. CASE GiveLock(t) BY <1>13 DEF GiveLock
<1>14. CASE TransportStep(t) BY <1>14 DEF TransportStep, tasks
<1>15. CASE Exit(t) BY <1>15 DEF Exit
<1> QED BY <1>1, <1>2, <1>3, <1>4, <1>5, <1>6, <1>7, <1>8, <1>9, <1>10, <1>11, <1>12,
           <1>13, <1>14, <1>15 DEF TaskStep

LEMMA SyncInits ==
  ASSUME TypeOK, ServicesAreKnown, NEW a \in Actors, SyncStep(a)
  PROVE  ServicesAreKnown'
<1> USE LifecycleAssumption DEF TypeOK, ServicesAreKnown, tasks, At, Goto, Move, EndSync
<1>1. CASE Sync(a) BY <1>1 DEF Sync
<1>2. CASE SyncStopped(a) BY <1>2 DEF SyncStopped
<1>3. CASE SyncTimeout(a) BY <1>3 DEF SyncTimeout
<1>4. CASE Create(a) BY <1>4 DEF Create
<1>5. CASE CreateFails(a) BY <1>5 DEF CreateFails
<1> QED BY <1>1, <1>2, <1>3, <1>4, <1>5 DEF SyncStep

LEMMA LoopInits ==
  ASSUME TypeOK, ServicesAreKnown,
         \/ LoopStep
         \/ \E s \in Services, m \in Modes : SaveSettings(s, m)
  PROVE  ServicesAreKnown'
<1> USE DEF TypeOK, ServicesAreKnown, Actors, tasks, At, Goto, Move, StartSync
<1>1. CASE \E s \in Services : Boot(s) BY <1>1 DEF Boot
<1>2. CASE \E s \in Services, m \in Modes : SaveSettings(s, m)
  BY <1>2 DEF SaveSettings
<1>3. CASE GateSend BY <1>3 DEF GateSend
<1>4. CASE RefuseSend BY <1>4 DEF RefuseSend
<1>5. CASE \E a \in Senders : AcceptSend(a) BY <1>5 DEF AcceptSend
<1>6. CASE SyncStep(Loop) BY <1>6, SyncInits DEF Actors
<1> QED BY <1>1, <1>2, <1>3, <1>4, <1>5, <1>6 DEF LoopStep

LEMMA SendInits ==
  ASSUME TypeOK, ServicesAreKnown, NEW a \in Senders, SendStep(a)
  PROVE  ServicesAreKnown'
<1> USE LifecycleAssumption
    DEF TypeOK, ServicesAreKnown, Actors, tasks, At, Goto, Move, SendRest
<1>1. CASE SendNoMemory(a) BY <1>1 DEF SendNoMemory
<1>2. CASE StopPoll(a) BY <1>2 DEF StopPoll
<1>3. CASE PollStopped(a) BY <1>3 DEF PollStopped
<1>4. CASE StopPollTimeout(a) BY <1>4 DEF StopPollTimeout
<1>5. CASE SendLocked(a) BY <1>5 DEF SendLocked
<1>6. CASE SendLockTimeout(a) BY <1>6 DEF SendLockTimeout
<1>7. CASE SendDone(a) BY <1>7 DEF SendDone
<1>8. CASE TransportStep(a) BY <1>8 DEF TransportStep, tasks, actors
<1>9. CASE GiveSendLock(a) BY <1>9 DEF GiveSendLock
<1>10. CASE Publish(a) BY <1>10 DEF Publish
<1>11. CASE SyncStep(a) BY <1>11, SyncInits DEF Actors
<1> QED BY <1>1, <1>2, <1>3, <1>4, <1>5, <1>6, <1>7, <1>8, <1>9, <1>10, <1>11
        DEF SendStep

LEMMA NextInits ==
  ASSUME TypeOK, ServicesAreKnown, [Next]_vars
  PROVE  ServicesAreKnown'
<1>1. CASE UNCHANGED vars
  BY <1>1 DEF ServicesAreKnown, vars, tasks, actors
<1> QED BY <1>1, TaskInits, LoopInits, SendInits DEF Next

(***************************************************************************)
(* Where a transport is begun and ended.                                   *)
(***************************************************************************)

LEMMA TransportPlaced ==
  ASSUME TypeOK, CallsArePlaced, NEW x \in Users, TransportStep(x)
  PROVE  CallsArePlaced'
<1>0. UNCHANGED <<tpc, svc, apc>>
  BY DEF TransportStep, tasks, actors
<1> USE <1>0 DEF TypeOK, CallsArePlaced, CallStep, CallDone, Beginning, Ending, counted, Users,
                 TaskOwns, TaskDialog
<1>1. CASE TestActive(x) BY <1>1 DEF TestActive
<1>2. CASE OpenUart(x) BY <1>2 DEF OpenUart
<1>3. CASE SetActive(x) BY <1>3 DEF SetActive
<1>4. CASE LoadCount(x) BY <1>4 DEF LoadCount
<1>5. CASE StoreUp(x) BY <1>5 DEF StoreUp
<1>6. CASE StoreDown(x) BY <1>6 DEF StoreDown
<1>7. CASE LookAtCount(x) BY <1>7 DEF LookAtCount
<1>8. CASE AskActive(x) BY <1>8 DEF AskActive
<1>9. CASE CloseUart(x) BY <1>9 DEF CloseUart
<1>10. CASE ClearActive(x) BY <1>10 DEF ClearActive
<1> QED BY <1>1, <1>2, <1>3, <1>4, <1>5, <1>6, <1>7, <1>8, <1>9,
           <1>10 DEF TransportStep

LEMMA LiveService ==
  ASSUME TypeOK, ServicesAreKnown, NEW t \in Tasks, tpc[t] # "dead"
  PROVE  svc[t] = "gps" \/ svc[t] = "modem"
BY LifecycleAssumption DEF TypeOK, ServicesAreKnown

LEMMA TaskPlaced ==
  ASSUME TypeOK, ServicesAreKnown, CallsArePlaced, NEW t \in Tasks, TaskStep(t)
  PROVE  CallsArePlaced'
<1> USE LifecycleAssumption
    DEF TypeOK, ServicesAreKnown, CallsArePlaced, CallStep, CallDone, Beginning, Ending, counted,
        Users, serial, actors, Step, TaskOwns, TaskDialog, BeginUart, EndUart
<1>1. CASE Start(t) BY <1>1 DEF Start
<1>2. CASE TryInit(t) BY <1>2 DEF TryInit
<1>3. CASE InitLocked(t) BY <1>3 DEF InitLocked
<1>4. CASE InitLockTimeout(t) BY <1>4 DEF InitLockTimeout
<1>5. CASE InitDone(t) BY <1>5 DEF InitDone
<1>6. CASE Leave(t) BY <1>6 DEF Leave
<1>7. CASE WantPoll(t) BY <1>7 DEF WantPoll
<1>8. CASE PollLocked(t)
  <2>1. CASE svc[t] = "gps" BY <1>8, <2>1 DEF PollLocked
  <2>2. CASE svc[t] = "modem" BY <1>8, <2>2 DEF PollLocked
  <2>3. svc[t] = "gps" \/ svc[t] = "modem" BY <1>8, LiveService DEF PollLocked
  <2> QED BY <2>1, <2>2, <2>3
<1>9. CASE PollLockTimeout(t) BY <1>9 DEF PollLockTimeout
<1>10. CASE BeginCycle(t) BY <1>10 DEF BeginCycle
<1>11. CASE EndCycle(t) BY <1>11 DEF EndCycle
<1>12. CASE PollDone(t)
  <2>1. CASE svc[t] = "gps" BY <1>12, <2>1 DEF PollDone
  <2>2. CASE svc[t] = "modem" BY <1>12, <2>2 DEF PollDone
  <2>3. svc[t] = "gps" \/ svc[t] = "modem" BY <1>12, LiveService DEF PollDone
  <2> QED BY <2>1, <2>2, <2>3
<1>13. CASE GiveLock(t) BY <1>13 DEF GiveLock
<1>14. CASE TransportStep(t) BY <1>14, TransportPlaced
<1>15. CASE Exit(t) BY <1>15 DEF Exit
<1> QED BY <1>1, <1>2, <1>3, <1>4, <1>5, <1>6, <1>7, <1>8, <1>9, <1>10, <1>11, <1>12,
           <1>13, <1>14, <1>15 DEF TaskStep

LEMMA SyncPlaced ==
  ASSUME TypeOK, ServicesAreKnown, CallsArePlaced, NEW a \in Actors, SyncStep(a)
  PROVE  CallsArePlaced'
<1> USE LifecycleAssumption
    DEF TypeOK, ServicesAreKnown, CallsArePlaced, CallDone, Beginning, Ending, counted, Users,
        Actors, serial, tasks, At, Goto, Move, EndSync, TaskOwns, TaskDialog
<1>1. CASE Sync(a) BY <1>1 DEF Sync
<1>2. CASE SyncStopped(a) BY <1>2 DEF SyncStopped
<1>3. CASE SyncTimeout(a) BY <1>3 DEF SyncTimeout
<1>4. CASE Create(a) BY <1>4 DEF Create
<1>5. CASE CreateFails(a) BY <1>5 DEF CreateFails
<1> QED BY <1>1, <1>2, <1>3, <1>4, <1>5 DEF SyncStep

LEMMA LoopPlaced ==
  ASSUME TypeOK, ServicesAreKnown, CallsArePlaced,
         \/ LoopStep
         \/ \E s \in Services, m \in Modes : SaveSettings(s, m)
  PROVE  CallsArePlaced'
<1> USE LifecycleAssumption
    DEF TypeOK, CallsArePlaced, CallDone, Beginning, Ending, counted, Users, Actors, serial,
        tasks, At, Goto, Move, StartSync
<1>1. CASE \E s \in Services : Boot(s) BY <1>1 DEF Boot
<1>2. CASE \E s \in Services, m \in Modes : SaveSettings(s, m)
  BY <1>2 DEF SaveSettings
<1>3. CASE GateSend BY <1>3 DEF GateSend
<1>4. CASE RefuseSend BY <1>4 DEF RefuseSend
<1>5. CASE \E a \in Senders : AcceptSend(a) BY <1>5 DEF AcceptSend
<1>6. CASE SyncStep(Loop) BY <1>6, SyncPlaced DEF Actors
<1> QED BY <1>1, <1>2, <1>3, <1>4, <1>5, <1>6 DEF LoopStep

LEMMA SendPlaced ==
  ASSUME TypeOK, ServicesAreKnown, CallsArePlaced, NEW a \in Senders, SendStep(a)
  PROVE  CallsArePlaced'
<1> USE LifecycleAssumption
    DEF TypeOK, CallsArePlaced, CallStep, CallDone, Beginning, Ending, counted, Users, Actors,
        serial, tasks, At, Goto, Move, SendRest, BeginUart, EndUart
<1>1. CASE SendNoMemory(a) BY <1>1 DEF SendNoMemory
<1>2. CASE StopPoll(a) BY <1>2 DEF StopPoll
<1>3. CASE PollStopped(a) BY <1>3 DEF PollStopped
<1>4. CASE StopPollTimeout(a) BY <1>4 DEF StopPollTimeout
<1>5. CASE SendLocked(a) BY <1>5 DEF SendLocked
<1>6. CASE SendLockTimeout(a) BY <1>6 DEF SendLockTimeout
<1>7. CASE SendDone(a) BY <1>7 DEF SendDone
<1>8. CASE TransportStep(a) BY <1>8, TransportPlaced
<1>9. CASE GiveSendLock(a) BY <1>9 DEF GiveSendLock
<1>10. CASE Publish(a) BY <1>10 DEF Publish
<1>11. CASE SyncStep(a) BY <1>11, SyncPlaced
<1> QED BY <1>1, <1>2, <1>3, <1>4, <1>5, <1>6, <1>7, <1>8, <1>9, <1>10, <1>11 DEF SendStep

LEMMA NextPlaced ==
  ASSUME TypeOK, ServicesAreKnown, CallsArePlaced, [Next]_vars
  PROVE  CallsArePlaced'
<1>1. CASE UNCHANGED vars
  BY <1>1 DEF CallsArePlaced, CallDone, vars, tasks, actors, serial, counted
<1> QED BY <1>1, TaskPlaced, LoopPlaced, SendPlaced DEF Next

(***************************************************************************)
(* The reference count.  Whoever begins a transport, and whoever but the   *)
(* modem task ends one, has the lock, so no two of them meet.              *)
(***************************************************************************)

Locked(x) ==
  IF ModemTask(x) THEN call[x] \in Beginning ELSE started[x] \/ ~CallDone(x)

AloneWithLock ==
  /\ \A x, y \in Users : Locked(x) /\ Locked(y) => x = y
  /\ \A x \in Users : started[x] => CallDone(x)

LEMMA OwnerIsAlone ==
  ASSUME TypeOK, LockIsHeld, CallsArePlaced
  PROVE  AloneWithLock
<1>1. ASSUME NEW x \in Users, Locked(x) PROVE lock = x
  <2>1. CASE x \in Tasks
    <3>1. tpc[x] \in {"init", "poll", "give"}
      BY <1>1, <2>1 DEF Locked, ModemTask, CallsArePlaced, CallDone, Beginning, Ending, TypeOK,
                        Users
    <3> QED BY <2>1, <3>1 DEF LockIsHeld, TaskOwns, TaskDialog
  <2>2. CASE x \in Senders
    <3>1. x \notin Tasks
      BY <2>2, LifecycleAssumption
    <3>2. apc[x] \in SenderOwns
      BY <1>1, <2>2, <3>1 DEF Locked, ModemTask, CallsArePlaced, CallDone, Beginning, Ending,
                              TypeOK, Users, SenderOwns
    <3> QED BY <2>2, <3>2 DEF LockIsHeld
  <2> QED BY <1>1, <2>1, <2>2 DEF Users
<1>2. \A x \in Users : started[x] => CallDone(x)
  BY DEF CallsArePlaced, Users
<1> QED BY <1>1, <1>2 DEF AloneWithLock

SerialTypes ==
  /\ refs \in Nat /\ active \in BOOLEAN /\ uart \in BOOLEAN
  /\ \A x \in Users :
       /\ call[x] \in {"none"} \cup Beginning \cup Ending
       /\ seen[x] \in Nat /\ started[x] \in BOOLEAN
       /\ call[x] = "storeDown" => seen[x] > 0

\* A step of a transport, point by point.
LEMMA Effects ==
  ASSUME TypeOK, NEW x \in Users, TransportStep(x)
  PROVE  /\ svc' = svc
         /\ SerialTypes
         /\ \A y \in Users \ {x} : /\ call'[y] = call[y] /\ seen'[y] = seen[y]
                                 /\ started'[y] = started[y]
         /\ TestActive(x) =>
              /\ call[x] = "test" /\ call'[x] = (IF active THEN "load" ELSE "open")
              /\ UNCHANGED <<refs, active, uart>> /\ started'[x] = started[x]
         /\ OpenUart(x) =>
              /\ call[x] = "open" /\ call'[x] = "activate" /\ uart'
              /\ UNCHANGED <<refs, active>> /\ started'[x] = started[x]
         /\ SetActive(x) =>
              /\ call[x] = "activate" /\ call'[x] = "load" /\ active'
              /\ UNCHANGED <<refs, uart>> /\ started'[x] = started[x]
         /\ LoadCount(x) =>
              /\ \/ call[x] = "load" /\ call'[x] = "store"
                 \/ call[x] = "loadDown" /\ call'[x] = (IF refs > 0 THEN "storeDown" ELSE "look")
              /\ seen'[x] = refs
              /\ UNCHANGED <<refs, active, uart>> /\ started'[x] = started[x]
         /\ StoreUp(x) =>
              /\ call[x] = "store" /\ call'[x] = "none" /\ started'[x] /\ refs' = seen[x] + 1
              /\ UNCHANGED <<active, uart>>
         /\ StoreDown(x) =>
              /\ call[x] = "storeDown" /\ call'[x] = "look"
              /\ refs' = seen[x] - 1 /\ seen'[x] = seen[x] - 1
              /\ UNCHANGED <<active, uart>> /\ started'[x] = started[x]
         /\ LookAtCount(x) =>
              /\ call[x] = "look"
              /\ \/ call'[x] = "ask" /\ 0 \in {seen[x], refs}
                 \/ call'[x] = "none" /\ {seen[x], refs} # {0}
              /\ UNCHANGED <<refs, active, uart>> /\ started'[x] = started[x]
         /\ AskActive(x) =>
              /\ call[x] = "ask" /\ call'[x] = (IF active THEN "close" ELSE "none")
              /\ UNCHANGED <<refs, active, uart>> /\ started'[x] = started[x]
         /\ CloseUart(x) =>
              /\ call[x] = "close" /\ call'[x] = "clear" /\ ~uart'
              /\ UNCHANGED <<refs, active>> /\ started'[x] = started[x]
         /\ ClearActive(x) =>
              /\ call[x] = "clear" /\ call'[x] = "none" /\ ~active'
              /\ UNCHANGED <<refs, uart>> /\ started'[x] = started[x]
<1> USE DEF TypeOK, CallStep, counted
<1>1. svc' = svc BY DEF TransportStep, tasks
<1>2. SerialTypes BY DEF SerialTypes, Beginning, Ending
<1>3. \A y \in Users \ {x} : /\ call'[y] = call[y] /\ seen'[y] = seen[y]
                            /\ started'[y] = started[y]
  BY DEF TransportStep, TestActive, OpenUart, SetActive, LoadCount, StoreUp, StoreDown,
         LookAtCount, AskActive, CloseUart, ClearActive
<1>4. TestActive(x) =>
     /\ call[x] = "test" /\ call'[x] = (IF active THEN "load" ELSE "open")
     /\ UNCHANGED <<refs, active, uart>> /\ started'[x] = started[x]
  BY DEF TestActive
<1>5. OpenUart(x) =>
     /\ call[x] = "open" /\ call'[x] = "activate" /\ uart'
     /\ UNCHANGED <<refs, active>> /\ started'[x] = started[x]
  BY DEF OpenUart
<1>6. SetActive(x) =>
     /\ call[x] = "activate" /\ call'[x] = "load" /\ active'
     /\ UNCHANGED <<refs, uart>> /\ started'[x] = started[x]
  BY DEF SetActive
<1>7. LoadCount(x) =>
     /\ \/ call[x] = "load" /\ call'[x] = "store"
        \/ call[x] = "loadDown" /\ call'[x] = (IF refs > 0 THEN "storeDown" ELSE "look")
     /\ seen'[x] = refs
     /\ UNCHANGED <<refs, active, uart>> /\ started'[x] = started[x]
  BY DEF LoadCount
<1>8. StoreUp(x) =>
     /\ call[x] = "store" /\ call'[x] = "none" /\ started'[x] /\ refs' = seen[x] + 1
     /\ UNCHANGED <<active, uart>>
  BY DEF StoreUp
<1>9. StoreDown(x) =>
     /\ call[x] = "storeDown" /\ call'[x] = "look"
     /\ refs' = seen[x] - 1 /\ seen'[x] = seen[x] - 1
     /\ UNCHANGED <<active, uart>> /\ started'[x] = started[x]
  BY DEF StoreDown
<1>10. LookAtCount(x) =>
     /\ call[x] = "look"
     /\ \/ call'[x] = "ask" /\ 0 \in {seen[x], refs}
        \/ call'[x] = "none" /\ {seen[x], refs} # {0}
     /\ UNCHANGED <<refs, active, uart>> /\ started'[x] = started[x]
  BY DEF LookAtCount
<1>11. AskActive(x) =>
     /\ call[x] = "ask" /\ call'[x] = (IF active THEN "close" ELSE "none")
     /\ UNCHANGED <<refs, active, uart>> /\ started'[x] = started[x]
  BY DEF AskActive
<1>12. CloseUart(x) =>
     /\ call[x] = "close" /\ call'[x] = "clear" /\ ~uart'
     /\ UNCHANGED <<refs, active>> /\ started'[x] = started[x]
  BY DEF CloseUart
<1>13. ClearActive(x) =>
     /\ call[x] = "clear" /\ call'[x] = "none" /\ ~active'
     /\ UNCHANGED <<refs, uart>> /\ started'[x] = started[x]
  BY DEF ClearActive
<1> QED BY <1>1, <1>2, <1>3, <1>4, <1>5, <1>6, <1>7, <1>8, <1>9, <1>10,
           <1>11, <1>12, <1>13

LEMMA CountsKept ==
  ASSUME TypeOK, SerialIsRight, NEW x \in Users, TransportStep(x), AloneWithLock
  PROVE  ModemCounts'
<1> SUFFICES ASSUME NEW t \in Tasks, ModemTask(t), HasRef(t)'
             PROVE  /\ uart' /\ active' /\ refs' >= 1
                    /\ \A y \in Users \ {t} :
                         /\ HasRef(y)' => refs' >= 2
                         /\ call'[y] \notin {"open", "activate", "ask", "close", "clear"}
                         /\ call'[y] \in {"store", "storeDown", "look"} => seen'[y] = refs'
  BY Effects DEF ModemCounts, ModemTask
<1>0. t \in Users BY DEF Users
<1> USE DEF SerialTypes, HasRef
\* The modem task itself: it has just begun, alone, or is still to drop its reference.
<1>1. CASE x = t
  <2>1. CASE StoreUp(x)
    <3>1. \A y \in Users \ {t} : call[y] = "none" /\ ~started[y]
      <4> SUFFICES ASSUME NEW y \in Users \ {t} PROVE call[y] = "none" /\ ~started[y]
        OBVIOUS
      <4>1. ~ModemTask(y)
        BY DEF SerialIsRight, OneModemTask, ModemTask
      <4>2. Locked(t)
        BY <1>1, <2>1, Effects DEF Locked, Beginning
      <4> QED BY <1>0, <4>1, <4>2 DEF AloneWithLock, Locked, CallDone
    <3>2. uart /\ active /\ seen[t] = refs
      BY <1>1, <2>1, Effects DEF SerialIsRight, ModemBegins
    <3>3. refs \in Nat BY DEF TypeOK
    <3>4. refs' = seen[t] + 1 /\ uart' = uart /\ active' = active
          /\ \A y \in Users \ {t} : call'[y] = call[y] /\ started'[y] = started[y]
      BY <1>1, <2>1, Effects
    <3> QED BY <3>1, <3>2, <3>3, <3>4
  <2>2. CASE ~StoreUp(x)
    <3>0. started[t] => call[t] = "none"
      BY <1>0 DEF AloneWithLock, CallDone
    <3>1. HasRef(t) /\ UNCHANGED <<refs, active, uart>>
      <4> USE <1>1, <2>2, <3>0, Effects
      <4>1. CASE TestActive(x) BY <4>1
      <4>2. CASE OpenUart(x) BY <4>2
      <4>3. CASE SetActive(x) BY <4>3
      <4>4. CASE LoadCount(x) BY <4>4
      <4>5. CASE StoreDown(x) BY <4>5
      <4>6. CASE LookAtCount(x) BY <4>6
      <4>7. CASE AskActive(x) BY <4>7
      <4>8. CASE CloseUart(x) BY <4>8
      <4>9. CASE ClearActive(x) BY <4>9
      <4> QED BY <4>1, <4>2, <4>3, <4>4, <4>5, <4>6, <4>7, <4>8, <4>9 DEF TransportStep
    <3> QED BY <1>1, <3>1, Effects DEF SerialIsRight, ModemCounts
  <2> QED BY <2>1, <2>2
\* A peer: it finds Serial1 running and counts on top of the modem task.
<1>2. CASE x # t
  <2>0. HasRef(t) BY <1>0, <1>2, Effects
  <2>1. /\ uart /\ active /\ refs >= 1
        /\ \A y \in Users \ {t} :
             /\ HasRef(y) => refs >= 2
             /\ call[y] \notin {"open", "activate", "ask", "close", "clear"}
             /\ call[y] \in {"store", "storeDown", "look"} => seen[y] = refs
    BY <2>0 DEF SerialIsRight, ModemCounts
  <2>2. /\ refs \in Nat /\ uart' = uart /\ active' = active
        /\ \A y \in Users \ {t} : call[y] # "none" \/ started[y] => y = x \/ call[x] = "none"
    <3>1. uart' = uart /\ active' = active
      BY <1>2, <2>1, Effects DEF TransportStep
    <3>2. \A y \in Users \ {t} : call[y] # "none" \/ started[y] => y = x \/ call[x] = "none"
      BY <1>2 DEF SerialIsRight, OneModemTask, ModemTask, AloneWithLock, Locked, CallDone
    <3> QED BY <3>1, <3>2 DEF TypeOK
  <2>3. CASE StoreUp(x) \/ StoreDown(x)
    <3>1. \A y \in Users \ {t, x} : call[y] = "none" /\ ~started[y]
      BY <2>2, <2>3, Effects
    <3>2. call'[x] \in {"none", "look"} /\ refs' >= 1 /\ (started'[x] => refs' >= 2)
          /\ (call'[x] = "look" => seen'[x] = refs')
      <4>1. CASE StoreUp(x) BY <1>2, <2>1, <2>2, <4>1, Effects
      <4>2. CASE StoreDown(x)
        <5>1. call[x] = "storeDown" /\ refs >= 2 /\ seen[x] = refs /\ ~started[x]'
          <6>1. ~started[x]
            BY <4>2, Effects DEF AloneWithLock, CallDone
          <6> QED BY <1>2, <2>1, <4>2, <6>1, Effects
        <5> QED BY <2>2, <4>2, <5>1, Effects
      <4> QED BY <2>3, <4>1, <4>2
    <3> QED BY <1>2, <2>1, <2>2, <3>1, <3>2, Effects
  <2>4. CASE ~StoreUp(x) /\ ~StoreDown(x)
    <3>1. refs' = refs
      BY <2>4, Effects DEF TransportStep
    <3>2. \A y \in Users \ {t, x} : HasRef(y)' => HasRef(y)
      BY Effects
    <3>3. (HasRef(x)' => HasRef(x)) /\ call'[x] \notin {"open", "activate", "ask", "close", "clear"}
          /\ (call'[x] \in {"store", "storeDown", "look"} => seen'[x] = refs)
      <4>0. x \in Users \ {t} /\ (started[x] => call[x] = "none")
        BY <1>2 DEF AloneWithLock, CallDone
      <4> USE <2>1, <4>0, Effects
      <4>1. CASE TestActive(x) BY <4>1
      <4>2. CASE OpenUart(x) BY <4>2
      <4>3. CASE SetActive(x) BY <4>3
      <4>4. CASE LoadCount(x) BY <4>4
      <4>5. CASE LookAtCount(x)
        <5>1. seen[x] = refs /\ refs # 0
          BY <2>1, <2>2, <4>0, <4>5, Effects
        <5>2. call'[x] = "none" /\ started'[x] = started[x]
          BY <4>5, <5>1, Effects
        <5> QED BY <5>2
      <4>6. CASE AskActive(x) BY <4>6
      <4>7. CASE CloseUart(x) BY <4>7
      <4>8. CASE ClearActive(x) BY <4>8
      <4> QED BY <2>4, <4>1, <4>2, <4>3, <4>4, <4>5, <4>6, <4>7, <4>8 DEF TransportStep
    <3> QED BY <1>2, <2>1, <2>2, <3>1, <3>2, <3>3, Effects
  <2> QED BY <2>3, <2>4
<1> QED BY <1>1, <1>2

LEMMA BeginsKept ==
  ASSUME TypeOK, SerialIsRight, NEW x \in Users, TransportStep(x), AloneWithLock
  PROVE  ModemBegins'
<1> USE DEF SerialTypes, SerialIsRight, OneModemTask, ModemTask, StartsInactive,
        ModemCounts, ModemBegins, HasRef, AloneWithLock, Locked, Beginning, Ending, CallDone, Users
<1>1. CASE TestActive(x) BY <1>1, Effects
<1>2. CASE OpenUart(x) BY <1>2, Effects
<1>3. CASE SetActive(x) BY <1>3, Effects
<1>4. CASE LoadCount(x) BY <1>4, Effects
<1>5. CASE StoreUp(x) BY <1>5, Effects
<1>6. CASE StoreDown(x) BY <1>6, Effects
<1>7. CASE LookAtCount(x) BY <1>7, Effects
<1>8. CASE AskActive(x) BY <1>8, Effects
<1>9. CASE CloseUart(x) BY <1>9, Effects
<1>10. CASE ClearActive(x) BY <1>10, Effects
<1> QED BY <1>1, <1>2, <1>3, <1>4, <1>5, <1>6, <1>7, <1>8, <1>9, <1>10 DEF TransportStep

LEMMA ClosesKept ==
  ASSUME TypeOK, SerialIsRight, NEW x \in Users, TransportStep(x), AloneWithLock
  PROVE  ModemCloses'
<1> USE DEF SerialTypes, SerialIsRight, OneModemTask, ModemTask, StartsInactive,
        ModemCounts, ModemCloses, HasRef, AloneWithLock, Locked, Beginning, Ending, CallDone, Users
<1>1. CASE TestActive(x) BY <1>1, Effects
<1>2. CASE OpenUart(x) BY <1>2, Effects
<1>3. CASE SetActive(x) BY <1>3, Effects
<1>4. CASE LoadCount(x) BY <1>4, Effects
<1>5. CASE StoreUp(x) BY <1>5, Effects
<1>6. CASE StoreDown(x) BY <1>6, Effects
<1>7. CASE LookAtCount(x) BY <1>7, Effects
<1>8. CASE AskActive(x) BY <1>8, Effects
<1>9. CASE CloseUart(x) BY <1>9, Effects
<1>10. CASE ClearActive(x) BY <1>10, Effects
<1> QED BY <1>1, <1>2, <1>3, <1>4, <1>5, <1>6, <1>7, <1>8, <1>9, <1>10 DEF TransportStep

LEMMA StartsKept ==
  ASSUME TypeOK, SerialIsRight, NEW x \in Users, TransportStep(x), AloneWithLock
  PROVE  StartsInactive'
<1> USE DEF SerialTypes, SerialIsRight, OneModemTask, ModemTask, StartsInactive,
        ModemCounts, HasRef, AloneWithLock, Locked, Beginning, Ending, CallDone, Users
<1>1. CASE TestActive(x) BY <1>1, Effects
<1>2. CASE OpenUart(x) BY <1>2, Effects
<1>3. CASE SetActive(x) BY <1>3, Effects
<1>4. CASE LoadCount(x) BY <1>4, Effects
<1>5. CASE StoreUp(x) BY <1>5, Effects
<1>6. CASE StoreDown(x) BY <1>6, Effects
<1>7. CASE LookAtCount(x) BY <1>7, Effects
<1>8. CASE AskActive(x) BY <1>8, Effects
<1>9. CASE CloseUart(x) BY <1>9, Effects
<1>10. CASE ClearActive(x) BY <1>10, Effects
<1> QED BY <1>1, <1>2, <1>3, <1>4, <1>5, <1>6, <1>7, <1>8, <1>9, <1>10 DEF TransportStep

LEMMA StartingKept ==
  ASSUME TypeOK, SerialIsRight, NEW x \in Users, TransportStep(x), AloneWithLock
  PROVE  StoppedWhileStarting'
<1> USE DEF SerialTypes, SerialIsRight, OneModemTask, ModemTask, StartsInactive,
        ModemCounts, StoppedWhileStarting, HasRef, AloneWithLock, Locked, Beginning, Ending,
        CallDone, Users
<1>1. CASE TestActive(x) BY <1>1, Effects
<1>2. CASE OpenUart(x) BY <1>2, Effects
<1>3. CASE SetActive(x) BY <1>3, Effects
<1>4. CASE LoadCount(x) BY <1>4, Effects
<1>5. CASE StoreUp(x) BY <1>5, Effects
<1>6. CASE StoreDown(x) BY <1>6, Effects
<1>7. CASE LookAtCount(x) BY <1>7, Effects
<1>8. CASE AskActive(x) BY <1>8, Effects
\* Only a modem task stops Serial1 under a peer that starts it, and by then the count
\* is zero.
<1>9. CASE CloseUart(x)
  <2>1. /\ refs' = refs /\ call[x] = "close" /\ call'[x] = "clear"
        /\ \A y \in Users \ {x} : call'[y] = call[y]
    BY <1>9, Effects
  <2> SUFFICES ASSUME NEW y \in Users \ {x}, call[y] = "activate" PROVE refs = 0
    BY <2>1
  <2>2. ~active
    OBVIOUS
  <2>3. ModemTask(x)
    <3>1. Locked(y)
      OBVIOUS
    <3> QED BY <2>1, <3>1
  <2> QED BY <2>1, <2>2, <2>3 DEF ModemCloses
<1>10. CASE ClearActive(x) BY <1>10, Effects
<1> QED BY <1>1, <1>2, <1>3, <1>4, <1>5, <1>6, <1>7, <1>8, <1>9, <1>10 DEF TransportStep

LEMMA ClearedKept ==
  ASSUME TypeOK, SerialIsRight, NEW x \in Users, TransportStep(x), AloneWithLock
  PROVE  StoppedIsCleared'
<1> SUFFICES ASSUME active', ~uart' PROVE \E y \in Users : WillClear(y)'
  BY DEF StoppedIsCleared
<1>0. \A y \in Users : ModemTask(y)' <=> ModemTask(y)
  BY Effects DEF ModemTask
<1> USE DEF SerialTypes
\* Serial1 is stopped just now, or marked active just now.
<1>1. CASE ~(active /\ ~uart)
  <2>1. CloseUart(x) \/ SetActive(x)
    BY <1>1, Effects DEF TransportStep
  <2>2. CASE CloseUart(x)
    BY <2>2, Effects DEF WillClear
  <2>3. CASE SetActive(x)
    <3>1. call[x] = "activate" /\ ~uart /\ call'[x] = "load" /\ refs' = refs
      BY <2>3, Effects
    <3>2. ~ModemTask(x) /\ refs = 0
      BY <3>1 DEF SerialIsRight, ModemBegins, StoppedWhileStarting, ModemTask
    <3> QED BY <1>0, <3>1, <3>2 DEF WillClear
  <2> QED BY <2>1, <2>2, <2>3
<1>2. CASE active /\ ~uart
  <2>1. PICK y \in Users : WillClear(y)
    BY <1>2 DEF SerialIsRight, StoppedIsCleared
  <2>2. CASE y = x
    <3>1. WillClear(x) BY <2>1, <2>2
    <3>2. CASE ModemTask(x)
      <4>1. ClearActive(x) BY <3>1, <3>2, Effects DEF WillClear, TransportStep
      <4> QED BY <4>1, Effects
    <3>3. CASE ~ModemTask(x)
      <4>0. started[x] => call[x] = "none" BY DEF AloneWithLock, CallDone
      <4> USE <1>0, <1>2, <3>1, <3>3, <4>0, Effects DEF WillClear
      <4>1. CASE TestActive(x) BY <4>1
      <4>2. CASE OpenUart(x) BY <4>2
      <4>3. CASE SetActive(x) BY <4>3
      <4>4. CASE LoadCount(x) BY <4>4
      <4>5. CASE StoreUp(x) BY <4>5
      <4>6. CASE StoreDown(x) BY <4>6
      <4>7. CASE LookAtCount(x) BY <4>7
      <4>8. CASE AskActive(x) BY <4>8
      <4>9. CASE CloseUart(x) BY <4>9
      <4>10. CASE ClearActive(x) BY <4>10
      <4> QED BY <4>1, <4>2, <4>3, <4>4, <4>5, <4>6, <4>7, <4>8, <4>9, <4>10 DEF TransportStep
    <3> QED BY <2>2, <3>2, <3>3
  <2>3. CASE y # x
    <3>1. call'[y] = call[y] /\ seen'[y] = seen[y] /\ started'[y] = started[y]
      BY <2>3, Effects
    <3>2. CASE call[y] = "clear"
      BY <3>1, <3>2 DEF WillClear
    <3>3. CASE call[y] # "clear"
      <4>1. ~ModemTask(y) /\ (call[y] # "none" \/ started[y])
        BY <2>1, <3>3 DEF WillClear
      <4>2. refs' = refs
        <5> SUFFICES ASSUME StoreUp(x) \/ StoreDown(x) PROVE FALSE
          BY Effects DEF TransportStep
        <5>1. Locked(y) /\ ~Locked(x)
          BY <2>3, <4>1 DEF Locked, CallDone, AloneWithLock
        <5>2. ModemTask(x) /\ call[x] = "storeDown"
          BY <5>1, Effects DEF Locked, CallDone, Beginning
        <5> QED BY <1>2, <5>2 DEF SerialIsRight, ModemCounts, HasRef, ModemTask
      <4> QED BY <1>0, <2>1, <3>1, <4>2 DEF WillClear
    <3> QED BY <3>2, <3>3
  <2> QED BY <2>2, <2>3
<1> QED BY <1>1, <1>2

LEMMA TransportKeeps ==
  ASSUME TypeOK, SerialIsRight, AloneWithLock, NEW x \in Users, TransportStep(x)
  PROVE  SerialIsRight'
<1>1. OneModemTask'
  BY DEF SerialIsRight, OneModemTask, ModemTask, TransportStep, tasks
<1> QED BY <1>1, CountsKept, BeginsKept, ClosesKept, StartsKept, StartingKept, ClearedKept
        DEF SerialIsRight

\* begin() is called, by a modem task while nobody else has the lock.
LEMMA BeginKeeps ==
  ASSUME TypeOK, SerialIsRight, AloneWithLock', NEW x \in Users, BeginUart(x), ~started[x],
         UNCHANGED <<svc, refs, active, uart, seen>>
  PROVE  SerialIsRight'
<1> USE DEF TypeOK, BeginUart, CallStep, ModemTask, HasRef
<1>1. OneModemTask' BY DEF SerialIsRight, OneModemTask
<1>2. ModemCounts' BY DEF SerialIsRight, ModemCounts
<1>3. ModemBegins'
  <2>1. ASSUME ModemTask(x), active, ~uart PROVE FALSE
    <3>1. PICK y \in Users : WillClear(y)
      BY <2>1 DEF SerialIsRight, StoppedIsCleared
    <3>2. y # x
      BY <3>1 DEF WillClear
    <3>3. call[y] # "none" \/ started[y]
      BY <3>1 DEF WillClear
    <3>4. ~ModemTask(y)
      BY <2>1, <3>2 DEF SerialIsRight, OneModemTask
    <3>5. Locked(x)' /\ Locked(y)'
      BY <2>1, <3>2, <3>3, <3>4 DEF Locked, CallDone, Beginning
    <3> QED BY <3>2, <3>5 DEF AloneWithLock
  <2> QED BY <2>1 DEF SerialIsRight, ModemBegins
<1>4. ModemCloses' BY DEF SerialIsRight, ModemCloses
<1>5. StartsInactive' BY DEF SerialIsRight, StartsInactive
<1>6. StoppedWhileStarting' BY DEF SerialIsRight, StoppedWhileStarting
<1>7. StoppedIsCleared'
  <2>1. \A y \in Users : WillClear(y) => WillClear(y)'
    BY DEF WillClear
  <2> QED BY <2>1 DEF SerialIsRight, StoppedIsCleared
<1> QED BY <1>1, <1>2, <1>3, <1>4, <1>5, <1>6, <1>7 DEF SerialIsRight

\* end() is called: the reference is still to be dropped.
LEMMA EndKeeps ==
  ASSUME TypeOK, SerialIsRight, NEW x \in Users, EndUart(x), started[x],
         UNCHANGED <<svc, refs, active, uart, seen>>
  PROVE  SerialIsRight'
<1> USE DEF TypeOK, EndUart, CallStep, ModemTask, HasRef
<1>0. \A y \in Users : HasRef(y)' <=> HasRef(y)
  OBVIOUS
<1>1. OneModemTask' BY DEF SerialIsRight, OneModemTask
<1>2. ModemCounts' BY <1>0 DEF SerialIsRight, ModemCounts
<1>3. ModemBegins' BY DEF SerialIsRight, ModemBegins
<1>4. ModemCloses' BY DEF SerialIsRight, ModemCloses
<1>5. StartsInactive' BY DEF SerialIsRight, StartsInactive
<1>6. StoppedWhileStarting' BY DEF SerialIsRight, StoppedWhileStarting
<1>7. StoppedIsCleared'
  <2>1. \A y \in Users : WillClear(y) => WillClear(y)'
    BY DEF WillClear
  <2> QED BY <2>1 DEF SerialIsRight, StoppedIsCleared
<1> QED BY <1>1, <1>2, <1>3, <1>4, <1>5, <1>6, <1>7 DEF SerialIsRight

\* A task that has no reference and no call under way may come and go.
LEMMA BystandersKeep ==
  ASSUME TypeOK, SerialIsRight, OneModemTask',
         UNCHANGED <<refs, active, uart, seen, started, call>>,
         \A t \in Tasks : svc'[t] # svc[t] => ~started[t] /\ CallDone(t)
  PROVE  SerialIsRight'
<1> USE DEF TypeOK, ModemTask, HasRef, CallDone
<1>1. ModemCounts' BY DEF SerialIsRight, ModemCounts
<1>2. ModemBegins' BY DEF SerialIsRight, ModemBegins
<1>3. ModemCloses' BY DEF SerialIsRight, ModemCloses
<1>4. StartsInactive' BY DEF SerialIsRight, StartsInactive
<1>5. StoppedWhileStarting' BY DEF SerialIsRight, StoppedWhileStarting
<1>6. StoppedIsCleared'
  <2>1. \A y \in Users : WillClear(y) => WillClear(y)'
    BY DEF WillClear
  <2> QED BY <2>1 DEF SerialIsRight, StoppedIsCleared
<1> QED BY <1>1, <1>2, <1>3, <1>4, <1>5, <1>6 DEF SerialIsRight

LEMMA ServicesStay ==
  ASSUME SerialIsRight, svc' = svc
  PROVE  OneModemTask'
BY DEF SerialIsRight, OneModemTask, ModemTask

LEMMA TaskSerial ==
  ASSUME IInv, SerialIsRight, AloneWithLock, AloneWithLock', NEW t \in Tasks, TaskStep(t)
  PROVE  SerialIsRight'
<1>0. TypeOK /\ ServicesAreKnown /\ CallsArePlaced /\ t \in Users
  BY DEF IInv, Users
<1>1. CASE TransportStep(t) BY <1>0, <1>1, TransportKeeps
<1>2. CASE InitLocked(t)
  <2>1. ~started[t]
    BY <1>0, <1>2 DEF InitLocked, Step, CallsArePlaced, TaskOwns, TaskDialog
  <2> QED BY <1>0, <1>2, <2>1, BeginKeeps DEF InitLocked, counted
<1>3. CASE PollLocked(t)
  <2>1. CASE svc[t] = "gps"
    <3>1. ~started[t]
      BY <1>0, <1>3, <2>1 DEF PollLocked, Step, CallsArePlaced
    <3> QED BY <1>0, <1>3, <2>1, <3>1, BeginKeeps DEF PollLocked, counted
  <2>2. CASE svc[t] # "gps"
    BY <1>0, <1>3, <2>2, BystandersKeep, ServicesStay DEF PollLocked, counted
  <2> QED BY <2>1, <2>2
<1>4. CASE Leave(t)
  <2>1. CASE svc[t] = "modem"
    <3>1. started[t]
      BY <1>0, <1>4, <2>1 DEF Leave, Step, EndUart, CallStep, CallDone, CallsArePlaced
    <3> QED BY <1>0, <1>4, <2>1, <3>1, EndKeeps DEF Leave, counted
  <2>2. CASE svc[t] # "modem"
    BY <1>0, <1>4, <2>2, BystandersKeep, ServicesStay DEF Leave, counted
  <2> QED BY <2>1, <2>2
<1>5. CASE PollDone(t)
  <2>1. CASE svc[t] = "gps"
    <3>1. started[t]
      BY <1>0, <1>5, <2>1 DEF PollDone, Step, CallsArePlaced
    <3> QED BY <1>0, <1>5, <2>1, <3>1, EndKeeps DEF PollDone, counted
  <2>2. CASE svc[t] # "gps"
    BY <1>0, <1>5, <2>2, BystandersKeep, ServicesStay DEF PollDone, counted
  <2> QED BY <2>1, <2>2
<1>6. CASE Exit(t)
  <2>1. /\ tpc[t] = "exit" /\ CallDone(t) /\ svc' = [svc EXCEPT ![t] = None] /\ UNCHANGED serial
    BY <1>6 DEF Exit, Step
  <2>2. ~started[t]
    BY <1>0, <2>1 DEF CallsArePlaced, TaskOwns, TaskDialog
  <2>3. OneModemTask'
    BY <1>0, <2>1, LifecycleAssumption DEF SerialIsRight, OneModemTask, ModemTask, TypeOK
  <2> QED BY <1>0, <2>1, <2>2, <2>3, BystandersKeep DEF TypeOK, serial, counted
<1>7. CASE \/ Start(t) \/ TryInit(t) \/ InitLockTimeout(t) \/ InitDone(t) \/ WantPoll(t)
           \/ PollLockTimeout(t) \/ BeginCycle(t) \/ EndCycle(t) \/ GiveLock(t)
  <2>1. UNCHANGED <<svc, serial>>
    BY <1>7 DEF Start, TryInit, InitLockTimeout, InitDone, WantPoll, PollLockTimeout,
                BeginCycle, EndCycle, GiveLock
  <2> QED BY <1>0, <2>1, BystandersKeep, ServicesStay DEF serial, counted
<1> QED BY <1>1, <1>2, <1>3, <1>4, <1>5, <1>6, <1>7 DEF TaskStep

LEMMA SyncSerial ==
  ASSUME IInv, SerialIsRight, ~doubled', NEW a \in Actors, SyncStep(a)
  PROVE  SerialIsRight'
<1>0. TypeOK /\ ServicesAreKnown /\ CallsArePlaced
  BY DEF IInv
<1>1. CASE Create(a)
  <2>1. PICK t \in Tasks : tpc[t] = "dead" /\ svc' = [svc EXCEPT ![t] = target[a]]
    BY <1>1 DEF Create
  <2>2. UNCHANGED <<refs, active, uart, seen, started, call>>
        /\ (target[a] = "modem" => \A u \in Tasks : svc[u] # "modem")
    BY <1>1 DEF Create
  <2>3. ~started[t] /\ CallDone(t)
    BY <1>0, <2>1, LifecycleAssumption
       DEF ServicesAreKnown, CallsArePlaced, CallDone, Beginning, Ending, TypeOK, Users
  <2>4. OneModemTask'
    BY <1>0, <2>1, <2>2 DEF SerialIsRight, OneModemTask, ModemTask, TypeOK
  <2> QED BY <1>0, <2>1, <2>2, <2>3, <2>4, BystandersKeep DEF TypeOK
<1>2. CASE ~Create(a)
  <2>1. UNCHANGED <<svc, serial>>
    BY <1>2 DEF SyncStep, Sync, SyncStopped, SyncTimeout, CreateFails, tasks
  <2> QED BY <1>0, <2>1, BystandersKeep, ServicesStay DEF serial, counted
<1> QED BY <1>1, <1>2

LEMMA LoopSerial ==
  ASSUME IInv, SerialIsRight, ~doubled',
         \/ LoopStep
         \/ \E s \in Services, m \in Modes : SaveSettings(s, m)
  PROVE  SerialIsRight'
<1>1. CASE SyncStep(Loop) BY <1>1, SyncSerial DEF Actors
<1>2. CASE ~SyncStep(Loop)
  <2>1. UNCHANGED <<svc, serial>>
    BY <1>2 DEF LoopStep, Boot, SaveSettings, GateSend, RefuseSend, AcceptSend, tasks
  <2> QED BY <2>1, BystandersKeep, ServicesStay DEF IInv, serial, counted
<1> QED BY <1>1, <1>2

LEMMA SendSerial ==
  ASSUME IInv, SerialIsRight, ~doubled', AloneWithLock, AloneWithLock', NEW a \in Senders,
         SendStep(a)
  PROVE  SerialIsRight'
<1>0. TypeOK /\ CallsArePlaced /\ a \in Users /\ a \in Actors
  BY DEF IInv, Users, Actors
<1>1. CASE TransportStep(a) BY <1>0, <1>1, TransportKeeps
<1>2. CASE SyncStep(a) BY <1>0, <1>2, SyncSerial
<1>3. CASE SendLocked(a)
  <2>1. ~started[a]
    BY <1>0, <1>3 DEF SendLocked, Move, At, CallsArePlaced
  <2> QED BY <1>0, <1>3, <2>1, BeginKeeps DEF SendLocked, SendRest, tasks, counted
<1>4. CASE SendDone(a)
  <2>1. started[a]
    BY <1>0, <1>4 DEF SendDone, Move, At, CallsArePlaced
  <2> QED BY <1>0, <1>4, <2>1, EndKeeps DEF SendDone, SendRest, tasks, counted
<1>5. CASE \/ SendNoMemory(a) \/ StopPoll(a) \/ PollStopped(a) \/ StopPollTimeout(a)
           \/ SendLockTimeout(a) \/ GiveSendLock(a) \/ Publish(a)
  <2>1. UNCHANGED <<svc, serial>>
    BY <1>5 DEF SendNoMemory, StopPoll, PollStopped, StopPollTimeout, SendLockTimeout,
                GiveSendLock, Publish, SendRest, tasks
  <2> QED BY <1>0, <2>1, BystandersKeep, ServicesStay DEF serial, counted
<1> QED BY <1>1, <1>2, <1>3, <1>4, <1>5 DEF SendStep

\* What an unlocked end() leaves behind is kept apart from a modem task that was not
\* there then.
LEMMA NextSerial ==
  ASSUME IInv, [Next]_vars, ~doubled', AloneWithLock'
  PROVE  SerialIsRight'
<1>1. ~doubled
  BY DEF Next, LoopStep, Boot, SaveSettings, GateSend, RefuseSend, AcceptSend, TaskStep, Start,
         TryInit, InitLocked, InitLockTimeout, InitDone, Leave, WantPoll, PollLocked,
         PollLockTimeout, BeginCycle, EndCycle, PollDone, GiveLock, Exit, SendStep, SendNoMemory,
         StopPoll, PollStopped, StopPollTimeout, SendLocked, SendLockTimeout, SendDone,
         GiveSendLock, Publish, SyncStep, Sync, SyncStopped, SyncTimeout, Create, CreateFails,
         TransportStep, vars, serial, counted
<1>2. SerialIsRight /\ AloneWithLock
  BY <1>1, OwnerIsAlone DEF IInv
<1>3. CASE UNCHANGED vars
  BY <1>2, <1>3, BystandersKeep, ServicesStay DEF vars, tasks, serial, counted, IInv
<1> QED BY <1>2, <1>3, TaskSerial, LoopSerial, SendSerial DEF Next

(***************************************************************************)
(* The theorems.                                                           *)
(***************************************************************************)

LEMMA InitHolds == Init => IInv
<1> SUFFICES ASSUME Init PROVE IInv
  OBVIOUS
<1> USE LifecycleAssumption DEF Init
<1>1. TypeOK
  <2>1. 0 \in 0 .. MaxSaves /\ 0 \in 0 .. MaxSends
    OBVIOUS
  <2>2. /\ tpc \in [Tasks -> {"dead"}] /\ apc \in [Actors -> {"ready"}]
        /\ handle \in [Services -> {None}] /\ svc \in [Tasks -> {None}]
        /\ target \in [Actors -> {None}] /\ call \in [Users -> {"none"}]
        /\ started \in [Users -> BOOLEAN] /\ seen \in [Users -> Nat]
    OBVIOUS
  <2> QED BY <2>1, <2>2 DEF TypeOK
<1>2. LockIsHeld BY DEF LockIsHeld, TaskOwns, TaskDialog, SenderOwns, Actors
<1>3. ServicesAreKnown BY DEF ServicesAreKnown, Actors
<1>4. CallsArePlaced
  BY DEF CallsArePlaced, Beginning, Ending, TaskOwns, TaskDialog, Actors, Users
<1>5. SerialIsRight
  BY DEF SerialIsRight, OneModemTask, ModemCounts, ModemBegins, ModemCloses, StartsInactive,
         StoppedWhileStarting, StoppedIsCleared, ModemTask, HasRef, Users
<1> QED BY <1>1, <1>2, <1>3, <1>4, <1>5 DEF IInv

\* The tasks keep their types, lock ownership and what they count, whichever of
\* them exist, stop, time out or fail to start (modem_service.cpp, gps_service.cpp,
\* task_control.h, modem_transport.h).
THEOREM InductiveInvariant == Spec => []IInv
<1>1. IInv /\ [Next]_vars => IInv'
  <2> SUFFICES ASSUME IInv, [Next]_vars PROVE IInv'
    OBVIOUS
  <2>1. TypeOK' /\ LockIsHeld' /\ ServicesAreKnown' /\ CallsArePlaced'
    BY NextTypes, NextLock, NextInits, NextPlaced DEF IInv
  <2>2. AloneWithLock'
    BY <2>1, OwnerIsAlone, PTL
  <2> QED BY <2>1, <2>2, NextSerial DEF IInv
<1> QED BY InitHolds, <1>1, PTL DEF Spec

\* No two AT dialogs on Serial1 ever overlap: neither a stop that timed out nor
\* a second poll task gets past the modem lock (modem_lock.h).
THEOREM DialogsDoNotOverlap == Spec => []OneDialog
<1>1. IInv => OneDialog
  <2> SUFFICES ASSUME IInv, NEW x \in Talking, NEW y \in Talking PROVE x = y
    BY DEF OneDialog
  <2>1. lock = x /\ lock = y
    BY DEF IInv, LockIsHeld, Talking, TaskOwns, SenderOwns
  <2> QED BY <2>1
<1> QED BY <1>1, InductiveInvariant, PTL

\* Serial1 runs from the moment a modem poll task has begun its transport until it
\* ends it, whatever GNSS polls, sends and earlier poll tasks did to the count, as
\* long as no second modem poll task was created beside a live one
\* (modem_transport.h, modem_service.cpp).
THEOREM ModemUartIsKept == Spec => []ModemKeepsUart
<1>1. IInv => ModemKeepsUart
  BY DEF IInv, SerialIsRight, ModemCounts, ModemKeepsUart, ModemTask, HasRef
<1> QED BY <1>1, InductiveInvariant, PTL

-----------------------------------------------------------------------------
(* Every live poll task is the one its handle names, until a second save   *)
(* or send.  What makes it so is that only one actor synchronises at a     *)
(* time, and that it creates a task only while the handle is null.         *)

InSync(a) == apc[a] \in {"sync", "syncWait", "create"}

\* Before the first send the senders are idle, after it setup() is over and the loop
\* task synchronises nothing.
OneSync ==
  /\ booting # {} \/ InSync(Loop) => sends = 0
  /\ apc[Loop] = "accept" => booting = {}
  /\ \A a \in Senders : apc[a] # "ready" => sends # 0
  /\ \A a, b \in Senders : apc[a] # "ready" /\ apc[b] # "ready" => a = b

\* A task is created in place of none.
CreatesFromNull == \A a \in Actors : apc[a] = "create" => handle[target[a]] = None

LiveIsNamed == \A t \in Tasks : tpc[t] # "dead" => handle[svc[t]] = t

NamedInv == saves + sends <= 1 => OneSync /\ CreatesFromNull /\ LiveIsNamed

LEMMA TaskNamed ==
  ASSUME TypeOK, NamedInv, NEW t \in Tasks, TaskStep(t)
  PROVE  NamedInv'
<1>1. UNCHANGED <<apc, target, booting, saves, sends>>
  BY DEF TaskStep, Start, TryInit, InitLocked, InitLockTimeout, InitDone, Leave, WantPoll,
         PollLocked, PollLockTimeout, BeginCycle, EndCycle, PollDone, GiveLock,
         TransportStep, Exit, actors
<1>2. SUFFICES ASSUME saves + sends <= 1 PROVE OneSync' /\ CreatesFromNull' /\ LiveIsNamed'
  BY <1>1 DEF NamedInv
<1>3. OneSync /\ CreatesFromNull /\ LiveIsNamed
  BY <1>2 DEF NamedInv
<1>4. OneSync'
  BY <1>1, <1>3 DEF OneSync, InSync
<1>5. CASE Exit(t)
  <2>1. handle' = [handle EXCEPT ![svc[t]] = None] /\ tpc[t] = "exit"
        /\ tpc' = [tpc EXCEPT ![t] = "dead"] /\ svc' = [svc EXCEPT ![t] = None]
    BY <1>5 DEF Exit, Step
  <2>2. CreatesFromNull'
    BY <1>1, <1>3, <2>1 DEF CreatesFromNull, TypeOK
  <2>3. LiveIsNamed'
    <3> SUFFICES ASSUME NEW u \in Tasks, tpc'[u] # "dead" PROVE handle'[svc'[u]] = u
      BY DEF LiveIsNamed
    <3>1. u # t /\ tpc[u] # "dead" /\ svc'[u] = svc[u]
      BY <2>1 DEF TypeOK
    <3>2. handle[svc[u]] = u /\ handle[svc[t]] = t
      BY <1>3, <2>1, <3>1 DEF LiveIsNamed
    <3>3. svc[u] # svc[t]
      BY <3>1, <3>2
    <3>4. QED
      BY <2>1, <3>1, <3>2, <3>3 DEF TypeOK
  <2>4. QED
    BY <1>4, <2>2, <2>3
<1>6. CASE TransportStep(t)
  BY <1>1, <1>3, <1>4, <1>6 DEF CreatesFromNull, LiveIsNamed, TransportStep, control, tasks
<1>7. CASE ~Exit(t) /\ ~TransportStep(t)
  <2>1. UNCHANGED <<handle, svc>> /\ tpc[t] # "dead" /\ \E to : tpc' = [tpc EXCEPT ![t] = to]
    BY <1>7 DEF TaskStep, Start, TryInit, InitLocked, InitLockTimeout, InitDone, Leave,
         WantPoll, PollLocked, PollLockTimeout, BeginCycle, EndCycle, PollDone, GiveLock,
         Step, control
  <2>2. \A u \in Tasks : tpc'[u] # "dead" => tpc[u] # "dead"
    BY <2>1 DEF TypeOK
  <2>3. QED
    BY <1>1, <1>3, <1>4, <2>1, <2>2 DEF CreatesFromNull, LiveIsNamed
<1>8. QED
  BY <1>5, <1>6, <1>7

\* The one actor that synchronises is the only one at a step of syncTask.
LEMMA SyncNamed ==
  ASSUME TypeOK, ServicesAreKnown, NamedInv, NEW a \in Actors, SyncStep(a)
  PROVE  NamedInv'
<1> USE DEF At, Goto, Move, EndSync
<1>1. UNCHANGED <<booting, saves, sends>> /\ InSync(a)
  BY DEF SyncStep, Sync, SyncStopped, SyncTimeout, Create, CreateFails, InSync
<1>2. SUFFICES ASSUME saves + sends <= 1 PROVE OneSync' /\ CreatesFromNull' /\ LiveIsNamed'
  BY <1>1 DEF NamedInv
<1>3. OneSync /\ CreatesFromNull /\ LiveIsNamed
  BY <1>2 DEF NamedInv
<1>4. \E to \in {"ready", "syncWait", "create"} : apc' = [apc EXCEPT ![a] = to]
  BY DEF SyncStep, Sync, SyncStopped, SyncTimeout, Create, CreateFails
<1>5. OneSync'
  <2>1. \A b \in Actors : b # a => apc'[b] = apc[b]
    BY <1>4 DEF TypeOK
  <2>2. apc'[a] \in {"ready", "syncWait", "create"} /\ apc[a] # "ready"
    BY <1>1, <1>4 DEF TypeOK, InSync
  <2>3. CASE a = Loop
    <3>1. \A b \in Senders : apc'[b] = apc[b]
      BY <2>1, <2>3, LifecycleAssumption DEF Actors
    <3>2. QED
      BY <1>1, <1>3, <2>2, <2>3, <3>1 DEF OneSync, InSync
  <2>4. CASE a # Loop
    <3>1. apc'[Loop] = apc[Loop] /\ \A b \in Senders : apc'[b] # "ready" => apc[b] # "ready"
      BY <2>1, <2>2, <2>4 DEF Actors
    <3>2. QED
      BY <1>1, <1>3, <3>1 DEF OneSync, InSync
  <2>5. QED
    BY <2>3, <2>4
<1>6. \A b \in Actors : b # a => apc[b] # "create"
  <2> SUFFICES ASSUME NEW b \in Actors, b # a, apc[b] = "create" PROVE FALSE
    OBVIOUS
  <2>1. CASE a \in Senders /\ b \in Senders
    BY <1>1, <1>3, <2>1 DEF OneSync, InSync
  <2>2. CASE a = Loop \/ b = Loop
    BY <1>1, <1>3, <2>2 DEF OneSync, InSync, Actors
  <2>3. QED
    BY <2>1, <2>2 DEF Actors
<1>7. target[a] \in Services
  BY <1>1 DEF ServicesAreKnown, InSync
<1>8. CASE Create(a)
  <2>1. PICK t \in Tasks : /\ tpc[t] = "dead"
                           /\ tpc' = [tpc EXCEPT ![t] = "born"]
                           /\ svc' = [svc EXCEPT ![t] = target[a]]
                           /\ handle' = [handle EXCEPT ![target[a]] = t]
    BY <1>8 DEF Create
  <2>2. apc[a] = "create" /\ apc' = [apc EXCEPT ![a] = "ready"] /\ handle[target[a]] = None
    BY <1>3, <1>8 DEF Create, CreatesFromNull
  <2>3. CreatesFromNull'
    BY <1>6, <2>2 DEF CreatesFromNull, TypeOK
  <2>4. LiveIsNamed'
    <3> SUFFICES ASSUME NEW u \in Tasks, tpc'[u] # "dead" PROVE handle'[svc'[u]] = u
      BY DEF LiveIsNamed
    <3>1. CASE u = t
      BY <1>7, <2>1, <3>1 DEF TypeOK
    <3>2. CASE u # t
      <4>1. tpc[u] # "dead" /\ svc'[u] = svc[u] /\ handle[svc[u]] = u
        BY <1>3, <2>1, <3>2 DEF TypeOK, LiveIsNamed
      <4>2. svc[u] # target[a]
        BY <2>2, <4>1, LifecycleAssumption
      <4>3. QED
        BY <2>1, <4>1, <4>2 DEF TypeOK
    <3>3. QED
      BY <3>1, <3>2
  <2>5. QED
    BY <1>5, <2>3, <2>4
<1>9. CASE ~Create(a)
  <2>1. UNCHANGED <<tpc, svc>>
    BY <1>9 DEF SyncStep, Sync, SyncStopped, SyncTimeout, CreateFails, tasks
  <2>2. handle' = handle
    BY <1>3, <1>7, <1>9 DEF SyncStep, Sync, SyncStopped, SyncTimeout, CreateFails, control,
                            CreatesFromNull, TypeOK
  <2>3. CreatesFromNull'
    <3>1. apc'[a] = "create" => target' = target /\ handle[target[a]] = None
      BY <1>1, <1>9 DEF SyncStep, Sync, SyncStopped, SyncTimeout, CreateFails, TypeOK
    <3>2. \A b \in Actors : b # a => apc'[b] # "create"
      BY <1>4, <1>6 DEF TypeOK
    <3>3. QED
      BY <2>2, <3>1, <3>2 DEF CreatesFromNull
  <2>4. QED
    BY <1>3, <1>5, <2>1, <2>2, <2>3 DEF LiveIsNamed
<1>10. QED
  BY <1>8, <1>9

LEMMA SumBelow ==
  ASSUME NEW i \in Nat, NEW j \in Nat, NEW k \in Nat, NEW l \in Nat,
         i <= k, j <= l, k + l <= 1
  PROVE  i + j <= 1
OBVIOUS

LEMMA LoopNamed ==
  ASSUME TypeOK, ServicesAreKnown, NamedInv,
         \/ LoopStep
         \/ \E s \in Services, m \in Modes : SaveSettings(s, m)
  PROVE  NamedInv'
<1> USE DEF At, Goto, Move, StartSync
<1>1. CASE SyncStep(Loop)
  BY <1>1, SyncNamed DEF Actors
<1>2. CASE ~SyncStep(Loop)
  <2>1. /\ UNCHANGED <<handle, tpc, svc>>
        /\ saves' \in {saves, saves + 1} /\ sends' \in {sends, sends + 1}
    BY <1>2 DEF LoopStep, Boot, GateSend, RefuseSend, AcceptSend, SaveSettings, control, tasks,
                TypeOK
  <2>2. SUFFICES ASSUME saves' + sends' <= 1
                 PROVE  OneSync' /\ CreatesFromNull' /\ LiveIsNamed'
    BY DEF NamedInv
  <2>3. OneSync /\ CreatesFromNull /\ LiveIsNamed
    <3>1. saves \in Nat /\ sends \in Nat
      BY LifecycleAssumption DEF TypeOK
    <3>2. saves <= saves' /\ sends <= sends' /\ saves' \in Nat /\ sends' \in Nat
      BY <2>1, <3>1
    <3>3. saves + sends <= 1
      BY <2>2, <3>1, <3>2, SumBelow
    <3>4. QED
      BY <3>3 DEF NamedInv
  <2>4. OneSync'
    <3>1. CASE \E s \in Services : Boot(s)
      BY <2>3, <3>1, LifecycleAssumption DEF OneSync, InSync, Boot, TypeOK, Actors
    <3>2. CASE \E s \in Services, m \in Modes : SaveSettings(s, m)
      <4>1. UNCHANGED <<booting, sends>> /\ apc' = [apc EXCEPT ![Loop] = "sync"] /\ sends = 0
        BY <2>2, <3>2 DEF SaveSettings, TypeOK
      <4>2. QED
        BY <2>3, <4>1, LifecycleAssumption DEF OneSync, InSync, TypeOK, Actors
    <3>3. CASE GateSend \/ RefuseSend
      <4>1. /\ UNCHANGED <<booting, sends>> /\ booting = {}
            /\ apc'[Loop] \in {"accept", "ready"} /\ \A b \in Senders : apc'[b] = apc[b]
        BY <2>3, <3>3, LifecycleAssumption DEF OneSync, GateSend, RefuseSend, TypeOK, Actors
      <4>2. QED
        BY <2>3, <4>1 DEF OneSync, InSync
    <3>4. CASE \E a \in Senders : AcceptSend(a)
      <4>1. PICK a \in Senders : AcceptSend(a)
        BY <3>4
      <4>2. /\ booting' = booting /\ sends' = 1 /\ sends = 0 /\ apc[Loop] = "accept"
            /\ apc' = [apc EXCEPT ![Loop] = "ready", ![a] = "stop"]
        BY <2>2, <4>1 DEF AcceptSend, TypeOK
      <4>3. apc'[Loop] = "ready" /\ \A b \in Senders : b # a => apc'[b] = "ready"
        BY <2>3, <4>2, LifecycleAssumption DEF OneSync, TypeOK, Actors
      <4>4. booting' = {} /\ ~InSync(Loop)' /\ apc'[Loop] # "accept"
        BY <2>3, <4>2, <4>3 DEF OneSync, InSync
      <4>5. sends' # 0
        BY <4>2
      <4>6. \A b \in Senders : apc'[b] # "ready" => b = a
        BY <4>3
      <4>7. QED
        BY <4>4, <4>5, <4>6 DEF OneSync
    <3>5. QED
      BY <1>2, <3>1, <3>2, <3>3, <3>4 DEF LoopStep
  <2>5. CreatesFromNull'
    <3>1. \A a \in Actors : apc'[a] = "create" => apc[a] = "create" /\ target'[a] = target[a]
      BY <1>2, LifecycleAssumption
         DEF LoopStep, Boot, GateSend, RefuseSend, AcceptSend, SaveSettings, TypeOK, Actors
    <3>2. QED
      BY <2>1, <2>3, <3>1 DEF CreatesFromNull
  <2>6. QED
    BY <2>1, <2>3, <2>4, <2>5 DEF LiveIsNamed
<1>3. QED
  BY <1>1, <1>2

LEMMA SendNamed ==
  ASSUME TypeOK, ServicesAreKnown, NamedInv, NEW a \in Senders, SendStep(a)
  PROVE  NamedInv'
<1> USE DEF At, Goto, Move, SendRest
<1>1. CASE SyncStep(a)
  BY <1>1, SyncNamed DEF Actors
<1>2. CASE TransportStep(a)
  BY <1>2 DEF NamedInv, OneSync, InSync, CreatesFromNull, LiveIsNamed, TransportStep, control,
              tasks, actors
<1>3. CASE ~SyncStep(a) /\ ~TransportStep(a)
  <2>1. /\ UNCHANGED <<handle, tpc, svc, booting, saves, sends>> /\ apc[a] # "ready"
        /\ \E to : to # "create" /\ apc' = [apc EXCEPT ![a] = to]
        /\ \A b \in Actors : b # a => target'[b] = target[b]
    BY <1>3 DEF SendStep, SendNoMemory, StopPoll, PollStopped, StopPollTimeout, SendLocked,
         SendLockTimeout, SendDone, GiveSendLock, Publish, control,
         tasks, TypeOK
  <2>2. SUFFICES ASSUME saves + sends <= 1
                 PROVE  OneSync' /\ CreatesFromNull' /\ LiveIsNamed'
    BY <2>1 DEF NamedInv
  <2>3. OneSync /\ CreatesFromNull /\ LiveIsNamed
    BY <2>2 DEF NamedInv
  <2>4. \A b \in Actors : b # a => apc'[b] = apc[b]
    BY <2>1 DEF TypeOK
  <2>5. apc'[a] # "create" /\ apc'[Loop] = apc[Loop]
        /\ \A b \in Senders : apc'[b] # "ready" => apc[b] # "ready"
    BY <2>1, <2>4, LifecycleAssumption DEF TypeOK, Actors
  <2>6. OneSync'
    BY <2>1, <2>3, <2>5 DEF OneSync, InSync
  <2>7. CreatesFromNull'
    BY <2>1, <2>3, <2>4, <2>5 DEF CreatesFromNull
  <2>8. QED
    BY <2>1, <2>3, <2>6, <2>7 DEF LiveIsNamed
<1>4. QED
  BY <1>1, <1>2, <1>3

LEMMA NextNamed ==
  ASSUME TypeOK, ServicesAreKnown, NamedInv, [Next]_vars
  PROVE  NamedInv'
<1>1. CASE UNCHANGED vars
  BY <1>1 DEF NamedInv, OneSync, InSync, CreatesFromNull, LiveIsNamed, vars, control, tasks,
              actors
<1>2. QED
  BY <1>1, TaskNamed, LoopNamed, SendNamed DEF Next

\* One actor synchronises at a time, in place of no task, until a second save or send.
THEOREM NamedInvariant == Spec => []NamedInv
<1>1. Init => NamedInv
  BY LifecycleAssumption
     DEF Init, NamedInv, OneSync, InSync, CreatesFromNull, LiveIsNamed, Actors
<1>2. IInv /\ NamedInv /\ [Next]_vars => NamedInv'
  BY NextNamed DEF IInv
<1>3. QED
  BY <1>1, <1>2, InductiveInvariant, PTL DEF Spec

\* After at most one save or one send every live poll task is the one its handle
\* names, whatever times out: it takes two that overlap to make an unstoppable task.
THEOREM PollTaskStaysNamed == Spec => []PollTaskIsNamed
<1>1. NamedInv => PollTaskIsNamed
  BY DEF NamedInv, LiveIsNamed, PollTaskIsNamed
<1>2. QED
  BY <1>1, NamedInvariant, PTL
=============================================================================
