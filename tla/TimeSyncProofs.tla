--------------------------- MODULE TimeSyncProofs ---------------------------
(***************************************************************************)
(* Proofs about the shared clock, for every uptime: nothing below bounds   *)
(* now by a turn of millis().                                              *)
(*                                                                         *)
(* The deadline of a quarantine is compared modulo Wrap, which is right    *)
(* only near the deadline, so the argument rests on how far apart the      *)
(* instants of the state can be: LoopInTime says that the loop task is     *)
(* never late by more than the watchdog allows, and Deadlines that it      *)
(* lifts every quarantine before the deadline would look like a future one *)
(* again.  OneExcluded is then AtMostOneExcluded in real time.             *)
(***************************************************************************)
EXTENDS TimeSync, TLAPS

\* The loop task read millis() not long ago.
LoopInTime ==
  /\ loopNow <= now
  /\ now - loopNow <= IF pc = "idle" THEN LoopPeriod ELSE LoopDelay

\* A quarantine ends soon, and did not end long ago: what the loop task has
\* looked at is lifted, so only while it holds an unused reading may a deadline
\* lie behind that reading.
Deadlines ==
  \A s \in Sources : active[s] =>
    /\ until[s] <= now + QuarantineMax
    /\ loopNow - until[s] <= IF pc = "select" THEN LoopPeriod ELSE 0

\* No two sources are excluded, in real time.
OneExcluded ==
  \A s, p \in Sources :
    active[s] /\ now < until[s] /\ active[p] /\ now < until[p] => s = p

IInv == TypeOK /\ LoopInTime /\ Deadlines /\ OneExcluded

\* The constants, one fact each.
LEMMA ConstantFacts ==
  /\ Wrap \in Nat /\ Wrap > 0 /\ Wrap \div 2 \in Nat /\ Wrap = 2 * (Wrap \div 2)
  /\ Base \in Nat /\ Start \in Nat /\ MaxTime \in Nat /\ Start <= MaxTime
  /\ LoopDelay \in Nat /\ LoopPeriod \in Nat /\ Deadband \in Nat
  /\ LoopDelay <= Deadband /\ LoopDelay <= LoopPeriod
  /\ QuarantineDiff \in Nat
  /\ QuarantineDuration \in Nat /\ QuarantineMax \in Nat /\ QuarantineDuration <= QuarantineMax
  /\ QuarantineMax + LoopDelay <= Wrap \div 2
  /\ LoopPeriod + LoopDelay < Wrap \div 2
  /\ Errors \subseteq Int /\ GpsPolls \subseteq Nat
BY TimeSyncAssumption

-----------------------------------------------------------------------------
(* millis() arithmetic.                                                    *)

LEMMA ModInRange ==
  ASSUME NEW w \in Nat, w > 0, NEW x \in Int
  PROVE  x % w \in 0 .. w - 1
OBVIOUS

LEMMA ModAhead ==
  ASSUME NEW w \in Nat, w > 0, NEW x \in Int, 0 <= x, x < w
  PROVE  x % w = x
OBVIOUS

LEMMA ModBehind ==
  ASSUME NEW w \in Nat, w > 0, NEW x \in Int, -w <= x, x < 0
  PROVE  x % w = x + w
OBVIOUS

LEMMA ModAtMost ==
  ASSUME NEW w \in Nat, w > 0, NEW x \in Int, 0 <= x
  PROVE  x % w <= x
OBVIOUS

\* millis_deadline::reached is right within half a turn of the deadline.
LEMMA ReachedIsPast ==
  ASSUME NEW t \in Int, NEW u \in Int,
         t - u < Wrap \div 2, u - t <= Wrap \div 2
  PROVE  Reached(t, u) <=> u <= t
<1>1. CASE u <= t
  <2>1. (t - u) % Wrap = t - u
    BY <1>1, ConstantFacts, ModAhead
  <2> QED
    BY <2>1, <1>1 DEF Reached
<1>2. CASE t < u
  <2>1. (t - u) % Wrap = (t - u) + Wrap
    BY <1>2, ConstantFacts, ModBehind
  <2>2. ~Reached(t, u)
    BY <2>1, ConstantFacts DEF Reached
  <2> QED
    BY <2>2, <1>2
<1> QED
  BY <1>1, <1>2

\* A freshness window ends before the age of a sample that came after the
\* loop's reading of millis().
LEMMA WindowBound ==
  ASSUME gpsPoll \in GpsPolls, NEW s \in Sources
  PROVE  Window(s) \in Nat /\ Window(s) + LoopDelay <= Wrap
<1>1. CASE s = "gnss"
  BY <1>1, TimeSyncAssumption DEF Window
<1>2. CASE s = "sntp"
  BY <1>2, TimeSyncAssumption DEF Window
<1>3. CASE s = "nitz"
  BY <1>3, TimeSyncAssumption DEF Window
<1> QED
  BY <1>1, <1>2, <1>3 DEF Sources

\* A quarantine is on as long as its deadline lies ahead.
LEMMA QuarantinedNow ==
  ASSUME TypeOK, LoopInTime, Deadlines, NEW s \in Sources
  PROVE  Quarantined(s, now) <=> active[s] /\ now < until[s]
<1>1. CASE active[s] = TRUE
  <2>1. now \in Int /\ until[s] \in Int /\ loopNow \in Int
    BY ConstantFacts DEF TypeOK
  <2>2. now - until[s] <= LoopPeriod + LoopDelay /\ until[s] - now <= QuarantineMax
    BY <1>1, <2>1, ConstantFacts DEF LoopInTime, Deadlines
  <2>3. now - until[s] < Wrap \div 2 /\ until[s] - now <= Wrap \div 2
    BY <2>1, <2>2, ConstantFacts
  <2>4. Reached(now, until[s]) <=> until[s] <= now
    BY <2>1, <2>3, ReachedIsPast
  <2> QED
    BY <1>1, <2>1, <2>4 DEF Quarantined
<1>2. CASE active[s] = FALSE
  BY <1>2 DEF Quarantined
<1> QED
  BY <1>1, <1>2 DEF TypeOK

\* The same for the loop task and its reading of millis().
LEMMA ReachedThen ==
  ASSUME TypeOK, LoopInTime, Deadlines, pc # "idle", NEW s \in Sources, active[s]
  PROVE  Reached(loopNow, until[s]) <=> until[s] <= loopNow
<1>1. now \in Int /\ until[s] \in Int /\ loopNow \in Int
  BY ConstantFacts DEF TypeOK
<1>2. loopNow - until[s] <= LoopPeriod
  BY <1>1, ConstantFacts DEF Deadlines
<1>3. until[s] - loopNow <= QuarantineMax + LoopDelay
  BY <1>1, ConstantFacts DEF LoopInTime, Deadlines
<1>4. loopNow - until[s] < Wrap \div 2 /\ until[s] - loopNow <= Wrap \div 2
  BY <1>1, <1>2, <1>3, ConstantFacts
<1> QED
  BY <1>1, <1>4, ReachedIsPast

\* What the loop task holds for fresh was there when it read millis(), and
\* its age is at least what millis() says.
LEMMA FreshIsPast ==
  ASSUME TypeOK, LoopInTime, pc # "idle", NEW s \in Sources, Fresh(s, loopNow)
  PROVE  /\ samples[s].received <= loopNow
         /\ Age(loopNow, s) \in Nat
         /\ Age(loopNow, s) <= loopNow - samples[s].received
         /\ loopNow - samples[s].received < Wrap =>
              Age(loopNow, s) = loopNow - samples[s].received
<1> DEFINE r == samples[s].received
<1>1. now \in Int /\ loopNow \in Int /\ r \in Nat
  BY ConstantFacts DEF TypeOK
<1>2. r <= now /\ now - loopNow <= LoopDelay
  BY ConstantFacts DEF TypeOK, LoopInTime, Fresh
<1>3. Age(loopNow, s) = (loopNow - r) % Wrap /\ Age(loopNow, s) < Window(s)
  BY DEF Age, Fresh
<1>4. gpsPoll \in GpsPolls
  BY DEF TypeOK
<1>5. Window(s) \in Nat /\ Window(s) + LoopDelay <= Wrap
  BY <1>4, WindowBound
<1> HIDE DEF r
<1>6. Age(loopNow, s) \in Nat
  <2>1. (loopNow - r) % Wrap \in 0 .. Wrap - 1
    BY <1>1, ModInRange, ConstantFacts
  <2> QED
    BY <2>1, <1>3, ConstantFacts
<1>7. r <= loopNow
  <2>1. SUFFICES ASSUME loopNow < r PROVE FALSE
    BY <1>1
  <2>2. (loopNow - r) % Wrap = (loopNow - r) + Wrap
    BY <2>1, <1>1, <1>2, ConstantFacts, ModBehind
  <2> QED
    BY <2>1, <2>2, <1>1, <1>2, <1>3, <1>5, ConstantFacts
<1>8. Age(loopNow, s) <= loopNow - r
  BY <1>1, <1>3, <1>7, ModAtMost, ConstantFacts
<1>9. loopNow - r < Wrap => Age(loopNow, s) = loopNow - r
  BY <1>1, <1>3, <1>7, ModAhead, ConstantFacts
<1> QED
  BY <1>6, <1>7, <1>8, <1>9 DEF r

\* arbitrateAtLocked picks a source that is usable.
LEMMA ArbitratedUsable ==
  ASSUME NEW s \in Sources, s = Arbitrated(loopNow)
  PROVE  Usable(s, loopNow)
BY DEF Arbitrated, Sources, Unsynced

-----------------------------------------------------------------------------
(* The steps, and how often a step leaves what the invariant looks at alone. *)

LEMMA NextSteps ==
  ASSUME [Next]_vars
  PROVE  \/ Tick \/ LoopRead \/ LoopUnsynced \/ LoopSelect \/ LoopPublish
         \/ StartSntp \/ StopSntp
         \/ \E p \in GpsPolls : SetGpsPoll(p)
         \/ \E s \in Sources : \E e \in Said(s) : FeedOutlier(s, e)
         \/ \E s \in Sources : \E e \in Said(s) : FeedStored(s, e)
         \/ UNCHANGED vars
BY DEF Next, LoopStep, Feed, FeedDiscarded

\* What is said of the time is a number.
LEMMA SaidIsInt ==
  ASSUME TypeOK, NEW s \in Sources, NEW e \in Said(s)
  PROVE  e \in Int
<1>1. UTC \in Int
  BY ConstantFacts DEF TypeOK, UTC
<1>2. PICK d \in (IF s \in Liars THEN Errors ELSE {0}) : e = UTC + d
  BY DEF Said
<1>3. d \in Int
  BY <1>2, ConstantFacts
<1> QED
  BY <1>1, <1>2, <1>3

LEMMA InitIInv == Init => IInv
<1> SUFFICES ASSUME Init PROVE IInv
  OBVIOUS
<1>1. TypeOK
  <2>1. \A s \in Sources : samples[s] = NoSample
    BY DEF Init
  <2>2. samples \in [Sources -> [epoch : Int, received : Nat]]
    BY DEF Init, NoSample
  <2>3. QuarantineDuration \in QuarantineDuration .. QuarantineMax
    BY ConstantFacts
  <2>4. now \in Start .. MaxTime /\ loopNow \in Start .. MaxTime
    BY ConstantFacts DEF Init
  <2>5. ahead \in Int
    BY ConstantFacts DEF Init
  <2>6. published \in [source : Best, quarantined : BOOLEAN] /\ selected \in Best
    BY DEF Init, Best
  <2>7. /\ active \in [Sources -> BOOLEAN] /\ until \in [Sources -> Nat]
        /\ duration \in [Sources -> QuarantineDuration .. QuarantineMax]
    BY <2>3 DEF Init
  <2>8. gpsPoll \in GpsPolls /\ sntpRunning \in BOOLEAN /\ exposed \in BOOLEAN
        /\ pc \in {"idle", "select", "publish"}
    BY DEF Init
  <2> QED
    BY <2>1, <2>2, <2>4, <2>5, <2>6, <2>7, <2>8 DEF TypeOK
<1>2. LoopInTime
  BY ConstantFacts DEF Init, LoopInTime
<1>3. Deadlines /\ OneExcluded
  BY DEF Init, Deadlines, OneExcluded
<1> QED
  BY <1>1, <1>2, <1>3 DEF IInv

\* The parts of TypeOK, so that a step can be looked at part by part.
SamplesOK ==
  /\ samples \in [Sources -> [epoch : Int, received : Nat]]
  /\ \A s \in Sources : samples[s] # NoSample => samples[s].epoch > 0 /\ samples[s].received <= now
QuarantineOK ==
  /\ active \in [Sources -> BOOLEAN]
  /\ until \in [Sources -> Nat]
  /\ duration \in [Sources -> QuarantineDuration .. QuarantineMax]
ConfigOK == gpsPoll \in GpsPolls /\ sntpRunning \in BOOLEAN
ClockOK == ahead \in Int /\ exposed \in BOOLEAN
PublishedOK == published \in [source : Best, quarantined : BOOLEAN]
LoopOK ==
  /\ now \in Start .. MaxTime
  /\ pc \in {"idle", "select", "publish"}
  /\ loopNow \in Start .. MaxTime
  /\ selected \in Best

LEMMA TypeParts ==
  TypeOK <=> /\ SamplesOK /\ QuarantineOK /\ ConfigOK /\ ClockOK /\ PublishedOK /\ LoopOK
BY DEF TypeOK, SamplesOK, QuarantineOK, ConfigOK, ClockOK, PublishedOK, LoopOK

LEMMA BackoffOK ==
  ASSUME NEW d \in QuarantineDuration .. QuarantineMax
  PROVE  Backoff(d) \in QuarantineDuration .. QuarantineMax
BY ConstantFacts DEF Backoff

LEMMA LiftOK ==
  ASSUME QuarantineOK, LiftExpired
  PROVE  QuarantineOK'
<1>1. \A s \in Sources : (active[s] /\ ~Expired(s)) \in BOOLEAN
  OBVIOUS
<1>2. \A s \in Sources : (IF Expired(s) THEN 0 ELSE until[s]) \in Nat
  BY DEF QuarantineOK
<1>3. QuarantineDuration \in QuarantineDuration .. QuarantineMax
  BY ConstantFacts
<1>4. \A s \in Sources : (IF Expired(s) THEN QuarantineDuration ELSE duration[s])
                           \in QuarantineDuration .. QuarantineMax
  BY <1>3 DEF QuarantineOK
<1>5. active' \in [Sources -> BOOLEAN]
  BY <1>1 DEF LiftExpired
<1>6. until' \in [Sources -> Nat]
  BY <1>2 DEF LiftExpired
<1>7. duration' \in [Sources -> QuarantineDuration .. QuarantineMax]
  BY <1>4 DEF LiftExpired
<1> QED
  BY <1>5, <1>6, <1>7 DEF QuarantineOK

\* Where the discipline leaves the clock.
LEMMA SelectClock ==
  ASSUME TypeOK, LoopInTime, LoopSelect
  PROVE  \E s \in Sources :
           /\ s = Arbitrated(loopNow) /\ selected' = s
           /\ Expected(s) \in Int
           /\ \/ /\ Expected(s) - (Base + loopNow + ahead) > Deadband
                 /\ ahead' = Expected(s) - UTC
              \/ /\ ahead' \in Int /\ ahead <= ahead'
                 /\ ahead' = ahead \/ ahead' <= Expected(s) - (Base + loopNow)
<1>1. PICK s \in Sources :
        /\ s = Arbitrated(loopNow) /\ selected' = s
        /\ \E d \in Disciplined(Expected(s) - (Base + loopNow + ahead)) :
             ahead' = IF d > Deadband THEN Expected(s) - UTC ELSE ahead + d
  BY DEF LoopSelect
<1>2. Fresh(s, loopNow)
  BY <1>1, ArbitratedUsable DEF Usable
<1>3. Age(loopNow, s) \in Nat
  BY <1>2, FreshIsPast DEF LoopSelect
<1>4. samples[s].epoch \in Int
  BY DEF TypeOK
<1>5. Expected(s) \in Int
  BY <1>3, <1>4 DEF Expected
<1> DEFINE diff == Expected(s) - (Base + loopNow + ahead)
<1>6. diff \in Int /\ ahead \in Int /\ loopNow \in Int
  BY <1>5, ConstantFacts DEF TypeOK
<1>7. PICK d \in Disciplined(diff) :
        ahead' = IF d > Deadband THEN Expected(s) - UTC ELSE ahead + d
  BY <1>1
<1>8. CASE diff > Deadband
  <2>1. d = diff
    BY <1>7, <1>8 DEF Disciplined
  <2>2. ahead' = Expected(s) - UTC
    BY <1>7, <1>8, <2>1
  <2> QED
    BY <1>1, <1>5, <1>8, <2>2
<1>9. CASE ~(diff > Deadband)
  <2>1. d = 0 \/ d \in 0 .. diff
    BY <1>7, <1>9 DEF Disciplined
  <2>2. d \in Int /\ 0 <= d /\ (d = 0 \/ d <= diff) /\ ~(d > Deadband)
    BY <2>1, <1>6, <1>9, ConstantFacts
  <2>3. ahead' = ahead + d
    BY <1>7, <2>2
  <2>4. ahead' \in Int /\ ahead <= ahead'
    BY <2>2, <2>3, <1>6
  <2>5. ahead' = ahead \/ ahead' <= Expected(s) - (Base + loopNow)
    BY <2>2, <2>3, <1>5, <1>6, ConstantFacts
  <2> QED
    BY <1>1, <1>5, <2>4, <2>5
<1> QED
  BY <1>8, <1>9

LEMMA TypeStep ==
  ASSUME TypeOK, LoopInTime, [Next]_vars
  PROVE  TypeOK'
<1>0. SamplesOK /\ QuarantineOK /\ ConfigOK /\ ClockOK /\ PublishedOK /\ LoopOK
  BY TypeParts
<1> USE DEF quarantine, config, loop, FeedRest
<1>1. CASE Tick
  <2>1. now' \in Start .. MaxTime /\ now <= now'
    BY <1>0, <1>1, ConstantFacts DEF Tick, LoopOK
  <2>2. SamplesOK'
    <3>1. \A s \in Sources : samples[s].received \in Int
      BY <1>0 DEF SamplesOK
    <3>2. now \in Int /\ now' \in Int
      BY <1>0, <2>1, ConstantFacts DEF LoopOK
    <3> QED
      BY <1>0, <1>1, <2>1, <3>1, <3>2 DEF Tick, SamplesOK
  <2>3. LoopOK'
    BY <1>0, <1>1, <2>1 DEF Tick, LoopOK
  <2> QED
    BY <1>0, <1>1, <2>2, <2>3, TypeParts
       DEF Tick, TypeOK, QuarantineOK, ConfigOK, ClockOK, PublishedOK, SamplesOK, LoopOK
<1>2. CASE LoopRead
  BY <1>2 DEF LoopRead, TypeOK
<1>3. CASE LoopUnsynced
  <2>1. QuarantineOK'
    BY <1>0, <1>3, LiftOK DEF LoopUnsynced
  <2>2. PublishedOK' /\ LoopOK'
    BY <1>0, <1>3 DEF LoopUnsynced, EndLoop, PublishedOK, LoopOK, Best
  <2> QED
    BY <1>0, <1>3, <2>1, <2>2
       DEF LoopUnsynced, TypeOK, QuarantineOK, ConfigOK, ClockOK, PublishedOK, SamplesOK, LoopOK
<1>4. CASE LoopSelect
  <2>1. QuarantineOK'
    BY <1>0, <1>4, LiftOK DEF LoopSelect
  <2>2. PICK s \in Sources :
          /\ selected' = s /\ Expected(s) \in Int
          /\ ahead' = Expected(s) - UTC \/ ahead' \in Int
    BY <1>4, SelectClock
  <2>3. UTC \in Int
    BY ConstantFacts DEF TypeOK, UTC
  <2>4. ClockOK'
    <3>1. ahead' \in Int
      BY <2>2, <2>3
    <3> QED
      BY <1>0, <1>4, <3>1 DEF LoopSelect, ClockOK
  <2>5. LoopOK'
    BY <1>0, <1>4, <2>2 DEF LoopSelect, LoopOK, Best
  <2> QED
    BY <1>0, <1>4, <2>1, <2>4, <2>5
       DEF LoopSelect, TypeOK, QuarantineOK, ConfigOK, ClockOK, PublishedOK, SamplesOK, LoopOK
<1>5. CASE LoopPublish
  <2>1. (\E s \in Sources : Quarantined(s, loopNow)) \in BOOLEAN
    OBVIOUS
  <2>2. PublishedOK'
    BY <1>0, <1>5, <2>1 DEF LoopPublish, PublishedOK, LoopOK
  <2>3. LoopOK'
    BY <1>0, <1>5 DEF LoopPublish, EndLoop, LoopOK, Best
  <2> QED
    BY <1>0, <1>5, <2>2, <2>3
       DEF LoopPublish, TypeOK, QuarantineOK, ConfigOK, ClockOK, PublishedOK, SamplesOK, LoopOK
<1>6. CASE StartSntp
  BY <1>6 DEF StartSntp, TypeOK
<1>7. CASE StopSntp
  BY <1>7 DEF StopSntp, TypeOK
<1>8. ASSUME NEW p \in GpsPolls, SetGpsPoll(p) PROVE TypeOK'
  BY <1>8 DEF SetGpsPoll, TypeOK
<1>9. ASSUME NEW s \in Sources, NEW e \in Said(s), FeedOutlier(s, e) PROVE TypeOK'
  <2>1. duration[s] \in QuarantineDuration .. QuarantineMax
    BY <1>0 DEF QuarantineOK
  <2>2. now + duration[s] \in Nat
    BY <1>0, <2>1, ConstantFacts DEF LoopOK
  <2>3. Backoff(duration[s]) \in QuarantineDuration .. QuarantineMax
    BY <2>1, BackoffOK
  <2>4. QuarantineOK'
    BY <1>0, <1>9, <2>2, <2>3 DEF FeedOutlier, QuarantineOK
  <2> QED
    BY <1>0, <1>9, <2>4
       DEF FeedOutlier, TypeOK, QuarantineOK, ConfigOK, ClockOK, PublishedOK, SamplesOK, LoopOK
<1>10. ASSUME NEW s \in Sources, NEW e \in Said(s), FeedStored(s, e) PROVE TypeOK'
  <2> DEFINE new == IF e > 0 THEN [epoch |-> e, received |-> now] ELSE NoSample
  <2>1. e \in Int /\ now \in Nat
    BY <1>0, SaidIsInt, ConstantFacts DEF LoopOK
  <2>2. new \in [epoch : Int, received : Nat]
    BY <2>1 DEF NoSample
  <2>3. new # NoSample => new.epoch > 0 /\ new.received <= now
    BY <2>1
  <2>4. samples' = [samples EXCEPT ![s] = new]
    BY <1>10 DEF FeedStored
  <2> HIDE DEF new
  <2>5. SamplesOK'
    <3>1. samples' \in [Sources -> [epoch : Int, received : Nat]]
      BY <1>0, <2>2, <2>4 DEF SamplesOK
    <3>2. now' = now
      BY <1>10 DEF FeedStored
    <3>3. ASSUME NEW p \in Sources, samples'[p] # NoSample
          PROVE  samples'[p].epoch > 0 /\ samples'[p].received <= now
      <4>1. CASE p = s
        BY <1>0, <2>3, <2>4, <3>3, <4>1 DEF SamplesOK
      <4>2. CASE p # s
        BY <1>0, <2>4, <3>3, <4>2 DEF SamplesOK
      <4> QED
        BY <4>1, <4>2
    <3> QED
      BY <3>1, <3>2, <3>3 DEF SamplesOK
  <2>6. ClockOK'
    BY <1>0, <1>10 DEF FeedStored, ClockOK
  <2> QED
    BY <1>0, <1>10, <2>5, <2>6
       DEF FeedStored, TypeOK, QuarantineOK, ConfigOK, ClockOK, PublishedOK, SamplesOK, LoopOK
<1>11. CASE UNCHANGED vars
  BY <1>11 DEF vars, TypeOK
<1> QED
  BY NextSteps, <1>1, <1>2, <1>3, <1>4, <1>5, <1>6, <1>7, <1>8, <1>9, <1>10, <1>11

-----------------------------------------------------------------------------
(* The instants of the state stay together.                                *)

\* A step that leaves the quarantines, the time and the loop task alone.
LEMMA TimingAlone ==
  ASSUME LoopInTime, Deadlines, OneExcluded,
         now' = now, active' = active, until' = until, loopNow' = loopNow, pc' = pc
  PROVE  LoopInTime' /\ Deadlines' /\ OneExcluded'
BY DEF LoopInTime, Deadlines, OneExcluded

\* Lifting what is over, the loop task leaves only deadlines that lie ahead of
\* its reading of millis().
LEMMA LiftTiming ==
  ASSUME TypeOK, LoopInTime, Deadlines, OneExcluded, pc = "select", LiftExpired,
         now' = now, loopNow' = loopNow, pc' # "select"
  PROVE  Deadlines' /\ OneExcluded'
<1>1. ASSUME NEW s \in Sources, active'[s]
      PROVE  active[s] /\ until'[s] = until[s] /\ loopNow < until[s]
  <2>1. active'[s] = (active[s] /\ ~Expired(s))
    BY DEF LiftExpired
  <2>2. active[s] /\ ~Expired(s)
    BY <2>1, <1>1
  <2>3. until'[s] = until[s]
    BY <2>2 DEF LiftExpired
  <2>4. ~Reached(loopNow, until[s])
    BY <2>2 DEF Expired
  <2>5. ~(until[s] <= loopNow)
    BY <2>2, <2>4, ReachedThen
  <2>6. until[s] \in Int /\ loopNow \in Int
    BY ConstantFacts DEF TypeOK
  <2> QED
    BY <2>2, <2>3, <2>5, <2>6
<1>2. \A s \in Sources : until[s] \in Int
  BY DEF TypeOK
<1>3. now \in Int /\ loopNow \in Int
  BY ConstantFacts DEF TypeOK
<1>4. Deadlines'
  <2>1. SUFFICES ASSUME NEW s \in Sources, active'[s]
                 PROVE  until'[s] <= now + QuarantineMax /\ loopNow - until'[s] <= 0
    BY DEF Deadlines
  <2>2. active[s] /\ until'[s] = until[s] /\ loopNow < until[s]
    BY <2>1, <1>1
  <2>3. until[s] <= now + QuarantineMax
    BY <2>2 DEF Deadlines
  <2> QED
    BY <2>2, <2>3, <1>2, <1>3
<1>5. OneExcluded'
  <2>1. SUFFICES ASSUME NEW s \in Sources, NEW p \in Sources,
                        active'[s], now < until'[s], active'[p], now < until'[p]
                 PROVE  s = p
    BY DEF OneExcluded
  <2>2. active[s] /\ now < until[s] /\ active[p] /\ now < until[p]
    BY <2>1, <1>1
  <2> QED
    BY <2>2 DEF OneExcluded
<1> QED
  BY <1>4, <1>5

LEMMA TimingStep ==
  ASSUME IInv, [Next]_vars
  PROVE  LoopInTime' /\ Deadlines' /\ OneExcluded'
<1>0. TypeOK /\ LoopInTime /\ Deadlines /\ OneExcluded
  BY DEF IInv
<1>a. now \in Int /\ loopNow \in Int /\ \A s \in Sources : until[s] \in Int
  BY <1>0, ConstantFacts DEF TypeOK
<1> USE DEF quarantine, config, loop, FeedRest
<1>1. CASE Tick
  <2>1. /\ now' = now + 1 /\ loopNow' = loopNow /\ pc' = pc
        /\ active' = active /\ until' = until
        /\ now - loopNow < IF pc = "idle" THEN LoopPeriod ELSE LoopDelay
    BY <1>1 DEF Tick
  <2>2. LoopInTime'
    BY <1>0, <1>a, <2>1, ConstantFacts DEF LoopInTime
  <2>3. Deadlines'
    BY <1>0, <1>a, <2>1, ConstantFacts DEF Deadlines
  <2>4. \A s \in Sources : now' < until[s] => now < until[s]
    BY <1>a, <2>1
  <2>5. OneExcluded'
    BY <1>0, <2>1, <2>4 DEF OneExcluded
  <2> QED
    BY <2>2, <2>3, <2>5
<1>2. CASE LoopRead
  <2>1. /\ pc = "idle" /\ pc' = "select" /\ now' = now /\ loopNow' = now
        /\ active' = active /\ until' = until
    BY <1>2 DEF LoopRead
  <2>2. LoopInTime'
    BY <1>a, <2>1, ConstantFacts DEF LoopInTime
  <2>3. Deadlines'
    <3>1. SUFFICES ASSUME NEW s \in Sources, active[s]
                   PROVE  until[s] <= now + QuarantineMax /\ now - until[s] <= LoopPeriod
      BY <2>1 DEF Deadlines
    <3>2. until[s] <= now + QuarantineMax /\ loopNow - until[s] <= 0
      BY <1>0, <2>1, <3>1 DEF Deadlines
    <3>3. now - loopNow <= LoopPeriod
      BY <1>0, <2>1 DEF LoopInTime
    <3> QED
      BY <1>a, <3>2, <3>3, ConstantFacts
  <2>4. OneExcluded'
    BY <1>0, <2>1 DEF OneExcluded
  <2> QED
    BY <2>2, <2>3, <2>4
<1>3. ASSUME pc = "select" /\ LiftExpired /\ pc' \in {"idle", "publish"}
             /\ now' = now /\ loopNow' = loopNow
      PROVE  LoopInTime' /\ Deadlines' /\ OneExcluded'
  <2>1. LoopInTime'
    BY <1>0, <1>a, <1>3, ConstantFacts DEF LoopInTime
  <2> QED
    BY <1>0, <1>3, <2>1, LiftTiming
<1>4. CASE LoopUnsynced
  BY <1>3, <1>4 DEF LoopUnsynced, EndLoop
<1>5. CASE LoopSelect
  BY <1>3, <1>5 DEF LoopSelect
<1>6. CASE LoopPublish
  <2>1. /\ pc = "publish" /\ pc' = "idle" /\ now' = now /\ loopNow' = loopNow
        /\ active' = active /\ until' = until
    BY <1>6 DEF LoopPublish, EndLoop
  <2>2. LoopInTime'
    BY <1>0, <1>a, <2>1, ConstantFacts DEF LoopInTime
  <2>3. Deadlines' /\ OneExcluded'
    BY <1>0, <2>1 DEF Deadlines, OneExcluded
  <2> QED
    BY <2>2, <2>3
<1>7. CASE StartSntp
  BY <1>0, <1>7, TimingAlone DEF StartSntp
<1>8. CASE StopSntp
  BY <1>0, <1>8, TimingAlone DEF StopSntp
<1>9. ASSUME NEW p \in GpsPolls, SetGpsPoll(p) PROVE LoopInTime' /\ Deadlines' /\ OneExcluded'
  BY <1>0, <1>9, TimingAlone DEF SetGpsPoll
<1>10. ASSUME NEW s \in Sources, NEW e \in Said(s), FeedOutlier(s, e)
       PROVE  LoopInTime' /\ Deadlines' /\ OneExcluded'
  <2>1. /\ now' = now /\ loopNow' = loopNow /\ pc' = pc
        /\ active' = [active EXCEPT ![s] = TRUE]
        /\ until' = [until EXCEPT ![s] = now + duration[s]]
    BY <1>10 DEF FeedOutlier
  <2>2. duration[s] \in Nat /\ duration[s] <= QuarantineMax
    BY <1>0, ConstantFacts DEF TypeOK
  <2>3. LoopInTime'
    BY <1>0, <2>1 DEF LoopInTime
  <2>4. until'[s] = now + duration[s]
    BY <1>0, <2>1 DEF TypeOK
  <2>5. ASSUME NEW p \in Sources, p # s
        PROVE  active'[p] = active[p] /\ until'[p] = until[p]
    BY <1>0, <2>1, <2>5 DEF TypeOK
  <2>6. Deadlines'
    <3>1. SUFFICES ASSUME NEW p \in Sources, active'[p]
                   PROVE  /\ until'[p] <= now + QuarantineMax
                          /\ loopNow - until'[p] <= IF pc = "select" THEN LoopPeriod ELSE 0
      BY <2>1 DEF Deadlines
    <3>2. CASE p = s
      <4>1. until'[p] <= now + QuarantineMax /\ loopNow - until'[p] <= 0
        BY <1>0, <1>a, <2>2, <2>4, <3>2, ConstantFacts DEF LoopInTime
      <4> QED
        BY <1>a, <2>2, <2>4, <3>2, <4>1, ConstantFacts
    <3>3. CASE p # s
      BY <1>0, <2>5, <3>1, <3>3 DEF Deadlines
    <3> QED
      BY <3>2, <3>3
  \* The two that agree are not excluded.
  <2>7. \A p \in Sources \ {s} : ~(active[p] /\ now < until[p])
    <3>1. PICK p \in Sources, q \in Sources : Agreeing(s, now, p, q)
      BY <1>10 DEF FeedOutlier, Outlier
    <3>2. p # q /\ p \in Sources \ {s} /\ q \in Sources \ {s}
          /\ ~Quarantined(p, now) /\ ~Quarantined(q, now)
      BY <3>1 DEF Agreeing, Peers, Usable
    <3>3. Sources \ {s} = {p, q}
      BY <3>2 DEF Sources
    <3> QED
      BY <1>0, <3>2, <3>3, QuarantinedNow
  <2>8. OneExcluded'
    <3>1. SUFFICES ASSUME NEW x \in Sources, active'[x], now < until'[x]
                   PROVE  x = s
      BY <2>1 DEF OneExcluded
    <3> QED
      BY <2>5, <2>7, <3>1
  <2> QED
    BY <2>3, <2>6, <2>8
<1>11. ASSUME NEW s \in Sources, NEW e \in Said(s), FeedStored(s, e)
       PROVE  LoopInTime' /\ Deadlines' /\ OneExcluded'
  BY <1>0, <1>11, TimingAlone DEF FeedStored
<1>12. CASE UNCHANGED vars
  BY <1>0, <1>12, TimingAlone DEF vars
<1> QED
  BY NextSteps, <1>1, <1>2, <1>4, <1>5, <1>6, <1>7, <1>8, <1>9, <1>10, <1>11, <1>12

\* The invariant holds for every uptime: no bound on MaxTime is assumed.
THEOREM InductiveInvariant == Spec => []IInv
<1>1. IInv /\ [Next]_vars => IInv'
  BY TypeStep, TimingStep DEF IInv
<1> QED
  BY InitIInv, <1>1, PTL DEF Spec

\* The variables always have their types.
THEOREM TypeCorrect == Spec => []TypeOK
<1>1. IInv => TypeOK
  BY DEF IInv
<1> QED
  BY InductiveInvariant, <1>1, PTL

\* A quarantine needs two sources that are not excluded, and the loop task
\* lifts it before its deadline comes round again: no two of GNSS, SNTP and NITZ
\* are ever excluded at a time.
THEOREM OneSourceExcluded == Spec => []AtMostOneExcluded
<1>1. IInv => AtMostOneExcluded
  BY QuarantinedNow DEF IInv, OneExcluded, AtMostOneExcluded
<1> QED
  BY InductiveInvariant, <1>1, PTL

-----------------------------------------------------------------------------
(* The clock.                                                              *)

LEMMA SumForward ==
  ASSUME NEW a \in Int, NEW b \in Int, NEW c \in Int, b <= c
  PROVE  a + c >= a + b
OBVIOUS

LEMMA ClockStep ==
  ASSUME IInv, [Next]_vars
  PROVE  now' + ahead' >= now + ahead
<1>0. TypeOK /\ LoopInTime
  BY DEF IInv
<1>1. now \in Int /\ ahead \in Int /\ loopNow \in Int
  BY <1>0, ConstantFacts DEF TypeOK
<1>2. CASE ahead' = ahead /\ (now' = now \/ now' = now + 1)
  BY <1>1, <1>2
<1>3. CASE LoopSelect
  <2>1. PICK s \in Sources :
          /\ Expected(s) \in Int
          /\ \/ /\ Expected(s) - (Base + loopNow + ahead) > Deadband
                /\ ahead' = Expected(s) - UTC
             \/ ahead' \in Int /\ ahead <= ahead'
    BY <1>0, <1>3, SelectClock
  <2>2. now' = now
    BY <1>3 DEF LoopSelect
  <2>3. now - loopNow <= Deadband
    BY <1>0, <1>1, <1>3, ConstantFacts DEF LoopInTime, LoopSelect
  <2>4. CASE /\ Expected(s) - (Base + loopNow + ahead) > Deadband
             /\ ahead' = Expected(s) - UTC
    BY <1>1, <2>1, <2>2, <2>3, <2>4, ConstantFacts DEF UTC
  <2>5. CASE ahead' \in Int /\ ahead <= ahead'
    <3>1. ahead' \in Int /\ ahead <= ahead'
      BY <2>5
    <3>2. now + ahead' >= now + ahead
      BY <1>1, <3>1, SumForward
    <3> QED
      BY <2>2, <3>2
  <2> QED
    BY <2>1, <2>4, <2>5
<1>4. LoopSelect \/ (ahead' = ahead /\ (now' = now \/ now' = now + 1))
  BY NextSteps
     DEF Tick, LoopRead, LoopUnsynced, LoopPublish, StartSntp, StopSntp, SetGpsPoll,
         FeedOutlier, FeedStored, FeedRest, vars
<1> QED
  BY <1>2, <1>3, <1>4

\* Whatever the sources say and whenever the loop task is preempted within the
\* dead band, the system clock never goes back.
THEOREM ClockNeverGoesBack == Spec => ClockOnlyForward
<1>1. IInv /\ [Next]_vars => [now' + ahead' >= now + ahead]_vars
  BY ClockStep
<1> QED
  BY InductiveInvariant, <1>1, PTL DEF Spec, ClockOnlyForward

-----------------------------------------------------------------------------
(* What wins the arbitration.                                              *)

LEMMA WinnerStep ==
  ASSUME IInv, [Next]_vars, pc' = "publish", pc = "select"
  PROVE  LET s   == selected'
             age == loopNow - samples[s].received
         IN /\ age >= 0
            /\ age < Wrap => age < Window(s)
            /\ ~(active[s] /\ loopNow < until[s])
<1>0. TypeOK /\ LoopInTime /\ Deadlines
  BY DEF IInv
<1>1. LoopSelect
  BY NextSteps
     DEF Tick, LoopRead, LoopUnsynced, EndLoop, LoopPublish, StartSntp, StopSntp, SetGpsPoll,
         FeedOutlier, FeedStored, FeedRest, loop, vars
<1>2. PICK s \in Sources : s = Arbitrated(loopNow) /\ selected' = s
  BY <1>1 DEF LoopSelect
<1>3. Fresh(s, loopNow) /\ ~Quarantined(s, loopNow)
  BY <1>2, ArbitratedUsable DEF Usable
<1>4. /\ samples[s].received <= loopNow
      /\ loopNow - samples[s].received < Wrap =>
           Age(loopNow, s) = loopNow - samples[s].received
  BY <1>0, <1>3, FreshIsPast
<1>5. Age(loopNow, s) < Window(s)
  BY <1>3 DEF Fresh
<1>6. loopNow \in Int /\ samples[s].received \in Int /\ until[s] \in Int
  BY <1>0, ConstantFacts DEF TypeOK
<1>7. loopNow - samples[s].received >= 0
  BY <1>4, <1>6
<1>8. loopNow - samples[s].received < Wrap => loopNow - samples[s].received < Window(s)
  BY <1>4, <1>5
<1>9. ~(active[s] /\ loopNow < until[s])
  <2>1. SUFFICES ASSUME active[s], loopNow < until[s] PROVE FALSE
    OBVIOUS
  <2>2. Reached(loopNow, until[s]) <=> until[s] <= loopNow
    BY <1>0, <2>1, ReachedThen
  <2> QED
    BY <1>3, <1>6, <2>1, <2>2 DEF Quarantined
<1> QED
  BY <1>2, <1>7, <1>8, <1>9

\* A source that wins was heard before the loop task read millis(), is fresh in
\* real time unless it was silent for a whole turn of millis(), and is not
\* excluded.
THEOREM FreshSamplesWin == Spec => OnlyFreshSamplesWin
<1>1. IInv /\ [Next]_vars =>
        [pc' = "publish" /\ pc = "select" =>
           LET s   == selected'
               age == loopNow - samples[s].received
           IN /\ age >= 0
              /\ age < Wrap => age < Window(s)
              /\ ~(active[s] /\ loopNow < until[s])]_vars
  BY WinnerStep
<1> QED
  BY InductiveInvariant, <1>1, PTL DEF Spec, OnlyFreshSamplesWin

-----------------------------------------------------------------------------
(* The spoof defence, against one liar.                                    *)

OneLiar == \A a, b \in Liars : a = b

\* How far a source's samples may lead.
Lead(s) == IF s \in Liars THEN QuarantineDiff ELSE 0

\* As long as every wrong sample met a quorum, samples are true, or nearly.
SamplesNearUTC ==
  ~exposed => \A s \in Sources : samples[s] # NoSample =>
                samples[s].epoch <= Base + samples[s].received + Lead(s)

\* Two that agree and tell the truth have a mean that is not in the future.
LEMMA MeanIsPast ==
  ASSUME NEW x \in Int, NEW y \in Int, NEW u \in Int, x <= u, y <= u
  PROVE  (x + y) \div 2 \in Int /\ (x + y) \div 2 <= u
OBVIOUS

LEMMA NearTheMean ==
  ASSUME NEW e \in Int, NEW m \in Int, NEW u \in Int, NEW d \in Nat,
         m <= u, ~(Distance(e, m) > d)
  PROVE  e <= u + d
BY DEF Distance

\* A sample that is stored without exposing the clock is nearly true.
LEMMA StoredIsNear ==
  ASSUME OneLiar, TypeOK, SamplesNearUTC, ~exposed, NEW s \in Sources, NEW e \in Said(s),
         ~Outlier(s, e, now), e # UTC => HasQuorum(s, now)
  PROVE  e <= Base + now + Lead(s)
<1>0. e \in Int /\ UTC \in Int /\ UTC = Base + now
  BY SaidIsInt, ConstantFacts DEF TypeOK, UTC
<1>1. CASE e = UTC
  BY <1>0, <1>1, ConstantFacts DEF Lead
<1>2. CASE e # UTC
  <2>1. s \in Liars
    BY <1>0, <1>2 DEF Said
  <2>2. PICK p \in Sources, q \in Sources : Agreeing(s, now, p, q)
    BY <1>2 DEF HasQuorum
  <2> DEFINE mean == (samples[p].epoch + samples[q].epoch) \div 2
  <2>3. ~(Distance(e, mean) > QuarantineDiff)
    BY <2>2 DEF Outlier
  <2>4. ASSUME NEW x \in {p, q} PROVE samples[x].epoch \in Int /\ samples[x].epoch <= UTC
    <3>1. x \in Sources /\ x # s /\ samples[x] # NoSample
      BY <2>2, <2>4 DEF Agreeing, Peers, Usable, Fresh
    <3>2. x \notin Liars
      BY <2>1, <3>1 DEF OneLiar
    <3>3. samples[x].epoch <= Base + samples[x].received
      <4>1. samples[x].epoch <= Base + samples[x].received + 0
        BY <3>1, <3>2 DEF SamplesNearUTC, Lead
      <4> QED
        BY <3>1, <4>1, ConstantFacts DEF TypeOK
    <3>4. samples[x].epoch \in Int /\ samples[x].received \in Nat /\ samples[x].received <= now
          /\ now \in Nat
      BY <3>1, ConstantFacts DEF TypeOK
    <3> QED
      BY <1>0, <3>3, <3>4, ConstantFacts
  <2>5. mean \in Int /\ mean <= UTC
    BY <1>0, <2>4, MeanIsPast
  <2> HIDE DEF mean
  <2>6. e <= UTC + QuarantineDiff
    BY <1>0, <2>3, <2>5, NearTheMean, ConstantFacts
  <2> QED
    BY <1>0, <2>1, <2>6 DEF Lead
<1> QED
  BY <1>1, <1>2

LEMMA NearStep ==
  ASSUME OneLiar, IInv, SamplesNearUTC, ClockNearUTC, [Next]_vars
  PROVE  SamplesNearUTC' /\ ClockNearUTC'
<1>0. TypeOK /\ LoopInTime
  BY DEF IInv
<1>1. CASE samples' = samples /\ exposed' = exposed /\ ahead' = ahead
  BY <1>1 DEF SamplesNearUTC, ClockNearUTC
<1>2. CASE LoopSelect
  <2>1. samples' = samples /\ exposed' = exposed /\ pc # "idle"
    BY <1>2 DEF LoopSelect
  <2>2. SamplesNearUTC'
    BY <2>1 DEF SamplesNearUTC
  <2>3. SUFFICES ASSUME ~exposed PROVE ahead' <= QuarantineDiff
    BY <2>1, <2>2 DEF ClockNearUTC
  <2>4. ahead <= QuarantineDiff
    BY <2>3 DEF ClockNearUTC
  <2>5. PICK s \in Sources :
          /\ s = Arbitrated(loopNow)
          /\ Expected(s) \in Int
          /\ \/ ahead' = Expected(s) - UTC
             \/ ahead' \in Int /\ (ahead' = ahead \/ ahead' <= Expected(s) - (Base + loopNow))
    BY <1>0, <1>2, SelectClock
  <2>6. Fresh(s, loopNow)
    BY <2>5, ArbitratedUsable DEF Usable
  <2>7. /\ samples[s] # NoSample
        /\ Age(loopNow, s) \in Nat
        /\ Age(loopNow, s) <= loopNow - samples[s].received
    BY <1>0, <2>1, <2>6, FreshIsPast DEF Fresh
  <2>8. /\ samples[s].epoch \in Int /\ samples[s].received \in Nat
        /\ now \in Nat /\ loopNow \in Nat /\ loopNow <= now /\ ahead \in Int
    BY <1>0, ConstantFacts DEF TypeOK, LoopInTime
  <2>9. samples[s].epoch <= Base + samples[s].received + QuarantineDiff
    <3>1. samples[s].epoch <= Base + samples[s].received + Lead(s)
      BY <2>3, <2>7 DEF SamplesNearUTC
    <3>2. Lead(s) \in Nat /\ Lead(s) <= QuarantineDiff
      BY ConstantFacts DEF Lead
    <3> QED
      BY <2>8, <3>1, <3>2, ConstantFacts
  <2>10. Expected(s) <= Base + loopNow + QuarantineDiff
    BY <2>7, <2>8, <2>9, ConstantFacts DEF Expected
  <2>11. CASE ahead' = Expected(s) - UTC
    BY <2>5, <2>8, <2>10, <2>11, ConstantFacts DEF UTC
  <2>12. CASE ahead' = ahead
    BY <2>4, <2>12
  <2>13. CASE ahead' \in Int /\ ahead' <= Expected(s) - (Base + loopNow)
    BY <2>5, <2>8, <2>10, <2>13, ConstantFacts
  <2> QED
    BY <2>5, <2>11, <2>12, <2>13
<1>3. ASSUME NEW s \in Sources, NEW e \in Said(s), FeedStored(s, e)
      PROVE  SamplesNearUTC' /\ ClockNearUTC'
  <2>1. /\ ahead' = ahead /\ ~Outlier(s, e, now)
        /\ samples' = [samples EXCEPT ![s] =
                         IF e > 0 THEN [epoch |-> e, received |-> now] ELSE NoSample]
        /\ exposed' = (exposed \/ (e # UTC /\ ~HasQuorum(s, now)))
    BY <1>3 DEF FeedStored, FeedRest
  <2>2. ~exposed' => ~exposed /\ (e # UTC => HasQuorum(s, now))
    BY <2>1
  <2>3. ClockNearUTC'
    BY <2>1, <2>2 DEF ClockNearUTC
  <2>4. SUFFICES ASSUME ~exposed', NEW p \in Sources, samples'[p] # NoSample
                 PROVE  samples'[p].epoch <= Base + samples'[p].received + Lead(p)
    BY <2>3 DEF SamplesNearUTC, Lead, NoSample
  <2>5. CASE p = s
    <3>1. samples'[p] = [epoch |-> e, received |-> now]
      BY <1>0, <2>1, <2>4, <2>5 DEF TypeOK
    <3>2. e <= Base + now + Lead(s)
      BY <1>0, <2>1, <2>2, <2>4, StoredIsNear
    <3> QED
      BY <2>5, <3>1, <3>2
  <2>6. CASE p # s
    <3>1. samples'[p] = samples[p]
      BY <1>0, <2>1, <2>6 DEF TypeOK
    <3> QED
      BY <2>2, <2>4, <3>1 DEF SamplesNearUTC
  <2> QED
    BY <2>5, <2>6
<1>4. \/ LoopSelect
      \/ \E s \in Sources : \E e \in Said(s) : FeedStored(s, e)
      \/ samples' = samples /\ exposed' = exposed /\ ahead' = ahead
  BY NextSteps
     DEF Tick, LoopRead, LoopUnsynced, LoopPublish, StartSntp, StopSntp, SetGpsPoll,
         FeedOutlier, FeedRest, vars
<1> QED
  BY <1>1, <1>2, <1>3, <1>4

\* With at most one source that lies: unless a wrong sample came when no quorum
\* could judge it, the system clock never leads UTC by more than the quarantine
\* distance, whatever the liar says and however old the samples are.
THEOREM SpoofDefence ==
  ASSUME OneLiar
  PROVE  Spec => []ClockNearUTC
<1>1. Init => SamplesNearUTC /\ ClockNearUTC
  BY ConstantFacts DEF Init, SamplesNearUTC, ClockNearUTC
<1>2. IInv /\ (SamplesNearUTC /\ ClockNearUTC) /\ [Next]_vars
        => (SamplesNearUTC /\ ClockNearUTC)'
  BY NearStep
<1> QED
  BY InductiveInvariant, <1>1, <1>2, PTL DEF Spec
=============================================================================
