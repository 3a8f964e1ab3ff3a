------------------------------ MODULE TimeSync ------------------------------
(***************************************************************************)
(* The shared clock of the firmware (TimeSync in time_sync.cpp): GNSS,     *)
(* SNTP and NITZ samples arrive from three tasks, an outlier against a     *)
(* quorum of the two others is quarantined, and the loop task picks the    *)
(* best fresh source, disciplines the system clock forwards only and       *)
(* publishes the result for NTP clients and the web interface.             *)
(*                                                                         *)
(* now is the real time since power-on; the code only sees millis(), which *)
(* is now modulo Wrap.  Instants are kept unreduced in the state and       *)
(* reduced by Age and Reached, which are all that looks at them.  UTC is   *)
(* Base + now.                                                             *)
(***************************************************************************)
EXTENDS Integers, FiniteSets

CONSTANTS
  Wrap,         \* 2^32 ms
  Base,         \* UTC at power-on
  Start,        \* now when timeSync.begin() runs
  MaxTime,      \* bound on now
  Liars,        \* sources that may be wrong about the time
  Errors,       \* by how much
  GpsPolls,     \* GNSS poll intervals the user may choose
  GnssSlack,    \* the 10 s in isGnssFresh
  SntpFresh,    \* kSntpFreshMs
  NitzFresh,    \* kNitzFreshMs
  QuorumAgree,  \* kQuorumAgreeMs
  QuarantineDiff,      \* kQuarantineDiffMs
  QuarantineDuration,  \* kQuarantineDurationMs
  QuarantineMax,       \* kQuarantineMaxMs
  Deadband,     \* the 2000 ms of disciplineAt
  LoopDelay,    \* bound on the time between two steps of loop()
  LoopPeriod    \* bound on the time between two calls of it: the task watchdog

Sources == {"gnss", "sntp", "nitz"}

ASSUME TimeSyncAssumption ==
  /\ {Base, QuorumAgree, GnssSlack, Start, LoopDelay, LoopPeriod} \subseteq Nat
  /\ {SntpFresh, NitzFresh, QuarantineDiff, QuarantineDuration, Deadband} \subseteq Nat \ {0}
  /\ Wrap \in Nat \ {0} /\ Wrap % 2 = 0
  /\ QuarantineMax \in Nat /\ QuarantineDuration <= QuarantineMax
  /\ 2 * (QuarantineMax + LoopDelay) <= Wrap
  /\ 2 * (LoopPeriod + LoopDelay) < Wrap
  /\ \A p \in GpsPolls : 2 * p + GnssSlack + LoopDelay <= Wrap
  /\ SntpFresh + LoopDelay <= Wrap /\ NitzFresh + LoopDelay <= Wrap
  /\ MaxTime \in Nat /\ Start <= MaxTime
  /\ Liars \subseteq Sources
  /\ Errors \subseteq Int
  /\ GpsPolls # {} /\ GpsPolls \subseteq Nat
  /\ LoopDelay <= Deadband /\ LoopDelay <= LoopPeriod

VARIABLES
  now,          \* real time since power-on
  samples,      \* samples_: per source the last accepted sample or NoSample
  active,       \* quarantineActive_
  until,        \* quarantineUntilMs_
  duration,     \* quarantineDurationMs_
  gpsPoll,      \* gpsPollMs_
  sntpRunning,  \* sntpRunning_, and the hook that feeds SNTP
  ahead,        \* the system clock minus UTC
  published,    \* published_: the source, which fixes the stratum, and the flag
  pc,           \* where the loop task is in loop()
  loopNow,      \* the millis() it read last
  selected,     \* the source loopAt chose
  exposed       \* history: a wrong sample was stored while there was no quorum

quarantine == <<active, until, duration>>
config     == <<gpsPoll, sntpRunning>>
loop       == <<pc, loopNow, selected>>
vars == <<now, samples, quarantine, config, ahead, published, loop, exposed>>

NoSample == [epoch |-> 0, received |-> 0]
Unsynced == "unsynced"
Best     == Sources \cup {Unsynced}
UTC      == Base + now

TypeOK ==
  /\ now \in Start .. MaxTime
  /\ samples \in [Sources -> [epoch : Int, received : Nat]]
  /\ \A s \in Sources : samples[s] # NoSample => samples[s].epoch > 0 /\ samples[s].received <= now
  /\ active \in [Sources -> BOOLEAN]
  /\ until \in [Sources -> Nat]
  /\ duration \in [Sources -> QuarantineDuration .. QuarantineMax]
  /\ gpsPoll \in GpsPolls
  /\ sntpRunning \in BOOLEAN
  /\ ahead \in Int
  /\ published \in [source : Best, quarantined : BOOLEAN]
  /\ pc \in {"idle", "select", "publish"}
  /\ loopNow \in Start .. MaxTime
  /\ selected \in Best
  /\ exposed \in BOOLEAN

\* The system clock starts at the epoch; begin() clears everything else.
Init ==
  /\ now = Start
  /\ samples = [s \in Sources |-> NoSample]
  /\ active = [s \in Sources |-> FALSE]
  /\ until = [s \in Sources |-> 0]
  /\ duration = [s \in Sources |-> QuarantineDuration]
  /\ gpsPoll \in GpsPolls
  /\ sntpRunning = FALSE
  /\ ahead = -Base
  /\ published = [source |-> Unsynced, quarantined |-> FALSE]
  /\ pc = "idle"
  /\ loopNow = Start
  /\ selected = Unsynced
  /\ exposed = FALSE

-----------------------------------------------------------------------------
(* Plausible bugs, used only to show that the properties notice them.      *)

\* An age without unsigned wrap-around.
AgeSigned(t, s) == (t % Wrap) - (samples[s].received % Wrap)

\* A clock that follows corrections back.
DisciplinedBothWays(diff) == {diff}

\* A distance that sees only what lies behind.
DistanceBehind(x, y) == y - x

\* A quarantined or stale source still judges the others.
PeersAll(s, t) == {p \in Sources \ {s} : samples[p] # NoSample}

-----------------------------------------------------------------------------
(* millis() arithmetic, freshness and quorum.                              *)

\* millis_deadline::reached
Reached(t, deadline) == (t - deadline) % Wrap < Wrap \div 2

Age(t, s) == (t - samples[s].received) % Wrap

Window(s) ==
  CASE s = "gnss" -> 2 * gpsPoll + GnssSlack
    [] s = "sntp" -> SntpFresh
    [] s = "nitz" -> NitzFresh

Fresh(s, t) == samples[s] # NoSample /\ Age(t, s) < Window(s)

Quarantined(s, t) == active[s] /\ ~Reached(t, until[s])

Usable(s, t) == Fresh(s, t) /\ ~Quarantined(s, t)

Peers(s, t) == {p \in Sources \ {s} : Usable(p, t)}

Distance(x, y) == IF x > y THEN x - y ELSE y - x

\* Two usable peers agree.
Agreeing(s, t, p, q) ==
  /\ {p, q} \subseteq Peers(s, t) /\ p # q
  /\ Distance(samples[p].epoch, samples[q].epoch) <= QuorumAgree

HasQuorum(s, t) == \E p, q \in Sources : Agreeing(s, t, p, q)

\* The new epoch is far from the mean of two agreeing peers.
Outlier(s, epoch, t) ==
  \E p, q \in Sources :
    /\ Agreeing(s, t, p, q)
    /\ Distance(epoch, (samples[p].epoch + samples[q].epoch) \div 2) > QuarantineDiff

Backoff(d) == IF 2 * d > QuarantineMax THEN QuarantineMax ELSE 2 * d

-----------------------------------------------------------------------------
(* Samples, from the GNSS poll task, the modem poll task and lwIP.         *)

FeedRest == <<now, config, ahead, published, loop>>

\* What source s may say now.
Said(s) == {UTC + e : e \in IF s \in Liars THEN Errors ELSE {0}}

\* sntp_sync_time drops what comes in after stopSntp().
CanFeed(s) == s = "sntp" => sntpRunning

\* feedSampleAt while the source is quarantined.
FeedDiscarded(s) ==
  /\ CanFeed(s)
  /\ Quarantined(s, now)
  /\ UNCHANGED vars

FeedOutlier(s, epoch) ==
  /\ CanFeed(s)
  /\ ~Quarantined(s, now)
  /\ Outlier(s, epoch, now)
  /\ active' = [active EXCEPT ![s] = TRUE]
  /\ until' = [until EXCEPT ![s] = now + duration[s]]
  /\ duration' = [duration EXCEPT ![s] = Backoff(@)]
  /\ UNCHANGED <<FeedRest, samples, exposed>>

FeedStored(s, epoch) ==
  /\ CanFeed(s)
  /\ ~Quarantined(s, now)
  /\ ~Outlier(s, epoch, now)
  /\ samples' = [samples EXCEPT ![s] =
                   IF epoch > 0 THEN [epoch |-> epoch, received |-> now] ELSE NoSample]
  /\ exposed' = (exposed \/ (epoch # UTC /\ ~HasQuorum(s, now)))
  /\ UNCHANGED <<FeedRest, quarantine>>

Feed(s) == FeedDiscarded(s) \/ \E e \in Said(s) : FeedOutlier(s, e) \/ FeedStored(s, e)

-----------------------------------------------------------------------------
(* The loop task.                                                          *)

\* loop() reads millis() and the system clock.
LoopRead ==
  /\ pc = "idle"
  /\ pc' = "select"
  /\ loopNow' = now
  /\ UNCHANGED <<now, samples, quarantine, config, ahead, published, selected, exposed>>

Expired(s) == active[s] /\ Reached(loopNow, until[s])

\* Quarantines that are over are lifted and their backoff starts again.
LiftExpired ==
  /\ active' = [s \in Sources |-> active[s] /\ ~Expired(s)]
  /\ until' = [s \in Sources |-> IF Expired(s) THEN 0 ELSE until[s]]
  /\ duration' = [s \in Sources |-> IF Expired(s) THEN QuarantineDuration ELSE duration[s]]

\* arbitrateAtLocked
Arbitrated(t) ==
  CASE Usable("gnss", t) -> "gnss"
    [] ~Usable("gnss", t) /\ Usable("sntp", t) -> "sntp"
    [] ~Usable("gnss", t) /\ ~Usable("sntp", t) /\ Usable("nitz", t) -> "nitz"
    [] OTHER -> Unsynced

\* loopNow tells from here on when the last call was.
EndLoop == pc' = "idle" /\ selected' = Unsynced /\ UNCHANGED loopNow

LoopUnsynced ==
  /\ pc = "select"
  /\ Arbitrated(loopNow) = Unsynced
  /\ LiftExpired
  /\ published' = [source |-> Unsynced, quarantined |-> FALSE]
  /\ EndLoop
  /\ UNCHANGED <<now, samples, config, ahead, exposed>>

\* The selected sample extrapolated by its age.
Expected(s) == samples[s].epoch + Age(loopNow, s)

\* By how much disciplineAt may move the clock, given what is missing: never
\* back, past the dead band by a step, below it by a slew that later loops go on
\* with.
Disciplined(diff) == IF diff > Deadband THEN {diff} ELSE {0} \cup 0 .. diff

\* The clock was read at loopNow; a step sets it to what was expected then.
LoopSelect ==
  /\ pc = "select"
  /\ \E s \in Sources :
       /\ s = Arbitrated(loopNow)
       /\ selected' = s
       /\ LET expected == Expected(s)
          IN \E d \in Disciplined(expected - (Base + loopNow + ahead)) :
               ahead' = IF d > Deadband THEN expected - UTC ELSE ahead + d
  /\ LiftExpired
  /\ pc' = "publish"
  /\ UNCHANGED <<now, samples, config, published, loopNow, exposed>>

LoopPublish ==
  /\ pc = "publish"
  /\ published' = [source |-> selected,
                   quarantined |-> \E s \in Sources : Quarantined(s, loopNow)]
  /\ EndLoop
  /\ UNCHANGED <<now, samples, quarantine, config, ahead, exposed>>

\* WifiManager::startWallClock, when the station has connected.
StartSntp ==
  /\ pc = "idle"
  /\ sntpRunning' = TRUE
  /\ UNCHANGED <<now, samples, quarantine, gpsPoll, ahead, published, loop, exposed>>

StopSntp ==
  /\ pc = "idle"
  /\ sntpRunning
  /\ sntpRunning' = FALSE
  /\ UNCHANGED <<now, samples, quarantine, gpsPoll, ahead, published, loop, exposed>>

\* The user saves another GNSS poll interval.
SetGpsPoll(p) ==
  /\ pc = "idle"
  /\ gpsPoll' = p
  /\ UNCHANGED <<now, samples, quarantine, sntpRunning, ahead, published, loop, exposed>>

LoopStep ==
  \/ LoopRead \/ LoopUnsynced \/ LoopSelect \/ LoopPublish
  \/ StartSntp \/ StopSntp
  \/ \E p \in GpsPolls : SetGpsPoll(p)

\* Time passes; the loop task is not held up longer than LoopDelay within loop()
\* and calls it again before the watchdog resets the chip.
Tick ==
  /\ now < MaxTime
  /\ now - loopNow < IF pc = "idle" THEN LoopPeriod ELSE LoopDelay
  /\ now' = now + 1
  /\ UNCHANGED <<samples, quarantine, config, ahead, published, loop, exposed>>

Next == Tick \/ LoopStep \/ \E s \in Sources : Feed(s)

Spec == Init /\ [][Next]_vars

-----------------------------------------------------------------------------
(* Properties.                                                             *)

\* Quarantine never silences the arbitration: a source is only excluded on the
\* word of two that are not, so no two are excluded at a time.
AtMostOneExcluded ==
  \A s, p \in Sources : Quarantined(s, now) /\ Quarantined(p, now) => s = p

\* "Clock updates never move the published time backwards": the system clock,
\* which NTP clients are served, only goes forward, although it is set to a
\* value computed from a reading that is already old.
ClockOnlyForward == [][now' + ahead' >= now + ahead]_vars

\* Spoof defence: unless a wrong sample came when no quorum could judge it, no
\* liar moves the system clock past UTC by more than the quarantine distance.
ClockNearUTC == ~exposed => ahead <= QuarantineDiff

\* "Only fresh, non-quarantined samples can win", in real time and not only in
\* the arithmetic of millis().  A sample is never thrown away: once it is older
\* than a full turn of millis() its age starts again, and nothing is said of it.
OnlyFreshSamplesWin ==
  [][pc' = "publish" /\ pc = "select" =>
       LET s   == selected'
           age == loopNow - samples[s].received
       IN /\ age >= 0
          /\ age < Wrap => age < Window(s)
          /\ ~(active[s] /\ loopNow < until[s])]_vars
=============================================================================
