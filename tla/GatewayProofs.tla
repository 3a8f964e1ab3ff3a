---------------------------- MODULE GatewayProofs ----------------------------
(***************************************************************************)
(* Theorems about Gateway, for every number of networks and passwords, any *)
(* threshold of the boot-loop detection, any number of resets, requests    *)
(* and outages, with and without storage and access-point faults.          *)
(***************************************************************************)
EXTENDS Gateway, TLAPS

\* The types, the resets that are left counted in.
Typed ==
  /\ TypeOK
  /\ count + budget.resets <= MaxResets
  /\ crashes + budget.resets <= MaxResets

\* What makes CrashLoopContained inductive: the retained count never falls behind
\* the crashes, because a window that clears it has passed without one; a count
\* at the threshold is safe mode; and in safe mode nothing risky was started.
Contained ==
  /\ crashes <= count
  /\ timer["stable"] = "due" => crashes = 0
  /\ count >= Threshold => safe
  /\ safe => ~services

\* What makes ApFollowsPassword inductive: before the first set-up the access point is
\* the open one, and a network under test changes no password.
Guarded ==
  /\ ApFollowsPassword
  /\ config.ssid = None /\ ap # None => ap = "open"
  /\ pc = "test" =>
       candidate.ssid # None /\ (config.ssid # None => candidate.admin = config.admin)

IInv == Typed /\ Contained /\ RestartKeepsProfile /\ Guarded /\ SntpFollowsProfile

-----------------------------------------------------------------------------
(* Profiles and timers.                                                    *)

LEMMA EmptyIsProfile == Empty \in Profiles
BY DEF Empty, Profiles

LEMMA LoadableAreProfiles ==
  ASSUME TypeOK
  PROVE  Loadable \subseteq Profiles
BY DEF TypeOK, Loadable

LEMMA FreshTimersTyped ==
  /\ FreshTimers \in [Timers -> {"off", "on", "due"}]
  /\ FreshTimers["stable"] = "on"
  /\ FreshTimers["restart"] = "off" /\ FreshTimers["shutdown"] = "off"
BY DEF FreshTimers, Timers

Budgets == [requests : 0 .. MaxRequests, resets : 0 .. MaxResets, outages : 0 .. MaxOutages]

\* Starting the access point leaves it off or guarded, and takes no reset.
LEMMA StartAccessPointTyped ==
  ASSUME NEW c \in Profiles,
         NEW left \in Budgets, StartAccessPoint(c, left)
  PROVE  /\ ap' \in Passwords \cup {None, "open"}
         /\ ap' # None => ap' = Guard(c)
         /\ budget' \in Budgets
         /\ budget'.resets = left.resets
BY GatewayAssumption DEF StartAccessPoint, Guard, Profiles, Budgets


\* A station attempt keeps the types, comes out connecting or where it was, and
\* touches no timer but its own.
LEMMA AttemptTyped ==
  ASSUME TypeOK, NEW t \in [Timers -> {"off", "on", "due"}], Attempt(config, t)
  PROVE  /\ radio' \in Networks \cup {None}
         /\ link' \in BOOLEAN
         /\ conn' \in {"initial", "connecting", "online", "fallback"}
         /\ conn' = "online" => conn = "online"
         /\ timer' \in [Timers -> {"off", "on", "due"}]
         /\ \A n \in Timers \ {"attempt"} : timer'[n] = t[n]
<1>1. CASE config.ssid = None
  BY <1>1 DEF Attempt, TypeOK
<1>2. CASE config.ssid # None
  BY ZenonT(30), <1>2 DEF Attempt, TypeOK, Profiles, Timers
<1> QED BY <1>1, <1>2

\* A connection that is found comes out online, with the access point gone or its
\* shutdown pending.
LEMMA ConnectedTyped ==
  ASSUME TypeOK, NEW c \in Profiles, NEW defer \in {"no", "later"},
         NEW t \in [Timers -> {"off", "on", "due"}], Connected(c, defer, t)
  PROVE  /\ conn' = "online"
         /\ sntp' = c.ntp /\ sntp' \in BOOLEAN
         /\ ap' \in {ap, None}
         /\ ap' # None => timer'["shutdown"] = "on" /\ timer'["restart"] = t["restart"]
         /\ timer' \in [Timers -> {"off", "on", "due"}]
         /\ timer'["stable"] = t["stable"]
<1>1. conn' = "online" /\ sntp' = c.ntp /\ sntp' \in BOOLEAN
  BY DEF Connected, Profiles
<1>2. CASE ap = None
  BY <1>1, <1>2 DEF Connected, Timers
<1>3. CASE ap # None /\ defer = "no"
  BY <1>1, <1>3 DEF Connected, Stopped, Timers
<1>4. CASE ap # None /\ defer # "no"
  BY <1>1, <1>4 DEF Connected, Timers
<1> QED BY <1>2, <1>3, <1>4

LEMMA EnterFallbackTyped ==
  ASSUME TypeOK, EnterFallback
  PROVE  /\ conn' = "fallback"
         /\ ap' \in Passwords \cup {None, "open"}
         /\ ap # None => ap' = ap
         /\ ap = None /\ ap' # None => ap' = Guard(config)
         /\ timer' \in [Timers -> {"off", "on", "due"}]
         /\ \A n \in Timers \ {"attempt", "retry"} : timer'[n] = timer[n]
         /\ budget' \in Budgets /\ budget'.resets = budget.resets
<1>1. conn' = "fallback" /\ timer' = [timer EXCEPT !["retry"] = "on", !["attempt"] = "off"]
  BY DEF EnterFallback
<1>2. CASE ap = None
  <2>1. StartAccessPoint(config, budget)
    BY <1>2 DEF EnterFallback
  <2> QED BY <1>1, <1>2, <2>1, StartAccessPointTyped DEF TypeOK, Timers, Budgets
<1>3. CASE ap # None
  BY <1>1, <1>3 DEF EnterFallback, TypeOK, Timers, Budgets
<1> QED BY <1>2, <1>3

-----------------------------------------------------------------------------
(* The first boot.                                                         *)

LEMMA InitEstablishes == Init => IInv
<1> SUFFICES ASSUME Init PROVE IInv
  OBVIOUS
<1>1. stored \in Profiles \cup {None} /\ config \in Profiles
  BY EmptyIsProfile DEF Init, Profiles
<1>2. timer \in [Timers -> {"off", "on", "due"}] /\ timer["stable"] = "on"
  BY FreshTimersTyped DEF Init, Timers
<1>3. radio \in Networks \cup {None}
  BY <1>1 DEF Init, Profiles
<1>4. budget \in Budgets /\ budget.resets = MaxResets
  BY GatewayAssumption DEF Init, Budgets
<1>5. TypeOK
  <2>1. /\ kept \in BOOLEAN /\ safe \in BOOLEAN /\ wasSafe \in BOOLEAN /\ services \in BOOLEAN
        /\ link \in BOOLEAN /\ sntp \in BOOLEAN
    BY DEF Init
  <2>2. count \in 0 .. MaxResets /\ crashes \in 0 .. MaxResets
    BY GatewayAssumption DEF Init
  <2>3. conn \in {"initial", "connecting", "online", "fallback"}
    BY DEF Init
  <2>4. ap \in Passwords \cup {None, "open"} /\ pc = "head" /\ candidate = Empty
    BY DEF Init
  <2> QED BY <1>1, <1>2, <1>3, <1>4, <2>1, <2>2, <2>3, <2>4, EmptyIsProfile DEF TypeOK, Budgets
<1>6. Typed
  BY <1>4, <1>5, GatewayAssumption DEF Init, Typed
<1>7. Contained
  BY <1>2, GatewayAssumption DEF Init, Contained
<1>8. RestartKeepsProfile /\ SntpFollowsProfile
  BY DEF Init, RestartKeepsProfile, SntpFollowsProfile, Empty
<1>9. Guarded
  BY GatewayAssumption DEF Init, Guarded, ApFollowsPassword, Empty
<1> QED BY <1>6, <1>7, <1>8, <1>9 DEF IInv

-----------------------------------------------------------------------------
(* A reset.                                                                *)

\* setup() keeps everything typed, and starts an access point only of the
\* profile it loaded.
LEMMA SetupTyped ==
  ASSUME TypeOK, NEW c \in Profiles, NEW unsafe \in BOOLEAN, NEW left \in Budgets,
         Setup(c, unsafe, left)
  PROVE  /\ config' = c
         /\ services' = ~unsafe /\ wasSafe' = unsafe
         /\ pc' = "head" /\ candidate' = Empty /\ sntp' = FALSE /\ link' = FALSE
         /\ conn' \in {"initial", "connecting", "fallback"}
         /\ ap' \in Passwords \cup {None, "open"}
         /\ ap' # None => ap' = Guard(c)
         /\ radio' \in Networks \cup {None}
         /\ timer' \in [Timers -> {"off", "on", "due"}]
         /\ timer'["stable"] = "on"
         /\ budget' \in Budgets /\ budget'.resets = left.resets
<1>1. CASE c.ssid = None \/ unsafe
  <2>1. StartAccessPoint(c, left)
    BY <1>1 DEF Setup
  <2>2. timer' = FreshTimers /\ radio' = None /\ conn' \in {"initial", "fallback"}
    BY <1>1 DEF Setup
  <2> QED BY <2>1, <2>2, StartAccessPointTyped, FreshTimersTyped DEF Setup
<1>2. CASE ~(c.ssid = None \/ unsafe)
  <2>1. /\ conn' = "connecting" /\ ap' = None /\ radio' = c.ssid /\ budget' = left
        /\ timer' = [FreshTimers EXCEPT !["attempt"] = "on"]
    BY <1>2 DEF Setup
  <2>2. timer' \in [Timers -> {"off", "on", "due"}] /\ timer'["stable"] = "on"
    BY <2>1, FreshTimersTyped DEF Timers
  <2>3. radio' \in Networks \cup {None}
    BY <2>1 DEF Profiles
  <2> QED BY <2>1, <2>2, <2>3 DEF Setup
<1> QED BY <1>1, <1>2

LEMMA ResetStep ==
  ASSUME IInv, NEW why \in Resets, Reset(why)
  PROVE  IInv'
<1> DEFINE left == [budget EXCEPT !.resets = @ - 1]
<1>1. TypeOK /\ Typed /\ Contained
  BY DEF IInv, Typed
<1>2. left \in Budgets /\ left.resets = budget.resets - 1
  <2>1. budget.resets > 0
    BY DEF Reset
  <2>2. budget \in Budgets
    BY <1>1 DEF TypeOK, Budgets
  <2>3. budget.resets - 1 \in 0 .. MaxResets
    BY <2>1, <2>2, GatewayAssumption DEF Budgets
  <2> QED BY <2>2, <2>3 DEF Budgets
<1>3. PICK c \in Loadable \cup {Empty} : Loads(c) /\ Setup(c, safe', left)
  BY DEF Reset
<1>4. c \in Profiles /\ (c.ssid # None => c = stored)
  <2>1. CASE c = Empty
    BY <2>1, EmptyIsProfile DEF Empty
  <2>2. CASE c \in Loadable
    BY <1>1, <2>2, LoadableAreProfiles DEF Loadable
  <2> QED BY <2>1, <2>2
<1>5. safe' \in BOOLEAN /\ kept' = safe'
  BY DEF Reset, EntersSafeMode
<1>6. /\ count' \in Nat /\ crashes' \in Nat
      /\ count' <= count + 1 /\ crashes' <= crashes + 1
      /\ crashes' <= count'
      /\ count' >= Threshold => safe'
  <2>1. count' = CountAfter(why) /\ (safe' <=> EntersSafeMode(CountAfter(why), Retained(why)))
    BY DEF Reset
  <2>2. CASE why = "crash"
    BY <1>1, <2>1, <2>2, GatewayAssumption DEF Reset, CountAfter, EntersSafeMode, TypeOK, Contained
  <2>3. CASE why = "other"
    BY <1>1, <2>1, <2>3, GatewayAssumption DEF Reset, CountAfter, EntersSafeMode, TypeOK, Contained
  <2>4. CASE why \in {"power", "software"}
    BY <1>1, <2>1, <2>4, GatewayAssumption DEF Reset, CountAfter, EntersSafeMode, TypeOK, Contained
  <2> QED BY <2>2, <2>3, <2>4 DEF Resets
<1> HIDE DEF left
<1>7. /\ config' = c
      /\ services' = ~safe' /\ wasSafe' = safe'
      /\ pc' = "head" /\ candidate' = Empty /\ sntp' = FALSE /\ link' = FALSE
      /\ conn' \in {"initial", "connecting", "fallback"}
      /\ ap' \in Passwords \cup {None, "open"}
      /\ ap' # None => ap' = Guard(c)
      /\ radio' \in Networks \cup {None}
      /\ timer' \in [Timers -> {"off", "on", "due"}]
      /\ timer'["stable"] = "on"
      /\ budget' \in Budgets /\ budget'.resets = left.resets
  BY <1>1, <1>2, <1>3, <1>4, <1>5, SetupTyped
<1>8. Typed'
  <2>1. count' + budget'.resets <= MaxResets /\ crashes' + budget'.resets <= MaxResets
    <3>1. count + budget.resets <= MaxResets /\ crashes + budget.resets <= MaxResets
      BY <1>1 DEF Typed
    <3>2. count \in Nat /\ crashes \in Nat /\ budget.resets \in Nat
      BY <1>1 DEF TypeOK
    <3>3. budget'.resets = budget.resets - 1
      BY <1>2, <1>7
    <3> QED BY <1>6, <3>1, <3>2, <3>3, GatewayAssumption
  <2>2. count' \in 0 .. MaxResets /\ crashes' \in 0 .. MaxResets
    BY <1>6, <1>7, <2>1, GatewayAssumption DEF Budgets
  <2>3. stored' \in Profiles \cup {None}
    BY <1>1 DEF Reset, TypeOK
  <2>4. services' \in BOOLEAN /\ wasSafe' \in BOOLEAN
    BY <1>5, <1>7
  <2>5. TypeOK'
    BY <1>4, <1>5, <1>7, <2>2, <2>3, <2>4, EmptyIsProfile DEF TypeOK, Budgets
  <2> QED BY <2>1, <2>5 DEF Typed
<1>9. Contained'
  BY <1>5, <1>6, <1>7 DEF Contained
<1>10. RestartKeepsProfile'
  BY <1>4, <1>7 DEF RestartKeepsProfile, Reset
<1>11. Guarded'
  BY <1>7 DEF Guarded, ApFollowsPassword, Guard
<1>12. SntpFollowsProfile'
  BY <1>7 DEF SntpFollowsProfile
<1> QED BY <1>8, <1>9, <1>10, <1>11, <1>12 DEF IInv


-----------------------------------------------------------------------------
(* The rounds of loop().                                                   *)

LEMMA HeadStep ==
  ASSUME IInv, Head
  PROVE  IInv'
<1>1. TypeOK /\ Typed /\ Contained
  BY DEF IInv, Typed
<1>2. /\ UNCHANGED <<crashes, config, stored, ap, sntp, candidate, budget>>
      /\ pc' = "http"
  BY DEF Head, profile
<1>3. /\ count' \in 0 .. MaxResets /\ count' <= count
      /\ kept' \in BOOLEAN /\ safe' \in BOOLEAN
      /\ crashes' <= count'
      /\ count' >= Threshold => safe'
      /\ safe' => safe
  <2>1. CASE Calm
    <3>1. count' = 0 /\ kept' = FALSE /\ safe' = FALSE
      BY <2>1 DEF Head
    <3>2. crashes = 0
      BY <1>1, <2>1 DEF Calm, Contained
    <3>3. count \in Nat
      BY <1>1 DEF TypeOK
    <3>4. count' \in 0 .. MaxResets /\ count' <= count /\ ~(count' >= Threshold) /\ crashes' <= count'
      BY <1>2, <3>1, <3>2, <3>3, GatewayAssumption
    <3> QED BY <3>1, <3>4
  <2>2. CASE ~Calm
    BY <1>1, <1>2, <2>2 DEF Head, TypeOK, Contained
  <2> QED BY <2>1, <2>2
<1>4. /\ wasSafe' \in BOOLEAN /\ services' \in BOOLEAN
      /\ safe' => ~services'
      /\ radio' \in Networks \cup {None} /\ link' \in BOOLEAN
      /\ conn' \in {"initial", "connecting", "online", "fallback"}
      /\ conn' = "online" => conn = "online"
      /\ timer' \in [Timers -> {"off", "on", "due"}]
      /\ \A n \in Timers \ {"attempt"} : timer'[n] = timer[n]
  <2>1. CASE Resumes /\ ~safe'
    <3>1. wasSafe' = FALSE /\ services' = TRUE /\ Attempt(config, timer)
      BY <2>1 DEF Head
    <3>2. timer \in [Timers -> {"off", "on", "due"}]
      BY <1>1 DEF TypeOK
    <3> QED BY <1>1, <2>1, <3>1, <3>2, AttemptTyped
  <2>2. CASE ~(Resumes /\ ~safe')
    <3>1. UNCHANGED <<wasSafe, services, radio, link, conn, timer>>
      BY <2>2 DEF Head
    <3> QED BY <1>1, <1>3, <3>1 DEF TypeOK, Contained
  <2> QED BY <2>1, <2>2
<1>5. TypeOK'
  BY <1>1, <1>2, <1>3, <1>4 DEF TypeOK
<1>6. Typed'
  <2>1. budget.resets \in Nat /\ count \in Nat
    BY <1>1 DEF TypeOK
  <2> QED BY <1>1, <1>2, <1>3, <1>5, <2>1, GatewayAssumption DEF Typed
<1>7. Contained'
  BY <1>1, <1>2, <1>3, <1>4 DEF Contained, Timers
<1>8. RestartKeepsProfile' /\ SntpFollowsProfile'
  BY <1>2, <1>4 DEF IInv, RestartKeepsProfile, SntpFollowsProfile
<1>9. Guarded'
  BY <1>2, <1>4 DEF IInv, Guarded, ApFollowsPassword, Timers
<1> QED BY <1>6, <1>7, <1>8, <1>9 DEF IInv

\* What an action leaves of the boot-loop detection when it touches none of it.
LEMMA WatchdogUntouched ==
  ASSUME IInv, TypeOK', UNCHANGED <<count, safe, services, crashes>>,
         budget'.resets = budget.resets, timer'["stable"] = timer["stable"]
  PROVE  Typed' /\ Contained'
BY DEF IInv, Typed, Contained

LEMMA NoRequestStep ==
  ASSUME IInv, NoRequest
  PROVE  IInv'
<1>1. UNCHANGED <<count, kept, safe, wasSafe, crashes, services, config, stored,
                  conn, ap, radio, link, sntp, timer, candidate, budget>> /\ pc' = "wifi"
  BY DEF NoRequest, rtc, wd, profile, wifi
<1> QED BY <1>1 DEF IInv, Typed, TypeOK, Contained, RestartKeepsProfile, Guarded,
   ApFollowsPassword,
     SntpFollowsProfile

LEMMA PassesStep ==
  ASSUME IInv, Passes
  PROVE  IInv'
<1> DEFINE t == [timer EXCEPT !["test"] = "off"]
<1>1. TypeOK
  BY DEF IInv, Typed
<1>2. UNCHANGED <<count, kept, safe, wasSafe, crashes, services, radio, link,
                  candidate, budget>> /\ pc = "test" /\ pc' = "wifi"
  BY DEF Passes, rtc, wd
<1>3. t \in [Timers -> {"off", "on", "due"}] /\ \A n \in Timers \ {"test"} : t[n] = timer[n]
  BY <1>1 DEF TypeOK, Timers
<1>4. CASE config' = candidate /\ stored' = candidate /\ Connected(candidate, "later", t)
  <2> HIDE DEF t
  <2>1. candidate \in Profiles
    BY <1>1 DEF TypeOK
  <2>2. /\ conn' = "online"
        /\ sntp' = candidate.ntp /\ sntp' \in BOOLEAN
        /\ ap' \in {ap, None}
        /\ ap' # None => timer'["shutdown"] = "on" /\ timer'["restart"] = t["restart"]
        /\ timer' \in [Timers -> {"off", "on", "due"}]
        /\ timer'["stable"] = t["stable"]
    BY <1>1, <1>3, <1>4, <2>1, ConnectedTyped
  <2>3. TypeOK'
    BY <1>1, <1>2, <1>4, <2>2 DEF TypeOK
  <2>4. Typed' /\ Contained'
    BY <1>2, <1>3, <2>2, <2>3, WatchdogUntouched DEF Timers
  <2>5. RestartKeepsProfile' /\ SntpFollowsProfile' /\ Guarded'
    <3>1. timer'["restart"] = timer["restart"] \/ ap' = None
      BY <1>3, <2>2 DEF Timers
    <3>2. Guarded'
      BY <1>2, <1>4, <2>2, <3>1 DEF IInv, Guarded, ApFollowsPassword
    <3> QED BY <1>4, <2>2, <3>2 DEF RestartKeepsProfile, SntpFollowsProfile
  <2> QED BY <2>4, <2>5 DEF IInv
<1>5. CASE UNCHANGED <<config, stored, conn, ap, sntp>> /\ timer' = t
  <2>1. TypeOK'
    BY <1>1, <1>2, <1>3, <1>5 DEF TypeOK
  <2>2. Typed' /\ Contained'
    BY <1>2, <1>3, <1>5, <2>1, WatchdogUntouched DEF Timers
  <2>3. RestartKeepsProfile' /\ SntpFollowsProfile' /\ Guarded'
    BY <1>2, <1>3, <1>5 DEF IInv, RestartKeepsProfile, SntpFollowsProfile, Guarded,
       ApFollowsPassword, Timers
  <2> QED BY <2>2, <2>3 DEF IInv
<1> QED BY <1>4, <1>5 DEF Passes

LEMMA RejectedStep ==
  ASSUME IInv, Rejected
  PROVE  IInv'
<1> DEFINE t == [timer EXCEPT !["test"] = "off"]
<1>1. TypeOK
  BY DEF IInv, Typed
<1>2. UNCHANGED <<count, kept, safe, wasSafe, crashes, services, config, stored, ap, sntp,
                  candidate, budget>> /\ pc' = "wifi"
  BY DEF Rejected, rtc, wd, profile
<1>3. t \in [Timers -> {"off", "on", "due"}] /\ \A n \in Timers \ {"test"} : t[n] = timer[n]
  BY <1>1 DEF TypeOK, Timers
<1>4. Attempt(config, t)
  BY DEF Rejected
<1> HIDE DEF t
<1>5. /\ radio' \in Networks \cup {None}
      /\ link' \in BOOLEAN
      /\ conn' \in {"initial", "connecting", "online", "fallback"}
      /\ conn' = "online" => conn = "online"
      /\ timer' \in [Timers -> {"off", "on", "due"}]
      /\ \A n \in Timers \ {"attempt"} : timer'[n] = t[n]
  BY <1>1, <1>3, <1>4, AttemptTyped
<1>6. TypeOK'
  BY <1>1, <1>2, <1>5 DEF TypeOK
<1>7. Typed' /\ Contained'
  BY <1>2, <1>3, <1>5, <1>6, WatchdogUntouched DEF Timers
<1>8. RestartKeepsProfile' /\ SntpFollowsProfile' /\ Guarded'
  BY <1>2, <1>3, <1>5 DEF IInv, RestartKeepsProfile, SntpFollowsProfile, Guarded,
     ApFollowsPassword, Timers
<1> QED BY <1>7, <1>8 DEF IInv

LEMMA WifiLoopStep ==
  ASSUME IInv, WifiLoop
  PROVE  IInv'
<1>1. TypeOK /\ Guarded
  BY DEF IInv, Typed
<1>2. UNCHANGED <<count, kept, safe, wasSafe, crashes, services, config, stored,
                  candidate>> /\ pc' \in {"head", "ap"}
  BY DEF WifiLoop, rtc, wd, profile
<1>3. CASE UNCHANGED <<wifi, timer, budget>>
  <2>1. UNCHANGED <<conn, ap, radio, link, sntp, timer, budget>>
    BY <1>3 DEF wifi
  <2> QED BY <1>1, <1>2, <2>1 DEF IInv, Typed, TypeOK, Contained, RestartKeepsProfile,
       Guarded, ApFollowsPassword, SntpFollowsProfile
<1>4. CASE /\ Connected(config, "no", [timer EXCEPT !["attempt"] = "off"])
           /\ UNCHANGED <<radio, link, budget>>
  <2> DEFINE t == [timer EXCEPT !["attempt"] = "off"]
  <2>1. t \in [Timers -> {"off", "on", "due"}] /\ \A n \in {"stable", "restart"} : t[n] = timer[n]
    BY <1>1 DEF TypeOK, Timers
  <2>2. config \in Profiles /\ Connected(config, "no", t)
    BY <1>1, <1>4 DEF TypeOK
  <2> HIDE DEF t
  <2>3. /\ conn' = "online"
        /\ sntp' = config.ntp /\ sntp' \in BOOLEAN
        /\ ap' \in {ap, None}
        /\ ap' # None => timer'["shutdown"] = "on" /\ timer'["restart"] = t["restart"]
        /\ timer' \in [Timers -> {"off", "on", "due"}]
        /\ timer'["stable"] = t["stable"]
    BY <1>1, <2>1, <2>2, ConnectedTyped
  <2>4. TypeOK'
    BY <1>1, <1>2, <1>4, <2>3 DEF TypeOK
  <2>5. Typed' /\ Contained'
    BY <1>2, <1>4, <2>1, <2>3, <2>4, WatchdogUntouched
  <2>6. RestartKeepsProfile' /\ SntpFollowsProfile' /\ Guarded'
    <3>1. timer'["restart"] = timer["restart"] \/ ap' = None
      BY <2>1, <2>3
    <3>2. Guarded'
      BY <1>1, <1>2, <2>3, <3>1 DEF Guarded, ApFollowsPassword
    <3> QED BY <1>2, <2>3, <3>2 DEF IInv, RestartKeepsProfile, SntpFollowsProfile
  <2> QED BY <2>5, <2>6 DEF IInv
<1>5. CASE EnterFallback /\ UNCHANGED <<radio, link, sntp>>
  <2>1. /\ conn' = "fallback"
        /\ ap' \in Passwords \cup {None, "open"}
        /\ ap # None => ap' = ap
        /\ ap = None /\ ap' # None => ap' = Guard(config)
        /\ timer' \in [Timers -> {"off", "on", "due"}]
        /\ \A n \in Timers \ {"attempt", "retry"} : timer'[n] = timer[n]
        /\ budget' \in Budgets /\ budget'.resets = budget.resets
    BY <1>1, <1>5, EnterFallbackTyped
  <2>2. TypeOK'
    BY <1>1, <1>2, <1>5, <2>1 DEF TypeOK, Budgets
  <2>3. Typed' /\ Contained'
    BY <1>2, <2>1, <2>2, WatchdogUntouched DEF Timers
  <2>4. RestartKeepsProfile' /\ SntpFollowsProfile'
    BY <1>2, <2>1 DEF IInv, RestartKeepsProfile, SntpFollowsProfile
  <2>5. Guarded'
    BY <1>1, <1>2, <2>1 DEF Guarded, ApFollowsPassword, Guard, Timers
  <2> QED BY <2>3, <2>4, <2>5 DEF IInv
<1>6. CASE Attempt(config, timer) /\ UNCHANGED <<ap, sntp, budget>>
  <2>1. timer \in [Timers -> {"off", "on", "due"}]
    BY <1>1 DEF TypeOK
  <2>2. /\ radio' \in Networks \cup {None}
        /\ link' \in BOOLEAN
        /\ conn' \in {"initial", "connecting", "online", "fallback"}
        /\ conn' = "online" => conn = "online"
        /\ timer' \in [Timers -> {"off", "on", "due"}]
        /\ \A n \in Timers \ {"attempt"} : timer'[n] = timer[n]
    BY <1>1, <1>6, <2>1, AttemptTyped
  <2>3. TypeOK'
    BY <1>1, <1>2, <1>6, <2>2 DEF TypeOK
  <2>4. Typed' /\ Contained'
    BY <1>2, <1>6, <2>2, <2>3, WatchdogUntouched DEF Timers
  <2>5. RestartKeepsProfile' /\ SntpFollowsProfile' /\ Guarded'
    BY <1>2, <1>6, <2>2 DEF IInv, RestartKeepsProfile, SntpFollowsProfile, Guarded,
       ApFollowsPassword, Timers
  <2> QED BY <2>4, <2>5 DEF IInv
<1> QED BY <1>3, <1>4, <1>5, <1>6, Zenon DEF WifiLoop

LEMMA ApLoopStep ==
  ASSUME IInv, ApLoop
  PROVE  IInv'
<1>1. TypeOK
  BY DEF IInv, Typed
<1>2. UNCHANGED <<count, kept, safe, wasSafe, crashes, services, config, stored, conn, radio,
                  link, sntp, candidate>> /\ pc' = "head"
  BY DEF ApLoop, rtc, wd, profile
<1>3. RestartKeepsProfile' /\ SntpFollowsProfile'
  BY <1>2 DEF IInv, RestartKeepsProfile, SntpFollowsProfile
<1>4. CASE /\ ap' = None
           /\ timer' = (IF ap = None THEN timer ELSE Stopped(timer))
           /\ UNCHANGED budget
  <2>1. timer' \in [Timers -> {"off", "on", "due"}] /\ timer'["stable"] = timer["stable"]
    BY <1>1, <1>4 DEF Stopped, TypeOK, Timers
  <2>2. TypeOK'
    BY <1>1, <1>2, <1>4, <2>1 DEF TypeOK
  <2>3. Typed' /\ Contained'
    BY <1>2, <1>4, <2>1, <2>2, WatchdogUntouched
  <2>4. Guarded'
    BY <1>2, <1>4 DEF Guarded, ApFollowsPassword
  <2> QED BY <1>3, <2>3, <2>4 DEF IInv
<1>5. CASE /\ StartAccessPoint(config, budget)
           /\ timer' = [timer EXCEPT !["restart"] = "off"]
  <2>1. timer' \in [Timers -> {"off", "on", "due"}] /\ timer'["stable"] = timer["stable"]
    BY <1>1, <1>5 DEF TypeOK, Timers
  <2>2. config \in Profiles /\ budget \in Budgets
    BY <1>1 DEF TypeOK, Budgets
  <2>3. /\ ap' \in Passwords \cup {None, "open"}
        /\ ap' # None => ap' = Guard(config)
        /\ budget' \in Budgets
        /\ budget'.resets = budget.resets
    BY <1>5, <2>2, StartAccessPointTyped
  <2>4. TypeOK'
    BY <1>1, <1>2, <2>1, <2>3 DEF TypeOK, Budgets
  <2>5. Typed' /\ Contained'
    BY <1>2, <2>1, <2>3, <2>4, WatchdogUntouched
  <2>6. Guarded'
    BY <1>2, <2>3 DEF Guarded, ApFollowsPassword, Guard
  <2> QED BY <1>3, <2>5, <2>6 DEF IInv
<1>6. CASE UNCHANGED <<ap, timer, budget>>
  BY <1>1, <1>2, <1>3, <1>6 DEF IInv, Typed, TypeOK, Contained, Guarded, ApFollowsPassword
<1> QED BY <1>4, <1>5, <1>6, Zenon DEF ApLoop


-----------------------------------------------------------------------------
(* Requests, time and radio.                                               *)

\* What spending a request or an outage leaves.
LEMMA SpendTyped ==
  ASSUME TypeOK, NEW what \in {"requests", "outages"}, Spend(what)
  PROVE  budget' \in Budgets /\ budget'.resets = budget.resets
<1>1. budget \in Budgets /\ budget[what] > 0 /\ budget' = [budget EXCEPT ![what] = @ - 1]
  BY DEF TypeOK, Budgets, Spend
<1>2. CASE what = "requests"
  BY <1>1, <1>2, GatewayAssumption DEF Budgets
<1>3. CASE what = "outages"
  BY <1>1, <1>3, GatewayAssumption DEF Budgets
<1> QED BY <1>2, <1>3

LEMMA SubmitNetworkStep ==
  ASSUME IInv, NEW c \in Profiles, SubmitNetwork(c)
  PROVE  IInv'
<1>1. TypeOK
  BY DEF IInv, Typed
<1>2. /\ UNCHANGED <<count, kept, safe, wasSafe, crashes, services, config, stored, conn, ap, sntp>>
      /\ candidate' = c /\ radio' = c.ssid /\ link' = FALSE /\ pc' = "test"
      /\ timer' = [timer EXCEPT !["test"] = "on"]
      /\ c.ssid # None /\ Spend("requests")
  BY DEF SubmitNetwork, rtc, wd, profile
<1>3. budget' \in Budgets /\ budget'.resets = budget.resets
  BY <1>1, <1>2, SpendTyped
<1>4. /\ timer' \in [Timers -> {"off", "on", "due"}]
      /\ \A n \in Timers \ {"test"} : timer'[n] = timer[n]
  BY <1>1, <1>2 DEF TypeOK, Timers
<1>5. radio' \in Networks \cup {None}
  BY <1>2 DEF Profiles
<1>6. TypeOK'
  BY <1>1, <1>2, <1>3, <1>4, <1>5 DEF TypeOK, Budgets
<1>7. Typed' /\ Contained'
  BY <1>2, <1>3, <1>4, <1>6, WatchdogUntouched DEF Timers
<1>8. RestartKeepsProfile' /\ SntpFollowsProfile' /\ Guarded'
  <2>1. config.ssid # None => c.admin = config.admin
    <3> SUFFICES ASSUME config.ssid # None PROVE c.admin = config.admin
      OBVIOUS
    <3>1. c = [config EXCEPT !.ssid = c.ssid] /\ config \in Profiles
      BY <1>1 DEF SubmitNetwork, TypeOK
    <3>2. [config EXCEPT !.ssid = c.ssid].admin = config.admin
      BY <3>1 DEF Profiles
    <3> QED BY <3>1, <3>2
  <2>2. Guarded'
    BY <1>2, <1>4, <2>1 DEF IInv, Guarded, ApFollowsPassword, Timers
  <2> QED BY <1>2, <2>2 DEF IInv, RestartKeepsProfile, SntpFollowsProfile
<1> QED BY <1>7, <1>8 DEF IInv

LEMMA SaveNtpStep ==
  ASSUME IInv, SaveNtp
  PROVE  IInv'
<1>1. TypeOK
  BY DEF IInv, Typed
<1>2. /\ UNCHANGED <<count, kept, safe, wasSafe, crashes, services, conn, ap, radio, link,
                     timer, candidate>>
      /\ pc' = "wifi" /\ Spend("requests")
  BY DEF SaveNtp, rtc, wd
<1>3. budget' \in Budgets /\ budget'.resets = budget.resets
  BY <1>1, <1>2, SpendTyped
<1>4. CASE NotSaved
  <2>1. UNCHANGED <<config, stored, sntp>>
    BY <1>4 DEF NotSaved
  <2>2. TypeOK'
    BY <1>1, <1>2, <1>3, <2>1 DEF TypeOK, Budgets
  <2>3. Typed' /\ Contained'
    BY <1>2, <1>3, <2>2, WatchdogUntouched
  <2> QED BY <1>2, <2>1, <2>3 DEF IInv, RestartKeepsProfile, SntpFollowsProfile, Guarded,
     ApFollowsPassword
<1>5. CASE Saved([config EXCEPT !.ntp = ~@])
  <2> DEFINE c == [config EXCEPT !.ntp = ~@]
  <2>1. c \in Profiles /\ c.ssid = config.ssid /\ c.admin = config.admin
    BY <1>1 DEF TypeOK, Profiles
  <2>2. config' = c /\ stored' = c /\ sntp' = c.ntp
    BY <1>5 DEF Saved
  <2> HIDE DEF c
  <2>3. sntp' \in BOOLEAN
    BY <2>1, <2>2 DEF Profiles
  <2>4. TypeOK'
    BY <1>1, <1>2, <1>3, <2>1, <2>2, <2>3 DEF TypeOK, Budgets
  <2>5. Typed' /\ Contained'
    BY <1>2, <1>3, <2>4, WatchdogUntouched
  <2>6. RestartKeepsProfile' /\ SntpFollowsProfile'
    BY <2>2 DEF RestartKeepsProfile, SntpFollowsProfile
  <2>7. Guarded'
    BY <1>2, <2>1, <2>2 DEF IInv, Guarded, ApFollowsPassword
  <2> QED BY <2>5, <2>6, <2>7 DEF IInv
<1> QED BY <1>4, <1>5 DEF SaveNtp

LEMMA ChangePasswordStep ==
  ASSUME IInv, NEW p \in Passwords, ChangePassword(p)
  PROVE  IInv'
<1>1. TypeOK
  BY DEF IInv, Typed
<1>2. /\ UNCHANGED <<count, kept, safe, wasSafe, crashes, services, conn, ap, radio, link,
                     sntp, candidate>>
      /\ pc' = "wifi" /\ Spend("requests")
  BY DEF ChangePassword, rtc, wd, wifi
<1>3. budget' \in Budgets /\ budget'.resets = budget.resets
  BY <1>1, <1>2, SpendTyped
<1>4. CASE /\ config' = [config EXCEPT !.admin = p] /\ stored' = config'
           /\ timer' = IF ap = None THEN timer ELSE [timer EXCEPT !["restart"] = "on"]
  <2>1. config' \in Profiles /\ config'.ntp = config.ntp
    BY <1>1, <1>4 DEF TypeOK, Profiles
  <2>2. /\ timer' \in [Timers -> {"off", "on", "due"}]
        /\ timer'["stable"] = timer["stable"]
        /\ ap # None => timer'["restart"] = "on"
    BY <1>1, <1>4 DEF TypeOK, Timers
  <2>3. TypeOK'
    BY <1>1, <1>2, <1>3, <1>4, <2>1, <2>2 DEF TypeOK, Budgets
  <2>4. Typed' /\ Contained'
    BY <1>2, <1>3, <2>2, <2>3, WatchdogUntouched
  <2>5. RestartKeepsProfile' /\ SntpFollowsProfile' /\ Guarded'
    BY <1>2, <1>4, <2>1, <2>2 DEF IInv, RestartKeepsProfile, SntpFollowsProfile, Guarded,
       ApFollowsPassword
  <2> QED BY <2>4, <2>5 DEF IInv
<1>5. CASE UNCHANGED <<config, stored, timer>>
  <2>1. TypeOK'
    BY <1>1, <1>2, <1>3, <1>5 DEF TypeOK, Budgets
  <2>2. Typed' /\ Contained'
    BY <1>2, <1>3, <1>5, <2>1, WatchdogUntouched
  <2> QED BY <1>2, <1>5, <2>2 DEF IInv, RestartKeepsProfile, SntpFollowsProfile, Guarded,
     ApFollowsPassword
<1> QED BY <1>4, <1>5 DEF ChangePassword

LEMMA ClearSafeModeStep ==
  ASSUME IInv, ClearSafeMode
  PROVE  IInv'
<1>1. TypeOK /\ Typed /\ Contained
  BY DEF IInv, Typed
<1>2. /\ UNCHANGED <<wasSafe, services, config, stored, conn, ap, radio, link, sntp, timer,
                     candidate, budget>>
      /\ count' = 0 /\ kept' = FALSE /\ safe' = FALSE /\ crashes' = 0 /\ pc' = "wifi"
  BY DEF ClearSafeMode, profile, wifi
<1>3. TypeOK'
  <2>1. count' \in 0 .. MaxResets /\ crashes' \in 0 .. MaxResets
    BY <1>2, GatewayAssumption
  <2> QED BY <1>1, <1>2, <2>1 DEF TypeOK
<1>4. Typed'
  <2>1. budget'.resets <= MaxResets /\ budget'.resets \in Nat
    BY <1>1, <1>2, GatewayAssumption DEF TypeOK
  <2> QED BY <1>2, <1>3, <2>1 DEF Typed
<1>5. Contained'
  <2>1. ~(count' >= Threshold) /\ crashes' <= count'
    BY <1>2, GatewayAssumption
  <2> QED BY <1>2, <2>1 DEF Contained
<1> QED BY <1>2, <1>4, <1>5 DEF IInv, RestartKeepsProfile, SntpFollowsProfile, Guarded,
   ApFollowsPassword

LEMMA LinkStep ==
  ASSUME IInv, LinkUp \/ LinkDown
  PROVE  IInv'
<1>1. TypeOK
  BY DEF IInv, Typed
<1>2. /\ UNCHANGED <<count, kept, safe, wasSafe, crashes, services, config, stored, conn, ap,
                     radio, sntp, timer, pc, candidate>>
      /\ link' \in BOOLEAN
  BY DEF LinkUp, LinkDown, rtc, wd, profile
<1>3. budget' \in Budgets /\ budget'.resets = budget.resets
  <2>1. CASE LinkUp
    BY <1>1, <2>1 DEF LinkUp, TypeOK, Budgets
  <2>2. CASE LinkDown
    BY <1>1, <2>2, SpendTyped DEF LinkDown
  <2> QED BY <2>1, <2>2
<1>4. TypeOK'
  BY <1>1, <1>2, <1>3 DEF TypeOK, Budgets
<1>5. Typed' /\ Contained'
  BY <1>2, <1>3, <1>4, WatchdogUntouched
<1> QED BY <1>2, <1>5 DEF IInv, RestartKeepsProfile, SntpFollowsProfile, Guarded, ApFollowsPassword

LEMMA ElapseStep ==
  ASSUME IInv, NEW t \in Timers, Elapse(t)
  PROVE  IInv'
<1>1. TypeOK /\ Typed /\ Contained
  BY DEF IInv, Typed
<1>2. /\ UNCHANGED <<count, kept, safe, wasSafe, services, config, stored, conn, ap, radio, link,
                     sntp, pc, candidate>>
      /\ timer[t] = "on" /\ timer' = [timer EXCEPT ![t] = "due"]
  BY DEF Elapse, rtc, profile, wifi
<1>3. budget' \in Budgets /\ budget'.resets = budget.resets
  <2>1. CASE Spend("outages")
    BY <1>1, <2>1, SpendTyped
  <2>2. CASE UNCHANGED budget
    BY <1>1, <2>2 DEF TypeOK, Budgets
  <2> QED BY <2>1, <2>2 DEF Elapse
<1>4. /\ timer' \in [Timers -> {"off", "on", "due"}]
      /\ \A n \in Timers : timer'[n] = "off" <=> timer[n] = "off"
      /\ timer'["stable"] = "due" => t = "stable" \/ timer["stable"] = "due"
  BY <1>1, <1>2 DEF TypeOK, Timers
<1>5. /\ crashes' \in 0 .. MaxResets /\ crashes' <= crashes
      /\ t = "stable" => crashes' = 0
      /\ t # "stable" => crashes' = crashes
  BY <1>1, GatewayAssumption DEF Elapse, TypeOK
<1>6. TypeOK'
  BY <1>1, <1>2, <1>3, <1>4, <1>5 DEF TypeOK, Budgets
<1>7. Typed'
  <2>1. crashes \in Nat /\ crashes' \in Nat /\ budget.resets \in Nat
    BY <1>1, <1>5 DEF TypeOK
  <2>2. crashes' + budget'.resets <= MaxResets
    BY <1>1, <1>3, <1>5, <2>1, GatewayAssumption DEF Typed
  <2> QED BY <1>1, <1>2, <1>3, <1>6, <2>2 DEF Typed
<1>8. Contained'
  <2>1. crashes' <= count'
    BY <1>1, <1>2, <1>5 DEF Contained, TypeOK
  <2>2. timer'["stable"] = "due" => crashes' = 0
    BY <1>1, <1>4, <1>5 DEF Contained
  <2> QED BY <1>1, <1>2, <2>1, <2>2 DEF Contained
<1>9. RestartKeepsProfile' /\ SntpFollowsProfile'
  BY <1>2 DEF IInv, RestartKeepsProfile, SntpFollowsProfile
<1>10. Guarded'
  BY <1>2, <1>4 DEF IInv, Guarded, ApFollowsPassword, Timers
<1> QED BY <1>7, <1>8, <1>9, <1>10 DEF IInv

-----------------------------------------------------------------------------
(* The theorems.                                                           *)

LEMMA StepPreserves == IInv /\ [Next]_vars => IInv'
<1> SUFFICES ASSUME IInv, [Next]_vars PROVE IInv'
  OBVIOUS
<1>1. CASE Loop
  BY <1>1, HeadStep, NoRequestStep, WifiLoopStep, ApLoopStep, PassesStep, RejectedStep DEF Loop
<1>2. CASE Submit
  BY <1>2, SubmitNetworkStep, SaveNtpStep, ChangePasswordStep, ClearSafeModeStep DEF Submit
<1>3. CASE LinkUp \/ LinkDown
  BY <1>3, LinkStep
<1>4. CASE \E t \in Timers : Elapse(t)
  BY <1>4, ElapseStep
<1>5. CASE \E why \in Resets : Reset(why)
  BY <1>5, ResetStep
<1>6. CASE UNCHANGED vars
  BY <1>6 DEF vars, rtc, wd, profile, wifi, IInv, Typed, TypeOK, Contained, RestartKeepsProfile,
     Guarded, ApFollowsPassword, SntpFollowsProfile
<1> QED BY <1>1, <1>2, <1>3, <1>4, <1>5, <1>6 DEF Next

\* The inductive invariant holds in every state of the device.
THEOREM InductiveInvariant == Spec => []IInv
BY InitEstablishes, StepPreserves, PTL DEF Spec

\* watchdog::begin and loop(): after Threshold crashes without a quiet window in
\* between, safe mode is on and the poll tasks are off, whatever other resets,
\* requests, outages and storage faults fall in between.
THEOREM CrashLoopIsContained == Spec => []CrashLoopContained
<1>1. IInv => CrashLoopContained
  BY GatewayAssumption DEF IInv, Typed, TypeOK, Contained, CrashLoopContained
<1> QED BY <1>1, InductiveInvariant, PTL

\* wifi_manager.cpp: with a profile and no restart scheduled, the access point is guarded
\* by the administrator password the profile has now; the only one that is not is the
\* open one of the first set-up, whose shutdown is then scheduled.
THEOREM ApIsGuarded == Spec => []ApFollowsPassword
<1>1. IInv => ApFollowsPassword
  BY DEF IInv, Guarded
<1> QED BY <1>1, InductiveInvariant, PTL

\* config_store_network.cpp and the handlers of http_server.cpp: a profile in use
\* is the record in flash, so a restart finds it.
THEOREM ProfileSurvivesRestart == Spec => []RestartKeepsProfile
BY InductiveInvariant, PTL DEF IInv

\* Online, the SNTP client runs exactly if the profile asks for it.
THEOREM SntpIsAsConfigured == Spec => []SntpFollowsProfile
BY InductiveInvariant, PTL DEF IInv
=============================================================================
