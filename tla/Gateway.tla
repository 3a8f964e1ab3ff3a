------------------------------- MODULE Gateway -------------------------------
(***************************************************************************)
(* The life of the whole device as its loop task sees it: boot, boot-loop  *)
(* detection and safe mode (watchdog.cpp), the saved network profile and   *)
(* its store (config_store_network.cpp), the station and the recovery      *)
(* access point (wifi_manager.cpp), the HTTP handlers that change them     *)
(* (http_server.cpp) and the order in which setup() and loop() visit all   *)
(* that (sms_gate.ino).                                                    *)
(*                                                                         *)
(* One round of loop() is four actions, because time passes and the radio  *)
(* link changes between them; testing new credentials blocks the round.    *)
(* A comparison of millis() with a deadline is a timer that is off,        *)
(* running or due.  Faults:                                                *)
(*   storeFails  the flash partition cannot be read or written             *)
(*   apFails     the access point does not start                           *)
(***************************************************************************)
EXTENDS Integers, FiniteSets

CONSTANTS
  Networks,     \* station networks (name and password)
  Good,         \* those that exist and accept their password
  Passwords,    \* administrator passwords
  None,
  Threshold,    \* kWatchdogBootLoopThreshold
  MaxRequests,  \* bound: settings submitted
  MaxResets,    \* bound: resets after the first boot
  MaxOutages,   \* bound: links lost, attempts that take too long, failing access points
  Faults

ASSUME GatewayAssumption ==
  /\ Good \subseteq Networks
  /\ None \notin Networks \cup Passwords \cup {"open"}
  /\ Threshold \in Nat \ {0}
  /\ MaxRequests \in Nat /\ MaxResets \in Nat /\ MaxOutages \in Nat
  /\ Faults \subseteq {"storeFails", "apFails"}

\* RuntimeConfig: the network, the administrator password, and whether SNTP is on.
Profiles == [ssid : Networks \cup {None}, admin : Passwords \cup {None}, ntp : BOOLEAN]
Empty    == [ssid |-> None, admin |-> None, ntp |-> TRUE]

\* What a reset is to watchdog::begin: a crash, power or pin, software, or anything else.
Resets == {"crash", "power", "software", "other"}
Timers == {"attempt", "retry", "shutdown", "restart", "test", "stable"}

VARIABLES
  count,      \* rtcState.bootCount
  kept,       \* rtcState.safeMode
  safe,       \* gSafeMode
  wasSafe,    \* safeModeWasActive
  services,   \* poll tasks were synchronised with their profiles since the boot
  config,     \* config_
  stored,     \* record in flash; None when there is none
  conn,       \* connectionState_
  ap,         \* access point: None, "open", or the password that guards it
  radio,      \* network the Wi-Fi driver was told to join
  link,       \* WiFi.status() == WL_CONNECTED
  sntp,       \* the SNTP client runs
  timer,      \* deadlines
  pc,         \* next step of loop()
  candidate,  \* profile under test
  crashes,    \* crashes since the device last ran for the stable window, was
              \* switched on, restarted on purpose, or cleared by its operator
  budget      \* requests, resets and outages left

rtc     == <<count, kept>>
wd      == <<safe, wasSafe, crashes>>
profile == <<config, stored>>
wifi    == <<conn, ap, radio, link, sntp>>
vars == <<rtc, wd, services, profile, wifi, timer, pc, candidate, budget>>

TypeOK ==
  /\ count \in 0 .. MaxResets
  /\ kept \in BOOLEAN /\ safe \in BOOLEAN /\ wasSafe \in BOOLEAN /\ services \in BOOLEAN
  /\ config \in Profiles /\ candidate \in Profiles
  /\ stored \in Profiles \cup {None}
  /\ conn \in {"initial", "connecting", "online", "fallback"}
  /\ ap \in Passwords \cup {None, "open"}
  /\ radio \in Networks \cup {None}
  /\ link \in BOOLEAN /\ sntp \in BOOLEAN
  /\ timer \in [Timers -> {"off", "on", "due"}]
  /\ pc \in {"head", "http", "test", "wifi", "ap"}
  /\ crashes \in 0 .. MaxResets
  /\ budget \in [requests : 0 .. MaxRequests, resets : 0 .. MaxResets, outages : 0 .. MaxOutages]

Spend(what) ==
  /\ budget[what] > 0
  /\ budget' = [budget EXCEPT ![what] = @ - 1]

-----------------------------------------------------------------------------
(* Plausible bugs, used only to show that the properties notice them.      *)

\* The counter is compared before it is increased.
SafeOneLate(n, was) == n > Threshold \/ was

\* Every access point is the open one of the first set-up.
OpenForAll(c) == "open"

\* After a failed attempt nothing is tried again.
NoRetry == timer["retry"] = "due" /\ conn = "initial"

\* A station attempt joins the network the driver was told last.
AttemptLast(c, t) ==
  IF c.ssid = None THEN UNCHANGED <<radio, link, conn>> /\ timer' = t
  ELSE /\ radio' = radio /\ link' = FALSE
       /\ conn' = "connecting"
       /\ timer' = [t EXCEPT !["attempt"] = "on"]

\* A connection leaves the access point as it is.
ConnectedOnly(c, defer, t) ==
  /\ conn' = "online" /\ sntp' = c.ntp
  /\ ap' = ap /\ timer' = [t EXCEPT !["retry"] = "due"]

-----------------------------------------------------------------------------
(* Access point and station.                                               *)

\* The password startAccessPoint gives the access point.
Guard(c) == IF c.ssid = None THEN "open" ELSE c.admin

StartAccessPoint(c, left) ==
  \/ ap' = Guard(c) /\ budget' = left
  \/ /\ "apFails" \in Faults /\ left.outages > 0
     /\ ap' = None /\ budget' = [left EXCEPT !.outages = @ - 1]

\* beginStationAttempt, with the timers t the caller leaves.
Attempt(c, t) ==
  IF c.ssid = None THEN UNCHANGED <<radio, link, conn>> /\ timer' = t
  ELSE /\ radio' = c.ssid /\ link' = FALSE
       /\ conn' = "connecting"
       /\ timer' = [t EXCEPT !["attempt"] = "on"]

Stopped(t) == [t EXCEPT !["shutdown"] = "off", !["restart"] = "off"]

\* onStationConnected.
Connected(c, defer, t) ==
  /\ conn' = "online"
  /\ sntp' = c.ntp
  /\ CASE ap = None -> ap' = ap /\ timer' = [t EXCEPT !["retry"] = "due"]
       [] ap # None /\ defer = "no" ->
            ap' = None /\ timer' = Stopped([t EXCEPT !["retry"] = "due"])
       [] OTHER ->
            ap' = ap /\ timer' = [t EXCEPT !["retry"] = "due", !["shutdown"] = "on"]

EnterFallback ==
  /\ IF ap = None THEN StartAccessPoint(config, budget) ELSE UNCHANGED <<ap, budget>>
  /\ conn' = "fallback"
  /\ timer' = [timer EXCEPT !["retry"] = "on", !["attempt"] = "off"]

-----------------------------------------------------------------------------
(* Boot.                                                                   *)

\* watchdog::begin: the retained count after a reset, and whether safe mode is on.
CountAfter(why) ==
  CASE why = "crash" -> count + 1
    [] why \in {"power", "software"} -> 0
    [] OTHER -> count

Retained(why) == kept /\ why \in {"crash", "other"}

EntersSafeMode(n, was) == n >= Threshold \/ was

\* ConfigStore::load.  A record without a network is no profile.
Loadable == {c \in {stored} \ {None} : c.ssid # None}
Loads(c) == c \in Loadable \/ (c = Empty /\ (Loadable = {} \/ "storeFails" \in Faults))

FreshTimers == [t \in Timers |-> IF t = "retry" THEN "due" ELSE IF t = "stable" THEN "on" ELSE "off"]

\* setup(): safe mode and a missing profile start the access point, a profile
\* starts a station attempt; poll tasks are started outside safe mode.
Setup(c, unsafe, left) ==
  /\ config' = c
  /\ services' = ~unsafe
  /\ wasSafe' = unsafe
  /\ pc' = "head"
  /\ candidate' = Empty /\ sntp' = FALSE /\ link' = FALSE
  /\ IF c.ssid = None \/ unsafe
       THEN /\ conn' = IF c.ssid = None THEN "initial" ELSE "fallback"
            /\ StartAccessPoint(c, left)
            /\ radio' = None
            /\ timer' = FreshTimers
       ELSE /\ conn' = "connecting" /\ ap' = None /\ radio' = c.ssid
            /\ timer' = [FreshTimers EXCEPT !["attempt"] = "on"]
            /\ budget' = left

Reset(why) ==
  /\ budget.resets > 0
  /\ count' = CountAfter(why)
  /\ safe' = EntersSafeMode(CountAfter(why), Retained(why))
  /\ kept' = safe'
  /\ crashes' = CASE why = "crash" -> crashes + 1
                  [] why = "other" -> crashes
                  [] OTHER -> 0
  /\ \E c \in Loadable \cup {Empty} : Loads(c) /\ Setup(c, safe', [budget EXCEPT !.resets = @ - 1])
  /\ UNCHANGED stored

Init ==
  /\ count = 0 /\ kept = FALSE /\ safe = FALSE /\ wasSafe = FALSE /\ crashes = 0
  /\ services = TRUE
  /\ stored \in {None} \cup [ssid : Networks, admin : Passwords, ntp : BOOLEAN]
  /\ config = (IF stored = None THEN Empty ELSE stored)
  /\ link = FALSE /\ sntp = FALSE /\ candidate = Empty /\ pc = "head"
  /\ radio = config.ssid
  /\ conn = (IF stored = None THEN "initial" ELSE "connecting")
  /\ ap = (IF stored = None THEN "open" ELSE None)
  /\ timer = (IF stored = None THEN FreshTimers ELSE [FreshTimers EXCEPT !["attempt"] = "on"])
  /\ budget = [requests |-> MaxRequests, resets |-> MaxResets, outages |-> MaxOutages]

-----------------------------------------------------------------------------
(* loop().                                                                 *)

\* watchdog::loop clears everything after the stable window.
Calm == timer["stable"] = "due" /\ (count # 0 \/ safe)

\* A plausible bug: services resume only in the round in which the stable window
\* ended the safe mode.
ResumesIfCalm == wasSafe /\ Calm

Resumes == wasSafe

Head ==
  /\ pc = "head"
  /\ IF Calm THEN count' = 0 /\ kept' = FALSE /\ safe' = FALSE
             ELSE UNCHANGED <<count, kept, safe>>
  /\ IF Resumes /\ ~safe'
       THEN /\ wasSafe' = FALSE
            /\ services' = TRUE
            /\ Attempt(config, timer)
       ELSE UNCHANGED <<wasSafe, services, radio, link, conn, timer>>
  /\ pc' = "http"
  /\ UNCHANGED <<crashes, profile, ap, sntp, candidate, budget>>

NoRequest ==
  /\ pc = "http"
  /\ pc' = "wifi"
  /\ UNCHANGED <<rtc, wd, services, profile, wifi, timer, candidate, budget>>

\* handleSetupSubmission and handleNetworkSubmission up to testStationCandidate.
SubmitNetwork(c) ==
  /\ pc = "http" /\ Spend("requests")
  /\ c.ssid # None /\ c.admin # None
  /\ config.ssid # None => c = [config EXCEPT !.ssid = c.ssid]
  /\ candidate' = c
  /\ radio' = c.ssid /\ link' = FALSE
  /\ timer' = [timer EXCEPT !["test"] = "on"]
  /\ pc' = "test"
  /\ UNCHANGED <<rtc, wd, services, profile, conn, ap, sntp>>

\* Written and used, or neither.
Saved(c) ==
  /\ config' = c /\ stored' = c
  /\ sntp' = c.ntp

NotSaved == UNCHANGED <<config, stored, sntp>>

Passes ==
  /\ pc = "test" /\ link
  /\ pc' = "wifi"
  /\ \/ /\ config' = candidate /\ stored' = candidate
        /\ Connected(candidate, "later", [timer EXCEPT !["test"] = "off"])
     \/ /\ "storeFails" \in Faults
        /\ UNCHANGED <<config, stored, conn, ap, sntp>>
        /\ timer' = [timer EXCEPT !["test"] = "off"]
  /\ UNCHANGED <<rtc, wd, services, radio, link, candidate, budget>>

\* The deadline is looked at before the link.  The previous profile is tried again
\* if there is one.
Rejected ==
  /\ pc = "test" /\ timer["test"] = "due"
  /\ pc' = "wifi"
  /\ Attempt(config, [timer EXCEPT !["test"] = "off"])
  /\ UNCHANGED <<rtc, wd, services, profile, ap, sntp, candidate, budget>>

\* handleNtpSaveSubmission.  Before the first setup it stores a record without a network.
SaveNtp ==
  /\ pc = "http" /\ Spend("requests")
  /\ \/ Saved([config EXCEPT !.ntp = ~@])
     \/ "storeFails" \in Faults /\ NotSaved
  /\ pc' = "wifi"
  /\ UNCHANGED <<rtc, wd, services, conn, ap, radio, link, timer, candidate>>

\* handlePasswordSubmission and scheduleAccessPointRestart.
ChangePassword(p) ==
  /\ pc = "http" /\ Spend("requests")
  /\ config.admin # None
  /\ \/ /\ config' = [config EXCEPT !.admin = p] /\ stored' = config'
        /\ timer' = IF ap = None THEN timer ELSE [timer EXCEPT !["restart"] = "on"]
     \/ "storeFails" \in Faults /\ UNCHANGED <<config, stored, timer>>
  /\ pc' = "wifi"
  /\ UNCHANGED <<rtc, wd, services, wifi, candidate>>

\* handleWatchdogClearRequest.
ClearSafeMode ==
  /\ pc = "http" /\ safe
  /\ config.admin # None
  /\ count' = 0 /\ kept' = FALSE /\ safe' = FALSE /\ crashes' = 0
  /\ pc' = "wifi"
  /\ UNCHANGED <<wasSafe, services, profile, wifi, timer, candidate, budget>>

Tries == timer["retry"] = "due" /\ conn = "fallback" /\ config.ssid # None

Lost == conn = "online" /\ ~link

\* WifiManager::loop, the connection.
WifiLoop ==
  /\ pc = "wifi"
  /\ pc' = IF safe THEN "head" ELSE "ap"
  /\ CASE safe -> UNCHANGED <<wifi, timer, budget>>
       [] ~safe /\ conn = "connecting" /\ link ->
            Connected(config, "no", [timer EXCEPT !["attempt"] = "off"])
              /\ UNCHANGED <<radio, link, budget>>
       [] ~safe /\ conn = "connecting" /\ ~link /\ timer["attempt"] = "due" ->
            EnterFallback /\ UNCHANGED <<radio, link, sntp>>
       [] ~safe /\ Lost -> EnterFallback /\ UNCHANGED <<radio, link, sntp>>
       [] ~safe /\ Tries -> Attempt(config, timer) /\ UNCHANGED <<ap, sntp, budget>>
       [] OTHER -> UNCHANGED <<wifi, timer, budget>>
  /\ UNCHANGED <<rtc, wd, services, profile, candidate>>

\* WifiManager::loop, the access point.
ApLoop ==
  /\ pc = "ap"
  /\ pc' = "head"
  /\ CASE timer["shutdown"] = "due" /\ link ->
            ap' = None /\ timer' = (IF ap = None THEN timer ELSE Stopped(timer)) /\ UNCHANGED budget
       [] ~(timer["shutdown"] = "due" /\ link) /\ timer["restart"] = "due" /\ ap # None ->
            StartAccessPoint(config, budget) /\ timer' = [timer EXCEPT !["restart"] = "off"]
       [] OTHER -> UNCHANGED <<ap, timer, budget>>
  /\ UNCHANGED <<rtc, wd, services, profile, conn, radio, link, sntp, candidate>>

-----------------------------------------------------------------------------
(* Time and radio.                                                         *)

Joins == ~link /\ radio \in Good

LinkUp ==
  /\ Joins
  /\ link' = TRUE
  /\ UNCHANGED <<rtc, wd, services, profile, conn, ap, radio, sntp, timer, pc, candidate, budget>>

LinkDown ==
  /\ link /\ Spend("outages")
  /\ link' = FALSE
  /\ UNCHANGED <<rtc, wd, services, profile, conn, ap, radio, sntp, timer, pc, candidate>>

\* A good network answers before the attempt is over unless there is an outage.
Elapse(t) ==
  /\ timer[t] = "on"
  /\ timer' = [timer EXCEPT ![t] = "due"]
  /\ IF t \in {"attempt", "test"} /\ Joins THEN Spend("outages") ELSE UNCHANGED budget
  /\ crashes' = IF t = "stable" THEN 0 ELSE crashes
  /\ UNCHANGED <<rtc, safe, wasSafe, services, profile, wifi, pc, candidate>>

Loop ==
  \/ Head \/ NoRequest \/ WifiLoop \/ ApLoop \/ Passes \/ Rejected

Submit ==
  \/ \E c \in Profiles : SubmitNetwork(c)
  \/ SaveNtp
  \/ \E p \in Passwords : ChangePassword(p)
  \/ ClearSafeMode

Next ==
  \/ Loop \/ Submit
  \/ LinkUp \/ LinkDown
  \/ \E t \in Timers : Elapse(t)
  \/ \E why \in Resets : Reset(why)

Spec == Init /\ [][Next]_vars

\* loop() is called for ever, time passes, and a network within reach is joined.
Fairness ==
  /\ WF_vars(Loop)
  /\ WF_vars(LinkUp)
  /\ \A t \in Timers : WF_vars(Elapse(t))

FairSpec == Spec /\ Fairness

-----------------------------------------------------------------------------
(* Properties.                                                             *)

\* Three crashes with no quiet time between them and the risky tasks stay off,
\* however the other resets fall in between.
CrashLoopContained == crashes >= Threshold => safe /\ ~services

\* What the device runs with is what it finds after a restart.
RestartKeepsProfile == config.ssid # None => stored = config

\* A device with a profile has an access point with the password of that profile,
\* unless a restart with it is scheduled.  The open one of the first set-up is the
\* only other one there is, and it never outlives the wish to shut it down.  That wish
\* is granted only while the station is connected: when the link is lost first, the
\* open one stays as the recovery access point until the network is back.
ApFollowsPassword ==
  ap # None /\ config.ssid # None /\ timer["restart"] = "off" =>
    ap = config.admin \/ (ap = "open" /\ timer["shutdown"] # "off")

\* Online, the SNTP client runs exactly if the profile wants it.
SntpFollowsProfile == conn = "online" => sntp = config.ntp

\* A device with a profile can always be reached again, over the station or over
\* its own access point, though the network may be gone and the access point may
\* have failed to start.  (The access point of the first set-up is tried once.)
ReachableAgain == []<>(link \/ ap # None \/ config.ssid = None)

\* A network that was tested but could not be saved is still the one connected.
HeldByCandidate == conn = "online" /\ link /\ radio = candidate.ssid /\ radio # config.ssid

\* A device whose saved network works gets back to that network, whatever was lost,
\* tested or rejected in between.  A candidate that connects and cannot be saved
\* holds the station for as long as its link lasts.
RejoinsNetwork ==
  []<>(\/ conn = "online" /\ link /\ radio = config.ssid
       \/ config.ssid \notin Good \/ HeldByCandidate)

\* Safe mode ends and the services it held back run.
ServicesResume == []<>(~safe /\ services)

\* While the station works, the access point does not stay open.
ApCloses == <>[](conn = "online" /\ link) => <>[](ap = None)
=============================================================================
