--------------------------- MODULE ApplianceProofs ---------------------------
(***************************************************************************)
(* Theorems about ConfigStores, for any networks, passwords, secrets,      *)
(* intervals and ports and any number of saves, resets and flash faults;   *)
(* and about NtpServer, for any length of a second, budget and number of   *)
(* datagrams.                                                              *)
(***************************************************************************)
EXTENDS ConfigStores, NtpServer, FiniteSetTheorems, TLAPS

\* A profile the gateway can run with, as the forms of its store demand.
Valid(s, p) ==
  /\ s = "network" => /\ p.ssid \in Networks \cup {""}
                      /\ p.ssid = "" <=> p.admin = ""
                      /\ p.ntp => p.servers # ""
  /\ s \in {"zte", "smtp"} => p.secret # ""
  /\ s \in {"zte", "modem", "gps"} => ValidInterval(p.interval)
  /\ s = "smtp" => p.port \in Nat /\ ValidPort(p.port)

\* An old record of any firmware that checked its forms.
ValidOld(s, l) ==
  /\ l \in OldProfiles(s)
  /\ s # "network" => ValidInterval(l.interval)

LEMMA ValidPortIsAPort ==
  ASSUME NEW i \in Nat, ValidPort(i)
  PROVE  i # 0
BY SMT DEF ValidPort

LEMMA ProfilesByStore ==
  /\ Profiles("network") = NetworkProfiles /\ Unset("network") = NetworkUnset
  /\ Profiles("zte") = ZteProfiles /\ Unset("zte") = ZteUnset
  /\ Profiles("modem") = ModemProfiles /\ Unset("modem") = ModemUnset
  /\ Profiles("gps") = GpsProfiles /\ Unset("gps") = GpsUnset
  /\ Profiles("smtp") = SmtpProfiles /\ Unset("smtp") = SmtpUnset
BY DEF Profiles, Unset

LEMMA UnsetTyped ==
  ASSUME NEW s \in {"network", "zte", "modem", "gps", "smtp"}
  PROVE  Unset(s) \in Profiles(s)
<1>1. NetworkUnset \in NetworkProfiles
  BY DEF NetworkProfiles, NetworkUnset
<1>2. ZteUnset \in ZteProfiles
  BY DEF ZteProfiles, ZteUnset, AllIntervals
<1>3. ModemUnset \in ModemProfiles
  BY DEF ModemProfiles, ModemUnset, AllIntervals
<1>4. GpsUnset \in GpsProfiles
  BY DEF GpsProfiles, GpsUnset, AllIntervals
<1>5. SmtpUnset \in SmtpProfiles
  BY DEF SmtpProfiles, SmtpUnset
<1> QED BY <1>1, <1>2, <1>3, <1>4, <1>5, ProfilesByStore

\* The upgrade of an old record keeps what it meant.
LEMMA NetworkUpgradeKeepsMeaning ==
  ASSUME NEW l \in NetworkLegacy
  PROVE  Meant("network", l) = NetworkUpgraded(l)
<1>1. DOMAIN l = {"ssid", "admin"}
  BY DEF NetworkLegacy
<1>2. Meant("network", l) =
        [k \in {"ssid", "admin", "servers", "ntp"} |->
           IF k \in {"ssid", "admin"} THEN l[k] ELSE NetworkUnset[k]]
  BY <1>1, ProfilesByStore DEF Meant, NetworkUnset
<1> QED BY <1>2 DEF NetworkUnset, NetworkUpgraded

LEMMA ZteUpgradeKeepsMeaning ==
  ASSUME NEW l \in ZteLegacy, ValidInterval(l.interval)
  PROVE  Meant("zte", l) = ZteUpgraded(l)
<1>1. DOMAIN l = {"on", "secret", "interval"}
  BY DEF ZteLegacy
<1>2. Meant("zte", l) =
        [k \in {"module", "forward", "secret", "interval"} |->
           IF k \in {"secret", "interval"} THEN l[k] ELSE l.on]
  BY <1>1, ProfilesByStore DEF Meant, ZteUnset
<1>3. ZteUpgraded(l) =
        [module |-> l.on, forward |-> l.on, secret |-> l.secret, interval |-> l.interval]
  BY DEF ZteUpgraded, ZteBuilt
<1> QED BY <1>2, <1>3

LEMMA ModemUpgradeKeepsMeaning ==
  ASSUME NEW l \in ModemLegacy
  PROVE  Meant("modem", l) = ModemUpgraded(l)
BY ProfilesByStore DEF Meant, ModemUnset, ModemUpgraded, ModemLegacy

LEMMA GpsUpgradeKeepsMeaning ==
  ASSUME NEW l \in GpsLegacy, ValidInterval(l.interval)
  PROVE  Meant("gps", l) = GpsUpgraded(l)
BY ProfilesByStore DEF Meant, GpsUnset, GpsUpgraded, GpsBuilt, GpsLegacy

-----------------------------------------------------------------------------
(* The inductive invariant of the stores.                                  *)

\* What is in flash is what the operator asked for, in the layout of this firmware
\* or of the one before; or NTP settings took the network with them; or nothing
\* that can be read was ever there.
RecordIsTold ==
  /\ nvs.layout = "old" =>
       nvs.agrees /\ ValidOld(store, nvs.profile) /\ told = Meant(store, nvs.profile)
  /\ Intact => Valid(store, told) /\ nvs.profile \in Profiles(store)
  /\ Intact /\ ~blind => nvs.profile = told
  /\ blind => /\ store = "network" /\ Intact
              /\ nvs.profile.ssid = "" /\ told.ssid # ""
              /\ NetworkSound(nvs.profile)
  /\ ~Intact /\ nvs.layout # "old" => told = Unset(store)

\* What runs is what the operator asked for, or the profile of a device that has
\* none while the flash did not give up what it holds.
RunningIsTold ==
  /\ pc # "up" => cfg = Unset(store) /\ ~loaded
  /\ pc = "migrate" => ~Intact
  /\ loaded => Valid(store, cfg)
  /\ cfg = Unset(store) \/ Valid(store, cfg)
  /\ store # "network" /\ pc = "up" => (loaded \/ ~missed => cfg = told)
  /\ store = "network" /\ pc = "up" =>
       /\ cfg.ssid # "" => cfg = told /\ ~blind
       /\ cfg.ssid = "" => cfg.admin = "" /\ (missed \/ blind \/ told.ssid = "")
       /\ ~missed /\ ~blind /\ told.ssid # "" => cfg = told

StoresInv == StoresTypeOK /\ RecordIsTold /\ RunningIsTold

\* The parts of the type invariant, one to a variable.
LEMMA TypesApart ==
  ASSUME StoresTypeOK
  PROVE  /\ store \in Stores /\ store \in {"network", "zte", "modem", "gps", "smtp"}
         /\ Unset(store) \in Profiles(store)
         /\ cfg \in Profiles(store) /\ told \in Profiles(store)
         /\ loaded \in BOOLEAN /\ missed \in BOOLEAN /\ blind \in BOOLEAN
<1>1. store \in {"network", "zte", "modem", "gps", "smtp"}
  BY ConfigStoresAssumption DEF StoresTypeOK
<1> QED BY <1>1, UnsetTyped DEF StoresTypeOK

Budgets == [saves : 0 .. MaxSaves, resets : 0 .. MaxResets, faults : 0 .. MaxFlashFaults]

LEMMA BoundsAreNaturals == MaxSaves \in Nat /\ MaxResets \in Nat /\ MaxFlashFaults \in Nat
BY ConfigStoresAssumption

LEMMA FaultTyped ==
  ASSUME budget \in Budgets, Fault
  PROVE  budget' \in Budgets
<1>1. budget.faults - 1 \in 0 .. MaxFlashFaults
  BY BoundsAreNaturals DEF Fault, Budgets
<1> QED BY <1>1 DEF Fault, Budgets

-----------------------------------------------------------------------------
(* The first boot.                                                         *)

LEMMA LegacyIsValid ==
  ASSUME NEW s \in {"network", "zte", "modem", "gps", "smtp"}, NEW l, ValidOld(s, l)
  PROVE  s # "smtp" /\ Meant(s, l) \in Profiles(s) /\ Valid(s, Meant(s, l))
<1>1. CASE s = "network"
  <2>1. l \in NetworkLegacy
    BY <1>1 DEF ValidOld, OldProfiles
  <2>2. Meant(s, l) = NetworkUpgraded(l)
    BY <1>1, <2>1, NetworkUpgradeKeepsMeaning
  <2>3. NetworkUpgraded(l) \in NetworkProfiles
    BY <2>1 DEF NetworkUpgraded, NetworkLegacy, NetworkProfiles
  <2>4. l.ssid \in Networks /\ l.ssid # "" /\ l.admin # ""
    BY <2>1, ConfigStoresAssumption DEF NetworkLegacy
  <2>5. Valid(s, NetworkUpgraded(l))
    <3>1. /\ NetworkUpgraded(l).ssid = l.ssid /\ NetworkUpgraded(l).admin = l.admin
          /\ NetworkUpgraded(l).servers = "default"
      BY DEF NetworkUpgraded
    <3> QED BY <1>1, <2>4, <3>1 DEF Valid
  <2> QED BY <1>1, <2>2, <2>3, <2>5, ProfilesByStore
<1>2. CASE s = "zte"
  <2>1. l \in ZteLegacy /\ ValidInterval(l.interval)
    BY <1>2 DEF ValidOld, OldProfiles
  <2>2. Meant(s, l) = ZteUpgraded(l)
    BY <1>2, <2>1, ZteUpgradeKeepsMeaning
  <2>3. ZteUpgraded(l) =
          [module |-> l.on, forward |-> l.on, secret |-> l.secret, interval |-> l.interval]
    BY <2>1 DEF ZteUpgraded, ZteBuilt
  <2>4. ZteUpgraded(l) \in ZteProfiles
    <3>1. l.on \in BOOLEAN /\ l.secret \in Secrets \cup {""} /\ l.interval \in AllIntervals
      BY <2>1 DEF ZteLegacy, AllIntervals
    <3>2. [module |-> l.on, forward |-> l.on, secret |-> l.secret, interval |-> l.interval]
            \in ZteProfiles
      BY <3>1 DEF ZteProfiles
    <3> QED BY <2>3, <3>2
  <2>5. l.secret # ""
    BY <2>1, ConfigStoresAssumption DEF ZteLegacy
  <2>6. ZteUpgraded(l).secret = l.secret /\ ZteUpgraded(l).interval = l.interval
    BY <2>3
  <2>7. Valid(s, ZteUpgraded(l))
    BY <1>2, <2>1, <2>5, <2>6 DEF Valid
  <2> QED BY <1>2, <2>2, <2>4, <2>7, ProfilesByStore
<1>3. CASE s = "modem"
  <2>1. l \in ModemLegacy /\ ValidInterval(l.interval)
    BY <1>3 DEF ValidOld, OldProfiles
  <2>2. Meant(s, l) = ModemUpgraded(l)
    BY <1>3, <2>1, ModemUpgradeKeepsMeaning
  <2>3. ModemUpgraded(l) \in ModemProfiles /\ ModemUpgraded(l).interval = l.interval
    BY <2>1 DEF ModemLegacy, ModemProfiles, ModemUpgraded, AllIntervals
  <2> QED BY <1>3, <2>1, <2>2, <2>3, ProfilesByStore DEF Valid
<1>4. CASE s = "gps"
  <2>1. l \in GpsLegacy /\ ValidInterval(l.interval)
    BY <1>4 DEF ValidOld, OldProfiles
  <2>2. Meant(s, l) = GpsUpgraded(l)
    BY <1>4, <2>1, GpsUpgradeKeepsMeaning
  <2>3. GpsUpgraded(l) =
          [module |-> l.on, poll |-> l.on, sync |-> l.sync, interval |-> l.interval]
    BY <2>1 DEF GpsUpgraded, GpsBuilt
  <2>4. GpsUpgraded(l) \in GpsProfiles /\ GpsUpgraded(l).interval = l.interval
    BY <2>1, <2>3 DEF GpsLegacy, GpsProfiles, AllIntervals
  <2> QED BY <1>4, <2>1, <2>2, <2>4, ProfilesByStore DEF Valid
<1>5. CASE s = "smtp"
  BY <1>5 DEF ValidOld, OldProfiles
<1> QED BY <1>1, <1>2, <1>3, <1>4, <1>5

LEMMA UnsetHasNoNetwork ==
  ASSUME NEW s, s = "network"
  PROVE  Unset(s).ssid = "" /\ Unset(s).admin = "" /\ Valid(s, Unset(s))
<1>1. Unset(s) = NetworkUnset
  BY ProfilesByStore
<1>2. NetworkUnset.ssid = "" /\ NetworkUnset.admin = "" /\ NetworkUnset.servers = "default"
  BY DEF NetworkUnset
<1>3. Valid(s, NetworkUnset)
  BY <1>2 DEF Valid
<1> QED BY <1>1, <1>2, <1>3

LEMMA InitEstablishes == StoresInit => StoresInv
<1> SUFFICES ASSUME StoresInit PROVE StoresInv
  OBVIOUS
<1>1. store \in Stores /\ store \in {"network", "zte", "modem", "gps", "smtp"}
  BY ConfigStoresAssumption DEF StoresInit
<1>2. Unset(store) \in Profiles(store)
  BY <1>1, UnsetTyped
<1>3. /\ pc = "load" /\ cfg = Unset(store)
      /\ loaded = FALSE /\ missed = FALSE /\ blind = FALSE
  BY DEF StoresInit
<1>4. budget \in Budgets
  BY BoundsAreNaturals DEF StoresInit, Budgets
<1>5. RunningIsTold
  BY <1>3 DEF RunningIsTold
<1>6. CASE nvs \in Unreadable(store) /\ told = Unset(store)
  <2>1. nvs.layout \in {"none", "older", "new"} /\ nvs.agrees \in BOOLEAN
        /\ nvs.profile = Unset(store) /\ ~Intact
    BY <1>6 DEF Unreadable, Intact
  <2>2. StoresTypeOK
    BY <1>1, <1>2, <1>3, <1>4, <1>6, <2>1 DEF StoresTypeOK, Budgets
  <2>3. RecordIsTold
    BY <1>3, <1>6, <2>1 DEF RecordIsTold
  <2> QED BY <1>5, <2>2, <2>3 DEF StoresInv
<1>7. CASE \E l \in OldProfiles(store) :
             /\ store # "network" => ValidInterval(l.interval)
             /\ nvs = [layout |-> "old", agrees |-> TRUE, profile |-> l]
             /\ told = Meant(store, l)
  <2>1. PICK l \in OldProfiles(store) :
             /\ store # "network" => ValidInterval(l.interval)
             /\ nvs = [layout |-> "old", agrees |-> TRUE, profile |-> l]
             /\ told = Meant(store, l)
    BY <1>7
  <2>2. ValidOld(store, l)
    BY <2>1 DEF ValidOld
  <2>3. nvs.layout = "old" /\ nvs.agrees = TRUE /\ nvs.profile = l /\ ~Intact
    BY <2>1 DEF Intact
  <2>4. told \in Profiles(store)
    BY <1>1, <2>1, <2>2, LegacyIsValid
  <2>5. StoresTypeOK
    BY <1>1, <1>2, <1>3, <1>4, <2>1, <2>3, <2>4 DEF StoresTypeOK, Budgets
  <2>6. RecordIsTold
    BY <1>3, <2>1, <2>2, <2>3 DEF RecordIsTold
  <2> QED BY <1>5, <2>5, <2>6 DEF StoresInv
<1> QED BY <1>6, <1>7 DEF StoresInit

-----------------------------------------------------------------------------
(* The steps.                                                              *)

LEMMA SaveSpends ==
  ASSUME budget \in Budgets, budget.saves > 0,
         budget' = [budget EXCEPT !.saves = @ - 1]
  PROVE  budget' \in Budgets
<1>1. budget.saves - 1 \in 0 .. MaxSaves
  BY BoundsAreNaturals DEF Budgets
<1> QED BY <1>1 DEF Budgets

\* A boot and a reset leave the record and the operator alone.
LEMMA RecordUntouched ==
  ASSUME StoresTypeOK, RecordIsTold,
         nvs' = nvs, store' = store, told' = told, blind' = blind,
         pc' \in {"load", "migrate", "up"}, cfg' \in Profiles(store),
         loaded' \in BOOLEAN, missed' \in BOOLEAN, budget' \in Budgets
  PROVE  StoresTypeOK' /\ RecordIsTold'
<1>1. StoresTypeOK'
  BY DEF StoresTypeOK, Budgets
<1>2. RecordIsTold'
  BY DEF RecordIsTold, Intact
<1> QED BY <1>1, <1>2

\* A form accepted: what is stored runs from then on, and is what was wanted,
\* unless the network could not be read.
LEMMA SavingPreserves ==
  ASSUME StoresInv,
         NEW record, NEW sound, NEW wanted, NEW unread \in BOOLEAN,
         Saving(record, sound, record, wanted, unread),
         sound => /\ record \in Profiles(store) /\ Valid(store, record)
                  /\ wanted \in Profiles(store) /\ Valid(store, wanted),
         ~unread => wanted = record,
         sound /\ unread => /\ store = "network" /\ NetworkSound(record)
                            /\ record.ssid = "" /\ wanted.ssid # ""
  PROVE  StoresInv'
<1>1. store' = store /\ store \in Stores /\ pc = "up"
  BY DEF Saving, StoresInv, StoresTypeOK
<1>2. budget' \in Budgets
  <2>1. budget \in Budgets
    BY DEF StoresInv, StoresTypeOK, Budgets
  <2> QED BY <2>1, SaveSpends, FaultTyped DEF Saving
<1>3. CASE /\ sound /\ nvs' = Put(record) /\ told' = wanted /\ blind' = unread
           /\ \/ Keep(record) /\ missed' = unread /\ UNCHANGED pc
              \/ Off
  <2>1. /\ nvs'.layout = "new" /\ nvs'.agrees = TRUE /\ nvs'.profile = record
        /\ Intact'
    BY <1>3 DEF Put, Intact
  <2>2. RecordIsTold'
    BY <1>1, <1>3, <2>1 DEF RecordIsTold
  <2>3. CASE Keep(record) /\ missed' = unread /\ UNCHANGED pc
    <3>1. cfg' = record /\ loaded' = TRUE /\ pc' = "up" /\ missed' = unread
      BY <1>1, <2>3 DEF Keep
    <3>2. StoresTypeOK'
      BY <1>1, <1>2, <1>3, <2>1, <3>1 DEF StoresTypeOK, Budgets
    <3>3. store = "network" /\ record.ssid = "" => record.admin = ""
      BY <1>3 DEF Valid
    <3>4. RunningIsTold'
      BY <1>1, <1>3, <3>1, <3>3 DEF RunningIsTold
    <3> QED BY <2>2, <3>2, <3>4 DEF StoresInv
  <2>4. CASE Off
    <3>1. cfg' = Unset(store) /\ loaded' = FALSE /\ pc' = "load" /\ missed' = FALSE
      BY <2>4 DEF Off
    <3>2. Unset(store) \in Profiles(store)
      BY TypesApart DEF StoresInv
    <3>3. StoresTypeOK'
      BY <1>1, <1>2, <1>3, <2>1, <3>1, <3>2 DEF StoresTypeOK, Budgets
    <3>4. RunningIsTold'
      BY <1>1, <3>1 DEF RunningIsTold
    <3> QED BY <2>2, <3>3, <3>4 DEF StoresInv
  <2> QED BY <1>3, <2>3, <2>4
<1>4. CASE UNCHANGED <<nvs, pc, cfg, loaded, missed, told, blind>>
  <2>1. UNCHANGED <<store, nvs, pc, cfg, loaded, missed, told, blind>>
    BY <1>1, <1>4
  <2>2. /\ pc \in {"load", "migrate", "up"} /\ cfg \in Profiles(store)
        /\ loaded \in BOOLEAN /\ missed \in BOOLEAN
    BY DEF StoresInv, StoresTypeOK
  <2>3. StoresTypeOK' /\ RecordIsTold'
    BY <1>2, <2>1, <2>2, RecordUntouched DEF StoresInv
  <2>4. RunningIsTold'
    BY <2>1 DEF StoresInv, RunningIsTold, Intact
  <2> QED BY <2>3, <2>4 DEF StoresInv
<1> QED BY <1>3, <1>4 DEF Saving, KeepNot

\* A boot that goes on without a profile.
LEMMA GivingUpPreserves ==
  ASSUME StoresInv, Up(Unset(store), FALSE), UNCHANGED <<nvs, store, told, blind>>,
         budget' \in Budgets, missed' \in BOOLEAN,
         \/ missed' = TRUE
         \/ told = Unset(store)
         \/ store = "network" /\ (blind = TRUE \/ told.ssid = "")
  PROVE  StoresInv'
<1>1. /\ store' = store /\ nvs' = nvs /\ told' = told /\ blind' = blind
      /\ pc' = "up" /\ cfg' = Unset(store) /\ loaded' = FALSE
  BY DEF Up
<1>2. Unset(store) \in Profiles(store)
  BY TypesApart DEF StoresInv
<1>3. StoresTypeOK' /\ RecordIsTold'
  BY <1>1, <1>2, RecordUntouched DEF StoresInv
<1>5. store = "network" => Unset(store).ssid = "" /\ Unset(store).admin = ""
  BY UnsetHasNoNetwork
<1>6. RunningIsTold'
  <2>1. store # "network" => missed' = TRUE \/ cfg' = told'
    BY <1>1
  <2>2. store = "network" => missed' = TRUE \/ blind' = TRUE \/ told'.ssid = ""
    BY <1>1, <1>5
  <2>3. store = "network" => cfg'.ssid = "" /\ cfg'.admin = ""
    BY <1>1, <1>5
  <2> QED BY <1>1, <2>1, <2>2, <2>3 DEF RunningIsTold
<1> QED BY <1>3, <1>6 DEF StoresInv

LEMMA MissedPreserves ==
  ASSUME StoresInv, Missed
  PROVE  StoresInv'
<1>1. budget' \in Budgets
  BY FaultTyped DEF Missed, StoresInv, StoresTypeOK, Budgets
<1>2. Up(Unset(store), FALSE) /\ missed' = TRUE /\ UNCHANGED <<nvs, store, told, blind>>
  BY DEF Missed, BootRest
<1> QED BY <1>1, <1>2, GivingUpPreserves

\* A profile read: an intact record passes its predicate, and it is used unless it
\* holds no network.
LEMMA LoadingPreserves ==
  ASSUME StoresInv, NEW s, NEW sound, NEW usable, NEW profile, NEW looksOld,
         Loading(s, sound, usable, profile, looksOld),
         Intact => sound,
         nvs.layout = "old" => looksOld,
         Intact /\ usable => profile = told /\ ~blind,
         Intact /\ ~usable => s = "network" /\ (blind = TRUE \/ told.ssid = "")
  PROVE  StoresInv'
<1>1. store = s /\ pc = "load"
  BY DEF Loading
<1>2. ASSUME UNCHANGED <<nvs, missed, budget, BootRest>>
      PROVE  /\ UNCHANGED <<nvs, store, told, blind>> /\ missed' = missed /\ budget' = budget
             /\ budget' \in Budgets /\ missed' \in BOOLEAN
  BY <1>2 DEF BootRest, StoresInv, StoresTypeOK, Budgets
<1>3. CASE Missed
  BY <1>1, <1>3, MissedPreserves
<1>4. CASE /\ UNCHANGED <<nvs, missed, budget, BootRest>>
           /\ Intact /\ sound /\ usable /\ Up(profile, TRUE)
  <2>1. /\ store' = store /\ nvs' = nvs /\ told' = told /\ blind' = blind
        /\ pc' = "up" /\ cfg' = told /\ loaded' = TRUE /\ ~blind
    BY <1>2, <1>4 DEF Up
  <2>2. /\ cfg' \in Profiles(store) /\ pc' \in {"load", "migrate", "up"}
        /\ loaded' \in BOOLEAN /\ missed' \in BOOLEAN /\ budget' \in Budgets
    <3>1. told \in Profiles(store)
      BY TypesApart DEF StoresInv
    <3> QED BY <1>2, <1>4, <2>1, <3>1
  <2>3. StoresTypeOK' /\ RecordIsTold'
    BY <2>1, <2>2, RecordUntouched DEF StoresInv
  <2>4. Valid(store, told)
    BY <1>4 DEF StoresInv, RecordIsTold
  <2>5. store = "network" /\ told.ssid = "" => told.admin = ""
    BY <2>4 DEF Valid
  <2>6. RunningIsTold'
    BY <2>1, <2>4, <2>5 DEF RunningIsTold
  <2> QED BY <2>3, <2>6 DEF StoresInv
<1>5. CASE /\ UNCHANGED <<nvs, missed, budget, BootRest>>
           /\ Intact /\ sound /\ ~usable /\ Up(Unset(s), FALSE)
  BY <1>1, <1>2, <1>5, GivingUpPreserves
<1>6. CASE /\ UNCHANGED <<nvs, missed, budget, BootRest>>
           /\ ~(Intact /\ sound) /\ looksOld /\ pc' = "migrate" /\ UNCHANGED <<cfg, loaded>>
  <2>1. /\ store' = store /\ nvs' = nvs /\ told' = told /\ blind' = blind
        /\ pc' = "migrate" /\ cfg' = cfg /\ loaded' = loaded /\ ~Intact
    BY <1>2, <1>6
  <2>2. /\ cfg' \in Profiles(store) /\ pc' \in {"load", "migrate", "up"}
        /\ loaded' \in BOOLEAN /\ missed' \in BOOLEAN /\ budget' \in Budgets
    <3>1. cfg \in Profiles(store) /\ loaded \in BOOLEAN
      BY TypesApart DEF StoresInv
    <3> QED BY <1>2, <1>6, <2>1, <3>1
  <2>3. StoresTypeOK' /\ RecordIsTold'
    BY <2>1, <2>2, RecordUntouched DEF StoresInv
  <2>4. RunningIsTold'
    BY <1>1, <2>1 DEF StoresInv, RunningIsTold, Intact
  <2> QED BY <2>3, <2>4 DEF StoresInv
<1>7. CASE /\ UNCHANGED <<nvs, missed, budget, BootRest>>
           /\ ~(Intact /\ sound) /\ ~looksOld /\ Up(Unset(s), FALSE)
  <2>1. told = Unset(store)
    BY <1>7 DEF StoresInv, RecordIsTold
  <2> QED BY <1>1, <1>2, <1>7, <2>1, GivingUpPreserves
<1> QED BY <1>3, <1>4, <1>5, <1>6, <1>7 DEF Loading

\* An upgrade: a record of the firmware before passes its predicate and becomes the
\* profile it meant.
LEMMA MigratingPreserves ==
  ASSUME StoresInv, NEW s, NEW sound, NEW upgraded,
         Migrating(s, sound, upgraded),
         nvs.layout = "old" => sound /\ upgraded = told
  PROVE  StoresInv'
<1>1. store = s /\ pc = "migrate" /\ ~Intact
  BY DEF Migrating, StoresInv, RunningIsTold
<1>2. store \in {"network", "zte", "modem", "gps", "smtp"} /\ told \in Profiles(store)
  BY TypesApart DEF StoresInv
<1>3. CASE Missed
  BY <1>1, <1>3, MissedPreserves
<1>4. CASE /\ Old /\ nvs' = Put(upgraded) /\ pc' = "load"
           /\ UNCHANGED <<cfg, loaded, missed, budget, BootRest>>
  <2>1. /\ store' = store /\ told' = told /\ blind' = blind /\ pc' = "load" /\ cfg' = cfg
        /\ loaded' = loaded /\ missed' = missed /\ budget' = budget
        /\ nvs'.layout = "new" /\ nvs'.agrees = TRUE /\ nvs'.profile = told /\ Intact'
    BY <1>4 DEF BootRest, Put, Old, Intact
  <2>2. Valid(store, told)
    <3>1. ValidOld(store, nvs.profile) /\ told = Meant(store, nvs.profile)
      BY <1>4 DEF Old, StoresInv, RecordIsTold
    <3> QED BY <1>2, <3>1, LegacyIsValid
  <2>3. ~blind
    BY <1>1 DEF StoresInv, RecordIsTold
  <2>4. StoresTypeOK'
    BY <1>2, <2>1 DEF StoresInv, StoresTypeOK, Budgets
  <2>5. RecordIsTold'
    BY <1>2, <2>1, <2>2, <2>3 DEF RecordIsTold
  <2>6. RunningIsTold'
    BY <1>1, <2>1 DEF StoresInv, RunningIsTold
  <2> QED BY <2>4, <2>5, <2>6 DEF StoresInv
<1>5. CASE /\ ~(Old /\ sound) /\ Up(Unset(s), FALSE)
           /\ UNCHANGED <<nvs, missed, budget, BootRest>>
  <2>1. nvs.layout # "old"
    BY <1>5 DEF Old, StoresInv, RecordIsTold
  <2>2. told = Unset(store)
    BY <1>1, <2>1 DEF StoresInv, RecordIsTold
  <2>3. /\ UNCHANGED <<nvs, store, told, blind>>
        /\ budget' \in Budgets /\ missed' \in BOOLEAN
    BY <1>5 DEF BootRest, StoresInv, StoresTypeOK, Budgets
  <2> QED BY <1>1, <1>5, <2>2, <2>3, GivingUpPreserves
<1> QED BY <1>3, <1>4, <1>5 DEF Migrating

LEMMA ResetPreserves == ASSUME StoresInv, Reset PROVE StoresInv'
<1>1. /\ store' = store /\ nvs' = nvs /\ told' = told /\ blind' = blind
      /\ pc' = "load" /\ cfg' = Unset(store) /\ loaded' = FALSE /\ missed' = FALSE
  BY DEF Reset, Off, BootRest
<1>2. Unset(store) \in Profiles(store)
  BY TypesApart DEF StoresInv
<1>3. budget' \in Budgets
  <2>1. budget \in Budgets
    BY DEF StoresInv, StoresTypeOK, Budgets
  <2>2. budget.resets - 1 \in 0 .. MaxResets
    BY <2>1, BoundsAreNaturals DEF Budgets, Reset
  <2> QED BY <2>1, <2>2 DEF Reset, Budgets
<1>4. StoresTypeOK' /\ RecordIsTold'
  BY <1>1, <1>2, <1>3, RecordUntouched DEF StoresInv
<1>5. RunningIsTold'
  BY <1>1 DEF RunningIsTold
<1> QED BY <1>4, <1>5 DEF StoresInv

-----------------------------------------------------------------------------
(* The boot, store by store.                                               *)

\* Servers that were given are not replaced.
LEMMA BackfillChangesNothing ==
  ASSUME NEW p \in NetworkProfiles, p.ntp => p.servers # ""
  PROVE  Backfilled(p) = p
<1>1. Servers(p.ntp, p.servers) = p.servers
  BY DEF Servers
<1>2. [p EXCEPT !.servers = p.servers] = p
  BY DEF NetworkProfiles
<1> QED BY <1>1, <1>2 DEF Backfilled

LEMMA NetworkIsValid ==
  ASSUME StoresInv, store = "network"
  PROVE  /\ told \in NetworkProfiles /\ cfg \in NetworkProfiles
         /\ Valid("network", told) /\ Valid("network", cfg)
<1>1. told \in NetworkProfiles /\ cfg \in NetworkProfiles
  BY TypesApart, ProfilesByStore DEF StoresInv
<1>2. Valid(store, Unset(store))
  BY UnsetHasNoNetwork
<1>3. nvs.layout = "old" => Valid(store, told)
  <2>1. nvs.layout = "old" => ValidOld(store, nvs.profile) /\ told = Meant(store, nvs.profile)
    BY DEF StoresInv, RecordIsTold
  <2>2. store \in {"network", "zte", "modem", "gps", "smtp"}
    BY TypesApart DEF StoresInv
  <2> QED BY <2>1, <2>2, LegacyIsValid
<1>4. Valid(store, told)
  BY <1>2, <1>3 DEF StoresInv, RecordIsTold
<1>5. Valid(store, cfg)
  BY <1>2 DEF StoresInv, RunningIsTold
<1> QED BY <1>1, <1>4, <1>5

LEMMA LoadNetworkPreserves == ASSUME StoresInv, LoadNetwork PROVE StoresInv'
<1>1. store = "network"
  BY DEF LoadNetwork, Loading
<1>2. Valid("network", told) /\ told \in NetworkProfiles
  BY <1>1, NetworkIsValid
<1>3. told.ssid \in Printable /\ (told.ssid = "" <=> told.admin = "")
      /\ (told.ntp => told.servers # "")
  BY <1>2 DEF Valid, Printable
<1>4. Intact => NetworkSound(nvs.profile)
  BY <1>3 DEF StoresInv, RecordIsTold, NetworkSound
<1>5. Intact /\ Connects(nvs.profile) => nvs.profile = told /\ ~blind
  BY DEF StoresInv, RecordIsTold, Connects
<1>6. Backfilled(told) = told
  BY <1>2, <1>3, BackfillChangesNothing
<1>7. Intact /\ Connects(nvs.profile) => Backfilled(nvs.profile) = told /\ ~blind
  BY <1>5, <1>6
<1>8. Intact /\ ~Connects(nvs.profile) => blind = TRUE \/ told.ssid = ""
  <2>1. blind \in BOOLEAN
    BY TypesApart DEF StoresInv
  <2>2. ASSUME Intact, ~Connects(nvs.profile), blind = FALSE PROVE told.ssid = ""
    <3>1. nvs.profile = told
      BY <2>2 DEF StoresInv, RecordIsTold
    <3> QED BY <1>3, <2>2, <3>1 DEF Connects
  <2> QED BY <2>1, <2>2
<1> QED BY <1>4, <1>7, <1>8, LoadingPreserves DEF LoadNetwork

\* Only a network is ever lost to a form.
LEMMA OtherRecordsAreTold ==
  ASSUME StoresInv, store # "network", Intact
  PROVE  nvs.profile = told /\ ~blind /\ Valid(store, told)
BY DEF StoresInv, RecordIsTold

LEMMA LoadZtePreserves == ASSUME StoresInv, LoadZte PROVE StoresInv'
<1>1. store = "zte"
  BY DEF LoadZte, Loading
<1>2. Intact => nvs.profile = told /\ ~blind /\ Valid("zte", told)
  BY <1>1, OtherRecordsAreTold
<1>3. Intact => ZteSound(nvs.profile)
  BY <1>2 DEF Valid, ZteSound
<1> QED BY <1>2, <1>3, LoadingPreserves DEF LoadZte, SameLength

LEMMA LoadModemPreserves == ASSUME StoresInv, LoadModem PROVE StoresInv'
<1>1. store = "modem"
  BY DEF LoadModem, Loading
<1>2. Intact => nvs.profile = told /\ ~blind /\ Valid("modem", told)
  BY <1>1, OtherRecordsAreTold
<1>3. Intact => ModemSound(nvs.profile)
  BY <1>2 DEF Valid, ModemSound
<1> QED BY <1>2, <1>3, LoadingPreserves DEF LoadModem, SameLength

LEMMA LoadGpsPreserves == ASSUME StoresInv, LoadGps PROVE StoresInv'
<1>1. store = "gps"
  BY DEF LoadGps, Loading
<1>2. Intact => nvs.profile = told /\ ~blind /\ Valid("gps", told)
  BY <1>1, OtherRecordsAreTold
<1>3. Intact => GpsSound(nvs.profile)
  BY <1>2 DEF Valid, GpsSound
<1> QED BY <1>2, <1>3, LoadingPreserves DEF LoadGps, SameLength

LEMMA LoadSmtpPreserves == ASSUME StoresInv, LoadSmtp PROVE StoresInv'
<1>1. store = "smtp"
  BY DEF LoadSmtp, Loading
<1>2. Intact => nvs.profile = told /\ ~blind /\ Valid("smtp", told)
  BY <1>1, OtherRecordsAreTold
<1>3. Intact => SmtpSound(nvs.profile)
  <2>1. Valid("smtp", told) => told.secret # "" /\ told.port \in Nat /\ ValidPort(told.port)
    BY DEF Valid
  <2> QED BY <1>2, <2>1, ValidPortIsAPort DEF SmtpSound
<1>4. nvs.layout # "old"
  <2>1. nvs.layout = "old" => ValidOld(store, nvs.profile)
    BY DEF StoresInv, RecordIsTold
  <2> QED BY <1>1, <2>1, LegacyIsValid
<1> QED BY <1>2, <1>3, <1>4, LoadingPreserves DEF LoadSmtp

\* The old record meets the predicate of its firmware and is upgraded to its meaning.
LEMMA OldRecordMeansTold ==
  ASSUME StoresInv, nvs.layout = "old"
  PROVE  /\ nvs.profile \in OldProfiles(store) /\ told = Meant(store, nvs.profile)
         /\ store # "network" => ValidInterval(nvs.profile.interval)
BY DEF StoresInv, RecordIsTold, ValidOld

LEMMA MigrateNetworkPreserves == ASSUME StoresInv, MigrateNetwork PROVE StoresInv'
<1>1. store = "network"
  BY DEF MigrateNetwork, Migrating
<1>2. nvs.layout = "old" => nvs.profile \in NetworkLegacy /\ told = Meant("network", nvs.profile)
  BY <1>1, OldRecordMeansTold DEF OldProfiles
<1>3. nvs.layout = "old" =>
        NetworkLegacySound(nvs.profile) /\ NetworkUpgraded(nvs.profile) = told
  <2>1. nvs.profile \in NetworkLegacy => NetworkLegacySound(nvs.profile)
    BY DEF NetworkLegacy, NetworkLegacySound, Printable
  <2> QED BY <1>2, <2>1, NetworkUpgradeKeepsMeaning
<1> QED BY <1>3, MigratingPreserves DEF MigrateNetwork

LEMMA MigrateZtePreserves == ASSUME StoresInv, MigrateZte PROVE StoresInv'
<1>1. store = "zte"
  BY DEF MigrateZte, Migrating
<1>2. nvs.layout = "old" =>
        /\ nvs.profile \in ZteLegacy /\ told = Meant("zte", nvs.profile)
        /\ ValidInterval(nvs.profile.interval)
  BY <1>1, OldRecordMeansTold DEF OldProfiles
<1>3. nvs.profile \in ZteLegacy => nvs.profile.secret # ""
  BY ConfigStoresAssumption DEF ZteLegacy
<1>4. nvs.layout = "old" => ZteLegacySound(nvs.profile) /\ ZteUpgraded(nvs.profile) = told
  BY <1>2, <1>3, ZteUpgradeKeepsMeaning DEF ZteLegacySound
<1> QED BY <1>4, MigratingPreserves DEF MigrateZte

LEMMA MigrateModemPreserves == ASSUME StoresInv, MigrateModem PROVE StoresInv'
<1>1. store = "modem"
  BY DEF MigrateModem, Migrating
<1>2. nvs.layout = "old" =>
        /\ nvs.profile \in ModemLegacy /\ told = Meant("modem", nvs.profile)
        /\ ValidInterval(nvs.profile.interval)
  BY <1>1, OldRecordMeansTold DEF OldProfiles
<1>3. nvs.layout = "old" => ModemLegacySound(nvs.profile) /\ ModemUpgraded(nvs.profile) = told
  BY <1>2, ModemUpgradeKeepsMeaning DEF ModemLegacySound
<1> QED BY <1>3, MigratingPreserves DEF MigrateModem

LEMMA MigrateGpsPreserves == ASSUME StoresInv, MigrateGps PROVE StoresInv'
<1>1. store = "gps"
  BY DEF MigrateGps, Migrating
<1>2. nvs.layout = "old" =>
        /\ nvs.profile \in GpsLegacy /\ told = Meant("gps", nvs.profile)
        /\ ValidInterval(nvs.profile.interval)
  BY <1>1, OldRecordMeansTold DEF OldProfiles
<1>3. nvs.layout = "old" => GpsLegacySound(nvs.profile) /\ GpsUpgraded(nvs.profile) = told
  BY <1>2, GpsUpgradeKeepsMeaning DEF GpsLegacySound
<1> QED BY <1>3, MigratingPreserves DEF MigrateGps

-----------------------------------------------------------------------------
(* The forms, store by store.                                              *)

LEMMA ServersGiven ==
  ASSUME NEW on \in BOOLEAN, NEW raw \in {"", "default", "own"}
  PROVE  /\ Servers(on, raw) \in {"", "default", "own"}
         /\ on => Servers(on, raw) # ""
BY DEF Servers

LEMMA SetupIsValid ==
  ASSUME NEW f \in [route : {"setup"}, ssid : Networks \cup Exotic \cup {""},
                    admin : Passwords, ntp : Args, servers : {"", "own"}],
         f.ssid # "", NetworkSound(SetupCandidate(f))
  PROVE  /\ SetupCandidate(f) \in NetworkProfiles
         /\ Valid("network", SetupCandidate(f))
<1> DEFINE on == f.ntp = "absent" \/ On(f.ntp)
           c  == SetupCandidate(f)
<1>1. f.ssid \in Networks \cup Exotic \cup {""} /\ f.admin \in Passwords /\ f.servers \in {"", "own"}
  OBVIOUS
<1>2. on \in BOOLEAN
  OBVIOUS
<1>3. c = [ssid |-> f.ssid, admin |-> f.admin, servers |-> Servers(on, f.servers), ntp |-> on]
  BY DEF SetupCandidate
<1>4. /\ Servers(on, f.servers) \in {"", "default", "own"}
      /\ on => Servers(on, f.servers) # ""
  <2> HIDE DEF on
  <2> QED BY <1>1, <1>2, ServersGiven
<1> HIDE DEF on, c
<1>5. c \in NetworkProfiles
  BY <1>1, <1>2, <1>3, <1>4 DEF NetworkProfiles
<1>6. /\ c.ssid = f.ssid /\ c.admin = f.admin
      /\ c.servers = Servers(on, f.servers) /\ c.ntp = on
  BY <1>3
<1>7. f.ssid \in Networks \cup {""} /\ f.admin # ""
  <2>1. c.ssid \in Printable
    BY DEF NetworkSound, c
  <2> QED BY <1>1, <1>6, <2>1, ConfigStoresAssumption DEF Printable
<1>8. Valid("network", c)
  BY <1>4, <1>6, <1>7 DEF Valid
<1> QED BY <1>5, <1>8 DEF c

\* A valid profile with one thing changed.
LEMMA NetworkChanged ==
  ASSUME NEW p \in NetworkProfiles, Valid("network", p)
  PROVE  /\ \A ssid \in Networks \cup Exotic \cup {""} :
              LET c == [p EXCEPT !.ssid = ssid]
              IN  /\ c \in NetworkProfiles
                  /\ ssid # "" /\ p.admin # "" /\ NetworkSound(c) => Valid("network", c)
         /\ \A admin \in Passwords :
              LET c == [p EXCEPT !.admin = admin]
              IN  c \in NetworkProfiles /\ (p.ssid # "" => Valid("network", c))
         /\ \A on \in BOOLEAN, raw \in {"", "default", "own"} :
              LET c == [p EXCEPT !.servers = Servers(on, raw), !.ntp = on]
              IN  /\ c \in NetworkProfiles /\ Valid("network", c)
                  /\ c.ssid = p.ssid /\ c.admin = p.admin
<1>1. /\ p.ssid \in Networks \cup {""} /\ (p.ssid = "" <=> p.admin = "")
      /\ p.ntp => p.servers # ""
  BY DEF Valid
<1>2. ASSUME NEW ssid \in Networks \cup Exotic \cup {""}
      PROVE  LET c == [p EXCEPT !.ssid = ssid]
             IN  /\ c \in NetworkProfiles
                 /\ ssid # "" /\ p.admin # "" /\ NetworkSound(c) => Valid("network", c)
  <2> DEFINE c == [p EXCEPT !.ssid = ssid]
  <2>1. c \in NetworkProfiles /\ c.ssid = ssid /\ c.admin = p.admin
        /\ c.servers = p.servers /\ c.ntp = p.ntp
    BY DEF NetworkProfiles
  <2> HIDE DEF c
  <2>2. ASSUME ssid # "", p.admin # "", NetworkSound(c) PROVE Valid("network", c)
    BY <1>1, <2>1, <2>2 DEF Valid, NetworkSound, Printable
  <2> QED BY <2>1, <2>2 DEF c
<1>3. ASSUME NEW admin \in Passwords
      PROVE  LET c == [p EXCEPT !.admin = admin]
             IN  c \in NetworkProfiles /\ (p.ssid # "" => Valid("network", c))
  <2> DEFINE c == [p EXCEPT !.admin = admin]
  <2>1. c \in NetworkProfiles /\ c.ssid = p.ssid /\ c.admin = admin
        /\ c.servers = p.servers /\ c.ntp = p.ntp
    BY DEF NetworkProfiles
  <2>2. admin # ""
    BY ConfigStoresAssumption
  <2> HIDE DEF c
  <2>3. p.ssid # "" => Valid("network", c)
    BY <1>1, <2>1, <2>2 DEF Valid
  <2> QED BY <2>1, <2>3 DEF c
<1>4. ASSUME NEW on \in BOOLEAN, NEW raw \in {"", "default", "own"}
      PROVE  LET c == [p EXCEPT !.servers = Servers(on, raw), !.ntp = on]
             IN  /\ c \in NetworkProfiles /\ Valid("network", c)
                 /\ c.ssid = p.ssid /\ c.admin = p.admin
  <2> DEFINE c == [p EXCEPT !.servers = Servers(on, raw), !.ntp = on]
  <2>1. Servers(on, raw) \in {"", "default", "own"} /\ (on => Servers(on, raw) # "")
    BY ServersGiven
  <2>2. c \in NetworkProfiles /\ c.ssid = p.ssid /\ c.admin = p.admin
        /\ c.servers = Servers(on, raw) /\ c.ntp = on
    BY <2>1 DEF NetworkProfiles
  <2> HIDE DEF c
  <2>3. Valid("network", c)
    BY <1>1, <2>1, <2>2 DEF Valid
  <2> QED BY <2>2, <2>3 DEF c
<1> QED BY <1>2, <1>3, <1>4

LEMMA SaveNetworkPreserves == ASSUME StoresInv, SaveNetwork PROVE StoresInv'
<1>1. store = "network" /\ pc = "up"
  BY DEF SaveNetwork, Saving
<1>2. PICK f \in NetworkForms :
        /\ NetworkAccepts(f)
        /\ Saving(NetworkCandidate(f), NetworkSound(NetworkCandidate(f)), NetworkCandidate(f),
                  WantedNetwork(f), OverUnread(f))
  BY DEF SaveNetwork
<1>3. /\ told \in NetworkProfiles /\ Valid("network", told)
      /\ cfg \in NetworkProfiles /\ Valid("network", cfg)
  BY <1>1, NetworkIsValid
<1>4. /\ cfg.ssid = "" <=> cfg.admin = ""
      /\ told.ssid = "" <=> told.admin = ""
  BY <1>3 DEF Valid
<1>5. cfg.ssid # "" => cfg = told /\ ~blind
  BY <1>1 DEF StoresInv, RunningIsTold
<1> DEFINE c == NetworkCandidate(f)
           w == WantedNetwork(f)
           u == OverUnread(f)
<1>6. u \in BOOLEAN
  BY DEF OverUnread
<1>7. SUFFICES /\ NetworkSound(c) => /\ c \in NetworkProfiles /\ Valid("network", c)
                                     /\ w \in NetworkProfiles /\ Valid("network", w)
               /\ ~u => w = c
               /\ NetworkSound(c) /\ u => c.ssid = "" /\ w.ssid # ""
  <2> HIDE DEF c, w, u
  <2>1. Saving(c, NetworkSound(c), c, w, u)
    BY <1>2 DEF c, w, u
  <2> QED BY <1>1, <1>6, <1>7, <2>1, ProfilesByStore, SavingPreserves
<1>8. CASE f.route = "setup"
  <2>1. c = SetupCandidate(f) /\ w = SetupCandidate(f) /\ ~u
    BY <1>8 DEF NetworkCandidate, WantedNetwork, OverUnread
  <2>2. f \in [route : {"setup"}, ssid : Networks \cup Exotic \cup {""},
               admin : Passwords, ntp : Args, servers : {"", "own"}]
    BY <1>8 DEF NetworkForms
  <2>3. f.ssid # ""
    BY <1>2, <1>8 DEF NetworkAccepts
  <2> HIDE DEF c, w, u
  <2> QED BY <2>1, <2>2, <2>3, SetupIsValid
<1>9. CASE f.route = "network"
  <2>1. c = [cfg EXCEPT !.ssid = f.ssid] /\ w = [told EXCEPT !.ssid = f.ssid] /\ ~u
    BY <1>9 DEF NetworkCandidate, WantedNetwork, OverUnread
  <2>2. f.ssid \in Networks \cup Exotic \cup {""}
    BY <1>9 DEF NetworkForms
  <2>3. f.ssid # "" /\ cfg.admin # ""
    BY <1>2, <1>9 DEF NetworkAccepts
  <2>4. cfg = told
    BY <1>4, <1>5, <2>3
  <2> HIDE DEF c, w, u
  <2> QED BY <1>3, <2>1, <2>2, <2>3, <2>4, NetworkChanged
<1>10. CASE f.route = "password"
  <2>1. c = [cfg EXCEPT !.admin = f.admin] /\ w = [told EXCEPT !.admin = f.admin] /\ ~u
    BY <1>10 DEF NetworkCandidate, WantedNetwork, OverUnread
  <2>2. f.admin \in Passwords
    BY <1>10 DEF NetworkForms
  <2>3. cfg.admin # ""
    BY <1>2, <1>10 DEF NetworkAccepts
  <2>4. cfg = told /\ cfg.ssid # ""
    BY <1>4, <1>5, <2>3
  <2> HIDE DEF c, w, u
  <2> QED BY <1>3, <2>1, <2>2, <2>4, NetworkChanged
<1>11. CASE f.route = "ntp"
  <2> DEFINE on == On(f.ntp)
  <2>1. /\ c = [cfg EXCEPT !.servers = Servers(on, f.servers), !.ntp = on]
        /\ w = [told EXCEPT !.servers = Servers(on, f.servers), !.ntp = on]
    BY <1>11 DEF NetworkCandidate, NtpCandidate, WantedNetwork
  <2>2. u <=> cfg.ssid = "" /\ told.ssid # ""
    BY <1>11 DEF OverUnread
  <2>3. on \in BOOLEAN
    BY DEF On
  <2>4. f.servers \in {"", "default", "own"}
    BY <1>11 DEF NetworkForms
  <2> HIDE DEF c, w, u, on
  <2>5. /\ c \in NetworkProfiles /\ Valid("network", c)
        /\ w \in NetworkProfiles /\ Valid("network", w)
        /\ c.ssid = cfg.ssid /\ w.ssid = told.ssid
    BY ZenonT(30), <1>3, <2>1, <2>3, <2>4, NetworkChanged
  <2>6. ASSUME ~u PROVE w = c
    <3>1. CASE cfg.ssid # ""
      BY <1>5, <2>1, <3>1
    <3>2. CASE cfg.ssid = ""
      <4>1. told.ssid = "" /\ told.admin = "" /\ cfg.admin = ""
        BY <1>4, <2>2, <2>6, <3>2
      <4>2. /\ c = [ssid |-> cfg.ssid, admin |-> cfg.admin,
                    servers |-> Servers(on, f.servers), ntp |-> on]
            /\ w = [ssid |-> told.ssid, admin |-> told.admin,
                    servers |-> Servers(on, f.servers), ntp |-> on]
        BY <1>3, <2>1 DEF NetworkProfiles
      <4> QED BY <3>2, <4>1, <4>2
    <3> QED BY <3>1, <3>2
  <2> QED BY <2>2, <2>5, <2>6
<1>12. f.route \in {"setup", "network", "ntp", "password"}
  BY DEF NetworkForms
<1> QED BY <1>8, <1>9, <1>10, <1>11, <1>12

\* A blank secret recalls one that was asked for.
LEMMA RecalledIsWanted ==
  ASSUME StoresInv, store \in {"zte", "smtp"}, pc = "up",
         NEW secret \in Secrets \cup {""}, secret # "" \/ (loaded /\ cfg.secret # "")
  PROVE  /\ Recalled(secret) \in Secrets \cup {""} /\ Recalled(secret) # ""
         /\ secret = "" => told.secret = Recalled(secret)
         /\ secret # "" => secret = Recalled(secret)
<1>1. cfg \in Profiles(store)
  BY TypesApart DEF StoresInv
<1>2. cfg.secret \in Secrets \cup {""}
  <2>1. cfg \in ZteProfiles \/ cfg \in SmtpProfiles
    BY <1>1, ProfilesByStore
  <2> QED BY <2>1 DEF ZteProfiles, SmtpProfiles
<1>3. loaded => cfg = told
  BY DEF StoresInv, RunningIsTold
<1> QED BY <1>2, <1>3 DEF Recalled

LEMMA SaveZtePreserves == ASSUME StoresInv, SaveZte PROVE StoresInv'
<1>1. store = "zte" /\ pc = "up"
  BY DEF SaveZte, Saving
<1>2. PICK f \in ZteForms :
        /\ ZteAccepts(f)
        /\ Saving(ZteBuilt(ZteCandidate(f)), ZteSound(ZteBuilt(ZteCandidate(f))),
                  ZteBuilt(ZteCandidate(f)), WithSecret(ZteBuilt(ZteCandidate(f)), f), FALSE)
  BY DEF SaveZte
<1> DEFINE c == ZteCandidate(f)
<1>3. /\ f.secret \in Secrets \cup {""} /\ f.interval \in Intervals
      /\ ValidInterval(f.interval)
      /\ f.secret # "" \/ (loaded /\ cfg.secret # "")
  BY <1>2 DEF ZteForms, ZteAccepts, HasSecret
<1>4. /\ Recalled(f.secret) \in Secrets \cup {""} /\ Recalled(f.secret) # ""
      /\ f.secret = "" => told.secret = Recalled(f.secret)
      /\ f.secret # "" => f.secret = Recalled(f.secret)
  BY <1>1, <1>3, RecalledIsWanted
<1>5. /\ c \in ZteProfiles /\ c.secret = Recalled(f.secret) /\ c.interval = f.interval
      /\ [c EXCEPT !.interval = c.interval] = c /\ [c EXCEPT !.secret = c.secret] = c
  BY <1>3, <1>4 DEF ZteCandidate, ZteProfiles, On, AllIntervals
<1> HIDE DEF c
<1>6. ZteBuilt(c) = c
  BY <1>3, <1>5 DEF ZteBuilt
<1>7. WithSecret(c, f) = c
  BY <1>4, <1>5 DEF WithSecret
<1>8. Valid("zte", c)
  BY <1>3, <1>4, <1>5 DEF Valid
<1>9. Saving(c, ZteSound(c), c, c, FALSE)
  BY <1>2, <1>6, <1>7 DEF c
<1> QED BY <1>1, <1>5, <1>8, <1>9, ProfilesByStore, SavingPreserves

LEMMA SaveModemPreserves == ASSUME StoresInv, SaveModem PROVE StoresInv'
<1>1. store = "modem"
  BY DEF SaveModem
<1>2. PICK f \in ModemForms :
        /\ ValidInterval(f.interval)
        /\ Saving(ModemCandidate(f), ModemSound(ModemCandidate(f)), ModemCandidate(f),
                  ModemCandidate(f), FALSE)
  BY DEF SaveModem
<1> DEFINE c == ModemCandidate(f)
<1>3. c \in ModemProfiles /\ c.interval = f.interval
  BY DEF ModemForms, ModemCandidate, ModemProfiles, On, AllIntervals
<1> HIDE DEF c
<1>4. Valid("modem", c)
  BY <1>2, <1>3 DEF Valid
<1>5. Saving(c, ModemSound(c), c, c, FALSE)
  BY <1>2 DEF c
<1> QED BY <1>1, <1>3, <1>4, <1>5, ProfilesByStore, SavingPreserves

LEMMA SaveGpsPreserves == ASSUME StoresInv, SaveGps PROVE StoresInv'
<1>1. store = "gps"
  BY DEF SaveGps
<1>2. PICK f \in GpsForms :
        /\ ValidInterval(f.interval)
        /\ Saving(GpsBuilt(GpsCandidate(f)), GpsSound(GpsBuilt(GpsCandidate(f))),
                  GpsCandidate(f), GpsCandidate(f), FALSE)
  BY DEF SaveGps
<1> DEFINE c == GpsCandidate(f)
<1>3. /\ c \in GpsProfiles /\ c.interval = f.interval
      /\ [c EXCEPT !.interval = c.interval] = c
  BY DEF GpsForms, GpsCandidate, GpsProfiles, On, AllIntervals
<1> HIDE DEF c
<1>4. GpsBuilt(c) = c
  BY <1>2, <1>3 DEF GpsBuilt
<1>5. Valid("gps", c)
  BY <1>2, <1>3 DEF Valid
<1>6. Saving(c, GpsSound(c), c, c, FALSE)
  BY <1>2, <1>4 DEF c
<1> QED BY <1>1, <1>3, <1>5, <1>6, ProfilesByStore, SavingPreserves

LEMMA BlankIsNoPort ==
  ASSUME NEW i \in Nat
  PROVE  i # Blank
BY SMT DEF Blank

StoredPorts == Ports \cup {0, 465, 587}

LEMMA PortIsAPort ==
  ASSUME NEW raw \in Ports \cup {Blank}, raw = Blank \/ ValidPort(raw), NEW mode
  PROVE  Port(raw, mode) \in StoredPorts /\ Port(raw, mode) \in Nat /\ ValidPort(Port(raw, mode))
<1>1. ValidPort(465) /\ ValidPort(587)
  BY SMT DEF ValidPort
<1>2. (Port(raw, mode) = raw /\ raw # Blank) \/ Port(raw, mode) \in {465, 587}
  BY DEF Port
<1>3. Ports \subseteq Nat
  BY ConfigStoresAssumption
<1> QED BY <1>1, <1>2, <1>3 DEF StoredPorts

LEMMA SaveSmtpPreserves == ASSUME StoresInv, SaveSmtp PROVE StoresInv'
<1>1. store = "smtp" /\ pc = "up"
  BY DEF SaveSmtp, Saving
<1>2. PICK f \in SmtpForms :
        /\ SmtpAccepts(f)
        /\ Saving(SmtpCandidate(f), SmtpSound(SmtpCandidate(f)), SmtpCandidate(f),
                  WithSecret(SmtpCandidate(f), f), FALSE)
  BY DEF SaveSmtp
<1> DEFINE c == SmtpCandidate(f)
<1>3. /\ f.secret \in Secrets \cup {""} /\ f.port \in Ports \cup {Blank}
      /\ f.security \in {"starttls", "implicit"}
      /\ f.port = Blank \/ ValidPort(f.port)
      /\ f.secret # "" \/ (loaded /\ cfg.secret # "")
  BY <1>2 DEF SmtpForms, SmtpAccepts, HasSecret
<1>4. /\ Recalled(f.secret) \in Secrets \cup {""} /\ Recalled(f.secret) # ""
      /\ f.secret = "" => told.secret = Recalled(f.secret)
      /\ f.secret # "" => f.secret = Recalled(f.secret)
  BY <1>1, <1>3, RecalledIsWanted
<1>5. /\ Port(f.port, f.security) \in StoredPorts
      /\ Port(f.port, f.security) \in Nat /\ ValidPort(Port(f.port, f.security))
  BY <1>3, PortIsAPort
<1>6. /\ c \in SmtpProfiles /\ c.secret = Recalled(f.secret)
      /\ c.port = Port(f.port, f.security) /\ [c EXCEPT !.secret = c.secret] = c
  <2> DEFINE p == Port(f.port, f.security)
             r == Recalled(f.secret)
  <2>1. c = [secret |-> r, port |-> p, mode |-> f.security]
    BY DEF SmtpCandidate
  <2>2. r \in Secrets \cup {""} /\ p \in StoredPorts
        /\ f.security \in {"starttls", "implicit"}
    BY <1>3, <1>4, <1>5
  <2> HIDE DEF c, p, r
  <2>3. c \in SmtpProfiles
    BY ZenonT(30), <2>1, <2>2 DEF SmtpProfiles, StoredPorts
  <2>4. c.secret = r /\ c.port = p /\ [c EXCEPT !.secret = c.secret] = c
    BY <2>1
  <2> QED BY <2>3, <2>4 DEF p, r
<1> HIDE DEF c
<1>7. WithSecret(c, f) = c
  BY <1>4, <1>6 DEF WithSecret
<1>8. Valid("smtp", c)
  BY <1>4, <1>5, <1>6 DEF Valid
<1>9. Saving(c, SmtpSound(c), c, c, FALSE)
  BY <1>2, <1>7 DEF c
<1> QED BY <1>1, <1>6, <1>8, <1>9, ProfilesByStore, SavingPreserves

-----------------------------------------------------------------------------
(* The theorems.                                                           *)

LEMMA StepPreserves == ASSUME StoresInv, [StoresNext]_storesVars PROVE StoresInv'
<1>1. CASE UNCHANGED storesVars
  <2>1. StoresTypeOK'
    BY <1>1 DEF StoresInv, StoresTypeOK, storesVars
  <2>2. RecordIsTold'
    BY <1>1 DEF StoresInv, RecordIsTold, Intact, storesVars
  <2>3. RunningIsTold'
    BY <1>1 DEF StoresInv, RunningIsTold, Intact, storesVars
  <2> QED BY <2>1, <2>2, <2>3 DEF StoresInv
<1>2. CASE Boot
  BY <1>2, LoadNetworkPreserves, LoadZtePreserves, LoadModemPreserves, LoadGpsPreserves,
     LoadSmtpPreserves, MigrateNetworkPreserves, MigrateZtePreserves,
     MigrateModemPreserves, MigrateGpsPreserves DEF Boot
<1>3. CASE SubmitForm
  BY <1>3, SaveNetworkPreserves, SaveZtePreserves, SaveModemPreserves, SaveGpsPreserves,
     SaveSmtpPreserves DEF SubmitForm
<1>4. CASE Reset
  BY <1>4, ResetPreserves
<1> QED BY <1>1, <1>2, <1>3, <1>4 DEF StoresNext

\* In every behaviour of boots, upgrades, forms, failing writes and resets the record
\* in flash and the profile in use are what StoresInv says of them.
THEOREM StoresInvariant == StoresSpec => []StoresInv
<1>1. StoresInit => StoresInv
  BY InitEstablishes
<1>2. StoresInv /\ [StoresNext]_storesVars => StoresInv'
  BY StepPreserves
<1> QED BY <1>1, <1>2, PTL DEF StoresSpec

\* What the operator asked for is what runs (saveNetwork, SmtpService::save and the
\* migrations of ConfigStore), whatever was reset, upgraded or not written.
THEOREM OperatorsWord == StoresSpec => []OperatorsWordKept
<1>1. StoresInv => OperatorsWordKept
  BY DEF StoresInv, RunningIsTold, OperatorsWordKept, Forgettable
<1> QED BY <1>1, StoresInvariant, PTL

LEMMA NetworkPageRoundTrips ==
  ASSUME cfg \in NetworkProfiles, Valid("network", cfg)
  PROVE  NetworkAccepts(NtpPage(cfg)) /\ NetworkCandidate(NtpPage(cfg)) = cfg
<1> DEFINE f == NtpPage(cfg)
<1>1. /\ f.route = "ntp" /\ f.servers = cfg.servers
      /\ On(f.ntp) = cfg.ntp
  BY DEF NtpPage, On, NetworkProfiles
<1> HIDE DEF f
<1>2. (cfg.ssid = "" <=> cfg.admin = "") /\ (cfg.ntp => cfg.servers # "")
  BY DEF Valid
<1>3. Servers(cfg.ntp, cfg.servers) = cfg.servers
  BY <1>2 DEF Servers
<1>4. [cfg EXCEPT !.servers = cfg.servers, !.ntp = cfg.ntp] = cfg
  BY DEF NetworkProfiles
<1>5. NetworkCandidate(f) = cfg
  BY <1>1, <1>3, <1>4 DEF NetworkCandidate, NtpCandidate
<1>6. NetworkAccepts(f)
  BY <1>1, <1>2 DEF NetworkAccepts
<1> QED BY <1>5, <1>6 DEF f

LEMMA ZtePageRoundTrips ==
  ASSUME cfg \in ZteProfiles, Valid("zte", cfg), loaded
  PROVE  ZteAccepts(ZtePage(cfg)) /\ ZteCandidate(ZtePage(cfg)) = cfg
<1>1. cfg.secret # "" /\ ValidInterval(cfg.interval)
  BY DEF Valid
<1>2. ZteCandidate(ZtePage(cfg)) = cfg
  BY DEF ZtePage, ZteCandidate, On, Recalled, ZteProfiles
<1>3. ZtePage(cfg).interval = cfg.interval
  BY DEF ZtePage
<1> QED BY <1>1, <1>2, <1>3 DEF ZteAccepts, HasSecret

LEMMA ModemPageRoundTrips ==
  ASSUME cfg \in ModemProfiles, Valid("modem", cfg)
  PROVE  ValidInterval(ModemPage(cfg).interval) /\ ModemCandidate(ModemPage(cfg)) = cfg
<1>1. ModemCandidate(ModemPage(cfg)) = cfg
  BY DEF ModemPage, ModemCandidate, On, ModemProfiles
<1> QED BY <1>1 DEF Valid, ModemPage

LEMMA GpsPageRoundTrips ==
  ASSUME cfg \in GpsProfiles, Valid("gps", cfg)
  PROVE  ValidInterval(GpsPage(cfg).interval) /\ GpsCandidate(GpsPage(cfg)) = cfg
<1>1. GpsCandidate(GpsPage(cfg)) = cfg
  BY DEF GpsPage, GpsCandidate, On, GpsProfiles
<1> QED BY <1>1 DEF Valid, GpsPage

LEMMA SmtpPageRoundTrips ==
  ASSUME cfg \in SmtpProfiles, Valid("smtp", cfg), loaded
  PROVE  SmtpAccepts(SmtpPage(cfg)) /\ SmtpCandidate(SmtpPage(cfg)) = cfg
<1>1. cfg.secret # "" /\ cfg.port \in Nat /\ ValidPort(cfg.port)
  BY DEF Valid
<1>2. cfg.port # Blank
  BY <1>1, BlankIsNoPort
<1>3. /\ SmtpPage(cfg).port = cfg.port /\ SmtpPage(cfg).security = cfg.mode
      /\ SmtpPage(cfg).secret = ""
  BY DEF SmtpPage
<1>4. SmtpCandidate(SmtpPage(cfg)) = [secret |-> cfg.secret, port |-> cfg.port, mode |-> cfg.mode]
  BY <1>2, <1>3 DEF SmtpCandidate, Recalled, Port
<1>5. SmtpCandidate(SmtpPage(cfg)) = cfg
  BY <1>4 DEF SmtpProfiles
<1>6. cfg.mode # "none"
  BY DEF SmtpProfiles
<1> QED BY <1>1, <1>3, <1>5, <1>6 DEF SmtpAccepts, HasSecret

\* Every page, submitted as it was shown, is accepted and changes nothing
\* (renderXxxPage and the save handler behind it).
THEOREM PagesRoundTrip == StoresSpec => []PageRoundTrips
<1>1. StoresInv => PageRoundTrips
  <2> SUFFICES ASSUME StoresInv, loaded
               PROVE  Accepts(Page(cfg)) /\ Candidate(Page(cfg)) = cfg
    BY DEF PageRoundTrips
  <2>1. /\ store \in {"network", "zte", "modem", "gps", "smtp"}
        /\ cfg \in Profiles(store) /\ Valid(store, cfg)
    BY TypesApart DEF StoresInv, RunningIsTold
  <2>2. CASE store = "network"
    BY <2>1, <2>2, ProfilesByStore, NetworkPageRoundTrips DEF Page, Accepts, Candidate
  <2>3. CASE store = "zte"
    BY <2>1, <2>3, ProfilesByStore, ZtePageRoundTrips DEF Page, Accepts, Candidate
  <2>4. CASE store = "modem"
    BY <2>1, <2>4, ProfilesByStore, ModemPageRoundTrips DEF Page, Accepts, Candidate
  <2>5. CASE store = "gps"
    BY <2>1, <2>5, ProfilesByStore, GpsPageRoundTrips DEF Page, Accepts, Candidate
  <2>6. CASE store = "smtp"
    BY <2>1, <2>6, ProfilesByStore, SmtpPageRoundTrips DEF Page, Accepts, Candidate
  <2> QED BY <2>1, <2>2, <2>3, <2>4, <2>5, <2>6
<1> QED BY <1>1, StoresInvariant, PTL
-----------------------------------------------------------------------------
(* The NTP server's budget.                                                *)

\* Two times within the same turn and the same second of millis().
SameSlot(t, u) == t \div Turn = u \div Turn /\ WindowOf(t) = WindowOf(u)

\* The time answers given in the slot of t.
AnswersLike(t) == {i \in DOMAIN answers : ~answers[i].kiss /\ SameSlot(answers[i].at, t)}

Answers == [at : Nat, kiss : BOOLEAN]

\* A slot's answers stay within the limit, and those of the present one are counted.
BudgetInv ==
  /\ now \in Nat /\ window \in Nat /\ count \in Nat
  /\ answers \in Seq(Answers)
  /\ \A i \in DOMAIN answers : answers[i].at <= now
  /\ \A t \in Nat : Cardinality(AnswersLike(t)) <= Limit
  /\ Cardinality(AnswersLike(now)) <= IF WindowOf(now) = window THEN count ELSE 0

LEMMA SecondAndLimit ==
  /\ Second \in Nat \ {0} /\ Limit \in Nat \ {0}
  /\ Turn \in Nat \ {0} /\ Second <= Turn
BY NtpServerAssumption

-----------------------------------------------------------------------------
(* Division, and the seconds of millis().                                  *)

LEMMA DivRoundsDown ==
  ASSUME NEW d \in Nat \ {0}, NEW t \in Nat
  PROVE  /\ t \div d \in Nat
         /\ d * (t \div d) <= t /\ t < d * (t \div d) + d
<1>1. t \div d \in Nat
  OBVIOUS
<1>2. d * (t \div d) <= t
  OBVIOUS
<1>3. t < d * (t \div d) + d
  OBVIOUS
<1> QED BY <1>1, <1>2, <1>3

LEMMA MultiplesApart ==
  ASSUME NEW b \in Nat, NEW p \in Nat, NEW q \in Nat, q < p
  PROVE  b * q + b <= b * p
<1>1. b * (q + 1) <= b * p
  OBVIOUS
<1> QED BY <1>1

\* The quotient is the only multiple below.
LEMMA DivIsUnique ==
  ASSUME NEW d \in Nat \ {0}, NEW t \in Nat, NEW q \in Nat, d * q <= t, t < d * q + d
  PROVE  t \div d = q
<1> DEFINE p == t \div d
<1>1. p \in Nat /\ d * p <= t /\ t < d * p + d /\ d * p \in Nat /\ d * q \in Nat
  BY DivRoundsDown
<1> HIDE DEF p
<1>2. ~(p < q) /\ ~(q < p)
  BY <1>1, MultiplesApart
<1>3. p = q
  BY <1>1, <1>2
<1> QED BY <1>3 DEF p

LEMMA DivMonotone ==
  ASSUME NEW d \in Nat \ {0}, NEW t \in Nat, NEW u \in Nat, t <= u
  PROVE  t \div d <= u \div d
<1> DEFINE p == t \div d
           q == u \div d
<1>1. p \in Nat /\ q \in Nat /\ d * p <= t /\ u < d * q + d /\ d * p \in Nat /\ d * q \in Nat
  BY DivRoundsDown
<1> HIDE DEF p, q
<1>2. ~(q < p)
  BY <1>1, MultiplesApart
<1>3. p <= q
  BY <1>1, <1>2
<1> QED BY <1>3 DEF p, q

\* Two numbers less than d apart are in the same or in neighbouring multiples.
LEMMA DivOfNeighbours ==
  ASSUME NEW d \in Nat \ {0}, NEW t \in Nat, NEW u \in Nat, t <= u, u < t + d
  PROVE  u \div d = t \div d \/ u \div d = t \div d + 1
<1> DEFINE p == u \div d
           q == t \div d
<1>1. p \in Nat /\ q \in Nat /\ d * p <= u /\ t < d * q + d /\ d * p \in Nat /\ d * q \in Nat
  BY DivRoundsDown
<1>2. q <= p
  BY DivMonotone
<1> HIDE DEF p, q
<1>3. ~(q + 1 < p)
  <2>1. d * (q + 1) = d * q + d
    BY <1>1
  <2> QED BY <1>1, <2>1, MultiplesApart
<1>4. p = q \/ p = q + 1
  BY <1>1, <1>2, <1>3
<1> QED BY <1>4 DEF p, q

\* What millis() shows is what is left of the real time after whole turns.
LEMMA MillisOf ==
  ASSUME NEW t \in Nat
  PROVE  /\ t % Turn \in Nat
         /\ t % Turn = t - Turn * (t \div Turn)
         /\ WindowOf(t) \in Nat
<1>1. Turn \in Nat \ {0} /\ Second \in Nat \ {0}
  BY SecondAndLimit
<1>2. t % Turn \in Nat /\ t % Turn = t - Turn * (t \div Turn)
  BY <1>1
<1> QED BY <1>1, <1>2, DivRoundsDown DEF WindowOf

\* Within one turn millis() advances as real time does.
LEMMA MillisAdvance ==
  ASSUME NEW t \in Nat, NEW u \in Nat, t <= u, t \div Turn = u \div Turn
  PROVE  t % Turn <= u % Turn /\ (u % Turn) - (t % Turn) = u - t
<1>1. t % Turn = t - Turn * (t \div Turn) /\ u % Turn = u - Turn * (t \div Turn)
  BY MillisOf
<1>2. Turn * (t \div Turn) \in Nat
  BY SecondAndLimit, DivRoundsDown
<1> HIDE DEF WindowOf
<1> QED BY <1>1, <1>2

\* A slot has no gaps.
LEMMA SlotIsConvex ==
  ASSUME NEW t \in Nat, NEW u \in Nat, NEW v \in Nat, t <= u, u <= v, SameSlot(t, v)
  PROVE  SameSlot(t, u)
<1>1. t \div Turn = u \div Turn /\ u \div Turn = v \div Turn
  <2>1. t \div Turn <= u \div Turn /\ u \div Turn <= v \div Turn /\ t \div Turn = v \div Turn
    BY SecondAndLimit, DivMonotone DEF SameSlot
  <2>2. t \div Turn \in Nat /\ u \div Turn \in Nat
    BY SecondAndLimit, DivRoundsDown
  <2> QED BY <2>1, <2>2
<1>2. t % Turn <= u % Turn /\ u % Turn <= v % Turn
  BY <1>1, MillisAdvance
<1>3. t % Turn \in Nat /\ u % Turn \in Nat /\ v % Turn \in Nat
  BY MillisOf
<1>4. WindowOf(t) <= WindowOf(u) /\ WindowOf(u) <= WindowOf(v)
  BY <1>2, <1>3, SecondAndLimit, DivMonotone DEF WindowOf
<1>5. WindowOf(t) \in Nat /\ WindowOf(u) \in Nat
  BY MillisOf
<1> QED BY <1>1, <1>4, <1>5 DEF SameSlot

\* Less than a second within one turn meets at most the slots of its ends.
LEMMA SpanMeetsTwoSlots ==
  ASSUME NEW t \in Nat, NEW u \in Nat, NEW v \in Nat, t <= u, u <= v, v < t + Second,
         t \div Turn = v \div Turn
  PROVE  SameSlot(u, t) \/ SameSlot(u, v)
<1>1. t \div Turn = u \div Turn /\ u \div Turn = v \div Turn
  <2>1. t \div Turn <= u \div Turn /\ u \div Turn <= v \div Turn
    BY SecondAndLimit, DivMonotone
  <2>2. t \div Turn \in Nat /\ u \div Turn \in Nat
    BY SecondAndLimit, DivRoundsDown
  <2> QED BY <2>1, <2>2
<1>2. t % Turn \in Nat /\ u % Turn \in Nat /\ v % Turn \in Nat
  BY MillisOf
<1>3. /\ t % Turn <= u % Turn /\ u % Turn <= v % Turn
      /\ v % Turn < (t % Turn) + Second
  <2>1. (v % Turn) - (t % Turn) = v - t
    BY <1>1, MillisAdvance
  <2>2. t % Turn <= u % Turn /\ u % Turn <= v % Turn
    BY <1>1, MillisAdvance
  <2>3. Second \in Nat
    BY SecondAndLimit
  <2> QED BY <1>2, <2>1, <2>2, <2>3
<1>4. WindowOf(t) <= WindowOf(u) /\ WindowOf(u) <= WindowOf(v)
  BY <1>2, <1>3, SecondAndLimit, DivMonotone DEF WindowOf
<1>5. WindowOf(v) = WindowOf(t) \/ WindowOf(v) = WindowOf(t) + 1
  <2> DEFINE a == t % Turn
             c == v % Turn
  <2>1. a \in Nat /\ c \in Nat /\ a <= c /\ c < a + Second /\ Second \in Nat \ {0}
    BY <1>2, <1>3, SecondAndLimit
  <2> HIDE DEF a, c
  <2>2. c \div Second = a \div Second \/ c \div Second = a \div Second + 1
    BY <2>1, DivOfNeighbours
  <2> QED BY <2>2 DEF WindowOf, a, c
<1>6. WindowOf(t) \in Nat /\ WindowOf(u) \in Nat /\ WindowOf(v) \in Nat
  BY MillisOf
<1>7. WindowOf(u) = WindowOf(t) \/ WindowOf(u) = WindowOf(v)
  BY <1>4, <1>5, <1>6
<1> QED BY <1>1, <1>7 DEF SameSlot

\* A second that is not within one turn meets the slots of its beginning, of the end of
\* its first turn and of the beginning of the next.
LEMMA RolloverMeetsThreeSlots ==
  ASSUME NEW t \in Nat, NEW v \in Nat, v = t + Second - 1, t \div Turn # v \div Turn
  PROVE  \E r \in Nat \ {0} :
           \A u \in t .. v : SameSlot(u, t) \/ SameSlot(u, r - 1) \/ SameSlot(u, r)
<1> DEFINE q == v \div Turn
           r == Turn * q
<1>1. /\ Turn \in Nat \ {0} /\ Second \in Nat \ {0} /\ Second <= Turn
      /\ t <= v /\ v < t + Turn
  BY SecondAndLimit
<1>2. q \in Nat /\ r \in Nat /\ r <= v /\ v < r + Turn
  BY <1>1, DivRoundsDown
<1>3. t \div Turn < q
  <2>1. t \div Turn <= q /\ t \div Turn \in Nat
    BY <1>1, DivMonotone, DivRoundsDown
  <2> QED BY <1>2, <2>1
<1>4. t < r /\ r \in Nat \ {0} /\ r - 1 \in Nat
  <2>1. t < Turn * (t \div Turn) + Turn /\ t \div Turn \in Nat
    BY <1>1, DivRoundsDown
  <2>2. Turn * (t \div Turn) + Turn <= r
    BY <1>1, <1>2, <1>3, <2>1, MultiplesApart
  <2>3. Turn * (t \div Turn) \in Nat
    BY <1>1, <2>1
  <2>4. t < r
    BY <1>1, <1>2, <2>1, <2>2, <2>3
  <2> QED BY <1>2, <2>4
<1>5. t \div Turn = (r - 1) \div Turn
  <2>1. q - 1 \in Nat /\ Turn * (q - 1) = r - Turn
    BY <1>1, <1>2, <1>4
  <2>2. r - Turn <= t
    BY <1>1, <1>2
  <2> HIDE DEF q, r
  <2>3. t \div Turn = q - 1
    BY <1>1, <1>2, <1>4, <2>1, <2>2, DivIsUnique
  <2>4. (r - 1) \div Turn = q - 1
    <3> DEFINE e == r - 1
    <3>1. e \in Nat /\ Turn * (q - 1) <= e /\ e < Turn * (q - 1) + Turn
      BY <1>1, <1>2, <1>4, <2>1
    <3> HIDE DEF e
    <3>2. e \div Turn = q - 1
      BY <1>1, <2>1, <3>1, DivIsUnique
    <3> QED BY <3>2 DEF e
  <2> QED BY <2>3, <2>4
<1>6. ASSUME NEW u \in t .. v
      PROVE  SameSlot(u, t) \/ SameSlot(u, r - 1) \/ SameSlot(u, r)
  <2>1. u \in Nat /\ t <= u /\ u <= v
    BY <1>1
  <2>2. CASE u < r
    <3>1. u <= r - 1 /\ r - 1 < t + Second
      BY <1>1, <1>2, <2>1, <2>2
    <3> HIDE DEF q, r
    <3> QED BY <1>4, <1>5, <2>1, <3>1, SpanMeetsTwoSlots
  <2>3. CASE r <= u
    <3>1. u - r < Second /\ u - r \in Nat
      BY <1>1, <1>2, <1>4, <2>1, <2>3
    <3>2. u \div Turn = q /\ r \div Turn = q
      <4>1. r = Turn * q /\ u < r + Turn
        BY <1>1, <1>2, <2>1
      <4> HIDE DEF q, r
      <4> QED BY <1>1, <1>2, <2>1, <2>3, <4>1, DivIsUnique
    <3>3. u % Turn = u - r /\ r % Turn = 0
      <4>1. r = Turn * q
        OBVIOUS
      <4> HIDE DEF q, r
      <4>2. u % Turn = u - Turn * q /\ r % Turn = r - Turn * q
        BY <1>2, <2>1, <3>2, MillisOf
      <4> QED BY <1>2, <4>1, <4>2
    <3>4. (u - r) \div Second = 0 /\ 0 \div Second = 0
      <4> HIDE DEF q, r
      <4>1. Second * 0 = 0
        BY <1>1
      <4> QED BY <1>1, <3>1, <4>1, DivIsUnique
    <3>5. WindowOf(u) = 0 /\ WindowOf(r) = 0
      BY <3>3, <3>4 DEF WindowOf
    <3> QED BY <3>2, <3>5 DEF SameSlot
  <2> QED BY <1>2, <2>1, <2>2, <2>3
<1> HIDE DEF q, r
<1> QED BY <1>4, <1>6

-----------------------------------------------------------------------------
(* The count.                                                              *)

LEMMA AnswersTyped ==
  ASSUME BudgetInv, NEW i \in DOMAIN answers
  PROVE  answers[i].at \in Nat /\ answers[i].at <= now
<1>1. answers[i] \in Answers
  BY DEF BudgetInv
<1> QED BY <1>1 DEF Answers, BudgetInv

LEMMA AnswersFinite ==
  ASSUME BudgetInv, NEW t
  PROVE  IsFiniteSet(AnswersLike(t)) /\ Cardinality(AnswersLike(t)) \in Nat
<1>1. DOMAIN answers = 1 .. Len(answers) /\ Len(answers) \in Nat
  BY DEF BudgetInv
<1>2. IsFiniteSet(1 .. Len(answers))
  BY <1>1, FS_Interval
<1>3. AnswersLike(t) \subseteq 1 .. Len(answers)
  BY <1>1 DEF AnswersLike
<1> QED BY <1>2, <1>3, FS_Subset, FS_CardinalityType

LEMMA BudgetInit == NtpInit => BudgetInv
<1> SUFFICES ASSUME NtpInit PROVE BudgetInv
  OBVIOUS
<1>1. now = 0 /\ window = 0 /\ count = 0 /\ answers = <<>>
  BY DEF NtpInit
<1>2. \A t : AnswersLike(t) = {}
  BY <1>1 DEF AnswersLike
<1>3. \A t : Cardinality(AnswersLike(t)) = 0
  BY <1>2, FS_EmptySet
<1>4. answers \in Seq(Answers) /\ DOMAIN answers = {}
  BY <1>1
<1> QED BY <1>1, <1>3, <1>4, SecondAndLimit DEF BudgetInv

\* The counter is at least the answers given in the slot of this very moment.
LEMMA CountNowCounts ==
  ASSUME BudgetInv
  PROVE  CountNow \in Nat /\ Cardinality(AnswersLike(now)) + 1 <= CountNow
<1>1. Cardinality(AnswersLike(now)) \in Nat
  BY AnswersFinite
<1>2. CASE WindowOf(now) = window
  BY <1>1, <1>2 DEF BudgetInv, CountNow
<1>3. CASE WindowOf(now) # window
  BY <1>1, <1>3 DEF BudgetInv, CountNow
<1> QED BY <1>2, <1>3

LEMMA AnswerKeepsBudget == ASSUME BudgetInv, Answer PROVE BudgetInv'
<1> DEFINE a == [at |-> now, kiss |-> CountNow > Limit]
           n == Len(answers) + 1
           Later(t) == {i \in DOMAIN answers' : ~answers'[i].kiss /\ SameSlot(answers'[i].at, t)}
<1>1. now' = now /\ window' = WindowOf(now) /\ count' = CountNow /\ answers' = Append(answers, a)
  BY DEF Answer
<1>2. /\ now \in Nat /\ WindowOf(now) \in Nat /\ CountNow \in Nat /\ Limit \in Nat
      /\ Cardinality(AnswersLike(now)) + 1 <= CountNow
  BY CountNowCounts, SecondAndLimit, MillisOf DEF BudgetInv
<1>3. a \in Answers
  BY <1>2 DEF Answers
<1>4. a.at = now /\ (a.kiss <=> CountNow > Limit)
  OBVIOUS
<1> HIDE DEF a
<1>5. /\ answers \in Seq(Answers) /\ answers' \in Seq(Answers)
      /\ n \in Nat /\ n \notin DOMAIN answers
      /\ DOMAIN answers' = DOMAIN answers \cup {n}
      /\ answers'[n] = a /\ \A i \in DOMAIN answers : answers'[i] = answers[i]
  <2>1. answers \in Seq(Answers)
    BY DEF BudgetInv
  <2> QED BY <1>1, <1>3, <2>1
<1> HIDE DEF n
<1>6. ASSUME NEW t
      PROVE  Later(t) = IF SameSlot(now, t) /\ ~a.kiss THEN AnswersLike(t) \cup {n}
                                                       ELSE AnswersLike(t)
  BY <1>4, <1>5 DEF AnswersLike
<1>7. \A t : AnswersLike(t)' = Later(t)
  BY DEF AnswersLike, SameSlot, WindowOf
<1> HIDE DEF Later
<1>8. SameSlot(now, now)
  BY DEF SameSlot
<1>9. ASSUME NEW t \in Nat, SameSlot(now, t)
      PROVE  Cardinality(Later(t)) <= Limit /\ Cardinality(Later(t)) <= CountNow
  <2>1. IsFiniteSet(AnswersLike(t)) /\ Cardinality(AnswersLike(t)) \in Nat
    BY AnswersFinite
  <2>2. AnswersLike(t) = AnswersLike(now)
    BY <1>9 DEF AnswersLike, SameSlot
  <2>3. CASE a.kiss
    <3>1. Later(t) = AnswersLike(t)
      BY <1>6, <2>3
    <3>2. Cardinality(AnswersLike(t)) <= Limit
      BY DEF BudgetInv
    <3> QED BY <1>2, <2>1, <2>2, <3>1, <3>2
  <2>4. CASE ~a.kiss
    <3>1. Later(t) = AnswersLike(t) \cup {n} /\ n \notin AnswersLike(t)
      BY <1>5, <1>6, <1>9, <2>4 DEF AnswersLike
    <3>2. Cardinality(Later(t)) = Cardinality(AnswersLike(t)) + 1
      BY <2>1, <3>1, FS_AddElement
    <3>3. CountNow <= Limit
      BY <1>2, <1>4, <2>4
    <3> QED BY <1>2, <2>1, <2>2, <3>2, <3>3
  <2> QED BY <2>3, <2>4
<1>10. ASSUME NEW t \in Nat PROVE Cardinality(Later(t)) <= Limit
  <2>1. CASE SameSlot(now, t)
    BY <1>9, <2>1
  <2>2. CASE ~SameSlot(now, t)
    BY <1>6, <2>2 DEF BudgetInv
  <2> QED BY <2>1, <2>2
<1>11. \A i \in DOMAIN answers' : answers'[i].at <= now'
  BY <1>1, <1>2, <1>4, <1>5, AnswersTyped
<1>12. \A t \in Nat : Cardinality(AnswersLike(t)') <= Limit
  BY <1>10, <1>7
<1>13. Cardinality(AnswersLike(now)') <= IF WindowOf(now)' = window' THEN count' ELSE 0
  <2>1. AnswersLike(now)' = Later(now)
    BY <1>1 DEF AnswersLike, SameSlot, WindowOf, Later
  <2>2. WindowOf(now)' = window'
    BY <1>1 DEF WindowOf
  <2> QED BY <1>1, <1>2, <1>8, <1>9, <2>1, <2>2
<1> QED BY <1>1, <1>2, <1>5, <1>11, <1>12, <1>13 DEF BudgetInv

\* A tick stays in the slot or begins one in which nothing was answered.
LEMMA TickKeepsBudget == ASSUME BudgetInv, Tick PROVE BudgetInv'
<1>1. now' = now + 1 /\ UNCHANGED <<window, count, answers>>
  BY DEF Tick
<1>2. now \in Nat /\ now + 1 \in Nat
  BY DEF BudgetInv
<1>3. \A t : AnswersLike(t)' = AnswersLike(t)
  BY <1>1 DEF AnswersLike, SameSlot, WindowOf
<1>4. AnswersLike(now)' = AnswersLike(now + 1)
  BY <1>1 DEF AnswersLike, SameSlot, WindowOf
<1>5. Cardinality(AnswersLike(now + 1)) <= IF WindowOf(now + 1) = window THEN count ELSE 0
  <2>1. CASE SameSlot(now, now + 1)
    <3>1. AnswersLike(now + 1) = AnswersLike(now) /\ WindowOf(now + 1) = WindowOf(now)
      BY <2>1 DEF AnswersLike, SameSlot
    <3> QED BY <3>1 DEF BudgetInv
  <2>2. CASE ~SameSlot(now, now + 1)
    <3>1. ASSUME NEW i \in DOMAIN answers, SameSlot(answers[i].at, now + 1) PROVE FALSE
      <4>1. answers[i].at \in Nat /\ answers[i].at <= now /\ now <= now + 1
        BY <1>2, AnswersTyped
      <4>2. SameSlot(answers[i].at, now)
        BY <1>2, <3>1, <4>1, SlotIsConvex
      <4> QED BY <2>2, <3>1, <4>2 DEF SameSlot
    <3>2. AnswersLike(now + 1) = {}
      BY <3>1 DEF AnswersLike
    <3>3. Cardinality(AnswersLike(now + 1)) = 0
      BY <3>2, FS_EmptySet
    <3> QED BY <3>3 DEF BudgetInv
  <2> QED BY <2>1, <2>2
<1>6. Cardinality(AnswersLike(now)') <= IF WindowOf(now)' = window' THEN count' ELSE 0
  BY <1>1, <1>4, <1>5 DEF WindowOf
<1>7. \A t \in Nat : Cardinality(AnswersLike(t)') <= Limit
  BY <1>3 DEF BudgetInv
<1>8. \A i \in DOMAIN answers' : answers'[i].at <= now'
  <2>1. ASSUME NEW i \in DOMAIN answers PROVE answers[i].at <= now + 1
    <3>1. answers[i].at \in Nat /\ answers[i].at <= now
      BY AnswersTyped
    <3> QED BY <1>2, <3>1
  <2> QED BY <1>1, <2>1
<1> QED BY <1>1, <1>2, <1>6, <1>7, <1>8 DEF BudgetInv

LEMMA OthersKeepBudget ==
  ASSUME BudgetInv, UNCHANGED <<now, window, count, answers>>
  PROVE  BudgetInv'
BY DEF BudgetInv, AnswersLike, SameSlot, WindowOf

\* The counter of the budget, NtpServer::loop's rateCount_, never falls behind.
THEOREM BudgetInvariant == NtpSpec => []BudgetInv
<1>1. NtpInit => BudgetInv
  BY BudgetInit
<1>2. BudgetInv /\ [NtpNext]_ntpVars => BudgetInv'
  <2> SUFFICES ASSUME BudgetInv, [NtpNext]_ntpVars PROVE BudgetInv'
    OBVIOUS
  <2>1. CASE Answer
    BY <2>1, AnswerKeepsBudget
  <2>2. CASE Tick
    BY <2>2, TickKeepsBudget
  <2>3. CASE \/ UNCHANGED ntpVars
             \/ StopWhenDown \/ Bind \/ BindFails \/ Ignore
             \/ Arrive \/ LinkUp \/ LinkDown \/ Publish
    <3>1. UNCHANGED <<now, window, count, answers>>
      BY <2>3 DEF ntpVars, StopWhenDown, Bind, BindFails, Ignore, Arrive, LinkUp, LinkDown,
                  Publish
    <3> QED BY <3>1, OthersKeepBudget
  <2> QED BY <2>1, <2>2, <2>3 DEF NtpNext, Loop
<1> QED BY <1>1, <1>2, PTL DEF NtpSpec

LEMMA UnionIsSmall ==
  ASSUME NEW A, NEW B, IsFiniteSet(A), IsFiniteSet(B),
         NEW a \in Nat, NEW b \in Nat, Cardinality(A) <= a, Cardinality(B) <= b
  PROVE  IsFiniteSet(A \cup B) /\ Cardinality(A \cup B) <= a + b
<1>1. /\ IsFiniteSet(A \cup B)
      /\ Cardinality(A \cup B) = Cardinality(A) + Cardinality(B) - Cardinality(A \cap B)
  BY FS_Union
<1>2. /\ Cardinality(A) \in Nat /\ Cardinality(B) \in Nat
      /\ IsFiniteSet(A \cap B) /\ Cardinality(A \cap B) \in Nat
  BY FS_Subset, FS_CardinalityType
<1> QED BY <1>1, <1>2

\* No second of real time, wherever it begins, gets more than twice the budget in
\* answers that give the time, or three times where millis() starts anew within it.
THEOREM BudgetInAnySecondHolds == NtpSpec => []BudgetInAnySecond
<1>1. BudgetInv => BudgetInAnySecond
  <2> SUFFICES ASSUME BudgetInv, NEW t \in 0 .. now
               PROVE  Cardinality(Given(t, Second)) <=
                        IF t \div Turn = (t + Second - 1) \div Turn
                          THEN 2 * Limit ELSE 3 * Limit
    BY DEF BudgetInAnySecond
  <2> DEFINE v == t + Second - 1
  <2>1. t \in Nat /\ v \in Nat /\ t <= v /\ v < t + Second /\ Limit \in Nat
    BY SecondAndLimit DEF BudgetInv
  <2>2. \A u \in Nat : IsFiniteSet(AnswersLike(u)) /\ Cardinality(AnswersLike(u)) <= Limit
    BY AnswersFinite DEF BudgetInv
  <2>3. ASSUME NEW i \in Given(t, Second)
        PROVE  i \in DOMAIN answers /\ ~answers[i].kiss /\ answers[i].at \in t .. v
    BY <2>3 DEF Given
  <2> HIDE DEF v
  <2>4. CASE t \div Turn = v \div Turn
    <3> DEFINE S == AnswersLike(t) \cup AnswersLike(v)
    <3>1. Given(t, Second) \subseteq S
      <4>1. ASSUME NEW i \in Given(t, Second) PROVE i \in S
        <5>1. answers[i].at \in Nat /\ t <= answers[i].at /\ answers[i].at <= v
          BY <2>1, <2>3
        <5>2. SameSlot(answers[i].at, t) \/ SameSlot(answers[i].at, v)
          BY <2>1, <2>4, <5>1, SpanMeetsTwoSlots
        <5> QED BY <2>3, <5>2 DEF AnswersLike
      <4> QED BY <4>1
    <3>2. IsFiniteSet(S) /\ Cardinality(S) <= Limit + Limit
      BY <2>1, <2>2, UnionIsSmall
    <3> HIDE DEF S
    <3>3. Cardinality(Given(t, Second)) <= Limit + Limit
      <4>1. /\ Cardinality(Given(t, Second)) <= Cardinality(S)
            /\ Cardinality(Given(t, Second)) \in Nat /\ Cardinality(S) \in Nat
        BY <3>1, <3>2, FS_Subset, FS_CardinalityType
      <4> QED BY <2>1, <3>2, <4>1
    <3>4. Limit + Limit = 2 * Limit
      BY <2>1
    <3> QED BY <2>4, <3>3, <3>4 DEF v
  <2>5. CASE t \div Turn # v \div Turn
    <3>1. PICK r \in Nat \ {0} :
            \A u \in t .. v : SameSlot(u, t) \/ SameSlot(u, r - 1) \/ SameSlot(u, r)
      BY <2>1, <2>5, RolloverMeetsThreeSlots DEF v
    <3> DEFINE E == AnswersLike(t) \cup AnswersLike(r - 1)
               S == E \cup AnswersLike(r)
    <3>2. r - 1 \in Nat
      BY <3>1
    <3>3. Given(t, Second) \subseteq S
      <4>1. ASSUME NEW i \in Given(t, Second) PROVE i \in S
        <5>1. \/ SameSlot(answers[i].at, t) \/ SameSlot(answers[i].at, r - 1)
              \/ SameSlot(answers[i].at, r)
          BY <2>3, <3>1
        <5> QED BY <2>3, <5>1 DEF AnswersLike
      <4> QED BY <4>1
    <3>4. IsFiniteSet(E) /\ Cardinality(E) <= Limit + Limit /\ Limit + Limit \in Nat
      <4> DEFINE A == AnswersLike(t)
                 B == AnswersLike(r - 1)
      <4>1. /\ IsFiniteSet(A) /\ Cardinality(A) <= Limit
            /\ IsFiniteSet(B) /\ Cardinality(B) <= Limit
        BY <2>1, <2>2, <3>2
      <4> HIDE DEF A, B
      <4>2. IsFiniteSet(A \cup B) /\ Cardinality(A \cup B) <= Limit + Limit
        BY <2>1, <4>1, UnionIsSmall
      <4> QED BY <2>1, <4>2 DEF A, B
    <3> HIDE DEF E
    <3>5. IsFiniteSet(S) /\ Cardinality(S) <= Limit + Limit + Limit
      BY <2>1, <2>2, <3>1, <3>4, UnionIsSmall
    <3> HIDE DEF S
    <3>6. Cardinality(Given(t, Second)) <= Limit + Limit + Limit
      <4>1. /\ Cardinality(Given(t, Second)) <= Cardinality(S)
            /\ Cardinality(Given(t, Second)) \in Nat /\ Cardinality(S) \in Nat
        BY <3>3, <3>5, FS_Subset, FS_CardinalityType
      <4> QED BY <2>1, <3>5, <4>1
    <3>7. Limit + Limit + Limit = 3 * Limit
      BY <2>1
    <3> QED BY <2>5, <3>6, <3>7 DEF v
  <2> QED BY <2>4, <2>5
<1> QED BY <1>1, BudgetInvariant, PTL
=============================================================================
