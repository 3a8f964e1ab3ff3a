---------------------------- MODULE ConfigStores ----------------------------
(***************************************************************************)
(* The life of a stored profile: the form that asks for it, the record     *)
(* that keeps it, the reset that ends it and the boot that reads it back,  *)
(* or first brings a record of an older firmware to the present layout.    *)
(* There are five stores (network and NTP, ZTE source, internal modem,     *)
(* GNSS, SMTP), each in a namespace of its own and run through by the      *)
(* same steps; a behaviour follows one of them.                            *)
(*                                                                         *)
(* A profile keeps the fields that decide something; secret stands for     *)
(* the host, the credentials and the addresses of a source, ssid for a     *)
(* network and its password.  A record is its layout, whether its checksum *)
(* agrees, and a profile.  The flash write is atomic.                      *)
(***************************************************************************)
EXTENDS Integers

CONSTANTS
  Stores,      \* the stores looked at
  Networks,    \* SSIDs of printable ASCII
  Exotic,      \* SSIDs of other bytes
  Passwords,   \* administrator passwords
  Secrets,     \* credentials
  Intervals,   \* poll intervals a form may name, the allowed ones and others
  Ports,       \* SMTP ports a form may name
  MinPoll, MaxPoll,  \* allowed poll intervals
  MaxSaves,    \* bound: forms accepted
  MaxResets,   \* bound: resets
  MaxFlashFaults  \* bound: times the flash partition does not answer

ASSUME ConfigStoresAssumption ==
  /\ Stores \subseteq {"network", "zte", "modem", "gps", "smtp"}
  /\ "" \notin Networks \cup Exotic \cup Passwords \cup Secrets
  /\ Networks \cap Exotic = {}
  /\ {MinPoll, MaxPoll, MaxSaves, MaxResets, MaxFlashFaults} \subseteq Nat
  /\ 0 < MinPoll /\ MinPoll <= MaxPoll
  /\ Intervals \subseteq Nat /\ Ports \subseteq Nat

VARIABLES
  store,   \* the store followed
  nvs,     \* its record in flash
  pc,      \* "load" and "migrate" while booting, then "up"
  cfg,     \* profile in use: config_ or stored_
  loaded,  \* loaded_
  missed,  \* the flash did not answer when this boot wanted the profile
  told,    \* history: the profile the operator asked for, through all firmwares
  blind,   \* history: fields were saved over a profile the boot could not read
  budget   \* saves, resets and faults left

storesVars == <<store, nvs, pc, cfg, loaded, missed, told, blind, budget>>

-----------------------------------------------------------------------------
(* Profiles.                                                               *)

ValidInterval(i) == i \in MinPoll .. MaxPoll

ValidPort(i) == 1 <= i /\ i <= 65535

AllIntervals == Intervals \cup {0, 15, 60}

NetworkProfiles == [ssid : Networks \cup Exotic \cup {""}, admin : Passwords \cup {""},
                    servers : {"", "default", "own"}, ntp : BOOLEAN]
ZteProfiles   == [module : BOOLEAN, forward : BOOLEAN, secret : Secrets \cup {""},
                  interval : AllIntervals]
ModemProfiles == [module : BOOLEAN, poll : BOOLEAN, sms : BOOLEAN, nitz : BOOLEAN,
                  interval : AllIntervals]
GpsProfiles   == [module : BOOLEAN, poll : BOOLEAN, sync : BOOLEAN, interval : AllIntervals]
SmtpProfiles  == [secret : Secrets \cup {""}, port : Ports \cup {0, 465, 587},
                  mode : {"starttls", "implicit"}]

Profiles(s) ==
  CASE s = "network" -> NetworkProfiles
    [] s = "zte"     -> ZteProfiles
    [] s = "modem"   -> ModemProfiles
    [] s = "gps"     -> GpsProfiles
    [] s = "smtp"    -> SmtpProfiles

\* What runs before a profile is loaded or when none can be.
NetworkUnset == [ssid |-> "", admin |-> "", servers |-> "default", ntp |-> TRUE]
ZteUnset     == [module |-> FALSE, forward |-> FALSE, secret |-> "", interval |-> 0]
ModemUnset   == [module |-> FALSE, poll |-> FALSE, sms |-> FALSE, nitz |-> TRUE, interval |-> 15]
GpsUnset     == [module |-> FALSE, poll |-> FALSE, sync |-> TRUE, interval |-> 60]
SmtpUnset    == [secret |-> "", port |-> 0, mode |-> "starttls"]

Unset(s) ==
  CASE s = "network" -> NetworkUnset
    [] s = "zte"     -> ZteUnset
    [] s = "modem"   -> ModemUnset
    [] s = "gps"     -> GpsUnset
    [] s = "smtp"    -> SmtpUnset

\* Profiles as the firmware before the present layout wrote them.
NetworkLegacy == [ssid : Networks, admin : Passwords]
ZteLegacy     == [on : BOOLEAN, secret : Secrets, interval : Intervals]
ModemLegacy   == [on : BOOLEAN, nitz : BOOLEAN, interval : Intervals]
GpsLegacy     == [on : BOOLEAN, sync : BOOLEAN, interval : Intervals]

\* A switch in a form is "1", "0" or not there at all; Blank is a number not given.
Args    == {"1", "0", "absent"}
On(arg) == arg = "1"
Blank   == -1

\* sanitizeNtpServers
Servers(on, raw) == IF on /\ raw = "" THEN "default" ELSE raw

-----------------------------------------------------------------------------
(* Plausible bugs, used only to show that the properties notice them.      *)

\* A blank password is an empty one.
RecalledBlank(secret) == secret

\* Saving the NTP settings starts from an empty profile.
NtpCandidateFresh(f) ==
  [NetworkUnset EXCEPT !.servers = Servers(On(f.ntp), f.servers), !.ntp = On(f.ntp)]

-----------------------------------------------------------------------------
(* The shared record predicates.                                           *)

Printable == Networks \cup {""}

NetworkSound(p) == p.ssid \in Printable
ZteSound(p)     == p.secret # "" /\ ValidInterval(p.interval)
ModemSound(p)   == ValidInterval(p.interval)
GpsSound(p)     == ValidInterval(p.interval)
SmtpSound(p)    == p.port # 0 /\ p.secret # ""

NetworkLegacySound(l) == l.ssid \in Printable
ZteLegacySound(l)     == l.secret # "" /\ ValidInterval(l.interval)
ModemLegacySound(l)   == ValidInterval(l.interval)
GpsLegacySound(l)     == ValidInterval(l.interval)

\* The records built from a profile: an interval out of range becomes the default.
ZteBuilt(c) == [c EXCEPT !.interval = IF ValidInterval(@) THEN @ ELSE 15]
GpsBuilt(c) == [c EXCEPT !.interval = IF ValidInterval(@) THEN @ ELSE 60]

\* The one switch of an old record becomes every switch it used to control.
NetworkUpgraded(l) == [ssid |-> l.ssid, admin |-> l.admin, servers |-> "default", ntp |-> TRUE]
ZteUpgraded(l)     == ZteBuilt([module |-> l.on, forward |-> l.on, secret |-> l.secret,
                                interval |-> l.interval])
ModemUpgraded(l)   == [module |-> l.on, poll |-> l.on, sms |-> l.on, nitz |-> l.nitz,
                       interval |-> l.interval]
GpsUpgraded(l)     == GpsBuilt([module |-> l.on, poll |-> l.on, sync |-> l.sync,
                                interval |-> l.interval])

-----------------------------------------------------------------------------
(* Forms.                                                                  *)

NetworkForms ==
       [route : {"setup"}, ssid : Networks \cup Exotic \cup {""}, admin : Passwords,
        ntp : Args, servers : {"", "own"}]
  \cup [route : {"network"}, ssid : Networks \cup Exotic \cup {""}]
  \cup [route : {"ntp"}, ntp : Args, servers : {"", "default", "own"}]
  \cup [route : {"password"}, admin : Passwords]
ZteForms   == [module : Args, forward : Args, secret : Secrets \cup {""}, interval : Intervals]
ModemForms == [module : Args, poll : Args, sms : Args, nitz : Args, interval : Intervals]
GpsForms   == [module : Args, poll : Args, sync : Args, interval : Intervals]
SmtpForms  == [security : {"starttls", "implicit", "none"}, secret : Secrets \cup {""},
               port : Ports \cup {Blank}]

SetupCandidate(f) ==
  LET on == f.ntp = "absent" \/ On(f.ntp)
  IN [ssid |-> f.ssid, admin |-> f.admin, servers |-> Servers(on, f.servers), ntp |-> on]

NtpCandidate(f) ==
  [cfg EXCEPT !.servers = Servers(On(f.ntp), f.servers), !.ntp = On(f.ntp)]

NetworkCandidate(f) ==
  CASE f.route = "setup"    -> SetupCandidate(f)
    [] f.route = "network"  -> [cfg EXCEPT !.ssid = f.ssid]
    [] f.route = "ntp"      -> NtpCandidate(f)
    [] f.route = "password" -> [cfg EXCEPT !.admin = f.admin]

\* Setup is open until there is a network; the other routes ask for the password.
NetworkAccepts(f) ==
  CASE f.route = "setup"    -> cfg.ssid = "" /\ f.ssid # ""
    [] f.route = "network"  -> cfg.admin # "" /\ f.ssid # ""
    [] f.route = "ntp"      -> cfg.ssid # "" => cfg.admin # ""
    [] f.route = "password" -> cfg.admin # ""

\* A password left blank means the stored one.
Recalled(secret) == IF secret = "" THEN cfg.secret ELSE secret
HasSecret(f)     == f.secret # "" \/ (loaded /\ cfg.secret # "")

ZteCandidate(f) ==
  [module   |-> On(f.module),
   forward  |-> On(IF f.forward = "absent" THEN f.module ELSE f.forward),
   secret   |-> Recalled(f.secret),
   interval |-> f.interval]

ModemCandidate(f) ==
  [module   |-> On(f.module),
   poll     |-> On(IF f.poll = "absent" THEN f.module ELSE f.poll),
   sms      |-> On(IF f.sms = "absent" THEN f.module ELSE f.sms),
   nitz     |-> f.nitz = "absent" \/ On(f.nitz),
   interval |-> f.interval]

GpsCandidate(f) ==
  [module   |-> On(f.module),
   poll     |-> On(IF f.poll = "absent" THEN f.module ELSE f.poll),
   sync     |-> f.sync = "absent" \/ On(f.sync),
   interval |-> f.interval]

\* parseSmtpPort
Port(raw, mode) == IF raw # Blank THEN raw ELSE IF mode = "implicit" THEN 465 ELSE 587

SmtpCandidate(f) ==
  [secret |-> Recalled(f.secret), port |-> Port(f.port, f.security), mode |-> f.security]

ZteAccepts(f)  == HasSecret(f) /\ ValidInterval(f.interval)
SmtpAccepts(f) == f.security # "none" /\ (f.port = Blank \/ ValidPort(f.port)) /\ HasSecret(f)

\* The page of a source, submitted as it is shown, without typing a password.
ZtePage(c) ==
  [module |-> IF c.module THEN "1" ELSE "0", forward |-> IF c.forward THEN "1" ELSE "0",
   secret |-> "", interval |-> c.interval]
SmtpPage(c)  == [security |-> c.mode, secret |-> "", port |-> c.port]
ModemPage(c) ==
  [module |-> IF c.module THEN "1" ELSE "0", poll |-> IF c.poll THEN "1" ELSE "0",
   sms |-> IF c.sms THEN "1" ELSE "0", nitz |-> IF c.nitz THEN "1" ELSE "0",
   interval |-> c.interval]
GpsPage(c)   ==
  [module |-> IF c.module THEN "1" ELSE "0", poll |-> IF c.poll THEN "1" ELSE "0",
   sync |-> IF c.sync THEN "1" ELSE "0", interval |-> c.interval]
NtpPage(c)   == [route |-> "ntp", ntp |-> IF c.ntp THEN "1" ELSE "0", servers |-> c.servers]

-----------------------------------------------------------------------------
(* Booting.                                                                *)

Intact == nvs.layout = "new" /\ nvs.agrees
Old    == nvs.layout = "old" /\ nvs.agrees

\* A network record is checked once more when it is read.
Connects(p) == p.ssid # "" /\ p.admin # ""

\* Servers that were cleared while NTP was on come back as the default ones.
Backfilled(p) == [p EXCEPT !.servers = Servers(p.ntp, @)]

Up(p, ok) == pc' = "up" /\ cfg' = p /\ loaded' = ok

Fault == budget.faults > 0 /\ budget' = [budget EXCEPT !.faults = @ - 1]

BootRest == <<store, told, blind>>

\* The flash does not answer, and the boot goes on without the profile.
Missed ==
  /\ Fault
  /\ Up(Unset(store), FALSE)
  /\ missed' = TRUE
  /\ UNCHANGED <<nvs, BootRest>>

\* load: a sound record is used if it is usable, one whose length is that of the
\* old layout is handed to the migration, and anything else is no profile.
Loading(s, sound, usable, profile, looksOld) ==
  /\ pc = "load" /\ store = s
  /\ \/ Missed
     \/ /\ \/ Intact /\ sound /\ usable /\ Up(profile, TRUE)
           \/ Intact /\ sound /\ ~usable /\ Up(Unset(s), FALSE)
           \/ ~(Intact /\ sound) /\ looksOld /\ pc' = "migrate" /\ UNCHANGED <<cfg, loaded>>
           \/ ~(Intact /\ sound) /\ ~looksOld /\ Up(Unset(s), FALSE)
        /\ UNCHANGED <<nvs, missed, budget, BootRest>>

\* The records of the ZTE source, the modem and the GNSS kept their length.
SameLength == nvs.layout \in {"old", "new"}

LoadNetwork ==
  Loading("network", NetworkSound(nvs.profile), Connects(nvs.profile),
          Backfilled(nvs.profile), nvs.layout = "old")
LoadZte   == Loading("zte", ZteSound(nvs.profile), TRUE, nvs.profile, SameLength)
LoadModem == Loading("modem", ModemSound(nvs.profile), TRUE, nvs.profile, SameLength)
LoadGps   == Loading("gps", GpsSound(nvs.profile), TRUE, nvs.profile, SameLength)
LoadSmtp  == Loading("smtp", SmtpSound(nvs.profile), TRUE, nvs.profile, FALSE)

Put(p) == [layout |-> "new", agrees |-> TRUE, profile |-> p]

\* migrate: the upgraded record replaces a sound old one, and load begins again.
\* The second read and the write may fail.
Migrating(s, sound, upgraded) ==
  /\ pc = "migrate" /\ store = s
  /\ \/ Missed
     \/ /\ Old /\ sound
        /\ nvs' = Put(upgraded)
        /\ pc' = "load"
        /\ UNCHANGED <<cfg, loaded, missed, budget, BootRest>>
     \/ /\ ~(Old /\ sound)
        /\ Up(Unset(s), FALSE)
        /\ UNCHANGED <<nvs, missed, budget, BootRest>>

MigrateNetwork ==
  Migrating("network", NetworkLegacySound(nvs.profile), NetworkUpgraded(nvs.profile))
MigrateZte   == Migrating("zte", ZteLegacySound(nvs.profile), ZteUpgraded(nvs.profile))
MigrateModem == Migrating("modem", ModemLegacySound(nvs.profile), ModemUpgraded(nvs.profile))
MigrateGps   == Migrating("gps", GpsLegacySound(nvs.profile), GpsUpgraded(nvs.profile))

Boot ==
  \/ LoadNetwork \/ LoadZte \/ LoadModem \/ LoadGps \/ LoadSmtp
  \/ MigrateNetwork \/ MigrateZte \/ MigrateModem \/ MigrateGps

-----------------------------------------------------------------------------
(* Saving.                                                                 *)

\* What the operator wants after a form that leaves the secret blank.
WithSecret(c, f) == [c EXCEPT !.secret = IF f.secret = "" THEN told.secret ELSE f.secret]

\* And after a form of the network's: what it says, and the rest as before.
WantedNetwork(f) ==
  CASE f.route = "setup"    -> SetupCandidate(f)
    [] f.route = "network"  -> [told EXCEPT !.ssid = f.ssid]
    [] f.route = "ntp"      -> [told EXCEPT !.servers = Servers(On(f.ntp), f.servers),
                                            !.ntp = On(f.ntp)]
    [] f.route = "password" -> [told EXCEPT !.admin = f.admin]

\* NTP settings alone, over a network the boot could not read.
OverUnread(f) == f.route = "ntp" /\ cfg.ssid = "" /\ told.ssid # ""

Keep(c)    == cfg' = c /\ loaded' = TRUE
KeepNot(c) == UNCHANGED <<cfg, loaded>>

Off == pc' = "load" /\ cfg' = Unset(store) /\ loaded' = FALSE /\ missed' = FALSE

\* save: a record that its own predicate refuses, or that the flash does not take,
\* changes nothing; one that is stored runs from then on, unless power fails
\* between the two.
Saving(record, sound, kept, wanted, unread) ==
  /\ pc = "up" /\ UNCHANGED store
  /\ \/ /\ sound /\ budget.saves > 0
        /\ budget' = [budget EXCEPT !.saves = @ - 1]
        /\ nvs' = Put(record)
        /\ told' = wanted
        /\ blind' = unread
        /\ \/ Keep(kept) /\ missed' = unread /\ UNCHANGED pc
           \/ Off
     \/ /\ \/ ~sound /\ UNCHANGED budget
           \/ sound /\ Fault
        /\ KeepNot(kept)
        /\ UNCHANGED <<nvs, pc, missed, told, blind>>

SaveNetwork ==
  /\ store = "network"
  /\ \E f \in NetworkForms :
       /\ NetworkAccepts(f)
       /\ LET c == NetworkCandidate(f)
          IN Saving(c, NetworkSound(c), c, WantedNetwork(f), OverUnread(f))

SaveZte ==
  /\ store = "zte"
  /\ \E f \in ZteForms :
       /\ ZteAccepts(f)
       /\ LET r == ZteBuilt(ZteCandidate(f))
          IN Saving(r, ZteSound(r), r, WithSecret(r, f), FALSE)

SaveModem ==
  /\ store = "modem"
  /\ \E f \in ModemForms :
       /\ ValidInterval(f.interval)
       /\ LET c == ModemCandidate(f)
          IN Saving(c, ModemSound(c), c, c, FALSE)

SaveGps ==
  /\ store = "gps"
  /\ \E f \in GpsForms :
       /\ ValidInterval(f.interval)
       /\ LET c == GpsCandidate(f)
          IN Saving(GpsBuilt(c), GpsSound(GpsBuilt(c)), c, c, FALSE)

SaveSmtp ==
  /\ store = "smtp"
  /\ \E f \in SmtpForms :
       /\ SmtpAccepts(f)
       /\ LET c == SmtpCandidate(f)
          IN Saving(c, SmtpSound(c), c, WithSecret(c, f), FALSE)

SubmitForm == SaveNetwork \/ SaveZte \/ SaveModem \/ SaveGps \/ SaveSmtp

Reset ==
  /\ budget.resets > 0
  /\ budget' = [budget EXCEPT !.resets = @ - 1]
  /\ Off
  /\ UNCHANGED <<nvs, BootRest>>

-----------------------------------------------------------------------------
(* Specification.                                                          *)

OldProfiles(s) ==
  CASE s = "network" -> NetworkLegacy
    [] s = "zte"     -> ZteLegacy
    [] s = "modem"   -> ModemLegacy
    [] s = "gps"     -> GpsLegacy
    [] OTHER         -> {}

\* What an old profile means: its one switch stands for every switch there is now.
Meant(s, l) ==
  [k \in DOMAIN Unset(s) |->
     IF k \in DOMAIN l THEN l[k] ELSE IF "on" \in DOMAIN l THEN l.on ELSE Unset(s)[k]]

\* Nothing stored, or something no reader understands: a damaged record, or the
\* layout of a firmware two versions back.
Unreadable(s) ==
  [layout : {"none", "older"}, agrees : {TRUE}, profile : {Unset(s)}]
  \cup [layout : {"new"}, agrees : {FALSE}, profile : {Unset(s)}]

\* The first boot of this firmware on a device that ran an older one, or none.
StoresInit ==
  /\ store \in Stores
  /\ \/ nvs \in Unreadable(store) /\ told = Unset(store)
     \/ \E l \in OldProfiles(store) :
          /\ store # "network" => ValidInterval(l.interval)
          /\ nvs = [layout |-> "old", agrees |-> TRUE, profile |-> l]
          /\ told = Meant(store, l)
  /\ pc = "load"
  /\ cfg = Unset(store)
  /\ loaded = FALSE /\ missed = FALSE /\ blind = FALSE
  /\ budget = [saves |-> MaxSaves, resets |-> MaxResets, faults |-> MaxFlashFaults]

StoresNext == Boot \/ SubmitForm \/ Reset

StoresSpec == StoresInit /\ [][StoresNext]_storesVars

-----------------------------------------------------------------------------
(* Properties.                                                             *)

StoresTypeOK ==
  /\ store \in Stores
  /\ nvs.layout \in {"none", "older", "old", "new"} /\ nvs.agrees \in BOOLEAN
  /\ nvs.layout = "old" => nvs.profile \in OldProfiles(store)
  /\ nvs.layout = "new" => nvs.profile \in Profiles(store)
  /\ pc \in {"load", "migrate", "up"}
  /\ {cfg, told} \subseteq Profiles(store)
  /\ {loaded, missed, blind} \subseteq BOOLEAN
  /\ budget \in [saves : 0 .. MaxSaves, resets : 0 .. MaxResets, faults : 0 .. MaxFlashFaults]

\* A profile without a network is forgotten at the next boot.
Forgettable(p) == store = "network" /\ p.ssid = ""

\* What the operator asked for is what runs, field by field, over every reset,
\* upgrade, failed save and password left blank.  Two things excuse the device:
\* flash that did not answer while this boot wanted the profile, and NTP settings
\* saved while such a boot ran, which take the unread network with them.
OperatorsWordKept ==
  pc = "up" /\ ~missed /\ ~blind /\ ~Forgettable(told) => cfg = told

Candidate(f) ==
  CASE store = "network" -> NetworkCandidate(f)
    [] store = "zte"     -> ZteCandidate(f)
    [] store = "modem"   -> ModemCandidate(f)
    [] store = "gps"     -> GpsCandidate(f)
    [] store = "smtp"    -> SmtpCandidate(f)

Accepts(f) ==
  CASE store = "network" -> NetworkAccepts(f)
    [] store = "zte"     -> ZteAccepts(f)
    [] store = "smtp"    -> SmtpAccepts(f)
    [] OTHER             -> ValidInterval(f.interval)

Page(c) ==
  CASE store = "network" -> NtpPage(c)
    [] store = "zte"     -> ZtePage(c)
    [] store = "modem"   -> ModemPage(c)
    [] store = "gps"     -> GpsPage(c)
    [] store = "smtp"    -> SmtpPage(c)

\* Submitting a settings page as it was shown is accepted and changes nothing:
\* masked secrets survive, and no default creeps into a field that had a value.
PageRoundTrips ==
  pc = "up" /\ loaded => Accepts(Page(cfg)) /\ Candidate(Page(cfg)) = cfg

=============================================================================
