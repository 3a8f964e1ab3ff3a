----------------------------- MODULE MCAppliance -----------------------------
(***************************************************************************)
(* The stored profiles, the NTP server and the line to the modem for TLC.  *)
(* They share no state while the device runs, so a behaviour looks at one  *)
(* of the three, its focus.                                                *)
(***************************************************************************)
EXTENDS ConfigStores, NtpServer, AtDialog

VARIABLE focus

mcVars == <<focus, storesVars, ntpVars, vars>>

MCInit ==
  /\ focus \in {"stores", "ntp", "line"}
  /\ StoresInit /\ NtpInit /\ Init
  /\ focus # "stores" => store = "smtp" /\ nvs.layout = "none"

StoresStep == focus = "stores" /\ StoresNext /\ UNCHANGED <<focus, ntpVars, vars>>
NtpStep    == focus = "ntp" /\ NtpNext /\ UNCHANGED <<focus, storesVars, vars>>
LoopStep   == focus = "ntp" /\ Loop /\ UNCHANGED <<focus, storesVars, vars>>
LineStep   == focus = "line" /\ Next /\ UNCHANGED <<focus, storesVars, ntpVars>>

MCNext == StoresStep \/ NtpStep \/ LineStep

\* The loop task keeps visiting the server.
MCSpec == MCInit /\ [][MCNext]_mcVars /\ WF_mcVars(LoopStep)
=============================================================================
