--------------------------- MODULE ApplyService ---------------------------
(***************************************************************************)
(* What the agent on the router promises its two users, the controller and *)
(* the physical button: profiles are pushed as JSON files, an apply that   *)
(* is invoked for an installed profile either completes, and then that     *)
(* profile is the active one, or is given up.                              *)
(*                                                                         *)
(* SlateCtrl implements it; ProfileActivation is built on it.              *)
(***************************************************************************)
EXTENDS Naturals

CONSTANTS
    Profiles,  \* names of profiles
    Contents,  \* contents a profile file may have
    Appliers,  \* invocations of slate-ctrl that may overlap
    None       \* no file, no profile

ASSUME ApplyAssumption == None \notin Profiles /\ None \notin Contents

VARIABLES
    json,      \* /etc/slate-controller/profiles/<name>.json
    active,    \* /etc/slate-controller/state/active
    applying   \* the profile an invocation is applying

deviceVars == <<json, active, applying>>

DeviceInit ==
    /\ json = [p \in Profiles |-> None]
    /\ active = None
    /\ applying = [x \in Appliers |-> None]

\* put_bytes: the file is replaced by one mv.
Push(p, content) ==
    /\ json' = [json EXCEPT ![p] = content]
    /\ UNCHANGED <<active, applying>>

\* slate-ctrl apply: without the file it ends at once.
Invoke(x, p) ==
    /\ applying[x] = None
    /\ json[p] # None
    /\ applying' = [applying EXCEPT ![x] = p]
    /\ UNCHANGED <<json, active>>

\* The active file is written even when handlers have failed.
Complete(x) ==
    /\ applying[x] # None
    /\ active' = applying[x]
    /\ applying' = [applying EXCEPT ![x] = None]
    /\ UNCHANGED json

\* The lock could not be had in time.
GiveUp(x) ==
    /\ applying[x] # None
    /\ applying' = [applying EXCEPT ![x] = None]
    /\ UNCHANGED <<json, active>>

\* Power cycle, or the reboot an apply has scheduled.
Reboot ==
    /\ applying' = [x \in Appliers |-> None]
    /\ UNCHANGED <<json, active>>

\* Factory reset: the agent is gone, files and all, until it is deployed again.
Wipe ==
    /\ json' = [p \in Profiles |-> None]
    /\ active' = None
    /\ applying' = [x \in Appliers |-> None]

DeviceNext ==
    \/ \E p \in Profiles, content \in Contents : Push(p, content)
    \/ \E x \in Appliers :
          \/ \E p \in Profiles : Invoke(x, p)
          \/ Complete(x)
          \/ GiveUp(x)
    \/ Reboot
    \/ Wipe

DeviceSpec == DeviceInit /\ [][DeviceNext]_deviceVars
=============================================================================
