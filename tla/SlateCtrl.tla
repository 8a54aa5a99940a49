----------------------------- MODULE SlateCtrl -----------------------------
(***************************************************************************)
(* The agent on the router: slate_agent/scripts/slate-ctrl and the cron    *)
(* job wifi-drift-watchdog.sh beside it.                                   *)
(*                                                                         *)
(* An apply opens the lock file, waits for the flock on the file it has    *)
(* opened, runs the handlers in order and writes the active file.  The     *)
(* lock belongs to the open file, not to its name: the watchdog deletes a  *)
(* name that is older than ten minutes, and the next apply then locks a    *)
(* new file.  apply-only runs one handler of the active profile without    *)
(* the lock.                                                               *)
(*                                                                         *)
(* Handlers are the steps 1..Handlers; what one configures is the profile  *)
(* its subsystem was last configured for.                                  *)
(***************************************************************************)
EXTENDS Naturals

CONSTANTS
    Profiles,  \* names of profiles
    Contents,  \* contents a profile file may have
    Appliers,  \* invocations of slate-ctrl apply that may overlap
    Handlers,  \* number of handlers
    Inodes,    \* identities of lock files, reused once nobody holds them open
    None

ASSUME SlateCtrlAssumption ==
    /\ None \notin Profiles
    /\ None \notin Contents
    /\ None \notin Inodes
    /\ Handlers \in Nat \ {0}

VARIABLES
    json,      \* PROFILES_DIR/<name>.json
    active,    \* STATE_DIR/active
    proc,      \* where an apply is
    wanted,    \* its profile
    fd,        \* the lock file it has open
    next,      \* the handler it runs next
    lockFile,  \* the file LOCK_FILE names
    config,    \* the profile each subsystem was last configured for
    only,      \* the handler apply-only runs, 0 when none
    onlyName,  \* the profile it runs it for
    loose      \* history: subsystems the lock does not answer for

applies == <<proc, wanted, fd, next>>
aside == <<only, onlyName>>
vars == <<json, active, applies, lockFile, config, aside, loose>>

Subsystems == 1..Handlers
Running == {x \in Appliers : proc[x] = "running"}
OpenFiles == {fd[x] : x \in Appliers}

\* What an apply has configured, or may have begun to.
Half(x) == {s \in Subsystems : s <= next[x]}

(***************************************************************************)
(* slate-ctrl apply                                                        *)
(***************************************************************************)

Install(p, content) ==
    /\ json' = [json EXCEPT ![p] = content]
    /\ UNCHANGED <<active, applies, lockFile, config, aside, loose>>

\* Faulty variant: nobody looks whether the profile is there.
BeginUnchecked(x, p) ==
    /\ proc[x] = "none"
    /\ \/ lockFile # None /\ UNCHANGED lockFile
       \/ lockFile = None /\ lockFile' \in Inodes \ OpenFiles
    /\ proc' = [proc EXCEPT ![x] = "waiting"]
    /\ wanted' = [wanted EXCEPT ![x] = p]
    /\ fd' = [fd EXCEPT ![x] = lockFile']
    /\ UNCHANGED <<json, active, next, config, aside, loose>>

\* exec 9>: open the lock file, or make it.
Begin(x, p) ==
    /\ proc[x] = "none"
    /\ json[p] # None
    /\ \/ lockFile # None /\ UNCHANGED lockFile
       \/ lockFile = None /\ lockFile' \in Inodes \ OpenFiles
    /\ proc' = [proc EXCEPT ![x] = "waiting"]
    /\ wanted' = [wanted EXCEPT ![x] = p]
    /\ fd' = [fd EXCEPT ![x] = lockFile']
    /\ UNCHANGED <<json, active, next, config, aside, loose>>

\* Faulty variant: the lock is not waited for.
LockIgnored(x) ==
    /\ proc[x] = "waiting"
    /\ proc' = [proc EXCEPT ![x] = "running"]
    /\ next' = [next EXCEPT ![x] = 1]
    /\ UNCHANGED <<json, active, wanted, fd, lockFile, config, aside, loose>>

\* flock -n -x 9
Lock(x) ==
    /\ proc[x] = "waiting"
    /\ \A y \in Running : fd[y] # fd[x]
    /\ proc' = [proc EXCEPT ![x] = "running"]
    /\ next' = [next EXCEPT ![x] = 1]
    /\ UNCHANGED <<json, active, wanted, fd, lockFile, config, aside, loose>>

\* The process ends and closes the lock file, which keeps its name.  (A background
\* child that has inherited it keeps the lock some seconds longer.)
Exit(x) ==
    /\ proc' = [proc EXCEPT ![x] = "none"]
    /\ wanted' = [wanted EXCEPT ![x] = None]
    /\ fd' = [fd EXCEPT ![x] = None]
    /\ next' = [next EXCEPT ![x] = 1]

\* Faulty variant: the tries are not counted.
WaitAgain(x) ==
    /\ proc[x] = "waiting"
    /\ \E y \in Running : fd[y] = fd[x]
    /\ UNCHANGED vars

\* 60 tries in vain.
LockTimeout(x) ==
    /\ proc[x] = "waiting"
    /\ \E y \in Running : fd[y] = fd[x]
    /\ Exit(x)
    /\ UNCHANGED <<json, active, lockFile, config, aside, loose>>

\* Faulty variant: one handler too many.
RunsPastEnd(x, ok) ==
    /\ proc[x] = "running"
    /\ next[x] <= Handlers + 1
    /\ next' = [next EXCEPT ![x] = @ + 1]
    /\ config' = IF ok THEN [config EXCEPT ![next[x]] = wanted[x]] ELSE config
    /\ UNCHANGED <<json, active, proc, wanted, fd, lockFile, aside, loose>>

\* A handler configures its subsystem; it fails, or the profile has no block for
\* it, and the subsystem stays as it was.  The lock answers for the result unless an
\* apply on another lock file runs beside it.
RunHandler(x, ok) ==
    /\ proc[x] = "running"
    /\ next[x] <= Handlers
    /\ next' = [next EXCEPT ![x] = @ + 1]
    /\ config' = IF ok THEN [config EXCEPT ![next[x]] = wanted[x]] ELSE config
    /\ loose' = IF ok /\ \A y \in Running : fd[y] = fd[x]
                THEN loose \ {next[x]}
                ELSE loose \cup {next[x]}
    /\ UNCHANGED <<json, active, proc, wanted, fd, lockFile, aside>>

\* "Persist active state even on partial failure".
Finish(x) ==
    /\ proc[x] = "running"
    /\ next[x] > Handlers
    /\ active' = wanted[x]
    /\ Exit(x)
    /\ UNCHANGED <<json, lockFile, config, aside, loose>>

(***************************************************************************)
(* slate-ctrl apply-only, the watchdog, power                              *)
(***************************************************************************)

\* It reads the active file and the profile, and takes no lock.
OnlyBegin(s) ==
    /\ only = 0
    /\ active # None
    /\ json[active] # None
    /\ only' = s
    /\ onlyName' = active
    /\ UNCHANGED <<json, active, applies, lockFile, config, loose>>

\* Beside an apply, or after one that changed the active profile, it may undo what
\* the apply has configured.  (With ok false it has failed, or died.)
OnlyEnd(ok) ==
    /\ only # 0
    /\ config' = IF ok THEN [config EXCEPT ![only] = onlyName] ELSE config
    /\ loose' = IF ok /\ Running = {} /\ onlyName = active
                THEN loose \ {only}
                ELSE loose \cup {only}
    /\ only' = 0
    /\ onlyName' = None
    /\ UNCHANGED <<json, active, applies, lockFile>>

\* wifi-drift-watchdog.sh: a lock file older than ten minutes is removed.  Every
\* apply that opened it does so within its first moments, so one that still runs
\* has been hanging; the others have ended.
Reclaim ==
    /\ lockFile # None
    /\ lockFile' = None
    /\ UNCHANGED <<json, active, applies, config, aside, loose>>

\* The shell is killed in the middle of an apply.
Dies(x) ==
    /\ proc[x] # "none"
    /\ loose' = IF x \in Running THEN loose \cup Half(x) ELSE loose
    /\ Exit(x)
    /\ UNCHANGED <<json, active, lockFile, config, aside>>

\* Power is lost or a scheduled reboot happens: an apply that was running, or an
\* apply-only, leaves the subsystems it has reached half way.
PowerCycle ==
    /\ proc' = [x \in Appliers |-> "none"]
    /\ wanted' = [x \in Appliers |-> None]
    /\ fd' = [x \in Appliers |-> None]
    /\ next' = [x \in Appliers |-> 1]
    /\ only' = 0
    /\ onlyName' = None
    /\ loose' = loose \cup (UNION {Half(x) : x \in Running}) \cup ({only} \ {0})
    /\ UNCHANGED <<json, active, lockFile, config>>

\* Everything under /overlay is gone, and the agent is deployed again.
FactoryReset ==
    /\ json' = [p \in Profiles |-> None]
    /\ active' = None
    /\ proc' = [x \in Appliers |-> "none"]
    /\ wanted' = [x \in Appliers |-> None]
    /\ fd' = [x \in Appliers |-> None]
    /\ next' = [x \in Appliers |-> 1]
    /\ lockFile' = None
    /\ config' = [s \in Subsystems |-> None]
    /\ only' = 0
    /\ onlyName' = None
    /\ loose' = {}

(***************************************************************************)
(* Specification                                                           *)
(***************************************************************************)
Init ==
    /\ json = [p \in Profiles |-> None]
    /\ active = None
    /\ proc = [x \in Appliers |-> "none"]
    /\ wanted = [x \in Appliers |-> None]
    /\ fd = [x \in Appliers |-> None]
    /\ next = [x \in Appliers |-> 1]
    /\ lockFile = None
    /\ config = [s \in Subsystems |-> None]
    /\ only = 0
    /\ onlyName = None
    /\ loose = {}

Work(x) ==
    \/ Lock(x)
    \/ LockTimeout(x)
    \/ \E ok \in BOOLEAN : RunHandler(x, ok)
    \/ Finish(x)

Next ==
    \/ \E p \in Profiles, content \in Contents : Install(p, content)
    \/ \E x \in Appliers : Work(x) \/ \E p \in Profiles : Begin(x, p)
    \/ \E s \in Subsystems : OnlyBegin(s)
    \/ \E ok \in BOOLEAN : OnlyEnd(ok)
    \/ Reclaim
    \/ \E x \in Appliers : Dies(x)
    \/ PowerCycle
    \/ FactoryReset

Spec == Init /\ [][Next]_vars

\* Handlers end and the retry loop counts down.
FairSpec == Spec /\ \A x \in Appliers : WF_vars(Work(x))

(***************************************************************************)
(* Properties                                                              *)
(***************************************************************************)
TypeOK ==
    /\ json \in [Profiles -> Contents \cup {None}]
    /\ active \in Profiles \cup {None}
    /\ proc \in [Appliers -> {"none", "waiting", "running"}]
    /\ wanted \in [Appliers -> Profiles \cup {None}]
    /\ fd \in [Appliers -> Inodes \cup {None}]
    /\ next \in [Appliers -> 1..Handlers + 1]
    /\ lockFile \in Inodes \cup {None}
    /\ config \in [Subsystems -> Profiles \cup {None}]
    /\ only \in 0..Handlers
    /\ onlyName \in Profiles \cup {None}
    /\ loose \subseteq Subsystems

\* A subsystem that no running apply has reached is configured for the profile the
\* active file names, and between applies that is every subsystem, however the applies of
\* the controller and of the button overlapped (slate-ctrl:118-130) and wherever one died.
\* Left out (loose), until a handler configures it again under the lock, is a subsystem
\* whose handler failed, or had no block in the profile; that an apply-only reached beside
\* an apply or for a profile no longer active, or two applies at once after the watchdog
\* took the lock file away; and that an apply had reached when it died or power was lost.
OneProfileApplied ==
    \A s \in Subsystems \ loose :
        (\A x \in Running : next[x] <= s) => config[s] = active

\* Every invocation ends, by its own work or by giving up the wait for the lock.
ApplyEnds == \A x \in Appliers : proc[x] = "waiting" ~> proc[x] = "none"

\* The agent is what the controller takes it for.
Service == INSTANCE ApplyService WITH applying <- wanted

Implements == Service!DeviceSpec
=============================================================================
