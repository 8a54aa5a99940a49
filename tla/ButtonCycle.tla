----------------------------- MODULE ButtonCycle -----------------------------
(***************************************************************************)
(* The router's reset button: slate_agent/scripts/cycle-profile.sh.        *)
(*                                                                         *)
(* A short press selects the next step of the cycle and shows it; when no  *)
(* press follows in time the step is committed.  Every press is a process  *)
(* that leaves two behind, a painter and a committer, and finds those of   *)
(* the press before by their PIDs in two files.  A profile is applied by   *)
(* the agent of ApplyService, which goes on when the committer that waits  *)
(* for it is killed.  The controller may replace the cycle, the router may *)
(* lose power.                                                             *)
(*                                                                         *)
(* A committer sleeps longer than the script takes to end.                 *)
(***************************************************************************)
EXTENDS ApplyService, Integers, Sequences

CONSTANTS
    Actions,     \* actions a step of the cycle may name, besides profiles
    Cycles,      \* cycles the controller may push
    MaxPresses,  \* bound: presses
    MaxReboots   \* bound: power cycles

Presses == 1..MaxPresses
Names == Profiles \cup Actions

\* Every press may invoke slate-ctrl; no step is called like a state of its committer.
ASSUME ButtonAssumption ==
    /\ Presses \subseteq Appliers
    /\ None \notin Presses \cup Names
    /\ Names \cap {"none", "asleep", "gone"} = {}
    /\ Profiles \cap Actions = {}
    /\ Cycles \subseteq Seq(Names)
    /\ MaxPresses \in Nat
    /\ MaxReboots \in Nat

VARIABLES
    cycle,       \* cycle.json
    cursor,      \* state/cycle_cursor, -1 when idle
    pidFile,     \* state/cycle_commit_pid: the press whose committer is pending
    paintFile,   \* state/cycle_paint_pid
    press,       \* where the script of a press is
    total,       \* the number of steps it has read
    shown,       \* the step it has selected
    painting,    \* presses whose painter is alive
    com,         \* its committer: none, asleep, gone, or the step it executes
    overlapped,  \* no; presses have run at the same time; one of those found a locked screen
    replaced,    \* the cycle was replaced under a press or a committer
    reboots      \* power cycles so far

script == <<press, total, overlapped>>
files == <<cursor, pidFile, paintFile>>
world == <<cycle, replaced, reboots>>
vars == <<script, files, painting, com, shown, world, deviceVars>>

Alive == Names \cup {"asleep"}
Running(p) == press[p] \notin {"no", "done"}

\* Committers end, and what their processes remembered.
End(gone) ==
    /\ com' = [p \in Presses |-> IF p \in gone THEN "gone" ELSE com[p]]
    /\ shown' = [p \in Presses |-> IF p \in gone THEN None ELSE shown[p]]

(***************************************************************************)
(* The script of a press                                                   *)
(***************************************************************************)
GoTo(p, pc) == press' = [press EXCEPT ![p] = pc]

Worse(o) == IF o = "locked" THEN o ELSE "open"

\* Without a cycle the press is ignored; with the screen locked it only stops what is pending.
Begin(p, locked) ==
    /\ press[p] = "no"
    /\ \A q \in 1..(p - 1) : press[q] # "no"
    /\ overlapped' = IF \A q \in Presses : ~Running(q) THEN overlapped
                     ELSE IF locked \/ \E q \in Presses : press[q] \in {"locked", "stop"}
                          THEN "locked" ELSE Worse(overlapped)
    /\ total' = [total EXCEPT ![p] = IF locked THEN 0 ELSE Len(cycle)]
    /\ GoTo(p, IF cycle = <<>> THEN "done" ELSE IF locked THEN "locked" ELSE "cancel")
    /\ UNCHANGED <<files, painting, com, shown, world, deviceVars>>

Rest(p) ==
    /\ press[p] = "locked"
    /\ cursor' = -1
    /\ GoTo(p, "stop")
    /\ UNCHANGED <<total, overlapped, pidFile, paintFile, painting, com, shown, world, deviceVars>>

\* Faulty variant: the committer is forgotten, not killed.
CancelForgets(p) ==
    /\ press[p] \in {"stop", "cancel"}
    /\ pidFile' = None
    /\ GoTo(p, IF press[p] = "stop" THEN "done" ELSE "advance")
    /\ UNCHANGED <<total, overlapped, cursor, paintFile, painting, com, shown, world, deviceVars>>

\* The pending committer is killed; an apply it waits for goes on.
Cancel(p) ==
    /\ press[p] \in {"stop", "cancel"}
    /\ End({pidFile} \ {None})
    /\ pidFile' = None
    /\ GoTo(p, IF press[p] = "stop" THEN "done" ELSE "advance")
    /\ UNCHANGED <<total, overlapped, cursor, paintFile, painting, world, deviceVars>>

\* The cursor moves on; what stands there is what the press shows.
Advance(p) ==
    /\ press[p] = "advance"
    /\ cursor' = IF cursor < 0 THEN 0 ELSE (cursor + 1) % total[p]
    /\ shown' = [shown EXCEPT ![p] = IF cursor' < Len(cycle) THEN cycle[cursor' + 1] ELSE None]
    /\ GoTo(p, "unpaint")
    /\ total' = [total EXCEPT ![p] = 0]
    /\ UNCHANGED <<overlapped, pidFile, paintFile, painting, com, world, deviceVars>>

StopPainter ==
    /\ painting' = painting \ {paintFile}
    /\ paintFile' = None

Unpaint(p) ==
    /\ press[p] = "unpaint"
    /\ StopPainter
    /\ GoTo(p, "paint")
    /\ UNCHANGED <<total, overlapped, cursor, pidFile, com, shown, world, deviceVars>>

\* The menu frame may be missing.
Paint(p, frame) ==
    /\ press[p] = "paint"
    /\ painting' = IF frame THEN painting \cup {p} ELSE painting
    /\ paintFile' = IF frame THEN p ELSE paintFile
    /\ GoTo(p, "spawn")
    /\ UNCHANGED <<total, overlapped, cursor, pidFile, com, shown, world, deviceVars>>

\* The committer is started and its PID written; the next press looks for it there.
Spawn(p) ==
    /\ press[p] = "spawn"
    /\ com' = [com EXCEPT ![p] = "asleep"]
    /\ pidFile' = p
    /\ GoTo(p, "done")
    /\ UNCHANGED <<total, overlapped, cursor, paintFile, painting, shown, world, deviceVars>>

(***************************************************************************)
(* The committer                                                           *)
(***************************************************************************)
\* The cursor is idle, or points behind the end of a cycle that was replaced.
Abort(p) ==
    /\ com[p] = "asleep"
    /\ cursor < 0 \/ cursor >= Len(cycle)
    /\ cursor' = -1
    /\ pidFile' = None
    /\ End({p})
    /\ UNCHANGED <<script, paintFile, painting, world, deviceVars>>

\* A profile is applied unless it is the active one or is not installed; an action runs.
Fire(p) ==
    /\ com[p] = "asleep"
    /\ cursor \in 0..(Len(cycle) - 1)
    /\ com' = [com EXCEPT ![p] = cycle[cursor + 1]]
    /\ StopPainter
    /\ IF com'[p] \in Profiles \ {active} /\ json[com'[p]] # None
       THEN Invoke(p, com'[p])
       ELSE UNCHANGED deviceVars
    /\ UNCHANGED <<script, cursor, pidFile, shown, world>>

\* Faulty variant: the cursor stays where it is.
FinishInPlace(p) ==
    /\ com[p] \in Names
    /\ applying[p] = None
    /\ pidFile' = None
    /\ End({p})
    /\ UNCHANGED <<script, cursor, paintFile, painting, world, deviceVars>>

\* Back to idle.
Finish(p) ==
    /\ com[p] \in Names
    /\ applying[p] = None
    /\ cursor' = -1
    /\ pidFile' = None
    /\ End({p})
    /\ UNCHANGED <<script, paintFile, painting, world, deviceVars>>

(***************************************************************************)
(* The agent and the controller                                            *)
(***************************************************************************)
NoPress == \A p \in Presses : ~Running(p) /\ com[p] \notin Alive

Sync(new) ==
    /\ cycle' = new
    /\ replaced' = (replaced \/ (new # cycle /\ ~NoPress))
    /\ UNCHANGED <<script, files, painting, com, shown, reboots, deviceVars>>

\* An apply ends, one way or the other.
ApplyEnds(x) ==
    /\ Complete(x) \/ GiveUp(x)
    /\ UNCHANGED <<script, files, painting, com, shown, world>>

Install(n) ==
    /\ \E content \in Contents : Push(n, content)
    /\ UNCHANGED <<script, files, painting, com, shown, world>>

\* Processes are gone, the files are on flash.
PowerCycle ==
    /\ reboots < MaxReboots
    /\ reboots' = reboots + 1
    /\ press' = [p \in Presses |-> IF Running(p) THEN "done" ELSE press[p]]
    /\ total' = [p \in Presses |-> 0]
    /\ End({p \in Presses : press[p] # "no"})
    /\ painting' = {}
    /\ Reboot
    /\ UNCHANGED <<overlapped, files, cycle, replaced>>

(***************************************************************************)
(* Specification                                                           *)
(***************************************************************************)
ButtonInit ==
    /\ cycle \in Cycles
    /\ cursor = -1 /\ pidFile = None /\ paintFile = None
    /\ press = [p \in Presses |-> "no"]
    /\ total = [p \in Presses |-> 0]
    /\ shown = [p \in Presses |-> None]
    /\ painting = {}
    /\ com = [p \in Presses |-> "none"]
    /\ overlapped = "no" /\ replaced = FALSE /\ reboots = 0
    /\ DeviceInit

ScriptStep(p) ==
    \/ Rest(p) \/ Cancel(p) \/ Advance(p) \/ Unpaint(p)
    \/ \E frame \in BOOLEAN : Paint(p, frame)
    \/ Spawn(p)

CommitStep(p) == Abort(p) \/ Fire(p) \/ Finish(p)

ButtonNext ==
    \/ \E p \in Presses :
          \/ \E locked \in BOOLEAN : Begin(p, locked)
          \/ ScriptStep(p)
          \/ CommitStep(p)
    \/ \E new \in Cycles : Sync(new)
    \/ \E x \in Presses : ApplyEnds(x)
    \/ \E n \in Profiles : Install(n)
    \/ PowerCycle

ButtonSpec == ButtonInit /\ [][ButtonNext]_vars

\* Processes run on; slate-ctrl waits for its lock at most half a minute.
FairButtonSpec ==
    /\ ButtonSpec
    /\ \A p \in Presses :
          WF_vars(ScriptStep(p)) /\ WF_vars(CommitStep(p)) /\ WF_vars(ApplyEnds(p))

(***************************************************************************)
(* Properties                                                              *)
(***************************************************************************)

\* cycle-profile.sh:7-11 and 133-138: as long as a press has ended before the next one
\* begins, every committer, asleep or at work, can be killed by the next press, so two
\* never commit; every painter can; and what is committed is the step the press has
\* shown, also after a press that found the screen locked, one during an apply or a
\* power cycle - unless the cycle was replaced meanwhile.
OneChoice ==
    overlapped = "no" =>
        \A p \in Presses :
            /\ com[p] \in Alive => pidFile = p
            /\ p \in painting => paintFile = p
            /\ com[p] \in Names /\ ~replaced => com[p] = shown[p]

\* cycle-profile.sh:258, "Back to idle so the next press starts at slot 0 again": the
\* cursor always comes back, whichever press, lock of the screen, kill or new cycle
\* ended the selection, and however presses overlap as long as none of those found the
\* screen locked; only a power cycle leaves it.
CursorRests == cursor # -1 ~> cursor = -1 \/ overlapped = "locked" \/ reboots > 0
=============================================================================
