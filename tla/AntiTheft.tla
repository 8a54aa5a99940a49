----------------------------- MODULE AntiTheft -----------------------------
(***************************************************************************)
(* The autonomous mode of one device: app/security/anti_theft.py.          *)
(*                                                                         *)
(* The PIN verifier and the touchscreen watcher report failures and        *)
(* successes; each report SELECTs the configuration row, which also holds  *)
(* the cumulative counter, and commits later.  A report that brings the    *)
(* counter of an armed device to its threshold resets the counter, then    *)
(* executes the configured action.  The row's UPDATEs name only the        *)
(* columns that differ from what the session read.                         *)
(*                                                                         *)
(* The three SSH steps of the soft wipe succeed or fail one by one.  Counts*)
(* saturate at Ceiling, which is at least the largest threshold.           *)
(***************************************************************************)
EXTENDS Naturals

CONSTANTS
    Reporters,         \* tasks that run the hooks or the manual reset
    Thresholds,        \* values of failure_threshold an operator may choose
    DefaultThreshold,  \* the column's default
    Ceiling,           \* where the counts saturate
    None               \* nothing recorded

ASSUME AntiTheftAssumption ==
    /\ Ceiling \in Nat \ {0}
    /\ Thresholds \subseteq 1..Ceiling
    /\ DefaultThreshold \in Thresholds
    /\ None \notin {"alert", "soft_wipe"}

VARIABLES
    at,         \* where each reporter is
    read,       \* the row as a reporter SELECTed it
    present,    \* the row is in the table
    armed,      \* autonomous_mode
    threshold,  \* failure_threshold
    action,     \* the configured action
    total,      \* total_failures
    lastKind,   \* last_action_kind
    tried,      \* soft-wipe steps a reporter has attempted
    wiped,      \* soft-wipe steps the device has undergone
    since       \* history: failures committed since the last reset or action

policy == <<armed, threshold, action>>
device == <<tried, wiped>>
theftVars == <<at, read, present, policy, total, lastKind, device, since>>

Actions == {"alert", "soft_wipe"}
WipeSteps == {"tailscale", "uci", "pin"}
Waiting == {"failure", "clear"}

Move(p, place) == at' = [at EXCEPT ![p] = place]
UpTo(n) == IF n < Ceiling THEN n ELSE Ceiling

Blank == [present |-> FALSE, total |-> 0, armed |-> FALSE,
          threshold |-> DefaultThreshold, action |-> "alert"]

\* Faulty variant: ">" for ">=".
TripsLate(p) == read[p].armed /\ UpTo(read[p].total + 1) > read[p].threshold

\* The failure p reports brings the counter of an armed device to its threshold.
Trips(p) == read[p].armed /\ UpTo(read[p].total + 1) >= read[p].threshold

\* The hook is over.
Done(p) ==
    /\ Move(p, "idle")
    /\ read' = [read EXCEPT ![p] = Blank]
    /\ tried' = [tried EXCEPT ![p] = {}]

(***************************************************************************)
(* Hooks: on_pin_failure, on_pin_success and reset_counter                 *)
(***************************************************************************)

\* The SELECT.  _get_or_create gives a missing row its defaults: disarmed.
ReadRow(p, kind) ==
    /\ at[p] = "idle"
    /\ Move(p, kind)
    /\ read' = [read EXCEPT ![p] =
           [present |-> present, total |-> total, armed |-> armed,
            threshold |-> threshold, action |-> action]]
    /\ UNCHANGED <<present, policy, total, lastKind, device, since>>

ReportFailure(p) == ReadRow(p, "failure")

\* Nothing to clear without a row or with a counter at zero.
ReportSuccess(p) == present /\ total > 0 /\ ReadRow(p, "clear")

\* The hook raises and its caller logs it: somebody else inserted the row first,
\* or the database refuses.
HookRaises(p) ==
    /\ at[p] \in Waiting
    /\ Done(p)
    /\ UNCHANGED <<present, policy, total, lastKind, wiped, since>>

StartAction(p) ==
    /\ Move(p, IF read[p].action = "alert" THEN "note" ELSE "wipe")
    /\ UNCHANGED <<read, tried>>

\* Faulty variant: the counter is not reset when the action fires.
FireKeepsCount(p) ==
    /\ at[p] = "failure"
    /\ read[p].present \/ ~present
    /\ present' = TRUE
    /\ total' = UpTo(read[p].total + 1)
    /\ IF Trips(p)
       THEN /\ since' = 0
            /\ lastKind' = read[p].action
            /\ StartAction(p)
       ELSE /\ since' = UpTo(since + 1)
            /\ Done(p)
            /\ UNCHANGED lastKind
    /\ UNCHANGED <<policy, wiped>>

\* Count the failure; on the threshold reset the counter and record the action
\* before it is executed.
CommitReport(p) ==
    /\ at[p] = "failure"
    /\ read[p].present \/ ~present
    /\ present' = TRUE
    /\ IF Trips(p)
       THEN /\ total' = IF read[p].total = 0 THEN total ELSE 0
            /\ since' = 0
            /\ lastKind' = read[p].action
            /\ StartAction(p)
       ELSE /\ total' = UpTo(read[p].total + 1)
            /\ since' = UpTo(since + 1)
            /\ Done(p)
            /\ UNCHANGED lastKind
    /\ UNCHANGED <<policy, wiped>>

CommitClear(p) ==
    /\ at[p] = "clear"
    /\ total' = 0
    /\ since' = 0
    /\ Done(p)
    /\ UNCHANGED <<present, policy, lastKind, wiped>>

(***************************************************************************)
(* _execute_action                                                         *)
(***************************************************************************)

\* The registry has no connection for the device: the wipe is abandoned.
WipeAborted(p) ==
    /\ at[p] = "wipe"
    /\ tried[p] = {}
    /\ Move(p, "note")
    /\ UNCHANGED <<read, present, policy, total, lastKind, device, since>>

StepsInOrder(p, step) ==
    /\ step \notin tried[p]
    /\ step = "uci" => "tailscale" \in tried[p]
    /\ step = "pin" => "uci" \in tried[p]

\* Faulty variant: the first failing step ends the wipe.
StopAtFailure(p, step, ok) ==
    /\ at[p] = "wipe"
    /\ StepsInOrder(p, step)
    /\ tried' = [tried EXCEPT ![p] = @ \cup {step}]
    /\ wiped' = IF ok THEN wiped \cup {step} ELSE wiped
    /\ Move(p, IF ok /\ step # "pin" THEN "wipe" ELSE "note")
    /\ UNCHANGED <<read, present, policy, total, lastKind, since>>

\* Faulty variant: a step that fails starts the wipe again.
RestartWipe(p, step, ok) ==
    /\ at[p] = "wipe"
    /\ StepsInOrder(p, step)
    /\ tried' = [tried EXCEPT ![p] = IF ok THEN @ \cup {step} ELSE {}]
    /\ wiped' = IF ok THEN wiped \cup {step} ELSE wiped
    /\ Move(p, IF ok /\ step = "pin" THEN "note" ELSE "wipe")
    /\ UNCHANGED <<read, present, policy, total, lastKind, since>>

\* One SSH command; its failure is logged and the next one is tried.
WipeStep(p, step, ok) ==
    /\ at[p] = "wipe"
    /\ StepsInOrder(p, step)
    /\ tried' = [tried EXCEPT ![p] = @ \cup {step}]
    /\ wiped' = IF ok THEN wiped \cup {step} ELSE wiped
    /\ Move(p, IF step = "pin" THEN "note" ELSE "wipe")
    /\ UNCHANGED <<read, present, policy, total, lastKind, since>>

\* last_action_note is stored and the hook returns.
WriteNote(p) ==
    /\ at[p] = "note"
    /\ Done(p)
    /\ UNCHANGED <<present, policy, total, lastKind, wiped, since>>

(***************************************************************************)
(* Operator and failures                                                   *)
(***************************************************************************)

\* Faulty variant: the limit is stored as the number of failures still allowed.
StoreAllowed(arm, limit, kind) ==
    /\ present' = TRUE
    /\ armed' = arm
    /\ threshold' = limit - 1
    /\ action' = kind
    /\ UNCHANGED <<at, read, total, lastKind, device, since>>

\* upsert: the policy changes, the counter does not.
Configure(arm, limit, kind) ==
    /\ present' = TRUE
    /\ armed' = arm
    /\ threshold' = limit
    /\ action' = kind
    /\ UNCHANGED <<at, read, total, lastKind, device, since>>

\* The controller stops: the tasks are gone, the row is on disk.
Crash ==
    /\ at' = [p \in Reporters |-> "idle"]
    /\ read' = [p \in Reporters |-> Blank]
    /\ tried' = [p \in Reporters |-> {}]
    /\ UNCHANGED <<present, policy, total, lastKind, wiped, since>>

(***************************************************************************)
(* Specification                                                           *)
(***************************************************************************)
TheftInit ==
    /\ at = [p \in Reporters |-> "idle"]
    /\ read = [p \in Reporters |-> Blank]
    /\ present = FALSE
    /\ armed = FALSE
    /\ threshold = DefaultThreshold
    /\ action = "alert"
    /\ total = 0
    /\ lastKind = None
    /\ tried = [p \in Reporters |-> {}]
    /\ wiped = {}
    /\ since = 0

Proceed(p) ==
    \/ HookRaises(p)
    \/ CommitReport(p)
    \/ CommitClear(p)
    \/ WipeAborted(p)
    \/ \E step \in WipeSteps, ok \in BOOLEAN : WipeStep(p, step, ok)
    \/ WriteNote(p)

Administer ==
    \E arm \in BOOLEAN, limit \in Thresholds, kind \in Actions :
        Configure(arm, limit, kind)

TheftNext ==
    \/ \E p \in Reporters : ReportFailure(p) \/ ReportSuccess(p) \/ Proceed(p)
    \/ Administer
    \/ Crash

TheftSpec == TheftInit /\ [][TheftNext]_theftVars

\* Commits and SSH commands are bounded in time.
FairTheftSpec == TheftSpec /\ \A p \in Reporters : WF_theftVars(Proceed(p))

(***************************************************************************)
(* Properties                                                              *)
(***************************************************************************)
Snapshot == [present : BOOLEAN, total : 0..Ceiling, armed : BOOLEAN,
             threshold : Thresholds, action : Actions]

TheftTypeOK ==
    /\ at \in [Reporters -> {"idle", "wipe", "note"} \cup Waiting]
    /\ read \in [Reporters -> Snapshot]
    /\ present \in BOOLEAN
    /\ armed \in BOOLEAN
    /\ threshold \in Thresholds
    /\ action \in Actions
    /\ total \in 0..Ceiling
    /\ lastKind \in Actions \cup {None}
    /\ tried \in [Reporters -> SUBSET WipeSteps]
    /\ wiped \subseteq WipeSteps
    /\ since \in 0..Ceiling

\* The counter is what it says: the failures since the last success, manual reset
\* or action, across restarts and changes of the policy (anti_theft.py:120-161).
CountExact == total = since

\* anti_theft.py:23-24: "After firing, the counter is reset (next round of failures
\* is a fresh streak)": an action is only taken when the failures since the last
\* reset or action reach the threshold the report has read.
FireEarned ==
    [][\A p \in Reporters :
          at[p] = "failure" /\ at'[p] \in {"wipe", "note"}
              => since + 1 >= read[p].threshold]_theftVars

\* A wipe that reaches the device tries every step, whatever fails before it
\* (anti_theft.py:203-209), and is recorded before its first step.
WipeComplete ==
    \A p \in Reporters :
        /\ at[p] = "note" /\ tried[p] # {} => tried[p] = WipeSteps
        /\ at[p] \in {"wipe", "note"} => lastKind # None

\* An action that has begun ends, whatever its steps meet, unless the controller
\* stops first.
ActionEnds == \A p \in Reporters : at[p] = "wipe" ~> at[p] = "idle"
=============================================================================
