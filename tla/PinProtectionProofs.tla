------------------------ MODULE PinProtectionProofs ------------------------
(***************************************************************************)
(* Proofs about the PIN verifier, the autonomous mode and the two as they  *)
(* are wired, for any thresholds and lengths.                              *)
(*                                                                         *)
(* Some facts hold whatever interleaves: the types, that a failure never   *)
(* shortens a lock, that a wipe is complete.  The exact counts hold for    *)
(* one user at a time, and say so: an UPDATE writes a count its session    *)
(* read earlier, so two failures at the same time may be counted as one.   *)
(***************************************************************************)
EXTENDS PinProtection, TLAPS, FiniteSetTheorems

(***************************************************************************)
(* The lockout row                                                         *)
(***************************************************************************)

\* What a failure counts stays within the threshold.
LEMMA NewCountInRange ==
    ASSUME TypeOK, NEW r \in Requests
    PROVE  NewCount(r) \in 1..MaxFailures
<1>1. seen[r] \in Row
    BY DEF TypeOK
<1>2. seen[r].count \in 0..MaxFailures
    BY <1>1 DEF Row
<1> QED
    BY <1>2, LockoutAssumption DEF NewCount, AtMost

\* So does the history of the streak.
LEMMA StreakInRange ==
    ASSUME TypeOK
    PROVE  AtMost(streak + 1, MaxFailures) \in 1..MaxFailures
BY LockoutAssumption DEF TypeOK, AtMost

LEMMA RowBlank == NoRow \in Row
BY LockoutAssumption DEF NoRow, Row

LEMMA InitType == Init => TypeOK
<1> SUFFICES ASSUME Init PROVE TypeOK
    OBVIOUS
<1>1. pc \in [Requests -> {"idle", "compare", "hookFailure", "hookSuccess"} \cup Recording]
    BY DEF Init
<1>2. seen \in [Requests -> Row]
    BY RowBlank DEF Init
<1>3. exists \in BOOLEAN /\ lockSet \in BOOLEAN
    BY DEF Init
<1>4. /\ count \in 0..MaxFailures
      /\ age \in 0..Stale
      /\ lockLeft \in 0..Lockout
      /\ streak \in 0..MaxFailures
    BY LockoutAssumption DEF Init, Stale
<1> QED
    BY <1>1, <1>2, <1>3, <1>4 DEF TypeOK

LEMMA TypeStep == TypeOK /\ [Next]_vars => TypeOK'
<1> SUFFICES ASSUME TypeOK, [Next]_vars PROVE TypeOK'
    OBVIOUS
<1> USE LockoutAssumption
<1>1. ASSUME NEW r \in Requests, Submit(r) PROVE TypeOK'
    BY <1>1 DEF Submit, Goto, row, TypeOK
<1>2. ASSUME NEW r \in Requests, CompareFails(r) PROVE TypeOK'
    BY <1>2 DEF CompareFails, Goto, row, TypeOK
<1>3. ASSUME NEW r \in Requests, NEW outcome \in Recording, Compared(r, outcome)
      PROVE  TypeOK'
    <2>1. pc' \in [Requests -> {"idle", "compare", "hookFailure", "hookSuccess"} \cup Recording]
        BY <1>3 DEF Compared, Goto, TypeOK, Recording
    <2>2. [exists |-> exists, count |-> count, stale |-> age = Stale, lockSet |-> lockSet] \in Row
        BY DEF TypeOK, Row
    <2>3. seen' \in [Requests -> Row]
        BY <1>3, <2>2 DEF Compared, TypeOK
    <2> QED
        BY <1>3, <2>1, <2>3 DEF Compared, row, TypeOK
<1>4. ASSUME NEW r \in Requests, RecordFails(r) PROVE TypeOK'
    BY <1>4, RowBlank DEF RecordFails, Goto, row, TypeOK
<1>5. ASSUME NEW r \in Requests, CommitFailure(r) PROVE TypeOK'
    <2>1. count' \in 0..MaxFailures
        BY <1>5, NewCountInRange DEF CommitFailure, TypeOK
    <2>2. lockLeft' \in 0..Lockout
        BY <1>5 DEF CommitFailure, TypeOK
    <2>3. lockSet' \in BOOLEAN
        BY <1>5 DEF CommitFailure, TypeOK
    <2>4. streak' \in 0..MaxFailures
        BY <1>5, StreakInRange DEF CommitFailure
    <2>5. age' \in 0..Stale /\ exists' \in BOOLEAN
        BY <1>5 DEF CommitFailure, Stale
    <2>6. seen' \in [Requests -> Row]
        BY <1>5, RowBlank DEF CommitFailure, TypeOK
    <2> QED
        BY <1>5, <2>1, <2>2, <2>3, <2>4, <2>5, <2>6 DEF CommitFailure, Goto, TypeOK
<1>6. ASSUME NEW r \in Requests, CommitSuccess(r) PROVE TypeOK'
    <2>1. count' \in 0..MaxFailures
        BY <1>6 DEF CommitSuccess, TypeOK
    <2>2. lockLeft' \in 0..Lockout
        BY <1>6 DEF CommitSuccess, TypeOK
    <2>3. lockSet' \in BOOLEAN
        BY <1>6 DEF CommitSuccess, TypeOK
    <2>4. seen' \in [Requests -> Row]
        BY <1>6, RowBlank DEF CommitSuccess, TypeOK
    <2> QED
        BY <1>6, <2>1, <2>2, <2>3, <2>4 DEF CommitSuccess, Goto, Stale, TypeOK
<1>7. ASSUME NEW r \in Requests, HookReturns(r) PROVE TypeOK'
    BY <1>7 DEF HookReturns, Goto, row, TypeOK
<1>8. CASE Tick
    <2>1. age' \in 0..Stale /\ lockLeft' \in 0..Lockout
        BY <1>8 DEF Tick, AtMost, Stale, TypeOK
    <2> QED
        BY <1>8, <2>1 DEF Tick, TypeOK
<1>9. CASE Stop
    BY <1>9, RowBlank DEF Stop, row, TypeOK
<1>10. CASE UNCHANGED vars
    BY <1>10 DEF vars, row, TypeOK
<1> QED
    BY <1>1, <1>2, <1>3, <1>4, <1>5, <1>6, <1>7, <1>8, <1>9, <1>10 DEF Next, Step, Record

\* The row keeps its type whatever requests interleave (pin_lockout.py:84-193).
THEOREM LockoutTypes == Spec => []TypeOK
BY InitType, TypeStep, PTL DEF Spec

\* Only the request that records moves on from its failure.
LEMMA LockKept ==
    ASSUME TypeOK, [Next]_vars, NEW r \in Requests, pc[r] = "failure", pc'[r] # "failure"
    PROVE  lockLeft' >= lockLeft
<1> USE LockoutAssumption DEF TypeOK
<1>1. CASE CommitFailure(r)
    BY <1>1 DEF CommitFailure
<1>2. CASE RecordFails(r) \/ Stop
    BY <1>2 DEF RecordFails, Stop, row
<1>3. CommitFailure(r) \/ RecordFails(r) \/ Stop
    <2>1. pc' # pc
        OBVIOUS
    <2>2. ~Tick /\ ~UNCHANGED vars
        BY <2>1 DEF Tick, vars
    <2> SUFFICES ASSUME ~Stop PROVE CommitFailure(r) \/ RecordFails(r)
        OBVIOUS
    <2>3. PICK q \in Requests : Submit(q) \/ Step(q)
        BY <2>2 DEF Next
    <2>4. \E place : pc' = [pc EXCEPT ![q] = place]
        BY <2>3 DEF Submit, Step, Record, CompareFails, Compared, RecordFails,
                    CommitFailure, CommitSuccess, HookReturns, Goto
    <2>5. q = r
        BY <2>4
    <2> QED
        BY <2>3, <2>5 DEF Submit, Step, Record, CompareFails, Compared, CommitSuccess,
                          HookReturns
<1> QED
    BY <1>1, <1>2, <1>3

\* A failure that read an older row never shortens a lock another request has set
\* (pin_lockout.py:103-120), for any number of requests and any lengths.
THEOREM FailuresNeverUnlock == Spec => FailuresKeepLock
<1>1. TypeOK /\ [Next]_vars
      => [\A r \in Requests :
             pc[r] = "failure" /\ pc'[r] # "failure" => lockLeft' >= lockLeft]_vars
    BY LockKept
<1> QED
    BY <1>1, LockoutTypes, PTL DEF Spec, FailuresKeepLock

(***************************************************************************)
(* One verification at a time                                              *)
(*                                                                         *)
(* What a request has read is still the row when it commits, so failed_    *)
(* count is never behind the failures that were recorded, and inside the   *)
(* window never ahead of them.                                             *)
(***************************************************************************)
OneRequest == \A q, r \in Requests : q = r

\* A recording request knows the row as it is.
SeenCurrent ==
    \A r \in Requests : pc[r] \in Recording =>
        seen[r] = [exists |-> exists, count |-> count, stale |-> age = Stale, lockSet |-> lockSet]

\* No failure that counts against the user is missing from failed_count.
NothingMissed == streak <= count

CountInv == TypeOK /\ SeenCurrent /\ NothingMissed /\ ThreeFailuresLock

\* Inside the window failed_count is exact; after it, it counts for nothing.
ExactInWindow == age # Stale => count = streak

\* A request past the check has found the verifier open, and nobody has locked it since.
PastTheCheck == \A r \in Requests : pc[r] \in {"compare"} \cup Recording => lockLeft = 0

\* The last failure lies out of the window when a lock runs out.
LockOutlastsWindow == lockLeft > 0 => age = Stale \/ age + lockLeft >= Lockout

EarnedInv == TypeOK /\ SeenCurrent /\ ExactInWindow /\ PastTheCheck /\ LockOutlastsWindow

\* A request alone reads what it commits against.
LEMMA ReadingStays ==
    ASSUME OneRequest, TypeOK, SeenCurrent, [Next]_vars
    PROVE  SeenCurrent'
<1> SUFFICES ASSUME NEW r \in Requests, pc'[r] \in Recording
             PROVE  seen'[r] = [exists |-> exists', count |-> count',
                                stale |-> age' = Stale, lockSet |-> lockSet']
    BY DEF SeenCurrent
<1> USE DEF TypeOK, SeenCurrent, Recording
<1>1. CASE Submit(r) \/ CompareFails(r) \/ Record(r) \/ HookReturns(r)
    BY <1>1 DEF Submit, CompareFails, Record, RecordFails, CommitFailure, CommitSuccess,
                HookReturns, Goto
<1>2. ASSUME NEW outcome \in Recording, Compared(r, outcome)
      PROVE  seen'[r] = [exists |-> exists', count |-> count',
                         stale |-> age' = Stale, lockSet |-> lockSet']
    BY <1>2 DEF Compared, Goto, row
<1>3. CASE Tick \/ Stop
    BY <1>3 DEF Tick, Stop
<1>4. CASE UNCHANGED vars
    BY <1>4 DEF vars, row
<1> QED
    BY <1>1, <1>2, <1>3, <1>4 DEF OneRequest, Next, Step

\* With the row as it was read, a failure writes one more than there were, or one.
LEMMA CommitAlone ==
    ASSUME TypeOK, SeenCurrent, NEW r \in Requests, CommitFailure(r)
    PROVE  /\ count' = IF age = Stale THEN 1 ELSE AtMost(count + 1, MaxFailures)
           /\ count' = MaxFailures => lockLeft' = Lockout
           /\ count' # MaxFailures => lockLeft' = lockLeft
<1> USE LockoutAssumption DEF TypeOK, CommitFailure
<1>1. pc[r] \in Recording
    BY DEF Recording
<1>2. seen[r].count = count /\ seen[r].stale = (age = Stale)
    BY <1>1 DEF SeenCurrent
<1>3. NewCount(r) = IF age = Stale THEN 1 ELSE AtMost(count + 1, MaxFailures)
    BY <1>2 DEF NewCount
<1>4. NewCount(r) \in 1..MaxFailures
    BY NewCountInRange
<1>5. count' = NewCount(r)
    BY <1>2, <1>3
<1>6. NewCount(r) >= MaxFailures <=> NewCount(r) = MaxFailures
    BY <1>4
<1> QED
    BY <1>3, <1>5, <1>6

LEMMA CountingStays ==
    ASSUME OneRequest, CountInv, [Next]_vars
    PROVE  CountInv'
<1> USE LockoutAssumption DEF CountInv
<1>1. TypeOK' /\ SeenCurrent'
    BY TypeStep, ReadingStays
<1>2. NothingMissed' /\ ThreeFailuresLock'
    <2> USE DEF TypeOK, NothingMissed, ThreeFailuresLock
    <2>1. ASSUME NEW r \in Requests, Submit(r) \/ CompareFails(r) \/ HookReturns(r)
                                     \/ RecordFails(r)
          PROVE  NothingMissed' /\ ThreeFailuresLock'
        BY <2>1 DEF Submit, CompareFails, HookReturns, RecordFails, row
    <2>2. ASSUME NEW r \in Requests, NEW outcome \in Recording, Compared(r, outcome)
          PROVE  NothingMissed' /\ ThreeFailuresLock'
        BY <2>2 DEF Compared, row
    <2>3. ASSUME NEW r \in Requests, CommitFailure(r)
          PROVE  NothingMissed' /\ ThreeFailuresLock'
        <3>1. streak' = IF age = Stale THEN 1 ELSE AtMost(streak + 1, MaxFailures)
            BY <2>3 DEF CommitFailure
        <3>2. streak' <= count'
            BY <2>3, <3>1, CommitAlone DEF AtMost
        <3>3. count' \in 0..MaxFailures /\ streak' \in 0..MaxFailures
            BY <1>1
        <3>4. streak' = MaxFailures => lockLeft' = Lockout
            BY <2>3, <3>2, <3>3, CommitAlone
        <3> QED
            BY <3>2, <3>4
    <2>4. ASSUME NEW r \in Requests, CommitSuccess(r)
          PROVE  NothingMissed' /\ ThreeFailuresLock'
        BY <2>4, <1>1 DEF CommitSuccess
    <2>5. CASE Tick \/ Stop
        BY <2>5 DEF Tick, Stop, row
    <2>6. CASE UNCHANGED vars
        BY <2>6 DEF vars, row
    <2> QED
        BY <2>1, <2>2, <2>3, <2>4, <2>5, <2>6 DEF Next, Step, Record
<1> QED
    BY <1>1, <1>2

LEMMA EarningStays ==
    ASSUME OneRequest, Lockout > Window, EarnedInv, [Next]_vars
    PROVE  EarnedInv'
<1> USE LockoutAssumption DEF EarnedInv
<1>1. TypeOK' /\ SeenCurrent'
    BY TypeStep, ReadingStays
<1>2. ExactInWindow' /\ PastTheCheck' /\ LockOutlastsWindow'
    <2> USE DEF TypeOK, ExactInWindow, PastTheCheck, LockOutlastsWindow, Stale, Recording
    <2>1. ASSUME NEW r \in Requests, Submit(r) \/ CompareFails(r) \/ HookReturns(r)
                                     \/ RecordFails(r)
          PROVE  ExactInWindow' /\ PastTheCheck' /\ LockOutlastsWindow'
        BY <2>1 DEF Submit, CompareFails, HookReturns, RecordFails, Goto, row
    <2>2. ASSUME NEW r \in Requests, NEW outcome \in Recording, Compared(r, outcome)
          PROVE  ExactInWindow' /\ PastTheCheck' /\ LockOutlastsWindow'
        BY <2>2 DEF Compared, Goto, row
    <2>3. ASSUME NEW r \in Requests, CommitFailure(r)
          PROVE  ExactInWindow' /\ PastTheCheck' /\ LockOutlastsWindow'
        <3>1. streak' = IF age = Stale THEN 1 ELSE AtMost(streak + 1, MaxFailures)
            BY <2>3 DEF CommitFailure
        <3>2. count' = streak'
            BY <2>3, <3>1, CommitAlone
        <3>3. age' = 0 /\ pc' = [pc EXCEPT ![r] = "hookFailure"]
            BY <2>3 DEF CommitFailure, Goto
        <3>4. lockLeft = 0
            BY <2>3 DEF CommitFailure
        <3>5. lockLeft' \in {0, Lockout}
            BY <2>3, <3>4, CommitAlone
        <3>6. PastTheCheck'
            BY <3>3 DEF OneRequest
        <3>7. ExactInWindow'
            BY <3>2
        <3>8. CASE lockLeft' = 0
            BY <3>6, <3>7, <3>8
        <3>9. CASE lockLeft' = Lockout
            <4>1. 0 + Lockout = Lockout
                OBVIOUS
            <4>2. age' + lockLeft' = Lockout
                BY <3>3, <3>9, <4>1
            <4>3. age' + lockLeft' >= Lockout
                BY <4>2
            <4> QED
                BY <3>6, <3>7, <4>3
        <3> QED
            BY <3>5, <3>8, <3>9
    <2>4. ASSUME NEW r \in Requests, CommitSuccess(r)
          PROVE  ExactInWindow' /\ PastTheCheck' /\ LockOutlastsWindow'
        <3>1. count' = 0 /\ streak' = 0
            BY <2>4 DEF CommitSuccess, SeenCurrent
        <3>2. lockLeft = 0 /\ lockLeft' = 0
            BY <2>4 DEF CommitSuccess
        <3> QED
            BY <3>1, <3>2
    <2>5. CASE Tick
        BY <2>5 DEF Tick, AtMost
    <2>6. CASE Stop \/ UNCHANGED vars
        BY <2>6 DEF Stop, vars, row
    <2> QED
        BY <2>1, <2>2, <2>3, <2>4, <2>5, <2>6 DEF Next, Step, Record
<1> QED
    BY <1>1, <1>2

LEMMA EarnedStep ==
    ASSUME OneRequest, Lockout > Window, EarnedInv, [Next]_vars, lockLeft' > lockLeft
    PROVE  streak' = MaxFailures
<1> USE LockoutAssumption DEF EarnedInv, TypeOK
<1>1. PICK r \in Requests : CommitFailure(r)
    BY DEF Next, Step, Record, Submit, CompareFails, HookReturns, RecordFails, Compared,
           CommitSuccess, Tick, Stop, vars, row
<1>2. lockLeft' # lockLeft
    OBVIOUS
<1>3. count' = MaxFailures
    BY <1>1, <1>2, CommitAlone
<1>4. streak' = IF age = Stale THEN 1 ELSE AtMost(streak + 1, MaxFailures)
    BY <1>1 DEF CommitFailure
<1>5. count' = streak'
    BY <1>1, <1>4, CommitAlone DEF ExactInWindow
<1> QED
    BY <1>3, <1>5

LEMMA InitAlone == Init => CountInv /\ EarnedInv
<1> SUFFICES ASSUME Init PROVE CountInv /\ EarnedInv
    OBVIOUS
<1>1. TypeOK
    BY InitType
<1>2. SeenCurrent /\ PastTheCheck
    BY DEF Init, SeenCurrent, PastTheCheck, Recording
<1>3. NothingMissed /\ ThreeFailuresLock /\ ExactInWindow /\ LockOutlastsWindow
    BY LockoutAssumption
       DEF Init, NothingMissed, ThreeFailuresLock, ExactInWindow, LockOutlastsWindow
<1> QED
    BY <1>1, <1>2, <1>3 DEF CountInv, EarnedInv

\* pin_lockout.py:1-2, "3 failed attempts within a 60s window lock the PIN verifier": with
\* one verification at a time, the failure that completes the number locks, for any
\* number and any lengths.
THEOREM FailuresLock == ASSUME OneRequest PROVE Spec => []ThreeFailuresLock
<1>1. Init => CountInv
    BY InitAlone
<1>2. CountInv /\ [Next]_vars => CountInv'
    BY CountingStays
<1>3. CountInv => ThreeFailuresLock
    BY DEF CountInv
<1> QED
    BY <1>1, <1>2, <1>3, PTL DEF Spec

\* pin_lockout.py:103-120 and 143: with one verification at a time, and a lock that lasts
\* until its failures have left the window, nothing less than that number of failures
\* since the last success or lock turns the user away.
THEOREM LocksAreEarned == ASSUME OneRequest, Lockout > Window PROVE Spec => LockEarned
<1>1. Init => EarnedInv
    BY InitAlone
<1>2. EarnedInv /\ [Next]_vars => EarnedInv'
    BY EarningStays
<1>3. EarnedInv /\ [Next]_vars => [lockLeft' > lockLeft => streak' = MaxFailures]_vars
    BY EarnedStep
<1> QED
    BY <1>1, <1>2, <1>3, PTL DEF Spec, LockEarned

(***************************************************************************)
(* The autonomous mode                                                     *)
(*                                                                         *)
(* WipeComplete speaks of the end of a wipe.  Its steps are taken in order *)
(* and the last one ends it, so in a wipe under way the steps tried are    *)
(* the ones before the next, and elsewhere there are none.                 *)
(***************************************************************************)

\* The steps tried follow the order of _soft_wipe and belong to a wipe under way.
TriedInOrder ==
    \A p \in Reporters :
        /\ at[p] \notin {"wipe", "note"} => tried[p] = {}
        /\ at[p] = "wipe" => "pin" \notin tried[p]
        /\ "uci" \in tried[p] => "tailscale" \in tried[p]

TheftInv == TheftTypeOK /\ TriedInOrder /\ WipeComplete

LEMMA CountInRange ==
    ASSUME NEW n \in 0..Ceiling
    PROVE  UpTo(n + 1) \in 0..Ceiling
BY AntiTheftAssumption DEF UpTo

LEMMA BlankTyped == Blank \in Snapshot
BY AntiTheftAssumption DEF Blank, Snapshot, Actions

LEMMA InitTheft == TheftInit => TheftInv
<1> SUFFICES ASSUME TheftInit PROVE TheftInv
    OBVIOUS
<1>1. TheftTypeOK
    <2>1. at \in [Reporters -> {"idle", "wipe", "note"} \cup Waiting]
        BY DEF TheftInit
    <2>2. read \in [Reporters -> Snapshot]
        BY BlankTyped DEF TheftInit
    <2>3. present \in BOOLEAN /\ armed \in BOOLEAN
        BY DEF TheftInit
    <2>4. threshold \in Thresholds /\ action \in Actions /\ lastKind \in Actions \cup {None}
        BY AntiTheftAssumption DEF TheftInit, Actions
    <2>5. total \in 0..Ceiling /\ since \in 0..Ceiling
        BY AntiTheftAssumption DEF TheftInit
    <2>6. tried \in [Reporters -> SUBSET WipeSteps] /\ wiped \subseteq WipeSteps
        BY DEF TheftInit
    <2> QED
        BY <2>1, <2>2, <2>3, <2>4, <2>5, <2>6 DEF TheftTypeOK
<1>2. TriedInOrder /\ WipeComplete
    BY DEF TheftInit, TriedInOrder, WipeComplete
<1> QED
    BY <1>1, <1>2 DEF TheftInv

(***************************************************************************)
(* Types                                                                   *)
(***************************************************************************)

LEMMA TheftTypeStep == TheftTypeOK /\ [TheftNext]_theftVars => TheftTypeOK'
<1> SUFFICES ASSUME TheftTypeOK, [TheftNext]_theftVars PROVE TheftTypeOK'
    OBVIOUS
<1> USE DEF TheftTypeOK, Waiting
<1>1. ASSUME NEW p \in Reporters, NEW kind \in Waiting, ReadRow(p, kind)
      PROVE  TheftTypeOK'
    <2>1. [present |-> present, total |-> total, armed |-> armed,
           threshold |-> threshold, action |-> action] \in Snapshot
        BY DEF Snapshot
    <2> QED
        BY <1>1, <2>1 DEF ReadRow, Move, policy, device
<1>2. ASSUME NEW p \in Reporters, ReportFailure(p) \/ ReportSuccess(p)
      PROVE  TheftTypeOK'
    BY <1>1, <1>2 DEF ReportFailure, ReportSuccess
<1>3. ASSUME NEW p \in Reporters, HookRaises(p) PROVE TheftTypeOK'
    BY <1>3, BlankTyped DEF HookRaises, Done, Move, policy
<1>4. ASSUME NEW p \in Reporters, CommitReport(p) PROVE TheftTypeOK'
    <2>1. read[p] \in Snapshot /\ read[p].total \in 0..Ceiling /\ read[p].action \in Actions
        BY DEF Snapshot
    <2>2. total' \in 0..Ceiling /\ since' \in 0..Ceiling
        BY <1>4, <2>1, CountInRange, AntiTheftAssumption DEF CommitReport
    <2>3. lastKind' \in Actions \cup {None}
        BY <1>4, <2>1 DEF CommitReport
    <2>4. at' \in [Reporters -> {"idle", "wipe", "note"} \cup Waiting]
        BY <1>4 DEF CommitReport, StartAction, Done, Move
    <2>5. read' \in [Reporters -> Snapshot] /\ tried' \in [Reporters -> SUBSET WipeSteps]
        BY <1>4, BlankTyped DEF CommitReport, StartAction, Done
    <2> QED
        BY <1>4, <2>2, <2>3, <2>4, <2>5 DEF CommitReport, policy
<1>5. ASSUME NEW p \in Reporters, CommitClear(p) PROVE TheftTypeOK'
    BY <1>5, BlankTyped, AntiTheftAssumption DEF CommitClear, Done, Move, policy
<1>6. ASSUME NEW p \in Reporters, WipeAborted(p) PROVE TheftTypeOK'
    BY <1>6 DEF WipeAborted, Move, policy, device
<1>7. ASSUME NEW p \in Reporters, NEW step \in WipeSteps, NEW ok \in BOOLEAN,
             WipeStep(p, step, ok)
      PROVE  TheftTypeOK'
    BY <1>7 DEF WipeStep, Move, policy
<1>8. ASSUME NEW p \in Reporters, WriteNote(p) PROVE TheftTypeOK'
    BY <1>8, BlankTyped DEF WriteNote, Done, Move, policy
<1>9. ASSUME NEW arm \in BOOLEAN, NEW limit \in Thresholds, NEW kind \in Actions,
             Configure(arm, limit, kind)
      PROVE  TheftTypeOK'
    BY <1>9 DEF Configure, device
<1>10. CASE Crash
    BY <1>10, BlankTyped DEF Crash, policy
<1>11. CASE UNCHANGED theftVars
    BY <1>11 DEF theftVars, policy, device
<1> QED
    BY <1>2, <1>3, <1>4, <1>5, <1>6, <1>7, <1>8, <1>9, <1>10, <1>11
       DEF TheftNext, Proceed, Administer

(***************************************************************************)
(* The wipe                                                                *)
(***************************************************************************)

LEMMA WipeStepKeeps ==
    ASSUME TheftInv, NEW p \in Reporters, NEW step \in WipeSteps, NEW ok \in BOOLEAN,
           WipeStep(p, step, ok)
    PROVE  TriedInOrder' /\ WipeComplete'
<1> SUFFICES ASSUME NEW q \in Reporters
             PROVE  /\ at'[q] \notin {"wipe", "note"} => tried'[q] = {}
                    /\ at'[q] = "wipe" => "pin" \notin tried'[q]
                    /\ "uci" \in tried'[q] => "tailscale" \in tried'[q]
                    /\ at'[q] = "note" /\ tried'[q] # {} => tried'[q] = WipeSteps
                    /\ at'[q] \in {"wipe", "note"} => lastKind' # None
    BY DEF TriedInOrder, WipeComplete
<1>1. lastKind' # None
    BY DEF WipeStep, TheftInv, WipeComplete
<1>2. CASE q # p
    BY <1>1, <1>2 DEF WipeStep, Move, TheftInv, TheftTypeOK, TriedInOrder, WipeComplete
<1>3. CASE q = p
    <2>1. tried'[p] = tried[p] \cup {step}
        BY DEF WipeStep, TheftInv, TheftTypeOK
    <2>2. at'[p] = IF step = "pin" THEN "note" ELSE "wipe"
        BY DEF WipeStep, Move, TheftInv, TheftTypeOK
    <2>3. tried[p] \subseteq WipeSteps
        BY DEF TheftInv, TheftTypeOK
    <2> QED
        BY <1>1, <1>3, <2>1, <2>2, <2>3
           DEF WipeStep, StepsInOrder, WipeSteps, TheftInv, TriedInOrder
<1> QED
    BY <1>2, <1>3

LEMMA WipeKept == TheftInv /\ [TheftNext]_theftVars => TriedInOrder' /\ WipeComplete'
<1> SUFFICES ASSUME TheftInv, [TheftNext]_theftVars PROVE TriedInOrder' /\ WipeComplete'
    OBVIOUS
<1> USE DEF TheftInv, TheftTypeOK, TriedInOrder, WipeComplete
<1>1. ASSUME NEW p \in Reporters, ReportFailure(p) \/ ReportSuccess(p)
      PROVE  TriedInOrder' /\ WipeComplete'
    BY <1>1 DEF ReportFailure, ReportSuccess, ReadRow, Move, device
<1>2. ASSUME NEW p \in Reporters,
             HookRaises(p) \/ CommitClear(p) \/ WriteNote(p)
      PROVE  TriedInOrder' /\ WipeComplete'
    BY <1>2 DEF HookRaises, CommitClear, WriteNote, Done, Move
<1>3. ASSUME NEW p \in Reporters, CommitReport(p)
      PROVE  TriedInOrder' /\ WipeComplete'
    <2>1. CASE ~Trips(p)
        BY <1>3, <2>1 DEF CommitReport, Done, Move
    <2>2. CASE Trips(p)
        <3>1. lastKind' = read[p].action /\ read[p].action # None
            BY <1>3, <2>2, AntiTheftAssumption DEF CommitReport, Snapshot, Actions
        <3>2. tried' = tried /\ tried[p] = {}
            BY <1>3, <2>2 DEF CommitReport, StartAction
        <3> QED
            BY <1>3, <2>2, <3>1, <3>2 DEF CommitReport, StartAction, Move
    <2> QED
        BY <2>1, <2>2
<1>4. ASSUME NEW p \in Reporters, WipeAborted(p) PROVE TriedInOrder' /\ WipeComplete'
    BY <1>4 DEF WipeAborted, Move, device
<1>5. ASSUME NEW arm \in BOOLEAN, NEW limit \in Thresholds, NEW kind \in Actions,
             Configure(arm, limit, kind)
      PROVE  TriedInOrder' /\ WipeComplete'
    BY <1>5 DEF Configure, device
<1>6. CASE Crash
    BY <1>6 DEF Crash
<1>7. CASE UNCHANGED theftVars
    BY <1>7 DEF theftVars, device
<1> QED
    BY <1>1, <1>2, <1>3, <1>4, <1>5, <1>6, <1>7, WipeStepKeeps
       DEF TheftNext, Proceed, Administer

\* Every variable keeps its type, for any number of reporters (anti_theft.py:78-302).
THEOREM TheftTypes == TheftSpec => []TheftTypeOK
<1>1. TheftInit => TheftTypeOK
    BY InitTheft DEF TheftInv
<1> QED
    BY <1>1, TheftTypeStep, PTL DEF TheftSpec

\* A wipe that reaches the device tries every step, whatever fails before it, and is
\* recorded before its first step (anti_theft.py:130-146, 203-280).
THEOREM WipesAreComplete == TheftSpec => []WipeComplete
<1>1. TheftInv /\ [TheftNext]_theftVars => TheftInv'
    BY TheftTypeStep, WipeKept DEF TheftInv
<1>2. TheftInv => WipeComplete
    BY DEF TheftInv
<1> QED
    BY InitTheft, <1>1, <1>2, PTL DEF TheftSpec

(***************************************************************************)
(* One reporter at a time                                                  *)
(*                                                                         *)
(* While one task at a time reports to the service, the count it has read  *)
(* is still the row's when it commits, across changes of the policy and    *)
(* crashes.                                                                *)
(***************************************************************************)
ReadCurrent(p) ==
    /\ \A q \in Reporters : q # p => at[q] = "idle"
    /\ at[p] \in Waiting => read[p].total = total

SoloInv(p) == TheftTypeOK /\ ReadCurrent(p) /\ CountExact

\* What can happen while p is the only one to report.
SoloNext(p) == ReportFailure(p) \/ ReportSuccess(p) \/ Proceed(p) \/ Administer \/ Crash

LEMMA SoloIsNext ==
    ASSUME NEW p \in Reporters, [SoloNext(p)]_theftVars
    PROVE  [TheftNext]_theftVars
BY DEF SoloNext, TheftNext

LEMMA SoloStep ==
    ASSUME NEW p \in Reporters, SoloInv(p), [SoloNext(p)]_theftVars
    PROVE  SoloInv(p)'
<1> USE DEF SoloInv, ReadCurrent, CountExact, TheftTypeOK, Waiting
<1>1. TheftTypeOK'
    BY TheftTypeStep, SoloIsNext
<1>2. ReadCurrent(p)' /\ CountExact'
    <2>1. CASE ReportFailure(p) \/ ReportSuccess(p)
        BY <2>1 DEF ReportFailure, ReportSuccess, ReadRow, Move
    <2>2. CASE HookRaises(p) \/ CommitClear(p) \/ WriteNote(p)
        BY <2>2 DEF HookRaises, CommitClear, WriteNote, Done, Move
    <2>3. CASE CommitReport(p)
        <3>1. total' = since'
            BY <2>3 DEF CommitReport
        <3>2. /\ \A q \in Reporters : q # p => at'[q] = "idle"
              /\ at'[p] \notin Waiting
            BY <2>3 DEF CommitReport, StartAction, Done, Move
        <3> QED
            BY <3>1, <3>2
    <2>4. CASE WipeAborted(p)
        BY <2>4 DEF WipeAborted, Move
    <2>5. ASSUME NEW step \in WipeSteps, NEW ok \in BOOLEAN, WipeStep(p, step, ok)
          PROVE  ReadCurrent(p)' /\ CountExact'
        BY <2>5 DEF WipeStep, Move
    <2>6. ASSUME NEW arm \in BOOLEAN, NEW limit \in Thresholds, NEW kind \in Actions,
                 Configure(arm, limit, kind)
          PROVE  ReadCurrent(p)' /\ CountExact'
        BY <2>6 DEF Configure
    <2>7. CASE Crash
        BY <2>7 DEF Crash
    <2>8. CASE UNCHANGED theftVars
        BY <2>8 DEF theftVars
    <2> QED
        BY <2>1, <2>2, <2>3, <2>4, <2>5, <2>6, <2>7, <2>8 DEF SoloNext, Proceed, Administer
<1> QED
    BY <1>1, <1>2

\* An action is taken by a report that trips, and the count it has read is exact.
LEMMA SoloFires ==
    ASSUME NEW p \in Reporters, SoloInv(p), [SoloNext(p)]_theftVars,
           NEW q \in Reporters, at[q] = "failure", at'[q] \in {"wipe", "note"}
    PROVE  since + 1 >= read[q].threshold
<1> USE DEF SoloInv, ReadCurrent, CountExact, TheftTypeOK, Waiting
<1>1. q = p
    OBVIOUS
<1>2. CommitReport(p) /\ Trips(p)
    <2>1. ~Administer /\ ~Crash /\ ~UNCHANGED theftVars
        BY DEF Administer, Configure, Crash, theftVars
    <2>2. CommitReport(p)
        BY <1>1, <2>1 DEF SoloNext, Proceed, ReportFailure, ReportSuccess, ReadRow, HookRaises, CommitClear,
                     WipeAborted, WipeStep, WriteNote, Done, Move
    <2> QED
        BY <1>1, <2>2 DEF CommitReport, Done, Move
<1>3. read[p] \in Snapshot /\ read[p].total = since
    BY <1>1
<1>4. read[p].threshold \in 1..Ceiling
    BY <1>3, AntiTheftAssumption DEF Snapshot
<1> QED
    BY <1>1, <1>2, <1>3, <1>4, AntiTheftAssumption DEF Trips, UpTo

LEMMA SoloInit ==
    ASSUME TheftInit, NEW p \in Reporters
    PROVE  SoloInv(p)
BY InitTheft DEF TheftInit, TheftInv, SoloInv, ReadCurrent, CountExact, Waiting

\* db/models.py:1085-1089 and anti_theft.py:120-161: with one reporter the counter is the
\* number of failures since the last success, reset or action, across crashes and any
\* changes of the policy.
THEOREM CountStaysExact ==
    ASSUME NEW p \in Reporters, Reporters = {p}
    PROVE  TheftSpec => []CountExact
<1>1. TheftInit => SoloInv(p)
    BY SoloInit
<1>2. TheftNext => SoloNext(p)
    BY DEF TheftNext, SoloNext
<1>3. SoloInv(p) /\ [TheftNext]_theftVars => SoloInv(p)'
    BY <1>2, SoloStep
<1>4. SoloInv(p) => CountExact
    BY DEF SoloInv
<1> QED
    BY <1>1, <1>3, <1>4, PTL DEF TheftSpec

\* anti_theft.py:23-24, "After firing, the counter is reset (next round of failures is a
\* fresh streak)": with one reporter, no action is taken before that many failures.
THEOREM ActionsAreEarned ==
    ASSUME NEW one \in Reporters, Reporters = {one}
    PROVE  TheftSpec => FireEarned
<1>1. TheftInit => SoloInv(one)
    BY SoloInit
<1>2. TheftNext => SoloNext(one)
    BY DEF TheftNext, SoloNext
<1>3. SoloInv(one) /\ [TheftNext]_theftVars => SoloInv(one)'
    BY <1>2, SoloStep
<1>4. SoloInv(one) /\ [TheftNext]_theftVars
      => [\A p \in Reporters :
             at[p] = "failure" /\ at'[p] \in {"wipe", "note"}
                 => since + 1 >= read[p].threshold]_theftVars
    BY <1>2, SoloFires
<1>5. FireEarned
      <=> [][\A p \in Reporters :
                at[p] = "failure" /\ at'[p] \in {"wipe", "note"}
                    => since + 1 >= read[p].threshold]_theftVars
    BY DEF FireEarned
<1> QED
    BY <1>1, <1>3, <1>4, <1>5, PTL DEF TheftSpec

(***************************************************************************)
(* The verifier with the autonomous mode behind it                         *)
(***************************************************************************)

LEMMA ProtectionIsNext == [ProtectionNext]_allVars => [Next]_vars /\ [TheftNext]_theftVars
<1> SUFFICES ASSUME [ProtectionNext]_allVars PROVE [Next]_vars /\ [TheftNext]_theftVars
    OBVIOUS
<1>1. ASSUME NEW r \in Requests, Verify(r) PROVE [Next]_vars /\ [TheftNext]_theftVars
    BY <1>1 DEF Verify, Next, Step, Record
<1>2. ASSUME NEW r \in Requests, CallHook(r) PROVE [Next]_vars /\ [TheftNext]_theftVars
    BY <1>2, CompositionAssumption DEF CallHook, TheftNext
<1>3. ASSUME NEW p \in Reporters, Serve(p) PROVE [Next]_vars /\ [TheftNext]_theftVars
    BY <1>3 DEF Serve, TheftNext
<1>4. ASSUME NEW r \in Requests, Answer(r) PROVE [Next]_vars /\ [TheftNext]_theftVars
    BY <1>4 DEF Answer, Next, Step
<1>5. CASE TouchscreenReport
    BY <1>5, CompositionAssumption DEF TouchscreenReport, TheftNext
<1>6. CASE TimePasses
    BY <1>6 DEF TimePasses, Next
<1>7. CASE Restart
    BY <1>7 DEF Restart, Next, TheftNext
<1>8. CASE UNCHANGED allVars
    BY <1>8 DEF allVars
<1> QED
    BY <1>1, <1>2, <1>3, <1>4, <1>5, <1>6, <1>7, <1>8, CompositionAssumption
       DEF ProtectionNext, VerifierNext

LEMMA VerifierIsProtection == [VerifierNext]_allVars => [ProtectionNext]_allVars
BY DEF ProtectionNext

LEMMA ArmedTheft == ArmedInit => TheftInv
<1> SUFFICES ASSUME ArmedInit PROVE TheftInv
    OBVIOUS
<1>1. TheftTypeOK
    <2>1. read \in [Reporters -> Snapshot]
        BY BlankTyped DEF ArmedInit
    <2>2. /\ threshold \in Thresholds /\ action \in Actions /\ lastKind \in Actions \cup {None}
          /\ total \in 0..Ceiling /\ since \in 0..Ceiling
        BY AntiTheftAssumption DEF ArmedInit, Actions
    <2> QED
        BY <2>1, <2>2 DEF ArmedInit, TheftTypeOK
<1>2. TriedInOrder /\ WipeComplete
    BY DEF ArmedInit, TriedInOrder, WipeComplete
<1> QED
    BY <1>1, <1>2 DEF TheftInv

\* The wiring of main.py adds no behaviour to the verifier and keeps what was proved of the
\* service alone, with the touchscreen reporting beside the requests.
THEOREM ProtectionImplements ==
    ProtectionSpec => Spec /\ [][TheftNext]_theftVars /\ []TheftTypeOK /\ []WipeComplete
<1>1. ArmedInit => Init /\ TheftInv
    BY ArmedTheft DEF ArmedInit
<1>2. TheftInv /\ [TheftNext]_theftVars => TheftInv'
    BY TheftTypeStep, WipeKept DEF TheftInv
<1>3. TheftInv => TheftTypeOK /\ WipeComplete
    BY DEF TheftInv
<1> QED
    BY <1>1, <1>2, <1>3, ProtectionIsNext, PTL DEF ProtectionSpec, Spec

(***************************************************************************)
(* One verification at a time, up to the autonomous mode                   *)
(***************************************************************************)

\* The mismatch of r is recorded, the counter does not know it yet.
Pending(r) == pc[r] = "hookFailure" /\ (~hooked[r] \/ at[r] = "failure")

\* The service works for r only while r waits for its hook.
HookedForService(r) ==
    /\ hooked \in [Requests -> BOOLEAN]
    /\ at[r] # "idle" => hooked[r]
    /\ hooked[r] => pc[r] \in {"hookFailure", "hookSuccess"}
    /\ at[r] = "failure" => pc[r] = "hookFailure"

\* The service stays armed with its first threshold, and a report knows it.
ArmedThroughout(r) ==
    /\ present /\ armed /\ threshold = DefaultThreshold
    /\ at[r] \in Waiting =>
           read[r].present /\ read[r].armed /\ read[r].threshold = DefaultThreshold

GuessInv(r) ==
    /\ TypeOK /\ SoloInv(r) /\ HookedForService(r) /\ ArmedThroughout(r)
    /\ guesses = total + lost + (IF Pending(r) THEN 1 ELSE 0)
    /\ total < DefaultThreshold
    /\ lost \in 0..MaxLost

LEMMA VerifierIsSolo ==
    ASSUME NEW r \in Requests, Requests = {r}, [VerifierNext]_allVars
    PROVE  r \in Reporters /\ [SoloNext(r)]_theftVars
BY CompositionAssumption
   DEF VerifierNext, Verify, CallHook, Serve, Answer, TimePasses, Restart, allVars, SoloNext

LEMMA GuessesBelow ==
    ASSUME total \in 0..Ceiling, total < DefaultThreshold, lost \in 0..MaxLost
    PROVE  total + lost < Ceiling + MaxLost /\ total + lost \in Nat
<1>1. total < Ceiling /\ lost <= MaxLost
    BY AntiTheftAssumption
<1>2. total \in Nat /\ lost \in Nat /\ Ceiling \in Nat /\ MaxLost \in Nat
    BY AntiTheftAssumption, CompositionAssumption
<1> QED
    BY <1>1, <1>2

\* Below the ceiling nothing saturates.
LEMMA CountBelow ==
    ASSUME total \in 0..Ceiling, total < DefaultThreshold
    PROVE  UpTo(total + 1) = total + 1
<1>1. total + 1 <= Ceiling
    BY AntiTheftAssumption
<1> QED
    BY <1>1, AntiTheftAssumption DEF UpTo

LEMMA GuessInit ==
    ASSUME ArmedInit, NEW r \in Requests
    PROVE  GuessInv(r)
<1>1. TypeOK /\ r \in Reporters
    BY InitType, CompositionAssumption DEF ArmedInit
<1>2. SoloInv(r)
    BY <1>1, ArmedTheft DEF ArmedInit, TheftInv, SoloInv, ReadCurrent, CountExact, Waiting
<1>3. HookedForService(r) /\ ArmedThroughout(r) /\ ~Pending(r)
    BY <1>1 DEF ArmedInit, Init, HookedForService, ArmedThroughout, Pending, Waiting
<1>4. guesses = total + lost /\ total < DefaultThreshold /\ lost \in 0..MaxLost
    BY AntiTheftAssumption, CompositionAssumption DEF ArmedInit
<1> QED
    BY <1>1, <1>2, <1>3, <1>4 DEF GuessInv

\* A report of r knows the counter and the policy when it commits.
LEMMA ReportKnows ==
    ASSUME NEW r \in Requests, Requests = {r}, GuessInv(r), CommitReport(r)
    PROVE  /\ read[r].total = total /\ total \in 0..Ceiling
           /\ Trips(r) <=> total + 1 >= DefaultThreshold
<1>1. /\ read[r].total = total /\ total \in 0..Ceiling
      /\ Trips(r) <=> UpTo(total + 1) >= DefaultThreshold
    BY CompositionAssumption
       DEF CommitReport, GuessInv, SoloInv, ReadCurrent, ArmedThroughout, TheftTypeOK, Waiting, Trips
<1>2. total < DefaultThreshold
    BY DEF GuessInv
<1> QED
    BY <1>1, <1>2, CountBelow

\* The lost reports of the only request.
LEMMA UncountedAlone ==
    ASSUME NEW r \in Requests, Requests = {r}
    PROVE  Cardinality(Uncounted) = IF Pending(r) THEN 1 ELSE 0
<1>1. CASE Pending(r)
    <2>1. Uncounted = {r}
        BY <1>1 DEF Uncounted, Pending
    <2> QED
        BY <1>1, <2>1, FS_Singleton
<1>2. CASE ~Pending(r)
    <2>1. Uncounted = {}
        BY <1>2 DEF Uncounted, Pending
    <2> QED
        BY <1>2, <2>1, FS_EmptySet
<1> QED
    BY <1>1, <1>2

\* What the history of guesses owes to the counter, across one step.
Kept(r) ==
    /\ HookedForService(r)' /\ ArmedThroughout(r)'
    /\ guesses' = total' + lost' + (IF Pending(r)' THEN 1 ELSE 0)
    /\ total' < DefaultThreshold
    /\ lost' \in 0..MaxLost

\* Recording the outcome adds a guess the counter does not know yet.
LEMMA VerifyKeeps ==
    ASSUME NEW r \in Requests, Requests = {r}, GuessInv(r), TypeOK', Verify(r)
    PROVE  Kept(r)
<1> USE AntiTheftAssumption, CompositionAssumption
    DEF GuessInv, HookedForService, ArmedThroughout, Pending, Waiting, Kept
<1>1. total \in 0..Ceiling
    BY DEF SoloInv, TheftTypeOK
<1>2. pc[r] \notin {"hookFailure", "hookSuccess"}
    BY DEF Verify, Submit, CompareFails, RecordFails, Compared, CommitFailure, CommitSuccess,
           Recording
<1>3. ~hooked[r] /\ at[r] = "idle" /\ guesses = total + lost
    BY <1>1, <1>2
<1>4. UNCHANGED <<at, read, present, armed, threshold, total, hooked, lost>>
    BY DEF Verify, theftVars, policy
<1>5. guesses' = IF pc'[r] = "hookFailure" THEN AtMost(guesses + 1, Ceiling + MaxLost) ELSE guesses
    BY DEF Verify
<1>6. guesses < Ceiling + MaxLost
    BY <1>1, <1>3, GuessesBelow
<1>7. guesses' = IF pc'[r] = "hookFailure" THEN guesses + 1 ELSE guesses
    BY <1>1, <1>3, <1>5, <1>6 DEF AtMost
<1> QED
    BY <1>1, <1>3, <1>4, <1>7

\* Calling the hook only reads.
LEMMA CallKeeps ==
    ASSUME NEW r \in Requests, Requests = {r}, GuessInv(r), CallHook(r)
    PROVE  Kept(r)
<1> USE CompositionAssumption
    DEF GuessInv, HookedForService, ArmedThroughout, Pending, Waiting, Kept
<1>1. /\ at \in [Reporters -> {"idle", "wipe", "note"} \cup Waiting]
      /\ read \in [Reporters -> Snapshot]
    BY DEF SoloInv, TheftTypeOK
<1>2. /\ pc[r] \in {"hookFailure", "hookSuccess"} /\ ~hooked[r] /\ at[r] = "idle"
      /\ UNCHANGED <<pc, present, armed, threshold, total, guesses, lost>>
      /\ hooked' = [hooked EXCEPT ![r] = TRUE]
    BY DEF CallHook, vars, ReportFailure, ReportSuccess, ReadRow, policy, theftVars
<1>3. CASE pc[r] = "hookFailure" /\ ReportFailure(r)
    BY <1>1, <1>2, <1>3 DEF ReportFailure, ReadRow, Move
<1>4. CASE pc[r] = "hookSuccess" /\ ReportSuccess(r)
    BY <1>1, <1>2, <1>4 DEF ReportSuccess, ReadRow, Move
<1>5. CASE pc[r] = "hookSuccess" /\ UNCHANGED theftVars
    BY <1>2, <1>5 DEF theftVars
<1> QED
    BY <1>3, <1>4, <1>5 DEF CallHook

\* A report is counted, clears the run of guesses, or is lost.
LEMMA ServeKeeps ==
    ASSUME NEW r \in Requests, Requests = {r}, GuessInv(r), Serve(r)
    PROVE  Kept(r)
<1> USE AntiTheftAssumption, CompositionAssumption
    DEF GuessInv, HookedForService, ArmedThroughout, Pending, Waiting, Kept
<1>1. /\ at \in [Reporters -> {"idle", "wipe", "note"} \cup Waiting]
      /\ total \in 0..Ceiling
      /\ Ceiling \in Nat /\ DefaultThreshold \in 1..Ceiling
    BY DEF SoloInv, TheftTypeOK
<1>2. UNCHANGED <<pc, hooked>>
    BY DEF Serve, vars
<1>3. CASE CommitReport(r)
    <2>1. /\ at[r] = "failure" /\ hooked[r] /\ guesses = total + lost + 1
          /\ ~CommitClear(r)
        BY <1>1, <1>3 DEF CommitReport, CommitClear
    <2>2. UNCHANGED <<armed, threshold>> /\ present'
        BY <1>3 DEF CommitReport, policy
    <2>3. read[r].total = total
        BY <1>3, ReportKnows
    <2>4. CASE Trips(r)
        <3>1. total' = IF read[r].total = 0 THEN total ELSE 0
            BY <1>3, <2>4 DEF CommitReport
        <3>2. at' = [at EXCEPT ![r] = IF read[r].action = "alert" THEN "note" ELSE "wipe"]
            BY <1>3, <2>4 DEF CommitReport, StartAction, Move
        <3>3. total' = 0 /\ at'[r] \in {"note", "wipe"}
            BY <1>1, <2>3, <3>1, <3>2
        <3>4. guesses' = 0 /\ lost' = 0
            BY <2>1, <3>3 DEF Serve, EndsRun
        <3> QED
            BY <1>1, <1>2, <2>1, <2>2, <3>3, <3>4
    <2>5. CASE ~Trips(r)
        <3>1. total + 1 < DefaultThreshold
            BY <1>1, <1>3, <2>5, ReportKnows
        <3>2. total' = UpTo(read[r].total + 1) /\ at' = [at EXCEPT ![r] = "idle"]
            BY <1>3, <2>5 DEF CommitReport, Done, Move
        <3>3. total' = total + 1 /\ at'[r] = "idle"
            BY <1>1, <2>3, <3>1, <3>2, CountBelow
        <3>4. ~HookRaises(r)
            <4>1. total' # total
                BY <1>1, <3>3
            <4> QED
                BY <4>1 DEF HookRaises
        <3>5. guesses' = guesses /\ lost' = lost
            BY <2>1, <3>3, <3>4 DEF Serve, EndsRun
        <3> QED
            BY <1>1, <1>2, <2>1, <2>2, <3>1, <3>3, <3>5
    <2> QED
        BY <2>4, <2>5
<1>4. CASE CommitClear(r)
    <2>1. total' = 0 /\ guesses' = 0 /\ lost' = 0 /\ at'[r] = "idle"
        BY <1>1, <1>4 DEF Serve, EndsRun, CommitClear, Done, Move
    <2>2. hooked[r] /\ UNCHANGED <<present, armed, threshold>>
        BY <1>4 DEF CommitClear, policy
    <2> QED
        BY <1>1, <1>2, <2>1, <2>2
<1>5. CASE HookRaises(r) /\ ~CommitClear(r)
    <2>1. /\ at[r] \in Waiting /\ hooked[r] /\ at'[r] = "idle"
          /\ UNCHANGED <<present, armed, threshold, total>>
        BY <1>1, <1>5 DEF HookRaises, Done, Move, policy
    <2>2. r \in Uncounted <=> Pending(r)
        BY DEF Uncounted
    <2>3. guesses' = guesses
        BY <1>5, <2>1 DEF Serve, EndsRun
    <2>4. CASE Pending(r)
        <3>1. lost < MaxLost /\ lost' = lost + 1
            BY <1>5, <2>1, <2>2, <2>4 DEF Serve, EndsRun
        <3> QED
            BY <1>1, <1>2, <2>1, <2>3, <2>4, <3>1
    <2>5. CASE ~Pending(r)
        <3>1. lost' = lost
            BY <1>5, <2>1, <2>2, <2>5 DEF Serve, EndsRun
        <3> QED
            BY <1>1, <1>2, <2>1, <2>3, <2>5, <3>1
    <2> QED
        BY <2>4, <2>5
<1>6. ASSUME \/ WipeAborted(r) \/ WriteNote(r)
             \/ \E step \in WipeSteps, ok \in BOOLEAN : WipeStep(r, step, ok)
      PROVE  Kept(r)
    <2>1. /\ at[r] \in {"wipe", "note"} /\ at'[r] \in {"idle", "wipe", "note"}
          /\ UNCHANGED <<present, armed, threshold, total>>
        BY <1>1, <1>6 DEF WipeAborted, WriteNote, WipeStep, Done, Move, policy
    <2>2. guesses' = guesses /\ lost' = lost
        BY <2>1 DEF Serve, EndsRun, CommitClear, HookRaises
    <2> QED
        BY <1>1, <1>2, <2>1, <2>2
<1> QED
    BY <1>3, <1>4, <1>5, <1>6 DEF Serve, Proceed

\* A restart forgets the report it cuts off.
LEMMA RestartKeeps ==
    ASSUME NEW r \in Requests, Requests = {r}, GuessInv(r), Restart
    PROVE  Kept(r)
<1> USE CompositionAssumption
    DEF GuessInv, HookedForService, ArmedThroughout, Pending, Waiting, Kept
<1>1. total \in 0..Ceiling
    BY DEF SoloInv, TheftTypeOK
<1>2. /\ pc'[r] = "idle" /\ at'[r] = "idle" /\ hooked' = [q \in Requests |-> FALSE]
      /\ UNCHANGED <<present, armed, threshold, total, guesses>>
    BY DEF Restart, Stop, Crash, policy
<1>3. Cardinality(Uncounted) = IF Pending(r) THEN 1 ELSE 0
    BY UncountedAlone
<1>4. lost + Cardinality(Uncounted) <= MaxLost /\ lost' = lost + Cardinality(Uncounted)
    BY DEF Restart
<1> QED
    BY <1>1, <1>2, <1>3, <1>4, AntiTheftAssumption

LEMMA GuessStep ==
    ASSUME NEW r \in Requests, Requests = {r}, GuessInv(r), [VerifierNext]_allVars
    PROVE  GuessInv(r)'
<1>1. TypeOK'
    BY TypeStep, VerifierIsProtection, ProtectionIsNext DEF GuessInv
<1>2. SoloInv(r)'
    BY VerifierIsSolo, SoloStep DEF GuessInv
<1>3. Kept(r)
    <2> USE DEF GuessInv, HookedForService, ArmedThroughout, Pending, Waiting, Kept
    <2>1. CASE Verify(r) \/ CallHook(r) \/ Serve(r) \/ Restart
        BY <1>1, <2>1, VerifyKeeps, CallKeeps, ServeKeeps, RestartKeeps
    <2>2. CASE Answer(r)
        <3>1. /\ hooked[r] /\ at[r] = "idle" /\ pc' = [pc EXCEPT ![r] = "idle"]
              /\ hooked' = [hooked EXCEPT ![r] = FALSE]
              /\ UNCHANGED <<at, read, present, armed, threshold, total, guesses, lost>>
            BY <2>2 DEF Answer, HookReturns, Goto, theftVars, policy
        <3>2. pc \in [Requests -> {"idle", "compare", "hookFailure", "hookSuccess"} \cup Recording]
            BY DEF TypeOK
        <3> QED
            BY <3>1, <3>2
    <2>3. CASE TimePasses \/ UNCHANGED allVars
        <3>1. UNCHANGED <<pc, at, read, present, armed, threshold, total, hooked, guesses, lost>>
            BY <2>3 DEF TimePasses, Tick, allVars, vars, theftVars, policy
        <3> QED
            BY <3>1
    <2> QED
        BY <2>1, <2>2, <2>3 DEF VerifierNext
<1> QED
    BY <1>1, <1>2, <1>3 DEF GuessInv, Kept

\* db/models.py:1085-1089: the counter "only resets on a successful PIN verification, never
\* on the 60s rolling lockout window": for any threshold, any lockout and any patience,
\* fewer wrong guesses than the threshold are answered before the armed action fires, and
\* one more for each report that raised or that a restart cut off.
THEOREM GuessesStayBounded ==
    ASSUME NEW r \in Requests, Requests = {r}
    PROVE  VerifierSpec => []GuessesBounded
<1>1. ArmedInit => GuessInv(r)
    BY GuessInit
<1>2. GuessInv(r) /\ [VerifierNext]_allVars => GuessInv(r)'
    BY GuessStep
<1>3. GuessInv(r) => GuessesBounded
    <2> SUFFICES ASSUME GuessInv(r), ~hooked[r], pc[r] = "idle"
                 PROVE  guesses < threshold + lost
        BY DEF GuessesBounded
    <2>1. ~Pending(r)
        BY DEF Pending
    <2>2. guesses = total + lost + 0 /\ total < threshold /\ threshold = DefaultThreshold
        BY <2>1 DEF GuessInv, ArmedThroughout
    <2>3. total \in Nat /\ lost \in Nat /\ threshold \in Nat
        BY <2>2, AntiTheftAssumption, CompositionAssumption DEF GuessInv, SoloInv, TheftTypeOK
    <2> QED
        BY <2>2, <2>3
<1> QED
    BY <1>1, <1>2, <1>3, PTL DEF VerifierSpec

\* What holds of the verifier and of the service for one user at a time holds of the two as
\* they are wired: locks and actions come exactly when they are due.
THEOREM VerifierIsExact ==
    ASSUME NEW r \in Requests, Requests = {r}, Lockout > Window
    PROVE  VerifierSpec => []ThreeFailuresLock /\ LockEarned /\ []CountExact /\ FireEarned
<1>1. OneRequest
    BY DEF OneRequest
<1>2. VerifierSpec => Spec
    BY VerifierIsProtection, ProtectionIsNext, PTL DEF VerifierSpec, ArmedInit, Spec
<1>3. VerifierSpec => []ThreeFailuresLock /\ LockEarned
    BY <1>1, <1>2, FailuresLock, LocksAreEarned
<1>4. ArmedInit => GuessInv(r)
    BY GuessInit
<1>5. GuessInv(r) /\ [VerifierNext]_allVars => GuessInv(r)'
    BY GuessStep
<1>6. GuessInv(r) => CountExact
    BY DEF GuessInv, SoloInv
<1>7. GuessInv(r) /\ [VerifierNext]_allVars
      => [\A p \in Reporters :
             at[p] = "failure" /\ at'[p] \in {"wipe", "note"}
                 => since + 1 >= read[p].threshold]_theftVars
    BY VerifierIsSolo, SoloFires DEF GuessInv
<1>8. FireEarned
      <=> [][\A p \in Reporters :
                at[p] = "failure" /\ at'[p] \in {"wipe", "note"}
                    => since + 1 >= read[p].threshold]_theftVars
    BY DEF FireEarned
<1> QED
    BY <1>3, <1>4, <1>5, <1>6, <1>7, <1>8, PTL DEF VerifierSpec

=============================================================================
