----------------------------- MODULE PinLockout -----------------------------
(***************************************************************************)
(* The PIN verifier of one (device, scope): app/security/pin_lockout.py as *)
(* driven by POST /api/slate/screen-lock/verify (app/api/routes/slate.py). *)
(*                                                                         *)
(* A request checks the lock in one database session, compares the PIN     *)
(* over SSH, and records the outcome in a second session.  That session    *)
(* SELECTs the row and UPDATEs it later: SQLite starts its transaction at  *)
(* the UPDATE, which names only the columns whose value the ORM object     *)
(* changed, so requests can interleave between the two.                    *)
(*                                                                         *)
(* Time runs in ticks.  A recording (SELECT to COMMIT) fits in one tick;   *)
(* the SSH comparison may take any number.  Instants are kept relative to  *)
(* now: the age of last_attempt_at, saturating one past the window, and    *)
(* the rest of locked_until.  failed_count saturates at MaxFailures, it is *)
(* only compared with ">=".  record_failure takes its now just before the  *)
(* SELECT; here it counts as the instant of the commit, less than a tick   *)
(* later: what two locks of one tick differ by is not told apart.          *)
(***************************************************************************)
EXTENDS Naturals, FiniteSets

CONSTANTS
    Requests,     \* concurrent verify requests
    MaxFailures,  \* MAX_FAILURES
    Lockout,      \* LOCKOUT_S, in ticks
    Window        \* WINDOW_S, in ticks

ASSUME LockoutAssumption ==
    /\ MaxFailures \in Nat \ {0}
    /\ Lockout \in Nat \ {0}
    /\ Window \in Nat \ {0}

VARIABLES
    pc,         \* where each request is
    seen,       \* the row as a recording request SELECTed it
    exists,     \* the row is in the table
    count,      \* failed_count
    age,        \* ticks since last_attempt_at
    lockLeft,   \* ticks until locked_until, 0 when it is NULL or past
    lockSet,    \* locked_until is not NULL
    streak      \* history: mismatches recorded that the rules hold against the user

row == <<exists, count, age, lockLeft, lockSet>>
vars == <<pc, seen, row, streak>>

Stale == Window + 1
NoRow == [exists |-> FALSE, count |-> 0, stale |-> FALSE, lockSet |-> FALSE]

AtMost(n, bound) == IF n < bound THEN n ELSE bound
Goto(r, place) == pc' = [pc EXCEPT ![r] = place]

Recording == {"failure", "success"}

(***************************************************************************)
(* Requests                                                                *)
(***************************************************************************)

\* Faulty variant: the verifier does not ask for the lock.
SubmitUnchecked(r) ==
    /\ pc[r] = "idle"
    /\ Goto(r, "compare")
    /\ UNCHANGED <<seen, row, streak>>

\* check_or_raise lets the request through; a locked row answers 423 and changes
\* nothing.
Submit(r) ==
    /\ pc[r] = "idle"
    /\ lockLeft = 0
    /\ Goto(r, "compare")
    /\ UNCHANGED <<seen, row, streak>>

\* The router cannot be asked: 502, the try is not burnt.
CompareFails(r) ==
    /\ pc[r] = "compare"
    /\ Goto(r, "idle")
    /\ UNCHANGED <<seen, row, streak>>

\* The comparison answered; record_failure or record_success SELECTs the row.  A
\* success without a row has nothing to reset, not even in the anti-theft counter.
Compared(r, outcome) ==
    /\ pc[r] = "compare"
    /\ IF outcome = "success" /\ ~exists
       THEN Goto(r, "idle") /\ UNCHANGED seen
       ELSE /\ Goto(r, outcome)
            /\ seen' = [seen EXCEPT ![r] =
                   [exists |-> exists, count |-> count,
                    stale |-> age = Stale, lockSet |-> lockSet]]
    /\ UNCHANGED <<row, streak>>

\* The commit raises and nothing is written: the row another request inserted
\* meanwhile violates the unique constraint, or the database refuses.
RecordFails(r) ==
    /\ pc[r] \in Recording
    /\ Goto(r, "idle")
    /\ seen' = [seen EXCEPT ![r] = NoRow]
    /\ UNCHANGED <<row, streak>>

\* The count a failure writes: a fresh streak after the window, else one more.
NewCount(r) == IF seen[r].stale THEN 1 ELSE AtMost(seen[r].count + 1, MaxFailures)

\* Faulty variant: the threshold is compared with the count before the increment.
LockLate(r) ==
    /\ pc[r] = "failure"
    /\ seen[r].exists \/ ~exists
    /\ exists' = TRUE
    /\ count' = NewCount(r)
    /\ age' = 0
    /\ IF seen[r].count >= MaxFailures
       THEN lockLeft' = Lockout /\ lockSet' = TRUE
       ELSE UNCHANGED <<lockLeft, lockSet>>
    /\ streak' = IF age = Stale THEN 1 ELSE AtMost(streak + 1, MaxFailures)
    /\ Goto(r, "hookFailure")
    /\ seen' = [seen EXCEPT ![r] = NoRow]

\* Faulty variant: the UPDATE names every column of the row.
WriteWholeRow(r) ==
    /\ pc[r] = "failure"
    /\ seen[r].exists \/ ~exists
    /\ exists' = TRUE
    /\ count' = NewCount(r)
    /\ age' = 0
    /\ lockLeft' = IF NewCount(r) >= MaxFailures THEN Lockout ELSE 0
    /\ lockSet' = (lockLeft' > 0)
    /\ streak' = IF age = Stale THEN 1 ELSE AtMost(streak + 1, MaxFailures)
    /\ Goto(r, "hookFailure")
    /\ seen' = [seen EXCEPT ![r] = NoRow]

\* record_failure commits; the anti-theft hook is called next.  A stale streak of
\* one leaves failed_count as it was read, so the UPDATE does not name it.
CommitFailure(r) ==
    /\ pc[r] = "failure"
    /\ seen[r].exists \/ ~exists
    /\ exists' = TRUE
    /\ count' = IF seen[r].stale /\ seen[r].count = 1 THEN count ELSE NewCount(r)
    /\ age' = 0
    /\ IF NewCount(r) >= MaxFailures
       THEN lockLeft' = Lockout /\ lockSet' = TRUE
       ELSE UNCHANGED <<lockLeft, lockSet>>
    /\ streak' = IF age = Stale THEN 1 ELSE AtMost(streak + 1, MaxFailures)
    /\ Goto(r, "hookFailure")
    /\ seen' = [seen EXCEPT ![r] = NoRow]

\* Faulty variant: the success forgets failed_count.
UnlockOnly(r) ==
    /\ pc[r] = "success"
    /\ lockLeft' = 0
    /\ lockSet' = FALSE
    /\ age' = 0
    /\ streak' = 0
    /\ Goto(r, "hookSuccess")
    /\ seen' = [seen EXCEPT ![r] = NoRow]
    /\ UNCHANGED <<exists, count>>

\* record_success commits the columns that differ from what it read.
CommitSuccess(r) ==
    /\ pc[r] = "success"
    /\ count' = IF seen[r].count = 0 THEN count ELSE 0
    /\ IF seen[r].lockSet
       THEN lockLeft' = 0 /\ lockSet' = FALSE
       ELSE UNCHANGED <<lockLeft, lockSet>>
    /\ age' = 0
    /\ streak' = 0
    /\ Goto(r, "hookSuccess")
    /\ seen' = [seen EXCEPT ![r] = NoRow]
    /\ UNCHANGED exists

\* The anti-theft hook returned or raised; the route answers.
HookReturns(r) ==
    /\ pc[r] \in {"hookFailure", "hookSuccess"}
    /\ Goto(r, "idle")
    /\ UNCHANGED <<seen, row, streak>>

\* The controller stops: the requests are gone, the row is on disk.
Stop ==
    /\ pc' = [r \in Requests |-> "idle"]
    /\ seen' = [r \in Requests |-> NoRow]
    /\ UNCHANGED <<row, streak>>

(***************************************************************************)
(* Time                                                                    *)
(***************************************************************************)

\* Faulty variant: the remaining time is not cut off at zero.
TickBelowZero ==
    /\ \A r \in Requests : pc[r] \notin Recording
    /\ age' = AtMost(age + 1, Stale)
    /\ lockLeft' = IF lockSet THEN lockLeft - 1 ELSE lockLeft
    /\ streak' = IF lockLeft = 1 THEN 0 ELSE streak
    /\ UNCHANGED <<pc, seen, exists, count, lockSet>>

\* A recording is never cut in two by a tick.  The history forgets a streak when
\* its lock has run out: the tries it allowed have been paid for.
Tick ==
    /\ \A r \in Requests : pc[r] \notin Recording
    /\ age' = AtMost(age + 1, Stale)
    /\ lockLeft' = IF lockLeft > 0 THEN lockLeft - 1 ELSE 0
    /\ streak' = IF lockLeft = 1 THEN 0 ELSE streak
    /\ UNCHANGED <<pc, seen, exists, count, lockSet>>

(***************************************************************************)
(* Specification                                                           *)
(***************************************************************************)
Init ==
    /\ pc = [r \in Requests |-> "idle"]
    /\ seen = [r \in Requests |-> NoRow]
    /\ exists = FALSE
    /\ count = 0
    /\ age = Stale
    /\ lockLeft = 0
    /\ lockSet = FALSE
    /\ streak = 0

Record(r) == RecordFails(r) \/ CommitFailure(r) \/ CommitSuccess(r)

Step(r) ==
    \/ CompareFails(r)
    \/ \E outcome \in Recording : Compared(r, outcome)
    \/ Record(r)
    \/ HookReturns(r)

Next ==
    \/ \E r \in Requests : Submit(r) \/ Step(r)
    \/ Tick
    \/ Stop

Spec == Init /\ [][Next]_vars

\* SSH commands and database sessions are bounded by their timeouts, and time
\* passes; nobody has to submit a PIN.
FairSpec == Spec /\ WF_vars(Tick) /\ \A r \in Requests : WF_vars(Step(r))

(***************************************************************************)
(* Properties                                                              *)
(***************************************************************************)
Row == [exists : BOOLEAN, count : 0..MaxFailures, stale : BOOLEAN, lockSet : BOOLEAN]

TypeOK ==
    /\ pc \in [Requests -> {"idle", "compare", "hookFailure", "hookSuccess"} \cup Recording]
    /\ seen \in [Requests -> Row]
    /\ exists \in BOOLEAN
    /\ count \in 0..MaxFailures
    /\ age \in 0..Stale
    /\ lockLeft \in 0..Lockout
    /\ lockSet \in BOOLEAN
    /\ streak \in 0..MaxFailures

\* A failure that read an older row, and counts fewer failures than there were,
\* never shortens a lock another request has set meanwhile (pin_lockout.py:103-120),
\* to within the tick in which a recording takes its now and commits.
FailuresKeepLock ==
    [][\A r \in Requests :
          pc[r] = "failure" /\ pc'[r] # "failure" => lockLeft' >= lockLeft]_vars

\* The verifier always opens again: requests that were past the check when it
\* locked may lock it once more, but new ones are turned away (pin_lockout.py:84-101).
LockExpires == lockLeft > 0 ~> lockLeft = 0

\* pin_lockout.py:1-2: "3 failed attempts within a 60s window lock the PIN verifier
\* for 60s".
ThreeFailuresLock == streak = MaxFailures => lockLeft > 0

\* A lock is earned: only MaxFailures failures in a window, since the last success
\* (pin_lockout.py:143, "successful verification wipes prior failures") and since
\* the last lock, turn the user away.
LockEarned == [][lockLeft' > lockLeft => streak' = MaxFailures]_vars
=============================================================================
