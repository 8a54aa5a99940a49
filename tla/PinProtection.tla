--------------------------- MODULE PinProtection ---------------------------
(***************************************************************************)
(* The PIN verifier with the autonomous mode behind it, as main.py wires   *)
(* them: every outcome a request records in the lockout row is forwarded,  *)
(* once that row is committed, to the anti-theft service.  The touchscreen *)
(* watcher is a second source of failures for the same counter.            *)
(*                                                                         *)
(* A hook that raises is logged and forgotten, and a restart between the   *)
(* two commits forgets it too: up to MaxLost mismatches in a row of guesses*)
(* never reach the counter.  The policy is armed from the start and left   *)
(* alone.                                                                  *)
(***************************************************************************)
EXTENDS PinLockout, AntiTheft

CONSTANTS
    Touchscreen,   \* the watcher, a reporter that is no request
    MaxLost        \* bound: recorded mismatches the hook may lose in a run of guesses

ASSUME CompositionAssumption ==
    /\ MaxLost \in Nat
    /\ Touchscreen \notin Requests
    /\ Reporters = Requests \cup {Touchscreen}

VARIABLES
    hooked,    \* the request has called the anti-theft hook
    guesses,   \* history: mismatches recorded since the last success or action
    lost,      \* history: how many of them the service will never count
    owed       \* history: requests whose PIN matched while the counter was not
               \* zero, and that have not seen it at zero since

allVars == <<vars, theftVars, hooked, guesses, lost, owed>>

\* The counter at zero settles what a match was owed.
Settled(requests) == IF total' = 0 THEN {} ELSE requests

(***************************************************************************)
(* Steps                                                                   *)
(***************************************************************************)

\* The recorded mismatches the service has not counted yet.
Uncounted == {r \in Requests : pc[r] = "hookFailure" /\ (~hooked[r] \/ at[r] = "failure")}

\* The verifier up to the commit of the outcome; a mismatch is one more guess.
Verify(r) ==
    /\ \/ Submit(r) \/ CompareFails(r) \/ RecordFails(r)
       \/ \E outcome \in Recording : Compared(r, outcome)
       \/ CommitFailure(r) \/ CommitSuccess(r)
    /\ guesses' = IF pc'[r] = "hookFailure"
                  THEN AtMost(guesses + 1, Ceiling + MaxLost) ELSE guesses
    /\ UNCHANGED <<theftVars, hooked, lost>>
    /\ owed' = Settled(IF Compared(r, "success") THEN owed \cup {r} ELSE owed)

\* record_failure and record_success call the service after their commit; a
\* success finds nothing to clear in a counter at zero.
CallHook(r) ==
    /\ pc[r] \in {"hookFailure", "hookSuccess"}
    /\ ~hooked[r]
    /\ hooked' = [hooked EXCEPT ![r] = TRUE]
    /\ \/ pc[r] = "hookFailure" /\ ReportFailure(r)
       \/ pc[r] = "hookSuccess" /\ ReportSuccess(r)
       \/ pc[r] = "hookSuccess" /\ total = 0 /\ UNCHANGED theftVars
    /\ UNCHANGED <<vars, guesses, lost, owed>>

\* A cleared counter or an action ends the run of guesses.
EndsRun(p) == CommitClear(p) \/ (at[p] = "failure" /\ at'[p] # "idle")

\* The service works on a report.
Serve(p) ==
    /\ Proceed(p)
    /\ HookRaises(p) /\ p \in Uncounted => lost < MaxLost
    /\ guesses' = IF EndsRun(p) THEN 0 ELSE guesses
    /\ lost' = IF EndsRun(p) THEN 0
               ELSE IF HookRaises(p) /\ p \in Uncounted THEN lost + 1 ELSE lost
    /\ owed' = Settled(owed)
    /\ UNCHANGED <<vars, hooked>>

Answer(r) ==
    /\ hooked[r]
    /\ at[r] = "idle"
    /\ HookReturns(r)
    /\ hooked' = [hooked EXCEPT ![r] = FALSE]
    /\ UNCHANGED <<theftVars, guesses, lost, owed>>

\* The watcher sees a failure, or the touchscreen unlocked.
TouchscreenReport ==
    /\ ReportFailure(Touchscreen) \/ ReportSuccess(Touchscreen)
    /\ UNCHANGED <<vars, hooked, guesses, lost, owed>>

\* The controller stops; a mismatch between the two commits is never counted, and a
\* request that is not answered is owed nothing.
Restart ==
    /\ Stop
    /\ Crash
    /\ lost + Cardinality(Uncounted) <= MaxLost
    /\ lost' = lost + Cardinality(Uncounted)
    /\ hooked' = [r \in Requests |-> FALSE]
    /\ owed' = {}
    /\ UNCHANGED guesses

TimePasses ==
    /\ Tick
    /\ UNCHANGED <<theftVars, hooked, guesses, lost, owed>>

(***************************************************************************)
(* Specification                                                           *)
(***************************************************************************)
\* upsert armed the service before the first request.
ArmedInit ==
    /\ Init
    /\ at = [p \in Reporters |-> "idle"]
    /\ read = [p \in Reporters |-> Blank]
    /\ present = TRUE
    /\ armed = TRUE
    /\ threshold = DefaultThreshold
    /\ action = "soft_wipe"
    /\ total = 0
    /\ lastKind = None
    /\ tried = [p \in Reporters |-> {}]
    /\ wiped = {}
    /\ since = 0
    /\ hooked = [r \in Requests |-> FALSE]
    /\ guesses = 0
    /\ lost = 0
    /\ owed = {}

VerifierNext ==
    \/ \E r \in Requests : Verify(r) \/ CallHook(r) \/ Serve(r) \/ Answer(r)
    \/ TimePasses
    \/ Restart

ProtectionNext ==
    \/ VerifierNext
    \/ TouchscreenReport
    \/ Serve(Touchscreen)

\* The verifier alone, and with the touchscreen.
VerifierSpec == ArmedInit /\ [][VerifierNext]_allVars
ProtectionSpec == ArmedInit /\ [][ProtectionNext]_allVars

(***************************************************************************)
(* Properties                                                              *)
(***************************************************************************)

\* db/models.py:1085-1089: the counter "only resets on a successful PIN verification,
\* never on the 60s rolling lockout window": someone who patiently sits out every
\* lockout still gets fewer wrong guesses than the threshold before the armed
\* action fires, and one more for every mismatch whose hook raised
\* (pin_lockout.py:135-139) or was cut off by a restart.  (One request at a time.)
GuessesBounded ==
    \A r \in Requests : ~hooked[r] /\ pc[r] = "idle" => guesses < threshold + lost

\* pin_lockout.py:160-161: "Successful verification clears the autonomous-mode
\* cumulative counter too": once a request with the right PIN is answered, the
\* counter has been at zero, whatever the touchscreen had reported before.
SuccessClearsCounter == \A r \in Requests : pc[r] = "idle" => r \notin owed
=============================================================================
