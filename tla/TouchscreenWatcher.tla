------------------------- MODULE TouchscreenWatcher -------------------------
(***************************************************************************)
(* How wrong PINs typed on the router's touchscreen reach the cumulative   *)
(* counter of the autonomous mode: app/scheduler/screen_lock_watcher.py,   *)
(* fed by a poll over SSH and by the pushes of a sampler on the router.    *)
(*                                                                         *)
(* The firmware keeps two numbers, the errors of the current streak and,   *)
(* while the screen is locked, the errors that locked it.  A sample of     *)
(* them travels to the controller, is compared with the last sample the    *)
(* controller remembers, and every failure the comparison finds calls a    *)
(* hook that awaits the database; only then does the sample become the one *)
(* remembered.  Poll and pushes do not wait for each other, a status file  *)
(* that cannot be read looks like a clean one, and a restart forgets the   *)
(* last sample.                                                            *)
(***************************************************************************)
EXTENDS Integers

CONSTANTS
    Poll,          \* the poll job, of which one instance runs at a time
    Pushes,        \* pushes the controller may be working on at once
    StreakLimit,   \* wrong PINs in a row that make the firmware lock the screen
    MaxFailures,   \* bound: wrong PINs typed
    MaxUnlocks,    \* bound: right PINs typed
    MaxCounted     \* bound: reports counted, of each kind

ASSUME WatcherAssumption ==
    /\ Poll \notin Pushes
    /\ StreakLimit \in Nat \ {0}
    /\ MaxFailures \in Nat
    /\ MaxUnlocks \in Nat
    /\ MaxCounted \in Nat

VARIABLES
    screen,     \* the status file on the router
    cached,     \* the device is in the registry's cache
    snapshot,   \* the sample the controller remembers
    at,         \* where the work on a sample is
    sample,     \* the sample a poll or push carries
    todo,       \* failures still to be reported for that sample
    typed,      \* history: wrong PINs typed
    lockouts,   \* history: times the screen locked
    expiries,   \* history: lockouts that ran out
    unlocks,    \* history: right PINs typed
    reported,   \* history: failures reported for that sample
    counted,    \* history: failures reported because the streak rose
    charged,    \* history: failures reported because a lockout showed
    cleared,    \* history: successes reported
    orderly     \* history: one sample at a time, each of them read, no restart

router == <<screen, typed, lockouts, expiries, unlocks>>
work == <<at, sample, todo, reported>>
reports == <<counted, charged, cleared>>
vars == <<router, cached, snapshot, work, reports, orderly>>

\* Reports are counted as long as the run is orderly.
Up(n) == IF orderly /\ n < MaxCounted THEN n + 1 ELSE n

Tasks == {Poll} \cup Pushes
Clean == [errors |-> 0, exceed |-> 0]

IsClean(s) == s.errors = 0 /\ s.exceed = 0

\* Faulty variant: the difference of two counts, not cut off at zero.
Difference(from, to) == to - from

Rise(from, to) == IF to > from THEN to - from ELSE 0

\* Faulty variant: a count that falls is a change too.
AnyChange(old, new) ==
    Rise(old.errors, new.errors) + Rise(new.errors, old.errors)
        + Rise(old.exceed, new.exceed)

\* Faulty variant: only the streak is looked at.
StreakOnly(old, new) == Rise(old.errors, new.errors)

\* Failures between two samples: the rise of the streak and the rise of the errors
\* that locked the screen.
NewFailures(old, new) == Rise(old.errors, new.errors) + Rise(old.exceed, new.exceed)

\* Faulty variant: it does not matter what was there before.
ShowsClean(old, new) == IsClean(new)

\* The screen was unlocked: there were failures or lockouts, and now there are none.
Unlocked(old, new) == ~IsClean(old) /\ IsClean(new)

(***************************************************************************)
(* The firmware                                                            *)
(***************************************************************************)

\* While the screen is locked nothing can be typed.  The error that reaches the limit
\* locks it, and the count of the streak moves to the other number.
WrongPin ==
    /\ typed < MaxFailures
    /\ screen.exceed = 0
    /\ typed' = typed + 1
    /\ \/ /\ screen.errors + 1 < StreakLimit
          /\ screen' = [screen EXCEPT !.errors = @ + 1]
          /\ UNCHANGED lockouts
       \/ /\ screen.errors + 1 = StreakLimit
          /\ screen' = [errors |-> 0, exceed |-> StreakLimit]
          /\ lockouts' = lockouts + 1
    /\ UNCHANGED <<cached, snapshot, work, reports, expiries, unlocks, orderly>>

LockoutExpires ==
    /\ screen.exceed > 0
    /\ screen' = Clean
    /\ expiries' = expiries + 1
    /\ UNCHANGED <<cached, snapshot, work, reports, typed, lockouts, unlocks, orderly>>

RightPin ==
    /\ unlocks < MaxUnlocks
    /\ screen.exceed = 0
    /\ unlocks' = unlocks + 1
    /\ screen' = Clean
    /\ UNCHANGED <<cached, snapshot, work, reports, typed, lockouts, expiries, orderly>>

(***************************************************************************)
(* Samples on their way                                                    *)
(***************************************************************************)

\* The poll skips a device the registry has not built yet.
Sends(t, s) ==
    /\ at[t] = "idle"
    /\ t = Poll => cached
    /\ at' = [at EXCEPT ![t] = "travels"]
    /\ sample' = [sample EXCEPT ![t] = s]
    /\ UNCHANGED <<router, cached, snapshot, todo, reported, reports>>

\* A sample is taken: by the poll's SSH command, or by the sampler, which pushes
\* every change and, without one, every 30 seconds.
Take(t) ==
    /\ Sends(t, screen)
    /\ orderly' = (orderly /\ \A u \in Tasks : at[u] = "idle")

\* Both readers make zeros of a status file that is missing, empty or half written;
\* as one number is zero anyway, a file without the other one looks clean.
Misread(t) ==
    /\ ~IsClean(screen)
    /\ Sends(t, Clean)
    /\ orderly' = FALSE

\* The SSH command fails, or the push does not get through; the sampler does not
\* send it again.
Lose(t) ==
    /\ at[t] = "travels"
    /\ at' = [at EXCEPT ![t] = "idle"]
    /\ sample' = [sample EXCEPT ![t] = Clean]
    /\ UNCHANGED <<router, cached, snapshot, todo, reported, reports, orderly>>

(***************************************************************************)
(* apply_telemetry                                                         *)
(***************************************************************************)

\* The sample becomes the one remembered and the task ends.
Remember(t) ==
    /\ snapshot' = sample[t]
    /\ at' = [at EXCEPT ![t] = "idle"]
    /\ sample' = [sample EXCEPT ![t] = Clean]
    /\ reported' = [reported EXCEPT ![t] = 0]

\* Faulty variant: a sample is only remembered when it brings failures.
CompareForgets(t) ==
    LET found == NewFailures(snapshot, sample[t]) IN
    /\ at[t] = "travels"
    /\ todo' = [todo EXCEPT ![t] = found]
    /\ IF found > 0
       THEN at' = [at EXCEPT ![t] = "counting"] /\ UNCHANGED <<snapshot, sample>>
       ELSE /\ at' = [at EXCEPT ![t] = "idle"]
            /\ sample' = [sample EXCEPT ![t] = Clean]
            /\ UNCHANGED snapshot
    /\ UNCHANGED <<router, cached, reported, reports, orderly>>

\* Compare with the sample remembered now.  Without anything to report no hook is
\* awaited and the sample is remembered at once.
Compare(t) ==
    LET found == NewFailures(snapshot, sample[t]) IN
    /\ at[t] = "travels"
    /\ todo' = [todo EXCEPT ![t] = found]
    /\ \/ /\ found > 0
          /\ at' = [at EXCEPT ![t] = "counting"]
          /\ UNCHANGED <<snapshot, sample, reported>>
       \/ /\ Unlocked(snapshot, sample[t])
          /\ at' = [at EXCEPT ![t] = "clearing"]
          /\ UNCHANGED <<snapshot, sample, reported>>
       \/ /\ found = 0
          /\ ~Unlocked(snapshot, sample[t])
          /\ Remember(t)
    /\ UNCHANGED <<router, cached, reports, orderly>>

\* One call of the on_pin_failure hook; an exception in it is logged and the next
\* call made.  A sample has one number at most, so its new failures are of one kind,
\* and it is not clean, so no success follows.
CountFailure(t) ==
    /\ at[t] = "counting"
    /\ IF sample[t].exceed > 0
       THEN charged' = Up(charged) /\ UNCHANGED counted
       ELSE counted' = Up(counted) /\ UNCHANGED charged
    /\ todo' = [todo EXCEPT ![t] = @ - 1]
    /\ IF todo[t] = 1
       THEN Remember(t)
       ELSE /\ reported' = [reported EXCEPT ![t] = @ + 1]
            /\ UNCHANGED <<snapshot, at, sample>>
    /\ UNCHANGED <<router, cached, cleared, orderly>>

\* The call of the on_pin_success hook.
ReportUnlock(t) ==
    /\ at[t] = "clearing"
    /\ cleared' = Up(cleared)
    /\ Remember(t)
    /\ UNCHANGED <<router, cached, todo, counted, charged, orderly>>

(***************************************************************************)
(* The controller                                                          *)
(***************************************************************************)

\* A request or a job asks the registry for the device.
Build ==
    /\ ~cached
    /\ cached' = TRUE
    /\ UNCHANGED <<router, snapshot, work, reports, orderly>>

\* The device was edited or has got other credentials: its bundle is dropped until
\* somebody asks for it again.  What the watcher remembers stays.
Invalidate ==
    /\ cached
    /\ cached' = FALSE
    /\ UNCHANGED <<router, snapshot, work, reports, orderly>>

\* The controller restarts: tasks, cache and the remembered sample are gone.
Restart ==
    /\ orderly' = FALSE
    /\ cached' = FALSE
    /\ snapshot' = Clean
    /\ at' = [t \in Tasks |-> "idle"]
    /\ sample' = [t \in Tasks |-> Clean]
    /\ todo' = [t \in Tasks |-> 0]
    /\ reported' = [t \in Tasks |-> 0]
    /\ UNCHANGED <<router, reports>>

(***************************************************************************)
(* Specification                                                           *)
(***************************************************************************)
Init ==
    /\ screen = Clean
    /\ cached = FALSE
    /\ snapshot = Clean
    /\ at = [t \in Tasks |-> "idle"]
    /\ sample = [t \in Tasks |-> Clean]
    /\ todo = [t \in Tasks |-> 0]
    /\ reported = [t \in Tasks |-> 0]
    /\ typed = 0
    /\ lockouts = 0
    /\ expiries = 0
    /\ unlocks = 0
    /\ counted = 0
    /\ charged = 0
    /\ cleared = 0
    /\ orderly = TRUE

Apply(t) == Compare(t) \/ CountFailure(t) \/ ReportUnlock(t)

Next ==
    \/ WrongPin
    \/ LockoutExpires
    \/ RightPin
    \/ \E t \in Tasks : Take(t) \/ Misread(t) \/ Lose(t) \/ Apply(t)
    \/ Build
    \/ Invalidate
    \/ Restart

Spec == Init /\ [][Next]_vars

\* Routes ask for the device, the poll fires every five minutes and some of its samples
\* arrive; hooks end.  Pushes need not arrive at all.  At some time the status file is
\* whole and nobody restarts the controller or edits the device.
FairSpec ==
    /\ Spec
    /\ WF_vars(Build)
    /\ WF_vars(Take(Poll))
    /\ SF_vars(Compare(Poll))
    /\ \A t \in Tasks : WF_vars(Apply(t) \/ Lose(t))
    /\ <>[][~Restart /\ ~Invalidate /\ \A t \in Tasks : ~Misread(t)]_vars

(***************************************************************************)
(* Properties                                                              *)
(***************************************************************************)
\* The firmware moves the count from one number to the other, so one of them is zero.
Samples ==
    {s \in [errors : 0..(StreakLimit - 1), exceed : {0, StreakLimit}] :
        s.errors = 0 \/ s.exceed = 0}

WatcherTypeOK ==
    /\ screen \in Samples
    /\ cached \in BOOLEAN
    /\ snapshot \in Samples
    /\ at \in [Tasks -> {"idle", "travels", "counting", "clearing"}]
    /\ sample \in [Tasks -> Samples]
    /\ todo \in [Tasks -> Nat]
    /\ reported \in [Tasks -> Nat]
    /\ typed \in 0..MaxFailures
    /\ lockouts \in Nat
    /\ expiries \in Nat
    /\ unlocks \in 0..MaxUnlocks
    /\ counted \in 0..MaxCounted
    /\ charged \in 0..MaxCounted
    /\ cleared \in 0..MaxCounted
    /\ orderly \in BOOLEAN

\* screen_lock_watcher.py:203-220: as long as every sample is read, worked on alone and
\* compared with the one before, no failure is reported more than once for each of the
\* two numbers, whatever samples are lost in between: those that rise the streak once,
\* those that lock the screen once more.  The code reports the failures of a lockout
\* twice when it has seen them one by one; NoneCountedTwice is what its comment says.
FailuresBounded ==
    orderly => counted <= typed - lockouts /\ charged <= StreakLimit * lockouts

\* screen_lock_watcher.py:175-185, 208-213: the controller never comes to remember that
\* the screen is locked unless the calls made for that very sample report all the
\* failures behind the lockout; the sample is remembered after its calls, so a sample
\* that overtakes it or a restart between two calls repeats them and swallows none.
\* Every lockout whose sample follows, in the controller's memory, one that showed no
\* lockout is reported like this.  A lockout that follows another one is not seen when
\* no sample of the time in between arrives: the numbers are the same (line 215).
LockoutsCount ==
    [][snapshot.exceed = 0 /\ snapshot'.exceed > 0 =>
          \E t \in Tasks : /\ at[t] = "counting"
                           /\ sample[t] = snapshot'
                           /\ reported[t] + 1 >= StreakLimit]_vars

\* screen_lock_watcher.py:239-246, "prevents the false-positive that wiped our counter on
\* lockout entry": under the condition above the counter is cleared at most once for
\* every lockout that ran out and every right PIN, and never because the screen locks.
ClearsEarned == orderly => cleared <= unlocks + expiries

\* screen_lock_watcher.py:216-219, "they were real failures we already counted, so we
\* don't double-count them": with one sample at a time, no more failures are reported
\* than wrong PINs were typed.
NoneCountedTwice == orderly => counted + charged <= typed

\* screen_lock_watcher.py:17-19, "Drop to 0 while exceed_limit was 1 = window expired, we
\* don't reset anything": with one sample at a time, a lockout that ran out is not
\* reported as a success.
ExpiryIsNoSuccess ==
    orderly => \A t \in Tasks : at[t] = "clearing" => snapshot.exceed = 0

\* screen_lock_watcher.py:66-70 and main.py:363-370: the poll is enough.  Once nobody
\* types any more, what the controller remembers becomes and stays what the router
\* shows, whatever was pushed late, out of order or not at all, misread, or forgotten in
\* a restart.
SnapshotCatchesUp == <>[](snapshot = screen)
=============================================================================
