----------------------- MODULE TouchscreenWatcherProofs -----------------------
(***************************************************************************)
(* That the watcher invents neither failures nor successes and swallows no *)
(* lockout it has seen, for any number of pushes and any limits.  The      *)
(* argument is a balance, of each number: what has been reported, and what *)
(* the samples on their way still have to report, is never more than the   *)
(* number has risen.                                                       *)
(***************************************************************************)
EXTENDS TouchscreenWatcher, TLAPS

\* How far the streak has risen, how far the other number, and the successes.
Countable == typed - lockouts
Chargeable == StreakLimit * lockouts
Clearable == unlocks + expiries

StreakRise(a, b) == Rise(a.errors, b.errors)
LockRise(a, b) == Rise(a.exceed, b.exceed)

AllIdle == \A t \in Tasks : at[t] = "idle"
Success(old, new) == IF Unlocked(old, new) THEN 1 ELSE 0

\* A failure still to be reported is one more than none; the failures of a lockout
\* that was seen are reported or about to be.
Pending ==
    \A t \in Tasks :
        /\ at[t] = "counting" => todo[t] > 0
        /\ at[t] = "counting" /\ sample[t].exceed > 0 => reported[t] + todo[t] >= StreakLimit
        /\ at[t] = "clearing" => IsClean(sample[t])

Alone == \A t, u \in Tasks : at[t] # "idle" /\ at[u] # "idle" => t = u

\* Failures reported, to be reported, and not seen yet: those that rise the streak.
Accounted ==
    /\ AllIdle => counted + StreakRise(snapshot, screen) <= Countable
    /\ \A t \in Tasks :
        /\ at[t] \in {"travels", "clearing"} =>
             counted + StreakRise(snapshot, sample[t])
                 + StreakRise(sample[t], screen) <= Countable
        /\ at[t] = "counting" =>
             counted + (IF sample[t].exceed > 0 THEN 0 ELSE todo[t])
                 + StreakRise(sample[t], screen) <= Countable

\* The same of those that lock the screen.
Charged ==
    /\ AllIdle => charged + LockRise(snapshot, screen) <= Chargeable
    /\ \A t \in Tasks :
        /\ at[t] \in {"travels", "clearing"} =>
             charged + LockRise(snapshot, sample[t])
                 + LockRise(sample[t], screen) <= Chargeable
        /\ at[t] = "counting" =>
             charged + (IF sample[t].exceed > 0 THEN todo[t] ELSE 0)
                 + LockRise(sample[t], screen) <= Chargeable

\* The same of successes; a sample that brings failures brings no success.
Earned ==
    /\ AllIdle => cleared + Success(snapshot, screen) <= Clearable
    /\ \A t \in Tasks :
        /\ at[t] = "travels" =>
             cleared + Success(snapshot, sample[t])
                 + Success(sample[t], screen) <= Clearable
        /\ at[t] = "counting" => cleared + Success(sample[t], screen) <= Clearable
        /\ at[t] = "clearing" => cleared + 1 <= Clearable

Balance == Alone /\ Accounted /\ Charged /\ Earned

WInv == WatcherTypeOK /\ Pending /\ (orderly => Balance)

-----------------------------------------------------------------------------
LEMMA SamplesNat ==
  ASSUME NEW s \in Samples
  PROVE  s.errors \in Nat /\ s.exceed \in Nat
  BY WatcherAssumption DEF Samples

LEMMA CleanSample ==
  /\ Clean \in Samples /\ IsClean(Clean)
  /\ Clean.errors = 0 /\ Clean.exceed = 0
  BY WatcherAssumption DEF Clean, Samples, IsClean

LEMMA RisesNat ==
  ASSUME NEW a \in Samples, NEW b \in Samples
  PROVE  StreakRise(a, b) \in Nat /\ LockRise(a, b) \in Nat
  <1>1. /\ a.errors \in Nat /\ b.errors \in Nat
        /\ a.exceed \in Nat /\ b.exceed \in Nat
    BY SamplesNat
  <1> QED BY <1>1 DEF StreakRise, LockRise, Rise

LEMMA NewFailuresSum ==
  ASSUME NEW a \in Samples, NEW b \in Samples
  PROVE  /\ NewFailures(a, b) = StreakRise(a, b) + LockRise(a, b)
         /\ NewFailures(a, b) \in Nat
         /\ b.exceed > 0 => StreakRise(a, b) = 0
         /\ ~(b.exceed > 0) => LockRise(a, b) = 0
  <1>1. /\ a.errors \in Nat /\ b.errors \in Nat
        /\ a.exceed \in Nat /\ b.exceed \in Nat
        /\ b.errors = 0 \/ b.exceed = 0
    BY SamplesNat DEF Samples
  <1> QED BY <1>1 DEF NewFailures, StreakRise, LockRise, Rise

\* A lockout that is new in a sample brings all the failures of its streak.
LEMMA NewLockout ==
  ASSUME NEW a \in Samples, NEW b \in Samples, b.exceed > 0
  PROVE  a.exceed > 0 \/ NewFailures(a, b) >= StreakLimit
  <1>1. /\ a.errors \in Nat /\ b.errors \in Nat /\ a.exceed \in {0, StreakLimit}
        /\ b.exceed = StreakLimit /\ StreakLimit \in Nat
    BY SamplesNat, WatcherAssumption DEF Samples
  <1> QED BY <1>1 DEF NewFailures, Rise

\* A sample that is lost hides nothing: the next one shows at most as much.
LEMMA RisesTriangle ==
  ASSUME NEW a \in Samples, NEW b \in Samples, NEW c \in Samples
  PROVE  /\ StreakRise(a, c) <= StreakRise(a, b) + StreakRise(b, c)
         /\ LockRise(a, c) <= LockRise(a, b) + LockRise(b, c)
  <1>1. /\ a.errors \in Nat /\ b.errors \in Nat /\ c.errors \in Nat
        /\ a.exceed \in Nat /\ b.exceed \in Nat /\ c.exceed \in Nat
    BY SamplesNat
  <1> QED BY <1>1 DEF StreakRise, LockRise, Rise

LEMMA RisesSelf ==
  ASSUME NEW a \in Samples PROVE StreakRise(a, a) = 0 /\ LockRise(a, a) = 0
  BY SamplesNat DEF StreakRise, LockRise, Rise

LEMMA SuccessTriangle ==
  ASSUME NEW a \in Samples, NEW b \in Samples, NEW c \in Samples
  PROVE  /\ Success(a, c) <= Success(a, b) + Success(b, c)
         /\ Success(a, b) \in {0, 1}
         /\ Success(a, a) = 0
         /\ IsClean(a) => Success(a, b) = 0
  BY DEF Success, Unlocked

-----------------------------------------------------------------------------
LEMMA Quantities ==
  ASSUME WatcherTypeOK
  PROVE  Countable \in Int /\ Chargeable \in Nat /\ Clearable \in Nat
  <1>1. typed \in Nat /\ lockouts \in Nat /\ unlocks \in Nat /\ expiries \in Nat
    BY WatcherAssumption DEF WatcherTypeOK
  <1>2. Chargeable \in Nat
    BY <1>1, WatcherAssumption DEF Chargeable
  <1> QED BY <1>1, <1>2 DEF Countable, Clearable

LEMMA InitInv == Init => WInv
  <1> SUFFICES ASSUME Init PROVE WInv
    OBVIOUS
  <1>1. WatcherTypeOK
    <2>1. cached \in BOOLEAN /\ orderly \in BOOLEAN
      BY Zenon DEF Init
    <2> QED BY <2>1, CleanSample, WatcherAssumption DEF Init, WatcherTypeOK
  <1>2. Pending
    BY DEF Init, Pending
  <1>3. Countable = 0 /\ Chargeable = 0 /\ Clearable = 0
    BY WatcherAssumption DEF Init, Countable, Chargeable, Clearable
  <1>4. Balance
    BY <1>3, CleanSample, RisesSelf, SuccessTriangle
    DEF Init, Balance, Alone, Accounted, Charged, Earned
  <1> QED BY <1>1, <1>2, <1>4 DEF WInv

\* What the firmware does to the balance: whatever was remembered or sampled, the rise
\* of each number and of the successes is covered by what may be reported.
LEMMA FirmwareInv ==
  ASSUME WInv, WatcherTypeOK', UNCHANGED <<snapshot, work, reports, orderly>>,
         NEW more \in Nat, NEW moreLocks \in Nat, NEW moreSuccesses \in Nat,
         Countable' = Countable + more, Chargeable' = Chargeable + moreLocks,
         Clearable' = Clearable + moreSuccesses,
         \A s \in Samples :
             /\ StreakRise(s, screen') <= StreakRise(s, screen) + more
             /\ LockRise(s, screen') <= LockRise(s, screen) + moreLocks
             /\ Success(s, screen') <= Success(s, screen) + moreSuccesses
  PROVE  WInv'
  <1> USE DEF WInv, work, reports
  <1>1. Pending'
    BY DEF Pending
  <1>2. ASSUME orderly PROVE Balance'
    <2>1. /\ snapshot \in Samples /\ counted \in Nat /\ charged \in Nat /\ cleared \in Nat
          /\ screen \in Samples /\ screen' \in Samples
          /\ \A t \in Tasks : sample[t] \in Samples /\ todo[t] \in Nat
          /\ Countable \in Int /\ Chargeable \in Nat /\ Clearable \in Nat
      BY Quantities DEF WatcherTypeOK
    <2>2. Alone' BY <1>2 DEF Balance, Alone
    <2>6. \A a, b \in Samples : StreakRise(a, b) \in Nat /\ LockRise(a, b) \in Nat
      BY RisesNat
    <2>3. Accounted'
      BY <1>2, <2>1, <2>6 DEF Balance, Accounted, AllIdle
    <2>4. Charged'
      BY <1>2, <2>1, <2>6 DEF Balance, Charged, AllIdle
    <2>5. Earned'
      <3>1. \A a, b \in Samples : Success(a, b) \in {0, 1}
        BY SuccessTriangle
      <3> QED BY <1>2, <2>1, <3>1 DEF Balance, Earned, AllIdle
    <2> QED BY <2>2, <2>3, <2>4, <2>5 DEF Balance
  <1> QED BY <1>1, <1>2

LEMMA SuccessAtMostOne ==
  ASSUME NEW a \in Samples, NEW b \in Samples, NEW c \in Samples
  PROVE  Success(a, c) <= Success(a, b) + 1
  BY DEF Success

LEMMA NothingNew ==
  ASSUME NEW a \in Samples PROVE StreakRise(a, Clean) = 0 /\ LockRise(a, Clean) = 0
  BY SamplesNat DEF StreakRise, LockRise, Rise, Clean

LEMMA WrongPinInv == WInv /\ WrongPin => WInv'
  <1> SUFFICES ASSUME WInv, WrongPin PROVE WInv'
    OBVIOUS
  <1> USE DEF WrongPin
  <1>1. /\ screen \in Samples /\ typed \in Nat /\ lockouts \in Nat /\ screen.exceed = 0
        /\ screen.errors \in Nat /\ StreakLimit \in Nat /\ StreakLimit > 0
    BY WatcherAssumption, SamplesNat DEF WInv, WatcherTypeOK
  <1>2. Clearable' = Clearable + 0
    BY DEF Clearable, WInv, WatcherTypeOK
  <1>3. CASE screen.errors + 1 < StreakLimit /\ screen' = [screen EXCEPT !.errors = @ + 1]
             /\ lockouts' = lockouts
    <2>1. screen' \in Samples /\ screen'.errors = screen.errors + 1 /\ screen'.exceed = 0
      BY <1>1, <1>3 DEF Samples
    <2>2. WatcherTypeOK'
      BY <1>1, <1>3, <2>1, WatcherAssumption DEF WInv, WatcherTypeOK, work, reports
    <2>3. Countable' = Countable + 1 /\ Chargeable' = Chargeable + 0
      BY <1>1, <1>3, Quantities DEF WInv, Countable, Chargeable
    <2>4. ASSUME NEW s \in Samples
          PROVE  /\ StreakRise(s, screen') <= StreakRise(s, screen) + 1
                 /\ LockRise(s, screen') <= LockRise(s, screen) + 0
                 /\ Success(s, screen') <= Success(s, screen) + 0
      BY <1>1, <2>1, SamplesNat
      DEF StreakRise, LockRise, Rise, Success, Unlocked, IsClean
    <2> QED BY <1>2, <2>2, <2>3, <2>4, FirmwareInv
  <1>4. CASE screen.errors + 1 = StreakLimit
             /\ screen' = [errors |-> 0, exceed |-> StreakLimit] /\ lockouts' = lockouts + 1
    <2>1. screen' \in Samples /\ screen'.errors = 0 /\ screen'.exceed = StreakLimit
      BY <1>1, <1>4 DEF Samples
    <2>2. WatcherTypeOK'
      BY <1>1, <1>4, <2>1, WatcherAssumption DEF WInv, WatcherTypeOK, work, reports
    <2>3. Countable' = Countable + 0 /\ Chargeable' = Chargeable + StreakLimit
      <3>1. StreakLimit * (lockouts + 1) = StreakLimit * lockouts + StreakLimit
        BY <1>1
      <3> QED BY <1>1, <1>4, <3>1 DEF Countable, Chargeable
    <2>4. ASSUME NEW s \in Samples
          PROVE  /\ StreakRise(s, screen') <= StreakRise(s, screen) + 0
                 /\ LockRise(s, screen') <= LockRise(s, screen) + StreakLimit
                 /\ Success(s, screen') <= Success(s, screen) + 0
      BY <1>1, <2>1, SamplesNat
      DEF StreakRise, LockRise, Rise, Success, Unlocked, IsClean
    <2> QED BY <1>1, <1>2, <2>2, <2>3, <2>4, FirmwareInv
  <1> QED BY <1>3, <1>4

LEMMA ScreenClearsInv == WInv /\ (LockoutExpires \/ RightPin) => WInv'
  <1> SUFFICES ASSUME WInv, LockoutExpires \/ RightPin PROVE WInv'
    OBVIOUS
  <1> USE DEF LockoutExpires, RightPin
  <1>1. /\ screen' = Clean
        /\ UNCHANGED <<cached, snapshot, work, reports, typed, lockouts, orderly>>
    OBVIOUS
  <1>2. screen \in Samples /\ Clean \in Samples
    BY CleanSample DEF WInv, WatcherTypeOK
  <1>3. WatcherTypeOK'
    BY <1>1, <1>2, WatcherAssumption DEF WInv, WatcherTypeOK, work, reports
  <1>4. Countable' = Countable + 0 /\ Chargeable' = Chargeable + 0
    BY <1>1, Quantities DEF WInv, Countable, Chargeable
  <1>5. Clearable' = Clearable + 1
    BY DEF Clearable, WInv, WatcherTypeOK
  <1>6. ASSUME NEW s \in Samples
        PROVE  /\ StreakRise(s, screen') <= StreakRise(s, screen) + 0
               /\ LockRise(s, screen') <= LockRise(s, screen) + 0
               /\ Success(s, screen') <= Success(s, screen) + 1
    BY <1>1, <1>2, NothingNew, RisesNat, SuccessAtMostOne
  <1> QED BY <1>1, <1>3, <1>4, <1>5, <1>6, FirmwareInv

\* A sample sets out; in an orderly run no other one is on its way.
LEMMA TakeInv == ASSUME NEW t \in Tasks PROVE WInv /\ Take(t) => WInv'
  <1> SUFFICES ASSUME WInv, Take(t) PROVE WInv'
    OBVIOUS
  <1> USE DEF WInv, Take, Sends, router, reports, Countable, Chargeable, Clearable
  <1>1. WatcherTypeOK' /\ Pending'
    BY DEF WatcherTypeOK, Pending
  <1>2. ASSUME orderly' PROVE Balance'
    <2>1. orderly /\ AllIdle
      BY <1>2 DEF AllIdle
    <2>2. /\ at' = [at EXCEPT ![t] = "travels"] /\ sample'[t] = screen
          /\ at \in [Tasks -> {"idle", "travels", "counting", "clearing"}]
          /\ snapshot \in Samples /\ screen \in Samples
          /\ counted \in Nat /\ charged \in Nat /\ cleared \in Nat
      BY DEF WatcherTypeOK
    <2>3. at'[t] = "travels" /\ \A u \in Tasks : u # t => at'[u] = "idle"
      BY <2>1, <2>2 DEF AllIdle
    <2>4. Alone'
      BY <2>3 DEF Alone
    <2>5. /\ StreakRise(screen, screen) = 0 /\ StreakRise(snapshot, screen) \in Nat
          /\ LockRise(screen, screen) = 0 /\ LockRise(snapshot, screen) \in Nat
      BY <2>2, RisesSelf, RisesNat
    <2>6. Accounted'
      BY <2>1, <2>2, <2>3, <2>5 DEF Balance, Accounted, AllIdle
    <2>7. Charged'
      <3> HIDE DEF Chargeable
      <3>1. Chargeable' = Chargeable /\ Chargeable \in Nat
        BY Quantities DEF Chargeable
      <3> QED BY <2>1, <2>2, <2>3, <2>5, <3>1 DEF Balance, Charged, AllIdle
    <2>8. Earned'
      <3>1. Success(screen, screen) = 0 /\ Success(snapshot, screen) \in {0, 1}
        BY <2>2, SuccessTriangle
      <3> QED BY <2>1, <2>2, <2>3, <3>1 DEF Balance, Earned, AllIdle
    <2> QED BY <2>4, <2>6, <2>7, <2>8 DEF Balance
  <1> QED BY <1>1, <1>2

\* A file that could not be read ends the orderly part of a run.
LEMMA MisreadInv == ASSUME NEW t \in Tasks PROVE WInv /\ Misread(t) => WInv'
  BY CleanSample
  DEF WInv, Misread, Sends, router, reports, WatcherTypeOK, Pending

\* A sample is lost; the triangle inequalities carry what it would have told.
LEMMA LoseInv == ASSUME NEW t \in Tasks PROVE WInv /\ Lose(t) => WInv'
  <1> SUFFICES ASSUME WInv, Lose(t) PROVE WInv'
    OBVIOUS
  <1> USE DEF WInv, Lose, router, reports
  <1>1. WatcherTypeOK' /\ Pending'
    BY CleanSample DEF WatcherTypeOK, Pending
  <1>2. ASSUME orderly PROVE Balance'
    <2>1. /\ snapshot \in Samples /\ screen \in Samples /\ sample[t] \in Samples
          /\ counted \in Nat /\ charged \in Nat /\ cleared \in Nat
          /\ Countable \in Int /\ Chargeable \in Nat /\ Clearable \in Nat
          /\ Countable' = Countable /\ Chargeable' = Chargeable /\ Clearable' = Clearable
      BY Quantities DEF WatcherTypeOK, Countable, Chargeable, Clearable
    <2>2. \A u \in Tasks : at'[u] = "idle"
      BY <1>2 DEF Balance, Alone, WatcherTypeOK
    <2>3. Alone'
      BY <2>2 DEF Alone
    <2>4. /\ StreakRise(snapshot, screen)
                <= StreakRise(snapshot, sample[t]) + StreakRise(sample[t], screen)
          /\ LockRise(snapshot, screen)
                <= LockRise(snapshot, sample[t]) + LockRise(sample[t], screen)
          /\ \A a, b \in Samples : StreakRise(a, b) \in Nat /\ LockRise(a, b) \in Nat
      BY <2>1, RisesTriangle, RisesNat
    <2>5. Accounted'
      <3>1. counted + StreakRise(snapshot, sample[t])
              + StreakRise(sample[t], screen) <= Countable
        BY <1>2 DEF Balance, Accounted
      <3> QED BY <2>1, <2>2, <2>4, <3>1 DEF Accounted
    <2>6. Charged'
      <3>1. charged + LockRise(snapshot, sample[t])
              + LockRise(sample[t], screen) <= Chargeable
        BY <1>2 DEF Balance, Charged
      <3> QED BY <2>1, <2>2, <2>4, <3>1 DEF Charged
    <2>7. Earned'
      <3>1. /\ Success(snapshot, screen)
                 <= Success(snapshot, sample[t]) + Success(sample[t], screen)
            /\ Success(snapshot, screen) \in {0, 1}
            /\ Success(snapshot, sample[t]) \in {0, 1}
            /\ Success(sample[t], screen) \in {0, 1}
        BY <2>1, SuccessTriangle
      <3>2. cleared + Success(snapshot, sample[t]) + Success(sample[t], screen) <= Clearable
        BY <1>2 DEF Balance, Earned
      <3> QED BY <2>1, <2>2, <3>1, <3>2 DEF Earned
    <2> QED BY <2>3, <2>5, <2>6, <2>7 DEF Balance
  <1> QED BY <1>1, <1>2

\* What ending the work on a sample needs: everything it had to report is reported.
LEMMA RememberInv ==
  ASSUME NEW t \in Tasks, WInv, orderly, at[t] # "idle", Remember(t),
         screen' = screen, Countable' = Countable, Chargeable' = Chargeable,
         Clearable' = Clearable,
         counted' \in Nat, charged' \in Nat, cleared' \in Nat,
         counted' + StreakRise(sample[t], screen) <= Countable,
         charged' + LockRise(sample[t], screen) <= Chargeable,
         cleared' + Success(sample[t], screen) <= Clearable
  PROVE  Balance'
  <1>1. \A u \in Tasks : at'[u] = "idle"
    BY DEF WInv, WatcherTypeOK, Balance, Alone, Remember
  <1>2. snapshot' = sample[t]
    BY DEF Remember
  <1> QED BY <1>1, <1>2 DEF Balance, Alone, Accounted, Charged, Earned, AllIdle

LEMMA CompareInv == ASSUME NEW t \in Tasks PROVE WInv /\ Compare(t) => WInv'
  <1> SUFFICES ASSUME WInv, Compare(t) PROVE WInv'
    OBVIOUS
  <1> USE DEF WInv
  <1> DEFINE found == NewFailures(snapshot, sample[t])
  <1>1. /\ snapshot \in Samples /\ screen \in Samples /\ sample[t] \in Samples
        /\ counted \in Nat /\ charged \in Nat /\ cleared \in Nat
        /\ Countable \in Int /\ Chargeable \in Nat /\ Clearable \in Nat
        /\ at[t] = "travels" /\ at \in [Tasks -> {"idle", "travels", "counting", "clearing"}]
        /\ todo' = [todo EXCEPT ![t] = found] /\ todo \in [Tasks -> Nat]
        /\ reported \in [Tasks -> Nat]
        /\ screen' = screen /\ typed' = typed /\ lockouts' = lockouts
        /\ unlocks' = unlocks /\ expiries' = expiries /\ cached' = cached
        /\ Countable' = Countable /\ Chargeable' = Chargeable /\ Clearable' = Clearable
        /\ counted' = counted /\ charged' = charged /\ cleared' = cleared
        /\ orderly' = orderly
    BY Quantities
    DEF WatcherTypeOK, Compare, router, reports, Countable, Chargeable, Clearable
  <1>2. /\ found \in Nat
        /\ StreakRise(snapshot, sample[t]) \in Nat /\ LockRise(snapshot, sample[t]) \in Nat
        /\ StreakRise(sample[t], screen) \in Nat /\ LockRise(sample[t], screen) \in Nat
        /\ Success(snapshot, sample[t]) \in {0, 1}
        /\ Success(sample[t], screen) \in {0, 1}
        /\ found = StreakRise(snapshot, sample[t]) + LockRise(snapshot, sample[t])
        /\ sample[t].exceed > 0 => StreakRise(snapshot, sample[t]) = 0
        /\ ~(sample[t].exceed > 0) => LockRise(snapshot, sample[t]) = 0
    BY <1>1, NewFailuresSum, RisesNat, SuccessTriangle
  <1>3. orderly => /\ counted + StreakRise(snapshot, sample[t])
                        + StreakRise(sample[t], screen) <= Countable
                   /\ charged + LockRise(snapshot, sample[t])
                        + LockRise(sample[t], screen) <= Chargeable
                   /\ cleared + Success(snapshot, sample[t])
                        + Success(sample[t], screen) <= Clearable
    BY <1>1 DEF Balance, Accounted, Charged, Earned
  <1>7. sample[t].exceed > 0 => snapshot.exceed > 0 \/ found >= StreakLimit
    BY <1>1, NewLockout
  <1> HIDE DEF found
  <1>4. CASE found > 0 /\ at' = [at EXCEPT ![t] = "counting"]
             /\ UNCHANGED <<snapshot, sample, reported>>
    <2>1. WatcherTypeOK'
      BY <1>1, <1>2, <1>4 DEF WatcherTypeOK
    <2>4. Pending'
      <3>1. sample[t].exceed > 0 => found >= StreakLimit
        <4>1. ASSUME sample[t].exceed > 0, snapshot.exceed > 0
              PROVE  LockRise(snapshot, sample[t]) = 0
          BY <1>1, <4>1, WatcherAssumption DEF Samples, LockRise, Rise
        <4> QED BY <1>2, <1>4, <1>7, <4>1
      <3>2. /\ at'[t] = "counting" /\ todo'[t] = found
            /\ \A u \in Tasks : u # t => at'[u] = at[u] /\ todo'[u] = todo[u]
        BY <1>1, <1>4
      <3>3. found \in Nat /\ reported[t] \in Nat /\ StreakLimit \in Nat
        BY <1>1, <1>2, WatcherAssumption
      <3> QED BY <1>4, <3>1, <3>2, <3>3 DEF Pending
    <2>2. ASSUME orderly PROVE Alone'
      BY <1>1, <1>4, <2>2 DEF Balance, Alone
    <2>3. ASSUME orderly PROVE Accounted' /\ Charged' /\ Earned'
      <3>1. at'[t] = "counting" /\ \A u \in Tasks : u # t => at'[u] = "idle"
        BY <1>1, <1>4, <2>3 DEF Balance, Alone
      <3>2. todo'[t] = found
        BY <1>1
      <3>3. Accounted'
        BY <1>1, <1>2, <1>3, <1>4, <2>3, <3>1, <3>2 DEF Accounted, AllIdle
      <3>4. Charged'
        BY <1>1, <1>2, <1>3, <1>4, <2>3, <3>1, <3>2 DEF Charged, AllIdle
      <3>5. Earned'
        BY <1>1, <1>2, <1>3, <1>4, <2>3, <3>1 DEF Earned, AllIdle
      <3> QED BY <3>3, <3>4, <3>5
    <2> QED BY <1>1, <2>1, <2>2, <2>3, <2>4 DEF Balance
  <1>5. CASE Unlocked(snapshot, sample[t]) /\ at' = [at EXCEPT ![t] = "clearing"]
             /\ UNCHANGED <<snapshot, sample, reported>>
    <2>1. WatcherTypeOK' /\ Pending'
      BY <1>1, <1>2, <1>5 DEF WatcherTypeOK, Pending, Unlocked
    <2>2. ASSUME orderly PROVE Balance'
      <3>1. at'[t] = "clearing" /\ \A u \in Tasks : u # t => at'[u] = "idle"
        BY <1>1, <1>5, <2>2 DEF Balance, Alone
      <3>2. Alone'
        BY <3>1 DEF Alone
      <3>3. Accounted' /\ Charged'
        BY <1>1, <1>3, <1>5, <2>2, <3>1 DEF Accounted, Charged, AllIdle
      <3>4. Success(snapshot, sample[t]) = 1 /\ IsClean(sample[t])
        BY <1>5 DEF Success, Unlocked
      <3>5. Earned'
        BY <1>1, <1>2, <1>3, <1>5, <2>2, <3>1, <3>4 DEF Earned, AllIdle
      <3> QED BY <3>2, <3>3, <3>5 DEF Balance
    <2> QED BY <1>1, <2>1, <2>2
  <1>6. CASE found = 0 /\ ~Unlocked(snapshot, sample[t]) /\ Remember(t)
    <2>1. WatcherTypeOK'
      BY <1>1, <1>2, <1>6, CleanSample DEF WatcherTypeOK, Remember
    <2>3. Pending'
      <3>1. /\ at'[t] = "idle"
            /\ \A u \in Tasks : u # t =>
                  /\ at'[u] = at[u] /\ sample'[u] = sample[u]
                  /\ todo'[u] = todo[u] /\ reported'[u] = reported[u]
        BY <1>1, <1>6 DEF Remember, WatcherTypeOK
      <3> QED BY <1>1, <3>1 DEF Pending
    <2>2. ASSUME orderly PROVE Balance'
      <3>1. /\ counted' + StreakRise(sample[t], screen) <= Countable
            /\ charged' + LockRise(sample[t], screen) <= Chargeable
            /\ cleared' + Success(sample[t], screen) <= Clearable
        BY <1>1, <1>2, <1>3, <1>6, <2>2
      <3> QED BY <1>1, <1>6, <2>2, <3>1, RememberInv
    <2> QED BY <1>1, <2>1, <2>2, <2>3
  <1> QED BY <1>4, <1>5, <1>6 DEF Compare, found

LEMMA CountFailureInv ==
  ASSUME NEW t \in Tasks
  PROVE  WInv /\ CountFailure(t) => WInv'
  <1> SUFFICES ASSUME WInv, CountFailure(t) PROVE WInv'
    OBVIOUS
  <1> USE DEF WInv
  <1> DEFINE locked == sample[t].exceed > 0
  <1>1. /\ screen \in Samples /\ sample[t] \in Samples
        /\ counted \in Nat /\ charged \in Nat /\ cleared \in Nat
        /\ Countable \in Int /\ Chargeable \in Nat /\ Clearable \in Nat
        /\ todo \in [Tasks -> Nat] /\ todo[t] > 0 /\ reported \in [Tasks -> Nat]
        /\ at[t] = "counting" /\ at \in [Tasks -> {"idle", "travels", "counting", "clearing"}]
        /\ todo' = [todo EXCEPT ![t] = @ - 1]
        /\ screen' = screen /\ typed' = typed /\ lockouts' = lockouts
        /\ unlocks' = unlocks /\ expiries' = expiries /\ cached' = cached
        /\ Countable' = Countable /\ Chargeable' = Chargeable /\ Clearable' = Clearable
        /\ cleared' = cleared /\ orderly' = orderly
    BY Quantities
    DEF WatcherTypeOK, Pending, CountFailure, router, Countable, Chargeable, Clearable
  <1>2. /\ counted' \in 0..MaxCounted /\ charged' \in 0..MaxCounted
        /\ counted' <= counted + (IF locked THEN 0 ELSE 1)
        /\ charged' <= charged + (IF locked THEN 1 ELSE 0)
    BY <1>1, WatcherAssumption DEF CountFailure, WatcherTypeOK, Up
  <1>3. StreakRise(sample[t], screen) \in Nat /\ LockRise(sample[t], screen) \in Nat
    BY <1>1, RisesNat
  <1>4. orderly => /\ counted + (IF locked THEN 0 ELSE todo[t])
                        + StreakRise(sample[t], screen) <= Countable
                   /\ charged + (IF locked THEN todo[t] ELSE 0)
                        + LockRise(sample[t], screen) <= Chargeable
                   /\ cleared + Success(sample[t], screen) <= Clearable
    BY <1>1 DEF Balance, Accounted, Charged, Earned
  <1>5. CASE todo[t] = 1 /\ Remember(t)
    <2>1. WatcherTypeOK'
      BY <1>1, <1>2, <1>5, CleanSample DEF WatcherTypeOK, Remember
    <2>3. Pending'
      <3>1. /\ at'[t] = "idle"
            /\ \A u \in Tasks : u # t =>
                  /\ at'[u] = at[u] /\ sample'[u] = sample[u]
                  /\ todo'[u] = todo[u] /\ reported'[u] = reported[u]
        BY <1>1, <1>5 DEF Remember, WatcherTypeOK
      <3> QED BY <1>1, <3>1 DEF Pending
    <2>2. ASSUME orderly PROVE Balance'
      <3>1. /\ counted' + StreakRise(sample[t], screen) <= Countable
            /\ charged' + LockRise(sample[t], screen) <= Chargeable
        BY <1>1, <1>2, <1>3, <1>4, <1>5, <2>2
      <3> QED BY <1>1, <1>2, <1>4, <1>5, <2>2, <3>1, RememberInv
    <2> QED BY <1>1, <2>1, <2>2, <2>3
  <1>6. CASE todo[t] # 1 /\ reported' = [reported EXCEPT ![t] = @ + 1]
             /\ UNCHANGED <<snapshot, at, sample>>
    <2>1. WatcherTypeOK'
      BY <1>1, <1>2, <1>6 DEF WatcherTypeOK
    <2>3. Pending'
      <3>1. /\ todo'[t] = todo[t] - 1 /\ reported'[t] = reported[t] + 1
            /\ todo[t] \in Nat /\ todo[t] > 1 /\ reported[t] \in Nat /\ StreakLimit \in Nat
            /\ \A u \in Tasks : u # t => todo'[u] = todo[u] /\ reported'[u] = reported[u]
        BY <1>1, <1>6, WatcherAssumption
      <3> QED BY <1>1, <1>6, <3>1 DEF Pending
    <2>2. ASSUME orderly PROVE Balance'
      <3>1. \A u \in Tasks : u # t => at'[u] = "idle"
        BY <1>1, <1>6, <2>2 DEF Balance, Alone
      <3>2. Alone'
        BY <3>1 DEF Alone
      <3>3. /\ at'[t] = "counting" /\ todo'[t] = todo[t] - 1 /\ sample'[t] = sample[t]
            /\ counted' \in Nat /\ charged' \in Nat /\ todo[t] \in Nat
        BY <1>1, <1>2, <1>6
      <3>4. /\ counted' + (IF locked THEN 0 ELSE todo[t] - 1)
                  + StreakRise(sample[t], screen) <= Countable
            /\ charged' + (IF locked THEN todo[t] - 1 ELSE 0)
                  + LockRise(sample[t], screen) <= Chargeable
        BY <1>1, <1>2, <1>3, <1>4, <2>2, <3>3
      <3>5. Accounted' /\ Charged'
        BY <1>1, <1>6, <3>1, <3>3, <3>4 DEF Accounted, Charged, AllIdle
      <3>6. Earned'
        BY <1>1, <1>4, <1>6, <2>2, <3>1 DEF Earned, AllIdle
      <3> QED BY <3>2, <3>5, <3>6 DEF Balance
    <2> QED BY <1>1, <2>1, <2>2, <2>3
  <1> QED BY <1>5, <1>6 DEF CountFailure

LEMMA ReportUnlockInv ==
  ASSUME NEW t \in Tasks
  PROVE  WInv /\ ReportUnlock(t) => WInv'
  <1> SUFFICES ASSUME WInv, ReportUnlock(t) PROVE WInv'
    OBVIOUS
  <1> USE DEF WInv
  <1>1. /\ screen \in Samples /\ sample[t] \in Samples /\ snapshot \in Samples
        /\ counted \in Nat /\ charged \in Nat /\ cleared \in Nat
        /\ Countable \in Int /\ Chargeable \in Nat /\ Clearable \in Nat
        /\ at[t] = "clearing" /\ Remember(t) /\ todo' = todo
        /\ screen' = screen /\ typed' = typed /\ lockouts' = lockouts
        /\ unlocks' = unlocks /\ expiries' = expiries /\ cached' = cached
        /\ Countable' = Countable /\ Chargeable' = Chargeable /\ Clearable' = Clearable
        /\ counted' = counted /\ charged' = charged /\ orderly' = orderly
    BY Quantities
    DEF WatcherTypeOK, ReportUnlock, router, Countable, Chargeable, Clearable
  <1>2. cleared' \in 0..MaxCounted /\ cleared' <= cleared + 1
    BY <1>1, WatcherAssumption DEF ReportUnlock, WatcherTypeOK, Up
  <1>3. WatcherTypeOK'
    BY <1>1, <1>2, CleanSample DEF WatcherTypeOK, Remember
  <1>5. Pending'
    <2>1. /\ at'[t] = "idle"
          /\ \A u \in Tasks : u # t =>
                at'[u] = at[u] /\ sample'[u] = sample[u] /\ reported'[u] = reported[u]
      BY <1>1 DEF Remember, WatcherTypeOK
    <2> QED BY <1>1, <2>1 DEF Pending
  <1>4. ASSUME orderly PROVE Balance'
    <2>1. /\ counted + StreakRise(snapshot, sample[t])
                + StreakRise(sample[t], screen) <= Countable
          /\ charged + LockRise(snapshot, sample[t])
                + LockRise(sample[t], screen) <= Chargeable
          /\ cleared + 1 <= Clearable /\ IsClean(sample[t])
      BY <1>1, <1>4 DEF Pending, Balance, Accounted, Charged, Earned
    <2>2. /\ StreakRise(snapshot, sample[t]) \in Nat /\ LockRise(snapshot, sample[t]) \in Nat
          /\ StreakRise(sample[t], screen) \in Nat /\ LockRise(sample[t], screen) \in Nat
          /\ Success(sample[t], screen) = 0
      BY <1>1, <2>1, RisesNat, SuccessTriangle
    <2>3. /\ counted' + StreakRise(sample[t], screen) <= Countable
          /\ charged' + LockRise(sample[t], screen) <= Chargeable
          /\ cleared' + Success(sample[t], screen) <= Clearable
      BY <1>1, <1>2, <2>1, <2>2
    <2> QED BY <1>1, <1>2, <1>4, <2>3, RememberInv
  <1> QED BY <1>1, <1>3, <1>4, <1>5

-----------------------------------------------------------------------------
LEMMA StepInv == WInv /\ [Next]_vars => WInv'
  <1> SUFFICES ASSUME WInv, [Next]_vars PROVE WInv'
    OBVIOUS
  <1>1. CASE WrongPin
    BY <1>1, WrongPinInv
  <1>2. CASE LockoutExpires \/ RightPin
    BY <1>2, ScreenClearsInv
  <1>3. ASSUME NEW t \in Tasks, Take(t) \/ Misread(t) \/ Lose(t) \/ Apply(t) PROVE WInv'
    BY <1>3, TakeInv, MisreadInv, LoseInv, CompareInv, CountFailureInv, ReportUnlockInv
    DEF Apply
  <1>4. CASE Restart
    <2>1. WatcherTypeOK'
      BY <1>4, CleanSample DEF WInv, WatcherTypeOK, Restart, router, reports
    <2>2. Pending'
      BY <1>4, CleanSample DEF WInv, Pending, Restart, router
    <2> QED BY <1>4, <2>1, <2>2 DEF WInv, Restart
  <1>5. CASE Build \/ Invalidate \/ UNCHANGED vars
    <2>1. UNCHANGED <<router, snapshot, work, reports, orderly>> /\ cached' \in BOOLEAN
      BY <1>5 DEF Build, Invalidate, vars, WInv, WatcherTypeOK
    <2>2. WatcherTypeOK' /\ Pending'
      BY <2>1 DEF WInv, WatcherTypeOK, Pending, router, work, reports
    <2>3. Balance => Balance'
      BY <2>1 DEF Balance, Alone, Accounted, Charged, Earned, AllIdle,
                  router, work, reports, Countable, Chargeable, Clearable
    <2> QED BY <2>1, <2>2, <2>3 DEF WInv
  <1> QED BY <1>1, <1>2, <1>3, <1>4, <1>5 DEF Next

\* The balance is kept.
THEOREM WatcherBalance == Spec => []WInv
  BY InitInv, StepInv, PTL DEF Spec

\* Types, of all the bounds of the model.
THEOREM WatcherTypes == Spec => []WatcherTypeOK
  BY WatcherBalance, PTL DEF WInv

\* While samples are read, do not overlap and the controller stays up, apply_telemetry
\* reports a failure once at most for each of the two numbers it rises, for every streak
\* limit and any number of pushes.
THEOREM FailuresAreBounded == Spec => []FailuresBounded
  <1>1. WInv => FailuresBounded
    <2> SUFFICES ASSUME WInv, orderly PROVE counted <= Countable /\ charged <= Chargeable
      BY DEF FailuresBounded, Countable, Chargeable
    <2>1. /\ snapshot \in Samples /\ screen \in Samples
          /\ counted \in Nat /\ charged \in Nat /\ Countable \in Int /\ Chargeable \in Nat
          /\ \A t \in Tasks : /\ sample[t] \in Samples /\ todo[t] \in Nat
                              /\ at[t] \in {"idle", "travels", "counting", "clearing"}
      BY Quantities DEF WInv, WatcherTypeOK
    <2>2. \A a, b \in Samples : StreakRise(a, b) \in Nat /\ LockRise(a, b) \in Nat
      BY RisesNat
    <2>3. CASE AllIdle
      BY <2>1, <2>2, <2>3 DEF WInv, Balance, Accounted, Charged
    <2>4. CASE ~AllIdle
      BY <2>1, <2>2, <2>4 DEF WInv, Balance, Accounted, Charged, AllIdle
    <2> QED BY <2>3, <2>4
  <1> QED BY <1>1, WatcherBalance, PTL

\* The controller never comes to remember a lockout without having reported, for that
\* very sample, all the failures behind it, whatever overlaps and restarts.
THEOREM LockoutsAreCounted == Spec => LockoutsCount
  <1> DEFINE Seen == snapshot.exceed = 0 /\ snapshot'.exceed > 0 =>
                        \E t \in Tasks : /\ at[t] = "counting"
                                         /\ sample[t] = snapshot'
                                         /\ reported[t] + 1 >= StreakLimit
  <1>1. WInv /\ [Next]_vars => [Seen]_vars
    <2> SUFFICES ASSUME WInv, Next, snapshot.exceed = 0, snapshot'.exceed > 0
                 PROVE  \E t \in Tasks : /\ at[t] = "counting"
                                         /\ sample[t] = snapshot'
                                         /\ reported[t] + 1 >= StreakLimit
      OBVIOUS
    <2>1. snapshot' # snapshot /\ snapshot' # Clean
      BY DEF Clean
    <2>2. PICK t \in Tasks : Apply(t)
      BY <2>1 DEF Next, WrongPin, LockoutExpires, RightPin, Take, Misread, Sends, Lose,
                  Build, Invalidate, Restart
    <2>3. /\ snapshot' = sample[t] /\ snapshot \in Samples /\ sample[t] \in Samples
          /\ todo[t] \in Nat /\ reported[t] \in Nat /\ StreakLimit \in Nat /\ StreakLimit > 0
      BY <2>1, <2>2, WatcherAssumption
      DEF Apply, Compare, CountFailure, ReportUnlock, Remember, WInv, WatcherTypeOK
    <2>4. CASE Compare(t)
      <3>1. NewFailures(snapshot, sample[t]) = 0
        BY <2>1, <2>4 DEF Compare
      <3> QED BY <2>3, <3>1, NewLockout, SamplesNat
    <2>5. CASE CountFailure(t)
      <3>1. at[t] = "counting" /\ todo[t] = 1
        BY <2>1, <2>5 DEF CountFailure
      <3> QED BY <2>3, <3>1 DEF WInv, Pending
    <2>6. CASE ReportUnlock(t)
      BY <2>3, <2>6 DEF ReportUnlock, WInv, Pending, IsClean
    <2> QED BY <2>2, <2>4, <2>5, <2>6 DEF Apply
  <1> QED BY <1>1, WatcherBalance, PTL DEF Spec, LockoutsCount

\* While samples are read and do not overlap the cumulative counter is cleared no more
\* often than the screen was unlocked or a lockout ran out.
THEOREM ClearsAreEarned == Spec => []ClearsEarned
  <1>1. WInv => ClearsEarned
    <2> SUFFICES ASSUME WInv, orderly PROVE cleared <= Clearable
      BY DEF ClearsEarned, Clearable
    <2>1. /\ snapshot \in Samples /\ screen \in Samples /\ cleared \in Nat /\ Clearable \in Nat
          /\ \A t \in Tasks : /\ sample[t] \in Samples
                              /\ at[t] \in {"idle", "travels", "counting", "clearing"}
      BY Quantities DEF WInv, WatcherTypeOK
    <2>2. \A a, b \in Samples : Success(a, b) \in {0, 1}
      BY SuccessTriangle
    <2>3. CASE AllIdle
      BY <2>1, <2>2, <2>3 DEF WInv, Balance, Earned
    <2>4. CASE ~AllIdle
      BY <2>1, <2>2, <2>4 DEF WInv, Balance, Earned, AllIdle
    <2> QED BY <2>3, <2>4
  <1> QED BY <1>1, WatcherBalance, PTL
=============================================================================
