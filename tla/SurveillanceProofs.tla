------------------------- MODULE SurveillanceProofs -------------------------
(***************************************************************************)
(* Every pass a session counts was stored, and only the deletion of that   *)
(* very scan takes it away, for any number of sessions, bands and          *)
(* concurrent operators; and as long as one operator works at a time,      *)
(* active sessions stay scheduled.                                         *)
(*                                                                         *)
(* The counts of a row change together (StorePass) or are reset together   *)
(* (DeleteCommit), and a scan that is deleted alone passes from one count  *)
(* to the other (DeleteScan); what has to be ruled out is a row that comes *)
(* to life with an old count: supervisor and register_all complete only    *)
(* rows that exist, because a commit that misses one is rolled back.       *)
(***************************************************************************)
EXTENDS Surveillance, TLAPS

\* The bound on what is stored holds of what was deleted too.
Bounded == \A id \in Ids : scans[id] + removed[id] <= MaxScans

Inv == SurveillanceTypeOK /\ Bounded /\ PassesAreStored

LEMMA InitInv == Init => Inv
BY SurveillanceAssumption
   DEF Init, Inv, Bounded, SurveillanceTypeOK, PassesAreStored, Ids, Rows

(***************************************************************************)
(* Types                                                                   *)
(***************************************************************************)

LEMMA OperatorTypes ==
    ASSUME SurveillanceTypeOK, NEW o \in Operators, Request(o) \/ Proceed(o)
    PROVE  SurveillanceTypeOK'
<1> USE SurveillanceAssumption DEF SurveillanceTypeOK, Goto, Proceeds, Ends
<1>1. CASE StartSession(o)
    BY <1>1 DEF StartSession, supVars, regVars
<1>2. ASSUME NEW id \in Ids, NEW place \in {"cancel", "deleteCancel"},
             CancelRead(o, id, place)
      PROVE  SurveillanceTypeOK'
    BY <1>2 DEF CancelRead, tableVars, supVars, regVars
<1>3. ASSUME NEW id \in Ids, CancelSession(o, id) \/ DeleteSession(o, id)
      PROVE  SurveillanceTypeOK'
    BY <1>2, <1>3 DEF CancelSession, DeleteSession, tableVars, supVars, regVars
<1>4. 1 \in Ids
    BY DEF Ids
<1>5. CASE Schedule(o)
    BY <1>4, <1>5 DEF Schedule, tableVars, supVars, regVars
<1>6. CASE CancelCommit(o)
    BY <1>4, <1>6 DEF CancelCommit, supVars, regVars, Terminal
<1>7. CASE RemoveJobs(o)
    BY <1>4, <1>7 DEF RemoveJobs, tableVars, supVars, regVars
<1>8. CASE DeleteCommit(o)
    BY <1>4, <1>8 DEF DeleteCommit, supVars, regVars
<1> QED
    BY <1>1, <1>3, <1>5, <1>6, <1>7, <1>8 DEF Request, Proceed

\* A pass that can be stored finds its count, and that of its scans, below the bound.
LEMMA RoomForPass ==
    ASSUME Inv, NEW id \in Ids, NEW band \in Bands, StorePass(id, band)
    PROVE  /\ scans[id] + 1 \in 0..MaxScans
           /\ id \in Rows => passes[id] + 1 \in 0..MaxScans
<1>1. scans[id] + removed[id] < MaxScans
    BY DEF StorePass
<1>2. scans[id] \in 0..MaxScans /\ removed[id] \in 0..MaxScans /\ passes[id] \in 0..MaxScans
    BY DEF Inv, SurveillanceTypeOK
<1>3. id \in Rows => passes[id] <= scans[id] + removed[id]
    BY DEF Inv, PassesAreStored
<1> QED
    BY <1>1, <1>2, <1>3, SurveillanceAssumption

\* A scan that is deleted alone is remembered only for a session that stored it.
LEMMA RoomForRemoved ==
    ASSUME Inv, NEW id \in Ids, DeleteScan(id)
    PROVE  removed[id] + 1 \in 0..MaxScans /\ scans[id] - 1 \in 0..MaxScans
BY SurveillanceAssumption DEF DeleteScan, Inv, SurveillanceTypeOK, Bounded

LEMMA PassTypes ==
    ASSUME Inv, NEW id \in Ids, NEW band \in Bands,
           StartPass(id, band) \/ Pass(id, band)
    PROVE  SurveillanceTypeOK'
<1> USE SurveillanceAssumption DEF SurveillanceTypeOK, Inv
<1>1. CASE StartPass(id, band)
    BY <1>1 DEF StartPass, tableVars, supVars, regVars, operatorVars
<1>2. CASE PassFails(id, band)
    BY <1>2 DEF PassFails, tableVars, supVars, regVars, operatorVars
<1>3. CASE StorePass(id, band)
    <2>1. scans' \in [Ids -> 0..MaxScans]
        BY <1>3, RoomForPass DEF StorePass
    <2>2. passes' \in [Ids -> 0..MaxScans]
        BY <1>3, RoomForPass DEF StorePass, Active, Rows
    <2> QED
        BY <1>3, <2>1, <2>2 DEF StorePass, supVars, regVars, operatorVars
<1> QED
    BY <1>1, <1>2, <1>3 DEF Pass

LEMMA SchedulerTypes ==
    ASSUME SurveillanceTypeOK,
           \/ Supervise \/ SuperviseCommit \/ SuperviseRollback
           \/ Register \/ RegisterJobs \/ RegisterCommit
    PROVE  SurveillanceTypeOK'
<1> USE SurveillanceAssumption DEF SurveillanceTypeOK
<1>1. CASE Supervise
    BY <1>1 DEF Supervise, Active, tableVars, regVars, operatorVars
<1>2. CASE SuperviseCommit
    BY <1>2 DEF SuperviseCommit, Complete, Terminal, regVars, operatorVars
<1>3. CASE SuperviseRollback
    BY <1>3 DEF SuperviseRollback, tableVars, regVars, operatorVars
<1>4. CASE Register
    BY <1>4 DEF Register, Active, tableVars, supVars, operatorVars
<1>5. CASE RegisterJobs
    BY <1>5 DEF RegisterJobs, tableVars, supVars, operatorVars
<1>6. CASE RegisterCommit
    BY <1>6 DEF RegisterCommit, Complete, Terminal, operatorVars
<1> QED
    BY <1>1, <1>2, <1>3, <1>4, <1>5, <1>6

LEMMA TypeStep == Inv /\ [Next]_vars => SurveillanceTypeOK'
<1> SUFFICES ASSUME Inv, [Next]_vars PROVE SurveillanceTypeOK'
    OBVIOUS
<1>1. ASSUME NEW id \in Ids, DeadlinePasses(id) PROVE SurveillanceTypeOK'
    BY <1>1 DEF DeadlinePasses, supVars, regVars, operatorVars, Inv, SurveillanceTypeOK
<1>2. ASSUME NEW id \in Ids, DeleteScan(id) PROVE SurveillanceTypeOK'
    BY <1>2, RoomForRemoved
       DEF DeleteScan, supVars, regVars, operatorVars, Inv, SurveillanceTypeOK
<1>3. CASE Restart
    BY <1>3, SurveillanceAssumption DEF Restart, tableVars, Inv, SurveillanceTypeOK, Ids
<1>4. CASE UNCHANGED vars
    BY <1>4 DEF vars, tableVars, supVars, regVars, operatorVars, Inv, SurveillanceTypeOK
<1> QED
    BY <1>1, <1>2, <1>3, <1>4, OperatorTypes, PassTypes, SchedulerTypes DEF Next, Inv

(***************************************************************************)
(* Counts                                                                  *)
(***************************************************************************)
Counts == Bounded /\ PassesAreStored

\* A step that leaves the counts alone and brings no row to life keeps them in order.
LEMMA CountsKept ==
    ASSUME Inv, UNCHANGED <<passes, scans, removed>>, Rows' \subseteq Rows
    PROVE  Counts'
BY DEF Inv, Bounded, PassesAreStored, Counts

LEMMA CountsStep == Inv /\ [Next]_vars => Counts'
<1> SUFFICES ASSUME Inv, [Next]_vars PROVE Counts'
    OBVIOUS
<1>1. CASE UNCHANGED tableVars
    BY <1>1, CountsKept DEF tableVars, Rows
<1>2. ASSUME NEW o \in Operators, StartSession(o) PROVE Counts'
    BY <1>2, SurveillanceAssumption
       DEF StartSession, Inv, Bounded, SurveillanceTypeOK, PassesAreStored, Rows, Counts
<1>3. ASSUME NEW o \in Operators, CancelCommit(o) PROVE Counts'
    BY <1>3, CountsKept DEF CancelCommit, Inv, SurveillanceTypeOK, Rows
<1>4. ASSUME NEW o \in Operators, DeleteCommit(o) PROVE Counts'
    BY <1>4, SurveillanceAssumption
       DEF DeleteCommit, Inv, Bounded, SurveillanceTypeOK, PassesAreStored, Rows, Counts
<1>5. ASSUME NEW id \in Ids, NEW band \in Bands, StorePass(id, band) PROVE Counts'
    <2>1. /\ scans' = [scans EXCEPT ![id] = @ + 1]
          /\ passes' \in {passes, [passes EXCEPT ![id] = @ + 1]}
          /\ removed' = removed /\ Rows' = Rows
          /\ scans[id] + removed[id] < MaxScans
        BY <1>5 DEF StorePass, Rows
    <2>2. \A s \in Ids : /\ passes[s] \in Nat /\ scans[s] \in Nat /\ removed[s] \in Nat
                         /\ scans[s] + removed[s] <= MaxScans
                         /\ s \in Rows => passes[s] <= scans[s] + removed[s]
        BY SurveillanceAssumption DEF Inv, Bounded, PassesAreStored, SurveillanceTypeOK
    <2>3. \A s \in Ids : scans'[s] = IF s = id THEN scans[s] + 1 ELSE scans[s]
        BY <2>1 DEF Inv, SurveillanceTypeOK
    <2>4. \A s \in Ids : passes'[s] = passes[s] \/ (s = id /\ passes'[s] = passes[s] + 1)
        BY <2>1 DEF Inv, SurveillanceTypeOK
    <2>5. Bounded'
        BY <2>1, <2>2, <2>3, SurveillanceAssumption DEF Bounded
    <2>6. PassesAreStored'
        BY <2>1, <2>2, <2>3, <2>4 DEF PassesAreStored, Rows
    <2> QED
        BY <2>5, <2>6 DEF Counts
<1>6. ASSUME NEW id \in Ids, DeleteScan(id) PROVE Counts'
    <2>1. /\ scans' = [scans EXCEPT ![id] = @ - 1]
          /\ removed' = [removed EXCEPT ![id] = IF id \in Rows THEN @ + 1 ELSE @]
          /\ passes' = passes /\ Rows' = Rows
        BY <1>6 DEF DeleteScan, Rows
    <2>2. \A s \in Ids : /\ passes[s] \in Nat /\ scans[s] \in Nat /\ removed[s] \in Nat
                         /\ scans[s] + removed[s] <= MaxScans
                         /\ s \in Rows => passes[s] <= scans[s] + removed[s]
        BY SurveillanceAssumption DEF Inv, Bounded, PassesAreStored, SurveillanceTypeOK
    <2>3. \A s \in Ids : scans'[s] = IF s = id THEN scans[s] - 1 ELSE scans[s]
        BY <2>1 DEF Inv, SurveillanceTypeOK
    <2>4. \A s \in Ids :
             removed'[s] = IF s = id /\ id \in Rows THEN removed[s] + 1 ELSE removed[s]
        BY <2>1 DEF Inv, SurveillanceTypeOK
    <2>5. Bounded'
        BY <2>2, <2>3, <2>4, SurveillanceAssumption DEF Bounded
    <2>6. PassesAreStored'
        BY <2>1, <2>2, <2>3, <2>4 DEF PassesAreStored, Rows
    <2> QED
        BY <2>5, <2>6 DEF Counts
<1>7. CASE SuperviseCommit
    BY <1>7, CountsKept DEF SuperviseCommit, Complete, Rows
<1>8. CASE RegisterCommit
    BY <1>8, CountsKept DEF RegisterCommit, Complete, Rows
<1>9. ASSUME NEW id \in Ids, DeadlinePasses(id) PROVE Counts'
    BY <1>9, CountsKept DEF DeadlinePasses, Rows
<1>10. CASE UNCHANGED vars
    BY <1>10, <1>1 DEF vars
<1> QED
    BY <1>1, <1>2, <1>3, <1>4, <1>5, <1>6, <1>7, <1>8, <1>9, <1>10
       DEF Next, Request, Proceed, CancelSession, DeleteSession, CancelRead, Schedule,
           RemoveJobs, StartPass, Pass, PassFails, Supervise, SuperviseRollback,
           Register, RegisterJobs, Restart

LEMMA InvStep == Inv /\ [Next]_vars => Inv'
BY TypeStep, CountsStep DEF Inv, Counts

\* Every variable keeps its type, for any number of sessions, bands and operators
\* (surveillance.py:96-324).
THEOREM SessionTypes == Spec => []SurveillanceTypeOK
<1>1. Inv => SurveillanceTypeOK
    BY DEF Inv
<1> QED
    BY InitInv, InvStep, <1>1, PTL DEF Spec

\* Every pass a session counts was stored for its timeline, and nothing but the deletion
\* of that one scan takes it away (surveillance.py:254-299, scan_history.py:253-275),
\* whatever deletes of sessions, late passes and identifiers used again are interleaved.
THEOREM CountedPassesAreStored == Spec => []PassesAreStored
<1>1. Inv => PassesAreStored
    BY DEF Inv
<1> QED
    BY InitInv, InvStep, <1>1, PTL DEF Spec

(***************************************************************************)
(* Jobs of active sessions, with one operator's request at a time          *)
(*                                                                         *)
(* Until register_all has added them, the jobs of a session it is about to *)
(* schedule are in what it SELECTed; and a request that takes the jobs of  *)
(* a session away has ended the session before.                            *)
(***************************************************************************)
OneOperator == \A o, p \in Operators : o = p

\* No request is at work on the session.
LeftAlone(id) == \A o \in Operators : at[o] = "idle" \/ about[o] # id

\* The sessions that have their jobs, or get them in the next step of register_all.
Provided == IF reg = "read" THEN jobs \cup found ELSE jobs

ScheduledOnceRegistered ==
    reg # "off" => \A id \in Active \ due : LeftAlone(id) => id \in Provided

EndedBeforeRemoval ==
    \A o \in Operators :
        at[o] \in {"remove", "deleteRemove", "delete"} => status[about[o]] # "active"

ScheduleInv == Inv /\ ScheduledOnceRegistered /\ EndedBeforeRemoval

LEMMA InitScheduled == Init => ScheduleInv
BY InitInv DEF Init, ScheduleInv, ScheduledOnceRegistered, EndedBeforeRemoval

LEMMA OperatorSchedules ==
    ASSUME OneOperator, ScheduleInv, NEW o \in Operators, Request(o) \/ Proceed(o)
    PROVE  ScheduledOnceRegistered' /\ EndedBeforeRemoval'
<1> USE DEF ScheduleInv, ScheduledOnceRegistered, EndedBeforeRemoval, LeftAlone, Provided,
            Active, Goto, Proceeds, Ends, OneOperator, Inv, SurveillanceTypeOK
<1>1. CASE StartSession(o)
    BY <1>1 DEF StartSession, supVars, regVars
<1>2. ASSUME NEW id \in Ids, NEW place \in {"cancel", "deleteCancel"}, at[o] = "idle",
             CancelRead(o, id, place)
      PROVE  ScheduledOnceRegistered' /\ EndedBeforeRemoval'
    BY <1>2 DEF CancelRead, tableVars, supVars, regVars
<1>3. ASSUME NEW id \in Ids, at[o] = "idle", status[id] # "active", Goto(o, "delete"),
             about' = [about EXCEPT ![o] = id],
             UNCHANGED <<tableVars, jobs, scanning, supVars, regVars>>
      PROVE  ScheduledOnceRegistered' /\ EndedBeforeRemoval'
    BY <1>3 DEF tableVars, supVars, regVars
<1>4. ASSUME NEW id \in Ids, CancelSession(o, id) \/ DeleteSession(o, id)
      PROVE  ScheduledOnceRegistered' /\ EndedBeforeRemoval'
    <2> HIDE DEF ScheduledOnceRegistered, EndedBeforeRemoval, ScheduleInv
    <2> QED
        BY <1>2, <1>3, <1>4 DEF CancelSession, DeleteSession
<1>5. CASE Schedule(o)
    BY <1>5 DEF Schedule, tableVars, supVars, regVars
<1>6. CASE CancelCommit(o)
    BY <1>6 DEF CancelCommit, Rows, supVars, regVars
<1>7. CASE RemoveJobs(o)
    BY <1>7 DEF RemoveJobs, tableVars, supVars, regVars
<1>8. CASE DeleteCommit(o)
    BY <1>8 DEF DeleteCommit, supVars, regVars
<1> QED
    BY <1>1, <1>4, <1>5, <1>6, <1>7, <1>8 DEF Request, Proceed

LEMMA SchedulerSchedules ==
    ASSUME ScheduleInv,
           \/ Supervise \/ SuperviseCommit \/ SuperviseRollback
           \/ Register \/ RegisterJobs \/ RegisterCommit
    PROVE  ScheduledOnceRegistered' /\ EndedBeforeRemoval'
<1> USE DEF ScheduleInv, ScheduledOnceRegistered, EndedBeforeRemoval, LeftAlone, Provided,
            Active, Inv, SurveillanceTypeOK
<1>1. CASE Supervise
    BY <1>1 DEF Supervise, tableVars, regVars, operatorVars
<1>2. CASE SuperviseCommit
    BY <1>2 DEF SuperviseCommit, Complete, regVars, operatorVars
<1>3. CASE SuperviseRollback
    BY <1>3 DEF SuperviseRollback, tableVars, regVars, operatorVars
<1>4. CASE Register
    BY <1>4 DEF Register, tableVars, supVars, operatorVars
<1>5. CASE RegisterJobs
    BY <1>5 DEF RegisterJobs, tableVars, supVars, operatorVars
<1>6. CASE RegisterCommit
    BY <1>6 DEF RegisterCommit, Complete, operatorVars
<1> QED
    BY <1>1, <1>2, <1>3, <1>4, <1>5, <1>6

LEMMA ScheduleStep ==
    ASSUME OneOperator, ScheduleInv, [Next]_vars
    PROVE  ScheduleInv'
<1>1. Inv'
    BY InvStep DEF ScheduleInv
<1>2. ScheduledOnceRegistered' /\ EndedBeforeRemoval'
    <2> USE DEF ScheduleInv, ScheduledOnceRegistered, EndedBeforeRemoval, LeftAlone, Provided,
                Active
    <2>1. ASSUME NEW id \in Ids, NEW band \in Bands, StartPass(id, band) \/ Pass(id, band)
          PROVE  ScheduledOnceRegistered' /\ EndedBeforeRemoval'
        BY <2>1 DEF StartPass, Pass, PassFails, StorePass, tableVars, supVars, regVars,
                    operatorVars
    <2>2. ASSUME NEW id \in Ids, DeadlinePasses(id)
          PROVE  ScheduledOnceRegistered' /\ EndedBeforeRemoval'
        BY <2>2 DEF DeadlinePasses, supVars, regVars, operatorVars
    <2>3. ASSUME NEW id \in Ids, DeleteScan(id)
          PROVE  ScheduledOnceRegistered' /\ EndedBeforeRemoval'
        BY <2>3 DEF DeleteScan, supVars, regVars, operatorVars
    <2>4. CASE Restart
        BY <2>4 DEF Restart, tableVars
    <2>5. CASE UNCHANGED vars
        BY <2>5 DEF vars, tableVars, supVars, regVars, operatorVars
    <2> HIDE DEF ScheduleInv, ScheduledOnceRegistered, EndedBeforeRemoval
    <2> QED
        BY <2>1, <2>2, <2>3, <2>4, <2>5, OperatorSchedules, SchedulerSchedules DEF Next
<1> QED
    BY <1>1, <1>2 DEF ScheduleInv

\* db/models.py:1167, `status="active"`: job is running.  With one operator's request at a
\* time, a session shown as active before its deadline has its jobs once register_all has
\* run, for any number of sessions and whatever restarts, re-registrations, rolled-back
\* commits and identifiers used again came before.
THEOREM ActiveStaysScheduled == ASSUME OneOperator PROVE Spec => []ActiveIsScheduled
<1>1. Init => ScheduleInv
    BY InitScheduled
<1>2. ScheduleInv /\ [Next]_vars => ScheduleInv'
    BY ScheduleStep
<1>3. ScheduleInv => ActiveIsScheduled
    BY DEF ScheduleInv, ScheduledOnceRegistered, LeftAlone, Provided, ActiveIsScheduled
<1> QED
    BY <1>1, <1>2, <1>3, PTL DEF Spec
=============================================================================
