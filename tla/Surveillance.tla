---------------------------- MODULE Surveillance ----------------------------
(***************************************************************************)
(* WiFi surveillance sessions: app/scheduler/surveillance.py and the       *)
(* routes of app/api/routes/surveillance.py that change them.              *)
(*                                                                         *)
(* A session is a row with a status, scheduler jobs that scan, and the     *)
(* rows its scans leave.  Operators start, cancel and delete sessions, a   *)
(* supervisor completes those whose deadline has passed, and register_all  *)
(* picks the active ones up again after a restart or an adoption.  Each    *)
(* SELECTs rows and commits later; a commit that updates a row which is    *)
(* gone raises StaleDataError and rolls back.  SQLite enforces no foreign  *)
(* key here, and gives a new row the identifier after the largest one.     *)
(*                                                                         *)
(* The jobs of a session, one per band, are added and removed together;    *)
(* their passes overlap.                                                   *)
(***************************************************************************)
EXTENDS Naturals

CONSTANTS
    MaxId,      \* bound on the identifiers of sessions
    Bands,      \* bands of a session
    Operators,  \* requests of operators
    MaxScans    \* bound: no scan is stored once an identifier has, or had, this many

ASSUME SurveillanceAssumption ==
    /\ MaxId \in Nat \ {0}
    /\ MaxScans \in Nat \ {0}

VARIABLES
    status,   \* the column of each session, "none" without a row
    due,      \* sessions whose deadline has passed
    passes,   \* total_passes
    scans,    \* scan_history rows with that session_id
    removed,  \* history: those that were deleted one by one from a session
    jobs,     \* sessions with scheduler jobs
    scanning, \* <<session, band>> of the passes in progress
    sup,      \* the supervisor job
    ending,   \* the sessions it is about to complete
    reg,      \* register_all
    found,    \* the sessions it has SELECTed
    at,       \* where each operator's request is
    about     \* the session it is about, 1 without a request

tableVars == <<status, due, passes, scans, removed>>
supVars == <<sup, ending>>
regVars == <<reg, found>>
operatorVars == <<at, about>>
vars == <<tableVars, jobs, scanning, supVars, regVars, operatorVars>>

Ids == 1..MaxId
Rows == {id \in Ids : status[id] # "none"}
Active == {id \in Ids : status[id] = "active"}
Terminal == {"completed", "cancelled"}

Goto(o, place) == at' = [at EXCEPT ![o] = place]
Proceeds(o, place) == Goto(o, place) /\ UNCHANGED about
Ends(o) == Goto(o, "idle") /\ about' = [about EXCEPT ![o] = 1]

(***************************************************************************)
(* Starting and cancelling                                                 *)
(***************************************************************************)

\* start_session commits the row; the jobs follow once it is read back.
StartSession(o) ==
    /\ at[o] = "idle"
    /\ \E id \in Ids :
          /\ \A used \in Rows : used < id
          /\ id = 1 \/ id - 1 \in Rows
          /\ status' = [status EXCEPT ![id] = "active"]
          /\ passes' = [passes EXCEPT ![id] = 0]
          /\ due' = due \ {id}
          /\ about' = [about EXCEPT ![o] = id]
    /\ Goto(o, "schedule")
    /\ UNCHANGED <<scans, removed, jobs, scanning, supVars, regVars>>

Schedule(o) ==
    /\ at[o] = "schedule"
    /\ jobs' = jobs \cup {about[o]}
    /\ Ends(o)
    /\ UNCHANGED <<tableVars, scanning, supVars, regVars>>

\* cancel_session, from its own route or from a delete: only an active session goes
\* on to the commit.
CancelRead(o, id, place) ==
    /\ status[id] = "active"
    /\ Goto(o, place)
    /\ about' = [about EXCEPT ![o] = id]
    /\ UNCHANGED <<tableVars, jobs, scanning, supVars, regVars>>

CancelSession(o, id) == at[o] = "idle" /\ CancelRead(o, id, "cancel")

\* Faulty variant: a spelling of the status nobody asks for.
CancelMisspelt(o) ==
    /\ at[o] \in {"cancel", "deleteCancel"}
    /\ status' = [status EXCEPT ![about[o]] = "canceled"]
    /\ Proceeds(o, IF at[o] = "cancel" THEN "remove" ELSE "deleteRemove")
    /\ UNCHANGED <<due, passes, scans, removed, jobs, scanning, supVars, regVars>>

\* The UPDATE overwrites whatever the status is by now; without the row it raises.
CancelCommit(o) ==
    /\ at[o] \in {"cancel", "deleteCancel"}
    /\ IF about[o] \in Rows
       THEN /\ status' = [status EXCEPT ![about[o]] = "cancelled"]
            /\ Proceeds(o, IF at[o] = "cancel" THEN "remove" ELSE "deleteRemove")
       ELSE Ends(o) /\ UNCHANGED status
    /\ UNCHANGED <<due, passes, scans, removed, jobs, scanning, supVars, regVars>>

RemoveJobs(o) ==
    /\ at[o] \in {"remove", "deleteRemove"}
    /\ jobs' = jobs \ {about[o]}
    /\ IF at[o] = "remove" THEN Ends(o) ELSE Proceeds(o, "delete")
    /\ UNCHANGED <<tableVars, scanning, supVars, regVars>>

(***************************************************************************)
(* DELETE /wifi/surveillance/{id}                                          *)
(***************************************************************************)

\* An active session is cancelled first.
DeleteSession(o, id) ==
    /\ at[o] = "idle"
    /\ id \in Rows
    /\ \/ CancelRead(o, id, "deleteCancel")
       \/ /\ status[id] # "active"
          /\ Goto(o, "delete")
          /\ about' = [about EXCEPT ![o] = id]
          /\ UNCHANGED <<tableVars, jobs, scanning, supVars, regVars>>

\* Faulty variant: the scans go, the session stays.
DeleteScansOnly(o) ==
    /\ at[o] = "delete"
    /\ scans' = [scans EXCEPT ![about[o]] = 0]
    /\ Ends(o)
    /\ UNCHANGED <<status, passes, due, removed, jobs, scanning, supVars, regVars>>

\* One transaction for the scans and the session.
DeleteCommit(o) ==
    /\ at[o] = "delete"
    /\ scans' = [scans EXCEPT ![about[o]] = 0]
    /\ status' = [status EXCEPT ![about[o]] = "none"]
    /\ passes' = [passes EXCEPT ![about[o]] = 0]
    /\ removed' = [removed EXCEPT ![about[o]] = 0]
    /\ due' = due \ {about[o]}
    /\ Ends(o)
    /\ UNCHANGED <<jobs, scanning, supVars, regVars>>

(***************************************************************************)
(* _run_pass                                                               *)
(***************************************************************************)

\* A job fires on an active session; max_instances is one.
StartPass(id, band) ==
    /\ id \in jobs \cap Active
    /\ <<id, band>> \notin scanning
    /\ scanning' = scanning \cup {<<id, band>>}
    /\ UNCHANGED <<tableVars, jobs, supVars, regVars, operatorVars>>

\* No connection, or the scan fails.
PassFails(id, band) ==
    /\ <<id, band>> \in scanning
    /\ scanning' = scanning \ {<<id, band>>}
    /\ UNCHANGED <<tableVars, jobs, supVars, regVars, operatorVars>>

\* The scan is stored under the session's identifier in any case, and counted if a
\* session of that identifier is active.
StorePass(id, band) ==
    /\ <<id, band>> \in scanning
    /\ \A other \in Ids : scans[other] + removed[other] < MaxScans
    /\ scanning' = scanning \ {<<id, band>>}
    /\ scans' = [scans EXCEPT ![id] = @ + 1]
    /\ passes' = IF id \in Active THEN [passes EXCEPT ![id] = @ + 1] ELSE passes
    /\ UNCHANGED <<status, due, removed, jobs, supVars, regVars, operatorVars>>

(***************************************************************************)
(* DELETE /wifi/scan-history/{scan_id}                                     *)
(***************************************************************************)

\* One scan goes; the session it belongs to goes on counting it.
DeleteScan(id) ==
    /\ scans[id] > 0
    /\ scans' = [scans EXCEPT ![id] = @ - 1]
    /\ removed' = [removed EXCEPT ![id] = IF id \in Rows THEN @ + 1 ELSE @]
    /\ UNCHANGED <<status, due, passes, jobs, scanning, supVars, regVars, operatorVars>>

(***************************************************************************)
(* _run_supervisor and register_all                                        *)
(***************************************************************************)

\* Faulty variant: the jobs of every active session go.
SuperviseRemovesAll ==
    /\ sup = "idle"
    /\ sup' = "commit"
    /\ ending' = Active \cap due
    /\ jobs' = jobs \ Active
    /\ UNCHANGED <<tableVars, scanning, regVars, operatorVars>>

\* Faulty variant: only sessions that still have jobs are looked at.
SuperviseJobsOnly ==
    /\ sup = "idle"
    /\ sup' = "commit"
    /\ ending' = Active \cap due \cap jobs
    /\ jobs' = jobs \ ending'
    /\ UNCHANGED <<tableVars, scanning, regVars, operatorVars>>

\* The supervisor has SELECTed the active sessions; the jobs of those past their
\* deadline go at once.
Supervise ==
    /\ sup = "idle"
    /\ sup' = "commit"
    /\ ending' = Active \cap due
    /\ jobs' = jobs \ ending'
    /\ UNCHANGED <<tableVars, scanning, regVars, operatorVars>>

Complete(ids) == status' = [id \in Ids |-> IF id \in ids THEN "completed" ELSE status[id]]

SuperviseCommit ==
    /\ sup = "commit"
    /\ ending \subseteq Rows
    /\ Complete(ending)
    /\ sup' = "idle"
    /\ ending' = {}
    /\ UNCHANGED <<due, passes, scans, removed, jobs, scanning, regVars, operatorVars>>

\* One of the rows is gone: nothing is completed in this round.
SuperviseRollback ==
    /\ sup = "commit"
    /\ ~(ending \subseteq Rows)
    /\ sup' = "idle"
    /\ ending' = {}
    /\ UNCHANGED <<tableVars, jobs, scanning, regVars, operatorVars>>

\* register_all, at boot and after an adoption.
Register ==
    /\ reg \in {"off", "done"}
    /\ reg' = "read"
    /\ found' = Active
    /\ UNCHANGED <<tableVars, jobs, scanning, supVars, operatorVars>>

RegisterJobs ==
    /\ reg = "read"
    /\ reg' = "commit"
    /\ jobs' = jobs \cup (found \ due)
    /\ found' = found \cap due
    /\ UNCHANGED <<tableVars, scanning, supVars, operatorVars>>

\* The supervisor is added after the commit, which a row that is gone makes fail.
RegisterCommit ==
    /\ reg = "commit"
    /\ \/ /\ found \subseteq Rows
          /\ Complete(found)
          /\ sup' = IF sup = "off" THEN "idle" ELSE sup
       \/ /\ ~(found \subseteq Rows)
          /\ UNCHANGED <<status, sup>>
    /\ reg' = "done"
    /\ found' = {}
    /\ UNCHANGED <<due, passes, scans, removed, jobs, scanning, ending, operatorVars>>

(***************************************************************************)
(* Environment                                                             *)
(***************************************************************************)
DeadlinePasses(id) ==
    /\ id \in Active \ due
    /\ due' = due \cup {id}
    /\ UNCHANGED <<status, passes, scans, removed, jobs, scanning, supVars, regVars,
                   operatorVars>>

\* The controller restarts: the database stays.
Restart ==
    /\ jobs' = {}
    /\ scanning' = {}
    /\ sup' = "off"
    /\ ending' = {}
    /\ reg' = "off"
    /\ found' = {}
    /\ at' = [o \in Operators |-> "idle"]
    /\ about' = [o \in Operators |-> 1]
    /\ UNCHANGED tableVars

(***************************************************************************)
(* Specification                                                           *)
(***************************************************************************)
Init ==
    /\ status = [id \in Ids |-> "none"]
    /\ due = {}
    /\ passes = [id \in Ids |-> 0]
    /\ scans = [id \in Ids |-> 0]
    /\ removed = [id \in Ids |-> 0]
    /\ jobs = {}
    /\ scanning = {}
    /\ sup = "off"
    /\ ending = {}
    /\ reg = "off"
    /\ found = {}
    /\ at = [o \in Operators |-> "idle"]
    /\ about = [o \in Operators |-> 1]

Request(o) ==
    \/ StartSession(o)
    \/ \E id \in Ids : CancelSession(o, id) \/ DeleteSession(o, id)

Proceed(o) ==
    \/ Schedule(o)
    \/ CancelCommit(o)
    \/ RemoveJobs(o)
    \/ DeleteCommit(o)

Pass(id, band) == PassFails(id, band) \/ StorePass(id, band)

Next ==
    \/ \E o \in Operators : Request(o) \/ Proceed(o)
    \/ \E id \in Ids :
          \/ DeadlinePasses(id)
          \/ DeleteScan(id)
          \/ \E band \in Bands : StartPass(id, band) \/ Pass(id, band)
    \/ Supervise
    \/ SuperviseCommit
    \/ SuperviseRollback
    \/ Register
    \/ RegisterJobs
    \/ RegisterCommit
    \/ Restart

Spec == Init /\ [][Next]_vars

\* Deadlines pass, the scheduler fires the supervisor every 30 seconds, commits are
\* bounded.  A delete does not hit the moment between the supervisor's SELECT and
\* its commit every single time.
FairSpec ==
    /\ Spec
    /\ \A id \in Ids : WF_vars(DeadlinePasses(id))
    /\ WF_vars(Supervise)
    /\ WF_vars(SuperviseRollback)
    /\ SF_vars(SuperviseCommit)

(***************************************************************************)
(* Properties                                                              *)
(***************************************************************************)
SurveillanceTypeOK ==
    /\ status \in [Ids -> {"none", "active"} \cup Terminal]
    /\ due \subseteq Ids
    /\ passes \in [Ids -> 0..MaxScans]
    /\ scans \in [Ids -> 0..MaxScans]
    /\ removed \in [Ids -> 0..MaxScans]
    /\ jobs \subseteq Ids
    /\ scanning \subseteq Ids \X Bands
    /\ sup \in {"off", "idle", "commit"}
    /\ ending \subseteq Ids
    /\ reg \in {"off", "read", "commit", "done"}
    /\ found \subseteq Ids
    /\ at \in [Operators -> {"idle", "schedule", "cancel", "remove", "deleteCancel",
                             "deleteRemove", "delete"}]
    /\ about \in [Operators -> Ids]

\* db/models.py:1167, `status="active"`: job is running.  Once register_all has run
\* and no request is at work on it, a session shown as active before its deadline
\* has its jobs, whatever the supervisor, restarts and re-registrations have done
\* meanwhile.  (One operator's request at a time.)
ActiveIsScheduled ==
    reg = "done" =>
        \A id \in Active \ due :
            (\A o \in Operators : at[o] = "idle" \/ about[o] # id) => id \in jobs

\* surveillance.py:12-13: when its duration is over a session does not stay active,
\* as long as the supervisor is scheduled, whichever of its commits fail.
SessionEnds ==
    \A id \in Ids :
        status[id] = "active" /\ sup # "off" ~> status[id] # "active" \/ sup = "off"

\* surveillance.py:250-299: every pass a session counts was stored for its timeline, and
\* nothing but a request to delete that one scan takes it away (scan_history.py:253-275,
\* which leaves total_passes as it is): not the deletion of another session, a pass that
\* outlives its own or an identifier that is used again.
PassesAreStored == \A id \in Rows : passes[id] <= scans[id] + removed[id]

\* routes/surveillance.py:204: "Drop a session AND the scan_history rows linked to
\* it": none are left under an identifier that has no session.
DeletedScansGone == \A id \in Ids : status[id] = "none" => scans[id] = 0
=============================================================================
