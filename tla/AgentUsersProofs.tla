-------------------------- MODULE AgentUsersProofs --------------------------
(***************************************************************************)
(* Proofs about the two users of the agent ApplyService describes, the     *)
(* controller (ProfileActivation) and the reset button (ButtonCycle).      *)
(***************************************************************************)
EXTENDS ProfileActivation, ButtonCycle, TLAPS

(***************************************************************************)
(* The controller                                                          *)
(*                                                                         *)
(* The in-sync badge is honest, for any number of profiles, contents and   *)
(* overlapping applies, as long as one operator works at a time.           *)
(*                                                                         *)
(* The badge turns clean at mark_synced, several SSH calls after the       *)
(* payload was read.  What makes it true there is that a request that is   *)
(* about to push carries the row's content, and that a request that is     *)
(* about to stamp has left that content on the router.                     *)
(***************************************************************************)

\* What a request carries is what the row holds, and then what the router holds.
CarriedCurrent ==
    \A t \in Tasks :
        /\ at[t] \in {"version", "push", "pushEdit"}
              => content[name[t]] # None /\ carried[t] = content[name[t]]
        /\ at[t] \in {"mark", "markEdit"} /\ name[t] \notin lost
              => json[name[t]] = content[name[t]]

\* A request at work is about a profile.
NamedWhileAtWork == \A t \in Requests : at[t] # "idle" => name[t] # None

ActivationInv == ActivationTypeOK /\ NamedWhileAtWork /\ CarriedCurrent /\ BadgeHonest

LEMMA InitActivation == Init => ActivationInv
<1> SUFFICES ASSUME Init PROVE ActivationInv
    OBVIOUS
<1>1. ActivationTypeOK
    BY DEF Init, DeviceInit, ActivationTypeOK, Badges, Places
<1>2. NamedWhileAtWork /\ CarriedCurrent /\ BadgeHonest
    BY DEF Init, NamedWhileAtWork, CarriedCurrent, BadgeHonest, Stored, Requests
<1> QED
    BY <1>1, <1>2 DEF ActivationInv

(***************************************************************************)
(* Types                                                                   *)
(***************************************************************************)

LEMMA RequestTypes ==
    ASSUME ActivationTypeOK, NamedWhileAtWork, NEW t \in Requests,
           NewRequest(t) \/ Proceed(t)
    PROVE  ActivationTypeOK' /\ NamedWhileAtWork'
<1> USE ApplyAssumption
    DEF ActivationTypeOK, NamedWhileAtWork, Places, Goto, Respond, routerVars, deviceVars, rowVars,
        requestVars
<1>1. ASSUME NEW p \in Profiles, Activate(t, p)
      PROVE  ActivationTypeOK' /\ NamedWhileAtWork'
    BY <1>1 DEF Activate, SelectActive
<1>2. ASSUME NEW p \in Profiles, SyncToSlate(t, p)
      PROVE  ActivationTypeOK' /\ NamedWhileAtWork'
    BY <1>2 DEF SyncToSlate, StartPush
<1>3. ASSUME NEW p \in Profiles, DeleteProfile(t, p)
      PROVE  ActivationTypeOK' /\ NamedWhileAtWork'
    BY <1>3 DEF DeleteProfile, Badges
<1>4. ASSUME NEW p \in Profiles, NEW c \in Contents, UpdateProfile(t, p, c)
      PROVE  ActivationTypeOK' /\ NamedWhileAtWork'
    BY <1>4 DEF UpdateProfile, Edited, StartPush, Badges
<1>5. ASSUME NEW p \in Profiles, NEW c \in Contents, CreateProfile(t, p, c)
      PROVE  ActivationTypeOK' /\ NamedWhileAtWork'
    BY <1>5 DEF CreateProfile, Badges
<1>6. CASE CommitActive(t)
    BY <1>6 DEF CommitActive
<1>7. CASE GetStored(t)
    BY <1>7 DEF GetStored
<1>8. CASE AgentVersion(t)
    BY <1>8 DEF AgentVersion
<1>9. ASSUME NEW ok \in BOOLEAN, NEW lands \in BOOLEAN, PushFile(t, ok, lands)
      PROVE  ActivationTypeOK' /\ NamedWhileAtWork'
    BY <1>9 DEF PushFile, FileLands, AfterPush, Push
<1>10. CASE Mark(t)
    BY <1>10 DEF Mark, MarkSynced, Badges
<1>11. CASE InvokeApply(t)
    BY <1>11 DEF InvokeApply, Invoke
<1>12. CASE ApplyAnswers(t)
    BY <1>12 DEF ApplyAnswers
<1> QED
    BY <1>1, <1>2, <1>3, <1>4, <1>5, <1>6, <1>7, <1>8, <1>9, <1>10, <1>11, <1>12
       DEF NewRequest, Proceed

LEMMA TypeStep ==
    ActivationTypeOK /\ NamedWhileAtWork /\ [Next]_allVars
        => ActivationTypeOK' /\ NamedWhileAtWork'
<1> SUFFICES ASSUME ActivationTypeOK, NamedWhileAtWork, [Next]_allVars
             PROVE  ActivationTypeOK' /\ NamedWhileAtWork'
    OBVIOUS
<1> USE ApplyAssumption DEF ActivationTypeOK, NamedWhileAtWork
<1>1. ASSUME NEW t \in Tasks, NewRequest(t) \/ Proceed(t)
      PROVE  ActivationTypeOK' /\ NamedWhileAtWork'
    BY <1>1, RequestTypes DEF Requests
<1>2. CASE Polling
    <2>1. CASE HearActive
        BY <2>1 DEF HearActive, Goto, Places, Requests, routerVars, deviceVars, rowVars
    <2>2. CASE Reconcile
        BY <2>2 DEF Reconcile, SelectActive, Respond, Goto, Places, Requests,
                    routerVars, deviceVars, rowVars
    <2>3. CASE CommitActive(Poller)
        BY <2>3, RequestTypes DEF Requests, Proceed
    <2> QED
        BY <1>2, <2>1, <2>2, <2>3 DEF Polling
<1>3. ASSUME NEW x \in Appliers, ApplyGoesOn(x)
      PROVE  ActivationTypeOK' /\ NamedWhileAtWork'
    BY <1>3 DEF ApplyGoesOn, Complete, GiveUp, rowVars, requestVars
<1>4. ASSUME NEW x \in Appliers, NEW p \in Profiles, PressButton(x, p)
      PROVE  ActivationTypeOK' /\ NamedWhileAtWork'
    BY <1>4 DEF PressButton, Invoke, rowVars, requestVars
<1>5. CASE Restart
    BY <1>5 DEF Restart, Reboot, rowVars, requestVars
<1>6. CASE FactoryReset
    BY <1>6 DEF FactoryReset, Wipe, rowVars, requestVars
<1>7. CASE UNCHANGED allVars
    BY <1>7 DEF allVars, routerVars, deviceVars, rowVars, requestVars
<1> QED
    BY <1>1, <1>2, <1>3, <1>4, <1>5, <1>6, <1>7 DEF Next

(***************************************************************************)
(* The badge                                                               *)
(***************************************************************************)

\* Steps that touch neither the rows' contents and badges, nor the router's files, nor
\* an operator's request keep the badge honest.
LEMMA ElsewhereKeeps ==
    ASSUME ActivationInv, UNCHANGED <<content, badge, json, lost>>,
           \A t \in Tasks : UNCHANGED <<at[t], name[t], carried[t]>>
    PROVE  CarriedCurrent' /\ BadgeHonest'
BY DEF ActivationInv, CarriedCurrent, BadgeHonest, Stored

\* An operator's steps, while no other operator is at work.
LEMMA OperatorKeeps ==
    ASSUME ActivationInv, NEW t \in Tasks, \A u \in Tasks : u = t,
           NewRequest(t) \/ Proceed(t)
    PROVE  CarriedCurrent' /\ BadgeHonest'
<1> USE ApplyAssumption, ActivationAssumption
    DEF ActivationInv, ActivationTypeOK, NamedWhileAtWork, CarriedCurrent, BadgeHonest,
        Stored, Requests, Goto, Respond, routerVars, deviceVars, rowVars, requestVars
<1>1. ASSUME NEW p \in Profiles, Activate(t, p)
      PROVE  CarriedCurrent' /\ BadgeHonest'
    BY <1>1 DEF Activate, SelectActive
<1>2. ASSUME NEW p \in Profiles, SyncToSlate(t, p)
      PROVE  CarriedCurrent' /\ BadgeHonest'
    BY <1>2 DEF SyncToSlate, StartPush
<1>3. ASSUME NEW p \in Profiles, DeleteProfile(t, p)
      PROVE  CarriedCurrent' /\ BadgeHonest'
    BY <1>3 DEF DeleteProfile
<1>4. ASSUME NEW p \in Profiles, NEW c \in Contents, UpdateProfile(t, p, c)
      PROVE  CarriedCurrent' /\ BadgeHonest'
    <2>1. /\ content' = [content EXCEPT ![p] = c]
          /\ badge'[p] # "clean"
          /\ \A q \in Profiles : q # p => badge'[q] = badge[q]
        BY <1>4 DEF UpdateProfile, Edited, Badges
    <2>2. /\ at'[t] = "pushEdit" /\ name'[t] = p /\ carried'[t] = c
          /\ json' = json /\ lost' = lost
        BY <1>4 DEF UpdateProfile, StartPush
    <2> QED
        BY <2>1, <2>2
<1>5. ASSUME NEW p \in Profiles, NEW c \in Contents, CreateProfile(t, p, c)
      PROVE  CarriedCurrent' /\ BadgeHonest'
    BY <1>5 DEF CreateProfile
<1>6. CASE CommitActive(t)
    BY <1>6 DEF CommitActive
<1>7. CASE GetStored(t)
    BY <1>7 DEF GetStored
<1>8. CASE AgentVersion(t)
    BY <1>8 DEF AgentVersion
<1>9. ASSUME NEW ok \in BOOLEAN, NEW lands \in BOOLEAN, PushFile(t, ok, lands)
      PROVE  CarriedCurrent' /\ BadgeHonest'
    BY <1>9 DEF PushFile, FileLands, AfterPush, Push
<1>10. CASE Mark(t)
    BY <1>10 DEF Mark, MarkSynced
<1>11. CASE InvokeApply(t)
    BY <1>11 DEF InvokeApply, Invoke
<1>12. CASE ApplyAnswers(t)
    BY <1>12 DEF ApplyAnswers
<1> QED
    BY <1>1, <1>2, <1>3, <1>4, <1>5, <1>6, <1>7, <1>8, <1>9, <1>10, <1>11, <1>12
       DEF NewRequest, Proceed

LEMMA BadgeStep ==
    ASSUME ActivationInv, \A s, t \in Tasks : s = t, [Next]_allVars
    PROVE  CarriedCurrent' /\ BadgeHonest'
<1>1. ASSUME NEW t \in Tasks, NewRequest(t) \/ Proceed(t)
      PROVE  CarriedCurrent' /\ BadgeHonest'
    BY <1>1, OperatorKeeps
<1>2. CASE Polling
    BY <1>2, ElsewhereKeeps, ActivationAssumption
       DEF Polling, HearActive, Reconcile, CommitActive, SelectActive, Respond, Goto,
           routerVars, deviceVars, rowVars, ActivationInv, ActivationTypeOK, Requests
<1>3. ASSUME NEW x \in Appliers, ApplyGoesOn(x) PROVE CarriedCurrent' /\ BadgeHonest'
    BY <1>3, ElsewhereKeeps DEF ApplyGoesOn, Complete, GiveUp, rowVars, requestVars
<1>4. ASSUME NEW x \in Appliers, NEW p \in Profiles, PressButton(x, p)
      PROVE  CarriedCurrent' /\ BadgeHonest'
    BY <1>4, ElsewhereKeeps DEF PressButton, Invoke, rowVars, requestVars
<1>5. CASE Restart
    BY <1>5, ElsewhereKeeps DEF Restart, Reboot, rowVars, requestVars
<1>6. CASE FactoryReset
    <2>1. lost' = Profiles /\ UNCHANGED <<rowVars, requestVars>>
        BY <1>6 DEF FactoryReset
    <2>2. \A t \in Tasks :
             at[t] \in {"mark", "markEdit"} => name[t] \in Profiles
        BY DEF ActivationInv, ActivationTypeOK, NamedWhileAtWork, Requests
    <2> QED
        BY <2>1, <2>2
           DEF ActivationInv, CarriedCurrent, BadgeHonest, Stored, rowVars, requestVars
<1>7. CASE UNCHANGED allVars
    BY <1>7, ElsewhereKeeps DEF allVars, routerVars, deviceVars, rowVars, requestVars
<1> QED
    BY <1>1, <1>2, <1>3, <1>4, <1>5, <1>6, <1>7 DEF Next

\* Every variable keeps its type, for any number of operators (profiles/store.py,
\* slate_agent/sync.py).
THEOREM ActivationTypes == Spec => []ActivationTypeOK
<1>1. Init => ActivationTypeOK /\ NamedWhileAtWork
    BY InitActivation DEF ActivationInv
<1> QED
    BY <1>1, TypeStep, PTL DEF Spec

\* A profile whose badge says it is in sync is on the router as it is in the database
\* (profiles/store.py:49-80, 175-185), whatever pushes fail or half succeed, unless a
\* factory reset has taken it away, when one operator works at a time.
THEOREM BadgeStaysHonest ==
    ASSUME \A s, t \in Tasks : s = t
    PROVE  Spec => []BadgeHonest
<1>1. ActivationInv /\ [Next]_allVars => ActivationInv'
    BY TypeStep, BadgeStep DEF ActivationInv
<1>2. ActivationInv => BadgeHonest
    BY DEF ActivationInv
<1> QED
    BY InitActivation, <1>1, <1>2, PTL DEF Spec

(***************************************************************************)
(* The button                                                              *)
(*                                                                         *)
(* While no two presses have run at the same time, the script of a press   *)
(* is alone from the kill of the pending committer to the start of its     *)
(* own: in between nobody is left who would move the cursor or commit.     *)
(***************************************************************************)
Stages == {"no", "locked", "stop", "cancel", "advance", "unpaint", "paint", "spawn", "done"}

ButtonTypeOK ==
    /\ cycle \in Seq(Names)
    /\ press \in [Presses -> Stages]
    /\ com \in [Presses -> Names \cup {"none", "asleep", "gone"}]
    /\ DOMAIN shown = Presses
    /\ painting \subseteq Presses
    /\ replaced \in BOOLEAN

\* The pending committer has been killed, the next one is not there yet.
Selecting(p) == press[p] \in {"advance", "unpaint", "paint", "spawn"}

OnePress == \A p, q \in Presses : Running(p) /\ Running(q) => p = q

OneCommitter ==
    /\ \A p \in Presses : com[p] \in Alive => pidFile = p
    /\ \A p, q \in Presses : Selecting(p) => com[q] \notin Alive
    /\ \A p \in Presses : press[p] = "no" => com[p] \notin Alive

OnePainter ==
    /\ \A p \in painting : paintFile = p
    /\ \A p \in Presses : press[p] = "paint" => painting = {}

\* What the cursor points at is what the press has shown, until it is committed.
Chosen(p) == cursor \in 0..(Len(cycle) - 1) => shown[p] = cycle[cursor + 1]

ChoiceShown ==
    ~replaced =>
        \A p \in Presses :
            /\ press[p] \in {"unpaint", "paint", "spawn"} => Chosen(p)
            /\ com[p] = "asleep" => Chosen(p)
            /\ com[p] \in Names => com[p] = shown[p]

ChoiceInv == OnePress /\ OneCommitter /\ OnePainter /\ ChoiceShown

ButtonInv == ButtonTypeOK /\ (overlapped = "no" => ChoiceInv)

LEMMA ButtonInitInv == ButtonInit => ButtonInv
<1> SUFFICES ASSUME ButtonInit PROVE ButtonInv
    OBVIOUS
<1>1. ButtonTypeOK
    BY ButtonAssumption DEF ButtonInit, ButtonTypeOK, Stages
<1>2. \A p \in Presses : ~Running(p) /\ ~Selecting(p) /\ press[p] # "paint"
    BY DEF ButtonInit, Running, Selecting
<1>3. \A p \in Presses : com[p] = "none" /\ com[p] \notin Alive
    BY ButtonAssumption DEF ButtonInit, Alive
<1>4. ChoiceShown
    BY <1>3 DEF ButtonInit, ChoiceShown, Alive
<1> QED
    BY <1>1, <1>2, <1>3, <1>4
       DEF ButtonInit, ButtonInv, ChoiceInv, OnePress, OneCommitter, OnePainter

\* A committer that ends is neither asleep nor at work.
LEMMA EndTyped ==
    ASSUME ButtonTypeOK, NEW gone \in SUBSET Presses, End(gone)
    PROVE  /\ com' \in [Presses -> Names \cup {"none", "asleep", "gone"}]
           /\ DOMAIN shown' = Presses
           /\ \A p \in Presses :
                 /\ com'[p] \in Alive => p \notin gone /\ com'[p] = com[p]
                 /\ p \notin gone => com'[p] = com[p] /\ shown'[p] = shown[p]
BY ButtonAssumption DEF ButtonTypeOK, End, Alive

LEMMA ScriptTypes ==
    ASSUME ButtonTypeOK, NEW p \in Presses,
           \/ \E locked \in BOOLEAN : Begin(p, locked)
           \/ ScriptStep(p)
    PROVE  ButtonTypeOK'
<1> USE DEF ButtonTypeOK, GoTo, Stages, script, files, world, deviceVars
<1>1. ASSUME NEW locked \in BOOLEAN, Begin(p, locked) PROVE ButtonTypeOK'
    BY <1>1 DEF Begin
<1>2. CASE Rest(p)
    BY <1>2 DEF Rest
<1>3. CASE Cancel(p)
    <2>1. press' \in [Presses -> Stages] /\ UNCHANGED <<cycle, painting, replaced>>
        BY <1>3 DEF Cancel
    <2>2. com' \in [Presses -> Names \cup {"none", "asleep", "gone"}] /\ DOMAIN shown' = Presses
        BY <1>3 DEF Cancel, End
    <2> QED
        BY <2>1, <2>2
<1>4. CASE Advance(p)
    BY <1>4 DEF Advance
<1>5. CASE Unpaint(p)
    BY <1>5 DEF Unpaint, StopPainter
<1>6. ASSUME NEW frame \in BOOLEAN, Paint(p, frame) PROVE ButtonTypeOK'
    BY <1>6 DEF Paint
<1>7. CASE Spawn(p)
    BY <1>7 DEF Spawn
<1> QED
    BY <1>1, <1>2, <1>3, <1>4, <1>5, <1>6, <1>7 DEF ScriptStep

LEMMA ButtonTypes == ButtonTypeOK /\ [ButtonNext]_vars => ButtonTypeOK'
<1> SUFFICES ASSUME ButtonTypeOK, [ButtonNext]_vars PROVE ButtonTypeOK'
    OBVIOUS
<1> USE ButtonAssumption DEF ButtonTypeOK, script, files, world
<1>1. ASSUME NEW p \in Presses, Abort(p) \/ Finish(p) PROVE ButtonTypeOK'
    BY <1>1 DEF Abort, Finish, End
<1>2. ASSUME NEW p \in Presses, Fire(p) PROVE ButtonTypeOK'
    <2>1. cycle[cursor + 1] \in Names
        BY <1>2 DEF Fire
    <2> QED
        BY <1>2, <2>1 DEF Fire, StopPainter
<1>3. ASSUME NEW new \in Cycles, Sync(new) PROVE ButtonTypeOK'
    BY <1>3 DEF Sync
<1>4. ASSUME NEW p \in Presses, ApplyEnds(p) PROVE ButtonTypeOK'
    BY <1>4 DEF ApplyEnds
<1>5. ASSUME NEW n \in Profiles, Install(n) PROVE ButtonTypeOK'
    BY <1>5 DEF Install
<1>6. CASE PowerCycle
    BY <1>6 DEF PowerCycle, End, Stages
<1>7. CASE UNCHANGED vars
    BY <1>7 DEF vars
<1> QED
    BY <1>1, <1>2, <1>3, <1>4, <1>5, <1>6, <1>7, ScriptTypes DEF ButtonNext, CommitStep

\* A press that begins is alone, or is remembered.
LEMMA BeginChooses ==
    ASSUME ButtonTypeOK, ChoiceInv, overlapped = "no",
           NEW p \in Presses, NEW locked \in BOOLEAN, Begin(p, locked), overlapped' = "no"
    PROVE  ChoiceInv'
<1>1. \A q \in Presses : ~Running(q)
    BY DEF Begin, Worse
<1>2. /\ press' = [press EXCEPT ![p] = press'[p]]
      /\ press'[p] \in {"done", "locked", "cancel"}
      /\ UNCHANGED <<cycle, cursor, pidFile, paintFile, painting, com, shown, replaced>>
    BY DEF Begin, GoTo, files, world, ButtonTypeOK
<1>3. OnePress'
    BY <1>1, <1>2 DEF OnePress, Running, ButtonTypeOK
<1>4. OneCommitter' /\ OnePainter' /\ ChoiceShown'
    BY <1>2 DEF ChoiceInv, OneCommitter, OnePainter, ChoiceShown, Chosen, Selecting,
                ButtonTypeOK
<1> QED
    BY <1>3, <1>4 DEF ChoiceInv

LEMMA ScriptChooses ==
    ASSUME ButtonTypeOK, ChoiceInv, NEW p \in Presses, ScriptStep(p)
    PROVE  ChoiceInv'
<1> USE DEF ButtonTypeOK
<1>0. /\ Running(p)
      /\ \A q \in Presses : q # p => press[q] \in {"no", "done"}
      /\ press' = [press EXCEPT ![p] = press'[p]] /\ press'[p] # "no"
    <2>1. Running(p) /\ press' = [press EXCEPT ![p] = press'[p]] /\ press'[p] # "no"
        BY DEF ScriptStep, Rest, Cancel, Advance, Unpaint, Paint, Spawn, GoTo, Running
    <2> QED
        BY <2>1 DEF ChoiceInv, OnePress, Running
<1>1. OnePress'
    BY <1>0 DEF OnePress, Running
<1> DEFINE Chooses == OneCommitter' /\ OnePainter' /\ ChoiceShown'
<1>2. Chooses
    <2> USE DEF ChoiceInv, OneCommitter, OnePainter, ChoiceShown, Selecting, script, files,
                world, GoTo
    <2>1. CASE Rest(p)
        <3>1. /\ press[p] = "locked" /\ press'[p] = "stop" /\ cursor' = -1
              /\ UNCHANGED <<cycle, pidFile, paintFile, painting, com, shown, replaced>>
            BY <2>1 DEF Rest
        <3>2. OneCommitter' /\ OnePainter'
            BY <1>0, <3>1
        <3>3. ChoiceShown'
            BY <1>0, <3>1 DEF Chosen
        <3> QED
            BY <3>2, <3>3
    <2>2. CASE Cancel(p)
        <3>1. /\ press[p] \in {"stop", "cancel"} /\ press'[p] \in {"done", "advance"}
              /\ pidFile' = None /\ End({pidFile} \ {None})
              /\ UNCHANGED <<cycle, cursor, paintFile, painting, replaced>>
            BY <2>2 DEF Cancel
        <3>2. \A q \in Presses : com'[q] \notin Alive
            <4> SUFFICES ASSUME NEW q \in Presses, com'[q] \in Alive PROVE FALSE
                OBVIOUS
            <4>1. q \notin {pidFile} \ {None} /\ com[q] \in Alive
                BY <3>1, ButtonAssumption DEF End, Alive
            <4>2. pidFile = q
                BY <4>1
            <4> QED
                BY <4>1, <4>2, ButtonAssumption
        <3>3. OnePainter'
            BY <1>0, <3>1
        <3>4. ChoiceShown'
            BY <1>0, <3>1, <3>2 DEF Alive
        <3> QED
            BY <3>2, <3>3, <3>4
    <2>3. CASE Advance(p)
        <3>1. /\ press[p] = "advance" /\ press'[p] = "unpaint"
              /\ shown' = [shown EXCEPT ![p] = IF cursor' < Len(cycle) THEN cycle[cursor' + 1] ELSE None]
              /\ UNCHANGED <<cycle, pidFile, paintFile, painting, com, replaced>>
            BY <2>3 DEF Advance
        <3>2. OneCommitter' /\ OnePainter'
            BY <1>0, <3>1
        <3>3. Chosen(p)'
            BY <3>1 DEF Chosen
        <3>4. ChoiceShown'
            BY <1>0, <3>1, <3>3 DEF Alive
        <3> QED
            BY <3>2, <3>4
    <2>4. CASE Unpaint(p)
        <3>1. /\ press[p] = "unpaint" /\ press'[p] = "paint"
              /\ painting' = painting \ {paintFile}
              /\ UNCHANGED <<cycle, cursor, pidFile, com, shown, replaced>>
            BY <2>4 DEF Unpaint, StopPainter
        <3>2. painting' = {}
            BY <3>1
        <3>3. OneCommitter' /\ OnePainter'
            BY <1>0, <3>1, <3>2
        <3>4. ChoiceShown'
            BY <1>0, <3>1 DEF Chosen
        <3> QED
            BY <3>3, <3>4
    <2>5. ASSUME NEW frame \in BOOLEAN, Paint(p, frame) PROVE Chooses
        <3>1. /\ press[p] = "paint" /\ press'[p] = "spawn"
              /\ painting' \subseteq painting \cup {p}
              /\ painting' = painting \/ paintFile' = p
              /\ UNCHANGED <<cycle, cursor, pidFile, com, shown, replaced>>
            BY <2>5 DEF Paint
        <3>2. OneCommitter' /\ OnePainter'
            BY <1>0, <3>1
        <3>3. ChoiceShown'
            BY <1>0, <3>1 DEF Chosen
        <3> QED
            BY <3>2, <3>3
    <2>6. CASE Spawn(p)
        <3>1. /\ press[p] = "spawn" /\ press'[p] = "done" /\ pidFile' = p
              /\ com' = [com EXCEPT ![p] = "asleep"]
              /\ UNCHANGED <<cycle, cursor, paintFile, painting, shown, replaced>>
            BY <2>6 DEF Spawn
        <3>2. \A q \in Presses : com[q] \notin Alive
            BY <3>1
        <3>3. OneCommitter' /\ OnePainter'
            BY <1>0, <3>1, <3>2
        <3>4. ChoiceShown'
            BY <1>0, <3>1, <3>2, ButtonAssumption DEF Chosen, Alive
        <3> QED
            BY <3>3, <3>4
    <2> HIDE DEF Chooses
    <2> QED
        BY <2>1, <2>2, <2>3, <2>4, <2>5, <2>6 DEF ScriptStep
<1> QED
    BY <1>1, <1>2 DEF ChoiceInv

\* The committer that ends or fires is the only one, and no press selects meanwhile.
LEMMA CommitChooses ==
    ASSUME ButtonTypeOK, ChoiceInv, NEW p \in Presses, CommitStep(p)
    PROVE  ChoiceInv'
<1> USE ButtonAssumption DEF ButtonTypeOK
<1>1. /\ com[p] \in Alive
      /\ press' = press /\ cycle' = cycle /\ replaced' = replaced
    BY DEF CommitStep, Abort, Fire, Finish, Alive, script, world
<1>2. \A q \in Presses : ~Selecting(q) /\ (q # p => com[q] \notin Alive)
    BY <1>1 DEF ChoiceInv, OneCommitter
<1>3. OnePress'
    BY <1>1 DEF ChoiceInv, OnePress, Running
<1>4. CASE Abort(p) \/ Finish(p)
    <2>1. UNCHANGED <<paintFile, painting>> /\ End({p})
        BY <1>4 DEF Abort, Finish
    <2>2. \A q \in Presses : com'[q] \notin Alive
        <3> SUFFICES ASSUME NEW q \in Presses PROVE com'[q] \notin Alive
            OBVIOUS
        <3>1. com'[q] = IF q = p THEN "gone" ELSE com[q]
            BY <2>1 DEF End
        <3>2. "gone" \notin Alive
            BY DEF Alive
        <3> QED
            BY <1>2, <3>1, <3>2
    <2>3. OneCommitter'
        BY <2>2 DEF OneCommitter, Alive
    <2>4. OnePainter'
        BY <1>1, <2>1 DEF ChoiceInv, OnePainter
    <2>5. ChoiceShown'
        BY <1>1, <1>2, <2>2 DEF ChoiceShown, Selecting, Alive
    <2> QED
        BY <1>3, <2>3, <2>4, <2>5 DEF ChoiceInv
<1>5. CASE Fire(p)
    <2>1. /\ com[p] = "asleep" /\ com' = [com EXCEPT ![p] = cycle[cursor + 1]]
          /\ painting' = painting \ {paintFile}
          /\ cursor \in 0..(Len(cycle) - 1)
          /\ UNCHANGED <<cursor, pidFile, shown>>
        BY <1>5 DEF Fire, StopPainter
    <2>2. cycle[cursor + 1] \in Names
        BY <2>1
    <2>3. OneCommitter'
        BY <1>1, <1>2, <2>1, <2>2 DEF ChoiceInv, OneCommitter, Selecting, Alive
    <2>4. painting' = {}
        BY <2>1 DEF ChoiceInv, OnePainter
    <2>5. OnePainter'
        BY <2>4 DEF OnePainter
    <2>6. \A q \in Presses : com'[q] \in Alive => q = p
        BY <1>2, <2>1
    <2>7. ~replaced => com'[p] = shown[p]
        BY <2>1 DEF ChoiceInv, ChoiceShown, Chosen
    <2>8. com'[p] # "asleep"
        BY <2>1, <2>2
    <2>9. ChoiceShown'
        BY <1>1, <1>2, <2>1, <2>6, <2>7, <2>8 DEF ChoiceShown, Selecting, Alive
    <2> QED
        BY <1>3, <2>3, <2>5, <2>9 DEF ChoiceInv
<1> QED
    BY <1>4, <1>5 DEF CommitStep

\* A cycle that is replaced under nobody, or counted as replaced, breaks no promise.
LEMMA SyncChooses ==
    ASSUME ChoiceInv, NEW new \in Cycles, Sync(new)
    PROVE  ChoiceInv'
<1>1. UNCHANGED <<press, cursor, pidFile, paintFile, painting, com, shown>>
    BY DEF Sync, script, files
<1>2. OnePress' /\ OneCommitter' /\ OnePainter'
    BY <1>1 DEF ChoiceInv, OnePress, OneCommitter, OnePainter, Running, Selecting
<1>3. CASE new = cycle /\ ~replaced'
    <2>1. cycle' = cycle /\ ~replaced
        BY <1>3 DEF Sync
    <2> QED
        BY <1>1, <1>2, <2>1 DEF ChoiceInv, ChoiceShown, Chosen
<1>4. CASE NoPress
    <2>1. ChoiceShown'
        BY <1>1, <1>4 DEF NoPress, Running, ChoiceShown, Alive
    <2> QED
        BY <1>2, <2>1 DEF ChoiceInv
<1>5. CASE replaced'
    BY <1>2, <1>5 DEF ChoiceInv, ChoiceShown
<1>6. replaced' \/ NoPress \/ (new = cycle /\ ~replaced')
    BY DEF Sync
<1> QED
    BY <1>3, <1>4, <1>5, <1>6

\* Nobody is left after a power cycle.
LEMMA PowerCycleChooses ==
    ASSUME ButtonTypeOK, ChoiceInv, PowerCycle
    PROVE  ChoiceInv'
<1> USE ButtonAssumption DEF ButtonTypeOK
<1>1. /\ press' = [p \in Presses |-> IF Running(p) THEN "done" ELSE press[p]]
      /\ painting' = {} /\ End({p \in Presses : press[p] # "no"})
    BY DEF PowerCycle
<1>2. \A p \in Presses : com'[p] \notin Alive
    <2> SUFFICES ASSUME NEW p \in Presses PROVE com'[p] \notin Alive
        OBVIOUS
    <2>1. com'[p] = IF press[p] # "no" THEN "gone" ELSE com[p]
        BY <1>1 DEF End
    <2>2. "gone" \notin Alive
        BY DEF Alive
    <2> QED
        BY <2>1, <2>2 DEF ChoiceInv, OneCommitter
<1>3. \A p \in Presses : press'[p] \in {"no", "done"}
    BY <1>1 DEF Running
<1>4. OnePress' /\ OnePainter'
    BY <1>1, <1>3 DEF OnePress, OnePainter, Running
<1>5. OneCommitter' /\ ChoiceShown'
    BY <1>2, <1>3 DEF OneCommitter, ChoiceShown, Alive
<1> QED
    BY <1>4, <1>5 DEF ChoiceInv

LEMMA ButtonStep == ButtonInv /\ [ButtonNext]_vars => ButtonInv'
<1> SUFFICES ASSUME ButtonInv, [ButtonNext]_vars, overlapped' = "no" PROVE ChoiceInv'
    BY ButtonTypes DEF ButtonInv
<1>1. ButtonTypeOK
    BY DEF ButtonInv
<1>2. overlapped = "no"
    <2>1. ASSUME NEW p \in Presses, NEW locked \in BOOLEAN, Begin(p, locked) PROVE overlapped = "no"
        BY <2>1 DEF Begin, Worse
    <2>2. ASSUME NEW p \in Presses, ScriptStep(p) \/ CommitStep(p) PROVE overlapped' = overlapped
        BY <2>2 DEF ScriptStep, Rest, Cancel, Advance, Unpaint, Paint, Spawn,
                    CommitStep, Abort, Fire, Finish, script
    <2>3. ASSUME NEW new \in Cycles, Sync(new) PROVE overlapped' = overlapped
        BY <2>3 DEF Sync, script
    <2>4. ASSUME NEW x \in Presses, ApplyEnds(x) PROVE overlapped' = overlapped
        BY <2>4 DEF ApplyEnds, script
    <2>5. ASSUME NEW n \in Profiles, Install(n) PROVE overlapped' = overlapped
        BY <2>5 DEF Install, script
    <2>6. PowerCycle \/ UNCHANGED vars => overlapped' = overlapped
        BY DEF PowerCycle, vars, script
    <2> QED
        BY <2>1, <2>2, <2>3, <2>4, <2>5, <2>6 DEF ButtonNext
<1>3. ChoiceInv
    BY <1>2 DEF ButtonInv
<1>4. ASSUME UNCHANGED <<script, files, painting, com, shown, world>> PROVE ChoiceInv'
    BY <1>3, <1>4 DEF script, files, world, ChoiceInv, OnePress, OneCommitter, OnePainter,
                      ChoiceShown, Chosen, Running, Selecting
<1>5. ASSUME NEW x \in Presses, ApplyEnds(x) PROVE ChoiceInv'
    BY <1>4, <1>5 DEF ApplyEnds
<1>6. ASSUME NEW n \in Profiles, Install(n) PROVE ChoiceInv'
    BY <1>4, <1>6 DEF Install
<1>7. CASE UNCHANGED vars
    BY <1>4, <1>7 DEF vars
<1>8. ASSUME NEW p \in Presses, NEW locked \in BOOLEAN, Begin(p, locked) PROVE ChoiceInv'
    BY <1>1, <1>2, <1>3, <1>8, BeginChooses
<1>9. ASSUME NEW p \in Presses, ScriptStep(p) \/ CommitStep(p) PROVE ChoiceInv'
    BY <1>1, <1>3, <1>9, ScriptChooses, CommitChooses
<1>10. ASSUME NEW new \in Cycles, Sync(new) PROVE ChoiceInv'
    BY <1>3, <1>10, SyncChooses
<1>11. CASE PowerCycle
    BY <1>1, <1>3, <1>11, PowerCycleChooses
<1> QED
    BY <1>5, <1>6, <1>7, <1>8, <1>9, <1>10, <1>11 DEF ButtonNext

\* However many presses and power cycles there are and whatever cycles are pushed: as
\* long as no two presses run at the same time, one committer at most is pending, the
\* next press can kill it and every painter, and it commits the step the press has shown.
THEOREM ChoiceIsOne == ButtonSpec => []OneChoice
<1>1. ButtonInv => OneChoice
    BY DEF ButtonInv, ButtonTypeOK, ChoiceInv, OneCommitter, OnePainter, ChoiceShown, OneChoice
<1> QED
    BY <1>1, ButtonInitInv, ButtonStep, PTL DEF ButtonSpec

=============================================================================
