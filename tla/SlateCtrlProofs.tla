-------------------------- MODULE SlateCtrlProofs --------------------------
(***************************************************************************)
(* The agent keeps the subsystems on one profile and implements            *)
(* ApplyService, for any number of profiles, handlers, overlapping applies *)
(* and lock files.                                                         *)
(*                                                                         *)
(* OneProfileApplied speaks of the subsystems no running apply has         *)
(* reached.  What carries it through an apply is that applies on one lock  *)
(* file exclude each other and that the handlers behind an apply's         *)
(* position have left its profile.                                         *)
(***************************************************************************)
EXTENDS SlateCtrl, TLAPS

\* Two applies that run hold different lock files.
LockExcludes ==
    \A x, y \in Running : fd[x] = fd[y] => x = y

\* The subsystems an apply is done with are configured for its profile.
HandlersDone ==
    \A x \in Running : \A s \in Subsystems \ loose :
        s < next[x] => config[s] = wanted[x]

\* An apply has a profile as long as it lives.
WantedWhileAlive ==
    \A x \in Appliers : proc[x] = "none" <=> wanted[x] = None

AgentInv ==
    /\ TypeOK
    /\ LockExcludes
    /\ HandlersDone
    /\ WantedWhileAlive
    /\ OneProfileApplied

-----------------------------------------------------------------------------
LEMMA InitAgent == Init => AgentInv
  BY SlateCtrlAssumption
  DEF Init, AgentInv, TypeOK, LockExcludes, HandlersDone, WantedWhileAlive,
      OneProfileApplied, Running, Subsystems

\* Every step keeps the types.
LEMMA TypeStep == TypeOK /\ [Next]_vars => TypeOK'
  <1> SUFFICES ASSUME TypeOK, [Next]_vars PROVE TypeOK'
      OBVIOUS
  <1> USE SlateCtrlAssumption DEF TypeOK, applies, aside, Subsystems
  <1>1. ASSUME NEW p \in Profiles, NEW content \in Contents, Install(p, content)
        PROVE  TypeOK'
      BY <1>1 DEF Install
  <1>2. ASSUME NEW x \in Appliers, NEW p \in Profiles, Begin(x, p)
        PROVE  TypeOK'
      BY <1>2 DEF Begin
  <1>3. ASSUME NEW x \in Appliers, Lock(x) PROVE TypeOK'
      BY <1>3 DEF Lock
  <1>4. ASSUME NEW x \in Appliers, LockTimeout(x) PROVE TypeOK'
      BY <1>4 DEF LockTimeout, Exit
  <1>5. ASSUME NEW x \in Appliers, NEW ok \in BOOLEAN, RunHandler(x, ok)
        PROVE  TypeOK'
      <2>1. next[x] \in Subsystems
          BY <1>5 DEF RunHandler
      <2>2. next' \in [Appliers -> 1..Handlers + 1]
          BY <1>5 DEF RunHandler
      <2>3. config' \in [Subsystems -> Profiles \cup {None}]
          BY <1>5, <2>1 DEF RunHandler
      <2>4. loose' \subseteq Subsystems
          BY <1>5, <2>1 DEF RunHandler
      <2>5. QED BY <1>5, <2>2, <2>3, <2>4 DEF RunHandler
  <1>6. ASSUME NEW x \in Appliers, Finish(x) PROVE TypeOK'
      <2>1. wanted[x] \in Profiles \cup {None}
          OBVIOUS
      <2>2. QED BY <1>6, <2>1 DEF Finish, Exit
  <1>7. ASSUME NEW s \in Subsystems, OnlyBegin(s) PROVE TypeOK'
      BY <1>7 DEF OnlyBegin
  <1>8. ASSUME NEW ok \in BOOLEAN, OnlyEnd(ok) PROVE TypeOK'
      BY <1>8 DEF OnlyEnd
  <1>9. CASE Reclaim
      BY <1>9 DEF Reclaim
  <1>10. CASE PowerCycle
      <2>1. \A x \in Appliers : Half(x) \subseteq Subsystems
          BY DEF Half
      <2>2. loose' \subseteq Subsystems
          <3>1. {only} \ {0} \subseteq Subsystems
              OBVIOUS
          <3>2. UNION {Half(x) : x \in Running} \subseteq Subsystems
              <4> HIDE DEF TypeOK, Subsystems
              <4>1. QED BY <2>1, Zenon DEF Running
          <3>3. QED BY <1>10, <3>1, <3>2 DEF PowerCycle
      <2>3. QED BY <1>10, <2>2 DEF PowerCycle
  <1>11. ASSUME NEW x \in Appliers, Dies(x) PROVE TypeOK'
      <2>1. Half(x) \subseteq Subsystems
          BY DEF Half
      <2>2. loose' \subseteq Subsystems
          BY <1>11, <2>1 DEF Dies
      <2>3. QED BY <1>11, <2>2 DEF Dies, Exit
  <1>12. CASE FactoryReset
      BY <1>12 DEF FactoryReset
  <1>13. CASE UNCHANGED vars
      BY <1>13 DEF vars
  <1>14. QED
      BY <1>1, <1>2, <1>3, <1>4, <1>5, <1>6, <1>7, <1>8, <1>9, <1>10, <1>11, <1>12, <1>13
      DEF Next, Work

\* The lock file, the profile and the position of an apply change together with its
\* place, so the lock and the wanted profile stay in step.
LEMMA LockStep == AgentInv /\ [Next]_vars => LockExcludes' /\ WantedWhileAlive'
  <1> SUFFICES ASSUME AgentInv, [Next]_vars
               PROVE  LockExcludes' /\ WantedWhileAlive'
      OBVIOUS
  <1> USE SlateCtrlAssumption
          DEF AgentInv, TypeOK, LockExcludes, WantedWhileAlive, Running, applies, aside
  <1>1. ASSUME NEW x \in Appliers, NEW p \in Profiles, Begin(x, p)
        PROVE  LockExcludes' /\ WantedWhileAlive'
      BY <1>1 DEF Begin
  <1>2. ASSUME NEW x \in Appliers, Lock(x)
        PROVE  LockExcludes' /\ WantedWhileAlive'
      BY <1>2 DEF Lock
  <1>3. ASSUME NEW x \in Appliers, LockTimeout(x) \/ Finish(x) \/ Dies(x)
        PROVE  LockExcludes' /\ WantedWhileAlive'
      BY <1>3 DEF LockTimeout, Finish, Dies, Exit
  <1>4. ASSUME NEW x \in Appliers, NEW ok \in BOOLEAN, RunHandler(x, ok)
        PROVE  LockExcludes' /\ WantedWhileAlive'
      BY <1>4 DEF RunHandler
  <1>5. CASE PowerCycle \/ FactoryReset
      BY <1>5 DEF PowerCycle, FactoryReset
  <1>6. CASE UNCHANGED applies
      BY <1>6
  <1>7. QED
      BY <1>1, <1>2, <1>3, <1>4, <1>5, <1>6
      DEF Next, Work, vars, Install, OnlyBegin, OnlyEnd, Reclaim

\* One apply runs at a time on a lock file: if all that run share x's, x is alone.
LEMMA Alone ==
    ASSUME AgentInv, NEW x \in Running, \A y \in Running : fd[y] = fd[x]
    PROVE  Running = {x}
  BY DEF AgentInv, LockExcludes

\* A handler leaves its subsystem on the apply's profile, or makes it loose; the apply has
\* reached it then.
LEMMA HandlerStep ==
    ASSUME AgentInv, NEW x \in Appliers, NEW ok \in BOOLEAN, RunHandler(x, ok)
    PROVE  HandlersDone' /\ OneProfileApplied'
  <1> DEFINE s == next[x]
  <1>1. /\ x \in Running /\ Running' = Running /\ wanted' = wanted /\ active' = active
        /\ s \in Subsystems /\ s \in Nat
        /\ next' = [next EXCEPT ![x] = s + 1]
        /\ next \in [Appliers -> 1..Handlers + 1]
        /\ config \in [Subsystems -> Profiles \cup {None}]
      BY SlateCtrlAssumption DEF AgentInv, TypeOK, RunHandler, Running, Subsystems
  <1>2. \A r \in Subsystems \ {s} : config'[r] = config[r]
      BY <1>1 DEF RunHandler
  <1>3. \A r \in Subsystems \ loose' : r # s => r \notin loose
      BY <1>1 DEF RunHandler
  <1>4. \A y \in Running : next'[y] = IF y = x THEN s + 1 ELSE next[y]
      BY <1>1 DEF Running
  <1>5. OneProfileApplied'
      <2> SUFFICES ASSUME NEW r \in Subsystems \ loose', \A y \in Running : next'[y] <= r
                   PROVE  config'[r] = active'
          BY <1>1 DEF OneProfileApplied, Subsystems
      <2>1. s < r /\ \A y \in Running : next[y] <= r
          BY <1>1, <1>4 DEF Subsystems, Running
      <2>2. r # s /\ r \in Subsystems \ loose
          BY <1>1, <1>3, <2>1
      <2>3. QED BY <1>1, <1>2, <2>1, <2>2 DEF AgentInv, OneProfileApplied
  <1>6. CASE ok /\ \A y \in Running : fd[y] = fd[x]
      <2>1. config' = [config EXCEPT ![s] = wanted[x]]
          BY <1>6 DEF RunHandler
      <2>2. Running = {x}
          BY <1>1, <1>6, Alone
      <2>3. ASSUME NEW r \in Subsystems \ loose', r < next'[x]
            PROVE  config'[r] = wanted'[x]
          <3>1. CASE r = s
              BY <3>1, <1>1, <2>1
          <3>2. CASE r # s
              <4>1. r \in Subsystems \ loose /\ r < next[x]
                  BY <3>2, <1>3, <2>3, <1>1 DEF Subsystems, Running
              <4>2. QED BY <4>1, <3>2, <1>1, <1>2 DEF AgentInv, HandlersDone
          <3>3. QED BY <3>1, <3>2
      <2>4. QED BY <1>1, <1>5, <2>2, <2>3 DEF HandlersDone
  <1>7. CASE ~(ok /\ \A y \in Running : fd[y] = fd[x])
      <2>1. loose' = loose \cup {s}
          BY <1>1, <1>7 DEF RunHandler
      <2>2. ASSUME NEW y \in Running, NEW r \in Subsystems \ loose', r < next'[y]
            PROVE  config'[r] = wanted'[y]
          <3>1. r # s /\ r \in Subsystems \ loose
              BY <2>1
          <3>2. r < next[y]
              BY <3>1, <2>2, <1>1 DEF Subsystems, Running
          <3>3. QED BY <3>1, <3>2, <1>1, <1>2 DEF AgentInv, HandlersDone
      <2>3. QED BY <1>1, <1>5, <2>2 DEF HandlersDone
  <1>8. QED BY <1>6, <1>7

\* An apply that ends has been through every handler, so the file it writes agrees
\* with the subsystems.
LEMMA FinishStep ==
    ASSUME AgentInv, NEW x \in Appliers, Finish(x)
    PROVE  HandlersDone' /\ OneProfileApplied'
  <1>1. /\ x \in Running
        /\ \A s \in Subsystems : s < next[x]
        /\ Running' = Running \ {x}
        /\ config' = config /\ loose' = loose /\ active' = wanted[x]
        /\ \A y \in Running \ {x} : next'[y] = next[y] /\ wanted'[y] = wanted[y]
      BY SlateCtrlAssumption
      DEF AgentInv, TypeOK, Finish, Exit, Running, Subsystems
  <1>2. \A s \in Subsystems \ loose : config[s] = wanted[x]
      BY <1>1 DEF AgentInv, HandlersDone
  <1>3. QED BY <1>1, <1>2 DEF AgentInv, HandlersDone, OneProfileApplied

\* One that dies makes loose what it had reached; the rest is as the others left it.
LEMMA DiesStep ==
    ASSUME AgentInv, NEW x \in Appliers, Dies(x)
    PROVE  HandlersDone' /\ OneProfileApplied'
  <1>1. /\ Running' = Running \ {x}
        /\ config' = config /\ active' = active /\ loose \subseteq loose'
        /\ x \in Running => Half(x) \subseteq loose'
        /\ \A y \in Running \ {x} : next'[y] = next[y] /\ wanted'[y] = wanted[y]
      BY DEF AgentInv, TypeOK, Dies, Exit, Running
  <1>2. HandlersDone'
      BY <1>1 DEF AgentInv, HandlersDone
  <1>3. ASSUME NEW s \in Subsystems \ loose', \A y \in Running \ {x} : next[y] <= s
        PROVE  config[s] = active
      <2>1. x \in Running => next[x] <= s
          BY <1>1, SlateCtrlAssumption DEF AgentInv, TypeOK, Half, Subsystems, Running
      <2>2. QED BY <1>1, <1>3, <2>1 DEF AgentInv, OneProfileApplied
  <1>4. QED BY <1>1, <1>2, <1>3 DEF OneProfileApplied

\* Power takes everybody: what nobody had reached is on the active profile.
LEMMA PowerStep ==
    ASSUME AgentInv, PowerCycle
    PROVE  HandlersDone' /\ OneProfileApplied'
  <1>1. /\ Running' = {}
        /\ config' = config /\ active' = active /\ loose \subseteq loose'
        /\ \A x \in Running : Half(x) \subseteq loose'
      BY DEF PowerCycle, Running
  <1>2. ASSUME NEW s \in Subsystems \ loose' PROVE config[s] = active
      <2>1. \A x \in Running : next[x] <= s
          BY <1>1, SlateCtrlAssumption DEF AgentInv, TypeOK, Half, Subsystems, Running
      <2>2. QED BY <1>1, <2>1 DEF AgentInv, OneProfileApplied
  <1>3. QED BY <1>1, <1>2 DEF HandlersDone, OneProfileApplied

\* Every step keeps the subsystems on one profile.
LEMMA AgentStep == AgentInv /\ [Next]_vars => AgentInv'
  <1> SUFFICES ASSUME AgentInv, [Next]_vars PROVE AgentInv'
      OBVIOUS
  <1>1. TypeOK' /\ LockExcludes' /\ WantedWhileAlive'
      BY TypeStep, LockStep DEF AgentInv
  <1>2. HandlersDone' /\ OneProfileApplied'
      <2> USE SlateCtrlAssumption
              DEF AgentInv, TypeOK, HandlersDone, OneProfileApplied, Running,
                  Subsystems, applies, aside
      <2>1. ASSUME NEW x \in Appliers, NEW p \in Profiles, Begin(x, p)
            PROVE  HandlersDone' /\ OneProfileApplied'
          BY <2>1 DEF Begin
      <2>2. ASSUME NEW x \in Appliers, Lock(x)
            PROVE  HandlersDone' /\ OneProfileApplied'
          BY <2>2 DEF Lock
      <2>3. ASSUME NEW x \in Appliers, LockTimeout(x)
            PROVE  HandlersDone' /\ OneProfileApplied'
          BY <2>3 DEF LockTimeout, Exit
      <2>4. ASSUME NEW x \in Appliers, NEW ok \in BOOLEAN, RunHandler(x, ok)
            PROVE  HandlersDone' /\ OneProfileApplied'
          BY <2>4, HandlerStep
      <2>5. ASSUME NEW x \in Appliers, Finish(x)
            PROVE  HandlersDone' /\ OneProfileApplied'
          BY <2>5, FinishStep
      <2>6. ASSUME NEW ok \in BOOLEAN, OnlyEnd(ok)
            PROVE  HandlersDone' /\ OneProfileApplied'
          BY <2>6 DEF OnlyEnd
      <2>7. CASE PowerCycle \/ \E x \in Appliers : Dies(x)
          BY <2>7, PowerStep, DiesStep
      <2>8. CASE FactoryReset
          BY <2>8 DEF FactoryReset
      <2>9. CASE UNCHANGED <<active, applies, config, loose>>
          BY <2>9
      <2>10. QED
          BY <2>1, <2>2, <2>3, <2>4, <2>5, <2>6, <2>7, <2>8, <2>9
          DEF Next, Work, vars, Install, OnlyBegin, Reclaim
  <1>3. QED BY <1>1, <1>2 DEF AgentInv

\* The state of the agent stays within its types (slate-ctrl).
THEOREM AgentTypes == Spec => []TypeOK
  <1>1. AgentInv => TypeOK
      BY DEF AgentInv
  <1>2. QED BY InitAgent, AgentStep, <1>1, PTL DEF Spec

\* The subsystems no running apply has reached are on the profile the active file names, as
\* far as the lock answers for them, however applies overlap and wherever they die
\* (slate-ctrl:118-183).
THEOREM AgentKeepsOneProfile == Spec => []OneProfileApplied
  <1>1. AgentInv => OneProfileApplied
      BY DEF AgentInv
  <1>2. QED BY InitAgent, AgentStep, <1>1, PTL DEF Spec

-----------------------------------------------------------------------------
\* The agent starts as the service does.
LEMMA ServiceInit == Init => Service!DeviceInit
  BY DEF Init, Service!DeviceInit

\* Each step of the agent is a step of the service, or none the service sees.
LEMMA ServiceStep ==
    AgentInv /\ [Next]_vars => [Service!DeviceNext]_(Service!deviceVars)
  <1> SUFFICES ASSUME AgentInv, Next
               PROVE  Service!DeviceNext \/ UNCHANGED Service!deviceVars
      BY DEF vars, applies, Service!deviceVars
  <1> USE SlateCtrlAssumption DEF AgentInv, TypeOK, WantedWhileAlive, applies, aside
  <1>1. ASSUME NEW p \in Profiles, NEW content \in Contents, Install(p, content)
        PROVE  Service!DeviceNext
      BY <1>1 DEF Install, Service!DeviceNext, Service!Push
  <1>2. ASSUME NEW x \in Appliers, NEW p \in Profiles, Begin(x, p)
        PROVE  Service!DeviceNext
      <2>1. Service!Invoke(x, p)
          BY <1>2 DEF Begin, Service!Invoke
      <2>2. QED BY <2>1 DEF Service!DeviceNext
  <1>3. ASSUME NEW x \in Appliers, LockTimeout(x) \/ Dies(x)
        PROVE  Service!DeviceNext
      <2>1. Service!GiveUp(x)
          BY <1>3 DEF LockTimeout, Dies, Exit, Service!GiveUp
      <2>2. QED BY <2>1 DEF Service!DeviceNext
  <1>4. ASSUME NEW x \in Appliers, Finish(x)
        PROVE  Service!DeviceNext
      <2>1. Service!Complete(x)
          BY <1>4 DEF Finish, Exit, Service!Complete
      <2>2. QED BY <2>1 DEF Service!DeviceNext
  <1>5. CASE PowerCycle \/ FactoryReset
      BY <1>5 DEF PowerCycle, FactoryReset, Service!DeviceNext, Service!Reboot, Service!Wipe
  <1>6. CASE UNCHANGED <<json, active, wanted>>
      BY <1>6 DEF Service!deviceVars
  <1>7. QED
      BY <1>1, <1>2, <1>3, <1>4, <1>5, <1>6
      DEF Next, Work, Lock, RunHandler, OnlyBegin, OnlyEnd, Reclaim

\* The agent implements the service the controller and the button rely on: an apply
\* completes with its profile active, or is given up (slate-ctrl:108-199).
THEOREM AgentImplementsService == Spec => Implements
  <1>1. Spec => []AgentInv
      BY InitAgent, AgentStep, PTL DEF Spec
  <1>2. QED
      BY <1>1, ServiceInit, ServiceStep, PTL
      DEF Spec, Implements, Service!DeviceSpec
=============================================================================
