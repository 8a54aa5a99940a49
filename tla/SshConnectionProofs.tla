------------------------ MODULE SshConnectionProofs ------------------------
(***************************************************************************)
(* That the shared SSH connection is trusted whenever a command uses it,   *)
(* and that a broken upload leaves its target whole, for any number of     *)
(* callers, host keys, attempts and restarts.                              *)
(***************************************************************************)
EXTENDS SshConnection, TLAPS

Trusted == [key |-> pin, mode |-> secret]

\* Who opens a connection holds the lock; what it has opened nobody else uses yet.
Opening ==
    \A c \in Callers :
        /\ at[c] \in {"connecting", "verifying"} => lock = c
        /\ at[c] = "connecting" => current = None
        /\ at[c] = "verifying" =>
             /\ current \in Conns
             /\ seen \in HostKeys
             /\ Up(current) => link[current] = [key |-> seen, mode |-> secret]
             /\ \A d \in Callers : used[d] # current

\* A connection that is up is the current one, and with the lock free it is trusted;
\* the connection a command uses is trusted whether or not the lock is free.
Using ==
    /\ \A n \in Conns : Up(n) => n = current
    /\ lock = None /\ Up(current) => link[current] = Trusted
    /\ \A c \in Callers : at[c] \in Working /\ Up(used[c]) => link[used[c]] = Trusted

Files ==
    \A c \in Callers :
        /\ file[c].target = "whole"
        /\ at[c] = "moving" => file[c].beside = "whole"

SInv == SshTypeOK /\ Opening /\ Using /\ Files

\* None names no caller, no host key and no connection.
LEMMA NoneIsNobody == None \notin Callers /\ None \notin HostKeys /\ None \notin Conns
  BY SshAssumption

LEMMA InitInv == Init => SInv
  <1> SUFFICES ASSUME Init PROVE SInv
    OBVIOUS
  <1>1. SshTypeOK
    BY SshAssumption DEF Init, SshTypeOK, Modes, Wishes, Stages
  <1>2. Opening /\ Using /\ Files
    BY DEF Init, Opening, Using, Files, Up, Working
  <1> QED BY <1>1, <1>2 DEF SInv

-----------------------------------------------------------------------------
\* Typing, one action after the other.
LEMMA TypeStep ==
  ASSUME NEW c \in Callers, SshTypeOK, Step(c)
  PROVE  SshTypeOK'
  <1> USE SshAssumption DEF SshTypeOK, Return, Drop, Proceed, Stages, Working, object, caller, router
  <1>1. CASE Ensure(c)
    BY <1>1 DEF Ensure
  <1>2. CASE Connected(c)
    <2>1. secret \in Modes /\ routerKey \in HostKeys
      OBVIOUS
    <2>2. [key |-> routerKey, mode |-> secret] \in Peers
      BY <2>1 DEF Peers
    <2> QED BY <1>2, <2>2 DEF Connected, FreeConns
  <1>3. CASE ConnectFails(c)
    BY <1>3, 0 \in 0..MaxTries DEF ConnectFails, Wishes
  <1>4. CASE Mismatch(c)
    BY <1>4 DEF Mismatch, Wishes
  <1>5. ASSUME NEW b \in BOOLEAN, Verified(c, b) PROVE SshTypeOK'
    BY <1>5 DEF Verified
  <1>6. CASE Moved(c)
    BY <1>6 DEF Moved, Wishes
  <1>7. CASE Answered(c)
    BY <1>7 DEF Answered, Wishes
  <1>8. CASE Streamed(c) \/ Fails(c)
    BY <1>8 DEF Streamed, Fails
  <1>9. CASE Refused(c)
    BY <1>9 DEF Refused, Wishes
  <1>10. CASE DropCurrent(c)
    BY <1>10 DEF DropCurrent, Wishes
  <1>11. CASE UsePrivateKey(c)
    BY <1>11 DEF UsePrivateKey, Wishes
  <1> QED BY <1>1, <1>2, <1>3, <1>4, <1>5, <1>6, <1>7, <1>8, <1>9, <1>10, <1>11 DEF Step

-----------------------------------------------------------------------------
\* Steps of a caller that neither opens nor closes anything.
LEMMA QuietStep ==
  ASSUME NEW c \in Callers, SInv, UNCHANGED <<object, link>>,
         \A d \in Callers : d # c => at'[d] = at[d] /\ used'[d] = used[d],
         at'[c] \notin {"connecting", "verifying"},
         used'[c] \in {None, used[c]},
         at'[c] \in Working => at[c] \in Working /\ used'[c] = used[c]
  PROVE  Opening' /\ Using'
  BY NoneIsNobody DEF SInv, Opening, Using, Up, Trusted, object

\* Steps that close the current connection and give the lock back.
LEMMA DropStep ==
  ASSUME NEW c \in Callers, SInv, Drop, lock' = None, lock \in {c, None},
         \A d \in Callers : d # c => at'[d] = at[d] /\ used'[d] = used[d],
         at'[c] \notin {"connecting", "verifying"}, at'[c] \notin Working
  PROVE  Opening' /\ Using'
  <1>1. \A n \in Conns : ~Up(n)'
    BY DEF SInv, Using, Drop, Up
  <1>2. \A d \in Callers : at'[d] \notin {"connecting", "verifying"}
    BY NoneIsNobody DEF SInv, Opening
  <1>3. ~Up(current)'
    BY NoneIsNobody DEF Drop, Up
  <1>4. \A d \in Callers : ~Up(used[d])'
    BY <1>1 DEF Up
  <1> QED BY <1>1, <1>2, <1>3, <1>4 DEF Opening, Using

\* A connection that is up is handed out: it is the current one, and trusted.
LEMMA EnsureStep ==
  ASSUME NEW c \in Callers, SInv, Ensure(c)
  PROVE  Opening' /\ Using'
  <1>1. CASE Up(current)
    <2>1. at'[c] \in {"running", "streaming"} /\ used'[c] = current
      BY <1>1 DEF Ensure, Proceed, SInv, SshTypeOK
    <2>2. \A d \in Callers : d # c => at'[d] = at[d] /\ used'[d] = used[d]
      BY <1>1 DEF Ensure, Proceed, SInv, SshTypeOK
    <2>3. UNCHANGED <<object, link>> /\ lock = None
      BY <1>1 DEF Ensure
    <2>4. \A d \in Callers : at[d] \notin {"connecting", "verifying"}
      BY <2>3, NoneIsNobody DEF SInv, Opening
    <2> QED BY <1>1, <2>1, <2>2, <2>3, <2>4 DEF SInv, Opening, Using, Up, Trusted, object
  <1>2. CASE ~Up(current)
    <2>1. at' = [at EXCEPT ![c] = "connecting"] /\ lock' = c /\ current' = None /\ lock = None
      BY <1>2 DEF Ensure
    <2>2. UNCHANGED <<secret, pin, seen, used, link>>
      BY <1>2 DEF Ensure, router
    <2>3. \A n \in Conns : ~Up(n)
      BY <1>2 DEF SInv, Using, Up
    <2>4. \A d \in Callers : at[d] \notin {"connecting", "verifying"}
      BY <2>1, NoneIsNobody DEF SInv, Opening
    <2>5. /\ at'[c] = "connecting"
          /\ \A d \in Callers : d # c => at'[d] = at[d]
      BY <2>1 DEF SInv, SshTypeOK
    <2>6. Opening'
      BY <2>1, <2>4, <2>5 DEF Opening
    <2>7. Using'
      BY <2>1, <2>2, <2>3, NoneIsNobody DEF Using, Up
    <2> QED BY <2>6, <2>7
  <1> QED BY <1>1, <1>2

\* The connection just opened is one that nobody refers to.
LEMMA ConnectedStep ==
  ASSUME NEW c \in Callers, SInv, Connected(c)
  PROVE  Opening' /\ Using'
  <1>1. PICK n \in FreeConns :
          /\ current' = n
          /\ link' = [link EXCEPT ![n] = [key |-> routerKey, mode |-> secret]]
    BY DEF Connected
  <1>2. n \in Conns /\ \A d \in Callers : used[d] # n
    BY <1>1 DEF FreeConns
  <1>3. /\ seen' = routerKey /\ routerKey \in HostKeys
        /\ UNCHANGED <<lock, secret, pin, used>>
        /\ at' = [at EXCEPT ![c] = "verifying"] /\ at[c] = "connecting"
    BY DEF Connected, SInv, SshTypeOK
  <1>4. lock = c /\ current = None /\ \A d \in Callers : d # c => at[d] \notin {"connecting", "verifying"}
    BY <1>3 DEF SInv, Opening
  <1>5. /\ link'[n] = [key |-> routerKey, mode |-> secret]
        /\ \A m \in Conns : m # n => link'[m] = link[m] /\ ~Up(m)
    BY <1>1, <1>2, <1>4, NoneIsNobody DEF SInv, SshTypeOK, Using, Up
  <1>6. /\ at'[c] = "verifying"
        /\ \A d \in Callers : d # c => at'[d] = at[d]
    BY <1>3 DEF SInv, SshTypeOK
  <1>7. Opening'
    BY <1>1, <1>2, <1>3, <1>4, <1>5, <1>6 DEF Opening
  <1>8. Using'
    <2>1. \A m \in Conns : Up(m)' => m = current'
      BY <1>1, <1>5 DEF Up
    <2>2. \A d \in Callers : ~Up(used[d])'
      BY <1>2, <1>3, <1>5 DEF Up
    <2>3. lock' # None
      BY <1>3, <1>4, NoneIsNobody
    <2> QED BY <2>1, <2>2, <2>3 DEF Using
  <1> QED BY <1>7, <1>8

\* The pin is the key of the connection that was opened, from now on.
LEMMA VerifiedStep ==
  ASSUME NEW c \in Callers, NEW b \in BOOLEAN, SInv, Verified(c, b)
  PROVE  Opening' /\ Using'
  <1>1. /\ pin' = seen /\ lock' = None
        /\ UNCHANGED <<current, secret, link>>
        /\ at[c] = "verifying" /\ pin \in {None, seen}
    BY DEF Verified
  <1>2. /\ at'[c] \in {"running", "streaming"} /\ used'[c] = current
        /\ \A d \in Callers : d # c => at'[d] = at[d] /\ used'[d] = used[d]
    BY DEF Verified, Proceed, SInv, SshTypeOK
  <1>3. /\ lock = c /\ current \in Conns /\ seen \in HostKeys
        /\ Up(current) => link[current] = [key |-> seen, mode |-> secret]
        /\ \A d \in Callers : used[d] # current
        /\ \A d \in Callers : d # c => at[d] \notin {"connecting", "verifying"}
    BY <1>1 DEF SInv, Opening
  <1>4. Opening'
    BY <1>2, <1>3 DEF Opening
  <1>5. \A n \in Conns : Up(n)' => n = current'
    BY <1>1 DEF SInv, Using, Up
  <1>6. Up(current)' => link'[current'] = Trusted'
    BY <1>1, <1>3 DEF Up, Trusted
  <1>7. \A d \in Callers : d # c => ~Up(used[d])'
    BY <1>1, <1>2, <1>3 DEF SInv, Using, Up
  <1> QED BY <1>1, <1>2, <1>4, <1>5, <1>6, <1>7 DEF Using

LEMMA ConnectFailsStep ==
  ASSUME NEW c \in Callers, SInv, ConnectFails(c)
  PROVE  Opening' /\ Using'
  <1>1. CASE tries' = tries + 1 /\ UNCHANGED <<lock, caller>>
    BY <1>1 DEF ConnectFails, SInv, Opening, Using, Up, Trusted, caller, router
  <1>2. CASE lock' = None /\ Return(c)
    <2>1. lock = c /\ current = None /\ current' = None /\ link' = link
      BY DEF ConnectFails, SInv, Opening, router
    <2>2. Drop
      BY <2>1, NoneIsNobody DEF Drop, SInv, SshTypeOK
    <2>3. /\ \A d \in Callers : d # c => at'[d] = at[d] /\ used'[d] = used[d]
          /\ at'[c] = "idle"
      BY <1>2 DEF Return, SInv, SshTypeOK
    <2> QED BY <1>2, <2>1, <2>2, <2>3, DropStep DEF Working
  <1> QED BY <1>1, <1>2 DEF ConnectFails

-----------------------------------------------------------------------------
\* What every step keeps of the connections.
LEMMA StepTrust ==
  ASSUME NEW c \in Callers, SInv, Step(c)
  PROVE  Opening' /\ Using'
  <1> USE DEF Return
  <1>1. CASE Mismatch(c) \/ DropCurrent(c) \/ UsePrivateKey(c)
    <2>1. Drop /\ lock' = None /\ lock \in {c, None}
      BY <1>1 DEF Mismatch, DropCurrent, UsePrivateKey, SInv, Opening
    <2>2. /\ \A d \in Callers : d # c => at'[d] = at[d] /\ used'[d] = used[d]
          /\ at'[c] = "idle"
      BY <1>1 DEF Mismatch, DropCurrent, UsePrivateKey, SInv, SshTypeOK
    <2> QED BY <2>1, <2>2, DropStep DEF Working
  <1>2. CASE Answered(c) \/ Refused(c) \/ Streamed(c) \/ Fails(c)
    <2>1. UNCHANGED <<object, link>>
      BY <1>2 DEF Answered, Refused, Streamed, Fails, router
    <2>2. \A d \in Callers : d # c => at'[d] = at[d] /\ used'[d] = used[d]
      BY <1>2 DEF Answered, Refused, Streamed, Fails, SInv, SshTypeOK
    <2>3. at'[c] \in {"idle", "failed", "moving"} /\ used'[c] \in {None, used[c]}
      BY <1>2 DEF Answered, Refused, Streamed, Fails, SInv, SshTypeOK
    <2>4. at'[c] \in Working => at[c] \in Working /\ used'[c] = used[c]
      BY <1>2 DEF Answered, Refused, Streamed, Fails, Working, SInv, SshTypeOK
    <2> QED BY <2>1, <2>2, <2>3, <2>4, QuietStep
  <1>3. CASE Moved(c)
    <2>1. UNCHANGED <<object, link>>
      BY <1>3 DEF Moved
    <2>2. /\ \A d \in Callers : d # c => at'[d] = at[d] /\ used'[d] = used[d]
          /\ at'[c] \in {"idle", "failed"} /\ used'[c] \in {None, used[c]}
      BY <1>3 DEF Moved, SInv, SshTypeOK
    <2> QED BY <2>1, <2>2, QuietStep DEF Working
  <1> QED BY <1>1, <1>2, <1>3, EnsureStep, ConnectedStep, VerifiedStep, ConnectFailsStep DEF Step

-----------------------------------------------------------------------------
\* Only the move of a whole file touches a target.
LEMMA StepFiles ==
  ASSUME NEW c \in Callers, SInv, Step(c)
  PROVE  Files'
  <1> USE DEF SInv, SshTypeOK, Files, Return, Proceed, router, caller
  <1>1. CASE Ensure(c)
    BY <1>1 DEF Ensure
  <1>2. CASE Connected(c) \/ ConnectFails(c) \/ Mismatch(c)
    BY <1>2 DEF Connected, ConnectFails, Mismatch
  <1>3. ASSUME NEW b \in BOOLEAN, Verified(c, b) PROVE Files'
    BY <1>3 DEF Verified
  <1>4. CASE Moved(c)
    BY <1>4 DEF Moved
  <1>5. CASE Streamed(c) \/ Refused(c)
    BY <1>5 DEF Streamed, Refused
  <1>6. CASE Answered(c) \/ Fails(c) \/ DropCurrent(c) \/ UsePrivateKey(c)
    BY <1>6 DEF Answered, Fails, DropCurrent, UsePrivateKey
  <1> QED BY <1>1, <1>2, <1>3, <1>4, <1>5, <1>6 DEF Step

-----------------------------------------------------------------------------
\* Everybody else: new calls, the network and the router, a restart.
LEMMA OtherStep ==
  ASSUME SInv,
         \/ \E c \in Callers, w \in Wishes : Call(c, w)
         \/ \E key \in HostKeys : Break(key)
         \/ Restart
         \/ UNCHANGED vars
  PROVE  SInv'
  <1>1. ASSUME NEW c \in Callers, NEW w \in Wishes, Call(c, w) PROVE SInv'
    <2>1. SshTypeOK'
      BY <1>1 DEF Call, SInv, SshTypeOK, object, router, Stages
    <2>2. /\ UNCHANGED <<object, link>> /\ used' = used /\ file' = file
          /\ \A d \in Callers : d # c => at'[d] = at[d]
          /\ at'[c] = "waiting"
      BY <1>1 DEF Call, router, SInv, SshTypeOK
    <2>3. Opening' /\ Using'
      BY <2>2, QuietStep DEF Working
    <2>4. Files'
      BY <2>2 DEF SInv, Files
    <2> QED BY <2>1, <2>3, <2>4 DEF SInv
  <1>2. ASSUME NEW key \in HostKeys, Break(key) PROVE SInv'
    <2>1. SshTypeOK'
      BY <1>2 DEF Break, SInv, SshTypeOK, object, caller
    <2>2. \A x : ~Up(x)'
      BY <1>2 DEF Break, Up
    <2>3. Opening' /\ Using' /\ Files'
      BY <1>2, <2>2 DEF Break, SInv, Opening, Using, Files, object, caller
    <2> QED BY <2>1, <2>3 DEF SInv
  <1>3. CASE Restart
    <2>1. SshTypeOK'
      BY <1>3, SshAssumption DEF Restart, SInv, SshTypeOK, Wishes, Stages
    <2>2. Opening' /\ Using' /\ Files'
      BY <1>3, NoneIsNobody DEF Restart, SInv, Opening, Using, Files, Up, Working
    <2> QED BY <2>1, <2>2 DEF SInv
  <1>4. CASE UNCHANGED vars
    BY <1>4 DEF vars, object, caller, router, SInv, SshTypeOK, Opening, Using, Files, Up, Trusted
  <1> QED BY <1>1, <1>2, <1>3, <1>4

LEMMA NextInv == SInv /\ [Next]_vars => SInv'
  <1> SUFFICES ASSUME SInv, [Next]_vars PROVE SInv'
    OBVIOUS
  <1>1. ASSUME NEW c \in Callers, Step(c) PROVE SInv'
    BY <1>1, TypeStep, StepTrust, StepFiles DEF SInv
  <1> QED BY <1>1, OtherStep DEF Next

\* The induction: the invariant holds of every state.
THEOREM SshInvariant == Spec => []SInv
  BY InitInv, NextInv, PTL DEF Spec

\* ssh.py:91-99: no connection is forgotten while it is up, and no command is under way
\* on a peer other than the pinned one or with another auth mode than the one in force.
THEOREM ConnectionIsTrusted == Spec => []OneTrustedConnection
  <1>1. SInv => OneTrustedConnection
    BY DEF SInv, Using, Trusted, OneTrustedConnection
  <1> QED BY <1>1, SshInvariant, PTL

\* ssh.py:389-390: an upload broken at any point leaves its target whole.
THEOREM UploadsStayWhole == Spec => []UploadWhole
  <1>1. SInv => UploadWhole
    BY DEF SInv, Files, UploadWhole
  <1> QED BY <1>1, SshInvariant, PTL
=============================================================================
