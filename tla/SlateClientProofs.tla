------------------------- MODULE SlateClientProofs -------------------------
(***************************************************************************)
(* The safety of SlateClient for any number of callers, URLs and sessions. *)
(*                                                                         *)
(* What makes the state predicates inductive is who holds the lock: a      *)
(* coroutine suspended inside the lock is its holder, and from the logout  *)
(* of a stale session to the end of the login there is no current session, *)
(* since nobody else may set or drop one meanwhile.                        *)
(***************************************************************************)
EXTENDS SlateClient, TLAPS

\* Only the holder of the lock is suspended inside it.
LockDiscipline ==
    \A c \in Callers : pc[c] \in UnderLock => lock = c

\* A connect() that has started to replace the session has none to fall back on.
NoSessionDuringLogin ==
    \A c \in Callers : pc[c] \in {"logout", "probe", "login"} => glinet = NoSid

\* The connect() that logs in late was past the check when the breaker opened, and
\* nobody else is.
LateLoginIsLast ==
    /\ lateLogins \in {0, 1}
    /\ lateLogins = 1 =>
          windowOpen /\ \A c \in Callers : pc[c] \notin {"resolve", "logout", "probe"}

SafetyInv ==
    /\ TypeOK
    /\ LockDiscipline
    /\ NoSessionDuringLogin
    /\ RequestHasSession
    /\ SessionOnUrl
    /\ BreakerConsistent
    /\ LateLoginIsLast

-----------------------------------------------------------------------------
\* What the two breaker updates leave behind, whatever the counter was.
LEMMA FailureRecorded ==
    ASSUME failures \in 0..Threshold, windowOpen \in BOOLEAN, BreakerConsistent,
           RecordFailure
    PROVE  /\ failures' \in 0..Threshold
           /\ windowOpen' \in BOOLEAN
           /\ BreakerConsistent'
           /\ windowOpen => windowOpen'
           /\ lateLogins' = lateLogins
  BY ConstantsAssumption DEF BreakerConsistent, RecordFailure

LEMMA SuccessRecorded ==
    ASSUME RecordSuccess
    PROVE  /\ failures' \in 0..Threshold
           /\ windowOpen' \in BOOLEAN
           /\ BreakerConsistent'
           /\ windowOpen' = FALSE
           /\ lateLogins' = 0
  <1>1. failures' \in 0..Threshold
      BY ConstantsAssumption DEF RecordSuccess
  <1>2. windowOpen' = FALSE /\ lateLogins' = 0
      BY DEF RecordSuccess
  <1>3. QED BY <1>1, <1>2, Zenon DEF BreakerConsistent

\* The initial state satisfies the invariant: no session, no request, no lock.
LEMMA InitSafe == Init => SafetyInv
  <1> SUFFICES ASSUME Init PROVE SafetyInv
      OBVIOUS
  <1>1. /\ failures \in 0..Threshold
        /\ pc \in [Callers -> Places]
        /\ \A c \in Callers : pc[c] \notin UnderLock \cup Requesting
      BY ConstantsAssumption DEF Init, Places, UnderLock, Requesting
  <1>2. windowOpen = FALSE /\ lateLogins = 0
      BY DEF Init
  <1>3. windowOpen \in BOOLEAN /\ BreakerConsistent
      BY <1>2, Zenon DEF BreakerConsistent
  <1>4. TypeOK
      BY <1>1, <1>2, <1>3, ConstantsAssumption DEF Init, TypeOK
  <1>5. QED
      BY <1>1, <1>2, <1>3, <1>4
      DEF Init, SafetyInv, LockDiscipline, NoSessionDuringLogin,
          RequestHasSession, SessionOnUrl, LateLoginIsLast, UnderLock

\* Every step keeps the invariant (client.py:137-430).
LEMMA NextSafe == SafetyInv /\ [Next]_vars => SafetyInv'
  <1> SUFFICES ASSUME SafetyInv, [Next]_vars PROVE SafetyInv'
      OBVIOUS
  <1> USE ConstantsAssumption DEF SafetyInv, LockDiscipline,
          NoSessionDuringLogin, RequestHasSession, SessionOnUrl, LateLoginIsLast, Places,
          UnderLock, Requesting, session, breaker, Goto, Return, StartRequest
  <1>1. ASSUME NEW c \in Callers, Call(c) PROVE SafetyInv'
      BY <1>1 DEF Call, TypeOK, BreakerConsistent
  <1>2. ASSUME NEW c \in Callers, Connecting(c) PROVE SafetyInv'
    <2>1. CASE AlreadyConnected(c)
        BY <2>1 DEF AlreadyConnected, TypeOK, BreakerConsistent
    <2>2. CASE Resolved(c)
        BY <2>2 DEF Resolved, TypeOK, BreakerConsistent
    <2>3. CASE LoggedOutStale(c)
        BY <2>3 DEF LoggedOutStale, TypeOK, BreakerConsistent
    <2>4. CASE ProbeOk(c)
        BY <2>4 DEF ProbeOk, TypeOK, BreakerConsistent
    <2>5. CASE ConnectFails(c)
      <3>1. /\ failures' \in 0..Threshold
            /\ windowOpen' \in BOOLEAN
            /\ BreakerConsistent'
            /\ windowOpen => windowOpen'
            /\ lateLogins' = lateLogins
          BY <2>5, FailureRecorded DEF ConnectFails, TypeOK
      <3>2. QED BY <2>5, <3>1 DEF ConnectFails, TypeOK
    <2>6. CASE LoginOk(c)
      <3>1. /\ failures' \in 0..Threshold
            /\ windowOpen' \in BOOLEAN
            /\ BreakerConsistent'
            /\ windowOpen' = FALSE
            /\ lateLogins' = 0
          BY <2>6, SuccessRecorded DEF LoginOk
      <3>2. QED BY <2>6, <3>1 DEF LoginOk, TypeOK
    <2>7. QED BY <1>2, <2>1, <2>2, <2>3, <2>4, <2>5, <2>6 DEF Connecting
  <1>3. ASSUME NEW c \in Callers, Answering(c) PROVE SafetyInv'
    <2>1. CASE RequestOk(c)
      <3>1. /\ failures' \in 0..Threshold
            /\ windowOpen' \in BOOLEAN
            /\ BreakerConsistent'
            /\ windowOpen' = FALSE
            /\ lateLogins' = 0
          BY <2>1, SuccessRecorded DEF RequestOk
      <3>2. QED BY <2>1, <3>1 DEF RequestOk, TypeOK
    <2>2. CASE RequestTimeout(c)
      <3>1. /\ failures' \in 0..Threshold
            /\ windowOpen' \in BOOLEAN
            /\ BreakerConsistent'
            /\ windowOpen => windowOpen'
            /\ lateLogins' = lateLogins
          BY <2>2, FailureRecorded DEF RequestTimeout, TypeOK
      <3>2. QED BY <2>2, <3>1 DEF RequestTimeout, TypeOK
    <2>3. CASE RequestError(c)
        BY <2>3 DEF RequestError, TypeOK, BreakerConsistent
    <2>4. CASE SessionLost(c)
        BY <2>4 DEF SessionLost, TypeOK, BreakerConsistent
    <2>5. CASE LoggedOutLost(c)
        BY <2>5 DEF LoggedOutLost, Reconnect, TypeOK, BreakerConsistent
    <2>6. CASE RetryEnds(c)
        BY <2>6 DEF RetryEnds, TypeOK, BreakerConsistent
    <2>7. QED BY <1>3, <2>1, <2>2, <2>3, <2>4, <2>5, <2>6 DEF Answering
  <1>4. ASSUME NEW c \in Callers, TakingLock(c) PROVE SafetyInv'
    <2>1. CASE Acquire(c)
        BY <2>1 DEF Acquire, TypeOK, BreakerConsistent
    <2>2. CASE DropClient(c)
        BY <2>2 DEF DropClient, TypeOK, BreakerConsistent
    <2>3. CASE NothingToDisconnect(c)
        BY <2>3 DEF NothingToDisconnect, Reconnect, TypeOK, BreakerConsistent
    <2>4. CASE TakeForLogout(c)
        BY <2>4 DEF TakeForLogout, TypeOK, BreakerConsistent
    <2>5. QED BY <1>4, <2>1, <2>2, <2>3, <2>4 DEF TakingLock
  <1>5. CASE ForceReset
    <2>1. /\ failures' \in 0..Threshold
          /\ windowOpen' \in BOOLEAN
          /\ BreakerConsistent'
          /\ windowOpen' = FALSE
          /\ lateLogins' = 0
        BY <1>5, SuccessRecorded DEF ForceReset
    <2>2. QED BY <1>5, <2>1 DEF ForceReset, TypeOK
  <1>6. CASE Disconnect
      BY <1>6 DEF Disconnect, TypeOK, BreakerConsistent
  <1>7. CASE WindowExpires
    <2>1. windowOpen' = FALSE /\ lateLogins' = 0
        BY <1>7 DEF WindowExpires
    <2>2. windowOpen' \in BOOLEAN /\ BreakerConsistent'
        BY <2>1, Zenon DEF BreakerConsistent
    <2>3. QED BY <1>7, <2>1, <2>2 DEF WindowExpires, TypeOK
  <1>8. CASE UNCHANGED vars
      BY <1>8 DEF vars, TypeOK, BreakerConsistent
  <1>9. QED
      BY <1>1, <1>2, <1>3, <1>4, <1>5, <1>6, <1>7, <1>8 DEF Next

-----------------------------------------------------------------------------
\* The inductive invariant holds in every reachable state of the client.
THEOREM SafetyInvHolds == Spec => []SafetyInv
  <1>1. Init => SafetyInv
      BY InitSafe
  <1>2. SafetyInv /\ [Next]_vars => SafetyInv'
      BY NextSafe
  <1>3. QED BY <1>1, <1>2, PTL DEF Spec

\* Every variable of the client keeps its type.
THEOREM TypeCorrect == Spec => []TypeOK
  <1>1. SafetyInv => TypeOK
      BY DEF SafetyInv
  <1>2. QED BY <1>1, SafetyInvHolds, PTL

\* A request never starts on None (client.py:382, 413), for any number of callers.
THEOREM RequestsHaveSessions == Spec => []RequestHasSession
  <1>1. SafetyInv => RequestHasSession
      BY DEF SafetyInv
  <1>2. QED BY <1>1, SafetyInvHolds, PTL

\* The current session is on the URL connect() compares with (client.py:174-176).
THEOREM SessionsOnUrl == Spec => []SessionOnUrl
  <1>1. SafetyInv => SessionOnUrl
      BY DEF SafetyInv
  <1>2. QED BY <1>1, SafetyInvHolds, PTL

\* An open breaker has its threshold of failures behind it (client.py:258-278).
THEOREM BreakerIsConsistent == Spec => []BreakerConsistent
  <1>1. SafetyInv => BreakerConsistent
      BY DEF SafetyInv
  <1>2. QED BY <1>1, SafetyInvHolds, PTL

\* No login replaces a live session: the step property follows from the absence of
\* a session during the login.
THEOREM SessionsNotOverwritten == Spec => NoSessionOverwritten
  <1>1. SafetyInv /\ [Next]_vars
            => [glinet # NoSid /\ glinet' # NoSid => glinet' = glinet]_vars
    <2> SUFFICES ASSUME SafetyInv, Next, glinet # NoSid, glinet' # NoSid
                 PROVE  glinet' = glinet
        OBVIOUS
    <2>1. ASSUME NEW c \in Callers,
                 Call(c) \/ Connecting(c) \/ Answering(c) \/ TakingLock(c)
          PROVE  glinet' = glinet
      <3>1. CASE LoginOk(c)
          BY <3>1 DEF LoginOk, SafetyInv, NoSessionDuringLogin
      <3>2. CASE ~LoginOk(c)
          BY <2>1, <3>2
          DEF Call, Connecting, Answering, TakingLock, AlreadyConnected,
              Resolved, LoggedOutStale, ProbeOk, ConnectFails, RequestOk,
              RequestTimeout, RequestError, SessionLost, LoggedOutLost,
              RetryEnds, Acquire, DropClient, NothingToDisconnect,
              TakeForLogout, session
      <3>3. QED BY <3>1, <3>2
    <2>2. CASE ForceReset \/ Disconnect \/ WindowExpires
        BY <2>2 DEF ForceReset, Disconnect, WindowExpires, session
    <2>3. QED BY <2>1, <2>2 DEF Next
  <1>2. QED BY <1>1, SafetyInvHolds, PTL DEF Spec, NoSessionOverwritten

\* An open breaker lets at most one more login begin, that of the connect() which has
\* the lock (client.py:154-206), for any number of callers that wait for it.
THEOREM LateLoginIsSingle == Spec => []OneLateLogin
  <1>1. SafetyInv => OneLateLogin
      BY DEF SafetyInv, LateLoginIsLast, OneLateLogin
  <1>2. QED BY <1>1, SafetyInvHolds, PTL
=============================================================================
