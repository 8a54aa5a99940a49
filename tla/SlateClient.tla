---------------------------- MODULE SlateClient ----------------------------
(***************************************************************************)
(* The JSON-RPC session of one router: app/slate/client.py.                *)
(*                                                                         *)
(* Several coroutines share one SlateClient.  connect() runs under an      *)
(* asyncio lock and awaits four times while it holds it (the resolver, the *)
(* logout of a stale session, the TCP probe and the login); the request    *)
(* itself runs WITHOUT the lock, in a worker thread.  A circuit breaker    *)
(* counts failures of both.  One action per stretch of code between two    *)
(* awaits.                                                                 *)
(*                                                                         *)
(* Abstractions.  Time is dropped: an open breaker window may expire at    *)
(* any moment.  resolver.active() may answer any candidate URL.  The       *)
(* failure counter saturates at Threshold, the code only compares it with  *)
(* ">=".  asyncio.Lock wakes its waiters in order; here any waiter may be  *)
(* next, and fairness of Acquire stands for the order.                     *)
(***************************************************************************)
EXTENDS Naturals

CONSTANTS
    Callers,    \* coroutines that invoke call()
    Urls,       \* candidate URLs of the router
    Sids,       \* identities of login sessions, reused once nobody holds them
    Threshold,  \* _CB_FAILURE_THRESHOLD
    NoSid,      \* self._glinet is None
    Nobody      \* the lock is free

ASSUME ConstantsAssumption ==
    /\ Threshold \in Nat \ {0}
    /\ NoSid \notin Sids
    /\ Nobody \notin Callers

VARIABLES
    pc,         \* where each coroutine is suspended
    lock,       \* holder of self._lock
    glinet,     \* self._glinet: the current session
    url,        \* self._url
    sessUrl,    \* the URL the last session was opened on
    target,     \* target_url, the local of the connect() that has the lock
    inflight,   \* the session a coroutine's request thread runs on
    retrying,   \* the coroutine is in the second connect() of _call_with_retry
    failures,   \* self._consecutive_failures
    windowOpen, \* self._circuit_open_until > now
    lateLogins  \* history: logins begun since the breaker opened, 0 while it is closed

vars == <<pc, lock, glinet, url, sessUrl, target, inflight, retrying,
          failures, windowOpen, lateLogins>>

session == <<glinet, url, sessUrl>>
breaker == <<failures, windowOpen, lateLogins>>

\* The awaits of connect() that hold the lock.
UnderLock == {"resolve", "logout", "probe", "login"}
\* The awaits of _call_with_retry.
Requesting == {"request", "request2"}
Places == {"idle", "connect", "reset", "disconnect", "logoutLost"}
              \cup UnderLock \cup Requesting

(***************************************************************************)
(* Helpers                                                                 *)
(***************************************************************************)
\* Faulty variant: ">" for ">=", the breaker opens one failure late.
TripsOneLate ==
    /\ failures' = IF failures <= Threshold THEN failures + 1 ELSE failures
    /\ windowOpen' = (failures' > Threshold \/ windowOpen)
    /\ UNCHANGED lateLogins

RecordFailure ==
    /\ failures' = IF failures < Threshold THEN failures + 1 ELSE failures
    /\ windowOpen' = (failures' >= Threshold \/ windowOpen)
    /\ UNCHANGED lateLogins

\* Faulty variant: the counter is reset, the window is forgotten.
ResetCounterOnly ==
    /\ failures' = 0
    /\ UNCHANGED <<windowOpen, lateLogins>>

RecordSuccess ==
    /\ failures' = 0
    /\ windowOpen' = FALSE
    /\ lateLogins' = 0

Goto(c, place) == pc' = [pc EXCEPT ![c] = place]

\* call() ends, with a result or an exception.
Return(c) ==
    /\ Goto(c, "idle")
    /\ inflight' = [inflight EXCEPT ![c] = NoSid]
    /\ retrying' = [retrying EXCEPT ![c] = FALSE]

\* connect() returned normally: the request starts on self._glinet in the same
\* turn of the event loop.
StartRequest(c, sid) ==
    /\ Goto(c, IF retrying[c] THEN "request2" ELSE "request")
    /\ inflight' = [inflight EXCEPT ![c] = sid]
    /\ UNCHANGED retrying

(***************************************************************************)
(* connect()                                                               *)
(***************************************************************************)

\* The breaker check in front of the lock raises without a trace in the state.
Call(c) ==
    /\ pc[c] = "idle"
    /\ ~windowOpen
    /\ Goto(c, "connect")
    /\ UNCHANGED <<lock, session, target, inflight, retrying, breaker>>

\* Faulty variant: the breaker is not read again under the lock.
AcquireUnchecked(c) ==
    /\ pc[c] = "connect"
    /\ lock = Nobody
    /\ lock' = c
    /\ Goto(c, "resolve")
    /\ UNCHANGED <<session, target, inflight, retrying, breaker>>

\* Faulty variant: connect() without its lock.
AcquireUnlocked(c) ==
    /\ pc[c] = "connect"
    /\ ~windowOpen
    /\ lock' = c
    /\ Goto(c, "resolve")
    /\ UNCHANGED <<session, target, inflight, retrying, breaker>>

\* Under the lock the breaker is read again.
Acquire(c) ==
    /\ pc[c] = "connect"
    /\ lock = Nobody
    /\ \/ /\ windowOpen
          /\ Return(c)
          /\ UNCHANGED lock
       \/ /\ ~windowOpen
          /\ lock' = c
          /\ Goto(c, "resolve")
          /\ UNCHANGED <<inflight, retrying>>
    /\ UNCHANGED <<session, target, breaker>>

\* Faulty variant: only the URLs are compared, not the session itself.
TrustUrl(c) ==
    /\ pc[c] = "resolve"
    /\ lock' = Nobody
    /\ StartRequest(c, glinet)
    /\ UNCHANGED <<session, target, breaker>>

\* resolver.active() answered self._url, on which there is a session.
AlreadyConnected(c) ==
    /\ pc[c] = "resolve"
    /\ glinet # NoSid
    /\ lock' = Nobody
    /\ StartRequest(c, glinet)
    /\ UNCHANGED <<session, target, breaker>>

\* Faulty variant: on a failover the old session stays current.
ResolvedKeepsSession(c) ==
    /\ pc[c] = "resolve"
    /\ \E u \in Urls :
          /\ glinet = NoSid \/ u # url
          /\ target' = u
          /\ url' = u
          /\ Goto(c, "probe")
    /\ UNCHANGED <<glinet, sessUrl, lock, inflight, retrying, breaker>>

\* resolver.active() answered u: drop a session on another URL, then probe u.
Resolved(c) ==
    /\ pc[c] = "resolve"
    /\ \E u \in Urls :
          /\ glinet = NoSid \/ u # url
          /\ target' = u
          /\ \/ /\ glinet # NoSid
                /\ glinet' = NoSid
                /\ Goto(c, "logout")
                /\ UNCHANGED url
             \/ /\ glinet = NoSid
                /\ url' = u
                /\ Goto(c, "probe")
                /\ UNCHANGED glinet
    /\ UNCHANGED <<sessUrl, lock, inflight, retrying, breaker>>

\* The stale session's logout ended, well or badly.
LoggedOutStale(c) ==
    /\ pc[c] = "logout"
    /\ url' = target
    /\ Goto(c, "probe")
    /\ UNCHANGED <<lock, glinet, sessUrl, target, inflight, retrying, breaker>>

\* The login begins without another look at the breaker, which requests of other
\* callers may have opened since Acquire.
ProbeOk(c) ==
    /\ pc[c] = "probe"
    /\ Goto(c, "login")
    /\ lateLogins' = IF windowOpen /\ lateLogins < 2 THEN lateLogins + 1 ELSE lateLogins
    /\ UNCHANGED <<lock, session, target, inflight, retrying, failures, windowOpen>>

\* The probe or the login failed or timed out.
ConnectFails(c) ==
    /\ pc[c] \in {"probe", "login"}
    /\ lock' = Nobody
    /\ RecordFailure
    /\ Return(c)
    /\ UNCHANGED <<session, target>>

LoginOk(c) ==
    /\ pc[c] = "login"
    /\ \E sid \in Sids \ ({glinet} \cup {inflight[d] : d \in Callers}) :
          /\ glinet' = sid
          /\ StartRequest(c, sid)
    /\ sessUrl' = url
    /\ lock' = Nobody
    /\ RecordSuccess
    /\ UNCHANGED <<url, target>>

(***************************************************************************)
(* _call_with_retry()                                                      *)
(***************************************************************************)
RequestOk(c) ==
    /\ pc[c] = "request"
    /\ RecordSuccess
    /\ Return(c)
    /\ UNCHANGED <<lock, session, target>>

\* The reply took more than _CALL_TIMEOUT: count it, then wait for the lock to
\* drop the client.
RequestTimeout(c) ==
    /\ pc[c] = "request"
    /\ RecordFailure
    /\ Goto(c, "reset")
    /\ inflight' = [inflight EXCEPT ![c] = NoSid]
    /\ UNCHANGED <<lock, session, target, retrying>>

\* _force_reset(): whatever session is current now.
DropClient(c) ==
    /\ pc[c] = "reset"
    /\ lock = Nobody
    /\ glinet' = NoSid
    /\ Return(c)
    /\ UNCHANGED <<lock, url, sessUrl, target, breaker>>

\* An error that does not look like a lost session.
RequestError(c) ==
    /\ pc[c] = "request"
    /\ Return(c)
    /\ UNCHANGED <<lock, session, target, breaker>>

\* "auth", "sid", "session" or "unauthorized" in the error text.
SessionLost(c) ==
    /\ pc[c] = "request"
    /\ Goto(c, "disconnect")
    /\ inflight' = [inflight EXCEPT ![c] = NoSid]
    /\ UNCHANGED <<lock, session, target, retrying, breaker>>

\* The second connect(), entered without another suspension.
Reconnect(c) ==
    \/ /\ windowOpen
       /\ Return(c)
    \/ /\ ~windowOpen
       /\ Goto(c, "connect")
       /\ retrying' = [retrying EXCEPT ![c] = TRUE]
       /\ UNCHANGED inflight

\* disconnect() with no session to close: straight on to the second connect().
NothingToDisconnect(c) ==
    /\ pc[c] = "disconnect"
    /\ lock = Nobody
    /\ glinet = NoSid
    /\ Reconnect(c)
    /\ UNCHANGED <<lock, session, target, breaker>>

\* disconnect() takes the current session and logs it out after the lock.
TakeForLogout(c) ==
    /\ pc[c] = "disconnect"
    /\ lock = Nobody
    /\ glinet # NoSid
    /\ glinet' = NoSid
    /\ Goto(c, "logoutLost")
    /\ UNCHANGED <<lock, url, sessUrl, target, inflight, retrying, breaker>>

LoggedOutLost(c) ==
    /\ pc[c] = "logoutLost"
    /\ Reconnect(c)
    /\ UNCHANGED <<lock, session, target, breaker>>

\* Faulty variant: a session lost during the retry is retried again.
RetryForever(c) ==
    /\ pc[c] = "request2"
    /\ \/ Return(c)
       \/ /\ Goto(c, "disconnect")
          /\ inflight' = [inflight EXCEPT ![c] = NoSid]
          /\ UNCHANGED retrying
    /\ UNCHANGED <<lock, session, target, breaker>>

\* The one retry, whatever it answers, ends the call; the breaker is not told.
RetryEnds(c) ==
    /\ pc[c] = "request2"
    /\ Return(c)
    /\ UNCHANGED <<lock, session, target, breaker>>

(***************************************************************************)
(* Operator and environment                                                *)
(***************************************************************************)

\* POST /api/slate/force-reset.
ForceReset ==
    /\ lock = Nobody
    /\ glinet' = NoSid
    /\ RecordSuccess
    /\ UNCHANGED <<pc, lock, url, sessUrl, target, inflight, retrying>>

\* disconnect() from outside a call: registry invalidation, shutdown.
Disconnect ==
    /\ lock = Nobody
    /\ glinet # NoSid
    /\ glinet' = NoSid
    /\ UNCHANGED <<pc, lock, url, sessUrl, target, inflight, retrying, breaker>>

\* _CB_OPEN_DURATION seconds have passed; the counter keeps its value.
WindowExpires ==
    /\ windowOpen
    /\ windowOpen' = FALSE
    /\ lateLogins' = 0
    /\ UNCHANGED <<pc, lock, session, target, inflight, retrying, failures>>

(***************************************************************************)
(* Specification                                                           *)
(***************************************************************************)
Init ==
    /\ pc = [c \in Callers |-> "idle"]
    /\ lock = Nobody
    /\ glinet = NoSid
    /\ url \in Urls
    /\ sessUrl = url
    /\ target = url
    /\ inflight = [c \in Callers |-> NoSid]
    /\ retrying = [c \in Callers |-> FALSE]
    /\ failures = 0
    /\ windowOpen = FALSE
    /\ lateLogins = 0

Connecting(c) ==
    \/ AlreadyConnected(c)
    \/ Resolved(c)
    \/ LoggedOutStale(c)
    \/ ProbeOk(c)
    \/ ConnectFails(c)
    \/ LoginOk(c)

Answering(c) ==
    \/ RequestOk(c)
    \/ RequestTimeout(c)
    \/ RequestError(c)
    \/ SessionLost(c)
    \/ LoggedOutLost(c)
    \/ RetryEnds(c)

TakingLock(c) ==
    \/ Acquire(c)
    \/ DropClient(c)
    \/ NothingToDisconnect(c)
    \/ TakeForLogout(c)

Next ==
    \/ \E c \in Callers : Call(c) \/ Connecting(c) \/ Answering(c) \/ TakingLock(c)
    \/ ForceReset
    \/ Disconnect
    \/ WindowExpires

Spec == Init /\ [][Next]_vars

\* Every await of a call is bounded (probe 2 s, login 12 s, request 10 s, logout
\* by the 5+10 s of the requests session), so each suspended coroutine resumes;
\* asyncio.Lock serves its waiters in order, so a lock that is released again and
\* again reaches each of them.
Fairness ==
    \A c \in Callers :
        /\ WF_vars(Connecting(c))
        /\ WF_vars(Answering(c))
        /\ SF_vars(TakingLock(c))

FairSpec == Spec /\ Fairness

(***************************************************************************)
(* Properties                                                              *)
(***************************************************************************)
TypeOK ==
    /\ pc \in [Callers -> Places]
    /\ lock \in Callers \cup {Nobody}
    /\ glinet \in Sids \cup {NoSid}
    /\ url \in Urls
    /\ sessUrl \in Urls
    /\ target \in Urls
    /\ inflight \in [Callers -> Sids \cup {NoSid}]
    /\ retrying \in [Callers -> BOOLEAN]
    /\ failures \in 0..Threshold
    /\ windowOpen \in BOOLEAN
    /\ lateLogins \in 0..2

\* A request never starts on None: between connect() and the use of
\* self._glinet no other coroutine can drop the session (client.py:367-383,
\* 409-414).
RequestHasSession ==
    \A c \in Callers : pc[c] \in Requesting => inflight[c] # NoSid

\* The current session was opened on the URL connect() compares with, so
\* "already connected to the right place" (client.py:175) is true whatever
\* failovers, resets and timeouts happened in between.
SessionOnUrl == glinet # NoSid => sessUrl = url

\* An open breaker always has its threshold of failures behind it: a success that
\* comes late, or a manual reset, closes the window together with the counter.
BreakerConsistent == windowOpen => failures = Threshold

\* A live session is never replaced by another login; it is dropped first.  The
\* lock and the test inside it serialise the logins of concurrent callers.
NoSessionOverwritten ==
    [][glinet # NoSid /\ glinet' # NoSid => glinet' = glinet]_vars

\* client.py:100-103, "every connect() fast-fails without invoking pyglinet at all": the
\* breaker may open while a connect() is past its checks, and that one goes on; but it
\* is the only one, however many callers wait for the lock and however often further
\* timeouts and its own failure prolong the window.
OneLateLogin == windowOpen => lateLogins <= 1

\* Every call() ends, whatever the router, the other callers and the operator do:
\* one retry at most, and no one keeps the lock.
EveryCallReturns == \A c \in Callers : pc[c] # "idle" ~> pc[c] = "idle"

\* The module docstring (client.py:3-7): calls are serialised "through a lock so
\* the underlying client (which is not thread-safe by itself) stays consistent".
OneRequestPerSession ==
    \A c, d \in Callers :
        c # d /\ pc[c] \in Requesting /\ pc[d] \in Requesting
            => inflight[c] # inflight[d]
=============================================================================
