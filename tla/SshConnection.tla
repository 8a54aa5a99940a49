---------------------------- MODULE SshConnection ----------------------------
(***************************************************************************)
(* The SSH connection to a router that all callers share: app/slate/ssh.py *)
(*                                                                         *)
(* The lock of a SlateSSH protects finding or opening a connection; the    *)
(* commands run outside it, on the connection that was handed out.  A      *)
(* command that fails takes the lock once more and closes whatever         *)
(* connection is current then.  The auth mode may be switched, the router  *)
(* may be flashed with another host key, connections break and the         *)
(* controller restarts at any time.  An upload writes its payload to a     *)
(* file beside the target and then moves it; every caller has a target of  *)
(* its own.                                                                *)
(*                                                                         *)
(* The object is the one the registry builds, which always has a callback  *)
(* that stores the first host key.  Left out are the returns of the check  *)
(* when the library cannot say or export the host key of a connection it   *)
(* has just authenticated (ssh.py:268-285): they would serve it unchecked. *)
(* So are commands that go on at the router after their call has given up  *)
(* on them, and callers that are cancelled.                                *)
(***************************************************************************)
EXTENDS Naturals

CONSTANTS
    Callers,      \* callers of run, put_bytes and use_private_key
    HostKeys,     \* host keys the router may have
    Conns,        \* names of connections, used again when nobody refers to one
    MaxTries,     \* attempts to connect
    MaxEvents,    \* bound: restarts of the controller
    None          \* no caller, no connection, no host key

ASSUME SshAssumption ==
    /\ None \notin Callers \cup HostKeys \cup Conns
    /\ HostKeys # {}
    /\ MaxTries \in Nat \ {0}
    /\ MaxEvents \in Nat

VARIABLES
    lock,       \* who holds the lock
    current,    \* the connection the object remembers
    secret,     \* the auth mode in force
    pin,        \* the host key expected
    tries,      \* attempts made by the holder of the lock
    seen,       \* host key of the connection it has opened
    at,         \* where a caller is
    used,       \* the connection handed to a caller
    wish,       \* what a caller wants
    link,       \* what a connection that is up was opened with
    routerKey,  \* the router's host key
    stored,     \* the pin in the device's row
    file,       \* a caller's target and the file beside it, whole or not
    events      \* restarts so far

object == <<lock, current, secret, pin, tries, seen>>
caller == <<at, used, wish>>
router == <<link, routerKey, stored, file, events>>
vars == <<object, caller, router>>

Modes == {"key", "password"}
Peers == [key : HostKeys, mode : Modes]
Wishes == {"run", "upload", "key", "password"}

\* A caller in one of these has a connection to work with.
Working == {"running", "streaming", "moving"}
Up(n) == n \in Conns /\ link[n] # None
FreeConns == Conns \ ({current} \cup {used[c] : c \in Callers})

(***************************************************************************)
(* Opening a connection                                                    *)
(***************************************************************************)
Call(c, w) ==
    /\ at[c] = "idle"
    /\ at' = [at EXCEPT ![c] = "waiting"]
    /\ wish' = [wish EXCEPT ![c] = w]
    /\ UNCHANGED <<object, used, router>>

\* The call ends, with a result or an exception.
Return(c) ==
    /\ at' = [at EXCEPT ![c] = "idle"]
    /\ wish' = [wish EXCEPT ![c] = "run"]
    /\ used' = [used EXCEPT ![c] = None]

\* _drop_locked.
Drop ==
    /\ current' = None
    /\ link' = [n \in Conns |-> IF n = current THEN None ELSE link[n]]

\* Work on a connection begins; an upload truncates the file beside its target.
Proceed(c, conn) ==
    /\ at' = [at EXCEPT ![c] = IF wish[c] = "upload" THEN "streaming" ELSE "running"]
    /\ used' = [used EXCEPT ![c] = conn]
    /\ file' = IF wish[c] = "upload" THEN [file EXCEPT ![c].beside = "part"] ELSE file
    /\ UNCHANGED wish

\* _ensure_connected: a connection that is up is handed out, one that is not is
\* forgotten and another one opened.
Ensure(c) ==
    /\ at[c] = "waiting"
    /\ wish[c] \in {"run", "upload"}
    /\ lock = None
    /\ \/ /\ Up(current)
          /\ Proceed(c, current)
          /\ UNCHANGED <<object, link, routerKey, stored, events>>
       \/ /\ ~Up(current)
          /\ lock' = c
          /\ current' = None
          /\ at' = [at EXCEPT ![c] = "connecting"]
          /\ UNCHANGED <<secret, pin, tries, seen, used, wish, router>>

Connected(c) ==
    /\ at[c] = "connecting"
    /\ \E n \in FreeConns :
        /\ current' = n
        /\ link' = [link EXCEPT ![n] = [key |-> routerKey, mode |-> secret]]
    /\ seen' = routerKey
    /\ tries' = 0
    /\ at' = [at EXCEPT ![c] = "verifying"]
    /\ UNCHANGED <<lock, secret, pin, used, wish, routerKey, stored, file, events>>

\* Faulty variant: after the last attempt it starts again.
TryForEver(c) ==
    /\ at[c] = "connecting"
    /\ tries' = IF tries + 1 < MaxTries THEN tries + 1 ELSE 0
    /\ UNCHANGED <<lock, current, secret, pin, seen, caller, router>>

\* An attempt fails; after the last one the call raises.
ConnectFails(c) ==
    /\ at[c] = "connecting"
    /\ \/ /\ tries + 1 < MaxTries
          /\ tries' = tries + 1
          /\ UNCHANGED <<lock, caller>>
       \/ /\ tries + 1 = MaxTries
          /\ tries' = 0
          /\ lock' = None
          /\ Return(c)
    /\ UNCHANGED <<current, secret, pin, seen, router>>

\* _verify_or_record_host_pubkey with a pin: another key closes the connection.
Mismatch(c) ==
    /\ at[c] = "verifying"
    /\ pin \notin {None, seen}
    /\ Drop
    /\ lock' = None
    /\ seen' = None
    /\ Return(c)
    /\ UNCHANGED <<secret, pin, tries, routerKey, stored, file, events>>

\* The key matches, or it is the first one: the registry's callback stores it, which
\* may fail, and it is pinned for the object's lifetime.  (Without a callback, as in
\* adoption and factory reset (api/routes/devices.py:467, 602) open for themselves, any
\* key is taken.)
Verified(c, persisted) ==
    /\ at[c] = "verifying"
    /\ pin \in {None, seen}
    /\ pin' = seen
    /\ stored' = IF pin = None /\ persisted THEN seen ELSE stored
    /\ lock' = None
    /\ seen' = None
    /\ Proceed(c, current)
    /\ UNCHANGED <<current, secret, tries, link, routerKey, events>>

(***************************************************************************)
(* Using it                                                                *)
(***************************************************************************)

\* run, run_binary: the command is answered.  One cut short by a connection another
\* caller closes may come back with no exit status: run takes it for a success with
\* partial output, run_binary for an error, and neither drops anything.
Answered(c) ==
    /\ at[c] = "running"
    /\ Return(c)
    /\ UNCHANGED <<object, router>>

\* Faulty variant: the payload is streamed into the target itself.
StreamInPlace(c) ==
    /\ at[c] = "streaming"
    /\ Up(used[c])
    /\ file' = [file EXCEPT ![c].target = "part"]
    /\ at' = [at EXCEPT ![c] = "moving"]
    /\ UNCHANGED <<object, used, wish, link, routerKey, stored, events>>

\* put_bytes: the payload is complete.
Streamed(c) ==
    /\ at[c] = "streaming"
    /\ Up(used[c])
    /\ file' = [file EXCEPT ![c].beside = "whole"]
    /\ at' = [at EXCEPT ![c] = "moving"]
    /\ UNCHANGED <<object, used, wish, link, routerKey, stored, events>>

\* The file is moved to its place, if only while the connection is being closed, and
\* the answer is received, comes without an exit status, or fails.
Moved(c) ==
    /\ at[c] = "moving"
    /\ file' = [file EXCEPT ![c] = [target |-> @.beside, beside |-> "part"]]
    /\ \/ Return(c)
       \/ at' = [at EXCEPT ![c] = "failed"] /\ UNCHANGED <<used, wish>>
    /\ UNCHANGED <<object, link, routerKey, stored, events>>

\* A command of an upload ends with an error status, or with none; nothing is dropped.
Refused(c) ==
    /\ at[c] \in {"streaming", "moving"}
    /\ file' = [file EXCEPT ![c].beside = "part"]
    /\ Return(c)
    /\ UNCHANGED <<object, link, routerKey, stored, events>>

\* The connection is gone, or the answer takes too long.
Fails(c) ==
    /\ at[c] \in Working
    /\ at' = [at EXCEPT ![c] = "failed"]
    /\ UNCHANGED <<object, used, wish, router>>

\* The failed call closes the connection that is current now.
DropCurrent(c) ==
    /\ at[c] = "failed"
    /\ lock = None
    /\ Drop
    /\ Return(c)
    /\ UNCHANGED <<lock, secret, pin, tries, seen, routerKey, stored, file, events>>

\* Faulty variant: the mode is switched and the connection stays.
SwitchOnly(c) ==
    /\ at[c] = "waiting"
    /\ wish[c] \in Modes
    /\ lock = None
    /\ secret' = wish[c]
    /\ Return(c)
    /\ UNCHANGED <<lock, current, pin, tries, seen, router>>

\* use_private_key: the mode is switched and the connection closed.
UsePrivateKey(c) ==
    /\ at[c] = "waiting"
    /\ wish[c] \in Modes
    /\ lock = None
    /\ secret' = wish[c]
    /\ Drop
    /\ Return(c)
    /\ UNCHANGED <<lock, pin, tries, seen, routerKey, stored, file, events>>

(***************************************************************************)
(* The environment                                                         *)
(***************************************************************************)

\* The router reboots, perhaps with another host key, or the network breaks.
Break(key) ==
    /\ link' = [n \in Conns |-> None]
    /\ routerKey' = key
    /\ UNCHANGED <<object, caller, stored, file, events>>

\* The controller restarts: the object is built again, with the pin that was stored.
Restart ==
    /\ events < MaxEvents
    /\ events' = events + 1
    /\ lock' = None /\ current' = None /\ tries' = 0 /\ seen' = None
    /\ secret' \in Modes
    /\ pin' = stored
    /\ link' = [n \in Conns |-> None]
    /\ at' = [c \in Callers |-> "idle"]
    /\ used' = [c \in Callers |-> None]
    /\ wish' = [c \in Callers |-> "run"]
    /\ UNCHANGED <<routerKey, stored, file>>

(***************************************************************************)
(* Specification                                                           *)
(***************************************************************************)
Init ==
    /\ lock = None /\ current = None /\ tries = 0 /\ seen = None
    /\ secret \in Modes
    /\ pin = None
    /\ at = [c \in Callers |-> "idle"]
    /\ used = [c \in Callers |-> None]
    /\ wish = [c \in Callers |-> "run"]
    /\ link = [n \in Conns |-> None]
    /\ routerKey \in HostKeys
    /\ stored = None
    /\ file = [c \in Callers |-> [target |-> "whole", beside |-> "part"]]
    /\ events = 0

Step(c) ==
    \/ Ensure(c) \/ Connected(c) \/ ConnectFails(c) \/ Mismatch(c)
    \/ \E persisted \in BOOLEAN : Verified(c, persisted)
    \/ Answered(c) \/ Streamed(c) \/ Moved(c) \/ Refused(c) \/ Fails(c)
    \/ DropCurrent(c) \/ UsePrivateKey(c)

Next ==
    \/ \E c \in Callers : Step(c) \/ \E w \in Wishes : Call(c, w)
    \/ \E key \in HostKeys : Break(key)
    \/ Restart

Spec == Init /\ [][Next]_vars

\* asyncio.Lock serves its waiters in order, and every await has a deadline.
FairSpec == Spec /\ \A c \in Callers : SF_vars(Step(c))

(***************************************************************************)
(* Properties                                                              *)
(***************************************************************************)
Stages == {"idle", "waiting", "connecting", "verifying", "failed"} \cup Working

SshTypeOK ==
    /\ lock \in Callers \cup {None}
    /\ current \in Conns \cup {None}
    /\ secret \in Modes
    /\ pin \in HostKeys \cup {None}
    /\ tries \in 0..MaxTries
    /\ at \in [Callers -> Stages]
    /\ used \in [Callers -> Conns \cup {None}]
    /\ wish \in [Callers -> Wishes]
    /\ seen \in HostKeys \cup {None}
    /\ link \in [Conns -> Peers \cup {None}]
    /\ routerKey \in HostKeys
    /\ stored \in HostKeys \cup {None}
    /\ file \in [Callers -> [target : {"whole", "part"}, beside : {"whole", "part"}]]
    /\ events \in 0..MaxEvents

\* ssh.py:91-99 and 291-301, "we must NOT serve commands on a peer that doesn't match":
\* no connection is ever left open that the object has forgotten, and a command is
\* under way only on a connection to the pinned peer, opened with the auth mode in
\* force, whoever switched the mode, dropped or opened connections meanwhile.  (As long
\* as the library can tell the host key: ssh.py:268-285 accepts the peer if not.)
OneTrustedConnection ==
    /\ \A n \in Conns : Up(n) => n = current
    /\ \A c \in Callers : at[c] \in Working /\ Up(used[c]) =>
          link[used[c]] = [key |-> pin, mode |-> secret]

\* ssh.py:389-390, "Original is preserved if the write fails mid-stream": whenever the
\* connection is closed under an upload, by its own failure, another caller's, a switch
\* of the mode, a reboot or a restart, the target is a whole file, the old or the new one.
\* (No move of an upload given up earlier is still under way at the router.)
UploadWhole == \A c \in Callers : file[c].target # "part"

\* Every call returns: no caller waits for ever for the lock, for a connection or for
\* a command, though each failing command closes the others' connection.
EveryCallReturns == \A c \in Callers : at[c] # "idle" ~> at[c] = "idle"
=============================================================================
