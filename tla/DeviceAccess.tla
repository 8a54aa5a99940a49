----------------------------- MODULE DeviceAccess -----------------------------
(***************************************************************************)
(* How the controller keeps its way into the routers: adoption, the        *)
(* controller's key pair, the ledger of routers it was deployed to, and    *)
(* factory resets (app/devices/adoption.py, app/settings/ssh_keys.py,      *)
(* app/api/routes/settings.py and devices.py).                             *)
(*                                                                         *)
(* A device is reached over the registry's connection, which everybody     *)
(* shares, with its pinned host key; only an adoption of another device    *)
(* than the default one opens its own, with the password and without a     *)
(* pin.  SshConnection shows that a command runs in the auth mode in       *)
(* force, so a command is one step here; it may fail at any time.  Each    *)
(* transaction on the stored key pair is one step too.                     *)
(***************************************************************************)
EXTENDS Naturals, TLC

CONSTANTS
    Devices,   \* devices the controller knows
    Default,   \* the default device
    Requests,  \* adoptions and deployments under way
    MaxKeys,   \* bound: key pairs generated
    MaxWipes,  \* bound: resets of a router, and removals of its keys
    None       \* no key, no pin

ASSUME AccessAssumption ==
    /\ Default \in Devices
    /\ None \notin Nat
    /\ MaxKeys \in Nat
    /\ MaxWipes \in Nat

VARIABLES
    key,       \* the stored key pair, by number
    made,      \* key pairs generated so far
    ledger,    \* devices it was deployed to
    cred,      \* what a shared connection logs in with: a key, or None for the password
    pin,       \* the host key it expects
    req,       \* a request: its operation, where it is, its device, the key it has
               \* read, and what its own connection logs in with
    auth,      \* keys a router accepts
    password,  \* whether it accepts the password
    host,      \* its host key, by number
    unsure,    \* history: devices that may not accept the key the ledger says they have
    rekeyed    \* history: the key pair was last changed while a request was at work

controller == <<key, made, ledger>>
channel == <<cred, pin>>
router == <<auth, password, host>>
history == <<unsure, rekeyed>>
vars == <<controller, channel, req, router, history>>

Keys == 1..MaxKeys
Idle == [op |-> "none", at |-> "idle", dev |-> Default, pub |-> None, own |-> None]
Busy == {r \in Requests : req[r] # Idle}

(***************************************************************************)
(* Commands over SSH                                                       *)
(***************************************************************************)
Shared(r) == req[r].op # "adopt" \/ req[r].dev = Default
Cred(r) == IF Shared(r) THEN cred[req[r].dev] ELSE req[r].own

Accepts(dev, c) == IF c = None THEN password[dev] ELSE c \in auth[dev]

\* The router is the one expected; the first connection pins it.
Connects(r) ==
    LET dev == req[r].dev IN
    IF Shared(r)
    THEN pin[dev] \in {None, host[dev]} /\ pin' = [pin EXCEPT ![dev] = host[dev]]
    ELSE UNCHANGED pin

\* A command of r is carried out.
Runs(r) == Connects(r) /\ Accepts(req[r].dev, Cred(r))

\* "Permission denied": the login comes before any look at the host key, so that a router
\* that was reset denies it like any other, and is not pinned.
Denied(r) == ~Accepts(req[r].dev, Cred(r))

\* use_private_key, and where the request goes then.
LogIn(r, c, next) ==
    IF Shared(r)
    THEN /\ cred' = [cred EXCEPT ![req[r].dev] = c]
         /\ req' = [req EXCEPT ![r] = next]
    ELSE /\ req' = [req EXCEPT ![r] = [next EXCEPT !.own = c]]
         /\ UNCHANGED cred

GoTo(r, at) == req' = [req EXCEPT ![r].at = at]
End(r) == req' = [req EXCEPT ![r] = Idle]

(***************************************************************************)
(* Adoption, and deployment of the key                                     *)
(***************************************************************************)
Adopt(r, dev) ==
    /\ req[r] = Idle
    /\ req' = [req EXCEPT ![r] = [Idle EXCEPT !.op = "adopt", !.at = "probe", !.dev = dev]]
    /\ UNCHANGED <<controller, channel, router, history>>

\* The connection is that of the device the request names.
Deploy(r, dev) ==
    /\ req[r] = Idle
    /\ key # None
    /\ req' = [req EXCEPT ![r] = [Idle EXCEPT !.op = "deploy", !.at = "push", !.dev = dev, !.pub = key]]
    /\ UNCHANGED <<controller, channel, router, history>>

\* _task_ensure_ssh_access: a connection that works is left alone.
Probe(r) ==
    /\ req[r].at = "probe"
    /\ Runs(r)
    /\ GoTo(r, "look")
    /\ UNCHANGED <<controller, cred, router, history>>

\* It is denied and there is a key pair: fall back to the password.
Heal(r) ==
    /\ req[r].at = "probe"
    /\ Denied(r)
    /\ key # None
    /\ LogIn(r, None, [req[r] EXCEPT !.at = "try", !.pub = key])
    /\ UNCHANGED <<controller, pin, router, history>>

Try(r) ==
    /\ req[r].at = "try"
    /\ Runs(r)
    /\ GoTo(r, "push")
    /\ UNCHANGED <<controller, cred, router, history>>

\* The public key is appended to authorized_keys.
Push(r) ==
    LET dev == req[r].dev IN
    /\ req[r].at = "push"
    /\ Runs(r)
    /\ auth' = [auth EXCEPT ![dev] = @ \cup {req[r].pub}]
    /\ unsure' = unsure \ {dev}
    /\ req' = [req EXCEPT ![r].at = IF req[r].op = "adopt" THEN "load" ELSE "mark",
                          ![r].pub = None]
    /\ UNCHANGED <<controller, cred, password, host, rekeyed>>

\* mark_deployed, which raises when there is no key pair; a deployment counts for the
\* default device.
Mark(r) ==
    LET marked == IF req[r].op = "adopt" THEN req[r].dev ELSE Default IN
    /\ req[r].at = "mark"
    /\ IF key = None
       THEN End(r) /\ UNCHANGED <<ledger, unsure>>
       ELSE /\ ledger' = ledger \cup {marked}
            /\ unsure' = IF marked \in ledger \cup {req[r].dev} THEN unsure ELSE unsure \cup {marked}
            /\ GoTo(r, IF req[r].op = "adopt" THEN "look" ELSE "load")
    /\ UNCHANGED <<key, made, channel, router, rekeyed>>

\* get_private_pem: log in with the key that is stored now.
Load(r) ==
    /\ req[r].at = "load"
    /\ key # None
    /\ LogIn(r, key, [req[r] EXCEPT !.at = "check"])
    /\ UNCHANGED <<controller, pin, router, history>>

\* After a check the deployment may switch the password off, as the operator asked.
Check(r, lockdown) ==
    /\ req[r].at = "check"
    /\ Runs(r)
    /\ IF req[r].op = "adopt" THEN GoTo(r, "mark")
       ELSE IF lockdown THEN GoTo(r, "off") ELSE End(r)
    /\ UNCHANGED <<controller, cred, router, history>>

\* _task_ssh_key_only, if it was asked for, trusts the ledger.
Look(r, lockdown) ==
    /\ req[r].at = "look"
    /\ GoTo(r, IF lockdown /\ key # None /\ req[r].dev \in ledger THEN "off" ELSE "rest")
    /\ UNCHANGED <<controller, channel, router, history>>

\* PasswordAuth=off.
SwitchOff(r) ==
    /\ req[r].at = "off"
    /\ Runs(r)
    /\ password' = [password EXCEPT ![req[r].dev] = FALSE]
    /\ IF req[r].op = "adopt" THEN GoTo(r, "rest") ELSE End(r)
    /\ UNCHANGED <<controller, cred, auth, host, history>>

\* The other tasks report, and the device is adopted.
Adopted(r) ==
    /\ req[r].at = "rest"
    /\ End(r)
    /\ UNCHANGED <<controller, channel, router, history>>

\* A command fails, or there is no key pair when one is needed: the request ends, but
\* an adoption whose connection was good goes on, and a deployment that was checking the
\* key goes back to the password.
Fails(r) ==
    LET at == req[r].at
        adopting == req[r].op = "adopt" IN
    /\ at \in {"probe", "try", "push", "load", "check", "off"}
    /\ at = "load" => key = None
    /\ IF adopting /\ at = "off" THEN GoTo(r, "rest")
       ELSE IF ~adopting /\ at = "check" THEN GoTo(r, "revert")
       ELSE End(r)
    /\ UNCHANGED <<controller, channel, router, history>>

Revert(r) ==
    /\ req[r].at = "revert"
    /\ LogIn(r, None, Idle)
    /\ UNCHANGED <<controller, pin, router, history>>

(***************************************************************************)
(* The key pair, and the end of an adoption                                *)
(***************************************************************************)

\* A change of the key pair leaves an empty ledger, and requests that know the old one.
Rekey ==
    /\ unsure' = {}
    /\ rekeyed' = (Busy # {})

\* Faulty variant: the ledger survives.
GenerateOnly ==
    /\ made < MaxKeys
    /\ made' = made + 1
    /\ key' = made + 1
    /\ Rekey
    /\ UNCHANGED <<ledger, channel, req, router>>

\* generate_and_store: a new key pair has not been deployed to anyone.
Generate ==
    /\ made < MaxKeys
    /\ made' = made + 1
    /\ key' = made + 1
    /\ ledger' = {}
    /\ Rekey
    /\ UNCHANGED <<channel, req, router>>

\* The key pair and its ledger are deleted, then the connection goes back to the password.
Revoke(r, dev) ==
    /\ req[r] = Idle
    /\ key # None
    /\ key' = None
    /\ ledger' = {}
    /\ req' = [req EXCEPT ![r] = [Idle EXCEPT !.op = "revoke", !.at = "revert", !.dev = dev]]
    /\ Rekey
    /\ UNCHANGED <<made, channel, router>>

\* What is left of a router: with the keys alone, or with everything.
Wipe(dev, all) ==
    /\ host[dev] < MaxWipes
    /\ host' = IF all THEN [host EXCEPT ![dev] = @ + 1] ELSE host
    /\ auth' = [auth EXCEPT ![dev] = {}]
    /\ password' = IF all THEN [password EXCEPT ![dev] = TRUE] ELSE password
    /\ unsure' = unsure \cup {dev}

\* The route resets a router it can reach; the ledger stays as it is.
FactoryReset(dev) ==
    /\ dev = Default => pin[dev] \in {None, host[dev]}
    /\ Accepts(dev, IF dev = Default THEN cred[dev] ELSE None)
    /\ Wipe(dev, TRUE)
    /\ pin' = IF dev = Default THEN [pin EXCEPT ![dev] = host[dev]] ELSE pin
    /\ UNCHANGED <<controller, cred, req, rekeyed>>

\* The operator removes keys by hand, or resets a router by its button.
ByHand(dev, all) ==
    /\ Wipe(dev, all)
    /\ UNCHANGED <<controller, channel, req, rekeyed>>

\* The registry builds the connections again.  The operator may have cleared the pins of
\* routers that were reset, as the refusal of their new host key says (ssh.py:304).
Restart(cleared) ==
    /\ cred' = [dev \in Devices |-> IF dev \in ledger THEN key ELSE None]
    /\ pin' = [dev \in Devices |-> IF cleared /\ pin[dev] # host[dev] THEN None ELSE pin[dev]]
    /\ req' = [r \in Requests |-> Idle]
    /\ UNCHANGED <<controller, router, history>>

(***************************************************************************)
(* Specification                                                           *)
(***************************************************************************)
Init ==
    /\ key = None /\ made = 0 /\ ledger = {}
    /\ cred = [dev \in Devices |-> None]
    /\ pin = [dev \in Devices |-> None]
    /\ req = [r \in Requests |-> Idle]
    /\ auth = [dev \in Devices |-> {}]
    /\ password = [dev \in Devices |-> TRUE]
    /\ host = [dev \in Devices |-> 0]
    /\ unsure = {} /\ rekeyed = FALSE

Step(r) ==
    \/ Probe(r) \/ Heal(r) \/ Try(r) \/ Push(r) \/ Mark(r) \/ Load(r)
    \/ \E lockdown \in BOOLEAN : Check(r, lockdown) \/ Look(r, lockdown)
    \/ SwitchOff(r) \/ Adopted(r) \/ Fails(r) \/ Revert(r)

Next ==
    \/ \E r \in Requests :
          \/ Step(r)
          \/ \E dev \in Devices : Adopt(r, dev) \/ Deploy(r, dev) \/ Revoke(r, dev)
    \/ Generate
    \/ \E dev \in Devices : FactoryReset(dev) \/ \E all \in BOOLEAN : ByHand(dev, all)
    \/ \E cleared \in BOOLEAN : Restart(cleared)

Spec == Init /\ [][Next]_vars

\* Requests are interchangeable.
Symmetry == Permutations(Requests)

(***************************************************************************)
(* Properties                                                              *)
(***************************************************************************)

\* adoption.py:245, "Ensure SSH key auth is deployed AND password auth is off", and
\* settings.py:194, "we don't want to be locked out": a router's password is switched off
\* only when it accepts the key pair the controller has stored, whichever adoptions and
\* deployments overlap on the shared connections, and whatever new and revoked key pairs,
\* failed commands, resets and restarts came before - unless it has lost keys since the
\* last one was pushed, the ledger names it for a deployment to another device, or the
\* key pair was changed in the middle of a request.
LockdownSafe ==
    [][\A dev \in Devices :
          password[dev] /\ ~password'[dev] /\ dev \notin unsure /\ ~rekeyed =>
              key \in auth[dev]]_vars
=============================================================================
