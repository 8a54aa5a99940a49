------------------------- MODULE DeviceAccessProofs -------------------------
(***************************************************************************)
(* No router loses its password before it accepts the stored key pair, for *)
(* any number of routers, requests, key pairs and resets.                  *)
(*                                                                         *)
(* The check before the lockdown proves nothing: another request may have  *)
(* put the shared connection back on the password.  What carries the       *)
(* argument is the push before it, and the ledger, which a change of the   *)
(* key pair empties: a request that began before that change is the one    *)
(* case the property leaves out; rekeyed remembers it until the key pair   *)
(* is changed again with no request at work.                               *)
(***************************************************************************)
EXTENDS DeviceAccess, TLAPS

Operations == {"none", "adopt", "deploy", "revoke"}
Places == {"idle", "probe", "look", "try", "push", "mark", "load", "check", "off", "rest",
           "revert"}
Credentials == Nat \cup {None}
Tasks == [op : Operations, at : Places, dev : Devices, pub : Credentials, own : Credentials]

AccessTypeOK ==
    /\ key \in Credentials
    /\ made \in Nat
    /\ ledger \subseteq Devices
    /\ cred \in [Devices -> Credentials]
    /\ req \in [Requests -> Tasks]
    /\ auth \in [Devices -> SUBSET Credentials]
    /\ password \in [Devices -> BOOLEAN]
    /\ unsure \subseteq Devices
    /\ rekeyed \in BOOLEAN

\* The router accepts the stored key pair, or has lost keys since it was pushed.
Deployed(dev) == key \in auth[dev] \/ dev \in unsure

\* A request about to push has the stored public key.
PushesStoredKey ==
    \A r \in Requests : req[r].at \in {"try", "push"} => req[r].pub = key

\* One that has pushed, or has looked into the ledger, knows that the key is there.
PushedBeforeLockdown ==
    \A r \in Requests : req[r].at \in {"mark", "load", "check", "off"} => Deployed(req[r].dev)

LedgerTrue == \A dev \in ledger : Deployed(dev)

AccessInv ==
    /\ AccessTypeOK
    /\ rekeyed \/ (PushesStoredKey /\ PushedBeforeLockdown /\ LedgerTrue)

(***************************************************************************)
(* Types                                                                   *)
(***************************************************************************)

LEMMA IdleTyped ==
    /\ Idle \in Tasks
    /\ Idle.at = "idle"
BY AccessAssumption DEF Idle, Operations, Places, Credentials, Tasks

LEMMA InitTyped == Init => AccessTypeOK
<1> SUFFICES ASSUME Init PROVE AccessTypeOK
    OBVIOUS
<1>1. req \in [Requests -> Tasks]
    BY IdleTyped DEF Init
<1>2. key \in Credentials /\ cred \in [Devices -> Credentials]
    BY DEF Init, Credentials
<1>3. auth \in [Devices -> SUBSET Credentials] /\ password \in [Devices -> BOOLEAN]
    BY DEF Init
<1>4. made \in Nat /\ ledger = {} /\ unsure = {} /\ rekeyed \in BOOLEAN
    BY DEF Init
<1> QED
    BY <1>1, <1>2, <1>3, <1>4 DEF AccessTypeOK

\* Where a request goes, it stays a request.
LEMMA GoToTyped ==
    ASSUME AccessTypeOK, NEW r \in Requests, NEW place \in Places, GoTo(r, place)
    PROVE  req' \in [Requests -> Tasks]
BY DEF AccessTypeOK, GoTo, Tasks

LEMMA EndTyped ==
    ASSUME AccessTypeOK, NEW r \in Requests, End(r)
    PROVE  req' \in [Requests -> Tasks]
BY IdleTyped DEF AccessTypeOK, End

LEMMA LogInTyped ==
    ASSUME AccessTypeOK, NEW r \in Requests, NEW c \in Credentials,
           NEW next \in Tasks,
           LogIn(r, c, next)
    PROVE  /\ cred' \in [Devices -> Credentials]
           /\ req' \in [Requests -> Tasks]
<1>1. CASE Shared(r)
    BY <1>1 DEF AccessTypeOK, LogIn
<1>2. CASE ~Shared(r)
    <2>1. [next EXCEPT !.own = c] \in Tasks
        BY DEF Tasks
    <2> QED
        BY <1>2, <2>1 DEF AccessTypeOK, LogIn
<1> QED
    BY <1>1, <1>2

\* The steps that move a request and touch nothing typed besides.
LEMMA MoveTyped ==
    ASSUME AccessTypeOK, NEW r \in Requests, NEW place \in Places,
           GoTo(r, place) \/ End(r),
           UNCHANGED <<controller, cred, router, history>>
    PROVE  AccessTypeOK'
BY GoToTyped, EndTyped DEF AccessTypeOK, controller, router, history

LEMMA StepTyped ==
    ASSUME AccessTypeOK, NEW r \in Requests, Step(r)
    PROVE  AccessTypeOK'
<1> USE AccessAssumption DEF controller, channel, router, history
<1>1. CASE Probe(r) \/ Try(r) \/ Adopted(r)
    BY <1>1, MoveTyped DEF Probe, Try, Adopted, Places
<1>2. ASSUME NEW lockdown \in BOOLEAN, Check(r, lockdown) \/ Look(r, lockdown)
      PROVE  AccessTypeOK'
    BY <1>2, MoveTyped DEF Check, Look, Places
<1>3. CASE Fails(r)
    BY <1>3, MoveTyped DEF Fails, Places
<1>4. CASE Heal(r)
    <2>1. [req[r] EXCEPT !.at = "try", !.pub = key]
              \in Tasks
        BY DEF AccessTypeOK, Places, Tasks
    <2> QED
        BY <1>4, <2>1, LogInTyped DEF Heal, AccessTypeOK, Credentials
<1>5. CASE Load(r)
    <2>1. [req[r] EXCEPT !.at = "check"]
              \in Tasks
        BY DEF AccessTypeOK, Places, Tasks
    <2> QED
        BY <1>5, <2>1, LogInTyped DEF Load, AccessTypeOK
<1>6. CASE Revert(r)
    BY <1>6, LogInTyped, IdleTyped DEF Revert, AccessTypeOK, Credentials
<1>7. CASE Push(r)
    <2>1. req' \in [Requests -> Tasks]
        <3> DEFINE next == IF req[r].op = "adopt" THEN "load" ELSE "mark"
        <3>1. req' = [req EXCEPT ![r] = [req[r] EXCEPT !.at = next, !.pub = None]]
            BY <1>7 DEF Push, AccessTypeOK, Tasks
        <3>2. [req[r] EXCEPT !.at = next, !.pub = None] \in Tasks
            BY DEF AccessTypeOK, Tasks, Places, Credentials
        <3> QED
            BY <3>1, <3>2 DEF AccessTypeOK
    <2>2. auth' \in [Devices -> SUBSET Credentials]
        BY <1>7 DEF Push, AccessTypeOK, Tasks
    <2> QED
        BY <1>7, <2>1, <2>2 DEF Push, AccessTypeOK
<1>8. CASE Mark(r)
    <2>1. req' \in [Requests -> Tasks]
        BY <1>8, GoToTyped, EndTyped DEF Mark, Places
    <2>2. ledger' \subseteq Devices /\ unsure' \subseteq Devices
        <3>1. req[r].dev \in Devices
            BY DEF AccessTypeOK, Tasks
        <3> QED
            BY <1>8, <3>1 DEF Mark, AccessTypeOK
    <2> QED
        BY <1>8, <2>1, <2>2 DEF Mark, AccessTypeOK
<1>9. CASE SwitchOff(r)
    <2>1. req' \in [Requests -> Tasks]
        BY <1>9, GoToTyped, EndTyped DEF SwitchOff, Places
    <2> QED
        BY <1>9, <2>1 DEF SwitchOff, AccessTypeOK
<1> QED
    BY <1>1, <1>2, <1>3, <1>4, <1>5, <1>6, <1>7, <1>8, <1>9 DEF Step

LEMMA WipeTyped ==
    ASSUME AccessTypeOK, NEW dev \in Devices, NEW all \in BOOLEAN, Wipe(dev, all),
           UNCHANGED <<key, made, ledger, cred, req, rekeyed>>
    PROVE  AccessTypeOK'
BY DEF AccessTypeOK, Wipe

LEMMA TypeStep == AccessTypeOK /\ [Next]_vars => AccessTypeOK'
<1> SUFFICES ASSUME AccessTypeOK, [Next]_vars PROVE AccessTypeOK'
    OBVIOUS
<1> USE AccessAssumption DEF controller, channel, router, history
<1>1. ASSUME NEW r \in Requests, NEW dev \in Devices, Adopt(r, dev) \/ Deploy(r, dev)
      PROVE  AccessTypeOK'
    <2>1. req' \in [Requests -> Tasks]
        <3>1. /\ [Idle EXCEPT !.op = "adopt", !.at = "probe", !.dev = dev] \in Tasks
              /\ [Idle EXCEPT !.op = "deploy", !.at = "push", !.dev = dev, !.pub = key] \in Tasks
            BY DEF Idle, Tasks, Operations, Places, Credentials, AccessTypeOK
        <3> QED
            BY <1>1, <3>1 DEF Adopt, Deploy, AccessTypeOK
    <2> QED
        BY <1>1, <2>1 DEF Adopt, Deploy, AccessTypeOK
<1>2. ASSUME NEW r \in Requests, NEW dev \in Devices, Revoke(r, dev) PROVE AccessTypeOK'
    <2>1. req' \in [Requests -> Tasks]
        <3>1. [Idle EXCEPT !.op = "revoke", !.at = "revert", !.dev = dev] \in Tasks
            BY DEF Idle, Tasks, Operations, Places, Credentials, AccessTypeOK
        <3> QED
            BY <1>2, <3>1 DEF Revoke, AccessTypeOK
    <2> QED
        BY <1>2, <2>1 DEF Revoke, Rekey, AccessTypeOK, Credentials
<1>3. CASE Generate
    BY <1>3 DEF Generate, Rekey, AccessTypeOK, Credentials
<1>4. ASSUME NEW dev \in Devices, FactoryReset(dev) PROVE AccessTypeOK'
    BY <1>4, WipeTyped DEF FactoryReset
<1>5. ASSUME NEW dev \in Devices, NEW all \in BOOLEAN, ByHand(dev, all) PROVE AccessTypeOK'
    BY <1>5, WipeTyped DEF ByHand
<1>6. ASSUME NEW cleared \in BOOLEAN, Restart(cleared) PROVE AccessTypeOK'
    BY <1>6, IdleTyped DEF Restart, AccessTypeOK, Credentials
<1>7. CASE UNCHANGED vars
    BY <1>7 DEF vars, AccessTypeOK
<1> QED
    BY <1>1, <1>2, <1>3, <1>4, <1>5, <1>6, <1>7, StepTyped DEF Next

(***************************************************************************)
(* The lockdown                                                            *)
(***************************************************************************)

\* What one request is known for.
Sound(r) ==
    /\ req[r].at \in {"try", "push"} => req[r].pub = key
    /\ req[r].at \in {"mark", "load", "check", "off"} => Deployed(req[r].dev)

LEMMA SoundIsInv ==
    PushesStoredKey /\ PushedBeforeLockdown <=> \A r \in Requests : Sound(r)
BY DEF PushesStoredKey, PushedBeforeLockdown, Sound

\* While the key and the routers stay, or a key is pushed that is stored, only the
\* request that moves has to be looked at.
LEMMA OthersSound ==
    ASSUME AccessTypeOK, NEW r \in Requests,
           \A q \in Requests : Sound(q),
           \A q \in Requests : q # r => req'[q] = req[q],
           UNCHANGED key,
           \A dev \in Devices : Deployed(dev) => Deployed(dev)',
           Sound(r)'
    PROVE  \A q \in Requests : Sound(q)'
<1> SUFFICES ASSUME NEW q \in Requests, q # r PROVE Sound(q)'
    OBVIOUS
<1>1. req[q].dev \in Devices
    BY DEF AccessTypeOK, Tasks
<1>2. req'[q] = req[q] /\ key' = key
    OBVIOUS
<1>3. Deployed(req[q].dev) => Deployed(req[q].dev)'
    BY <1>1, <1>2 DEF Deployed
<1> QED
    BY <1>2, <1>3 DEF Sound, Deployed

\* A step of r that leaves the key pair, its ledger and the routers' keys alone.
LEMMA MoveSound ==
    ASSUME AccessTypeOK, NEW r \in Requests,
           \A q \in Requests : Sound(q), LedgerTrue,
           \A q \in Requests : q # r => req'[q] = req[q],
           UNCHANGED <<key, ledger, auth, unsure>>,
           Sound(r)'
    PROVE  (\A q \in Requests : Sound(q)') /\ LedgerTrue'
<1>1. \A dev \in Devices : Deployed(dev) => Deployed(dev)'
    BY DEF Deployed
<1>2. \A q \in Requests : Sound(q)'
    BY <1>1, OthersSound
<1>3. LedgerTrue'
    BY <1>1 DEF LedgerTrue, AccessTypeOK
<1> QED
    BY <1>2, <1>3

LEMMA StepSound ==
    ASSUME AccessTypeOK, NEW r \in Requests, Step(r),
           \A q \in Requests : Sound(q), LedgerTrue
    PROVE  (\A q \in Requests : Sound(q)') /\ LedgerTrue'
<1> DEFINE Kept == (\A q \in Requests : Sound(q)') /\ LedgerTrue'
<1>r. req[r] \in Tasks /\ req[r].dev \in Devices /\ Sound(r)
    BY DEF AccessTypeOK, Tasks
<1>t. req \in [Requests -> Tasks]
    BY DEF AccessTypeOK
<1>g. ASSUME NEW place, GoTo(r, place)
      PROVE  /\ \A q \in Requests : q # r => req'[q] = req[q]
             /\ req'[r].at = place /\ req'[r].dev = req[r].dev /\ req'[r].pub = req[r].pub
    BY <1>g, <1>t, <1>r DEF GoTo, Tasks
<1>e. ASSUME End(r)
      PROVE  /\ \A q \in Requests : q # r => req'[q] = req[q]
             /\ req'[r].at = "idle"
    BY <1>e, <1>t, IdleTyped DEF End
<1>l. ASSUME NEW c, NEW next \in Tasks, LogIn(r, c, next)
      PROVE  /\ \A q \in Requests : q # r => req'[q] = req[q]
             /\ req'[r].at = next.at /\ req'[r].dev = next.dev /\ req'[r].pub = next.pub
    BY <1>l, <1>t DEF LogIn, Tasks
<1>1. CASE Probe(r)
    <2>1. req'[r].at = "look" /\ UNCHANGED <<key, ledger, auth, unsure>>
        BY <1>1, <1>g DEF Probe, controller, router, history
    <2> QED
        BY <1>1, <1>g, <2>1, MoveSound DEF Probe, Sound
<1>2. CASE Heal(r)
    <2> DEFINE next == [req[r] EXCEPT !.at = "try", !.pub = key]
    <2>1. next \in Tasks /\ next.at = "try" /\ next.pub = key
        BY <1>r DEF AccessTypeOK, Tasks, Places
    <2>2. UNCHANGED <<key, ledger, auth, unsure>> /\ LogIn(r, None, next)
        BY <1>2 DEF Heal, controller, router, history
    <2> HIDE DEF next
    <2>3. req'[r].at = "try" /\ req'[r].pub = key
        BY <1>l, <2>1, <2>2
    <2> QED
        BY <1>l, <2>1, <2>2, <2>3, MoveSound DEF Sound
<1>3. CASE Try(r)
    <2>1. req'[r].at = "push" /\ req'[r].pub = key /\ UNCHANGED <<key, ledger, auth, unsure>>
        BY <1>3, <1>r, <1>g DEF Try, Sound, controller, router, history
    <2> QED
        BY <1>3, <1>g, <2>1, MoveSound DEF Try, Sound
<1>4. CASE Push(r)
    <2>1. req[r].pub = key /\ UNCHANGED <<key, ledger>>
        BY <1>4, <1>r DEF Push, Sound, controller
    <2>2. auth' = [auth EXCEPT ![req[r].dev] = @ \cup {key}]
          /\ unsure' = unsure \ {req[r].dev}
        BY <1>4, <2>1 DEF Push
    <2>3. \A dev \in Devices : Deployed(dev) => Deployed(dev)'
        BY <2>1, <2>2 DEF Deployed, AccessTypeOK
    <2>4. Deployed(req[r].dev)'
        <3> SUFFICES key \in auth'[req[r].dev]
            BY <1>4, <1>r, <1>t, <2>1 DEF Push, Deployed, Tasks
        <3> QED
            BY <1>r, <2>2 DEF AccessTypeOK
    <2>5. /\ \A q \in Requests : q # r => req'[q] = req[q]
          /\ req'[r].at \in {"load", "mark"}
        BY <1>4, <1>t, <1>r DEF Push, Tasks
    <2>6. Sound(r)'
        BY <2>4, <2>5 DEF Sound
    <2>7. LedgerTrue'
        BY <2>1, <2>3 DEF LedgerTrue, AccessTypeOK
    <2> QED
        BY <2>1, <2>3, <2>5, <2>6, <2>7, OthersSound
<1>5. CASE Mark(r)
    <2> DEFINE marked == IF req[r].op = "adopt" THEN req[r].dev ELSE Default
    <2>1. Deployed(req[r].dev) /\ UNCHANGED <<key, auth>>
        BY <1>5, <1>r DEF Mark, Sound, router
    <2>2. CASE key = None
        <3>1. End(r) /\ UNCHANGED <<ledger, unsure>>
            BY <1>5, <2>2 DEF Mark
        <3> QED
            BY <1>e, <2>1, <3>1, MoveSound DEF Sound
    <2>3. CASE key # None
        <3>1. /\ ledger' = ledger \cup {marked}
              /\ unsure' = IF marked \in ledger \cup {req[r].dev} THEN unsure
                           ELSE unsure \cup {marked}
              /\ GoTo(r, IF req[r].op = "adopt" THEN "look" ELSE "load")
            BY <1>5, <2>3 DEF Mark
        <3>2. \A dev \in Devices : Deployed(dev) => Deployed(dev)'
            BY <2>1, <3>1 DEF Deployed
        <3>3. /\ req'[r].at \in {"look", "load"} /\ req'[r].dev = req[r].dev
              /\ \A q \in Requests : q # r => req'[q] = req[q]
            BY <1>g, <3>1
        <3>4. Sound(r)'
            BY <2>1, <3>1, <3>3 DEF Sound, Deployed
        <3>5. LedgerTrue'
            <4> SUFFICES ASSUME NEW dev \in ledger' PROVE Deployed(dev)'
                BY DEF LedgerTrue
            <4>1. CASE dev \in ledger
                BY <3>2, <4>1 DEF LedgerTrue, AccessTypeOK
            <4>2. CASE dev = req[r].dev
                BY <1>r, <2>1, <3>2, <4>2
            <4>3. CASE dev \notin ledger \cup {req[r].dev}
                BY <3>1, <4>3 DEF Deployed
            <4> QED
                BY <4>1, <4>2, <4>3
        <3> QED
            BY <2>1, <3>2, <3>3, <3>4, <3>5, OthersSound
    <2> QED
        BY <2>2, <2>3
<1>6. CASE Load(r)
    <2> DEFINE next == [req[r] EXCEPT !.at = "check"]
    <2>1. next \in Tasks /\ next.at = "check" /\ next.dev = req[r].dev
        BY <1>r DEF AccessTypeOK, Tasks, Places
    <2>2. /\ UNCHANGED <<key, ledger, auth, unsure>> /\ LogIn(r, key, next)
          /\ Deployed(req[r].dev)
        BY <1>6, <1>r DEF Load, Sound, controller, router, history
    <2> HIDE DEF next
    <2>3. req'[r].at = "check" /\ req'[r].dev = req[r].dev
        BY <1>l, <2>1, <2>2
    <2>4. Sound(r)'
        BY <2>2, <2>3 DEF Sound, Deployed
    <2> QED
        BY <1>l, <2>1, <2>2, <2>4, MoveSound
<1>7. ASSUME NEW lockdown \in BOOLEAN, Check(r, lockdown) PROVE Kept
    <2>1. Deployed(req[r].dev) /\ UNCHANGED <<key, ledger, auth, unsure>>
        BY <1>7, <1>r DEF Check, Sound, controller, router, history
    <2>2. GoTo(r, "mark") \/ GoTo(r, "off") \/ End(r)
        BY <1>7 DEF Check
    <2>3. Sound(r)'
        BY <1>g, <1>e, <2>1, <2>2 DEF Sound, Deployed
    <2> QED
        BY <1>g, <1>e, <2>1, <2>2, <2>3, MoveSound
<1>8. ASSUME NEW lockdown \in BOOLEAN, Look(r, lockdown) PROVE Kept
    <2>1. UNCHANGED <<key, ledger, auth, unsure>>
        BY <1>8 DEF Look, controller, router, history
    <2>2. GoTo(r, "rest") \/ (GoTo(r, "off") /\ Deployed(req[r].dev))
        BY <1>8 DEF Look, LedgerTrue
    <2>3. Sound(r)'
        BY <1>g, <2>1, <2>2 DEF Sound, Deployed
    <2> QED
        BY <1>g, <2>1, <2>2, <2>3, MoveSound
<1>9. CASE SwitchOff(r) \/ Adopted(r) \/ Fails(r)
    <2>1. UNCHANGED <<key, ledger, auth, unsure>>
        BY <1>9 DEF SwitchOff, Adopted, Fails, controller, router, history
    <2>2. GoTo(r, "rest") \/ GoTo(r, "revert") \/ End(r)
        BY <1>9 DEF SwitchOff, Adopted, Fails
    <2>3. Sound(r)'
        BY <1>g, <1>e, <2>2 DEF Sound
    <2> QED
        BY <1>g, <1>e, <2>1, <2>2, <2>3, MoveSound
<1>10. CASE Revert(r)
    <2>1. UNCHANGED <<key, ledger, auth, unsure>> /\ LogIn(r, None, Idle)
        BY <1>10 DEF Revert, controller, router, history
    <2>2. req'[r].at = "idle"
        BY <1>l, <2>1, IdleTyped
    <2> QED
        BY <1>l, <2>1, <2>2, IdleTyped, MoveSound DEF Sound
<1> QED
    BY <1>1, <1>2, <1>3, <1>4, <1>5, <1>6, <1>7, <1>8, <1>9, <1>10 DEF Step

LEMMA WipeSound ==
    ASSUME AccessTypeOK, NEW dev \in Devices, NEW all \in BOOLEAN, Wipe(dev, all),
           UNCHANGED <<key, ledger, req>>,
           \A q \in Requests : Sound(q), LedgerTrue
    PROVE  (\A q \in Requests : Sound(q)') /\ LedgerTrue'
<1>1. \A d \in Devices : Deployed(d) => Deployed(d)'
    BY DEF Wipe, Deployed, AccessTypeOK
<1>2. \A q \in Requests : req[q].dev \in Devices
    BY DEF AccessTypeOK, Tasks
<1>3. \A q \in Requests : Sound(q)'
    BY <1>1, <1>2 DEF Sound, Deployed
<1>4. LedgerTrue'
    BY <1>1 DEF LedgerTrue, AccessTypeOK
<1> QED
    BY <1>3, <1>4

\* A change of the key pair finds no request at work, or is remembered.
LEMMA RekeySound ==
    ASSUME AccessTypeOK, Rekey, ledger' = {},
           \A q \in Requests : req[q] = Idle => req'[q].at \in {"idle", "revert"}
    PROVE  rekeyed' \/ ((\A q \in Requests : Sound(q)') /\ LedgerTrue')
BY DEF Rekey, Busy, Sound, LedgerTrue

LEMMA AccessStep == AccessInv /\ [Next]_vars => AccessInv'
<1> SUFFICES ASSUME AccessInv, [Next]_vars PROVE AccessInv'
    OBVIOUS
<1> DEFINE Good == (\A q \in Requests : Sound(q)) /\ LedgerTrue
<1>1. AccessTypeOK /\ AccessTypeOK'
    BY TypeStep DEF AccessInv
<1>2. rekeyed \/ Good
    BY SoundIsInv DEF AccessInv
<1>t. req \in [Requests -> Tasks]
    BY <1>1 DEF AccessTypeOK
<1>3. rekeyed' \/ Good'
    <2>1. ASSUME NEW r \in Requests, Step(r) PROVE rekeyed' \/ Good'
        <3>1. rekeyed' = rekeyed
            BY <2>1 DEF Step, Probe, Heal, Try, Push, Mark, Load, Check, Look, SwitchOff,
                        Adopted, Fails, Revert, history
        <3> QED
            BY <1>1, <1>2, <2>1, <3>1, StepSound
    <2>2. ASSUME NEW r \in Requests, NEW dev \in Devices, Adopt(r, dev)
          PROVE  rekeyed' \/ Good'
        <3>1. UNCHANGED <<key, ledger, auth, unsure, rekeyed>>
            BY <2>2 DEF Adopt, controller, router, history
        <3>2. /\ \A q \in Requests : q # r => req'[q] = req[q]
              /\ req'[r].at = "probe"
            BY <2>2, <1>t DEF Adopt, Idle
        <3> QED
            BY <1>1, <1>2, <3>1, <3>2, MoveSound DEF Sound
    <2>3. ASSUME NEW r \in Requests, NEW dev \in Devices, Deploy(r, dev)
          PROVE  rekeyed' \/ Good'
        <3>1. UNCHANGED <<key, ledger, auth, unsure, rekeyed>>
            BY <2>3 DEF Deploy, controller, router, history
        <3>2. /\ \A q \in Requests : q # r => req'[q] = req[q]
              /\ req'[r].at = "push" /\ req'[r].pub = key
            BY <2>3, <1>t DEF Deploy, Idle
        <3> QED
            BY <1>1, <1>2, <3>1, <3>2, MoveSound DEF Sound
    <2>4. ASSUME NEW r \in Requests, NEW dev \in Devices, Revoke(r, dev)
          PROVE  rekeyed' \/ Good'
        <3>1. req'[r].at = "revert" /\ \A q \in Requests : q # r => req'[q] = req[q]
            BY <2>4, <1>t DEF Revoke, Idle
        <3> QED
            BY <1>1, <2>4, <3>1, IdleTyped, RekeySound DEF Revoke
    <2>5. CASE Generate
        BY <1>1, <2>5, IdleTyped, RekeySound DEF Generate
    <2>6. ASSUME NEW dev \in Devices, FactoryReset(dev) PROVE rekeyed' \/ Good'
        BY <1>1, <1>2, <2>6, WipeSound DEF FactoryReset, controller
    <2>7. ASSUME NEW dev \in Devices, NEW all \in BOOLEAN, ByHand(dev, all)
          PROVE  rekeyed' \/ Good'
        BY <1>1, <1>2, <2>7, WipeSound DEF ByHand, controller
    <2>8. ASSUME NEW cleared \in BOOLEAN, Restart(cleared) PROVE rekeyed' \/ Good'
        <3>1. UNCHANGED <<key, ledger, auth, unsure, rekeyed>>
            BY <2>8 DEF Restart, controller, router, history
        <3>2. \A q \in Requests : req'[q].at = "idle"
            BY <2>8, IdleTyped DEF Restart
        <3>3. LedgerTrue => LedgerTrue'
            BY <3>1 DEF LedgerTrue, Deployed
        <3> QED
            BY <1>2, <3>1, <3>2, <3>3 DEF Sound
    <2>9. CASE UNCHANGED vars
        BY <1>2, <2>9
           DEF vars, controller, router, history, Sound, LedgerTrue, Deployed
    <2> QED
        BY <2>1, <2>2, <2>3, <2>4, <2>5, <2>6, <2>7, <2>8, <2>9 DEF Next
<1>4. (\A q \in Requests : Sound(q)') => PushesStoredKey' /\ PushedBeforeLockdown'
    BY DEF Sound, PushesStoredKey, PushedBeforeLockdown
<1> QED
    BY <1>1, <1>3, <1>4 DEF AccessInv

LEMMA AccessInit == Init => AccessInv
<1> SUFFICES ASSUME Init PROVE AccessInv
    OBVIOUS
<1>1. \A r \in Requests : req[r].at = "idle"
    BY IdleTyped DEF Init
<1>2. ledger = {}
    BY DEF Init
<1> QED
    BY <1>1, <1>2, InitTyped
       DEF AccessInv, PushesStoredKey, PushedBeforeLockdown, LedgerTrue

\* A password goes with a request that is at its lockdown.
LEMMA LockdownStep ==
    ASSUME AccessInv, Next, NEW dev \in Devices,
           password[dev], ~password'[dev], dev \notin unsure, ~rekeyed
    PROVE  key \in auth[dev]
<1>1. PICK r \in Requests : SwitchOff(r)
    <2>1. password' # password
        OBVIOUS
    <2>2. ASSUME NEW d \in Devices, NEW all \in BOOLEAN, Wipe(d, all) PROVE FALSE
        BY <2>2 DEF Wipe, AccessInv, AccessTypeOK
    <2> QED
        BY <2>1, <2>2
           DEF Next, Step, Probe, Heal, Try, Push, Mark, Load, Check, Look, Adopted, Fails,
               Revert, Adopt, Deploy, Revoke, Generate, FactoryReset, ByHand, Restart, router
<1>2. req[r].at = "off" /\ password' = [password EXCEPT ![req[r].dev] = FALSE]
    BY <1>1 DEF SwitchOff
<1>3. req[r].dev = dev
    BY <1>2 DEF AccessInv, AccessTypeOK
<1>4. Deployed(dev)
    BY <1>2, <1>3 DEF AccessInv, PushedBeforeLockdown
<1> QED
    BY <1>4 DEF Deployed

\* The inductive invariant, for any number of routers, requests, key pairs and resets.
THEOREM AccessInvariant == Spec => []AccessInv
BY AccessInit, AccessStep, PTL DEF Spec

\* adoption.py:245 and settings.py:194: a router's password is switched off only when it
\* accepts the key pair the controller has stored, with the exceptions the property names.
THEOREM LockdownIsSafe == Spec => LockdownSafe
<1>1. AccessInv /\ [Next]_vars
      => [\A dev \in Devices :
             password[dev] /\ ~password'[dev] /\ dev \notin unsure /\ ~rekeyed =>
                 key \in auth[dev]]_vars
    BY LockdownStep
<1> QED
    BY <1>1, AccessInvariant, PTL DEF Spec, LockdownSafe
=============================================================================
