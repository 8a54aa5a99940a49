------------------------- MODULE ProfileActivation -------------------------
(***************************************************************************)
(* Profiles between the database, the router and the physical button:      *)
(* app/profiles/store.py, app/api/routes/profiles.py and                   *)
(* app/slate_agent/sync.py.                                                *)
(*                                                                         *)
(* Requests activate, edit, push, create and delete profiles; the pages    *)
(* that poll the list of profiles reconcile the database's active marker   *)
(* with what the router answers; the button applies profiles on the router *)
(* alone.  The router is the one ApplyService describes.                   *)
(*                                                                         *)
(* SQLite opens a transaction at the first write, so the SELECTs of        *)
(* set_active and its commit are two steps, and the commit writes nothing  *)
(* when the marker read already had the name; a delete holds the write     *)
(* lock from its first statement and is one step.  The catalogs that go    *)
(* into a pushed file, wallpapers and menu frames are left out.            *)
(***************************************************************************)
EXTENDS ApplyService

CONSTANTS
    Tasks,      \* requests of operators
    Poller,     \* the request of a page that polls
    Templates   \* shipped profiles, which cannot be deleted

ASSUME ActivationAssumption ==
    /\ Poller \notin Tasks
    /\ Templates \subseteq Profiles

VARIABLES
    lost,     \* history: profiles whose file a factory reset took and no push brought back
    content,  \* the profile rows: payload, None when there is no row
    badge,    \* updated_at against last_synced_at
    marker,   \* AppStateRow of the active profile, None when empty
    at,       \* where each request is
    name,     \* the profile it is about
    saw,      \* the marker as set_active SELECTed it
    carried   \* the payload it carries from its read to its push

routerVars == <<deviceVars, lost>>
rowVars == <<content, badge, marker>>
requestVars == <<at, name, saw, carried>>
allVars == <<routerVars, rowVars, requestVars>>

Requests == Tasks \cup {Poller}
Stored == {p \in Profiles : content[p] # None}

\* never: no push yet; clean: pushed since the last edit; edited: not; hasty: edited
\* within the two seconds StoredProfile.out_of_sync tolerates, so it shows as clean.
Badges == {"never", "clean", "edited", "hasty"}
OutOfSync(p) == badge[p] \in {"never", "edited"}

Places == {"idle", "setActive", "get", "version", "push", "mark", "apply",
           "applying", "pushEdit", "markEdit", "answered"}

Goto(t, place) == at' = [at EXCEPT ![t] = place]

\* The request ends, whatever it answers.
Respond(t) ==
    /\ Goto(t, "idle")
    /\ name' = [name EXCEPT ![t] = None]
    /\ saw' = [saw EXCEPT ![t] = None]
    /\ carried' = [carried EXCEPT ![t] = None]

(***************************************************************************)
(* ProfileStore                                                            *)
(***************************************************************************)

\* set_active up to its commit: both SELECTs.
SelectActive(t, p) ==
    /\ content[p] # None
    /\ Goto(t, "setActive")
    /\ name' = [name EXCEPT ![t] = p]
    /\ saw' = [saw EXCEPT ![t] = marker]
    /\ UNCHANGED carried

\* The commit of set_active.
CommitActive(t) ==
    /\ at[t] = "setActive"
    /\ marker' = IF saw[t] = name[t] THEN marker ELSE name[t]
    /\ IF t = Poller
       THEN Respond(t)
       ELSE /\ Goto(t, "get")
            /\ saw' = [saw EXCEPT ![t] = None]
            /\ UNCHANGED <<name, carried>>
    /\ UNCHANGED <<routerVars, content, badge>>

\* store.update: an edit may fall within two seconds of the last push.
Edited(p, c) ==
    /\ content' = [content EXCEPT ![p] = c]
    /\ \E b \in CASE badge[p] \in {"clean", "hasty"} -> {"edited", "hasty"}
                  [] OTHER -> {badge[p]} :
          badge' = [badge EXCEPT ![p] = b]

\* mark_synced: nothing without the row.
MarkSynced(p) ==
    badge' = IF content[p] = None THEN badge ELSE [badge EXCEPT ![p] = "clean"]

(***************************************************************************)
(* POST /profiles/{name}/activate                                          *)
(***************************************************************************)
Activate(t, p) ==
    /\ at[t] = "idle"
    /\ SelectActive(t, p)
    /\ UNCHANGED <<routerVars, rowVars>>

\* store.get: the row may have been deleted since.
GetStored(t) ==
    /\ at[t] = "get"
    /\ IF content[name[t]] = None
       THEN Respond(t)
       ELSE /\ carried' = [carried EXCEPT ![t] = content[name[t]]]
            /\ Goto(t, "version")
            /\ UNCHANGED <<name, saw>>
    /\ UNCHANGED <<routerVars, rowVars>>

\* get_agent_version; without an answer the controller applies what it can by
\* itself, and the router's active file stays as it is.
AgentVersion(t) ==
    /\ at[t] = "version"
    /\ \/ Goto(t, "push") /\ UNCHANGED <<name, saw, carried>>
       \/ Respond(t)
    /\ UNCHANGED <<routerVars, rowVars>>

\* slate-ctrl apply: refused without the file, not reached over a broken connection.
InvokeApply(t) ==
    /\ at[t] = "apply"
    /\ \/ /\ \E x \in Appliers : Invoke(x, name[t])
          /\ Goto(t, "applying")
          /\ UNCHANGED <<lost, name, saw, carried>>
       \/ /\ Respond(t)
          /\ UNCHANGED routerVars
    /\ UNCHANGED rowVars

\* The apply ended, or sixty seconds are over and it goes on by itself.
ApplyAnswers(t) ==
    /\ at[t] = "applying"
    /\ Respond(t)
    /\ UNCHANGED <<routerVars, rowVars>>

(***************************************************************************)
(* sync_profiles and mark_synced, for an activation or for an edit         *)
(***************************************************************************)

\* What follows the push of one file: an activation goes on, an edit is over when
\* the push has failed.
AfterPush(t, ok) ==
    \/ /\ at[t] = "push" \/ ok
       /\ Goto(t, CASE at[t] = "push" /\ ok -> "mark"
                    [] at[t] = "push" /\ ~ok -> "apply"
                    [] OTHER -> "markEdit")
       /\ carried' = [carried EXCEPT ![t] = None]
       /\ UNCHANGED <<name, saw>>
    \/ /\ at[t] = "pushEdit" /\ ~ok
       /\ Respond(t)

FileLands(p, c) == Push(p, c) /\ lost' = lost \ {p}

\* Faulty variant: a failed push is stamped as well.
AlwaysStamp(t, ok, lands) ==
    /\ at[t] \in {"push", "pushEdit"}
    /\ ok => lands
    /\ IF lands THEN FileLands(name[t], carried[t]) ELSE UNCHANGED routerVars
    /\ AfterPush(t, TRUE)
    /\ UNCHANGED rowVars

\* The file lands when the push succeeds, and may land although it reports an error.
PushFile(t, ok, lands) ==
    /\ at[t] \in {"push", "pushEdit"}
    /\ ok => lands
    /\ IF lands THEN FileLands(name[t], carried[t]) ELSE UNCHANGED routerVars
    /\ AfterPush(t, ok)
    /\ UNCHANGED rowVars

Mark(t) ==
    /\ at[t] \in {"mark", "markEdit"}
    /\ MarkSynced(name[t])
    /\ IF at[t] = "mark"
       THEN Goto(t, "apply") /\ UNCHANGED <<name, saw, carried>>
       ELSE Respond(t)
    /\ UNCHANGED <<routerVars, content, marker>>

(***************************************************************************)
(* PUT, POST sync-to-slate, POST and DELETE                                *)
(***************************************************************************)
StartPush(t, p, c) ==
    /\ at[t] = "idle"
    /\ Goto(t, "pushEdit")
    /\ name' = [name EXCEPT ![t] = p]
    /\ carried' = [carried EXCEPT ![t] = c]
    /\ UNCHANGED saw

\* The edit is committed, then pushed.
UpdateProfile(t, p, c) ==
    /\ content[p] \notin {None, c}
    /\ Edited(p, c)
    /\ StartPush(t, p, c)
    /\ UNCHANGED <<routerVars, marker>>

SyncToSlate(t, p) ==
    /\ content[p] # None
    /\ StartPush(t, p, content[p])
    /\ UNCHANGED <<routerVars, rowVars>>

CreateProfile(t, p, c) ==
    /\ at[t] = "idle"
    /\ content[p] = None
    /\ content' = [content EXCEPT ![p] = c]
    /\ badge' = [badge EXCEPT ![p] = "never"]
    /\ UNCHANGED <<routerVars, marker, requestVars>>

\* The marker goes with the row; the file on the router stays.
DeleteProfile(t, p) ==
    /\ at[t] = "idle"
    /\ content[p] # None
    /\ p \notin Templates
    /\ content' = [content EXCEPT ![p] = None]
    /\ badge' = [badge EXCEPT ![p] = "never"]
    /\ marker' = IF marker = p THEN None ELSE marker
    /\ UNCHANGED <<routerVars, requestVars>>

(***************************************************************************)
(* resolve_active_name, from GET /profiles, /profiles/active, /{name}      *)
(***************************************************************************)

\* Faulty variant: an empty answer is taken for a name.
HearEmpty ==
    /\ at[Poller] = "idle"
    /\ Goto(Poller, "answered")
    /\ name' = [name EXCEPT ![Poller] = IF active = None THEN "" ELSE active]
    /\ UNCHANGED <<routerVars, rowVars, saw, carried>>

\* slate-ctrl status answered.
HearActive ==
    /\ at[Poller] = "idle"
    /\ active # None
    /\ Goto(Poller, "answered")
    /\ name' = [name EXCEPT ![Poller] = active]
    /\ UNCHANGED <<routerVars, rowVars, saw, carried>>

\* Faulty variant: only an empty marker is brought in line.
FillMarker ==
    /\ at[Poller] = "answered"
    /\ IF content[name[Poller]] # None /\ marker = None
       THEN SelectActive(Poller, name[Poller])
       ELSE Respond(Poller)
    /\ UNCHANGED <<routerVars, rowVars>>

\* A marker that differs is brought in line, unless the profile is unknown.
Reconcile ==
    /\ at[Poller] = "answered"
    /\ IF content[name[Poller]] # None /\ marker # name[Poller]
       THEN SelectActive(Poller, name[Poller])
       ELSE Respond(Poller)
    /\ UNCHANGED <<routerVars, rowVars>>

(***************************************************************************)
(* The router                                                              *)
(***************************************************************************)

\* cycle-profile.sh skips the profile that is active already.
PressButton(x, p) ==
    /\ active # p
    /\ Invoke(x, p)
    /\ UNCHANGED <<lost, rowVars, requestVars>>

ApplyGoesOn(x) ==
    /\ Complete(x) \/ GiveUp(x)
    /\ UNCHANGED <<lost, rowVars, requestVars>>

Restart ==
    /\ Reboot
    /\ UNCHANGED <<lost, rowVars, requestVars>>

\* The route that resets the router, or its button: the rows stay as they are.
FactoryReset ==
    /\ Wipe
    /\ lost' = Profiles
    /\ UNCHANGED <<rowVars, requestVars>>

(***************************************************************************)
(* Specification                                                           *)
(***************************************************************************)

\* The templates are seeded; nothing has been pushed.
Init ==
    /\ DeviceInit
    /\ lost = {}
    /\ content \in [Profiles -> Contents \cup {None}]
    /\ \A p \in Profiles : content[p] # None <=> p \in Templates
    /\ badge = [p \in Profiles |-> "never"]
    /\ marker = None
    /\ at = [t \in Requests |-> "idle"]
    /\ name = [t \in Requests |-> None]
    /\ saw = [t \in Requests |-> None]
    /\ carried = [t \in Requests |-> None]

NewRequest(t) ==
    \E p \in Profiles :
        \/ Activate(t, p)
        \/ SyncToSlate(t, p)
        \/ DeleteProfile(t, p)
        \/ \E c \in Contents : UpdateProfile(t, p, c) \/ CreateProfile(t, p, c)

Proceed(t) ==
    \/ CommitActive(t)
    \/ GetStored(t)
    \/ AgentVersion(t)
    \/ \E ok, lands \in BOOLEAN : PushFile(t, ok, lands)
    \/ Mark(t)
    \/ InvokeApply(t)
    \/ ApplyAnswers(t)

Polling == HearActive \/ Reconcile \/ CommitActive(Poller)

Next ==
    \/ \E t \in Tasks : NewRequest(t) \/ Proceed(t)
    \/ Polling
    \/ \E x \in Appliers : ApplyGoesOn(x) \/ \E p \in Profiles : PressButton(x, p)
    \/ Restart
    \/ FactoryReset

Spec == Init /\ [][Next]_allVars

\* A page is open, and the router answers it again and again.
FairSpec == Spec /\ WF_allVars(Polling)

(***************************************************************************)
(* Properties                                                              *)
(***************************************************************************)
ActivationTypeOK ==
    /\ json \in [Profiles -> Contents \cup {None}]
    /\ active \in Profiles \cup {None}
    /\ applying \in [Appliers -> Profiles \cup {None}]
    /\ lost \subseteq Profiles
    /\ content \in [Profiles -> Contents \cup {None}]
    /\ badge \in [Profiles -> Badges]
    /\ marker \in Profiles \cup {None}
    /\ at \in [Requests -> Places]
    /\ name \in [Requests -> Profiles \cup {None}]
    /\ saw \in [Requests -> Profiles \cup {None}]
    /\ carried \in [Requests -> Contents \cup {None}]

\* db/models.py:69-73: a profile whose badge says it is in sync is on the router as
\* it is in the database, through failed and half-reported pushes, deletions and
\* re-creations - unless a factory reset has taken the file away, which changes no badge,
\* or the edit came within the badge's tolerance.  (One operator: with a second one it is
\* false, as ProfileActivation_editors.cfg shows.)
BadgeHonest ==
    \A p \in Stored \ lost : badge[p] = "clean" => json[p] = content[p]

\* No operator is waiting and no apply runs.
Quiet ==
    /\ \A t \in Tasks : at[t] = "idle"
    /\ \A x \in Appliers : applying[x] = None

\* sync.py:702-707, "the Slate is the source of truth": however activations that
\* failed or ran into their timeout, the button, deletions and stale answers of the
\* polls were interleaved, once they stop the marker goes to the profile the router
\* has applied and stays there, if the database knows that profile.
MarkerConverges ==
    <>[][Quiet' /\ content' = content]_allVars
        => <>[](active \in Stored => marker = active)

\* store.py:210-214: "Existence check + write must share one transaction", so that no
\* DELETE lands in between "leaving the marker pointing at a deleted profile".
MarkerNamesProfile == marker # None => content[marker] # None
=============================================================================
