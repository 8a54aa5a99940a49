# slatecontroller in TLA+

A verification project for slatecontroller, a web controller for one or several
GL.iNet Slate routers. The modules model the parts of it whose correctness rests on
ordering: coroutines that share a session, rows that are read and written in two
steps, shell scripts on the router that lock against each other, scheduled jobs and
the database rows they belong to. TLC checks them on small instances; TLAPS proves
the main safety properties for every value of the constants.

* [1. The system](#1-the-system)
* [2. Modules](#2-modules)
* [3. Runs](#3-runs)
* [4. Where code and documentation disagree](#4-where-code-and-documentation-disagree)
* [5. Bounds](#5-bounds)
* [6. Fairness](#6-fairness)
* [7. Proofs](#7-proofs)
* [8. What is not modelled](#8-what-is-not-modelled)
* [9. Plan](#9-plan)

Paths below are under `src/backend/app/` unless they say otherwise.

## 1. The system

The controller is one FastAPI process on one asyncio event loop, with SQLite behind
SQLAlchemy's async sessions and an in-process APScheduler. It reaches each router in
two ways: JSON-RPC over HTTPS (a synchronous client in worker threads) and SSH. On
the router, a set of shell scripts (`slate_agent/scripts/`) keeps working when the
controller is away: `slate-ctrl` applies a profile, the reset button cycles through
profiles, a cron job repairs the Wi-Fi, and a sampler watches the touchscreen.

```
 browser ──HTTP──► routes ──► services ──► SQLite rows
                     │           │  ▲
                     │           │  └── APScheduler jobs (passes, supervisor, polls)
                     │           ├──JSON-RPC──► router firmware
                     │           └──SSH───────► slate-ctrl ◄── reset button
                     └◄──webhooks── sampler          ▲  └────── cron watchdog
                                                     └ profile JSON, active file, lock file
```

What makes it hard to test: every `await` is a point where another request runs;
SQLite opens its transaction at the first *write*, so what a session has SELECTed may
be old when it commits; the scripts on the router run beside the controller and beside
each other; an SSH command that times out in the controller goes on on the router; and
both sides restart on their own.

### Components

State and operations of the parts with logic of their own. `PROJECT.json` lists all of
them with their sources, those without such logic included.

| Component | State | Operations | Correct when |
|---|---|---|---|
| Router RPC client (`slate/client.py`) | current session, its URL, lock, failure count, breaker window | `connect`, `call` with one retry, `disconnect`, `force_reset` | no request without a session; sessions are on the URL they claim; the breaker blocks what queued behind it; every call ends |
| URL resolver (`slate/url_resolver.py`) | cached URL, time of its probe | `active`, `mark_failed` | a URL that failed is probed again |
| SSH connection (`slate/ssh.py`) | one connection, auth mode, host key, lock | `run`, `put_bytes`, `use_private_key`, reconnection | commands run on the pinned router in the mode in force; a pushed file is whole |
| Way into a router (`settings/ssh_keys.py`, `devices/adoption.py`, `api/routes/settings.py`, `devices.py`) | one key pair, the ledger of routers that have it, the auth mode of each connection | generate, deploy, revoke, adopt, factory reset | a password is switched off only where the key works |
| PIN lockout (`security/pin_lockout.py`) | one row: count, window, end of the lock | `check_or_raise`, `record_failure`, `record_success` | three failures lock; nothing but time or a success opens |
| Anti-theft mode (`security/anti_theft.py`) | one row: policy, cumulative count, last action | `upsert`, `on_pin_failure`, `on_pin_success`, the wipe | fires at its threshold and not before; a wipe tries every step |
| Touchscreen watcher (`scheduler/screen_lock_watcher.py`, sampler script) | last sample per device, in memory | poll, push, compare | a lockout that shows is reported in full; nothing is counted that nobody typed |
| slate-ctrl (`slate_agent/scripts/slate-ctrl`) | profile files, active file, lock file, subsystems | `apply`, `apply-only`, readers | applies do not mix two profiles |
| Wi-Fi watchdog (`…/wifi-drift-watchdog.sh`) | none | remove an old lock file, `apply-only wifi` | does not disturb an apply |
| Button (`…/cycle-profile.sh`, `…/rc-button-reset.sh`) | cursor, PIDs of committer and painter | move the cursor, show it, commit, cancel | one commit per pause; the last press wins |
| Profiles (`profiles/store.py`, `api/routes/profiles.py`, `slate_agent/sync.py`) | rows, sync badge, active marker | create, update, delete, push, activate, reconcile | badge and marker say what the router has |
| Surveillance (`scheduler/surveillance.py`, its routes) | session rows, scan rows, jobs | start, cancel, delete, pass, supervisor, re-registration | active sessions have jobs and end; counted passes are stored |
| Ambient scans (`scheduler/ambient_scan.py`) | one row per device and band, jobs | upsert, run, re-registration | enabled rows have jobs, disabled ones have none |
| Device registry and store (`devices/`) | bundles by slug; rows with one default | get, invalidate, CRUD | nobody works through a closed bundle; one default |
| Webhooks (`webhooks/`) | current and previous secret | verify, rotate, dispatch | a rotation loses no event |
| Exit-node watchdog (`tailscale/ha_watchdog.py`) | one JSON document | tick, configure | switches when needed, and stops |
| Packet captures (`wifi/pcap_capture.py`) | capture rows, remote processes | start, refresh, stop | no row stays in a state nothing ends |
| Fortinet (`vpn/fortinet/`) | PID and configuration files | connect, disconnect, status | one tunnel, known by its PID |
| Everything else | see `PROJECT.json` | CRUD on one row, rendering, sequences of SSH commands or HTTP calls | mostly data |

### How the modelled parts interact

* A verification request asks the **lockout** (`check_or_raise`), compares the PIN over
  SSH and records the outcome. Once that is committed, the lockout calls the
  **anti-theft** service, which reads its own row, commits the new count, and may wipe.
  The **touchscreen watcher** reports to the same counter without passing the lockout.
* Activating a **profile** writes the marker, pushes the file, stamps the badge and
  runs **`slate-ctrl apply`** over SSH with a timeout. The **button** runs the same
  script. An open page polls `slate-ctrl status` and moves the marker after it.
* **Surveillance** keeps the same fact twice, a row that is `active` and jobs in the
  scheduler's memory. Requests, a supervisor that fires every 30 seconds, and
  `register_all` at boot keep the two in step.
* All JSON-RPC traffic shares one **RPC client** per device, all SSH traffic one
  **connection**; only an adoption of another device than the default one, and its
  factory reset, open a connection of their own.
* **Adoption** and the **settings page** write the ledger of routers that have the
  controller's key. A restart reads it to choose the auth mode of each connection, and a
  later adoption to decide whether the password may be switched off.
* The **sampler** on the router pushes changes of the firmware's two failure counts to a
  webhook; the **poll** reads the same counts over SSH. Both end in the same comparison
  with the last sample, whose differences are reported to the anti-theft counter.

### Hazards

`PROJECT.json` lists, at their lines, the places where such code goes wrong, with the
property that would notice. Six have none, and their notes say why: the code does not keep
what a property would say (two editors of a profile, two reporters to the anti-theft
counter, the marker of a deleted profile), or nothing promises it. Where a property covers
a hazard only in part, a note says which part. Those of components without a module are in
[section 8](#8-what-is-not-modelled).

## 2. Modules

| Module | Models | Built on |
|---|---|---|
| `SlateClient` | the RPC client | |
| `PinLockout` | the lockout row and verification requests | |
| `AntiTheft` | the anti-theft row, reporters, the wipe | |
| `PinProtection` | the two wired together, with the touchscreen | `PinLockout`, `AntiTheft` |
| `ApplyService` | what the controller takes the agent for (abstract) | |
| `SlateCtrl` | `slate-ctrl` and the Wi-Fi watchdog; implements `ApplyService` | `INSTANCE ApplyService` |
| `ProfileActivation` | store, routes, sync, the button and a polling page | `ApplyService` |
| `Surveillance` | sessions, scans, jobs, operators, restarts | |
| `TouchscreenWatcher` | the router's failure counts, sampler, poll and comparison | |
| `SshConnection` | the shared SSH connection, uploads, host key, auth mode | |
| `DeviceAccess` | key pair, ledger, adoption, deployment, resets | |
| `ButtonCycle` | presses of the reset button and the processes they leave | `ApplyService` |
| `MCButtonCycle` | the cycles of the instance TLC checks | `ButtonCycle` |
| `PinProtectionProofs` | theorems about lockout, anti-theft and the two together | `PinProtection`, `TLAPS` |
| `AgentUsersProofs` | theorems about the agent's users, controller and button | `ProfileActivation`, `ButtonCycle`, `TLAPS` |
| other `…Proofs` | the theorems about the module of that name | that module, `TLAPS` |

Throughout, **an action is the code from one suspension to the next**: from one `await`
that really yields to the following one, with every assignment in between. Where a
session SELECTs, awaits and commits, the SELECT and the commit are two actions and what
was read is kept in a variable of the request. Outcomes of the outside world (a probe,
a login, an SSH command) are nondeterministic.

**SlateClient.** `pc[c]` is where caller `c`'s coroutine is suspended. `glinet` and `url`
are `self._glinet` and the URL `connect` compares with, `lock` is the `asyncio.Lock`,
`failures` and `windowOpen` are the circuit breaker. `sessUrl` remembers which URL the last
session was opened on, `target` is the URL the connect under the lock goes for,
`lateLogins` is history: the logins begun since the breaker opened; `inflight[c]` is the object a request of `c` runs on, captured before the worker
thread starts. `Call` … `RetryEnds` follow `call`: connect under the lock (`Acquire`,
`Resolved`, `ProbeOk`, `LoginOk`, `ConnectFails`), the request outside it, one retry
after a lost session. `WindowExpires` is the end of the breaker's window.

**PinLockout.** `exists`, `count`, `age`, `lockLeft`, `lockSet` are the row, with its two
timestamps turned into distances from now; `seen[r]` is the row as request `r` SELECTed
it. SQLAlchemy writes only the columns that changed, which `CommitFailure` keeps: it is
the reason a late failure does not shorten a lock. `streak` is history: failures
recorded since a lock or a success. `record_failure` takes its `now` just before the
SELECT; the model counts the lock from the commit, less than a tick later, so it does not
tell apart what two locks of one tick differ by. `RecordFails` is a commit that raises,
`Stop` the end of the controller.

**AntiTheft.** `present`, `armed`, `threshold`, `action`, `total`, `lastKind` are the
row, `read[p]` the row as a reporter SELECTed it, `tried[p]` the wipe steps a reporter
has tried. `WipeStep` tries the next step and goes on when it fails. `HookRaises` is a
report that raises, which its caller only logs. `Crash` loses every reporter and keeps the
row.

**PinProtection.** Conjoins the actions of both. A verification request is a reporter
of the same name; `CallHook` and `Answer` are the call into the service and its return, and
the touchscreen reports failures and unlocks beside them (`TouchscreenReport`). `guesses`,
`lost` and `owed` are history: the wrong guesses recorded, those of them whose report
raised or was cut off by a `Restart`, and the requests that should have cleared the counter.

**ApplyService, SlateCtrl.** The abstract service has a profile file per name, an active
file and invocations that name their profile, complete or give up. The detailed module
adds the lock file as an *inode*, because `flock` holds an open file and not a name; the
wait with its timeout; the handlers one by one, each of which may fail; `apply-only`
without the lock; the watchdog that unlinks a lock file older than ten minutes; a script
that dies, power cycles and a factory reset. `config[s]` is the profile subsystem `s` was
last configured for, `loose` the subsystems the lock does not answer for: a handler failed
there or had no block in the profile, an `apply-only` reached it beside an apply or for a
profile no longer active, the lock was taken away under an apply, or an apply or
`apply-only` that had reached it died. A subsystem leaves `loose` when a handler
configures it again under the lock. The refinement mapping reads `applying` as `wanted`.

**ProfileActivation.** `content`, `badge` and `marker` are the database; `json`,
`active` and `applying` the router, by `ApplyService`'s actions. `saw[t]` is the marker
as `set_active` SELECTed it, `carried[t]` the payload on its way to the router. The
badge stands for `updated_at` against `last_synced_at`: `never`, `clean`, `edited`, or
`hasty`, an edit within the two seconds that `out_of_sync` tolerates and that therefore
shows as clean. A push may fail, and may have landed although it is
reported as failed. An apply whose SSH command has run into its timeout goes on. A factory
reset takes the files away and changes no row; `lost` is history, the profiles whose file
it took and that have not been pushed since.

**Surveillance.** `status`, `passes`, `scans` are the tables, `due` says which deadlines
have passed, `jobs` is the scheduler, `scanning` the passes at work. `DeleteScan` is the route
that deletes one scan and leaves its session's count of passes; `removed` is history, how
many it took. `sup`/`ending` and
`reg`/`found` are the supervisor and `register_all` between their SELECT and their
commit, with the rows they found. `at`/`about` are operators' requests. A row that was
deleted meanwhile makes the commit of a set of rows fail as a whole
(`SuperviseRollback`). Identifiers are reused as SQLite reuses them, the largest plus
one.

**TouchscreenWatcher.** `screen` is the router's status file: `errors` of the streak, and
`exceed`, the errors that locked the screen. A sample is taken (`Take`), travels in
`sample[t]`, may be lost (`Lose`), and is worked on by `Compare`, `CountFailure`,
`ReportUnlock`: the difference to `snapshot` is found, every failure is a hook that awaits
the database, and only then `Remember` stores the sample, whatever else has been stored
meanwhile. `Misread` is a sample of zeros, which both readers make of a status file that is
missing or unreadable. The poll skips a device that is not in the registry's cache
(`cached`). `orderly` is history: samples so far were read, worked on one at a time, and the
controller stayed up. `typed`, `lockouts`, `expiries`, `unlocks` count what happened at the
screen; `counted` and `charged` what was reported because one of the two numbers rose,
`cleared` the successes reported, and `reported[t]` the calls made for the sample of `t`.

**SshConnection.** `at[c]` is where a caller of `run`, `put_bytes` or `use_private_key` is
suspended, `used[c]` the connection it was handed, `link[n]` what the connection that is
up was opened with. `Ensure` … `Verified` run under the lock; the command runs outside it
(`Answered`, `Streamed`, `Moved`), and a failed one takes the lock again and closes what
is current then (`DropCurrent`). A command cut short by somebody else's drop may also come
back without an exit status, which `run` takes for a success. `Break` is the network or a router that comes back with
another host key. `file[c]` is the target of an upload and the file beside it.

**DeviceAccess.** A command is one step: `Runs`, `Denied` or `Fails`. `req[r]` is an
adoption or a deployment between its commands; `cred[dev]` is what the shared connection
logs in with, `req[r].own` the same for the connection an adoption of another device opens.
The operations follow the two code paths, `Probe`, `Heal`, `Try`, `Push`, `Load`,
`Check`, `Mark`, `Look`, `SwitchOff` for adoption and `Push`, `Mark`, `Load`, `Check`,
`SwitchOff` or `Revert` for a deployment. The row's `status` is left out, since none of
this reads it. `unsure` and `rekeyed` are history: the routers on which the ledger may be
wrong, and that the key pair was changed under a request.

**ButtonCycle.** `press[p]` is where the script of a press is, `com[p]` its committer
(asleep, executing a step, or gone), `painting` the painters alive; `cursor`, `pidFile` and
`paintFile` are the files the next press reads. Applies are those of `ApplyService`, so
an apply outlives the committer that waits for it. `overlapped` is history:
whether two scripts have run at the same time, and whether one of them found the screen
locked.

## 3. Runs

`tlc -config X.cfg M` in this directory. Times are for two workers on a small machine.

| Run | Configuration | States | Time | Question |
|---|---|---|---|---|
| client | `SlateClient.cfg` | 66 470 | 30 s | do sessions and breaker stay coherent under three callers? |
| lockout | `PinLockout.cfg` | 101 850 | 10 s | can overlapping requests shorten a lock, or leave one for ever? |
| theft | `AntiTheft.cfg` | 333 392 | 30 s | does a wipe that starts try everything, and end? |
| protection | `PinProtection.cfg` | 26 837 | 2 s | is the pair exact with one verification at a time? |
| agent | `SlateCtrl.cfg` | 277 069 | 40 s | do overlapping applies keep one profile, and implement the service? |
| activation | `ProfileActivation.cfg` | 1 950 740 | 2 min | do badge and marker tell the truth about the router? |
| surveillance | `Surveillance.cfg` | 995 417 | 90 s | do rows and jobs stay in step? |
| watcher | `TouchscreenWatcher.cfg` | 353 810 | 26 s | is what the screen counts what the counter is told? |
| ssh | `SshConnection.cfg` | 123 908 | 23 s | do callers of one connection work on the right router, and return? |
| access | `DeviceAccess.cfg` | 4 504 891 | 75 s | is a password switched off only where the key works? |
| button | `MCButtonCycle.cfg` | 1 044 239 | 95 s | is what is committed what was shown, once? |
| watcher_expiry | `TouchscreenWatcher_expiry.cfg` | violation | | section 4 |

What the passing runs show, beside types:

* **client.** No request starts on a missing session (`RequestHasSession`) although
  requests run outside the lock and other coroutines drop the session meanwhile.
  `SessionOnUrl`: "already connected to the right place" is true after any failover.
  `BreakerConsistent`: a late success closes window and counter together.
  `NoSessionOverwritten`: logins never leak a session. `OneLateLogin`: when the breaker opens
  while a login is on its way that one goes on, but no other follows, however many callers
  have queued on the lock and however often the window is prolonged. `EveryCallReturns`.
* **lockout.** `FailuresKeepLock`: a failure that has read the row before another
  locked it does not shorten the lock. This holds only because the ORM writes the columns that
  changed; the variant that writes the whole row breaks it. `LockExpires`: the
  verifier opens again. What a success that overlaps a failure leaves locked or open is in
  the model, and no property is about it.
* **theft.** `WipeComplete`: a wipe that has finished has tried every step whatever
  failed, and the device is touched only after the row says so. `ActionEnds`.
* **protection.** With one verification at a time `ThreeFailuresLock` holds (it does
  not with two), `CountExact`: the cumulative count is the number of wrong guesses since
  the last success or action, `GuessesBounded`: sitting out lockouts does not buy more
  guesses than the threshold, and one more for each mismatch whose report raised or was cut
  off by a restart, `LockEarned` and `FireEarned`: neither a lock nor a wipe comes early.
  With two reporters the count is not exact: each may overwrite what the other has just
  written, and the two may act twice.
* **agent.** `OneProfileApplied`: a subsystem no running apply has reached is configured
  for the active profile, and between applies that is every subsystem, those in `loose`
  excepted. `ApplyEnds`. `Implements`: every
  step of the agent is a step of `ApplyService` or a stutter, so a module built
  on the service need not know about locks and handlers.
* **activation.** `BadgeHonest`: a clean badge means that the router's file is the row's
  content, through failed and half-reported pushes and re-created names, for one operator
  and until a factory reset takes the file (section 4, item 8).
  `MarkerConverges`: when operators stop and applies have ended, the marker settles on
  what the router has applied, if the database knows that profile.
* **surveillance.** `ActiveIsScheduled`: an active session before its deadline has its
  jobs, after restarts as well. `SessionEnds`: one past its deadline does not stay active.
  `PassesAreStored`: every pass a session counts is in its timeline, but for the scans
  somebody has deleted one by one.
* **watcher.** `LockoutsCount`: when the controller comes to remember that the screen is
  locked, the calls made for that sample have reported all the failures behind the lockout,
  whatever samples were lost, late or repeated, and across restarts. `FailuresBounded` and
  `ClearsEarned`: with samples read one at a time no failure is reported more than once for
  each of the two numbers, and the screen's locking is never taken for a success; that the
  failures of a lockout come in both numbers, and so twice, is item 3 of section 4.
  `SnapshotCatchesUp`: the poll alone repairs what pushes have left behind.
* **ssh.** `OneTrustedConnection`: no connection is left open that the object has
  forgotten, and a command only runs on the pinned host, with the auth mode in force.
  `UploadWhole`: whoever closes the connection under an upload, its target stays
  whole, as long as no `mv` of an upload given up earlier is still under way at the router.
  `EveryCallReturns`.
* **access.** `LockdownSafe`: the password goes off only on a router that accepts the stored
  key, with two requests that overlap on shared connections, failing commands, resets and
  restarts. The three cases it leaves out are those of section 4, item 9 and of the
  hazard at `settings/ssh_keys.py:221`: a router that lost its keys behind the ledger's
  back, a ledger entry written for another router, a key pair changed under a request.
* **button.** `OneChoice`: while presses do not overlap, every committer and painter can be
  found by the next press, and what is committed is what was shown, across locked
  screens, applies that outlive their committer and power cycles. `CursorRests`: the
  cursor always comes back to idle, also when presses overlap.

Each of these properties is accompanied by a faulty variant of an operation (the
definitions commented as such in the modules, listed under `mutants`) that breaks it.

Deadlock is checked in all runs.

## 4. Where code and documentation disagree

**Checked by a run.**

1. **A lockout that runs out clears the cumulative counter** (`watcher_expiry`). The header
   of `screen_lock_watcher.py` (17-19) says that nothing is reset when the window expires;
   the code reports a success whenever there were failures or a lockout and now there are
   none, and an expiry looks like that.

**Counterexamples kept with their configuration**, which can be run by hand:

2. **Three failures may leave the verifier open** (`PinLockout_count.cfg`).
   `record_failure` SELECTs the count and commits it later. Two overlapping failures
   both write one more than the same number, and three recorded failures do not lock.
3. **The failures of a lockout are reported twice** (`TouchscreenWatcher_twice.cfg`). The
   comment in `screen_lock_watcher.py` (216-219) says of the failures that were already
   counted "we don't double-count them: only the NEW exceed delta is added". That delta is the
   whole streak, those counted one by one included: three wrong PINs, each of them sampled,
   make five reports with a limit of three.
4. **A success does not always clear the cumulative counter** (`PinProtection_clears.cfg`).
   `record_success` returns early when the verifier has no lockout row, before the
   call that clears the anti-theft counter. Failures on the touchscreen stay counted.
5. **The marker may stay on a deleted profile** (`ProfileActivation_marker.cfg`).
   `set_active` keeps check and write in one session so that no DELETE lands in between,
   but SQLite begins the transaction at the write; a delete commits between SELECT and
   UPDATE.
6. **A scan may be left under a deleted session** (`Surveillance_delete.cfg`). A pass
   that is scanning when its session is cancelled and deleted stores its row
   afterwards. Foreign keys are not enforced (there is no `PRAGMA foreign_keys`), and
   the next session may get the same identifier.
7. **The lock does not serialise requests** (`SlateClient_serialized.cfg`). The docstring
   of `slate/client.py` says access goes "through a lock so the underlying client (which
   is not thread-safe by itself) stays consistent". `connect` releases the lock before the
   request starts in its worker thread; two requests run on one `GlInet` at once.
8. **A badge may claim a push that somebody else's edit has overtaken**
   (`ProfileActivation_editors.cfg`). `db/models.py:69-73` derives the badge from two
   timestamps of the row. One editor pushes, another one's edit is committed, and the stamp
   of the first push follows it. A factory reset, too, leaves every badge in sync although
   the files are gone.

**Seen while modelling**; the modules contain the behaviour, and where a property leaves it
out, its comment says so.

9. **The ledger may name a router that does not have the key**, and an adoption that
   switches passwords off trusts it, which leaves no way in. It happens after a factory
   reset of a device that is not the default one, since the reset leaves the ledger as it
   is. It also happens when another device than the default one is picked in the web
   interface: `frontend/src/api/client.ts:27-50` adds `?device=` to the key pair's routes,
   so `get_slate_ssh` answers with that device's connection, while
   `api/routes/settings.py:30-50` marks the default one.
10. **Self-healing after a re-flash** (`devices/adoption.py:66-82`) does not get through once
    the host key is pinned. The login comes before the pin is compared
    (`slate/ssh.py:217-256`), so the re-flashed router does answer "Permission denied" and
    the self-heal switches to the password; that login succeeds and then meets the key
    mismatch. The attempt leaves the shared connection in password mode, and nothing but the
    database's owner clears the pin.
11. **The SSH docstring** (`slate/ssh.py:7-15`) says that concurrent callers are
    serialised and that the host key is not verified. Commands run outside the lock, and
    the key is pinned. Two uploads to one path share one temporary file, which the module
    excludes: each caller has a target of its own. For the same reason "Original is
    preserved" (389-390) needs that no `mv` the controller has given up on is still under
    way: it would move the next upload's unfinished file.
12. **An SSH command without an exit status is a success** for `SlateSSH.run`
    (`slate/ssh.py:365-371`): a command whose connection another caller closes may return
    part of its output and status 0. The uploads compare with 0 and fail.
13. **Two presses of the button at the same time** can leave two committers and two painters,
    although `cycle-profile.sh:33-36` says that double clicks do not fire two commits and
    137-139 that one painter is alive at a time. A press that finds the screen locked, or a
    commit that aborts, does not stop the painter. With a power cycle the PID files stay
    on flash, and the cursor stays where it was.
14. **The touchscreen's failures**: after a restart the first sample counts again what was
    counted before (the header, 21-24, expects failures to be missed instead), and a poll
    and a push of the same failures count twice. A second lockout is not noticed when no
    sample of the time between the two arrives: the numbers are the same
    (`screen_lock_watcher.py:215`), although 212-213 say that the counter stays honest then.
    A status file that cannot be read looks like an unlock and clears the counter
    (`screen_lock.py:231-263`). `webhooks/dispatcher.py:8-9` and
    `webhooks/handlers.py:5-6` speak of retries that the sender does not have.
15. **The breaker** (`slate/client.py:100-103`, "every connect() fast-fails without invoking
    pyglinet at all"): one connect that is past its checks when the breaker opens logs in
    all the same.

And two comments the code does not bear out:

* the header of `slate-ctrl` speaks of the profile being applied again at boot; no script
  does that. `PowerCycle` and `Reboot` therefore leave the configuration as it is;
* the comment in `wifi-drift-watchdog.sh` (lines 28-34) takes a lock *file* for a sign
  of a running apply. `slate-ctrl` never removes the file, so its age is the time since it was last
  opened for an apply. The model follows the code.

## 5. Bounds

Bounds are constants of the runs; only the counters below are capped in the modules.

* **SlateClient**: 3 callers, 2 URLs, 3 session identifiers, `Threshold` 3 as in the
  code. One caller logs in late, another waits for the lock to follow it, and the timeouts of
  a third open the breaker; a third session identifier exists so that two old sessions may
  still be in use when a new one is opened. The proofs cover any number.
* **PinLockout**: 3 requests, 3 failures as in the code; lock and window 2 ticks each
  stand for 60 s each. Ages are capped one past the window, where every older age
  behaves alike.
* **PinProtection**: one verification at a time, which is what its properties are
  about, and the touchscreen. Threshold 4, more than a lockout, so that a guesser has to
  sit one out. The lock is one tick longer than the window: the code compares
  instants, and the SSH comparison between check and recording lets a lock end
  strictly after the window has; with equal integer lengths a tick would decide a
  tie the code never sees. `MaxLost` 2 reports may be lost in one run of guesses, so that
  more guesses than the threshold do happen.
* **AntiTheft**: 2 reporters (one reads while the other commits), threshold 3, the
  smallest the API accepts. Counts are capped at `Ceiling`, above which nothing tells them
  apart.
* **SlateCtrl**: 2 profiles, 2 applies, 2 handlers, 3 inodes. With two handlers an
  apply can be between two; two applies on two lock files need a third for the one after the
  watchdog. The proofs cover any number.
* **ProfileActivation**: 2 profiles (one template), 2 contents, 2 applies, 1 operator
  beside button and page. The violation in item 5 needs a second request, which the page
  is; the one in item 8 a second operator.
* **Surveillance**: 2 identifiers (one is reused while the other lives), 1 band, 1 operator
  beside supervisor, boot and passes. `MaxScans` 1: no scan is stored once an identifier has,
  or had, one. Counts grow by one or are reset to zero, so zero and not zero is what decides
  whether passes exceed scans; the theorem holds for every `MaxScans`.
* **TouchscreenWatcher**: the poll and one push, so that two samples overlap; 6 failures
  with a limit of 3, so that one lockout follows another, and 1 unlock. Reports are counted
  while the run is orderly, which is when the bounds speak of them. The number of samples and of
  restarts is not bounded. The proofs cover any number of pushes and any limits.
* **SshConnection**: 2 callers, 2 host keys, 3 attempts as in the code, 1 restart; a
  connection's name is used again when nobody refers to it, so two are enough for two
  callers. The network may break any number of times. The proofs cover any number.
* **DeviceAccess**: the default router and another, 2 requests (they are interchangeable,
  hence the symmetry), 2 key pairs, 1 reset per router. Restarts, failures and revocations
  are not bounded.
* **ButtonCycle**: 3 presses, so that a press may overlap another while a third one's
  committer is at work; the cycles are the empty one and one with an action and a
  profile; 1 power cycle, and any number of replacements of the cycle.

## 6. Fairness

Only liveness runs assume any.

* **Weak fairness of a request's steps** everywhere: each waits for something bounded by a
  timeout, after which it goes on with a failure. In the RPC client: 2 s for the probe, 12 s for the
  login, 10 s for a request, 5 s and more for a logout. In `slate-ctrl`, handlers end and
  the wait for the lock counts down its attempts.
* **Strong fairness of taking the lock** in `SlateClient`: `asyncio.Lock` wakes its
  waiters in order, so nobody is overtaken for ever.
* **Weak fairness of time** (`Tick`, `DeadlinePasses`).
* **Strong fairness of the supervisor's commit** in `Surveillance`: it fails when a
  delete hits the moment since its SELECT. It fires every 30 seconds, and deletes are made
  by hand; that one hits that moment every time is not assumed possible.
* **Strong fairness of a caller's steps** in `SshConnection`: waiters get the lock in
  order, and every await has a deadline after which the step is a failure.
* In `TouchscreenWatcher`, **weak fairness of the poll**, which fires every five minutes
  (`main.py:376`), and of the hooks, **strong fairness of the poll's answer**: some polls
  reach the router. Routes build the device's bundle (`Build`), without which the poll skips
  it. Pushes need not arrive. Misread files, edits of the device and restarts stop at some
  time; a controller that restarts before every poll remembers nothing.
* **Weak fairness of scripts, committers and applies** in `ButtonCycle`: processes run on, a
  committer's sleep ends and `slate-ctrl` waits half a minute for its lock at most.
* **Weak fairness of polling** in `ProfileActivation`, and of nothing else: a page is open and
  the router answers. Without a page nothing in the code moves the marker.

Operators, the button, crashes and restarts have no fairness: they may never happen. A
wipe has to end only as long as the controller does not crash in it (`ActionEnds` allows
for that), since nothing in the code resumes it.

## 7. Proofs

`tlapm M.tla` checks a module; SMT (Z3), Zenon and LS4 suffice. There is no `OMITTED`
and no axiom: what is assumed of the constants are the `ASSUME`s of the modules, which
TLC evaluates in the runs (`ConstantsAssumption`, `LockoutAssumption`,
`AntiTheftAssumption`, `CompositionAssumption`, `ApplyAssumption`, `SlateCtrlAssumption`,
`ActivationAssumption`, `ButtonAssumption`, `SurveillanceAssumption`, `WatcherAssumption`,
`SshAssumption`, `AccessAssumption`). They say that thresholds are positive and that the
special values are none of the ordinary ones. Every safety, action and refinement property
a passing run checks is a theorem. What a theorem needs beyond the assumptions stands in
its statement, as the last column says.

| Module | Theorems | For every number of | Hypotheses |
|---|---|---|---|
| `SlateClientProofs` | `TypeCorrect`, `RequestsHaveSessions`, `SessionsOnUrl`, `BreakerIsConsistent`, `SessionsNotOverwritten`, `LateLoginIsSingle` | callers, URLs, sessions, threshold | |
| `PinProtectionProofs` | `LockoutTypes`, `FailuresNeverUnlock` | requests, threshold, lengths of lock and window | |
| | `FailuresLock`, `LocksAreEarned` | threshold, lengths of lock and window | one verification; for the second `Lockout > Window` |
| | `TheftTypes`, `WipesAreComplete` | reporters, thresholds | |
| | `CountStaysExact`, `ActionsAreEarned` | thresholds, crashes, changes of the policy | one reporter |
| | `ProtectionImplements` | requests, thresholds | |
| | `GuessesStayBounded`, `VerifierIsExact` | thresholds, lengths | one verification; for the second `Lockout > Window` |
| `SlateCtrlProofs` | `AgentTypes`, `AgentKeepsOneProfile`, `AgentImplementsService` | profiles, handlers, applies, lock files | |
| `AgentUsersProofs` | `ActivationTypes`, `BadgeStaysHonest` | profiles, contents, applies | one operator for the second |
| | `ChoiceIsOne` | presses, cycles and their lengths, actions, power cycles | |
| `SurveillanceProofs` | `SessionTypes`, `CountedPassesAreStored` | sessions, bands, operators, scans | |
| | `ActiveStaysScheduled` | sessions, bands, scans, restarts | one operator |
| `TouchscreenWatcherProofs` | `WatcherTypes`, `WatcherBalance`, `FailuresAreBounded`, `LockoutsAreCounted`, `ClearsAreEarned` | pushes, limits, failures | |
| `SshConnectionProofs` | `SshInvariant`, `ConnectionIsTrusted`, `UploadsStayWhole` | callers, host keys, connections, attempts, restarts | |
| `DeviceAccessProofs` | `AccessInvariant`, `LockdownIsSafe` | routers, requests, key pairs, resets | |

The hypotheses are not for the sake of the proofs. An UPDATE writes what its session has
read earlier, so two failures at the same time may be counted as one (hazards at
`security/pin_lockout.py` and `security/anti_theft.py`), and two operators may edit and
push the same profile, or end and start the same session: with two of them the properties
are false. `Lockout > Window` is the code's choice of constants (section 5): a lock that
ended inside the window would find its old failures still counting.

The inductive invariants, and what the properties alone lack:

* **SlateClient.** `SafetyInv` adds `LockDiscipline`, a coroutine suspended inside the
  lock is its holder, and `NoSessionDuringLogin`: from the logout of a stale session
  to the end of the login there is no current session. Without the second, a login
  could finish over a session that somebody else has made; without the first,
  somebody else could. `SessionsNotOverwritten` follows from the same invariant.
  `LateLoginIsSingle` adds `LateLoginIsLast`: once a login has been begun with the breaker
  open, nobody is on the way to another one under the lock until it closes.
* **PinLockout.** `FailuresKeepLock` compares a state with the next, so it needs no
  invariant but types: a failure either writes the longest lock there is or leaves
  the column alone. What one verification alone achieves rests on `SeenCurrent`: what it
  has SELECTed is still the row. With `NothingMissed`, no failure of the streak is missing
  from `failed_count`, three failures lock. That a lock is earned needs the other bound,
  `ExactInWindow`; the count is exact there because a lock leaves the window behind it
  (`LockOutlastsWindow`) and is set by no request that passed the check before
  (`PastTheCheck`).
* **AntiTheft.** `TriedInOrder`: the tried steps are an initial part of the sequence, and
  the last one ends the wipe. That makes "ended" mean "all tried". `SoloInv` is for one
  reporter: nobody else is at work, and the total it has read is the total of the row, which
  changes of the policy and crashes leave true.
* **PinProtection.** `ProtectionImplements`: the composition's steps are steps of the
  lockout and of the service or stutters, so what was proved of each holds of both. The
  bound on guesses needs the composition itself: `GuessInv` says that guesses are the
  service's total, those it has lost, and one more while a recorded mismatch is on its way to
  it (`Pending`), and that the total between reports stays below the threshold.
* **SlateCtrl.** `OneProfileApplied` is about what no running apply has reached. `LockExcludes`
  (two running applies hold different lock files), `HandlersDone` (the subsystems behind an
  apply's position have its profile, or are in `loose`) and `WantedWhileAlive` carry
  it through an apply. An apply whose lock file was taken away has put into `loose`
  what is no longer protected; this is the case in which two run at once.
* **ProfileActivation.** `CarriedCurrent`: a request about to push carries the row's
  content, and one about to stamp has left it on the router. It is false with two
  operators, which is why `BadgeStaysHonest` assumes that there is one; the
  assumption is in the theorem and not in the module.
* **ButtonCycle.** `ChoiceInv`, while presses have not overlapped: one script runs at a
  time (`OnePress`); between the kill of the pending committer and the start of its own
  no committer is left (`OneCommitter`), and between the end of the painter and its own no
  painter (`OnePainter`); and until it is committed, what the cursor points at is what the
  press has shown (`ChoiceShown`), since only that press or its committer moves the cursor.
  `OneChoice` alone does not say who could still move it.
* **Surveillance.** `PassesAreStored` is inductive with the types and the bound on stored
  and deleted scans (`Bounded`). A scan deleted alone moves from one side of its sum to the
  other; the step that needs an argument is a commit of the supervisor or of `register_all`, which must not bring a
  deleted row back with its old count. `ActiveIsScheduled` speaks of the time after
  `register_all`; `ScheduledOnceRegistered` carries it from its SELECT on: a session has
  its jobs, or is among the rows that were found and is scheduled next. And
  `EndedBeforeRemoval`: a request takes jobs away only from a session it has ended.
* **TouchscreenWatcher.** The properties compare what was reported with what was typed,
  while samples are on their way. `WatcherBalance` is the sum that stays bounded: what was
  reported, what the samples under way will still report, and what no sample has shown
  yet; there is one such sum for each of the two numbers and one for the successes, and they
  need one sample at a time (`orderly`). `LockoutsCount` rests on `Pending` without that
  condition: what a sample with a lockout has reported and still will is the whole streak.
* **DeviceAccess.** The check before the lockdown does not carry the argument, because
  another request may have put the shared connection back on the password. `AccessInv`
  is about what was done before it: a request about to push holds the stored key
  (`PushesStoredKey`), one that has pushed or looked into the ledger knows it on the
  router (`PushedBeforeLockdown`), and the ledger is true (`LedgerTrue`), all unless the
  key pair was changed under a request (`rekeyed`) or the router is in `unsure`.
* **SshConnection.** `SInv` adds `Opening`, who opens a connection holds the lock and what
  it opens is known to nobody else; `Using`, what is up and in use is current and was
  opened under the pin and mode in force; and `Files`, only a whole file is moved.

`AgentImplementsService` has the usual two parts, `ServiceInit` and `ServiceStep`: the push
is a push, the beginning of an apply an invocation, the write of the active file a
completion, the timeout of the lock a give-up, and handlers, locking, `apply-only` and the
watchdog are stutters.

**Only model-checked**: liveness (`LockExpires`, `ActionEnds`, `ApplyEnds`,
`MarkerConverges`, `SessionEnds`, `SnapshotCatchesUp`, `CursorRests` and the
`EveryCallReturns` of both clients), since fairness and `ENABLED` are out of the prover's
reach.

## 8. What is not modelled

* **Data.** The contents of profiles, UCI settings, scans, menus, wallpapers, scores;
  how catalogs are rendered into a pushed profile. A profile is a name and a content.
* **Read-only operations**, which change no state the properties see.
* **Sequences without state of their own**: firewall, DNS, AdGuard Home, Tor, Tailscale
  administration, radio configuration, hardening. Each is a list of commands whose truth
  is on the router.
* **The direct profile applier**, the fallback when the agent does not answer.
  `ProfileActivation` ends the activation there: it leaves the router's active file alone.
* **The lock's afterlife.** Children that `slate-ctrl` leaves in the background inherit
  its descriptor and keep the lock for a few seconds after it ends. The model frees the lock at the
  end, which is the earlier of the two.
* **The button inside `ProfileActivation`** is its commit only (`PressButton`); the cursor,
  the committer and the painter are in `ButtonCycle`. What a frame shows is the step the
  press has read: frames that are pushed after `cycle.json` may show an older one.
* **Transactions on the key pair** are one step each in `DeviceAccess`; `mark_deployed`
  writes back a metadata document it read before (`settings/ssh_keys.py:221`), so that a
  key pair stored in between keeps the old public key.
* **The registry's invalidation**: a task that still holds a bundle reconnects it with the
  old credentials beside the new one (`devices/registry.py:150`). **Device rows**: two
  requests that each set another default may leave two (`devices/store.py:183`).
* **The URL resolver's cache**: a probe in flight makes a URL trusted again that has just
  failed (`slate/url_resolver.py:147`).
* **The exit-node watchdog**: it switches although it was disabled during the status command
  (`tailscale/ha_watchdog.py:97`), may compare a host name with an address and so switch at
  every tick (line 55), and reads and writes one document beside the routes
  (`tailscale/ha_store.py:134`).
* **Packet captures**: a row without a PID stays planned for ever
  (`wifi/pcap_capture.py:152`); a stop overwrites a completion (line 324). **Fortinet**: two
  connects share one PID file (`vpn/fortinet/manager.py:296`).
* **Ambient scans**: jobs come back for a row just disabled
  (`scheduler/ambient_scan.py:77`), `run_now` overlaps the job (line 135).
* **Webhook secrets**: a second rotation within the grace period drops the secret the router
  may still use (`webhooks/auth.py:108`).
* Hazards the modules contain without a property that would exclude them, because nothing
  in the code promises more: two reporters that overwrite each other's count
  (`security/anti_theft.py:131`); a wipe that a crash interrupts is not resumed
  (`security/anti_theft.py:146`); a request that times out late drops a newer session
  (`slate/client.py:398`); `apply-only` without the lock (`slate-ctrl:205`); jobs
  of a session that was cancelled before they were scheduled, and a supervisor that is not
  scheduled when registration fails (`scheduler/surveillance.py:170`, `:121`).
* **Cryptography, sessions of the web interface, certificates.**

## 9. Plan

Done, what protects the device and the network first: `SlateClient`; `PinLockout`,
`AntiTheft`, `PinProtection`, `TouchscreenWatcher`; `ApplyService`, `SlateCtrl`,
`ProfileActivation`, `ButtonCycle`; `Surveillance`; `SshConnection`, `DeviceAccess`; and
the proofs of section 7.

Modules worth adding: the exit-node watchdog on its JSON document; the registry with the URL
resolver's cache; packet captures and Fortinet, whose rows and processes outlive each
other; ambient scans as a variation of `Surveillance`; the rotation of webhook secrets.

Proofs worth adding: what the liveness properties rest on, as far as it is safety: that
whoever waits for the lock of the RPC client, the SSH connection or the agent waits for
somebody who is at work, and that each attempt of a retry leaves fewer of them; and
the properties of one operator for several whose requests are about different rows.
