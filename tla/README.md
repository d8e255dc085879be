# Kepler Node: TLA+ specifications

Kepler Node (`src/src/kepler_node`) is an agent that runs beside an
INDI/Ekos observatory on a Raspberry Pi. It either runs an observing session
itself (calibrate, center, capture, judge, recover) or supervises one that Ekos
runs and takes the devices over for short interventions. This directory holds
TLA+ models of that program, the TLC configurations that check them, and
proofs checked by TLAPS. Paths are relative to the repository, which is mounted
as `src/`; `claw.py`, `app.py`, ... are in `src/src/kepler_node/...`.

Contents: 1 the system, 2 the modules, 3 the runs, 4 fairness, 5 assumptions
and abstractions, 6 the proofs, 7 where the code and its documentation
disagree, 8 not modelled, 9 plan, 10 running it.

---

## 1. The system

### 1.1 Components

| Component | Source | State | Operations |
|---|---|---|---|
| Runtime session | `agent/session.py` | state (19 values), workflow intent, control lock, resume context, terminal outcome, session id, retry counters, intervention ledger | `enter_*`, `pause`, `stop`, `fail`, `release_control`, `acknowledge_complete`, `clear_failure`; the ledger's `open_intervention`, `close_intervention`, `is_retry_exhausted` |
| Supervised session, control handoff | `agent/claw.py`, `agent/ekos.py` | the session, `_intervention_window` (closed, requested, open, releasing) | attach, advance, pause, begin/complete intervention, confirm, resume, stop, release, complete, acknowledge |
| Managed run | `agent/claw.py` | the session, staged target, `calibration_accepted`, five retry counters | `run_calibrate`, `run_target_centering`, `run_verification_loop`, `capture_one_frame`, `evaluate_guard`, `recover`, `connect` |
| Activity feed, authorship | `agent/claw.py`, `agent/authorship.py`, `mount/indi.py` | pending events of each adapter, recent own commands, time of the last significant activity | record, drain, `check_and_handle_conflicts`, `confirm_ekos_paused`, `poll_mount_observation` |
| Camera path | `agent/claw.py`, `agent/broker.py` | `_camera_io_lock`, the broker's driver profile | `camera_keepalive`, `recover_camera_session`, `run_focus_calibration` |
| gphoto2 adapter | `camera/gphoto2.py` | connected flag; on the body: stored frames, announced transfers | `capture`, transfer drain, `recover_stuck_camera_files`, `connect`, focus moves |
| Frame watcher, quality | `imaging/watcher.py`, `imaging/frame_quality.py`, `app.py` | files seen, rolling window of results | poll, analyze, recommend, `observe_landed_frame` |
| Fuji focus assist | `camera/fuji_focus_assist.py`, `camera/gphoto2.py` | lens position, samples of a sweep | assist, range calibration |
| Storage, profiles | `storage/`, `agent/claw.py`, `api/app.py` | a file per profile, one of them the default; the active profile in memory; the focus driver's runtime file | create, replace, select, calibrate, `discover` at boot |
| Node management | `agent/node_management.py` | trusted-time confirmation | time, disk, services, shutdown |
| HTTP API, loops | `api/app.py` | the controller; four background tasks | endpoints; keepalive, Ekos, mount and frame-watcher loops |
| Mount adapter | `mount/indi.py` | slew in progress, pending events | slew, sync, poll |
| Solver, verification imaging | `imaging/astrometry.py`, `imaging/verification.py`, `imaging/ingestion.py` | none | solve, residual |
| UI, CLI | `ui/`, `cli.py` | none of their own | HTTP calls |
| Scripts | `upgrade.sh`, `bootstrap.sh`, `scripts/` | install manifest, services | install, upgrade, deploy |
| INDI side | `indi/` | move in progress, child process | focus bridge, CCD driver patch |

### 1.2 How they interact

- **Threads.** FastAPI runs the synchronous endpoints in a thread pool; the
  background loops are tasks of the event loop (`app.py:523-528`). They share
  one `ClawController` and one `RuntimeSession`. The session has **no lock**.
  The only lock is `_camera_io_lock`, taken by the keepalive, camera recovery,
  focus calibration and the two focus-assist endpoints, but not by captures.
- **Ekos** is reached over DBus; a pause or resume request is accepted or not,
  and its effect shows up later in the status. Ekos also obeys its own operator.
- **The broker** (indiserver manager) starts and stops the driver profile.
- **Devices** are reached by subprocesses (gphoto2, indi_setprop, solve-field),
  each with a time-out.
- **A driver** calls the controller's long methods one after another. The
  docstring of `ClawController` names "API layer, CLI, or test". `POST /session/start`
  runs the first verification loop in its thread of the pool (`app.py:1658`), which
  the other requests may interrupt; only the tests call recovery, capture and guard
  in sequence, and `app.py` runs the guard on watched frames.
- **gphoto2** is a program started for each operation; the body keeps what was not
  downloaded, and a half-open transfer, across the end of the process.
- **Profiles** are plain files, written without a lock or a rename.

### 1.3 What is hard

Handlers read the session, wait for a remote answer and then write without
looking again. A request may be accepted and carried out late, or never.
Ownership of the devices is inferred from that. Own activity is told from
foreign activity by time stamps read long after the fact. Several methods retry
with counters that other methods reset. The camera lock is given up in the
middle of a recovery while a loop polls. Frames are judged by a window that
must follow the session although an analysis runs in a thread. Frames are fetched and
deleted by index, and found by name, on a camera that announces them late. The default
profile is moved in several writes that a restart may come between.
`PROJECT.json` lists each hazard at its line with the properties that address it.

### 1.4 What makes each part correct

| Part | Correct when |
|---|---|
| Handoff | at most one party owns the devices; ownership moves only by a confirmed handover; an ended session owns nothing; a paused one can be resumed; an intervention is recorded and ends |
| Managed run | frames are taken only calibrated and locked; the mount moves a bounded number of times; every call returns; every end releases everything |
| Activity feed | own motion is not taken for foreign; foreign motion stops frames |
| Camera path | one user of the camera; a successful recovery has restored the profile; every request ends |
| Camera transfer | no frame is deleted that is not saved; no exposure is delivered twice; a finished recovery leaves nothing it listed |
| Frame watch | a frame is judged among frames of its own session; clouds pause, a clear sky does not; no frame is lost |
| Focus assist | a success is really sharper; a failed search changes nothing; a reported range is safe |
| Profiles | at most one default; memory, disk and focus driver agree; a boot comes up with one known profile |

---

## 2. The modules

| Module | Models | Uses |
|---|---|---|
| `KeplerSession` | the session record and its transitions, as operators | |
| `InterventionLedger` | the ledger: counts of records per kind, open records, the active kind | |
| `DeviceSemaphore` | **abstract**: who holds the device path (none, ekos, handover, kepler) | |
| `ControlHandoff` | the supervised session, every handler split where it waits | `KeplerSession`, `InterventionLedger`; implements `DeviceSemaphore` |
| `ControlHandoff_proofs` | 8 theorems for all constants, two of them about overlapping requests | `ControlHandoff` |
| `ManagedRun` | the managed run and the operator beside it | `KeplerSession` |
| `ManagedRun_proofs` | 5 theorems for all budgets | `ManagedRun` |
| `ActivityFeed` | event queues, authorship window, settle test | |
| `ActivityFeed_proofs` | 3 theorems for all windows, time-outs and positions | `ActivityFeed` |
| `CameraPath` | keepalive, recovery, focus calibration around the lock | `KeplerSession` |
| `CameraPath_proofs` | 3 theorems | `CameraPath` |
| `FrameQuality` | classification and recommendation, as operators | |
| `FrameWatch` | files, watcher, rolling window, guard | `KeplerSession`, `FrameQuality` |
| `MCFrameWatch` | two skies for TLC | `FrameWatch` |
| `FrameWatch_proofs` | 5 theorems about every window, 3 about the watcher | `FrameWatch` |
| `FocusAssist` | sweep, choice and return; range calibration | |
| `FocusAssist_proofs` | 5 theorems for every lens, range and step | `FocusAssist` |
| `CameraTransfer` | captures, drains, recoveries and connects, one gphoto2 run at a time, and the body | |
| `CameraTransfer_proofs` | 4 theorems for any number of exposures | `CameraTransfer` |
| `EquipmentProfiles` | profile files, the active profile, the focus driver's file, requests split at their writes | |
| `EquipmentProfiles_proofs` | 4 theorems for any profiles | `EquipmentProfiles` |

Names follow the source where TLA+ allows it. The record of `KeplerSession` keeps
only fields that control decisions read: `session_id` becomes `managed` (assigned
or not), `resume_context` becomes `ctx`.

### 2.1 ControlHandoff

State: `session`, `ledger`, `window`, what Ekos and the broker report, and
`call[c]`, the handler that client `c` is in the middle of with what it read
before it waited. A handler is one action if it waits for nothing before it
writes what matters (`Stop`, `ReleaseControl`, `Fail`, `CompleteSupervised`,
`AcknowledgeComplete`, `ClearFailure`), and otherwise `XStart`, then one action
per answer:

| Code | Actions |
|---|---|
| `attach_session` | `AttachStart`, `AttachCommit` / `AttachRefused` / `AttachUnrecorded` (the record cannot be written) |
| `advance_ekos_wait` | `AdvanceStart`, `AdvanceCommit` |
| `pause`, conflict pause, exhausted budget | `PauseStart`, `ConflictStart`, `BeginExhausted`, then `PauseCommit` |
| `begin_intervention` | `BeginStart`, `BeginSend`, `BeginConfirm` (the reading), `BeginOpen` (the window) / `BeginUnconfirmed` (at either) |
| `complete_intervention` | `CompleteStart`, `CompleteSend` / `CompleteSendFails`, `CompleteConfirm` / `CompleteUnconfirmed` |
| `confirm_ekos_paused` while paused | `ConfirmStart`, `ConfirmRead`, `ConfirmOpen` / `ConfirmRefused` (at either) |
| `resume` | `ResumeStart`, `ResumeCheck` / `ResumeRefused`, `ResumeSend` / `ResumeSendFails`, `ResumeConfirm` / `ResumeUnconfirmed` |

`EkosMoves` and `BrokerMoves` let Ekos and the broker change on their own
between any two steps. A pause request may be lost or ignored (every caller
ignores its result); an accepted resume takes effect at once, later or never.
`confirm_ekos_paused` reads Ekos PAUSED, then drains the activity queues, which polls the
mount by a subprocess with a time-out of 5 s, and only then opens the window
(`claw.py:2673-2704`): Ekos can have resumed when it opens. The history variable `yielded`
records whether Ekos has been paused since this handover began; no guard reads it.

A client is a thread of the pool. `SerialSpec` starts a request only when none is in
flight, `ThreadedSpec` at any time; each has its theorems (6.1).

Refinement: `owner` is "none" without the control lock, "kepler" with an open
window, "ekos" with a closed one, "handover" in between, and
`Semaphore == INSTANCE DeviceSemaphore WITH holder <- owner`. `ImplementsSemaphore`
says that every step of the handoff is a step of `DeviceSemaphore` or leaves
`owner` alone: the path never passes from Ekos to Kepler directly.

### 2.2 ManagedRun

The driver's call is `worker`: what it waits for. Each method of the controller is
split at the camera, the solver, the mount, the settle sleep, the back-off sleep and
`connect`. `DriverCalls` are the calls the session's state asks for, `DeviceAnswers`
the answers, `OperatorAsks` the HTTP requests. The five budgets are constants, run
with the code's own values (`claw.py:127-132`).

### 2.3 ActivityFeed

Time is `Tick`, which ages the queued events, the recorded commands and the last
significant activity. A command is recorded, carried out, and noted by the adapter
in separate steps (`OrderVerification`/`OrderFrame`, `SlewMoves`, `SlewNoted`, ...)
because the observation loop may poll between any two of them. `Guard`,
`OrderFrame` and `Confirm` drain the queues in the code's order: mount, then camera.

### 2.4 CameraPath

`jobs[part].step` is where each of keepalive, recovery and focus calibration
stands; `prev` is the session state it read when it began. Recovery holds the lock
in two rounds (`RecoveryLock`, `RecoveryLockAgain`); the keepalive may run between
them. Stopping or starting the profile may raise before or after its effect.

### 2.5 FrameQuality and FrameWatch

A measurement is four numbers; `Analyze` is the analyzer, `Recommendation` the
session's trend test in the code's order. A ratio of means such as
`recent/3 < 0.5 * early/3` is written on integers, cross-multiplied. `FrameWatch`
adds the directory (absent, partial, whole), the poll, the retry of files that
fail to load, the loop's `last_session_id`, and the guard.

### 2.6 FocusAssist

Assist: a coarse sweep of five clamped, deduplicated positions, the best sample,
a fine sweep round it, the best again, a test for improvement, the move back or
to the best. Calibration: low stop, high stop, working range, restore. `drift` is
how far the mounted lens settles from its target: every decision is made on the
position that is read back.

### 2.7 CameraTransfer

The body is `store` (exposed and not downloaded, in listing order), `announced` (a
transfer is open, so that every exposure and setting fails) and `mode`. A failed or
killed exposure may leave a frame behind, announced at once or later (`BodyAnnounces`).
`capture()` is `CaptureStart`, `ShotDownloaded` / `ShotFails` / `ShotTimesOut`, and
after a failure `DrainFinds` / `DrainFindsNothing`; `Match` is the glob for the
capture's name. `recover_stuck_camera_files()` drains, lists, and then gets and deletes
each entry by its index (`RecoveryGets`, `RecoveryDeletes`); `RecoveryRaises` may happen
at each of these. `connect()` drains into a directory that is thrown away and writes the
first settings. `Crash` ends the process at any step. `capture_one_frame()` tries a light
that failed once more with the same request, that is, the same file name
(`claw.py:1562`): `attempt` is the frame that a light which was not returned left under its
name, and a retry may find it. Verification frames all have one name.

### 2.8 EquipmentProfiles

`files` are the documents on disk, `active` the object in memory, `runtime` the focus
driver's file. A document is its flag, what only the operator configures, its optics (focal
length, names of camera and lens) and its calibration. `request[c]` is what a client is in
the middle of: `clear` (the flag leaves the other files, one by one), `write`, `activate`,
`project`, `ensure` (an automatic calibration), `sweep`, `reproject` (an automatic one that
failed) and `settle`. Each write of a profile or of the driver's file may fail or be cut off
(`Torn`), `Restart` may come between any two steps and in the middle of a write.

A calibration writes back the document it finds in memory, with the flag it was read with
(`claw.py:385`), and takes the default from the profile that the operator has chosen since.
It overwrites the optics and leaves `calibration_accepted` alone (376-383); an automatic
calibration assumes the focal length in memory before it knows whether it may run (321-324,
`FocalLengthAssumed`). `chosen` is history: `id` is what the operator last made the default,
`taken` the profile whose calibration has taken the flag since, `Holder` the one a boot
must find. It is dropped when the operator takes the flag away and when a restart cuts a
move of the flag short; a stale flag does not drop it.

---
## 3. The runs

"Pass" runs check that the properties hold; "violation" runs check one statement
that a comment, docstring or constant of the code makes and the code does not
keep (section 7). Times are for two workers.

| Run | Module, specification | Bounds | States | Shows |
|---|---|---|---|---|
| `handoff` | `ControlHandoff`, `FairSpec` | 2 kinds, retry budget 2 (the code's), 1 client | 118,120 (32 s) | ends are clean, window and session agree, the ledger records the intervention, handovers rest on what Ekos did; implements `DeviceSemaphore`; an intervention ends |
| `handoff_resume_lockout` | `ControlHandoff`, `FairSpec` | 1 kind, budget 1 | violation | a resume accepted late cannot be completed |
| `managed` | `ManagedRun`, `SerialSpec` | budgets 3, 5, 3, 3, 3 (the code's) | 177,906 (15 s) | clean ends, the verification loop's intents, frames only when calibrated and locked, bounded motion, every call returns |
| `managed_stop` | `ManagedRun`, `ThreadedSpec` | the same | violation | a stop during a device call is overwritten |
| `activity` | `ActivityFeed` | tick 10 s: window 3, settle 1, command 2; 1 position, queues of 2 | 1,380,652 (40 s) | own motion is recognized, a foreign slew stops frames |
| `camera` | `CameraPath` | none needed | 11,830 (5 s) | one user of the camera, success restores the profile, requests end |
| `frames` | `MCFrameWatch` | window 6, 2 names, 1 unreadable, 2 sessions, 2 skies, 3 bad frames | 715,498 (85 s) | frames are judged among their own, a clear sky goes on, every readable frame is observed |
| `focus` | `FocusAssist` | 7 positions, steps 2 and 0 or 1, 3 radii and no stars, drift 0 or 1 | 195,986 (10 s) | a success is sharper, an inconclusive search returns, the baseline is swept, a reported range is safe |
| `transfer` | `CameraTransfer` | 3 exposures, `Overlap` FALSE | 375,987 (11 s) | what recovery deletes is saved under its name, no exposure becomes two lights, a finished recovery leaves nothing it listed |
| `transfer_stale` | `CameraTransfer` | 2 exposures | violation | a failed verification capture returns the frame before it |
| `profiles` | `EquipmentProfiles` | 2 profiles, 2 configurations, 1 optics or none, 2 ranges, 1 client, `OneFailure` | 2,255,546 (60 s) | one default at most, memory agrees with disk and driver, a boot comes up with the chosen profile or with the one whose calibration took the flag back |
| `profiles_select` | `EquipmentProfiles` | 1 profile | violation | selecting a profile does not end the pause that asks for it |

Why the bounds are enough:

- **handoff**: the active kind and one other tell every branch of the ledger;
  with the budget 2 a kind is tried, tried again and exhausted. One client is
  no restriction of `SerialSpec`: only one handler is in flight. The proofs
  (section 6) hold for all kinds, clients and budgets. The
  budget also bounds the ledger's counts, so the state space is finite without a
  further bound. One run does both safety and liveness, hence no symmetry.
- **managed**: the budgets are the program's. The counters that are only compared
  (`badFrames`, `reconnects`) saturate at or just past their bound.
- **activity**: ages saturate at `Settled` and `Expired`, beyond which no comparison
  of the code tells them apart; window, settle time and the two time-outs keep their
  order and ratio. Queues of two hold an own event beside a foreign one.
  With one position, own commands never mismatch in coordinates.
- **camera**: the state space is finite as it is. `CHECK_DEADLOCK FALSE` because a
  focus calibration whose last `start_profile` raises leaves the session in CALIBRATE
  with the lock and without an id (`claw.py:436`): no request and no loop moves it.
- **frames**: six frames are the shortest window whose first and last three do not
  overlap; two names give a poll with a file before another one; two ids give a
  change of session in mid-analysis. A name is used again when its file is gone.
- **focus**: seven positions let the start lie at, next to, inside and outside the
  range `FocusMin..FocusMax`, and make the coarse positions clamp and coincide.
  95, 96 and 100 are just enough, just not enough and no improvement of 5%.
- **transfer**: three exposures give a listing of two beside a frame that is taken or
  drained meanwhile, and one that is dealt with at each side of a failed one. With four
  the same properties hold (4,163,472 states, a minute).
- **profiles**: `OneFailure` is the only state constraint of the project. The properties are
  about a disk that works, so a request in which a write fails is followed to its end
  and no further; restarts, which may cut any write off, are not bounded. Two profiles are
  needed for a flag to be moved, two configurations and two ranges for a document to be
  older than another; one optics, besides none, is enough for a memory that is ahead of its
  file (that a calibration replaces one optics by another is left to the proof). A third
  profile adds only more files to clear, each on its own.

Every property has a faulty variant of the code (`PROJECT.json`, "mutants"): a
dropped guard, a missing reset, a swapped order. With the variant in place
of the definition TLC finds the property violated. The faulty variants stand
next to the definitions they replace and are marked as such.

---

## 4. Fairness

| Specification | Assumes | Because |
|---|---|---|
| `ControlHandoff!SerialSpec`, `ThreadedSpec` | nothing | safety; the proofs are about them |
| `ControlHandoff!FairSpec` | `SerialSpec` with WF of every answer and of Ekos finishing a resume, SF of a retried `complete_intervention()` and `resume()` and of an accepted request taking effect | DBus calls return or time out; the docstrings ask the caller to try again |
| `ManagedRun!SerialSpec` | WF of `DeviceAnswers` | every subprocess has a time-out, sleeps end |
| `CameraPath!Spec` | WF of the keepalive, SF of recovery and of focus calibration | device calls return; Python's lock is not fair, but the loop sleeps between two probes, so a waiter that finds the lock free again and again gets it |
| `FrameWatch!Spec` | WF of the loop and of finishing a readable file; SF of loading one that is tried again and again | the loop has no exit; a file that Ekos began is closed; a decode fails only while the file is written |

`FairSpec` asks of Ekos only that it carries out what it accepted, and accepts in the end
what is asked again and again; otherwise Ekos and the broker do as they please.
`InterventionEnds` and `ResumeCompletes` are stated for behaviours that are, from some
point on, `Cooperative`: nobody else disturbs Ekos, no foreign motion is seen, Ekos is
paused, resuming or running and the broker is ready. An Ekos that ignores every request
can keep an intervention open for ever, and the code can do nothing about it.

`ActivityFeed`, `FocusAssist`, `CameraTransfer` and `EquipmentProfiles` state no liveness
property.

---

## 5. Assumptions and abstractions

- **One request at a time** in `handoff`, `camera` and `profiles`, and no recovery or
  connect beside a capture in `transfer` (`Overlap` FALSE): the UI waits for an answer
  and the driver is one loop, but nothing in the code enforces it. Under this assumption
  what a handler read before it waited still holds when it writes, whatever Ekos and the
  broker did: the runs say nothing about check-then-write races between two requests.
  Those are real: two overlapping begins spend the retry budget twice (`claw.py:3009`), a
  pause that waits for Ekos while a stop runs writes PAUSED over COMPLETED (`app.py:1074`),
  a resume installs a target that has been replaced (`claw.py:2003`). `managed_stop` shows
  the like for the managed run; 6.1 proves what is left of the budget and of the lock when
  requests overlap. Section 7 tells what two clients do to the default flag and a capture
  to a recovery.
- `ControlHandoff` leaves out the pauses by `camera_keepalive()` (`claw.py:827-832`, which
  also pauses a ready, unlocked or already paused session) and by
  `recover_camera_session()` (939-944, 977-983), with the state they found as the resume
  target. They are in `CameraPath`. `EndedMeansReleased`, `PausedIffResumable` and
  `ResumesActive` are about sessions that neither of them has paused.
- The keepalive is synchronous on the event loop, so it runs once at a time.
- Readiness (storage, power, trusted time, active profile) is "may refuse".
- Events and session records a handler writes are left out, except where writing
  them can fail and decide something (`AttachUnrecorded`, `StartUnrecorded`,
  `ExposeUnwritable`).
- A target is staged or not; a solve fails, or is within tolerance or not.
- In `ActivityFeed` a `Tick` is 10 s; `control` stands for the session.
- In `FrameWatch` the guard is one step, as on the event loop; a driver's exposure
  at the same time is not composed with it (section 9).
- `FocusAssist` keeps of the samples the baseline and the best of each sweep; star
  count and gradient only break ties. The CLI runs the same code in a process of
  its own, without the lock.
- In `CameraTransfer` the body is external, modelled from what the comments and docstrings
  of the adapter say of it: a listing in one folder, numbered from one, that closes up
  after a deletion; a frame that may be announced at any time; a reset after which
  transfers may be forgotten. An exposure is one file. The frames of one recovery's drain
  go to `recovered-pending-` and are not kept apart. Lights have names of their own, none a
  prefix of another, but for the one retry of a light that raised. The option, off by default,
  that lets `connect()` set its flag for a focus-assist surface (677-687) is left out.
- In `EquipmentProfiles` a document is its flag, a configuration and a calibration, and
  every profile is of a Fuji camera with one lens. Properties that speak of `diskFailed`
  are about runs without a failed write that the process survived; files cut off by a
  restart are included. `accepted.config` is what the operator configured when the
  calibration was accepted; that the optics under it may have been overwritten since is
  not held against it (section 7).

---

## 6. The proofs

Every safety invariant and every action property of the passing runs, and the refinement,
is a theorem for all values of the constants that the modules' assumptions admit. The runs
check the same on small instances; they came first, and so did a check of each inductive
invariant. Each component has its own module of proofs:

| Section | Inductive invariant | Hypothesis beside the assumptions |
|---|---|---|
| 6.1 `ControlHandoff` | `IInv`; `ThreadInv /\ BudgetInv` | `SerialSpec`: one request at a time; none for the last two theorems |
| 6.2 `ManagedRun` | `TInv`, `TInv /\ SInv` | none for types and motion; `SerialSpec` for the rest |
| 6.3 `CameraPath` | `IInv` | `Spec`: one recovery or focus calibration at a time |
| 6.4 `CameraTransfer` | `TInv`, `TInv /\ SInv` | none for types and lights; `~Overlap` for recovery |
| 6.5 `EquipmentProfiles` | `WInv`, `WInv /\ SInv` | none for types; `[]OneInFlight` for the rest |
| 6.6 `FocusAssist` | `IInv` | none |
| 6.7 `ActivityFeed` | `IInv` | none |
| 6.8 `FrameWatch` | `IInv` | none |

Where a hypothesis is named the code does not ensure it, and without it the property
may fail: section 7 tells how.

### 6.1 ControlHandoff

`ControlHandoff_proofs` proves, under `MaxRetriesAssumption` (a natural number) and
`KindsAssumption` (no kind is "no kind"), for every set of kinds and every finite set of
clients:

| Theorem | States |
|---|---|
| `TypeCorrect` | `SerialSpec => []TypeOK` |
| `SessionsEndClean` | `SerialSpec => [](EndedMeansReleased /\ PausedIffResumable)` |
| `WindowAgrees` | `SerialSpec => []WindowMatchesSession` |
| `LedgerFaithful` | `SerialSpec => []InterventionIsRecorded` |
| `HandoversConfirmed` | `SerialSpec => HandoverConfirmed` |
| `HandoffImplementsSemaphore` | `SerialSpec => ImplementsSemaphore` |
| `OverlapOverspends` | `ThreadedSpec`: a kind is attempted at most `MaxRetries` times plus once for every client beyond the first |
| `AtRestWithoutLock` | `ThreadedSpec`: a session that has ended or is ready does not hold the control lock |

**One request at a time.** The argument is one inductive invariant, `IInv`. None of the
safety invariants is inductive: each handler writes after a wait what it decided before
it. `IInv` adds

- `OneInFlight`: at most one handler is in flight, and an idle client carries nothing;
- `InFlightStillValid`: session, window and resume context are as the handler read them.
  It follows from `OneInFlight` alone and is a step of the proof, not a result: it carries
  the guard of each `XStart` to the write of `XCommit`;
- `ResumesActive`: a stored resume target is an executing state. It is so because the
  pauses of ready and paused sessions are not in this module (section 5);
- `WindowPhase`: `WindowMatchesSession` extended to the states in which a handler is
  in flight: only one at `begin_confirm` or `begin_settle` has a handover under way in
  another state.

There is one lemma per action (it preserves `IInv`), on top of lemmas about the calls
(`ReturnLeavesAllFree`, `WaitStaysAlone`, `StartPreserves`) and the ledger
(`OpenCounts`, `OpenStaysTyped`, `CloseKeepsAttempts`). `HandoverConfirmed` needs the
history besides: `SettlesOnEvidence` says that a handler at one of the two settle steps
has Ekos's pause in `yielded` (`Evidence`). The refinement follows from `IInv` and the
actions: `SameOwner`, `NoOwner` and their neighbours say how `owner` moves, and each
action is assigned to one of them. `FairSpec`, which `handoff` runs, implies `SerialSpec`.

**Overlapping requests.** `ThreadInv` is what no interleaving breaks: types, `OneInFlight`
dropped, and the lock, which no late write takes back but `attach_session()`'s.
`BudgetInv` counts for each kind the attempts made and those that have passed the test and
are still to be made; each client is at one `begin_intervention()` at most, so the sum
exceeds the budget by the number of the others at most. The ledger may really be
overspent and an ended session may really be paused again: neither is excluded.

### 6.2 ManagedRun

| Theorem | States |
|---|---|
| `TypeCorrect` | `ThreadedSpec => []TypeOK` |
| `MotionBounded` | `ThreadedSpec => []MotionIsBounded` |
| `RunEndsClean` | `SerialSpec => []EndsClean` |
| `LoopHasIntent` | `SerialSpec => []LoopVerifies` |
| `CapturesCalibrated` | `SerialSpec => []CaptureIsCalibrated` |

`SInv` has three parts. `WaitMatches` says for each wait of `worker` which state the session
is in: what a step writes after a wait was decided before it, and a stop in another thread
breaks exactly this (`managed_stop`). `Sound(state, intent)` says what a run in that state
has behind it: the intent the loop can verify, an accepted calibration, the lock. It must
hold of the session and of the context that a paused session would resume, for a resume
copies the one onto the other. The rest keeps an ended session free of a context to resume.
Types and the motion bound need none of it and hold with the operator's requests between
any two steps of a call.

### 6.3 CameraPath

`TypeCorrect`, `LockedCamera` (`[]OneCameraUser`), `RecoveryRestoresBroker`
(`SuccessRestoresBroker`). A recovery gives the lock up between its two rounds, so mutual
exclusion does not keep the broker's profile as it left it. What does is `OneRequest`:
recovery and focus calibration are never both under way, which is the operator's doing
(section 5; the code checks the session's state only when a request starts). `KnowsBroker` then carries what
the recovery knows of the profile from one round to the next. The keepalive runs beside
both and never touches the profile.

### 6.4 CameraTransfer

`TypeCorrect` and `LightsDiffer` (`[]NoLightTwice`) hold also while recoveries run beside
captures; `DeletedSaved` (`[]DeletedIsSaved`) and `RecoveredClean` (`RecoveredIsClean`)
need `~Overlap`. `AttemptInv` keeps the frame that a failed light left under its name from
being one that was returned, so that a retry delivers it once. Everything about the frames
rests on `Listed`: the body lists in the
order of exposure, so a new frame is last and what a transfer or a deletion leaves is still
in order. Recovery addresses frames by their place in the listing; `TodoIsStore` says that
what it has left to do is the whole store, counted from its end, so that a deletion moves
none of the places that are still to come, and `DeleteIsDue` that the entry at `delete` has
been saved. `Without`, which drops the transferred frames from a listing, is a recursive
function; its properties are proved by a least counterexample (`LeastNatural`).

### 6.5 EquipmentProfiles

`TypeCorrect` holds for any clients. `OneDefault` (`[]AtMostOneDefault`), `MemoryAgrees`
(`[]ActiveAgrees`) and `BootFindsChosen` (`BootsIntoChosen`) follow from
`Spec /\ []OneInFlight`: no two requests are under way at once, as with the one client of
`profiles`. Flag, memory and the profile that should carry the flag are wrong for a while
in the middle of every request; `Fit(r)` says how far each is right while request `r` is at
its step, and a restart may come at any of them:

- `FlagFits`: on the way through `clear` only the files still to be cleared carry the flag;
- `MemoryFits`: up to the write the memory lags, but a calibration's is ahead; after the
  write the disk leads, and on the way back from a failed calibration (`SweepFailsFits`)
  the two agree but for optics that the file does not name;
- `ChoiceFits`: but while the flag is moved, the only default is `Holder`. The step that
  matters is the write of a calibration, which moves `Holder` to its profile if its flag is
  stale (`ChoiceAfter`).

`BootFindsChosen` therefore promises the operator's choice only where no calibration has
written an older flag back; where one has, it says which profile comes up instead.

### 6.6 FocusAssist

`TypeCorrect`, `SuccessSharper` (`[]SuccessIsSharper`), `InconclusiveBack`
(`[]InconclusiveReturns`), `BaselineFound` (`[]BaselineIsSwept`) and `CalibrationClear`
(`[]CalibrationKeepsClear`), for every lens, range, step, fraction and margin of
`FocusAssumption`. `BaselineDue` carries the search: as long as the lens settles exactly and the
start is in the range, the start has been exposed or is still to come, though positions
are clamped to the range and duplicates dropped (`PositionsOfSweep`). The rest is decided in
the step that ends an operation.

### 6.7 ActivityFeed

`TypeCorrect`, `OwnMotionIsKnown` (`[]RecentMotionIsOwn`) and `ForeignSlewIsSeen`
(`ForeignSlewStopsFrames`), for queues of any length. `RecordsKeepUp` is what the first one
needs: the record of a command is never older than the event it explains by more than
`CommandTime`, until the event is too old to be asked about.

### 6.8 FrameQuality and FrameWatch

| Theorem | States |
|---|---|
| `ClearFramesEndPauses` | three last frames as good as all others recommend no pause |
| `ClearFramesKeepFocus` | nor do they ask for focus |
| `CloudsPause` | enough stars at first and less than half of them at last recommend a pause |
| `FirstFramesContinue` | up to three frames never pause |
| `WindowIsBounded` | the window keeps its type and bound and ends with the newest frame |
| `TypeCorrect` | `Spec => []TypeOK` |
| `OwnFramesJudge` | `Spec => JudgedOnOwnFrames` |
| `ClearSkies` | `Spec => []ClearSkyGoesOn` |

The first five are about every window of measurements. They reduce the trends to sums of
six numbers (`SumsOfThree`, `TrendsOfSix`) and compare those; the focus trend leaves out
frames without a half-flux radius first, and `HfrsOfWindow` finds its last three numbers
in the last three frames by counting (`AscendingLists`). The invariant of the watcher is
`WindowIsOfLast`: the window holds frames of the session that the loop knew last, so that
comparing two ids is enough.

### 6.9 Only model-checked

- Liveness (`InterventionEnds`, `CallsReturn`, `RequestsEnd`, `FramesAreObserved`) is beyond
  TLAPS.
- The runs that expect a violation are counterexamples on one instance; nothing is proved
  of them.
- What section 7 says of two overlapping requests, or of recoveries beside captures.

`PausedIffResumable` and `CloudsPause` are proved and have no run of their own any more.
`Ascending` (`FrameQuality`), `UniquePositions` (`FocusAssist`) and `Without`
(`CameraTransfer`) are written without the operators of the community modules for sorting and
filtering, whose recursive definitions the provers cannot expand.

---

## 7. Where the code and its documentation disagree

Shown by a run (`PROJECT.json`, "findings"):

1. **`handoff_resume_lockout`** (`claw.py:2043`): "resume accepted but Ekos not yet
   confirmed running; call resume() again". Once Ekos runs, `resume()` refuses because
   RUNNING contradicts a pause (1966); every further call is refused.
2. **`managed_stop`** (`session.py:285`): `stop()` ends the session; the verification
   loop assigns its next state after a device call without looking, and the session
   goes on with its outcome recorded.
3. **`profiles_select`** (`claw.py:656`): a boot without a default profile pauses and asks
   for a `select`. Selecting sets the profile and leaves the pause, which has no resume
   context, so `resume` answers 409. What leaves it is a restart with a default on disk, or
   `release-control` followed by `acknowledge`.
4. **`transfer_stale`** (`gphoto2.py:920`): "Capture a single frame using the requested
   settings" (848). A capture that fails looks for a file of its name first; every verification
   frame has the same one, so it returns the frame before and neither drains nor raises.

Met while modelling and described by the model, without a run:

- Session and handoff: the docstring of `begin_intervention()` has the session stay in
  MONITORING when the pause is not confirmed, the code pauses it; the window may open
  with the broker unavailable (comment at `claw.py:2678`); a session that was paused
  from INTERVENING and resumed into MONITORING keeps the ledger's active kind; if the session record
  cannot be written on attach or start, `session_id` stays assigned in READY; a conflict
  found while paused replaces the resume context.
- Profiles: the docstring of `write_profile()` says "at most one profile carries the flag"
  (`filesystem.py:197`), but two requests may clear each other's flag before either writes
  (`Clients = {c1, c2}` violates `AtMostOneDefault`), and a flag that cannot be cleared is
  passed over (246); a calibration writes the flag it was read with, and so takes the
  default back from the profile chosen since or gives it up (`claw.py:385`), and the next boot
  comes up with the wrong one (`Holder` in `BootsIntoChosen`); it overwrites focal length and
  lens and camera names while `calibration_accepted` stays True (376-383), so a session may
  rely on a calibration for other optics; an automatic one that is refused leaves a
  focal length in memory that the file does not have (321-334); a file that was cut off can be neither
  replaced nor selected, and its id cannot be created again; `select` keeps
  `calibration_accepted` of the profile before (`app.py:1556`), which replacing drops;
  a boot that pauses leaves the focus driver the file of the last run.
- Transfers: with `Overlap = TRUE`, `DeletedIsSaved` is violated: a recovery lists frame 1, the
  drain of a failing capture takes it, the next exposure leaves frame 2 in its place, and
  the recovery saves 2 under the name of 1 and deletes it. A frame that is announced late
  is delivered by a later capture under its name, or thrown away by the next `connect()`;
  a capture that times out skips the drain (912); a second connect returns before it
  drains (686); `recovered-pending-` is overwritten by the next recovery, and its glob
  reports the files of earlier ones again.
- Solve retries: "bounded retry policy" (`claw.py:127`), but every fresh test capture resets
  `solve_attempts` (2134), so `MAX_SOLVE_ATTEMPTS` is never reached from the driver's loop.
- Managed run: a run started on an accepted calibration slews with `control_locked`
  False (1445); a calibration without a target accepts any solve and returns READY
  with the lock kept; a conflict in CONNECT after a mount loss resumes into CAPTURE
  (cf. the docstring at 1808); `recover()` documents "unsafe condition -> FAILED", which
  is not implemented; `reconnect_attempts` survives the session; CALIBRATE without a
  session id can be left by none of stop, pause and release.
- Activity: in-flight captures "are correctly attributed to Kepler" (`gphoto2.py:895`), but an
  event is matched when it is drained, after the exposure, and one longer than the 30 s
  window is a conflict; the settle time is overwritten by an older camera event drained after the
  mount's (2490-2500, docstring at 2662); `confirm_ekos_paused()` drains a foreign slew without
  looking for a conflict.
- Camera: the keepalive "never races with in-flight gphoto2" (768), but a capture does
  not take `_camera_io_lock`; a stop of the profile that times out loses its name; "power
  on camera, and resume" (825), but a second failing probe pauses the paused session with
  PAUSED as its resume state, and nothing resumes it.
- Frames: `.fits` is watched, but the loader cannot read it, so such a file is
  analyzed at every poll; a frame exposed in one session and readable in the next counts in
  the next; a sliding baseline never notices a slow decline; autofocus may be asked for
  again right after it succeeded.
- Focus: a start outside the swept range, or a read-back that differs, ends in
  `StopIteration`, which is not caught (`fuji_focus_assist.py:381`), with the lens at
  the last swept position; the best of the fine sweep replaces a sharper coarse sample; a
  failed range calibration leaves the lens at a stop.

---

## 8. Not modelled

| Part | Why |
|---|---|
| gphoto2 adapter | settings, preview, USB look-up: I/O without state; the rest is in `CameraTransfer`, `ActivityFeed` and `FocusAssist` |
| Session records, event journal, install manifest | written for readers outside; that a write fails is modelled where it decides something |
| Node management | systemctl, chrony, df; appears as "readiness may refuse" |
| Ekos observation loop, read-only and node endpoints | change no modelled state; Ekos events are neither eligible nor significant for a conflict |
| Image processing, solver | data, not control; represented by what is decided on |
| UI, CLI | call the API |
| Scripts | straight-line shell; what an upgrade leaves behind when it fails in the middle is a hazard without a model (`upgrade.sh:694`) |
| INDI driver patch | third-party code; the focus bridge's only state is one child process |

---

## 9. Plan

Done in this order: session and ledger; handoff with its abstract semaphore and
proofs; managed run; activity feed; camera path; frame quality with proofs, frame watch;
focus assist; equipment profiles; camera transfers.

To extend, where a later change makes it worth it:

1. More about overlapping requests: `ThreadedSpec` has two theorems (6.1) and no run. A run
   would show the races of section 5 as violations; no text of the repository says that
   requests may not overlap or that the code withstands it.
2. The driver beside the watcher: `capture_one_frame()` overwrites a pause of the
   watcher's guard (`claw.py:1606`).
3. `upgrade.sh`: manifest and services through a failure in the middle (694).

To prove: no safety property of a passing run is left. Worth stating next are abstract
specifications of other components, as `DeviceSemaphore` is of the handoff: an exclusive
lock that `CameraPath` implements, a delivery at most once that `CameraTransfer` implements.

---

## 10. Running it

    tlc -workers 2 -config handoff.cfg ControlHandoff.tla
    tlc -workers 2 -config frames.cfg  MCFrameWatch.tla
    tlc -workers 2 -config managed.cfg ManagedRun.tla
    tlapm ControlHandoff_proofs.tla
    tlapm FrameWatch_proofs.tla
    tlapm ManagedRun_proofs.tla

The other configurations name their module in `PROJECT.json` ("runs"), which also
maps each definition to the lines it models ("map").
