------------------------------ MODULE CameraPath ------------------------------
(***************************************************************************)
(* The three parts of ClawController (agent/claw.py) that talk to the      *)
(* camera outside an exposure and share _camera_io_lock:                   *)
(*                                                                         *)
(*   keepalive   camera_keepalive(), called by a background loop           *)
(*   recovery    recover_camera_session(), POST /camera/recover            *)
(*   focus       run_focus_calibration(), POST /focus-calibrate, or the    *)
(*               selection of a profile that has no calibration            *)
(*                                                                         *)
(* Recovery and focus calibration stop the broker's driver profile, use    *)
(* the camera directly, and start the profile again.  Each part reads the  *)
(* session before it waits for the lock and writes it after its last wait. *)
(* The operator makes one request at a time; the loop runs beside them.    *)
(*                                                                         *)
(* Left out: what the camera is told, the files that are recovered, and    *)
(* the rest of a session's work, which ManagedRun models.                  *)
(***************************************************************************)
EXTENDS KeplerSession

VARIABLES
    session,      \* RuntimeSession
    ioLock,       \* who holds _camera_io_lock
    broker,       \* whether the broker's server runs its profile
    jobs          \* what each part is in the middle of

vars == <<session, ioLock, broker, jobs>>

Parts == {"keepalive", "recovery", "focus"}

\* lock: waits for the lock; probe: heartbeat, then connect; stop, files, start:
\* recovery with the profile; again, connect: its second round with the lock;
\* sweep, cleanup, finish, ready: focus calibration, its except path, the end of
\* its try statement, and the assignments after it released the lock.
Steps   == {"idle", "lock", "probe", "stop", "files", "start", "again", "connect",
            "sweep", "cleanup", "finish", "ready"}
Waiting == {"idle", "lock", "again", "ready"}

\* prev: the state the part found; stopped: stopped_profile is not None;
\* failed: one of recovery's steps went wrong.
Jobs == [step: Steps, prev: ClawStates \cup {"none"}, stopped: BOOLEAN, failed: BOOLEAN]
NoJob == [step |-> "idle", prev |-> "none", stopped |-> FALSE, failed |-> FALSE]

TypeOK ==
    /\ session \in Sessions
    /\ ioLock \in Parts \cup {"none"}
    /\ broker \in {"running", "stopped"}
    /\ jobs \in [Parts -> Jobs]

Init ==
    /\ session = ReadySession
    /\ ioLock = "none"
    /\ broker = "running"
    /\ jobs = [p \in Parts |-> NoJob]

-----------------------------------------------------------------------------

At(part, step) == jobs[part].step = step
Goto(part, step) == jobs' = [jobs EXCEPT ![part].step = step]
Begin(part) ==
    /\ At(part, "idle")
    /\ jobs' = [jobs EXCEPT ![part] = [NoJob EXCEPT !.step = "lock", !.prev = session.state]]
    /\ UNCHANGED <<session, ioLock, broker>>

Acquire(part, step) ==
    /\ ioLock = "none" /\ ioLock' = part
    /\ Goto(part, step)
Finish(part) ==
    /\ jobs' = [jobs EXCEPT ![part] = NoJob]
    /\ ioLock' = "none"

\* session.pause(resume_state=prev), whatever the session's state is by now.
PauseAsFound(part) ==
    session' = Paused(session, jobs[part].prev,
                      IF session.intent = "none" THEN "calibration" ELSE session.intent)

\* stop_active_profile() returned: the profile it stopped, or None if none ran.
ProfileStopped(part, step) ==
    /\ broker' = "stopped"
    /\ jobs' = [jobs EXCEPT ![part] = [@ EXCEPT !.step = step, !.stopped = broker = "running"]]
\* It raised: the broker could not be reached, or was not seen stopped in time.
\* Either way its name is lost.
StopRaised == broker' \in {broker, "stopped"}
\* start_profile() raised: not accepted, or not seen running in time.
StartRaised == broker' \in {broker, "running"}

\* The first round with the lock ends with camera.disconnect().
RoundDone(failed) ==
    /\ ioLock' = "none"
    /\ LET me == jobs["recovery"]
       IN  jobs' = [jobs EXCEPT !["recovery"] = [me EXCEPT !.step = "again",
                                                           !.failed = me.failed \/ failed]]
    /\ UNCHANGED session

-----------------------------------------------------------------------------
(* Faulty variants, one for each property *)

KeepaliveKeepsLock ==              \* the lock is not released when probing fails
    /\ At("keepalive", "probe")
    /\ PauseAsFound("keepalive")
    /\ jobs' = [jobs EXCEPT !["keepalive"] = NoJob]
    /\ UNCHANGED <<broker, ioLock>>

RecoveryReconnectsUnlocked ==      \* connects without taking the lock again
    /\ At("recovery", "again")
    /\ Goto("recovery", "connect")
    /\ UNCHANGED <<session, ioLock, broker>>

RestartErrorForgotten ==           \* a profile that does not start counts as started
    /\ At("recovery", "start")
    /\ broker' = "running" \/ StartRaised
    /\ RoundDone(FALSE)

ResumesUnasked ==                  \* resumes without a resume context
    /\ session.state = "paused" /\ At("recovery", "idle") /\ At("focus", "idle")
    /\ session' = [session EXCEPT !.state = session.ctx.resume, !.ctx = NoContext]
    /\ UNCHANGED <<ioLock, broker, jobs>>

-----------------------------------------------------------------------------
(* camera_keepalive() *)

KeepaliveStates == {"ready", "paused", "target_acquired"}

\* The broker or Ekos may own the camera; then nothing happens.  A broker or an
\* Ekos that cannot be read does not count as an owner.
KeepaliveStart ==
    /\ session.state \in KeepaliveStates
    /\ Begin("keepalive")

KeepaliveLock ==
    /\ At("keepalive", "lock")
    /\ Acquire("keepalive", "probe")
    /\ UNCHANGED <<session, broker>>

\* The heartbeat succeeds, or connecting again does.
KeepaliveOk ==
    /\ At("keepalive", "probe")
    /\ Finish("keepalive")
    /\ UNCHANGED <<session, broker>>

KeepaliveFails ==
    /\ At("keepalive", "probe")
    /\ PauseAsFound("keepalive")
    /\ Finish("keepalive")
    /\ UNCHANGED broker

-----------------------------------------------------------------------------
(* recover_camera_session() *)

\* Refused unless Ekos is idle.
RecoveryStart ==
    /\ session.state \in KeepaliveStates
    /\ Begin("recovery")

RecoveryLock ==
    /\ At("recovery", "lock")
    /\ Acquire("recovery", "stop")
    /\ UNCHANGED <<session, broker>>

RecoveryStop ==
    /\ At("recovery", "stop")
    /\ \/ broker = "running" /\ ProfileStopped("recovery", "files")
          /\ UNCHANGED <<session, ioLock>>
       \/ broker = "stopped" /\ RoundDone(FALSE) /\ UNCHANGED broker
       \/ StopRaised /\ RoundDone(TRUE)

FilesRecovered ==
    /\ At("recovery", "files")
    /\ Goto("recovery", "start")
    /\ UNCHANGED <<session, ioLock, broker>>

FilesFail ==
    /\ At("recovery", "files")
    /\ jobs' = [jobs EXCEPT !["recovery"] = [@ EXCEPT !.step = "start", !.failed = TRUE]]
    /\ UNCHANGED <<session, ioLock, broker>>

RecoveryRestart ==
    /\ At("recovery", "start")
    /\ \/ broker' = "running" /\ RoundDone(FALSE)
       \/ StartRaised /\ RoundDone(TRUE)

RecoveryLockAgain ==
    /\ At("recovery", "again")
    /\ Acquire("recovery", "connect")
    /\ UNCHANGED <<session, broker>>

\* Connected, and every step before went well.
Recovered ==
    /\ At("recovery", "connect") /\ ~jobs["recovery"].failed
    /\ Finish("recovery")
    /\ UNCHANGED <<session, broker>>

\* Not connected, or a step before failed: pause, unless it was paused.
ReconnectFails ==
    /\ At("recovery", "connect")
    /\ IF jobs["recovery"].prev # "paused" THEN PauseAsFound("recovery")
                                          ELSE UNCHANGED session
    /\ Finish("recovery")
    /\ UNCHANGED broker

-----------------------------------------------------------------------------
(* run_focus_calibration() *)

\* Readiness may refuse it.
FocusStart ==
    /\ session.state = "ready"
    /\ Begin("focus")

FocusLock ==
    /\ At("focus", "lock")
    /\ Acquire("focus", "stop")
    /\ session' = [session EXCEPT !.state = "calibrate", !.intent = "focus_calibration",
                                  !.locked = TRUE]
    /\ UNCHANGED broker

FocusStop ==
    /\ At("focus", "stop")
    /\ \/ ProfileStopped("focus", "sweep")
       \/ StopRaised /\ Goto("focus", "cleanup")
    /\ UNCHANGED <<session, ioLock>>

\* Connecting, measuring the focus range and saving the result.
FocusSwept ==
    /\ At("focus", "sweep")
    /\ Goto("focus", "finish") \/ Goto("focus", "cleanup")
    /\ UNCHANGED <<session, ioLock, broker>>

BackToReady == [session EXCEPT !.state = "ready", !.intent = "none", !.locked = FALSE]

FocusFails ==
    /\ At("focus", "cleanup")
    /\ IF jobs["focus"].stopped THEN broker' = "running" \/ StartRaised ELSE UNCHANGED broker
    /\ session' = BackToReady
    /\ Finish("focus")

FocusEnds ==
    /\ At("focus", "finish")
    /\ IF jobs["focus"].stopped THEN broker' = "running" ELSE UNCHANGED broker
    /\ ioLock' = "none"
    /\ Goto("focus", "ready")
    /\ UNCHANGED session

FocusReturns ==
    /\ At("focus", "ready")
    /\ session' = BackToReady
    /\ jobs' = [jobs EXCEPT !["focus"] = NoJob]
    /\ UNCHANGED <<ioLock, broker>>

\* Starting the profile after a success is outside the try: the method raises
\* and leaves the session as it is.
FocusEndRaises ==
    /\ At("focus", "finish") /\ jobs["focus"].stopped
    /\ StartRaised
    /\ Finish("focus")
    /\ UNCHANGED session

-----------------------------------------------------------------------------
(* The session's other requests, as far as they move it between the states *)
(* in which the three parts may run and the others.                        *)

Operator(next) ==
    /\ At("recovery", "idle") /\ At("focus", "idle")
    /\ session' = next
    /\ UNCHANGED <<ioLock, broker, jobs>>

SessionWorks ==
    \/ session.state = "ready"
        /\ Operator([EnterCalibrate(session) EXCEPT !.state = "test_capture", !.managed = TRUE])
    \/ session.state = "test_capture" /\ Operator(EnterTargetAcquired(session))
    \/ session.state = "target_acquired" /\ Operator([session EXCEPT !.state = "test_capture"])

SessionPauses ==
    /\ session.managed /\ session.state \notin {"ready", "paused", "completed"}
    /\ LET ctx == PauseTarget(session) IN Operator(Paused(session, ctx.resume, ctx.intent))

SessionResumes ==
    /\ session.state = "paused" /\ session.ctx # NoContext
    /\ Operator([session EXCEPT !.state = session.ctx.resume, !.intent = session.ctx.intent,
                                !.ctx = NoContext])

SessionEnds ==
    \/ session.managed /\ session.state \notin {"ready", "completed"} /\ Operator(Stopped(session))
    \/ session.state = "completed" /\ Operator(Cleared(session))

-----------------------------------------------------------------------------

OneAtATime == At("recovery", "idle") /\ At("focus", "idle")

Keepalive == KeepaliveLock \/ KeepaliveOk \/ KeepaliveFails
Recovery  == \/ RecoveryLock \/ RecoveryStop \/ FilesRecovered \/ FilesFail
             \/ RecoveryRestart \/ RecoveryLockAgain \/ Recovered \/ ReconnectFails
Focus     == FocusLock \/ FocusStop \/ FocusSwept \/ FocusFails \/ FocusEnds
             \/ FocusReturns \/ FocusEndRaises

Next ==
    \/ KeepaliveStart \/ Keepalive
    \/ OneAtATime /\ (RecoveryStart \/ FocusStart)
    \/ Recovery \/ Focus
    \/ SessionWorks \/ SessionPauses \/ SessionResumes \/ SessionEnds

\* Device calls return, and the loop sleeps between two probes, so that whoever
\* waits for the lock gets it.
Spec ==
    /\ Init /\ [][Next]_vars
    /\ WF_vars(Keepalive) /\ SF_vars(Recovery) /\ SF_vars(Focus)

-----------------------------------------------------------------------------
(* Safety *)

\* Only the holder of _camera_io_lock uses the camera or moves the broker, in
\* both rounds of a recovery, and no way out of a part keeps the lock.
OneCameraUser == \A p \in Parts : jobs[p].step \notin Waiting <=> ioLock = p

\* A recovery that reports success has the profile that it stopped running again,
\* whatever failed on the way and whoever had the lock between its two rounds.
SuccessRestoresBroker ==
    [][At("recovery", "connect") /\ jobs'["recovery"] = NoJob
            /\ jobs["recovery"].stopped /\ ~jobs["recovery"].failed
        => broker = "running"]_vars

-----------------------------------------------------------------------------
(* Liveness *)

\* Every recovery and every focus calibration ends, although the keepalive loop
\* takes the lock again and again.
RequestsEnd == \A p \in {"recovery", "focus"} : ~At(p, "idle") ~> At(p, "idle")

=============================================================================
