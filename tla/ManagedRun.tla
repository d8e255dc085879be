------------------------------ MODULE ManagedRun ------------------------------
(***************************************************************************)
(* The managed run of ClawController (agent/claw.py): calibrate, center on *)
(* the staged target in the shared verification loop, capture frames, judge *)
(* each one in guard, recover, reconnect, and end.                         *)
(*                                                                         *)
(* Two parties use the controller.  The driver calls one long method after *)
(* another, the one the session's state asks for; such a call waits for    *)
(* the camera, the solver or the mount, or sleeps, between its steps.  The *)
(* operator's HTTP requests (api/app.py) run in threads of their own; one  *)
(* of them, POST /session/start, makes the first call, up to the end of    *)
(* the verification loop, and the others may come meanwhile.               *)
(*                                                                         *)
(*   SerialSpec    operator requests come between the driver's calls, and  *)
(*                 every device call returns                               *)
(*   ThreadedSpec  operator requests come at any time                      *)
(*                                                                         *)
(* Left out: run parameters, readiness beyond "may block", events and      *)
(* records, the focus calibration, and how Ekos answers a resume, which    *)
(* ControlHandoff models step by step.                                     *)
(***************************************************************************)
EXTENDS KeplerSession, Naturals

CONSTANTS
    MaxSolveAttempts, MaxCalibrationLoops, MaxCenteringLoops,
    MaxReconnectAttempts, MaxBadFrames

ASSUME BudgetsAssumption ==
    {MaxSolveAttempts, MaxCalibrationLoops, MaxCenteringLoops,
     MaxReconnectAttempts, MaxBadFrames} \subseteq Nat \ {0}

VARIABLES
    session,      \* RuntimeSession
    window,       \* ClawController._intervention_window
    target,       \* a target is staged
    calibrated,   \* session.calibration_accepted
    counters,     \* the retry counters, and whether a frame was ever captured
    worker        \* what the driver's call waits for

vars == <<session, window, target, calibrated, counters, worker>>

Windows  == {"closed", "requested", "open", "releasing"}

\* badFrames and reconnects saturate: they are only compared with their bound.
Counters == [calLoops: Nat, centLoops: Nat, solves: Nat,
             badFrames: 0..MaxBadFrames, reconnects: 0..MaxReconnectAttempts + 1,
             hasFrame: BOOLEAN]

\* aimed: the pending solve was told where the target is;
\* intent: the workflow_intent _do_correct() read before it moved the mount.
Workers == [wait: {"idle", "test_capture", "solve", "mount", "settle",
                   "expose", "expose_retry", "backoff", "connect"},
            aimed: BOOLEAN, intent: Intents \cup {"none"}]
Idle    == [wait |-> "idle", aimed |-> FALSE, intent |-> "none"]

TypeOK ==
    /\ session \in Sessions
    /\ window \in Windows
    /\ target \in BOOLEAN
    /\ calibrated \in BOOLEAN
    /\ counters \in Counters
    /\ worker \in Workers

Init ==
    /\ session = ReadySession
    /\ window = "closed"
    /\ target = FALSE
    /\ calibrated = FALSE
    /\ counters = [calLoops |-> 0, centLoops |-> 0, solves |-> 0, badFrames |-> 0,
                   reconnects |-> 0, hasFrame |-> FALSE]
    /\ worker = Idle

-----------------------------------------------------------------------------

At(wait)     == worker.wait = wait
WaitFor(wait) == worker' = [Idle EXCEPT !.wait = wait]
\* The driver is free, and the state of the session asks for this call.
Due(state) == worker = Idle /\ session.state = state

\* A driver's call returns, leaving the session as s.
Leave(s) == session' = s /\ worker' = Idle

\* _do_test_capture() starts an exposure.
Loop(s) == session' = [s EXCEPT !.state = "test_capture"] /\ WaitFor("test_capture")

IntentOr(default) == IF session.intent = "none" THEN default ELSE session.intent

\* reset_verification_counters()
ResetCounters ==
    [counters EXCEPT !.calLoops = 0, !.centLoops = 0, !.solves = 0, !.badFrames = 0]

\* run_calibrate(): readiness may block it.
RunCalibrate(s) ==
    /\ UNCHANGED <<window, target, calibrated>>
    /\ \/ Leave(Paused(s, "calibrate", "calibration")) /\ UNCHANGED counters
       \/ Loop(EnterCalibrate(s)) /\ counters' = ResetCounters

\* run_target_centering() once calibration is accepted.
RunAccepted(s) ==
    /\ UNCHANGED <<window, target, calibrated>>
    /\ \/ Leave(Paused(s, "target_acquired", "target_centering")) /\ UNCHANGED counters
       \/ /\ Loop([s EXCEPT !.intent = "target_centering"])
          /\ counters' = [counters EXCEPT !.centLoops = 0, !.solves = 0]

RunTargetCentering(s) == IF calibrated THEN RunAccepted(s) ELSE RunCalibrate(s)

-----------------------------------------------------------------------------
(* The shared verification loop *)

TestCaptured ==
    /\ At("test_capture")
    /\ session' = [session EXCEPT !.state = "solve"]
    /\ counters' = [counters EXCEPT !.hasFrame = TRUE, !.solves = 1]
    /\ worker' = [Idle EXCEPT !.wait = "solve", !.aimed = target]
    /\ UNCHANGED <<window, target, calibrated>>

\* The camera is in a mode only the operator can change.
TestCaptureBlocked ==
    /\ At("test_capture")
    /\ Leave(Paused(session, "test_capture", IntentOr("calibration")))
    /\ UNCHANGED <<window, target, calibrated, counters>>

TestCaptureFails ==
    /\ At("test_capture")
    /\ Leave(EnterRecover(session))
    /\ UNCHANGED <<window, target, calibrated, counters>>

SolveFails ==
    /\ At("solve")
    /\ Leave(IF counters.solves >= MaxSolveAttempts
             THEN Paused(session, "test_capture", IntentOr("calibration"))
             ELSE EnterRecover(session))
    /\ UNCHANGED <<window, target, calibrated, counters>>

\* _do_center_verify() and _handle_verify_success() for a residual within
\* tolerance; with CAPTURE intent the session fails whatever the residual is.
VerifySuccess(s) ==
    CASE s.intent = "calibration" /\ target  -> EnterTargetAcquired(s)
      [] s.intent = "calibration" /\ ~target -> [s EXCEPT !.state = "ready"]
      [] s.intent = "target_centering"       -> EnterCapture(s)
      [] s.intent = "recovery_verification"  -> [s EXCEPT !.state = "capture",
                                                          !.intent = "capture"]
      [] OTHER -> Failed(s)

\* A solve that was told no position has no residual, which counts as zero.
Verified ==
    /\ At("solve")
    /\ Leave(VerifySuccess(session))
    /\ calibrated' = (calibrated \/ session.intent = "calibration")
    /\ counters' = IF session.intent = "calibration"
                   THEN [counters EXCEPT !.solves = 0, !.calLoops = 0]
                   ELSE [counters EXCEPT !.solves = 0]
    /\ UNCHANGED <<window, target>>

OutOfTolerance == At("solve") /\ worker.aimed /\ session.intent # "capture"
LoopsOverrun ==                    \* faulty: one correction too many
    IF session.intent = "calibration" THEN counters.calLoops > MaxCalibrationLoops
                                      ELSE counters.centLoops > MaxCenteringLoops
LoopsExhausted ==
    IF session.intent = "calibration" THEN counters.calLoops >= MaxCalibrationLoops
                                      ELSE counters.centLoops >= MaxCenteringLoops
RestartState == IF session.intent = "calibration" THEN "calibrate" ELSE "target_acquired"

\* Pausing with no intent raises (ResumeContext requires one) and pauses nothing.
VerifyExhausted ==
    /\ OutOfTolerance /\ LoopsExhausted
    /\ Leave(IF session.intent = "none" THEN [session EXCEPT !.state = "center_verify"]
             ELSE Paused(session, RestartState, session.intent))
    /\ counters' = [counters EXCEPT !.solves = 0]
    /\ UNCHANGED <<window, target, calibrated>>

CorrectUncounted ==                \* faulty: a recovery slew is not counted
    /\ OutOfTolerance /\ ~LoopsExhausted
    /\ counters' = CASE session.intent = "calibration" ->
                           [counters EXCEPT !.solves = 0, !.calLoops = @ + 1]
                     [] session.intent = "target_centering" ->
                           [counters EXCEPT !.solves = 0, !.centLoops = @ + 1]
                     [] OTHER -> [counters EXCEPT !.solves = 0]
    /\ session' = [session EXCEPT !.state = "correct"]
    /\ worker' = [Idle EXCEPT !.wait = "mount", !.intent = session.intent]
    /\ UNCHANGED <<window, target, calibrated>>

\* _do_correct(): sync when calibrating, else slew to the staged target.
Correct ==
    /\ OutOfTolerance /\ ~LoopsExhausted
    /\ counters' = IF session.intent = "calibration"
                   THEN [counters EXCEPT !.solves = 0, !.calLoops = @ + 1]
                   ELSE [counters EXCEPT !.solves = 0, !.centLoops = @ + 1]
    /\ IF session.intent # "calibration" /\ ~target
       THEN Leave(Paused(session, RestartState, IntentOr("calibration")))
       ELSE /\ session' = [session EXCEPT !.state = "correct"]
            /\ worker' = [Idle EXCEPT !.wait = "mount", !.intent = session.intent]
    /\ UNCHANGED <<window, target, calibrated>>

\* With no intent, reporting the correction raises after the mount has moved.
MountMoved ==
    /\ At("mount")
    /\ IF worker.intent = "none" THEN worker' = Idle ELSE WaitFor("settle")
    /\ UNCHANGED <<session, window, target, calibrated, counters>>

MountFails ==
    /\ At("mount")
    /\ Leave(EnterRecover(session))
    /\ UNCHANGED <<window, target, calibrated, counters>>

Settled ==
    /\ At("settle")
    /\ Loop(session)
    /\ UNCHANGED <<window, target, calibrated, counters>>

-----------------------------------------------------------------------------
(* Capture and guard *)

PauseOnConflict ==
    /\ session.locked
    /\ LET ctx == ConflictTarget(session)
       IN  Leave(Paused(session, ctx.resume, ctx.intent))
    /\ window' = "requested"

CaptureStart ==
    /\ Due("capture")
    /\ WaitFor("expose")
    /\ UNCHANGED <<session, window, target, calibrated, counters>>

CaptureConflict ==
    /\ Due("capture")
    /\ PauseOnConflict
    /\ UNCHANGED <<target, calibrated, counters>>

Exposed ==
    /\ At("expose") \/ At("expose_retry")
    /\ Leave([session EXCEPT !.state = "guard"])
    /\ counters' = [counters EXCEPT !.hasFrame = TRUE]
    /\ UNCHANGED <<window, target, calibrated>>

ExposeBlocked ==
    /\ At("expose")
    /\ Leave(Paused(session, "capture", "capture"))
    /\ UNCHANGED <<window, target, calibrated, counters>>

\* The exposure fails although storage is still sound: one retry.
ExposeAgain ==
    /\ At("expose")
    /\ WaitFor("expose_retry")
    /\ UNCHANGED <<session, window, target, calibrated, counters>>

ExposeUnwritableHalfFails ==       \* faulty: sets the state instead of failing
    /\ At("expose")
    /\ Leave([session EXCEPT !.state = "failed"])
    /\ UNCHANGED <<window, target, calibrated, counters>>

\* Storage is unavailable or unsafe.  session.fail() is called directly: this
\* terminal path does not touch the intervention window.
ExposeUnwritable ==
    /\ At("expose")
    /\ Leave(Failed(session))
    /\ UNCHANGED <<window, target, calibrated, counters>>

RetryFails ==
    /\ At("expose_retry")
    /\ Leave(EnterRecover(session))
    /\ UNCHANGED <<window, target, calibrated, counters>>

Qualities == {"pass", "warn", "fail"}
BadFrames(quality) ==
    CASE quality = "pass" -> 0
      [] quality = "warn" -> counters.badFrames
      [] quality = "fail" /\ counters.badFrames < MaxBadFrames -> counters.badFrames + 1
      [] OTHER -> MaxBadFrames
Judge(quality) == counters' = [counters EXCEPT !.badFrames = BadFrames(quality)]

\* The stop condition is met; frames are not counted here.
GuardCompletes ==
    /\ Due("guard")
    /\ Leave(Ended(session, "completed", "completed"))
    /\ UNCHANGED <<window, target, calibrated, counters>>

GuardBlocked ==
    /\ Due("guard")
    /\ Leave(Paused(session, "capture", "capture"))
    /\ UNCHANGED <<window, target, calibrated, counters>>

\* The second bad frame in a row recovers, the third pauses.
GuardRejects ==
    /\ Due("guard")
    /\ BadFrames("fail") >= 2 \/ BadFrames("fail") = MaxBadFrames
    /\ Judge("fail")
    /\ Leave(IF BadFrames("fail") = MaxBadFrames THEN Paused(session, "capture", "capture")
                                                ELSE EnterRecover(session))
    /\ UNCHANGED <<window, target, calibrated>>

\* The frame does not stop the run: it is not bad, or the first bad one.
Tolerated(quality) == quality = "fail" => BadFrames(quality) = 1 /\ MaxBadFrames > 1

\* pause_sensor or pause_weather: the session is paused, then Ekos asked to.
GuardTrendPause(quality) ==
    /\ Due("guard") /\ Tolerated(quality)
    /\ Judge(quality)
    /\ Leave(Paused(session, "capture", "capture"))
    /\ window' = "requested"
    /\ UNCHANGED <<target, calibrated>>

GuardConflict(quality) ==
    /\ Due("guard") /\ Tolerated(quality)
    /\ Judge(quality)
    /\ PauseOnConflict
    /\ UNCHANGED <<target, calibrated>>

GuardContinues(quality) ==
    /\ Due("guard") /\ Tolerated(quality)
    /\ Judge(quality)
    /\ Leave([session EXCEPT !.state = "capture"])
    /\ UNCHANGED <<window, target, calibrated>>

-----------------------------------------------------------------------------
(* Recovery and reconnection *)

ActiveWorkflow == session.intent \in {"calibration", "target_centering"}

\* recover(mount_disconnected=True): the operator must confirm during an active
\* workflow; otherwise back off and reconnect, a bounded number of times.
RecoverMountPauses ==
    /\ Due("recover")
    /\ ActiveWorkflow \/ counters.reconnects >= MaxReconnectAttempts
    /\ Leave(Paused(session, "connect", IntentOr("calibration")))
    /\ counters' = IF ActiveWorkflow THEN counters
                   ELSE [counters EXCEPT !.reconnects = MaxReconnectAttempts + 1]
    /\ UNCHANGED <<window, target, calibrated>>

RecoverMount ==
    /\ Due("recover")
    /\ ~ActiveWorkflow /\ counters.reconnects < MaxReconnectAttempts
    /\ counters' = [counters EXCEPT !.reconnects = @ + 1]
    /\ WaitFor("backoff")
    /\ UNCHANGED <<session, window, target, calibrated>>

BackedOffInPlace ==                \* faulty: verifies again without reconnecting
    /\ At("backoff")
    /\ calibrated' = FALSE
    /\ Leave([session EXCEPT !.state = "test_capture", !.intent = "recovery_verification"])
    /\ UNCHANGED <<window, target, counters>>

BackedOff ==
    /\ At("backoff")
    /\ calibrated' = FALSE
    /\ Leave([session EXCEPT !.state = "connect"])
    /\ UNCHANGED <<window, target, counters>>

\* The driver says from_capture exactly when the run was capturing.
CaptureIntentKept == session.intent    \* faulty: from_capture is ignored
VerificationIntent == IF session.intent \in {"capture", "recovery_verification"}
                      THEN "recovery_verification" ELSE session.intent

\* A solver-specific failure: look at the same frame again, budget permitting.
RecoverSameFrame ==
    /\ Due("recover")
    /\ counters.hasFrame /\ counters.solves < MaxSolveAttempts
    /\ Leave([session EXCEPT !.state = "solve", !.intent = VerificationIntent])
    /\ UNCHANGED <<window, target, calibrated, counters>>

RecoverFreshFrame ==
    /\ Due("recover")
    /\ Leave([session EXCEPT !.state = "test_capture", !.intent = VerificationIntent])
    /\ UNCHANGED <<window, target, calibrated, counters>>

\* The driver gives up: fail().
Fail ==
    /\ Due("recover")
    /\ Leave(Failed(session))
    /\ window' = "closed"
    /\ UNCHANGED <<target, calibrated, counters>>

ConnectStart ==
    /\ Due("connect")
    /\ WaitFor("connect")
    /\ UNCHANGED <<session, window, target, calibrated, counters>>

Connected ==
    /\ At("connect")
    /\ counters' = [counters EXCEPT !.reconnects = 0]
    /\ Leave([session EXCEPT !.state = "ready"])
    /\ UNCHANGED <<window, target, calibrated>>

ConnectFails ==
    /\ At("connect")
    /\ Leave(Paused(session, "connect", IntentOr("calibration")))
    /\ UNCHANGED <<window, target, calibrated, counters>>

-----------------------------------------------------------------------------
(* What the driver calls next *)

CallCalibrate == Due("calibrate") /\ RunCalibrate(session)

CallCentering == Due("target_acquired") /\ RunTargetCentering(session)

\* run_verification_loop() begins with a test capture whatever the state is.
CallLoop ==
    /\ \E state \in LoopStates \ {"target_acquired"} : Due(state)
    /\ Loop(session)
    /\ UNCHANGED <<window, target, calibrated, counters>>

-----------------------------------------------------------------------------
(* The operator's requests *)

CenteringOrCapturing == (LoopStates \ {"calibrate"}) \cup CaptureStates

\* POST /target and DELETE /target/current
StageTarget(staged) ==
    /\ session.state \notin CenteringOrCapturing
    /\ target' = staged
    /\ UNCHANGED <<session, window, calibrated, counters, worker>>

\* POST /session/start runs the loop in the request; only one call runs a loop.
StartSession ==
    /\ Due("ready") /\ target
    /\ RunTargetCentering([session EXCEPT !.managed = TRUE])

\* The session record cannot be written: the session_id stays assigned.
StartUnrecorded ==
    /\ Due("ready") /\ target
    /\ session' = [session EXCEPT !.managed = TRUE]
    /\ UNCHANGED <<window, target, calibrated, counters, worker>>

\* POST /calibrate
BeginCalibrate ==
    /\ session.state \in {"ready", "target_acquired"}
    /\ session' = EnterCalibrate(session)
    /\ counters' = ResetCounters
    /\ UNCHANGED <<window, target, calibrated, worker>>

Stop ==
    /\ session.managed
    /\ session.state \notin PreSessionStates \cup TerminalStates
    /\ session' = Stopped(session)
    /\ window' = "closed"
    /\ UNCHANGED <<target, calibrated, counters, worker>>

Pause ==
    /\ session.managed
    /\ session.state \notin PreSessionStates \cup TerminalStates \cup {"paused"}
    /\ LET ctx == PauseTarget(session)
       IN  session' = Paused(session, ctx.resume, ctx.intent)
    /\ window' = "requested"
    /\ UNCHANGED <<target, calibrated, counters, worker>>

ResumeUnguarded ==                 \* faulty: trusts the caller to be paused
    /\ session' = [session EXCEPT !.state = session.ctx.resume,
                                  !.intent = session.ctx.intent, !.ctx = NoContext]
    /\ window' = "closed"
    /\ UNCHANGED <<target, calibrated, counters, worker>>

\* Ekos is confirmed running again.
Resume ==
    /\ session.state = "paused" /\ session.ctx # NoContext
    /\ session' = [session EXCEPT !.state = session.ctx.resume,
                                  !.intent = session.ctx.intent, !.ctx = NoContext]
    /\ window' = "closed"
    /\ UNCHANGED <<target, calibrated, counters, worker>>

\* Refused, failed (requested), or accepted and not confirmed (releasing).
ResumeStays ==
    /\ session.state = "paused" /\ session.ctx # NoContext
    /\ window' \in {"requested", "releasing"}
    /\ UNCHANGED <<session, target, calibrated, counters, worker>>

ReleaseControl ==
    /\ session.state = "paused" /\ session.managed
    /\ session' = Released(session)
    /\ window' = "closed"
    /\ UNCHANGED <<target, calibrated, counters, worker>>

\* Acknowledge-complete, and clear-failure once the hardware allows it.
Clear ==
    /\ IsTerminal(session)
    /\ session' = Cleared(session)
    /\ UNCHANGED <<window, target, calibrated, counters, worker>>

-----------------------------------------------------------------------------

\* A device answers, or a sleep ends.
DeviceAnswers ==
    \/ TestCaptured \/ TestCaptureBlocked \/ TestCaptureFails
    \/ SolveFails \/ Verified \/ VerifyExhausted \/ Correct
    \/ MountMoved \/ MountFails \/ Settled
    \/ Exposed \/ ExposeBlocked \/ ExposeAgain \/ ExposeUnwritable \/ RetryFails
    \/ BackedOff \/ Connected \/ ConnectFails

\* The driver makes its next call.
DriverCalls ==
    \/ CallCalibrate \/ CallCentering \/ CallLoop
    \/ CaptureStart \/ CaptureConflict
    \/ GuardCompletes \/ GuardBlocked \/ GuardRejects
    \/ \E quality \in Qualities : \/ GuardTrendPause(quality) \/ GuardConflict(quality)
                                  \/ GuardContinues(quality)
    \/ RecoverMountPauses \/ RecoverMount \/ RecoverSameFrame \/ RecoverFreshFrame
    \/ Fail \/ ConnectStart

OperatorAsks ==
    \/ \E staged \in BOOLEAN : StageTarget(staged)
    \/ StartSession \/ StartUnrecorded \/ BeginCalibrate
    \/ Stop \/ Pause \/ Resume \/ ResumeStays \/ ReleaseControl \/ Clear

ThreadedNext == DeviceAnswers \/ DriverCalls \/ OperatorAsks
ThreadedSpec == Init /\ [][ThreadedNext]_vars

SerialNext == DeviceAnswers \/ DriverCalls \/ (worker = Idle /\ OperatorAsks)
SerialSpec == Init /\ [][SerialNext]_vars /\ WF_vars(DeviceAnswers)

-----------------------------------------------------------------------------
(* Safety *)

\* A run that has ended keeps no lock, nothing to resume and no open handover,
\* on every terminal path: stop, release, the stop condition in guard, fail(),
\* and the storage failure in capture_one_frame, which closes no window itself.
EndsClean ==
    /\ IsTerminal(session) <=> session.outcome # "none"
    /\ IsTerminal(session) => /\ ~session.locked /\ session.ctx = NoContext
                              /\ window = "closed" /\ worker = Idle

\* _do_center_verify() calls CAPTURE intent there "a programming error": the
\* verification loop always runs for one of the three verifying intents, also
\* after any mix of recoveries, pauses and resumes.
Verifying == {"calibration", "target_centering", "recovery_verification"}
LoopVerifies ==
    /\ session.state \in {"test_capture", "solve", "correct"} => session.intent \in Verifying
    /\ session.ctx.resume = "test_capture" => session.ctx.intent \in Verifying

\* Production frames are only taken, or resumed, with an accepted calibration
\* and under the control lock, whichever way the run came to the capture state.
CaptureIsCalibrated ==
    session.state \in {"capture", "guard"} \/ session.ctx.resume = "capture" =>
        calibrated /\ session.locked

\* The mount is never moved more often than the retry policy allows, although
\* the recovery verification shares its counter with the centering before it.
MotionIsBounded ==
    /\ counters.calLoops <= MaxCalibrationLoops
    /\ counters.centLoops <= MaxCenteringLoops

\* run_verification_loop() is a "while True": every call of the driver comes
\* back, because each turn of the loop uses up some of a correction budget.
CallsReturn == worker # Idle ~> worker = Idle

-----------------------------------------------------------------------------
(* What comments and docstrings say that the code does not do *)

\* stop(): "Stop the active session and clear resumability": a session whose
\* outcome is recorded does not execute.
StoppedStaysStopped == session.outcome # "none" => IsTerminal(session)

=============================================================================
