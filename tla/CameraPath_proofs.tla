------------------------- MODULE CameraPath_proofs -------------------------
(***************************************************************************)
(* Proofs about CameraPath: the session stays well-formed, only the holder *)
(* of _camera_io_lock uses the camera, and a recovery that reports success *)
(* has put the broker's profile back.                                      *)
(*                                                                         *)
(* The properties are not inductive by themselves.  IInv adds that a part  *)
(* is only ever at its own steps, that recovery and focus calibration are  *)
(* never both under way (so nobody else moves the broker between the two   *)
(* rounds of a recovery), and what a recovery knows of the broker at each  *)
(* of its steps.                                                           *)
(***************************************************************************)
EXTENDS CameraPath, TLAPS

StepsOf == [keepalive |-> {"idle", "lock", "probe"},
            recovery  |-> {"idle", "lock", "stop", "files", "start", "again", "connect"},
            focus     |-> {"idle", "lock", "stop", "sweep", "cleanup", "finish", "ready"}]

OwnSteps == \A p \in Parts : jobs[p].step \in StepsOf[p]

\* A part that runs has read the session's state.
HasRead == \A p \in Parts : jobs[p].step # "idle" => jobs[p].prev \in ClawStates

OneRequest == At("recovery", "idle") \/ At("focus", "idle")

\* Before its stop a recovery has stopped nothing; in its second round, if all
\* went well so far, the profile it stopped runs again.
KnowsBroker ==
    /\ jobs["recovery"].step \in {"lock", "stop"} => ~jobs["recovery"].stopped
    /\ jobs["recovery"].step \in {"again", "connect"}
         /\ jobs["recovery"].stopped /\ ~jobs["recovery"].failed => broker = "running"

IInv ==
    /\ TypeOK
    /\ OwnSteps
    /\ HasRead
    /\ OneRequest
    /\ OneCameraUser
    /\ KnowsBroker

-----------------------------------------------------------------------------
(* Sessions *)

\* Pausing, and setting the fields that a step sets, keeps a session well-formed.
LEMMA PausedIsTyped ==
    ASSUME NEW s \in Sessions, NEW r \in ClawStates, NEW i \in Intents
    PROVE  Paused(s, r, i) \in Sessions
<1>1. "paused" \in ClawStates
  BY DEF ClawStates
<1>2. [resume |-> r, intent |-> i] \in Contexts
  BY DEF Contexts
<1> QED BY <1>1, <1>2 DEF Paused, Sessions

LEMMA PauseIsTyped ==
    ASSUME NEW p \in Parts, TypeOK, jobs[p].prev \in ClawStates, PauseAsFound(p)
    PROVE  session' \in Sessions
<1> DEFINE i == IF session.intent = "none" THEN "calibration" ELSE session.intent
<1>1. i \in Intents
  BY DEF TypeOK, Sessions, Intents
<1>2. session' = Paused(session, jobs[p].prev, i)
  BY DEF PauseAsFound
<1> QED BY <1>1, <1>2, PausedIsTyped DEF TypeOK

LEMMA BackToReadyIsTyped ==
    ASSUME session \in Sessions
    PROVE  BackToReady \in Sessions
<1>1. "ready" \in ClawStates
  BY DEF ClawStates, PreSessionStates
<1> QED BY <1>1 DEF BackToReady, Sessions

-----------------------------------------------------------------------------
(* One part moves *)

\* What a step of one part has to show: it is at one of its own steps, it is
\* outside Waiting exactly when it leaves with the lock, and the lock moves
\* between it and nobody.
LEMMA MovePreserves ==
    ASSUME IInv, NEW p \in Parts, NEW j \in Jobs,
           jobs' = [jobs EXCEPT ![p] = j],
           j.step \in StepsOf[p], j.step # "idle" => j.prev \in ClawStates,
           jobs[p].step # "idle" \/ p = "keepalive" \/ OneAtATime,
           j.step \notin Waiting <=> ioLock' = p,
           ioLock' \in {ioLock, p} \/ (ioLock = p /\ ioLock' = "none"),
           ioLock' = p => ioLock \in {p, "none"},
           session' \in Sessions, broker' \in {"running", "stopped"}, KnowsBroker'
    PROVE  IInv'
<1>1. TypeOK'
  BY DEF IInv, TypeOK
<1>2. jobs'[p] = j /\ \A q \in Parts \ {p} : jobs'[q] = jobs[q]
  BY DEF IInv, TypeOK
<1>3. OwnSteps' /\ HasRead'
  BY <1>2 DEF IInv, OwnSteps, HasRead
<1>4. OneRequest'
  BY <1>2 DEF IInv, OneRequest, OneAtATime, At, Parts
<1>5. OneCameraUser'
  <2>1. \A q \in Parts \ {p} : ioLock' = q <=> ioLock = q
    BY DEF Parts
  <2> QED BY <1>2, <2>1 DEF IInv, OneCameraUser
<1> QED BY <1>1, <1>3, <1>4, <1>5 DEF IInv

-----------------------------------------------------------------------------
(* camera_keepalive() *)

LEMMA BeginPreserves ==
    ASSUME IInv, NEW p \in Parts, Begin(p), p = "keepalive" \/ OneAtATime
    PROVE  IInv'
<1> DEFINE j == [NoJob EXCEPT !.step = "lock", !.prev = session.state]
<1>1. j \in Jobs /\ j.step = "lock" /\ j.prev \in ClawStates /\ ~j.stopped
  BY DEF IInv, TypeOK, Sessions, NoJob, Jobs, Steps
<1>2. jobs' = [jobs EXCEPT ![p] = j] /\ jobs[p].step = "idle"
      /\ UNCHANGED <<session, ioLock, broker>>
  BY DEF Begin, At
<1>3. j.step \in StepsOf[p] /\ j.step \in Waiting
  BY <1>1 DEF StepsOf, Parts, Waiting
<1>4. ioLock # p
  BY <1>2 DEF IInv, OneCameraUser, Waiting
<1> HIDE DEF j
<1>5. KnowsBroker'
  BY <1>1, <1>2 DEF IInv, TypeOK, KnowsBroker
<1> QED BY <1>1, <1>2, <1>3, <1>4, <1>5, MovePreserves DEF IInv, TypeOK

LEMMA KeepalivePreserves ==
    ASSUME IInv, Keepalive
    PROVE  IInv'
<1> DEFINE p == "keepalive"
<1>1. p \in Parts /\ jobs[p] \in Jobs
  BY DEF Parts, IInv, TypeOK
<1>2. CASE KeepaliveLock
  <2> DEFINE j == [jobs[p] EXCEPT !.step = "probe"]
  <2>1. j \in Jobs /\ j.step = "probe" /\ j.prev = jobs[p].prev
    BY <1>1 DEF Jobs, Steps
  <2>2. jobs' = [jobs EXCEPT ![p] = j] /\ jobs[p].step = "lock"
        /\ ioLock' = p /\ ioLock = "none" /\ UNCHANGED <<session, broker>>
    BY <1>2 DEF KeepaliveLock, Acquire, Goto, At
  <2>3. j.prev \in ClawStates /\ j.step \in StepsOf[p] /\ j.step \notin Waiting
    BY <1>1, <2>1, <2>2 DEF IInv, HasRead, StepsOf, Waiting
  <2> HIDE DEF j
  <2>4. KnowsBroker'
    BY <2>2 DEF IInv, TypeOK, KnowsBroker, Parts
  <2> QED BY <1>1, <2>1, <2>2, <2>3, <2>4, MovePreserves DEF IInv, TypeOK
<1>3. CASE KeepaliveOk \/ KeepaliveFails
  <2>1. session' \in Sessions /\ jobs' = [jobs EXCEPT ![p] = NoJob] /\ jobs[p].step = "probe"
        /\ ioLock' = "none" /\ UNCHANGED broker
    BY <1>1, <1>3, PauseIsTyped
       DEF KeepaliveOk, KeepaliveFails, Finish, At, IInv, TypeOK, HasRead
  <2>2. NoJob \in Jobs /\ NoJob.step = "idle" /\ NoJob.step \in StepsOf[p] /\ "idle" \in Waiting
    BY DEF NoJob, Jobs, Steps, StepsOf, Waiting
  <2>3. ioLock = p
    BY <1>1, <2>1 DEF IInv, OneCameraUser, Waiting
  <2>4. KnowsBroker'
    BY <2>1 DEF IInv, TypeOK, KnowsBroker, Parts
  <2> QED BY <1>1, <2>1, <2>2, <2>3, <2>4, MovePreserves DEF IInv, TypeOK, Parts
<1> QED BY <1>2, <1>3 DEF Keepalive

-----------------------------------------------------------------------------
(* recover_camera_session() and run_focus_calibration() *)

\* A part that is under way goes on with the lock: it takes it, or has it.
LEMMA WorkPreserves ==
    ASSUME IInv, NEW p \in Parts, NEW j \in Jobs,
           jobs' = [jobs EXCEPT ![p] = j],
           j.step \in StepsOf[p], j.step \notin Waiting, j.prev = jobs[p].prev,
           jobs[p].step # "idle",
           \/ jobs[p].step \in Waiting /\ ioLock = "none" /\ ioLock' = p
           \/ jobs[p].step \notin Waiting /\ UNCHANGED ioLock,
           session' \in Sessions, broker' \in {"running", "stopped"}, KnowsBroker'
    PROVE  IInv'
<1>1. j.prev \in ClawStates
  BY DEF IInv, HasRead
<1>2. ioLock' = p /\ ioLock \in {p, "none"}
  BY DEF IInv, OneCameraUser
<1> QED BY <1>1, <1>2, MovePreserves

\* It gives the lock back, to wait for it again or to end.
LEMMA LeavePreserves ==
    ASSUME IInv, NEW p \in Parts, NEW j \in Jobs,
           jobs' = [jobs EXCEPT ![p] = j],
           j.step \in StepsOf[p], j.step \in Waiting,
           j.step = "idle" \/ j.prev = jobs[p].prev,
           jobs[p].step \notin Waiting, ioLock' = "none",
           session' \in Sessions, broker' \in {"running", "stopped"}, KnowsBroker'
    PROVE  IInv'
<1>1. jobs[p].step # "idle" /\ (j.step # "idle" => j.prev \in ClawStates)
  BY DEF IInv, HasRead, Waiting
<1>2. ioLock = p /\ ioLock' # p
  BY DEF IInv, OneCameraUser, Parts
<1> QED BY <1>1, <1>2, MovePreserves

LEMMA RecoveryPreserves ==
    ASSUME IInv, Recovery
    PROVE  IInv'
<1> DEFINE p == "recovery"
           old == jobs[p]
<1>1. p \in Parts /\ old \in Jobs /\ jobs \in [Parts -> Jobs] /\ session \in Sessions
      /\ broker \in {"running", "stopped"}
  BY DEF Parts, IInv, TypeOK
<1>2. ASSUME NEW j \in Jobs, jobs' = [jobs EXCEPT ![p] = j],
             j.step \in {"lock", "stop"} => ~j.stopped,
             j.step \in {"again", "connect"} /\ j.stopped /\ ~j.failed => broker' = "running"
      PROVE  KnowsBroker'
  BY <1>1, <1>2 DEF KnowsBroker
<1>3. StepsOf[p] = {"idle", "lock", "stop", "files", "start", "again", "connect"}
  BY DEF StepsOf
<1>4. CASE RecoveryLock
  <2> DEFINE j == [old EXCEPT !.step = "stop"]
  <2>1. j \in Jobs /\ j.step = "stop" /\ j.prev = old.prev /\ j.stopped = old.stopped
    BY <1>1 DEF Jobs, Steps
  <2>2. jobs' = [jobs EXCEPT ![p] = j] /\ old.step = "lock" /\ ~old.stopped
        /\ ioLock = "none" /\ ioLock' = p /\ UNCHANGED <<session, broker>>
    BY <1>4 DEF RecoveryLock, Acquire, Goto, At, IInv, KnowsBroker
  <2> HIDE DEF j
  <2>3. KnowsBroker'
    BY <2>1, <2>2, <1>2
  <2> QED BY <1>1, <1>3, <2>1, <2>2, <2>3, WorkPreserves DEF Waiting
<1>5. CASE RecoveryStop
  <2>1. old.step = "stop" /\ ~old.stopped
    BY <1>5 DEF RecoveryStop, At, IInv, KnowsBroker
  <2>2. CASE broker = "running" /\ ProfileStopped("recovery", "files") /\ UNCHANGED <<session, ioLock>>
    <3> DEFINE j == [old EXCEPT !.step = "files", !.stopped = broker = "running"]
    <3>1. j \in Jobs /\ j.step = "files" /\ j.prev = old.prev
      BY <1>1 DEF Jobs, Steps
    <3>2. jobs' = [jobs EXCEPT ![p] = j] /\ broker' = "stopped"
      BY <2>2 DEF ProfileStopped
    <3> HIDE DEF j
    <3>3. KnowsBroker'
      BY <3>1, <3>2, <1>2
    <3> QED BY <1>1, <1>3, <2>1, <2>2, <3>1, <3>2, <3>3, WorkPreserves DEF Waiting
  <2>3. ASSUME NEW f \in BOOLEAN, RoundDone(f), broker' \in {"running", "stopped"}
        PROVE  IInv'
    <3> DEFINE j == [old EXCEPT !.step = "again", !.failed = old.failed \/ f]
    <3>1. j \in Jobs /\ j.step = "again" /\ j.prev = old.prev /\ j.stopped = old.stopped
      BY <1>1 DEF Jobs, Steps
    <3>2. jobs' = [jobs EXCEPT ![p] = j] /\ ioLock' = "none" /\ UNCHANGED session
      BY <2>3 DEF RoundDone
    <3> HIDE DEF j
    <3>3. KnowsBroker'
      BY <2>1, <3>1, <3>2, <1>2
    <3> QED BY <1>1, <1>3, <2>1, <2>3, <3>1, <3>2, <3>3, LeavePreserves DEF Waiting
  <2> QED BY <1>1, <1>5, <2>2, <2>3 DEF RecoveryStop, StopRaised
<1>6. CASE FilesRecovered \/ FilesFail
  <2> DEFINE j == IF FilesRecovered THEN [old EXCEPT !.step = "start"]
                                    ELSE [old EXCEPT !.step = "start", !.failed = TRUE]
  <2>1. j \in Jobs /\ j.step = "start" /\ j.prev = old.prev
    BY <1>1 DEF Jobs, Steps
  <2>2. jobs' = [jobs EXCEPT ![p] = j] /\ old.step = "files"
        /\ UNCHANGED <<session, ioLock, broker>>
    BY <1>6 DEF FilesRecovered, FilesFail, Goto, At
  <2> HIDE DEF j
  <2>3. KnowsBroker'
    BY <2>1, <2>2, <1>2
  <2> QED BY <1>1, <1>3, <2>1, <2>2, <2>3, WorkPreserves DEF Waiting
<1>7. CASE RecoveryRestart
  <2>1. old.step = "start"
    BY <1>7 DEF RecoveryRestart, At
  <2>2. PICK f \in BOOLEAN : RoundDone(f) /\ broker' \in {"running", "stopped"}
                             /\ (~f => broker' = "running")
    BY <1>1, <1>7 DEF RecoveryRestart, StartRaised
  <2> DEFINE j == [old EXCEPT !.step = "again", !.failed = old.failed \/ f]
  <2>3. j \in Jobs /\ j.step = "again" /\ j.prev = old.prev /\ (~j.failed => ~f)
    BY <1>1 DEF Jobs, Steps
  <2>4. jobs' = [jobs EXCEPT ![p] = j] /\ ioLock' = "none" /\ UNCHANGED session
    BY <2>2 DEF RoundDone
  <2> HIDE DEF j
  <2>5. KnowsBroker'
    BY <2>2, <2>3, <2>4, <1>2
  <2> QED BY <1>1, <1>3, <2>1, <2>2, <2>3, <2>4, <2>5, LeavePreserves DEF Waiting
<1>8. CASE RecoveryLockAgain
  <2> DEFINE j == [old EXCEPT !.step = "connect"]
  <2>1. j \in Jobs /\ j.step = "connect" /\ j.prev = old.prev /\ j.stopped = old.stopped
        /\ j.failed = old.failed
    BY <1>1 DEF Jobs, Steps
  <2>2. jobs' = [jobs EXCEPT ![p] = j] /\ old.step = "again"
        /\ (old.stopped /\ ~old.failed => broker = "running")
        /\ ioLock = "none" /\ ioLock' = p /\ UNCHANGED <<session, broker>>
    BY <1>8 DEF RecoveryLockAgain, Acquire, Goto, At, IInv, KnowsBroker
  <2> HIDE DEF j
  <2>3. KnowsBroker'
    BY <2>1, <2>2, <1>2
  <2> QED BY <1>1, <1>3, <2>1, <2>2, <2>3, WorkPreserves DEF Waiting
<1>9. CASE Recovered \/ ReconnectFails
  <2>1. jobs' = [jobs EXCEPT ![p] = NoJob] /\ old.step = "connect" /\ ioLock' = "none"
        /\ UNCHANGED broker
    BY <1>9 DEF Recovered, ReconnectFails, Finish, At
  <2>2. session' \in Sessions
    BY <1>1, <1>9, <2>1, PauseIsTyped DEF Recovered, ReconnectFails, IInv, HasRead
  <2>3. NoJob \in Jobs /\ NoJob.step = "idle"
    BY DEF NoJob, Jobs, Steps
  <2>4. KnowsBroker'
    BY <2>1, <2>3, <1>2
  <2> QED BY <1>1, <1>3, <2>1, <2>2, <2>3, <2>4, LeavePreserves DEF Waiting
<1> QED BY <1>4, <1>5, <1>6, <1>7, <1>8, <1>9 DEF Recovery

LEMMA FocusPreserves ==
    ASSUME IInv, Focus
    PROVE  IInv'
<1> DEFINE p == "focus"
           old == jobs[p]
<1>1. p \in Parts /\ old \in Jobs /\ jobs \in [Parts -> Jobs] /\ session \in Sessions
      /\ broker \in {"running", "stopped"} /\ old.step # "idle"
  BY DEF Parts, IInv, TypeOK, At, Focus, FocusLock, FocusStop, FocusSwept, FocusFails,
         FocusEnds, FocusReturns, FocusEndRaises
\* No recovery is under way, so that what it knows of the broker is not at stake.
<1>2. ASSUME NEW j, jobs' = [jobs EXCEPT ![p] = j]
      PROVE  KnowsBroker'
  BY <1>1, <1>2 DEF KnowsBroker, IInv, OneRequest, At, Parts
<1>3. StepsOf[p] = {"idle", "lock", "stop", "sweep", "cleanup", "finish", "ready"}
  BY DEF StepsOf
<1>4. BackToReady \in Sessions
  BY <1>1, BackToReadyIsTyped
<1>5. NoJob \in Jobs /\ NoJob.step = "idle"
  BY DEF NoJob, Jobs, Steps
<1>6. CASE FocusLock
  <2> DEFINE j == [old EXCEPT !.step = "stop"]
  <2>1. j \in Jobs /\ j.step = "stop" /\ j.prev = old.prev
    BY <1>1 DEF Jobs, Steps
  <2>2. jobs' = [jobs EXCEPT ![p] = j] /\ old.step = "lock"
        /\ ioLock = "none" /\ ioLock' = p /\ UNCHANGED broker
    BY <1>6 DEF FocusLock, Acquire, Goto, At
  <2>3. session' \in Sessions
    BY <1>1, <1>6 DEF FocusLock, Sessions, ClawStates, LoopStates, Intents
  <2> HIDE DEF j
  <2> QED BY <1>1, <1>2, <1>3, <2>1, <2>2, <2>3, WorkPreserves DEF Waiting
<1>7. CASE FocusStop \/ FocusSwept
  <2>1. PICK j \in Jobs : /\ jobs' = [jobs EXCEPT ![p] = j] /\ j.prev = old.prev
                          /\ j.step \in {"sweep", "cleanup", "finish"}
    <3>1. CASE FocusStop /\ ProfileStopped("focus", "sweep")
      <4> DEFINE j == [old EXCEPT !.step = "sweep", !.stopped = broker = "running"]
      <4>1. j \in Jobs /\ j.step = "sweep" /\ j.prev = old.prev
        BY <1>1 DEF Jobs, Steps
      <4>2. jobs' = [jobs EXCEPT ![p] = j]
        BY <3>1 DEF ProfileStopped
      <4> QED BY <4>1, <4>2
    <3>2. ASSUME NEW to \in {"cleanup", "finish"}, Goto("focus", to)
          PROVE  \E j \in Jobs : /\ jobs' = [jobs EXCEPT ![p] = j] /\ j.prev = old.prev
                                 /\ j.step \in {"sweep", "cleanup", "finish"}
      <4> DEFINE j == [old EXCEPT !.step = to]
      <4>1. j \in Jobs /\ j.step = to /\ j.prev = old.prev
        BY <1>1 DEF Jobs, Steps
      <4>2. jobs' = [jobs EXCEPT ![p] = j]
        BY <3>2 DEF Goto
      <4> QED BY <4>1, <4>2
    <3> QED BY <1>7, <3>1, <3>2 DEF FocusStop, FocusSwept
  <2>2. old.step \in {"stop", "sweep"} /\ UNCHANGED <<session, ioLock>>
        /\ broker' \in {"running", "stopped"}
    BY <1>1, <1>7 DEF FocusStop, FocusSwept, ProfileStopped, StopRaised, At
  <2> QED BY <1>1, <1>2, <1>3, <2>1, <2>2, WorkPreserves DEF Waiting
<1>8. CASE FocusFails \/ FocusEndRaises
  <2>1. jobs' = [jobs EXCEPT ![p] = NoJob] /\ ioLock' = "none"
        /\ old.step \in {"cleanup", "finish"}
    BY <1>8 DEF FocusFails, FocusEndRaises, Finish, At
  <2>2. session' \in Sessions /\ broker' \in {"running", "stopped"}
    BY <1>1, <1>4, <1>8 DEF FocusFails, FocusEndRaises, StartRaised
  <2> QED BY <1>1, <1>2, <1>3, <1>5, <2>1, <2>2, LeavePreserves DEF Waiting
<1>9. CASE FocusEnds
  <2> DEFINE j == [old EXCEPT !.step = "ready"]
  <2>1. j \in Jobs /\ j.step = "ready" /\ j.prev = old.prev
    BY <1>1 DEF Jobs, Steps
  <2>2. jobs' = [jobs EXCEPT ![p] = j] /\ old.step = "finish"
        /\ ioLock' = "none" /\ UNCHANGED session /\ broker' \in {"running", "stopped"}
    BY <1>1, <1>9 DEF FocusEnds, Goto, At
  <2> HIDE DEF j
  <2> QED BY <1>1, <1>2, <1>3, <2>1, <2>2, LeavePreserves DEF Waiting
<1>10. CASE FocusReturns
  <2>1. jobs' = [jobs EXCEPT ![p] = NoJob] /\ old.step = "ready"
        /\ UNCHANGED <<ioLock, broker>> /\ session' \in Sessions
    BY <1>4, <1>10 DEF FocusReturns, At
  <2>2. ioLock # p
    BY <1>1, <2>1 DEF IInv, OneCameraUser, Waiting
  <2> QED BY <1>1, <1>2, <1>3, <1>5, <2>1, <2>2, MovePreserves DEF Waiting
<1> QED BY <1>6, <1>7, <1>8, <1>9, <1>10 DEF Focus

-----------------------------------------------------------------------------
(* The session's other requests *)

LEMMA OperatorPreserves ==
    ASSUME IInv, NEW next \in Sessions, Operator(next)
    PROVE  IInv'
  BY DEF Operator, IInv, TypeOK, OwnSteps, HasRead, OneRequest, OneCameraUser, KnowsBroker, At

LEMMA RequestsPreserve ==
    ASSUME IInv, SessionWorks \/ SessionPauses \/ SessionResumes \/ SessionEnds
    PROVE  IInv'
<1>1. session \in Sessions
  BY DEF IInv, TypeOK
<1>2. {"test_capture", "target_acquired", "completed", "ready", "calibrate", "monitoring"}
        \subseteq ClawStates
  BY DEF ClawStates, PreSessionStates, LoopStates, TerminalStates, SupervisoryStates
<1>3. CASE SessionWorks
  <2>1. /\ [EnterCalibrate(session) EXCEPT !.state = "test_capture", !.managed = TRUE] \in Sessions
        /\ EnterTargetAcquired(session) \in Sessions
        /\ [session EXCEPT !.state = "test_capture"] \in Sessions
    BY <1>1, <1>2 DEF EnterCalibrate, EnterTargetAcquired, Sessions, Intents
  <2> QED BY <1>3, <2>1, OperatorPreserves DEF SessionWorks
<1>4. CASE SessionPauses
  <2>1. PauseTarget(session).resume \in ClawStates /\ PauseTarget(session).intent \in Intents
    BY <1>1, <1>2 DEF PauseTarget, Sessions, Intents
  <2>2. Paused(session, PauseTarget(session).resume, PauseTarget(session).intent) \in Sessions
    BY <1>1, <2>1, PausedIsTyped
  <2> QED BY <1>4, <2>2, OperatorPreserves DEF SessionPauses
<1>5. CASE SessionResumes
  <2>1. session.ctx \in Contexts
    BY <1>1, <1>5 DEF SessionResumes, Sessions
  <2>2. [session EXCEPT !.state = session.ctx.resume, !.intent = session.ctx.intent,
                        !.ctx = NoContext] \in Sessions
    BY <1>1, <2>1 DEF Sessions, Contexts
  <2> QED BY <1>5, <2>2, OperatorPreserves DEF SessionResumes
<1>6. CASE SessionEnds
  <2>1. Stopped(session) \in Sessions /\ Cleared(session) \in Sessions
    BY <1>1, <1>2 DEF Stopped, Ended, Cleared, Sessions, Outcomes
  <2> QED BY <1>6, <2>1, OperatorPreserves DEF SessionEnds
<1> QED BY <1>3, <1>4, <1>5, <1>6

-----------------------------------------------------------------------------
(* The theorems *)

LEMMA InitEstablishes == Init => IInv
<1> SUFFICES ASSUME Init PROVE IInv
  OBVIOUS
<1>1. "ready" \in ClawStates
  BY DEF ClawStates, PreSessionStates
<1>2. session \in Sessions
  BY <1>1 DEF Init, ReadySession, Sessions
<1>3. NoJob \in Jobs /\ NoJob.step = "idle" /\ ~NoJob.stopped
  BY DEF NoJob, Jobs, Steps
<1>4. TypeOK /\ \A p \in Parts : jobs[p] = NoJob
  BY <1>2, <1>3 DEF Init, TypeOK, Parts
<1>5. OwnSteps /\ HasRead /\ OneRequest /\ KnowsBroker
  BY <1>3, <1>4 DEF OwnSteps, HasRead, OneRequest, KnowsBroker, At, StepsOf, Parts
<1>6. OneCameraUser
  BY <1>3, <1>4 DEF Init, OneCameraUser, Parts, Waiting
<1> QED BY <1>4, <1>5, <1>6 DEF IInv

LEMMA StepPreserves == IInv /\ [Next]_vars => IInv'
<1> SUFFICES ASSUME IInv, [Next]_vars PROVE IInv'
  OBVIOUS
<1>1. CASE KeepaliveStart
  BY <1>1, BeginPreserves DEF KeepaliveStart, Parts
<1>2. CASE OneAtATime /\ (RecoveryStart \/ FocusStart)
  BY <1>2, BeginPreserves DEF RecoveryStart, FocusStart, Parts
<1>3. CASE Keepalive
  BY <1>3, KeepalivePreserves
<1>4. CASE Recovery
  BY <1>4, RecoveryPreserves
<1>5. CASE Focus
  BY <1>5, FocusPreserves
<1>6. CASE SessionWorks \/ SessionPauses \/ SessionResumes \/ SessionEnds
  BY <1>6, RequestsPreserve
<1>7. CASE UNCHANGED vars
  BY <1>7 DEF vars, IInv, TypeOK, OwnSteps, HasRead, OneRequest, OneCameraUser, KnowsBroker, At
<1> QED BY <1>1, <1>2, <1>3, <1>4, <1>5, <1>6, <1>7 DEF Next

LEMMA Invariance == Spec => []IInv
  BY InitEstablishes, StepPreserves, PTL DEF Spec

\* The session keeps a well-formed state, intent and resume target, whatever the
\* keepalive, a recovery and a focus calibration write over it after they waited.
THEOREM TypeCorrect == Spec => []TypeOK
<1>1. IInv => TypeOK
  BY DEF IInv
<1> QED BY <1>1, Invariance, PTL

\* _camera_io_lock does its work: outside its waits a part holds the lock, no two
\* parts do, and no way out of a part, by success, failure or exception, keeps it.
THEOREM LockedCamera == Spec => []OneCameraUser
<1>1. IInv => OneCameraUser
  BY DEF IInv
<1> QED BY <1>1, Invariance, PTL

\* recover_camera_session() reports success only with the profile that it stopped
\* running again, although it gives up the lock between its two rounds.
THEOREM RecoveryRestoresBroker == Spec => SuccessRestoresBroker
<1> DEFINE Ends == At("recovery", "connect") /\ jobs'["recovery"] = NoJob
                     /\ jobs["recovery"].stopped /\ ~jobs["recovery"].failed
                   => broker = "running"
<1>1. IInv /\ [Next]_vars => [Ends]_vars
  BY DEF IInv, KnowsBroker, At
<1> QED BY <1>1, Invariance, PTL DEF Spec, SuccessRestoresBroker

=============================================================================
