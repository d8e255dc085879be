-------------------------- MODULE ManagedRun_proofs --------------------------
(***************************************************************************)
(* Proofs about ManagedRun for any retry budgets.  Well-formedness and the *)
(* bound on the mount's motion hold whatever the operator's threads do     *)
(* (ThreadedSpec); the rest needs his requests to come between the         *)
(* driver's calls (SerialSpec), as a stop in the middle of one shows.      *)
(*                                                                         *)
(* The heart of the invariant is Sound: what a run that is in a state, for *)
(* an intent, has already done.  It has to hold of the state the session   *)
(* is in and of the one that a paused session would resume.                *)
(***************************************************************************)
EXTENDS ManagedRun, TLAPS

\* The state of the session while the driver's call waits.
StateOf == [test_capture |-> "test_capture", solve |-> "solve",
            mount |-> "correct", settle |-> "correct",
            expose |-> "capture", expose_retry |-> "capture",
            backoff |-> "recover", connect |-> "connect"]
WaitMatches == worker = Idle \/ (worker.wait # "idle" /\ session.state = StateOf[worker.wait])

Looping == LoopStates \ {"target_acquired"}
Sound(state, intent) ==
    /\ state \in Looping => intent \in Verifying
    /\ state \in {"capture", "guard"} => intent = "capture"
    /\ state = "recover" => intent \in Verifying \cup {"capture"}
    /\ state \in Looping \cup CaptureStates /\ intent # "calibration" => calibrated
    /\ state \in CaptureStates \/ (state \in Looping /\ intent = "recovery_verification") =>
         session.locked

PausedHasContext == session.state = "paused" <=> session.ctx # NoContext

\* What a paused session resumes is neither a pause nor an end.
Active(state) == state \notin TerminalStates \cup {"paused"}

\* Only a paused session owns, or waits for, an intervention window.
WindowWhilePaused == window # "closed" => session.state = "paused"

SInv ==
    /\ WaitMatches
    /\ Sound(session.state, session.intent)
    /\ Sound(session.ctx.resume, session.ctx.intent)
    /\ Active(session.ctx.resume)
    /\ PausedHasContext
    /\ WindowWhilePaused
    /\ EndsClean

\* The counters within their retry policy.
Bounded(k) ==
    k \in Counters /\ k.calLoops <= MaxCalibrationLoops /\ k.centLoops <= MaxCenteringLoops

TInv ==
    /\ session \in Sessions
    /\ window \in Windows
    /\ target \in BOOLEAN
    /\ calibrated \in BOOLEAN
    /\ Bounded(counters)
    /\ worker \in Workers

-----------------------------------------------------------------------------
(* Sessions, calls and counters *)

LEMMA StateNames ==
    /\ {"connect", "ready"} \subseteq ClawStates /\ LoopStates \subseteq ClawStates
    /\ CaptureStates \subseteq ClawStates
    /\ {"completed", "failed", "paused", "monitoring"} \subseteq ClawStates
  BY DEF ClawStates, PreSessionStates, TerminalStates, SupervisoryStates

\* Setting the state, and the intent with it.
LEMMA MovedIsTyped ==
    ASSUME NEW s \in Sessions, NEW st \in ClawStates, NEW i \in Intents \cup {"none"}
    PROVE  /\ [s EXCEPT !.state = st] \in Sessions
           /\ [s EXCEPT !.intent = i] \in Sessions
           /\ [s EXCEPT !.state = st, !.intent = i] \in Sessions
           /\ [s EXCEPT !.state = st, !.intent = i, !.ctx = NoContext] \in Sessions
  BY DEF Sessions

LEMMA PausedIsTyped ==
    ASSUME NEW s \in Sessions, NEW r \in ClawStates, NEW i \in Intents
    PROVE  Paused(s, r, i) \in Sessions
<1>1. [resume |-> r, intent |-> i] \in Contexts
  BY DEF Contexts
<1> QED BY <1>1, StateNames DEF Paused, Sessions

LEMMA EnteredIsTyped ==
    ASSUME NEW s \in Sessions
    PROVE  /\ EnterCalibrate(s) \in Sessions
           /\ EnterTargetAcquired(s) \in Sessions
           /\ EnterCapture(s) \in Sessions
           /\ EnterRecover(s) \in Sessions
<1>1. {"calibrate", "target_acquired", "capture", "recover"} \subseteq ClawStates
      /\ {"calibration", "target_centering", "capture"} \subseteq Intents
  BY StateNames DEF LoopStates, CaptureStates, Intents
<1> QED BY <1>1 DEF EnterCalibrate, EnterTargetAcquired, EnterCapture, EnterRecover, Sessions

LEMMA EndedIsTyped ==
    ASSUME NEW s \in Sessions
    PROVE  /\ Ended(s, "completed", "completed") \in Sessions
           /\ Stopped(s) \in Sessions
           /\ Released(s) \in Sessions
           /\ Failed(s) \in Sessions
           /\ Cleared(s) \in Sessions
  BY StateNames DEF Ended, Stopped, Released, Failed, Cleared, Sessions, Outcomes

\* Intents that a pause falls back on.
LEMMA IntentOrIsTyped ==
    ASSUME session \in Sessions, NEW i \in Intents
    PROVE  IntentOr(i) \in Intents
  BY DEF IntentOr, Sessions

LEMMA CallIsTyped ==
    /\ Idle \in Workers
    /\ \A w \in {"test_capture", "settle", "expose", "expose_retry", "backoff", "connect"} :
         [Idle EXCEPT !.wait = w] \in Workers
    /\ \A a \in BOOLEAN : [Idle EXCEPT !.wait = "solve", !.aimed = a] \in Workers
    /\ \A i \in Intents \cup {"none"} : [Idle EXCEPT !.wait = "mount", !.intent = i] \in Workers
  BY DEF Idle, Workers

\* One counter is set, or two of them.
LEMMA CountIsTyped ==
    ASSUME NEW k \in Counters, NEW n \in Nat, NEW m \in Nat
    PROVE  /\ [k EXCEPT !.calLoops = n] \in Counters
           /\ [k EXCEPT !.centLoops = n] \in Counters
           /\ [k EXCEPT !.solves = n] \in Counters
           /\ [k EXCEPT !.solves = m, !.calLoops = n] \in Counters
           /\ [k EXCEPT !.solves = m, !.centLoops = n] \in Counters
           /\ [k EXCEPT !.centLoops = n, !.solves = m] \in Counters
<1>1. \A j \in Counters : [j EXCEPT !.calLoops = n] \in Counters
  BY DEF Counters
<1>2. \A j \in Counters : [j EXCEPT !.centLoops = n] \in Counters
  BY DEF Counters
<1>3. \A j \in Counters, i \in Nat : [j EXCEPT !.solves = i] \in Counters
  BY DEF Counters
<1>4. [[k EXCEPT !.solves = m] EXCEPT !.calLoops = n] \in Counters
  BY <1>1, <1>3
<1>5. [[k EXCEPT !.solves = m] EXCEPT !.centLoops = n] \in Counters
  BY <1>2, <1>3
<1>6. [[k EXCEPT !.centLoops = n] EXCEPT !.solves = m] \in Counters
  BY <1>2, <1>3
<1> QED BY <1>1, <1>2, <1>3, <1>4, <1>5, <1>6

LEMMA CountersBounded ==
    ASSUME Bounded(counters)
    PROVE  /\ Bounded(ResetCounters)
           /\ Bounded([counters EXCEPT !.centLoops = 0, !.solves = 0])
           /\ Bounded([counters EXCEPT !.solves = 0])
           /\ Bounded([counters EXCEPT !.solves = 0, !.calLoops = 0])
           /\ Bounded([counters EXCEPT !.hasFrame = TRUE, !.solves = 1])
           /\ Bounded([counters EXCEPT !.hasFrame = TRUE])
           /\ Bounded([counters EXCEPT !.reconnects = 0])
           /\ Bounded([counters EXCEPT !.reconnects = MaxReconnectAttempts + 1])
           /\ counters.calLoops < MaxCalibrationLoops =>
                Bounded([counters EXCEPT !.solves = 0, !.calLoops = @ + 1])
           /\ counters.centLoops < MaxCenteringLoops =>
                Bounded([counters EXCEPT !.solves = 0, !.centLoops = @ + 1])
           /\ counters.reconnects < MaxReconnectAttempts =>
                Bounded([counters EXCEPT !.reconnects = @ + 1])
           /\ \A b \in 0..MaxBadFrames : Bounded([counters EXCEPT !.badFrames = b])
<1>1. /\ MaxCalibrationLoops \in Nat /\ MaxCenteringLoops \in Nat
      /\ MaxReconnectAttempts \in Nat /\ MaxBadFrames \in Nat
  BY BudgetsAssumption
<1>2. counters \in Counters /\ counters.calLoops \in Nat /\ counters.centLoops \in Nat
      /\ counters.reconnects \in Nat /\ counters.calLoops <= MaxCalibrationLoops
      /\ counters.centLoops <= MaxCenteringLoops
  BY <1>1 DEF Bounded, Counters
<1> DEFINE both == [counters EXCEPT !.centLoops = 0, !.solves = 0]
           cal  == [counters EXCEPT !.solves = 0, !.calLoops = 0]
           calN == [counters EXCEPT !.solves = 0, !.calLoops = @ + 1]
           cenN == [counters EXCEPT !.solves = 0, !.centLoops = @ + 1]
<1>b. ResetCounters \in Counters
  <2>1. [counters EXCEPT !.calLoops = 0] \in Counters
    BY <1>2, CountIsTyped
  <2>2. \A k \in Counters : [k EXCEPT !.centLoops = 0, !.solves = 0] \in Counters
    BY CountIsTyped
  <2>3. \A k \in Counters : [k EXCEPT !.badFrames = 0] \in Counters
    BY <1>1 DEF Counters
  <2> QED BY <2>1, <2>2, <2>3 DEF ResetCounters
<1>c. both \in Counters /\ cal \in Counters
  BY <1>1, <1>2 DEF Counters
<1>d. calN \in Counters /\ cenN \in Counters
  <2>1. \A n \in Nat : [counters EXCEPT !.solves = 0, !.calLoops = n] \in Counters
    BY <1>2, CountIsTyped
  <2>2. \A n \in Nat : [counters EXCEPT !.solves = 0, !.centLoops = n] \in Counters
    BY <1>2, CountIsTyped
  <2>3. counters.calLoops + 1 \in Nat /\ counters.centLoops + 1 \in Nat
    BY <1>2
  <2> QED BY <2>1, <2>2, <2>3
<1>a. /\ ResetCounters.calLoops = 0 /\ ResetCounters.centLoops = 0
      /\ both.calLoops = counters.calLoops /\ both.centLoops = 0
      /\ cal.calLoops = 0 /\ cal.centLoops = counters.centLoops
      /\ calN.calLoops = counters.calLoops + 1 /\ calN.centLoops = counters.centLoops
      /\ cenN.calLoops = counters.calLoops /\ cenN.centLoops = counters.centLoops + 1
  BY <1>2 DEF Counters, ResetCounters
<1>4. Bounded([counters EXCEPT !.solves = 0])
  BY <1>1 DEF Bounded, Counters
<1>5. /\ Bounded([counters EXCEPT !.hasFrame = TRUE, !.solves = 1])
      /\ Bounded([counters EXCEPT !.hasFrame = TRUE])
  BY <1>1 DEF Bounded, Counters
<1>6. /\ Bounded([counters EXCEPT !.reconnects = 0])
      /\ Bounded([counters EXCEPT !.reconnects = MaxReconnectAttempts + 1])
  BY <1>1 DEF Bounded, Counters
<1> HIDE DEF both, cal, calN, cenN
<1>7. Bounded(ResetCounters) /\ Bounded(both) /\ Bounded(cal)
  BY <1>1, <1>2, <1>a, <1>b, <1>c, <1>d DEF Bounded
<1>8. /\ counters.calLoops < MaxCalibrationLoops => Bounded(calN)
      /\ counters.centLoops < MaxCenteringLoops => Bounded(cenN)
  BY <1>1, <1>2, <1>a, <1>b, <1>c, <1>d DEF Bounded
<1>9. counters.reconnects < MaxReconnectAttempts =>
        Bounded([counters EXCEPT !.reconnects = @ + 1])
  BY <1>1, <1>2 DEF Bounded, Counters
<1>10. \A b \in 0..MaxBadFrames : Bounded([counters EXCEPT !.badFrames = b])
  BY <1>1 DEF Bounded, Counters
<1> QED BY <1>4, <1>5, <1>6, <1>7, <1>8, <1>9, <1>10 DEF both, cal, calN, cenN

LEMMA BadFramesIsTyped ==
    ASSUME TInv, NEW quality \in Qualities
    PROVE  BadFrames(quality) \in 0..MaxBadFrames
<1>1. MaxBadFrames \in Nat /\ counters.badFrames \in 0..MaxBadFrames
  BY BudgetsAssumption DEF TInv, Bounded, Counters
<1> QED BY <1>1 DEF BadFrames, Qualities

-----------------------------------------------------------------------------
(* Every step keeps the state well formed and the mount's motion bounded *)

\* The calls that start a run, for the session s they start from.
LEMMA RunKeepsTInv ==
    ASSUME TInv, NEW s \in Sessions, RunTargetCentering(s) \/ RunCalibrate(s)
    PROVE  TInv'
<1> USE DEF TInv
<1>1. /\ {"calibrate", "target_acquired", "test_capture"} \subseteq ClawStates
      /\ {"calibration", "target_centering"} \subseteq Intents
  BY StateNames DEF LoopStates, Intents
<1>2. UNCHANGED <<window, target, calibrated>>
  BY DEF RunTargetCentering, RunAccepted, RunCalibrate
<1>3. worker' \in Workers
  BY CallIsTyped DEF RunTargetCentering, RunAccepted, RunCalibrate, Leave, Loop, WaitFor
<1>4. Bounded(counters')
  BY CountersBounded DEF RunTargetCentering, RunAccepted, RunCalibrate
<1>5. session' \in Sessions
  <2>1. CASE RunCalibrate(s)
    <3>1. EnterCalibrate(s) \in Sessions /\ Paused(s, "calibrate", "calibration") \in Sessions
      BY <1>1, EnteredIsTyped, PausedIsTyped
    <3>2. \A t \in Sessions : [t EXCEPT !.state = "test_capture"] \in Sessions
      BY <1>1, MovedIsTyped
    <3> QED BY <2>1, <3>1, <3>2 DEF RunCalibrate, Leave, Loop
  <2>2. CASE RunAccepted(s)
    <3>1. Paused(s, "target_acquired", "target_centering") \in Sessions
      BY <1>1, PausedIsTyped
    <3>2. \A t \in Sessions : /\ [t EXCEPT !.state = "test_capture"] \in Sessions
                              /\ [t EXCEPT !.intent = "target_centering"] \in Sessions
      BY <1>1, MovedIsTyped
    <3> QED BY <2>2, <3>1, <3>2 DEF RunAccepted, Leave, Loop
  <2> QED BY <2>1, <2>2 DEF RunTargetCentering
<1> QED BY <1>2, <1>3, <1>4, <1>5

LEMMA AnswersKeepTInv ==
    ASSUME TInv, DeviceAnswers
    PROVE  TInv'
<1> USE DEF TInv
<1>1. /\ {"solve", "center_verify", "correct", "calibrate", "target_acquired", "test_capture",
          "guard", "capture", "connect", "ready"} \subseteq ClawStates
      /\ {"calibration", "capture", "recovery_verification"} \subseteq Intents
  BY StateNames DEF LoopStates, CaptureStates, Intents
<1>2. session.intent \in Intents \cup {"none"} /\ IntentOr("calibration") \in Intents
  BY <1>1, IntentOrIsTyped DEF Sessions
<1>3. \A st \in ClawStates : [session EXCEPT !.state = st] \in Sessions
  BY <1>1, <1>2, MovedIsTyped
<1>4. \A st \in ClawStates, i \in Intents : Paused(session, st, i) \in Sessions
  BY PausedIsTyped
<1>5. EnterRecover(session) \in Sessions /\ Failed(session) \in Sessions
  BY EnteredIsTyped, EndedIsTyped
<1>a. CASE TestCaptured
  <2>1. session' \in Sessions
    BY <1>a, <1>1, <1>3 DEF TestCaptured
  <2>2. Bounded(counters')
    BY <1>a, CountersBounded DEF TestCaptured
  <2>3. worker' \in Workers
    BY <1>a, CallIsTyped DEF TestCaptured
  <2> QED BY <1>a, <2>1, <2>2, <2>3 DEF TestCaptured
<1>b. CASE TestCaptureBlocked
  BY <1>b, <1>1, <1>2, <1>4, CallIsTyped DEF TestCaptureBlocked, Leave
<1>c. CASE TestCaptureFails
  BY <1>c, <1>5, CallIsTyped DEF TestCaptureFails, Leave
<1>d. CASE SolveFails
  BY <1>d, <1>1, <1>2, <1>4, <1>5, CallIsTyped DEF SolveFails, Leave
<1>e. CASE Verified
  <2>1. VerifySuccess(session) \in Sessions
    <3>1. [session EXCEPT !.state = "capture", !.intent = "capture"] \in Sessions
      BY <1>1, MovedIsTyped
    <3> QED BY <1>1, <1>3, <1>5, <3>1, EnteredIsTyped DEF VerifySuccess
  <2>2. Bounded(counters')
    BY <1>e, CountersBounded DEF Verified
  <2> QED BY <1>e, <2>1, <2>2, CallIsTyped DEF Verified, Leave
<1>f. CASE VerifyExhausted
  <2>1. session.intent # "none" => Paused(session, RestartState, session.intent) \in Sessions
    BY <1>1, <1>2, <1>4 DEF RestartState
  <2>2. Bounded(counters')
    BY <1>f, CountersBounded DEF VerifyExhausted
  <2> QED BY <1>f, <1>1, <1>3, <2>1, <2>2, CallIsTyped DEF VerifyExhausted, Leave
<1>g. CASE Correct
  <2>1. Bounded(counters')
    <3>1. /\ counters.calLoops \in Nat /\ counters.centLoops \in Nat
          /\ MaxCalibrationLoops \in Nat /\ MaxCenteringLoops \in Nat
      BY BudgetsAssumption DEF Bounded, Counters
    <3>2. IF session.intent = "calibration" THEN counters.calLoops < MaxCalibrationLoops
                                            ELSE counters.centLoops < MaxCenteringLoops
      BY <1>g, <3>1 DEF Correct, LoopsExhausted
    <3> QED BY <1>g, <3>2, CountersBounded DEF Correct
  <2>2. session' \in Sessions
    BY <1>g, <1>1, <1>2, <1>3, <1>4 DEF Correct, Leave, RestartState
  <2>3. worker' \in Workers
    BY <1>g, <1>2, CallIsTyped DEF Correct, Leave
  <2> QED BY <1>g, <2>1, <2>2, <2>3 DEF Correct
<1>h. CASE MountMoved
  BY <1>h, CallIsTyped DEF MountMoved, WaitFor
<1>i. CASE MountFails
  BY <1>i, <1>5, CallIsTyped DEF MountFails, Leave
<1>j. CASE Settled
  BY <1>j, <1>1, <1>3, CallIsTyped DEF Settled, Loop, WaitFor
<1>k. CASE Exposed
  <2>1. Bounded(counters')
    BY <1>k, CountersBounded DEF Exposed
  <2> QED BY <1>k, <1>1, <1>3, <2>1, CallIsTyped DEF Exposed, Leave
<1>l. CASE ExposeBlocked
  BY <1>l, <1>1, <1>4, CallIsTyped DEF ExposeBlocked, Leave
<1>m. CASE ExposeAgain
  BY <1>m, CallIsTyped DEF ExposeAgain, WaitFor
<1>n. CASE ExposeUnwritable
  BY <1>n, <1>5, CallIsTyped DEF ExposeUnwritable, Leave
<1>o. CASE RetryFails
  BY <1>o, <1>5, CallIsTyped DEF RetryFails, Leave
<1>p. CASE BackedOff
  BY <1>p, <1>1, <1>3, CallIsTyped DEF BackedOff, Leave
<1>q. CASE Connected
  <2>1. Bounded(counters')
    BY <1>q, CountersBounded DEF Connected
  <2> QED BY <1>q, <1>1, <1>3, <2>1, CallIsTyped DEF Connected, Leave
<1>r. CASE ConnectFails
  BY <1>r, <1>1, <1>2, <1>4, CallIsTyped DEF ConnectFails, Leave
<1> QED BY <1>a, <1>b, <1>c, <1>d, <1>e, <1>f, <1>g, <1>h, <1>i, <1>j, <1>k, <1>l, <1>m,
           <1>n, <1>o, <1>p, <1>q, <1>r DEF DeviceAnswers

LEMMA CallsKeepTInv ==
    ASSUME TInv, DriverCalls
    PROVE  TInv'
<1> USE DEF TInv
<1>1. /\ {"solve", "capture", "connect", "test_capture"} \subseteq ClawStates
      /\ {"calibration", "capture", "recovery_verification"} \subseteq Intents
  BY StateNames DEF LoopStates, CaptureStates, Intents
<1>2. session.intent \in Intents \cup {"none"} /\ IntentOr("calibration") \in Intents
  BY <1>1, IntentOrIsTyped DEF Sessions
<1>3. Paused(session, "capture", "capture") \in Sessions
  BY <1>1, PausedIsTyped
<1>4. EnterRecover(session) \in Sessions /\ Failed(session) \in Sessions
      /\ Ended(session, "completed", "completed") \in Sessions
  BY EnteredIsTyped, EndedIsTyped
<1>5. PauseOnConflict => session' \in Sessions /\ worker' \in Workers /\ window' \in Windows
  <2>1. ConflictTarget(session).resume \in ClawStates /\ ConflictTarget(session).intent \in Intents
    BY <1>1, <1>2, StateNames DEF ConflictTarget, Sessions, SafeResumeStates, LoopStates
  <2>2. Paused(session, ConflictTarget(session).resume, ConflictTarget(session).intent) \in Sessions
    BY <2>1, PausedIsTyped
  <2> QED BY <2>2, CallIsTyped DEF PauseOnConflict, Leave, Windows
<1>6. \A quality \in Qualities : Judge(quality) => Bounded(counters')
  BY BadFramesIsTyped, CountersBounded DEF Judge
<1>a. CASE CallCalibrate
  BY <1>a, RunKeepsTInv DEF CallCalibrate
<1>b. CASE CallCentering
  BY <1>b, RunKeepsTInv DEF CallCentering
<1>c. CASE CallLoop
  BY <1>c, <1>1, <1>2, MovedIsTyped, CallIsTyped DEF CallLoop, Loop, WaitFor
<1>d. CASE CaptureStart
  BY <1>d, CallIsTyped DEF CaptureStart, WaitFor
<1>e. CASE CaptureConflict
  BY <1>e, <1>5 DEF CaptureConflict
<1>f. CASE GuardCompletes
  BY <1>f, <1>4, CallIsTyped DEF GuardCompletes, Leave
<1>g. CASE GuardBlocked
  BY <1>g, <1>3, CallIsTyped DEF GuardBlocked, Leave
<1>h. CASE GuardRejects
  BY <1>h, <1>3, <1>4, <1>6, CallIsTyped DEF GuardRejects, Leave, Qualities
<1>i. ASSUME NEW quality \in Qualities, GuardTrendPause(quality)
      PROVE  TInv'
  BY <1>i, <1>3, <1>6, CallIsTyped DEF GuardTrendPause, Leave, Windows
<1>j. ASSUME NEW quality \in Qualities, GuardConflict(quality)
      PROVE  TInv'
  BY <1>j, <1>5, <1>6 DEF GuardConflict
<1>k. ASSUME NEW quality \in Qualities, GuardContinues(quality)
      PROVE  TInv'
  <2>1. [session EXCEPT !.state = "capture"] \in Sessions
    BY <1>1, <1>2, MovedIsTyped
  <2> QED BY <1>k, <2>1, <1>6, CallIsTyped DEF GuardContinues, Leave
<1>l. CASE RecoverMountPauses
  <2>1. Bounded(counters')
    BY <1>l, CountersBounded DEF RecoverMountPauses
  <2>2. Paused(session, "connect", IntentOr("calibration")) \in Sessions
    BY <1>1, <1>2, PausedIsTyped
  <2> QED BY <1>l, <2>1, <2>2, CallIsTyped DEF RecoverMountPauses, Leave
<1>m. CASE RecoverMount
  BY <1>m, CountersBounded, CallIsTyped DEF RecoverMount, WaitFor
<1>n. CASE RecoverSameFrame \/ RecoverFreshFrame
  <2>1. VerificationIntent \in Intents \cup {"none"}
    BY <1>1, <1>2 DEF VerificationIntent
  <2>2. \A st \in {"solve", "test_capture"} :
          [session EXCEPT !.state = st, !.intent = VerificationIntent] \in Sessions
    BY <1>1, <2>1, MovedIsTyped
  <2> QED BY <1>n, <2>2, CallIsTyped DEF RecoverSameFrame, RecoverFreshFrame, Leave
<1>o. CASE Fail
  BY <1>o, <1>4, CallIsTyped DEF Fail, Leave, Windows
<1>p. CASE ConnectStart
  BY <1>p, CallIsTyped DEF ConnectStart, WaitFor
<1> QED BY <1>a, <1>b, <1>c, <1>d, <1>e, <1>f, <1>g, <1>h, <1>i, <1>j, <1>k, <1>l, <1>m,
           <1>n, <1>o, <1>p DEF DriverCalls

LEMMA RequestsKeepTInv ==
    ASSUME TInv, OperatorAsks
    PROVE  TInv'
<1> USE DEF TInv
<1>1. \A m \in BOOLEAN : [session EXCEPT !.managed = m] \in Sessions
  BY DEF Sessions
<1>2. \A w \in {"closed", "requested", "releasing"} : w \in Windows
  BY DEF Windows
<1>a. ASSUME NEW staged \in BOOLEAN, StageTarget(staged)
      PROVE  TInv'
  BY <1>a DEF StageTarget
<1>b. CASE StartSession
  BY <1>b, <1>1, RunKeepsTInv DEF StartSession
<1>c. CASE StartUnrecorded
  BY <1>c, <1>1 DEF StartUnrecorded
<1>d. CASE BeginCalibrate
  BY <1>d, EnteredIsTyped, CountersBounded DEF BeginCalibrate
<1>e. CASE Stop
  BY <1>e, <1>2, EndedIsTyped DEF Stop
<1>f. CASE Pause
  <2>1. PauseTarget(session).resume \in ClawStates /\ PauseTarget(session).intent \in Intents
    BY StateNames DEF PauseTarget, Sessions, Intents
  <2>2. Paused(session, PauseTarget(session).resume, PauseTarget(session).intent) \in Sessions
    BY <2>1, PausedIsTyped
  <2> QED BY <1>f, <1>2, <2>2 DEF Pause
<1>g. CASE Resume
  <2>1. session.ctx.resume \in ClawStates /\ session.ctx.intent \in Intents
    BY <1>g DEF Resume, Sessions, Contexts
  <2>2. [session EXCEPT !.state = session.ctx.resume,
                        !.intent = session.ctx.intent, !.ctx = NoContext] \in Sessions
    BY <2>1, MovedIsTyped
  <2> QED BY <1>g, <1>2, <2>2 DEF Resume
<1>h. CASE ResumeStays
  BY <1>h, <1>2 DEF ResumeStays
<1>i. CASE ReleaseControl
  BY <1>i, <1>2, EndedIsTyped DEF ReleaseControl
<1>j. CASE Clear
  BY <1>j, EndedIsTyped DEF Clear
<1> QED BY <1>a, <1>b, <1>c, <1>d, <1>e, <1>f, <1>g, <1>h, <1>i, <1>j DEF OperatorAsks

LEMMA InitTInv == Init => TInv
<1>1. ReadySession \in Sessions
  BY StateNames DEF ReadySession, Sessions
<1>2. /\ MaxCalibrationLoops \in Nat /\ MaxCenteringLoops \in Nat
      /\ MaxReconnectAttempts \in Nat /\ MaxBadFrames \in Nat
  BY BudgetsAssumption
<1>3. Init => Bounded(counters)
  BY <1>2 DEF Init, Bounded, Counters
<1> QED BY <1>1, <1>3, CallIsTyped DEF Init, TInv, Windows

LEMMA TInvIsInductive == TInv /\ [ThreadedNext]_vars => TInv'
<1>1. TInv /\ UNCHANGED vars => TInv'
  BY DEF TInv, vars
<1> QED BY <1>1, AnswersKeepTInv, CallsKeepTInv, RequestsKeepTInv DEF ThreadedNext

\* The state stays well formed and the saturating counters within their range,
\* also when the operator's threads interrupt the driver's calls anywhere.
THEOREM TypeCorrect == ThreadedSpec => []TypeOK
<1>1. TInv => TypeOK
  BY DEF TInv, TypeOK, Bounded
<1> QED BY <1>1, InitTInv, TInvIsInductive, PTL DEF ThreadedSpec

\* No interleaving of requests makes the verification loop move the mount more
\* often than the retry policy allows between two resets of its counters.
THEOREM MotionBounded == ThreadedSpec => []MotionIsBounded
<1>1. TInv => MotionIsBounded
  BY DEF TInv, MotionIsBounded, Bounded
<1> QED BY <1>1, InitTInv, TInvIsInductive, PTL DEF ThreadedSpec

-----------------------------------------------------------------------------
(* The four ways a step can leave the session, for SInv *)

LEMMA ActiveIsOpen ==
    ASSUME SInv, Active(session.state)
    PROVE  session.ctx = NoContext /\ session.outcome = "none" /\ window = "closed"
  BY DEF SInv, Active, PausedHasContext, WindowWhilePaused, EndsClean, IsTerminal

\* While a call waits, the session is in the state that call works in.
LEMMA WaitingIsActive ==
    ASSUME SInv, worker # Idle
    PROVE  /\ session.state = StateOf[worker.wait]
           /\ worker.wait \in DOMAIN StateOf => Active(session.state)
  BY DEF SInv, WaitMatches, StateOf, Active, TerminalStates

LEMMA NothingToResume == Sound("none", "none") /\ Active("none")
  BY DEF Sound, Active, Looping, LoopStates, CaptureStates, TerminalStates

\* The run goes on, in the same or another state.
LEMMA GoesOn ==
    ASSUME SInv, Active(session.state),
           session'.ctx = session.ctx, session'.outcome = session.outcome, window' = window,
           Active(session'.state), Sound(session.state, session.intent)', WaitMatches'
    PROVE  SInv'
<1>1. session'.ctx = NoContext /\ session'.outcome = "none" /\ window' = "closed"
  BY ActiveIsOpen
<1>2. Sound(session.ctx.resume, session.ctx.intent)' /\ Active(session.ctx.resume)'
  BY <1>1, NothingToResume
     DEF NoContext, Sound, Active, Looping, LoopStates, CaptureStates, TerminalStates
<1>3. PausedHasContext' /\ WindowWhilePaused' /\ EndsClean'
  BY <1>1 DEF PausedHasContext, WindowWhilePaused, EndsClean, Active, IsTerminal
<1> QED BY <1>2, <1>3 DEF SInv

\* The run pauses, to resume soundly.
LEMMA PausesAs ==
    ASSUME TInv, SInv, Active(session.state), NEW r, NEW i, Active(r), Sound(r, i), i # "none",
           NEW s \in Sessions, s.locked = session.locked, s.outcome = session.outcome,
           session' = Paused(s, r, i), worker' = Idle, calibrated' = calibrated
    PROVE  SInv'
<1>1. /\ session'.state = "paused" /\ session'.ctx = [resume |-> r, intent |-> i]
      /\ session'.outcome = session.outcome /\ session'.locked = session.locked
  BY DEF TInv, Sessions, Paused
<1>2. session.outcome = "none"
  BY ActiveIsOpen
<1>3. Sound(session.ctx.resume, session.ctx.intent)' /\ Active(session.ctx.resume)'
  BY <1>1 DEF Sound, Active
<1>4. Sound(session.state, session.intent)'
  BY <1>1 DEF Sound, Looping, LoopStates, CaptureStates
<1>5. PausedHasContext' /\ WindowWhilePaused' /\ EndsClean' /\ WaitMatches'
  BY <1>1, <1>2 DEF PausedHasContext, WindowWhilePaused, EndsClean, IsTerminal, NoContext,
                    TerminalStates, WaitMatches
<1> QED BY <1>3, <1>4, <1>5 DEF SInv

LEMMA Pauses ==
    ASSUME TInv, SInv, Active(session.state), NEW r, NEW i, Active(r), Sound(r, i), i # "none",
           session' = Paused(session, r, i), worker' = Idle, calibrated' = calibrated
    PROVE  SInv'
  BY PausesAs DEF TInv

\* The run ends.
LEMMA Ends ==
    ASSUME TInv, NEW st \in TerminalStates, NEW o \in Outcomes,
           session' = Ended(session, st, o), window' = "closed", worker' = Idle
    PROVE  SInv'
<1>1. /\ session'.state = st /\ session'.ctx = NoContext /\ session'.outcome = o
      /\ ~session'.locked
  BY DEF TInv, Sessions, Ended
<1>2. Sound(session.ctx.resume, session.ctx.intent)' /\ Active(session.ctx.resume)'
  BY <1>1 DEF NoContext, Sound, Active, Looping, LoopStates, CaptureStates, TerminalStates
<1>3. Sound(session.state, session.intent)'
  BY <1>1 DEF Sound, Looping, LoopStates, CaptureStates, TerminalStates
<1>4. PausedHasContext' /\ WindowWhilePaused' /\ EndsClean' /\ WaitMatches'
  BY <1>1 DEF PausedHasContext, WindowWhilePaused, EndsClean, IsTerminal,
              TerminalStates, WaitMatches, Outcomes
<1> QED BY <1>2, <1>3, <1>4 DEF SInv

Waits == {"test_capture", "solve", "mount", "settle", "expose", "expose_retry",
          "backoff", "connect"}

LEMMA Waiting ==
    ASSUME SInv, NEW w \in Waits, At(w)
    PROVE  session.state = StateOf[w] /\ Active(session.state)
<1>1. worker # Idle
  BY DEF At, Idle, Waits
<1>2. w \in DOMAIN StateOf
  BY DEF StateOf, Waits
<1> QED BY <1>1, <1>2, WaitingIsActive DEF At

LEMMA NewCallMatches ==
    /\ worker' = Idle => WaitMatches'
    /\ \A w \in Waits : worker'.wait = w /\ session'.state = StateOf[w] => WaitMatches'
  BY DEF WaitMatches, Waits, StateOf

\* What changing some fields of the session leaves alone.
LEMMA Fields ==
    ASSUME TInv
    PROVE  /\ \A st : LET s == [session EXCEPT !.state = st] IN
                /\ s.state = st /\ s.intent = session.intent /\ s.locked = session.locked
                /\ s.ctx = session.ctx /\ s.outcome = session.outcome
           /\ \A st, i : LET s == [session EXCEPT !.state = st, !.intent = i] IN
                /\ s.state = st /\ s.intent = i /\ s.locked = session.locked
                /\ s.ctx = session.ctx /\ s.outcome = session.outcome
           /\ LET s == EnterRecover(session) IN
                /\ s.state = "recover" /\ s.intent = session.intent /\ s.locked
                /\ s.ctx = session.ctx /\ s.outcome = session.outcome
           /\ LET s == EnterCapture(session) IN
                /\ s.state = "capture" /\ s.intent = "capture" /\ s.locked
                /\ s.ctx = session.ctx /\ s.outcome = session.outcome
           /\ LET s == EnterTargetAcquired(session) IN
                /\ s.state = "target_acquired" /\ s.intent = "target_centering" /\ s.locked
                /\ s.ctx = session.ctx /\ s.outcome = session.outcome
           /\ LET s == EnterCalibrate(session) IN
                /\ s.state = "calibrate" /\ s.intent = "calibration" /\ s.locked
                /\ s.ctx = session.ctx /\ s.outcome = session.outcome
  BY DEF TInv, Sessions, EnterRecover, EnterCapture, EnterTargetAcquired, EnterCalibrate

\* The run goes on in st, for the same intent, which st is as sound for.
LEMMA Advances ==
    ASSUME TInv, SInv, Active(session.state), NEW st, Active(st),
           session' = [session EXCEPT !.state = st], calibrated' = calibrated,
           window' = window, Sound(st, session.intent), WaitMatches'
    PROVE  SInv'
<1>1. /\ session'.state = st /\ session'.intent = session.intent
      /\ session'.locked = session.locked
      /\ session'.ctx = session.ctx /\ session'.outcome = session.outcome
  BY Fields
<1>2. Sound(session.state, session.intent)'
  BY <1>1 DEF Sound
<1> QED BY <1>1, <1>2, GoesOn

\* A call that gives way to recovery, from the loop or from capture and guard.
LEMMA Recovers ==
    ASSUME TInv, SInv, session.state \in Looping \cup {"capture", "guard"},
           session' = EnterRecover(session), worker' = Idle,
           calibrated' = calibrated, window' = window
    PROVE  SInv'
<1>1. /\ session'.state = "recover" /\ session'.intent = session.intent /\ session'.locked
      /\ session'.ctx = session.ctx /\ session'.outcome = session.outcome
  BY Fields
<1>2. Sound(session.state, session.intent)'
  BY <1>1 DEF SInv, Sound, Looping, LoopStates, CaptureStates, Verifying
<1>3. Active(session.state) /\ Active(session'.state)
  BY <1>1 DEF Active, Looping, LoopStates, TerminalStates
<1> QED BY <1>1, <1>2, <1>3, GoesOn, NewCallMatches

LEMMA Fails ==
    ASSUME TInv, session' = Failed(session), window' = "closed", worker' = Idle
    PROVE  SInv'
  BY Ends DEF Failed, TerminalStates, Outcomes

-----------------------------------------------------------------------------
(* Every step keeps SInv; first the answers of the devices *)

LEMMA AnswersKeepSInv ==
    ASSUME TInv, SInv, DeviceAnswers
    PROVE  SInv'
<1> USE DEF Waits
<1>1. ASSUME NEW w \in Waits, At(w)
      PROVE  /\ session.state = StateOf[w] /\ Active(session.state)
             /\ window = "closed" /\ Sound(session.state, session.intent)
  BY <1>1, Waiting, ActiveIsOpen DEF SInv
<1>2. At("test_capture") \/ At("solve") \/ At("mount") \/ At("settle") =>
        /\ session.state \in Looping /\ session.intent \in Verifying
        /\ IntentOr("calibration") = session.intent
  BY <1>1 DEF Looping, LoopStates, StateOf, Sound, IntentOr, Verifying
<1>3. At("expose") \/ At("expose_retry") =>
        session.state = "capture" /\ session.intent = "capture" /\ Sound("guard", "capture")
  BY <1>1 DEF StateOf, Sound, Looping, LoopStates, CaptureStates
<1>4. \A st \in Looping : session.state \in Looping => Sound(st, session.intent) /\ Active(st)
  BY DEF SInv, Sound, Active, Looping, LoopStates, CaptureStates, TerminalStates
<1>5. /\ \A st \in {"calibrate", "test_capture", "solve", "correct", "center_verify"} : st \in Looping
      /\ \A st \in {"connect", "ready", "target_acquired"} : \A i : Sound(st, i)
      /\ \A st \in {"connect", "ready", "target_acquired", "capture", "guard"} : Active(st)
  BY DEF Looping, LoopStates, Sound, CaptureStates, Active, TerminalStates
<1>a. CASE TestCaptured
  <2>1. WaitMatches'
    <3>1. session'.state = "solve" /\ worker'.wait = "solve"
      BY <1>a, Fields DEF TestCaptured, Idle
    <3> QED BY <3>1, NewCallMatches DEF StateOf
  <2> QED BY <1>a, <2>1, <1>1, <1>2, <1>4, <1>5, Advances DEF TestCaptured
<1>b. CASE TestCaptureBlocked
  BY <1>b, <1>1, <1>2, <1>4, <1>5, Pauses DEF TestCaptureBlocked, Leave, Verifying
<1>c. CASE TestCaptureFails
  BY <1>c, <1>2, Recovers DEF TestCaptureFails, Leave
<1>d. CASE SolveFails
  <2>1. CASE counters.solves >= MaxSolveAttempts
    BY <1>d, <2>1, <1>1, <1>2, <1>4, <1>5, Pauses DEF SolveFails, Leave, Verifying
  <2>2. CASE ~(counters.solves >= MaxSolveAttempts)
    BY <1>d, <2>2, <1>2, Recovers DEF SolveFails, Leave
  <2> QED BY <2>1, <2>2
<1>e. CASE Verified
  <2>0. /\ At("solve") /\ session' = VerifySuccess(session) /\ worker' = Idle
        /\ calibrated' = (calibrated \/ session.intent = "calibration") /\ window' = window
    BY <1>e DEF Verified, Leave
  <2>1. window' = "closed" /\ Active(session.state) /\ Sound(session.state, session.intent)
        /\ session.state \in Looping
    BY <2>0, <1>1, <1>2
  <2>2. CASE session.intent = "calibration" /\ target
    <3>1. /\ session'.state = "target_acquired" /\ session'.ctx = session.ctx
          /\ session'.outcome = session.outcome
      BY <2>0, <2>2, Fields DEF VerifySuccess
    <3>2. Sound(session.state, session.intent)'
      BY <3>1 DEF Sound, Looping, LoopStates, CaptureStates
    <3> QED BY <2>0, <2>1, <3>1, <3>2, <1>5, GoesOn, NewCallMatches
  <2>3. CASE session.intent = "calibration" /\ ~target
    <3>1. /\ session'.state = "ready" /\ session'.ctx = session.ctx
          /\ session'.outcome = session.outcome
      BY <2>0, <2>3, Fields DEF VerifySuccess
    <3>2. Sound(session.state, session.intent)'
      BY <3>1 DEF Sound, Looping, LoopStates, CaptureStates
    <3> QED BY <2>0, <2>1, <3>1, <3>2, <1>5, GoesOn, NewCallMatches
  <2>4. CASE session.intent \in {"target_centering", "recovery_verification"}
    <3>1. /\ session'.state = "capture" /\ session'.intent = "capture" /\ session'.locked
          /\ session'.ctx = session.ctx /\ session'.outcome = session.outcome
      BY <2>0, <2>1, <2>4, Fields DEF VerifySuccess, Sound
    <3>2. calibrated'
      BY <2>0, <2>1, <2>4 DEF Sound
    <3>3. Sound(session.state, session.intent)'
      BY <3>1, <3>2 DEF Sound, Looping, LoopStates, CaptureStates
    <3> QED BY <2>0, <2>1, <3>1, <3>3, <1>5, GoesOn, NewCallMatches
  <2> QED BY <2>0, <2>2, <2>3, <2>4, <1>2 DEF Verifying
<1>f. CASE VerifyExhausted
  <2>1. At("solve") /\ session.intent # "none" /\ Active(RestartState)
        /\ Sound(RestartState, session.intent) /\ Active(session.state)
    BY <1>f, <1>1, <1>2, <1>4, <1>5 DEF VerifyExhausted, OutOfTolerance, RestartState, Verifying
  <2> QED BY <1>f, <2>1, Pauses DEF VerifyExhausted, Leave
<1>g. CASE Correct
  <2>1. At("solve") /\ Active(session.state) /\ session.state \in Looping
        /\ session.intent \in Verifying /\ IntentOr("calibration") = session.intent
    BY <1>g, <1>1, <1>2 DEF Correct, OutOfTolerance
  <2>2. CASE session.intent # "calibration" /\ ~target
    <3>1. Active(RestartState) /\ Sound(RestartState, session.intent)
      BY <1>4, <1>5, <2>1 DEF RestartState
    <3> QED BY <1>g, <2>1, <2>2, <3>1, Pauses DEF Correct, Leave, Verifying
  <2>3. CASE ~(session.intent # "calibration" /\ ~target)
    <3>1. session'.state = "correct" /\ worker'.wait = "mount"
      <4>1. session' = [session EXCEPT !.state = "correct"]
            /\ worker' = [Idle EXCEPT !.wait = "mount", !.intent = session.intent]
        BY <1>g, <2>3 DEF Correct
      <4>2. worker'.wait = "mount"
        BY <4>1 DEF Idle
      <4> QED BY <4>1, <4>2, Fields
    <3>2. WaitMatches'
      BY <3>1, NewCallMatches DEF StateOf
    <3> QED BY <1>g, <2>1, <2>3, <3>2, <1>4, <1>5, Advances DEF Correct
  <2> QED BY <2>2, <2>3
<1>h. CASE MountMoved
  <2>1. session' = session /\ window' = window /\ calibrated' = calibrated
        /\ (worker' = Idle \/ worker'.wait = "settle") /\ session.state = "correct"
    BY <1>h, <1>1 DEF MountMoved, WaitFor, Idle, StateOf
  <2>2. WaitMatches'
    BY <2>1, NewCallMatches DEF StateOf
  <2>3. Sound(session.state, session.intent)'
    BY <2>1 DEF SInv, Sound
  <2> QED BY <1>h, <2>1, <2>2, <2>3, <1>1, GoesOn DEF MountMoved
<1>i. CASE MountFails
  BY <1>i, <1>2, Recovers DEF MountFails, Leave
<1>j. CASE Settled
  <2>1. session'.state = "test_capture" /\ worker'.wait = "test_capture"
    BY <1>j, Fields DEF Settled, Loop, WaitFor, Idle
  <2>2. WaitMatches'
    BY <2>1, NewCallMatches DEF StateOf
  <2> QED BY <1>j, <2>2, <1>1, <1>2, <1>4, <1>5, Advances DEF Settled, Loop
<1>k. CASE Exposed
  BY <1>k, <1>1, <1>3, <1>5, Advances, NewCallMatches DEF Exposed, Leave
<1>l. CASE ExposeBlocked
  <2>1. Sound("capture", "capture")
    BY <1>l, <1>1, <1>3 DEF ExposeBlocked
  <2> QED BY <1>l, <2>1, <1>1, <1>5, Pauses DEF ExposeBlocked, Leave
<1>m. CASE ExposeAgain
  <2>1. session' = session /\ window' = window /\ calibrated' = calibrated
        /\ worker'.wait = "expose_retry" /\ session.state = "capture"
    BY <1>m, <1>3 DEF ExposeAgain, WaitFor, Idle
  <2>2. WaitMatches'
    BY <2>1, NewCallMatches DEF StateOf
  <2>3. Sound(session.state, session.intent)'
    BY <2>1 DEF SInv, Sound
  <2> QED BY <1>m, <2>1, <2>2, <2>3, <1>1, GoesOn DEF ExposeAgain
<1>n. CASE ExposeUnwritable
  BY <1>n, <1>1, Fails DEF ExposeUnwritable, Leave
<1>o. CASE RetryFails
  BY <1>o, <1>3, Recovers DEF RetryFails, Leave
<1>p. CASE BackedOff
  <2>1. session'.state = "connect" /\ session'.ctx = session.ctx
        /\ session'.outcome = session.outcome
    BY <1>p, Fields DEF BackedOff, Leave
  <2>2. Sound(session.state, session.intent)'
    BY <2>1 DEF Sound, Looping, LoopStates, CaptureStates
  <2> QED BY <1>p, <2>1, <2>2, <1>1, <1>5, GoesOn, NewCallMatches DEF BackedOff, Leave
<1>q. CASE Connected
  BY <1>q, <1>1, <1>5, Advances, NewCallMatches DEF Connected, Leave
<1>r. CASE ConnectFails
  <2>1. IntentOr("calibration") # "none"
    BY DEF IntentOr
  <2> QED BY <1>r, <2>1, <1>1, <1>5, Pauses DEF ConnectFails, Leave
<1> QED BY <1>a, <1>b, <1>c, <1>d, <1>e, <1>f, <1>g, <1>h, <1>i, <1>j, <1>k, <1>l, <1>m,
           <1>n, <1>o, <1>p, <1>q, <1>r DEF DeviceAnswers

-----------------------------------------------------------------------------
(* The driver's calls and the operator's requests *)

\* The calls that start a run; s is the session, or the session made managed.
LEMMA RunKeepsSInv ==
    ASSUME TInv, SInv, Active(session.state), NEW s \in Sessions,
           s.locked = session.locked, s.ctx = session.ctx, s.outcome = session.outcome,
           RunTargetCentering(s) \/ RunCalibrate(s)
    PROVE  SInv'
<1>1. /\ Active("calibrate") /\ Active("target_acquired") /\ Active("test_capture")
      /\ Sound("calibrate", "calibration") /\ Sound("target_acquired", "target_centering")
  BY DEF Active, TerminalStates, Sound, Looping, LoopStates, CaptureStates, Verifying
<1>2. ASSUME NEW i \in {"calibration", "target_centering"},
             session'.state = "test_capture", session'.intent = i,
             session'.ctx = session.ctx, session'.outcome = session.outcome,
             window' = window, worker' = [Idle EXCEPT !.wait = "test_capture"],
             i # "calibration" => calibrated'
      PROVE  SInv'
  <2>1. WaitMatches'
    BY <1>2, NewCallMatches DEF Idle, Waits, StateOf
  <2>2. Sound(session.state, session.intent)'
    BY <1>2 DEF Sound, Looping, LoopStates, CaptureStates, Verifying
  <2> QED BY <1>1, <1>2, <2>1, <2>2, GoesOn
<1>3. CASE RunCalibrate(s)
  <2>1. CASE Leave(Paused(s, "calibrate", "calibration"))
    BY <1>1, <1>3, <2>1, PausesAs DEF RunCalibrate, Leave
  <2>2. CASE Loop(EnterCalibrate(s))
    <3>1. /\ session'.state = "test_capture" /\ session'.intent = "calibration"
          /\ session'.ctx = session.ctx /\ session'.outcome = session.outcome
      BY <2>2 DEF Loop, EnterCalibrate, Sessions
    <3> QED BY <1>2, <1>3, <2>2, <3>1 DEF RunCalibrate, Loop, WaitFor
  <2> QED BY <1>3, <2>1, <2>2 DEF RunCalibrate
<1>4. CASE RunTargetCentering(s) /\ ~RunCalibrate(s)
  <2>0. calibrated /\ RunAccepted(s)
    BY <1>4 DEF RunTargetCentering
  <2>1. CASE Leave(Paused(s, "target_acquired", "target_centering"))
    BY <1>1, <2>0, <2>1, PausesAs DEF RunAccepted, Leave
  <2>2. CASE Loop([s EXCEPT !.intent = "target_centering"])
    <3>1. /\ session'.state = "test_capture" /\ session'.intent = "target_centering"
          /\ session'.ctx = session.ctx /\ session'.outcome = session.outcome
      BY <2>2 DEF Loop, Sessions
    <3> QED BY <1>2, <2>0, <2>2, <3>1 DEF RunAccepted, Loop, WaitFor
  <2> QED BY <2>0, <2>1, <2>2 DEF RunAccepted
<1> QED BY <1>3, <1>4

LEMMA CallsKeepSInv ==
    ASSUME TInv, SInv, DriverCalls
    PROVE  SInv'
<1> USE DEF Waits
<1>1. ASSUME NEW st, Due(st), Active(st)
      PROVE  /\ session.state = st /\ Active(session.state) /\ window = "closed"
             /\ Sound(session.state, session.intent) /\ worker = Idle
  BY <1>1, ActiveIsOpen DEF SInv, Due
<1>2. /\ \A st \in {"calibrate", "target_acquired", "capture", "guard", "recover",
                    "connect", "solve", "test_capture"} : Active(st)
      /\ \A i : Sound("connect", i)
  BY DEF Active, TerminalStates, Sound, Looping, LoopStates, CaptureStates
<1>3. Due("capture") \/ Due("guard") =>
        /\ Active(session.state) /\ session.state \in {"capture", "guard"}
        /\ session.intent = "capture" /\ Sound("capture", "capture") /\ window = "closed"
  BY <1>1, <1>2 DEF Sound, Looping, LoopStates, CaptureStates
<1>4. Due("capture") \/ Due("guard") => ConflictTarget(session).resume = "capture"
                                        /\ ConflictTarget(session).intent = "capture"
  BY <1>3 DEF ConflictTarget, SafeResumeStates, SupervisoryStates
<1>5. (Due("capture") \/ Due("guard")) /\ PauseOnConflict /\ calibrated' = calibrated => SInv'
  BY <1>2, <1>3, <1>4, Pauses DEF PauseOnConflict, Leave
<1>6. Due("recover") =>
        /\ Active(session.state) /\ window = "closed" /\ session.locked
        /\ session.intent \in Verifying \cup {"capture"}
        /\ (session.intent # "calibration" => calibrated)
  BY <1>1, <1>2 DEF Sound, Looping, LoopStates, CaptureStates
<1>a. CASE CallCalibrate
  BY <1>a, <1>1, <1>2, RunKeepsSInv DEF CallCalibrate, TInv
<1>b. CASE CallCentering
  BY <1>b, <1>1, <1>2, RunKeepsSInv DEF CallCentering, TInv
<1>c. CASE CallLoop
  <2>1. PICK st \in Looping : Due(st)
    BY <1>c DEF CallLoop, Looping
  <2>2. Active(st)
    BY DEF Looping, LoopStates, Active, TerminalStates
  <2>3. Sound("test_capture", session.intent)
    BY <1>1, <2>1, <2>2 DEF Sound, Looping, LoopStates, CaptureStates
  <2>4. session'.state = "test_capture" /\ worker'.wait = "test_capture"
    BY <1>c, Fields DEF CallLoop, Loop, WaitFor, Idle
  <2>5. WaitMatches'
    BY <2>4, NewCallMatches DEF StateOf
  <2> QED BY <1>c, <1>1, <1>2, <2>1, <2>2, <2>3, <2>5, Advances DEF CallLoop, Loop
<1>d. CASE CaptureStart
  <2>1. session' = session /\ window' = window /\ calibrated' = calibrated
        /\ worker'.wait = "expose" /\ session.state = "capture"
    BY <1>d DEF CaptureStart, WaitFor, Idle, Due
  <2>2. WaitMatches'
    BY <2>1, NewCallMatches DEF StateOf
  <2>3. Sound(session.state, session.intent)'
    BY <2>1 DEF SInv, Sound
  <2> QED BY <1>d, <2>1, <2>2, <2>3, <1>3, GoesOn DEF CaptureStart
<1>e. CASE CaptureConflict
  BY <1>e, <1>5 DEF CaptureConflict
<1>f. CASE GuardCompletes
  BY <1>f, <1>3, Ends DEF GuardCompletes, Leave, TerminalStates, Outcomes
<1>g. CASE GuardBlocked
  BY <1>g, <1>2, <1>3, Pauses DEF GuardBlocked, Leave
<1>h. CASE GuardRejects
  <2>1. CASE BadFrames("fail") = MaxBadFrames
    BY <1>h, <2>1, <1>2, <1>3, Pauses DEF GuardRejects, Leave
  <2>2. CASE BadFrames("fail") # MaxBadFrames
    BY <1>h, <2>2, <1>3, Recovers DEF GuardRejects, Leave
  <2> QED BY <2>1, <2>2
<1>i. ASSUME NEW quality \in Qualities, GuardTrendPause(quality)
      PROVE  SInv'
  BY <1>i, <1>2, <1>3, Pauses DEF GuardTrendPause, Leave
<1>j. ASSUME NEW quality \in Qualities, GuardConflict(quality)
      PROVE  SInv'
  BY <1>j, <1>5 DEF GuardConflict
<1>k. ASSUME NEW quality \in Qualities, GuardContinues(quality)
      PROVE  SInv'
  BY <1>k, <1>2, <1>3, Advances, NewCallMatches DEF GuardContinues, Leave
<1>l. CASE RecoverMountPauses
  <2>1. IntentOr("calibration") # "none"
    BY DEF IntentOr
  <2> QED BY <1>l, <2>1, <1>2, <1>6, Pauses DEF RecoverMountPauses, Leave
<1>m. CASE RecoverMount
  <2>1. session' = session /\ window' = window /\ calibrated' = calibrated
        /\ worker'.wait = "backoff" /\ session.state = "recover"
    BY <1>m DEF RecoverMount, WaitFor, Idle, Due
  <2>2. WaitMatches'
    BY <2>1, NewCallMatches DEF StateOf
  <2>3. Sound(session.state, session.intent)'
    BY <2>1 DEF SInv, Sound
  <2> QED BY <1>m, <2>1, <2>2, <2>3, <1>6, GoesOn DEF RecoverMount
<1>n. CASE RecoverSameFrame \/ RecoverFreshFrame
  <2>1. PICK st \in {"solve", "test_capture"} :
          session' = [session EXCEPT !.state = st, !.intent = VerificationIntent]
    BY <1>n DEF RecoverSameFrame, RecoverFreshFrame, Leave
  <2>2. /\ Due("recover") /\ worker' = Idle /\ window' = window /\ calibrated' = calibrated
    BY <1>n DEF RecoverSameFrame, RecoverFreshFrame, Leave
  <2>3. VerificationIntent \in Verifying
        /\ (VerificationIntent # "calibration" => session.intent # "calibration")
    BY <1>6, <2>2 DEF VerificationIntent, Verifying
  <2>4. /\ session'.state = st /\ session'.intent = VerificationIntent
        /\ session'.locked = session.locked
        /\ session'.ctx = session.ctx /\ session'.outcome = session.outcome
    BY <2>1, Fields
  <2>5. Sound(session.state, session.intent)'
    BY <1>6, <2>2, <2>3, <2>4 DEF Sound, Looping, LoopStates, CaptureStates, Verifying
  <2> QED BY <1>2, <1>6, <2>2, <2>4, <2>5, GoesOn, NewCallMatches
<1>o. CASE Fail
  BY <1>o, Fails DEF Fail, Leave
<1>p. CASE ConnectStart
  <2>1. session' = session /\ window' = window /\ calibrated' = calibrated
        /\ worker'.wait = "connect" /\ session.state = "connect"
    BY <1>p DEF ConnectStart, WaitFor, Idle, Due
  <2>2. WaitMatches'
    BY <2>1, NewCallMatches DEF StateOf
  <2>3. Sound(session.state, session.intent)'
    BY <2>1 DEF SInv, Sound
  <2> QED BY <1>p, <2>1, <2>2, <2>3, <1>1, <1>2, GoesOn DEF ConnectStart
<1> QED BY <1>a, <1>b, <1>c, <1>d, <1>e, <1>f, <1>g, <1>h, <1>i, <1>j, <1>k, <1>l, <1>m,
           <1>n, <1>o, <1>p DEF DriverCalls

LEMMA RequestsKeepSInv ==
    ASSUME TInv, SInv, worker = Idle, OperatorAsks
    PROVE  SInv'
<1>1. /\ \A st \in {"ready", "target_acquired", "calibrate"} : Active(st)
      /\ \A i : Sound("ready", i)
  BY DEF Active, TerminalStates, Sound, Looping, LoopStates, CaptureStates
<1>2. \A m : LET s == [session EXCEPT !.managed = m] IN
        /\ s.state = session.state /\ s.intent = session.intent /\ s.locked = session.locked
        /\ s.ctx = session.ctx /\ s.outcome = session.outcome
  BY DEF TInv, Sessions
<1>3. \A m \in BOOLEAN : [session EXCEPT !.managed = m] \in Sessions
  BY DEF TInv, Sessions
<1>a. ASSUME NEW staged \in BOOLEAN, StageTarget(staged)
      PROVE  SInv'
  BY <1>a DEF StageTarget, SInv, WaitMatches, Sound, PausedHasContext, WindowWhilePaused,
              EndsClean
<1>b. CASE StartSession
  BY <1>b, <1>1, <1>2, <1>3, RunKeepsSInv DEF StartSession, Due
<1>c. CASE StartUnrecorded
  <2>1. /\ session'.state = "ready" /\ session'.ctx = session.ctx
        /\ session'.outcome = session.outcome /\ session.state = "ready"
    BY <1>c, <1>2 DEF StartUnrecorded, Due
  <2>2. Sound(session.state, session.intent)' /\ WaitMatches'
    BY <1>c, <2>1, NewCallMatches
       DEF StartUnrecorded, Sound, Looping, LoopStates, CaptureStates
  <2> QED BY <1>c, <1>1, <2>1, <2>2, GoesOn DEF StartUnrecorded
<1>d. CASE BeginCalibrate
  <2>1. /\ session'.state = "calibrate" /\ session'.intent = "calibration"
        /\ session'.ctx = session.ctx /\ session'.outcome = session.outcome
    BY <1>d, Fields DEF BeginCalibrate
  <2>2. Sound(session.state, session.intent)' /\ WaitMatches'
    BY <1>d, <2>1, NewCallMatches
       DEF BeginCalibrate, Sound, Looping, LoopStates, CaptureStates, Verifying
  <2> QED BY <1>d, <1>1, <2>1, <2>2, GoesOn DEF BeginCalibrate
<1>e. CASE Stop
  BY <1>e, Ends DEF Stop, Stopped, TerminalStates, Outcomes
<1>f. CASE Pause
  <2>1. Active(session.state)
    BY <1>f DEF Pause, Active
  <2>2. /\ PauseTarget(session).intent # "none" /\ Active(PauseTarget(session).resume)
        /\ Sound(PauseTarget(session).resume, PauseTarget(session).intent)
    BY <2>1 DEF PauseTarget, Active, TerminalStates, SInv, Sound, Looping, LoopStates,
                CaptureStates, Verifying
  <2> QED BY <1>f, <2>1, <2>2, Pauses DEF Pause
<1>g. CASE Resume
  <2>1. /\ session'.state = session.ctx.resume /\ session'.intent = session.ctx.intent
        /\ session'.ctx = NoContext /\ session'.locked = session.locked
        /\ session'.outcome = session.outcome
    BY <1>g DEF Resume, TInv, Sessions
  <2>2. session.outcome = "none" /\ window' = "closed" /\ calibrated' = calibrated
        /\ worker' = Idle
    BY <1>g DEF Resume, SInv, EndsClean, IsTerminal, TerminalStates
  <2>3. Sound(session.state, session.intent)'
    BY <2>1, <2>2 DEF SInv, Sound
  <2>4. Active(session'.state)
    BY <2>1 DEF SInv
  <2>5. Sound(session.ctx.resume, session.ctx.intent)' /\ Active(session.ctx.resume)'
    BY <2>1 DEF NoContext, Sound, Active, Looping, LoopStates, CaptureStates, TerminalStates
  <2>6. PausedHasContext' /\ WindowWhilePaused' /\ EndsClean' /\ WaitMatches'
    BY <2>1, <2>2, <2>4 DEF PausedHasContext, WindowWhilePaused, EndsClean, Active,
                            IsTerminal, WaitMatches
  <2> QED BY <2>3, <2>5, <2>6 DEF SInv
<1>h. CASE ResumeStays
  <2>1. /\ session.state = "paused" /\ session' = session /\ calibrated' = calibrated
        /\ worker' = worker
    BY <1>h DEF ResumeStays
  <2>2. EndsClean'
    BY <2>1 DEF SInv, EndsClean, IsTerminal, TerminalStates
  <2>3. WindowWhilePaused' /\ PausedHasContext' /\ WaitMatches'
    BY <2>1 DEF SInv, WindowWhilePaused, PausedHasContext, WaitMatches
  <2> QED BY <2>1, <2>2, <2>3 DEF SInv, Sound
<1>i. CASE ReleaseControl
  BY <1>i, Ends DEF ReleaseControl, Released, TerminalStates, Outcomes
<1>j. CASE Clear
  <2>1. /\ session'.state = "ready" /\ session'.intent = "none" /\ session'.outcome = "none"
        /\ session'.ctx = session.ctx
    BY <1>j DEF Clear, Cleared, TInv, Sessions
  <2>2. session.ctx = NoContext /\ window' = "closed" /\ worker' = Idle
    BY <1>j DEF Clear, SInv, EndsClean
  <2>3. Sound(session.ctx.resume, session.ctx.intent)' /\ Active(session.ctx.resume)'
    BY <2>1, <2>2 DEF NoContext, Sound, Active, Looping, LoopStates, CaptureStates, TerminalStates
  <2>4. Sound(session.state, session.intent)'
    BY <2>1 DEF Sound, Looping, LoopStates, CaptureStates
  <2>5. PausedHasContext' /\ WindowWhilePaused' /\ EndsClean' /\ WaitMatches'
    BY <2>1, <2>2 DEF PausedHasContext, WindowWhilePaused, EndsClean, IsTerminal,
                      TerminalStates, WaitMatches
  <2> QED BY <2>3, <2>4, <2>5 DEF SInv
<1> QED BY <1>a, <1>b, <1>c, <1>d, <1>e, <1>f, <1>g, <1>h, <1>i, <1>j DEF OperatorAsks

LEMMA InitSInv == Init => SInv
<1>1. ASSUME Init PROVE /\ session.state = "ready" /\ session.ctx = NoContext
                        /\ session.outcome = "none" /\ window = "closed" /\ worker = Idle
  BY <1>1 DEF Init, ReadySession
<1>2. ASSUME Init PROVE SInv
  BY <1>1, <1>2 DEF SInv, NoContext, Sound, Active, Looping, LoopStates, CaptureStates,
     TerminalStates, PausedHasContext, WindowWhilePaused, EndsClean, IsTerminal, WaitMatches
<1> QED BY <1>2

LEMMA SInvIsInductive == TInv /\ SInv /\ [SerialNext]_vars => SInv'
<1>1. TInv /\ SInv /\ UNCHANGED vars => SInv'
  BY DEF SInv, vars, WaitMatches, Sound, PausedHasContext, WindowWhilePaused, EndsClean
<1> QED BY <1>1, AnswersKeepSInv, CallsKeepSInv, RequestsKeepSInv DEF SerialNext

LEMMA SerialInvariant == SerialSpec => [](TInv /\ SInv)
<1>1. TInv /\ [SerialNext]_vars => TInv'
  BY TInvIsInductive DEF SerialNext, ThreadedNext
<1> QED BY <1>1, InitTInv, InitSInv, SInvIsInductive, PTL DEF SerialSpec

\* A run that has ended, by whichever of its terminal paths, has released the
\* lock, forgotten what to resume and closed the intervention window.
THEOREM RunEndsClean == SerialSpec => []EndsClean
<1>1. SInv => EndsClean
  BY DEF SInv
<1> QED BY <1>1, SerialInvariant, PTL

\* The verification loop runs, now or after a resume, only for an intent that it
\* can verify: the branch that the code calls a programming error is dead.
THEOREM LoopHasIntent == SerialSpec => []LoopVerifies
<1>1. SInv => LoopVerifies
  BY DEF SInv, Sound, LoopVerifies, Looping, LoopStates
<1> QED BY <1>1, SerialInvariant, PTL

\* Frames are taken, or resumed, only after an accepted calibration, and under
\* the lock, whatever recoveries, pauses and reconnections came before.
THEOREM CapturesCalibrated == SerialSpec => []CaptureIsCalibrated
<1>1. SInv => CaptureIsCalibrated
  BY DEF SInv, Sound, CaptureIsCalibrated, CaptureStates
<1> QED BY <1>1, SerialInvariant, PTL

=============================================================================
