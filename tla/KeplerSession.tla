---------------------------- MODULE KeplerSession ----------------------------
(***************************************************************************)
(* The mutable runtime session of a Kepler node (RuntimeSession in         *)
(* agent/session.py).  Everything here is a pure operator on a session     *)
(* record: the controller modules decide when each one is applied.         *)
(*                                                                         *)
(* Only the fields that control decisions read are kept.  Coordinates,     *)
(* frame paths, free-text reasons and time stamps are left out; session_id *)
(* is reduced to "managed" (a session_id has been assigned or not).        *)
(***************************************************************************)
-----------------------------------------------------------------------------
(* Enumerations *)

PreSessionStates  == {"boot", "discover", "connect", "ready"}
LoopStates        == {"calibrate", "target_acquired", "test_capture", "solve",
                      "correct", "center_verify"}
CaptureStates     == {"capture", "guard", "recover"}
SupervisoryStates == {"ekos_wait", "monitoring", "intervening"}
TerminalStates    == {"completed", "failed"}

ClawStates == PreSessionStates \cup LoopStates \cup CaptureStates
                \cup SupervisoryStates \cup TerminalStates \cup {"paused"}

Intents  == {"calibration", "focus_calibration", "target_centering",
             "recovery_verification", "capture", "supervision"}
Outcomes == {"completed", "stopped_by_operator", "released_control", "failed"}

\* What pause() stores for a later resume; NoContext is resume_context = None.
Contexts  == [resume: ClawStates, intent: Intents]
NoContext == [resume |-> "none", intent |-> "none"]

Sessions == [state:   ClawStates,
             intent:  Intents \cup {"none"},
             locked:  BOOLEAN,
             ctx:     Contexts \cup {NoContext},
             outcome: Outcomes \cup {"none"},
             managed: BOOLEAN]

\* The session once startup has connected the devices.
ReadySession == [state |-> "ready", intent |-> "none", locked |-> FALSE,
                 ctx |-> NoContext, outcome |-> "none", managed |-> FALSE]

IsTerminal(s) == s.state \in TerminalStates

-----------------------------------------------------------------------------
(* RuntimeSession operations *)

\* enter_...(): each claims the control lock.
EnterCalibrate(s) ==
    [s EXCEPT !.state = "calibrate", !.intent = "calibration", !.locked = TRUE]
EnterTargetAcquired(s) ==
    [s EXCEPT !.state = "target_acquired", !.intent = "target_centering", !.locked = TRUE]
EnterCapture(s) ==
    [s EXCEPT !.state = "capture", !.intent = "capture", !.locked = TRUE]
EnterRecover(s) == [s EXCEPT !.state = "recover", !.locked = TRUE]

\* pause(): the lock is kept, so a paused session still owns the devices.
Paused(s, resume, intent) ==
    [s EXCEPT !.state  = "paused",
              !.intent = intent,
              !.ctx    = [resume |-> resume, intent |-> intent]]

\* pause(): the resume target of an operator pause.
PauseTarget(s) ==
    [resume |-> IF s.state = "intervening" THEN "monitoring" ELSE s.state,
     intent |-> IF s.intent = "none" THEN "calibration" ELSE s.intent]

SafeResumeStates == {"ready", "target_acquired", "test_capture", "capture"}

\* _pause_on_conflict(): the resume target of a conflict pause.
ConflictTarget(s) ==
    LET intent == IF s.intent = "none" THEN "capture" ELSE s.intent
        resume == IF s.state \in SafeResumeStates THEN s.state
                  ELSE IF s.state \in SupervisoryStates THEN "monitoring"
                  ELSE IF intent \in {"capture", "recovery_verification"} THEN "capture"
                  ELSE "target_acquired"
    IN  [resume |-> resume, intent |-> intent]

\* What stop(), fail(), release_control() and a normal completion share.
Ended(s, state, outcome) ==
    [s EXCEPT !.state = state, !.outcome = outcome, !.intent = "none",
              !.locked = FALSE, !.ctx = NoContext]

Stopped(s)  == Ended(s, "completed", "stopped_by_operator")
Released(s) == Ended(s, "completed", "released_control")
Failed(s)   == Ended(s, "failed", "failed")

\* acknowledge_complete() and clear_failure() reset the same fields; neither
\* touches control_locked or resume_context.
Cleared(s) ==
    [s EXCEPT !.state = "ready", !.outcome = "none", !.intent = "none",
              !.managed = FALSE]

=============================================================================
