----------------------------- MODULE FrameWatch -----------------------------
(***************************************************************************)
(* From a frame that Ekos writes to what the session does about it:        *)
(* FrameWatcher (imaging/watcher.py) polls the output directory and        *)
(* analyzes new files, _frame_watcher_loop (api/app.py) keeps one rolling  *)
(* FrameQualitySession per managed session, and observe_landed_frame()     *)
(* (agent/claw.py) hands the verdict to evaluate_guard() while the session *)
(* captures.  The files, the session and the loop move independently: an   *)
(* analysis runs in a thread and takes its time.  The guard itself runs on *)
(* the event loop and is one step here.                                    *)
(*                                                                         *)
(* A name in Frames stands for a file as long as something remembers it;   *)
(* it is used again for a new file once the old one has been seen.         *)
(*                                                                         *)
(* Left out: frame records on disk, the handover window that a trend pause *)
(* opens, and how a session reaches CAPTURE, which ManagedRun models.      *)
(***************************************************************************)
EXTENDS KeplerSession, FrameQuality

CONSTANTS
    Frames,         \* names of files, numbered in the order of their paths
    Unreadable,     \* those whose format the analyzer cannot load
    Skies,          \* the measurements that a frame may give
    SessionIds, NoSession,
    MaxBadFrames    \* MAX_CONSECUTIVE_BAD_FRAMES

ASSUME FramesAssumption ==
    /\ Frames \subseteq Nat /\ IsFiniteSet(Frames) /\ Unreadable \subseteq Frames
    /\ Skies \subseteq Measurements
    /\ NoSession \notin SessionIds
    /\ MaxBadFrames \in Nat \ {0}

VARIABLES
    disk,         \* what Ekos has written of each frame
    seen,         \* FrameWatcher._seen
    todo,         \* the new files of this poll that are not analyzed yet
    observed,     \* the frames that reached observe_landed_frame()
    rolling,      \* the rolling window, each result with its session
    lastId,       \* last_session_id of the loop
    session,      \* RuntimeSession
    sessionId,    \* its session_id
    badFrames     \* consecutive_bad_frames; saturates, for it is only compared

files == <<disk, seen, todo, observed>>
owner == <<session, sessionId, badFrames>>
vars  == <<disk, seen, todo, observed, rolling, lastId, session, sessionId, badFrames>>

Ids == SessionIds \cup {NoSession}
Entry(result, id) == [result |-> result, of |-> id]
ResultsOf(window) == [i \in 1..Len(window) |-> window[i].result]

TypeOK ==
    /\ disk \in [Frames -> {"absent", "partial", "whole"}]
    /\ seen \subseteq Frames /\ observed \subseteq Frames
    /\ todo \in Seq(Frames)
    /\ rolling \in Seq([result: Results, of: Ids]) /\ Len(rolling) <= WindowSize
    /\ lastId \in Ids /\ sessionId \in Ids
    /\ session \in Sessions
    /\ badFrames \in 0..MaxBadFrames

OnDisk == {f \in Frames : disk[f] # "absent"}

\* Files that exist when the watcher starts count as seen, complete or not.
Init ==
    /\ disk \in [Frames -> {"absent", "partial", "whole"}]
    /\ seen = OnDisk
    /\ todo = <<>> /\ observed = {} /\ rolling = <<>>
    /\ lastId = NoSession /\ sessionId = NoSession
    /\ session = ReadySession
    /\ badFrames = 0

-----------------------------------------------------------------------------
(* Ekos writes files *)

FrameBegun(f) ==
    /\ disk[f] = "absent" /\ disk' = [disk EXCEPT ![f] = "partial"]
    /\ UNCHANGED <<seen, todo, observed, rolling, lastId, owner>>

FrameWritten(f) ==
    /\ disk[f] = "partial" /\ disk' = [disk EXCEPT ![f] = "whole"]
    /\ UNCHANGED <<seen, todo, observed, rolling, lastId, owner>>

\* The next file takes the place of one that is done with.
Forgotten(f) ==
    /\ disk[f] = "whole" /\ f \in seen
    /\ disk' = [disk EXCEPT ![f] = "absent"]
    /\ seen' = seen \ {f} /\ observed' = observed \ {f}
    /\ UNCHANGED <<todo, rolling, lastId, owner>>

-----------------------------------------------------------------------------
(* The watcher and its loop *)

PollMarksSeen ==                   \* faulty: new files count as seen at once
    /\ todo = <<>>
    /\ todo' = Ascending(OnDisk \ seen)
    /\ seen' = seen \cup OnDisk
    /\ UNCHANGED <<disk, observed, rolling, lastId, owner>>

Poll ==
    /\ todo = <<>> /\ OnDisk \ seen # {}
    /\ todo' = Ascending(OnDisk \ seen)
    /\ UNCHANGED <<disk, seen, observed, rolling, lastId, owner>>

\* The analysis raises, or finds that the file cannot be opened: next poll.
AnalysisFails ==
    /\ todo # <<>>
    /\ todo' = Tail(todo)
    /\ UNCHANGED <<disk, seen, observed, rolling, lastId, owner>>

NeverReset(result) == Added(rolling, Entry(result, sessionId))   \* faulty
\* FrameWatcher adds the result to the window of the session it knows; the loop
\* replaces that window when the session has changed, and adds it there.
Window(result) ==
    IF sessionId = lastId THEN Added(rolling, Entry(result, sessionId))
                          ELSE <<Entry(result, sessionId)>>

-----------------------------------------------------------------------------
(* observe_landed_frame() and evaluate_guard() *)

BadFrames(overall) ==
    CASE overall = "pass" -> 0
      [] overall = "warn" -> badFrames
      [] overall = "fail" -> IF badFrames < MaxBadFrames THEN badFrames + 1 ELSE badFrames

\* Readiness may block, or raise; then the frame does not count.
GuardBlocked ==
    /\ session' \in {Paused(session, "capture", "capture"), session}
    /\ UNCHANGED badFrames

GuardCounts(overall) ==
    /\ overall = "fail" /\ BadFrames(overall) > 1
    /\ badFrames' = BadFrames(overall)
    /\ session' = IF badFrames' = MaxBadFrames THEN Paused(session, "capture", "capture")
                                              ELSE EnterRecover(session)

\* trigger_autofocus and warn change nothing here; a conflict pauses.
GuardFollows(overall, recommendation) ==
    /\ overall = "fail" => BadFrames(overall) = 1
    /\ badFrames' = BadFrames(overall)
    /\ IF recommendation \in Pauses
       THEN session' = Paused(session, "capture", "capture")
       ELSE session' \in {session, Paused(session, ConflictTarget(session).resume,
                                          ConflictTarget(session).intent)}

Guard(overall, recommendation) ==
    GuardBlocked \/ GuardCounts(overall) \/ GuardFollows(overall, recommendation)

Observe(sky) ==
    LET result == Analyze(sky) IN
    /\ todo # <<>>
    /\ Head(todo) \notin Unreadable
    /\ todo' = Tail(todo)
    /\ seen' = seen \cup {Head(todo)} /\ observed' = observed \cup {Head(todo)}
    /\ rolling' = Window(result)
    /\ lastId' = sessionId
    /\ IF session.state = "capture"
       THEN Guard(result.overall, Recommendation(ResultsOf(rolling')))
       ELSE UNCHANGED <<session, badFrames>>
    /\ UNCHANGED <<disk, sessionId>>

-----------------------------------------------------------------------------
(* The managed session *)

\* A new session_id is one that nothing remembers; which one does not matter.  The
\* count of bad frames is the last session's.
Remembered == {lastId, sessionId} \cup {rolling[i].of : i \in DOMAIN rolling}
NewIds == SessionIds \ Remembered
SessionStarts ==
    /\ session.state = "ready" /\ NewIds # {}
    /\ session' = [EnterTargetAcquired(session) EXCEPT !.managed = TRUE]
    /\ sessionId' = CHOOSE id \in NewIds : TRUE
    /\ UNCHANGED <<files, rolling, lastId, badFrames>>

SessionMoves(next) ==
    /\ session' = next
    /\ UNCHANGED <<files, rolling, lastId, sessionId, badFrames>>

\* Centering ends, a recovery ends.  If a calibration was needed on the way (the
\* first one, or after the mount was reconnected), it has reset the count.
SessionCaptures ==
    /\ session.state \in {"target_acquired", "recover"}
    /\ session' = EnterCapture(session)
    /\ badFrames' \in {badFrames, 0}
    /\ UNCHANGED <<files, rolling, lastId, sessionId>>

SessionPauses ==
    /\ session.state \in {"target_acquired", "capture", "recover"}
    /\ SessionMoves(Paused(session, PauseTarget(session).resume, PauseTarget(session).intent))

SessionResumes ==
    /\ session.state = "paused"
    /\ SessionMoves([session EXCEPT !.state = session.ctx.resume,
                                    !.intent = session.ctx.intent, !.ctx = NoContext])

SessionEnds ==
    /\ session.managed /\ ~IsTerminal(session)
    /\ SessionMoves(Stopped(session))

SessionClears ==
    /\ IsTerminal(session)
    /\ session' = Cleared(session) /\ sessionId' = NoSession
    /\ UNCHANGED <<files, rolling, lastId, badFrames>>

-----------------------------------------------------------------------------

Writer == \E f \in Frames : FrameBegun(f) \/ FrameWritten(f) \/ Forgotten(f)
Loop   == Poll \/ AnalysisFails \/ \E sky \in Skies : Observe(sky)
Manager ==
    \/ SessionStarts
    \/ SessionCaptures \/ SessionPauses \/ SessionResumes \/ SessionEnds \/ SessionClears

Next == Writer \/ Loop \/ Manager

\* The loop runs, and a readable file is finished if it was begun and loaded at last
\* if it is analyzed again and again.
Fairness ==
    /\ WF_vars(Loop)
    /\ \A f \in Frames \ Unreadable :
        /\ WF_vars(FrameWritten(f))
        /\ SF_vars(todo # <<>> /\ Head(todo) = f /\ \E sky \in Skies : Observe(sky))

Spec == Init /\ [][Next]_vars /\ Fairness

-----------------------------------------------------------------------------
(* Safety *)

\* The guard judges a frame on frames that were observed in the same managed
\* session, the frame itself among them: the window of a session that ended is
\* gone, and the first frame after the change is not.
JudgedOnOwnFrames ==
    [][~ (observed' \subseteq observed) =>
        /\ \A i \in DOMAIN rolling' : rolling'[i].of = sessionId
        /\ rolling' # <<>>]_vars

\* Three good frames end a bad trend: the operator who resumed after a pause is not
\* paused again because of what lies behind.
ClearSkyGoesOn ==
    ClearAgain(ResultsOf(rolling)) =>
        Recommendation(ResultsOf(rolling)) \notin Pauses \cup {"trigger_autofocus"}

-----------------------------------------------------------------------------
(* Liveness *)

\* A readable frame that Ekos begins after the watcher started reaches the
\* guard, though it is first found half written, though other files, readable or
\* not, come before it, and though an analysis may fail.
FramesAreObserved ==
    \A f \in Frames \ Unreadable :
        disk[f] = "partial" /\ f \notin seen ~> f \in observed

=============================================================================
