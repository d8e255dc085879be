----------------------------- MODULE FocusAssist -----------------------------
(***************************************************************************)
(* The two operations that move the Fuji lens, one at a time: their        *)
(* endpoints hold _camera_io_lock, which CameraPath models:                *)
(*                                                                         *)
(*   assist     FujiFocusAssistRunner.run(): expose on five coarse and     *)
(*              five fine positions, move to the sharpest one, or back     *)
(*   calibrate  Gphoto2CameraBackend.calibrate_focus_range(): drive into   *)
(*              both stops, derive the working range, move back            *)
(*                                                                         *)
(* A move is read back once the lens has settled, up to "drift" away from  *)
(* where it was sent; every later decision uses the reading, not the       *)
(* target.  A frame is its half-flux radius, or NoStars; star count and    *)
(* gradient only break ties.  Of the samples taken, the state keeps what   *)
(* run() goes on to use: the baseline and the best of each sweep.  Left    *)
(* out: images, gphoto2's command line, and the widefield recommendations, *)
(* which are formulas without state.                                       *)
(***************************************************************************)
EXTENDS Integers, Sequences, SequencesExt, FiniteSetsExt

CONSTANTS
    Travel,         \* last raw position; the stops are 0 and Travel
    FocusMin,       \* focus_min_raw and focus_max_raw of a request
    FocusMax,
    CoarseStep,
    FineSteps,      \* values of fine_step; 0 asks for no fine sweep
    Hfrs,           \* half-flux radii a frame can have
    MinImprovement, \* min_improvement_fraction, in percent
    SafetyMargin,
    Drifts          \* how far a lens may settle from its target

ASSUME FocusAssumption ==
    /\ Travel \in Nat /\ FocusMin \in 0 .. Travel /\ FocusMax \in FocusMin .. Travel
    /\ CoarseStep \in Nat \ {0} /\ FineSteps \subseteq Nat /\ FineSteps # {} /\ Hfrs \subseteq Nat \ {0}
    /\ MinImprovement \in 0 .. 100 /\ SafetyMargin \in Nat \ {0} /\ Drifts \subseteq Nat

VARIABLES
    drift,          \* of the lens that is mounted
    lens,           \* where it is
    phase,          \* what the operation in progress is doing
    request,        \* started_raw (current_raw) and fine_step
    todo,           \* positions the sweep has still to expose at
    baseline,       \* the first coarse sample at started_raw
    best,           \* the best sample with stars: of the coarse sweep,
    refined,        \* and of the fine one
    stops,          \* where the lens settled at the two stops
    result          \* how the last operation ended

vars == <<drift, lens, phase, request, todo, baseline, best, refined, stops, result>>

NoStars == 0
NoSample == [raw |-> -1, hfr |-> NoStars]
Positions == 0 .. Travel
Frames == Hfrs \cup {NoStars}
Samples == [raw: Positions, hfr: Frames]
Phases == {"idle", "coarse", "fine", "low", "high", "restore"}

\* error: a RuntimeError, answered with 422.  no_baseline: the StopIteration of
\* next(), which nothing catches.
Results == {"none", "success", "inconclusive", "calibrated", "error", "no_baseline"}

TypeOK ==
    /\ drift \in Drifts /\ lens \in Positions /\ phase \in Phases
    /\ request \in [start: Positions, step: FineSteps]
    /\ todo \in Seq(FocusMin .. FocusMax) /\ Len(todo) <= 5
    /\ {baseline, best, refined} \subseteq Samples \cup {NoSample}
    /\ stops \in Seq(Positions) /\ Len(stops) <= 2
    /\ result \in Results

Init ==
    /\ drift \in Drifts /\ lens \in Positions
    /\ phase = "idle" /\ result = "none"
    /\ request \in [start: {lens}, step: {Min(FineSteps)}]
    /\ todo = <<>> /\ stops = <<>>
    /\ baseline = NoSample /\ best = NoSample /\ refined = NoSample

-----------------------------------------------------------------------------
(* The camera *)

\* min(max(p, low), high): low wins over p, and high over both.
Clamped(p, low, high) == Min({Max({p, low}), high})

\* set_focus_position_raw(): the readback of a lens that settled near its target,
\* or against a stop.
Settles(target) ==
    LET reached == Clamped(target, 0, Travel)
    IN  {p \in Positions : p \in reached - drift .. reached + drift}

\* The move, the settle test, the exposure or the loading of the frame fails.
\* The lens may have been sent off or not.
CameraFails(target) ==
    /\ lens' \in {lens} \cup Settles(target)
    /\ phase' = "idle" /\ result' = "error"
    /\ UNCHANGED <<drift, request, todo, baseline, best, refined, stops>>

-----------------------------------------------------------------------------
(* Focus assist *)

\* Mutants of UniquePositions: the clamp left out; the start not exposed again.
UnclampedPositions(center, step) == [i \in 1 .. 5 |-> center + (i - 3) * step]
NeighboursOnly(center, step) ==
    LET At(k)  == Clamped(center + k * step, FocusMin, FocusMax)
        New(k) == IF At(k) = At(k - 1) THEN <<>> ELSE <<At(k)>>
    IN  <<At(-2)>> \o New(-1) \o New(1) \o New(2)

\* _unique_positions(): clamped to the request's range.  The positions ascend, so
\* that one that was seen before is the one just before it.
UniquePositions(center, step) ==
    LET At(k)  == Clamped(center + k * step, FocusMin, FocusMax)
        New(k) == IF At(k) = At(k - 1) THEN <<>> ELSE <<At(k)>>
    IN  <<At(-2)>> \o New(-1) \o New(0) \o New(1) \o New(2)

\* connect() raises, or the position cannot be read: the lens is not touched.
Refused ==
    /\ phase = "idle" /\ result' = "error"
    /\ UNCHANGED <<drift, lens, phase, request, todo, baseline, best, refined, stops>>

\* read_focus_position_raw() and the first half of run().
StartAssist(step) ==
    /\ phase = "idle"
    /\ request' = [start |-> lens, step |-> step]
    /\ todo' = UniquePositions(lens, CoarseStep)
    /\ stops' = <<>> /\ baseline' = NoSample /\ best' = NoSample /\ refined' = NoSample
    /\ phase' = "coarse" /\ result' = "none"
    /\ UNCHANGED <<drift, lens>>

\* min(..., key=_sample_sort_key): the samples that can come out of two; between
\* equal radii the star counts and gradients decide.
Sharper(old, new) ==
    CASE new.hfr = NoStars   -> {old}
      [] old = NoSample      -> {new}
      [] new.hfr < old.hfr   -> {new}
      [] new.hfr > old.hfr   -> {old}
      [] OTHER               -> {old, new}

\* _capture_sample(): move, settle, expose, score.
CaptureSample ==
    /\ phase \in {"coarse", "fine"} /\ todo # <<>>
    /\ lens' \in Settles(Head(todo)) /\ todo' = Tail(todo)
    /\ \E hfr \in Frames :
         LET sample == [raw |-> lens', hfr |-> hfr]
         IN  \/ /\ phase = "coarse" /\ best' \in Sharper(best, sample)
                /\ baseline' = IF baseline = NoSample /\ lens' = request.start
                               THEN sample ELSE baseline
                /\ UNCHANGED refined
             \/ /\ phase = "fine" /\ refined' \in Sharper(refined, sample)
                /\ UNCHANGED <<baseline, best>>
    /\ UNCHANGED <<drift, phase, request, stops, result>>

SampleFails ==
    /\ phase \in {"coarse", "fine"} /\ todo # <<>>
    /\ CameraFails(Head(todo))

\* Mutant of RefineSweep: it refines again and again.
\* A star was found in the coarse sweep: look around the best sample.
RefineSweep ==
    /\ phase = "coarse" /\ todo = <<>>
    /\ request.step > 0 /\ best # NoSample
    /\ todo' = UniquePositions(best.raw, request.step)
    /\ phase' = "fine"
    /\ UNCHANGED <<drift, lens, request, baseline, best, refined, stops, result>>

SweepDone ==
    /\ todo = <<>>
    /\ \/ phase = "fine"
       \/ phase = "coarse" /\ (request.step = 0 \/ best = NoSample)

\* best_sample: the fine sweep's, else the coarse sweep's.  Without any star it is
\* the first frame, which never counts as improved.
BestSample == IF refined # NoSample THEN refined ELSE best

\* Mutant of IsImproved: any smaller radius will do.
IsSmaller(base, candidate) == base.hfr # NoStars => candidate.hfr < base.hfr

IsImproved(base, candidate) ==
    base.hfr # NoStars => candidate.hfr * 100 <= base.hfr * (100 - MinImprovement)

Improved == BestSample # NoSample /\ IsImproved(baseline, BestSample)

\* The second half of run(): judge, and move to the best position or back.
\* Mutant: the best position even if it is not better.
BestPosition == IF BestSample # NoSample THEN BestSample.raw ELSE request.start
FinalTarget == IF Improved THEN BestSample.raw ELSE request.start
Conclude ==
    /\ SweepDone /\ baseline # NoSample
    /\ lens' \in Settles(FinalTarget) /\ phase' = "idle"
    /\ result' = IF Improved THEN "success" ELSE "inconclusive"
    /\ UNCHANGED <<drift, request, todo, baseline, best, refined, stops>>

ConcludeFails == SweepDone /\ baseline # NoSample /\ CameraFails(FinalTarget)

\* No coarse frame was read back at the start position.
NoBaseline ==
    /\ SweepDone /\ baseline = NoSample
    /\ phase' = "idle" /\ result' = "no_baseline"
    /\ UNCHANGED <<drift, lens, request, todo, baseline, best, refined, stops>>

-----------------------------------------------------------------------------
(* Focus range calibration *)

StartCalibration ==
    /\ phase = "idle"
    /\ request' = [request EXCEPT !.start = lens]
    /\ todo' = <<>> /\ stops' = <<>> /\ baseline' = NoSample /\ best' = NoSample /\ refined' = NoSample
    /\ phase' = "low" /\ result' = "none"
    /\ UNCHANGED <<drift, lens>>

StopTarget == IF phase = "low" THEN 0 ELSE Travel
DriveToStop ==
    /\ phase \in {"low", "high"}
    /\ lens' \in Settles(StopTarget) /\ stops' = Append(stops, lens')
    /\ phase' = IF phase = "low" THEN "high" ELSE "restore"
    /\ UNCHANGED <<drift, request, todo, baseline, best, refined, result>>

WorkingMin == Min(ToSet(stops)) + SafetyMargin
WorkingMax == Max(ToSet(stops)) - SafetyMargin
\* Mutant of RestoreTarget: back to where the lens was, in the range or not.
RestoreStart == request.start
RestoreTarget == Clamped(request.start, WorkingMin, WorkingMax)

\* "no safe interior range": the lens stays at the stop.
NoSafeRange ==
    /\ phase = "restore" /\ WorkingMin >= WorkingMax
    /\ phase' = "idle" /\ result' = "error"
    /\ UNCHANGED <<drift, lens, request, todo, baseline, best, refined, stops>>

Restore ==
    /\ phase = "restore" /\ WorkingMin < WorkingMax
    /\ lens' \in Settles(RestoreTarget) /\ phase' = "idle" /\ result' = "calibrated"
    /\ UNCHANGED <<drift, request, todo, baseline, best, refined, stops>>

CalibrationFails ==
    \/ phase \in {"low", "high"} /\ CameraFails(StopTarget)
    \/ phase = "restore" /\ WorkingMin < WorkingMax /\ CameraFails(RestoreTarget)

-----------------------------------------------------------------------------

Step ==
    \/ CaptureSample
    \/ SampleFails
    \/ RefineSweep
    \/ Conclude
    \/ ConcludeFails
    \/ NoBaseline
    \/ DriveToStop
    \/ NoSafeRange
    \/ Restore
    \/ CalibrationFails

Next ==
    \/ \E step \in FineSteps : StartAssist(step)
    \/ StartCalibration
    \/ Refused
    \/ Step

Spec == Init /\ [][Next]_vars

-----------------------------------------------------------------------------
(* Properties *)

Near(a, b) == a \in b - drift .. b + drift

\* A success is told only when the frame the lens was moved back for was sharper
\* than the frame at the start by the fraction asked for (or the start showed no
\* stars), and the lens is then where that frame was taken (run(), after ten moves
\* that each settled somewhere else than asked).
SuccessIsSharper ==
    result = "success" =>
        /\ BestSample # NoSample /\ Near(lens, BestSample.raw)
        /\ baseline.hfr # NoStars =>
             (baseline.hfr - BestSample.hfr) * 100 >= MinImprovement * baseline.hfr

\* "inconclusive" means the search changed nothing: the lens is back at the start
\* (test_focus_assist_restores_start_position_when_inconclusive).
InconclusiveReturns ==
    result = "inconclusive" => Near(lens, request.start)

\* With a lens that reads back what it was told and a start inside the range of
\* the request, the coarse sweep always has a frame at the start: clamping and
\* the removal of duplicates never lose it, and next() finds a baseline.
BaselineIsSwept ==
    result = "no_baseline" => drift > 0 \/ request.start \notin FocusMin .. FocusMax

\* A calibration that reports a range has a range that keeps clear of both stops,
\* and has brought the lens back from the last stop into it: to where it was, if
\* that is in the range (calibrate_focus_range()).
CalibrationKeepsClear ==
    result = "calibrated" =>
        /\ 0 < WorkingMin /\ WorkingMax < Travel
        /\ \E p \in WorkingMin .. WorkingMax : Near(lens, p)
        /\ request.start \in WorkingMin .. WorkingMax => Near(lens, request.start)

=============================================================================
