-------------------------- MODULE FocusAssist_proofs --------------------------
(***************************************************************************)
(* Proofs about FocusAssist, for every lens, range, step, fraction and     *)
(* safety margin that FocusAssumption admits: the five invariants that     *)
(* focus.cfg checks on one lens with seven positions.                      *)
(*                                                                         *)
(* What is known between the steps of a sweep is BaselineDue: as long as   *)
(* the lens settles exactly and the start is in the range, the start has   *)
(* been exposed, or it is still to come.  Everything else is decided in    *)
(* the step that ends the operation, from samples that have their type.    *)
(***************************************************************************)
EXTENDS FocusAssist, SequenceTheorems, WellFoundedInduction, TLAPS

-----------------------------------------------------------------------------
(* The operators the model is built from *)

\* The larger and the smaller of two numbers.
LEMMA OfTwo ==
    ASSUME NEW a \in Int, NEW b \in Int
    PROVE  /\ Max({a, b}) \in {a, b} /\ Max({a, b}) >= a /\ Max({a, b}) >= b
           /\ Min({a, b}) \in {a, b} /\ Min({a, b}) <= a /\ Min({a, b}) <= b
<1>1. PICK m \in {a, b} : m >= a /\ m >= b
  BY DEF Max
<1>2. PICK n \in {a, b} : n <= a /\ n <= b
  BY DEF Min
<1> QED
  BY <1>1, <1>2 DEF Max, Min

\* A set of natural numbers has a smallest element.
LEMMA SmallestExists ==
    ASSUME NEW S \in SUBSET Nat, S # {}
    PROVE  \E n \in S : \A m \in S : n <= m
<1> DEFINE less == {pair \in Nat \X Nat : pair[1] < pair[2]}
<1>1. IsWellFoundedOn(less, Nat)
  BY NatLessThanWellFounded DEF OpToRel
<1>2. PICK n \in S : \A m \in S : <<m, n>> \notin less
  <2> HIDE DEF less
  <2> QED
    BY <1>1, WFMin
<1>3. \A m \in S : ~ (m < n) /\ n \in Nat /\ m \in Nat
  BY <1>2
<1> QED
  BY <1>3

\* A clamped number lies between the bounds, and is the number if that does.
LEMMA ClampedBetween ==
    ASSUME NEW p \in Int, NEW low \in Int, NEW high \in Int, low <= high
    PROVE  /\ Clamped(p, low, high) \in low .. high
           /\ p \in low .. high => Clamped(p, low, high) = p
<1>1. /\ Max({p, low}) \in {p, low}
      /\ Max({p, low}) >= p /\ Max({p, low}) >= low
  BY OfTwo
<1> DEFINE larger == Max({p, low})
<1>2. larger \in Int
  BY <1>1
<1> HIDE DEF larger
<1>3. /\ Min({larger, high}) \in {larger, high}
      /\ Min({larger, high}) <= larger /\ Min({larger, high}) <= high
  BY <1>2, OfTwo
<1>4. larger \in {p, low} /\ larger >= p /\ larger >= low
  BY <1>1 DEF larger
<1>5. Clamped(p, low, high) = Min({larger, high})
  BY DEF Clamped, larger
<1> QED
  BY <1>2, <1>3, <1>4, <1>5

Holds(s, x) == \E i \in 1 .. Len(s) : s[i] = x

\* A list that is joined from two holds what either holds; here the second has one
\* element at most.
LEMMA Joined ==
    ASSUME NEW set, NEW s \in Seq(set), NEW t \in Seq(set), NEW x,
           NEW m \in Nat, Len(s) <= m, Len(t) \in {0, 1}
    PROVE  /\ s \o t \in Seq(set) /\ Len(s \o t) <= m + 1
           /\ Holds(s, x) => Holds(s \o t, x)
           /\ Holds(t, x) => Holds(s \o t, x)
<1>1. /\ s \o t \in Seq(set) /\ Len(s \o t) = Len(s) + Len(t)
      /\ Len(s) \in Nat /\ Len(t) \in Nat
      /\ \A i \in 1 .. Len(s) : (s \o t)[i] = s[i]
      /\ \A i \in 1 .. Len(t) : (s \o t)[Len(s) + i] = t[i]
  OBVIOUS
<1>2. ASSUME NEW i \in 1 .. Len(s), s[i] = x
      PROVE  i \in 1 .. Len(s \o t) /\ (s \o t)[i] = x
  BY <1>1, <1>2
<1>3. ASSUME NEW i \in 1 .. Len(t), t[i] = x
      PROVE  Len(s) + i \in 1 .. Len(s \o t) /\ (s \o t)[Len(s) + i] = x
  BY <1>1, <1>3
<1> QED
  BY <1>1, <1>2, <1>3 DEF Holds

\* _unique_positions(): at most five positions of the range of the request, the
\* one in the middle among them if that is in the range: if it was left out, it
\* was seen before.
LEMMA PositionsOfSweep ==
    ASSUME NEW center \in Int, NEW step \in Nat
    PROVE  LET list == UniquePositions(center, step)
           IN  /\ list \in Seq(FocusMin .. FocusMax) /\ Len(list) <= 5
               /\ center \in FocusMin .. FocusMax =>
                    \E i \in 1 .. Len(list) : list[i] = center
<1> DEFINE range == FocusMin .. FocusMax
           At(k) == Clamped(center + k * step, FocusMin, FocusMax)
           New(k) == IF At(k) = At(k - 1) THEN <<>> ELSE <<At(k)>>
           s0 == <<At(-2)>>
           s1 == s0 \o New(-1)
           s2 == s1 \o New(0)
           s3 == s2 \o New(1)
           s4 == s3 \o New(2)
<1>1. UniquePositions(center, step) = s4
  BY DEF UniquePositions
<1>2. FocusMin \in Int /\ FocusMax \in Int /\ FocusMin <= FocusMax
  BY FocusAssumption
<1>3. ASSUME NEW k \in -2 .. 2
      PROVE  At(k) \in range
  <2>1. center + k * step \in Int
    <3>1. k \in Int /\ center \in Int /\ step \in Int
      OBVIOUS
    <3> QED
      BY <3>1
  <2> QED
    BY <1>2, <2>1, ClampedBetween
<1>4. center \in range => At(0) = center
  <2>1. center + 0 * step = center
    OBVIOUS
  <2> QED
    BY <1>2, <2>1, ClampedBetween
<1> HIDE DEF range, At
<1>5. At(-2) \in range /\ At(-1) \in range /\ At(0) \in range /\ At(1) \in range /\ At(2) \in range
  BY <1>3
<1>6. At(-1 - 1) = At(-2) /\ At(0 - 1) = At(-1)
  OBVIOUS
<1>7. /\ s0 \in Seq(range) /\ Len(s0) <= 1
      /\ At(-2) = center => Holds(s0, center)
  BY <1>5 DEF Holds
<1>8. ASSUME NEW k \in {-1, 0, 1, 2}
      PROVE  /\ New(k) \in Seq(range) /\ Len(New(k)) \in {0, 1}
             /\ At(k) = center => At(k - 1) = center \/ Holds(New(k), center)
  <2>1. At(k) \in range
    BY <1>5
  <2> QED
    BY <2>1 DEF Holds
<1> HIDE DEF New, s0
<1>9. /\ s1 \in Seq(range) /\ Len(s1) <= 1 + 1
      /\ Holds(s0, center) => Holds(s1, center)
      /\ Holds(New(-1), center) => Holds(s1, center)
  BY <1>7, <1>8, Joined
<1> HIDE DEF s1
<1>10. /\ s2 \in Seq(range) /\ Len(s2) <= 2 + 1
       /\ Holds(s1, center) => Holds(s2, center)
       /\ Holds(New(0), center) => Holds(s2, center)
  BY <1>8, <1>9, Joined
<1> HIDE DEF s2
<1>11. s3 \in Seq(range) /\ Len(s3) <= 3 + 1 /\ (Holds(s2, center) => Holds(s3, center))
  BY <1>8, <1>10, Joined
<1> HIDE DEF s3
<1>12. s4 \in Seq(range) /\ Len(s4) <= 4 + 1 /\ (Holds(s3, center) => Holds(s4, center))
  BY <1>8, <1>11, Joined
<1> HIDE DEF s4
<1>13. At(0) = center => Holds(s2, center)
  <2>1. At(0) = center => At(-1) = center \/ Holds(New(0), center)
    BY <1>6, <1>8
  <2>2. At(-1) = center => At(-2) = center \/ Holds(New(-1), center)
    BY <1>6, <1>8
  <2> QED
    BY <1>7, <1>9, <1>10, <2>1, <2>2
<1>14. center \in range => Holds(s4, center)
  BY <1>4, <1>11, <1>12, <1>13
<1> QED
  BY <1>1, <1>12, <1>14 DEF range, Holds

\* The lens settles on the lens's travel, and near a target that lies there.
LEMMA SettlesNear ==
    ASSUME NEW target \in Int, drift \in Nat, NEW p \in Settles(target)
    PROVE  /\ p \in Positions
           /\ target \in Positions => Near(p, target)
<1> DEFINE reached == Clamped(target, 0, Travel)
<1>1. /\ reached \in 0 .. Travel
      /\ target \in 0 .. Travel => reached = target
  <2>1. 0 \in Int /\ Travel \in Int /\ 0 <= Travel
    BY FocusAssumption
  <2> QED
    BY <2>1, ClampedBetween
<1>2. p \in Positions /\ p \in reached - drift .. reached + drift
  BY DEF Settles
<1> QED
  BY <1>1, <1>2 DEF Near, Positions

-----------------------------------------------------------------------------
(* The inductive invariant *)

\* Where the lens settles exactly and the search starts in its range, the frame at
\* the start has been taken, or it is still to come in the coarse sweep.
StartInReach == drift = 0 /\ request.start \in FocusMin .. FocusMax
BaselineDue ==
    StartInReach /\ phase \in {"coarse", "fine"} /\ baseline = NoSample =>
        /\ phase = "coarse"
        /\ \E i \in 1 .. Len(todo) : todo[i] = request.start

\* What an operation has found until it ends, and that it reports when it ends.
OperationOpen ==
    /\ phase # "idle" => result = "none"
    /\ phase = "high" => Len(stops) = 1
    /\ phase = "restore" => Len(stops) = 2
    /\ phase = "low" => stops = <<>>

IInv ==
    /\ TypeOK
    /\ BaselineDue
    /\ OperationOpen
    /\ SuccessIsSharper
    /\ InconclusiveReturns
    /\ BaselineIsSwept
    /\ CalibrationKeepsClear

\* While an operation is in progress nothing has been reported yet.
LEMMA NothingReported ==
    ASSUME TypeOK, OperationOpen, result = "none"
    PROVE  /\ SuccessIsSharper /\ InconclusiveReturns
           /\ BaselineIsSwept /\ CalibrationKeepsClear
BY DEF SuccessIsSharper, InconclusiveReturns, BaselineIsSwept, CalibrationKeepsClear

\* The numbers among the constants and the variables.
LEMMA Numbers ==
    ASSUME TypeOK
    PROVE  /\ drift \in Nat /\ Travel \in Nat
           /\ lens \in Positions /\ request.start \in Positions
           /\ Positions = 0 .. Travel
           /\ FocusMin .. FocusMax \in SUBSET Positions
           /\ Frames \in SUBSET Nat
<1>1. drift \in Drifts /\ Drifts \in SUBSET Nat
  BY FocusAssumption DEF TypeOK
<1>2. FocusMin .. FocusMax \in SUBSET Positions
  BY FocusAssumption DEF Positions
<1> QED
  BY <1>1, <1>2, FocusAssumption DEF TypeOK, Positions, Frames, NoStars

LEMMA Initially ==
    Init => IInv
<1> SUFFICES ASSUME Init PROVE IInv
  OBVIOUS
<1>1. Min(FineSteps) \in FineSteps
  <2>1. \E x \in FineSteps : \A y \in FineSteps : x <= y
    BY FocusAssumption, SmallestExists
  <2> QED
    BY <2>1 DEF Min
<1>2. TypeOK
  BY <1>1 DEF Init, TypeOK, Phases, Results
<1> QED
  BY <1>2 DEF Init, IInv, BaselineDue, OperationOpen, SuccessIsSharper,
     InconclusiveReturns, BaselineIsSwept, CalibrationKeepsClear

-----------------------------------------------------------------------------
(* Each action preserves it *)

\* Steps that report an error: they end the operation, or refuse it.
LEMMA ErrorKeeps ==
    ASSUME IInv, lens' \in Positions, phase' = "idle", result' = "error",
           UNCHANGED <<drift, request, todo, baseline, best, refined, stops>>
    PROVE  IInv'
BY DEF IInv, TypeOK, Phases, Results, BaselineDue, OperationOpen, SuccessIsSharper,
       InconclusiveReturns, BaselineIsSwept, CalibrationKeepsClear

LEMMA FailureKeeps ==
    ASSUME IInv, NEW target \in Int, CameraFails(target)
    PROVE  IInv'
<1>1. lens' \in Positions
  BY Numbers, SettlesNear DEF IInv, CameraFails
<1> QED
  BY <1>1, ErrorKeeps DEF CameraFails

LEMMA RefusedKeeps ==
    ASSUME IInv, Refused
    PROVE  IInv'
<1>1. lens' \in Positions /\ phase' = "idle"
  BY DEF IInv, TypeOK, Refused
<1> QED
  BY <1>1, ErrorKeeps DEF Refused

LEMMA StartAssistKeeps ==
    ASSUME IInv, NEW step \in FineSteps, StartAssist(step)
    PROVE  IInv'
<1> USE DEF IInv
<1>1. lens \in Int /\ CoarseStep \in Nat /\ lens \in Positions
  BY Numbers, FocusAssumption
<1>2. /\ todo' \in Seq(FocusMin .. FocusMax) /\ Len(todo') <= 5
      /\ lens \in FocusMin .. FocusMax => \E i \in 1 .. Len(todo') : todo'[i] = lens
  BY <1>1, PositionsOfSweep DEF StartAssist
<1>3. request'.start = lens /\ phase' = "coarse" /\ result' = "none" /\ stops' = <<>>
  BY DEF StartAssist
<1>4. TypeOK'
  BY <1>1, <1>2 DEF StartAssist, TypeOK, Phases, Results
<1>5. BaselineDue'
  BY <1>2, <1>3 DEF BaselineDue, StartInReach
<1>6. OperationOpen'
  BY <1>3 DEF OperationOpen
<1> QED
  BY <1>3, <1>4, <1>5, <1>6, NothingReported DEF SuccessIsSharper, InconclusiveReturns,
     BaselineIsSwept, CalibrationKeepsClear

\* The better of two samples is one of them.
LEMMA SharperIsOneOf ==
    ASSUME NEW old, NEW new, NEW s \in Sharper(old, new)
    PROVE  s \in {old, new}
BY DEF Sharper

LEMMA CaptureSampleKeeps ==
    ASSUME IInv, CaptureSample
    PROVE  IInv'
<1> USE DEF IInv
<1>1. /\ Head(todo) \in FocusMin .. FocusMax
      /\ Tail(todo) \in Seq(FocusMin .. FocusMax)
      /\ Len(todo) > 0 /\ Len(Tail(todo)) = Len(todo) - 1
      /\ \A i \in 1 .. Len(Tail(todo)) : Tail(todo)[i] = todo[i + 1]
      /\ Head(todo) = todo[1]
  <2> DEFINE range == FocusMin .. FocusMax
  <2>1. todo \in Seq(range) /\ todo # <<>>
    BY DEF CaptureSample, TypeOK
  <2> HIDE DEF range
  <2>2. /\ Head(todo) \in range /\ Tail(todo) \in Seq(range) /\ Len(todo) > 0
        /\ Len(Tail(todo)) = Len(todo) - 1 /\ Head(todo) = todo[1]
        /\ \A i \in 1 .. Len(Tail(todo)) : Tail(todo)[i] = todo[i + 1]
    BY <2>1
  <2> QED
    BY <2>2 DEF range
<1>2. /\ Head(todo) \in Positions /\ lens' \in Settles(Head(todo))
      /\ Head(todo) \in Int /\ drift \in Nat
  <2>1. Head(todo) \in Positions
    BY <1>1, Numbers
  <2> QED
    BY <2>1, Numbers DEF CaptureSample
<1>3. lens' \in Positions /\ Near(lens', Head(todo))
  BY <1>2, SettlesNear
<1>4. PICK hfr \in Frames :
        LET sample == [raw |-> lens', hfr |-> hfr]
        IN  \/ /\ phase = "coarse" /\ best' \in Sharper(best, sample)
               /\ baseline' = IF baseline = NoSample /\ lens' = request.start
                              THEN sample ELSE baseline
               /\ UNCHANGED refined
            \/ /\ phase = "fine" /\ refined' \in Sharper(refined, sample)
               /\ UNCHANGED <<baseline, best>>
  BY DEF CaptureSample
<1> DEFINE sample == [raw |-> lens', hfr |-> hfr]
<1>5. sample \in Samples
  BY <1>3 DEF Samples
<1>6. {baseline', best', refined'} \subseteq Samples \cup {NoSample}
  <2> HIDE DEF sample
  <2>1. CASE phase = "coarse"
    BY <1>4, <1>5, <2>1, SharperIsOneOf DEF TypeOK, sample
  <2>2. CASE phase = "fine"
    BY <1>4, <1>5, <2>2, SharperIsOneOf DEF TypeOK, sample
  <2> QED
    BY <1>4, <2>1, <2>2
<1>7. /\ todo' = Tail(todo) /\ phase \in {"coarse", "fine"}
      /\ UNCHANGED <<drift, phase, request, stops, result>>
  BY DEF CaptureSample
<1>8. TypeOK'
  BY <1>1, <1>3, <1>6, <1>7 DEF TypeOK
<1>9. BaselineDue'
  <2> SUFFICES ASSUME StartInReach', baseline' = NoSample
               PROVE  /\ phase' = "coarse"
                      /\ \E i \in 1 .. Len(todo') : todo'[i] = request'.start
    BY DEF BaselineDue
  <2>1. StartInReach
    BY <1>7 DEF StartInReach
  <2>2. sample # NoSample
    BY <1>3, Numbers DEF NoSample
  <2>3. baseline = NoSample
    BY <1>4, <2>2
  <2>4. PICK i \in 1 .. Len(todo) : phase = "coarse" /\ todo[i] = request.start
    BY <1>7, <2>1, <2>3 DEF BaselineDue
  <2>5. lens' # request.start
    BY <1>4, <2>2, <2>3, <2>4
  <2>6. lens' = Head(todo)
    <3>1. drift = 0 /\ lens' \in Head(todo) - drift .. Head(todo) + drift
      BY <1>3, <2>1 DEF Near, StartInReach
    <3>2. lens' \in Int
      BY <1>2, <3>1
    <3> QED
      BY <1>2, <3>1, <3>2
  <2>7. i # 1
    BY <1>1, <2>4, <2>5, <2>6
  <2>8. i - 1 \in 1 .. Len(Tail(todo)) /\ Tail(todo)[i - 1] = request.start
    BY <1>1, <2>4, <2>7 DEF TypeOK
  <2> QED
    BY <1>7, <2>4, <2>8
<1>10. OperationOpen' /\ result' = "none"
  BY <1>7 DEF OperationOpen
<1> QED
  BY <1>8, <1>9, <1>10 DEF SuccessIsSharper, InconclusiveReturns,
     BaselineIsSwept, CalibrationKeepsClear

LEMMA RefineSweepKeeps ==
    ASSUME IInv, RefineSweep
    PROVE  IInv'
<1> USE DEF IInv
<1>1. best.raw \in Int /\ request.step \in Nat
  <2>1. best \in Samples /\ request.step \in FineSteps
    BY DEF RefineSweep, TypeOK
  <2>2. best.raw \in 0 .. Travel /\ Travel \in Nat /\ FineSteps \in SUBSET Nat
    BY <2>1, FocusAssumption DEF Samples, Positions
  <2>3. best.raw \in Int
    BY <2>2
  <2>4. request.step \in Nat
    BY <2>1, <2>2
  <2> QED
    BY <2>3, <2>4
<1>2. todo' \in Seq(FocusMin .. FocusMax) /\ Len(todo') <= 5
  BY <1>1, PositionsOfSweep DEF RefineSweep
<1>3. TypeOK'
  BY <1>2 DEF RefineSweep, TypeOK, Phases
<1>4. BaselineDue'
  BY DEF RefineSweep, BaselineDue, StartInReach
<1>5. OperationOpen' /\ result' = "none"
  BY DEF RefineSweep, OperationOpen
<1> QED
  BY <1>3, <1>4, <1>5 DEF SuccessIsSharper, InconclusiveReturns,
     BaselineIsSwept, CalibrationKeepsClear

\* The numbers of a sample with stars.
LEMMA SampleNumbers ==
    ASSUME TypeOK, NEW sample \in {baseline, best, refined}, sample # NoSample
    PROVE  sample.raw \in Positions /\ sample.hfr \in Nat /\ sample.hfr \in Frames
<1>1. sample \in Samples
  BY DEF TypeOK
<1>2. sample.raw \in Positions /\ sample.hfr \in Frames
  BY <1>1 DEF Samples
<1> QED
  BY <1>2, Numbers

\* A position where the search ends is a position of the lens.
LEMMA FinalTargetInReach ==
    ASSUME TypeOK
    PROVE  FinalTarget \in Positions /\ FinalTarget \in Int
<1>1. FinalTarget \in Positions
  <2>1. request.start \in Positions
    BY Numbers
  <2>2. BestSample # NoSample => BestSample.raw \in Positions
    BY SampleNumbers DEF BestSample
  <2> QED
    BY <2>1, <2>2 DEF FinalTarget, Improved
<1> QED
  BY <1>1, Numbers

LEMMA ConcludeKeeps ==
    ASSUME IInv, Conclude
    PROVE  IInv'
<1> USE DEF IInv
<1>1. /\ drift \in Nat /\ FinalTarget \in Positions /\ FinalTarget \in Int
      /\ lens' \in Settles(FinalTarget)
  BY Numbers, FinalTargetInReach DEF Conclude
<1>2. lens' \in Positions /\ Near(lens', FinalTarget)
  BY <1>1, SettlesNear
<1>3. TypeOK'
  BY <1>2 DEF Conclude, TypeOK, Phases, Results
<1>4. BaselineDue' /\ OperationOpen'
  BY DEF Conclude, BaselineDue, OperationOpen
<1>5. SuccessIsSharper'
  <2> SUFFICES ASSUME Improved
               PROVE  /\ Near(lens', BestSample.raw)
                      /\ baseline.hfr # NoStars =>
                           (baseline.hfr - BestSample.hfr) * 100 >= MinImprovement * baseline.hfr
    BY DEF Conclude, SuccessIsSharper, Near, BestSample, Improved
  <2>1. Near(lens', BestSample.raw)
    BY <1>2 DEF FinalTarget
  <2>2. ASSUME baseline.hfr # NoStars
        PROVE  (baseline.hfr - BestSample.hfr) * 100 >= MinImprovement * baseline.hfr
    <3>1. baseline.hfr \in Nat /\ BestSample.hfr \in Nat /\ MinImprovement \in Nat
      BY SampleNumbers, FocusAssumption DEF Conclude, Improved, BestSample
    <3>2. BestSample.hfr * 100 <= baseline.hfr * (100 - MinImprovement)
      BY <2>2 DEF Improved, IsImproved
    <3> DEFINE b == baseline.hfr
               c == BestSample.hfr
               m == MinImprovement
    <3> HIDE DEF b, c, m
    <3>3. b \in Int /\ c \in Int /\ m \in Int /\ c * 100 <= b * (100 - m)
      BY <3>1, <3>2 DEF b, c, m
    <3>4. b * (100 - m) = b * 100 - m * b
      BY <3>3
    <3>5. (b - c) * 100 >= m * b
      BY <3>3, <3>4
    <3> QED
      BY <3>5 DEF b, c, m
  <2> QED
    BY <2>1, <2>2
<1>6. InconclusiveReturns'
  BY <1>2 DEF Conclude, InconclusiveReturns, FinalTarget, Near
<1>7. BaselineIsSwept' /\ CalibrationKeepsClear'
  BY DEF Conclude, BaselineIsSwept, CalibrationKeepsClear
<1> QED
  BY <1>3, <1>4, <1>5, <1>6, <1>7

LEMMA NoBaselineKeeps ==
    ASSUME IInv, NoBaseline
    PROVE  IInv'
<1> USE DEF IInv
<1>1. TypeOK'
  BY DEF NoBaseline, TypeOK, Phases, Results
<1>2. BaselineDue' /\ OperationOpen'
  BY DEF NoBaseline, BaselineDue, OperationOpen
<1>3. ~ StartInReach
  BY DEF NoBaseline, SweepDone, BaselineDue
<1>4. BaselineIsSwept'
  BY <1>3, Numbers DEF NoBaseline, BaselineIsSwept, StartInReach
<1> QED
  BY <1>1, <1>2, <1>4 DEF NoBaseline, SuccessIsSharper, InconclusiveReturns,
     CalibrationKeepsClear

LEMMA StartCalibrationKeeps ==
    ASSUME IInv, StartCalibration
    PROVE  IInv'
<1> USE DEF IInv
<1>1. TypeOK'
  BY DEF StartCalibration, TypeOK, Phases, Results
<1> QED
  BY <1>1 DEF StartCalibration, BaselineDue, OperationOpen, SuccessIsSharper,
     InconclusiveReturns, BaselineIsSwept, CalibrationKeepsClear

LEMMA DriveToStopKeeps ==
    ASSUME IInv, DriveToStop
    PROVE  IInv'
<1> USE DEF IInv
<1>1. StopTarget \in Int /\ drift \in Nat
  BY Numbers DEF StopTarget
<1>2. lens' \in Positions
  BY <1>1, SettlesNear DEF DriveToStop
<1>3. /\ stops' \in Seq(Positions) /\ Len(stops') = Len(stops) + 1
  BY <1>2 DEF DriveToStop, TypeOK
<1>4. Len(stops) = IF phase = "low" THEN 0 ELSE 1
  BY DEF DriveToStop, OperationOpen
<1>5. TypeOK'
  BY <1>2, <1>3, <1>4 DEF DriveToStop, TypeOK, Phases
<1>6. OperationOpen' /\ BaselineDue' /\ result' = "none"
  BY <1>3, <1>4 DEF DriveToStop, OperationOpen, BaselineDue
<1> QED
  BY <1>5, <1>6 DEF SuccessIsSharper, InconclusiveReturns, BaselineIsSwept,
     CalibrationKeepsClear

\* The working range of a calibration that has met both stops keeps clear of them.
LEMMA WorkingRange ==
    ASSUME TypeOK, Len(stops) = 2
    PROVE  /\ WorkingMin \in Int /\ WorkingMax \in Int
           /\ 0 < WorkingMin /\ WorkingMax < Travel
<1>1. /\ stops[1] \in 0 .. Travel /\ stops[2] \in 0 .. Travel
      /\ ToSet(stops) = {stops[1], stops[2]}
  <2>1. stops \in Seq(Positions) /\ DOMAIN stops = {1, 2}
    BY DEF TypeOK
  <2>2. \A i \in 1 .. Len(stops) : stops[i] \in Positions
    BY <2>1
  <2>3. ToSet(stops) = {stops[1], stops[2]}
    BY <2>1 DEF ToSet
  <2> QED
    BY <2>2, <2>3 DEF Positions
<1>2. /\ Min(ToSet(stops)) \in {stops[1], stops[2]}
      /\ Max(ToSet(stops)) \in {stops[1], stops[2]}
  <2>1. stops[1] \in Int /\ stops[2] \in Int
    BY <1>1, FocusAssumption
  <2> QED
    BY <1>1, <2>1, OfTwo
<1>3. Min(ToSet(stops)) \in 0 .. Travel /\ Max(ToSet(stops)) \in 0 .. Travel
  BY <1>1, <1>2
<1> QED
  BY <1>3, FocusAssumption DEF WorkingMin, WorkingMax

\* Where a calibration returns to lies in the working range, and is the start if
\* that does.
LEMMA RestoreInRange ==
    ASSUME TypeOK, Len(stops) = 2, WorkingMin < WorkingMax
    PROVE  /\ RestoreTarget \in WorkingMin .. WorkingMax
           /\ RestoreTarget \in Positions /\ RestoreTarget \in Int
           /\ request.start \in WorkingMin .. WorkingMax => RestoreTarget = request.start
<1>1. /\ WorkingMin \in Int /\ WorkingMax \in Int /\ WorkingMin <= WorkingMax
      /\ 0 < WorkingMin /\ WorkingMax < Travel
  BY WorkingRange
<1>2. request.start \in Int /\ Positions = 0 .. Travel /\ Travel \in Nat
  BY Numbers
<1>3. RestoreTarget = Clamped(request.start, WorkingMin, WorkingMax)
  BY DEF RestoreTarget
<1>4. /\ RestoreTarget \in WorkingMin .. WorkingMax
      /\ request.start \in WorkingMin .. WorkingMax => RestoreTarget = request.start
  BY <1>1, <1>2, <1>3, ClampedBetween
<1>5. RestoreTarget \in Positions
  BY <1>1, <1>2, <1>4
<1> QED
  BY <1>2, <1>4, <1>5

LEMMA NoSafeRangeKeeps ==
    ASSUME IInv, NoSafeRange
    PROVE  IInv'
<1>1. lens' \in Positions
  BY DEF IInv, TypeOK, NoSafeRange
<1> QED
  BY <1>1, ErrorKeeps DEF NoSafeRange

LEMMA RestoreKeeps ==
    ASSUME IInv, Restore
    PROVE  IInv'
<1> USE DEF IInv
<1>1. Len(stops) = 2 /\ WorkingMin < WorkingMax
  BY DEF Restore, OperationOpen
<1>2. /\ RestoreTarget \in WorkingMin .. WorkingMax
      /\ RestoreTarget \in Positions /\ RestoreTarget \in Int
      /\ request.start \in WorkingMin .. WorkingMax => RestoreTarget = request.start
  BY <1>1, RestoreInRange
<1>3. lens' \in Positions /\ Near(lens', RestoreTarget)
  BY <1>2, Numbers, SettlesNear DEF Restore
<1>4. TypeOK'
  BY <1>3 DEF Restore, TypeOK, Phases, Results
<1>5. BaselineDue' /\ OperationOpen'
  BY DEF Restore, BaselineDue, OperationOpen
<1>6. CalibrationKeepsClear'
  <2>1. /\ WorkingMin' = WorkingMin /\ WorkingMax' = WorkingMax
        /\ drift' = drift /\ request' = request
    BY DEF Restore, WorkingMin, WorkingMax
  <2>2. 0 < WorkingMin /\ WorkingMax < Travel
    BY <1>1, WorkingRange
  <2> QED
    BY <1>2, <1>3, <2>1, <2>2 DEF CalibrationKeepsClear, Near
<1> QED
  BY <1>4, <1>5, <1>6 DEF Restore, SuccessIsSharper, InconclusiveReturns, BaselineIsSwept

LEMMA CalibrationFailsKeeps ==
    ASSUME IInv, CalibrationFails
    PROVE  IInv'
<1> USE DEF IInv
<1>1. CASE phase \in {"low", "high"} /\ CameraFails(StopTarget)
  <2>1. StopTarget \in Int
    BY Numbers DEF StopTarget
  <2> QED
    BY <1>1, <2>1, FailureKeeps
<1>2. CASE phase = "restore" /\ WorkingMin < WorkingMax /\ CameraFails(RestoreTarget)
  <2>1. RestoreTarget \in Int
    BY <1>2, RestoreInRange DEF OperationOpen
  <2> QED
    BY <1>2, <2>1, FailureKeeps
<1> QED
  BY <1>1, <1>2 DEF CalibrationFails

LEMMA SampleFailsKeeps ==
    ASSUME IInv, SampleFails
    PROVE  IInv'
<1>1. Head(todo) \in FocusMin .. FocusMax
  <2> DEFINE range == FocusMin .. FocusMax
  <2>1. todo \in Seq(range) /\ todo # <<>>
    BY DEF IInv, TypeOK, SampleFails
  <2> HIDE DEF range
  <2>2. Head(todo) \in range
    BY <2>1
  <2> QED
    BY <2>2 DEF range
<1>2. Head(todo) \in Int
  BY <1>1, Numbers DEF IInv
<1> QED
  BY <1>2, FailureKeeps DEF SampleFails

-----------------------------------------------------------------------------
(* The theorems *)

LEMMA Invariant ==
    Spec => []IInv
<1>1. IInv /\ [Next]_vars => IInv'
  <2> SUFFICES ASSUME IInv, [Next]_vars PROVE IInv'
    OBVIOUS
  <2>1. ASSUME NEW step \in FineSteps, StartAssist(step) PROVE IInv'
    BY <2>1, StartAssistKeeps
  <2>2. CASE StartCalibration
    BY <2>2, StartCalibrationKeeps
  <2>3. CASE Refused
    BY <2>3, RefusedKeeps
  <2>4. CASE CaptureSample
    BY <2>4, CaptureSampleKeeps
  <2>5. CASE SampleFails
    BY <2>5, SampleFailsKeeps
  <2>6. CASE RefineSweep
    BY <2>6, RefineSweepKeeps
  <2>7. CASE Conclude
    BY <2>7, ConcludeKeeps
  <2>8. CASE ConcludeFails
    <3>1. FinalTarget \in Int
      BY FinalTargetInReach DEF IInv
    <3> QED
      BY <2>8, <3>1, FailureKeeps DEF ConcludeFails
  <2>9. CASE NoBaseline
    BY <2>9, NoBaselineKeeps
  <2>10. CASE DriveToStop
    BY <2>10, DriveToStopKeeps
  <2>11. CASE NoSafeRange
    BY <2>11, NoSafeRangeKeeps
  <2>12. CASE Restore
    BY <2>12, RestoreKeeps
  <2>13. CASE CalibrationFails
    BY <2>13, CalibrationFailsKeeps
  <2>14. CASE UNCHANGED vars
    BY <2>14 DEF vars, IInv, TypeOK, BaselineDue, StartInReach, OperationOpen,
       SuccessIsSharper, BestSample, InconclusiveReturns, BaselineIsSwept,
       CalibrationKeepsClear, WorkingMin, WorkingMax, Near
  <2> QED
    BY <2>1, <2>2, <2>3, <2>4, <2>5, <2>6, <2>7, <2>8, <2>9, <2>10, <2>11, <2>12,
       <2>13, <2>14 DEF Next, Step
<1> QED
  BY <1>1, Initially, PTL DEF Spec

\* Whatever the lens, the range asked for and the frames: every position that a sweep
\* or a calibration keeps or aims at has its type, and a sweep exposes five times at most.
THEOREM TypeCorrect == Spec => []TypeOK
BY Invariant, PTL DEF IInv

\* _is_improved() and the final move: for every fraction and every radius, a success
\* has found a frame that is sharper by that fraction, and the lens is where it was taken.
THEOREM SuccessSharper == Spec => []SuccessIsSharper
BY Invariant, PTL DEF IInv

\* A search that found nothing better has brought the lens back to its start.
THEOREM InconclusiveBack == Spec => []InconclusiveReturns
BY Invariant, PTL DEF IInv

\* run() finds its baseline for every range, step and start in the range, if the lens
\* reads back what it was told.
THEOREM BaselineFound == Spec => []BaselineIsSwept
BY Invariant, PTL DEF IInv

\* Every range that a calibration reports keeps clear of both stops, and the lens is
\* back in it, at the start if that was in it.
THEOREM CalibrationClear == Spec => []CalibrationKeepsClear
BY Invariant, PTL DEF IInv

=============================================================================
