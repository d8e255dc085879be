---------------------------- MODULE FrameQuality ----------------------------
(***************************************************************************)
(* How one frame is judged and what the last frames together recommend     *)
(* (FrameQualityAnalyzer and FrameQualitySession in imaging/               *)
(* frame_quality.py), as operators on measurements.                        *)
(*                                                                         *)
(* Left out: the image processing.  A measurement is what it finds: how    *)
(* many stars and hot pixels, and the stars' mean half-flux radius and     *)
(* elongation, both in tenths.                                             *)
(***************************************************************************)
EXTENDS Integers, Sequences, FiniteSets

CONSTANT WindowSize       \* how many frames FrameQualitySession remembers

ASSUME WindowAssumption == WindowSize \in Nat \ {0}

HfrWarn        == 40
HfrFail        == 70
ElongationWarn == 15
ElongationFail == 25
HotPixelWarn   == 30
HotPixelFail   == 150
MinStars       == 3

HfrDriftPercent        == 25
HotPixelAccumulation   == 50
MinStarsForWeather     == 5
WeatherStarDropPercent == 50

Classes      == {"pass", "warn", "fail"}
\* What the image analysis measures in a frame.
Measurements == [stars: Nat, hot: Nat, hfr: Nat, elongation: Nat]
Results      == [overall: Classes, stars: Nat, hot: Nat, hfr: Nat]

Recommendations ==
    {"continue", "warn", "trigger_autofocus", "pause_sensor", "pause_weather"}
Pauses == {"pause_sensor", "pause_weather"}

-----------------------------------------------------------------------------
(* One frame: analyze() *)

ClassifyHighBad(value, warn, fail) ==
    IF value >= fail THEN "fail" ELSE IF value >= warn THEN "warn" ELSE "pass"

Checks(m) ==
    { IF m.stars >= MinStars THEN ClassifyHighBad(m.hfr, HfrWarn, HfrFail) ELSE "warn",
      IF m.stars > 0 THEN ClassifyHighBad(m.elongation, ElongationWarn, ElongationFail)
                     ELSE "warn",
      ClassifyHighBad(m.hot, HotPixelWarn, HotPixelFail) }

Worst(checks) ==
    IF "fail" \in checks THEN "fail" ELSE IF "warn" \in checks THEN "warn" ELSE "pass"

Analyze(m) ==
    [overall |-> Worst(Checks(m)), stars |-> m.stars, hot |-> m.hot,
     hfr |-> IF m.stars >= MinStars THEN m.hfr ELSE 0]

-----------------------------------------------------------------------------
(* The last frames: FrameQualitySession *)

AddedPastTheEnd(frames, result) ==       \* faulty: one frame too many
    Append(IF Len(frames) <= WindowSize THEN frames ELSE Tail(frames), result)
\* add(), to a deque of bounded length.
Added(frames, result) ==
    Append(IF Len(frames) < WindowSize THEN frames ELSE Tail(frames), result)

\* Three times the mean of the first and of the last three numbers.
Early(s)  == s[1] + s[2] + s[3]
Recent(s) == s[Len(s)] + s[Len(s) - 1] + s[Len(s) - 2]

HotCounts(frames)  == [i \in 1..Len(frames) |-> frames[i].hot]
StarCounts(frames) == [i \in 1..Len(frames) |-> frames[i].stars]

\* A finite set of numbers in ascending order.
Ascending(set) == [k \in 1..Cardinality(set) |->
    CHOOSE x \in set : Cardinality({y \in set : y <= x}) = k]
\* Only frames with enough stars have a half-flux radius.
Hfrs(frames) == LET lit == Ascending({i \in 1..Len(frames) : frames[i].hfr > 0})
                IN  [k \in 1..Len(lit) |-> frames[lit[k]].hfr]

HotPixelsAccumulate(frames) ==
    Recent(HotCounts(frames)) > Early(HotCounts(frames)) + 3 * HotPixelAccumulation

StarsRise(frames) ==                     \* faulty: early and recent swapped
    LET stars == StarCounts(frames) IN
    /\ Recent(stars) >= 3 * MinStarsForWeather
    /\ 100 * Early(stars) < Recent(stars) * (100 - WeatherStarDropPercent)
StarsDrop(frames) ==
    LET stars == StarCounts(frames) IN
    /\ Early(stars) >= 3 * MinStarsForWeather
    /\ 100 * Recent(stars) < Early(stars) * (100 - WeatherStarDropPercent)

HfrDrifts(frames) ==
    LET hfrs == Hfrs(frames) IN
    /\ Len(hfrs) >= 3
    /\ 100 * Recent(hfrs) > Early(hfrs) * (100 + HfrDriftPercent)

Recommendation(frames) ==
    IF Len(frames) < 3 THEN "continue"
    ELSE IF HotPixelsAccumulate(frames) THEN "pause_sensor"
    ELSE IF StarsDrop(frames) THEN "pause_weather"
    ELSE IF HfrDrifts(frames) THEN "trigger_autofocus"
    ELSE IF frames[Len(frames)].overall = "fail" THEN "warn"
    ELSE "continue"

-----------------------------------------------------------------------------
(* Trends by which the recommendation is judged *)

\* The last three frames are as good as every frame in the window.
AsGood(r, s) == r.stars >= s.stars /\ r.hot <= s.hot /\ (s.hfr > 0 => r.hfr \in 1..s.hfr)
ClearAgain(frames) ==
    /\ Len(frames) >= 3
    /\ \A i \in Len(frames) - 2..Len(frames), j \in 1..Len(frames) :
            AsGood(frames[i], frames[j])

\* Three frames with enough stars, and at last three with less than half of them.
Clouded(frames) ==
    /\ Len(frames) >= 6
    /\ \A i \in 1..3 : frames[i].stars >= MinStarsForWeather
    /\ \A i \in 1..3, j \in Len(frames) - 2..Len(frames) :
            2 * frames[j].stars < frames[i].stars

=============================================================================
