------------------------- MODULE FrameWatch_proofs -------------------------
(***************************************************************************)
(* What FrameQualitySession.recommendation() promises about every rolling  *)
(* window of measurements, of whatever length; and that the frame watcher  *)
(* and its loop keep such a window, of one managed session, for any files, *)
(* sessions and skies.                                                     *)
(***************************************************************************)
EXTENDS FrameWatch, SequenceTheorems, FiniteSetTheorems, TLAPS

\* The number sequences that the trends are computed from.
LEMMA CountsType ==
    ASSUME NEW frames \in Seq(Results)
    PROVE  /\ Len(HotCounts(frames)) = Len(frames)
           /\ Len(StarCounts(frames)) = Len(frames)
           /\ \A i \in 1..Len(frames) :
                /\ HotCounts(frames)[i] = frames[i].hot /\ frames[i].hot \in Nat
                /\ StarCounts(frames)[i] = frames[i].stars /\ frames[i].stars \in Nat
<1>1. \A i \in 1..Len(frames) : frames[i] \in Results
  OBVIOUS
<1>2. /\ HotCounts(frames) \in [1..Len(frames) -> Nat]
      /\ StarCounts(frames) \in [1..Len(frames) -> Nat]
  BY <1>1 DEF HotCounts, StarCounts, Results
<1>3. Len(frames) \in Nat
  OBVIOUS
<1>4. \A f \in [1..Len(frames) -> Nat] : Len(f) = Len(frames)
  <2>1. TAKE f \in [1..Len(frames) -> Nat]
  <2>2. f \in Seq(Nat)
    BY <1>3, SeqDef
  <2> QED BY <1>3, <2>2, LenProperties
<1>5. Len(HotCounts(frames)) = Len(frames) /\ Len(StarCounts(frames)) = Len(frames)
  BY <1>2, <1>4
<1>6. ASSUME NEW i \in 1..Len(frames)
      PROVE  /\ HotCounts(frames)[i] = frames[i].hot /\ frames[i].hot \in Nat
             /\ StarCounts(frames)[i] = frames[i].stars /\ frames[i].stars \in Nat
  <2>1. frames[i].hot \in Nat /\ frames[i].stars \in Nat
    BY <1>1 DEF Results
  <2> QED BY <2>1 DEF HotCounts, StarCounts
<1> QED  BY <1>5, <1>6

\* The sums in terms of the frames.
LEMMA SumsOfThree ==
    ASSUME NEW frames \in Seq(Results), Len(frames) >= 3
    PROVE  LET n == Len(frames) IN
           /\ Early(HotCounts(frames)) = frames[1].hot + frames[2].hot + frames[3].hot
           /\ Recent(HotCounts(frames)) = frames[n].hot + frames[n-1].hot + frames[n-2].hot
           /\ Early(StarCounts(frames)) =
                frames[1].stars + frames[2].stars + frames[3].stars
           /\ Recent(StarCounts(frames)) =
                frames[n].stars + frames[n-1].stars + frames[n-2].stars
<1> DEFINE n == Len(frames)
<1>1. n \in Nat /\ {1, 2, 3, n, n-1, n-2} \subseteq 1..n
  OBVIOUS
<1> QED  BY <1>1, CountsType DEF Early, Recent

\* The two trends that pause, in terms of six frames.
LEMMA TrendsOfSix ==
    ASSUME NEW frames \in Seq(Results), Len(frames) >= 3
    PROVE  LET n == Len(frames) IN
           /\ HotPixelsAccumulate(frames) <=>
                frames[n].hot + frames[n-1].hot + frames[n-2].hot
                  > frames[1].hot + frames[2].hot + frames[3].hot + 150
           /\ StarsDrop(frames) <=>
                /\ frames[1].stars + frames[2].stars + frames[3].stars >= 15
                /\ 100 * (frames[n].stars + frames[n-1].stars + frames[n-2].stars)
                     < (frames[1].stars + frames[2].stars + frames[3].stars) * 50
<1>1. 3 * HotPixelAccumulation = 150 /\ 3 * MinStarsForWeather = 15
      /\ 100 - WeatherStarDropPercent = 50
  BY DEF HotPixelAccumulation, MinStarsForWeather, WeatherStarDropPercent
<1> QED  BY <1>1, SumsOfThree DEF HotPixelsAccumulate, StarsDrop

\* The values that the trends compare are numbers.
LEMMA SixNumbers ==
    ASSUME NEW frames \in Seq(Results), Len(frames) >= 3
    PROVE  \A i \in {1, 2, 3, Len(frames), Len(frames) - 1, Len(frames) - 2} :
                frames[i].hot \in Nat /\ frames[i].stars \in Nat
<1>1. {1, 2, 3, Len(frames), Len(frames) - 1, Len(frames) - 2} \subseteq 1..Len(frames)
  OBVIOUS
<1> QED  BY <1>1, CountsType

\* Three good frames end a trend pause: guard never pauses a session again for hot
\* pixels or clouds that only the older frames of the window show.
THEOREM ClearFramesEndPauses ==
    ASSUME NEW frames \in Seq(Results), ClearAgain(frames)
    PROVE  Recommendation(frames) \notin Pauses
<1> DEFINE n == Len(frames)
           h(i) == frames[i].hot
           s(i) == frames[i].stars
<1>1. n \in Nat /\ n >= 3 /\ {1, 2, 3} \subseteq 1..n /\ {n, n-1, n-2} \subseteq n-2..n
  BY DEF ClearAgain
<1>2. \A i \in {1, 2, 3, n, n-1, n-2} : h(i) \in Nat /\ s(i) \in Nat
  BY <1>1, SixNumbers
<1>3. \A i \in {n, n-1, n-2}, j \in {1, 2, 3} : s(i) >= s(j) /\ h(i) <= h(j)
  BY <1>1 DEF ClearAgain, AsGood
<1>4. h(n) <= h(1) /\ h(n-1) <= h(2) /\ h(n-2) <= h(3)
  BY <1>3
<1>5. s(n) >= s(1) /\ s(n-1) >= s(2) /\ s(n-2) >= s(3)
  BY <1>3
<1>6. h(n) + h(n-1) + h(n-2) <= h(1) + h(2) + h(3)
  <2> HIDE DEF n, h
  <2> QED  BY <1>2, <1>4
<1>7. s(n) + s(n-1) + s(n-2) >= s(1) + s(2) + s(3)
  <2> HIDE DEF n, s
  <2> QED  BY <1>2, <1>5
<1>8. ~ (h(n) + h(n-1) + h(n-2) > h(1) + h(2) + h(3) + 150)
  <2> HIDE DEF n, h
  <2> QED  BY <1>2, <1>6
<1>9. ~ (100 * (s(n) + s(n-1) + s(n-2)) < (s(1) + s(2) + s(3)) * 50)
  <2> HIDE DEF n, s
  <2> QED  BY <1>2, <1>7
<1>10. ~HotPixelsAccumulate(frames) /\ ~StarsDrop(frames)
  BY <1>1, <1>8, <1>9, TrendsOfSix
<1> QED  BY <1>10 DEF Recommendation, Pauses

\* Less than half of each is less than half of all.
LEMMA LessThanHalf ==
    ASSUME NEW a \in Nat, NEW b \in Nat, NEW c \in Nat,
           NEW x \in Nat, NEW y \in Nat, NEW z \in Nat,
           2 * a < x, 2 * b < y, 2 * c < z
    PROVE  100 * (a + b + c) < (x + y + z) * 50
  OBVIOUS

\* Clouds are noticed: a window that begins with enough stars and ends with less
\* than half of them always pauses, whatever the frames in between and the focus.
THEOREM CloudsPause ==
    ASSUME NEW frames \in Seq(Results), Clouded(frames)
    PROVE  Recommendation(frames) \in Pauses
<1> DEFINE n == Len(frames)
           s(i) == frames[i].stars
<1>1. n \in Nat /\ n >= 6 /\ {1, 2, 3} \subseteq 1..3 /\ {n, n-1, n-2} \subseteq n-2..n
  BY DEF Clouded
<1>2. \A i \in {1, 2, 3, n, n-1, n-2} : s(i) \in Nat
  BY <1>1, SixNumbers
<1>3. s(1) >= 5 /\ s(2) >= 5 /\ s(3) >= 5
  BY <1>1 DEF Clouded, MinStarsForWeather
<1>4. 2 * s(n) < s(1) /\ 2 * s(n-1) < s(2) /\ 2 * s(n-2) < s(3)
  BY <1>1 DEF Clouded
<1>5. s(1) + s(2) + s(3) >= 15
  <2> HIDE DEF n, s
  <2> QED  BY <1>2, <1>3
<1>6. 100 * (s(n) + s(n-1) + s(n-2)) < (s(1) + s(2) + s(3)) * 50
  <2>1. s(n) \in Nat /\ s(n-1) \in Nat /\ s(n-2) \in Nat /\ s(1) \in Nat /\ s(2) \in Nat /\ s(3) \in Nat
    BY <1>2
  <2> DEFINE a == s(n)
             b == s(n-1)
             c == s(n-2)
             x == s(1)
             y == s(2)
             z == s(3)
  <2>2. 2 * a < x /\ 2 * b < y /\ 2 * c < z
    BY <1>4
  <2>3. a \in Nat /\ b \in Nat /\ c \in Nat /\ x \in Nat /\ y \in Nat /\ z \in Nat
    BY <2>1
  <2> HIDE DEF a, b, c, x, y, z
  <2>4. 100 * (a + b + c) < (x + y + z) * 50
    BY <2>2, <2>3, LessThanHalf
  <2> QED  BY <2>4 DEF a, b, c, x, y, z
<1>7. StarsDrop(frames)
  BY <1>1, <1>5, <1>6, TrendsOfSix
<1> QED  BY <1>1, <1>7 DEF Recommendation, Pauses

\* A session's first three frames pause nothing, however they differ: a trend
\* needs a baseline and a later frame.
THEOREM FirstFramesContinue ==
    ASSUME NEW frames \in Seq(Results), Len(frames) <= 3
    PROVE  Recommendation(frames) \notin Pauses
<1> DEFINE h(i) == frames[i].hot
           s(i) == frames[i].stars
<1>1. CASE Len(frames) < 3
  BY <1>1 DEF Recommendation, Pauses
<1>2. CASE Len(frames) = 3
  <2>1. \A i \in {1, 2, 3} : h(i) \in Nat /\ s(i) \in Nat
    BY <1>2, SixNumbers
  <2>0. ASSUME NEW a \in Nat, NEW b \in Nat, NEW c \in Nat
        PROVE  /\ ~ (c + b + a > a + b + c + 150)
               /\ ~ (a + b + c >= 15 /\ 100 * (c + b + a) < (a + b + c) * 50)
    OBVIOUS
  <2>2. ~ (h(3) + h(2) + h(1) > h(1) + h(2) + h(3) + 150)
    BY <2>1, <2>0
  <2>3. ~ (/\ s(1) + s(2) + s(3) >= 15
           /\ 100 * (s(3) + s(2) + s(1)) < (s(1) + s(2) + s(3)) * 50)
    BY <2>1, <2>0
  <2>5. 3 - 1 = 2 /\ 3 - 2 = 1
    OBVIOUS
  <2>6. HotPixelsAccumulate(frames) <=> h(3) + h(2) + h(1) > h(1) + h(2) + h(3) + 150
    BY <1>2, <2>5, TrendsOfSix
  <2>7. StarsDrop(frames) <=> /\ s(1) + s(2) + s(3) >= 15
                             /\ 100 * (s(3) + s(2) + s(1)) < (s(1) + s(2) + s(3)) * 50
    BY <1>2, <2>5, TrendsOfSix
  <2>4. ~HotPixelsAccumulate(frames) /\ ~StarsDrop(frames)
    BY <2>2, <2>3, <2>6, <2>7
  <2> QED  BY <1>2, <2>4 DEF Recommendation, Pauses
<1>3. \A n \in Nat : n <= 3 => n < 3 \/ n = 3
  OBVIOUS
<1>4. Len(frames) \in Nat
  BY LenProperties
<1> QED  BY <1>1, <1>2, <1>3, <1>4

\* The rolling window stays a sequence of results of bounded length.
THEOREM WindowIsBounded ==
    ASSUME NEW frames \in Seq(Results), Len(frames) <= WindowSize, NEW r \in Results
    PROVE  /\ Added(frames, r) \in Seq(Results)
           /\ Len(Added(frames, r)) <= WindowSize
           /\ Added(frames, r)[Len(Added(frames, r))] = r
<1>1. CASE Len(frames) < WindowSize
  BY <1>1, WindowAssumption DEF Added
<1>2. CASE Len(frames) = WindowSize
  <2>1. frames # <<>> /\ Tail(frames) \in Seq(Results) /\ Len(Tail(frames)) = WindowSize - 1
    BY <1>2, WindowAssumption
  <2> QED  BY <1>2, <2>1, WindowAssumption DEF Added
<1> QED  BY <1>1, <1>2, WindowAssumption

-----------------------------------------------------------------------------
(* The order of a finite set *)

\* Ascending() lists a finite set of integers, each element at the place that says
\* how many elements are not greater.
LEMMA AscendingLists ==
    ASSUME NEW set \in SUBSET Int, IsFiniteSet(set)
    PROVE  /\ Ascending(set) \in Seq(set)
           /\ Len(Ascending(set)) = Cardinality(set) /\ Cardinality(set) \in Nat
           /\ \A k \in 1 .. Cardinality(set) :
                /\ Ascending(set)[k] \in set
                /\ Cardinality({y \in set : y <= Ascending(set)[k]}) = k
<1> DEFINE n == Cardinality(set)
           upTo(x) == {y \in set : y <= x}
           rank == [x \in set |-> Cardinality(upTo(x))]
           ranks == {rank[x] : x \in set}
<1>1. n \in Nat
  BY FS_CardinalityType
<1>2. ASSUME NEW x \in set
      PROVE  /\ IsFiniteSet(upTo(x)) /\ rank[x] \in 1 .. n
  <2>1. /\ IsFiniteSet(upTo(x)) /\ Cardinality(upTo(x)) <= n
    BY FS_Subset
  <2>2. /\ Cardinality(upTo(x)) \in Nat
    BY <2>1, FS_CardinalityType
  <2>3. Cardinality(upTo(x)) # 0
    <3>1. x \in upTo(x)
      OBVIOUS
    <3> QED
      BY <2>1, <3>1, FS_EmptySet
  <2> QED
    BY <1>1, <2>1, <2>2, <2>3
<1>3. ASSUME NEW x \in set, NEW y \in set, x < y
      PROVE  rank[x] < rank[y]
  <2>1. upTo(x) \in SUBSET upTo(y) /\ y \in upTo(y) /\ y \notin upTo(x)
    <3>1. \A z \in set : z \in Int
      OBVIOUS
    <3>2. \A z \in set : z <= x => z <= y
      BY <1>3, <3>1
    <3>3. y <= y /\ ~ (y <= x)
      BY <1>3, <3>1
    <3> QED
      BY <3>2, <3>3
  <2>2. /\ Cardinality(upTo(x)) <= Cardinality(upTo(y))
        /\ Cardinality(upTo(y)) # Cardinality(upTo(x))
    BY <1>2, <2>1, FS_Subset
  <2>3. rank[x] \in 1 .. n /\ rank[y] \in 1 .. n
    BY <1>2
  <2> HIDE DEF n
  <2> QED
    BY <1>1, <2>2, <2>3
<1>4. ranks = 1 .. n
  <2>1. rank \in Surjection(set, ranks) /\ rank \in Injection(set, ranks)
    <3>1. rank \in [set -> ranks]
      OBVIOUS
    <3>2. ASSUME NEW x \in set, NEW y \in set, rank[x] = rank[y]
          PROVE  x = y
      <4>1. rank[x] \in Nat
        BY <1>1, <1>2
      <4>2. ~ (x < y) /\ ~ (y < x)
        BY <1>3, <3>2, <4>1
      <4> QED
        BY <4>2
    <3> QED
      BY <3>1, <3>2 DEF Surjection, Injection, IsInjective
  <2>2. Cardinality(ranks) = n
    BY <2>1, FS_Surjection
  <2>3. ranks \in SUBSET (1 .. n)
    BY <1>2
  <2>4. IsFiniteSet(1 .. n) /\ Cardinality(1 .. n) = n
    <3>1. Cardinality(1 .. n) = IF 1 > n THEN 0 ELSE n - 1 + 1
      BY <1>1, FS_Interval
    <3> HIDE DEF n
    <3> QED
      BY <1>1, <3>1, FS_Interval
  <2> QED
    BY <2>2, <2>3, <2>4, FS_Subset
<1> DEFINE list == Ascending(set)
<1>5. list = [k \in 1 .. n |-> CHOOSE x \in set : Cardinality(upTo(x)) = k]
  BY DEF Ascending
<1>6. ASSUME NEW k \in 1 .. n
      PROVE  list[k] \in set /\ Cardinality(upTo(list[k])) = k
  <2>1. \E x \in set : Cardinality(upTo(x)) = k
    BY <1>4
  <2>2. list[k] = CHOOSE x \in set : Cardinality(upTo(x)) = k
    BY <1>5
  <2> HIDE DEF list, upTo
  <2> QED
    BY <2>1, <2>2
<1>7. list \in Seq(set) /\ Len(list) = n
  <2>1. list \in [1 .. n -> set]
    <3> HIDE DEF upTo
    <3> QED
      BY <1>5, <1>6
  <2> HIDE DEF n, list
  <2> QED
    BY <1>1, <2>1
<1> QED
  BY <1>1, <1>6, <1>7

-----------------------------------------------------------------------------
(* The focus trend *)

\* Hfrs() keeps the numbers of the frames that have one, and of these the last
\* three come from the last three frames, if all of those have one.
LEMMA HfrsOfWindow ==
    ASSUME NEW frames \in Seq(Results)
    PROVE  LET N == Len(frames)
               lit == {i \in 1..N : frames[i].hfr > 0}
               hfrs == Hfrs(frames)
           IN  /\ Len(hfrs) \in Nat
               /\ \A k \in 1 .. Len(hfrs) : \E i \in lit : hfrs[k] = frames[i].hfr
               /\ N >= 3 /\ N - 2 .. N \in SUBSET lit =>
                    \A k \in Len(hfrs) - 2 .. Len(hfrs) :
                        \E i \in N - 2 .. N : hfrs[k] = frames[i].hfr
<1> DEFINE N == Len(frames)
           lit == {i \in 1..N : frames[i].hfr > 0}
           list == Ascending(lit)
           hfrs == Hfrs(frames)
           upTo(x) == {y \in lit : y <= x}
<1>1. N \in Nat /\ lit \in SUBSET (1 .. N)
  OBVIOUS
<1>2. IsFiniteSet(lit) /\ lit \in SUBSET Int
  <2>1. IsFiniteSet(1 .. N)
    BY <1>1, FS_Interval
  <2> QED
    BY <1>1, <2>1, FS_Subset
<1>3. /\ Len(list) = Cardinality(lit) /\ Cardinality(lit) \in Nat
      /\ \A k \in 1 .. Cardinality(lit) : list[k] \in lit /\ Cardinality(upTo(list[k])) = k
  <2> HIDE DEF lit
  <2> QED
    BY <1>2, AscendingLists
<1>4. hfrs = [k \in 1 .. Cardinality(lit) |-> frames[list[k]].hfr]
  BY <1>3 DEF Hfrs
<1> HIDE DEF hfrs, list
<1>5. \A k \in 1 .. Cardinality(lit) : frames[list[k]].hfr \in Nat
  <2>1. \A i \in 1 .. N : frames[i].hfr \in Nat
    <3>1. \A i \in 1 .. N : frames[i] \in Results
      OBVIOUS
    <3> QED
      BY <3>1 DEF Results
  <2> QED
    BY <1>1, <1>3, <2>1
<1>6. Len(hfrs) = Cardinality(lit)
  <2>1. hfrs \in [1 .. Cardinality(lit) -> Nat]
    BY <1>4, <1>5
  <2> QED
    BY <1>3, <2>1
<1>7. ASSUME N >= 3, N - 2 .. N \in SUBSET lit, NEW k \in 1 .. Len(hfrs), k >= Len(hfrs) - 2
      PROVE  list[k] \in N - 2 .. N
  <2> DEFINE before == ((lit \ {N}) \ {N - 1}) \ {N - 2}
  <2>1. list[k] \in lit /\ Cardinality(upTo(list[k])) = k /\ list[k] \in 1 .. N
    BY <1>1, <1>3, <1>6
  <2>2. SUFFICES ASSUME list[k] < N - 2 PROVE FALSE
    BY <1>1, <2>1
  <2>3. N \in lit /\ N - 1 \in lit \ {N} /\ N - 2 \in (lit \ {N}) \ {N - 1}
    BY <1>1, <1>7
  <2>4. upTo(list[k]) \in SUBSET before
    <3>1. \A y \in lit : y \in Int
      BY <1>2
    <3>2. \A y \in lit : y <= list[k] => y # N /\ y # N - 1 /\ y # N - 2
      BY <1>1, <2>1, <2>2, <3>1
    <3> QED
      BY <3>2
  <2> HIDE DEF lit
  <2>5. /\ IsFiniteSet(lit \ {N}) /\ Cardinality(lit \ {N}) = Cardinality(lit) - 1
        /\ IsFiniteSet((lit \ {N}) \ {N - 1})
        /\ Cardinality((lit \ {N}) \ {N - 1}) = Cardinality(lit) - 1 - 1
        /\ IsFiniteSet(before)
        /\ Cardinality(before) = Cardinality(lit) - 1 - 1 - 1
    <3>1. /\ IsFiniteSet(lit \ {N}) /\ Cardinality(lit \ {N}) = Cardinality(lit) - 1
      BY <1>2, <2>3, FS_RemoveElement
    <3>2. /\ IsFiniteSet((lit \ {N}) \ {N - 1})
          /\ Cardinality((lit \ {N}) \ {N - 1}) = Cardinality(lit \ {N}) - 1
      BY <3>1, <2>3, FS_RemoveElement
    <3>3. /\ IsFiniteSet(before)
          /\ Cardinality(before) = Cardinality((lit \ {N}) \ {N - 1}) - 1
      BY <3>2, <2>3, FS_RemoveElement
    <3> QED
      BY <3>1, <3>2, <3>3
  <2>6. Cardinality(upTo(list[k])) <= Cardinality(before)
    BY <2>4, <2>5, FS_Subset
  <2> HIDE DEF before, upTo
  <2> QED
    BY <1>3, <1>6, <1>7, <2>1, <2>5, <2>6
<1>8. \A k \in 1 .. Len(hfrs) : \E i \in lit : hfrs[k] = frames[i].hfr
  BY <1>3, <1>4, <1>6
<1>9. ASSUME N >= 3, N - 2 .. N \in SUBSET lit, NEW k \in Len(hfrs) - 2 .. Len(hfrs)
      PROVE  \E i \in N - 2 .. N : hfrs[k] = frames[i].hfr
  <2>1. {N, N - 1, N - 2} \in SUBSET lit /\ N # N - 1 /\ N # N - 2 /\ N - 1 # N - 2
    BY <1>1, <1>9
  <2> HIDE DEF lit
  <2>2. Cardinality({N, N - 1, N - 2}) = 3 /\ Cardinality({N, N - 1, N - 2}) <= Cardinality(lit)
    <3>1. IsFiniteSet({N}) /\ Cardinality({N}) = 1 /\ N - 1 \notin {N}
      BY <2>1, FS_Singleton
    <3>2. /\ IsFiniteSet({N} \cup {N - 1})
          /\ Cardinality({N} \cup {N - 1}) = Cardinality({N}) + 1
          /\ N - 2 \notin {N} \cup {N - 1}
      BY <2>1, <3>1, FS_AddElement
    <3>3. Cardinality(({N} \cup {N - 1}) \cup {N - 2}) = Cardinality({N} \cup {N - 1}) + 1
      BY <3>2, FS_AddElement
    <3>4. ({N} \cup {N - 1}) \cup {N - 2} = {N, N - 1, N - 2}
      OBVIOUS
    <3>5. Cardinality({N, N - 1, N - 2}) = 3
      BY <3>1, <3>2, <3>3, <3>4
    <3>6. Cardinality({N, N - 1, N - 2}) <= Cardinality(lit)
      BY <1>2, <2>1, FS_Subset
    <3> QED
      BY <3>5, <3>6
  <2>3. k \in 1 .. Len(hfrs) /\ k >= Len(hfrs) - 2
    BY <1>3, <1>6, <2>2
  <2>4. list[k] \in N - 2 .. N
    BY <1>7, <1>9, <2>3
  <2>5. hfrs[k] = frames[list[k]].hfr
    BY <1>4, <1>6, <2>3
  <2> QED
    BY <2>4, <2>5
<1>10. Len(hfrs) \in Nat
  BY <1>3, <1>6
<1>11. N >= 3 /\ N - 2 .. N \in SUBSET lit =>
         \A k \in Len(hfrs) - 2 .. Len(hfrs) : \E i \in N - 2 .. N : hfrs[k] = frames[i].hfr
  BY <1>9
<1> QED
  BY <1>8, <1>10, <1>11 DEF hfrs

\* A clear sky does not ask for focus: no half-flux radius among the last three frames
\* is larger than any in the window.
THEOREM ClearFramesKeepFocus ==
    ASSUME NEW frames \in Seq(Results), ClearAgain(frames)
    PROVE  ~ HfrDrifts(frames)
<1> DEFINE N == Len(frames)
           lit == {i \in 1..N : frames[i].hfr > 0}
           hfrs == Hfrs(frames)
           n == Len(hfrs)
<1>1. N \in Nat /\ N >= 3 /\ N - 2 .. N \in SUBSET (1 .. N)
  BY DEF ClearAgain
<1>2. \A i \in 1 .. N : frames[i].hfr \in Nat
  <2>1. \A i \in 1 .. N : frames[i] \in Results
    OBVIOUS
  <2> QED
    BY <2>1 DEF Results
<1>3. SUFFICES ASSUME n >= 3 PROVE ~ (100 * Recent(hfrs) > Early(hfrs) * (100 + HfrDriftPercent))
  BY DEF HfrDrifts
<1>4. /\ n \in Nat
      /\ \A k \in 1 .. n : \E i \in lit : hfrs[k] = frames[i].hfr
  BY HfrsOfWindow
<1>5. \A i \in N - 2 .. N, j \in lit : frames[i].hfr \in 1 .. frames[j].hfr
  BY DEF ClearAgain, AsGood
<1>6. N - 2 .. N \in SUBSET lit
  <2>1. PICK j \in lit : hfrs[1] = frames[j].hfr
    BY <1>3, <1>4
  <2>2. \A i \in N - 2 .. N : frames[i].hfr > 0 /\ i \in 1 .. N
    BY <1>1, <1>2, <1>5, <2>1
  <2> QED
    BY <2>2
<1>7. \A k \in n - 2 .. n : \E i \in N - 2 .. N : hfrs[k] = frames[i].hfr
  BY <1>1, <1>6, HfrsOfWindow
<1> HIDE DEF hfrs, lit
<1>8. ASSUME NEW k \in n - 2 .. n, NEW j \in 1 .. n
      PROVE  hfrs[k] <= hfrs[j] /\ hfrs[k] \in Nat /\ hfrs[j] \in Nat
  <2>1. PICK i \in N - 2 .. N : hfrs[k] = frames[i].hfr
    BY <1>7
  <2>2. PICK l \in lit : hfrs[j] = frames[l].hfr
    BY <1>4
  <2>3. frames[i].hfr \in 1 .. frames[l].hfr
    BY <1>5
  <2>4. frames[i].hfr \in Nat /\ frames[l].hfr \in Nat
    BY <1>1, <1>2, <2>1, <2>2 DEF lit
  <2> HIDE DEF N
  <2> QED
    BY <2>1, <2>2, <2>3, <2>4
<1>9. {n, n - 1, n - 2} \in SUBSET (n - 2 .. n) /\ {1, 2, 3} \in SUBSET (1 .. n)
  BY <1>3, <1>4
<1>10. /\ hfrs[n] <= hfrs[1] /\ hfrs[n - 1] <= hfrs[2] /\ hfrs[n - 2] <= hfrs[3]
       /\ \A k \in {1, 2, 3, n, n - 1, n - 2} : hfrs[k] \in Nat
  BY <1>8, <1>9
<1> DEFINE early == hfrs[1] + hfrs[2] + hfrs[3]
           recent == hfrs[n] + hfrs[n - 1] + hfrs[n - 2]
<1>11. early \in Nat /\ recent \in Nat /\ recent <= early
  <2> DEFINE a == hfrs[1]
             b == hfrs[2]
             c == hfrs[3]
             d == hfrs[n]
             e == hfrs[n - 1]
             f == hfrs[n - 2]
  <2>1. /\ a \in Nat /\ b \in Nat /\ c \in Nat /\ d \in Nat /\ e \in Nat /\ f \in Nat
        /\ d <= a /\ e <= b /\ f <= c
    BY <1>10
  <2> HIDE DEF a, b, c, d, e, f, n
  <2>2. a + b + c \in Nat /\ d + e + f \in Nat /\ d + e + f <= a + b + c
    BY <2>1
  <2> QED
    BY <2>2 DEF a, b, c, d, e, f
<1>12. Recent(hfrs) = recent /\ Early(hfrs) = early
  BY DEF Recent, Early
<1> HIDE DEF early, recent
<1>13. 100 + HfrDriftPercent = 125
  BY DEF HfrDriftPercent
<1>14. ~ (100 * recent > early * 125)
  BY <1>11
<1> QED
  BY <1>12, <1>13, <1>14

-----------------------------------------------------------------------------
(* One frame, one more frame in the window, one step of the session *)

LEMMA AnalysisGivesResult ==
    ASSUME NEW sky \in Measurements
    PROVE  Analyze(sky) \in Results
<1>1. Worst(Checks(sky)) \in Classes
  BY DEF Worst, Classes
<1>2. /\ sky.stars \in Nat /\ sky.hot \in Nat
      /\ (IF sky.stars >= MinStars THEN sky.hfr ELSE 0) \in Nat
  BY DEF Measurements
<1> QED
  BY <1>1, <1>2 DEF Analyze, Results

\* Added() keeps the window's type and bound; what is in the new window is the new
\* element or was in the old one.
LEMMA AddedToWindow ==
    ASSUME NEW T, NEW window \in Seq(T), Len(window) <= WindowSize, NEW r \in T
    PROVE  /\ Added(window, r) \in Seq(T)
           /\ Len(Added(window, r)) \in 1 .. WindowSize
           /\ \A i \in 1 .. Len(Added(window, r)) :
                \/ Added(window, r)[i] = r
                \/ \E j \in 1 .. Len(window) : Added(window, r)[i] = window[j]
<1>1. WindowSize \in Nat /\ WindowSize >= 1 /\ Len(window) \in Nat
  BY WindowAssumption
<1>2. CASE Len(window) < WindowSize
  <2>1. Added(window, r) = Append(window, r)
    BY <1>2 DEF Added
  <2> QED
    BY <1>1, <1>2, <2>1
<1>3. CASE Len(window) = WindowSize
  <2>1. Added(window, r) = Append(Tail(window), r)
    BY <1>1, <1>3 DEF Added
  <2>2. /\ Tail(window) \in Seq(T) /\ Len(Tail(window)) = Len(window) - 1
        /\ \A i \in 1 .. Len(Tail(window)) : Tail(window)[i] = window[i + 1]
    BY <1>1, <1>3
  <2>3. ASSUME NEW i \in 1 .. Len(Added(window, r)), Added(window, r)[i] # r
        PROVE  \E j \in 1 .. Len(window) : Added(window, r)[i] = window[j]
    <3> DEFINE tail == Tail(window)
    <3>1. i \in 1 .. Len(tail) /\ Added(window, r)[i] = tail[i]
      <4>1. tail \in Seq(T) /\ i \in 1 .. Len(Append(tail, r)) /\ Append(tail, r)[i] # r
        BY <2>1, <2>2, <2>3
      <4> HIDE DEF tail
      <4>2. i \in 1 .. Len(tail) /\ Append(tail, r)[i] = tail[i]
        BY <4>1
      <4> QED
        BY <2>1, <4>2 DEF tail
    <3>2. i + 1 \in 1 .. Len(window)
      BY <1>1, <2>2, <3>1
    <3> QED
      BY <2>2, <3>1, <3>2
  <2> QED
    BY <1>1, <1>3, <2>1, <2>2, <2>3
<1> QED
  BY <1>1, <1>2, <1>3

\* The session operations of the loop and the manager keep the session's type.
LEMMA SessionOperations ==
    ASSUME NEW s \in Sessions
    PROVE  /\ [EnterTargetAcquired(s) EXCEPT !.managed = TRUE] \in Sessions
           /\ EnterCapture(s) \in Sessions /\ EnterRecover(s) \in Sessions
           /\ Stopped(s) \in Sessions /\ Cleared(s) \in Sessions
<1> USE DEF Sessions, Intents, Outcomes, Contexts, NoContext, ClawStates, PreSessionStates,
            LoopStates, CaptureStates, SupervisoryStates, TerminalStates
<1>1. [EnterTargetAcquired(s) EXCEPT !.managed = TRUE] \in Sessions
  BY DEF EnterTargetAcquired
<1>2. EnterCapture(s) \in Sessions
  BY DEF EnterCapture
<1>3. EnterRecover(s) \in Sessions
  BY DEF EnterRecover
<1>4. Stopped(s) \in Sessions
  BY DEF Stopped, Ended
<1>5. Cleared(s) \in Sessions
  BY DEF Cleared
<1> QED
  BY <1>1, <1>2, <1>3, <1>4, <1>5

-----------------------------------------------------------------------------
(* The inductive invariant of FrameWatch *)

\* The window holds frames of the session that the loop knew last; only so is it
\* enough that the loop compares the last two ids.
WindowIsOfLast == \A i \in 1 .. Len(rolling) : rolling[i].of = lastId

\* A paused session can be resumed to a state that is not paused.
PausedKnowsBack(s) ==
    s.state = "paused" => s.ctx \in Contexts /\ s.ctx.resume # "paused"

IInv == TypeOK /\ WindowIsOfLast /\ PausedKnowsBack(session)

LEMMA PauseKnowsBack ==
    ASSUME NEW s \in Sessions, NEW resume \in ClawStates \ {"paused"}, NEW intent \in Intents
    PROVE  Paused(s, resume, intent) \in Sessions /\ PausedKnowsBack(Paused(s, resume, intent))
<1>1. "paused" \in ClawStates /\ [resume |-> resume, intent |-> intent] \in Contexts
  BY DEF ClawStates, Contexts
<1>2. /\ Paused(s, resume, intent) \in Sessions
      /\ Paused(s, resume, intent).ctx = [resume |-> resume, intent |-> intent]
  BY <1>1 DEF Paused, Sessions
<1> QED
  BY <1>1, <1>2 DEF PausedKnowsBack

\* The guard leaves the session capturing, recovering, or paused so that it can be
\* resumed, and counts within its bound.
LEMMA GuardKeeps ==
    ASSUME TypeOK, session.state = "capture",
           NEW overall \in Classes, NEW recommendation, Guard(overall, recommendation)
    PROVE  /\ session' \in Sessions /\ PausedKnowsBack(session')
           /\ badFrames' \in 0 .. MaxBadFrames
<1>1. /\ session \in Sessions /\ badFrames \in 0 .. MaxBadFrames
      /\ MaxBadFrames \in Nat \ {0}
  BY FramesAssumption DEF TypeOK
<1>2. BadFrames(overall) \in 0 .. MaxBadFrames
  BY <1>1 DEF BadFrames, Classes
<1>3. "capture" \in ClawStates \ {"paused"} /\ "capture" \in Intents
  BY DEF ClawStates, CaptureStates, Intents
<1>4. PausedKnowsBack(session)
  BY DEF PausedKnowsBack
<1>5. LET s == Paused(session, "capture", "capture")
      IN  s \in Sessions /\ PausedKnowsBack(s)
  BY <1>1, <1>3, PauseKnowsBack
<1>6. LET s == Paused(session, ConflictTarget(session).resume, ConflictTarget(session).intent)
      IN  s \in Sessions /\ PausedKnowsBack(s)
  <2>1. ConflictTarget(session).resume = "capture"
    BY DEF ConflictTarget, SafeResumeStates
  <2>2. ConflictTarget(session).intent \in Intents
    BY <1>1, <1>3 DEF ConflictTarget, Sessions
  <2> QED
    BY <1>1, <1>3, <2>1, <2>2, PauseKnowsBack
<1>7. EnterRecover(session) \in Sessions /\ PausedKnowsBack(EnterRecover(session))
  <2>1. EnterRecover(session).state = "recover"
    BY <1>1 DEF EnterRecover, Sessions
  <2> QED
    BY <1>1, <2>1, SessionOperations DEF PausedKnowsBack
<1>8. CASE GuardBlocked
  BY <1>1, <1>4, <1>5, <1>8 DEF GuardBlocked
<1>9. CASE GuardCounts(overall)
  BY <1>2, <1>5, <1>7, <1>9 DEF GuardCounts
<1>10. CASE GuardFollows(overall, recommendation)
  BY <1>1, <1>2, <1>4, <1>5, <1>6, <1>10 DEF GuardFollows
<1> QED
  BY <1>8, <1>9, <1>10 DEF Guard

LEMMA InitKeeps == Init => IInv
<1> SUFFICES ASSUME Init PROVE IInv
  OBVIOUS
<1>1. ReadySession \in Sessions /\ PausedKnowsBack(ReadySession)
  BY DEF ReadySession, PausedKnowsBack, Sessions, ClawStates, PreSessionStates, NoContext
<1>2. rolling \in Seq([result: Results, of: Ids]) /\ Len(rolling) = 0
  BY DEF Init
<1>3. TypeOK
  BY <1>1, <1>2, FramesAssumption, WindowAssumption DEF Init, TypeOK, OnDisk, Ids
<1>4. WindowIsOfLast
  BY <1>2 DEF WindowIsOfLast
<1> QED
  BY <1>1, <1>3, <1>4 DEF Init, IInv

\* Of the files, only the watcher's own parts can lose their type.
LEMMA FilesKeep ==
    ASSUME IInv, UNCHANGED <<rolling, lastId, owner>>,
           disk' \in [Frames -> {"absent", "partial", "whole"}],
           seen' \subseteq Frames, observed' \subseteq Frames, todo' \in Seq(Frames)
    PROVE  IInv'
BY DEF IInv, TypeOK, WindowIsOfLast, PausedKnowsBack, owner

\* A step of the session leaves the files and the window alone.
LEMMA SessionKeeps ==
    ASSUME IInv, UNCHANGED <<files, rolling, lastId>>, sessionId' \in Ids,
           session' \in Sessions, PausedKnowsBack(session'), badFrames' \in 0 .. MaxBadFrames
    PROVE  IInv'
BY DEF IInv, TypeOK, WindowIsOfLast, PausedKnowsBack, files

\* The window after a frame was observed: bounded, and of the present session.
LEMMA WindowOfSession ==
    ASSUME IInv, NEW result \in Results
    PROVE  /\ Window(result) \in Seq([result: Results, of: Ids])
           /\ Len(Window(result)) \in 1 .. WindowSize
           /\ \A i \in 1 .. Len(Window(result)) : Window(result)[i].of = sessionId
<1> DEFINE T == [result: Results, of: Ids]
           entry == Entry(result, sessionId)
<1>1. entry \in T /\ entry.of = sessionId
  BY DEF Entry, IInv, TypeOK
<1>2. /\ rolling \in Seq(T) /\ Len(rolling) <= WindowSize
      /\ \A i \in 1 .. Len(rolling) : rolling[i].of = lastId
  BY DEF IInv, TypeOK, WindowIsOfLast
<1> HIDE DEF T, entry
<1>3. CASE sessionId = lastId
  <2>1. Window(result) = Added(rolling, entry)
    BY <1>3 DEF Window, entry
  <2> DEFINE window == Added(rolling, entry)
  <2>2. /\ window \in Seq(T) /\ Len(window) \in 1 .. WindowSize
        /\ \A i \in 1 .. Len(window) :
             window[i] = entry \/ \E j \in 1 .. Len(rolling) : window[i] = rolling[j]
    BY <1>1, <1>2, AddedToWindow
  <2>3. \A i \in 1 .. Len(window) : window[i].of = sessionId
    BY <1>1, <1>2, <1>3, <2>2
  <2> QED
    BY <2>1, <2>2, <2>3 DEF T
<1>4. CASE sessionId # lastId
  <2>1. Window(result) = <<entry>>
    BY <1>4 DEF Window, entry
  <2>2. 1 \in 1 .. WindowSize
    BY WindowAssumption
  <2>3. <<entry>> \in Seq(T) /\ Len(<<entry>>) = 1 /\ <<entry>>[1] = entry
    BY <1>1
  <2> QED
    BY <1>1, <2>1, <2>2, <2>3 DEF T
<1> QED
  BY <1>3, <1>4

LEMMA ObserveKeeps ==
    ASSUME IInv, NEW sky \in Skies, Observe(sky)
    PROVE  /\ IInv'
           /\ \A i \in 1 .. Len(rolling') : rolling'[i].of = sessionId
           /\ Len(rolling') >= 1 /\ rolling' \in Seq([result: Results, of: Ids])
<1> DEFINE result == Analyze(sky)
<1>1. result \in Results /\ result.overall \in Classes
  BY AnalysisGivesResult, FramesAssumption DEF Results
<1> HIDE DEF result
<1>2. /\ rolling' = Window(result)
      /\ rolling' \in Seq([result: Results, of: Ids]) /\ Len(rolling') \in 1 .. WindowSize
      /\ \A i \in 1 .. Len(rolling') : rolling'[i].of = sessionId
  <2>1. rolling' = Window(result)
    BY DEF Observe, result
  <2> QED
    BY <1>1, <2>1, WindowOfSession
<1>3. Len(rolling') >= 1 /\ Len(rolling') <= WindowSize
  BY <1>2, WindowAssumption
<1>4. lastId' = sessionId /\ sessionId' = sessionId /\ disk' = disk
  BY DEF Observe
<1>5. /\ todo' \in Seq(Frames) /\ seen' \subseteq Frames /\ observed' \subseteq Frames
  <2>1. todo \in Seq(Frames) /\ todo # <<>>
    BY DEF Observe, IInv, TypeOK
  <2>2. Tail(todo) \in Seq(Frames) /\ Head(todo) \in Frames
    BY <2>1
  <2> QED
    BY <2>2 DEF Observe, IInv, TypeOK
<1>6. /\ session' \in Sessions /\ PausedKnowsBack(session')
      /\ badFrames' \in 0 .. MaxBadFrames
  <2>1. CASE session.state = "capture"
    <3>1. PICK recommendation : Guard(result.overall, recommendation)
      BY <2>1 DEF Observe, result
    <3> QED
      BY <1>1, <2>1, <3>1, GuardKeeps DEF IInv
  <2>2. CASE session.state # "capture"
    BY <2>2 DEF Observe, IInv, TypeOK
  <2> QED
    BY <2>1, <2>2
<1>7. TypeOK'
  BY <1>2, <1>3, <1>4, <1>5, <1>6 DEF TypeOK, IInv
<1>8. WindowIsOfLast'
  BY <1>2, <1>4 DEF WindowIsOfLast
<1> QED
  BY <1>2, <1>3, <1>6, <1>7, <1>8 DEF IInv

LEMMA StepKeeps == IInv /\ [Next]_vars => IInv'
<1> SUFFICES ASSUME IInv, [Next]_vars PROVE IInv'
  OBVIOUS
<1> USE FramesAssumption
<1>1. ASSUME NEW f \in Frames, FrameBegun(f) PROVE IInv'
  BY <1>1, FilesKeep DEF FrameBegun, IInv, TypeOK
<1>2. ASSUME NEW f \in Frames, FrameWritten(f) PROVE IInv'
  BY <1>2, FilesKeep DEF FrameWritten, IInv, TypeOK
<1>3. ASSUME NEW f \in Frames, Forgotten(f) PROVE IInv'
  BY <1>3, FilesKeep DEF Forgotten, IInv, TypeOK
<1>4. CASE Poll
  <2> DEFINE new == OnDisk \ seen
  <2>1. new \subseteq Frames
    BY DEF OnDisk
  <2> HIDE DEF new
  <2>2. new \in SUBSET Int
    BY <2>1
  <2>3. IsFiniteSet(Frames) /\ new \in SUBSET Frames
    BY <2>1
  <2>4. IsFiniteSet(new)
    BY <2>3, FS_Subset
  <2>5. Ascending(new) \in Seq(new)
    BY <2>2, <2>4, AscendingLists
  <2> DEFINE list == Ascending(new)
  <2> HIDE DEF list
  <2>6. list \in [1 .. Len(list) -> new] /\ Len(list) \in Nat
    BY <2>5 DEF list
  <2>7. list \in Seq(Frames)
    <3>1. list \in [1 .. Len(list) -> Frames]
      BY <2>1, <2>6
    <3> QED
      BY <2>6, <3>1, SeqDef
  <2>8. todo' = list /\ UNCHANGED <<disk, seen, observed, rolling, lastId, owner>>
    BY <1>4 DEF Poll, new, list
  <2> QED
    BY <2>7, <2>8, FilesKeep DEF IInv, TypeOK
<1>5. CASE AnalysisFails
  <2>1. todo \in Seq(Frames) /\ todo # <<>> /\ Tail(todo) \in Seq(Frames)
    BY <1>5 DEF AnalysisFails, IInv, TypeOK
  <2> QED
    BY <1>5, <2>1, FilesKeep DEF AnalysisFails, IInv, TypeOK
<1>6. ASSUME NEW sky \in Skies, Observe(sky) PROVE IInv'
  BY <1>6, ObserveKeeps
<1>7. session \in Sessions /\ sessionId \in Ids /\ badFrames \in 0 .. MaxBadFrames
      /\ PausedKnowsBack(session) /\ 0 \in 0 .. MaxBadFrames
  BY DEF IInv, TypeOK
<1>8. CASE SessionStarts
  <2> DEFINE id == CHOOSE id \in NewIds : TRUE
  <2>1. session'.state = "target_acquired"
    BY <1>7, <1>8 DEF SessionStarts, EnterTargetAcquired, Sessions
  <2>2. session' \in Sessions
    BY <1>7, <1>8, SessionOperations DEF SessionStarts
  <2>3. id \in Ids
    <3>1. NewIds # {}
      BY <1>8 DEF SessionStarts
    <3>2. id \in NewIds
      BY <3>1
    <3> QED
      BY <3>2 DEF NewIds, Ids
  <2>4. sessionId' = id
    BY <1>8 DEF SessionStarts
  <2> HIDE DEF id
  <2> QED
    BY <1>7, <1>8, <2>1, <2>2, <2>3, <2>4, SessionKeeps DEF SessionStarts, PausedKnowsBack
<1>9. ASSUME NEW next \in Sessions, PausedKnowsBack(next), SessionMoves(next) PROVE IInv'
  BY <1>7, <1>9, SessionKeeps DEF SessionMoves
<1>10. CASE SessionCaptures
  <2>1. EnterCapture(session).state = "capture"
    BY <1>7 DEF EnterCapture, Sessions
  <2> QED
    BY <1>7, <1>10, <2>1, SessionOperations, SessionKeeps DEF SessionCaptures, PausedKnowsBack
<1>11. CASE SessionPauses
  <2>1. session.state \in {"target_acquired", "capture", "recover"}
    BY <1>11 DEF SessionPauses
  <2>2. PauseTarget(session).resume = session.state
    BY <2>1 DEF PauseTarget
  <2>3. PauseTarget(session).intent \in Intents
    BY <1>7 DEF PauseTarget, Sessions, Intents
  <2>4. session.state \in ClawStates \ {"paused"}
    BY <1>7, <2>1 DEF Sessions
  <2> QED
    BY <1>7, <1>9, <1>11, <2>2, <2>3, <2>4, PauseKnowsBack DEF SessionPauses
<1>12. CASE SessionResumes
  <2> DEFINE next == [session EXCEPT !.state = session.ctx.resume,
                                     !.intent = session.ctx.intent, !.ctx = NoContext]
  <2>1. session.ctx \in Contexts /\ session.ctx.resume # "paused"
    BY <1>7, <1>12 DEF SessionResumes, PausedKnowsBack
  <2>2. next \in Sessions /\ next.state = session.ctx.resume
    BY <1>7, <2>1 DEF Sessions, Contexts
  <2> QED
    BY <1>9, <1>12, <2>1, <2>2 DEF SessionResumes, PausedKnowsBack
<1>13. CASE SessionEnds
  <2>1. Stopped(session).state = "completed"
    BY <1>7 DEF Stopped, Ended, Sessions
  <2> QED
    BY <1>7, <1>9, <1>13, <2>1, SessionOperations DEF SessionEnds, PausedKnowsBack
<1>14. CASE SessionClears
  <2>1. Cleared(session).state = "ready" /\ NoSession \in Ids
    BY <1>7 DEF Cleared, Sessions, Ids
  <2> QED
    BY <1>7, <1>14, <2>1, SessionOperations, SessionKeeps DEF SessionClears, PausedKnowsBack
<1>15. CASE UNCHANGED vars
  BY <1>7, <1>15, SessionKeeps DEF vars, files
<1> QED
  BY <1>1, <1>2, <1>3, <1>4, <1>5, <1>6, <1>8, <1>10, <1>11, <1>12, <1>13, <1>14, <1>15
     DEF Next, Writer, Loop, Manager

-----------------------------------------------------------------------------
(* What always holds *)

LEMMA Invariance == Spec => []IInv
<1>1. Spec => Init /\ [][Next]_vars
  BY PTL DEF Spec
<1> QED
  BY <1>1, InitKeeps, StepKeeps, PTL

\* Type correctness of the watcher, the loop, the window and the session, for any
\* finite set of files, any sessions and any skies.
THEOREM TypeCorrect == Spec => []TypeOK
<1>1. IInv => TypeOK
  BY DEF IInv
<1> QED
  BY <1>1, Invariance, PTL

\* A frame is judged on frames of its own session only, itself among them: however
\* sessions end and start while the watcher analyzes.
THEOREM OwnFramesJudge == Spec => JudgedOnOwnFrames
<1>1. IInv /\ [Next]_vars =>
        [~ (observed' \subseteq observed) =>
           /\ \A i \in DOMAIN rolling' : rolling'[i].of = sessionId
           /\ rolling' # <<>>]_vars
  <2> SUFFICES ASSUME IInv, Next, ~ (observed' \subseteq observed)
               PROVE  /\ \A i \in DOMAIN rolling' : rolling'[i].of = sessionId
                      /\ rolling' # <<>>
    BY DEF vars
  <2>1. PICK sky \in Skies : Observe(sky)
    BY DEF Next, Writer, Loop, Manager, FrameBegun, FrameWritten, Forgotten, Poll, AnalysisFails,
           SessionStarts, SessionCaptures, SessionPauses, SessionResumes, SessionEnds,
           SessionClears, SessionMoves, files
  <2>2. /\ \A i \in 1 .. Len(rolling') : rolling'[i].of = sessionId
        /\ Len(rolling') >= 1 /\ rolling' \in Seq([result: Results, of: Ids])
    BY <2>1, ObserveKeeps
  <2> QED
    BY <2>2
<1>2. Spec => [][Next]_vars
  BY PTL DEF Spec
<1> QED
  BY <1>1, <1>2, Invariance, PTL DEF JudgedOnOwnFrames

\* After three frames as good as every frame of the window, the guard neither pauses nor
\* asks for focus, in every run and for every length of the window.
THEOREM ClearSkies == Spec => []ClearSkyGoesOn
<1>1. ASSUME IInv PROVE ClearSkyGoesOn
  <2> DEFINE frames == ResultsOf(rolling)
  <2>1. rolling \in Seq([result: Results, of: Ids])
    BY <1>1 DEF IInv, TypeOK
  <2>2. frames \in Seq(Results)
    <3>1. Len(rolling) \in Nat /\ \A i \in 1 .. Len(rolling) : rolling[i].result \in Results
      <4> DEFINE T == [result: Results, of: Ids]
      <4>1. rolling \in Seq(T) /\ \A e \in T : e.result \in Results
        BY <2>1
      <4> HIDE DEF T
      <4> QED
        BY <4>1
    <3>2. frames \in [1 .. Len(rolling) -> Results]
      BY <3>1 DEF ResultsOf
    <3> QED
      BY <3>1, <3>2, SeqDef
  <2> HIDE DEF frames
  <2>3. ASSUME ClearAgain(frames)
        PROVE  Recommendation(frames) \notin Pauses \cup {"trigger_autofocus"}
    <3>1. Recommendation(frames) \notin Pauses
      BY <2>2, <2>3, ClearFramesEndPauses
    <3>2. ~ HfrDrifts(frames)
      BY <2>2, <2>3, ClearFramesKeepFocus
    <3>3. Recommendation(frames) # "trigger_autofocus"
      BY <3>2 DEF Recommendation
    <3> QED
      BY <3>1, <3>3
  <2> QED
    BY <2>3 DEF ClearSkyGoesOn, frames
<1> QED
  BY <1>1, Invariance, PTL

=============================================================================
