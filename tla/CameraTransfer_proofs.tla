------------------------ MODULE CameraTransfer_proofs ------------------------
(***************************************************************************)
(* Proofs about CameraTransfer for any number of exposures.  That the      *)
(* state is well formed and that no exposure becomes two lights holds      *)
(* whether captures run beside recoveries or not; what recovery owes to    *)
(* the frames it deletes needs them to be kept apart (~Overlap).           *)
(*                                                                         *)
(* Everything about the frames rests on the order of the body's listing:   *)
(* it lists them in the order of their exposure, so that what is left      *)
(* after a transfer or a deletion is still in that order.  What recovery   *)
(* does rests on TodoIsStore: what it has left to do is the whole store,   *)
(* from its end.                                                           *)
(***************************************************************************)
EXTENDS CameraTransfer, SequenceTheorems, WellFoundedInduction, TLAPS

\* In the order of exposure; the i-th entry is the i-th exposure or a later one.
Listed(s) ==
    /\ s \in Seq(Nat)
    /\ \A i \in 1..Len(s) : i <= s[i]
    /\ \A i, j \in 1..Len(s) : i < j => s[i] < s[j]

\* No frame is older than the exposures, and none is in two places.
FramesAreKnown ==
    /\ \A i \in 1..Len(store) : store[i] <= shots
    /\ \A i \in 1..Len(lights) : lights[i] <= shots
    /\ \A i \in 1..Len(lights), j \in 1..Len(store) : lights[i] # store[j]

FramesInv ==
    /\ shots \in 0..MaxShots
    /\ Listed(store)
    /\ announced \subseteq Range(store)
    /\ lights \in Seq(Frames) /\ IsInjective(lights)
    /\ FramesAreKnown

\* The frame of a light that was not returned is neither on the body nor a light.
AttemptInv ==
    /\ attempt \in 0..shots
    /\ \A i \in 1..Len(lights) : lights[i] # attempt
    /\ \A j \in 1..Len(store) : store[j] # attempt

JobsInv ==
    /\ mode \in {"remote", "autocapture", "other"}
    /\ connected \in BOOLEAN
    /\ verification \in Frames \cup {NoFrame}
    /\ saved \subseteq Frames \X Frames
    /\ deleted \subseteq Frames
    /\ capture \in Captures
    /\ result \in Frames \cup {NoFrame}
    /\ recovery \in Recoveries

WorkLeft == recovery.step = "delete" => recovery.todo # <<>>

TInv == FramesInv /\ AttemptInv /\ JobsInv /\ WorkLeft

OneJob == Idle(capture) \/ Idle(recovery)

TodoIsStore ==
    recovery.step \in {"get", "delete"} =>
        /\ Len(recovery.todo) = Len(store)
        /\ \A k \in 1..Len(store) :
             recovery.todo[k] = <<Len(store) - k + 1, store[Len(store) - k + 1]>>

\* The entry that is deleted next was saved.
DeleteIsDue ==
    recovery.step = "delete" =>
        Len(store) > 0 /\ <<store[Len(store)], store[Len(store)]>> \in saved

SInv == OneJob /\ TodoIsStore /\ DeleteIsDue /\ DeletedIsSaved

-----------------------------------------------------------------------------
(* Induction on the natural numbers, by a least counterexample *)

LEMMA LeastNatural ==
    ASSUME NEW T \in SUBSET Nat, T # {}
    PROVE  \E n \in T : \A m \in T : n <= m
<1> DEFINE R == {ss \in Nat \X Nat : ss[1] < ss[2]}
<1>1. IsWellFoundedOn(R, Nat)
  BY NatLessThanWellFounded DEF OpToRel
<1>2. \E n \in T : \A m \in T : <<m, n>> \notin R
  <2> HIDE DEF R
  <2> QED BY <1>1, WFMin
<1>3. PICK n \in T : \A m \in T : <<m, n>> \notin R
  BY <1>2
<1>4. \A m \in T : ~(m < n) /\ n \in Nat /\ m \in Nat
  BY <1>3
<1> QED BY <1>4

\* The instance that is needed: a set with 0 and every successor of its members.
LEMMA Induction ==
    ASSUME NEW P, 0 \in P, \A n \in Nat \ {0} : n - 1 \in P => n \in P
    PROVE  Nat \subseteq P
<1>1. SUFFICES ASSUME ~(Nat \subseteq P) PROVE FALSE
  OBVIOUS
<1>2. Nat \ P # {}
  BY <1>1
<1>3. PICK n \in Nat \ P : \A m \in Nat \ P : n <= m
  BY <1>2, LeastNatural
<1>4. n # 0 /\ n - 1 \in Nat
  BY <1>3
<1>5. n - 1 \in P
  BY <1>3, <1>4
<1> QED BY <1>3, <1>4, <1>5

-----------------------------------------------------------------------------
(* What is left of a listing: Without, RemoveAt, Append *)

\* The first n steps of Without.
Kept(h, s, frames, n) ==
    h = [i \in 0..n |-> IF i = 0 THEN <<>>
                        ELSE IF s[i] \in frames THEN h[i - 1] ELSE Append(h[i - 1], s[i])]

LEMMA KeptExists ==
    ASSUME NEW s, NEW frames, NEW n \in Nat
    PROVE  \E h : Kept(h, s, frames, n)
<1> DEFINE P == {m \in Nat : \E h : Kept(h, s, frames, m)}
<1>1. 0 \in P
  <2> DEFINE h == [i \in 0..0 |-> <<>>]
  <2>1. Kept(h, s, frames, 0)
    BY DEF Kept
  <2> QED BY <2>1
<1>2. ASSUME NEW m \in Nat \ {0}, m - 1 \in P
      PROVE  m \in P
  <2>1. PICK h : Kept(h, s, frames, m - 1)
    BY <1>2
  <2> DEFINE g == [i \in 0..m |-> IF i < m THEN h[i]
                                  ELSE IF s[m] \in frames THEN h[m - 1]
                                  ELSE Append(h[m - 1], s[m])]
  <2>2. \A i \in 0..(m - 1) : g[i] = h[i]
    OBVIOUS
  <2>3. \A i \in 0..m : g[i] = IF i = 0 THEN <<>> ELSE IF s[i] \in frames THEN g[i - 1]
                               ELSE Append(g[i - 1], s[i])
    <3> SUFFICES ASSUME NEW i \in 0..m
                 PROVE  g[i] = IF i = 0 THEN <<>> ELSE IF s[i] \in frames THEN g[i - 1]
                               ELSE Append(g[i - 1], s[i])
      OBVIOUS
    <3>1. CASE i = m
      <4>1. g[i - 1] = h[m - 1]
        BY <2>2, <3>1
      <4> QED BY <3>1, <4>1
    <3>2. CASE i < m
      <4>1. g[i] = h[i] /\ (i # 0 => g[i - 1] = h[i - 1])
        BY <2>2, <3>2
      <4>2. i \in 0..(m - 1)
        BY <3>2
      <4>3. h[i] = IF i = 0 THEN <<>> ELSE IF s[i] \in frames THEN h[i - 1]
                   ELSE Append(h[i - 1], s[i])
        BY <2>1, <4>2 DEF Kept
      <4> HIDE DEF g
      <4> QED BY <4>1, <4>3
    <3> QED BY <3>1, <3>2
  <2>4. g = [i \in 0..m |-> g[i]]
    OBVIOUS
  <2> HIDE DEF g
  <2>5. Kept(g, s, frames, m)
    BY <2>3, <2>4 DEF Kept
  <2> QED BY <2>5
<1> HIDE DEF P
<1>3. n \in P
  BY <1>1, <1>2, Induction
<1> QED BY <1>3 DEF P

LEMMA WithoutUnfolds ==
    ASSUME NEW s, NEW frames, Len(s) \in Nat
    PROVE  \E h : /\ Without(s, frames) = h[Len(s)]
                  /\ h[0] = <<>>
                  /\ \A i \in 1..Len(s) : h[i] = IF s[i] \in frames THEN h[i - 1]
                                                 ELSE Append(h[i - 1], s[i])
<1>1. PICK g : Kept(g, s, frames, Len(s))
  BY KeptExists
<1> DEFINE h == CHOOSE x : Kept(x, s, frames, Len(s))
<1>2. Kept(h, s, frames, Len(s))
  BY <1>1
<1>3. Without(s, frames) = h[Len(s)]
  BY DEF Without, Kept
<1> HIDE DEF h
<1>4. /\ h[0] = <<>>
      /\ \A i \in 1..Len(s) : h[i] = IF s[i] \in frames THEN h[i - 1]
                                     ELSE Append(h[i - 1], s[i])
  <2>1. \A i \in 0..Len(s) : h[i] = IF i = 0 THEN <<>> ELSE IF s[i] \in frames THEN h[i - 1]
                                    ELSE Append(h[i - 1], s[i])
    BY <1>2 DEF Kept
  <2>2. 0 \in 0..Len(s) /\ \A i \in 1..Len(s) : i \in 0..Len(s) /\ i # 0
    OBVIOUS
  <2> QED BY <2>1, <2>2
<1> QED BY <1>3, <1>4

\* The first i entries of s, or some of them, in their order.
PartOf(t, s, frames, i) ==
    /\ t \in Seq(Nat)
    /\ Len(t) <= i
    /\ \A k \in 1..Len(t) : \E j \in 1..i : k <= j /\ t[k] = s[j] /\ s[j] \notin frames
    /\ \A k, l \in 1..Len(t) : k < l => t[k] < t[l]

\* A transfer leaves the frames that are not in it, in their order.
LEMMA WithoutIsPart ==
    ASSUME NEW s, NEW frames, Listed(s)
    PROVE  PartOf(Without(s, frames), s, frames, Len(s))
<1>0. Len(s) \in Nat
  BY DEF Listed
<1>1. s \in Seq(Nat) /\ \A i, j \in 1..Len(s) : i < j => s[i] < s[j]
  BY DEF Listed
<1>2. PICK h : /\ Without(s, frames) = h[Len(s)]
               /\ h[0] = <<>>
               /\ \A i \in 1..Len(s) : h[i] = IF s[i] \in frames THEN h[i - 1]
                                              ELSE Append(h[i - 1], s[i])
  BY <1>0, WithoutUnfolds
<1> DEFINE P == {i \in Nat : i <= Len(s) => PartOf(h[i], s, frames, i)}
<1>3. 0 \in P
  <2>1. PartOf(<<>>, s, frames, 0)
    BY EmptySeq DEF PartOf
  <2>2. PartOf(h[0], s, frames, 0)
    BY <1>2, <2>1
  <2> QED BY <2>2
<1>4. ASSUME NEW i \in Nat \ {0}, i - 1 \in P
      PROVE  i \in P
  <2>1. SUFFICES ASSUME i <= Len(s) PROVE PartOf(h[i], s, frames, i)
    OBVIOUS
  <2>2. PartOf(h[i - 1], s, frames, i - 1) /\ i \in 1..Len(s)
    BY <1>0, <1>4, <2>1
  <2>3. CASE s[i] \in frames
    <3>1. h[i] = h[i - 1]
      BY <1>2, <2>2, <2>3
    <3>2. PICK t : t = h[i - 1]
      OBVIOUS
    <3>3. PartOf(t, s, frames, i - 1)
      BY <2>2, <3>2
    <3>4. PartOf(t, s, frames, i)
      BY <3>3 DEF PartOf
    <3> QED BY <3>1, <3>2, <3>4
  <2>4. CASE s[i] \notin frames
    <3>1. PICK t : t = h[i - 1]
      OBVIOUS
    <3>a. h[i] = Append(t, s[i])
      BY <1>2, <2>2, <2>4, <3>1
    <3>b. PartOf(t, s, frames, i - 1)
      BY <2>2, <3>1
    <3>c. s[i] \in Nat
      BY <1>1, <2>2
    <3>2. h[i] = Append(t, s[i]) /\ PartOf(t, s, frames, i - 1) /\ s[i] \in Nat
      BY <3>a, <3>b, <3>c
    <3>3. PICK u : u = Append(t, s[i])
      OBVIOUS
    <3>4. /\ u \in Seq(Nat) /\ Len(t) \in Nat /\ Len(u) = Len(t) + 1
          /\ \A k \in 1..Len(t) : u[k] = t[k]
          /\ u[Len(t) + 1] = s[i]
      BY <3>2, <3>3, AppendProperties DEF PartOf
    <3>5. Len(u) <= i
      BY <3>2, <3>4 DEF PartOf
    <3>6. \A k \in 1..Len(u) : \E j \in 1..i : k <= j /\ u[k] = s[j] /\ s[j] \notin frames
      <4> TAKE k \in 1..Len(u)
      <4>1. CASE k = Len(u)
        <5>1. k = Len(t) + 1 /\ k <= i /\ i \in 1..i
          BY <2>2, <3>4, <3>5, <4>1
        <5>2. u[k] = s[i]
          BY <3>4, <5>1
        <5> QED BY <2>4, <5>1, <5>2
      <4>2. CASE k \in 1..Len(t)
        <5>1. PICK j \in 1..(i - 1) : k <= j /\ t[k] = s[j] /\ s[j] \notin frames
          BY <3>2, <4>2 DEF PartOf
        <5>2. j \in 1..i /\ u[k] = t[k]
          BY <3>4, <4>2
        <5> QED BY <5>1, <5>2
      <4>3. k = Len(u) \/ k \in 1..Len(t)
        BY <3>4
      <4> QED BY <4>1, <4>2, <4>3
    <3>7. \A k, l \in 1..Len(u) : k < l => u[k] < u[l]
      <4> TAKE k, l \in 1..Len(u)
      <4> HAVE k < l
      <4>1. k \in 1..Len(t)
        BY <3>4
      <4>2. CASE l \in 1..Len(t)
        BY <3>2, <3>4, <4>1, <4>2 DEF PartOf
      <4>3. CASE l = Len(t) + 1
        <5>1. PICK j \in 1..(i - 1) : t[k] = s[j]
          BY <3>2, <4>1 DEF PartOf
        <5>0. i \in 1..Len(s) /\ j \in 1..Len(s) /\ j < i
          BY <1>0, <2>2
        <5>2. s[j] < s[i]
          BY <1>1, <5>0
        <5> QED BY <3>4, <4>1, <4>3, <5>1, <5>2
      <4>4. l \in 1..Len(t) \/ l = Len(t) + 1
        <5>1. Len(t) \in Nat /\ l \in 1..(Len(t) + 1)
          BY <3>4
        <5> QED BY <5>1
      <4> QED BY <4>2, <4>3, <4>4
    <3> QED BY <3>2, <3>3, <3>4, <3>5, <3>6, <3>7 DEF PartOf
  <2> QED BY <2>3, <2>4
<1> HIDE DEF P
<1>5. Len(s) \in P
  BY <1>0, <1>3, <1>4, Induction
<1> QED BY <1>0, <1>2, <1>5 DEF P

LEMMA WithoutIsListed ==
    ASSUME NEW s, NEW frames, Listed(s)
    PROVE  /\ Listed(Without(s, frames))
           /\ \A k \in 1..Len(Without(s, frames)) :
                /\ Without(s, frames)[k] \notin frames
                /\ \E j \in 1..Len(s) : Without(s, frames)[k] = s[j]
<1>1. PICK t : t = Without(s, frames)
  OBVIOUS
<1>2. PartOf(t, s, frames, Len(s))
  BY <1>1, WithoutIsPart
<1>3. \A k \in 1..Len(t) : k <= t[k]
  <2> TAKE k \in 1..Len(t)
  <2>1. PICK j \in 1..Len(s) : k <= j /\ t[k] = s[j]
    BY <1>2 DEF PartOf
  <2>2. j <= s[j] /\ s[j] \in Nat /\ k \in Nat /\ j \in Nat
    BY DEF Listed
  <2> QED BY <2>1, <2>2
<1>4. Listed(t)
  BY <1>2, <1>3 DEF PartOf, Listed
<1>5. \A k \in 1..Len(t) : t[k] \notin frames /\ \E j \in 1..Len(s) : t[k] = s[j]
  BY <1>2 DEF PartOf
<1> QED BY <1>1, <1>4, <1>5

\* A deletion closes the gap.
LEMMA RemoveAtIsListed ==
    ASSUME NEW s, Listed(s), NEW i \in 1..Len(s)
    PROVE  /\ Listed(RemoveAt(s, i))
           /\ Len(RemoveAt(s, i)) = Len(s) - 1
           /\ \A k \in 1..(Len(s) - 1) :
                RemoveAt(s, i)[k] = IF k < i THEN s[k] ELSE s[k + 1]
<1>1. s \in Seq(Nat) /\ Len(s) \in Nat /\ \A k \in 1..Len(s) : s[k] \in Nat
  BY DEF Listed
<1> DEFINE a == SubSeq(s, 1, i - 1)
           b == SubSeq(s, i + 1, Len(s))
<1>2. /\ a \in Seq(Nat) /\ Len(a) = i - 1
      /\ \A k \in 1..(i - 1) : a[k] = s[k]
  BY <1>1, SubSeqProperties
<1>3. /\ b \in Seq(Nat) /\ Len(b) = Len(s) - i
      /\ \A k \in 1..(Len(s) - i) : b[k] = s[i + k]
  BY <1>1, SubSeqProperties
<1>4. RemoveAt(s, i) = a \o b
  BY DEF RemoveAt
<1> HIDE DEF a, b
<1>5. PICK t : t = RemoveAt(s, i)
  OBVIOUS
<1>6. /\ t \in Seq(Nat) /\ Len(t) = Len(a) + Len(b)
      /\ \A k \in 1..(Len(a) + Len(b)) : t[k] = IF k <= Len(a) THEN a[k] ELSE b[k - Len(a)]
  <2>1. a \in Seq(Nat) /\ b \in Seq(Nat) /\ t = a \o b
    BY <1>2, <1>3, <1>4, <1>5
  <2> QED BY <2>1, ConcatProperties
<1>7. Len(t) = Len(s) - 1
  BY <1>1, <1>2, <1>3, <1>6
<1>8. \A k \in 1..(Len(s) - 1) : t[k] = IF k < i THEN s[k] ELSE s[k + 1]
  <2> TAKE k \in 1..(Len(s) - 1)
  <2>1. t[k] = IF k <= i - 1 THEN a[k] ELSE b[k - (i - 1)]
    BY <1>1, <1>2, <1>3, <1>6
  <2>2. CASE k < i
    BY <1>2, <2>1, <2>2
  <2>3. CASE ~(k < i)
    <3>1. k - (i - 1) \in 1..(Len(s) - i) /\ i + (k - (i - 1)) = k + 1
      BY <1>1, <2>3
    <3>2. b[k - (i - 1)] = s[k + 1]
      BY <1>3, <3>1
    <3> QED BY <1>1, <2>1, <2>3, <3>2
  <2> QED BY <2>2, <2>3
<1>9. Listed(t)
  <2>0. \A k \in 1..Len(t) : k \in 1..Len(s) /\ k + 1 \in 1..Len(s) /\ k \in 1..(Len(s) - 1)
    BY <1>1, <1>7
  <2>1. \A k \in 1..Len(t) : k <= t[k]
    <3> TAKE k \in 1..Len(t)
    <3>1. k <= s[k] /\ k + 1 <= s[k + 1] /\ s[k] \in Nat /\ s[k + 1] \in Nat /\ k \in Nat
      BY <1>1, <2>0 DEF Listed
    <3>2. t[k] = s[k] \/ t[k] = s[k + 1]
      BY <1>8, <2>0
    <3> QED BY <3>1, <3>2
  <2>2. \A k, l \in 1..Len(t) : k < l => t[k] < t[l]
    <3> TAKE k, l \in 1..Len(t)
    <3> HAVE k < l
    <3>1. s[k] < s[l] /\ s[k] < s[l + 1] /\ s[k + 1] < s[l + 1]
      BY <2>0 DEF Listed
    <3>2. /\ t[k] = IF k < i THEN s[k] ELSE s[k + 1]
          /\ t[l] = IF l < i THEN s[l] ELSE s[l + 1]
      BY <1>8, <2>0
    <3> QED BY <3>1, <3>2
  <2> QED BY <1>6, <2>1, <2>2 DEF Listed
<1> QED BY <1>5, <1>7, <1>8, <1>9

\* A new frame comes last.
LEMMA AppendIsListed ==
    ASSUME NEW s, Listed(s), NEW n \in Nat, \A i \in 1..Len(s) : s[i] < n, Len(s) < n
    PROVE  /\ Listed(Append(s, n))
           /\ Len(Append(s, n)) = Len(s) + 1
           /\ \A i \in 1..Len(s) : Append(s, n)[i] = s[i]
           /\ Append(s, n)[Len(s) + 1] = n
<1>1. PICK t : t = Append(s, n)
  OBVIOUS
<1>2. s \in Seq(Nat) /\ Len(s) \in Nat
  BY DEF Listed
<1>3. /\ t \in Seq(Nat) /\ Len(t) = Len(s) + 1
      /\ \A i \in 1..Len(s) : t[i] = s[i]
      /\ t[Len(s) + 1] = n
  BY <1>1, <1>2, AppendProperties
<1>4. \A i \in 1..Len(t) : i \in 1..Len(s) \/ i = Len(s) + 1
  BY <1>2, <1>3
<1>5. \A i \in 1..Len(t) : i <= t[i]
  <2> TAKE i \in 1..Len(t)
  <2>1. CASE i \in 1..Len(s)
    <3>1. i <= s[i] /\ t[i] = s[i]
      BY <1>3, <2>1 DEF Listed
    <3> QED BY <3>1
  <2>2. CASE i = Len(s) + 1
    <3>1. t[i] = n
      BY <1>3, <2>2
    <3> QED BY <1>2, <2>2, <3>1
  <2> QED BY <1>4, <2>1, <2>2
<1>6. \A i, j \in 1..Len(t) : i < j => t[i] < t[j]
  <2> TAKE i, j \in 1..Len(t)
  <2> HAVE i < j
  <2>1. i \in 1..Len(s)
    BY <1>2, <1>4, <1>3
  <2>2. CASE j \in 1..Len(s)
    BY <1>3, <2>1, <2>2 DEF Listed
  <2>3. CASE j = Len(s) + 1
    BY <1>3, <2>1, <2>3
  <2> QED BY <1>4, <2>2, <2>3
<1> QED BY <1>1, <1>3, <1>5, <1>6 DEF Listed

\* Entries of the listing are exposures, and so are their indexes.
LEMMA ListedEntries ==
    ASSUME NEW s, Listed(s), NEW n \in Nat, \A i \in 1..Len(s) : s[i] <= n
    PROVE  /\ Len(s) <= n /\ Len(s) \in Nat
           /\ \A i \in 1..Len(s) : s[i] \in 1..n /\ i \in 1..n
           /\ s \in Seq(1..n) /\ IsInjective(s)
           /\ DOMAIN s = 1..Len(s) /\ Range(s) = {s[i] : i \in 1..Len(s)}
<1>1. s \in Seq(Nat) /\ Len(s) \in Nat /\ DOMAIN s = 1..Len(s)
  BY DEF Listed
<1>2. \A i \in 1..Len(s) : s[i] \in 1..n /\ i \in 1..n
  <2> TAKE i \in 1..Len(s)
  <2>1. i <= s[i] /\ s[i] <= n /\ s[i] \in Nat /\ i \in Nat /\ 1 <= i
    BY <1>1 DEF Listed
  <2> QED BY <2>1
<1>3. Len(s) <= n
  BY <1>1, <1>2
<1>4. s \in Seq(1..n)
  BY <1>1, <1>2
<1>5. IsInjective(s)
  <2> SUFFICES ASSUME NEW i \in 1..Len(s), NEW j \in 1..Len(s), s[i] = s[j]
               PROVE  i = j
    BY <1>1 DEF IsInjective
  <2>1. ~(i < j) /\ ~(j < i)
    BY <1>2 DEF Listed
  <2> QED BY <2>1
<1>6. Range(s) = {s[i] : i \in 1..Len(s)}
  BY <1>1 DEF Range
<1> QED BY <1>1, <1>2, <1>3, <1>4, <1>5, <1>6

-----------------------------------------------------------------------------
(* The frames on the body and the frames delivered *)

\* FramesInv, as far as the later proofs use it.
LEMMA FrameFacts ==
    ASSUME FramesInv
    PROVE  /\ shots \in Nat /\ MaxShots \in Nat /\ shots <= MaxShots
           /\ Len(store) \in Nat /\ Len(store) <= shots /\ DOMAIN store = 1..Len(store)
           /\ \A i \in 1..Len(store) : store[i] \in 1..shots /\ store[i] \in Frames /\ i \in Frames
           /\ Range(store) = {store[i] : i \in 1..Len(store)}
           /\ Len(lights) \in Nat /\ DOMAIN lights = 1..Len(lights)
           /\ \A i \in 1..Len(lights) : lights[i] \in 1..shots
           /\ Range(store) \subseteq Frames
<1>1. shots \in Nat /\ MaxShots \in Nat /\ shots <= MaxShots
  BY MaxShotsAssumption DEF FramesInv
<1>2. Listed(store) /\ \A i \in 1..Len(store) : store[i] <= shots
  BY DEF FramesInv, FramesAreKnown
<1>3. /\ Len(store) \in Nat /\ Len(store) <= shots /\ DOMAIN store = 1..Len(store)
      /\ \A i \in 1..Len(store) : store[i] \in 1..shots /\ i \in 1..shots
      /\ Range(store) = {store[i] : i \in 1..Len(store)}
  BY <1>1, <1>2, ListedEntries
<1>4. \A n \in 1..shots : n \in Frames
  BY <1>1 DEF Frames
<1>5. /\ Len(lights) \in Nat /\ DOMAIN lights = 1..Len(lights)
      /\ \A i \in 1..Len(lights) : lights[i] \in Frames /\ lights[i] <= shots
  BY DEF FramesInv, FramesAreKnown
<1>6. \A i \in 1..Len(lights) : lights[i] \in 1..shots
  BY <1>1, <1>5 DEF Frames
<1> QED BY <1>1, <1>3, <1>4, <1>5, <1>6

\* A frame that is neither on the body nor a light becomes one.
LEMMA NewLight ==
    ASSUME NEW s \in Seq(Frames), IsInjective(s), NEW f \in Frames,
           \A i \in 1..Len(s) : s[i] # f
    PROVE  /\ Append(s, f) \in Seq(Frames) /\ IsInjective(Append(s, f))
           /\ \A i \in 1..Len(Append(s, f)) :
                Append(s, f)[i] = f \/ \E j \in 1..Len(s) : Append(s, f)[i] = s[j]
<1>1. PICK t : t = Append(s, f)
  OBVIOUS
<1>2. /\ t \in Seq(Frames) /\ Len(t) = Len(s) + 1 /\ Len(s) \in Nat
      /\ \A i \in 1..Len(s) : t[i] = s[i]
      /\ t[Len(s) + 1] = f
  BY <1>1, AppendProperties
<1>3. DOMAIN t = 1..(Len(s) + 1) /\ DOMAIN s = 1..Len(s)
  BY <1>2
<1>4. \A i \in 1..(Len(s) + 1) : i \in 1..Len(s) \/ i = Len(s) + 1
  BY <1>2
<1>5. IsInjective(t)
  <2> SUFFICES ASSUME NEW i \in 1..(Len(s) + 1), NEW j \in 1..(Len(s) + 1), t[i] = t[j]
               PROVE  i = j
    BY <1>3 DEF IsInjective
  <2>1. CASE i \in 1..Len(s) /\ j \in 1..Len(s)
    BY <1>2, <1>3, <2>1 DEF IsInjective
  <2>2. CASE i \in 1..Len(s) /\ j = Len(s) + 1
    BY <1>2, <2>2
  <2>3. CASE i = Len(s) + 1 /\ j \in 1..Len(s)
    BY <1>2, <2>3
  <2> QED BY <1>4, <2>1, <2>2, <2>3
<1>6. \A i \in 1..Len(t) : t[i] = f \/ \E j \in 1..Len(s) : t[i] = s[j]
  BY <1>2, <1>4
<1> QED BY <1>1, <1>2, <1>5, <1>6

\* Only what is announced changes.
LEMMA FramesKept ==
    ASSUME FramesInv, UNCHANGED <<shots, store, lights>>, announced' \subseteq Range(store)
    PROVE  FramesInv'
  BY DEF FramesInv, FramesAreKnown

\* The lights, and the one that is found under the name of an earlier attempt.
LEMMA AttemptFound ==
    ASSUME FramesInv, AttemptInv, NEW l,
           l = lights \/ (attempt # NoFrame /\ l = Append(lights, attempt))
    PROVE  /\ l \in Seq(Frames) /\ IsInjective(l) /\ Len(l) \in Nat
           /\ \A i \in 1..Len(l) : l[i] \in 1..shots
           /\ \A i \in 1..Len(l), j \in 1..Len(store) : l[i] # store[j]
<1>1. CASE l = lights
  BY <1>1, FrameFacts DEF FramesInv, FramesAreKnown
<1>2. CASE attempt # NoFrame /\ l = Append(lights, attempt)
  <2>1. attempt \in 1..shots /\ attempt \in Frames
    <3>1. shots \in Nat /\ MaxShots \in Nat /\ shots <= MaxShots
      BY FrameFacts
    <3>2. attempt \in 0..shots /\ attempt # 0
      BY <1>2 DEF AttemptInv, NoFrame
    <3> QED BY <3>1, <3>2 DEF Frames
  <2>2. lights \in Seq(Frames) /\ IsInjective(lights) /\ \A i \in 1..Len(lights) : lights[i] # attempt
    BY DEF FramesInv, AttemptInv
  <2>3. /\ l \in Seq(Frames) /\ IsInjective(l)
        /\ \A i \in 1..Len(l) : l[i] = attempt \/ \E j \in 1..Len(lights) : l[i] = lights[j]
    BY <1>2, <2>1, <2>2, NewLight
  <2>4. \A i \in 1..Len(l) : l[i] \in 1..shots
    BY <2>1, <2>3, FrameFacts
  <2>5. \A i \in 1..Len(l), j \in 1..Len(store) : l[i] # store[j]
    BY <2>3 DEF FramesInv, FramesAreKnown, AttemptInv
  <2>6. Len(l) \in Nat
    BY <2>3
  <2> QED BY <2>3, <2>4, <2>5, <2>6
<1> QED BY <1>1, <1>2

LEMMA AttemptDelivered ==
    ASSUME FramesInv, AttemptInv, UNCHANGED <<shots, store, announced>>,
           lights' = lights \/ (attempt # NoFrame /\ lights' = Append(lights, attempt))
    PROVE  FramesInv'
<1>1. PICK l : l = lights'
  OBVIOUS
<1>2. /\ l \in Seq(Frames) /\ IsInjective(l)
      /\ \A i \in 1..Len(l) : l[i] \in 1..shots
      /\ \A i \in 1..Len(l), j \in 1..Len(store) : l[i] # store[j]
  BY <1>1, AttemptFound
<1>3. \A i \in 1..Len(l) : l[i] <= shots
  BY <1>2, FrameFacts
<1> QED BY <1>1, <1>2, <1>3 DEF FramesInv, FramesAreKnown

\* What is announced leaves the body, and one frame of it may become a light.
LEMMA FramesDrained ==
    ASSUME FramesInv, Drained, shots' = shots,
           \/ lights' = lights
           \/ \E f \in announced : lights' = Append(lights, f)
    PROVE  FramesInv'
<1>1. PICK t : t = Without(store, announced)
  OBVIOUS
<1>2. store' = t /\ announced' = {}
  BY <1>1 DEF Drained
<1>3. /\ Listed(t)
      /\ \A k \in 1..Len(t) : t[k] \notin announced /\ \E j \in 1..Len(store) : t[k] = store[j]
  BY <1>1, WithoutIsListed DEF FramesInv
<1>4. \A k \in 1..Len(t) : t[k] <= shots /\ \A i \in 1..Len(lights) : lights[i] # t[k]
  BY <1>3 DEF FramesInv, FramesAreKnown
<1>5. CASE lights' = lights
  BY <1>2, <1>3, <1>4, <1>5 DEF FramesInv, FramesAreKnown
<1>6. ASSUME NEW f \in announced, lights' = Append(lights, f)
      PROVE  FramesInv'
  <2>1. PICK l : l = Append(lights, f)
    OBVIOUS
  <2>2. f \in Frames /\ f <= shots /\ \A i \in 1..Len(lights) : lights[i] # f
    <3>1. PICK j \in 1..Len(store) : f = store[j]
      BY <1>6, FrameFacts DEF FramesInv
    <3> QED BY <3>1, FrameFacts DEF FramesInv, FramesAreKnown
  <2>3. /\ l \in Seq(Frames) /\ IsInjective(l)
        /\ \A i \in 1..Len(l) : l[i] = f \/ \E j \in 1..Len(lights) : l[i] = lights[j]
    BY <2>1, <2>2, NewLight DEF FramesInv
  <2>4. \A i \in 1..Len(l) : l[i] <= shots
    BY <2>2, <2>3 DEF FramesInv, FramesAreKnown
  <2>5. \A i \in 1..Len(l), k \in 1..Len(t) : l[i] # t[k]
    BY <1>3, <1>4, <2>3
  <2> QED BY <1>2, <1>3, <1>4, <1>6, <2>1, <2>3, <2>4, <2>5 DEF FramesInv, FramesAreKnown
<1> QED BY <1>5, <1>6

\* A new frame is left on the body, or delivered.
LEMMA FrameExposed ==
    ASSUME FramesInv, AttemptInv, shots < MaxShots, shots' = shots + 1,
           \/ /\ store' = Append(store, shots + 1)
              /\ lights' = lights \/ (attempt # NoFrame /\ lights' = Append(lights, attempt))
              /\ announced' \in {announced, announced \cup {shots + 1}}
           \/ /\ store' = store /\ announced' = announced
              /\ lights' \in {lights, Append(lights, shots + 1)}
    PROVE  FramesInv'
<1>0. PICK n : n = shots + 1
  OBVIOUS
<1>1. n \in Frames /\ n \in Nat /\ n \in 0..MaxShots /\ shots < n /\ shots' = n
      /\ Len(store) < n /\ Len(store) \in Nat
  BY <1>0, FrameFacts DEF Frames
<1>a. \A i \in 1..Len(store) : store[i] \in Nat /\ store[i] < n
  BY <1>0, FrameFacts
<1>b. \A i \in 1..Len(lights) : lights[i] \in Nat /\ lights[i] < n /\ lights[i] # n /\ lights[i] <= n
  BY <1>0, FrameFacts
<1>2. CASE /\ store' = Append(store, shots + 1)
           /\ lights' = lights \/ (attempt # NoFrame /\ lights' = Append(lights, attempt))
           /\ announced' \in {announced, announced \cup {shots + 1}}
  <2>0. PICK l : l = lights'
    OBVIOUS
  <2>a. /\ l \in Seq(Frames) /\ IsInjective(l)
        /\ \A i \in 1..Len(l) : l[i] \in 1..shots
        /\ \A i \in 1..Len(l), j \in 1..Len(store) : l[i] # store[j]
    BY <1>2, <2>0, AttemptFound
  <2>b. \A i \in 1..Len(l) : l[i] \in Nat /\ l[i] <= n /\ l[i] # n
    BY <1>0, <2>a, FrameFacts
  <2>1. PICK t : t = Append(store, n)
    OBVIOUS
  <2>2. /\ Listed(t) /\ Len(t) = Len(store) + 1
        /\ \A i \in 1..Len(store) : t[i] = store[i]
        /\ t[Len(store) + 1] = n
    BY <1>1, <1>a, <2>1, AppendIsListed DEF FramesInv
  <2>3. \A i \in 1..Len(t) : i \in 1..Len(store) \/ i = Len(store) + 1
    BY <1>1, <2>2
  <2>4. \A i \in 1..Len(t) : t[i] \in Nat /\ t[i] <= n
    BY <1>1, <1>a, <2>2, <2>3
  <2>5. \A i \in 1..Len(l), j \in 1..Len(t) : l[i] # t[j]
    BY <1>1, <2>a, <2>b, <2>2, <2>3
  <2>6. Range(t) = {t[i] : i \in 1..Len(t)}
    BY <1>1, <2>2, <2>4, ListedEntries
  <2>7. Range(store) \cup {n} \subseteq Range(t)
    <3>1. \A i \in 1..Len(store) : i \in 1..Len(t)
      BY <1>1, <2>2
    <3>2. Len(store) + 1 \in 1..Len(t)
      BY <1>1, <2>2
    <3> QED BY <2>2, <2>6, <3>1, <3>2, FrameFacts
  <2>8. announced' \subseteq Range(t)
    BY <1>0, <1>2, <2>7 DEF FramesInv
  <2> QED BY <1>0, <1>1, <1>2, <2>0, <2>a, <2>b, <2>1, <2>2, <2>4, <2>5, <2>8
          DEF FramesInv, FramesAreKnown
<1>3. CASE store' = store /\ announced' = announced /\ lights' \in {lights, Append(lights, shots + 1)}
  <2>1. PICK l : l \in {lights, Append(lights, n)} /\ lights' = l
    BY <1>0, <1>3
  <2>2. /\ l \in Seq(Frames) /\ IsInjective(l)
        /\ \A i \in 1..Len(l) : l[i] = n \/ \E j \in 1..Len(lights) : l[i] = lights[j]
    <3>1. \A i \in 1..Len(lights) : lights[i] # n
      BY <1>b
    <3>2. CASE l = lights
      BY <3>2 DEF FramesInv
    <3>3. CASE l = Append(lights, n)
      BY <1>1, <3>1, <3>3, NewLight DEF FramesInv
    <3> QED BY <2>1, <3>2, <3>3
  <2>3. \A i \in 1..Len(l) : l[i] <= n
    BY <1>1, <1>b, <2>2
  <2>4. \A i \in 1..Len(l), k \in 1..Len(store) : l[i] # store[k]
    BY <1>a, <2>2 DEF FramesInv, FramesAreKnown
  <2>5. \A i \in 1..Len(store) : store[i] <= n
    BY <1>1, <1>a
  <2> QED BY <1>1, <1>3, <2>1, <2>2, <2>3, <2>4, <2>5 DEF FramesInv, FramesAreKnown
<1> QED BY <1>2, <1>3

\* One entry of the listing is deleted.
LEMMA FrameDeleted ==
    ASSUME FramesInv, NEW i \in 1..Len(store), store' = RemoveAt(store, i),
           announced' = announced \ {store[i]}, UNCHANGED <<shots, lights>>
    PROVE  FramesInv'
<1>1. PICK t : t = RemoveAt(store, i)
  OBVIOUS
<1>2. /\ Listed(t) /\ Len(t) = Len(store) - 1
      /\ \A k \in 1..(Len(store) - 1) : t[k] = IF k < i THEN store[k] ELSE store[k + 1]
  BY <1>1, RemoveAtIsListed DEF FramesInv
<1>3. Len(store) \in Nat
  BY FrameFacts
<1>4. \A k \in 1..Len(t) : \E j \in 1..Len(store) : t[k] = store[j]
  <2> TAKE k \in 1..Len(t)
  <2>1. k \in 1..(Len(store) - 1) /\ k \in 1..Len(store) /\ k + 1 \in 1..Len(store)
    BY <1>2, <1>3
  <2> QED BY <1>2, <2>1
<1>5. /\ \A k \in 1..Len(t) : t[k] <= shots
      /\ \A k \in 1..Len(t), j \in 1..Len(lights) : lights[j] # t[k]
  BY <1>4 DEF FramesInv, FramesAreKnown
<1>6. announced' \subseteq Range(t)
  <2>0. Range(t) = {t[k] : k \in 1..Len(t)}
    BY <1>2, <1>5, ListedEntries, FrameFacts
  <2> SUFFICES ASSUME NEW f \in announced, f # store[i]
               PROVE  f \in Range(t)
    OBVIOUS
  <2>1. PICK j \in 1..Len(store) : f = store[j]
    BY FrameFacts DEF FramesInv
  <2>2. CASE j < i
    <3>1. j \in 1..Len(t) /\ t[j] = f
      BY <1>2, <1>3, <2>1, <2>2
    <3> QED BY <2>0, <3>1
  <2>3. CASE j > i
    <3>1. j - 1 \in 1..(Len(store) - 1) /\ ~(j - 1 < i) /\ (j - 1) + 1 = j
      BY <1>3, <2>3
    <3>2. j - 1 \in 1..Len(t) /\ t[j - 1] = f
      BY <1>2, <2>1, <3>1
    <3> QED BY <2>0, <3>2
  <2> QED BY <2>1, <2>2, <2>3
<1> QED BY <1>1, <1>2, <1>5, <1>6 DEF FramesInv, FramesAreKnown

\* Every step keeps FramesInv, whatever the calls overlap with.
LEMMA StepKeepsFrames ==
    ASSUME TInv, [Next]_vars
    PROVE  FramesInv'
<1>0. FramesInv /\ AttemptInv
  BY DEF TInv
<1>1. announced \subseteq Range(store)
  BY <1>0 DEF FramesInv
<1>2. Reset => announced' \subseteq Range(store)
  BY <1>1 DEF Reset
<1>a. CASE BodyAnnounces
  BY <1>a, <1>0, <1>1, FramesKept DEF BodyAnnounces, disk
<1>b. CASE BodyTurned \/ SessionEnds \/ Crash \/ UNCHANGED vars
  BY <1>b, <1>0, <1>1, FramesKept DEF BodyTurned, SessionEnds, Crash, vars, body, disk
<1>c. CASE (\E label \in Labels : CaptureStart(label)) \/ CaptureBlocked
  BY <1>c, <1>0, <1>1, <1>2, FramesKept DEF CaptureStart, CaptureBlocked, disk
<1>d. CASE ShotDownloaded
  <2>1. shots < MaxShots /\ shots' = shots + 1
    BY <1>d DEF ShotDownloaded, Exposes
  <2>2. Match(shots + 1) = shots + 1
    BY <1>0, FrameFacts DEF Match, NoFrame
  <2>3. store' = store /\ announced' = announced /\ lights' \in {lights, Append(lights, shots + 1)}
    BY <1>d, <2>2 DEF ShotDownloaded, Return
  <2> QED BY <1>0, <2>1, <2>3, FrameExposed
<1>e. CASE ShotFails
  <2>1. lights' = lights \/ (attempt # NoFrame /\ lights' = Append(lights, attempt))
    BY <1>e DEF ShotFails, Return, Raise, Match, disk
  <2>2. CASE UNCHANGED <<shots, store, announced>>
    BY <1>0, <2>1, <2>2, AttemptDelivered
  <2>3. CASE /\ Exposes /\ LeavesFrame(shots + 1)
             /\ announced' \in {announced, announced \cup {shots + 1}}
    BY <1>0, <2>1, <2>3, FrameExposed DEF Exposes, LeavesFrame
  <2> QED BY <1>e, <2>2, <2>3 DEF ShotFails
<1>f. CASE ShotTimesOut
  <2>1. lights' = lights
    BY <1>f DEF ShotTimesOut, Raise
  <2>2. CASE UNCHANGED <<shots, store, announced>>
    BY <1>0, <1>1, <2>1, <2>2, FramesKept
  <2>3. CASE /\ Exposes /\ LeavesFrame(shots + 1)
             /\ announced' \in {announced, announced \cup {shots + 1}}
    BY <1>0, <2>1, <2>3, FrameExposed DEF Exposes, LeavesFrame
  <2>4. CASE Exposes /\ shots' = shots + 1 /\ UNCHANGED <<store, announced>>
    BY <1>0, <2>1, <2>4, FrameExposed DEF Exposes
  <2> QED BY <1>f, <2>2, <2>3, <2>4 DEF ShotTimesOut
<1>g. CASE DrainFinds
  BY <1>g, <1>0, FramesDrained DEF DrainFinds, Return, Labels
<1>h. CASE DrainFindsNothing
  BY <1>h, <1>0, <1>1, FramesKept DEF DrainFindsNothing, Raise, body
<1>i. CASE RecoveryStart \/ RecoveryLists \/ RecoveryGets \/ RecoveryReturns \/ RecoveryRaises
           \/ ConnectStart
  BY <1>i, <1>0, <1>1, FramesKept DEF RecoveryStart, RecoveryLists, RecoveryGets,
     RecoveryReturns, RecoveryRaises, ConnectStart, body, disk
<1>j. CASE RecoveryDrains \/ ConnectDrains
  <2>1. shots' = shots /\ lights' = lights
    BY <1>j DEF RecoveryDrains, ConnectDrains, disk
  <2>2. Drained \/ UNCHANGED <<store, announced>>
    BY <1>j DEF RecoveryDrains, ConnectDrains
  <2>3. CASE Drained
    BY <1>0, <2>1, <2>3, FramesDrained
  <2>4. CASE UNCHANGED <<store, announced>>
    BY <1>0, <1>1, <2>1, <2>4, FramesKept
  <2> QED BY <2>2, <2>3, <2>4
<1>k. CASE RecoveryDeletes
  <2>1. PICK i \in DOMAIN store : /\ store' = RemoveAt(store, i)
                                  /\ announced' = announced \ {store[i]}
    BY <1>k DEF RecoveryDeletes
  <2>2. i \in 1..Len(store)
    BY <1>0, FrameFacts
  <2> QED BY <1>k, <1>0, <2>1, <2>2, FrameDeleted DEF RecoveryDeletes, disk
<1>l. CASE ConnectSucceeds \/ ConnectEnds
  BY <1>l, <1>0, <1>1, <1>2, FramesKept DEF ConnectSucceeds, ConnectEnds, disk
<1> QED BY <1>a, <1>b, <1>c, <1>d, <1>e, <1>f, <1>g, <1>h, <1>i, <1>j, <1>k, <1>l
        DEF Next, Capture, Recovery

\* A frame of the listing after a transfer or a deletion was there before.
LEMMA AttemptKept ==
    ASSUME FramesInv, AttemptInv, UNCHANGED <<shots, attempt, lights>>,
           \/ store' = store
           \/ Drained
           \/ \E i \in 1..Len(store) : store' = RemoveAt(store, i)
    PROVE  AttemptInv'
<1>1. \A k \in 1..Len(store)' : \E j \in 1..Len(store) : store'[k] = store[j]
  <2>1. CASE store' = store
    BY <2>1
  <2>2. CASE Drained
    BY <2>2, WithoutIsListed DEF Drained, FramesInv
  <2>3. ASSUME NEW i \in 1..Len(store), store' = RemoveAt(store, i)
        PROVE  \A k \in 1..Len(store)' : \E j \in 1..Len(store) : store'[k] = store[j]
    <3>1. PICK t : t = RemoveAt(store, i)
      OBVIOUS
    <3>2. /\ Len(t) = Len(store) - 1 /\ Len(store) \in Nat
          /\ \A k \in 1..(Len(store) - 1) : t[k] = IF k < i THEN store[k] ELSE store[k + 1]
      BY <3>1, RemoveAtIsListed, FrameFacts DEF FramesInv
    <3>3. ASSUME NEW k \in 1..Len(t)
          PROVE  \E j \in 1..Len(store) : t[k] = store[j]
      <4>1. k \in 1..(Len(store) - 1) /\ k \in 1..Len(store) /\ k + 1 \in 1..Len(store)
        BY <3>2, <3>3
      <4> QED BY <3>2, <4>1
    <3> QED BY <2>3, <3>1, <3>3
  <2> QED BY <2>1, <2>2, <2>3
<1> QED BY <1>1 DEF AttemptInv

\* No attempt is left: frames count from one.
LEMMA NoAttempt ==
    ASSUME FramesInv', attempt' = NoFrame
    PROVE  AttemptInv'
<1>1. \A i \in 1..Len(lights') : lights'[i] # NoFrame
  <2>1. PICK l : l = lights'
    OBVIOUS
  <2>0. l \in Seq(1..MaxShots)
    BY <2>1 DEF FramesInv, Frames
  <2>3. \A i \in 1..Len(l) : l[i] \in 1..MaxShots
    BY <2>0, ElementOfSeq
  <2>2. \A i \in 1..Len(lights') : lights'[i] \in 1..MaxShots
    BY <2>1, <2>3
  <2> QED BY <2>2, MaxShotsAssumption DEF NoFrame
<1>2. \A j \in 1..Len(store') : store'[j] # NoFrame
  <2>1. \A j \in 1..Len(store') : j <= store'[j] /\ store'[j] \in Nat
    BY DEF FramesInv, Listed
  <2> QED BY <2>1 DEF NoFrame
<1>3. NoFrame \in 0..shots'
  BY MaxShotsAssumption DEF FramesInv, NoFrame
<1> QED BY <1>1, <1>2, <1>3 DEF AttemptInv

\* A new exposure is not the one of the attempt, or is the first in its file.
LEMMA AttemptExposed ==
    ASSUME FramesInv, AttemptInv, shots' = shots + 1, lights' = lights,
           store' \in {store, Append(store, shots + 1)},
           \/ attempt' = attempt
           \/ attempt' = shots + 1 /\ store' = store
    PROVE  AttemptInv'
<1>0. PICK n : n = shots + 1
  OBVIOUS
<1>1. /\ shots \in Nat /\ Len(store) \in Nat /\ attempt \in 0..shots
      /\ \A i \in 1..Len(lights) : lights[i] \in 1..shots
      /\ \A j \in 1..Len(store) : store[j] \in 1..shots
  BY FrameFacts DEF AttemptInv
<1>2. CASE attempt' = attempt
  <2>1. attempt # n /\ attempt \in 0..n
    BY <1>0, <1>1
  <2>2. \A j \in 1..Len(store') : store'[j] # attempt
    <3>1. CASE store' = store
      BY <3>1 DEF AttemptInv
    <3>2. CASE store' = Append(store, n)
      <4>1. \A j \in 1..Len(store') : store'[j] = n \/ \E k \in 1..Len(store) : store'[j] = store[k]
        <5>1. PICK t : t = Append(store, n)
          OBVIOUS
        <5>2. /\ Len(t) = Len(store) + 1 /\ t[Len(store) + 1] = n
              /\ \A i \in 1..Len(store) : t[i] = store[i]
          <6>1. n \in Nat /\ store \in Seq(Nat)
            BY <1>0, <1>1 DEF FramesInv, Listed
          <6> QED BY <5>1, <6>1, AppendProperties
        <5>3. \A i \in 1..Len(t) : i \in 1..Len(store) \/ i = Len(store) + 1
          BY <1>1, <5>2
        <5> QED BY <3>2, <5>1, <5>2, <5>3
      <4> QED BY <2>1, <4>1 DEF AttemptInv
    <3> QED BY <1>0, <3>1, <3>2
  <2> QED BY <1>0, <1>2, <2>1, <2>2 DEF AttemptInv
<1>3. CASE attempt' = n /\ store' = store
  BY <1>0, <1>1, <1>3 DEF AttemptInv
<1> QED BY <1>0, <1>2, <1>3

LEMMA StepKeepsAttempt ==
    ASSUME TInv, [Next]_vars
    PROVE  AttemptInv'
<1>0. FramesInv /\ AttemptInv /\ FramesInv'
  BY StepKeepsFrames DEF TInv
<1>1. CASE attempt' = NoFrame
  BY <1>0, <1>1, NoAttempt
<1>2. CASE UNCHANGED <<shots, store, attempt, lights>>
  BY <1>0, <1>2, AttemptKept
<1>a. CASE BodyAnnounces \/ BodyTurned \/ SessionEnds \/ Crash \/ UNCHANGED vars
  BY <1>a, <1>2 DEF BodyAnnounces, BodyTurned, SessionEnds, Crash, vars, body, disk
<1>b. CASE (\E label \in Labels : CaptureStart(label)) \/ CaptureBlocked
  BY <1>b, <1>1, <1>2 DEF CaptureStart, CaptureBlocked, disk
<1>c. CASE ShotDownloaded
  BY <1>c, <1>0, <1>1, AttemptExposed DEF ShotDownloaded, Return
<1>d. CASE ShotFails
  <2>1. attempt' = NoFrame \/ (attempt' = attempt /\ lights' = lights)
    BY <1>d DEF ShotFails, Return, Raise, disk
  <2> QED BY <1>d, <1>0, <1>1, <1>2, <2>1, AttemptExposed DEF ShotFails, LeavesFrame
<1>e. CASE ShotTimesOut
  <2>1. lights' = lights
    BY <1>e DEF ShotTimesOut, Raise
  <2>2. \/ UNCHANGED <<shots, store, attempt>>
        \/ /\ shots' = shots + 1 /\ store' \in {store, Append(store, shots + 1)}
           /\ \/ attempt' = attempt
              \/ attempt' = shots + 1 /\ store' = store
    BY <1>e DEF ShotTimesOut, LeavesFrame
  <2> QED BY <1>0, <1>2, <2>1, <2>2, AttemptExposed
<1>f. CASE DrainFinds
  <2>1. shots' = shots /\ (attempt' = NoFrame \/ UNCHANGED <<attempt, lights>>)
    BY <1>f DEF DrainFinds, Return
  <2> QED BY <1>f, <1>0, <1>1, <2>1, AttemptKept DEF DrainFinds
<1>g. CASE DrainFindsNothing
  BY <1>g, <1>2 DEF DrainFindsNothing, Raise, body
<1>h. CASE RecoveryStart \/ RecoveryLists \/ RecoveryGets \/ RecoveryReturns \/ RecoveryRaises
           \/ ConnectStart \/ ConnectSucceeds \/ ConnectEnds
  BY <1>h, <1>2 DEF RecoveryStart, RecoveryLists, RecoveryGets, RecoveryReturns,
     RecoveryRaises, ConnectStart, ConnectSucceeds, ConnectEnds, body, disk
<1>i. CASE RecoveryDrains \/ ConnectDrains
  <2>1. UNCHANGED <<shots, attempt, lights>> /\ (Drained \/ store' = store)
    BY <1>i DEF RecoveryDrains, ConnectDrains, disk
  <2> QED BY <1>0, <2>1, AttemptKept
<1>j. CASE RecoveryDeletes
  <2>1. PICK i \in DOMAIN store : store' = RemoveAt(store, i)
    BY <1>j DEF RecoveryDeletes
  <2>2. i \in 1..Len(store)
    BY <1>0, FrameFacts
  <2> QED BY <1>j, <1>0, <2>1, <2>2, AttemptKept DEF RecoveryDeletes, disk
<1> QED BY <1>a, <1>b, <1>c, <1>d, <1>e, <1>f, <1>g, <1>h, <1>i, <1>j DEF Next, Capture, Recovery

-----------------------------------------------------------------------------
(* The jobs and the disk *)

LEMMA CaptureTyped ==
    /\ NoCapture \in Captures
    /\ \A label \in Labels : [step |-> "shoot", label |-> label, shot |-> NoFrame] \in Captures
    /\ \A c \in Captures, n \in Frames \cup {NoFrame} :
         /\ [c EXCEPT !.step = "idle"] \in Captures
         /\ [c EXCEPT !.step = "idle", !.shot = n] \in Captures
         /\ [c EXCEPT !.step = "drain", !.shot = n] \in Captures
  BY DEF NoCapture, Captures, Labels, NoFrame

Steps == {"idle", "drain", "list", "get", "delete", "connect", "setup"}

LEMMA RecoveryTyped ==
    /\ NoRecovery \in Recoveries
    /\ [NoRecovery EXCEPT !.step = "connect"] \in Recoveries
    /\ \A r \in Recoveries, step \in Steps : [r EXCEPT !.step = step] \in Recoveries
    /\ \A r \in Recoveries : r.todo # <<>> =>
         [r EXCEPT !.step = "get", !.todo = Tail(r.todo)] \in Recoveries
<1>1. NoRecovery \in Recoveries
  BY EmptySeq DEF NoRecovery, Recoveries
<1>2. \A r \in Recoveries, step \in Steps : [r EXCEPT !.step = step] \in Recoveries
  BY DEF Recoveries, Steps
<1>3. ASSUME NEW r \in Recoveries, r.todo # <<>>
      PROVE  [r EXCEPT !.step = "get", !.todo = Tail(r.todo)] \in Recoveries
  <2>1. PICK t : t = Tail(r.todo)
    OBVIOUS
  <2>2. t \in Seq(Frames \X Frames)
    BY <1>3, <2>1, HeadTailProperties DEF Recoveries
  <2>3. [r EXCEPT !.step = "get", !.todo = t] \in Recoveries
    BY <2>2 DEF Recoveries
  <2> QED BY <2>1, <2>3
<1> QED BY <1>1, <1>2, <1>3 DEF Steps

\* What remains to be done of a listing: all of it, from its end.
LEMMA ListingReversed ==
    ASSUME FramesInv, NEW todo, todo = ByIndexDescending([i \in DOMAIN store |-> <<i, store[i]>>])
    PROVE  /\ todo \in Seq(Frames \X Frames)
           /\ Len(todo) = Len(store)
           /\ \A k \in 1..Len(store) :
                todo[k] = <<Len(store) - k + 1, store[Len(store) - k + 1]>>
<1> DEFINE l == [i \in DOMAIN store |-> <<i, store[i]>>]
<1>1. PICK n \in Nat : n = Len(store) /\ DOMAIN store = 1..n
  BY FrameFacts
<1>2. \A i \in 1..n : <<i, store[i]>> \in Frames \X Frames
  BY <1>1, FrameFacts
<1>3. l = [i \in 1..n |-> <<i, store[i]>>]
  BY <1>1
<1>4. l \in Seq(Frames \X Frames) /\ Len(l) = n /\ \A i \in 1..n : l[i] = <<i, store[i]>>
  BY <1>2, <1>3
<1> HIDE DEF l
<1>5. todo = [k \in 1..n |-> l[(n - k) + 1]]
  BY <1>4 DEF ByIndexDescending, Reverse, l
<1>6. \A k \in 1..n : n - k + 1 \in 1..n /\ (n - k) + 1 = n - k + 1
  OBVIOUS
<1>7. \A k \in 1..n : l[(n - k) + 1] = <<n - k + 1, store[n - k + 1]>>
  BY <1>4, <1>6
<1>8. \A k \in 1..n : l[(n - k) + 1] \in Frames \X Frames
  BY <1>2, <1>6, <1>7
<1>9. todo \in Seq(Frames \X Frames) /\ Len(todo) = n
  BY <1>5, <1>8
<1>10. \A k \in 1..n : todo[k] = <<n - k + 1, store[n - k + 1]>>
  BY <1>5, <1>7
<1> QED BY <1>1, <1>9, <1>10

LEMMA StepKeepsJobs ==
    ASSUME TInv, [Next]_vars
    PROVE  JobsInv'
<1>0. FramesInv /\ JobsInv /\ attempt \in Frames \cup {NoFrame}
  <2>1. FramesInv /\ JobsInv /\ attempt \in 0..shots
    BY DEF TInv, AttemptInv
  <2> QED BY <2>1, FrameFacts DEF Frames, NoFrame
<1>1. \A f \in announced \cup {shots'} : f \in Frames \cup {NoFrame}
  BY <1>0, StepKeepsFrames, FrameFacts DEF FramesInv, Frames, NoFrame
<1>2. shots < MaxShots => shots + 1 \in Frames
  BY <1>0, FrameFacts DEF Frames
<1>3. Match(NoFrame) \in Frames \cup {NoFrame}
  BY <1>0 DEF JobsInv, Match
<1>4. capture \in Captures /\ recovery \in Recoveries
  BY <1>0 DEF JobsInv
<1> USE DEF JobsInv
<1>a. CASE BodyAnnounces
  BY <1>a, <1>0 DEF BodyAnnounces, disk
<1>b. CASE BodyTurned \/ SessionEnds \/ Crash \/ UNCHANGED vars
  BY <1>b, <1>0, CaptureTyped, RecoveryTyped
     DEF BodyTurned, SessionEnds, Crash, vars, body, disk, NoFrame
<1>c. CASE (\E label \in Labels : CaptureStart(label)) \/ CaptureBlocked
  BY <1>c, <1>0, CaptureTyped DEF CaptureStart, CaptureBlocked, disk, body
<1>d. CASE ShotDownloaded
  <2>1. shots + 1 \in Frames /\ Match(shots + 1) \in Frames
    BY <1>d, <1>2, <1>0, FrameFacts DEF ShotDownloaded, Exposes, Match, NoFrame
  <2>2. capture' \in Captures
    BY <1>d, <1>4, <2>1, CaptureTyped DEF ShotDownloaded, Shot
  <2>3. verification' \in Frames \cup {NoFrame} /\ result' \in Frames /\ saved' = saved
    BY <1>d, <1>0, <2>1 DEF ShotDownloaded, Return
  <2> QED BY <1>d, <1>0, <2>2, <2>3 DEF ShotDownloaded
<1>e. CASE ShotFails
  <2>1. PICK n : n = IF shots' = shots THEN NoFrame ELSE shots'
    OBVIOUS
  <2>2. n \in Frames \cup {NoFrame}
    BY <1>1, <2>1
  <2>a. \/ capture' = [capture EXCEPT !.step = "idle", !.shot = n]
        \/ capture' = [capture EXCEPT !.step = "drain", !.shot = n]
    BY <1>e, <2>1 DEF ShotFails, Shot
  <2>3. capture' \in Captures
    BY <1>4, <2>a, <2>2, CaptureTyped
  <2>4. result' \in Frames \cup {NoFrame} /\ saved' = saved
        /\ verification' \in Frames \cup {NoFrame}
    BY <1>e, <1>0, <1>3 DEF ShotFails, Return, Raise, disk
  <2> QED BY <1>e, <1>0, <2>3, <2>4 DEF ShotFails
<1>f. CASE ShotTimesOut
  <2>1. capture' \in Captures
    BY <1>f, <1>4, CaptureTyped DEF ShotTimesOut, Shot
  <2>2. verification' \in Frames \cup {NoFrame}
    BY <1>f, <1>0, <1>2 DEF ShotTimesOut, Exposes
  <2> QED BY <1>f, <1>0, <2>1, <2>2 DEF ShotTimesOut, Raise
<1>g. CASE DrainFinds
  <2>1. PICK f \in announced : Return(f)
    BY <1>g DEF DrainFinds
  <2>2. f \in Frames \cup {NoFrame}
    BY <1>1
  <2>3. verification' \in Frames \cup {NoFrame} /\ result' \in Frames \cup {NoFrame}
        /\ saved' = saved
    BY <1>0, <2>1, <2>2 DEF Return
  <2> QED BY <1>g, <1>0, <1>4, <2>3, CaptureTyped DEF DrainFinds
<1>h. CASE DrainFindsNothing
  BY <1>h, <1>0, <1>4, CaptureTyped DEF DrainFindsNothing, Raise, body
<1>i. CASE RecoveryStart \/ RecoveryReturns \/ RecoveryRaises \/ ConnectStart
  BY <1>i, <1>0, <1>4, RecoveryTyped DEF RecoveryStart, RecoveryReturns, RecoveryRaises,
     ConnectStart, LeaveRecovery, Goto, Steps, body, disk
<1>j. CASE RecoveryLists
  <2>1. PICK todo : todo = ByIndexDescending([i \in DOMAIN store |-> <<i, store[i]>>])
    OBVIOUS
  <2>2. todo \in Seq(Frames \X Frames) /\ Range(store) \subseteq Frames
    BY <1>0, <2>1, ListingReversed, FrameFacts
  <2>3. recovery' = [step |-> "get", todo |-> todo, listed |-> Range(store)]
    BY <1>j, <2>1 DEF RecoveryLists
  <2>4. recovery' \in Recoveries
    BY <2>2, <2>3 DEF Recoveries
  <2> QED BY <1>j, <1>0, <2>4 DEF RecoveryLists, body, disk
<1>k. CASE RecoveryDrains \/ ConnectDrains
  BY <1>k, <1>0, <1>4, RecoveryTyped DEF RecoveryDrains, ConnectDrains, Goto, Steps, disk
<1>l. CASE RecoveryGets
  <2>1. PICK entry : entry = Head(recovery.todo)
    OBVIOUS
  <2>2. entry \in Frames \X Frames
    BY <1>l, <1>4, <2>1, HeadTailProperties DEF RecoveryGets, Recoveries
  <2>3. entry[1] \in DOMAIN store /\ saved' = saved \cup {<<entry[2], store[entry[1]]>>}
    BY <1>l, <2>1 DEF RecoveryGets
  <2>4. store[entry[1]] \in Frames
    BY <1>0, <2>3, FrameFacts
  <2>5. saved' \subseteq Frames \X Frames
    BY <1>0, <2>2, <2>3, <2>4
  <2>6. recovery' \in Recoveries
    BY <1>l, <1>4, RecoveryTyped DEF RecoveryGets, Goto, Steps
  <2> QED BY <1>l, <1>0, <2>5, <2>6 DEF RecoveryGets, body
<1>m. CASE ConnectSucceeds \/ ConnectEnds
  BY <1>m, <1>0, <1>4, RecoveryTyped DEF ConnectSucceeds, ConnectEnds, disk
<1>n. CASE RecoveryDeletes
  <2>1. PICK i \in DOMAIN store : deleted' = deleted \cup {store[i]}
    BY <1>n DEF RecoveryDeletes
  <2>2. store[i] \in Frames
    BY <1>0, <2>1, FrameFacts
  <2>3. recovery' \in Recoveries
    BY <1>n, <1>4, RecoveryTyped DEF RecoveryDeletes, RecoveryAt, TInv, WorkLeft
  <2> QED BY <1>n, <1>0, <2>1, <2>2, <2>3 DEF RecoveryDeletes, disk
<1> QED BY <1>a, <1>b, <1>c, <1>d, <1>e, <1>f, <1>g, <1>h, <1>i, <1>j, <1>k, <1>l, <1>m,
           <1>n DEF Next, Capture, Recovery

LEMMA StepKeepsWork ==
    ASSUME TInv, [Next]_vars
    PROVE  WorkLeft'
<1>0. recovery \in Recoveries /\ WorkLeft
  BY DEF TInv, JobsInv
<1>1. \A step : [recovery EXCEPT !.step = step].step = step
      /\ [recovery EXCEPT !.step = step].todo = recovery.todo
  BY <1>0 DEF Recoveries
<1>2. CASE recovery' = recovery
  BY <1>0, <1>2 DEF WorkLeft
<1>3. ASSUME NEW step \in Steps \ {"delete"},
             recovery' = [recovery EXCEPT !.step = step] \/ recovery'.step = step
      PROVE  WorkLeft'
  BY <1>1, <1>3 DEF WorkLeft, Steps
<1>a. CASE BodyAnnounces \/ BodyTurned \/ SessionEnds \/ Capture \/ UNCHANGED vars
  BY <1>a, <1>2 DEF BodyAnnounces, BodyTurned, SessionEnds, Capture, CaptureStart,
     CaptureBlocked, ShotDownloaded, ShotFails, ShotTimesOut, DrainFinds, DrainFindsNothing, vars
<1>b. CASE Crash \/ ConnectSucceeds \/ ConnectEnds
  BY <1>b, <1>3 DEF Crash, ConnectSucceeds, ConnectEnds, NoRecovery, Steps
<1>c. CASE RecoveryReturns \/ RecoveryRaises
  <2>1. recovery' = [NoRecovery EXCEPT !.step = "connect"]
    BY <1>c DEF RecoveryReturns, RecoveryRaises, LeaveRecovery
  <2>2. recovery'.step = "connect"
    BY <2>1 DEF NoRecovery
  <2> QED BY <1>3, <2>2 DEF Steps
<1>d. CASE RecoveryStart \/ RecoveryDrains \/ ConnectStart \/ ConnectDrains
  BY <1>d, <1>3 DEF RecoveryStart, RecoveryDrains, ConnectStart, ConnectDrains, Goto, Steps
<1>e. CASE RecoveryLists
  BY <1>e, <1>3 DEF RecoveryLists, Steps
<1>f. CASE RecoveryGets
  BY <1>f, <1>1 DEF RecoveryGets, Goto, WorkLeft
<1>g. CASE RecoveryDeletes
  <2>1. recovery'.step = "get"
    BY <1>g, <1>0 DEF RecoveryDeletes, Recoveries
  <2> QED BY <1>3, <2>1 DEF Steps
<1> QED BY <1>a, <1>b, <1>c, <1>d, <1>e, <1>f, <1>g DEF Next, Recovery

LEMMA InitTInv == Init => TInv
<1> SUFFICES ASSUME Init PROVE TInv
  OBVIOUS
<1>1. FramesInv
  <2>1. Listed(<<>>) /\ IsInjective(<<>>) /\ <<>> \in Seq(Frames) /\ Len(<<>>) = 0
    BY EmptySeq DEF Listed, IsInjective
  <2> QED BY <2>1, MaxShotsAssumption DEF Init, FramesInv, FramesAreKnown
<1>2. JobsInv
  BY CaptureTyped, RecoveryTyped DEF Init, JobsInv, NoFrame
<1> QED BY <1>1, <1>2 DEF TInv, AttemptInv, WorkLeft, Init, NoFrame, NoRecovery

LEMMA TInvAlways == Spec => []TInv
<1>1. TInv /\ [Next]_vars => TInv'
  BY StepKeepsFrames, StepKeepsAttempt, StepKeepsJobs, StepKeepsWork DEF TInv
<1> QED BY <1>1, InitTInv, PTL DEF Spec

\* The state stays well formed for any number of exposures, also when captures
\* and recoveries overlap.
THEOREM TypeCorrect == Spec => []TypeOK
<1>1. TInv => TypeOK
  <2> SUFFICES ASSUME TInv PROVE TypeOK
    OBVIOUS
  <2>1. store \in Seq(Frames) /\ IsInjective(store)
    <3>1. Listed(store) /\ \A i \in 1..Len(store) : store[i] <= MaxShots
      BY FrameFacts DEF TInv, FramesInv, Frames
    <3> QED BY <3>1, ListedEntries, MaxShotsAssumption DEF Frames
  <2>2. attempt \in Frames \cup {NoFrame}
    BY FrameFacts DEF TInv, AttemptInv, Frames, NoFrame
  <2> QED BY <2>1, <2>2 DEF TInv, FramesInv, JobsInv, TypeOK
<1> QED BY <1>1, TInvAlways, PTL

\* No exposure is delivered as two lights, although a light that raised is tried
\* again under its name and may find its first frame, and a frame that a capture
\* left on the body is found by a later drain, and may be listed by recoveries.
THEOREM LightsDiffer == Spec => []NoLightTwice
<1>1. TInv => NoLightTwice
  BY DEF TInv, FramesInv, NoLightTwice
<1> QED BY <1>1, TInvAlways, PTL

-----------------------------------------------------------------------------
(* What recovery owes to the frames that it deletes *)

\* Steps that are not in the middle of a listing, and delete nothing.
LEMMA NothingDeleted ==
    ASSUME SInv, deleted' = deleted, saved' = saved, OneJob',
           recovery'.step \notin {"get", "delete"}
    PROVE  SInv'
  BY DEF SInv, TodoIsStore, DeleteIsDue, DeletedIsSaved

\* Steps that leave a listing, if there is one, as it is.
LEMMA ListingKept ==
    ASSUME SInv, UNCHANGED <<deleted, saved, recovery, store>>, OneJob'
    PROVE  SInv'
  BY DEF SInv, TodoIsStore, DeleteIsDue, DeletedIsSaved

LEMMA StepKeepsSInv ==
    ASSUME ~Overlap, TInv, SInv, [Next]_vars
    PROVE  SInv'
<1>0. /\ FramesInv /\ JobsInv /\ WorkLeft /\ OneJob
      /\ capture \in Captures /\ recovery \in Recoveries
  BY DEF TInv, SInv, JobsInv
<1>1. \A step : /\ [recovery EXCEPT !.step = step].step = step
                /\ [recovery EXCEPT !.step = step].todo = recovery.todo
  BY <1>0 DEF Recoveries
<1>2. \A step, n : /\ [capture EXCEPT !.step = step].step = step
                   /\ [capture EXCEPT !.step = step, !.shot = n].step = step
  BY <1>0 DEF Captures
<1>a. CASE BodyAnnounces \/ BodyTurned \/ UNCHANGED vars
  <2>1. UNCHANGED <<deleted, saved, recovery, store, capture>>
    BY <1>a DEF BodyAnnounces, BodyTurned, vars, body, disk
  <2> QED BY <1>0, <2>1, ListingKept DEF OneJob, Idle
<1>b. CASE Capture
  <2>1. recovery.step = "idle" /\ recovery' = recovery
    BY <1>b, <1>0 DEF Capture, CaptureStart, CaptureBlocked, ShotDownloaded, ShotFails,
       ShotTimesOut, DrainFinds, DrainFindsNothing, Free, CaptureAt, OneJob, Idle
  <2>2. deleted' = deleted /\ saved' = saved
    BY <1>b DEF Capture, CaptureStart, CaptureBlocked, ShotDownloaded, ShotFails,
       ShotTimesOut, DrainFinds, DrainFindsNothing, Return, Raise, disk
  <2> QED BY <2>1, <2>2, NothingDeleted DEF OneJob, Idle
<1>c. CASE SessionEnds \/ Crash
  BY <1>c, NothingDeleted DEF SessionEnds, Crash, OneJob, Idle, NoRecovery, NoCapture, disk
<1>d. CASE RecoveryStart \/ ConnectStart
  BY <1>d, <1>1, NothingDeleted DEF RecoveryStart, ConnectStart, Free, Goto, OneJob, Idle, disk
<1>e. CASE RecoveryDrains \/ ConnectDrains
  BY <1>e, <1>0, <1>1, NothingDeleted
     DEF RecoveryDrains, ConnectDrains, RecoveryAt, Goto, OneJob, Idle, disk
<1>f. CASE RecoveryReturns \/ RecoveryRaises
  <2>1. recovery' = [NoRecovery EXCEPT !.step = "connect"]
    BY <1>f DEF RecoveryReturns, RecoveryRaises, LeaveRecovery
  <2>2. recovery'.step = "connect"
    BY <2>1 DEF NoRecovery
  <2>3. capture.step = "idle" /\ UNCHANGED <<deleted, saved, capture>>
    BY <1>f, <1>0 DEF RecoveryReturns, RecoveryRaises, RecoveryAt, OneJob, Idle, disk
  <2> QED BY <2>2, <2>3, NothingDeleted DEF OneJob, Idle
<1>g. CASE ConnectSucceeds \/ ConnectEnds
  BY <1>g, NothingDeleted DEF ConnectSucceeds, ConnectEnds, NoRecovery, OneJob, Idle, disk
<1>h. CASE RecoveryLists
  <2>1. PICK todo : todo = ByIndexDescending([i \in DOMAIN store |-> <<i, store[i]>>])
    OBVIOUS
  <2>2. /\ recovery'.step = "get" /\ recovery'.todo = todo /\ store' = store
        /\ deleted' = deleted /\ saved' = saved /\ capture' = capture
    BY <1>h, <2>1 DEF RecoveryLists, body, disk
  <2>3. TodoIsStore'
    BY <1>0, <2>1, <2>2, ListingReversed DEF TodoIsStore
  <2>4. OneJob'
    BY <1>h, <1>0, <2>2 DEF RecoveryLists, RecoveryAt, OneJob, Idle
  <2> QED BY <2>2, <2>3, <2>4 DEF SInv, DeleteIsDue, DeletedIsSaved
<1>i. CASE RecoveryGets
  <2>0. PICK n \in Nat : n = Len(store)
    BY <1>0, FrameFacts
  <2>1. /\ Len(recovery.todo) = n
        /\ \A k \in 1..n : recovery.todo[k] = <<n - k + 1, store[n - k + 1]>>
    BY <1>i, <2>0 DEF RecoveryGets, RecoveryAt, SInv, TodoIsStore
  <2>2. n > 0 /\ 1 \in 1..n
    <3>1. recovery.todo \in Seq(Frames \X Frames) /\ recovery.todo # <<>>
      BY <1>i, <1>0 DEF RecoveryGets, Recoveries
    <3>2. Len(recovery.todo) \in Nat \ {0}
      BY <3>1, EmptySeq
    <3> QED BY <2>0, <2>1, <3>2
  <2>3. Head(recovery.todo) = <<n, store[n]>>
    <3>1. Head(recovery.todo) = recovery.todo[1]
      BY <2>1, <2>2
    <3>2. recovery.todo[1] = <<n - 1 + 1, store[n - 1 + 1]>>
      BY <2>1, <2>2
    <3>3. n - 1 + 1 = n
      BY <2>0
    <3> QED BY <3>1, <3>2, <3>3
  <2>4. saved' = saved \cup {<<store[n], store[n]>>}
    BY <1>i, <2>3 DEF RecoveryGets
  <2>5. /\ recovery'.step = "delete" /\ recovery'.todo = recovery.todo /\ store' = store
        /\ deleted' = deleted /\ capture' = capture
    BY <1>i, <1>1 DEF RecoveryGets, Goto, body
  <2>6. TodoIsStore'
    BY <2>0, <2>1, <2>5 DEF TodoIsStore
  <2>7. DeleteIsDue'
    BY <2>0, <2>2, <2>4, <2>5 DEF DeleteIsDue
  <2>8. OneJob'
    BY <1>i, <1>0, <2>5 DEF RecoveryGets, RecoveryAt, OneJob, Idle
  <2>9. DeletedIsSaved'
    BY <2>4, <2>5 DEF SInv, DeletedIsSaved
  <2> QED BY <2>6, <2>7, <2>8, <2>9 DEF SInv
<1>j. CASE RecoveryDeletes
  <2>0. PICK n \in Nat : n = Len(store)
    BY <1>0, FrameFacts
  <2>1. /\ recovery.todo \in Seq(Frames \X Frames) /\ recovery.todo # <<>>
        /\ Len(recovery.todo) = n
        /\ \A k \in 1..n : recovery.todo[k] = <<n - k + 1, store[n - k + 1]>>
    BY <1>j, <1>0, <2>0 DEF RecoveryDeletes, RecoveryAt, SInv, TodoIsStore, WorkLeft, Recoveries
  <2>2. n > 0 /\ 1 \in 1..n /\ <<store[n], store[n]>> \in saved
    BY <1>j, <2>0 DEF RecoveryDeletes, RecoveryAt, SInv, DeleteIsDue
  <2>3. Head(recovery.todo) = <<n, store[n]>>
    <3>1. Head(recovery.todo) = recovery.todo[1]
      BY <2>1, <2>2
    <3>2. recovery.todo[1] = <<n - 1 + 1, store[n - 1 + 1]>>
      BY <2>1, <2>2
    <3>3. n - 1 + 1 = n
      BY <2>0
    <3> QED BY <3>1, <3>2, <3>3
  <2>4. /\ store' = RemoveAt(store, n) /\ deleted' = deleted \cup {store[n]}
        /\ saved' = saved /\ capture' = capture
    BY <1>j, <2>3 DEF RecoveryDeletes, disk
  <2>5. PICK u : u = Tail(recovery.todo)
    OBVIOUS
  <2>6. recovery'.step = "get" /\ recovery'.todo = u
    BY <1>j, <1>0, <2>5 DEF RecoveryDeletes, Recoveries
  <2>7. Len(u) = n - 1 /\ \A k \in 1..(n - 1) : u[k] = recovery.todo[k + 1]
    BY <2>1, <2>5, HeadTailProperties
  <2>8. PICK t : t = RemoveAt(store, n)
    OBVIOUS
  <2>9. Len(t) = n - 1 /\ \A k \in 1..(n - 1) : t[k] = store[k]
    <3>1. Listed(store) /\ n \in 1..Len(store)
      BY <1>0, <2>0, <2>2 DEF FramesInv
    <3>2. /\ Len(t) = n - 1
          /\ \A k \in 1..(n - 1) : t[k] = IF k < n THEN store[k] ELSE store[k + 1]
      BY <2>0, <2>8, <3>1, RemoveAtIsListed
    <3> QED BY <2>0, <3>2
  <2>10. \A k \in 1..(n - 1) : u[k] = <<(n - 1) - k + 1, t[(n - 1) - k + 1]>>
    <3> TAKE k \in 1..(n - 1)
    <3>1. k + 1 \in 1..n /\ n - (k + 1) + 1 = (n - 1) - k + 1 /\ (n - 1) - k + 1 \in 1..(n - 1)
      BY <2>0
    <3>2. recovery.todo[k + 1] = <<n - (k + 1) + 1, store[n - (k + 1) + 1]>>
      BY <2>1, <3>1
    <3> QED BY <2>7, <2>9, <3>1, <3>2
  <2>11. TodoIsStore'
    BY <2>4, <2>6, <2>7, <2>8, <2>9, <2>10 DEF TodoIsStore
  <2>12. OneJob'
    BY <1>j, <1>0, <2>4 DEF RecoveryDeletes, RecoveryAt, OneJob, Idle
  <2>13. DeletedIsSaved'
    BY <2>2, <2>4 DEF SInv, DeletedIsSaved
  <2> QED BY <2>6, <2>11, <2>12, <2>13 DEF SInv, DeleteIsDue
<1> QED BY <1>a, <1>b, <1>c, <1>d, <1>e, <1>f, <1>g, <1>h, <1>i, <1>j DEF Next, Recovery

LEMMA SInvAlways == ~Overlap /\ Spec => [](TInv /\ SInv)
<1>1. Init => SInv
  BY DEF Init, SInv, OneJob, TodoIsStore, DeleteIsDue, DeletedIsSaved, Idle, NoCapture, NoRecovery
<1>2. CASE ~Overlap
  <2>1. TInv /\ SInv /\ [Next]_vars => SInv'
    BY <1>2, StepKeepsSInv
  <2>2. Spec => [](TInv /\ SInv)
    BY <1>1, <2>1, TInvAlways, PTL DEF Spec
  <2> QED BY <2>2
<1> QED BY <1>2

\* Whatever recovery deletes from the camera is in the recovery directory under
\* the name it was listed with, for listings of any length, and through failed
\* steps, retries and restarts, if no capture runs beside a recovery.
THEOREM DeletedSaved == ~Overlap /\ Spec => []DeletedIsSaved
<1>1. TInv /\ SInv => DeletedIsSaved
  BY DEF SInv
<1> QED BY <1>1, SInvAlways, PTL

\* A recovery that returns has dealt with every entry of its listing.
THEOREM RecoveredClean == ~Overlap /\ Spec => RecoveredIsClean
<1>1. TInv /\ SInv /\ RecoveryReturns => recovery.listed \cap Range(store) = {}
  <2> SUFFICES ASSUME TInv, SInv, RecoveryReturns
               PROVE  recovery.listed \cap Range(store) = {}
    OBVIOUS
  <2>1. recovery.todo = <<>> /\ Len(recovery.todo) = Len(store)
    BY DEF RecoveryReturns, RecoveryAt, SInv, TodoIsStore
  <2>2. Len(store) = 0
    BY <2>1, EmptySeq
  <2>3. Range(store) = {}
    BY <2>2, FrameFacts DEF TInv
  <2> QED BY <2>3
<1> QED BY <1>1, SInvAlways, PTL DEF RecoveredIsClean

=============================================================================
