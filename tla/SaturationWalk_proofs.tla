----------------------- MODULE SaturationWalk_proofs -----------------------
(***************************************************************************)
(* For any stream counts, ladders, thresholds, readings and invocations:   *)
(* types, where a walk pins, that one noisy rung does not make it, and     *)
(* what a run that came to its end has measured.                           *)
(***************************************************************************)
EXTENDS SaturationWalk, FiniteSetTheorems, TLAPS

-----------------------------------------------------------------------------
(***************************************************************************)
(* Ladders and walks.                                                      *)
(***************************************************************************)
Measured == [pods : PodCounts, thr : Nat]

LEMMA ConstFacts ==
  /\ Len(StreamCounts) \in Nat
  /\ \A i \in 1 .. Len(StreamCounts) : StreamCounts[i] \in Streams
  /\ \A s \in Streams : \E i \in 1 .. Len(StreamCounts) : StreamCounts[i] = s
  /\ PlateauPct \in Int /\ Patiences \subseteq Nat /\ Ops \subseteq Nat
  BY WalkAssumption DEF Streams

\* A capped ladder is a sequence.
LEMMA CappedIsSeq ==
  ASSUME NEW ladder \in Seq(Nat), NEW sc
  PROVE  \E n \in Nat : DOMAIN CapLadder(ladder, sc) = 1 .. n
                        /\ CapLadder(ladder, sc) = [k \in 1 .. n |-> CapLadder(ladder, sc)[k]]
<1> DEFINE cap(i) == IF ladder[i] < sc THEN ladder[i] ELSE sc
           kept   == {i \in DOMAIN ladder : cap(i) >= 1 /\ \A j \in 1 .. i - 1 : cap(j) # cap(i)}
           nth(k) == CHOOSE i \in kept : Cardinality({j \in kept : j <= i}) = k
           out    == [k \in 1 .. Cardinality(kept) |-> cap(nth(k))]
<1>1. CapLadder(ladder, sc) = out
  BY DEF CapLadder
<1>2. kept \subseteq 1 .. Len(ladder) /\ Len(ladder) \in Nat
  OBVIOUS
<1>3. IsFiniteSet(kept)
  BY <1>2, FS_Interval, FS_Subset
<1>4. Cardinality(kept) \in Nat
  BY <1>3, FS_CardinalityType
<1> HIDE DEF kept, nth, cap
<1>5. DOMAIN out = 1 .. Cardinality(kept) /\ out = [k \in 1 .. Cardinality(kept) |-> out[k]]
  OBVIOUS
<1> QED  BY <1>1, <1>4, <1>5

LEMMA LadderFacts ==
  ASSUME NEW s \in Streams
  PROVE  /\ Len(Ladder[s]) \in Nat
         /\ \A k \in 1 .. Len(Ladder[s]) : Ladder[s][k] \in PodCounts
<1>1. Ladder[s] = CapLadder(PodLadder[s], s) /\ PodLadder[s] \in Seq(Nat)
  BY WalkAssumption DEF Ladder
<1>2. PICK n \in Nat : /\ DOMAIN Ladder[s] = 1 .. n
                       /\ Ladder[s] = [k \in 1 .. n |-> Ladder[s][k]]
  BY <1>1, CappedIsSeq
<1>3. Range(Ladder[s]) \subseteq PodCounts
  BY DEF PodCounts
<1>4. \A k \in 1 .. n : Ladder[s][k] \in Range(Ladder[s])
  BY <1>2 DEF Range
<1>5. [k \in 1 .. n |-> Ladder[s][k]] \in Seq(PodCounts)
  BY <1>3, <1>4
<1>6. Ladder[s] \in Seq(PodCounts)
  BY <1>2, <1>5
<1> QED  BY <1>6

LEMMA ThrType ==
  ASSUME NEW m \in Readings PROVE Thr(m) \in Nat
  BY ConstFacts DEF Readings, Thr

\* The walk with one rung more.
LEMMA Longer ==
  ASSUME NEW w \in Walks, NEW r \in Measured
  PROVE  /\ Append(w, r) \in Walks /\ Len(w) \in Nat
         /\ Len(Append(w, r)) = Len(w) + 1
         /\ \A i \in 1 .. Len(w) : Append(w, r)[i] = w[i]
         /\ Append(w, r)[Len(w) + 1] = r
  BY DEF Walks, Measured

LEMMA WalkFacts ==
  ASSUME NEW w \in Walks
  PROVE  /\ Len(w) \in Nat
         /\ \A i \in 1 .. Len(w) : w[i].thr \in Nat
<1>1. w \in Seq(Measured)
  BY DEF Walks, Measured
<1>2. Len(w) \in Nat /\ \A i \in 1 .. Len(w) : w[i] \in Measured
  BY <1>1
<1> QED  BY <1>2 DEF Measured

LEMMA RungsFacts ==
  ASSUME patience \in Nat
  PROVE  Rungs \in Nat \ {0} /\ (Rungs = 1 <=> patience <= 1) /\ (patience >= 2 => Rungs >= 2)
  BY DEF Rungs

-----------------------------------------------------------------------------
(***************************************************************************)
(* What is known of a walk that is still climbing, and of one that         *)
(* stopped, when g small gains in a row stop it.                           *)
(***************************************************************************)
Positive(w) == \A i \in 1 .. Len(w) : w[i].thr > 0

\* Among the first n rungs no g gains in a row were small.
StretchClimbs(w, n, g) ==
  \A k \in 1 .. n - g : \E i \in k + 1 .. k + g : Climbs(w, i)

\* With one small gain to stop, the first n rungs rise.
Rising(w, n, g) ==
  g = 1 /\ PlateauPct >= 0 => \A i \in 1 .. n : w[i].thr <= w[n].thr

\* The last g gains are small.
Flat(w, g) ==
  Len(w) >= g + 1 /\ \A i \in Len(w) - g + 1 .. Len(w) : ~Climbs(w, i)

OnClimb(w, g) == Positive(w) /\ StretchClimbs(w, Len(w), g) /\ Rising(w, Len(w), g)

Stopped(w, g) ==
  Positive(w) /\ Flat(w, g) /\ StretchClimbs(w, Len(w) - 1, g) /\ Rising(w, Len(w) - 1, g)

LEMMA Product ==
  ASSUME NEW a \in Int, NEW b \in Int, a >= 0, b >= 0
  PROVE  a * b \in Int /\ a * b >= 0
  OBVIOUS

LEMMA ProductOrder ==
  ASSUME NEW a \in Int, NEW b \in Int, NEW c \in Int, a >= 0, b <= c
  PROVE  a * b <= a * c
<1>1. a * (c - b) >= 0
  BY Product
<1>2. a * (c - b) = a * c - a * b
  OBVIOUS
<1>3. a * b \in Int /\ a * c \in Int
  OBVIOUS
<1> QED  BY <1>1, <1>2, <1>3

LEMMA PctOfInt == \A x \in Int : PlateauPct * x \in Int
<1>1. PlateauPct \in Int
  BY ConstFacts
<1> QED  BY <1>1

LEMMA ClimbsAppend ==
  ASSUME NEW w \in Walks, NEW r \in Measured, NEW i \in 2 .. Len(w)
  PROVE  Climbs(Append(w, r), i) <=> Climbs(w, i)
<1>1. Append(w, r)[i] = w[i] /\ Append(w, r)[i - 1] = w[i - 1]
  BY Longer
<1> QED  BY <1>1 DEF Climbs

\* A longer walk keeps what its first rungs showed.
LEMMA PrefixKept ==
  ASSUME NEW w \in Walks, NEW r \in Measured, NEW g \in Nat \ {0},
         OnClimb(w, g), r.thr > 0
  PROVE  /\ Positive(Append(w, r))
         /\ StretchClimbs(Append(w, r), Len(w), g)
         /\ Rising(Append(w, r), Len(w), g)
<1> DEFINE W == Append(w, r)
<1>1. /\ Len(w) \in Nat /\ Len(W) = Len(w) + 1 /\ W[Len(w) + 1] = r
      /\ \A i \in 1 .. Len(w) : W[i] = w[i]
  BY Longer
<1> HIDE DEF W
<1>2. Positive(W)
  BY <1>1 DEF Positive, OnClimb
<1>3. StretchClimbs(W, Len(w), g)
  <2> SUFFICES ASSUME NEW k \in 1 .. Len(w) - g
               PROVE  \E i \in k + 1 .. k + g : Climbs(W, i)
    BY DEF StretchClimbs
  <2>1. PICK i \in k + 1 .. k + g : Climbs(w, i)
    BY DEF OnClimb, StretchClimbs
  <2>2. i \in 2 .. Len(w)
    BY <1>1
  <2> QED  BY <2>1, <2>2, ClimbsAppend DEF W
<1>4. Rising(W, Len(w), g)
  BY <1>1 DEF OnClimb, Rising
<1> QED  BY <1>2, <1>3, <1>4 DEF W

LEMMA ClimbStops ==
  ASSUME NEW w \in Walks, NEW r \in Measured, NEW g \in Nat \ {0},
         OnClimb(w, g), r.thr > 0, Flat(Append(w, r), g)
  PROVE  Stopped(Append(w, r), g)
<1>1. Len(w) \in Nat /\ Len(Append(w, r)) - 1 = Len(w)
  BY Longer
<1> QED  BY <1>1, PrefixKept DEF Stopped

LEMMA ClimbGoesOn ==
  ASSUME NEW w \in Walks, NEW r \in Measured, NEW g \in Nat \ {0},
         OnClimb(w, g), r.thr > 0, ~Flat(Append(w, r), g)
  PROVE  OnClimb(Append(w, r), g)
<1> DEFINE W == Append(w, r)
           n == Len(w)
<1>1. /\ W \in Walks /\ n \in Nat /\ Len(W) = n + 1 /\ W[n + 1] = r
      /\ \A i \in 1 .. n : W[i] = w[i]
  BY Longer
<1>2. Positive(W) /\ StretchClimbs(W, n, g) /\ Rising(W, n, g)
  BY PrefixKept
<1>3. ~Flat(W, g)
  OBVIOUS
<1>4. \A i \in 1 .. n + 1 : W[i].thr \in Nat
  BY <1>1, WalkFacts
<1> HIDE DEF W, n
<1>5. ASSUME n + 1 >= g + 1
      PROVE  \E i \in n + 1 - g + 1 .. n + 1 : Climbs(W, i)
  BY <1>1, <1>3, <1>5 DEF Flat
<1>6. ASSUME NEW k \in 1 .. (n + 1) - g
      PROVE  \E i \in k + 1 .. k + g : Climbs(W, i)
  <2>1. CASE k = n + 1 - g
    <3>1. n + 1 >= g + 1 /\ k + 1 = n + 1 - g + 1 /\ k + g = n + 1
      BY <1>1, <1>6, <2>1
    <3> QED  BY <3>1, <1>5
  <2>2. CASE k # n + 1 - g
    <3>1. k \in 1 .. n - g
      BY <1>1, <1>6, <2>2
    <3> QED  BY <3>1, <1>2 DEF StretchClimbs
  <2> QED  BY <2>1, <2>2
<1>7. StretchClimbs(W, n + 1, g)
  BY <1>6 DEF StretchClimbs
<1>8. Rising(W, n + 1, g)
  <2> SUFFICES ASSUME g = 1, PlateauPct >= 0, NEW i \in 1 .. n + 1
               PROVE  W[i].thr <= W[n + 1].thr
    BY DEF Rising
  <2>1. CASE i = n + 1
    BY <1>4, <2>1
  <2>2. CASE i # n + 1
    <3>1. i \in 1 .. n /\ n >= 1 /\ n \in 1 .. n + 1 /\ n + 1 \in 1 .. n + 1
      BY <1>1, <2>2
    <3>2. W[i].thr <= W[n].thr
      BY <1>2, <3>1 DEF Rising
    <3>3. PICK j \in n + 1 - g + 1 .. n + 1 : Climbs(W, j)
      BY <1>1, <1>5, <3>1
    <3>4. j = n + 1
      BY <1>1
    <3>5. 100 * (W[n + 1].thr - W[n].thr) > PlateauPct * W[n].thr
      BY <1>1, <3>3, <3>4 DEF Climbs
    <3>6. PlateauPct * W[n].thr >= 0 /\ PlateauPct * W[n].thr \in Int
      BY <1>4, <3>1, ConstFacts, Product
    <3>7. W[n + 1].thr \in Nat /\ W[n].thr \in Nat /\ W[i].thr \in Nat
      BY <1>4, <3>1
    <3>8. W[n].thr <= W[n + 1].thr
      BY <3>5, <3>6, <3>7
    <3> QED  BY <3>2, <3>7, <3>8
  <2> QED  BY <2>1, <2>2
<1> QED  BY <1>1, <1>2, <1>7, <1>8 DEF OnClimb, W, n

\* plateau_pin's test on a walk of valid readings: its last gains are small.
LEMMA PlateauedIsFlat ==
  ASSUME NEW w \in Walks, patience \in Nat, Positive(w)
  PROVE  Plateaued(w) <=> Flat(w, Rungs)
<1>1. Rungs \in Nat \ {0} /\ Len(w) \in Nat /\ PlateauPct \in Int
  BY RungsFacts, WalkFacts, ConstFacts
<1>2. \A i \in 1 .. Len(w) : w[i].thr \in Nat /\ w[i].thr > 0
  BY WalkFacts DEF Positive
<1>3. ASSUME NEW i \in 2 .. Len(w)
      PROVE  SmallGain(w[i - 1].thr, w[i].thr) <=> ~Climbs(w, i)
  <2>1. i - 1 \in 1 .. Len(w) /\ i \in 1 .. Len(w)
    BY <1>1
  <2>2. w[i - 1].thr \in Int /\ w[i].thr \in Int
    BY <1>2, <2>1
  <2>3. PlateauPct * w[i - 1].thr \in Int
    BY <2>2, PctOfInt, Zenon
  <2> QED  BY <2>2, <2>3 DEF SmallGain, Climbs
<1>4. ASSUME Len(w) >= Rungs + 1, NEW i \in Len(w) - Rungs + 1 .. Len(w)
      PROVE  i \in 2 .. Len(w) /\ i - 1 \in 1 .. Len(w)
  BY <1>1, <1>4
<1> QED  BY <1>2, <1>3, <1>4 DEF Plateaued, Flat

-----------------------------------------------------------------------------
(***************************************************************************)
(* What a walk that stopped says of its pin.                               *)
(***************************************************************************)
LEMMA StoppedFacts ==
  ASSUME NEW w \in Walks, NEW g \in Nat \ {0}, Stopped(w, g)
  PROVE  /\ Len(w) \in Nat /\ Len(w) >= g + 1 /\ PlateauPct \in Int
         /\ \A i \in 1 .. Len(w) : w[i].thr \in Nat /\ w[i].thr > 0
         /\ \A i \in Len(w) - g + 1 .. Len(w) :
              100 * (w[i].thr - w[i - 1].thr) <= PlateauPct * w[i - 1].thr
<1>1. Len(w) \in Nat /\ \A i \in 1 .. Len(w) : w[i].thr \in Nat
  BY WalkFacts
<1>2. Len(w) >= g + 1 /\ Positive(w) /\ \A i \in Len(w) - g + 1 .. Len(w) : ~Climbs(w, i)
  BY DEF Stopped, Flat
<1>3. ASSUME NEW i \in Len(w) - g + 1 .. Len(w)
      PROVE  100 * (w[i].thr - w[i - 1].thr) <= PlateauPct * w[i - 1].thr
  <2>1. i \in 1 .. Len(w) /\ i - 1 \in 1 .. Len(w)
    BY <1>1, <1>2
  <2>2. w[i].thr \in Int /\ w[i - 1].thr \in Int
    BY <1>1, <2>1
  <2>3. PlateauPct * w[i - 1].thr \in Int
    BY <2>2, PctOfInt, Zenon
  <2> QED  BY <1>2, <2>2, <2>3 DEF Climbs
<1> QED  BY <1>1, <1>2, <1>3, ConstFacts DEF Positive

\* One reading that had been higher still leaves a gain that is small.
LEMMA OneReadingMore ==
  ASSUME NEW w \in Walks, NEW g \in Nat \ {0}, g >= 2, Stopped(w, g),
         NEW i \in 1 .. Len(w), NEW v \in Nat, v >= w[i].thr
  PROVE  \E j \in 2 .. Len(w) : ~Climbs([w EXCEPT ![i].thr = v], j)
<1> DEFINE fixed == [w EXCEPT ![i].thr = v]
           n     == Len(w)
<1>1. /\ n \in Nat /\ n >= 3 /\ PlateauPct \in Int
      /\ \A j \in 1 .. n : w[j].thr \in Nat /\ w[j].thr > 0
      /\ \A j \in n - 1 .. n :
           100 * (w[j].thr - w[j - 1].thr) <= PlateauPct * w[j - 1].thr
  <2>1. /\ n \in Nat /\ n >= g + 1 /\ PlateauPct \in Int
        /\ \A j \in 1 .. n : w[j].thr \in Nat /\ w[j].thr > 0
        /\ \A j \in n - g + 1 .. n :
             100 * (w[j].thr - w[j - 1].thr) <= PlateauPct * w[j - 1].thr
    BY StoppedFacts
  <2> HIDE DEF n
  <2>2. n >= 3 /\ \A j \in n - 1 .. n : j \in n - g + 1 .. n
    BY <2>1
  <2> QED  BY <2>1, <2>2
<1>2. \A j \in 1 .. n : fixed[j].thr = IF j = i THEN v ELSE w[j].thr
  <2>1. w \in Seq(Measured)
    BY DEF Walks, Measured
  <2>2. \A j \in 1 .. n : j \in DOMAIN w /\ w[j] \in Measured
    BY <2>1
  <2> QED  BY <2>2 DEF Measured
<1>3. n \in 2 .. n /\ n - 1 \in 2 .. n /\ n - 2 \in 1 .. n
      /\ n - 1 \in 1 .. n /\ n \in 1 .. n /\ n \in n - 1 .. n /\ n - 1 \in n - 1 .. n
  BY <1>1
<1> HIDE DEF fixed, n
<1>4. /\ w[n].thr \in Nat /\ w[n].thr > 0 /\ w[n - 1].thr \in Nat /\ w[n - 1].thr > 0
      /\ w[n - 2].thr \in Nat
  BY <1>1, <1>3
<1>5. CASE i = n
  <2>1. fixed[n - 1].thr = w[n - 1].thr /\ fixed[n - 2].thr = w[n - 2].thr
    BY <1>1, <1>2, <1>3, <1>5
  <2>2. 100 * (w[n - 1].thr - w[n - 2].thr) <= PlateauPct * w[n - 2].thr
    <3>1. (n - 1) - 1 = n - 2
      BY <1>1
    <3> QED  BY <1>1, <1>3, <3>1
  <2>3. PlateauPct * w[n - 2].thr \in Int
    <3>1. w[n - 2].thr \in Int
      BY <1>4
    <3> QED  BY <3>1, PctOfInt, Zenon
  <2>4. (n - 1) - 1 = n - 2
    BY <1>1
  <2>5. ~(100 * (fixed[n - 1].thr - fixed[n - 2].thr) > PlateauPct * fixed[n - 2].thr)
    BY <1>4, <2>1, <2>2, <2>3
  <2>6. ~Climbs(fixed, n - 1)
    BY <2>4, <2>5 DEF Climbs
  <2> QED  BY <1>3, <2>6 DEF fixed, n
<1>6. CASE i # n
  <2> DEFINE a == w[n - 1].thr
             b == fixed[n - 1].thr
             c == w[n].thr
  <2>1. fixed[n].thr = c /\ b \in Nat /\ b >= a
    <3>1. fixed[n].thr = w[n].thr
      BY <1>2, <1>3, <1>6
    <3>2. fixed[n - 1].thr = IF n - 1 = i THEN v ELSE w[n - 1].thr
      BY <1>2, <1>3
    <3>3. n - 1 = i => v >= w[n - 1].thr
      OBVIOUS
    <3>4. w[n - 1].thr \in Nat
      BY <1>4
    <3>5. fixed[n - 1].thr \in Nat /\ fixed[n - 1].thr >= w[n - 1].thr
      BY <3>2, <3>3, <3>4
    <3> QED  BY <3>1, <3>5
  <2>2. 100 * (c - a) <= PlateauPct * a
    BY <1>1, <1>3
  <2> HIDE DEF a, b, c
  <2>3. a \in Nat /\ a > 0 /\ c \in Nat /\ c > 0
    BY <1>4 DEF a, c
  <2>4. PlateauPct * a \in Int /\ PlateauPct * b \in Int
    <3>1. a \in Int /\ b \in Int
      BY <2>1, <2>3
    <3> QED  BY <3>1, PctOfInt, Zenon
  <2>5. (100 + PlateauPct) * a = 100 * a + PlateauPct * a
        /\ (100 + PlateauPct) * b = 100 * b + PlateauPct * b
    BY <1>1, <2>1, <2>3
  <2>6. (100 + PlateauPct) * a > 0
    BY <2>2, <2>3, <2>4, <2>5
  <2>7. 100 + PlateauPct >= 0
    <3>1. CASE 100 + PlateauPct < 0
      <4>1. (-(100 + PlateauPct)) * a >= 0
        BY <1>1, <2>3, <3>1, Product
      <4>2. (-(100 + PlateauPct)) * a = -((100 + PlateauPct) * a)
        BY <1>1, <2>3
      <4>3. (100 + PlateauPct) * a \in Int
        BY <1>1, <2>3
      <4> QED  BY <2>6, <4>1, <4>2, <4>3
    <3> QED  BY <1>1, <3>1
  <2>8. (100 + PlateauPct) * a <= (100 + PlateauPct) * b
    <3>1. 100 + PlateauPct \in Int /\ a \in Int /\ b \in Int /\ a <= b
      BY <1>1, <2>1, <2>3
    <3>2. \A x, y, z \in Int : x >= 0 /\ y <= z => x * y <= x * z
      BY ProductOrder
    <3> QED  BY <2>7, <3>1, <3>2
  <2>9. 100 * (c - b) <= PlateauPct * b
    BY <2>1, <2>2, <2>3, <2>4, <2>5, <2>8
  <2>10. ~(100 * (fixed[n].thr - fixed[n - 1].thr) > PlateauPct * fixed[n - 1].thr)
    BY <2>1, <2>3, <2>4, <2>9 DEF b
  <2>11. ~Climbs(fixed, n)
    BY <2>10 DEF Climbs
  <2> QED  BY <1>3, <2>11 DEF fixed, n
<1> QED  BY <1>5, <1>6

-----------------------------------------------------------------------------
(***************************************************************************)
(* The invariant.                                                          *)
(***************************************************************************)

RunType ==
  /\ patience \in Patiences
  /\ pc \in {"idle", "next", "walk", "confirm"}
  /\ at \in Nat \ {0}
  /\ pc \in {"walk", "confirm"} => at \in 1 .. Len(StreamCounts)
  /\ walk \in Walks
  /\ DOMAIN cells = Streams

LastThr(w) == IF Len(w) = 0 THEN 0 ELSE w[Len(w)].thr

WalkInv ==
  /\ pc = "walk" => OnClimb(walk, Rungs) /\ prev.thr = LastThr(walk)
  /\ pc = "confirm" => Stopped(walk, Rungs)

\* What a recorded cell says of the walk behind it.
SoundCell(c, g) ==
  /\ c.walk \in Walks
  /\ c.digest = Digest(c.on)
  /\ c.saturated => Stopped(c.walk, g) /\ c.pods = c.walk[Len(c.walk) - g].pods

CellsInv == \A s \in Streams : cells[s] # None => SoundCell(cells[s], Rungs)

ImageInv ==
  /\ finished => pc = "idle" /\ at > Len(StreamCounts)
  /\ pc # "idle" \/ finished => image \in Images
  /\ pc # "idle" \/ finished =>
       \A i \in 1 .. Len(StreamCounts) :
         i < at /\ cells[StreamCounts[i]] # None =>
           Digest(cells[StreamCounts[i]].on) = Digest(image)

WalkIInv == RunType /\ WalkInv /\ CellsInv /\ ImageInv

LEMMA EmptyWalk ==
  ASSUME NEW g \in Nat \ {0}
  PROVE  <<>> \in Walks /\ OnClimb(<<>>, g) /\ LastThr(<<>>) = 0
  BY DEF Walks, OnClimb, Positive, StretchClimbs, Rising, LastThr

LEMMA ClimbedFacts ==
  ASSUME RunType, Climbing, NEW m \in Readings
  PROVE  /\ current \in Streams /\ at \in 1 .. Len(StreamCounts)
         /\ Climbed(m) \in Walks
         /\ \E r \in Measured : Climbed(m) = Append(walk, r) /\ r.thr = Thr(m)
         /\ Len(Climbed(m)) = Len(walk) + 1 /\ Len(walk) \in Nat
         /\ Climbed(m)[Len(Climbed(m))].thr = Thr(m)
         /\ \A i \in 1 .. Len(walk) : Climbed(m)[i] = walk[i]
<1> DEFINE r == Rung(Ladder[current][Len(walk) + 1], m)
<1>1. current \in Streams /\ at \in 1 .. Len(StreamCounts) /\ walk \in Walks
  BY ConstFacts DEF RunType, Climbing, current
<1>2. Len(walk) \in Nat
  BY <1>1, WalkFacts
<1>3. Len(walk) + 1 \in 1 .. Len(Ladder[current])
  BY <1>1, <1>2, LadderFacts DEF Climbing
<1>4. Ladder[current][Len(walk) + 1] \in PodCounts
  BY <1>1, <1>3, LadderFacts
<1>5. r \in Measured /\ r.thr = Thr(m)
  BY <1>4, ThrType DEF Rung, Measured
<1>6. Climbed(m) = Append(walk, r)
  BY DEF Climbed
<1> HIDE DEF r
<1> QED  BY <1>1, <1>2, <1>5, <1>6, Longer

\* _record changes the cell of the stream count at hand and moves on.
LEMMA RecordFacts ==
  ASSUME RunType, at \in 1 .. Len(StreamCounts), NEW pods, NEW thr, NEW saturated,
         NEW status, NEW reason, NEW w,
         Record(pods, thr, saturated, status, reason, w)
  PROVE  /\ pc' = "next" /\ at' = at + 1 /\ image' = image /\ finished' = finished
         /\ current \in Streams /\ DOMAIN cells' = Streams
         /\ \A s \in Streams : s # current => cells'[s] = cells[s]
         /\ cells'[current].digest = Digest(image) /\ cells'[current].on = image
         /\ cells'[current].walk = w /\ cells'[current].pods = pods
         /\ cells'[current].saturated = saturated
<1>1. current \in Streams
  BY ConstFacts DEF current
<1> QED  BY <1>1 DEF Record, RunType

LEMMA WalkInit == ASSUME Init PROVE WalkIInv
<1>1. patience \in Nat /\ Rungs \in Nat \ {0}
  BY RungsFacts, ConstFacts DEF Init
<1>2. RunType
  BY <1>1, EmptyWalk, ConstFacts DEF Init, RunType
<1> QED  BY <1>2, ConstFacts DEF Init, WalkIInv, WalkInv, CellsInv, ImageInv

LEMMA RungsKept == ASSUME [Next]_vars PROVE patience' = patience /\ Rungs' = Rungs
  BY DEF Next, vars, Rungs

LEMMA TypeNext == ASSUME WalkIInv, [Next]_vars PROVE RunType'
<1> USE DEF WalkIInv
<1>0. patience' = patience
  BY RungsKept
<1>1. ASSUME NEW img \in Images, StartRun(img) \/ DeployFails(img) PROVE RunType'
  BY <1>0, <1>1, EmptyWalk DEF StartRun, DeployFails, Forget, RunType
<1>2. CASE SkipSaturated
  BY <1>0, <1>2 DEF SkipSaturated, RunType
<1>3. CASE BeginWalk
  <2>1. at \in 1 .. Len(StreamCounts)
    BY <1>3, ConstFacts DEF BeginWalk, RunType
  <2> QED  BY <1>0, <1>3, <2>1, EmptyWalk DEF BeginWalk, Forget, RunType
<1>4. CASE EndRun
  BY <1>0, <1>4 DEF EndRun, RunType
<1>5. ASSUME NEW m \in Readings, RungFails(m) PROVE RunType'
  <2>1. Climbing /\ at \in 1 .. Len(StreamCounts)
    BY <1>5, ClimbedFacts DEF RungFails
  <2>2. pc' = "next" /\ at' = at + 1 /\ DOMAIN cells' = Streams /\ walk' = walk
    BY <1>5, <2>1, RecordFacts DEF RungFails
  <2> QED  BY <1>0, <2>1, <2>2 DEF RunType
<1>6. ASSUME NEW m \in Readings, RungClimbs(m) \/ RungPlateaus(m) PROVE RunType'
  <2>1. Climbed(m) \in Walks /\ at \in 1 .. Len(StreamCounts)
    BY <1>6, ClimbedFacts DEF RungClimbs, RungPlateaus
  <2> QED  BY <1>0, <1>6, <2>1 DEF RungClimbs, RungPlateaus, Climbing, RunType
<1>7. ASSUME NEW m \in Readings, ConfirmRep(m) PROVE RunType'
  BY <1>0, <1>7 DEF ConfirmRep, RunType
<1>8. CASE LadderExhausted \/ RecordPlateau
  <2>1. at \in 1 .. Len(StreamCounts) /\ walk' = walk
    BY <1>8 DEF LadderExhausted, RecordPlateau, RunType
  <2>2. pc' = "next" /\ at' = at + 1 /\ DOMAIN cells' = Streams
    BY <1>8, <2>1, RecordFacts DEF LadderExhausted, RecordPlateau
  <2> QED  BY <1>0, <2>1, <2>2 DEF RunType
<1>9. CASE HostCrash
  BY <1>0, <1>9, EmptyWalk DEF HostCrash, Forget, RunType
<1>10. CASE UNCHANGED vars
  BY <1>10 DEF vars, RunType
<1> QED
  BY <1>1, <1>2, <1>3, <1>4, <1>5, <1>6, <1>7, <1>8, <1>9, <1>10
  DEF Next, RunNext, Measure

LEMMA WalkNext == ASSUME WalkIInv, [Next]_vars PROVE WalkInv'
<1> USE DEF WalkIInv
<1>0. /\ patience' = patience /\ Rungs' = Rungs /\ patience \in Nat
      /\ Rungs \in Nat \ {0} /\ walk \in Walks
  BY RungsKept, RungsFacts, ConstFacts DEF RunType
<1>1. ASSUME pc' \notin {"walk", "confirm"} PROVE WalkInv'
  BY <1>1 DEF WalkInv
<1>2. CASE BeginWalk
  <2>1. pc' = "walk" /\ walk' = <<>> /\ prev'.thr = 0
    BY <1>2 DEF BeginWalk, Forget
  <2>2. OnClimb(walk', Rungs) /\ prev'.thr = LastThr(walk')
    BY <1>0, <2>1, EmptyWalk
  <2> QED  BY <1>0, <2>1, <2>2 DEF WalkInv
<1>3. ASSUME NEW m \in Readings, RungClimbs(m) \/ RungPlateaus(m) PROVE WalkInv'
  <2>1. pc = "walk" /\ OnClimb(walk, Rungs) /\ Climbing /\ walk' = Climbed(m)
    BY <1>3 DEF RungClimbs, RungPlateaus, Climbing, WalkInv
  <2>2. PICK r \in Measured : Climbed(m) = Append(walk, r) /\ r.thr = Thr(m)
    BY <2>1, ClimbedFacts
  <2>3. /\ Climbed(m) \in Walks /\ Climbed(m)[Len(Climbed(m))].thr = Thr(m)
        /\ Len(Climbed(m)) # 0 /\ Thr(m) \in Nat
    BY <2>1, ClimbedFacts, ThrType
  <2>4. Thr(m) > 0
    BY <1>3, <2>3 DEF RungClimbs, RungPlateaus, Decision
  <2>5. Positive(Climbed(m))
    BY <1>0, <2>1, <2>2, <2>4, PrefixKept
  <2>6. Plateaued(Climbed(m)) <=> Flat(Climbed(m), Rungs)
    BY <1>0, <2>3, <2>5, PlateauedIsFlat
  <2>7. CASE RungClimbs(m)
    <3>1. ~Flat(Climbed(m), Rungs)
      BY <2>3, <2>4, <2>6, <2>7 DEF RungClimbs, Decision
    <3>2. OnClimb(Climbed(m), Rungs)
      BY <1>0, <2>1, <2>2, <2>4, <3>1, ClimbGoesOn
    <3>3. pc' = "walk" /\ prev'.thr = Thr(m)
      BY <2>1, <2>7 DEF RungClimbs
    <3> QED  BY <1>0, <2>1, <2>3, <3>2, <3>3 DEF WalkInv, LastThr
  <2>8. CASE RungPlateaus(m)
    <3>1. Flat(Climbed(m), Rungs)
      BY <2>3, <2>4, <2>6, <2>8 DEF RungPlateaus, Decision
    <3>2. Stopped(Climbed(m), Rungs)
      BY <1>0, <2>1, <2>2, <2>4, <3>1, ClimbStops
    <3>3. pc' = "confirm"
      BY <2>8 DEF RungPlateaus
    <3> QED  BY <1>0, <2>1, <3>2, <3>3 DEF WalkInv
  <2> QED  BY <1>3, <2>7, <2>8
<1>4. ASSUME NEW m \in Readings, ConfirmRep(m) PROVE WalkInv'
  BY <1>0, <1>4 DEF ConfirmRep, WalkInv
<1>5. CASE UNCHANGED vars
  BY <1>0, <1>5 DEF vars, WalkInv
<1>6. ASSUME NEW img \in Images, StartRun(img) \/ DeployFails(img) PROVE WalkInv'
  BY <1>1, <1>6 DEF StartRun, DeployFails
<1>7. CASE SkipSaturated \/ EndRun \/ HostCrash
  BY <1>1, <1>7 DEF SkipSaturated, EndRun, HostCrash
<1>8. ASSUME NEW m \in Readings, RungFails(m) PROVE WalkInv'
  BY <1>1, <1>8 DEF RungFails, Record
<1>9. CASE LadderExhausted \/ RecordPlateau
  BY <1>1, <1>9 DEF LadderExhausted, RecordPlateau, Record
<1> QED
  BY <1>2, <1>3, <1>4, <1>5, <1>6, <1>7, <1>8, <1>9 DEF Next, RunNext, Measure

LEMMA CellsNext == ASSUME WalkIInv, [Next]_vars PROVE CellsInv'
<1> USE DEF WalkIInv
<1>0. Rungs' = Rungs /\ patience \in Nat
  BY RungsKept, ConstFacts DEF RunType
<1>1. ASSUME cells' = cells PROVE CellsInv'
  BY <1>0, <1>1 DEF CellsInv
<1>2. ASSUME NEW pods, NEW thr, NEW saturated, NEW status, NEW reason, NEW w \in Walks,
             Record(pods, thr, saturated, status, reason, w),
             at \in 1 .. Len(StreamCounts),
             saturated => Stopped(w, Rungs) /\ pods = w[Len(w) - Rungs].pods
      PROVE  CellsInv'
  <2>1. /\ current \in Streams
        /\ \A s \in Streams : s # current => cells'[s] = cells[s]
        /\ cells'[current].digest = Digest(image) /\ cells'[current].on = image
        /\ cells'[current].walk = w /\ cells'[current].pods = pods
        /\ cells'[current].saturated = saturated
    BY <1>2, RecordFacts
  <2>2. SoundCell(cells'[current], Rungs)
    BY <1>2, <2>1 DEF SoundCell
  <2> QED  BY <1>0, <2>1, <2>2 DEF CellsInv
<1>3. ASSUME NEW m \in Readings, RungFails(m) PROVE CellsInv'
  <2>1. Climbed(m) \in Walks /\ at \in 1 .. Len(StreamCounts)
    BY <1>3, ClimbedFacts DEF RungFails
  <2> QED  BY <1>2, <1>3, <2>1 DEF RungFails
<1>4. CASE LadderExhausted
  <2>1. walk \in Walks /\ at \in 1 .. Len(StreamCounts)
    BY <1>4 DEF LadderExhausted, RunType
  <2> QED  BY <1>2, <1>4, <2>1 DEF LadderExhausted
<1>5. CASE RecordPlateau
  <2>1. walk \in Walks /\ at \in 1 .. Len(StreamCounts) /\ Stopped(walk, Rungs)
    BY <1>5 DEF RecordPlateau, RunType, WalkInv
  <2> QED  BY <1>2, <1>5, <2>1 DEF RecordPlateau, Pin
<1>6. ASSUME NEW img \in Images, StartRun(img) \/ DeployFails(img) PROVE CellsInv'
  BY <1>1, <1>6 DEF StartRun, DeployFails
<1>7. CASE SkipSaturated \/ BeginWalk \/ EndRun \/ HostCrash
  BY <1>1, <1>7 DEF SkipSaturated, BeginWalk, EndRun, HostCrash
<1>8. ASSUME NEW m \in Readings, RungClimbs(m) \/ RungPlateaus(m) \/ ConfirmRep(m)
      PROVE  CellsInv'
  BY <1>1, <1>8 DEF RungClimbs, RungPlateaus, ConfirmRep
<1>9. CASE UNCHANGED vars
  BY <1>1, <1>9 DEF vars
<1> QED
  BY <1>3, <1>4, <1>5, <1>6, <1>7, <1>8, <1>9 DEF Next, RunNext, Measure

LEMMA ImageNext == ASSUME WalkIInv, [Next]_vars PROVE ImageInv'
<1> USE DEF WalkIInv
<1> DEFINE Behind(i) == i < at /\ cells[StreamCounts[i]] # None
<1>0. /\ at \in Nat /\ Len(StreamCounts) \in Nat
      /\ \A i \in 1 .. Len(StreamCounts) : StreamCounts[i] \in Streams
      /\ ImageInv
  BY ConstFacts DEF RunType
<1>1. ASSUME NEW img \in Images, StartRun(img) \/ DeployFails(img) PROVE ImageInv'
  BY <1>0, <1>1 DEF StartRun, DeployFails, ImageInv
<1>2. CASE SkipSaturated
  <2>1. /\ cells[current] # None /\ cells[current].digest = Digest(image)
        /\ current \in Streams
    BY <1>0, <1>2, ConstFacts DEF SkipSaturated, StatusOf, current, RunType
  <2>2. Digest(cells[current].on) = Digest(image)
    BY <2>1 DEF CellsInv, SoundCell
  <2> QED  BY <1>0, <1>2, <2>2 DEF SkipSaturated, ImageInv, current
<1>3. CASE BeginWalk
  BY <1>0, <1>3 DEF BeginWalk, ImageInv
<1>4. CASE EndRun
  BY <1>0, <1>4 DEF EndRun, ImageInv
<1>5. ASSUME pc \in {"walk", "confirm"}, NEW pods, NEW thr, NEW saturated, NEW status,
             NEW reason, NEW w, Record(pods, thr, saturated, status, reason, w)
      PROVE  ImageInv'
  <2>1. at \in 1 .. Len(StreamCounts) /\ RunType
    BY <1>5 DEF RunType
  <2>2. /\ pc' = "next" /\ at' = at + 1 /\ image' = image /\ finished' = finished
        /\ \A s \in Streams : s # current => cells'[s] = cells[s]
        /\ cells'[current].on = image
    BY <1>5, <2>1, RecordFacts
  <2>3. ~finished'
    BY <1>0, <1>5, <2>2 DEF ImageInv
  <2>4. ASSUME NEW i \in 1 .. Len(StreamCounts), i < at + 1,
               cells'[StreamCounts[i]] # None
        PROVE  Digest(cells'[StreamCounts[i]].on) = Digest(image)
    <3>1. CASE StreamCounts[i] = current
      BY <2>2, <3>1
    <3>2. CASE StreamCounts[i] # current
      <4>1. i < at
        BY <1>0, <2>4, <3>2 DEF current
      <4>2. cells'[StreamCounts[i]] = cells[StreamCounts[i]]
        BY <1>0, <2>2, <3>2
      <4> QED  BY <1>0, <1>5, <2>4, <4>1, <4>2 DEF ImageInv
    <3> QED  BY <3>1, <3>2
  <2> QED  BY <1>0, <1>5, <2>2, <2>3, <2>4 DEF ImageInv
<1>6. ASSUME NEW m \in Readings, RungFails(m) PROVE ImageInv'
  BY <1>5, <1>6 DEF RungFails, Climbing
<1>7. CASE LadderExhausted \/ RecordPlateau
  BY <1>5, <1>7 DEF LadderExhausted, RecordPlateau
<1>8. ASSUME NEW m \in Readings, RungClimbs(m) \/ RungPlateaus(m) \/ ConfirmRep(m)
      PROVE  ImageInv'
  BY <1>0, <1>8 DEF RungClimbs, RungPlateaus, ConfirmRep, Climbing, ImageInv
<1>9. CASE HostCrash
  BY <1>0, <1>9 DEF HostCrash, ImageInv
<1>10. CASE UNCHANGED vars
  BY <1>0, <1>10 DEF vars, ImageInv
<1> QED
  BY <1>1, <1>2, <1>3, <1>4, <1>6, <1>7, <1>8, <1>9, <1>10 DEF Next, RunNext, Measure

\* What holds of every walk, every recorded cell and every run that came to its end.
THEOREM WalkInvariant == Spec => []WalkIInv
<1>1. Init => WalkIInv
  BY WalkInit
<1>2. WalkIInv /\ [Next]_vars => WalkIInv'
  BY TypeNext, WalkNext, CellsNext, ImageNext DEF WalkIInv
<1> QED  BY <1>1, <1>2, PTL DEF Spec

-----------------------------------------------------------------------------
(***************************************************************************)
(* Types.  The mean of a confirmation is a fold over a set, defined by     *)
(* recursion over subsets: an argument about a smallest subset stands in   *)
(* for induction, as in PoolAppend_proofs.                                 *)
(***************************************************************************)
\* One unit for each thing f counts in s.
Units(f, s) == UNION {{x} \X (1 .. f[x]) : x \in s}

\* A set of subsets of a finite set has a smallest one.
LEMMA SmallestSubset ==
  ASSUME NEW S, IsFiniteSet(S), NEW T \in SUBSET SUBSET S, T # {}
  PROVE  \E t \in T : \A u \in T : u \subseteq t => u = t
<1>1. IsWellFoundedOn(StrictSubsetOrdering(S), FiniteSubsetsOf(S))
  BY FS_StrictSubsetOrderingWellFounded
<1>2. FiniteSubsetsOf(S) = SUBSET S
  BY FS_FiniteSubsetsOfFinite
<1>3. PICK t \in T : \A u \in T : ~(<<u, t>> \in StrictSubsetOrdering(S))
  BY <1>1, <1>2, WFMin
<1>4. ASSUME NEW u \in T, u \subseteq t PROVE u = t
  BY <1>3, <1>4 DEF StrictSubsetOrdering
<1> QED  BY <1>4

\* The units of one point are as many as f says.
LEMMA UnitsOfOne ==
  ASSUME NEW n \in Nat, NEW x
  PROVE  IsFiniteSet({x} \X (1 .. n)) /\ Cardinality({x} \X (1 .. n)) = n
<1>1. IsFiniteSet(1 .. n) /\ Cardinality(1 .. n) = n
  BY FS_Interval
<1>2. IsFiniteSet({x}) /\ Cardinality({x}) = 1
  BY FS_Singleton
<1>3. /\ IsFiniteSet({x} \X (1 .. n))
      /\ Cardinality({x} \X (1 .. n)) = Cardinality({x}) * Cardinality(1 .. n)
  BY <1>1, <1>2, FS_Product
<1> QED  BY <1>1, <1>2, <1>3

\* Finitely many points have finitely many units.
LEMMA UnitsFinite ==
  ASSUME NEW s, IsFiniteSet(s), NEW f, \A x \in s : f[x] \in Nat
  PROVE  IsFiniteSet(Units(f, s)) /\ Cardinality(Units(f, s)) \in Nat
<1> DEFINE parts == {{x} \X (1 .. f[x]) : x \in s}
           part  == [x \in s |-> {x} \X (1 .. f[x])]
<1>1. part \in Surjection(s, parts)
  BY DEF Surjection
<1>2. IsFiniteSet(parts)
  BY <1>1, FS_Surjection
<1>3. \A p \in parts : IsFiniteSet(p)
  BY UnitsOfOne
<1>4. IsFiniteSet(UNION parts)
  <2> HIDE DEF parts
  <2> QED  BY <1>2, <1>3, FS_UNION
<1> QED  BY <1>4, FS_CardinalityType DEF Units

\* The units of one point and those of the others.
LEMMA UnitsSplit ==
  ASSUME NEW s, IsFiniteSet(s), NEW f, \A x \in s : f[x] \in Nat, NEW x \in s
  PROVE  Cardinality(Units(f, s)) = f[x] + Cardinality(Units(f, s \ {x}))
<1> DEFINE rest == Units(f, s \ {x})
           own  == {x} \X (1 .. f[x])
<1>1. Units(f, s) = rest \cup own
  BY DEF Units
<1>2. rest \cap own = {}
  BY DEF Units
<1>3. IsFiniteSet(s \ {x}) /\ \A y \in s \ {x} : f[y] \in Nat
  BY FS_RemoveElement
<1>4. IsFiniteSet(rest) /\ Cardinality(rest) \in Nat
  BY <1>3, UnitsFinite
<1>5. IsFiniteSet(own) /\ Cardinality(own) = f[x]
  BY UnitsOfOne
<1> HIDE DEF rest, own
<1>6. Cardinality(rest \cup own) = Cardinality(rest) + Cardinality(own) - Cardinality(rest \cap own)
  BY <1>4, <1>5, FS_Union
<1>7. Cardinality(rest \cap own) = 0
  BY <1>2, FS_EmptySet
<1> QED  BY <1>1, <1>4, <1>5, <1>6, <1>7 DEF rest

\* The sum over a finite set is the number of its units: the fold and that number
\* satisfy the same recursion, and no subset is a smallest one where they differ.
LEMMA SumIsUnits ==
  ASSUME NEW S, IsFiniteSet(S), NEW f, \A x \in S : f[x] \in Nat
  PROVE  SumFunctionOnSet(f, S) = Cardinality(Units(f, S))
<1> DEFINE pick(s)   == CHOOSE x \in s : TRUE
           step(g, s) == IF s = {} THEN 0 ELSE f[pick(s)] + g[s \ {pick(s)}]
           good(g)   == g = [s \in SUBSET S |-> step(g, s)]
           size      == [s \in SUBSET S |-> Cardinality(Units(f, s))]
           iter      == CHOOSE g : good(g)
<1>1. SumFunctionOnSet(f, S) = iter[S]
  BY DEF SumFunctionOnSet, FoldFunctionOnSet, MapThenFoldSet
<1>2. ASSUME NEW s \in SUBSET S PROVE size[s] = step(size, s)
  <2>1. CASE s = {}
    <3>1. Units(f, {}) = {}
      BY DEF Units
    <3> QED  BY <2>1, <3>1, FS_EmptySet
  <2>2. CASE s # {}
    <3>1. pick(s) \in s /\ s \ {pick(s)} \in SUBSET S
      BY <2>2
    <3>2. IsFiniteSet(s) /\ \A x \in s : f[x] \in Nat
      BY FS_Subset
    <3> HIDE DEF pick
    <3>3. Cardinality(Units(f, s)) = f[pick(s)] + Cardinality(Units(f, s \ {pick(s)}))
      BY <3>1, <3>2, UnitsSplit
    <3> QED  BY <2>2, <3>1, <3>3
  <2> QED  BY <2>1, <2>2
<1> HIDE DEF step
<1>3. good(size)
  BY <1>2
<1>4. good(iter)
  BY <1>3
<1>5. \A s \in SUBSET S : /\ iter[s] = step(iter, s)
                         /\ size[s] = step(size, s)
  BY <1>2, <1>4
<1>6. ASSUME NEW s \in SUBSET S, s # {}, iter[s \ {pick(s)}] = size[s \ {pick(s)}]
      PROVE  step(iter, s) = step(size, s)
  BY <1>6 DEF step
<1>7. step(iter, {}) = step(size, {})
  BY DEF step
<1>8. \A s \in SUBSET S : s # {} => pick(s) \in s
  OBVIOUS
<1> HIDE DEF pick, good, size, iter
<1>9. \A s \in SUBSET S : iter[s] = size[s]
  <2> DEFINE bad == {s \in SUBSET S : iter[s] # size[s]}
  <2> SUFFICES ASSUME bad # {} PROVE FALSE
    OBVIOUS
  <2>1. bad \in SUBSET SUBSET S
    OBVIOUS
  <2>2. \A s \in SUBSET S : s \in bad <=> iter[s] # size[s]
    OBVIOUS
  <2> HIDE DEF bad
  <2>3. PICK s \in bad : \A u \in bad : u \subseteq s => u = s
    BY <2>1, SmallestSubset
  <2>4. s \in SUBSET S /\ s # {}
    BY <1>5, <1>7, <2>1, <2>2
  <2>5. pick(s) \in s /\ s \ {pick(s)} \in SUBSET S
    BY <1>8, <2>4
  <2>6. s \ {pick(s)} \notin bad
    BY <2>3, <2>5
  <2> QED  BY <1>5, <1>6, <2>2, <2>4, <2>5, <2>6
<1> QED  BY <1>1, <1>9 DEF size

\* A mean of readings is a number.
LEMMA MeanType ==
  ASSUME reps \in Seq(Readings), Seen # {}
  PROVE  MeanSeen \in Nat
<1> DEFINE f == [i \in DOMAIN reps |-> reps[i].ops]
<1>1. /\ Seen \subseteq 1 .. Len(reps) /\ Len(reps) \in Nat
      /\ \A i \in Seen : f[i] \in Nat
  <2>1. \A m \in Readings : m.ops \in Nat
    BY ConstFacts DEF Readings
  <2>2. DOMAIN reps = 1 .. Len(reps) /\ Len(reps) \in Nat
    OBVIOUS
  <2>3. \A i \in DOMAIN reps : reps[i] \in Readings
    OBVIOUS
  <2> QED  BY <2>1, <2>2, <2>3 DEF Seen
<1>2. IsFiniteSet(Seen)
  <2>1. IsFiniteSet(1 .. Len(reps))
    BY <1>1, FS_Interval
  <2> QED  BY <1>1, <2>1, FS_Subset
<1> HIDE DEF f
<1>3. SumFunctionOnSet(f, Seen) \in Nat
  BY <1>1, <1>2, SumIsUnits, UnitsFinite
<1>4. Cardinality(Seen) \in Nat /\ Cardinality(Seen) # 0
  BY <1>2, FS_CardinalityType, FS_EmptySet
<1>5. \A a, b \in Nat : b # 0 => a \div b \in Nat
  OBVIOUS
<1>6. MeanSeen = SumFunctionOnSet(f, Seen) \div Cardinality(Seen)
  BY DEF MeanSeen, f
<1> QED  BY <1>3, <1>4, <1>5, <1>6

\* _record stores a cell.
LEMMA RecordType ==
  ASSUME TypeOK, at \in 1 .. Len(StreamCounts), image \in Images,
         NEW pods \in PodCounts \cup {0, None}, NEW thr \in Nat,
         NEW saturated \in BOOLEAN, NEW status \in {"ok", "error"},
         NEW reason \in {"plateau", "ladder_exhausted", "creation_choke",
                         "misaligned_windows"},
         NEW w \in Walks,
         Record(pods, thr, saturated, status, reason, w),
         patience' = patience, UNCHANGED <<walk, prev, reps>>
  PROVE  TypeOK'
<1> DEFINE c == [digest |-> Digest(image), on |-> image, walk |-> w, pods |-> pods,
                 thr |-> thr, saturated |-> saturated, status |-> status,
                 reason |-> reason]
<1>1. c \in Cell
  BY DigestAssumption DEF Cell, Digest, Digests, Range
<1>2. cells' = [cells EXCEPT ![current] = c]
  BY DEF Record
<1> HIDE DEF c
<1>3. cells' \in [Streams -> Cell \cup {None}]
  BY <1>1, <1>2 DEF TypeOK
<1>4. pc' = "next" /\ at' \in Nat /\ UNCHANGED <<runs, image, finished>>
  BY DEF Record, TypeOK
<1>5. image \notin {None}
  BY WalkAssumption
<1> QED  BY <1>3, <1>4, <1>5 DEF TypeOK

LEMMA TypeStep == ASSUME TypeOK, WalkIInv, [Next]_vars PROVE TypeOK'
<1>0. /\ patience' = patience /\ RunType
      /\ \A img \in Images : img # None
      /\ <<>> \in Walks /\ <<>> \in Seq(Readings)
      /\ [pods |-> 0, thr |-> 0] \in [pods : PodCounts \cup {0}, thr : Nat]
  BY RungsKept, WalkAssumption DEF Walks, WalkIInv
<1>1. ASSUME NEW img \in Images, StartRun(img) \/ DeployFails(img) PROVE TypeOK'
  <2>1. /\ walk' \in Walks /\ reps' \in Seq(Readings)
        /\ prev' \in [pods : PodCounts \cup {0}, thr : Nat]
    BY <1>0, <1>1 DEF StartRun, DeployFails, Forget
  <2>2. /\ pc' \in {"idle", "next"} /\ runs' = runs + 1 /\ image' = img /\ at' = 1
        /\ finished' = FALSE /\ cells' = cells
    BY <1>1 DEF StartRun, DeployFails
  <2>3. runs' \in Nat /\ at' \in Nat /\ image' # None
    BY <1>0, <2>2 DEF TypeOK
  <2> QED  BY <1>0, <2>1, <2>2, <2>3 DEF TypeOK
<1>2. CASE SkipSaturated
  BY <1>0, <1>2 DEF SkipSaturated, TypeOK
<1>3. CASE BeginWalk
  BY <1>0, <1>3 DEF BeginWalk, Forget, TypeOK
<1>4. CASE EndRun
  BY <1>0, <1>4 DEF EndRun, TypeOK
<1>5. ASSUME NEW m \in Readings, RungFails(m) PROVE TypeOK'
  <2>1. Climbing /\ Climbed(m) \in Walks /\ at \in 1 .. Len(StreamCounts)
    BY <1>0, <1>5, ClimbedFacts DEF RungFails
  <2>2. image \in Images
    BY <2>1 DEF Climbing, TypeOK
  <2> QED  BY <1>0, <1>5, <2>1, <2>2, RecordType DEF RungFails
<1>6. ASSUME NEW m \in Readings, RungClimbs(m) \/ RungPlateaus(m) PROVE TypeOK'
  <2>1. Climbing /\ Climbed(m) \in Walks
    BY <1>0, <1>6, ClimbedFacts DEF RungClimbs, RungPlateaus
  <2>2. Ladder[current][Len(walk) + 1] \in PodCounts
    <3>1. current \in Streams
      BY <1>0, <2>1, ConstFacts DEF RunType, Climbing, current
    <3>2. Len(walk) + 1 \in 1 .. Len(Ladder[current])
      BY <2>1, <3>1, LadderFacts, WalkFacts DEF Climbing, TypeOK
    <3> QED  BY <3>1, <3>2, LadderFacts
  <2>3. prev' \in [pods : PodCounts \cup {0}, thr : Nat]
    BY <1>6, <2>2, ThrType DEF RungClimbs, RungPlateaus, TypeOK
  <2>4. /\ pc' \in {"walk", "confirm"} /\ walk' = Climbed(m)
        /\ UNCHANGED <<runs, image, at, reps, cells, finished>> /\ pc = "walk"
    BY <1>6, <2>1 DEF RungClimbs, RungPlateaus, Climbing
  <2> QED  BY <1>0, <2>1, <2>3, <2>4 DEF TypeOK
<1>7. ASSUME NEW m \in Readings, ConfirmRep(m) PROVE TypeOK'
  <2>1. Append(reps, m) \in Seq(Readings)
    BY DEF TypeOK
  <2> QED  BY <1>0, <1>7, <2>1 DEF ConfirmRep, TypeOK
<1>8. CASE LadderExhausted
  <2>1. at \in 1 .. Len(StreamCounts) /\ image \in Images /\ walk \in Walks
    BY <1>0, <1>8 DEF LadderExhausted, RunType, TypeOK
  <2>2. prev.pods \in PodCounts \cup {0, None} /\ prev.thr \in Nat
    BY DEF TypeOK
  <2> QED  BY <1>0, <1>8, <2>1, <2>2, RecordType DEF LadderExhausted
<1>9. CASE RecordPlateau
  <2>1. /\ at \in 1 .. Len(StreamCounts) /\ image \in Images /\ walk \in Walks
        /\ Stopped(walk, Rungs) /\ reps \in Seq(Readings)
    BY <1>0, <1>9 DEF RecordPlateau, RunType, TypeOK, WalkIInv, WalkInv
  <2>2. Rungs \in Nat \ {0} /\ Len(walk) \in Nat
    BY <1>0, <2>1, RungsFacts, WalkFacts, ConstFacts DEF RunType
  <2>3. Len(walk) - Rungs \in 1 .. Len(walk)
    BY <2>1, <2>2 DEF Stopped, Flat
  <2>4. Pin(walk) \in Measured
    <3>1. walk \in Seq(Measured)
      BY <2>1 DEF Walks, Measured
    <3> QED  BY <2>3, <3>1 DEF Pin
  <2>5. Pin(walk).pods \in PodCounts \cup {0, None} /\ Pin(walk).thr \in Nat
    BY <2>4 DEF Measured
  <2>6. ConfirmedThr \in Nat
    BY <2>1, <2>5, MeanType DEF ConfirmedThr
  <2> QED  BY <1>0, <1>9, <2>1, <2>5, <2>6, RecordType DEF RecordPlateau
<1>10. CASE HostCrash
  BY <1>0, <1>10 DEF HostCrash, Forget, TypeOK
<1>11. CASE UNCHANGED vars
  BY <1>11 DEF vars, TypeOK
<1> QED
  BY <1>1, <1>2, <1>3, <1>4, <1>5, <1>6, <1>7, <1>8, <1>9, <1>10, <1>11
  DEF Next, RunNext, Measure

\* The variables keep their types for every suite file, threshold and sequence of
\* readings: what _record stores is always a cell, with a rung of the ladder and a
\* number, the mean of the confirmation included.
THEOREM WalkTypes == Spec => []TypeOK
<1>1. ASSUME Init PROVE TypeOK
  <2>1. walk \in Walks /\ reps \in Seq(Readings)
    BY <1>1 DEF Init, Walks
  <2>2. prev \in [pods : PodCounts \cup {0}, thr : Nat]
    BY <1>1 DEF Init
  <2>3. cells \in [Streams -> Cell \cup {None}]
    BY <1>1 DEF Init
  <2> QED  BY <1>1, <2>1, <2>2, <2>3 DEF Init, TypeOK
<1>2. TypeOK /\ WalkIInv /\ [Next]_vars => TypeOK'
  BY TypeStep
<1> QED  BY <1>1, <1>2, WalkInvariant, PTL DEF Spec

-----------------------------------------------------------------------------
(***************************************************************************)
(* The properties.                                                         *)
(***************************************************************************)
LEMMA SaturatedFacts ==
  ASSUME WalkIInv, NEW s \in Streams, Saturated(s)
  PROVE  /\ cells[s].walk \in Walks /\ Stopped(cells[s].walk, Rungs)
         /\ cells[s].pods = cells[s].walk[Len(cells[s].walk) - Rungs].pods
         /\ Rungs \in Nat \ {0} /\ (Rungs = 1 <=> patience <= 1)
         /\ (patience >= 2 => Rungs >= 2)
<1>1. patience \in Nat
  BY ConstFacts DEF WalkIInv, RunType
<1> QED  BY <1>1, RungsFacts DEF WalkIInv, CellsInv, SoundCell, Saturated, Recorded

\* "The pinned rung is where the climb stopped" (saturation.py 119-121), for every
\* ladder, threshold, patience and sequence of readings: walk_cell records a
\* saturated cell only at the rung the small gains begin behind.
THEOREM PinsWhereClimbStopped == Spec => []PinnedWhereClimbStopped
<1>1. ASSUME WalkIInv PROVE PinnedWhereClimbStopped
  <2> SUFFICES ASSUME NEW s \in Streams, Saturated(s)
      PROVE LET w   == cells[s].walk
                pin == Len(w) - Rungs
            IN  /\ pin >= 1 /\ cells[s].pods = w[pin].pods
                /\ \A i \in pin + 1 .. Len(w) : ~Climbs(w, i)
                /\ \A k \in 1 .. pin - 1 : \E i \in k + 1 .. k + Rungs : Climbs(w, i)
                /\ \A i \in 1 .. Len(w) : w[i].thr > 0
    BY DEF PinnedWhereClimbStopped
  <2> DEFINE w == cells[s].walk
  <2>1. /\ w \in Walks /\ Stopped(w, Rungs) /\ Rungs \in Nat \ {0}
        /\ cells[s].pods = w[Len(w) - Rungs].pods
    BY <1>1, SaturatedFacts
  <2>2. Len(w) \in Nat
    BY <2>1, WalkFacts
  <2> HIDE DEF w
  <2>3. Len(w) - Rungs >= 1 /\ \A i \in Len(w) - Rungs + 1 .. Len(w) : ~Climbs(w, i)
    BY <2>1, <2>2 DEF Stopped, Flat
  <2>4. ASSUME NEW k \in 1 .. (Len(w) - Rungs) - 1
        PROVE  \E i \in k + 1 .. k + Rungs : Climbs(w, i)
    <3>1. k \in 1 .. (Len(w) - 1) - Rungs
      BY <2>1, <2>2, <2>4
    <3> QED  BY <2>1, <3>1 DEF Stopped, StretchClimbs
  <2>5. \A i \in 1 .. Len(w) : w[i].thr > 0
    BY <2>1 DEF Stopped, Positive
  <2> QED  BY <2>1, <2>3, <2>4, <2>5 DEF w
<1> QED  BY <1>1, WalkInvariant, PTL

\* With patience 1 the pinned rung is within the threshold of the best rung of its
\* walk (saturation.py 119-135): for every ladder and every reading, the ceiling the
\* suite reports is not below what the walk itself has seen.
THEOREM PinsNearBest == Spec => []PinNearBest
<1>1. ASSUME WalkIInv PROVE PinNearBest
  <2> SUFFICES ASSUME patience <= 1, PlateauPct >= 0, NEW s \in Streams, Saturated(s),
                      NEW i \in 1 .. Len(cells[s].walk)
      PROVE 100 * cells[s].walk[i].thr
              <= (100 + PlateauPct) * cells[s].walk[Len(cells[s].walk) - 1].thr
    BY DEF PinNearBest
  <2> DEFINE w == cells[s].walk
             n == Len(w)
  <2>1. w \in Walks /\ Stopped(w, 1)
    BY <1>1, SaturatedFacts
  <2> HIDE DEF w
  <2>2. /\ n \in Nat /\ n >= 2 /\ PlateauPct \in Int
        /\ \A j \in 1 .. n : w[j].thr \in Nat
        /\ \A j \in n .. n : 100 * (w[j].thr - w[j - 1].thr) <= PlateauPct * w[j - 1].thr
    <3>1. /\ n \in Nat /\ n >= 1 + 1 /\ PlateauPct \in Int
          /\ \A j \in 1 .. n : w[j].thr \in Nat
          /\ \A j \in n - 1 + 1 .. n :
               100 * (w[j].thr - w[j - 1].thr) <= PlateauPct * w[j - 1].thr
      <4>1. 1 \in Nat \ {0}
        OBVIOUS
      <4> QED  BY <2>1, <4>1, StoppedFacts
    <3> HIDE DEF n
    <3>2. n - 1 + 1 = n
      BY <3>1
    <3> QED  BY <3>1, <3>2
  <2>3. \A j \in 1 .. n - 1 : w[j].thr <= w[n - 1].thr
    BY <2>1 DEF Stopped, Rising
  <2> HIDE DEF n
  <2> DEFINE p == w[n - 1].thr
  <2>4. n - 1 \in 1 .. n /\ n \in 1 .. n /\ n \in n .. n /\ i \in 1 .. n
    BY <2>2 DEF n, w
  <2>5. p \in Nat /\ w[n].thr \in Nat /\ w[i].thr \in Nat
    BY <2>2, <2>4
  <2>6. 100 * (w[n].thr - p) <= PlateauPct * p
    BY <2>2, <2>4
  <2> HIDE DEF p
  <2>7. PlateauPct * p \in Int /\ PlateauPct * p >= 0
    BY <2>2, <2>5, Product
  <2>8. (100 + PlateauPct) * p = 100 * p + PlateauPct * p
    BY <2>2, <2>5
  <2> DEFINE q == w[i].thr
  <2>9. 100 * (q - p) <= PlateauPct * p
    <3>1. CASE i = n
      BY <2>6, <3>1
    <3>2. CASE i # n
      <4>1. i \in 1 .. n - 1
        BY <2>2, <2>4, <3>2
      <4>2. q <= p
        BY <2>3, <4>1 DEF p
      <4> HIDE DEF q
      <4> QED  BY <2>5, <2>7, <4>2 DEF q
    <3> QED  BY <3>1, <3>2
  <2>10. 100 * q <= (100 + PlateauPct) * p
    <3>1. q \in Nat
      BY <2>5
    <3> HIDE DEF q
    <3> QED  BY <2>5, <2>7, <2>8, <2>9, <3>1
  <2> QED  BY <2>10 DEF q, p, n, w
<1> QED  BY <1>1, WalkInvariant, PTL

\* "a single unlucky-low rung (measurement noise) no longer triggers a false plateau"
\* (saturation.py 123-125), for every patience from 2 on: whichever rung of a
\* saturated cell's walk had read higher, a small gain is left.
THEOREM NoNoisyPin == Spec => []OneNoisyRungNeverPins
<1>1. ASSUME WalkIInv PROVE OneNoisyRungNeverPins
  <2> SUFFICES ASSUME patience >= 2, NEW s \in Streams, Saturated(s),
                      NEW i \in 1 .. Len(cells[s].walk), NEW v \in Ops,
                      v >= cells[s].walk[i].thr
      PROVE \E j \in 2 .. Len(cells[s].walk) :
              ~Climbs([cells[s].walk EXCEPT ![i].thr = v], j)
    BY DEF OneNoisyRungNeverPins
  <2>1. /\ cells[s].walk \in Walks /\ Stopped(cells[s].walk, Rungs)
        /\ Rungs \in Nat \ {0} /\ Rungs >= 2
    BY <1>1, SaturatedFacts
  <2>2. v \in Nat
    BY ConstFacts
  <2> QED  BY <2>1, <2>2, OneReadingMore
<1> QED  BY <1>1, WalkInvariant, PTL

\* "patience=1 reproduces the legacy single-shot rule exactly" (saturation.py 123),
\* at every rung of every ladder and for every reading: plateau_pin over the walk and
\* step_decision over prev_thr decide alike.
THEOREM LegacyRuleHolds == Spec => []LegacyRule
<1>1. ASSUME WalkIInv PROVE LegacyRule
  <2> SUFFICES ASSUME pc = "walk", patience <= 1, Len(walk) < Len(Ladder[current]),
                      NEW m \in Readings
               PROVE  Decision(Climbed(m)) = StepDecision(prev.thr, Thr(m))
    BY DEF LegacyRule
  <2> DEFINE W == Climbed(m)
             n == Len(walk)
  <2>1. /\ RunType /\ Climbing /\ OnClimb(walk, Rungs) /\ prev.thr = LastThr(walk)
        /\ patience \in Nat /\ walk \in Walks
    BY <1>1, ConstFacts DEF WalkIInv, WalkInv, RunType, Climbing
  <2>2. Rungs = 1
    BY <2>1, RungsFacts
  <2>3. /\ n \in Nat /\ Len(W) = n + 1 /\ W[Len(W)].thr = Thr(m)
        /\ \A i \in 1 .. n : W[i] = walk[i]
    BY <2>1, ClimbedFacts
  <2> HIDE DEF W, n
  <2>4. Plateaued(W) <=> n >= 1 /\ W[n].thr > 0 /\ SmallGain(W[n].thr, W[n + 1].thr)
    <3>1. Plateaued(W) <=> /\ n + 1 >= 2
                           /\ \A i \in n + 1 .. n + 1 :
                                W[i - 1].thr > 0 /\ SmallGain(W[i - 1].thr, W[i].thr)
      <4>1. (n + 1) - 1 + 1 = n + 1
        BY <2>3
      <4> QED  BY <2>2, <2>3, <4>1 DEF Plateaued
    <3>2. \A i \in n + 1 .. n + 1 : i = n + 1 /\ i - 1 = n
      BY <2>3
    <3>3. n + 1 \in n + 1 .. n + 1 /\ (n + 1 >= 2 <=> n >= 1)
      BY <2>3
    <3> QED  BY <3>1, <3>2, <3>3
  <2>5. CASE n = 0
    <3>1. prev.thr = 0 /\ ~Plateaued(W)
      BY <2>1, <2>4, <2>5 DEF LastThr, n
    <3> QED  BY <2>3, <3>1 DEF Decision, StepDecision, W
  <2>6. CASE n # 0
    <3>1. W[n].thr = prev.thr /\ n >= 1
      BY <2>1, <2>3, <2>6 DEF LastThr, n
    <3>2. W[n + 1].thr = Thr(m)
      BY <2>3
    <3>3. Plateaued(W) <=> prev.thr > 0 /\ SmallGain(prev.thr, Thr(m))
      BY <2>4, <3>1, <3>2
    <3> QED  BY <2>3, <3>3 DEF Decision, StepDecision, W
  <2> QED  BY <2>5, <2>6
<1> QED  BY <1>1, WalkInvariant, PTL

\* A finished run leaves no cell of another digest.
LEMMA FinishedDigest ==
  ASSUME WalkIInv, finished, NEW s \in Streams, Recorded(s)
  PROVE  Digest(cells[s].on) = Digest(image)
<1>1. ImageInv /\ at \in Nat /\ Len(StreamCounts) \in Nat
  BY ConstFacts DEF WalkIInv, RunType
<1>2. PICK i \in 1 .. Len(StreamCounts) : StreamCounts[i] = s
  BY ConstFacts
<1>3. i < at
  BY <1>1, <1>2 DEF ImageInv
<1> QED  BY <1>1, <1>2, <1>3 DEF ImageInv, Recorded

\* "a changed image ... re-runs that cell" (lib-bench.sh 559-560), for every suite and
\* every sequence of deployments, crashes and failed deployments, of the modes whose
\* deployment server_image_digest knows: a run that came to its end leaves no cell
\* measured under another reference than the one it deployed.
THEOREM FinishedMeasured ==
  ASSUME Mode \in KnownModes
  PROVE  Spec => []FinishedRunMeasured
<1>1. WalkIInv => FinishedRunMeasured
  BY FinishedDigest DEF FinishedRunMeasured, Digest
<1> QED  BY <1>1, WalkInvariant, PTL

\* If no reference is ever used for two images, it leaves none of another image: what the
\* digest leaves open is a tag that was pushed again.
THEOREM FinishedOnImage ==
  ASSUME Mode \in KnownModes, ReferencesFixed
  PROVE  Spec => []FinishedRunOnImage
<1>1. TypeOK /\ WalkIInv => FinishedRunOnImage
  <2> SUFFICES ASSUME TypeOK, WalkIInv, finished, NEW s \in Streams, Recorded(s)
               PROVE  cells[s].on = image
    BY DEF FinishedRunOnImage
  <2>1. Reference[cells[s].on] = Reference[image]
    BY FinishedDigest DEF Digest
  <2>2. cells[s] \in Cell
    BY DEF TypeOK, Recorded
  <2>3. image \in Images
    BY DEF WalkIInv, ImageInv
  <2> QED  BY <2>1, <2>2, <2>3 DEF ReferencesFixed, Cell
<1> QED  BY <1>1, WalkInvariant, WalkTypes, PTL
=============================================================================
