-------------------------- MODULE LevelSweep_proofs --------------------------
(***************************************************************************)
(* For any stream counts, levels, images and invocations: what a run that  *)
(* came to its end has covered, and that it left no errored level without  *)
(* a new try.                                                              *)
(***************************************************************************)
EXTENDS LevelSweep, TLAPS

-----------------------------------------------------------------------------
(***************************************************************************)
(* Types.                                                                  *)
(***************************************************************************)
SubsOf == UNION {[ls -> Subs] : ls \in SUBSET Levels}

LEMMA ConstFacts ==
  /\ StreamCounts \in Seq(Nat) /\ Len(StreamCounts) \in Nat
  /\ \A i \in 1 .. Len(StreamCounts) : StreamCounts[i] \in Points
  /\ \A s \in Points : \E i \in 1 .. Len(StreamCounts) : StreamCounts[i] = s
  /\ \A list \in LevelLists : list \in Seq(Nat) /\ Len(list) \in Nat
  /\ \A list \in LevelLists : \A j \in 1 .. Len(list) : list[j] \in Levels
  /\ SingleShot => \A list \in LevelLists : Len(list) = 1
  /\ None \notin Cells /\ None \notin Images
  /\ \A img \in Images : Digest(img) \in Digests
<1>1. DOMAIN StreamCounts = 1 .. Len(StreamCounts)
  BY SweepAssumption
<1>2. \A list \in LevelLists : DOMAIN list = 1 .. Len(list) /\ list \in Seq(Nat)
  BY SweepAssumption
<1>3. \A list \in LevelLists : \A j \in 1 .. Len(list) : list[j] \in Levels
  BY <1>2 DEF Levels, Range
<1>4. \A img \in Images : Digest(img) \in Digests
  BY DigestAssumption DEF Digest, Digests, Range
<1> QED  BY <1>1, <1>2, <1>3, <1>4, SweepAssumption DEF Points, Range

LEMMA TypeFacts ==
  ASSUME TypeOK
  PROVE  /\ pc \in {"idle", "cell", "level"} /\ runs \in Nat /\ runs \in 0 .. MaxRuns
         /\ image \in Images \cup {None} /\ levels \in LevelLists \cup {<<>>}
         /\ at \in 1 .. Len(StreamCounts) + 1 /\ at \in Nat
         /\ lv \in 1 .. Len(levels) + 1 /\ lv \in Nat /\ Len(levels) \in Nat
         /\ cells \in [Points -> Cells \cup {None}]
         /\ tried \subseteq Points \X Levels /\ finished \in BOOLEAN
         /\ MaxRuns \in Nat
<1>1. Len(<<>>) = 0
  OBVIOUS
<1>2. Len(levels) \in Nat
  BY <1>1, ConstFacts DEF TypeOK
<1> QED  BY <1>2, ConstFacts, SweepAssumption DEF TypeOK

\* A run has an image and a list of levels.
Running ==
  /\ pc # "idle" \/ finished => image \in Images /\ levels \in LevelLists
  /\ pc # "idle" => ~finished
  /\ pc = "level" => at <= Len(StreamCounts)
  /\ finished => at = Len(StreamCounts) + 1

LEMMA InitType == Init => TypeOK /\ Running
<1> SUFFICES ASSUME Init PROVE TypeOK /\ Running
  OBVIOUS
<1>1. Len(<<>>) = 0
  OBVIOUS
<1>2. cells \in [Points -> Cells \cup {None}]
  BY DEF Init
<1>3. at \in 1 .. Len(StreamCounts) + 1 /\ lv \in 1 .. Len(levels) + 1 /\ runs \in 0 .. MaxRuns
  BY <1>1, ConstFacts, SweepAssumption DEF Init
<1>4. Running
  BY DEF Init, Running
<1> QED  BY <1>2, <1>3, <1>4 DEF Init, TypeOK

\* The cell that a measurement leaves behind.
LEMMA MeasureEffect ==
  ASSUME TypeOK, Running, NEW m \in Readings, MeasureLevel(m)
  PROVE  LET c == cells'[current] IN
         /\ current \in Points /\ level \in Levels /\ image \in Images
         /\ cells' = [cells EXCEPT ![current] = c]
         /\ c \in Cells /\ c.digest = Digest(image)
         /\ c.complete = IF Mine(current) /\ ~SingleShot THEN cells[current].complete
                                                         ELSE SingleShot
         /\ DOMAIN c.sub = (IF Mine(current) /\ ~SingleShot THEN DOMAIN cells[current].sub
                                                            ELSE {}) \cup {level}
         /\ c.sub[level] = Sub(m)
         /\ \A l \in DOMAIN c.sub : l # level => c.sub[l] = cells[current].sub[l]
<1> USE TypeFacts, ConstFacts
<1>1. current \in Points /\ level \in Levels /\ image \in Images
  <2>1. levels \in LevelLists /\ image \in Images /\ at \in 1 .. Len(StreamCounts)
    BY DEF MeasureLevel, Running
  <2>2. lv \in 1 .. Len(levels)
    BY DEF MeasureLevel
  <2> QED  BY <2>1, <2>2 DEF current, level
<1>2. Sub(m) \in Subs
  <2>1. Throughput(m) \in {0, Rate, Latency}
    BY DEF Readings, Throughput
  <2> QED  BY <1>1, <2>1 DEF Sub, Subs
<1> DEFINE o == OpenCell(current)
<1>3. CASE Mine(current) /\ ~SingleShot
  <2>1. o = cells[current] /\ o \in Cells /\ o.digest = Digest(image)
    BY <1>1, <1>3 DEF OpenCell, Mine
  <2> HIDE DEF o
  <2>2. PICK ls \in SUBSET Levels : o.sub \in [ls -> Subs]
    <3>1. o.sub \in UNION {[ls -> Subs] : ls \in SUBSET Levels}
      BY <2>1 DEF Cells
    <3> QED  BY <3>1
  <2> DEFINE new == [k \in DOMAIN o.sub \cup {level} |-> IF k = level THEN Sub(m) ELSE o.sub[k]]
  <2>3. new \in [ls \cup {level} -> Subs]
    BY <1>2, <2>2
  <2>4. ls \cup {level} \in SUBSET Levels
    BY <1>1
  <2>5. new \in SubsOf
    BY <2>3, <2>4 DEF SubsOf
  <2>6. /\ DOMAIN new = DOMAIN o.sub \cup {level} /\ new[level] = Sub(m)
        /\ \A l \in DOMAIN new : l # level => new[l] = o.sub[l]
    OBVIOUS
  <2>7. cells' = [cells EXCEPT ![current] = [o EXCEPT !.sub = new]]
    BY DEF MeasureLevel, With, o
  <2> HIDE DEF new
  <2>8. [o EXCEPT !.sub = new] \in Cells
    BY <2>1, <2>5 DEF Cells, SubsOf
  <2>9. [o EXCEPT !.sub = new].sub = new
    BY <2>1 DEF Cells
  <2>10. [o EXCEPT !.sub = new].digest = Digest(image) /\ [o EXCEPT !.sub = new].complete = o.complete
    BY <2>1 DEF Cells
  <2>11. cells'[current] = [o EXCEPT !.sub = new]
    BY <1>1, <2>7
  <2> QED  BY <1>1, <1>3, <2>1, <2>6, <2>7, <2>8, <2>9, <2>10, <2>11
<1>4. CASE ~(Mine(current) /\ ~SingleShot)
  <2> DEFINE none == [l \in {} |-> None]
             new == [k \in DOMAIN none \cup {level} |-> IF k = level THEN Sub(m) ELSE none[k]]
  <2>1. o = [digest |-> Digest(image), complete |-> SingleShot, sub |-> none]
    BY <1>4 DEF OpenCell
  <2>2. new \in [{level} -> Subs] /\ DOMAIN new = {level} /\ new[level] = Sub(m)
    BY <1>2
  <2>3. {level} \in SUBSET Levels
    BY <1>1
  <2>4. new \in SubsOf
    BY <2>2, <2>3 DEF SubsOf
  <2>5. With(o, level, Sub(m)) = [o EXCEPT !.sub = new]
    <3>1. o.sub = none
      BY <2>1
    <3> HIDE DEF o, none
    <3> QED  BY <3>1 DEF With
  <2>6. [o EXCEPT !.sub = new] = [digest |-> Digest(image), complete |-> SingleShot, sub |-> new]
    <3> HIDE DEF new, none, o
    <3>1. \A x, y, z, w : [[digest |-> x, complete |-> y, sub |-> z] EXCEPT !.sub = w]
                            = [digest |-> x, complete |-> y, sub |-> w]
      OBVIOUS
    <3> QED  BY <2>1, <3>1
  <2>7. cells' = [cells EXCEPT ![current] = [digest |-> Digest(image), complete |-> SingleShot, sub |-> new]]
    BY <2>5, <2>6 DEF MeasureLevel
  <2> HIDE DEF new, none
  <2>8. SingleShot \in BOOLEAN
    BY DEF SingleShot
  <2>9. [digest |-> Digest(image), complete |-> SingleShot, sub |-> new] \in Cells
    BY <1>1, <2>4, <2>8 DEF Cells, SubsOf
  <2>10. cells'[current] = [digest |-> Digest(image), complete |-> SingleShot, sub |-> new]
    BY <1>1, <2>7
  <2>11. \A l \in DOMAIN new : l = level
    BY <2>2
  <2> QED  BY <1>1, <1>4, <2>2, <2>7, <2>9, <2>10, <2>11
<1> QED  BY <1>3, <1>4

LEMMA MarkEffect ==
  ASSUME TypeOK, Running, MarkComplete
  PROVE  /\ current \in Points
         /\ cells' \in [Points -> Cells \cup {None}]
         /\ \A s \in Points : s # current => cells'[s] = cells[s]
         /\ ~Mine(current) => cells'[current] = cells[current]
         /\ Mine(current) =>
              /\ cells'[current] # None
              /\ cells'[current].digest = cells[current].digest
              /\ cells'[current].sub = cells[current].sub
<1> USE TypeFacts, ConstFacts
<1>1. current \in Points
  BY DEF MarkComplete, Running, current
<1>2. CASE ~Mine(current)
  BY <1>1, <1>2 DEF MarkComplete
<1>3. CASE Mine(current)
  <2>1. cells' = [cells EXCEPT ![current] = [@ EXCEPT !.complete = TRUE]]
    BY <1>3 DEF MarkComplete
  <2>2. cells[current] \in Cells
    BY <1>1, <1>3 DEF Mine
  <2>3. /\ [cells[current] EXCEPT !.complete = TRUE] \in Cells
        /\ [cells[current] EXCEPT !.complete = TRUE].digest = cells[current].digest
        /\ [cells[current] EXCEPT !.complete = TRUE].sub = cells[current].sub
    BY <2>2 DEF Cells
  <2> HIDE DEF current
  <2> QED  BY <1>1, <1>3, <2>1, <2>3
<1> QED  BY <1>2, <1>3

LEMMA NextType == TypeOK /\ Running /\ [Next]_vars => TypeOK' /\ Running'
<1> SUFFICES ASSUME TypeOK, Running, [Next]_vars PROVE TypeOK' /\ Running'
  OBVIOUS
<1> USE TypeFacts, ConstFacts
<1>1. ASSUME NEW img \in Images, NEW list \in LevelLists, StartRun(img, list)
      PROVE  TypeOK' /\ Running'
  <2>1. /\ pc' = "cell" /\ runs' = runs + 1 /\ image' = img /\ levels' = list /\ at' = 1
        /\ lv' = 1 /\ tried' = {} /\ finished' = FALSE /\ cells' = cells /\ runs < MaxRuns
    BY <1>1 DEF StartRun
  <2>2. Len(list) \in Nat
    OBVIOUS
  <2>3. runs' \in 0 .. MaxRuns /\ at' \in 1 .. Len(StreamCounts) + 1
    BY <2>1
  <2>4. lv' \in 1 .. Len(levels') + 1
    BY <2>1, <2>2
  <2> QED  BY <2>1, <2>3, <2>4 DEF TypeOK, Running
<1>2. CASE SkipCell
  BY <1>2 DEF SkipCell, TypeOK, Running
<1>3. CASE EnterCell
  BY <1>3 DEF EnterCell, TypeOK, Running
<1>4. CASE SkipLevel
  BY <1>4 DEF SkipLevel, TypeOK, Running
<1>5. ASSUME NEW m \in Readings, MeasureLevel(m) PROVE TypeOK' /\ Running'
  <2>1. /\ UNCHANGED <<pc, runs, image, levels, at, finished>> /\ lv' = lv + 1
        /\ lv <= Len(levels) /\ tried' = tried \cup {<<current, level>>}
    BY <1>5 DEF MeasureLevel
  <2>2. cells' \in [Points -> Cells \cup {None}] /\ <<current, level>> \in Points \X Levels
    BY <1>5, MeasureEffect
  <2> QED  BY <2>1, <2>2 DEF TypeOK, Running
<1>6. CASE MarkComplete
  <2>1. /\ UNCHANGED <<runs, image, levels, tried, finished>>
        /\ pc' = "cell" /\ at' = at + 1 /\ lv' = 1 /\ pc = "level"
    BY <1>6 DEF MarkComplete
  <2>2. cells' \in [Points -> Cells \cup {None}]
    BY <1>6, MarkEffect
  <2> QED  BY <2>1, <2>2 DEF TypeOK, Running
<1>7. CASE EndRun
  BY <1>7 DEF EndRun, TypeOK, Running
<1>8. CASE HostCrash
  BY <1>8 DEF HostCrash, TypeOK, Running
<1>9. CASE UNCHANGED vars
  BY <1>9 DEF vars, TypeOK, Running
<1> QED  BY <1>1, <1>2, <1>3, <1>4, <1>5, <1>6, <1>7, <1>8, <1>9 DEF Next, RunNext

\* Type correctness: what is stored of a level has a throughput, whatever was measured.
THEOREM TypeCorrect == Spec => []TypeOK
  BY InitType, NextType, PTL DEF Spec

-----------------------------------------------------------------------------
(***************************************************************************)
(* What a finished run has covered.  An edited list is none of the store's *)
(* business: a complete cell stays so.                                     *)
(***************************************************************************)
OneList == \A a, b \in LevelLists : a = b

\* A cell's digest is that of what its records were measured on, and a complete cell has
\* one of every level.
OnDigest ==
  \A s \in Points : cells[s] # None =>
    \A l \in DOMAIN cells[s].sub : Digest(cells[s].sub[l].on) = cells[s].digest

CompleteCovers ==
  \A s \in Points : cells[s] # None /\ cells[s].complete => Levels \subseteq DOMAIN cells[s].sub

\* What lies behind the run is covered.
Covers(s, l) == Mine(s) /\ l \in DOMAIN cells[s].sub

BehindCovered ==
  /\ pc # "idle" \/ finished =>
       \A i \in 1 .. at - 1 : \A j \in 1 .. Len(levels) : Covers(StreamCounts[i], levels[j])
  /\ pc = "level" => \A j \in 1 .. lv - 1 : Covers(current, levels[j])

CoverInv == OnDigest /\ CompleteCovers /\ BehindCovered

LEMMA ListFacts ==
  ASSUME levels \in LevelLists
  PROVE  /\ \A l \in Range(levels) : \E j \in 1 .. Len(levels) : levels[j] = l
         /\ OneList => \A l \in Levels : \E j \in 1 .. Len(levels) : levels[j] = l
<1>1. DOMAIN levels = 1 .. Len(levels)
  BY ConstFacts
<1>2. OneList => Levels = Range(levels)
  BY DEF OneList, Levels
<1> QED  BY <1>1, <1>2 DEF Range

LEMMA CoverInit == Init => CoverInv
<1> SUFFICES ASSUME Init PROVE CoverInv
  OBVIOUS
<1>1. \A s \in Points : cells[s] = None
  BY DEF Init
<1> QED  BY <1>1 DEF Init, CoverInv, OnDigest, CompleteCovers, BehindCovered

LEMMA MeasureCovers ==
  ASSUME TypeOK, Running, OneList, CoverInv, NEW m \in Readings, MeasureLevel(m)
  PROVE  CoverInv'
<1> USE TypeFacts, ConstFacts
<1> DEFINE c == cells'[current]
<1>1. /\ current \in Points /\ level \in Levels /\ image \in Images
      /\ cells' = [cells EXCEPT ![current] = c]
      /\ c \in Cells /\ c.digest = Digest(image)
      /\ c.complete = IF Mine(current) /\ ~SingleShot THEN cells[current].complete
                                                      ELSE SingleShot
      /\ DOMAIN c.sub = (IF Mine(current) /\ ~SingleShot THEN DOMAIN cells[current].sub
                                                         ELSE {}) \cup {level}
      /\ c.sub[level] = Sub(m)
      /\ \A l \in DOMAIN c.sub : l # level => c.sub[l] = cells[current].sub[l]
  BY MeasureEffect
<1>2. /\ pc' = pc /\ image' = image /\ levels' = levels /\ at' = at /\ finished' = finished
      /\ pc = "level" /\ lv \in 1 .. Len(levels) /\ lv' = lv + 1 /\ current' = current
      /\ levels \in LevelLists /\ level = levels[lv]
  BY DEF MeasureLevel, Running, current, level
<1>3. \A s \in Points : s # current => cells'[s] = cells[s]
  BY <1>1
<1> HIDE DEF c
<1>4. SingleShot => Len(levels) = 1 /\ lv = 1 /\ \A l \in Levels : l = level
  BY <1>2, ListFacts
<1>5. c # None
  BY <1>1
<1>6. Sub(m).on = image
  BY DEF Sub
<1>7. OnDigest'
  <2>1. \A l \in DOMAIN c.sub : Digest(c.sub[l].on) = c.digest
    BY <1>1, <1>6 DEF CoverInv, OnDigest, Mine
  <2> QED  BY <1>3, <2>1 DEF CoverInv, OnDigest, c
<1>8. CompleteCovers'
  <2>1. c.complete => Levels \subseteq DOMAIN c.sub
    <3>1. CASE Mine(current) /\ ~SingleShot
      BY <1>1, <3>1 DEF CoverInv, CompleteCovers, Mine
    <3>2. CASE ~(Mine(current) /\ ~SingleShot)
      BY <1>1, <1>4, <3>2
    <3> QED  BY <3>1, <3>2
  <2> QED  BY <1>3, <2>1 DEF CoverInv, CompleteCovers, c
<1>9. \A s \in Points, l \in Levels : Covers(s, l) => Covers(s, l)'
  <2> SUFFICES ASSUME NEW s \in Points, NEW l \in Levels, Covers(s, l)
               PROVE  cells'[s] # None /\ cells'[s].digest = Digest(image) /\ l \in DOMAIN cells'[s].sub
    BY <1>2 DEF Covers, Mine
  <2>1. CASE s # current
    BY <1>3, <2>1 DEF Covers, Mine
  <2>2. CASE s = current
    <3>1. l \in DOMAIN c.sub
      BY <1>1, <1>4, <2>2 DEF Covers
    <3> QED  BY <1>1, <1>5, <2>2, <3>1 DEF c
  <2> QED  BY <2>1, <2>2
<1>10. ASSUME NEW l, l = level PROVE Covers(current, l)'
  <2>1. l \in DOMAIN c.sub
    BY <1>1, <1>10
  <2> QED  BY <1>1, <1>2, <1>5, <2>1 DEF Covers, Mine, c
<1>11. BehindCovered'
  <2>1. ASSUME NEW i \in 1 .. at - 1, NEW j \in 1 .. Len(levels)
        PROVE  Covers(StreamCounts[i], levels[j])'
    <3>1. StreamCounts[i] \in Points /\ levels[j] \in Levels
      BY <1>2, <2>1
    <3>2. Covers(StreamCounts[i], levels[j])
      BY <1>2, <2>1 DEF CoverInv, BehindCovered
    <3>3. Covers(StreamCounts[i], levels[j])' <=> \A s, l : s = StreamCounts[i] /\ l = levels[j]
                                                      => Covers(s, l)'
      BY <1>2 DEF Covers, Mine
    <3> QED  BY <1>9, <3>1, <3>2, <3>3
  <2>2. ASSUME NEW j \in 1 .. lv PROVE Covers(current, levels[j])'
    <3>1. levels[j] \in Levels
      BY <1>2, <2>2
    <3>2. \A l : l = levels[j] => (Covers(current, levels[j])' <=> Covers(current, l)')
      BY <1>2 DEF Covers, Mine
    <3>3. CASE j = lv
      BY <1>2, <1>10, <3>2, <3>3
    <3>4. CASE j # lv
      <4>1. Covers(current, levels[j])
        BY <1>2, <2>2, <3>4 DEF CoverInv, BehindCovered
      <4>2. \A s, l : s = current /\ l = levels[j]
                        => (Covers(current, levels[j])' <=> Covers(s, l)')
        BY <1>2 DEF Covers, Mine
      <4> QED  BY <1>1, <1>9, <3>1, <4>1, <4>2
    <3> QED  BY <3>3, <3>4
  <2> QED  BY <1>2, <2>1, <2>2 DEF BehindCovered
<1> QED  BY <1>7, <1>8, <1>11 DEF CoverInv

LEMMA Upto ==
  ASSUME NEW n \in Nat
  PROVE  (n + 1) - 1 = n /\ \A j \in 1 .. n : j \in 1 .. n - 1 \/ j = n
  OBVIOUS

LEMMA CoverNext ==
  TypeOK /\ Running /\ OneList /\ CoverInv /\ [Next]_vars => CoverInv'
<1> SUFFICES ASSUME TypeOK, Running, OneList, CoverInv, [Next]_vars PROVE CoverInv'
  OBVIOUS
<1>0. at \in Nat /\ lv \in Nat /\ Len(levels) \in Nat /\ at <= Len(StreamCounts) + 1
  BY TypeFacts, ConstFacts
<1>1. ASSUME NEW img \in Images, NEW list \in LevelLists, StartRun(img, list) PROVE CoverInv'
  BY <1>1 DEF StartRun, CoverInv, OnDigest, CompleteCovers, BehindCovered
<1>2. CASE SkipCell
  <2>1. /\ pc = "cell" /\ pc' = pc /\ at' = at + 1 /\ at <= Len(StreamCounts)
        /\ UNCHANGED <<image, levels, cells, finished>> /\ StatusOf(current) = "done"
    BY <1>2 DEF SkipCell
  <2>2. levels \in LevelLists /\ current \in Points /\ current = StreamCounts[at]
    BY <1>0, <2>1, ConstFacts, TypeFacts DEF Running, current
  <2>3. Mine(current) /\ cells[current].complete
    BY <2>1 DEF StatusOf
  <2>4. \A l \in Levels : Covers(current, l)
    BY <2>2, <2>3 DEF Covers, Mine, CoverInv, CompleteCovers
  <2>5. \A i \in 1 .. at - 1 : \A j \in 1 .. Len(levels) : Covers(StreamCounts[i], levels[j])
    BY <2>1 DEF CoverInv, BehindCovered
  <2>6. \A j \in 1 .. Len(levels) : Covers(StreamCounts[at], levels[j])
    BY <2>2, <2>4, ConstFacts
  <2>7. \A i \in 1 .. at : \A j \in 1 .. Len(levels) : Covers(StreamCounts[i], levels[j])
    BY <1>0, <2>5, <2>6, Upto
  <2>8. OnDigest' /\ CompleteCovers'
    BY <2>1 DEF CoverInv, OnDigest, CompleteCovers
  <2>9. BehindCovered'
    <3>1. at' - 1 = at
      BY <1>0, <2>1
    <3> QED  BY <2>1, <2>7, <3>1 DEF BehindCovered, Covers, Mine
  <2> QED  BY <2>8, <2>9 DEF CoverInv
<1>3. CASE EnterCell
  <2>1. /\ pc = "cell" /\ pc' = "level" /\ lv' = 1
        /\ UNCHANGED <<image, levels, at, cells, finished>>
    BY <1>3 DEF EnterCell
  <2>2. OnDigest' /\ CompleteCovers'
    BY <2>1 DEF CoverInv, OnDigest, CompleteCovers
  <2>3. BehindCovered'
    BY <2>1 DEF CoverInv, BehindCovered, Covers, Mine
  <2> QED  BY <2>2, <2>3 DEF CoverInv
<1>4. CASE SkipLevel
  <2>1. /\ pc = "level" /\ lv' = lv + 1 /\ lv <= Len(levels) /\ level = levels[lv]
        /\ UNCHANGED <<pc, image, levels, at, cells, finished>> /\ current' = current
        /\ LevelDone(current, level)
    BY <1>4 DEF SkipLevel, current, level
  <2>2. Covers(current, levels[lv])
    BY <2>1 DEF LevelDone, Covers
  <2>3. \A j \in 1 .. lv - 1 : Covers(current, levels[j])
    BY <2>1 DEF CoverInv, BehindCovered
  <2>4. \A j \in 1 .. lv : Covers(current, levels[j])
    BY <1>0, <2>2, <2>3, Upto
  <2>5. OnDigest' /\ CompleteCovers'
    BY <2>1 DEF CoverInv, OnDigest, CompleteCovers
  <2>6. BehindCovered'
    <3>1. lv' - 1 = lv
      BY <1>0, <2>1
    <3> HIDE DEF current
    <3> QED  BY <2>1, <2>4, <3>1 DEF CoverInv, BehindCovered, Covers, Mine
  <2> QED  BY <2>5, <2>6 DEF CoverInv
<1>5. ASSUME NEW m \in Readings, MeasureLevel(m) PROVE CoverInv'
  BY <1>5, MeasureCovers
<1>6. CASE MarkComplete
  <2>1. /\ pc = "level" /\ pc' = "cell" /\ at' = at + 1 /\ lv > Len(levels)
        /\ UNCHANGED <<image, levels, finished>> /\ current = StreamCounts[at]
    BY <1>6 DEF MarkComplete, current
  <2>2. levels \in LevelLists /\ lv = Len(levels) + 1
    BY <1>0, <2>1, TypeFacts DEF Running
  <2>3. /\ current \in Points
        /\ \A s \in Points : s # current => cells'[s] = cells[s]
        /\ ~Mine(current) => cells'[current] = cells[current]
        /\ Mine(current) =>
             /\ cells'[current] # None
             /\ cells'[current].digest = cells[current].digest
             /\ cells'[current].sub = cells[current].sub
    BY <1>6, MarkEffect
  <2>4. \A j \in 1 .. Len(levels) : Covers(current, levels[j])
    <3>1. lv - 1 = Len(levels)
      BY <1>0, <2>2
    <3> QED  BY <2>1, <3>1 DEF CoverInv, BehindCovered
  <2>5. Mine(current) => Levels \subseteq DOMAIN cells[current].sub
    BY <2>2, <2>4, ListFacts DEF Covers
  <2>6. ASSUME NEW s \in Points
        PROVE  \/ cells'[s] = cells[s]
               \/ /\ s = current /\ Mine(s) /\ cells'[s] # None
                  /\ cells'[s].digest = cells[s].digest /\ cells'[s].sub = cells[s].sub
    BY <2>3, <2>6
  <2>7. OnDigest'
    <3> SUFFICES ASSUME NEW s \in Points, cells'[s] # None, NEW l \in DOMAIN cells'[s].sub
                 PROVE  Digest(cells'[s].sub[l].on) = cells'[s].digest
      BY DEF OnDigest
    <3> QED  BY <2>6 DEF CoverInv, OnDigest, Mine
  <2>8. CompleteCovers'
    <3> SUFFICES ASSUME NEW s \in Points, cells'[s] # None, cells'[s].complete
                 PROVE  Levels \subseteq DOMAIN cells'[s].sub
      BY DEF CompleteCovers
    <3> QED  BY <2>5, <2>6 DEF CoverInv, CompleteCovers
  <2>9. \A i \in 1 .. at - 1 : \A j \in 1 .. Len(levels) : Covers(StreamCounts[i], levels[j])
    BY <2>1 DEF CoverInv, BehindCovered
  <2>10. \A i \in 1 .. at : \A j \in 1 .. Len(levels) : Covers(StreamCounts[i], levels[j])
    BY <1>0, <2>1, <2>4, <2>9, Upto
  <2>11. \A i \in 1 .. at : StreamCounts[i] \in Points
    BY <1>0, <2>1, ConstFacts DEF Running
  <2>12. BehindCovered'
    <3>1. at' - 1 = at
      BY <1>0, <2>1
    <3>2. ASSUME NEW i \in 1 .. at, NEW j \in 1 .. Len(levels)
          PROVE  Covers(StreamCounts[i], levels[j])'
      <4>1. Covers(StreamCounts[i], levels[j]) /\ StreamCounts[i] \in Points
        BY <2>10, <2>11
      <4>2. levels' = levels
        BY <2>1
      <4> QED  BY <2>1, <2>6, <4>1, <4>2 DEF Covers, Mine
    <3> QED  BY <2>1, <3>1, <3>2 DEF BehindCovered
  <2> QED  BY <2>7, <2>8, <2>12 DEF CoverInv
<1>7. CASE EndRun \/ HostCrash \/ UNCHANGED vars
  <2>1. /\ UNCHANGED <<image, levels, at, lv, cells>> /\ current' = current
        /\ pc' = "level" => pc = "level"
        /\ pc' # "idle" \/ finished' => pc # "idle" \/ finished
    BY <1>7 DEF EndRun, HostCrash, vars, current
  <2>2. OnDigest' /\ CompleteCovers'
    BY <2>1 DEF CoverInv, OnDigest, CompleteCovers
  <2>3. BehindCovered'
    <3> HIDE DEF current
    <3> QED  BY <2>1 DEF CoverInv, BehindCovered, Covers, Mine
  <2> QED  BY <2>2, <2>3 DEF CoverInv
<1> QED  BY <1>1, <1>2, <1>3, <1>4, <1>5, <1>6, <1>7 DEF Next, RunNext

\* A finished run has a record of every level of every stream count, of its own digest.
LEMMA FinishedDigest ==
  ASSUME TypeOK, Running, OneList, CoverInv, finished, NEW s \in Points, NEW l \in Range(levels)
  PROVE  Mine(s) /\ l \in DOMAIN cells[s].sub /\ cells[s].sub[l] \in Subs
         /\ Digest(cells[s].sub[l].on) = Digest(image) /\ image \in Images
<1>1. levels \in LevelLists /\ at = Len(StreamCounts) + 1 /\ image \in Images
  BY DEF Running
<1>2. PICK i \in 1 .. Len(StreamCounts), j \in 1 .. Len(levels) :
        StreamCounts[i] = s /\ levels[j] = l
  BY <1>1, ConstFacts, ListFacts
<1>3. Covers(s, l)
  BY <1>1, <1>2, ConstFacts DEF CoverInv, BehindCovered
<1>4. cells[s] \in Cells
  BY <1>3 DEF Covers, Mine, TypeOK
<1>5. PICK ls \in SUBSET Levels : cells[s].sub \in [ls -> Subs]
  BY <1>4 DEF Cells
<1> QED  BY <1>1, <1>3, <1>5 DEF Covers, Mine, CoverInv, OnDigest

\* With a suite file that is not edited, and a mode whose deployment the digest knows: a
\* run that came to its end has a record of every level of every stream count, measured
\* under the reference it deployed, however many runs crashed in front of it and whatever
\* images they had.
THEOREM FinishedCovers ==
  ASSUME OneList, Mode \in KnownModes
  PROVE  Spec => []FinishedSweepCovers
<1>1. TypeOK /\ Running /\ CoverInv => FinishedSweepCovers
  BY FinishedDigest DEF FinishedSweepCovers, Digest
<1>2. TypeOK /\ Running /\ CoverInv /\ [Next]_vars => CoverInv'
  BY CoverNext
<1> QED  BY <1>1, <1>2, InitType, NextType, CoverInit, PTL DEF Spec

\* If no reference is ever used for two images, it is the very image: what the digest
\* leaves open is a tag that was pushed again.
THEOREM FinishedOnImage ==
  ASSUME OneList, Mode \in KnownModes, ReferencesFixed
  PROVE  Spec => []FinishedSweepOnImage
<1>1. TypeOK /\ Running /\ CoverInv => FinishedSweepOnImage
  <2> SUFFICES ASSUME TypeOK, Running, CoverInv, finished,
                      NEW s \in Points, NEW l \in Range(levels)
               PROVE  cells[s].sub[l].on = image
    BY DEF FinishedSweepOnImage
  <2>1. /\ Reference[cells[s].sub[l].on] = Reference[image]
        /\ cells[s].sub[l].on \in Images /\ image \in Images
    BY FinishedDigest DEF Digest, Subs
  <2> QED  BY <2>1 DEF ReferencesFixed
<1>2. TypeOK /\ Running /\ CoverInv /\ [Next]_vars => CoverInv'
  BY CoverNext
<1> QED  BY <1>1, <1>2, InitType, NextType, CoverInit, PTL DEF Spec

-----------------------------------------------------------------------------
(***************************************************************************)
(* Errored levels.                                                         *)
(***************************************************************************)

\* An error that is on record was met again.
Met(s, l) ==
  Mine(s) /\ l \in DOMAIN cells[s].sub /\ cells[s].sub[l].status = "error" =>
    <<s, l>> \in tried

RetryInv ==
  /\ pc # "idle" \/ finished =>
       \A i \in 1 .. at - 1 : \A j \in 1 .. Len(levels) : Met(StreamCounts[i], levels[j])
  /\ pc = "level" => \A j \in 1 .. lv - 1 : Met(current, levels[j])

LEMMA RetryInit == Init => RetryInv
  BY DEF Init, RetryInv

LEMMA MeasureMet ==
  ASSUME TypeOK, Running, NEW m \in Readings, MeasureLevel(m), NEW s \in Points, NEW l
  PROVE  /\ Met(s, l) => Met(s, l)'
         /\ s = current /\ l = level => Met(s, l)'
<1> DEFINE c == cells'[current]
<1>1. /\ current \in Points /\ cells' = [cells EXCEPT ![current] = c]
      /\ DOMAIN c.sub = (IF Mine(current) /\ ~SingleShot THEN DOMAIN cells[current].sub
                                                         ELSE {}) \cup {level}
      /\ \A k \in DOMAIN c.sub : k # level => c.sub[k] = cells[current].sub[k]
  BY MeasureEffect
<1> HIDE DEF c
<1>2. image' = image /\ tried' = tried \cup {<<current, level>>}
  BY DEF MeasureLevel
<1>3. CASE s # current
  <2>1. cells'[s] = cells[s]
    BY <1>1, <1>3, TypeFacts
  <2> QED  BY <1>2, <1>3, <2>1 DEF Met, Mine
<1>4. CASE s = current /\ l = level
  BY <1>2, <1>4 DEF Met
<1>5. CASE s = current /\ l # level
  <2>1. l \in DOMAIN c.sub =>
          Mine(current) /\ l \in DOMAIN cells[current].sub /\ c.sub[l] = cells[current].sub[l]
    BY <1>1, <1>5
  <2> QED  BY <1>2, <1>5, <2>1 DEF Met, Mine, c
<1> QED  BY <1>3, <1>4, <1>5

LEMMA RetryNext == TypeOK /\ Running /\ RetryInv /\ [Next]_vars => RetryInv'
<1> SUFFICES ASSUME TypeOK, Running, RetryInv, [Next]_vars PROVE RetryInv'
  OBVIOUS
<1>0. at \in Nat /\ lv \in Nat /\ Len(levels) \in Nat /\ at <= Len(StreamCounts) + 1
  BY TypeFacts, ConstFacts
<1>1. ASSUME NEW img \in Images, NEW list \in LevelLists, StartRun(img, list) PROVE RetryInv'
  BY <1>1 DEF StartRun, RetryInv
<1>2. CASE SkipCell
  <2>1. /\ pc = "cell" /\ pc' = pc /\ at' = at + 1 /\ current = StreamCounts[at]
        /\ UNCHANGED <<image, levels, cells, tried, finished>> /\ StatusOf(current) = "done"
    BY <1>2 DEF SkipCell, current
  <2>2. \A l : Met(StreamCounts[at], l)
    BY <2>1 DEF StatusOf, Met
  <2>3. \A i \in 1 .. at - 1 : \A j \in 1 .. Len(levels) : Met(StreamCounts[i], levels[j])
    BY <2>1 DEF RetryInv
  <2>4. \A i \in 1 .. at : \A j \in 1 .. Len(levels) : Met(StreamCounts[i], levels[j])
    BY <1>0, <2>2, <2>3, Upto
  <2>5. at' - 1 = at
    BY <1>0, <2>1
  <2> QED  BY <2>1, <2>4, <2>5 DEF RetryInv, Met, Mine
<1>3. CASE EnterCell
  <2>1. /\ pc = "cell" /\ pc' = "level" /\ lv' = 1
        /\ UNCHANGED <<image, levels, at, cells, tried, finished>>
    BY <1>3 DEF EnterCell
  <2> QED  BY <2>1 DEF RetryInv, Met, Mine
<1>4. CASE SkipLevel
  <2>1. /\ pc = "level" /\ lv' = lv + 1 /\ level = levels[lv]
        /\ UNCHANGED <<pc, image, levels, at, cells, tried, finished>> /\ current' = current
        /\ LevelDone(current, level)
    BY <1>4 DEF SkipLevel, current, level
  <2>2. Met(current, levels[lv])
    BY <2>1 DEF LevelDone, Met
  <2>3. \A j \in 1 .. lv - 1 : Met(current, levels[j])
    BY <2>1 DEF RetryInv
  <2>4. \A j \in 1 .. lv : Met(current, levels[j])
    BY <1>0, <2>2, <2>3, Upto
  <2>5. lv' - 1 = lv
    BY <1>0, <2>1
  <2> HIDE DEF current
  <2> QED  BY <2>1, <2>4, <2>5 DEF RetryInv, Met, Mine
<1>5. ASSUME NEW m \in Readings, MeasureLevel(m) PROVE RetryInv'
  <2>1. /\ pc = "level" /\ lv' = lv + 1 /\ level = levels[lv] /\ current = StreamCounts[at]
        /\ UNCHANGED <<pc, image, levels, at, finished>> /\ current' = current
    BY <1>5 DEF MeasureLevel, current, level
  <2>2. current \in Points /\ \A i \in 1 .. at - 1 : StreamCounts[i] \in Points
    BY <1>0, <1>5, ConstFacts, MeasureEffect
  <2>3. \A s \in Points : \A l : Met(s, l) => Met(s, l)'
    BY <1>5, MeasureMet
  <2>4. \A s \in Points : \A l : s = current /\ l = level => Met(s, l)'
    BY <1>5, MeasureMet
  <2> DEFINE M(s, l) == cells'[s] # None /\ cells'[s].digest = Digest(image)
                          /\ l \in DOMAIN cells'[s].sub /\ cells'[s].sub[l].status = "error"
                          => <<s, l>> \in tried'
  <2>5. \A s, l : Met(s, l)' <=> M(s, l)
    BY <2>1 DEF Met, Mine
  <2>6. \A i \in 1 .. at - 1 : \A j \in 1 .. Len(levels) : M(StreamCounts[i], levels[j])
    <3> HIDE DEF M
    <3> QED  BY <2>1, <2>2, <2>3, <2>5 DEF RetryInv
  <2>7. \A j \in 1 .. lv - 1 : M(current, levels[j])
    <3> HIDE DEF M, current
    <3> QED  BY <2>1, <2>2, <2>3, <2>5 DEF RetryInv
  <2>8. M(current, levels[lv])
    <3> HIDE DEF M, current
    <3> QED  BY <2>1, <2>2, <2>4, <2>5
  <2>9. \A j \in 1 .. lv : M(current, levels[j])
    <3> HIDE DEF M
    <3> QED  BY <1>0, <2>7, <2>8, Upto
  <2>10. lv' - 1 = lv
    BY <1>0, <2>1
  <2> HIDE DEF current
  <2> QED  BY <2>1, <2>6, <2>9, <2>10 DEF RetryInv, Met, Mine
<1>6. CASE MarkComplete
  <2>1. /\ pc = "level" /\ pc' = "cell" /\ at' = at + 1 /\ lv > Len(levels)
        /\ UNCHANGED <<image, levels, tried, finished>> /\ current = StreamCounts[at]
    BY <1>6 DEF MarkComplete, current
  <2>2. lv - 1 = Len(levels)
    BY <1>0, <2>1, TypeFacts
  <2>3. \A j \in 1 .. Len(levels) : Met(StreamCounts[at], levels[j])
    BY <2>1, <2>2 DEF RetryInv
  <2>4. \A i \in 1 .. at - 1 : \A j \in 1 .. Len(levels) : Met(StreamCounts[i], levels[j])
    BY <2>1 DEF RetryInv
  <2>5. \A i \in 1 .. at : \A j \in 1 .. Len(levels) : Met(StreamCounts[i], levels[j])
    BY <1>0, <2>3, <2>4, Upto
  <2>6. \A i \in 1 .. at : StreamCounts[i] \in Points
    BY <1>0, <2>1, ConstFacts DEF Running
  <2>7. ASSUME NEW s \in Points
        PROVE  \/ cells'[s] = cells[s]
               \/ Mine(s) /\ cells'[s] # None /\ cells'[s].digest = cells[s].digest
                    /\ cells'[s].sub = cells[s].sub
    BY <1>6, <2>7, MarkEffect
  <2>8. at' - 1 = at
    BY <1>0, <2>1
  <2>9. ASSUME NEW i \in 1 .. at, NEW j \in 1 .. Len(levels)
        PROVE  Met(StreamCounts[i], levels[j])'
    <3>1. Met(StreamCounts[i], levels[j]) /\ StreamCounts[i] \in Points
      BY <2>5, <2>6
    <3>2. levels' = levels
      BY <2>1
    <3> QED  BY <2>1, <2>7, <3>1, <3>2 DEF Met, Mine
  <2> QED  BY <2>1, <2>8, <2>9 DEF RetryInv
<1>7. CASE EndRun \/ HostCrash \/ UNCHANGED vars
  <2>1. /\ UNCHANGED <<image, levels, at, lv, cells, tried>> /\ current' = current
        /\ pc' = "level" => pc = "level"
        /\ pc' # "idle" \/ finished' => pc # "idle" \/ finished
    BY <1>7 DEF EndRun, HostCrash, vars, current
  <2> HIDE DEF current
  <2> QED  BY <2>1 DEF RetryInv, Met, Mine
<1> QED  BY <1>1, <1>2, <1>3, <1>4, <1>5, <1>6, <1>7 DEF Next, RunNext

\* status_of strands no errored level, whatever lists the suite file held: a run that came
\* to its end tried each level of its list again that is still an error.
THEOREM NoErrorStranded == Spec => []ErrorsRetried
<1>1. TypeOK /\ Running /\ RetryInv => ErrorsRetried
  <2> SUFFICES ASSUME TypeOK, Running, RetryInv, finished,
                      NEW s \in Points, NEW l \in Range(levels)
               PROVE  Met(s, l)
    BY DEF ErrorsRetried, Met
  <2>1. levels \in LevelLists /\ at = Len(StreamCounts) + 1
    BY DEF Running
  <2>2. PICK i \in 1 .. Len(StreamCounts), j \in 1 .. Len(levels) :
          StreamCounts[i] = s /\ levels[j] = l
    BY <2>1, ConstFacts, ListFacts
  <2> QED  BY <2>1, <2>2, ConstFacts DEF RetryInv
<1> QED  BY <1>1, InitType, NextType, RetryInit, RetryNext, PTL DEF Spec
=============================================================================
