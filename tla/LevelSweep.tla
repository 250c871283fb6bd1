----------------------------- MODULE LevelSweep -----------------------------
(***************************************************************************)
(* The workloads without a pod ladder, over several invocations of `bench  *)
(* run`.  reads and mixed (lib-reads.sh, lib-mixed.sh) sweep a list of     *)
(* load levels for every stream count, each level a sub-cell of its own in *)
(* the resume store (reads_cells.py, mixed_cells.py), and mark the cell    *)
(* complete behind the last one.  sustained and catchup (lib-sustained.sh, *)
(* lib-catchup.sh) measure a point once; here they have one level.         *)
(*                                                                         *)
(* The host may die between any two steps.  Every save replaces the store  *)
(* in one rename, so the store is whole at every step.  What it knows of   *)
(* the server it measured is in ImageDigest.                               *)
(***************************************************************************)
EXTENDS ImageDigest, Sequences

CONSTANTS
  Workload,    \* "reads", "mixed", "sustained" or "catchup"
  StreamCounts,\* the suite's stream_counts (pre_events of catchup)
  LevelLists,  \* the level lists the suite file may hold, run by run
  Rate,        \* the throughput of a merge that has one
  Latency,     \* the p99 of a merge that has one
  MaxRuns      \* bound: invocations explored

SingleShot == Workload \in {"sustained", "catchup"}
Points == Range(StreamCounts)
Levels == UNION {Range(list) : list \in LevelLists}

\* A merge: thr is 0 when pods are missing or nothing came through, p99 is
\* absent when no request of a configured class came through.
Readings == [thr : {0, Rate}, p99 : {None, Latency}]

\* What record stores of one level; `on` and `saw` are histories.
Subs == [status : {"ok", "error"}, thr : {0, Rate, Latency}, on : Images, saw : Readings]

\* A cell, and what it holds of some levels.
Cells ==
  [digest : Digests, complete : BOOLEAN, sub : UNION {[ls -> Subs] : ls \in SUBSET Levels}]

ASSUME SweepAssumption ==
  /\ Workload \in {"reads", "mixed", "sustained", "catchup"}
  /\ StreamCounts \in Seq(Nat) /\ \A list \in LevelLists : list \in Seq(Nat)
  /\ SingleShot => \A list \in LevelLists : Len(list) = 1
  /\ {Rate, Latency} \subseteq Nat \ {0}
  /\ MaxRuns \in Nat
  /\ None \notin Nat \cup Images \cup Cells

VARIABLES
  pc,       \* where run_mode / run_<workload>_cell stands
  runs,     \* invocations so far
  image,    \* the image deployed by the last invocation
  levels,   \* the level list of the last invocation
  at,       \* index of the stream count being worked on
  lv,       \* index of the level being worked on
  cells,    \* cells.json
  tried,    \* history: what the last invocation measured
  finished  \* history: the last invocation came to its end

vars == <<pc, runs, image, levels, at, lv, cells, tried, finished>>

TypeOK ==
  /\ pc \in {"idle", "cell", "level"}
  /\ runs \in 0 .. MaxRuns
  /\ image \in Images \cup {None} /\ levels \in LevelLists \cup {<<>>}
  /\ at \in 1 .. Len(StreamCounts) + 1 /\ lv \in 1 .. Len(levels) + 1
  /\ cells \in [Points -> Cells \cup {None}]
  /\ tried \subseteq Points \X Levels
  /\ finished \in BOOLEAN

Init ==
  /\ pc = "idle" /\ runs = 0 /\ image = None /\ levels = <<>>
  /\ at = 1 /\ lv = 1
  /\ cells = [s \in Points |-> None]
  /\ tried = {} /\ finished = FALSE

current == StreamCounts[at]
level   == levels[lv]

-----------------------------------------------------------------------------
(***************************************************************************)
(* The resume stores.                                                      *)
(***************************************************************************)
Mine(s) == cells[s] # None /\ cells[s].digest = Digest(image)

\* Mutant: an errored level does not reopen a completed cell.
MutantStatusOf(s) ==
  IF ~Mine(s) \/ ~cells[s].complete THEN "absent" ELSE "done"

\* status_of
StatusOf(s) ==
  IF ~Mine(s) \/ ~cells[s].complete THEN "absent"
  ELSE IF \E l \in DOMAIN cells[s].sub : cells[s].sub[l].status = "error"
       THEN "error"
       ELSE "done"

\* conn_status, level_status; the single-shot stores have none.
LevelDone(s, l) ==
  /\ ~SingleShot
  /\ Mine(s) /\ l \in DOMAIN cells[s].sub /\ cells[s].sub[l].status = "ok"

\* _cell: the digest's own cell, or a fresh one; record of the single-shot stores
\* always writes a fresh one, which has no flag to wait for.
OpenCell(s) ==
  IF Mine(s) /\ ~SingleShot
  THEN cells[s]
  ELSE [digest |-> Digest(image), complete |-> SingleShot, sub |-> [l \in {} |-> None]]

\* A p99 (mixed: traffic of every configured class) makes a level ok.
Usable(m) == m.p99 # None

\* Mutant: a missing p99 is stored as it is.
MutantThroughput(m) == m.p99

\* run_sustained_cell takes the last word measure_sustained prints for the
\* throughput; _run_cell_one prints cpu, throughput, aligned, p50 and p99.
Throughput(m) ==
  IF Workload = "sustained" THEN IF m.p99 = None THEN 0 ELSE m.p99
                            ELSE m.thr

Sub(m) == [status |-> IF Usable(m) THEN "ok" ELSE "error",
           thr |-> Throughput(m), on |-> image, saw |-> m]

\* Mutant: a cell counts as complete with its first level.
MutantWith(cell, l, sub) ==
  [cell EXCEPT !.complete = TRUE,
               !.sub = [k \in DOMAIN cell.sub \cup {l} |->
                          IF k = l THEN sub ELSE cell.sub[k]]]

With(cell, l, sub) ==
  [cell EXCEPT !.sub = [k \in DOMAIN cell.sub \cup {l} |->
                          IF k = l THEN sub ELSE cell.sub[k]]]

-----------------------------------------------------------------------------
(***************************************************************************)
(* run_mode and run_<workload>_cell.                                       *)
(***************************************************************************)
\* The operator runs the suite: the image may be another one, the file edited.
StartRun(img, list) ==
  /\ pc = "idle" /\ runs < MaxRuns
  /\ pc' = "cell" /\ runs' = runs + 1 /\ image' = img /\ levels' = list
  /\ at' = 1 /\ lv' = 1 /\ tried' = {} /\ finished' = FALSE
  /\ UNCHANGED cells

SkipCell ==
  /\ pc = "cell" /\ at <= Len(StreamCounts) /\ StatusOf(current) = "done"
  /\ at' = at + 1
  /\ UNCHANGED <<pc, runs, image, levels, lv, cells, tried, finished>>

EnterCell ==
  /\ pc = "cell" /\ at <= Len(StreamCounts) /\ StatusOf(current) # "done"
  /\ pc' = "level" /\ lv' = 1
  /\ UNCHANGED <<runs, image, levels, at, cells, tried, finished>>

SkipLevel ==
  /\ pc = "level" /\ lv <= Len(levels) /\ LevelDone(current, level)
  /\ lv' = lv + 1
  /\ UNCHANGED <<pc, runs, image, levels, at, cells, tried, finished>>

\* reset_state, the measurement and record.
MeasureLevel(m) ==
  /\ pc = "level" /\ lv <= Len(levels) /\ ~LevelDone(current, level)
  /\ cells' = [cells EXCEPT ![current] = With(OpenCell(current), level, Sub(m))]
  /\ tried' = tried \cup {<<current, level>>}
  /\ lv' = lv + 1
  /\ UNCHANGED <<pc, runs, image, levels, at, finished>>

\* mark_complete touches only a cell of this digest.
MarkComplete ==
  /\ pc = "level" /\ lv > Len(levels)
  /\ cells' = IF Mine(current) THEN [cells EXCEPT ![current].complete = TRUE]
                               ELSE cells
  /\ pc' = "cell" /\ at' = at + 1 /\ lv' = 1
  /\ UNCHANGED <<runs, image, levels, tried, finished>>

EndRun ==
  /\ pc = "cell" /\ at > Len(StreamCounts)
  /\ pc' = "idle" /\ finished' = TRUE
  /\ UNCHANGED <<runs, image, levels, at, lv, cells, tried>>

\* The host process is killed.
HostCrash ==
  /\ pc # "idle"
  /\ pc' = "idle"
  /\ UNCHANGED <<runs, image, levels, at, lv, cells, tried, finished>>

RunNext ==
  \/ SkipCell \/ EnterCell \/ SkipLevel \/ MarkComplete \/ EndRun
  \/ \E m \in Readings : MeasureLevel(m)

Next ==
  \/ \E img \in Images, list \in LevelLists : StartRun(img, list)
  \/ RunNext
  \/ HostCrash

Spec == Init /\ [][Next]_vars

-----------------------------------------------------------------------------
(***************************************************************************)
(* Properties.                                                             *)
(***************************************************************************)

\* "the cell is `complete` once every level is done" (lib-reads.sh 5) and "a digest
\* change invalidates the whole cell" (mixed_cells.py 35): after a run that came to its
\* end, every level of every stream count has a record, whichever run made it, that
\* was measured under the reference that run deployed.
FinishedSweepCovers ==
  finished => \A s \in Points, l \in Range(levels) :
    /\ Mine(s) /\ l \in DOMAIN cells[s].sub
    /\ Reference[cells[s].sub[l].on] = Reference[image]

\* "new server image -> re-measure" (mixed_cells.py 35): the record was measured on the
\* very image, as it is when no reference is used for two images.
FinishedSweepOnImage ==
  finished => \A s \in Points, l \in Range(levels) : cells[s].sub[l].on = image

\* A completed cell that left an errored level "must NOT be treated as done"
\* (reads_cells.py 69-73): a run that came to its end measured each level that is
\* still an error again, and strands none.
ErrorsRetried ==
  finished => \A s \in Points, l \in Range(levels) :
    Mine(s) /\ l \in DOMAIN cells[s].sub /\ cells[s].sub[l].status = "error" =>
      <<s, l>> \in tried

\* A cell that is ok has the throughput of its merge: a merge of fewer pods gets
\* "thr=0 and the rung records as an error rather than a deflated number"
\* (lib-bench.sh 434-436).
OkHasItsThroughput ==
  \A s \in Points : cells[s] # None =>
    \A l \in DOMAIN cells[s].sub :
      LET sub == cells[s].sub[l]
      IN  sub.status = "ok" => sub.thr = sub.saw.thr /\ sub.thr > 0

=============================================================================
