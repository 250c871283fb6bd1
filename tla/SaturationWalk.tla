--------------------------- MODULE SaturationWalk ---------------------------
(***************************************************************************)
(* One label of a write-throughput suite over several invocations of       *)
(* `bench run`: run_mode of scripts/bench walks every stream count up its  *)
(* pod ladder (walk_cell of scripts/lib-saturate.sh) until the rules of    *)
(* scripts/saturation.py say the server has plateaued, confirms the pinned *)
(* rung, and records the cell in cells.json (scripts/cells.py), the store  *)
(* from which the next invocation resumes.  The host may die between any   *)
(* two steps; only cells.json survives.                                    *)
(*                                                                         *)
(* What a measurement returns is left open: FleetBarrier models where a    *)
(* misaligned, partial or absent merge comes from.  What the store knows   *)
(* of the server it measured is in ImageDigest.                            *)
(***************************************************************************)
EXTENDS ImageDigest, Integers, Sequences, FiniteSets

CONSTANTS
  StreamCounts, \* the suite's stream_counts, a sequence
  PodLadder,    \* the suite's pod_ladder: stream count -> sequence of pod counts
  PlateauPct,   \* saturation.plateau_pct
  Patiences,    \* saturation.patience: the values a suite file may have
  Repeats,      \* saturation.repeats
  Ops,          \* aggregate_ops_per_sec a merge may hold
  MaxRuns       \* bound: invocations explored

Streams == {StreamCounts[i] : i \in DOMAIN StreamCounts}

ASSUME WalkAssumption ==
  /\ StreamCounts \in Seq(Nat \ {0})
  /\ Streams \subseteq DOMAIN PodLadder
  /\ \A s \in Streams : PodLadder[s] \in Seq(Nat)
  /\ PlateauPct \in Int
  /\ Patiences \subseteq Nat
  /\ Repeats \in Nat
  /\ Ops \subseteq Nat
  /\ MaxRuns \in Nat
  /\ None \notin Nat \cup Images \cup {"plateau", "ladder_exhausted",
                     "creation_choke", "misaligned_windows"}

VARIABLES
  patience, \* saturation.patience of the suite file, read by every invocation
  pc,       \* where run_mode / walk_cell stands
  runs,     \* invocations so far
  image,    \* the server image deployed by the last invocation
  at,       \* index of the stream count being worked on
  walk,     \* walk_cell's local walk: rungs measured so far
  prev,     \* walk_cell's locals prev_pods and prev_thr
  reps,     \* readings of the confirmation so far
  cells,    \* cells.json
  finished  \* history: the last invocation came to its end

vars == <<patience, pc, runs, image, at, walk, prev, reps, cells, finished>>

-----------------------------------------------------------------------------
(***************************************************************************)
(* The rules of saturation.py.                                             *)
(***************************************************************************)

\* cap_ladder: cap each rung at the stream count, and drop zeros and repetitions; a
\* rung is kept if no earlier one has the same cap.
CapLadder(ladder, sc) ==
  LET cap(i) == IF ladder[i] < sc THEN ladder[i] ELSE sc
      kept   == {i \in DOMAIN ladder : cap(i) >= 1 /\ \A j \in 1 .. i - 1 : cap(j) # cap(i)}
      nth(k) == CHOOSE i \in kept : Cardinality({j \in kept : j <= i}) = k
  IN  [k \in 1 .. Cardinality(kept) |-> cap(nth(k))]

\* Mutant: the gain is taken relative to the new reading.
MutantSmallGain(before, cur) == 100 * (cur - before) <= PlateauPct * cur

\* (cur - prev) / prev <= plateau_pct / 100, over the integers.
SmallGain(before, cur) == 100 * (cur - before) <= PlateauPct * before

\* Mutant: patience is ignored.
MutantRungs == 1

Rungs == IF patience < 1 THEN 1 ELSE patience

\* plateau_pin returns a rung: the last Rungs gains are all small.
Plateaued(w) ==
  /\ Len(w) >= Rungs + 1
  /\ \A i \in Len(w) - Rungs + 1 .. Len(w) :
       w[i - 1].thr > 0 /\ SmallGain(w[i - 1].thr, w[i].thr)

\* Mutant: the last but one rung is pinned, whatever the patience.
MutantPin(w) == w[Len(w) - 1]

\* The rung plateau_pin returns: the one before that run of small gains.
Pin(w) == w[Len(w) - Rungs]

\* step_decision, the single-shot rule the walk used before plateau_pin.
StepDecision(before, cur) ==
  IF cur <= 0 THEN "error"
  ELSE IF before > 0 /\ SmallGain(before, cur) THEN "plateau" ELSE "continue"

\* The walk's decision after a rung: error before plateau before continue.
Decision(w) ==
  IF w[Len(w)].thr <= 0 THEN "error"
  ELSE IF Plateaued(w) THEN "plateau" ELSE "continue"

-----------------------------------------------------------------------------
(***************************************************************************)
(* Measurements and cells.                                                 *)
(***************************************************************************)
Readings == [ops : Ops, kind : {"valid", "misaligned", "partial", "absent"}]

\* extract_throughput: only an aligned merge of the whole fleet is a reading.
Thr(m) == IF m.kind = "valid" THEN m.ops ELSE 0

Rung(pods, m) == [pods |-> pods, thr |-> Thr(m)]

Ladder    == [s \in Streams |-> CapLadder(PodLadder[s], s)]
PodCounts == UNION {Range(Ladder[s]) : s \in Streams}
Walks     == Seq([pods : PodCounts, thr : Nat])

\* What cells.record stores; `on` is the image that was really measured.
Cell == [digest : Digests, on : Images, walk : Walks,
         pods : PodCounts \cup {0, None}, thr : Nat, saturated : BOOLEAN,
         status : {"ok", "error"},
         reason : {"plateau", "ladder_exhausted", "creation_choke",
                   "misaligned_windows"}]

\* cells.status_of
StatusOf(s, digest) ==
  IF cells[s] = None \/ cells[s].digest # digest THEN "absent"
  ELSE IF cells[s].status = "error" THEN "error"
  ELSE IF cells[s].saturated THEN "saturated"
  ELSE "resume"

TypeOK ==
  /\ patience \in Patiences
  /\ pc \in {"idle", "next", "walk", "confirm"}
  /\ runs \in Nat
  /\ image \in Images \cup {None}
  /\ pc # "idle" => image # None
  /\ at \in Nat
  /\ walk \in Walks
  /\ prev \in [pods : PodCounts \cup {0}, thr : Nat]
  /\ reps \in Seq(Readings)
  /\ cells \in [Streams -> Cell \cup {None}]
  /\ finished \in BOOLEAN

Init ==
  /\ patience \in Patiences
  /\ pc = "idle" /\ runs = 0 /\ image = None /\ at = 1
  /\ walk = <<>> /\ prev = [pods |-> 0, thr |-> 0] /\ reps = <<>>
  /\ cells = [sc \in Streams |-> None]
  /\ finished = FALSE

-----------------------------------------------------------------------------
(***************************************************************************)
(* run_mode: one label, all stream counts.                                 *)
(***************************************************************************)
current == StreamCounts[at]

Forget == walk' = <<>> /\ prev' = [pods |-> 0, thr |-> 0] /\ reps' = <<>>

\* An operator runs the suite, with a rebuilt server image or the same one.
StartRun(img) ==
  /\ pc = "idle" /\ runs < MaxRuns
  /\ pc' = "next" /\ runs' = runs + 1 /\ image' = img /\ at' = 1
  /\ finished' = FALSE
  /\ Forget
  /\ UNCHANGED cells

\* deploy_mode failed: the variant is skipped, its cells stay as they are.
DeployFails(img) ==
  /\ pc = "idle" /\ runs < MaxRuns
  /\ runs' = runs + 1 /\ image' = img /\ at' = 1 /\ finished' = FALSE
  /\ Forget
  /\ UNCHANGED <<pc, cells>>

SkipSaturated ==
  /\ pc = "next" /\ at <= Len(StreamCounts)
  /\ StatusOf(current, Digest(image)) = "saturated"
  /\ at' = at + 1
  /\ UNCHANGED <<pc, runs, image, walk, prev, reps, cells, finished>>

BeginWalk ==
  /\ pc = "next" /\ at <= Len(StreamCounts)
  /\ StatusOf(current, Digest(image)) # "saturated"
  /\ pc' = "walk"
  /\ Forget
  /\ UNCHANGED <<runs, image, at, cells, finished>>

EndRun ==
  /\ pc = "next" /\ at > Len(StreamCounts)
  /\ pc' = "idle" /\ finished' = TRUE
  /\ UNCHANGED <<runs, image, at, walk, prev, reps, cells>>

\* _record and the return to run_mode's loop.
Record(pods, thr, saturated, status, reason, w) ==
  /\ cells' = [cells EXCEPT ![current] =
       [digest |-> Digest(image), on |-> image, walk |-> w, pods |-> pods,
        thr |-> thr, saturated |-> saturated, status |-> status,
        reason |-> reason]]
  /\ pc' = "next" /\ at' = at + 1
  /\ UNCHANGED <<runs, image, finished>>

-----------------------------------------------------------------------------
(***************************************************************************)
(* walk_cell and _confirm.                                                 *)
(***************************************************************************)
Climbed(m) == Append(walk, Rung(Ladder[current][Len(walk) + 1], m))

Climbing == pc = "walk" /\ Len(walk) < Len(Ladder[current])

\* reset_state and one measurement at the next rung.
RungFails(m) ==
  /\ Climbing
  /\ Decision(Climbed(m)) = "error"
  /\ Record(None, 0, FALSE, "error",
            IF m.kind = "misaligned" THEN "misaligned_windows"
                                     ELSE "creation_choke", Climbed(m))
  /\ UNCHANGED <<walk, prev, reps>>

\* Mutant: prev_pods and prev_thr are not updated.
MutantRungClimbsKeepsPrev(m) ==
  /\ Climbing
  /\ Decision(Climbed(m)) = "continue"
  /\ walk' = Climbed(m)
  /\ UNCHANGED <<pc, runs, image, at, prev, reps, cells, finished>>

RungClimbs(m) ==
  /\ Climbing
  /\ Decision(Climbed(m)) = "continue"
  /\ walk' = Climbed(m)
  /\ prev' = [pods |-> Ladder[current][Len(walk) + 1], thr |-> Thr(m)]
  /\ UNCHANGED <<pc, runs, image, at, reps, cells, finished>>

RungPlateaus(m) ==
  /\ Climbing
  /\ Decision(Climbed(m)) = "plateau"
  /\ walk' = Climbed(m)
  /\ pc' = "confirm"
  /\ UNCHANGED <<runs, image, at, prev, reps, cells, finished>>

\* Mutant: the end of the ladder is missed.
MutantLadderExhausted ==
  /\ pc = "walk" /\ Len(walk) > Len(Ladder[current])
  /\ Record(prev.pods, prev.thr, FALSE, "ok", "ladder_exhausted", walk)
  /\ UNCHANGED <<walk, prev, reps>>

LadderExhausted ==
  /\ pc = "walk" /\ Len(walk) = Len(Ladder[current])
  /\ Record(prev.pods, prev.thr, FALSE, "ok", "ladder_exhausted", walk)
  /\ UNCHANGED <<walk, prev, reps>>

ConfirmRep(m) ==
  /\ pc = "confirm" /\ Len(reps) < Repeats
  /\ reps' = Append(reps, m)
  /\ UNCHANGED <<pc, runs, image, at, walk, prev, cells, finished>>

\* The mean over every rep whose merged.json holds an aggregate_ops_per_sec,
\* rounded down here; the walk's own reading when there is none.
HasOps(m) == m.kind # "absent"

Seen == {i \in DOMAIN reps : HasOps(reps[i])}

MeanSeen ==
  SumFunctionOnSet([i \in DOMAIN reps |-> reps[i].ops], Seen) \div Cardinality(Seen)

\* Mutant: no fallback when no rep left a reading.
MutantConfirmedThr == IF Seen = {} THEN None ELSE MeanSeen

ConfirmedThr == IF Seen = {} THEN Pin(walk).thr ELSE MeanSeen

RecordPlateau ==
  /\ pc = "confirm" /\ Len(reps) = Repeats
  /\ Record(Pin(walk).pods, ConfirmedThr, TRUE, "ok", "plateau", walk)
  /\ UNCHANGED <<walk, prev, reps>>

\* The host process is killed; its locals are gone.
HostCrash ==
  /\ pc # "idle"
  /\ pc' = "idle"
  /\ Forget
  /\ UNCHANGED <<runs, image, at, cells, finished>>

Measure == \E m \in Readings :
  RungFails(m) \/ RungClimbs(m) \/ RungPlateaus(m) \/ ConfirmRep(m)

RunNext ==
  SkipSaturated \/ BeginWalk \/ EndRun \/ Measure \/ LadderExhausted \/ RecordPlateau

Next ==
  /\ \/ \E img \in Images : StartRun(img) \/ DeployFails(img)
     \/ RunNext
     \/ HostCrash
  /\ UNCHANGED patience

Spec == Init /\ [][Next]_vars

\* The script goes on by itself; every call it waits for has a timeout.
FairSpec == Spec /\ WF_vars(RunNext /\ UNCHANGED patience)
-----------------------------------------------------------------------------
(***************************************************************************)
(* Properties.                                                             *)
(***************************************************************************)
Recorded(s) == cells[s] # None
Saturated(s) == Recorded(s) /\ cells[s].saturated

Climbs(w, i) == 100 * (w[i].thr - w[i - 1].thr) > PlateauPct * w[i - 1].thr

\* "The pinned rung is where the climb stopped" (saturation.py 119-121): a
\* saturated cell pins the rung behind which no gain exceeds the threshold, and
\* no earlier stretch of `patience` gains was already flat.
PinnedWhereClimbStopped ==
  \A s \in Streams : Saturated(s) =>
    LET w   == cells[s].walk
        pin == Len(w) - Rungs
    IN  /\ pin >= 1 /\ cells[s].pods = w[pin].pods
        /\ \A i \in pin + 1 .. Len(w) : ~Climbs(w, i)
        /\ \A k \in 1 .. pin - 1 : \E i \in k + 1 .. k + Rungs : Climbs(w, i)
        /\ \A i \in 1 .. Len(w) : w[i].thr > 0

\* "patience=1 reproduces the legacy single-shot rule exactly" (saturation.py
\* 123): with it, the rule over the walk and the one over prev_thr agree on
\* whatever the next rung measures.
LegacyRule ==
  pc = "walk" /\ patience <= 1 /\ Len(walk) < Len(Ladder[current]) =>
    \A m \in Readings : Decision(Climbed(m)) = StepDecision(prev.thr, Thr(m))

\* With patience >= 2 "a single unlucky-low rung (measurement noise) no longer
\* triggers a false plateau" (saturation.py 123-125): no saturated cell has a
\* walk that would climb all the way if one of its rungs had read higher.
OneNoisyRungNeverPins ==
  patience >= 2 =>
    \A s \in Streams : Saturated(s) =>
      LET w == cells[s].walk
      IN  \A i \in 1 .. Len(w), v \in Ops :
            LET fixed == [w EXCEPT ![i].thr = v]
            IN  v >= w[i].thr => \E j \in 2 .. Len(w) : ~Climbs(fixed, j)

\* With patience 1 the pinned rung is within the plateau threshold of the best
\* rung of its walk: the ceiling is not under-reported.
PinNearBest ==
  patience <= 1 /\ PlateauPct >= 0 =>
    \A s \in Streams : Saturated(s) =>
      LET w == cells[s].walk
      IN  \A i \in 1 .. Len(w) :
            100 * w[i].thr <= (100 + PlateauPct) * w[Len(w) - 1].thr

\* "a changed image ... re-runs that cell" (lib-bench.sh 559-560), as far as the digest
\* can tell: after a run every cell was measured under the reference that run deployed.
FinishedRunMeasured ==
  finished => \A s \in Streams :
    Recorded(s) => Reference[cells[s].on] = Reference[image]

\* The cell was measured on the very image, as it is when no reference is used for two
\* images.
FinishedRunOnImage ==
  finished => \A s \in Streams : Recorded(s) => cells[s].on = image

\* A saturated headline lies within what valid readings of this rung showed: a
\* merge with windows_aligned=false "MUST NOT be used as a throughput reading"
\* (dist.rs 115-118) and "no throughput reading exists" for it (saturation.py
\* 72-80).
HeadlineFromValidReadings ==
  [][\A s \in Streams : cells'[s] # cells[s] /\ cells'[s].saturated =>
       LET valid == {Thr(reps[i]) : i \in {j \in DOMAIN reps : reps[j].kind = "valid"}}
                      \cup {Pin(walk).thr}
       IN  \E lo, hi \in valid : lo <= cells'[s].thr /\ cells'[s].thr <= hi]_vars

\* Every invocation comes to its end: an error, a choke or an exhausted ladder
\* never wedges the walk.
RunEnds == pc # "idle" ~> pc = "idle"
=============================================================================
