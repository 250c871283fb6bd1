------------------------------ MODULE SuiteRun ------------------------------
(***************************************************************************)
(* Invocations of `scripts/bench <suite> run` and `teardown` on GKE: one   *)
(* subshell per mode brings up the mode's cluster, notes it in the suite's *)
(* state file, deploys the server and works through the cells; the parent  *)
(* waits for all of them, writes the report and decides whether to tear    *)
(* the clusters down.                                                      *)
(*                                                                         *)
(* `bench teardown` is a process of its own: nothing keeps it from running *)
(* beside a run.  The subshells are background jobs: they may outlive the  *)
(* parent, and then work beside those of the next invocation.              *)
(*                                                                         *)
(* The state file .bench-state/<suite>.json is shared by all of them and   *)
(* rewritten without a lock.  A mode's cells are one cell here: the digest *)
(* it was measured under and its status; SaturationWalk has the details.   *)
(***************************************************************************)
EXTENDS FiniteSets, Naturals

CONSTANTS
  Modes,     \* the suite's modes, each with a cluster of its own
  Foreign,   \* modes whose cluster name another suite already has in use
  Images,    \* image references (with the server's arguments), hence digests
  ApiFaults, \* cluster deletions may fail for good
  Beside,    \* a teardown may be started beside a run, and a run beside it
  MaxRuns,   \* bound: invocations explored
  MaxKills,  \* bound: interrupts and host crashes explored
  None       \* no cell, no image

Runs == 1..MaxRuns

\* The subshell of a mode in an invocation.
Jobs == Modes \X Runs

\* Who works through cmd_teardown: the run itself, or `bench teardown`.
Tearers == {"auto", "operator"}

ASSUME SuiteAssumption ==
  /\ IsFiniteSet(Modes)
  /\ Foreign \subseteq Modes
  /\ ApiFaults \in BOOLEAN /\ Beside \in BOOLEAN
  /\ MaxRuns \in Nat /\ MaxKills \in Nat
  /\ None \notin Images
  /\ None \notin [digest : Images, status : {"ok", "error"}]

VARIABLES
  main,     \* where the parent process stands
  sub,      \* where each subshell stands
  seen,     \* what _record_cluster of each subshell has loaded
  image,    \* the image each invocation deploys
  runs,     \* invocations so far
  operator, \* `bench teardown`: one at a time
  todo,     \* clusters each cmd_teardown has still to delete
  cloud,    \* modes whose cluster exists
  ours,     \* history: clusters this suite created
  file,     \* the suite's state file
  cells,    \* the cell of each mode
  report,   \* there is a report.md
  measured, \* history: jobs that deployed and measured
  kills     \* history: times that processes were killed

vars == <<main, sub, seen, image, runs, operator, todo, cloud, ours, file, cells,
          report, measured, kills>>

Recording == {"load", "truncate", "write"}

\* The state file: none, half-written (no JSON text), or a list of clusters.
NoFile     == [form |-> "none", names |-> {}]
Torn       == [form |-> "torn", names |-> {}]
Text(list) == [form |-> "text", names |-> list]

TypeOK ==
  /\ main \in {"idle", "wait", "report", "decide", "auto"}
  /\ sub \in [Jobs -> {"off", "up", "deploy", "walk"} \cup Recording]
  /\ seen \in [Jobs -> SUBSET Modes]
  /\ image \in [Runs -> Images \cup {None}]
  /\ runs \in 0..MaxRuns
  /\ operator \in {"idle", "teardown"}
  /\ todo \in [Tearers -> SUBSET Modes]
  /\ cloud \in SUBSET Modes /\ ours \in SUBSET Modes
  /\ file \in [form : {"none", "torn", "text"}, names : SUBSET Modes]
  /\ cells \in [Modes -> [digest : Images, status : {"ok", "error"}] \cup {None}]
  /\ report \in BOOLEAN /\ kills \in 0..MaxKills
  /\ measured \in SUBSET Jobs

Init ==
  /\ main = "idle" /\ operator = "idle"
  /\ sub = [j \in Jobs |-> "off"]
  /\ seen = [j \in Jobs |-> {}]
  /\ image = [r \in Runs |-> None]
  /\ runs = 0
  /\ todo = [t \in Tearers |-> {}]
  /\ cloud = Foreign /\ ours = {}
  /\ file = NoFile
  /\ cells = [m \in Modes |-> None]
  /\ report = FALSE /\ kills = 0
  /\ measured = {}

Goto(j, place) == sub' = [sub EXCEPT ![j] = place]

\* Variable groups for UNCHANGED.
parent   == <<main, runs, image, report>>
teardown == <<operator, todo>>
histories == <<ours, measured, kills>>

-----------------------------------------------------------------------------
(***************************************************************************)
(* cmd_run and the subshells run_mode.                                     *)
(***************************************************************************)
\* Mutant: the digest of the new invocation is not taken.
MutantInvoke(img) ==
  /\ main = "idle" /\ runs < MaxRuns
  /\ Beside \/ operator = "idle"
  /\ main' = "wait" /\ runs' = runs + 1
  /\ sub' = [j \in Jobs |-> IF j[2] = runs + 1 THEN "up" ELSE sub[j]]
  /\ UNCHANGED <<seen, image, teardown, cloud, file, cells, report, histories>>

\* Subshells that outlived an earlier invocation go on.
Invoke(img) ==
  /\ main = "idle" /\ runs < MaxRuns
  /\ Beside \/ operator = "idle"
  /\ main' = "wait" /\ runs' = runs + 1
  /\ image' = [image EXCEPT ![runs + 1] = img]
  /\ sub' = [j \in Jobs |-> IF j[2] = runs + 1 THEN "up" ELSE sub[j]]
  /\ UNCHANGED <<seen, teardown, cloud, file, cells, report, histories>>

\* cluster-up.sh adopts a cluster of that name or creates one; run_mode does not
\* look at its exit code and goes on when the creation failed.
ClusterUp(j) ==
  /\ sub[j] = "up"
  /\ Goto(j, "load")
  /\ \/ j[1] \notin cloud /\ cloud' = cloud \cup {j[1]} /\ ours' = ours \cup {j[1]}
     \/ UNCHANGED <<cloud, ours>>
  /\ UNCHANGED <<parent, seen, teardown, file, cells, measured, kills>>

\* _record_cluster: json.load, or an empty list when there is no file.
RecordLoads(j) ==
  /\ sub[j] = "load" /\ file # Torn
  /\ seen' = [seen EXCEPT ![j] = file.names]
  /\ Goto(j, "truncate")
  /\ UNCHANGED <<parent, teardown, cloud, file, cells, histories>>

\* json.load raises on half a file; run_mode goes on without a record.
RecordFails(j) ==
  /\ sub[j] = "load" /\ file = Torn
  /\ Goto(j, "deploy")
  /\ UNCHANGED <<parent, seen, teardown, cloud, file, cells, histories>>

\* open(p, 'w') empties the file before json.dump fills it.
RecordTruncates(j) ==
  /\ sub[j] = "truncate"
  /\ file' = Torn
  /\ Goto(j, "write")
  /\ UNCHANGED <<parent, seen, teardown, cloud, cells, histories>>

\* The text goes to the start of the file.  Another mode's longer text, written
\* since this one emptied the file, shows behind it.  A teardown that has removed
\* the file since has taken the text with it.
RecordWrites(j) ==
  /\ sub[j] = "write"
  /\ \/ file # NoFile /\ file' = Text(seen[j] \cup {j[1]})
     \/ file.form = "text" /\ file' = Torn
     \/ (Beside \/ kills > 0) /\ UNCHANGED file
  /\ seen' = [seen EXCEPT ![j] = {}]
  /\ Goto(j, "deploy")
  /\ UNCHANGED <<parent, teardown, cloud, cells, histories>>

\* `deploy_mode || continue`: the variant is skipped; without a cluster it must be.
DeployFails(j) ==
  /\ sub[j] = "deploy"
  /\ Goto(j, "off")
  /\ UNCHANGED <<parent, seen, teardown, cloud, file, cells, histories>>

Deploys(j) ==
  /\ sub[j] = "deploy" /\ j[1] \in cloud
  /\ Goto(j, "walk")
  /\ UNCHANGED <<parent, seen, teardown, cloud, file, cells, histories>>

\* Possibly skipped: a cell that is ok under this digest.  (It is skipped when it
\* is saturated, or done; a ladder_exhausted cell is ok and measured again.)
IsDone(j) ==
  cells[j[1]] # None /\ cells[j[1]].digest = image[j[2]] /\ cells[j[1]].status = "ok"

WorksThroughCells(j) ==
  /\ sub[j] = "walk"
  /\ Goto(j, "off")
  /\ measured' = measured \cup {j}
  /\ \/ IsDone(j) /\ UNCHANGED cells
     \/ \E st \in {"ok", "error"} :
          cells' = [cells EXCEPT ![j[1]] = [digest |-> image[j[2]], status |-> st]]
  /\ UNCHANGED <<parent, seen, teardown, cloud, file, ours, kills>>

SubNext(j) ==
  \/ ClusterUp(j)
  \/ RecordLoads(j) \/ RecordFails(j) \/ RecordTruncates(j) \/ RecordWrites(j)
  \/ DeployFails(j) \/ Deploys(j) \/ WorksThroughCells(j)

-----------------------------------------------------------------------------
(***************************************************************************)
(* The parent: wait, cmd_report, _maybe_teardown.                          *)
(***************************************************************************)
\* Mutant: the parent does not wait.
MutantAllExited ==
  /\ main = "wait"
  /\ main' = "report"
  /\ UNCHANGED <<sub, seen, image, runs, teardown, cloud, file, cells, report, histories>>

AllExited ==
  /\ main = "wait" /\ \A m \in Modes : sub[<<m, runs>>] = "off"
  /\ main' = "report"
  /\ UNCHANGED <<sub, seen, image, runs, teardown, cloud, file, cells, report, histories>>

\* The report is written anew, or the old one (if any) stays.
Reports ==
  /\ main = "report"
  /\ main' = "decide"
  /\ report' \in {TRUE, report}
  /\ UNCHANGED <<sub, seen, image, runs, teardown, cloud, file, cells, histories>>

\* suite_status looks at presence and status, never at the digest.
SuiteStatus ==
  IF \E m \in Modes : cells[m] = None THEN "incomplete"
  ELSE IF \E m \in Modes : cells[m].status = "error" THEN "errors"
  ELSE "complete"

LeaveUp ==
  /\ main = "decide" /\ ~(report /\ SuiteStatus = "complete")
  /\ main' = "idle"
  /\ UNCHANGED <<sub, seen, image, runs, teardown, cloud, file, cells, report, histories>>

\* BENCH_KEEP_CLUSTER=1
KeepCluster ==
  /\ main = "decide"
  /\ main' = "idle"
  /\ UNCHANGED <<sub, seen, image, runs, teardown, cloud, file, cells, report, histories>>

\* cmd_teardown returns at once without a state file.
AutoTeardown ==
  /\ main = "decide" /\ report /\ SuiteStatus = "complete"
  /\ IF file = NoFile THEN main' = "idle" /\ UNCHANGED todo
                      ELSE main' = "auto" /\ todo' = [todo EXCEPT !["auto"] = file.names]
  /\ UNCHANGED <<sub, seen, image, runs, operator, cloud, file, cells, report, histories>>

-----------------------------------------------------------------------------
(***************************************************************************)
(* cmd_teardown, by the run itself or as `bench <suite> teardown`.         *)
(***************************************************************************)
OperatorTeardown ==
  /\ operator = "idle" /\ file # NoFile
  /\ Beside \/ main = "idle"
  /\ operator' = "teardown"
  /\ todo' = [todo EXCEPT !["operator"] = file.names]
  /\ UNCHANGED <<parent, sub, seen, cloud, file, cells, histories>>

Tearing(t) ==
  \/ t = "auto" /\ main = "auto"
  \/ t = "operator" /\ operator = "teardown"

DeleteCluster(t, m) ==
  /\ Tearing(t) /\ m \in todo[t]
  /\ todo' = [todo EXCEPT ![t] = @ \ {m}]
  /\ cloud' = cloud \ {m}
  /\ UNCHANGED <<parent, sub, seen, operator, file, cells, histories>>

\* Thirty deletions failed, or describe failed and read as "gone".
DeleteGivenUp(t, m) ==
  /\ ApiFaults
  /\ Tearing(t) /\ m \in todo[t]
  /\ todo' = [todo EXCEPT ![t] = @ \ {m}]
  /\ UNCHANGED <<parent, sub, seen, operator, cloud, file, cells, histories>>

TeardownEnds(t) ==
  /\ Tearing(t) /\ todo[t] = {}
  /\ file' = NoFile
  /\ IF t = "auto" THEN main' = "idle" /\ UNCHANGED operator
                   ELSE operator' = "idle" /\ UNCHANGED main
  /\ UNCHANGED <<sub, seen, image, runs, todo, cloud, cells, report, histories>>

TeardownNext ==
  \E t \in Tearers :
    \/ \E m \in Modes : DeleteCluster(t, m) \/ DeleteGivenUp(t, m)
    \/ TeardownEnds(t)

-----------------------------------------------------------------------------
\* Any of the processes are killed.  An interrupt ends the parent, and `bench
\* teardown`; the subshells, background jobs of a shell without job control, ignore
\* it and go on.  A host that goes down takes all of them.
KillAny ==
  /\ kills < MaxKills /\ kills' = kills + 1
  /\ \E dead \in SUBSET Jobs :
       /\ sub'  = [j \in Jobs |-> IF j \in dead THEN "off" ELSE sub[j]]
       /\ seen' = [j \in Jobs |-> IF j \in dead THEN {} ELSE seen[j]]
  /\ main' \in {main, "idle"} /\ operator' \in {operator, "idle"}
  /\ todo' = [todo EXCEPT !["auto"] = IF main' = main THEN @ ELSE {},
                          !["operator"] = IF operator' = operator THEN @ ELSE {}]
  /\ UNCHANGED <<image, runs, cloud, ours, file, cells, report, measured>>

Killed == KillAny /\ <<sub', main', operator'>> # <<sub, main, operator>>

Next ==
  \/ \E img \in Images : Invoke(img)
  \/ \E j \in Jobs : SubNext(j)
  \/ AllExited \/ Reports \/ LeaveUp \/ KeepCluster \/ AutoTeardown
  \/ OperatorTeardown \/ TeardownNext
  \/ Killed

Spec == Init /\ [][Next]_vars

-----------------------------------------------------------------------------
(***************************************************************************)
(* Properties.                                                             *)
(***************************************************************************)

\* The state file accounts for every cluster this suite created: _record_cluster
\* is an "idempotent append" (bench:218), teardown works from the file alone.
\* Only while some record is being made may the file say less.
ClusterAccounted ==
  (\A j \in Jobs : sub[j] \notin Recording) =>
    \A m \in Modes : m \in cloud \cap ours => m \in file.names

\* Clusters are torn down automatically "ONLY if the run finished cleanly"
\* (bench:59-61): every mode was deployed and measured by this invocation.
AutoTeardownAfterCleanRun ==
  main = "auto" => \A m \in Modes : <<m, runs>> \in measured

\* teardown deletes "ONLY the clusters this suite created" (bench:8, 123).
OnlyOwnClustersDeleted ==
  [][cloud \ ours \subseteq cloud']_vars

\* "Fail HARD if the create fails: continuing hands every later kubectl a stale
\* kubeconfig" (cluster-up.sh 89-91): no mode goes on to be recorded and deployed
\* without a cluster.
NoModeWithoutCluster ==
  \A j \in Jobs : sub[j] \in Recording \cup {"deploy"} => j[1] \in cloud
=============================================================================
