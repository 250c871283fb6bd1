---------------------------- MODULE FleetBarrier ----------------------------
(***************************************************************************)
(* One measurement (RUN_ID) of a fleet of client pods, repeated over       *)
(* several passes: the first measurement of a rung, its confirmation, a    *)
(* later server configuration with the same RUN_ID, or the re-run after    *)
(* the host died.  Three parties share an object store (MinIO):            *)
(*   - the leader, scripts/lib-bench.sh on the host;                       *)
(*   - in each pod the client, ds-bench/src/barrier.rs and multi_stream.rs;*)
(*   - in each pod the relay, the shell loop of gke/bench-job.yaml.        *)
(* The store's prefix outlives a pass, and RUN_ID is the same for every    *)
(* pass, so whatever one pass leaves there the next one can find.          *)
(*                                                                         *)
(* Time is a counter; warmup and settle are constant offsets and are left  *)
(* out, so a measure window starts when its pod leaves the barrier.        *)
(***************************************************************************)
EXTENDS Integers, FiniteSets

CONSTANTS
  Pods,        \* the fleet: JOB_COMPLETION_INDEX 0 .. PARALLELISM-1
  UseBarrier,  \* BARRIER_DIR is set (the write workload) or not (the others)
  ApiFaults,   \* calls to the Kubernetes API may fail
  Headroom,    \* BARRIER_GO_HEADROOM_SECS
  Window,      \* length of one pod's measure window
  MaxPass,     \* bound: passes explored
  MaxNow,      \* bound: the clock stops here
  None         \* no object

ASSUME FleetAssumption ==
  /\ IsFiniteSet(Pods) /\ Pods # {}
  /\ UseBarrier \in BOOLEAN
  /\ ApiFaults \in BOOLEAN
  /\ Headroom \in Nat
  /\ Window \in Nat \ {0}
  /\ MaxPass \in Nat
  /\ MaxNow \in Nat
  /\ None \notin [time : Nat, pass : Nat]
  /\ None \notin [start : Nat, pass : Nat]

VARIABLES
  now,       \* the clock
  leader,    \* where run_fleet_and_coordinator stands
  pass,      \* the pass the leader is in, or was in last
  jobPass,   \* the pass that created the pods of the Job
  pod,       \* the client process of each pod
  relay,     \* the relay process of each pod
  localGo,   \* the file $BARRIER_DIR/go of each pod
  begin,     \* start of each pod's measure window
  ready,     \* store: barrier/ready-<index>
  go,        \* store: barrier/go
  results,   \* store: the pods' result files
  merged,    \* merged.json: the result files the coordinator merged last
  verdict,   \* what saturation.py makes of merged.json
  arrived,   \* history: pods of this Job that wrote their ready file
  forced,    \* history: this pass was released by timeout
  gaveUp,    \* history: pods of this Job that went on without a go time
  fault      \* history: something failed or came late in this pass

leaderVars == <<leader, pass, merged, verdict>>
podVars    == <<jobPass, pod, relay, localGo, begin>>
storeVars  == <<ready, go, results>>
history    == <<arrived, forced, gaveUp>>
vars == <<now, leaderVars, podVars, storeVars, history, fault>>

Running == {"setup", "waiting", "measuring"}

GoFile(t, k) == [time |-> t, pass |-> k]
Result(s, k) == [start |-> s, pass |-> k]
NoFiles == [p \in Pods |-> None]

TypeOK ==
  /\ now \in Nat
  /\ leader \in {"idle", "reset", "apply", "await", "running", "merge"}
  /\ pass \in Nat
  /\ jobPass \in Nat
  /\ pod \in [Pods -> {"off", "setup", "waiting", "measuring", "done", "dead"}]
  /\ relay \in [Pods -> {"idle", "polling", "delivered"}]
  /\ localGo \in [Pods -> [time : Nat, pass : Nat] \cup {None}]
  /\ begin \in [Pods -> Nat]
  /\ ready \in SUBSET Pods
  /\ go \in [time : Nat, pass : Nat] \cup {None}
  /\ results \in [Pods -> [start : Nat, pass : Nat] \cup {None}]
  /\ merged \in [Pods -> [start : Nat, pass : Nat] \cup {None}]
  /\ verdict \in {"none", "accepted", "rejected"}
  /\ arrived \in SUBSET Pods
  /\ forced \in BOOLEAN
  /\ gaveUp \in SUBSET Pods
  /\ fault \in BOOLEAN

Init ==
  /\ now = 0
  /\ leader = "idle"
  /\ pass = 0
  /\ jobPass = 0
  /\ pod = [p \in Pods |-> "off"]
  /\ relay = [p \in Pods |-> "idle"]
  /\ localGo = NoFiles
  /\ begin = [p \in Pods |-> 0]
  /\ ready = {}
  /\ go = None
  /\ results = NoFiles
  /\ merged = NoFiles
  /\ verdict = "none"
  /\ arrived = {}
  /\ forced = FALSE
  /\ gaveUp = {}
  /\ fault = FALSE

-----------------------------------------------------------------------------
(***************************************************************************)
(* The merge and its reading.                                              *)
(***************************************************************************)
Reported(files) == {p \in Pods : files[p] # None}

\* span <= WINDOW_ALIGN_FACTOR * window: every pod's window is Window long,
\* so the span is Window plus the largest distance of two starts.  Only the
\* workload that uses the barrier stamps its windows; without stamps the merge
\* has no verdict and saturation.py reads that as aligned.
WindowsAligned(files) ==
  UseBarrier =>
    \A p, q \in Reported(files) :
      4 * (files[p].start - files[q].start + Window) <= 5 * Window

\* extract_throughput is positive: some result, aligned, no pod missing.
Accepts(files) ==
  /\ Reported(files) # {}
  /\ WindowsAligned(files)
  /\ Cardinality(Reported(files)) >= Cardinality(Pods)

-----------------------------------------------------------------------------
(***************************************************************************)
(* The leader.                                                             *)
(***************************************************************************)

\* clean_jobs.  A delete that succeeds waits for the pods to be gone.  When
\* the API is unreachable the delete fails, both listings come back empty,
\* and the loop leaves at once with the old pods alive.
JobDeleted ==
  /\ pod' = [p \in Pods |-> "off"]
  /\ relay' = [p \in Pods |-> "idle"]
  /\ localGo' = NoFiles
  /\ begin' = [p \in Pods |-> 0]
  /\ arrived' = {}
  /\ forced' = FALSE
  /\ gaveUp' = {}
  /\ fault' = FALSE

JobSurvives ==
  /\ ApiFaults
  /\ fault' = TRUE
  /\ UNCHANGED <<pod, relay, localGo, begin, history>>

CleanJobs ==
  /\ leader = "idle" /\ pass < MaxPass
  /\ pass' = pass + 1
  /\ verdict' = "none"
  /\ leader' = "reset"
  /\ JobDeleted \/ JobSurvives
  /\ UNCHANGED <<now, jobPass, merged, storeVars>>

\* Mutant: the result files of the earlier pass stay.
MutantKeepsResults ==
  /\ ready' = {} /\ go' = None
  /\ UNCHANGED <<results, fault>>

\* Mutant: the go file of the earlier pass stays.
MutantKeepsGo ==
  /\ ready' = {} /\ results' = NoFiles
  /\ UNCHANGED <<go, fault>>

\* _barrier_reset, called only with BARRIER_DIR set; its failure is ignored.
PrefixRemoved ==
  /\ ready' = {} /\ go' = None /\ results' = NoFiles
  /\ UNCHANGED fault

BarrierReset ==
  /\ leader = "reset"
  /\ leader' = "apply"
  /\ IF UseBarrier
       THEN \/ PrefixRemoved
            \/ ApiFaults /\ fault' = TRUE /\ UNCHANGED storeVars
       ELSE UNCHANGED <<storeVars, fault>>
  /\ UNCHANGED <<now, pass, merged, verdict, podVars, history>>

JobExists == \E p \in Pods : pod[p] # "off"

AfterApply == IF UseBarrier THEN "await" ELSE "running"

\* kubectl apply: a new Job starts the whole fleet.
ApplyCreates ==
  /\ leader = "apply" /\ ~JobExists
  /\ pod' = [p \in Pods |-> "setup"]
  /\ jobPass' = pass
  /\ leader' = AfterApply
  /\ UNCHANGED <<now, pass, merged, verdict, relay, localGo, begin, storeVars,
                 history, fault>>

\* A Job of the same manifest survived clean_jobs: apply reports "unchanged",
\* succeeds, and starts no pod.
ApplyUnchanged ==
  /\ leader = "apply" /\ JobExists
  /\ leader' = AfterApply
  /\ UNCHANGED <<now, pass, merged, verdict, podVars, storeVars, history, fault>>

\* Five failed attempts: the barrier wait is skipped.
ApplyFails ==
  /\ ApiFaults
  /\ leader = "apply"
  /\ leader' = "running"
  /\ fault' = TRUE
  /\ UNCHANGED <<now, pass, merged, verdict, podVars, storeVars, history>>

\* Mutant: the fleet is released one pod early.
MutantAllReady == Cardinality(ready) + 1 >= Cardinality(Pods)

AllReady == Cardinality(ready) >= Cardinality(Pods)

\* _barrier_release_fleet: the ready markers are counted, whoever wrote them.
ReleaseFleet ==
  /\ leader = "await" /\ AllReady
  /\ leader' = "running"
  /\ \/ go' = GoFile(now + Headroom, pass) /\ UNCHANGED fault
     \/ ApiFaults /\ fault' = TRUE /\ UNCHANGED go
  /\ UNCHANGED <<now, pass, merged, verdict, podVars, ready, results, history>>

\* Mutant: a fleet of which no pod got ready is waited for.
MutantReleaseOnTimeout ==
  /\ leader = "await" /\ ~AllReady /\ ready # {}
  /\ leader' = "running"
  /\ forced' = TRUE /\ fault' = TRUE
  /\ \/ go' = GoFile(now + Headroom, pass)
     \/ ApiFaults /\ UNCHANGED go
  /\ UNCHANGED <<now, pass, merged, verdict, podVars, ready, results, arrived,
                 gaveUp>>

\* BARRIER_SETUP_TIMEOUT_SECS ran out: release whoever is there.
ReleaseOnTimeout ==
  /\ leader = "await" /\ ~AllReady
  /\ leader' = "running"
  /\ forced' = TRUE
  /\ fault' = TRUE
  /\ \/ go' = GoFile(now + Headroom, pass)
     \/ ApiFaults /\ UNCHANGED go
  /\ UNCHANGED <<now, pass, merged, verdict, podVars, ready, results, arrived,
                 gaveUp>>

\* Mutant: one completed pod completes the Job.
MutantFleetDone == \E p \in Pods : pod[p] = "done"

FleetDone == \A p \in Pods : pod[p] = "done"

FleetCompletes ==
  /\ leader = "running" /\ FleetDone
  /\ leader' = "merge"
  /\ UNCHANGED <<now, pass, merged, verdict, podVars, storeVars, history, fault>>

\* FLEET_TIMEOUT ran out; the coordinator merges what is in the store.
FleetTimesOut ==
  /\ leader = "running" /\ ~FleetDone
  /\ leader' = "merge"
  /\ fault' = TRUE
  /\ UNCHANGED <<now, pass, merged, verdict, podVars, storeVars, history>>

\* The coordinator Job, fetch_coordinator_merged and saturation.py.
Merge ==
  /\ leader = "merge"
  /\ leader' = "idle"
  /\ merged' = results
  /\ verdict' = IF Accepts(results) THEN "accepted" ELSE "rejected"
  /\ UNCHANGED <<now, pass, podVars, storeVars, history, fault>>

\* No coordinator log could be fetched: an error marker, read as throughput 0.
MergeUnavailable ==
  /\ leader = "merge"
  /\ leader' = "idle"
  /\ merged' = NoFiles
  /\ verdict' = "rejected"
  /\ fault' = TRUE
  /\ UNCHANGED <<now, pass, podVars, storeVars, history>>

\* The host process is killed; pods and store live on, a re-run comes later.
HostCrash ==
  /\ leader # "idle"
  /\ leader' = "idle"
  /\ fault' = TRUE
  /\ UNCHANGED <<now, pass, merged, verdict, podVars, storeVars, history>>

LeaderNext ==
  \/ CleanJobs \/ BarrierReset
  \/ ApplyCreates \/ ApplyUnchanged \/ ApplyFails
  \/ ReleaseFleet \/ ReleaseOnTimeout
  \/ FleetCompletes \/ FleetTimesOut
  \/ Merge \/ MergeUnavailable

-----------------------------------------------------------------------------
(***************************************************************************)
(* A pod: the client and the relay.                                        *)
(***************************************************************************)
LeaveBarrier(p, t) ==
  /\ pod' = [pod EXCEPT ![p] = "measuring"]
  /\ begin' = [begin EXCEPT ![p] = t]

\* Streams created; the client writes its local ready file.
ReachBarrier(p) ==
  /\ pod[p] = "setup"
  /\ pod' = [pod EXCEPT ![p] = "waiting"]
  /\ arrived' = arrived \cup {p}
  /\ UNCHANGED <<now, leaderVars, jobPass, relay, localGo, begin, storeVars,
                 forced, gaveUp, fault>>

\* Without DS_BENCH_BARRIER_DIR sync_to_fleet_start returns at once.
StartUnsynchronised(p) ==
  /\ pod[p] = "setup"
  /\ LeaveBarrier(p, now)
  /\ UNCHANGED <<now, leaderVars, jobPass, relay, localGo, storeVars, history,
                 fault>>

Arrive(p) == IF UseBarrier THEN ReachBarrier(p) ELSE StartUnsynchronised(p)

\* The relay lives as long as its pod and starts from the local ready file.
RelayAlive(p) == pod[p] \in {"waiting", "measuring"} /\ p \in arrived

\* Mutant: the markers of all pods have one name.
MutantRelayUploadsReady(p) ==
  /\ RelayAlive(p) /\ relay[p] = "idle"
  /\ relay' = [relay EXCEPT ![p] = "polling"]
  /\ ready' = IF ready = {} THEN {p} ELSE ready
  /\ UNCHANGED <<now, leaderVars, jobPass, pod, localGo, begin, go, results,
                 history, fault>>

RelayUploadsReady(p) ==
  /\ RelayAlive(p) /\ relay[p] = "idle"
  /\ relay' = [relay EXCEPT ![p] = "polling"]
  /\ ready' = ready \cup {p}
  /\ UNCHANGED <<now, leaderVars, jobPass, pod, localGo, begin, go, results,
                 history, fault>>

\* Twelve uploads failed; the relay goes on to poll for the go file.
RelayGivesUpUpload(p) ==
  /\ RelayAlive(p) /\ relay[p] = "idle"
  /\ relay' = [relay EXCEPT ![p] = "polling"]
  /\ fault' = TRUE
  /\ UNCHANGED <<now, leaderVars, jobPass, pod, localGo, begin, storeVars,
                 history>>

RelayFetchesGo(p) ==
  /\ RelayAlive(p) /\ relay[p] = "polling" /\ go # None
  /\ relay' = [relay EXCEPT ![p] = "delivered"]
  /\ localGo' = [localGo EXCEPT ![p] = go]
  /\ UNCHANGED <<now, leaderVars, jobPass, pod, begin, storeVars, history, fault>>

\* sync_in_dir sees the go file and sleeps until its time, if still ahead.
SeeGo(p) ==
  /\ pod[p] = "waiting" /\ localGo[p] # None
  /\ LeaveBarrier(p, IF now > localGo[p].time THEN now ELSE localGo[p].time)
  /\ fault' = (fault \/ now > localGo[p].time)
  /\ UNCHANGED <<now, leaderVars, jobPass, relay, localGo, storeVars, history>>

\* Proceed unaligned: the ready marker cannot be written, DS_BENCH_BARRIER_TIMEOUT_SECS
\* ran out, or the go file cannot be parsed.
ProceedUnaligned(p) ==
  /\ \/ pod[p] = "setup" /\ UseBarrier
     \/ pod[p] = "waiting" /\ localGo[p] = None
     \/ pod[p] = "waiting" /\ localGo[p] # None
  /\ LeaveBarrier(p, now)
  /\ gaveUp' = gaveUp \cup {p}
  /\ fault' = TRUE
  /\ UNCHANGED <<now, leaderVars, jobPass, relay, localGo, storeVars, arrived,
                 forced>>

\* The window is over: write the result file and upload /out.
UploadResult(p) ==
  /\ pod[p] = "measuring" /\ now >= begin[p] + Window
  /\ pod' = [pod EXCEPT ![p] = "done"]
  /\ results' = [results EXCEPT ![p] = Result(begin[p], jobPass)]
  /\ UNCHANGED <<now, leaderVars, jobPass, relay, localGo, begin, ready, go,
                 history, fault>>

\* Preempted, OOM-killed, a failed command, or twelve failed result uploads.  The
\* relay and the pod's local files go with it.
PodDies(p) ==
  /\ pod[p] \in Running
  /\ pod' = [pod EXCEPT ![p] = "dead"]
  /\ relay' = [relay EXCEPT ![p] = "idle"]
  /\ localGo' = [localGo EXCEPT ![p] = None]
  /\ begin' = [begin EXCEPT ![p] = 0]
  /\ fault' = TRUE
  /\ UNCHANGED <<now, leaderVars, jobPass, storeVars, history>>

PodNext(p) ==
  \/ Arrive(p)
  \/ RelayUploadsReady(p) \/ RelayGivesUpUpload(p) \/ RelayFetchesGo(p)
  \/ SeeGo(p) \/ ProceedUnaligned(p)
  \/ UploadResult(p) \/ PodDies(p)

Tick ==
  /\ now < MaxNow
  /\ now' = now + 1
  /\ UNCHANGED <<leaderVars, podVars, storeVars, history, fault>>

Next ==
  \/ LeaderNext
  \/ HostCrash
  \/ \E p \in Pods : PodNext(p)
  \/ Tick

Spec == Init /\ [][Next]_vars

\* Every wait of the leader ends by itself (timeouts, bounded retry loops).
FairSpec == Spec /\ WF_vars(LeaderNext /\ leader # "idle")

-----------------------------------------------------------------------------
(***************************************************************************)
(* Properties.                                                             *)
(***************************************************************************)

\* An accepted fleet sum holds no result file of an earlier pass (lib-bench.sh
\* 236-241: the cleared prefix makes a missing pod visible "instead of
\* cross-label contamination").
AcceptedFresh ==
  verdict = "accepted" => \A p \in Pods : merged[p] # None => merged[p].pass = pass

\* No pod is released by the go file of an earlier pass (lib-bench.sh 233-236).
NoStaleGo == \A p \in Pods : localGo[p] # None => localGo[p].pass >= jobPass

\* A pass is rejected only for a reason: without a crash, a timeout, a lost pod,
\* a late go file or an unreachable API, its sum is accepted.
NoFalseReject == verdict = "rejected" => fault

\* Nobody waits for somebody who waits for him (lib-bench.sh 248-264, the relay of
\* bench-job.yaml): in a pass in which nothing failed yet, a leader that may not release
\* has a pod that sets up or a relay that uploads, and a pod that waits behind the
\* release has its go file, or a relay that can fetch it.
NobodyStranded ==
  UseBarrier /\ ~fault =>
    /\ leader = "await" =>
         AllReady \/ \E p \in Pods : pod[p] = "setup" \/ (RelayAlive(p) /\ relay[p] = "idle")
    /\ leader = "running" =>
         \A p \in Pods : pod[p] = "waiting" =>
           \/ localGo[p] # None
           \/ RelayAlive(p) /\ relay[p] # "delivered" /\ go # None

\* The barrier promises what StartBarrier says.
Barrier == INSTANCE StartBarrier WITH
  open    <- go # None /\ go.pass = pass,
  started <- {p \in Pods : pod[p] \in {"measuring", "done"}}

BarrierSpec == Barrier!Spec

\* A barrier that is never filled does not wedge the walk (lib-bench.sh 219-220):
\* the leader comes back from every pass with a verdict, or was killed.
PassEnds == leader # "idle" ~> leader = "idle"

=============================================================================
