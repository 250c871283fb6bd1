# A TLA+ model of ds-bench

ds-bench measures servers of durable streams. A suite file names a workload, a
system under test and a range of loads; `scripts/bench` brings up a cluster,
deploys the server, drives a fleet of client pods, merges what they measured,
decides whether the reading is a reading, and stores it. The numbers it
publishes are only as good as the coordination behind them: whether the pods
of a sum loaded the server at the same time, whether a file in a bucket belongs
to this measurement or to one last week, whether a request is counted once.
Those are questions of order, failure and leftover state, which a unit test hardly
reaches. This project models the parts of ds-bench they are about, checks them
with TLC and proves what matters most with TLAPS.

Paths below are relative to the repository (`ds-bench/src/barrier.rs`, not
`src/ds-bench/...`).

Contents: [1 the system](#1-the-system), [2 the modules](#2-the-modules),
[3 the runs](#3-the-runs), [4 fairness](#4-fairness), [5 the proofs](#5-the-proofs),
[6 where code and documentation differ](#6-where-code-and-documentation-differ),
[7 what is left out](#7-what-is-left-out), [8 the plan](#8-the-plan),
[9 how to run it](#9-how-to-run-it).

## 1 The system

### Parts, their state and how they meet

| Part | Where | State it keeps | Operations | Talks to |
|---|---|---|---|---|
| Fleet leader | `scripts/lib-bench.sh` `run_fleet_and_coordinator`, `_barrier_*`, `clean_jobs` | shell locals; nothing survives it | delete old Jobs, clear the bucket prefix, launch, count ready markers, publish the go time, wait, merge | Kubernetes API, MinIO through `mc` in the cluster |
| Pod: client | `ds-bench/src/barrier.rs`, the subcommands | a process, files in `/out` and `$BARRIER_DIR` | setup, announce ready, wait for go, measure, write results | the server; the relay through local files |
| Pod: relay | shell loop of `gke/bench-job.yaml` | a process | upload the ready marker, fetch go, upload results | MinIO, the client's files |
| Merge | `ds-bench/src/dist.rs`, `gke/coordinator-job.yaml`, `scripts/saturation.py` | merged.json | sum rates, judge alignment and completeness | MinIO |
| Saturation walk | `scripts/lib-saturate.sh`, `scripts/saturation.py`, `scripts/cells.py` | locals `walk`, `prev_*`; cells.json | measure a rung, decide, confirm, record, resume | fleet leader |
| Level sweeps | `scripts/lib-{reads,mixed,sustained,catchup}.sh`, `scripts/*_cells.py` | cells.json with sub-cells per level | measure a level, record, mark complete, resume | fleet leader |
| Suite runner | `scripts/bench`, `scripts/cluster-up.sh`, `scripts/report.py` | `.bench-state/<suite>.json`, clusters, cells, report.md | one subshell per mode; report; teardown | gcloud, walks and sweeps |
| Watchdog | `scripts/teardown-watchdog.sh` | none but a marker file it reads | list, delete, stand down | gcloud |
| Campaign | `scripts/run-fullmatrix-2026-07-02.sh` and its like | the marker | run suites, delete everything on exit | bench, gcloud |
| Pool writers | `ds-bench/src/multi_stream.rs` `run_pool`, `pool_worker` | counters, a cursor per worker | create streams, append round-robin, classify answers | server |
| Session writers | `multi_stream.rs` `run_writer`, `append.rs`, `sustained.rs` | a sequence number per writer | numbered appends, retries under the same number | server's producer sessions |
| SSE loads | `ds-bench/src/mixed.rs`, `fanout.rs`, `multi_fanout.rs` | a tokio Barrier and a OnceCell deadline per pod | create streams, subscribe, write (and replay) until the deadline | server |
| Replay loads | `ds-bench/src/bootstrap.rs`, `catch_up.rs`, the catchup mode of `reads.rs` | a tokio Barrier, counters | create and fill streams, replay them from the start | server |
| Live-tail reads | `ds-bench/src/reads.rs` | an offset or a connection per reader | long-poll, SSE, count what arrives in the window | server |
| Verification | `ds-bench/src/verify.rs` | none | compare the server's offsets with the counts | server |

The server, MinIO, Kubernetes and gcloud are not part of the repository; they are
modelled from how the code uses them, and PROJECT.json marks those definitions
external.

### What is hard about it

* **Leftovers.** RUN_ID is the same for every pass over a cell, so the bucket prefix,
  the Job, cells.json, the state file and the clusters of an earlier pass, run or
  label are there when the next one starts.
* **Several actors per pod.** The client and its relay share files, the leader and
  the relays share a bucket, nobody shares a clock reading; each polls.
* **Everything may fail.** Pods are preempted, `kubectl apply` fails for minutes,
  uploads are given up after twelve attempts, the host dies anywhere; scripts run
  without `set -e` and go on.
* **Counting.** A request is sent in one phase and answered in another, times out and
  arrives all the same, is retried, or goes to a stream that no longer exists.
* **Barriers and deadlines.** Tasks race to set a deadline, sleep past it, or fail
  before they reach the barrier others wait at.
* **Money.** A cluster that no file remembers is billed until somebody looks.

### What makes each part correct

* fleet: no pod loads the server before all are ready; an accepted sum is of this pass;
  while nothing failed, leader and pods never wait for each other in a circle; a clean
  pass is accepted; every pass ends.
* walk: the pinned rung is where the climb stopped, is near the best reading, and one
  noisy rung does not cause it; after a run the cells were measured under the image
  reference it deployed.
* sweeps: after a run every level has a record, and failures were tried again.
* suite, campaign, watchdog: the run, the campaign and the watchdog in front of its
  deadline take no cluster from a working subshell; the watchdog stands down only when
  nothing is left and nothing comes any more; nothing is billed forever.
* writers: server and client agree on the number of appends; every measured request is
  classified once; workers do not share streams; numbers have no gaps.
* SSE loads: no record is written before everybody of the pod listens; one window for
  all; nothing in front of it is recorded, of what arrives in it all but one chunk, and
  behind it only what arrives while a subscriber still listens; the process returns.
* replays: all clients start together, behind a setup that is answered; a replay that is
  counted is whole; the process returns.
* live-tail reads: what is counted is what first arrived in the window; a reader that met
  no fault misses nothing.

PROJECT.json lists each hazard at its line with the properties that would notice.

## 2 The modules

| Module | What it is | Used by |
|---|---|---|
| `StartBarrier` | abstract: what the start barrier promises | `FleetBarrier` (refinement) |
| `FleetBarrier` | leader, clients, relays, bucket, merge verdict | `MCFleetBarrier`, `FleetBarrier_proofs` |
| `ImageDigest` | what the resume stores know of an image: its reference | `SaturationWalk`, `LevelSweep` |
| `SaturationWalk` | a label's walk over several invocations | `MCSaturationWalk`, `SaturationWalk_proofs` |
| `LevelSweep` | the four workloads without a ladder, over several invocations | `MCLevelSweep`, `LevelSweep_proofs` |
| `SuiteRun` | `bench run` and `bench teardown` | `Campaign` |
| `Watchdog` | the teardown watchdog | `Campaign` |
| `Campaign` | composition: suite + watchdog + end of the campaign | `CampaignAndSession_proofs` |
| `KeySlices` | split_range, pod_slice, worker slices, as operators | `PoolAppend` |
| `PoolAppend` | pods and workers of the pool model, with a server | `PoolAppend_proofs` |
| `ProducerSession` | writers with producer sessions, with a server | `CampaignAndSession_proofs` |
| `SseDrive` | `ds-bench mixed`, `fanout` and `multi-fanout` | `MCSseDrive`, `SseDrive_proofs` |
| `Replay` | `ds-bench catch-up`, `bootstrap` and the catchup mode of `reads` | `MCReplay`, `Replay_proofs` |
| `LiveTail` | long-poll and SSE modes of `ds-bench reads` | `LiveTail_proofs` |

How they fit: `FleetBarrier` is one measurement; `SaturationWalk` and `LevelSweep` take
its outcome as an arbitrary reading (valid, misaligned, partial, absent) and model what
the scripts make of a series of them; `SuiteRun` takes a whole walk or sweep as one cell
and models what happens around it; `Campaign` puts the watchdog beside it. `PoolAppend`,
`ProducerSession`, `SseDrive`, `Replay` and `LiveTail` are what runs inside a pod between
the barrier and the upload. Each level is open to every outcome of the one below, so what
is shown above does not depend on how the lower module is bounded.

`Campaign` (with `SuiteRun`) and `ProducerSession` have one module of proofs between them,
and nothing else: neither part of it uses anything of the other. That is why the
definitions of `ProducerSession` that every module has carry its name (`SessionInit`,
`SessionNext`, `SessionSpec`, `SessionTypeOK`).

A comment at each definition says what code it is; PROJECT.json `map` has the lines.
Definitions called `Mutant...` are wrong versions, one per checked property: put in place
of the definition they follow, TLC must find the property violated.

### FleetBarrier

`leader` is where `run_fleet_and_coordinator` stands: `CleanJobs`, `BarrierReset`,
`ApplyCreates`/`ApplyUnchanged`/`ApplyFails`, `ReleaseFleet` or `ReleaseOnTimeout`,
`FleetCompletes` or `FleetTimesOut`, `Merge` or `MergeUnavailable`. `pod[p]` and
`relay[p]` are the two processes of a pod (`ReachBarrier`, `RelayUploadsReady`,
`RelayFetchesGo`, `SeeGo`, `ProceedUnaligned`, `UploadResult`, `PodDies`); `ready`, `go`,
`results` are the objects under `bench-results/<RUN_ID>/`, each tagged with the pass that
wrote it. The tag is history: no guard reads it. A pass is one call of the function;
`HostCrash` may end any of them and the next pass finds bucket and pods as they are.

A pod leaves the barrier by the go file (`SeeGo`) or without it (`ProceedUnaligned`): the
ready marker cannot be written, the wait ends by its own timeout, or the go file cannot be
parsed (barrier.rs 56-69). None of the three stops the pod; all count as faults of the pass.

Three things in it are easily got wrong and are as in the code. The ready markers are
counted whoever wrote them. With an unreachable API `clean_jobs` leaves the old pods
alive, and a later `kubectl apply` of the same manifest reports "unchanged" and starts
nothing. And without `BARRIER_DIR` (all workloads but write) neither the prefix is
cleared nor the windows are stamped.

Abstracted: `warmup` and `settle` are equal offsets in every pod and are left out; the
window span test of `dist.rs` (span ≤ 1.25 windows) is the same inequality over integer
starts; rates and histograms are not represented. The refinement to `StartBarrier` maps
`open` to "the go file in the bucket is this pass's" and `started` to the pods that left
the barrier and live.

### SaturationWalk

`walk_cell` of `lib-saturate.sh` rung by rung: `RungFails`, `RungClimbs`, `RungPlateaus`,
`LadderExhausted`, then `ConfirmRep` and `RecordPlateau`; around it `run_mode`'s loop over
stream counts (`SkipSaturated`, `BeginWalk`, `EndRun`), invocations with another image or
patience, failed deployments and crashes. `CapLadder`, `Plateaued`, `Pin`, `StepDecision`,
`StatusOf` are the functions of `saturation.py` and `cells.py`. `Digest`, in
`ImageDigest`, is `server_image_digest`. It hashes the *reference* of the deployment's
image with the server arguments, not the image (lib-bench.sh 559-567): the constant
`Reference` names each image, and a tag that is pushed again gives two images one name,
hence one digest. `cells[s].on` is a history, the image a cell was really measured on; no
guard reads it. `FinishedRunMeasured` is about what the digest promises, the reference;
`FinishedRunOnImage`, about the image, does not hold (section 6). `prev` is kept beside
`walk` as the code keeps it, and `LegacyRule` compares the two ways of deciding. Gains are
compared as `100·(cur − prev) ≤ pct·prev` instead of in floating point; means are rounded
down; p50, p99, memory and the separate knee rung are left out because no decision depends
on them.

### LevelSweep

`run_reads_cell`, `run_mixed_cell`, `run_sustained_cell` and `run_catchup_cell` with their
stores; the digest is that of `ImageDigest`, as in the walk. Levels are sub-cells
(`conn_status`, `level_status`), a cell is `complete` behind its last level, `status_of`
reopens a complete cell with an errored level, and another digest discards the cell. The
single-shot workloads are sweeps of one level without a sub-cell test, whose record
replaces the cell. `Throughput` is what each script takes for the throughput: for
sustained that is the last word of a line whose last word is the p99 (section 6).

### SuiteRun, Watchdog, Campaign

`SuiteRun` has a parent (`main`) and a subshell per mode and invocation (`sub[<<m, r>>]`).
`_record_cluster` is three steps, as it is in the code: load, truncate (`open(p,'w')`), write;
subshells interleave between them, and a kill leaves half a file. `ClusterUp` adopts a
cluster of that name if there is one; its exit status is not looked at, so a mode may go on
without. `AutoTeardown` follows `suite_status` and the presence of report.md.

`cmd_teardown` is a process with a list of its own (`todo[t]`), run by the run itself
(`"auto"`) or as `bench <suite> teardown` (`"operator"`, `OperatorTeardown`). Nothing in the
code keeps the second from running beside a run (bench:229), and with `Beside` it does:
it deletes what the file names by then, then removes the file, from which a record that a
subshell makes meanwhile is lost. `DeleteGivenUp` is a cluster whose thirty deletions failed
(bench:33-34).

`KillAny` is an interrupt or a host that goes down. The subshells are background jobs of a
shell without job control: they ignore SIGINT and outlive the parent, so any set of them may
live on, beside the trap's teardown and beside those of the next invocation.

`Watchdog` follows the script's loop with its two sweeps. A listing that comes back empty
(`ChecksLeftover`, `ChecksSweep`) and the exit (`StandsDown`) are two steps, between which
clusters may be created. `Campaign` adds the campaign's script: it takes away the marker of
an earlier one and starts the watchdog (`Starts`); its trap, for EXIT or a signal
(`TrapFires`), runs `bench teardown` (`TrapTearsDown`), deletes what is listed and touches the
marker (`TrapEnds`); behind the trap of a signal bash goes on with the script. It may die at
any step (`CampaignDies`).

Abstracted: all cells of a mode are one cell; report.md may be written or not; the local
target, `dryrun` and the report's content are left out.

### KeySlices and PoolAppend

`KeySlices` is arithmetic only. `PoolAppend` has the pods' phases, every worker's loop
(`Send`, `OnSuccess`, `OnMissingCreates`, `OnMissingGivesUp`, `OnBusy`, `OnFailure`,
`OnTimeout`), the counters as they are returned, and a server that may answer with success,
404, backpressure or an error, may restart empty, and may apply an append after its client
gave up (`limbo`). Whether an append counts is decided before it is sent, from the phase,
as `counting` is in the code. Abstracted: the fleet barrier (that is `FleetBarrier`'s;
here each pod leaves setup when it is done, which allows more), the sleep after
backpressure, batching (both sides count `batch`), latencies.

### ProducerSession

`Session(w)` is the stream and producer id of a writer in each of the three workloads;
that is what decides whether two pods meet in one session. The server takes the number it
expects, recognises an earlier one (as success or as an error), refuses a later one, and
may apply a request whose client has timed out, in any order. Pacing is left out: it only
delays `Send`, which may be delayed anyhow.

### SseDrive

The three loads that deliver by SSE are one module, because they are one protocol with
differences, and the differences are what goes wrong: `args.command` says which is run.
A pod creates the streams it owns (`Creates`, `SetupFails`, `SetupDone`), its tasks meet at
a Barrier whose size is counted with `count_cong` (`Arrive`), each writer and reader then
calls `get_or_init` on the deadline (`Crosses`) and works until it (`LoopHead`, `Sends`,
`Answered`), each subscriber listens behind it (`Listens`, `Receives`, `TimesOut`), and the
pod joins them (`Joins`; `JoinsWriter` and `Drains` of `fanout`, which waits a limited time
only). What differs is how a subscriber fails to connect: `mixed` crosses the barrier all
the same (`ConnectFails`), `multi-fanout` tries for a minute and then does (`GivesUp`),
`fanout` returns before the barrier (`ReturnsUnconnected`).

Time is a clock in ticks; tasks may be late for anything. `Sends` is the part of the loop
behind the sleep, which is where the deadline is not looked at again. A subscriber reads
the deadline, computes the timeout of its wait from it and awaits a chunk (`Awaits`); the
chunk is recorded by the deadline read before the wait, though it may be set in between.
`CutOff` is the HTTP client's timeout, which covers a response with its body. `late`,
`missed` and `stray` are histories: requests behind the deadline, chunks of the window
that are not recorded, and where the clock stood when a chunk from outside of the window
was recorded. `Phase(end)` divides the clock into `before`, `window`, `drain` (the grace
in which a subscriber listens on behind the deadline) and `behind`; `Records` is the
code's own test, which knows the start of the window and not its end, and so records in
the drain as well. A reader's replay is one request; control frames and an unpaced request
take a tick.

### Replay

The three loads that read from the start. Setup is a loop over streams: the two stampedes
(`catch-up`, `bootstrap`) delete, create and fill (`Deletes`, `Creates`, `SendsAppend`);
`reads` creates, probes the size (`ProbesSize`) and appends what is missing, stream by
stream. `SetupHolds` is the check that only `catch-up` makes. `Enters` is the clients'
Barrier, `ReadsPage` a request of `catch_up_read_all` at the moment it is answered, with
`GoesOn` for its paging and `Ends` for how the replay is counted; `bootstrap` sends one
request. Pods of a fleet use the same stream names, so their setups and readers meet on the
server; streams may be there from before; a deletion or an append that was given up may
still be done later (`doomed`, `adrift`). Bytes are counted in records; the warmup, the
window and the end of `reads` are phases that follow each other at any time.

### LiveTail

One stream (a reader is pinned to one, and streams share nothing), its writer, and readers
in either mode. A long-poll reader has an offset, which `NextOffset` moves and a failed
poll sets to the tail again; with `Headerless`, an answer may come without
`stream-next-offset`, and the offset stays (reads.rs 461); an SSE reader has a connection,
opened at `offset=now`. An answer may hold any prefix of what is new, so a delayed answer
is no other case. `seen` and `fresh` are histories of what reached the reader, and when.

## 3 The runs

All runs check deadlock-free or terminating systems: every one of them says
`CHECK_DEADLOCK FALSE`, because the scripts and processes modelled end, and the
bounds end them too. That they end, rather than hang, is what the liveness properties
are for.

| Run | Question | Bounds | Why they are enough |
|---|---|---|---|
| `fleet_passes` | Does one pass leak into the next, does the fleet implement the abstract barrier, does every pass end? | 2 pods, 2 passes, clock to 4 (both passes complete) | a leak needs one earlier pass; a barrier violated by n pods is violated by the one that is early and the one that is missing |
| `fleet_faults` | When the API, uploads and pods fail: do leader and pods wait in a circle, is a clean pass rejected? | 2 pods, 2 passes, window 4, headroom 1, clock to 6, symmetry | a circle takes the leader and a pod; alignment is pairwise, and a window of 4 ticks tells a span of 5/4 windows from one of 6/4; an old Job survives into one later pass |
| `walk` | Where does a walk pin, what has a finished run measured, does it end? | counts 1 and 8 with a ladder capped to 1 and to 3 rungs, readings 100, 105, 111 at 10 %, patience 1 and 2, 2 runs, 3 builds under 2 references | readings below, within and above the threshold, whose composition differs from its parts (105 and 111 are each small gains, together a climb); 3 rungs fit the two small gains of patience 2; two builds share a tag and one does not |
| `campaign` | Can clusters be torn down under work, outlive the watchdog, or be billed for good? | a mode on a cluster that was there before, 2 invocations, one kill, `bench teardown` beside the run, all faults but failing listings | the races are between a working subshell and whoever deletes: run, operator, trap, watchdog; a subshell that outlives its parent meets one of the next invocation. With 2 modes, 1 invocation and no kill all four properties hold as well (`Modes = {m1, m2}`, `Foreign = {m2}`, `MaxRuns = 1`, `MaxKills = 0`; 590 560 states) |
| `pool_counts` | Do server, counters and history agree, are streams apart and evenly covered, does the pod end? | 1 pod, 3 streams, 2 workers, 2 appends each, a restart, a timeout | the invariants are sums over workers; an uneven split (2 + 1) and a wrap-around occur; pods add disjoint sums, and that they are disjoint is proved |
| `session_multi_stream` | Is a success a record, is there a gap? | 2 pods, a writer each, 3 appends | a straggler needs a later append of its writer to matter, a second straggler one more |
| `sweep` | What has a finished sweep covered and tried again? | mixed, 2 counts, 2 levels, 2 runs, 3 builds under 2 references, crashes | resume decisions look at one earlier run |
| `drive` | One window, heard from the start and recorded, at most one late request, does the run return? | five command lines: mixed with a subscriber, an unpaced writer and a paced reader, mixed with two staggered readers, fanout with two subscribers, multi-fanout on one pod with warmup, and on two pods of which one has no writer; windows of 1 and 2 ticks, grace, idle floor, slack and connect time 1, clock to 2 and to the end of every sleep | a task of each class in each pacing, and two of a class where they share something; two pods are a stream whose subscriber is at home in the pod and one whose is not; `SseDrive_proofs` has the safety properties for all sizes |
| `replay` | Is a counted replay whole, does a stampede start together behind its setup, does the run return? | six command lines: catch-up with two clients and with two pods, bootstrap on a shared stream and with one stream per client, reads with two streams and with two pods; 2 events, 1 record from before, 1 lost append per pod, 4 pages | two pods delete and fill the same stream; a page that is not the last needs 2 records; with 4 pages the guard is not hit, as with the code's 100 000 it is not |
| `tail` | What is counted, what is lost? | 2 readers, both modes, 2 records, window from 1 to 2, one fault per reader | double counting needs one record received twice, a loss one record skipped |

Properties, in a sentence each (the modules quote the line of code they are about):

* `TypeOK`, `CampaignTypeOK`: one type invariant per module, all of them proved. Those of
  `FleetBarrier`, `PoolAppend`, `ProducerSession` and `SseDrive` are in no run.
* `AcceptedFresh`, `NoStaleGo`, `BarrierSpec`, `NobodyStranded`, `NoFalseReject`,
  `PassEnds` (FleetBarrier): an accepted sum has no file of an earlier pass; no pod is
  released by an earlier go file; the fleet implements `StartBarrier`; while nothing failed,
  somebody can always go on without a timeout; a pass in which nothing failed is
  accepted; a pass ends. The first two are checked with pods and hosts dying and calls of
  the leader succeeding, as are the third and the last; with failing calls the first two
  do not hold (section 6). The other two are checked with every failure.
* `PinnedWhereClimbStopped`, `LegacyRule`, `PinNearBest`, `OneNoisyRungNeverPins`
  (SaturationWalk): what the comments of `saturation.py` promise of the pin.
  `FinishedRunMeasured`: behind a run, cells were measured under the reference it
  deployed. `RunEnds`.
* `StandsDownForGood`, `NothingTakenUnderWork`, `ClustersNeverBillForever` (Campaign): behind a
  watchdog that left before its deadline there is no cluster and none comes, if nothing was
  interrupted; a working subshell keeps its cluster, but for `bench teardown` and the
  watchdog's deadline; and section 4 for the third.
* `ServerMatchesClients`, `MeasuredAccounted`, `WorkersApart`, `EvenCoverage`,
  `ResultDelivered` (PoolAppend): the server's records are the clients' successes plus the
  answers on their way plus the late arrivals; measured requests are each a success,
  backpressure, an error or under way.
* `SuccessesAreRecords`, `NoGap` (ProducerSession).
* `FinishedSweepCovers`, `ErrorsRetried` (LevelSweep): behind a run every level has a record
  under the reference it deployed; a level that failed is tried again.
* `HeardFromTheStart`, `OneWindow`, `AtMostOneLate`, `RecordsTheWindow`, `RunReturns`
  (SseDrive): of a stream its pod writes, a connection is older than every record; one
  deadline per pod, set behind the barrier; a paced task sends one request too late at
  most; nothing in front of the window is recorded, one chunk of it at most is lost, and
  what is recorded behind the drain is a subscriber's last chunk;
  the run returns (of fanout: if every subscriber connects, see section 6).
* `ReplayedWhole`, `StampedeTogether`, `ReplayReturns` (Replay): a counted replay of
  catch-up holds every record of the setup (in a fleet of one pod), one of reads the seed
  (if no seed append failed); no client reads before all are there and no setup append is
  unanswered.
* `CountedAtFirstSight`, `NoSilentLoss` (LiveTail): a delivery is counted once and by its
  arrival; a reader that met no fault has everything from its start on; both of a server
  that sends `stream-next-offset`.

Two more runs are expected to fail and are the findings of section 6:
`suite_lost_record`, `drive_cut_short`.

## 4 Fairness

Safety is checked of `Init /\ [][Next]_vars` wherever no liveness property is in the run.
Where fairness is assumed it is weak, of the smallest action that the code drives, never
of a failure, a crash, an operator's decision or a message's arrival:

* `FleetBarrier`: the leader's step while it is in a pass. Each of its waits is a loop
  with a deadline (`BARRIER_SETUP_TIMEOUT_SECS`, `FLEET_TIMEOUT`, the five apply attempts),
  so it goes on whatever the pods do. Pods and relays get no fairness: `PassEnds` holds
  with all of them dead.
* `SaturationWalk`: the script's next step; every command it waits for has a timeout or a
  bounded number of attempts.
* `Campaign`: the watchdog's loop; that its deadline comes, if it polls long enough; and
  strong fairness of deleting a given cluster: a cluster that is tried again and again is
  not RECONCILING every time. Without the last, nothing the script does could promise an
  end. Of the suite and the campaign nothing is assumed.
* `PoolAppend`: a pod's phases advance with time; a request is answered or times out
  (`request_timeout_secs`), and the worker handles what it got.
* `SseDrive`: tokio polls each task and the pod's `run` when they can go on, a request has a
  timeout, time passes. That a server drops a connection, or delivers, is not assumed: it
  is one of the ways a subscriber's step is taken, beside its own timeouts.
* `Replay`: the same of each pod's setup, its appends' answers (an answer or a timeout),
  each client, and the phases of `reads`. That an append or a deletion that was given up
  is done after all is never assumed.

`ClustersNeverBillForever` says: once the campaign is over and the last subshell has ended,
the clusters are gone eventually, unless the watchdog made its last listing before. The
exception is the code's: a watchdog that passed its deadline, or saw a marker and no
cluster, exits even if a suite still runs and creates another cluster later.

## 5 The proofs

TLAPS checks these for every value of the constants that satisfies the module's ASSUME.
Every invariant and every action property of the passing runs is stated by a theorem;
what stays with TLC alone is liveness (at the end of this section).

**FleetBarrier_proofs.** Assumption: `FleetAssumption` (a finite, non-empty fleet; a
positive window). `Reliable` is `UseBarrier /\ ~ApiFaults`: the write workload while the
Kubernetes API and MinIO answer the leader. Pods, relays and the host may still fail.

| Theorem | Under | Says |
|---|---|---|
| `TypeCorrect` | — | `Spec => []TypeOK` |
| `NoCrossPassResult` | `Reliable` | `Spec => []AcceptedFresh` |
| `NoStaleRelease` | `Reliable` | `Spec => []NoStaleGo` |
| `ImplementsBarrier` | `Reliable` | `Spec => BarrierSpec` (refinement of `StartBarrier`) |
| `NoEarlyStart` | `Reliable` | `Spec => []Barrier!NoEarlyStart`, inherited from the abstract barrier |
| `NoRejectionWithoutFault` | `Reliable` | `Spec => []NoFalseReject` |
| `NobodyIsStranded` | — | `Spec => []NobodyStranded`, with all faults |

The argument. The freshness theorems need an invariant that says more than they do:
`PassInv` relates the leader's place to the Job and the store. `OneJob`: live pods are of
the leader's pass, and between the deletion and the launch there are none. `StoreOfJob`:
behind the reset the prefix is empty, the go file is absent until the release, and
everything in it is of the present Job. That is what the order delete, clear, launch,
release gives, and each step preserves it only because of the others: clearing before
deleting would let an old pod write again, releasing before clearing would leave the old
go file. The refinement uses the same invariant: the leader's count of markers opens the
barrier only when everybody arrived because the markers are this Job's, and as many as the
fleet are the whole fleet (`WholeFleet`). `NoFalseReject` needs that, without a fault,
windows start at the published time (`OnTimeInv`). `PassInv` and `OnTimeInv` were checked
by TLC before they were proved.

`NobodyStranded` is the safety side of the waits at the barrier: the leader waits for the
markers, the pods for the go file, and while nothing failed one of them can always go on
without a timeout. `HealthyInv` relates the leader's place to the relays and the store: what
a relay has done is in the store, and that stays so over the next pass only because the
Job is deleted before the prefix is cleared. It needs no `Reliable`, as a failed call to the
API is a fault of the pass.

**SaturationWalk_proofs.** Assumption: `WalkAssumption`. The invariant says what is known
of a walk of n rungs when g small gains stop it: every reading is positive (`Positive`),
no g gains in a row were small so far (`StretchClimbs`), with g = 1 the rungs rise
(`Rising`); a walk that still climbs has this of all its rungs (`OnClimb`), one that
stopped of all but the last, and its last g gains are small (`Stopped`). `ClimbGoesOn` and
`ClimbStops` are the two decisions, and a recorded cell keeps what its walk had
(`CellsInv`). From it `PinsWhereClimbStopped` (`PinnedWhereClimbStopped`), `PinsNearBest`
(`PinNearBest`), `NoNoisyPin` (`OneNoisyRungNeverPins`) and, with the value `prev` has,
`LegacyRuleHolds` (`LegacyRule`); the thresholds are multiplied out, so the products are
bounded by lemmas (`ProductOrder`). `FinishedMeasured` (`FinishedRunMeasured`) assumes a
mode whose deployment `server_image_digest` knows (`KnownModes`); its invariant is that
the run has left cells of its own digest behind it (`ImageInv`). For the other modes it
fails: section 6, `walk_node_image`. `FinishedOnImage` (`FinishedRunOnImage`, in no
passing run) adds the one premise under which the cells are of the very image,
`ReferencesFixed`: no reference is used for two images. A moved tag breaks it:
`walk_moved_tag`. `WalkTypes` (`TypeOK`): that a recorded rate is a natural needs the mean
of the confirm repetitions to be one, a sum over a function divided by its size.

**PoolAppend_proofs.** First the arithmetic of `KeySlices`, with no assumption but that a
slice is an interval of naturals and there is at least one part: `PartWithin`,
`PartsAreContiguous`, `PartsAreDisjoint`, `PartsCover`, `PartsAreEven` (sizes differ by at
most one), `NoPartIsEmpty`. They rest on lemmas about `\div`; the cover is shown by finding
the part of a key by a division. Then `TypeCorrect`, `PodsApart` (`NStreams >= NPods`: no two
pods append to one stream at a time), `WorkersAreApart` (`WorkersApart`: the same of workers
when there is a stream for each). The invariant `IInv` adds to the types where cursor and
target lie (`OwnTargets`); disjointness is then `PartsAreDisjoint` twice, once for pods,
once for workers. The typing itself needs it: a target is a stream only because a cursor
stays in its slice.

Then the counts. The properties are sums over pods and streams, and a sum is a recursive
fold, of which the provers cannot prove anything by induction. They are shown without it:
the total of a function f over a finite set is the number of pairs (x, k) with k < f[x]
(`Units`, `SumIsUnits`), a fact about cardinalities whose proof takes a smallest subset for
which it fails (`SmallestSubset`). From it come the lemmas the steps use: a total is a
natural (`TotalType`), moves by one when one place moves by one (`TotalBump`), and is zero
of zeros (`TotalZero`). `SaturationWalk_proofs` repeats the first of them, as the two
modules have no common ancestor.

`CountInv` is what has to be added to the properties. A worker holds an answer only while
it waits for one, and none when its pod has returned (`IdleWorkers`); what reaches the
server behind a client's back was timed out before (`NoStray`); a worker has started its
appends in laps, each stream of its slice `laps` times, and once more those its cursor has
passed since (`RoundRobin`, with `Before` for the order in which a cursor that starts in
the middle comes by them). Then:

* `ServerMatches` (`ServerMatchesClients`): what the server took is the successes, the
  answers on their way (`Unheard`) and the late arrivals, as long as the server keeps its
  state.
* `EachMeasuredOnce` (`MeasuredAccounted`).
* `CoversEvenly` (`EvenCoverage`). The property has the premise `NStreams >= NPods` since the
  proof failed without it: `pool_worker` takes a span of at least one, so a pod whose slice
  is empty sends to the first stream of its neighbour's. The scripts keep to the premise:
  `cap_ladder` (saturation.py 100-113) has no rung with more pods than streams.
* `ExactWithoutTimeouts`, under `Timeouts = 0`: then `VerifyExact`, the claim of verify.rs,
  always holds. It is the other half of `pool_verify` (section 6): a timeout is the one
  thing that makes the tool report a difference of a server that keeps its state; errors,
  backpressure and re-created streams do not.

**CampaignAndSession_proofs: the suite and the campaign.** Assumption: `SuiteAssumption`.

| Theorem | Under | Says |
|---|---|---|
| `SuiteTypes` | — | `Spec => []TypeOK`, the suite alone |
| `CampaignTypes` | — | `CampaignSpec => []CampaignTypeOK` |
| `StoodDownForGood` | `~ListFaults` | `CampaignSpec => []StandsDownForGood` |
| `NothingTaken` | — | `CampaignSpec => NothingTakenUnderWork` |
| `OneModeAccounted` | one mode, `~ApiFaults`, `~Beside`, no kills | `Spec => []ClusterAccounted` |
| `OwnClustersOnly` | `Foreign = {}` | `Spec => OnlyOwnClustersDeleted` |

The invariant `WorkInv` says, of a suite in which nothing was killed, that a subshell runs
only while the parent waits for it (bench:89-97). The campaign's part of it is that the
parent is idle from the trap on (`IdleInv`), the marker is of this campaign and comes behind
the trap (`MarkInv`: the removal of an old marker is what starts it), and the watchdog in
front of its deadline does nothing without the marker (`DogInv`). So a watchdog on its way
out finds a campaign in which nobody is left to create a cluster, and the two steps
of listing and leaving do no harm (`CleanInv`). Where the premises fail, so do the
properties: `watchdog_list_fault`, and `campaign_stands_down` for a campaign still at work at
the deadline. The last two theorems say how far
the promises hold that the code breaks (section 6): `Kept` says that the file is
half-written exactly while the one subshell writes, that it names the cluster otherwise,
and that a teardown has the cluster before it; a second subshell (`suite_lost_record`)
breaks the first part, a kill between the halves the second, a deletion that is given
up the third.

**CampaignAndSession_proofs: the sessions.** Assumption: `SessionAssumption`.
`TypeCorrect` (`SessionTypeOK`); for the workloads that put the pod into their names
(`Named`: multi-stream and append) `SuccessesAgree` (`SuccessesAreRecords`), `NoGapEver`
(`NoGap`). The invariant `InStep` ties a writer to its session: its number is the count of
its successes, the session expects this number or the next, and no straggler carries a
later one. `sustained` is not `Named`: there two writers may share a session and a success
(section 6).

**SseDrive_proofs.** Assumption: `DriveAssumption` (command lines as their parsers leave
them; naturals). `BarrierIsForAll`: the size a pod gives its Barrier, a sum of three
`count_cong`, is the number of tasks it spawns, or 1 if that is none. It is shown by a
bijection from `0 .. count_cong - 1` to the numbers congruent to the pod (`Congruent`), and
everything else rests on it: were the size too small, writers would start before a
subscriber listens; were it too large, none would. `TypeCorrect`. `OneDeadlinePerPod`
(`OneWindow`) and `AllHeardFromTheStart` (`HeardFromTheStart`) need `DriveInv`: whoever is
past the barrier has everybody of the pod past it (`Gathered`), deadlines and records come
behind it (`Owners`, `SetBehind`, `WrittenBehind`), and so a connection, opened before it,
finds an empty stream (`Heard`). `OneLateRequest` (`AtMostOneLate`): a task with a late
request is in flight with it or about to leave its loop (`LateInv`). `WindowRecorded`
(`RecordsTheWindow`): the deadline a subscriber holds is the pod's or is still unread
(`RecordInv`), and it is unread for one chunk; where there is no warmup nothing is delivered
in front of the window (`DeliveredBehind`); and the chunk a subscriber waited for over the end
of the drain is recorded at the head of the loop that ends it.
`BarrierOpens` (`NobodyLeftWaiting`, which no run has): nobody waits at a barrier that all
tasks of the pod have come to. `BarrierInv` adds that whoever is behind the barrier is there
with its whole pod (`WithAll`), so the last arrival finds all others waiting and counts to
the barrier's size (`LastOpens`). A subscriber of fanout that fails to connect never comes
to it (`Gone`); the property has the premise that none of the pod does, and `fanout_hang`
(section 6) shows what happens otherwise.

**Replay_proofs.** Assumption: `ReplayAssumption`. `TypeCorrect`. `StampedeStartsTogether`
(`StampedeTogether`): `StampedeInv` says what the pod's place implies of its appends and
its clients' places; the last arrival is found by counting (`ClientCount`, `LastArrival`).
`CountedReplaysAreWhole` (`ReplayedWhole`) assumes `Fits`: the events of a stream are no
more than the pages of a replay, since an answer holds at least one record. Its invariant
has three parts. `CatchUpInv`: a stream of catch-up that is there holds every append that
succeeded, which the check behind the setup compares with the events. `SeedInv`: a pod of
reads is behind full streams, and the stream it is at holds, with what the pod has still
to send and to be told, the seed; this stands other pods seeding the same stream, since
their appends only add. `Paged`: an offset is at least the number of pages, so the guard is
not what ended a replay.
`BarrierOpens` (`NobodyLeftWaiting`, which no run has): whatever fails, no client is left at
the barrier when all of its pod have come. It needs `Released` and the same count: who comes
last finds everybody else waiting, and so does not wait.

**LiveTail_proofs.** `TypeCorrect`; the other two assume `~Headerless`. `CountsFirstSight`
(`CountedAtFirstSight`): what a reader gets is behind everything it has seen, up to its
last fault and beyond (`Behind`), so no record is counted twice (`Counted`).
`UnbrokenMissesNothing` (`NoSilentLoss`): a reader without a fault has the whole interval
from its start to where its poll or connection stands (`Unbroken`).

**LevelSweep_proofs.** Assumption: `SweepAssumption`. `TypeCorrect`; `FinishedCovers`
(`FinishedSweepCovers`), under `OneList`, the suite file holds the same levels in every
run, and a mode of `KnownModes`; `FinishedOnImage` (`FinishedSweepOnImage`, in no passing
run) with `ReferencesFixed` besides, as in the walk. The invariant is that a complete cell
has every level (`CompleteCovers`), that the run has left complete cells behind it
(`BehindCovered`), and that a cell holds records of its digest only (`OnDigest`). Without
`OneList` it does not hold: section 6, `sweep_edited`. `NoErrorStranded` (`ErrorsRetried`)
needs no such assumption: `status_of` reopens a cell with an errored level, and the sweep
skips only what is ok (`RetryInv`).

**Only model-checked.** Liveness: `PassEnds`, `RunEnds`, `ClustersNeverBillForever`,
`ResultDelivered`, `RunReturns`, `ReplayReturns`. Each needs ENABLED under fairness, which
TLAPS cannot reason about.

## 6 Where code and documentation differ

### Findings with a run

* **`suite_lost_record`** (`scripts/bench:221`). `_record_cluster` is called an "idempotent
  append to the suite state file" (bench:218), but it loads, truncates and rewrites the file
  without a lock while `cmd_run` (bench:89) runs a subshell per mode. Two of them load
  the same file, and the second write forgets the first one's cluster. `bench teardown`
  then deletes only what the file names. Only the watchdog would find the rest.
* **`drive_cut_short`** (`ds-bench/src/common.rs:12`). The drive window is "barrier release →
  shared deadline. All three classes start and stop on it, so rates divide by this"
  (mixed.rs:126-129). `build_client` sets reqwest's `timeout`, which bounds a whole response
  with its body, and no load overrides it for its SSE connections: a subscriber's body ends
  `request_timeout_secs` after it connected, its loop is left, and the rest of the window
  is not delivered to it, without an error. `suites/canonical-mixed-delivery.json` drives
  30 s, and `scripts/lib-mixed.sh` leaves the timeout at its default of 30 s; the subscribers
  connect before the window starts. `scripts/gke-bench.sh:226` gives `multi-fanout` 10 + 5 +
  20 s (line 88) under the same default, which takes the end of every measured window.

### Further differences, reproducible with a configuration

Each of these configurations checks one property that TLC finds violated. They are not
among the runs of PROJECT.json; `tlc -config X.cfg M` shows the trace. "X *with* ..." is a
copy of X.cfg with this property in place of its own, and with these constants.

| Configuration, module | Property | What happens | What is said |
|---|---|---|---|
| `drive_overrun`, MCSseDrive | `NoLateRequest` | paced writers and readers test the deadline before they sleep until the next request is due, and not after (mixed.rs:619); each sends one request behind the deadline and counts it. `results/canonical-mixed-writes/wal/cells.json` has readers paced at one replay in 30 s over a window of 60 s, an elapsed time near 90 s and a third replay per reader in a rate that divides by 60 | mixed.rs 126-129 |
| `drive_two_pods`, MCSseDrive | `HeardByAllFromTheStart` | each pod has a Barrier of its own, and a pod without the writer of a stream may connect to it after the writer's pod has started | multi_fanout.rs 4-5: "All subscribers connect before any writer sends its first event" |
| `drive_drain`, MCSseDrive | `RecordsNothingElse` | a subscriber listens on for a grace of 2 s behind the deadline and records what it gets: the test is for the start of the window alone (mixed.rs 520-530, multi_fanout.rs 392-430), while the rates divide by the window | multi_fanout.rs 182-183: "subscribers record delivery latencies only in the final `measure_secs` window"; mixed.rs 126-129 |
| `drive_drain` *with* `RecordedMatchesReceived` | `RecordedMatchesReceived` | the first chunk is judged by the deadline read before it was awaited, which may not have been set yet | multi_fanout.rs 426-427: "so the recorded count matches recv" |
| `fanout_hang`, MCSseDrive | `FanoutReturns` | a fanout subscriber that cannot connect returns before the barrier, and the writer waits at it forever | mixed.rs 488-490 and multi_fanout.rs 345-346 name this and avoid it |
| `replay_two_pods`, MCReplay | `ReplayedWholeByFleet` | pods of a fleet delete and re-create the same stream, so a replay of one is cut by the setup of another | gke-bench.sh 230-234 starts catch-up in fleets of two pods and more |
| `replay_two_seeds`, MCReplay | `SeededOnce` | two pods probe before either has filled, or a probe fails, and the stream gets the seed twice | reads.rs 115: "(idempotent)" |
| `sweep_edited`, MCLevelSweep | `FinishedSweepCovers` | levels added to the suite file behind a complete cell are never measured: `status_of` answers done before the level list is looked at | lib-reads.sh 4-5: "the cell is `complete` once every level is done" |
| `sweep_sustained`, MCLevelSweep | `OkHasItsThroughput` | `run_sustained_cell` takes the last word of what the measurement prints (lib-sustained.sh:47), which once was the throughput (lib-sustained.sh:11) and now is the p99 (lib-bench.sh:443), so a partial fleet is recorded as ok with its p99 | lib-bench.sh 438: "saturation.py forces thr=0 and the rung records as an error" |
| `fleet_stale_results`, MCFleetBarrier | `AcceptedFresh` | without `BARRIER_DIR` (reads, mixed, sustained, catchup) the prefix is not cleared, and a missing pod's file of an earlier pass completes the sum | lib-bench.sh 236-241 names this hazard and that clearing fixes it |
| `fleet_stale_go`, MCFleetBarrier | `NoStaleGo` | the reset fails and its failure is ignored; pods start on the earlier go file | lib-bench.sh 232-236 |
| `walk_headline`, MCSaturationWalk | `HeadlineFromValidReadings` | `_confirm` takes `aggregate_ops_per_sec` from merged.json with grep, so a repetition with misaligned windows enters the mean that is published | dist.rs 115-118: "MUST NOT be used as a throughput reading" |
| `walk_moved_tag`, MCSaturationWalk; `sweep_moved_tag`, MCLevelSweep | `FinishedRunOnImage`; `FinishedSweepOnImage` | the digest is a hash of the image's reference: an image rebuilt under its tag (the defaults are `:dev`, target-env.sh 25, 44, 49) keeps the cells of the old one. run-fullmatrix-2026-07-02.sh:80 knows it: "resume digest is tag-based, not content-based" | lib-bench.sh 559-560; mixed_cells.py:35: "new server image -> re-measure" |
| `walk_node_image`, MCSaturationWalk | `FinishedRunMeasured` | `server_image_digest` knows no deployment for mode node, so another image keeps its cells, whatever its reference | lib-bench.sh 559-560: "a changed image OR a changed config re-runs that cell" |
| `pool_verify`, PoolAppend | `VerifyExact` | an append that timed out may be stored; the check reports a mismatch of a correct harness | verify.rs 4-6: the count "must equal" the successes |
| `pool_verify` *with* `Conns = 2`, PoolAppend | `WorkersNeverContend` | with more connections than streams in a pod, workers share streams | multi_stream.rs 62-64: "no two pods (or workers) ever contend"; `run_pool`'s comment is right |
| `session_sustained`, ProducerSession | `SuccessesNeverShared` | two sustained pods use the same stream and producer id and both count one record | append.rs 214-217 describes the effect. The suites in the repository have one pod |
| `suite_stale_cells`, SuiteRun | `AutoTeardownAfterCleanRun` | a deployment fails, cells and report of an earlier image make the suite "complete", the cluster is torn down | bench:59-61: "ONLY if the run finished cleanly" |
| `suite_stale_cells` *with* `Foreign = {m1}`, SuiteRun | `OnlyOwnClustersDeleted` | a cluster that was adopted is recorded and deleted | bench:123: "teardown only touches what we created" |
| `suite_stale_cells` *with* `NoModeWithoutCluster` | `NoModeWithoutCluster` | `run_mode` ignores the exit status of cluster-up.sh | cluster-up.sh 89-91: "Fail HARD if the create fails" |
| `campaign_stands_down`, Campaign | `StandsDownClean` | a campaign still at work at the watchdog's deadline, or interrupted, creates a cluster between the watchdog's empty listing and its exit, or behind both; nobody watches from then on | teardown-watchdog.sh 44-45 |
| `tail` *with* `Headerless = TRUE`, LiveTail | `CountedAtFirstSight` | an answer without `stream-next-offset` leaves the reader's offset where it was (reads.rs 461), and the records it held are received and counted again; at the offset `now`, what comes in between is lost (`NoSilentLoss`) | reads.rs 43-44 |
| `watchdog_list_fault`, Campaign | `StandsDownForGood` | a failing `gcloud container clusters list` reads as no clusters, and the watchdog exits | teardown-watchdog.sh 42-45: "only stand down once truly clean" |

### Observed while modelling, without a run

* `bench <suite> teardown` beside a run of the suite deletes the clusters its subshells work
  on, and then removes the state file with the records made meanwhile; nothing locks
  the two against each other. In the model it needs `Beside`; `NothingTakenUnderWork`
  leaves the operator's teardown out, as it is the operator's decision.
* The campaign's trap is also that of INT and TERM (run-fullmatrix-2026-07-02.sh:39), and does
  not exit: bash goes on with the next command, so that an interrupted campaign may create
  clusters behind its own teardown, with its marker in place. The subshells of the
  interrupted suite ignore the signal and work on. `StandsDownForGood` therefore speaks of
  campaigns nobody interrupted; `ClustersNeverBillForever` does not need that.

* `bootstrap` neither checks that its setup succeeded nor pages, though a setup of records
  may be answered in part; `catch-up`, which is otherwise alike, does both. `bootstrap` takes
  503 for backpressure, the other loads 503 and 429.
* The snapshot task of `sustained` (sustained.rs:172) reads a histogram that its writers merge
  into only when they end, and prints nothing while it is empty: the time series it is for
  does not appear.
* A long-poll reader whose poll fails asks for the tail, and an SSE reader reconnects at
  `offset=now`: what was appended between is not delivered, though "every reader of a stream
  receives every append" (reads.rs:43-44). An SSE drop is not counted as an error, and
  an error before `measure_start` is not counted while what it loses may fall into the
  window. `NoSilentLoss` therefore speaks of readers without a fault.
* "warmup (uncounted) → settle (idle) → measure" (reads.rs:175): settle is not idle in
  `reads`; writers and readers run on through it, uncounted.

## 7 What is left out

* Histograms, percentiles, payloads, URL shapes of the four API styles, HTTP and SSE parsing
  (`common.rs`, `sse_util.rs`, most of `backend.rs`): data the properties do not tell
  apart.
* Reports and tables (`scripts/*_report.py`, `compare-cliff.py`), the suite parser, the
  metrics poller: formatting or I/O without a decision. `suite_status` of `report.py`
  decides about teardown and is in `SuiteRun`.
* Manifests, Dockerfiles, image builds, `cluster-down.sh`, the kind target.
* Of loads that are modelled: the snapshot task of `sustained`, how late an open-loop writer
  runs behind its schedule, the refusal of `reads` to run in more than one pod, and the
  intersection of windows that `dist.rs` publishes for the server's samples.
* An image that is pushed again in the middle of a run: an image is deployed once per
  invocation.
* Clocks: pods are taken to agree on the time of the go file. A pod whose clock is off by
  more than a quarter of a window would be caught by the window test of the merge as
  little as the code can catch it, since both compare pod clocks.

## 8 The plan

Done, in this order: the fleet barrier (everything else is worthless without it), the
walk, the suite, the partition and the pool, the sessions, the sweeps, the watchdog and
its campaign, the live-tail reads, the SSE loads (mixed first, then fanout and
multi-fanout beside it), the replay loads; proofs of the fleet, the walk, the partition, the
pool and its counts, the suite and its campaign, the sessions, the SSE loads, the replays,
the live-tail reads and the sweeps.

Next, to model:

1. Open-loop pacing (`multi_stream.rs`, `sustained.rs`, `mixed.rs`): due times, backlog,
   what coordinated omission leaves out.
2. The coordinator Job with its own leftovers (lib-bench.sh:339), as part of the fleet.
3. The intersection of windows that `dist.rs` publishes for the server's samples.

Next, to prove: a measure that each step of the scripts' loops moves down, which is the
safety side of `RunEnds`. That of `PassEnds` is `NobodyIsStranded`, that of
`RunReturns` and `ReplayReturns` is `BarrierOpens`.

## 9 How to run it

In this directory, with the community modules and the TLAPS library on the path:

    tlc -workers 2 -config fleet_passes.cfg MCFleetBarrier.tla
    tlc -workers 2 -config campaign.cfg Campaign.tla
    tlapm FleetBarrier_proofs.tla

PROJECT.json names the module and the configuration of every run, what each is expected
to show, the mutant of each property, and the source lines of every definition. The
longest run takes two to three minutes with two workers.
