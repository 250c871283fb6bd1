----------------------------- MODULE PoolAppend -----------------------------
(***************************************************************************)
(* The bounded-concurrency write load of ds-bench/src/multi_stream.rs      *)
(* (--connections > 0): every pod creates its slice of the global streams, *)
(* waits at the fleet barrier, and drives plain appends from a fixed       *)
(* number of workers through warm-up, settle and measure.  The server, the *)
(* network and the request timeout are external.  verify-offsets           *)
(* (ds-bench/src/verify.rs) compares what the pods counted with what the   *)
(* server holds.                                                           *)
(*                                                                         *)
(* One append is one unit: at batch > 1 both sides count `batch` of them.  *)
(***************************************************************************)
EXTENDS KeySlices, FiniteSets, Functions

CONSTANTS
  NPods,     \* DS_BENCH_SHARDS
  NStreams,  \* --streams, the global domain
  Conns,     \* --connections, workers per pod
  MaxSends,  \* bound: appends one worker starts
  Restarts,  \* bound: times the server loses its state
  Timeouts   \* bound: requests that time out

ASSUME PoolAssumption ==
  /\ NPods \in Nat \ {0} /\ NStreams \in Nat \ {0} /\ Conns \in Nat \ {0}
  /\ MaxSends \in Nat /\ Restarts \in Nat /\ Timeouts \in Nat

Pods    == 0 .. NPods - 1
Streams == 0 .. NStreams - 1
Workers == Pods \X (0 .. Conns - 1)

PodOf(p) == PodSlice(NStreams, NPods, p)
Own(w)   == WorkerSlice(PodOf(w[1]), Conns, w[2])

VARIABLES
  phase,    \* of each pod
  rr,       \* each worker's round-robin cursor
  at,       \* what each worker is doing
  target,   \* the stream of its request
  counting, \* decided before the request was sent
  reply,    \* what the server answered to it
  ok, okAll, bp, err, lazy, \* each pod's counters
  exists,   \* server: streams that exist
  records,  \* server: appends in each stream
  limbo,    \* requests the client gave up on, still on their way
  hits,     \* history: appends each worker started on each stream
  measured, \* history: appends each pod started in its measure window
  late,     \* history: appends the server took after the client gave up
  restarts, \* history: times the server lost its state
  timeouts  \* history: requests that timed out

counters == <<ok, okAll, bp, err, lazy>>
worker   == <<rr, at, target, counting, reply>>
server   == <<exists, records, limbo>>
history  == <<hits, measured, late, restarts, timeouts>>
vars     == <<phase, worker, counters, server, history>>

TypeOK ==
  /\ phase \in [Pods -> {"setup", "warmup", "settle", "measure", "over",
                         "done", "dead"}]
  /\ rr \in [Workers -> Nat]
  /\ at \in [Workers -> {"ready", "sent", "retried"}]
  /\ target \in [Workers -> Streams]
  /\ counting \in [Workers -> BOOLEAN]
  /\ reply \in [Workers -> {"none", "success", "missing", "busy", "failed"}]
  /\ ok \in [Pods -> Nat] /\ okAll \in [Pods -> Nat]
  /\ bp \in [Pods -> Nat] /\ err \in [Pods -> Nat] /\ lazy \in [Pods -> Nat]
  /\ exists \in SUBSET Streams
  /\ records \in [Streams -> Nat]
  /\ limbo \in [Streams -> Nat]
  /\ hits \in [Workers -> [Streams -> Nat]]
  /\ measured \in [Pods -> Nat]
  /\ late \in Nat /\ restarts \in Nat /\ timeouts \in Nat

Zero(S) == [x \in S |-> 0]

Init ==
  /\ phase = [p \in Pods |-> "setup"]
  /\ rr = [w \in Workers |->
             WorkerPhase(PodOf(w[1]), Conns, w[2]) % Span(Own(w))]
  /\ at = [w \in Workers |-> "ready"]
  /\ target = Zero(Workers)
  /\ counting = [w \in Workers |-> FALSE]
  /\ reply = [w \in Workers |-> "none"]
  /\ ok = Zero(Pods) /\ okAll = Zero(Pods)
  /\ bp = Zero(Pods) /\ err = Zero(Pods) /\ lazy = Zero(Pods)
  /\ exists = {} /\ records = Zero(Streams) /\ limbo = Zero(Streams)
  /\ hits = [w \in Workers |-> Zero(Streams)]
  /\ measured = Zero(Pods)
  /\ late = 0 /\ restarts = 0 /\ timeouts = 0

Bump(f, x) == [f EXCEPT ![x] = @ + 1]

-----------------------------------------------------------------------------
(***************************************************************************)
(* A pod: setup, barrier, phases, result.                                  *)
(***************************************************************************)

\* create_stream_range: every stream of the slice, existing ones tolerated.
SetupDone(p) ==
  /\ phase[p] = "setup"
  /\ exists' = exists \cup Keys(PodOf(p))
  /\ phase' = [phase EXCEPT ![p] = "warmup"]
  /\ UNCHANGED <<worker, counters, records, limbo, history>>

\* One create failed: run returns the error, the pod has no result.
SetupFails(p) ==
  /\ phase[p] = "setup"
  /\ \E made \in SUBSET Keys(PodOf(p)) : exists' = exists \cup made
  /\ phase' = [phase EXCEPT ![p] = "dead"]
  /\ UNCHANGED <<worker, counters, records, limbo, history>>

After == [warmup |-> "settle", settle |-> "measure", measure |-> "over"]

TimePasses(p) ==
  /\ phase[p] \in DOMAIN After
  /\ phase' = [phase EXCEPT ![p] = After[phase[p]]]
  /\ UNCHANGED <<worker, counters, server, history>>

\* run_pool joins its workers, then returns the counts.
Finish(p) ==
  /\ phase[p] = "over"
  /\ \A w \in Workers : w[1] = p => at[w] = "ready"
  /\ phase' = [phase EXCEPT ![p] = "done"]
  /\ UNCHANGED <<worker, counters, server, history>>

-----------------------------------------------------------------------------
(***************************************************************************)
(* A worker: pool_worker.                                                  *)
(***************************************************************************)
Sends(w) == SumFunction(hits[w])

\* Mutant: the cursor never moves.
MutantSendStuck(w) ==
  LET s == Own(w).lo + rr[w] IN
  /\ at[w] = "ready" /\ phase[w[1]] \in {"warmup", "measure"}
  /\ Sends(w) < MaxSends
  /\ counting' = [counting EXCEPT ![w] = phase[w[1]] = "measure"]
  /\ target' = [target EXCEPT ![w] = s]
  /\ at' = [at EXCEPT ![w] = "sent"]
  /\ hits' = [hits EXCEPT ![w] = Bump(@, s)]
  /\ measured' = IF phase[w[1]] = "measure" THEN Bump(measured, w[1]) ELSE measured
  /\ UNCHANGED <<phase, rr, reply, counters, server, late, restarts, timeouts>>

\* The top of the loop: idle in settle, stop at the deadline, else pick the next
\* stream and send.  Whether the append counts is decided here.
Send(w) ==
  LET s == Own(w).lo + rr[w] IN
  /\ at[w] = "ready" /\ phase[w[1]] \in {"warmup", "measure"}
  /\ Sends(w) < MaxSends
  /\ counting' = [counting EXCEPT ![w] = phase[w[1]] = "measure"]
  /\ target' = [target EXCEPT ![w] = s]
  /\ rr' = [rr EXCEPT ![w] = (@ + 1) % Span(Own(w))]
  /\ at' = [at EXCEPT ![w] = "sent"]
  /\ hits' = [hits EXCEPT ![w] = Bump(@, s)]
  /\ measured' = IF phase[w[1]] = "measure" THEN Bump(measured, w[1]) ELSE measured
  /\ UNCHANGED <<phase, reply, counters, server, late, restarts, timeouts>>

Counted(w, f) == IF counting[w] THEN Bump(f, w[1]) ELSE f

Rest(w) ==
  /\ at' = [at EXCEPT ![w] = "ready"]
  /\ reply' = [reply EXCEPT ![w] = "none"]

\* Mutant: only the measure window's successes reach ok_total_all_phases.
MutantOnSuccess(w) ==
  /\ reply[w] = "success"
  /\ okAll' = Counted(w, okAll) /\ ok' = Counted(w, ok)
  /\ Rest(w)
  /\ UNCHANGED <<phase, rr, target, counting, bp, err, lazy, server, history>>

\* 2xx, on the first request or on the retry behind a create.
OnSuccess(w) ==
  /\ reply[w] = "success"
  /\ okAll' = Bump(okAll, w[1])
  /\ ok' = Counted(w, ok)
  /\ Rest(w)
  /\ UNCHANGED <<phase, rr, target, counting, bp, err, lazy, server, history>>

\* 404 on the first request: create the stream and send once more.
OnMissingCreates(w) ==
  /\ reply[w] = "missing" /\ at[w] = "sent"
  /\ lazy' = Bump(lazy, w[1])
  /\ exists' = exists \cup {target[w]}
  /\ at' = [at EXCEPT ![w] = "retried"]
  /\ reply' = [reply EXCEPT ![w] = "none"]
  /\ UNCHANGED <<phase, rr, target, counting, ok, okAll, bp, err, records,
                 limbo, history>>

\* Mutant: a failed create is no error of the append.
MutantGivesUpSilently(w) ==
  /\ reply[w] = "missing" /\ at[w] = "sent"
  /\ lazy' = Bump(lazy, w[1])
  /\ Rest(w)
  /\ UNCHANGED <<phase, rr, target, counting, ok, okAll, bp, err, server,
                 history>>

\* The create failed for the client, whatever the server made of it.
OnMissingGivesUp(w) ==
  /\ reply[w] = "missing" /\ at[w] = "sent"
  /\ \E made \in SUBSET {target[w]} : exists' = exists \cup made
  /\ lazy' = Bump(lazy, w[1])
  /\ err' = Counted(w, err)
  /\ Rest(w)
  /\ UNCHANGED <<phase, rr, target, counting, ok, okAll, bp, records, limbo,
                 history>>

\* Mutant: the append is sent again, whatever the time.
MutantOnBusyRetries(w) ==
  /\ reply[w] = "busy" /\ at[w] = "sent"
  /\ reply' = [reply EXCEPT ![w] = "none"]
  /\ UNCHANGED <<phase, rr, at, target, counting, ok, okAll, bp, err, lazy, server,
                 history>>

\* 503 or 429 on the first request: backpressure, then a short sleep.
OnBusy(w) ==
  /\ reply[w] = "busy" /\ at[w] = "sent"
  /\ bp' = Counted(w, bp)
  /\ Rest(w)
  /\ UNCHANGED <<phase, rr, target, counting, ok, okAll, err, lazy, server,
                 history>>

\* Any other answer; on the retry any answer but 2xx.
OnFailure(w) ==
  /\ \/ reply[w] = "failed"
     \/ at[w] = "retried" /\ reply[w] \in {"missing", "busy"}
  /\ err' = Counted(w, err)
  /\ Rest(w)
  /\ UNCHANGED <<phase, rr, target, counting, ok, okAll, bp, lazy, server,
                 history>>

\* No answer within request_timeout_secs: an error for the client, while the
\* request may still be on its way.
OnTimeout(w) ==
  /\ at[w] # "ready" /\ reply[w] = "none" /\ timeouts < Timeouts
  /\ timeouts' = timeouts + 1
  /\ limbo' = Bump(limbo, target[w])
  /\ err' = Counted(w, err)
  /\ Rest(w)
  /\ UNCHANGED <<phase, rr, target, counting, ok, okAll, bp, lazy, exists,
                 records, hits, measured, late, restarts>>

-----------------------------------------------------------------------------
(***************************************************************************)
(* The server (external).                                                  *)
(***************************************************************************)
Pending(w) == at[w] # "ready" /\ reply[w] = "none"

Answer(w, r) == reply' = [reply EXCEPT ![w] = r]

ServerAppends(w) ==
  /\ Pending(w) /\ target[w] \in exists
  /\ records' = Bump(records, target[w])
  /\ Answer(w, "success")
  /\ UNCHANGED <<phase, rr, at, target, counting, counters, exists, limbo,
                 history>>

ServerRefuses(w) ==
  /\ Pending(w)
  /\ \/ target[w] \notin exists /\ Answer(w, "missing")
     \/ target[w] \in exists /\ \E r \in {"busy", "failed"} : Answer(w, r)
  /\ UNCHANGED <<phase, rr, at, target, counting, counters, server, history>>

\* A request nobody waits for any more reaches the server, or does not.
LateArrival(s) ==
  /\ limbo[s] > 0
  /\ limbo' = [limbo EXCEPT ![s] = @ - 1]
  /\ \/ s \in exists /\ records' = Bump(records, s) /\ late' = late + 1
     \/ UNCHANGED <<records, late>>
  /\ UNCHANGED <<phase, worker, counters, exists, hits, measured, restarts,
                 timeouts>>

\* The server restarts without its state.
ServerRestarts ==
  /\ restarts < Restarts
  /\ restarts' = restarts + 1
  /\ exists' = {} /\ records' = Zero(Streams)
  /\ UNCHANGED <<phase, worker, counters, limbo, hits, measured, late, timeouts>>

-----------------------------------------------------------------------------
PodNext(p) == SetupDone(p) \/ SetupFails(p) \/ TimePasses(p) \/ Finish(p)

Reacts(w) ==
  \/ OnSuccess(w) \/ OnMissingCreates(w) \/ OnMissingGivesUp(w)
  \/ OnBusy(w) \/ OnFailure(w) \/ OnTimeout(w)

ServerNext(w) == ServerAppends(w) \/ ServerRefuses(w)

Next ==
  \/ \E p \in Pods : PodNext(p)
  \/ \E w \in Workers : Send(w) \/ Reacts(w) \/ ServerNext(w)
  \/ \E s \in Streams : LateArrival(s)
  \/ ServerRestarts

Spec == Init /\ [][Next]_vars

\* Time passes, workers react, and a request is answered or times out.
FairSpec ==
  /\ Spec
  /\ \A p \in Pods : WF_vars(PodNext(p))
  /\ \A w \in Workers : WF_vars(Reacts(w) \/ ServerNext(w))

-----------------------------------------------------------------------------
(***************************************************************************)
(* Properties.                                                             *)
(***************************************************************************)
Total(f) == SumFunction(f)

\* Appends the server has taken and the client has yet to hear of.
Unheard == Cardinality({w \in Workers : reply[w] = "success"})

\* Server-side truth and client counts differ by exactly the appends whose
\* answer is still on its way and those whose request had timed out: no path of
\* pool_worker, retry behind a create included, counts an append twice or drops
\* one that was acknowledged.
ServerMatchesClients ==
  restarts = 0 => Total(records) = Total(okAll) + Unheard + late

\* The server's record count "must equal the fleet's summed client-observed
\* successes" (verify.rs 4-6) once every pod has its result.
VerifyExact ==
  (\A p \in Pods : phase[p] = "done") /\ restarts = 0 =>
    Total(records) = Total(okAll)

\* Every append a pod started in its measure window is accounted for once: as a
\* success, backpressure, an error, or still under way; appends of the warm-up
\* that are answered later never are.
MeasuredAccounted ==
  \A p \in Pods :
    measured[p] = ok[p] + bp[p] + err[p]
      + Cardinality({w \in Workers : w[1] = p /\ at[w] # "ready" /\ counting[w]})

\* "no two pods ... ever contend on the same stream" (multi_stream.rs 62-64), as
\* long as there is a stream for every pod.
PodsNeverContend ==
  NStreams >= NPods =>
    \A v, w \in Workers :
      v[1] # w[1] /\ at[v] # "ready" /\ at[w] # "ready" => target[v] # target[w]

\* "no two pods (or workers) ever contend on the same stream's appender lock"
\* (multi_stream.rs 62-64), for whatever number of connections.
WorkersNeverContend ==
  \A v, w \in Workers :
    v # w /\ at[v] # "ready" /\ at[w] # "ready" => target[v] # target[w]

\* "keep perpod >= connections in suites" (run_pool): with a stream for every
\* worker of the fleet, no two of them ever append to the same one at once.
WorkersApart == NStreams >= NPods * Conns => WorkersNeverContend

\* "every key is covered evenly" (multi_stream.rs 62), as long as there is a stream
\* for every pod (a pod without one sends to a neighbour's): a worker starts as many
\* appends on one of its streams as on another, give or take one, and none on a
\* stream that is not its own.
EvenCoverage ==
  NStreams >= NPods =>
    \A w \in Workers : \A s, t \in Streams :
      IF s \in Keys(Own(w)) /\ t \in Keys(Own(w))
        THEN hits[w][s] - hits[w][t] <= 1
        ELSE s \notin Keys(Own(w)) => hits[w][s] = 0

\* A pod whose window is over delivers its result: no request is waited for
\* forever.
ResultDelivered == \A p \in Pods : phase[p] = "over" ~> phase[p] = "done"
=============================================================================
