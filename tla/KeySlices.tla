----------------------------- MODULE KeySlices ------------------------------
(***************************************************************************)
(* How the pool model of ds-bench/src/multi_stream.rs divides the global   *)
(* key domain [0, n) among pods and a pod's slice among its workers.  A    *)
(* slice is the half-open interval [lo, hi).                               *)
(***************************************************************************)
EXTENDS Integers

Slice(lo, hi) == [lo |-> lo, hi |-> hi]
Keys(s)       == s.lo .. s.hi - 1
Empty(s)      == s.lo = s.hi

AtLeastOne(n) == IF n < 1 THEN 1 ELSE n

\* split_range: part i of `parts` contiguous parts of s.
SplitRange(s, parts, i) ==
  LET n == s.hi - s.lo
  IN  Slice(s.lo + (i * n) \div AtLeastOne(parts),
            s.lo + ((i + 1) * n) \div AtLeastOne(parts))

\* pod_slice: DS_BENCH_INSTANCE is clamped to the last of DS_BENCH_SHARDS.
PodSlice(n, shards, inst) ==
  LET last == AtLeastOne(shards) - 1
  IN  SplitRange(Slice(0, n), shards, IF inst < last THEN inst ELSE last)

\* Mutant: every worker cycles the slice of its pod.
MutantWorkerSlice(s, conns, w) == s

\* run_pool: a worker whose part is empty cycles the whole slice of its pod,
\* from a start of its own.
WorkerSlice(s, conns, w) ==
  LET part == SplitRange(s, conns, w) IN IF Empty(part) THEN s ELSE part

WorkerPhase(s, conns, w) == IF Empty(SplitRange(s, conns, w)) THEN w ELSE 0

\* pool_worker: span is never 0, not even for an empty slice.
Span(s) == AtLeastOne(s.hi - s.lo)
=============================================================================
