-------------------------- MODULE ProducerSession ---------------------------
(***************************************************************************)
(* The writers of ds-bench that append through an idempotent producer      *)
(* session: run_writer of multi_stream.rs (--connections 0) and of         *)
(* sustained.rs, run_appender of append.rs.  A writer sends one append at  *)
(* a time, numbered by seq under epoch 0, and moves seq on when the append *)
(* succeeds.  The server, external, keeps one session per stream and       *)
(* producer id: it takes the number it expects, recognises one it has had, *)
(* and refuses one beyond.                                                 *)
(*                                                                         *)
(* The three workloads differ in how a pod names streams and producers,    *)
(* which decides whether two pods of the fleet can meet in one session.    *)
(* Pacing (rate_per_stream) is left out: it delays a Send.                 *)
(***************************************************************************)
EXTENDS Naturals, FiniteSets

CONSTANTS
  Pods,      \* DS_BENCH_INSTANCE of the fleet's pods
  Indices,   \* writers of each pod: 0 .. streams-1, or 0 .. connections-1
  Workload,  \* which of the three subcommands the fleet runs
  MaxSends   \* bound: appends one writer starts

Workloads == {"multi-stream", "append", "sustained"}

ASSUME SessionAssumption ==
  /\ IsFiniteSet(Pods) /\ IsFiniteSet(Indices)
  /\ Workload \in Workloads
  /\ MaxSends \in Nat

Writers == Pods \X Indices

\* The stream and the producer id of a writer.  multi-stream prefixes the stream
\* with the pod's instance, append the producer id; sustained does neither.
Session(w) ==
  CASE Workload = "multi-stream" -> <<w, w[2]>>
    [] Workload = "append"       -> <<"stream", w>>
    [] Workload = "sustained"    -> <<w[2], w[2]>>

Sessions == {Session(w) : w \in Writers}

VARIABLES
  phase,    \* of each pod
  at,       \* whether a writer has a request under way
  seq,      \* the number of each writer's next append
  counting, \* decided before the request was sent
  reply,    \* what the server answered to it
  ok, bp, err, \* each pod's counters
  next,     \* server: the number each session expects, so its appends so far
  limbo,    \* requests the client gave up on, still on their way
  acked,    \* history: successes each writer saw
  sends     \* history: appends each writer started

writer   == <<at, seq, counting, reply>>
counters == <<ok, bp, err>>
server   == <<next, limbo>>
history  == <<acked, sends>>
sessionVars == <<phase, writer, counters, server, history>>

SessionTypeOK ==
  /\ phase \in [Pods -> {"warmup", "settle", "measure", "over"}]
  /\ at \in [Writers -> {"ready", "sent"}]
  /\ seq \in [Writers -> Nat]
  /\ counting \in [Writers -> BOOLEAN]
  /\ reply \in [Writers -> {"none", "success", "busy", "failed", "gap"}]
  /\ ok \in [Pods -> Nat] /\ bp \in [Pods -> Nat] /\ err \in [Pods -> Nat]
  /\ next \in [Sessions -> Nat]
  /\ limbo \in SUBSET (Sessions \X Nat)
  /\ acked \in [Writers -> Nat]
  /\ sends \in [Writers -> Nat]

\* Only multi-stream has a warm-up.
FirstPhase == IF Workload = "multi-stream" THEN "warmup" ELSE "measure"

SessionInit ==
  /\ phase = [p \in Pods |-> FirstPhase]
  /\ at = [w \in Writers |-> "ready"]
  /\ seq = [w \in Writers |-> 0]
  /\ counting = [w \in Writers |-> FALSE]
  /\ reply = [w \in Writers |-> "none"]
  /\ ok = [p \in Pods |-> 0] /\ bp = [p \in Pods |-> 0] /\ err = [p \in Pods |-> 0]
  /\ next = [s \in Sessions |-> 0]
  /\ limbo = {}
  /\ acked = [w \in Writers |-> 0]
  /\ sends = [w \in Writers |-> 0]

Bump(f, x) == [f EXCEPT ![x] = @ + 1]

-----------------------------------------------------------------------------
(***************************************************************************)
(* The pods and their writers.                                             *)
(***************************************************************************)
After == [warmup |-> "settle", settle |-> "measure", measure |-> "over"]

TimePasses(p) ==
  /\ phase[p] \in DOMAIN After
  /\ phase' = [phase EXCEPT ![p] = After[phase[p]]]
  /\ UNCHANGED <<writer, counters, server, history>>

\* The top of the loop; an append that failed is sent again under its number.
Send(w) ==
  /\ at[w] = "ready" /\ phase[w[1]] \in {"warmup", "measure"}
  /\ sends[w] < MaxSends
  /\ at' = [at EXCEPT ![w] = "sent"]
  /\ counting' = [counting EXCEPT ![w] = phase[w[1]] = "measure"]
  /\ sends' = Bump(sends, w)
  /\ UNCHANGED <<phase, seq, reply, counters, server, acked>>

Counted(w, f) == IF counting[w] THEN Bump(f, w[1]) ELSE f

Rest(w) ==
  /\ at' = [at EXCEPT ![w] = "ready"]
  /\ reply' = [reply EXCEPT ![w] = "none"]

\* Mutant: seq advances in the measure window only.
MutantOnSuccess(w) ==
  /\ reply[w] = "success"
  /\ seq' = IF counting[w] THEN Bump(seq, w) ELSE seq
  /\ ok' = Counted(w, ok)
  /\ acked' = Bump(acked, w)
  /\ Rest(w)
  /\ UNCHANGED <<phase, counting, bp, err, server, sends>>

\* seq advances in every phase: one continuous session.
OnSuccess(w) ==
  /\ reply[w] = "success"
  /\ seq' = Bump(seq, w)
  /\ ok' = Counted(w, ok)
  /\ acked' = Bump(acked, w)
  /\ Rest(w)
  /\ UNCHANGED <<phase, counting, bp, err, server, sends>>

OnBusy(w) ==
  /\ reply[w] = "busy"
  /\ bp' = Counted(w, bp)
  /\ Rest(w)
  /\ UNCHANGED <<phase, seq, counting, ok, err, server, history>>

\* Any other status.
OnFailure(w) ==
  /\ reply[w] \in {"failed", "gap"}
  /\ err' = Counted(w, err)
  /\ Rest(w)
  /\ UNCHANGED <<phase, seq, counting, ok, bp, server, history>>

\* Mutant: a request without an answer is taken for lost, and skipped.
MutantOnTimeout(w) ==
  /\ at[w] = "sent" /\ reply[w] = "none"
  /\ limbo' = limbo \cup {<<Session(w), seq[w]>>}
  /\ err' = Counted(w, err)
  /\ seq' = Bump(seq, w)
  /\ Rest(w)
  /\ UNCHANGED <<phase, counting, ok, bp, next, history>>

\* No answer within request_timeout_secs: an error for the client, while the
\* request, or its answer, may still be on its way.
OnTimeout(w) ==
  /\ at[w] = "sent" /\ reply[w] = "none"
  /\ limbo' = limbo \cup {<<Session(w), seq[w]>>}
  /\ err' = Counted(w, err)
  /\ Rest(w)
  /\ UNCHANGED <<phase, seq, counting, ok, bp, next, history>>

-----------------------------------------------------------------------------
(***************************************************************************)
(* The server (external).                                                  *)
(***************************************************************************)
Pending(w) == at[w] = "sent" /\ reply[w] = "none"

Answer(w, r) == reply' = [reply EXCEPT ![w] = r]

\* The expected number is appended, even if the answer is an error.
ServerAppends(w) ==
  /\ Pending(w) /\ seq[w] = next[Session(w)]
  /\ next' = Bump(next, Session(w))
  /\ \E r \in {"success", "failed"} : Answer(w, r)
  /\ UNCHANGED <<phase, at, seq, counting, counters, limbo, history>>

\* A number the session has had is "deduped/409'd" (append.rs 214-217); for one
\* beyond, the server "returns 409 on gaps" (catch_up.rs 168).
ServerRecognises(w) ==
  /\ Pending(w) /\ seq[w] # next[Session(w)]
  /\ \E r \in IF seq[w] < next[Session(w)] THEN {"success", "failed"} ELSE {"gap"} :
       Answer(w, r)
  /\ UNCHANGED <<phase, at, seq, counting, counters, server, history>>

ServerRefuses(w) ==
  /\ Pending(w)
  /\ \E r \in {"busy", "failed"} : Answer(w, r)
  /\ UNCHANGED <<phase, at, seq, counting, counters, server, history>>

\* A request nobody waits for any more arrives, in whatever order, or is lost.
LateArrival(req) ==
  /\ limbo' = limbo \ {req}
  /\ \/ next[req[1]] = req[2] /\ next' = Bump(next, req[1])
     \/ UNCHANGED next
  /\ UNCHANGED <<phase, writer, counters, history>>

Reacts(w)     == OnSuccess(w) \/ OnBusy(w) \/ OnFailure(w) \/ OnTimeout(w)
ServerNext(w) == ServerAppends(w) \/ ServerRecognises(w) \/ ServerRefuses(w)

SessionNext ==
  \/ \E p \in Pods : TimePasses(p)
  \/ \E w \in Writers : Send(w) \/ Reacts(w) \/ ServerNext(w)
  \/ \E req \in limbo : LateArrival(req)

SessionSpec == SessionInit /\ [][SessionNext]_sessionVars

-----------------------------------------------------------------------------
(***************************************************************************)
(* Properties.                                                             *)
(***************************************************************************)

\* Every success a writer reports is a record of its own on the server, and at
\* most one record per writer is unreported: retrying under the same number
\* neither loses nor doubles an append, however requests are delayed.
SuccessesAreRecords ==
  \A w \in Writers :
    /\ acked[w] <= next[Session(w)]
    /\ next[Session(w)] <= acked[w] + 1

\* The records behind the successes of two writers are distinct: appends that
\* collide "on (producer_id, seq)" are deduplicated "and inflate the reported
\* aggregate_ops_per_sec" (append.rs 214-217; multi_stream.rs 149-152).
SuccessesNeverShared ==
  \A v, w \in Writers :
    v # w /\ Session(v) = Session(w) =>
      acked[v] + acked[w] <= next[Session(w)]

\* A writer's numbers never run ahead of its session: the server has no reason
\* to refuse one, which would fail every later append of that writer too.
NoGap == \A w \in Writers : reply[w] # "gap"

=============================================================================
