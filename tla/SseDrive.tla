------------------------------ MODULE SseDrive ------------------------------
(***************************************************************************)
(* The three loads of ds-bench that deliver by SSE: `mixed` (mixed.rs),    *)
(* `fanout` (fanout.rs) and `multi-fanout` (multi_fanout.rs).  In each a   *)
(* pod creates streams, its tasks meet at a tokio Barrier, agree on a      *)
(* deadline through a OnceCell and load the same streams until it:         *)
(* subscribers that hold a connection, open-loop writers and, in `mixed`,  *)
(* catch-up readers.  `multi-fanout` splits one load over several pods.    *)
(*                                                                         *)
(* Time is a discrete clock; a task may be late for any of its steps.  A   *)
(* replay of catch_up_read_all is one request, a response with its short   *)
(* backoff one step; latencies, bytes and event counters are left out.     *)
(***************************************************************************)
EXTENDS Integers, FiniteSets

CONSTANTS
  Runs,     \* the command lines that are run, see RunArgs
  Grace,    \* the 2 s a subscriber listens on behind the deadline
  IdleFloor, \* the 10 s below which the idle limit of mixed and multi-fanout is not set
  Slack,    \* the 5 s over it that a fanout run gives its subscribers to end
  ConnectFor,     \* the 60 s a multi-fanout subscriber tries to connect
  MaxStart, \* bound: the clock before a deadline is set
  MaxTime,  \* bound: the clock
  None

Commands == {"mixed", "fanout", "multi-fanout"}

\* Of mixed, writers are those of each stream; of multi-fanout, subs.  A pace is the
\* ticks between two requests of a task, 0 if it is unpaced.  warmup is --warmup-secs
\* and --settle-secs of multi-fanout, idle --subscriber-idle-timeout-secs of fanout,
\* timeout the HTTP client's, bodies included.
RunArgs ==
  [command : Commands, pods : Nat \ {0}, streams : Nat \ {0}, writers : Nat,
   subs : Nat, readers : Nat, writerPace : Nat, readerPace : Nat,
   warmup : Nat, duration : Nat, idle : Nat, timeout : Nat \ {0}]

ASSUME DriveAssumption ==
  /\ Runs \subseteq RunArgs
  /\ \A a \in Runs :
       /\ a.command # "multi-fanout" => a.pods = 1 /\ a.warmup = 0
       /\ a.command # "mixed" => a.writers = 1 /\ a.readers = 0 /\ a.writerPace > 0
       /\ a.command = "fanout" => a.streams = 1
  /\ {Grace, IdleFloor, Slack, ConnectFor, MaxStart, MaxTime} \subseteq Nat
  /\ None \notin Nat

VARIABLES
  args,     \* the command line
  now,      \* the clock
  pod,      \* where the run of each pod stands
  drainBy,  \* when a fanout run stops to wait for its subscribers
  created,  \* streams that exist
  pc,       \* where each task stands
  conn,     \* each subscriber's connection
  from,     \* the records in its stream when it was opened
  sub,      \* the locals of each subscriber, see Locals
  deadline, \* deadline_cell of each pod
  own,      \* the deadline each writer and reader goes by
  due,      \* when the next request is due; of one in flight that is unpaced, when it
            \* was sent
  log,      \* records appended to each stream by the writers
  late,     \* history: requests sent at the deadline or behind it
  missed,   \* history: chunks of records in the measured window, not recorded
  stray     \* history: the phases outside of it in which records were recorded

podVars == <<args, pod, drainBy, created>>
subVars == <<conn, from, sub, missed, stray>>
reqVars == <<own, due, late>>
vars == <<now, podVars, pc, subVars, deadline, reqVars, log>>
-----------------------------------------------------------------------------
(***************************************************************************)
(* Tasks, and the pod each belongs to.                                     *)
(***************************************************************************)
Numbered(kind, n) == {<<kind, i>> : i \in 0 .. n - 1}

SubCount(a) == IF a.command = "multi-fanout" THEN a.streams * a.subs ELSE a.subs
WriterCount(a) == a.streams * a.writers

SubscribersOf(a) == Numbered("sub", SubCount(a))
WritersOf(a)     == Numbered("writer", WriterCount(a))
ReadersOf(a)     == Numbered("reader", a.readers)

Subscribers == SubscribersOf(args)
Writers     == WritersOf(args)
Readers     == ReadersOf(args)
Requesters  == Writers \cup Readers
Tasks       == Subscribers \cup Requesters

Streams == 0 .. args.streams - 1
Pods    == 0 .. args.pods - 1

StreamOf(t) ==
  IF t[1] = "sub" /\ args.command = "multi-fanout"
  THEN t[2] \div args.subs
  ELSE t[2] % args.streams

\* sub_global_idx % k, stream_idx % k; 0 where there is one pod.
PodOf(t)  == t[2] % args.pods
TasksOf(p) == {t \in Tasks : PodOf(t) = p}
Owned(p)   == {st \in Streams : st % args.pods = p}

\* count_cong: how many of 0..n-1 are p modulo the pods.
CountCong(n, p) == IF p >= n THEN 0 ELSE (n - 1 - p) \div args.pods + 1

BarrierSize(p) ==
  LET n == CountCong(SubCount(args), p) + CountCong(WriterCount(args), p) + CountCong(args.readers, p)
  IN  IF n = 0 THEN 1 ELSE n

Pace(t) == IF t[1] = "reader" THEN args.readerPace ELSE args.writerPace

\* A reader's share of one interval.
Stagger(t) == (Pace(t) * t[2]) \div args.readers

\* Where the clock stands: in front of the measured window, in it, in the time a
\* subscriber listens on behind its end, or behind that.
Phase(end) ==
  IF end = None \/ now + args.duration < end THEN "before"
  ELSE IF now < end THEN "window"
  ELSE IF now < end + Grace THEN "drain" ELSE "behind"

Driving(t) == pod[PodOf(t)] \in {"drive", "drain"}

\* A subscriber's idle limit.
Idle ==
  IF args.command = "fanout" THEN args.idle
  ELSE IF args.timeout > IdleFloor THEN args.timeout ELSE IdleFloor

Goto(t, place) == pc' = [pc EXCEPT ![t] = place]

Earlier(a, b) == IF a < b THEN a ELSE b

Places == {"start", "waiting", "released", "check", "wait", "stagger", "pace",
           "flight", "done"}

\* opened: when the connection was opened; got: the records it delivered; owed: the
\* server has a control event for it; last: last_event_at; by: when the wait for a
\* connection or a chunk times out; end: the deadline that was read before it.
Locals == [opened : Nat, got : Nat, owed : BOOLEAN, last : Nat, by : Nat,
           end : Nat \cup {None}]

\* Before a task has any, and after it returned.
NoLocals == [opened |-> 0, got |-> 0, owed |-> TRUE, last |-> 0, by |-> 0, end |-> None]

TypeOK ==
  /\ args \in Runs
  /\ now \in Nat /\ drainBy \in Nat
  /\ pod \in [Pods -> {"setup", "drive", "drain", "done", "failed"}]
  /\ created \subseteq Streams
  /\ pc \in [Tasks -> Places]
  /\ conn \in [Subscribers -> {"none", "open", "failed", "dropped", "cut"}]
  /\ sub \in [Subscribers -> Locals]
  /\ {from, missed} \subseteq [Subscribers -> Nat]
  /\ stray \in [Subscribers -> SUBSET {"before", "drain", "behind"}]
  /\ deadline \in [Pods -> Nat \cup {None}]
  /\ own \in [Requesters -> Nat \cup {None}]
  /\ {due, late} \subseteq [Requesters -> Nat]
  /\ log \in [Streams -> Nat]

\* The names of the streams are fixed: they may be there from an earlier run.
Init ==
  /\ args \in Runs
  /\ now = 0 /\ drainBy = 0
  /\ pod = [p \in Pods |-> "setup"]
  /\ created \in {{}, Streams}
  /\ pc = [t \in Tasks |-> "start"]
  /\ conn = [s \in Subscribers |-> "none"]
  /\ from = [s \in Subscribers |-> 0] /\ missed = from
  /\ stray = [s \in Subscribers |-> {}]
  /\ sub = [s \in Subscribers |-> NoLocals]
  /\ deadline = [p \in Pods |-> None]
  /\ own = [t \in Requesters |-> None]
  /\ due = [t \in Requesters |-> 0] /\ late = due
  /\ log = [st \in Streams |-> 0]
-----------------------------------------------------------------------------
(***************************************************************************)
(* Setup: ensure_namespace, create_streams and, in mixed, preload_streams, *)
(* whose failed appends are ignored.  A pod creates the streams it owns.   *)
(***************************************************************************)
Creates(st) ==
  /\ pod[st % args.pods] = "setup" /\ st \notin created
  /\ created' = created \cup {st}
  /\ UNCHANGED <<args, now, pod, drainBy, pc, subVars, deadline, reqVars, log>>

SetupFails(p) ==
  /\ pod[p] = "setup"
  /\ pod' = [pod EXCEPT ![p] = "failed"]
  /\ UNCHANGED <<args, now, drainBy, created, pc, subVars, deadline, reqVars, log>>

\* The tasks are spawned; the subscribers' attempts to connect begin.
SetupDone(p) ==
  /\ pod[p] = "setup" /\ Owned(p) \subseteq created
  /\ pod' = [pod EXCEPT ![p] = "drive"]
  /\ sub' = [s \in Subscribers |->
               IF PodOf(s) = p THEN [NoLocals EXCEPT !.by = now + ConnectFor] ELSE sub[s]]
  /\ UNCHANGED <<args, now, drainBy, created, pc, conn, from, missed, stray,
                 deadline, reqVars, log>>

-----------------------------------------------------------------------------
(***************************************************************************)
(* The start barrier of a pod: the last task to arrive releases all.       *)
(***************************************************************************)

\* Mutant: a writer does not wait for the others.
MutantArrive(t) ==
  LET waiting == {u \in TasksOf(PodOf(t)) : pc[u] = "waiting"} IN
  IF t[1] = "writer" \/ Cardinality(waiting) + 1 = BarrierSize(PodOf(t))
  THEN pc' = [u \in Tasks |-> IF u = t \/ u \in waiting THEN "released" ELSE pc[u]]
  ELSE Goto(t, "waiting")

Arrive(t) ==
  LET waiting == {u \in TasksOf(PodOf(t)) : pc[u] = "waiting"} IN
  IF Cardinality(waiting) + 1 = BarrierSize(PodOf(t))
  THEN pc' = [u \in Tasks |-> IF u = t \/ u \in waiting THEN "released" ELSE pc[u]]
  ELSE Goto(t, "waiting")

-----------------------------------------------------------------------------
(***************************************************************************)
(* run_subscriber_task, and run_subscriber of fanout.rs: the connection.   *)
(***************************************************************************)
Connects(s) ==
  /\ pc[s] = "start" /\ Driving(s) /\ StreamOf(s) \in created
  /\ conn' = [conn EXCEPT ![s] = "open"]
  /\ from' = [from EXCEPT ![s] = log[StreamOf(s)]]
  /\ sub' = [sub EXCEPT ![s] = [NoLocals EXCEPT !.opened = now]]
  /\ Arrive(s)
  /\ UNCHANGED <<now, podVars, missed, stray, deadline, reqVars, log>>

\* A subscriber that could not connect.
Unconnected(s) ==
  /\ conn' = [conn EXCEPT ![s] = "failed"]
  /\ sub' = [sub EXCEPT ![s] = NoLocals]
  /\ UNCHANGED <<now, podVars, from, missed, stray, deadline, reqVars, log>>

\* mixed: one attempt, and "cross the barrier regardless of outcome".
ConnectFails(s) ==
  /\ args.command = "mixed"
  /\ pc[s] = "start" /\ Driving(s)
  /\ Unconnected(s) /\ Arrive(s)

\* Mutant: a subscriber that cannot connect returns before the barrier.
MutantGivesUp(s) ==
  /\ args.command = "multi-fanout"
  /\ pc[s] = "start" /\ Driving(s) /\ now >= sub[s].by
  /\ Unconnected(s) /\ Goto(s, "done")

\* multi-fanout: attempts until the connect deadline; the stream may be another
\* pod's, and not there yet.
GivesUp(s) ==
  /\ args.command = "multi-fanout"
  /\ pc[s] = "start" /\ Driving(s) /\ now >= sub[s].by
  /\ Unconnected(s) /\ Arrive(s)

\* fanout: one attempt, and an error return that does not pass the barrier.
ReturnsUnconnected(s) ==
  /\ args.command = "fanout"
  /\ pc[s] = "start" /\ Driving(s)
  /\ Unconnected(s) /\ Goto(s, "done")

ReturnsFailed(s) ==
  /\ pc[s] = "released" /\ Driving(s) /\ conn[s] = "failed"
  /\ Goto(s, "done")
  /\ UNCHANGED <<now, podVars, subVars, deadline, reqVars, log>>

-----------------------------------------------------------------------------
(***************************************************************************)
(* A subscriber's loop over the chunks of its connection.                  *)
(***************************************************************************)
\* The timeout of the wait for the next chunk.
Patience(end) ==
  IF end = None THEN Idle
  ELSE Earlier((IF now < end THEN end - now ELSE 0) + Grace, Idle)

Expired(end) == end # None /\ now >= end + Grace

ReadsDeadline(s) == deadline[PodOf(s)]

\* The loop is left.
Ends(s) == sub' = [sub EXCEPT ![s] = NoLocals] /\ Goto(s, "done")

\* The head of the loop: the deadline is read, and a chunk awaited.  There is no await
\* between a chunk and the next head: they are one step.
Awaits(s, locals) ==
  LET end == ReadsDeadline(s) IN
  IF Expired(end)
  THEN Ends(s)
  ELSE /\ sub' = [sub EXCEPT ![s] = [locals EXCEPT !.by = now + Patience(end), !.end = end]]
       /\ Goto(s, "wait")

Listens(s) ==
  /\ pc[s] = "released" /\ Driving(s) /\ conn[s] = "open"
  /\ Awaits(s, [sub[s] EXCEPT !.last = now])
  /\ UNCHANGED <<now, podVars, conn, from, missed, stray, deadline, reqVars, log>>

\* The client's timeout has not ended the response.
Live(s) == now < sub[s].opened + args.timeout

\* Mutant: deliveries of the warmup are recorded too.
MutantRecords(s) == args.command = "multi-fanout" => sub[s].end # None

\* Whether the latencies go into the histogram: of multi-fanout by the deadline read
\* before the wait, from the measured window on; else always.
Records(s) ==
  args.command = "multi-fanout" => sub[s].end # None /\ now + args.duration >= sub[s].end

\* A chunk with one record or more.  A ready chunk wins over the wait's timeout.
Receives(s) ==
  /\ pc[s] = "wait" /\ Driving(s) /\ Live(s)
  /\ \E n \in 1 .. log[StreamOf(s)] - from[s] - sub[s].got :
       Awaits(s, [sub[s] EXCEPT !.got = @ + n, !.owed = TRUE, !.last = now])
  /\ LET phase == Phase(deadline[PodOf(s)]) IN
     /\ missed' = [missed EXCEPT ![s] = IF phase = "window" /\ ~Records(s) THEN @ + 1 ELSE @]
     /\ stray' = [stray EXCEPT ![s] = IF Records(s) THEN @ \cup ({phase} \ {"window"}) ELSE @]
  /\ UNCHANGED <<now, podVars, conn, from, deadline, reqVars, log>>

\* A chunk with a control event, one per batch: it has no send time.  fanout does not
\* take it for a sign of life.
ReceivesControl(s) ==
  /\ pc[s] = "wait" /\ Driving(s) /\ Live(s) /\ sub[s].owed
  /\ Awaits(s, [sub[s] EXCEPT !.owed = FALSE,
                              !.last = IF args.command = "fanout" THEN @ ELSE now])
  /\ UNCHANGED <<now, podVars, conn, from, missed, stray, deadline, reqVars, log>>

\* The server ends the stream or the connection breaks.
Dropped(s) ==
  /\ pc[s] = "wait" /\ Driving(s)
  /\ conn' = [conn EXCEPT ![s] = "dropped"]
  /\ Ends(s)
  /\ UNCHANGED <<now, podVars, from, missed, stray, deadline, reqVars, log>>

\* The client's own timeout ends the response.
CutOff(s) ==
  /\ pc[s] = "wait" /\ Driving(s) /\ ~Live(s)
  /\ conn' = [conn EXCEPT ![s] = "cut"]
  /\ Ends(s)
  /\ UNCHANGED <<now, podVars, from, missed, stray, deadline, reqVars, log>>

TimesOut(s) ==
  /\ pc[s] = "wait" /\ Driving(s) /\ Live(s) /\ now >= sub[s].by
  /\ IF now - sub[s].last > Idle THEN Ends(s) ELSE Awaits(s, sub[s])
  /\ UNCHANGED <<now, podVars, conn, from, missed, stray, deadline, reqVars, log>>

SubNext(s) ==
  \/ Connects(s) \/ ConnectFails(s) \/ GivesUp(s) \/ ReturnsUnconnected(s)
  \/ ReturnsFailed(s) \/ Listens(s)
  \/ Receives(s) \/ ReceivesControl(s) \/ Dropped(s) \/ CutOff(s) \/ TimesOut(s)

-----------------------------------------------------------------------------
(***************************************************************************)
(* run_writer_task and run_reader_task.                                    *)
(***************************************************************************)
Spawned(t) ==
  /\ pc[t] = "start" /\ Driving(t)
  /\ Arrive(t)
  /\ UNCHANGED <<now, podVars, subVars, deadline, reqVars, log>>

Window == args.warmup + args.duration

\* Mutant: every task takes a deadline of its own.
MutantSharedDeadline(p) == now + Window

\* deadline_cell.get_or_init
SharedDeadline(p) == IF deadline[p] = None THEN now + Window ELSE deadline[p]

Crosses(t) ==
  /\ pc[t] = "released" /\ Driving(t)
  /\ deadline' = [deadline EXCEPT ![PodOf(t)] = SharedDeadline(PodOf(t))]
  /\ own' = [own EXCEPT ![t] = SharedDeadline(PodOf(t))]
  /\ IF t[1] = "reader" /\ Pace(t) > 0
     THEN due' = [due EXCEPT ![t] = now + Stagger(t)] /\ Goto(t, "stagger")
     ELSE due' = [due EXCEPT ![t] = IF Pace(t) > 0 THEN now ELSE 0] /\ Goto(t, "check")
  /\ UNCHANGED <<now, podVars, subVars, late, log>>

\* A paced reader starts at its place in the first interval.
Staggers(t) ==
  /\ pc[t] = "stagger" /\ Driving(t) /\ now >= due[t]
  /\ due' = [due EXCEPT ![t] = now]
  /\ Goto(t, "check")
  /\ UNCHANGED <<now, podVars, subVars, deadline, own, late, log>>

\* Mutant: the loop asks whether the next request is due before the deadline plus
\* an interval.
MutantGoesOn(t) == now < own[t] + Pace(t)

GoesOn(t) == now < own[t]

LoopHead(t) ==
  /\ pc[t] = "check" /\ Driving(t) /\ t \in Requesters
  /\ IF GoesOn(t)
     THEN Goto(t, "pace") /\ UNCHANGED due
     ELSE Goto(t, "done") /\ due' = [due EXCEPT ![t] = 0]
  /\ UNCHANGED <<now, podVars, subVars, deadline, own, late, log>>

\* Sleep until the request is due, if it is not yet, and send it.  The deadline is
\* not looked at again.
Sends(t) ==
  /\ pc[t] = "pace" /\ Driving(t) /\ (Pace(t) = 0 \/ now >= due[t])
  /\ due' = [due EXCEPT ![t] = IF Pace(t) = 0 THEN now ELSE @ + Pace(t)]
  /\ late' = [late EXCEPT ![t] = IF now >= own[t] THEN @ + 1 ELSE @]
  /\ Goto(t, "flight")
  /\ UNCHANGED <<now, podVars, subVars, deadline, own, log>>

\* The answer, an error or a timeout; an append may count on the server whatever
\* the writer is told.  A request of an unpaced task takes a tick.
Answered(t) ==
  /\ pc[t] = "flight" /\ Driving(t) /\ (Pace(t) = 0 => now > due[t])
  /\ \/ t[1] = "writer" /\ log' = [log EXCEPT ![StreamOf(t)] = @ + 1]
     \/ UNCHANGED log
  /\ due' = [due EXCEPT ![t] = IF Pace(t) > 0 THEN @ ELSE 0]
  /\ Goto(t, "check")
  /\ UNCHANGED <<now, podVars, subVars, deadline, own, late>>

ReqNext(t) ==
  \/ Spawned(t) \/ Crosses(t) \/ Staggers(t) \/ LoopHead(t) \/ Sends(t) \/ Answered(t)

-----------------------------------------------------------------------------
(***************************************************************************)
(* The end of run.                                                         *)
(***************************************************************************)
Finished(tasks) == \A t \in tasks : pc[t] = "done"

\* mixed and multi-fanout join every task.
Joins(p) ==
  /\ args.command # "fanout"
  /\ pod[p] = "drive" /\ Finished(TasksOf(p))
  /\ pod' = [pod EXCEPT ![p] = "done"]
  /\ UNCHANGED <<args, now, drainBy, created, pc, subVars, deadline, reqVars, log>>

\* fanout joins the writer, and gives the subscribers a limited time.
JoinsWriter(p) ==
  /\ args.command = "fanout"
  /\ pod[p] = "drive" /\ Finished(Writers)
  /\ pod' = [pod EXCEPT ![p] = "drain"]
  /\ drainBy' = now + Idle + Slack
  /\ UNCHANGED <<args, now, created, pc, subVars, deadline, reqVars, log>>

Drains(p) ==
  /\ pod[p] = "drain" /\ (Finished(Subscribers) \/ now >= drainBy)
  /\ pod' = [pod EXCEPT ![p] = "done"]
  /\ UNCHANGED <<args, now, drainBy, created, pc, subVars, deadline, reqVars, log>>

PodNext(p) ==
  \/ \E st \in Owned(p) : Creates(st)
  \/ SetupFails(p) \/ SetupDone(p) \/ Joins(p) \/ JoinsWriter(p) \/ Drains(p)

-----------------------------------------------------------------------------
\* A task that sleeps until a time, or waits with a timeout.
Sleeping(t) ==
  /\ Driving(t)
  /\ \/ pc[t] = "start" /\ args.command = "multi-fanout" /\ t \in Subscribers /\ now < sub[t].by
     \/ pc[t] = "wait" /\ now < sub[t].by /\ Live(t)
     \/ pc[t] \in {"stagger", "pace"} /\ now < due[t]
     \/ pc[t] = "flight" /\ Pace(t) = 0 /\ now = due[t]

\* MaxStart and MaxTime bound how late the tasks are, not how long they sleep.
Tick ==
  /\ \/ now < IF \A p \in Pods : deadline[p] = None THEN MaxStart ELSE MaxTime
     \/ \E t \in Tasks : Sleeping(t)
  /\ now' = now + 1
  /\ UNCHANGED <<podVars, pc, subVars, deadline, reqVars, log>>

Next ==
  \/ \E p \in Pods : PodNext(p)
  \/ \E s \in Subscribers : SubNext(s)
  \/ \E t \in Requesters : ReqNext(t)
  \/ Tick

Spec == Init /\ [][Next]_vars

\* Tokio polls every task that can go on, requests have a timeout, time passes.
FairSpec ==
  /\ Spec
  /\ \A s \in UNION {SubscribersOf(a) : a \in Runs} :
       WF_vars(s \in Subscribers /\ SubNext(s))
  /\ \A t \in UNION {WritersOf(a) \cup ReadersOf(a) : a \in Runs} :
       WF_vars(t \in Requesters /\ ReqNext(t))
  /\ \A p \in UNION {0 .. a.pods - 1 : a \in Runs} : WF_vars(p \in Pods /\ PodNext(p))
  /\ WF_vars(Tick)

-----------------------------------------------------------------------------
(***************************************************************************)
(* Properties.                                                             *)
(***************************************************************************)

\* "all subscribers connect first" (mixed.rs 199-201), "barrier-safe" (multi_fanout.rs
\* 3-5): of the streams a pod writes itself, no record is older than any connection of
\* the pod that was opened, so that none is missed for having been appended too early.
HeardFromTheStart ==
  \A s \in Subscribers :
    conn[s] # "none" /\ PodOf(s) = StreamOf(s) % args.pods => from[s] = 0

\* The same of all streams, as multi_fanout.rs 4-5 has it: "All subscribers connect
\* before any writer sends its first event".
HeardByAllFromTheStart == \A s \in Subscribers : conn[s] # "none" => from[s] = 0

\* "deadline is set by whichever task crosses the barrier first" (mixed.rs 206-207):
\* all writers and readers of a pod go by one deadline, and none before every task of
\* the pod arrived.
OneWindow ==
  \A t \in Requesters : own[t] # None =>
    /\ own[t] = deadline[PodOf(t)]
    /\ \A u \in TasksOf(PodOf(t)) : pc[u] \notin {"start", "waiting"}

\* A paced writer or reader that slept past the deadline sends the request it
\* slept for, and no other.
AtMostOneLate == \A t \in Requesters : late[t] <= 1

\* The same window for writers and readers: no request that the rates count is sent
\* behind the deadline.
NoLateRequest == \A t \in Requesters : late[t] = 0

\* "warm-up/settle deliveries are discarded" (multi_fanout.rs 424-425), and the measured
\* window is recorded: the deadline a subscriber goes by was read before it waited for
\* the chunk, so that the first chunk of the window may be lost to the histogram, and no
\* other.  Behind its end deliveries are still recorded, for as long as a subscriber
\* listens on, and behind that the one chunk it was waiting for, with which it returns.
RecordsTheWindow ==
  \A s \in Subscribers :
    /\ missed[s] <= 1 /\ "before" \notin stray[s]
    /\ "behind" \in stray[s] => pc[s] = "done"

\* "subscribers record delivery latencies only in the final `measure_secs` window"
\* (multi_fanout.rs 182-183), "All three classes start and stop on it, so rates divide
\* by this" (mixed.rs 126-129): nothing delivered outside of the window is recorded.
RecordsNothingElse == \A s \in Subscribers : stray[s] = {}

\* With no warmup, what is delivered is recorded: "so the recorded count matches recv"
\* (multi_fanout.rs 426-427).
RecordedMatchesReceived == \A s \in Subscribers : missed[s] = 0

\* The drive window is "barrier release -> shared deadline. All three classes start and
\* stop on it, so rates divide by this" (mixed.rs 126-129, multi_fanout.rs 182-183): a
\* subscriber that connected, and that the server does not drop, listens until the
\* deadline.
ListensToTheEnd ==
  \A s \in Subscribers :
    conn[s] = "cut" /\ deadline[PodOf(s)] # None => now >= deadline[PodOf(s)]

\* "a failed subscriber does not under-count the barrier" (mixed.rs 488-490, and
\* multi_fanout.rs 345-346): when no task of a pod has yet to come to the start barrier,
\* nobody waits there any more; of fanout, where each subscriber of the pod connected.
NobodyLeftWaiting ==
  \A p \in Pods :
    /\ \A t \in TasksOf(p) : pc[t] # "start"
    /\ args.command = "fanout" => \A s \in Subscribers \cap TasksOf(p) : conn[s] # "failed"
    => \A t \in TasksOf(p) : pc[t] # "waiting"

Returned == \A p \in Pods : pod[p] \in {"done", "failed"}

\* "a failed subscriber does not under-count the barrier and leave all writers (and
\* surviving subscribers) waiting forever" (mixed.rs 488-490, multi_fanout.rs 345-346):
\* the run ends, whatever fails; of fanout, where no subscriber fails to connect.
RunReturns ==
  <>(\/ Returned
     \/ args.command = "fanout" /\ \E s \in Subscribers : conn[s] = "failed")

\* The same of fanout, whatever fails.
FanoutReturns == <>Returned
=============================================================================
