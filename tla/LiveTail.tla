------------------------------ MODULE LiveTail ------------------------------
(***************************************************************************)
(* The live-tail modes of `ds-bench reads` (reads.rs): a writer appends to *)
(* a stream, readers long-poll its tail or hold an SSE connection to it,   *)
(* and count what they receive after measure_start.                        *)
(*                                                                         *)
(* A reader is pinned to one stream and streams do not meet, so there is   *)
(* one.  Its records are 1..log.  Time is a discrete clock; an answer may  *)
(* hold any prefix of what is new, so that a late one is no other case.    *)
(* Latencies and the bytes of a record are left out.                       *)
(***************************************************************************)
EXTENDS Naturals, FiniteSets

CONSTANTS
  Readers,
  Modes,        \* the modes run: a subset of {"long-poll", "sse"}
  MeasureStart, \* --warmup-secs + --settle-secs
  Deadline,     \* and --duration-secs
  MaxLog,       \* bound: records appended
  MaxTime,      \* bound: the clock
  MaxFaults,    \* bound: polls and connections of a reader that break
  Headerless,   \* whether a successful poll may be answered without stream-next-offset
  Now,          \* the offset `now`
  None

ASSUME TailAssumption ==
  /\ Modes \subseteq {"long-poll", "sse"}
  /\ {MeasureStart, Deadline, MaxLog, MaxTime, MaxFaults} \subseteq Nat
  /\ MeasureStart <= Deadline /\ Headerless \in BOOLEAN
  /\ Now \notin Nat /\ None \notin Nat

VARIABLES
  now,    \* the clock
  mode,   \* --mode
  log,    \* records in the stream
  writer, \* where the writer stands
  place,  \* where each reader stands
  offset, \* a long-poll reader's offset
  at,     \* the record an open poll or connection stands at, on the server
  ok,     \* records counted by each reader
  err,    \* errors counted by each reader, backpressure included
  first,  \* history: the record each reader started behind
  seen,   \* history: the records each reader received
  fresh,  \* history: those it first received after measure_start
  faults  \* history: failed polls and dropped connections of each reader

vars == <<now, mode, log, writer, place, offset, at, ok, err,
          first, seen, fresh, faults>>

count == <<ok, err>>
hist  == <<first, seen, fresh, faults>>

Offsets == 0..MaxLog

TypeOK ==
  /\ now \in 0..MaxTime /\ mode \in Modes /\ log \in Offsets
  /\ writer \in {"check", "tick", "done"}
  /\ place \in [Readers -> {"probe", "check", "sent", "inner", "wait", "done"}]
  /\ offset \in [Readers -> Offsets \cup {Now}]
  /\ {at, first} \subseteq [Readers -> Offsets \cup {None}]
  /\ {ok, err, faults} \subseteq [Readers -> Nat]
  /\ {seen, fresh} \subseteq [Readers -> SUBSET (1..log)]

Init ==
  /\ now = 0 /\ log = 0 /\ writer = "check"
  /\ mode \in Modes
  /\ place = [r \in Readers |-> IF mode = "sse" THEN "check" ELSE "probe"]
  /\ offset = [r \in Readers |-> Now]
  /\ at = [r \in Readers |-> None] /\ first = at
  /\ ok = [r \in Readers |-> 0] /\ err = ok /\ faults = ok
  /\ seen = [r \in Readers |-> {}] /\ fresh = seen

Counting == now >= MeasureStart

Goto(r, p) == place' = [place EXCEPT ![r] = p]

\* A history of where a reader starts.
StartsAt(r, n) == first' = [first EXCEPT ![r] = IF @ = None THEN n ELSE @]

CountError(r) == err' = [err EXCEPT ![r] = IF Counting THEN @ + 1 ELSE @]

\* The records behind `at`, up to n, reach the reader.
Receive(r, n) ==
  LET got == at[r] + 1 .. n IN
  /\ ok' = [ok EXCEPT ![r] = IF Counting THEN @ + Cardinality(got) ELSE @]
  /\ seen' = [seen EXCEPT ![r] = @ \cup got]
  /\ fresh' = [fresh EXCEPT ![r] = IF Counting THEN @ \cup (got \ seen[r]) ELSE @]
  /\ UNCHANGED <<err, first, faults>>

-----------------------------------------------------------------------------
(***************************************************************************)
(* run_writer, run_sse_writer.                                             *)
(***************************************************************************)
WriterHead ==
  /\ writer = "check"
  /\ writer' = IF now < Deadline THEN "tick" ELSE "done"
  /\ UNCHANGED <<now, mode, log, place, offset, at, count, hist>>

\* The append of a tick is stored or not; its answer is not looked at.
Append ==
  /\ writer = "tick"
  /\ \/ log < MaxLog /\ log' = log + 1
     \/ UNCHANGED log
  /\ writer' = "check"
  /\ UNCHANGED <<now, mode, place, offset, at, count, hist>>

\* Mutant: the aborted writer is not awaited.
MutantAbort ==
  /\ writer # "done" /\ \A r \in Readers : place[r] = "done"
  /\ writer' = "aborted"
  /\ UNCHANGED <<now, mode, log, place, offset, at, count, hist>>

\* The readers are joined first, then the writers aborted.
Abort ==
  /\ writer # "done" /\ \A r \in Readers : place[r] = "done"
  /\ writer' = "done"
  /\ UNCHANGED <<now, mode, log, place, offset, at, count, hist>>

-----------------------------------------------------------------------------
(***************************************************************************)
(* The head of a reader's loop, in either mode, and the request it sends.  *)
(***************************************************************************)
Head(r) ==
  /\ place[r] = "check"
  /\ Goto(r, IF now < Deadline THEN "sent" ELSE "done")
  /\ UNCHANGED <<now, mode, log, writer, offset, at, count, hist>>

\* The server opens the poll at the offset, the connection at offset=now.
Arrives(r) ==
  /\ place[r] = "sent"
  /\ at' = [at EXCEPT ![r] = IF mode = "sse" \/ offset[r] = Now THEN log ELSE offset[r]]
  /\ StartsAt(r, at'[r])
  /\ Goto(r, IF mode = "sse" THEN "inner" ELSE "wait")
  /\ UNCHANGED <<now, mode, log, writer, offset, count, seen, fresh, faults>>

-----------------------------------------------------------------------------
(***************************************************************************)
(* run_reader_longpoll.                                                    *)
(***************************************************************************)

\* tail_offset.  A probe answered with an error status has no offset header and
\* gives `now`; a probe that fails leaves the offset alone.
Probes(r) ==
  /\ place[r] = "probe"
  /\ \E o \in {log, Now, offset[r]} :
       /\ offset' = [offset EXCEPT ![r] = o]
       /\ IF o = Now THEN UNCHANGED first ELSE StartsAt(r, o)
  /\ Goto(r, "check")
  /\ UNCHANGED <<now, mode, log, writer, at, count, seen, fresh, faults>>

\* Mutant: an answer with no records sends the reader back to `now`.
MutantNextOffset(r, n) == {IF n = at[r] THEN Now ELSE n}

\* Mutant: the offset moves on only when records are counted.
MutantNextUncounted(r, n) == {IF Counting THEN n ELSE offset[r]}

\* stream-next-offset of an answer up to record n; without the header the reader asks
\* from the same offset again.
NextOffset(r, n) == IF Headerless THEN {n, offset[r]} ELSE {n}

\* Records, or none when the server's own timeout ends the poll.
PollAnswered(r) ==
  /\ mode = "long-poll" /\ place[r] = "wait"
  /\ \E n \in at[r]..log :
       /\ \E o \in NextOffset(r, n) : offset' = [offset EXCEPT ![r] = o]
       /\ Receive(r, n)
  /\ Goto(r, "check")
  /\ UNCHANGED <<now, mode, log, writer, at>>

\* An error status, a transport error or the client's timeout: count it, then ask
\* for the tail.
PollFails(r) ==
  /\ mode = "long-poll" /\ place[r] \in {"sent", "wait"} /\ faults[r] < MaxFaults
  /\ CountError(r)
  /\ faults' = [faults EXCEPT ![r] = @ + 1]
  /\ Goto(r, "probe")
  /\ UNCHANGED <<now, mode, log, writer, offset, at, ok, first, seen, fresh>>

-----------------------------------------------------------------------------
(***************************************************************************)
(* run_sse_reader.                                                         *)
(***************************************************************************)
ConnectFails(r) ==
  /\ mode = "sse" /\ place[r] = "sent" /\ err[r] < MaxFaults
  /\ CountError(r)
  /\ Goto(r, "check")
  /\ UNCHANGED <<now, mode, log, writer, offset, at, ok, hist>>

InnerHead(r) ==
  /\ place[r] = "inner"
  /\ Goto(r, IF now < Deadline THEN "wait" ELSE "check")
  /\ UNCHANGED <<now, mode, log, writer, offset, at, count, hist>>

\* A chunk of events; the control events among them are skipped.
Chunk(r) ==
  /\ mode = "sse" /\ place[r] = "wait"
  /\ \E n \in at[r]..log :
       /\ at' = [at EXCEPT ![r] = n]
       /\ Receive(r, n)
  /\ Goto(r, "inner")
  /\ UNCHANGED <<now, mode, log, writer, offset>>

\* The stream ends or breaks: "a dropped SSE stream must not kill the reader", which
\* connects again and counts no error.
Dropped(r) ==
  /\ mode = "sse" /\ place[r] = "wait" /\ faults[r] < MaxFaults
  /\ faults' = [faults EXCEPT ![r] = @ + 1]
  /\ Goto(r, "check")
  /\ UNCHANGED <<now, mode, log, writer, offset, at, count, first, seen, fresh>>

\* The wait for a chunk ends a second behind the deadline.
TimesOut(r) ==
  /\ mode = "sse" /\ place[r] = "wait" /\ now > Deadline
  /\ Goto(r, "check")
  /\ UNCHANGED <<now, mode, log, writer, offset, at, count, hist>>

-----------------------------------------------------------------------------
ReaderNext(r) ==
  \/ Head(r) \/ Arrives(r)
  \/ Probes(r) \/ PollAnswered(r) \/ PollFails(r)
  \/ ConnectFails(r) \/ InnerHead(r) \/ Chunk(r) \/ Dropped(r) \/ TimesOut(r)

Tick ==
  /\ now < MaxTime
  /\ now' = now + 1
  /\ UNCHANGED <<mode, log, writer, place, offset, at, count, hist>>

Next == WriterHead \/ Append \/ Abort \/ Tick \/ \E r \in Readers : ReaderNext(r)

Spec == Init /\ [][Next]_vars

-----------------------------------------------------------------------------
(***************************************************************************)
(* Properties.                                                             *)
(***************************************************************************)

\* The delivery count of a reader is the number of records that first reached it
\* after measure_start (reads.rs 542, 706): a record of the warmup is not counted by
\* a later poll, and none is counted twice, whatever is retried.
CountedAtFirstSight == \A r \in Readers : ok[r] = Cardinality(fresh[r])

\* "every reader of a stream receives every append" (reads.rs 44), of a reader
\* whose polls and connections never broke: it has every record from its start up to
\* where its poll or connection stands.
NoSilentLoss ==
  \A r \in Readers :
    place[r] \in {"inner", "wait"} /\ faults[r] = 0 => first[r] + 1 .. at[r] = seen[r]
=============================================================================
