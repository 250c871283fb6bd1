-------------------------------- MODULE Replay --------------------------------
(***************************************************************************)
(* The loads of ds-bench that replay streams from their start: `catch-up`  *)
(* (catch_up.rs), `bootstrap` (bootstrap.rs) and the catchup mode of       *)
(* `reads` (reads.rs).  A pod fills streams with records and then lets its *)
(* clients read them: once and all together in the first two, again and    *)
(* again until a deadline in the third.  The streams have the same names   *)
(* in every pod of a fleet.                                                *)
(*                                                                         *)
(* A request is one step, at the moment the server answers it; bytes and   *)
(* latencies are left out, and of reads the warmup, the measured window    *)
(* and the end are phases that follow each other at any time.              *)
(***************************************************************************)
EXTENDS Integers, FiniteSets, Functions

CONSTANTS
  Loads,     \* the command lines that are run, see ReplayArgs
  PageLimit, \* the 100 000 pages after which a replay ends
  Pages,     \* whether an answer may hold a part of the stream
  MaxKept,   \* bound: records a stream has from before
  MaxLost,   \* bound: appends of a pod that fail while the stream is there
  Absent

\* streams is the number of clients with --per-client-stream; events --pre-events, and
\* of reads --seed-bytes in records; permits --setup-concurrency, of reads 32.
ReplayArgs ==
  [command : {"catch-up", "bootstrap", "reads"}, pods : Nat \ {0}, streams : Nat \ {0},
   clients : Nat, events : Nat, permits : Nat \ {0}, snapshot : BOOLEAN]

ASSUME ReplayAssumption ==
  /\ Loads \subseteq ReplayArgs
  /\ \A a \in Loads : /\ a.command = "catch-up" => a.streams = 1
                      /\ a.snapshot => a.command = "bootstrap"
  /\ {PageLimit, MaxKept, MaxLost} \subseteq Nat
  /\ Pages \in BOOLEAN /\ Absent \notin Nat

VARIABLES
  load,   \* the command line
  stored, \* records in each stream on the server
  adrift, \* appends to it that were given up, which the server may still store
  doomed, \* streams whose deletion was given up, which the server may still do
  step,   \* where the run of each pod stands
  todo,   \* the stream its setup is at
  left,   \* appends it has to send to it
  out,    \* its appends in flight to each stream
  landed, \* of catch-up: its appends that succeeded
  lost,   \* history: its appends that failed
  phase,  \* of reads: where its time stands
  client  \* each client of each pod, see ClientStates

setupVars == <<step, todo, left, out, landed, lost>>
serverVars == <<stored, adrift, doomed>>
vars == <<load, serverVars, setupVars, phase, client>>

Stampede     == load.command # "reads"
Pods         == 0 .. load.pods - 1
Streams      == 0 .. load.streams - 1
ClientsOf(p) == {p} \X (0 .. load.clients - 1)
Clients      == Pods \X (0 .. load.clients - 1)

\* stream_for, and the streams of bootstrap's clients.
ReplayOf(c) == c[2] % load.streams

\* counted: the counter its last replay went to; got: the records of that replay.
ClientStates ==
  [place : {"start", "waiting", "reading", "done"}, offset : Nat, pages : Nat,
   got : Nat, counted : {"no", "ok", "backpressure", "other_err"}]

InFlight(p)    == SumFunction(out[p])
AllAnswered(p) == \A s \in Streams : out[p][s] = 0

TypeOK ==
  /\ load \in Loads
  /\ stored \in [Streams -> Nat \cup {Absent}] /\ adrift \in [Streams -> Nat]
  /\ doomed \subseteq Streams
  /\ step \in [Pods -> {"namespace", "delete", "create", "probe", "append", "join",
                            "publish", "drive", "done", "failed"}]
  /\ todo \in [Pods -> Streams]
  /\ left \in [Pods -> Nat] /\ landed \in [Pods -> Nat] /\ lost \in [Pods -> Nat]
  /\ out \in [Pods -> [Streams -> Nat]]
  /\ phase \in [Pods -> {"warmup", "measure", "over"}]
  /\ client \in [Clients -> ClientStates]

Fresh == [place |-> "start", offset |-> 0, pages |-> 0, got |-> 0, counted |-> "no"]

Init ==
  /\ load \in Loads
  /\ stored \in [Streams -> 0 .. MaxKept \cup {Absent}]
  /\ adrift = [s \in Streams |-> 0] /\ doomed = {}
  /\ step = [p \in Pods |-> "namespace"]
  /\ todo = [p \in Pods |-> 0]
  /\ left = todo /\ landed = todo /\ lost = todo
  /\ out = [p \in Pods |-> [s \in Streams |-> 0]]
  /\ phase = [p \in Pods |-> "warmup"]
  /\ client = [c \in Clients |-> Fresh]

-----------------------------------------------------------------------------
(***************************************************************************)
(* Setup.  An error return of any of its requests ends the run.            *)
(***************************************************************************)
Enter(p, place) == step' = [step EXCEPT ![p] = place]

Bails(p) ==
  /\ step[p] \in {"namespace", "create", "publish"}
  /\ Enter(p, "failed")
  /\ UNCHANGED <<load, serverVars, todo, left, out, landed, lost, phase, client>>

Begins(p) ==
  /\ step[p] = "namespace"
  /\ Enter(p, IF Stampede THEN "delete" ELSE "create")
  /\ UNCHANGED <<load, serverVars, todo, left, out, landed, lost, phase, client>>

\* A stream is deleted before it is created; that it could not be, or is not yet, is
\* ignored.
Deletes(p) ==
  /\ step[p] = "delete"
  /\ \/ stored' = [stored EXCEPT ![todo[p]] = Absent] /\ UNCHANGED doomed
     \/ doomed' = doomed \cup {todo[p]} /\ UNCHANGED stored
     \/ UNCHANGED <<stored, doomed>>
  /\ Enter(p, "create")
  /\ UNCHANGED <<load, adrift, todo, left, out, landed, lost, phase, client>>

Last(p) == todo[p] + 1 = load.streams

\* A stream that is there already is taken as created.  reads fills each stream before
\* it creates the next; the others create them all first.
Creates(p) ==
  /\ step[p] = "create"
  /\ stored' = [stored EXCEPT ![todo[p]] = IF @ = Absent THEN 0 ELSE @]
  /\ IF ~Stampede THEN Enter(p, "probe") /\ UNCHANGED <<todo, left>>
     ELSE IF Last(p)
     THEN /\ Enter(p, "append") /\ todo' = [todo EXCEPT ![p] = 0]
          /\ left' = [left EXCEPT ![p] = load.events]
     ELSE /\ Enter(p, "delete") /\ todo' = [todo EXCEPT ![p] = @ + 1]
          /\ UNCHANGED left
  /\ UNCHANGED <<load, adrift, doomed, out, landed, lost, phase, client>>

DeletedLate(s) ==
  /\ s \in doomed
  /\ doomed' = doomed \ {s}
  /\ stored' = [stored EXCEPT ![s] = Absent]
  /\ UNCHANGED <<load, adrift, setupVars, phase, client>>

\* The records an answer may hold of those behind an offset.
Answers(s, offset) ==
  IF stored[s] <= offset THEN {0}
  ELSE IF Pages THEN 1 .. stored[s] - offset ELSE {stored[s] - offset}

UnknownSize == 0

\* Mutant: the difference does not saturate.
MutantMissing(size) == load.events - size

Missing(size) == IF size < load.events THEN load.events - size ELSE 0

\* ensure_seeded: the size is the first answer's next offset, 0 if the probe fails.
ProbesSize(p) ==
  /\ step[p] = "probe"
  /\ \E n \in {UnknownSize} \cup (IF stored[todo[p]] = Absent THEN {} ELSE Answers(todo[p], 0)) :
       left' = [left EXCEPT ![p] = Missing(n)]
  /\ Enter(p, "append")
  /\ UNCHANGED <<load, serverVars, todo, out, landed, lost, phase, client>>

\* An append is spawned once it has a permit.
SendsAppend(p) ==
  /\ step[p] = "append" /\ left[p] > 0 /\ InFlight(p) < load.permits
  /\ left' = [left EXCEPT ![p] = @ - 1]
  /\ out' = [out EXCEPT ![p][todo[p]] = @ + 1]
  /\ UNCHANGED <<load, serverVars, step, todo, landed, lost, phase, client>>

\* bootstrap goes on to the next stream before these are answered.
AppendsSent(p) ==
  /\ step[p] = "append" /\ left[p] = 0
  /\ IF Stampede /\ ~Last(p)
     THEN /\ todo' = [todo EXCEPT ![p] = @ + 1]
          /\ left' = [left EXCEPT ![p] = load.events]
          /\ UNCHANGED step
     ELSE Enter(p, "join") /\ UNCHANGED <<todo, left>>
  /\ UNCHANGED <<load, serverVars, out, landed, lost, phase, client>>

Succeeds(p, s) ==
  /\ out[p][s] > 0 /\ stored[s] # Absent
  /\ stored' = [stored EXCEPT ![s] = @ + 1]
  /\ out' = [out EXCEPT ![p][s] = @ - 1]
  /\ landed' = [landed EXCEPT ![p] = @ + 1]
  /\ UNCHANGED <<load, adrift, doomed, step, todo, left, lost, phase, client>>

\* An error status, or an answer that never came: the record is not stored, or
\* stored by now, or may be later.
Fails(p, s) ==
  /\ out[p][s] > 0 /\ (stored[s] = Absent \/ lost[p] < MaxLost)
  /\ \/ UNCHANGED <<stored, adrift>>
     \/ /\ stored[s] # Absent
        /\ \/ stored' = [stored EXCEPT ![s] = @ + 1] /\ UNCHANGED adrift
           \/ adrift' = [adrift EXCEPT ![s] = @ + 1] /\ UNCHANGED stored
  /\ out' = [out EXCEPT ![p][s] = @ - 1]
  /\ lost' = [lost EXCEPT ![p] = @ + 1]
  /\ UNCHANGED <<load, doomed, step, todo, left, landed, phase, client>>

Lands(s) ==
  /\ adrift[s] > 0
  /\ adrift' = [adrift EXCEPT ![s] = @ - 1]
  /\ stored' = [stored EXCEPT ![s] = IF @ = Absent THEN @ ELSE @ + 1]
  /\ UNCHANGED <<load, doomed, setupVars, phase, client>>

\* Mutant: one append that succeeded is enough.
MutantSetupHolds(p) == load.command = "catch-up" /\ load.events > 0 => landed[p] > 0

\* Only catch-up looks whether all its appends succeeded.
SetupHolds(p) == load.command = "catch-up" => landed[p] >= load.events

Joined(p) ==
  /\ step[p] = "join" /\ AllAnswered(p)
  /\ IF ~Stampede /\ ~Last(p)
     THEN Enter(p, "create") /\ todo' = [todo EXCEPT ![p] = @ + 1]
     ELSE /\ Enter(p, IF ~SetupHolds(p) THEN "failed"
                      ELSE IF load.snapshot THEN "publish" ELSE "drive")
          /\ UNCHANGED todo
  /\ UNCHANGED <<load, serverVars, left, out, landed, lost, phase, client>>

\* publish_snapshot, one for each stream.
Publishes(p) ==
  /\ step[p] = "publish"
  /\ Enter(p, "drive")
  /\ UNCHANGED <<load, serverVars, todo, left, out, landed, lost, phase, client>>

-----------------------------------------------------------------------------
(***************************************************************************)
(* The clients.                                                            *)
(***************************************************************************)
Unmoved == UNCHANGED <<load, serverVars, setupVars, phase>>

Becomes(c, state) == client' = [client EXCEPT ![c] = state]

\* Mutants: a barrier for one less, and for the run itself too.
MutantReadyEarly(p) == load.clients - 1
MutantReadyNever(p) == load.clients + 1

\* Barrier::new(args.clients)
Ready(p) == load.clients

\* The last client at the barrier releases all.  A reader of reads starts at once.
Enters(c) ==
  /\ step[c[1]] = "drive" /\ client[c].place = "start"
  /\ LET waiting == {d \in ClientsOf(c[1]) : client[d].place = "waiting"} IN
     IF Stampede /\ Cardinality(waiting) + 1 # Ready(c[1])
     THEN Becomes(c, [client[c] EXCEPT !.place = "waiting"])
     ELSE client' = [d \in Clients |->
                       IF d = c \/ (Stampede /\ d \in waiting)
                       THEN [client[d] EXCEPT !.place = "reading"] ELSE client[d]]
  /\ Unmoved

\* A stampede's client ends with its replay; a reader counts it once the warmup is over
\* and starts again.
Ends(c, counter, got) ==
  Becomes(c,
    IF Stampede THEN [client[c] EXCEPT !.place = "done", !.got = got, !.counted = counter]
    ELSE IF phase[c[1]] = "warmup" THEN [Fresh EXCEPT !.place = "reading"]
    ELSE [Fresh EXCEPT !.place = "reading", !.got = got, !.counted = counter])

\* Mutant: the first answer is taken for the whole stream.
MutantGoesOn(c, n, pages) == FALSE

\* There is more, the offset moves and the guard is not hit.  bootstrap sends one request.
GoesOn(c, n, pages) ==
  /\ load.command # "bootstrap"
  /\ client[c].offset + n < stored[ReplayOf(c)] /\ n > 0 /\ pages < PageLimit

\* A reader looks at the deadline before it starts a replay.
Reading(c) ==
  /\ step[c[1]] = "drive" /\ client[c].place = "reading"
  /\ ~Stampede /\ client[c].offset = 0 => phase[c[1]] # "over"

\* An answer to the next request of a replay: offset is what the replay has so far.
ReadsPage(c) ==
  /\ Reading(c) /\ stored[ReplayOf(c)] # Absent
  /\ \E n \in Answers(ReplayOf(c), client[c].offset) :
       LET pages == client[c].pages + 1 IN
       IF GoesOn(c, n, pages)
       THEN Becomes(c, [client[c] EXCEPT !.offset = @ + n, !.pages = pages])
       ELSE Ends(c, "ok", client[c].offset + n)
  /\ Unmoved

\* An error status, no answer, or a body that breaks off.
ReplayFails(c) ==
  /\ Reading(c)
  /\ \E counter \in {"backpressure", "other_err"} : Ends(c, counter, 0)
  /\ Unmoved

ReaderEnds(c) ==
  /\ ~Stampede /\ step[c[1]] = "drive" /\ phase[c[1]] = "over"
  /\ client[c].place = "reading" /\ client[c].offset = 0
  /\ Becomes(c, [client[c] EXCEPT !.place = "done"])
  /\ Unmoved

\* The deadlines of reads run from the end of its setup.
Passes(p) ==
  /\ ~Stampede /\ step[p] = "drive" /\ phase[p] # "over"
  /\ phase' = [phase EXCEPT ![p] = IF @ = "warmup" THEN "measure" ELSE "over"]
  /\ UNCHANGED <<load, serverVars, setupVars, client>>

Collects(p) ==
  /\ step[p] = "drive" /\ \A c \in ClientsOf(p) : client[c].place = "done"
  /\ Enter(p, "done")
  /\ UNCHANGED <<load, serverVars, todo, left, out, landed, lost, phase, client>>

-----------------------------------------------------------------------------
PodNext(p) ==
  \/ Bails(p) \/ Begins(p) \/ Deletes(p) \/ Creates(p) \/ ProbesSize(p)
  \/ SendsAppend(p) \/ AppendsSent(p) \/ Joined(p) \/ Publishes(p) \/ Collects(p)

AnswerNext(p) == \E s \in Streams : Succeeds(p, s) \/ Fails(p, s)

ClientNext(c) == Enters(c) \/ ReadsPage(c) \/ ReplayFails(c) \/ ReaderEnds(c)

Next ==
  \/ \E p \in Pods : PodNext(p) \/ AnswerNext(p) \/ Passes(p)
  \/ \E s \in Streams : Lands(s) \/ DeletedLate(s)
  \/ \E c \in Clients : ClientNext(c)

\* Tokio polls every task that can go on, a request is answered or times out, time
\* passes.
Fairness ==
  \A a \in Loads : \A p \in 0 .. a.pods - 1 :
    /\ WF_vars(load = a /\ PodNext(p))
    /\ WF_vars(load = a /\ AnswerNext(p))
    /\ WF_vars(load = a /\ Passes(p))
    /\ \A i \in 0 .. a.clients - 1 : WF_vars(load = a /\ ClientNext(<<p, i>>))

Spec == Init /\ [][Next]_vars /\ Fairness

-----------------------------------------------------------------------------
(***************************************************************************)
(* Properties.                                                             *)
(***************************************************************************)
Counted(c) == client[c].counted = "ok"

\* catch-up checks its setup (catch_up.rs 186-193) and pages to the end of the stream
\* (catch_up.rs 91): in a fleet of one pod a client that is counted has replayed at
\* least the records of the setup.  Of reads, "Ensure the stream holds at least
\* `seed_bytes`" (reads.rs 291): a replay that is counted holds the seed, unless a seed
\* append failed, however often the probe did and however many pods seed at once.
ReplayedWhole ==
  \A c \in Clients :
    Counted(c) /\ (\/ load.command = "catch-up" /\ load.pods = 1
                   \/ load.command = "reads" /\ \A p \in Pods : lost[p] = 0)
    => client[c].got >= load.events

\* The same of a fleet of any size.
ReplayedWholeByFleet ==
  \A c \in Clients : load.command = "catch-up" /\ Counted(c) => client[c].got >= load.events

\* "STAMPEDE: clients all read from the start simultaneously" (catch_up.rs 195): when
\* one reads, all are there and no append of the pod's setup is unanswered.
StampedeTogether ==
  Stampede => \A c \in Clients :
    client[c].place \in {"reading", "done"} =>
      /\ AllAnswered(c[1])
      /\ \A d \in ClientsOf(c[1]) : client[d].place \in {"reading", "done"}

\* Barrier::new(args.clients) is for the clients that are spawned (catch_up.rs 196-221):
\* when all of a pod have come to it, none waits there any more.
NobodyLeftWaiting ==
  Stampede => \A p \in Pods :
    (\A c \in ClientsOf(p) : client[c].place # "start") =>
      \A c \in ClientsOf(p) : client[c].place # "waiting"

\* "bytes to pre-seed each stream with (idempotent)" (reads.rs 115): a stream that may
\* have had less than the seed is not filled beyond it.
SeededOnce ==
  load.command = "reads" /\ MaxKept <= load.events =>
    \A s \in Streams : stored[s] # Absent => stored[s] <= load.events

\* The run of every pod ends, whatever fails.
ReplayReturns == <>(\A p \in Pods : step[p] \in {"done", "failed"})
=============================================================================
