---------------------------- MODULE Replay_proofs ----------------------------
(***************************************************************************)
(* For command lines of any size: a stampede starts together, behind an    *)
(* answered setup, and a replay that is counted holds the records of the   *)
(* setup.                                                                  *)
(***************************************************************************)
EXTENDS Replay, FiniteSetTheorems, TLAPS

\* What the command line says of the numbers the model is built from.
LEMMA LoadFacts ==
  ASSUME TypeOK
  PROVE  /\ load \in ReplayArgs
         /\ load.pods \in Nat \ {0} /\ load.streams \in Nat \ {0}
         /\ load.clients \in Nat /\ load.events \in Nat
         /\ load.command = "catch-up" => load.streams = 1
         /\ load.snapshot \in BOOLEAN /\ (load.snapshot => load.command = "bootstrap")
         /\ 0 \in Streams /\ Absent \notin Nat
  BY ReplayAssumption DEF TypeOK, ReplayArgs, Streams

\* A client belongs to a pod, and reads a stream that is there.
LEMMA ClientFacts ==
  ASSUME TypeOK, NEW c \in Clients
  PROVE  /\ c[1] \in Pods /\ c \in ClientsOf(c[1])
         /\ ReplayOf(c) \in Streams
         /\ client[c] \in ClientStates
<1>1. c[1] \in Pods /\ c[2] \in 0 .. load.clients - 1 /\ c = <<c[1], c[2]>>
  BY DEF Clients
<1>2. ReplayOf(c) \in Streams
  <2>1. c[2] \in Int /\ load.streams \in Nat \ {0}
    BY <1>1, LoadFacts
  <2> QED  BY <2>1, SMT DEF ReplayOf, Streams
<1> QED  BY <1>1, <1>2 DEF ClientsOf, TypeOK

LEMMA InitType == Init => TypeOK
<1> SUFFICES ASSUME Init PROVE TypeOK
  OBVIOUS
<1>1. load \in Loads /\ load \in ReplayArgs
  BY ReplayAssumption DEF Init
<1>2. 0 \in Streams /\ MaxKept \in Nat
  BY <1>1, ReplayAssumption DEF ReplayArgs, Streams
<1>3. Fresh \in ClientStates
  BY DEF Fresh, ClientStates
<1> QED  BY <1>1, <1>2, <1>3 DEF Init, TypeOK

\* An answer holds a number of records, and no more than there are.
LEMMA AnswerFacts ==
  ASSUME TypeOK, NEW s \in Streams, stored[s] # Absent, NEW offset \in Nat,
         NEW n \in Answers(s, offset)
  PROVE  /\ n \in Nat /\ stored[s] \in Nat
         /\ stored[s] <= offset => n = 0
         /\ stored[s] > offset => n > 0 /\ offset + n <= stored[s]
  BY DEF Answers, TypeOK

Steps == {"namespace", "delete", "create", "probe", "append", "join", "publish",
          "drive", "done", "failed"}

Stores == [Streams -> Nat \cup {Absent}]

\* The types of what a step may change.
LEMMA Typed ==
  ASSUME TypeOK, UNCHANGED load,
         stored' \in Stores, adrift' \in [Streams -> Nat], doomed' \subseteq Streams,
         step' \in [Pods -> Steps], todo' \in [Pods -> Streams],
         left' \in [Pods -> Nat], landed' \in [Pods -> Nat], lost' \in [Pods -> Nat],
         out' \in [Pods -> [Streams -> Nat]],
         phase' \in [Pods -> {"warmup", "measure", "over"}],
         client' \in [Clients -> ClientStates]
  PROVE  TypeOK'
  BY DEF TypeOK, Pods, Streams, Clients, Steps, Stores

\* One more append in flight to a stream, or one less.
LEMMA OutType ==
  ASSUME TypeOK, NEW p \in Pods, NEW s \in Streams, NEW n \in Nat
  PROVE  [out EXCEPT ![p][s] = n] \in [Pods -> [Streams -> Nat]]
<1>1. [out[p] EXCEPT ![s] = n] \in [Streams -> Nat]
  BY DEF TypeOK
<1> QED  BY <1>1 DEF TypeOK

LEMMA SetupType ==
  ASSUME TypeOK, NEW p \in Pods, PodNext(p)
  PROVE  TypeOK'
<1> USE LoadFacts
<1>1. CASE Bails(p)  BY <1>1 DEF TypeOK, Bails, Enter, serverVars, Pods, Streams, Clients
<1>2. CASE Begins(p)  BY <1>2 DEF TypeOK, Begins, Enter, serverVars, Pods, Streams, Clients
<1>3. CASE Deletes(p)  BY <1>3 DEF TypeOK, Deletes, Enter, Pods, Streams, Clients
<1>4. CASE Creates(p)
  <2>1. todo[p] \in Streams
    BY DEF TypeOK
  <2>2. stored' \in Stores
    BY <1>4, <2>1 DEF TypeOK, Creates, Stores
  <2>3. step' \in [Pods -> Steps]
    BY <1>4 DEF TypeOK, Creates, Enter, Steps
  <2>4. ~Last(p) => todo[p] + 1 \in Streams
    BY <2>1 DEF Last, Streams
  <2>5. todo' \in [Pods -> Streams] /\ left' \in [Pods -> Nat]
    BY <1>4, <2>4 DEF TypeOK, Creates
  <2> QED  BY <1>4, <2>2, <2>3, <2>5, Typed DEF TypeOK, Creates
<1>5. CASE ProbesSize(p)
  <2>1. Missing(UnknownSize) \in Nat
    BY DEF Missing, UnknownSize
  <2>2. \A n \in Nat : Missing(n) \in Nat
    BY DEF Missing
  <2>3. todo[p] \in Streams
    BY DEF TypeOK
  <2>4. left' \in [Pods -> Nat]
    BY <1>5, <2>1, <2>2, <2>3, AnswerFacts DEF TypeOK, ProbesSize
  <2> QED  BY <1>5, <2>4 DEF TypeOK, ProbesSize, Enter, serverVars, Pods, Streams, Clients
<1>6. CASE SendsAppend(p)
  <2>1. todo[p] \in Streams /\ left[p] \in Nat
    BY DEF TypeOK
  <2>2. left' \in [Pods -> Nat]
    BY <1>6, <2>1 DEF TypeOK, SendsAppend
  <2>3. out[p][todo[p]] + 1 \in Nat
    BY <2>1 DEF TypeOK
  <2>4. out' \in [Pods -> [Streams -> Nat]]
    BY <1>6, <2>1, <2>3, OutType DEF SendsAppend
  <2> QED  BY <1>6, <2>2, <2>4, Typed DEF TypeOK, SendsAppend, serverVars, Steps, Stores
<1>7. CASE AppendsSent(p)
  <2>1. todo[p] \in Streams
    BY DEF TypeOK
  <2>2. step' \in [Pods -> Steps]
    BY <1>7 DEF TypeOK, AppendsSent, Enter, Steps
  <2>3. ~Last(p) => todo[p] + 1 \in Streams
    BY <2>1 DEF Last, Streams
  <2>4. todo' \in [Pods -> Streams] /\ left' \in [Pods -> Nat]
    BY <1>7, <2>3 DEF TypeOK, AppendsSent
  <2> QED  BY <1>7, <2>2, <2>4, Typed DEF TypeOK, AppendsSent, serverVars, Stores
<1>8. CASE Joined(p)
  <2>1. todo[p] \in Streams
    BY DEF TypeOK
  <2>2. ~Last(p) => todo[p] + 1 \in Streams
    BY <2>1 DEF Last, Streams
  <2>3. todo' \in [Pods -> Streams]
    BY <1>8, <2>2 DEF TypeOK, Joined
  <2>4. step' \in [Pods -> Steps]
    <3>1. \E place \in Steps : step' = [step EXCEPT ![p] = place]
      BY <1>8 DEF Joined, Enter, Steps
    <3> QED  BY <3>1 DEF TypeOK, Steps
  <2> QED  BY <1>8, <2>3, <2>4, Typed DEF TypeOK, Joined, serverVars, Stores
<1>9. CASE Publishes(p)  BY <1>9 DEF TypeOK, Publishes, Enter, serverVars, Pods, Streams, Clients
<1>10. CASE Collects(p)  BY <1>10 DEF TypeOK, Collects, Enter, serverVars, Pods, Streams, Clients
<1> QED
  BY <1>1, <1>2, <1>3, <1>4, <1>5, <1>6, <1>7, <1>8, <1>9, <1>10 DEF PodNext

LEMMA AnswerType ==
  ASSUME TypeOK, NEW p \in Pods, AnswerNext(p)
  PROVE  TypeOK'
<1> USE LoadFacts
<1>1. PICK s \in Streams : Succeeds(p, s) \/ Fails(p, s)
  BY DEF AnswerNext
<1>2. out[p][s] > 0 /\ out' = [out EXCEPT ![p][s] = @ - 1]
  BY <1>1 DEF Succeeds, Fails
<1>3. out[p][s] \in Nat
  BY DEF TypeOK
<1>4. out' \in [Pods -> [Streams -> Nat]]
  <2>1. out[p][s] - 1 \in Nat
    BY <1>2, <1>3
  <2> QED  BY <1>2, <2>1, OutType
<1>5. stored' \in Stores /\ adrift' \in [Streams -> Nat]
  <2>1. \/ UNCHANGED stored
        \/ stored[s] # Absent /\ stored' = [stored EXCEPT ![s] = @ + 1]
    BY <1>1 DEF Succeeds, Fails
  <2>2. UNCHANGED adrift \/ adrift' = [adrift EXCEPT ![s] = @ + 1]
    BY <1>1 DEF Succeeds, Fails
  <2>3. stored[s] # Absent => stored[s] + 1 \in Nat
    BY DEF TypeOK
  <2>4. adrift[s] + 1 \in Nat
    BY DEF TypeOK
  <2>5. stored' \in Stores
    BY <2>1, <2>3 DEF TypeOK, Stores
  <2>6. adrift' \in [Streams -> Nat]
    BY <2>2, <2>4 DEF TypeOK
  <2> QED  BY <2>5, <2>6
<1>6. landed' \in [Pods -> Nat] /\ lost' \in [Pods -> Nat]
  BY <1>1 DEF TypeOK, Succeeds, Fails
<1> QED  BY <1>1, <1>4, <1>5, <1>6, Typed DEF TypeOK, Succeeds, Fails, Steps

LEMMA LateType ==
  ASSUME TypeOK, NEW s \in Streams, Lands(s) \/ DeletedLate(s)
  PROVE  TypeOK'
<1> USE LoadFacts
<1>1. CASE Lands(s)
  <2>1. stored' \in Stores /\ adrift' \in [Streams -> Nat]
    BY <1>1 DEF TypeOK, Lands, Stores
  <2> QED  BY <1>1, <2>1, Typed DEF TypeOK, Lands, setupVars, Steps
<1>2. CASE DeletedLate(s)  BY <1>2 DEF TypeOK, DeletedLate, setupVars, Pods, Streams, Clients
<1> QED  BY <1>1, <1>2

\* The end of a replay leaves a state a client can be in.
LEMMA EndType ==
  ASSUME TypeOK, NEW c \in Clients, NEW got \in Nat,
         NEW counter \in {"ok", "backpressure", "other_err"},
         Ends(c, counter, got)
  PROVE  client' \in [Clients -> ClientStates]
  BY ClientFacts DEF Ends, Becomes, Fresh, ClientStates, TypeOK

LEMMA ClientType ==
  ASSUME TypeOK, NEW c \in Clients, ClientNext(c)
  PROVE  TypeOK'
<1> USE LoadFacts, ClientFacts
<1> SUFFICES client' \in [Clients -> ClientStates] /\ Unmoved
  BY DEF TypeOK, Unmoved, serverVars, setupVars, Pods, Streams, Clients
<1>1. CASE Enters(c)
  <2>1. \A d \in Clients, place \in {"waiting", "reading"} :
          [client[d] EXCEPT !.place = place] \in ClientStates
    BY DEF ClientStates
  <2>2. CASE Becomes(c, [client[c] EXCEPT !.place = "waiting"])
    BY <1>1, <2>1, <2>2 DEF TypeOK, Enters, Becomes
  <2>3. CASE \E going \in SUBSET Clients :
               client' = [d \in Clients |-> IF d \in going
                            THEN [client[d] EXCEPT !.place = "reading"] ELSE client[d]]
    <3>1. PICK going \in SUBSET Clients :
                 client' = [d \in Clients |-> IF d \in going
                              THEN [client[d] EXCEPT !.place = "reading"] ELSE client[d]]
      BY <2>3
    <3>2. \A d \in Clients :
            /\ [client[d] EXCEPT !.place = "reading"] \in ClientStates
            /\ client[d] \in ClientStates
      BY <2>1
    <3> HIDE DEF ClientStates
    <3>3. client' \in [Clients -> ClientStates]
      BY <3>1, <3>2
    <3> QED  BY <1>1, <3>3 DEF Enters
  <2>4. \/ Becomes(c, [client[c] EXCEPT !.place = "waiting"])
        \/ client' = [d \in Clients |->
                        IF d \in {e \in Clients : e = c \/ (Stampede /\ e \in
                             {f \in ClientsOf(c[1]) : client[f].place = "waiting"})}
                        THEN [client[d] EXCEPT !.place = "reading"] ELSE client[d]]
    BY <1>1 DEF Enters
  <2> QED  BY <1>1, <2>2, <2>3, <2>4 DEF Enters
<1>2. CASE ReadsPage(c)
  <2>1. PICK n \in Answers(ReplayOf(c), client[c].offset) :
          IF GoesOn(c, n, client[c].pages + 1)
          THEN Becomes(c, [client[c] EXCEPT !.offset = @ + n, !.pages = client[c].pages + 1])
          ELSE Ends(c, "ok", client[c].offset + n)
    BY <1>2 DEF ReadsPage
  <2>2. n \in Nat /\ client[c].offset \in Nat /\ client[c].pages \in Nat
    BY <1>2, AnswerFacts DEF ReadsPage, ClientStates
  <2>3. CASE GoesOn(c, n, client[c].pages + 1)
    <3> DEFINE read == [client[c] EXCEPT !.offset = @ + n, !.pages = client[c].pages + 1]
    <3>1. read \in ClientStates
      <4>1. client[c].offset + n \in Nat /\ client[c].pages + 1 \in Nat
        BY <2>2
      <4>2. client[c] \in ClientStates
        OBVIOUS
      <4> QED  BY <4>1, <4>2 DEF ClientStates
    <3>2. client' = [client EXCEPT ![c] = read]
      BY <2>1, <2>3 DEF Becomes
    <3>3. client \in [Clients -> ClientStates]
      BY DEF TypeOK
    <3> HIDE DEF read
    <3>4. client' \in [Clients -> ClientStates]
      BY <3>1, <3>2, <3>3
    <3> QED  BY <1>2, <3>4 DEF ReadsPage
  <2>4. CASE ~GoesOn(c, n, client[c].pages + 1)
    BY <1>2, <2>1, <2>2, <2>4, EndType DEF ReadsPage
  <2> QED  BY <2>3, <2>4
<1>3. CASE ReplayFails(c)  BY <1>3, EndType DEF ReplayFails
<1>4. CASE ReaderEnds(c)  BY <1>4 DEF TypeOK, ReaderEnds, Becomes, ClientStates
<1> QED  BY <1>1, <1>2, <1>3, <1>4 DEF ClientNext

LEMMA NextType == TypeOK /\ [Next]_vars => TypeOK'
<1> SUFFICES ASSUME TypeOK, [Next]_vars PROVE TypeOK'
  OBVIOUS
<1>1. ASSUME NEW p \in Pods, PodNext(p) PROVE TypeOK'  BY <1>1, SetupType
<1>2. ASSUME NEW p \in Pods, AnswerNext(p) PROVE TypeOK'  BY <1>2, AnswerType
<1>3. ASSUME NEW p \in Pods, Passes(p) PROVE TypeOK'
  BY <1>3 DEF TypeOK, Passes, serverVars, setupVars, Pods, Streams, Clients
<1>4. ASSUME NEW s \in Streams, Lands(s) \/ DeletedLate(s) PROVE TypeOK'
  BY <1>4, LateType
<1>5. ASSUME NEW c \in Clients, ClientNext(c) PROVE TypeOK'  BY <1>5, ClientType
<1>6. CASE UNCHANGED vars
  BY <1>6 DEF vars, TypeOK, serverVars, setupVars, Pods, Streams, Clients
<1> QED  BY <1>1, <1>2, <1>3, <1>4, <1>5, <1>6 DEF Next

\* Type correctness, of any command lines and faults.
THEOREM TypeCorrect == Spec => []TypeOK
  BY InitType, NextType, PTL DEF Spec

-----------------------------------------------------------------------------
(***************************************************************************)
(* A stampede starts together.                                             *)
(***************************************************************************)

\* Behind the join a pod of a stampede has nothing in flight; a client that moved
\* belongs to a pod that drives; who reads was released with all others of its pod.
Settled  == \A p \in Pods : Stampede /\ step[p] \in {"publish", "drive", "done"} => AllAnswered(p)
Driven   == \A c \in Clients : client[c].place # "start" => step[c[1]] \in {"drive", "done"}
Released ==
  \A c \in Clients : Stampede /\ client[c].place \in {"reading", "done"} =>
    \A d \in ClientsOf(c[1]) : client[d].place \in {"reading", "done"}

StampedeInv == Settled /\ Driven /\ Released

LEMMA StampedeInit == Init => StampedeInv
  BY DEF Init, StampedeInv, Settled, Driven, Released, Fresh, Clients, Pods

LEMMA StampedeSetup ==
  ASSUME TypeOK, StampedeInv, NEW p \in Pods, PodNext(p)
  PROVE  StampedeInv'
<1>1. UNCHANGED <<load, client>>
  BY DEF PodNext, Bails, Begins, Deletes, Creates, ProbesSize, SendsAppend, AppendsSent,
         Joined, Publishes, Collects
<1>2. Released'
  BY <1>1 DEF StampedeInv, Released, Stampede, Clients, ClientsOf, Pods
<1>3. /\ step' \in [Pods -> Steps]
      /\ \A q \in Pods : q # p => step'[q] = step[q]
      /\ step[p] = "drive" => step'[p] \in {"drive", "done"}
      /\ step[p] = "done" => step'[p] = "done"
  <2>1. TypeOK'
    BY SetupType
  <2>2. \/ UNCHANGED step /\ step[p] \notin {"drive", "done"}
        \/ \E place : Enter(p, place) /\ step[p] \notin {"drive", "done"}
        \/ step[p] = "drive" /\ Enter(p, "done")
    BY DEF PodNext, Bails, Begins, Deletes, Creates, ProbesSize, SendsAppend, AppendsSent,
           Joined, Publishes, Collects
  <2> QED  BY <2>1, <2>2 DEF TypeOK, Enter, Steps, Pods
<1>4. Driven'
  BY <1>1, <1>3, ClientFacts DEF StampedeInv, Driven, Clients, Pods
<1>5. Settled'
  <2> SUFFICES ASSUME NEW q \in Pods, Stampede, step'[q] \in {"publish", "drive", "done"}
               PROVE  AllAnswered(q)'
    BY <1>1 DEF Settled, Stampede, Pods
  <2>1. CASE q # p
    <3>1. out'[q] = out[q]
      BY <2>1 DEF TypeOK, PodNext, Bails, Begins, Deletes, Creates, ProbesSize, SendsAppend,
                  AppendsSent, Joined, Publishes, Collects
    <3> QED  BY <1>1, <1>3, <2>1, <3>1 DEF StampedeInv, Settled, AllAnswered, Streams
  <2>2. CASE q = p
    <3>1. \/ AllAnswered(p) /\ UNCHANGED out
          \/ step[p] \in {"publish", "drive", "done"} /\ UNCHANGED out
      <4>1. step'[p] \in {"publish", "drive", "done"}
        BY <2>2
      <4>2. \A place : Enter(p, place) => step'[p] = place
        BY DEF Enter, TypeOK
      <4> QED
        BY <4>1, <4>2 DEF PodNext, Bails, Begins, Deletes, Creates, ProbesSize, SendsAppend,
                  AppendsSent, Joined, Publishes, Collects
    <3> QED  BY <1>1, <2>2, <3>1 DEF StampedeInv, Settled, AllAnswered, Streams
  <2> QED  BY <2>1, <2>2
<1> QED  BY <1>2, <1>4, <1>5 DEF StampedeInv

LEMMA StampedeAnswer ==
  ASSUME TypeOK, StampedeInv, NEW p \in Pods, AnswerNext(p)
  PROVE  StampedeInv'
<1>1. PICK s \in Streams : Succeeds(p, s) \/ Fails(p, s)
  BY DEF AnswerNext
<1>2. /\ UNCHANGED <<load, client, step>> /\ out[p][s] > 0
      /\ out' = [out EXCEPT ![p][s] = @ - 1]
  BY <1>1 DEF Succeeds, Fails
<1>3. Driven' /\ Released'
  BY <1>2 DEF StampedeInv, Driven, Released, Stampede, Clients, ClientsOf, Pods
<1>4. Settled'
  <2> SUFFICES ASSUME NEW q \in Pods, Stampede, step[q] \in {"publish", "drive", "done"}
               PROVE  AllAnswered(q)'
    BY <1>2 DEF Settled, Stampede, Pods
  <2>1. AllAnswered(q)
    BY DEF StampedeInv, Settled
  <2>2. q # p
    BY <1>2, <2>1 DEF AllAnswered, TypeOK
  <2>3. out'[q] = out[q]
    BY <1>2, <2>2 DEF TypeOK
  <2> QED  BY <1>2, <2>1, <2>3 DEF AllAnswered, Streams
<1> QED  BY <1>3, <1>4 DEF StampedeInv

\* The clients of a pod are as many as its barrier waits for.
LEMMA ClientCount ==
  ASSUME TypeOK, NEW p \in Pods
  PROVE  IsFiniteSet(ClientsOf(p)) /\ Cardinality(ClientsOf(p)) = load.clients
<1>1. IsFiniteSet({p}) /\ Cardinality({p}) = 1
  BY FS_Singleton
<1>2. /\ IsFiniteSet(0 .. load.clients - 1)
      /\ Cardinality(0 .. load.clients - 1) = load.clients
  <2>1. PICK n \in Nat : n = load.clients
    BY LoadFacts
  <2>2. /\ IsFiniteSet(0 .. n - 1)
        /\ Cardinality(0 .. n - 1) = IF 0 > n - 1 THEN 0 ELSE n - 1 - 0 + 1
    <3>1. 0 \in Int /\ n - 1 \in Int
      BY <2>1
    <3> QED  BY <3>1, FS_Interval, Zenon
  <2>3. (IF 0 > n - 1 THEN 0 ELSE n - 1 - 0 + 1) = n
    BY <2>1
  <2> QED  BY <2>1, <2>2, <2>3
<1>3. /\ IsFiniteSet(ClientsOf(p))
      /\ Cardinality(ClientsOf(p)) = 1 * load.clients
  BY <1>1, <1>2, FS_Product DEF ClientsOf
<1> QED  BY <1>3, LoadFacts

\* The last client at the barrier finds all others of its pod waiting there.
LEMMA LastArrival ==
  ASSUME TypeOK, NEW p \in Pods, NEW c \in ClientsOf(p), client[c].place = "start",
         NEW waiting \in SUBSET {d \in ClientsOf(p) : client[d].place = "waiting"},
         Cardinality(waiting) + 1 = Ready(p)
  PROVE  ClientsOf(p) = waiting \cup {c}
<1>1. IsFiniteSet(waiting)
  BY ClientCount, FS_Subset
<1>2. c \notin waiting
  OBVIOUS
<1>3. Cardinality(waiting \cup {c}) = Cardinality(ClientsOf(p))
  BY <1>1, <1>2, FS_AddElement, ClientCount DEF Ready
<1> QED  BY <1>3, ClientCount, FS_Subset

\* A client that does not enter the barrier reads on, or is done; nobody else moves.
LEMMA ReaderMoves ==
  ASSUME TypeOK, NEW c \in Clients, ClientNext(c), ~Enters(c)
  PROVE  /\ client[c].place = "reading" /\ client'[c].place \in {"reading", "done"}
         /\ \A d \in Clients : d # c => client'[d] = client[d]
<1>1. /\ client[c].place = "reading"
      /\ \E state \in ClientStates :
           /\ client' = [client EXCEPT ![c] = state]
           /\ state.place \in {"reading", "done"}
  <2>1. client[c].place = "reading"
    BY DEF ClientNext, ReadsPage, ReplayFails, ReaderEnds, Reading
  <2>2. ASSUME NEW counter, NEW got, Ends(c, counter, got)
        PROVE  \E state : Becomes(c, state) /\ state.place \in {"reading", "done"}
    <3> DEFINE counted == [client[c] EXCEPT !.place = "done", !.got = got, !.counted = counter]
               again   == [Fresh EXCEPT !.place = "reading"]
               known   == [Fresh EXCEPT !.place = "reading", !.got = got, !.counted = counter]
    <3>1. counted.place = "done" /\ again.place = "reading" /\ known.place = "reading"
      BY ClientFacts DEF Fresh, ClientStates
    <3>2. Becomes(c, counted) \/ Becomes(c, again) \/ Becomes(c, known)
      BY <2>2 DEF Ends
    <3> HIDE DEF counted, again, known
    <3> QED  BY <3>1, <3>2
  <2>3. \E state : Becomes(c, state) /\ state.place \in {"reading", "done"}
    <3>1. CASE ReadsPage(c)
      <4>1. PICK n : IF GoesOn(c, n, client[c].pages + 1)
              THEN Becomes(c, [client[c] EXCEPT !.offset = @ + n, !.pages = client[c].pages + 1])
              ELSE Ends(c, "ok", client[c].offset + n)
        BY <3>1 DEF ReadsPage
      <4> DEFINE read == [client[c] EXCEPT !.offset = @ + n, !.pages = client[c].pages + 1]
      <4>2. read.place = "reading"
        BY <2>1, ClientFacts DEF ClientStates
      <4>3. Becomes(c, read) \/ Ends(c, "ok", client[c].offset + n)
        BY <4>1
      <4> HIDE DEF read
      <4> QED  BY <2>2, <4>2, <4>3
    <3>2. CASE ReplayFails(c)
      BY <2>2, <3>2 DEF ReplayFails
    <3>3. CASE ReaderEnds(c)
      <4> DEFINE ended == [client[c] EXCEPT !.place = "done"]
      <4>1. ended.place = "done" /\ Becomes(c, ended)
        BY <3>3, ClientFacts DEF ReaderEnds, ClientStates
      <4> HIDE DEF ended
      <4> QED  BY <4>1
    <3> QED  BY <3>1, <3>2, <3>3 DEF ClientNext
  <2>4. TypeOK' /\ UNCHANGED load
    BY ClientType DEF ClientNext, ReadsPage, ReplayFails, ReaderEnds, Unmoved
  <2>5. client' \in [Clients -> ClientStates]
    BY <2>4 DEF TypeOK, Clients, Pods
  <2> QED  BY <2>1, <2>3, <2>5 DEF Becomes, TypeOK
<1>2. /\ \A d \in Clients : d # c => client'[d] = client[d]
      /\ client'[c].place \in {"reading", "done"}
  BY <1>1 DEF TypeOK
<1> QED  BY <1>1, <1>2

\* A client that need not wait goes to read, in a stampede with all clients of its pod.
LEMMA Releases ==
  ASSUME TypeOK, NEW c \in Clients, Enters(c),
         NEW waiting, waiting = {d \in ClientsOf(c[1]) : client[d].place = "waiting"},
         ~(Stampede /\ Cardinality(waiting) + 1 # Ready(c[1]))
  PROVE  /\ \A d \in Clients : d = c \/ (Stampede /\ d \in waiting) =>
                client'[d].place = "reading"
         /\ \A d \in Clients : ~(d = c \/ (Stampede /\ d \in waiting)) =>
                client'[d] = client[d]
         /\ Stampede => \A d \in ClientsOf(c[1]) : client'[d].place = "reading"
<1>1. /\ \A d \in Clients : d = c \/ (Stampede /\ d \in waiting) =>
            client'[d].place = "reading"
      /\ \A d \in Clients : ~(d = c \/ (Stampede /\ d \in waiting)) =>
            client'[d] = client[d]
  BY ClientFacts DEF Enters, ClientStates
<1>2. c[1] \in Pods /\ c \in ClientsOf(c[1])
  BY ClientFacts
<1>3. \A d \in ClientsOf(c[1]) : d \in Clients
  BY <1>2 DEF ClientsOf, Clients
<1>4. Stampede => ClientsOf(c[1]) = waiting \cup {c}
  BY <1>2, LastArrival DEF Enters
<1> QED  BY <1>1, <1>3, <1>4

LEMMA StampedeClient ==
  ASSUME TypeOK, StampedeInv, NEW c \in Clients, ClientNext(c)
  PROVE  StampedeInv'
<1>1. /\ UNCHANGED <<load, step, out>> /\ step[c[1]] = "drive"
  BY DEF ClientNext, Enters, ReadsPage, ReplayFails, ReaderEnds, Unmoved, setupVars,
         Reading
<1>2. Settled'
  BY <1>1 DEF StampedeInv, Settled, Stampede, AllAnswered, Pods, Streams
<1>3. c[1] \in Pods /\ c \in ClientsOf(c[1])
  BY ClientFacts
<1>4. CASE Enters(c)
  <2> DEFINE waiting == {d \in ClientsOf(c[1]) : client[d].place = "waiting"}
  <2>1. CASE Stampede /\ Cardinality(waiting) + 1 # Ready(c[1])
    <3>1. client' = [client EXCEPT ![c] = [client[c] EXCEPT !.place = "waiting"]]
      BY <1>4, <2>1 DEF Enters, Becomes
    <3>2. /\ \A d \in Clients : d # c => client'[d] = client[d]
          /\ client'[c].place = "waiting"
      BY <3>1, ClientFacts DEF TypeOK, ClientStates
    <3>3. Driven'
      BY <1>1, <3>2 DEF StampedeInv, Driven, Clients, Pods
    <3>4. \A d \in Clients : d # c /\ client[d].place \in {"reading", "done"} =>
            c \notin ClientsOf(d[1])
      BY <1>4, <2>1 DEF StampedeInv, Released, Enters
    <3>5. Released'
      BY <1>1, <3>2, <3>4 DEF StampedeInv, Released, Stampede, Clients, ClientsOf, Pods
    <3> QED  BY <1>2, <3>3, <3>5 DEF StampedeInv
  <2>2. CASE ~(Stampede /\ Cardinality(waiting) + 1 # Ready(c[1]))
    <3>1. /\ \A d \in Clients : d = c \/ (Stampede /\ d \in waiting) =>
                client'[d].place = "reading"
          /\ \A d \in Clients : ~(d = c \/ (Stampede /\ d \in waiting)) =>
                client'[d] = client[d]
      BY <1>4, <2>2, Releases
    <3>2. \A d \in ClientsOf(c[1]) : d[1] = c[1] /\ d \in Clients
      BY <1>3 DEF ClientsOf, Clients
    <3>3. Driven'
      BY <1>1, <3>1, <3>2 DEF StampedeInv, Driven, Clients, Pods
    <3>5. Stampede => \A d \in ClientsOf(c[1]) : client'[d].place = "reading"
      BY <1>4, <2>2, Releases
    <3>6. \A d \in Clients : d[1] # c[1] =>
            client'[d] = client[d] /\ \A e \in ClientsOf(d[1]) : client'[e] = client[e]
      BY <3>1, <3>2 DEF ClientsOf, Clients
    <3>7. Released'
      BY <1>1, <3>5, <3>6 DEF StampedeInv, Released, Stampede, Clients, ClientsOf, Pods
    <3> QED  BY <1>2, <3>3, <3>7 DEF StampedeInv
  <2> QED  BY <2>1, <2>2
<1>5. CASE ~Enters(c)
  <2>2. /\ client[c].place = "reading" /\ client'[c].place \in {"reading", "done"}
        /\ \A d \in Clients : d # c => client'[d] = client[d]
    BY <1>5, ReaderMoves
  <2>3. Driven'
    BY <1>1, <2>2 DEF StampedeInv, Driven, Clients, Pods
  <2>4. \A d \in Clients : Stampede /\ client'[d].place \in {"reading", "done"} =>
          client[d].place \in {"reading", "done"}
    BY <2>2
  <2>5. \A d \in Clients : ClientsOf(d[1]) \subseteq Clients
    BY DEF ClientsOf, Clients
  <2>6. Released'
    BY <1>1, <2>2, <2>4, <2>5 DEF StampedeInv, Released, Stampede, Clients, ClientsOf, Pods
  <2> QED  BY <1>2, <2>3, <2>6 DEF StampedeInv
<1> QED  BY <1>4, <1>5

LEMMA StampedeNext == TypeOK /\ StampedeInv /\ [Next]_vars => StampedeInv'
<1> SUFFICES ASSUME TypeOK, StampedeInv, [Next]_vars PROVE StampedeInv'
  OBVIOUS
<1>1. ASSUME NEW p \in Pods, PodNext(p) PROVE StampedeInv'  BY <1>1, StampedeSetup
<1>2. ASSUME NEW p \in Pods, AnswerNext(p) PROVE StampedeInv'  BY <1>2, StampedeAnswer
<1>3. ASSUME UNCHANGED <<load, step, out, client>> PROVE StampedeInv'
  BY <1>3 DEF StampedeInv, Settled, Driven, Released, AllAnswered, Stampede, Pods, Streams,
              Clients, ClientsOf
<1>4. ASSUME NEW p \in Pods, Passes(p) PROVE StampedeInv'
  BY <1>3, <1>4 DEF Passes, setupVars
<1>5. ASSUME NEW s \in Streams, Lands(s) \/ DeletedLate(s) PROVE StampedeInv'
  BY <1>3, <1>5 DEF Lands, DeletedLate, setupVars
<1>6. ASSUME NEW c \in Clients, ClientNext(c) PROVE StampedeInv'
  BY <1>6, StampedeClient
<1>7. CASE UNCHANGED vars
  BY <1>3, <1>7 DEF vars, setupVars
<1> QED  BY <1>1, <1>2, <1>4, <1>5, <1>6, <1>7 DEF Next

\* "STAMPEDE: clients all read from the start simultaneously" (catch_up.rs 195), of any
\* number of clients, streams and pods: nobody reads before the barrier released all
\* clients of its pod, and no append of the pod's setup is in flight by then.
THEOREM StampedeStartsTogether == Spec => []StampedeTogether
<1>1. TypeOK /\ StampedeInv => StampedeTogether
  <2> SUFFICES ASSUME TypeOK, StampedeInv, Stampede, NEW c \in Clients,
                      client[c].place \in {"reading", "done"}
               PROVE  /\ AllAnswered(c[1])
                      /\ \A d \in ClientsOf(c[1]) : client[d].place \in {"reading", "done"}
    BY DEF StampedeTogether
  <2>1. step[c[1]] \in {"drive", "done"} /\ c[1] \in Pods
    BY ClientFacts DEF StampedeInv, Driven
  <2> QED  BY <2>1 DEF StampedeInv, Settled, Released
<1> QED
  BY <1>1, InitType, NextType, StampedeInit, StampedeNext, PTL DEF Spec

\* Nobody is left behind at a barrier that all clients of the pod have come to.
LEMMA BarrierClient ==
  ASSUME TypeOK, StampedeInv, NobodyLeftWaiting, NEW c \in Clients, ClientNext(c)
  PROVE  NobodyLeftWaiting'
<1>1. UNCHANGED load
  BY DEF ClientNext, Enters, ReadsPage, ReplayFails, ReaderEnds, Unmoved
<1>2. SUFFICES ASSUME Stampede, NEW p \in Pods,
                      \A d \in ClientsOf(p) : client'[d].place # "start"
               PROVE  \A d \in ClientsOf(p) : client'[d].place # "waiting"
  BY <1>1 DEF NobodyLeftWaiting, Stampede, Pods, ClientsOf
<1>3. /\ c[1] \in Pods /\ c \in ClientsOf(c[1])
      /\ \A d \in ClientsOf(p) : d \in Clients /\ d[1] = p
  BY ClientFacts DEF ClientsOf, Clients
<1>4. (\A d \in Clients : d[1] = p => client'[d] = client[d]) =>
        \A d \in ClientsOf(p) : client'[d].place # "waiting"
  BY <1>2, <1>3 DEF NobodyLeftWaiting
<1>5. CASE Enters(c)
  <2> DEFINE waiting == {d \in ClientsOf(c[1]) : client[d].place = "waiting"}
  <2>1. CASE Cardinality(waiting) + 1 # Ready(c[1])
    <3>1. client' = [client EXCEPT ![c] = [client[c] EXCEPT !.place = "waiting"]]
      BY <1>2, <1>5, <2>1 DEF Enters, Becomes
    <3>2. \A d \in Clients : d # c => client'[d] = client[d]
      BY <3>1 DEF TypeOK
    <3>3. CASE p = c[1]
      <4>1. client[c].place = "start"
        BY <1>5 DEF Enters
      <4>2. \A d \in ClientsOf(p) : client[d].place \notin {"reading", "done"}
        BY <1>2, <1>3, <3>3, <4>1 DEF StampedeInv, Released
      <4>3. \A d \in ClientsOf(p) : d # c => client[d].place = "waiting"
        BY <1>2, <1>3, <3>2, <4>2, ClientFacts DEF ClientStates
      <4>4. ClientsOf(p) = waiting \cup {c} /\ c \notin waiting
        BY <1>3, <3>3, <4>1, <4>3
      <4>5. IsFiniteSet(waiting)
        BY <3>3, ClientCount, FS_Subset
      <4>6. Cardinality(ClientsOf(p)) = Cardinality(waiting) + 1
        BY <4>4, <4>5, FS_AddElement
      <4> QED  BY <2>1, <3>3, <4>6, ClientCount DEF Ready
    <3>4. CASE p # c[1]
      BY <1>4, <3>2, <3>4
    <3> QED  BY <3>3, <3>4
  <2>2. CASE ~(Cardinality(waiting) + 1 # Ready(c[1]))
    <3>1. /\ \A d \in ClientsOf(c[1]) : client'[d].place = "reading"
          /\ \A d \in Clients : ~(d = c \/ d \in waiting) => client'[d] = client[d]
      BY <1>2, <1>5, <2>2, Releases
    <3>2. CASE p = c[1]
      BY <3>1, <3>2
    <3>3. CASE p # c[1]
      <4>1. \A d \in Clients : d[1] = p => d # c /\ d \notin waiting
        BY <3>3 DEF ClientsOf
      <4> QED  BY <1>4, <3>1, <4>1
    <3> QED  BY <3>2, <3>3
  <2> QED  BY <2>1, <2>2
<1>6. CASE ~Enters(c)
  <2>1. /\ client[c].place = "reading" /\ client'[c].place \in {"reading", "done"}
        /\ \A d \in Clients : d # c => client'[d] = client[d]
    BY <1>6, ReaderMoves
  <2>2. CASE p = c[1]
    <3>1. \A d \in ClientsOf(p) : client[d].place # "waiting"
      BY <1>2, <1>3, <2>1, <2>2 DEF StampedeInv, Released
    <3> QED  BY <1>3, <2>1, <3>1
  <2>3. CASE p # c[1]
    BY <1>4, <2>1, <2>3
  <2> QED  BY <2>2, <2>3
<1> QED  BY <1>5, <1>6

LEMMA BarrierNext ==
  TypeOK /\ StampedeInv /\ NobodyLeftWaiting /\ [Next]_vars => NobodyLeftWaiting'
<1> SUFFICES ASSUME TypeOK, StampedeInv, NobodyLeftWaiting, [Next]_vars
             PROVE  NobodyLeftWaiting'
  OBVIOUS
<1>1. ASSUME UNCHANGED <<load, client>> PROVE NobodyLeftWaiting'
  BY <1>1 DEF NobodyLeftWaiting, Stampede, Pods, ClientsOf
<1>2. ASSUME NEW p \in Pods, PodNext(p) \/ AnswerNext(p) \/ Passes(p)
      PROVE  UNCHANGED <<load, client>>
  BY <1>2 DEF PodNext, Bails, Begins, Deletes, Creates, ProbesSize, SendsAppend, AppendsSent,
              Joined, Publishes, Collects, AnswerNext, Succeeds, Fails, Passes
<1>3. ASSUME NEW s \in Streams, Lands(s) \/ DeletedLate(s) PROVE UNCHANGED <<load, client>>
  BY <1>3 DEF Lands, DeletedLate
<1>4. ASSUME NEW c \in Clients, ClientNext(c) PROVE NobodyLeftWaiting'
  BY <1>4, BarrierClient
<1>5. CASE UNCHANGED vars
  BY <1>1, <1>5 DEF vars
<1> QED  BY <1>1, <1>2, <1>3, <1>4, <1>5 DEF Next

\* Barrier::new(args.clients) (catch_up.rs 196), of any number of clients: whatever fails,
\* nobody waits at the barrier of a pod all of whose clients have come to it.
THEOREM BarrierOpens == Spec => []NobodyLeftWaiting
<1>1. Init => NobodyLeftWaiting
  BY DEF Init, NobodyLeftWaiting, ClientsOf, Clients, Fresh
<1> QED
  BY <1>1, InitType, NextType, StampedeInit, StampedeNext, BarrierNext, PTL DEF Spec

-----------------------------------------------------------------------------
(***************************************************************************)
(* A replay that is counted holds the records of the setup.                *)
(***************************************************************************)
Alone   == load.command = "catch-up" /\ load.pods = 1
Seeding == load.command = "reads" /\ \A p \in Pods : lost[p] = 0

Full(s) == stored[s] # Absent /\ stored[s] >= load.events

\* A catch-up stream that is there holds the appends that succeeded, since none does
\* before it is created for the last time.
CatchUpInv ==
  Alone =>
    /\ step[0] \in {"namespace", "delete", "create"} => landed[0] = 0 /\ AllAnswered(0)
    /\ \A s \in Streams : stored[s] # Absent => stored[s] >= landed[0]
    /\ step[0] \in {"publish", "drive", "done"} => landed[0] >= load.events

\* reads deletes nothing.
KeepsStreams ==
  load.command = "reads" => doomed = {} /\ \A p \in Pods : step[p] \notin {"delete", "publish"}

\* The streams behind a pod are full; the one it is at will be, with what the pod has
\* still to send and to be answered.
SeededBy(p) ==
  /\ \A s \in Streams : s < todo[p] \/ step[p] \in {"drive", "done"} => Full(s)
  /\ step[p] \in {"probe", "append", "join"} => stored[todo[p]] # Absent
  /\ step[p] \in {"append", "join"} =>
       stored[todo[p]] + left[p] + out[p][todo[p]] >= load.events
  /\ step[p] = "join" => left[p] = 0

SeedInv == KeepsStreams /\ (Seeding => \A p \in Pods : SeededBy(p))

\* A page that is followed by another held a record.
Paged == \A c \in Clients : client[c].offset >= client[c].pages

LEMMA WholeInit == Init => CatchUpInv /\ SeedInv /\ Paged
<1> SUFFICES ASSUME Init PROVE CatchUpInv /\ SeedInv /\ Paged
  OBVIOUS
<1>1. TypeOK
  BY InitType
<1>2. CatchUpInv
  BY <1>1 DEF Init, CatchUpInv, Alone, AllAnswered, Pods, TypeOK
<1>3. SeedInv
  BY <1>1 DEF Init, SeedInv, KeepsStreams, SeededBy, Pods, Streams
<1>4. Paged
  BY DEF Init, Paged, Fresh
<1> QED  BY <1>2, <1>3, <1>4

\* What the steps that are not a pod's own leave alone.
LEMMA Frames ==
  /\ \A p : Passes(p) => UNCHANGED <<load, serverVars, setupVars, client>>
  /\ \A c : ClientNext(c) => UNCHANGED <<load, serverVars, setupVars>>
  /\ \A s : Lands(s) \/ DeletedLate(s) => UNCHANGED <<load, setupVars, client>>
  /\ \A p : PodNext(p) \/ AnswerNext(p) => UNCHANGED <<load, client>>
<1>1. \A p : PodNext(p) => UNCHANGED <<load, client>>
  BY DEF PodNext, Bails, Begins, Deletes, Creates, ProbesSize, SendsAppend, AppendsSent,
         Joined, Publishes, Collects
<1>2. \A p : AnswerNext(p) => UNCHANGED <<load, client>>
  BY DEF AnswerNext, Succeeds, Fails
<1>3. \A c : ClientNext(c) => UNCHANGED <<load, serverVars, setupVars>>
  BY DEF ClientNext, Enters, ReadsPage, ReplayFails, ReaderEnds, Unmoved
<1> QED  BY <1>1, <1>2, <1>3 DEF Passes, Lands, DeletedLate

LEMMA LoadStays == [Next]_vars => UNCHANGED load
  BY Frames DEF Next, vars

LEMMA CatchUpNext == TypeOK /\ CatchUpInv /\ [Next]_vars => CatchUpInv'
<1> SUFFICES ASSUME TypeOK, CatchUpInv, [Next]_vars, Alone PROVE CatchUpInv'
  BY LoadStays DEF CatchUpInv, Alone
<1>1. /\ Pods = {0} /\ Streams = {0} /\ todo[0] = 0 /\ Last(0) /\ Stampede
      /\ UNCHANGED <<Pods, Streams, Alone>>
  BY LoadFacts, LoadStays DEF TypeOK, Alone, Pods, Streams, Last, Stampede
<1>2. ASSUME PodNext(0) PROVE CatchUpInv'
  <2>1. UNCHANGED landed /\ \A place : Enter(0, place) => step'[0] = place
    BY <1>1, <1>2 DEF TypeOK, Enter, PodNext, Bails, Begins, Deletes, Creates, ProbesSize,
                      SendsAppend, AppendsSent, Joined, Publishes, Collects
  <2>2. ASSUME UNCHANGED <<stored, out>>,
               \/ step'[0] \in {"append", "join", "failed"}
               \/ step'[0] = "delete" /\ step[0] = "namespace"
               \/ step'[0] \in {"drive", "done"} /\ step[0] \in {"publish", "drive"}
               \/ step'[0] \in {"publish", "drive"} /\ landed[0] >= load.events
        PROVE  CatchUpInv'
    BY <1>1, <2>1, <2>2, LoadStays DEF CatchUpInv, AllAnswered
  <2>3. CASE Deletes(0)
    <3>1. /\ step'[0] = "create" /\ step[0] = "delete" /\ UNCHANGED out
          /\ stored'[0] = Absent \/ stored'[0] = stored[0]
      BY <1>1, <2>1, <2>3 DEF Deletes, TypeOK
    <3> QED  BY <1>1, <2>1, <3>1, LoadStays DEF CatchUpInv, AllAnswered
  <2>4. CASE Creates(0)
    <3>1. /\ step'[0] = "append" /\ step[0] = "create"
          /\ stored'[0] = IF stored[0] = Absent THEN 0 ELSE stored[0]
      BY <1>1, <2>1, <2>4 DEF Creates, TypeOK
    <3> QED  BY <1>1, <2>1, <3>1, LoadStays DEF CatchUpInv
  <2>5. CASE SendsAppend(0)
    <3>1. step'[0] = "append" /\ UNCHANGED stored
      BY <2>5 DEF SendsAppend, serverVars
    <3> QED  BY <1>1, <2>1, <3>1, LoadStays DEF CatchUpInv
  <2>6. CASE Joined(0)
    <3>1. \E place \in {"failed", "publish", "drive"} :
            Enter(0, place) /\ (place # "failed" => SetupHolds(0))
      BY <1>1, <2>6, LoadFacts DEF Joined
    <3>2. SetupHolds(0) => landed[0] >= load.events
      BY DEF SetupHolds, Alone
    <3> QED  BY <2>1, <2>2, <2>6, <3>1, <3>2 DEF Joined, serverVars
  <2>7. CASE Bails(0)        BY <2>1, <2>2, <2>7 DEF Bails, serverVars
  <2>8. CASE Begins(0)       BY <1>1, <2>1, <2>2, <2>8 DEF Begins, serverVars
  <2>9. CASE ProbesSize(0)   BY <2>1, <2>2, <2>9 DEF ProbesSize, serverVars
  <2>10. CASE AppendsSent(0) BY <1>1, <2>1, <2>2, <2>10 DEF AppendsSent, serverVars
  <2>11. CASE Publishes(0)   BY <2>1, <2>2, <2>11 DEF Publishes, serverVars
  <2>12. CASE Collects(0)    BY <2>1, <2>2, <2>12 DEF Collects, serverVars
  <2> QED
    BY <1>2, <2>3, <2>4, <2>5, <2>6, <2>7, <2>8, <2>9, <2>10, <2>11, <2>12 DEF PodNext
<1>3. ASSUME AnswerNext(0) PROVE CatchUpInv'
  <2>1. out[0][0] > 0 /\ UNCHANGED step /\ (Succeeds(0, 0) \/ Fails(0, 0))
    BY <1>1, <1>3 DEF AnswerNext, Succeeds, Fails
  <2>2. step[0] \notin {"namespace", "delete", "create"}
    BY <1>1, <2>1 DEF CatchUpInv, AllAnswered
  <2>3. CASE Succeeds(0, 0)
    <3>1. /\ stored[0] # Absent /\ stored'[0] = stored[0] + 1
          /\ landed'[0] = landed[0] + 1
      BY <1>1, <2>3 DEF Succeeds, TypeOK
    <3>2. stored[0] \in Nat /\ landed[0] \in Nat /\ load.events \in Nat
      BY <1>1, <3>1, LoadFacts DEF TypeOK
    <3> QED  BY <1>1, <2>1, <2>2, <3>1, <3>2, LoadStays DEF CatchUpInv
  <2>4. CASE Fails(0, 0)
    <3>1. UNCHANGED landed
      BY <2>4 DEF Fails
    <3>2. stored'[0] # Absent => stored[0] # Absent /\ stored'[0] \in {stored[0], stored[0] + 1}
      BY <1>1, <2>4 DEF Fails, TypeOK
    <3>3. landed[0] \in Nat /\ stored[0] \in Nat \cup {Absent}
      BY <1>1 DEF TypeOK
    <3> QED  BY <1>1, <2>1, <2>2, <3>1, <3>2, <3>3, LoadStays, LoadFacts DEF CatchUpInv
  <2> QED  BY <2>1, <2>3, <2>4
<1>4. ASSUME Lands(0) \/ DeletedLate(0) PROVE CatchUpInv'
  <2>1. UNCHANGED <<step, out, landed>>
    BY <1>4, Frames DEF setupVars
  <2>2. stored'[0] # Absent => stored[0] # Absent /\ stored'[0] \in {stored[0], stored[0] + 1}
    BY <1>1, <1>4 DEF Lands, DeletedLate, TypeOK
  <2>3. landed[0] \in Nat /\ stored[0] \in Nat \cup {Absent}
    BY <1>1 DEF TypeOK
  <2> QED  BY <1>1, <2>1, <2>2, <2>3, LoadStays DEF CatchUpInv, AllAnswered
<1>5. ASSUME UNCHANGED <<stored, step, out, landed>> PROVE CatchUpInv'
  BY <1>1, <1>5, LoadStays DEF CatchUpInv, AllAnswered
<1>6. ASSUME UNCHANGED <<serverVars, setupVars>> PROVE CatchUpInv'
  BY <1>5, <1>6 DEF serverVars, setupVars
<1>7. CASE Next
  BY <1>1, <1>2, <1>3, <1>4, <1>6, <1>7, Frames DEF Next
<1>8. CASE UNCHANGED vars
  BY <1>6, <1>8 DEF vars
<1> QED  BY <1>7, <1>8

LEMMA KeepsNext == TypeOK /\ KeepsStreams /\ [Next]_vars => KeepsStreams'
<1> SUFFICES ASSUME TypeOK, KeepsStreams, [Next]_vars, load.command = "reads"
             PROVE  KeepsStreams'
  BY LoadStays DEF KeepsStreams
<1>1. /\ ~Stampede /\ doomed = {} /\ \A q \in Pods : step[q] \notin {"delete", "publish"}
      /\ ~load.snapshot /\ UNCHANGED Pods
  BY LoadFacts, LoadStays DEF KeepsStreams, Stampede, Pods
<1>2. ASSUME UNCHANGED step, doomed' = {} PROVE KeepsStreams'
  BY <1>1, <1>2 DEF KeepsStreams
<1>3. ASSUME NEW p \in Pods, PodNext(p) PROVE KeepsStreams'
  <2>1. /\ UNCHANGED doomed
        /\ \/ UNCHANGED step
           \/ \E place \in {"failed", "create", "probe", "append", "join", "drive", "done"} :
                Enter(p, place)
    BY <1>1, <1>3 DEF PodNext, Bails, Begins, Deletes, Creates, ProbesSize, SendsAppend,
         AppendsSent, Joined, Publishes, Collects, serverVars
  <2>2. \A q \in Pods : step'[q] \notin {"delete", "publish"}
    BY <1>1, <2>1 DEF Enter, TypeOK
  <2> QED  BY <1>1, <2>1, <2>2 DEF KeepsStreams
<1>4. ASSUME NEW p \in Pods, AnswerNext(p) PROVE KeepsStreams'
  BY <1>1, <1>2, <1>4 DEF AnswerNext, Succeeds, Fails
<1>5. ASSUME NEW s \in Streams, Lands(s) \/ DeletedLate(s) PROVE KeepsStreams'
  BY <1>1, <1>2, <1>5 DEF Lands, DeletedLate, setupVars
<1>6. ASSUME UNCHANGED <<serverVars, setupVars>> PROVE KeepsStreams'
  BY <1>1, <1>2, <1>6 DEF serverVars, setupVars
<1>7. CASE Next
  BY <1>3, <1>4, <1>5, <1>6, <1>7, Frames DEF Next
<1>8. CASE UNCHANGED vars
  BY <1>6, <1>8 DEF vars
<1> QED  BY <1>7, <1>8

\* Under reads a stream is never taken away, and no record of it.
LEMMA Grows ==
  ASSUME TypeOK, KeepsStreams, [Next]_vars, load.command = "reads", NEW s \in Streams,
         stored[s] # Absent
  PROVE  stored[s] \in Nat /\ stored'[s] \in Nat /\ stored'[s] # Absent /\ stored'[s] >= stored[s]
<1>1. stored[s] \in Nat /\ s \in DOMAIN stored /\ stored[s] + 1 # Absent
  BY LoadFacts DEF TypeOK
<1>2. \/ UNCHANGED stored
      \/ \E r : stored' = [stored EXCEPT ![r] = @ + 1]
      \/ \E r : stored' = [stored EXCEPT ![r] = IF @ = Absent THEN 0 ELSE @]
      \/ \E r : stored' = [stored EXCEPT ![r] = IF @ = Absent THEN @ ELSE @ + 1]
  <2>1. ASSUME NEW p \in Pods, PodNext(p)
        PROVE  \/ UNCHANGED stored
               \/ \E r : stored' = [stored EXCEPT ![r] = IF @ = Absent THEN 0 ELSE @]
    <3>1. step[p] # "delete"
      BY DEF KeepsStreams
    <3> QED
      BY <2>1, <3>1 DEF PodNext, Bails, Begins, Deletes, Creates, ProbesSize, SendsAppend,
         AppendsSent, Joined, Publishes, Collects, serverVars
  <2>2. ASSUME NEW p \in Pods, AnswerNext(p)
        PROVE  UNCHANGED stored \/ \E r : stored' = [stored EXCEPT ![r] = @ + 1]
    BY <2>2 DEF AnswerNext, Succeeds, Fails
  <2>3. ASSUME NEW r \in Streams, Lands(r) \/ DeletedLate(r)
        PROVE  stored' = [stored EXCEPT ![r] = IF @ = Absent THEN @ ELSE @ + 1]
    BY <2>3 DEF Lands, DeletedLate, KeepsStreams
  <2>4. CASE Next
    BY <2>1, <2>2, <2>3, <2>4, Frames DEF Next, serverVars
  <2>5. CASE UNCHANGED vars
    BY <2>5 DEF vars, serverVars
  <2> QED  BY <2>4, <2>5
<1>3. stored'[s] \in {stored[s], stored[s] + 1}
  BY <1>1, <1>2
<1> QED  BY <1>1, <1>3

\* No append failed after a step unless none had before it.
LEMMA SeedingBefore == TypeOK /\ [Next]_vars /\ Seeding' => Seeding
<1> SUFFICES ASSUME TypeOK, [Next]_vars, Seeding' PROVE Seeding
  OBVIOUS
<1>1. UNCHANGED load /\ load.command = "reads"
  BY LoadStays DEF Seeding
<1>2. UNCHANGED lost \/ \E p \in Pods : lost' = [lost EXCEPT ![p] = @ + 1]
  <2>1. ASSUME NEW p \in Pods, PodNext(p) PROVE UNCHANGED lost
    BY <2>1 DEF PodNext, Bails, Begins, Deletes, Creates, ProbesSize, SendsAppend,
         AppendsSent, Joined, Publishes, Collects
  <2>2. ASSUME NEW p \in Pods, AnswerNext(p)
        PROVE  UNCHANGED lost \/ lost' = [lost EXCEPT ![p] = @ + 1]
    BY <2>2 DEF AnswerNext, Succeeds, Fails
  <2>3. CASE Next
    BY <2>1, <2>2, <2>3, Frames DEF Next, setupVars
  <2> QED  BY <2>3 DEF vars, setupVars
<1>3. \A p \in Pods : lost[p] \in Nat /\ lost'[p] >= lost[p]
  BY <1>2 DEF TypeOK
<1> QED  BY <1>1, <1>3 DEF Seeding, Pods

\* A pod is seeding still when others take a step, or the server does.
LEMMA SeededStays ==
  ASSUME TypeOK, KeepsStreams, [Next]_vars, load.command = "reads", NEW p \in Pods,
         SeededBy(p), step'[p] = step[p], todo'[p] = todo[p], left'[p] = left[p],
         out'[p] = out[p]
  PROVE  SeededBy(p)'
<1>1. \A s \in Streams : Full(s) => Full(s)'
  BY LoadStays, LoadFacts, Grows DEF Full
<1>2. todo[p] \in Streams /\ UNCHANGED Streams
  BY LoadStays DEF TypeOK, Streams
<1>3. stored[todo[p]] # Absent =>
        /\ stored'[todo[p]] # Absent
        /\ stored[todo[p]] + left[p] + out[p][todo[p]] >= load.events =>
             stored'[todo[p]] + left[p] + out[p][todo[p]] >= load.events
  <2> SUFFICES ASSUME stored[todo[p]] # Absent
               PROVE  /\ stored'[todo[p]] # Absent
                      /\ stored[todo[p]] + left[p] + out[p][todo[p]] >= load.events =>
                           stored'[todo[p]] + left[p] + out[p][todo[p]] >= load.events
    OBVIOUS
  <2>1. /\ stored[todo[p]] \in Nat /\ stored'[todo[p]] \in Nat /\ stored'[todo[p]] # Absent
        /\ stored'[todo[p]] >= stored[todo[p]]
    BY <1>2, Grows
  <2>2. left[p] \in Nat /\ out[p][todo[p]] \in Nat /\ load.events \in Nat
    BY <1>2, LoadFacts DEF TypeOK
  <2> QED  BY <2>1, <2>2
<1> QED  BY <1>1, <1>2, <1>3, LoadStays DEF SeededBy

LEMMA SeededSetup ==
  ASSUME TypeOK, KeepsStreams, load.command = "reads", NEW p \in Pods, SeededBy(p),
         PodNext(p)
  PROVE  SeededBy(p)'
<1>1. /\ ~Stampede /\ ~load.snapshot /\ SetupHolds(p) /\ step[p] \notin {"delete", "publish"}
      /\ UNCHANGED <<load, Streams>> /\ todo[p] \in Streams
      /\ \A place : Enter(p, place) => step'[p] = place
  BY LoadFacts, Frames DEF KeepsStreams, Stampede, SetupHolds, Enter, TypeOK, Streams
<1>2. left[p] \in Nat /\ load.events \in Nat /\ \A s \in Streams : out[p][s] \in Nat
  BY LoadFacts DEF TypeOK
<1>3. [Next]_vars
  BY DEF Next
<1>4. \A s \in Streams : Full(s) => Full(s)'
  BY <1>1, <1>3, LoadFacts, Grows DEF Full
<1>5. \A s \in Streams : s < todo[p] => Full(s)
  BY DEF SeededBy
<1>6. ASSUME UNCHANGED todo, step'[p] \in {"create", "failed"} PROVE SeededBy(p)'
  BY <1>1, <1>4, <1>5, <1>6 DEF SeededBy
<1>7. CASE Bails(p)   BY <1>1, <1>6, <1>7 DEF Bails
<1>8. CASE Begins(p)  BY <1>1, <1>6, <1>8 DEF Begins
<1>9. CASE Creates(p)
  <2>1. /\ UNCHANGED todo /\ step'[p] = "probe"
        /\ stored' = [stored EXCEPT ![todo[p]] = IF @ = Absent THEN 0 ELSE @]
    BY <1>1, <1>9 DEF Creates
  <2>2. stored'[todo[p]] # Absent
    BY <1>1, <2>1, LoadFacts DEF TypeOK
  <2> QED  BY <1>1, <1>4, <1>5, <2>1, <2>2 DEF SeededBy
<1>10. CASE ProbesSize(p)
  <2>1. /\ UNCHANGED <<todo, stored, out>> /\ step'[p] = "append" /\ stored[todo[p]] # Absent
    BY <1>1, <1>10 DEF ProbesSize, serverVars, SeededBy
  <2>2. PICK n \in {UnknownSize} \cup Answers(todo[p], 0) :
          left' = [left EXCEPT ![p] = Missing(n)]
    BY <1>10, <2>1 DEF ProbesSize
  <2>3. n \in Nat /\ stored[todo[p]] \in Nat /\ stored[todo[p]] >= n
    BY <1>1, <2>1, <2>2, AnswerFacts DEF UnknownSize, TypeOK
  <2>4. left'[p] = Missing(n) /\ n + Missing(n) >= load.events /\ Missing(n) \in Nat
    BY <1>2, <2>2, <2>3 DEF Missing, TypeOK
  <2>5. stored'[todo[p]] + left'[p] + out'[p][todo[p]] >= load.events
    BY <1>1, <1>2, <2>1, <2>3, <2>4
  <2> QED  BY <1>1, <1>4, <1>5, <2>1, <2>5 DEF SeededBy
<1>11. CASE SendsAppend(p)
  <2>1. /\ UNCHANGED <<todo, stored>> /\ step[p] = "append" /\ step'[p] = "append"
        /\ left'[p] = left[p] - 1 /\ out'[p][todo[p]] = out[p][todo[p]] + 1
        /\ stored[todo[p]] # Absent
    BY <1>1, <1>11 DEF SendsAppend, serverVars, SeededBy, TypeOK
  <2>2. stored[todo[p]] \in Nat /\ stored[todo[p]] + left[p] + out[p][todo[p]] >= load.events
    BY <1>1, <2>1 DEF SeededBy, TypeOK
  <2>3. stored'[todo[p]] + left'[p] + out'[p][todo[p]] >= load.events
    BY <1>1, <1>2, <2>1, <2>2
  <2> QED  BY <1>1, <1>4, <1>5, <2>1, <2>3 DEF SeededBy
<1>12. CASE AppendsSent(p)
  <2>1. /\ UNCHANGED <<todo, left, stored, out>> /\ step[p] = "append" /\ step'[p] = "join"
        /\ left[p] = 0
    BY <1>1, <1>12 DEF AppendsSent, serverVars
  <2> QED  BY <1>1, <1>4, <1>5, <2>1 DEF SeededBy
<1>13. CASE Joined(p)
  <2>1. Full(todo[p])
    <3>1. step[p] = "join" /\ out[p][todo[p]] = 0 /\ left[p] = 0 /\ stored[todo[p]] # Absent
      BY <1>1, <1>13 DEF Joined, AllAnswered, SeededBy
    <3>2. stored[todo[p]] \in Nat
      BY <1>1, <3>1 DEF TypeOK
    <3> QED  BY <1>2, <3>1, <3>2 DEF Full, SeededBy
  <2>2. CASE ~Last(p)
    <3>1. step'[p] = "create" /\ todo'[p] = todo[p] + 1
      BY <1>1, <1>13, <2>2 DEF Joined, TypeOK
    <3>2. \A s \in Streams : s < todo[p] + 1 => Full(s)'
      <4>1. \A s \in Streams : s < todo[p] + 1 => s < todo[p] \/ s = todo[p]
        BY <1>1 DEF Streams
      <4> QED  BY <1>1, <1>4, <1>5, <2>1, <4>1
    <3> QED  BY <1>1, <3>1, <3>2 DEF SeededBy
  <2>3. CASE Last(p)
    <3>1. step'[p] = "drive"
      BY <1>1, <1>13, <2>3 DEF Joined
    <3>2. \A s \in Streams : s < todo[p] \/ s = todo[p]
      BY <1>1, <2>3, LoadFacts DEF Last, Streams
    <3> QED  BY <1>1, <1>4, <1>5, <2>1, <3>1, <3>2 DEF SeededBy
  <2> QED  BY <2>2, <2>3
<1>14. CASE Collects(p)
  <2>1. step[p] = "drive" /\ step'[p] = "done"
    BY <1>1, <1>14 DEF Collects
  <2> QED  BY <1>1, <1>4, <2>1 DEF SeededBy
<1> QED
  BY <1>1, <1>7, <1>8, <1>9, <1>10, <1>11, <1>12, <1>13, <1>14
  DEF PodNext, Deletes, Publishes

\* An append that is answered is one less in flight and one more stored.
LEMMA SeededAnswer ==
  ASSUME TypeOK, KeepsStreams, load.command = "reads", NEW p \in Pods, SeededBy(p),
         AnswerNext(p), Seeding'
  PROVE  SeededBy(p)'
<1>1. PICK s \in Streams : Succeeds(p, s)
  <2>1. PICK s \in Streams : Succeeds(p, s) \/ Fails(p, s)
    BY DEF AnswerNext
  <2>2. ~Fails(p, s)
    <3> SUFFICES ASSUME Fails(p, s) PROVE FALSE
      OBVIOUS
    <3>1. lost[p] \in Nat /\ lost'[p] = lost[p] + 1
      BY DEF Fails, TypeOK
    <3>2. lost'[p] = 0
      BY Frames DEF Seeding, Pods
    <3> QED  BY <3>1, <3>2
  <2> QED  BY <2>1, <2>2
<1>2. /\ UNCHANGED <<load, step, todo, left, Streams>> /\ todo[p] \in Streams
      /\ stored[s] # Absent
      /\ \A r \in Streams : /\ stored'[r] = IF r = s THEN stored[r] + 1 ELSE stored[r]
                            /\ out'[p][r] = IF r = s THEN out[p][r] - 1 ELSE out[p][r]
  BY <1>1 DEF Succeeds, TypeOK, Streams
<1>3. [Next]_vars
  BY DEF Next
<1>4. \A r \in Streams : Full(r) => Full(r)'
  BY <1>2, <1>3, LoadFacts, Grows DEF Full
<1>5. \A r \in Streams : stored[r] # Absent =>
        /\ stored'[r] # Absent
        /\ stored'[r] + left'[p] + out'[p][r] = stored[r] + left[p] + out[p][r]
  <2> SUFFICES ASSUME NEW r \in Streams, stored[r] # Absent
               PROVE  /\ stored'[r] # Absent
                      /\ stored'[r] + left'[p] + out'[p][r] = stored[r] + left[p] + out[p][r]
    OBVIOUS
  <2>1. stored[r] \in Nat /\ left[p] \in Nat /\ out[p][r] \in Nat /\ stored'[r] # Absent
    BY <1>3, Grows DEF TypeOK
  <2> QED  BY <1>2, <2>1
<1> QED  BY <1>2, <1>4, <1>5 DEF SeededBy

LEMMA SeedNext == TypeOK /\ SeedInv /\ [Next]_vars => SeedInv'
<1> SUFFICES ASSUME TypeOK, SeedInv, [Next]_vars, Seeding', NEW q \in Pods
             PROVE  SeededBy(q)'
  BY KeepsNext, LoadStays DEF SeedInv, Pods
<1>1. /\ load.command = "reads" /\ KeepsStreams /\ SeededBy(q)
  BY SeedingBefore DEF SeedInv, Seeding
<1>2. ASSUME UNCHANGED setupVars PROVE SeededBy(q)'
  BY <1>1, <1>2, SeededStays DEF setupVars
<1>3. ASSUME NEW p \in Pods, PodNext(p) PROVE SeededBy(q)'
  <2>1. q # p => /\ step'[q] = step[q] /\ todo'[q] = todo[q] /\ left'[q] = left[q]
                 /\ out'[q] = out[q]
    <3>1. \A f : Enter(p, f) => (q # p => step'[q] = step[q])
      BY DEF Enter, TypeOK
    <3> QED
      BY <1>3, <3>1 DEF TypeOK, PodNext, Bails, Begins, Deletes, Creates, ProbesSize, SendsAppend,
         AppendsSent, Joined, Publishes, Collects
  <2> QED  BY <1>1, <1>3, <2>1, SeededStays, SeededSetup
<1>4. ASSUME NEW p \in Pods, AnswerNext(p) PROVE SeededBy(q)'
  <2>1. UNCHANGED <<step, todo, left>> /\ (q # p => out'[q] = out[q])
    BY <1>4 DEF TypeOK, AnswerNext, Succeeds, Fails
  <2> QED  BY <1>1, <1>4, <2>1, SeededStays, SeededAnswer
<1>5. CASE Next
  BY <1>2, <1>3, <1>4, <1>5, Frames DEF Next
<1>6. CASE UNCHANGED vars
  BY <1>2, <1>6 DEF vars
<1> QED  BY <1>5, <1>6

\* The records of the setup fit in the pages a replay may ask for.
Fits == \A a \in Loads : a.events <= PageLimit

\* Who reads finds the records of the setup, if the stream is there.
LEMMA FilledWhenRead ==
  ASSUME TypeOK, CatchUpInv, SeedInv, Alone \/ Seeding, NEW c \in Clients, Reading(c),
         stored[ReplayOf(c)] # Absent
  PROVE  stored[ReplayOf(c)] >= load.events
<1>1. step[c[1]] = "drive" /\ c[1] \in Pods /\ ReplayOf(c) \in Streams
  BY ClientFacts DEF Reading
<1>2. CASE Alone
  <2>1. c[1] = 0
    BY <1>1, <1>2 DEF Alone, Pods
  <2>2. stored[ReplayOf(c)] >= landed[0] /\ landed[0] >= load.events
    BY <1>1, <1>2, <2>1 DEF CatchUpInv
  <2>3. stored[ReplayOf(c)] \in Nat /\ landed[0] \in Nat /\ load.events \in Nat
    BY <1>1, <2>1, LoadFacts DEF TypeOK
  <2> QED  BY <2>2, <2>3
<1>3. CASE Seeding
  BY <1>1, <1>3 DEF SeedInv, SeededBy, Full
<1> QED  BY <1>2, <1>3

\* A replay that ends well has reached the end of the stream, or has had so many pages
\* that they hold as much.
LEMMA EndedWhole ==
  ASSUME TypeOK, CatchUpInv, SeedInv, Paged, Fits, Alone \/ Seeding, NEW c \in Clients,
         Reading(c), stored[ReplayOf(c)] # Absent,
         NEW n \in Answers(ReplayOf(c), client[c].offset),
         ~GoesOn(c, n, client[c].pages + 1)
  PROVE  client[c].offset + n >= load.events
<1> DEFINE offset == client[c].offset  pages == client[c].pages  size == stored[ReplayOf(c)]
<1>1. /\ offset \in Nat /\ pages \in Nat /\ offset >= pages /\ ReplayOf(c) \in Streams
  BY ClientFacts DEF ClientStates, Paged
<1>2. n \in Nat /\ size \in Nat /\ (size <= offset => n = 0)
  BY <1>1, AnswerFacts
<1>3. size >= load.events
  BY FilledWhenRead
<1>4. load.events \in Nat /\ PageLimit \in Nat /\ load.events <= PageLimit
  BY ReplayAssumption, LoadFacts DEF TypeOK, Fits
<1>5. offset + n >= size \/ n = 0 \/ pages + 1 >= PageLimit
  <2>1. load.command # "bootstrap"
    BY DEF Alone, Seeding
  <2> QED  BY <1>1, <1>2, <1>4, <2>1 DEF GoesOn
<1>6. n = 0 => offset + n >= size
  BY <1>1, <1>2, AnswerFacts
<1> HIDE DEF offset, pages, size
<1>7. offset + n >= load.events
  BY <1>1, <1>2, <1>3, <1>4, <1>5, <1>6
<1> QED  BY <1>7 DEF offset

\* The part of the property one client has in it, and what its record must keep.
Whole(state) ==
  /\ state.offset >= state.pages
  /\ state.counted = "ok" /\ (Alone \/ Seeding) => state.got >= load.events

LEMMA WholeIs == Paged /\ ReplayedWhole <=> \A c \in Clients : Whole(client[c])
  BY DEF Paged, ReplayedWhole, Counted, Whole, Alone, Seeding

LEMMA WholeClient ==
  ASSUME TypeOK, CatchUpInv, SeedInv, Paged, ReplayedWhole, Fits, NEW c \in Clients,
         ClientNext(c)
  PROVE  \A d \in Clients : Whole(client'[d])
<1> USE ClientFacts
<1>1. \A d \in Clients : Whole(client[d])
  BY WholeIs
<1>2. \A d \in Clients, place \in {"waiting", "reading", "done"} :
        Whole([client[d] EXCEPT !.place = place])
  BY <1>1 DEF Whole, ClientStates
<1>3. ASSUME NEW state, Becomes(c, state), Whole(state)
      PROVE  \A d \in Clients : Whole(client'[d])
  BY <1>1, <1>3 DEF Becomes, TypeOK
<1>4. ASSUME NEW counter, NEW got, Ends(c, counter, got),
             counter = "ok" /\ (Alone \/ Seeding) => got >= load.events
      PROVE  \A d \in Clients : Whole(client'[d])
  <2> DEFINE counted == [client[c] EXCEPT !.place = "done", !.got = got, !.counted = counter]
             again   == [Fresh EXCEPT !.place = "reading"]
             known   == [Fresh EXCEPT !.place = "reading", !.got = got, !.counted = counter]
  <2>1. Whole(counted)
    BY <1>1, <1>4 DEF Whole, ClientStates
  <2>2. Whole(again) /\ Whole(known)
    BY <1>4 DEF Whole, Fresh
  <2>3. Becomes(c, counted) \/ Becomes(c, again) \/ Becomes(c, known)
    BY <1>4 DEF Ends
  <2> HIDE DEF counted, again, known
  <2> QED  BY <1>3, <2>1, <2>2, <2>3
<1>5. CASE Enters(c)
  <2>1. \/ Becomes(c, [client[c] EXCEPT !.place = "waiting"])
        \/ \A d \in Clients :
             client'[d] \in {client[d], [client[d] EXCEPT !.place = "reading"]}
    BY <1>5 DEF Enters
  <2> QED  BY <1>1, <1>2, <1>3, <2>1
<1>6. CASE ReadsPage(c)
  <2>1. /\ Reading(c) /\ stored[ReplayOf(c)] # Absent
        /\ client[c].offset \in Nat /\ client[c].pages \in Nat
    BY <1>6 DEF ReadsPage, ClientStates
  <2>2. PICK n \in Answers(ReplayOf(c), client[c].offset) :
          IF GoesOn(c, n, client[c].pages + 1)
          THEN Becomes(c, [client[c] EXCEPT !.offset = @ + n, !.pages = client[c].pages + 1])
          ELSE Ends(c, "ok", client[c].offset + n)
    BY <1>6 DEF ReadsPage
  <2>3. CASE GoesOn(c, n, client[c].pages + 1)
    <3> DEFINE read == [client[c] EXCEPT !.offset = @ + n, !.pages = client[c].pages + 1]
    <3>1. n \in Nat /\ n > 0
      BY <2>1, <2>3, AnswerFacts DEF GoesOn
    <3>2. /\ read.offset = client[c].offset + n /\ read.pages = client[c].pages + 1
          /\ read.counted = client[c].counted /\ read.got = client[c].got
      BY DEF ClientStates
    <3>3. Becomes(c, read)
      BY <2>2, <2>3
    <3> HIDE DEF read
    <3>4. Whole(read)
      BY <1>1, <2>1, <3>1, <3>2 DEF Whole
    <3> QED  BY <1>3, <3>3, <3>4
  <2>4. CASE ~GoesOn(c, n, client[c].pages + 1)
    <3>1. Alone \/ Seeding => client[c].offset + n >= load.events
      BY <2>1, <2>4, EndedWhole
    <3> QED  BY <1>4, <2>2, <2>4, <3>1
  <2> QED  BY <2>3, <2>4
<1>7. CASE ReplayFails(c)
  BY <1>4, <1>7 DEF ReplayFails
<1>8. CASE ReaderEnds(c)
  BY <1>2, <1>3, <1>8 DEF ReaderEnds
<1> QED  BY <1>5, <1>6, <1>7, <1>8 DEF ClientNext

LEMMA WholeNext ==
  Fits => (TypeOK /\ CatchUpInv /\ SeedInv /\ Paged /\ ReplayedWhole /\ [Next]_vars
             => Paged' /\ ReplayedWhole')
<1> SUFFICES ASSUME Fits, TypeOK, CatchUpInv, SeedInv, Paged, ReplayedWhole, [Next]_vars
             PROVE  Paged' /\ ReplayedWhole'
  OBVIOUS
<1>1. /\ UNCHANGED <<load, Clients>> /\ (Alone' \/ Seeding' => Alone \/ Seeding)
  BY LoadStays, SeedingBefore DEF Alone, Clients, Pods
<1>2. (\A c \in Clients : Whole(client'[c])) => Paged' /\ ReplayedWhole'
  BY <1>1 DEF Whole, Paged, ReplayedWhole, Counted, Alone, Seeding
<1>3. ASSUME NEW c \in Clients, ClientNext(c) PROVE Paged' /\ ReplayedWhole'
  BY <1>2, <1>3, WholeClient
<1>4. ASSUME UNCHANGED client PROVE Paged' /\ ReplayedWhole'
  BY <1>2, <1>4, WholeIs
<1>5. CASE Next
  BY <1>3, <1>4, <1>5, Frames DEF Next
<1>6. CASE UNCHANGED vars
  BY <1>4, <1>6 DEF vars
<1> QED  BY <1>5, <1>6

\* What is counted is a whole replay (catch_up.rs 91, 186-193; reads.rs 291), of any
\* command line whose setup fits in the pages: catch-up in one pod counts no replay of
\* less than its pre-fill, and reads, in any number of pods, none of less than the seed
\* unless a seed append failed.
THEOREM CountedReplaysAreWhole ==
  ASSUME Fits
  PROVE  Spec => []ReplayedWhole
<1>1. Init => ReplayedWhole
  BY DEF Init, ReplayedWhole, Counted, Fresh
<1>2. TypeOK /\ CatchUpInv /\ SeedInv /\ Paged /\ ReplayedWhole /\ [Next]_vars
        => Paged' /\ ReplayedWhole'
  BY WholeNext
<1> QED
  BY <1>1, <1>2, InitType, NextType, WholeInit, CatchUpNext, SeedNext, PTL DEF Spec
=============================================================================
