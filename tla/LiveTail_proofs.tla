--------------------------- MODULE LiveTail_proofs ---------------------------
(***************************************************************************)
(* For any readers, windows, bounds and faults: what a live-tail reader    *)
(* counts is what first reached it in the measured window, and a reader    *)
(* whose polls and connections never broke misses no record.               *)
(***************************************************************************)
EXTENDS LiveTail, FiniteSetTheorems, TLAPS

-----------------------------------------------------------------------------
(***************************************************************************)
(* Types.                                                                  *)
(***************************************************************************)
Places == {"probe", "check", "sent", "inner", "wait", "done"}

LEMMA TypeFacts ==
  ASSUME TypeOK
  PROVE  /\ now \in 0..MaxTime /\ now \in Nat /\ mode \in Modes /\ log \in Offsets /\ log \in Nat
         /\ writer \in {"check", "tick", "done"}
         /\ place \in [Readers -> Places]
         /\ offset \in [Readers -> Offsets \cup {Now}]
         /\ at \in [Readers -> Offsets \cup {None}] /\ first \in [Readers -> Offsets \cup {None}]
         /\ ok \in [Readers -> Nat] /\ err \in [Readers -> Nat] /\ faults \in [Readers -> Nat]
         /\ seen \in [Readers -> SUBSET (1..log)] /\ fresh \in [Readers -> SUBSET (1..log)]
         /\ MeasureStart \in Nat /\ Deadline \in Nat /\ MaxLog \in Nat /\ MaxTime \in Nat
         /\ Now \notin Nat /\ None \notin Nat
         /\ mode \in {"long-poll", "sse"}
  BY TailAssumption DEF TypeOK, Places, Offsets

LEMMA Typed ==
  ASSUME now' \in 0..MaxTime, mode' \in Modes, log' \in Offsets,
         writer' \in {"check", "tick", "done"},
         place' \in [Readers -> Places],
         offset' \in [Readers -> Offsets \cup {Now}],
         at' \in [Readers -> Offsets \cup {None}], first' \in [Readers -> Offsets \cup {None}],
         ok' \in [Readers -> Nat], err' \in [Readers -> Nat], faults' \in [Readers -> Nat],
         seen' \in [Readers -> SUBSET (1..log')], fresh' \in [Readers -> SUBSET (1..log')]
  PROVE  TypeOK'
  BY DEF TypeOK, Places

\* The records of an answer, as a finite set.
LEMMA Interval ==
  ASSUME NEW a \in Nat, NEW n \in Nat
  PROVE  IsFiniteSet(a + 1 .. n) /\ Cardinality(a + 1 .. n) \in Nat
<1>1. IsFiniteSet(a + 1 .. n)
  <2>1. a + 1 \in Int /\ n \in Int
    OBVIOUS
  <2> QED  BY <2>1, FS_Interval, Zenon
<1> QED  BY <1>1, FS_CardinalityType

LEMMA GotoType ==
  ASSUME TypeOK, NEW r \in Readers, NEW p \in Places, Goto(r, p)
  PROVE  place' \in [Readers -> Places]
  BY TypeFacts DEF Goto

LEMMA ReceiveType ==
  ASSUME TypeOK, NEW r \in Readers, at[r] # None, NEW n \in at[r]..log, Receive(r, n)
  PROVE  /\ ok' \in [Readers -> Nat]
         /\ seen' \in [Readers -> SUBSET (1..log)] /\ fresh' \in [Readers -> SUBSET (1..log)]
<1>1. at[r] \in Nat /\ n \in Nat /\ n <= log /\ log \in Nat
  BY TypeFacts DEF Offsets
<1> DEFINE got == at[r] + 1 .. n
<1>2. Cardinality(got) \in Nat
  BY <1>1, Interval
<1>3. got \subseteq 1..log
  BY <1>1
<1>4. /\ ok' = [ok EXCEPT ![r] = IF Counting THEN @ + Cardinality(got) ELSE @]
      /\ seen' = [seen EXCEPT ![r] = @ \cup got]
      /\ fresh' = [fresh EXCEPT ![r] = IF Counting THEN @ \cup (got \ seen[r]) ELSE @]
  BY DEF Receive
<1> HIDE DEF got
<1>5. ok' \in [Readers -> Nat]
  BY <1>2, <1>4, TypeFacts
<1>6. seen' \in [Readers -> SUBSET (1..log)]
  BY <1>3, <1>4, TypeFacts
<1>7. got \ seen[r] \subseteq 1..log
  BY <1>3
<1>8. fresh' \in [Readers -> SUBSET (1..log)]
  BY <1>4, <1>7, TypeFacts
<1> QED  BY <1>5, <1>6, <1>8

\* A poll or a connection that is open stands somewhere.
Opened == \A r \in Readers : place[r] \in {"inner", "wait"} => at[r] # None

LEMMA InitType == Init => TypeOK /\ Opened
  BY TailAssumption DEF Init, TypeOK, Opened, Offsets

LEMMA ReaderType ==
  ASSUME TypeOK, Opened, NEW r \in Readers, ReaderNext(r)
  PROVE  TypeOK' /\ Opened'
<1> USE TypeFacts
<1>1. now' = now /\ mode' = mode /\ log' = log /\ writer' = writer
  BY DEF ReaderNext, Head, Arrives, Probes, PollAnswered, PollFails, ConnectFails, InnerHead,
         Chunk, Dropped, TimesOut
<1>2. \E p \in Places : Goto(r, p)
  BY DEF ReaderNext, Head, Arrives, Probes, PollAnswered, PollFails, ConnectFails, InnerHead,
         Chunk, Dropped, TimesOut, Places
<1>3. place' \in [Readers -> Places]
  BY <1>2, GotoType
<1>4. CASE Head(r) \/ InnerHead(r) \/ TimesOut(r)
  <2>1. Opened'
    BY <1>4 DEF Head, InnerHead, TimesOut, Goto, Opened
  <2> QED
    BY <1>1, <1>3, <1>4, <2>1, Typed DEF Head, InnerHead, TimesOut, count, hist
<1>5. CASE Arrives(r)
  <2>1. at' \in [Readers -> Offsets \cup {None}] /\ at'[r] \in Offsets
    BY <1>5 DEF Arrives
  <2>2. first' \in [Readers -> Offsets \cup {None}]
    BY <1>5, <2>1 DEF Arrives, StartsAt
  <2>3. Opened'
    BY <1>5, <2>1 DEF Arrives, Goto, Opened, Offsets
  <2> QED  BY <1>1, <1>3, <1>5, <2>1, <2>2, <2>3, Typed DEF Arrives, count
<1>6. CASE Probes(r)
  <2>1. PICK o \in {log, Now, offset[r]} :
          /\ offset' = [offset EXCEPT ![r] = o]
          /\ IF o = Now THEN UNCHANGED first ELSE StartsAt(r, o)
    BY <1>6 DEF Probes
  <2>2. offset' \in [Readers -> Offsets \cup {Now}] /\ first' \in [Readers -> Offsets \cup {None}]
    BY <2>1 DEF StartsAt
  <2>3. Opened'
    BY <1>6 DEF Probes, Goto, Opened
  <2> QED  BY <1>1, <1>3, <1>6, <2>2, <2>3, Typed DEF Probes, count
<1>7. CASE PollAnswered(r)
  <2>1. at[r] # None
    BY <1>7 DEF PollAnswered, Opened
  <2>2. PICK n \in at[r]..log :
          Receive(r, n) /\ \E o \in {n, offset[r]} : offset' = [offset EXCEPT ![r] = o]
    BY <1>7 DEF PollAnswered, NextOffset
  <2>3. n \in Offsets
    BY <2>1, <2>2 DEF Offsets
  <2>4. offset' \in [Readers -> Offsets \cup {Now}]
    BY <2>2, <2>3
  <2>5. Opened'
    BY <1>7 DEF PollAnswered, Goto, Opened
  <2>6. err' = err /\ first' = first /\ faults' = faults /\ at' = at
    BY <1>7, <2>2 DEF Receive, PollAnswered
  <2>7. /\ ok' \in [Readers -> Nat]
        /\ seen' \in [Readers -> SUBSET (1..log)] /\ fresh' \in [Readers -> SUBSET (1..log)]
    BY <2>1, <2>2, ReceiveType
  <2> QED  BY <1>1, <1>3, <2>4, <2>5, <2>6, <2>7, Typed
<1>8. CASE PollFails(r)
  <2>1. err' \in [Readers -> Nat] /\ faults' \in [Readers -> Nat]
    BY <1>8 DEF PollFails, CountError
  <2>2. Opened'
    BY <1>8 DEF PollFails, Goto, Opened
  <2> QED  BY <1>1, <1>3, <1>8, <2>1, <2>2, Typed DEF PollFails
<1>9. CASE ConnectFails(r)
  <2>1. err' \in [Readers -> Nat]
    BY <1>9 DEF ConnectFails, CountError
  <2>2. Opened'
    BY <1>9 DEF ConnectFails, Goto, Opened
  <2> QED  BY <1>1, <1>3, <1>9, <2>1, <2>2, Typed DEF ConnectFails, hist
<1>10. CASE Chunk(r)
  <2>1. at[r] # None
    BY <1>10 DEF Chunk, Opened
  <2>2. PICK n \in at[r]..log : at' = [at EXCEPT ![r] = n] /\ Receive(r, n)
    BY <1>10 DEF Chunk
  <2>3. n \in Offsets
    BY <2>1, <2>2 DEF Offsets
  <2>4. at' \in [Readers -> Offsets \cup {None}]
    BY <2>2, <2>3
  <2>5. Opened'
    BY <1>10, <2>2, <2>3 DEF Chunk, Goto, Opened, Offsets
  <2>6. err' = err /\ first' = first /\ faults' = faults /\ offset' = offset
    BY <1>10, <2>2 DEF Receive, Chunk
  <2>7. /\ ok' \in [Readers -> Nat]
        /\ seen' \in [Readers -> SUBSET (1..log)] /\ fresh' \in [Readers -> SUBSET (1..log)]
    BY <2>1, <2>2, ReceiveType
  <2> QED  BY <1>1, <1>3, <2>4, <2>5, <2>6, <2>7, Typed
<1>11. CASE Dropped(r)
  <2>1. faults' \in [Readers -> Nat]
    BY <1>11 DEF Dropped
  <2>2. Opened'
    BY <1>11 DEF Dropped, Goto, Opened
  <2> QED  BY <1>1, <1>3, <1>11, <2>1, <2>2, Typed DEF Dropped, count
<1> QED  BY <1>4, <1>5, <1>6, <1>7, <1>8, <1>9, <1>10, <1>11 DEF ReaderNext

LEMMA NextType == TypeOK /\ Opened /\ [Next]_vars => TypeOK' /\ Opened'
<1> SUFFICES ASSUME TypeOK, Opened, [Next]_vars PROVE TypeOK' /\ Opened'
  OBVIOUS
<1> USE TypeFacts
<1>1. CASE Append
  <2>1. log' \in Offsets /\ log <= log' /\ log' \in Nat
    BY <1>1 DEF Append, Offsets
  <2>2. 1..log \subseteq 1..log'
    BY <2>1
  <2>3. seen' \in [Readers -> SUBSET (1..log')] /\ fresh' \in [Readers -> SUBSET (1..log')]
    BY <1>1, <2>2 DEF Append, hist
  <2> QED  BY <1>1, <2>1, <2>3, Typed DEF Append, count, hist, Opened
<1>2. CASE WriterHead \/ Abort
  BY <1>2, Typed DEF WriterHead, Abort, count, hist, Opened
<1>3. CASE Tick
  <2>1. now' \in 0..MaxTime
    BY <1>3 DEF Tick
  <2> QED  BY <1>3, <2>1, Typed DEF Tick, count, hist, Opened
<1>4. CASE UNCHANGED vars
  BY <1>4, Typed DEF vars, count, hist, Opened
<1> QED  BY <1>1, <1>2, <1>3, <1>4, ReaderType DEF Next

\* Type correctness of the live-tail modes; an aborted writer has ended when the run has.
THEOREM TypeCorrect == Spec => []TypeOK
  BY InitType, NextType, PTL DEF Spec

-----------------------------------------------------------------------------
(***************************************************************************)
(* What is counted.                                                        *)
(***************************************************************************)

\* Nothing behind the offset, or the place of an open poll or connection, was received:
\* an answer holds no record that was seen.
Behind ==
  \A r \in Readers :
    /\ offset[r] # Now => seen[r] \subseteq 1..offset[r]
    /\ place[r] \in {"inner", "wait"} => seen[r] \subseteq 1..at[r]
    /\ mode = "sse" => offset[r] = Now /\ place[r] # "probe"

Counted == \A r \in Readers : fresh[r] \subseteq seen[r] /\ ok[r] = Cardinality(fresh[r])

\* An answer with records that were not seen counts each, in the window.
LEMMA ReceiveCounts ==
  ASSUME TypeOK, Counted, NEW r \in Readers, at[r] # None, seen[r] \subseteq 1..at[r],
         NEW n \in at[r]..log, Receive(r, n)
  PROVE  Counted' /\ seen'[r] \subseteq 1..n
         /\ \A q \in Readers : q # r => seen'[q] = seen[q]
<1>1. at[r] \in Nat /\ n \in Nat /\ at[r] <= n /\ log \in Nat
  BY TypeFacts DEF Offsets
<1> DEFINE got == at[r] + 1 .. n
<1>2. IsFiniteSet(got) /\ Cardinality(got) \in Nat
  BY <1>1, Interval
<1>3. got \cap seen[r] = {} /\ seen[r] \cup got \subseteq 1..n
  BY <1>1
<1>4. /\ ok' = [ok EXCEPT ![r] = IF Counting THEN @ + Cardinality(got) ELSE @]
      /\ seen' = [seen EXCEPT ![r] = @ \cup got]
      /\ fresh' = [fresh EXCEPT ![r] = IF Counting THEN @ \cup (got \ seen[r]) ELSE @]
  BY DEF Receive
<1>5. IsFiniteSet(fresh[r])
  <2>1. IsFiniteSet(1..log)
    <3>1. 1 \in Int /\ log \in Int
      BY <1>1
    <3> QED  BY <3>1, FS_Interval, Zenon
  <2>2. fresh[r] \in SUBSET (1..log)
    BY TypeFacts
  <2> QED  BY <2>1, <2>2, FS_Subset
<1> HIDE DEF got
<1>6. /\ seen'[r] = seen[r] \cup got
      /\ fresh'[r] = IF Counting THEN fresh[r] \cup got ELSE fresh[r]
      /\ ok'[r] = IF Counting THEN ok[r] + Cardinality(got) ELSE ok[r]
  <2>1. got \ seen[r] = got
    BY <1>3
  <2> QED  BY <1>4, <2>1, TypeFacts
<1>7. \A q \in Readers : q # r => seen'[q] = seen[q] /\ fresh'[q] = fresh[q] /\ ok'[q] = ok[q]
  BY <1>4, TypeFacts
<1>8. Cardinality(fresh[r] \cup got) = Cardinality(fresh[r]) + Cardinality(got)
  <2>1. fresh[r] \cap got = {}
    BY <1>3 DEF Counted
  <2>2. Cardinality(fresh[r] \cap got) = 0
    BY <2>1, FS_EmptySet
  <2>3. Cardinality(fresh[r] \cup got)
          = Cardinality(fresh[r]) + Cardinality(got) - Cardinality(fresh[r] \cap got)
    BY <1>2, <1>5, FS_Union, Zenon
  <2>4. Cardinality(fresh[r]) \in Nat
    BY <1>5, FS_CardinalityType
  <2> QED  BY <1>2, <2>2, <2>3, <2>4
<1>9. fresh'[r] \subseteq seen'[r] /\ ok'[r] = Cardinality(fresh'[r])
  BY <1>6, <1>8 DEF Counted
<1>10. Counted'
  BY <1>7, <1>9 DEF Counted
<1> QED  BY <1>3, <1>6, <1>7, <1>10

\* With the header an answer's offset is where its records end.
LEMMA NextIsCounted ==
  ASSUME ~Headerless, NEW r \in Readers, PollAnswered(r)
  PROVE  \E n \in at[r]..log : offset' = [offset EXCEPT ![r] = n] /\ Receive(r, n)
  BY DEF PollAnswered, NextOffset

LEMMA CountInit == Init => Behind /\ Counted
<1> SUFFICES ASSUME Init PROVE Behind /\ Counted
  OBVIOUS
<1>1. \A r \in Readers : seen[r] = {} /\ fresh[r] = {} /\ ok[r] = 0 /\ offset[r] = Now
  BY DEF Init
<1>2. Cardinality({}) = 0
  BY FS_EmptySet
<1> QED  BY <1>1, <1>2 DEF Init, Behind, Counted

LEMMA ReaderCounts ==
  ASSUME ~Headerless, TypeOK, Opened, Behind, Counted, NEW r \in Readers, ReaderNext(r)
  PROVE  Behind' /\ Counted'
<1> USE TypeFacts
<1>1. mode' = mode /\ log' = log
  BY DEF ReaderNext, Head, Arrives, Probes, PollAnswered, PollFails, ConnectFails, InnerHead,
         Chunk, Dropped, TimesOut
<1>2. PICK p \in Places : place' = [place EXCEPT ![r] = p]
  BY DEF ReaderNext, Head, Arrives, Probes, PollAnswered, PollFails, ConnectFails, InnerHead,
         Chunk, Dropped, TimesOut, Places, Goto
<1>3. \A q \in Readers : place'[q] = IF q = r THEN p ELSE place[q]
  BY <1>2
<1>4. CASE Head(r) \/ InnerHead(r) \/ TimesOut(r) \/ Dropped(r) \/ ConnectFails(r) \/ PollFails(r)
  <2>1. offset' = offset /\ at' = at /\ seen' = seen /\ fresh' = fresh /\ ok' = ok
    BY <1>4 DEF Head, InnerHead, TimesOut, Dropped, ConnectFails, PollFails, count, hist
  <2>2. /\ place'[r] \in {"inner", "wait"} => place[r] \in {"inner", "wait"}
        /\ mode = "sse" => place'[r] # "probe"
    BY <1>4 DEF Head, InnerHead, TimesOut, Dropped, ConnectFails, PollFails, Goto
  <2> QED  BY <1>1, <1>3, <2>1, <2>2 DEF Behind, Counted
<1>5. CASE Arrives(r)
  <2>1. /\ offset' = offset /\ seen' = seen /\ fresh' = fresh /\ ok' = ok
        /\ at' = [at EXCEPT ![r] = IF mode = "sse" \/ offset[r] = Now THEN log ELSE offset[r]]
        /\ place[r] = "sent"
    BY <1>5 DEF Arrives, count
  <2>2. seen[r] \subseteq 1..at'[r] /\ \A q \in Readers : q # r => at'[q] = at[q]
    BY <2>1 DEF Behind
  <2>3. place'[r] # "probe"
    BY <1>5 DEF Arrives, Goto
  <2> QED  BY <1>1, <1>3, <2>1, <2>2, <2>3 DEF Behind, Counted
<1>6. CASE Probes(r)
  <2>1. /\ at' = at /\ seen' = seen /\ fresh' = fresh /\ ok' = ok
        /\ place[r] = "probe" /\ place'[r] = "check"
    BY <1>6 DEF Probes, count, Goto
  <2>2. PICK o \in {log, Now, offset[r]} : offset' = [offset EXCEPT ![r] = o]
    BY <1>6 DEF Probes
  <2>3. o # Now => seen[r] \subseteq 1..o
    BY <2>2 DEF Behind
  <2> QED  BY <1>1, <1>3, <2>1, <2>2, <2>3 DEF Behind, Counted
<1>7. CASE PollAnswered(r)
  <2>1. at[r] # None /\ seen[r] \subseteq 1..at[r] /\ at' = at /\ mode = "long-poll"
    BY <1>7 DEF PollAnswered, Opened, Behind
  <2>2. PICK n \in at[r]..log : offset' = [offset EXCEPT ![r] = n] /\ Receive(r, n)
    BY <1>7, NextIsCounted
  <2>3. Counted' /\ seen'[r] \subseteq 1..n /\ \A q \in Readers : q # r => seen'[q] = seen[q]
    BY <2>1, <2>2, ReceiveCounts
  <2>4. place'[r] = "check"
    BY <1>7 DEF PollAnswered, Goto
  <2> QED  BY <1>1, <1>3, <2>1, <2>2, <2>3, <2>4 DEF Behind
<1>8. CASE Chunk(r)
  <2>1. at[r] # None /\ seen[r] \subseteq 1..at[r] /\ offset' = offset /\ mode = "sse"
    BY <1>8 DEF Chunk, Opened, Behind
  <2>2. PICK n \in at[r]..log : at' = [at EXCEPT ![r] = n] /\ Receive(r, n)
    BY <1>8 DEF Chunk
  <2>3. Counted' /\ seen'[r] \subseteq 1..n /\ \A q \in Readers : q # r => seen'[q] = seen[q]
    BY <2>1, <2>2, ReceiveCounts
  <2>4. place'[r] = "inner"
    BY <1>8 DEF Chunk, Goto
  <2> QED  BY <1>1, <1>3, <2>1, <2>2, <2>3, <2>4 DEF Behind
<1> QED  BY <1>4, <1>5, <1>6, <1>7, <1>8 DEF ReaderNext

LEMMA CountNext ==
  ASSUME ~Headerless
  PROVE  TypeOK /\ Opened /\ Behind /\ Counted /\ [Next]_vars => Behind' /\ Counted'
<1> SUFFICES ASSUME TypeOK, Opened, Behind, Counted, [Next]_vars PROVE Behind' /\ Counted'
  OBVIOUS
<1>1. CASE WriterHead \/ Append \/ Abort \/ Tick \/ UNCHANGED vars
  <2>1. UNCHANGED <<mode, place, offset, at, seen, fresh, ok>>
    BY <1>1 DEF WriterHead, Append, Abort, Tick, vars, count, hist
  <2> QED  BY <2>1 DEF Behind, Counted
<1> QED  BY <1>1, ReaderCounts DEF Next

\* run_reader_longpoll, run_sse_reader: the delivery count is the number of records that
\* first reached the reader in the measured window, whatever fails and is retried, of a
\* server that sends the header.
THEOREM CountsFirstSight == ASSUME ~Headerless PROVE Spec => []CountedAtFirstSight
<1>1. Counted => CountedAtFirstSight
  BY DEF Counted, CountedAtFirstSight
<1> QED  BY <1>1, InitType, NextType, CountInit, CountNext, PTL DEF Spec

-----------------------------------------------------------------------------
(***************************************************************************)
(* What reaches a reader whose polls and connections never broke.          *)
(***************************************************************************)

\* What it has is everything from its start up to an offset.
UpTo(r, n) == first[r] # None /\ first[r] <= n /\ seen[r] = first[r] + 1 .. n

\* One that has not started has nothing; in sse it starts once, and is back at the head
\* of its loop only behind the deadline.
Unbroken ==
  \A r \in Readers : faults[r] = 0 =>
    /\ first[r] = None => seen[r] = {}
    /\ place[r] \in {"inner", "wait"} => UpTo(r, at[r])
    /\ mode = "long-poll" /\ place[r] \in {"check", "sent"} =>
         IF offset[r] = Now THEN first[r] = None ELSE UpTo(r, offset[r])
    /\ mode = "long-poll" /\ place[r] = "probe" => first[r] = None /\ offset[r] = Now
    /\ mode = "long-poll" => place[r] # "inner"
    /\ mode = "sse" /\ place[r] \in {"probe", "check", "sent"} =>
         first[r] = None \/ (place[r] = "check" /\ now >= Deadline)

LEMMA UnbrokenInit == Init => Unbroken
  BY DEF Init, Unbroken

LEMMA ReaderUnbroken ==
  ASSUME ~Headerless, TypeOK, Opened, Behind, Unbroken, NEW r \in Readers, ReaderNext(r)
  PROVE  Unbroken'
<1> USE TypeFacts
<1>1. mode' = mode /\ log' = log /\ now' = now
  BY DEF ReaderNext, Head, Arrives, Probes, PollAnswered, PollFails, ConnectFails, InnerHead,
         Chunk, Dropped, TimesOut
<1> DEFINE P(q) ==
      faults[q] = 0 =>
        /\ first[q] = None => seen[q] = {}
        /\ place[q] \in {"inner", "wait"} => UpTo(q, at[q])
        /\ mode = "long-poll" /\ place[q] \in {"check", "sent"} =>
             IF offset[q] = Now THEN first[q] = None ELSE UpTo(q, offset[q])
        /\ mode = "long-poll" /\ place[q] = "probe" => first[q] = None /\ offset[q] = Now
        /\ mode = "long-poll" => place[q] # "inner"
        /\ mode = "sse" /\ place[q] \in {"probe", "check", "sent"} =>
             first[q] = None \/ (place[q] = "check" /\ now >= Deadline)
<1>2. ASSUME NEW q \in Readers, q # r PROVE P(q)'
  <2>1. /\ faults'[q] = faults[q] /\ first'[q] = first[q] /\ seen'[q] = seen[q]
        /\ place'[q] = place[q] /\ at'[q] = at[q] /\ offset'[q] = offset[q]
    <3> USE <1>2
    <3>1. CASE Head(r) \/ InnerHead(r) \/ TimesOut(r)
      BY <3>1 DEF Head, InnerHead, TimesOut, count, hist, Goto
    <3>2. CASE Arrives(r) \/ Probes(r)
      BY <3>2 DEF Arrives, Probes, count, Goto, StartsAt
    <3>3. CASE PollAnswered(r) \/ Chunk(r)
      BY <3>3 DEF PollAnswered, Chunk, Receive, Goto
    <3>4. CASE PollFails(r) \/ ConnectFails(r) \/ Dropped(r)
      BY <3>4 DEF PollFails, ConnectFails, Dropped, count, hist, Goto
    <3> QED  BY <3>1, <3>2, <3>3, <3>4 DEF ReaderNext
  <2> QED  BY <1>1, <2>1 DEF Unbroken, UpTo
<1>3. P(r)
  BY DEF Unbroken
<1>4. P(r)'
  <2> SUFFICES ASSUME faults'[r] = 0
               PROVE  /\ first'[r] = None => seen'[r] = {}
                      /\ place'[r] \in {"inner", "wait"} => UpTo(r, at[r])'
                      /\ mode = "long-poll" /\ place'[r] \in {"check", "sent"} =>
                           IF offset'[r] = Now THEN first'[r] = None ELSE UpTo(r, offset[r])'
                      /\ mode = "long-poll" /\ place'[r] = "probe" =>
                           first'[r] = None /\ offset'[r] = Now
                      /\ mode = "long-poll" => place'[r] # "inner"
                      /\ mode = "sse" /\ place'[r] \in {"probe", "check", "sent"} =>
                           first'[r] = None \/ (place'[r] = "check" /\ now >= Deadline)
    BY <1>1
  <2>0. \A p \in Places : Goto(r, p) => place'[r] = p
    BY DEF Goto
  <2>1. CASE Head(r)
    <3>1. /\ offset' = offset /\ at' = at /\ first' = first /\ seen' = seen /\ faults' = faults
          /\ place[r] = "check" /\ place'[r] = IF now < Deadline THEN "sent" ELSE "done"
      BY <2>1, <2>0 DEF Head, hist, Places
    <3> QED  BY <1>3, <3>1 DEF UpTo
  <2>2. CASE InnerHead(r)
    <3>1. /\ offset' = offset /\ at' = at /\ first' = first /\ seen' = seen /\ faults' = faults
          /\ place[r] = "inner" /\ place'[r] = IF now < Deadline THEN "wait" ELSE "check"
      BY <2>2, <2>0 DEF InnerHead, hist, Places
    <3> QED  BY <1>3, <3>1 DEF UpTo
  <2>3. CASE TimesOut(r)
    <3>1. /\ offset' = offset /\ at' = at /\ first' = first /\ seen' = seen /\ faults' = faults
          /\ place[r] = "wait" /\ place'[r] = "check" /\ now > Deadline /\ mode = "sse"
      BY <2>3, <2>0 DEF TimesOut, hist, Places
    <3> QED  BY <1>3, <3>1 DEF UpTo
  <2>4. CASE Arrives(r)
    <3>1. /\ offset' = offset /\ seen' = seen /\ faults' = faults /\ place[r] = "sent"
          /\ place'[r] = IF mode = "sse" THEN "inner" ELSE "wait"
          /\ at'[r] = IF mode = "sse" \/ offset[r] = Now THEN log ELSE offset[r]
      BY <2>4, <2>0 DEF Arrives, Places
    <3>2. first'[r] = IF first[r] = None THEN at'[r] ELSE first[r]
      BY <2>4 DEF Arrives, StartsAt
    <3>3. at'[r] \in Nat
      BY <3>1 DEF Offsets
    <3>4. UpTo(r, at[r])'
      <4>1. CASE first[r] = None
        <5>1. seen'[r] = {} /\ first'[r] = at'[r]
          BY <1>3, <3>1, <3>2, <4>1
        <5>2. at'[r] + 1 .. at'[r] = {}
          BY <3>3
        <5> QED  BY <3>3, <5>1, <5>2 DEF UpTo
      <4>2. CASE first[r] # None
        BY <1>3, <3>1, <3>2, <4>2 DEF UpTo
      <4> QED  BY <4>1, <4>2
    <3> QED  BY <3>1, <3>2, <3>3, <3>4 DEF UpTo
  <2>5. CASE Probes(r)
    <3>1. at' = at /\ seen' = seen /\ faults' = faults /\ place[r] = "probe" /\ place'[r] = "check"
      BY <2>5, <2>0 DEF Probes, Places
    <3>2. PICK o \in {log, Now, offset[r]} :
            /\ offset' = [offset EXCEPT ![r] = o]
            /\ IF o = Now THEN UNCHANGED first ELSE StartsAt(r, o)
      BY <2>5 DEF Probes
    <3>3. mode = "long-poll" /\ first[r] = None /\ offset[r] = Now /\ seen[r] = {}
      BY <1>3, <3>1 DEF Behind
    <3>4. CASE o = Now
      BY <3>1, <3>2, <3>3, <3>4
    <3>5. CASE o # Now
      <4>1. o = log /\ offset'[r] = log /\ first'[r] = log
        BY <3>2, <3>3, <3>5 DEF StartsAt
      <4>2. log + 1 .. log = {} /\ log <= log
        OBVIOUS
      <4> QED  BY <3>1, <3>3, <4>1, <4>2 DEF UpTo
    <3> QED  BY <3>4, <3>5
  <2>6. ASSUME NEW n \in at[r]..log, Receive(r, n), place[r] = "wait"
        PROVE  UpTo(r, n)' /\ faults' = faults /\ n \in Nat
    <3>1. at[r] \in Nat /\ n \in Nat /\ at[r] <= n
      BY <2>6 DEF Opened, Offsets
    <3>2. first' = first /\ faults' = faults /\ seen'[r] = seen[r] \cup (at[r] + 1 .. n)
      BY <2>6 DEF Receive
    <3>3. UpTo(r, at[r])
      BY <1>3, <2>6, <3>2
    <3>4. first[r] \in Nat
      BY <3>3 DEF UpTo, Offsets
    <3>5. (first[r] + 1 .. at[r]) \cup (at[r] + 1 .. n) = first[r] + 1 .. n
      BY <3>1, <3>3, <3>4 DEF UpTo
    <3> QED  BY <3>1, <3>2, <3>3, <3>4, <3>5 DEF UpTo
  <2>7. CASE PollAnswered(r)
    <3>1. PICK n \in at[r]..log : offset' = [offset EXCEPT ![r] = n] /\ Receive(r, n)
      BY <2>7, NextIsCounted
    <3>2. mode = "long-poll" /\ place[r] = "wait" /\ place'[r] = "check" /\ offset'[r] = n
      BY <2>0, <2>7, <3>1 DEF PollAnswered, Places
    <3>3. UpTo(r, n)' /\ n \in Nat
      BY <2>6, <3>1, <3>2
    <3> QED  BY <3>2, <3>3 DEF UpTo
  <2>8. CASE Chunk(r)
    <3>1. PICK n \in at[r]..log : at' = [at EXCEPT ![r] = n] /\ Receive(r, n)
      BY <2>8 DEF Chunk
    <3>2. mode = "sse" /\ place[r] = "wait" /\ place'[r] = "inner" /\ at'[r] = n
      BY <2>0, <2>8, <3>1 DEF Chunk, Places
    <3>3. UpTo(r, n)'
      BY <2>6, <3>1, <3>2
    <3> QED  BY <3>2, <3>3 DEF UpTo
  <2>9. CASE PollFails(r) \/ Dropped(r)
    BY <2>9 DEF PollFails, Dropped
  <2>10. CASE ConnectFails(r)
    <3>1. /\ offset' = offset /\ at' = at /\ first' = first /\ seen' = seen /\ faults' = faults
          /\ place[r] = "sent" /\ place'[r] = "check" /\ mode = "sse"
      BY <2>10, <2>0 DEF ConnectFails, hist, Places
    <3> QED  BY <1>3, <3>1 DEF UpTo
  <2> QED
    BY <2>1, <2>2, <2>3, <2>4, <2>5, <2>7, <2>8, <2>9, <2>10 DEF ReaderNext
<1> QED  BY <1>2, <1>4 DEF Unbroken

LEMMA UnbrokenNext ==
  ASSUME ~Headerless
  PROVE  TypeOK /\ Opened /\ Behind /\ Unbroken /\ [Next]_vars => Unbroken'
<1> SUFFICES ASSUME TypeOK, Opened, Behind, Unbroken, [Next]_vars PROVE Unbroken'
  OBVIOUS
<1>1. CASE WriterHead \/ Append \/ Abort \/ Tick \/ UNCHANGED vars
  <2>1. UNCHANGED <<mode, place, offset, at, seen, first, faults>>
    BY <1>1 DEF WriterHead, Append, Abort, Tick, vars, hist
  <2>2. now' \in Nat /\ now <= now'
    BY <1>1, TypeFacts DEF WriterHead, Append, Abort, Tick, vars
  <2>3. \A r \in Readers : \A n : UpTo(r, n)' <=> UpTo(r, n')
    BY <2>1 DEF UpTo
  <2> QED  BY <2>1, <2>2, TypeFacts DEF Unbroken, UpTo
<1> QED  BY <1>1, ReaderUnbroken DEF Next

\* A reader whose polls and connections never broke has every record from its start up to
\* where its poll or connection stands, in either mode, of a server that sends the header.
THEOREM UnbrokenMissesNothing == ASSUME ~Headerless PROVE Spec => []NoSilentLoss
<1>1. Unbroken => NoSilentLoss
  BY DEF Unbroken, UpTo, NoSilentLoss
<1> QED
  BY <1>1, InitType, NextType, CountInit, CountNext, UnbrokenInit, UnbrokenNext, PTL DEF Spec
=============================================================================
