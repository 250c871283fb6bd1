--------------------------- MODULE SseDrive_proofs ---------------------------
(***************************************************************************)
(* For command lines of any size, and pods, streams and tasks that divide  *)
(* in any way: the start barrier of a pod waits for all of its tasks and   *)
(* no more, its writers and readers go by one deadline, and what the       *)
(* subscribers hear and record is bounded by it.                           *)
(***************************************************************************)
EXTENDS SseDrive, FiniteSetTheorems, TLAPS

-----------------------------------------------------------------------------
(***************************************************************************)
(* Counting the tasks of a pod.                                            *)
(***************************************************************************)

\* Division with a rest, and its uniqueness.
LEMMA DivMod ==
  ASSUME NEW a \in Nat, NEW k \in Nat, k > 0
  PROVE  /\ a \div k \in Nat /\ a % k \in 0 .. k - 1
         /\ a = k * (a \div k) + (a % k)
  OBVIOUS

LEMMA Times ==
  ASSUME NEW k \in Nat \ {0}, NEW i \in Nat, NEW j \in Nat
  PROVE  /\ k * i \in Nat
         /\ i < j => k * i + k <= k * j
         /\ i <= j => k * i <= k * j
<1>1. k * i \in Nat /\ k * j \in Nat
  OBVIOUS
<1>2. ASSUME i <= j PROVE k * i <= k * j
  BY <1>2
<1>3. ASSUME i < j PROVE k * i + k <= k * j
  <2>1. k * (i + 1) = k * i + k
    OBVIOUS
  <2>2. k * (i + 1) <= k * j
    BY <1>3
  <2> QED  BY <2>1, <2>2
<1> QED  BY <1>1, <1>2, <1>3

LEMMA SameRest ==
  ASSUME NEW k \in Nat \ {0}, NEW p \in 0 .. k - 1, NEW j \in Nat
  PROVE  p + k * j \in Nat /\ (p + k * j) % k = p
<1> DEFINE a == p + k * j
<1>1. k * j \in Nat
  BY Times
<1>2. a \in Nat
  BY <1>1
<1>3. PICK q \in Nat, r \in 0 .. k - 1 : a = k * q + r /\ a % k = r
  <2>1. k > 0
    OBVIOUS
  <2> HIDE DEF a
  <2> QED  BY <1>2, <2>1, DivMod
<1>4. q = j
  <2>1. ~(q < j)
    BY <1>1, <1>3, Times
  <2>2. ~(j < q)
    BY <1>1, <1>3, Times
  <2> QED  BY <2>1, <2>2
<1>5. r = p
  BY <1>1, <1>3, <1>4
<1> QED  BY <1>2, <1>3, <1>5

\* count_cong (multi_fanout.rs 163) counts the numbers below n that are p modulo k.
LEMMA Congruent ==
  ASSUME NEW n \in Nat, NEW k \in Nat \ {0}, NEW p \in 0 .. k - 1,
         NEW m, m = IF p >= n THEN 0 ELSE (n - 1 - p) \div k + 1
  PROVE  /\ IsFiniteSet({i \in 0 .. n - 1 : i % k = p})
         /\ Cardinality({i \in 0 .. n - 1 : i % k = p}) = m
         /\ m \in Nat
<1> DEFINE S == {i \in 0 .. n - 1 : i % k = p}
           F == [j \in 0 .. m - 1 |-> p + k * j]
<1>1. m \in Nat
  BY DivMod
<1>2. \A j \in 0 .. m - 1 : F[j] \in S
  <2> SUFFICES ASSUME NEW j \in 0 .. m - 1 PROVE p + k * j \in S
    OBVIOUS
  <2>1. p < n /\ j \in Nat /\ n - 1 - p \in Nat /\ j <= (n - 1 - p) \div k
    OBVIOUS
  <2>2. k * j <= n - 1 - p
    <3>1. k * j <= k * ((n - 1 - p) \div k)
      BY <2>1, DivMod, Times
    <3> QED  BY <2>1, <3>1, DivMod
  <2>3. p + k * j \in Nat /\ (p + k * j) % k = p
    BY <2>1, SameRest
  <2> QED  BY <2>1, <2>2, <2>3
<1>3. \A i, j \in 0 .. m - 1 : F[i] = F[j] => i = j
  <2> SUFFICES ASSUME NEW i \in 0 .. m - 1, NEW j \in 0 .. m - 1, p + k * i = p + k * j
               PROVE  i = j
    OBVIOUS
  <2>1. i \in Nat /\ j \in Nat /\ k * i = k * j
    BY Times
  <2>2. ~(i < j) /\ ~(j < i)
    BY <2>1, Times
  <2> QED  BY <2>1, <2>2
<1>4. \A i \in S : \E j \in 0 .. m - 1 : F[j] = i
  <2> SUFFICES ASSUME NEW i \in 0 .. n - 1, i % k = p
               PROVE  \E j \in 0 .. m - 1 : p + k * j = i
    OBVIOUS
  <2>1. PICK j \in Nat : i = k * j + p
    <3>1. i \in Nat /\ k > 0
      OBVIOUS
    <3> QED  BY <3>1, DivMod
  <2>2. k * j \in Nat /\ k * j <= n - 1 - p /\ p < n /\ n - 1 - p \in Nat
    BY <2>1, Times
  <2>3. j <= (n - 1 - p) \div k
    <3>1. PICK q \in Nat, r \in 0 .. k - 1 : n - 1 - p = k * q + r /\ q = (n - 1 - p) \div k
      BY <2>2, DivMod
    <3>2. ~(q < j)
      BY <2>2, <3>1, Times
    <3> QED  BY <3>1, <3>2
  <2>4. (n - 1 - p) \div k \in Nat /\ m = (n - 1 - p) \div k + 1
    BY <2>2, DivMod
  <2>5. j \in 0 .. m - 1
    BY <2>3, <2>4
  <2> QED  BY <2>1, <2>2, <2>5
<1>5. F \in Bijection(0 .. m - 1, S)
  <2> HIDE DEF S
  <2>1. F \in [0 .. m - 1 -> S]
    BY <1>2
  <2> HIDE DEF F
  <2>2. F \in Injection(0 .. m - 1, S) /\ F \in Surjection(0 .. m - 1, S)
    BY <1>3, <1>4, <2>1 DEF Injection, IsInjective, Surjection
  <2> QED  BY <2>2 DEF Bijection
<1>6. IsFiniteSet(0 .. m - 1) /\ Cardinality(0 .. m - 1) = m
  <2>1. /\ IsFiniteSet(0 .. m - 1)
        /\ Cardinality(0 .. m - 1) = IF 0 > m - 1 THEN 0 ELSE m - 1 - 0 + 1
    <3>1. 0 \in Int /\ m - 1 \in Int
      BY <1>1
    <3> QED  BY <3>1, FS_Interval, Zenon
  <2>2. (IF 0 > m - 1 THEN 0 ELSE m - 1 - 0 + 1) = m
    BY <1>1
  <2> QED  BY <2>1, <2>2
<1> HIDE DEF F, S
<1>7. IsFiniteSet(S) /\ Cardinality(S) = m
  BY <1>5, <1>6, FS_Bijection DEF ExistsBijection
<1> QED  BY <1>1, <1>7 DEF S

LEMMA NumberedCount ==
  ASSUME NEW kind, NEW n \in Nat, NEW k \in Nat \ {0}, NEW p \in 0 .. k - 1,
         NEW m, m = IF p >= n THEN 0 ELSE (n - 1 - p) \div k + 1
  PROVE  /\ IsFiniteSet({t \in Numbered(kind, n) : t[2] % k = p})
         /\ Cardinality({t \in Numbered(kind, n) : t[2] % k = p}) = m
         /\ m \in Nat
<1> DEFINE S == {i \in 0 .. n - 1 : i % k = p}
           T == {t \in Numbered(kind, n) : t[2] % k = p}
           F == [i \in S |-> <<kind, i>>]
<1>1. IsFiniteSet(S) /\ Cardinality(S) = m /\ m \in Nat
  BY Congruent
<1>2. /\ \A i \in S : F[i] \in T
      /\ \A i, j \in S : F[i] = F[j] => i = j
      /\ \A t \in T : \E i \in S : F[i] = t
  BY DEF Numbered
<1> HIDE DEF S, T
<1>3. F \in [S -> T]
  BY <1>2
<1> HIDE DEF F
<1>4. F \in Bijection(S, T)
  BY <1>2, <1>3 DEF Injection, IsInjective, Surjection, Bijection
<1>5. IsFiniteSet(T) /\ Cardinality(T) = m
  BY <1>1, <1>4, FS_Bijection DEF ExistsBijection
<1> QED  BY <1>1, <1>5 DEF T

\* What the command line says of the numbers the model is built from.
LEMMA ArgFacts ==
  ASSUME args \in Runs
  PROVE  /\ args \in RunArgs /\ args.command \in Commands
         /\ args.pods \in Nat \ {0} /\ args.streams \in Nat \ {0}
         /\ args.subs \in Nat /\ args.writers \in Nat /\ args.readers \in Nat
         /\ args.writerPace \in Nat /\ args.readerPace \in Nat
         /\ args.warmup \in Nat /\ args.duration \in Nat
         /\ args.idle \in Nat /\ args.timeout \in Nat \ {0}
         /\ args.command # "multi-fanout" => args.pods = 1 /\ args.warmup = 0
         /\ args.command # "mixed" => args.writers = 1 /\ args.readers = 0 /\ args.writerPace > 0
         /\ SubCount(args) \in Nat /\ WriterCount(args) \in Nat
<1>1. args \in RunArgs
  BY DriveAssumption
<1>2. /\ args.streams \in Nat /\ args.subs \in Nat /\ args.writers \in Nat
      /\ args.streams * args.subs \in Nat /\ args.streams * args.writers \in Nat
  BY <1>1 DEF RunArgs
<1> QED  BY <1>1, <1>2, DriveAssumption DEF RunArgs, SubCount, WriterCount

\* The kinds of tasks do not meet, and each belongs to a pod.
LEMMA TaskFacts ==
  ASSUME args \in Runs, NEW t \in Tasks
  PROVE  /\ PodOf(t) \in Pods /\ t \in TasksOf(PodOf(t)) /\ t[2] \in Nat
         /\ t \in Subscribers <=> t[1] = "sub"
         /\ t \in Writers <=> t[1] = "writer"
         /\ t \in Readers <=> t[1] = "reader"
<1>1. t[2] \in Nat
  BY ArgFacts DEF Tasks, Requesters, Subscribers, Writers, Readers, SubscribersOf, WritersOf,
                  ReadersOf, Numbered
<1>2. PodOf(t) \in Pods
  <2>1. args.pods \in Nat /\ args.pods > 0
    BY ArgFacts
  <2> QED  BY <1>1, <2>1, DivMod DEF PodOf, Pods
<1>3. /\ t \in Subscribers <=> t[1] = "sub"
      /\ t \in Writers <=> t[1] = "writer"
      /\ t \in Readers <=> t[1] = "reader"
  BY DEF Tasks, Requesters, Subscribers, Writers, Readers, SubscribersOf, WritersOf,
         ReadersOf, Numbered
<1> QED  BY <1>1, <1>2, <1>3 DEF TasksOf

\* The tasks of one kind that a pod has.
LEMMA KindCount ==
  ASSUME args \in Runs, NEW p \in Pods, NEW kind, NEW n \in Nat
  PROVE  /\ IsFiniteSet({t \in Numbered(kind, n) : PodOf(t) = p})
         /\ Cardinality({t \in Numbered(kind, n) : PodOf(t) = p}) = CountCong(n, p)
         /\ CountCong(n, p) \in Nat
<1>1. PICK k \in Nat \ {0} : k = args.pods
  BY ArgFacts
<1>2. PICK m : m = CountCong(n, p)
  OBVIOUS
<1>3. p \in 0 .. k - 1
  BY <1>1 DEF Pods
<1>4. m = IF p >= n THEN 0 ELSE (n - 1 - p) \div k + 1
  BY <1>1, <1>2 DEF CountCong
<1>5. /\ IsFiniteSet({t \in Numbered(kind, n) : t[2] % k = p})
      /\ Cardinality({t \in Numbered(kind, n) : t[2] % k = p}) = m
      /\ m \in Nat
  BY <1>3, <1>4, NumberedCount
<1>6. {t \in Numbered(kind, n) : PodOf(t) = p} = {t \in Numbered(kind, n) : t[2] % k = p}
  BY <1>1 DEF PodOf
<1> QED  BY <1>2, <1>5, <1>6

\* Two finite sets that do not meet.
LEMMA Disjoint ==
  ASSUME NEW A, IsFiniteSet(A), NEW B, IsFiniteSet(B), A \cap B = {}
  PROVE  /\ IsFiniteSet(A \cup B)
         /\ Cardinality(A \cup B) = Cardinality(A) + Cardinality(B)
<1>1. Cardinality(A \cap B) = 0
  BY FS_EmptySet
<1>2. /\ IsFiniteSet(A \cup B)
      /\ Cardinality(A \cup B) = Cardinality(A) + Cardinality(B) - Cardinality(A \cap B)
  BY FS_Union, Zenon
<1>3. Cardinality(A) \in Nat /\ Cardinality(B) \in Nat
  BY FS_CardinalityType
<1> QED  BY <1>1, <1>2, <1>3

\* The barrier of a pod is for as many as its tasks are: the sizes that count_cong adds up
\* (multi_fanout.rs 163-172) are those of the tasks whose number is the pod's, modulo the
\* pods, for any number of streams, subscribers, readers and pods.
THEOREM BarrierIsForAll ==
  ASSUME args \in Runs, NEW p \in Pods, TasksOf(p) # {}
  PROVE  IsFiniteSet(TasksOf(p)) /\ Cardinality(TasksOf(p)) = BarrierSize(p)
<1> DEFINE A == {t \in Subscribers : PodOf(t) = p}
           B == {t \in Writers : PodOf(t) = p}
           C == {t \in Readers : PodOf(t) = p}
           a == CountCong(SubCount(args), p)
           b == CountCong(WriterCount(args), p)
           c == CountCong(args.readers, p)
<1>1. IsFiniteSet(A) /\ Cardinality(A) = a /\ a \in Nat
  BY ArgFacts, KindCount, Zenon DEF Subscribers, SubscribersOf
<1>2. IsFiniteSet(B) /\ Cardinality(B) = b /\ b \in Nat
  BY ArgFacts, KindCount, Zenon DEF Writers, WritersOf
<1>3. IsFiniteSet(C) /\ Cardinality(C) = c /\ c \in Nat
  BY ArgFacts, KindCount, Zenon DEF Readers, ReadersOf
<1>4. TasksOf(p) = (A \cup B) \cup C /\ A \cap B = {} /\ (A \cup B) \cap C = {}
  BY TaskFacts DEF TasksOf, Tasks, Requesters
<1>5. BarrierSize(p) = IF a + b + c = 0 THEN 1 ELSE a + b + c
  BY DEF BarrierSize
<1> HIDE DEF A, B, C, a, b, c
<1>6. IsFiniteSet(A \cup B) /\ Cardinality(A \cup B) = a + b
  BY <1>1, <1>2, <1>4, Disjoint
<1>7. IsFiniteSet(TasksOf(p)) /\ Cardinality(TasksOf(p)) = a + b + c
  BY <1>3, <1>4, <1>6, Disjoint
<1>8. Cardinality(TasksOf(p)) # 0
  BY <1>7, FS_EmptySet
<1> QED  BY <1>5, <1>7, <1>8

-----------------------------------------------------------------------------
(***************************************************************************)
(* Types.                                                                  *)
(***************************************************************************)
SubFuns == [Subscribers -> Nat]
StrayFuns == [Subscribers -> SUBSET {"before", "drain", "behind"}]

LEMMA Typed ==
  ASSUME TypeOK, UNCHANGED args,
         now' \in Nat, drainBy' \in Nat,
         pod' \in [Pods -> {"setup", "drive", "drain", "done", "failed"}],
         created' \subseteq Streams,
         pc' \in [Tasks -> Places],
         conn' \in [Subscribers -> {"none", "open", "failed", "dropped", "cut"}],
         sub' \in [Subscribers -> Locals],
         from' \in SubFuns, missed' \in SubFuns, stray' \in StrayFuns,
         deadline' \in [Pods -> Nat \cup {None}],
         own' \in [Requesters -> Nat \cup {None}],
         due' \in [Requesters -> Nat], late' \in [Requesters -> Nat],
         log' \in [Streams -> Nat]
  PROVE  TypeOK'
<1>1. /\ Pods' = Pods /\ Streams' = Streams /\ Tasks' = Tasks
      /\ Subscribers' = Subscribers /\ Requesters' = Requesters
  BY DEF Pods, Streams, Tasks, Subscribers, Requesters, Writers, Readers
<1> QED  BY <1>1 DEF TypeOK, SubFuns, StrayFuns

\* TypeOK, one variable at a time.
LEMMA TypeFacts ==
  ASSUME TypeOK
  PROVE  /\ args \in Runs /\ now \in Nat /\ drainBy \in Nat
         /\ pod \in [Pods -> {"setup", "drive", "drain", "done", "failed"}]
         /\ created \subseteq Streams
         /\ pc \in [Tasks -> Places]
         /\ conn \in [Subscribers -> {"none", "open", "failed", "dropped", "cut"}]
         /\ sub \in [Subscribers -> Locals]
         /\ from \in SubFuns /\ missed \in SubFuns /\ stray \in StrayFuns
         /\ deadline \in [Pods -> Nat \cup {None}]
         /\ own \in [Requesters -> Nat \cup {None}]
         /\ due \in [Requesters -> Nat] /\ late \in [Requesters -> Nat]
         /\ log \in [Streams -> Nat]
         /\ Grace \in Nat /\ IdleFloor \in Nat /\ Slack \in Nat /\ ConnectFor \in Nat
         /\ MaxStart \in Nat /\ MaxTime \in Nat /\ None \notin Nat
  BY DriveAssumption DEF TypeOK, SubFuns, StrayFuns

LEMMA TaskKinds ==
  /\ Subscribers \subseteq Tasks /\ Requesters \subseteq Tasks
  /\ Writers \subseteq Requesters /\ Readers \subseteq Requesters
  BY DEF Tasks, Requesters

LEMMA IdleType == TypeOK => Idle \in Nat
  BY TypeFacts, ArgFacts DEF Idle

\* The quotient of a number below a product is below a factor.
LEMMA Quotient ==
  ASSUME NEW a \in Nat, NEW m \in Nat, NEW k \in Nat, a \in 0 .. m * k - 1
  PROVE  a \div k \in 0 .. m - 1
<1>1. k > 0
  <2>1. k = 0 => m * k = 0
    OBVIOUS
  <2> QED  BY <2>1
<1>2. PICK q \in Nat, r \in 0 .. k - 1 : a = k * q + r /\ a \div k = q
  BY <1>1, DivMod
<1>3. ~(m <= q)
  <2> SUFFICES ASSUME m <= q PROVE FALSE
    OBVIOUS
  <2>1. k * m <= k * q /\ k * q \in Nat
    BY <1>1, Times
  <2>2. k * m = m * k /\ m * k \in Nat
    OBVIOUS
  <2> QED  BY <1>2, <2>1, <2>2
<1> QED  BY <1>2, <1>3

LEMMA StreamType ==
  ASSUME TypeOK, NEW t \in Tasks
  PROVE  StreamOf(t) \in Streams
<1>1. t[2] \in Nat /\ args.streams \in Nat /\ args.streams > 0 /\ args.subs \in Nat
  BY TypeFacts, TaskFacts, ArgFacts
<1>2. CASE t[1] = "sub" /\ args.command = "multi-fanout"
  <2>1. t[2] \in 0 .. args.streams * args.subs - 1
    BY <1>2, TypeFacts, TaskFacts DEF Subscribers, SubscribersOf, Numbered, SubCount
  <2>2. t[2] \div args.subs \in 0 .. args.streams - 1
    BY <1>1, <2>1, Quotient
  <2> QED  BY <1>2, <2>2 DEF StreamOf, Streams
<1>3. CASE ~(t[1] = "sub" /\ args.command = "multi-fanout")
  <2>1. t[2] % args.streams \in 0 .. args.streams - 1
    BY <1>1, DivMod
  <2> QED  BY <1>3, <2>1 DEF StreamOf, Streams
<1> QED  BY <1>2, <1>3

LEMMA InitType == Init => TypeOK
<1> SUFFICES ASSUME Init PROVE TypeOK
  OBVIOUS
<1>1. NoLocals \in Locals
  BY DEF NoLocals, Locals
<1> QED  BY <1>1 DEF Init, TypeOK, Places

LEMMA ArriveType ==
  ASSUME TypeOK, NEW t \in Tasks, Arrive(t)
  PROVE  pc' \in [Tasks -> Places]
  BY TypeFacts DEF Arrive, Goto, Places

LEMMA GotoType ==
  ASSUME TypeOK, NEW t \in Tasks, NEW place \in Places, Goto(t, place)
  PROVE  pc' \in [Tasks -> Places]
  BY TypeFacts DEF Goto

LEMMA PodType ==
  ASSUME TypeOK, NEW p \in Pods, PodNext(p)
  PROVE  TypeOK'
<1> USE TypeFacts
<1>1. CASE \E st \in Owned(p) : Creates(st)
  <2>1. created' \subseteq Streams
    BY <1>1 DEF Creates, Owned
  <2> QED  BY <1>1, <2>1, Typed DEF Creates, subVars, reqVars
<1>2. CASE SetupFails(p)
  <2>1. pod' \in [Pods -> {"setup", "drive", "drain", "done", "failed"}]
    BY <1>2 DEF SetupFails
  <2> QED  BY <1>2, <2>1, Typed DEF SetupFails, subVars, reqVars
<1>3. CASE SetupDone(p)
  <2>1. pod' \in [Pods -> {"setup", "drive", "drain", "done", "failed"}]
    <3>1. pod' = [pod EXCEPT ![p] = "drive"]
      BY <1>3 DEF SetupDone
    <3> QED  BY <3>1
  <2>2. [NoLocals EXCEPT !.by = now + ConnectFor] \in Locals
    <3>1. PICK by \in Nat : by = now + ConnectFor
      OBVIOUS
    <3>2. [NoLocals EXCEPT !.by = by] \in Locals
      BY DEF NoLocals, Locals
    <3> QED  BY <3>1, <3>2
  <2>3. sub' \in [Subscribers -> Locals]
    BY <1>3, <2>2 DEF SetupDone
  <2> QED  BY <1>3, <2>1, <2>3, Typed DEF SetupDone, reqVars
<1>4. CASE Joins(p)
  <2>1. pod' \in [Pods -> {"setup", "drive", "drain", "done", "failed"}]
    BY <1>4 DEF Joins
  <2> QED  BY <1>4, <2>1, Typed DEF Joins, subVars, reqVars
<1>5. CASE JoinsWriter(p)
  <2>1. pod' \in [Pods -> {"setup", "drive", "drain", "done", "failed"}] /\ drainBy' \in Nat
    BY <1>5, IdleType DEF JoinsWriter
  <2> QED  BY <1>5, <2>1, Typed DEF JoinsWriter, subVars, reqVars
<1>6. CASE Drains(p)
  <2>1. pod' \in [Pods -> {"setup", "drive", "drain", "done", "failed"}]
    BY <1>6 DEF Drains
  <2> QED  BY <1>6, <2>1, Typed DEF Drains, subVars, reqVars
<1> QED  BY <1>1, <1>2, <1>3, <1>4, <1>5, <1>6 DEF PodNext

\* What the loop of a subscriber leaves in its locals.
LEMMA AwaitsType ==
  ASSUME TypeOK, NEW s \in Subscribers, NEW locals \in Locals, Awaits(s, locals) \/ Ends(s)
  PROVE  sub' \in [Subscribers -> Locals] /\ pc' \in [Tasks -> Places]
<1> USE TypeFacts
<1>1. NoLocals \in Locals
  BY DEF NoLocals, Locals
<1>2. s \in Tasks /\ {"wait", "done"} \subseteq Places
  BY TaskKinds DEF Places
<1>3. CASE Ends(s)
  BY <1>1, <1>2, <1>3, GotoType DEF Ends
<1>4. CASE Awaits(s, locals) /\ ~Ends(s)
  <2>1. ReadsDeadline(s) \in Nat \cup {None}
    BY <1>2, TaskFacts DEF ReadsDeadline
  <2>2. now + Patience(ReadsDeadline(s)) \in Nat
    BY <2>1, IdleType DEF Patience, Earlier
  <2>3. [locals EXCEPT !.by = now + Patience(ReadsDeadline(s)), !.end = ReadsDeadline(s)] \in Locals
    BY <2>1, <2>2 DEF Locals
  <2>4. /\ sub' = [sub EXCEPT ![s] = [locals EXCEPT !.by = now + Patience(ReadsDeadline(s)),
                                                    !.end = ReadsDeadline(s)]]
        /\ Goto(s, "wait")
    BY <1>4 DEF Awaits
  <2> QED  BY <1>2, <2>3, <2>4, GotoType
<1> QED  BY <1>3, <1>4

LEMMA SubType ==
  ASSUME TypeOK, NEW s \in Subscribers, SubNext(s)
  PROVE  TypeOK'
<1> USE TypeFacts
<1> DEFINE conns == {"none", "open", "failed", "dropped", "cut"}
<1>1. NoLocals \in Locals /\ sub[s] \in Locals
  BY DEF NoLocals, Locals
<1>2. s \in Tasks /\ "done" \in Places /\ StreamOf(s) \in Streams
  BY TaskKinds, StreamType DEF Places
<1>3. CASE Connects(s)
  <2>1. [NoLocals EXCEPT !.opened = now] \in Locals
    BY DEF NoLocals, Locals
  <2>2. conn' \in [Subscribers -> conns] /\ from' \in SubFuns /\ sub' \in [Subscribers -> Locals]
    BY <1>2, <1>3, <2>1 DEF Connects, SubFuns
  <2>3. pc' \in [Tasks -> Places]
    BY <1>2, <1>3, ArriveType DEF Connects
  <2> QED  BY <1>3, <2>2, <2>3, Typed DEF Connects, podVars, reqVars
<1>4. CASE Unconnected(s) /\ (Arrive(s) \/ Goto(s, "done"))
  <2>1. conn' \in [Subscribers -> conns] /\ sub' \in [Subscribers -> Locals]
    BY <1>1, <1>4 DEF Unconnected
  <2>2. pc' \in [Tasks -> Places]
    BY <1>2, <1>4, ArriveType, GotoType
  <2> QED  BY <1>4, <2>1, <2>2, Typed DEF Unconnected, podVars, reqVars
<1>5. CASE ReturnsFailed(s)
  <2>1. pc' \in [Tasks -> Places]
    BY <1>2, <1>5, GotoType DEF ReturnsFailed
  <2> QED  BY <1>5, <2>1, Typed DEF ReturnsFailed, podVars, subVars, reqVars
<1>6. CASE \E locals \in Locals : Awaits(s, locals) \/ Ends(s)
  <2>1. sub' \in [Subscribers -> Locals] /\ pc' \in [Tasks -> Places]
    BY <1>6, AwaitsType
  <2>2. Listens(s) \/ Receives(s) \/ ReceivesControl(s) \/ Dropped(s) \/ CutOff(s) \/ TimesOut(s)
          \/ Connects(s) \/ (Unconnected(s) /\ (Arrive(s) \/ Goto(s, "done"))) \/ ReturnsFailed(s)
    BY DEF SubNext, ConnectFails, GivesUp, ReturnsUnconnected
  <2>3. CASE Receives(s)
    <3>1. \A end : Phase(end) \in {"before", "window", "drain", "behind"}
      BY DEF Phase
    <3>2. missed' \in SubFuns
      BY <2>3 DEF Receives, SubFuns
    <3>3. stray' \in StrayFuns
      BY <2>3, <3>1 DEF Receives, StrayFuns
    <3> QED  BY <2>1, <2>3, <3>2, <3>3, Typed DEF Receives, podVars, reqVars
  <2>4. CASE Dropped(s) \/ CutOff(s)
    <3>1. conn' \in [Subscribers -> conns]
      BY <2>4 DEF Dropped, CutOff
    <3> QED  BY <2>1, <2>4, <3>1, Typed DEF Dropped, CutOff, podVars, reqVars
  <2>5. CASE Listens(s) \/ ReceivesControl(s) \/ TimesOut(s)
    BY <2>1, <2>5, Typed DEF Listens, ReceivesControl, TimesOut, podVars, reqVars
  <2> QED  BY <1>3, <1>4, <1>5, <2>2, <2>3, <2>4, <2>5
<1>7. ASSUME Listens(s) \/ Receives(s) \/ ReceivesControl(s) \/ Dropped(s) \/ CutOff(s) \/ TimesOut(s)
      PROVE  \E locals \in Locals : Awaits(s, locals) \/ Ends(s)
  <2>1. CASE Listens(s)
    <3>1. [sub[s] EXCEPT !.last = now] \in Locals
      BY <1>1 DEF Locals
    <3> QED  BY <2>1, <3>1 DEF Listens
  <2>2. CASE Receives(s)
    <3>1. PICK n \in 1 .. log[StreamOf(s)] - from[s] - sub[s].got :
            Awaits(s, [sub[s] EXCEPT !.got = @ + n, !.owed = TRUE, !.last = now])
      BY <2>2 DEF Receives
    <3>2. n \in Nat /\ sub[s].got + n \in Nat
      <4>1. log[StreamOf(s)] \in Nat /\ from[s] \in Nat /\ sub[s].got \in Nat
        BY <1>1, <1>2 DEF SubFuns, Locals
      <4> QED  BY <4>1
    <3>3. [sub[s] EXCEPT !.got = @ + n, !.owed = TRUE, !.last = now] \in Locals
      BY <1>1, <3>2 DEF Locals
    <3> QED  BY <3>1, <3>3
  <2>3. CASE ReceivesControl(s)
    <3>1. [sub[s] EXCEPT !.owed = FALSE,
                         !.last = IF args.command = "fanout" THEN @ ELSE now] \in Locals
      BY <1>1 DEF Locals
    <3> QED  BY <2>3, <3>1 DEF ReceivesControl
  <2>4. CASE Dropped(s) \/ CutOff(s) \/ TimesOut(s)
    BY <1>1, <2>4 DEF Dropped, CutOff, TimesOut
  <2> QED  BY <1>7, <2>1, <2>2, <2>3, <2>4
<1> QED
  BY <1>3, <1>4, <1>5, <1>6, <1>7 DEF SubNext, ConnectFails, GivesUp, ReturnsUnconnected

LEMMA SharedDeadlineType ==
  ASSUME TypeOK, NEW p \in Pods
  PROVE  SharedDeadline(p) \in Nat
<1>1. now + (args.warmup + args.duration) \in Nat
  BY TypeFacts, ArgFacts
<1> QED  BY <1>1, TypeFacts DEF SharedDeadline, Window

LEMMA ReqType ==
  ASSUME TypeOK, NEW t \in Requesters, ReqNext(t)
  PROVE  TypeOK'
<1> USE TypeFacts
<1>1. t \in Tasks /\ PodOf(t) \in Pods /\ StreamOf(t) \in Streams /\ Pace(t) \in Nat
  BY TaskKinds, TaskFacts, StreamType, ArgFacts DEF Pace
<1>2. \A place \in {"stagger", "check", "pace", "done", "flight"} :
        Goto(t, place) => pc' \in [Tasks -> Places]
  BY <1>1, GotoType DEF Places
<1>3. CASE Spawned(t)
  <2>1. pc' \in [Tasks -> Places]
    BY <1>1, <1>3, ArriveType DEF Spawned
  <2> QED  BY <1>3, <2>1, Typed DEF Spawned, podVars, subVars, reqVars
<1>4. CASE Crosses(t)
  <2>1. deadline' \in [Pods -> Nat \cup {None}] /\ own' \in [Requesters -> Nat \cup {None}]
    BY <1>1, <1>4, SharedDeadlineType DEF Crosses
  <2>2. t[1] = "reader" => now + Stagger(t) \in Nat
    <3>1. SUFFICES ASSUME t[1] = "reader" PROVE Stagger(t) \in Nat
      OBVIOUS
    <3>2. t[2] \in 0 .. args.readers - 1
      BY <1>1, <3>1, TaskFacts DEF Readers, ReadersOf, Numbered
    <3>3. args.readers \in Nat /\ args.readers > 0 /\ Pace(t) * t[2] \in Nat
      BY <1>1, <3>2, ArgFacts
    <3> QED  BY <3>3, DivMod DEF Stagger
  <2>3. due' \in [Requesters -> Nat] /\ pc' \in [Tasks -> Places]
    BY <1>2, <1>4, <2>2 DEF Crosses
  <2> QED  BY <1>4, <2>1, <2>3, Typed DEF Crosses, podVars, subVars
<1>5. CASE Staggers(t)
  <2>1. due' \in [Requesters -> Nat] /\ pc' \in [Tasks -> Places]
    BY <1>2, <1>5 DEF Staggers
  <2> QED  BY <1>5, <2>1, Typed DEF Staggers, podVars, subVars
<1>6. CASE LoopHead(t)
  <2>1. due' \in [Requesters -> Nat] /\ pc' \in [Tasks -> Places]
    BY <1>2, <1>6 DEF LoopHead
  <2> QED  BY <1>6, <2>1, Typed DEF LoopHead, podVars, subVars
<1>7. CASE Sends(t)
  <2>1. due' \in [Requesters -> Nat] /\ late' \in [Requesters -> Nat] /\ pc' \in [Tasks -> Places]
    BY <1>1, <1>2, <1>7 DEF Sends
  <2> QED  BY <1>7, <2>1, Typed DEF Sends, podVars, subVars
<1>8. CASE Answered(t)
  <2>1. due' \in [Requesters -> Nat] /\ log' \in [Streams -> Nat] /\ pc' \in [Tasks -> Places]
    BY <1>1, <1>2, <1>8 DEF Answered
  <2> QED  BY <1>8, <2>1, Typed DEF Answered, podVars, subVars
<1> QED  BY <1>3, <1>4, <1>5, <1>6, <1>7, <1>8 DEF ReqNext

LEMMA NextType == TypeOK /\ [Next]_vars => TypeOK'
<1> SUFFICES ASSUME TypeOK, [Next]_vars PROVE TypeOK'
  OBVIOUS
<1>1. CASE Tick
  <2>1. now' \in Nat
    BY <1>1, TypeFacts DEF Tick
  <2> QED  BY <1>1, <2>1, TypeFacts, Typed DEF Tick, podVars, subVars, reqVars
<1>2. CASE UNCHANGED vars
  BY <1>2, TypeFacts, Typed DEF vars, podVars, subVars, reqVars
<1> QED  BY <1>1, <1>2, PodType, SubType, ReqType DEF Next

\* Type correctness of the three loads, however they are divided and whatever fails.
THEOREM TypeCorrect == Spec => []TypeOK
  BY InitType, NextType, PTL DEF Spec

-----------------------------------------------------------------------------
(***************************************************************************)
(* The start barrier and the deadline.                                     *)
(***************************************************************************)
Past(t) == pc[t] \notin {"start", "waiting"}

AllPast(p) == \A u \in TasksOf(p) : Past(u)

\* A writer or reader that is past the barrier is so with all tasks of its pod.  (A
\* subscriber of fanout may have returned in front of it.)
Gathered == \A t \in Requesters : Past(t) => AllPast(PodOf(t))

\* A pod in its setup has started no task.
Unstarted == \A t \in Tasks : pod[PodOf(t)] = "setup" => pc[t] = "start"

\* A writer or reader at work has a deadline, that of its pod.
Owners ==
  \A t \in Requesters :
    /\ pc[t] \in {"stagger", "check", "pace", "flight", "done"} => own[t] # None
    /\ own[t] # None => Past(t) /\ own[t] = deadline[PodOf(t)]

\* A deadline is set behind the barrier, and from the clock.
SetBehind ==
  \A p \in Pods : deadline[p] # None => AllPast(p) /\ deadline[p] <= now + Window

\* Only its own pod writes to a stream, behind the pod's barrier.
WrittenBehind == \A st \in Streams : log[st] > 0 => deadline[st % args.pods] # None

\* HeardFromTheStart, and that nothing is said of who is not connected.
Heard ==
  \A s \in Subscribers :
    conn[s] = "none" \/ PodOf(s) = StreamOf(s) % args.pods => from[s] = 0

DriveInv ==
  Gathered /\ Unstarted /\ Owners /\ SetBehind /\ WrittenBehind /\ Heard

LEMMA DriveInit == Init => DriveInv
<1> SUFFICES ASSUME Init PROVE DriveInv
  OBVIOUS
<1>1. Requesters \subseteq Tasks
  BY TaskKinds
<1> QED
  BY <1>1 DEF Init, DriveInv, Gathered, Past, AllPast, Unstarted, Owners, SetBehind,
              WrittenBehind, Heard, TasksOf

\* Nothing but Init chooses the command line.
LEMMA ArgsStay ==
  ASSUME [Next]_vars
  PROVE  /\ args' = args /\ Pods' = Pods /\ Streams' = Streams /\ Tasks' = Tasks
         /\ Subscribers' = Subscribers /\ Requesters' = Requesters /\ Writers' = Writers
         /\ \A t \in Tasks : PodOf(t)' = PodOf(t) /\ StreamOf(t)' = StreamOf(t)
         /\ \A p \in Pods : TasksOf(p)' = TasksOf(p)
<1>1. args' = args
  BY DEF Next, vars, podVars, PodNext, Creates, SetupFails, SetupDone, Joins, JoinsWriter, Drains,
         SubNext, Connects, ConnectFails, GivesUp, ReturnsUnconnected, Unconnected,
         ReturnsFailed, Listens, Receives, ReceivesControl, Dropped, CutOff, TimesOut,
         ReqNext, Spawned, Crosses, Staggers, LoopHead, Sends, Answered, Tick
<1> QED
  BY <1>1 DEF Pods, Streams, Tasks, Subscribers, Requesters, Writers, Readers, PodOf,
              StreamOf, TasksOf

\* A task of a subscriber, a writer or a reader takes a step.
Acts(t) == (t \in Subscribers /\ SubNext(t)) \/ (t \in Requesters /\ ReqNext(t))

LEMMA ActsFacts ==
  ASSUME TypeOK, NEW t \in Tasks, Acts(t)
  PROVE  /\ UNCHANGED <<now, args, pod, drainBy, created>> /\ Driving(t)
         /\ \/ pc[t] = "start" /\ Arrive(t)
            \/ \E place \in {"stagger", "check", "pace", "flight", "wait", "done"} :
                 /\ Goto(t, place)
                 /\ Past(t) \/ (t \in Subscribers /\ pc[t] = "start")
<1>1. ASSUME SubNext(t), t \in Subscribers
      PROVE  /\ UNCHANGED <<now, args, pod, drainBy, created>> /\ Driving(t)
             /\ \/ pc[t] = "start" /\ Arrive(t)
                \/ \E place \in {"wait", "done"} :
                     Goto(t, place) /\ (Past(t) \/ pc[t] = "start")
  BY <1>1 DEF SubNext, Connects, ConnectFails, GivesUp, ReturnsUnconnected, Unconnected,
         ReturnsFailed, Listens, Receives, ReceivesControl, Dropped, CutOff, TimesOut,
         Awaits, Ends, Past, podVars
<1>2. ASSUME ReqNext(t)
      PROVE  /\ UNCHANGED <<now, args, pod, drainBy, created>> /\ Driving(t)
             /\ \/ pc[t] = "start" /\ Arrive(t)
                \/ \E place \in {"stagger", "check", "pace", "flight", "done"} :
                     Goto(t, place) /\ Past(t)
  BY <1>2 DEF ReqNext, Spawned, Crosses, Staggers, LoopHead, Sends, Answered, Past, podVars
<1> QED  BY <1>1, <1>2 DEF Acts

\* Who arrives waits, or is the last: then all tasks of the pod were there, and go on.
LEMMA ArriveEffect ==
  ASSUME TypeOK, NEW t \in Tasks, pc[t] = "start", Arrive(t)
  PROVE  \/ pc' = [pc EXCEPT ![t] = "waiting"]
         \/ /\ \A u \in TasksOf(PodOf(t)) : ~Past(u) /\ pc'[u] = "released"
            /\ \A u \in Tasks : PodOf(u) # PodOf(t) => pc'[u] = pc[u]
<1> DEFINE p == PodOf(t)
           waiting == {u \in TasksOf(p) : pc[u] = "waiting"}
<1>1. p \in Pods /\ t \in TasksOf(p) /\ args \in Runs
  BY TypeFacts, TaskFacts
<1>2. CASE Cardinality(waiting) + 1 # BarrierSize(p)
  BY <1>2 DEF Arrive, Goto
<1>3. CASE Cardinality(waiting) + 1 = BarrierSize(p)
  <2>1. IsFiniteSet(TasksOf(p)) /\ Cardinality(TasksOf(p)) = BarrierSize(p)
    BY <1>1, BarrierIsForAll
  <2>2. IsFiniteSet(waiting)
    BY <2>1, FS_Subset
  <2>3. t \notin waiting /\ waiting \cup {t} \subseteq TasksOf(p)
    BY <1>1
  <2>4. Cardinality(waiting \cup {t}) = Cardinality(waiting) + 1
    BY <2>2, <2>3, FS_AddElement
  <2>5. waiting \cup {t} = TasksOf(p)
    BY <1>3, <2>1, <2>3, <2>4, FS_Subset
  <2>6. \A u \in TasksOf(p) : pc[u] = "waiting" \/ u = t
    BY <2>5
  <2>7. pc' = [u \in Tasks |-> IF u = t \/ u \in waiting THEN "released" ELSE pc[u]]
    BY <1>3 DEF Arrive
  <2>8. \A u \in TasksOf(p) : u \in Tasks /\ (u = t \/ u \in waiting)
    BY <2>5 DEF TasksOf
  <2>9. \A u \in Tasks : PodOf(u) # p => ~(u = t \/ u \in waiting)
    BY DEF TasksOf
  <2> HIDE DEF waiting
  <2>10. \A u \in TasksOf(p) : pc'[u] = "released"
    BY <2>7, <2>8
  <2>11. \A u \in Tasks : PodOf(u) # p => pc'[u] = pc[u]
    BY <2>7, <2>9
  <2> QED  BY <2>6, <2>10, <2>11 DEF Past
<1> QED  BY <1>2, <1>3

\* What a step of one task does to the places of all.
LEMMA Moves ==
  ASSUME TypeOK, NEW t \in Tasks, Acts(t)
  PROVE  \A u \in Tasks :
           /\ Past(u) => Past(u)'
           /\ u # t => pc'[u] = pc[u] \/ (pc[u] = "waiting" /\ pc'[u] = "released")
<1>1. CASE pc[t] = "start" /\ Arrive(t)
  <2> DEFINE waiting == {u \in TasksOf(PodOf(t)) : pc[u] = "waiting"}
  <2>1. \/ pc' = [u \in Tasks |-> IF u = t \/ u \in waiting THEN "released" ELSE pc[u]]
        \/ pc' = [pc EXCEPT ![t] = "waiting"]
    BY <1>1 DEF Arrive, Goto
  <2>2. \A u \in waiting : pc[u] = "waiting"
    OBVIOUS
  <2> HIDE DEF waiting
  <2>3. \A u \in Tasks : u # t => pc'[u] = pc[u] \/ (pc[u] = "waiting" /\ pc'[u] = "released")
    BY <2>1, <2>2, TypeFacts
  <2>4. \A u \in Tasks : Past(u) => u # t
    BY <1>1 DEF Past
  <2>5. \A u \in Tasks : Past(u) => Past(u)'
    BY <2>3, <2>4 DEF Past
  <2> QED  BY <2>3, <2>5
<1>2. CASE \E place \in {"stagger", "check", "pace", "flight", "wait", "done"} : Goto(t, place)
  <2>1. PICK place \in {"stagger", "check", "pace", "flight", "wait", "done"} :
          pc' = [pc EXCEPT ![t] = place]
    BY <1>2 DEF Goto
  <2>2. \A u \in Tasks : IF u = t THEN pc'[u] = place ELSE pc'[u] = pc[u]
    BY <2>1, TypeFacts
  <2>3. place # "start" /\ place # "waiting"
    BY <2>1
  <2> QED  BY <2>2, <2>3 DEF Past
<1> QED  BY <1>1, <1>2, ActsFacts

LEMMA GatheredKept ==
  ASSUME TypeOK, Gathered, Unstarted, NEW t \in Tasks, Acts(t)
  PROVE  Gathered' /\ Unstarted'
<1>0. [Next]_vars
  BY DEF Acts, Next
<1>1. Unstarted'
  <2> SUFFICES ASSUME NEW u \in Tasks, pod'[PodOf(u)] = "setup" PROVE pc'[u] = "start"
    BY <1>0, ArgsStay DEF Unstarted
  <2>1. pod[PodOf(u)] = "setup" /\ u # t /\ pc[u] = "start"
    BY ActsFacts DEF Driving, Unstarted
  <2> QED  BY <2>1, Moves
<1>2. Gathered'
  <2> SUFFICES ASSUME NEW r \in Requesters, Past(r)', NEW u \in TasksOf(PodOf(r))
               PROVE  Past(u)'
    <3>1. \A r \in Requesters : r \in Tasks /\ PodOf(r) \in Pods
      BY TypeFacts, TaskKinds, TaskFacts
    <3> QED  BY <1>0, <3>1, ArgsStay DEF Gathered, AllPast
  <2>1. r \in Tasks /\ u \in Tasks /\ PodOf(u) = PodOf(r)
    BY TaskKinds DEF TasksOf
  <2>2. CASE Past(r)
    BY <2>1, <2>2, Moves DEF Gathered, AllPast
  <2>3. CASE ~Past(r)
    <3>1. pc[t] = "start" /\ Arrive(t)
      <4> SUFFICES ASSUME \E place \in {"stagger", "check", "pace", "flight", "wait", "done"} :
                            Goto(t, place) /\ (Past(t) \/ (t \in Subscribers /\ pc[t] = "start"))
                   PROVE  FALSE
        BY ActsFacts
      <4>1. r # t
        BY <2>1, <2>3, TypeFacts, TaskFacts DEF Requesters, Tasks
      <4>2. pc'[r] = pc[r]
        BY <2>1, <4>1, TypeFacts DEF Goto
      <4> QED  BY <2>3, <4>2 DEF Past
    <3>2. pc' # [pc EXCEPT ![t] = "waiting"]
      BY <2>1, <2>3, TypeFacts DEF Past
    <3>3. PodOf(r) = PodOf(t)
      BY <2>1, <2>3, <3>1, <3>2, ArriveEffect DEF Past
    <3> QED  BY <2>1, <3>1, <3>2, <3>3, ArriveEffect DEF Past
  <2> QED  BY <2>2, <2>3
<1> QED  BY <1>1, <1>2

\* A deadline that is set stays; a task that is past the barrier sets it from the clock.
LEMMA DeadlineStays ==
  ASSUME TypeOK, NEW t \in Tasks, Acts(t), NEW p \in Pods
  PROVE  \/ deadline'[p] = deadline[p]
         \/ /\ deadline[p] = None /\ deadline'[p] = now + Window
            /\ t \in Requesters /\ PodOf(t) = p /\ Past(t)
<1>1. CASE SubNext(t)
  BY <1>1 DEF SubNext, Connects, ConnectFails, GivesUp, ReturnsUnconnected, Unconnected,
         ReturnsFailed, Listens, Receives, ReceivesControl, Dropped, CutOff, TimesOut
<1>2. CASE t \in Requesters /\ Crosses(t)
  BY <1>2, TypeFacts DEF Crosses, SharedDeadline, Past
<1>3. CASE Spawned(t) \/ Staggers(t) \/ LoopHead(t) \/ Sends(t) \/ Answered(t)
  BY <1>3 DEF Spawned, Staggers, LoopHead, Sends, Answered
<1> QED  BY <1>1, <1>2, <1>3 DEF Acts, ReqNext

\* What a step does to the deadline a writer or reader goes by.
LEMMA OwnChanges ==
  ASSUME TypeOK, Owners, NEW t \in Tasks, Acts(t), NEW u \in Requesters
  PROVE  /\ u # t => own'[u] = own[u]
         /\ u = t =>
              \/ own'[u] = own[u] /\ pc'[u] \in {"waiting", "released"}
              \/ own'[u] = own[u] /\ own[u] # None /\ Past(u)
              \/ own'[u] = deadline'[PodOf(u)] /\ own'[u] # None /\ Past(u)
<1>1. u \in Tasks /\ PodOf(u) \in Pods
  BY TypeFacts, TaskKinds, TaskFacts
<1>2. CASE t \in Subscribers /\ SubNext(t)
  <2>1. u # t
    BY <1>1, <1>2, TypeFacts, TaskFacts DEF Requesters
  <2> QED
    BY <1>2, <2>1 DEF SubNext, Connects, ConnectFails, GivesUp, ReturnsUnconnected,
           Unconnected, ReturnsFailed, Listens, Receives, ReceivesControl, Dropped, CutOff,
           TimesOut, reqVars
<1>3. CASE t \in Requesters /\ Crosses(t)
  <2>1. SharedDeadline(PodOf(t)) \in Nat /\ PodOf(t) \in Pods
    BY <1>3, TypeFacts, TaskKinds, TaskFacts, SharedDeadlineType
  <2> QED  BY <1>3, <2>1, TypeFacts DEF Crosses, Past
<1>4. CASE Spawned(t)
  <2>1. u = t => pc'[u] \in {"waiting", "released"}
    BY <1>1, <1>4, TypeFacts DEF Spawned, Arrive, Goto
  <2> QED  BY <1>4, <2>1 DEF Spawned, reqVars
<1>5. CASE Staggers(t) \/ LoopHead(t) \/ Sends(t) \/ Answered(t)
  BY <1>5 DEF Staggers, LoopHead, Sends, Answered, Owners, Past
<1> QED  BY <1>2, <1>3, <1>4, <1>5 DEF Acts, ReqNext

LEMMA OwnersKept ==
  ASSUME TypeOK, Owners, NEW t \in Tasks, Acts(t)
  PROVE  Owners'
<1>0. [Next]_vars
  BY DEF Acts, Next
<1> DEFINE working == {"stagger", "check", "pace", "flight", "done"}
<1> SUFFICES ASSUME NEW u \in Requesters
             PROVE  /\ pc'[u] \in working => own'[u] # None
                    /\ own'[u] # None => Past(u)' /\ own'[u] = deadline'[PodOf(u)]
  <2>1. \A u \in Requesters : u \in Tasks
    BY TaskKinds
  <2> QED  BY <1>0, <2>1, ArgsStay DEF Owners
<1>1. u \in Tasks /\ PodOf(u) \in Pods
  BY TypeFacts, TaskKinds, TaskFacts
<1>2. deadline[PodOf(u)] # None => deadline'[PodOf(u)] = deadline[PodOf(u)]
  BY <1>1, DeadlineStays
<1>3. /\ pc[u] \in working => own[u] # None
      /\ own[u] # None => Past(u) /\ own[u] = deadline[PodOf(u)]
  BY DEF Owners
<1>4. Past(u) => Past(u)'
  BY <1>1, Moves
<1>5. CASE u # t
  <2>1. own'[u] = own[u]
    BY <1>5, OwnChanges
  <2>2. pc'[u] \in working => pc[u] \in working
    BY <1>1, <1>5, Moves
  <2> QED  BY <1>2, <1>3, <1>4, <2>1, <2>2
<1>6. CASE u = t
  <2>1. CASE own'[u] = own[u] /\ pc'[u] \in {"waiting", "released"}
    BY <1>2, <1>3, <1>4, <2>1
  <2>2. CASE own'[u] = own[u] /\ own[u] # None
    BY <1>2, <1>3, <1>4, <2>2
  <2>3. CASE own'[u] = deadline'[PodOf(u)] /\ own'[u] # None /\ Past(u)
    BY <1>4, <2>3
  <2> QED  BY <1>6, <2>1, <2>2, <2>3, OwnChanges
<1> QED  BY <1>5, <1>6

LEMMA SetBehindKept ==
  ASSUME TypeOK, Gathered, SetBehind, NEW t \in Tasks, Acts(t)
  PROVE  SetBehind'
<1>0. [Next]_vars
  BY DEF Acts, Next
<1>1. Window' = Window /\ now' = now /\ Window \in Nat /\ now \in Nat
  BY <1>0, ArgsStay, ActsFacts, TypeFacts, ArgFacts DEF Window
<1> SUFFICES ASSUME NEW p \in Pods, deadline'[p] # None
             PROVE  (\A u \in TasksOf(p) : Past(u)') /\ deadline'[p] <= now + Window
  BY <1>0, <1>1, ArgsStay DEF SetBehind, AllPast
<1>4. AllPast(p) => \A u \in TasksOf(p) : Past(u)'
  BY Moves DEF AllPast, TasksOf
<1>2. CASE deadline'[p] = deadline[p]
  BY <1>4, <1>2 DEF SetBehind
<1>3. CASE deadline'[p] = now + Window /\ t \in Requesters /\ PodOf(t) = p /\ Past(t)
  <2>1. AllPast(p)
    BY <1>3 DEF Gathered
  <2> QED  BY <1>1, <1>4, <1>3, <2>1
<1> QED  BY <1>2, <1>3, DeadlineStays

\* A writer writes to a stream of its own pod.
LEMMA WriterOwns ==
  ASSUME TypeOK, NEW t \in Writers
  PROVE  StreamOf(t) % args.pods = PodOf(t)
<1>1. t \in Tasks /\ t[1] = "writer" /\ t[2] \in 0 .. args.streams * args.writers - 1
  BY DEF Tasks, Requesters, Writers, WritersOf, Numbered, WriterCount
<1>2. StreamOf(t) = t[2] % args.streams /\ PodOf(t) = t[2] % args.pods
  BY <1>1 DEF StreamOf, PodOf
<1>3. /\ args.streams \in Nat \ {0} /\ args.writers \in Nat /\ t[2] \in Nat
      /\ args.pods # 1 => args.writers = 1
  BY <1>1, TypeFacts, ArgFacts, TaskFacts
<1>4. CASE args.pods = 1
  <2>1. StreamOf(t) \in Nat
    BY <1>1, StreamType DEF Streams
  <2>2. \A x \in Nat : x % 1 = 0
    OBVIOUS
  <2> QED  BY <1>2, <1>3, <1>4, <2>1, <2>2
<1>5. CASE args.writers = 1
  <2>1. t[2] \in 0 .. args.streams - 1
    BY <1>1, <1>3, <1>5
  <2>2. t[2] % args.streams = t[2]
    BY <1>3, <2>1
  <2> QED  BY <1>2, <2>2
<1> QED  BY <1>3, <1>4, <1>5

LEMMA WrittenKept ==
  ASSUME TypeOK, Owners, WrittenBehind, NEW t \in Tasks, Acts(t)
  PROVE  WrittenBehind'
<1>0. [Next]_vars
  BY DEF Acts, Next
<1> SUFFICES ASSUME NEW st \in Streams, log'[st] > 0
             PROVE  deadline'[st % args.pods] # None
  BY <1>0, ArgsStay DEF WrittenBehind
<1>1. st % args.pods \in Pods
  <2>1. st \in Nat /\ args.pods \in Nat /\ args.pods > 0
    BY TypeFacts, ArgFacts DEF Streams
  <2> QED  BY <2>1, DivMod DEF Pods
<1>2. deadline[st % args.pods] # None => deadline'[st % args.pods] # None
  BY <1>1, DeadlineStays
<1>3. CASE log'[st] = log[st]
  BY <1>2, <1>3 DEF WrittenBehind
<1>4. CASE log'[st] # log[st]
  <2>1. Answered(t) /\ t \in Requesters /\ t[1] = "writer" /\ st = StreamOf(t)
    <3>1. ~(t \in Subscribers /\ SubNext(t))
      BY <1>4 DEF SubNext, Connects, ConnectFails, GivesUp, ReturnsUnconnected, Unconnected,
             ReturnsFailed, Listens, Receives, ReceivesControl, Dropped, CutOff, TimesOut
    <3>2. ~(Spawned(t) \/ Crosses(t) \/ Staggers(t) \/ LoopHead(t) \/ Sends(t))
      BY <1>4 DEF Spawned, Crosses, Staggers, LoopHead, Sends
    <3>3. Answered(t) /\ t \in Requesters
      BY <3>1, <3>2 DEF Acts, ReqNext
    <3> QED  BY <1>4, <3>3, TypeFacts DEF Answered
  <2>2. own[t] # None /\ own[t] = deadline[PodOf(t)]
    BY <2>1 DEF Answered, Owners
  <2>3. st % args.pods = PodOf(t)
    BY <2>1, TypeFacts, TaskFacts, WriterOwns
  <2> QED  BY <1>2, <2>2, <2>3
<1> QED  BY <1>3, <1>4

LEMMA HeardKept ==
  ASSUME TypeOK, SetBehind, WrittenBehind, Heard, NEW t \in Tasks, Acts(t)
  PROVE  Heard'
<1>0. [Next]_vars
  BY DEF Acts, Next
<1> SUFFICES ASSUME NEW s \in Subscribers,
                    conn'[s] = "none" \/ PodOf(s) = StreamOf(s) % args.pods
             PROVE  from'[s] = 0
  <2>1. \A s \in Subscribers : s \in Tasks
    BY TaskKinds
  <2> QED  BY <1>0, <2>1, ArgsStay DEF Heard
<1>1. CASE from'[s] = from[s] /\ (conn'[s] = "none" => conn[s] = "none")
  BY <1>1 DEF Heard
<1>2. CASE s = t /\ Connects(t)
  <2>1. s \in Tasks /\ PodOf(s) \in Pods /\ s \in TasksOf(PodOf(s)) /\ StreamOf(s) \in Streams
    BY TypeFacts, TaskKinds, TaskFacts, StreamType
  <2>2. from'[s] = log[StreamOf(s)] /\ conn'[s] = "open" /\ pc[s] = "start"
    BY <1>2, TypeFacts DEF Connects, SubFuns
  <2>3. deadline[PodOf(s)] = None
    BY <2>1, <2>2 DEF SetBehind, AllPast, Past
  <2>4. ~(log[StreamOf(s)] > 0)
    BY <2>1, <2>2, <2>3 DEF WrittenBehind
  <2> QED  BY <2>1, <2>2, <2>4, TypeFacts
<1>3. CASE s # t /\ Connects(t)
  BY <1>1, <1>3 DEF Connects
<1>4. CASE ~Connects(t)
  <2>1. from' = from
    BY <1>4 DEF Acts, SubNext, ConnectFails, GivesUp, ReturnsUnconnected, Unconnected,
           ReturnsFailed, Listens, Receives, ReceivesControl, Dropped, CutOff, TimesOut,
           ReqNext, Spawned, Crosses, Staggers, LoopHead, Sends, Answered, subVars
  <2>2. \/ conn' = conn
        \/ \E c \in {"failed", "dropped", "cut"} : conn' = [conn EXCEPT ![t] = c]
    BY <1>4 DEF Acts, SubNext, ConnectFails, GivesUp, ReturnsUnconnected, Unconnected,
           ReturnsFailed, Listens, Receives, ReceivesControl, Dropped, CutOff, TimesOut,
           ReqNext, Spawned, Crosses, Staggers, LoopHead, Sends, Answered, subVars
  <2>3. conn'[s] = "none" => conn[s] = "none"
    BY <2>2, TypeFacts
  <2> QED  BY <1>1, <2>1, <2>3
<1> QED  BY <1>2, <1>3, <1>4

\* What a step that no task takes leaves alone.
LEMMA OtherSteps ==
  ASSUME TypeOK, Unstarted,
         (\E p \in Pods : PodNext(p)) \/ Tick \/ UNCHANGED vars
  PROVE  /\ UNCHANGED <<args, pc, conn, from, missed, stray, deadline, own, late, log>>
         /\ now' \in Nat /\ now <= now'
         /\ \A p \in Pods : pod'[p] = "setup" => pod[p] = "setup"
         /\ \A s \in Subscribers : sub'[s].end = sub[s].end \/ (pc[s] = "start" /\ sub'[s].end = None)
<1>1. CASE \E p \in Pods : SetupDone(p)
  <2>1. PICK p \in Pods : SetupDone(p)
    BY <1>1
  <2>2. \A s \in Subscribers : s \in Tasks
    BY TaskKinds
  <2>3. \A s \in Subscribers :
          sub'[s] = IF PodOf(s) = p THEN [NoLocals EXCEPT !.by = now + ConnectFor] ELSE sub[s]
    BY <2>1 DEF SetupDone
  <2>4. \A s \in Subscribers : PodOf(s) = p => pc[s] = "start"
    BY <2>1, <2>2 DEF SetupDone, Unstarted
  <2> QED  BY <2>1, <2>3, <2>4, TypeFacts DEF SetupDone, reqVars, NoLocals
<1>2. CASE \E p \in Pods : \/ \E st \in Owned(p) : Creates(st)
                           \/ SetupFails(p) \/ Joins(p) \/ JoinsWriter(p) \/ Drains(p)
  BY <1>2, TypeFacts DEF Creates, SetupFails, Joins, JoinsWriter, Drains, subVars, reqVars
<1>3. CASE Tick
  BY <1>3, TypeFacts DEF Tick, podVars, subVars, reqVars
<1>4. CASE UNCHANGED vars
  BY <1>4, TypeFacts DEF vars, podVars, subVars, reqVars
<1> QED  BY <1>1, <1>2, <1>3, <1>4 DEF PodNext

LEMMA StepKinds ==
  ASSUME [Next]_vars
  PROVE  \/ \E t \in Tasks : Acts(t)
         \/ (\E p \in Pods : PodNext(p)) \/ Tick \/ UNCHANGED vars
  BY TaskKinds DEF Next, Acts

LEMMA DriveNext == TypeOK /\ DriveInv /\ [Next]_vars => DriveInv'
<1> SUFFICES ASSUME TypeOK, DriveInv, [Next]_vars PROVE DriveInv'
  OBVIOUS
<1>1. ASSUME NEW t \in Tasks, Acts(t) PROVE DriveInv'
  BY <1>1, GatheredKept, OwnersKept, SetBehindKept, WrittenKept, HeardKept DEF DriveInv
<1>2. CASE (\E p \in Pods : PodNext(p)) \/ Tick \/ UNCHANGED vars
  <2>1. /\ UNCHANGED <<args, pc, conn, from, missed, stray, deadline, own, late, log>>
        /\ now' \in Nat /\ now <= now'
        /\ \A p \in Pods : pod'[p] = "setup" => pod[p] = "setup"
    BY <1>2, OtherSteps DEF DriveInv
  <2>2. \A u : Past(u)' <=> Past(u)
    BY <2>1 DEF Past
  <2>3. \A u \in Requesters : u \in Tasks /\ PodOf(u) \in Pods
    BY TypeFacts, TaskKinds, TaskFacts
  <2>4. \A p \in Pods : AllPast(p)' <=> AllPast(p)
    BY <2>2, ArgsStay DEF AllPast
  <2>5. Gathered'
    BY <2>2, <2>3, <2>4, ArgsStay DEF DriveInv, Gathered
  <2>6. Unstarted'
    <3> SUFFICES ASSUME NEW u \in Tasks, pod'[PodOf(u)] = "setup" PROVE pc'[u] = "start"
      BY ArgsStay DEF Unstarted
    <3>1. PodOf(u) \in Pods
      BY TypeFacts, TaskFacts
    <3> QED  BY <2>1, <3>1 DEF DriveInv, Unstarted
  <2>7. Owners'
    <3> SUFFICES ASSUME NEW u \in Requesters
                 PROVE  /\ pc'[u] \in {"stagger", "check", "pace", "flight", "done"} => own'[u] # None
                        /\ own'[u] # None => Past(u)' /\ own'[u] = deadline'[PodOf(u)]
      BY <2>3, ArgsStay DEF Owners
    <3> QED  BY <2>1, <2>2 DEF DriveInv, Owners
  <2>8. SetBehind'
    <3>1. Window' = Window /\ Window \in Nat /\ now \in Nat /\ Pods' = Pods
      BY ArgsStay, TypeFacts, ArgFacts DEF Window
    <3>2. ASSUME NEW p \in Pods, deadline[p] # None PROVE AllPast(p)' /\ deadline[p] <= now' + Window
      <4>1. AllPast(p) /\ deadline[p] <= now + Window /\ deadline[p] \in Nat
        BY <3>2, TypeFacts DEF DriveInv, SetBehind
      <4> QED  BY <2>1, <2>4, <3>1, <4>1
    <3> QED  BY <2>1, <3>1, <3>2 DEF SetBehind
  <2>9. WrittenBehind'
    BY <2>1, ArgsStay DEF DriveInv, WrittenBehind
  <2>10. Heard'
    <3>1. \A s \in Subscribers : s \in Tasks
      BY TaskKinds
    <3> QED  BY <2>1, <3>1, ArgsStay DEF DriveInv, Heard
  <2> QED  BY <2>5, <2>6, <2>7, <2>8, <2>9, <2>10 DEF DriveInv
<1> QED  BY <1>1, <1>2, StepKinds

\* The OnceCell holds what it promises: all writers and readers of a pod go by one
\* deadline, and none before the barrier released every task of the pod.
THEOREM OneDeadlinePerPod == Spec => []OneWindow
<1>1. TypeOK /\ DriveInv => OneWindow
  BY DEF DriveInv, Owners, Gathered, AllPast, Past, OneWindow
<1> QED  BY <1>1, TypeCorrect, InitType, NextType, DriveInit, DriveNext, PTL DEF Spec

\* "All subscribers connect first": of a stream that the pod writes itself, no record is
\* older than a connection of the pod.
THEOREM AllHeardFromTheStart == Spec => []HeardFromTheStart
<1>1. DriveInv => HeardFromTheStart
  BY DEF DriveInv, Heard, HeardFromTheStart
<1> QED  BY <1>1, InitType, NextType, DriveInit, DriveNext, PTL DEF Spec

-----------------------------------------------------------------------------
(***************************************************************************)
(* Nobody waits at a barrier that nobody will open.                        *)
(***************************************************************************)
\* A subscriber of fanout that returned in front of the barrier.
Gone(t) ==
  args.command = "fanout" /\ t \in Subscribers /\ pc[t] = "done" /\ conn[t] = "failed"

\* Whoever is past the barrier is so with all tasks of its pod.
WithAll(t) == Past(t) => AllPast(PodOf(t)) \/ Gone(t)

BarrierInv == (\A t \in Tasks : WithAll(t)) /\ NobodyLeftWaiting

LEMMA BarrierInit == Init => BarrierInv
<1> SUFFICES ASSUME Init PROVE BarrierInv
  OBVIOUS
<1>1. \A t \in Tasks : pc[t] = "start"
  BY DEF Init
<1> QED  BY <1>1 DEF BarrierInv, WithAll, Past, NobodyLeftWaiting, TasksOf

\* A step of one task is no step of another's connection, and goes past the barrier
\* without passing it in one way only.
LEMMA ActsConn ==
  ASSUME TypeOK, NEW t \in Tasks, Acts(t)
  PROVE  /\ pc[t] # "done"
         /\ \A s \in Subscribers : s # t => conn'[s] = conn[s]
         /\ pc[t] = "start" => Arrive(t) \/ (pc' = [pc EXCEPT ![t] = "done"] /\ Gone(t)')
<1>1. CASE t \in Subscribers /\ SubNext(t)
  <2>1. args' = args /\ Subscribers' = Subscribers
    BY ArgsStay DEF Acts, Next
  <2>2. pc[t] # "done" /\ \A s \in Subscribers : s # t => conn'[s] = conn[s]
    BY <1>1, TypeFacts
    DEF SubNext, Connects, ConnectFails, GivesUp, ReturnsUnconnected, Unconnected,
        ReturnsFailed, Listens, Receives, ReceivesControl, Dropped, CutOff, TimesOut, subVars
  <2>3. ASSUME pc[t] = "start"
        PROVE  Arrive(t) \/ (pc' = [pc EXCEPT ![t] = "done"] /\ Gone(t)')
    <3>1. Arrive(t) \/ ReturnsUnconnected(t)
      BY <1>1, <2>3
      DEF SubNext, Connects, ConnectFails, GivesUp, ReturnsFailed, Listens, Receives,
          ReceivesControl, Dropped, CutOff, TimesOut
    <3> QED  BY <1>1, <2>1, <3>1, TypeFacts DEF ReturnsUnconnected, Unconnected, Goto, Gone
  <2> QED  BY <2>2, <2>3
<1>2. CASE t \in Requesters /\ ReqNext(t)
  BY <1>2 DEF ReqNext, Spawned, Crosses, Staggers, LoopHead, Sends, Answered, subVars
<1> QED  BY <1>1, <1>2 DEF Acts

\* The last task to arrive does not wait: the others' number is that of the barrier.
LEMMA LastOpens ==
  ASSUME TypeOK, NEW t \in Tasks, pc[t] = "start", Arrive(t),
         \A u \in TasksOf(PodOf(t)) : u = t \/ pc[u] = "waiting"
  PROVE  pc'[t] = "released"
<1> DEFINE p == PodOf(t)
           waiting == {u \in TasksOf(p) : pc[u] = "waiting"}
<1>1. p \in Pods /\ t \in TasksOf(p) /\ args \in Runs
  BY TypeFacts, TaskFacts
<1>2. IsFiniteSet(TasksOf(p)) /\ Cardinality(TasksOf(p)) = BarrierSize(p)
  BY <1>1, BarrierIsForAll
<1>3. waiting = TasksOf(p) \ {t}
  BY <1>1
<1>4. Cardinality(waiting) + 1 = BarrierSize(p)
  <2>1. Cardinality(TasksOf(p) \ {t}) = Cardinality(TasksOf(p)) - 1
    BY <1>1, <1>2, FS_RemoveElement
  <2>2. Cardinality(TasksOf(p)) \in Nat
    BY <1>2, FS_CardinalityType
  <2> QED  BY <1>2, <1>3, <2>1, <2>2
<1>5. pc' = [u \in Tasks |-> IF u = t \/ u \in waiting THEN "released" ELSE pc[u]]
  BY <1>4 DEF Arrive
<1> QED  BY <1>5

LEMMA BarrierKept ==
  ASSUME TypeOK, BarrierInv, NEW t \in Tasks, Acts(t)
  PROVE  BarrierInv'
<1>0. /\ args' = args /\ Tasks' = Tasks /\ Subscribers' = Subscribers /\ Pods' = Pods
      /\ \A u \in Tasks : PodOf(u)' = PodOf(u)
      /\ \A q \in Pods : TasksOf(q)' = TasksOf(q)
  BY ArgsStay DEF Acts, Next
<1>1. /\ PodOf(t) \in Pods /\ t \in TasksOf(PodOf(t))
      /\ \A u \in Tasks : PodOf(u) \in Pods
      /\ \A q \in Pods : \A u \in TasksOf(q) : u \in Tasks /\ PodOf(u) = q
  BY TypeFacts, TaskFacts DEF TasksOf
\* What is behind the barrier stays there.
<1>2. /\ \A u \in Tasks : Past(u) => Past(u)'
      /\ \A q \in Pods : AllPast(q) => AllPast(q)'
      /\ \A u \in Tasks : Gone(u) => u # t /\ Gone(u)'
  <2>1. \A u \in Tasks : Past(u) => Past(u)'
    BY Moves
  <2>2. \A q \in Pods : AllPast(q) => AllPast(q)'
    BY <1>0, <1>1, <2>1 DEF AllPast
  <2>3. \A u \in Tasks : Gone(u) => u # t /\ Gone(u)'
    BY <1>0, ActsConn, Moves DEF Gone
  <2> QED  BY <2>1, <2>2, <2>3
<1>3. ASSUME NEW u \in Tasks PROVE WithAll(u)'
  <2>1. CASE Past(u)
    BY <1>0, <1>1, <1>2, <2>1 DEF BarrierInv, WithAll
  <2>2. CASE ~Past(u) /\ u # t /\ Past(u)'
    <3>1. pc[t] = "start" /\ Arrive(t) /\ pc' # [pc EXCEPT ![t] = "waiting"]
      BY <2>2, ActsFacts, TypeFacts DEF Goto, Past
    <3>2. /\ \A v \in TasksOf(PodOf(t)) : pc'[v] = "released"
          /\ PodOf(u) = PodOf(t)
      BY <2>2, <3>1, ArriveEffect DEF Past
    <3> QED  BY <1>0, <1>1, <3>2 DEF WithAll, AllPast, Past
  <2>3. CASE ~Past(t) /\ u = t /\ Past(t)'
    <3>1. pc[t] = "start"
      BY <2>3, ActsFacts DEF Past
    <3>2. CASE Arrive(t)
      <4>1. pc' # [pc EXCEPT ![t] = "waiting"]
        BY <2>3, TypeFacts DEF Past
      <4>2. \A v \in TasksOf(PodOf(t)) : pc'[v] = "released"
        BY <3>1, <3>2, <4>1, ArriveEffect
      <4> QED  BY <1>0, <1>1, <2>3, <4>2 DEF WithAll, AllPast, Past
    <3>3. CASE Gone(t)'
      BY <2>3, <3>3 DEF WithAll
    <3> QED  BY <3>1, <3>2, <3>3, ActsConn
  <2> QED  BY <2>1, <2>2, <2>3 DEF WithAll
<1>4. ASSUME NEW q \in Pods,
             \A u \in TasksOf(q) : pc'[u] # "start",
             args.command = "fanout" => \A s \in Subscribers \cap TasksOf(q) : conn'[s] # "failed",
             NEW w \in TasksOf(q), pc'[w] = "waiting"
      PROVE  FALSE
  <2>1. \A u \in TasksOf(q) : ~Gone(u)'
    BY <1>0, <1>4 DEF Gone
  <2>2. \A u \in TasksOf(q) : ~Past(u)
    <3>1. \A u \in TasksOf(q) : ~Gone(u)
      BY <1>1, <1>2, <2>1
    <3>2. ~AllPast(q)
      <4>1. ~Past(w)'
        BY <1>4 DEF Past
      <4> QED  BY <1>0, <1>2, <4>1 DEF AllPast
    <3> QED  BY <1>1, <3>1, <3>2 DEF BarrierInv, WithAll
  <2>3. CASE q # PodOf(t)
    <3>1. \A u \in TasksOf(q) : u # t
      BY <1>1, <2>3
    <3>2. \A u \in TasksOf(q) : pc'[u] = pc[u] \/ (pc[u] = "waiting" /\ pc'[u] = "released")
      BY <1>1, <3>1, Moves
    <3>3. \A s \in Subscribers \cap TasksOf(q) : conn'[s] = conn[s]
      BY <3>1, ActsConn
    <3>4. pc[w] = "waiting" /\ \A u \in TasksOf(q) : pc[u] # "start"
      BY <1>4, <3>2
    <3> QED  BY <1>4, <3>3, <3>4 DEF BarrierInv, NobodyLeftWaiting
  <2>4. CASE q = PodOf(t)
    <3>1. pc[t] = "start" /\ Arrive(t)
      BY <1>1, <2>1, <2>2, <2>4, ActsConn, ActsFacts DEF Past, Gone
    <3>2. \A u \in TasksOf(q) : u = t \/ pc[u] = "waiting"
      BY <1>1, <1>4, <2>2, Moves DEF Past
    <3>3. pc'[t] = "released"
      BY <2>4, <3>1, <3>2, LastOpens
    <3>4. pc' # [pc EXCEPT ![t] = "waiting"]
      BY <3>3, TypeFacts
    <3>5. pc'[w] = "released"
      BY <2>4, <3>1, <3>4, ArriveEffect
    <3> QED  BY <1>4, <3>5
  <2> QED  BY <2>3, <2>4
<1>5. NobodyLeftWaiting'
  BY <1>0, <1>4 DEF NobodyLeftWaiting
<1> QED  BY <1>0, <1>3, <1>5 DEF BarrierInv

LEMMA BarrierNext == TypeOK /\ DriveInv /\ BarrierInv /\ [Next]_vars => BarrierInv'
<1> SUFFICES ASSUME TypeOK, DriveInv, BarrierInv, [Next]_vars PROVE BarrierInv'
  OBVIOUS
<1>1. ASSUME NEW t \in Tasks, Acts(t) PROVE BarrierInv'
  BY <1>1, BarrierKept
<1>2. CASE (\E p \in Pods : PodNext(p)) \/ Tick \/ UNCHANGED vars
  <2>1. UNCHANGED <<args, pc, conn>>
    BY <1>2, OtherSteps DEF DriveInv
  <2>2. \A u \in Tasks : PodOf(u) \in Pods
    BY TypeFacts, TaskFacts
  <2>3. \A u \in Tasks : WithAll(u)'
    BY <2>1, <2>2, ArgsStay DEF BarrierInv, WithAll, Past, AllPast, Gone
  <2>4. NobodyLeftWaiting'
    BY <2>1, ArgsStay DEF BarrierInv, NobodyLeftWaiting
  <2> QED  BY <2>3, <2>4, ArgsStay DEF BarrierInv
<1> QED  BY <1>1, <1>2, StepKinds

\* "The barrier MUST be crossed exactly once on BOTH success and failure paths" (mixed.rs
\* 487-490, multi_fanout.rs 343-345), and is: for any pods, streams and tasks, whatever
\* fails to connect, nobody is left waiting when the last task of a pod has come.
THEOREM BarrierOpens == Spec => []NobodyLeftWaiting
<1>1. BarrierInv => NobodyLeftWaiting
  BY DEF BarrierInv
<1> QED
  BY <1>1, InitType, NextType, DriveInit, DriveNext, BarrierInit, BarrierNext, PTL DEF Spec

-----------------------------------------------------------------------------
(***************************************************************************)
(* Requests at the deadline.                                               *)
(***************************************************************************)

\* A late request was the last: who sent it finds the deadline passed.
LateInv ==
  \A t \in Requesters :
    /\ late[t] <= 1
    /\ late[t] = 1 => pc[t] \in {"flight", "check", "done"} /\ own[t] # None /\ now >= own[t]

LEMMA LateKept ==
  ASSUME TypeOK, Owners, LateInv, NEW t \in Tasks, Acts(t)
  PROVE  LateInv'
<1>0. [Next]_vars
  BY DEF Acts, Next
<1>1. now' = now /\ now \in Nat
  BY ActsFacts, TypeFacts
<1> SUFFICES ASSUME NEW u \in Requesters
             PROVE  /\ late'[u] <= 1
                    /\ late'[u] = 1 =>
                         pc'[u] \in {"flight", "check", "done"} /\ own'[u] # None /\ now >= own'[u]
  BY <1>0, <1>1, ArgsStay DEF LateInv
<1>2. u \in Tasks /\ late[u] \in Nat /\ own[u] \in Nat \cup {None}
  BY TypeFacts, TaskKinds
<1>3. CASE u # t
  <2>1. own'[u] = own[u]
    BY <1>3, OwnChanges
  <2>2. pc[u] \in {"flight", "check", "done"} => pc'[u] = pc[u]
    BY <1>2, <1>3, Moves
  <2>3. late'[u] = late[u]
    BY <1>2, <1>3, TypeFacts DEF Acts, SubNext, Connects, ConnectFails, GivesUp,
           ReturnsUnconnected, Unconnected, ReturnsFailed, Listens, Receives,
           ReceivesControl, Dropped, CutOff, TimesOut, ReqNext, Spawned, Crosses, Staggers,
           LoopHead, Sends, Answered, reqVars
  <2> QED  BY <2>1, <2>2, <2>3 DEF LateInv
<1>4. CASE u = t
  <2>1. ReqNext(u)
    BY <1>2, <1>4, TypeFacts, TaskFacts DEF Acts, Requesters
  <2>2. late[u] <= 1 /\ (late[u] = 1 => pc[u] \in {"flight", "check", "done"} /\ now >= own[u]
                                        /\ own[u] # None)
    BY DEF LateInv
  <2>3. CASE Sends(u)
    <3>1. pc'[u] = "flight" /\ own'[u] = own[u] /\ pc[u] = "pace"
      BY <1>2, <2>3, TypeFacts DEF Sends, Goto
    <3>2. late'[u] = IF now >= own[u] THEN late[u] + 1 ELSE late[u]
      BY <2>3, TypeFacts DEF Sends
    <3>3. own[u] # None /\ late[u] = 0
      BY <1>2, <2>2, <3>1 DEF Owners
    <3> QED  BY <3>1, <3>2, <3>3
  <2>4. CASE LoopHead(u)
    <3>1. late' = late /\ own' = own /\ pc[u] = "check"
      BY <2>4 DEF LoopHead
    <3>2. late[u] = 1 => pc'[u] = "done"
      BY <1>1, <1>2, <2>2, <2>4, TypeFacts DEF LoopHead, GoesOn, Goto
    <3> QED  BY <2>2, <3>1, <3>2
  <2>5. CASE Answered(u)
    <3>1. late' = late /\ own' = own /\ pc'[u] = "check"
      BY <1>2, <2>5, TypeFacts DEF Answered, Goto
    <3> QED  BY <2>2, <3>1
  <2>6. CASE Spawned(u) \/ Crosses(u) \/ Staggers(u)
    <3>1. late' = late /\ pc[u] \in {"start", "released", "stagger"}
      BY <2>6 DEF Spawned, Crosses, Staggers, reqVars
    <3> QED  BY <2>2, <3>1
  <2> QED  BY <2>1, <2>3, <2>4, <2>5, <2>6 DEF ReqNext
<1> QED  BY <1>3, <1>4

LEMMA LateNext == TypeOK /\ DriveInv /\ LateInv /\ [Next]_vars => LateInv'
<1> SUFFICES ASSUME TypeOK, DriveInv, LateInv, [Next]_vars PROVE LateInv'
  OBVIOUS
<1>1. ASSUME NEW t \in Tasks, Acts(t) PROVE LateInv'
  BY <1>1, LateKept DEF DriveInv
<1>2. CASE (\E p \in Pods : PodNext(p)) \/ Tick \/ UNCHANGED vars
  <2>1. UNCHANGED <<args, pc, own, late>> /\ now' \in Nat /\ now <= now' /\ now \in Nat
    BY <1>2, OtherSteps, TypeFacts DEF DriveInv
  <2>2. \A u \in Requesters : own[u] # None => own[u] \in Nat
    BY TypeFacts
  <2> QED  BY <2>1, <2>2, ArgsStay DEF LateInv
<1> QED  BY <1>1, <1>2, StepKinds

\* A writer or reader that slept past the deadline sends one request, and finds the
\* deadline passed at the next head of its loop.
THEOREM OneLateRequest == Spec => []AtMostOneLate
<1>1. Init => LateInv
  BY DEF Init, LateInv
<1>2. LateInv => AtMostOneLate
  BY DEF LateInv, AtMostOneLate
<1> QED  BY <1>1, <1>2, InitType, NextType, DriveInit, DriveNext, LateNext, PTL DEF Spec

-----------------------------------------------------------------------------
(***************************************************************************)
(* What the subscribers record.                                            *)
(***************************************************************************)

\* A deadline that a subscriber has read is its pod's; a chunk is lost only in front of
\* the head of the loop at which it is read, and that ends the loop behind the drain.
RecordInv ==
  \A s \in Subscribers :
    /\ "before" \notin stray[s] /\ ("behind" \in stray[s] => pc[s] = "done")
    /\ missed[s] <= 1
    /\ sub[s].end # None => sub[s].end = deadline[PodOf(s)]
    /\ missed[s] = 1 => pc[s] = "done" \/ (pc[s] = "wait" /\ sub[s].end # None)

\* A record is delivered with the deadline set, and, where there is no warmup, not in
\* front of the window.
LEMMA DeliveredBehind ==
  ASSUME TypeOK, SetBehind, WrittenBehind, NEW s \in Subscribers,
         log[StreamOf(s)] > 0, args.command # "multi-fanout"
  PROVE  Phase(deadline[PodOf(s)]) # "before"
<1>1. s \in Tasks /\ s[2] \in Nat /\ StreamOf(s) \in Nat /\ StreamOf(s) \in Streams
  BY TypeFacts, TaskKinds, TaskFacts, StreamType DEF Streams
<1>2. args.pods = 1 /\ args.warmup = 0 /\ args.duration \in Nat
  BY TypeFacts, ArgFacts
<1>3. \A x \in Nat : x % 1 = 0
  OBVIOUS
<1>4. StreamOf(s) % args.pods = 0 /\ PodOf(s) = 0 /\ 0 \in Pods
  BY <1>1, <1>2, <1>3 DEF PodOf, Pods
<1>5. deadline[0] # None /\ deadline[0] <= now + args.duration
  BY <1>1, <1>2, <1>4 DEF WrittenBehind, SetBehind, Window
<1> QED  BY <1>2, <1>4, <1>5, TypeFacts DEF Phase

\* The head of the loop.
LEMMA AwaitsEffect ==
  ASSUME TypeOK, NEW s \in Subscribers, NEW locals \in Locals, Awaits(s, locals) \/ Ends(s)
  PROVE  \/ pc'[s] = "done" /\ sub'[s].end = None
         \/ /\ pc'[s] = "wait" /\ sub'[s].end = deadline[PodOf(s)]
            /\ Phase(deadline[PodOf(s)]) # "behind"
<1>1. s \in Tasks
  BY TaskKinds
<1>2. CASE Ends(s)
  BY <1>1, <1>2, TypeFacts DEF Ends, Goto, NoLocals
<1>3. CASE Awaits(s, locals) /\ ~Ends(s)
  <2>1. /\ sub' = [sub EXCEPT ![s] = [locals EXCEPT !.by = now + Patience(ReadsDeadline(s)),
                                                    !.end = ReadsDeadline(s)]]
        /\ pc' = [pc EXCEPT ![s] = "wait"]
    BY <1>3 DEF Awaits, Goto
  <2>2. sub'[s].end = ReadsDeadline(s) /\ pc'[s] = "wait"
    BY <1>1, <2>1, TypeFacts DEF Locals
  <2>3. ~Expired(ReadsDeadline(s))
    BY <1>3 DEF Awaits
  <2>4. deadline[PodOf(s)] \in Nat \cup {None}
    BY <1>1, TypeFacts, TaskFacts
  <2>5. Phase(deadline[PodOf(s)]) # "behind"
    BY <2>3, <2>4, TypeFacts DEF Phase, Expired, ReadsDeadline
  <2> QED  BY <2>2, <2>5 DEF ReadsDeadline
<1> QED  BY <1>2, <1>3

\* A step of a subscriber.
LEMMA SubRecords ==
  ASSUME TypeOK, SetBehind, WrittenBehind, RecordInv, NEW s \in Subscribers, SubNext(s)
  PROVE  /\ "before" \notin stray'[s] /\ ("behind" \in stray'[s] => pc'[s] = "done")
         /\ missed'[s] <= 1
         /\ sub'[s].end # None => sub'[s].end = deadline[PodOf(s)]
         /\ missed'[s] = 1 => pc'[s] = "done" \/ (pc'[s] = "wait" /\ sub'[s].end # None)
<1> DEFINE p == PodOf(s)
<1>0. s \in Tasks /\ p \in Pods /\ missed[s] \in Nat /\ sub[s] \in Locals
      /\ deadline[p] \in Nat \cup {None} /\ args.duration \in Nat
  BY TypeFacts, TaskKinds, TaskFacts, ArgFacts DEF SubFuns
<1>1. /\ "before" \notin stray[s] /\ ("behind" \in stray[s] => pc[s] = "done")
      /\ missed[s] <= 1
      /\ sub[s].end # None => sub[s].end = deadline[p]
      /\ missed[s] = 1 => pc[s] = "done" \/ (pc[s] = "wait" /\ sub[s].end # None)
  BY DEF RecordInv
<1>2. CASE Connects(s) \/ ConnectFails(s) \/ GivesUp(s) \/ ReturnsUnconnected(s)
  <2>1. missed' = missed /\ stray' = stray /\ pc[s] = "start"
    BY <1>2 DEF Connects, ConnectFails, GivesUp, ReturnsUnconnected, Unconnected
  <2>2. [NoLocals EXCEPT !.opened = now].end = None /\ NoLocals.end = None
    BY DEF NoLocals
  <2>3. sub'[s].end = None
    BY <1>2, <2>2, TypeFacts
       DEF Connects, ConnectFails, GivesUp, ReturnsUnconnected, Unconnected
  <2> QED  BY <1>0, <1>1, <2>1, <2>3
<1>3. CASE ReturnsFailed(s)
  <2>1. missed' = missed /\ stray' = stray /\ sub' = sub /\ pc'[s] = "done"
    BY <1>0, <1>3, TypeFacts DEF ReturnsFailed, Goto, subVars
  <2> QED  BY <1>1, <2>1
<1>4. CASE Receives(s)
  <2> DEFINE phase == Phase(deadline[p])
  <2>1. PICK n \in 1 .. log[StreamOf(s)] - from[s] - sub[s].got :
          Awaits(s, [sub[s] EXCEPT !.got = @ + n, !.owed = TRUE, !.last = now])
    BY <1>4 DEF Receives
  <2>2. log[StreamOf(s)] \in Nat /\ from[s] \in Nat /\ sub[s].got \in Nat
    BY <1>0, TypeFacts, StreamType DEF SubFuns, Locals
  <2>3. log[StreamOf(s)] > 0 /\ sub[s].got + n \in Nat
    BY <2>1, <2>2
  <2>4. [sub[s] EXCEPT !.got = @ + n, !.owed = TRUE, !.last = now] \in Locals
    BY <1>0, <2>3, TypeFacts DEF Locals
  <2>5. \/ pc'[s] = "done" /\ sub'[s].end = None
        \/ pc'[s] = "wait" /\ sub'[s].end = deadline[p] /\ phase # "behind"
    BY <2>1, <2>4, AwaitsEffect
  <2>6. /\ missed'[s] = IF phase = "window" /\ ~Records(s) THEN missed[s] + 1 ELSE missed[s]
        /\ stray'[s] = IF Records(s) THEN stray[s] \cup ({phase} \ {"window"}) ELSE stray[s]
    BY <1>4, TypeFacts DEF Receives, SubFuns, StrayFuns
  <2>7. Records(s) => phase # "before"
    <3>1. CASE args.command # "multi-fanout"
      BY <2>3, <3>1, DeliveredBehind
    <3>2. CASE args.command = "multi-fanout"
      BY <1>0, <1>1, <3>2, TypeFacts DEF Records, Phase
    <3> QED  BY <3>1, <3>2
  <2>8. phase = "window" /\ ~Records(s) => sub[s].end = None
    BY <1>0, <1>1, TypeFacts DEF Records, Phase
  <2>9. phase = "window" => deadline[p] # None
    BY DEF Phase
  <2>10. pc[s] = "wait"
    BY <1>4 DEF Receives
  <2>11. missed'[s] = 1 => deadline[p] # None
    <3>1. missed[s] = 1 => deadline[p] # None
      BY <1>1, <2>10
    <3>2. missed'[s] = missed[s] \/ deadline[p] # None
      BY <2>6, <2>9
    <3> QED  BY <3>1, <3>2
  <2>12. "behind" \notin stray[s]
    BY <1>1, <2>10
  <2>13. "before" \notin stray'[s] /\ ("behind" \in stray'[s] => pc'[s] = "done")
    BY <1>1, <2>5, <2>6, <2>7, <2>12
  <2> QED  BY <1>0, <1>1, <2>5, <2>6, <2>8, <2>10, <2>11, <2>13
<1>5. CASE Listens(s) \/ ReceivesControl(s) \/ Dropped(s) \/ CutOff(s) \/ TimesOut(s)
  <2>1. missed' = missed /\ stray' = stray /\ pc[s] \in {"released", "wait"}
    BY <1>5 DEF Listens, ReceivesControl, Dropped, CutOff, TimesOut
  <2>2. /\ [sub[s] EXCEPT !.last = now] \in Locals
        /\ [sub[s] EXCEPT !.owed = FALSE,
                          !.last = IF args.command = "fanout" THEN @ ELSE now] \in Locals
    BY <1>0, TypeFacts DEF Locals
  <2>3. \E locals \in Locals : Awaits(s, locals) \/ Ends(s)
    BY <1>0, <1>5, <2>2 DEF Listens, ReceivesControl, Dropped, CutOff, TimesOut
  <2>4. \/ pc'[s] = "done" /\ sub'[s].end = None
        \/ pc'[s] = "wait" /\ sub'[s].end = deadline[p]
    BY <2>3, AwaitsEffect
  <2> QED  BY <1>0, <1>1, <2>1, <2>4
<1> QED  BY <1>2, <1>3, <1>4, <1>5 DEF SubNext

LEMMA RecordNext == TypeOK /\ DriveInv /\ RecordInv /\ [Next]_vars => RecordInv'
<1> SUFFICES ASSUME TypeOK, DriveInv, RecordInv, [Next]_vars PROVE RecordInv'
  OBVIOUS
<1> SUFFICES ASSUME NEW s \in Subscribers
             PROVE  /\ "before" \notin stray'[s] /\ ("behind" \in stray'[s] => pc'[s] = "done")
                    /\ missed'[s] <= 1
                    /\ sub'[s].end # None => sub'[s].end = deadline'[PodOf(s)]
                    /\ missed'[s] = 1 => pc'[s] = "done" \/ (pc'[s] = "wait" /\ sub'[s].end # None)
  <2>1. \A s \in Subscribers : s \in Tasks
    BY TaskKinds
  <2> QED  BY <2>1, ArgsStay DEF RecordInv
<1>1. s \in Tasks /\ PodOf(s) \in Pods
  BY TypeFacts, TaskKinds, TaskFacts
<1>2. /\ "before" \notin stray[s] /\ ("behind" \in stray[s] => pc[s] = "done")
      /\ missed[s] <= 1
      /\ sub[s].end # None => sub[s].end = deadline[PodOf(s)]
      /\ missed[s] = 1 => pc[s] = "done" \/ (pc[s] = "wait" /\ sub[s].end # None)
  BY DEF RecordInv
<1>3. ASSUME NEW t \in Tasks, Acts(t), t # s
      PROVE  missed'[s] = missed[s] /\ stray'[s] = stray[s] /\ sub'[s] = sub[s]
  <2>1. CASE ReqNext(t)
    BY <2>1 DEF ReqNext, Spawned, Crosses, Staggers, LoopHead, Sends, Answered, subVars
  <2>2. CASE SubNext(t)
    <3>1. \A x : sub' = [sub EXCEPT ![t] = x] => sub'[s] = sub[s]
      BY <1>3, TypeFacts
    <3>2. \A x, y : /\ missed' = [missed EXCEPT ![t] = x] => missed'[s] = missed[s]
                    /\ stray' = [stray EXCEPT ![t] = y] => stray'[s] = stray[s]
      BY <1>3, TypeFacts DEF SubFuns, StrayFuns
    <3>3. sub' = sub \/ \E x : sub' = [sub EXCEPT ![t] = x]
      BY <2>2 DEF SubNext, Connects, ConnectFails, GivesUp, ReturnsUnconnected, Unconnected,
             ReturnsFailed, Listens, Receives, ReceivesControl, Dropped, CutOff, TimesOut,
             Awaits, Ends, subVars
    <3>4. (missed' = missed /\ stray' = stray)
            \/ \E x, y : missed' = [missed EXCEPT ![t] = x] /\ stray' = [stray EXCEPT ![t] = y]
      BY <2>2 DEF SubNext, Connects, ConnectFails, GivesUp, ReturnsUnconnected, Unconnected,
             ReturnsFailed, Listens, Receives, ReceivesControl, Dropped, CutOff, TimesOut,
             subVars
    <3> QED  BY <3>1, <3>2, <3>3, <3>4
  <2> QED  BY <1>3, <2>1, <2>2 DEF Acts
<1>4. CASE \E t \in Tasks : Acts(t) /\ t # s
  <2>1. PICK t \in Tasks : Acts(t) /\ t # s
    BY <1>4
  <2>2. missed'[s] = missed[s] /\ stray'[s] = stray[s] /\ sub'[s] = sub[s]
    BY <1>3, <2>1
  <2>3. pc[s] \in {"wait", "done"} => pc'[s] = pc[s]
    BY <1>1, <2>1, Moves
  <2>4. deadline[PodOf(s)] # None => deadline'[PodOf(s)] = deadline[PodOf(s)]
    BY <1>1, <2>1, DeadlineStays
  <2> QED  BY <1>2, <2>2, <2>3, <2>4
<1>5. CASE Acts(s)
  <2>1. SubNext(s)
    BY <1>1, <1>5, TypeFacts, TaskFacts DEF Acts, Requesters
  <2>2. deadline' = deadline
    BY <2>1 DEF SubNext, Connects, ConnectFails, GivesUp, ReturnsUnconnected, Unconnected,
           ReturnsFailed, Listens, Receives, ReceivesControl, Dropped, CutOff, TimesOut
  <2> QED  BY <2>1, <2>2, SubRecords DEF DriveInv
<1>6. CASE (\E p \in Pods : PodNext(p)) \/ Tick \/ UNCHANGED vars
  <2>1. /\ UNCHANGED <<pc, missed, stray, deadline>>
        /\ sub'[s].end = sub[s].end \/ (pc[s] = "start" /\ sub'[s].end = None)
    BY <1>6, OtherSteps DEF DriveInv
  <2> QED  BY <1>2, <2>1
<1> QED  BY <1>4, <1>5, <1>6, StepKinds

\* Nothing delivered in front of the measured window is recorded; of what is delivered
\* in it, all but the first chunk a subscriber received without having read the
\* deadline; and what is recorded behind the drain is a subscriber's last chunk.
THEOREM WindowRecorded == Spec => []RecordsTheWindow
<1>1. Init => RecordInv
  BY DEF Init, RecordInv, NoLocals
<1>2. RecordInv => RecordsTheWindow
  BY DEF RecordInv, RecordsTheWindow
<1> QED  BY <1>1, <1>2, InitType, NextType, DriveInit, DriveNext, RecordNext, PTL DEF Spec
=============================================================================
