------------------------- MODULE PoolAppend_proofs --------------------------
(***************************************************************************)
(* Whatever the number of pods, streams and connections, the requests      *)
(* under way at the same time go to streams their workers own, no two      *)
(* pods, nor with enough streams two workers, go to the same one, every    *)
(* append is counted once on either side, and every stream gets its share. *)
(***************************************************************************)
EXTENDS PoolAppend, FiniteSetTheorems, TLAPS

-----------------------------------------------------------------------------
(***************************************************************************)
(* What split_range promises (multi_stream.rs 166-169), for every domain,  *)
(* number of parts and part: "Ranges are disjoint, cover the input exactly,*)
(* and differ in size by at most 1".                                       *)
(***************************************************************************)

\* What integer division returns.
LEMMA DivFacts ==
  ASSUME NEW a \in Nat, NEW b \in Nat \ {0}
  PROVE  /\ a \div b \in Nat
         /\ b * (a \div b) <= a
         /\ a < b * (a \div b) + b
  OBVIOUS

\* A product grows with its factor.
LEMMA MulMono ==
  ASSUME NEW a \in Nat, NEW b \in Nat, NEW c \in Nat, a <= b
  PROVE  /\ a * c \in Nat /\ b * c \in Nat
         /\ a * c <= b * c
         /\ (a + 1) * c = a * c + c
         /\ c * a = a * c
  OBVIOUS

\* A quotient at least q, and one below q.
LEMMA DivLower ==
  ASSUME NEW a \in Nat, NEW b \in Nat \ {0}, NEW q \in Nat, b * q <= a
  PROVE  q <= a \div b
  BY DivFacts

LEMMA DivUpper ==
  ASSUME NEW a \in Nat, NEW b \in Nat \ {0}, NEW q \in Nat, a < b * q
  PROVE  a \div b < q
  BY DivFacts

\* Between w and w + 1 there is no third number.
LEMMA OneOfTwo ==
  ASSUME NEW u \in Nat, NEW v \in Nat, NEW w \in Nat, u + w <= v, v < u + w + 2
  PROVE  v - u = w \/ v - u = w + 1
  OBVIOUS

IsSlice(s) == s \in [lo : Nat, hi : Nat] /\ s.lo <= s.hi

\* With at least one part, the clamp of split_range does nothing.
LEMMA SplitForm ==
  ASSUME NEW s, IsSlice(s), NEW parts \in Nat \ {0}, NEW i \in Nat
  PROVE  SplitRange(s, parts, i)
           = [lo |-> s.lo + (i * (s.hi - s.lo)) \div parts,
              hi |-> s.lo + ((i + 1) * (s.hi - s.lo)) \div parts]
  BY DEF SplitRange, AtLeastOne, Slice, IsSlice

\* A part is a slice within the slice it divides.
THEOREM PartWithin ==
  ASSUME NEW s, IsSlice(s), NEW parts \in Nat \ {0}, NEW i \in 0 .. parts - 1
  PROVE  /\ IsSlice(SplitRange(s, parts, i))
         /\ s.lo <= SplitRange(s, parts, i).lo
         /\ SplitRange(s, parts, i).hi <= s.hi
<1> DEFINE n == s.hi - s.lo
<1>1. n \in Nat /\ s.lo \in Nat /\ s.hi = s.lo + n
  BY DEF IsSlice
<1>2. /\ i * n \in Nat /\ (i + 1) * n \in Nat
      /\ i * n <= (i + 1) * n
      /\ (i + 1) * n <= parts * n
  BY <1>1, MulMono
<1> HIDE DEF n
<1>3. (i * n) \div parts \in Nat /\ ((i + 1) * n) \div parts \in Nat
  BY <1>2, DivFacts
<1>4. ((i + 1) * n) \div parts <= n
  <2>1. ((i + 1) * n) < parts * (n + 1)
    BY <1>1, <1>2, MulMono
  <2> QED  BY <2>1, <1>1, <1>2, <1>3, DivUpper
<1>5. (i * n) \div parts <= ((i + 1) * n) \div parts
  <2>1. parts * ((i * n) \div parts) <= i * n
    BY <1>2, DivFacts
  <2> QED  BY <2>1, <1>2, <1>3, DivLower
<1>6. SplitRange(s, parts, i)
        = [lo |-> s.lo + (i * n) \div parts, hi |-> s.lo + ((i + 1) * n) \div parts]
  BY SplitForm DEF n
<1> QED  BY <1>1, <1>3, <1>4, <1>5, <1>6 DEF IsSlice

\* The first part starts where the slice does, each next one where the part before
\* it ends, and the last one ends where the slice does.
THEOREM PartsAreContiguous ==
  ASSUME NEW s, IsSlice(s), NEW parts \in Nat \ {0}
  PROVE  /\ SplitRange(s, parts, 0).lo = s.lo
         /\ \A i \in 0 .. parts - 2 :
              SplitRange(s, parts, i).hi = SplitRange(s, parts, i + 1).lo
         /\ SplitRange(s, parts, parts - 1).hi = s.hi
<1> DEFINE n == s.hi - s.lo
<1>1. n \in Nat /\ s.lo \in Nat /\ s.hi = s.lo + n
  BY DEF IsSlice
<1>2. 0 * n = 0 /\ 0 \div parts = 0
  <2>1. 0 \div parts < 1
    BY DivUpper
  <2> QED  BY <1>1, <2>1, DivFacts
<1>3. (parts * n) \div parts = n
  <2>1. parts * n \in Nat /\ parts * n < parts * (n + 1)
    BY <1>1
  <2>2. n <= (parts * n) \div parts
    BY <2>1, <1>1, DivLower
  <2>3. (parts * n) \div parts < n + 1
    BY <2>1, <1>1, DivUpper
  <2> QED  BY <1>1, <2>1, <2>2, <2>3, DivFacts
<1>4. SplitRange(s, parts, 0).lo = s.lo
  <2>1. SplitRange(s, parts, 0).lo = s.lo + (0 * n) \div parts
    BY SplitForm
  <2> QED  BY <2>1, <1>1, <1>2
<1>5. SplitRange(s, parts, parts - 1).hi = s.hi
  BY <1>1, <1>3, SplitForm
<1>6. ASSUME NEW i \in 0 .. parts - 2
      PROVE  SplitRange(s, parts, i).hi = SplitRange(s, parts, i + 1).lo
  BY SplitForm
<1> QED  BY <1>4, <1>5, <1>6

\* Two parts share no key: an earlier one ends before a later one starts.
THEOREM PartsAreDisjoint ==
  ASSUME NEW s, IsSlice(s), NEW parts \in Nat \ {0},
         NEW i \in 0 .. parts - 1, NEW j \in 0 .. parts - 1, i < j
  PROVE  SplitRange(s, parts, i).hi <= SplitRange(s, parts, j).lo
<1> DEFINE n == s.hi - s.lo
<1>1. n \in Nat /\ s.lo \in Nat
  BY DEF IsSlice
<1>2. (i + 1) * n \in Nat /\ j * n \in Nat /\ (i + 1) * n <= j * n
  BY <1>1, MulMono
<1> HIDE DEF n
<1>3. ((i + 1) * n) \div parts <= (j * n) \div parts
  <2>1. parts * (((i + 1) * n) \div parts) <= (i + 1) * n
    BY <1>2, DivFacts
  <2>2. ((i + 1) * n) \div parts \in Nat
    BY <1>2, DivFacts
  <2> QED  BY <2>1, <2>2, <1>2, DivLower
<1>4. /\ SplitRange(s, parts, i).hi = s.lo + ((i + 1) * n) \div parts
      /\ SplitRange(s, parts, j).lo = s.lo + (j * n) \div parts
  BY SplitForm DEF n
<1> QED  BY <1>1, <1>2, <1>3, <1>4, DivFacts

\* Every key of the slice is in one of the parts.
THEOREM PartsCover ==
  ASSUME NEW s, IsSlice(s), NEW parts \in Nat \ {0}, NEW k \in Keys(s)
  PROVE  \E i \in 0 .. parts - 1 : k \in Keys(SplitRange(s, parts, i))
<1> DEFINE n == s.hi - s.lo
           x == k - s.lo
           i == ((x + 1) * parts - 1) \div n
<1>1. /\ n \in Nat \ {0} /\ s.lo \in Nat /\ x \in 0 .. n - 1
      /\ k = s.lo + x
  BY DEF IsSlice, Keys
<1>2. /\ (x + 1) * parts \in Nat \ {0}
      /\ (x + 1) * parts <= n * parts
      /\ (x + 1) * parts = parts * (x + 1)
  BY <1>1
<1> HIDE DEF n, x
<1>3. /\ i \in Nat
      /\ n * i <= (x + 1) * parts - 1
      /\ (x + 1) * parts - 1 < n * i + n
  <2>1. (x + 1) * parts - 1 \in Nat
    BY <1>2
  <2>2. \A a \in Nat : /\ a \div n \in Nat
                       /\ n * (a \div n) <= a
                       /\ a < n * (a \div n) + n
    BY <1>1, DivFacts
  <2> QED  BY <2>1, <2>2
<1>4. i < parts
  <2>1. (x + 1) * parts - 1 < n * parts
    BY <1>1, <1>2
  <2> QED  BY <2>1, <1>1, <1>2, DivUpper
<1> HIDE DEF i
<1>5. /\ i * n \in Nat /\ (i + 1) * n \in Nat
      /\ i * n = n * i /\ (i + 1) * n = n * i + n
  BY <1>1, <1>3
<1>6. (i * n) \div parts < x + 1
  <2>1. i * n < parts * (x + 1)
    BY <1>1, <1>2, <1>3, <1>5
  <2>2. i * n \in Nat /\ x + 1 \in Nat
    BY <1>1, <1>5
  <2> QED  BY <2>1, <2>2, DivUpper
<1>7. x + 1 <= ((i + 1) * n) \div parts
  <2>1. parts * (x + 1) <= (i + 1) * n
    BY <1>1, <1>2, <1>3, <1>5
  <2>2. (i + 1) * n \in Nat /\ x + 1 \in Nat
    BY <1>1, <1>5
  <2> QED  BY <2>1, <2>2, DivLower
<1>8. /\ SplitRange(s, parts, i).lo = s.lo + (i * n) \div parts
      /\ SplitRange(s, parts, i).hi = s.lo + ((i + 1) * n) \div parts
  BY <1>3, SplitForm DEF n
<1>9. k \in Keys(SplitRange(s, parts, i))
  <2>1. (i * n) \div parts \in Nat /\ ((i + 1) * n) \div parts \in Nat
    BY <1>5, DivFacts
  <2> QED  BY <2>1, <1>1, <1>6, <1>7, <1>8 DEF Keys
<1> QED  BY <1>3, <1>4, <1>9

Size(s) == s.hi - s.lo

\* A part has the mean number of keys, or one more.
LEMMA PartSize ==
  ASSUME NEW s, IsSlice(s), NEW parts \in Nat \ {0}, NEW i \in 0 .. parts - 1
  PROVE  Size(SplitRange(s, parts, i))
           \in {Size(s) \div parts, Size(s) \div parts + 1}
<1> DEFINE n == Size(s)
           q == n \div parts
           a == i * n
<1>1. n \in Nat /\ s.lo \in Nat /\ n = s.hi - s.lo
  BY DEF IsSlice, Size
<1>2. a \in Nat /\ (i + 1) * n = a + n /\ (i + 1) * n \in Nat
  BY <1>1
<1> HIDE DEF n, a
<1>3. q \in Nat /\ parts * q <= n /\ n < parts * q + parts
  BY <1>1, DivFacts
<1>4. /\ a \div parts \in Nat
      /\ parts * (a \div parts) <= a
      /\ a < parts * (a \div parts) + parts
  BY <1>2, DivFacts
<1> HIDE DEF q
<1>5. a \div parts + q <= (a + n) \div parts
  <2>1. parts * (a \div parts + q) = parts * (a \div parts) + parts * q
    BY <1>3, <1>4
  <2>2. parts * (a \div parts + q) <= a + n
    BY <2>1, <1>1, <1>2, <1>3, <1>4
  <2> QED  BY <2>2, <1>1, <1>2, <1>3, <1>4, DivLower
<1>6. (a + n) \div parts < a \div parts + q + 2
  <2>1. parts * (a \div parts + q + 2)
          = parts * (a \div parts) + parts * q + parts + parts
    BY <1>3, <1>4
  <2>2. a + n < parts * (a \div parts + q + 2)
    BY <2>1, <1>1, <1>2, <1>3, <1>4
  <2> QED  BY <2>2, <1>1, <1>2, <1>3, <1>4, DivUpper
<1>7. /\ SplitRange(s, parts, i).lo = s.lo + a \div parts
      /\ SplitRange(s, parts, i).hi = s.lo + (a + n) \div parts
  <2>1. /\ SplitRange(s, parts, i).lo = s.lo + (i * n) \div parts
        /\ SplitRange(s, parts, i).hi = s.lo + ((i + 1) * n) \div parts
    BY SplitForm DEF n, Size
  <2> QED  BY <2>1, <1>2 DEF a
<1>8. (a + n) \div parts \in Nat
  BY <1>1, <1>2, DivFacts
<1>9. Size(SplitRange(s, parts, i)) \in {q, q + 1}
  <2>1. Size(SplitRange(s, parts, i)) = (a + n) \div parts - a \div parts
    <3>1. Size(SplitRange(s, parts, i))
            = (s.lo + (a + n) \div parts) - (s.lo + a \div parts)
      BY <1>7 DEF Size
    <3>2. ASSUME NEW u \in Nat, NEW v \in Nat, NEW w \in Nat
          PROVE  (u + v) - (u + w) = v - w
      OBVIOUS
    <3> QED  BY <3>1, <3>2, <1>1, <1>4, <1>8
  <2>2. (a + n) \div parts - a \div parts \in {q, q + 1}
    BY OneOfTwo, <1>3, <1>4, <1>5, <1>6, <1>8
  <2> QED  BY <2>1, <2>2
<1> QED  BY <1>9 DEF q, n

\* Two parts differ by at most one key.
THEOREM PartsAreEven ==
  ASSUME NEW s, IsSlice(s), NEW parts \in Nat \ {0},
         NEW i \in 0 .. parts - 1, NEW j \in 0 .. parts - 1
  PROVE  Size(SplitRange(s, parts, i)) <= Size(SplitRange(s, parts, j)) + 1
<1>1. Size(s) \in Nat /\ Size(s) \div parts \in Nat
  BY DivFacts DEF IsSlice, Size
<1> QED  BY <1>1, PartSize

\* With a key for every part, none is empty.
THEOREM NoPartIsEmpty ==
  ASSUME NEW s, IsSlice(s), NEW parts \in Nat \ {0}, parts <= Size(s),
         NEW i \in 0 .. parts - 1
  PROVE  Size(SplitRange(s, parts, i)) >= 1
<1>1. Size(s) \in Nat
  BY DEF IsSlice, Size
<1>2. 1 <= Size(s) \div parts /\ Size(s) \div parts \in Nat
  BY <1>1, DivLower, DivFacts
<1> QED  BY <1>2, PartSize

-----------------------------------------------------------------------------
(***************************************************************************)
(* The slices of pods and workers, and what the load does in them.         *)
(***************************************************************************)
Domain == [lo |-> 0, hi |-> NStreams]

\* A pod's slice is one of NPods parts of the domain, and starts inside it.
LEMMA PodSliceFacts ==
  ASSUME NEW p \in Pods
  PROVE  /\ p \in 0 .. NPods - 1 /\ NPods \in Nat \ {0}
         /\ IsSlice(Domain) /\ Size(Domain) = NStreams
         /\ PodOf(p) = SplitRange(Domain, NPods, p)
         /\ IsSlice(PodOf(p)) /\ PodOf(p).hi <= NStreams
         /\ PodOf(p).lo < NStreams
<1>1. /\ p \in 0 .. NPods - 1 /\ NPods \in Nat \ {0} /\ NStreams \in Nat \ {0}
      /\ IsSlice(Domain) /\ Size(Domain) = NStreams
  BY PoolAssumption DEF Pods, Domain, IsSlice, Size
<1>2. PodOf(p) = SplitRange(Domain, NPods, p)
  BY <1>1 DEF PodOf, PodSlice, AtLeastOne, Domain, Slice
<1>3. IsSlice(PodOf(p)) /\ PodOf(p).hi <= NStreams
  BY <1>1, <1>2, PartWithin DEF Domain
<1>4. PodOf(p).lo < NStreams
  <2>1. PodOf(p).lo = 0 + (p * (NStreams - 0)) \div NPods
    <3>1. PodOf(p).lo = Domain.lo + (p * (Domain.hi - Domain.lo)) \div NPods
      BY <1>1, <1>2, SplitForm
    <3> QED  BY <3>1 DEF Domain
  <2>2. p * NStreams \in Nat /\ p * NStreams < NPods * NStreams
    <3>1. /\ p \in Nat /\ p + 1 \in Nat /\ p + 1 <= NPods
          /\ NPods \in Nat /\ NStreams \in Nat
      BY <1>1
    <3>2. p * NStreams \in Nat /\ (p + 1) * NStreams = p * NStreams + NStreams
      BY <3>1, MulMono
    <3>3. (p + 1) * NStreams <= NPods * NStreams /\ NPods * NStreams \in Nat
      BY <3>1, MulMono
    <3> QED  BY <1>1, <3>2, <3>3
  <2>3. (p * NStreams) \div NPods < NStreams /\ (p * NStreams) \div NPods \in Nat
    BY <1>1, <2>2, DivUpper, DivFacts
  <2> QED  BY <1>1, <2>1, <2>3
<1> QED  BY <1>1, <1>2, <1>3, <1>4

\* A worker's slice lies in its pod's, and is empty only if that is.
LEMMA OwnFacts ==
  ASSUME NEW w \in Workers
  PROVE  /\ w[1] \in Pods /\ w[2] \in 0 .. Conns - 1 /\ Conns \in Nat \ {0}
         /\ IsSlice(Own(w))
         /\ PodOf(w[1]).lo <= Own(w).lo /\ Own(w).hi <= PodOf(w[1]).hi
         /\ Size(PodOf(w[1])) >= 1 => Size(Own(w)) >= 1
         /\ Size(Own(w)) = 0 => Own(w) = PodOf(w[1])
<1>1. w[1] \in Pods /\ w[2] \in 0 .. Conns - 1 /\ Conns \in Nat \ {0}
  BY PoolAssumption DEF Workers
<1> DEFINE s    == PodOf(w[1])
           part == SplitRange(s, Conns, w[2])
<1>2. IsSlice(s)
  BY <1>1, PodSliceFacts
<1>3. IsSlice(part) /\ s.lo <= part.lo /\ part.hi <= s.hi
  BY <1>1, <1>2, PartWithin
<1>4. Own(w) = IF part.lo = part.hi THEN s ELSE part
  BY DEF Own, WorkerSlice, Empty
<1> QED  BY <1>1, <1>2, <1>3, <1>4 DEF IsSlice, Size

\* The cursor never leaves the domain.
LEMMA SpanFacts ==
  ASSUME NEW w \in Workers
  PROVE  /\ Span(Own(w)) \in Nat \ {0}
         /\ Own(w).lo \in Nat /\ Own(w).lo + Span(Own(w)) <= NStreams
<1>1. /\ IsSlice(Own(w)) /\ Own(w).hi <= PodOf(w[1]).hi
      /\ Size(Own(w)) = 0 => Own(w) = PodOf(w[1])
  BY OwnFacts
<1>2. PodOf(w[1]).lo < NStreams /\ PodOf(w[1]).hi <= NStreams /\ IsSlice(PodOf(w[1]))
  BY OwnFacts, PodSliceFacts
<1> QED  BY <1>1, <1>2, PoolAssumption DEF Span, AtLeastOne, IsSlice, Size

\* Where every worker's cursor and request are.
OwnTargets ==
  \A w \in Workers :
    /\ rr[w] < Span(Own(w))
    /\ at[w] # "ready" => target[w] \in Own(w).lo .. Own(w).lo + Span(Own(w)) - 1

IInv == TypeOK /\ OwnTargets

LEMMA ModRange ==
  ASSUME NEW a \in Nat, NEW b \in Nat \ {0}
  PROVE  a % b \in Nat /\ a % b < b
  OBVIOUS

THEOREM InitIInv == Init => IInv
<1> SUFFICES ASSUME Init PROVE IInv
  OBVIOUS
<1>1. ASSUME NEW w \in Workers
      PROVE  rr[w] \in Nat /\ rr[w] < Span(Own(w)) /\ at[w] = "ready"
  <2>1. WorkerPhase(PodOf(w[1]), Conns, w[2]) \in Nat
    BY OwnFacts DEF WorkerPhase
  <2>2. rr[w] = WorkerPhase(PodOf(w[1]), Conns, w[2]) % Span(Own(w))
    BY DEF Init
  <2> QED  BY <2>1, <2>2, SpanFacts, ModRange DEF Init
<1>2. OwnTargets
  BY <1>1 DEF OwnTargets
<1>3. 0 \in Streams
  BY PoolAssumption DEF Streams
<1>4. rr \in [Workers -> Nat]
  BY <1>1 DEF Init
<1>5. TypeOK
  BY <1>3, <1>4 DEF TypeOK, Init, Zero
<1> QED  BY <1>2, <1>5 DEF IInv

USE DEF IInv

LEMMA BumpType ==
  ASSUME NEW S, NEW f \in [S -> Nat], NEW x \in S
  PROVE  Bump(f, x) \in [S -> Nat]
  BY DEF Bump

LEMMA CountedType ==
  ASSUME NEW w \in Workers, NEW f \in [Pods -> Nat]
  PROVE  Counted(w, f) \in [Pods -> Nat]
  BY OwnFacts, BumpType DEF Counted

\* A pod's own steps touch no request.
LEMMA PodStep ==
  ASSUME IInv, NEW p \in Pods, PodNext(p)
  PROVE  IInv'
<1>1. UNCHANGED <<worker, counters, records, limbo, history>>
  BY DEF PodNext, SetupDone, SetupFails, TimePasses, Finish, server
<1>2. Keys(PodOf(p)) \subseteq Streams
  <2>1. PodOf(p).lo \in Nat /\ PodOf(p).hi \in Nat /\ PodOf(p).hi <= NStreams
    BY PodSliceFacts DEF IsSlice
  <2> QED  BY <2>1, PoolAssumption DEF Keys, Streams
<1>3. exists' \in SUBSET Streams
  BY <1>2 DEF TypeOK, PodNext, SetupDone, SetupFails, TimePasses, Finish, server
<1>4. phase' \in [Pods -> {"setup", "warmup", "settle", "measure", "over",
                          "done", "dead"}]
  <2>1. CASE TimePasses(p)
    <3>1. After[phase[p]] \in {"settle", "measure", "over"}
      BY <2>1 DEF TimePasses, After
    <3> QED  BY <2>1, <3>1 DEF TimePasses, TypeOK
  <2> QED  BY <2>1 DEF PodNext, SetupDone, SetupFails, Finish, TypeOK
<1> QED  BY <1>1, <1>3, <1>4
         DEF TypeOK, OwnTargets, worker, counters, history

\* Sending goes to a stream of the worker's own and moves the cursor on.
LEMMA SendStep ==
  ASSUME IInv, NEW w \in Workers, Send(w)
  PROVE  IInv'
<1> DEFINE s == Own(w).lo + rr[w]
<1>1. /\ Span(Own(w)) \in Nat \ {0} /\ Own(w).lo \in Nat
      /\ Own(w).lo + Span(Own(w)) <= NStreams
  BY SpanFacts
<1>2. rr[w] \in Nat /\ rr[w] < Span(Own(w))
  BY DEF TypeOK, OwnTargets
<1>3. s \in Own(w).lo .. Own(w).lo + Span(Own(w)) - 1 /\ s \in Streams
  BY <1>1, <1>2, PoolAssumption DEF Streams
<1>4. /\ (rr[w] + 1) % Span(Own(w)) \in Nat
      /\ (rr[w] + 1) % Span(Own(w)) < Span(Own(w))
  BY <1>1, <1>2, ModRange
<1>5. /\ target' = [target EXCEPT ![w] = s]
      /\ rr' = [rr EXCEPT ![w] = (@ + 1) % Span(Own(w))]
      /\ at' = [at EXCEPT ![w] = "sent"]
      /\ counting' = [counting EXCEPT ![w] = phase[w[1]] = "measure"]
      /\ UNCHANGED <<phase, reply, counters, server, late, restarts, timeouts>>
  BY DEF Send
<1>6. hits' \in [Workers -> [Streams -> Nat]]
  <2>1. Bump(hits[w], s) \in [Streams -> Nat]
    BY <1>3, BumpType DEF TypeOK
  <2> QED  BY <2>1 DEF Send, TypeOK
<1>7. measured' \in [Pods -> Nat]
  BY BumpType, OwnFacts DEF Send, TypeOK
<1>8. TypeOK'
  BY <1>3, <1>4, <1>5, <1>6, <1>7 DEF TypeOK, counters, server
<1>9. OwnTargets'
  BY <1>3, <1>4, <1>5 DEF OwnTargets, TypeOK
<1> QED  BY <1>8, <1>9

\* What the client makes of an answer, or of none, leaves the cursor and the
\* target as they were.
LEMMA ReactStep ==
  ASSUME IInv, NEW w \in Workers, Reacts(w)
  PROVE  IInv'
<1>1. /\ UNCHANGED <<phase, rr, target, counting, hits, measured, late, restarts>>
      /\ at' \in {[at EXCEPT ![w] = "ready"], [at EXCEPT ![w] = "retried"]}
      /\ reply' = [reply EXCEPT ![w] = "none"]
      /\ at[w] # "ready" \/ at' = [at EXCEPT ![w] = "ready"]
  BY DEF Reacts, OnSuccess, OnMissingCreates, OnMissingGivesUp, OnBusy,
         OnFailure, OnTimeout, Rest, history
<1>2. /\ ok \in [Pods -> Nat] /\ okAll \in [Pods -> Nat]
      /\ bp \in [Pods -> Nat] /\ err \in [Pods -> Nat]
      /\ lazy \in [Pods -> Nat] /\ timeouts \in Nat
      /\ records \in [Streams -> Nat] /\ limbo \in [Streams -> Nat]
      /\ target[w] \in Streams /\ exists \in SUBSET Streams /\ w[1] \in Pods
  BY OwnFacts DEF TypeOK
<1>3. /\ Counted(w, ok) \in [Pods -> Nat] /\ Counted(w, bp) \in [Pods -> Nat]
      /\ Counted(w, err) \in [Pods -> Nat]
      /\ Bump(okAll, w[1]) \in [Pods -> Nat] /\ Bump(lazy, w[1]) \in [Pods -> Nat]
      /\ Bump(limbo, target[w]) \in [Streams -> Nat]
  BY <1>2, BumpType, CountedType
<1>4. /\ ok' \in {ok, Counted(w, ok)} /\ okAll' \in {okAll, Bump(okAll, w[1])}
      /\ bp' \in {bp, Counted(w, bp)} /\ err' \in {err, Counted(w, err)}
      /\ lazy' \in {lazy, Bump(lazy, w[1])}
      /\ limbo' \in {limbo, Bump(limbo, target[w])}
      /\ timeouts' \in {timeouts, timeouts + 1} /\ records' = records
  BY DEF Reacts, OnSuccess, OnMissingCreates, OnMissingGivesUp, OnBusy,
         OnFailure, OnTimeout, server, history
<1>5. exists' \in SUBSET Streams
  BY <1>2 DEF Reacts, OnSuccess, OnMissingCreates, OnMissingGivesUp, OnBusy,
              OnFailure, OnTimeout, server
<1>6. TypeOK'
  BY <1>1, <1>2, <1>3, <1>4, <1>5 DEF TypeOK
<1>7. OwnTargets'
  BY <1>1 DEF OwnTargets, TypeOK
<1> QED  BY <1>6, <1>7

\* Nor does the server.
LEMMA ServerStep ==
  ASSUME IInv,
         \/ \E w \in Workers : ServerNext(w)
         \/ \E s \in Streams : LateArrival(s)
         \/ ServerRestarts
  PROVE  IInv'
<1>1. UNCHANGED <<phase, rr, at, target, counting, counters, hits, measured>>
  BY DEF ServerNext, ServerAppends, ServerRefuses, LateArrival, ServerRestarts,
         worker, history
<1>2. reply' \in [Workers -> {"none", "success", "missing", "busy", "failed"}]
  BY DEF TypeOK, ServerNext, ServerAppends, ServerRefuses, LateArrival,
         ServerRestarts, worker, Answer
<1>3. CASE \E w \in Workers : ServerNext(w)
  <2> PICK w \in Workers : ServerNext(w)
    BY <1>3
  <2>1. target[w] \in Streams
    BY DEF TypeOK
  <2>2. records' \in [Streams -> Nat] /\ UNCHANGED <<exists, limbo, late, restarts, timeouts>>
    BY <2>1, BumpType
       DEF TypeOK, ServerNext, ServerAppends, ServerRefuses, server, history
  <2> QED  BY <1>1, <1>2, <2>2 DEF TypeOK, OwnTargets, counters
<1>4. CASE \E s \in Streams : LateArrival(s)
  <2> PICK s \in Streams : LateArrival(s)
    BY <1>4
  <2>1. limbo' \in [Streams -> Nat]
    <3>1. limbo[s] - 1 \in Nat
      BY DEF LateArrival, TypeOK
    <3> QED  BY <3>1 DEF LateArrival, TypeOK
  <2>2. /\ records' \in [Streams -> Nat] /\ late' \in Nat
        /\ UNCHANGED <<exists, restarts, timeouts>>
    <3>1. Bump(records, s) \in [Streams -> Nat]
      BY BumpType DEF TypeOK
    <3> QED  BY <3>1 DEF TypeOK, LateArrival
  <2> QED  BY <1>1, <1>2, <2>1, <2>2 DEF TypeOK, OwnTargets, counters
<1>5. CASE ServerRestarts
  BY <1>1, <1>2, <1>5 DEF ServerRestarts, TypeOK, OwnTargets, counters, Zero
<1> QED  BY <1>3, <1>4, <1>5

\* Every step keeps the types and every request on a stream of its worker.
THEOREM StepIInv == IInv /\ [Next]_vars => IInv'
<1> SUFFICES ASSUME IInv, [Next]_vars PROVE IInv'
  OBVIOUS
<1>1. CASE Next
  BY <1>1, PodStep, SendStep, ReactStep, ServerStep DEF Next
<1>2. CASE UNCHANGED vars
  BY <1>2 DEF vars, worker, counters, server, history, TypeOK, OwnTargets
<1> QED  BY <1>1, <1>2

LEMMA InvHolds == Spec => []IInv
<1> QED  BY InitIInv, StepIInv, PTL DEF Spec

\* The variables keep their types for every number of pods, streams, connections
\* and failures.
THEOREM TypeCorrect == Spec => []TypeOK
<1>1. IInv => TypeOK
  OBVIOUS
<1> QED  BY <1>1, InvHolds, PTL

\* Parts of one slice hold no common key.
LEMMA PartsApart ==
  ASSUME NEW s, IsSlice(s), NEW parts \in Nat \ {0},
         NEW i \in 0 .. parts - 1, NEW j \in 0 .. parts - 1, i # j,
         NEW k, k \in Keys(SplitRange(s, parts, i))
  PROVE  k \notin Keys(SplitRange(s, parts, j))
<1>1. /\ IsSlice(SplitRange(s, parts, i)) /\ IsSlice(SplitRange(s, parts, j))
  BY PartWithin
<1>2. CASE i < j
  BY <1>1, <1>2, PartsAreDisjoint DEF Keys, IsSlice
<1>3. CASE j < i
  BY <1>1, <1>3, PartsAreDisjoint DEF Keys, IsSlice
<1> QED  BY <1>2, <1>3

\* With a stream for every pod, a request is for a stream of its pod.
LEMMA RequestInPod ==
  ASSUME OwnTargets, NStreams >= NPods, NEW w \in Workers, at[w] # "ready"
  PROVE  /\ target[w] \in Keys(Own(w))
         /\ target[w] \in Keys(PodOf(w[1]))
<1>1. Size(PodOf(w[1])) >= 1
  BY OwnFacts, PodSliceFacts, NoPartIsEmpty
<1>2. IsSlice(Own(w)) /\ Size(Own(w)) >= 1 /\ IsSlice(PodOf(w[1]))
  BY <1>1, OwnFacts, PodSliceFacts
<1>3. Span(Own(w)) = Own(w).hi - Own(w).lo
  BY <1>2 DEF Span, AtLeastOne, Size, IsSlice
<1>4. target[w] \in Own(w).lo .. Own(w).hi - 1
  BY <1>2, <1>3 DEF OwnTargets, IsSlice
<1> QED  BY <1>2, <1>4, OwnFacts DEF Keys, IsSlice

\* No two pods at once.
LEMMA PodsApartNow ==
  ASSUME OwnTargets, NStreams >= NPods, NEW v \in Workers, NEW w \in Workers,
         v[1] # w[1], at[v] # "ready", at[w] # "ready"
  PROVE  target[v] # target[w]
<1>1. target[v] \in Keys(PodOf(v[1])) /\ target[w] \in Keys(PodOf(w[1]))
  BY RequestInPod
<1>2. v[1] \in Pods /\ w[1] \in Pods
  BY OwnFacts
<1> QED  BY <1>1, <1>2, PodSliceFacts, PartsApart

\* No two pods append to the same stream at once, as long as there is a stream
\* for every pod.
THEOREM PodsApart == Spec => []PodsNeverContend
<1>1. IInv => PodsNeverContend
  BY PodsApartNow DEF PodsNeverContend
<1> QED  BY <1>1, InvHolds, PTL

\* With a stream for every worker of the fleet, no worker falls back on the slice
\* of its pod.
LEMMA OwnPart ==
  ASSUME NStreams >= NPods * Conns, NEW w \in Workers
  PROVE  Own(w) = SplitRange(PodOf(w[1]), Conns, w[2])
<1>1. /\ w[1] \in Pods /\ w[2] \in 0 .. Conns - 1 /\ Conns \in Nat \ {0}
      /\ IsSlice(PodOf(w[1])) /\ NPods \in Nat \ {0} /\ NStreams \in Nat
  BY OwnFacts, PodSliceFacts, PoolAssumption
<1>2. Conns <= Size(PodOf(w[1]))
  <2>1. Conns <= NStreams \div NPods /\ NStreams \div NPods \in Nat
    BY <1>1, DivLower, DivFacts
  <2>2. Size(PodOf(w[1])) \in {NStreams \div NPods, NStreams \div NPods + 1}
    BY <1>1, PodSliceFacts, PartSize
  <2> QED  BY <1>1, <2>1, <2>2
<1>3. Size(SplitRange(PodOf(w[1]), Conns, w[2])) >= 1
  BY <1>1, <1>2, NoPartIsEmpty
<1>4. IsSlice(SplitRange(PodOf(w[1]), Conns, w[2]))
  BY <1>1, PartWithin
<1> QED  BY <1>3, <1>4 DEF Own, WorkerSlice, Empty, Size, IsSlice

\* No two workers append to the same stream at once, as long as there is a stream
\* for every worker of the fleet: what multi_stream.rs 62-64 claims, with the
\* premise it needs.
THEOREM WorkersAreApart == Spec => []WorkersApart
<1>1. ASSUME IInv PROVE WorkersApart
  <2> SUFFICES ASSUME NStreams >= NPods * Conns,
                      NEW v \in Workers, NEW w \in Workers,
                      v # w, at[v] # "ready", at[w] # "ready"
               PROVE  target[v] # target[w]
    BY DEF WorkersApart, WorkersNeverContend
  <2>1. NStreams >= NPods
    <3>1. /\ NPods \in Nat /\ Conns \in Nat /\ Conns >= 1 /\ NStreams \in Nat
      BY PoolAssumption
    <3>2. 1 * NPods <= Conns * NPods /\ Conns * NPods = NPods * Conns
      BY <3>1, MulMono
    <3> QED  BY <3>1, <3>2
  <2>2. CASE v[1] # w[1]
    BY <1>1, <2>1, <2>2, PodsApartNow
  <2>3. CASE v[1] = w[1]
    <3>1. v[2] # w[2]
      BY <2>3 DEF Workers
    <3>2. target[v] \in Keys(Own(v)) /\ target[w] \in Keys(Own(w))
      BY <1>1, <2>1, RequestInPod
    <3>3. /\ v[1] \in Pods /\ v[2] \in 0 .. Conns - 1
          /\ w[2] \in 0 .. Conns - 1 /\ Conns \in Nat \ {0}
          /\ IsSlice(PodOf(v[1]))
      BY OwnFacts, PodSliceFacts
    <3>4. /\ Own(v) = SplitRange(PodOf(v[1]), Conns, v[2])
          /\ Own(w) = SplitRange(PodOf(v[1]), Conns, w[2])
      BY <2>3, OwnPart
    <3> QED  BY <3>1, <3>2, <3>3, <3>4, PartsApart
  <2> QED  BY <2>2, <2>3
<1> QED  BY <1>1, InvHolds, PTL

-----------------------------------------------------------------------------
(***************************************************************************)
(* Totals.  SumFunction is a fold, defined by recursion over subsets: an   *)
(* argument about a smallest subset stands in for induction.               *)
(***************************************************************************)
\* One unit for each thing f counts in s.
Units(f, s) == UNION {{x} \X (1 .. f[x]) : x \in s}

\* A set of subsets of a finite set has a smallest one.
LEMMA SmallestSubset ==
  ASSUME NEW S, IsFiniteSet(S), NEW T \in SUBSET SUBSET S, T # {}
  PROVE  \E t \in T : \A u \in T : u \subseteq t => u = t
<1>1. IsWellFoundedOn(StrictSubsetOrdering(S), FiniteSubsetsOf(S))
  BY FS_StrictSubsetOrderingWellFounded
<1>2. FiniteSubsetsOf(S) = SUBSET S
  BY FS_FiniteSubsetsOfFinite
<1>3. PICK t \in T : \A u \in T : ~(<<u, t>> \in StrictSubsetOrdering(S))
  BY <1>1, <1>2, WFMin
<1>4. ASSUME NEW u \in T, u \subseteq t PROVE u = t
  BY <1>3, <1>4 DEF StrictSubsetOrdering
<1> QED  BY <1>4

\* The units of one point are as many as f says.
LEMMA UnitsOfOne ==
  ASSUME NEW n \in Nat, NEW x
  PROVE  IsFiniteSet({x} \X (1 .. n)) /\ Cardinality({x} \X (1 .. n)) = n
<1>1. IsFiniteSet(1 .. n) /\ Cardinality(1 .. n) = n
  BY FS_Interval
<1>2. IsFiniteSet({x}) /\ Cardinality({x}) = 1
  BY FS_Singleton
<1>3. /\ IsFiniteSet({x} \X (1 .. n))
      /\ Cardinality({x} \X (1 .. n)) = Cardinality({x}) * Cardinality(1 .. n)
  BY <1>1, <1>2, FS_Product
<1> QED  BY <1>1, <1>2, <1>3

\* Finitely many points have finitely many units.
LEMMA UnitsFinite ==
  ASSUME NEW s, IsFiniteSet(s), NEW f, \A x \in s : f[x] \in Nat
  PROVE  IsFiniteSet(Units(f, s)) /\ Cardinality(Units(f, s)) \in Nat
<1> DEFINE parts == {{x} \X (1 .. f[x]) : x \in s}
           part  == [x \in s |-> {x} \X (1 .. f[x])]
<1>1. part \in Surjection(s, parts)
  BY DEF Surjection
<1>2. IsFiniteSet(parts)
  BY <1>1, FS_Surjection
<1>3. \A p \in parts : IsFiniteSet(p)
  BY UnitsOfOne
<1>4. IsFiniteSet(UNION parts)
  <2> HIDE DEF parts
  <2> QED  BY <1>2, <1>3, FS_UNION
<1> QED  BY <1>4, FS_CardinalityType DEF Units

\* The units of one point and those of the others.
LEMMA UnitsSplit ==
  ASSUME NEW s, IsFiniteSet(s), NEW f, \A x \in s : f[x] \in Nat, NEW x \in s
  PROVE  Cardinality(Units(f, s)) = f[x] + Cardinality(Units(f, s \ {x}))
<1> DEFINE rest == Units(f, s \ {x})
           own  == {x} \X (1 .. f[x])
<1>1. Units(f, s) = rest \cup own
  BY DEF Units
<1>2. rest \cap own = {}
  BY DEF Units
<1>3. IsFiniteSet(s \ {x}) /\ \A y \in s \ {x} : f[y] \in Nat
  BY FS_RemoveElement
<1>4. IsFiniteSet(rest) /\ Cardinality(rest) \in Nat
  BY <1>3, UnitsFinite
<1>5. IsFiniteSet(own) /\ Cardinality(own) = f[x]
  BY UnitsOfOne
<1> HIDE DEF rest, own
<1>6. Cardinality(rest \cup own) = Cardinality(rest) + Cardinality(own) - Cardinality(rest \cap own)
  BY <1>4, <1>5, FS_Union
<1>7. Cardinality(rest \cap own) = 0
  BY <1>2, FS_EmptySet
<1> QED  BY <1>1, <1>4, <1>5, <1>6, <1>7 DEF rest

\* The sum over a finite set is the number of its units: the fold and that number
\* satisfy the same recursion, and no subset is a smallest one where they differ.
LEMMA SumIsUnits ==
  ASSUME NEW S, IsFiniteSet(S), NEW f, \A x \in S : f[x] \in Nat
  PROVE  SumFunctionOnSet(f, S) = Cardinality(Units(f, S))
<1> DEFINE pick(s)   == CHOOSE x \in s : TRUE
           step(g, s) == IF s = {} THEN 0 ELSE f[pick(s)] + g[s \ {pick(s)}]
           good(g)   == g = [s \in SUBSET S |-> step(g, s)]
           size      == [s \in SUBSET S |-> Cardinality(Units(f, s))]
           iter      == CHOOSE g : good(g)
<1>1. SumFunctionOnSet(f, S) = iter[S]
  BY DEF SumFunctionOnSet, FoldFunctionOnSet, MapThenFoldSet
<1>2. ASSUME NEW s \in SUBSET S PROVE size[s] = step(size, s)
  <2>1. CASE s = {}
    <3>1. Units(f, {}) = {}
      BY DEF Units
    <3> QED  BY <2>1, <3>1, FS_EmptySet
  <2>2. CASE s # {}
    <3>1. pick(s) \in s /\ s \ {pick(s)} \in SUBSET S
      BY <2>2
    <3>2. IsFiniteSet(s) /\ \A x \in s : f[x] \in Nat
      BY FS_Subset
    <3> HIDE DEF pick
    <3>3. Cardinality(Units(f, s)) = f[pick(s)] + Cardinality(Units(f, s \ {pick(s)}))
      BY <3>1, <3>2, UnitsSplit
    <3> QED  BY <2>2, <3>1, <3>3
  <2> QED  BY <2>1, <2>2
<1> HIDE DEF step
<1>3. good(size)
  BY <1>2
<1>4. good(iter)
  BY <1>3
<1>5. \A s \in SUBSET S : /\ iter[s] = step(iter, s)
                         /\ size[s] = step(size, s)
  BY <1>2, <1>4
<1>6. ASSUME NEW s \in SUBSET S, s # {}, iter[s \ {pick(s)}] = size[s \ {pick(s)}]
      PROVE  step(iter, s) = step(size, s)
  BY <1>6 DEF step
<1>7. step(iter, {}) = step(size, {})
  BY DEF step
<1>8. \A s \in SUBSET S : s # {} => pick(s) \in s
  OBVIOUS
<1> HIDE DEF pick, good, size, iter
<1>9. \A s \in SUBSET S : iter[s] = size[s]
  <2> DEFINE bad == {s \in SUBSET S : iter[s] # size[s]}
  <2> SUFFICES ASSUME bad # {} PROVE FALSE
    OBVIOUS
  <2>1. bad \in SUBSET SUBSET S
    OBVIOUS
  <2>2. \A s \in SUBSET S : s \in bad <=> iter[s] # size[s]
    OBVIOUS
  <2> HIDE DEF bad
  <2>3. PICK s \in bad : \A u \in bad : u \subseteq s => u = s
    BY <2>1, SmallestSubset
  <2>4. s \in SUBSET S /\ s # {}
    BY <1>5, <1>7, <2>1, <2>2
  <2>5. pick(s) \in s /\ s \ {pick(s)} \in SUBSET S
    BY <1>8, <2>4
  <2>6. s \ {pick(s)} \notin bad
    BY <2>3, <2>5
  <2> QED  BY <1>5, <1>6, <2>2, <2>4, <2>5, <2>6
<1> QED  BY <1>1, <1>9 DEF size


\* A total is a number.
LEMMA TotalType ==
  ASSUME NEW S, IsFiniteSet(S), NEW f \in [S -> Nat]
  PROVE  Total(f) \in Nat
<1>1. Total(f) = SumFunctionOnSet(f, S)
  BY DEF Total, SumFunction
<1> QED  BY <1>1, SumIsUnits, UnitsFinite

\* One more at one point is one more in total.
LEMMA TotalBump ==
  ASSUME NEW S, IsFiniteSet(S), NEW f \in [S -> Nat], NEW x \in S
  PROVE  Total(Bump(f, x)) = Total(f) + 1
<1> DEFINE g == Bump(f, x)
           rest == S \ {x}
<1>1. g \in [S -> Nat] /\ g[x] = f[x] + 1 /\ \A y \in rest : g[y] = f[y]
  BY DEF Bump
<1>2. Total(f) = SumFunctionOnSet(f, S) /\ Total(g) = SumFunctionOnSet(g, S)
  BY <1>1 DEF Total, SumFunction
<1> HIDE DEF g
<1>3. Units(g, rest) = Units(f, rest)
  BY <1>1 DEF Units
<1> HIDE DEF rest
<1>4. /\ Total(f) = Cardinality(Units(f, S))
      /\ Total(g) = Cardinality(Units(g, S))
  BY <1>1, <1>2, SumIsUnits
<1>5. /\ Cardinality(Units(f, S)) = f[x] + Cardinality(Units(f, rest))
      /\ Cardinality(Units(g, S)) = g[x] + Cardinality(Units(g, rest))
  BY <1>1, UnitsSplit DEF rest
<1>6. Cardinality(Units(f, rest)) \in Nat
  <2>1. IsFiniteSet(rest) /\ \A y \in rest : f[y] \in Nat
    BY FS_RemoveElement DEF rest
  <2> QED  BY <2>1, UnitsFinite
<1>7. f[x] \in Nat
  OBVIOUS
<1> QED  BY <1>1, <1>3, <1>4, <1>5, <1>6, <1>7 DEF g

\* Nothing anywhere is nothing in total.
LEMMA TotalZero ==
  ASSUME NEW S, IsFiniteSet(S)
  PROVE  Total(Zero(S)) = 0
<1> DEFINE z == Zero(S)
<1>1. z \in [S -> Nat] /\ \A x \in S : z[x] = 0
  BY DEF Zero
<1> HIDE DEF z
<1>2. Total(z) = SumFunctionOnSet(z, S)
  BY <1>1 DEF Total, SumFunction
<1>3. Units(z, S) = {}
  BY <1>1 DEF Units
<1>4. Total(z) = Cardinality(Units(z, S))
  BY <1>1, <1>2, SumIsUnits
<1> QED  BY <1>3, <1>4, FS_EmptySet DEF z

LEMMA FiniteDomains ==
  IsFiniteSet(Pods) /\ IsFiniteSet(Streams) /\ IsFiniteSet(Workers)
<1>1. NPods - 1 \in Int /\ NStreams - 1 \in Int /\ Conns - 1 \in Int
  BY PoolAssumption
<1>2. IsFiniteSet(0 .. NPods - 1) /\ IsFiniteSet(0 .. NStreams - 1)
      /\ IsFiniteSet(0 .. Conns - 1)
  BY <1>1, FS_Interval
<1> QED  BY <1>2, FS_Product DEF Pods, Streams, Workers

-----------------------------------------------------------------------------
(***************************************************************************)
(* What is counted.                                                        *)
(***************************************************************************)
\* An idle worker has no answer to look at; the workers of a pod that has not begun,
\* has returned or has died are idle.
IdleWorkers ==
  \A w \in Workers :
    /\ at[w] = "ready" => reply[w] = "none"
    /\ phase[w[1]] \in {"setup", "done", "dead"} => at[w] = "ready"

\* Only a request that timed out can reach the server behind the client's back.
NoStray ==
  /\ timeouts <= Timeouts
  /\ timeouts = 0 => late = 0 /\ \A s \in Streams : limbo[s] = 0

LEMMA IdleWorkersStep ==
  ASSUME TypeOK, IdleWorkers, [Next]_vars
  PROVE  IdleWorkers'
<1> USE DEF IdleWorkers
<1>1. ASSUME NEW p \in Pods, PodNext(p) PROVE IdleWorkers'
  <2>1. at' = at /\ reply' = reply
    BY <1>1 DEF PodNext, SetupDone, SetupFails, TimePasses, Finish, worker
  <2>2. CASE SetupDone(p) \/ SetupFails(p)
    BY <2>1, <2>2, OwnFacts DEF SetupDone, SetupFails, TypeOK
  <2>3. CASE TimePasses(p)
    <3>1. After[phase[p]] \in {"settle", "measure", "over"}
      BY <2>3 DEF TimePasses, After
    <3> QED  BY <2>1, <2>3, <3>1, OwnFacts DEF TimePasses, TypeOK
  <2>4. CASE Finish(p)
    BY <2>1, <2>4, OwnFacts DEF Finish, TypeOK
  <2> QED  BY <1>1, <2>2, <2>3, <2>4 DEF PodNext
<1>2. ASSUME NEW w \in Workers, Send(w) PROVE IdleWorkers'
  BY <1>2 DEF Send, TypeOK
<1>3. ASSUME NEW w \in Workers, Reacts(w) PROVE IdleWorkers'
  <2>1. /\ phase' = phase /\ reply' = [reply EXCEPT ![w] = "none"]
        /\ at[w] # "ready"
        /\ at' \in {[at EXCEPT ![w] = "ready"], [at EXCEPT ![w] = "retried"]}
    BY <1>3 DEF Reacts, OnSuccess, OnMissingCreates, OnMissingGivesUp, OnBusy,
                OnFailure, OnTimeout, Rest
  <2> QED  BY <2>1 DEF TypeOK
<1>4. ASSUME NEW w \in Workers, ServerNext(w) PROVE IdleWorkers'
  <2>1. at[w] # "ready" /\ UNCHANGED <<phase, at>>
    BY <1>4 DEF ServerNext, ServerAppends, ServerRefuses, Pending
  <2>2. \A v \in Workers : v # w => reply'[v] = reply[v]
    BY <1>4 DEF ServerNext, ServerAppends, ServerRefuses, Answer, TypeOK
  <2> QED  BY <2>1, <2>2
<1>5. CASE (\E s \in Streams : LateArrival(s)) \/ ServerRestarts \/ UNCHANGED vars
  BY <1>5 DEF LateArrival, ServerRestarts, vars, worker
<1> QED  BY <1>1, <1>2, <1>3, <1>4, <1>5 DEF Next

LEMMA NoStrayStep ==
  ASSUME TypeOK, NoStray, [Next]_vars
  PROVE  NoStray'
<1> USE DEF NoStray, TypeOK
<1>1. ASSUME NEW w \in Workers, OnTimeout(w) PROVE NoStray'
  <2>1. timeouts' = timeouts + 1 /\ timeouts < Timeouts
    BY <1>1 DEF OnTimeout
  <2> QED  BY <2>1, PoolAssumption
<1>2. ASSUME NEW s \in Streams, LateArrival(s) PROVE NoStray'
  <2>1. timeouts' = timeouts /\ limbo[s] > 0
    BY <1>2 DEF LateArrival
  <2> QED  BY <2>1
<1>3. ASSUME UNCHANGED <<timeouts, late, limbo>> PROVE NoStray'
  BY <1>3
<1>4. ASSUME NEW p \in Pods, PodNext(p) PROVE NoStray'
  BY <1>3, <1>4 DEF PodNext, SetupDone, SetupFails, TimePasses, Finish, server, history
<1>5. ASSUME NEW w \in Workers, Send(w) \/ ServerNext(w) PROVE NoStray'
  BY <1>3, <1>5 DEF Send, ServerNext, ServerAppends, ServerRefuses, server, history
<1>6. ASSUME NEW w \in Workers, Reacts(w), ~OnTimeout(w) PROVE NoStray'
  BY <1>3, <1>6 DEF Reacts, OnSuccess, OnMissingCreates, OnMissingGivesUp, OnBusy,
                    OnFailure, server, history
<1>7. CASE ServerRestarts \/ UNCHANGED vars
  BY <1>3, <1>7 DEF ServerRestarts, vars, server, history
<1> QED  BY <1>1, <1>2, <1>4, <1>5, <1>6, <1>7 DEF Next

\* Workers that have yet to see an acknowledgement.
Acked == {w \in Workers : reply[w] = "success"}

LEMMA AckedFacts ==
  /\ IsFiniteSet(Acked) /\ Cardinality(Acked) \in Nat
  /\ Unheard = Cardinality(Acked)
<1>1. Acked \in SUBSET Workers
  BY DEF Acked
<1>2. IsFiniteSet(Acked)
  BY <1>1, FiniteDomains, FS_Subset
<1> QED  BY <1>2, FS_CardinalityType DEF Unheard, Acked

\* Each append is counted once on either side: the server's total moves with the
\* client's or with the set of unseen acknowledgements.
LEMMA MatchStep ==
  ASSUME TypeOK, ServerMatchesClients, [Next]_vars
  PROVE  ServerMatchesClients'
<1> SUFFICES ASSUME restarts' = 0
             PROVE  Total(records') = Total(okAll') + Cardinality(Acked') + late'
  <2>1. Unheard' = Cardinality(Acked')
    BY DEF Unheard, Acked
  <2> QED  BY <2>1 DEF ServerMatchesClients
<1>0. /\ restarts \in Nat /\ late \in Nat
      /\ records \in [Streams -> Nat] /\ okAll \in [Pods -> Nat]
      /\ IsFiniteSet(Streams) /\ IsFiniteSet(Pods)
  BY FiniteDomains DEF TypeOK
<1>1. /\ Total(records) \in Nat /\ Total(okAll) \in Nat /\ Cardinality(Acked) \in Nat
      /\ restarts = 0 => Total(records) = Total(okAll) + Cardinality(Acked) + late
  BY <1>0, TotalType, AckedFacts DEF ServerMatchesClients
<1>2. ASSUME UNCHANGED <<records, okAll, late, restarts>>, Acked' = Acked
      PROVE  Total(records') = Total(okAll') + Cardinality(Acked') + late'
  BY <1>1, <1>2
<1>3. ASSUME NEW w \in Workers, ServerAppends(w)
      PROVE  Total(records') = Total(okAll') + Cardinality(Acked') + late'
  <2>1. Total(records') = Total(records) + 1
    <3>1. records' = Bump(records, target[w]) /\ target[w] \in Streams
      BY <1>3 DEF ServerAppends, TypeOK
    <3> QED  BY <1>0, <3>1, TotalBump
  <2>2. Acked' = Acked \cup {w} /\ w \notin Acked
    BY <1>3 DEF ServerAppends, Pending, Answer, Acked, TypeOK
  <2>3. Cardinality(Acked') = Cardinality(Acked) + 1
    BY <2>2, AckedFacts, FS_AddElement
  <2>4. UNCHANGED <<okAll, late, restarts>>
    BY <1>3 DEF ServerAppends, counters, history
  <2> QED  BY <1>0, <1>1, <2>1, <2>3, <2>4
<1>4. ASSUME NEW w \in Workers, OnSuccess(w)
      PROVE  Total(records') = Total(okAll') + Cardinality(Acked') + late'
  <2>1. Total(okAll') = Total(okAll) + 1
    <3>1. okAll' = Bump(okAll, w[1]) /\ w[1] \in Pods
      BY <1>4, OwnFacts DEF OnSuccess
    <3> QED  BY <1>0, <3>1, TotalBump
  <2>2. Acked' = Acked \ {w} /\ w \in Acked
    BY <1>4 DEF OnSuccess, Rest, Acked, TypeOK
  <2>3. Cardinality(Acked') = Cardinality(Acked) - 1
    BY <2>2, AckedFacts, FS_RemoveElement
  <2>4. UNCHANGED <<records, late, restarts>>
    BY <1>4 DEF OnSuccess, server, history
  <2> QED  BY <1>0, <1>1, <2>1, <2>3, <2>4
<1>5. ASSUME NEW s \in Streams, LateArrival(s)
      PROVE  Total(records') = Total(okAll') + Cardinality(Acked') + late'
  <2>1. Acked' = Acked /\ UNCHANGED <<okAll, restarts>>
    BY <1>5 DEF LateArrival, Acked, worker, counters
  <2>2. CASE UNCHANGED <<records, late>>
    BY <1>2, <2>1, <2>2
  <2>3. CASE records' = Bump(records, s) /\ late' = late + 1
    <3>1. Total(records') = Total(records) + 1
      BY <1>0, <2>3, TotalBump
    <3> QED  BY <1>0, <1>1, <2>1, <2>3, <3>1
  <2> QED  BY <1>5, <2>2, <2>3 DEF LateArrival
<1>6. CASE ServerRestarts
  BY <1>0, <1>6 DEF ServerRestarts
<1>7. ASSUME NEW p \in Pods, PodNext(p)
      PROVE  Total(records') = Total(okAll') + Cardinality(Acked') + late'
  <2>1. UNCHANGED <<records, okAll, late, restarts, reply>>
    BY <1>7 DEF PodNext, SetupDone, SetupFails, TimePasses, Finish, worker, counters,
                server, history
  <2> QED  BY <1>2, <2>1 DEF Acked
<1>8. ASSUME NEW w \in Workers, Send(w)
      PROVE  Total(records') = Total(okAll') + Cardinality(Acked') + late'
  <2>1. UNCHANGED <<records, okAll, late, restarts, reply>>
    BY <1>8 DEF Send, counters, server
  <2> QED  BY <1>2, <2>1 DEF Acked
<1>9. ASSUME NEW w \in Workers, ServerRefuses(w)
      PROVE  Total(records') = Total(okAll') + Cardinality(Acked') + late'
  <2>1. UNCHANGED <<records, okAll, late, restarts>>
    BY <1>9 DEF ServerRefuses, counters, server, history
  <2>2. Acked' = Acked
    BY <1>9 DEF ServerRefuses, Pending, Answer, Acked, TypeOK
  <2> QED  BY <1>2, <2>1, <2>2
<1>10. ASSUME NEW w \in Workers, Reacts(w), ~OnSuccess(w)
       PROVE  Total(records') = Total(okAll') + Cardinality(Acked') + late'
  <2>1. UNCHANGED <<records, okAll, late, restarts>>
    BY <1>10 DEF Reacts, OnMissingCreates, OnMissingGivesUp, OnBusy, OnFailure,
                 OnTimeout, server, history
  <2>2. reply[w] # "success" /\ reply' = [reply EXCEPT ![w] = "none"]
    BY <1>10 DEF Reacts, OnMissingCreates, OnMissingGivesUp, OnBusy, OnFailure,
                 OnTimeout, Rest
  <2>3. Acked' = Acked
    BY <2>2 DEF Acked, TypeOK
  <2> QED  BY <1>2, <2>1, <2>3
<1>11. CASE UNCHANGED vars
  <2>1. UNCHANGED <<records, okAll, late, restarts, reply>>
    BY <1>11 DEF vars, worker, counters, server, history
  <2> QED  BY <1>2, <2>1 DEF Acked
<1> QED  BY <1>3, <1>4, <1>5, <1>6, <1>7, <1>8, <1>9, <1>10, <1>11
         DEF Next, ServerNext

\* The workers of a pod with a counted append under way.
UnderWay(p) == {w \in Workers : w[1] = p /\ at[w] # "ready" /\ counting[w]}

LEMMA UnderWayFacts ==
  ASSUME NEW p
  PROVE  IsFiniteSet(UnderWay(p)) /\ Cardinality(UnderWay(p)) \in Nat
<1>1. UnderWay(p) \in SUBSET Workers
  BY DEF UnderWay
<1> QED  BY <1>1, FiniteDomains, FS_Subset, FS_CardinalityType

\* A worker that stops counting leaves the set of its pod and is counted once instead;
\* no other pod's books change.
LEMMA Accounts ==
  ASSUME TypeOK, MeasuredAccounted, NEW w \in Workers, at[w] # "ready",
         at' = [at EXCEPT ![w] = "ready"], UNCHANGED <<counting, measured>>,
         \/ ok' = Counted(w, ok) /\ UNCHANGED <<bp, err>>
         \/ bp' = Counted(w, bp) /\ UNCHANGED <<ok, err>>
         \/ err' = Counted(w, err) /\ UNCHANGED <<ok, bp>>
  PROVE  MeasuredAccounted'
<1> SUFFICES ASSUME NEW p \in Pods
             PROVE  measured'[p] = ok'[p] + bp'[p] + err'[p] + Cardinality(UnderWay(p)')
  BY DEF MeasuredAccounted, UnderWay
<1>1. /\ measured[p] = ok[p] + bp[p] + err[p] + Cardinality(UnderWay(p))
      /\ measured[p] \in Nat /\ ok[p] \in Nat /\ bp[p] \in Nat /\ err[p] \in Nat
      /\ measured'[p] = measured[p]
  BY DEF MeasuredAccounted, UnderWay, TypeOK
<1>2. IsFiniteSet(UnderWay(p)) /\ Cardinality(UnderWay(p)) \in Nat
  BY UnderWayFacts
<1>3. CASE w[1] = p /\ counting[w]
  <2>1. UnderWay(p)' = UnderWay(p) \ {w} /\ w \in UnderWay(p)
    BY <1>3 DEF UnderWay, TypeOK
  <2>2. Cardinality(UnderWay(p)') = Cardinality(UnderWay(p)) - 1
    BY <1>2, <2>1, FS_RemoveElement
  <2>3. \/ ok'[p] = ok[p] + 1 /\ bp'[p] = bp[p] /\ err'[p] = err[p]
        \/ ok'[p] = ok[p] /\ bp'[p] = bp[p] + 1 /\ err'[p] = err[p]
        \/ ok'[p] = ok[p] /\ bp'[p] = bp[p] /\ err'[p] = err[p] + 1
    BY <1>3 DEF Counted, Bump, TypeOK
  <2> DEFINE u == Cardinality(UnderWay(p))
  <2>4. u \in Nat /\ measured'[p] = ok[p] + bp[p] + err[p] + u
    BY <1>1, <1>2
  <2> HIDE DEF u
  <2>5. measured'[p] = ok'[p] + bp'[p] + err'[p] + (u - 1)
    <3>1. CASE ok'[p] = ok[p] + 1 /\ bp'[p] = bp[p] /\ err'[p] = err[p]
      BY <1>1, <2>4, <3>1
    <3>2. CASE ok'[p] = ok[p] /\ bp'[p] = bp[p] + 1 /\ err'[p] = err[p]
      BY <1>1, <2>4, <3>2
    <3>3. CASE ok'[p] = ok[p] /\ bp'[p] = bp[p] /\ err'[p] = err[p] + 1
      BY <1>1, <2>4, <3>3
    <3> QED  BY <2>3, <3>1, <3>2, <3>3
  <2> QED  BY <2>2, <2>5 DEF u
<1>4. CASE ~(w[1] = p /\ counting[w])
  <2>1. UnderWay(p)' = UnderWay(p)
    BY <1>4 DEF UnderWay, TypeOK
  <2>2. ok'[p] = ok[p] /\ bp'[p] = bp[p] /\ err'[p] = err[p]
    BY <1>4 DEF Counted, Bump, TypeOK
  <2> QED  BY <1>1, <2>1, <2>2
<1> QED  BY <1>3, <1>4

LEMMA MeasuredStep ==
  ASSUME TypeOK, IdleWorkers, MeasuredAccounted, [Next]_vars
  PROVE  MeasuredAccounted'
<1>1. ASSUME UNCHANGED <<measured, ok, bp, err>>, \A p \in Pods : UnderWay(p)' = UnderWay(p)
      PROVE  MeasuredAccounted'
  BY <1>1 DEF MeasuredAccounted, UnderWay
<1>2. ASSUME NEW w \in Workers, Send(w), phase[w[1]] = "measure"
      PROVE  MeasuredAccounted'
  <2> SUFFICES ASSUME NEW p \in Pods
               PROVE  measured'[p] = ok'[p] + bp'[p] + err'[p] + Cardinality(UnderWay(p)')
    BY DEF MeasuredAccounted, UnderWay
  <2>1. /\ measured[p] = ok[p] + bp[p] + err[p] + Cardinality(UnderWay(p))
        /\ measured[p] \in Nat /\ ok[p] \in Nat /\ bp[p] \in Nat /\ err[p] \in Nat
        /\ UNCHANGED <<ok, bp, err>>
    BY <1>2 DEF MeasuredAccounted, UnderWay, TypeOK, Send, counters
  <2>2. /\ at[w] = "ready" /\ at' = [at EXCEPT ![w] = "sent"]
        /\ counting' = [counting EXCEPT ![w] = TRUE]
        /\ measured' = Bump(measured, w[1])
    BY <1>2 DEF Send
  <2>3. IsFiniteSet(UnderWay(p)) /\ Cardinality(UnderWay(p)) \in Nat
    BY UnderWayFacts
  <2>4. CASE w[1] = p
    <3>1. UnderWay(p)' = UnderWay(p) \cup {w} /\ w \notin UnderWay(p)
      BY <2>2, <2>4 DEF UnderWay, TypeOK
    <3>2. Cardinality(UnderWay(p)') = Cardinality(UnderWay(p)) + 1
      BY <2>3, <3>1, FS_AddElement
    <3>3. measured'[p] = measured[p] + 1
      BY <2>2, <2>4 DEF Bump, TypeOK
    <3> QED  BY <2>1, <2>3, <3>2, <3>3
  <2>5. CASE w[1] # p
    <3>1. UnderWay(p)' = UnderWay(p)
      BY <2>2, <2>5 DEF UnderWay, TypeOK
    <3>2. measured'[p] = measured[p]
      BY <2>2, <2>5 DEF Bump, TypeOK
    <3> QED  BY <2>1, <3>1, <3>2
  <2> QED  BY <2>4, <2>5
<1>3. ASSUME NEW w \in Workers, Send(w), phase[w[1]] # "measure"
      PROVE  MeasuredAccounted'
  <2>1. /\ at[w] = "ready" /\ at' = [at EXCEPT ![w] = "sent"]
        /\ counting' = [counting EXCEPT ![w] = FALSE]
        /\ UNCHANGED <<measured, ok, bp, err>>
    BY <1>3 DEF Send, counters
  <2>2. \A p \in Pods : UnderWay(p)' = UnderWay(p)
    BY <2>1 DEF UnderWay, TypeOK
  <2> QED  BY <1>1, <2>1, <2>2
<1>4. ASSUME NEW w \in Workers,
             OnSuccess(w) \/ OnMissingGivesUp(w) \/ OnBusy(w) \/ OnFailure(w) \/ OnTimeout(w)
      PROVE  MeasuredAccounted'
  <2>1. /\ at[w] # "ready" /\ at' = [at EXCEPT ![w] = "ready"]
        /\ UNCHANGED <<counting, measured>>
    BY <1>4 DEF OnSuccess, OnMissingGivesUp, OnBusy, OnFailure, OnTimeout, Rest,
                IdleWorkers, history
  <2>2. \/ ok' = Counted(w, ok) /\ UNCHANGED <<bp, err>>
        \/ bp' = Counted(w, bp) /\ UNCHANGED <<ok, err>>
        \/ err' = Counted(w, err) /\ UNCHANGED <<ok, bp>>
    BY <1>4 DEF OnSuccess, OnMissingGivesUp, OnBusy, OnFailure, OnTimeout
  <2> QED  BY <2>1, <2>2, Accounts
<1>5. ASSUME NEW w \in Workers, OnMissingCreates(w) PROVE MeasuredAccounted'
  <2>1. /\ at[w] = "sent" /\ at' = [at EXCEPT ![w] = "retried"]
        /\ UNCHANGED <<counting, measured, ok, bp, err>>
    BY <1>5 DEF OnMissingCreates, history
  <2>2. \A p \in Pods : UnderWay(p)' = UnderWay(p)
    BY <2>1 DEF UnderWay, TypeOK
  <2> QED  BY <1>1, <2>1, <2>2
<1>6. ASSUME UNCHANGED <<at, counting, measured, ok, bp, err>> PROVE MeasuredAccounted'
  BY <1>1, <1>6 DEF UnderWay
<1>7. ASSUME NEW p \in Pods, PodNext(p) PROVE MeasuredAccounted'
  BY <1>6, <1>7 DEF PodNext, SetupDone, SetupFails, TimePasses, Finish, worker,
                    counters, history
<1>8. ASSUME NEW w \in Workers, ServerNext(w) PROVE MeasuredAccounted'
  BY <1>6, <1>8 DEF ServerNext, ServerAppends, ServerRefuses, counters, history
<1>9. CASE (\E s \in Streams : LateArrival(s)) \/ ServerRestarts \/ UNCHANGED vars
  BY <1>6, <1>9 DEF LateArrival, ServerRestarts, vars, worker, counters, history
<1> QED  BY <1>2, <1>3, <1>4, <1>5, <1>7, <1>8, <1>9 DEF Next, Reacts

\* Where the cursor of a worker starts, and which positions come before another in a
\* lap from there.
Start(w)         == WorkerPhase(PodOf(w[1]), Conns, w[2]) % Span(Own(w))
Before(i, j, st) == IF i < st THEN j < st /\ i < j ELSE j < st \/ i < j

\* The positions the cursor has passed in this lap have one append more than the
\* others.
RoundRobin(w) ==
  /\ \E laps \in Nat : \A i \in 0 .. Span(Own(w)) - 1 :
       hits[w][Own(w).lo + i] = laps + (IF Before(i, rr[w], Start(w)) THEN 1 ELSE 0)
  /\ \A s \in Streams \ (Own(w).lo .. Own(w).lo + Span(Own(w)) - 1) : hits[w][s] = 0

EvenHits == \A w \in Workers : RoundRobin(w)

\* The cursor's next position, and what it leaves behind.
LEMMA CursorMoves ==
  ASSUME NEW n \in Nat \ {0}, NEW st \in 0 .. n - 1, NEW r \in 0 .. n - 1
  PROVE  /\ ~Before(r, r, st)
         /\ (r + 1) % n = (IF r + 1 = n THEN 0 ELSE r + 1)
         /\ (r + 1) % n = st => \A i \in 0 .. n - 1 : ~Before(i, (r + 1) % n, st)
         /\ (r + 1) % n = st => \A i \in 0 .. n - 1 : Before(i, r, st) \/ i = r
         /\ (r + 1) % n # st => \A i \in 0 .. n - 1 :
              Before(i, (r + 1) % n, st) <=> Before(i, r, st) \/ i = r
<1>1. (r + 1) % n = (IF r + 1 = n THEN 0 ELSE r + 1)
  OBVIOUS
<1> QED  BY <1>1 DEF Before

LEMMA EvenStep ==
  ASSUME TypeOK, OwnTargets, EvenHits, [Next]_vars
  PROVE  EvenHits'
<1>1. ASSUME UNCHANGED <<hits, rr>> PROVE EvenHits'
  BY <1>1 DEF EvenHits, RoundRobin
<1>2. ASSUME NEW w \in Workers, Send(w) PROVE EvenHits'
  <2> DEFINE lo == Own(w).lo
             n  == Span(Own(w))
             st == Start(w)
             r  == rr[w]
             h  == hits[w]
             k  == hits'[w]
  <2>1. /\ n \in Nat \ {0} /\ lo \in Nat /\ lo + n <= NStreams
        /\ r \in 0 .. n - 1 /\ NStreams \in Nat
    BY SpanFacts, PoolAssumption DEF OwnTargets, TypeOK
  <2>2. st \in 0 .. n - 1
    <3>1. WorkerPhase(PodOf(w[1]), Conns, w[2]) \in Nat
      BY OwnFacts DEF WorkerPhase
    <3> QED  BY <2>1, <3>1, ModRange DEF Start
  <2>3. /\ h \in [Streams -> Nat]
        /\ \A s \in Streams : k[s] = IF s = lo + r THEN h[s] + 1 ELSE h[s]
        /\ rr'[w] = (r + 1) % n
        /\ \A v \in Workers : v # w => hits'[v] = hits[v] /\ rr'[v] = rr[v]
    BY <1>2 DEF Send, Bump, TypeOK
  <2>4. /\ \A i \in 0 .. n - 1 : lo + i \in Streams
        /\ \A i \in 0 .. n - 1 : lo + i = lo + r <=> i = r
    BY <2>1 DEF Streams
  <2>5. PICK laps \in Nat : \A i \in 0 .. n - 1 :
          h[lo + i] = laps + (IF Before(i, r, st) THEN 1 ELSE 0)
    BY DEF EvenHits, RoundRobin
  <2>6. \A s \in Streams \ (lo .. lo + n - 1) : h[s] = 0
    BY DEF EvenHits, RoundRobin
  <2> DEFINE q == (r + 1) % n
  <2>7. /\ ~Before(r, r, st)
        /\ q = st => \A i \in 0 .. n - 1 : ~Before(i, q, st)
        /\ q = st => \A i \in 0 .. n - 1 : Before(i, r, st) \/ i = r
        /\ q # st => \A i \in 0 .. n - 1 : Before(i, q, st) <=> Before(i, r, st) \/ i = r
    BY <2>1, <2>2, CursorMoves
  <2>8. \A s \in Streams \ (lo .. lo + n - 1) : k[s] = 0
    BY <2>1, <2>3, <2>6
  <2> HIDE DEF lo, n, st, r, h, k, q
  <2>9. \A i \in 0 .. n - 1 : k[lo + i] = IF i = r THEN h[lo + i] + 1 ELSE h[lo + i]
    BY <2>3, <2>4
  <2>10. \E l \in Nat : \A i \in 0 .. n - 1 :
           k[lo + i] = l + (IF Before(i, q, st) THEN 1 ELSE 0)
    <3>1. CASE q = st
      <4>1. \A i \in 0 .. n - 1 : k[lo + i] = laps + 1
        BY <2>1, <2>5, <2>7, <2>9, <3>1
      <4>2. laps + 1 \in Nat
        BY <2>5
      <4> QED  BY <2>7, <3>1, <4>1, <4>2
    <3>2. CASE q # st
      <4>1. \A i \in 0 .. n - 1 :
              k[lo + i] = laps + (IF Before(i, q, st) THEN 1 ELSE 0)
        BY <2>5, <2>7, <2>9, <3>2
      <4> QED  BY <2>5, <4>1
    <3> QED  BY <3>1, <3>2
  <2>11. RoundRobin(w)'
    BY <2>3, <2>8, <2>10 DEF RoundRobin, lo, n, st, k, q, r
  <2> QED  BY <2>3, <2>11 DEF EvenHits, RoundRobin
<1>3. ASSUME NEW p \in Pods, PodNext(p) PROVE EvenHits'
  BY <1>1, <1>3 DEF PodNext, SetupDone, SetupFails, TimePasses, Finish, worker, history
<1>4. ASSUME NEW w \in Workers, Reacts(w) PROVE EvenHits'
  BY <1>1, <1>4 DEF Reacts, OnSuccess, OnMissingCreates, OnMissingGivesUp, OnBusy,
                    OnFailure, OnTimeout, history
<1>5. ASSUME NEW w \in Workers, ServerNext(w) PROVE EvenHits'
  BY <1>1, <1>5 DEF ServerNext, ServerAppends, ServerRefuses, history
<1>6. CASE (\E s \in Streams : LateArrival(s)) \/ ServerRestarts \/ UNCHANGED vars
  BY <1>1, <1>6 DEF LateArrival, ServerRestarts, vars, worker, history
<1> QED  BY <1>2, <1>3, <1>4, <1>5, <1>6 DEF Next

CountInv ==
  /\ IInv
  /\ IdleWorkers /\ NoStray /\ ServerMatchesClients /\ MeasuredAccounted /\ EvenHits

LEMMA CountInit == Init => CountInv
<1> SUFFICES ASSUME Init PROVE CountInv
  OBVIOUS
<1>1. IInv
  BY InitIInv
<1>2. IdleWorkers
  BY DEF Init, IdleWorkers
<1>3. NoStray
  BY PoolAssumption DEF Init, NoStray, Zero
<1>4. ServerMatchesClients
  <2>1. Total(records) = 0 /\ Total(okAll) = 0
    BY FiniteDomains, TotalZero DEF Init
  <2>2. Acked = {}
    BY DEF Init, Acked
  <2>3. Unheard = 0
    BY <2>2, AckedFacts, FS_EmptySet
  <2> QED  BY <2>1, <2>3 DEF Init, ServerMatchesClients
<1>5. MeasuredAccounted
  <2> SUFFICES ASSUME NEW p \in Pods
               PROVE  measured[p] = ok[p] + bp[p] + err[p] + Cardinality(UnderWay(p))
    BY DEF MeasuredAccounted, UnderWay
  <2>1. UnderWay(p) = {}
    BY DEF Init, UnderWay
  <2>2. measured[p] = 0 /\ ok[p] = 0 /\ bp[p] = 0 /\ err[p] = 0
    BY DEF Init, Zero
  <2> QED  BY <2>1, <2>2, FS_EmptySet
<1>6. EvenHits
  <2> SUFFICES ASSUME NEW w \in Workers PROVE RoundRobin(w)
    BY DEF EvenHits
  <2>1. rr[w] = Start(w) /\ \A s \in Streams : hits[w][s] = 0
    BY DEF Init, Start, Zero
  <2>2. Span(Own(w)) \in Nat \ {0} /\ Own(w).lo \in Nat /\ Own(w).lo + Span(Own(w)) <= NStreams
    BY SpanFacts
  <2>3. Start(w) \in 0 .. Span(Own(w)) - 1
    BY <2>1, <2>2, <1>1 DEF OwnTargets, TypeOK
  <2>4. \A i \in 0 .. Span(Own(w)) - 1 : ~Before(i, Start(w), Start(w))
    BY <2>2, <2>3 DEF Before
  <2>5. \A i \in 0 .. Span(Own(w)) - 1 : Own(w).lo + i \in Streams
    BY <2>2, PoolAssumption DEF Streams
  <2>6. \A i \in 0 .. Span(Own(w)) - 1 :
          hits[w][Own(w).lo + i] = 0 + (IF Before(i, rr[w], Start(w)) THEN 1 ELSE 0)
    BY <2>1, <2>4, <2>5
  <2> QED  BY <2>1, <2>6 DEF RoundRobin
<1> QED  BY <1>1, <1>2, <1>3, <1>4, <1>5, <1>6 DEF CountInv

\* What the counts rest on holds of every step, for every pool.
THEOREM CountInvariant == Spec => []CountInv
<1>1. CountInv /\ [Next]_vars => CountInv'
  BY StepIInv, IdleWorkersStep, NoStrayStep, MatchStep, MeasuredStep, EvenStep
     DEF CountInv
<1> QED  BY <1>1, CountInit, PTL DEF Spec

\* For every pool, every interleaving of its workers with the server and every run of
\* timeouts, refusals and creates, a server that keeps its state holds what the clients
\* counted, plus what they have yet to hear of, plus what arrived after they gave up: no
\* path of pool_worker counts an append twice or drops an acknowledged one.
THEOREM ServerMatches == Spec => []ServerMatchesClients
<1>1. CountInv => ServerMatchesClients
  BY DEF CountInv
<1> QED  BY <1>1, CountInvariant, PTL

\* For every pool, each append of a measure window ends as one success, one backpressure
\* or one error of the pod that started it, and no other append does.
THEOREM EachMeasuredOnce == Spec => []MeasuredAccounted
<1>1. CountInv => MeasuredAccounted
  BY DEF CountInv
<1> QED  BY <1>1, CountInvariant, PTL

\* "every key is covered evenly" (multi_stream.rs 62), for every domain, number of pods
\* and of workers with a stream for every pod, whatever a worker's start: a lap of the
\* cursor takes every stream of the slice once.
THEOREM CoversEvenly == Spec => []EvenCoverage
<1>1. ASSUME CountInv PROVE EvenCoverage
  <2> SUFFICES ASSUME NStreams >= NPods, NEW w \in Workers, NEW s \in Streams, NEW t \in Streams
               PROVE  IF s \in Keys(Own(w)) /\ t \in Keys(Own(w))
                        THEN hits[w][s] - hits[w][t] <= 1
                        ELSE s \notin Keys(Own(w)) => hits[w][s] = 0
    BY DEF EvenCoverage
  <2> DEFINE lo == Own(w).lo
             n  == Span(Own(w))
  <2>1. Size(PodOf(w[1])) >= 1
    BY OwnFacts, PodSliceFacts, NoPartIsEmpty
  <2>2. IsSlice(Own(w)) /\ Size(Own(w)) >= 1
    BY <2>1, OwnFacts
  <2>3. /\ n \in Nat \ {0} /\ lo \in Nat
        /\ Keys(Own(w)) = lo .. lo + n - 1
    BY <2>2 DEF Span, AtLeastOne, Size, IsSlice, Keys
  <2>4. PICK laps \in Nat : \A i \in 0 .. n - 1 :
          hits[w][lo + i] = laps + (IF Before(i, rr[w], Start(w)) THEN 1 ELSE 0)
    BY <1>1 DEF CountInv, EvenHits, RoundRobin
  <2>5. \A x \in Streams \ (lo .. lo + n - 1) : hits[w][x] = 0
    BY <1>1 DEF CountInv, EvenHits, RoundRobin
  <2> HIDE DEF lo, n
  <2>6. ASSUME NEW x \in lo .. lo + n - 1 PROVE hits[w][x] \in {laps, laps + 1}
    <3>1. x - lo \in 0 .. n - 1 /\ lo + (x - lo) = x
      BY <2>3
    <3> QED  BY <2>4, <3>1
  <2> QED  BY <2>3, <2>4, <2>5, <2>6
<1> QED  BY <1>1, CountInvariant, PTL

\* Without timeouts the server's record count does "equal the fleet's summed
\* client-observed successes" (verify.rs 4-6) once every pod has returned: for every
\* pool whose server keeps its state, a request that timed out is the only thing that can
\* make them differ.
THEOREM ExactWithoutTimeouts ==
  ASSUME Timeouts = 0
  PROVE  Spec => []VerifyExact
<1>1. ASSUME CountInv PROVE VerifyExact
  <2> SUFFICES ASSUME \A p \in Pods : phase[p] = "done", restarts = 0
               PROVE  Total(records) = Total(okAll)
    BY DEF VerifyExact
  <2>1. late = 0
    BY <1>1 DEF CountInv, NoStray, TypeOK
  <2>2. \A w \in Workers : reply[w] = "none"
    BY <1>1, OwnFacts DEF CountInv, IdleWorkers
  <2>3. Acked = {}
    BY <2>2 DEF Acked
  <2>4. Unheard = 0
    BY <2>3, AckedFacts, FS_EmptySet
  <2>5. Total(records) = Total(okAll) + 0 + 0
    BY <1>1, <2>1, <2>4 DEF CountInv, ServerMatchesClients
  <2>6. Total(okAll) \in Nat
    BY <1>1, FiniteDomains, TotalType DEF CountInv, TypeOK
  <2> QED  BY <2>5, <2>6
<1> QED  BY <1>1, CountInvariant, PTL
=============================================================================
