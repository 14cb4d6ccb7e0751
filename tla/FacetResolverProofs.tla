------------------------- MODULE FacetResolverProofs -------------------------
(***************************************************************************)
(* What FacetResolver keeps for every set of titles, plugins and facets,   *)
(* every size of the gate and of its queue: a document and a collection    *)
(* are fetched once at a time, a call always waits for a document in       *)
(* flight, the gate lets no more through than it has slots, and what a     *)
(* page draws stays drawn.                                                 *)
(***************************************************************************)
EXTENDS FacetResolver, SumsProofs, SequenceTheorems

Everyone == Documents \cup Others

LEMMA EveryoneIsFinite == IsFiniteSet(Everyone)
BY FacetsAssumption, FS_Product, FS_Union DEF FacetsAssumption, Everyone, Documents

LEMMA KeyHasDocument == \A k \in Keys : DocumentOf(k) \in Documents
BY DEF Keys, Providers, DocumentOf, Documents

-----------------------------------------------------------------------------
(* The gate.                                                               *)

GateTypes ==
    /\ sent \in [Everyone -> Nat]
    /\ queue \in Seq(Everyone)

\* The gate runs at most Slots fetches, lets at most QueueLimit wait, and lets
\* nobody wait while a slot is free.
GateKept ==
    /\ Executing <= Slots
    /\ Len(queue) <= QueueLimit
    /\ queue # <<>> => Executing = Slots

Nowhere(q, d) == \A i \in 1 .. Len(q) : q[i] # d
Once(q, d) == \E i \in 1 .. Len(q) : q[i] = d /\ \A j \in 1 .. Len(q) : q[j] = d => j = i

LEMMA ExecutingIsNat ==
    ASSUME GateTypes
    PROVE  Executing \in Nat
BY EveryoneIsFinite, TotalIsNat DEF GateTypes, Executing

LEMMA LesserOfTwo ==
    ASSUME NEW a \in Int, NEW b \in Int
    PROVE  Min({a, b}) = IF a <= b THEN a ELSE b
<1> DEFINE m == IF a <= b THEN a ELSE b
<1>1. m \in {a, b} /\ \A y \in {a, b} : m <= y
  OBVIOUS
<1>2. \A x \in {a, b} : (\A y \in {a, b} : x <= y) => x = m
  OBVIOUS
<1> QED
  BY <1>1, <1>2 DEF Min

\* How often a document stands in the queue, as the property counts it.
LEMMA InLineCounts ==
    ASSUME GateTypes, NEW d
    PROVE  /\ InLine(d) \in Nat
           /\ InLine(d) = 0 <=> Nowhere(queue, d)
           /\ InLine(d) = 1 <=> Once(queue, d)
<1> DEFINE places == {i \in DOMAIN queue : queue[i] = d}
<1>1. DOMAIN queue = 1 .. Len(queue) /\ Len(queue) \in Nat
  BY LenProperties DEF GateTypes
<1>2. IsFiniteSet(places) /\ Cardinality(places) \in Nat
  <2>1. IsFiniteSet(1 .. Len(queue))
    BY <1>1, FS_Interval
  <2>2. places \in SUBSET (1 .. Len(queue))
    BY <1>1
  <2> QED
    BY <2>1, <2>2, FS_Subset, FS_CardinalityType
<1>3. places = {} <=> Nowhere(queue, d)
  BY <1>1 DEF Nowhere
<1>4. (\E i : places = {i}) <=> Once(queue, d)
  <2>1. ASSUME NEW i, places = {i}
        PROVE  Once(queue, d)
    BY <1>1, <2>1 DEF Once
  <2>2. ASSUME Once(queue, d)
        PROVE  \E i : places = {i}
    <3>1. PICK i \in 1 .. Len(queue) : queue[i] = d /\ \A j \in 1 .. Len(queue) : queue[j] = d => j = i
      BY <2>2 DEF Once
    <3>2. places = {i}
      BY <1>1, <3>1
    <3> QED
      BY <3>2
  <2> QED
    BY <2>1, <2>2
<1>5. InLine(d) = Cardinality(places)
  BY DEF InLine
<1> HIDE DEF places
<1> QED
  BY <1>2, <1>3, <1>4, <1>5, FS_EmptySet, FS_Singleton

\* One value more for each member of a set.
LEMMA TotalWithOnes ==
    ASSUME NEW S, IsFiniteSet(S), NEW f \in [S -> Nat], NEW A \in SUBSET S
    PROVE  Total([d \in S |-> IF d \in A THEN f[d] + 1 ELSE f[d]]) = Total(f) + Cardinality(A)
<1> DEFINE more == [d \in S |-> IF d \in A THEN f[d] + 1 ELSE f[d]]
           ones == [d \in S |-> IF d \in A THEN 1 ELSE 0]
<1>1. /\ more \in [S -> Int] /\ ones \in [S -> Int] /\ f \in [S -> Int]
      /\ \A d \in S : more[d] = f[d] + ones[d]
  OBVIOUS
<1>2. Total(ones) = Cardinality(A)
  BY TotalOfMembers
<1> HIDE DEF more, ones
<1>3. Total(more) = Total(f) + Total(ones)
  BY <1>1, TotalOfSums
<1> QED
  BY <1>2, <1>3 DEF more

\* As many as start are started, though nobody twice.
LEMMA StartedCount ==
    ASSUME NEW ds \in Seq(Everyone), NEW n \in 0 .. Len(ds),
           \A i, j \in 1 .. Len(ds) : ds[i] = ds[j] => i = j
    PROVE  /\ {ds[i] : i \in 1 .. n} \in SUBSET Everyone
           /\ Cardinality({ds[i] : i \in 1 .. n}) = n
<1> DEFINE start == {ds[i] : i \in 1 .. n}
           b == [i \in 1 .. n |-> ds[i]]
<1>1. Len(ds) \in Nat /\ ds \in [1 .. Len(ds) -> Everyone] /\ n \in Nat
  BY LenProperties
<1>2. b \in Bijection(1 .. n, start)
  BY <1>1 DEF Bijection, Injection, Surjection, IsInjective
<1>3. IsFiniteSet(1 .. n) /\ Cardinality(1 .. n) = n
  BY <1>1, FS_Interval
<1>4. ExistsBijection(1 .. n, start)
  BY <1>2 DEF ExistsBijection
<1>5. Cardinality(start) = n
  BY <1>3, <1>4, FS_Bijection
<1> QED
  BY <1>1, <1>5

LEMMA EnteringDoes ==
    ASSUME GateTypes, GateKept, NEW ds \in Seq(Everyone), Len(ds) <= Room,
           \A i, j \in 1 .. Len(ds) : ds[i] = ds[j] => i = j,
           Entering(ds)
    PROVE  /\ GateTypes' /\ GateKept'
           /\ \A d \in Everyone : Nowhere(ds, d) =>
                /\ sent'[d] = sent[d]
                /\ Nowhere(queue, d) => Nowhere(queue', d)
                /\ Once(queue, d) => Once(queue', d)
           /\ \A d \in Everyone : Nowhere(queue, d) /\ sent[d] = 0 /\ ~Nowhere(ds, d) =>
                \/ sent'[d] = 1 /\ Nowhere(queue', d)
                \/ sent'[d] = 0 /\ Once(queue', d)
<1> DEFINE started == IF queue = <<>> THEN Min({Slots - Executing, Len(ds)}) ELSE 0
           start == {ds[i] : i \in 1 .. started}
           rest == SubSeq(ds, started + 1, Len(ds))
<1>1. /\ Executing \in Nat /\ Len(ds) \in Nat /\ Len(queue) \in Nat
      /\ \A i \in 1 .. Len(ds) : ds[i] \in Everyone
      /\ Slots \in Nat /\ QueueLimit \in Nat
  BY ExecutingIsNat, LenProperties, ElementOfSeq, FacetsAssumption DEF GateTypes, FacetsAssumption
<1>2. /\ started \in 0 .. Len(ds)
      /\ queue # <<>> => started = 0
      /\ queue = <<>> => started = IF Slots - Executing <= Len(ds) THEN Slots - Executing ELSE Len(ds)
  BY <1>1, LesserOfTwo DEF GateKept
<1>3. /\ sent' = [d \in DOMAIN sent |-> IF d \in start THEN sent[d] + 1 ELSE sent[d]]
      /\ queue' = queue \o rest
  BY DEF Entering
<1> HIDE DEF started
<1>4. start \in SUBSET Everyone /\ Cardinality(start) = started
  BY <1>2, StartedCount
<1>5. /\ rest \in Seq(Everyone) /\ Len(rest) = Len(ds) - started
      /\ \A i \in 1 .. Len(ds) - started : rest[i] = ds[started + i]
  <2>1. started \in Int /\ started + 1 \in Int /\ Len(ds) \in Int
        /\ \A i \in started + 1 .. Len(ds) : ds[i] \in Everyone
    BY <1>1, <1>2
  <2>2. /\ rest \in Seq(Everyone)
        /\ Len(rest) = IF started + 1 <= Len(ds) THEN Len(ds) - (started + 1) + 1 ELSE 0
        /\ \A i \in 1 .. Len(ds) - (started + 1) + 1 : rest[i] = ds[started + 1 + i - 1]
    BY <2>1, SubSeqProperties
  <2> HIDE DEF rest
  <2>3. Len(rest) = Len(ds) - started
    BY <1>1, <1>2, <2>2
  <2>4. \A i \in 1 .. Len(ds) - started : rest[i] = ds[started + i]
    BY <1>1, <1>2, <2>2
  <2> QED
    BY <2>2, <2>3, <2>4
<1> HIDE DEF rest
<1>6. /\ queue' \in Seq(Everyone)
      /\ Len(queue') = Len(queue) + Len(rest)
      /\ \A i \in 1 .. Len(queue) + Len(rest) :
            queue'[i] = IF i <= Len(queue) THEN queue[i] ELSE rest[i - Len(queue)]
  BY <1>3, <1>5, ConcatProperties DEF GateTypes
<1>7. /\ sent' \in [Everyone -> Nat]
      /\ \A d \in Everyone : sent'[d] = IF d \in start THEN sent[d] + 1 ELSE sent[d]
  BY <1>3 DEF GateTypes
<1>8. Executing' = Executing + started
  <2>1. sent' = [d \in Everyone |-> IF d \in start THEN sent[d] + 1 ELSE sent[d]]
    BY <1>3 DEF GateTypes
  <2> HIDE DEF start
  <2>2. Total(sent') = Total(sent) + Cardinality(start)
    BY <1>4, <2>1, EveryoneIsFinite, TotalWithOnes DEF GateTypes
  <2> QED
    BY <1>4, <2>2 DEF Executing
<1>9. GateKept'
  <2>1. Room = Slots + QueueLimit - Executing - Len(queue)
    BY DEF Room
  <2>2. CASE queue = <<>>
    <3>1. Len(queue) = 0
      BY <2>2
    <3>2. Executing' <= Slots
      BY <1>1, <1>2, <1>8, <2>2 DEF GateKept
    <3>3. Len(queue') <= QueueLimit
      BY <1>1, <1>2, <1>5, <1>6, <2>1, <2>2, <3>1
    <3>4. queue' # <<>> => Executing' = Slots
      <4>1. queue' # <<>> => Len(queue') \in Nat \ {0}
        BY <1>6, EmptySeq
      <4> QED
        BY <1>1, <1>2, <1>5, <1>6, <1>8, <2>2, <3>1, <4>1
    <3> QED
      BY <3>2, <3>3, <3>4 DEF GateKept
  <2>3. CASE queue # <<>>
    <3>1. Executing' = Slots /\ started = 0
      BY <1>1, <1>2, <1>8, <2>3 DEF GateKept
    <3>2. Len(queue') <= QueueLimit
      BY <1>1, <1>5, <1>6, <2>1, <2>3, <3>1 DEF GateKept
    <3> QED
      BY <1>1, <3>1, <3>2 DEF GateKept
  <2> QED
    BY <2>2, <2>3
<1>10. ASSUME NEW d \in Everyone, Nowhere(ds, d)
       PROVE  /\ sent'[d] = sent[d]
              /\ Nowhere(queue, d) => Nowhere(queue', d)
              /\ Once(queue, d) => Once(queue', d)
  <2>1. d \notin start
    BY <1>1, <1>2, <1>10 DEF Nowhere
  <2>2. \A i \in 1 .. Len(queue') : queue'[i] = d => i \in 1 .. Len(queue) /\ queue[i] = d
    <3> SUFFICES ASSUME NEW i \in 1 .. Len(queue'), queue'[i] = d, i > Len(queue)
                 PROVE  FALSE
      BY <1>1, <1>2, <1>5, <1>6
    <3> DEFINE j == started + (i - Len(queue))
    <3>1. j \in 1 .. Len(ds) /\ i - Len(queue) \in 1 .. Len(rest)
      BY <1>1, <1>2, <1>5, <1>6
    <3>2. ds[j] = d
      BY <1>1, <1>2, <1>5, <1>6, <3>1
    <3> QED
      BY <1>10, <3>1, <3>2 DEF Nowhere
  <2>3. \A i \in 1 .. Len(queue) : i \in 1 .. Len(queue') /\ queue'[i] = queue[i]
    BY <1>1, <1>2, <1>5, <1>6
  <2> QED
    BY <1>7, <2>1, <2>2, <2>3 DEF Nowhere, Once
<1>11. ASSUME NEW d \in Everyone, Nowhere(queue, d), sent[d] = 0, ~Nowhere(ds, d)
       PROVE  \/ sent'[d] = 1 /\ Nowhere(queue', d)
              \/ sent'[d] = 0 /\ Once(queue', d)
  <2>1. PICK p \in 1 .. Len(ds) : ds[p] = d
    BY <1>11 DEF Nowhere
  <2>2. \A i \in 1 .. Len(ds) : ds[i] = d => i = p
    BY <2>1
  <2>3. \A i \in 1 .. Len(queue') : queue'[i] = d =>
            i > Len(queue) /\ started + (i - Len(queue)) = p
    <3> SUFFICES ASSUME NEW i \in 1 .. Len(queue'), queue'[i] = d
                 PROVE  i > Len(queue) /\ started + (i - Len(queue)) = p
      OBVIOUS
    <3>1. i > Len(queue)
      <4> SUFFICES ASSUME i <= Len(queue) PROVE FALSE
        BY <1>1, <1>6
      <4>1. i \in 1 .. Len(queue) /\ i \in 1 .. Len(queue) + Len(rest)
        BY <1>1, <1>2, <1>5, <1>6
      <4>2. queue[i] = d
        BY <1>6, <4>1
      <4> QED
        BY <1>11, <4>1, <4>2 DEF Nowhere
    <3> DEFINE j == started + (i - Len(queue))
    <3>2. j \in 1 .. Len(ds) /\ i - Len(queue) \in 1 .. Len(rest)
      BY <1>1, <1>2, <1>5, <1>6, <3>1
    <3>3. ds[j] = d
      BY <1>1, <1>2, <1>5, <1>6, <3>1, <3>2
    <3> QED
      BY <2>2, <3>1, <3>2, <3>3
  <2>4. CASE p <= started
    <3>1. d \in start
      BY <1>1, <1>2, <2>1, <2>4
    <3>2. Nowhere(queue', d)
      BY <1>1, <1>2, <1>5, <1>6, <2>3, <2>4 DEF Nowhere
    <3> QED
      BY <1>7, <1>11, <3>1, <3>2
  <2>5. CASE p > started
    <3>1. d \notin start
      BY <1>1, <1>2, <2>2, <2>5
    <3> DEFINE at == Len(queue) + p - started
    <3>2. at \in 1 .. Len(queue') /\ queue'[at] = d
      <4>1. at \in 1 .. Len(queue) + Len(rest) /\ at > Len(queue)
            /\ at - Len(queue) = p - started /\ p - started \in 1 .. Len(ds) - started
        BY <1>1, <1>2, <1>5, <2>1, <2>5
      <4>2. queue'[at] = rest[p - started]
        BY <1>1, <1>6, <4>1
      <4>3. rest[p - started] = ds[p]
        BY <1>1, <1>2, <1>5, <2>1, <4>1
      <4> QED
        BY <1>6, <2>1, <4>1, <4>2, <4>3
    <3>3. \A i \in 1 .. Len(queue') : queue'[i] = d => i = at
      BY <1>1, <1>2, <1>5, <1>6, <2>3
    <3>4. Once(queue', d)
      BY <3>2, <3>3 DEF Once
    <3> QED
      BY <1>7, <1>11, <3>1, <3>4
  <2> QED
    BY <1>1, <1>2, <2>1, <2>4, <2>5
<1> QED
  BY <1>6, <1>7, <1>9, <1>10, <1>11 DEF GateTypes

LEMMA LeavingDoes ==
    ASSUME GateTypes, GateKept, NEW d \in Everyone, sent[d] > 0, Leaving(d)
    PROVE  /\ GateTypes' /\ GateKept'
           /\ Nowhere(queue, d) => sent'[d] = sent[d] - 1 /\ Nowhere(queue', d)
           /\ \A e \in Everyone \ {d} :
                /\ Nowhere(queue, e) => sent'[e] = sent[e] /\ Nowhere(queue', e)
                /\ Once(queue, e) => \/ sent'[e] = sent[e] /\ Once(queue', e)
                                     \/ sent'[e] = sent[e] + 1 /\ Nowhere(queue', e)
<1> DEFINE gone == [sent EXCEPT ![d] = @ - 1]
<1>1. gone \in [Everyone -> Nat] /\ sent \in [Everyone -> Int] /\ gone \in [Everyone -> Int]
  BY DEF GateTypes
<1>2. Total(gone) = Executing - 1 /\ Executing \in Nat
  <2> DEFINE v == sent[d] - 1
  <2>1. sent[d] \in Int /\ v \in Int /\ gone = [sent EXCEPT ![d] = v]
    BY <1>1
  <2> HIDE DEF v, gone
  <2>2. Total([sent EXCEPT ![d] = v]) = Total(sent) - sent[d] + v
    <3>1. IsFiniteSet(Everyone) /\ sent \in [Everyone -> Int] /\ v \in Int
      BY <1>1, <2>1, EveryoneIsFinite
    <3> QED
      BY ONLY <3>1, TotalChanged
  <2>3. Executing \in Nat /\ Executing = Total(sent)
    BY ExecutingIsNat DEF Executing
  <2> QED
    BY <2>1, <2>2, <2>3 DEF v
<1>3. Slots \in Nat /\ Len(queue) \in Nat
  BY LenProperties, FacetsAssumption DEF GateTypes, FacetsAssumption
<1>4. CASE queue = <<>>
  <2>1. sent' = gone /\ queue' = <<>>
    BY <1>4 DEF Leaving
  <2>2. Executing' = Executing - 1
    BY <1>2, <2>1 DEF Executing
  <2>3. GateKept'
    BY <1>2, <1>3, <1>4, <2>1, <2>2 DEF GateKept
  <2>4. GateTypes'
    BY <1>1, <1>4, <2>1 DEF GateTypes
  <2>5. \A e : Nowhere(queue', e) /\ ~Once(queue, e)
    <3>1. Len(<<>>) = 0
      OBVIOUS
    <3> QED
      BY <1>4, <2>1, <3>1 DEF Nowhere, Once
  <2> QED
    BY <1>1, <2>1, <2>3, <2>4, <2>5 DEF GateTypes
<1>5. CASE queue # <<>>
  <2> DEFINE h == Head(queue)
  <2>1. /\ h \in Everyone /\ Tail(queue) \in Seq(Everyone) /\ Len(Tail(queue)) = Len(queue) - 1
        /\ \A i \in 1 .. Len(queue) - 1 : Tail(queue)[i] = queue[i + 1]
        /\ h = queue[1] /\ Len(queue) >= 1
    BY <1>5, HeadTailProperties, EmptySeq DEF GateTypes
  <2>2. sent' = [gone EXCEPT ![h] = gone[h] + 1] /\ queue' = Tail(queue)
    BY <1>5 DEF Leaving
  <2> HIDE DEF h, gone
  <2>3. Executing' = Executing
    <3>1. gone[h] \in Int /\ gone[h] + 1 \in Int
      BY <1>1, <2>1
    <3>2. Total(sent') = Total(gone) - gone[h] + (gone[h] + 1)
      BY <1>1, <2>1, <2>2, <3>1, EveryoneIsFinite, TotalChanged
    <3>3. Executing' = Total(sent')
      BY DEF Executing
    <3> QED
      BY <1>2, <3>1, <3>2, <3>3
  <2>4. GateTypes'
    BY <1>1, <2>1, <2>2 DEF GateTypes
  <2>5. GateKept'
    BY <1>2, <1>3, <1>5, <2>1, <2>2, <2>3, FacetsAssumption DEF GateKept, FacetsAssumption
  <2>6. \A e : /\ Nowhere(queue, e) => e # h /\ Nowhere(queue', e)
               /\ Once(queue, e) /\ e # h => Once(queue', e)
               /\ Once(queue, e) /\ e = h => Nowhere(queue', e)
    <3> SUFFICES ASSUME NEW e
                 PROVE  /\ Nowhere(queue, e) => e # h /\ Nowhere(queue', e)
                        /\ Once(queue, e) /\ e # h => Once(queue', e)
                        /\ Once(queue, e) /\ e = h => Nowhere(queue', e)
      OBVIOUS
    <3>1. \A i \in 1 .. Len(queue') : i + 1 \in 1 .. Len(queue) /\ i + 1 # 1 /\ queue'[i] = queue[i + 1]
      BY <1>3, <2>1, <2>2
    <3>2. \A i \in 1 .. Len(queue) : i # 1 => i - 1 \in 1 .. Len(queue') /\ queue'[i - 1] = queue[i]
      BY <1>3, <2>1, <2>2
    <3>3. Nowhere(queue, e) => e # h /\ Nowhere(queue', e)
      BY <1>3, <2>1, <3>1 DEF Nowhere
    <3>4. ASSUME Once(queue, e), e = h
          PROVE  Nowhere(queue', e)
      BY <1>3, <2>1, <3>1, <3>4 DEF Nowhere, Once
    <3>5. ASSUME Once(queue, e), e # h
          PROVE  Once(queue', e)
      <4>1. PICK i \in 1 .. Len(queue) : queue[i] = e /\ \A j \in 1 .. Len(queue) : queue[j] = e => j = i
        BY <3>5 DEF Once
      <4>2. i # 1
        BY <2>1, <3>5, <4>1
      <4>3. i - 1 \in 1 .. Len(queue') /\ queue'[i - 1] = e
        BY <3>2, <4>1, <4>2
      <4>4. \A j \in 1 .. Len(queue') : queue'[j] = e => j = i - 1
        BY <1>3, <3>1, <4>1
      <4> QED
        BY <4>3, <4>4 DEF Once
    <3> QED
      BY <3>3, <3>4, <3>5
  <2>7. \A e \in Everyone : sent'[e] = gone[e] + (IF e = h THEN 1 ELSE 0)
    BY <1>1, <2>1, <2>2
  <2>8. \A e \in Everyone : gone[e] = sent[e] - (IF e = d THEN 1 ELSE 0)
    BY <1>1 DEF gone
  <2> QED
    BY <1>1, <2>4, <2>5, <2>6, <2>7, <2>8
<1> QED
  BY <1>4, <1>5

-----------------------------------------------------------------------------
(* The invariant.                                                          *)

\* No fetch of x is at the gate and no body is read, or exactly one is.
Idle(x) == sent[x] = 0 /\ Nowhere(queue, x) /\ x \notin reading
Busy(x) ==
    \/ sent[x] = 1 /\ Nowhere(queue, x) /\ x \notin reading
    \/ sent[x] = 0 /\ Once(queue, x) /\ x \notin reading
    \/ sent[x] = 0 /\ Nowhere(queue, x) /\ x \in reading

\* PoliteUpstream of one document, by where its fetch, its body or its collection is.
Carried(d) ==
    \/ fetches[d] = 0 /\ Idle(d) /\ d \notin joined
    \/ fetches[d] # 0 /\ Busy(d) /\ d \notin joined
    \/ fetches[d] # 0 /\ Idle(d) /\ d \in joined

\* Who works on what: documents, other fetches, and collections films wait for.
WorkIsShared ==
    /\ \A d \in Documents : Carried(d)
    /\ \A o \in Others : Idle(o) \/ Busy(o)
    /\ \A d \in joined : Busy(CollectionOf[d])

\* A call waits for a document in flight.
CallsWait == \A k \in calls : fetches[DocumentOf(k)] # 0

\* A call is for a key that owes an answer.
CallsAreOwed == \A k \in calls : ~Current(k)

FacetInv ==
    /\ FacetsTypeOK /\ GateKept /\ CallsWait /\ CallsAreOwed /\ WorkIsShared

LEMMA GateIsTyped == FacetsTypeOK => GateTypes
BY DEF FacetsTypeOK, GateTypes, Everyone

LEMMA NotBoth == ASSUME NEW q, NEW d PROVE ~(Nowhere(q, d) /\ Once(q, d))
BY DEF Nowhere, Once

LEMMA DocumentsAndOthers ==
    /\ Documents \subseteq Everyone /\ Others \subseteq Everyone /\ Documents \cap Others = {}
    /\ Films \subseteq Documents /\ \A d \in Films : CollectionOf[d] \in Others
BY FacetsAssumption DEF FacetsAssumption, Everyone, Documents, Films

LEMMA WorkCounts ==
    ASSUME FacetsTypeOK, NEW x \in Everyone
    PROVE  /\ Work(x) \in Nat
           /\ Work(x) = 0 <=> Idle(x)
           /\ Work(x) = 1 <=> Busy(x)
<1>1. /\ InLine(x) \in Nat
      /\ InLine(x) = 0 <=> Nowhere(queue, x)
      /\ InLine(x) = 1 <=> Once(queue, x)
  BY GateIsTyped, InLineCounts
<1>2. sent[x] \in Nat
  BY DEF FacetsTypeOK, Everyone
<1> QED
  BY <1>1, <1>2 DEF Work, Idle, Busy

LEMMA NotIdleAndBusy == ASSUME NEW x PROVE ~(Idle(x) /\ Busy(x))
BY NotBoth DEF Idle, Busy

LEMMA SharedIsPolite ==
    ASSUME FacetInv
    PROVE  PoliteUpstream /\ CallsAreCarried
<1>1. FacetsTypeOK /\ WorkIsShared /\ CallsWait
  BY DEF FacetInv
<1>2. ASSUME NEW d \in Documents
      PROVE  Work(d) + (IF d \in joined THEN 1 ELSE 0) = IF fetches[d] = 0 THEN 0 ELSE 1
  <2>1. d \in Everyone /\ Carried(d)
    BY <1>1, DocumentsAndOthers DEF WorkIsShared
  <2> QED
    BY <1>1, <2>1, WorkCounts DEF Carried
<1>3. ASSUME NEW o \in Others
      PROVE  Work(o) <= 1
  <2>1. o \in Everyone /\ (Idle(o) \/ Busy(o))
    BY <1>1, DocumentsAndOthers DEF WorkIsShared
  <2> QED
    BY <1>1, <2>1, WorkCounts
<1>4. ASSUME NEW d \in joined
      PROVE  Work(CollectionOf[d]) # 0
  <2>1. CollectionOf[d] \in Everyone /\ Busy(CollectionOf[d])
    BY <1>1, DocumentsAndOthers DEF WorkIsShared, FacetsTypeOK
  <2> QED
    BY <1>1, <2>1, WorkCounts
<1> QED
  BY <1>1, <1>2, <1>3, <1>4 DEF PoliteUpstream, CallsAreCarried, CallsWait

\* Whose place at the gate and whose body a step leaves as they were, but for the first
\* of the queue that comes to its turn.
Left(x) ==
    /\ x \in reading' <=> x \in reading
    /\ Nowhere(queue, x) => sent'[x] = sent[x] /\ Nowhere(queue, x)'
    /\ Once(queue, x) => \/ sent'[x] = sent[x] /\ Once(queue, x)'
                         \/ sent'[x] = sent[x] + 1 /\ Nowhere(queue, x)'

LEMMA LeftIsKept ==
    ASSUME NEW x, Left(x)
    PROVE  (Idle(x) => Idle(x)') /\ (Busy(x) => Busy(x)')
BY NotBoth DEF Left, Idle, Busy

\* What a step leaves alone when it does not touch the gate.
LEMMA GateUntouched ==
    ASSUME FacetInv, UNCHANGED gateVars
    PROVE  GateTypes' /\ GateKept'
<1>1. GateTypes
  BY GateIsTyped DEF FacetInv
<1>2. Executing' = Executing
  BY DEF gateVars, Executing
<1> QED
  BY <1>1, <1>2 DEF gateVars, GateTypes, GateKept, FacetInv

\* A page's load, an agent's GET, a warming: everyone who owes is asked.
LEMMA AskKeeps ==
    ASSUME FacetInv, NEW t \in Titles, Ask(t), page' \in [Titles -> {"closed", "polling", "settled"}]
    PROVE  FacetInv'
<1> DEFINE new == Outstanding(t) \ calls
           wanted == {DocumentOf(k) : k \in new}
           missing == {d \in wanted : fetches[d] = 0}
           room == Min({Room, Cardinality(missing)})
<1>1. FacetsTypeOK /\ GateTypes /\ GateKept /\ CallsWait /\ CallsAreOwed /\ WorkIsShared
  BY GateIsTyped DEF FacetInv
<1>2. PICK order \in Injection(1 .. room, missing) :
        /\ calls' = calls \cup {k \in new : DocumentOf(k) \notin missing \ Range(order)}
        /\ fetches' = [d \in Documents |-> IF d \in Range(order) THEN 1 ELSE fetches[d]]
        /\ Entering(order)
        /\ UNCHANGED <<cacheVars, reading, joined>>
  BY DEF Ask
<1>3. new \subseteq Keys /\ \A k \in new : ~Current(k)
  BY DEF Outstanding
<1>4. missing \subseteq Documents /\ \A d \in missing : fetches[d] = 0
  BY <1>3, KeyHasDocument
<1>5. IsFiniteSet(missing) /\ Cardinality(missing) \in Nat
  <2>1. IsFiniteSet(Documents)
    BY FacetsAssumption, FS_Product DEF FacetsAssumption, Documents
  <2> QED
    BY <1>4, <2>1, FS_Subset, FS_CardinalityType
<1> HIDE DEF missing, new
<1>6. Room \in Nat
  BY <1>1, ExecutingIsNat, LenProperties, FacetsAssumption DEF Room, GateKept, GateTypes, FacetsAssumption
<1>7. room \in Nat /\ room <= Room
  BY <1>5, <1>6, LesserOfTwo
<1> HIDE DEF room
<1>8. /\ order \in [1 .. room -> missing]
      /\ \A i, j \in 1 .. room : order[i] = order[j] => i = j
  BY DEF Injection, IsInjective
<1>9. order \in Seq(Everyone) /\ Len(order) = room
  BY <1>4, <1>7, <1>8 DEF Everyone
<1>10. \A d : Nowhere(order, d) <=> d \notin Range(order)
  BY <1>8, <1>9 DEF Nowhere, Range
<1>11. Range(order) \subseteq missing
  BY <1>8 DEF Range
<1>12. /\ GateTypes' /\ GateKept'
       /\ \A d \in Everyone : Nowhere(order, d) =>
            /\ sent'[d] = sent[d]
            /\ Nowhere(queue, d) => Nowhere(queue', d)
            /\ Once(queue, d) => Once(queue', d)
       /\ \A d \in Everyone : Nowhere(queue, d) /\ sent[d] = 0 /\ ~Nowhere(order, d) =>
            \/ sent'[d] = 1 /\ Nowhere(queue', d)
            \/ sent'[d] = 0 /\ Once(queue', d)
  BY <1>1, <1>2, <1>7, <1>8, <1>9, EnteringDoes
<1>13. FacetsTypeOK'
  <2>1. fetches' \in [Documents -> 0 .. MaxFetches]
    BY <1>1, <1>2, FacetsAssumption DEF FacetsTypeOK, FacetsAssumption
  <2>2. calls' \subseteq Keys
    BY <1>1, <1>2, <1>3 DEF FacetsTypeOK
  <2> QED
    BY <1>1, <1>2, <1>12, <2>1, <2>2 DEF FacetsTypeOK, GateTypes, Everyone, cacheVars
<1>14. WorkIsShared'
  <2>1. ASSUME NEW x \in Everyone, x \notin Range(order)
        PROVE  (Idle(x) => Idle(x)') /\ (Busy(x) => Busy(x)')
    <3>1. Left(x)
      BY <1>2, <1>10, <1>12, <2>1 DEF Left
    <3> QED
      BY <3>1, LeftIsKept
  <2>2. ASSUME NEW d \in Documents
        PROVE  Carried(d)'
    <3>1. Carried(d) /\ d \in Everyone /\ joined' = joined /\ reading' = reading
      BY <1>1, <1>2, DocumentsAndOthers DEF WorkIsShared
    <3>2. CASE d \in Range(order)
      <4>1. fetches[d] = 0 /\ fetches'[d] = 1
        BY <1>2, <1>4, <1>11, <3>2
      <4>2. Idle(d) /\ d \notin joined
        BY <3>1, <4>1 DEF Carried
      <4>3. Busy(d)'
        BY <1>10, <1>12, <3>1, <3>2, <4>2 DEF Idle, Busy
      <4> QED
        BY <3>1, <4>1, <4>2, <4>3 DEF Carried
    <3>3. CASE d \notin Range(order)
      <4>1. fetches'[d] = fetches[d]
        BY <1>2, <3>3
      <4> QED
        BY <2>1, <3>1, <3>3, <4>1 DEF Carried
    <3> QED
      BY <3>2, <3>3
  <2>3. ASSUME NEW o \in Others
        PROVE  /\ (Idle(o) \/ Busy(o))'
               /\ Busy(o) => Busy(o)'
    <3>1. o \in Everyone /\ o \notin Range(order)
      BY <1>4, <1>11, DocumentsAndOthers
    <3> QED
      BY <1>1, <2>1, <3>1 DEF WorkIsShared
  <2>4. \A d \in joined' : CollectionOf[d] \in Others /\ Busy(CollectionOf[d])
    BY <1>1, <1>2, DocumentsAndOthers DEF WorkIsShared, FacetsTypeOK
  <2>5. \A d \in joined' : Busy(CollectionOf[d])'
    BY <2>3, <2>4
  <2> QED
    BY <2>2, <2>3, <2>5 DEF WorkIsShared
<1>15. CallsAreOwed'
  BY <1>1, <1>2, <1>3 DEF CallsAreOwed, Current, cacheVars
<1>16. CallsWait'
  <2> SUFFICES ASSUME NEW k \in calls'
               PROVE  fetches'[DocumentOf(k)] # 0
    BY DEF CallsWait, DocumentOf
  <2>1. DocumentOf(k) \in Documents
    BY <1>13, KeyHasDocument DEF FacetsTypeOK
  <2>2. CASE k \in calls
    BY <1>1, <1>2, <2>1, <2>2 DEF CallsWait
  <2>3. CASE k \notin calls
    <3>1. k \in new /\ DocumentOf(k) \notin missing \ Range(order)
      BY <1>2, <2>3
    <3>2. DocumentOf(k) \in Range(order) \/ fetches[DocumentOf(k)] # 0
      BY <3>1 DEF missing
    <3> QED
      BY <1>2, <2>1, <3>2
  <2> QED
    BY <2>2, <2>3
<1> QED
  BY <1>12, <1>13, <1>14, <1>15, <1>16 DEF FacetInv

\* One fetch enters the gate.
LEMMA OneEnters ==
    ASSUME FacetInv, NEW d \in Everyone, Room > 0, Entering(<<d>>)
    PROVE  /\ GateTypes' /\ GateKept'
           /\ \A e \in Everyone \ {d} :
                /\ sent'[e] = sent[e]
                /\ Nowhere(queue, e) => Nowhere(queue', e)
                /\ Once(queue, e) => Once(queue', e)
           /\ Nowhere(queue, d) /\ sent[d] = 0 =>
                \/ sent'[d] = 1 /\ Nowhere(queue', d)
                \/ sent'[d] = 0 /\ Once(queue', d)
<1> DEFINE ds == <<d>>
<1>1. ds \in Seq(Everyone) /\ Len(ds) = 1 /\ ds[1] = d
  OBVIOUS
<1>2. \A e : Nowhere(ds, e) <=> e # d
  BY <1>1 DEF Nowhere
<1>3. Room \in Int /\ GateTypes /\ GateKept
  BY GateIsTyped, ExecutingIsNat, LenProperties, FacetsAssumption
     DEF FacetInv, Room, GateTypes, FacetsAssumption
<1>4. Len(ds) <= Room /\ \A i, j \in 1 .. Len(ds) : ds[i] = ds[j] => i = j
  BY <1>1, <1>3
<1>5. Entering(ds)
  OBVIOUS
<1> HIDE DEF ds
<1> QED
  BY <1>1, <1>2, <1>3, <1>4, <1>5, EnteringDoes

\* What settles with documents: their calls, with a row each or with none.
LEMMA SettlingKeeps ==
    ASSUME FacetInv, NEW ds \in SUBSET Documents, Released(ds),
           \/ Answered(WaitingFor(ds))
           \/ Written(Failing(WaitingFor(ds)))
           \/ row' = row
    PROVE  /\ row' \in [Keys -> Row \cup {NoRow}]
           /\ fetches' \in [Documents -> 0 .. MaxFetches]
           /\ \A d \in Documents : fetches'[d] = IF d \in ds THEN 0 ELSE fetches[d]
           /\ calls' \subseteq Keys
           /\ CallsAreOwed' /\ CallsWait'
<1>1. FacetsTypeOK /\ CallsWait /\ CallsAreOwed
  BY DEF FacetInv
<1>2. /\ fetches' = [d \in Documents |-> IF d \in ds THEN 0 ELSE fetches[d]]
      /\ calls' = calls \ WaitingFor(ds)
  BY DEF Released
<1>3. /\ fetches' \in [Documents -> 0 .. MaxFetches]
      /\ \A d \in Documents : fetches'[d] = IF d \in ds THEN 0 ELSE fetches[d]
  BY <1>1, <1>2, FacetsAssumption DEF FacetsTypeOK, FacetsAssumption
<1>4. calls' \subseteq Keys /\ WaitingFor(ds) \subseteq Keys
  BY <1>1, <1>2 DEF FacetsTypeOK, WaitingFor
<1>5. row' \in [Keys -> Row \cup {NoRow}] /\ \A k \in calls' : row'[k] = row[k]
  <2>1. CASE row' = row
    BY <1>1, <2>1 DEF FacetsTypeOK
  <2>2. ASSUME NEW says \in [WaitingFor(ds) -> Outcomes], Written(says)
        PROVE  row' \in [Keys -> Row \cup {NoRow}] /\ \A k \in calls' : row'[k] = row[k]
    <3>1. row' = [k \in Keys |-> IF k \in WaitingFor(ds)
                                 THEN [outcome |-> says[k], fresh |-> TRUE] ELSE row[k]]
      BY <2>2 DEF Written
    <3>2. \A k \in WaitingFor(ds) : [outcome |-> says[k], fresh |-> TRUE] \in Row
      BY <2>2 DEF Row
    <3>3. row \in [Keys -> Row \cup {NoRow}]
      BY <1>1 DEF FacetsTypeOK
    <3>4. row' \in [Keys -> Row \cup {NoRow}]
      BY <3>1, <3>2, <3>3
    <3>5. \A k \in calls' : row'[k] = row[k]
      BY <1>2, <1>4, <3>1
    <3> QED
      BY <3>4, <3>5
  <2>3. Failing(WaitingFor(ds)) \in [WaitingFor(ds) -> Outcomes]
    BY DEF Failing, Outcomes
  <2> QED
    BY <2>1, <2>2, <2>3 DEF Answered
<1>6. CallsAreOwed'
  BY <1>1, <1>2, <1>5 DEF CallsAreOwed, Current
<1>7. CallsWait'
  <2> SUFFICES ASSUME NEW k \in calls'
               PROVE  fetches'[DocumentOf(k)] # 0
    BY DEF CallsWait, DocumentOf
  <2>1. k \in calls /\ DocumentOf(k) \notin ds /\ DocumentOf(k) \in Documents
    BY <1>2, <1>4, KeyHasDocument DEF WaitingFor
  <2> QED
    BY <1>1, <1>3, <2>1 DEF CallsWait
<1> QED
  BY <1>3, <1>4, <1>5, <1>6, <1>7

\* The one whose fetch ends leaves the gate, and everyone else keeps their place.
LEMMA OneLeaves ==
    ASSUME FacetInv, NEW d \in Everyone, Idle(d) \/ Busy(d), sent[d] > 0, Leaving(d)
    PROVE  /\ GateTypes' /\ GateKept' /\ Busy(d) /\ d \notin reading
           /\ sent'[d] = 0 /\ Nowhere(queue', d)
           /\ \A e \in Everyone \ {d} :
                /\ Nowhere(queue, e) => sent'[e] = sent[e] /\ Nowhere(queue', e)
                /\ Once(queue, e) => \/ sent'[e] = sent[e] /\ Once(queue', e)
                                     \/ sent'[e] = sent[e] + 1 /\ Nowhere(queue', e)
<1>1. GateTypes /\ GateKept
  BY GateIsTyped DEF FacetInv
<1>2. sent[d] = 1 /\ Nowhere(queue, d) /\ d \notin reading /\ Busy(d)
  BY DEF Idle, Busy
<1>3. sent[d] - 1 = 0
  BY <1>2
<1> QED
  BY <1>1, <1>2, <1>3, LeavingDoes

\* Work stays shared out when that of X is, and everyone else keeps their place.
LEMMA SharingKeeps ==
    ASSUME FacetInv, NEW X \in SUBSET Everyone, \A e \in Everyone \ X : Left(e),
           \A d \in Documents \ X : fetches'[d] = fetches[d] /\ (d \in joined' <=> d \in joined),
           \A d \in Documents \cap X : Carried(d)',
           \A o \in Others \cap X : (Idle(o) \/ Busy(o))',
           joined' \subseteq Films,
           \A d \in joined' : Busy(CollectionOf[d])' \/ (d \in joined /\ CollectionOf[d] \notin X)
    PROVE  WorkIsShared'
<1>1. FacetsTypeOK /\ WorkIsShared
  BY DEF FacetInv
<1>2. \A e \in Everyone \ X : (Idle(e) => Idle(e)') /\ (Busy(e) => Busy(e)')
  BY LeftIsKept
<1>3. ASSUME NEW d \in Documents, d \notin X
      PROVE  Carried(d)'
  <2>1. Carried(d) /\ d \in Everyone \ X
    BY <1>1, <1>3, DocumentsAndOthers DEF WorkIsShared
  <2>2. fetches'[d] = fetches[d] /\ (d \in joined' <=> d \in joined)
    BY <1>3
  <2> QED
    BY <1>2, <2>1, <2>2 DEF Carried
<1>4. ASSUME NEW o \in Others, o \notin X
      PROVE  (Idle(o) \/ Busy(o))'
  BY <1>1, <1>2, <1>4, DocumentsAndOthers DEF WorkIsShared
<1>5. ASSUME NEW d \in joined'
      PROVE  Busy(CollectionOf[d])'
  <2>1. CASE d \in joined /\ CollectionOf[d] \notin X
    <3>1. CollectionOf[d] \in Everyone \ X /\ Busy(CollectionOf[d])
      BY <1>1, <1>5, <2>1, DocumentsAndOthers DEF WorkIsShared
    <3> QED
      BY <1>2, <3>1
  <2> QED
    BY <1>5, <2>1
<1> QED
  BY <1>3, <1>4, <1>5 DEF WorkIsShared

\* The invariant's other parts, when neither rows nor calls nor documents change.
LEMMA CallsUntouched ==
    ASSUME FacetInv, UNCHANGED <<row, calls, fetches>>
    PROVE  CallsAreOwed' /\ CallsWait'
BY DEF FacetInv, CallsAreOwed, CallsWait, Current

LEMMA FetchEndsKeeps ==
    ASSUME FacetInv, NEW d \in Documents, FetchFails(d) \/ FetchReturns(d)
    PROVE  FacetInv'
<1>1. FacetsTypeOK /\ CallsWait /\ WorkIsShared
  BY DEF FacetInv
<1>2. /\ d \in Everyone /\ sent[d] > 0 /\ Leaving(d) /\ Carried(d)
      /\ d \notin Others /\ UNCHANGED <<old, joined, page>>
  BY <1>1, DocumentsAndOthers DEF FetchFails, FetchReturns, WorkIsShared, cacheVars
<1>3. fetches[d] # 0 /\ Busy(d) /\ d \notin joined
  BY <1>2 DEF Carried, Idle
<1>4. /\ GateTypes' /\ GateKept' /\ d \notin reading
      /\ sent'[d] = 0 /\ Nowhere(queue', d)
      /\ \A e \in Everyone \ {d} :
            /\ Nowhere(queue, e) => sent'[e] = sent[e] /\ Nowhere(queue', e)
            /\ Once(queue, e) => \/ sent'[e] = sent[e] /\ Once(queue', e)
                                 \/ sent'[e] = sent[e] + 1 /\ Nowhere(queue', e)
  BY <1>2, <1>3, OneLeaves
<1>5. /\ fetches' \in [Documents -> 0 .. MaxFetches]
      /\ \A e \in Documents \ {d} : fetches'[e] = fetches[e]
      /\ row' \in [Keys -> Row \cup {NoRow}] /\ calls' \subseteq Keys
      /\ CallsAreOwed' /\ CallsWait'
      /\ Carried(d)'
      /\ reading' \subseteq Documents \cup Others
      /\ \A e \in Everyone \ {d} : e \in reading' <=> e \in reading
  <2>1. CASE FetchFails(d)
    <3>1. /\ Released({d}) /\ Written(Failing(WaitingFor({d}))) /\ reading' = reading
          /\ {d} \in SUBSET Documents
      BY <2>1 DEF FetchFails
    <3>2. /\ row' \in [Keys -> Row \cup {NoRow}]
          /\ fetches' \in [Documents -> 0 .. MaxFetches]
          /\ \A e \in Documents : fetches'[e] = IF e \in {d} THEN 0 ELSE fetches[e]
          /\ calls' \subseteq Keys /\ CallsAreOwed' /\ CallsWait'
      BY <3>1, SettlingKeeps
    <3>3. fetches'[d] = 0 /\ \A e \in Documents \ {d} : fetches'[e] = fetches[e]
      BY <3>2
    <3>4. Carried(d)'
      BY <1>2, <1>3, <1>4, <3>1, <3>3 DEF Carried, Idle
    <3> QED
      BY <1>1, <3>1, <3>2, <3>3, <3>4 DEF FacetsTypeOK
  <2>2. CASE FetchReturns(d)
    <3>1. reading' = reading \cup {d} /\ UNCHANGED <<row, calls, fetches>>
      BY <2>2 DEF FetchReturns, cacheVars
    <3>2. Carried(d)'
      BY <1>2, <1>3, <1>4, <3>1 DEF Carried, Busy
    <3> QED
      BY <1>1, <3>1, <3>2, CallsUntouched DEF FacetsTypeOK
  <2> QED
    BY <2>1, <2>2
<1>6. \A e \in Everyone \ {d} : Left(e)
  BY <1>4, <1>5 DEF Left
<1>7. WorkIsShared'
  <2>1. \A e \in joined' : e \in joined /\ CollectionOf[e] \notin {d}
    BY <1>1, <1>2, DocumentsAndOthers DEF FacetsTypeOK
  <2>2. joined' \subseteq Films /\ \A e \in Documents \ {d} : e \in joined' <=> e \in joined
    BY <1>1, <1>2 DEF FacetsTypeOK
  <2>3. {d} \in SUBSET Everyone /\ \A o \in Others \cap {d} : FALSE
    BY <1>2
  <2> QED
    BY <1>5, <1>6, <2>1, <2>2, <2>3, SharingKeeps
<1>8. FacetsTypeOK'
  BY <1>1, <1>2, <1>4, <1>5 DEF FacetsTypeOK, GateTypes, Everyone
<1> QED
  BY <1>4, <1>5, <1>7, <1>8 DEF FacetInv

LEMMA BodyEndsKeeps ==
    ASSUME FacetInv, NEW d \in Documents, DocumentDone(d) \/ NextFetch(d)
    PROVE  FacetInv'
<1>1. FacetsTypeOK /\ CallsWait /\ WorkIsShared
  BY DEF FacetInv
<1>2. /\ d \in Everyone /\ d \in reading /\ reading' = reading \ {d}
      /\ Carried(d) /\ d \notin Others /\ UNCHANGED <<old, joined, page>>
  BY <1>1, DocumentsAndOthers DEF DocumentDone, NextFetch, WorkIsShared, cacheVars
<1>3. sent[d] = 0 /\ Nowhere(queue, d) /\ fetches[d] # 0 /\ d \notin joined
  BY <1>2 DEF Carried, Idle, Busy
<1>4. /\ GateTypes' /\ GateKept'
      /\ fetches' \in [Documents -> 0 .. MaxFetches]
      /\ \A e \in Documents \ {d} : fetches'[e] = fetches[e]
      /\ row' \in [Keys -> Row \cup {NoRow}] /\ calls' \subseteq Keys
      /\ CallsAreOwed' /\ CallsWait'
      /\ Carried(d)'
      /\ \A e \in Everyone \ {d} : Left(e)
  <2>1. CASE Released({d}) /\ UNCHANGED gateVars /\ (Answered(WaitingFor({d})) \/ row' = row)
    <3>1. {d} \in SUBSET Documents
      OBVIOUS
    <3>2. /\ row' \in [Keys -> Row \cup {NoRow}]
          /\ fetches' \in [Documents -> 0 .. MaxFetches]
          /\ \A e \in Documents : fetches'[e] = IF e \in {d} THEN 0 ELSE fetches[e]
          /\ calls' \subseteq Keys /\ CallsAreOwed' /\ CallsWait'
      BY <2>1, <3>1, SettlingKeeps
    <3>3. fetches'[d] = 0 /\ \A e \in Documents \ {d} : fetches'[e] = fetches[e]
      BY <3>2
    <3>4. Carried(d)' /\ \A e \in Everyone \ {d} : Left(e)
      BY <1>2, <1>3, <2>1, <3>3 DEF Carried, Idle, Left, gateVars
    <3> QED
      BY <2>1, <3>2, <3>3, <3>4, GateUntouched
  <2>2. CASE /\ Room > 0 /\ Entering(<<d>>) /\ fetches' = [fetches EXCEPT ![d] = @ + 1]
             /\ UNCHANGED <<row, calls>> /\ fetches[d] < MaxFetches
    <3>1. /\ GateTypes' /\ GateKept'
          /\ \A e \in Everyone \ {d} :
                /\ sent'[e] = sent[e]
                /\ Nowhere(queue, e) => Nowhere(queue', e)
                /\ Once(queue, e) => Once(queue', e)
          /\ \/ sent'[d] = 1 /\ Nowhere(queue', d)
             \/ sent'[d] = 0 /\ Once(queue', d)
      BY <1>2, <1>3, <2>2, OneEnters
    <3>2. /\ fetches' \in [Documents -> 0 .. MaxFetches] /\ fetches'[d] # 0
          /\ \A e \in Documents \ {d} : fetches'[e] = fetches[e]
      BY <1>1, <2>2, FacetsAssumption DEF FacetsTypeOK, FacetsAssumption
    <3>3. Carried(d)' /\ \A e \in Everyone \ {d} : Left(e)
      BY <1>2, <1>3, <3>1, <3>2 DEF Carried, Busy, Left
    <3>4. CallsAreOwed' /\ calls' \subseteq Keys /\ row' \in [Keys -> Row \cup {NoRow}]
      BY <1>1, <2>2 DEF FacetInv, CallsAreOwed, Current, FacetsTypeOK
    <3>5. CallsWait'
      <4>1. \A k \in calls : DocumentOf(k) \in Documents /\ fetches'[DocumentOf(k)] # 0
        BY <1>1, <3>2, KeyHasDocument DEF CallsWait, FacetsTypeOK
      <4> QED
        BY <2>2, <4>1 DEF CallsWait, DocumentOf
    <3> QED
      BY <3>1, <3>2, <3>3, <3>4, <3>5
  <2> QED
    BY <2>1, <2>2 DEF DocumentDone, NextFetch, cacheVars
<1>5. WorkIsShared'
  <2>1. \A e \in joined' : e \in joined /\ CollectionOf[e] \notin {d}
    BY <1>1, <1>2, DocumentsAndOthers DEF FacetsTypeOK
  <2>2. joined' \subseteq Films /\ \A e \in Documents \ {d} : e \in joined' <=> e \in joined
    BY <1>1, <1>2 DEF FacetsTypeOK
  <2>3. {d} \in SUBSET Everyone /\ \A o \in Others \cap {d} : FALSE
    BY <1>2
  <2> QED
    BY <1>4, <2>1, <2>2, <2>3, SharingKeeps
<1>6. FacetsTypeOK'
  BY <1>1, <1>2, <1>4 DEF FacetsTypeOK, GateTypes, Everyone
<1> QED
  BY <1>4, <1>5, <1>6 DEF FacetInv

LEMMA InFlightIsBusy ==
    ASSUME FacetInv, NEW o \in Others
    PROVE  IF InFlight(o) THEN Busy(o) ELSE Idle(o)
<1>1. (Idle(o) \/ Busy(o)) /\ GateTypes /\ o \in Everyone
  BY GateIsTyped, DocumentsAndOthers DEF FacetInv, WorkIsShared
<1>2. o \in Range(queue) <=> ~Nowhere(queue, o)
  <2>1. DOMAIN queue = 1 .. Len(queue)
    BY <1>1, LenProperties DEF GateTypes
  <2> QED
    BY <2>1 DEF Range, Nowhere
<1>3. sent[o] \in Nat
  BY <1>1 DEF GateTypes
<1> QED
  BY <1>1, <1>2, <1>3, NotBoth DEF InFlight, Idle, Busy

\* A film comes to wait for its collection.
LEMMA JoinsKeeps ==
    ASSUME FacetInv, NEW d \in Documents, JoinsCollection(d)
    PROVE  FacetInv'
<1> DEFINE c == CollectionOf[d]
<1>1. FacetsTypeOK /\ WorkIsShared
  BY DEF FacetInv
<1>2. /\ d \in Films /\ d \in reading /\ d \in Everyone /\ c \in Others /\ c \in Everyone /\ c # d
      /\ reading' = reading \ {d} /\ joined' = joined \cup {d}
      /\ UNCHANGED <<row, old, calls, fetches, page>>
  BY DocumentsAndOthers DEF JoinsCollection, cacheVars
<1>3. Idle(c) \/ Busy(c)
  BY <1>1, <1>2 DEF WorkIsShared
<1>4. sent[d] = 0 /\ Nowhere(queue, d) /\ fetches[d] # 0 /\ d \notin joined
  <2>1. Carried(d)
    BY <1>1 DEF WorkIsShared
  <2> QED
    BY <1>2, <2>1 DEF Carried, Idle, Busy
<1>5. /\ GateTypes' /\ GateKept'
      /\ Busy(c)' /\ Idle(d)'
      /\ \A e \in Everyone \ {c, d} : Left(e)
  <2>1. CASE InFlight(c) /\ UNCHANGED gateVars
    <3>1. Busy(c)
      BY <1>2, <2>1, InFlightIsBusy
    <3> QED
      BY <1>2, <1>4, <2>1, <3>1, GateUntouched DEF gateVars, Busy, Idle, Left
  <2>2. CASE ~InFlight(c) /\ Room > 0 /\ Entering(<<c>>)
    <3>1. Idle(c)
      BY <1>2, <2>2, InFlightIsBusy
    <3>2. /\ GateTypes' /\ GateKept'
          /\ \A e \in Everyone \ {c} :
                /\ sent'[e] = sent[e]
                /\ Nowhere(queue, e) => Nowhere(queue', e)
                /\ Once(queue, e) => Once(queue', e)
          /\ \/ sent'[c] = 1 /\ Nowhere(queue', c)
             \/ sent'[c] = 0 /\ Once(queue', c)
      BY <1>2, <2>2, <3>1, OneEnters DEF Idle
    <3>3. Busy(c)' /\ Idle(d)'
      BY <1>2, <1>4, <3>1, <3>2 DEF Busy, Idle
    <3>4. \A e \in Everyone \ {c, d} : Left(e)
      BY <1>2, <3>2 DEF Left
    <3> QED
      BY <3>2, <3>3, <3>4
  <2> QED
    BY <2>1, <2>2 DEF JoinsCollection
<1>6. Carried(d)'
  BY <1>2, <1>4, <1>5 DEF Carried
<1>7. WorkIsShared'
  <2>1. ASSUME NEW e \in joined'
        PROVE  Busy(CollectionOf[e])' \/ (e \in joined /\ CollectionOf[e] \notin {c, d})
    <3>1. CASE e = d
      BY <1>5, <3>1
    <3>2. CASE e # d
      <4>1. e \in joined /\ CollectionOf[e] # d
        BY <1>1, <1>2, <3>2, DocumentsAndOthers DEF FacetsTypeOK
      <4> QED
        BY <1>5, <4>1
    <3> QED
      BY <3>1, <3>2
  <2>2. joined' \subseteq Films /\ \A e \in Documents \ {c, d} : e \in joined' <=> e \in joined
    BY <1>1, <1>2 DEF FacetsTypeOK
  <2>3. {c, d} \in SUBSET Everyone /\ Documents \cap {c, d} = {d} /\ Others \cap {c, d} = {c}
    BY <1>2, DocumentsAndOthers
  <2>4. \A e \in Documents \ {c, d} : fetches'[e] = fetches[e] /\ (e \in joined' <=> e \in joined)
    BY <1>2, <2>2
  <2>5. \A e \in Documents \cap {c, d} : Carried(e)'
    BY <1>6, <2>3
  <2>6. \A o \in Others \cap {c, d} : (Idle(o) \/ Busy(o))'
    BY <1>5, <2>3
  <2> QED
    BY <1>5, <2>1, <2>2, <2>3, <2>4, <2>5, <2>6, SharingKeeps
<1>8. FacetsTypeOK'
  BY <1>1, <1>2, <1>5 DEF FacetsTypeOK, GateTypes, Everyone
<1>9. CallsAreOwed' /\ CallsWait'
  BY <1>2, CallsUntouched
<1> QED
  BY <1>5, <1>7, <1>8, <1>9 DEF FacetInv

LEMMA OtherAsksKeeps ==
    ASSUME FacetInv, NEW o \in Others, OtherAsks(o)
    PROVE  FacetInv'
<1>1. FacetsTypeOK /\ WorkIsShared
  BY DEF FacetInv
<1>2. /\ o \in Everyone /\ o \notin Documents /\ Idle(o) /\ Room > 0 /\ Entering(<<o>>)
      /\ UNCHANGED <<row, old, calls, fetches, reading, joined, page>>
  BY InFlightIsBusy, DocumentsAndOthers DEF OtherAsks, cacheVars
<1>3. /\ GateTypes' /\ GateKept'
      /\ \A e \in Everyone \ {o} :
            /\ sent'[e] = sent[e]
            /\ Nowhere(queue, e) => Nowhere(queue', e)
            /\ Once(queue, e) => Once(queue', e)
      /\ \/ sent'[o] = 1 /\ Nowhere(queue', o)
         \/ sent'[o] = 0 /\ Once(queue', o)
  BY <1>2, OneEnters DEF Idle
<1>4. Busy(o)' /\ \A e \in Everyone \ {o} : Left(e)
  BY <1>2, <1>3 DEF Busy, Idle, Left
<1>5. WorkIsShared'
  <2>1. \A d \in joined' : Busy(CollectionOf[d])' \/ (d \in joined /\ CollectionOf[d] \notin {o})
    BY <1>2, <1>4
  <2>2. joined' \subseteq Films /\ {o} \in SUBSET Everyone /\ Documents \cap {o} = {}
    BY <1>1, <1>2 DEF FacetsTypeOK
  <2>3. /\ \A d \in Documents \ {o} : fetches'[d] = fetches[d] /\ (d \in joined' <=> d \in joined)
        /\ \A d \in Documents \cap {o} : Carried(d)'
        /\ \A p \in Others \cap {o} : (Idle(p) \/ Busy(p))'
    BY <1>2, <1>4
  <2> QED
    BY <1>4, <2>1, <2>2, <2>3, SharingKeeps
<1>6. FacetsTypeOK' /\ CallsAreOwed' /\ CallsWait'
  BY <1>1, <1>2, <1>3, CallsUntouched DEF FacetsTypeOK, GateTypes, Everyone
<1> QED
  BY <1>3, <1>5, <1>6 DEF FacetInv

LEMMA OtherReturnsKeeps ==
    ASSUME FacetInv, NEW o \in Others, OtherReturns(o)
    PROVE  FacetInv'
<1>1. FacetsTypeOK /\ WorkIsShared
  BY DEF FacetInv
<1>2. /\ o \in Everyone /\ o \notin Documents /\ (Idle(o) \/ Busy(o)) /\ sent[o] > 0 /\ Leaving(o)
      /\ reading' = reading \cup {o}
      /\ UNCHANGED <<row, old, calls, fetches, joined, page>>
  BY <1>1, DocumentsAndOthers DEF OtherReturns, WorkIsShared, cacheVars
<1>3. /\ GateTypes' /\ GateKept'
      /\ sent'[o] = 0 /\ Nowhere(queue', o)
      /\ \A e \in Everyone \ {o} :
            /\ Nowhere(queue, e) => sent'[e] = sent[e] /\ Nowhere(queue', e)
            /\ Once(queue, e) => \/ sent'[e] = sent[e] /\ Once(queue', e)
                                 \/ sent'[e] = sent[e] + 1 /\ Nowhere(queue', e)
  BY <1>2, OneLeaves
<1>4. Busy(o)' /\ \A e \in Everyone \ {o} : Left(e)
  BY <1>2, <1>3 DEF Busy, Left
<1>5. WorkIsShared'
  <2>1. \A d \in joined' : Busy(CollectionOf[d])' \/ (d \in joined /\ CollectionOf[d] \notin {o})
    BY <1>2, <1>4
  <2>2. joined' \subseteq Films /\ {o} \in SUBSET Everyone /\ Documents \cap {o} = {}
    BY <1>1, <1>2 DEF FacetsTypeOK
  <2>3. /\ \A d \in Documents \ {o} : fetches'[d] = fetches[d] /\ (d \in joined' <=> d \in joined)
        /\ \A d \in Documents \cap {o} : Carried(d)'
        /\ \A p \in Others \cap {o} : (Idle(p) \/ Busy(p))'
    BY <1>2, <1>4
  <2> QED
    BY <1>4, <2>1, <2>2, <2>3, SharingKeeps
<1>6. FacetsTypeOK' /\ CallsAreOwed' /\ CallsWait'
  BY <1>1, <1>2, <1>3, CallsUntouched DEF FacetsTypeOK, GateTypes, Everyone
<1> QED
  BY <1>3, <1>5, <1>6 DEF FacetInv

\* A collection settles, and the films that wait for it are complete.
LEMMA CollectionEndsKeeps ==
    ASSUME FacetInv, NEW o \in Others, OtherFails(o) \/ OtherDone(o)
    PROVE  FacetInv'
<1> DEFINE ds == {d \in joined : CollectionOf[d] = o}
           X == {o} \cup ds
<1>1. FacetsTypeOK /\ WorkIsShared
  BY DEF FacetInv
<1>2. /\ o \in Everyone /\ o \notin Documents /\ (Idle(o) \/ Busy(o))
      /\ ds \in SUBSET Documents /\ ds \subseteq joined /\ joined \subseteq Films
  BY <1>1, DocumentsAndOthers DEF WorkIsShared, FacetsTypeOK
<1>3. /\ joined' = joined \ ds /\ Answered(WaitingFor(ds)) /\ Released(ds)
      /\ UNCHANGED <<old, page>>
  BY DEF OtherFails, OtherDone, CollectionSettled
<1>4. /\ row' \in [Keys -> Row \cup {NoRow}]
      /\ fetches' \in [Documents -> 0 .. MaxFetches]
      /\ \A d \in Documents : fetches'[d] = IF d \in ds THEN 0 ELSE fetches[d]
      /\ calls' \subseteq Keys /\ CallsAreOwed' /\ CallsWait'
  BY <1>2, <1>3, SettlingKeeps
<1>5. /\ GateTypes' /\ GateKept' /\ Idle(o)'
      /\ reading' \subseteq Documents \cup Others
      /\ \A e \in Everyone \ {o} : Left(e)
  <2>1. CASE OtherFails(o)
    <3>1. sent[o] > 0 /\ Leaving(o) /\ reading' = reading
      BY <2>1 DEF OtherFails
    <3>2. /\ GateTypes' /\ GateKept' /\ o \notin reading
          /\ sent'[o] = 0 /\ Nowhere(queue', o)
          /\ \A e \in Everyone \ {o} :
                /\ Nowhere(queue, e) => sent'[e] = sent[e] /\ Nowhere(queue', e)
                /\ Once(queue, e) => \/ sent'[e] = sent[e] /\ Once(queue', e)
                                     \/ sent'[e] = sent[e] + 1 /\ Nowhere(queue', e)
      BY <1>2, <3>1, OneLeaves
    <3> QED
      BY <1>1, <3>1, <3>2 DEF Idle, Left, FacetsTypeOK
  <2>2. CASE OtherDone(o)
    <3>1. o \in reading /\ reading' = reading \ {o} /\ UNCHANGED gateVars
      BY <2>2 DEF OtherDone
    <3>2. sent[o] = 0 /\ Nowhere(queue, o)
      BY <1>2, <3>1 DEF Idle, Busy
    <3> QED
      BY <1>1, <3>1, <3>2, GateUntouched DEF Idle, Left, gateVars, FacetsTypeOK
  <2> QED
    BY <2>1, <2>2
<1> HIDE DEF ds
<1>6. ASSUME NEW d \in Documents, d \in ds
      PROVE  Carried(d)'
  <2>1. Idle(d) /\ d \in Everyone \ {o}
    <3>1. Carried(d) /\ d \in joined /\ d # o /\ d \in Everyone
      BY <1>1, <1>2, <1>6, DocumentsAndOthers DEF WorkIsShared
    <3> QED
      BY <3>1 DEF Carried
  <2>2. Idle(d)'
    BY <1>5, <2>1, LeftIsKept
  <2> QED
    BY <1>3, <1>4, <1>6, <2>2 DEF Carried
<1>7. WorkIsShared'
  <2>1. ASSUME NEW d \in joined'
        PROVE  d \in joined /\ CollectionOf[d] \notin X
    <3>1. d \in joined /\ d \notin ds /\ d \in Films
      BY <1>2, <1>3, <2>1
    <3>2. CollectionOf[d] # o /\ CollectionOf[d] \notin ds
      BY <1>2, <3>1, DocumentsAndOthers DEF ds
    <3> QED
      BY <3>2, <3>1
  <2>2. joined' \subseteq Films /\ X \in SUBSET Everyone
    BY <1>2, <1>3, DocumentsAndOthers
  <2>3. /\ \A d \in Documents \ X : fetches'[d] = fetches[d] /\ (d \in joined' <=> d \in joined)
        /\ \A d \in Documents \cap X : Carried(d)'
        /\ \A p \in Others \cap X : (Idle(p) \/ Busy(p))'
    BY <1>2, <1>3, <1>4, <1>5, <1>6, DocumentsAndOthers
  <2>4. \A e \in Everyone \ X : Left(e)
    BY <1>5
  <2> HIDE DEF X
  <2> QED
    BY <2>1, <2>2, <2>3, <2>4, SharingKeeps
<1>8. FacetsTypeOK'
  BY <1>1, <1>2, <1>3, <1>4, <1>5 DEF FacetsTypeOK, GateTypes, Everyone
<1> QED
  BY <1>4, <1>5, <1>7, <1>8 DEF FacetInv

LEMMA KeysKeep ==
    ASSUME FacetInv, NEW k \in Keys, GivesUp(k) \/ Expires(k)
    PROVE  FacetInv'
<1>1. FacetsTypeOK /\ CallsWait /\ CallsAreOwed /\ WorkIsShared
  BY DEF FacetInv
<1>2. GateTypes' /\ GateKept' /\ UNCHANGED <<fetches, reading, joined, sent, queue, page>>
  BY GateUntouched DEF GivesUp, Expires, gateVars
<1>3. /\ calls' \subseteq calls
      /\ row' \in [Keys -> Row \cup {NoRow}] /\ old' \in [Keys -> Outcomes \cup {"none"}]
      /\ \A j \in calls' : ~row'[j].fresh
  <2>1. CASE GivesUp(k)
    <3>1. /\ calls' = calls \ {k} /\ old' = old
          /\ row' = [j \in Keys |-> IF j \in {k} THEN [outcome |-> "failed", fresh |-> TRUE]
                                    ELSE row[j]]
      BY <2>1 DEF GivesUp, Written, Failing
    <3>2. [outcome |-> "failed", fresh |-> TRUE] \in Row
      BY DEF Row, Outcomes
    <3> QED
      BY <1>1, <3>1, <3>2 DEF FacetsTypeOK, CallsAreOwed, Current
  <2>2. CASE Expires(k)
    <3>1. calls' = calls
      BY <2>2 DEF Expires
    <3>2. CASE Current(k) /\ row' = [row EXCEPT ![k].fresh = FALSE] /\ UNCHANGED old
      <4>1. row[k] \in Row
        BY <1>1, <3>2 DEF FacetsTypeOK, Current, NoRow
      <4>2. [row[k] EXCEPT !.fresh = FALSE] \in Row /\ ~[row[k] EXCEPT !.fresh = FALSE].fresh
        BY <4>1 DEF Row
      <4>3. row' = [row EXCEPT ![k] = [row[k] EXCEPT !.fresh = FALSE]]
        BY <3>2
      <4> QED
        BY <1>1, <3>1, <3>2, <4>2, <4>3 DEF FacetsTypeOK, CallsAreOwed, Current
    <3>3. CASE old' = [old EXCEPT ![k] = "none"] /\ UNCHANGED row
      BY <1>1, <3>1, <3>3 DEF FacetsTypeOK, CallsAreOwed, Current
    <3> QED
      BY <2>2, <3>2, <3>3 DEF Expires
  <2> QED
    BY <2>1, <2>2
<1>4. FacetsTypeOK'
  BY <1>1, <1>2, <1>3 DEF FacetsTypeOK, GateTypes, Everyone
<1>5. WorkIsShared'
  BY <1>1, <1>2 DEF WorkIsShared, Carried, Idle, Busy
<1>6. CallsAreOwed' /\ CallsWait'
  BY <1>1, <1>2, <1>3 DEF CallsAreOwed, CallsWait, Current
<1> QED
  BY <1>2, <1>4, <1>5, <1>6 DEF FacetInv

\* An empty gate, with nothing in flight.
LEMMA EmptyGate ==
    ASSUME sent' = [d \in Everyone |-> 0], queue' = <<>>, calls' = {},
           fetches' = [d \in Documents |-> 0], reading' = {}, joined' = {}
    PROVE  GateTypes' /\ GateKept' /\ CallsWait' /\ CallsAreOwed' /\ WorkIsShared'
<1>1. /\ GateTypes' /\ Len(queue') = 0
      /\ sent' \in [Everyone -> Int] /\ \A d \in Everyone : sent'[d] = 0
  BY DEF GateTypes
<1>2. Executing' = 0
  BY <1>1, EveryoneIsFinite, TotalOfNone DEF Executing
<1>3. GateKept'
  BY <1>1, <1>2, FacetsAssumption DEF GateKept, FacetsAssumption
<1>4. \A x \in Everyone : Idle(x)'
  BY <1>1 DEF Idle, Nowhere
<1>5. WorkIsShared'
  BY <1>4, DocumentsAndOthers DEF WorkIsShared, Carried
<1> QED
  BY <1>1, <1>3, <1>5 DEF CallsWait, CallsAreOwed

LEMMA BootKeeps ==
    ASSUME FacetInv, NEW changed \in SUBSET Upgraded, Boot(changed)
    PROVE  FacetInv'
<1>1. FacetsTypeOK
  BY DEF FacetInv
<1>2. GateTypes' /\ GateKept' /\ CallsWait' /\ CallsAreOwed' /\ WorkIsShared'
  BY <1>1, EmptyGate DEF Boot, FacetsTypeOK, Everyone
<1>3. row' \in [Keys -> Row \cup {NoRow}]
  BY <1>1 DEF Boot, FacetsTypeOK
<1>4. old' \in [Keys -> Outcomes \cup {"none"}]
  <2>1. \A k \in Keys : Current(k) => row[k].outcome \in Outcomes
    BY <1>1 DEF FacetsTypeOK, Current, Row, NoRow
  <2>2. \A k \in Keys : OldAfter(k, changed) \in Outcomes \cup {"none"}
    BY <1>1, <2>1 DEF OldAfter, FacetsTypeOK
  <2> QED
    BY <2>2 DEF Boot
<1>5. FacetsTypeOK'
  BY <1>1, <1>2, <1>3, <1>4, FacetsAssumption DEF Boot, FacetsTypeOK, GateTypes, Everyone, FacetsAssumption
<1> QED
  BY <1>2, <1>5 DEF FacetInv

LEMMA FacetInvHolds == Spec => []FacetInv
<1>1. Init => FacetInv
  <2> SUFFICES ASSUME Init PROVE FacetInv
    OBVIOUS
  <2>1. /\ sent \in [Everyone -> Int] /\ \A d \in Everyone : sent[d] = 0 /\ Len(queue) = 0
    BY DEF Init, Everyone
  <2>2. Executing = 0
    BY <2>1, EveryoneIsFinite, TotalOfNone DEF Executing
  <2>3. GateKept
    BY <2>1, <2>2, FacetsAssumption DEF Init, GateKept, FacetsAssumption
  <2>4. FacetsTypeOK
    BY FacetsAssumption DEF Init, FacetsTypeOK, FacetsAssumption
  <2>5. \A x \in Everyone : Idle(x)
    BY <2>1 DEF Init, Idle, Nowhere, Everyone
  <2>6. CallsWait /\ CallsAreOwed
    BY DEF Init, CallsWait, CallsAreOwed
  <2>7. WorkIsShared
    BY <2>5, DocumentsAndOthers DEF Init, WorkIsShared, Carried
  <2> QED
    BY <2>3, <2>4, <2>6, <2>7 DEF FacetInv
<1>2. FacetInv /\ [Next]_vars => FacetInv'
  <2> SUFFICES ASSUME FacetInv, [Next]_vars
               PROVE  FacetInv'
    OBVIOUS
  <2>1. page \in [Titles -> {"closed", "polling", "settled"}]
    BY DEF FacetInv, FacetsTypeOK
  <2>2. ASSUME NEW t \in Titles, Opens(t) \/ Polls(t)
        PROVE  FacetInv'
    <3>1. Ask(t) /\ page' \in [Titles -> {"closed", "polling", "settled"}]
      BY <2>1, <2>2 DEF Opens, Polls, PageLoads
    <3> QED
      BY <3>1, AskKeeps
  <2>3. ASSUME NEW t \in Titles, AskedAside(t)
        PROVE  FacetInv'
    BY <2>1, <2>3, AskKeeps DEF AskedAside
  <2>4. ASSUME NEW t \in Titles, Closes(t)
        PROVE  FacetInv'
    <3>1. GateKept' /\ GateTypes'
      BY <2>4, GateUntouched DEF Closes
    <3>2. FacetsTypeOK'
      BY <2>1, <2>4 DEF Closes, FacetInv, FacetsTypeOK, cacheVars, gateVars
    <3> QED
      BY <2>4, <3>1, <3>2
         DEF Closes, FacetInv, CallsWait, CallsAreOwed, Current, WorkIsShared, Carried, Idle, Busy,
             cacheVars, gateVars
  <2>5. CASE UNCHANGED vars
    <3>1. GateKept'
      BY <2>5, GateUntouched DEF vars
    <3>2. FacetsTypeOK'
      BY <2>5 DEF vars, FacetInv, FacetsTypeOK, cacheVars, gateVars
    <3> QED
      BY <2>5, <3>1, <3>2
         DEF vars, FacetInv, CallsWait, CallsAreOwed, Current, WorkIsShared, Carried, Idle, Busy,
             cacheVars, gateVars
  <2> QED
    BY <2>2, <2>3, <2>4, <2>5, OtherAsksKeeps, OtherReturnsKeeps, CollectionEndsKeeps, FetchEndsKeeps,
       BodyEndsKeeps, JoinsKeeps, KeysKeep, BootKeeps DEF Next
<1> QED
  BY <1>1, <1>2, PTL DEF Spec

-----------------------------------------------------------------------------
(* The theorems.                                                           *)

\* Rows, calls, documents and the gate keep their types.
THEOREM FacetTypes == Spec => []FacetsTypeOK
<1>1. FacetInv => FacetsTypeOK
  BY DEF FacetInv
<1> QED
  BY <1>1, FacetInvHolds, PTL

\* `AsyncCache`: a document in flight is exactly one fetch, in a slot or in line, or
\* one body, or waits for its collection, however many facets, pages, agents and warm
\* loops ask for it, and though calls give up on it; and a collection is at most one
\* fetch or one body, however many films share it.
THEOREM UpstreamIsSpared == Spec => []PoliteUpstream
<1>1. FacetInv => PoliteUpstream
  BY SharedIsPolite
<1> QED
  BY <1>1, FacetInvHolds, PTL

\* `callProvider`: no call is left waiting for a document nobody fetches, nor a film for
\* a collection nobody fetches.
THEOREM NoCallIsForgotten == Spec => []CallsAreCarried
<1>1. FacetInv => CallsAreCarried
  BY SharedIsPolite
<1> QED
  BY <1>1, FacetInvHolds, PTL

\* `OUTBOUND_CONCURRENCY` and `OUTBOUND_QUEUE_LIMIT`: never more fetches than slots,
\* never a longer queue than its limit, and a queue only while every slot is taken.
THEOREM GateHolds == Spec => []GateKept
<1>1. FacetInv => GateKept
  BY DEF FacetInv
<1> QED
  BY <1>1, FacetInvHolds, PTL

\* A call owes an answer until it settles, so what it writes replaces nothing that is
\* drawn: only a superseded answer is drawn under it.
LEMMA WritingBlanksNothing ==
    ASSUME FacetInv, NEW says, DOMAIN says \subseteq calls, Written(says), UNCHANGED old,
           NEW k \in Keys, Draws(k)
    PROVE  Draws(k)'
<1>1. CASE k \in DOMAIN says
  <2>1. old[k] = "ok"
    BY <1>1 DEF FacetInv, CallsAreOwed, Draws
  <2> QED
    BY <2>1 DEF Draws
<1>2. CASE k \notin DOMAIN says
  <2>1. row'[k] = row[k]
    BY <1>2 DEF Written
  <2> QED
    BY <2>1 DEF Draws, Current
<1> QED
  BY <1>1, <1>2

LEMMA ShowsIsDraws ==
    /\ \A t, f : Shows(t, f) <=> \E k \in Keys : k[1] = t /\ FacetOf(k) = f /\ Draws(k)
    /\ \A t, f : Shows(t, f)' <=> \E k \in Keys : k[1] = t /\ FacetOf(k) = f /\ Draws(k)'
BY DEF Shows, Status, FacetOf

\* What a page draws stays drawn: only the expiry of a row blanks a facet, or a boot
\* that takes a superseded row for replaced.
THEOREM DrawnIsKept == Spec => DrawnStays
<1> DEFINE Kept == \A t \in Titles, f \in Facets :
                      (Shows(t, f) /\ ~Shows(t, f)') =>
                          \/ \E k \in Keys : Expires(k)
                          \/ \E changed \in SUBSET Upgraded :
                              Boot(changed) /\ \E k \in Keys : FacetOf(k) = f /\ Superseded(k, changed)
<1>1. FacetInv /\ [Next]_vars => [Kept]_vars
  <2> SUFFICES ASSUME FacetInv, Next, NEW t \in Titles, NEW f \in Facets,
                      Shows(t, f), ~Shows(t, f)', ~\E k \in Keys : Expires(k)
               PROVE  \E changed \in SUBSET Upgraded :
                          Boot(changed) /\ \E k \in Keys : FacetOf(k) = f /\ Superseded(k, changed)
    BY DEF Kept
  <2>1. PICK k \in Keys : k[1] = t /\ FacetOf(k) = f /\ Draws(k)
    BY ShowsIsDraws
  <2>2. ~Draws(k)'
    BY <2>1, ShowsIsDraws
  <2>3. ~UNCHANGED cacheVars
    BY <2>1, <2>2 DEF Draws, Current, cacheVars
  <2>4. \A says : DOMAIN says \subseteq calls /\ Written(says) => old' # old
    BY <2>1, <2>2, WritingBlanksNothing
  <2>5. \A ks : ks \subseteq calls /\ (Answered(ks) \/ Written(Failing(ks))) => old' # old
    BY <2>4 DEF Answered, Failing
  <2>6. ~\E d \in Documents :
            FetchFails(d) \/ FetchReturns(d) \/ DocumentDone(d) \/ NextFetch(d) \/ JoinsCollection(d)
    BY <2>3, <2>5 DEF FetchFails, FetchReturns, DocumentDone, NextFetch, JoinsCollection, WaitingFor
  <2>7. ASSUME NEW j \in Keys, GivesUp(j)
        PROVE  FALSE
    <3>1. {j} \subseteq calls /\ Written(Failing({j})) /\ old' = old
      BY <2>7 DEF GivesUp
    <3> QED
      BY <2>5, <3>1
  <2>8. ~\E u \in Titles : Opens(u) \/ Polls(u) \/ AskedAside(u) \/ Closes(u)
    BY <2>3 DEF Opens, Polls, AskedAside, Closes, PageLoads, Ask
  <2>9. ~\E o \in Others : OtherAsks(o) \/ OtherReturns(o) \/ OtherFails(o) \/ OtherDone(o)
    <3>1. \A o : CollectionSettled(o) => \E ks : ks \subseteq calls /\ Answered(ks) /\ old' = old
      BY DEF CollectionSettled, WaitingFor
    <3> QED
      BY <2>3, <2>5, <3>1 DEF OtherAsks, OtherReturns, OtherFails, OtherDone
  <2>10. PICK changed \in SUBSET Upgraded : Boot(changed)
    BY <2>6, <2>7, <2>8, <2>9 DEF Next
  <2>11. /\ k[2][1] \in changed /\ Current(k) => old[k] = "none"
         /\ old'[k] = OldAfter(k, changed)
         /\ row'[k] = IF k[2][1] \in changed THEN NoRow ELSE row[k]
    BY <2>10 DEF Boot
  <2>12. Superseded(k, changed)
    <3>1. CASE k[2][1] \in changed
      BY <2>1, <2>2, <2>11, <3>1 DEF Draws, OldAfter, Replaced, Current
    <3>2. CASE k[2][1] \notin changed
      BY <2>1, <2>2, <2>11, <3>2 DEF Draws, OldAfter, Replaced, Current, Superseded
    <3> QED
      BY <3>1, <3>2
  <2> QED
    BY <2>1, <2>10, <2>12
<1> QED
  BY <1>1, FacetInvHolds, PTL DEF Spec, DrawnStays
=============================================================================
