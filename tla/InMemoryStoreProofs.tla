------------------------ MODULE InMemoryStoreProofs ------------------------
(***************************************************************************)
(* Facts about the pure steps of InMemoryStore, for every store record,    *)
(* every set of streams and identifiers and every batch: what append       *)
(* builds, what restore accepts and what the loads return.  They serve     *)
(* every specification built on InMemoryStore.                             *)
(***************************************************************************)
EXTENDS InMemoryStore, WellFoundedInduction, SequenceTheorems, TLAPS

-----------------------------------------------------------------------------
\* Induction over the natural numbers, stated with sets.  The library's
\* induction theorems take the property as an operator; here a property P is
\* given as the set {n \in Nat : P(n)} of the numbers that have it, which a
\* proof can name with DEFINE.

\* Every non-empty set of naturals has a least element.
LEMMA LeastElement ==
  ASSUME NEW S, S \subseteq Nat, S # {}
  PROVE  \E m \in S : \A k \in S : m <= k
<1> DEFINE R == OpToRel(<, Nat)
<1>1. \A x, y \in Nat : x < y => <<x, y>> \in R
  BY Zenon DEF OpToRel
<1>2. IsWellFoundedOn(R, Nat)
  BY NatLessThanWellFounded, Zenon
<1> HIDE DEF R
<1>3. PICK m \in S : \A k \in S : ~ (<<k, m>> \in R)
  BY <1>2, WFMin, Zenon
<1>4. \A k \in S : ~ (k < m)
  BY <1>1, <1>3, Zenon
<1>5. \A k \in S : m <= k
  BY <1>4
<1>6. QED
  BY <1>5

\* Induction: a set with 0 that is closed under successor has every natural.
LEMMA InductionOnNat ==
  ASSUME NEW S, 0 \in S, \A n \in Nat : n \in S => n + 1 \in S
  PROVE  \A n \in Nat : n \in S
<1> DEFINE C == {n \in Nat : n \notin S}
<1> SUFFICES ASSUME C # {} PROVE FALSE
  OBVIOUS
<1>1. PICK m \in C : \A k \in C : m <= k
  BY LeastElement
<1>2. m \in Nat /\ m # 0 /\ m - 1 \in Nat /\ m - 1 \notin C
  BY <1>1
<1>3. m \in S
  BY <1>2
<1>4. QED
  BY <1>3

\* Induction up to a bound.
LEMMA InductionUpTo ==
  ASSUME NEW b \in Nat, NEW S, 0 \in S, \A n \in 0..(b - 1) : n \in S => n + 1 \in S
  PROVE  \A n \in 0..b : n \in S
<1> DEFINE T == {n \in Nat : n <= b => n \in S}
<1>1. 0 \in T
  OBVIOUS
<1>2. \A n \in Nat : n \in T => n + 1 \in T
  OBVIOUS
<1> HIDE DEF T
<1>3. \A n \in Nat : n \in T
  BY <1>1, <1>2, InductionOnNat
<1>4. QED
  BY <1>3 DEF T

\* Every non-empty bounded set of naturals has a greatest element.
LEMMA GreatestElement ==
  ASSUME NEW S, S \subseteq Nat, S # {}, NEW b \in Nat, \A k \in S : k <= b
  PROVE  \E m \in S : \A k \in S : k <= m
<1> DEFINE B == {c \in Nat : \A k \in S : k <= c}
<1>1. B \subseteq Nat /\ b \in B
  OBVIOUS
<1>2. PICK m \in B : \A c \in B : m <= c
  BY <1>1, LeastElement
<1>3. ASSUME m \notin S PROVE FALSE
  <2>1. m \in Nat /\ \A k \in S : k \in Nat /\ k < m
    BY <1>2, <1>3
  <2>2. m - 1 \in Nat
    <3>1. PICK k \in S : k \in Nat /\ k < m
      BY <2>1
    <3>2. QED
      BY <2>1, <3>1
  <2>3. \A k \in S : k <= m - 1
    BY <2>1, <2>2
  <2>4. m - 1 \in B
    BY <2>2, <2>3
  <2>5. QED
    BY <2>2, <2>4, <1>2
<1>4. QED
  BY <1>2, <1>3

-----------------------------------------------------------------------------
\* The recursion of FlattenSeq is well-founded: its function exists.
LEMMA FlattenRecursion ==
  ASSUME NEW seqs, Len(seqs) \in Nat, Len(seqs) # 0
  PROVE  \E c : /\ c = [i \in 1..Len(seqs) |-> IF i = 1 THEN seqs[i] ELSE c[i - 1] \o seqs[i]]
                /\ FlattenSeq(seqs) = c[Len(seqs)]
<1> DEFINE Rec(c, n) == c = [i \in 1..n |-> IF i = 1 THEN seqs[i] ELSE c[i - 1] \o seqs[i]]
           N == {n \in Nat : \E c : Rec(c, n)}
<1>1. 0 \in N
  <2>1. Rec([i \in 1..0 |-> <<>>], 0)
    OBVIOUS
  <2>2. QED
    BY <2>1
<1>2. ASSUME NEW n \in Nat, n \in N PROVE n + 1 \in N
  <2>1. PICK c : Rec(c, n)
    BY <1>2
  <2> DEFINE new == IF n + 1 = 1 THEN seqs[n + 1] ELSE c[n] \o seqs[n + 1]
             d == [i \in 1..(n + 1) |-> IF i = n + 1 THEN new ELSE c[i]]
  <2>2. ASSUME NEW i \in 1..(n + 1)
        PROVE  d[i] = IF i = 1 THEN seqs[i] ELSE d[i - 1] \o seqs[i]
    <3>1. CASE i = n + 1 /\ n = 0
      BY <3>1
    <3>2. CASE i = n + 1 /\ n # 0
      <4>1. i # 1 /\ i - 1 = n /\ n \in 1..(n + 1) /\ n # n + 1 /\ n + 1 # 1
        BY <3>2
      <4>2. d[i - 1] = c[n] /\ d[i] = new /\ new = c[n] \o seqs[n + 1]
        BY <3>2, <4>1
      <4>3. QED
        BY <3>2, <4>1, <4>2
    <3>3. CASE i # n + 1 /\ i = 1
      <4>1. 1 \in 1..n
        BY <3>3
      <4>2. c[1] = seqs[1] /\ d[1] = c[1]
        BY <2>1, <3>3, <4>1
      <4>3. QED
        BY <3>3, <4>2
    <3>4. CASE i # n + 1 /\ i # 1
      <4>1. i \in 1..n /\ i - 1 \in 1..(n + 1) /\ i - 1 # n + 1
        BY <3>4
      <4>2. d[i] = c[i] /\ d[i - 1] = c[i - 1]
        BY <3>4, <4>1
      <4> HIDE DEF d
      <4>3. c[i] = c[i - 1] \o seqs[i]
        BY <2>1, <3>4, <4>1
      <4>4. QED
        BY <3>4, <4>2, <4>3
    <3>5. QED
      BY <3>1, <3>2, <3>3, <3>4
  <2>3. d = [i \in 1..(n + 1) |-> d[i]]
    OBVIOUS
  <2> HIDE DEF d
  <2>4. Rec(d, n + 1)
    BY <2>2, <2>3
  <2>5. n + 1 \in Nat /\ \E e : Rec(e, n + 1)
    <3> HIDE DEF Rec
    <3>1. QED
      BY <2>4
  <2>6. QED
    BY <2>5
<1> HIDE DEF N
<1>3. Len(seqs) \in N
  BY <1>1, <1>2, InductionOnNat
<1>4. \E c : Rec(c, Len(seqs))
  BY <1>3 DEF N
<1>5. Rec(CHOOSE c : Rec(c, Len(seqs)), Len(seqs))
  BY <1>4, Zenon
<1>6. FlattenSeq(seqs) = (CHOOSE c : Rec(c, Len(seqs)))[Len(seqs)]
  BY Zenon DEF FlattenSeq
<1>7. QED
  BY <1>5, <1>6, Zenon

\* The same, with the events of every prefix.
LEMMA FlattenSteps ==
  ASSUME NEW S, NEW seqs \in Seq(Seq(S)), seqs # <<>>
  PROVE  \E c : /\ FlattenSeq(seqs) = c[Len(seqs)]
                /\ c[1] = seqs[1]
                /\ \A i \in 1..(Len(seqs) - 1) : c[i + 1] = c[i] \o seqs[i + 1]
<1>1. Len(seqs) \in Nat /\ Len(seqs) # 0
  BY LenProperties, EmptySeq
<1>2. PICK c : /\ c = [i \in 1..Len(seqs) |-> IF i = 1 THEN seqs[i] ELSE c[i - 1] \o seqs[i]]
               /\ FlattenSeq(seqs) = c[Len(seqs)]
  BY <1>1, FlattenRecursion, Zenon
<1>3. \A i \in 1..Len(seqs) : c[i] = IF i = 1 THEN seqs[i] ELSE c[i - 1] \o seqs[i]
  BY <1>2, Zenon
<1>4. c[1] = seqs[1]
  BY <1>1, <1>3
<1>5. ASSUME NEW i \in 1..(Len(seqs) - 1) PROVE c[i + 1] = c[i] \o seqs[i + 1]
  <2>1. i + 1 \in 1..Len(seqs) /\ i + 1 # 1 /\ (i + 1) - 1 = i
    BY <1>1
  <2>2. QED
    BY <1>3, <2>1
<1>6. QED
  BY <1>2, <1>4, <1>5

\* Flattening no sequence.
LEMMA EmptyFlattened == FlattenSeq(<<>>) = <<>>
<1>1. Len(<<>>) = 0
  BY EmptySeq
<1>2. QED
  BY <1>1, Zenon DEF FlattenSeq

\* The events of the batches are events.
LEMMA FlattenType ==
  ASSUME NEW S, NEW seqs \in Seq(Seq(S))
  PROVE  FlattenSeq(seqs) \in Seq(S)
<1>1. CASE seqs = <<>>
  <2>1. FlattenSeq(seqs) = <<>>
    BY <1>1, EmptyFlattened
  <2>2. QED
    BY <2>1, EmptySeq
<1>2. CASE seqs # <<>>
  <2>1. Len(seqs) \in Nat /\ Len(seqs) # 0 /\ \A i \in 1..Len(seqs) : seqs[i] \in Seq(S)
    BY <1>2, LenProperties, EmptySeq, ElementOfSeq
  <2>2. PICK c : /\ FlattenSeq(seqs) = c[Len(seqs)]
                 /\ c[1] = seqs[1]
                 /\ \A i \in 1..(Len(seqs) - 1) : c[i + 1] = c[i] \o seqs[i + 1]
    BY <1>2, FlattenSteps
  <2> DEFINE N == {n \in Nat : n = 0 \/ c[n] \in Seq(S)}
  <2>3. 0 \in N
    OBVIOUS
  <2>4. ASSUME NEW n \in 0..(Len(seqs) - 1), n \in N PROVE n + 1 \in N
    <3>1. CASE n = 0
      BY <2>1, <2>2, <3>1
    <3>2. CASE n # 0
      <4>1. n \in 1..(Len(seqs) - 1) /\ n + 1 \in 1..Len(seqs) /\ n + 1 \in Nat
        BY <2>1, <3>2
      <4>2. c[n] \in Seq(S) /\ seqs[n + 1] \in Seq(S)
        BY <2>1, <2>4, <3>2, <4>1
      <4>3. c[n] \o seqs[n + 1] \in Seq(S)
        BY <4>2, ConcatProperties
      <4>4. QED
        BY <2>2, <4>1, <4>3
    <3>3. QED
      BY <3>1, <3>2
  <2> HIDE DEF N
  <2>5. \A n \in 0..Len(seqs) : n \in N
    BY <2>1, <2>3, <2>4, InductionUpTo
  <2>6. Len(seqs) \in N
    BY <2>1, <2>5
  <2>7. QED
    BY <2>1, <2>2, <2>6 DEF N
<1>3. QED
  BY <1>1, <1>2

\* One more batch adds its events.
LEMMA FlattenAppend ==
  ASSUME NEW S, NEW seqs \in Seq(Seq(S)), NEW b \in Seq(S)
  PROVE  FlattenSeq(Append(seqs, b)) = FlattenSeq(seqs) \o b
<1> DEFINE more == Append(seqs, b)
           m == Len(seqs)
<1>1. /\ more \in Seq(Seq(S)) /\ more # <<>> /\ Len(more) = m + 1 /\ m \in Nat
      /\ more[m + 1] = b
      /\ \A i \in 1..m : more[i] = seqs[i]
  BY AppendProperties, LenProperties
<1> HIDE DEF more
<1>2. PICK d : /\ FlattenSeq(more) = d[Len(more)]
               /\ d[1] = more[1]
               /\ \A i \in 1..(Len(more) - 1) : d[i + 1] = d[i] \o more[i + 1]
  BY <1>1, FlattenSteps
<1>3. CASE seqs = <<>>
  <2>1. m = 0
    BY <1>3, EmptySeq
  <2>2. FlattenSeq(seqs) = <<>>
    BY <1>3, EmptyFlattened
  <2>3. FlattenSeq(more) = b
    BY <1>1, <1>2, <2>1
  <2>4. <<>> \o b = b
    BY ConcatEmptySeq
  <2>5. QED
    BY <2>2, <2>3, <2>4 DEF more
<1>4. CASE seqs # <<>>
  <2>1. m # 0
    BY <1>4, EmptySeq
  <2>2. PICK c : /\ FlattenSeq(seqs) = c[m]
                 /\ c[1] = seqs[1]
                 /\ \A i \in 1..(m - 1) : c[i + 1] = c[i] \o seqs[i + 1]
    BY <1>4, FlattenSteps
  <2> DEFINE N == {n \in Nat : n = 0 \/ c[n] = d[n]}
  <2>3. 0 \in N
    OBVIOUS
  <2>4. ASSUME NEW n \in 0..(m - 1), n \in N PROVE n + 1 \in N
    <3>1. CASE n = 0
      <4>1. more[1] = seqs[1]
        BY <1>1, <2>1
      <4>2. QED
        BY <1>2, <2>2, <3>1, <4>1
    <3>2. CASE n # 0
      <4>1. n \in 1..(m - 1) /\ n \in 1..(Len(more) - 1) /\ n + 1 \in 1..m /\ n + 1 \in Nat
        BY <1>1, <3>2
      <4>2. c[n + 1] = c[n] \o seqs[n + 1] /\ d[n + 1] = d[n] \o more[n + 1]
        BY <1>2, <2>2, <4>1
      <4>3. c[n] = d[n] /\ more[n + 1] = seqs[n + 1]
        BY <1>1, <2>4, <3>2, <4>1
      <4>4. QED
        BY <4>1, <4>2, <4>3
    <3>3. QED
      BY <3>1, <3>2
  <2> HIDE DEF N
  <2>5. \A n \in 0..m : n \in N
    BY <1>1, <2>3, <2>4, InductionUpTo
  <2>6. c[m] = d[m]
    <3>1. m \in N
      BY <1>1, <2>5
    <3>2. QED
      BY <2>1, <3>1 DEF N
  <2>7. d[m + 1] = d[m] \o b
    <3>1. m \in 1..(Len(more) - 1)
      BY <1>1, <2>1
    <3>2. QED
      BY <1>1, <1>2, <3>1
  <2>8. QED
    BY <1>1, <1>2, <2>2, <2>6, <2>7 DEF more
<1>5. QED
  BY <1>3, <1>4

\* A function on the first numbers is a sequence.
LEMMA FunctionIsSeq ==
  ASSUME NEW S, NEW n \in Nat, NEW f \in [1..n -> S]
  PROVE  f \in Seq(S) /\ Len(f) = n
OBVIOUS

\* All elements are good if and only if they are in every sequence.
LEMMA FlattenMembers ==
  ASSUME NEW S, NEW G, G \subseteq S, NEW seqs \in Seq(Seq(S))
  PROVE  FlattenSeq(seqs) \in Seq(G) <=> \A c \in 1..Len(seqs) : seqs[c] \in Seq(G)
<1>1. PICK m : m = Len(seqs)
  OBVIOUS
<1>2. m \in Nat /\ \A c \in 1..m : seqs[c] \in Seq(S)
  BY <1>1, LenProperties, ElementOfSeq
<1>3. ASSUME NEW a \in Seq(S), NEW b \in Seq(S)
      PROVE  a \o b \in Seq(S) /\ (a \o b \in Seq(G) <=> a \in Seq(G) /\ b \in Seq(G))
  <2>1. PICK c : c = a \o b
    OBVIOUS
  <2>2. /\ c \in Seq(S) /\ Len(c) = Len(a) + Len(b) /\ Len(a) \in Nat /\ Len(b) \in Nat
        /\ \A i \in 1..(Len(a) + Len(b)) : c[i] = IF i <= Len(a) THEN a[i] ELSE b[i - Len(a)]
    BY <2>1, ConcatProperties, LenProperties
  <2>3. ASSUME c \in Seq(G) PROVE a \in Seq(G) /\ b \in Seq(G)
    <3>1. ASSUME NEW i \in 1..Len(a) PROVE a[i] \in G
      <4>1. i \in 1..Len(c) /\ c[i] = a[i]
        BY <2>2
      <4>2. QED
        BY <2>3, <4>1, ElementOfSeq
    <3>2. ASSUME NEW i \in 1..Len(b) PROVE b[i] \in G
      <4>1. i + Len(a) \in 1..Len(c) /\ ~(i + Len(a) <= Len(a)) /\ (i + Len(a)) - Len(a) = i
        BY <2>2
      <4>2. c[i + Len(a)] = b[i]
        BY <2>2, <4>1
      <4>3. QED
        BY <2>3, <4>1, <4>2, ElementOfSeq
    <3>3. a \in [1..Len(a) -> G] /\ b \in [1..Len(b) -> G]
      BY <3>1, <3>2, LenProperties
    <3>4. QED
      BY <2>2, <3>3, FunctionIsSeq
  <2>4. ASSUME a \in Seq(G), b \in Seq(G) PROVE c \in Seq(G)
    BY <2>1, <2>4, ConcatProperties
  <2>5. QED
    BY <2>1, <2>2, <2>3, <2>4
<1>4. CASE m = 0
  <2>1. seqs = <<>>
    BY <1>1, <1>4, EmptySeq
  <2>2. FlattenSeq(seqs) \in Seq(G)
    BY <2>1, EmptyFlattened, EmptySeq
  <2>3. QED
    BY <1>1, <1>4, <2>2
<1>5. CASE m # 0
  <2>1. seqs # <<>>
    BY <1>1, <1>5, EmptySeq
  <2>2. PICK c : /\ FlattenSeq(seqs) = c[m]
                 /\ c[1] = seqs[1]
                 /\ \A i \in 1..(m - 1) : c[i + 1] = c[i] \o seqs[i + 1]
    BY <1>1, <2>1, FlattenSteps
  <2> DEFINE Good(k) == \A j \in 1..k : seqs[j] \in Seq(G)
             N == {k \in Nat : k = 0 \/ (c[k] \in Seq(S) /\ (c[k] \in Seq(G) <=> Good(k)))}
  <2>3. 0 \in N
    OBVIOUS
  <2>4. ASSUME NEW k \in 0..(m - 1), k \in N PROVE k + 1 \in N
    <3>1. k + 1 \in 1..m /\ k + 1 \in Nat
      BY <1>2
    <3>2. CASE k = 0
      <4>1. c[1] = seqs[1] /\ seqs[1] \in Seq(S) /\ k + 1 = 1
        BY <1>2, <2>2, <3>1, <3>2
      <4>2. Good(1) <=> seqs[1] \in Seq(G)
        OBVIOUS
      <4>3. QED
        BY <4>1, <4>2
    <3>3. CASE k # 0
      <4>1. k \in 1..(m - 1)
        BY <1>2, <3>3
      <4>2. c[k + 1] = c[k] \o seqs[k + 1]
        BY <2>2, <4>1
      <4>3. c[k] \in Seq(S) /\ (c[k] \in Seq(G) <=> Good(k))
        BY <2>4, <3>3
      <4>4. Good(k + 1) <=> Good(k) /\ seqs[k + 1] \in Seq(G)
        BY <3>1
      <4> HIDE DEF Good
      <4>5. seqs[k + 1] \in Seq(S)
        BY <1>2, <3>1
      <4>6. c[k + 1] \in Seq(S) /\ (c[k + 1] \in Seq(G) <=> Good(k + 1))
        BY <1>3, <4>2, <4>3, <4>4, <4>5
      <4>7. QED
        BY <3>1, <4>6
    <3>4. QED
      BY <3>2, <3>3
  <2> HIDE DEF N, Good
  <2>5. m \in N
    <3>1. m \in 0..m
      BY <1>2
    <3>2. QED
      BY <1>2, <2>3, <2>4, <3>1, InductionUpTo
  <2>6. FlattenSeq(seqs) \in Seq(G) <=> Good(m)
    BY <1>5, <2>2, <2>5 DEF N
  <2>7. QED
    BY <1>1, <2>6 DEF Good
<1>6. QED
  BY <1>4, <1>5

-----------------------------------------------------------------------------
\* The empty store of InMemoryStore::default is well-formed.
LEMMA EmptyStoreWellFormed == EmptyStore \in Store /\ WellFormed(EmptyStore)
<1>1. EmptyStore \in Store
  BY EmptySeq DEF EmptyStore, Store
<1>2. WellFormed(EmptyStore)
  BY DEF EmptyStore, WellFormed, GlobalPositions, StreamIndexSound, StreamIndexComplete, IdsUnique
<1>3. QED
  BY <1>1, <1>2

\* The fields of a store.
LEMMA StoreFields ==
  ASSUME NEW st \in Store
  PROVE  /\ st.events \in Seq(StoredEvent)
         /\ st.streams \in [Streams -> Seq(Nat)]
         /\ st.event_ids \in SUBSET EventIds
BY DEF Store

\* The version the next event of a stream gets is the number of events the
\* stream's index holds.
LEMMA NextVersionIsLength ==
  ASSUME NEW st \in Store, WellFormed(st), NEW s \in Streams
  PROVE  NextVersion(StreamVersion(st, s)) = Len(st.streams[s])
<1> DEFINE n == Len(st.streams[s])
<1>1. st.streams[s] \in Seq(Nat) /\ n \in Nat
  BY StoreFields, LenProperties
<1>2. CASE st.streams[s] = <<>>
  BY <1>1, <1>2, EmptySeq DEF NextVersion, StreamVersion
<1>3. CASE st.streams[s] # <<>>
  <2>1. n \in 1..n
    BY <1>1, <1>3, EmptySeq
  <2>2. st.events[st.streams[s][n] + 1].stream_version = n - 1
    BY <2>1 DEF WellFormed, StreamIndexSound
  <2>3. StreamVersion(st, s) = n - 1
    BY <1>3, <2>2 DEF StreamVersion
  <2>4. n - 1 # None
    BY <1>1, NoneAssumption
  <2>5. QED
    BY <1>1, <2>3, <2>4 DEF NextVersion
<1>4. QED
  BY <1>2, <1>3

\* A batch whose events carry the given identifiers carries no others.
LEMMA SameImage ==
  ASSUME NEW S, NEW b, NEW ids, \A k \in S : b[k].id = ids[k]
  PROVE  {b[k].id : k \in S} = {ids[k] : k \in S}
<1>1. ASSUME NEW x \in {b[k].id : k \in S} PROVE x \in {ids[k] : k \in S}
  BY Zenon
<1>2. ASSUME NEW x \in {ids[k] : k \in S} PROVE x \in {b[k].id : k \in S}
  BY Zenon
<1>3. QED
  BY <1>1, <1>2, Zenon

\* Shape of a prepared batch.
LEMMA PreparedBatch ==
  ASSUME NEW st \in Store, WellFormed(st), NEW s \in Streams, NEW ids \in Seq(EventIds)
  PROVE  LET b == PrepareAppend(st, s, ids)
         IN  /\ b \in Seq(StoredEvent)
             /\ Len(b) = Len(ids)
             /\ \A k \in 1..Len(ids) :
                  /\ b[k] \in StoredEvent
                  /\ b[k].id = ids[k]
                  /\ b[k].stream_id = s
                  /\ b[k].stream_version = Len(st.streams[s]) + k - 1
                  /\ b[k].global_position = Len(st.events) + k - 1
<1> DEFINE b == PrepareAppend(st, s, ids)
           v == Len(st.streams[s])
           p == Len(st.events)
<1>1. v \in Nat /\ p \in Nat /\ Len(ids) \in Nat
  BY StoreFields, LenProperties
<1>2. b = [k \in 1..Len(ids) |-> [id |-> ids[k], stream_id |-> s,
                                  stream_version |-> v + k - 1, global_position |-> p + k - 1]]
  BY NextVersionIsLength DEF PrepareAppend
<1>3. \A k \in 1..Len(ids) : ids[k] \in EventIds
  BY ElementOfSeq
<1>4. \A k \in 1..Len(ids) : b[k] \in StoredEvent
  BY <1>1, <1>2, <1>3 DEF StoredEvent
<1>5. b \in [1..Len(ids) -> StoredEvent]
  BY <1>2, <1>4
<1>6. b \in Seq(StoredEvent) /\ Len(b) = Len(ids)
  BY <1>1, <1>5, IsASeq
<1>7. QED
  BY <1>2, <1>4, <1>6

\* The store `new` is `st` with the batch b added to the log and to stream s.
Extended(st, new, s, b) ==
  LET old == Len(st.events)
      had == Len(st.streams[s])
      n == Len(b)
  IN  /\ new \in Store
      /\ Len(new.events) = old + n
      /\ \A i \in 1..old : new.events[i] = st.events[i]
      /\ \A i \in (old + 1)..(old + n) : new.events[i] = b[i - old]
      /\ Len(new.streams[s]) = had + n
      /\ \A k \in 1..had : new.streams[s][k] = st.streams[s][k]
      /\ \A k \in (had + 1)..(had + n) : new.streams[s][k] = old + (k - had) - 1
      /\ \A t \in Streams \ {s} : new.streams[t] = st.streams[t]
      /\ new.event_ids = st.event_ids \cup {b[k].id : k \in 1..n}
      /\ new.events = st.events \o b

\* The commit of a non-empty prepared batch, field by field.
LEMMA CommittedStore ==
  ASSUME NEW st \in Store, WellFormed(st), NEW s \in Streams, NEW ids \in Seq(EventIds),
         ids # <<>>
  PROVE  Extended(st, CommitPrepared(st, PrepareAppend(st, s, ids)), s, PrepareAppend(st, s, ids))
<1> DEFINE b == PrepareAppend(st, s, ids)
           new == CommitPrepared(st, b)
           old == Len(st.events)
           had == Len(st.streams[s])
           n == Len(ids)
           added == [k \in 1..n |-> old + k - 1]
<1>1. /\ old \in Nat /\ had \in Nat /\ n \in Nat /\ n > 0
      /\ st.events \in Seq(StoredEvent) /\ st.streams[s] \in Seq(Nat)
      /\ st.streams \in [Streams -> Seq(Nat)]
  BY StoreFields, LenProperties, EmptySeq
<1>2. /\ b \in Seq(StoredEvent) /\ Len(b) = n
      /\ \A k \in 1..n : b[k].id = ids[k] /\ b[k].stream_id = s
  BY PreparedBatch
<1>3. b # <<>> /\ b[1].stream_id = s
  BY <1>1, <1>2
<1>4. added \in Seq(Nat) /\ Len(added) = n /\ \A k \in 1..n : added[k] = old + k - 1
  <2>1. added \in [1..n -> Nat]
    BY <1>1
  <2>2. QED
    BY <1>1, <2>1, IsASeq
<1>5. {b[k].id : k \in 1..n} = {ids[k] : k \in 1..n}
  <2>1. \A k \in 1..n : b[k].id = ids[k]
    BY <1>2, Zenon
  <2> HIDE DEF b, n
  <2>2. QED
    BY <2>1, SameImage, Zenon
<1>6. new = [events |-> st.events \o b,
             streams |-> [st.streams EXCEPT ![s] = st.streams[s] \o added],
             event_ids |-> st.event_ids \cup {ids[k] : k \in 1..n}]
  BY <1>2, <1>3, <1>5 DEF CommitPrepared
<1> HIDE DEF new, b, added
<1>7. /\ st.events \o b \in Seq(StoredEvent)
      /\ Len(st.events \o b) = old + n
      /\ \A i \in 1..(old + n) :
            (st.events \o b)[i] = IF i <= old THEN st.events[i] ELSE b[i - old]
  <2>1. st.events \in Seq(StoredEvent) /\ b \in Seq(StoredEvent)
    BY <1>1, <1>2
  <2>2. /\ st.events \o b \in Seq(StoredEvent)
        /\ Len(st.events \o b) = Len(st.events) + Len(b)
        /\ \A i \in 1..(Len(st.events) + Len(b)) :
              (st.events \o b)[i] = IF i <= Len(st.events) THEN st.events[i] ELSE b[i - Len(st.events)]
    BY <2>1, ConcatProperties, Zenon
  <2>3. QED
    BY <1>2, <2>2, Zenon
<1>8. /\ st.streams[s] \o added \in Seq(Nat)
      /\ Len(st.streams[s] \o added) = had + n
      /\ \A k \in 1..(had + n) :
            (st.streams[s] \o added)[k] = IF k <= had THEN st.streams[s][k] ELSE added[k - had]
  <2>1. st.streams[s] \in Seq(Nat) /\ added \in Seq(Nat)
    BY <1>1, <1>4
  <2>2. /\ st.streams[s] \o added \in Seq(Nat)
        /\ Len(st.streams[s] \o added) = Len(st.streams[s]) + Len(added)
        /\ \A k \in 1..(Len(st.streams[s]) + Len(added)) :
              (st.streams[s] \o added)[k] = IF k <= Len(st.streams[s]) THEN st.streams[s][k]
                                                         ELSE added[k - Len(st.streams[s])]
    BY <2>1, ConcatProperties, Zenon
  <2>3. QED
    BY <1>4, <2>2, Zenon
<1>9. {ids[k] : k \in 1..n} \in SUBSET EventIds
  BY ElementOfSeq
<1>10. new \in Store
  <2>1. [st.streams EXCEPT ![s] = st.streams[s] \o added] \in [Streams -> Seq(Nat)]
    BY <1>1, <1>8
  <2>2. st.event_ids \cup {ids[k] : k \in 1..n} \in SUBSET EventIds
    BY <1>9, StoreFields
  <2>3. QED
    BY <1>6, <1>7, <2>1, <2>2 DEF Store
<1>11. /\ new.events = st.events \o b
       /\ new.streams[s] = st.streams[s] \o added
       /\ \A t \in Streams \ {s} : new.streams[t] = st.streams[t]
       /\ new.event_ids = st.event_ids \cup {ids[k] : k \in 1..n}
  BY <1>1, <1>6
<1>12. \A k \in (had + 1)..(had + n) : new.streams[s][k] = old + (k - had) - 1
  <2>1. SUFFICES ASSUME NEW k \in (had + 1)..(had + n)
                 PROVE  new.streams[s][k] = old + (k - had) - 1
    OBVIOUS
  <2>2. k \in 1..(had + n) /\ ~(k <= had) /\ k - had \in 1..n
    BY <1>1
  <2>3. new.streams[s][k] = added[k - had]
    BY <1>8, <1>11, <2>2
  <2>4. QED
    BY <1>4, <2>2, <2>3
<1>13. /\ \A i \in 1..old : new.events[i] = st.events[i]
       /\ \A i \in (old + 1)..(old + n) : new.events[i] = b[i - old]
  BY <1>1, <1>7, <1>11
<1>14. \A k \in 1..had : new.streams[s][k] = st.streams[s][k]
  BY <1>1, <1>8, <1>11
<1>15. Extended(st, new, s, b)
  BY <1>2, <1>5, <1>7, <1>8, <1>10, <1>11, <1>12, <1>13, <1>14 DEF Extended
<1>16. QED
  BY <1>15 DEF new, b

\* Appending a batch of fresh, distinct identifiers keeps a store well-formed.
LEMMA CommitWellFormed ==
  ASSUME NEW st \in Store, WellFormed(st), NEW s \in Streams, NEW ids \in Seq(EventIds),
         ids # <<>>, UniqueIds(st.event_ids, ids)
  PROVE  WellFormed(CommitPrepared(st, PrepareAppend(st, s, ids)))
<1> DEFINE b == PrepareAppend(st, s, ids)
           new == CommitPrepared(st, b)
           old == Len(st.events)
           had == Len(st.streams[s])
           n == Len(ids)
<1>1. old \in Nat /\ had \in Nat /\ n \in Nat /\ n > 0
  BY StoreFields, LenProperties, EmptySeq
<1>2. /\ Len(b) = n
      /\ \A k \in 1..n : /\ b[k].id = ids[k]
                         /\ b[k].stream_id = s
                         /\ b[k].stream_version = had + k - 1
                         /\ b[k].global_position = old + k - 1
  BY PreparedBatch
<1>3. /\ new \in Store
      /\ Len(new.events) = old + n
      /\ \A i \in 1..old : new.events[i] = st.events[i]
      /\ \A i \in (old + 1)..(old + n) : new.events[i] = b[i - old]
      /\ Len(new.streams[s]) = had + n
      /\ \A k \in 1..had : new.streams[s][k] = st.streams[s][k]
      /\ \A k \in (had + 1)..(had + n) : new.streams[s][k] = old + (k - had) - 1
      /\ \A t \in Streams \ {s} : new.streams[t] = st.streams[t]
      /\ new.event_ids = st.event_ids \cup {ids[k] : k \in 1..n}
  <2>1. Extended(st, new, s, b)
    BY CommittedStore
  <2>2. {b[k].id : k \in 1..n} = {ids[k] : k \in 1..n}
    <3>1. \A k \in 1..n : b[k].id = ids[k]
      BY <1>2, Zenon
    <3> HIDE DEF b, n
    <3>2. QED
      BY <3>1, SameImage, Zenon
  <2> HIDE DEF new, b
  <2>3. QED
    BY <1>2, <2>1, <2>2 DEF Extended
<1>0. Len(st.events) = old /\ Len(st.streams[s]) = had /\ Len(ids) = n
  OBVIOUS
<1> HIDE DEF new, b, old, had, n
<1>4. \A i \in (old + 1)..(old + n) :
        /\ i - old \in 1..n
        /\ new.events[i].id = ids[i - old]
        /\ new.events[i].stream_id = s
        /\ new.events[i].stream_version = had + (i - old) - 1
        /\ new.events[i].global_position = i - 1
  <2>1. SUFFICES ASSUME NEW i \in (old + 1)..(old + n)
                 PROVE  /\ i - old \in 1..n
                        /\ new.events[i].id = ids[i - old]
                        /\ new.events[i].stream_id = s
                        /\ new.events[i].stream_version = had + (i - old) - 1
                        /\ new.events[i].global_position = i - 1
    OBVIOUS
  <2>2. i - old \in 1..n /\ old + (i - old) - 1 = i - 1
    BY <1>1
  <2>3. new.events[i] = b[i - old]
    BY <1>3
  <2>4. QED
    BY <1>2, <2>2, <2>3
<1>5. GlobalPositions(new)
  <2>1. \A i \in 1..old : new.events[i].global_position = i - 1
    BY <1>0, <1>3 DEF WellFormed, GlobalPositions
  <2>2. \A i \in (old + 1)..(old + n) : new.events[i].global_position = i - 1
    BY <1>4
  <2>3. \A i \in 1..(old + n) : i \in 1..old \/ i \in (old + 1)..(old + n)
    BY <1>1
  <2>4. \A i \in 1..Len(new.events) : new.events[i].global_position = i - 1
    BY <1>3, <2>1, <2>2, <2>3
  <2>5. QED
    BY <2>4 DEF GlobalPositions
<1>6. StreamIndexSound(new)
  <2>1. SUFFICES ASSUME NEW t \in Streams, NEW k \in 1..Len(new.streams[t])
                 PROVE  /\ new.streams[t][k] + 1 \in 1..Len(new.events)
                        /\ new.events[new.streams[t][k] + 1].stream_id = t
                        /\ new.events[new.streams[t][k] + 1].stream_version = k - 1
                        /\ \A j \in 1..(k - 1) : new.streams[t][j] < new.streams[t][k]
    BY DEF StreamIndexSound
  <2>2. \A r \in Streams : \A m \in 1..Len(st.streams[r]) :
           /\ st.streams[r][m] + 1 \in 1..old
           /\ st.events[st.streams[r][m] + 1].stream_id = r
           /\ st.events[st.streams[r][m] + 1].stream_version = m - 1
           /\ \A j \in 1..(m - 1) : st.streams[r][j] < st.streams[r][m]
    BY <1>0 DEF WellFormed, StreamIndexSound
  <2>3. CASE t # s
    <3>1. new.streams[t] = st.streams[t] /\ k \in 1..Len(st.streams[t])
      BY <1>3, <2>3
    <3>2. /\ st.streams[t][k] + 1 \in 1..old
          /\ st.events[st.streams[t][k] + 1].stream_id = t
          /\ st.events[st.streams[t][k] + 1].stream_version = k - 1
          /\ \A j \in 1..(k - 1) : st.streams[t][j] < st.streams[t][k]
      BY <2>2, <3>1
    <3>3. new.events[st.streams[t][k] + 1] = st.events[st.streams[t][k] + 1]
      BY <1>3, <3>2
    <3>4. st.streams[t][k] + 1 \in 1..(old + n)
      BY <1>1, <3>2
    <3>5. QED
      BY <1>3, <3>1, <3>2, <3>3, <3>4
  <2>4. CASE t = s /\ k <= had
    <3>1. k \in 1..had /\ \A j \in 1..(k - 1) : j \in 1..had
      BY <1>1, <1>3, <2>4
    <3>2. /\ new.streams[t][k] = st.streams[s][k]
          /\ \A j \in 1..(k - 1) : new.streams[t][j] = st.streams[s][j]
      BY <1>3, <2>4, <3>1
    <3>3. /\ st.streams[s][k] + 1 \in 1..old
          /\ st.events[st.streams[s][k] + 1].stream_id = s
          /\ st.events[st.streams[s][k] + 1].stream_version = k - 1
          /\ \A j \in 1..(k - 1) : st.streams[s][j] < st.streams[s][k]
      BY <1>0, <2>2, <3>1
    <3>4. new.events[st.streams[s][k] + 1] = st.events[st.streams[s][k] + 1]
      BY <1>3, <3>3
    <3>5. st.streams[s][k] + 1 \in 1..(old + n)
      BY <1>1, <3>3
    <3>6. QED
      BY <1>3, <2>4, <3>2, <3>3, <3>4, <3>5
  <2>5. CASE t = s /\ ~(k <= had)
    <3>1. k \in (had + 1)..(had + n)
      BY <1>1, <1>3, <2>5
    <3>2. new.streams[t][k] = old + (k - had) - 1
      BY <1>3, <2>5, <3>1
    <3>3. new.streams[t][k] + 1 = old + (k - had) /\ old + (k - had) \in (old + 1)..(old + n)
      BY <1>1, <3>1, <3>2
    <3>4. ASSUME NEW j \in 1..(k - 1) PROVE new.streams[t][j] < new.streams[t][k]
      <4>1. CASE j <= had
        <5>1. j \in 1..had
          BY <1>1, <3>1, <4>1
        <5>2. new.streams[t][j] = st.streams[s][j] /\ st.streams[s][j] + 1 \in 1..old
          BY <1>0, <1>3, <2>2, <2>5, <5>1
        <5>3. st.streams[s][j] \in Nat
          BY <1>0, <5>1, StoreFields, ElementOfSeq
        <5>4. QED
          BY <1>1, <3>1, <3>2, <5>2, <5>3
      <4>2. CASE ~(j <= had)
        <5>1. j \in (had + 1)..(had + n)
          BY <1>1, <3>1, <4>2
        <5>2. new.streams[t][j] = old + (j - had) - 1
          BY <1>3, <2>5, <5>1
        <5>3. QED
          BY <1>1, <3>1, <3>2, <5>1, <5>2
      <4>3. QED
        BY <4>1, <4>2
    <3>5. QED
      BY <1>1, <1>3, <1>4, <2>5, <3>1, <3>2, <3>3, <3>4
  <2>6. QED
    BY <2>3, <2>4, <2>5
<1>7. StreamIndexComplete(new)
  <2>1. SUFFICES ASSUME NEW i \in 1..Len(new.events)
                 PROVE  LET e == new.events[i]
                        IN  /\ e.stream_version + 1 \in 1..Len(new.streams[e.stream_id])
                            /\ new.streams[e.stream_id][e.stream_version + 1] = i - 1
    BY DEF StreamIndexComplete
  <2>2. CASE i <= old
    <3> DEFINE e == st.events[i]
    <3>1. i \in 1..old /\ new.events[i] = e
      BY <1>1, <1>3, <2>2
    <3>2. /\ e.stream_version + 1 \in 1..Len(st.streams[e.stream_id])
          /\ st.streams[e.stream_id][e.stream_version + 1] = i - 1
      BY <1>0, <3>1 DEF WellFormed, StreamIndexComplete
    <3>3. e.stream_id \in Streams
      <4>1. e \in StoredEvent
        BY <1>0, <3>1, StoreFields, ElementOfSeq
      <4>2. QED
        BY <4>1 DEF StoredEvent
    <3> HIDE DEF e
    <3>4. CASE e.stream_id # s
      BY <1>3, <3>1, <3>2, <3>3, <3>4
    <3>5. CASE e.stream_id = s
      <4>1. e.stream_version + 1 \in 1..had /\ st.streams[s][e.stream_version + 1] = i - 1
        BY <1>0, <3>2, <3>5, Zenon
      <4>2. new.streams[s][e.stream_version + 1] = st.streams[s][e.stream_version + 1]
        BY <1>3, <4>1
      <4>3. e.stream_version + 1 \in 1..Len(new.streams[s])
        BY <1>1, <1>3, <4>1
      <4>4. QED
        BY <3>1, <3>5, <4>1, <4>2, <4>3
    <3>6. QED
      BY <3>4, <3>5
  <2>3. CASE ~(i <= old)
    <3>1. i \in (old + 1)..(old + n)
      BY <1>1, <1>3, <2>3
    <3>2. new.events[i].stream_id = s /\ new.events[i].stream_version = had + (i - old) - 1
      BY <1>4, <3>1
    <3>3. /\ new.events[i].stream_version + 1 = had + (i - old)
          /\ had + (i - old) \in (had + 1)..(had + n)
      BY <1>1, <3>1, <3>2
    <3>4. QED
      BY <1>1, <1>3, <3>1, <3>2, <3>3
  <2>4. QED
    BY <2>2, <2>3
<1>8. IdsUnique(new)
  <2>1. st.event_ids = {st.events[i].id : i \in 1..old}
    BY <1>0 DEF WellFormed, IdsUnique
  <2>2. \A i, j \in 1..old : i # j => st.events[i].id # st.events[j].id
    BY <1>0 DEF WellFormed, IdsUnique
  <2>3. /\ \A k \in 1..n : ids[k] \notin st.event_ids
        /\ \A k \in 1..n : \A j \in 1..(k - 1) : ids[j] # ids[k]
    BY <1>0, <1>1, LenProperties DEF UniqueIds
  <2>4. \A k, j \in 1..n : k # j => ids[k] # ids[j]
    BY <1>1, <2>3
  <2>5. \A i \in 1..old : new.events[i].id \in st.event_ids
    BY <1>3, <2>1
  <2>6. new.event_ids = {new.events[i].id : i \in 1..Len(new.events)}
    <3>1. ASSUME NEW x \in new.event_ids PROVE \E i \in 1..Len(new.events) : new.events[i].id = x
      <4>1. CASE x \in st.event_ids
        <5>1. PICK i \in 1..old : x = st.events[i].id
          BY <2>1, <4>1
        <5>2. i \in 1..(old + n)
          BY <1>1
        <5>3. QED
          BY <1>3, <5>1, <5>2
      <4>2. CASE x \in {ids[k] : k \in 1..n}
        <5>1. PICK k \in 1..n : x = ids[k]
          BY <4>2
        <5>2. old + k \in (old + 1)..(old + n) /\ (old + k) - old = k /\ old + k \in 1..(old + n)
          BY <1>1
        <5>3. QED
          BY <1>3, <1>4, <5>1, <5>2
      <4>3. QED
        BY <1>3, <3>1, <4>1, <4>2
    <3>2. ASSUME NEW i \in 1..Len(new.events) PROVE new.events[i].id \in new.event_ids
      <4>1. CASE i <= old
        BY <1>1, <1>3, <2>5, <4>1
      <4>2. CASE ~(i <= old)
        <5>1. i \in (old + 1)..(old + n)
          BY <1>1, <1>3, <4>2
        <5>2. i - old \in 1..n
          BY <1>1, <5>1
        <5>3. new.events[i].id = ids[i - old]
          BY <1>3, <1>4, <5>1
        <5>4. QED
          BY <1>3, <5>2, <5>3
      <4>3. QED
        BY <4>1, <4>2
    <3>3. \A x : x \in new.event_ids => x \in {new.events[i].id : i \in 1..Len(new.events)}
      BY <3>1
    <3>4. QED
      BY <3>2, <3>3
  <2>7. ASSUME NEW i \in 1..Len(new.events), NEW j \in 1..Len(new.events), i < j
        PROVE  new.events[i].id # new.events[j].id
    <3>1. CASE j <= old
      <4>1. i \in 1..old /\ j \in 1..old /\ i # j
        BY <1>1, <1>3, <2>7, <3>1
      <4>2. QED
        BY <1>3, <2>2, <4>1
    <3>2. CASE i <= old /\ ~(j <= old)
      <4>1. i \in 1..old /\ j \in (old + 1)..(old + n)
        BY <1>1, <1>3, <3>2
      <4>2. new.events[j].id \notin st.event_ids
        BY <1>4, <2>3, <4>1
      <4>3. QED
        BY <2>5, <4>1, <4>2
    <3>3. CASE ~(i <= old)
      <4>1. i \in (old + 1)..(old + n) /\ j \in (old + 1)..(old + n) /\ i - old # j - old
        BY <1>1, <1>3, <2>7, <3>3
      <4>2. QED
        BY <1>4, <2>4, <4>1
    <3>4. QED
      BY <3>1, <3>2, <3>3
  <2>8. \A i, j \in 1..Len(new.events) : i # j => new.events[i].id # new.events[j].id
    BY <1>1, <1>3, <2>7
  <2>9. QED
    BY <2>6, <2>8 DEF IdsUnique
<1>9. QED
  BY <1>5, <1>6, <1>7, <1>8 DEF WellFormed, new, b

-----------------------------------------------------------------------------
\* The recursion of Filtered is well-founded: its function exists.
LEMMA FilteredRecursion ==
  ASSUME NEW s, NEW kept, Len(s) \in Nat
  PROVE  \E c : /\ c = [i \in 0..Len(s) |->
                          IF i = 0 THEN <<>>
                          ELSE IF i \in kept THEN Append(c[i - 1], s[i]) ELSE c[i - 1]]
                /\ Filtered(s, kept) = c[Len(s)]
<1> DEFINE Rec(c, n) == c = [i \in 0..n |-> IF i = 0 THEN <<>>
                              ELSE IF i \in kept THEN Append(c[i - 1], s[i]) ELSE c[i - 1]]
           N == {n \in Nat : \E c : Rec(c, n)}
<1>1. 0 \in N
  <2>1. Rec([i \in 0..0 |-> <<>>], 0)
    OBVIOUS
  <2>2. QED
    BY <2>1
<1>2. ASSUME NEW n \in Nat, n \in N PROVE n + 1 \in N
  <2>1. PICK c : Rec(c, n)
    BY <1>2
  <2> DEFINE new == IF n + 1 \in kept THEN Append(c[n], s[n + 1]) ELSE c[n]
             d == [i \in 0..(n + 1) |-> IF i = n + 1 THEN new ELSE c[i]]
  <2>2. ASSUME NEW i \in 0..(n + 1)
        PROVE  d[i] = IF i = 0 THEN <<>>
                      ELSE IF i \in kept THEN Append(d[i - 1], s[i]) ELSE d[i - 1]
    <3>1. CASE i = n + 1
      <4>1. i # 0 /\ i - 1 = n /\ n \in 0..(n + 1) /\ n # n + 1
        BY <3>1
      <4>2. d[i - 1] = c[n] /\ d[i] = new
        BY <3>1, <4>1
      <4>3. QED
        BY <3>1, <4>1, <4>2
    <3>2. CASE i = 0
      <4>1. c[0] = <<>> /\ d[0] = c[0]
        BY <2>1
      <4>2. QED
        BY <3>2, <4>1
    <3>3. CASE i # n + 1 /\ i # 0
      <4>1. i \in 0..n /\ i - 1 \in 0..(n + 1) /\ i - 1 # n + 1
        BY <3>3
      <4>2. d[i] = c[i] /\ d[i - 1] = c[i - 1]
        BY <3>3, <4>1
      <4> HIDE DEF d
      <4>3. c[i] = IF i \in kept THEN Append(c[i - 1], s[i]) ELSE c[i - 1]
        BY <2>1, <3>3, <4>1
      <4>4. QED
        BY <3>3, <4>2, <4>3
    <3>4. QED
      BY <3>1, <3>2, <3>3
  <2>3. d = [i \in 0..(n + 1) |-> d[i]]
    OBVIOUS
  <2> HIDE DEF d
  <2>4. Rec(d, n + 1)
    BY <2>2, <2>3
  <2>5. n + 1 \in Nat
    OBVIOUS
  <2> HIDE DEF Rec
  <2>6. QED
    BY <2>4, <2>5, Zenon
<1> HIDE DEF N
<1>3. Len(s) \in N
  BY <1>1, <1>2, InductionOnNat
<1>4. \E c : Rec(c, Len(s))
  BY <1>3 DEF N
<1>5. Rec(CHOOSE c : Rec(c, Len(s)), Len(s))
  BY <1>4, Zenon
<1>6. Filtered(s, kept) = (CHOOSE c : Rec(c, Len(s)))[Len(s)]
  BY Zenon DEF Filtered
<1>7. QED
  BY <1>5, <1>6, Zenon

\* The indices of s that are kept are q[1], ..., q[m], in ascending order.
Enumerates(q, m, s, kept) ==
  /\ m \in Nat
  /\ \A k \in 1..m : q[k] \in 1..Len(s)
  /\ \A k \in 1..m : \A j \in 1..(k - 1) : q[j] < q[k]
  /\ \A i \in 1..Len(s) : i \in kept <=> \E k \in 1..m : q[k] = i

\* A filter that keeps the indices q[1], q[2], ... returns the elements at
\* these indices.
LEMMA FilteredEnumerates ==
  ASSUME NEW S, NEW s \in Seq(S), NEW q, NEW m, NEW kept, Enumerates(q, m, s, kept)
  PROVE  Filtered(s, kept) = [k \in 1..m |-> s[q[k]]]
<1> USE DEF Enumerates
<1>1. Len(s) \in Nat /\ \A i \in 1..Len(s) : s[i] \in S
  BY LenProperties, ElementOfSeq
<1>2. PICK c : /\ c = [i \in 0..Len(s) |->
                         IF i = 0 THEN <<>>
                         ELSE IF i \in kept THEN Append(c[i - 1], s[i]) ELSE c[i - 1]]
               /\ Filtered(s, kept) = c[Len(s)]
  BY <1>1, FilteredRecursion, Zenon
<1>3. c[0] = <<>>
  BY <1>1, <1>2
<1>4. \A i \in 0..(Len(s) - 1) :
         c[i + 1] = IF i + 1 \in kept THEN Append(c[i], s[i + 1]) ELSE c[i]
  <2> SUFFICES ASSUME NEW i \in 0..(Len(s) - 1)
               PROVE  c[i + 1] = IF i + 1 \in kept THEN Append(c[i], s[i + 1]) ELSE c[i]
    OBVIOUS
  <2>1. i + 1 \in 0..Len(s) /\ i + 1 # 0 /\ (i + 1) - 1 = i
    BY <1>1
  <2>2. \A j \in 0..Len(s) : c[j] = IF j = 0 THEN <<>>
                                    ELSE IF j \in kept THEN Append(c[j - 1], s[j]) ELSE c[j - 1]
    BY <1>2, Zenon
  <2>3. QED
    BY <2>1, <2>2
<1> DEFINE Taken(n) == [k \in 1..n |-> s[q[k]]]
           Split(i, n) == /\ \A k \in 1..n : q[k] <= i
                          /\ \A k \in (n + 1)..m : q[k] > i
                          /\ c[i] = Taken(n)
           N == {i \in Nat : \E n \in 0..m : Split(i, n)}
<1>5. 0 \in N
  <2>1. Split(0, 0)
    <3>1. \A k \in 1..m : q[k] > 0
      BY <1>1
    <3>2. Taken(0) = <<>>
      OBVIOUS
    <3>3. QED
      BY <1>3, <3>1, <3>2
  <2> HIDE DEF Split
  <2>2. 0 \in 0..m
    OBVIOUS
  <2>3. QED
    BY <2>1, <2>2
<1>6. ASSUME NEW i \in 0..(Len(s) - 1), i \in N PROVE i + 1 \in N
  <2>0. i \in Nat /\ i + 1 \in Nat /\ i + 1 \in 1..Len(s)
    BY <1>1
  <2>1. PICK n \in 0..m : Split(i, n)
    BY <1>6
  <2>2. CASE i + 1 \in kept
    <3>1. PICK k \in 1..m : q[k] = i + 1
      BY <2>0, <2>2
    <3>2. k > n
      BY <2>0, <2>1, <3>1
    <3>3. k = n + 1
      <4>1. SUFFICES ASSUME k > n + 1 PROVE FALSE
        BY <3>2
      <4>2. n + 1 \in 1..m /\ n + 1 \in (n + 1)..m /\ n + 1 \in 1..(k - 1)
        BY <4>1
      <4>3. q[n + 1] > i /\ q[n + 1] < i + 1 /\ q[n + 1] \in Int
        BY <1>1, <2>1, <3>1, <4>2
      <4>4. QED
        BY <2>0, <4>3
    <3>4. n + 1 \in 1..m /\ q[n + 1] = i + 1
      BY <3>1, <3>3
    <3>5. \A j \in 1..(n + 1) : q[j] <= i + 1
      <4> SUFFICES ASSUME NEW j \in 1..(n + 1) PROVE q[j] <= i + 1
        OBVIOUS
      <4>1. CASE j = n + 1
        BY <2>0, <3>4, <4>1
      <4>2. CASE j # n + 1
        <5>1. j \in 1..n /\ j \in 1..m
          BY <4>2
        <5>2. q[j] <= i /\ q[j] \in Int
          BY <1>1, <2>1, <5>1
        <5>3. QED
          BY <2>0, <5>2
      <4>3. QED
        BY <4>1, <4>2
    <3>6. \A j \in (n + 2)..m : q[j] > i + 1
      <4> SUFFICES ASSUME NEW j \in (n + 2)..m PROVE q[j] > i + 1
        OBVIOUS
      <4>1. j \in 1..m /\ n + 1 \in 1..(j - 1)
        OBVIOUS
      <4>2. q[n + 1] < q[j] /\ q[j] \in Int
        BY <1>1, <4>1
      <4>3. QED
        BY <2>0, <3>4, <4>2
    <3>7. c[i + 1] = Append(Taken(n), s[i + 1])
      BY <1>4, <2>1, <2>2
    <3>8. Append(Taken(n), s[i + 1]) = Taken(n + 1)
      <4>1. \A j \in 1..m : s[q[j]] \in S
        BY <1>1
      <4>2. Taken(n) \in Seq(S) /\ Len(Taken(n)) = n
        <5>1. Taken(n) \in [1..n -> S]
          BY <4>1
        <5>2. QED
          BY <5>1, IsASeq
      <4>3. Append(Taken(n), s[i + 1]) = [j \in 1..(n + 1) |-> IF j = n + 1 THEN s[i + 1] ELSE Taken(n)[j]]
        BY <1>1, <2>0, <4>2
      <4>4. QED
        BY <3>4, <4>3
    <3>9. Split(i + 1, n + 1)
      <4>1. (n + 1) + 1 = n + 2
        OBVIOUS
      <4>2. QED
        BY <3>5, <3>6, <3>7, <3>8, <4>1
    <3>10. n + 1 \in 0..m
      BY <3>4
    <3>11. QED
      BY <2>0, <3>9, <3>10
  <2>3. CASE i + 1 \notin kept
    <3>1. \A k \in 1..m : q[k] # i + 1
      BY <2>0, <2>3
    <3>2. \A k \in 1..n : q[k] <= i + 1
      <4> SUFFICES ASSUME NEW k \in 1..n PROVE q[k] <= i + 1
        OBVIOUS
      <4>1. k \in 1..m
        OBVIOUS
      <4>2. QED
        BY <1>1, <2>0, <2>1, <4>1
    <3>3. \A k \in (n + 1)..m : q[k] > i + 1
      <4> SUFFICES ASSUME NEW k \in (n + 1)..m PROVE q[k] > i + 1
        OBVIOUS
      <4>1. k \in 1..m
        OBVIOUS
      <4>2. q[k] \in Int /\ q[k] > i /\ q[k] # i + 1
        BY <1>1, <2>1, <3>1, <4>1
      <4>3. QED
        BY <2>0, <4>2
    <3>4. c[i + 1] = Taken(n)
      BY <1>4, <2>1, <2>3
    <3>5. QED
      BY <2>0, <3>2, <3>3, <3>4
  <2>4. QED
    BY <2>2, <2>3
<1> HIDE DEF N
<1>7. Len(s) \in N
  <2>1. \A i \in 0..Len(s) : i \in N
    BY <1>1, <1>5, <1>6, InductionUpTo
  <2>2. QED
    BY <1>1, <2>1
<1>8. PICK n \in 0..m : Split(Len(s), n)
  BY <1>7 DEF N
<1>9. n = m
  <2> SUFFICES ASSUME n # m PROVE FALSE
    OBVIOUS
  <2>1. n + 1 \in 1..m /\ n + 1 \in (n + 1)..m
    OBVIOUS
  <2>2. q[n + 1] > Len(s) /\ q[n + 1] \in 1..Len(s)
    BY <1>8, <2>1
  <2>3. QED
    BY <1>1, <2>2
<1>10. QED
  BY <1>2, <1>8, <1>9

-----------------------------------------------------------------------------
\* What restore requires of the next event.
Acceptable(st, e) ==
  /\ e.global_position = Len(st.events)
  /\ e.stream_version = Len(st.streams[e.stream_id])
  /\ e.id \notin st.event_ids

\* An event is a batch of one: restore accepts exactly the event that append
\* would have prepared next, and adds it as append does.
LEMMA RestoreStepAccepts ==
  ASSUME NEW st \in Store, WellFormed(st), NEW e \in StoredEvent
  PROVE  /\ ~Acceptable(st, e) => RestoreStep(st, e) = None
         /\ Acceptable(st, e) => /\ RestoreStep(st, e) \in Store
                                 /\ WellFormed(RestoreStep(st, e))
                                 /\ RestoreStep(st, e).events = Append(st.events, e)
<1> DEFINE s == e.stream_id
           ids == <<e.id>>
           b == PrepareAppend(st, s, ids)
<1>1. s \in Streams /\ e.id \in EventIds
  BY DEF StoredEvent
<1>2. ids \in Seq(EventIds) /\ ids # <<>> /\ Len(ids) = 1 /\ ids[1] = e.id
  BY <1>1
<1>3. st # None /\ st.events \in Seq(StoredEvent)
  BY StoreAssumption, StoreFields
<1>4. NextVersion(StreamVersion(st, s)) = Len(st.streams[s])
  BY <1>1, NextVersionIsLength
<1>5. ~Acceptable(st, e) => RestoreStep(st, e) = None
  BY <1>4 DEF Acceptable, RestoreStep
<1>6. ASSUME Acceptable(st, e)
      PROVE  /\ RestoreStep(st, e) \in Store
             /\ WellFormed(RestoreStep(st, e))
             /\ RestoreStep(st, e).events = Append(st.events, e)
  <2>1. RestoreStep(st, e) = CommitPrepared(st, <<e>>)
    BY <1>3, <1>4, <1>6 DEF Acceptable, RestoreStep
  <2>2. Len(st.events) \in Nat /\ Len(st.streams[s]) \in Nat
    BY <1>1, StoreFields, LenProperties
  <2>3. b = <<e>>
    <3> HIDE DEF ids, s
    <3>0. 1 \in 1..Len(ids)
      BY <1>2
    <3>1. /\ b \in Seq(StoredEvent) /\ Len(b) = 1
          /\ b[1].id = e.id /\ b[1].stream_id = s
          /\ b[1].stream_version = Len(st.streams[s]) + 1 - 1
          /\ b[1].global_position = Len(st.events) + 1 - 1
          /\ b[1] \in StoredEvent
      BY <1>1, <1>2, <3>0, PreparedBatch
    <3> HIDE DEF b
    <3> USE DEF s
    <3>2. b[1].stream_version = e.stream_version /\ b[1].global_position = e.global_position
      BY <1>6, <2>2, <3>1 DEF Acceptable
    <3>3. b[1] = e
      BY <3>1, <3>2 DEF StoredEvent
    <3>4. QED
      BY <3>1, <3>3
  <2>4. UniqueIds(st.event_ids, ids)
    BY <1>2, <1>6 DEF UniqueIds, Acceptable
  <2>5. WellFormed(CommitPrepared(st, b))
    BY <1>1, <1>2, <2>4, CommitWellFormed
  <2>6. Extended(st, CommitPrepared(st, b), s, b)
    BY <1>1, <1>2, CommittedStore
  <2> HIDE DEF b, s
  <2>7. CommitPrepared(st, b) \in Store /\ CommitPrepared(st, b).events = st.events \o b
    BY <2>6 DEF Extended
  <2>8. st.events \o <<e>> = Append(st.events, e)
    BY <1>3, AppendIsConcat
  <2>9. QED
    BY <2>1, <2>3, <2>5, <2>7, <2>8
<1>7. QED
  BY <1>5, <1>6

\* The recursion of Restore is well-founded: its function exists.
LEMMA RestoreRecursion ==
  ASSUME NEW es, Len(es) \in Nat
  PROVE  \E r : /\ r = [k \in 0..Len(es) |->
                          IF k = 0 THEN EmptyStore ELSE RestoreStep(r[k - 1], es[k])]
                /\ Restore(es) = r[Len(es)]
<1> DEFINE Rec(r, n) == r = [k \in 0..n |->
                              IF k = 0 THEN EmptyStore ELSE RestoreStep(r[k - 1], es[k])]
           N == {n \in Nat : \E r : Rec(r, n)}
<1>1. 0 \in N
  <2>1. Rec([k \in 0..0 |-> EmptyStore], 0)
    OBVIOUS
  <2>2. QED
    BY <2>1
<1>2. ASSUME NEW n \in Nat, n \in N PROVE n + 1 \in N
  <2>1. PICK r : Rec(r, n)
    BY <1>2
  <2> DEFINE d == [k \in 0..(n + 1) |-> IF k = n + 1 THEN RestoreStep(r[n], es[n + 1]) ELSE r[k]]
  <2>2. ASSUME NEW k \in 0..(n + 1)
        PROVE  d[k] = IF k = 0 THEN EmptyStore ELSE RestoreStep(d[k - 1], es[k])
    <3>1. CASE k = n + 1
      <4>1. k # 0 /\ k - 1 = n /\ n \in 0..(n + 1) /\ n # n + 1
        BY <3>1
      <4>2. d[k - 1] = r[n] /\ d[k] = RestoreStep(r[n], es[n + 1])
        BY <3>1, <4>1
      <4>3. QED
        BY <3>1, <4>1, <4>2
    <3>2. CASE k = 0
      <4>1. r[0] = EmptyStore /\ d[0] = r[0]
        BY <2>1
      <4>2. QED
        BY <3>2, <4>1
    <3>3. CASE k # n + 1 /\ k # 0
      <4>1. k \in 0..n /\ k - 1 \in 0..(n + 1) /\ k - 1 # n + 1
        BY <3>3
      <4>2. d[k] = r[k] /\ d[k - 1] = r[k - 1]
        BY <3>3, <4>1
      <4> HIDE DEF d
      <4>3. r[k] = RestoreStep(r[k - 1], es[k])
        BY <2>1, <3>3, <4>1
      <4>4. QED
        BY <3>3, <4>2, <4>3
    <3>4. QED
      BY <3>1, <3>2, <3>3
  <2>3. d = [k \in 0..(n + 1) |-> d[k]]
    OBVIOUS
  <2> HIDE DEF d
  <2>4. Rec(d, n + 1)
    BY <2>2, <2>3
  <2>5. n + 1 \in Nat
    OBVIOUS
  <2> HIDE DEF Rec
  <2>6. QED
    BY <2>4, <2>5, Zenon
<1> HIDE DEF N
<1>3. Len(es) \in N
  BY <1>1, <1>2, InductionOnNat
<1>4. \E r : Rec(r, Len(es))
  BY <1>3 DEF N
<1>5. Rec(CHOOSE r : Rec(r, Len(es)), Len(es))
  BY <1>4, Zenon
<1>6. Restore(es) = (CHOOSE r : Rec(r, Len(es)))[Len(es)]
  BY Zenon DEF Restore
<1>7. QED
  BY <1>5, <1>6, Zenon

\* The store of the first n events of a sequence, if there is one.
Restores(st, es, n) == st \in Store /\ WellFormed(st) /\ st.events = SubSeq(es, 1, n)

\* The first n + 1 events are the first n and one more.
LEMMA NextPrefix ==
  ASSUME NEW S, NEW es \in Seq(S), NEW n \in 0..(Len(es) - 1)
  PROVE  /\ SubSeq(es, 1, n + 1) = Append(SubSeq(es, 1, n), es[n + 1])
         /\ Len(SubSeq(es, 1, n)) = n
         /\ \A i \in 1..n : SubSeq(es, 1, n)[i] = es[i]
         /\ es[n + 1] \in S
<1>1. Len(es) \in Nat /\ n \in Nat /\ n + 1 \in 1..Len(es)
  BY LenProperties
<1>2. es[n + 1] \in S
  BY <1>1, ElementOfSeq
<1>3. SubSeq(es, 1, n) = [i \in 1..n |-> es[i]] /\ SubSeq(es, 1, n + 1) = [i \in 1..(n + 1) |-> es[i]]
  BY <1>1
<1>4. SubSeq(es, 1, n) \in Seq(S) /\ Len(SubSeq(es, 1, n)) = n
  BY <1>1
<1>5. Append(SubSeq(es, 1, n), es[n + 1])
        = [i \in 1..(n + 1) |-> IF i = n + 1 THEN es[n + 1] ELSE SubSeq(es, 1, n)[i]]
  BY <1>1, <1>2, <1>4
<1>6. QED
  BY <1>1, <1>2, <1>3, <1>4, <1>5

\* What restore has read so far is a well-formed store of exactly the events
\* read, or it has rejected one and stays so.
LEMMA RestoreProgress ==
  ASSUME NEW es \in Seq(StoredEvent), NEW r,
         r = [k \in 0..Len(es) |-> IF k = 0 THEN EmptyStore ELSE RestoreStep(r[k - 1], es[k])]
  PROVE  /\ \A n \in 0..Len(es) : r[n] = None \/ Restores(r[n], es, n)
         /\ \A n \in 0..(Len(es) - 1) : r[n] = None => r[n + 1] = None
         /\ \A n \in 0..(Len(es) - 1) :
               (r[n] # None /\ Acceptable(r[n], es[n + 1])) => r[n + 1] # None
<1>1. Len(es) \in Nat
  BY LenProperties
<1>2. \A k \in 0..Len(es) : r[k] = IF k = 0 THEN EmptyStore ELSE RestoreStep(r[k - 1], es[k])
  BY Zenon
<1>3. r[0] = EmptyStore
  BY <1>1, <1>2
<1>4. \A n \in 0..(Len(es) - 1) : r[n + 1] = RestoreStep(r[n], es[n + 1])
  <2> SUFFICES ASSUME NEW n \in 0..(Len(es) - 1) PROVE r[n + 1] = RestoreStep(r[n], es[n + 1])
    OBVIOUS
  <2>1. n + 1 \in 0..Len(es) /\ n + 1 # 0 /\ (n + 1) - 1 = n
    BY <1>1
  <2>2. QED
    BY <1>2, <2>1
<1> DEFINE N == {n \in Nat : r[n] = None \/ Restores(r[n], es, n)}
<1>5. 0 \in N
  <2>1. SubSeq(es, 1, 0) = <<>>
    OBVIOUS
  <2>2. EmptyStore.events = <<>>
    BY DEF EmptyStore
  <2>3. QED
    BY <1>3, <2>1, <2>2, EmptyStoreWellFormed DEF Restores
<1>6. ASSUME NEW n \in 0..(Len(es) - 1), n \in N
      PROVE  n + 1 \in N /\ (r[n] # None /\ Acceptable(r[n], es[n + 1]) => r[n + 1] # None)
  <2>1. n + 1 \in Nat /\ r[n + 1] = RestoreStep(r[n], es[n + 1])
    BY <1>1, <1>4
  <2>2. CASE r[n] = None
    BY <2>1, <2>2 DEF RestoreStep
  <2>3. CASE r[n] # None
    <3>1. r[n] \in Store /\ WellFormed(r[n]) /\ r[n].events = SubSeq(es, 1, n)
      BY <1>6, <2>3 DEF Restores
    <3>2. /\ es[n + 1] \in StoredEvent
          /\ SubSeq(es, 1, n + 1) = Append(SubSeq(es, 1, n), es[n + 1])
      BY NextPrefix
    <3>3. CASE ~Acceptable(r[n], es[n + 1])
      BY <2>1, <3>1, <3>2, <3>3, RestoreStepAccepts
    <3>4. CASE Acceptable(r[n], es[n + 1])
      <4>1. /\ r[n + 1] \in Store /\ WellFormed(r[n + 1])
            /\ r[n + 1].events = Append(r[n].events, es[n + 1])
        BY <2>1, <3>1, <3>2, <3>4, RestoreStepAccepts
      <4>2. r[n + 1] # None
        BY <4>1, StoreAssumption
      <4>3. Restores(r[n + 1], es, n + 1)
        BY <3>1, <3>2, <4>1 DEF Restores
      <4>4. QED
        BY <2>1, <4>2, <4>3
    <3>5. QED
      BY <3>3, <3>4
  <2>4. QED
    BY <2>2, <2>3
<1>7. \A n \in 0..Len(es) : n \in N
  <2> HIDE DEF N
  <2>1. QED
    BY <1>1, <1>5, <1>6, InductionUpTo
<1>8. \A n \in 0..(Len(es) - 1) : n \in N
  BY <1>1, <1>7
<1>9. \A n \in 0..(Len(es) - 1) : r[n] = None => r[n + 1] = None
  BY <1>4 DEF RestoreStep
<1>10. \A n \in 0..Len(es) : r[n] = None \/ Restores(r[n], es, n)
  BY <1>7
<1>11. QED
  BY <1>6, <1>8, <1>9, <1>10

\* Whatever restore accepts is a well-formed store with exactly the events it
\* was given, and it accepts the events of every earlier state of that store.
LEMMA RestoreSound ==
  ASSUME NEW es \in Seq(StoredEvent), Restore(es) # None
  PROVE  /\ Restore(es) \in Store /\ WellFormed(Restore(es)) /\ Restore(es).events = es
         /\ \A n \in 0..Len(es) : \E st : Restores(st, es, n)
<1>1. Len(es) \in Nat
  BY LenProperties
<1>2. PICK r : /\ r = [k \in 0..Len(es) |->
                         IF k = 0 THEN EmptyStore ELSE RestoreStep(r[k - 1], es[k])]
               /\ Restore(es) = r[Len(es)]
  BY <1>1, RestoreRecursion, Zenon
<1>3. /\ \A n \in 0..Len(es) : r[n] = None \/ Restores(r[n], es, n)
      /\ \A n \in 0..(Len(es) - 1) : r[n] = None => r[n + 1] = None
  BY <1>2, RestoreProgress, Zenon
<1>4. SubSeq(es, 1, Len(es)) = es
  BY LenProperties
<1>5. Restores(Restore(es), es, Len(es))
  BY <1>1, <1>2, <1>3
<1> DEFINE N == {m \in Nat : r[Len(es) - m] # None}
<1>6. 0 \in N
  BY <1>1, <1>2
<1>7. \A m \in 0..(Len(es) - 1) : m \in N => m + 1 \in N
  <2> SUFFICES ASSUME NEW m \in 0..(Len(es) - 1), r[Len(es) - m] # None
               PROVE  m + 1 \in Nat /\ r[Len(es) - (m + 1)] # None
    OBVIOUS
  <2>1. /\ Len(es) - (m + 1) \in 0..(Len(es) - 1) /\ (Len(es) - (m + 1)) + 1 = Len(es) - m
        /\ m + 1 \in Nat
    BY <1>1
  <2>2. QED
    BY <1>3, <2>1
<1>8. \A m \in 0..Len(es) : m \in N
  <2> HIDE DEF N
  <2>1. QED
    BY <1>1, <1>6, <1>7, InductionUpTo
<1>9. ASSUME NEW n \in 0..Len(es) PROVE Restores(r[n], es, n)
  <2>1. Len(es) - n \in 0..Len(es) /\ Len(es) - (Len(es) - n) = n
    BY <1>1
  <2>2. r[Len(es) - (Len(es) - n)] # None
    BY <1>8, <2>1
  <2>3. r[n] # None
    BY <2>1, <2>2
  <2>4. QED
    BY <1>3, <2>3
<1>10. QED
  BY <1>4, <1>5, <1>9 DEF Restores

\* An event of a well-formed store: its stream, its version, and where the
\* index of its stream has it.
LEMMA EventIndexed ==
  ASSUME NEW st \in Store, WellFormed(st), NEW i \in 1..Len(st.events)
  PROVE  /\ st.events[i] \in StoredEvent
         /\ st.events[i].stream_id \in Streams
         /\ st.events[i].stream_version \in Nat
         /\ st.events[i].global_position = i - 1
         /\ st.events[i].stream_version + 1 \in 1..Len(st.streams[st.events[i].stream_id])
         /\ st.streams[st.events[i].stream_id][st.events[i].stream_version + 1] = i - 1
<1>1. st.events[i] \in StoredEvent
  BY StoreFields, ElementOfSeq
<1>2. QED
  BY <1>1 DEF StoredEvent, WellFormed, GlobalPositions, StreamIndexComplete

\* A well-formed store knows no more of a stream than its events say, so one
\* with the same events at the same places has at least the same index.
LEMMA IndexFollowsEvents ==
  ASSUME NEW st \in Store, WellFormed(st), NEW other \in Store, WellFormed(other),
         NEW s \in Streams, NEW k \in 1..Len(st.streams[s]),
         st.streams[s][k] + 1 \in 1..Len(other.events),
         other.events[st.streams[s][k] + 1] = st.events[st.streams[s][k] + 1]
  PROVE  k \in 1..Len(other.streams[s]) /\ other.streams[s][k] = st.streams[s][k]
<1> DEFINE i == st.streams[s][k] + 1
<1>1. /\ i \in 1..Len(st.events) /\ k \in Nat /\ st.streams[s][k] \in Nat
      /\ st.events[i].stream_id = s /\ st.events[i].stream_version = k - 1
  <2>1. st.streams[s] \in Seq(Nat) /\ Len(st.streams[s]) \in Nat
    BY StoreFields, LenProperties
  <2>2. k \in Nat /\ st.streams[s][k] \in Nat
    BY <2>1, ElementOfSeq
  <2>3. QED
    BY <2>2 DEF WellFormed, StreamIndexSound
<1>2. other.events[i].stream_id = s /\ other.events[i].stream_version = k - 1
  BY <1>1
<1>3. (k - 1) + 1 = k /\ i - 1 = st.streams[s][k]
  BY <1>1
<1>4. i \in 1..Len(other.events)
  OBVIOUS
<1> HIDE DEF i
<1>5. /\ other.events[i].stream_version + 1 \in 1..Len(other.streams[other.events[i].stream_id])
      /\ other.streams[other.events[i].stream_id][other.events[i].stream_version + 1] = i - 1
  BY <1>4, EventIndexed
<1>6. QED
  BY <1>2, <1>3, <1>5

\* An initial interval that lies in another is no longer.
LEMMA InitialInterval ==
  ASSUME NEW m \in Nat, NEW n \in Nat, \A k \in 1..m : k \in 1..n
  PROVE  m <= n
<1>1. CASE m = 0
  BY <1>1
<1>2. CASE m # 0
  <2>1. m \in 1..m
    BY <1>2
  <2>2. m \in 1..n
    BY <2>1
  <2>3. QED
    BY <2>2
<1>3. QED
  BY <1>1, <1>2

\* Two well-formed stores with the same events are the same store.
LEMMA EventsDetermineStore ==
  ASSUME NEW st \in Store, WellFormed(st), NEW other \in Store, WellFormed(other),
         other.events = st.events
  PROVE  other = st
<1>1. ASSUME NEW a \in Store, WellFormed(a), NEW b \in Store, WellFormed(b), b.events = a.events,
             NEW s \in Streams, NEW k \in 1..Len(a.streams[s])
      PROVE  k \in 1..Len(b.streams[s]) /\ b.streams[s][k] = a.streams[s][k]
  <2>1. a.streams[s][k] + 1 \in 1..Len(a.events)
    BY <1>1 DEF WellFormed, StreamIndexSound
  <2>2. QED
    BY <1>1, <2>1, IndexFollowsEvents
<1>2. ASSUME NEW s \in Streams PROVE other.streams[s] = st.streams[s]
  <2>1. /\ st.streams[s] \in Seq(Nat) /\ other.streams[s] \in Seq(Nat)
        /\ Len(st.streams[s]) \in Nat /\ Len(other.streams[s]) \in Nat
    BY StoreFields, LenProperties
  <2>2. /\ \A k \in 1..Len(st.streams[s]) :
             k \in 1..Len(other.streams[s]) /\ other.streams[s][k] = st.streams[s][k]
        /\ \A k \in 1..Len(other.streams[s]) : k \in 1..Len(st.streams[s])
    BY <1>1
  <2>3. Len(st.streams[s]) <= Len(other.streams[s]) /\ Len(other.streams[s]) <= Len(st.streams[s])
    BY <2>1, <2>2, InitialInterval
  <2>4. Len(st.streams[s]) = Len(other.streams[s])
    BY <2>1, <2>3
  <2>5. QED
    BY <2>1, <2>2, <2>4, SeqEqual
<1>3. other.streams = st.streams
  BY <1>2, StoreFields
<1>4. other.event_ids = st.event_ids
  BY DEF WellFormed, IdsUnique
<1>5. QED
  BY <1>3, <1>4 DEF Store

\* The next event of a well-formed store is acceptable to the store of the
\* events before it.
LEMMA NextEventAcceptable ==
  ASSUME NEW st \in Store, WellFormed(st), NEW n \in 0..(Len(st.events) - 1),
         NEW before, Restores(before, st.events, n)
  PROVE  Acceptable(before, st.events[n + 1])
<1> DEFINE e == st.events[n + 1]
           s == e.stream_id
           v == e.stream_version
           L == Len(before.streams[s])
<1>1. /\ st.events \in Seq(StoredEvent) /\ Len(st.events) \in Nat /\ n \in Nat
      /\ n + 1 \in 1..Len(st.events)
  BY StoreFields, LenProperties
<1>2. before \in Store /\ WellFormed(before) /\ before.events = SubSeq(st.events, 1, n)
  BY DEF Restores
<1>3. Len(before.events) = n /\ \A i \in 1..n : before.events[i] = st.events[i]
  BY <1>1, <1>2, NextPrefix
<1>4. /\ s \in Streams /\ v \in Nat /\ e.global_position = (n + 1) - 1
      /\ v + 1 \in 1..Len(st.streams[s]) /\ st.streams[s][v + 1] = (n + 1) - 1
  BY <1>1, EventIndexed
<1>5. /\ L \in Nat /\ Len(st.streams[s]) \in Nat
      /\ \A k \in 1..L : before.streams[s][k] \in Nat
      /\ \A k \in 1..Len(st.streams[s]) : st.streams[s][k] \in Nat
  <2> HIDE DEF s, e, v
  <2>1. before.streams[s] \in Seq(Nat) /\ st.streams[s] \in Seq(Nat)
    BY <1>2, <1>4, StoreFields
  <2>2. QED
    BY <2>1, LenProperties, ElementOfSeq
<1>6. e.id \notin before.event_ids
  <2> SUFFICES ASSUME e.id \in before.event_ids PROVE FALSE
    OBVIOUS
  <2>1. PICK i \in 1..Len(before.events) : before.events[i].id = e.id
    BY <1>2 DEF WellFormed, IdsUnique
  <2>2. i \in 1..Len(st.events) /\ i # n + 1 /\ st.events[i].id = e.id
    BY <1>1, <1>3, <2>1
  <2>3. QED
    BY <1>1, <2>2 DEF WellFormed, IdsUnique
<1> HIDE DEF e, s, v, L
<1>7. v <= L
  <2> SUFFICES ASSUME v > L PROVE FALSE
    BY <1>4, <1>5
  <2>1. v \in 1..Len(st.streams[s]) /\ v \in 1..((v + 1) - 1) /\ v > 0
    BY <1>4, <1>5
  <2>2. st.streams[s][v] < st.streams[s][v + 1] /\ st.streams[s][v] \in Nat
    BY <1>4, <1>5, <2>1 DEF WellFormed, StreamIndexSound
  <2>3. st.streams[s][v] + 1 \in 1..n
    <3>1. PICK x \in Nat : x = st.streams[s][v]
      BY <2>2
    <3>2. x < (n + 1) - 1
      BY <1>4, <2>2, <3>1
    <3>3. x + 1 \in 1..n
      BY <1>1, <3>2
    <3>4. QED
      BY <3>1, <3>3
  <2>4. v \in 1..Len(before.streams[s])
    BY <1>2, <1>3, <1>4, <2>1, <2>3, IndexFollowsEvents
  <2>5. QED
    BY <1>5, <2>4 DEF L
<1>8. L <= v
  <2> SUFFICES ASSUME L > v PROVE FALSE
    BY <1>4, <1>5
  <2>1. v + 1 \in 1..L
    BY <1>4, <1>5
  <2>2. before.streams[s][v + 1] + 1 \in 1..n
    BY <1>2, <1>3, <1>4, <2>1 DEF L, WellFormed, StreamIndexSound
  <2>3. before.streams[s][v + 1] + 1 \in 1..Len(st.events)
    BY <1>1, <2>2
  <2>4. st.streams[s][v + 1] = before.streams[s][v + 1]
    BY <1>2, <1>3, <1>4, <2>1, <2>2, <2>3, IndexFollowsEvents DEF L
  <2>5. before.streams[s][v + 1] \in Nat
    BY <1>5, <2>1
  <2>6. QED
    BY <1>1, <1>4, <2>2, <2>4, <2>5
<1>9. v = L
  BY <1>4, <1>5, <1>7, <1>8
<1>10. e.global_position = Len(before.events)
  BY <1>1, <1>3, <1>4
<1>11. QED
  BY <1>6, <1>9, <1>10 DEF Acceptable, e, s, v, L

\* What append built, restore accepts, and it rebuilds it identically: a store
\* is the restoration of its own events.
LEMMA RestoreIdentity ==
  ASSUME NEW st \in Store, WellFormed(st)
  PROVE  Restore(st.events) = st
<1> DEFINE es == st.events
<1>1. es \in Seq(StoredEvent) /\ Len(es) \in Nat
  BY StoreFields, LenProperties
<1>2. PICK r : /\ r = [k \in 0..Len(es) |->
                         IF k = 0 THEN EmptyStore ELSE RestoreStep(r[k - 1], es[k])]
               /\ Restore(es) = r[Len(es)]
  BY <1>1, RestoreRecursion, Zenon
<1>3. /\ \A n \in 0..Len(es) : r[n] = None \/ Restores(r[n], es, n)
      /\ \A n \in 0..(Len(es) - 1) :
            (r[n] # None /\ Acceptable(r[n], es[n + 1])) => r[n + 1] # None
  BY <1>1, <1>2, RestoreProgress, Zenon
<1> DEFINE N == {n \in Nat : r[n] # None}
<1>4. 0 \in N
  <2>1. r[0] = EmptyStore
    BY <1>1, <1>2
  <2>2. QED
    BY <2>1, EmptyStoreWellFormed, StoreAssumption
<1>5. \A n \in 0..(Len(es) - 1) : n \in N => n + 1 \in N
  <2> SUFFICES ASSUME NEW n \in 0..(Len(es) - 1), r[n] # None PROVE n + 1 \in Nat /\ r[n + 1] # None
    OBVIOUS
  <2>1. n + 1 \in Nat /\ n \in 0..Len(es)
    BY <1>1
  <2>2. Restores(r[n], es, n)
    BY <1>3, <2>1
  <2>3. Acceptable(r[n], es[n + 1])
    BY <2>2, NextEventAcceptable
  <2>4. QED
    BY <1>3, <2>1, <2>3
<1>6. r[Len(es)] # None
  <2>1. \A n \in 0..Len(es) : n \in N
    <3> HIDE DEF N
    <3>1. QED
      BY <1>1, <1>4, <1>5, InductionUpTo
  <2>2. QED
    BY <1>1, <2>1
<1>7. Restore(es) \in Store /\ WellFormed(Restore(es)) /\ Restore(es).events = es
  BY <1>1, <1>2, <1>6, RestoreSound
<1>8. QED
  BY <1>7, EventsDetermineStore

-----------------------------------------------------------------------------
\* The cursor of a reader that has seen n events.
Cursor(n) == IF n = 0 THEN None ELSE n - 1

\* "After" such a cursor come exactly the later indices.
LEMMA AfterCursor ==
  ASSUME NEW n \in Nat, NEW k \in Nat, k > 0
  PROVE  After(Cursor(n), k - 1) <=> k > n
<1>1. CASE n = 0
  BY <1>1 DEF After, Cursor
<1>2. CASE n # 0
  <2>1. n - 1 \in Int /\ n - 1 # None
    BY NoneAssumption
  <2>2. Cursor(n) = n - 1
    BY <1>2 DEF Cursor
  <2>3. QED
    BY <2>1, <2>2 DEF After
<1>3. QED
  BY <1>1, <1>2

\* A filter that keeps what comes behind the first n elements.
LEMMA FilteredSuffix ==
  ASSUME NEW S, NEW s \in Seq(S), NEW n \in 0..Len(s),
         NEW kept, \A i \in 1..Len(s) : i \in kept <=> i > n
  PROVE  Filtered(s, kept) = [k \in 1..(Len(s) - n) |-> s[n + k]]
<1>1. PICK m : m = Len(s) - n
  OBVIOUS
<1>2. PICK q : q = [k \in 1..m |-> n + k]
  OBVIOUS
<1>3. Len(s) \in Nat /\ n \in Nat /\ m \in Nat
  BY <1>1, LenProperties
<1>4. \A k \in 1..m : q[k] = n + k
  BY <1>2
<1>5. \A k \in 1..m : q[k] \in 1..Len(s)
  BY <1>1, <1>3, <1>4
<1>6. \A k \in 1..m : \A j \in 1..(k - 1) : q[j] < q[k]
  BY <1>3, <1>4
<1>7. \A i \in 1..Len(s) : i \in kept <=> \E k \in 1..m : q[k] = i
  <2> SUFFICES ASSUME NEW i \in 1..Len(s) PROVE i > n <=> \E k \in 1..m : q[k] = i
    OBVIOUS
  <2>1. ASSUME i > n PROVE \E k \in 1..m : q[k] = i
    <3>1. i - n \in 1..m /\ n + (i - n) = i
      BY <1>1, <1>3, <2>1
    <3>2. QED
      BY <1>4, <3>1
  <2>2. ASSUME NEW k \in 1..m, q[k] = i PROVE i > n
    BY <1>3, <1>4, <2>2
  <2>3. QED
    BY <2>1, <2>2
<1>8. Filtered(s, kept) = [k \in 1..m |-> s[q[k]]]
  <2>1. Enumerates(q, m, s, kept)
    BY <1>3, <1>5, <1>6, <1>7 DEF Enumerates
  <2>2. QED
    BY <2>1, FilteredEnumerates
<1>9. QED
  BY <1>1, <1>4, <1>8

\* The events a stream's index leads to.
LEMMA IndexedEvents ==
  ASSUME NEW st \in Store, WellFormed(st), NEW s \in Streams
  PROVE  /\ Indexed(st, s) \in Seq(StoredEvent)
         /\ Len(Indexed(st, s)) = Len(st.streams[s])
         /\ Len(st.streams[s]) \in Nat
         /\ \A k \in 1..Len(st.streams[s]) :
              /\ st.streams[s][k] \in Nat
              /\ Indexed(st, s)[k] = st.events[st.streams[s][k] + 1]
              /\ Indexed(st, s)[k] \in StoredEvent
              /\ Indexed(st, s)[k].stream_id = s
              /\ Indexed(st, s)[k].stream_version = k - 1
              /\ Indexed(st, s)[k].global_position = st.streams[s][k]
<1>1. /\ Len(st.streams[s]) \in Nat
      /\ \A k \in 1..Len(st.streams[s]) : st.streams[s][k] \in Nat
  BY StoreFields, LenProperties, ElementOfSeq
<1>2. \A k \in 1..Len(st.streams[s]) :
        /\ st.streams[s][k] + 1 \in 1..Len(st.events)
        /\ st.events[st.streams[s][k] + 1].stream_id = s
        /\ st.events[st.streams[s][k] + 1].stream_version = k - 1
  BY DEF WellFormed, StreamIndexSound
<1>3. \A k \in 1..Len(st.streams[s]) :
        /\ st.events[st.streams[s][k] + 1] \in StoredEvent
        /\ st.events[st.streams[s][k] + 1].global_position = st.streams[s][k]
  <2> SUFFICES ASSUME NEW k \in 1..Len(st.streams[s])
               PROVE  /\ st.events[st.streams[s][k] + 1] \in StoredEvent
                      /\ st.events[st.streams[s][k] + 1].global_position = st.streams[s][k]
    OBVIOUS
  <2>1. st.events[st.streams[s][k] + 1].global_position = (st.streams[s][k] + 1) - 1
    BY <1>2, EventIndexed
  <2>2. st.events[st.streams[s][k] + 1] \in StoredEvent
    BY <1>2, EventIndexed
  <2>3. (st.streams[s][k] + 1) - 1 = st.streams[s][k]
    BY <1>1
  <2>4. QED
    BY <2>1, <2>2, <2>3
<1>4. Indexed(st, s) \in [1..Len(st.streams[s]) -> StoredEvent]
  BY <1>3 DEF Indexed
<1>5. Indexed(st, s) \in Seq(StoredEvent) /\ Len(Indexed(st, s)) = Len(st.streams[s])
  BY <1>1, <1>4, IsASeq
<1>6. \A k \in 1..Len(st.streams[s]) : Indexed(st, s)[k] = st.events[st.streams[s][k] + 1]
  BY DEF Indexed
<1>7. QED
  BY <1>1, <1>2, <1>3, <1>5, <1>6

\* load_stream returns what comes behind the events already seen.
LEMMA LoadStreamRest ==
  ASSUME NEW st \in Store, WellFormed(st), NEW s \in Streams, NEW n \in 0..Len(st.streams[s])
  PROVE  LoadStream(st, s, Cursor(n))
           = [k \in 1..(Len(st.streams[s]) - n) |-> Indexed(st, s)[n + k]]
<1> DEFINE loaded == Indexed(st, s)
           kept == {k \in 1..Len(loaded) : After(Cursor(n), loaded[k].stream_version)}
<1>1. /\ loaded \in Seq(StoredEvent) /\ Len(loaded) = Len(st.streams[s]) /\ Len(loaded) \in Nat
      /\ \A k \in 1..Len(loaded) : loaded[k].stream_version = k - 1
  BY IndexedEvents
<1>2. LoadStream(st, s, Cursor(n)) = Filtered(loaded, kept)
  BY DEF LoadStream
<1> HIDE DEF loaded
<1>3. \A k \in 1..Len(loaded) : k \in kept <=> k > n
  BY <1>1, AfterCursor
<1> HIDE DEF kept
<1>4. Filtered(loaded, kept) = [k \in 1..(Len(loaded) - n) |-> loaded[n + k]]
  BY <1>1, <1>3, FilteredSuffix
<1>5. QED
  BY <1>1, <1>2, <1>4 DEF loaded

\* load_all returns the next events, up to the limit.
LEMMA LoadAllRest ==
  ASSUME NEW st \in Store, WellFormed(st), NEW n \in 0..Len(st.events), NEW limit \in Nat
  PROVE  LET m == IF limit < Len(st.events) - n THEN limit ELSE Len(st.events) - n
         IN  LoadAll(st, Cursor(n), limit) = [k \in 1..m |-> st.events[n + k]]
<1> DEFINE events == st.events
           kept == {i \in 1..Len(events) : After(Cursor(n), events[i].global_position)}
           rest == Len(events) - n
           m == IF limit < rest THEN limit ELSE rest
           matching == [k \in 1..rest |-> events[n + k]]
<1>1. /\ events \in Seq(StoredEvent) /\ Len(events) \in Nat /\ rest \in Nat /\ m \in 0..rest
      /\ \A i \in 1..Len(events) : events[i].global_position = i - 1
  BY StoreFields, LenProperties DEF WellFormed, GlobalPositions
<1>2. \A i \in 1..Len(events) : i \in kept <=> i > n
  BY <1>1, AfterCursor
<1>3. Filtered(events, kept) = matching
  <2>1. n \in 0..Len(events)
    OBVIOUS
  <2> HIDE DEF kept, events
  <2>2. Filtered(events, kept) = [k \in 1..(Len(events) - n) |-> events[n + k]]
    BY <1>1, <1>2, <2>1, FilteredSuffix
  <2>3. QED
    BY <2>2
<1>4. matching \in Seq(StoredEvent) /\ Len(matching) = rest
  <2>1. \A k \in 1..rest : n + k \in 1..Len(events)
    BY <1>1
  <2>2. \A k \in 1..rest : events[n + k] \in StoredEvent
    BY <1>1, <2>1, ElementOfSeq
  <2> HIDE DEF rest, events
  <2>3. matching \in [1..rest -> StoredEvent]
    BY <2>2
  <2> HIDE DEF matching
  <2>4. QED
    BY <1>1, <2>3, IsASeq
<1>5. LoadAll(st, Cursor(n), limit) = SubSeq(matching, 1, m)
  BY <1>3, <1>4 DEF LoadAll
<1>6. SubSeq(matching, 1, m) = [k \in 1..m |-> matching[k]]
  <2> HIDE DEF matching, m, rest
  <2>1. QED
    BY <1>1, <1>4
<1>7. \A k \in 1..m : matching[k] = events[n + k]
  BY <1>1
<1> HIDE DEF matching
<1>8. QED
  BY <1>5, <1>6, <1>7

=============================================================================
