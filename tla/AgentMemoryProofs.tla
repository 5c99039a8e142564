------------------------- MODULE AgentMemoryProofs -------------------------
(***************************************************************************)
(* Theorems about memory fed by extraction, for every set of entities, of  *)
(* extractions, policies and recording times, and any length of the log.   *)
(*                                                                         *)
(* The pure part goes from the linker (the best match of every node, the   *)
(* decision) over the plan (which entities it creates, which facts it      *)
(* records) to the projection that applies it.  The inductive invariant    *)
(* AgentInv says that the projection tracks the log, that the log holds    *)
(* events of plans only, and that the linker, however old, has only nodes  *)
(* that the projection knows.  The neighbourhood of a request is compared  *)
(* with its reference by the invariant of the breadth-first search: what   *)
(* is reached is within its distance, the queue goes from near to far, and *)
(* what has left it has had all its facts looked at.  The selection keeps  *)
(* the sum of what it has chosen; retrieval rests on sorted lists being    *)
(* determined by what they hold.                                           *)
(***************************************************************************)
EXTENDS AgentMemory, MemoryProjectionProofs

-----------------------------------------------------------------------------
\* Sorting.

StrictOrder(S, before) ==
  /\ \A x \in S : <<x, x>> \notin before
  /\ \A x, y, z \in S : <<x, y>> \in before /\ <<y, z>> \in before => <<x, z>> \in before
  /\ \A x, y \in S : x # y => <<x, y>> \in before \/ <<y, x>> \in before

\* s lists the elements of S, each once, in the order.
Sorts(s, S, before) ==
  /\ s \in Seq(S) /\ Len(s) = Cardinality(S)
  /\ \A x \in S : \E k \in 1..Len(s) : s[k] = x
  /\ \A i, j \in 1..Len(s) : s[i] = s[j] => i = j
  /\ \A i, j \in 1..Len(s) : i < j => <<s[i], s[j]>> \in before

Below(S, before, x) == {y \in S : <<y, x>> \in before}

\* A finite set in a strict total order is listed once by its elements' ranks.
LEMMA SortedSetSorts ==
  ASSUME NEW S, IsFiniteSet(S), NEW before, StrictOrder(S, before)
  PROVE  Sorts(SortedSet(S, before), S, before)
<1>1. PICK n \in Nat : n = Cardinality(S)
  BY FS_CardinalityType
<1>2. PICK rank : rank = [x \in S |-> Cardinality(Below(S, before, x))]
  OBVIOUS
<1>3. \A x \in S : IsFiniteSet(Below(S, before, x)) /\ rank[x] \in 0..(n - 1)
  <2> SUFFICES ASSUME NEW x \in S
               PROVE  IsFiniteSet(Below(S, before, x)) /\ rank[x] \in 0..(n - 1)
    OBVIOUS
  <2>1. Below(S, before, x) \in SUBSET (S \ {x})
    BY DEF Below, StrictOrder
  <2>2. IsFiniteSet(S \ {x}) /\ Cardinality(S \ {x}) = n - 1
    BY <1>1, FS_RemoveElement
  <2>3. IsFiniteSet(Below(S, before, x)) /\ Cardinality(Below(S, before, x)) <= n - 1
    BY <2>1, <2>2, FS_Subset
  <2>4. Cardinality(Below(S, before, x)) \in Nat
    BY <2>3, FS_CardinalityType
  <2>5. QED
    BY <1>1, <1>2, <2>3, <2>4
<1>4. ASSUME NEW x \in S, NEW y \in S, <<x, y>> \in before PROVE rank[x] < rank[y]
  <2>1. PICK A, B : A = Below(S, before, x) /\ B = Below(S, before, y)
    OBVIOUS
  <2>2. A \in SUBSET B /\ x \in B /\ x \notin A
    BY <1>4, <2>1 DEF Below, StrictOrder
  <2>3. IsFiniteSet(A) /\ IsFiniteSet(B) /\ rank[x] = Cardinality(A) /\ rank[y] = Cardinality(B)
    BY <1>2, <1>3, <2>1
  <2>4. Cardinality(A) <= Cardinality(B) /\ Cardinality(A) # Cardinality(B)
    BY <2>2, <2>3, FS_Subset
  <2>5. rank[x] \in Int /\ rank[y] \in Int
    BY <1>3
  <2>6. QED
    BY <2>3, <2>4, <2>5
<1>5. \A x, y \in S : rank[x] = rank[y] => x = y
  <2> SUFFICES ASSUME NEW x \in S, NEW y \in S, rank[x] = rank[y], x # y PROVE FALSE
    OBVIOUS
  <2>1. <<x, y>> \in before \/ <<y, x>> \in before
    BY DEF StrictOrder
  <2>2. rank[x] < rank[y] \/ rank[y] < rank[x]
    BY <1>4, <2>1
  <2>3. rank[x] \in Int /\ rank[y] \in Int
    BY <1>3
  <2>4. QED
    BY <2>2, <2>3
<1>6. \A k \in 0..(n - 1) : \E x \in S : rank[x] = k
  <2>1. rank \in Injection(S, 0..(n - 1))
    BY <1>2, <1>3, <1>5 DEF Injection, IsInjective
  <2>2. IsFiniteSet(0..(n - 1)) /\ Cardinality(0..(n - 1)) = n
    <3>1. 0 \in Int /\ n - 1 \in Int
      OBVIOUS
    <3>2. PICK m \in Int : m = n - 1
      BY <3>1
    <3>3. IsFiniteSet(0..m) /\ Cardinality(0..m) = IF 0 > m THEN 0 ELSE m - 0 + 1
      BY FS_Interval
    <3>4. QED
      BY <3>2, <3>3
  <2>3. rank \in Surjection(S, 0..(n - 1))
    BY <1>1, <2>1, <2>2, FS_Injection
  <2>4. QED
    BY <2>3 DEF Surjection
<1>7. PICK s : s = SortedSet(S, before)
  OBVIOUS
<1>8. s = [k \in 1..n |-> CHOOSE x \in S : Cardinality(Below(S, before, x)) = k - 1]
  BY <1>1, <1>7, Zenon DEF SortedSet, Below
<1>9. ASSUME NEW k \in 1..n PROVE s[k] \in S /\ rank[s[k]] = k - 1
  <2>1. PICK x \in S : rank[x] = k - 1
    <3>1. k - 1 \in 0..(n - 1)
      OBVIOUS
    <3>2. QED
      BY <1>6, <3>1
  <2>2. Cardinality(Below(S, before, x)) = k - 1
    BY <1>2, <2>1
  <2>3. s[k] = CHOOSE z \in S : Cardinality(Below(S, before, z)) = k - 1
    BY <1>8
  <2>4. s[k] \in S /\ Cardinality(Below(S, before, s[k])) = k - 1
    BY <2>2, <2>3, Zenon
  <2>5. QED
    BY <1>2, <2>4
<1>10. s \in [1..n -> S]
  BY <1>8, <1>9
<1>11. s \in Seq(S) /\ Len(s) = n
  BY <1>10, FunctionIsSeq
<1>12. ASSUME NEW x \in S PROVE \E k \in 1..n : s[k] = x
  <2>1. rank[x] \in 0..(n - 1)
    BY <1>3
  <2>2. PICK k \in 1..n : k - 1 = rank[x]
    <3>1. rank[x] + 1 \in 1..n /\ (rank[x] + 1) - 1 = rank[x]
      BY <2>1
    <3>2. QED
      BY <3>1
  <2>3. s[k] = x
    BY <1>5, <1>9, <2>2
  <2>4. QED
    BY <2>3
<1>13. ASSUME NEW i \in 1..n, NEW j \in 1..n, s[i] = s[j] PROVE i = j
  BY <1>9, <1>13
<1>14. ASSUME NEW i \in 1..n, NEW j \in 1..n, i < j PROVE <<s[i], s[j]>> \in before
  <2>1. s[i] \in S /\ s[j] \in S /\ rank[s[i]] < rank[s[j]]
    BY <1>9, <1>14
  <2>2. s[i] # s[j] /\ ~(rank[s[j]] < rank[s[i]])
    BY <1>3, <2>1
  <2>3. <<s[i], s[j]>> \in before \/ <<s[j], s[i]>> \in before
    BY <2>1, <2>2 DEF StrictOrder
  <2>4. QED
    BY <1>4, <2>1, <2>2, <2>3
<1>15. Sorts(s, S, before)
  BY <1>1, <1>11, <1>12, <1>13, <1>14 DEF Sorts
<1>16. QED
  BY <1>7, <1>15

\* The identifiers of a BTreeSet in ascending order.
LEMMA AscendingSorts ==
  ASSUME NEW S, IsFiniteSet(S), S \subseteq Nat
  PROVE  Sorts(Ascending(S), S, {p \in S \X S : p[1] < p[2]})
<1>1. PICK before : before = {p \in S \X S : p[1] < p[2]}
  OBVIOUS
<1>2. \A x, y \in S : <<x, y>> \in before <=> x < y
  BY <1>1
<1>3. StrictOrder(S, before)
  <2>1. \A x \in S : x \in Nat
    OBVIOUS
  <2>2. QED
    BY <1>2, <2>1 DEF StrictOrder
<1>4. QED
  BY <1>1, <1>3, SortedSetSorts DEF Ascending

-----------------------------------------------------------------------------
\* Occurrences in sequences.

Occurs(c, s) == \E i \in 1..Len(s) : s[i] = c

\* A sequence without c is a sequence over the other elements.
LEMMA WithoutElement ==
  ASSUME NEW S, NEW s \in Seq(S), NEW c
  PROVE  s \in Seq(S \ {c}) <=> ~Occurs(c, s)
<1>1. Len(s) \in Nat /\ \A i \in 1..Len(s) : s[i] \in S
  BY LenProperties, ElementOfSeq
<1>2. ASSUME s \in Seq(S \ {c}) PROVE ~Occurs(c, s)
  <2>1. \A i \in 1..Len(s) : s[i] \in S \ {c}
    BY <1>2, ElementOfSeq
  <2>2. QED
    BY <2>1 DEF Occurs
<1>3. ASSUME ~Occurs(c, s) PROVE s \in Seq(S \ {c})
  <2>1. \A i \in 1..Len(s) : s[i] \in S \ {c}
    BY <1>1, <1>3 DEF Occurs
  <2>2. s \in [1..Len(s) -> S \ {c}]
    BY <2>1, LenProperties
  <2>3. QED
    BY <1>1, <2>2, FunctionIsSeq
<1>4. QED
  BY <1>2, <1>3

\* What occurs in the sequences, and nothing else, occurs in the flattened one.
LEMMA FlattenOccurs ==
  ASSUME NEW S, NEW seqs \in Seq(Seq(S)), NEW c
  PROVE  /\ FlattenSeq(seqs) \in Seq(S)
         /\ Occurs(c, FlattenSeq(seqs)) <=> \E i \in 1..Len(seqs) : Occurs(c, seqs[i])
<1>1. \A i \in 1..Len(seqs) : seqs[i] \in Seq(S)
  BY ElementOfSeq
<1>2. FlattenSeq(seqs) \in Seq(S)
  BY <1>1, FlattenMembers
<1>3. FlattenSeq(seqs) \in Seq(S \ {c}) <=> \A i \in 1..Len(seqs) : seqs[i] \in Seq(S \ {c})
  <2>1. S \ {c} \subseteq S
    OBVIOUS
  <2>2. QED
    BY <2>1, FlattenMembers
<1>4. FlattenSeq(seqs) \in Seq(S \ {c}) <=> ~Occurs(c, FlattenSeq(seqs))
  BY <1>2, WithoutElement
<1>5. \A i \in 1..Len(seqs) : seqs[i] \in Seq(S \ {c}) <=> ~Occurs(c, seqs[i])
  BY <1>1, WithoutElement
<1>6. QED
  BY <1>2, <1>3, <1>4, <1>5

-----------------------------------------------------------------------------
\* Candidates.

Methods == {"Label", "Alias", "ExternalId", "ProviderHint"}

Match == [entity_id: Entities, score: Confidence, method: Methods \cup {"ScopedLabel"}]

\* A linker is a sequence of nodes with identifiers.
Catalogued(nodes) ==
  nodes \in Seq(ToSet(nodes)) /\ \A n \in 1..Len(nodes) : nodes[n].id \in Entities

\* Confidence is in ten-thousandths.
LEMMA ConfidenceInt == \A c \in Confidence : c \in Int /\ c \in Nat /\ c >= 0
BY DEF Confidence

\* The smaller of two numbers.
LEMMA SmallerOfTwo ==
  ASSUME NEW a \in Int, NEW b \in Int
  PROVE  /\ Min({a, b}) \in {a, b} /\ Min({a, b}) <= a /\ Min({a, b}) <= b
         /\ Min({a, b}) = IF a <= b THEN a ELSE b
<1>1. PICK m \in {a, b} : \A y \in {a, b} : m <= y
  <2>1. CASE a <= b
    BY <2>1
  <2>2. CASE b <= a
    BY <2>2
  <2>3. QED
    BY <2>1, <2>2
<1>2. Min({a, b}) \in {a, b} /\ \A y \in {a, b} : Min({a, b}) <= y
  BY <1>1, Zenon DEF Min
<1>3. QED
  BY <1>2

\* Scores stay in the range of a confidence.
LEMMA ScopeScoreBounded ==
  ASSUME NEW base \in Int, NEW node, NEW input
  PROVE  ScopeScore(base, node, input) \in Confidence
<1>1. PICK r \in Int : r = Bonus(input.repository, node.repository, 400, -2000, -300)
  BY DEF Bonus
<1>2. PICK b \in Int : b = Bonus(input.branch, node.branch, 200, -700, -100)
  BY DEF Bonus
<1>3. ScopeScore(base, node, input) = Clamp(base + r + b)
  BY <1>1, <1>2 DEF ScopeScore
<1>4. Clamp(base + r + b) \in 0..10000
  BY DEF Clamp
<1>5. QED
  BY <1>3, <1>4 DEF Confidence

\* The score of a match.
MatchScore(base, node, mention, input) == Min({ScopeScore(base, node, input), mention.confidence})

\* A candidate of a node.
LEMMA CandidateTyped ==
  ASSUME NEW node, node.id \in Entities, NEW base \in Int, NEW method \in Methods,
         NEW mention, mention.confidence \in Confidence, NEW input
  PROVE  /\ Candidate(node, base, method, mention, input) \in Match
         /\ Candidate(node, base, method, mention, input).entity_id = node.id
         /\ Candidate(node, base, method, mention, input).score
              = MatchScore(base, node, mention, input)
<1>1. PICK s : s = MatchScore(base, node, mention, input)
  OBVIOUS
<1>2. s \in Confidence
  <2>1. PICK a, b : a = ScopeScore(base, node, input) /\ b = mention.confidence
    OBVIOUS
  <2>2. a \in Confidence /\ b \in Confidence
    BY <2>1, ScopeScoreBounded, Zenon
  <2> a \in Int /\ b \in Int
    BY <2>2 DEF Confidence
  <2>3. s \in {a, b}
    BY <1>1, <2>1, <2>2, SmallerOfTwo DEF MatchScore
  <2>4. QED
    BY <2>2, <2>3
<1>3. PICK m : m = IF method = "Label" /\ Scoped(node, input) THEN "ScopedLabel" ELSE method
  OBVIOUS
<1>4. m \in Methods \cup {"ScopedLabel"}
  BY <1>3
<1>5. Candidate(node, base, method, mention, input) = [entity_id |-> node.id, score |-> s, method |-> m]
  BY <1>1, <1>3 DEF Candidate, MatchScore
<1>6. QED
  BY <1>1, <1>2, <1>4, <1>5 DEF Match

\* What speaks for a node, from which score and by which method: its label or
\* an alias, another name of the mention, an external identifier, a hint.
SpeaksName(node, label, base, method) ==
  \/ base = 9000 /\ method = "Label" /\ SameText(node.label, label)
  \/ base = 8500 /\ method = "Alias" /\ \E a \in node.aliases : SameText(a, label)

SpeaksAlias(node, s, base, method) ==
  /\ base = 8500 /\ method = "Alias"
  /\ \E k \in DOMAIN s : \E a \in node.aliases : SameText(a, s[k])

SpeaksExternal(node, s, base, method) ==
  /\ base = 9700 /\ method = "ExternalId"
  /\ \E k \in DOMAIN s : \E e \in node.external :
       e[1] = s[k][1] /\ ExactKey[e[2]] = ExactKey[s[k][2]]

SpeaksHint(node, s, base, method) ==
  /\ method = "ProviderHint"
  /\ \E k \in DOMAIN s : node.id = s[k].entity_id /\ base = s[k].confidence

Speaks(node, mention, base, method) ==
  \/ SpeaksName(node, mention.label, base, method)
  \/ SpeaksAlias(node, mention.aliases, base, method)
  \/ SpeaksExternal(node, mention.external, base, method)
  \/ SpeaksHint(node, mention.hints, base, method)

\* A lookup leads to a node.
Leading(s, n, base, method) ==
  \E k \in 1..Len(s) : n \in s[k].at /\ s[k].base = base /\ s[k].method = method

LookupRecord(nodes) == [at: SUBSET DOMAIN nodes, base: Int, method: Methods]

\* One of two lists of lookups leads there.
LEMMA LeadingConcat ==
  ASSUME NEW S, NEW a \in Seq(S), NEW b \in Seq(S), NEW n, NEW base, NEW method
  PROVE  /\ a \o b \in Seq(S)
         /\ Leading(a \o b, n, base, method)
              <=> Leading(a, n, base, method) \/ Leading(b, n, base, method)
<1>1. PICK c : c = a \o b
  OBVIOUS
<1>2. /\ c \in Seq(S) /\ Len(c) = Len(a) + Len(b) /\ Len(a) \in Nat /\ Len(b) \in Nat
      /\ \A i \in 1..(Len(a) + Len(b)) : c[i] = IF i <= Len(a) THEN a[i] ELSE b[i - Len(a)]
  BY <1>1, ConcatProperties, LenProperties
<1>3. ASSUME Leading(c, n, base, method)
      PROVE  Leading(a, n, base, method) \/ Leading(b, n, base, method)
  <2>1. PICK i \in 1..Len(c) : n \in c[i].at /\ c[i].base = base /\ c[i].method = method
    BY <1>3 DEF Leading
  <2>2. CASE i <= Len(a)
    <3>1. i \in 1..Len(a) /\ c[i] = a[i]
      BY <1>2, <2>2
    <3>2. QED
      BY <2>1, <3>1 DEF Leading
  <2>3. CASE ~(i <= Len(a))
    <3>1. i - Len(a) \in 1..Len(b) /\ c[i] = b[i - Len(a)]
      BY <1>2, <2>3
    <3>2. QED
      BY <2>1, <3>1 DEF Leading
  <2>4. QED
    BY <2>2, <2>3
<1>4. ASSUME Leading(a, n, base, method) PROVE Leading(c, n, base, method)
  <2>1. PICK i \in 1..Len(a) : n \in a[i].at /\ a[i].base = base /\ a[i].method = method
    BY <1>4 DEF Leading
  <2>2. i \in 1..Len(c) /\ c[i] = a[i]
    BY <1>2
  <2>3. QED
    BY <2>1, <2>2 DEF Leading
<1>5. ASSUME Leading(b, n, base, method) PROVE Leading(c, n, base, method)
  <2>1. PICK i \in 1..Len(b) : n \in b[i].at /\ b[i].base = base /\ b[i].method = method
    BY <1>5 DEF Leading
  <2>2. i + Len(a) \in 1..Len(c) /\ ~(i + Len(a) <= Len(a)) /\ (i + Len(a)) - Len(a) = i
    BY <1>2
  <2>3. c[i + Len(a)] = b[i]
    BY <1>2, <2>2
  <2>4. QED
    BY <2>1, <2>2, <2>3 DEF Leading
<1>6. QED
  BY <1>1, <1>2, <1>3, <1>4, <1>5

\* What a mention must be to be linked.
MentionTyped(mention) ==
  /\ mention.confidence \in Confidence
  /\ mention.aliases \in Seq(ToSet(mention.aliases))
  /\ mention.external \in Seq(ToSet(mention.external))
  /\ mention.hints \in Seq([entity_id: Entities, confidence: Confidence])

\* The parts of the lookups.
NameList(nodes, label) ==
  <<[at |-> Labelled(nodes, label), base |-> 9000, method |-> "Label"],
    [at |-> Aliased(nodes, label), base |-> 8500, method |-> "Alias"]>>

AliasList(nodes, s) ==
  [k \in DOMAIN s |-> [at |-> Aliased(nodes, s[k]), base |-> 8500, method |-> "Alias"]]

ExternalList(nodes, s) ==
  [k \in DOMAIN s |-> [at |-> External(nodes, s[k]), base |-> 9700, method |-> "ExternalId"]]

HintList(nodes, s) ==
  [k \in DOMAIN s |-> [at |-> WithId(nodes, s[k].entity_id), base |-> s[k].confidence,
                       method |-> "ProviderHint"]]

\* A list with one lookup for every element of a sequence.
LEMMA LookupList ==
  ASSUME NEW nodes, NEW T, NEW s \in Seq(T), NEW f \in [DOMAIN s -> LookupRecord(nodes)],
         NEW n, NEW base, NEW method
  PROVE  /\ f \in Seq(LookupRecord(nodes))
         /\ Leading(f, n, base, method) <=>
              \E k \in DOMAIN s : n \in f[k].at /\ f[k].base = base /\ f[k].method = method
<1>1. PICK R : R = LookupRecord(nodes)
  OBVIOUS
<1>2. DOMAIN s = 1..Len(s) /\ Len(s) \in Nat
  BY LenProperties
<1>3. f \in [1..Len(s) -> R]
  BY <1>1, <1>2
<1>4. f \in Seq(R) /\ Len(f) = Len(s)
  BY <1>2, <1>3, FunctionIsSeq
<1>5. QED
  BY <1>1, <1>2, <1>4 DEF Leading

\* A name leads to the nodes labelled with it and to those aliased to it.
LEMMA NameListLeads ==
  ASSUME NEW nodes, NEW label, NEW n, NEW base, NEW method
  PROVE  /\ NameList(nodes, label) \in Seq(LookupRecord(nodes))
         /\ n \in DOMAIN nodes =>
              (Leading(NameList(nodes, label), n, base, method) <=> SpeaksName(nodes[n], label, base, method))
<1> DEFINE l1 == [at |-> Labelled(nodes, label), base |-> 9000, method |-> "Label"]
           l2 == [at |-> Aliased(nodes, label), base |-> 8500, method |-> "Alias"]
<1>1. l1.at = Labelled(nodes, label) /\ l1.base = 9000 /\ l1.method = "Label"
  OBVIOUS
<1>2. l2.at = Aliased(nodes, label) /\ l2.base = 8500 /\ l2.method = "Alias"
  OBVIOUS
<1>3. NameList(nodes, label) = <<l1, l2>>
  BY DEF NameList
<1>4. l1 \in LookupRecord(nodes) /\ l2 \in LookupRecord(nodes)
  BY DEF LookupRecord, Labelled, Aliased, Methods
<1> HIDE DEF l1, l2
<1>5. PICK l : l = <<l1, l2>>
  OBVIOUS
<1>6. PICK R : R = LookupRecord(nodes)
  OBVIOUS
<1>7. l \in Seq(R) /\ Len(l) = 2 /\ l[1] = l1 /\ l[2] = l2
  BY <1>4, <1>5, <1>6
<1>8. Leading(l, n, base, method) <=>
        \/ n \in l1.at /\ l1.base = base /\ l1.method = method
        \/ n \in l2.at /\ l2.base = base /\ l2.method = method
  <2>1. 1..2 = {1, 2}
    OBVIOUS
  <2>2. QED
    BY <1>7, <2>1 DEF Leading
<1>9. n \in DOMAIN nodes => (n \in l1.at <=> SameText(nodes[n].label, label))
  BY <1>1 DEF Labelled
<1>10. n \in DOMAIN nodes => (n \in l2.at <=> \E a \in nodes[n].aliases : SameText(a, label))
  BY <1>2 DEF Aliased
<1>11. n \in DOMAIN nodes =>
        (Leading(l, n, base, method) <=> SpeaksName(nodes[n], label, base, method))
  BY <1>1, <1>2, <1>8, <1>9, <1>10 DEF SpeaksName
<1>12. QED
  BY <1>3, <1>5, <1>6, <1>7, <1>11

\* The aliases of a mention lead to the nodes that have one of them.
LEMMA AliasListLeads ==
  ASSUME NEW nodes, NEW s, s \in Seq(ToSet(s)), NEW n, NEW base, NEW method
  PROVE  /\ AliasList(nodes, s) \in Seq(LookupRecord(nodes))
         /\ n \in DOMAIN nodes =>
              (Leading(AliasList(nodes, s), n, base, method) <=> SpeaksAlias(nodes[n], s, base, method))
<1>1. PICK f, T : f = AliasList(nodes, s) /\ T = ToSet(s)
  OBVIOUS
<1>2. \A k \in DOMAIN s : /\ f[k].at = Aliased(nodes, s[k]) /\ f[k].base = 8500
                          /\ f[k].method = "Alias" /\ f[k] \in LookupRecord(nodes)
  BY <1>1 DEF AliasList, LookupRecord, Aliased, Methods
<1>3. f \in [DOMAIN s -> LookupRecord(nodes)]
  BY <1>1, <1>2 DEF AliasList
<1>4. /\ f \in Seq(LookupRecord(nodes))
      /\ Leading(f, n, base, method) <=>
           \E k \in DOMAIN s : n \in f[k].at /\ f[k].base = base /\ f[k].method = method
  BY <1>1, <1>3, LookupList
<1>5. \A k \in DOMAIN s : n \in DOMAIN nodes => (n \in f[k].at <=> \E a \in nodes[n].aliases : SameText(a, s[k]))
  BY <1>2 DEF Aliased
<1>6. n \in DOMAIN nodes => (Leading(f, n, base, method) <=> SpeaksAlias(nodes[n], s, base, method))
  BY <1>2, <1>4, <1>5 DEF SpeaksAlias
<1>7. QED
  BY <1>1, <1>4, <1>6

\* External identifiers lead to the nodes that have one of them, by exact key.
LEMMA ExternalListLeads ==
  ASSUME NEW nodes, NEW s, s \in Seq(ToSet(s)), NEW n, NEW base, NEW method
  PROVE  /\ ExternalList(nodes, s) \in Seq(LookupRecord(nodes))
         /\ n \in DOMAIN nodes =>
              (Leading(ExternalList(nodes, s), n, base, method) <=> SpeaksExternal(nodes[n], s, base, method))
<1>1. PICK f, T : f = ExternalList(nodes, s) /\ T = ToSet(s)
  OBVIOUS
<1>2. \A k \in DOMAIN s : /\ f[k].at = External(nodes, s[k]) /\ f[k].base = 9700
                          /\ f[k].method = "ExternalId" /\ f[k] \in LookupRecord(nodes)
  BY <1>1 DEF ExternalList, LookupRecord, External, Methods
<1>3. f \in [DOMAIN s -> LookupRecord(nodes)]
  BY <1>1, <1>2 DEF ExternalList
<1>4. /\ f \in Seq(LookupRecord(nodes))
      /\ Leading(f, n, base, method) <=>
           \E k \in DOMAIN s : n \in f[k].at /\ f[k].base = base /\ f[k].method = method
  BY <1>1, <1>3, LookupList
<1>5. \A k \in DOMAIN s : n \in DOMAIN nodes => (n \in f[k].at <=>
        \E e \in nodes[n].external : e[1] = s[k][1] /\ ExactKey[e[2]] = ExactKey[s[k][2]])
  BY <1>2 DEF External
<1>6. n \in DOMAIN nodes => (Leading(f, n, base, method) <=> SpeaksExternal(nodes[n], s, base, method))
  BY <1>2, <1>4, <1>5 DEF SpeaksExternal
<1>7. QED
  BY <1>1, <1>4, <1>6

\* A provider's hints lead to the nodes they name, with the hint's confidence.
LEMMA HintListLeads ==
  ASSUME NEW nodes, NEW s \in Seq([entity_id: Entities, confidence: Confidence]),
         NEW n, NEW base, NEW method
  PROVE  /\ HintList(nodes, s) \in Seq(LookupRecord(nodes))
         /\ n \in DOMAIN nodes =>
              (Leading(HintList(nodes, s), n, base, method) <=> SpeaksHint(nodes[n], s, base, method))
<1>1. PICK f, T : f = HintList(nodes, s) /\ T = [entity_id: Entities, confidence: Confidence]
  OBVIOUS
<1>2. \A k \in DOMAIN s : s[k] \in [entity_id: Entities, confidence: Confidence]
  BY ElementOfSeq, LenProperties
<1>3. \A k \in DOMAIN s : s[k].confidence \in Int
  <2>1. \A k \in DOMAIN s : s[k].confidence \in Confidence
    BY <1>2
  <2>2. QED
    BY <2>1, ConfidenceInt
<1>4. \A k \in DOMAIN s : /\ f[k].at = WithId(nodes, s[k].entity_id) /\ f[k].base = s[k].confidence
                          /\ f[k].method = "ProviderHint" /\ f[k] \in LookupRecord(nodes)
  BY <1>1, <1>3 DEF HintList, LookupRecord, WithId, Methods
<1>5. f \in [DOMAIN s -> LookupRecord(nodes)]
  BY <1>1, <1>4 DEF HintList
<1>6. /\ f \in Seq(LookupRecord(nodes))
      /\ Leading(f, n, base, method) <=>
           \E k \in DOMAIN s : n \in f[k].at /\ f[k].base = base /\ f[k].method = method
  BY <1>1, <1>5, LookupList
<1>7. \A k \in DOMAIN s : n \in DOMAIN nodes => (n \in f[k].at <=> nodes[n].id = s[k].entity_id)
  BY <1>4 DEF WithId
<1>8. n \in DOMAIN nodes => (Leading(f, n, base, method) <=> SpeaksHint(nodes[n], s, base, method))
  BY <1>4, <1>6, <1>7 DEF SpeaksHint
<1>9. QED
  BY <1>1, <1>6, <1>8

\* The lookups lead to a node exactly if something speaks for it.
LEMMA LookupsLead ==
  ASSUME NEW nodes, NEW mention, MentionTyped(mention), NEW n, NEW base, NEW method
  PROVE  /\ Lookups(nodes, mention) \in Seq(LookupRecord(nodes))
         /\ n \in DOMAIN nodes => (Leading(Lookups(nodes, mention), n, base, method)
                                     <=> Speaks(nodes[n], mention, base, method))
<1>1. PICK R, l, a, e, h :
        /\ R = LookupRecord(nodes) /\ l = NameList(nodes, mention.label)
        /\ a = AliasList(nodes, mention.aliases) /\ e = ExternalList(nodes, mention.external)
        /\ h = HintList(nodes, mention.hints)
  OBVIOUS
<1>2. Lookups(nodes, mention) = l \o a \o e \o h
  <2>1. Lookups(nodes, mention)
          = NameList(nodes, mention.label) \o AliasList(nodes, mention.aliases)
              \o ExternalList(nodes, mention.external) \o HintList(nodes, mention.hints)
    BY DEF Lookups, NameList, AliasList, ExternalList, HintList
  <2>2. QED
    BY <1>1, <2>1, Zenon
<1>3. l \in Seq(R) /\ (n \in DOMAIN nodes =>
        (Leading(l, n, base, method) <=> SpeaksName(nodes[n], mention.label, base, method)))
  BY <1>1, NameListLeads
<1>4. a \in Seq(R) /\ (n \in DOMAIN nodes =>
        (Leading(a, n, base, method) <=> SpeaksAlias(nodes[n], mention.aliases, base, method)))
  <2>1. PICK s : s = mention.aliases
    OBVIOUS
  <2>2. s \in Seq(ToSet(s))
    BY <2>1 DEF MentionTyped
  <2>3. QED
    BY <1>1, <2>1, <2>2, AliasListLeads
<1>5. e \in Seq(R) /\ (n \in DOMAIN nodes =>
        (Leading(e, n, base, method) <=> SpeaksExternal(nodes[n], mention.external, base, method)))
  <2>1. PICK s : s = mention.external
    OBVIOUS
  <2>2. s \in Seq(ToSet(s))
    BY <2>1 DEF MentionTyped
  <2>3. QED
    BY <1>1, <2>1, <2>2, ExternalListLeads
<1>6. h \in Seq(R) /\ (n \in DOMAIN nodes =>
        (Leading(h, n, base, method) <=> SpeaksHint(nodes[n], mention.hints, base, method)))
  BY <1>1, HintListLeads DEF MentionTyped
<1>7. PICK x1 : x1 = l \o a
  OBVIOUS
<1>8. PICK x2 : x2 = x1 \o e
  OBVIOUS
<1>9. PICK x3 : x3 = x2 \o h
  OBVIOUS
<1>10. x1 \in Seq(R) /\ (Leading(x1, n, base, method)
        <=> Leading(l, n, base, method) \/ Leading(a, n, base, method))
  BY <1>3, <1>4, <1>7, LeadingConcat
<1>11. x2 \in Seq(R) /\ (Leading(x2, n, base, method)
        <=> Leading(x1, n, base, method) \/ Leading(e, n, base, method))
  <2>1. x1 \in Seq(R) /\ e \in Seq(R)
    BY <1>5, <1>10
  <2>2. QED
    BY <1>8, <2>1, LeadingConcat
<1>12. x3 \in Seq(R) /\ (Leading(x3, n, base, method)
        <=> Leading(x2, n, base, method) \/ Leading(h, n, base, method))
  <2>1. x2 \in Seq(R) /\ h \in Seq(R)
    BY <1>6, <1>11
  <2>2. QED
    BY <1>9, <2>1, LeadingConcat
<1>13. x3 = Lookups(nodes, mention)
  BY <1>2, <1>7, <1>8, <1>9
<1>14. QED
  BY <1>1, <1>3, <1>4, <1>5, <1>6, <1>10, <1>11, <1>12, <1>13 DEF Speaks

\* The matches of one lookup: a candidate for every node it leads to.
LEMMA FoundOccurs ==
  ASSUME NEW nodes, Catalogued(nodes), NEW mention, MentionTyped(mention), NEW input,
         NEW lookup \in LookupRecord(nodes), NEW c
  PROVE  /\ Found(nodes, lookup, mention, input) \in Seq(Match)
         /\ Occurs(c, Found(nodes, lookup, mention, input)) <=>
              \E n \in DOMAIN nodes :
                /\ n \in lookup.at /\ SameText(nodes[n].kind, mention.kind)
                /\ c = Candidate(nodes[n], lookup.base, lookup.method, mention, input)
<1>1. PICK S : S = ToSet(nodes)
  OBVIOUS
<1>2. nodes \in Seq(S) /\ DOMAIN nodes = 1..Len(nodes) /\ Len(nodes) \in Nat
  BY <1>1, LenProperties DEF Catalogued
<1>3. PICK kept : kept = lookup.at \cap OfKind(nodes, mention.kind)
  OBVIOUS
<1>4. \A n \in DOMAIN nodes : n \in kept <=> n \in lookup.at /\ SameText(nodes[n].kind, mention.kind)
  BY <1>3 DEF OfKind
<1>5. PICK out : out = Filtered(nodes, kept)
  OBVIOUS
<1>6. Keeps(out, S, nodes, kept)
  BY <1>2, <1>5, FilteredMembers
<1>7. PICK found : found = [k \in DOMAIN out |->
                              Candidate(out[k], lookup.base, lookup.method, mention, input)]
  OBVIOUS
<1>8. found = Found(nodes, lookup, mention, input)
  BY <1>3, <1>5, <1>7, Zenon DEF Found
<1>9. out \in Seq(S) /\ DOMAIN out = 1..Len(out) /\ Len(out) \in Nat
  BY <1>6, LenProperties DEF Keeps
<1>10. ASSUME NEW k \in DOMAIN out
       PROVE  \E n \in DOMAIN nodes :
                /\ n \in kept /\ out[k] = nodes[n]
                /\ found[k] = Candidate(nodes[n], lookup.base, lookup.method, mention, input)
                /\ found[k] \in Match
  <2>1. PICK n \in 1..Len(nodes) : n \in kept /\ out[k] = nodes[n]
    BY <1>6, <1>9 DEF Keeps
  <2>2. found[k] = Candidate(nodes[n], lookup.base, lookup.method, mention, input)
    BY <1>7, <2>1
  <2>3. nodes[n].id \in Entities /\ mention.confidence \in Confidence
    BY DEF Catalogued, MentionTyped
  <2>4. lookup.base \in Int /\ lookup.method \in Methods
    BY DEF LookupRecord
  <2>5. found[k] \in Match
    BY <2>2, <2>3, <2>4, CandidateTyped
  <2>6. QED
    BY <1>2, <2>1, <2>2, <2>5
<1>11. found \in [1..Len(out) -> Match]
  BY <1>7, <1>9, <1>10
<1>12. found \in Seq(Match) /\ Len(found) = Len(out)
  BY <1>9, <1>11, FunctionIsSeq
<1>13. ASSUME Occurs(c, found)
       PROVE  \E n \in DOMAIN nodes :
                n \in kept /\ c = Candidate(nodes[n], lookup.base, lookup.method, mention, input)
  <2>1. PICK k \in 1..Len(found) : found[k] = c
    BY <1>13 DEF Occurs
  <2>2. k \in DOMAIN out
    BY <1>9, <1>12
  <2>3. QED
    BY <1>10, <2>1, <2>2
<1>14. ASSUME NEW n \in DOMAIN nodes, n \in kept,
              c = Candidate(nodes[n], lookup.base, lookup.method, mention, input)
       PROVE  Occurs(c, found)
  <2>1. n \in 1..Len(nodes)
    BY <1>2
  <2>2. PICK k \in 1..Len(out) : out[k] = nodes[n]
    BY <1>6, <1>14, <2>1 DEF Keeps
  <2>3. found[k] = c
    BY <1>7, <1>9, <1>14, <2>2
  <2>4. QED
    BY <1>12, <2>3 DEF Occurs
<1>15. QED
  BY <1>4, <1>8, <1>12, <1>13, <1>14

\* A match: a candidate for a node of the mention's kind that something speaks
\* for.
MatchOf(node, mention, input, base, method, c) ==
  /\ SameText(node.kind, mention.kind) /\ Speaks(node, mention, base, method)
  /\ c = Candidate(node, base, method, mention, input)

\* The matches are those of the nodes, whatever index leads to them.
LEMMA MatchesOccur ==
  ASSUME NEW nodes, Catalogued(nodes), NEW mention, MentionTyped(mention), NEW input, NEW c
  PROVE  /\ Matches(nodes, mention, input) \in Seq(Match)
         /\ Occurs(c, Matches(nodes, mention, input)) <=>
              \E n \in DOMAIN nodes : \E base, method :
                MatchOf(nodes[n], mention, input, base, method, c)
<1>1. PICK lookups : lookups = Lookups(nodes, mention)
  OBVIOUS
<1>2. lookups \in Seq(LookupRecord(nodes))
  BY <1>1, LookupsLead
<1>3. Len(lookups) \in Nat /\ DOMAIN lookups = 1..Len(lookups)
  BY <1>2, LenProperties
<1>4. \A k \in 1..Len(lookups) : lookups[k] \in LookupRecord(nodes)
  BY <1>2, ElementOfSeq
<1>5. PICK seqs : seqs = [k \in DOMAIN lookups |-> Found(nodes, lookups[k], mention, input)]
  OBVIOUS
<1>6. \A k \in 1..Len(lookups) :
        /\ seqs[k] \in Seq(Match)
        /\ Occurs(c, seqs[k]) <=>
              \E n \in DOMAIN nodes :
                /\ n \in lookups[k].at /\ SameText(nodes[n].kind, mention.kind)
                /\ c = Candidate(nodes[n], lookups[k].base, lookups[k].method, mention, input)
  <2> SUFFICES ASSUME NEW k \in 1..Len(lookups)
               PROVE  /\ seqs[k] \in Seq(Match)
                      /\ Occurs(c, seqs[k]) <=>
                          \E n \in DOMAIN nodes :
                            /\ n \in lookups[k].at /\ SameText(nodes[n].kind, mention.kind)
                            /\ c = Candidate(nodes[n], lookups[k].base, lookups[k].method, mention, input)
    OBVIOUS
  <2>1. PICK lookup \in LookupRecord(nodes) : lookup = lookups[k]
    BY <1>4
  <2>2. seqs[k] = Found(nodes, lookup, mention, input)
    BY <1>3, <1>5, <2>1
  <2>3. QED
    BY <2>1, <2>2, FoundOccurs
<1>7. seqs \in [1..Len(lookups) -> Seq(Match)]
  BY <1>3, <1>5, <1>6
<1>8. seqs \in Seq(Seq(Match)) /\ Len(seqs) = Len(lookups)
  BY <1>3, <1>7, FunctionIsSeq
<1>9. Matches(nodes, mention, input) = FlattenSeq(seqs)
  BY <1>1, <1>5, Zenon DEF Matches
<1>10. /\ Matches(nodes, mention, input) \in Seq(Match)
       /\ Occurs(c, Matches(nodes, mention, input)) <=> \E k \in 1..Len(lookups) : Occurs(c, seqs[k])
  BY <1>8, <1>9, FlattenOccurs
<1>11. ASSUME NEW k \in 1..Len(lookups), Occurs(c, seqs[k])
       PROVE  \E n \in DOMAIN nodes : \E base, method :
                MatchOf(nodes[n], mention, input, base, method, c)
  <2>1. PICK n \in DOMAIN nodes :
          /\ n \in lookups[k].at /\ SameText(nodes[n].kind, mention.kind)
          /\ c = Candidate(nodes[n], lookups[k].base, lookups[k].method, mention, input)
    BY <1>6, <1>11
  <2>2. PICK base, method : base = lookups[k].base /\ method = lookups[k].method
    OBVIOUS
  <2>3. Leading(lookups, n, base, method)
    BY <2>1, <2>2 DEF Leading
  <2>4. Speaks(nodes[n], mention, base, method)
    BY <1>1, <2>3, LookupsLead
  <2>5. MatchOf(nodes[n], mention, input, base, method, c)
    BY <2>1, <2>2, <2>4 DEF MatchOf
  <2>6. QED
    BY <2>5
<1>12. ASSUME NEW n \in DOMAIN nodes, NEW base, NEW method,
              MatchOf(nodes[n], mention, input, base, method, c)
       PROVE  \E k \in 1..Len(lookups) : Occurs(c, seqs[k])
  <2>1. Leading(lookups, n, base, method)
    BY <1>1, <1>12, LookupsLead DEF MatchOf
  <2>2. PICK k \in 1..Len(lookups) :
          n \in lookups[k].at /\ lookups[k].base = base /\ lookups[k].method = method
    BY <2>1 DEF Leading
  <2>3. SameText(nodes[n].kind, mention.kind) /\ c = Candidate(nodes[n], base, method, mention, input)
    BY <1>12 DEF MatchOf
  <2>4. Occurs(c, seqs[k])
    BY <1>6, <2>2, <2>3
  <2>5. QED
    BY <2>4
<1>13. QED
  BY <1>10, <1>11, <1>12

-----------------------------------------------------------------------------
\* The best matches.

\* The recursion of BestMatches is well-founded: its function exists.
LEMMA BestRecursion ==
  ASSUME NEW matches, Len(matches) \in Nat
  PROVE  \E b : /\ b[0] = {} /\ BestMatches(matches) = b[Len(matches)]
                /\ \A k \in 0..(Len(matches) - 1) : b[k + 1] = AddCandidate(b[k], matches[k + 1])
<1> DEFINE Rec(r, n) == r = [k \in 0..n |->
                              IF k = 0 THEN {} ELSE AddCandidate(r[k - 1], matches[k])]
           N == {n \in Nat : \E r : Rec(r, n)}
<1>1. 0 \in N
  <2>1. Rec([k \in 0..0 |-> {}], 0)
    OBVIOUS
  <2>2. QED
    BY <2>1
<1>2. ASSUME NEW n \in Nat, n \in N PROVE n + 1 \in N
  <2>1. PICK r : Rec(r, n)
    BY <1>2
  <2> DEFINE d == [k \in 0..(n + 1) |-> IF k = n + 1 THEN AddCandidate(r[n], matches[n + 1]) ELSE r[k]]
  <2>2. ASSUME NEW k \in 0..(n + 1)
        PROVE  d[k] = IF k = 0 THEN {} ELSE AddCandidate(d[k - 1], matches[k])
    <3>1. CASE k = n + 1
      <4>1. k # 0 /\ k - 1 = n /\ n \in 0..(n + 1) /\ n # n + 1
        BY <3>1
      <4>2. d[k - 1] = r[n] /\ d[k] = AddCandidate(r[n], matches[n + 1])
        BY <3>1, <4>1
      <4>3. QED
        BY <3>1, <4>1, <4>2
    <3>2. CASE k = 0
      <4>1. r[0] = {} /\ d[0] = r[0]
        BY <2>1
      <4>2. QED
        BY <3>2, <4>1
    <3>3. CASE k # n + 1 /\ k # 0
      <4>1. k \in 0..n /\ k - 1 \in 0..(n + 1) /\ k - 1 # n + 1
        BY <3>3
      <4>2. d[k] = r[k] /\ d[k - 1] = r[k - 1]
        BY <3>3, <4>1
      <4> HIDE DEF d
      <4>3. r[k] = AddCandidate(r[k - 1], matches[k])
        BY <2>1, <3>3, <4>1
      <4>4. QED
        BY <3>3, <4>2, <4>3
    <3>4. QED
      BY <3>1, <3>2, <3>3
  <2>3. d = [k \in 0..(n + 1) |-> d[k]]
    OBVIOUS
  <2> HIDE DEF d
  <2>4. Rec(d, n + 1)
    BY <2>2, <2>3
  <2>5. n + 1 \in Nat
    OBVIOUS
  <2> HIDE DEF Rec
  <2>6. QED
    BY <2>4, <2>5, Zenon
<1> HIDE DEF N
<1>3. Len(matches) \in N
  BY <1>1, <1>2, InductionOnNat
<1>4. \E r : Rec(r, Len(matches))
  BY <1>3 DEF N
<1>5. Rec(CHOOSE r : Rec(r, Len(matches)), Len(matches))
  BY <1>4, Zenon
<1>6. BestMatches(matches) = (CHOOSE r : Rec(r, Len(matches)))[Len(matches)]
  BY Zenon DEF BestMatches
<1>7. PICK b : Rec(b, Len(matches)) /\ BestMatches(matches) = b[Len(matches)]
  BY <1>5, <1>6, Zenon
<1>8. b[0] = {}
  BY <1>7
<1>9. \A k \in 0..(Len(matches) - 1) : b[k + 1] = AddCandidate(b[k], matches[k + 1])
  <2> SUFFICES ASSUME NEW k \in 0..(Len(matches) - 1)
               PROVE  b[k + 1] = AddCandidate(b[k], matches[k + 1])
    OBVIOUS
  <2>1. k + 1 \in 0..Len(matches) /\ k + 1 # 0 /\ (k + 1) - 1 = k
    OBVIOUS
  <2>2. b[k + 1] = AddCandidate(b[(k + 1) - 1], matches[k + 1])
    BY <1>7, <2>1
  <2>3. QED
    BY <2>1, <2>2
<1>10. QED
  BY <1>7, <1>8, <1>9

\* Some of the matches, one for every entity among them and none better.
BestOf(B, matches, n) ==
  /\ IsFiniteSet(B) /\ B \subseteq Match
  /\ \A c \in B : \E i \in 1..n : matches[i] = c
  /\ \A c, d \in B : c.entity_id = d.entity_id => c = d
  /\ \A i \in 1..n : \E c \in B : c.entity_id = matches[i].entity_id /\ c.score >= matches[i].score

\* add_candidate keeps the best of one more match.
LEMMA AddCandidateKeepsBest ==
  ASSUME NEW matches \in Seq(Match), NEW n \in 0..(Len(matches) - 1), NEW B, BestOf(B, matches, n)
  PROVE  BestOf(AddCandidate(B, matches[n + 1]), matches, n + 1)
<1>1. PICK m : m = matches[n + 1]
  OBVIOUS
<1>2. m \in Match /\ n \in Nat
  <2>1. Len(matches) \in Nat
    BY LenProperties
  <2>2. n + 1 \in 1..Len(matches) /\ n \in Nat
    BY <2>1
  <2>3. QED
    BY <1>1, <2>2, ElementOfSeq
<1>3. \A c \in Match : c.score \in Int
  <2>1. \A c \in Match : c.score \in Confidence
    BY DEF Match
  <2>2. QED
    BY <2>1, ConfidenceInt
<1>4. \A i \in 1..(n + 1) : i \in 1..n \/ i = n + 1
  BY <1>2
<1>5. \A i \in 1..n : i \in 1..(n + 1)
  BY <1>2
<1>6. CASE \E c \in B : c.entity_id = m.entity_id /\ c.score >= m.score
  <2>1. AddCandidate(B, m) = B
    BY <1>6 DEF AddCandidate
  <2>2. BestOf(B, matches, n + 1)
    <3>1. \A i \in 1..(n + 1) : \E c \in B :
            c.entity_id = matches[i].entity_id /\ c.score >= matches[i].score
      BY <1>1, <1>4, <1>6 DEF BestOf
    <3>2. QED
      BY <1>5, <3>1 DEF BestOf
  <2>3. QED
    BY <1>1, <2>1, <2>2
<1>7. CASE ~\E c \in B : c.entity_id = m.entity_id /\ c.score >= m.score
  <2>1. PICK O : O = {c \in B : c.entity_id # m.entity_id}
    OBVIOUS
  <2>2. PICK D : D = O \cup {m}
    OBVIOUS
  <2>3. AddCandidate(B, m) = D
    BY <1>7, <2>1, <2>2 DEF AddCandidate
  <2>4. IsFiniteSet(D)
    <3>1. IsFiniteSet(B) /\ O \in SUBSET B
      BY <2>1 DEF BestOf
    <3>2. IsFiniteSet(O)
      BY <3>1, FS_Subset
    <3>3. QED
      BY <2>2, <3>2, FS_AddElement
  <2>5. D \subseteq Match
    BY <1>2, <2>1, <2>2 DEF BestOf
  <2>6. \A c \in D : \E i \in 1..(n + 1) : matches[i] = c
    <3>1. n + 1 \in 1..(n + 1)
      BY <1>2
    <3>2. QED
      BY <1>1, <1>5, <2>1, <2>2, <3>1 DEF BestOf
  <2>7. \A c, d \in D : c.entity_id = d.entity_id => c = d
    BY <2>1, <2>2 DEF BestOf
  <2>8. ASSUME NEW i \in 1..(n + 1)
        PROVE  \E c \in D : c.entity_id = matches[i].entity_id /\ c.score >= matches[i].score
    <3>1. CASE i = n + 1
      <4>1. m.score >= m.score
        BY <1>2, <1>3
      <4>2. QED
        BY <1>1, <2>2, <3>1, <4>1
    <3>2. CASE i \in 1..n
      <4>1. PICK c \in B : c.entity_id = matches[i].entity_id /\ c.score >= matches[i].score
        BY <3>2 DEF BestOf
      <4>2. CASE c.entity_id # m.entity_id
        BY <2>1, <2>2, <4>1, <4>2
      <4>3. CASE c.entity_id = m.entity_id
        <5>1. c \in Match /\ matches[i] \in Match
          <6>1. i \in 1..Len(matches)
            BY <3>2, LenProperties
          <6>2. QED
            BY <6>1, ElementOfSeq DEF BestOf
        <5>2. c.score \in Int /\ m.score \in Int /\ matches[i].score \in Int
          BY <1>2, <1>3, <5>1
        <5>3. ~(c.score >= m.score)
          BY <1>7, <4>3
        <5>4. m.score >= matches[i].score
          BY <4>1, <5>2, <5>3
        <5>5. QED
          BY <2>2, <4>1, <4>3, <5>4
      <4>4. QED
        BY <4>2, <4>3
    <3>3. QED
      BY <1>4, <3>1, <3>2
  <2>9. BestOf(D, matches, n + 1)
    BY <2>4, <2>5, <2>6, <2>7, <2>8 DEF BestOf
  <2>10. QED
    BY <1>1, <2>3, <2>9
<1>8. QED
  BY <1>6, <1>7

\* BestMatches has the best match of every entity.
LEMMA BestMatchesBest ==
  ASSUME NEW matches \in Seq(Match)
  PROVE  BestOf(BestMatches(matches), matches, Len(matches))
<1>1. Len(matches) \in Nat
  BY LenProperties
<1>2. PICK b : /\ b[0] = {} /\ BestMatches(matches) = b[Len(matches)]
               /\ \A k \in 0..(Len(matches) - 1) : b[k + 1] = AddCandidate(b[k], matches[k + 1])
  BY <1>1, BestRecursion
<1> DEFINE N == {n \in Nat : BestOf(b[n], matches, n)}
<1>3. 0 \in N
  <2>1. IsFiniteSet({}) /\ 1..0 = {}
    BY FS_EmptySet
  <2>2. BestOf(b[0], matches, 0)
    BY <1>2, <2>1 DEF BestOf
  <2>3. QED
    BY <2>2
<1>4. \A n \in 0..(Len(matches) - 1) : n \in N => n + 1 \in N
  <2> SUFFICES ASSUME NEW n \in 0..(Len(matches) - 1), n \in N PROVE n + 1 \in N
    OBVIOUS
  <2>1. BestOf(b[n], matches, n)
    OBVIOUS
  <2>2. BestOf(b[n + 1], matches, n + 1)
    BY <1>2, <2>1, AddCandidateKeepsBest
  <2>3. QED
    BY <2>2
<1> HIDE DEF N
<1>5. \A n \in 0..Len(matches) : n \in N
  BY <1>1, <1>3, <1>4, InductionUpTo
<1>6. Len(matches) \in N
  BY <1>1, <1>5
<1>7. QED
  BY <1>2, <1>6 DEF N

\* The order of the candidates.
Outranks(c, d) == c.score > d.score \/ (c.score = d.score /\ c.entity_id < d.entity_id)

\* collect_candidates lists the best matches in their order.
LEMMA CandidatesSorted ==
  ASSUME NEW nodes, Catalogued(nodes), NEW mention, MentionTyped(mention), NEW input
  PROVE  \E B : /\ BestOf(B, Matches(nodes, mention, input), Len(Matches(nodes, mention, input)))
                /\ Sorts(CollectCandidates(nodes, mention, input), B, Better(B))
                /\ \A c, d \in B : <<c, d>> \in Better(B) <=> Outranks(c, d)
<1>1. PICK matches : matches = Matches(nodes, mention, input)
  OBVIOUS
<1>2. matches \in Seq(Match)
  BY <1>1, MatchesOccur
<1>3. PICK B : B = BestMatches(matches)
  OBVIOUS
<1>4. BestOf(B, matches, Len(matches))
  BY <1>2, <1>3, BestMatchesBest
<1>5. ASSUME NEW c \in B, NEW d \in B PROVE <<c, d>> \in Better(B) <=> Outranks(c, d)
  BY DEF Better, Outranks
<1>6. \A c \in B : c.score \in Int /\ c.entity_id \in Int
  <2>1. \A c \in B : c \in Match
    BY <1>4 DEF BestOf
  <2>2. \A c \in B : c.score \in Confidence /\ c.entity_id \in Entities
    BY <2>1 DEF Match
  <2>3. Entities \subseteq Int
    BY AgentAssumption
  <2>4. QED
    BY <2>2, <2>3, ConfidenceInt
<1>7. StrictOrder(B, Better(B))
  <2>1. \A c \in B : ~Outranks(c, c)
    BY <1>6 DEF Outranks
  <2>2. \A c, d, e \in B : Outranks(c, d) /\ Outranks(d, e) => Outranks(c, e)
    BY <1>6 DEF Outranks
  <2>3. ASSUME NEW c \in B, NEW d \in B, c # d PROVE Outranks(c, d) \/ Outranks(d, c)
    <3>1. c.entity_id # d.entity_id
      BY <1>4, <2>3 DEF BestOf
    <3>2. QED
      BY <1>6, <3>1 DEF Outranks
  <2>4. QED
    BY <1>5, <2>1, <2>2, <2>3 DEF StrictOrder
<1>8. IsFiniteSet(B)
  BY <1>4 DEF BestOf
<1>9. Sorts(SortedSet(B, Better(B)), B, Better(B))
  BY <1>7, <1>8, SortedSetSorts
<1>10. CollectCandidates(nodes, mention, input) = SortedSet(B, Better(B))
  BY <1>1, <1>3 DEF CollectCandidates
<1>11. QED
  BY <1>1, <1>4, <1>5, <1>9, <1>10

-----------------------------------------------------------------------------
\* Decisions.

\* A best match that outranks the others.
Leader(b, B) == b \in B /\ \A d \in B \ {b} : Outranks(b, d)

\* What the linker decides without a stable identifier, from the best matches.
Decided(link, nodes, mention, input, policy, B) ==
  \/ /\ \A c \in B : c.score < policy.minimum_score
     /\ link = Unmatched(nodes, mention, input, policy)
  \/ \E b : /\ Leader(b, B) /\ b.score >= policy.minimum_score
            /\ \E d \in B \ {b} : b.score - d.score < policy.minimum_margin
            /\ link = Decision(mention, None, b.score, "Ambiguous")
  \/ \E b : /\ Leader(b, B) /\ b.score >= policy.minimum_score
            /\ \A d \in B \ {b} : b.score - d.score >= policy.minimum_margin
            /\ link = Decision(mention, b.entity_id, b.score, b.method)

\* The first two candidates decide.
LEMMA LinkDecided ==
  ASSUME NEW nodes, Catalogued(nodes), NEW mention, MentionTyped(mention), mention.stable_id = None,
         NEW input, NEW policy, policy.minimum_score \in Confidence, policy.minimum_margin \in Confidence
  PROVE  \E B : /\ BestOf(B, Matches(nodes, mention, input), Len(Matches(nodes, mention, input)))
                /\ Decided(Link(nodes, mention, input, policy), nodes, mention, input, policy, B)
<1>1. PICK s : s = CollectCandidates(nodes, mention, input)
  OBVIOUS
<1>2. PICK B : /\ BestOf(B, Matches(nodes, mention, input), Len(Matches(nodes, mention, input)))
               /\ Sorts(s, B, Better(B))
               /\ \A c, d \in B : <<c, d>> \in Better(B) <=> Outranks(c, d)
  BY <1>1, CandidatesSorted
<1>3. PICK link : link = Link(nodes, mention, input, policy)
  OBVIOUS
<1>4. link = ResolveCandidates(nodes, mention, input, policy, s)
  BY <1>1, <1>3 DEF Link
<1>5. s \in Seq(B) /\ Len(s) \in Nat
  BY <1>2, LenProperties DEF Sorts
<1>6. \A k \in 1..Len(s) : s[k] \in B
  BY <1>5, ElementOfSeq
<1>7. \A c \in B : c.score \in Int /\ c.entity_id \in Int
  <2>1. \A c \in B : c \in Match
    BY <1>2 DEF BestOf
  <2>2. \A c \in B : c.score \in Confidence /\ c.entity_id \in Entities
    BY <2>1 DEF Match
  <2>3. Entities \subseteq Int
    BY AgentAssumption
  <2>4. QED
    BY <2>2, <2>3, ConfidenceInt
<1>8. policy.minimum_score \in Int /\ policy.minimum_margin \in Int
  BY ConfidenceInt
<1>9. CASE s = <<>>
  <2>1. Len(s) = 0
    BY <1>9
  <2>2. B = {}
    BY <1>2, <2>1 DEF Sorts
  <2>3. link = Unmatched(nodes, mention, input, policy)
    BY <1>4, <1>9 DEF ResolveCandidates
  <2>4. Decided(link, nodes, mention, input, policy, B)
    BY <2>2, <2>3 DEF Decided
  <2>5. QED
    BY <1>2, <1>3, <2>4
<1>10. CASE s # <<>>
  <2>1. Len(s) >= 1 /\ 1 \in 1..Len(s)
    BY <1>5, <1>10, EmptySeq
  <2>2. PICK b \in B : b = s[1]
    BY <1>6, <2>1
  <2>3. \A d \in B \ {b} : \E k \in 2..Len(s) : s[k] = d
    <3>1. ASSUME NEW d \in B \ {b} PROVE \E k \in 2..Len(s) : s[k] = d
      <4>1. PICK k \in 1..Len(s) : s[k] = d
        BY <1>2 DEF Sorts
      <4>2. k # 1
        BY <2>2, <4>1
      <4>3. k \in 2..Len(s)
        BY <1>5, <4>2
      <4>4. QED
        BY <4>1, <4>3
    <3>2. QED
      BY <3>1
  <2>4. \A i, j \in 1..Len(s) : i < j => Outranks(s[i], s[j])
    BY <1>2, <1>6 DEF Sorts
  <2>5. Leader(b, B)
    <3>1. ASSUME NEW d \in B \ {b} PROVE Outranks(b, d)
      <4>1. PICK k \in 2..Len(s) : s[k] = d
        BY <2>3
      <4>2. k \in 1..Len(s) /\ 1 < k
        BY <1>5, <4>1
      <4>3. QED
        BY <2>1, <2>2, <2>4, <4>1, <4>2
    <3>2. QED
      BY <3>1 DEF Leader
  <2>6. CASE b.score < policy.minimum_score
    <3>1. link = Unmatched(nodes, mention, input, policy)
      BY <1>4, <2>2, <2>6 DEF ResolveCandidates
    <3>2. \A c \in B : c.score < policy.minimum_score
      BY <1>7, <1>8, <2>5, <2>6 DEF Leader, Outranks
    <3>3. Decided(link, nodes, mention, input, policy, B)
      BY <3>1, <3>2 DEF Decided
    <3>4. QED
      BY <1>2, <1>3, <3>3
  <2>7. CASE ~(b.score < policy.minimum_score)
    <3>1. b.score >= policy.minimum_score
      BY <1>7, <1>8, <2>7
    <3>2. CASE Len(s) > 1 /\ b.score - s[2].score < policy.minimum_margin
      <4>1. link = Decision(mention, None, b.score, "Ambiguous")
        BY <1>4, <1>10, <2>2, <2>7, <3>2 DEF ResolveCandidates
      <4>2. s[2] \in B \ {b}
        <5>1. 2 \in 1..Len(s)
          BY <1>5, <3>2
        <5>2. s[2] \in B /\ s[2] # s[1]
          BY <1>2, <1>6, <2>1, <5>1 DEF Sorts
        <5>3. QED
          BY <2>2, <5>2
      <4>3. Decided(link, nodes, mention, input, policy, B)
        BY <2>5, <3>1, <3>2, <4>1, <4>2 DEF Decided
      <4>4. QED
        BY <1>2, <1>3, <4>3
    <3>3. CASE ~(Len(s) > 1 /\ b.score - s[2].score < policy.minimum_margin)
      <4>1. link = Decision(mention, b.entity_id, b.score, b.method)
        BY <1>4, <1>10, <2>2, <2>7, <3>3 DEF ResolveCandidates
      <4>2. ASSUME NEW d \in B \ {b} PROVE b.score - d.score >= policy.minimum_margin
        <5>1. PICK k \in 2..Len(s) : s[k] = d
          BY <2>3
        <5>2. Len(s) > 1 /\ 2 \in 1..Len(s) /\ k \in 1..Len(s)
          BY <1>5, <5>1
        <5>3. b.score - s[2].score >= policy.minimum_margin
          <6>1. s[2] \in B
            BY <1>6, <5>2
          <6>2. QED
            BY <1>7, <1>8, <3>3, <5>2, <6>1
        <5>4. d.score <= s[2].score
          <6>1. k = 2 \/ 2 < k
            BY <5>1
          <6>2. s[2] \in B /\ d \in B
            BY <1>6, <5>2
          <6>3. CASE k = 2
            BY <1>7, <5>1, <6>2, <6>3
          <6>4. CASE 2 < k
            <7>1. Outranks(s[2], d)
              BY <2>4, <5>1, <5>2, <6>4
            <7>2. QED
              BY <1>7, <6>2, <7>1 DEF Outranks
          <6>5. QED
            BY <6>1, <6>3, <6>4
        <5>5. b.score \in Int /\ d.score \in Int /\ s[2].score \in Int
          BY <1>6, <1>7, <5>2
        <5>6. QED
          BY <1>8, <5>3, <5>4, <5>5
      <4>3. Decided(link, nodes, mention, input, policy, B)
        BY <2>5, <3>1, <4>1, <4>2 DEF Decided
      <4>4. QED
        BY <1>2, <1>3, <4>3
    <3>4. QED
      BY <3>2, <3>3
  <2>8. QED
    BY <2>6, <2>7
<1>11. QED
  BY <1>9, <1>10

\* What a match says of its node.
LEMMA MatchFields ==
  ASSUME NEW node, node.id \in Entities, NEW mention, MentionTyped(mention), NEW input,
         NEW base, NEW method, NEW c, MatchOf(node, mention, input, base, method, c)
  PROVE  /\ base \in Int /\ method \in Methods /\ c \in Match
         /\ c.entity_id = node.id /\ c.score = MatchScore(base, node, mention, input)
<1>1. Speaks(node, mention, base, method) /\ c = Candidate(node, base, method, mention, input)
  BY DEF MatchOf
<1>2. method \in Methods
  BY <1>1 DEF Speaks, SpeaksName, SpeaksAlias, SpeaksExternal, SpeaksHint, Methods
<1>3. base \in Int
  <2>1. CASE SpeaksHint(node, mention.hints, base, method)
    <3>1. PICK s : s = mention.hints
      OBVIOUS
    <3>2. s \in Seq([entity_id: Entities, confidence: Confidence])
      BY <3>1 DEF MentionTyped
    <3>3. PICK k \in DOMAIN s : base = s[k].confidence
      BY <2>1, <3>1 DEF SpeaksHint
    <3>4. s[k] \in [entity_id: Entities, confidence: Confidence]
      BY <3>2, ElementOfSeq, LenProperties
    <3>5. base \in Confidence
      BY <3>3, <3>4
    <3>6. QED
      BY <3>5, ConfidenceInt
  <2>2. CASE ~SpeaksHint(node, mention.hints, base, method)
    BY <1>1, <2>2 DEF Speaks, SpeaksName, SpeaksAlias, SpeaksExternal
  <2>3. QED
    BY <2>1, <2>2
<1>4. mention.confidence \in Confidence
  BY DEF MentionTyped
<1>5. QED
  BY <1>1, <1>2, <1>3, <1>4, CandidateTyped

\* A best match is a match of some node.
LEMMA BestOfNodes ==
  ASSUME NEW nodes, Catalogued(nodes), NEW mention, MentionTyped(mention), NEW input, NEW B,
         BestOf(B, Matches(nodes, mention, input), Len(Matches(nodes, mention, input))), NEW c \in B
  PROVE  \E n \in DOMAIN nodes : \E base, method : MatchOf(nodes[n], mention, input, base, method, c)
<1>1. Occurs(c, Matches(nodes, mention, input))
  BY DEF BestOf, Occurs
<1>2. QED
  BY <1>1, MatchesOccur

\* Every match of a node has a best match of its entity.
LEMMA NodesHaveBest ==
  ASSUME NEW nodes, Catalogued(nodes), NEW mention, MentionTyped(mention), NEW input, NEW B,
         BestOf(B, Matches(nodes, mention, input), Len(Matches(nodes, mention, input))),
         NEW n \in DOMAIN nodes, NEW base, NEW method, NEW c,
         MatchOf(nodes[n], mention, input, base, method, c)
  PROVE  \E b \in B : b.entity_id = c.entity_id /\ b.score >= c.score
<1>1. Occurs(c, Matches(nodes, mention, input))
  BY MatchesOccur
<1>2. QED
  BY <1>1 DEF BestOf, Occurs

Missing(nodes, id) == \A n \in DOMAIN nodes : nodes[n].id # id

Present(nodes, id) == \E n \in DOMAIN nodes : nodes[n].id = id

\* A decision creates what is missing or links what is present.
Linking(d, nodes, mention) ==
  /\ d.mention_id = mention.local_id /\ d.score \in Confidence
  /\ d.entity_id \in Entities \cup {None}
  /\ d.method = "Created" => d.entity_id \in Entities /\ Missing(nodes, d.entity_id)
  /\ d.method # "Created" /\ d.entity_id # None => Present(nodes, d.entity_id)

\* What a policy and an input must be.
PolicyTyped(policy) == policy.minimum_score \in Confidence /\ policy.minimum_margin \in Confidence

Linkable(mention, input) ==
  /\ MentionTyped(mention)
  /\ mention.stable_id \in Entities \cup {None}
  /\ mention.stable_id = None => Generated(mention, input) \in Entities

\* The decision on a mention without a candidate.
LEMMA UnmatchedLinks ==
  ASSUME NEW nodes, NEW mention, NEW input, Linkable(mention, input), mention.stable_id = None,
         NEW policy, Unmatched(nodes, mention, input, policy) # None
  PROVE  Linking(Unmatched(nodes, mention, input, policy), nodes, mention)
<1>1. PICK id : id = Generated(mention, input)
  OBVIOUS
<1>2. id \in Entities /\ mention.confidence \in Confidence
  BY <1>1 DEF Linkable, MentionTyped
<1>3. 0 \in Confidence
  BY DEF Confidence
<1>4. PICK d : d = Unmatched(nodes, mention, input, policy)
  OBVIOUS
<1>5. CASE ~policy.create_unmatched
  <2>1. d = Decision(mention, None, 0, "Unresolved")
    BY <1>4, <1>5 DEF Unmatched
  <2>2. Linking(d, nodes, mention)
    BY <1>3, <2>1 DEF Linking, Decision
  <2>3. QED
    BY <1>4, <2>2
<1>6. CASE policy.create_unmatched
  <2>1. WithId(nodes, id) = {} /\ d = Decision(mention, id, mention.confidence, "Created")
    BY <1>1, <1>4, <1>6 DEF Unmatched
  <2>2. Missing(nodes, id)
    BY <2>1 DEF Missing, WithId
  <2>3. Linking(d, nodes, mention)
    BY <1>2, <2>1, <2>2 DEF Linking, Decision
  <2>4. QED
    BY <1>4, <2>3
<1>7. QED
  BY <1>5, <1>6

\* Link creates only missing entities and links only present ones.
LEMMA LinkLinks ==
  ASSUME NEW nodes, Catalogued(nodes), NEW mention, NEW input, Linkable(mention, input),
         NEW policy, PolicyTyped(policy), Link(nodes, mention, input, policy) # None
  PROVE  Linking(Link(nodes, mention, input, policy), nodes, mention)
<1>1. PICK d : d = Link(nodes, mention, input, policy)
  OBVIOUS
<1>2. MentionTyped(mention) /\ mention.confidence \in Confidence
  BY DEF Linkable, MentionTyped
<1>3. CASE mention.stable_id # None
  <2>1. PICK id : id = mention.stable_id
    OBVIOUS
  <2>2. id \in Entities
    BY <1>3, <2>1 DEF Linkable
  <2>3. d = LinkStableId(nodes, mention)
    BY <1>1, <1>3 DEF Link
  <2>4. CASE WithId(nodes, id) = {}
    <3>1. d = Decision(mention, id, mention.confidence, "Created")
      BY <2>1, <2>3, <2>4 DEF LinkStableId
    <3>2. Missing(nodes, id)
      BY <2>4 DEF Missing, WithId
    <3>3. Linking(d, nodes, mention)
      BY <1>2, <2>2, <3>1, <3>2 DEF Linking, Decision
    <3>4. QED
      BY <1>1, <3>3
  <2>5. CASE WithId(nodes, id) # {}
    <3>1. d = Decision(mention, id, mention.confidence, "StableId")
      BY <1>1, <2>1, <2>3, <2>5 DEF LinkStableId
    <3>2. Present(nodes, id)
      BY <2>5 DEF Present, WithId
    <3>3. Linking(d, nodes, mention)
      BY <1>2, <2>2, <3>1, <3>2 DEF Linking, Decision
    <3>4. QED
      BY <1>1, <3>3
  <2>6. QED
    BY <2>4, <2>5
<1>4. CASE mention.stable_id = None
  <2>1. policy.minimum_score \in Confidence /\ policy.minimum_margin \in Confidence
    BY DEF PolicyTyped
  <2>2. PICK B : /\ BestOf(B, Matches(nodes, mention, input), Len(Matches(nodes, mention, input)))
                 /\ Decided(d, nodes, mention, input, policy, B)
    BY <1>1, <1>2, <1>4, <2>1, LinkDecided
  <2>3. \A b \in B : /\ b.score \in Confidence /\ b.method # "Created"
                     /\ b.entity_id \in Entities /\ Present(nodes, b.entity_id)
    <3> SUFFICES ASSUME NEW b \in B
                 PROVE  /\ b.score \in Confidence /\ b.method # "Created"
                        /\ b.entity_id \in Entities /\ Present(nodes, b.entity_id)
      OBVIOUS
    <3>1. PICK n, base, method : n \in DOMAIN nodes /\ MatchOf(nodes[n], mention, input, base, method, b)
      BY <1>2, <2>2, BestOfNodes
    <3>2. nodes[n].id \in Entities
      BY <3>1, LenProperties DEF Catalogued
    <3>3. b \in Match /\ b.entity_id = nodes[n].id
      BY <1>2, <3>1, <3>2, MatchFields
    <3>4. b.score \in Confidence /\ b.method \in Methods \cup {"ScopedLabel"}
      BY <3>3 DEF Match
    <3>5. b.method # "Created"
      BY <3>4 DEF Methods
    <3>6. QED
      BY <3>1, <3>2, <3>3, <3>4, <3>5 DEF Present
  <2>4. CASE d = Unmatched(nodes, mention, input, policy)
    BY <1>1, <1>4, <2>4, UnmatchedLinks
  <2>5. ASSUME NEW b \in B, d = Decision(mention, None, b.score, "Ambiguous")
        PROVE  Linking(d, nodes, mention)
    BY <2>3, <2>5 DEF Linking, Decision
  <2>6. ASSUME NEW b \in B, d = Decision(mention, b.entity_id, b.score, b.method)
        PROVE  Linking(d, nodes, mention)
    BY <2>3, <2>6 DEF Linking, Decision
  <2>7. QED
    BY <1>1, <2>2, <2>4, <2>5, <2>6 DEF Decided, Leader
<1>5. QED
  BY <1>3, <1>4

-----------------------------------------------------------------------------
\* Plans.

\* The content of a node is what a mention of a valid extraction may say.
ContentTyped(node) ==
  /\ {node.kind, node.label} \cup node.aliases \subseteq DOMAIN Estimate
  /\ {node.repository, node.branch} \subseteq DOMAIN Estimate \cup {None}
  /\ \A e \in node.external : e[2] \in DOMAIN Estimate
  /\ IsFiniteSet(node.aliases) /\ IsFiniteSet(node.external)

\* The events of a plan, by their kind.
NodeEntry(e, t) ==
  /\ e.payload.kind = "NodeUpserted" /\ e.recorded_at = t
  /\ e.payload.id \in Entities /\ e.payload.node.id = e.payload.id
  /\ ContentTyped(e.payload.node)

FactEntry(e, t) ==
  /\ e.payload.kind = "FactRecorded" /\ e.recorded_at = t
  /\ e.payload.fact \in Fact /\ e.payload.fact.recorded_at = t
  /\ ValidFact(e.payload.fact) /\ e.payload.fact.supersedes = None
  /\ e.id = <<"fact", e.payload.fact.id[1], e.payload.fact.id>>

\* An endpoint that is in the catalog or among the new entities.
Reached(e, nodes, S) == e \in S \/ Present(nodes, e)

\* The events of a plan that creates the entities S: m new nodes, then facts.
PlannedBy(events, nodes, t, S, m) ==
  /\ events \in Seq(ToSet(events)) /\ m \in 0..Len(events)
  /\ \A k \in 1..m : NodeEntry(events[k], t) /\ events[k].payload.id \in S
  /\ \A e \in S : Missing(nodes, e) /\ \E k \in 1..m : events[k].payload.id = e
  /\ \A j, k \in 1..m : events[j].payload.id = events[k].payload.id => j = k
  /\ \A k \in (m + 1)..Len(events) :
       /\ FactEntry(events[k], t)
       /\ Reached(events[k].payload.fact.source, nodes, S)
       /\ Reached(events[k].payload.fact.target, nodes, S)

\* The links of an extraction.
LinksOf(x, nodes, policy) == [k \in DOMAIN x.entities |-> Link(nodes, x.entities[k], x, policy)]

\* The entities some links create.
NewEntities(links) == {links[k].entity_id : k \in Created(links)}

AllLinked(x, nodes, policy) ==
  \A k \in DOMAIN x.entities :
    /\ LinksOf(x, nodes, policy)[k] = Link(nodes, x.entities[k], x, policy)
    /\ Link(nodes, x.entities[k], x, policy) # None
    /\ Linking(LinksOf(x, nodes, policy)[k], nodes, x.entities[k])

\* A plan has a decision on every mention.
LEMMA PlanLinks ==
  ASSUME NEW x, ExtractionOK(x), NEW nodes, Catalogued(nodes), NEW policy, PolicyTyped(policy),
         NEW t, PlanWithLinker(x, nodes, policy, t) # None
  PROVE  /\ ValidInput(x, t) /\ ValidOutput(x)
         /\ PlanWithLinker(x, nodes, policy, t) = PlanOf(x, LinksOf(x, nodes, policy), t)
         /\ AllLinked(x, nodes, policy)
<1>1. ValidInput(x, t) /\ ValidOutput(x)
  BY DEF PlanWithLinker
<1>2. PICK links : links = LinksOf(x, nodes, policy)
  OBVIOUS
<1>3. PlanWithLinker(x, nodes, policy, t) = PlanOf(x, links, t)
  BY <1>1, <1>2, Zenon DEF PlanWithLinker, BuildPlan, LinksOf
<1>4. DOMAIN links = DOMAIN x.entities
  BY <1>2 DEF LinksOf
<1>5. \A k \in DOMAIN links : links[k] # None
  BY <1>3 DEF PlanOf
<1>6. ASSUME NEW k \in DOMAIN x.entities
      PROVE  /\ links[k] = Link(nodes, x.entities[k], x, policy)
             /\ Link(nodes, x.entities[k], x, policy) # None
             /\ Linking(links[k], nodes, x.entities[k])
  <2>1. links[k] = Link(nodes, x.entities[k], x, policy)
    BY <1>2 DEF LinksOf
  <2>2. links[k] # None
    BY <1>4, <1>5
  <2>3. MentionOK(x, x.entities[k])
    BY DEF ExtractionOK, ToSet
  <2>4. Linkable(x.entities[k], x)
    BY <2>3 DEF MentionOK, Linkable, MentionTyped
  <2>5. QED
    BY <2>1, <2>2, <2>4, LinkLinks
<1>7. QED
  BY <1>1, <1>2, <1>3, <1>6 DEF AllLinked

\* The elements of a sequence are finitely many.
LEMMA ElementsFinite ==
  ASSUME NEW s, s \in Seq(ToSet(s))
  PROVE  IsFiniteSet(ToSet(s))
<1>1. DOMAIN s = 1..Len(s) /\ Len(s) \in Nat /\ s \in [1..Len(s) -> ToSet(s)]
  BY LenProperties
<1>2. s \in Surjection(1..Len(s), ToSet(s))
  BY <1>1 DEF Surjection, ToSet
<1>3. IsFiniteSet(1..Len(s))
  BY <1>1, FS_Interval
<1>4. QED
  BY <1>2, <1>3, FS_Surjection

\* The aliases a new entity gets.
LEMMA BuiltAliases ==
  ASSUME NEW x, NEW m, MentionOK(x, m)
  PROVE  IsFiniteSet(AliasesOf(m)) /\ AliasesOf(m) \subseteq DOMAIN Estimate
<1>1. PICK kept : kept = {b \in m.attributes : b[1] >= Len(m.aliases)}
  OBVIOUS
<1>2. PICK values : values = {a[2] : a \in kept}
  OBVIOUS
<1>3. IsFiniteSet(m.attributes) /\ kept \in SUBSET m.attributes
      /\ m.attributes \subseteq Nat \X DOMAIN Estimate
  BY <1>1 DEF MentionOK
<1>4. IsFiniteSet(kept)
  BY <1>3, FS_Subset
<1>5. IsFiniteSet(values)
  <2>1. PICK f : f = [a \in kept |-> a[2]]
    OBVIOUS
  <2>2. f \in Surjection(kept, values)
    BY <1>2, <2>1 DEF Surjection
  <2>3. QED
    BY <1>4, <2>2, FS_Surjection
<1>6. values \subseteq DOMAIN Estimate
  BY <1>2, <1>3
<1>7. IsFiniteSet(ToSet(m.aliases)) /\ ToSet(m.aliases) \subseteq DOMAIN Estimate
  BY ElementsFinite DEF MentionOK
<1>8. AliasesOf(m) = ToSet(m.aliases) \cup values
  BY <1>1, <1>2 DEF AliasesOf
<1>9. QED
  BY <1>5, <1>6, <1>7, <1>8, FS_Union

\* What a mention says of a new entity.
LEMMA BuiltContent ==
  ASSUME NEW x, ExtractionOK(x), NEW k \in DOMAIN x.entities, NEW id
  PROVE  ContentTyped(BuildNode(x, x.entities[k], id))
<1>1. PICK m : m = x.entities[k]
  OBVIOUS
<1>2. MentionOK(x, m)
  BY <1>1 DEF ExtractionOK, ToSet
<1>3. IsFiniteSet(AliasesOf(m)) /\ IsFiniteSet(ToSet(m.external))
  BY <1>2, ElementsFinite, BuiltAliases DEF MentionOK
<1>4. PICK n : n = BuildNode(x, m, id)
  OBVIOUS
<1>5. /\ n.kind = m.kind /\ n.label = m.label /\ n.repository = x.repository /\ n.branch = x.branch
      /\ n.aliases = AliasesOf(m) /\ n.external = ToSet(m.external)
  BY <1>4 DEF BuildNode
<1>6. /\ {m.kind, m.label} \cup AliasesOf(m) \subseteq DOMAIN Estimate
      /\ \A e \in ToSet(m.external) : e[2] \in DOMAIN Estimate
  BY <1>2, BuiltAliases DEF MentionOK
<1>7. {x.repository, x.branch} \subseteq DOMAIN Estimate \cup {None}
  BY DEF ExtractionOK
<1>8. ContentTyped(n)
  BY <1>3, <1>5, <1>6, <1>7 DEF ContentTyped
<1>9. QED
  BY <1>1, <1>4, <1>8

\* What the mentions of an extraction say of a new entity, together.
LEMMA MergedContent ==
  ASSUME NEW x, ExtractionOK(x), NEW links, DOMAIN links = DOMAIN x.entities, NEW id,
         NodesOf(x, links, id) # {}
  PROVE  Merged(NodesOf(x, links, id)).id = id /\ ContentTyped(Merged(NodesOf(x, links, id)))
<1>1. PICK nodes, node : nodes = NodesOf(x, links, id) /\ node = Merged(nodes)
  OBVIOUS
<1>2. PICK K : K = {j \in Created(links) : links[j].entity_id = id}
  OBVIOUS
<1>3. nodes = {BuildNode(x, x.entities[k], id) : k \in K}
  BY <1>1, <1>2 DEF NodesOf
<1>4. K \subseteq DOMAIN x.entities
  BY <1>2 DEF Created
<1>5. IsFiniteSet(nodes)
  <2>1. IsFiniteSet(K)
    <3>1. DOMAIN x.entities = 1..Len(x.entities) /\ Len(x.entities) \in Nat
      BY LenProperties DEF ExtractionOK
    <3>2. IsFiniteSet(1..Len(x.entities)) /\ K \in SUBSET (1..Len(x.entities))
      BY <1>4, <3>1, FS_Interval
    <3>3. QED
      BY <3>2, FS_Subset
  <2>2. PICK f : f = [k \in K |-> BuildNode(x, x.entities[k], id)]
    OBVIOUS
  <2>3. f \in Surjection(K, nodes)
    BY <1>3, <2>2 DEF Surjection
  <2>4. QED
    BY <2>1, <2>3, FS_Surjection
<1>6. \A n \in nodes : ContentTyped(n) /\ \E k \in K : n = BuildNode(x, x.entities[k], id)
  BY <1>3, <1>4, BuiltContent
<1>7. PICK as, es : as = UNION {n.aliases : n \in nodes} /\ es = UNION {n.external : n \in nodes}
  OBVIOUS
<1>8. IsFiniteSet(as) /\ as \subseteq DOMAIN Estimate
  <2>1. PICK A : A = {n.aliases : n \in nodes}
    OBVIOUS
  <2>2. PICK f : f = [n \in nodes |-> n.aliases]
    OBVIOUS
  <2>3. f \in Surjection(nodes, A)
    BY <2>1, <2>2 DEF Surjection
  <2>4. IsFiniteSet(A)
    BY <1>5, <2>3, FS_Surjection
  <2>5. \A T \in A : IsFiniteSet(T) /\ T \subseteq DOMAIN Estimate
    BY <1>6, <2>1 DEF ContentTyped
  <2>6. as = UNION A
    BY <1>7, <2>1
  <2>7. QED
    BY <2>4, <2>5, <2>6, FS_UNION
<1>9. IsFiniteSet(es) /\ \A e \in es : e[2] \in DOMAIN Estimate
  <2>1. PICK A : A = {n.external : n \in nodes}
    OBVIOUS
  <2>2. PICK f : f = [n \in nodes |-> n.external]
    OBVIOUS
  <2>3. f \in Surjection(nodes, A)
    BY <2>1, <2>2 DEF Surjection
  <2>4. IsFiniteSet(A)
    BY <1>5, <2>3, FS_Surjection
  <2>5. \A T \in A : IsFiniteSet(T) /\ \A e \in T : e[2] \in DOMAIN Estimate
    BY <1>6, <2>1 DEF ContentTyped
  <2>6. es = UNION A
    BY <1>7, <2>1
  <2>7. QED
    BY <2>4, <2>5, <2>6, FS_UNION
<1>10. PICK c : c = CHOOSE n \in nodes : TRUE
  OBVIOUS
<1>11. c \in nodes
  BY <1>1, <1>10, Zenon
<1>12. node = [c EXCEPT !.aliases = as, !.external = es]
  BY <1>1, <1>7, <1>10, Zenon DEF Merged
<1>13. PICK k \in K : c = BuildNode(x, x.entities[k], id)
  BY <1>6, <1>11
<1>14. /\ node.id = id /\ node.kind = c.kind /\ node.label = c.label
       /\ node.repository = c.repository /\ node.branch = c.branch
       /\ node.aliases = as /\ node.external = es
  BY <1>12, <1>13 DEF BuildNode
<1>15. ContentTyped(c)
  BY <1>6, <1>11
<1>16. ContentTyped(node)
  BY <1>8, <1>9, <1>14, <1>15 DEF ContentTyped
<1>17. QED
  BY <1>1, <1>14, <1>16

\* The node events create every new entity once.
LEMMA NodeEventsPlanned ==
  ASSUME NEW x, ExtractionOK(x), NEW links, DOMAIN links = DOMAIN x.entities, NEW t,
         NewEntities(links) \subseteq Entities
  PROVE  LET events == NodeEventsOf(x, links, t)
         IN  /\ events \in Seq(ToSet(events))
             /\ \A k \in 1..Len(events) :
                  NodeEntry(events[k], t) /\ events[k].payload.id \in NewEntities(links)
             /\ \A e \in NewEntities(links) : \E k \in 1..Len(events) : events[k].payload.id = e
             /\ \A j, k \in 1..Len(events) : events[j].payload.id = events[k].payload.id => j = k
<1>1. PICK S, new, events :
        S = NewEntities(links) /\ new = Ascending(S) /\ events = NodeEventsOf(x, links, t)
  OBVIOUS
<1>2. IsFiniteSet(S) /\ S \subseteq Nat
  BY <1>1, AgentAssumption, ProjectionAssumption, FS_Subset
<1>3. PICK before : Sorts(new, S, before)
  BY <1>1, <1>2, AscendingSorts
<1>4. new \in Seq(S) /\ DOMAIN new = 1..Len(new) /\ Len(new) \in Nat
  BY <1>3, LenProperties DEF Sorts
<1>5. events = [k \in 1..Len(new) |-> NodeEvent(x, Merged(NodesOf(x, links, new[k])), t)]
  <2>1. new = NewIds(links)
    BY <1>1, Zenon DEF NewIds, NewEntities
  <2>2. events = [k \in DOMAIN new |-> NodeEvent(x, Merged(NodesOf(x, links, new[k])), t)]
    BY <1>1, <2>1, Zenon DEF NodeEventsOf
  <2>3. QED
    BY <1>4, <2>2
<1>6. events \in [1..Len(new) -> ToSet(events)]
  <2>1. DOMAIN events = 1..Len(new)
    BY <1>5
  <2>2. \A k \in 1..Len(new) : events[k] \in ToSet(events)
    BY <2>1 DEF ToSet
  <2>3. QED
    BY <1>5, <2>1, <2>2
<1>7. events \in Seq(ToSet(events)) /\ Len(events) = Len(new)
  BY <1>4, <1>6, FunctionIsSeq
<1>8. \A k \in 1..Len(new) : NodeEntry(events[k], t) /\ events[k].payload.id = new[k]
  <2> SUFFICES ASSUME NEW k \in 1..Len(new)
               PROVE  NodeEntry(events[k], t) /\ events[k].payload.id = new[k]
    OBVIOUS
  <2>1. PICK id \in S : id = new[k]
    BY <1>4, ElementOfSeq
  <2>2. PICK node : node = Merged(NodesOf(x, links, id))
    OBVIOUS
  <2>3. node.id = id /\ ContentTyped(node)
    <3>1. PICK j \in Created(links) : links[j].entity_id = id
      BY <1>1 DEF NewEntities
    <3>2. NodesOf(x, links, id) # {}
      BY <3>1 DEF NodesOf
    <3>3. QED
      BY <2>2, <3>2, MergedContent
  <2>4. events[k] = NodeEvent(x, node, t)
    BY <1>5, <2>1, <2>2
  <2>5. id \in Entities
    BY <1>1
  <2>6. QED
    BY <2>1, <2>3, <2>4, <2>5 DEF NodeEvent, NodeEntry
<1>9. \A k \in 1..Len(new) : new[k] \in S
  BY <1>4, ElementOfSeq
<1>10. QED
  BY <1>1, <1>3, <1>7, <1>8, <1>9 DEF Sorts

\* A fact event stands for a relation both of whose mentions are linked.
FactPlanned(e, t, links) ==
  /\ FactEntry(e, t)
  /\ \E j \in DOMAIN links : links[j].entity_id = e.payload.fact.source /\ links[j].entity_id # None
  /\ \E j \in DOMAIN links : links[j].entity_id = e.payload.fact.target /\ links[j].entity_id # None

\* The link of a mention is one of the links.
LEMMA LinkOfMention ==
  ASSUME NEW x, NEW links, DOMAIN links = DOMAIN x.entities, NEW id \in LocalIds(x.entities)
  PROVE  \E j \in DOMAIN links : LinkOf(x, links, id) = links[j]
<1>1. PICK k \in DOMAIN links : x.entities[k].local_id = id
  BY DEF LocalIds
<1>2. PICK c : c = CHOOSE j \in DOMAIN links : x.entities[j].local_id = id
  OBVIOUS
<1>3. c \in DOMAIN links
  BY <1>1, <1>2, Zenon
<1>4. LinkOf(x, links, id) = links[c]
  BY <1>2, Zenon DEF LinkOf
<1>5. QED
  BY <1>3, <1>4

\* The smallest of three confidences.
LEMMA SmallestOfThree ==
  ASSUME NEW a \in Confidence, NEW b \in Confidence, NEW c \in Confidence
  PROVE  Min({a, b, c}) \in Confidence
<1>1. a \in Int /\ b \in Int /\ c \in Int
  BY ConfidenceInt
<1>2. PICK m \in {a, b, c} : \A y \in {a, b, c} : m <= y
  <2>1. CASE a <= b /\ a <= c
    BY <1>1, <2>1
  <2>2. CASE b <= a /\ b <= c
    BY <1>1, <2>2
  <2>3. CASE c <= a /\ c <= b
    BY <1>1, <2>3
  <2>4. QED
    BY <1>1, <2>1, <2>2, <2>3
<1>3. Min({a, b, c}) \in {a, b, c}
  BY <1>2, Zenon DEF Min
<1>4. QED
  BY <1>3

\* build_fact builds a valid fact of the linked entities.
LEMMA FactBuilt ==
  ASSUME NEW x, ExtractionOK(x), ValidOutput(x), NEW t \in Time,
         NEW relation \in ToSet(x.relations), NEW source, NEW target,
         source.entity_id \in Entities, target.entity_id \in Entities,
         source.score \in Confidence, target.score \in Confidence
  PROVE  LET e == FactEvent(x, BuildFact(x, relation, source, target, t), t)
         IN  /\ FactEntry(e, t)
             /\ e.payload.fact.source = source.entity_id
             /\ e.payload.fact.target = target.entity_id
<1>1. RelationOK(x, relation)
  BY DEF ExtractionOK
<1>2. PICK id : id = <<Origin(x), relation.local_id, source.entity_id, relation.relation, target.entity_id>>
  OBVIOUS
<1>3. id \in FactIds /\ id[1] = Origin(x)
  BY <1>1, <1>2 DEF RelationOK
<1>4. PICK c \in Confidence : c = Min({relation.confidence, source.score, target.score})
  <2>1. relation.confidence \in Confidence
    BY <1>1 DEF RelationOK
  <2>2. PICK a, b, d : a = relation.confidence /\ b = source.score /\ d = target.score
    OBVIOUS
  <2>3. Min({a, b, d}) \in Confidence
    BY <2>1, <2>2, SmallestOfThree
  <2>4. QED
    BY <2>2, <2>3
<1>5. PICK from \in Time : from = ValidFrom(x, relation)
  BY <1>1 DEF RelationOK, ExtractionOK, ValidFrom
<1>6. PICK until \in Time \cup {None} : until = relation.valid_until
  BY <1>1 DEF RelationOK
<1>7. until # None => until > from
  BY <1>5, <1>6 DEF ValidOutput
<1>8. relation.relation \in Relations
  BY <1>1 DEF RelationOK
<1>9. PICK f : f = BuildFact(x, relation, source, target, t)
  OBVIOUS
<1>10. f = [id |-> id, source |-> source.entity_id, target |-> target.entity_id,
            relation |-> relation.relation, confidence |-> c, valid_from |-> from,
            valid_until |-> until, recorded_at |-> t, supersedes |-> None]
  BY <1>2, <1>4, <1>5, <1>6, <1>9 DEF BuildFact
<1>11. f \in Fact /\ f.id = id /\ f.recorded_at = t /\ f.supersedes = None /\ ValidFact(f)
       /\ f.source = source.entity_id /\ f.target = target.entity_id
  BY <1>3, <1>7, <1>8, <1>10 DEF Fact, ValidFact
<1>12. PICK e : e = FactEvent(x, f, t)
  OBVIOUS
<1>13. /\ e.id = <<"fact", Origin(x), f.id>> /\ e.recorded_at = t
       /\ e.payload.kind = "FactRecorded" /\ e.payload.fact = f
  BY <1>12 DEF FactEvent, EventIdOf
<1>14. FactEntry(e, t)
  BY <1>3, <1>11, <1>13 DEF FactEntry
<1>15. QED
  BY <1>9, <1>11, <1>12, <1>13, <1>14

\* The fact events of a plan stand for kept relations between linked mentions.
LEMMA FactEventsPlanned ==
  ASSUME NEW x, ExtractionOK(x), ValidOutput(x), NEW t \in Time, NEW links,
         DOMAIN links = DOMAIN x.entities,
         \A k \in DOMAIN links : links[k].entity_id \in Entities \cup {None}
                                   /\ links[k].score \in Confidence
  PROVE  LET events == FactEventsOf(x, links, t)
         IN  /\ events \in Seq(ToSet(events))
             /\ \A k \in 1..Len(events) : FactPlanned(events[k], t, links)
<1>1. PICK relations : relations = x.relations
  OBVIOUS
<1>2. PICK S : S = ToSet(relations)
  OBVIOUS
<1>3. relations \in Seq(S) /\ DOMAIN relations = 1..Len(relations)
  BY <1>1, <1>2, LenProperties DEF ExtractionOK
<1>4. PICK kept : kept = Filtered(relations, Kept(x, links))
  OBVIOUS
<1>5. Keeps(kept, S, relations, Kept(x, links))
  BY <1>3, <1>4, FilteredMembers
<1>6. kept \in Seq(S) /\ DOMAIN kept = 1..Len(kept) /\ Len(kept) \in Nat
  BY <1>5, LenProperties DEF Keeps
<1>7. PICK events : events = FactEventsOf(x, links, t)
  OBVIOUS
<1>8. events = [k \in DOMAIN kept |->
                  FactEvent(x, BuildFact(x, kept[k], LinkOf(x, links, kept[k].source),
                                         LinkOf(x, links, kept[k].target), t), t)]
  BY <1>1, <1>4, <1>7, Zenon DEF FactEventsOf
<1>9. events \in [1..Len(kept) -> ToSet(events)]
  <2>1. DOMAIN events = 1..Len(kept)
    BY <1>6, <1>8
  <2>2. \A k \in 1..Len(kept) : events[k] \in ToSet(events)
    BY <2>1 DEF ToSet
  <2>3. QED
    BY <1>6, <1>8, <2>1, <2>2
<1>10. events \in Seq(ToSet(events)) /\ Len(events) = Len(kept)
  BY <1>6, <1>9, FunctionIsSeq
<1>11. ASSUME NEW k \in 1..Len(kept) PROVE FactPlanned(events[k], t, links)
  <2>1. PICK i \in 1..Len(relations) : i \in Kept(x, links) /\ kept[k] = relations[i]
    BY <1>5 DEF Keeps
  <2>2. PICK r \in ToSet(x.relations) : r = kept[k]
    BY <1>1, <1>3, <2>1 DEF ToSet
  <2>3. Linked(x, links, r)
    <3>1. Linked(x, links, relations[i])
      BY <1>1, <2>1 DEF Kept
    <3>2. QED
      BY <2>1, <2>2, <3>1
  <2>4. r.source \in LocalIds(x.entities) /\ r.target \in LocalIds(x.entities)
    BY <2>2 DEF ValidOutput
  <2> DEFINE IsLink(id) == \E i1 \in DOMAIN links : LinkOf(x, links, id) = links[i1]
  <2>linked. IsLink(r.source) /\ IsLink(r.target)
    <3>1. \A id \in LocalIds(x.entities) : IsLink(id)
      BY LinkOfMention
    <3> HIDE DEF IsLink
    <3>2. QED
      BY <2>4, <3>1
  <2>5. PICK i1 \in DOMAIN links : LinkOf(x, links, r.source) = links[i1]
    BY <2>linked
  <2>6. PICK i2 \in DOMAIN links : LinkOf(x, links, r.target) = links[i2]
    BY <2>linked
  <2>7. PICK l1, l2 : l1 = links[i1] /\ l2 = links[i2]
    OBVIOUS
  <2>8. /\ l1.entity_id # None /\ l2.entity_id # None
        /\ l1.entity_id \in Entities /\ l2.entity_id \in Entities
        /\ l1.score \in Confidence /\ l2.score \in Confidence
    BY <2>3, <2>5, <2>6, <2>7 DEF Linked
  <2>9. PICK e : e = FactEvent(x, BuildFact(x, r, l1, l2, t), t)
    OBVIOUS
  <2>10. FactEntry(e, t) /\ e.payload.fact.source = l1.entity_id /\ e.payload.fact.target = l2.entity_id
    BY <2>8, <2>9, FactBuilt
  <2>11. events[k] = e
    BY <1>6, <1>8, <2>2, <2>5, <2>6, <2>7, <2>9
  <2>12. FactPlanned(e, t, links)
    BY <2>7, <2>8, <2>10 DEF FactPlanned
  <2>13. QED
    BY <2>11, <2>12
<1>12. QED
  BY <1>7, <1>10, <1>11

\* A plan creates the entities its links ask for, each once, and then records
\* facts between linked mentions.
LEMMA PlanPlanned ==
  ASSUME NEW x, ExtractionOK(x), NEW nodes, Catalogued(nodes), NEW policy, PolicyTyped(policy),
         NEW t \in Times, PlanWithLinker(x, nodes, policy, t) # None
  PROVE  LET events == PlanWithLinker(x, nodes, policy, t).events
             S == NewEntities(LinksOf(x, nodes, policy))
         IN  S \subseteq Entities /\ \E m : PlannedBy(events, nodes, t, S, m)
<1>1. PICK links : links = LinksOf(x, nodes, policy)
  OBVIOUS
<1>2. /\ ValidInput(x, t) /\ ValidOutput(x) /\ AllLinked(x, nodes, policy)
      /\ PlanWithLinker(x, nodes, policy, t) = PlanOf(x, links, t)
  BY <1>1, PlanLinks
<1>3. DOMAIN links = DOMAIN x.entities
  BY <1>1 DEF LinksOf
<1>4. \A k \in DOMAIN links : Linking(links[k], nodes, x.entities[k])
  BY <1>1, <1>2, <1>3 DEF AllLinked
<1>5. PICK S : S = NewEntities(links)
  OBVIOUS
<1>6. \A id \in S : id \in Entities /\ Missing(nodes, id)
  BY <1>4, <1>5 DEF NewEntities, Created, Linking
<1>7. t \in Time
  BY AgentAssumption
<1>8. PICK new, facts : new = NodeEventsOf(x, links, t) /\ facts = FactEventsOf(x, links, t)
  OBVIOUS
<1>9. /\ new \in Seq(ToSet(new))
      /\ \A k \in 1..Len(new) : NodeEntry(new[k], t) /\ new[k].payload.id \in S
      /\ \A e \in S : \E k \in 1..Len(new) : new[k].payload.id = e
      /\ \A j, k \in 1..Len(new) : new[j].payload.id = new[k].payload.id => j = k
  <2>1. NewEntities(links) \subseteq Entities
    BY <1>5, <1>6
  <2>2. QED
    BY <1>3, <1>5, <1>8, <2>1, NodeEventsPlanned
<1>10. /\ facts \in Seq(ToSet(facts))
       /\ \A k \in 1..Len(facts) : FactPlanned(facts[k], t, links)
  <2>1. \A k \in DOMAIN links : links[k].entity_id \in Entities \cup {None} /\ links[k].score \in Confidence
    BY <1>4 DEF Linking
  <2>2. QED
    BY <1>2, <1>3, <1>7, <1>8, <2>1, FactEventsPlanned
<1>11. PICK events : events = new \o facts
  OBVIOUS
<1>12. PlanWithLinker(x, nodes, policy, t).events = events
  BY <1>2, <1>8, <1>11 DEF PlanOf
<1>13. PICK T : T = ToSet(new) \cup ToSet(facts)
  OBVIOUS
<1>14. new \in Seq(T) /\ facts \in Seq(T)
  <2>1. ToSet(new) \subseteq T /\ ToSet(facts) \subseteq T
    BY <1>13
  <2>2. QED
    BY <1>9, <1>10, <2>1
<1>15. PICK m, n : m = Len(new) /\ n = Len(facts)
  OBVIOUS
<1>16. /\ events \in Seq(T) /\ Len(events) = m + n /\ m \in Nat /\ n \in Nat
       /\ \A i \in 1..(m + n) : events[i] = IF i <= m THEN new[i] ELSE facts[i - m]
  BY <1>11, <1>14, <1>15, ConcatProperties, LenProperties
<1>17. events \in Seq(ToSet(events))
  <2>1. DOMAIN events = 1..Len(events)
    BY <1>16, LenProperties
  <2>2. events \in [1..Len(events) -> ToSet(events)]
    BY <1>16, <2>1 DEF ToSet
  <2>3. QED
    BY <1>16, <2>2, FunctionIsSeq
<1>18. \A k \in 1..m : k \in 1..(m + n) /\ events[k] = new[k]
  BY <1>16
<1>19. ASSUME NEW k \in (m + 1)..(m + n)
       PROVE  /\ FactEntry(events[k], t)
              /\ Reached(events[k].payload.fact.source, nodes, S)
              /\ Reached(events[k].payload.fact.target, nodes, S)
  <2>1. k - m \in 1..n /\ events[k] = facts[k - m]
    BY <1>16
  <2>2. FactPlanned(events[k], t, links)
    BY <1>10, <1>15, <2>1
  <2>3. ASSUME NEW j \in DOMAIN links, links[j].entity_id # None
        PROVE  Reached(links[j].entity_id, nodes, S)
    <3>1. CASE links[j].method = "Created"
      BY <1>5, <3>1 DEF Reached, NewEntities, Created
    <3>2. CASE links[j].method # "Created"
      BY <1>4, <2>3, <3>2 DEF Reached, Linking
    <3>3. QED
      BY <3>1, <3>2
  <2>4. QED
    BY <2>2, <2>3 DEF FactPlanned
<1>20. PlannedBy(events, nodes, t, S, m)
  <2>1. m \in 0..Len(events)
    BY <1>16
  <2>2. \A k \in 1..m : NodeEntry(events[k], t) /\ events[k].payload.id \in S
    BY <1>9, <1>15, <1>18
  <2>3. \A e \in S : Missing(nodes, e) /\ \E k \in 1..m : events[k].payload.id = e
    BY <1>6, <1>9, <1>15, <1>18
  <2>4. \A j, k \in 1..m : events[j].payload.id = events[k].payload.id => j = k
    BY <1>9, <1>15, <1>18
  <2>5. QED
    BY <1>16, <1>17, <1>19, <2>1, <2>2, <2>3, <2>4 DEF PlannedBy
<1>21. QED
  BY <1>1, <1>5, <1>6, <1>12, <1>20

-----------------------------------------------------------------------------
\* The projection of a log.

\* The event that wrote a revision is at its position.
Wrote(e, v) ==
  /\ e.payload.kind = "NodeUpserted" /\ e.recorded_at = v.recorded_at
  /\ e.payload.id = v.id /\ e.payload.node.id = v.id

RevisionWritten(v, events, n) == v.position + 1 \in 1..n /\ Wrote(events[v.position + 1], v)

HistoriesWritten(nodes, events, n) ==
  \A i \in 1..Len(nodes) : \A r \in 1..Len(nodes[i]) : RevisionWritten(nodes[i][r], events, n)

\* The projection knows the nodes of the first n events, and facts of no other.
NodesKnown(lookup, events, n) ==
  \A i \in 1..n : events[i].payload.kind = "NodeUpserted" =>
    events[i].payload.id \in Entities /\ lookup[events[i].payload.id] # None

FactsRecorded(lookup, events, n) ==
  \A id \in FactIds : lookup[id] # None =>
    \E i \in 1..n : events[i].payload.kind = "FactRecorded" /\ events[i].payload.fact.id = id

Tracks(p, events, n) ==
  /\ Sound(p) /\ Listed(p)
  /\ HistoriesWritten(p.nodes, events, n)
  /\ NodesKnown(p.node_lookup, events, n)
  /\ FactsRecorded(p.fact_lookup, events, n)

\* What is known stays known.
Grown(p, q) == \A e \in Entities : p.node_lookup[e] # None => q.node_lookup[e] # None

\* The history of a known entity is untouched.
Leaves(p, q, e) ==
  p.node_lookup[e] # None =>
    q.node_lookup[e] = p.node_lookup[e] /\ q.nodes[q.node_lookup[e] + 1] = p.nodes[p.node_lookup[e] + 1]

\* A sound projection is one.
LEMMA SoundIsSome ==
  ASSUME NEW p, Sound(p)
  PROVE  p # None
BY ProjectionAssumption DEF Sound

\* The position of a projection is no part of its lists.
LEMMA PositionListed ==
  ASSUME NEW p \in Projection, Listed(p), NEW n, NEW q, q = [p EXCEPT !.last_global_position = n]
  PROVE  Listed(q)
<1>1. /\ q.nodes = p.nodes /\ q.facts = p.facts /\ q.node_lookup = p.node_lookup
      /\ q.incident_offsets = p.incident_offsets /\ q.incident_facts = p.incident_facts
      /\ q.incident_delta = p.incident_delta
  BY DEF Projection
<1>2. QED
  BY <1>1, ListedSame

\* A node event is applied: the projection tracks one event more.
LEMMA NodeEventTracked ==
  ASSUME NEW p, NEW events, NEW n \in Nat, Tracks(p, events, n), NEW t \in Times,
         NodeEntry(events[n + 1], t)
  PROVE  LET q == ApplyEvent(p, events[n + 1], n)
         IN  /\ Tracks(q, events, n + 1) /\ Grown(p, q) /\ q.fact_lookup = p.fact_lookup
             /\ q.node_lookup[events[n + 1].payload.id] # None
             /\ \A id \in Entities \ {events[n + 1].payload.id} : Leaves(p, q, id)
<1>1. PICK e : e = events[n + 1]
  OBVIOUS
<1>2. /\ e.payload.kind = "NodeUpserted" /\ e.recorded_at = t
      /\ e.payload.id \in Entities /\ e.payload.node.id = e.payload.id
  BY <1>1 DEF NodeEntry
<1>3. PICK r : r = [id |-> e.payload.id, recorded_at |-> t, position |-> n]
  OBVIOUS
<1>4. t \in Time
  BY AgentAssumption
<1>5. r \in NodeRevision /\ r.id = e.payload.id /\ r.recorded_at = t /\ r.position = n
  BY <1>2, <1>3, <1>4 DEF NodeRevision
<1>6. Sound(p) /\ Listed(p)
  BY DEF Tracks
<1>7. PICK i : i = InsertNode(p, r)
  OBVIOUS
<1>8. NodeInserted(p, r, i) /\ Sound(i) /\ Listed(i)
  BY <1>5, <1>6, <1>7, InsertNodeFields, InsertNodeSound, NodeListed
<1>9. PICK q : q = [i EXCEPT !.last_global_position = n]
  OBVIOUS
<1>10. ApplyEvent(p, e, n) = q
  <2>1. p # None
    BY <1>6, SoundIsSome
  <2>2. Accepts(p, e.payload, e.recorded_at)
    BY <1>2 DEF Accepts
  <2>3. Apply(p, e.payload, t, n) = q
    BY <1>2, <1>3, <1>7, <1>9 DEF Apply
  <2>4. QED
    BY <1>2, <2>1, <2>2, <2>3 DEF ApplyEvent
<1>11. Sound(q)
  BY <1>8, <1>9, PositionSound
<1>12. i \in Projection
  BY <1>8 DEF NodeInserted
<1>12a. Listed(q)
  BY <1>8, <1>9, <1>12, PositionListed
<1>13. q.nodes = i.nodes /\ q.node_lookup = i.node_lookup /\ q.fact_lookup = i.fact_lookup
  BY <1>9, <1>12 DEF Projection
<1>14. PICK nodes, lookup, new, found :
         nodes = p.nodes /\ lookup = p.node_lookup /\ new = q.nodes /\ found = q.node_lookup
  OBVIOUS
<1>15. /\ nodes \in Seq(Seq(NodeRevision)) /\ lookup \in [Entities -> Nat \cup {None}]
       /\ NodesIndexed(nodes, lookup)
  BY <1>6, <1>14, ProjectionFields DEF Sound
<1>16. /\ \A j \in 1..Len(new) : \A k \in 1..Len(new[j]) :
            \/ new[j][k] = r
            \/ j \in 1..Len(nodes) /\ k \in 1..Len(nodes[j]) /\ new[j][k] = nodes[j][k]
       /\ \A id \in Entities : lookup[id] # None => found[id] # None
       /\ found[r.id] # None
       /\ \A id \in Entities \ {r.id} : lookup[id] # None =>
            found[id] = lookup[id] /\ new[lookup[id] + 1] = nodes[lookup[id] + 1]
  <2>1. CASE lookup[r.id] # None
    <3>1. new = WithRevision(nodes, lookup[r.id] + 1, r) /\ found = lookup
      BY <1>8, <1>13, <1>14, <2>1 DEF NodeInserted
    <3>2. PICK m : m = lookup[r.id] + 1
      OBVIOUS
    <3>3. Revised(nodes, m, r, new)
      BY <1>5, <1>15, <2>1, <3>1, <3>2, RevisionIndexed
    <3>4. ASSUME NEW j \in 1..Len(new), NEW k \in 1..Len(new[j])
          PROVE  \/ new[j][k] = r
                 \/ j \in 1..Len(nodes) /\ k \in 1..Len(nodes[j]) /\ new[j][k] = nodes[j][k]
      <4>1. j \in 1..Len(nodes) /\ new[j] = IF j = m THEN Append(nodes[m], r) ELSE nodes[j]
        BY <3>3 DEF Revised
      <4>2. nodes[j] \in Seq(NodeRevision) /\ Len(nodes[j]) \in Nat
        BY <1>15, <4>1, NodeHistories
      <4>3. CASE j = m
        <5>1. PICK h \in Seq(NodeRevision) : h = nodes[j]
          BY <4>2
        <5>2. new[j] = Append(h, r)
          BY <4>1, <4>3, <5>1
        <5>3. /\ Len(Append(h, r)) = Len(h) + 1 /\ Append(h, r)[Len(h) + 1] = r
              /\ \A l \in 1..Len(h) : Append(h, r)[l] = h[l]
          BY <1>5, <5>1, AppendProperties
        <5>4. k \in 1..Len(h) \/ k = Len(h) + 1
          BY <4>2, <5>1, <5>2, <5>3
        <5>5. QED
          BY <4>1, <5>1, <5>2, <5>3, <5>4
      <4>4. CASE j # m
        BY <4>1, <4>4
      <4>5. QED
        BY <4>3, <4>4
    <3>5. ASSUME NEW id \in Entities \ {r.id}, lookup[id] # None
          PROVE  new[lookup[id] + 1] = nodes[lookup[id] + 1]
      <4>1. lookup[id] + 1 \in 1..Len(nodes) /\ nodes[lookup[id] + 1][1].id = id
        BY <1>15, <3>5 DEF NodesIndexed
      <4>2. nodes[m][1].id = r.id
        BY <1>5, <1>15, <2>1, <3>2 DEF NodesIndexed, NodeRevision
      <4>3. lookup[id] + 1 # m
        BY <4>1, <4>2
      <4>4. QED
        BY <3>3, <4>1, <4>3 DEF Revised
    <3>6. QED
      BY <2>1, <3>1, <3>4, <3>5
  <2>2. CASE lookup[r.id] = None
    <3>1. new = Append(nodes, <<r>>) /\ found = WithEntry(lookup, r.id, Len(nodes))
      BY <1>8, <1>13, <1>14, <2>2 DEF NodeInserted
    <3>2. NodeAdded(nodes, lookup, r, new, found)
      BY <1>5, <1>15, <2>2, <3>1, NodeIndexed
    <3>3. Len(nodes) \in Nat
      BY <1>15, LenProperties
    <3>4. ASSUME NEW j \in 1..Len(new), NEW k \in 1..Len(new[j])
          PROVE  \/ new[j][k] = r
                 \/ j \in 1..Len(nodes) /\ k \in 1..Len(nodes[j]) /\ new[j][k] = nodes[j][k]
      <4>1. j \in 1..Len(nodes) \/ j = Len(nodes) + 1
        BY <3>2, <3>3 DEF NodeAdded
      <4>2. CASE j = Len(nodes) + 1
        <5>1. new[j] = <<r>>
          BY <3>2, <4>2 DEF NodeAdded
        <5>2. QED
          BY <5>1
      <4>3. CASE j \in 1..Len(nodes)
        BY <3>2, <4>3 DEF NodeAdded
      <4>4. QED
        BY <4>1, <4>2, <4>3
    <3>5. found[r.id] # None
      BY <3>2, <3>3, NoneAssumption DEF NodeAdded
    <3>6. \A id \in Entities : lookup[id] # None => found[id] # None
      BY <3>2, <3>5 DEF NodeAdded
    <3>7. ASSUME NEW id \in Entities \ {r.id}, lookup[id] # None
          PROVE  found[id] = lookup[id] /\ new[lookup[id] + 1] = nodes[lookup[id] + 1]
      <4>1. lookup[id] + 1 \in 1..Len(nodes)
        BY <1>15, <3>7 DEF NodesIndexed
      <4>2. QED
        BY <3>2, <4>1 DEF NodeAdded
    <3>8. QED
      BY <3>4, <3>5, <3>6, <3>7
  <2>3. QED
    BY <2>1, <2>2
<1>17. \A j \in 1..n : j \in 1..(n + 1)
  OBVIOUS
<1>18. HistoriesWritten(new, events, n + 1)
  <2>1. RevisionWritten(r, events, n + 1)
    <3>1. r.position + 1 = n + 1 /\ n + 1 \in 1..(n + 1)
      BY <1>5
    <3>2. Wrote(e, r)
      BY <1>2, <1>5 DEF Wrote
    <3>3. QED
      BY <1>1, <3>1, <3>2 DEF RevisionWritten
  <2>2. ASSUME NEW v, RevisionWritten(v, events, n) PROVE RevisionWritten(v, events, n + 1)
    BY <1>17, <2>2 DEF RevisionWritten
  <2>3. HistoriesWritten(nodes, events, n)
    BY <1>14 DEF Tracks
  <2>4. QED
    BY <1>16, <2>1, <2>2, <2>3 DEF HistoriesWritten
<1>19. NodesKnown(found, events, n + 1)
  <2> SUFFICES ASSUME NEW j \in 1..(n + 1), events[j].payload.kind = "NodeUpserted"
               PROVE  events[j].payload.id \in Entities /\ found[events[j].payload.id] # None
    BY DEF NodesKnown
  <2>1. CASE j = n + 1
    BY <1>1, <1>2, <1>5, <1>16, <2>1
  <2>2. CASE j \in 1..n
    <3>1. events[j].payload.id \in Entities /\ lookup[events[j].payload.id] # None
      BY <1>14, <2>2 DEF Tracks, NodesKnown
    <3>2. QED
      BY <1>16, <3>1
  <2>3. QED
    BY <2>1, <2>2
<1>20. FactsRecorded(q.fact_lookup, events, n + 1) /\ q.fact_lookup = p.fact_lookup
  <2>1. q.fact_lookup = p.fact_lookup
    BY <1>8, <1>13 DEF NodeInserted
  <2>2. QED
    BY <1>17, <2>1 DEF Tracks, FactsRecorded
<1>21. Tracks(q, events, n + 1)
  BY <1>11, <1>12a, <1>14, <1>18, <1>19, <1>20 DEF Tracks
<1>22. \A id \in Entities \ {r.id} : Leaves(p, q, id)
  BY <1>14, <1>16 DEF Leaves
<1>23. QED
  BY <1>1, <1>5, <1>10, <1>14, <1>16, <1>20, <1>21, <1>22 DEF Grown

\* A fact event is applied if its endpoints are known and its fact is not.
LEMMA FactEventTracked ==
  ASSUME NEW p, NEW events, NEW n \in Nat, Tracks(p, events, n), NEW t \in Times,
         FactEntry(events[n + 1], t),
         p.node_lookup[events[n + 1].payload.fact.source] # None,
         p.node_lookup[events[n + 1].payload.fact.target] # None,
         p.fact_lookup[events[n + 1].payload.fact.id] = None
  PROVE  LET q == ApplyEvent(p, events[n + 1], n)
         IN  Tracks(q, events, n + 1) /\ Grown(p, q) /\ \A id \in Entities : Leaves(p, q, id)
<1>1. PICK e : e = events[n + 1]
  OBVIOUS
<1>2. PICK f : f = e.payload.fact
  OBVIOUS
<1>3. /\ e.payload.kind = "FactRecorded" /\ e.recorded_at = t
      /\ f \in Fact /\ f.recorded_at = t /\ ValidFact(f) /\ f.supersedes = None
  BY <1>1, <1>2 DEF FactEntry
<1>4. Sound(p) /\ Listed(p)
  BY DEF Tracks
<1>5. CanInsertFact(p, f)
  BY <1>1, <1>2, <1>3 DEF CanInsertFact
<1>6. PICK i : i = InsertFact(p, f)
  OBVIOUS
<1>7. FactInserted(p, f, i) /\ Sound(i) /\ Listed(i)
  BY <1>3, <1>4, <1>5, <1>6, InsertFactFields, InsertFactSound, FactListed
<1>8. PICK q : q = [i EXCEPT !.last_global_position = n]
  OBVIOUS
<1>9. ApplyEvent(p, e, n) = q
  <2>1. p # None
    BY <1>4, SoundIsSome
  <2>2. Accepts(p, e.payload, e.recorded_at)
    BY <1>2, <1>3, <1>5 DEF Accepts
  <2>3. Apply(p, e.payload, t, n) = q
    BY <1>2, <1>3, <1>6, <1>8 DEF Apply
  <2>4. QED
    BY <1>3, <2>1, <2>2, <2>3 DEF ApplyEvent
<1>10. Sound(q)
  BY <1>7, <1>8, PositionSound
<1>11. i \in Projection
  BY <1>7 DEF Sound
<1>11a. Listed(q)
  BY <1>7, <1>8, <1>11, PositionListed
<1>12. q.nodes = i.nodes /\ q.node_lookup = i.node_lookup /\ q.fact_lookup = i.fact_lookup
  BY <1>8, <1>11 DEF Projection
<1>13. /\ q.nodes = p.nodes /\ q.node_lookup = p.node_lookup
       /\ q.fact_lookup = WithEntry(p.fact_lookup, f.id, Len(p.facts))
  BY <1>7, <1>12 DEF FactInserted
<1>14. \A j \in 1..n : j \in 1..(n + 1)
  OBVIOUS
<1>15. HistoriesWritten(q.nodes, events, n + 1)
  <2>1. ASSUME NEW v, RevisionWritten(v, events, n) PROVE RevisionWritten(v, events, n + 1)
    BY <1>14, <2>1 DEF RevisionWritten
  <2>2. HistoriesWritten(p.nodes, events, n)
    BY DEF Tracks
  <2>3. QED
    BY <1>13, <2>1, <2>2 DEF HistoriesWritten
<1>16. NodesKnown(q.node_lookup, events, n + 1)
  <2>1. NodesKnown(p.node_lookup, events, n)
    BY DEF Tracks
  <2>2. \A j \in 1..(n + 1) : j \in 1..n \/ j = n + 1
    OBVIOUS
  <2>3. events[n + 1].payload.kind # "NodeUpserted"
    BY <1>1, <1>3
  <2>4. QED
    BY <1>13, <2>1, <2>2, <2>3 DEF NodesKnown
<1>17. FactsRecorded(q.fact_lookup, events, n + 1)
  <2> SUFFICES ASSUME NEW id \in FactIds, q.fact_lookup[id] # None
               PROVE  \E j \in 1..(n + 1) : events[j].payload.kind = "FactRecorded"
                                             /\ events[j].payload.fact.id = id
    BY DEF FactsRecorded
  <2>1. CASE id = f.id
    <3>1. n + 1 \in 1..(n + 1)
      OBVIOUS
    <3>2. QED
      BY <1>1, <1>2, <1>3, <2>1, <3>1
  <2>2. CASE id # f.id
    <3>1. p.fact_lookup \in [FactIds -> Nat \cup {None}]
      BY <1>4, ProjectionFields DEF Sound
    <3>2. q.fact_lookup[id] = p.fact_lookup[id]
      BY <1>13, <2>2, <3>1 DEF WithEntry
    <3>3. PICK j \in 1..n : events[j].payload.kind = "FactRecorded" /\ events[j].payload.fact.id = id
      BY <3>2 DEF Tracks, FactsRecorded
    <3>4. QED
      BY <1>14, <3>3
  <2>3. QED
    BY <2>1, <2>2
<1>18. Tracks(q, events, n + 1)
  BY <1>10, <1>11a, <1>15, <1>16, <1>17 DEF Tracks
<1>19. QED
  BY <1>1, <1>9, <1>13, <1>18 DEF Grown, Leaves

-----------------------------------------------------------------------------
\* Batches.

\* The projections behind the events of a batch.
Runs(a, p, position, events) ==
  /\ a[0] = p /\ Applied(p, position, events) = a[Len(events)]
  /\ \A k \in 0..(Len(events) - 1) : a[k + 1] = ApplyEvent(a[k], events[k + 1], position + k)

\* The recursion of Applied is well-founded: its function exists.
LEMMA AppliedRecursion ==
  ASSUME NEW p, NEW position \in Nat, NEW events, Len(events) \in Nat
  PROVE  \E a : Runs(a, p, position, events)
<1> DEFINE Rec(r, n) == r = [k \in 0..n |->
                              IF k = 0 THEN p ELSE ApplyEvent(r[k - 1], events[k], position + k - 1)]
           N == {n \in Nat : \E r : Rec(r, n)}
<1>1. 0 \in N
  <2>1. Rec([k \in 0..0 |-> p], 0)
    OBVIOUS
  <2>2. QED
    BY <2>1
<1>2. ASSUME NEW n \in Nat, n \in N PROVE n + 1 \in N
  <2>1. PICK r : Rec(r, n)
    BY <1>2
  <2> DEFINE d == [k \in 0..(n + 1) |->
                    IF k = n + 1 THEN ApplyEvent(r[n], events[n + 1], position + (n + 1) - 1) ELSE r[k]]
  <2>2. ASSUME NEW k \in 0..(n + 1)
        PROVE  d[k] = IF k = 0 THEN p ELSE ApplyEvent(d[k - 1], events[k], position + k - 1)
    <3>1. CASE k = n + 1
      <4>1. k # 0 /\ k - 1 = n /\ n \in 0..(n + 1) /\ n # n + 1
        BY <3>1
      <4>2. d[k - 1] = r[n] /\ d[k] = ApplyEvent(r[n], events[n + 1], position + (n + 1) - 1)
        BY <3>1, <4>1
      <4>3. QED
        BY <3>1, <4>1, <4>2
    <3>2. CASE k = 0
      <4>1. r[0] = p /\ d[0] = r[0]
        BY <2>1
      <4>2. QED
        BY <3>2, <4>1
    <3>3. CASE k # n + 1 /\ k # 0
      <4>1. k \in 0..n /\ k - 1 \in 0..(n + 1) /\ k - 1 # n + 1
        BY <3>3
      <4>2. d[k] = r[k] /\ d[k - 1] = r[k - 1]
        BY <3>3, <4>1
      <4> HIDE DEF d
      <4>3. r[k] = ApplyEvent(r[k - 1], events[k], position + k - 1)
        BY <2>1, <3>3, <4>1
      <4>4. QED
        BY <3>3, <4>2, <4>3
    <3>4. QED
      BY <3>1, <3>2, <3>3
  <2>3. d = [k \in 0..(n + 1) |-> d[k]]
    OBVIOUS
  <2> HIDE DEF d
  <2>4. Rec(d, n + 1)
    BY <2>2, <2>3
  <2>5. n + 1 \in Nat
    OBVIOUS
  <2> HIDE DEF Rec
  <2>6. QED
    BY <2>4, <2>5, Zenon
<1> HIDE DEF N
<1>3. Len(events) \in N
  BY <1>1, <1>2, InductionOnNat
<1>4. \E r : Rec(r, Len(events))
  BY <1>3 DEF N
<1>5. Rec(CHOOSE r : Rec(r, Len(events)), Len(events))
  BY <1>4, Zenon
<1>6. Applied(p, position, events) = (CHOOSE r : Rec(r, Len(events)))[Len(events)]
  BY Zenon DEF Applied
<1>7. PICK a : Rec(a, Len(events)) /\ Applied(p, position, events) = a[Len(events)]
  BY <1>5, <1>6, Zenon
<1>8. a[0] = p
  BY <1>7
<1>9. \A k \in 0..(Len(events) - 1) : a[k + 1] = ApplyEvent(a[k], events[k + 1], position + k)
  <2> SUFFICES ASSUME NEW k \in 0..(Len(events) - 1)
               PROVE  a[k + 1] = ApplyEvent(a[k], events[k + 1], position + k)
    OBVIOUS
  <2>1. k + 1 \in 0..Len(events) /\ k + 1 # 0 /\ (k + 1) - 1 = k /\ position + (k + 1) - 1 = position + k
    OBVIOUS
  <2>2. a[k + 1] = ApplyEvent(a[(k + 1) - 1], events[k + 1], position + (k + 1) - 1)
    BY <1>7, <2>1
  <2>3. QED
    BY <2>1, <2>2
<1>10. Runs(a, p, position, events)
  BY <1>7, <1>8, <1>9 DEF Runs
<1>11. QED
  BY <1>10

\* The events of a batch at their positions of the log.
Appended(all, n, events) == \A k \in 1..Len(events) : all[n + k] = events[k]

\* No fact of the batch is recorded before it.
FactsOnce(all, n, len) ==
  \A k \in (n + 1)..(n + len) : \A i \in 1..(k - 1) :
    all[k].payload.kind = "FactRecorded" /\ all[i].payload.kind = "FactRecorded" =>
      all[i].payload.fact.id # all[k].payload.fact.id

\* The projection knows the nodes of a linker.
Backed(p, nodes) == \A i \in DOMAIN nodes : p.node_lookup[nodes[i].id] # None

\* What is known of the projection behind the first k events of a plan.
Following(p, q, all, n, k, S) ==
  /\ Tracks(q, all, n + k) /\ Grown(p, q)
  /\ \A id \in Entities \ S : Leaves(p, q, id)

\* One event of a plan.
LEMMA PlannedEventFollows ==
  ASSUME NEW p, Sound(p), NEW q, NEW all, NEW n \in Nat, NEW events, NEW nodes, NEW t \in Times, NEW S,
         NEW m, PlannedBy(events, nodes, t, S, m), Appended(all, n, events),
         FactsOnce(all, n, Len(events)), Backed(p, nodes),
         NEW k \in 0..(Len(events) - 1), Following(p, q, all, n, k, S)
  PROVE  Following(p, ApplyEvent(q, events[k + 1], n + k), all, n, k + 1, S)
<1>1. Len(events) \in Nat /\ m \in 0..Len(events)
  BY LenProperties DEF PlannedBy
<1>2. k \in Nat /\ k + 1 \in 1..Len(events) /\ n + k \in Nat /\ (n + k) + 1 = n + (k + 1)
  BY <1>1
<1>3. all[(n + k) + 1] = events[k + 1]
  BY <1>2 DEF Appended
<1>4. Tracks(q, all, n + k) /\ Grown(p, q)
  BY DEF Following
<1>5. PICK e : e = events[k + 1]
  OBVIOUS
<1>6. PICK r : r = ApplyEvent(q, e, n + k)
  OBVIOUS
<1>7. ASSUME NEW id \in Entities, Leaves(p, q, id), Leaves(q, r, id) PROVE Leaves(p, r, id)
  BY <1>7 DEF Leaves
<1>8. CASE k + 1 <= m
  <2>1. k + 1 \in 1..m
    BY <1>1, <1>2, <1>8
  <2>2. NodeEntry(e, t) /\ e.payload.id \in S
    BY <1>5, <2>1 DEF PlannedBy
  <2>3. /\ Tracks(r, all, (n + k) + 1) /\ Grown(q, r)
        /\ \A id \in Entities \ {e.payload.id} : Leaves(q, r, id)
    BY <1>2, <1>3, <1>4, <1>5, <1>6, <2>2, NodeEventTracked
  <2>4. \A id \in Entities \ S : Leaves(p, r, id)
    BY <1>7, <2>2, <2>3 DEF Following
  <2>5. Grown(p, r)
    BY <1>4, <2>3 DEF Grown
  <2>6. QED
    BY <1>2, <1>5, <1>6, <2>3, <2>4, <2>5 DEF Following
<1>9. CASE ~(k + 1 <= m)
  <2>1. k + 1 \in (m + 1)..Len(events) /\ m <= k
    BY <1>1, <1>2, <1>9
  <2>2. /\ FactEntry(e, t)
        /\ Reached(e.payload.fact.source, nodes, S) /\ Reached(e.payload.fact.target, nodes, S)
    BY <1>5, <2>1 DEF PlannedBy
  <2>3. PICK f : f = e.payload.fact
    OBVIOUS
  <2>4. f \in Fact /\ e.payload.kind = "FactRecorded"
    BY <2>2, <2>3 DEF FactEntry
  <2>5. ASSUME NEW id \in Entities, Reached(id, nodes, S) PROVE q.node_lookup[id] # None
    <3>1. CASE id \in S
      <4>1. PICK j \in 1..m : events[j].payload.id = id
        BY <3>1 DEF PlannedBy
      <4>2. j \in 1..Len(events) /\ n + j \in 1..(n + k)
        BY <1>1, <1>2, <2>1
      <4>3. all[n + j] = events[j] /\ NodeEntry(events[j], t)
        BY <4>2 DEF PlannedBy, Appended
      <4>4. all[n + j].payload.kind = "NodeUpserted" /\ all[n + j].payload.id = id
        BY <4>1, <4>3 DEF NodeEntry
      <4>5. QED
        BY <1>4, <4>2, <4>4 DEF Tracks, NodesKnown
    <3>2. CASE Present(nodes, id)
      <4>1. p.node_lookup[id] # None
        BY <3>2 DEF Present, Backed
      <4>2. QED
        BY <1>4, <4>1 DEF Grown
    <3>3. QED
      BY <2>5, <3>1, <3>2 DEF Reached
  <2>6. f.source \in Entities /\ f.target \in Entities /\ f.id \in FactIds
    BY <2>4 DEF Fact
  <2>7. q.node_lookup[f.source] # None /\ q.node_lookup[f.target] # None
    BY <2>2, <2>3, <2>5, <2>6
  <2>8. q.fact_lookup[f.id] = None
    <3> SUFFICES ASSUME q.fact_lookup[f.id] # None PROVE FALSE
      OBVIOUS
    <3>1. PICK i \in 1..(n + k) : all[i].payload.kind = "FactRecorded" /\ all[i].payload.fact.id = f.id
      BY <1>4, <2>6 DEF Tracks, FactsRecorded
    <3>2. n + (k + 1) \in (n + 1)..(n + Len(events)) /\ i \in 1..((n + (k + 1)) - 1)
      BY <1>1, <1>2
    <3>3. all[n + (k + 1)] = e
      BY <1>2, <1>3, <1>5
    <3>4. QED
      BY <2>3, <2>4, <3>1, <3>2, <3>3 DEF FactsOnce
  <2>9. /\ Tracks(r, all, (n + k) + 1) /\ Grown(q, r)
        /\ \A id \in Entities : Leaves(q, r, id)
    BY <1>2, <1>3, <1>4, <1>5, <1>6, <2>2, <2>3, <2>7, <2>8, FactEventTracked
  <2>10. \A id \in Entities \ S : Leaves(p, r, id)
    BY <1>7, <2>9 DEF Following
  <2>11. Grown(p, r)
    BY <1>4, <2>9 DEF Grown
  <2>12. QED
    BY <1>2, <1>5, <1>6, <2>9, <2>10, <2>11 DEF Following
<1>10. QED
  BY <1>8, <1>9

\* The projection follows a whole plan.
LEMMA PlanFollows ==
  ASSUME NEW p, NEW all, NEW n \in Nat, Tracks(p, all, n), NEW events, NEW nodes, NEW t \in Times, NEW S,
         NEW m, PlannedBy(events, nodes, t, S, m), Appended(all, n, events),
         FactsOnce(all, n, Len(events)), Backed(p, nodes)
  PROVE  Following(p, Applied(p, n, events), all, n, Len(events), S)
<1>1. Len(events) \in Nat
  BY LenProperties DEF PlannedBy
<1>2. PICK a : Runs(a, p, n, events)
  BY <1>1, AppliedRecursion
<1> DEFINE N == {k \in Nat : Following(p, a[k], all, n, k, S)}
<1>3. 0 \in N
  <2>1. n + 0 = n
    OBVIOUS
  <2>2. Following(p, a[0], all, n, 0, S)
    BY <1>2, <2>1 DEF Following, Grown, Leaves, Runs
  <2>3. QED
    BY <2>2
<1>4. \A k \in 0..(Len(events) - 1) : k \in N => k + 1 \in N
  <2> SUFFICES ASSUME NEW k \in 0..(Len(events) - 1), k \in N PROVE k + 1 \in N
    OBVIOUS
  <2>1. Following(p, a[k], all, n, k, S) /\ k \in Nat
    OBVIOUS
  <2>2. Sound(p)
    BY DEF Tracks
  <2>3. Following(p, a[k + 1], all, n, k + 1, S)
    BY <1>2, <2>1, <2>2, PlannedEventFollows DEF Runs
  <2>4. QED
    BY <2>1, <2>3
<1> HIDE DEF N
<1>5. \A k \in 0..Len(events) : k \in N
  BY <1>1, <1>3, <1>4, InductionUpTo
<1>6. Len(events) \in N
  BY <1>1, <1>5
<1>7. QED
  BY <1>2, <1>6 DEF N, Runs

\* A log that grows keeps its prefix.
LEMMA TracksExtends ==
  ASSUME NEW p, NEW events, NEW all, NEW n \in Nat, Tracks(p, events, n),
         \A i \in 1..n : all[i] = events[i]
  PROVE  Tracks(p, all, n)
<1>1. ASSUME NEW v, RevisionWritten(v, events, n) PROVE RevisionWritten(v, all, n)
  BY <1>1 DEF RevisionWritten
<1>2. HistoriesWritten(p.nodes, all, n)
  BY <1>1 DEF Tracks, HistoriesWritten
<1>3. NodesKnown(p.node_lookup, all, n) /\ FactsRecorded(p.fact_lookup, all, n)
  BY DEF Tracks, NodesKnown, FactsRecorded
<1>4. QED
  BY <1>2, <1>3 DEF Tracks


-----------------------------------------------------------------------------
\* Catalogs.

\* A filter that everything passes changes nothing.
LEMMA FilteredAll ==
  ASSUME NEW S, NEW s \in Seq(S), NEW kept, \A i \in 1..Len(s) : i \in kept
  PROVE  /\ Len(Filtered(s, kept)) = Len(s) /\ Filtered(s, kept) \in Seq(S)
         /\ \A i \in 1..Len(s) : Filtered(s, kept)[i] = s[i]
<1>1. Len(s) \in Nat /\ \A i \in 1..Len(s) : s[i] \in S
  BY LenProperties, ElementOfSeq
<1>2. PICK c : /\ c = [i \in 0..Len(s) |->
                         IF i = 0 THEN <<>>
                         ELSE IF i \in kept THEN Append(c[i - 1], s[i]) ELSE c[i - 1]]
               /\ Filtered(s, kept) = c[Len(s)]
  BY <1>1, FilteredRecursion
<1> DEFINE Good(i) == c[i] \in Seq(S) /\ Len(c[i]) = i /\ \A k \in 1..i : c[i][k] = s[k]
           N == {i \in Nat : Good(i)}
<1>3. 0 \in N
  <2>1. c[0] = <<>>
    BY <1>1, <1>2
  <2>2. Good(0)
    BY <2>1, EmptySeq
  <2> HIDE DEF Good
  <2>3. QED
    BY <2>2
<1>4. ASSUME NEW i \in 0..(Len(s) - 1), i \in N PROVE i + 1 \in N
  <2> HIDE DEF Good
  <2>1. Good(i) /\ i \in Nat /\ i + 1 \in 1..Len(s) /\ s[i + 1] \in S
    BY <1>1, <1>4
  <2> USE DEF Good
  <2>2. c[i + 1] = Append(c[i], s[i + 1])
    <3>1. i + 1 \in 0..Len(s) /\ i + 1 # 0 /\ (i + 1) - 1 = i
      BY <1>1, <2>1
    <3>2. QED
      BY <1>2, <2>1, <3>1
  <2> DEFINE d == Append(c[i], s[i + 1])
  <2>3. /\ d \in Seq(S) /\ Len(d) = Len(c[i]) + 1 /\ d[Len(c[i]) + 1] = s[i + 1]
        /\ \A k \in 1..Len(c[i]) : d[k] = c[i][k]
    BY <2>1, AppendProperties
  <2> HIDE DEF d
  <2>4. \A k \in 1..(i + 1) : d[k] = s[k]
    <3>1. \A k \in 1..(i + 1) : k \in 1..i \/ k = i + 1
      BY <2>1
    <3>2. QED
      BY <2>1, <2>3, <3>1
  <2>5. Good(i + 1)
    BY <2>1, <2>2, <2>3, <2>4 DEF d
  <2> HIDE DEF Good
  <2>6. i + 1 \in Nat
    BY <2>1
  <2>7. QED
    BY <2>5, <2>6
<1> HIDE DEF N
<1>5. \A i \in 0..Len(s) : i \in N
  <2>1. \A i \in 0..(Len(s) - 1) : i \in N => i + 1 \in N
    BY <1>4
  <2>2. QED
    BY <1>1, <1>3, <2>1, InductionUpTo
<1>6. Good(Len(s))
  <2>1. Len(s) \in N
    BY <1>1, <1>5
  <2>2. QED
    BY <2>1 DEF N
<1>7. QED
  BY <1>2, <1>6

\* Now is the latest of the recording times.
LEMMA NowIsLatest == Now \in Times /\ Now \in Nat /\ \A t \in Times : t \in Nat /\ t <= Now
<1>1. IsFiniteSet(Times) /\ Times \subseteq Nat /\ Times # {}
  BY AgentAssumption DEF Time
<1>2. PICK before : before = {p \in Times \X Times : p[1] < p[2]}
  OBVIOUS
<1>3. PICK s : Sorts(s, Times, before)
  BY <1>1, <1>2, AscendingSorts
<1>4. s \in Seq(Times) /\ Len(s) \in Nat /\ \A k \in 1..Len(s) : s[k] \in Times
  BY <1>3, LenProperties, ElementOfSeq DEF Sorts
<1>5. 1..Len(s) # {}
  BY <1>1, <1>3 DEF Sorts
<1>6. PICK k \in 1..Len(s) : \A j \in 1..Len(s) : s[j] <= s[k]
  BY <1>1, <1>4, <1>5, GreatestAmong
<1>7. \A t \in Times : s[k] >= t
  <2>1. \A t \in Times : \E j \in 1..Len(s) : s[j] = t
    BY <1>3 DEF Sorts
  <2>2. \A j \in 1..Len(s) : s[j] \in Nat
    BY <1>1, <1>4
  <2>3. QED
    BY <1>6, <2>1, <2>2
<1>8. \E u \in Times : \A t \in Times : u >= t
  BY <1>4, <1>7
<1>9. Now \in Times /\ \A t \in Times : Now >= t
  BY <1>8, Zenon DEF Now, Max
<1>10. QED
  BY <1>1, <1>9

\* The events of a log are recorded at the recording times.
Timed(events, n) == \A i \in 1..n : events[i].recorded_at \in Times

\* What the log says of a known entity.
NewestOf(p, e) == VisibleRevision(p.nodes[p.node_lookup[e] + 1], Now)

NodeContent(p, events, e) == events[NewestOf(p, e).position + 1].payload.node

\* The catalog of a projection: one node for every entity it knows.
CatalogOf(nodes, p, events) ==
  /\ Catalogued(nodes)
  /\ \A i \in DOMAIN nodes :
       p.node_lookup[nodes[i].id] # None /\ nodes[i] = NodeContent(p, events, nodes[i].id)
  /\ \A i, j \in DOMAIN nodes : nodes[i].id = nodes[j].id => i = j
  /\ \A e \in Entities : p.node_lookup[e] # None => Present(nodes, e)

\* Every history has a newest revision; its event is in the log.
LEMMA HistoryWritten ==
  ASSUME NEW p, NEW events, NEW n, Tracks(p, events, n), Timed(events, n), NEW i \in 1..Len(p.nodes)
  PROVE  LET r == VisibleRevision(p.nodes[i], Now)
         IN  /\ r # None /\ RevisionWritten(r, events, n)
             /\ r.id = p.nodes[i][1].id /\ r.id \in Entities
<1>1. p.nodes \in Seq(Seq(NodeRevision)) /\ NodesIndexed(p.nodes, p.node_lookup)
  BY ProjectionFields DEF Tracks, Sound
<1>2. PICK h : h = p.nodes[i]
  OBVIOUS
<1>3. h \in Seq(NodeRevision) /\ Len(h) >= 1 /\ Len(h) \in Nat
  BY <1>1, <1>2, ElementOfSeq, LenProperties DEF NodesIndexed
<1>4. \A k \in 1..Len(h) : RevisionWritten(h[k], events, n) /\ h[k].id = h[1].id /\ h[k] \in NodeRevision
  BY <1>1, <1>2, <1>3, ElementOfSeq DEF Tracks, HistoriesWritten, NodesIndexed
<1>5. h[1].recorded_at <= Now
  <2>1. 1 \in 1..Len(h)
    BY <1>3
  <2>2. RevisionWritten(h[1], events, n)
    BY <1>4, <2>1
  <2>3. h[1].recorded_at \in Times
    BY <2>2 DEF RevisionWritten, Wrote, Timed
  <2>4. QED
    BY <2>3, NowIsLatest
<1>6. VisibleRevision(h, Now) # None
  <2>1. 1 \in DOMAIN h
    BY <1>3, LenProperties
  <2>2. KnownAt(h, Now) # {}
    BY <1>5, <2>1 DEF KnownAt
  <2>3. PICK k : Newest(h, Now, k)
    BY <1>3, <1>5, NowIsLatest, NewestExists
  <2>4. k \in NewestAt(h, Now)
    BY <2>3, <1>3, LenProperties DEF Newest, NewestAt, KnownAt
  <2>5. PICK c : c = CHOOSE x \in NewestAt(h, Now) : TRUE
    OBVIOUS
  <2>6. c \in NewestAt(h, Now)
    BY <2>4, <2>5, Zenon
  <2>7. c \in 1..Len(h)
    BY <1>3, <2>6, LenProperties DEF NewestAt, KnownAt
  <2>8. VisibleRevision(h, Now) = h[c]
    BY <2>2, <2>5, VisibleRevisionChoice, Zenon
  <2>9. QED
    BY <1>4, <2>7, <2>8, ProjectionAssumption
<1>7. PICK k \in 1..Len(h) : VisibleRevision(h, Now) = h[k]
  BY <1>3, <1>6, NowIsLatest, VisibleIsNewest
<1>8. h[k].id \in Entities
  BY <1>4 DEF NodeRevision
<1>9. QED
  BY <1>2, <1>4, <1>6, <1>7, <1>8


\* from_view takes the newest revision of every known entity.
LEMMA CatalogTaken ==
  ASSUME NEW p, NEW events, NEW n, Tracks(p, events, n), Timed(events, n)
  PROVE  CatalogOf(Catalog(p, events), p, events)
<1>1. PICK nodes, lookup : nodes = p.nodes /\ lookup = p.node_lookup
  OBVIOUS
<1>2. /\ Sound(p) /\ nodes \in Seq(Seq(NodeRevision)) /\ NodesIndexed(nodes, lookup)
      /\ lookup \in [Entities -> Nat \cup {None}] /\ Len(nodes) \in Nat
  BY <1>1, ProjectionFields, LenProperties DEF Tracks, Sound
<1>3. PICK v : v = Revisions(p, Now)
  OBVIOUS
<1>4. PICK S : /\ v \in Seq(S) /\ Len(v) = Len(nodes)
               /\ \A i \in 1..Len(nodes) : v[i] = VisibleRevision(nodes[i], Now)
  BY <1>1, <1>2, <1>3, NowIsLatest, NodesOfAView
<1>5. \A i \in 1..Len(nodes) : /\ v[i] # None /\ RevisionWritten(v[i], events, n)
                               /\ v[i].id = nodes[i][1].id /\ v[i].id \in Entities
  BY <1>1, <1>4, HistoryWritten
<1>6. PICK out : out = VisibleNodes(p, Now)
  OBVIOUS
<1>7. /\ Len(out) = Len(nodes) /\ out \in Seq(S)
      /\ \A i \in 1..Len(nodes) : out[i] = v[i]
  <2>1. PICK kept : kept = {i \in DOMAIN v : v[i] # None}
    OBVIOUS
  <2>2. out = Filtered(v, kept)
    BY <1>3, <1>6, <2>1, Zenon DEF VisibleNodes, Revisions
  <2>3. \A i \in 1..Len(v) : i \in kept
    BY <1>4, <1>5, <2>1, LenProperties
  <2>4. QED
    BY <1>4, <2>2, <2>3, FilteredAll
<1>8. PICK c : c = Catalog(p, events)
  OBVIOUS
<1>9. c = [k \in DOMAIN out |-> events[out[k].position + 1].payload.node]
  BY <1>6, <1>8, Zenon DEF Catalog, ViewRef, Content
<1>10. DOMAIN out = 1..Len(nodes)
  BY <1>7, LenProperties
<1>11. \A i \in 1..Len(nodes) : /\ c[i] = events[v[i].position + 1].payload.node
                                /\ c[i].id = v[i].id
  <2> SUFFICES ASSUME NEW i \in 1..Len(nodes)
               PROVE  c[i] = events[v[i].position + 1].payload.node /\ c[i].id = v[i].id
    OBVIOUS
  <2>1. c[i] = events[v[i].position + 1].payload.node
    BY <1>7, <1>9, <1>10
  <2>2. Wrote(events[v[i].position + 1], v[i])
    BY <1>5 DEF RevisionWritten
  <2>3. QED
    BY <2>1, <2>2 DEF Wrote
<1>12. DOMAIN c = 1..Len(nodes)
  BY <1>9, <1>10
<1>13. c \in Seq(ToSet(c)) /\ Len(c) = Len(nodes)
  <2>1. \A i \in 1..Len(nodes) : c[i] \in ToSet(c)
    BY <1>12 DEF ToSet
  <2>2. c \in [1..Len(nodes) -> ToSet(c)]
    BY <1>9, <1>10, <2>1
  <2>3. QED
    BY <1>2, <2>2, FunctionIsSeq
<1>14. Catalogued(c)
  BY <1>5, <1>11, <1>13 DEF Catalogued
<1>15. \A i \in 1..Len(nodes) : lookup[c[i].id] = i - 1 /\ c[i].id \in Entities
  <2>1. \A i \in 1..Len(nodes) : lookup[nodes[i][1].id] = i - 1
    BY <1>2 DEF NodesIndexed
  <2>2. \A i \in 1..Len(nodes) : c[i].id = nodes[i][1].id /\ c[i].id \in Entities
    BY <1>5, <1>11
  <2>3. QED
    BY <2>1, <2>2
<1>16. ASSUME NEW i \in DOMAIN c
       PROVE  lookup[c[i].id] # None /\ c[i] = NodeContent(p, events, c[i].id)
  <2>1. i \in 1..Len(nodes) /\ lookup[c[i].id] = i - 1 /\ lookup[c[i].id] + 1 = i
    BY <1>12, <1>15
  <2>2. lookup[c[i].id] # None
    BY <2>1, NoneAssumption
  <2>3. NewestOf(p, c[i].id) = v[i]
    BY <1>1, <1>4, <2>1 DEF NewestOf
  <2>4. QED
    BY <1>11, <2>1, <2>2, <2>3 DEF NodeContent
<1>17. ASSUME NEW i \in DOMAIN c, NEW j \in DOMAIN c, c[i].id = c[j].id PROVE i = j
  <2>1. i \in 1..Len(nodes) /\ j \in 1..Len(nodes) /\ i - 1 = j - 1
    BY <1>12, <1>15, <1>17
  <2>2. QED
    BY <2>1
<1>18. ASSUME NEW e \in Entities, lookup[e] # None PROVE Present(c, e)
  <2>1. PICK i : i = lookup[e] + 1
    OBVIOUS
  <2>2. i \in 1..Len(nodes) /\ nodes[i][1].id = e
    BY <1>2, <1>18, <2>1 DEF NodesIndexed
  <2>3. c[i].id = e
    BY <1>5, <1>11, <2>2
  <2>4. QED
    BY <1>12, <2>2, <2>3 DEF Present
<1>19. CatalogOf(c, p, events)
  BY <1>1, <1>14, <1>16, <1>17, <1>18 DEF CatalogOf
<1>20. QED
  BY <1>8, <1>19


-----------------------------------------------------------------------------
\* Commits.

Entry(e) == \E t \in Times : NodeEntry(e, t) \/ FactEntry(e, t)

\* A log of such events, all of them stored, that the projection tracks.
Recorded(events, p, known) ==
  /\ events \in Seq(ToSet(events))
  /\ \A i \in 1..Len(events) : Entry(events[i]) /\ events[i].id \in known
  /\ Tracks(p, events, Len(events))

\* What a batch leaves behind.
Committed(events, p, batch, all, q, known, S) ==
  /\ Len(all) = Len(events) + Len(batch)
  /\ \A i \in 1..Len(events) : all[i] = events[i]
  /\ Appended(all, Len(events), batch)
  /\ Recorded(all, q, known)
  /\ Following(p, q, all, Len(events), Len(batch), S)

\* A plan of any linker whose nodes the projection knows, and whose events are
\* new to the store, is applied to its last event.
LEMMA PlanCommits ==
  ASSUME NEW events, NEW p, NEW known, Recorded(events, p, known),
         NEW nodes, Catalogued(nodes), Backed(p, nodes),
         NEW t \in Times, NEW batch, NEW S, NEW m, PlannedBy(batch, nodes, t, S, m),
         UniqueIds(known, IdsOf(batch))
  PROVE  Committed(events, p, batch, events \o batch, Applied(p, Len(events), batch),
                   known \cup {batch[k].id : k \in 1..Len(batch)}, S)
<1>1. PICK n, l : n = Len(events) /\ l = Len(batch)
  OBVIOUS
<1>2. PICK T : T = ToSet(events) \cup ToSet(batch)
  OBVIOUS
<1>3. events \in Seq(T) /\ batch \in Seq(T) /\ n \in Nat /\ l \in Nat
  <2>1. events \in Seq(ToSet(events)) /\ batch \in Seq(ToSet(batch))
    BY DEF Recorded, PlannedBy
  <2>2. ToSet(events) \subseteq T /\ ToSet(batch) \subseteq T
    BY <1>2
  <2>3. QED
    BY <1>1, <2>1, <2>2, LenProperties
<1>4. PICK all : all = events \o batch
  OBVIOUS
<1>5. /\ all \in Seq(T) /\ Len(all) = n + l
      /\ \A i \in 1..(n + l) : all[i] = IF i <= n THEN events[i] ELSE batch[i - n]
  BY <1>1, <1>3, <1>4, ConcatProperties
<1>6. \A i \in 1..n : all[i] = events[i]
  <2>1. \A i \in 1..n : i \in 1..(n + l) /\ i <= n
    BY <1>3
  <2>2. QED
    BY <1>5, <2>1
<1>7. \A k \in 1..l : all[n + k] = batch[k]
  <2>1. \A k \in 1..l : n + k \in 1..(n + l) /\ ~(n + k <= n) /\ (n + k) - n = k
    BY <1>3
  <2>2. QED
    BY <1>5, <2>1
<1>8. Appended(all, n, batch)
  BY <1>1, <1>7 DEF Appended
<1>9. \A i \in 1..(n + l) : i \in 1..n \/ \E k \in 1..l : i = n + k
  <2> SUFFICES ASSUME NEW i \in 1..(n + l), i \notin 1..n PROVE \E k \in 1..l : i = n + k
    OBVIOUS
  <2>1. i - n \in 1..l /\ i = n + (i - n)
    BY <1>3
  <2>2. QED
    BY <2>1
<1>10. \A i \in 1..n : Entry(events[i]) /\ events[i].id \in known
  BY <1>1 DEF Recorded
<1>11. \A k \in 1..l : Entry(batch[k])
  <2>1. m \in 0..l
    BY <1>1 DEF PlannedBy
  <2>2. \A k \in 1..l : k \in 1..m \/ k \in (m + 1)..l
    BY <1>3, <2>1
  <2>3. QED
    BY <1>1, <2>2 DEF PlannedBy, Entry
<1>12. \A i \in 1..(n + l) : Entry(all[i])
  BY <1>6, <1>7, <1>9, <1>10, <1>11
<1>13. \A k \in 1..l : batch[k].id \notin known /\ \A j \in 1..(k - 1) : batch[j].id # batch[k].id
  <2>1. PICK ids : ids = IdsOf(batch)
    OBVIOUS
  <2>2. DOMAIN batch = 1..l
    BY <1>1, <1>3, LenProperties
  <2>3. DOMAIN ids = 1..l /\ \A k \in 1..l : ids[k] = batch[k].id
    BY <2>1, <2>2 DEF IdsOf
  <2>4. \A k \in 1..l : ids[k] \notin known /\ \A j \in 1..(k - 1) : ids[j] # ids[k]
    BY <2>1, <2>3 DEF UniqueIds
  <2>5. \A k \in 1..l : \A j \in 1..(k - 1) : j \in 1..l
    BY <1>3
  <2>6. QED
    BY <2>3, <2>4, <2>5
<1>14. FactsOnce(all, n, l)
  <2> SUFFICES ASSUME NEW k \in (n + 1)..(n + l), NEW i \in 1..(k - 1),
                      all[k].payload.kind = "FactRecorded", all[i].payload.kind = "FactRecorded",
                      all[i].payload.fact.id = all[k].payload.fact.id
               PROVE  FALSE
    BY DEF FactsOnce
  <2>1. k \in 1..(n + l) /\ i \in 1..(n + l) /\ k - n \in 1..l /\ k = n + (k - n)
    BY <1>3
  <2>2. ASSUME NEW e, Entry(e), e.payload.kind = "FactRecorded"
        PROVE  e.id = <<"fact", e.payload.fact.id[1], e.payload.fact.id>>
    BY <2>2 DEF Entry, NodeEntry, FactEntry
  <2>3. all[i].id = all[k].id
    <3>1. Entry(all[i]) /\ Entry(all[k])
      BY <1>12, <2>1
    <3>2. QED
      BY <2>2, <3>1
  <2>4. PICK j \in 1..l : j = k - n
    BY <2>1
  <2>5. all[k] = batch[j]
    BY <1>7, <2>1, <2>4
  <2>6. CASE i \in 1..n
    BY <1>6, <1>10, <1>13, <2>3, <2>5, <2>6
  <2>7. CASE i \notin 1..n
    <3>1. PICK h \in 1..l : i = n + h
      BY <1>9, <2>1, <2>7
    <3>2. h \in 1..(j - 1)
      BY <1>3, <2>4, <3>1
    <3>3. QED
      BY <1>7, <1>13, <2>3, <2>5, <3>1, <3>2
  <2>8. QED
    BY <2>6, <2>7
<1>15. Tracks(p, all, n)
  BY <1>1, <1>3, <1>6, TracksExtends DEF Recorded
<1>16. PICK q : q = Applied(p, n, batch)
  OBVIOUS
<1>17. Following(p, q, all, n, l, S)
  BY <1>1, <1>3, <1>8, <1>14, <1>15, <1>16, PlanFollows
<1>18. PICK ids : ids = known \cup {batch[k].id : k \in 1..l}
  OBVIOUS
<1>19. all \in Seq(ToSet(all))
  <2>1. DOMAIN all = 1..(n + l) /\ n + l \in Nat
    BY <1>3, <1>5, LenProperties
  <2>2. \A i \in 1..(n + l) : all[i] \in ToSet(all)
    BY <2>1 DEF ToSet
  <2>3. all \in [1..(n + l) -> ToSet(all)]
    BY <1>5, <2>1, <2>2
  <2>4. QED
    BY <2>1, <2>3, FunctionIsSeq
<1>20. \A i \in 1..(n + l) : all[i].id \in ids
  BY <1>6, <1>7, <1>9, <1>10, <1>18
<1>21. Recorded(all, q, ids)
  BY <1>5, <1>12, <1>17, <1>19, <1>20 DEF Recorded, Following
<1>22. Committed(events, p, batch, all, q, ids, S)
  BY <1>1, <1>5, <1>6, <1>8, <1>17, <1>21 DEF Committed
<1>23. QED
  BY <1>1, <1>4, <1>16, <1>18, <1>22


-----------------------------------------------------------------------------
\* What a node deserves.

\* The scores that speak for a node.
Bases(node, mention) == {base \in Int : \E method : Speaks(node, mention, base, method)}

\* Deserved counts exactly what the lookups find.
LEMMA DeservedFrom ==
  ASSUME NEW node, node.id \in Entities, NEW mention, MentionTyped(mention), NEW input
  PROVE  Deserved(node, mention, input)
           = IF ~SameText(node.kind, mention.kind) \/ Bases(node, mention) = {} THEN -1
             ELSE Max({MatchScore(base, node, mention, input) : base \in Bases(node, mention)})
<1> DEFINE b1 == {base \in {9000} : SameText(node.label, mention.label)}
           b2 == {base \in {8500} : \E a \in node.aliases, t \in ToSet(mention.aliases) \cup {mention.label} :
                                      SameText(a, t)}
           b3 == {base \in {9700} : \E e \in node.external, f \in ToSet(mention.external) :
                                      e[1] = f[1] /\ ExactKey[e[2]] = ExactKey[f[2]]}
           b4 == {h.confidence : h \in {g \in ToSet(mention.hints) : g.entity_id = node.id}}
           bases == b1 \cup b2 \cup b3 \cup b4
<1>1. PICK names, exts, hints :
        /\ names = mention.aliases /\ exts = mention.external /\ hints = mention.hints
  OBVIOUS
<1>2. \A base : base \in b1 <=> base = 9000 /\ SameText(node.label, mention.label)
  OBVIOUS
<1>3. \A base : base \in b2 <=>
        base = 8500 /\ \E a \in node.aliases, t \in ToSet(names) \cup {mention.label} : SameText(a, t)
  BY <1>1
<1>4. \A base : base \in b3 <=> base = 9700 /\ \E e \in node.external, f \in ToSet(exts) :
                                                 e[1] = f[1] /\ ExactKey[e[2]] = ExactKey[f[2]]
  BY <1>1
<1>5. \A base : base \in b4 <=> \E h \in ToSet(hints) : h.entity_id = node.id /\ base = h.confidence
  BY <1>1
<1>6. \A base : base \in bases <=> base \in b1 \/ base \in b2 \/ base \in b3 \/ base \in b4
  OBVIOUS
<1>7. Deserved(node, mention, input)
        = IF ~SameText(node.kind, mention.kind) \/ bases = {} THEN -1
          ELSE Max({MatchScore(base, node, mention, input) : base \in bases})
  BY DEF Deserved, MatchScore
<1> HIDE DEF b1, b2, b3, b4, bases
<1>8. ASSUME NEW base
      PROVE  /\ base \in b1 <=> base = 9000 /\ SameText(node.label, mention.label)
             /\ base \in b2 <=> base = 8500 /\ (\/ \E a \in node.aliases : SameText(a, mention.label)
                                                \/ \E k \in DOMAIN names, a \in node.aliases : SameText(a, names[k]))
             /\ base \in b3 <=> base = 9700 /\ \E k \in DOMAIN exts, e \in node.external :
                                                 e[1] = exts[k][1] /\ ExactKey[e[2]] = ExactKey[exts[k][2]]
             /\ base \in b4 <=> \E k \in DOMAIN hints : hints[k].entity_id = node.id /\ base = hints[k].confidence
  <2>1. \A s : \A x : x \in ToSet(s) <=> \E k \in DOMAIN s : x = s[k]
    BY DEF ToSet
  <2>2. base \in b2 <=> base = 8500 /\ (\/ \E a \in node.aliases : SameText(a, mention.label)
                                        \/ \E k \in DOMAIN names, a \in node.aliases : SameText(a, names[k]))
    BY <1>3, <2>1
  <2>3. base \in b3 <=> base = 9700 /\ \E k \in DOMAIN exts, e \in node.external :
                                          e[1] = exts[k][1] /\ ExactKey[e[2]] = ExactKey[exts[k][2]]
    BY <1>4, <2>1
  <2>4. base \in b4 <=> \E k \in DOMAIN hints : hints[k].entity_id = node.id /\ base = hints[k].confidence
    BY <1>5, <2>1
  <2>5. QED
    BY <1>2, <2>2, <2>3, <2>4
<1>9. \A base \in b4 : base \in Int
  <2>1. hints \in Seq([entity_id: Entities, confidence: Confidence])
    BY <1>1 DEF MentionTyped
  <2>2. \A k \in DOMAIN hints : hints[k] \in [entity_id: Entities, confidence: Confidence]
    BY <2>1, ElementOfSeq, LenProperties
  <2>3. \A k \in DOMAIN hints : hints[k].confidence \in Confidence
    BY <2>2
  <2>4. QED
    BY <1>8, <2>3, ConfidenceInt
<1>10. \A base \in bases : base \in Int
  BY <1>6, <1>8, <1>9
<1>11. ASSUME NEW base
       PROVE  base \in bases <=> \E method : Speaks(node, mention, base, method)
  <2>1. ASSUME base \in bases PROVE \E method : Speaks(node, mention, base, method)
    <3>1. CASE base \in b1
      <4>1. SpeaksName(node, mention.label, base, "Label")
        BY <1>8, <3>1 DEF SpeaksName
      <4>2. QED
        BY <4>1 DEF Speaks
    <3>2. CASE base \in b2
      <4>1. SpeaksName(node, mention.label, base, "Alias") \/ SpeaksAlias(node, names, base, "Alias")
        BY <1>8, <3>2 DEF SpeaksName, SpeaksAlias
      <4>2. QED
        BY <1>1, <4>1 DEF Speaks
    <3>3. CASE base \in b3
      <4>1. SpeaksExternal(node, exts, base, "ExternalId")
        BY <1>8, <3>3 DEF SpeaksExternal
      <4>2. QED
        BY <1>1, <4>1 DEF Speaks
    <3>4. CASE base \in b4
      <4>1. SpeaksHint(node, hints, base, "ProviderHint")
        BY <1>8, <3>4 DEF SpeaksHint
      <4>2. QED
        BY <1>1, <4>1 DEF Speaks
    <3>5. QED
      BY <1>6, <2>1, <3>1, <3>2, <3>3, <3>4
  <2>2. ASSUME NEW method, Speaks(node, mention, base, method) PROVE base \in bases
    <3>1. CASE SpeaksName(node, mention.label, base, method)
      BY <1>6, <1>8, <3>1 DEF SpeaksName
    <3>2. CASE SpeaksAlias(node, names, base, method)
      BY <1>6, <1>8, <3>2 DEF SpeaksAlias
    <3>3. CASE SpeaksExternal(node, exts, base, method)
      BY <1>6, <1>8, <3>3 DEF SpeaksExternal
    <3>4. CASE SpeaksHint(node, hints, base, method)
      BY <1>6, <1>8, <3>4 DEF SpeaksHint
    <3>5. QED
      BY <1>1, <2>2, <3>1, <3>2, <3>3, <3>4 DEF Speaks
  <2>3. QED
    BY <2>1, <2>2
<1>12. bases = Bases(node, mention)
  BY <1>10, <1>11 DEF Bases
<1>13. QED
  BY <1>7, <1>12


\* The scores of a linker's nodes, by their best matches.
Rated(score, nodes, B) ==
  /\ DOMAIN score = DOMAIN nodes
  /\ \A i \in DOMAIN nodes : score[i] \in Confidence \cup {-1}
  /\ \A b \in B : \E i \in DOMAIN nodes : nodes[i].id = b.entity_id /\ score[i] = b.score
  /\ \A i \in DOMAIN nodes : score[i] # -1 =>
       \E b \in B : b.entity_id = nodes[i].id /\ b.score = score[i]

DistinctIds(nodes) == \A i, j \in DOMAIN nodes : nodes[i].id = nodes[j].id => i = j

\* A greatest confidence.
LEMMA MaxConfidence ==
  ASSUME NEW V, V \subseteq Confidence, V # {}
  PROVE  Max(V) \in V /\ \A v \in V : v <= Max(V)
<1>1. \A v \in V : v \in Nat /\ v <= 10000
  <2>1. \A c \in Confidence : c \in Nat /\ c <= 10000
    BY DEF Confidence
  <2>2. QED
    BY <2>1
<1>2. \E v \in V : \A w \in V : w <= v
  <2>1. PICK b \in Nat : b = 10000
    OBVIOUS
  <2>2. V \subseteq Nat /\ \A v \in V : v <= b
    BY <1>1, <2>1
  <2>3. QED
    BY <2>2, GreatestElement
<1>3. \E v \in V : \A w \in V : v >= w
  BY <1>1, <1>2
<1>4. Max(V) \in V /\ \A w \in V : Max(V) >= w
  BY <1>3, Zenon DEF Max
<1>5. QED
  BY <1>1, <1>4

\* What a node deserves is the score of its best match, if it has any.
LEMMA DeservedIsBest ==
  ASSUME NEW node, node.id \in Entities, NEW mention, MentionTyped(mention), NEW input
  PROVE  LET d == Deserved(node, mention, input)
         IN  /\ d \in Confidence \cup {-1}
             /\ \A base, method, c : MatchOf(node, mention, input, base, method, c) =>
                  d # -1 /\ c.score <= d
             /\ d # -1 => \E base, method, c :
                  MatchOf(node, mention, input, base, method, c) /\ c.score = d
<1>1. PICK d : d = Deserved(node, mention, input)
  OBVIOUS
<1> DEFINE V == {MatchScore(base, node, mention, input) : base \in Bases(node, mention)}
<1>2. d = IF ~SameText(node.kind, mention.kind) \/ Bases(node, mention) = {} THEN -1 ELSE Max(V)
  BY <1>1, DeservedFrom
<1>3. ASSUME NEW base, NEW method, SameText(node.kind, mention.kind), Speaks(node, mention, base, method)
      PROVE  \E c : /\ MatchOf(node, mention, input, base, method, c)
                    /\ c.score = MatchScore(base, node, mention, input)
                    /\ c.score \in Confidence /\ base \in Bases(node, mention)
  <2>1. PICK c : c = Candidate(node, base, method, mention, input)
    OBVIOUS
  <2>2. MatchOf(node, mention, input, base, method, c)
    BY <1>3, <2>1 DEF MatchOf
  <2>3. base \in Int /\ c \in Match /\ c.score = MatchScore(base, node, mention, input)
    BY <2>2, MatchFields
  <2>4. base \in Bases(node, mention)
    BY <1>3, <2>3 DEF Bases
  <2>5. c.score \in Confidence
    BY <2>3 DEF Match
  <2>6. QED
    BY <2>2, <2>3, <2>4, <2>5
<1>4. SameText(node.kind, mention.kind) => V \subseteq Confidence
  BY <1>3 DEF Bases
<1>5. Bases(node, mention) # {} => V # {}
  OBVIOUS
<1>6. CASE ~SameText(node.kind, mention.kind) \/ Bases(node, mention) = {}
  <2>1. d = -1
    BY <1>2, <1>6
  <2>2. \A base, method, c : ~MatchOf(node, mention, input, base, method, c)
    BY <1>3, <1>6 DEF MatchOf
  <2>3. QED
    BY <1>1, <2>1, <2>2
<1>7. CASE SameText(node.kind, mention.kind) /\ Bases(node, mention) # {}
  <2>1. d = Max(V)
    BY <1>2, <1>7
  <2>2. V \subseteq Confidence /\ V # {}
    BY <1>4, <1>5, <1>7
  <2> HIDE DEF V
  <2>3. d \in V /\ \A v \in V : v <= d
    BY <2>1, <2>2, MaxConfidence
  <2>4. d \in Confidence /\ d # -1
    <3>1. d \in Confidence
      BY <2>2, <2>3
    <3>2. QED
      BY <3>1, ConfidenceInt
  <2>5. ASSUME NEW base, NEW method, NEW c, MatchOf(node, mention, input, base, method, c)
        PROVE  c.score <= d
    <3>1. base \in Int /\ c.score = MatchScore(base, node, mention, input)
      BY <2>5, MatchFields
    <3>2. base \in Bases(node, mention)
      BY <2>5, <3>1 DEF Bases, MatchOf
    <3>3. c.score \in V
      BY <3>1, <3>2 DEF V
    <3>4. QED
      BY <2>3, <3>3
  <2>6. PICK base \in Bases(node, mention) : d = MatchScore(base, node, mention, input)
    BY <2>3 DEF V
  <2>7. PICK method : Speaks(node, mention, base, method)
    BY DEF Bases
  <2>8. PICK c : MatchOf(node, mention, input, base, method, c) /\ c.score = d
    BY <1>3, <1>7, <2>6, <2>7
  <2>9. \E b, m, e : MatchOf(node, mention, input, b, m, e) /\ e.score = d
    BY <2>8
  <2>10. QED
    BY <1>1, <2>4, <2>5, <2>9
<1>8. QED
  BY <1>6, <1>7

\* The linker rates its nodes as they deserve.
LEMMA NodesRated ==
  ASSUME NEW nodes, Catalogued(nodes), DistinctIds(nodes), NEW mention, MentionTyped(mention),
         NEW input, NEW B,
         BestOf(B, Matches(nodes, mention, input), Len(Matches(nodes, mention, input))),
         NEW score, score = [i \in DOMAIN nodes |-> Deserved(nodes[i], mention, input)]
  PROVE  Rated(score, nodes, B)
<1>1. \A i \in DOMAIN nodes : nodes[i].id \in Entities /\ score[i] = Deserved(nodes[i], mention, input)
  BY LenProperties DEF Catalogued
<1>2. \A i \in DOMAIN nodes :
        /\ score[i] \in Confidence \cup {-1}
        /\ \A base, method, c : MatchOf(nodes[i], mention, input, base, method, c) =>
             score[i] # -1 /\ c.score <= score[i]
        /\ score[i] # -1 => \E base, method, c :
             MatchOf(nodes[i], mention, input, base, method, c) /\ c.score = score[i]
  <2> SUFFICES ASSUME NEW i \in DOMAIN nodes
               PROVE  /\ score[i] \in Confidence \cup {-1}
                      /\ \A base, method, c : MatchOf(nodes[i], mention, input, base, method, c) =>
                           score[i] # -1 /\ c.score <= score[i]
                      /\ score[i] # -1 => \E base, method, c :
                           MatchOf(nodes[i], mention, input, base, method, c) /\ c.score = score[i]
    OBVIOUS
  <2>1. PICK node : node = nodes[i]
    OBVIOUS
  <2>2. node.id \in Entities /\ score[i] = Deserved(node, mention, input)
    BY <1>1, <2>1
  <2>3. QED
    BY <2>1, <2>2, DeservedIsBest
<1>3. \A c \in Confidence \cup {-1} : c \in Int
  BY ConfidenceInt
<1>4. ASSUME NEW b \in B, NEW i \in DOMAIN nodes, nodes[i].id = b.entity_id
      PROVE  score[i] = b.score
  <2>1. PICK j, base, method : j \in DOMAIN nodes /\ MatchOf(nodes[j], mention, input, base, method, b)
    BY BestOfNodes
  <2>2. b \in Match /\ b.entity_id = nodes[j].id
    BY <1>1, <2>1, MatchFields
  <2>3. i = j
    BY <1>4, <2>1, <2>2 DEF DistinctIds
  <2>4. score[i] # -1 /\ b.score <= score[i]
    BY <1>2, <2>1, <2>3
  <2>5. PICK base2, method2, c : MatchOf(nodes[i], mention, input, base2, method2, c) /\ c.score = score[i]
    BY <1>2, <2>4
  <2>6. c \in Match /\ c.entity_id = nodes[i].id
    BY <1>1, <2>5, MatchFields
  <2>7. PICK d \in B : d.entity_id = c.entity_id /\ d.score >= c.score
    BY <2>5, NodesHaveBest
  <2>8. d = b
    BY <1>4, <2>6, <2>7 DEF BestOf
  <2>9. b.score \in Confidence
    BY <2>2 DEF Match
  <2>10. b.score \in Int /\ score[i] \in Int
    BY <1>2, <1>3, <2>9
  <2>11. QED
    BY <2>4, <2>5, <2>7, <2>8, <2>10
<1>5. ASSUME NEW b \in B PROVE \E i \in DOMAIN nodes : nodes[i].id = b.entity_id /\ score[i] = b.score
  <2>1. PICK j, base, method : j \in DOMAIN nodes /\ MatchOf(nodes[j], mention, input, base, method, b)
    BY BestOfNodes
  <2>2. b.entity_id = nodes[j].id
    BY <1>1, <2>1, MatchFields
  <2>3. QED
    BY <1>4, <2>1, <2>2
<1>6. ASSUME NEW i \in DOMAIN nodes, score[i] # -1
      PROVE  \E b \in B : b.entity_id = nodes[i].id /\ b.score = score[i]
  <2>1. PICK base, method, c : MatchOf(nodes[i], mention, input, base, method, c)
    BY <1>2, <1>6
  <2>2. c.entity_id = nodes[i].id
    BY <1>1, <2>1, MatchFields
  <2>3. PICK b \in B : b.entity_id = c.entity_id
    BY <2>1, NodesHaveBest
  <2>4. QED
    BY <1>4, <2>2, <2>3
<1>7. DOMAIN score = DOMAIN nodes
  OBVIOUS
<1>8. QED
  BY <1>2, <1>5, <1>6, <1>7 DEF Rated


\* A node that leads the others.
Tops(k, score, policy) ==
  /\ score[k] >= policy.minimum_score
  /\ \A j \in DOMAIN score \ {k} : score[j] >= 0 =>
       /\ score[k] - score[j] >= policy.minimum_margin
       /\ score[k] = score[j] => linker[k].id < linker[j].id

Reaching(score, policy) == {k \in DOMAIN score : score[k] >= policy.minimum_score}

\* Only the node of the leading match can lead, and it does unless another
\* match comes too close.
LEMMA OneLeader ==
  ASSUME Catalogued(linker), DistinctIds(linker), NEW score, NEW B, Rated(score, linker, B),
         IsFiniteSet(B), B \subseteq Match, \A c, d \in B : c.entity_id = d.entity_id => c = d,
         NEW policy, PolicyTyped(policy),
         NEW b, Leader(b, B), b.score >= policy.minimum_score
  PROVE  /\ Reaching(score, policy) # {}
         /\ (\E d \in B \ {b} : b.score - d.score < policy.minimum_margin) =>
              \A k \in DOMAIN linker : ~Tops(k, score, policy)
         /\ (\A d \in B \ {b} : b.score - d.score >= policy.minimum_margin) =>
              \A k \in DOMAIN linker : b.entity_id = linker[k].id <=> Tops(k, score, policy)
<1>1. \A d \in B : d.score \in Int /\ d.score >= 0 /\ d.score \in Confidence /\ d.entity_id \in Int
  <2>1. \A d \in B : d \in Match
    OBVIOUS
  <2>2. \A d \in B : d.score \in Confidence /\ d.entity_id \in Entities
    BY <2>1 DEF Match
  <2>3. Entities \subseteq Int
    BY AgentAssumption
  <2>4. QED
    BY <2>2, <2>3, ConfidenceInt
<1>2. /\ policy.minimum_score \in Int /\ policy.minimum_margin \in Int
      /\ policy.minimum_score >= 0 /\ policy.minimum_margin >= 0
  BY ConfidenceInt DEF PolicyTyped
<1>3. DOMAIN score = DOMAIN linker
  BY DEF Rated
<1>4. \A i \in DOMAIN linker : /\ score[i] \in Int /\ score[i] >= -1
                               /\ (score[i] # -1 <=> score[i] >= 0)
  <2>1. \A c \in Confidence \cup {-1} : c \in Int /\ c >= -1 /\ (c # -1 <=> c >= 0)
    BY ConfidenceInt
  <2>2. QED
    BY <2>1 DEF Rated
<1>5. \A i \in DOMAIN linker : score[i] >= 0 =>
        \E d \in B : d.entity_id = linker[i].id /\ d.score = score[i]
  BY <1>4 DEF Rated
<1>6. \A d \in B : \E i \in DOMAIN linker : linker[i].id = d.entity_id /\ score[i] = d.score
  BY DEF Rated
<1>7. b \in B
  BY DEF Leader
<1>8. PICK n \in DOMAIN linker : linker[n].id = b.entity_id /\ score[n] = b.score
  BY <1>6, <1>7
<1>9. Reaching(score, policy) # {}
  BY <1>3, <1>8 DEF Reaching
<1>10. ASSUME NEW k \in DOMAIN linker, k # n, Tops(k, score, policy) PROVE FALSE
  <2>1. score[k] >= policy.minimum_score /\ score[k] >= 0
    BY <1>2, <1>4, <1>10 DEF Tops
  <2>2. PICK d \in B : d.entity_id = linker[k].id /\ d.score = score[k]
    BY <1>5, <2>1
  <2>3. d # b
    <3>1. linker[k].id # linker[n].id
      BY <1>10 DEF DistinctIds
    <3>2. QED
      BY <1>8, <2>2, <3>1
  <2>4. Outranks(b, d)
    BY <2>3 DEF Leader
  <2>5. score[n] >= 0
    BY <1>1, <1>7, <1>8
  <2>6. /\ score[k] - score[n] >= policy.minimum_margin
        /\ score[k] = score[n] => linker[k].id < linker[n].id
    BY <1>3, <1>10, <2>5 DEF Tops
  <2>7. d.score - b.score >= policy.minimum_margin
    BY <1>8, <2>2, <2>6
  <2>8. d.score = b.score => d.entity_id < b.entity_id
    BY <1>8, <2>2, <2>6
  <2>9. PICK ds \in Int, bs \in Int, di \in Int, bi \in Int, mm \in Int :
          /\ ds = d.score /\ bs = b.score /\ di = d.entity_id /\ bi = b.entity_id
          /\ mm = policy.minimum_margin
    BY <1>1, <1>2, <1>7
  <2>10. /\ bs > ds \/ (bs = ds /\ bi < di)
         /\ ds - bs >= mm /\ mm >= 0 /\ (ds = bs => di < bi)
    BY <1>2, <2>4, <2>7, <2>8, <2>9 DEF Outranks
  <2>11. QED
    BY <2>10
<1>11. \A d \in B \ {b} : \E j \in DOMAIN linker : /\ j # n /\ linker[j].id = d.entity_id
                                                   /\ score[j] = d.score /\ score[j] >= 0
  <2> SUFFICES ASSUME NEW d \in B \ {b}
               PROVE  \E j \in DOMAIN linker : /\ j # n /\ linker[j].id = d.entity_id
                                               /\ score[j] = d.score /\ score[j] >= 0
    OBVIOUS
  <2>1. PICK j \in DOMAIN linker : linker[j].id = d.entity_id /\ score[j] = d.score
    BY <1>6
  <2>2. d.entity_id # b.entity_id
    BY <1>7
  <2>3. j # n
    BY <1>8, <2>1, <2>2
  <2>4. QED
    BY <1>1, <2>1, <2>3
<1>12. ASSUME NEW d \in B \ {b}, b.score - d.score < policy.minimum_margin
       PROVE  ~Tops(n, score, policy)
  <2>1. PICK j \in DOMAIN linker : j # n /\ score[j] = d.score /\ score[j] >= 0
    BY <1>11
  <2>2. score[n] - score[j] < policy.minimum_margin
    BY <1>8, <1>12, <2>1
  <2>3. ~(score[n] - score[j] >= policy.minimum_margin)
    BY <1>2, <1>4, <2>2
  <2>4. QED
    BY <1>3, <2>1, <2>3 DEF Tops
<1>13. ASSUME \A d \in B \ {b} : b.score - d.score >= policy.minimum_margin
       PROVE  Tops(n, score, policy)
  <2>1. score[n] >= policy.minimum_score
    BY <1>8
  <2>2. ASSUME NEW j \in DOMAIN score \ {n}, score[j] >= 0
        PROVE  /\ score[n] - score[j] >= policy.minimum_margin
               /\ score[n] = score[j] => linker[n].id < linker[j].id
    <3>1. j \in DOMAIN linker
      BY <1>3
    <3>2. PICK d \in B : d.entity_id = linker[j].id /\ d.score = score[j]
      BY <1>5, <2>2, <3>1
    <3>3. d # b
      <4>1. linker[j].id # linker[n].id
        BY <3>1 DEF DistinctIds
      <4>2. QED
        BY <1>8, <3>2, <4>1
    <3>4. b.score - d.score >= policy.minimum_margin
      BY <1>13, <3>3
    <3>5. Outranks(b, d)
      BY <3>3 DEF Leader
    <3>6. b.score = d.score => b.entity_id < d.entity_id
      BY <1>1, <1>7, <3>5 DEF Outranks
    <3>7. QED
      BY <1>8, <3>2, <3>4, <3>6
  <2>3. QED
    BY <2>1, <2>2 DEF Tops
<1>14. \A k \in DOMAIN linker : b.entity_id = linker[k].id <=> k = n
  BY <1>8 DEF DistinctIds
<1>15. QED
  BY <1>8, <1>9, <1>10, <1>12, <1>13, <1>14


\* A decision on a mention is told apart from none.
LEMMA DecisionIsSome ==
  ASSUME NEW x, ExtractionOK(x), NEW mention \in ToSet(x.entities), NEW id \in Entities \cup {None},
         NEW score \in Confidence, NEW method \in LinkMethod
  PROVE  Decision(mention, id, score, method) # None
<1>1. mention.local_id \in LocalIds(x.entities)
  BY DEF ToSet, LocalIds
<1>2. PICK R : R = [mention_id: LocalIds(x.entities), entity_id: Entities \cup {None},
                    score: Confidence, method: LinkMethod]
  OBVIOUS
<1>3. Decision(mention, id, score, method) \in R
  BY <1>1, <1>2 DEF Decision
<1>4. None \notin R
  BY <1>2 DEF ExtractionOK
<1>5. QED
  BY <1>3, <1>4

\* What the linker decides is what the scores of its nodes call for.
LEMMA DecisionEarned ==
  ASSUME Catalogued(linker), DistinctIds(linker), NEW x, ExtractionOK(x),
         NEW mention \in ToSet(x.entities), mention.stable_id = None,
         NEW policy, PolicyTyped(policy)
  PROVE  Earned(Link(linker, mention, x, policy),
                [k \in DOMAIN linker |-> Deserved(linker[k], mention, x)], policy)
<1>1. PICK link : link = Link(linker, mention, x, policy)
  OBVIOUS
<1>2. PICK score : score = [k \in DOMAIN linker |-> Deserved(linker[k], mention, x)]
  OBVIOUS
<1>3. MentionOK(x, mention)
  BY DEF ExtractionOK
<1>4. MentionTyped(mention)
  BY <1>3 DEF MentionOK, MentionTyped
<1>5. PICK B : /\ BestOf(B, Matches(linker, mention, x), Len(Matches(linker, mention, x)))
               /\ Decided(link, linker, mention, x, policy, B)
  BY <1>1, <1>4, LinkDecided DEF PolicyTyped
<1>6. Rated(score, linker, B)
  BY <1>2, <1>4, <1>5, NodesRated
<1>7. /\ IsFiniteSet(B) /\ B \subseteq Match /\ \A c, d \in B : c.entity_id = d.entity_id => c = d
  BY <1>5 DEF BestOf
<1>8. \A d \in B : /\ d.score \in Confidence /\ d.score \in Int /\ d.entity_id \in Entities
                   /\ d.method \in Methods \cup {"ScopedLabel"}
  <2>1. \A d \in B : d \in Match
    BY <1>7
  <2>2. \A d \in B : d.score \in Confidence /\ d.entity_id \in Entities
                     /\ d.method \in Methods \cup {"ScopedLabel"}
    BY <2>1 DEF Match
  <2>3. QED
    BY <2>2, ConfidenceInt
<1>9. /\ policy.minimum_score \in Int /\ policy.minimum_score >= 0
  BY ConfidenceInt DEF PolicyTyped
<1>10. DOMAIN score = DOMAIN linker
  BY <1>6 DEF Rated
<1>11. \A k \in DOMAIN linker : linker[k].id # None
  <2>1. \A k \in DOMAIN linker : linker[k].id \in Entities
    BY LenProperties DEF Catalogued
  <2>2. Entities \subseteq Int
    BY AgentAssumption
  <2>3. QED
    BY <2>1, <2>2, NoneAssumption
<1>12. Earned(link, score, policy)
         <=> IF link = None THEN Reaching(score, policy) = {}
             ELSE /\ link.method \in {"Created", "Unresolved"} <=> Reaching(score, policy) = {}
                  /\ link.method # "Created" =>
                       \A k \in DOMAIN score : link.entity_id = linker[k].id <=> Tops(k, score, policy)
  BY DEF Earned, Reaching, Tops
<1>13. ASSUME \A c \in B : c.score < policy.minimum_score,
              link = Unmatched(linker, mention, x, policy)
       PROVE  Earned(link, score, policy)
  <2>1. \A k \in DOMAIN linker : ~(score[k] >= policy.minimum_score)
    <3> SUFFICES ASSUME NEW k \in DOMAIN linker, score[k] >= policy.minimum_score PROVE FALSE
      OBVIOUS
    <3>1. score[k] \in Confidence \cup {-1}
      BY <1>6 DEF Rated
    <3>2. score[k] # -1
      BY <1>9
    <3>3. PICK b \in B : b.score = score[k]
      BY <1>6, <3>2 DEF Rated
    <3>4. b.score \in Int /\ b.score < policy.minimum_score
      BY <1>8, <1>13
    <3>5. QED
      BY <1>9, <3>3, <3>4
  <2>2. Reaching(score, policy) = {} /\ \A k \in DOMAIN score : ~Tops(k, score, policy)
    BY <1>10, <2>1 DEF Reaching, Tops
  <2>3. ASSUME link # None
        PROVE  /\ link.method \in {"Created", "Unresolved"}
               /\ link.method # "Created" => link.entity_id = None
    <3>1. CASE ~policy.create_unmatched
      <4>1. link = Decision(mention, None, 0, "Unresolved")
        BY <1>13, <3>1 DEF Unmatched
      <4>2. QED
        BY <4>1 DEF Decision
    <3>2. CASE policy.create_unmatched
      <4>1. link = Decision(mention, Generated(mention, x), mention.confidence, "Created")
        BY <1>13, <2>3, <3>2 DEF Unmatched
      <4>2. QED
        BY <4>1 DEF Decision
    <3>3. QED
      BY <3>1, <3>2
  <2>4. QED
    BY <1>10, <1>11, <1>12, <2>2, <2>3
<1>14. ASSUME NEW b, Leader(b, B), b.score >= policy.minimum_score,
              \E d \in B \ {b} : b.score - d.score < policy.minimum_margin,
              link = Decision(mention, None, b.score, "Ambiguous")
       PROVE  Earned(link, score, policy)
  <2>1. Reaching(score, policy) # {} /\ \A k \in DOMAIN linker : ~Tops(k, score, policy)
    BY <1>6, <1>7, <1>14, OneLeader
  <2>2. b \in B
    BY <1>14 DEF Leader
  <2>3. link # None
    <3>1. b.score \in Confidence /\ None \in Entities \cup {None}
      BY <1>8, <2>2
    <3>2. "Ambiguous" \in LinkMethod
      BY DEF LinkMethod
    <3>3. QED
      BY <1>14, <3>1, <3>2, DecisionIsSome
  <2>4. link.method = "Ambiguous" /\ link.entity_id = None
    BY <1>14 DEF Decision
  <2>5. QED
    BY <1>10, <1>11, <1>12, <2>1, <2>3, <2>4
<1>15. ASSUME NEW b, Leader(b, B), b.score >= policy.minimum_score,
              \A d \in B \ {b} : b.score - d.score >= policy.minimum_margin,
              link = Decision(mention, b.entity_id, b.score, b.method)
       PROVE  Earned(link, score, policy)
  <2>1. /\ Reaching(score, policy) # {}
        /\ \A k \in DOMAIN linker : b.entity_id = linker[k].id <=> Tops(k, score, policy)
    BY <1>6, <1>7, <1>15, OneLeader
  <2>2. b \in B
    BY <1>15 DEF Leader
  <2>3. b.method \in Methods \cup {"ScopedLabel"} /\ b.score \in Confidence /\ b.entity_id \in Entities \cup {None}
    BY <1>8, <2>2
  <2>4. b.method \notin {"Created", "Unresolved"} /\ b.method \in LinkMethod
    BY <2>3 DEF Methods, LinkMethod
  <2>5. link # None
    BY <1>15, <2>3, <2>4, DecisionIsSome
  <2>6. link.method = b.method /\ link.entity_id = b.entity_id
    BY <1>15 DEF Decision
  <2>7. QED
    BY <1>10, <1>12, <2>1, <2>4, <2>5, <2>6
<1>16. Earned(link, score, policy)
  BY <1>5, <1>13, <1>14, <1>15 DEF Decided
<1>17. QED
  BY <1>1, <1>2, <1>16


-----------------------------------------------------------------------------
\* Retries.

\* A later catalog has every node of an earlier one as it was.
Carries(nodes, later) == \A i \in DOMAIN nodes : \E j \in DOMAIN later : later[j] = nodes[i]

\* A mention for which a plan found or created an entity creates none against
\* a later catalog.
LEMMA MentionNotCreatedAgain ==
  ASSUME NEW nodes, Catalogued(nodes), NEW later, Catalogued(later), Carries(nodes, later),
         NEW mention, NEW x, Linkable(mention, x), NEW policy, PolicyTyped(policy),
         Link(nodes, mention, x, policy) # None,
         Link(nodes, mention, x, policy).method = "Created" =>
           Present(later, Link(nodes, mention, x, policy).entity_id),
         Link(later, mention, x, policy) # None
  PROVE  Link(later, mention, x, policy).method # "Created"
<1>1. PICK old, new : old = Link(nodes, mention, x, policy) /\ new = Link(later, mention, x, policy)
  OBVIOUS
<1>2. SUFFICES ASSUME new.method = "Created" PROVE FALSE
  BY <1>1
<1>3. \A id : Present(nodes, id) => Present(later, id)
  BY DEF Carries, Present
<1>4. CASE mention.stable_id # None
  <2>1. PICK id : id = mention.stable_id
    OBVIOUS
  <2>2. old = LinkStableId(nodes, mention) /\ new = LinkStableId(later, mention)
    BY <1>1, <1>4 DEF Link
  <2>3. WithId(later, id) = {}
    <3> SUFFICES ASSUME WithId(later, id) # {} PROVE FALSE
      OBVIOUS
    <3>1. new = None \/ new = Decision(mention, id, mention.confidence, "StableId")
      BY <2>1, <2>2 DEF LinkStableId
    <3>2. new # None
      BY <1>1
    <3>3. new.method = "StableId"
      BY <3>1, <3>2 DEF Decision
    <3>4. QED
      BY <1>2, <3>3
  <2>4. ~Present(later, id)
    BY <2>3 DEF Present, WithId
  <2>5. CASE WithId(nodes, id) = {}
    <3>1. old = Decision(mention, id, mention.confidence, "Created")
      BY <2>1, <2>2, <2>5 DEF LinkStableId
    <3>2. old.method = "Created" /\ old.entity_id = id
      BY <3>1 DEF Decision
    <3>3. QED
      BY <1>1, <2>4, <3>2
  <2>6. CASE WithId(nodes, id) # {}
    <3>1. Present(nodes, id)
      BY <2>6 DEF Present, WithId
    <3>2. QED
      BY <1>3, <2>4, <3>1
  <2>7. QED
    BY <2>5, <2>6
<1>5. CASE mention.stable_id = None
  <2>1. /\ MentionTyped(mention)
        /\ policy.minimum_score \in Confidence /\ policy.minimum_margin \in Confidence
    BY DEF Linkable, PolicyTyped
  <2>2. PICK B : /\ BestOf(B, Matches(nodes, mention, x), Len(Matches(nodes, mention, x)))
                 /\ Decided(old, nodes, mention, x, policy, B)
    BY <1>1, <1>5, <2>1, LinkDecided
  <2>3. PICK C : /\ BestOf(C, Matches(later, mention, x), Len(Matches(later, mention, x)))
                 /\ Decided(new, later, mention, x, policy, C)
    BY <1>1, <1>5, <2>1, LinkDecided
  <2>4. \A D, d : D \subseteq Match /\ d \in D => /\ d.score \in Confidence /\ d.score \in Int
                                                  /\ d.method # "Created"
    <3>1. \A d \in Match : d.score \in Confidence /\ d.method \in Methods \cup {"ScopedLabel"}
      BY DEF Match
    <3>2. \A d \in Match : d.method # "Created"
      BY <3>1 DEF Methods
    <3>3. QED
      BY <3>1, <3>2, ConfidenceInt
  <2>5. B \subseteq Match /\ C \subseteq Match
    BY <2>2, <2>3 DEF BestOf
  <2>6. /\ \A c \in C : c.score < policy.minimum_score
        /\ new = Unmatched(later, mention, x, policy)
    <3>1. ASSUME NEW b, new = Decision(mention, None, b.score, "Ambiguous") PROVE FALSE
      BY <1>2, <3>1 DEF Decision
    <3>2. ASSUME NEW b, Leader(b, C), new = Decision(mention, b.entity_id, b.score, b.method) PROVE FALSE
      BY <1>2, <2>4, <2>5, <3>2 DEF Decision, Leader
    <3>3. QED
      BY <2>3, <3>1, <3>2 DEF Decided
  <2>7. \A b \in B : b.score < policy.minimum_score
    <3> SUFFICES ASSUME NEW b \in B PROVE b.score < policy.minimum_score
      OBVIOUS
    <3>1. PICK i, base, method : i \in DOMAIN nodes /\ MatchOf(nodes[i], mention, x, base, method, b)
      BY <2>1, <2>2, BestOfNodes
    <3>2. PICK j \in DOMAIN later : later[j] = nodes[i]
      BY <3>1 DEF Carries
    <3>3. MatchOf(later[j], mention, x, base, method, b)
      BY <3>1, <3>2
    <3>4. PICK c \in C : c.score >= b.score
      BY <2>1, <2>3, <3>3, NodesHaveBest
    <3>5. c.score < policy.minimum_score
      BY <2>6
    <3>6. c.score \in Int /\ b.score \in Int /\ policy.minimum_score \in Int
      BY <2>1, <2>4, <2>5, ConfidenceInt
    <3>7. QED
      BY <3>4, <3>5, <3>6
  <2>8. old = Unmatched(nodes, mention, x, policy)
    <3>1. ASSUME NEW b, Leader(b, B), b.score >= policy.minimum_score PROVE FALSE
      <4>1. b \in B
        BY <3>1 DEF Leader
      <4>2. b.score \in Int /\ policy.minimum_score \in Int
        BY <2>1, <2>4, <2>5, <4>1, ConfidenceInt
      <4>3. QED
        BY <2>7, <3>1, <4>1, <4>2
    <3>2. QED
      BY <2>2, <3>1 DEF Decided
  <2>9. PICK id : id = Generated(mention, x)
    OBVIOUS
  <2>10. CASE ~policy.create_unmatched
    <3>1. new = Decision(mention, None, 0, "Unresolved")
      BY <2>6, <2>10 DEF Unmatched
    <3>2. new.method = "Unresolved"
      BY <3>1 DEF Decision
    <3>3. QED
      BY <1>2, <3>2
  <2>11. CASE policy.create_unmatched
    <3>1. WithId(later, id) = {}
      BY <1>1, <2>6, <2>9, <2>11 DEF Unmatched
    <3>2. old = Decision(mention, id, mention.confidence, "Created")
      BY <1>1, <2>8, <2>9, <2>11 DEF Unmatched
    <3>3. old.method = "Created" /\ old.entity_id = id
      BY <3>2 DEF Decision
    <3>4. Present(later, id)
      BY <1>1, <3>3
    <3>5. QED
      BY <3>1, <3>4 DEF Present, WithId
  <2>12. QED
    BY <2>10, <2>11
<1>6. QED
  BY <1>4, <1>5

\* The plan of a retry creates nothing.
LEMMA RetryCreatesNothing ==
  ASSUME NEW x, ExtractionOK(x), NEW policy, PolicyTyped(policy), NEW nodes, Catalogued(nodes),
         NEW later, Catalogued(later), Carries(nodes, later),
         NEW t, PlanWithLinker(x, nodes, policy, t) # None,
         \A id \in NewEntities(LinksOf(x, nodes, policy)) : Present(later, id),
         NEW u \in Times, PlanWithLinker(x, later, policy, u) # None
  PROVE  NodeEvents(PlanWithLinker(x, later, policy, u).events) = {}
<1>1. AllLinked(x, nodes, policy) /\ AllLinked(x, later, policy)
  BY PlanLinks
<1>2. PICK links, again : links = LinksOf(x, nodes, policy) /\ again = LinksOf(x, later, policy)
  OBVIOUS
<1>3. DOMAIN links = DOMAIN x.entities /\ DOMAIN again = DOMAIN x.entities
  BY <1>2 DEF LinksOf
<1>4. ASSUME NEW k \in DOMAIN x.entities PROVE again[k].method # "Created"
  <2>1. PICK mention : mention = x.entities[k]
    OBVIOUS
  <2>2. /\ links[k] = Link(nodes, mention, x, policy) /\ Link(nodes, mention, x, policy) # None
        /\ again[k] = Link(later, mention, x, policy) /\ Link(later, mention, x, policy) # None
    BY <1>1, <1>2, <2>1 DEF AllLinked
  <2>3. MentionOK(x, mention)
    BY <2>1 DEF ExtractionOK, ToSet
  <2>4. Linkable(mention, x)
    BY <2>3 DEF MentionOK, Linkable, MentionTyped
  <2>5. links[k].method = "Created" => Present(later, links[k].entity_id)
    BY <1>2, <1>3 DEF NewEntities, Created
  <2>6. QED
    BY <2>2, <2>4, <2>5, MentionNotCreatedAgain
<1>5. NewEntities(again) = {}
  BY <1>3, <1>4 DEF NewEntities, Created
<1>6. PICK events : events = PlanWithLinker(x, later, policy, u).events
  OBVIOUS
<1>7. PICK m : PlannedBy(events, later, u, {}, m)
  BY <1>2, <1>5, <1>6, PlanPlanned
<1>8. /\ events \in Seq(ToSet(events)) /\ m \in 0..Len(events) /\ Len(events) \in Nat
      /\ \A k \in 1..m : FALSE
  BY <1>7, LenProperties DEF PlannedBy
<1>9. m = 0
  <2>1. m \in Nat /\ ~(1 \in 1..m)
    BY <1>8
  <2>2. QED
    BY <2>1
<1>10. \A k \in 1..Len(events) : events[k].payload.kind = "FactRecorded"
  BY <1>7, <1>9 DEF PlannedBy, FactEntry
<1>11. DOMAIN events = 1..Len(events)
  BY <1>8, LenProperties
<1>12. QED
  BY <1>6, <1>10, <1>11 DEF NodeEvents


\* A log of such events is recorded at the recording times.
LEMMA RecordedTimed ==
  ASSUME NEW events, NEW p, NEW known, Recorded(events, p, known)
  PROVE  Timed(events, Len(events)) /\ Tracks(p, events, Len(events)) /\ Len(events) \in Nat
<1>1. \A e : Entry(e) => e.recorded_at \in Times
  BY DEF Entry, NodeEntry, FactEntry
<1>2. QED
  BY <1>1, LenProperties DEF Recorded, Timed

\* The catalog behind a plan has the nodes of the one before it as they were,
\* and the entities the plan created.
LEMMA CommitCarries ==
  ASSUME NEW events, NEW p, NEW known, Recorded(events, p, known),
         NEW nodes, CatalogOf(nodes, p, events),
         NEW t \in Times, NEW batch, NEW S, NEW m, PlannedBy(batch, nodes, t, S, m), S \subseteq Entities,
         NEW all, NEW q, NEW ids, Committed(events, p, batch, all, q, ids, S)
  PROVE  /\ CatalogOf(Catalog(q, all), q, all)
         /\ Carries(nodes, Catalog(q, all))
         /\ \A id \in S : Present(Catalog(q, all), id)
<1>1. PICK n, l : n = Len(events) /\ l = Len(batch)
  OBVIOUS
<1>2. n \in Nat /\ l \in Nat /\ m \in 0..l /\ Len(all) = n + l
  BY <1>1, RecordedTimed, LenProperties DEF PlannedBy, Committed
<1>3. Tracks(p, events, n) /\ Timed(events, n)
  BY <1>1, RecordedTimed
<1>4. Tracks(q, all, n + l) /\ Timed(all, n + l)
  BY <1>2, RecordedTimed DEF Committed
<1>5. PICK later : later = Catalog(q, all)
  OBVIOUS
<1>6. CatalogOf(later, q, all)
  BY <1>4, <1>5, CatalogTaken
<1>7. ASSUME NEW id \in S PROVE Present(later, id)
  <2>1. PICK k \in 1..m : batch[k].payload.id = id
    BY DEF PlannedBy
  <2>2. k \in 1..l /\ n + k \in 1..(n + l)
    BY <1>2
  <2>3. all[n + k] = batch[k] /\ NodeEntry(batch[k], t)
    BY <1>1, <2>2 DEF Committed, Appended, PlannedBy
  <2>4. all[n + k].payload.kind = "NodeUpserted" /\ all[n + k].payload.id = id
    BY <2>1, <2>3 DEF NodeEntry
  <2>5. q.node_lookup[id] # None
    BY <1>4, <2>2, <2>4 DEF Tracks, NodesKnown
  <2>6. QED
    BY <1>6, <2>5 DEF CatalogOf
<1>8. ASSUME NEW i \in DOMAIN nodes PROVE \E j \in DOMAIN later : later[j] = nodes[i]
  <2>1. PICK e : e = nodes[i].id
    OBVIOUS
  <2>2. e \in Entities /\ p.node_lookup[e] # None /\ nodes[i] = NodeContent(p, events, e)
    BY <2>1, LenProperties DEF CatalogOf, Catalogued
  <2>3. e \notin S
    BY <2>1 DEF PlannedBy, Missing
  <2>4. q.node_lookup[e] = p.node_lookup[e] /\ q.nodes[q.node_lookup[e] + 1] = p.nodes[p.node_lookup[e] + 1]
    BY <2>2, <2>3 DEF Committed, Following, Leaves
  <2>5. PICK r : r = NewestOf(p, e)
    OBVIOUS
  <2>6. NewestOf(q, e) = r
    BY <2>4, <2>5 DEF NewestOf
  <2>7. r.position + 1 \in 1..n
    <3>1. PICK h : h = p.node_lookup[e] + 1
      OBVIOUS
    <3>2. h \in 1..Len(p.nodes)
      BY <1>3, <2>2, <3>1 DEF Tracks, Sound, NodesIndexed
    <3>3. r = VisibleRevision(p.nodes[h], Now)
      BY <2>5, <3>1 DEF NewestOf
    <3>4. RevisionWritten(r, events, n)
      BY <1>3, <3>2, <3>3, HistoryWritten
    <3>5. QED
      BY <3>4 DEF RevisionWritten
  <2>8. all[r.position + 1] = events[r.position + 1]
    BY <1>1, <2>7 DEF Committed
  <2>9. NodeContent(q, all, e) = nodes[i]
    BY <2>2, <2>5, <2>6, <2>8 DEF NodeContent
  <2>10. PICK j \in DOMAIN later : later[j].id = e
    BY <1>6, <2>2, <2>4 DEF CatalogOf, Present
  <2>11. later[j] = nodes[i]
    BY <1>6, <2>9, <2>10 DEF CatalogOf
  <2>12. QED
    BY <2>11
<1>9. Carries(nodes, later)
  BY <1>8 DEF Carries
<1>10. QED
  BY <1>5, <1>6, <1>7, <1>9

\* No two node events of the log are about one entity.
CreatedOnce(events) ==
  \A j, k \in NodeEvents(events) : events[j].payload.id = events[k].payload.id => j = k

\* A plan of the current catalog creates what no event created before.
LEMMA CommitCreatesOnce ==
  ASSUME NEW events, NEW p, NEW known, Recorded(events, p, known),
         NEW nodes, CatalogOf(nodes, p, events),
         NEW t \in Times, NEW batch, NEW S, NEW m, PlannedBy(batch, nodes, t, S, m),
         NEW all, NEW q, NEW ids, Committed(events, p, batch, all, q, ids, S), CreatedOnce(events)
  PROVE  CreatedOnce(all)
<1>1. PICK n, l : n = Len(events) /\ l = Len(batch)
  OBVIOUS
<1>2. n \in Nat /\ l \in Nat /\ m \in 0..l /\ Len(all) = n + l
  BY <1>1, RecordedTimed, LenProperties DEF PlannedBy, Committed
<1>3. Tracks(p, events, n)
  BY <1>1, RecordedTimed
<1>4. DOMAIN all = 1..(n + l) /\ DOMAIN events = 1..n
  BY <1>1, <1>2, LenProperties DEF Committed, Recorded
<1>5. ASSUME NEW j \in NodeEvents(all)
      PROVE  \/ j \in NodeEvents(events) /\ all[j] = events[j]
             \/ \E k \in 1..m : j = n + k /\ all[j] = batch[k]
  <2>1. j \in 1..(n + l) /\ all[j].payload.kind = "NodeUpserted"
    BY <1>4 DEF NodeEvents
  <2>2. CASE j <= n
    <3>1. j \in 1..n
      BY <1>2, <2>1, <2>2
    <3>2. all[j] = events[j]
      BY <1>1, <3>1 DEF Committed
    <3>3. QED
      BY <1>4, <2>1, <3>1, <3>2 DEF NodeEvents
  <2>3. CASE ~(j <= n)
    <3>1. PICK k \in 1..l : j = n + k
      <4>1. j - n \in 1..l /\ j = n + (j - n)
        BY <1>2, <2>1, <2>3
      <4>2. QED
        BY <4>1
    <3>2. all[j] = batch[k]
      BY <1>1, <3>1 DEF Committed, Appended
    <3>3. ~(k \in (m + 1)..l)
      <4>1. ASSUME FactEntry(batch[k], t) PROVE FALSE
        BY <2>1, <3>2, <4>1 DEF FactEntry
      <4>2. QED
        BY <1>1, <4>1 DEF PlannedBy
    <3>4. k \in 1..m
      BY <1>2, <3>3
    <3>5. QED
      BY <3>1, <3>2, <3>4
  <2>4. QED
    BY <2>2, <2>3
<1>6. ASSUME NEW j \in NodeEvents(events), NEW k \in 1..m, events[j].payload.id = batch[k].payload.id
      PROVE  FALSE
  <2>1. j \in 1..n /\ events[j].payload.kind = "NodeUpserted"
    BY <1>4 DEF NodeEvents
  <2>2. PICK e : e = events[j].payload.id
    OBVIOUS
  <2>3. e \in Entities /\ p.node_lookup[e] # None
    BY <1>3, <2>1, <2>2 DEF Tracks, NodesKnown
  <2>4. Present(nodes, e)
    BY <2>3 DEF CatalogOf
  <2>5. e \in S
    BY <1>6, <2>2 DEF PlannedBy
  <2>6. Missing(nodes, e)
    BY <2>5 DEF PlannedBy
  <2>7. QED
    BY <2>4, <2>6 DEF Present, Missing
<1>7. ASSUME NEW j \in NodeEvents(all), NEW k \in NodeEvents(all), all[j].payload.id = all[k].payload.id
      PROVE  j = k
  <2>1. CASE j \in NodeEvents(events) /\ all[j] = events[j]
    <3>1. CASE k \in NodeEvents(events) /\ all[k] = events[k]
      BY <1>7, <2>1, <3>1 DEF CreatedOnce
    <3>2. ASSUME NEW h \in 1..m, all[k] = batch[h] PROVE FALSE
      BY <1>6, <1>7, <2>1, <3>2
    <3>3. QED
      BY <1>5, <3>1, <3>2
  <2>2. ASSUME NEW i \in 1..m, j = n + i, all[j] = batch[i] PROVE j = k
    <3>1. CASE k \in NodeEvents(events) /\ all[k] = events[k]
      BY <1>6, <1>7, <2>2, <3>1
    <3>2. ASSUME NEW h \in 1..m, k = n + h, all[k] = batch[h] PROVE j = k
      BY <1>7, <2>2, <3>2 DEF PlannedBy
    <3>3. QED
      BY <1>5, <3>1, <3>2
  <2>3. QED
    BY <1>5, <2>1, <2>2
<1>8. QED
  BY <1>7 DEF CreatedOnce


-----------------------------------------------------------------------------
\* The invariant.

\* Everything a plan was ever made of is in the log, the linker's nodes are
\* known to the projection, and only plans of an outdated linker create an
\* entity twice.
AgentInv ==
  /\ Recorded(log, projection, store.event_ids)
  /\ Catalogued(linker) /\ DistinctIds(linker)
  /\ Backed(projection, linker)
  /\ ~overlapped => CreatedOnce(log)

\* Nothing is recorded at first.
LEMMA AgentInit ==
  ASSUME Init
  PROVE  AgentInv
<1>1. log = <<>> /\ linker = <<>> /\ projection = EmptyProjection
  BY DEF Init
<1>2. Len(<<>>) = 0 /\ DOMAIN <<>> = 1..0 /\ 1..0 = {}
  BY LenProperties, EmptySeq
<1>3. Sound(projection) /\ Listed(projection)
  BY <1>1, EmptySound
<1>4. Len(projection.nodes) = 0
  BY <1>1, <1>2 DEF EmptyProjection
<1>5. \A id \in FactIds : projection.fact_lookup[id] = None
  BY <1>1 DEF EmptyProjection
<1>6. Tracks(projection, log, Len(log))
  <2>1. HistoriesWritten(projection.nodes, log, Len(log))
    BY <1>2, <1>4 DEF HistoriesWritten
  <2>2. NodesKnown(projection.node_lookup, log, Len(log))
    BY <1>1, <1>2 DEF NodesKnown
  <2>3. FactsRecorded(projection.fact_lookup, log, Len(log))
    BY <1>5 DEF FactsRecorded
  <2>4. QED
    BY <1>3, <2>1, <2>2, <2>3 DEF Tracks
<1>7. Recorded(log, projection, store.event_ids)
  BY <1>1, <1>2, <1>6, EmptySeq DEF Recorded
<1>8. Catalogued(linker)
  BY <1>1, <1>2, EmptySeq DEF Catalogued
<1>9. DistinctIds(linker) /\ Backed(projection, linker)
  BY <1>1, <1>2 DEF DistinctIds, Backed
<1>10. CreatedOnce(log)
  BY <1>1, <1>2 DEF CreatedOnce, NodeEvents
<1>11. QED
  BY <1>7, <1>8, <1>9, <1>10 DEF AgentInv

\* The store gains the identifiers of a batch.
LEMMA StoreGains ==
  ASSUME NEW s, NEW batch, batch \in Seq(ToSet(batch)), batch # <<>>
  PROVE  CommitPrepared(s, PrepareAppend(s, Stream, IdsOf(batch))).event_ids
           = s.event_ids \cup {batch[k].id : k \in 1..Len(batch)}
<1>1. PICK l : l = Len(batch)
  OBVIOUS
<1>2. l \in Nat /\ DOMAIN batch = 1..l /\ l # 0
  BY <1>1, LenProperties, EmptySeq
<1>3. PICK ids : ids = IdsOf(batch)
  OBVIOUS
<1>4. Len(ids) = l /\ \A k \in 1..l : ids[k] = batch[k].id
  <2>1. ids = [k \in 1..l |-> batch[k].id]
    BY <1>2, <1>3 DEF IdsOf
  <2>2. PICK T : T = {batch[k].id : k \in 1..l}
    OBVIOUS
  <2>3. ids \in [1..l -> T]
    BY <2>1, <2>2
  <2>4. ids \in Seq(T) /\ Len(ids) = l
    BY <1>2, <2>3, FunctionIsSeq
  <2>5. QED
    BY <2>1, <2>4
<1>5. PICK committed : committed = PrepareAppend(s, Stream, ids)
  OBVIOUS
<1>6. DOMAIN committed = 1..l /\ \A k \in 1..l : committed[k].id = batch[k].id
  BY <1>4, <1>5 DEF PrepareAppend
<1>7. committed # <<>> /\ Len(committed) = l
  <2>1. PICK T : T = {committed[k] : k \in 1..l}
    OBVIOUS
  <2>2. committed \in [1..l -> T]
    BY <1>4, <1>5, <2>1 DEF PrepareAppend
  <2>3. committed \in Seq(T) /\ Len(committed) = l
    BY <1>2, <2>2, FunctionIsSeq
  <2>4. QED
    BY <1>2, <2>3, LenProperties, EmptySeq
<1>8. {committed[k].id : k \in 1..Len(committed)} = {batch[k].id : k \in 1..l}
  BY <1>6, <1>7
<1>9. CommitPrepared(s, committed).event_ids = s.event_ids \cup {committed[k].id : k \in 1..Len(committed)}
  BY <1>7 DEF CommitPrepared
<1>10. QED
  BY <1>1, <1>3, <1>5, <1>8, <1>9

\* The plan of a linker is committed to its last event.
CommittedPlan(x, nodes, policy, t, S, m) ==
  LET batch == PlanWithLinker(x, nodes, policy, t).events
  IN  /\ S = NewEntities(LinksOf(x, nodes, policy)) /\ S \subseteq Entities
      /\ PlannedBy(batch, nodes, t, S, m)
      /\ Committed(log, projection, batch, log \o batch, Applied(projection, Len(log), batch),
                   store.event_ids \cup {batch[k].id : k \in 1..Len(batch)}, S)

\* A plan that the store takes is committed, whatever catalog it was made from,
\* as long as the projection knows the catalog's nodes.
LEMMA PlanCommitted ==
  ASSUME Recorded(log, projection, store.event_ids),
         NEW nodes, Catalogued(nodes), Backed(projection, nodes),
         NEW x \in Extractions, NEW policy \in Policies, NEW t \in Times,
         PlanWithLinker(x, nodes, policy, t) # None,
         CanPrepare(store, Stream, AnyVersion, IdsOf(PlanWithLinker(x, nodes, policy, t).events))
  PROVE  \E S, m : CommittedPlan(x, nodes, policy, t, S, m)
<1>1. PICK batch : batch = PlanWithLinker(x, nodes, policy, t).events
  OBVIOUS
<1>2. PICK S : S = NewEntities(LinksOf(x, nodes, policy))
  OBVIOUS
<1>3. ExtractionOK(x) /\ PolicyTyped(policy)
  BY AgentAssumption DEF PolicyTyped
<1>4. S \subseteq Entities /\ \E m : PlannedBy(batch, nodes, t, S, m)
  BY <1>1, <1>2, <1>3, PlanPlanned
<1>5. PICK m : PlannedBy(batch, nodes, t, S, m)
  BY <1>4
<1>6. UniqueIds(store.event_ids, IdsOf(batch))
  BY <1>1 DEF CanPrepare
<1>7. Committed(log, projection, batch, log \o batch, Applied(projection, Len(log), batch),
                store.event_ids \cup {batch[k].id : k \in 1..Len(batch)}, S)
  BY <1>5, <1>6, PlanCommits
<1>8. CommittedPlan(x, nodes, policy, t, S, m)
  BY <1>1, <1>2, <1>4, <1>5, <1>7 DEF CommittedPlan
<1>9. QED
  BY <1>8

\* The catalog of the current view is one.
LEMMA CurrentCatalog ==
  ASSUME Recorded(log, projection, store.event_ids)
  PROVE  LET nodes == Catalog(projection, log)
         IN  /\ CatalogOf(nodes, projection, log)
             /\ Catalogued(nodes) /\ DistinctIds(nodes) /\ Backed(projection, nodes)
<1>1. CatalogOf(Catalog(projection, log), projection, log)
  BY RecordedTimed, CatalogTaken
<1>2. QED
  BY <1>1 DEF CatalogOf, DistinctIds, Backed


\* A new linker has the catalog of the projection.
LEMMA BuildLinkerPreserves ==
  ASSUME AgentInv, BuildLinker
  PROVE  AgentInv'
<1>1. /\ linker' = Catalog(projection, log)
      /\ log' = log /\ projection' = projection /\ store' = store /\ overlapped' = overlapped
  BY DEF BuildLinker
<1>2. Recorded(log, projection, store.event_ids)
  BY DEF AgentInv
<1>3. PICK nodes : nodes = Catalog(projection, log)
  OBVIOUS
<1>4. Catalogued(nodes) /\ DistinctIds(nodes) /\ Backed(projection, nodes)
  BY <1>2, <1>3, CurrentCatalog
<1>5. Catalogued(linker)' /\ DistinctIds(linker)' /\ Backed(projection, linker)'
  <2>1. linker' = nodes
    BY <1>1, <1>3
  <2>2. QED
    BY <1>1, <1>4, <2>1 DEF Catalogued, DistinctIds, Backed
<1>6. Recorded(log, projection, store.event_ids)'
  BY <1>1, <1>2
<1>7. (~overlapped => CreatedOnce(log))'
  BY <1>1 DEF AgentInv, CreatedOnce, NodeEvents
<1>8. QED
  BY <1>5, <1>6, <1>7 DEF AgentInv

\* A committed plan is recorded; it creates nothing anew unless the linker had
\* been outdated.
LEMMA ExtractPreserves ==
  ASSUME AgentInv, NEW x \in Extractions, NEW policy \in Policies, NEW t \in Times,
         Extract(x, policy, t)
  PROVE  AgentInv'
<1>1. PICK plan : plan = PlanWithLinker(x, linker, policy, t)
  OBVIOUS
<1>2. PICK batch : batch = plan.events
  OBVIOUS
<1>3. /\ plan # None /\ batch # <<>>
      /\ CanPrepare(store, Stream, AnyVersion, IdsOf(batch))
      /\ store' = CommitPrepared(store, PrepareAppend(store, Stream, IdsOf(batch)))
      /\ log' = log \o batch
      /\ projection' = Applied(projection, Len(log), batch)
      /\ overlapped' = (overlapped \/ linker # Catalog(projection, log))
      /\ linker' = linker
  BY <1>1, <1>2 DEF Extract, Commit
<1>4. /\ Recorded(log, projection, store.event_ids) /\ Catalogued(linker)
      /\ DistinctIds(linker) /\ Backed(projection, linker)
  BY DEF AgentInv
<1>5. PICK S, m : CommittedPlan(x, linker, policy, t, S, m)
  BY <1>1, <1>2, <1>3, <1>4, PlanCommitted
<1>6. S \subseteq Entities /\ PlannedBy(batch, linker, t, S, m)
  BY <1>1, <1>2, <1>5 DEF CommittedPlan
<1>7. store'.event_ids = store.event_ids \cup {batch[k].id : k \in 1..Len(batch)}
  BY <1>3, <1>6, StoreGains DEF PlannedBy
<1>8. Committed(log, projection, batch, log', projection', store'.event_ids, S)
  BY <1>1, <1>2, <1>3, <1>5, <1>7 DEF CommittedPlan
<1>9. Recorded(log, projection, store.event_ids)'
  BY <1>8 DEF Committed
<1>10. Catalogued(linker)' /\ DistinctIds(linker)'
  BY <1>3, <1>4 DEF Catalogued, DistinctIds
<1>11. Backed(projection, linker)'
  <2>1. Grown(projection, projection')
    BY <1>8 DEF Committed, Following
  <2>2. \A i \in DOMAIN linker : linker[i].id \in Entities
    BY <1>4, LenProperties DEF Catalogued
  <2>3. \A i \in DOMAIN linker : projection'.node_lookup[linker[i].id] # None
    BY <1>4, <2>1, <2>2 DEF Grown, Backed
  <2>4. QED
    BY <1>3, <2>3 DEF Backed
<1>12. ASSUME ~overlapped' PROVE CreatedOnce(log')
  <2>1. ~overlapped /\ linker = Catalog(projection, log)
    BY <1>3, <1>12
  <2>2. CatalogOf(linker, projection, log)
    BY <1>4, <2>1, CurrentCatalog
  <2>3. CreatedOnce(log)
    BY <2>1 DEF AgentInv
  <2>4. QED
    BY <1>4, <1>6, <1>8, <2>2, <2>3, CommitCreatesOnce
<1>13. QED
  BY <1>9, <1>10, <1>11, <1>12 DEF AgentInv, CreatedOnce, NodeEvents

\* The invariant is kept by every step of the specification.
THEOREM AgentInvariant == Spec => []AgentInv
<1>1. Init => AgentInv
  BY AgentInit
<1>2. AgentInv /\ [Next]_vars => AgentInv'
  <2> SUFFICES ASSUME AgentInv, [Next]_vars PROVE AgentInv'
    OBVIOUS
  <2>1. CASE BuildLinker
    BY <2>1, BuildLinkerPreserves
  <2>2. ASSUME NEW x \in Extractions, NEW policy \in Policies, NEW t \in Times, Extract(x, policy, t)
        PROVE  AgentInv'
    BY <2>2, ExtractPreserves
  <2>3. CASE UNCHANGED vars
    <3>1. /\ log' = log /\ projection' = projection /\ store' = store
          /\ linker' = linker /\ overlapped' = overlapped
      BY <2>3 DEF vars
    <3>2. QED
      BY <3>1 DEF AgentInv, Catalogued, DistinctIds, Backed, CreatedOnce, NodeEvents
  <2>4. QED
    BY <2>1, <2>2, <2>3 DEF Next
<1>3. QED
  BY <1>1, <1>2, PTL DEF Spec

-----------------------------------------------------------------------------
\* The neighbourhood.

\* The states of the search.
Searches == [distances: [Entities -> Nat \cup {None}], facts: SUBSET Fact,
             excluded: SUBSET FactIds, queue: Seq(Entities)]

\* What the search has reached.
Known(a) == {e \in Entities : a.distances[e] # None}

\* The other end of a fact.
Other(f, e) == IF f.source = e THEN f.target ELSE f.source

\* What one incident fact may do to the search.
Excludes(a, b, f) ==
  /\ b \in Searches
  /\ b.distances = a.distances /\ b.queue = a.queue /\ b.facts = a.facts
  /\ b.excluded = a.excluded \cup {f.id}

Joins(a, b, f) ==
  /\ b \in Searches
  /\ b.distances = a.distances /\ b.queue = a.queue /\ b.excluded = a.excluded
  /\ b.facts = a.facts \cup {f}

Reaches(a, b, f, e, depth) ==
  /\ b \in Searches
  /\ b.excluded = a.excluded /\ b.facts = a.facts \cup {f}
  /\ b.distances[e] = depth /\ \A o \in Entities \ {e} : b.distances[o] = a.distances[o]
  /\ b.queue = Append(a.queue, e)

\* What one incident fact does to the search.
Visited(a, b, r, c, f) ==
  LET o == Other(f, c)
  IN  \/ b = a /\ (f \notin Usable(r) \/ ~Visible(r, o))
      \/ f \in Usable(r) /\ Visible(r, o) /\ ~InScope(r, o) /\ Excludes(a, b, f)
      \/ f \in Usable(r) /\ InScope(r, o) /\ a.distances[o] # None /\ Joins(a, b, f)
      \/ /\ f \in Usable(r) /\ InScope(r, o) /\ a.distances[o] = None
         /\ a.distances[c] < r.max_depth /\ Reaches(a, b, f, o, a.distances[c] + 1)
      \/ /\ f \in Usable(r) /\ InScope(r, o) /\ a.distances[o] = None
         /\ ~(a.distances[c] < r.max_depth) /\ b = a

\* A fact of the projection has its parts.
LEMMA FactParts ==
  ASSUME NEW f \in Fact
  PROVE  f.id \in FactIds /\ f.source \in Entities /\ f.target \in Entities
BY DEF Fact

\* VisitFact, branch by branch.
LEMMA VisitFactCases ==
  ASSUME NEW r, NEW a \in Searches, NEW c \in Known(a), NEW f \in Fact, f \in ToSet(projection.facts)
  PROVE  Visited(a, VisitFact(a, r, c, f), r, c, f)
<1>1. PICK o, b : o = Other(f, c) /\ b = VisitFact(a, r, c, f)
  OBVIOUS
<1>2. /\ a.distances \in [Entities -> Nat \cup {None}] /\ a.facts \in SUBSET Fact
      /\ a.excluded \in SUBSET FactIds /\ a.queue \in Seq(Entities)
      /\ a = [distances |-> a.distances, facts |-> a.facts, excluded |-> a.excluded, queue |-> a.queue]
  BY DEF Searches
<1>3. f.id \in FactIds /\ o \in Entities /\ c \in Entities
  BY <1>1, FactParts DEF Other, Known
<1>4. a.distances[c] \in Nat
  BY <1>2, <1>3 DEF Known
<1>5. PICK node, depth : node = VisibleNode(o, r.known_at) /\ depth = a.distances[c]
  OBVIOUS
<1>6. PICK usable \in BOOLEAN :
        usable <=> /\ FactIsActive(projection, f, r.valid_at, r.known_at)
                   /\ RelationAllowed(r, f.relation)
  OBVIOUS
<1>7. f \in Usable(r) <=> usable
  BY <1>6 DEF Usable
<1>8. (Visible(r, o) <=> node # None) /\ (InScope(r, o) <=> node # None /\ NodeAllowed(r, node))
  BY <1>5 DEF Visible, InScope
<1>9. b = IF ~usable \/ node = None THEN a
          ELSE IF ~NodeAllowed(r, node)
          THEN [a EXCEPT !.excluded = @ \cup {f.id}]
          ELSE IF a.distances[o] # None
          THEN [a EXCEPT !.facts = @ \cup {f}]
          ELSE IF depth < r.max_depth
          THEN [a EXCEPT !.facts = @ \cup {f},
                         !.distances[o] = depth + 1,
                         !.queue = Append(@, o)]
          ELSE a
  <2>1. o = IF f.source = c THEN f.target ELSE f.source
    BY <1>1 DEF Other
  <2>2. QED
    BY <1>1, <1>5, <1>6, <2>1 DEF VisitFact, CanGoDeeper
<1>10. CASE ~usable \/ node = None
  BY <1>1, <1>7, <1>8, <1>9, <1>10 DEF Visited
<1>11. CASE usable /\ node # None /\ ~NodeAllowed(r, node)
  <2>1. b = [a EXCEPT !.excluded = a.excluded \cup {f.id}]
    BY <1>9, <1>11
  <2>2. Excludes(a, b, f)
    BY <1>2, <1>3, <2>1 DEF Excludes, Searches
  <2>3. QED
    BY <1>1, <1>7, <1>8, <1>11, <2>2 DEF Visited
<1>12. CASE usable /\ node # None /\ NodeAllowed(r, node) /\ a.distances[o] # None
  <2>1. b = [a EXCEPT !.facts = a.facts \cup {f}]
    BY <1>9, <1>12
  <2>2. Joins(a, b, f)
    BY <1>2, <1>3, <2>1 DEF Joins, Searches
  <2>3. QED
    BY <1>1, <1>7, <1>8, <1>12, <2>2 DEF Visited
<1>13. CASE /\ usable /\ node # None /\ NodeAllowed(r, node) /\ a.distances[o] = None
            /\ depth < r.max_depth
  <2>1. PICK d : d = [a.distances EXCEPT ![o] = depth + 1]
    OBVIOUS
  <2>2. b = [a EXCEPT !.facts = a.facts \cup {f}, !.distances = d, !.queue = Append(a.queue, o)]
    BY <1>9, <1>13, <2>1
  <2>3. d \in [Entities -> Nat \cup {None}] /\ d[o] = depth + 1 /\ \A e \in Entities \ {o} : d[e] = a.distances[e]
    BY <1>2, <1>3, <1>4, <1>5, <2>1
  <2>4. Append(a.queue, o) \in Seq(Entities)
    BY <1>2, <1>3
  <2>5. /\ b.distances = d /\ b.facts = a.facts \cup {f} /\ b.queue = Append(a.queue, o)
        /\ b.excluded = a.excluded
        /\ b = [distances |-> b.distances, facts |-> b.facts, excluded |-> b.excluded, queue |-> b.queue]
    BY <1>2, <2>2
  <2>6. b \in Searches
    BY <1>2, <2>3, <2>4, <2>5 DEF Searches
  <2>7. Reaches(a, b, f, o, depth + 1)
    BY <2>3, <2>5, <2>6 DEF Reaches
  <2>8. QED
    BY <1>1, <1>5, <1>7, <1>8, <1>13, <2>7 DEF Visited
<1>14. CASE /\ usable /\ node # None /\ NodeAllowed(r, node) /\ a.distances[o] = None
            /\ ~(depth < r.max_depth)
  <2>1. b = a
    BY <1>9, <1>14
  <2>2. QED
    BY <1>1, <1>5, <1>7, <1>8, <1>14, <2>1 DEF Visited
<1>15. QED
  BY <1>10, <1>11, <1>12, <1>13, <1>14

-----------------------------------------------------------------------------
\* The facts of the reference that may be followed, and one step along them.
Edges(r) == {f \in Usable(r) : InScope(r, f.source) /\ InScope(r, f.target)}

\* One step along the edges.
Spread(r, R) == R \cup {f.source : f \in {g \in Edges(r) : g.target \in R}}
                  \cup {f.target : f \in {g \in Edges(r) : g.source \in R}}

\* The recursion of Within, as a function up to some depth.
Spreads(w, r, n) ==
  /\ w[0] = ToSet(r.seeds)
  /\ \A d \in 0..(n - 1) : w[d + 1] = Spread(r, w[d])

\* The recursion of Within is well-founded, and its last value is the one meant.
LEMMA WithinRecursion ==
  ASSUME NEW r, NEW n \in Nat
  PROVE  \E w : Spreads(w, r, n) /\ Within(r, n) = w[n]
<1> DEFINE Rec(w, m) == w = [d \in 0..m |-> IF d = 0 THEN ToSet(r.seeds) ELSE Spread(r, w[d - 1])]
           N == {m \in Nat : \E w : Rec(w, m)}
<1>1. 0 \in N
  <2>1. Rec([d \in 0..0 |-> ToSet(r.seeds)], 0)
    OBVIOUS
  <2>2. QED
    BY <2>1
<1>2. ASSUME NEW m \in Nat, m \in N PROVE m + 1 \in N
  <2>1. PICK w : Rec(w, m)
    BY <1>2
  <2> DEFINE v == [d \in 0..(m + 1) |-> IF d = m + 1 THEN Spread(r, w[m]) ELSE w[d]]
  <2>2. ASSUME NEW d \in 0..(m + 1)
        PROVE  v[d] = IF d = 0 THEN ToSet(r.seeds) ELSE Spread(r, v[d - 1])
    <3>1. CASE d = m + 1
      <4>1. d # 0 /\ d - 1 = m /\ m \in 0..(m + 1) /\ m # m + 1
        BY <3>1
      <4>2. v[d - 1] = w[m] /\ v[d] = Spread(r, w[m])
        BY <3>1, <4>1
      <4>3. QED
        BY <3>1, <4>1, <4>2
    <3>2. CASE d = 0
      <4>1. w[0] = ToSet(r.seeds) /\ v[0] = w[0]
        BY <2>1
      <4>2. QED
        BY <3>2, <4>1
    <3>3. CASE d # m + 1 /\ d # 0
      <4>1. d \in 0..m /\ d - 1 \in 0..(m + 1) /\ d - 1 # m + 1
        BY <3>3
      <4>2. v[d] = w[d] /\ v[d - 1] = w[d - 1]
        BY <3>3, <4>1
      <4> HIDE DEF v
      <4>3. w[d] = Spread(r, w[d - 1])
        BY <2>1, <3>3, <4>1
      <4>4. QED
        BY <3>3, <4>2, <4>3
    <3>4. QED
      BY <3>1, <3>2, <3>3
  <2>3. v = [d \in 0..(m + 1) |-> v[d]]
    OBVIOUS
  <2> HIDE DEF v
  <2>4. Rec(v, m + 1)
    BY <2>2, <2>3
  <2>5. m + 1 \in Nat
    OBVIOUS
  <2> HIDE DEF Rec
  <2>6. QED
    BY <2>4, <2>5, Zenon
<1> HIDE DEF N
<1>3. n \in N
  BY <1>1, <1>2, InductionOnNat
<1>4. \E w : Rec(w, n)
  BY <1>3 DEF N
<1>5. Rec(CHOOSE w : Rec(w, n), n)
  BY <1>4, Zenon
<1>6. Within(r, n) = (CHOOSE w : Rec(w, n))[n]
  BY Zenon DEF Within, Spread, Edges
<1>7. PICK w : Rec(w, n) /\ Within(r, n) = w[n]
  BY <1>5, <1>6, Zenon
<1>8. w[0] = ToSet(r.seeds)
  BY <1>7
<1>9. ASSUME NEW d \in 0..(n - 1) PROVE w[d + 1] = Spread(r, w[d])
  <2>1. d + 1 \in 0..n /\ d + 1 # 0 /\ (d + 1) - 1 = d
    OBVIOUS
  <2>2. w[d + 1] = Spread(r, w[(d + 1) - 1])
    BY <1>7, <2>1
  <2>3. QED
    BY <2>1, <2>2
<1>10. Spreads(w, r, n)
  BY <1>8, <1>9 DEF Spreads
<1>11. QED
  BY <1>7, <1>10

\* Within starts with the seeds and spreads step by step.
LEMMA WithinSteps ==
  ASSUME NEW r
  PROVE  /\ Within(r, 0) = ToSet(r.seeds)
         /\ \A d \in Nat : Within(r, d + 1) = Spread(r, Within(r, d))
<1>1. Within(r, 0) = ToSet(r.seeds)
  <2>1. PICK w : Spreads(w, r, 0) /\ Within(r, 0) = w[0]
    BY WithinRecursion
  <2>2. QED
    BY <2>1 DEF Spreads
<1>2. ASSUME NEW d \in Nat PROVE Within(r, d + 1) = Spread(r, Within(r, d))
  <2>1. d + 1 \in Nat
    OBVIOUS
  <2>2. PICK v : Spreads(v, r, d) /\ Within(r, d) = v[d]
    BY WithinRecursion
  <2>3. PICK w : Spreads(w, r, d + 1) /\ Within(r, d + 1) = w[d + 1]
    BY <2>1, WithinRecursion
  <2> DEFINE S == {k \in Nat : v[k] = w[k]}
  <2>4. 0 \in S
    BY <2>2, <2>3 DEF Spreads
  <2>5. ASSUME NEW k \in 0..(d - 1), k \in S PROVE k + 1 \in S
    <3>1. k \in 0..((d + 1) - 1) /\ k + 1 \in Nat
      OBVIOUS
    <3>2. v[k + 1] = Spread(r, v[k])
      BY <2>2 DEF Spreads
    <3>3. w[k + 1] = Spread(r, w[k])
      BY <2>3, <3>1 DEF Spreads
    <3>4. QED
      BY <2>5, <3>1, <3>2, <3>3
  <2>6. d \in S
    <3> HIDE DEF S
    <3>1. \A k \in 0..d : k \in S
      BY <2>4, <2>5, InductionUpTo
    <3>2. QED
      BY <3>1
  <2>7. d \in 0..((d + 1) - 1)
    OBVIOUS
  <2>8. w[d + 1] = Spread(r, w[d])
    BY <2>3, <2>7 DEF Spreads
  <2>9. QED
    BY <2>2, <2>3, <2>6, <2>8
<1>3. QED
  BY <1>1, <1>2

\* An edge out of a depth leads to the next one.
LEMMA EdgeLeads ==
  ASSUME NEW r, NEW d \in Nat, NEW f \in Usable(r), NEW e, e \in {f.source, f.target},
         InScope(r, e), InScope(r, Other(f, e)), e \in Within(r, d)
  PROVE  Other(f, e) \in Within(r, d + 1)
<1>1. PICK R : R = Within(r, d)
  OBVIOUS
<1>2. Within(r, d + 1) = Spread(r, R)
  BY <1>1, WithinSteps
<1>3. f \in Edges(r)
  BY DEF Edges, Other
<1>4. Other(f, e) \in Spread(r, R)
  BY <1>1, <1>3 DEF Spread, Other
<1>5. QED
  BY <1>2, <1>4

-----------------------------------------------------------------------------
\* What holds of the search: everything reached is in scope, at a depth at
\* which the reference has it, and the queue lists some of it, each once.
Searched(a, r) ==
  /\ a \in Searches
  /\ \A i \in 1..Len(a.queue) : a.queue[i] \in Known(a)
  /\ \A i, j \in 1..Len(a.queue) : a.queue[i] = a.queue[j] => i = j
  /\ \A e \in Known(a) : /\ InScope(r, e) /\ a.distances[e] <= r.max_depth
                         /\ e \in Within(r, a.distances[e])
  /\ \A e \in ToSet(r.seeds) : e \in Known(a) /\ a.distances[e] = 0

\* Breadth first: nothing is farther than one step behind the depth b, and the
\* queue goes from near to far, from b on.
Ordered(a, b) ==
  /\ \A e \in Known(a) : a.distances[e] <= b + 1
  /\ \A i \in 1..Len(a.queue) : b <= a.distances[a.queue[i]]
  /\ \A i, j \in 1..Len(a.queue) : i <= j => a.distances[a.queue[i]] <= a.distances[a.queue[j]]

\* A fact whose other end is visible but out of scope.
LeadsOut(r, f, o) == f \in Usable(r) /\ Visible(r, o) /\ ~InScope(r, o)

\* M holds the pairs of an entity and an incident fact that were looked at.
Examined(a, M, r) ==
  /\ \A e, f : <<e, f>> \in M =>
       e \in Known(a) /\ f \in Fact /\ f \in ToSet(projection.facts) /\ e \in {f.source, f.target}
  /\ \A e, f : /\ <<e, f>> \in M /\ f \in Usable(r) /\ InScope(r, Other(f, e))
               /\ a.distances[e] < r.max_depth
               => Other(f, e) \in Known(a) /\ a.distances[Other(f, e)] <= a.distances[e] + 1
  /\ \A e, f : <<e, f>> \in M /\ <<Other(f, e), f>> \in M /\ f \in Usable(r) => f \in a.facts
  /\ a.facts \subseteq Usable(r)
  /\ \A id : id \in a.excluded <=>
       \E e, f : <<e, f>> \in M /\ LeadsOut(r, f, Other(f, e)) /\ id = f.id

\* Distances are numbers.
LEMMA KnownDistance ==
  ASSUME NEW a \in Searches, NEW e \in Known(a)
  PROVE  e \in Entities /\ a.distances[e] \in Nat /\ a.distances[e] \in Int
BY DEF Searches, Known

\* The new entity of a step, and its place at the end of the queue.
Added(a, b, o, depth) ==
  /\ o \in Entities /\ o \notin Known(a) /\ o \in Known(b) /\ b.distances[o] = depth
  /\ \A e \in Entities : e \in Known(b) <=> e \in Known(a) \/ e = o
  /\ \A e \in Known(a) : e # o /\ b.distances[e] = a.distances[e]
  /\ Len(a.queue) \in Nat /\ Len(b.queue) = Len(a.queue) + 1 /\ b.queue[Len(a.queue) + 1] = o
  /\ \A i \in 1..Len(a.queue) : b.queue[i] = a.queue[i]

\* Reaching an entity puts it at the end of the queue and changes nothing else.
LEMMA ReachesAdds ==
  ASSUME NEW a \in Searches, NEW b, NEW f, NEW o \in Entities, o \notin Known(a),
         NEW depth \in Nat, Reaches(a, b, f, o, depth)
  PROVE  Added(a, b, o, depth)
<1>1. /\ a.distances \in [Entities -> Nat \cup {None}] /\ a.queue \in Seq(Entities)
      /\ b.distances \in [Entities -> Nat \cup {None}]
  BY DEF Reaches, Searches
<1>2. /\ Len(a.queue) \in Nat /\ Len(b.queue) = Len(a.queue) + 1 /\ b.queue[Len(a.queue) + 1] = o
      /\ \A i \in 1..Len(a.queue) : b.queue[i] = a.queue[i]
  <2>1. b.queue = Append(a.queue, o)
    BY DEF Reaches
  <2>2. QED
    BY <1>1, <2>1, AppendProperties, LenProperties
<1>3. depth # None
  BY NoneAssumption
<1>4. b.distances[o] = depth /\ o \in Known(b)
  BY <1>3 DEF Reaches, Known
<1>5. \A e \in Known(a) : e # o /\ b.distances[e] = a.distances[e]
  BY DEF Reaches, Known
<1>6. \A e \in Entities : e \in Known(b) <=> e \in Known(a) \/ e = o
  <2> SUFFICES ASSUME NEW e \in Entities PROVE e \in Known(b) <=> e \in Known(a) \/ e = o
    OBVIOUS
  <2>1. CASE e = o
    BY <1>4, <2>1
  <2>2. CASE e # o
    BY <2>2 DEF Reaches, Known
  <2>3. QED
    BY <2>1, <2>2
<1>7. QED
  BY <1>2, <1>4, <1>5, <1>6 DEF Added

\* A step keeps what holds of what is reached.
LEMMA SearchedStays ==
  ASSUME NEW r, r.max_depth \in Nat, NEW a, Searched(a, r), NEW c \in Known(a),
         NEW f \in Fact, c \in {f.source, f.target}, NEW b, Visited(a, b, r, c, f)
  PROVE  Searched(b, r)
<1>1. PICK o : o = Other(f, c)
  OBVIOUS
<1>2. o \in Entities /\ a \in Searches
  BY <1>1, FactParts DEF Other, Searched
<1>3. CASE b = a
  BY <1>3
<1>4. CASE b \in Searches /\ b.distances = a.distances /\ b.queue = a.queue
  BY <1>4 DEF Searched, Known
<1>5. CASE /\ f \in Usable(r) /\ InScope(r, o) /\ a.distances[o] = None
           /\ a.distances[c] < r.max_depth /\ Reaches(a, b, f, o, a.distances[c] + 1)
  <2>1. PICK depth \in Nat : depth = a.distances[c]
    BY <1>2, KnownDistance
  <2>2. o \notin Known(a) /\ depth + 1 \in Nat
    BY <1>5 DEF Known
  <2>3. Added(a, b, o, depth + 1)
    BY <1>2, <1>5, <2>1, <2>2, ReachesAdds
  <2>4. b \in Searches
    BY <1>5 DEF Reaches
  <2>5. \A i \in 1..Len(b.queue) : b.queue[i] \in Known(b)
    <3> SUFFICES ASSUME NEW i \in 1..Len(b.queue) PROVE b.queue[i] \in Known(b)
      OBVIOUS
    <3>1. CASE i = Len(a.queue) + 1
      BY <2>3, <3>1 DEF Added
    <3>2. CASE i # Len(a.queue) + 1
      <4>1. i \in 1..Len(a.queue)
        BY <2>3, <3>2 DEF Added
      <4>2. b.queue[i] = a.queue[i] /\ a.queue[i] \in Known(a)
        BY <2>3, <4>1 DEF Added, Searched
      <4>3. QED
        BY <2>3, <4>2 DEF Added, Known
    <3>3. QED
      BY <3>1, <3>2
  <2>6. \A i, j \in 1..Len(b.queue) : b.queue[i] = b.queue[j] => i = j
    <3>1. \A i \in 1..Len(a.queue) : b.queue[i] # o
      BY <2>3 DEF Added, Searched
    <3> SUFFICES ASSUME NEW i \in 1..Len(b.queue), NEW j \in 1..Len(b.queue), b.queue[i] = b.queue[j]
                 PROVE  i = j
      OBVIOUS
    <3>2. /\ i = Len(a.queue) + 1 \/ i \in 1..Len(a.queue)
          /\ j = Len(a.queue) + 1 \/ j \in 1..Len(a.queue)
      BY <2>3 DEF Added
    <3>3. CASE i = Len(a.queue) + 1 \/ j = Len(a.queue) + 1
      BY <2>3, <3>1, <3>2, <3>3 DEF Added
    <3>4. CASE i \in 1..Len(a.queue) /\ j \in 1..Len(a.queue)
      <4>1. a.queue[i] = a.queue[j]
        BY <2>3, <3>4 DEF Added
      <4>2. QED
        BY <3>4, <4>1 DEF Searched
    <3>5. QED
      BY <3>2, <3>3, <3>4
  <2>7. \A e \in Known(b) : /\ InScope(r, e) /\ b.distances[e] <= r.max_depth
                            /\ e \in Within(r, b.distances[e])
    <3> SUFFICES ASSUME NEW e \in Known(b)
                 PROVE  /\ InScope(r, e) /\ b.distances[e] <= r.max_depth
                        /\ e \in Within(r, b.distances[e])
      OBVIOUS
    <3>1. e \in Known(a) \/ e = o
      BY <2>3 DEF Added, Known
    <3>2. CASE e \in Known(a)
      BY <2>3, <3>2 DEF Added, Searched
    <3>3. CASE e = o
      <4>1. b.distances[e] = depth + 1
        BY <2>3, <3>3 DEF Added
      <4>2. depth + 1 <= r.max_depth
        BY <1>5, <2>1
      <4>3. InScope(r, c) /\ c \in Within(r, depth)
        BY <2>1 DEF Searched
      <4>4. o \in Within(r, depth + 1)
        BY <1>1, <1>5, <4>3, EdgeLeads
      <4>5. QED
        BY <1>5, <3>3, <4>1, <4>2, <4>4
    <3>4. QED
      BY <3>1, <3>2, <3>3
  <2>8. \A e \in ToSet(r.seeds) : e \in Known(b) /\ b.distances[e] = 0
    BY <2>3 DEF Added, Searched, Known
  <2>9. QED
    BY <2>4, <2>5, <2>6, <2>7, <2>8 DEF Searched
<1>6. QED
  BY <1>1, <1>3, <1>4, <1>5 DEF Visited, Excludes, Joins

\* A step keeps the order of the search.
LEMMA OrderedStays ==
  ASSUME NEW r, NEW a, Searched(a, r), NEW c \in Known(a), Ordered(a, a.distances[c]),
         NEW f \in Fact, NEW b, Visited(a, b, r, c, f)
  PROVE  /\ Ordered(b, a.distances[c]) /\ c \in Known(b) /\ b.distances[c] = a.distances[c]
         /\ Known(b) \ ToSet(b.queue) = Known(a) \ ToSet(a.queue)
<1>1. PICK o : o = Other(f, c)
  OBVIOUS
<1>2. o \in Entities /\ a \in Searches
  BY <1>1, FactParts DEF Other, Searched
<1>3. CASE b = a
  BY <1>3
<1>4. CASE b.distances = a.distances /\ b.queue = a.queue
  BY <1>4 DEF Ordered, Known
<1>5. CASE a.distances[o] = None /\ Reaches(a, b, f, o, a.distances[c] + 1)
  <2>1. PICK depth \in Nat : depth = a.distances[c]
    BY <1>2, KnownDistance
  <2>2. o \notin Known(a) /\ depth + 1 \in Nat
    BY <1>5 DEF Known
  <2>3. Added(a, b, o, depth + 1)
    BY <1>2, <1>5, <2>1, <2>2, ReachesAdds
  <2>4. c \in Known(b) /\ b.distances[c] = depth
    BY <2>1, <2>3 DEF Added, Known
  <2>5. \A e \in Known(b) : b.distances[e] <= depth + 1
    <3> SUFFICES ASSUME NEW e \in Known(b) PROVE b.distances[e] <= depth + 1
      OBVIOUS
    <3>1. e \in Known(a) \/ e = o
      BY <2>3 DEF Added, Known
    <3>2. QED
      BY <2>1, <2>3, <3>1 DEF Added, Ordered
  <2>6. \A i \in 1..Len(a.queue) : /\ a.queue[i] \in Known(a)
                                   /\ b.distances[b.queue[i]] = a.distances[a.queue[i]]
                                   /\ a.distances[a.queue[i]] \in Int
    BY <1>2, <2>3, KnownDistance DEF Added, Searched
  <2>7. b.distances[b.queue[Len(a.queue) + 1]] = depth + 1
    BY <2>3 DEF Added
  <2>8. \A i \in 1..Len(b.queue) : i \in 1..Len(a.queue) \/ i = Len(a.queue) + 1
    BY <2>3 DEF Added
  <2>9. \A i \in 1..Len(b.queue) : depth <= b.distances[b.queue[i]]
    <3> SUFFICES ASSUME NEW i \in 1..Len(b.queue) PROVE depth <= b.distances[b.queue[i]]
      OBVIOUS
    <3>1. CASE i \in 1..Len(a.queue)
      BY <2>1, <2>6, <3>1 DEF Ordered
    <3>2. CASE i = Len(a.queue) + 1
      BY <2>7, <3>2
    <3>3. QED
      BY <2>8, <3>1, <3>2
  <2>10. \A i, j \in 1..Len(b.queue) : i <= j => b.distances[b.queue[i]] <= b.distances[b.queue[j]]
    <3> SUFFICES ASSUME NEW i \in 1..Len(b.queue), NEW j \in 1..Len(b.queue), i <= j
                 PROVE  b.distances[b.queue[i]] <= b.distances[b.queue[j]]
      OBVIOUS
    <3>1. CASE j \in 1..Len(a.queue)
      <4>1. i \in 1..Len(a.queue)
        BY <2>3, <3>1 DEF Added
      <4>2. QED
        BY <2>6, <3>1, <4>1 DEF Ordered
    <3>2. CASE j = Len(a.queue) + 1
      <4>1. CASE i \in 1..Len(a.queue)
        <5>1. a.queue[i] \in Known(a)
          BY <2>6, <4>1
        <5>2. a.distances[a.queue[i]] <= depth + 1
          BY <2>1, <5>1 DEF Ordered
        <5>3. QED
          BY <2>6, <2>7, <3>2, <4>1, <5>2
      <4>2. CASE i = Len(a.queue) + 1
        BY <2>7, <3>2, <4>2
      <4>3. QED
        BY <2>8, <4>1, <4>2
    <3>3. QED
      BY <2>8, <3>1, <3>2
  <2>11. Ordered(b, depth)
    BY <2>5, <2>9, <2>10 DEF Ordered
  <2>12. Known(b) \ ToSet(b.queue) = Known(a) \ ToSet(a.queue)
    <3>1. a.queue \in Seq(Entities) /\ b.queue \in Seq(Entities)
      BY <1>2, <1>5 DEF Reaches, Searches
    <3>2. \A e : (e \in ToSet(a.queue) <=> \E i \in 1..Len(a.queue) : a.queue[i] = e)
                 /\ (e \in ToSet(b.queue) <=> \E i \in 1..Len(b.queue) : b.queue[i] = e)
      BY <3>1, LenProperties DEF ToSet
    <3>3. \A e : e \in ToSet(b.queue) <=> e \in ToSet(a.queue) \/ e = o
      <4>1. \A i \in 1..Len(a.queue) : i \in 1..Len(b.queue) /\ b.queue[i] = a.queue[i]
        BY <2>3 DEF Added
      <4>2. Len(a.queue) + 1 \in 1..Len(b.queue) /\ b.queue[Len(a.queue) + 1] = o
        BY <2>3 DEF Added
      <4>3. QED
        BY <2>8, <3>2, <4>1, <4>2
    <3>4. QED
      BY <2>3, <3>3 DEF Added, Known
  <2>13. QED
    BY <2>1, <2>4, <2>11, <2>12
<1>6. QED
  BY <1>1, <1>3, <1>4, <1>5 DEF Visited, Excludes, Joins

\* A step looks at one more pair.
LEMMA ExaminedGrows ==
  ASSUME NEW r, r.max_depth \in Nat, NEW a, Searched(a, r), NEW c \in Known(a),
         Ordered(a, a.distances[c]), NEW M, Examined(a, M, r),
         NEW f \in Fact, f \in ToSet(projection.facts), c \in {f.source, f.target},
         NEW b, Visited(a, b, r, c, f)
  PROVE  Examined(b, M \cup {<<c, f>>}, r)
<1>1. PICK o, P : o = Other(f, c) /\ P = M \cup {<<c, f>>}
  OBVIOUS
<1>2. \A e, g : <<e, g>> \in P <=> <<e, g>> \in M \/ (e = c /\ g = f)
  BY <1>1
<1>3. o \in Entities /\ c \in Entities /\ a \in Searches /\ o \in {f.source, f.target}
  BY <1>1, FactParts DEF Other, Searched, Known
<1>4. a.distances[c] \in Nat
  BY <1>3, KnownDistance
\* What the step does to the search, whatever it does.
<1>5. /\ \A e \in Known(a) : e \in Known(b) /\ b.distances[e] = a.distances[e]
      /\ \A e \in Known(b) : e \in Known(a) \/ (e = o /\ f \in Usable(r) /\ InScope(r, o))
  <2>1. CASE b.distances = a.distances
    BY <2>1 DEF Known
  <2>2. CASE f \in Usable(r) /\ InScope(r, o) /\ a.distances[o] = None
             /\ Reaches(a, b, f, o, a.distances[c] + 1)
    <3>1. o \notin Known(a) /\ a.distances[c] + 1 \in Nat
      BY <1>4, <2>2 DEF Known
    <3>2. Added(a, b, o, a.distances[c] + 1)
      BY <1>3, <2>2, <3>1, ReachesAdds
    <3>3. QED
      BY <2>2, <3>2 DEF Added, Known
  <2>3. QED
    BY <1>1, <2>1, <2>2 DEF Visited, Excludes, Joins
<1>6. \A g : g \in b.facts <=> g \in a.facts \/ (g = f /\ f \in Usable(r) /\ o \in Known(b))
  <2>1. CASE b.facts = a.facts /\ b.distances = a.distances /\ ~(f \in Usable(r) /\ a.distances[o] # None)
    BY <2>1 DEF Known
  <2>2. CASE f \in Usable(r) /\ a.distances[o] # None /\ Joins(a, b, f)
    BY <1>3, <2>2 DEF Joins, Known
  <2>3. CASE f \in Usable(r) /\ a.distances[o] = None /\ Reaches(a, b, f, o, a.distances[c] + 1)
    <3>1. a.distances[c] + 1 # None
      BY <1>4, NoneAssumption
    <3>2. o \in Known(b)
      BY <1>3, <2>3, <3>1 DEF Reaches, Known
    <3>3. QED
      BY <2>3, <3>2 DEF Reaches
  <2>4. ~InScope(r, o) => o \notin Known(a)
    BY DEF Searched
  <2>5. CASE f \in Usable(r) /\ Visible(r, o) /\ ~InScope(r, o) /\ Excludes(a, b, f)
    <3>1. b.facts = a.facts /\ b.distances = a.distances
      BY <2>5 DEF Excludes
    <3>2. a.distances[o] = None
      BY <1>3, <2>4, <2>5 DEF Known
    <3>3. QED
      BY <2>1, <3>1, <3>2
  <2>6. CASE b = a /\ (f \notin Usable(r) \/ ~Visible(r, o))
    <3>1. ~Visible(r, o) => ~InScope(r, o)
      BY DEF InScope
    <3>2. ~(f \in Usable(r) /\ a.distances[o] # None)
      BY <1>3, <2>4, <2>6, <3>1 DEF Known
    <3>3. QED
      BY <2>1, <2>6, <3>2
  <2>7. CASE a.distances[o] = None /\ b = a
    BY <2>1, <2>7
  <2>8. QED
    BY <1>1, <2>2, <2>3, <2>5, <2>6, <2>7 DEF Visited
<1>7. \A id : id \in b.excluded <=> id \in a.excluded \/ (id = f.id /\ LeadsOut(r, f, o))
  <2>1. CASE b.excluded = a.excluded /\ ~LeadsOut(r, f, o)
    BY <2>1
  <2>2. CASE LeadsOut(r, f, o) /\ Excludes(a, b, f)
    BY <2>2 DEF Excludes
  <2>3. QED
    BY <1>1, <2>1, <2>2 DEF Visited, LeadsOut, InScope, Joins, Reaches
\* The parts of the invariant.
<1>8. ASSUME NEW e, NEW g, <<e, g>> \in P
      PROVE  e \in Known(b) /\ g \in Fact /\ g \in ToSet(projection.facts) /\ e \in {g.source, g.target}
  <2>1. CASE <<e, g>> \in M
    BY <1>5, <2>1 DEF Examined
  <2>2. CASE e = c /\ g = f
    BY <1>5, <2>2
  <2>3. QED
    BY <1>2, <1>8, <2>1, <2>2
<1>9. ASSUME NEW e, NEW g, <<e, g>> \in P, g \in Usable(r), InScope(r, Other(g, e)),
             b.distances[e] < r.max_depth
      PROVE  Other(g, e) \in Known(b) /\ b.distances[Other(g, e)] <= b.distances[e] + 1
  <2>1. CASE <<e, g>> \in M
    <3>1. e \in Known(a)
      BY <2>1 DEF Examined
    <3>2. b.distances[e] = a.distances[e]
      BY <1>5, <3>1
    <3>3. Other(g, e) \in Known(a) /\ a.distances[Other(g, e)] <= a.distances[e] + 1
      BY <1>9, <2>1, <3>2 DEF Examined
    <3>4. QED
      BY <1>5, <3>2, <3>3
  <2>2. CASE e = c /\ g = f
    <3>1. b.distances[c] = a.distances[c]
      BY <1>5
    <3>2. CASE o \in Known(a)
      <4>1. a.distances[o] <= a.distances[c] + 1
        BY <3>2 DEF Ordered
      <4>2. QED
        BY <1>1, <1>5, <2>2, <3>1, <3>2, <4>1
    <3>3. CASE o \notin Known(a)
      <4>1. a.distances[o] = None
        BY <1>3, <3>3 DEF Known
      <4>2. f \in Usable(r) /\ InScope(r, o) /\ a.distances[c] < r.max_depth
        BY <1>1, <1>9, <2>2, <3>1
      <4>3. Visible(r, o)
        BY <4>2 DEF InScope
      <4>4. Reaches(a, b, f, o, a.distances[c] + 1)
        BY <1>1, <4>1, <4>2, <4>3 DEF Visited
      <4>5. Added(a, b, o, a.distances[c] + 1)
        BY <1>3, <1>4, <3>3, <4>4, ReachesAdds
      <4>6. o \in Known(b) /\ b.distances[o] = a.distances[c] + 1
        BY <4>5 DEF Added
      <4>7. QED
        BY <1>1, <1>4, <2>2, <3>1, <4>6
    <3>4. QED
      BY <3>2, <3>3
  <2>3. QED
    BY <1>2, <1>9, <2>1, <2>2
<1>10. ASSUME NEW e, NEW g, <<e, g>> \in P, <<Other(g, e), g>> \in P, g \in Usable(r)
       PROVE  g \in b.facts
  <2>1. CASE <<e, g>> \in M /\ <<Other(g, e), g>> \in M
    <3>1. g \in a.facts
      BY <1>10, <2>1 DEF Examined
    <3>2. QED
      BY <1>6, <3>1
  <2>2. CASE e = c /\ g = f
    <3>1. o \in Known(b)
      BY <1>1, <1>8, <1>10, <2>2
    <3>2. QED
      BY <1>6, <1>10, <2>2, <3>1
  <2>3. CASE Other(g, e) = c /\ g = f
    <3>1. e \in Known(b) /\ e \in {f.source, f.target}
      BY <1>8, <1>10, <2>3
    <3>2. e = o \/ c = o
      BY <1>1, <2>3, <3>1 DEF Other
    <3>3. o \in Known(b)
      BY <1>5, <3>1, <3>2
    <3>4. QED
      BY <1>6, <1>10, <2>3, <3>3
  <2>4. QED
    BY <1>2, <1>10, <2>1, <2>2, <2>3
<1>11. b.facts \subseteq Usable(r)
  BY <1>6 DEF Examined
<1>12. ASSUME NEW id
       PROVE  id \in b.excluded <=>
                \E e, g : <<e, g>> \in P /\ LeadsOut(r, g, Other(g, e)) /\ id = g.id
  <2>1. id \in a.excluded <=> \E e, g : <<e, g>> \in M /\ LeadsOut(r, g, Other(g, e)) /\ id = g.id
    BY DEF Examined
  <2>2. (\E e, g : <<e, g>> \in P /\ LeadsOut(r, g, Other(g, e)) /\ id = g.id)
          <=> (\E e, g : <<e, g>> \in M /\ LeadsOut(r, g, Other(g, e)) /\ id = g.id)
                \/ (id = f.id /\ LeadsOut(r, f, o))
    BY <1>1, <1>2
  <2>3. QED
    BY <1>7, <2>1, <2>2
<1>13. Examined(b, P, r)
  BY <1>8, <1>9, <1>10, <1>11, <1>12 DEF Examined
<1>14. QED
  BY <1>1, <1>13

-----------------------------------------------------------------------------
\* All pairs of an entity of P and an incident fact.
Incident(P) ==
  {m \in P \X ToSet(projection.facts) : m[1] \in {m[2].source, m[2].target}}

\* Which pairs these are.
LEMMA IncidentPairs ==
  ASSUME NEW P
  PROVE  \A e, f : <<e, f>> \in Incident(P)
                     <=> e \in P /\ f \in ToSet(projection.facts) /\ e \in {f.source, f.target}
BY DEF Incident

\* The incident facts of an entity, behind their identifiers.
FactsAt(ids, mine, c) ==
  /\ mine \in Seq(Fact) /\ Len(ids) = Len(mine) /\ Len(ids) \in Nat
  /\ \A k \in 1..Len(ids) : FactOf(ids[k]) = mine[k] /\ mine[k] \in Fact
  /\ \A f : (\E k \in 1..Len(ids) : mine[k] = f)
              <=> f \in ToSet(projection.facts) /\ c \in {f.source, f.target}

\* The index lists the facts of an entity, each behind its identifier.
LEMMA IncidentFacts ==
  ASSUME Sound(projection), Listed(projection), NEW c \in Entities
  PROVE  \E mine : FactsAt(IncidentFactIds(projection, c), mine, c)
<1>1. PICK ids, facts, kept, mine :
        /\ ids = IncidentFactIds(projection, c) /\ facts = projection.facts
        /\ kept = {k \in DOMAIN facts : c \in {facts[k].source, facts[k].target}}
        /\ mine = Filtered(facts, kept)
  OBVIOUS
<1>2. facts \in Seq(Fact) /\ projection.fact_lookup \in [FactIds -> Nat \cup {None}]
  BY <1>1, ProjectionFields DEF Sound
<1>3. ids = [k \in DOMAIN mine |-> mine[k].id]
  <2>1. PICK p : p = projection
    OBVIOUS
  <2>2. Sound(p) /\ Listed(p)
    BY <2>1
  <2>3. mine = Filtered(p.facts, {k \in DOMAIN p.facts : c \in {p.facts[k].source, p.facts[k].target}})
    BY <1>1, <2>1
  <2>4. ASSUME NEW m, m = Filtered(p.facts, {k \in DOMAIN p.facts : c \in {p.facts[k].source, p.facts[k].target}})
        PROVE  IncidentFactIds(p, c) = [k \in DOMAIN m |-> m[k].id]
    <3>1. c \in Entities
      OBVIOUS
    <3>2. QED
      BY ONLY <2>2, <2>4, <3>1, ListsExact
  <2>5. QED
    BY <1>1, <2>1, <2>3, <2>4
<1>4. Keeps(mine, Fact, facts, kept)
  BY <1>1, <1>2, FilteredMembers
<1>5. mine \in Seq(Fact) /\ Len(mine) \in Nat /\ DOMAIN mine = 1..Len(mine)
  BY <1>4, LenProperties DEF Keeps
<1>6. ids \in [1..Len(mine) -> FactIds] /\ \A k \in 1..Len(mine) : mine[k] \in Fact /\ ids[k] = mine[k].id
  <2>1. \A k \in 1..Len(mine) : mine[k] \in Fact /\ mine[k].id \in FactIds
    BY <1>5, ElementOfSeq, FactParts
  <2>2. QED
    BY <1>3, <1>5, <2>1
<1>7. Len(ids) = Len(mine)
  BY <1>5, <1>6
<1>8. DOMAIN facts = 1..Len(facts) /\ Len(facts) \in Nat
  BY <1>2, LenProperties
<1>9. ASSUME NEW k \in 1..Len(mine) PROVE FactOf(ids[k]) = mine[k]
  <2>1. PICK i \in 1..Len(facts) : i \in kept /\ mine[k] = facts[i]
    BY <1>4, <1>9 DEF Keeps
  <2>2. projection.fact_lookup[facts[i].id] = i - 1
    BY <1>1, <2>1 DEF Sound, FactsIndexed
  <2>3. projection.fact_lookup[ids[k]] + 1 = i
    BY <1>6, <2>1, <2>2
  <2>4. QED
    BY <1>1, <2>1, <2>3 DEF FactOf
<1>10. ASSUME NEW f
       PROVE  (\E k \in 1..Len(mine) : mine[k] = f) <=> f \in ToSet(facts) /\ c \in {f.source, f.target}
  <2>1. ASSUME NEW k \in 1..Len(mine), mine[k] = f
        PROVE  f \in ToSet(facts) /\ c \in {f.source, f.target}
    <3>1. PICK i \in 1..Len(facts) : i \in kept /\ mine[k] = facts[i]
      BY <1>4, <2>1 DEF Keeps
    <3>2. QED
      BY <1>1, <1>8, <2>1, <3>1 DEF ToSet
  <2>2. ASSUME f \in ToSet(facts), c \in {f.source, f.target}
        PROVE  \E k \in 1..Len(mine) : mine[k] = f
    <3>1. PICK i \in 1..Len(facts) : facts[i] = f
      BY <1>8, <2>2 DEF ToSet
    <3>2. i \in kept
      BY <1>1, <1>8, <2>2, <3>1
    <3>3. QED
      BY <1>4, <3>1, <3>2 DEF Keeps
  <2>3. QED
    BY <2>1, <2>2
<1>11. FactsAt(ids, mine, c)
  <2>1. \A k \in 1..Len(ids) : FactOf(ids[k]) = mine[k] /\ mine[k] \in Fact
    BY <1>6, <1>7, <1>9
  <2>2. \A f : (\E k \in 1..Len(ids) : mine[k] = f)
                 <=> f \in ToSet(projection.facts) /\ c \in {f.source, f.target}
    BY <1>1, <1>7, <1>10
  <2>3. QED
    BY <1>5, <1>7, <2>1, <2>2, Zenon DEF FactsAt
<1>12. QED
  BY <1>1, <1>11

\* The loop over the incident facts of the head of the queue.
Visits(v, a, r, ids) ==
  /\ v[0] = [a EXCEPT !.queue = Tail(@)] /\ VisitNode(a, r) = v[Len(ids)]
  /\ \A k \in 0..(Len(ids) - 1) : v[k + 1] = VisitFact(v[k], r, Head(a.queue), FactOf(ids[k + 1]))

\* Its recursion is well-founded.
LEMMA VisitNodeRecursion ==
  ASSUME NEW a, a.queue # <<>>, NEW r,
         NEW ids, ids = IncidentFactIds(projection, Head(a.queue)), Len(ids) \in Nat
  PROVE  \E v : Visits(v, a, r, ids)
<1> DEFINE first == [a EXCEPT !.queue = Tail(@)]
           Rec(v, n) == v = [k \in 0..n |-> IF k = 0 THEN first
                               ELSE VisitFact(v[k - 1], r, Head(a.queue), FactOf(ids[k]))]
           N == {n \in Nat : \E v : Rec(v, n)}
<1>1. 0 \in N
  <2>1. Rec([k \in 0..0 |-> first], 0)
    OBVIOUS
  <2>2. QED
    BY <2>1
<1>2. ASSUME NEW n \in Nat, n \in N PROVE n + 1 \in N
  <2>1. PICK v : Rec(v, n)
    BY <1>2
  <2> DEFINE w == [k \in 0..(n + 1) |->
                    IF k = n + 1 THEN VisitFact(v[n], r, Head(a.queue), FactOf(ids[n + 1])) ELSE v[k]]
  <2>2. ASSUME NEW k \in 0..(n + 1)
        PROVE  w[k] = IF k = 0 THEN first ELSE VisitFact(w[k - 1], r, Head(a.queue), FactOf(ids[k]))
    <3>1. CASE k = n + 1
      <4>1. k # 0 /\ k - 1 = n /\ n \in 0..(n + 1) /\ n # n + 1
        BY <3>1
      <4>2. w[k - 1] = v[n] /\ w[k] = VisitFact(v[n], r, Head(a.queue), FactOf(ids[n + 1]))
        BY <3>1, <4>1
      <4>3. QED
        BY <3>1, <4>1, <4>2
    <3>2. CASE k = 0
      <4>1. v[0] = first /\ w[0] = v[0]
        BY <2>1
      <4>2. QED
        BY <3>2, <4>1
    <3>3. CASE k # n + 1 /\ k # 0
      <4>1. k \in 0..n /\ k - 1 \in 0..(n + 1) /\ k - 1 # n + 1
        BY <3>3
      <4>2. w[k] = v[k] /\ w[k - 1] = v[k - 1]
        BY <3>3, <4>1
      <4> HIDE DEF w, first
      <4>3. v[k] = VisitFact(v[k - 1], r, Head(a.queue), FactOf(ids[k]))
        BY <2>1, <3>3, <4>1
      <4>4. QED
        BY <3>3, <4>2, <4>3
    <3>4. QED
      BY <3>1, <3>2, <3>3
  <2>3. w = [k \in 0..(n + 1) |-> w[k]]
    OBVIOUS
  <2> HIDE DEF w
  <2>4. Rec(w, n + 1)
    BY <2>2, <2>3
  <2>5. n + 1 \in Nat
    OBVIOUS
  <2> HIDE DEF Rec
  <2>6. QED
    BY <2>4, <2>5, Zenon
<1> HIDE DEF N
<1>3. Len(ids) \in N
  BY <1>1, <1>2, InductionOnNat
<1>4. \E v : Rec(v, Len(ids))
  BY <1>3 DEF N
<1>5. Rec(CHOOSE v : Rec(v, Len(ids)), Len(ids))
  BY <1>4, Zenon
<1>6. VisitNode(a, r) = (CHOOSE v : Rec(v, Len(ids)))[Len(ids)]
  BY Zenon DEF VisitNode
<1>7. PICK v : Rec(v, Len(ids)) /\ VisitNode(a, r) = v[Len(ids)]
  BY <1>5, <1>6, Zenon
<1>8. v[0] = first
  BY <1>7
<1>9. ASSUME NEW k \in 0..(Len(ids) - 1)
      PROVE  v[k + 1] = VisitFact(v[k], r, Head(a.queue), FactOf(ids[k + 1]))
  <2>1. k + 1 \in 0..Len(ids) /\ k + 1 # 0 /\ (k + 1) - 1 = k
    OBVIOUS
  <2> HIDE DEF first
  <2>2. v[k + 1] = VisitFact(v[(k + 1) - 1], r, Head(a.queue), FactOf(ids[k + 1]))
    BY <1>7, <2>1
  <2>3. QED
    BY <2>1, <2>2
<1>10. Visits(v, a, r, ids)
  BY <1>7, <1>8, <1>9 DEF Visits
<1>11. QED
  BY <1>10

\* Taking the head of the queue.
Popped(a) == [a EXCEPT !.queue = Tail(@)]

\* Taking the head changes nothing of what is reached.
LEMMA HeadTaken ==
  ASSUME NEW a \in Searches, NEW r, Searched(a, r), a.queue # <<>>,
         NEW c, c = Head(a.queue), Ordered(a, a.distances[c]),
         NEW b, b = Popped(a)
  PROVE  /\ c \in Known(a) /\ c \in ToSet(a.queue)
         /\ Searched(b, r) /\ Ordered(b, a.distances[c])
         /\ b.distances = a.distances /\ b.facts = a.facts /\ b.excluded = a.excluded
         /\ Known(b) = Known(a)
         /\ Known(b) \ ToSet(b.queue) = (Known(a) \ ToSet(a.queue)) \cup {c}
<1>1. PICK q, t : q = a.queue /\ t = Tail(a.queue)
  OBVIOUS
<1>2. q \in Seq(Entities) /\ q # <<>>
  BY <1>1 DEF Searches
<1>3. /\ t \in Seq(Entities) /\ Len(q) \in Nat /\ Len(q) >= 1 /\ Len(t) = Len(q) - 1 /\ c = q[1]
      /\ \A i \in 1..Len(t) : t[i] = q[i + 1]
  BY <1>1, <1>2, HeadTailProperties, LenProperties, EmptySeq
<1>4. /\ a.distances \in [Entities -> Nat \cup {None}] /\ a.facts \in SUBSET Fact
      /\ a.excluded \in SUBSET FactIds
      /\ a = [distances |-> a.distances, facts |-> a.facts, excluded |-> a.excluded, queue |-> a.queue]
  BY DEF Searches
<1>5. /\ b.distances = a.distances /\ b.facts = a.facts /\ b.excluded = a.excluded /\ b.queue = t
      /\ b \in Searches
  <2>1. b = [distances |-> a.distances, facts |-> a.facts, excluded |-> a.excluded, queue |-> t]
    BY <1>1, <1>4 DEF Popped
  <2>2. /\ b.distances = a.distances /\ b.facts = a.facts /\ b.excluded = a.excluded
        /\ b.queue = t
    BY <2>1
  <2>3. b = [distances |-> b.distances, facts |-> b.facts, excluded |-> b.excluded, queue |-> b.queue]
    BY <2>1, <2>2
  <2>4. b \in Searches
    BY <1>3, <1>4, <2>2, <2>3 DEF Searches
  <2>5. QED
    BY <2>2, <2>4
<1>6. Known(b) = Known(a)
  BY <1>5 DEF Known
<1>7. c \in Known(a)
  BY <1>1, <1>3 DEF Searched
<1>8. \A i \in 1..Len(t) : i + 1 \in 1..Len(q) /\ 1 \in 1..Len(q)
  BY <1>3
<1>9. Searched(b, r)
  <2>1. \A i \in 1..Len(t) : t[i] \in Known(b)
    BY <1>1, <1>3, <1>6, <1>8 DEF Searched
  <2>2. ASSUME NEW i \in 1..Len(t), NEW j \in 1..Len(t), t[i] = t[j] PROVE i = j
    <3>1. q[i + 1] = q[j + 1]
      BY <1>3, <2>2
    <3>2. i + 1 = j + 1
      BY <1>1, <1>8, <3>1 DEF Searched
    <3>3. QED
      BY <3>2
  <2>3. \A i \in 1..Len(b.queue) : b.queue[i] \in Known(b)
    BY <1>5, <2>1
  <2>4. \A i, j \in 1..Len(b.queue) : b.queue[i] = b.queue[j] => i = j
    BY <1>5, <2>2
  <2>5. \A e \in Known(b) : /\ InScope(r, e) /\ b.distances[e] <= r.max_depth
                            /\ e \in Within(r, b.distances[e])
    BY <1>5, <1>6 DEF Searched
  <2>6. \A e \in ToSet(r.seeds) : e \in Known(b) /\ b.distances[e] = 0
    BY <1>5, <1>6 DEF Searched
  <2>7. QED
    BY <1>5, <2>3, <2>4, <2>5, <2>6 DEF Searched
<1>10. Ordered(b, a.distances[c])
  <2>1. \A i \in 1..Len(t) : a.distances[c] <= b.distances[t[i]]
    BY <1>1, <1>3, <1>5, <1>8 DEF Ordered
  <2>2. ASSUME NEW i \in 1..Len(t), NEW j \in 1..Len(t), i <= j
        PROVE  b.distances[t[i]] <= b.distances[t[j]]
    <3>1. i + 1 <= j + 1
      BY <2>2
    <3>2. i + 1 \in 1..Len(q) /\ j + 1 \in 1..Len(q)
      BY <1>8
    <3>3. a.distances[q[i + 1]] <= a.distances[q[j + 1]]
      BY <1>1, <3>1, <3>2, Zenon DEF Ordered
    <3>4. t[i] = q[i + 1] /\ t[j] = q[j + 1] /\ b.distances = a.distances
      BY <1>3, <1>5
    <3>5. QED
      BY <3>3, <3>4, Zenon
  <2>3. QED
    BY <1>5, <1>6, <2>1, <2>2 DEF Ordered
<1>11. \A e : /\ e \in ToSet(a.queue) <=> e = c \/ e \in ToSet(b.queue)
              /\ c \notin ToSet(b.queue)
  <2>1. \A e : /\ e \in ToSet(a.queue) <=> \E i \in 1..Len(q) : q[i] = e
               /\ e \in ToSet(b.queue) <=> \E i \in 1..Len(t) : t[i] = e
    <3>1. DOMAIN q = 1..Len(q) /\ DOMAIN t = 1..Len(t)
      BY <1>2, <1>3, LenProperties
    <3>2. a.queue = q /\ b.queue = t
      BY <1>1, <1>5
    <3>3. ToSet(q) = {q[i] : i \in 1..Len(q)} /\ ToSet(t) = {t[i] : i \in 1..Len(t)}
      BY <3>1, Zenon DEF ToSet
    <3>4. QED
      BY <3>2, <3>3
  <2>2. \A i \in 1..Len(q) : i = 1 \/ (i - 1 \in 1..Len(t) /\ (i - 1) + 1 = i)
    BY <1>3
  <2>3. ASSUME NEW i \in 1..Len(t), t[i] = c PROVE FALSE
    <3>1. q[i + 1] = q[1]
      BY <1>3, <2>3
    <3>2. i + 1 = 1
      BY <1>1, <1>8, <3>1 DEF Searched
    <3>3. QED
      BY <3>2
  <2>4. 1 \in 1..Len(q)
    BY <1>3
  <2>5. \A i \in 1..Len(q) : q[i] = c \/ \E j \in 1..Len(t) : t[j] = q[i]
    <3> SUFFICES ASSUME NEW i \in 1..Len(q) PROVE q[i] = c \/ \E j \in 1..Len(t) : t[j] = q[i]
      OBVIOUS
    <3>1. CASE i = 1
      BY <1>3, <3>1
    <3>2. CASE i - 1 \in 1..Len(t) /\ (i - 1) + 1 = i
      <4>1. t[i - 1] = q[i]
        BY <1>3, <3>2
      <4>2. QED
        BY <3>2, <4>1
    <3>3. QED
      BY <2>2, <3>1, <3>2
  <2>6. c \notin ToSet(b.queue)
    BY <2>1, <2>3
  <2>7. \A e : e \in ToSet(a.queue) => e = c \/ e \in ToSet(b.queue)
    BY <2>1, <2>5
  <2>8. c \in ToSet(a.queue)
    BY <1>3, <2>1, <2>4
  <2>9. \A e : e \in ToSet(b.queue) => e \in ToSet(a.queue)
    <3> SUFFICES ASSUME NEW i \in 1..Len(t) PROVE t[i] \in ToSet(a.queue)
      BY <2>1
    <3>1. i + 1 \in 1..Len(q) /\ q[i + 1] = t[i]
      BY <1>3, <1>8
    <3>2. QED
      BY <2>1, <3>1
  <2>10. QED
    BY <2>6, <2>7, <2>8, <2>9
<1>12. Known(b) \ ToSet(b.queue) = (Known(a) \ ToSet(a.queue)) \cup {c}
  BY <1>6, <1>7, <1>11
<1>13. QED
  BY <1>5, <1>6, <1>7, <1>9, <1>10, <1>11, <1>12

\* The search between two turns of the loop: what has left the queue has had
\* all its facts looked at.
Searching(a, r) ==
  /\ Searched(a, r)
  /\ Examined(a, Incident(Known(a) \ ToSet(a.queue)), r)
  /\ a.queue # <<>> => Ordered(a, a.distances[Head(a.queue)])

\* The search within a turn.
Turning(a, r, M, c, depth, P) ==
  /\ Searched(a, r) /\ Examined(a, M, r)
  /\ c \in Known(a) /\ a.distances[c] = depth /\ Ordered(a, depth)
  /\ Known(a) \ ToSet(a.queue) = P

\* A turn looks at all facts of the head of the queue, which is then done.
LEMMA NodeVisited ==
  ASSUME Sound(projection), Listed(projection), NEW r, r.max_depth \in Nat,
         NEW a, Searching(a, r), a.queue # <<>>
  PROVE  /\ Searching(VisitNode(a, r), r)
         /\ \E c \in Entities : /\ c \in ToSet(a.queue)
                                /\ Known(VisitNode(a, r)) \ ToSet(VisitNode(a, r).queue)
                                     = (Known(a) \ ToSet(a.queue)) \cup {c}
<1>1. PICK c, first, P, depth, ids :
        /\ c = Head(a.queue) /\ first = [a EXCEPT !.queue = Tail(@)]
        /\ P = Known(a) \ ToSet(a.queue) /\ depth = a.distances[c]
        /\ ids = IncidentFactIds(projection, c)
  OBVIOUS
<1>2. a \in Searches /\ Searched(a, r) /\ Examined(a, Incident(P), r) /\ Ordered(a, depth)
  BY <1>1 DEF Searching, Searched
<1>3. /\ c \in Known(a) /\ c \in ToSet(a.queue)
      /\ Searched(first, r) /\ Ordered(first, depth)
      /\ first.distances = a.distances /\ first.facts = a.facts /\ first.excluded = a.excluded
      /\ Known(first) = Known(a)
      /\ Known(first) \ ToSet(first.queue) = P \cup {c}
  <2>1. Ordered(a, a.distances[c])
    BY <1>1, <1>2
  <2>2. /\ c = Head(a.queue) /\ first = Popped(a) /\ a \in Searches
        /\ Searched(a, r) /\ a.queue # <<>>
    BY <1>1, <1>2 DEF Popped
  <2>3. /\ c \in Known(a) /\ c \in ToSet(a.queue)
        /\ Searched(first, r) /\ Ordered(first, a.distances[c])
        /\ first.distances = a.distances /\ first.facts = a.facts /\ first.excluded = a.excluded
        /\ Known(first) = Known(a)
        /\ Known(first) \ ToSet(first.queue) = (Known(a) \ ToSet(a.queue)) \cup {c}
    BY ONLY <2>1, <2>2, HeadTaken
  <2>4. QED
    BY <1>1, <2>3
<1>4. c \in Entities /\ depth \in Nat
  BY <1>1, <1>2, <1>3, KnownDistance
<1>5. PICK mine : FactsAt(ids, mine, c)
  BY <1>1, <1>4, IncidentFacts
<1>6. Len(ids) \in Nat
  BY <1>5 DEF FactsAt
<1>7. PICK v : Visits(v, a, r, ids)
  BY <1>1, <1>6, VisitNodeRecursion
<1> DEFINE M(k) == Incident(P) \cup {<<c, mine[j]>> : j \in 1..k}
           S == {k \in Nat : Turning(v[k], r, M(k), c, depth, P \cup {c})}
<1>8. 0 \in S
  <2>1. M(0) = Incident(P)
    OBVIOUS
  <2>2. v[0] = first
    BY <1>1, <1>7 DEF Visits
  <2>3. Examined(first, Incident(P), r)
    BY <1>2, <1>3 DEF Examined
  <2>4. Turning(first, r, Incident(P), c, depth, P \cup {c})
    BY <1>1, <1>3, <2>3 DEF Turning
  <2> HIDE DEF M
  <2>5. QED
    BY <2>1, <2>2, <2>4
<1>9. ASSUME NEW k \in 0..(Len(ids) - 1), k \in S PROVE k + 1 \in S
  <2>1. PICK b, d, f, m, n : /\ b = v[k] /\ d = v[k + 1] /\ f = mine[k + 1]
                             /\ m = M(k) /\ n = M(k + 1)
    OBVIOUS
  <2>2. k + 1 \in 1..Len(ids) /\ k \in Nat /\ k + 1 \in Nat
    BY <1>6
  <2>3. n = m \cup {<<c, f>>}
    <3>1. \A j \in 1..(k + 1) : j \in 1..k \/ j = k + 1
      BY <2>2
    <3>2. (1..k) \subseteq 1..(k + 1) /\ k + 1 \in 1..(k + 1)
      BY <2>2
    <3>3. {<<c, mine[j]>> : j \in 1..(k + 1)} = {<<c, mine[j]>> : j \in 1..k} \cup {<<c, mine[k + 1]>>}
      BY <3>1, <3>2
    <3>4. QED
      BY <2>1, <3>3
  <2>4. Turning(b, r, m, c, depth, P \cup {c})
    BY <1>9, <2>1
  <2> HIDE DEF M
  <2>5. f \in Fact /\ FactOf(ids[k + 1]) = f
    BY <1>5, <2>1, <2>2 DEF FactsAt
  <2>6. f \in ToSet(projection.facts) /\ c \in {f.source, f.target}
    BY <1>5, <2>1, <2>2 DEF FactsAt
  <2>7. d = VisitFact(b, r, c, f)
    BY <1>1, <1>7, <2>1, <2>5 DEF Visits
  <2>8. /\ Searched(b, r) /\ Examined(b, m, r) /\ c \in Known(b) /\ b.distances[c] = depth
        /\ Ordered(b, depth) /\ Known(b) \ ToSet(b.queue) = P \cup {c}
    BY <2>4 DEF Turning
  <2>9. b \in Searches
    BY <2>8 DEF Searched
  <2>10. Visited(b, d, r, c, f)
    BY <2>5, <2>6, <2>7, <2>8, <2>9, VisitFactCases
  <2>11. Searched(d, r)
    BY <2>5, <2>6, <2>8, <2>10, SearchedStays
  <2>12. /\ Ordered(d, depth) /\ c \in Known(d) /\ d.distances[c] = depth
         /\ Known(d) \ ToSet(d.queue) = P \cup {c}
    BY <2>5, <2>8, <2>10, OrderedStays
  <2>13. Examined(d, n, r)
    BY <2>3, <2>5, <2>6, <2>8, <2>10, ExaminedGrows
  <2>14. Turning(d, r, n, c, depth, P \cup {c})
    BY <2>11, <2>12, <2>13 DEF Turning
  <2>15. QED
    BY <2>1, <2>2, <2>14
<1>10. Len(ids) \in S
  <2> HIDE DEF S
  <2>1. \A k \in 0..Len(ids) : k \in S
    BY <1>6, <1>8, <1>9, InductionUpTo
  <2>2. QED
    BY <1>6, <2>1
<1>11. PICK z : z = VisitNode(a, r)
  OBVIOUS
<1>12. z = v[Len(ids)]
  BY <1>7, <1>11 DEF Visits
<1>13. M(Len(ids)) = Incident(P \cup {c})
  <2>1. PICK m : m = M(Len(ids))
    OBVIOUS
  <2>2. ASSUME NEW p
        PROVE  p \in m <=> p \in Incident(P) \/ \E k \in 1..Len(ids) : p = <<c, mine[k]>>
    BY <2>1
  <2>3. ASSUME NEW p
        PROVE  (\E k \in 1..Len(ids) : p = <<c, mine[k]>>)
                 <=> \E f : p = <<c, f>> /\ f \in ToSet(projection.facts) /\ c \in {f.source, f.target}
    BY <1>5 DEF FactsAt
  <2>4. ASSUME NEW Q, NEW p
        PROVE  p \in Incident(Q) <=> \E e, f : /\ p = <<e, f>> /\ e \in Q
                                               /\ f \in ToSet(projection.facts) /\ e \in {f.source, f.target}
    BY DEF Incident
  <2>5. ASSUME NEW p PROVE p \in m <=> p \in Incident(P \cup {c})
    BY <2>2, <2>3, <2>4
  <2>6. QED
    BY <2>1, <2>5
<1>14. Turning(z, r, Incident(P \cup {c}), c, depth, P \cup {c})
  <2>1. PICK m : m = M(Len(ids))
    OBVIOUS
  <2>2. Turning(v[Len(ids)], r, m, c, depth, P \cup {c})
    BY <1>10, <2>1
  <2> HIDE DEF M
  <2>3. QED
    BY <1>12, <1>13, <2>1, <2>2
<1>15. z.queue # <<>> => Ordered(z, z.distances[Head(z.queue)])
  <2> SUFFICES ASSUME z.queue # <<>> PROVE Ordered(z, z.distances[Head(z.queue)])
    OBVIOUS
  <2>1. z \in Searches /\ Searched(z, r) /\ Ordered(z, depth)
    BY <1>14 DEF Turning, Searched
  <2>2. z.queue \in Seq(Entities)
    BY <2>1 DEF Searches
  <2>3. Head(z.queue) = z.queue[1] /\ Len(z.queue) \in Nat /\ 1 \in 1..Len(z.queue)
    BY <2>2, HeadTailProperties, LenProperties, EmptySeq
  <2>4. PICK b : b = z.distances[Head(z.queue)]
    OBVIOUS
  <2>5. \A i \in 1..Len(z.queue) : z.distances[z.queue[i]] \in Int
    BY <2>1, KnownDistance DEF Searched
  <2>6. depth <= b /\ b \in Int
    BY <2>1, <2>3, <2>4, <2>5 DEF Ordered
  <2>7. \A e \in Known(z) : z.distances[e] <= b + 1
    <3> SUFFICES ASSUME NEW e \in Known(z) PROVE z.distances[e] <= b + 1
      OBVIOUS
    <3>1. z.distances[e] <= depth + 1 /\ z.distances[e] \in Int
      BY <2>1, KnownDistance DEF Ordered
    <3>2. QED
      BY <1>4, <2>6, <3>1
  <2>8. \A i \in 1..Len(z.queue) : b <= z.distances[z.queue[i]]
    <3> SUFFICES ASSUME NEW i \in 1..Len(z.queue) PROVE b <= z.distances[z.queue[i]]
      OBVIOUS
    <3>1. 1 <= i
      BY <2>3
    <3>2. z.distances[z.queue[1]] <= z.distances[z.queue[i]]
      BY <2>1, <2>3, <3>1 DEF Ordered
    <3>3. QED
      BY <2>3, <2>4, <3>2
  <2>9. QED
    BY <2>1, <2>4, <2>7, <2>8 DEF Ordered
<1>16. Searching(z, r)
  BY <1>14, <1>15 DEF Turning, Searching
<1>17. QED
  BY <1>1, <1>3, <1>4, <1>11, <1>14, <1>16 DEF Turning

-----------------------------------------------------------------------------
\* The search before its first turn.
Started(r) ==
  LET seeds == Ascending(ToSet(r.seeds))
  IN  [distances |-> [e \in Entities |-> IF e \in ToSet(seeds) THEN 0 ELSE None],
       facts |-> {}, excluded |-> {}, queue |-> seeds]

\* The loop over the queue, one turn for every entity there may be.
Turns(t, r) ==
  /\ t[0] = Started(r)
  /\ \A k \in 0..(Cardinality(Entities) - 1) : t[k + 1] = VisitNode(t[k], r)
  /\ Neighborhood(r) = IF \E e \in ToSet(Ascending(ToSet(r.seeds))) : ~InScope(r, e) THEN None
                       ELSE Retained(t[Cardinality(Entities)])

\* Its recursion is well-founded.
LEMMA NeighborhoodRecursion ==
  ASSUME NEW r
  PROVE  \E t : Turns(t, r)
<1> DEFINE first == Started(r)
           Rec(t, n) == t = [k \in 0..n |-> IF k = 0 THEN first ELSE VisitNode(t[k - 1], r)]
           N == {n \in Nat : \E t : Rec(t, n)}
<1>1. 0 \in N
  <2>1. Rec([k \in 0..0 |-> first], 0)
    OBVIOUS
  <2>2. QED
    BY <2>1
<1>2. ASSUME NEW n \in Nat, n \in N PROVE n + 1 \in N
  <2>1. PICK t : Rec(t, n)
    BY <1>2
  <2> DEFINE w == [k \in 0..(n + 1) |-> IF k = n + 1 THEN VisitNode(t[n], r) ELSE t[k]]
  <2> HIDE DEF first
  <2>2. ASSUME NEW k \in 0..(n + 1)
        PROVE  w[k] = IF k = 0 THEN first ELSE VisitNode(w[k - 1], r)
    <3>1. CASE k = n + 1
      <4>1. k # 0 /\ k - 1 = n /\ n \in 0..(n + 1) /\ n # n + 1
        BY <3>1
      <4>2. w[k - 1] = t[n] /\ w[k] = VisitNode(t[n], r)
        BY <3>1, <4>1
      <4>3. QED
        BY <3>1, <4>1, <4>2
    <3>2. CASE k = 0
      <4>1. t[0] = first /\ w[0] = t[0]
        BY <2>1
      <4>2. QED
        BY <3>2, <4>1
    <3>3. CASE k # n + 1 /\ k # 0
      <4>1. k \in 0..n /\ k - 1 \in 0..(n + 1) /\ k - 1 # n + 1
        BY <3>3
      <4>2. w[k] = t[k] /\ w[k - 1] = t[k - 1]
        BY <3>3, <4>1
      <4> HIDE DEF w
      <4>3. t[k] = VisitNode(t[k - 1], r)
        BY <2>1, <3>3, <4>1
      <4>4. QED
        BY <3>3, <4>2, <4>3
    <3>4. QED
      BY <3>1, <3>2, <3>3
  <2>3. w = [k \in 0..(n + 1) |-> w[k]]
    OBVIOUS
  <2> HIDE DEF w
  <2>4. Rec(w, n + 1)
    BY <2>2, <2>3
  <2>5. n + 1 \in Nat
    OBVIOUS
  <2> HIDE DEF Rec
  <2>6. QED
    BY <2>4, <2>5, Zenon
<1> HIDE DEF N
<1> DEFINE n == Cardinality(Entities)
<1>4. n \in Nat /\ n \in N
  <2>1. n \in Nat
    BY ProjectionAssumption, FS_CardinalityType
  <2>2. QED
    BY <2>1, <1>1, <1>2, InductionOnNat
<1>5. \E t : Rec(t, n)
  BY <1>4 DEF N
<1>6. Rec(CHOOSE t : Rec(t, n), n)
  BY <1>5, Zenon
<1>7. Neighborhood(r) = IF \E e \in ToSet(Ascending(ToSet(r.seeds))) :
                              ~(IF VisibleNode(e, r.known_at) = None THEN FALSE
                                ELSE NodeAllowed(r, VisibleNode(e, r.known_at)))
                        THEN None
                        ELSE Retained((CHOOSE t : Rec(t, n))[n])
  BY Zenon DEF Neighborhood, Started
<1> HIDE DEF n
<1>8. \A e : InScope(r, e) <=> ~(VisibleNode(e, r.known_at) = None) /\ NodeAllowed(r, VisibleNode(e, r.known_at))
  BY DEF InScope, Visible
<1>9. PICK t : /\ Rec(t, n)
               /\ Neighborhood(r) = IF \E e \in ToSet(Ascending(ToSet(r.seeds))) : ~InScope(r, e)
                                    THEN None ELSE Retained(t[n])
  <2> HIDE DEF Rec, first
  <2>1. PICK t : Rec(t, n) /\ t = CHOOSE u : Rec(u, n)
    BY <1>6, Zenon
  <2>2. (\E e \in ToSet(Ascending(ToSet(r.seeds))) : ~InScope(r, e))
          <=> (\E e \in ToSet(Ascending(ToSet(r.seeds))) :
                 ~(IF VisibleNode(e, r.known_at) = None THEN FALSE
                   ELSE NodeAllowed(r, VisibleNode(e, r.known_at))))
    BY <1>8
  <2>3. QED
    BY <1>7, <2>1, <2>2, Zenon
<1>10. t[0] = first
  BY <1>4, <1>9
<1>11. ASSUME NEW k \in 0..(n - 1) PROVE t[k + 1] = VisitNode(t[k], r)
  <2>1. k + 1 \in 0..n /\ k + 1 # 0 /\ (k + 1) - 1 = k
    BY <1>4
  <2> HIDE DEF first
  <2>2. t[k + 1] = VisitNode(t[(k + 1) - 1], r)
    BY <1>9, <2>1
  <2>3. QED
    BY <2>1, <2>2
<1>12. Turns(t, r)
  BY <1>9, <1>10, <1>11 DEF Turns, n
<1>13. QED
  BY <1>12

\* The seeds of a request as the loop starts with them.
LEMMA SeedsListed ==
  ASSUME NEW r, r.seeds \in Seq(Entities)
  PROVE  LET seeds == Ascending(ToSet(r.seeds))
         IN  /\ seeds \in Seq(Entities) /\ Len(seeds) \in Nat
             /\ ToSet(seeds) = ToSet(r.seeds) /\ ToSet(r.seeds) \subseteq Entities
             /\ \A i, j \in 1..Len(seeds) : seeds[i] = seeds[j] => i = j
             /\ \A i \in 1..Len(seeds) : seeds[i] \in ToSet(r.seeds)
<1>1. PICK S, seeds : S = ToSet(r.seeds) /\ seeds = Ascending(S)
  OBVIOUS
<1>2. S \in SUBSET Entities
  BY <1>1, LenProperties, ElementOfSeq DEF ToSet
<1>3. IsFiniteSet(S) /\ S \subseteq Nat
  BY <1>2, ProjectionAssumption, AgentAssumption, FS_Subset
<1>4. Sorts(seeds, S, {p \in S \X S : p[1] < p[2]})
  BY <1>1, <1>3, AscendingSorts
<1>5. /\ seeds \in Seq(S) /\ \A x \in S : \E k \in 1..Len(seeds) : seeds[k] = x
      /\ \A i, j \in 1..Len(seeds) : seeds[i] = seeds[j] => i = j
  BY <1>4 DEF Sorts
<1>6. Len(seeds) \in Nat /\ DOMAIN seeds = 1..Len(seeds) /\ \A i \in 1..Len(seeds) : seeds[i] \in S
  BY <1>5, LenProperties, ElementOfSeq
<1>7. seeds \in Seq(Entities)
  BY <1>2, <1>5
<1>8. ToSet(seeds) = S
  BY <1>5, <1>6 DEF ToSet
<1>9. QED
  BY <1>1, <1>2, <1>5, <1>6, <1>7, <1>8

\* What holds of the search when it starts.
LEMMA StartSearches ==
  ASSUME NEW r, r.seeds \in Seq(Entities), r.max_depth \in Nat, \A e \in ToSet(r.seeds) : InScope(r, e)
  PROVE  Searching(Started(r), r) /\ Known(Started(r)) \ ToSet(Started(r).queue) = {}
<1>1. PICK seeds, S, a : seeds = Ascending(S) /\ S = ToSet(r.seeds) /\ a = Started(r)
  OBVIOUS
<1>2. /\ seeds \in Seq(Entities) /\ Len(seeds) \in Nat /\ ToSet(seeds) = S /\ S \subseteq Entities
      /\ \A i, j \in 1..Len(seeds) : seeds[i] = seeds[j] => i = j
      /\ \A i \in 1..Len(seeds) : seeds[i] \in S
  BY <1>1, SeedsListed
<1>3. a = [distances |-> [e \in Entities |-> IF e \in S THEN 0 ELSE None],
           facts |-> {}, excluded |-> {}, queue |-> seeds]
  BY <1>1, <1>2 DEF Started
<1>4. PICK D : D = [e \in Entities |-> IF e \in S THEN 0 ELSE None]
  OBVIOUS
<1>5. D \in [Entities -> Nat \cup {None}] /\ \A e \in Entities : D[e] = IF e \in S THEN 0 ELSE None
  BY <1>4
<1>6. a.distances = D /\ a.facts = {} /\ a.excluded = {} /\ a.queue = seeds
  BY <1>3, <1>4
<1>7. a \in Searches
  <2>1. a = [distances |-> D, facts |-> {}, excluded |-> {}, queue |-> seeds]
    BY <1>3, <1>4
  <2>2. QED
    BY <1>2, <1>5, <2>1 DEF Searches
<1>8. \A e : e \in Known(a) <=> e \in S
  BY <1>2, <1>5, <1>6, NoneAssumption DEF Known
<1>9. \A e \in S : a.distances[e] = 0
  BY <1>2, <1>5, <1>6
<1>10. Searched(a, r)
  <2>1. \A e \in S : e \in Within(r, 0)
    BY <1>1, WithinSteps
  <2>2. \A e \in Known(a) : /\ InScope(r, e) /\ a.distances[e] <= r.max_depth
                            /\ e \in Within(r, a.distances[e])
    BY <1>1, <1>8, <1>9, <2>1
  <2>3. \A i \in 1..Len(a.queue) : a.queue[i] \in Known(a)
    BY <1>2, <1>6, <1>8
  <2>4. \A i, j \in 1..Len(a.queue) : a.queue[i] = a.queue[j] => i = j
    BY <1>2, <1>6
  <2>5. QED
    BY <1>1, <1>7, <1>8, <1>9, <2>2, <2>3, <2>4 DEF Searched
<1>11. Known(a) \ ToSet(a.queue) = {}
  BY <1>2, <1>6, <1>8
<1>12. Examined(a, Incident({}), r)
  <2>1. Incident({}) = {}
    BY DEF Incident
  <2>2. QED
    BY <1>6, <2>1 DEF Examined
<1>13. a.queue # <<>> => Ordered(a, a.distances[Head(a.queue)])
  <2> SUFFICES ASSUME a.queue # <<>> PROVE Ordered(a, a.distances[Head(a.queue)])
    OBVIOUS
  <2>1. Head(seeds) = seeds[1] /\ 1 \in 1..Len(seeds)
    BY <1>2, <1>6, HeadTailProperties, LenProperties, EmptySeq
  <2>2. a.distances[Head(a.queue)] = 0
    BY <1>2, <1>6, <1>9, <2>1
  <2>3. \A i \in 1..Len(a.queue) : a.distances[a.queue[i]] = 0
    BY <1>2, <1>6, <1>9
  <2>4. \A e \in Known(a) : a.distances[e] = 0
    BY <1>8, <1>9
  <2>5. QED
    BY <2>2, <2>3, <2>4 DEF Ordered
<1>14. QED
  BY <1>1, <1>10, <1>11, <1>12, <1>13 DEF Searching

\* The queue is empty when the loop ends: every entity enters it at most once.
LEMMA SearchEnds ==
  ASSUME Sound(projection), Listed(projection), NEW r, r.seeds \in Seq(Entities),
         r.max_depth \in Nat, \A e \in ToSet(r.seeds) : InScope(r, e), NEW t, Turns(t, r)
  PROVE  /\ Searching(t[Cardinality(Entities)], r)
         /\ t[Cardinality(Entities)].queue = <<>>
<1>1. PICK n : n = Cardinality(Entities)
  OBVIOUS
<1>2. n \in Nat /\ IsFiniteSet(Entities)
  BY <1>1, ProjectionAssumption, FS_CardinalityType
<1> DEFINE Done(a) == Known(a) \ ToSet(a.queue)
           S == {k \in Nat : /\ Searching(t[k], r)
                             /\ t[k].queue = <<>> \/ Cardinality(Done(t[k])) = k}
<1>3. 0 \in S
  <2>1. t[0] = Started(r)
    BY DEF Turns
  <2>2. Searching(t[0], r) /\ Done(t[0]) = {}
    BY <2>1, StartSearches
  <2>3. Cardinality(Done(t[0])) = 0
    BY <2>2, FS_EmptySet
  <2> HIDE DEF Done
  <2>4. QED
    BY <2>2, <2>3
<1>4. ASSUME NEW k \in 0..(n - 1), k \in S PROVE k + 1 \in S
  <2>1. PICK a, b : a = t[k] /\ b = t[k + 1]
    OBVIOUS
  <2>2. b = VisitNode(a, r) /\ k + 1 \in Nat /\ k \in Nat
    BY <1>1, <1>2, <2>1 DEF Turns
  <2>3. Searching(a, r) /\ (a.queue = <<>> \/ Cardinality(Done(a)) = k)
    BY <1>4, <2>1
  <2>4. CASE a.queue = <<>>
    <3>1. b = a
      BY <2>2, <2>4 DEF VisitNode
    <3> HIDE DEF Done
    <3>2. QED
      BY <2>1, <2>2, <2>3, <2>4, <3>1
  <2>5. CASE a.queue # <<>>
    <3>1. Searching(b, r)
      BY <2>2, <2>3, <2>5, NodeVisited
    <3>2. PICK c \in Entities : c \in ToSet(a.queue) /\ Done(b) = Done(a) \cup {c}
      BY <2>2, <2>3, <2>5, NodeVisited
    <3>3. c \notin Done(a) /\ Done(a) \in SUBSET Entities
      BY <3>2 DEF Known
    <3> HIDE DEF Done
    <3>4. IsFiniteSet(Done(a))
      BY <1>2, <3>3, FS_Subset
    <3>5. Cardinality(Done(b)) = k + 1
      BY <2>3, <2>5, <3>2, <3>3, <3>4, FS_AddElement
    <3>6. QED
      BY <2>1, <2>2, <3>1, <3>5
  <2>6. QED
    BY <2>4, <2>5
<1>5. n \in S
  <2> HIDE DEF S
  <2>1. \A k \in 0..n : k \in S
    BY <1>2, <1>3, <1>4, InductionUpTo
  <2>2. QED
    BY <1>2, <2>1
<1>6. PICK a : a = t[n]
  OBVIOUS
<1>7. Searching(a, r) /\ (a.queue = <<>> \/ Cardinality(Done(a)) = n)
  BY <1>5, <1>6
<1>8. ASSUME a.queue # <<>> PROVE FALSE
  <2>1. Done(a) \in SUBSET Entities
    BY DEF Known
  <2>2. Cardinality(Done(a)) = Cardinality(Entities)
    BY <1>1, <1>7, <1>8
  <2>3. Done(a) = Entities
    <3> HIDE DEF Done
    <3>1. QED
      BY <1>2, <2>1, <2>2, FS_Subset
  <2>4. a.queue \in Seq(Entities)
    BY <1>7 DEF Searching, Searched, Searches
  <2>5. 1 \in DOMAIN a.queue /\ a.queue[1] \in Entities
    BY <1>8, <2>4, LenProperties, EmptySeq, ElementOfSeq
  <2>6. a.queue[1] \in ToSet(a.queue)
    BY <2>5 DEF ToSet
  <2>7. QED
    BY <2>3, <2>5, <2>6
<1>9. QED
  BY <1>1, <1>6, <1>7, <1>8

\* Depths are cumulative.
LEMMA WithinGrows ==
  ASSUME NEW r, NEW i \in Nat, NEW j \in Nat, i <= j
  PROVE  Within(r, i) \subseteq Within(r, j)
<1> DEFINE S == {k \in Nat : Within(r, i) \subseteq Within(r, i + k)}
<1>1. 0 \in S
  OBVIOUS
<1>2. ASSUME NEW k \in Nat, k \in S PROVE k + 1 \in S
  <2>1. i + k \in Nat /\ i + (k + 1) = (i + k) + 1 /\ k + 1 \in Nat
    OBVIOUS
  <2>2. Within(r, i + (k + 1)) = Spread(r, Within(r, i + k))
    BY <2>1, WithinSteps
  <2>3. Within(r, i + k) \subseteq Within(r, i + (k + 1))
    BY <2>2 DEF Spread
  <2>4. QED
    BY <1>2, <2>1, <2>3
<1>3. j - i \in S
  <2> HIDE DEF S
  <2>1. \A k \in Nat : k \in S
    BY <1>1, <1>2, InductionOnNat
  <2>2. QED
    BY <2>1
<1>4. i + (j - i) = j
  OBVIOUS
<1>5. QED
  BY <1>3, <1>4

\* A search whose queue is empty has found what the reference asks for.
LEMMA SearchCompletes ==
  ASSUME NEW r, r.max_depth \in Nat, NEW a, Searching(a, r), a.queue = <<>>
  PROVE  LET near == Within(r, r.max_depth)
             found == Retained(a)
         IN  /\ \A d \in 0..r.max_depth :
                  Within(r, d) = {e \in Entities : found.distances[e] # None /\ AtMost(found.distances[e], d)}
             /\ {e \in Entities : found.distances[e] # None} = near
             /\ found.facts = {f \in Usable(r) : {f.source, f.target} \subseteq near}
             /\ found.excluded =
                  {f.id : f \in {g \in Usable(r) :
                      \E e, o \in {g.source, g.target} :
                         e \in near /\ Visible(r, o) /\ ~InScope(r, o)}}
<1>1. PICK M, D, max : M = Incident(Known(a)) /\ D = a.distances /\ max = r.max_depth /\ max \in Nat
  OBVIOUS
<1>2. a \in Searches /\ Searched(a, r) /\ Examined(a, M, r)
  <2>1. ToSet(a.queue) = {}
    BY DEF ToSet
  <2>2. Known(a) \ ToSet(a.queue) = Known(a)
    BY <2>1
  <2>3. QED
    BY <1>1, <2>2 DEF Searching, Searched
<1>3. \A e, f : <<e, f>> \in M <=> e \in Known(a) /\ f \in ToSet(projection.facts) /\ e \in {f.source, f.target}
  BY <1>1, IncidentPairs
<1>4. \A e \in Known(a) : /\ e \in Entities /\ D[e] \in Nat /\ D[e] <= max /\ InScope(r, e)
                          /\ e \in Within(r, D[e])
  BY <1>1, <1>2, KnownDistance DEF Searched
<1>5. \A f \in Usable(r) : f \in ToSet(projection.facts)
  BY DEF Usable
<1>6. \A f, e : e \in {f.source, f.target} =>
        Other(f, e) \in {f.source, f.target} /\ {e, Other(f, e)} = {f.source, f.target}
  BY DEF Other
\* One more step of the reference is one more turn of the search.
<1>7. ASSUME NEW d \in 0..(max - 1), \A e \in Within(r, d) : e \in Known(a) /\ D[e] <= d
      PROVE  \A e \in Within(r, d + 1) : e \in Known(a) /\ D[e] <= d + 1
  <2>1. d \in Nat /\ d < max
    BY <1>1
  <2>2. ASSUME NEW f \in Edges(r), NEW e \in {f.source, f.target}, e \in Within(r, d)
        PROVE  Other(f, e) \in Known(a) /\ D[Other(f, e)] <= d + 1
    <3>1. e \in Known(a) /\ D[e] <= d /\ D[e] \in Nat
      BY <1>4, <1>7, <2>2
    <3>2. f \in Usable(r) /\ InScope(r, Other(f, e))
      BY <1>6, <2>2 DEF Edges
    <3>3. <<e, f>> \in M
      BY <1>3, <1>5, <2>2, <3>1, <3>2
    <3>4. a.distances[e] < r.max_depth
      BY <1>1, <2>1, <3>1
    <3>5. Other(f, e) \in Known(a) /\ D[Other(f, e)] <= D[e] + 1
      BY <1>1, <1>2, <3>2, <3>3, <3>4 DEF Examined
    <3>6. D[Other(f, e)] \in Nat
      BY <1>4, <3>5
    <3>7. QED
      BY <2>1, <3>1, <3>5, <3>6
  <2>3. \A f : Other(f, f.source) = f.target /\ Other(f, f.target) = f.source
    BY DEF Other
  <2>4. Within(r, d + 1) = Spread(r, Within(r, d))
    BY <2>1, WithinSteps
  <2> SUFFICES ASSUME NEW e \in Within(r, d + 1) PROVE e \in Known(a) /\ D[e] <= d + 1
    OBVIOUS
  <2>5. \/ e \in Within(r, d)
        \/ \E f \in Edges(r) : f.target \in Within(r, d) /\ e = f.source
        \/ \E f \in Edges(r) : f.source \in Within(r, d) /\ e = f.target
    BY <2>4 DEF Spread
  <2>6. CASE e \in Within(r, d)
    <3>1. e \in Known(a) /\ D[e] <= d
      BY <1>7, <2>6
    <3>2. D[e] \in Nat
      BY <1>4, <3>1
    <3>3. QED
      BY <2>1, <3>1, <3>2
  <2>7. CASE \E f \in Edges(r) : f.target \in Within(r, d) /\ e = f.source
    BY <2>2, <2>3, <2>7
  <2>8. CASE \E f \in Edges(r) : f.source \in Within(r, d) /\ e = f.target
    BY <2>2, <2>3, <2>8
  <2>9. QED
    BY <2>5, <2>6, <2>7, <2>8
<1>8. \A d \in 0..max : \A e \in Within(r, d) : e \in Known(a) /\ D[e] <= d
  <2> DEFINE S == {d \in Nat : \A e \in Within(r, d) : e \in Known(a) /\ D[e] <= d}
  <2>1. 0 \in S
    <3>1. \A e \in Within(r, 0) : e \in Known(a) /\ D[e] = 0
      BY <1>1, <1>2, WithinSteps DEF Searched
    <3>2. QED
      BY <3>1
  <2>2. \A d \in 0..(max - 1) : d \in S => d + 1 \in S
    BY <1>7
  <2>3. \A d \in 0..max : d \in S
    <3> HIDE DEF S
    <3>1. QED
      BY <1>1, <2>1, <2>2, InductionUpTo
  <2>4. QED
    BY <2>3
<1>9. \A d \in 0..max : \A e : e \in Within(r, d) <=> e \in Known(a) /\ D[e] <= d
  <2> SUFFICES ASSUME NEW d \in 0..max, NEW e, e \in Known(a), D[e] <= d PROVE e \in Within(r, d)
    BY <1>8
  <2>1. D[e] \in Nat /\ e \in Within(r, D[e])
    BY <1>4
  <2>2. Within(r, D[e]) \subseteq Within(r, d)
    BY <2>1, WithinGrows
  <2>3. QED
    BY <2>1, <2>2
<1>10. PICK near, found : near = Within(r, max) /\ found = Retained(a)
  OBVIOUS
<1>11. \A e : e \in near <=> e \in Known(a)
  <2>1. max \in 0..max
    BY <1>1
  <2>2. QED
    BY <1>4, <1>9, <1>10, <2>1
<1>12. /\ found.distances = D /\ found.excluded = a.excluded
       /\ found.facts = {f \in a.facts : D[f.source] # None /\ D[f.target] # None}
  <2>1. a = [distances |-> a.distances, facts |-> a.facts, excluded |-> a.excluded, queue |-> a.queue]
    BY <1>2 DEF Searches
  <2>2. found = [a EXCEPT !.facts = {f \in a.facts : D[f.source] # None /\ D[f.target] # None}]
    BY <1>1, <1>10 DEF Retained
  <2>3. QED
    BY <1>1, <2>1, <2>2
<1>13. ASSUME NEW d \in 0..max
       PROVE  Within(r, d) = {e \in Entities : found.distances[e] # None /\ AtMost(found.distances[e], d)}
  <2>1. d # None
    BY NoneAssumption
  <2>2. \A e \in Entities : (found.distances[e] # None /\ AtMost(found.distances[e], d))
                              <=> e \in Known(a) /\ D[e] <= d
    BY <1>1, <1>12, <2>1 DEF AtMost, Known
  <2>3. \A e \in Known(a) : e \in Entities
    BY <1>4
  <2>4. QED
    BY <1>9, <2>2, <2>3
<1>14. {e \in Entities : found.distances[e] # None} = near
  BY <1>1, <1>4, <1>11, <1>12 DEF Known
<1>15. found.facts = {f \in Usable(r) : {f.source, f.target} \subseteq near}
  <2>1. \A f \in a.facts : f \in Usable(r) /\ f \in Fact
    BY <1>2 DEF Examined, Searches
  <2>2. ASSUME NEW f \in Usable(r), {f.source, f.target} \subseteq near PROVE f \in a.facts
    <3>1. f.source \in Known(a) /\ f.target \in Known(a)
      BY <1>11, <2>2
    <3>2. Other(f, f.source) = f.target
      BY DEF Other
    <3>3. <<f.source, f>> \in M /\ <<Other(f, f.source), f>> \in M
      BY <1>3, <1>5, <3>1, <3>2
    <3>4. QED
      BY <1>2, <3>3 DEF Examined
  <2>3. \A f \in a.facts : (D[f.source] # None /\ D[f.target] # None)
                             <=> {f.source, f.target} \subseteq near
    <3> SUFFICES ASSUME NEW f \in a.facts
                 PROVE  (D[f.source] # None /\ D[f.target] # None) <=> {f.source, f.target} \subseteq near
      OBVIOUS
    <3>1. f.source \in Entities /\ f.target \in Entities
      BY <2>1, FactParts
    <3>2. QED
      BY <1>1, <1>11, <3>1 DEF Known
  <2>4. ASSUME NEW f PROVE f \in found.facts <=> f \in Usable(r) /\ {f.source, f.target} \subseteq near
    BY <1>12, <2>1, <2>2, <2>3
  <2>5. found.facts \subseteq Usable(r)
    BY <1>12, <2>1
  <2>6. QED
    BY <2>4, <2>5
<1>16. found.excluded =
         {f.id : f \in {g \in Usable(r) :
             \E e, o \in {g.source, g.target} : e \in near /\ Visible(r, o) /\ ~InScope(r, o)}}
  <2>1. ASSUME NEW f
        PROVE  (\E e : <<e, f>> \in M /\ LeadsOut(r, f, Other(f, e)))
                 <=> /\ f \in Usable(r)
                     /\ \E e, o \in {f.source, f.target} : e \in near /\ Visible(r, o) /\ ~InScope(r, o)
    <3>1. ASSUME NEW e, <<e, f>> \in M, LeadsOut(r, f, Other(f, e))
          PROVE  /\ f \in Usable(r)
                 /\ \E g, o \in {f.source, f.target} : g \in near /\ Visible(r, o) /\ ~InScope(r, o)
      <4>1. e \in near /\ e \in {f.source, f.target} /\ Other(f, e) \in {f.source, f.target}
        BY <1>3, <1>6, <1>11, <3>1
      <4>2. QED
        BY <3>1, <4>1 DEF LeadsOut
    <3>2. ASSUME f \in Usable(r), NEW e \in {f.source, f.target}, NEW o \in {f.source, f.target},
                 e \in near, Visible(r, o), ~InScope(r, o)
          PROVE  \E g : <<g, f>> \in M /\ LeadsOut(r, f, Other(f, g))
      <4>1. e \in Known(a) /\ InScope(r, e)
        BY <1>4, <1>11, <3>2
      <4>2. o = Other(f, e)
        BY <3>2, <4>1 DEF Other
      <4>3. <<e, f>> \in M
        BY <1>3, <1>5, <3>2, <4>1
      <4>4. LeadsOut(r, f, Other(f, e))
        BY <3>2, <4>2 DEF LeadsOut
      <4>5. QED
        BY <4>3, <4>4
    <3>3. QED
      BY <3>1, <3>2
  <2>2. ASSUME NEW id
        PROVE  id \in found.excluded <=> \E f : /\ \E e : <<e, f>> \in M /\ LeadsOut(r, f, Other(f, e))
                                               /\ id = f.id
    BY <1>2, <1>12 DEF Examined
  <2>3. ASSUME NEW id
        PROVE  id \in found.excluded
                 <=> \E f \in Usable(r) :
                       /\ \E e, o \in {f.source, f.target} : e \in near /\ Visible(r, o) /\ ~InScope(r, o)
                       /\ id = f.id
    BY <2>1, <2>2
  <2>4. QED
    BY <2>3
<1>17. QED
  BY <1>1, <1>10, <1>13, <1>14, <1>15, <1>16

\* The neighbourhood of any request is the one of the reference.
LEMMA NeighborhoodComplete ==
  ASSUME Sound(projection), Listed(projection), NEW r, r.seeds \in Seq(Entities), r.max_depth \in Nat
  PROVE  CompleteFor(r, Neighborhood(r), Within(r, r.max_depth))
<1>1. PICK t : Turns(t, r)
  BY NeighborhoodRecursion
<1>2. PICK n, a : n = Cardinality(Entities) /\ a = t[n]
  OBVIOUS
<1>3. ToSet(Ascending(ToSet(r.seeds))) = ToSet(r.seeds)
  BY SeedsListed
<1>4. Neighborhood(r) = IF \E e \in ToSet(r.seeds) : ~InScope(r, e) THEN None ELSE Retained(a)
  BY <1>1, <1>2, <1>3 DEF Turns
<1>5. CASE \E e \in ToSet(r.seeds) : ~InScope(r, e)
  BY <1>4, <1>5 DEF CompleteFor
<1>6. CASE ~\E e \in ToSet(r.seeds) : ~InScope(r, e)
  <2>1. \A e \in ToSet(r.seeds) : InScope(r, e)
    BY <1>6
  <2>2. Searching(a, r) /\ a.queue = <<>>
    BY <1>1, <1>2, <2>1, SearchEnds
  <2>3. Neighborhood(r) = Retained(a)
    BY <1>4, <1>6
  <2>4. QED
    BY <1>6, <2>2, <2>3, SearchCompletes DEF CompleteFor
<1>7. QED
  BY <1>5, <1>6

-----------------------------------------------------------------------------
\* Sums over finite sets.

Pick(s) == CHOOSE x \in s : TRUE

Rest(s) == s \ {Pick(s)}

\* The element picked is one, and leaves one element less.
LEMMA PickRest ==
  ASSUME NEW s, IsFiniteSet(s), s # {}
  PROVE  /\ Pick(s) \in s /\ Rest(s) \subseteq s /\ IsFiniteSet(Rest(s))
         /\ Cardinality(s) \in Nat /\ Cardinality(Rest(s)) = Cardinality(s) - 1
         /\ Cardinality(s) - 1 \in Nat
<1>1. Pick(s) \in s
  BY Zenon DEF Pick
<1>2. Rest(s) \subseteq s
  BY DEF Rest
<1>3. IsFiniteSet(Rest(s)) /\ Cardinality(Rest(s)) = Cardinality(s) - 1
  BY <1>1, FS_RemoveElement DEF Rest
<1>4. Cardinality(s) \in Nat /\ Cardinality(Rest(s)) \in Nat
  BY <1>3, FS_CardinalityType
<1>5. QED
  BY <1>1, <1>2, <1>3, <1>4

\* The recursion of SumFunctionOnSet.
Sums(f, w, S) ==
  \A s \in SUBSET S : f[s] = IF s = {} THEN 0 ELSE w[Pick(s)] + f[Rest(s)]

\* It is well-founded.
LEMMA SumRecursion ==
  ASSUME NEW S, IsFiniteSet(S), NEW w
  PROVE  \E f : Sums(f, w, S) /\ SumFunctionOnSet(w, S) = f[S]
<1> DEFINE Upto(f, m) == \A s \in SUBSET S : Cardinality(s) <= m =>
                            f[s] = IF s = {} THEN 0 ELSE w[Pick(s)] + f[Rest(s)]
           N == {m \in Nat : \E f : Upto(f, m)}
<1>1. \A s \in SUBSET S : IsFiniteSet(s) /\ Cardinality(s) \in Nat /\ Cardinality(s) <= Cardinality(S)
  BY FS_Subset, FS_CardinalityType
<1>2. Cardinality(S) \in Nat
  BY <1>1
<1>3. 0 \in N
  <2> DEFINE f == [s \in SUBSET S |-> 0]
  <2>1. ASSUME NEW s \in SUBSET S, Cardinality(s) <= 0 PROVE s = {}
    BY <1>1, <2>1, FS_EmptySet
  <2>2. \A s \in SUBSET S : f[s] = 0
    OBVIOUS
  <2> HIDE DEF f
  <2>3. Upto(f, 0)
    BY <2>1, <2>2
  <2>4. QED
    BY <2>3
<1>4. ASSUME NEW m \in Nat, m \in N PROVE m + 1 \in N
  <2>1. PICK f : Upto(f, m)
    BY <1>4
  <2> DEFINE g == [s \in SUBSET S |-> IF s = {} THEN 0 ELSE w[Pick(s)] + f[Rest(s)]]
  <2>2. \A s \in SUBSET S : g[s] = IF s = {} THEN 0 ELSE w[Pick(s)] + f[Rest(s)]
    OBVIOUS
  <2> HIDE DEF g
  <2>3. ASSUME NEW s \in SUBSET S, Cardinality(s) <= m + 1
        PROVE  g[s] = IF s = {} THEN 0 ELSE w[Pick(s)] + g[Rest(s)]
    <3>1. CASE s = {}
      BY <2>2, <3>1
    <3>2. CASE s # {}
      <4>1. Rest(s) \in SUBSET S /\ Cardinality(Rest(s)) <= m
        <5>1. IsFiniteSet(s) /\ Cardinality(s) \in Nat
          BY <1>1
        <5>2. Rest(s) \subseteq s /\ Cardinality(Rest(s)) = Cardinality(s) - 1
          BY <3>2, <5>1, PickRest
        <5>3. QED
          BY <2>3, <5>1, <5>2
      <4>2. f[Rest(s)] = g[Rest(s)]
        BY <2>1, <2>2, <4>1
      <4>3. QED
        BY <2>2, <3>2, <4>2
    <3>3. QED
      BY <3>1, <3>2
  <2>4. Upto(g, m + 1)
    BY <2>3
  <2>5. m + 1 \in Nat
    OBVIOUS
  <2> HIDE DEF Upto
  <2>6. QED
    BY <2>4, <2>5, Zenon
<1> HIDE DEF N
<1>5. Cardinality(S) \in N
  BY <1>2, <1>3, <1>4, InductionOnNat
<1>6. PICK f : Upto(f, Cardinality(S))
  BY <1>5 DEF N
<1>7. Sums(f, w, S)
  BY <1>1, <1>6 DEF Sums
<1> DEFINE Rec(h) == h = [s \in SUBSET S |-> IF s = {} THEN 0 ELSE w[Pick(s)] + h[Rest(s)]]
<1> DEFINE g == [s \in SUBSET S |-> f[s]]
<1>8. \A s \in SUBSET S : g[s] = f[s]
  OBVIOUS
<1>9. \A s \in SUBSET S : Rest(s) \in SUBSET S
  BY DEF Rest
<1>10. g = [s \in SUBSET S |-> g[s]]
  OBVIOUS
<1> HIDE DEF g
<1>11. \A s \in SUBSET S : g[s] = IF s = {} THEN 0 ELSE w[Pick(s)] + g[Rest(s)]
  BY <1>7, <1>8, <1>9 DEF Sums
<1>12. Rec(g)
  BY <1>10, <1>11
<1>13. SumFunctionOnSet(w, S) = (CHOOSE h : Rec(h))[S]
  BY Zenon DEF SumFunctionOnSet, FoldFunctionOnSet, MapThenFoldSet, Pick, Rest
<1>14. Rec(CHOOSE h : Rec(h))
  <2> HIDE DEF Rec
  <2>1. QED
    BY <1>12, Zenon
<1>15. PICK h : h = (CHOOSE e : Rec(e))
  OBVIOUS
<1>16. Rec(h) /\ SumFunctionOnSet(w, S) = h[S]
  <2> HIDE DEF Rec
  <2>1. QED
    BY <1>13, <1>14, <1>15
<1>17. \A s \in SUBSET S : h[s] = IF s = {} THEN 0 ELSE w[Pick(s)] + h[Rest(s)]
  BY <1>16
<1>18. QED
  BY <1>16, <1>17 DEF Sums

\* The sum over a set depends on its elements' weights only.
LEMMA SumsAgree ==
  ASSUME NEW f, NEW w, NEW S, Sums(f, w, S), NEW g, NEW v, NEW R, Sums(g, v, R),
         NEW T, IsFiniteSet(T), T \subseteq S, T \subseteq R,
         \A x \in T : w[x] = v[x] /\ w[x] \in Nat
  PROVE  f[T] = g[T] /\ f[T] \in Nat
<1> DEFINE Same(m) == \A U \in SUBSET T : Cardinality(U) <= m => f[U] = g[U] /\ f[U] \in Nat
           N == {m \in Nat : Same(m)}
<1>1. \A U \in SUBSET T : IsFiniteSet(U) /\ Cardinality(U) \in Nat
  BY FS_Subset, FS_CardinalityType
<1>2. f[{}] = 0 /\ g[{}] = 0
  BY DEF Sums
<1>3. 0 \in N
  <2>1. ASSUME NEW U \in SUBSET T, Cardinality(U) <= 0 PROVE U = {}
    BY <1>1, <2>1, FS_EmptySet
  <2>2. QED
    BY <1>2, <2>1
<1>4. ASSUME NEW m \in Nat, m \in N PROVE m + 1 \in N
  <2>1. ASSUME NEW U \in SUBSET T, Cardinality(U) <= m + 1 PROVE f[U] = g[U] /\ f[U] \in Nat
    <3>1. CASE U = {}
      BY <1>2, <3>1
    <3>2. CASE U # {}
      <4>1. /\ IsFiniteSet(U) /\ Pick(U) \in U /\ Rest(U) \subseteq U
            /\ Cardinality(U) \in Nat /\ Cardinality(Rest(U)) = Cardinality(U) - 1
        BY <1>1, <3>2, PickRest
      <4>2. f[Rest(U)] = g[Rest(U)] /\ f[Rest(U)] \in Nat
        <5>1. Rest(U) \in SUBSET T /\ Cardinality(Rest(U)) <= m
          BY <2>1, <4>1
        <5>2. QED
          BY <1>4, <5>1
      <4>3. w[Pick(U)] = v[Pick(U)] /\ w[Pick(U)] \in Nat
        BY <4>1
      <4>4. f[U] = w[Pick(U)] + f[Rest(U)] /\ g[U] = v[Pick(U)] + g[Rest(U)]
        BY <3>2 DEF Sums
      <4>5. QED
        BY <4>2, <4>3, <4>4
    <3>3. QED
      BY <3>1, <3>2
  <2>2. QED
    BY <2>1
<1>5. Cardinality(T) \in Nat
  BY <1>1
<1>6. Cardinality(T) \in N
  <2> HIDE DEF N
  <2>1. QED
    BY <1>3, <1>4, <1>5, InductionOnNat
<1>7. QED
  BY <1>5, <1>6

\* Any element may be added first.
LEMMA SumsRemove ==
  ASSUME NEW f, NEW w, NEW S, Sums(f, w, S), IsFiniteSet(S), \A x \in S : w[x] \in Nat
  PROVE  \A y \in S : f[S] = w[y] + f[S \ {y}]
<1> DEFINE Apart(m) == \A U \in SUBSET S : Cardinality(U) <= m => \A y \in U : f[U] = w[y] + f[U \ {y}]
           N == {m \in Nat : Apart(m)}
<1>1. \A U \in SUBSET S : IsFiniteSet(U) /\ Cardinality(U) \in Nat
  BY FS_Subset, FS_CardinalityType
<1>2. \A U \in SUBSET S : f[U] \in Nat
  <2>1. ASSUME NEW U \in SUBSET S PROVE f[U] \in Nat
    BY <1>1, SumsAgree
  <2>2. QED
    BY <2>1
<1>3. 0 \in N
  <2>1. ASSUME NEW U \in SUBSET S, Cardinality(U) <= 0 PROVE U = {}
    BY <1>1, <2>1, FS_EmptySet
  <2>2. QED
    BY <2>1
<1>4. ASSUME NEW m \in Nat, m \in N PROVE m + 1 \in N
  <2>1. ASSUME NEW U \in SUBSET S, Cardinality(U) <= m + 1, NEW y \in U
        PROVE  f[U] = w[y] + f[U \ {y}]
    <3>1. PICK x : x = Pick(U)
      OBVIOUS
    <3>2. x \in U /\ f[U] = w[x] + f[U \ {x}]
      <4>1. Pick(U) \in U
        BY <1>1, PickRest
      <4>2. QED
        BY <3>1, <4>1 DEF Sums, Rest
    <3>3. CASE y = x
      BY <3>2, <3>3
    <3>4. CASE y # x
      <4>1. PICK A, B, C : A = U \ {x} /\ B = U \ {y} /\ C = U \ {x, y}
        OBVIOUS
      <4>2. /\ A \in SUBSET S /\ Cardinality(A) <= m /\ y \in A /\ A \ {y} = C
            /\ B \in SUBSET S /\ Cardinality(B) <= m /\ x \in B /\ B \ {x} = C
            /\ C \in SUBSET S
        <5>1. /\ IsFiniteSet(U) /\ Cardinality(U) \in Nat
              /\ Cardinality(A) = Cardinality(U) - 1 /\ Cardinality(B) = Cardinality(U) - 1
          BY <1>1, <3>2, <4>1, FS_RemoveElement
        <5>2. QED
          BY <2>1, <3>2, <3>4, <4>1, <5>1
      <4>3. f[A] = w[y] + f[C] /\ f[B] = w[x] + f[C]
        BY <1>4, <4>2
      <4>4. f[C] \in Nat /\ w[x] \in Nat /\ w[y] \in Nat
        BY <1>2, <3>2, <4>2
      <4>5. f[U] = w[x] + f[A]
        BY <3>2, <4>1
      <4>6. f[U] = w[y] + f[B]
        BY <4>3, <4>4, <4>5
      <4>7. QED
        BY <4>1, <4>6
    <3>5. QED
      BY <3>3, <3>4
  <2>2. QED
    BY <2>1
<1>5. Cardinality(S) \in Nat
  BY <1>1
<1>6. Cardinality(S) \in N
  <2> HIDE DEF N
  <2>1. QED
    BY <1>3, <1>4, <1>5, InductionOnNat
<1>7. QED
  BY <1>5, <1>6

\* Sums, as the models take them.
LEMMA SumEmpty == ASSUME NEW w PROVE SumFunctionOnSet(w, {}) = 0
<1>1. IsFiniteSet({})
  BY FS_EmptySet
<1>2. PICK f : Sums(f, w, {}) /\ SumFunctionOnSet(w, {}) = f[{}]
  BY <1>1, SumRecursion
<1>3. QED
  BY <1>2 DEF Sums

LEMMA SumSame ==
  ASSUME NEW T, IsFiniteSet(T), NEW w, NEW v, \A x \in T : w[x] = v[x] /\ w[x] \in Nat
  PROVE  SumFunctionOnSet(w, T) = SumFunctionOnSet(v, T) /\ SumFunctionOnSet(w, T) \in Nat
<1>1. PICK f : Sums(f, w, T) /\ SumFunctionOnSet(w, T) = f[T]
  BY SumRecursion
<1>2. PICK g : Sums(g, v, T) /\ SumFunctionOnSet(v, T) = g[T]
  BY SumRecursion
<1>3. f[T] = g[T] /\ f[T] \in Nat
  BY <1>1, <1>2, SumsAgree
<1>4. QED
  BY <1>1, <1>2, <1>3

LEMMA SumAdded ==
  ASSUME NEW T, IsFiniteSet(T), NEW y, y \notin T, NEW w, \A x \in T \cup {y} : w[x] \in Nat
  PROVE  SumFunctionOnSet(w, T \cup {y}) = SumFunctionOnSet(w, T) + w[y]
<1>1. PICK S : S = T \cup {y}
  OBVIOUS
<1>2. IsFiniteSet(S) /\ y \in S /\ S \ {y} = T /\ T \subseteq S /\ \A x \in S : w[x] \in Nat
  BY <1>1, FS_AddElement
<1>3. PICK f : Sums(f, w, S) /\ SumFunctionOnSet(w, S) = f[S]
  BY <1>2, SumRecursion
<1>4. PICK g : Sums(g, w, T) /\ SumFunctionOnSet(w, T) = g[T]
  BY SumRecursion
<1>5. f[S] = w[y] + f[T]
  BY <1>2, <1>3, SumsRemove
<1>6. f[T] = g[T] /\ f[T] \in Nat
  BY <1>2, <1>3, <1>4, SumsAgree
<1>7. w[y] \in Nat
  BY <1>2
<1>8. QED
  BY <1>1, <1>3, <1>4, <1>5, <1>6, <1>7

-----------------------------------------------------------------------------
\* What nodes and facts cost.

\* An estimate is a natural number.
LEMMA Estimated ==
  /\ \A text \in DOMAIN Estimate : Estimate[text] \in Nat
  /\ \A text \in DOMAIN Estimate \cup {None} : OptionalTokens(text) \in Nat
  /\ IdTokens \in Nat /\ OriginTokens \in Nat /\ EvidenceTokens \in Nat
<1>1. \A text \in DOMAIN Estimate : Estimate[text] \in Nat
  BY CompilerAssumption
<1>2. IdTokens \in Nat /\ OriginTokens \in Nat /\ EvidenceTokens \in Nat
  BY CompilerAssumption
<1>3. \A text \in DOMAIN Estimate \cup {None} : OptionalTokens(text) \in Nat
  BY <1>1 DEF OptionalTokens
<1>4. QED
  BY <1>1, <1>2, <1>3

\* A finite sum of natural numbers is one.
LEMMA SumNatural ==
  ASSUME NEW h, IsFiniteSet(DOMAIN h), \A x \in DOMAIN h : h[x] \in Nat
  PROVE  SumFunction(h) \in Nat
<1>1. SumFunctionOnSet(h, DOMAIN h) \in Nat
  BY SumSame
<1>2. QED
  BY <1>1 DEF SumFunction

\* A node has a cost.
LEMMA NodeCost ==
  ASSUME NEW node, ContentTyped(node)
  PROVE  NodeTokens(node) \in Nat
<1>1. /\ node.kind \in DOMAIN Estimate /\ node.label \in DOMAIN Estimate
      /\ node.repository \in DOMAIN Estimate \cup {None} /\ node.branch \in DOMAIN Estimate \cup {None}
      /\ IsFiniteSet(node.aliases) /\ node.aliases \subseteq DOMAIN Estimate
      /\ IsFiniteSet(node.external) /\ \A e \in node.external : e[2] \in DOMAIN Estimate
  BY DEF ContentTyped
<1>2. \A text \in DOMAIN Estimate : AttributeTokens(text) \in Nat
  BY Estimated DEF AttributeTokens
<1>3. PICK a, b : /\ a = SumFunction([x \in node.aliases |-> AttributeTokens(x)])
                  /\ b = SumFunction([e \in node.external |-> AttributeTokens(e[2])])
  OBVIOUS
<1>4. a \in Nat
  <2>1. PICK h : h = [x \in node.aliases |-> AttributeTokens(x)]
    OBVIOUS
  <2>2. DOMAIN h = node.aliases /\ \A x \in DOMAIN h : h[x] \in Nat
    BY <1>1, <1>2, <2>1
  <2>3. QED
    BY <1>1, <1>3, <2>1, <2>2, SumNatural
<1>5. b \in Nat
  <2>1. PICK h : h = [e \in node.external |-> AttributeTokens(e[2])]
    OBVIOUS
  <2>2. DOMAIN h = node.external /\ \A e \in DOMAIN h : h[e] \in Nat
    BY <1>1, <1>2, <2>1
  <2>3. QED
    BY <1>1, <1>3, <2>1, <2>2, SumNatural
<1>6. PICK k, l, r, c, i, o :
         /\ k = Estimate[node.kind] /\ l = Estimate[node.label]
         /\ r = OptionalTokens(node.repository) /\ c = OptionalTokens(node.branch)
         /\ i = IdTokens /\ o = OriginTokens
  OBVIOUS
<1>7. k \in Nat /\ l \in Nat /\ r \in Nat /\ c \in Nat /\ i \in Nat /\ o \in Nat
  BY <1>1, <1>6, Estimated
<1>8. NodeTokens(node) = i + k + l + r + c + a + b + o + 6
  BY <1>3, <1>6 DEF NodeTokens
<1>9. QED
  BY <1>4, <1>5, <1>7, <1>8

LEMMA FactCost ==
  ASSUME NEW f \in Fact
  PROVE  FactTokens(f) \in Nat
<1>1. f.relation \in DOMAIN Estimate
  BY CompilerAssumption DEF Fact
<1>2. PICK e, i, v : e = Estimate[f.relation] /\ i = IdTokens /\ v = EvidenceTokens
  OBVIOUS
<1>3. e \in Nat /\ i \in Nat /\ v \in Nat
  BY <1>1, <1>2, Estimated
<1>4. FactTokens(f) = 3 * i + e + v + 16
  BY <1>2 DEF FactTokens
<1>5. QED
  BY <1>3, <1>4

\* What a visible entity costs at a time.
Price(e, t) == NodeTokens(VisibleNode(e, t))

Priced(T, t) == IsFiniteSet(T) /\ \A e \in T : Price(e, t) \in Nat

\* The content of a visible entity is in the log.
LEMMA VisiblePriced ==
  ASSUME NEW known, Recorded(log, projection, known), NEW e \in Entities, NEW t \in Time,
         VisibleNode(e, t) # None
  PROVE  Price(e, t) \in Nat
<1>1. /\ Tracks(projection, log, Len(log))
      /\ \A i \in 1..Len(log) : Entry(log[i])
  BY DEF Recorded
<1>2. PICK nodes, lookup : nodes = projection.nodes /\ lookup = projection.node_lookup
  OBVIOUS
<1>3. /\ nodes \in Seq(Seq(NodeRevision)) /\ NodesIndexed(nodes, lookup)
      /\ HistoriesWritten(nodes, log, Len(log))
  BY <1>1, <1>2, ProjectionFields DEF Tracks, Sound
<1>4. PICK i, r : i = lookup[e] + 1 /\ r = VisibleRevision(nodes[i], t)
  BY Zenon
<1>5. lookup[e] # None /\ r # None /\ VisibleNode(e, t) = log[r.position + 1].payload.node
  BY <1>2, <1>4 DEF VisibleNode
<1>6. i \in 1..Len(nodes)
  BY <1>3, <1>4, <1>5 DEF NodesIndexed
<1>7. nodes[i] \in Seq(NodeRevision)
  BY <1>3, <1>6, ElementOfSeq
<1>8. t \in Nat
  BY DEF Time
<1>9. PICK k \in 1..Len(nodes[i]) : r = nodes[i][k]
  BY <1>4, <1>5, <1>7, <1>8, VisibleIsNewest
<1>10. RevisionWritten(r, log, Len(log))
  BY <1>3, <1>6, <1>9 DEF HistoriesWritten
<1>11. PICK n : n = r.position + 1
  OBVIOUS
<1>12. n \in 1..Len(log) /\ log[n].payload.kind = "NodeUpserted"
  BY <1>10, <1>11 DEF RevisionWritten, Wrote
<1>13. ContentTyped(log[n].payload.node)
  <2>1. Entry(log[n])
    BY <1>1, <1>12
  <2>2. PICK u \in Times : NodeEntry(log[n], u) \/ FactEntry(log[n], u)
    BY <2>1 DEF Entry
  <2>3. NodeEntry(log[n], u)
    BY <1>12, <2>2 DEF FactEntry
  <2>4. QED
    BY <2>3 DEF NodeEntry
<1>14. QED
  BY <1>5, <1>11, <1>13, NodeCost DEF Price

\* The cost of no node, and of one node more.
LEMMA TokensEmpty == ASSUME NEW t PROVE TokensOf({}, t) = 0
<1>1. PICK h : h = [e \in {} |-> NodeTokens(VisibleNode(e, t))]
  OBVIOUS
<1>2. DOMAIN h = {}
  BY <1>1
<1>3. TokensOf({}, t) = SumFunctionOnSet(h, {})
  BY <1>1, <1>2 DEF TokensOf, SumFunction
<1>4. QED
  BY <1>3, SumEmpty

LEMMA TokensAdded ==
  ASSUME NEW T, NEW t, Priced(T, t), NEW e, Price(e, t) \in Nat
  PROVE  /\ TokensOf(T, t) \in Nat
         /\ Priced(T \cup {e}, t)
         /\ TokensOf(T \cup {e}, t) = IF e \in T THEN TokensOf(T, t) ELSE TokensOf(T, t) + Price(e, t)
<1>1. PICK R : R = T \cup {e}
  OBVIOUS
<1>2. Priced(R, t)
  BY <1>1, FS_AddElement DEF Priced
<1>3. PICK g, h : g = [x \in T |-> Price(x, t)] /\ h = [x \in R |-> Price(x, t)]
  OBVIOUS
<1>4. TokensOf(T, t) = SumFunctionOnSet(g, T) /\ TokensOf(R, t) = SumFunctionOnSet(h, R)
  <2>1. DOMAIN g = T /\ DOMAIN h = R
    BY <1>3
  <2>2. TokensOf(T, t) = SumFunction(g) /\ TokensOf(R, t) = SumFunction(h)
    BY <1>3 DEF TokensOf, Price
  <2>3. QED
    BY <2>1, <2>2 DEF SumFunction
<1>5. /\ \A x \in T : g[x] = h[x] /\ g[x] \in Nat
      /\ \A x \in R : h[x] \in Nat
      /\ h[e] = Price(e, t)
  BY <1>1, <1>2, <1>3 DEF Priced
<1>6. SumFunctionOnSet(g, T) = SumFunctionOnSet(h, T) /\ SumFunctionOnSet(g, T) \in Nat
  BY <1>5, SumSame DEF Priced
<1>7. CASE e \in T
  <2>1. R = T
    BY <1>1, <1>7
  <2>2. QED
    BY <1>1, <1>2, <1>4, <1>6, <1>7, <2>1
<1>8. CASE e \notin T
  <2>1. SumFunctionOnSet(h, R) = SumFunctionOnSet(h, T) + h[e]
    BY <1>1, <1>5, <1>8, SumAdded DEF Priced
  <2>2. QED
    BY <1>1, <1>2, <1>4, <1>5, <1>6, <1>8, <2>1
<1>9. QED
  BY <1>7, <1>8

\* What facts cost.
Spent(facts) == SumFunction([f \in facts |-> FactTokens(f)])

\* Nothing costs nothing.
LEMMA SpentNothing == Spent({}) = 0
<1>1. PICK h : h = [f \in {} |-> FactTokens(f)]
  OBVIOUS
<1>2. DOMAIN h = {}
  BY <1>1
<1>3. Spent({}) = SumFunctionOnSet(h, {})
  BY <1>1, <1>2 DEF Spent, SumFunction
<1>4. QED
  BY <1>3, SumEmpty

\* One more fact costs that much more.
LEMMA SpentAdded ==
  ASSUME NEW F, IsFiniteSet(F), F \subseteq Fact, NEW f \in Fact, f \notin F
  PROVE  Spent({}) = 0 /\ Spent(F) \in Nat /\ Spent(F \cup {f}) = Spent(F) + FactTokens(f)
<1>1. PICK R : R = F \cup {f}
  OBVIOUS
<1>2. PICK g, h, o : /\ g = [x \in F |-> FactTokens(x)] /\ h = [x \in R |-> FactTokens(x)]
                     /\ o = [x \in {} |-> FactTokens(x)]
  OBVIOUS
<1>3. /\ Spent(F) = SumFunctionOnSet(g, F) /\ Spent(R) = SumFunctionOnSet(h, R)
      /\ Spent({}) = SumFunctionOnSet(o, {})
  <2>1. DOMAIN g = F /\ DOMAIN h = R /\ DOMAIN o = {}
    BY <1>2
  <2>2. Spent(F) = SumFunction(g) /\ Spent(R) = SumFunction(h) /\ Spent({}) = SumFunction(o)
    BY <1>2 DEF Spent
  <2>3. QED
    BY <2>1, <2>2 DEF SumFunction
<1>4. /\ \A x \in F : g[x] = h[x] /\ g[x] \in Nat
      /\ \A x \in R : h[x] \in Nat
      /\ h[f] = FactTokens(f)
  BY <1>1, <1>2, FactCost
<1>5. SumFunctionOnSet(g, F) = SumFunctionOnSet(h, F) /\ SumFunctionOnSet(g, F) \in Nat
  BY <1>4, SumSame
<1>6. SumFunctionOnSet(h, R) = SumFunctionOnSet(h, F) + h[f]
  BY <1>1, <1>4, SumAdded
<1>7. SumFunctionOnSet(o, {}) = 0
  BY SumEmpty
<1>8. QED
  BY <1>1, <1>3, <1>4, <1>5, <1>6, <1>7


\* Priced nodes have a cost together.
LEMMA TokensNatural ==
  ASSUME NEW T, NEW t, Priced(T, t)
  PROVE  TokensOf(T, t) \in Nat
<1>1. PICK h : h = [e \in T |-> NodeTokens(VisibleNode(e, t))]
  OBVIOUS
<1>2. DOMAIN h = T /\ IsFiniteSet(T) /\ \A e \in T : h[e] \in Nat
  BY <1>1 DEF Priced, Price
<1>3. SumFunction(h) \in Nat
  BY <1>2, SumNatural
<1>4. QED
  BY <1>1, <1>3 DEF TokensOf

-----------------------------------------------------------------------------
\* Selection within the budget.

Selections == [nodes: SUBSET Entities, facts: SUBSET Fact, omitted: Nat, used: Nat]

\* What an end of a fact adds to the cost of a selection.
Due(a, e, t) == IF e \in a.nodes THEN 0 ELSE Price(e, t)

\* The first k candidates.
FirstOf(c, k) == {c[j] : j \in 1..k}

\* What the selected nodes and facts cost is what was used, but for self-loops;
\* it is within the budget, and what was omitted would not fit.
Chosen(a, r, c, k) ==
  /\ a \in Selections /\ Priced(a.nodes, r.known_at) /\ IsFiniteSet(a.facts)
  /\ a.facts \subseteq FirstOf(c, k)
  /\ \A f \in a.facts : f.source \in a.nodes /\ f.target \in a.nodes
  /\ a.used <= r.token_budget
  /\ TokensOf(a.nodes, r.known_at) + Spent(a.facts) <= a.used
  /\ (\A f \in a.facts : f.source # f.target)
        => TokensOf(a.nodes, r.known_at) + Spent(a.facts) = a.used
  /\ a.omitted = Cardinality(FirstOf(c, k) \ a.facts)
  /\ \A f \in FirstOf(c, k) \ a.facts : f.source # f.target =>
       a.used + FactTokens(f) + Due(a, f.source, r.known_at) + Due(a, f.target, r.known_at)
         > r.token_budget

\* A fact that may be selected: its ends are visible.
Payable(f, t) == f \in Fact /\ Price(f.source, t) \in Nat /\ Price(f.target, t) \in Nat

\* Paying for the ends of a fact pays for the nodes they add.
LEMMA EndsPaid ==
  ASSUME NEW a, NEW t, Priced(a.nodes, t), NEW f, Payable(f, t)
  PROVE  LET all == a.nodes \cup {f.source, f.target}
             due == Due(a, f.source, t) + Due(a, f.target, t)
         IN  /\ Priced(all, t) /\ TokensOf(all, t) \in Nat /\ TokensOf(a.nodes, t) \in Nat
             /\ Due(a, f.source, t) \in Nat /\ Due(a, f.target, t) \in Nat
             /\ TokensOf(all, t) <= TokensOf(a.nodes, t) + due
             /\ f.source # f.target => TokensOf(all, t) = TokensOf(a.nodes, t) + due
<1>1. PICK s, o, N, M, R : /\ s = f.source /\ o = f.target /\ N = a.nodes
                           /\ M = N \cup {s} /\ R = M \cup {o}
  OBVIOUS
<1>2. Price(s, t) \in Nat /\ Price(o, t) \in Nat
  BY <1>1 DEF Payable
<1>3. /\ TokensOf(N, t) \in Nat /\ Priced(M, t)
      /\ TokensOf(M, t) = IF s \in N THEN TokensOf(N, t) ELSE TokensOf(N, t) + Price(s, t)
  BY <1>1, <1>2, TokensAdded
<1>4. /\ Priced(R, t)
      /\ TokensOf(R, t) = IF o \in M THEN TokensOf(M, t) ELSE TokensOf(M, t) + Price(o, t)
  BY <1>1, <1>2, <1>3, TokensAdded
<1>5. /\ Due(a, s, t) = IF s \in N THEN 0 ELSE Price(s, t)
      /\ Due(a, o, t) = IF o \in N THEN 0 ELSE Price(o, t)
  BY <1>1 DEF Due
<1>6. R = a.nodes \cup {f.source, f.target}
  BY <1>1
<1>7. o \in M <=> o \in N \/ o = s
  BY <1>1
<1>8. /\ TokensOf(R, t) \in Nat
      /\ TokensOf(R, t) <= TokensOf(N, t) + (Due(a, s, t) + Due(a, o, t))
      /\ s # o => TokensOf(R, t) = TokensOf(N, t) + (Due(a, s, t) + Due(a, o, t))
  <2>1. PICK ps, po, n, m, q, ds, do :
           /\ ps = Price(s, t) /\ po = Price(o, t) /\ n = TokensOf(N, t) /\ m = TokensOf(M, t)
           /\ q = TokensOf(R, t) /\ ds = Due(a, s, t) /\ do = Due(a, o, t)
    OBVIOUS
  <2>2. /\ ps \in Nat /\ po \in Nat /\ n \in Nat
        /\ m = IF s \in N THEN n ELSE n + ps
        /\ q = IF o \in M THEN m ELSE m + po
        /\ ds = IF s \in N THEN 0 ELSE ps
        /\ do = IF o \in N THEN 0 ELSE po
    BY <1>2, <1>3, <1>4, <1>5, <2>1
  <2>3. q \in Nat /\ q <= n + (ds + do) /\ (s # o => q = n + (ds + do))
    BY <1>7, <2>2
  <2>4. QED
    BY <2>1, <2>3
<1>9. Due(a, s, t) \in Nat /\ Due(a, o, t) \in Nat
  BY <1>2, <1>5
<1>10. QED
  BY <1>1, <1>3, <1>4, <1>6, <1>8, <1>9

\* One candidate: what is used for it, or why it is omitted.
LEMMA SelectFactCases ==
  ASSUME NEW a \in Selections, NEW r, NEW f
  PROVE  LET b == SelectFact(a, r, f)
             t == r.known_at
             cost == FactTokens(f) + Due(a, f.source, t) + Due(a, f.target, t)
         IN  IF a.used + cost > r.token_budget
             THEN /\ b.nodes = a.nodes /\ b.facts = a.facts /\ b.used = a.used
                  /\ b.omitted = a.omitted + 1
                  /\ b = [nodes |-> b.nodes, facts |-> b.facts, omitted |-> b.omitted, used |-> b.used]
             ELSE /\ b.nodes = a.nodes \cup {f.source, f.target} /\ b.facts = a.facts \cup {f}
                  /\ b.used = a.used + cost /\ b.omitted = a.omitted
                  /\ b = [nodes |-> b.nodes, facts |-> b.facts, omitted |-> b.omitted, used |-> b.used]
<1>1. PICK b, t, cost : /\ b = SelectFact(a, r, f) /\ t = r.known_at
                        /\ cost = FactTokens(f) + Due(a, f.source, t) + Due(a, f.target, t)
  OBVIOUS
<1>2. b = IF a.used + cost > r.token_budget
          THEN [a EXCEPT !.omitted = @ + 1]
          ELSE [a EXCEPT !.used = Charge(a, f, cost), !.nodes = @ \cup {f.source, f.target},
                         !.facts = @ \cup {f}]
  BY <1>1, Zenon DEF SelectFact, Due, Price
<1>3. a = [nodes |-> a.nodes, facts |-> a.facts, omitted |-> a.omitted, used |-> a.used]
  BY DEF Selections
<1>4. CASE a.used + cost > r.token_budget
  <2>1. b = [a EXCEPT !.omitted = @ + 1]
    BY <1>2, <1>4
  <2>2. /\ b.nodes = a.nodes /\ b.facts = a.facts /\ b.used = a.used /\ b.omitted = a.omitted + 1
        /\ b = [nodes |-> b.nodes, facts |-> b.facts, omitted |-> b.omitted, used |-> b.used]
    BY <1>3, <2>1 DEF Selections
  <2>3. QED
    BY <1>1, <1>4, <2>2
<1>5. CASE ~(a.used + cost > r.token_budget)
  <2>1. b = [a EXCEPT !.used = a.used + cost, !.nodes = @ \cup {f.source, f.target},
                      !.facts = @ \cup {f}]
    BY <1>2, <1>5 DEF Charge
  <2>2. /\ b.nodes = a.nodes \cup {f.source, f.target} /\ b.facts = a.facts \cup {f}
        /\ b.used = a.used + cost /\ b.omitted = a.omitted
        /\ b = [nodes |-> b.nodes, facts |-> b.facts, omitted |-> b.omitted, used |-> b.used]
    BY <1>3, <2>1 DEF Selections
  <2>3. QED
    BY <1>1, <1>5, <2>2
<1>6. QED
  BY <1>4, <1>5

\* One candidate more.
LEMMA FirstMore ==
  ASSUME NEW c, NEW k \in Nat
  PROVE  /\ FirstOf(c, k + 1) = FirstOf(c, k) \cup {c[k + 1]} /\ IsFiniteSet(FirstOf(c, k))
         /\ FirstOf(c, 0) = {}
<1>1. \A j : j \in 1..(k + 1) <=> j \in 1..k \/ j = k + 1
  OBVIOUS
<1>2. FirstOf(c, k + 1) = FirstOf(c, k) \cup {c[k + 1]}
  BY <1>1 DEF FirstOf
<1>3. IsFiniteSet(FirstOf(c, k))
  <2>1. PICK g : g = [j \in 1..k |-> c[j]]
    OBVIOUS
  <2>2. g \in Surjection(1..k, FirstOf(c, k))
    BY <2>1 DEF Surjection, FirstOf
  <2>3. IsFiniteSet(1..k)
    BY FS_Interval
  <2>4. QED
    BY <2>2, <2>3, FS_Surjection
<1>4. FirstOf(c, 0) = {}
  BY DEF FirstOf
<1>5. QED
  BY <1>2, <1>3, <1>4

\* A candidate that does not fit is omitted.
LEMMA OmitStep ==
  ASSUME NEW c, NEW k \in Nat, NEW r, NEW a, Chosen(a, r, c, k),
         NEW f, f = c[k + 1], f \notin FirstOf(c, k), Payable(f, r.known_at),
         a.used + (FactTokens(f) + Due(a, f.source, r.known_at) + Due(a, f.target, r.known_at))
           > r.token_budget,
         NEW b, b = SelectFact(a, r, f)
  PROVE  Chosen(b, r, c, k + 1)
<1>1. PICK t, F, G : t = r.known_at /\ F = FirstOf(c, k) /\ G = FirstOf(c, k + 1)
  OBVIOUS
<1>2. G = F \cup {f} /\ IsFiniteSet(F)
  BY <1>1, FirstMore
<1>3. a \in Selections
  BY DEF Chosen
<1>4. /\ b.nodes = a.nodes /\ b.facts = a.facts /\ b.used = a.used /\ b.omitted = a.omitted + 1
      /\ b = [nodes |-> b.nodes, facts |-> b.facts, omitted |-> b.omitted, used |-> b.used]
  BY <1>3, SelectFactCases
<1>5. b \in Selections
  <2>1. b.nodes \in SUBSET Entities /\ b.facts \in SUBSET Fact /\ b.omitted \in Nat /\ b.used \in Nat
    BY <1>3, <1>4 DEF Selections
  <2>2. QED
    BY <1>4, <2>1 DEF Selections
<1>6. \A e : Due(b, e, t) = Due(a, e, t)
  BY <1>4 DEF Due
<1>7. a.facts \subseteq F /\ a.omitted = Cardinality(F \ a.facts)
  BY <1>1 DEF Chosen
<1>8. G \ b.facts = (F \ a.facts) \cup {f} /\ f \notin F \ a.facts
  BY <1>1, <1>2, <1>4, <1>7
<1>9. b.omitted = Cardinality(G \ b.facts)
  <2>1. IsFiniteSet(F \ a.facts)
    BY <1>2, FS_Difference
  <2>2. Cardinality((F \ a.facts) \cup {f}) = Cardinality(F \ a.facts) + 1
    BY <1>8, <2>1, FS_AddElement
  <2>3. QED
    BY <1>4, <1>7, <1>8, <2>2
<1>10. a.used + FactTokens(f) + Due(a, f.source, t) + Due(a, f.target, t) > r.token_budget
  <2>1. PICK u, v, x, y : u = a.used /\ v = FactTokens(f) /\ x = Due(a, f.source, t) /\ y = Due(a, f.target, t)
    OBVIOUS
  <2>2. u \in Nat /\ v \in Nat /\ x \in Nat /\ y \in Nat
    <3>1. Due(a, f.source, t) \in Nat /\ Due(a, f.target, t) \in Nat
      BY <1>1 DEF Payable, Due
    <3>2. QED
      BY <1>3, <2>1, <3>1, FactCost DEF Selections, Payable
  <2>3. u + (v + x + y) > r.token_budget
    BY <1>1, <2>1
  <2>4. u + v + x + y = u + (v + x + y)
    BY <2>2
  <2>5. QED
    BY <2>1, <2>3, <2>4
<1>11. ASSUME NEW g \in G \ b.facts, g.source # g.target
       PROVE  b.used + FactTokens(g) + Due(b, g.source, t) + Due(b, g.target, t) > r.token_budget
  <2>1. a.used + FactTokens(g) + Due(a, g.source, t) + Due(a, g.target, t) > r.token_budget
    <3>1. CASE g = f
      BY <1>10, <3>1
    <3>2. CASE g \in F \ a.facts
      BY <1>1, <1>11, <3>2 DEF Chosen
    <3>3. QED
      BY <1>8, <1>11, <3>1, <3>2
  <2>2. QED
    BY <1>4, <1>6, <2>1
<1>12. /\ Priced(b.nodes, t) /\ IsFiniteSet(b.facts) /\ b.facts \subseteq G
       /\ (\A g \in b.facts : g.source \in b.nodes /\ g.target \in b.nodes)
       /\ b.used <= r.token_budget
       /\ TokensOf(b.nodes, t) + Spent(b.facts) <= b.used
       /\ (\A g \in b.facts : g.source # g.target) => TokensOf(b.nodes, t) + Spent(b.facts) = b.used
  BY <1>1, <1>2, <1>4, <1>7 DEF Chosen
<1>13. QED
  BY <1>1, <1>5, <1>9, <1>11, <1>12 DEF Chosen

\* The ends that a selected fact adds are paid for: what an omitted fact lacks
\* to the budget does not grow by more than what was used.
LEMMA DuePaid ==
  ASSUME NEW a, NEW b, NEW t, NEW f, Payable(f, t), b.nodes = a.nodes \cup {f.source, f.target},
         NEW g, Payable(g, t), g.source # g.target
  PROVE  Due(a, g.source, t) + Due(a, g.target, t)
           <= Due(b, g.source, t) + Due(b, g.target, t) + Due(a, f.source, t) + Due(a, f.target, t)
<1>1. PICK s, o, x, y, N : s = f.source /\ o = f.target /\ x = g.source /\ y = g.target /\ N = a.nodes
  OBVIOUS
<1>2. Price(s, t) \in Nat /\ Price(o, t) \in Nat /\ Price(x, t) \in Nat /\ Price(y, t) \in Nat /\ x # y
  BY <1>1 DEF Payable
<1>3. b.nodes = N \cup {s, o}
  BY <1>1
<1>4. \A e : /\ Due(a, e, t) = IF e \in N THEN 0 ELSE Price(e, t)
             /\ Due(b, e, t) = IF e \in N \/ e = s \/ e = o THEN 0 ELSE Price(e, t)
  BY <1>1, <1>3 DEF Due
<1>5. PICK ps, po, px, py : ps = Price(s, t) /\ po = Price(o, t) /\ px = Price(x, t) /\ py = Price(y, t)
  OBVIOUS
<1>6. /\ ps \in Nat /\ po \in Nat /\ px \in Nat /\ py \in Nat
      /\ x = s => px = ps
      /\ x = o => px = po
      /\ y = s => py = ps
      /\ y = o => py = po
  BY <1>2, <1>5
<1>7. /\ Due(a, s, t) = (IF s \in N THEN 0 ELSE ps) /\ Due(a, o, t) = (IF o \in N THEN 0 ELSE po)
      /\ Due(a, x, t) = (IF x \in N THEN 0 ELSE px) /\ Due(a, y, t) = (IF y \in N THEN 0 ELSE py)
      /\ Due(b, x, t) = (IF x \in N \/ x = s \/ x = o THEN 0 ELSE px)
      /\ Due(b, y, t) = (IF y \in N \/ y = s \/ y = o THEN 0 ELSE py)
  BY <1>4, <1>5
<1>8. Due(a, x, t) + Due(a, y, t) <= Due(b, x, t) + Due(b, y, t) + Due(a, s, t) + Due(a, o, t)
  BY <1>2, <1>6, <1>7
<1>9. QED
  BY <1>1, <1>8

\* A candidate that fits is selected, with its ends.
LEMMA TakeStep ==
  ASSUME NEW c, NEW k \in Nat, NEW r, r.token_budget \in Nat, NEW a, Chosen(a, r, c, k),
         \A g \in FirstOf(c, k) : Payable(g, r.known_at),
         NEW f, f = c[k + 1], f \notin FirstOf(c, k), Payable(f, r.known_at),
         ~(a.used + (FactTokens(f) + Due(a, f.source, r.known_at) + Due(a, f.target, r.known_at))
            > r.token_budget),
         NEW b, b = SelectFact(a, r, f)
  PROVE  Chosen(b, r, c, k + 1)
<1>1. PICK t, F, G, v, x, y :
        /\ t = r.known_at /\ F = FirstOf(c, k) /\ G = FirstOf(c, k + 1)
        /\ v = FactTokens(f) /\ x = Due(a, f.source, t) /\ y = Due(a, f.target, t)
  OBVIOUS
<1>2. G = F \cup {f} /\ IsFiniteSet(F)
  BY <1>1, FirstMore
<1>3. a \in Selections /\ Priced(a.nodes, t) /\ IsFiniteSet(a.facts) /\ a.facts \subseteq F
  BY <1>1 DEF Chosen
<1>4. /\ b.nodes = a.nodes \cup {f.source, f.target} /\ b.facts = a.facts \cup {f}
      /\ b.used = a.used + (v + x + y) /\ b.omitted = a.omitted
      /\ b = [nodes |-> b.nodes, facts |-> b.facts, omitted |-> b.omitted, used |-> b.used]
  BY <1>1, <1>3, SelectFactCases
<1>5. f \in Fact /\ f.source \in Entities /\ f.target \in Entities
  BY FactParts DEF Payable
<1>6. v \in Nat
  BY <1>1, <1>5, FactCost
<1>7. /\ Priced(b.nodes, t) /\ TokensOf(b.nodes, t) \in Nat /\ TokensOf(a.nodes, t) \in Nat
      /\ x \in Nat /\ y \in Nat
      /\ TokensOf(b.nodes, t) <= TokensOf(a.nodes, t) + (x + y)
      /\ f.source # f.target => TokensOf(b.nodes, t) = TokensOf(a.nodes, t) + (x + y)
  <2>1. Payable(f, t)
    BY <1>1
  <2>2. PICK all, due : /\ all = a.nodes \cup {f.source, f.target}
                        /\ due = Due(a, f.source, t) + Due(a, f.target, t)
    OBVIOUS
  <2>3. /\ Priced(all, t) /\ TokensOf(all, t) \in Nat /\ TokensOf(a.nodes, t) \in Nat
        /\ Due(a, f.source, t) \in Nat /\ Due(a, f.target, t) \in Nat
        /\ TokensOf(all, t) <= TokensOf(a.nodes, t) + due
        /\ f.source # f.target => TokensOf(all, t) = TokensOf(a.nodes, t) + due
    BY <1>3, <2>1, <2>2, EndsPaid
  <2>4. b.nodes = all /\ due = x + y
    BY <1>1, <1>4, <2>2
  <2>5. QED
    BY <1>1, <2>3, <2>4
<1>8. f \notin a.facts /\ a.facts \subseteq Fact
  BY <1>1, <1>3 DEF Selections
<1>9. Spent(a.facts) \in Nat /\ Spent(b.facts) = Spent(a.facts) + v
  BY <1>1, <1>3, <1>4, <1>5, <1>8, SpentAdded
<1>10. a.used \in Nat
  BY <1>3 DEF Selections
<1>11. b \in Selections
  <2>1. b.nodes \in SUBSET Entities /\ b.facts \in SUBSET Fact /\ b.omitted \in Nat
    BY <1>3, <1>4, <1>5 DEF Selections
  <2>2. b.used \in Nat
    BY <1>4, <1>6, <1>7, <1>10
  <2>3. QED
    BY <1>4, <2>1, <2>2 DEF Selections
<1>12. b.used <= r.token_budget
  BY <1>1, <1>4, <1>6, <1>7, <1>10
<1>13. PICK n, m, p, q, u, w :
         /\ n = TokensOf(a.nodes, t) /\ m = TokensOf(b.nodes, t) /\ p = Spent(a.facts)
         /\ q = Spent(b.facts) /\ u = a.used /\ w = b.used
  OBVIOUS
<1>14. /\ n \in Nat /\ m \in Nat /\ p \in Nat /\ u \in Nat /\ v \in Nat /\ x \in Nat /\ y \in Nat
       /\ q = p + v /\ w = u + (v + x + y) /\ m <= n + (x + y)
       /\ n + p <= u
  BY <1>1, <1>4, <1>6, <1>7, <1>9, <1>10, <1>13 DEF Chosen
<1>15. TokensOf(b.nodes, t) + Spent(b.facts) <= b.used
  <2>1. m + q <= w
    BY <1>14
  <2>2. QED
    BY <1>13, <2>1
<1>16. ASSUME \A g \in b.facts : g.source # g.target
       PROVE  TokensOf(b.nodes, t) + Spent(b.facts) = b.used
  <2>1. \A g \in a.facts : g.source # g.target
    BY <1>4, <1>16
  <2>2. n + p = u
    BY <1>1, <1>13, <2>1 DEF Chosen
  <2>3. f.source # f.target
    BY <1>4, <1>16
  <2>4. m = n + (x + y)
    BY <1>7, <1>13, <2>3
  <2>5. m + q = w
    BY <1>14, <2>2, <2>4
  <2>6. QED
    BY <1>13, <2>5
<1>17. G \ b.facts = F \ a.facts
  BY <1>1, <1>2, <1>3, <1>4
<1>18. b.omitted = Cardinality(G \ b.facts)
  BY <1>1, <1>4, <1>17 DEF Chosen
<1>19. ASSUME NEW g \in G \ b.facts, g.source # g.target
       PROVE  b.used + FactTokens(g) + Due(b, g.source, t) + Due(b, g.target, t) > r.token_budget
  <2>1. g \in F \ a.facts
    BY <1>17, <1>19
  <2>2. Payable(g, t)
    BY <1>1, <2>1
  <2>3. PICK h, d1, d2, e1, e2 :
          /\ h = FactTokens(g) /\ d1 = Due(a, g.source, t) /\ d2 = Due(a, g.target, t)
          /\ e1 = Due(b, g.source, t) /\ e2 = Due(b, g.target, t)
    OBVIOUS
  <2>4. h \in Nat /\ d1 \in Nat /\ d2 \in Nat /\ e1 \in Nat /\ e2 \in Nat
    <3>1. g \in Fact /\ Price(g.source, t) \in Nat /\ Price(g.target, t) \in Nat
      BY <2>2 DEF Payable
    <3>2. FactTokens(g) \in Nat
      BY <3>1, FactCost
    <3>3. QED
      BY <2>3, <3>1, <3>2 DEF Due
  <2>5. u + h + d1 + d2 > r.token_budget
    <3>1. a.used + FactTokens(g) + Due(a, g.source, t) + Due(a, g.target, t) > r.token_budget
      BY <1>1, <1>19, <2>1 DEF Chosen
    <3>2. QED
      BY <1>13, <2>3, <3>1
  <2>6. d1 + d2 <= e1 + e2 + x + y
    BY <1>1, <1>4, <1>19, <2>2, <2>3, DuePaid
  <2>7. w + h + e1 + e2 > r.token_budget
    BY <1>14, <2>4, <2>5, <2>6
  <2>8. QED
    BY <1>13, <2>3, <2>7
<1>20. IsFiniteSet(b.facts) /\ b.facts \subseteq G
  <2>1. IsFiniteSet(a.facts \cup {f})
    BY <1>3, FS_AddElement
  <2>2. a.facts \cup {f} \subseteq G
    BY <1>2, <1>3
  <2>3. QED
    BY <1>4, <2>1, <2>2
<1>21. \A g \in b.facts : g.source \in b.nodes /\ g.target \in b.nodes
  BY <1>4 DEF Chosen
<1>22. QED
  BY <1>1, <1>7, <1>11, <1>12, <1>15, <1>16, <1>18, <1>19, <1>20, <1>21 DEF Chosen

-----------------------------------------------------------------------------
\* The order of the candidates.

KeyOf(found, f) ==
  <<Min({found.distances[f.source], found.distances[f.target]}),
    0 - f.confidence, 0 - f.recorded_at, FactRank[f.id]>>

Precedes(x, y) == \E k \in 1..4 : x[k] < y[k] /\ \A j \in 1..(k - 1) : x[j] = y[j]

\* Keys are compared part by part.
LEMMA PrecedesParts ==
  ASSUME NEW x, NEW y
  PROVE  Precedes(x, y) <=> \/ x[1] < y[1]
                            \/ x[1] = y[1] /\ x[2] < y[2]
                            \/ x[1] = y[1] /\ x[2] = y[2] /\ x[3] < y[3]
                            \/ x[1] = y[1] /\ x[2] = y[2] /\ x[3] = y[3] /\ x[4] < y[4]
<1>1. 1..4 = {1, 2, 3, 4} /\ 1..(1 - 1) = {} /\ 1..(2 - 1) = {1} /\ 1..(3 - 1) = {1, 2} /\ 1..(4 - 1) = {1, 2, 3}
  OBVIOUS
<1>2. Precedes(x, y) <=> \E k \in {1, 2, 3, 4} : x[k] < y[k] /\ \A j \in 1..(k - 1) : x[j] = y[j]
  BY <1>1, Zenon DEF Precedes
<1>3. (\E k \in {1, 2, 3, 4} : x[k] < y[k] /\ \A j \in 1..(k - 1) : x[j] = y[j])
        <=> \/ x[1] < y[1] /\ \A j \in 1..(1 - 1) : x[j] = y[j]
            \/ x[2] < y[2] /\ \A j \in 1..(2 - 1) : x[j] = y[j]
            \/ x[3] < y[3] /\ \A j \in 1..(3 - 1) : x[j] = y[j]
            \/ x[4] < y[4] /\ \A j \in 1..(4 - 1) : x[j] = y[j]
  BY Zenon
<1>4. QED
  BY <1>1, <1>2, <1>3

Key(x) == x[1] \in Int /\ x[2] \in Int /\ x[3] \in Int /\ x[4] \in Int

\* This is a strict order, total on keys whose last parts differ.
LEMMA PrecedesOrder ==
  ASSUME NEW x, NEW y, NEW z, Key(x), Key(y), Key(z)
  PROVE  /\ ~Precedes(x, x)
         /\ Precedes(x, y) /\ Precedes(y, z) => Precedes(x, z)
         /\ x[4] # y[4] => Precedes(x, y) \/ Precedes(y, x)
<1>1. /\ Precedes(x, x) <=> \/ x[1] < x[1]
                            \/ x[1] = x[1] /\ x[2] < x[2]
                            \/ x[1] = x[1] /\ x[2] = x[2] /\ x[3] < x[3]
                            \/ x[1] = x[1] /\ x[2] = x[2] /\ x[3] = x[3] /\ x[4] < x[4]
      /\ Precedes(x, y) <=> \/ x[1] < y[1]
                            \/ x[1] = y[1] /\ x[2] < y[2]
                            \/ x[1] = y[1] /\ x[2] = y[2] /\ x[3] < y[3]
                            \/ x[1] = y[1] /\ x[2] = y[2] /\ x[3] = y[3] /\ x[4] < y[4]
      /\ Precedes(y, x) <=> \/ y[1] < x[1]
                            \/ y[1] = x[1] /\ y[2] < x[2]
                            \/ y[1] = x[1] /\ y[2] = x[2] /\ y[3] < x[3]
                            \/ y[1] = x[1] /\ y[2] = x[2] /\ y[3] = x[3] /\ y[4] < x[4]
      /\ Precedes(y, z) <=> \/ y[1] < z[1]
                            \/ y[1] = z[1] /\ y[2] < z[2]
                            \/ y[1] = z[1] /\ y[2] = z[2] /\ y[3] < z[3]
                            \/ y[1] = z[1] /\ y[2] = z[2] /\ y[3] = z[3] /\ y[4] < z[4]
      /\ Precedes(x, z) <=> \/ x[1] < z[1]
                            \/ x[1] = z[1] /\ x[2] < z[2]
                            \/ x[1] = z[1] /\ x[2] = z[2] /\ x[3] < z[3]
                            \/ x[1] = z[1] /\ x[2] = z[2] /\ x[3] = z[3] /\ x[4] < z[4]
  BY PrecedesParts
<1>2. PICK a, b, c, d, e, f, g, h, i, j, k, l :
         /\ a = x[1] /\ b = x[2] /\ c = x[3] /\ d = x[4]
         /\ e = y[1] /\ f = y[2] /\ g = y[3] /\ h = y[4]
         /\ i = z[1] /\ j = z[2] /\ k = z[3] /\ l = z[4]
  OBVIOUS
<1>3. /\ a \in Int /\ b \in Int /\ c \in Int /\ d \in Int /\ e \in Int /\ f \in Int
      /\ g \in Int /\ h \in Int /\ i \in Int /\ j \in Int /\ k \in Int /\ l \in Int
  BY <1>2 DEF Key
<1>4. ~Precedes(x, x)
  BY <1>1, <1>2, <1>3
<1>5. Precedes(x, y) /\ Precedes(y, z) => Precedes(x, z)
  BY <1>1, <1>2, <1>3
<1>6. x[4] # y[4] => Precedes(x, y) \/ Precedes(y, x)
  BY <1>1, <1>2, <1>3
<1>7. QED
  BY <1>4, <1>5, <1>6

\* What was found has facts of known entities, each with an identifier of its own.
Findings(found) ==
  /\ IsFiniteSet(found.facts) /\ found.facts \subseteq Fact
  /\ \A f, g \in found.facts : f.id = g.id => f = g
  /\ \A f \in found.facts : found.distances[f.source] \in Nat /\ found.distances[f.target] \in Nat

Earlier(found) == {p \in found.facts \X found.facts : Precedes(KeyOf(found, p[1]), KeyOf(found, p[2]))}

\* The candidates are what was found, in a total order.
LEMMA FindingsSorted ==
  ASSUME NEW found, Findings(found)
  PROVE  Sorts(Candidates(found), found.facts, Earlier(found))
<1>1. PICK F : F = found.facts
  OBVIOUS
<1>2. Candidates(found) = SortedSet(F, Earlier(found))
  BY <1>1, Zenon DEF Candidates, Earlier, Precedes, KeyOf
<1>3. ASSUME NEW f \in F
      PROVE  Key(KeyOf(found, f)) /\ KeyOf(found, f)[4] = FactRank[f.id] /\ f.id \in FactIds
  <2>1. f \in Fact /\ found.distances[f.source] \in Nat /\ found.distances[f.target] \in Nat
    BY <1>1, <1>3 DEF Findings
  <2>2. PICK m : m = Min({found.distances[f.source], found.distances[f.target]})
    OBVIOUS
  <2>3. m \in Int
    <3>1. PICK d, g : d = found.distances[f.source] /\ g = found.distances[f.target]
      OBVIOUS
    <3>2. d \in Int /\ g \in Int /\ m = Min({d, g})
      BY <2>1, <2>2, <3>1
    <3>3. m \in {d, g}
      BY <3>2, SmallerOfTwo
    <3>4. QED
      BY <3>2, <3>3
  <2>4. f.id \in FactIds /\ f.confidence \in Confidence /\ f.recorded_at \in Nat
    BY <2>1 DEF Fact, Time
  <2>5. FactRank[f.id] \in Int
    BY <2>4, CompilerAssumption
  <2>6. f.confidence \in Int
    BY <2>4, ConfidenceInt
  <2>7. KeyOf(found, f) = <<m, 0 - f.confidence, 0 - f.recorded_at, FactRank[f.id]>>
    BY <2>2 DEF KeyOf
  <2>8. QED
    BY <2>3, <2>4, <2>5, <2>6, <2>7 DEF Key
<1>4. \A f, g : <<f, g>> \in Earlier(found)
                  <=> f \in F /\ g \in F /\ Precedes(KeyOf(found, f), KeyOf(found, g))
  BY <1>1 DEF Earlier
<1>5. \A f \in F : <<f, f>> \notin Earlier(found)
  BY <1>3, <1>4, PrecedesOrder
<1>6. ASSUME NEW f \in F, NEW g \in F, NEW h \in F,
             <<f, g>> \in Earlier(found), <<g, h>> \in Earlier(found)
      PROVE  <<f, h>> \in Earlier(found)
  <2>1. Precedes(KeyOf(found, f), KeyOf(found, g)) /\ Precedes(KeyOf(found, g), KeyOf(found, h))
    BY <1>4, <1>6
  <2>2. Precedes(KeyOf(found, f), KeyOf(found, h))
    BY <1>3, <2>1, PrecedesOrder
  <2>3. QED
    BY <1>4, <2>2
<1>7. ASSUME NEW f \in F, NEW g \in F, f # g
      PROVE  <<f, g>> \in Earlier(found) \/ <<g, f>> \in Earlier(found)
  <2>1. f.id # g.id
    BY <1>1, <1>7 DEF Findings
  <2>2. FactRank[f.id] # FactRank[g.id]
    BY <1>3, <2>1, CompilerAssumption
  <2>3. KeyOf(found, f)[4] # KeyOf(found, g)[4]
    BY <1>3, <2>2
  <2>4. Precedes(KeyOf(found, f), KeyOf(found, g)) \/ Precedes(KeyOf(found, g), KeyOf(found, f))
    BY <1>3, <2>3, PrecedesOrder
  <2>5. QED
    BY <1>4, <2>4
<1>8. StrictOrder(F, Earlier(found))
  BY <1>5, <1>6, <1>7 DEF StrictOrder
<1>9. IsFiniteSet(F)
  BY <1>1 DEF Findings
<1>10. PICK before : before = Earlier(found)
  OBVIOUS
<1>11. Sorts(SortedSet(F, before), F, before)
  BY <1>8, <1>9, <1>10, SortedSetSorts
<1>12. QED
  BY <1>1, <1>2, <1>10, <1>11

-----------------------------------------------------------------------------
\* The loop over the candidates.

SelectionStart(r) ==
  [nodes |-> ToSet(r.seeds), facts |-> {}, omitted |-> 0,
   used |-> TokensOf(ToSet(r.seeds), r.known_at)]

Selecting(s, r, c) ==
  /\ s[0] = SelectionStart(r)
  /\ \A k \in 0..(Len(c) - 1) : s[k + 1] = SelectFact(s[k], r, c[k + 1])

\* Its recursion is well-founded.
LEMMA SelectRecursion ==
  ASSUME NEW r, NEW c, Len(c) \in Nat
  PROVE  \E s : Selecting(s, r, c) /\ Select(r, c) = s[Len(c)]
<1> DEFINE Rec(s, n) == s = [k \in 0..n |-> IF k = 0 THEN SelectionStart(r)
                                            ELSE SelectFact(s[k - 1], r, c[k])]
           N == {n \in Nat : \E s : Rec(s, n)}
<1>1. 0 \in N
  <2>1. Rec([k \in 0..0 |-> SelectionStart(r)], 0)
    OBVIOUS
  <2>2. QED
    BY <2>1
<1>2. ASSUME NEW n \in Nat, n \in N PROVE n + 1 \in N
  <2>1. PICK s : Rec(s, n)
    BY <1>2
  <2> DEFINE v == [k \in 0..(n + 1) |-> IF k = n + 1 THEN SelectFact(s[n], r, c[n + 1]) ELSE s[k]]
  <2>2. ASSUME NEW k \in 0..(n + 1)
        PROVE  v[k] = IF k = 0 THEN SelectionStart(r) ELSE SelectFact(v[k - 1], r, c[k])
    <3>1. CASE k = n + 1
      <4>1. k # 0 /\ k - 1 = n /\ n \in 0..(n + 1) /\ n # n + 1
        BY <3>1
      <4>2. v[k - 1] = s[n] /\ v[k] = SelectFact(s[n], r, c[k])
        BY <3>1, <4>1
      <4>3. QED
        BY <3>1, <4>1, <4>2
    <3>2. CASE k = 0
      <4>1. s[0] = SelectionStart(r) /\ v[0] = s[0]
        BY <2>1
      <4>2. QED
        BY <3>2, <4>1
    <3>3. CASE k # n + 1 /\ k # 0
      <4>1. k \in 0..n /\ k - 1 \in 0..(n + 1) /\ k - 1 # n + 1
        BY <3>3
      <4>2. v[k] = s[k] /\ v[k - 1] = s[k - 1]
        BY <3>3, <4>1
      <4> HIDE DEF v
      <4>3. s[k] = SelectFact(s[k - 1], r, c[k])
        BY <2>1, <3>3, <4>1
      <4>4. QED
        BY <3>3, <4>2, <4>3
    <3>4. QED
      BY <3>1, <3>2, <3>3
  <2>3. v = [k \in 0..(n + 1) |-> v[k]]
    OBVIOUS
  <2> HIDE DEF v
  <2>4. Rec(v, n + 1)
    BY <2>2, <2>3
  <2>5. n + 1 \in Nat
    OBVIOUS
  <2> HIDE DEF Rec
  <2>6. QED
    BY <2>4, <2>5, Zenon
<1> HIDE DEF N
<1>3. Len(c) \in N
  BY <1>1, <1>2, InductionOnNat
<1>4. \E s : Rec(s, Len(c))
  BY <1>3 DEF N
<1>5. Rec(CHOOSE s : Rec(s, Len(c)), Len(c))
  BY <1>4, Zenon
<1>6. Select(r, c) = (CHOOSE s : Rec(s, Len(c)))[Len(c)]
  BY Zenon DEF Select, SelectionStart
<1>7. PICK s : Rec(s, Len(c)) /\ Select(r, c) = s[Len(c)]
  BY <1>5, <1>6, Zenon
<1>8. s[0] = SelectionStart(r)
  BY <1>7
<1>9. ASSUME NEW k \in 0..(Len(c) - 1) PROVE s[k + 1] = SelectFact(s[k], r, c[k + 1])
  <2>1. k + 1 \in 0..Len(c) /\ k + 1 # 0 /\ (k + 1) - 1 = k
    OBVIOUS
  <2>2. s[k + 1] = SelectFact(s[(k + 1) - 1], r, c[k + 1])
    BY <1>7, <2>1
  <2>3. QED
    BY <2>1, <2>2
<1>10. QED
  BY <1>7, <1>8, <1>9 DEF Selecting

\* Candidates that are listed once and may all be selected.
Selectable(c, r) ==
  /\ Len(c) \in Nat
  /\ \A i, j \in 1..Len(c) : c[i] = c[j] => i = j
  /\ \A i \in 1..Len(c) : Payable(c[i], r.known_at)

\* The selection pays for what it takes and leaves out what does not fit.
LEMMA SelectChosen ==
  ASSUME NEW r, r.token_budget \in Nat, NEW c, Selectable(c, r), ToSet(r.seeds) \subseteq Entities,
         Priced(ToSet(r.seeds), r.known_at),
         TokensOf(ToSet(r.seeds), r.known_at) \in Nat,
         ~(TokensOf(ToSet(r.seeds), r.known_at) > r.token_budget)
  PROVE  Chosen(Select(r, c), r, c, Len(c))
<1>1. PICK n : n = Len(c)
  OBVIOUS
<1>2. n \in Nat
  BY <1>1 DEF Selectable
<1>3. PICK s : Selecting(s, r, c) /\ Select(r, c) = s[n]
  BY <1>1, <1>2, SelectRecursion
<1> DEFINE N == {k \in Nat : Chosen(s[k], r, c, k)}
<1>4. 0 \in N
  <2>1. PICK a, S, u : a = s[0] /\ S = ToSet(r.seeds) /\ u = TokensOf(S, r.known_at)
    OBVIOUS
  <2>2. a = [nodes |-> S, facts |-> {}, omitted |-> 0, used |-> u]
    BY <1>3, <2>1 DEF Selecting, SelectionStart
  <2>3. a.nodes = S /\ a.facts = {} /\ a.omitted = 0 /\ a.used = u
    BY <2>2
  <2>4. u \in Nat /\ r.token_budget \in Nat /\ u <= r.token_budget /\ S \subseteq Entities
    BY <2>1
  <2>5. FirstOf(c, 0) = {}
    BY FirstMore
  <2>6. Spent({}) = 0
    BY SpentNothing
  <2>7. IsFiniteSet({}) /\ Cardinality({}) = 0
    BY FS_EmptySet
  <2>8. a \in Selections
    BY <2>2, <2>4 DEF Selections
  <2>9. TokensOf(a.nodes, r.known_at) + Spent(a.facts) = a.used /\ a.used \in Nat
    BY <2>1, <2>3, <2>4, <2>6
  <2>10. Chosen(a, r, c, 0)
    BY <2>1, <2>3, <2>4, <2>5, <2>7, <2>8, <2>9 DEF Chosen
  <2>11. QED
    BY <2>1, <2>10
<1>5. ASSUME NEW k \in 0..(n - 1), k \in N PROVE k + 1 \in N
  <2>1. PICK a, b, f : a = s[k] /\ b = s[k + 1] /\ f = c[k + 1]
    OBVIOUS
  <2>2. k \in Nat /\ k + 1 \in Nat /\ k + 1 \in 1..n
    BY <1>2
  <2>3. Chosen(a, r, c, k) /\ b = SelectFact(a, r, f)
    BY <1>1, <1>3, <1>5, <2>1 DEF Selecting
  <2>4. Payable(f, r.known_at)
    BY <1>1, <2>1, <2>2 DEF Selectable
  <2>5. f \notin FirstOf(c, k)
    <3>1. \A j \in 1..k : j \in 1..n /\ j # k + 1
      BY <1>2
    <3>2. \A j \in 1..k : c[j] # c[k + 1]
      BY <1>1, <2>2, <3>1 DEF Selectable
    <3>3. QED
      BY <2>1, <3>2 DEF FirstOf
  <2>6. \A g \in FirstOf(c, k) : Payable(g, r.known_at)
    <3>1. \A j \in 1..k : j \in 1..n
      BY <1>2
    <3>2. QED
      BY <1>1, <3>1 DEF Selectable, FirstOf
  <2>7. CASE a.used + (FactTokens(f) + Due(a, f.source, r.known_at) + Due(a, f.target, r.known_at))
               > r.token_budget
    <3>1. Chosen(b, r, c, k + 1)
      BY <2>1, <2>2, <2>3, <2>4, <2>5, <2>7, OmitStep
    <3>2. QED
      BY <2>1, <2>2, <3>1
  <2>8. CASE ~(a.used + (FactTokens(f) + Due(a, f.source, r.known_at) + Due(a, f.target, r.known_at))
                 > r.token_budget)
    <3>1. Chosen(b, r, c, k + 1)
      BY <2>1, <2>2, <2>3, <2>4, <2>5, <2>6, <2>8, TakeStep
    <3>2. QED
      BY <2>1, <2>2, <3>1
  <2>9. QED
    BY <2>7, <2>8
<1> HIDE DEF N
<1>6. n \in N
  <2>1. n \in 0..n
    BY <1>2
  <2>2. QED
    BY <1>2, <1>4, <1>5, <2>1, InductionUpTo
<1>7. QED
  BY <1>1, <1>3, <1>6 DEF N

-----------------------------------------------------------------------------
\* What the neighbourhood gives the selection.

\* Everything found is a fact of known, visible entities.
Gathered(found, r) ==
  /\ Findings(found)
  /\ \A f \in found.facts : f \in Fact /\ Visible(r, f.source) /\ Visible(r, f.target)

\* The search retains facts of the projection between entities it has reached.
LEMMA NeighborhoodGathers ==
  ASSUME Sound(projection), Listed(projection), NEW r, r.seeds \in Seq(Entities), r.max_depth \in Nat,
         Neighborhood(r) # None
  PROVE  /\ \A e \in ToSet(r.seeds) : Visible(r, e)
         /\ Gathered(Neighborhood(r), r)
<1>1. PICK t : Turns(t, r)
  BY NeighborhoodRecursion
<1>2. PICK n, a, found : n = Cardinality(Entities) /\ a = t[n] /\ found = Neighborhood(r)
  OBVIOUS
<1>3. ToSet(Ascending(ToSet(r.seeds))) = ToSet(r.seeds)
  BY SeedsListed
<1>4. found = IF \E e \in ToSet(r.seeds) : ~InScope(r, e) THEN None ELSE Retained(a)
  BY <1>1, <1>2, <1>3 DEF Turns
<1>5. (\A e \in ToSet(r.seeds) : InScope(r, e)) /\ found = Retained(a)
  BY <1>2, <1>4
<1>6. Searching(a, r)
  BY <1>1, <1>2, <1>5, SearchEnds
<1>7. a \in Searches /\ (\A e \in Known(a) : InScope(r, e)) /\ a.facts \subseteq Usable(r)
  BY <1>6 DEF Searching, Searched, Examined
<1>8. PICK K : K = {f \in a.facts : a.distances[f.source] # None /\ a.distances[f.target] # None}
  OBVIOUS
<1>9. a = [distances |-> a.distances, facts |-> a.facts, excluded |-> a.excluded, queue |-> a.queue]
  BY <1>7 DEF Searches
<1>10. found = [a EXCEPT !.facts = K]
  BY <1>5, <1>8 DEF Retained
<1>11. found.distances = a.distances /\ found.facts = K
  BY <1>9, <1>10
<1>12. PICK facts, lookup : facts = projection.facts /\ lookup = projection.fact_lookup
  OBVIOUS
<1>13. facts \in Seq(Fact) /\ FactsIndexed(facts, lookup)
  BY <1>12, ProjectionFields DEF Sound
<1>14. /\ DOMAIN facts = 1..Len(facts) /\ Len(facts) \in Nat
       /\ \A k \in 1..Len(facts) : facts[k] \in Fact
  BY <1>13, LenProperties, ElementOfSeq
<1>15. K \subseteq ToSet(facts)
  BY <1>7, <1>8, <1>12 DEF Usable
<1>16. \A f \in ToSet(facts) : f \in Fact /\ \E k \in 1..Len(facts) : facts[k] = f
  BY <1>14 DEF ToSet
<1>17. \A f, g \in K : f.id = g.id => f = g
  <2> SUFFICES ASSUME NEW f \in K, NEW g \in K, f.id = g.id PROVE f = g
    OBVIOUS
  <2>1. PICK k \in 1..Len(facts) : facts[k] = f
    BY <1>15, <1>16
  <2>2. PICK m \in 1..Len(facts) : facts[m] = g
    BY <1>15, <1>16
  <2>3. lookup[f.id] = k - 1 /\ lookup[g.id] = m - 1
    BY <1>13, <2>1, <2>2 DEF FactsIndexed
  <2>4. k = m
    BY <2>1, <2>2, <2>3
  <2>5. QED
    BY <2>1, <2>2, <2>4
<1>18. IsFiniteSet(K)
  <2>1. IsFiniteSet(ToSet(facts))
    <3>1. facts \in Seq(ToSet(facts))
      BY <1>13, <1>14 DEF ToSet
    <3>2. QED
      BY <3>1, ElementsFinite
  <2>2. K \in SUBSET ToSet(facts)
    BY <1>15
  <2>3. QED
    BY <2>1, <2>2, FS_Subset
<1>19. ASSUME NEW f \in K
       PROVE  /\ f \in Fact /\ Visible(r, f.source) /\ Visible(r, f.target)
              /\ found.distances[f.source] \in Nat /\ found.distances[f.target] \in Nat
  <2>1. f \in Fact
    BY <1>15, <1>16
  <2>2. f.source \in Entities /\ f.target \in Entities
    BY <2>1, FactParts
  <2>3. f.source \in Known(a) /\ f.target \in Known(a)
    BY <1>8, <2>2 DEF Known
  <2>4. a.distances[f.source] \in Nat /\ a.distances[f.target] \in Nat
    BY <1>7, <2>3, KnownDistance
  <2>5. QED
    BY <1>7, <1>11, <2>1, <2>3, <2>4 DEF InScope
<1>20. Findings(found)
  BY <1>11, <1>17, <1>18, <1>19 DEF Findings
<1>21. \A e \in ToSet(r.seeds) : Visible(r, e)
  BY <1>5 DEF InScope
<1>22. QED
  BY <1>2, <1>11, <1>19, <1>20, <1>21 DEF Gathered

-----------------------------------------------------------------------------
\* The bundle against its receipt.

\* The ends that a fact would add are what it owes.
LEMMA EndsDue ==
  ASSUME NEW a, NEW t, NEW f, Payable(f, t), f.source # f.target
  PROVE  TokensOf({f.source, f.target} \ a.nodes, t) = Due(a, f.source, t) + Due(a, f.target, t)
<1>1. PICK s, o, N, E : s = f.source /\ o = f.target /\ N = a.nodes /\ E = {s, o} \ N
  OBVIOUS
<1>2. Price(s, t) \in Nat /\ Price(o, t) \in Nat /\ s # o
  BY <1>1 DEF Payable
<1>3. /\ Due(a, s, t) = IF s \in N THEN 0 ELSE Price(s, t)
      /\ Due(a, o, t) = IF o \in N THEN 0 ELSE Price(o, t)
  BY <1>1 DEF Due
<1>4. Priced({}, t) /\ TokensOf({}, t) = 0
  BY TokensEmpty, FS_EmptySet DEF Priced
<1>5. /\ Priced({} \cup {s}, t)
      /\ TokensOf({} \cup {s}, t) = IF s \in {} THEN TokensOf({}, t) ELSE TokensOf({}, t) + Price(s, t)
  BY <1>2, <1>4, TokensAdded
<1>6. Priced({s}, t) /\ TokensOf({s}, t) = Price(s, t)
  <2>1. {} \cup {s} = {s} /\ s \notin {}
    OBVIOUS
  <2>2. QED
    BY <1>2, <1>4, <1>5, <2>1
<1>7. TokensOf({} \cup {o}, t) = IF o \in {} THEN TokensOf({}, t) ELSE TokensOf({}, t) + Price(o, t)
  BY <1>2, <1>4, TokensAdded
<1>8. TokensOf({o}, t) = Price(o, t)
  <2>1. {} \cup {o} = {o} /\ o \notin {}
    OBVIOUS
  <2>2. QED
    BY <1>2, <1>4, <1>7, <2>1
<1>9. PICK S : S = {s}
  OBVIOUS
<1>10. TokensOf({s, o}, t) = Price(s, t) + Price(o, t)
  <2>1. S \cup {o} = {s, o} /\ o \notin S
    BY <1>2, <1>9
  <2>2. Priced(S, t) /\ TokensOf(S, t) = Price(s, t)
    BY <1>6, <1>9
  <2>3. TokensOf(S \cup {o}, t) = IF o \in S THEN TokensOf(S, t) ELSE TokensOf(S, t) + Price(o, t)
    BY <1>2, <2>2, TokensAdded
  <2>4. QED
    BY <2>1, <2>2, <2>3
<1>11. TokensOf(E, t) = Due(a, s, t) + Due(a, o, t)
  <2>1. CASE s \in N /\ o \in N
    <3>1. E = {}
      BY <1>1, <2>1
    <3>2. QED
      BY <1>3, <1>4, <2>1, <3>1
  <2>2. CASE s \in N /\ o \notin N
    <3>1. E = {o}
      BY <1>1, <2>2
    <3>2. QED
      BY <1>2, <1>3, <1>8, <2>2, <3>1
  <2>3. CASE s \notin N /\ o \in N
    <3>1. E = {s}
      BY <1>1, <2>3
    <3>2. QED
      BY <1>2, <1>3, <1>6, <2>3, <3>1
  <2>4. CASE s \notin N /\ o \notin N
    <3>1. E = {s, o}
      BY <1>1, <2>4
    <3>2. QED
      BY <1>2, <1>3, <1>10, <2>4, <3>1
  <2>5. QED
    BY <2>1, <2>2, <2>3, <2>4
<1>12. QED
  BY <1>1, <1>11

\* A selection from F that fits the budget.
Fits(r, a, F) ==
  LET Paid(nodes, facts) == TokensOf(nodes, r.known_at)
                              + SumFunction([f \in facts |-> FactTokens(f)])
      omitted == F \ a.facts
  IN  /\ Paid(a.nodes, a.facts) <= a.used /\ a.used <= r.token_budget
      /\ {f \in a.facts : f.source = f.target} = {} => Paid(a.nodes, a.facts) = a.used
      /\ \A f \in a.facts : {f.source, f.target} \subseteq a.nodes
      /\ a.omitted = Cardinality(omitted)
      /\ \A f \in omitted : f.source # f.target =>
           a.used + Paid({f.source, f.target} \ a.nodes, {f}) > r.token_budget

\* A selection that paid for itself is within the budget and leaves out only
\* what does not fit.
LEMMA SelectionFits ==
  ASSUME NEW r, NEW c, NEW F, NEW a, Chosen(a, r, c, Len(c)), FirstOf(c, Len(c)) = F,
         \A f \in F : Payable(f, r.known_at), r.token_budget \in Nat
  PROVE  Fits(r, a, F)
<1>1. PICK t : t = r.known_at
  OBVIOUS
<1>2. \A facts : SumFunction([f \in facts |-> FactTokens(f)]) = Spent(facts)
  BY DEF Spent
<1>3. ASSUME NEW f \in F \ a.facts, f.source # f.target
      PROVE  a.used + (TokensOf({f.source, f.target} \ a.nodes, t) + Spent({f})) > r.token_budget
  <2>1. PICK x, y, v, u : /\ x = Due(a, f.source, t) /\ y = Due(a, f.target, t)
                          /\ v = FactTokens(f) /\ u = a.used
    OBVIOUS
  <2>2. u + v + x + y > r.token_budget /\ u \in Nat
    BY <1>1, <1>3, <2>1 DEF Chosen, Selections
  <2>3. Payable(f, t)
    BY <1>1, <1>3
  <2>4. v \in Nat /\ x \in Nat /\ y \in Nat
    BY <2>1, <2>3, FactCost DEF Payable, Due
  <2>5. TokensOf({f.source, f.target} \ a.nodes, t) = x + y
    BY <1>3, <2>1, <2>3, EndsDue
  <2>6. Spent({f}) = v
    <3>1. IsFiniteSet({}) /\ {} \subseteq Fact /\ f \in Fact /\ f \notin {} /\ {} \cup {f} = {f}
      BY <2>3, FS_EmptySet DEF Payable
    <3>2. Spent({} \cup {f}) = Spent({}) + FactTokens(f) /\ Spent({}) = 0
      BY <3>1, SpentAdded
    <3>3. QED
      BY <2>1, <2>4, <3>1, <3>2
  <2>7. u + ((x + y) + v) > r.token_budget
    BY <2>2, <2>4
  <2>8. QED
    BY <2>1, <2>5, <2>6, <2>7
<1>4. /\ a.used <= r.token_budget
      /\ TokensOf(a.nodes, t) + Spent(a.facts) <= a.used
      /\ (\A f \in a.facts : f.source # f.target) => TokensOf(a.nodes, t) + Spent(a.facts) = a.used
      /\ \A f \in a.facts : f.source \in a.nodes /\ f.target \in a.nodes
      /\ a.omitted = Cardinality(F \ a.facts)
  BY <1>1 DEF Chosen
<1>5. QED
  BY <1>1, <1>2, <1>3, <1>4 DEF Fits

\* The bundle of any request is within its budget.
Honoured(r, bundle) ==
  LET Paid(nodes, facts) == TokensOf(nodes, r.known_at)
                              + SumFunction([f \in facts |-> FactTokens(f)])
      cost == Paid(bundle.nodes, bundle.facts)
      used == bundle.receipt.estimated_tokens
      omitted == Neighborhood(r).facts \ bundle.facts
      Ends(f) == {f.source, f.target}
      Loops(facts) == {f \in facts : f.source = f.target}
  IN  /\ cost <= used /\ used <= r.token_budget
      /\ Loops(bundle.facts) = {} => cost = used
      /\ \A f \in bundle.facts : Ends(f) \subseteq bundle.nodes
      /\ bundle.receipt.omitted_by_budget = Cardinality(omitted)
      /\ \A f \in omitted \ Loops(omitted) :
            used + Paid(Ends(f) \ bundle.nodes, {f}) > r.token_budget

LEMMA CompileHonoured ==
  ASSUME NEW known, Recorded(log, projection, known),
         NEW r, r.seeds \in Seq(Entities), r.max_depth \in Nat, r.known_at \in Time,
         r.token_budget \in Nat, NEW bundle, bundle = Compile(r), bundle # None
  PROVE  Honoured(r, bundle)
<1>1. Sound(projection) /\ Listed(projection)
  BY DEF Recorded, Tracks
<1>2. PICK found, c, a, S, t : /\ found = Neighborhood(r) /\ c = Candidates(found) /\ a = Select(r, c)
                               /\ S = ToSet(r.seeds) /\ t = r.known_at
  OBVIOUS
<1>3. bundle = CompileFound(r, found)
  BY <1>2 DEF Compile
<1>4. found # None /\ ~(TokensOf(S, t) > r.token_budget) /\ bundle = Bundle(a, found)
  BY <1>2, <1>3 DEF CompileFound
<1>5. (\A e \in S : Visible(r, e)) /\ Gathered(found, r)
  BY <1>1, <1>2, <1>4, NeighborhoodGathers
<1>6. ASSUME NEW e \in Entities, Visible(r, e) PROVE Price(e, t) \in Nat
  <2>1. t \in Time /\ VisibleNode(e, t) # None
    BY <1>2, <1>6 DEF Visible
  <2>2. QED
    BY <2>1, VisiblePriced
<1>7. S \subseteq Entities /\ IsFiniteSet(S)
  <2>1. DOMAIN r.seeds = 1..Len(r.seeds) /\ \A k \in 1..Len(r.seeds) : r.seeds[k] \in Entities
    BY LenProperties, ElementOfSeq
  <2>2. S \subseteq Entities
    BY <1>2, <2>1 DEF ToSet
  <2>3. S \in SUBSET Entities
    BY <2>2
  <2>4. IsFiniteSet(S)
    BY <2>3, ProjectionAssumption, FS_Subset
  <2>5. QED
    BY <2>2, <2>4
<1>8. Priced(S, t) /\ TokensOf(S, t) \in Nat
  <2>1. Priced(S, t)
    BY <1>5, <1>6, <1>7 DEF Priced
  <2>2. QED
    BY <2>1, TokensNatural
<1>9. PICK F, before : F = found.facts /\ before = Earlier(found)
  OBVIOUS
<1>10. Sorts(c, F, before)
  <2>1. Findings(found)
    BY <1>5 DEF Gathered
  <2>2. Sorts(Candidates(found), found.facts, Earlier(found))
    BY <2>1, FindingsSorted
  <2>3. QED
    BY <1>2, <1>9, <2>2
<1>11. /\ c \in Seq(F) /\ \A x \in F : \E k \in 1..Len(c) : c[k] = x
       /\ \A i, j \in 1..Len(c) : c[i] = c[j] => i = j
  BY <1>10 DEF Sorts
<1>12. Len(c) \in Nat /\ \A k \in 1..Len(c) : c[k] \in F
  BY <1>11, LenProperties, ElementOfSeq
<1>13. FirstOf(c, Len(c)) = F
  <2>1. ASSUME NEW x PROVE x \in F <=> \E k \in 1..Len(c) : x = c[k]
    <3>1. ASSUME x \in F PROVE \E k \in 1..Len(c) : x = c[k]
      <4>1. PICK k \in 1..Len(c) : c[k] = x
        BY <1>11, <3>1, Zenon
      <4>2. QED
        BY <4>1
    <3>2. ASSUME NEW k \in 1..Len(c), x = c[k] PROVE x \in F
      BY <1>12, <3>2, Zenon
    <3>3. QED
      BY <3>1, <3>2, Zenon
  <2>2. \A x : x \in FirstOf(c, Len(c)) <=> \E k \in 1..Len(c) : x = c[k]
    BY DEF FirstOf
  <2>3. QED
    BY <2>1, <2>2
<1>14. ASSUME NEW f \in F PROVE Payable(f, t)
  <2>1. f \in Fact /\ Visible(r, f.source) /\ Visible(r, f.target)
    BY <1>5, <1>9 DEF Gathered
  <2>2. f.source \in Entities /\ f.target \in Entities
    BY <2>1, FactParts
  <2>3. QED
    BY <1>6, <2>1, <2>2 DEF Payable
<1>15. Selectable(c, r)
  BY <1>2, <1>11, <1>12, <1>14 DEF Selectable
<1>16. Chosen(a, r, c, Len(c))
  BY <1>2, <1>4, <1>7, <1>8, <1>15, SelectChosen
<1>17. /\ bundle.nodes = a.nodes /\ bundle.facts = a.facts
       /\ bundle.receipt.estimated_tokens = a.used /\ bundle.receipt.omitted_by_budget = a.omitted
  BY <1>4 DEF Bundle
<1>18. Fits(r, a, F)
  <2>1. \A f \in F : Payable(f, r.known_at)
    BY <1>2, <1>14
  <2>2. QED
    BY <1>13, <1>16, <2>1, SelectionFits
<1>19. F \ a.facts = Neighborhood(r).facts \ bundle.facts
  BY <1>2, <1>9, <1>17
<1>20. QED
  BY <1>17, <1>18, <1>19 DEF Honoured, Fits

-----------------------------------------------------------------------------
\* Sorted lists.

\* The places of s in the order, first come first.
SortingOrder(s, before) ==
  {p \in (DOMAIN s) \X (DOMAIN s) :
     \/ <<s[p[1]], s[p[2]]>> \in before
     \/ <<s[p[2]], s[p[1]]>> \notin before /\ p[1] < p[2]}

\* t holds the elements of s in the order, equal ones next to each other.
Arranged(t, s, before) ==
  /\ t = [k \in 1..Len(s) |-> t[k]] /\ Len(t) = Len(s)
  /\ \A k \in 1..Len(s) : \E j \in 1..Len(s) : t[k] = s[j]
  /\ \A k \in 1..Len(s) : \E j \in 1..Len(s) : t[j] = s[k]
  /\ \A i, j \in 1..Len(s) : i < j => <<t[i], t[j]>> \in before \/ t[i] = t[j]
  /\ (\A i, j \in 1..Len(s) : s[i] = s[j] => i = j) => \A i, j \in 1..Len(s) : t[i] = t[j] => i = j

\* Sorting arranges a sequence.
LEMMA SortedArranges ==
  ASSUME NEW S, NEW s \in Seq(S), NEW before, StrictOrder(S, before),
         NEW p, p = SortedSet(DOMAIN s, SortingOrder(s, before))
  PROVE  Arranged([k \in DOMAIN s |-> s[p[k]]], s, before)
<1>1. Len(s) \in Nat /\ DOMAIN s = 1..Len(s) /\ \A k \in 1..Len(s) : s[k] \in S
  BY LenProperties, ElementOfSeq
<1>2. PICK n, D, rel : n = Len(s) /\ D = DOMAIN s /\ rel = SortingOrder(s, before)
  OBVIOUS
<1>3. n \in Nat /\ D = 1..n /\ \A k \in D : k \in Nat /\ s[k] \in S
  BY <1>1, <1>2
<1>4. \A x, y \in D : <<x, y>> \in rel
          <=> <<s[x], s[y]>> \in before \/ (<<s[y], s[x]>> \notin before /\ x < y)
  <2> SUFFICES ASSUME NEW x \in D, NEW y \in D
               PROVE  <<x, y>> \in rel
                        <=> <<s[x], s[y]>> \in before \/ (<<s[y], s[x]>> \notin before /\ x < y)
    OBVIOUS
  <2>1. PICK q : q = <<x, y>>
    OBVIOUS
  <2>2. q[1] = x /\ q[2] = y /\ q \in D \X D
    BY <2>1
  <2>3. rel = {d \in D \X D : <<s[d[1]], s[d[2]]>> \in before
                               \/ (<<s[d[2]], s[d[1]]>> \notin before /\ d[1] < d[2])}
    BY <1>2 DEF SortingOrder
  <2>4. q \in rel <=> <<s[q[1]], s[q[2]]>> \in before
                       \/ (<<s[q[2]], s[q[1]]>> \notin before /\ q[1] < q[2])
    BY <2>2, <2>3
  <2>5. QED
    BY <2>1, <2>2, <2>4
<1>5. /\ \A x \in S : <<x, x>> \notin before
      /\ \A x, y, z \in S : <<x, y>> \in before /\ <<y, z>> \in before => <<x, z>> \in before
      /\ \A x, y \in S : x # y => <<x, y>> \in before \/ <<y, x>> \in before
  BY DEF StrictOrder
<1>6. \A x, y \in D : <<x, y>> \in rel <=> <<s[x], s[y]>> \in before \/ (s[x] = s[y] /\ x < y)
  <2> SUFFICES ASSUME NEW x \in D, NEW y \in D
               PROVE  <<x, y>> \in rel <=> <<s[x], s[y]>> \in before \/ (s[x] = s[y] /\ x < y)
    OBVIOUS
  <2>1. s[x] \in S /\ s[y] \in S
    BY <1>3
  <2>2. s[x] = s[y] => <<s[y], s[x]>> \notin before
    BY <1>5, <2>1
  <2>3. <<s[y], s[x]>> \notin before => s[x] = s[y] \/ <<s[x], s[y]>> \in before
    BY <1>5, <2>1
  <2>4. QED
    BY <1>4, <2>2, <2>3
<1>7. StrictOrder(D, rel)
  <2>1. ASSUME NEW x \in D PROVE <<x, x>> \notin rel
    <3>1. x \in Nat /\ s[x] \in S
      BY <1>3
    <3>2. ~(x < x) /\ <<s[x], s[x]>> \notin before
      BY <1>5, <3>1
    <3>3. QED
      BY <1>6, <3>2
  <2>2. ASSUME NEW x \in D, NEW y \in D, NEW z \in D, <<x, y>> \in rel, <<y, z>> \in rel
        PROVE  <<x, z>> \in rel
    <3>1. <<s[x], s[y]>> \in before \/ (s[x] = s[y] /\ x < y)
      BY <1>6, <2>2
    <3>2. <<s[y], s[z]>> \in before \/ (s[y] = s[z] /\ y < z)
      BY <1>6, <2>2
    <3>3. x \in Nat /\ y \in Nat /\ z \in Nat /\ s[x] \in S /\ s[y] \in S /\ s[z] \in S
      BY <1>3
    <3>4. x < y /\ y < z => x < z
      BY <3>3
    <3>5. <<s[x], s[z]>> \in before \/ (s[x] = s[z] /\ x < z)
      BY <1>5, <3>1, <3>2, <3>3, <3>4
    <3>6. QED
      BY <1>6, <3>5
  <2>3. ASSUME NEW x \in D, NEW y \in D, x # y PROVE <<x, y>> \in rel \/ <<y, x>> \in rel
    <3>1. CASE s[x] = s[y]
      <4>1. x < y \/ y < x
        BY <1>3, <2>3
      <4>2. QED
        BY <1>6, <3>1, <4>1
    <3>2. CASE s[x] # s[y]
      <4>1. <<s[x], s[y]>> \in before \/ <<s[y], s[x]>> \in before
        BY <1>3, <1>5, <3>2
      <4>2. QED
        BY <1>6, <4>1
    <3>3. QED
      BY <3>1, <3>2
  <2>4. QED
    BY <2>1, <2>2, <2>3 DEF StrictOrder
<1>8. IsFiniteSet(D) /\ Cardinality(D) = n
  <2>1. IsFiniteSet(1..n) /\ Cardinality(1..n) = IF 1 > n THEN 0 ELSE n - 1 + 1
    BY <1>3, FS_Interval
  <2>2. QED
    BY <1>3, <2>1
<1>9. Sorts(p, D, rel)
  BY <1>2, <1>7, <1>8, SortedSetSorts
<1>10. /\ \A k \in D : p[k] \in D
       /\ \A x \in D : \E k \in D : p[k] = x
       /\ \A i, j \in D : p[i] = p[j] => i = j
       /\ \A i, j \in D : i < j => <<p[i], p[j]>> \in rel
  <2>1. p \in Seq(D) /\ 1..Len(p) = D
    BY <1>3, <1>8, <1>9 DEF Sorts
  <2>2. \A k \in 1..Len(p) : p[k] \in D
    BY <2>1, ElementOfSeq
  <2>3. QED
    BY <1>9, <2>1, <2>2 DEF Sorts
<1>11. PICK t : t = [k \in DOMAIN s |-> s[p[k]]]
  OBVIOUS
<1>12. DOMAIN t = 1..n /\ \A k \in D : t[k] = s[p[k]]
  BY <1>2, <1>3, <1>11
<1>13. Len(t) = n
  <2>1. t \in [1..n -> S]
    BY <1>2, <1>3, <1>10, <1>11
  <2>2. QED
    BY <1>3, <2>1, LenProperties
<1>14. ASSUME NEW k \in D PROVE (\E j \in D : t[k] = s[j]) /\ \E j \in D : t[j] = s[k]
  BY <1>10, <1>12
<1>15. ASSUME NEW i \in D, NEW j \in D, i < j PROVE <<t[i], t[j]>> \in before \/ t[i] = t[j]
  <2>1. p[i] \in D /\ p[j] \in D /\ <<p[i], p[j]>> \in rel
    BY <1>10, <1>15
  <2>2. <<s[p[i]], s[p[j]]>> \in before \/ s[p[i]] = s[p[j]]
    BY <1>6, <2>1
  <2>3. QED
    BY <1>12, <2>2
<1>16. (\A i, j \in D : s[i] = s[j] => i = j) => \A i, j \in D : t[i] = t[j] => i = j
  BY <1>10, <1>12
<1>17. Arranged(t, s, before)
  <2>1. t = [k \in 1..n |-> t[k]]
    BY <1>2, <1>3, <1>11
  <2>2. QED
    BY <1>2, <1>3, <2>1, <1>13, <1>14, <1>15, <1>16 DEF Arranged
<1>18. QED
  BY <1>11, <1>17

\* s lists the elements of S in the order.
InOrder(s, S, before) ==
  /\ s \in Seq(S)
  /\ \A x \in S : \E k \in 1..Len(s) : s[k] = x
  /\ \A i, j \in 1..Len(s) : i < j => <<s[i], s[j]>> \in before

\* Two lists of one set agree, element by element.
LEMMA ListsAgree ==
  ASSUME NEW S, NEW before, StrictOrder(S, before), NEW s, InOrder(s, S, before), NEW t, InOrder(t, S, before)
  PROVE  \A k \in 1..Len(s) : k <= Len(t) /\ s[k] = t[k]
<1>1. PICK n \in Nat, m \in Nat : n = Len(s) /\ m = Len(t)
  BY LenProperties DEF InOrder
<1>2. /\ \A k \in 1..n : s[k] \in S
      /\ \A k \in 1..m : t[k] \in S
      /\ \A x \in S : (\E k \in 1..n : s[k] = x) /\ (\E k \in 1..m : t[k] = x)
      /\ \A i, j \in 1..n : i < j => <<s[i], s[j]>> \in before
      /\ \A i, j \in 1..m : i < j => <<t[i], t[j]>> \in before
  BY <1>1, ElementOfSeq DEF InOrder
<1>3. /\ \A x \in S : <<x, x>> \notin before
      /\ \A x, y, z \in S : <<x, y>> \in before /\ <<y, z>> \in before => <<x, z>> \in before
  BY DEF StrictOrder
<1> DEFINE N == {k \in Nat : \A i \in 1..k : i <= m /\ s[i] = t[i]}
<1>4. 0 \in N
  OBVIOUS
<1>5. ASSUME NEW k \in 0..(n - 1), k \in N PROVE k + 1 \in N
  <2>1. PICK c \in Nat : c = k + 1
    OBVIOUS
  <2>2. c \in 1..n /\ s[c] \in S /\ \A i \in 1..k : i \in 1..n /\ i <= m /\ s[i] = t[i] /\ i < c
    BY <1>2, <1>5, <2>1
  <2>3. PICK j \in 1..m : t[j] = s[c]
    BY <1>2, <2>2
  <2>4. ~(j < c)
    <3> SUFFICES ASSUME j < c PROVE FALSE
      OBVIOUS
    <3>1. j \in 1..k
      BY <2>1
    <3>2. s[j] = s[c] /\ <<s[j], s[c]>> \in before
      BY <1>2, <2>2, <2>3, <3>1
    <3>3. QED
      BY <1>3, <2>2, <3>2
  <2>5. c <= m /\ c \in 1..m /\ t[c] \in S
    BY <1>2, <2>2, <2>4
  <2>6. s[c] = t[c]
    <3> SUFFICES ASSUME s[c] # t[c] PROVE FALSE
      OBVIOUS
    <3>1. c < j
      BY <2>3, <2>4
    <3>2. <<t[c], s[c]>> \in before
      BY <1>2, <2>3, <2>5, <3>1
    <3>3. PICK i \in 1..n : s[i] = t[c]
      BY <1>2, <2>5
    <3>4. ~(i < c)
      <4> SUFFICES ASSUME i < c PROVE FALSE
        OBVIOUS
      <4>1. i \in 1..k
        BY <2>1
      <4>2. i \in 1..m /\ t[i] = t[c] /\ <<t[i], t[c]>> \in before
        BY <1>2, <2>2, <2>5, <3>3, <4>1
      <4>3. QED
        BY <1>3, <2>5, <4>2
    <3>5. c < i
      BY <3>3, <3>4
    <3>6. <<s[c], t[c]>> \in before
      BY <1>2, <2>2, <3>3, <3>5
    <3>7. QED
      BY <1>3, <2>2, <2>5, <3>2, <3>6
  <2>7. \A i \in 1..c : i \in 1..k \/ i = c
    BY <2>1
  <2>8. QED
    BY <2>1, <2>2, <2>5, <2>6, <2>7
<1> HIDE DEF N
<1>6. \A k \in 0..n : k \in N
  BY <1>1, <1>4, <1>5, InductionUpTo
<1>7. n \in N
  BY <1>1, <1>6
<1>8. QED
  BY <1>1, <1>7 DEF N

\* So they are one.
LEMMA ListsEqual ==
  ASSUME NEW S, NEW before, StrictOrder(S, before), NEW s, InOrder(s, S, before), NEW t, InOrder(t, S, before)
  PROVE  s = t
<1>1. PICK n \in Nat, m \in Nat : n = Len(s) /\ m = Len(t)
  BY LenProperties DEF InOrder
<1>2. (\A k \in 1..n : k <= m /\ s[k] = t[k]) /\ \A k \in 1..m : k <= n
  BY <1>1, ListsAgree
<1>3. n = m
  <2>1. n > 0 => n \in 1..n
    BY <1>1
  <2>2. m > 0 => m \in 1..m
    BY <1>1
  <2>3. QED
    BY <1>1, <1>2, <2>1, <2>2
<1>4. s = [k \in 1..n |-> s[k]] /\ t = [k \in 1..m |-> t[k]]
  BY <1>1, LenProperties DEF InOrder
<1>5. QED
  BY <1>2, <1>3, <1>4

\* The image of a list under a function that keeps the order.
LEMMA ListsImage ==
  ASSUME NEW S, NEW before, NEW s, InOrder(s, S, before), NEW g, NEW T, NEW after,
         \A x \in S : g[x] \in T, \A y \in T : \E x \in S : y = g[x],
         \A x, y \in S : <<x, y>> \in before => <<g[x], g[y]>> \in after
  PROVE  InOrder([k \in 1..Len(s) |-> g[s[k]]], T, after)
<1>1. PICK n \in Nat : n = Len(s)
  BY LenProperties DEF InOrder
<1>2. \A k \in 1..n : s[k] \in S
  BY <1>1, ElementOfSeq DEF InOrder
<1>3. PICK t : t = [k \in 1..n |-> g[s[k]]]
  OBVIOUS
<1>4. t \in [1..n -> T]
  BY <1>2, <1>3
<1>5. t \in Seq(T) /\ Len(t) = n
  BY <1>1, <1>4, LenProperties
<1>6. ASSUME NEW y \in T PROVE \E k \in 1..n : t[k] = y
  <2>1. PICK x \in S : y = g[x]
    OBVIOUS
  <2>2. PICK k \in 1..n : s[k] = x
    BY <1>1 DEF InOrder
  <2>3. t[k] = y
    BY <1>3, <2>1, <2>2
  <2>4. QED
    BY <2>3
<1>7. ASSUME NEW i \in 1..n, NEW j \in 1..n, i < j PROVE <<t[i], t[j]>> \in after
  <2>1. <<s[i], s[j]>> \in before /\ s[i] \in S /\ s[j] \in S
    BY <1>1, <1>2, <1>7 DEF InOrder
  <2>2. QED
    BY <1>3, <2>1
<1>8. InOrder(t, T, after)
  BY <1>5, <1>6, <1>7 DEF InOrder
<1>9. QED
  BY <1>1, <1>3, <1>8

\* Every filter keeps some indices, in ascending order.
LEMMA FilterEnumerated ==
  ASSUME NEW S, NEW s \in Seq(S), NEW kept
  PROVE  \E q, m : Enumerates(q, m, s, kept)
<1>1. PICK n \in Nat : n = Len(s)
  BY LenProperties
<1>2. PICK K, rel : K = {i \in 1..n : i \in kept} /\ rel = {p \in K \X K : p[1] < p[2]}
  OBVIOUS
<1>3. \A x, y \in K : <<x, y>> \in rel <=> x < y
  BY <1>2
<1>4. \A x \in K : x \in Nat
  BY <1>2
<1>5. StrictOrder(K, rel)
  BY <1>3, <1>4 DEF StrictOrder
<1>6. IsFiniteSet(K)
  <2>1. IsFiniteSet(1..n) /\ K \in SUBSET (1..n)
    BY <1>1, <1>2, FS_Interval
  <2>2. QED
    BY <2>1, FS_Subset
<1>7. PICK q : Sorts(q, K, rel)
  BY <1>5, <1>6, SortedSetSorts
<1>8. PICK m \in Nat : m = Len(q)
  BY <1>7, LenProperties DEF Sorts
<1>9. \A k \in 1..m : q[k] \in K
  BY <1>7, <1>8, ElementOfSeq DEF Sorts
<1>10. ASSUME NEW k \in 1..m, NEW j \in 1..(k - 1) PROVE q[j] < q[k]
  <2>1. j \in 1..m /\ j < k
    BY <1>8
  <2>2. <<q[j], q[k]>> \in rel
    BY <1>7, <1>8, <2>1 DEF Sorts
  <2>3. QED
    BY <1>3, <1>9, <2>1, <2>2
<1>11. ASSUME NEW i \in 1..n PROVE i \in kept <=> \E k \in 1..m : q[k] = i
  <2>1. i \in kept <=> i \in K
    BY <1>2
  <2>2. i \in K => \E k \in 1..m : q[k] = i
    BY <1>7, <1>8 DEF Sorts
  <2>3. (\E k \in 1..m : q[k] = i) => i \in K
    BY <1>9
  <2>4. QED
    BY <2>1, <2>2, <2>3
<1>12. Enumerates(q, m, s, kept)
  BY <1>1, <1>2, <1>8, <1>9, <1>10, <1>11 DEF Enumerates
<1>13. QED
  BY <1>12

-----------------------------------------------------------------------------
\* The hits of a provider.

Hits == [entity: Entities, channel: Nat, score: Nat]

HitOrder == {p \in Hits \X Hits : HitBefore(p[1], p[2])}

\* Higher scores come first, then smaller identifiers and channels.
LEMMA HitsOrdered ==
  /\ StrictOrder(Hits, HitOrder)
  /\ \A h, g \in Hits : <<h, g>> \in HitOrder <=> HitBefore(h, g)
<1>1. \A h \in Hits : h.entity \in Nat /\ h.channel \in Nat /\ h.score \in Nat
  BY AgentAssumption DEF Hits
<1>2. \A h, g \in Hits : <<h, g>> \in HitOrder <=> HitBefore(h, g)
  BY DEF HitOrder
<1>3. \A h \in Hits : ~HitBefore(h, h)
  BY <1>1 DEF HitBefore
<1>4. ASSUME NEW h \in Hits, NEW g \in Hits, NEW i \in Hits, HitBefore(h, g), HitBefore(g, i)
      PROVE  HitBefore(h, i)
  BY <1>1, <1>4 DEF HitBefore
<1>5. ASSUME NEW h \in Hits, NEW g \in Hits, h # g PROVE HitBefore(h, g) \/ HitBefore(g, h)
  <2>1. /\ h = [entity |-> h.entity, channel |-> h.channel, score |-> h.score]
        /\ g = [entity |-> g.entity, channel |-> g.channel, score |-> g.score]
    BY DEF Hits
  <2>2. h.entity # g.entity \/ h.channel # g.channel \/ h.score # g.score
    BY <1>5, <2>1
  <2>3. QED
    BY <1>1, <2>2 DEF HitBefore
<1>6. QED
  BY <1>2, <1>3, <1>4, <1>5 DEF StrictOrder

\* The sorted hits.
LEMMA HitsSorted ==
  ASSUME NEW h \in Seq(Hits)
  PROVE  Arranged(SortBy(h, HitBefore), h, HitOrder)
<1>1. DOMAIN h = 1..Len(h) /\ \A k \in 1..Len(h) : h[k] \in Hits
  BY LenProperties, ElementOfSeq
<1> DEFINE R == {p \in (DOMAIN h) \X (DOMAIN h) :
                   \/ HitBefore(h[p[1]], h[p[2]])
                   \/ ~HitBefore(h[p[2]], h[p[1]]) /\ p[1] < p[2]}
<1>2. SortBy(h, HitBefore) = [k \in DOMAIN h |-> h[SortedSet(DOMAIN h, R)[k]]]
  BY Zenon DEF SortBy
<1>3. R = SortingOrder(h, HitOrder)
  <2>1. ASSUME NEW p \in (DOMAIN h) \X (DOMAIN h)
        PROVE  /\ HitBefore(h[p[1]], h[p[2]]) <=> <<h[p[1]], h[p[2]]>> \in HitOrder
               /\ HitBefore(h[p[2]], h[p[1]]) <=> <<h[p[2]], h[p[1]]>> \in HitOrder
    <3>1. h[p[1]] \in Hits /\ h[p[2]] \in Hits
      BY <1>1
    <3>2. QED
      BY <3>1, HitsOrdered
  <2>2. QED
    BY <2>1 DEF SortingOrder
<1> HIDE DEF R
<1>4. PICK p : p = SortedSet(DOMAIN h, R)
  OBVIOUS
<1>5. Arranged([k \in DOMAIN h |-> h[p[k]]], h, HitOrder)
  BY <1>3, <1>4, HitsOrdered, SortedArranges
<1>6. QED
  BY <1>2, <1>4, <1>5

\* The first of the hits of every entity.
Best(W) == {x \in W : \A y \in W : y.entity = x.entity => y = x \/ HitBefore(x, y)}

\* Deduplication leaves the best hit of every entity, in the order.
LEMMA DedupedInOrder ==
  ASSUME NEW h \in Seq(Hits), NEW s, Arranged(s, h, HitOrder)
  PROVE  InOrder(Deduped(s), Best(ToSet(h)), HitOrder)
<1>1. PICK n, W : n \in Nat /\ n = Len(h) /\ W = ToSet(h)
  BY LenProperties
<1>2. DOMAIN h = 1..n /\ (\A k \in 1..n : h[k] \in Hits) /\ W = {h[k] : k \in 1..n}
  BY <1>1, LenProperties, ElementOfSeq DEF ToSet
<1>3. /\ DOMAIN s = 1..n /\ Len(s) = n
      /\ \A k \in 1..n : s[k] \in W /\ s[k] \in Hits
      /\ \A x \in W : x \in Hits /\ \E k \in 1..n : s[k] = x
      /\ \A i, j \in 1..n : i < j => HitBefore(s[i], s[j]) \/ s[i] = s[j]
  <2>1. /\ s = [k \in 1..n |-> s[k]] /\ Len(s) = n
        /\ \A k \in 1..n : \E j \in 1..n : s[k] = h[j]
        /\ \A k \in 1..n : \E j \in 1..n : s[j] = h[k]
        /\ \A i, j \in 1..n : i < j => <<s[i], s[j]>> \in HitOrder \/ s[i] = s[j]
    BY <1>1 DEF Arranged
  <2>2. \A k \in 1..n : s[k] \in W /\ s[k] \in Hits
    BY <1>2, <2>1
  <2>3. \A x \in W : x \in Hits /\ \E k \in 1..n : s[k] = x
    BY <1>2, <2>1
  <2>4. QED
    BY <2>1, <2>2, <2>3, HitsOrdered
<1>4. s \in Seq(W)
  <2>1. s = [k \in 1..n |-> s[k]]
    BY <1>1 DEF Arranged
  <2>2. s \in [1..n -> W]
    BY <1>3, <2>1
  <2>3. QED
    BY <1>1, <2>2, LenProperties
<1>5. PICK K : K = {k \in DOMAIN s : \A j \in 1..(k - 1) : s[j].entity # s[k].entity}
  OBVIOUS
<1>6. PICK q, m : Enumerates(q, m, s, K)
  BY <1>4, FilterEnumerated
<1>7. /\ m \in Nat /\ \A k \in 1..m : q[k] \in 1..n
      /\ \A k \in 1..m : \A j \in 1..(k - 1) : q[j] < q[k]
      /\ \A i \in 1..n : i \in K <=> \E k \in 1..m : q[k] = i
  BY <1>3, <1>6 DEF Enumerates
<1>8. PICK d : d = Deduped(s)
  OBVIOUS
<1>9. d = [k \in 1..m |-> s[q[k]]]
  <2>1. d = Filtered(s, K)
    BY <1>5, <1>8 DEF Deduped
  <2>2. QED
    BY <1>4, <1>6, <2>1, FilteredEnumerates
<1>10. \A k \in 1..m : q[k] \in 1..n /\ q[k] \in K
  BY <1>7
<1>11. ASSUME NEW k \in K PROVE k \in 1..n /\ s[k] \in Best(W)
  <2>1. k \in 1..n /\ \A j \in 1..(k - 1) : s[j].entity # s[k].entity
    BY <1>3, <1>5
  <2>2. ASSUME NEW y \in W, y.entity = s[k].entity PROVE y = s[k] \/ HitBefore(s[k], y)
    <3>1. PICK i \in 1..n : s[i] = y
      BY <1>3
    <3>2. ~(i < k)
      BY <2>1, <2>2, <3>1
    <3>3. i = k \/ k < i
      BY <2>1, <3>2
    <3>4. QED
      BY <1>3, <2>1, <3>1, <3>3
  <2>3. QED
    BY <1>3, <2>1, <2>2 DEF Best
<1>12. d \in [1..m -> Best(W)]
  BY <1>9, <1>10, <1>11
<1>13. d \in Seq(Best(W)) /\ Len(d) = m
  <2>1. d \in Seq(Best(W))
    BY <1>7, <1>12, SeqDef
  <2>2. QED
    BY <1>7, <1>12, <2>1, LenProperties
<1>14. ASSUME NEW x \in Best(W) PROVE \E k \in 1..m : d[k] = x
  <2>1. x \in W /\ \A y \in W : y.entity = x.entity => y = x \/ HitBefore(x, y)
    BY DEF Best
  <2>2. PICK i \in 1..n : s[i] = x
    BY <1>3, <2>1
  <2>3. PICK C : C = {j \in 1..n : s[j].entity = x.entity}
    OBVIOUS
  <2>4. i \in C /\ C \subseteq Nat /\ C # {}
    BY <2>2, <2>3
  <2>5. PICK k \in C : \A j \in C : k <= j
    BY <2>4, LeastElement
  <2>6. k \in 1..n /\ s[k].entity = x.entity /\ \A j \in 1..(k - 1) : s[j].entity # s[k].entity
    <3>1. k \in 1..n /\ s[k].entity = x.entity
      BY <2>3, <2>5
    <3>2. ASSUME NEW j \in 1..(k - 1) PROVE s[j].entity # s[k].entity
      <4>1. j \in 1..n /\ ~(k <= j)
        BY <1>1, <3>1
      <4>2. QED
        BY <2>3, <2>5, <3>1, <4>1
    <3>3. QED
      BY <3>1, <3>2
  <2>7. k \in K
    BY <1>3, <1>5, <2>6
  <2>8. s[k] = x
    <3>1. s[k] = x \/ HitBefore(x, s[k])
      BY <1>3, <2>1, <2>6
    <3>2. k = i \/ k < i
      BY <2>4, <2>5, <2>6
    <3>3. k < i => HitBefore(s[k], x) \/ s[k] = x
      BY <1>3, <2>2, <2>6
    <3>4. ~(HitBefore(x, s[k]) /\ HitBefore(s[k], x))
      BY <1>3, <2>1, <2>6, HitsOrdered DEF StrictOrder
    <3>5. QED
      BY <2>2, <3>1, <3>2, <3>3, <3>4
  <2>9. PICK l \in 1..m : q[l] = k
    BY <1>7, <2>6, <2>7
  <2>10. QED
    BY <1>9, <2>8, <2>9
<1>15. ASSUME NEW i \in 1..m, NEW j \in 1..m, i < j PROVE <<d[i], d[j]>> \in HitOrder
  <2>1. q[i] < q[j] /\ q[i] \in 1..n /\ q[j] \in 1..n /\ q[j] \in K
    <3>1. i \in 1..(j - 1)
      BY <1>7, <1>15
    <3>2. QED
      BY <1>7, <1>10, <3>1
  <2>2. s[q[i]].entity # s[q[j]].entity
    <3>1. q[i] \in 1..(q[j] - 1)
      BY <2>1
    <3>2. QED
      BY <1>5, <2>1, <3>1
  <2>3. HitBefore(s[q[i]], s[q[j]])
    BY <1>3, <2>1, <2>2
  <2>4. QED
    BY <1>3, <1>9, <2>1, <2>3, HitsOrdered
<1>16. InOrder(d, Best(W), HitOrder)
  BY <1>13, <1>14, <1>15 DEF InOrder
<1>17. QED
  BY <1>1, <1>8, <1>16

-----------------------------------------------------------------------------
\* The same hits on another scale.

Providers == [name: Nat, hits: Seq(Hits)]

\* A map between hits that changes neither what they are of nor their order.
MapsHits(f, X, Y) ==
  /\ \A x \in X : f[x] \in Y /\ f[x].entity = x.entity /\ f[x].channel = x.channel
  /\ \A y \in Y : \E x \in X : y = f[x]
  /\ \A x, y \in X : HitBefore(f[x], f[y]) <=> HitBefore(x, y)
  /\ \A x, y \in X : f[x] = f[y] <=> x = y

\* There is one between providers with the same hits, repeated hits or not.
LEMMA SameHitsMapped ==
  ASSUME NEW p \in Providers, NEW q \in Providers, SameHits(p, q)
  PROVE  \E f : MapsHits(f, ToSet(p.hits), ToSet(q.hits))
<1>1. PICK h, g, n, m : h = p.hits /\ g = q.hits /\ n = Len(h) /\ m = Len(g)
  OBVIOUS
<1>2. h \in Seq(Hits) /\ g \in Seq(Hits)
  BY <1>1 DEF Providers
<1>3. /\ DOMAIN h = 1..n /\ \A i \in 1..n : h[i] \in Hits
      /\ DOMAIN g = 1..m /\ \A k \in 1..m : g[k] \in Hits
  BY <1>1, <1>2, LenProperties, ElementOfSeq
<1>4. PICK to \in Bijection(1..n, 1..m) :
        \A i, j \in 1..n : /\ g[to[i]].entity = h[i].entity
                           /\ g[to[i]].channel = h[i].channel
                           /\ g[to[i]].score < g[to[j]].score <=> h[i].score < h[j].score
  <2>1. PICK to \in Bijection(DOMAIN p.hits, DOMAIN q.hits) :
          \A i, j \in DOMAIN p.hits : /\ q.hits[to[i]].entity = p.hits[i].entity
                                      /\ q.hits[to[i]].channel = p.hits[i].channel
                                      /\ q.hits[to[i]].score < q.hits[to[j]].score
                                           <=> p.hits[i].score < p.hits[j].score
    BY DEF SameHits
  <2>2. ASSUME NEW i \in 1..n, NEW j \in 1..n
        PROVE  /\ g[to[i]].entity = h[i].entity
               /\ g[to[i]].channel = h[i].channel
               /\ g[to[i]].score < g[to[j]].score <=> h[i].score < h[j].score
    BY <1>1, <1>3, <2>1, Zenon
  <2>3. to \in Bijection(1..n, 1..m)
    BY <1>1, <1>3, <2>1, Zenon
  <2>4. QED
    BY <2>2, <2>3, Zenon
<1>5. (\A i \in 1..n : to[i] \in 1..m) /\ \A k \in 1..m : \E i \in 1..n : to[i] = k
  BY <1>4 DEF Bijection, Surjection
<1>6. ASSUME NEW i \in 1..n, NEW j \in 1..n
      PROVE  /\ g[to[i]].entity = h[i].entity /\ g[to[i]].channel = h[i].channel
             /\ HitBefore(g[to[i]], g[to[j]]) <=> HitBefore(h[i], h[j])
             /\ g[to[i]] = g[to[j]] <=> h[i] = h[j]
  <2>1. PICK x, y, a, b : x = h[i] /\ y = h[j] /\ a = g[to[i]] /\ b = g[to[j]]
    OBVIOUS
  <2>2. x \in Hits /\ y \in Hits /\ a \in Hits /\ b \in Hits
    BY <1>3, <1>5, <2>1
  <2>3. /\ a.entity = x.entity /\ a.channel = x.channel /\ b.entity = y.entity /\ b.channel = y.channel
        /\ a.score < b.score <=> x.score < y.score
        /\ b.score < a.score <=> y.score < x.score
    BY <1>4, <2>1
  <2>4. /\ x.score \in Nat /\ y.score \in Nat /\ a.score \in Nat /\ b.score \in Nat
        /\ x = [entity |-> x.entity, channel |-> x.channel, score |-> x.score]
        /\ y = [entity |-> y.entity, channel |-> y.channel, score |-> y.score]
        /\ a = [entity |-> a.entity, channel |-> a.channel, score |-> a.score]
        /\ b = [entity |-> b.entity, channel |-> b.channel, score |-> b.score]
    BY <2>2 DEF Hits
  <2>5. a.score = b.score <=> x.score = y.score
    BY <2>3, <2>4
  <2>6. HitBefore(a, b) <=> HitBefore(x, y)
    BY <2>3, <2>4, <2>5 DEF HitBefore
  <2>7. a = b <=> x = y
    <3>1. a = b <=> a.entity = b.entity /\ a.channel = b.channel /\ a.score = b.score
      BY <2>4
    <3>2. x = y <=> x.entity = y.entity /\ x.channel = y.channel /\ x.score = y.score
      BY <2>4
    <3>3. QED
      BY <2>3, <2>5, <3>1, <3>2
  <2>8. QED
    BY <2>1, <2>3, <2>6, <2>7
<1>7. PICK X, Y : X = ToSet(h) /\ Y = ToSet(g)
  OBVIOUS
<1>8. /\ \A x : x \in X <=> \E i \in 1..n : x = h[i]
      /\ \A y : y \in Y <=> \E k \in 1..m : y = g[k]
  BY <1>3, <1>7 DEF ToSet
<1>9. PICK f : f = [x \in X |-> CHOOSE y \in Y : \E i \in 1..n : x = h[i] /\ y = g[to[i]]]
  OBVIOUS
<1>10. ASSUME NEW i \in 1..n PROVE f[h[i]] = g[to[i]]
  <2>1. h[i] \in X /\ g[to[i]] \in Y
    BY <1>5, <1>8
  <2>2. PICK y : y = f[h[i]]
    OBVIOUS
  <2>3. y \in Y /\ \E j \in 1..n : h[i] = h[j] /\ y = g[to[j]]
    <3>1. \E z \in Y : \E j \in 1..n : h[i] = h[j] /\ z = g[to[j]]
      BY <2>1
    <3>2. y = CHOOSE z \in Y : \E j \in 1..n : h[i] = h[j] /\ z = g[to[j]]
      BY <1>9, <2>1, <2>2
    <3>3. QED
      BY <3>1, <3>2
  <2>4. QED
    BY <1>6, <2>2, <2>3
<1>11. \A x \in X : f[x] \in Y /\ f[x].entity = x.entity /\ f[x].channel = x.channel
  BY <1>5, <1>6, <1>8, <1>10
<1>12. \A y \in Y : \E x \in X : y = f[x]
  <2>1. ASSUME NEW y \in Y PROVE \E x \in X : y = f[x]
    <3>1. PICK i \in 1..n : y = g[to[i]]
      BY <1>5, <1>8
    <3>2. h[i] \in X /\ y = f[h[i]]
      BY <1>8, <1>10, <3>1
    <3>3. QED
      BY <3>2
  <2>2. QED
    BY <2>1
<1>13. ASSUME NEW x \in X, NEW y \in X
       PROVE  (HitBefore(f[x], f[y]) <=> HitBefore(x, y)) /\ (f[x] = f[y] <=> x = y)
  <2>1. PICK i \in 1..n, j \in 1..n : x = h[i] /\ y = h[j]
    BY <1>8
  <2>2. f[x] = g[to[i]] /\ f[y] = g[to[j]]
    BY <1>10, <2>1
  <2>3. QED
    BY <1>6, <2>1, <2>2
<1>14. MapsHits(f, X, Y)
  BY <1>11, <1>12, <1>13 DEF MapsHits
<1>15. QED
  BY <1>1, <1>7, <1>14

\* The hits of the channels that are wanted.
LEMMA WantedHits ==
  ASSUME NEW h \in Seq(Hits), NEW query
  PROVE  /\ Wanted(h, query) \in Seq(Hits)
         /\ \A x : x \in ToSet(Wanted(h, query))
                     <=> x \in ToSet(h) /\ (query.channels = {} \/ x.channel \in query.channels)
<1>1. PICK n : n = Len(h)
  OBVIOUS
<1>2. n \in Nat /\ DOMAIN h = 1..n
  BY <1>1, LenProperties
<1>3. PICK K, w : /\ K = {k \in DOMAIN h : query.channels = {} \/ h[k].channel \in query.channels}
                  /\ w = Wanted(h, query)
  OBVIOUS
<1>4. Keeps(w, Hits, h, K)
  <2>1. w = Filtered(h, K)
    BY <1>3 DEF Wanted
  <2>2. QED
    BY <2>1, FilteredMembers
<1>5. /\ w \in Seq(Hits)
      /\ \A k \in 1..Len(w) : \E i \in 1..n : i \in K /\ w[k] = h[i]
      /\ \A i \in 1..n : i \in K => \E k \in 1..Len(w) : w[k] = h[i]
  BY <1>1, <1>4 DEF Keeps
<1>6. DOMAIN w = 1..Len(w)
  BY <1>5, LenProperties
<1>7. ASSUME NEW x
      PROVE  x \in ToSet(w) <=> x \in ToSet(h) /\ (query.channels = {} \/ x.channel \in query.channels)
  <2>1. x \in ToSet(w) <=> \E k \in 1..Len(w) : x = w[k]
    BY <1>6 DEF ToSet
  <2>2. x \in ToSet(h) <=> \E k \in 1..n : x = h[k]
    BY <1>2 DEF ToSet
  <2>3. \A k \in 1..n : k \in K <=> query.channels = {} \/ h[k].channel \in query.channels
    BY <1>2, <1>3
  <2>4. QED
    BY <1>5, <2>1, <2>2, <2>3
<1>8. QED
  BY <1>3, <1>5, <1>7

\* The hits of a provider before the limit.
FirstHits(p, query) == Deduped(SortBy(Wanted(p.hits, query), HitBefore))

LEMMA FirstHitsInOrder ==
  ASSUME NEW p \in Providers, NEW query
  PROVE  InOrder(FirstHits(p, query), Best(ToSet(Wanted(p.hits, query))), HitOrder)
<1>1. PICK w : w = Wanted(p.hits, query)
  OBVIOUS
<1>2. p.hits \in Seq(Hits)
  BY DEF Providers
<1>3. w \in Seq(Hits)
  BY <1>1, <1>2, WantedHits
<1>4. Arranged(SortBy(w, HitBefore), w, HitOrder)
  BY <1>3, HitsSorted
<1>5. PICK s : s = SortBy(w, HitBefore)
  OBVIOUS
<1>6. InOrder(Deduped(s), Best(ToSet(w)), HitOrder)
  BY <1>3, <1>4, <1>5, DedupedInOrder
<1>7. FirstHits(p, query) = Deduped(s)
  BY <1>1, <1>5, Zenon DEF FirstHits
<1>8. QED
  BY <1>1, <1>6, <1>7

\* They do not depend on the scale or on the order of the provider.
LEMMA FirstHitsMapped ==
  ASSUME NEW p \in Providers, NEW q \in Providers, NEW f, MapsHits(f, ToSet(p.hits), ToSet(q.hits)),
         NEW query, NEW d, d = FirstHits(p, query), NEW e, e = FirstHits(q, query)
  PROVE  Len(e) = Len(d) /\ \A k \in 1..Len(d) : e[k] = f[d[k]] /\ d[k] \in ToSet(p.hits)
<1>1. PICK X, Y, V, W : /\ X = ToSet(p.hits) /\ W = ToSet(Wanted(p.hits, query))
                        /\ Y = ToSet(q.hits) /\ V = ToSet(Wanted(q.hits, query))
  OBVIOUS
<1>2. p.hits \in Seq(Hits) /\ q.hits \in Seq(Hits)
  BY DEF Providers
<1>3. /\ \A x \in X : x \in Hits /\ f[x] \in Y /\ f[x].entity = x.entity /\ f[x].channel = x.channel
      /\ \A y \in Y : y \in Hits /\ \E x \in X : y = f[x]
      /\ \A x, y \in X : (HitBefore(f[x], f[y]) <=> HitBefore(x, y)) /\ (f[x] = f[y] <=> x = y)
  <2>1. /\ DOMAIN p.hits = 1..Len(p.hits) /\ \A k \in 1..Len(p.hits) : p.hits[k] \in Hits
        /\ DOMAIN q.hits = 1..Len(q.hits) /\ \A k \in 1..Len(q.hits) : q.hits[k] \in Hits
    BY <1>2, LenProperties, ElementOfSeq
  <2>2. X \subseteq Hits /\ Y \subseteq Hits
    BY <1>1, <2>1 DEF ToSet
  <2>3. QED
    BY <1>1, <2>2 DEF MapsHits
<1>4. /\ \A x : x \in W <=> x \in X /\ (query.channels = {} \/ x.channel \in query.channels)
      /\ \A x : x \in V <=> x \in Y /\ (query.channels = {} \/ x.channel \in query.channels)
  BY <1>1, <1>2, WantedHits
<1>5. W \subseteq X /\ \A x : x \in V <=> \E y \in W : x = f[y]
  BY <1>3, <1>4
<1>6. ASSUME NEW x \in W PROVE f[x] \in Best(V) <=> x \in Best(W)
  <2>1. f[x] \in V
    BY <1>5
  <2>2. f[x] \in Best(V)
          <=> \A y \in W : f[y].entity = f[x].entity => f[y] = f[x] \/ HitBefore(f[x], f[y])
    BY <1>5, <2>1 DEF Best
  <2>3. \A y \in W : /\ f[y].entity = y.entity /\ f[x].entity = x.entity
                     /\ f[y] = f[x] <=> y = x
                     /\ HitBefore(f[x], f[y]) <=> HitBefore(x, y)
    BY <1>3, <1>5
  <2>4. x \in Best(W) <=> \A y \in W : y.entity = x.entity => y = x \/ HitBefore(x, y)
    BY DEF Best
  <2>5. QED
    BY <2>2, <2>3, <2>4
<1>7. /\ \A x \in Best(W) : x \in W /\ x \in Hits /\ f[x] \in Best(V)
      /\ \A y \in Best(V) : y \in Hits /\ \E x \in Best(W) : y = f[x]
  <2>1. Best(W) \subseteq W /\ Best(V) \subseteq V
    BY DEF Best
  <2>2. \A y \in V : y \in Hits
    BY <1>3, <1>4
  <2>3. QED
    BY <1>3, <1>5, <1>6, <2>1, <2>2
<1>8. \A x, y \in Best(W) : <<x, y>> \in HitOrder => <<f[x], f[y]>> \in HitOrder
  BY <1>3, <1>5, <1>7, HitsOrdered
<1>9. PICK c : c = [k \in 1..Len(d) |-> f[d[k]]]
  OBVIOUS
<1>10. InOrder(d, Best(W), HitOrder)
  BY <1>1, FirstHitsInOrder
<1>11. InOrder(c, Best(V), HitOrder)
  BY <1>7, <1>8, <1>9, <1>10, ListsImage
<1>12. InOrder(e, Best(V), HitOrder)
  BY <1>1, FirstHitsInOrder
<1>13. StrictOrder(Best(V), HitOrder)
  BY <1>7, HitsOrdered DEF StrictOrder
<1>14. e = c
  BY <1>11, <1>12, <1>13, ListsEqual
<1>15. \A k \in 1..Len(d) : d[k] \in X
  BY <1>5, <1>7, <1>10, ElementOfSeq DEF InOrder
<1>16. Len(c) = Len(d)
  <2>1. Len(d) \in Nat /\ c \in Seq(Best(V))
    BY <1>10, <1>11, LenProperties DEF InOrder
  <2>2. QED
    BY <1>9, <2>1, LenProperties
<1>17. QED
  BY <1>1, <1>9, <1>14, <1>15, <1>16

-----------------------------------------------------------------------------
\* What a provider contributes.

Contribution ==
  [entity: Entities, score: Int, source: [provider: Nat, channel: Nat, rank: Nat, raw_score: Nat]]

\* Two lists of contributions that differ in their sources at most.
Alike(a, b) ==
  /\ a \in Seq(Contribution) /\ b \in Seq(Contribution) /\ Len(a) = Len(b)
  /\ \A k \in 1..Len(a) : a[k].entity = b[k].entity /\ a[k].score = b[k].score

\* The beginning of a sequence.
LEMMA TruncatedIs ==
  ASSUME NEW S, NEW s \in Seq(S), NEW limit \in Nat, NEW t, t = Truncated(s, limit)
  PROVE  /\ t \in Seq(S) /\ Len(t) = IF limit <= Len(s) THEN limit ELSE Len(s)
         /\ \A k \in 1..Len(t) : k \in 1..Len(s) /\ t[k] = s[k]
<1>1. PICK n, m : n = Len(s) /\ m = IF limit <= n THEN limit ELSE n
  OBVIOUS
<1>2. n \in Nat /\ m \in Nat /\ m <= n /\ \A k \in 1..n : s[k] \in S
  BY <1>1, LenProperties, ElementOfSeq
<1>3. Min({limit, n}) = m
  <2>1. limit \in Int /\ n \in Int
    BY <1>2
  <2>2. Min({limit, n}) = IF limit <= n THEN limit ELSE n
    BY <2>1, SmallerOfTwo
  <2>3. QED
    BY <1>1, <2>2
<1>4. t = SubSeq(s, 1, m)
  BY <1>1, <1>3 DEF Truncated
<1>5. 1 \in Int /\ m \in Int /\ \A k \in 1..m : s[k] \in S
  BY <1>2
<1>6. /\ SubSeq(s, 1, m) \in Seq(S)
      /\ Len(SubSeq(s, 1, m)) = IF 1 <= m THEN m - 1 + 1 ELSE 0
      /\ \A k \in 1..(m - 1 + 1) : SubSeq(s, 1, m)[k] = s[1 + k - 1]
  BY <1>5, SubSeqProperties
<1>7. t \in Seq(S) /\ Len(t) = m /\ \A k \in 1..m : t[k] = s[k]
  <2>1. Len(t) = m
    BY <1>2, <1>4, <1>6
  <2>2. ASSUME NEW k \in 1..m PROVE t[k] = s[k]
    <3>1. k \in 1..(m - 1 + 1) /\ 1 + k - 1 = k
      BY <1>2
    <3>2. QED
      BY <1>4, <1>6, <3>1
  <2>3. QED
    BY <1>4, <1>6, <2>1, <2>2
<1>8. QED
  BY <1>1, <1>2, <1>7

\* The hits of a provider before the limit are hits.
LEMMA FirstHitsTyped ==
  ASSUME NEW p \in Providers, NEW query
  PROVE  FirstHits(p, query) \in Seq(Hits)
<1>1. PICK d, W : d = FirstHits(p, query) /\ W = ToSet(Wanted(p.hits, query))
  OBVIOUS
<1>2. d \in Seq(Best(W))
  BY <1>1, FirstHitsInOrder DEF InOrder
<1>3. p.hits \in Seq(Hits)
  BY DEF Providers
<1>4. PICK w : w = Wanted(p.hits, query)
  OBVIOUS
<1>5. w \in Seq(Hits)
  BY <1>3, <1>4, WantedHits
<1>6. DOMAIN w = 1..Len(w) /\ \A k \in 1..Len(w) : w[k] \in Hits
  BY <1>5, LenProperties, ElementOfSeq
<1>7. \A x \in Best(W) : x \in Hits
  BY <1>1, <1>4, <1>6 DEF Best, ToSet
<1>8. QED
  BY <1>1, <1>2, <1>7, SeqMonotonic

\* Contributions are the ranked hits with the score of their rank.
LEMMA ContributionsAre ==
  ASSUME NEW p \in Providers, NEW query, NEW r \in Seq(Hits), r = Ranked(p, query),
         NEW c, c = Contributions(p, query)
  PROVE  /\ c \in Seq(Contribution) /\ Len(c) = Len(r)
         /\ \A k \in 1..Len(r) : c[k].entity = r[k].entity /\ c[k].score = RrfScale \div (RrfK + k)
<1>1. PICK n : n = Len(r)
  OBVIOUS
<1>2. n \in Nat /\ DOMAIN r = 1..n /\ \A k \in 1..n : r[k] \in Hits
  BY <1>1, LenProperties, ElementOfSeq
<1>3. c = [k \in DOMAIN r |->
             [entity |-> r[k].entity, score |-> RrfScale \div (RrfK + k),
              source |-> [provider |-> p.name, channel |-> r[k].channel,
                          rank |-> k, raw_score |-> r[k].score]]]
  BY Zenon DEF Contributions
<1>4. DOMAIN c = 1..n
  BY <1>2, <1>3
<1>5. ASSUME NEW k \in 1..n
      PROVE  c[k] \in Contribution /\ c[k].entity = r[k].entity /\ c[k].score = RrfScale \div (RrfK + k)
  <2>1. PICK v, u : v = RrfScale \div (RrfK + k)
                    /\ u = [provider |-> p.name, channel |-> r[k].channel, rank |-> k, raw_score |-> r[k].score]
    OBVIOUS
  <2>2. v \in Int
    <3>1. RrfK + k \in Nat /\ RrfK + k > 0 /\ RrfScale \in Nat
      BY <1>2 DEF RrfK, RrfScale
    <3>2. QED
      BY <2>1, <3>1
  <2>3. p.name \in Nat /\ r[k] \in Hits /\ k \in Nat
    BY <1>2 DEF Providers
  <2>4. r[k].entity \in Entities /\ r[k].channel \in Nat /\ r[k].score \in Nat
    BY <2>3 DEF Hits
  <2>5. u \in [provider: Nat, channel: Nat, rank: Nat, raw_score: Nat]
    BY <2>1, <2>3, <2>4
  <2>6. PICK b : b = c[k]
    OBVIOUS
  <2>7. b = [entity |-> r[k].entity, score |-> v, source |-> u]
    BY <1>2, <1>3, <2>1, <2>6
  <2>8. b \in Contribution /\ b.entity = r[k].entity /\ b.score = v
    BY <2>2, <2>4, <2>5, <2>7 DEF Contribution
  <2>9. QED
    BY <2>1, <2>6, <2>8
<1>6. c \in [1..n -> Contribution]
  <2>1. c = [k \in 1..n |-> c[k]]
    BY <1>2, <1>3
  <2>2. QED
    BY <1>5, <2>1
<1>7. c \in Seq(Contribution) /\ Len(c) = n
  BY <1>2, <1>6, LenProperties
<1>8. QED
  BY <1>1, <1>5, <1>7

\* A provider contributes the same on another scale and in another order.
LEMMA ContributionsAlike ==
  ASSUME NEW p \in Providers, NEW q \in Providers, SameHits(p, q), NEW query \in Queries
  PROVE  Alike(Contributions(p, query), Contributions(q, query))
<1>1. PICK limit \in Nat : limit = query.limit
  BY AgentAssumption
<1>2. PICK d, e : d = FirstHits(p, query) /\ e = FirstHits(q, query)
  OBVIOUS
<1>3. PICK f : MapsHits(f, ToSet(p.hits), ToSet(q.hits))
  BY SameHitsMapped
<1>4. d \in Seq(Hits) /\ e \in Seq(Hits)
  BY <1>2, FirstHitsTyped
<1>5. PICK n : n = Len(d)
  OBVIOUS
<1>6. n \in Nat /\ \A k \in 1..n : d[k] \in Hits
  BY <1>4, <1>5, LenProperties, ElementOfSeq
<1>7. Len(e) = n /\ \A k \in 1..n : e[k] = f[d[k]] /\ d[k] \in ToSet(p.hits)
  <2>1. \A c, b : c = FirstHits(p, query) /\ b = FirstHits(q, query) =>
          Len(b) = Len(c) /\ \A k \in 1..Len(c) : b[k] = f[c[k]] /\ c[k] \in ToSet(p.hits)
    BY <1>3, FirstHitsMapped
  <2>2. QED
    BY <1>2, <1>5, <2>1, Zenon
<1>8. Len(e) = n /\ \A k \in 1..n : e[k].entity = d[k].entity
  BY <1>3, <1>7 DEF MapsHits
<1>9. PICK r, s : r = Truncated(d, limit) /\ s = Truncated(e, limit)
  OBVIOUS
<1>10. r = Ranked(p, query) /\ s = Ranked(q, query)
  BY <1>1, <1>2, <1>9, Zenon DEF Ranked, FirstHits
<1>11. PICK m : m = IF limit <= n THEN limit ELSE n
  OBVIOUS
<1>12. /\ r \in Seq(Hits) /\ Len(r) = m /\ \A k \in 1..m : k \in 1..n /\ r[k] = d[k]
       /\ s \in Seq(Hits) /\ Len(s) = m /\ \A k \in 1..m : s[k] = e[k]
  <2>1. Len(e) = n
    BY <1>8
  <2>2. QED
    <3>1. r \in Seq(Hits) /\ Len(r) = m /\ \A k \in 1..m : k \in 1..n /\ r[k] = d[k]
      <4>1. /\ r \in Seq(Hits) /\ Len(r) = IF limit <= Len(d) THEN limit ELSE Len(d)
            /\ \A k \in 1..Len(r) : k \in 1..Len(d) /\ r[k] = d[k]
        BY <1>1, <1>4, <1>9, TruncatedIs
      <4>2. Len(d) = n
        BY <1>5
      <4>3. Len(r) = m
        BY <1>11, <4>1, <4>2, Zenon
      <4>4. QED
        BY <4>1, <4>2, <4>3, Zenon
    <3>2. s \in Seq(Hits) /\ Len(s) = m /\ \A k \in 1..m : s[k] = e[k]
      <4>1. /\ s \in Seq(Hits) /\ Len(s) = IF limit <= Len(e) THEN limit ELSE Len(e)
            /\ \A k \in 1..Len(s) : k \in 1..Len(e) /\ s[k] = e[k]
        BY <1>1, <1>4, <1>9, TruncatedIs
      <4>2. Len(e) = n
        BY <2>1
      <4>3. Len(s) = m
        BY <1>11, <4>1, <4>2, Zenon
      <4>4. QED
        BY <4>1, <4>2, <4>3, Zenon
    <3>3. QED
      BY <3>1, <3>2
<1>13. PICK a, b : a = Contributions(p, query) /\ b = Contributions(q, query)
  OBVIOUS
<1>14. /\ a \in Seq(Contribution) /\ Len(a) = m
       /\ \A k \in 1..m : a[k].entity = r[k].entity /\ a[k].score = RrfScale \div (RrfK + k)
  BY <1>10, <1>12, <1>13, ContributionsAre
<1>15. /\ b \in Seq(Contribution) /\ Len(b) = m
       /\ \A k \in 1..m : b[k].entity = s[k].entity /\ b[k].score = RrfScale \div (RrfK + k)
  BY <1>10, <1>12, <1>13, ContributionsAre
<1>16. \A k \in 1..m : r[k].entity = s[k].entity
  BY <1>8, <1>12
<1>17. Alike(a, b)
  BY <1>14, <1>15, <1>16 DEF Alike
<1>18. QED
  BY <1>13, <1>17

\* Lists that are alike, one behind the other.
LEMMA AlikeConcat ==
  ASSUME NEW a, NEW b, Alike(a, b), NEW c, NEW d, Alike(c, d)
  PROVE  Alike(a \o c, b \o d)
<1>1. PICK x, y, m, n : x = a \o c /\ y = b \o d /\ m = Len(a) /\ n = Len(c)
  OBVIOUS
<1>2. /\ a \in Seq(Contribution) /\ b \in Seq(Contribution) /\ Len(b) = m
      /\ \A k \in 1..m : a[k].entity = b[k].entity /\ a[k].score = b[k].score
      /\ c \in Seq(Contribution) /\ d \in Seq(Contribution) /\ Len(d) = n
      /\ \A k \in 1..n : c[k].entity = d[k].entity /\ c[k].score = d[k].score
  BY <1>1 DEF Alike
<1>3. m \in Nat /\ n \in Nat
  BY <1>1, <1>2, LenProperties
<1>4. /\ x \in Seq(Contribution) /\ Len(x) = m + n
      /\ \A k \in 1..(m + n) : x[k] = IF k <= m THEN a[k] ELSE c[k - m]
  BY <1>1, <1>2, ConcatProperties
<1>5. /\ y \in Seq(Contribution) /\ Len(y) = m + n
      /\ \A k \in 1..(m + n) : y[k] = IF k <= m THEN b[k] ELSE d[k - m]
  BY <1>1, <1>2, ConcatProperties
<1>6. ASSUME NEW k \in 1..(m + n) PROVE x[k].entity = y[k].entity /\ x[k].score = y[k].score
  <2>1. CASE k <= m
    <3>1. k \in 1..m
      BY <1>3, <2>1
    <3>2. QED
      BY <1>2, <1>4, <1>5, <2>1, <3>1
  <2>2. CASE ~(k <= m)
    <3>1. k - m \in 1..n
      BY <1>3, <2>2
    <3>2. QED
      BY <1>2, <1>4, <1>5, <2>2, <3>1
  <2>3. QED
    BY <2>1, <2>2
<1>7. QED
  BY <1>1, <1>4, <1>5, <1>6 DEF Alike

\* Flattening lists that are alike one by one.
LEMMA FlattenAlike ==
  ASSUME NEW ss \in Seq(Seq(Contribution)), NEW tt \in Seq(Seq(Contribution)), Len(ss) = Len(tt),
         \A k \in 1..Len(ss) : Alike(ss[k], tt[k])
  PROVE  Alike(FlattenSeq(ss), FlattenSeq(tt))
<1>1. PICK m : m = Len(ss)
  OBVIOUS
<1>2. m \in Nat /\ Len(tt) = m
  BY <1>1, LenProperties
<1>3. CASE m = 0
  <2>1. ss = <<>> /\ tt = <<>>
    BY <1>1, <1>2, <1>3, EmptySeq
  <2>2. FlattenSeq(ss) = <<>> /\ FlattenSeq(tt) = <<>>
    BY <2>1, EmptyFlattened
  <2>3. Alike(<<>>, <<>>)
    BY EmptySeq DEF Alike
  <2>4. QED
    BY <2>2, <2>3
<1>4. CASE m # 0
  <2>1. ss # <<>> /\ tt # <<>>
    BY <1>1, <1>2, <1>4, EmptySeq
  <2>2. PICK c : /\ FlattenSeq(ss) = c[m]
                 /\ c[1] = ss[1]
                 /\ \A i \in 1..(m - 1) : c[i + 1] = c[i] \o ss[i + 1]
    BY <1>1, <2>1, FlattenSteps
  <2>3. PICK d : /\ FlattenSeq(tt) = d[m]
                 /\ d[1] = tt[1]
                 /\ \A i \in 1..(m - 1) : d[i + 1] = d[i] \o tt[i + 1]
    BY <1>2, <2>1, FlattenSteps
  <2> DEFINE N == {k \in Nat : k = 0 \/ Alike(c[k], d[k])}
  <2>4. 0 \in N
    OBVIOUS
  <2>5. ASSUME NEW k \in 0..(m - 1), k \in N PROVE k + 1 \in N
    <3>1. k + 1 \in 1..m /\ k + 1 \in Nat
      BY <1>2
    <3>2. Alike(ss[k + 1], tt[k + 1])
      BY <1>1, <3>1
    <3>3. CASE k = 0
      BY <2>2, <2>3, <3>1, <3>2, <3>3
    <3>4. CASE k # 0
      <4>1. k \in 1..(m - 1)
        BY <1>2, <3>4
      <4>2. c[k + 1] = c[k] \o ss[k + 1] /\ d[k + 1] = d[k] \o tt[k + 1]
        BY <2>2, <2>3, <4>1
      <4>3. Alike(c[k], d[k])
        BY <2>5, <3>4
      <4>4. Alike(c[k + 1], d[k + 1])
        BY <3>2, <4>2, <4>3, AlikeConcat
      <4>5. QED
        BY <3>1, <4>4
    <3>5. QED
      BY <3>3, <3>4
  <2> HIDE DEF N
  <2>6. m \in N
    <3>1. m \in 0..m
      BY <1>2
    <3>2. QED
      BY <1>2, <2>4, <2>5, <3>1, InductionUpTo
  <2>7. QED
    BY <1>4, <2>2, <2>3, <2>6 DEF N
<1>5. QED
  BY <1>3, <1>4

\* The ranking does not see the sources.
LEMMA RankingAlike ==
  ASSUME NEW a, NEW b, Alike(a, b)
  PROVE  Ranking(a) = Ranking(b)
<1>1. PICK n : n = Len(a)
  OBVIOUS
<1>2. /\ DOMAIN a = 1..n /\ DOMAIN b = 1..n
      /\ \A k \in 1..n : a[k].entity = b[k].entity /\ a[k].score = b[k].score
  BY <1>1, LenProperties DEF Alike
<1>3. [k \in DOMAIN a |-> a[k].score] = [k \in DOMAIN b |-> b[k].score]
  BY <1>2
<1>4. \A e : Contributed(a, e) = Contributed(b, e)
  BY <1>2 DEF Contributed
<1>5. ASSUME NEW e PROVE FusedScore(a, e) = FusedScore(b, e)
  BY <1>3, <1>4, Zenon DEF FusedScore
<1> DEFINE A == {<<a[k].entity, FusedScore(a, a[k].entity)>> : k \in DOMAIN a}
           B == {<<b[k].entity, FusedScore(b, b[k].entity)>> : k \in DOMAIN b}
           R(T) == {p \in T \X T : p[1][2] > p[2][2] \/ (p[1][2] = p[2][2] /\ p[1][1] < p[2][1])}
<1>6. A = B
  <2>1. \A k \in 1..n : <<a[k].entity, FusedScore(a, a[k].entity)>> = <<b[k].entity, FusedScore(b, b[k].entity)>>
    BY <1>2, <1>5
  <2>2. QED
    BY <1>2, <2>1
<1>7. Ranking(a) = SortedSet(A, R(A)) /\ Ranking(b) = SortedSet(B, R(B))
  BY Zenon DEF Ranking
<1> HIDE DEF A, B, R
<1>8. QED
  BY <1>6, <1>7

-----------------------------------------------------------------------------
\* The providers in the order of their names.

NameOrder == {q \in Providers \X Providers : q[1].name < q[2].name}

\* Different names order the providers.
LEMMA NamesOrdered ==
  ASSUME NEW P \in Seq(Providers), ValidProviders(P), NEW S, S = ToSet(P)
  PROVE  /\ P \in Seq(S) /\ S \subseteq Providers /\ StrictOrder(S, NameOrder)
         /\ \A i, j \in 1..Len(P) : P[i] = P[j] => i = j
<1>1. PICK n : n = Len(P)
  OBVIOUS
<1>2. n \in Nat /\ DOMAIN P = 1..n /\ P = [k \in 1..n |-> P[k]] /\ \A k \in 1..n : P[k] \in Providers
  BY <1>1, LenProperties, ElementOfSeq
<1>3. S = {P[k] : k \in 1..n}
  BY <1>2 DEF ToSet
<1>4. P \in Seq(S)
  <2>1. P \in [1..n -> S]
    BY <1>2, <1>3
  <2>2. QED
    BY <1>2, <2>1, LenProperties
<1>5. S \subseteq Providers
  BY <1>2, <1>3
<1>6. \A i, j \in 1..n : P[i].name = P[j].name => i = j
  BY <1>2 DEF ValidProviders
<1>7. /\ \A x \in S : x \in Providers /\ x.name \in Nat
      /\ \A x, y \in S : <<x, y>> \in NameOrder <=> x.name < y.name
  <2>1. \A x \in S : x \in Providers /\ x.name \in Nat
    BY <1>5 DEF Providers
  <2>2. QED
    BY <2>1 DEF NameOrder
<1>8. \A x, y \in S : x # y => x.name # y.name
  BY <1>3, <1>6
<1>9. \A x, y, z \in S : x.name < y.name /\ y.name < z.name => x.name < z.name
  BY <1>7
<1>10. \A x, y \in S : ~(x.name < x.name) /\ (x.name # y.name => x.name < y.name \/ y.name < x.name)
  BY <1>7
<1>11. StrictOrder(S, NameOrder)
  BY <1>7, <1>8, <1>9, <1>10 DEF StrictOrder
<1>12. QED
  BY <1>1, <1>4, <1>5, <1>6, <1>11

\* The sorted providers.
LEMMA ProvidersSorted ==
  ASSUME NEW P \in Seq(Providers), ValidProviders(P)
  PROVE  InOrder(SortBy(P, NameBefore), ToSet(P), NameOrder)
<1>1. PICK S, n : S = ToSet(P) /\ n = Len(P)
  OBVIOUS
<1>2. /\ P \in Seq(S) /\ S \subseteq Providers /\ StrictOrder(S, NameOrder)
      /\ \A i, j \in 1..n : P[i] = P[j] => i = j
  BY <1>1, NamesOrdered
<1>3. n \in Nat /\ DOMAIN P = 1..n /\ \A k \in 1..n : P[k] \in S /\ P[k] \in Providers
  BY <1>1, <1>2, LenProperties, ElementOfSeq
<1> DEFINE R == {p \in (DOMAIN P) \X (DOMAIN P) :
                   \/ NameBefore(P[p[1]], P[p[2]])
                   \/ ~NameBefore(P[p[2]], P[p[1]]) /\ p[1] < p[2]}
<1>4. SortBy(P, NameBefore) = [k \in DOMAIN P |-> P[SortedSet(DOMAIN P, R)[k]]]
  BY Zenon DEF SortBy
<1>5. R = SortingOrder(P, NameOrder)
  <2>1. ASSUME NEW p \in (DOMAIN P) \X (DOMAIN P)
        PROVE  /\ NameBefore(P[p[1]], P[p[2]]) <=> <<P[p[1]], P[p[2]]>> \in NameOrder
               /\ NameBefore(P[p[2]], P[p[1]]) <=> <<P[p[2]], P[p[1]]>> \in NameOrder
    <3>1. P[p[1]] \in Providers /\ P[p[2]] \in Providers
      BY <1>3
    <3>2. QED
      BY <3>1 DEF NameBefore, NameOrder
  <2>2. QED
    BY <2>1 DEF SortingOrder
<1> HIDE DEF R
<1>6. PICK p, t : p = SortedSet(DOMAIN P, R) /\ t = [k \in DOMAIN P |-> P[p[k]]]
  OBVIOUS
<1>7. Arranged(t, P, NameOrder)
  BY <1>2, <1>5, <1>6, SortedArranges
<1>8. /\ t = [k \in 1..n |-> t[k]] /\ Len(t) = n
      /\ \A k \in 1..n : \E j \in 1..n : t[k] = P[j]
      /\ \A k \in 1..n : \E j \in 1..n : t[j] = P[k]
      /\ \A i, j \in 1..n : i < j => <<t[i], t[j]>> \in NameOrder \/ t[i] = t[j]
      /\ \A i, j \in 1..n : t[i] = t[j] => i = j
  BY <1>1, <1>2, <1>7 DEF Arranged
<1>9. t \in Seq(S)
  <2>1. \A k \in 1..n : t[k] \in S
    BY <1>3, <1>8
  <2>2. t \in [1..n -> S]
    BY <1>8, <2>1
  <2>3. QED
    BY <1>3, <2>2, LenProperties
<1>10. \A x \in S : \E k \in 1..n : t[k] = x
  BY <1>1, <1>3, <1>8 DEF ToSet
<1>11. \A i, j \in 1..n : i < j => <<t[i], t[j]>> \in NameOrder
  <2>1. \A i, j \in 1..n : i < j => i # j
    BY <1>3
  <2>2. QED
    BY <1>8, <2>1
<1>12. InOrder(t, S, NameOrder)
  BY <1>8, <1>9, <1>10, <1>11 DEF InOrder
<1>13. QED
  BY <1>1, <1>4, <1>6, <1>12

\* The positions of the providers in a rearranged answer.
Rearranges(to, P, Q) ==
  /\ \A k \in 1..Len(P) : /\ to[k] \in 1..Len(Q)
                          /\ Q[to[k]].name = P[k].name /\ SameHits(P[k], Q[to[k]])
  /\ \A j, k \in 1..Len(P) : to[j] = to[k] => j = k
  /\ \A i \in 1..Len(Q) : \E k \in 1..Len(P) : to[k] = i

LEMMA RearrangedBy ==
  ASSUME NEW P \in Seq(Providers), NEW Q \in Seq(Providers), Rearranged(P, Q)
  PROVE  \E to : Rearranges(to, P, Q)
<1>1. DOMAIN P = 1..Len(P) /\ DOMAIN Q = 1..Len(Q)
  BY LenProperties
<1>2. PICK to \in Bijection(1..Len(P), 1..Len(Q)) :
        \A k \in 1..Len(P) : Q[to[k]].name = P[k].name /\ SameHits(P[k], Q[to[k]])
  BY <1>1, Zenon DEF Rearranged
<1>3. /\ \A k \in 1..Len(P) : to[k] \in 1..Len(Q)
      /\ \A j, k \in 1..Len(P) : to[j] = to[k] => j = k
      /\ \A i \in 1..Len(Q) : \E k \in 1..Len(P) : to[k] = i
  BY <1>2 DEF Bijection, Injection, Surjection, IsInjective
<1>4. QED
  BY <1>2, <1>3, Zenon DEF Rearranges

\* The providers have different names in both or in neither.
LEMMA RearrangedValid ==
  ASSUME NEW P \in Seq(Providers), NEW Q \in Seq(Providers), Rearranged(P, Q)
  PROVE  ValidProviders(P) = ValidProviders(Q)
<1>1. PICK to : Rearranges(to, P, Q)
  BY RearrangedBy
<1>2. PICK n, m : n = Len(P) /\ m = Len(Q)
  OBVIOUS
<1>3. /\ \A k \in 1..n : to[k] \in 1..m /\ Q[to[k]].name = P[k].name
      /\ \A j, k \in 1..n : to[j] = to[k] => j = k
      /\ \A i \in 1..m : \E k \in 1..n : to[k] = i
  BY <1>1, <1>2 DEF Rearranges
<1>4. DOMAIN P = 1..n /\ DOMAIN Q = 1..m
  BY <1>2, LenProperties
<1>5. ValidProviders(P) => ValidProviders(Q)
  BY <1>3, <1>4 DEF ValidProviders
<1>6. ValidProviders(Q) => ValidProviders(P)
  BY <1>3, <1>4 DEF ValidProviders
<1>7. ValidProviders(P) \in BOOLEAN /\ ValidProviders(Q) \in BOOLEAN
  BY DEF ValidProviders
<1>8. QED
  BY <1>5, <1>6, <1>7

\* Sorted by name they have the same hits one by one.
LEMMA RearrangedSorted ==
  ASSUME NEW P \in Seq(Providers), NEW Q \in Seq(Providers), Rearranged(P, Q), ValidProviders(P),
         NEW t, t = SortBy(P, NameBefore), NEW u, u = SortBy(Q, NameBefore)
  PROVE  Len(u) = Len(t) /\ \A k \in 1..Len(t) : SameHits(t[k], u[k])
<1>1. PICK to : Rearranges(to, P, Q)
  BY RearrangedBy
<1>2. PICK n, m, S, T : n = Len(P) /\ m = Len(Q) /\ S = ToSet(P) /\ T = ToSet(Q)
  OBVIOUS
<1>3. /\ \A k \in 1..n : to[k] \in 1..m /\ Q[to[k]].name = P[k].name /\ SameHits(P[k], Q[to[k]])
      /\ \A i \in 1..m : \E k \in 1..n : to[k] = i
  BY <1>1, <1>2 DEF Rearranges
<1>4. DOMAIN P = 1..n /\ DOMAIN Q = 1..m
  BY <1>2, LenProperties
<1>5. (\A x : x \in S <=> \E k \in 1..n : x = P[k]) /\ (\A y : y \in T <=> \E i \in 1..m : y = Q[i])
  BY <1>2, <1>4 DEF ToSet
<1>6. ValidProviders(Q)
  BY RearrangedValid
<1>7. S \subseteq Providers /\ T \subseteq Providers /\ StrictOrder(T, NameOrder)
  BY <1>2, <1>6, NamesOrdered
<1>8. InOrder(t, S, NameOrder) /\ InOrder(u, T, NameOrder)
  BY <1>2, <1>6, ProvidersSorted
<1>9. \A y, z \in T : y.name = z.name => y = z
  BY <1>4, <1>5, <1>6 DEF ValidProviders
<1>10. PICK g : g = [x \in S |-> CHOOSE y \in T : y.name = x.name]
  OBVIOUS
<1>11. ASSUME NEW k \in 1..n PROVE g[P[k]] = Q[to[k]]
  <2>1. P[k] \in S /\ Q[to[k]] \in T /\ Q[to[k]].name = P[k].name
    BY <1>3, <1>5
  <2>2. g[P[k]] = CHOOSE y \in T : y.name = P[k].name
    BY <1>10, <2>1
  <2>3. g[P[k]] \in T /\ g[P[k]].name = P[k].name
    BY <2>1, <2>2
  <2>4. QED
    BY <1>9, <2>1, <2>3
<1>12. \A x \in S : g[x] \in T /\ g[x].name = x.name /\ SameHits(x, g[x])
  <2>1. ASSUME NEW x \in S PROVE g[x] \in T /\ g[x].name = x.name /\ SameHits(x, g[x])
    <3>1. PICK k \in 1..n : x = P[k]
      BY <1>5
    <3>2. g[x] = Q[to[k]] /\ to[k] \in 1..m
      BY <1>3, <1>11, <3>1
    <3>3. g[x] \in T
      BY <1>5, <3>2
    <3>4. QED
      BY <1>3, <3>1, <3>2, <3>3, Zenon
  <2>2. QED
    BY <2>1
<1>13. \A y \in T : \E x \in S : y = g[x]
  <2>1. ASSUME NEW y \in T PROVE \E x \in S : y = g[x]
    <3>1. PICK k \in 1..n : y = Q[to[k]]
      BY <1>3, <1>5
    <3>2. P[k] \in S /\ y = g[P[k]]
      BY <1>5, <1>11, <3>1
    <3>3. QED
      BY <3>2
  <2>2. QED
    BY <2>1
<1>14. \A x, y \in S : <<x, y>> \in NameOrder => <<g[x], g[y]>> \in NameOrder
  BY <1>7, <1>12 DEF NameOrder
<1>15. PICK l, v : l = Len(t) /\ v = [k \in 1..Len(t) |-> g[t[k]]]
  OBVIOUS
<1>16. InOrder(v, T, NameOrder)
  <2>1. InOrder(t, S, NameOrder) /\ \A x \in S : g[x] \in T
    BY <1>8, <1>12
  <2>2. InOrder([k \in 1..Len(t) |-> g[t[k]]], T, NameOrder)
    BY <1>13, <1>14, <2>1, ListsImage
  <2>3. QED
    BY <1>15, <2>2
<1>17. u = v
  BY <1>7, <1>8, <1>16, ListsEqual
<1>18. l \in Nat /\ \A k \in 1..l : t[k] \in S
  BY <1>8, <1>15, LenProperties, ElementOfSeq DEF InOrder
<1>19. Len(v) = l
  BY <1>15, <1>16, <1>18, LenProperties DEF InOrder
<1>20. \A k \in 1..l : SameHits(t[k], u[k])
  BY <1>12, <1>15, <1>17, <1>18, Zenon
<1>21. QED
  BY <1>15, <1>17, <1>19, <1>20

-----------------------------------------------------------------------------
\* The fused ranking.

\* What the providers contribute, one after the other.
AllContributed(providers, query) ==
  LET sorted == SortBy(providers, NameBefore)
  IN  FlattenSeq([k \in DOMAIN sorted |-> Contributions(sorted[k], query)])

\* Its entities and scores are those of the ranking.
RankedEntities(providers, query) == Truncated(Ranking(AllContributed(providers, query)), query.limit)

LEMMA FusedRanking ==
  ASSUME NEW P, NEW query, NEW r, r = RankedEntities(P, query), NEW f, f = FuseRetrieval(P, query)
  PROVE  /\ DOMAIN f = DOMAIN r
         /\ \A k \in DOMAIN r : f[k].entity = r[k][1] /\ f[k].fused_score = r[k][2]
<1>1. PICK all : all = AllContributed(P, query)
  OBVIOUS
<1>2. f = [k \in DOMAIN r |-> FusedHit(all, r[k][1], r[k][2])]
  BY <1>1, Zenon DEF FuseRetrieval, RankedEntities, AllContributed
<1>3. ASSUME NEW k \in DOMAIN r PROVE f[k].entity = r[k][1] /\ f[k].fused_score = r[k][2]
  <2>1. f[k] = FusedHit(all, r[k][1], r[k][2])
    BY <1>2
  <2>2. PICK h : h = FusedHit(all, r[k][1], r[k][2])
    OBVIOUS
  <2>3. PICK s : h = [entity |-> r[k][1], fused_score |-> r[k][2], sources |-> s]
    BY <2>2, Zenon DEF FusedHit
  <2>4. h.entity = r[k][1] /\ h.fused_score = r[k][2]
    BY <2>3
  <2>5. QED
    BY <2>1, <2>2, <2>4
<1>4. QED
  BY <1>2, <1>3

\* A rearranged answer has the ranking of the answer.
LEMMA RearrangedRanking ==
  ASSUME NEW P \in Seq(Providers), NEW Q \in Seq(Providers), Rearranged(P, Q), ValidProviders(P),
         NEW query \in Queries
  PROVE  RankedEntities(P, query) = RankedEntities(Q, query)
<1>1. PICK t, u, m : t = SortBy(P, NameBefore) /\ u = SortBy(Q, NameBefore) /\ m = Len(t)
  OBVIOUS
<1>2. Len(u) = m /\ \A k \in 1..m : SameHits(t[k], u[k])
  BY <1>1, RearrangedSorted
<1>3. PICK S, T : S = ToSet(P) /\ T = ToSet(Q)
  OBVIOUS
<1>4. ValidProviders(Q)
  BY RearrangedValid
<1>5. t \in Seq(S) /\ S \subseteq Providers /\ u \in Seq(T) /\ T \subseteq Providers
  BY <1>1, <1>3, <1>4, ProvidersSorted, NamesOrdered DEF InOrder
<1>6. m \in Nat /\ DOMAIN t = 1..m /\ DOMAIN u = 1..m /\ \A k \in 1..m : t[k] \in Providers /\ u[k] \in Providers
  BY <1>1, <1>2, <1>5, LenProperties, ElementOfSeq
<1>7. PICK c, d : /\ c = [k \in DOMAIN t |-> Contributions(t[k], query)]
                  /\ d = [k \in DOMAIN u |-> Contributions(u[k], query)]
  OBVIOUS
<1>8. \A k \in 1..m : Alike(c[k], d[k])
  BY <1>2, <1>6, <1>7, ContributionsAlike
<1>9. c \in [1..m -> Seq(Contribution)] /\ d \in [1..m -> Seq(Contribution)]
  <2>1. \A k \in 1..m : c[k] \in Seq(Contribution) /\ d[k] \in Seq(Contribution)
    BY <1>8 DEF Alike
  <2>2. c = [k \in 1..m |-> c[k]] /\ d = [k \in 1..m |-> d[k]]
    BY <1>6, <1>7
  <2>3. QED
    BY <2>1, <2>2
<1>10. c \in Seq(Seq(Contribution)) /\ d \in Seq(Seq(Contribution)) /\ Len(c) = m /\ Len(d) = m
  <2>1. m \in Nat
    BY <1>6
  <2>2. QED
    BY <1>9, <2>1, LenProperties
<1>11. Alike(FlattenSeq(c), FlattenSeq(d))
  BY <1>8, <1>10, FlattenAlike
<1>12. AllContributed(P, query) = FlattenSeq(c) /\ AllContributed(Q, query) = FlattenSeq(d)
  BY <1>1, <1>7, Zenon DEF AllContributed
<1>13. Ranking(AllContributed(P, query)) = Ranking(AllContributed(Q, query))
  BY <1>11, <1>12, RankingAlike
<1>14. QED
  BY <1>13 DEF RankedEntities

\* It is compiled to the same context.
LEMMA RearrangedCompiles ==
  ASSUME NEW P \in Seq(Providers), NEW Q \in Seq(Providers), Rearranged(P, Q),
         NEW query \in Queries, NEW request
  PROVE  CompileWithRetrieval(request, P, query) = CompileWithRetrieval(request, Q, query)
<1>1. ValidProviders(P) = ValidProviders(Q)
  BY RearrangedValid
<1>2. CASE ValidProviders(P)
  <2>1. PICK f, g, r : f = FuseRetrieval(P, query) /\ g = FuseRetrieval(Q, query) /\ r = RankedEntities(P, query)
    OBVIOUS
  <2>2. r = RankedEntities(Q, query)
    BY <1>2, <2>1, RearrangedRanking
  <2>3. DOMAIN f = DOMAIN g /\ \A k \in DOMAIN f : f[k].entity = g[k].entity
    <3>1. DOMAIN f = DOMAIN r /\ \A k \in DOMAIN r : f[k].entity = r[k][1]
      BY <2>1, FusedRanking
    <3>2. DOMAIN g = DOMAIN r /\ \A k \in DOMAIN r : g[k].entity = r[k][1]
      BY <2>1, <2>2, FusedRanking
    <3>3. QED
      BY <3>1, <3>2
  <2>4. PICK e : e = [k \in DOMAIN f |-> f[k].entity]
    OBVIOUS
  <2>5. e = [k \in DOMAIN g |-> g[k].entity]
    BY <2>3, <2>4
  <2> DEFINE Seen(x) == VisibleNode(x, request.known_at) # None
  <2>6. CompileWithRetrieval(request, P, query) = Compile([request EXCEPT !.seeds = SelectSeq(e, Seen)])
    BY <1>2, <2>1, <2>4, Zenon DEF CompileWithRetrieval
  <2>7. CompileWithRetrieval(request, Q, query) = Compile([request EXCEPT !.seeds = SelectSeq(e, Seen)])
    BY <1>1, <1>2, <2>1, <2>5, Zenon DEF CompileWithRetrieval
  <2>8. QED
    BY <2>6, <2>7
<1>3. CASE ~ValidProviders(P)
  BY <1>1, <1>3, Zenon DEF CompileWithRetrieval
<1>4. QED
  BY <1>2, <1>3

\* And the host sees the same.
LEMMA RearrangedRetrieved ==
  ASSUME NEW P \in Seq(Providers), NEW Q \in Seq(Providers), Rearranged(P, Q), NEW query \in Queries
  PROVE  Retrieved(P, query) = Retrieved(Q, query)
<1>1. ValidProviders(P) = ValidProviders(Q)
  BY RearrangedValid
<1> DEFINE Scores(answer) ==
             LET hits == FuseRetrieval(answer, query)
             IN  [k \in DOMAIN hits |-> <<hits[k].entity, hits[k].fused_score>>]
           Contexts(answer) == [request \in Requests |-> CompileWithRetrieval(request, answer, query)]
<1>2. ASSUME ValidProviders(P) PROVE Scores(P) = Scores(Q)
  <2>1. PICK f, g, r : f = FuseRetrieval(P, query) /\ g = FuseRetrieval(Q, query) /\ r = RankedEntities(P, query)
    OBVIOUS
  <2>2. r = RankedEntities(Q, query)
    BY <1>2, <2>1, RearrangedRanking
  <2>3. /\ DOMAIN f = DOMAIN g
        /\ \A k \in DOMAIN f : f[k].entity = g[k].entity /\ f[k].fused_score = g[k].fused_score
    <3>1. DOMAIN f = DOMAIN r /\ \A k \in DOMAIN r : f[k].entity = r[k][1] /\ f[k].fused_score = r[k][2]
      BY <2>1, FusedRanking
    <3>2. DOMAIN g = DOMAIN r /\ \A k \in DOMAIN r : g[k].entity = r[k][1] /\ g[k].fused_score = r[k][2]
      BY <2>1, <2>2, FusedRanking
    <3>3. QED
      BY <3>1, <3>2
  <2>4. [k \in DOMAIN f |-> <<f[k].entity, f[k].fused_score>>]
          = [k \in DOMAIN g |-> <<g[k].entity, g[k].fused_score>>]
    BY <2>3
  <2>5. /\ Scores(P) = [k \in DOMAIN f |-> <<f[k].entity, f[k].fused_score>>]
        /\ Scores(Q) = [k \in DOMAIN g |-> <<g[k].entity, g[k].fused_score>>]
    BY <2>1, Zenon
  <2>6. QED
    BY <2>4, <2>5
<1>3. Contexts(P) = Contexts(Q)
  <2>1. \A request \in Requests :
          CompileWithRetrieval(request, P, query) = CompileWithRetrieval(request, Q, query)
    BY RearrangedCompiles
  <2>2. QED
    BY <2>1
<1>4. /\ Retrieved(P, query) = [scores |-> IF ValidProviders(P) THEN Scores(P) ELSE None,
                                contexts |-> Contexts(P)]
      /\ Retrieved(Q, query) = [scores |-> IF ValidProviders(Q) THEN Scores(Q) ELSE None,
                                contexts |-> Contexts(Q)]
  BY Zenon DEF Retrieved
<1> HIDE DEF Scores, Contexts
<1>5. CASE ValidProviders(P)
  BY <1>1, <1>2, <1>3, <1>4, <1>5
<1>6. CASE ~ValidProviders(P)
  BY <1>1, <1>3, <1>4, <1>6
<1>7. QED
  BY <1>5, <1>6

\* What the run checks follows from the assumptions, whatever the state.
LEMMA RetrievalIsStable == RetrievalStable
<1> SUFFICES ASSUME NEW answers \in Rearrangements, NEW query \in Queries,
                    NEW x \in {Retrieved(answer, query) : answer \in answers},
                    NEW y \in {Retrieved(answer, query) : answer \in answers}
             PROVE  x = y
  BY Zenon DEF RetrievalStable
<1>1. Answers \subseteq Seq(Providers)
  BY AgentAssumption DEF Providers, Hits
<1>2. PICK P \in Answers : answers = {other \in Answers : Rearranged(P, other)}
  BY Zenon DEF Rearrangements
<1>3. \A other \in answers : Retrieved(other, query) = Retrieved(P, query)
  <2>1. ASSUME NEW other \in answers PROVE Retrieved(other, query) = Retrieved(P, query)
    <3>1. other \in Answers /\ Rearranged(P, other)
      BY <1>2
    <3>2. other \in Seq(Providers) /\ P \in Seq(Providers)
      BY <1>1, <3>1
    <3>3. QED
      BY <3>1, <3>2, RearrangedRetrieved
  <2>2. QED
    BY <2>1
<1>4. QED
  BY <1>3, Zenon

-----------------------------------------------------------------------------
\* What the runs check.

\* For every input, policy and recording time, any number of entities and any
\* length of the log: a plan that the store takes is applied by the projection
\* to its last event, whether its linker was built before or after the events
\* that the log got in between.
THEOREM CommittedPlansAlwaysReplay == Spec => []CommittedPlansReplay
<1>1. AgentInv => CommittedPlansReplay
  BY SoundIsSome DEF AgentInv, Recorded, Tracks, CommittedPlansReplay
<1>2. QED
  BY <1>1, AgentInvariant, PTL

\* The plan of a retry behind the commit it repeats.
LEMMA RetryAfterCommit ==
  ASSUME AgentInv, NEW x \in Extractions, NEW policy \in Policies,
         NEW nodes, nodes = Catalog(projection, log),
         PlanWithLinker(x, nodes, policy, Now) # None,
         NEW batch, batch = PlanWithLinker(x, nodes, policy, Now).events,
         CanPrepare(store, Stream, AnyVersion, IdsOf(batch)),
         NEW catalog, catalog = Catalog(Applied(projection, Len(log), batch), log \o batch),
         PlanWithLinker(x, catalog, policy, Now) # None
  PROVE  NodeEvents(PlanWithLinker(x, catalog, policy, Now).events) = {}
<1>1. Recorded(log, projection, store.event_ids)
  BY DEF AgentInv
<1>2. CatalogOf(nodes, projection, log) /\ Catalogued(nodes) /\ Backed(projection, nodes)
  BY <1>1, CurrentCatalog
<1>3. Now \in Times
  BY NowIsLatest
<1>4. PICK t \in Times : t = Now
  BY <1>3
<1>5. PICK S, m : CommittedPlan(x, nodes, policy, t, S, m)
  BY <1>1, <1>2, <1>4, PlanCommitted
<1>6. PICK q, all, ids : /\ q = Applied(projection, Len(log), batch) /\ all = log \o batch
                         /\ ids = store.event_ids \cup {batch[k].id : k \in 1..Len(batch)}
  OBVIOUS
<1>7. /\ S = NewEntities(LinksOf(x, nodes, policy)) /\ S \subseteq Entities
      /\ PlannedBy(batch, nodes, t, S, m)
      /\ Committed(log, projection, batch, all, q, ids, S)
  BY <1>4, <1>5, <1>6 DEF CommittedPlan
<1>8. /\ CatalogOf(catalog, q, all) /\ Carries(nodes, catalog)
      /\ \A id \in S : Present(catalog, id)
  BY <1>1, <1>2, <1>6, <1>7, CommitCarries
<1>9. Catalogued(catalog)
  BY <1>8 DEF CatalogOf
<1>10. ExtractionOK(x) /\ PolicyTyped(policy)
  BY AgentAssumption DEF PolicyTyped
<1>11. QED
  BY <1>2, <1>4, <1>7, <1>8, <1>9, <1>10, RetryCreatesNothing

\* Only plans of an outdated linker give an entity a second node event; and the
\* retry of an extraction that was just committed, planned against the catalog
\* of the projection behind it, has no node event at all, if a linker can be
\* built from that catalog.
THEOREM EntitiesNeverCreatedTwice == Spec => []NoEntityCreatedTwice
<1>1. ASSUME AgentInv PROVE NoEntityCreatedTwice
  <2>1. ~overlapped => \A j, k \in NodeEvents(log) : log[j].payload.id = log[k].payload.id => j = k
    BY <1>1 DEF AgentInv, CreatedOnce
  <2>2. ASSUME NEW x \in Extractions, NEW policy \in Policies,
               NEW plan \in {PlanWithLinker(x, Catalog(projection, log), policy, Now)} \ {None},
               CanPrepare(store, Stream, AnyVersion, IdsOf(plan.events)),
               NEW catalog,
               catalog = Catalog(Applied(projection, Len(log), plan.events), log \o plan.events),
               NEW retry \in {PlanWithLinker(x, catalog, policy, Now)} \ {None}
        PROVE  NodeEvents(retry.events) = {}
    <3>1. PICK nodes, batch : nodes = Catalog(projection, log) /\ batch = plan.events
      OBVIOUS
    <3>2. /\ PlanWithLinker(x, nodes, policy, Now) # None
          /\ batch = PlanWithLinker(x, nodes, policy, Now).events
          /\ PlanWithLinker(x, catalog, policy, Now) # None
      BY <2>2, <3>1
    <3>3. NodeEvents(PlanWithLinker(x, catalog, policy, Now).events) = {}
      BY <1>1, <2>2, <3>1, <3>2, RetryAfterCommit
    <3>4. QED
      BY <3>3
  <2>3. QED
    BY <2>1, <2>2, Zenon DEF NoEntityCreatedTwice
<1>2. QED
  BY <1>1, AgentInvariant, PTL

\* Links are never guessed, whatever catalog the linker was built from: a
\* mention without a stable identifier is linked to an entity exactly if that
\* entity deserves the minimum score and leads all others by the margin.
THEOREM LinksAlwaysUnambiguous == Spec => []LinksUnambiguous
<1>1. ASSUME AgentInv PROVE LinksUnambiguous
  <2> SUFFICES ASSUME NEW x \in Extractions, NEW policy \in Policies,
                      NEW mention \in {m \in ToSet(x.entities) : m.stable_id = None}
               PROVE  Earned(Link(linker, mention, x, policy),
                             [k \in DOMAIN linker |-> Deserved(linker[k], mention, x)], policy)
    BY Zenon DEF LinksUnambiguous
  <2>1. ExtractionOK(x) /\ PolicyTyped(policy)
    BY AgentAssumption DEF PolicyTyped
  <2>2. Catalogued(linker) /\ DistinctIds(linker)
    BY <1>1 DEF AgentInv
  <2>3. mention \in ToSet(x.entities) /\ mention.stable_id = None
    OBVIOUS
  <2>4. QED
    BY <2>1, <2>2, <2>3, DecisionEarned
<1>2. QED
  BY <1>1, AgentInvariant, PTL

\* For every request, any number of entities and any length of the log: the
\* queue of `neighborhood` reaches exactly the entities within max_depth of the
\* seeds, at their distances, keeps every usable fact between two of them, and
\* counts as excluded exactly the facts that lead out of scope.
THEOREM ContextsAlwaysComplete == Spec => []ContextComplete
<1>1. ASSUME AgentInv PROVE ContextComplete
  <2>1. Sound(projection) /\ Listed(projection)
    BY <1>1 DEF AgentInv, Recorded, Tracks
  <2>2. ASSUME NEW request \in Requests
        PROVE  CompleteFor(request, Neighborhood(request), Within(request, request.max_depth))
    <3>1. request.seeds \in Seq(Entities) /\ request.max_depth \in Nat
      BY AgentAssumption
    <3>2. QED
      BY <2>1, <3>1, NeighborhoodComplete
  <2>3. QED
    BY <2>2 DEF ContextComplete
<1>2. QED
  BY <1>1, AgentInvariant, PTL

\* For every request, estimator, budget and length of the log: what the nodes
\* and facts of a bundle cost is within what its receipt says, which is within
\* the budget, and exact but for self-loops; every fact comes with its ends; and
\* whatever `select_within_budget` left out is counted and would not have fitted.
THEOREM BudgetAlwaysHonoured == Spec => []BudgetHonoured
<1>1. ASSUME AgentInv PROVE BudgetHonoured
  <2>1. Recorded(log, projection, store.event_ids)
    BY <1>1 DEF AgentInv
  <2>2. ASSUME NEW request \in Requests, NEW bundle \in {Compile(request)} \ {None}
        PROVE  Honoured(request, bundle)
    <3>1. /\ request.seeds \in Seq(Entities) /\ request.max_depth \in Nat
          /\ request.known_at \in Time /\ request.token_budget \in Nat
      BY AgentAssumption
    <3>2. bundle = Compile(request) /\ bundle # None
      OBVIOUS
    <3>3. QED
      BY <2>1, <3>1, <3>2, CompileHonoured
  <2>3. QED
    BY <2>2, Zenon DEF BudgetHonoured, Honoured
<1>2. QED
  BY <1>1, AgentInvariant, PTL

\* Retrieval never depends on more than ranks: for any answers, valid or not,
\* queries and requests, in every state, providers in any other order, whose
\* hits come in any other order and with scores changed by anything that keeps
\* which is greater, give the same fused ranking and the same compiled context
\* (fuse_retrieval, compile_with_retrieval).
THEOREM RetrievalAlwaysStable == Spec => []RetrievalStable
  BY RetrievalIsStable, PTL

=============================================================================
