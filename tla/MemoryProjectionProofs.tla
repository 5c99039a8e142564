----------------------- MODULE MemoryProjectionProofs -----------------------
(***************************************************************************)
(* Lemmas about the projection, for every set of identifiers.              *)
(*                                                                         *)
(* A projection is Sound if its lookups, supersessions and retractions     *)
(* answer for its nodes and facts, and Listed if its two-part incidence    *)
(* index lists exactly the facts of every node.  Both survive apply and    *)
(* the codec, whose counting sort is shown to rebuild the index.  A view   *)
(* of a sound projection shows what it should.                             *)
(***************************************************************************)
EXTENDS MemoryProjection, InMemoryStoreProofs, FiniteSetTheorems, TLAPS

-----------------------------------------------------------------------------
\* What a filter returns: kept elements only, all of them, and as many as
\* there were only if everything was kept.
Keeps(out, S, s, kept) ==
  /\ out \in Seq(S) /\ Len(out) <= Len(s)
  /\ Len(out) = Len(s) => \A i \in 1..Len(s) : i \in kept
  /\ \A k \in 1..Len(out) : \E i \in 1..Len(s) : i \in kept /\ out[k] = s[i]
  /\ \A i \in 1..Len(s) : i \in kept => \E k \in 1..Len(out) : out[k] = s[i]

\* The filter behind the views and the incidence lists keeps what it should.
LEMMA FilteredMembers ==
  ASSUME NEW S, NEW s \in Seq(S), NEW kept
  PROVE  Keeps(Filtered(s, kept), S, s, kept)
<1>1. Len(s) \in Nat /\ \A i \in 1..Len(s) : s[i] \in S
  BY LenProperties, ElementOfSeq
<1>2. PICK c : /\ c = [i \in 0..Len(s) |->
                         IF i = 0 THEN <<>>
                         ELSE IF i \in kept THEN Append(c[i - 1], s[i]) ELSE c[i - 1]]
               /\ Filtered(s, kept) = c[Len(s)]
  BY <1>1, FilteredRecursion
<1> DEFINE Good(i) ==
             /\ c[i] \in Seq(S) /\ Len(c[i]) \in 0..i
             /\ Len(c[i]) = i => \A j \in 1..i : j \in kept
             /\ \A k \in 1..Len(c[i]) : \E j \in 1..i : j \in kept /\ c[i][k] = s[j]
             /\ \A j \in 1..i : j \in kept => \E k \in 1..Len(c[i]) : c[i][k] = s[j]
           N == {i \in Nat : Good(i)}
<1>3. 0 \in N
  <2>1. c[0] = <<>>
    BY <1>1, <1>2
  <2>2. Good(0)
    BY <2>1, EmptySeq
  <2> HIDE DEF Good
  <2>3. QED
    BY <2>2
<1>4. ASSUME NEW i \in 0..(Len(s) - 1), i \in N PROVE i + 1 \in N
  <2> HIDE DEF Good
  <2>1. Good(i) /\ i \in Nat /\ i + 1 \in 1..Len(s) /\ s[i + 1] \in S
    BY <1>1, <1>4
  <2> USE DEF Good
  <2>2. c[i + 1] = IF i + 1 \in kept THEN Append(c[i], s[i + 1]) ELSE c[i]
    <3>1. i + 1 \in 0..Len(s) /\ i + 1 # 0 /\ (i + 1) - 1 = i
      BY <1>1, <2>1
    <3>2. QED
      BY <1>2, <3>1
  <2>3. CASE i + 1 \in kept
    <3> DEFINE d == Append(c[i], s[i + 1])
    <3>1. /\ d \in Seq(S) /\ Len(d) = Len(c[i]) + 1 /\ d[Len(c[i]) + 1] = s[i + 1]
          /\ \A k \in 1..Len(c[i]) : d[k] = c[i][k]
      BY <2>1, AppendProperties
    <3> HIDE DEF d
    <3>2. c[i + 1] = d
      BY <2>2, <2>3 DEF d
    <3>3. Len(d) \in 0..(i + 1) /\ (Len(d) = i + 1 => \A j \in 1..(i + 1) : j \in kept)
      <4>1. Len(d) \in 0..(i + 1) /\ (Len(d) = i + 1 => Len(c[i]) = i)
        BY <2>1, <3>1
      <4>2. \A j \in 1..(i + 1) : j \in 1..i \/ j = i + 1
        BY <2>1
      <4>3. QED
        BY <2>1, <2>3, <4>1, <4>2
    <3>4. ASSUME NEW k \in 1..Len(d) PROVE \E j \in 1..(i + 1) : j \in kept /\ d[k] = s[j]
      <4>1. CASE k = Len(c[i]) + 1
        BY <2>1, <2>3, <3>1, <4>1
      <4>2. CASE k # Len(c[i]) + 1
        <5>1. k \in 1..Len(c[i])
          BY <2>1, <3>1, <4>2
        <5>2. PICK j \in 1..i : j \in kept /\ c[i][k] = s[j]
          BY <2>1, <5>1
        <5>3. j \in 1..(i + 1)
          BY <2>1
        <5>4. QED
          BY <3>1, <5>1, <5>2, <5>3
      <4>3. QED
        BY <4>1, <4>2
    <3>5. ASSUME NEW j \in 1..(i + 1), j \in kept PROVE \E k \in 1..Len(d) : d[k] = s[j]
      <4>1. CASE j = i + 1
        BY <2>1, <3>1, <4>1
      <4>2. CASE j # i + 1
        <5>1. j \in 1..i
          BY <2>1, <4>2
        <5>2. PICK k \in 1..Len(c[i]) : c[i][k] = s[j]
          BY <2>1, <3>5, <5>1
        <5>3. k \in 1..Len(d)
          BY <2>1, <3>1
        <5>4. QED
          BY <3>1, <5>2, <5>3
      <4>3. QED
        BY <4>1, <4>2
    <3>6. Good(i + 1)
      BY <3>1, <3>2, <3>3, <3>4, <3>5
    <3>7. i + 1 \in Nat
      BY <2>1
    <3> HIDE DEF Good
    <3>8. QED
      BY <3>6, <3>7
  <2>4. CASE i + 1 \notin kept
    <3>1. c[i + 1] = c[i]
      BY <2>2, <2>4
    <3>2. Len(c[i]) \in 0..(i + 1) /\ Len(c[i]) # i + 1 /\ i + 1 \in Nat
      BY <2>1
    <3>3. \A j \in 1..(i + 1) : j \in kept => j \in 1..i
      BY <2>1, <2>4
    <3>4. \A j \in 1..i : j \in 1..(i + 1)
      BY <2>1
    <3>5. \A k \in 1..Len(c[i]) : \E j \in 1..(i + 1) : j \in kept /\ c[i][k] = s[j]
      BY <2>1, <3>4
    <3>6. \A j \in 1..(i + 1) : j \in kept => \E k \in 1..Len(c[i]) : c[i][k] = s[j]
      BY <2>1, <3>3
    <3>7. Good(i + 1)
      BY <2>1, <3>1, <3>2, <3>5, <3>6
    <3> HIDE DEF Good
    <3>8. QED
      BY <3>2, <3>7
  <2>5. QED
    BY <2>3, <2>4
<1> HIDE DEF N, Good
<1>5. Len(s) \in N
  <2>1. \A i \in 0..Len(s) : i \in N
    BY <1>1, <1>3, <1>4, InductionUpTo
  <2>2. QED
    BY <1>1, <2>1
<1>6. Good(Len(s))
  BY <1>5 DEF N
<1>7. /\ c[Len(s)] \in Seq(S) /\ Len(c[Len(s)]) \in 0..Len(s)
      /\ Len(c[Len(s)]) = Len(s) => \A j \in 1..Len(s) : j \in kept
      /\ \A k \in 1..Len(c[Len(s)]) : \E j \in 1..Len(s) : j \in kept /\ c[Len(s)][k] = s[j]
      /\ \A j \in 1..Len(s) : j \in kept => \E k \in 1..Len(c[Len(s)]) : c[Len(s)][k] = s[j]
  BY <1>6, Zenon DEF Good
<1>8. Len(c[Len(s)]) <= Len(s)
  BY <1>1, <1>7
<1>9. Keeps(c[Len(s)], S, s, kept)
  BY <1>7, <1>8 DEF Keeps
<1>10. QED
  BY <1>2, <1>9, Zenon

-----------------------------------------------------------------------------
\* The fields of a projection.
LEMMA ProjectionFields ==
  ASSUME NEW p \in Projection
  PROVE  /\ p.nodes \in Seq(Seq(NodeRevision)) /\ p.facts \in Seq(Fact)
         /\ p.node_lookup \in [Entities -> Nat \cup {None}]
         /\ p.fact_lookup \in [FactIds -> Nat \cup {None}]
         /\ p.incident_offsets \in Seq(Nat) /\ p.incident_facts \in Seq(Nat)
         /\ p.incident_delta \in [NodeIndex -> Seq(Nat)]
         /\ p.supersessions \in [FactIds -> Supersession \cup {None}]
         /\ p.retractions \in [FactIds -> Retraction \cup {None}]
         /\ p.last_global_position \in Nat \cup {None}
BY DEF Projection

\* Every node has a history of one identifier and is found under it, and
\* nothing else is found.
NodesIndexed(nodes, lookup) ==
  /\ \A n \in 1..Len(nodes) :
       /\ Len(nodes[n]) >= 1
       /\ \A r \in 1..Len(nodes[n]) : nodes[n][r].id = nodes[n][1].id
       /\ lookup[nodes[n][1].id] = n - 1
  /\ \A e \in Entities : lookup[e] # None =>
       lookup[e] + 1 \in 1..Len(nodes) /\ nodes[lookup[e] + 1][1].id = e

\* Every fact is found under its identifier, and nothing else is found.
FactsIndexed(facts, lookup) ==
  /\ \A k \in 1..Len(facts) : lookup[facts[k].id] = k - 1
  /\ \A id \in FactIds : lookup[id] # None =>
       lookup[id] + 1 \in 1..Len(facts) /\ facts[lookup[id] + 1].id = id

\* Facts are valid and between nodes.
FactsGrounded(facts, node_lookup) ==
  \A k \in 1..Len(facts) :
    /\ ValidFact(facts[k])
    /\ node_lookup[facts[k].source] # None /\ node_lookup[facts[k].target] # None

\* The supersession a fact stands for.
By(f) == [replacement |-> f.id, valid_from |-> f.valid_from, recorded_at |-> f.recorded_at]

\* Supersessions are exactly those that facts stand for, of facts.
Replaced(facts, supersessions) ==
  /\ \A k \in 1..Len(facts) : facts[k].supersedes # None =>
       supersessions[facts[k].supersedes] = By(facts[k])
  /\ \A prior \in FactIds : supersessions[prior] # None =>
       /\ \E k \in 1..Len(facts) : facts[k].id = prior
       /\ \E k \in 1..Len(facts) :
            facts[k].supersedes = prior /\ supersessions[prior] = By(facts[k])

\* Retractions are of facts, and end them after they began.
Retracted(facts, retractions) ==
  \A id \in FactIds : retractions[id] # None =>
    \E k \in 1..Len(facts) :
      facts[k].id = id /\ retractions[id].valid_until > facts[k].valid_from

\* What holds of every projection that events and decoding have built.
Sound(p) ==
  /\ p \in Projection
  /\ NodesIndexed(p.nodes, p.node_lookup)
  /\ FactsIndexed(p.facts, p.fact_lookup)
  /\ FactsGrounded(p.facts, p.node_lookup)
  /\ Replaced(p.facts, p.supersessions)
  /\ Retracted(p.facts, p.retractions)
  /\ Len(p.incident_offsets) = Len(p.nodes) + 1

\* The histories of the nodes, and where their lookup leads.
LEMMA NodeHistories ==
  ASSUME NEW nodes \in Seq(Seq(NodeRevision)), NEW lookup \in [Entities -> Nat \cup {None}],
         NodesIndexed(nodes, lookup)
  PROVE  /\ Len(nodes) \in Nat
         /\ \A n \in 1..Len(nodes) :
              /\ nodes[n] \in Seq(NodeRevision) /\ Len(nodes[n]) \in Nat /\ Len(nodes[n]) >= 1
              /\ \A r \in 1..Len(nodes[n]) : nodes[n][r] \in NodeRevision
              /\ nodes[n][1] \in NodeRevision /\ nodes[n][1].id \in Entities
<1>1. Len(nodes) \in Nat /\ \A n \in 1..Len(nodes) : nodes[n] \in Seq(NodeRevision)
  BY LenProperties, ElementOfSeq
<1>2. ASSUME NEW n \in 1..Len(nodes)
      PROVE  /\ Len(nodes[n]) \in Nat /\ Len(nodes[n]) >= 1
             /\ \A r \in 1..Len(nodes[n]) : nodes[n][r] \in NodeRevision
             /\ nodes[n][1] \in NodeRevision /\ nodes[n][1].id \in Entities
  <2>1. nodes[n] \in Seq(NodeRevision) /\ Len(nodes[n]) >= 1
    BY <1>1 DEF NodesIndexed
  <2>2. Len(nodes[n]) \in Nat /\ \A r \in 1..Len(nodes[n]) : nodes[n][r] \in NodeRevision
    BY <2>1, LenProperties, ElementOfSeq
  <2>3. 1 \in 1..Len(nodes[n])
    BY <2>1, <2>2
  <2>4. nodes[n][1] \in NodeRevision
    BY <2>2, <2>3
  <2>5. nodes[n][1].id \in Entities
    BY <2>4 DEF NodeRevision
  <2>6. QED
    BY <2>1, <2>2, <2>4, <2>5
<1>3. QED
  BY <1>1, <1>2

\* A revision of a known node leaves every node in its place.
WithRevision(nodes, i, r) == [nodes EXCEPT ![i] = Append(@, r)]

WithEntry(lookup, id, index) == [lookup EXCEPT ![id] = index]

Revised(nodes, i, r, new) ==
  /\ i \in 1..Len(nodes)
  /\ new \in Seq(Seq(NodeRevision)) /\ Len(new) = Len(nodes)
  /\ \A n \in 1..Len(nodes) : new[n] = IF n = i THEN Append(nodes[i], r) ELSE nodes[n]
  /\ \A n \in 1..Len(nodes) : new[n][1] = nodes[n][1]

\* insert_node of a known node: one more revision, and the lookup stays right.
LEMMA RevisionIndexed ==
  ASSUME NEW nodes \in Seq(Seq(NodeRevision)), NEW lookup \in [Entities -> Nat \cup {None}],
         NodesIndexed(nodes, lookup), NEW r \in NodeRevision, lookup[r.id] # None
  PROVE  /\ Revised(nodes, lookup[r.id] + 1, r, WithRevision(nodes, lookup[r.id] + 1, r))
         /\ NodesIndexed(WithRevision(nodes, lookup[r.id] + 1, r), lookup)
<1>1. PICK i : i = lookup[r.id] + 1
  OBVIOUS
<1>2. PICK new : new = [nodes EXCEPT ![i] = Append(@, r)]
  OBVIOUS
<1>3. /\ Len(nodes) \in Nat
      /\ \A n \in 1..Len(nodes) :
           /\ nodes[n] \in Seq(NodeRevision) /\ Len(nodes[n]) \in Nat /\ Len(nodes[n]) >= 1
           /\ \A q \in 1..Len(nodes[n]) : nodes[n][q] \in NodeRevision
  BY NodeHistories
<1>4. i \in 1..Len(nodes) /\ nodes[i][1].id = r.id
  BY <1>1 DEF NodesIndexed, NodeRevision
<1>5. /\ Append(nodes[i], r) \in Seq(NodeRevision)
      /\ Len(Append(nodes[i], r)) = Len(nodes[i]) + 1
      /\ \A q \in 1..Len(nodes[i]) : Append(nodes[i], r)[q] = nodes[i][q]
      /\ Append(nodes[i], r)[Len(nodes[i]) + 1] = r
  BY <1>3, <1>4, AppendProperties
<1>6. new \in Seq(Seq(NodeRevision)) /\ Len(new) = Len(nodes)
  BY <1>2, <1>4, <1>5, ExceptSeq
<1>7. \A n \in 1..Len(nodes) : new[n] = IF n = i THEN Append(nodes[i], r) ELSE nodes[n]
  BY <1>2, <1>4, <1>5, ExceptSeq
<1>8. ASSUME NEW n \in 1..Len(nodes)
      PROVE  /\ new[n][1] = nodes[n][1] /\ Len(new[n]) >= 1
             /\ \A q \in 1..Len(new[n]) : new[n][q].id = nodes[n][1].id
  <2>1. /\ Len(nodes[n]) \in Nat /\ Len(nodes[n]) >= 1
        /\ \A q \in 1..Len(nodes[n]) : nodes[n][q].id = nodes[n][1].id
    BY <1>3 DEF NodesIndexed
  <2>2. CASE n # i
    BY <1>7, <2>1, <2>2
  <2>3. CASE n = i
    <3>1. new[n] = Append(nodes[i], r)
      BY <1>7, <2>3
    <3>2. new[n][1] = nodes[n][1] /\ Len(new[n]) = Len(nodes[n]) + 1
      BY <1>5, <2>1, <2>3, <3>1
    <3>3. ASSUME NEW q \in 1..Len(new[n]) PROVE new[n][q].id = nodes[n][1].id
      <4>1. q \in 1..Len(nodes[n]) \/ q = Len(nodes[n]) + 1
        BY <2>1, <3>2
      <4>2. QED
        BY <1>4, <1>5, <2>1, <2>3, <3>1, <4>1
    <3>4. QED
      BY <2>1, <3>2, <3>3
  <2>4. QED
    BY <2>2, <2>3
<1>9. ASSUME NEW n \in 1..Len(new)
      PROVE  /\ Len(new[n]) >= 1
             /\ \A q \in 1..Len(new[n]) : new[n][q].id = new[n][1].id
             /\ lookup[new[n][1].id] = n - 1
  <2>1. n \in 1..Len(nodes)
    BY <1>6
  <2>2. lookup[nodes[n][1].id] = n - 1
    BY <2>1 DEF NodesIndexed
  <2>3. QED
    BY <1>8, <2>1, <2>2
<1>10. ASSUME NEW e \in Entities, lookup[e] # None
      PROVE  lookup[e] + 1 \in 1..Len(new) /\ new[lookup[e] + 1][1].id = e
  BY <1>6, <1>8, <1>10 DEF NodesIndexed
<1>11. NodesIndexed(new, lookup)
  BY <1>9, <1>10 DEF NodesIndexed
<1>12. Revised(nodes, i, r, new)
  BY <1>4, <1>6, <1>7, <1>8 DEF Revised
<1>13. QED
  BY <1>1, <1>2, <1>11, <1>12 DEF WithRevision

\* A new node comes last.
NodeAdded(nodes, lookup, r, new, found) ==
  /\ new \in Seq(Seq(NodeRevision)) /\ Len(new) = Len(nodes) + 1
  /\ \A n \in 1..Len(nodes) : new[n] = nodes[n]
  /\ new[Len(nodes) + 1] = <<r>>
  /\ found \in [Entities -> Nat \cup {None}]
  /\ found[r.id] = Len(nodes)
  /\ \A e \in Entities : e # r.id => found[e] = lookup[e]

\* insert_node of a new node: one more history, found where it was put.
LEMMA NodeIndexed ==
  ASSUME NEW nodes \in Seq(Seq(NodeRevision)), NEW lookup \in [Entities -> Nat \cup {None}],
         NodesIndexed(nodes, lookup), NEW r \in NodeRevision, lookup[r.id] = None
  PROVE  /\ NodeAdded(nodes, lookup, r, Append(nodes, <<r>>), WithEntry(lookup, r.id, Len(nodes)))
         /\ NodesIndexed(Append(nodes, <<r>>), WithEntry(lookup, r.id, Len(nodes)))
<1>1. PICK new : new = Append(nodes, <<r>>)
  OBVIOUS
<1>2. PICK found : found = [lookup EXCEPT ![r.id] = Len(nodes)]
  OBVIOUS
<1>3. /\ Len(nodes) \in Nat
      /\ \A n \in 1..Len(nodes) : nodes[n][1].id \in Entities /\ Len(nodes[n]) \in Nat
  BY NodeHistories
<1>4. <<r>> \in Seq(NodeRevision) /\ Len(<<r>>) = 1 /\ <<r>>[1] = r /\ r.id \in Entities
  BY DEF NodeRevision
<1>5. /\ new \in Seq(Seq(NodeRevision)) /\ Len(new) = Len(nodes) + 1
      /\ \A n \in 1..Len(nodes) : new[n] = nodes[n]
      /\ new[Len(nodes) + 1] = <<r>>
  BY <1>1, <1>4, AppendProperties
<1>6. /\ found \in [Entities -> Nat \cup {None}] /\ found[r.id] = Len(nodes)
      /\ \A e \in Entities : e # r.id => found[e] = lookup[e]
      /\ \A e \in Entities : lookup[e] # None => found[e] = lookup[e]
  BY <1>2, <1>3, <1>4
<1>7. ASSUME NEW n \in 1..Len(new)
      PROVE  /\ Len(new[n]) >= 1
             /\ \A q \in 1..Len(new[n]) : new[n][q].id = new[n][1].id
             /\ found[new[n][1].id] = n - 1
  <2>1. CASE n \in 1..Len(nodes)
    <3>1. /\ Len(nodes[n]) >= 1
          /\ \A q \in 1..Len(nodes[n]) : nodes[n][q].id = nodes[n][1].id
          /\ lookup[nodes[n][1].id] = n - 1
      BY <2>1 DEF NodesIndexed
    <3>2. found[nodes[n][1].id] = n - 1
      <4>1. n - 1 \in Int
        BY <1>3, <2>1
      <4>2. lookup[nodes[n][1].id] # None
        BY <3>1, <4>1, NoneAssumption
      <4>3. QED
        BY <1>3, <1>6, <2>1, <3>1, <4>2
    <3>3. QED
      BY <1>5, <2>1, <3>1, <3>2
  <2>2. CASE n = Len(nodes) + 1
    <3>1. new[n] = <<r>>
      BY <1>5, <2>2
    <3>2. found[new[n][1].id] = n - 1
      BY <1>3, <1>6, <2>2, <3>1
    <3>3. QED
      BY <3>1, <3>2
  <2>3. QED
    BY <1>3, <1>5, <2>1, <2>2
<1>8. ASSUME NEW e \in Entities, found[e] # None
      PROVE  found[e] + 1 \in 1..Len(new) /\ new[found[e] + 1][1].id = e
  <2>1. CASE e = r.id
    BY <1>3, <1>4, <1>5, <1>6, <2>1
  <2>2. CASE e # r.id
    <3>1. found[e] = lookup[e] /\ lookup[e] # None
      BY <1>6, <1>8, <2>2
    <3>2. lookup[e] + 1 \in 1..Len(nodes) /\ nodes[lookup[e] + 1][1].id = e
      BY <3>1 DEF NodesIndexed
    <3>3. lookup[e] + 1 \in 1..Len(new)
      BY <1>3, <1>5, <3>2
    <3>4. QED
      BY <1>5, <3>1, <3>2, <3>3
  <2>3. QED
    BY <2>1, <2>2
<1>9. NodesIndexed(new, found)
  BY <1>7, <1>8 DEF NodesIndexed
<1>10. NodeAdded(nodes, lookup, r, new, found)
  BY <1>5, <1>6 DEF NodeAdded
<1>11. QED
  BY <1>1, <1>2, <1>9, <1>10 DEF WithEntry

\* A new fact comes last.
FactAdded(facts, f, new) ==
  /\ new \in Seq(Fact) /\ Len(new) = Len(facts) + 1 /\ Len(facts) \in Nat
  /\ \A k \in 1..Len(facts) : new[k] = facts[k] /\ facts[k] \in Fact
  /\ new[Len(facts) + 1] = f

\* insert_fact: one more fact, found where it was put.
LEMMA FactIndexed ==
  ASSUME NEW facts \in Seq(Fact), NEW lookup \in [FactIds -> Nat \cup {None}],
         FactsIndexed(facts, lookup), NEW f \in Fact, lookup[f.id] = None
  PROVE  /\ FactAdded(facts, f, Append(facts, f))
         /\ WithEntry(lookup, f.id, Len(facts)) \in [FactIds -> Nat \cup {None}]
         /\ FactsIndexed(Append(facts, f), WithEntry(lookup, f.id, Len(facts)))
<1>1. PICK new : new = Append(facts, f)
  OBVIOUS
<1>2. PICK found : found = [lookup EXCEPT ![f.id] = Len(facts)]
  OBVIOUS
<1>3. Len(facts) \in Nat /\ \A k \in 1..Len(facts) : facts[k] \in Fact /\ facts[k].id \in FactIds
  <2>1. Len(facts) \in Nat /\ \A k \in 1..Len(facts) : facts[k] \in Fact
    BY LenProperties, ElementOfSeq
  <2>2. \A g \in Fact : g.id \in FactIds
    BY DEF Fact
  <2>3. QED
    BY <2>1, <2>2
<1>4. f.id \in FactIds
  BY DEF Fact
<1>5. /\ new \in Seq(Fact) /\ Len(new) = Len(facts) + 1
      /\ \A k \in 1..Len(facts) : new[k] = facts[k]
      /\ new[Len(facts) + 1] = f
  BY <1>1, AppendProperties
<1>6. /\ found \in [FactIds -> Nat \cup {None}] /\ found[f.id] = Len(facts)
      /\ \A id \in FactIds : id # f.id => found[id] = lookup[id]
  BY <1>2, <1>3, <1>4
<1>7. ASSUME NEW k \in 1..Len(new) PROVE found[new[k].id] = k - 1
  <2>1. CASE k \in 1..Len(facts)
    <3>1. lookup[facts[k].id] = k - 1 /\ k - 1 \in Int
      BY <1>3, <2>1 DEF FactsIndexed
    <3>2. facts[k].id # f.id
      BY <3>1, NoneAssumption
    <3>3. QED
      BY <1>3, <1>5, <1>6, <2>1, <3>1, <3>2
  <2>2. CASE k = Len(facts) + 1
    BY <1>3, <1>5, <1>6, <2>2
  <2>3. QED
    BY <1>3, <1>5, <2>1, <2>2
<1>8. ASSUME NEW id \in FactIds, found[id] # None
      PROVE  found[id] + 1 \in 1..Len(new) /\ new[found[id] + 1].id = id
  <2>1. CASE id = f.id
    BY <1>3, <1>5, <1>6, <2>1
  <2>2. CASE id # f.id
    <3>1. found[id] = lookup[id] /\ lookup[id] # None
      BY <1>6, <1>8, <2>2
    <3>2. lookup[id] + 1 \in 1..Len(facts) /\ facts[lookup[id] + 1].id = id
      BY <3>1 DEF FactsIndexed
    <3>3. lookup[id] + 1 \in 1..Len(new)
      BY <1>3, <1>5, <3>2
    <3>4. QED
      BY <1>5, <3>1, <3>2, <3>3
  <2>3. QED
    BY <2>1, <2>2
<1>9. FactsIndexed(new, found)
  BY <1>7, <1>8 DEF FactsIndexed
<1>10. FactAdded(facts, f, new)
  BY <1>3, <1>5 DEF FactAdded
<1>11. QED
  BY <1>1, <1>2, <1>6, <1>9, <1>10 DEF WithEntry

-----------------------------------------------------------------------------
\* What upsert of a node changes.
NodeInserted(p, r, q) ==
  /\ q \in Projection
  /\ q.facts = p.facts /\ q.fact_lookup = p.fact_lookup
  /\ q.supersessions = p.supersessions /\ q.retractions = p.retractions
  /\ q.incident_facts = p.incident_facts /\ q.incident_delta = p.incident_delta
  /\ q.last_global_position = p.last_global_position
  /\ p.node_lookup[r.id] # None =>
       /\ q.nodes = WithRevision(p.nodes, p.node_lookup[r.id] + 1, r)
       /\ q.node_lookup = p.node_lookup
       /\ q.incident_offsets = p.incident_offsets
  /\ p.node_lookup[r.id] = None =>
       /\ q.nodes = Append(p.nodes, <<r>>)
       /\ q.node_lookup = WithEntry(p.node_lookup, r.id, Len(p.nodes))
       /\ q.incident_offsets
            = Append(p.incident_offsets, p.incident_offsets[Len(p.incident_offsets)])

\* What insert_node does, field by field.
LEMMA InsertNodeFields ==
  ASSUME NEW p, Sound(p), NEW r \in NodeRevision
  PROVE  NodeInserted(p, r, InsertNode(p, r))
<1> DEFINE q == InsertNode(p, r)
<1>1. p \in Projection /\ NodesIndexed(p.nodes, p.node_lookup)
  BY DEF Sound
<1>2. /\ p.nodes \in Seq(Seq(NodeRevision)) /\ p.node_lookup \in [Entities -> Nat \cup {None}]
      /\ p.incident_offsets \in Seq(Nat) /\ Len(p.nodes) \in Nat
  BY <1>1, ProjectionFields, LenProperties
<1>3. r.id \in Entities
  BY DEF NodeRevision
<1>4. CASE p.node_lookup[r.id] # None
  <2>1. PICK nodes : nodes = WithRevision(p.nodes, p.node_lookup[r.id] + 1, r)
    OBVIOUS
  <2>2. q = [p EXCEPT !.nodes = nodes]
    BY <1>1, <1>4, <2>1 DEF InsertNode, Projection, WithRevision
  <2>3. nodes \in Seq(Seq(NodeRevision))
    BY <1>1, <1>2, <1>4, <2>1, RevisionIndexed DEF Revised
  <2>4. q \in Projection
    BY <1>1, <2>2, <2>3 DEF Projection
  <2>5. QED
    BY <1>1, <1>4, <2>1, <2>2, <2>4 DEF Projection, NodeInserted
<1>5. CASE p.node_lookup[r.id] = None
  <2>1. PICK nodes : nodes = Append(p.nodes, <<r>>)
    OBVIOUS
  <2>2. PICK found : found = WithEntry(p.node_lookup, r.id, Len(p.nodes))
    OBVIOUS
  <2>3. PICK offsets :
          offsets = Append(p.incident_offsets, p.incident_offsets[Len(p.incident_offsets)])
    OBVIOUS
  <2>4. q = [p EXCEPT !.node_lookup = found, !.nodes = nodes, !.incident_offsets = offsets]
    BY <1>1, <1>5, <2>1, <2>2, <2>3 DEF InsertNode, Projection, WithEntry
  <2>5. nodes \in Seq(Seq(NodeRevision)) /\ found \in [Entities -> Nat \cup {None}]
    BY <1>1, <1>2, <1>5, <2>1, <2>2, NodeIndexed DEF NodeAdded
  <2>6. offsets \in Seq(Nat)
    <3>1. Len(p.incident_offsets) = Len(p.nodes) + 1
      BY DEF Sound
    <3>2. Len(p.incident_offsets) \in 1..Len(p.incident_offsets)
      BY <1>2, <3>1
    <3>3. p.incident_offsets[Len(p.incident_offsets)] \in Nat
      BY <1>2, <3>2, ElementOfSeq
    <3>4. QED
      BY <1>2, <2>3, <3>3, AppendProperties
  <2>7. q \in Projection
    BY <1>1, <2>4, <2>5, <2>6 DEF Projection
  <2>8. QED
    BY <1>1, <1>5, <2>1, <2>2, <2>3, <2>4, <2>7 DEF Projection, NodeInserted
<1>6. QED
  BY <1>4, <1>5

\* Upserting a node keeps a projection sound.
LEMMA InsertNodeSound ==
  ASSUME NEW p, Sound(p), NEW r \in NodeRevision
  PROVE  Sound(InsertNode(p, r))
<1>1. PICK q : q = InsertNode(p, r)
  OBVIOUS
<1>2. NodeInserted(p, r, q)
  BY <1>1, InsertNodeFields
<1>3. /\ q \in Projection
      /\ q.facts = p.facts /\ q.fact_lookup = p.fact_lookup
      /\ q.supersessions = p.supersessions /\ q.retractions = p.retractions
  BY <1>2 DEF NodeInserted
<1>4. /\ p \in Projection /\ NodesIndexed(p.nodes, p.node_lookup)
      /\ p.nodes \in Seq(Seq(NodeRevision)) /\ p.node_lookup \in [Entities -> Nat \cup {None}]
      /\ p.incident_offsets \in Seq(Nat) /\ Len(p.nodes) \in Nat
      /\ Len(p.incident_offsets) = Len(p.nodes) + 1
      /\ p.facts \in Seq(Fact)
  BY ProjectionFields, LenProperties DEF Sound
<1>5. /\ NodesIndexed(q.nodes, q.node_lookup) /\ Len(q.incident_offsets) = Len(q.nodes) + 1
      /\ \A e \in Entities : p.node_lookup[e] # None => q.node_lookup[e] # None
  <2>1. CASE p.node_lookup[r.id] # None
    <3>1. /\ q.nodes = WithRevision(p.nodes, p.node_lookup[r.id] + 1, r)
          /\ q.node_lookup = p.node_lookup /\ q.incident_offsets = p.incident_offsets
      BY <1>2, <2>1 DEF NodeInserted
    <3>2. /\ NodesIndexed(q.nodes, p.node_lookup)
          /\ Revised(p.nodes, p.node_lookup[r.id] + 1, r, q.nodes)
      BY <1>4, <2>1, <3>1, RevisionIndexed
    <3>3. Len(q.nodes) = Len(p.nodes)
      BY <3>2 DEF Revised
    <3>4. QED
      BY <1>4, <3>1, <3>2, <3>3
  <2>2. CASE p.node_lookup[r.id] = None
    <3>1. /\ q.nodes = Append(p.nodes, <<r>>)
          /\ q.node_lookup = WithEntry(p.node_lookup, r.id, Len(p.nodes))
          /\ q.incident_offsets
               = Append(p.incident_offsets, p.incident_offsets[Len(p.incident_offsets)])
      BY <1>2, <2>2 DEF NodeInserted
    <3>2. /\ NodesIndexed(q.nodes, q.node_lookup)
          /\ NodeAdded(p.nodes, p.node_lookup, r, q.nodes, q.node_lookup)
      BY <1>4, <2>2, <3>1, NodeIndexed
    <3>3. /\ Len(q.nodes) = Len(p.nodes) + 1
          /\ \A e \in Entities : p.node_lookup[e] # None => q.node_lookup[e] = p.node_lookup[e]
      BY <2>2, <3>2 DEF NodeAdded
    <3>4. Len(q.incident_offsets) = Len(p.incident_offsets) + 1
      <4>1. Len(p.incident_offsets) \in 1..Len(p.incident_offsets)
        BY <1>4
      <4>2. p.incident_offsets[Len(p.incident_offsets)] \in Nat
        BY <1>4, <4>1, ElementOfSeq
      <4>3. QED
        BY <1>4, <3>1, <4>2, AppendProperties
    <3>5. QED
      BY <1>4, <3>2, <3>3, <3>4
  <2>3. QED
    BY <2>1, <2>2
<1>6. FactsGrounded(q.facts, q.node_lookup)
  <2>1. FactsGrounded(p.facts, p.node_lookup)
    BY DEF Sound
  <2>2. \A k \in 1..Len(p.facts) : p.facts[k] \in Fact
    BY <1>4, ElementOfSeq
  <2>3. \A k \in 1..Len(p.facts) : p.facts[k].source \in Entities /\ p.facts[k].target \in Entities
    BY <2>2 DEF Fact
  <2>4. QED
    BY <1>3, <1>5, <2>1, <2>3 DEF FactsGrounded
<1>7. Sound(q)
  BY <1>3, <1>5, <1>6 DEF Sound
<1>8. QED
  BY <1>1, <1>7

\* What recording a fact changes.
FactInserted(p, f, q) ==
  /\ q \in Projection
  /\ q.nodes = p.nodes /\ q.node_lookup = p.node_lookup
  /\ q.retractions = p.retractions
  /\ q.incident_offsets = p.incident_offsets /\ q.incident_facts = p.incident_facts
  /\ q.last_global_position = p.last_global_position
  /\ q.facts = Append(p.facts, f)
  /\ q.fact_lookup = WithEntry(p.fact_lookup, f.id, Len(p.facts))
  /\ q.incident_delta =
       [n \in NodeIndex |->
          IF n \in {p.node_lookup[f.source], p.node_lookup[f.target]}
          THEN Append(p.incident_delta[n], Len(p.facts)) ELSE p.incident_delta[n]]
  /\ q.supersessions = IF f.supersedes = None THEN p.supersessions
                       ELSE WithEntry(p.supersessions, f.supersedes, By(f))

\* What insert_fact does, field by field.
LEMMA InsertFactFields ==
  ASSUME NEW p, Sound(p), NEW f \in Fact
  PROVE  FactInserted(p, f, InsertFact(p, f))
<1> DEFINE q == InsertFact(p, f)
<1>1. p \in Projection
  BY DEF Sound
<1>2. /\ p.facts \in Seq(Fact) /\ Len(p.facts) \in Nat
      /\ p.fact_lookup \in [FactIds -> Nat \cup {None}]
      /\ p.incident_delta \in [NodeIndex -> Seq(Nat)]
      /\ p.supersessions \in [FactIds -> Supersession \cup {None}]
  BY <1>1, ProjectionFields, LenProperties
<1>3. /\ f.id \in FactIds /\ f.supersedes \in FactIds \cup {None}
      /\ f.valid_from \in Time /\ f.recorded_at \in Time
  BY DEF Fact
<1>4. PICK facts : facts = Append(p.facts, f)
  OBVIOUS
<1>5. PICK found : found = WithEntry(p.fact_lookup, f.id, Len(p.facts))
  OBVIOUS
<1>6. PICK delta : delta = [n \in NodeIndex |->
                 IF n \in {p.node_lookup[f.source], p.node_lookup[f.target]}
                 THEN Append(p.incident_delta[n], Len(p.facts)) ELSE p.incident_delta[n]]
  OBVIOUS
<1>7. PICK by : by = IF f.supersedes = None THEN p.supersessions
                     ELSE WithEntry(p.supersessions, f.supersedes, By(f))
  OBVIOUS
<1>8. ApplySupersession(p, f) = [p EXCEPT !.supersessions = by]
  <2>1. CASE f.supersedes = None
    BY <1>1, <1>7, <2>1 DEF ApplySupersession, Projection
  <2>2. CASE f.supersedes # None
    BY <1>1, <1>7, <2>2 DEF ApplySupersession, Projection, By, WithEntry
  <2>3. QED
    BY <2>1, <2>2
<1>9. q = [p EXCEPT !.supersessions = by, !.fact_lookup = found, !.incident_delta = delta,
                    !.facts = facts]
  BY <1>1, <1>4, <1>5, <1>6, <1>8 DEF InsertFact, Projection, WithEntry
<1>10. facts \in Seq(Fact) /\ found \in [FactIds -> Nat \cup {None}]
  BY <1>2, <1>3, <1>4, <1>5, AppendProperties DEF WithEntry
<1>11. delta \in [NodeIndex -> Seq(Nat)]
  <2>1. \A n \in NodeIndex : p.incident_delta[n] \in Seq(Nat)
    BY <1>2
  <2>2. \A n \in NodeIndex : Append(p.incident_delta[n], Len(p.facts)) \in Seq(Nat)
    BY <1>2, <2>1, AppendProperties
  <2>3. QED
    BY <1>6, <2>1, <2>2
<1>12. by \in [FactIds -> Supersession \cup {None}]
  <2>1. By(f) \in Supersession
    BY <1>3 DEF By, Supersession
  <2>2. QED
    BY <1>2, <1>3, <1>7, <2>1 DEF WithEntry
<1>13. q \in Projection
  BY <1>1, <1>9, <1>10, <1>11, <1>12 DEF Projection
<1> HIDE DEF q
<1>14. QED
  BY <1>1, <1>4, <1>5, <1>6, <1>7, <1>9, <1>13 DEF Projection, FactInserted, q

\* The supersession of a typed fact is no None.
LEMMA ByIsSupersession ==
  ASSUME NEW f \in Fact
  PROVE  /\ By(f) \in Supersession /\ By(f) # None
         /\ f.id \in FactIds /\ f.supersedes \in FactIds \cup {None}
         /\ f.source \in Entities /\ f.target \in Entities
         /\ f.valid_from \in Nat /\ f.recorded_at \in Nat /\ f.valid_until \in Nat \cup {None}
<1>1. /\ f.id \in FactIds /\ f.supersedes \in FactIds \cup {None}
      /\ f.source \in Entities /\ f.target \in Entities
      /\ f.valid_from \in Nat /\ f.recorded_at \in Nat /\ f.valid_until \in Nat \cup {None}
  BY DEF Fact, Time
<1>2. By(f) \in Supersession
  BY <1>1 DEF By, Supersession, Time
<1>3. By(f) # None
  BY <1>2, ProjectionAssumption
<1>4. QED
  BY <1>1, <1>2, <1>3

\* A fact that replaces one that no fact has replaced enters its supersession
\* beside the others.
LEMMA FactReplaces ==
  ASSUME NEW facts \in Seq(Fact), NEW new, NEW f \in Fact, FactAdded(facts, f, new),
         NEW by \in [FactIds -> Supersession \cup {None}], Replaced(facts, by),
         f.supersedes # None =>
           /\ by[f.supersedes] = None
           /\ \E k \in 1..Len(facts) : facts[k].id = f.supersedes,
         NEW then, then = IF f.supersedes = None THEN by ELSE WithEntry(by, f.supersedes, By(f))
  PROVE  Replaced(new, then)
<1>1. /\ Len(new) = Len(facts) + 1 /\ Len(facts) \in Nat /\ new[Len(facts) + 1] = f
      /\ \A k \in 1..Len(facts) : new[k] = facts[k] /\ facts[k] \in Fact
  BY DEF FactAdded
<1>2. f.supersedes \in FactIds \cup {None}
  BY ByIsSupersession
<1>3. /\ f.supersedes # None => then[f.supersedes] = By(f)
      /\ \A id \in FactIds : id # f.supersedes => then[id] = by[id]
  BY <1>2 DEF WithEntry
<1>4. \A k \in 1..Len(facts) : k \in 1..Len(new)
  BY <1>1
<1>5. ASSUME NEW k \in 1..Len(new), new[k].supersedes # None
      PROVE  then[new[k].supersedes] = By(new[k])
  <2>1. CASE k = Len(facts) + 1
    BY <1>1, <1>3, <1>5, <2>1
  <2>2. CASE k \in 1..Len(facts)
    <3>1. new[k] = facts[k] /\ facts[k] \in Fact
      BY <1>1, <2>2
    <3>2. by[facts[k].supersedes] = By(facts[k])
      BY <1>5, <2>2, <3>1 DEF Replaced
    <3>3. By(facts[k]) # None /\ facts[k].supersedes \in FactIds
      BY <1>5, <3>1, ByIsSupersession
    <3>4. facts[k].supersedes # f.supersedes
      BY <1>5, <3>1, <3>2, <3>3
    <3>5. QED
      BY <1>3, <3>1, <3>2, <3>3, <3>4
  <2>3. QED
    BY <1>1, <2>1, <2>2
<1>6. ASSUME NEW prior \in FactIds, then[prior] # None
      PROVE  /\ \E k \in 1..Len(new) : new[k].id = prior
             /\ \E k \in 1..Len(new) : new[k].supersedes = prior /\ then[prior] = By(new[k])
  <2>1. CASE prior = f.supersedes
    <3>1. f.supersedes # None
      BY <2>1, ProjectionAssumption
    <3>2. PICK k \in 1..Len(facts) : facts[k].id = f.supersedes
      BY <3>1
    <3>3. new[k].id = prior /\ k \in 1..Len(new)
      BY <1>1, <1>4, <2>1, <3>2
    <3>4. Len(facts) + 1 \in 1..Len(new)
      BY <1>1
    <3>5. new[Len(facts) + 1].supersedes = prior /\ then[prior] = By(new[Len(facts) + 1])
      BY <1>1, <1>3, <2>1, <3>1
    <3>6. QED
      BY <3>3, <3>4, <3>5
  <2>2. CASE prior # f.supersedes
    <3>1. then[prior] = by[prior] /\ by[prior] # None
      BY <1>3, <1>6, <2>2
    <3>2. PICK k \in 1..Len(facts) : facts[k].id = prior
      BY <3>1 DEF Replaced
    <3>3. PICK j \in 1..Len(facts) : facts[j].supersedes = prior /\ by[prior] = By(facts[j])
      BY <3>1 DEF Replaced
    <3>4. QED
      BY <1>1, <1>4, <3>1, <3>2, <3>3
  <2>3. QED
    BY <2>1, <2>2
<1>7. QED
  BY <1>5, <1>6 DEF Replaced

\* Recording a fact keeps a projection sound.
LEMMA InsertFactSound ==
  ASSUME NEW p, Sound(p), NEW f \in Fact, CanInsertFact(p, f)
  PROVE  Sound(InsertFact(p, f))
<1>1. PICK q : q = InsertFact(p, f)
  OBVIOUS
<1>2. FactInserted(p, f, q)
  BY <1>1, InsertFactFields
<1>3. /\ q \in Projection
      /\ q.nodes = p.nodes /\ q.node_lookup = p.node_lookup
      /\ q.retractions = p.retractions /\ q.incident_offsets = p.incident_offsets
      /\ q.facts = Append(p.facts, f)
      /\ q.fact_lookup = WithEntry(p.fact_lookup, f.id, Len(p.facts))
      /\ q.supersessions = IF f.supersedes = None THEN p.supersessions
                           ELSE WithEntry(p.supersessions, f.supersedes, By(f))
  BY <1>2 DEF FactInserted
<1>4. /\ p \in Projection /\ FactsIndexed(p.facts, p.fact_lookup)
      /\ FactsGrounded(p.facts, p.node_lookup) /\ Replaced(p.facts, p.supersessions)
      /\ Retracted(p.facts, p.retractions)
      /\ NodesIndexed(p.nodes, p.node_lookup) /\ Len(p.incident_offsets) = Len(p.nodes) + 1
  BY DEF Sound
<1>5. /\ p.facts \in Seq(Fact) /\ p.fact_lookup \in [FactIds -> Nat \cup {None}]
      /\ p.supersessions \in [FactIds -> Supersession \cup {None}]
  BY <1>4, ProjectionFields
<1>6. /\ ValidFact(f) /\ p.fact_lookup[f.id] = None
      /\ p.node_lookup[f.source] # None /\ p.node_lookup[f.target] # None
      /\ f.supersedes # None =>
           p.fact_lookup[f.supersedes] # None /\ p.supersessions[f.supersedes] = None
  BY DEF CanInsertFact
<1>7. FactAdded(p.facts, f, q.facts) /\ FactsIndexed(q.facts, q.fact_lookup)
  BY <1>3, <1>4, <1>5, <1>6, FactIndexed
<1>8. /\ Len(q.facts) = Len(p.facts) + 1 /\ Len(p.facts) \in Nat /\ q.facts[Len(p.facts) + 1] = f
      /\ \A k \in 1..Len(p.facts) : q.facts[k] = p.facts[k] /\ p.facts[k] \in Fact
  BY <1>7 DEF FactAdded
<1>9. FactsGrounded(q.facts, q.node_lookup)
  <2>1. ASSUME NEW k \in 1..Len(q.facts)
        PROVE  /\ ValidFact(q.facts[k])
               /\ p.node_lookup[q.facts[k].source] # None
               /\ p.node_lookup[q.facts[k].target] # None
    <3>1. CASE k = Len(p.facts) + 1
      BY <1>6, <1>8, <3>1
    <3>2. CASE k \in 1..Len(p.facts)
      BY <1>4, <1>8, <3>2 DEF FactsGrounded
    <3>3. QED
      BY <1>8, <3>1, <3>2
  <2>2. QED
    BY <1>3, <2>1 DEF FactsGrounded
<1>10. Replaced(q.facts, q.supersessions)
  <2>1. ASSUME f.supersedes # None
        PROVE  \E k \in 1..Len(p.facts) : p.facts[k].id = f.supersedes
    <3>1. f.supersedes \in FactIds
      BY <2>1, ByIsSupersession
    <3>2. /\ p.fact_lookup[f.supersedes] + 1 \in 1..Len(p.facts)
          /\ p.facts[p.fact_lookup[f.supersedes] + 1].id = f.supersedes
      BY <1>4, <1>6, <2>1, <3>1 DEF FactsIndexed
    <3>3. QED
      BY <3>2
  <2>2. QED
    BY <1>3, <1>4, <1>5, <1>6, <1>7, <2>1, FactReplaces
<1>11. Retracted(q.facts, q.retractions)
  <2>1. \A k \in 1..Len(p.facts) : k \in 1..Len(q.facts)
    BY <1>8
  <2>2. QED
    BY <1>3, <1>4, <1>8, <2>1 DEF Retracted
<1>12. Sound(q)
  BY <1>3, <1>4, <1>7, <1>9, <1>10, <1>11 DEF Sound
<1>13. QED
  BY <1>1, <1>12

\* Retracting a fact keeps a projection sound.
LEMMA ApplyRetractionSound ==
  ASSUME NEW p, Sound(p), NEW id \in FactIds, NEW until \in Time, NEW at \in Time,
         CanRetract(p, id, until)
  PROVE  Sound(ApplyRetraction(p, id, until, at))
<1>1. PICK q : q = ApplyRetraction(p, id, until, at)
  OBVIOUS
<1>2. PICK retraction : retraction = [valid_until |-> until, recorded_at |-> at]
  OBVIOUS
<1>3. PICK retractions : retractions = [p.retractions EXCEPT ![id] = retraction]
  OBVIOUS
<1>4. p \in Projection /\ Retracted(p.facts, p.retractions) /\ FactsIndexed(p.facts, p.fact_lookup)
  BY DEF Sound
<1>5. q = [p EXCEPT !.retractions = retractions]
  BY <1>1, <1>2, <1>3, <1>4 DEF ApplyRetraction, Projection
<1>6. retraction \in Retraction /\ retraction.valid_until = until
  BY <1>2 DEF Retraction
<1>7. /\ retractions \in [FactIds -> Retraction \cup {None}]
      /\ retractions[id] = retraction
      /\ \A x \in FactIds : x # id => retractions[x] = p.retractions[x]
  BY <1>3, <1>4, <1>6, ProjectionFields
<1>8. q \in Projection
  BY <1>4, <1>5, <1>7 DEF Projection
<1>9. /\ q.nodes = p.nodes /\ q.facts = p.facts /\ q.node_lookup = p.node_lookup
      /\ q.fact_lookup = p.fact_lookup /\ q.supersessions = p.supersessions
      /\ q.incident_offsets = p.incident_offsets
      /\ q.retractions = retractions
  BY <1>4, <1>5 DEF Projection
<1>10. Retracted(p.facts, retractions)
  <2> SUFFICES ASSUME NEW x \in FactIds, retractions[x] # None
               PROVE  \E k \in 1..Len(p.facts) :
                        p.facts[k].id = x /\ retractions[x].valid_until > p.facts[k].valid_from
    BY DEF Retracted
  <2>1. CASE x = id
    <3>1. /\ p.fact_lookup[id] # None
          /\ until > p.facts[p.fact_lookup[id] + 1].valid_from
      BY DEF CanRetract
    <3>2. /\ p.fact_lookup[id] + 1 \in 1..Len(p.facts)
          /\ p.facts[p.fact_lookup[id] + 1].id = id
      BY <1>4, <3>1 DEF FactsIndexed
    <3>3. QED
      BY <1>6, <1>7, <2>1, <3>1, <3>2
  <2>2. CASE x # id
    BY <1>4, <1>7, <2>2 DEF Retracted
  <2>3. QED
    BY <2>1, <2>2
<1>11. Sound(q)
  BY <1>8, <1>9, <1>10 DEF Sound
<1>12. QED
  BY <1>1, <1>11

\* Recording the position of the last event changes nothing else.
LEMMA PositionSound ==
  ASSUME NEW p, Sound(p), NEW position \in Nat
  PROVE  /\ Sound([p EXCEPT !.last_global_position = position])
         /\ [p EXCEPT !.last_global_position = position].last_global_position = position
<1>1. PICK q : q = [p EXCEPT !.last_global_position = position]
  OBVIOUS
<1>2. p \in Projection
  BY DEF Sound
<1>3. /\ q \in Projection /\ q.last_global_position = position
      /\ q.nodes = p.nodes /\ q.facts = p.facts /\ q.node_lookup = p.node_lookup
      /\ q.fact_lookup = p.fact_lookup /\ q.supersessions = p.supersessions
      /\ q.incident_offsets = p.incident_offsets /\ q.retractions = p.retractions
  BY <1>1, <1>2 DEF Projection
<1>4. Sound(q)
  BY <1>3 DEF Sound
<1>5. QED
  BY <1>1, <1>3, <1>4

\* The three kinds of events.
LEMMA PayloadKinds ==
  ASSUME NEW payload \in MemoryEvent
  PROVE  \/ payload.kind = "NodeUpserted" /\ payload.id \in Entities
         \/ payload.kind = "FactRecorded" /\ payload.fact \in Fact
         \/ /\ payload.kind = "FactRetracted"
            /\ payload.fact_id \in FactIds /\ payload.valid_until \in Time
BY DEF MemoryEvent

\* What apply does for each of them, before it notes the position.
Outcome(p, payload, at, position, q) ==
  /\ Sound(q)
  /\ Apply(p, payload, at, position) = [q EXCEPT !.last_global_position = position]
  /\ \/ /\ payload.kind = "NodeUpserted" /\ payload.id \in Entities
        /\ q = InsertNode(p, [id |-> payload.id, recorded_at |-> at, position |-> position])
     \/ /\ payload.kind = "FactRecorded" /\ payload.fact \in Fact
        /\ payload.fact.recorded_at = at /\ CanInsertFact(p, payload.fact)
        /\ q = InsertFact(p, payload.fact)
     \/ /\ payload.kind = "FactRetracted" /\ payload.fact_id \in FactIds
        /\ payload.valid_until \in Time /\ CanRetract(p, payload.fact_id, payload.valid_until)
        /\ q = ApplyRetraction(p, payload.fact_id, payload.valid_until, at)

\* An accepted event is applied by the insert or the retraction of its kind.
LEMMA ApplyCases ==
  ASSUME NEW p, Sound(p), NEW payload \in MemoryEvent, NEW at \in Time, NEW position \in Nat,
         Accepts(p, payload, at)
  PROVE  \E q : Outcome(p, payload, at, position, q)
<1>1. CASE payload.kind = "NodeUpserted" /\ payload.id \in Entities
  <2>1. PICK r : r = [id |-> payload.id, recorded_at |-> at, position |-> position]
    OBVIOUS
  <2>2. r \in NodeRevision
    BY <1>1, <2>1 DEF NodeRevision
  <2>3. Apply(p, payload, at, position) = [InsertNode(p, r) EXCEPT !.last_global_position = position]
    BY <1>1, <2>1 DEF Apply
  <2>4. Sound(InsertNode(p, r))
    BY <2>2, InsertNodeSound
  <2>5. Outcome(p, payload, at, position, InsertNode(p, r))
    BY <1>1, <2>1, <2>3, <2>4 DEF Outcome
  <2>6. QED
    BY <2>5
<1>2. CASE payload.kind = "FactRecorded" /\ payload.fact \in Fact
  <2>1. payload.fact.recorded_at = at /\ CanInsertFact(p, payload.fact)
    BY <1>2 DEF Accepts
  <2>2. Apply(p, payload, at, position)
          = [InsertFact(p, payload.fact) EXCEPT !.last_global_position = position]
    BY <1>2 DEF Apply
  <2>3. Sound(InsertFact(p, payload.fact))
    BY <1>2, <2>1, InsertFactSound
  <2>4. Outcome(p, payload, at, position, InsertFact(p, payload.fact))
    BY <1>2, <2>1, <2>2, <2>3 DEF Outcome
  <2>5. QED
    BY <2>4
<1>3. CASE /\ payload.kind = "FactRetracted"
           /\ payload.fact_id \in FactIds /\ payload.valid_until \in Time
  <2>1. CanRetract(p, payload.fact_id, payload.valid_until)
    BY <1>3 DEF Accepts
  <2> DEFINE q == ApplyRetraction(p, payload.fact_id, payload.valid_until, at)
  <2>2. Apply(p, payload, at, position) = [q EXCEPT !.last_global_position = position]
    BY <1>3 DEF Apply
  <2>3. Sound(q)
    BY <1>3, <2>1, ApplyRetractionSound
  <2>4. Outcome(p, payload, at, position, q)
    BY <1>3, <2>1, <2>2, <2>3 DEF Outcome
  <2>5. QED
    BY <2>4
<1>4. QED
  BY <1>1, <1>2, <1>3, PayloadKinds

\* apply keeps a projection sound.
LEMMA ApplySound ==
  ASSUME NEW p, Sound(p), NEW payload \in MemoryEvent, NEW at \in Time, NEW position \in Nat,
         Accepts(p, payload, at)
  PROVE  /\ Sound(Apply(p, payload, at, position))
         /\ Apply(p, payload, at, position).last_global_position = position
<1>1. PICK q : Outcome(p, payload, at, position, q)
  BY ApplyCases
<1>2. Sound(q) /\ Apply(p, payload, at, position) = [q EXCEPT !.last_global_position = position]
  BY <1>1 DEF Outcome
<1>3. QED
  BY <1>2, PositionSound

-----------------------------------------------------------------------------
\* Projections that agree in the canonical fields.
Agree(p, q) ==
  /\ p.nodes = q.nodes /\ p.facts = q.facts
  /\ p.supersessions = q.supersessions /\ p.retractions = q.retractions

\* Two projections have one snapshot if and only if they agree.
LEMMA CanonicalFields ==
  ASSUME NEW p, NEW q
  PROVE  Canonical(p) = Canonical(q)
           <=> Agree(p, q) /\ p.last_global_position = q.last_global_position
BY DEF Canonical, Agree

\* The lookups are determined by what they index.
LEMMA LookupsDetermined ==
  ASSUME NEW p, Sound(p), NEW q, Sound(q), Agree(p, q)
  PROVE  p.node_lookup = q.node_lookup /\ p.fact_lookup = q.fact_lookup
<1>1. /\ p \in Projection /\ q \in Projection
      /\ NodesIndexed(p.nodes, p.node_lookup) /\ NodesIndexed(p.nodes, q.node_lookup)
      /\ FactsIndexed(p.facts, p.fact_lookup) /\ FactsIndexed(p.facts, q.fact_lookup)
  BY DEF Sound, Agree
<1>2. /\ p.node_lookup \in [Entities -> Nat \cup {None}]
      /\ q.node_lookup \in [Entities -> Nat \cup {None}]
      /\ p.fact_lookup \in [FactIds -> Nat \cup {None}]
      /\ q.fact_lookup \in [FactIds -> Nat \cup {None}]
  BY <1>1, ProjectionFields
<1>3. ASSUME NEW nodes, NEW a \in [Entities -> Nat \cup {None}], NEW b \in [Entities -> Nat \cup {None}],
             NodesIndexed(nodes, a), NodesIndexed(nodes, b), NEW e \in Entities, a[e] # None
      PROVE  b[e] = a[e]
  <2>1. a[e] \in Nat /\ a[e] + 1 \in 1..Len(nodes) /\ nodes[a[e] + 1][1].id = e
    BY <1>3 DEF NodesIndexed
  <2>2. b[e] = (a[e] + 1) - 1
    BY <1>3, <2>1 DEF NodesIndexed
  <2>3. QED
    BY <2>1, <2>2
<1>4. ASSUME NEW facts, NEW a \in [FactIds -> Nat \cup {None}], NEW b \in [FactIds -> Nat \cup {None}],
             FactsIndexed(facts, a), FactsIndexed(facts, b), NEW id \in FactIds, a[id] # None
      PROVE  b[id] = a[id]
  <2>1. a[id] \in Nat /\ a[id] + 1 \in 1..Len(facts) /\ facts[a[id] + 1].id = id
    BY <1>4 DEF FactsIndexed
  <2>2. b[id] = (a[id] + 1) - 1
    BY <1>4, <2>1 DEF FactsIndexed
  <2>3. QED
    BY <2>1, <2>2
<1>5. \A e \in Entities : p.node_lookup[e] = q.node_lookup[e]
  BY <1>1, <1>2, <1>3
<1>6. \A id \in FactIds : p.fact_lookup[id] = q.fact_lookup[id]
  BY <1>1, <1>2, <1>4
<1>7. p.node_lookup = q.node_lookup
  BY <1>2, <1>5
<1>8. p.fact_lookup = q.fact_lookup
  BY <1>2, <1>6
<1>9. QED
  BY <1>7, <1>8

\* Projections with the same canonical fields accept the same events and are
\* changed by them in the same way.
LEMMA ApplySimulates ==
  ASSUME NEW p, Sound(p), NEW q, Sound(q), Agree(p, q),
         NEW payload \in MemoryEvent, NEW at \in Time, NEW position \in Nat,
         Accepts(p, payload, at)
  PROVE  /\ Accepts(q, payload, at)
         /\ Canonical(Apply(p, payload, at, position)) = Canonical(Apply(q, payload, at, position))
<1>1. p.node_lookup = q.node_lookup /\ p.fact_lookup = q.fact_lookup
  BY LookupsDetermined
<1>2. p \in Projection /\ q \in Projection
  BY DEF Sound
<1>3. \A f : CanInsertFact(p, f) <=> CanInsertFact(q, f)
  BY <1>1 DEF CanInsertFact, Agree
<1>4. \A id, until : CanRetract(p, id, until) <=> CanRetract(q, id, until)
  BY <1>1 DEF CanRetract, Agree
<1>5. Accepts(q, payload, at)
  <2>1. CASE payload.kind = "NodeUpserted"
    BY <2>1 DEF Accepts
  <2>2. CASE payload.kind = "FactRecorded"
    BY <1>3, <2>2 DEF Accepts
  <2>3. CASE payload.kind = "FactRetracted"
    BY <1>4, <2>3 DEF Accepts
  <2>4. QED
    BY <2>1, <2>2, <2>3, PayloadKinds
<1>6. PICK p1 : Outcome(p, payload, at, position, p1)
  BY ApplyCases
<1>7. PICK q1 : Outcome(q, payload, at, position, q1)
  BY <1>5, ApplyCases
<1>8. Agree(p1, q1)
  <2>1. CASE payload.kind = "NodeUpserted" /\ payload.id \in Entities
    <3>1. PICK r : r = [id |-> payload.id, recorded_at |-> at, position |-> position]
      OBVIOUS
    <3>2. r \in NodeRevision
      BY <2>1, <3>1 DEF NodeRevision
    <3>3. p1 = InsertNode(p, r) /\ q1 = InsertNode(q, r)
      BY <1>6, <1>7, <2>1, <3>1 DEF Outcome
    <3>4. NodeInserted(p, r, p1) /\ NodeInserted(q, r, q1)
      BY <3>2, <3>3, InsertNodeFields
    <3>5. QED
      BY <1>1, <3>4 DEF NodeInserted, Agree
  <2>2. CASE payload.kind = "FactRecorded" /\ payload.fact \in Fact
    <3>1. p1 = InsertFact(p, payload.fact) /\ q1 = InsertFact(q, payload.fact)
      BY <1>6, <1>7, <2>2 DEF Outcome
    <3>2. FactInserted(p, payload.fact, p1) /\ FactInserted(q, payload.fact, q1)
      BY <2>2, <3>1, InsertFactFields
    <3>3. QED
      BY <1>1, <3>2 DEF FactInserted, Agree
  <2>3. CASE payload.kind = "FactRetracted"
    <3>1. /\ p1 = ApplyRetraction(p, payload.fact_id, payload.valid_until, at)
          /\ q1 = ApplyRetraction(q, payload.fact_id, payload.valid_until, at)
      BY <1>6, <1>7, <2>3 DEF Outcome
    <3>2. QED
      BY <1>2, <3>1 DEF ApplyRetraction, Agree, Projection
  <2>4. QED
    BY <2>1, <2>2, <2>3, PayloadKinds
<1>9. PICK p2, q2 : /\ p2 = [p1 EXCEPT !.last_global_position = position]
                    /\ q2 = [q1 EXCEPT !.last_global_position = position]
  OBVIOUS
<1>10. p1 \in Projection /\ q1 \in Projection
  BY <1>6, <1>7 DEF Outcome, Sound
<1>11. Agree(p2, q2) /\ p2.last_global_position = q2.last_global_position
  BY <1>8, <1>9, <1>10 DEF Agree, Projection
<1>12. Canonical(p2) = Canonical(q2)
  BY <1>11, CanonicalFields
<1>13. Apply(p, payload, at, position) = p2 /\ Apply(q, payload, at, position) = q2
  BY <1>6, <1>7, <1>9 DEF Outcome
<1>14. QED
  BY <1>5, <1>12, <1>13

-----------------------------------------------------------------------------
\* A lookup of one place finds it, a lookup of none finds nothing.
LEMMA LookupPlaces ==
  ASSUME NEW S
  PROVE  /\ S = {} => Lookup(S) = None
         /\ \A x \in Int : S = {x} => Lookup(S) = x - 1
<1>1. S = {} => Lookup(S) = None
  BY DEF Lookup
<1>2. ASSUME NEW x \in Int, S = {x} PROVE Lookup(S) = x - 1
  <2>1. x <= x
    OBVIOUS
  <2>2. Min({x}) = x
    BY <2>1, Zenon DEF Min
  <2>3. QED
    BY <1>2, <2>2 DEF Lookup
<1>3. QED
  BY <1>1, <1>2

\* The rebuilt lookups are the ones that were kept.
LEMMA NodeAtExact ==
  ASSUME NEW nodes \in Seq(Seq(NodeRevision)), NEW lookup \in [Entities -> Nat \cup {None}],
         NodesIndexed(nodes, lookup), NEW e \in Entities
  PROVE  NodeAt(nodes, e) = lookup[e]
<1>1. PICK S : S = {n \in DOMAIN nodes : nodes[n][1].id = e}
  OBVIOUS
<1>2. DOMAIN nodes = 1..Len(nodes) /\ Len(nodes) \in Nat
  BY LenProperties
<1>3. NodeAt(nodes, e) = Lookup(S)
  BY <1>1 DEF NodeAt
<1>4. CASE lookup[e] = None
  <2>1. ASSUME NEW n \in S PROVE FALSE
    <3>1. n \in 1..Len(nodes) /\ nodes[n][1].id = e
      BY <1>1, <1>2
    <3>2. lookup[e] = n - 1
      BY <3>1 DEF NodesIndexed
    <3>3. n - 1 \in Int
      BY <1>2, <3>1
    <3>4. QED
      BY <1>4, <3>2, <3>3, NoneAssumption
  <2>2. S = {}
    BY <2>1
  <2>3. QED
    BY <1>3, <1>4, <2>2, LookupPlaces
<1>5. CASE lookup[e] # None
  <2>1. PICK x : x = lookup[e] + 1
    OBVIOUS
  <2>2. x \in 1..Len(nodes) /\ nodes[x][1].id = e /\ lookup[e] \in Nat
    BY <1>5, <2>1 DEF NodesIndexed
  <2>3. ASSUME NEW n \in S PROVE n = x
    <3>1. n \in 1..Len(nodes) /\ nodes[n][1].id = e
      BY <1>1, <1>2
    <3>2. lookup[e] = n - 1
      BY <3>1 DEF NodesIndexed
    <3>3. QED
      BY <1>2, <2>1, <3>1, <3>2
  <2>4. S = {x}
    BY <1>1, <1>2, <2>2, <2>3
  <2>5. Lookup(S) = x - 1
    BY <1>2, <2>2, <2>4, LookupPlaces
  <2>6. x - 1 = lookup[e]
    BY <2>1, <2>2
  <2>7. QED
    BY <1>3, <2>5, <2>6
<1>6. QED
  BY <1>4, <1>5

\* The lookup of facts finds what a search of the facts finds.
LEMMA FactAtExact ==
  ASSUME NEW facts \in Seq(Fact), NEW lookup \in [FactIds -> Nat \cup {None}],
         FactsIndexed(facts, lookup), NEW id \in FactIds
  PROVE  FactAt(facts, id) = lookup[id]
<1>1. PICK S : S = {k \in DOMAIN facts : facts[k].id = id}
  OBVIOUS
<1>2. DOMAIN facts = 1..Len(facts) /\ Len(facts) \in Nat
  BY LenProperties
<1>3. FactAt(facts, id) = Lookup(S)
  BY <1>1 DEF FactAt
<1>4. CASE lookup[id] = None
  <2>1. ASSUME NEW k \in S PROVE FALSE
    <3>1. k \in 1..Len(facts) /\ facts[k].id = id
      BY <1>1, <1>2
    <3>2. lookup[id] = k - 1
      BY <3>1 DEF FactsIndexed
    <3>3. k - 1 \in Int
      BY <1>2, <3>1
    <3>4. QED
      BY <1>4, <3>2, <3>3, NoneAssumption
  <2>2. S = {}
    BY <2>1
  <2>3. QED
    BY <1>3, <1>4, <2>2, LookupPlaces
<1>5. CASE lookup[id] # None
  <2>1. PICK x : x = lookup[id] + 1
    OBVIOUS
  <2>2. x \in 1..Len(facts) /\ facts[x].id = id /\ lookup[id] \in Nat
    BY <1>5, <2>1 DEF FactsIndexed
  <2>3. ASSUME NEW k \in S PROVE k = x
    <3>1. k \in 1..Len(facts) /\ facts[k].id = id
      BY <1>1, <1>2
    <3>2. lookup[id] = k - 1
      BY <3>1 DEF FactsIndexed
    <3>3. QED
      BY <1>2, <2>1, <3>1, <3>2
  <2>4. S = {x}
    BY <1>1, <1>2, <2>2, <2>3
  <2>5. Lookup(S) = x - 1
    BY <1>2, <2>2, <2>4, LookupPlaces
  <2>6. x - 1 = lookup[id]
    BY <2>1, <2>2
  <2>7. QED
    BY <1>3, <2>5, <2>6
<1>6. QED
  BY <1>4, <1>5

\* The checks of the decoder let every sound projection through.
LEMMA SoundConsistent ==
  ASSUME NEW p, Sound(p)
  PROVE  Consistent(Canonical(p))
<1>1. PICK nodes, facts, by, retractions :
        /\ nodes = p.nodes /\ facts = p.facts
        /\ by = p.supersessions /\ retractions = p.retractions
  OBVIOUS
<1>2. PICK data : data = Canonical(p)
  OBVIOUS
<1>3. /\ data.nodes = nodes /\ data.facts = facts
      /\ data.supersessions = by /\ data.retractions = retractions
  BY <1>1, <1>2 DEF Canonical
<1>4. /\ p \in Projection /\ NodesIndexed(nodes, p.node_lookup)
      /\ FactsIndexed(facts, p.fact_lookup) /\ FactsGrounded(facts, p.node_lookup)
      /\ Replaced(facts, by) /\ Retracted(facts, retractions)
  BY <1>1 DEF Sound
<1>5. /\ nodes \in Seq(Seq(NodeRevision)) /\ facts \in Seq(Fact)
      /\ p.node_lookup \in [Entities -> Nat \cup {None}]
      /\ p.fact_lookup \in [FactIds -> Nat \cup {None}]
  BY <1>1, <1>4, ProjectionFields
<1>6. /\ DOMAIN nodes = 1..Len(nodes) /\ DOMAIN facts = 1..Len(facts)
      /\ Len(nodes) \in Nat /\ Len(facts) \in Nat
      /\ \A n \in 1..Len(nodes) : nodes[n] \in Seq(NodeRevision)
      /\ \A k \in 1..Len(facts) : facts[k] \in Fact
  BY <1>5, LenProperties, ElementOfSeq
<1>7. ASSUME NEW n \in DOMAIN nodes
      PROVE  /\ \A r \in DOMAIN nodes[n] : nodes[n][r].id = nodes[n][1].id
             /\ \A m \in 1..(n - 1) : nodes[m][1].id # nodes[n][1].id
  <2>1. n \in 1..Len(nodes)
    BY <1>6
  <2>2. DOMAIN nodes[n] = 1..Len(nodes[n])
    BY <1>6, <2>1, LenProperties
  <2>3. \A r \in 1..Len(nodes[n]) : nodes[n][r].id = nodes[n][1].id
    BY <1>4, <2>1 DEF NodesIndexed
  <2>4. ASSUME NEW m \in 1..(n - 1), nodes[m][1].id = nodes[n][1].id PROVE FALSE
    <3>1. m \in 1..Len(nodes) /\ m # n /\ m \in Int /\ n \in Int
      BY <1>6, <2>1
    <3>2. /\ p.node_lookup[nodes[m][1].id] = m - 1
          /\ p.node_lookup[nodes[n][1].id] = n - 1
      BY <1>4, <2>1, <3>1 DEF NodesIndexed
    <3>3. m - 1 = n - 1
      BY <2>4, <3>2
    <3>4. QED
      BY <3>1, <3>3
  <2>5. QED
    BY <2>2, <2>3, <2>4
<1>8. PICK ids : ids = {nodes[n][1].id : n \in DOMAIN nodes}
  OBVIOUS
<1>9. ASSUME NEW e \in Entities, p.node_lookup[e] # None PROVE e \in ids
  <2>1. /\ p.node_lookup[e] + 1 \in 1..Len(nodes)
        /\ nodes[p.node_lookup[e] + 1][1].id = e
    BY <1>4, <1>9 DEF NodesIndexed
  <2>2. QED
    BY <1>6, <1>8, <2>1
<1>10. ASSUME NEW k \in DOMAIN facts
       PROVE  /\ ValidFact(facts[k])
              /\ {facts[k].source, facts[k].target} \subseteq ids
              /\ \A j \in 1..(k - 1) : facts[j].id # facts[k].id
  <2>1. k \in 1..Len(facts) /\ facts[k] \in Fact
    BY <1>6
  <2>2. /\ ValidFact(facts[k])
        /\ p.node_lookup[facts[k].source] # None /\ p.node_lookup[facts[k].target] # None
    BY <1>4, <2>1 DEF FactsGrounded
  <2>3. facts[k].source \in Entities /\ facts[k].target \in Entities
    BY <2>1, ByIsSupersession
  <2>4. facts[k].source \in ids /\ facts[k].target \in ids
    BY <1>9, <2>2, <2>3
  <2>5. ASSUME NEW j \in 1..(k - 1), facts[j].id = facts[k].id PROVE FALSE
    <3>1. j \in 1..Len(facts) /\ j # k /\ j \in Int /\ k \in Int
      BY <1>6, <2>1
    <3>2. p.fact_lookup[facts[j].id] = j - 1 /\ p.fact_lookup[facts[k].id] = k - 1
      BY <1>4, <2>1, <3>1 DEF FactsIndexed
    <3>3. j - 1 = k - 1
      BY <2>5, <3>2
    <3>4. QED
      BY <3>1, <3>3
  <2>6. QED
    BY <2>2, <2>4, <2>5
<1>11. ASSUME NEW prior \in FactIds, by[prior] # None
       PROVE  /\ \E k \in DOMAIN facts : facts[k].id = prior
              /\ \E k \in DOMAIN facts :
                   /\ facts[k].id = by[prior].replacement
                   /\ facts[k].supersedes = prior
                   /\ facts[k].valid_from = by[prior].valid_from
                   /\ facts[k].recorded_at = by[prior].recorded_at
  <2>1. PICK k \in 1..Len(facts) : facts[k].id = prior
    BY <1>4, <1>11 DEF Replaced
  <2>2. PICK j \in 1..Len(facts) : facts[j].supersedes = prior /\ by[prior] = By(facts[j])
    BY <1>4, <1>11 DEF Replaced
  <2>3. /\ By(facts[j]).replacement = facts[j].id
        /\ By(facts[j]).valid_from = facts[j].valid_from
        /\ By(facts[j]).recorded_at = facts[j].recorded_at
    BY DEF By
  <2>4. QED
    BY <1>6, <2>1, <2>2, <2>3
<1>12. ASSUME NEW id \in FactIds, retractions[id] # None
       PROVE  \E k \in DOMAIN facts :
                facts[k].id = id /\ retractions[id].valid_until > facts[k].valid_from
  BY <1>4, <1>6, <1>12 DEF Retracted
<1>13. Consistent(data)
  BY <1>3, <1>7, <1>8, <1>10, <1>11, <1>12 DEF Consistent
<1>14. QED
  BY <1>2, <1>13

-----------------------------------------------------------------------------
\* The three passes of the counting sort as recursions.  d[k] counts the facts
\* among the first k that touch node n.
Counts(d, ends, n) ==
  /\ d[0] = 0
  /\ \A k \in 1..Len(ends) : d[k] = d[k - 1] + (IF n \in ends[k] THEN 1 ELSE 0)
  /\ Degree(ends, n) = d[Len(ends)]

\* Counting the facts of a node runs through all facts.
LEMMA DegreeRecursion ==
  ASSUME NEW ends, Len(ends) \in Nat, NEW n
  PROVE  \E d : Counts(d, ends, n)
<1> DEFINE Step(x, k) == x + (IF n \in ends[k] THEN 1 ELSE 0)
           Rec(c, m) == c = [k \in 0..m |-> IF k = 0 THEN 0
                                            ELSE c[k - 1] + (IF n \in ends[k] THEN 1 ELSE 0)]
           N == {m \in Nat : \E c : Rec(c, m)}
<1>1. 0 \in N
  <2>1. Rec([k \in 0..0 |-> 0], 0)
    OBVIOUS
  <2>2. QED
    BY <2>1
<1>2. ASSUME NEW m \in Nat, m \in N PROVE m + 1 \in N
  <2>1. PICK c : Rec(c, m)
    BY <1>2
  <2> DEFINE d == [k \in 0..(m + 1) |-> IF k = m + 1 THEN Step(c[m], m + 1) ELSE c[k]]
  <2>2. ASSUME NEW k \in 0..(m + 1)
        PROVE  d[k] = IF k = 0 THEN 0 ELSE Step(d[k - 1], k)
    <3>1. CASE k = m + 1
      <4>1. k # 0 /\ k - 1 = m /\ m \in 0..(m + 1) /\ m # m + 1
        BY <3>1
      <4>2. d[k - 1] = c[m] /\ d[k] = Step(c[m], m + 1)
        BY <3>1, <4>1
      <4>3. QED
        BY <3>1, <4>1, <4>2
    <3>2. CASE k = 0
      <4>1. c[0] = 0 /\ d[0] = c[0]
        BY <2>1
      <4>2. QED
        BY <3>2, <4>1
    <3>3. CASE k # m + 1 /\ k # 0
      <4>1. k \in 0..m /\ k - 1 \in 0..(m + 1) /\ k - 1 # m + 1
        BY <3>3
      <4>2. d[k] = c[k] /\ d[k - 1] = c[k - 1]
        BY <3>3, <4>1
      <4> HIDE DEF d
      <4>3. c[k] = Step(c[k - 1], k)
        BY <2>1, <3>3, <4>1
      <4>4. QED
        BY <3>3, <4>2, <4>3
    <3>4. QED
      BY <3>1, <3>2, <3>3
  <2>3. d = [k \in 0..(m + 1) |-> d[k]]
    OBVIOUS
  <2> HIDE DEF d
  <2>4. Rec(d, m + 1)
    BY <2>2, <2>3
  <2>5. m + 1 \in Nat
    OBVIOUS
  <2> HIDE DEF Rec
  <2>6. QED
    BY <2>4, <2>5, Zenon
<1> HIDE DEF N
<1>3. Len(ends) \in N
  BY <1>1, <1>2, InductionOnNat
<1>4. \E c : Rec(c, Len(ends))
  BY <1>3 DEF N
<1>5. Rec(CHOOSE c : Rec(c, Len(ends)), Len(ends))
  BY <1>4, Zenon
<1>6. Degree(ends, n) = (CHOOSE c : Rec(c, Len(ends)))[Len(ends)]
  BY Zenon DEF Degree
<1> HIDE DEF Rec
<1>7. PICK c : Rec(c, Len(ends)) /\ Degree(ends, n) = c[Len(ends)]
  BY <1>5, <1>6, Zenon
<1>8. c = [k \in 0..Len(ends) |-> IF k = 0 THEN 0 ELSE Step(c[k - 1], k)]
  BY <1>7 DEF Rec
<1> HIDE DEF Step
<1>9. c[0] = 0 /\ \A k \in 1..Len(ends) : c[k] = Step(c[k - 1], k)
  <2>1. \A k \in 1..Len(ends) : k \in 0..Len(ends) /\ k # 0
    OBVIOUS
  <2>2. QED
    BY <1>8, <2>1
<1>10. Counts(c, ends, n)
  BY <1>7, <1>9 DEF Counts, Step
<1>11. QED
  BY <1>10

\* Counts are natural, do not fall, and rise at exactly the touching facts.
LEMMA CountsGrow ==
  ASSUME NEW ends, Len(ends) \in Nat, NEW n, NEW d, Counts(d, ends, n)
  PROVE  /\ \A k \in 0..Len(ends) : d[k] \in Nat
         /\ \A j, k \in 0..Len(ends) : j <= k => d[j] <= d[k]
         /\ Degree(ends, n) \in Nat
<1> DEFINE Good(k) == \A j \in 0..k : d[j] \in Nat /\ d[j] <= d[k]
           S == {k \in Nat : Good(k)}
<1>1. 0 \in S
  BY DEF Counts
<1>2. \A k \in 0..(Len(ends) - 1) : k \in S => k + 1 \in S
  <2> SUFFICES ASSUME NEW k \in 0..(Len(ends) - 1), Good(k) PROVE Good(k + 1)
    OBVIOUS
  <2>1. k + 1 \in 1..Len(ends) /\ (k + 1) - 1 = k /\ k \in Nat /\ k \in 0..k
    OBVIOUS
  <2>2. d[k + 1] = d[k] + (IF n \in ends[k + 1] THEN 1 ELSE 0)
    BY <2>1 DEF Counts
  <2>3. d[k] \in Nat /\ d[k + 1] \in Nat /\ d[k] <= d[k + 1]
    BY <2>1, <2>2
  <2>4. ASSUME NEW j \in 0..(k + 1) PROVE d[j] \in Nat /\ d[j] <= d[k + 1]
    <3>1. CASE j = k + 1
      BY <2>3, <3>1
    <3>2. CASE j \in 0..k
      <4>1. d[j] \in Nat /\ d[j] <= d[k]
        BY <3>2
      <4>2. QED
        BY <2>3, <4>1
    <3>3. QED
      BY <2>1, <3>1, <3>2
  <2>5. QED
    BY <2>4
<1> HIDE DEF S
<1>3. \A k \in 0..Len(ends) : k \in S
  BY <1>1, <1>2, InductionUpTo
<1>4. ASSUME NEW k \in 0..Len(ends) PROVE \A j \in 0..k : d[j] \in Nat /\ d[j] <= d[k]
  BY <1>3 DEF S
<1> HIDE DEF Good
<1>5. \A k \in 0..Len(ends) : d[k] \in Nat
  <2>1. \A k \in 0..Len(ends) : k \in 0..k
    OBVIOUS
  <2>2. QED
    BY <1>4, <2>1
<1>6. \A j, k \in 0..Len(ends) : j <= k => d[j] <= d[k]
  <2>1. \A j, k \in 0..Len(ends) : j <= k => j \in 0..k
    OBVIOUS
  <2>2. QED
    BY <1>4, <2>1
<1>7. Degree(ends, n) \in Nat
  BY <1>5 DEF Counts
<1>8. QED
  BY <1>5, <1>6, <1>7

\* The blocks of the nodes follow one another, each as long as its degree.
Blocks(o, nodes, ends) ==
  /\ o \in Seq(Nat) /\ Len(o) = nodes + 1
  /\ o[1] = 0
  /\ \A n \in 1..nodes : o[n + 1] = o[n] + Degree(ends, n - 1)

\* Summing the degrees gives every node a block as long as its degree.
LEMMA OffsetsRecursion ==
  ASSUME NEW ends, Len(ends) \in Nat, NEW nodes \in Nat
  PROVE  Blocks(Offsets(nodes, ends), nodes, ends)
<1> DEFINE Rec(c, m) == c = [n \in 1..(m + 1) |-> IF n = 1 THEN 0
                                                  ELSE c[n - 1] + Degree(ends, n - 2)]
           N == {m \in Nat : \E c : Rec(c, m)}
<1>1. 0 \in N
  <2>1. Rec([n \in 1..(0 + 1) |-> 0], 0)
    OBVIOUS
  <2>2. QED
    BY <2>1
<1>2. ASSUME NEW m \in Nat, m \in N PROVE m + 1 \in N
  <2>1. PICK c : Rec(c, m)
    BY <1>2
  <2> DEFINE d == [n \in 1..((m + 1) + 1) |->
                     IF n = m + 2 THEN c[m + 1] + Degree(ends, m) ELSE c[n]]
  <2>2. ASSUME NEW n \in 1..((m + 1) + 1)
        PROVE  d[n] = IF n = 1 THEN 0 ELSE d[n - 1] + Degree(ends, n - 2)
    <3>1. CASE n = m + 2
      <4>1. /\ n # 1 /\ n - 1 = m + 1 /\ n - 2 = m
            /\ m + 1 \in 1..((m + 1) + 1) /\ m + 1 # m + 2
        BY <3>1
      <4>2. d[n - 1] = c[m + 1] /\ d[n] = c[m + 1] + Degree(ends, m)
        BY <3>1, <4>1
      <4>3. QED
        BY <3>1, <4>1, <4>2
    <3>2. CASE n = 1
      <4>1. 1 \in 1..(m + 1) /\ 1 # m + 2
        OBVIOUS
      <4>2. c[1] = 0 /\ d[1] = c[1]
        BY <2>1, <4>1
      <4>3. QED
        BY <3>2, <4>2
    <3>3. CASE n # m + 2 /\ n # 1
      <4>1. n \in 1..(m + 1) /\ n - 1 \in 1..((m + 1) + 1) /\ n - 1 # m + 2
        BY <3>3
      <4>2. d[n] = c[n] /\ d[n - 1] = c[n - 1]
        BY <3>3, <4>1
      <4> HIDE DEF d
      <4>3. c[n] = c[n - 1] + Degree(ends, n - 2)
        BY <2>1, <3>3, <4>1
      <4>4. QED
        BY <3>3, <4>2, <4>3
    <3>4. QED
      BY <3>1, <3>2, <3>3
  <2>3. d = [n \in 1..((m + 1) + 1) |-> d[n]]
    OBVIOUS
  <2> HIDE DEF d
  <2>4. Rec(d, m + 1)
    BY <2>2, <2>3
  <2>5. m + 1 \in Nat
    OBVIOUS
  <2> HIDE DEF Rec
  <2>6. QED
    BY <2>4, <2>5, Zenon
<1> HIDE DEF N
<1>3. nodes \in N
  BY <1>1, <1>2, InductionOnNat
<1>4. \E c : Rec(c, nodes)
  BY <1>3 DEF N
<1>5. Rec(CHOOSE c : Rec(c, nodes), nodes)
  BY <1>4, Zenon
<1>6. Offsets(nodes, ends) = (CHOOSE c : Rec(c, nodes))
  BY Zenon DEF Offsets
<1> HIDE DEF Rec
<1>7. PICK o : Rec(o, nodes) /\ Offsets(nodes, ends) = o
  BY <1>5, <1>6, Zenon
<1>8. o = [n \in 1..(nodes + 1) |-> IF n = 1 THEN 0 ELSE o[n - 1] + Degree(ends, n - 2)]
  BY <1>7 DEF Rec
<1>9. o[1] = 0
  <2>1. 1 \in 1..(nodes + 1)
    OBVIOUS
  <2>2. QED
    BY <1>8, <2>1
<1>10. \A n \in 1..nodes : o[n + 1] = o[n] + Degree(ends, n - 1)
  <2> SUFFICES ASSUME NEW n \in 1..nodes PROVE o[n + 1] = o[n] + Degree(ends, n - 1)
    OBVIOUS
  <2>1. n + 1 \in 1..(nodes + 1) /\ n + 1 # 1 /\ (n + 1) - 1 = n /\ (n + 1) - 2 = n - 1
    OBVIOUS
  <2>2. o[n + 1] = o[(n + 1) - 1] + Degree(ends, (n + 1) - 2)
    BY <1>8, <2>1
  <2>3. QED
    BY <2>1, <2>2
<1>11. \A n : Degree(ends, n) \in Nat
  <2> TAKE n
  <2>1. PICK d : Counts(d, ends, n)
    BY DegreeRecursion
  <2>2. QED
    BY <2>1, CountsGrow
<1> DEFINE T == {n \in Nat : o[n + 1] \in Nat}
<1>12. 0 \in T
  BY <1>9
<1>13. \A n \in 0..(nodes - 1) : n \in T => n + 1 \in T
  <2> SUFFICES ASSUME NEW n \in 0..(nodes - 1), o[n + 1] \in Nat PROVE o[(n + 1) + 1] \in Nat
    OBVIOUS
  <2>1. n + 1 \in 1..nodes
    OBVIOUS
  <2>2. o[(n + 1) + 1] = o[n + 1] + Degree(ends, (n + 1) - 1)
    BY <1>10, <2>1
  <2>3. QED
    BY <1>11, <2>2
<1> HIDE DEF T
<1>14. \A n \in 0..nodes : n \in T
  BY <1>12, <1>13, InductionUpTo
<1>15. \A n \in 1..(nodes + 1) : o[n] \in Nat
  <2> SUFFICES ASSUME NEW n \in 1..(nodes + 1) PROVE o[n] \in Nat
    OBVIOUS
  <2>1. n - 1 \in 0..nodes /\ (n - 1) + 1 = n
    OBVIOUS
  <2>2. QED
    BY <1>14, <2>1 DEF T
<1>16. o \in [1..(nodes + 1) -> Nat]
  <2>1. o = [n \in 1..(nodes + 1) |-> o[n]]
    BY <1>8
  <2>2. QED
    BY <1>15, <2>1
<1>17. o \in Seq(Nat) /\ Len(o) = nodes + 1
  <2>1. nodes + 1 \in Nat
    OBVIOUS
  <2>2. QED
    BY <1>16, <2>1, IsASeq
<1>18. Blocks(o, nodes, ends)
  BY <1>9, <1>10, <1>17 DEF Blocks
<1>19. QED
  BY <1>7, <1>18

\* a[k]: the cursors and the array behind the first k facts.
Placed(a, offsets, ends) ==
  /\ a[0] = [cursor |-> offsets, facts |-> [i \in 1..offsets[Len(offsets)] |-> 0]]
  /\ \A k \in 1..Len(ends) : a[k] = Place(a[k - 1], ends[k], k - 1)
  /\ Incidents(offsets, ends) = a[Len(ends)].facts

\* Placing the facts runs through all facts.
LEMMA IncidentsRecursion ==
  ASSUME NEW ends, Len(ends) \in Nat, NEW offsets
  PROVE  \E a : Placed(a, offsets, ends)
<1> DEFINE first == [cursor |-> offsets, facts |-> [i \in 1..offsets[Len(offsets)] |-> 0]]
           Rec(c, m) == c = [k \in 0..m |-> IF k = 0 THEN first
                                            ELSE Place(c[k - 1], ends[k], k - 1)]
           N == {m \in Nat : \E c : Rec(c, m)}
<1>1. 0 \in N
  <2>1. Rec([k \in 0..0 |-> first], 0)
    OBVIOUS
  <2>2. QED
    BY <2>1
<1>2. ASSUME NEW m \in Nat, m \in N PROVE m + 1 \in N
  <2>1. PICK c : Rec(c, m)
    BY <1>2
  <2> DEFINE d == [k \in 0..(m + 1) |-> IF k = m + 1 THEN Place(c[m], ends[m + 1], m) ELSE c[k]]
  <2> HIDE DEF first
  <2>2. ASSUME NEW k \in 0..(m + 1)
        PROVE  d[k] = IF k = 0 THEN first ELSE Place(d[k - 1], ends[k], k - 1)
    <3>1. CASE k = m + 1
      <4>1. k # 0 /\ k - 1 = m /\ m \in 0..(m + 1) /\ m # m + 1
        BY <3>1
      <4>2. d[k - 1] = c[m] /\ d[k] = Place(c[m], ends[m + 1], m)
        BY <3>1, <4>1
      <4>3. QED
        BY <3>1, <4>1, <4>2
    <3>2. CASE k = 0
      <4>1. c[0] = first /\ d[0] = c[0]
        BY <2>1
      <4>2. QED
        BY <3>2, <4>1
    <3>3. CASE k # m + 1 /\ k # 0
      <4>1. k \in 0..m /\ k - 1 \in 0..(m + 1) /\ k - 1 # m + 1
        BY <3>3
      <4>2. d[k] = c[k] /\ d[k - 1] = c[k - 1]
        BY <3>3, <4>1
      <4> HIDE DEF d
      <4>3. c[k] = Place(c[k - 1], ends[k], k - 1)
        BY <2>1, <3>3, <4>1
      <4>4. QED
        BY <3>3, <4>2, <4>3
    <3>4. QED
      BY <3>1, <3>2, <3>3
  <2>3. d = [k \in 0..(m + 1) |-> d[k]]
    OBVIOUS
  <2> HIDE DEF d
  <2>4. Rec(d, m + 1)
    BY <2>2, <2>3
  <2>5. m + 1 \in Nat
    OBVIOUS
  <2> HIDE DEF Rec
  <2>6. QED
    BY <2>4, <2>5, Zenon
<1> HIDE DEF N
<1>3. Len(ends) \in N
  BY <1>1, <1>2, InductionOnNat
<1>4. \E c : Rec(c, Len(ends))
  BY <1>3 DEF N
<1>5. Rec(CHOOSE c : Rec(c, Len(ends)), Len(ends))
  BY <1>4, Zenon
<1>6. Incidents(offsets, ends) = (CHOOSE c : Rec(c, Len(ends)))[Len(ends)].facts
  BY Zenon DEF Incidents
<1> HIDE DEF Rec, first
<1>7. PICK c : Rec(c, Len(ends)) /\ Incidents(offsets, ends) = c[Len(ends)].facts
  BY <1>5, <1>6, Zenon
<1>8. c = [k \in 0..Len(ends) |-> IF k = 0 THEN first ELSE Place(c[k - 1], ends[k], k - 1)]
  BY <1>7 DEF Rec
<1>9. c[0] = first /\ \A k \in 1..Len(ends) : c[k] = Place(c[k - 1], ends[k], k - 1)
  <2>1. \A k \in 1..Len(ends) : k \in 0..Len(ends) /\ k # 0
    OBVIOUS
  <2>2. QED
    BY <1>8, <2>1
<1>10. Placed(c, offsets, ends)
  BY <1>7, <1>9 DEF Placed, first
<1>11. QED
  BY <1>10

\* The blocks do not overlap.
LEMMA BlocksAscend ==
  ASSUME NEW ends, Len(ends) \in Nat, NEW nodes \in Nat, NEW o, Blocks(o, nodes, ends)
  PROVE  /\ \A n \in 1..(nodes + 1) : o[n] \in Nat
         /\ \A m, n \in 1..(nodes + 1) : m <= n => o[m] <= o[n]
<1>1. \A n \in 1..(nodes + 1) : o[n] \in Nat
  <2>1. o \in Seq(Nat) /\ Len(o) = nodes + 1
    BY DEF Blocks
  <2>2. QED
    BY <2>1, ElementOfSeq
<1>2. \A n : Degree(ends, n) \in Nat
  <2> TAKE n
  <2>1. PICK d : Counts(d, ends, n)
    BY DegreeRecursion
  <2>2. QED
    BY <2>1, CountsGrow
<1> DEFINE Good(n) == \A m \in 1..(n + 1) : o[m] <= o[n + 1]
           S == {n \in Nat : Good(n)}
<1>3. 0 \in S
  <2>1. 1 \in 1..(nodes + 1)
    OBVIOUS
  <2>2. o[1] <= o[1]
    BY <1>1, <2>1
  <2>3. QED
    BY <2>2
<1>4. \A n \in 0..(nodes - 1) : n \in S => n + 1 \in S
  <2> SUFFICES ASSUME NEW n \in 0..(nodes - 1), Good(n) PROVE Good(n + 1)
    OBVIOUS
  <2>1. n + 1 \in 1..nodes /\ n + 1 \in 1..(nodes + 1) /\ (n + 1) + 1 \in 1..(nodes + 1)
    OBVIOUS
  <2>2. o[(n + 1) + 1] = o[n + 1] + Degree(ends, (n + 1) - 1)
    BY <2>1 DEF Blocks
  <2>3. o[n + 1] \in Nat /\ o[(n + 1) + 1] \in Nat /\ o[n + 1] <= o[(n + 1) + 1]
    BY <1>1, <1>2, <2>1, <2>2
  <2>4. ASSUME NEW m \in 1..((n + 1) + 1) PROVE o[m] <= o[(n + 1) + 1]
    <3>1. CASE m = (n + 1) + 1
      BY <2>3, <3>1
    <3>2. CASE m \in 1..(n + 1)
      <4>1. o[m] <= o[n + 1]
        BY <3>2
      <4>2. m \in 1..(nodes + 1)
        BY <2>1, <3>2
      <4>3. o[m] \in Nat
        BY <1>1, <4>2
      <4>4. QED
        BY <2>3, <4>1, <4>3
    <3>3. QED
      BY <3>1, <3>2
  <2>5. QED
    BY <2>4
<1> HIDE DEF S
<1>5. \A n \in 0..nodes : n \in S
  BY <1>3, <1>4, InductionUpTo
<1>6. ASSUME NEW m \in 1..(nodes + 1), NEW n \in 1..(nodes + 1), m <= n PROVE o[m] <= o[n]
  <2>1. n - 1 \in 0..nodes /\ (n - 1) + 1 = n /\ m \in 1..((n - 1) + 1)
    BY <1>6
  <2>2. Good(n - 1)
    BY <1>5, <2>1 DEF S
  <2>3. o[m] <= o[(n - 1) + 1]
    BY <2>1, <2>2
  <2>4. QED
    BY <2>1, <2>3
<1>7. QED
  BY <1>1, <1>6

\* The counts of all nodes.
LEMMA AllCounts ==
  ASSUME NEW ends, Len(ends) \in Nat, NEW nodes \in Nat
  PROVE  \E D : \A n \in 0..(nodes - 1) : Counts(D[n], ends, n)
<1>1. \A n \in 0..(nodes - 1) : \E d : Counts(d, ends, n)
  BY DegreeRecursion
<1>2. \A n \in 0..(nodes - 1) : Counts(CHOOSE d : Counts(d, ends, n), ends, n)
  BY <1>1, Zenon
<1>3. PICK D : D = [n \in 0..(nodes - 1) |-> CHOOSE d : Counts(d, ends, n)]
  BY Zenon
<1>4. \A n \in 0..(nodes - 1) : D[n] = CHOOSE d : Counts(d, ends, n)
  BY <1>3, Zenon
<1>5. \A n \in 0..(nodes - 1) : Counts(D[n], ends, n)
  BY <1>2, <1>4, Zenon
<1>6. QED
  BY <1>5

\* Fact j - 1 stands in the block of each node it touches, at its count.
Sorted(F, o, D, nodes, ends, k) ==
  \A n \in 0..(nodes - 1) : \A j \in 1..k : n \in ends[j] => F[o[n + 1] + D[n][j]] = j - 1

\* set_incidents writes every fact of a node to its own place in the block of
\* the node: the cursors of two nodes never meet.
LEMMA CountingSort ==
  ASSUME NEW ends, Len(ends) \in Nat, NEW nodes \in Nat,
         \A k \in 1..Len(ends) : ends[k] \subseteq 0..(nodes - 1),
         NEW o, Blocks(o, nodes, ends),
         NEW D, \A n \in 0..(nodes - 1) : Counts(D[n], ends, n)
  PROVE  /\ Incidents(o, ends) \in [1..o[nodes + 1] -> Nat]
         /\ Sorted(Incidents(o, ends), o, D, nodes, ends, Len(ends))
<1>1. PICK total : total = o[nodes + 1]
  OBVIOUS
<1>2. /\ \A n \in 1..(nodes + 1) : o[n] \in Nat
      /\ \A m, n \in 1..(nodes + 1) : m <= n => o[m] <= o[n]
  BY BlocksAscend
<1>3. /\ total \in Nat /\ Len(o) = nodes + 1 /\ DOMAIN o = 1..(nodes + 1)
      /\ \A n \in 1..nodes : o[n + 1] = o[n] + Degree(ends, n - 1)
  <2>1. nodes + 1 \in 1..(nodes + 1)
    OBVIOUS
  <2>2. o \in Seq(Nat)
    BY DEF Blocks
  <2>3. QED
    BY <1>1, <1>2, <2>1, <2>2, LenProperties DEF Blocks
<1>4. ASSUME NEW n \in 0..(nodes - 1)
      PROVE  /\ D[n][0] = 0 /\ \A k \in 0..Len(ends) : D[n][k] \in Nat
             /\ \A j, k \in 0..Len(ends) : j <= k => D[n][j] <= D[n][k]
             /\ \A k \in 1..Len(ends) :
                  D[n][k] = D[n][k - 1] + (IF n \in ends[k] THEN 1 ELSE 0)
             /\ \A k \in 0..Len(ends) : o[n + 1] + D[n][k] <= o[n + 2]
             /\ n + 1 \in 1..(nodes + 1) /\ n + 2 \in 1..(nodes + 1)
  <2>1. Counts(D[n], ends, n)
    OBVIOUS
  <2>2. /\ \A k \in 0..Len(ends) : D[n][k] \in Nat
        /\ \A j, k \in 0..Len(ends) : j <= k => D[n][j] <= D[n][k]
    BY <2>1, CountsGrow
  <2>3. n + 1 \in 1..nodes /\ n + 1 \in 1..(nodes + 1) /\ n + 2 \in 1..(nodes + 1)
    OBVIOUS
  <2>4. o[(n + 1) + 1] = o[n + 1] + Degree(ends, (n + 1) - 1)
    BY <1>3, <2>3
  <2>5. (n + 1) + 1 = n + 2 /\ (n + 1) - 1 = n
    OBVIOUS
  <2>6. o[n + 2] = o[n + 1] + D[n][Len(ends)]
    BY <2>1, <2>4, <2>5 DEF Counts
  <2>7. ASSUME NEW k \in 0..Len(ends) PROVE o[n + 1] + D[n][k] <= o[n + 2]
    <3>1. Len(ends) \in 0..Len(ends) /\ k <= Len(ends)
      OBVIOUS
    <3>2. D[n][k] <= D[n][Len(ends)] /\ D[n][k] \in Nat /\ D[n][Len(ends)] \in Nat
      BY <2>2, <3>1
    <3>3. o[n + 1] \in Nat
      BY <1>2, <2>3
    <3>4. QED
      BY <2>6, <3>2, <3>3
  <2>8. QED
    BY <2>1, <2>2, <2>3, <2>7 DEF Counts
<1>5. PICK a : Placed(a, o, ends)
  BY IncidentsRecursion
<1> DEFINE Good(k) ==
             /\ DOMAIN a[k].cursor = 1..(nodes + 1)
             /\ \A n \in 0..(nodes - 1) : a[k].cursor[n + 1] = o[n + 1] + D[n][k]
             /\ a[k].facts \in [1..total -> Nat]
             /\ Sorted(a[k].facts, o, D, nodes, ends, k)
           S == {k \in Nat : Good(k)}
<1>6. Good(0)
  <2>1. a[0] = [cursor |-> o, facts |-> [i \in 1..total |-> 0]]
    BY <1>1, <1>3, <1>5 DEF Placed
  <2>2. a[0].cursor = o /\ a[0].facts = [i \in 1..total |-> 0]
    BY <2>1
  <2>3. \A n \in 0..(nodes - 1) : o[n + 1] = o[n + 1] + D[n][0]
    BY <1>2, <1>4
  <2>4. Sorted(a[0].facts, o, D, nodes, ends, 0)
    BY DEF Sorted
  <2>5. QED
    BY <1>3, <2>2, <2>3, <2>4
<1>7. ASSUME NEW k \in 0..(Len(ends) - 1), Good(k) PROVE Good(k + 1)
  <2>1. /\ k + 1 \in 1..Len(ends) /\ k + 1 \in 0..Len(ends) /\ (k + 1) - 1 = k
        /\ k \in Nat /\ k \in 0..Len(ends)
    OBVIOUS
  <2>2. a[k + 1] = Place(a[k], ends[k + 1], k)
    BY <1>5, <2>1 DEF Placed
  <2>3. /\ a[k + 1].cursor = [n \in DOMAIN a[k].cursor |->
              IF n - 1 \in ends[k + 1] THEN a[k].cursor[n] + 1 ELSE a[k].cursor[n]]
        /\ a[k + 1].facts = [i \in DOMAIN a[k].facts |->
              IF \E n \in ends[k + 1] : a[k].cursor[n + 1] + 1 = i THEN k ELSE a[k].facts[i]]
    BY <2>2 DEF Place
  <2>4. PICK F, G : F = a[k].facts /\ G = a[k + 1].facts
    OBVIOUS
  <2>5. /\ F \in [1..total -> Nat] /\ DOMAIN F = 1..total
        /\ Sorted(F, o, D, nodes, ends, k)
    BY <1>7, <2>4
  <2>6. ASSUME NEW n \in 0..(nodes - 1) PROVE a[k + 1].cursor[n + 1] = o[n + 1] + D[n][k + 1]
    <3>1. n + 1 \in DOMAIN a[k].cursor /\ (n + 1) - 1 = n
      BY <1>7
    <3>2. a[k + 1].cursor[n + 1]
            = IF n \in ends[k + 1] THEN a[k].cursor[n + 1] + 1 ELSE a[k].cursor[n + 1]
      BY <2>3, <3>1
    <3>3. a[k].cursor[n + 1] = o[n + 1] + D[n][k]
      BY <1>7
    <3>4. D[n][k + 1] = D[n][k] + (IF n \in ends[k + 1] THEN 1 ELSE 0)
      BY <1>4, <2>1
    <3>5. o[n + 1] \in Nat /\ D[n][k] \in Nat
      BY <1>2, <1>4, <2>1
    <3>6. QED
      BY <3>2, <3>3, <3>4, <3>5
  <2>7. DOMAIN a[k + 1].cursor = 1..(nodes + 1)
    BY <1>7, <2>3
  <2>8. \A i \in 1..total :
          G[i] = IF \E n \in ends[k + 1] : o[n + 1] + D[n][k] + 1 = i THEN k ELSE F[i]
    <3>1. \A n \in ends[k + 1] : a[k].cursor[n + 1] = o[n + 1] + D[n][k]
      BY <1>7, <2>1
    <3>2. \A i \in 1..total :
            G[i] = IF \E n \in ends[k + 1] : a[k].cursor[n + 1] + 1 = i THEN k ELSE F[i]
      BY <2>3, <2>4, <2>5
    <3>3. ASSUME NEW i
          PROVE  (\E n \in ends[k + 1] : a[k].cursor[n + 1] + 1 = i)
                   <=> \E n \in ends[k + 1] : o[n + 1] + D[n][k] + 1 = i
      BY <3>1
    <3>4. QED
      BY <3>2, <3>3
  <2>9. G \in [1..total -> Nat]
    <3>1. G = [i \in 1..total |-> G[i]]
      BY <2>3, <2>4, <2>5
    <3>2. \A i \in 1..total : G[i] \in Nat
      BY <2>1, <2>5, <2>8
    <3>3. QED
      BY <3>1, <3>2
  <2>10. ASSUME NEW n \in 0..(nodes - 1), NEW j \in 1..(k + 1), n \in ends[j]
         PROVE  G[o[n + 1] + D[n][j]] = j - 1
    <3>1. /\ j \in 1..Len(ends) /\ j \in 0..Len(ends) /\ j - 1 \in 0..Len(ends) /\ j \in Int
      BY <2>1
    <3>2. D[n][j] = D[n][j - 1] + 1 /\ D[n][j] \in Nat /\ D[n][j - 1] \in Nat
      BY <1>4, <2>10, <3>1
    <3>3. /\ o[n + 1] \in Nat /\ o[n + 2] \in Nat /\ o[n + 2] <= total
          /\ o[n + 1] + D[n][j] <= o[n + 2]
      <4>1. n + 2 <= nodes + 1 /\ nodes + 1 \in 1..(nodes + 1)
        OBVIOUS
      <4>2. QED
        BY <1>1, <1>2, <1>4, <3>1, <4>1
    <3>4. PICK i : i = o[n + 1] + D[n][j]
      OBVIOUS
    <3>5. PICK x, y, z \in Nat : x = o[n + 1] /\ y = D[n][j] /\ z = o[n + 2]
      BY <3>2, <3>3
    <3>6. i = x + y /\ y >= 1 /\ x + y <= z /\ z <= total
      <4>1. PICK w \in Nat : w = D[n][j - 1]
        BY <3>2
      <4>2. y = w + 1
        BY <3>2, <3>5, <4>1
      <4>3. QED
        BY <3>3, <3>4, <3>5, <4>2
    <3>7. i \in 1..total
      BY <1>3, <3>6
    <3>8. CASE j = k + 1
      <4>1. o[n + 1] + D[n][k] + 1 = i
        <5>1. PICK w \in Nat : w = D[n][k]
          BY <2>1, <3>2, <3>8
        <5>2. y = w + 1
          BY <2>1, <3>2, <3>5, <3>8, <5>1
        <5>3. i = x + w + 1
          BY <3>6, <5>2
        <5>4. QED
          BY <3>5, <5>1, <5>3
      <4>2. G[i] = k
        BY <2>8, <2>10, <3>7, <3>8, <4>1
      <4>3. QED
        BY <2>1, <3>4, <3>8, <4>2
    <3>9. CASE j \in 1..k
      <4>1. ASSUME NEW m \in ends[k + 1], o[m + 1] + D[m][k] + 1 = i PROVE FALSE
        <5>1. m \in 0..(nodes - 1)
          BY <2>1
        <5>2. /\ o[m + 1] \in Nat /\ D[m][k] \in Nat
              /\ o[m + 2] \in Nat /\ D[m][k + 1] = D[m][k] + 1
              /\ o[m + 1] + D[m][k + 1] <= o[m + 2]
          BY <1>2, <1>4, <2>1, <5>1
        <5>3. PICK u, v, w \in Nat : u = o[m + 1] /\ v = D[m][k] /\ w = o[m + 2]
          BY <5>2
        <5>4. u + v + 1 = i /\ u + v + 1 <= w
          <6>1. u + v + 1 = i
            BY <4>1, <5>3
          <6>2. u + (v + 1) <= w
            BY <5>2, <5>3
          <6>3. QED
            BY <6>1, <6>2
        <5>5. CASE m = n
          <6>1. D[n][j] <= D[n][k]
            BY <1>4, <2>1, <3>1, <3>9
          <6>2. y <= v /\ u = x
            BY <3>5, <5>5, <5>3, <6>1
          <6>3. QED
            BY <3>6, <5>4, <6>2
        <5>6. CASE m < n
          <6>1. m + 2 \in 1..(nodes + 1) /\ n + 1 \in 1..(nodes + 1) /\ m + 2 <= n + 1
            BY <5>1, <5>6
          <6>2. w <= x
            BY <1>2, <3>5, <5>3, <6>1
          <6>3. QED
            BY <3>6, <5>4, <6>2
        <5>7. CASE n < m
          <6>1. n + 2 \in 1..(nodes + 1) /\ m + 1 \in 1..(nodes + 1) /\ n + 2 <= m + 1
            BY <5>1, <5>7
          <6>2. z <= u
            BY <1>2, <3>5, <5>3, <6>1
          <6>3. QED
            BY <3>6, <5>4, <6>2
        <5>8. QED
          BY <5>1, <5>5, <5>6, <5>7
      <4>2. G[i] = F[i]
        BY <2>8, <3>7, <4>1
      <4>3. F[i] = j - 1
        BY <2>5, <2>10, <3>4, <3>9 DEF Sorted
      <4>4. QED
        BY <3>4, <4>2, <4>3
    <3>10. QED
      BY <2>1, <3>8, <3>9
  <2>11. Sorted(G, o, D, nodes, ends, k + 1)
    BY <2>10 DEF Sorted
  <2>12. QED
    BY <2>4, <2>6, <2>7, <2>9, <2>11
<1> HIDE DEF Good
<1>8. 0 \in S
  BY <1>6
<1>9. \A k \in 0..(Len(ends) - 1) : k \in S => k + 1 \in S
  <2> SUFFICES ASSUME NEW k \in 0..(Len(ends) - 1), Good(k) PROVE k + 1 \in S
    OBVIOUS
  <2>1. k + 1 \in Nat /\ Good(k + 1)
    BY <1>7
  <2>2. QED
    BY <2>1
<1> HIDE DEF S
<1>10. \A k \in 0..Len(ends) : k \in S
  BY <1>8, <1>9, InductionUpTo
<1>11. Good(Len(ends))
  <2>1. Len(ends) \in 0..Len(ends)
    OBVIOUS
  <2>2. QED
    BY <1>10, <2>1 DEF S
<1>12. Incidents(o, ends) = a[Len(ends)].facts
  BY <1>5 DEF Placed
<1>13. QED
  BY <1>1, <1>11, <1>12 DEF Good

\* Every count up to the degree is reached, at a touching fact.
LEMMA CountsReach ==
  ASSUME NEW ends, Len(ends) \in Nat, NEW n, NEW d, Counts(d, ends, n)
  PROVE  \A c \in 1..d[Len(ends)] : \E j \in 1..Len(ends) : n \in ends[j] /\ d[j] = c
<1>1. \A k \in 0..Len(ends) : d[k] \in Nat
  BY CountsGrow
<1> DEFINE Good(k) == \A c \in 1..d[k] : \E j \in 1..k : n \in ends[j] /\ d[j] = c
           S == {k \in Nat : Good(k)}
<1>2. 0 \in S
  BY DEF Counts
<1>3. ASSUME NEW k \in 0..(Len(ends) - 1), Good(k) PROVE Good(k + 1)
  <2>1. /\ k + 1 \in 1..Len(ends) /\ (k + 1) - 1 = k /\ k \in Nat /\ k \in 0..Len(ends)
        /\ k + 1 \in 0..Len(ends)
    OBVIOUS
  <2>2. d[k + 1] = d[k] + (IF n \in ends[k + 1] THEN 1 ELSE 0)
    BY <2>1 DEF Counts
  <2>3. d[k] \in Nat /\ d[k + 1] \in Nat
    BY <1>1, <2>1
  <2>4. \A j \in 1..k : j \in 1..(k + 1)
    BY <2>1
  <2>5. ASSUME NEW c \in 1..d[k + 1] PROVE \E j \in 1..(k + 1) : n \in ends[j] /\ d[j] = c
    <3>1. CASE c \in 1..d[k]
      <4>1. PICK j \in 1..k : n \in ends[j] /\ d[j] = c
        BY <1>3, <3>1
      <4>2. QED
        BY <2>4, <4>1
    <3>2. CASE c \notin 1..d[k]
      <4>1. n \in ends[k + 1] /\ c = d[k + 1]
        BY <2>2, <2>3, <3>2
      <4>2. k + 1 \in 1..(k + 1)
        BY <2>1
      <4>3. QED
        BY <4>1, <4>2
    <3>3. QED
      BY <3>1, <3>2
  <2>6. QED
    BY <2>5
<1> HIDE DEF Good
<1>4. \A k \in 0..Len(ends) : k \in S
  <2>1. \A k \in 0..(Len(ends) - 1) : k \in S => k + 1 \in S
    BY <1>3
  <2> HIDE DEF S
  <2>2. QED
    BY <1>2, <2>1, InductionUpTo
<1> HIDE DEF S
<1>5. Len(ends) \in 0..Len(ends)
  OBVIOUS
<1>6. QED
  BY <1>4, <1>5 DEF S, Good

\* found has the zero-based indexes of the kept among `count` facts, ascending.
Lists(found, count, kept) ==
  /\ found \in Seq(Nat)
  /\ \A d \in 1..Len(found) : found[d] + 1 \in 1..count /\ found[d] + 1 \in kept
  /\ \A d \in 1..Len(found) : \A c \in 1..(d - 1) : found[c] < found[d]
  /\ \A k \in 1..count : k \in kept => \E d \in 1..Len(found) : found[d] = k - 1

\* The block of a node lists the facts that touch it.
LEMMA BlockLists ==
  ASSUME NEW ends, Len(ends) \in Nat, NEW nodes \in Nat,
         \A k \in 1..Len(ends) : ends[k] \subseteq 0..(nodes - 1),
         NEW o, Blocks(o, nodes, ends), NEW n \in 0..(nodes - 1)
  PROVE  /\ o[n + 1] \in Nat /\ o[n + 2] \in Nat /\ o[n + 1] <= o[n + 2]
         /\ Lists(SubSeq(Incidents(o, ends), o[n + 1] + 1, o[n + 2]), Len(ends),
                  {k \in 1..Len(ends) : n \in ends[k]})
<1>1. PICK D : \A m \in 0..(nodes - 1) : Counts(D[m], ends, m)
  BY AllCounts
<1>2. PICK F : F = Incidents(o, ends)
  OBVIOUS
<1>3. F \in [1..o[nodes + 1] -> Nat] /\ Sorted(F, o, D, nodes, ends, Len(ends))
  BY <1>1, <1>2, CountingSort
<1>4. PICK d : d = D[n]
  OBVIOUS
<1>5. Counts(d, ends, n)
  BY <1>1, <1>4
<1>6. /\ \A k \in 0..Len(ends) : d[k] \in Nat
      /\ \A j, k \in 0..Len(ends) : j <= k => d[j] <= d[k]
  BY <1>5, CountsGrow
<1>7. /\ n + 1 \in 1..nodes /\ n + 1 \in 1..(nodes + 1) /\ n + 2 \in 1..(nodes + 1)
      /\ nodes + 1 \in 1..(nodes + 1) /\ n + 2 <= nodes + 1
      /\ (n + 1) + 1 = n + 2 /\ (n + 1) - 1 = n
  OBVIOUS
<1>8. PICK x, z, total \in Nat : x = o[n + 1] /\ z = o[n + 2] /\ total = o[nodes + 1]
  BY <1>7, BlocksAscend
<1>9. PICK size \in Nat : size = d[Len(ends)]
  <2>1. Len(ends) \in 0..Len(ends)
    OBVIOUS
  <2>2. QED
    BY <1>6, <2>1
<1>10. z = x + size /\ z <= total
  <2>1. o[(n + 1) + 1] = o[n + 1] + Degree(ends, (n + 1) - 1)
    BY <1>7 DEF Blocks
  <2>2. Degree(ends, n) = size
    BY <1>5, <1>9 DEF Counts
  <2>3. z <= total
    BY <1>7, <1>8, BlocksAscend
  <2>4. QED
    BY <1>7, <1>8, <2>1, <2>2, <2>3
<1>11. PICK block : block = SubSeq(F, x + 1, z)
  OBVIOUS
<1>12. block \in Seq(Nat) /\ Len(block) = size /\ \A c \in 1..size : block[c] = F[x + c]
  <2>1. \A i \in (x + 1)..z : F[i] \in Nat
    <3>1. \A i \in (x + 1)..z : i \in 1..total
      BY <1>10
    <3>2. QED
      BY <1>3, <1>8, <3>1
  <2>2. /\ block \in Seq(Nat)
        /\ Len(block) = IF x + 1 <= z THEN z - (x + 1) + 1 ELSE 0
        /\ \A i \in 1..(z - (x + 1) + 1) : block[i] = F[(x + 1) + i - 1]
    BY <1>11, <2>1, SubSeqProperties
  <2>3. Len(block) = size /\ z - (x + 1) + 1 = size
    BY <1>10, <2>2
  <2>4. \A i \in 1..size : (x + 1) + i - 1 = x + i
    OBVIOUS
  <2>5. QED
    BY <2>2, <2>3, <2>4
<1>13. ASSUME NEW j \in 1..Len(ends), n \in ends[j]
       PROVE  d[j] \in 1..size /\ block[d[j]] = j - 1
  <2>1. j \in 0..Len(ends) /\ j - 1 \in 0..Len(ends) /\ Len(ends) \in 0..Len(ends) /\ j <= Len(ends)
    OBVIOUS
  <2>2. d[j] = d[j - 1] + 1
    BY <1>5, <1>13 DEF Counts
  <2>3. d[j] \in Nat /\ d[j - 1] \in Nat /\ d[j] <= size
    BY <1>6, <1>9, <2>1
  <2>4. d[j] \in 1..size
    BY <2>2, <2>3
  <2>5. F[o[n + 1] + D[n][j]] = j - 1
    BY <1>3, <1>13 DEF Sorted
  <2>6. QED
    BY <1>4, <1>8, <1>12, <2>4, <2>5
<1>14. \A c \in 1..size : \E j \in 1..Len(ends) : n \in ends[j] /\ d[j] = c
  <2>1. \A c \in 1..d[Len(ends)] : \E j \in 1..Len(ends) : n \in ends[j] /\ d[j] = c
    BY <1>5, CountsReach
  <2>2. QED
    BY <1>9, <2>1
<1>15. PICK kept : kept = {k \in 1..Len(ends) : n \in ends[k]}
  OBVIOUS
<1>16. ASSUME NEW c \in 1..size PROVE block[c] + 1 \in 1..Len(ends) /\ block[c] + 1 \in kept
  <2>1. PICK j \in 1..Len(ends) : n \in ends[j] /\ d[j] = c
    BY <1>14
  <2>2. block[c] = j - 1
    BY <1>13, <2>1
  <2>3. block[c] + 1 = j
    BY <2>2
  <2>4. QED
    BY <1>15, <2>1, <2>3
<1>17. ASSUME NEW e \in 1..size, NEW c \in 1..(e - 1) PROVE block[c] < block[e]
  <2>1. c \in 1..size /\ c < e
    OBVIOUS
  <2>2. PICK j \in 1..Len(ends) : n \in ends[j] /\ d[j] = e
    BY <1>14
  <2>3. PICK i \in 1..Len(ends) : n \in ends[i] /\ d[i] = c
    BY <1>14, <2>1
  <2>4. block[e] = j - 1 /\ block[c] = i - 1
    BY <1>13, <2>2, <2>3
  <2>5. ~(j <= i)
    <3>1. i \in 0..Len(ends) /\ j \in 0..Len(ends)
      OBVIOUS
    <3>2. j <= i => e <= c
      BY <1>6, <2>2, <2>3, <3>1
    <3>3. QED
      BY <2>1, <3>2
  <2>6. QED
    BY <2>4, <2>5
<1>18. ASSUME NEW k \in 1..Len(ends), k \in kept PROVE \E c \in 1..size : block[c] = k - 1
  <2>1. n \in ends[k]
    BY <1>15, <1>18
  <2>2. QED
    BY <1>13, <2>1
<1>19. Lists(block, Len(ends), kept)
  BY <1>12, <1>16, <1>17, <1>18 DEF Lists
<1>20. QED
  BY <1>2, <1>8, <1>10, <1>11, <1>15, <1>19

-----------------------------------------------------------------------------
\* There are no more nodes than entities, so every node has its incident delta.
LEMMA NodesFit ==
  ASSUME NEW nodes \in Seq(Seq(NodeRevision)), NEW lookup \in [Entities -> Nat \cup {None}],
         NodesIndexed(nodes, lookup)
  PROVE  /\ \A n \in 0..(Len(nodes) - 1) : n \in NodeIndex
         /\ Cardinality(Entities) \in Nat /\ Len(nodes) <= Cardinality(Entities)
<1>1. /\ Len(nodes) \in Nat
      /\ \A n \in 1..Len(nodes) : nodes[n][1].id \in Entities
  BY NodeHistories
<1>2. Cardinality(Entities) \in Nat /\ IsFiniteSet(Entities)
  BY ProjectionAssumption, FS_CardinalityType
<1>3. IsFiniteSet(1..Len(nodes)) /\ Cardinality(1..Len(nodes)) = Len(nodes)
  <2>1. PICK m \in Nat : m = Len(nodes)
    BY <1>1
  <2>2. IsFiniteSet(1..m) /\ Cardinality(1..m) = IF 1 > m THEN 0 ELSE m - 1 + 1
    <3>1. 1 \in Int /\ m \in Int
      OBVIOUS
    <3>2. QED
      BY <3>1, FS_Interval
  <2>3. Cardinality(1..m) = m
    BY <2>2
  <2>4. QED
    BY <2>1, <2>2, <2>3
<1>4. ASSUME Cardinality(Entities) < Len(nodes) PROVE FALSE
  <2>1. PICK f : f = [n \in 1..Len(nodes) |-> nodes[n][1].id]
    OBVIOUS
  <2>2. f \in [1..Len(nodes) -> Entities]
    BY <1>1, <2>1
  <2>3. PICK m, n \in 1..Len(nodes) : m # n /\ f[m] = f[n]
    BY <1>2, <1>3, <1>4, <2>2, FS_PigeonHole
  <2>4. nodes[m][1].id = nodes[n][1].id
    BY <2>1, <2>3
  <2>5. lookup[nodes[m][1].id] = m - 1 /\ lookup[nodes[n][1].id] = n - 1
    BY DEF NodesIndexed
  <2>6. m - 1 = n - 1
    BY <2>4, <2>5
  <2>7. QED
    BY <1>1, <2>3, <2>6
<1>5. Len(nodes) <= Cardinality(Entities)
  BY <1>1, <1>2, <1>4
<1>6. \A n \in 0..(Len(nodes) - 1) : n \in NodeIndex
  BY <1>1, <1>2, <1>5 DEF NodeIndex
<1>7. QED
  BY <1>2, <1>5, <1>6

\* The facts that touch a node, and the two parts of its list.
Touched(facts, lookup, n) ==
  {k \in 1..Len(facts) : n \in {lookup[facts[k].source], lookup[facts[k].target]}}

Stable(p, n) ==
  SubSeq(p.incident_facts, p.incident_offsets[n + 1] + 1, p.incident_offsets[n + 2])

\* The incident facts of every node are listed, and of no other.
Listed(p) ==
  /\ \A n \in 0..(Len(p.nodes) - 1) :
       /\ Stable(p, n) \in Seq(Nat)
       /\ Lists(Stable(p, n) \o p.incident_delta[n], Len(p.facts),
                Touched(p.facts, p.node_lookup, n))
  /\ \A n \in NodeIndex : n >= Len(p.nodes) => p.incident_delta[n] = <<>>

\* What decoding gives back, field by field.
Rebuilt(p, q) ==
  /\ Agree(p, q) /\ q.last_global_position = p.last_global_position
  /\ q.node_lookup = p.node_lookup /\ q.fact_lookup = p.fact_lookup
  /\ q.incident_delta = [n \in NodeIndex |-> <<>>]
  /\ q \in Projection
  /\ Len(q.incident_offsets) = Len(q.nodes) + 1
  /\ \A n \in 0..(Len(q.nodes) - 1) :
       /\ Stable(q, n) \in Seq(Nat)
       /\ Lists(Stable(q, n), Len(q.facts), Touched(q.facts, q.node_lookup, n))

\* Decoding the snapshot of a sound projection succeeds and restores it.
LEMMA RebuildFields ==
  ASSUME NEW p, Sound(p)
  PROVE  /\ RebuildIndexes(Canonical(p)) # None
         /\ Rebuilt(p, RebuildIndexes(Canonical(p)))
<1>1. PICK data : data = Canonical(p)
  OBVIOUS
<1>2. PICK nodes, facts : nodes = p.nodes /\ facts = p.facts
  OBVIOUS
<1>3. /\ data.nodes = nodes /\ data.facts = facts
      /\ data.supersessions = p.supersessions /\ data.retractions = p.retractions
      /\ data.last_global_position = p.last_global_position
  BY <1>1, <1>2 DEF Canonical
<1>4. /\ p \in Projection /\ NodesIndexed(nodes, p.node_lookup)
      /\ FactsIndexed(facts, p.fact_lookup) /\ FactsGrounded(facts, p.node_lookup)
  BY <1>2 DEF Sound
<1>5. /\ nodes \in Seq(Seq(NodeRevision)) /\ facts \in Seq(Fact)
      /\ p.node_lookup \in [Entities -> Nat \cup {None}]
      /\ p.fact_lookup \in [FactIds -> Nat \cup {None}]
      /\ p.supersessions \in [FactIds -> Supersession \cup {None}]
      /\ p.retractions \in [FactIds -> Retraction \cup {None}]
      /\ p.last_global_position \in Nat \cup {None}
  BY <1>2, <1>4, ProjectionFields
<1>6. /\ DOMAIN facts = 1..Len(facts) /\ Len(facts) \in Nat /\ Len(nodes) \in Nat
      /\ \A k \in 1..Len(facts) :
           facts[k] \in Fact /\ facts[k].source \in Entities /\ facts[k].target \in Entities
  <2>1. /\ DOMAIN facts = 1..Len(facts) /\ Len(facts) \in Nat /\ Len(nodes) \in Nat
        /\ \A k \in 1..Len(facts) : facts[k] \in Fact
    BY <1>5, LenProperties, ElementOfSeq
  <2>2. QED
    BY <2>1, ByIsSupersession
<1>7. \A e \in Entities : NodeAt(nodes, e) = p.node_lookup[e]
  BY <1>4, <1>5, NodeAtExact
<1>8. \A id \in FactIds : FactAt(facts, id) = p.fact_lookup[id]
  BY <1>4, <1>5, FactAtExact
<1>9. PICK ends : ends = Endpoints(data)
  OBVIOUS
<1>10. ends = [k \in 1..Len(facts) |->
                 {p.node_lookup[facts[k].source], p.node_lookup[facts[k].target]}]
  <2>1. ends = [k \in 1..Len(facts) |->
                 {NodeAt(nodes, facts[k].source), NodeAt(nodes, facts[k].target)}]
    BY <1>3, <1>6, <1>9 DEF Endpoints
  <2>2. \A k \in 1..Len(facts) :
          {NodeAt(nodes, facts[k].source), NodeAt(nodes, facts[k].target)}
            = {p.node_lookup[facts[k].source], p.node_lookup[facts[k].target]}
    BY <1>6, <1>7
  <2>3. QED
    BY <2>1, <2>2
<1>11. Len(ends) = Len(facts)
  <2>1. ends \in [1..Len(facts) -> SUBSET (Nat \cup {None})]
    BY <1>5, <1>6, <1>10
  <2>2. QED
    BY <1>6, <2>1, IsASeq
<1>12. \A k \in 1..Len(ends) : ends[k] \subseteq 0..(Len(nodes) - 1)
  <2> SUFFICES ASSUME NEW k \in 1..Len(facts)
               PROVE  ends[k] \subseteq 0..(Len(nodes) - 1)
    BY <1>11
  <2>1. ASSUME NEW e \in Entities, p.node_lookup[e] # None
        PROVE  p.node_lookup[e] \in 0..(Len(nodes) - 1)
    <3>1. p.node_lookup[e] + 1 \in 1..Len(nodes) /\ p.node_lookup[e] \in Nat
      BY <1>4, <1>5, <2>1 DEF NodesIndexed
    <3>2. QED
      BY <1>6, <3>1
  <2>2. p.node_lookup[facts[k].source] # None /\ p.node_lookup[facts[k].target] # None
    BY <1>4 DEF FactsGrounded
  <2>3. QED
    BY <1>6, <1>10, <2>1, <2>2
<1>13. PICK o : o = Offsets(Len(nodes), ends)
  OBVIOUS
<1>14. Blocks(o, Len(nodes), ends)
  BY <1>6, <1>11, <1>13, OffsetsRecursion
<1>15. o \in Seq(Nat) /\ Len(o) = Len(nodes) + 1
  BY <1>14 DEF Blocks
<1>16. PICK F : F = Incidents(o, ends)
  OBVIOUS
<1>17. F \in Seq(Nat)
  <2>1. PICK D : \A n \in 0..(Len(nodes) - 1) : Counts(D[n], ends, n)
    BY <1>6, <1>11, AllCounts
  <2>2. F \in [1..o[Len(nodes) + 1] -> Nat]
    BY <1>6, <1>11, <1>12, <1>14, <1>16, <2>1, CountingSort
  <2>3. o[Len(nodes) + 1] \in Nat
    <3>1. Len(nodes) + 1 \in 1..Len(o)
      BY <1>6, <1>15
    <3>2. QED
      BY <1>15, <3>1, ElementOfSeq
  <2>4. QED
    BY <2>2, <2>3, IsASeq
<1>18. PICK q : q = RebuildIndexes(data)
  OBVIOUS
<1>19. q = [nodes |-> nodes, facts |-> facts,
            node_lookup |-> [e \in Entities |-> NodeAt(nodes, e)],
            fact_lookup |-> [f \in FactIds |-> FactAt(facts, f)],
            incident_offsets |-> o, incident_facts |-> F,
            incident_delta |-> [n \in NodeIndex |-> <<>>],
            supersessions |-> p.supersessions, retractions |-> p.retractions,
            last_global_position |-> p.last_global_position]
  <2>1. Consistent(data)
    BY <1>1, SoundConsistent
  <2>2. QED
    BY <1>3, <1>9, <1>13, <1>16, <1>18, <2>1 DEF RebuildIndexes
<1>20. /\ q.nodes = nodes /\ q.facts = facts /\ q.supersessions = p.supersessions
       /\ q.retractions = p.retractions /\ q.last_global_position = p.last_global_position
       /\ q.incident_offsets = o /\ q.incident_facts = F
       /\ q.incident_delta = [n \in NodeIndex |-> <<>>]
       /\ q.node_lookup = [e \in Entities |-> NodeAt(nodes, e)]
       /\ q.fact_lookup = [f \in FactIds |-> FactAt(facts, f)]
  BY <1>19
<1>21. q.node_lookup = p.node_lookup /\ q.fact_lookup = p.fact_lookup
  BY <1>5, <1>7, <1>8, <1>20
<1>22. q \in Projection
  <2>1. [n \in NodeIndex |-> <<>>] \in [NodeIndex -> Seq(Nat)]
    OBVIOUS
  <2>2. /\ [e \in Entities |-> NodeAt(nodes, e)] \in [Entities -> Nat \cup {None}]
        /\ [f \in FactIds |-> FactAt(facts, f)] \in [FactIds -> Nat \cup {None}]
    BY <1>5, <1>20, <1>21
  <2>3. QED
    BY <1>5, <1>15, <1>17, <1>19, <2>1, <2>2 DEF Projection
<1>23. ASSUME NEW n \in 0..(Len(nodes) - 1)
       PROVE  /\ Stable(q, n) \in Seq(Nat)
              /\ Lists(Stable(q, n), Len(facts), Touched(facts, p.node_lookup, n))
  <2>1. Stable(q, n) = SubSeq(F, o[n + 1] + 1, o[n + 2])
    BY <1>20 DEF Stable
  <2>2. {k \in 1..Len(ends) : n \in ends[k]} = Touched(facts, p.node_lookup, n)
    BY <1>10, <1>11 DEF Touched
  <2>3. Lists(SubSeq(F, o[n + 1] + 1, o[n + 2]), Len(ends), {k \in 1..Len(ends) : n \in ends[k]})
    BY <1>6, <1>11, <1>12, <1>14, <1>16, BlockLists
  <2>4. Lists(Stable(q, n), Len(facts), Touched(facts, p.node_lookup, n))
    BY <1>11, <2>1, <2>2, <2>3
  <2>5. QED
    BY <2>4 DEF Lists
<1>24. Agree(p, q)
  BY <1>2, <1>20 DEF Agree
<1>25. Rebuilt(p, q)
  BY <1>15, <1>20, <1>21, <1>22, <1>23, <1>24 DEF Rebuilt
<1>26. q # None
  BY <1>22, ProjectionAssumption
<1>27. QED
  BY <1>1, <1>18, <1>25, <1>26

\* Decoding what a sound projection was encoded to gives back a sound one with
\* the same content.
LEMMA RebuildSound ==
  ASSUME NEW p, Sound(p)
  PROVE  /\ RebuildIndexes(Canonical(p)) # None
         /\ Sound(RebuildIndexes(Canonical(p)))
         /\ Listed(RebuildIndexes(Canonical(p)))
         /\ Canonical(RebuildIndexes(Canonical(p))) = Canonical(p)
<1>1. PICK q : q = RebuildIndexes(Canonical(p))
  OBVIOUS
<1>2. q # None /\ Rebuilt(p, q)
  BY <1>1, RebuildFields
<1>3. /\ q \in Projection /\ q.nodes = p.nodes /\ q.facts = p.facts
      /\ q.supersessions = p.supersessions /\ q.retractions = p.retractions
      /\ q.node_lookup = p.node_lookup /\ q.fact_lookup = p.fact_lookup
      /\ Len(q.incident_offsets) = Len(q.nodes) + 1
  BY <1>2 DEF Rebuilt, Agree
<1>4. Sound(q)
  BY <1>3 DEF Sound
<1>5. Listed(q)
  <2>1. \A n \in NodeIndex : q.incident_delta[n] = <<>>
    BY <1>2 DEF Rebuilt
  <2>2. ASSUME NEW n \in 0..(Len(q.nodes) - 1)
        PROVE  /\ Stable(q, n) \in Seq(Nat)
               /\ Lists(Stable(q, n) \o q.incident_delta[n], Len(q.facts),
                        Touched(q.facts, q.node_lookup, n))
    <3>1. /\ Stable(q, n) \in Seq(Nat)
          /\ Lists(Stable(q, n), Len(q.facts), Touched(q.facts, q.node_lookup, n))
      BY <1>2 DEF Rebuilt
    <3>2. n \in NodeIndex
      <4>1. /\ q.nodes \in Seq(Seq(NodeRevision)) /\ q.node_lookup \in [Entities -> Nat \cup {None}]
            /\ NodesIndexed(q.nodes, q.node_lookup)
        BY <1>3, <1>4, ProjectionFields DEF Sound
      <4>2. QED
        BY <4>1, NodesFit
    <3>3. Stable(q, n) \o q.incident_delta[n] = Stable(q, n)
      BY <2>1, <3>1, <3>2, ConcatEmptySeq
    <3>4. QED
      BY <3>1, <3>3
  <2>3. QED
    BY <2>1, <2>2 DEF Listed
<1>6. Canonical(q) = Canonical(p)
  <2>1. Agree(q, p) /\ q.last_global_position = p.last_global_position
    BY <1>2 DEF Rebuilt, Agree
  <2>2. QED
    BY <2>1, CanonicalFields
<1>7. QED
  BY <1>1, <1>2, <1>4, <1>5, <1>6

-----------------------------------------------------------------------------
\* A list stays one when the facts it must have stay the same, and grows with
\* the last fact.
LEMMA ListGrows ==
  ASSUME NEW found, NEW count \in Nat, NEW kept, NEW then, Lists(found, count, kept),
         \A k \in 1..count : k \in then <=> k \in kept
  PROVE  /\ count + 1 \notin then => Lists(found, count + 1, then)
         /\ count + 1 \in then => Lists(Append(found, count), count + 1, then)
<1>1. /\ found \in Seq(Nat) /\ Len(found) \in Nat
      /\ \A d \in 1..Len(found) :
           /\ found[d] \in Nat /\ found[d] + 1 \in 1..count /\ found[d] + 1 \in then
           /\ found[d] < count
      /\ \A d \in 1..Len(found) : \A c \in 1..(d - 1) : found[c] < found[d]
      /\ \A k \in 1..count : k \in then => \E d \in 1..Len(found) : found[d] = k - 1
  <2>1. found \in Seq(Nat) /\ Len(found) \in Nat /\ \A d \in 1..Len(found) : found[d] \in Nat
    BY LenProperties, ElementOfSeq DEF Lists
  <2>2. \A d \in 1..Len(found) : found[d] + 1 \in 1..count /\ found[d] + 1 \in then
    BY DEF Lists
  <2>3. \A d \in 1..Len(found) : found[d] < count
    BY <2>1, <2>2
  <2>4. QED
    BY <2>1, <2>2, <2>3 DEF Lists
<1>2. \A k \in 1..(count + 1) : k \in 1..count \/ k = count + 1
  OBVIOUS
<1>3. \A k \in 1..count : k \in 1..(count + 1)
  OBVIOUS
<1>4. ASSUME count + 1 \notin then PROVE Lists(found, count + 1, then)
  BY <1>1, <1>2, <1>3, <1>4 DEF Lists
<1>5. ASSUME count + 1 \in then PROVE Lists(Append(found, count), count + 1, then)
  <2>1. PICK g : g = Append(found, count)
    OBVIOUS
  <2>2. /\ g \in Seq(Nat) /\ Len(g) = Len(found) + 1 /\ g[Len(found) + 1] = count
        /\ \A d \in 1..Len(found) : g[d] = found[d]
    BY <1>1, <2>1, AppendProperties
  <2>3. \A d \in 1..Len(g) : d \in 1..Len(found) \/ d = Len(found) + 1
    BY <1>1, <2>2
  <2>4. \A d \in 1..Len(found) : d \in 1..Len(g)
    BY <1>1, <2>2
  <2>5. ASSUME NEW d \in 1..Len(g) PROVE g[d] + 1 \in 1..(count + 1) /\ g[d] + 1 \in then
    <3>1. CASE d \in 1..Len(found)
      BY <1>1, <1>3, <2>2, <3>1
    <3>2. CASE d = Len(found) + 1
      <4>1. g[d] + 1 = count + 1
        BY <2>2, <3>2
      <4>2. count + 1 \in 1..(count + 1)
        OBVIOUS
      <4>3. QED
        BY <1>5, <4>1, <4>2
    <3>3. QED
      BY <2>3, <3>1, <3>2
  <2>6. ASSUME NEW d \in 1..Len(g), NEW c \in 1..(d - 1) PROVE g[c] < g[d]
    <3>1. c \in 1..Len(found)
      BY <1>1, <2>2
    <3>2. CASE d \in 1..Len(found)
      <4>1. found[c] < found[d]
        BY <1>1, <3>2
      <4>2. QED
        BY <2>2, <3>1, <3>2, <4>1
    <3>3. CASE d = Len(found) + 1
      <4>1. found[c] < count
        BY <1>1, <3>1
      <4>2. QED
        BY <2>2, <3>1, <3>3, <4>1
    <3>4. QED
      BY <2>3, <3>2, <3>3
  <2>7. ASSUME NEW k \in 1..(count + 1), k \in then PROVE \E d \in 1..Len(g) : g[d] = k - 1
    <3>1. CASE k \in 1..count
      <4>1. PICK d \in 1..Len(found) : found[d] = k - 1
        BY <1>1, <2>7, <3>1
      <4>2. QED
        BY <2>2, <2>4, <4>1
    <3>2. CASE k = count + 1
      <4>1. Len(found) + 1 \in 1..Len(g) /\ k - 1 = count
        BY <1>1, <2>2, <3>2
      <4>2. QED
        BY <2>2, <4>1
    <3>3. QED
      BY <1>2, <3>1, <3>2
  <2>8. Lists(g, count + 1, then)
    BY <2>2, <2>5, <2>6, <2>7 DEF Lists
  <2>9. QED
    BY <2>1, <2>8
<1>6. QED
  BY <1>4, <1>5

\* Whatever changes neither facts nor lookups nor lists keeps the lists.
LEMMA ListedSame ==
  ASSUME NEW p, Listed(p), NEW q,
         Len(q.nodes) = Len(p.nodes), q.facts = p.facts, q.node_lookup = p.node_lookup,
         q.incident_offsets = p.incident_offsets, q.incident_facts = p.incident_facts,
         q.incident_delta = p.incident_delta
  PROVE  Listed(q)
<1>1. \A n : Stable(q, n) = Stable(p, n)
  BY DEF Stable
<1>2. QED
  BY <1>1 DEF Listed

\* Appending to the second of two sequences appends to both.
LEMMA AppendConcat ==
  ASSUME NEW s \in Seq(Nat), NEW t \in Seq(Nat), NEW x \in Nat
  PROVE  s \o Append(t, x) = Append(s \o t, x)
OBVIOUS

\* Recording a fact adds it to the lists of its endpoints, and a self-loop once.
LEMMA FactListed ==
  ASSUME NEW p, Sound(p), Listed(p), NEW f \in Fact, CanInsertFact(p, f)
  PROVE  Listed(InsertFact(p, f))
<1>1. PICK q : q = InsertFact(p, f)
  OBVIOUS
<1>2. FactInserted(p, f, q)
  BY <1>1, InsertFactFields
<1>3. /\ q.nodes = p.nodes /\ q.node_lookup = p.node_lookup
      /\ q.incident_offsets = p.incident_offsets /\ q.incident_facts = p.incident_facts
      /\ q.facts = Append(p.facts, f)
      /\ q.incident_delta =
           [n \in NodeIndex |->
              IF n \in {p.node_lookup[f.source], p.node_lookup[f.target]}
              THEN Append(p.incident_delta[n], Len(p.facts)) ELSE p.incident_delta[n]]
  BY <1>2 DEF FactInserted
<1>4. /\ p \in Projection /\ NodesIndexed(p.nodes, p.node_lookup)
      /\ p.nodes \in Seq(Seq(NodeRevision)) /\ p.facts \in Seq(Fact)
      /\ p.node_lookup \in [Entities -> Nat \cup {None}]
      /\ p.incident_delta \in [NodeIndex -> Seq(Nat)]
      /\ Len(p.facts) \in Nat /\ Len(p.nodes) \in Nat
  BY ProjectionFields, LenProperties DEF Sound
<1>5. /\ q.facts \in Seq(Fact) /\ Len(q.facts) = Len(p.facts) + 1
      /\ \A k \in 1..Len(p.facts) : q.facts[k] = p.facts[k]
      /\ q.facts[Len(p.facts) + 1] = f
  BY <1>3, <1>4, AppendProperties
<1>6. f.source \in Entities /\ f.target \in Entities
  BY ByIsSupersession
<1>7. ASSUME NEW n \in NodeIndex, n >= Len(q.nodes) PROVE q.incident_delta[n] = <<>>
  <2>1. p.incident_delta[n] = <<>>
    BY <1>3, <1>7 DEF Listed
  <2>2. ASSUME NEW e \in Entities, p.node_lookup[e] # None PROVE p.node_lookup[e] # n
    <3>1. p.node_lookup[e] + 1 \in 1..Len(p.nodes) /\ p.node_lookup[e] \in Nat
      BY <1>4, <2>2 DEF NodesIndexed
    <3>2. n \in Int
      BY <1>4, NodesFit DEF NodeIndex
    <3>3. QED
      BY <1>3, <1>4, <1>7, <3>1, <3>2
  <2>3. p.node_lookup[f.source] # None /\ p.node_lookup[f.target] # None
    BY DEF CanInsertFact
  <2>4. n \notin {p.node_lookup[f.source], p.node_lookup[f.target]}
    BY <1>6, <2>2, <2>3
  <2>5. QED
    BY <1>3, <2>1, <2>4
<1>8. ASSUME NEW n \in 0..(Len(q.nodes) - 1)
      PROVE  /\ Stable(q, n) \in Seq(Nat)
             /\ Lists(Stable(q, n) \o q.incident_delta[n], Len(q.facts),
                      Touched(q.facts, q.node_lookup, n))
  <2>1. PICK found, kept, then, delta :
          /\ found = Stable(p, n) \o p.incident_delta[n]
          /\ kept = Touched(p.facts, p.node_lookup, n)
          /\ then = Touched(q.facts, q.node_lookup, n)
          /\ delta = p.incident_delta[n]
    OBVIOUS
  <2>2. Stable(q, n) = Stable(p, n)
    BY <1>3 DEF Stable
  <2>3. Stable(p, n) \in Seq(Nat) /\ Lists(found, Len(p.facts), kept)
    BY <1>3, <2>1 DEF Listed
  <2>4. n \in NodeIndex
    BY <1>3, <1>4, NodesFit
  <2>5. delta \in Seq(Nat)
    BY <1>4, <2>1, <2>4
  <2>6. \A k \in 1..Len(p.facts) : k \in then <=> k \in kept
    BY <1>3, <1>4, <1>5, <2>1 DEF Touched
  <2>7. Len(p.facts) + 1 \in then <=> n \in {p.node_lookup[f.source], p.node_lookup[f.target]}
    <3>1. Len(p.facts) + 1 \in 1..Len(q.facts)
      BY <1>4, <1>5
    <3>2. QED
      BY <1>3, <1>5, <2>1, <3>1 DEF Touched
  <2>8. CASE n \in {p.node_lookup[f.source], p.node_lookup[f.target]}
    <3>1. q.incident_delta[n] = Append(delta, Len(p.facts))
      BY <1>3, <2>1, <2>4, <2>8
    <3>2. Stable(p, n) \o Append(delta, Len(p.facts))
            = Append(Stable(p, n) \o delta, Len(p.facts))
      BY <1>4, <2>3, <2>5, AppendConcat
    <3>3. Lists(Append(found, Len(p.facts)), Len(p.facts) + 1, then)
      BY <1>4, <2>3, <2>6, <2>7, <2>8, ListGrows
    <3>4. QED
      BY <1>5, <2>1, <2>2, <2>3, <3>1, <3>2, <3>3
  <2>9. CASE n \notin {p.node_lookup[f.source], p.node_lookup[f.target]}
    <3>1. q.incident_delta[n] = delta
      BY <1>3, <2>1, <2>4, <2>9
    <3>2. Lists(found, Len(p.facts) + 1, then)
      BY <1>4, <2>3, <2>6, <2>7, <2>9, ListGrows
    <3>3. QED
      BY <1>5, <2>1, <2>2, <2>3, <3>1, <3>2
  <2>10. QED
    BY <2>8, <2>9
<1>9. Listed(q)
  BY <1>7, <1>8 DEF Listed
<1>10. QED
  BY <1>1, <1>9

\* A new node has an empty list, and a new revision changes no list.
LEMMA NodeListed ==
  ASSUME NEW p, Sound(p), Listed(p), NEW r \in NodeRevision
  PROVE  Listed(InsertNode(p, r))
<1>1. PICK q : q = InsertNode(p, r)
  OBVIOUS
<1>2. NodeInserted(p, r, q)
  BY <1>1, InsertNodeFields
<1>3. /\ q.facts = p.facts /\ q.incident_facts = p.incident_facts
      /\ q.incident_delta = p.incident_delta
  BY <1>2 DEF NodeInserted
<1>4. /\ p \in Projection /\ NodesIndexed(p.nodes, p.node_lookup)
      /\ FactsGrounded(p.facts, p.node_lookup)
      /\ p.nodes \in Seq(Seq(NodeRevision)) /\ p.facts \in Seq(Fact)
      /\ p.node_lookup \in [Entities -> Nat \cup {None}]
      /\ p.incident_offsets \in Seq(Nat) /\ Len(p.incident_offsets) = Len(p.nodes) + 1
      /\ Len(p.facts) \in Nat /\ Len(p.nodes) \in Nat
  BY ProjectionFields, LenProperties DEF Sound
<1>5. CASE p.node_lookup[r.id] # None
  <2>1. /\ q.nodes = WithRevision(p.nodes, p.node_lookup[r.id] + 1, r)
        /\ q.node_lookup = p.node_lookup /\ q.incident_offsets = p.incident_offsets
    BY <1>2, <1>5 DEF NodeInserted
  <2>2. Len(q.nodes) = Len(p.nodes)
    <3>1. Revised(p.nodes, p.node_lookup[r.id] + 1, r, q.nodes)
      BY <1>4, <1>5, <2>1, RevisionIndexed
    <3>2. QED
      BY <3>1 DEF Revised
  <2>3. Listed(q)
    BY <1>3, <2>1, <2>2, ListedSame
  <2>4. QED
    BY <1>1, <2>3
<1>6. CASE p.node_lookup[r.id] = None
  <2>1. /\ q.nodes = Append(p.nodes, <<r>>)
        /\ q.node_lookup = WithEntry(p.node_lookup, r.id, Len(p.nodes))
        /\ q.incident_offsets
             = Append(p.incident_offsets, p.incident_offsets[Len(p.incident_offsets)])
    BY <1>2, <1>6 DEF NodeInserted
  <2>2. /\ NodeAdded(p.nodes, p.node_lookup, r, q.nodes, q.node_lookup)
        /\ NodesIndexed(q.nodes, q.node_lookup)
    BY <1>4, <1>6, <2>1, NodeIndexed
  <2>3. /\ q.nodes \in Seq(Seq(NodeRevision)) /\ q.node_lookup \in [Entities -> Nat \cup {None}]
        /\ Len(q.nodes) = Len(p.nodes) + 1
        /\ \A e \in Entities : p.node_lookup[e] # None => q.node_lookup[e] = p.node_lookup[e]
    BY <1>6, <2>2 DEF NodeAdded
  <2>4. PICK m : m = Len(p.nodes)
    OBVIOUS
  <2>5. PICK o : o = p.incident_offsets
    OBVIOUS
  <2>6. /\ o[m + 1] \in Nat /\ \A n \in 1..(m + 1) : q.incident_offsets[n] = o[n]
        /\ q.incident_offsets[m + 2] = o[m + 1]
    <3>1. m + 1 \in 1..Len(o) /\ m \in Nat
      BY <1>4, <2>4, <2>5
    <3>2. o[m + 1] \in Nat
      BY <1>4, <2>5, <3>1, ElementOfSeq
    <3>3. q.incident_offsets = Append(o, o[m + 1]) /\ o \in Seq(Nat) /\ Len(o) = m + 1
      BY <1>4, <2>1, <2>4, <2>5
    <3>4. /\ \A n \in 1..Len(o) : q.incident_offsets[n] = o[n]
          /\ q.incident_offsets[Len(o) + 1] = o[m + 1]
      BY <3>2, <3>3, AppendProperties
    <3>5. Len(o) + 1 = m + 2
      BY <3>1, <3>3
    <3>6. QED
      BY <3>2, <3>3, <3>4, <3>5
  <2>7. \A k \in 1..Len(p.facts) :
          /\ q.node_lookup[p.facts[k].source] = p.node_lookup[p.facts[k].source]
          /\ q.node_lookup[p.facts[k].target] = p.node_lookup[p.facts[k].target]
          /\ p.node_lookup[p.facts[k].source] # m /\ p.node_lookup[p.facts[k].target] # m
    <3> SUFFICES ASSUME NEW k \in 1..Len(p.facts)
                 PROVE  /\ q.node_lookup[p.facts[k].source] = p.node_lookup[p.facts[k].source]
                        /\ q.node_lookup[p.facts[k].target] = p.node_lookup[p.facts[k].target]
                        /\ p.node_lookup[p.facts[k].source] # m
                        /\ p.node_lookup[p.facts[k].target] # m
      OBVIOUS
    <3>1. p.facts[k] \in Fact
      BY <1>4, ElementOfSeq
    <3>2. p.facts[k].source \in Entities /\ p.facts[k].target \in Entities
      BY <3>1, ByIsSupersession
    <3>3. /\ p.node_lookup[p.facts[k].source] # None
          /\ p.node_lookup[p.facts[k].target] # None
      BY <1>4 DEF FactsGrounded
    <3>4. ASSUME NEW e \in Entities, p.node_lookup[e] # None PROVE p.node_lookup[e] # m
      <4>1. p.node_lookup[e] + 1 \in 1..Len(p.nodes) /\ p.node_lookup[e] \in Nat
        BY <1>4, <3>4 DEF NodesIndexed
      <4>2. QED
        BY <1>4, <2>4, <4>1
    <3>5. QED
      BY <2>3, <3>2, <3>3, <3>4
  <2>8. \A n : Touched(q.facts, q.node_lookup, n) = Touched(p.facts, p.node_lookup, n)
    BY <1>3, <2>7 DEF Touched
  <2>9. ASSUME NEW n \in 0..(Len(q.nodes) - 1)
        PROVE  /\ Stable(q, n) \in Seq(Nat)
               /\ Lists(Stable(q, n) \o q.incident_delta[n], Len(q.facts),
                        Touched(q.facts, q.node_lookup, n))
    <3>1. CASE n \in 0..(m - 1)
      <4>1. n + 1 \in 1..(m + 1) /\ n + 2 \in 1..(m + 1)
        BY <1>4, <2>4, <3>1
      <4>2. Stable(q, n) = Stable(p, n)
        BY <1>3, <2>5, <2>6, <4>1 DEF Stable
      <4>3. /\ Stable(p, n) \in Seq(Nat)
            /\ Lists(Stable(p, n) \o p.incident_delta[n], Len(p.facts),
                     Touched(p.facts, p.node_lookup, n))
        BY <2>4, <3>1 DEF Listed
      <4>4. QED
        BY <1>3, <2>8, <4>2, <4>3
    <3>2. CASE n = m
      <4>1. m + 1 \in 1..(m + 1) /\ n + 1 = m + 1 /\ n + 2 = m + 2
        BY <1>4, <2>4, <3>2
      <4>2. q.incident_offsets[n + 1] = o[m + 1] /\ q.incident_offsets[n + 2] = o[m + 1]
        BY <2>6, <4>1
      <4>3. Stable(q, n) = <<>>
        <5>1. o[m + 1] + 1 \in Int /\ o[m + 1] \in Int /\ o[m + 1] < o[m + 1] + 1
          BY <2>6
        <5>2. SubSeq(q.incident_facts, o[m + 1] + 1, o[m + 1]) = <<>>
          BY <5>1, SubSeqEmpty
        <5>3. QED
          BY <4>2, <5>2 DEF Stable
      <4>4. n \in NodeIndex
        BY <2>2, <2>3, NodesFit
      <4>5. q.incident_delta[n] = <<>>
        <5>1. n >= Len(p.nodes)
          BY <1>4, <2>4, <3>2
        <5>2. QED
          BY <1>3, <4>4, <5>1 DEF Listed
      <4>6. Stable(q, n) \o q.incident_delta[n] = <<>>
        BY <4>3, <4>5
      <4>7. \A k \in 1..Len(q.facts) : k \notin Touched(q.facts, q.node_lookup, n)
        BY <1>3, <2>7, <3>2 DEF Touched
      <4>8. Lists(<<>>, Len(q.facts), Touched(q.facts, q.node_lookup, n))
        BY <4>7 DEF Lists
      <4>9. QED
        BY <4>3, <4>6, <4>8
    <3>3. QED
      BY <1>4, <2>3, <2>4, <3>1, <3>2
  <2>10. ASSUME NEW n \in NodeIndex, n >= Len(q.nodes) PROVE q.incident_delta[n] = <<>>
    <3>1. n \in Int
      BY <1>4, NodesFit DEF NodeIndex
    <3>2. n >= Len(p.nodes)
      BY <1>4, <2>3, <2>10, <3>1
    <3>3. QED
      BY <1>3, <3>2 DEF Listed
  <2>11. Listed(q)
    BY <2>9, <2>10 DEF Listed
  <2>12. QED
    BY <1>1, <2>11
<1>7. QED
  BY <1>5, <1>6

\* apply keeps the lists.
LEMMA ApplyListed ==
  ASSUME NEW p, Sound(p), Listed(p), NEW payload \in MemoryEvent, NEW at \in Time,
         NEW position \in Nat, Accepts(p, payload, at)
  PROVE  Listed(Apply(p, payload, at, position))
<1>1. PICK q : Outcome(p, payload, at, position, q)
  BY ApplyCases
<1>2. Sound(q) /\ Apply(p, payload, at, position) = [q EXCEPT !.last_global_position = position]
  BY <1>1 DEF Outcome
<1>3. Listed(q)
  <2>1. CASE payload.kind = "NodeUpserted" /\ payload.id \in Entities
    <3>1. PICK r : r = [id |-> payload.id, recorded_at |-> at, position |-> position]
      OBVIOUS
    <3>2. r \in NodeRevision
      BY <2>1, <3>1 DEF NodeRevision
    <3>3. q = InsertNode(p, r)
      BY <1>1, <2>1, <3>1 DEF Outcome
    <3>4. QED
      BY <3>2, <3>3, NodeListed
  <2>2. CASE payload.kind = "FactRecorded" /\ payload.fact \in Fact
    <3>1. q = InsertFact(p, payload.fact) /\ CanInsertFact(p, payload.fact)
      BY <1>1, <2>2 DEF Outcome
    <3>2. QED
      BY <2>2, <3>1, FactListed
  <2>3. CASE payload.kind = "FactRetracted"
    <3>1. q = ApplyRetraction(p, payload.fact_id, payload.valid_until, at)
      BY <1>1, <2>3 DEF Outcome
    <3>2. /\ q.nodes = p.nodes /\ q.facts = p.facts /\ q.node_lookup = p.node_lookup
          /\ q.incident_offsets = p.incident_offsets /\ q.incident_facts = p.incident_facts
          /\ q.incident_delta = p.incident_delta
      BY <3>1 DEF ApplyRetraction, Sound, Projection
    <3>3. QED
      BY <3>2, ListedSame
  <2>4. QED
    BY <2>1, <2>2, <2>3, PayloadKinds
<1>4. PICK q2 : q2 = [q EXCEPT !.last_global_position = position]
  OBVIOUS
<1>5. /\ q2.nodes = q.nodes /\ q2.facts = q.facts /\ q2.node_lookup = q.node_lookup
      /\ q2.incident_offsets = q.incident_offsets /\ q2.incident_facts = q.incident_facts
      /\ q2.incident_delta = q.incident_delta
  BY <1>2, <1>4 DEF Sound, Projection
<1>6. Listed(q2)
  BY <1>3, <1>5, ListedSame
<1>7. QED
  BY <1>2, <1>4, <1>6

\* The empty projection is sound and lists nothing.
LEMMA EmptySound == Sound(EmptyProjection) /\ Listed(EmptyProjection)
<1>1. PICK p : p = EmptyProjection
  OBVIOUS
<1>2. p \in Projection
  BY <1>1 DEF EmptyProjection, Projection
<1>3. /\ p.nodes = <<>> /\ p.facts = <<>> /\ p.incident_offsets = <<0>>
      /\ p.node_lookup = [e \in Entities |-> None] /\ p.fact_lookup = [f \in FactIds |-> None]
      /\ p.supersessions = [f \in FactIds |-> None] /\ p.retractions = [f \in FactIds |-> None]
      /\ p.incident_delta = [n \in NodeIndex |-> <<>>]
  BY <1>1 DEF EmptyProjection
<1>4. Len(p.nodes) = 0 /\ Len(p.facts) = 0 /\ Len(p.incident_offsets) = 1
  BY <1>3
<1>5. /\ NodesIndexed(p.nodes, p.node_lookup) /\ FactsIndexed(p.facts, p.fact_lookup)
      /\ FactsGrounded(p.facts, p.node_lookup)
  BY <1>3, <1>4 DEF NodesIndexed, FactsIndexed, FactsGrounded
<1>6. Replaced(p.facts, p.supersessions) /\ Retracted(p.facts, p.retractions)
  BY <1>3, <1>4 DEF Replaced, Retracted
<1>7. Sound(p)
  BY <1>2, <1>4, <1>5, <1>6 DEF Sound
<1>8. Listed(p)
  BY <1>3, <1>4 DEF Listed
<1>9. QED
  BY <1>1, <1>7, <1>8

\* The indexes of a projection are exact: the incident facts of an entity are
\* its facts, in order.
LEMMA ListsExact ==
  ASSUME NEW p, Sound(p), Listed(p), NEW e \in Entities,
         NEW mine,
         mine = Filtered(p.facts, {k \in DOMAIN p.facts : e \in {p.facts[k].source, p.facts[k].target}})
  PROVE  IncidentFactIds(p, e) = [k \in DOMAIN mine |-> mine[k].id]
<1>1. /\ p \in Projection /\ NodesIndexed(p.nodes, p.node_lookup)
      /\ FactsGrounded(p.facts, p.node_lookup)
      /\ p.nodes \in Seq(Seq(NodeRevision)) /\ p.facts \in Seq(Fact)
      /\ p.node_lookup \in [Entities -> Nat \cup {None}]
      /\ Len(p.facts) \in Nat /\ Len(p.nodes) \in Nat /\ DOMAIN p.facts = 1..Len(p.facts)
  BY ProjectionFields, LenProperties DEF Sound
<1>2. PICK kept :
        kept = {k \in DOMAIN p.facts : e \in {p.facts[k].source, p.facts[k].target}}
  OBVIOUS
<1>3. mine = Filtered(p.facts, kept)
  BY <1>2
<1>4. /\ mine \in Seq(Fact)
      /\ \A k \in 1..Len(mine) : \E i \in 1..Len(p.facts) : i \in kept /\ mine[k] = p.facts[i]
  <2>1. PICK facts : facts = p.facts
    OBVIOUS
  <2>2. facts \in Seq(Fact)
    BY <1>1, <2>1
  <2>3. Keeps(mine, Fact, p.facts, kept)
    BY <1>3, <2>1, <2>2, FilteredMembers
  <2>4. QED
    BY <2>3 DEF Keeps
<1>5. \A k \in 1..Len(p.facts) :
        /\ p.facts[k].source \in Entities /\ p.facts[k].target \in Entities
        /\ p.node_lookup[p.facts[k].source] # None /\ p.node_lookup[p.facts[k].target] # None
  <2>1. \A k \in 1..Len(p.facts) : p.facts[k] \in Fact
    BY <1>1, ElementOfSeq
  <2>2. QED
    BY <1>1, <2>1, ByIsSupersession DEF FactsGrounded
<1>6. CASE p.node_lookup[e] = None
  <2>1. \A k \in 1..Len(p.facts) : k \notin kept
    BY <1>2, <1>5, <1>6
  <2>2. Len(mine) \in Nat /\ \A k \in 1..Len(mine) : FALSE
    BY <1>4, <2>1, LenProperties
  <2>3. Len(mine) = 0
    <3>1. Len(mine) # 0 => 1 \in 1..Len(mine)
      BY <2>2
    <3>2. QED
      BY <2>2, <3>1
  <2>4. mine = <<>>
    BY <1>4, <2>3, EmptySeq
  <2>5. [k \in DOMAIN mine |-> mine[k].id] = <<>>
    <3>1. PICK g : g = [k \in DOMAIN mine |-> mine[k].id]
      OBVIOUS
    <3>2. g \in [1..0 -> FactIds]
      BY <2>4, <3>1
    <3>3. g \in Seq(FactIds) /\ Len(g) = 0
      BY <3>2, IsASeq
    <3>4. QED
      BY <3>1, <3>3, EmptySeq
  <2>6. IncidentFactIds(p, e) = <<>>
    BY <1>6 DEF IncidentFactIds
  <2>7. QED
    BY <2>5, <2>6
<1>7. CASE p.node_lookup[e] # None
  <2>1. PICK n : n = p.node_lookup[e]
    OBVIOUS
  <2>2. /\ n \in Nat /\ n + 1 \in 1..Len(p.nodes) /\ p.nodes[n + 1][1].id = e
        /\ n \in 0..(Len(p.nodes) - 1)
    <3>1. n \in Nat /\ n + 1 \in 1..Len(p.nodes) /\ p.nodes[n + 1][1].id = e
      BY <1>1, <1>7, <2>1 DEF NodesIndexed
    <3>2. QED
      BY <1>1, <3>1
  <2>3. PICK found : found = Stable(p, n) \o p.incident_delta[n]
    OBVIOUS
  <2>4. Lists(found, Len(p.facts), Touched(p.facts, p.node_lookup, n))
    BY <2>2, <2>3 DEF Listed
  <2>5. \A x \in Entities : p.node_lookup[x] = n => x = e
    <3>1. \A x \in Entities : p.node_lookup[x] # None => p.nodes[p.node_lookup[x] + 1][1].id = x
      BY <1>1 DEF NodesIndexed
    <3>2. QED
      BY <1>7, <2>1, <2>2, <3>1
  <2>6. \A k \in 1..Len(p.facts) : k \in kept <=> k \in Touched(p.facts, p.node_lookup, n)
    BY <1>1, <1>2, <1>5, <2>1, <2>5 DEF Touched
  <2>7. PICK m : m = Len(found)
    OBVIOUS
  <2>8. PICK q : q = [d \in 1..m |-> found[d] + 1]
    OBVIOUS
  <2>9. m \in Nat /\ DOMAIN found = 1..m /\ \A d \in 1..m : found[d] \in Nat /\ q[d] = found[d] + 1
    BY <2>4, <2>7, <2>8, LenProperties, ElementOfSeq DEF Lists
  <2>10. Enumerates(q, m, p.facts, kept)
    <3>1. \A d \in 1..m : q[d] \in 1..Len(p.facts)
      BY <2>4, <2>7, <2>9 DEF Lists
    <3>2. ASSUME NEW d \in 1..m, NEW c \in 1..(d - 1) PROVE q[c] < q[d]
      <4>1. found[c] < found[d]
        BY <2>4, <2>7 DEF Lists
      <4>2. c \in 1..m
        BY <2>9
      <4>3. q[c] = found[c] + 1 /\ q[d] = found[d] + 1 /\ found[c] \in Nat /\ found[d] \in Nat
        BY <2>9, <4>2
      <4>4. QED
        BY <4>1, <4>3
    <3>3. ASSUME NEW i \in 1..Len(p.facts) PROVE i \in kept <=> \E d \in 1..m : q[d] = i
      <4>1. ASSUME i \in kept PROVE \E d \in 1..m : q[d] = i
        <5>1. PICK d \in 1..m : found[d] = i - 1
          BY <2>4, <2>6, <2>7, <4>1 DEF Lists
        <5>2. q[d] = i
          BY <2>9, <5>1
        <5>3. QED
          BY <5>2
      <4>2. ASSUME NEW d \in 1..m, q[d] = i PROVE i \in kept
        <5>1. i \in Touched(p.facts, p.node_lookup, n)
          BY <2>4, <2>7, <2>9, <4>2 DEF Lists
        <5>2. QED
          BY <2>6, <5>1
      <4>3. QED
        BY <4>1, <4>2
    <3>4. QED
      BY <2>9, <3>1, <3>2, <3>3 DEF Enumerates
  <2>11. mine = [d \in 1..m |-> p.facts[q[d]]]
    <3>1. PICK facts : facts = p.facts
      OBVIOUS
    <3>2. facts \in Seq(Fact) /\ Enumerates(q, m, facts, kept)
      BY <1>1, <2>10, <3>1
    <3>3. Filtered(facts, kept) = [d \in 1..m |-> facts[q[d]]]
      BY <3>2, FilteredEnumerates
    <3>4. QED
      BY <1>3, <3>1, <3>3
  <2>12. IncidentFactIds(p, e) = [d \in 1..m |-> p.facts[found[d] + 1].id]
    BY <1>7, <2>1, <2>3, <2>9 DEF IncidentFactIds, Stable
  <2>13. DOMAIN mine = 1..m /\ \A d \in 1..m : mine[d] = p.facts[found[d] + 1]
    BY <2>9, <2>11
  <2>14. QED
    BY <2>12, <2>13
<1>8. QED
  BY <1>6, <1>7

-----------------------------------------------------------------------------
\* The views.

\* What VisibleRevision returns of a history.
Newest(history, at, k) ==
  /\ k \in 1..Len(history) /\ history[k].recorded_at <= at
  /\ \A j \in 1..Len(history) : history[j].recorded_at <= at =>
       \/ history[k].recorded_at > history[j].recorded_at
       \/ history[k].recorded_at = history[j].recorded_at /\ history[k].position >= history[j].position

\* Numbers given for finitely many places have a greatest one among any of them.
LEMMA GreatestAmong ==
  ASSUME NEW n \in Nat, NEW f, \A i \in 1..n : f[i] \in Nat, NEW S, S \subseteq 1..n, S # {}
  PROVE  \E k \in S : \A j \in S : f[j] <= f[k]
<1> DEFINE B == {m \in Nat : \E b \in Nat : \A i \in 1..m : i \in S => f[i] <= b}
<1>1. 0 \in B
  OBVIOUS
<1>2. \A m \in 0..(n - 1) : m \in B => m + 1 \in B
  <2> SUFFICES ASSUME NEW m \in 0..(n - 1), m \in B PROVE m + 1 \in B
    OBVIOUS
  <2>1. PICK b \in Nat : \A i \in 1..m : i \in S => f[i] <= b
    OBVIOUS
  <2>2. PICK x \in Nat : x = f[m + 1]
    <3>1. m + 1 \in 1..n
      OBVIOUS
    <3>2. QED
      BY <3>1
  <2>3. b + x \in Nat /\ b <= b + x /\ x <= b + x /\ m + 1 \in Nat
    OBVIOUS
  <2>4. ASSUME NEW i \in 1..(m + 1), i \in S PROVE f[i] <= b + x
    <3>1. CASE i = m + 1
      BY <2>2, <2>3, <3>1
    <3>2. CASE i \in 1..m
      <4>1. PICK y \in Nat : y = f[i]
        BY <3>2
      <4>2. y <= b
        BY <2>1, <2>4, <3>2, <4>1
      <4>3. QED
        BY <2>3, <4>1, <4>2
    <3>3. QED
      BY <3>1, <3>2
  <2>5. QED
    BY <2>3, <2>4
<1> HIDE DEF B
<1>3. \A m \in 0..n : m \in B
  BY <1>1, <1>2, InductionUpTo
<1>4. PICK b \in Nat : \A i \in 1..n : i \in S => f[i] <= b
  <2>1. n \in B
    BY <1>3
  <2>2. QED
    BY <2>1 DEF B
<1> DEFINE V == {f[i] : i \in S}
<1>5. V \subseteq Nat /\ V # {}
  OBVIOUS
<1>6. \A v \in V : v <= b
  BY <1>4
<1> HIDE DEF V
<1>7. PICK v \in V : \A w \in V : w <= v
  BY <1>5, <1>6, GreatestElement
<1>8. QED
  BY <1>7 DEF V

\* A history of which something is known has a newest known revision.
LEMMA NewestExists ==
  ASSUME NEW history \in Seq(NodeRevision), NEW at \in Nat,
         NEW i \in 1..Len(history), history[i].recorded_at <= at
  PROVE  \E k : Newest(history, at, k)
<1>1. Len(history) \in Nat /\ \A k \in 1..Len(history) : history[k] \in NodeRevision
  BY ElementOfSeq, LenProperties
<1>2. \A k \in 1..Len(history) : history[k].recorded_at \in Nat /\ history[k].position \in Nat
  BY <1>1 DEF NodeRevision, Time
<1>3. PICK n, f, g :
        /\ n = Len(history)
        /\ f = [k \in 1..n |-> history[k].recorded_at] /\ g = [k \in 1..n |-> history[k].position]
  OBVIOUS
<1>4. /\ n \in Nat
      /\ \A k \in 1..n : f[k] \in Nat /\ f[k] = history[k].recorded_at
      /\ \A k \in 1..n : g[k] \in Nat /\ g[k] = history[k].position
  BY <1>1, <1>2, <1>3
<1>5. PICK S : S = {k \in 1..n : f[k] <= at}
  OBVIOUS
<1>6. S \subseteq 1..n /\ S # {}
  BY <1>3, <1>4, <1>5
<1>7. PICK m \in S : \A j \in S : f[j] <= f[m]
  BY <1>4, <1>6, GreatestAmong
<1>8. PICK T : T = {k \in S : f[k] = f[m]}
  OBVIOUS
<1>9. T \subseteq 1..n /\ T # {}
  BY <1>6, <1>7, <1>8
<1>10. PICK k \in T : \A j \in T : g[j] <= g[k]
  BY <1>4, <1>9, GreatestAmong
<1>11. k \in 1..n /\ f[k] = f[m] /\ f[k] <= at
  BY <1>5, <1>8, <1>10
<1>12. ASSUME NEW j \in 1..n, f[j] <= at
       PROVE  f[k] > f[j] \/ (f[k] = f[j] /\ g[k] >= g[j])
  <2>1. j \in S /\ f[j] <= f[k]
    BY <1>5, <1>7, <1>11, <1>12
  <2>2. CASE f[j] = f[k]
    BY <1>4, <1>8, <1>10, <1>11, <2>1, <2>2
  <2>3. CASE f[j] # f[k]
    BY <1>4, <1>11, <2>1, <2>3
  <2>4. QED
    BY <2>2, <2>3
<1>13. Newest(history, at, k)
  BY <1>3, <1>4, <1>11, <1>12 DEF Newest
<1>14. QED
  BY <1>13

\* The known revisions of a history, and the newest of them.
KnownAt(history, at) == {k \in DOMAIN history : history[k].recorded_at <= at}

NewestAt(history, at) ==
  {k \in KnownAt(history, at) : \A j \in KnownAt(history, at) :
     \/ history[k].recorded_at > history[j].recorded_at
     \/ history[k].recorded_at = history[j].recorded_at /\ history[k].position >= history[j].position}

\* visible_revision takes one of the newest known revisions.
LEMMA VisibleRevisionChoice ==
  ASSUME NEW history, NEW at
  PROVE  VisibleRevision(history, at)
           = IF KnownAt(history, at) = {} THEN None
             ELSE history[CHOOSE k \in NewestAt(history, at) : TRUE]
  BY Zenon DEF VisibleRevision, KnownAt, NewestAt

\* What visible_revision finds is a newest known revision of the history.
LEMMA VisibleIsNewest ==
  ASSUME NEW history \in Seq(NodeRevision), NEW at \in Nat, VisibleRevision(history, at) # None
  PROVE  \E k \in 1..Len(history) : VisibleRevision(history, at) = history[k]
<1>1. DOMAIN history = 1..Len(history)
  BY LenProperties
<1>2. KnownAt(history, at) # {}
  BY VisibleRevisionChoice
<1>3. PICK i \in 1..Len(history) : history[i].recorded_at <= at
  BY <1>1, <1>2 DEF KnownAt
<1>4. PICK k : Newest(history, at, k)
  BY <1>3, NewestExists
<1>5. k \in NewestAt(history, at)
  BY <1>1, <1>4 DEF Newest, NewestAt, KnownAt
<1>6. PICK c : c = CHOOSE x \in NewestAt(history, at) : TRUE
  OBVIOUS
<1>7. c \in NewestAt(history, at)
  BY <1>5, <1>6, Zenon
<1>8. c \in 1..Len(history)
  BY <1>1, <1>7 DEF NewestAt, KnownAt
<1>9. VisibleRevision(history, at) = history[c]
  BY <1>2, <1>6, VisibleRevisionChoice, Zenon
<1>10. QED
  BY <1>8, <1>9

\* Revisions that are not known do not count.
LEMMA VisibleIgnoresTheUnknown ==
  ASSUME NEW history \in Seq(NodeRevision), NEW new \in Seq(NodeRevision), NEW at \in Nat,
         Len(history) <= Len(new), \A j \in 1..Len(history) : new[j] = history[j],
         \A j \in 1..Len(new) : new[j].recorded_at <= at => j \in 1..Len(history)
  PROVE  VisibleRevision(new, at) = VisibleRevision(history, at)
<1>1. /\ DOMAIN history = 1..Len(history) /\ DOMAIN new = 1..Len(new)
      /\ Len(history) \in Nat /\ Len(new) \in Nat
  BY LenProperties
<1>2. \A j \in 1..Len(history) : j \in 1..Len(new)
  BY <1>1
<1>3. KnownAt(new, at) = KnownAt(history, at)
  BY <1>1, <1>2 DEF KnownAt
<1>4. \A j \in KnownAt(history, at) : new[j] = history[j]
  BY <1>1 DEF KnownAt
<1>5. NewestAt(new, at) = NewestAt(history, at)
  BY <1>3, <1>4, Zenon DEF NewestAt
<1>6. CASE KnownAt(history, at) = {}
  BY <1>3, <1>6, VisibleRevisionChoice
<1>7. CASE KnownAt(history, at) # {}
  <2>1. PICK c : c = CHOOSE x \in NewestAt(history, at) : TRUE
    OBVIOUS
  <2>2. PICK i \in 1..Len(history) : history[i].recorded_at <= at
    BY <1>1, <1>7 DEF KnownAt
  <2>3. PICK k : Newest(history, at, k)
    BY <2>2, NewestExists
  <2>4. k \in NewestAt(history, at)
    BY <1>1, <2>3 DEF Newest, NewestAt, KnownAt
  <2>5. c \in NewestAt(history, at)
    BY <2>1, <2>4, Zenon
  <2>6. new[c] = history[c]
    BY <1>4, <2>5 DEF NewestAt
  <2>7. VisibleRevision(history, at) = history[c]
    BY <1>7, <2>1, VisibleRevisionChoice, Zenon
  <2>8. VisibleRevision(new, at) = new[c]
    BY <1>3, <1>5, <1>7, <2>1, VisibleRevisionChoice, Zenon
  <2>9. QED
    BY <2>6, <2>7, <2>8
<1>8. QED
  BY <1>6, <1>7

\* The revisions a view takes its nodes from, one for every node.
Revisions(p, at) == [n \in DOMAIN p.nodes |-> VisibleRevision(p.nodes[n], at)]

\* The nodes of a view are the visible revisions, none left out.
LEMMA NodesOfAView ==
  ASSUME NEW p, Sound(p), NEW at \in Nat
  PROVE  \E S : /\ Revisions(p, at) \in Seq(S)
                /\ Len(Revisions(p, at)) = Len(p.nodes)
                /\ \A n \in 1..Len(p.nodes) : Revisions(p, at)[n] = VisibleRevision(p.nodes[n], at)
                /\ Keeps(VisibleNodes(p, at), S, Revisions(p, at),
                         {n \in 1..Len(p.nodes) : VisibleRevision(p.nodes[n], at) # None})
<1>1. PICK nodes : nodes = p.nodes
  OBVIOUS
<1>2. nodes \in Seq(Seq(NodeRevision)) /\ Len(nodes) \in Nat /\ DOMAIN nodes = 1..Len(nodes)
  BY <1>1, ProjectionFields, LenProperties DEF Sound
<1>3. PICK v : v = [n \in 1..Len(nodes) |-> VisibleRevision(nodes[n], at)]
  OBVIOUS
<1>4. v = Revisions(p, at)
  BY <1>1, <1>2, <1>3 DEF Revisions
<1>5. PICK S : S = {v[n] : n \in 1..Len(nodes)}
  OBVIOUS
<1>6. v \in [1..Len(nodes) -> S]
  BY <1>3, <1>5
<1>7. v \in Seq(S) /\ Len(v) = Len(nodes) /\ DOMAIN v = 1..Len(nodes)
  <2>1. PICK m \in Nat : m = Len(nodes)
    BY <1>2
  <2>2. v \in [1..m -> S]
    BY <1>6, <2>1
  <2>3. v \in Seq(S) /\ Len(v) = m
    BY <2>2
  <2>4. QED
    BY <2>1, <2>2, <2>3
<1>8. PICK kept : kept = {n \in DOMAIN v : v[n] # None}
  OBVIOUS
<1>9. VisibleNodes(p, at) = Filtered(v, kept)
  BY <1>4, <1>8, Zenon DEF VisibleNodes, Revisions
<1>10. kept = {n \in 1..Len(nodes) : VisibleRevision(nodes[n], at) # None}
  BY <1>3, <1>7, <1>8
<1>11. Keeps(VisibleNodes(p, at), S, v, kept)
  BY <1>7, <1>9, FilteredMembers
<1>12. \A n \in 1..Len(nodes) : v[n] = VisibleRevision(nodes[n], at)
  BY <1>3
<1>13. QED
  BY <1>1, <1>4, <1>7, <1>10, <1>11, <1>12

\* The identifiers of the nodes of a view.
ViewIds(p, at) == {VisibleNodes(p, at)[n].id : n \in DOMAIN VisibleNodes(p, at)}

\* If no node is hidden, every identifier the projection knows is in the view.
LEMMA NothingHidden ==
  ASSUME NEW p, Sound(p), NEW at \in Nat, Len(VisibleNodes(p, at)) = Len(p.nodes),
         NEW e \in Entities, p.node_lookup[e] # None
  PROVE  e \in ViewIds(p, at)
<1>1. PICK nodes, lookup, out, vs :
        /\ nodes = p.nodes /\ lookup = p.node_lookup
        /\ out = VisibleNodes(p, at) /\ vs = Revisions(p, at)
  OBVIOUS
<1>2. /\ nodes \in Seq(Seq(NodeRevision)) /\ lookup \in [Entities -> Nat \cup {None}]
      /\ NodesIndexed(nodes, lookup)
  BY <1>1, ProjectionFields DEF Sound
<1>3. PICK n : n = lookup[e] + 1
  OBVIOUS
<1>4. n \in 1..Len(nodes) /\ nodes[n][1].id = e
  BY <1>1, <1>2, <1>3 DEF NodesIndexed
<1>5. PICK S : /\ Len(vs) = Len(nodes)
               /\ \A m \in 1..Len(nodes) : vs[m] = VisibleRevision(nodes[m], at)
               /\ Keeps(out, S, vs, {m \in 1..Len(nodes) : VisibleRevision(nodes[m], at) # None})
  BY <1>1, NodesOfAView
<1>6. Len(out) = Len(vs)
  BY <1>1, <1>5
<1>7. VisibleRevision(nodes[n], at) # None
  BY <1>4, <1>5, <1>6 DEF Keeps
<1>8. PICK k \in 1..Len(out) : out[k] = vs[n]
  BY <1>4, <1>5, <1>7 DEF Keeps
<1>9. nodes[n] \in Seq(NodeRevision) /\ \A r \in 1..Len(nodes[n]) : nodes[n][r].id = e
  BY <1>2, <1>4, NodeHistories DEF NodesIndexed
<1>10. VisibleRevision(nodes[n], at).id = e
  BY <1>7, <1>9, VisibleIsNewest
<1>11. out[k].id = e
  BY <1>4, <1>5, <1>8, <1>10
<1>12. DOMAIN out = 1..Len(out)
  BY <1>5, LenProperties DEF Keeps
<1>13. QED
  BY <1>1, <1>8, <1>11, <1>12 DEF ViewIds

\* The facts of a view: the active ones with both endpoints in the view, also
\* when the code does not look at the endpoints.
Shown(p, valid_at, at) ==
  {k \in DOMAIN p.facts : /\ {p.facts[k].source, p.facts[k].target} \subseteq ViewIds(p, at)
                          /\ FactIsActive(p, p.facts[k], valid_at, at)}

\* view_ref shows these facts, whether or not it tested the endpoints.
LEMMA FactsOfAView ==
  ASSUME NEW p, Sound(p), NEW valid_at \in Nat, NEW at \in Nat
  PROVE  ViewRef(p, valid_at, at)
           = [nodes |-> VisibleNodes(p, at), facts |-> Filtered(p.facts, Shown(p, valid_at, at))]
<1>1. PICK facts, out, ids : facts = p.facts /\ out = VisibleNodes(p, at) /\ ids = ViewIds(p, at)
  OBVIOUS
<1>2. PICK shown :
        shown = {k \in DOMAIN facts : /\ Len(out) # Len(p.nodes) =>
                                           {facts[k].source, facts[k].target} \subseteq ids
                                      /\ FactIsActive(p, facts[k], valid_at, at)}
  OBVIOUS
<1>3. ViewRef(p, valid_at, at) = [nodes |-> out, facts |-> Filtered(facts, shown)]
  BY <1>1, <1>2, Zenon DEF ViewRef, ViewIds
<1>4. facts \in Seq(Fact) /\ DOMAIN facts = 1..Len(facts)
  BY <1>1, ProjectionFields, LenProperties DEF Sound
<1>5. ASSUME NEW k \in DOMAIN facts, Len(out) = Len(p.nodes)
      PROVE  {facts[k].source, facts[k].target} \subseteq ids
  <2>1. facts[k] \in Fact
    BY <1>4, ElementOfSeq
  <2>2. facts[k].source \in Entities /\ facts[k].target \in Entities
    BY <2>1, ByIsSupersession
  <2>3. p.node_lookup[facts[k].source] # None /\ p.node_lookup[facts[k].target] # None
    BY <1>1, <1>4 DEF Sound, FactsGrounded
  <2>4. QED
    BY <1>1, <1>5, <2>2, <2>3, NothingHidden
<1>6. shown = Shown(p, valid_at, at)
  BY <1>1, <1>2, <1>5 DEF Shown
<1>7. QED
  BY <1>1, <1>3, <1>6

\* Every fact of a view is an active fact of the projection.
LEMMA FactOfAView ==
  ASSUME NEW p, Sound(p), NEW valid_at \in Nat, NEW at \in Nat,
         NEW f \in ToSet(ViewRef(p, valid_at, at).facts)
  PROVE  \E k \in 1..Len(p.facts) :
           /\ f = p.facts[k] /\ f \in Fact
           /\ {f.source, f.target} \subseteq ViewIds(p, at)
           /\ FactIsActive(p, f, valid_at, at)
<1>1. PICK facts, kept, out :
        facts = p.facts /\ kept = Shown(p, valid_at, at) /\ out = Filtered(facts, kept)
  OBVIOUS
<1>2. facts \in Seq(Fact) /\ DOMAIN facts = 1..Len(facts)
  BY <1>1, ProjectionFields, LenProperties DEF Sound
<1>3. Keeps(out, Fact, facts, kept)
  BY <1>1, <1>2, FilteredMembers
<1>4. ViewRef(p, valid_at, at).facts = out
  BY <1>1, FactsOfAView
<1>5. DOMAIN out = 1..Len(out)
  BY <1>3, LenProperties DEF Keeps
<1>6. PICK j \in 1..Len(out) : f = out[j]
  BY <1>4, <1>5 DEF ToSet
<1>7. PICK k \in 1..Len(facts) : k \in kept /\ f = facts[k]
  BY <1>3, <1>6 DEF Keeps
<1>8. f \in Fact
  BY <1>2, <1>7, ElementOfSeq
<1>9. QED
  BY <1>1, <1>7, <1>8 DEF Shown

\* What makes the replacement active hides the fact it replaces.
LEMMA NeverBesideReplacement ==
  ASSUME NEW p, Sound(p), NEW valid_at \in Nat, NEW known_at \in Nat,
         NEW f \in ToSet(ViewRef(p, valid_at, known_at).facts),
         NEW g \in ToSet(ViewRef(p, valid_at, known_at).facts)
  PROVE  g.supersedes # f.id
<1> SUFFICES ASSUME g.supersedes = f.id PROVE FALSE
  OBVIOUS
<1>1. f \in Fact /\ FactIsActive(p, f, valid_at, known_at)
  BY FactOfAView
<1>2. PICK k \in 1..Len(p.facts) :
        g = p.facts[k] /\ g \in Fact /\ FactIsActive(p, g, valid_at, known_at)
  BY FactOfAView
<1>3. f.id \in FactIds /\ f.id # None
  BY <1>1, ByIsSupersession, ProjectionAssumption
<1>4. p.supersessions[f.id] = By(g) /\ By(g) # None
  BY <1>2, <1>3, ByIsSupersession DEF Sound, Replaced
<1>5. By(g).recorded_at = g.recorded_at /\ By(g).valid_from = g.valid_from
  BY DEF By
<1>6. g.recorded_at <= known_at /\ g.valid_from <= valid_at
  BY <1>2 DEF FactIsActive
<1>7. QED
  BY <1>1, <1>4, <1>5, <1>6 DEF FactIsActive

=============================================================================
