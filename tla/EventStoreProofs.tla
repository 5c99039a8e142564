-------------------------- MODULE EventStoreProofs --------------------------
(***************************************************************************)
(* Proofs about EventStore for every set of streams, identifiers and       *)
(* clients and for every batch length and number of appends.               *)
(***************************************************************************)
EXTENDS EventStore, InMemoryStoreProofs, TLAPS

\* The positions a write returned hold its events.
WriteReadable(st, w) ==
  /\ w \in Write
  /\ w.committed # <<>> =>
       LET first == w.committed[1].global_position
       IN  /\ first \in Nat
           /\ first + Len(w.committed) <= Len(st.events)
           /\ \A k \in 1..Len(w.committed) : st.events[first + k] = w.committed[k]

\* v holds the first events of stream s.
Begins(v, st, s) ==
  /\ v \in Seq(StoredEvent)
  /\ Len(v) <= Len(st.streams[s])
  /\ \A k \in 1..Len(v) : v[k] = st.events[st.streams[s][k] + 1]

\* The first event of an append with an expectation is the next event of its
\* stream behind what its author had loaded.
Grounded(st, w, base) ==
  (w.expected # "Any" /\ w.committed # <<>>) =>
    /\ Begins(base, st, w.stream)
    /\ Len(base) + 1 <= Len(st.streams[w.stream])
    /\ st.streams[w.stream][Len(base) + 1] = w.committed[1].global_position

\* The inductive invariant: a typed, well-formed store in which every
\* successful append is still readable and directly behind what its author
\* had loaded, and of which every client has loaded a beginning.
Inv ==
  /\ store \in Store
  /\ WellFormed(store)
  /\ writes \in Seq(Write)
  /\ \A n \in 1..Len(writes) : WriteReadable(store, writes[n])
  /\ view \in [Clients -> [Streams -> Seq(StoredEvent)]]
  /\ \A c \in Clients, s \in Streams : Begins(view[c][s], store, s)
  /\ bases \in Seq(Seq(StoredEvent)) /\ Len(bases) = Len(writes)
  /\ \A n \in 1..Len(writes) : Grounded(store, writes[n], bases[n])

\* The store `new` is `st` or a later state of it: what st has stays in place.
Grown(st, new) ==
  /\ new \in Store
  /\ Len(st.events) <= Len(new.events)
  /\ \A i \in 1..Len(st.events) : new.events[i] = st.events[i]
  /\ \A s \in Streams : /\ Len(st.streams[s]) <= Len(new.streams[s])
                        /\ \A k \in 1..Len(st.streams[s]) : new.streams[s][k] = st.streams[s][k]

\* A batch is a sequence of identifiers.
LEMMA BatchesAreSequences == ASSUME NEW ids \in Batches PROVE ids \in Seq(EventIds)
<1>1. PICK n \in 0..MaxBatch : ids \in [1..n -> EventIds]
  BY DEF Batches
<1>2. n \in Nat
  BY BoundsAssumption
<1>3. QED
  BY <1>1, <1>2, IsASeq

\* A longer log with the same beginning keeps every earlier write readable.
LEMMA WriteReadableExtended ==
  ASSUME NEW st \in Store, NEW new \in Store, NEW w, WriteReadable(st, w),
         Len(new.events) >= Len(st.events),
         \A i \in 1..Len(st.events) : new.events[i] = st.events[i]
  PROVE  WriteReadable(new, w)
<1>1. Len(new.events) \in Nat /\ Len(st.events) \in Nat
  BY StoreFields, LenProperties
<1>2. CASE w.committed = <<>>
  BY <1>2 DEF WriteReadable
<1>3. CASE w.committed # <<>>
  <2> DEFINE first == w.committed[1].global_position
             n == Len(w.committed)
  <2>1. /\ w \in Write /\ first \in Nat /\ first + n <= Len(st.events)
        /\ \A k \in 1..n : st.events[first + k] = w.committed[k]
    BY <1>3 DEF WriteReadable
  <2>2. n \in Nat
    BY <2>1, LenProperties DEF Write
  <2> HIDE DEF first, n
  <2>3. first + n <= Len(new.events)
    BY <1>1, <2>1, <2>2
  <2>4. \A k \in 1..n : first + k \in 1..Len(st.events)
    BY <1>1, <2>1, <2>2
  <2>5. \A k \in 1..n : new.events[first + k] = w.committed[k]
    BY <2>1, <2>4
  <2>6. QED
    BY <2>1, <2>3, <2>5 DEF WriteReadable, first, n
<1>4. QED
  BY <1>2, <1>3

\* What a client has loaded stays a beginning of the stream.
LEMMA BeginsGrown ==
  ASSUME NEW st \in Store, WellFormed(st), NEW new, Grown(st, new), NEW s \in Streams,
         NEW v, Begins(v, st, s)
  PROVE  Begins(v, new, s)
<1>1. Len(v) \in Nat /\ Len(st.streams[s]) \in Nat /\ Len(new.streams[s]) \in Nat
  BY StoreFields, LenProperties DEF Begins, Grown
<1>2. v \in Seq(StoredEvent) /\ Len(v) <= Len(new.streams[s])
  BY <1>1 DEF Begins, Grown
<1>3. ASSUME NEW k \in 1..Len(v) PROVE v[k] = new.events[new.streams[s][k] + 1]
  <2>1. k \in 1..Len(st.streams[s])
    BY <1>1 DEF Begins
  <2>2. new.streams[s][k] = st.streams[s][k] /\ st.streams[s][k] + 1 \in 1..Len(st.events)
    BY <2>1 DEF Grown, WellFormed, StreamIndexSound
  <2>3. QED
    BY <2>2 DEF Begins, Grown
<1>4. QED
  BY <1>2, <1>3 DEF Begins

\* An append stays directly behind what its author had loaded.
LEMMA GroundedGrown ==
  ASSUME NEW st \in Store, WellFormed(st), NEW new, Grown(st, new),
         NEW w \in Write, NEW base, Grounded(st, w, base)
  PROVE  Grounded(new, w, base)
<1> SUFFICES ASSUME w.expected # "Any", w.committed # <<>>
             PROVE  /\ Begins(base, new, w.stream)
                    /\ Len(base) + 1 <= Len(new.streams[w.stream])
                    /\ new.streams[w.stream][Len(base) + 1] = w.committed[1].global_position
  BY DEF Grounded
<1>1. w.stream \in Streams
  BY DEF Write
<1>2. /\ Begins(base, st, w.stream)
      /\ Len(base) + 1 <= Len(st.streams[w.stream])
      /\ st.streams[w.stream][Len(base) + 1] = w.committed[1].global_position
  BY DEF Grounded
<1>3. /\ Len(base) \in Nat /\ Len(st.streams[w.stream]) \in Nat
      /\ Len(new.streams[w.stream]) \in Nat
  BY <1>1, <1>2, StoreFields, LenProperties DEF Begins, Grown
<1>4. Len(base) + 1 \in 1..Len(st.streams[w.stream])
  BY <1>2, <1>3
<1>5. /\ Len(st.streams[w.stream]) <= Len(new.streams[w.stream])
      /\ new.streams[w.stream][Len(base) + 1] = st.streams[w.stream][Len(base) + 1]
  BY <1>1, <1>4 DEF Grown
<1>6. QED
  BY <1>1, <1>2, <1>3, <1>5, BeginsGrown

\* A commit only adds.
LEMMA ExtendedGrown ==
  ASSUME NEW st \in Store, NEW new, NEW s \in Streams, NEW b, Len(b) \in Nat,
         Extended(st, new, s, b)
  PROVE  Grown(st, new)
<1>1. Len(st.events) \in Nat /\ \A t \in Streams : Len(st.streams[t]) \in Nat
  BY StoreFields, LenProperties
<1>2. /\ new \in Store
      /\ Len(st.events) <= Len(new.events)
      /\ \A i \in 1..Len(st.events) : new.events[i] = st.events[i]
  BY <1>1 DEF Extended
<1>3. ASSUME NEW t \in Streams
      PROVE  /\ Len(st.streams[t]) <= Len(new.streams[t])
             /\ \A k \in 1..Len(st.streams[t]) : new.streams[t][k] = st.streams[t][k]
  <2>1. CASE t = s
    BY <1>1, <2>1 DEF Extended
  <2>2. CASE t # s
    BY <1>1, <2>2 DEF Extended
  <2>3. QED
    BY <2>1, <2>2
<1>4. QED
  BY <1>2, <1>3 DEF Grown

\* The cursor of a client that has loaded the first events of a stream is the
\* number of these events, as a position.
LEMMA SeenVersionIsCursor ==
  ASSUME NEW c \in Clients, NEW s \in Streams, NEW st \in Store, WellFormed(st),
         Begins(view[c][s], st, s)
  PROVE  SeenVersion(c, s) = Cursor(Len(view[c][s]))
<1> DEFINE v == view[c][s]
<1>1. v \in Seq(StoredEvent) /\ Len(v) \in Nat
  BY LenProperties DEF Begins
<1>2. CASE v = <<>>
  BY <1>2, EmptySeq DEF SeenVersion, Cursor
<1>3. CASE v # <<>>
  <2>1. Len(v) # 0
    BY <1>1, <1>3, EmptySeq
  <2>2. Len(v) \in 1..Len(v) /\ Len(v) \in 1..Len(st.streams[s])
    BY <1>1, <2>1, StoreFields, LenProperties DEF Begins
  <2>3. v[Len(v)].stream_version = Len(v) - 1
    <3>1. v[Len(v)] = st.events[st.streams[s][Len(v)] + 1]
      BY <2>2 DEF Begins
    <3>2. \A k \in 1..Len(st.streams[s]) :
             st.events[st.streams[s][k] + 1].stream_version = k - 1
      BY DEF WellFormed, StreamIndexSound
    <3>3. QED
      BY <2>2, <3>1, <3>2
  <2>4. QED
    BY <1>3, <2>1, <2>3 DEF SeenVersion, Cursor
<1>4. QED
  BY <1>2, <1>3

\* The version check of append: an expectation taken from what the client has
\* loaded is met only when the client has loaded the whole stream.
LEMMA ExpectationMet ==
  ASSUME NEW c \in Clients, NEW s \in Streams, NEW st \in Store, WellFormed(st),
         Begins(view[c][s], st, s),
         Expected(SeenExpectation(c, s), StreamVersion(st, s))
  PROVE  Len(view[c][s]) = Len(st.streams[s])
<1> DEFINE v == view[c][s]
           seen == SeenVersion(c, s)
           actual == StreamVersion(st, s)
           n == Len(st.streams[s])
<1>1. /\ Len(v) \in Nat /\ n \in Nat /\ Len(v) <= n
      /\ st.streams[s] \in Seq(Nat)
  BY StoreFields, LenProperties DEF Begins
<1>2. seen = Cursor(Len(v))
  BY SeenVersionIsCursor
<1>3. actual = Cursor(n)
  <2>1. CASE st.streams[s] = <<>>
    BY <2>1, EmptySeq DEF StreamVersion, Cursor
  <2>2. CASE st.streams[s] # <<>>
    <3>1. n # 0
      BY <1>1, <2>2, EmptySeq
    <3>2. n \in 1..n
      BY <1>1, <3>1
    <3>3. st.events[st.streams[s][n] + 1].stream_version = n - 1
      BY <3>2 DEF WellFormed, StreamIndexSound
    <3>4. QED
      BY <2>2, <3>1, <3>3 DEF StreamVersion, Cursor
  <2>3. QED
    BY <2>1, <2>2
<1>4. seen = actual
  BY DEF Expected, SeenExpectation, NoStream, Exact
<1>5. Cursor(Len(v)) = Cursor(n)
  BY <1>2, <1>3, <1>4
<1>6. Len(v) \in Nat /\ n \in Nat
  BY <1>1
<1> HIDE DEF v, n
<1>7. Len(v) = n
  BY <1>5, <1>6, NoneAssumption DEF Cursor
<1>8. QED
  BY <1>1, <1>7 DEF v, n

\* append adds to the log and to the index of its stream, and what it returns
\* is readable; an empty batch changes nothing.
LEMMA AppendGrows ==
  ASSUME NEW st \in Store, WellFormed(st), NEW s \in Streams, NEW ids \in Seq(EventIds),
         UniqueIds(st.event_ids, ids), NEW kind \in {"Any", "NoStream", "Exact"}
  PROVE  LET b == PrepareAppend(st, s, ids)
             new == CommitPrepared(st, b)
         IN  /\ new \in Store /\ WellFormed(new) /\ Grown(st, new)
             /\ WriteReadable(new, [stream |-> s, expected |-> kind, committed |-> b])
             /\ b # <<>> => /\ Len(st.streams[s]) + 1 <= Len(new.streams[s])
                            /\ new.streams[s][Len(st.streams[s]) + 1] = b[1].global_position
<1> DEFINE b == PrepareAppend(st, s, ids)
           new == CommitPrepared(st, b)
           w == [stream |-> s, expected |-> kind, committed |-> b]
<1>1. b \in Seq(StoredEvent) /\ Len(b) = Len(ids)
  BY PreparedBatch
<1>2. w \in Write
  BY <1>1 DEF Write
<1>3. Len(st.events) \in Nat /\ \A t \in Streams : Len(st.streams[t]) \in Nat
  BY StoreFields, LenProperties
<1>4. CASE ids = <<>>
  <2>1. b = <<>>
    BY <1>1, <1>4, EmptySeq
  <2>2. new = st
    BY <2>1 DEF CommitPrepared
  <2> HIDE DEF b, new
  <2>3. Grown(st, st)
    BY <1>3 DEF Grown
  <2>4. WriteReadable(st, w)
    BY <1>2, <2>1 DEF WriteReadable
  <2>5. QED
    BY <2>1, <2>2, <2>3, <2>4 DEF b, new
<1>5. CASE ids # <<>>
  <2>1. WellFormed(new)
    BY <1>5, CommitWellFormed
  <2>2. Extended(st, new, s, b)
    BY <1>5, CommittedStore
  <2>3. Len(b) \in Nat /\ Len(b) > 0 /\ b[1].global_position = Len(st.events)
    <3>1. Len(ids) \in Nat /\ Len(ids) > 0
      BY <1>5, LenProperties, EmptySeq
    <3>2. b[1].global_position = Len(st.events) + 1 - 1
      BY <3>1, PreparedBatch
    <3>3. QED
      BY <1>1, <1>3, <3>1, <3>2
  <2> HIDE DEF b, new
  <2>4. Grown(st, new)
    BY <2>2, <2>3, ExtendedGrown
  <2>5. /\ new \in Store
        /\ Len(new.events) = Len(st.events) + Len(b)
        /\ \A i \in (Len(st.events) + 1)..(Len(st.events) + Len(b)) :
              new.events[i] = b[i - Len(st.events)]
        /\ Len(new.streams[s]) = Len(st.streams[s]) + Len(b)
        /\ \A k \in (Len(st.streams[s]) + 1)..(Len(st.streams[s]) + Len(b)) :
              new.streams[s][k] = Len(st.events) + (k - Len(st.streams[s])) - 1
    BY <2>2 DEF Extended
  <2>6. \A k \in 1..Len(b) : new.events[Len(st.events) + k] = b[k]
    <3>1. SUFFICES ASSUME NEW k \in 1..Len(b)
                   PROVE  new.events[Len(st.events) + k] = b[k]
      OBVIOUS
    <3>2. /\ Len(st.events) + k \in (Len(st.events) + 1)..(Len(st.events) + Len(b))
          /\ (Len(st.events) + k) - Len(st.events) = k
      BY <1>3, <2>3
    <3>3. QED
      BY <2>5, <3>2
  <2>7. WriteReadable(new, w)
    <3>1. w.committed = b
      OBVIOUS
    <3> HIDE DEF w
    <3>2. /\ b[1].global_position \in Nat
          /\ b[1].global_position + Len(b) <= Len(new.events)
      BY <1>3, <2>3, <2>5
    <3>3. \A k \in 1..Len(b) : new.events[b[1].global_position + k] = b[k]
      BY <2>3, <2>6
    <3>4. QED
      BY <1>2, <3>1, <3>2, <3>3 DEF WriteReadable
  <2>8. /\ Len(st.streams[s]) + 1 <= Len(new.streams[s])
        /\ new.streams[s][Len(st.streams[s]) + 1] = b[1].global_position
    <3> DEFINE had == Len(st.streams[s])
    <3>1. had \in Nat /\ had + 1 \in (had + 1)..(had + Len(b))
      BY <1>3, <2>3
    <3>2. new.streams[s][had + 1] = Len(st.events) + ((had + 1) - had) - 1
      BY <2>5, <3>1
    <3>3. QED
      BY <1>3, <2>3, <2>5, <3>1, <3>2
  <2>9. QED
    BY <2>1, <2>4, <2>5, <2>7, <2>8 DEF b, new
<1>6. QED
  BY <1>4, <1>5

\* append preserves the inductive invariant, an empty batch included.
LEMMA AppendPreservesInv ==
  ASSUME Inv, NEW c \in Clients, NEW s \in Streams, NEW ids \in Batches,
         NEW expected \in {AnyVersion, SeenExpectation(c, s)},
         AppendEvents(c, s, expected, ids)
  PROVE  Inv'
<1> DEFINE b == PrepareAppend(store, s, ids)
           w == [stream |-> s, expected |-> expected.kind, committed |-> b]
<1>1. /\ store \in Store /\ WellFormed(store) /\ writes \in Seq(Write)
      /\ bases \in Seq(Seq(StoredEvent)) /\ Len(bases) = Len(writes)
      /\ view \in [Clients -> [Streams -> Seq(StoredEvent)]]
  BY DEF Inv
<1>2. ids \in Seq(EventIds)
  BY BatchesAreSequences
<1>3. /\ store' = CommitPrepared(store, b)
      /\ writes' = Append(writes, w)
      /\ bases' = Append(bases, view[c][s])
      /\ view' = view
      /\ Expected(expected, StreamVersion(store, s))
      /\ UniqueIds(store.event_ids, ids)
  BY DEF AppendEvents, CanPrepare
<1>4. expected.kind \in {"Any", "NoStream", "Exact"}
  BY DEF AnyVersion, SeenExpectation, NoStream, Exact
<1>5. /\ store' \in Store /\ WellFormed(store') /\ Grown(store, store')
      /\ WriteReadable(store', w)
      /\ b # <<>> => /\ Len(store.streams[s]) + 1 <= Len(store'.streams[s])
                     /\ store'.streams[s][Len(store.streams[s]) + 1] = b[1].global_position
  BY <1>1, <1>2, <1>3, <1>4, AppendGrows
<1>6. w \in Write /\ w.stream = s /\ w.committed = b /\ w.expected = expected.kind
  BY <1>5 DEF WriteReadable
<1> HIDE DEF b, w
<1>7. view[c][s] \in Seq(StoredEvent) /\ Begins(view[c][s], store, s)
  BY <1>1 DEF Inv
<1>8. Grounded(store', w, view[c][s])
  <2>1. SUFFICES ASSUME expected.kind # "Any", b # <<>>
                 PROVE  Grounded(store', w, view[c][s])
    BY <1>6 DEF Grounded
  <2>2. expected = SeenExpectation(c, s)
    BY <2>1 DEF AnyVersion
  <2>3. Len(view[c][s]) = Len(store.streams[s])
    BY <1>1, <1>3, <1>7, <2>2, ExpectationMet
  <2>4. Begins(view[c][s], store', s)
    BY <1>1, <1>5, <1>7, BeginsGrown
  <2>5. QED
    BY <1>5, <1>6, <2>1, <2>3, <2>4 DEF Grounded
<1>9. /\ writes' \in Seq(Write)
      /\ Len(writes') = Len(writes) + 1
      /\ writes'[Len(writes) + 1] = w
      /\ \A n \in 1..Len(writes) : writes'[n] = writes[n]
  BY <1>1, <1>3, <1>6, AppendProperties
<1>10. /\ bases' \in Seq(Seq(StoredEvent))
       /\ Len(bases') = Len(writes')
       /\ bases'[Len(writes) + 1] = view[c][s]
       /\ \A n \in 1..Len(writes) : bases'[n] = bases[n]
  BY <1>1, <1>3, <1>7, <1>9, AppendProperties
<1>11. ASSUME NEW n \in 1..Len(writes)
       PROVE  WriteReadable(store', writes[n]) /\ Grounded(store', writes[n], bases[n])
  <2>1. WriteReadable(store, writes[n]) /\ Grounded(store, writes[n], bases[n])
    BY DEF Inv
  <2>2. writes[n] \in Write
    BY <2>1 DEF WriteReadable
  <2>3. WriteReadable(store', writes[n])
    <3>1. Len(store'.events) \in Nat /\ Len(store.events) \in Nat
      BY <1>1, <1>5, StoreFields, LenProperties
    <3>2. /\ Len(store'.events) >= Len(store.events)
          /\ \A i \in 1..Len(store.events) : store'.events[i] = store.events[i]
      BY <1>5, <3>1 DEF Grown
    <3>3. QED
      BY <1>1, <1>5, <2>1, <3>2, WriteReadableExtended
  <2>4. Grounded(store', writes[n], bases[n])
    BY <1>1, <1>5, <2>1, <2>2, GroundedGrown
  <2>5. QED
    BY <2>3, <2>4
<1>12. \A n \in 1..Len(writes') :
         WriteReadable(store', writes'[n]) /\ Grounded(store', writes'[n], bases'[n])
  <2>1. Len(writes) \in Nat
    BY <1>1, LenProperties
  <2>2. \A n \in 1..(Len(writes) + 1) : n \in 1..Len(writes) \/ n = Len(writes) + 1
    BY <2>1
  <2>3. QED
    BY <1>5, <1>8, <1>9, <1>10, <1>11, <2>2
<1>13. \A d \in Clients, t \in Streams : Begins(view'[d][t], store', t)
  <2>1. SUFFICES ASSUME NEW d \in Clients, NEW t \in Streams
                 PROVE  Begins(view[d][t], store', t)
    BY <1>3
  <2>2. Begins(view[d][t], store, t)
    BY DEF Inv
  <2>3. QED
    BY <1>1, <1>5, <2>2, BeginsGrown
<1>14. QED
  BY <1>1, <1>3, <1>5, <1>9, <1>10, <1>12, <1>13 DEF Inv

\* A load after the client's cursor extends the beginning it has.
LEMMA RefreshPreservesInv ==
  ASSUME Inv, NEW c \in Clients, NEW s \in Streams, Refresh(c, s)
  PROVE  Inv'
<1> DEFINE v == view[c][s]
           had == Len(v)
           n == Len(store.streams[s])
           rest == LoadStream(store, s, SeenVersion(c, s))
<1>1. /\ store \in Store /\ WellFormed(store)
      /\ view \in [Clients -> [Streams -> Seq(StoredEvent)]]
      /\ Begins(v, store, s)
  BY DEF Inv
<1>2. /\ v \in Seq(StoredEvent) /\ had \in Nat /\ n \in Nat /\ had <= n /\ had \in 0..n
      /\ \A k \in 1..had : v[k] = store.events[store.streams[s][k] + 1]
  BY <1>1, StoreFields, LenProperties DEF Begins
<1>3. /\ view' = [view EXCEPT ![c][s] = v \o rest]
      /\ UNCHANGED <<store, writes, bases>>
  BY DEF Refresh
<1>4. rest = [k \in 1..(n - had) |-> Indexed(store, s)[had + k]]
  <2>1. SeenVersion(c, s) = Cursor(had)
    BY <1>1, SeenVersionIsCursor
  <2> HIDE DEF had
  <2>2. LoadStream(store, s, Cursor(had)) = [k \in 1..(n - had) |-> Indexed(store, s)[had + k]]
    BY <1>1, <1>2, LoadStreamRest
  <2>3. QED
    BY <2>1, <2>2
<1>5. \A k \in 1..n : /\ Indexed(store, s)[k] \in StoredEvent
                      /\ Indexed(store, s)[k] = store.events[store.streams[s][k] + 1]
  BY <1>1, IndexedEvents
<1> HIDE DEF v, had, n, rest
<1>6. rest \in Seq(StoredEvent) /\ Len(rest) = n - had
  <2>1. n - had \in Nat /\ \A k \in 1..(n - had) : had + k \in 1..n
    BY <1>2
  <2>2. rest \in [1..(n - had) -> StoredEvent]
    BY <1>4, <1>5, <2>1
  <2>3. QED
    BY <2>1, <2>2, IsASeq
<1>7. /\ v \o rest \in Seq(StoredEvent)
      /\ Len(v \o rest) = n
      /\ \A k \in 1..had : (v \o rest)[k] = v[k]
      /\ \A k \in (had + 1)..n : (v \o rest)[k] = rest[k - had]
  <2>1. had + (n - had) = n
    BY <1>2
  <2>2. QED
    BY <1>2, <1>6, <2>1, ConcatProperties DEF had
<1>8. \A k \in 1..n : (v \o rest)[k] = store.events[store.streams[s][k] + 1]
  <2> SUFFICES ASSUME NEW k \in 1..n
               PROVE  (v \o rest)[k] = store.events[store.streams[s][k] + 1]
    OBVIOUS
  <2>1. CASE k <= had
    BY <1>2, <1>7, <2>1
  <2>2. CASE k > had
    <3>1. k \in (had + 1)..n /\ k - had \in 1..(n - had) /\ had + (k - had) = k
      BY <1>2, <2>2
    <3>2. (v \o rest)[k] = Indexed(store, s)[k]
      BY <1>4, <1>7, <3>1
    <3>3. QED
      BY <1>5, <3>2
  <2>3. k <= had \/ k > had
    BY <1>2
  <2>4. QED
    BY <2>1, <2>2, <2>3
<1>9. Begins(v \o rest, store, s)
  BY <1>2, <1>7, <1>8 DEF Begins, n
<1>10. /\ view' \in [Clients -> [Streams -> Seq(StoredEvent)]]
       /\ \A d \in Clients, t \in Streams :
             view'[d][t] = IF d = c /\ t = s THEN v \o rest ELSE view[d][t]
  BY <1>1, <1>3, <1>7
<1>11. \A d \in Clients, t \in Streams : Begins(view'[d][t], store, t)
  BY <1>9, <1>10 DEF Inv
<1>12. QED
  BY <1>3, <1>10, <1>11 DEF Inv

\* The whole inductive invariant holds in every reachable state.
THEOREM InvHolds == Spec => []Inv
<1>1. Init => Inv
  <2> SUFFICES ASSUME Init PROVE Inv
    OBVIOUS
  <2>1. /\ <<>> \in Seq(Write) /\ <<>> \in Seq(StoredEvent) /\ <<>> \in Seq(Seq(StoredEvent))
        /\ Len(<<>>) = 0
    BY EmptySeq
  <2>2. store \in Store /\ WellFormed(store)
    BY EmptyStoreWellFormed DEF Init
  <2>3. /\ view \in [Clients -> [Streams -> Seq(StoredEvent)]]
        /\ \A c \in Clients, s \in Streams : view[c][s] = <<>>
    BY <2>1 DEF Init
  <2>4. ASSUME NEW s \in Streams PROVE Begins(<<>>, store, s)
    <3>1. Len(store.streams[s]) \in Nat
      BY <2>2, StoreFields, LenProperties
    <3>2. QED
      BY <2>1, <3>1 DEF Begins
  <2>5. QED
    BY <2>1, <2>2, <2>3, <2>4 DEF Init, Inv
<1>2. Inv /\ [Next]_vars => Inv'
  <2> SUFFICES ASSUME Inv, [Next]_vars
               PROVE  Inv'
    OBVIOUS
  <2>1. ASSUME NEW c \in Clients, NEW s \in Streams, NEW ids \in Batches,
               NEW expected \in {AnyVersion, SeenExpectation(c, s)},
               AppendEvents(c, s, expected, ids)
        PROVE  Inv'
    BY <2>1, AppendPreservesInv
  <2>2. ASSUME NEW c \in Clients, NEW s \in Streams, Refresh(c, s)
        PROVE  Inv'
    BY <2>2, RefreshPreservesInv
  <2>3. CASE UNCHANGED vars
    BY <2>3 DEF vars, Inv
  <2>4. QED
    BY <2>1, <2>2, <2>3 DEF Next
<1>3. QED
  BY <1>1, <1>2, PTL DEF Spec

\* The types of EventStore: every stored event and every loaded one has a
\* natural version and position, and every write keeps its author's base.
THEOREM TypeCorrect == Spec => []TypeOK
<1>1. Inv => TypeOK
  BY DEF Inv, TypeOK
<1>2. QED
  BY <1>1, InvHolds, PTL

\* The events of a stream, filtered from the log, are the ones its index
\* leads to.
LEMMA StreamEventsIndexed ==
  ASSUME NEW st \in Store, WellFormed(st), NEW s \in Streams
  PROVE  StreamEvents(st, s) = Indexed(st, s)
<1>1. PICK q : q = [k \in 1..Len(st.streams[s]) |-> st.streams[s][k] + 1]
  OBVIOUS
<1>2. PICK kept : kept = {i \in 1..Len(st.events) : st.events[i].stream_id = s}
  OBVIOUS
<1> DEFINE m == Len(st.streams[s])
<1>3. /\ st.events \in Seq(StoredEvent) /\ m \in Nat
      /\ \A k \in 1..m : st.streams[s][k] \in Nat
  BY StoreFields, LenProperties, ElementOfSeq
<1>4. \A k \in 1..m : /\ q[k] = st.streams[s][k] + 1
                      /\ q[k] \in 1..Len(st.events)
                      /\ st.events[q[k]].stream_id = s
                      /\ \A j \in 1..(k - 1) : st.streams[s][j] < st.streams[s][k]
  BY <1>1 DEF WellFormed, StreamIndexSound
<1>5. \A k \in 1..m : \A j \in 1..(k - 1) : q[j] < q[k]
  <2> SUFFICES ASSUME NEW k \in 1..m, NEW j \in 1..(k - 1) PROVE q[j] < q[k]
    OBVIOUS
  <2>1. j \in 1..m
    BY <1>3
  <2>2. st.streams[s][j] \in Nat /\ st.streams[s][k] \in Nat /\ st.streams[s][j] < st.streams[s][k]
    BY <1>3, <1>4, <2>1
  <2>3. q[j] = st.streams[s][j] + 1 /\ q[k] = st.streams[s][k] + 1
    BY <1>4, <2>1
  <2>4. QED
    BY <2>2, <2>3
<1>6. \A i \in 1..Len(st.events) : i \in kept <=> \E k \in 1..m : q[k] = i
  <2> SUFFICES ASSUME NEW i \in 1..Len(st.events)
               PROVE  st.events[i].stream_id = s <=> \E k \in 1..m : q[k] = i
    BY <1>2
  <2>1. ASSUME NEW k \in 1..m, q[k] = i PROVE st.events[i].stream_id = s
    BY <1>4, <2>1
  <2>2. ASSUME st.events[i].stream_id = s PROVE \E k \in 1..m : q[k] = i
    <3> DEFINE k == st.events[i].stream_version + 1
    <3>1. k \in 1..m /\ st.streams[s][k] = i - 1
      BY <2>2, EventIndexed
    <3>2. q[k] = (i - 1) + 1
      BY <1>4, <3>1
    <3>3. Len(st.events) \in Nat
      BY <1>3, LenProperties
    <3>4. QED
      BY <3>1, <3>2, <3>3
  <2>3. QED
    BY <2>1, <2>2
<1>7. Enumerates(q, m, st.events, kept)
  BY <1>3, <1>4, <1>5, <1>6 DEF Enumerates
<1>8. Filtered(st.events, kept) = [k \in 1..m |-> st.events[q[k]]]
  <2> HIDE DEF m
  <2>1. QED
    BY <1>3, <1>7, FilteredEnumerates
<1>9. StreamEvents(st, s) = Filtered(st.events, kept)
  BY <1>2 DEF StreamEvents
<1>10. QED
  BY <1>4, <1>8, <1>9 DEF Indexed

\* A filter that keeps the first n elements.
LEMMA FilteredPrefix ==
  ASSUME NEW S, NEW s \in Seq(S), NEW n \in 0..Len(s),
         NEW kept, \A i \in 1..Len(s) : i \in kept <=> i <= n
  PROVE  Filtered(s, kept) = [k \in 1..n |-> s[k]]
<1>1. PICK q : q = [k \in 1..n |-> k]
  OBVIOUS
<1>2. Len(s) \in Nat /\ n \in Nat /\ n <= Len(s)
  BY LenProperties
<1>3. \A k \in 1..n : q[k] = k
  BY <1>1
<1>4. Enumerates(q, n, s, kept)
  <2>1. \A k \in 1..n : q[k] \in 1..Len(s)
    BY <1>2, <1>3
  <2>2. \A k \in 1..n : \A j \in 1..(k - 1) : q[j] < q[k]
    BY <1>2, <1>3
  <2>3. \A i \in 1..Len(s) : i \in kept <=> \E k \in 1..n : q[k] = i
    BY <1>2, <1>3
  <2>4. QED
    BY <1>2, <2>1, <2>2, <2>3 DEF Enumerates
<1>5. Filtered(s, kept) = [k \in 1..n |-> s[q[k]]]
  BY <1>4, FilteredEnumerates
<1>6. QED
  BY <1>3, <1>5

\* A client that loads incrementally holds exactly the first events of the
\* stream, however its loads interleave with the appends of others.
THEOREM ViewsAlwaysPrefixes == Spec => []ViewsArePrefixes
<1>1. Inv => ViewsArePrefixes
  <2> SUFFICES ASSUME Inv, NEW c \in Clients, NEW s \in Streams
               PROVE  IsPrefix(view[c][s], StreamEvents(store, s))
    BY DEF ViewsArePrefixes
  <2> DEFINE v == view[c][s]
             events == Indexed(store, s)
  <2>1. store \in Store /\ WellFormed(store) /\ Begins(v, store, s)
    BY DEF Inv
  <2>2. /\ events \in Seq(StoredEvent) /\ Len(events) = Len(store.streams[s])
        /\ \A k \in 1..Len(store.streams[s]) :
              events[k] = store.events[store.streams[s][k] + 1]
    BY <2>1, IndexedEvents
  <2>3. /\ v \in Seq(StoredEvent) /\ Len(v) \in Nat /\ Len(events) \in Nat
        /\ Len(v) <= Len(events)
        /\ \A k \in 1..Len(v) : v[k] = store.events[store.streams[s][k] + 1]
    BY <2>1, <2>2, LenProperties DEF Begins
  <2>4. StreamEvents(store, s) = events
    BY <2>1, StreamEventsIndexed
  <2> HIDE DEF v, events
  <2>5. \A k \in 1..Len(v) : k \in 1..Len(store.streams[s]) /\ v[k] = events[k]
    BY <2>2, <2>3
  <2>6. SubSeq(v, 1, Len(v)) = [k \in 1..Len(v) |-> v[k]]
    BY <2>3
  <2>7. SubSeq(events, 1, Len(v)) = [k \in 1..Len(v) |-> events[k]]
    BY <2>2, <2>3
  <2>8. SubSeq(v, 1, Len(v)) = SubSeq(events, 1, Len(v))
    BY <2>5, <2>6, <2>7
  <2>9. QED
    BY <2>3, <2>4, <2>8 DEF IsPrefix, v
<1>2. QED
  BY <1>1, InvHolds, PTL

\* Optimistic concurrency: an append that states the version its author had
\* loaded lands directly behind what the author had seen, for any number of
\* clients, streams and interleavings of loads and appends.
THEOREM NoUpdateLost == Spec => []NoLostUpdate
<1>1. Inv => NoLostUpdate
  <2> SUFFICES ASSUME Inv, NEW n \in 1..Len(writes),
                      writes[n].expected # "Any", writes[n].committed # <<>>
               PROVE  LET w == writes[n]
                          events == StreamEvents(store, w.stream)
                      IN  bases[n] = Filtered(events, {k \in 1..Len(events) :
                             events[k].global_position < w.committed[1].global_position})
    BY DEF NoLostUpdate
  <2> DEFINE w == writes[n]
             base == bases[n]
             s == w.stream
             had == Len(base)
             first == w.committed[1].global_position
             events == Indexed(store, s)
             kept == {k \in 1..Len(events) : events[k].global_position < first}
  <2>1. /\ store \in Store /\ WellFormed(store) /\ w \in Write
        /\ Begins(base, store, s) /\ had + 1 <= Len(store.streams[s])
        /\ store.streams[s][had + 1] = first
    BY DEF Inv, WriteReadable, Grounded
  <2>2. s \in Streams
    BY <2>1 DEF Write
  <2>3. /\ events \in Seq(StoredEvent) /\ Len(events) = Len(store.streams[s])
        /\ Len(events) \in Nat
        /\ \A k \in 1..Len(events) : /\ store.streams[s][k] \in Nat
                                     /\ events[k] = store.events[store.streams[s][k] + 1]
                                     /\ events[k].global_position = store.streams[s][k]
    <3> HIDE DEF s
    <3>1. QED
      BY <2>1, <2>2, IndexedEvents
  <2>4. /\ base \in Seq(StoredEvent) /\ had \in Nat /\ had \in 0..Len(events)
        /\ had + 1 \in 1..Len(events)
        /\ \A k \in 1..had : base[k] = store.events[store.streams[s][k] + 1]
    <3>1. /\ base \in Seq(StoredEvent)
          /\ \A k \in 1..had : base[k] = store.events[store.streams[s][k] + 1]
      BY <2>1 DEF Begins
    <3>2. had \in Nat
      BY <3>1, LenProperties
    <3> HIDE DEF had, events
    <3>3. had + 1 <= Len(events) /\ Len(events) \in Nat
      BY <2>1, <2>3
    <3>4. had \in 0..Len(events) /\ had + 1 \in 1..Len(events)
      BY <3>2, <3>3
    <3>5. QED
      BY <3>1, <3>2, <3>4
  <2>5. \A k \in 1..Len(events) : \A j \in 1..(k - 1) : store.streams[s][j] < store.streams[s][k]
    BY <2>1, <2>2, <2>3 DEF WellFormed, StreamIndexSound
  <2>6. StreamEvents(store, s) = events
    BY <2>1, <2>2, StreamEventsIndexed
  <2>7. kept = {k \in 1..Len(events) : events[k].global_position < first}
    OBVIOUS
  <2> HIDE DEF w, base, s, had, first, events, kept
  <2>8. \A k \in 1..Len(events) : k \in kept <=> k <= had
    <3> SUFFICES ASSUME NEW k \in 1..Len(events)
                 PROVE  store.streams[s][k] < store.streams[s][had + 1] <=> k <= had
      BY <2>1, <2>3, <2>7
    <3>1. CASE k <= had
      <4>1. k \in 1..((had + 1) - 1)
        BY <2>4, <3>1
      <4>2. QED
        BY <2>4, <2>5, <3>1, <4>1
    <3>2. CASE k = had + 1
      BY <2>3, <2>4, <3>2
    <3>3. CASE k > had + 1
      <4>1. had + 1 \in 1..(k - 1)
        BY <2>3, <2>4, <3>3
      <4>2. store.streams[s][had + 1] < store.streams[s][k]
        BY <2>5, <4>1
      <4>3. QED
        BY <2>3, <2>4, <3>3, <4>2
    <3>4. QED
      BY <2>3, <2>4, <3>1, <3>2, <3>3
  <2>9. Filtered(events, kept) = [k \in 1..had |-> events[k]]
    BY <2>3, <2>4, <2>8, FilteredPrefix
  <2>10. base = [k \in 1..had |-> base[k]]
    BY <2>4, LenProperties DEF had
  <2>11. \A k \in 1..had : base[k] = events[k]
    BY <2>3, <2>4
  <2>12. base = Filtered(events, kept)
    BY <2>9, <2>10, <2>11
  <2>13. QED
    BY <2>6, <2>7, <2>12 DEF w, base, s, first
<1>2. QED
  BY <1>1, InvHolds, PTL

\* What append builds, restore accepts and rebuilds identically, for every
\* history of appends.
THEOREM RestoreRoundTrips == Spec => []RestoreRoundTrip
<1>1. Inv => RestoreRoundTrip
  BY RestoreIdentity DEF Inv, RestoreRoundTrip
<1>2. QED
  BY <1>1, InvHolds, PTL

\* Every reachable in-memory store is well-formed: gapless global positions,
\* gapless versions per stream, globally unique identifiers and an exact
\* stream index, whatever the clients append and load.
THEOREM StoreAlwaysWellFormed == Spec => []StoreWellFormed
<1>1. Inv => StoreWellFormed
  BY DEF Inv, StoreWellFormed
<1>2. QED
  BY <1>1, InvHolds, PTL

\* What a successful append returned stays readable at the returned
\* positions, whole and unchanged, through every later append.
THEOREM CommittedBatchesStay == Spec => []BatchesStayCommitted
<1>1. Inv => BatchesStayCommitted
  <2>1. SUFFICES ASSUME Inv, NEW n \in 1..Len(writes), writes[n].committed # <<>>
                 PROVE  LET first == writes[n].committed[1].global_position
                            next == first + Len(writes[n].committed)
                        IN  /\ next <= Len(store.events)
                            /\ SubSeq(store.events, first + 1, next) = writes[n].committed
    BY DEF BatchesStayCommitted
  <2> DEFINE d == writes[n].committed
             first == d[1].global_position
             sub == SubSeq(store.events, first + 1, first + Len(d))
  <2>2. /\ d \in Seq(StoredEvent) /\ first \in Nat /\ first + Len(d) <= Len(store.events)
        /\ \A k \in 1..Len(d) : store.events[first + k] = d[k]
    BY <2>1 DEF Inv, WriteReadable, Write
  <2>3. /\ Len(d) \in Nat /\ Len(store.events) \in Nat
        /\ store.events \in Seq(StoredEvent)
    <3>1. store \in Store
      BY <2>1 DEF Inv
    <3>2. QED
      BY <2>2, <3>1, StoreFields, LenProperties
  <2> HIDE DEF d, first
  <2>4. first + 1 \in 1..(Len(store.events) + 1) /\ first + Len(d) \in first..Len(store.events)
    BY <2>2, <2>3
  <2>5. sub = [k \in 1..Len(d) |-> store.events[first + k]]
    BY <2>2, <2>3, <2>4
  <2>6. sub = [k \in 1..Len(d) |-> d[k]]
    BY <2>2, <2>5
  <2>7. d = [k \in 1..Len(d) |-> d[k]]
    BY <2>2, LenProperties
  <2>8. QED
    BY <2>2, <2>6, <2>7 DEF d, first
<1>2. QED
  BY <1>1, InvHolds, PTL
=============================================================================
