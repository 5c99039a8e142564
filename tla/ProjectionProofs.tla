-------------------------- MODULE ProjectionProofs --------------------------
(***************************************************************************)
(* Theorems about replay and snapshots, about the construction of a        *)
(* projection from parts and about the identifier index, for every set of  *)
(* identifiers, every log, every list of nodes and facts, any number of    *)
(* reloads and threads and every hash function.                            *)
(*                                                                         *)
(* Replay: the inductive invariant ReplayInv says that every prefix of the *)
(* log replays to a sound projection whose cursor fits the prefix, and     *)
(* that the host's projection has the content of the whole replay.         *)
(***************************************************************************)
EXTENDS ProjectionReplay, ProjectionParts, IdIndex, MemoryProjectionProofs

-----------------------------------------------------------------------------
\* apply_sequence as the recursion it is: a[k] is what the first k events of the
\* tail lead to.
Run(a, snapshot, tail) ==
  /\ a[0] = [projection |-> snapshot.projection, cursor |-> snapshot.cursor, ids |-> {}]
  /\ \A k \in 1..Len(tail) : a[k] = ApplyNext(a[k - 1], tail[k])
  /\ ApplySequence(snapshot, tail) = a[Len(tail)]

\* The loop of apply_sequence runs through the whole tail.
LEMMA ApplySequenceRecursion ==
  ASSUME NEW snapshot, NEW tail, Len(tail) \in Nat
  PROVE  \E a : Run(a, snapshot, tail)
<1> DEFINE first == [projection |-> snapshot.projection, cursor |-> snapshot.cursor, ids |-> {}]
           Rec(c, n) == c = [k \in 0..n |-> IF k = 0 THEN first ELSE ApplyNext(c[k - 1], tail[k])]
           N == {n \in Nat : \E c : Rec(c, n)}
<1>1. 0 \in N
  <2>1. Rec([k \in 0..0 |-> first], 0)
    OBVIOUS
  <2>2. QED
    BY <2>1
<1>2. ASSUME NEW n \in Nat, n \in N PROVE n + 1 \in N
  <2>1. PICK c : Rec(c, n)
    BY <1>2
  <2> DEFINE d == [k \in 0..(n + 1) |-> IF k = n + 1 THEN ApplyNext(c[n], tail[n + 1]) ELSE c[k]]
  <2>2. ASSUME NEW k \in 0..(n + 1)
        PROVE  d[k] = IF k = 0 THEN first ELSE ApplyNext(d[k - 1], tail[k])
    <3>1. CASE k = n + 1
      <4>1. k # 0 /\ k - 1 = n /\ n \in 0..(n + 1) /\ n # n + 1
        BY <3>1
      <4>2. d[k - 1] = c[n] /\ d[k] = ApplyNext(c[n], tail[n + 1])
        BY <3>1, <4>1
      <4>3. QED
        BY <3>1, <4>1, <4>2
    <3>2. CASE k = 0
      <4>1. c[0] = first /\ d[0] = c[0]
        BY <2>1
      <4>2. QED
        BY <3>2, <4>1
    <3>3. CASE k # n + 1 /\ k # 0
      <4>1. k \in 0..n /\ k - 1 \in 0..(n + 1) /\ k - 1 # n + 1
        BY <3>3
      <4>2. d[k] = c[k] /\ d[k - 1] = c[k - 1]
        BY <3>3, <4>1
      <4> HIDE DEF d, first
      <4>3. c[k] = ApplyNext(c[k - 1], tail[k])
        BY <2>1, <3>3, <4>1
      <4>4. QED
        BY <3>3, <4>2, <4>3
    <3>4. QED
      BY <3>1, <3>2, <3>3
  <2>3. d = [k \in 0..(n + 1) |-> d[k]]
    OBVIOUS
  <2> HIDE DEF d, first
  <2>4. Rec(d, n + 1)
    BY <2>2, <2>3
  <2>5. n + 1 \in Nat
    OBVIOUS
  <2> HIDE DEF Rec
  <2>6. QED
    BY <2>4, <2>5, Zenon
<1> HIDE DEF N
<1>3. Len(tail) \in N
  BY <1>1, <1>2, InductionOnNat
<1>4. \E c : Rec(c, Len(tail))
  BY <1>3 DEF N
<1>5. Rec(CHOOSE c : Rec(c, Len(tail)), Len(tail))
  BY <1>4, Zenon
<1>6. ApplySequence(snapshot, tail) = (CHOOSE c : Rec(c, Len(tail)))[Len(tail)]
  BY Zenon DEF ApplySequence
<1> HIDE DEF Rec, first
<1>7. PICK c : Rec(c, Len(tail)) /\ ApplySequence(snapshot, tail) = c[Len(tail)]
  BY <1>5, <1>6, Zenon
<1>8. c = [k \in 0..Len(tail) |-> IF k = 0 THEN first ELSE ApplyNext(c[k - 1], tail[k])]
  BY <1>7 DEF Rec
<1>9. c[0] = first /\ \A k \in 1..Len(tail) : c[k] = ApplyNext(c[k - 1], tail[k])
  BY <1>8
<1>10. Run(c, snapshot, tail)
  BY <1>7, <1>9 DEF Run, first
<1>11. QED
  BY <1>10

\* Nothing is applied for an empty tail.
LEMMA ApplyEmpty ==
  ASSUME NEW snapshot, NEW tail, Len(tail) = 0
  PROVE  ApplySequence(snapshot, tail)
           = [projection |-> snapshot.projection, cursor |-> snapshot.cursor, ids |-> {}]
<1>1. Len(tail) \in Nat
  OBVIOUS
<1>2. PICK a : Run(a, snapshot, tail)
  BY <1>1, ApplySequenceRecursion
<1>3. QED
  BY <1>2 DEF Run

\* The event behind a tail is applied to what the tail led to.
LEMMA ApplyOneMore ==
  ASSUME NEW snapshot, NEW t, NEW u, NEW n \in Nat, Len(t) = n, Len(u) = n + 1,
         \A k \in 1..n : t[k] = u[k]
  PROVE  ApplySequence(snapshot, u) = ApplyNext(ApplySequence(snapshot, t), u[n + 1])
<1>1. PICK c : Run(c, snapshot, t)
  BY ApplySequenceRecursion
<1>2. PICK d : Run(d, snapshot, u)
  <2>1. Len(u) \in Nat
    OBVIOUS
  <2>2. QED
    BY <2>1, ApplySequenceRecursion
<1> DEFINE S == {k \in Nat : c[k] = d[k]}
<1>3. 0 \in S
  BY <1>1, <1>2 DEF Run
<1>4. ASSUME NEW k \in 0..(n - 1), c[k] = d[k] PROVE c[k + 1] = d[k + 1]
  <2>1. k + 1 \in 1..(n + 1) /\ (k + 1) - 1 = k /\ k + 1 \in 1..n
    OBVIOUS
  <2>2. c[k + 1] = ApplyNext(c[k], t[k + 1])
    BY <1>1, <2>1 DEF Run
  <2>3. d[k + 1] = ApplyNext(d[k], u[k + 1])
    BY <1>2, <2>1 DEF Run
  <2>4. QED
    BY <1>4, <2>1, <2>2, <2>3
<1>5. \A k \in 0..n : k \in S
  <2>1. \A k \in 0..(n - 1) : k \in S => k + 1 \in S
    BY <1>4
  <2> HIDE DEF S
  <2>2. QED
    BY <1>3, <2>1, InductionUpTo
<1> HIDE DEF S
<1>6. c[n] = d[n]
  <2>1. n \in S
    BY <1>5
  <2>2. QED
    BY <2>1 DEF S
<1>7. d[n + 1] = ApplyNext(d[n], u[n + 1])
  <2>1. n + 1 \in 1..(n + 1) /\ (n + 1) - 1 = n
    OBVIOUS
  <2>2. QED
    BY <1>2, <2>1 DEF Run
<1>8. QED
  BY <1>1, <1>2, <1>6, <1>7 DEF Run

\* A tail whose first event is rejected is rejected.
LEMMA FirstAccepted ==
  ASSUME NEW snapshot, NEW tail, NEW n \in Nat, Len(tail) = n + 1,
         ApplySequence(snapshot, tail) # None
  PROVE  ApplyNext([projection |-> snapshot.projection, cursor |-> snapshot.cursor, ids |-> {}],
                   tail[1]) # None
<1>1. Len(tail) \in Nat
  OBVIOUS
<1>2. PICK a : Run(a, snapshot, tail)
  BY <1>1, ApplySequenceRecursion
<1>3. ASSUME a[1] = None PROVE FALSE
  <2> DEFINE S == {k \in Nat : a[k + 1] = None}
  <2>1. 0 \in S
    BY <1>3
  <2>2. \A k \in 0..(n - 1) : k \in S => k + 1 \in S
    <3> SUFFICES ASSUME NEW k \in 0..(n - 1), a[k + 1] = None PROVE a[(k + 1) + 1] = None
      OBVIOUS
    <3>1. (k + 1) + 1 \in 1..Len(tail) /\ ((k + 1) + 1) - 1 = k + 1
      OBVIOUS
    <3>2. a[(k + 1) + 1] = ApplyNext(a[k + 1], tail[(k + 1) + 1])
      BY <1>2, <3>1 DEF Run
    <3>3. QED
      BY <3>2 DEF ApplyNext
  <2> HIDE DEF S
  <2>3. \A k \in 0..n : k \in S
    BY <2>1, <2>2, InductionUpTo
  <2>4. a[n + 1] = None
    BY <2>3 DEF S
  <2>5. QED
    BY <1>2, <2>4 DEF Run
<1>4. a[1] = ApplyNext(a[0], tail[1])
  <2>1. 1 \in 1..Len(tail) /\ 1 - 1 = 0
    OBVIOUS
  <2>2. QED
    BY <1>2, <2>1 DEF Run
<1>5. QED
  BY <1>2, <1>3, <1>4 DEF Run

-----------------------------------------------------------------------------
\* The events of a log from one position to before another, with payloads, and
\* what the first k events lead to from the start.
Event(es, rec, i) == [metadata |-> es[i], input |-> rec[i]]

Slice(es, rec, from, to) == [k \in 1..(to - from) |-> Event(es, rec, from + k)]

Start == [projection |-> EmptyProjection, cursor |-> StartCursor]

At(es, rec, k) == ApplySequence(Start, Slice(es, rec, 0, k))

\* A segment of the log, as a function of the log.
LEMMA SegmentIsSlice ==
  ASSUME NEW from \in Nat, NEW to \in Nat
  PROVE  Segment(from, to) = Slice(store.events, recorded, from, to)
BY DEF Segment, Slice, Event

\* A slice has one event for every position it spans.
LEMMA SliceLength ==
  ASSUME NEW es, NEW rec, NEW from \in Nat, NEW to \in Nat, from <= to
  PROVE  /\ Len(Slice(es, rec, from, to)) = to - from
         /\ \A k \in 1..(to - from) : Slice(es, rec, from, to)[k] = Event(es, rec, from + k)
<1>1. PICK t : t = Slice(es, rec, from, to)
  OBVIOUS
<1>2. t \in [1..(to - from) -> {Event(es, rec, from + k) : k \in 1..(to - from)}]
  BY <1>1 DEF Slice
<1>3. Len(t) = to - from
  <2>1. to - from \in Nat
    OBVIOUS
  <2>2. QED
    BY <1>2, <2>1, IsASeq
<1>4. \A k \in 1..(to - from) : t[k] = Event(es, rec, from + k)
  BY <1>1 DEF Slice
<1>5. QED
  BY <1>1, <1>3, <1>4

\* One more event of the log.
LEMMA SliceNext ==
  ASSUME NEW es, NEW rec, NEW from \in Nat, NEW to \in Nat, from <= to, NEW snapshot
  PROVE  ApplySequence(snapshot, Slice(es, rec, from, to + 1))
           = ApplyNext(ApplySequence(snapshot, Slice(es, rec, from, to)), Event(es, rec, to + 1))
<1>1. PICK t, u : t = Slice(es, rec, from, to) /\ u = Slice(es, rec, from, to + 1)
  OBVIOUS
<1>2. PICK n \in Nat : n = to - from
  OBVIOUS
<1>3. Len(t) = n /\ \A k \in 1..n : t[k] = Event(es, rec, from + k)
  <2>1. /\ Len(Slice(es, rec, from, to)) = to - from
        /\ \A k \in 1..(to - from) : Slice(es, rec, from, to)[k] = Event(es, rec, from + k)
    BY SliceLength
  <2>2. QED
    BY <1>1, <1>2, <2>1
<1>4. Len(u) = n + 1 /\ \A k \in 1..(n + 1) : u[k] = Event(es, rec, from + k)
  <2>1. to + 1 \in Nat /\ from <= to + 1 /\ (to + 1) - from = n + 1
    BY <1>2
  <2>2. QED
    BY <1>1, <2>1, SliceLength
<1>5. \A k \in 1..n : t[k] = u[k]
  BY <1>3, <1>4
<1>6. u[n + 1] = Event(es, rec, to + 1)
  <2>1. n + 1 \in 1..(n + 1) /\ from + (n + 1) = to + 1
    BY <1>2
  <2>2. QED
    BY <1>4, <2>1
<1>7. ApplySequence(snapshot, u) = ApplyNext(ApplySequence(snapshot, t), u[n + 1])
  BY <1>3, <1>4, <1>5, ApplyOneMore
<1>8. QED
  BY <1>1, <1>6, <1>7

\* The replay of one more event is the next iteration of apply_sequence.
LEMMA AtNext ==
  ASSUME NEW es, NEW rec, NEW k \in Nat
  PROVE  /\ At(es, rec, 0) = [projection |-> EmptyProjection, cursor |-> StartCursor, ids |-> {}]
         /\ At(es, rec, k + 1) = ApplyNext(At(es, rec, k), Event(es, rec, k + 1))
<1>1. Len(Slice(es, rec, 0, 0)) = 0
  BY SliceLength
<1>2. At(es, rec, 0) = [projection |-> Start.projection, cursor |-> Start.cursor, ids |-> {}]
  BY <1>1, ApplyEmpty DEF At
<1>3. At(es, rec, k + 1) = ApplyNext(At(es, rec, k), Event(es, rec, k + 1))
  BY SliceNext DEF At
<1>4. QED
  BY <1>2, <1>3 DEF Start

\* What the first events lead to does not depend on later ones.
SamePrefix(es, rec, fs, sec, n) == \A i \in 1..n : es[i] = fs[i] /\ rec[i] = sec[i]

\* The replay of a prefix does not read behind it.
LEMMA AtPrefix ==
  ASSUME NEW es, NEW rec, NEW fs, NEW sec, NEW n \in Nat, SamePrefix(es, rec, fs, sec, n)
  PROVE  \A k \in 0..n : At(es, rec, k) = At(fs, sec, k)
<1> SUFFICES ASSUME NEW k \in 0..n PROVE At(es, rec, k) = At(fs, sec, k)
  OBVIOUS
<1>1. \A i \in 1..(k - 0) : Event(es, rec, 0 + i) = Event(fs, sec, 0 + i)
  BY DEF Event, SamePrefix
<1>2. Slice(es, rec, 0, k) = Slice(fs, sec, 0, k)
  BY <1>1 DEF Slice
<1>3. QED
  BY <1>2 DEF At

-----------------------------------------------------------------------------
\* The cursor behind n events continues with event n.
LEMMA CursorNext ==
  ASSUME NEW n \in Nat
  PROVE  /\ Cursor(n) \in Nat \cup {None} /\ NextVersion(Cursor(n)) = n
         /\ Cursor(n + 1) = n
         /\ \A m \in Nat : Cursor(m) = Cursor(n) => m = n
<1>1. ASSUME NEW m \in Nat PROVE Cursor(m) \in Nat \cup {None} /\ NextVersion(Cursor(m)) = m
  <2>1. CASE m = 0
    BY <2>1 DEF Cursor, NextVersion
  <2>2. CASE m # 0
    <3>1. m - 1 \in Nat /\ m - 1 # None /\ (m - 1) + 1 = m
      BY <2>2, NoneAssumption
    <3>2. Cursor(m) = m - 1
      BY <2>2 DEF Cursor
    <3>3. QED
      BY <3>1, <3>2 DEF NextVersion
  <2>3. QED
    BY <2>1, <2>2
<1>2. Cursor(n + 1) = n
  BY DEF Cursor
<1>3. QED
  BY <1>1, <1>2

\* The log of the host: its events carry their numbers as identifiers.
LogSound(st, rec) ==
  /\ st \in Store /\ WellFormed(st)
  /\ rec \in Seq(Inputs) /\ Len(rec) = Len(st.events) /\ Len(st.events) <= MaxEvents
  /\ \A i \in 1..Len(st.events) : st.events[i].id = i

\* The cursor stands behind the first k events of the log, in every stream.
Fits(c, st, k) ==
  /\ c \in Cursors
  /\ c.global_position = Cursor(k)
  /\ \A s \in Streams : \E m \in 0..Len(st.streams[s]) :
       /\ c.stream_versions[s] = Cursor(m)
       /\ \A j \in 1..Len(st.streams[s]) : j <= m <=> st.streams[s][j] < k

\* What applying the first k events leads to.
Reached(a, st, k) ==
  /\ a \in Progress
  /\ Sound(a.projection)
  /\ Fits(a.cursor, st, k)
  /\ a.ids = 1..k
  /\ a.projection.last_global_position = Cursor(k)

\* An event of the log and its input.
LEMMA LogEvent ==
  ASSUME NEW st, NEW rec, LogSound(st, rec), NEW i \in 1..Len(st.events)
  PROVE  /\ Len(st.events) \in Nat /\ i \in Nat /\ i - 1 \in Nat
         /\ st.events[i] \in StoredEvent /\ st.events[i].id = i /\ i \in EventIds
         /\ st.events[i].global_position = i - 1
         /\ st.events[i].stream_id \in Streams /\ st.events[i].stream_version \in Nat
         /\ rec[i].payload \in MemoryEvent /\ rec[i].recorded_at \in Time
<1>1. st \in Store /\ st.events \in Seq(StoredEvent) /\ Len(st.events) \in Nat
  BY StoreFields, LenProperties DEF LogSound
<1>2. st.events[i] \in StoredEvent /\ st.events[i].id = i
  BY <1>1, ElementOfSeq DEF LogSound
<1>3. /\ st.events[i].stream_id \in Streams /\ st.events[i].stream_version \in Nat
      /\ i \in EventIds
  BY <1>2 DEF StoredEvent
<1>4. st.events[i].global_position = i - 1
  BY DEF LogSound, WellFormed, GlobalPositions
<1>5. rec[i] \in Inputs
  <2>1. rec \in Seq(Inputs) /\ i \in 1..Len(rec)
    BY DEF LogSound
  <2>2. QED
    BY <2>1, ElementOfSeq
<1>6. rec[i] \in [payload: MemoryEvent, recorded_at: Time, stream: Streams]
  BY <1>5, InputsAssumption
<1>7. rec[i].payload \in MemoryEvent /\ rec[i].recorded_at \in Time
  BY <1>6
<1>8. i \in Nat /\ i - 1 \in Nat
  BY <1>1
<1>9. QED
  BY <1>1, <1>2, <1>3, <1>4, <1>7, <1>8

\* The next event of the log fits behind the cursor.
LEMMA CursorAdvances ==
  ASSUME NEW st, NEW rec, LogSound(st, rec), NEW k \in 0..(Len(st.events) - 1),
         NEW c, Fits(c, st, k), NEW e, e = st.events[k + 1]
  PROVE  /\ e.global_position = NextVersion(c.global_position)
         /\ e.stream_version = NextVersion(c.stream_versions[e.stream_id])
         /\ Fits(Advance(c, e), st, k + 1)
<1>1. Len(st.events) \in Nat /\ st.streams \in [Streams -> Seq(Nat)]
  BY StoreFields, LenProperties DEF LogSound
<1>2. k \in Nat /\ k + 1 \in 1..Len(st.events) /\ (k + 1) - 1 = k
  BY <1>1
<1>3. PICK s, v : s = e.stream_id /\ v = e.stream_version
  OBVIOUS
<1>4. e.global_position = k /\ s \in Streams /\ v \in Nat
  BY <1>2, <1>3, LogEvent
<1>5. v + 1 \in 1..Len(st.streams[s]) /\ st.streams[s][v + 1] = k
  BY <1>2, <1>3 DEF LogSound, WellFormed, StreamIndexComplete
<1>6. \A t \in Streams : Len(st.streams[t]) \in Nat /\ \A j \in 1..Len(st.streams[t]) : st.streams[t][j] \in Nat
  <2>1. \A t \in Streams : st.streams[t] \in Seq(Nat)
    BY <1>1
  <2>2. QED
    BY <2>1, LenProperties, ElementOfSeq
<1>7. \A t \in Streams : \A j \in 1..Len(st.streams[t]) : \A i \in 1..(j - 1) :
        st.streams[t][i] < st.streams[t][j]
  BY DEF LogSound, WellFormed, StreamIndexSound
<1>8. \A j \in 1..Len(st.streams[s]) :
        (j <= v => st.streams[s][j] < k) /\ (j > v + 1 => k < st.streams[s][j])
  <2> SUFFICES ASSUME NEW j \in 1..Len(st.streams[s])
               PROVE  (j <= v => st.streams[s][j] < k) /\ (j > v + 1 => k < st.streams[s][j])
    OBVIOUS
  <2>1. ASSUME j <= v PROVE st.streams[s][j] < k
    <3>1. j \in 1..((v + 1) - 1)
      BY <1>4, <2>1
    <3>2. QED
      BY <1>4, <1>5, <1>7, <3>1
  <2>2. ASSUME j > v + 1 PROVE k < st.streams[s][j]
    <3>1. v + 1 \in 1..(j - 1)
      BY <1>4, <2>2
    <3>2. QED
      BY <1>4, <1>5, <1>7, <3>1
  <2>3. QED
    BY <2>1, <2>2
<1>9. PICK m \in 0..Len(st.streams[s]) :
        /\ c.stream_versions[s] = Cursor(m)
        /\ \A j \in 1..Len(st.streams[s]) : j <= m <=> st.streams[s][j] < k
  BY <1>4 DEF Fits
<1>10. m = v
  <2>1. ~(v + 1 <= m)
    BY <1>2, <1>5, <1>9
  <2>2. v = 0 \/ v <= m
    <3>1. ASSUME v # 0 PROVE v <= m
      <4>1. v \in 1..Len(st.streams[s])
        BY <1>4, <1>5, <1>6, <3>1
      <4>2. st.streams[s][v] < k
        BY <1>4, <1>8, <4>1
      <4>3. QED
        BY <1>9, <4>1, <4>2
    <3>2. QED
      BY <3>1
  <2>3. QED
    BY <1>4, <1>6, <1>9, <2>1, <2>2
<1>11. e.stream_version = NextVersion(c.stream_versions[s])
  BY <1>3, <1>4, <1>9, <1>10, CursorNext
<1>12. e.global_position = NextVersion(c.global_position)
  BY <1>2, <1>4, CursorNext DEF Fits
<1>13. PICK d : d = Advance(c, e)
  OBVIOUS
<1>14. c.stream_versions \in [Streams -> Nat \cup {None}] /\ c \in Cursors
  BY DEF Fits, Cursors
<1>15. /\ d.global_position = k
       /\ d.stream_versions = [c.stream_versions EXCEPT ![s] = v]
       /\ d = [global_position |-> k, stream_versions |-> [c.stream_versions EXCEPT ![s] = v]]
  BY <1>3, <1>4, <1>13 DEF Advance
<1>16. d \in Cursors
  BY <1>2, <1>4, <1>14, <1>15 DEF Cursors
<1>17. /\ d.stream_versions[s] = v
       /\ \A t \in Streams : t # s => d.stream_versions[t] = c.stream_versions[t]
  BY <1>4, <1>14, <1>15
<1>18. ASSUME NEW t \in Streams
       PROVE  \E i \in 0..Len(st.streams[t]) :
                /\ d.stream_versions[t] = Cursor(i)
                /\ \A j \in 1..Len(st.streams[t]) : j <= i <=> st.streams[t][j] < k + 1
  <2>1. CASE t = s
    <3>1. v + 1 \in 0..Len(st.streams[s]) /\ Cursor(v + 1) = v
      BY <1>4, <1>5, CursorNext
    <3>2. ASSUME NEW j \in 1..Len(st.streams[s])
          PROVE  j <= v + 1 <=> st.streams[s][j] < k + 1
      <4>1. st.streams[s][j] \in Nat /\ j \in Nat
        BY <1>4, <1>6
      <4>2. CASE j <= v
        <5>1. st.streams[s][j] < k
          BY <1>8, <4>2
        <5>2. st.streams[s][j] < k + 1
          BY <1>2, <4>1, <5>1
        <5>3. j <= v + 1
          BY <1>4, <4>1, <4>2
        <5>4. QED
          BY <5>2, <5>3
      <4>3. CASE j = v + 1
        <5>1. st.streams[s][j] = k /\ k < k + 1
          BY <1>2, <1>5, <4>3
        <5>2. QED
          BY <1>4, <4>3, <5>1
      <4>4. CASE j > v + 1
        <5>1. k < st.streams[s][j]
          BY <1>8, <4>4
        <5>2. ~(st.streams[s][j] < k + 1)
          BY <1>2, <4>1, <5>1
        <5>3. QED
          BY <1>4, <4>1, <4>4, <5>2
      <4>5. QED
        BY <1>4, <4>1, <4>2, <4>3, <4>4
    <3>3. QED
      BY <1>17, <2>1, <3>1, <3>2
  <2>2. CASE t # s
    <3>1. PICK i \in 0..Len(st.streams[t]) :
            /\ c.stream_versions[t] = Cursor(i)
            /\ \A j \in 1..Len(st.streams[t]) : j <= i <=> st.streams[t][j] < k
      BY DEF Fits
    <3>2. ASSUME NEW j \in 1..Len(st.streams[t])
          PROVE  st.streams[t][j] < k <=> st.streams[t][j] < k + 1
      <4>1. st.streams[t][j] \in Nat
        BY <1>6
      <4>2. st.events[st.streams[t][j] + 1].stream_id = t
        BY DEF LogSound, WellFormed, StreamIndexSound
      <4>3. st.streams[t][j] # k
        BY <1>3, <2>2, <4>2
      <4>4. QED
        BY <1>2, <4>1, <4>3
    <3>3. QED
      BY <1>17, <2>2, <3>1, <3>2
  <2>3. QED
    BY <2>1, <2>2
<1>19. Fits(d, st, k + 1)
  <2>1. d.global_position = Cursor(k + 1)
    BY <1>2, <1>15, CursorNext
  <2>2. QED
    BY <1>16, <1>18, <2>1 DEF Fits
<1>20. QED
  BY <1>3, <1>11, <1>12, <1>13, <1>19

\* An accepted event, field by field.
LEMMA NextFields ==
  ASSUME NEW a, NEW event, a # None,
         ValidNext(a.cursor, a.ids, event.metadata),
         Accepts(a.projection, event.input.payload, event.input.recorded_at)
  PROVE  /\ ApplyNext(a, event).projection
              = Apply(a.projection, event.input.payload, event.input.recorded_at,
                      event.metadata.global_position)
         /\ ApplyNext(a, event).cursor = Advance(a.cursor, event.metadata)
         /\ ApplyNext(a, event).ids = a.ids \cup {event.metadata.id}
         /\ ApplyNext(a, event)
              = [projection |-> Apply(a.projection, event.input.payload,
                                      event.input.recorded_at, event.metadata.global_position),
                 cursor |-> Advance(a.cursor, event.metadata),
                 ids |-> a.ids \cup {event.metadata.id}]
<1>1. ApplyNext(a, event)
        = [projection |-> Apply(a.projection, event.input.payload,
                                event.input.recorded_at, event.metadata.global_position),
           cursor |-> Advance(a.cursor, event.metadata),
           ids |-> a.ids \cup {event.metadata.id}]
  BY DEF ApplyNext
<1>2. QED
  BY <1>1

\* A replay that accepts the next event reaches it.
LEMMA ReplayStep ==
  ASSUME NEW st, NEW rec, LogSound(st, rec), NEW k \in 0..(Len(st.events) - 1),
         NEW a, Reached(a, st, k),
         Accepts(a.projection, rec[k + 1].payload, rec[k + 1].recorded_at)
  PROVE  Reached(ApplyNext(a, Event(st.events, rec, k + 1)), st, k + 1)
<1>1. PICK event, e : event = Event(st.events, rec, k + 1) /\ e = st.events[k + 1]
  OBVIOUS
<1>2. event.metadata = e /\ event.input = rec[k + 1]
  BY <1>1 DEF Event
<1>3. Len(st.events) \in Nat
  BY StoreFields, LenProperties DEF LogSound
<1>4. k \in Nat /\ k + 1 \in 1..Len(st.events) /\ (k + 1) - 1 = k
  BY <1>3
<1>5. /\ e.id = k + 1 /\ k + 1 \in EventIds /\ e.global_position = k
      /\ rec[k + 1].payload \in MemoryEvent /\ rec[k + 1].recorded_at \in Time
  BY <1>1, <1>4, LogEvent
<1>6. /\ a \in Progress /\ Sound(a.projection) /\ Fits(a.cursor, st, k) /\ a.ids = 1..k
  BY DEF Reached
<1>7. /\ e.global_position = NextVersion(a.cursor.global_position)
      /\ e.stream_version = NextVersion(a.cursor.stream_versions[e.stream_id])
      /\ Fits(Advance(a.cursor, e), st, k + 1)
  BY <1>1, <1>6, CursorAdvances
<1>8. e.id \notin a.ids
  BY <1>4, <1>5, <1>6
<1>9. ValidNext(a.cursor, a.ids, e) /\ a # None
  BY <1>6, <1>7, <1>8, ProgressAssumption DEF ValidNext
<1>10. PICK b : b = ApplyNext(a, event)
  OBVIOUS
<1>11. PICK q : q = Apply(a.projection, rec[k + 1].payload, rec[k + 1].recorded_at, k)
  OBVIOUS
<1>12. /\ b.projection = q /\ b.cursor = Advance(a.cursor, e) /\ b.ids = a.ids \cup {k + 1}
       /\ b = [projection |-> q, cursor |-> Advance(a.cursor, e), ids |-> a.ids \cup {k + 1}]
  BY <1>2, <1>5, <1>9, <1>10, <1>11, NextFields
<1>13. Sound(q) /\ q.last_global_position = k
  BY <1>4, <1>5, <1>6, <1>11, ApplySound
<1>14. b.ids = 1..(k + 1)
  BY <1>4, <1>6, <1>12
<1>15. b \in Progress
  <2>1. q \in Projection /\ Advance(a.cursor, e) \in Cursors
    BY <1>7, <1>13 DEF Sound, Fits
  <2>2. a.ids \cup {k + 1} \in SUBSET EventIds
    BY <1>5, <1>6 DEF Progress
  <2>3. QED
    BY <1>12, <2>1, <2>2 DEF Progress
<1>16. Cursor(k + 1) = k
  BY <1>4, CursorNext
<1>17. Reached(b, st, k + 1)
  BY <1>7, <1>12, <1>13, <1>14, <1>15, <1>16 DEF Reached
<1>18. QED
  BY <1>1, <1>10, <1>17

\* Two replays with the same cursor and content accept the same event and stay
\* alike, as long as the event is new to both.
Alike(a, b) ==
  /\ a \in Progress /\ b \in Progress
  /\ Sound(a.projection) /\ Sound(b.projection)
  /\ a.cursor = b.cursor /\ Canonical(a.projection) = Canonical(b.projection)

\* The next event keeps two replays with one content alike.
LEMMA AlikeStep ==
  ASSUME NEW a, NEW b, Alike(a, b), NEW event, ApplyNext(a, event) \in Progress,
         event.metadata.id \in EventIds \ b.ids, event.metadata.global_position \in Nat,
         event.input.payload \in MemoryEvent, event.input.recorded_at \in Time
  PROVE  /\ Alike(ApplyNext(a, event), ApplyNext(b, event))
         /\ ApplyNext(b, event).ids = b.ids \cup {event.metadata.id}
         /\ Listed(b.projection) => Listed(ApplyNext(b, event).projection)
<1>1. PICK payload, at, position :
        /\ payload = event.input.payload /\ at = event.input.recorded_at
        /\ position = event.metadata.global_position
  OBVIOUS
<1>2. payload \in MemoryEvent /\ at \in Time /\ position \in Nat
  BY <1>1
<1>3. /\ a \in Progress /\ b \in Progress /\ a # None /\ b # None
      /\ Sound(a.projection) /\ Sound(b.projection)
      /\ a.cursor = b.cursor /\ Canonical(a.projection) = Canonical(b.projection)
  BY ProgressAssumption DEF Alike
<1>4. ValidNext(a.cursor, a.ids, event.metadata) /\ Accepts(a.projection, payload, at)
  BY <1>1, <1>3, ProgressAssumption DEF ApplyNext
<1>5. ValidNext(b.cursor, b.ids, event.metadata)
  BY <1>3, <1>4 DEF ValidNext
<1>6. Agree(a.projection, b.projection)
  BY <1>3, CanonicalFields
<1>7. /\ Accepts(b.projection, payload, at)
      /\ Canonical(Apply(a.projection, payload, at, position))
           = Canonical(Apply(b.projection, payload, at, position))
  BY <1>2, <1>3, <1>4, <1>6, ApplySimulates
<1>8. PICK c, d : c = ApplyNext(a, event) /\ d = ApplyNext(b, event)
  OBVIOUS
<1>9. /\ c.projection = Apply(a.projection, payload, at, position)
      /\ c.cursor = Advance(a.cursor, event.metadata)
  BY <1>1, <1>3, <1>4, <1>8, NextFields
<1>10. /\ d.projection = Apply(b.projection, payload, at, position)
       /\ d.cursor = Advance(b.cursor, event.metadata)
       /\ d.ids = b.ids \cup {event.metadata.id}
       /\ d = [projection |-> Apply(b.projection, payload, at, position),
               cursor |-> Advance(b.cursor, event.metadata),
               ids |-> b.ids \cup {event.metadata.id}]
  BY <1>1, <1>3, <1>5, <1>7, <1>8, NextFields
<1>11. Sound(c.projection) /\ Sound(d.projection)
  BY <1>2, <1>3, <1>4, <1>7, <1>9, <1>10, ApplySound
<1>12. d \in Progress
  <2>1. c.cursor \in Cursors /\ c.cursor = d.cursor
    BY <1>3, <1>8, <1>9, <1>10 DEF Progress
  <2>2. d.projection \in Projection
    BY <1>11 DEF Sound
  <2>3. b.ids \cup {event.metadata.id} \in SUBSET EventIds
    BY <1>3 DEF Progress
  <2>4. QED
    BY <1>10, <2>1, <2>2, <2>3 DEF Progress
<1>13. Alike(c, d)
  BY <1>3, <1>7, <1>8, <1>9, <1>10, <1>11, <1>12 DEF Alike
<1>14. Listed(b.projection) => Listed(d.projection)
  BY <1>2, <1>3, <1>7, <1>10, ApplyListed
<1>15. QED
  BY <1>8, <1>10, <1>13, <1>14

-----------------------------------------------------------------------------
\* The inductive invariant.  Every prefix of the log replays, and the host's
\* projection has the content and the cursor of the whole replay.
Replayed(st, rec) ==
  \A k \in 0..Len(st.events) : Reached(At(st.events, rec, k), st, k)

LiveSound(st, rec, snapshot) ==
  /\ snapshot \in [projection: Projection, cursor: Cursors]
  /\ Sound(snapshot.projection) /\ Listed(snapshot.projection)
  /\ snapshot.cursor = At(st.events, rec, Len(st.events)).cursor
  /\ Canonical(snapshot.projection) = Canonical(At(st.events, rec, Len(st.events)).projection)

ReplayInv ==
  /\ LogSound(store, recorded)
  /\ Replayed(store, recorded)
  /\ LiveSound(store, recorded, live)

\* A cursor into the log is one into the longer log.
LEMMA FitsGrows ==
  ASSUME NEW st, NEW rec, LogSound(st, rec), NEW k \in 0..Len(st.events), NEW c, Fits(c, st, k),
         NEW s \in Streams, NEW b, Len(b) = 1, NEW new, Extended(st, new, s, b)
  PROVE  Fits(c, new, k)
<1>1. PICK old, had : old = Len(st.events) /\ had = Len(st.streams[s])
  OBVIOUS
<1>2. old \in Nat /\ had \in Nat /\ k \in Nat /\ k <= old
  BY <1>1, StoreFields, LenProperties DEF LogSound
<1>3. /\ Len(new.streams[s]) = had + 1
      /\ \A j \in 1..had : new.streams[s][j] = st.streams[s][j]
      /\ new.streams[s][had + 1] = old
      /\ \A t \in Streams \ {s} : new.streams[t] = st.streams[t]
  <2>1. /\ Len(new.streams[s]) = had + 1
        /\ \A j \in 1..had : new.streams[s][j] = st.streams[s][j]
        /\ \A j \in (had + 1)..(had + 1) : new.streams[s][j] = old + (j - had) - 1
        /\ \A t \in Streams \ {s} : new.streams[t] = st.streams[t]
    BY <1>1 DEF Extended
  <2>2. had + 1 \in (had + 1)..(had + 1) /\ old + ((had + 1) - had) - 1 = old
    BY <1>2
  <2>3. QED
    BY <2>1, <2>2
<1>4. ASSUME NEW t \in Streams
      PROVE  \E m \in 0..Len(new.streams[t]) :
               /\ c.stream_versions[t] = Cursor(m)
               /\ \A j \in 1..Len(new.streams[t]) : j <= m <=> new.streams[t][j] < k
  <2>1. PICK m \in 0..Len(st.streams[t]) :
          /\ c.stream_versions[t] = Cursor(m)
          /\ \A j \in 1..Len(st.streams[t]) : j <= m <=> st.streams[t][j] < k
    BY DEF Fits
  <2>2. CASE t # s
    BY <1>3, <2>1, <2>2
  <2>3. CASE t = s
    <3>1. m \in 0..had /\ m \in 0..(had + 1) /\ m \in Nat
      BY <1>1, <1>2, <2>1, <2>3
    <3>2. ASSUME NEW j \in 1..(had + 1) PROVE j <= m <=> new.streams[s][j] < k
      <4>1. CASE j \in 1..had
        BY <1>1, <1>3, <2>1, <2>3, <4>1
      <4>2. CASE j = had + 1
        BY <1>2, <1>3, <3>1, <4>2
      <4>3. QED
        BY <1>2, <4>1, <4>2
    <3>3. QED
      BY <1>3, <2>1, <2>3, <3>1, <3>2
  <2>4. QED
    BY <2>2, <2>3
<1>5. QED
  BY <1>4 DEF Fits

\* The log with one more event, which is the host's input.
Recorded(st, rec, input, new, after) ==
  /\ LogSound(new, after) /\ Len(st.events) \in Nat
  /\ Len(new.events) = Len(st.events) + 1
  /\ \A i \in 1..Len(st.events) : new.events[i] = st.events[i] /\ after[i] = rec[i]
  /\ new.events[Len(st.events) + 1] = PrepareAppend(st, input.stream, <<Len(st.events) + 1>>)[1]
  /\ after[Len(st.events) + 1] = input
  /\ \A k \in 0..Len(st.events) : \A c : Fits(c, st, k) => Fits(c, new, k)

\* An append of one event makes such a log of a sound one.
LEMMA RecordedLog ==
  ASSUME NEW st, NEW rec, LogSound(st, rec), NEW input \in Inputs, Len(st.events) < MaxEvents
  PROVE  Recorded(st, rec, input,
                  CommitPrepared(st, PrepareAppend(st, input.stream, <<Len(st.events) + 1>>)),
                  Append(rec, input))
<1>1. PICK n, s : n = Len(st.events) /\ s = input.stream
  OBVIOUS
<1>2. PICK b, new, after :
        /\ b = PrepareAppend(st, s, <<n + 1>>) /\ new = CommitPrepared(st, b)
        /\ after = Append(rec, input)
  OBVIOUS
<1>3. /\ st \in Store /\ WellFormed(st) /\ n \in Nat /\ rec \in Seq(Inputs) /\ Len(rec) = n
      /\ \A i \in 1..n : st.events[i].id = i
  BY <1>1, StoreFields, LenProperties DEF LogSound
<1>4. s \in Streams /\ n + 1 \in EventIds /\ n + 1 <= MaxEvents
  <2>1. input \in [payload: MemoryEvent, recorded_at: Time, stream: Streams]
    BY InputsAssumption
  <2>2. n + 1 \in 1..MaxEvents
    BY <1>1, <1>3, InputsAssumption
  <2>3. QED
    BY <1>1, <2>1, <2>2, InputsAssumption
<1>5. PICK ids : ids = <<n + 1>>
  OBVIOUS
<1>6. ids \in Seq(EventIds) /\ Len(ids) = 1 /\ ids # <<>> /\ ids[1] = n + 1
  BY <1>4, <1>5
<1>7. UniqueIds(st.event_ids, ids)
  <2>1. st.event_ids = {st.events[i].id : i \in 1..n}
    BY <1>1, <1>3 DEF WellFormed, IdsUnique
  <2>2. n + 1 \notin st.event_ids
    BY <1>3, <2>1
  <2>3. DOMAIN ids = 1..1
    BY <1>5
  <2>4. QED
    BY <1>6, <2>2, <2>3 DEF UniqueIds
<1>8. b = PrepareAppend(st, s, ids)
  BY <1>2, <1>5
<1>9. Len(b) = 1 /\ b[1].id = n + 1
  <2>1. /\ Len(b) = Len(ids)
        /\ \A k \in 1..Len(ids) : b[k].id = ids[k]
    BY <1>3, <1>4, <1>6, <1>8, PreparedBatch
  <2>2. 1 \in 1..Len(ids)
    BY <1>6
  <2>3. QED
    BY <1>6, <2>1, <2>2
<1>10. Extended(st, new, s, b)
  BY <1>2, <1>3, <1>4, <1>6, <1>8, CommittedStore
<1>11. WellFormed(new)
  BY <1>2, <1>3, <1>4, <1>6, <1>7, <1>8, CommitWellFormed
<1>12. /\ new \in Store /\ Len(new.events) = n + 1
       /\ \A i \in 1..n : new.events[i] = st.events[i]
       /\ new.events[n + 1] = b[1]
  <2>1. /\ new \in Store /\ Len(new.events) = n + 1
        /\ \A i \in 1..n : new.events[i] = st.events[i]
        /\ \A i \in (n + 1)..(n + 1) : new.events[i] = b[i - n]
    BY <1>1, <1>9, <1>10 DEF Extended
  <2>2. n + 1 \in (n + 1)..(n + 1) /\ (n + 1) - n = 1
    BY <1>3
  <2>3. QED
    BY <2>1, <2>2
<1>13. /\ after \in Seq(Inputs) /\ Len(after) = n + 1
       /\ \A i \in 1..n : after[i] = rec[i]
       /\ after[n + 1] = input
  BY <1>2, <1>3, AppendProperties
<1>14. \A i \in 1..(n + 1) : new.events[i].id = i
  <2>1. \A i \in 1..(n + 1) : i \in 1..n \/ i = n + 1
    BY <1>3
  <2>2. QED
    BY <1>3, <1>9, <1>12, <2>1
<1>15. LogSound(new, after)
  BY <1>4, <1>11, <1>12, <1>13, <1>14 DEF LogSound
<1>16. \A k \in 0..n : \A c : Fits(c, st, k) => Fits(c, new, k)
  BY <1>1, <1>4, <1>9, <1>10, FitsGrows
<1>17. Recorded(st, rec, input, new, after)
  BY <1>1, <1>2, <1>3, <1>12, <1>13, <1>15, <1>16 DEF Recorded
<1>18. QED
  BY <1>1, <1>2, <1>17

\* What was reached in the log is reached in the longer one.
LEMMA ReachedStays ==
  ASSUME NEW st, NEW rec, NEW input, NEW new, NEW after, Recorded(st, rec, input, new, after),
         Replayed(st, rec)
  PROVE  \A k \in 0..Len(st.events) :
           /\ At(new.events, after, k) = At(st.events, rec, k)
           /\ Reached(At(new.events, after, k), new, k)
<1>1. Len(st.events) \in Nat /\ \A i \in 1..Len(st.events) : st.events[i] = new.events[i] /\ rec[i] = after[i]
  BY DEF Recorded
<1>2. \A k \in 0..Len(st.events) : At(st.events, rec, k) = At(new.events, after, k)
  <2>1. PICK es, fs, n : es = st.events /\ fs = new.events /\ n = Len(st.events)
    OBVIOUS
  <2>2. n \in Nat /\ SamePrefix(es, rec, fs, after, n)
    BY <1>1, <2>1 DEF SamePrefix
  <2>3. \A k \in 0..n : At(es, rec, k) = At(fs, after, k)
    BY <2>2, AtPrefix
  <2>4. QED
    BY <2>1, <2>3
<1>3. ASSUME NEW k \in 0..Len(st.events) PROVE Reached(At(st.events, rec, k), new, k)
  <2>1. Reached(At(st.events, rec, k), st, k)
    BY DEF Replayed
  <2>2. Fits(At(st.events, rec, k).cursor, new, k)
    BY <2>1 DEF Reached, Recorded
  <2>3. QED
    BY <2>1, <2>2 DEF Reached
<1>4. QED
  BY <1>2, <1>3

\* The host's step keeps the invariant.
LEMMA RecordKeeps ==
  ASSUME NEW st, NEW rec, NEW input \in Inputs, NEW new, NEW after,
         Recorded(st, rec, input, new, after), Replayed(st, rec),
         NEW snapshot, LiveSound(st, rec, snapshot),
         Accepts(snapshot.projection, input.payload, input.recorded_at),
         NEW tail, Len(tail) = 1,
         tail[1] = [metadata |-> PrepareAppend(st, input.stream, <<Len(st.events) + 1>>)[1],
                    input |-> input]
  PROVE  /\ Replayed(new, after)
         /\ LiveSound(new, after, Resume(snapshot, tail))
<1>1. PICK n : n = Len(st.events)
  OBVIOUS
<1>2. /\ n \in Nat /\ Len(new.events) = n + 1 /\ LogSound(new, after) /\ after[n + 1] = input
      /\ n \in 0..n /\ n \in 0..((n + 1) - 1)
      /\ n + 1 \in 1..(n + 1)
  BY <1>1 DEF Recorded
<1>3. PICK a : a = At(new.events, after, n)
  OBVIOUS
<1>4. Reached(a, new, n) /\ a = At(st.events, rec, n)
  BY <1>1, <1>2, <1>3, ReachedStays
<1>5. /\ snapshot \in [projection: Projection, cursor: Cursors]
      /\ Sound(snapshot.projection) /\ Listed(snapshot.projection)
      /\ snapshot.cursor = a.cursor /\ Canonical(snapshot.projection) = Canonical(a.projection)
  BY <1>1, <1>4 DEF LiveSound
<1>6. /\ a \in Progress /\ Sound(a.projection)
  BY <1>4 DEF Reached
<1>7. /\ new.events[n + 1].id = n + 1 /\ n + 1 \in EventIds
      /\ new.events[n + 1].global_position \in Nat
      /\ input.payload \in MemoryEvent /\ input.recorded_at \in Time
  <2>1. /\ new.events[n + 1].id = n + 1 /\ n + 1 \in EventIds
        /\ new.events[n + 1].global_position = (n + 1) - 1
        /\ after[n + 1].payload \in MemoryEvent /\ after[n + 1].recorded_at \in Time
    BY <1>2, LogEvent
  <2>2. QED
    BY <1>2, <2>1
<1>8. Accepts(a.projection, input.payload, input.recorded_at)
  <2>1. Agree(snapshot.projection, a.projection)
    BY <1>5, CanonicalFields
  <2>2. QED
    BY <1>5, <1>6, <1>7, <2>1, ApplySimulates
<1>9. PICK event : event = Event(new.events, after, n + 1)
  OBVIOUS
<1>10. event = tail[1] /\ event.metadata = new.events[n + 1] /\ event.input = input
  BY <1>1, <1>2, <1>9 DEF Event, Recorded
<1>11. At(new.events, after, n + 1) = ApplyNext(a, event)
  BY <1>2, <1>3, <1>9, AtNext
<1>12. Reached(ApplyNext(a, event), new, n + 1)
  BY <1>2, <1>4, <1>8, <1>9, ReplayStep
<1>13. Replayed(new, after)
  <2> SUFFICES ASSUME NEW k \in 0..(n + 1) PROVE Reached(At(new.events, after, k), new, k)
    BY <1>2 DEF Replayed
  <2>1. CASE k \in 0..n
    BY <1>1, <2>1, ReachedStays
  <2>2. CASE k = n + 1
    BY <1>11, <1>12, <2>2
  <2>3. QED
    BY <1>2, <2>1, <2>2
<1>14. PICK b : b = [projection |-> snapshot.projection, cursor |-> snapshot.cursor, ids |-> {}]
  OBVIOUS
<1>15. b.projection = snapshot.projection /\ b.cursor = snapshot.cursor /\ b.ids = {}
  BY <1>14
<1>16. Alike(a, b)
  <2>1. b \in Progress
    BY <1>5, <1>14 DEF Progress
  <2>2. QED
    BY <1>5, <1>6, <1>15, <2>1 DEF Alike
<1>17. /\ Alike(ApplyNext(a, event), ApplyNext(b, event))
       /\ Listed(ApplyNext(b, event).projection)
  <2>1. ApplyNext(a, event) \in Progress
    BY <1>12 DEF Reached
  <2>2. event.metadata.id \in EventIds \ b.ids
    BY <1>7, <1>10, <1>15
  <2>3. QED
    BY <1>5, <1>7, <1>10, <1>15, <1>16, <2>1, <2>2, AlikeStep
<1>18. ApplySequence(snapshot, tail) = ApplyNext(b, event)
  <2>1. PICK none : none = <<>>
    OBVIOUS
  <2>2. PICK m : m = 0
    OBVIOUS
  <2>3. m \in Nat /\ Len(none) = m /\ Len(tail) = m + 1 /\ m + 1 = 1
    BY <2>1, <2>2
  <2>4. \A k \in 1..m : none[k] = tail[k]
    BY <2>2
  <2>5. ApplySequence(snapshot, tail) = ApplyNext(ApplySequence(snapshot, none), tail[m + 1])
    BY <2>3, <2>4, ApplyOneMore
  <2>6. ApplySequence(snapshot, none) = b
    BY <1>14, <2>2, <2>3, ApplyEmpty
  <2>7. QED
    BY <1>10, <2>3, <2>5, <2>6
<1>19. PICK r : r = ApplyNext(b, event)
  OBVIOUS
<1>20. /\ r \in Progress /\ Sound(r.projection) /\ Listed(r.projection)
       /\ r.cursor = At(new.events, after, n + 1).cursor
       /\ Canonical(r.projection) = Canonical(At(new.events, after, n + 1).projection)
  BY <1>11, <1>17, <1>19 DEF Alike
<1>21. Resume(snapshot, tail) = [projection |-> r.projection, cursor |-> r.cursor]
  BY <1>18, <1>19, <1>20, ProgressAssumption DEF Resume
<1>22. LiveSound(new, after, Resume(snapshot, tail))
  <2>1. r.projection \in Projection /\ r.cursor \in Cursors
    BY <1>20 DEF Progress
  <2>2. QED
    BY <1>2, <1>20, <1>21, <2>1 DEF LiveSound
<1>23. QED
  BY <1>13, <1>22

\* Reloading keeps the invariant.
LEMMA ReloadKeeps ==
  ASSUME NEW st, NEW rec, Replayed(st, rec), Len(st.events) \in Nat,
         NEW snapshot, LiveSound(st, rec, snapshot)
  PROVE  LiveSound(st, rec, Reloaded(snapshot))
<1>1. PICK a : a = At(st.events, rec, Len(st.events))
  OBVIOUS
<1>2. PICK n : n = Len(st.events)
  OBVIOUS
<1>3. /\ Reached(a, st, n)
  BY <1>1, <1>2 DEF Replayed
<1>4. /\ snapshot \in [projection: Projection, cursor: Cursors]
      /\ Sound(snapshot.projection)
      /\ snapshot.cursor = a.cursor /\ Canonical(snapshot.projection) = Canonical(a.projection)
  BY <1>1 DEF LiveSound
<1>5. snapshot.cursor.global_position = snapshot.projection.last_global_position
  <2>1. snapshot.projection.last_global_position = a.projection.last_global_position
    BY <1>4, CanonicalFields
  <2>2. a.projection.last_global_position = Cursor(n) /\ a.cursor.global_position = Cursor(n)
    BY <1>3 DEF Reached, Fits
  <2>3. QED
    BY <1>4, <2>1, <2>2
<1>6. PICK q : q = RebuildIndexes(Canonical(snapshot.projection))
  OBVIOUS
<1>7. q # None /\ Sound(q) /\ Listed(q) /\ Canonical(q) = Canonical(snapshot.projection)
  BY <1>4, <1>6, RebuildSound
<1>8. Reloaded(snapshot) = [projection |-> q, cursor |-> snapshot.cursor]
  BY <1>5, <1>6, <1>7 DEF Reloaded
<1>9. q \in Projection
  BY <1>7 DEF Sound
<1>10. QED
  BY <1>1, <1>4, <1>7, <1>8, <1>9 DEF LiveSound

\* The invariant holds in every state.
THEOREM ReplayInvariant == Spec => []ReplayInv
<1>1. Init => ReplayInv
  <2> SUFFICES ASSUME Init PROVE ReplayInv
    OBVIOUS
  <2>1. store = EmptyStore /\ recorded = <<>> /\ live = Start
    BY DEF Init, Start
  <2>2. /\ store \in Store /\ WellFormed(store) /\ store.events = <<>>
        /\ \A s \in Streams : store.streams[s] = <<>>
    BY <2>1, EmptyStoreWellFormed DEF EmptyStore
  <2>3. LogSound(store, recorded)
    BY <2>1, <2>2, InputsAssumption DEF LogSound
  <2>4. PICK a : a = At(store.events, recorded, 0)
    OBVIOUS
  <2>5. a = [projection |-> EmptyProjection, cursor |-> StartCursor, ids |-> {}]
    BY <2>4, AtNext
  <2>6. Fits(StartCursor, store, 0)
    <3>1. StartCursor \in Cursors /\ StartCursor.global_position = None
      BY DEF StartCursor, Cursors
    <3>2. Cursor(0) = None
      BY DEF Cursor
    <3>3. ASSUME NEW s \in Streams
          PROVE  \E m \in 0..Len(store.streams[s]) :
                   /\ StartCursor.stream_versions[s] = Cursor(m)
                   /\ \A j \in 1..Len(store.streams[s]) : j <= m <=> store.streams[s][j] < 0
      <4>1. Len(store.streams[s]) = 0
        BY <2>2
      <4>2. StartCursor.stream_versions[s] = None
        BY DEF StartCursor
      <4>3. QED
        BY <3>2, <4>1, <4>2
    <3>4. QED
      BY <3>1, <3>2, <3>3 DEF Fits
  <2>7. Reached(a, store, 0)
    <3>1. Sound(EmptyProjection) /\ EmptyProjection.last_global_position = None
      BY EmptySound DEF EmptyProjection
    <3>2. a \in Progress
      BY <2>5, <2>6, <3>1 DEF Progress, Sound, Fits
    <3>3. Cursor(0) = None
      BY DEF Cursor
    <3>4. a.ids = 1..0
      BY <2>5
    <3>5. QED
      BY <2>5, <2>6, <3>1, <3>2, <3>3, <3>4 DEF Reached
  <2>8. Len(store.events) = 0
    BY <2>2
  <2>9. Replayed(store, recorded)
    BY <2>4, <2>7, <2>8 DEF Replayed
  <2>10. LiveSound(store, recorded, live)
    <3>1. live.projection = EmptyProjection /\ live.cursor = StartCursor
      BY <2>1 DEF Start
    <3>2. live \in [projection: Projection, cursor: Cursors]
      BY <2>1, <2>6, EmptySound DEF Start, Sound, Fits
    <3>3. QED
      BY <2>4, <2>5, <2>8, <3>1, <3>2, EmptySound DEF LiveSound
  <2>11. QED
    BY <2>3, <2>9, <2>10 DEF ReplayInv
<1>2. ReplayInv /\ [Next]_vars => ReplayInv'
  <2> SUFFICES ASSUME ReplayInv, [Next]_vars PROVE ReplayInv'
    OBVIOUS
  <2>1. /\ LogSound(store, recorded) /\ Replayed(store, recorded)
        /\ LiveSound(store, recorded, live)
    BY DEF ReplayInv
  <2>2. CASE UNCHANGED vars
    BY <2>1, <2>2 DEF vars, ReplayInv
  <2>3. CASE Reload
    <3>1. Len(store.events) \in Nat
      BY <2>1, StoreFields, LenProperties DEF LogSound
    <3>2. LiveSound(store, recorded, live')
      BY <2>1, <2>3, <3>1, ReloadKeeps DEF Reload
    <3>3. QED
      BY <2>1, <2>3, <3>2 DEF Reload, ReplayInv
  <2>4. ASSUME NEW input \in Inputs, Record(input) PROVE ReplayInv'
    <3>1. PICK n, committed, tail :
            /\ n = Len(store.events) /\ committed = PrepareAppend(store, input.stream, <<n + 1>>)
            /\ tail = [k \in 1..1 |-> [metadata |-> committed[k], input |-> input]]
      OBVIOUS
    <3>2. /\ n < MaxEvents
          /\ Accepts(live.projection, input.payload, input.recorded_at)
          /\ store' = CommitPrepared(store, committed)
          /\ recorded' = Append(recorded, input)
          /\ live' = Resume(live, tail)
      BY <2>4, <3>1 DEF Record
    <3>3. Recorded(store, recorded, input, store', recorded')
      BY <2>1, <3>1, <3>2, RecordedLog
    <3>4. tail[1] = [metadata |-> committed[1], input |-> input] /\ Len(tail) = 1
      <4>1. tail \in [1..1 -> {[metadata |-> committed[1], input |-> input]}]
        BY <3>1
      <4>2. QED
        BY <4>1
    <3>5. Replayed(store', recorded') /\ LiveSound(store', recorded', live')
      <4>1. PICK new, after : new = store' /\ after = recorded'
        OBVIOUS
      <4>2. Recorded(store, recorded, input, new, after)
        BY <3>3, <4>1
      <4>3. tail[1] = [metadata |-> PrepareAppend(store, input.stream, <<Len(store.events) + 1>>)[1],
                       input |-> input]
        BY <3>1, <3>4
      <4>4. Replayed(new, after) /\ LiveSound(new, after, Resume(live, tail))
        BY <2>1, <3>2, <3>4, <4>2, <4>3, RecordKeeps
      <4>5. QED
        BY <3>2, <4>1, <4>4
    <3>6. LogSound(store', recorded')
      BY <3>3 DEF Recorded
    <3>7. QED
      BY <3>5, <3>6 DEF ReplayInv
  <2>5. QED
    BY <2>2, <2>3, <2>4 DEF Next
<1>3. QED
  BY <1>1, <1>2, PTL DEF Spec

-----------------------------------------------------------------------------
\* Every append, resume and reload of the host leaves a store, a log and a
\* projection: none of them fails.
THEOREM TypeCorrect == Spec => []TypeOK
<1>1. ReplayInv => TypeOK
  BY DEF ReplayInv, LogSound, LiveSound, TypeOK
<1>2. QED
  BY <1>1, ReplayInvariant, PTL

\* replay of a prefix of the log succeeds, with what the invariant says of it.
LEMMA ReplayReaches ==
  ASSUME ReplayInv, NEW k \in 0..Len(store.events), NEW a, a = At(store.events, recorded, k)
  PROVE  /\ Reached(a, store, k)
         /\ Replay(k) = [projection |-> a.projection, cursor |-> a.cursor]
         /\ Replay(k).projection = a.projection /\ Replay(k).cursor = a.cursor
<1>1. Reached(a, store, k)
  BY DEF ReplayInv, Replayed
<1>2. a # None
  BY <1>1, ProgressAssumption DEF Reached
<1>3. Segment(0, k) = Slice(store.events, recorded, 0, k)
  BY SegmentIsSlice
<1>4. ApplySequence(Start, Segment(0, k)) = a
  BY <1>3 DEF At
<1>5. Replay(k) = Resume(Start, Segment(0, k))
  BY DEF Replay, Start
<1>6. Replay(k) = [projection |-> a.projection, cursor |-> a.cursor]
  BY <1>2, <1>4, <1>5 DEF Resume
<1>7. QED
  BY <1>1, <1>6

\* resume takes only the exact continuation of a snapshot: the positions the
\* cursor demands leave no gap, no overlap and no repetition.
THEOREM ResumesOnlyTheContinuation == Spec => []ResumeIsExact
<1>1. ReplayInv => ResumeIsExact
  <2> SUFFICES ASSUME ReplayInv,
                      NEW k \in 0..Len(store.events), NEW from \in 0..Len(store.events),
                      NEW to \in (from + 1)..Len(store.events),
                      Resume(Replay(k), Segment(from, to)) # None
               PROVE  from = k
    BY DEF ResumeIsExact
  <2>1. LogSound(store, recorded)
    BY DEF ReplayInv
  <2>2. Len(store.events) \in Nat
    BY <2>1, StoreFields, LenProperties DEF LogSound
  <2>3. /\ from \in Nat /\ to \in Nat /\ k \in Nat /\ from <= to
        /\ from + 1 \in 1..Len(store.events) /\ (to - from) - 1 \in Nat
        /\ 1 \in 1..(to - from) /\ to - from = ((to - from) - 1) + 1
        /\ (from + 1) - 1 = from
    BY <2>2
  <2>4. PICK tail, snapshot, n :
          /\ tail = Slice(store.events, recorded, from, to) /\ snapshot = Replay(k)
          /\ n = (to - from) - 1
    OBVIOUS
  <2>5. Len(tail) = n + 1 /\ n \in Nat /\ tail[1] = Event(store.events, recorded, from + 1)
    <3>1. PICK es : es = store.events
      OBVIOUS
    <3>2. /\ Len(Slice(es, recorded, from, to)) = to - from
          /\ \A i \in 1..(to - from) : Slice(es, recorded, from, to)[i] = Event(es, recorded, from + i)
      BY <2>3, SliceLength
    <3>3. QED
      BY <2>3, <2>4, <3>1, <3>2
  <2>6. ApplySequence(snapshot, tail) # None
    BY <2>3, <2>4, SegmentIsSlice DEF Resume
  <2>7. PICK acc : acc = [projection |-> snapshot.projection, cursor |-> snapshot.cursor, ids |-> {}]
    OBVIOUS
  <2>8. ApplyNext(acc, tail[1]) # None
    BY <2>5, <2>6, <2>7, FirstAccepted
  <2>9. ValidNext(acc.cursor, acc.ids, tail[1].metadata)
    BY <2>8 DEF ApplyNext
  <2>10. tail[1].metadata.global_position = NextVersion(snapshot.cursor.global_position)
    BY <2>7, <2>9 DEF ValidNext
  <2>11. tail[1].metadata.global_position = from
    <3>1. tail[1].metadata = store.events[from + 1]
      BY <2>5 DEF Event
    <3>2. store.events[from + 1].global_position = (from + 1) - 1
      BY <2>1, <2>3, LogEvent
    <3>3. QED
      BY <2>3, <3>1, <3>2
  <2>12. NextVersion(snapshot.cursor.global_position) = k
    <3>1. PICK a : a = At(store.events, recorded, k)
      OBVIOUS
    <3>2. Reached(a, store, k) /\ snapshot.cursor = a.cursor
      BY <2>4, <3>1, ReplayReaches
    <3>3. snapshot.cursor.global_position = Cursor(k)
      BY <3>2 DEF Reached, Fits
    <3>4. QED
      BY <2>3, <3>3, CursorNext
  <2>13. QED
    BY <2>10, <2>11, <2>12
<1>2. QED
  BY <1>1, ReplayInvariant, PTL

\* Resuming a snapshot of position k with the events before position m leads
\* to the content of the replay of m events.
Follows(st, rec, snapshot, k, m) ==
  /\ Alike(At(st.events, rec, m), ApplySequence(snapshot, Slice(st.events, rec, k, m)))
  /\ ApplySequence(snapshot, Slice(st.events, rec, k, m)).ids = (k + 1)..m

\* One more event of the tail keeps the resumed snapshot in step.
LEMMA FollowsNext ==
  ASSUME NEW st, NEW rec, LogSound(st, rec), Replayed(st, rec), NEW snapshot,
         NEW k \in 0..Len(st.events), NEW m \in k..(Len(st.events) - 1),
         Follows(st, rec, snapshot, k, m)
  PROVE  Follows(st, rec, snapshot, k, m + 1)
<1>1. PICK es : es = st.events
  OBVIOUS
<1>2. Len(es) \in Nat
  BY <1>1, StoreFields, LenProperties DEF LogSound
<1>3. /\ k \in Nat /\ m \in Nat /\ k <= m /\ m + 1 \in 1..Len(es) /\ m + 1 \in 0..Len(es)
      /\ m + 1 \notin (k + 1)..m /\ ((k + 1)..m) \cup {m + 1} = (k + 1)..(m + 1)
  BY <1>1, <1>2
<1>4. PICK a, b, event :
        /\ a = At(es, rec, m) /\ b = ApplySequence(snapshot, Slice(es, rec, k, m))
        /\ event = Event(es, rec, m + 1)
  OBVIOUS
<1>5. Alike(a, b) /\ b.ids = (k + 1)..m
  BY <1>1, <1>4 DEF Follows
<1>6. At(es, rec, m + 1) = ApplyNext(a, event)
  BY <1>3, <1>4, AtNext
<1>7. ApplySequence(snapshot, Slice(es, rec, k, m + 1)) = ApplyNext(b, event)
  BY <1>3, <1>4, SliceNext
<1>8. ApplyNext(a, event) \in Progress
  BY <1>1, <1>3, <1>6 DEF Replayed, Reached
<1>9. /\ event.metadata = es[m + 1] /\ event.input = rec[m + 1]
  BY <1>4 DEF Event
<1>10. /\ event.metadata.id = m + 1 /\ event.metadata.id \in EventIds \ b.ids
       /\ event.metadata.global_position \in Nat
       /\ event.input.payload \in MemoryEvent /\ event.input.recorded_at \in Time
  <2>1. /\ es[m + 1].id = m + 1 /\ m + 1 \in EventIds
        /\ es[m + 1].global_position = (m + 1) - 1 /\ (m + 1) - 1 \in Nat
        /\ rec[m + 1].payload \in MemoryEvent /\ rec[m + 1].recorded_at \in Time
    BY <1>1, <1>3, LogEvent
  <2>2. QED
    BY <1>3, <1>5, <1>9, <2>1
<1>11. Alike(ApplyNext(a, event), ApplyNext(b, event)) /\ ApplyNext(b, event).ids = b.ids \cup {m + 1}
  BY <1>5, <1>8, <1>10, AlikeStep
<1>12. QED
  BY <1>1, <1>3, <1>5, <1>6, <1>7, <1>11 DEF Follows

\* What a snapshot of any prefix leads to, once it has been through its codec.
LEMMA ReloadFollows ==
  ASSUME NEW st, NEW rec, LogSound(st, rec), Replayed(st, rec),
         NEW k \in 0..Len(st.events), NEW snapshot,
         snapshot = [projection |-> At(st.events, rec, k).projection,
                     cursor |-> At(st.events, rec, k).cursor]
  PROVE  Follows(st, rec, Reloaded(snapshot), k, Len(st.events))
<1>1. PICK es, a : es = st.events /\ a = At(es, rec, k)
  OBVIOUS
<1>2. Len(es) \in Nat /\ k \in Nat /\ k <= Len(es) /\ Len(es) - k \in Nat
      /\ k + (Len(es) - k) = Len(es) /\ k <= k
  <2>1. Len(es) \in Nat
    BY <1>1, StoreFields, LenProperties DEF LogSound
  <2>2. QED
    BY <1>1, <2>1
<1>3. Reached(a, st, k)
  BY <1>1 DEF Replayed
<1>4. a \in Progress /\ Sound(a.projection) /\ a.cursor \in Cursors
  BY <1>3 DEF Reached, Fits
<1>5. a.cursor.global_position = a.projection.last_global_position
  BY <1>3 DEF Reached, Fits
<1>6. snapshot.projection = a.projection /\ snapshot.cursor = a.cursor
  BY <1>1
<1>7. PICK q : q = RebuildIndexes(Canonical(a.projection))
  OBVIOUS
<1>8. q # None /\ Sound(q) /\ Canonical(q) = Canonical(a.projection)
  BY <1>4, <1>7, RebuildSound
<1>9. PICK snap : snap = [projection |-> q, cursor |-> a.cursor]
  OBVIOUS
<1>10. Reloaded(snapshot) = snap
  BY <1>5, <1>6, <1>7, <1>8, <1>9 DEF Reloaded
<1>11. Follows(st, rec, snap, k, k)
  <2>1. PICK tail, b : tail = Slice(es, rec, k, k) /\ b = ApplySequence(snap, tail)
    OBVIOUS
  <2>2. Len(Slice(es, rec, k, k)) = k - k /\ k - k = 0
    BY <1>2, SliceLength
  <2>3. b = [projection |-> snap.projection, cursor |-> snap.cursor, ids |-> {}]
    BY <2>1, <2>2, ApplyEmpty
  <2>4. b.projection = q /\ b.cursor = a.cursor /\ b.ids = {}
    BY <1>9, <2>3
  <2>5. q \in Projection
    BY <1>8 DEF Sound
  <2>6. b \in Progress
    BY <1>4, <1>9, <2>3, <2>5 DEF Progress
  <2>7. (k + 1)..k = {}
    BY <1>2
  <2>8. Alike(a, b)
    BY <1>4, <1>8, <2>4, <2>6 DEF Alike
  <2>9. QED
    BY <1>1, <2>1, <2>4, <2>7, <2>8 DEF Follows
<1> DEFINE S == {d \in Nat : Follows(st, rec, snap, k, k + d)}
<1>12. 0 \in S
  BY <1>2, <1>11
<1>13. \A d \in 0..((Len(es) - k) - 1) : d \in S => d + 1 \in S
  <2> SUFFICES ASSUME NEW d \in 0..((Len(es) - k) - 1), Follows(st, rec, snap, k, k + d)
               PROVE  Follows(st, rec, snap, k, k + (d + 1))
    OBVIOUS
  <2>1. k + d \in k..(Len(st.events) - 1) /\ (k + d) + 1 = k + (d + 1)
    BY <1>1, <1>2
  <2>2. Follows(st, rec, snap, k, (k + d) + 1)
    BY <2>1, FollowsNext
  <2>3. QED
    BY <2>1, <2>2
<1> HIDE DEF S
<1>14. \A d \in 0..(Len(es) - k) : d \in S
  BY <1>2, <1>12, <1>13, InductionUpTo
<1>15. Follows(st, rec, snap, k, k + (Len(es) - k))
  <2>1. PICK d : d = Len(es) - k
    OBVIOUS
  <2>2. d \in S
    BY <1>2, <1>14, <2>1
  <2>3. QED
    BY <2>1, <2>2 DEF S
<1>16. QED
  BY <1>1, <1>2, <1>10, <1>15

\* Snapshots are transparent: a projection that has been through its codec any
\* number of times, and the resume of any reloaded snapshot with the rest of
\* the log, equal the complete replay.
THEOREM SnapshotsAreTransparent == Spec => []SnapshotsTransparent
<1>1. ReplayInv => SnapshotsTransparent
  <2> SUFFICES ASSUME ReplayInv PROVE SnapshotsTransparent
    OBVIOUS
  <2>1. /\ LogSound(store, recorded) /\ Replayed(store, recorded)
        /\ LiveSound(store, recorded, live)
    BY DEF ReplayInv
  <2>2. PICK n, last : n = Len(store.events) /\ last = At(store.events, recorded, n)
    OBVIOUS
  <2>3. n \in Nat /\ n \in 0..n
    BY <2>1, <2>2, StoreFields, LenProperties DEF LogSound
  <2>4. Replay(n).projection = last.projection /\ Replay(n).cursor = last.cursor
    BY <2>2, <2>3, ReplayReaches
  <2>5. Equal(live, Replay(n))
    BY <2>1, <2>2, <2>4 DEF LiveSound, Equal
  <2>6. ASSUME NEW k \in 0..n
        PROVE  Equal(Resume(Reloaded(Replay(k)), Segment(k, n)), Replay(n))
    <3>1. PICK snapshot, r :
            /\ snapshot = Reloaded(Replay(k))
            /\ r = ApplySequence(snapshot, Slice(store.events, recorded, k, n))
      OBVIOUS
    <3>2. Replay(k) = [projection |-> At(store.events, recorded, k).projection,
                       cursor |-> At(store.events, recorded, k).cursor]
      BY <2>2, ReplayReaches
    <3>3. Follows(store, recorded, snapshot, k, n)
      BY <2>1, <2>2, <3>1, <3>2, ReloadFollows
    <3>4. Alike(last, r)
      BY <2>2, <3>1, <3>3 DEF Follows
    <3>5. r # None
      BY <3>4, ProgressAssumption DEF Alike
    <3>6. Segment(k, n) = Slice(store.events, recorded, k, n)
      BY <2>3, SegmentIsSlice
    <3>7. Resume(snapshot, Segment(k, n)) = [projection |-> r.projection, cursor |-> r.cursor]
      BY <3>1, <3>5, <3>6 DEF Resume
    <3>8. QED
      BY <2>4, <3>1, <3>4, <3>7 DEF Alike, Equal
  <2>7. QED
    BY <2>2, <2>5, <2>6 DEF SnapshotsTransparent
<1>2. QED
  BY <1>1, ReplayInvariant, PTL

-----------------------------------------------------------------------------
\* The lookups and the incidence lists are exact, whether they were grown by
\* inserts or rebuilt by a decode.
THEOREM IndexesAreExact == Spec => []IndexesExact
<1>1. ReplayInv => IndexesExact
  <2> SUFFICES ASSUME ReplayInv PROVE IndexesExact
    OBVIOUS
  <2>1. PICK p : p = live.projection
    OBVIOUS
  <2>2. Sound(p) /\ Listed(p)
    BY <2>1 DEF ReplayInv, LiveSound
  <2>3. /\ p.nodes \in Seq(Seq(NodeRevision)) /\ p.facts \in Seq(Fact)
        /\ p.node_lookup \in [Entities -> Nat \cup {None}]
        /\ p.fact_lookup \in [FactIds -> Nat \cup {None}]
        /\ NodesIndexed(p.nodes, p.node_lookup) /\ FactsIndexed(p.facts, p.fact_lookup)
    BY <2>2, ProjectionFields DEF Sound
  <2>4. \A e \in Entities : p.node_lookup[e] = NodeAt(p.nodes, e)
    <3>1. PICK nodes, lookup : nodes = p.nodes /\ lookup = p.node_lookup
      OBVIOUS
    <3>2. QED
      BY <2>3, <3>1, NodeAtExact
  <2>5. \A id \in FactIds : p.fact_lookup[id] = FactAt(p.facts, id)
    <3>1. PICK facts, lookup : facts = p.facts /\ lookup = p.fact_lookup
      OBVIOUS
    <3>2. QED
      BY <2>3, <3>1, FactAtExact
  <2>6. ASSUME NEW e \in Entities, NEW mine,
               mine = Filtered(p.facts, {k \in DOMAIN p.facts : e \in {p.facts[k].source, p.facts[k].target}})
        PROVE  IncidentFactIds(p, e) = [k \in DOMAIN mine |-> mine[k].id]
    BY <2>2, <2>6, ListsExact
  <2>7. QED
    BY <2>1, <2>4, <2>5, <2>6, Zenon DEF IndexesExact
<1>2. QED
  BY <1>1, ReplayInvariant, PTL

\* The instants of the views are points in time.
LEMMA ClockInstants == Clock \subseteq Nat
<1> SUFFICES ASSUME NEW t \in Clock PROVE t \in Nat
  OBVIOUS
<1>1. PICK input \in Inputs : t \in 0..(input.recorded_at + 1)
  BY DEF Clock
<1>2. QED
  BY <1>1

\* A view never shows a fact beside its replacement.
THEOREM ReplacementHides == Spec => []ReplacementHidesPrior
<1>1. ReplayInv => ReplacementHidesPrior
  <2> SUFFICES ASSUME ReplayInv, NEW valid_at \in Clock, NEW known_at \in Clock,
                      NEW f \in ToSet(ViewRef(live.projection, valid_at, known_at).facts),
                      NEW g \in ToSet(ViewRef(live.projection, valid_at, known_at).facts)
               PROVE  g.supersedes # f.id
    BY DEF ReplacementHidesPrior
  <2>1. Sound(live.projection)
    BY DEF ReplayInv, LiveSound
  <2>2. valid_at \in Nat /\ known_at \in Nat
    BY ClockInstants
  <2>3. QED
    BY <2>1, <2>2, NeverBesideReplacement
<1>2. QED
  BY <1>1, ReplayInvariant, PTL

\* Every fact of a view has both its endpoints in the view, although the code
\* skips the test when it has hidden no node.
THEOREM ViewsClosed == Spec => []ViewsAreClosed
<1>1. ReplayInv => ViewsAreClosed
  <2> SUFFICES ASSUME ReplayInv, NEW valid_at \in Clock, NEW known_at \in Clock
               PROVE  LET view == ViewRef(live.projection, valid_at, known_at)
                          ids == {view.nodes[n].id : n \in DOMAIN view.nodes}
                      IN  \A f \in ToSet(view.facts) : {f.source, f.target} \subseteq ids
    BY DEF ViewsAreClosed
  <2>1. PICK p, view : p = live.projection /\ view = ViewRef(p, valid_at, known_at)
    OBVIOUS
  <2>2. Sound(p)
    BY <2>1 DEF ReplayInv, LiveSound
  <2>3. valid_at \in Nat /\ known_at \in Nat
    BY ClockInstants
  <2>4. view.nodes = VisibleNodes(p, known_at)
    BY <2>1, <2>2, <2>3, FactsOfAView
  <2>5. \A f \in ToSet(view.facts) : {f.source, f.target} \subseteq ViewIds(p, known_at)
    BY <2>1, <2>2, <2>3, FactOfAView
  <2>6. ViewIds(p, known_at) = {view.nodes[n].id : n \in DOMAIN view.nodes}
    BY <2>4 DEF ViewIds
  <2>7. QED
    BY <2>1, <2>5, <2>6
<1>2. QED
  BY <1>1, ReplayInvariant, PTL

-----------------------------------------------------------------------------
\* Views of the past.

\* A filter does not see elements behind the sequence that it drops.
LEMMA FilteredStays ==
  ASSUME NEW s, NEW t, NEW n \in Nat, NEW m \in Nat, Len(s) = n, Len(t) = m, n <= m,
         NEW kept, NEW then,
         \A i \in 1..n : t[i] = s[i] /\ (i \in then <=> i \in kept),
         \A i \in (n + 1)..m : i \notin then
  PROVE  Filtered(t, then) = Filtered(s, kept)
<1>1. PICK c : /\ c = [i \in 0..Len(s) |->
                         IF i = 0 THEN <<>>
                         ELSE IF i \in kept THEN Append(c[i - 1], s[i]) ELSE c[i - 1]]
               /\ Filtered(s, kept) = c[Len(s)]
  BY FilteredRecursion
<1>2. PICK d : /\ d = [i \in 0..Len(t) |->
                         IF i = 0 THEN <<>>
                         ELSE IF i \in then THEN Append(d[i - 1], t[i]) ELSE d[i - 1]]
               /\ Filtered(t, then) = d[Len(t)]
  BY FilteredRecursion
<1>3. /\ c[0] = <<>>
      /\ \A i \in 1..n : c[i] = IF i \in kept THEN Append(c[i - 1], s[i]) ELSE c[i - 1]
  <2>1. ASSUME NEW i \in 0..n
        PROVE  c[i] = IF i = 0 THEN <<>>
                      ELSE IF i \in kept THEN Append(c[i - 1], s[i]) ELSE c[i - 1]
    BY <1>1, Zenon
  <2>2. QED
    BY <2>1
<1>4. /\ d[0] = <<>>
      /\ \A i \in 1..m : d[i] = IF i \in then THEN Append(d[i - 1], t[i]) ELSE d[i - 1]
  <2>1. ASSUME NEW i \in 0..m
        PROVE  d[i] = IF i = 0 THEN <<>>
                      ELSE IF i \in then THEN Append(d[i - 1], t[i]) ELSE d[i - 1]
    BY <1>2, Zenon
  <2>2. QED
    BY <2>1
<1> DEFINE S == {i \in Nat : c[i] = d[i]}
<1>5. 0 \in S
  BY <1>3, <1>4
<1>6. \A i \in 0..(n - 1) : i \in S => i + 1 \in S
  <2> SUFFICES ASSUME NEW i \in 0..(n - 1), c[i] = d[i] PROVE c[i + 1] = d[i + 1]
    OBVIOUS
  <2>1. i + 1 \in 1..n /\ i + 1 \in 1..m /\ (i + 1) - 1 = i
    OBVIOUS
  <2>2. c[i + 1] = IF i + 1 \in kept THEN Append(c[i], s[i + 1]) ELSE c[i]
    BY <1>3, <2>1
  <2>3. d[i + 1] = IF i + 1 \in then THEN Append(d[i], t[i + 1]) ELSE d[i]
    BY <1>4, <2>1
  <2>4. QED
    BY <2>1, <2>2, <2>3
<1> HIDE DEF S
<1>7. \A i \in 0..n : i \in S
  BY <1>5, <1>6, InductionUpTo
<1>8. c[n] = d[n]
  <2>1. n \in S
    BY <1>7
  <2>2. QED
    BY <2>1 DEF S
<1> DEFINE R == {j \in Nat : d[n + j] = d[n]}
<1>9. 0 \in R
  OBVIOUS
<1>10. \A j \in 0..((m - n) - 1) : j \in R => j + 1 \in R
  <2> SUFFICES ASSUME NEW j \in 0..((m - n) - 1), d[n + j] = d[n] PROVE d[n + (j + 1)] = d[n]
    OBVIOUS
  <2>1. PICK i : i = n + (j + 1)
    OBVIOUS
  <2>2. i \in (n + 1)..m /\ i \in 1..m /\ i - 1 = n + j
    BY <2>1
  <2>3. d[i] = d[i - 1]
    BY <1>4, <2>2
  <2>4. QED
    BY <2>1, <2>2, <2>3
<1> HIDE DEF R
<1>11. m - n \in Nat
  OBVIOUS
<1>12. \A j \in 0..(m - n) : j \in R
  BY <1>9, <1>10, <1>11, InductionUpTo
<1>13. d[m] = d[n]
  <2>1. PICK j \in Nat : j = m - n
    BY <1>11
  <2>2. j \in R /\ n + j = m
    BY <1>12, <2>1
  <2>3. QED
    BY <2>2 DEF R
<1>14. QED
  BY <1>1, <1>2, <1>8, <1>13

\* What a view at a known time does not see of a later projection: nodes and
\* revisions, facts, and changes of facts that were recorded later.
NodesStay(p, q, at) ==
  /\ Len(p.nodes) <= Len(q.nodes)
  /\ \A n \in 1..Len(p.nodes) : VisibleRevision(q.nodes[n], at) = VisibleRevision(p.nodes[n], at)
  /\ \A n \in (Len(p.nodes) + 1)..Len(q.nodes) : VisibleRevision(q.nodes[n], at) = None

FactsStay(p, q, at) ==
  /\ Len(p.facts) <= Len(q.facts)
  /\ \A k \in 1..Len(p.facts) : q.facts[k] = p.facts[k]
  /\ \A k \in (Len(p.facts) + 1)..Len(q.facts) : ~(q.facts[k].recorded_at <= at)

ChangesStay(p, q, at) ==
  \A id \in FactIds :
    /\ \/ q.supersessions[id] = p.supersessions[id]
       \/ p.supersessions[id] = None /\ ~(q.supersessions[id].recorded_at <= at)
    /\ \/ q.retractions[id] = p.retractions[id]
       \/ p.retractions[id] = None /\ ~(q.retractions[id].recorded_at <= at)

\* The nodes of the view stay.
LEMMA VisibleNodesStay ==
  ASSUME NEW p, Sound(p), NEW q, Sound(q), NEW at \in Nat, NodesStay(p, q, at)
  PROVE  VisibleNodes(q, at) = VisibleNodes(p, at)
<1>1. PICK n, m, s, t :
        /\ n = Len(p.nodes) /\ m = Len(q.nodes)
        /\ s = Revisions(p, at) /\ t = Revisions(q, at)
  OBVIOUS
<1>2. PICK S : /\ s \in Seq(S) /\ Len(s) = n
               /\ \A i \in 1..n : s[i] = VisibleRevision(p.nodes[i], at)
  BY <1>1, NodesOfAView
<1>3. PICK T : /\ t \in Seq(T) /\ Len(t) = m
               /\ \A i \in 1..m : t[i] = VisibleRevision(q.nodes[i], at)
  BY <1>1, NodesOfAView
<1>4. /\ n \in Nat /\ m \in Nat /\ n <= m
      /\ DOMAIN s = 1..n /\ DOMAIN t = 1..m
  BY <1>1, <1>2, <1>3, LenProperties DEF NodesStay
<1>5. PICK kept, then :
        /\ kept = {i \in DOMAIN s : s[i] # None} /\ then = {i \in DOMAIN t : t[i] # None}
  OBVIOUS
<1>6. VisibleNodes(p, at) = Filtered(s, kept) /\ VisibleNodes(q, at) = Filtered(t, then)
  BY <1>1, <1>5, Zenon DEF VisibleNodes, Revisions
<1>7. \A i \in 1..n : i \in 1..m
  BY <1>4
<1>8. \A i \in (n + 1)..m : i \in 1..m
  BY <1>4
<1>9. \A i \in 1..n : t[i] = s[i] /\ (i \in then <=> i \in kept)
  BY <1>1, <1>2, <1>3, <1>4, <1>5, <1>7 DEF NodesStay
<1>10. \A i \in (n + 1)..m : i \notin then
  BY <1>1, <1>3, <1>4, <1>5, <1>8 DEF NodesStay
<1>11. QED
  BY <1>2, <1>3, <1>4, <1>6, <1>9, <1>10, FilteredStays

\* And so does the view.
LEMMA ViewStays ==
  ASSUME NEW p, Sound(p), NEW q, Sound(q), NEW valid_at \in Nat, NEW at \in Nat,
         NodesStay(p, q, at), FactsStay(p, q, at), ChangesStay(p, q, at)
  PROVE  ViewRef(q, valid_at, at) = ViewRef(p, valid_at, at)
<1>1. PICK n, m, s, t, ids :
        n = Len(p.facts) /\ m = Len(q.facts) /\ s = p.facts /\ t = q.facts /\ ids = ViewIds(p, at)
  OBVIOUS
<1>2. s \in Seq(Fact) /\ t \in Seq(Fact)
  BY <1>1, ProjectionFields DEF Sound
<1>3. /\ n \in Nat /\ m \in Nat /\ n <= m /\ Len(s) = n /\ Len(t) = m
      /\ DOMAIN s = 1..n /\ DOMAIN t = 1..m
  BY <1>1, <1>2, LenProperties DEF FactsStay
<1>4. VisibleNodes(q, at) = VisibleNodes(p, at) /\ ViewIds(q, at) = ids
  BY <1>1, VisibleNodesStay DEF ViewIds
<1>5. ASSUME NEW f \in Fact
      PROVE  FactIsActive(q, f, valid_at, at) <=> FactIsActive(p, f, valid_at, at)
  <2>1. f.id \in FactIds
    BY ByIsSupersession
  <2>2. QED
    BY <2>1 DEF FactIsActive, ChangesStay
<1>6. PICK kept, then : kept = Shown(p, valid_at, at) /\ then = Shown(q, valid_at, at)
  OBVIOUS
<1>7. kept = {k \in 1..n : {s[k].source, s[k].target} \subseteq ids /\ FactIsActive(p, s[k], valid_at, at)}
  BY <1>1, <1>3, <1>6 DEF Shown
<1>8. then = {k \in 1..m : {t[k].source, t[k].target} \subseteq ids /\ FactIsActive(q, t[k], valid_at, at)}
  BY <1>1, <1>3, <1>4, <1>6 DEF Shown
<1>9. ASSUME NEW i \in 1..n PROVE t[i] = s[i] /\ (i \in then <=> i \in kept)
  <2>1. t[i] = s[i] /\ i \in 1..m
    BY <1>1, <1>3 DEF FactsStay
  <2>2. s[i] \in Fact
    BY <1>2, <1>3, ElementOfSeq
  <2>3. QED
    BY <1>5, <1>7, <1>8, <2>1, <2>2
<1>10. \A i \in (n + 1)..m : i \notin then
  BY <1>1, <1>8 DEF FactsStay, FactIsActive
<1>11. Filtered(t, then) = Filtered(s, kept)
  BY <1>3, <1>9, <1>10, FilteredStays
<1>12. /\ ViewRef(p, valid_at, at) = [nodes |-> VisibleNodes(p, at), facts |-> Filtered(s, kept)]
       /\ ViewRef(q, valid_at, at) = [nodes |-> VisibleNodes(q, at), facts |-> Filtered(t, then)]
  BY <1>1, <1>6, FactsOfAView
<1>13. QED
  BY <1>4, <1>11, <1>12

\* Projections that agree look the same at any time.
LEMMA AgreeStays ==
  ASSUME NEW p, Sound(p), NEW q, Agree(p, q), NEW at
  PROVE  NodesStay(p, q, at) /\ FactsStay(p, q, at) /\ ChangesStay(p, q, at)
<1>1. Len(p.nodes) \in Nat /\ Len(p.facts) \in Nat
  BY ProjectionFields, LenProperties DEF Sound
<1>2. q.nodes = p.nodes /\ q.facts = p.facts
      /\ q.supersessions = p.supersessions /\ q.retractions = p.retractions
  BY DEF Agree
<1>3. QED
  BY <1>1, <1>2 DEF NodesStay, FactsStay, ChangesStay

\* An upsert recorded later than the known time is not seen.
LEMMA NodeStays ==
  ASSUME NEW p, Sound(p), NEW r \in NodeRevision, NEW q, NodeInserted(p, r, q),
         NEW at \in Nat, at < r.recorded_at
  PROVE  NodesStay(p, q, at)
<1>1. PICK nodes, lookup, new : nodes = p.nodes /\ lookup = p.node_lookup /\ new = q.nodes
  OBVIOUS
<1>2. /\ nodes \in Seq(Seq(NodeRevision)) /\ lookup \in [Entities -> Nat \cup {None}]
      /\ NodesIndexed(nodes, lookup) /\ Len(nodes) \in Nat
  BY <1>1, ProjectionFields, LenProperties DEF Sound
<1>3. r.recorded_at \in Nat /\ ~(r.recorded_at <= at)
  BY DEF NodeRevision, Time
<1>4. CASE lookup[r.id] # None
  <2>1. PICK i : i = lookup[r.id] + 1
    OBVIOUS
  <2>2. new = WithRevision(nodes, i, r)
    BY <1>1, <1>4, <2>1 DEF NodeInserted
  <2>3. Revised(nodes, i, r, new)
    BY <1>2, <1>4, <2>1, <2>2, RevisionIndexed
  <2>4. Len(new) = Len(nodes) /\ i \in 1..Len(nodes)
        /\ \A n \in 1..Len(nodes) : new[n] = IF n = i THEN Append(nodes[i], r) ELSE nodes[n]
    BY <2>3 DEF Revised
  <2>5. PICK h, g : h = nodes[i] /\ g = Append(h, r)
    OBVIOUS
  <2>6. h \in Seq(NodeRevision) /\ Len(h) \in Nat
    BY <1>2, <2>4, <2>5, NodeHistories
  <2>7. /\ g \in Seq(NodeRevision) /\ Len(g) = Len(h) + 1
        /\ \A j \in 1..Len(h) : g[j] = h[j]
        /\ g[Len(h) + 1] = r
    BY <2>5, <2>6, AppendProperties
  <2>8. Len(h) <= Len(g) /\ \A j \in 1..Len(g) : g[j].recorded_at <= at => j \in 1..Len(h)
    BY <1>3, <2>6, <2>7
  <2>9. VisibleRevision(g, at) = VisibleRevision(h, at)
    BY <2>6, <2>7, <2>8, VisibleIgnoresTheUnknown
  <2>10. \A n \in 1..Len(nodes) : VisibleRevision(new[n], at) = VisibleRevision(nodes[n], at)
    BY <2>4, <2>5, <2>9
  <2>11. QED
    BY <1>1, <1>2, <2>4, <2>10 DEF NodesStay
<1>5. CASE lookup[r.id] = None
  <2>1. PICK found : found = WithEntry(lookup, r.id, Len(nodes))
    OBVIOUS
  <2>2. new = Append(nodes, <<r>>)
    BY <1>1, <1>5 DEF NodeInserted
  <2>3. NodeAdded(nodes, lookup, r, new, found)
    BY <1>2, <1>5, <2>1, <2>2, NodeIndexed
  <2>4. PICK g : g = <<r>>
    OBVIOUS
  <2>5. DOMAIN g = {1} /\ g[1] = r
    BY <2>4
  <2>6. KnownAt(g, at) = {}
    BY <1>3, <2>5 DEF KnownAt
  <2>7. VisibleRevision(g, at) = None
    BY <2>6, VisibleRevisionChoice
  <2>8. /\ Len(new) = Len(nodes) + 1 /\ \A n \in 1..Len(nodes) : new[n] = nodes[n]
        /\ new[Len(nodes) + 1] = g
    BY <2>3, <2>4 DEF NodeAdded
  <2>9. \A n \in (Len(nodes) + 1)..(Len(nodes) + 1) : n = Len(nodes) + 1
    BY <1>2
  <2>10. QED
    BY <1>1, <1>2, <2>7, <2>8, <2>9 DEF NodesStay
<1>6. QED
  BY <1>4, <1>5

\* A fact recorded later is not seen, and neither is what it supersedes.
LEMMA FactStays ==
  ASSUME NEW p, Sound(p), NEW f \in Fact, CanInsertFact(p, f), NEW q, FactInserted(p, f, q),
         NEW at \in Nat, at < f.recorded_at
  PROVE  NodesStay(p, q, at) /\ FactsStay(p, q, at) /\ ChangesStay(p, q, at)
<1>1. Len(p.nodes) \in Nat /\ Len(p.facts) \in Nat /\ p.facts \in Seq(Fact)
      /\ p.supersessions \in [FactIds -> Supersession \cup {None}]
  BY ProjectionFields, LenProperties DEF Sound
<1>2. /\ f.recorded_at \in Nat /\ ~(f.recorded_at <= at)
      /\ f.supersedes \in FactIds \cup {None}
  <2>1. f.recorded_at \in Nat /\ f.supersedes \in FactIds \cup {None}
    BY ByIsSupersession
  <2>2. QED
    BY <2>1
<1>3. q.nodes = p.nodes /\ q.retractions = p.retractions /\ q.facts = Append(p.facts, f)
  BY DEF FactInserted
<1>4. NodesStay(p, q, at)
  BY <1>1, <1>3 DEF NodesStay
<1>5. PICK facts, new : facts = p.facts /\ new = q.facts
  OBVIOUS
<1>6. /\ Len(new) = Len(facts) + 1 /\ \A k \in 1..Len(facts) : new[k] = facts[k]
      /\ new[Len(facts) + 1] = f
  BY <1>1, <1>3, <1>5, AppendProperties
<1>7. \A k \in (Len(facts) + 1)..(Len(facts) + 1) : k = Len(facts) + 1
  BY <1>1, <1>5
<1>8. FactsStay(p, q, at)
  BY <1>1, <1>2, <1>5, <1>6, <1>7 DEF FactsStay
<1>9. ASSUME NEW id \in FactIds
      PROVE  \/ q.supersessions[id] = p.supersessions[id]
             \/ p.supersessions[id] = None /\ ~(q.supersessions[id].recorded_at <= at)
  <2>1. CASE f.supersedes = None
    BY <2>1 DEF FactInserted
  <2>2. CASE f.supersedes # None
    <3>1. p.supersessions[f.supersedes] = None
      BY <2>2 DEF CanInsertFact
    <3>2. q.supersessions = WithEntry(p.supersessions, f.supersedes, By(f))
      BY <2>2 DEF FactInserted
    <3>3. /\ q.supersessions[f.supersedes] = By(f)
          /\ id # f.supersedes => q.supersessions[id] = p.supersessions[id]
      BY <1>1, <1>2, <2>2, <3>2 DEF WithEntry
    <3>4. By(f).recorded_at = f.recorded_at
      BY DEF By
    <3>5. QED
      BY <1>2, <3>1, <3>3, <3>4
  <2>3. QED
    BY <2>1, <2>2
<1>10. ChangesStay(p, q, at)
  BY <1>3, <1>9 DEF ChangesStay
<1>11. QED
  BY <1>4, <1>8, <1>10

\* Nor is the first retraction of a fact.
LEMMA RetractionStays ==
  ASSUME NEW p, Sound(p), NEW id \in FactIds, NEW until \in Time, NEW when \in Time,
         p.retractions[id] = None, NEW at \in Nat, at < when
  PROVE  /\ NodesStay(p, ApplyRetraction(p, id, until, when), at)
         /\ FactsStay(p, ApplyRetraction(p, id, until, when), at)
         /\ ChangesStay(p, ApplyRetraction(p, id, until, when), at)
<1>1. PICK q, retraction :
        /\ q = ApplyRetraction(p, id, until, when)
        /\ retraction = [valid_until |-> until, recorded_at |-> when]
  OBVIOUS
<1>2. /\ p \in Projection /\ Len(p.nodes) \in Nat /\ Len(p.facts) \in Nat
      /\ p.retractions \in [FactIds -> Retraction \cup {None}]
  BY ProjectionFields, LenProperties DEF Sound
<1>3. /\ q.nodes = p.nodes /\ q.facts = p.facts /\ q.supersessions = p.supersessions
      /\ q.retractions = [p.retractions EXCEPT ![id] = retraction]
  BY <1>1, <1>2 DEF ApplyRetraction, Projection
<1>4. retraction.recorded_at = when /\ ~(when <= at)
  BY <1>1 DEF Time
<1>5. /\ q.retractions[id] = retraction
      /\ \A x \in FactIds : x # id => q.retractions[x] = p.retractions[x]
  BY <1>2, <1>3
<1>6. NodesStay(p, q, at) /\ FactsStay(p, q, at)
  BY <1>2, <1>3 DEF NodesStay, FactsStay
<1>7. ChangesStay(p, q, at)
  BY <1>3, <1>4, <1>5 DEF ChangesStay
<1>8. QED
  BY <1>1, <1>6, <1>7

\* An event recorded later than the known time leaves the view as it was.
LEMMA LaterEventsUnseen ==
  ASSUME NEW p, Sound(p), NEW payload \in MemoryEvent, NEW when \in Time, NEW position \in Nat,
         Accepts(p, payload, when), NEW valid_at \in Nat, NEW at \in Nat, at < when,
         payload.kind = "FactRetracted" => p.retractions[payload.fact_id] = None
  PROVE  ViewRef(Apply(p, payload, when, position), valid_at, at) = ViewRef(p, valid_at, at)
<1>1. PICK q : Outcome(p, payload, when, position, q)
  BY ApplyCases
<1>2. Sound(q)
  BY <1>1 DEF Outcome
<1>3. NodesStay(p, q, at) /\ FactsStay(p, q, at) /\ ChangesStay(p, q, at)
  <2>1. CASE payload.kind = "NodeUpserted" /\ payload.id \in Entities
    <3>1. PICK r : r = [id |-> payload.id, recorded_at |-> when, position |-> position]
      OBVIOUS
    <3>2. r \in NodeRevision /\ r.recorded_at = when
      BY <2>1, <3>1 DEF NodeRevision
    <3>3. q = InsertNode(p, r)
      BY <1>1, <2>1, <3>1 DEF Outcome
    <3>4. NodeInserted(p, r, q)
      BY <3>2, <3>3, InsertNodeFields
    <3>5. NodesStay(p, q, at)
      BY <3>2, <3>4, NodeStays
    <3>6. Len(p.facts) \in Nat
      BY ProjectionFields, LenProperties DEF Sound
    <3>7. FactsStay(p, q, at) /\ ChangesStay(p, q, at)
      BY <3>4, <3>6 DEF NodeInserted, FactsStay, ChangesStay
    <3>8. QED
      BY <3>5, <3>7
  <2>2. CASE payload.kind = "FactRecorded" /\ payload.fact \in Fact
    <3>1. /\ q = InsertFact(p, payload.fact) /\ payload.fact.recorded_at = when
          /\ CanInsertFact(p, payload.fact)
      BY <1>1, <2>2 DEF Outcome
    <3>2. FactInserted(p, payload.fact, q)
      BY <2>2, <3>1, InsertFactFields
    <3>3. QED
      BY <2>2, <3>1, <3>2, FactStays
  <2>3. CASE /\ payload.kind = "FactRetracted"
             /\ payload.fact_id \in FactIds /\ payload.valid_until \in Time
    <3>1. q = ApplyRetraction(p, payload.fact_id, payload.valid_until, when)
      BY <1>1, <2>3 DEF Outcome
    <3>2. QED
      BY <2>3, <3>1, RetractionStays
  <2>4. QED
    BY <2>1, <2>2, <2>3, PayloadKinds
<1>4. PICK r : r = [q EXCEPT !.last_global_position = position]
  OBVIOUS
<1>5. Sound(r) /\ Apply(p, payload, when, position) = r
  BY <1>1, <1>2, <1>4, PositionSound DEF Outcome
<1>6. Agree(q, r)
  BY <1>2, <1>4 DEF Sound, Projection, Agree
<1>7. NodesStay(q, r, at) /\ FactsStay(q, r, at) /\ ChangesStay(q, r, at)
  BY <1>2, <1>6, AgreeStays
<1>8. ViewRef(q, valid_at, at) = ViewRef(p, valid_at, at)
  BY <1>2, <1>3, ViewStays
<1>9. ViewRef(r, valid_at, at) = ViewRef(q, valid_at, at)
  BY <1>2, <1>5, <1>7, ViewStays
<1>10. QED
  BY <1>5, <1>8, <1>9

\* The next event of a log that replays is accepted and applied.
LEMMA NextApplied ==
  ASSUME NEW st, NEW rec, LogSound(st, rec), Replayed(st, rec), NEW m \in 0..(Len(st.events) - 1),
         NEW p, p = At(st.events, rec, m).projection, NEW input, input = rec[m + 1]
  PROVE  /\ Sound(p) /\ input.payload \in MemoryEvent /\ input.recorded_at \in Time
         /\ Accepts(p, input.payload, input.recorded_at)
         /\ m \in Nat
         /\ At(st.events, rec, m + 1).projection
              = Apply(p, input.payload, input.recorded_at, m)
<1>1. PICK es : es = st.events
  OBVIOUS
<1>2. Len(es) \in Nat
  BY <1>1, StoreFields, LenProperties DEF LogSound
<1>3. /\ m \in Nat /\ m \in 0..Len(es) /\ m + 1 \in 0..Len(es) /\ m + 1 \in 1..Len(es)
      /\ (m + 1) - 1 = m
  BY <1>1, <1>2
<1>4. PICK a, event : a = At(es, rec, m) /\ event = Event(es, rec, m + 1)
  OBVIOUS
<1>5. Reached(a, st, m) /\ Reached(At(es, rec, m + 1), st, m + 1)
  BY <1>1, <1>3, <1>4 DEF Replayed
<1>6. /\ es[m + 1].global_position = m
      /\ input.payload \in MemoryEvent /\ input.recorded_at \in Time
  <2>1. /\ es[m + 1].global_position = (m + 1) - 1
        /\ rec[m + 1].payload \in MemoryEvent /\ rec[m + 1].recorded_at \in Time
    BY <1>1, <1>3, LogEvent
  <2>2. QED
    BY <1>3, <2>1
<1>7. At(es, rec, m + 1) = ApplyNext(a, event)
  BY <1>3, <1>4, AtNext
<1>8. a # None /\ ApplyNext(a, event) # None
  BY <1>5, <1>7, ProgressAssumption DEF Reached
<1>9. /\ ValidNext(a.cursor, a.ids, event.metadata)
      /\ Accepts(a.projection, event.input.payload, event.input.recorded_at)
  BY <1>8 DEF ApplyNext
<1>10. event.metadata = es[m + 1] /\ event.input = input
  BY <1>4 DEF Event
<1>11. ApplyNext(a, event).projection = Apply(a.projection, input.payload, input.recorded_at, m)
  BY <1>6, <1>8, <1>9, <1>10, NextFields
<1>12. Sound(p) /\ p = a.projection
  BY <1>1, <1>4, <1>5 DEF Reached
<1>13. QED
  BY <1>1, <1>3, <1>6, <1>7, <1>9, <1>10, <1>11, <1>12

\* Every retraction of a projection was recorded by an event of the log.
RetractionsLogged(p, rec, m) ==
  \A id \in FactIds : p.retractions[id] # None =>
    \E j \in 1..m : rec[j].payload.kind = "FactRetracted" /\ rec[j].payload.fact_id = id

\* Only the retraction of a fact changes what is retracted of it.
LEMMA ApplyRetractions ==
  ASSUME NEW p, Sound(p), NEW payload \in MemoryEvent, NEW when \in Time, NEW position \in Nat,
         Accepts(p, payload, when), NEW id \in FactIds,
         ~(payload.kind = "FactRetracted" /\ payload.fact_id = id)
  PROVE  Apply(p, payload, when, position).retractions[id] = p.retractions[id]
<1>1. PICK q : Outcome(p, payload, when, position, q)
  BY ApplyCases
<1>2. Sound(q)
  BY <1>1 DEF Outcome
<1>3. q.retractions[id] = p.retractions[id]
  <2>1. CASE payload.kind = "NodeUpserted" /\ payload.id \in Entities
    <3>1. PICK r : r = [id |-> payload.id, recorded_at |-> when, position |-> position]
      OBVIOUS
    <3>2. r \in NodeRevision
      BY <2>1, <3>1 DEF NodeRevision
    <3>3. q = InsertNode(p, r)
      BY <1>1, <2>1, <3>1 DEF Outcome
    <3>4. NodeInserted(p, r, q)
      BY <3>2, <3>3, InsertNodeFields
    <3>5. QED
      BY <3>4 DEF NodeInserted
  <2>2. CASE payload.kind = "FactRecorded" /\ payload.fact \in Fact
    <3>1. q = InsertFact(p, payload.fact)
      BY <1>1, <2>2 DEF Outcome
    <3>2. FactInserted(p, payload.fact, q)
      BY <2>2, <3>1, InsertFactFields
    <3>3. QED
      BY <3>2 DEF FactInserted
  <2>3. CASE payload.kind = "FactRetracted"
    <3>1. q = ApplyRetraction(p, payload.fact_id, payload.valid_until, when) /\ payload.fact_id \in FactIds
      BY <1>1, <2>3 DEF Outcome
    <3>2. p \in Projection /\ p.retractions \in [FactIds -> Retraction \cup {None}]
      BY ProjectionFields DEF Sound
    <3>3. q.retractions = [p.retractions EXCEPT ![payload.fact_id] =
                             [valid_until |-> payload.valid_until, recorded_at |-> when]]
      BY <3>1, <3>2 DEF ApplyRetraction, Projection
    <3>4. QED
      BY <2>3, <3>2, <3>3
  <2>4. QED
    BY <2>1, <2>2, <2>3, PayloadKinds
<1>4. PICK r : r = [q EXCEPT !.last_global_position = position]
  OBVIOUS
<1>5. Apply(p, payload, when, position) = r
  BY <1>1, <1>4 DEF Outcome
<1>6. r.retractions = q.retractions
  BY <1>2, <1>4 DEF Sound, Projection
<1>7. QED
  BY <1>3, <1>5, <1>6

\* In every replay the retractions come from the log.
LEMMA AllRetractionsLogged ==
  ASSUME NEW st, NEW rec, LogSound(st, rec), Replayed(st, rec)
  PROVE  \A m \in 0..Len(st.events) : RetractionsLogged(At(st.events, rec, m).projection, rec, m)
<1>1. PICK n, es : n = Len(st.events) /\ es = st.events
  OBVIOUS
<1>2. n \in Nat
  BY <1>1, StoreFields, LenProperties DEF LogSound
<1> DEFINE S == {m \in Nat : RetractionsLogged(At(es, rec, m).projection, rec, m)}
<1>3. 0 \in S
  <2>1. At(es, rec, 0) = [projection |-> EmptyProjection, cursor |-> StartCursor, ids |-> {}]
    BY AtNext
  <2>2. \A id \in FactIds : EmptyProjection.retractions[id] = None
    BY DEF EmptyProjection
  <2>3. QED
    BY <2>1, <2>2 DEF RetractionsLogged
<1>4. \A m \in 0..(n - 1) : m \in S => m + 1 \in S
  <2> SUFFICES ASSUME NEW m \in 0..(n - 1), RetractionsLogged(At(es, rec, m).projection, rec, m)
               PROVE  RetractionsLogged(At(es, rec, m + 1).projection, rec, m + 1)
    OBVIOUS
  <2>1. PICK p, q, input :
          p = At(es, rec, m).projection /\ q = At(es, rec, m + 1).projection /\ input = rec[m + 1]
    OBVIOUS
  <2>2. /\ Sound(p) /\ input.payload \in MemoryEvent /\ input.recorded_at \in Time
        /\ Accepts(p, input.payload, input.recorded_at)
        /\ m \in Nat /\ q = Apply(p, input.payload, input.recorded_at, m)
    BY <1>1, <2>1, NextApplied
  <2>3. ASSUME NEW id \in FactIds, q.retractions[id] # None
        PROVE  \E j \in 1..(m + 1) :
                 rec[j].payload.kind = "FactRetracted" /\ rec[j].payload.fact_id = id
    <3>1. CASE input.payload.kind = "FactRetracted" /\ input.payload.fact_id = id
      <4>1. m + 1 \in 1..(m + 1)
        BY <2>2
      <4>2. QED
        BY <2>1, <3>1, <4>1
    <3>2. CASE ~(input.payload.kind = "FactRetracted" /\ input.payload.fact_id = id)
      <4>1. p.retractions[id] # None
        BY <2>2, <2>3, <3>2, ApplyRetractions
      <4>2. PICK j \in 1..m : rec[j].payload.kind = "FactRetracted" /\ rec[j].payload.fact_id = id
        BY <2>1, <4>1 DEF RetractionsLogged
      <4>3. j \in 1..(m + 1)
        BY <2>2
      <4>4. QED
        BY <4>2, <4>3
    <3>3. QED
      BY <3>1, <3>2
  <2>4. QED
    BY <2>1, <2>3 DEF RetractionsLogged
<1> HIDE DEF S
<1>5. \A m \in 0..n : m \in S
  BY <1>2, <1>3, <1>4, InductionUpTo
<1>6. QED
  BY <1>1, <1>5 DEF S

\* The events known at a time are an initial part of a log in order.
LEMMA KnownPrefix ==
  ASSUME NEW n \in Nat, NEW K, K \subseteq 1..n, \A j, k \in 1..n : j < k /\ k \in K => j \in K
  PROVE  \E c \in 0..n : K = 1..c /\ Cardinality(K) = c
<1>1. \A c \in Nat : Cardinality(1..c) = c
  <2> SUFFICES ASSUME NEW c \in Nat PROVE Cardinality(1..c) = c
    OBVIOUS
  <2>1. Cardinality(1..c) = IF 1 > c THEN 0 ELSE c - 1 + 1
    BY FS_Interval
  <2>2. QED
    BY <2>1
<1>2. CASE K = {}
  <2>1. K = 1..0 /\ 0 \in 0..n
    BY <1>2
  <2>2. Cardinality(1..0) = 0
    BY <1>1
  <2>3. QED
    BY <2>1, <2>2
<1>3. CASE K # {}
  <2>1. K \subseteq Nat /\ \A k \in K : k <= n
    OBVIOUS
  <2>2. PICK c \in K : \A k \in K : k <= c
    BY <1>3, <2>1, GreatestElement
  <2>3. c \in 1..n /\ c \in 0..n /\ c \in Nat
    BY <2>2
  <2>4. ASSUME NEW j PROVE j \in K <=> j \in 1..c
    <3>1. ASSUME j \in K PROVE j \in 1..c
      <4>1. j \in 1..n /\ j <= c
        BY <2>2, <3>1
      <4>2. QED
        BY <2>3, <4>1
    <3>2. ASSUME j \in 1..c PROVE j \in K
      <4>1. j \in 1..n /\ (j < c \/ j = c)
        BY <2>3, <3>2
      <4>2. QED
        BY <2>2, <2>3, <4>1
    <3>3. QED
      BY <3>1, <3>2
  <2>5. K = 1..c
    BY <2>4
  <2>6. Cardinality(K) = c
    BY <1>1, <2>3, <2>5
  <2>7. QED
    BY <2>3, <2>5, <2>6
<1>4. QED
  BY <1>2, <1>3

\* A view at a known time does not change while later events are replayed.
LEMMA ReplayKeepsTheView ==
  ASSUME NEW st, NEW rec, LogSound(st, rec), Replayed(st, rec),
         NEW c \in 0..Len(st.events), NEW valid_at \in Nat, NEW at \in Nat,
         \A i \in (c + 1)..Len(st.events) : ~(rec[i].recorded_at <= at),
         \A j, k \in 1..Len(st.events) :
           ~ /\ j < k
             /\ rec[j].payload.kind = "FactRetracted" /\ rec[k].payload.kind = "FactRetracted"
             /\ rec[j].payload.fact_id = rec[k].payload.fact_id
  PROVE  ViewRef(At(st.events, rec, Len(st.events)).projection, valid_at, at)
           = ViewRef(At(st.events, rec, c).projection, valid_at, at)
<1>1. PICK n, es : n = Len(st.events) /\ es = st.events
  OBVIOUS
<1>2. n \in Nat /\ c \in Nat /\ c <= n /\ n - c \in Nat
  <2>1. n \in Nat
    BY <1>1, StoreFields, LenProperties DEF LogSound
  <2>2. QED
    BY <1>1, <2>1
<1> DEFINE V(m) == ViewRef(At(es, rec, m).projection, valid_at, at)
           S == {d \in Nat : V(c + d) = V(c)}
<1>3. 0 \in S
  <2>1. c + 0 = c
    BY <1>2
  <2>2. V(c + 0) = V(c)
    BY <2>1
  <2>3. QED
    BY <2>2
<1>4. \A d \in 0..((n - c) - 1) : d \in S => d + 1 \in S
  <2> SUFFICES ASSUME NEW d \in 0..((n - c) - 1), V(c + d) = V(c) PROVE V(c + (d + 1)) = V(c)
    OBVIOUS
  <2>1. PICK m : m = c + d
    OBVIOUS
  <2>2. m \in 0..(n - 1) /\ m + 1 = c + (d + 1) /\ m + 1 \in (c + 1)..n /\ m + 1 \in 1..n /\ m \in 0..n
    BY <1>2, <2>1
  <2>3. PICK p, q, input :
          p = At(es, rec, m).projection /\ q = At(es, rec, m + 1).projection /\ input = rec[m + 1]
    OBVIOUS
  <2>4. /\ Sound(p) /\ input.payload \in MemoryEvent /\ input.recorded_at \in Time
        /\ Accepts(p, input.payload, input.recorded_at)
        /\ m \in Nat /\ q = Apply(p, input.payload, input.recorded_at, m)
    BY <1>1, <2>2, <2>3, NextApplied
  <2>5. at < input.recorded_at
    <3>1. PICK when \in Nat : when = input.recorded_at
      BY <2>4 DEF Time
    <3>2. ~(when <= at)
      BY <1>1, <2>2, <2>3, <3>1
    <3>3. QED
      BY <3>1, <3>2
  <2>6. ASSUME input.payload.kind = "FactRetracted"
        PROVE  p.retractions[input.payload.fact_id] = None
    <3>1. input.payload.fact_id \in FactIds
      BY <2>4, <2>6, PayloadKinds
    <3>2. SUFFICES ASSUME p.retractions[input.payload.fact_id] # None PROVE FALSE
      OBVIOUS
    <3>3. RetractionsLogged(p, rec, m)
      BY <1>1, <2>2, <2>3, AllRetractionsLogged
    <3>4. PICK j \in 1..m : /\ rec[j].payload.kind = "FactRetracted"
                            /\ rec[j].payload.fact_id = input.payload.fact_id
      BY <3>1, <3>2, <3>3 DEF RetractionsLogged
    <3>5. j < m + 1 /\ j \in 1..n
      BY <1>2, <2>2
    <3>6. QED
      BY <1>1, <2>2, <2>3, <2>6, <3>4, <3>5
  <2>7. ViewRef(q, valid_at, at) = ViewRef(p, valid_at, at)
    BY <2>4, <2>5, <2>6, LaterEventsUnseen
  <2>8. V(m + 1) = V(m)
    BY <2>3, <2>7
  <2>9. QED
    BY <2>1, <2>2, <2>8
<1> HIDE DEF S
<1>5. \A d \in 0..(n - c) : d \in S
  BY <1>2, <1>3, <1>4, InductionUpTo
<1>6. PICK d \in Nat : d = n - c
  BY <1>2
<1>7. d \in S /\ c + d = n
  BY <1>2, <1>5, <1>6
<1>8. V(n) = V(c)
  BY <1>7 DEF S
<1>9. QED
  BY <1>1, <1>8

\* Views of the past are stable: with times in order and no fact retracted
\* twice, a view at an earlier known time is the view of the log of that time.
THEOREM PastViewsAreStable == Spec => []PastViewsStable
<1>1. ReplayInv => PastViewsStable
  <2> SUFFICES ASSUME ReplayInv, InOrder, ~RetractedTwice,
                      NEW valid_at \in Clock, NEW known_at \in Clock
               PROVE  ViewRef(live.projection, valid_at, known_at)
                        = ViewRef(Replay(Cardinality({k \in DOMAIN recorded :
                                    recorded[k].recorded_at <= known_at})).projection,
                                  valid_at, known_at)
    BY DEF PastViewsStable, KnownTimeShowsThePast
  <2>1. /\ LogSound(store, recorded) /\ Replayed(store, recorded)
        /\ LiveSound(store, recorded, live)
    BY DEF ReplayInv
  <2>2. PICK n, K : /\ n = Len(store.events)
                    /\ K = {k \in DOMAIN recorded : recorded[k].recorded_at <= known_at}
    OBVIOUS
  <2>3. n \in Nat /\ DOMAIN recorded = 1..n /\ n \in 0..n
    BY <2>1, <2>2, StoreFields, LenProperties DEF LogSound
  <2>4. valid_at \in Nat /\ known_at \in Nat
    BY ClockInstants
  <2>5. \A k \in 1..n : recorded[k].recorded_at \in Nat
    BY <2>1, <2>2, LogEvent DEF Time
  <2>6. ASSUME NEW j \in 1..n, NEW k \in 1..n, j < k, k \in K PROVE j \in K
    <3>1. recorded[j].recorded_at <= recorded[k].recorded_at /\ recorded[k].recorded_at <= known_at
      BY <2>2, <2>3, <2>6 DEF InOrder
    <3>2. PICK x \in Nat, y \in Nat : x = recorded[j].recorded_at /\ y = recorded[k].recorded_at
      BY <2>5
    <3>3. x <= known_at
      BY <2>4, <3>1, <3>2
    <3>4. QED
      BY <2>2, <2>3, <3>2, <3>3
  <2>7. K \subseteq 1..n
    BY <2>2, <2>3
  <2>8. PICK c \in 0..n : K = 1..c /\ Cardinality(K) = c
    BY <2>3, <2>6, <2>7, KnownPrefix
  <2>9. \A i \in (c + 1)..n : ~(recorded[i].recorded_at <= known_at)
    <3>1. \A i \in (c + 1)..n : i \in 1..n /\ i \notin 1..c
      BY <2>3
    <3>2. QED
      BY <2>2, <2>3, <2>8, <3>1
  <2>10. \A j, k \in 1..n :
           ~ /\ j < k
             /\ recorded[j].payload.kind = "FactRetracted" /\ recorded[k].payload.kind = "FactRetracted"
             /\ recorded[j].payload.fact_id = recorded[k].payload.fact_id
    BY <2>3 DEF RetractedTwice
  <2>11. PICK last, past : /\ last = At(store.events, recorded, n).projection
                           /\ past = At(store.events, recorded, c).projection
    OBVIOUS
  <2>12. ViewRef(last, valid_at, known_at) = ViewRef(past, valid_at, known_at)
    BY <2>1, <2>2, <2>4, <2>8, <2>9, <2>10, <2>11, ReplayKeepsTheView
  <2>13. ViewRef(live.projection, valid_at, known_at) = ViewRef(last, valid_at, known_at)
    <3>1. PICK p : p = live.projection
      OBVIOUS
    <3>2. Sound(p) /\ Canonical(p) = Canonical(last)
      BY <2>1, <2>2, <2>11, <3>1 DEF LiveSound
    <3>3. Sound(last)
      BY <2>1, <2>2, <2>3, <2>11 DEF Replayed, Reached
    <3>4. Agree(last, p)
      BY <3>2, CanonicalFields DEF Agree
    <3>5. NodesStay(last, p, known_at) /\ FactsStay(last, p, known_at) /\ ChangesStay(last, p, known_at)
      BY <3>3, <3>4, AgreeStays
    <3>6. ViewRef(p, valid_at, known_at) = ViewRef(last, valid_at, known_at)
      BY <2>4, <3>2, <3>3, <3>5, ViewStays
    <3>7. QED
      BY <3>1, <3>6
  <2>14. Replay(c).projection = past
    BY <2>2, <2>8, <2>11, ReplayReaches
  <2>15. QED
    BY <2>2, <2>8, <2>12, <2>13, <2>14
<1>2. QED
  BY <1>1, ReplayInvariant, PTL

-----------------------------------------------------------------------------
(***************************************************************************)
(* The bulk construction. PartsInv says that the threads together prepare  *)
(* the facts of the call, whatever the order in which they end; the rest   *)
(* is about Built, what one thread would build.                            *)
(***************************************************************************)

-----------------------------------------------------------------------------
\* The chunks.

\* A division that rounds up: so many parts of d hold n, and none is empty.
LEMMA CeilDivHolds ==
  ASSUME NEW n \in Nat, NEW d \in Nat \ {0}
  PROVE  /\ CeilDiv(n, d) \in Nat
         /\ n <= CeilDiv(n, d) * d
         /\ n > 0 => CeilDiv(n, d) >= 1 /\ (CeilDiv(n, d) - 1) * d < n
<1>1. PICK q : q = (n + d - 1) \div d
  OBVIOUS
<1>2. PICK r : r = (n + d - 1) % d
  OBVIOUS
<1>3. q \in Int /\ r \in 0..(d - 1) /\ n + d - 1 = d * q + r
  BY <1>1, <1>2
<1>4. q >= 0
  <2>1. SUFFICES ASSUME q <= -1 PROVE FALSE
    BY <1>3
  <2>2. d * q <= d * (-1)
    BY <1>3, <2>1
  <2>3. QED
    BY <1>3, <2>2
<1>5. d * q = q * d /\ (q - 1) * d = q * d - d
  BY <1>3
<1>6. n <= q * d /\ (q - 1) * d < n
  BY <1>3, <1>5
<1>7. ASSUME n > 0 PROVE q >= 1
  <2>1. SUFFICES ASSUME q = 0 PROVE FALSE
    BY <1>3, <1>4
  <2>2. q * d = 0
    BY <2>1
  <2>3. QED
    BY <1>6, <1>7, <2>2
<1>8. QED
  BY <1>1, <1>3, <1>4, <1>5, <1>6, <1>7 DEF CeilDiv

\* A piece of a sequence.
LEMMA PieceIsSeq ==
  ASSUME NEW S, NEW facts \in Seq(S), NEW from \in 0..Len(facts), NEW to \in 0..Len(facts)
  PROVE  SubSeq(facts, from + 1, to) \in Seq(S)
<1>1. Len(facts) \in Nat /\ from + 1 \in Int /\ to \in Int
  BY LenProperties
<1>2. ASSUME NEW i \in (from + 1)..to PROVE facts[i] \in S
  <2>1. i \in 1..Len(facts)
    BY <1>1
  <2>2. QED
    BY <2>1, ElementOfSeq
<1>3. QED
  BY <1>1, <1>2, SubSeqProperties

\* The n parts are the pieces of the facts that end at these places.
Pieces(parts, facts, n, end) ==
  /\ end \in [0..n -> 0..Len(facts)] /\ end[0] = 0 /\ end[n] = Len(facts)
  /\ \A k \in 0..(n - 1) : end[k] <= end[k + 1]
  /\ \A c \in 1..n : parts[c] = SubSeq(facts, end[c - 1] + 1, end[c])

\* Consecutive pieces make up the whole sequence.
LEMMA PiecesFlatten ==
  ASSUME NEW S, NEW facts \in Seq(S), NEW n \in Nat \ {0}, NEW end,
         NEW parts \in [1..n -> Seq(S)], Pieces(parts, facts, n, end)
  PROVE  FlattenSeq(parts) = facts
<1> USE DEF Pieces
<1>1. Len(facts) \in Nat /\ \A k \in 0..n : end[k] \in 0..Len(facts)
  BY LenProperties
<1>2. ASSUME NEW k \in 0..(n - 1)
      PROVE  parts[k + 1] = SubSeq(facts, end[k] + 1, end[k + 1])
  <2>1. k + 1 \in 1..n /\ (k + 1) - 1 = k
    OBVIOUS
  <2>2. QED
    BY <2>1
<1>3. parts \in Seq(Seq(S)) /\ Len(parts) = n /\ parts # <<>>
  <2>1. parts \in Seq(Seq(S)) /\ Len(parts) = n
    BY FunctionIsSeq
  <2>2. QED
    BY <2>1
<1>5. PICK c : /\ FlattenSeq(parts) = c[Len(parts)]
               /\ c[1] = parts[1]
               /\ \A i \in 1..(Len(parts) - 1) : c[i + 1] = c[i] \o parts[i + 1]
  BY <1>3, FlattenSteps
<1> DEFINE N == {k \in Nat : k = 0 \/ c[k] = SubSeq(facts, 1, end[k])}
<1>6. 0 \in N
  OBVIOUS
<1>7. ASSUME NEW k \in 0..(n - 1), k \in N PROVE k + 1 \in N
  <2>1. k + 1 \in Nat /\ k \in 0..n /\ k + 1 \in 0..n
    OBVIOUS
  <2>2. c[k + 1] = SubSeq(facts, 1, end[k + 1])
    <3>1. CASE k = 0
      <4>1. parts[0 + 1] = SubSeq(facts, end[0] + 1, end[0 + 1])
        BY <1>2, <3>1
      <4>2. 0 + 1 = 1 /\ end[0] + 1 = 1
        OBVIOUS
      <4>3. QED
        BY <1>5, <3>1, <4>1, <4>2
    <3>2. CASE k # 0
      <4>1. k \in 1..(Len(parts) - 1)
        BY <1>3, <3>2
      <4>2. c[k + 1] = c[k] \o parts[k + 1]
        BY <1>5, <4>1
      <4>3. c[k] = SubSeq(facts, 1, end[k])
        BY <1>7, <3>2
      <4>4. /\ 1 \in 1..(Len(facts) + 1) /\ end[k] \in (1 - 1)..Len(facts)
            /\ end[k + 1] \in end[k]..Len(facts)
        BY <1>1, <2>1
      <4>5. SubSeq(facts, 1, end[k]) \o SubSeq(facts, end[k] + 1, end[k + 1])
              = SubSeq(facts, 1, end[k + 1])
        BY <4>4, ConcatAdjacentSubSeq
      <4>6. QED
        BY <1>2, <4>2, <4>3, <4>5
    <3>3. QED
      BY <3>1, <3>2
  <2>3. QED
    BY <2>1, <2>2
<1> HIDE DEF N
<1>8. n \in N
  <2>1. n \in Nat /\ n \in 0..n
    OBVIOUS
  <2>2. QED
    BY <1>6, <1>7, <2>1, InductionUpTo
<1>9. c[n] = SubSeq(facts, 1, Len(facts))
  BY <1>8 DEF N
<1>10. QED
  BY <1>3, <1>5, <1>9, SubSeqFull

\* The ends of chunks of one size.
LEMMA ChunkEnds ==
  ASSUME NEW len \in Nat, NEW size \in Nat \ {0}, NEW n \in Nat \ {0},
         (n - 1) * size < len, len <= n * size
  PROVE  /\ Smaller(0 * size, len) = 0 /\ Smaller(n * size, len) = len
         /\ \A k \in 0..n : Smaller(k * size, len) \in 0..len
         /\ \A k \in 0..(n - 1) : /\ Smaller(k * size, len) = k * size
                                  /\ Smaller(k * size, len) <= Smaller((k + 1) * size, len)
<1>1. 0 * size = 0
  OBVIOUS
<1>2. Smaller(0 * size, len) = 0 /\ Smaller(n * size, len) = len
  <2>1. n * size \in Int
    OBVIOUS
  <2>2. QED
    BY <1>1, <2>1 DEF Smaller
<1>3. ASSUME NEW k \in 0..n PROVE Smaller(k * size, len) \in 0..len
  <2>1. k * size \in Nat
    OBVIOUS
  <2>2. QED
    BY <2>1 DEF Smaller
<1>4. ASSUME NEW k \in 0..(n - 1)
      PROVE  /\ Smaller(k * size, len) = k * size
             /\ Smaller(k * size, len) <= Smaller((k + 1) * size, len)
  <2>1. PICK x, y, z : x = k * size /\ y = (n - 1) * size /\ z = (k + 1) * size
    OBVIOUS
  <2>2. x \in Int /\ y \in Int /\ x <= y
    BY <2>1
  <2>3. z \in Int /\ z = x + size
    BY <2>1
  <2>4. y < len
    BY <2>1
  <2>5. Smaller(x, len) = x /\ Smaller(x, len) <= Smaller(z, len)
    BY <2>2, <2>3, <2>4 DEF Smaller
  <2>6. QED
    BY <2>1, <2>5
<1>5. QED
  BY <1>2, <1>3, <1>4

\* prepare_facts loses no fact and changes no order, whatever the parallelism.
LEMMA ChunkedPartition ==
  ASSUME NEW facts \in Seq(Fact), NEW parallelism \in Parallel
  PROVE  /\ Chunked(facts, parallelism) \in Seq(Seq(Fact))
         /\ FlattenSeq(Chunked(facts, parallelism)) = facts
<1>1. Len(facts) \in Nat
  BY LenProperties
<1>2. ChunkFacts \in Nat \ {0} /\ parallelism \in Nat \ {0}
  BY PartsAssumption
<1>3. PICK wanted : wanted = Smaller(parallelism, CeilDiv(Len(facts), ChunkFacts))
  OBVIOUS
<1>4. CeilDiv(Len(facts), ChunkFacts) \in Nat
  BY <1>1, <1>2, CeilDivHolds
<1>5. wanted \in Nat /\ wanted <= CeilDiv(Len(facts), ChunkFacts)
  BY <1>2, <1>3, <1>4 DEF Smaller
<1>6. PICK workers : workers = IF wanted < 1 THEN 1 ELSE wanted
  OBVIOUS
<1>7. workers \in Nat \ {0}
  BY <1>5, <1>6
<1>8. PICK size : size = CeilDiv(Len(facts), workers)
  OBVIOUS
<1>9. PICK parts : parts = Chunked(facts, parallelism)
  OBVIOUS
<1>10. parts = IF workers = 1 THEN <<facts>>
               ELSE [c \in 1..CeilDiv(Len(facts), size) |->
                       SubSeq(facts, (c - 1) * size + 1, Smaller(c * size, Len(facts)))]
  BY <1>3, <1>6, <1>8, <1>9 DEF Chunked
<1>11. CASE workers = 1
  <2>1. parts = Append(<<>>, facts) /\ <<>> \in Seq(Seq(Fact))
    BY <1>10, <1>11, EmptySeq
  <2>2. FlattenSeq(parts) = FlattenSeq(<<>>) \o facts
    BY <2>1, FlattenAppend
  <2>3. FlattenSeq(parts) = facts
    BY <2>2, EmptyFlattened, ConcatEmptySeq
  <2>4. parts \in Seq(Seq(Fact))
    BY <2>1, AppendProperties
  <2>5. QED
    BY <1>9, <2>3, <2>4
<1>12. CASE workers # 1
  <2>1. Len(facts) > 0
    <3>1. SUFFICES ASSUME Len(facts) = 0 PROVE FALSE
      BY <1>1
    <3>2. CeilDiv(0, ChunkFacts) = 0
      BY <1>2 DEF CeilDiv
    <3>3. QED
      BY <1>5, <1>6, <1>12, <3>1, <3>2
  <2>2. size \in Nat \ {0}
    BY <1>1, <1>7, <1>8, <2>1, CeilDivHolds
  <2>3. PICK n : n = CeilDiv(Len(facts), size)
    OBVIOUS
  <2>4. n \in Nat \ {0} /\ (n - 1) * size < Len(facts) /\ Len(facts) <= n * size
    BY <1>1, <2>1, <2>2, <2>3, CeilDivHolds
  <2>5. parts = [c \in 1..n |->
                   SubSeq(facts, (c - 1) * size + 1, Smaller(c * size, Len(facts)))]
    BY <1>10, <1>12, <2>3
  <2>6. PICK end : end = [k \in 0..n |-> Smaller(k * size, Len(facts))]
    OBVIOUS
  <2>7. /\ end \in [0..n -> 0..Len(facts)] /\ end[0] = 0 /\ end[n] = Len(facts)
        /\ \A k \in 0..(n - 1) : end[k] <= end[k + 1] /\ end[k] = k * size
        /\ \A k \in 0..n : end[k] = Smaller(k * size, Len(facts))
    <3>1. \A k \in 0..(n - 1) : k \in 0..n /\ k + 1 \in 0..n
      BY <2>4
    <3>2. 0 \in 0..n /\ n \in 0..n
      BY <2>4
    <3>3. /\ Smaller(0 * size, Len(facts)) = 0 /\ Smaller(n * size, Len(facts)) = Len(facts)
          /\ \A k \in 0..n : Smaller(k * size, Len(facts)) \in 0..Len(facts)
          /\ \A k \in 0..(n - 1) :
               /\ Smaller(k * size, Len(facts)) = k * size
               /\ Smaller(k * size, Len(facts)) <= Smaller((k + 1) * size, Len(facts))
      BY <1>1, <2>2, <2>4, ChunkEnds
    <3>4. \A k \in 0..n : end[k] = Smaller(k * size, Len(facts))
      BY <2>6
    <3>5. end \in [0..n -> 0..Len(facts)]
      BY <2>6, <3>3
    <3>6. end[0] = 0 /\ end[n] = Len(facts)
      BY <3>2, <3>3, <3>4
    <3>7. \A k \in 0..(n - 1) : end[k] <= end[k + 1] /\ end[k] = k * size
      BY <3>1, <3>3, <3>4
    <3>8. QED
      BY <3>4, <3>5, <3>6, <3>7
  <2>8. parts = [c \in 1..n |-> SubSeq(facts, end[c - 1] + 1, end[c])]
    <3>1. \A c \in 1..n : c - 1 \in 0..(n - 1) /\ c \in 0..n
      BY <2>4
    <3>2. \A c \in 1..n : end[c - 1] = (c - 1) * size /\ end[c] = Smaller(c * size, Len(facts))
      BY <2>7, <3>1
    <3>3. QED
      BY <2>5, <3>2
  <2>9. parts \in [1..n -> Seq(Fact)] /\ \A c \in 1..n :
          parts[c] = SubSeq(facts, end[c - 1] + 1, end[c])
    <3>1. \A c \in 1..n : parts[c] = SubSeq(facts, end[c - 1] + 1, end[c])
      BY <2>8
    <3>2. ASSUME NEW c \in 1..n PROVE parts[c] \in Seq(Fact)
      <4>1. c - 1 \in 0..n /\ c \in 0..n
        BY <2>4
      <4>2. end[c - 1] \in 0..Len(facts) /\ end[c] \in 0..Len(facts)
        BY <2>7, <4>1
      <4>3. QED
        BY <3>1, <4>2, PieceIsSeq
    <3>3. QED
      BY <2>8, <3>1, <3>2
  <2>10. parts \in Seq(Seq(Fact))
    BY <2>4, <2>9, FunctionIsSeq
  <2>11. \A k \in 0..(n - 1) : end[k] <= end[k + 1]
    BY <2>7
  <2>12. FlattenSeq(parts) = facts
    <3>1. Pieces(parts, facts, n, end)
      BY <2>7, <2>9, <2>11 DEF Pieces
    <3>2. QED
      BY <2>4, <2>9, <3>1, PiecesFlatten
  <2>13. QED
    BY <1>9, <2>10, <2>12
<1>13. QED
  BY <1>11, <1>12

-----------------------------------------------------------------------------
\* What the threads prepare.

\* The facts that prepare_fact accepts.
Preparable(p, known_at) == {f \in Fact : CanPrepareFact(p, f, known_at)}

\* The node indexes of the endpoints of each fact.
EndsOf(lookup, facts) ==
  [k \in DOMAIN facts |-> {lookup[facts[k].source], lookup[facts[k].target]}]

Pairs(lookup) == {{lookup[f.source], lookup[f.target]} : f \in Fact}

\* They form a sequence, with one set for every fact.
LEMMA EndsAreSeq ==
  ASSUME NEW lookup, NEW facts \in Seq(Fact)
  PROVE  /\ EndsOf(lookup, facts) \in Seq(Pairs(lookup))
         /\ Len(EndsOf(lookup, facts)) = Len(facts)
         /\ \A k \in 1..Len(facts) :
              EndsOf(lookup, facts)[k] = {lookup[facts[k].source], lookup[facts[k].target]}
<1>1. Len(facts) \in Nat /\ DOMAIN facts = 1..Len(facts)
  BY LenProperties
<1>2. PICK T, ends : T = Pairs(lookup) /\ ends = EndsOf(lookup, facts)
  OBVIOUS
<1>3. ends = [k \in 1..Len(facts) |-> {lookup[facts[k].source], lookup[facts[k].target]}]
  BY <1>1, <1>2 DEF EndsOf
<1>4. ASSUME NEW k \in 1..Len(facts) PROVE ends[k] \in T
  <2>1. facts[k] \in Fact
    BY ElementOfSeq
  <2>2. QED
    BY <1>2, <1>3, <2>1 DEF Pairs
<1>5. ends \in [1..Len(facts) -> T]
  BY <1>3, <1>4
<1>6. ends \in Seq(T) /\ Len(ends) = Len(facts)
  BY <1>1, <1>5, FunctionIsSeq
<1>7. QED
  BY <1>2, <1>3, <1>6

\* The endpoints of two lists of facts.
LEMMA EndsConcat ==
  ASSUME NEW lookup, NEW a \in Seq(Fact), NEW b \in Seq(Fact)
  PROVE  EndsOf(lookup, a \o b) = EndsOf(lookup, a) \o EndsOf(lookup, b)
<1>1. PICK T : T = Pairs(lookup)
  OBVIOUS
<1>2. PICK c : c = a \o b
  OBVIOUS
<1>3. /\ c \in Seq(Fact) /\ Len(c) = Len(a) + Len(b) /\ Len(a) \in Nat /\ Len(b) \in Nat
      /\ \A i \in 1..(Len(a) + Len(b)) : c[i] = IF i <= Len(a) THEN a[i] ELSE b[i - Len(a)]
  BY <1>2, ConcatProperties, LenProperties
<1>4. PICK x, y, z : x = EndsOf(lookup, a) /\ y = EndsOf(lookup, b) /\ z = EndsOf(lookup, c)
  OBVIOUS
<1>5. /\ x \in Seq(T) /\ Len(x) = Len(a)
      /\ \A k \in 1..Len(a) : x[k] = {lookup[a[k].source], lookup[a[k].target]}
  BY <1>1, <1>4, EndsAreSeq
<1>6. /\ y \in Seq(T) /\ Len(y) = Len(b)
      /\ \A k \in 1..Len(b) : y[k] = {lookup[b[k].source], lookup[b[k].target]}
  BY <1>1, <1>4, EndsAreSeq
<1>7. /\ z \in Seq(T) /\ Len(z) = Len(c)
      /\ \A k \in 1..Len(c) : z[k] = {lookup[c[k].source], lookup[c[k].target]}
  <2>1. c \in Seq(Fact)
    BY <1>3
  <2>2. QED
    BY <1>1, <1>4, <2>1, EndsAreSeq
<1>8. PICK xy : xy = x \o y
  OBVIOUS
<1>9. /\ xy \in Seq(T) /\ Len(xy) = Len(a) + Len(b)
      /\ \A i \in 1..(Len(a) + Len(b)) : xy[i] = IF i <= Len(a) THEN x[i] ELSE y[i - Len(a)]
  <2>1. x \in Seq(T) /\ y \in Seq(T) /\ Len(x) = Len(a) /\ Len(y) = Len(b)
    BY <1>5, <1>6
  <2>2. /\ xy \in Seq(T) /\ Len(xy) = Len(x) + Len(y)
        /\ \A i \in 1..(Len(x) + Len(y)) : xy[i] = IF i <= Len(x) THEN x[i] ELSE y[i - Len(x)]
    <3>1. x \in Seq(T) /\ y \in Seq(T)
      BY <2>1
    <3>2. /\ x \o y \in Seq(T) /\ Len(x \o y) = Len(x) + Len(y)
          /\ \A i \in 1..(Len(x) + Len(y)) : (x \o y)[i] = IF i <= Len(x) THEN x[i] ELSE y[i - Len(x)]
      BY <3>1, ConcatProperties, Zenon
    <3>3. QED
      BY <1>8, <3>2, Zenon
  <2>3. QED
    BY <2>1, <2>2
<1>10. ASSUME NEW i \in 1..Len(z) PROVE z[i] = xy[i]
  <2>1. CASE i <= Len(a)
    <3>1. i \in 1..Len(a) /\ i \in 1..(Len(a) + Len(b))
      BY <1>3, <1>7, <2>1
    <3>2. QED
      BY <1>3, <1>5, <1>7, <1>9, <2>1, <3>1
  <2>2. CASE ~(i <= Len(a))
    <3>1. i - Len(a) \in 1..Len(b) /\ i \in 1..(Len(a) + Len(b))
      BY <1>3, <1>7, <2>2
    <3>2. c[i] = b[i - Len(a)] /\ xy[i] = y[i - Len(a)]
      BY <1>3, <1>9, <2>2, <3>1
    <3>3. QED
      BY <1>3, <1>6, <1>7, <3>1, <3>2
  <2>3. QED
    BY <2>1, <2>2
<1>11. z = xy
  BY <1>3, <1>7, <1>9, <1>10, SeqEqual
<1>12. QED
  BY <1>2, <1>4, <1>8, <1>11

\* Joining what was prepared chunk by chunk prepares all facts.
LEMMA FlattenEnds ==
  ASSUME NEW lookup, NEW seqs \in Seq(Seq(Fact)),
         NEW ends, ends = [c \in DOMAIN seqs |-> EndsOf(lookup, seqs[c])]
  PROVE  FlattenSeq(ends) = EndsOf(lookup, FlattenSeq(seqs))
<1>1. PICK T : T = Pairs(lookup)
  OBVIOUS
<1>2. PICK m : m = Len(seqs)
  OBVIOUS
<1>3. m \in Nat /\ DOMAIN seqs = 1..m /\ \A c \in 1..m : seqs[c] \in Seq(Fact)
  BY <1>2, LenProperties, ElementOfSeq
<1>4. /\ ends \in [1..m -> Seq(T)]
      /\ \A c \in 1..m : ends[c] = EndsOf(lookup, seqs[c])
  BY <1>1, <1>3, EndsAreSeq
<1>5. ends \in Seq(Seq(T)) /\ Len(ends) = m
  BY <1>3, <1>4, FunctionIsSeq
<1>6. CASE m = 0
  <2>1. seqs = <<>> /\ ends = <<>>
    BY <1>2, <1>5, <1>6, EmptySeq
  <2>2. FlattenSeq(seqs) = <<>> /\ FlattenSeq(ends) = <<>>
    BY <2>1, EmptyFlattened
  <2>3. EndsOf(lookup, <<>>) = <<>>
    <3>1. <<>> \in Seq(Fact) /\ Len(<<>>) = 0
      BY EmptySeq
    <3>2. EndsOf(lookup, <<>>) \in Seq(T) /\ Len(EndsOf(lookup, <<>>)) = 0
      BY <1>1, <3>1, EndsAreSeq
    <3>3. QED
      BY <3>2, EmptySeq
  <2>4. QED
    BY <2>2, <2>3
<1>7. CASE m # 0
  <2>1. seqs # <<>> /\ ends # <<>>
    BY <1>2, <1>5, <1>7, EmptySeq
  <2>2. PICK c : /\ FlattenSeq(seqs) = c[m]
                 /\ c[1] = seqs[1]
                 /\ \A i \in 1..(m - 1) : c[i + 1] = c[i] \o seqs[i + 1]
    BY <1>2, <2>1, FlattenSteps
  <2>3. PICK d : /\ FlattenSeq(ends) = d[m]
                 /\ d[1] = ends[1]
                 /\ \A i \in 1..(m - 1) : d[i + 1] = d[i] \o ends[i + 1]
    BY <1>5, <2>1, FlattenSteps
  <2> DEFINE N == {k \in Nat : k = 0 \/ (c[k] \in Seq(Fact) /\ d[k] = EndsOf(lookup, c[k]))}
  <2>4. 0 \in N
    OBVIOUS
  <2>5. ASSUME NEW k \in 0..(m - 1), k \in N PROVE k + 1 \in N
    <3>1. k + 1 \in 1..m /\ k + 1 \in Nat
      BY <1>3
    <3>2. CASE k = 0
      BY <1>3, <1>4, <2>2, <2>3, <3>1, <3>2
    <3>3. CASE k # 0
      <4>1. k \in 1..(m - 1)
        BY <1>3, <3>3
      <4>2. c[k + 1] = c[k] \o seqs[k + 1] /\ d[k + 1] = d[k] \o ends[k + 1]
        BY <2>2, <2>3, <4>1
      <4>3. c[k] \in Seq(Fact) /\ d[k] = EndsOf(lookup, c[k])
        BY <2>5, <3>3
      <4>4. seqs[k + 1] \in Seq(Fact) /\ ends[k + 1] = EndsOf(lookup, seqs[k + 1])
        BY <1>3, <1>4, <3>1
      <4>5. /\ c[k + 1] \in Seq(Fact)
            /\ EndsOf(lookup, c[k + 1]) = d[k] \o ends[k + 1]
        BY <4>2, <4>3, <4>4, EndsConcat, ConcatProperties
      <4>6. QED
        BY <3>1, <4>2, <4>5
    <3>4. QED
      BY <3>2, <3>3
  <2> HIDE DEF N
  <2>6. m \in N
    <3>1. m \in 0..m
      BY <1>3
    <3>2. QED
      BY <1>3, <2>4, <2>5, <3>1, InductionUpTo
  <2>7. QED
    BY <1>7, <2>2, <2>3, <2>6 DEF N
<1>8. QED
  BY <1>6, <1>7

-----------------------------------------------------------------------------
\* The nodes.

Revision(nodes, known_at, k) == [id |-> nodes[k], recorded_at |-> known_at, position |-> k - 1]

Histories(nodes, known_at) == [k \in 1..Len(nodes) |-> <<Revision(nodes, known_at, k)>>]

PlaceOf(nodes, e) == Lookup({k \in DOMAIN nodes : nodes[k] = e})

\* What occurs once is found where it is, anything else is not found.
LEMMA PlaceFound ==
  ASSUME NEW S, NEW nodes \in Seq(S), Distinct(nodes), NEW e
  PROVE  /\ PlaceOf(nodes, e) \in Nat \cup {None}
         /\ \A k \in 1..Len(nodes) : nodes[k] = e => PlaceOf(nodes, e) = k - 1
         /\ PlaceOf(nodes, e) # None =>
              PlaceOf(nodes, e) + 1 \in 1..Len(nodes) /\ nodes[PlaceOf(nodes, e) + 1] = e
<1>1. PICK P : P = {k \in DOMAIN nodes : nodes[k] = e}
  OBVIOUS
<1>2. DOMAIN nodes = 1..Len(nodes) /\ Len(nodes) \in Nat
  BY LenProperties
<1>3. PlaceOf(nodes, e) = Lookup(P)
  BY <1>1 DEF PlaceOf
<1>4. ASSUME NEW j \in P, NEW k \in P PROVE j = k
  <2>1. j \in 1..Len(nodes) /\ k \in 1..Len(nodes) /\ nodes[j] = nodes[k]
    BY <1>1, <1>2
  <2>2. ~(j < k) /\ ~(k < j)
    BY <1>2, <2>1 DEF Distinct
  <2>3. QED
    BY <1>2, <2>1, <2>2
<1>5. CASE P = {}
  <2>1. Lookup(P) = None
    BY <1>5, LookupPlaces
  <2>2. \A k \in 1..Len(nodes) : nodes[k] # e
    BY <1>1, <1>2, <1>5
  <2>3. QED
    BY <1>3, <2>1, <2>2
<1>6. CASE P # {}
  <2>1. PICK x : x \in P
    BY <1>6
  <2>2. x \in 1..Len(nodes) /\ nodes[x] = e /\ P = {x}
    BY <1>1, <1>2, <1>4, <2>1
  <2>3. Lookup(P) = x - 1
    BY <1>2, <2>2, LookupPlaces
  <2>4. \A k \in 1..Len(nodes) : nodes[k] = e => k = x
    BY <1>1, <1>2, <2>2
  <2>5. x - 1 \in Nat /\ (x - 1) + 1 = x
    BY <1>2, <2>2
  <2>6. QED
    BY <1>3, <2>2, <2>3, <2>4, <2>5
<1>7. QED
  BY <1>5, <1>6

\* The histories of the nodes of a call, one revision each.
LEMMA NodesOnce ==
  ASSUME NEW nodes \in Seq(Entities), Distinct(nodes), NEW known_at \in Nat,
         NEW lookup, lookup = [e \in Entities |-> PlaceOf(nodes, e)]
  PROVE  /\ Histories(nodes, known_at) \in Seq(Seq(NodeRevision))
         /\ Len(Histories(nodes, known_at)) = Len(nodes)
         /\ lookup \in [Entities -> Nat \cup {None}]
         /\ NodesIndexed(Histories(nodes, known_at), lookup)
<1>1. PICK h : h = Histories(nodes, known_at)
  OBVIOUS
<1>2. Len(nodes) \in Nat /\ \A k \in 1..Len(nodes) : nodes[k] \in Entities
  BY LenProperties, ElementOfSeq
<1>3. ASSUME NEW k \in 1..Len(nodes)
      PROVE  /\ h[k] \in Seq(NodeRevision) /\ Len(h[k]) = 1
             /\ h[k][1].id = nodes[k]
  <2>1. PICK r : r = Revision(nodes, known_at, k)
    OBVIOUS
  <2>2. r \in NodeRevision /\ r.id = nodes[k]
    <3>1. k - 1 \in Nat
      BY <1>2
    <3>2. QED
      BY <1>2, <2>1, <3>1 DEF Revision, NodeRevision, Time
  <2>3. h[k] = <<r>>
    BY <1>1, <2>1 DEF Histories
  <2>4. QED
    BY <2>2, <2>3
<1>4. h \in [1..Len(nodes) -> Seq(NodeRevision)]
  BY <1>1, <1>3 DEF Histories
<1>5. h \in Seq(Seq(NodeRevision)) /\ Len(h) = Len(nodes)
  BY <1>2, <1>4, FunctionIsSeq
<1>6. \A e \in Entities : lookup[e] = PlaceOf(nodes, e)
  OBVIOUS
<1>7. lookup \in [Entities -> Nat \cup {None}]
  BY <1>6, PlaceFound
<1>8. ASSUME NEW n \in 1..Len(h)
      PROVE  /\ Len(h[n]) >= 1
             /\ \A r \in 1..Len(h[n]) : h[n][r].id = h[n][1].id
             /\ lookup[h[n][1].id] = n - 1
  <2>1. n \in 1..Len(nodes) /\ nodes[n] \in Entities
    BY <1>2, <1>5
  <2>2. Len(h[n]) = 1 /\ h[n][1].id = nodes[n]
    BY <1>3, <2>1
  <2>3. lookup[nodes[n]] = n - 1
    BY <1>6, <2>1, PlaceFound
  <2>4. QED
    BY <2>2, <2>3
<1>9. ASSUME NEW e \in Entities, lookup[e] # None
      PROVE  lookup[e] + 1 \in 1..Len(h) /\ h[lookup[e] + 1][1].id = e
  <2>1. lookup[e] + 1 \in 1..Len(nodes) /\ nodes[lookup[e] + 1] = e
    BY <1>6, <1>9, PlaceFound
  <2>2. QED
    BY <1>3, <1>5, <2>1
<1>10. QED
  BY <1>1, <1>5, <1>7, <1>8, <1>9 DEF NodesIndexed

\* What the first loop of try_from_parts leaves.
NodesIn(p, nodes, known_at) ==
  /\ p \in Projection
  /\ p = [EmptyProjection EXCEPT !.nodes = p.nodes, !.node_lookup = p.node_lookup]
  /\ p.nodes = Histories(nodes, known_at)
  /\ p.node_lookup = [e \in Entities |-> PlaceOf(nodes, e)]

\* The loop succeeds exactly if no identifier repeats, and leaves just that.
LEMMA InsertNodesFields ==
  ASSUME NEW nodes \in Seq(Entities), NEW known_at \in Nat
  PROVE  /\ InsertNodes(nodes, known_at) # None <=> Distinct(nodes)
         /\ Distinct(nodes) => NodesIn(InsertNodes(nodes, known_at), nodes, known_at)
<1>1. PICK p : p = InsertNodes(nodes, known_at)
  OBVIOUS
<1>2. ~Distinct(nodes) => p = None
  BY <1>1 DEF InsertNodes
<1>3. ASSUME Distinct(nodes) PROVE NodesIn(p, nodes, known_at) /\ p # None
  <2>1. PICK h, lookup : h = Histories(nodes, known_at) /\ lookup = [e \in Entities |-> PlaceOf(nodes, e)]
    OBVIOUS
  <2>2. DOMAIN nodes = 1..Len(nodes)
    BY LenProperties
  <2>3. p = [EmptyProjection EXCEPT !.nodes = h, !.node_lookup = lookup]
    BY <1>1, <1>3, <2>1, <2>2 DEF InsertNodes, Histories, Revision, PlaceOf
  <2>4. h \in Seq(Seq(NodeRevision)) /\ lookup \in [Entities -> Nat \cup {None}]
    BY <1>3, <2>1, NodesOnce
  <2>5. EmptyProjection \in Projection
    BY EmptySound DEF Sound
  <2>6. p \in Projection /\ p.nodes = h /\ p.node_lookup = lookup
    BY <2>3, <2>4, <2>5 DEF Projection
  <2>7. p # None
    BY <2>6, ProjectionAssumption
  <2>8. QED
    BY <2>1, <2>3, <2>6, <2>7 DEF NodesIn
<1>4. QED
  BY <1>1, <1>2, <1>3

\* The facts of a chunk, or of all chunks, are prepared if all of them can be.
LEMMA PrepareAll ==
  ASSUME NEW p, p.node_lookup \in [Entities -> Nat \cup {None}], NEW at, NEW facts \in Seq(Fact)
  PROVE  /\ PrepareFacts(p, facts, at) # None <=> facts \in Seq(Preparable(p, at))
         /\ facts \in Seq(Preparable(p, at)) =>
              PrepareFacts(p, facts, at) = EndsOf(p.node_lookup, facts)
<1>1. PICK G : G = Preparable(p, at)
  OBVIOUS
<1>2. Len(facts) \in Nat /\ DOMAIN facts = 1..Len(facts)
  BY LenProperties
<1>3. facts \in Seq(G) <=> \A k \in DOMAIN facts : CanPrepareFact(p, facts[k], at)
  <2>1. ASSUME facts \in Seq(G), NEW k \in DOMAIN facts PROVE CanPrepareFact(p, facts[k], at)
    <3>1. facts[k] \in G
      BY <1>2, <2>1, ElementOfSeq
    <3>2. QED
      BY <1>1, <3>1 DEF Preparable
  <2>2. ASSUME \A k \in DOMAIN facts : CanPrepareFact(p, facts[k], at) PROVE facts \in Seq(G)
    <3>1. \A k \in 1..Len(facts) : facts[k] \in G
      BY <1>1, <1>2, <2>2, ElementOfSeq DEF Preparable
    <3>2. facts \in [1..Len(facts) -> G]
      BY <3>1, LenProperties
    <3>3. QED
      BY <1>2, <3>2, FunctionIsSeq
  <2>3. QED
    BY <2>1, <2>2
<1>4. PrepareFacts(p, facts, at)
        = IF facts \in Seq(G) THEN EndsOf(p.node_lookup, facts) ELSE None
  BY <1>3 DEF PrepareFacts, EndsOf
<1>5. ASSUME facts \in Seq(G) PROVE EndsOf(p.node_lookup, facts) # None
  <2>1. PICK ends : ends = EndsOf(p.node_lookup, facts)
    OBVIOUS
  <2>2. /\ Len(ends) = Len(facts) /\ DOMAIN ends = 1..Len(facts)
        /\ ends \in [1..Len(facts) -> Pairs(p.node_lookup)]
        /\ \A k \in 1..Len(facts) : ends[k] = {p.node_lookup[facts[k].source], p.node_lookup[facts[k].target]}
    BY <2>1, EndsAreSeq, LenProperties
  <2>3. ASSUME NEW k \in 1..Len(facts) PROVE ends[k] \in SUBSET Nat
    <3>1. CanPrepareFact(p, facts[k], at) /\ facts[k] \in Fact
      BY <1>2, <1>3, <1>5, ElementOfSeq
    <3>2. facts[k].source \in Entities /\ facts[k].target \in Entities
      BY <3>1, ByIsSupersession
    <3>3. p.node_lookup[facts[k].source] \in Nat /\ p.node_lookup[facts[k].target] \in Nat
      BY <3>1, <3>2 DEF CanPrepareFact
    <3>4. QED
      BY <2>2, <3>3
  <2>4. ends \in [1..Len(facts) -> SUBSET Nat]
    BY <2>2, <2>3
  <2>5. ends \in Seq(SUBSET Nat)
    BY <1>2, <2>4, FunctionIsSeq
  <2>6. QED
    BY <2>1, <2>5, PartsAssumption
<1>6. QED
  BY <1>1, <1>4, <1>5

-----------------------------------------------------------------------------
\* The result of the call is the one that a single thread would build.

\* What try_from_parts returns if one thread prepares the facts.
Built(args) ==
  LET p == InsertNodes(args.nodes, args.known_at)
  IN  IF p = None \/ args.facts \notin Seq(Preparable(p, args.known_at)) THEN None
      ELSE Assemble(p, args.facts, EndsOf(p.node_lookup, args.facts), args.position)

\* While the threads run, the chunks are the facts of the call, and each thread
\* that has ended has prepared its own.
Preparing ==
  /\ projection # None
  /\ projection = InsertNodes(call.nodes, call.known_at)
  /\ chunks \in Seq(Seq(Fact)) /\ FlattenSeq(chunks) = call.facts
  /\ prepared = [c \in DOMAIN chunks |-> prepared[c]]
  /\ finished \in Seq(DOMAIN chunks)
  /\ \A c \in ToSet(finished) : prepared[c] = PrepareFacts(projection, chunks[c], call.known_at)

PartsInv ==
  /\ pc \in {"idle", "prepare", "done"}
  /\ pc # "idle" => call \in Arguments
  /\ pc = "prepare" => Preparing
  /\ pc = "done" => projection = Built(call)

\* The start of the call.
LEMMA CallPrepares ==
  ASSUME NEW args \in Calls, NEW parallelism \in Parallel, Call(args, parallelism)
  PROVE  PartsInv'
<1>1. args \in Arguments
  BY PartsAssumption
<1>2. /\ args.nodes \in Seq(Entities) /\ args.facts \in Seq(Fact) /\ args.known_at \in Nat
  BY <1>1 DEF Arguments, Time
<1>3. /\ call' = args /\ projection' = InsertNodes(args.nodes, args.known_at)
      /\ pc' = IF projection' = None THEN "done" ELSE "prepare"
      /\ chunks' = IF projection' = None THEN <<>> ELSE Chunked(args.facts, parallelism)
      /\ prepared' = [c \in DOMAIN chunks' |-> <<>>]
      /\ finished' = <<>>
  BY DEF Call
<1>4. CASE projection' = None
  <2>1. pc' = "done"
    BY <1>3, <1>4
  <2>2. Built(args) = None
    BY <1>3, <1>4 DEF Built
  <2>3. QED
    BY <1>1, <1>3, <1>4, <2>1, <2>2 DEF PartsInv
<1>5. CASE projection' # None
  <2>1. pc' = "prepare" /\ chunks' = Chunked(args.facts, parallelism)
    BY <1>3, <1>5
  <2>2. chunks' \in Seq(Seq(Fact)) /\ FlattenSeq(chunks') = args.facts
    BY <1>2, <2>1, ChunkedPartition
  <2>3. prepared' = [c \in DOMAIN chunks' |-> prepared'[c]]
    BY <1>3
  <2>4. finished' \in Seq(DOMAIN chunks') /\ ToSet(finished') = {}
    <3>1. \A S : <<>> \in Seq(S)
      BY EmptySeq
    <3>2. ToSet(<<>>) = {}
      BY DEF ToSet
    <3>3. QED
      BY <1>3, <3>1, <3>2
  <2>5. Preparing'
    BY <1>3, <1>5, <2>2, <2>3, <2>4 DEF Preparing
  <2>6. QED
    BY <1>1, <1>3, <2>1, <2>5 DEF PartsInv
<1>6. QED
  BY <1>4, <1>5

\* A thread prepares its chunk.
LEMMA PrepareKeeps ==
  ASSUME PartsInv, NEW c \in DOMAIN chunks, Prepare(c)
  PROVE  PartsInv'
<1>1. /\ pc = "prepare" /\ c \notin ToSet(finished)
      /\ prepared' = [prepared EXCEPT ![c] = PrepareFacts(projection, chunks[c], call.known_at)]
      /\ finished' = Append(finished, c)
      /\ pc' = pc /\ call' = call /\ chunks' = chunks /\ projection' = projection
  BY DEF Prepare
<1>2. Preparing
  BY <1>1 DEF PartsInv
<1>3. finished' \in Seq(DOMAIN chunks)
  BY <1>1, <1>2, AppendProperties DEF Preparing
<1>4. ToSet(finished') = ToSet(finished) \cup {c}
  <2>1. /\ Len(finished') = Len(finished) + 1 /\ Len(finished) \in Nat
        /\ DOMAIN finished = 1..Len(finished) /\ DOMAIN finished' = 1..Len(finished')
        /\ finished'[Len(finished) + 1] = c
        /\ \A i \in 1..Len(finished) : finished'[i] = finished[i]
    BY <1>1, <1>2, <1>3, AppendProperties, LenProperties DEF Preparing
  <2>2. \A i \in 1..Len(finished') : i \in 1..Len(finished) \/ i = Len(finished) + 1
    BY <2>1
  <2>3. \A i \in 1..Len(finished) : i \in 1..Len(finished')
    BY <2>1
  <2>4. Len(finished) + 1 \in 1..Len(finished')
    BY <2>1
  <2>5. QED
    BY <2>1, <2>2, <2>3, <2>4 DEF ToSet
<1>5. ASSUME NEW d \in ToSet(finished')
      PROVE  prepared'[d] = PrepareFacts(projection, chunks[d], call.known_at)
  <2>1. CASE d = c
    <3>1. DOMAIN prepared = DOMAIN chunks
      BY <1>2 DEF Preparing
    <3>2. QED
      BY <1>1, <2>1, <3>1
  <2>2. CASE d # c
    <3>1. d \in ToSet(finished)
      BY <1>4, <2>2
    <3>2. prepared[d] = PrepareFacts(projection, chunks[d], call.known_at)
      BY <1>2, <3>1 DEF Preparing
    <3>3. QED
      BY <1>1, <2>2, <3>2
  <2>3. QED
    BY <2>1, <2>2
<1>6. prepared' = [d \in DOMAIN chunks |-> prepared'[d]]
  <2>1. prepared = [d \in DOMAIN chunks |-> prepared[d]]
    BY <1>2 DEF Preparing
  <2>2. QED
    BY <1>1, <2>1
<1>7. Preparing'
  BY <1>1, <1>2, <1>3, <1>5, <1>6 DEF Preparing
<1>8. QED
  BY <1>1, <1>7 DEF PartsInv

\* The join collects what the threads have prepared, in the order of the chunks.
LEMMA JoinBuilds ==
  ASSUME PartsInv, Join
  PROVE  PartsInv'
<1>1. /\ pc = "prepare" /\ ToSet(finished) = DOMAIN chunks /\ pc' = "done"
      /\ projection' = IF \E c \in DOMAIN prepared : prepared[c] = None THEN None
                       ELSE Assemble(projection, call.facts, Collected, call.position)
      /\ call' = call
  BY DEF Join
<1>2. Preparing /\ call \in Arguments
  BY <1>1 DEF PartsInv
<1>3. PICK p, at : p = projection /\ at = call.known_at
  OBVIOUS
<1>4. /\ call.nodes \in Seq(Entities) /\ call.facts \in Seq(Fact) /\ at \in Nat
  BY <1>2, <1>3 DEF Arguments, Time
<1>5. /\ p # None /\ p = InsertNodes(call.nodes, at)
      /\ chunks \in Seq(Seq(Fact)) /\ FlattenSeq(chunks) = call.facts
      /\ prepared = [c \in DOMAIN chunks |-> prepared[c]]
      /\ \A c \in DOMAIN chunks : prepared[c] = PrepareFacts(p, chunks[c], at)
  BY <1>1, <1>2, <1>3 DEF Preparing
<1>6. p.node_lookup \in [Entities -> Nat \cup {None}]
  <2>1. p \in Projection
    BY <1>4, <1>5, InsertNodesFields DEF NodesIn
  <2>2. QED
    BY <2>1, ProjectionFields
<1>7. PICK G : G = Preparable(p, at)
  OBVIOUS
<1>8. G \subseteq Fact
  BY <1>7 DEF Preparable
<1>9. DOMAIN chunks = 1..Len(chunks) /\ \A c \in 1..Len(chunks) : chunks[c] \in Seq(Fact)
  BY <1>5, LenProperties, ElementOfSeq
<1>10. ASSUME NEW c \in 1..Len(chunks)
       PROVE  /\ prepared[c] # None <=> chunks[c] \in Seq(G)
              /\ chunks[c] \in Seq(G) => prepared[c] = EndsOf(p.node_lookup, chunks[c])
  <2>1. chunks[c] \in Seq(Fact) /\ prepared[c] = PrepareFacts(p, chunks[c], at)
    BY <1>5, <1>9
  <2>2. QED
    BY <1>6, <1>7, <2>1, PrepareAll
<1>11. call.facts \in Seq(G) <=> \A c \in 1..Len(chunks) : chunks[c] \in Seq(G)
  BY <1>5, <1>8, FlattenMembers
<1>12. DOMAIN prepared = 1..Len(chunks)
  BY <1>5, <1>9
<1>13. projection' = Built(call)
  <2>1. CASE call.facts \notin Seq(G)
    <3>1. \E c \in DOMAIN prepared : prepared[c] = None
      BY <1>10, <1>11, <1>12, <2>1
    <3>2. projection' = None
      BY <1>1, <3>1
    <3>3. Built(call) = None
      BY <1>3, <1>5, <1>7, <2>1 DEF Built
    <3>4. QED
      BY <3>2, <3>3
  <2>2. CASE call.facts \in Seq(G)
    <3>1. \A c \in 1..Len(chunks) :
             prepared[c] # None /\ prepared[c] = EndsOf(p.node_lookup, chunks[c])
      BY <1>10, <1>11, <2>2
    <3>2. projection' = Assemble(p, call.facts, Collected, call.position)
      BY <1>1, <1>3, <1>12, <3>1
    <3>3. prepared = [c \in DOMAIN chunks |-> EndsOf(p.node_lookup, chunks[c])]
      BY <1>5, <1>9, <3>1
    <3>4. FlattenSeq(prepared) = EndsOf(p.node_lookup, FlattenSeq(chunks))
      BY <1>5, <3>3, FlattenEnds
    <3>5. Collected = EndsOf(p.node_lookup, call.facts)
      BY <1>5, <3>4 DEF Collected
    <3>6. Built(call) = Assemble(p, call.facts, EndsOf(p.node_lookup, call.facts), call.position)
      BY <1>3, <1>5, <1>7, <2>2 DEF Built
    <3>7. QED
      BY <3>2, <3>5, <3>6
  <2>3. QED
    BY <2>1, <2>2
<1>14. QED
  BY <1>1, <1>2, <1>13 DEF PartsInv

\* However many threads there are and in whatever order they end, try_from_parts
\* returns what one thread would build: a function of the arguments.
THEOREM PartsInvariant == PartsSpec => []PartsInv
<1>1. PartsInit => PartsInv
  BY DEF PartsInit, PartsInv
<1>2. PartsInv /\ [PartsNext]_parts_vars => PartsInv'
  <2> SUFFICES ASSUME PartsInv, [PartsNext]_parts_vars PROVE PartsInv'
    OBVIOUS
  <2>1. CASE \E args \in Calls, parallelism \in Parallel : Call(args, parallelism)
    BY <2>1, CallPrepares
  <2>2. CASE \E c \in DOMAIN chunks : Prepare(c)
    BY <2>2, PrepareKeeps
  <2>3. CASE Join
    BY <2>3, JoinBuilds
  <2>4. CASE Return
    BY <2>4 DEF Return, PartsInv
  <2>5. CASE UNCHANGED parts_vars
    <3>1. Preparing' <=> Preparing
      BY <2>5 DEF parts_vars, Preparing
    <3>2. QED
      BY <2>5, <3>1 DEF parts_vars, PartsInv
  <2>6. QED
    BY <2>1, <2>2, <2>3, <2>4, <2>5 DEF PartsNext
<1>3. QED
  BY <1>1, <1>2, PTL DEF PartsSpec

-----------------------------------------------------------------------------
\* The loops of the construction and of the replay, step by step.

\* The supersessions are applied one fact after the other.
LEMMA SupersedeRecursion ==
  ASSUME NEW p, NEW facts, Len(facts) \in Nat
  PROVE  \E s : /\ s[0] = p
                /\ \A k \in 1..Len(facts) : s[k] = Supersede(s[k - 1], facts[k])
                /\ SupersedeAll(p, facts) = s[Len(facts)]
<1> DEFINE Rec(c, m) == c = [k \in 0..m |-> IF k = 0 THEN p
                                         ELSE Supersede(c[k - 1], facts[k])]
           N == {m \in Nat : \E c : Rec(c, m)}
<1>1. 0 \in N
  <2>1. Rec([k \in 0..0 |-> p], 0)
    OBVIOUS
  <2>2. QED
    BY <2>1
<1>2. ASSUME NEW m \in Nat, m \in N PROVE m + 1 \in N
  <2>1. PICK c : Rec(c, m)
    BY <1>2
  <2> DEFINE Step(x, k) == Supersede(x, facts[k])
             d == [k \in 0..(m + 1) |-> IF k = m + 1 THEN Step(c[m], m + 1) ELSE c[k]]
  <2>2. ASSUME NEW k \in 0..(m + 1)
        PROVE  d[k] = IF k = 0 THEN p ELSE Step(d[k - 1], k)
    <3>1. CASE k = m + 1
      <4>1. k # 0 /\ k - 1 = m /\ m \in 0..(m + 1) /\ m # m + 1
        BY <3>1
      <4>2. d[k - 1] = c[m] /\ d[k] = Step(c[m], m + 1)
        BY <3>1, <4>1
      <4>3. QED
        BY <3>1, <4>1, <4>2
    <3>2. CASE k = 0
      <4>1. c[0] = p /\ d[0] = c[0]
        BY <2>1
      <4>2. QED
        BY <3>2, <4>1
    <3>3. CASE k # m + 1 /\ k # 0
      <4>1. k \in 0..m /\ k - 1 \in 0..(m + 1) /\ k - 1 # m + 1
        BY <3>3
      <4>2. d[k] = c[k] /\ d[k - 1] = c[k - 1]
        BY <3>3, <4>1
      <4> HIDE DEF d
      <4>3. c[k] = Step(c[k - 1], k)
        BY <2>1, <3>3, <4>1
      <4>4. QED
        BY <3>3, <4>2, <4>3
    <3>4. QED
      BY <3>1, <3>2, <3>3
  <2>3. d = [k \in 0..(m + 1) |-> d[k]]
    OBVIOUS
  <2> HIDE DEF d
  <2>4. Rec(d, m + 1)
    BY <2>2, <2>3
  <2>5. m + 1 \in Nat
    OBVIOUS
  <2> HIDE DEF Rec
  <2>6. QED
    BY <2>4, <2>5, Zenon
<1> HIDE DEF N
<1>3. Len(facts) \in N
  BY <1>1, <1>2, InductionOnNat
<1>4. \E c : Rec(c, Len(facts))
  BY <1>3 DEF N
<1>5. Rec(CHOOSE c : Rec(c, Len(facts)), Len(facts))
  BY <1>4, Zenon
<1>6. SupersedeAll(p, facts) = (CHOOSE c : Rec(c, Len(facts)))[Len(facts)]
  BY Zenon DEF SupersedeAll
<1> HIDE DEF Rec
<1>7. PICK c : Rec(c, Len(facts)) /\ SupersedeAll(p, facts) = c[Len(facts)]
  BY <1>5, <1>6, Zenon
<1>8. c = [k \in 0..Len(facts) |-> IF k = 0 THEN p ELSE Supersede(c[k - 1], facts[k])]
  BY <1>7 DEF Rec
<1>9. c[0] = p /\ \A k \in 1..Len(facts) : c[k] = Supersede(c[k - 1], facts[k])
  <2>1. \A k \in 1..Len(facts) : k \in 0..Len(facts) /\ k # 0
    OBVIOUS
  <2>2. QED
    BY <1>8, <2>1
<1>10. QED
  BY <1>7, <1>9

\* The nodes are inserted one after the other.
LEMMA NodesRecursion ==
  ASSUME NEW nodes, NEW known_at, Len(nodes) \in Nat
  PROVE  \E s : /\ s[0] = EmptyProjection
                /\ \A k \in 1..Len(nodes) : s[k] = InsertNode(s[k - 1], Revision(nodes, known_at, k))
                /\ NodesReplayed(nodes, known_at) = s[Len(nodes)]
<1> DEFINE Rec(c, m) == c = [k \in 0..m |-> IF k = 0 THEN EmptyProjection
                                         ELSE InsertNode(c[k - 1], Revision(nodes, known_at, k))]
           N == {m \in Nat : \E c : Rec(c, m)}
<1>1. 0 \in N
  <2>1. Rec([k \in 0..0 |-> EmptyProjection], 0)
    OBVIOUS
  <2>2. QED
    BY <2>1
<1>2. ASSUME NEW m \in Nat, m \in N PROVE m + 1 \in N
  <2>1. PICK c : Rec(c, m)
    BY <1>2
  <2> DEFINE Step(x, k) == InsertNode(x, Revision(nodes, known_at, k))
             d == [k \in 0..(m + 1) |-> IF k = m + 1 THEN Step(c[m], m + 1) ELSE c[k]]
  <2>2. ASSUME NEW k \in 0..(m + 1)
        PROVE  d[k] = IF k = 0 THEN EmptyProjection ELSE Step(d[k - 1], k)
    <3>1. CASE k = m + 1
      <4>1. k # 0 /\ k - 1 = m /\ m \in 0..(m + 1) /\ m # m + 1
        BY <3>1
      <4>2. d[k - 1] = c[m] /\ d[k] = Step(c[m], m + 1)
        BY <3>1, <4>1
      <4>3. QED
        BY <3>1, <4>1, <4>2
    <3>2. CASE k = 0
      <4>1. c[0] = EmptyProjection /\ d[0] = c[0]
        BY <2>1
      <4>2. QED
        BY <3>2, <4>1
    <3>3. CASE k # m + 1 /\ k # 0
      <4>1. k \in 0..m /\ k - 1 \in 0..(m + 1) /\ k - 1 # m + 1
        BY <3>3
      <4>2. d[k] = c[k] /\ d[k - 1] = c[k - 1]
        BY <3>3, <4>1
      <4> HIDE DEF d
      <4>3. c[k] = Step(c[k - 1], k)
        BY <2>1, <3>3, <4>1
      <4>4. QED
        BY <3>3, <4>2, <4>3
    <3>4. QED
      BY <3>1, <3>2, <3>3
  <2>3. d = [k \in 0..(m + 1) |-> d[k]]
    OBVIOUS
  <2> HIDE DEF d
  <2>4. Rec(d, m + 1)
    BY <2>2, <2>3
  <2>5. m + 1 \in Nat
    OBVIOUS
  <2> HIDE DEF Rec
  <2>6. QED
    BY <2>4, <2>5, Zenon
<1> HIDE DEF N
<1>3. Len(nodes) \in N
  BY <1>1, <1>2, InductionOnNat
<1>4. \E c : Rec(c, Len(nodes))
  BY <1>3 DEF N
<1>5. Rec(CHOOSE c : Rec(c, Len(nodes)), Len(nodes))
  BY <1>4, Zenon
<1>6. NodesReplayed(nodes, known_at) = (CHOOSE c : Rec(c, Len(nodes)))[Len(nodes)]
  BY Zenon DEF NodesReplayed, Revision
<1> HIDE DEF Rec
<1>7. PICK c : Rec(c, Len(nodes)) /\ NodesReplayed(nodes, known_at) = c[Len(nodes)]
  BY <1>5, <1>6, Zenon
<1>8. c = [k \in 0..Len(nodes) |-> IF k = 0 THEN EmptyProjection ELSE InsertNode(c[k - 1], Revision(nodes, known_at, k))]
  BY <1>7 DEF Rec
<1>9. c[0] = EmptyProjection /\ \A k \in 1..Len(nodes) : c[k] = InsertNode(c[k - 1], Revision(nodes, known_at, k))
  <2>1. \A k \in 1..Len(nodes) : k \in 0..Len(nodes) /\ k # 0
    OBVIOUS
  <2>2. QED
    BY <1>8, <2>1
<1>10. QED
  BY <1>7, <1>9

\* The facts are inserted one after the other.
LEMMA FactsRecursion ==
  ASSUME NEW facts, Len(facts) \in Nat
  PROVE  \E s : /\ s[0] = NodesReplayed(call.nodes, call.known_at)
                /\ \A k \in 1..Len(facts) : s[k] = Put(s[k - 1], facts[k])
                /\ FactsReplayed(facts) = s[Len(facts)]
<1> DEFINE Rec(c, m) == c = [k \in 0..m |-> IF k = 0 THEN NodesReplayed(call.nodes, call.known_at)
                                         ELSE Put(c[k - 1], facts[k])]
           N == {m \in Nat : \E c : Rec(c, m)}
<1>1. 0 \in N
  <2>1. Rec([k \in 0..0 |-> NodesReplayed(call.nodes, call.known_at)], 0)
    OBVIOUS
  <2>2. QED
    BY <2>1
<1>2. ASSUME NEW m \in Nat, m \in N PROVE m + 1 \in N
  <2>1. PICK c : Rec(c, m)
    BY <1>2
  <2> DEFINE Step(x, k) == Put(x, facts[k])
             d == [k \in 0..(m + 1) |-> IF k = m + 1 THEN Step(c[m], m + 1) ELSE c[k]]
  <2>2. ASSUME NEW k \in 0..(m + 1)
        PROVE  d[k] = IF k = 0 THEN NodesReplayed(call.nodes, call.known_at) ELSE Step(d[k - 1], k)
    <3>1. CASE k = m + 1
      <4>1. k # 0 /\ k - 1 = m /\ m \in 0..(m + 1) /\ m # m + 1
        BY <3>1
      <4>2. d[k - 1] = c[m] /\ d[k] = Step(c[m], m + 1)
        BY <3>1, <4>1
      <4>3. QED
        BY <3>1, <4>1, <4>2
    <3>2. CASE k = 0
      <4>1. c[0] = NodesReplayed(call.nodes, call.known_at) /\ d[0] = c[0]
        BY <2>1
      <4>2. QED
        BY <3>2, <4>1
    <3>3. CASE k # m + 1 /\ k # 0
      <4>1. k \in 0..m /\ k - 1 \in 0..(m + 1) /\ k - 1 # m + 1
        BY <3>3
      <4>2. d[k] = c[k] /\ d[k - 1] = c[k - 1]
        BY <3>3, <4>1
      <4> HIDE DEF d
      <4>3. c[k] = Step(c[k - 1], k)
        BY <2>1, <3>3, <4>1
      <4>4. QED
        BY <3>3, <4>2, <4>3
    <3>4. QED
      BY <3>1, <3>2, <3>3
  <2>3. d = [k \in 0..(m + 1) |-> d[k]]
    OBVIOUS
  <2> HIDE DEF d
  <2>4. Rec(d, m + 1)
    BY <2>2, <2>3
  <2>5. m + 1 \in Nat
    OBVIOUS
  <2> HIDE DEF Rec
  <2>6. QED
    BY <2>4, <2>5, Zenon
<1> HIDE DEF N
<1>3. Len(facts) \in N
  BY <1>1, <1>2, InductionOnNat
<1>4. \E c : Rec(c, Len(facts))
  BY <1>3 DEF N
<1>5. Rec(CHOOSE c : Rec(c, Len(facts)), Len(facts))
  BY <1>4, Zenon
<1>6. FactsReplayed(facts) = (CHOOSE c : Rec(c, Len(facts)))[Len(facts)]
  BY Zenon DEF FactsReplayed
<1> HIDE DEF Rec
<1>7. PICK c : Rec(c, Len(facts)) /\ FactsReplayed(facts) = c[Len(facts)]
  BY <1>5, <1>6, Zenon
<1>8. c = [k \in 0..Len(facts) |-> IF k = 0 THEN NodesReplayed(call.nodes, call.known_at) ELSE Put(c[k - 1], facts[k])]
  BY <1>7 DEF Rec
<1>9. c[0] = NodesReplayed(call.nodes, call.known_at) /\ \A k \in 1..Len(facts) : c[k] = Put(c[k - 1], facts[k])
  <2>1. \A k \in 1..Len(facts) : k \in 0..Len(facts) /\ k # 0
    OBVIOUS
  <2>2. QED
    BY <1>8, <2>1
<1>10. QED
  BY <1>7, <1>9

-----------------------------------------------------------------------------
\* The supersessions.

\* The supersessions of the first k facts have been applied, and only those.
Linking(q, p, facts, k) ==
  /\ q \in Projection
  /\ q = [p EXCEPT !.supersessions = q.supersessions]
  /\ \A j \in 1..k : facts[j].supersedes # None =>
       /\ p.fact_lookup[facts[j].supersedes] # None
       /\ q.supersessions[facts[j].supersedes] = By(facts[j])
  /\ \A prior \in FactIds : q.supersessions[prior] # None =>
       \E j \in 1..k : facts[j].supersedes = prior /\ q.supersessions[prior] = By(facts[j])

\* One more fact replaces the one it names, which is there and which no fact
\* has replaced.
LEMMA LinkOneMore ==
  ASSUME NEW p \in Projection, NEW facts \in Seq(Fact), NEW k \in Nat, k + 1 \in 1..Len(facts),
         NEW q, Linking(q, p, facts, k), NEW r, r = Supersede(q, facts[k + 1]), r # None
  PROVE  Linking(r, p, facts, k + 1)
<1>1. PICK f : f = facts[k + 1]
  OBVIOUS
<1>2. f \in Fact
  BY <1>1, ElementOfSeq
<1>3. f.supersedes \in FactIds \cup {None} /\ By(f) \in Supersession /\ By(f) # None
  BY <1>2, ByIsSupersession
<1>4. q \in Projection /\ q # None /\ q = [p EXCEPT !.supersessions = q.supersessions]
  BY ProjectionAssumption DEF Linking
<1>5. /\ q.supersessions \in [FactIds -> Supersession \cup {None}]
      /\ q.fact_lookup = p.fact_lookup
  <2>1. q.supersessions \in [FactIds -> Supersession \cup {None}]
    BY <1>4, ProjectionFields
  <2>2. q.fact_lookup = p.fact_lookup
    BY <1>4 DEF Projection
  <2>3. QED
    BY <2>1, <2>2
<1>6. \A j \in 1..(k + 1) : j \in 1..k \/ j = k + 1
  OBVIOUS
<1>7. \A j \in 1..k : j \in 1..(k + 1)
  OBVIOUS
<1>8. k + 1 \in 1..(k + 1)
  OBVIOUS
<1>9. CASE f.supersedes = None
  <2>1. r = q
    BY <1>1, <1>4, <1>9 DEF Supersede
  <2>2. QED
    BY <1>1, <1>6, <1>7, <1>9, <2>1 DEF Linking
<1>10. CASE f.supersedes # None
  <2>1. PICK x : x = f.supersedes
    OBVIOUS
  <2>2. x \in FactIds /\ x # None
    BY <1>3, <1>10, <2>1
  <2>3. /\ p.fact_lookup[x] # None /\ q.supersessions[x] = None
        /\ r = ApplySupersession(q, f)
    BY <1>1, <1>4, <1>5, <1>10, <2>1 DEF Supersede
  <2>4. PICK by : by = [q.supersessions EXCEPT ![x] = By(f)]
    OBVIOUS
  <2>5. by \in [FactIds -> Supersession \cup {None}] /\ by[x] = By(f)
    BY <1>3, <1>5, <2>2, <2>4
  <2>6. \A y \in FactIds : y # x => by[y] = q.supersessions[y]
    BY <1>5, <2>4
  <2>7. r = [q EXCEPT !.supersessions = by]
    BY <1>4, <1>10, <2>1, <2>3, <2>4 DEF ApplySupersession, Projection, By
  <2>8. r \in Projection /\ r.supersessions = by /\ r = [p EXCEPT !.supersessions = by]
    BY <1>4, <2>5, <2>7 DEF Projection
  <2>9. ASSUME NEW j \in 1..(k + 1), facts[j].supersedes # None
        PROVE  /\ p.fact_lookup[facts[j].supersedes] # None
               /\ by[facts[j].supersedes] = By(facts[j])
    <3>1. CASE j = k + 1
      BY <1>1, <2>1, <2>3, <2>5, <3>1
    <3>2. CASE j \in 1..k
      <4>1. /\ p.fact_lookup[facts[j].supersedes] # None
            /\ q.supersessions[facts[j].supersedes] = By(facts[j])
        BY <2>9, <3>2 DEF Linking
      <4>2. j \in 1..Len(facts)
        BY <3>2, LenProperties
      <4>3. facts[j] \in Fact
        BY <4>2, ElementOfSeq
      <4>4. facts[j].supersedes \in FactIds /\ By(facts[j]) # None
        BY <2>9, <4>3, ByIsSupersession
      <4>5. facts[j].supersedes # x
        BY <2>3, <4>1, <4>4
      <4>6. QED
        BY <2>6, <4>1, <4>4, <4>5
    <3>3. QED
      BY <1>6, <3>1, <3>2
  <2>10. ASSUME NEW prior \in FactIds, by[prior] # None
         PROVE  \E j \in 1..(k + 1) : facts[j].supersedes = prior /\ by[prior] = By(facts[j])
    <3>1. CASE prior = x
      BY <1>1, <1>8, <2>1, <2>5, <3>1
    <3>2. CASE prior # x
      <4>1. by[prior] = q.supersessions[prior]
        BY <2>6, <3>2
      <4>2. PICK j \in 1..k : facts[j].supersedes = prior /\ q.supersessions[prior] = By(facts[j])
        BY <2>10, <4>1 DEF Linking
      <4>3. QED
        BY <1>7, <4>1, <4>2
    <3>3. QED
      BY <3>1, <3>2
  <2>11. QED
    BY <2>8, <2>9, <2>10 DEF Linking
<1>11. QED
  BY <1>9, <1>10

\* When no supersession fails, all of them have been applied.
LEMMA LinkAll ==
  ASSUME NEW p \in Projection, p.supersessions = [f \in FactIds |-> None],
         NEW facts \in Seq(Fact), SupersedeAll(p, facts) # None
  PROVE  Linking(SupersedeAll(p, facts), p, facts, Len(facts))
<1>1. Len(facts) \in Nat
  BY LenProperties
<1>2. PICK s : /\ s[0] = p
               /\ \A k \in 1..Len(facts) : s[k] = Supersede(s[k - 1], facts[k])
               /\ SupersedeAll(p, facts) = s[Len(facts)]
  BY <1>1, SupersedeRecursion
<1> DEFINE N == {k \in Nat : s[k] # None => Linking(s[k], p, facts, k)}
<1>3. 0 \in N
  <2>1. p = [p EXCEPT !.supersessions = p.supersessions]
    BY DEF Projection
  <2>2. \A prior \in FactIds : p.supersessions[prior] = None
    OBVIOUS
  <2>3. \A j \in 1..0 : FALSE
    OBVIOUS
  <2>4. Linking(p, p, facts, 0)
    BY <2>1, <2>2, <2>3 DEF Linking
  <2>5. QED
    BY <1>2, <2>4
<1>4. ASSUME NEW k \in 0..(Len(facts) - 1), k \in N PROVE k + 1 \in N
  <2>1. k \in Nat /\ k + 1 \in Nat /\ k + 1 \in 1..Len(facts) /\ (k + 1) - 1 = k
    BY <1>1
  <2>2. s[k + 1] = Supersede(s[k], facts[k + 1])
    BY <1>2, <2>1
  <2>3. ASSUME s[k + 1] # None PROVE Linking(s[k + 1], p, facts, k + 1)
    <3>1. s[k] # None
      BY <2>2, <2>3 DEF Supersede
    <3>2. Linking(s[k], p, facts, k)
      BY <1>4, <3>1
    <3>3. QED
      BY <2>1, <2>2, <2>3, <3>2, LinkOneMore
  <2>4. QED
    BY <2>1, <2>3
<1> HIDE DEF N
<1>5. Len(facts) \in N
  <2>1. Len(facts) \in 0..Len(facts)
    BY <1>1
  <2>2. QED
    BY <1>1, <1>3, <1>4, <2>1, InductionUpTo
<1>6. QED
  BY <1>2, <1>5 DEF N

-----------------------------------------------------------------------------
\* What is built.

IdsOf(facts) == [k \in DOMAIN facts |-> facts[k].id]

FoundAt(facts) == [f \in FactIds |-> FactAt(facts, f)]

\* Facts whose identifiers are distinct are found where they are.
LEMMA FactsOnce ==
  ASSUME NEW facts \in Seq(Fact), Distinct(IdsOf(facts))
  PROVE  /\ FoundAt(facts) \in [FactIds -> Nat \cup {None}]
         /\ FactsIndexed(facts, FoundAt(facts))
<1>1. PICK ids, lookup : ids = IdsOf(facts) /\ lookup = FoundAt(facts)
  OBVIOUS
<1>2. /\ Len(facts) \in Nat /\ DOMAIN facts = 1..Len(facts)
      /\ \A k \in 1..Len(facts) : facts[k] \in Fact /\ facts[k].id \in FactIds
  <2>1. /\ Len(facts) \in Nat /\ DOMAIN facts = 1..Len(facts)
        /\ \A k \in 1..Len(facts) : facts[k] \in Fact
    BY LenProperties, ElementOfSeq
  <2>2. QED
    BY <2>1, ByIsSupersession
<1>3. /\ ids \in [1..Len(facts) -> FactIds]
      /\ \A k \in 1..Len(facts) : ids[k] = facts[k].id
  BY <1>1, <1>2 DEF IdsOf
<1>4. ids \in Seq(FactIds) /\ Len(ids) = Len(facts) /\ DOMAIN ids = 1..Len(facts)
  BY <1>2, <1>3, FunctionIsSeq
<1>5. ASSUME NEW id \in FactIds PROVE lookup[id] = PlaceOf(ids, id)
  <2>1. {k \in DOMAIN facts : facts[k].id = id} = {k \in DOMAIN ids : ids[k] = id}
    BY <1>2, <1>3, <1>4
  <2>2. FactAt(facts, id) = PlaceOf(ids, id)
    BY <2>1 DEF FactAt, PlaceOf
  <2>3. QED
    BY <1>1, <2>2 DEF FoundAt
<1>6. ASSUME NEW id \in FactIds
      PROVE  /\ lookup[id] \in Nat \cup {None}
             /\ \A k \in 1..Len(ids) : ids[k] = id => lookup[id] = k - 1
             /\ lookup[id] # None => lookup[id] + 1 \in 1..Len(ids) /\ ids[lookup[id] + 1] = id
  <2>1. Distinct(ids)
    BY <1>1
  <2>2. QED
    BY <1>4, <1>5, <2>1, PlaceFound
<1>7. lookup \in [FactIds -> Nat \cup {None}]
  BY <1>1, <1>6 DEF FoundAt
<1>8. FactsIndexed(facts, lookup)
  BY <1>2, <1>3, <1>4, <1>6 DEF FactsIndexed
<1>9. QED
  BY <1>1, <1>7, <1>8

\* The projection of a call that succeeds, field by field.
AsBuilt(args, by) ==
  LET lookup == [e \in Entities |-> PlaceOf(args.nodes, e)]
      offsets == Offsets(Len(args.nodes), EndsOf(lookup, args.facts))
  IN  [nodes |-> Histories(args.nodes, args.known_at), facts |-> args.facts,
       node_lookup |-> lookup, fact_lookup |-> FoundAt(args.facts),
       incident_offsets |-> offsets,
       incident_facts |-> Incidents(offsets, EndsOf(lookup, args.facts)),
       incident_delta |-> [n \in NodeIndex |-> <<>>],
       supersessions |-> by, retractions |-> [f \in FactIds |-> None],
       last_global_position |-> args.position]

\* What was checked on the way to it.
Checked(args, by) ==
  /\ Distinct(args.nodes)
  /\ Distinct(IdsOf(args.facts))
  /\ FactsGrounded(args.facts, [e \in Entities |-> PlaceOf(args.nodes, e)])
  /\ by \in [FactIds -> Supersession \cup {None}]
  /\ Replaced(args.facts, by)

\* The projection after the supersessions of a call; None if one failed.
LinkedFacts(args) ==
  SupersedeAll([InsertNodes(args.nodes, args.known_at) EXCEPT !.fact_lookup = FoundAt(args.facts)],
               args.facts)

\* All that try_from_parts asks of its arguments.
Buildable(args) ==
  /\ Distinct(args.nodes)
  /\ args.facts \in Seq(Preparable(InsertNodes(args.nodes, args.known_at), args.known_at))
  /\ Distinct(IdsOf(args.facts))
  /\ LinkedFacts(args) # None

\* A call that succeeds was acceptable, and an acceptable call builds this.
LEMMA BuiltFields ==
  ASSUME NEW args \in Arguments
  PROVE  /\ Built(args) # None => Buildable(args)
         /\ Buildable(args) => /\ Checked(args, LinkedFacts(args).supersessions)
                                /\ Built(args) = AsBuilt(args, LinkedFacts(args).supersessions)
<1>1. PICK nodes, facts, at : nodes = args.nodes /\ facts = args.facts /\ at = args.known_at
  OBVIOUS
<1>2. nodes \in Seq(Entities) /\ facts \in Seq(Fact) /\ at \in Nat
  BY <1>1 DEF Arguments, Time
<1>3. PICK p : p = InsertNodes(nodes, at)
  OBVIOUS
<1>4. PICK looked, linked : /\ looked = [p EXCEPT !.fact_lookup = FoundAt(facts)]
                            /\ linked = SupersedeAll(looked, facts)
  OBVIOUS
<1>5. linked = LinkedFacts(args)
  BY <1>1, <1>3, <1>4 DEF LinkedFacts
<1>6. ASSUME p # None PROVE Distinct(nodes) /\ NodesIn(p, nodes, at)
  BY <1>2, <1>3, <1>6, InsertNodesFields
<1>7. PICK lookup : lookup = [e \in Entities |-> PlaceOf(nodes, e)]
  OBVIOUS
<1>8. PICK ends, offsets : ends = EndsOf(lookup, facts) /\ offsets = Offsets(Len(nodes), ends)
  OBVIOUS
<1>9. ASSUME p # None
      PROVE  /\ p \in Projection /\ p.node_lookup = lookup /\ p.nodes = Histories(nodes, at)
             /\ p = [EmptyProjection EXCEPT !.nodes = Histories(nodes, at), !.node_lookup = lookup]
             /\ Len(p.nodes) = Len(nodes)
  <2>1. NodesIn(p, nodes, at) /\ Distinct(nodes)
    BY <1>6, <1>9
  <2>2. /\ p \in Projection /\ p.node_lookup = lookup /\ p.nodes = Histories(nodes, at)
        /\ p = [EmptyProjection EXCEPT !.nodes = Histories(nodes, at), !.node_lookup = lookup]
    BY <1>7, <2>1 DEF NodesIn
  <2>3. Len(Histories(nodes, at)) = Len(nodes)
    BY <1>2, <2>1, NodesOnce
  <2>4. QED
    BY <2>2, <2>3
<1>10. ASSUME p # None, facts \in Seq(Preparable(p, at))
       PROVE  Built(args)
                = IF ~Distinct(IdsOf(facts)) \/ linked = None THEN None
                  ELSE [linked EXCEPT !.facts = facts, !.incident_offsets = offsets,
                                      !.incident_facts = Incidents(offsets, ends),
                                      !.last_global_position = args.position]
  <2>1. Built(args) = Assemble(p, facts, ends, args.position)
    BY <1>1, <1>3, <1>8, <1>9, <1>10 DEF Built
  <2>2. Offsets(Len(p.nodes), ends) = offsets
    BY <1>8, <1>9, <1>10
  <2>3. QED
    BY <1>4, <2>1, <2>2, Zenon DEF Assemble, IdsOf, FoundAt
<1>11. ASSUME Built(args) # None PROVE Buildable(args)
  <2>1. p # None /\ facts \in Seq(Preparable(p, at))
    BY <1>1, <1>3, <1>11 DEF Built
  <2>2. Distinct(IdsOf(facts)) /\ linked # None
    BY <1>10, <1>11, <2>1
  <2>3. QED
    BY <1>1, <1>3, <1>5, <1>6, <2>1, <2>2 DEF Buildable
<1>12. SUFFICES ASSUME Buildable(args)
                PROVE  /\ Checked(args, linked.supersessions)
                       /\ Built(args) = AsBuilt(args, linked.supersessions)
  BY <1>5, <1>11
<1>13. /\ p # None /\ facts \in Seq(Preparable(p, at)) /\ Distinct(nodes)
       /\ Distinct(IdsOf(facts)) /\ linked # None
  BY <1>1, <1>2, <1>3, <1>5, <1>12, InsertNodesFields DEF Buildable
<1>14. Built(args) = [linked EXCEPT !.facts = facts, !.incident_offsets = offsets,
                                    !.incident_facts = Incidents(offsets, ends),
                                    !.last_global_position = args.position]
  BY <1>10, <1>13
<1>15. FoundAt(facts) \in [FactIds -> Nat \cup {None}] /\ FactsIndexed(facts, FoundAt(facts))
  BY <1>2, <1>13, FactsOnce
<1>16. looked \in Projection /\ looked.fact_lookup = FoundAt(facts)
  BY <1>4, <1>9, <1>13, <1>15 DEF Projection
<1>17. looked.supersessions = [f \in FactIds |-> None]
  BY <1>4, <1>9, <1>13 DEF EmptyProjection
<1>18. Linking(linked, looked, facts, Len(facts))
  BY <1>2, <1>4, <1>13, <1>16, <1>17, LinkAll
<1>19. PICK by : by = linked.supersessions
  OBVIOUS
<1>20. by \in [FactIds -> Supersession \cup {None}] /\ linked = [looked EXCEPT !.supersessions = by]
  BY <1>18, <1>19, ProjectionFields DEF Linking
<1>21. Built(args) = AsBuilt(args, by)
  <2>1. linked = [EmptyProjection EXCEPT !.nodes = Histories(nodes, at), !.node_lookup = lookup,
                                         !.fact_lookup = FoundAt(facts), !.supersessions = by]
    BY <1>4, <1>9, <1>13, <1>20 DEF EmptyProjection
  <2>2. Built(args)
          = [nodes |-> Histories(nodes, at), facts |-> facts,
             node_lookup |-> lookup, fact_lookup |-> FoundAt(facts),
             incident_offsets |-> offsets, incident_facts |-> Incidents(offsets, ends),
             incident_delta |-> [n \in NodeIndex |-> <<>>],
             supersessions |-> by, retractions |-> [f \in FactIds |-> None],
             last_global_position |-> args.position]
    BY <1>14, <2>1 DEF EmptyProjection
  <2>3. QED
    BY <1>1, <1>7, <1>8, <2>2, Zenon DEF AsBuilt
<1>22. FactsGrounded(facts, lookup)
  <2>1. ASSUME NEW k \in 1..Len(facts)
        PROVE  /\ ValidFact(facts[k])
               /\ lookup[facts[k].source] # None /\ lookup[facts[k].target] # None
    <3>1. facts[k] \in Preparable(p, at)
      BY <1>13, ElementOfSeq
    <3>2. QED
      BY <1>9, <1>13, <3>1 DEF Preparable, CanPrepareFact
  <2>2. QED
    BY <2>1 DEF FactsGrounded
<1>23. Replaced(facts, by)
  <2>1. \A k \in 1..Len(facts) : facts[k].supersedes # None =>
          by[facts[k].supersedes] = By(facts[k])
    BY <1>18, <1>19 DEF Linking
  <2>2. ASSUME NEW prior \in FactIds, by[prior] # None
        PROVE  /\ \E k \in 1..Len(facts) : facts[k].id = prior
               /\ \E k \in 1..Len(facts) :
                    facts[k].supersedes = prior /\ by[prior] = By(facts[k])
    <3>1. PICK k \in 1..Len(facts) : facts[k].supersedes = prior /\ by[prior] = By(facts[k])
      BY <1>18, <1>19, <2>2 DEF Linking
    <3>2. prior # None
      BY ProjectionAssumption
    <3>3. FoundAt(facts)[prior] # None
      BY <1>16, <1>18, <3>1, <3>2 DEF Linking
    <3>4. \E j \in 1..Len(facts) : facts[j].id = prior
      BY <1>15, <3>3 DEF FactsIndexed
    <3>5. QED
      BY <3>1, <3>4
  <2>3. QED
    BY <2>1, <2>2 DEF Replaced
<1>24. Checked(args, by)
  BY <1>1, <1>7, <1>13, <1>20, <1>22, <1>23 DEF Checked
<1>25. QED
  BY <1>19, <1>21, <1>24

\* What was checked makes the projection sound, but for the incident index.
\* With an empty index in its place it can be encoded and decoded.
WithoutIncidents(q, nodes) ==
  [q EXCEPT !.incident_offsets = [n \in 1..(Len(nodes) + 1) |-> 0], !.incident_facts = <<>>]

\* The stand-in is sound and has the same content.
LEMMA BuiltStandIn ==
  ASSUME NEW args \in Arguments, NEW by, Checked(args, by),
         NEW q, q = AsBuilt(args, by), NEW stand, stand = WithoutIncidents(q, args.nodes)
  PROVE  Sound(stand) /\ Canonical(stand) = Canonical(q)
<1>1. PICK nodes, facts, at : nodes = args.nodes /\ facts = args.facts /\ at = args.known_at
  OBVIOUS
<1>2. nodes \in Seq(Entities) /\ facts \in Seq(Fact) /\ at \in Nat /\ args.position \in Nat \cup {None}
  BY <1>1 DEF Arguments, Time
<1>3. PICK lookup, h : lookup = [e \in Entities |-> PlaceOf(nodes, e)] /\ h = Histories(nodes, at)
  OBVIOUS
<1>4. /\ Distinct(nodes) /\ Distinct(IdsOf(facts)) /\ FactsGrounded(facts, lookup)
      /\ by \in [FactIds -> Supersession \cup {None}] /\ Replaced(facts, by)
  BY <1>1, <1>3 DEF Checked
<1>5. /\ h \in Seq(Seq(NodeRevision)) /\ Len(h) = Len(nodes)
      /\ lookup \in [Entities -> Nat \cup {None}] /\ NodesIndexed(h, lookup)
  BY <1>2, <1>3, <1>4, NodesOnce
<1>6. FoundAt(facts) \in [FactIds -> Nat \cup {None}] /\ FactsIndexed(facts, FoundAt(facts))
  BY <1>2, <1>4, FactsOnce
<1>7. PICK zeros, none :
        zeros = [n \in 1..(Len(nodes) + 1) |-> 0] /\ none = [f \in FactIds |-> None]
  OBVIOUS
<1>8. zeros \in Seq(Nat) /\ Len(zeros) = Len(nodes) + 1
  <2>1. Len(nodes) + 1 \in Nat
    BY <1>2, LenProperties
  <2>2. zeros \in [1..(Len(nodes) + 1) -> Nat]
    BY <1>7
  <2>3. QED
    BY <2>1, <2>2, FunctionIsSeq
<1>9. stand = [nodes |-> h, facts |-> facts, node_lookup |-> lookup, fact_lookup |-> FoundAt(facts),
               incident_offsets |-> zeros, incident_facts |-> <<>>,
               incident_delta |-> [n \in NodeIndex |-> <<>>],
               supersessions |-> by, retractions |-> none,
               last_global_position |-> args.position]
  BY <1>1, <1>3, <1>7 DEF AsBuilt, WithoutIncidents
<1>10. /\ none \in [FactIds -> Retraction \cup {None}] /\ <<>> \in Seq(Nat)
       /\ [n \in NodeIndex |-> <<>>] \in [NodeIndex -> Seq(Nat)]
  BY <1>7
<1>11. stand \in Projection
  BY <1>2, <1>4, <1>5, <1>6, <1>8, <1>9, <1>10 DEF Projection
<1>12. /\ stand.nodes = h /\ stand.facts = facts /\ stand.node_lookup = lookup
       /\ stand.fact_lookup = FoundAt(facts) /\ stand.incident_offsets = zeros
       /\ stand.supersessions = by /\ stand.retractions = none
  BY <1>9
<1>13. Retracted(facts, none)
  BY <1>7 DEF Retracted
<1>14. Sound(stand)
  BY <1>4, <1>5, <1>6, <1>8, <1>11, <1>12, <1>13 DEF Sound
<1>15. Canonical(stand) = Canonical(q)
  BY DEF Canonical, WithoutIncidents, AsBuilt
<1>16. QED
  BY <1>14, <1>15

\* Decoding the snapshot of a built projection gives back the same record, and
\* it is sound.
LEMMA BuiltReloads ==
  ASSUME NEW args \in Arguments, Buildable(args), NEW q, q = Built(args)
  PROVE  q # None /\ RebuildIndexes(Canonical(q)) = q /\ Sound(q)
<1>1. PICK by : Checked(args, by) /\ q = AsBuilt(args, by)
  BY BuiltFields
<1>2. PICK nodes, facts, at : nodes = args.nodes /\ facts = args.facts /\ at = args.known_at
  OBVIOUS
<1>3. nodes \in Seq(Entities) /\ facts \in Seq(Fact) /\ at \in Nat
  BY <1>2 DEF Arguments, Time
<1>4. PICK lookup, h : lookup = [e \in Entities |-> PlaceOf(nodes, e)] /\ h = Histories(nodes, at)
  OBVIOUS
<1>5. PICK ends, offsets : ends = EndsOf(lookup, facts) /\ offsets = Offsets(Len(nodes), ends)
  OBVIOUS
<1>6. q = [nodes |-> h, facts |-> facts, node_lookup |-> lookup, fact_lookup |-> FoundAt(facts),
           incident_offsets |-> offsets, incident_facts |-> Incidents(offsets, ends),
           incident_delta |-> [n \in NodeIndex |-> <<>>],
           supersessions |-> by, retractions |-> [f \in FactIds |-> None],
           last_global_position |-> args.position]
  BY <1>1, <1>2, <1>4, <1>5, Zenon DEF AsBuilt
<1>7. PICK stand : stand = WithoutIncidents(q, nodes)
  OBVIOUS
<1>8. Sound(stand) /\ Canonical(stand) = Canonical(q)
  BY <1>1, <1>2, <1>7, BuiltStandIn
<1>9. PICK data : data = Canonical(q)
  OBVIOUS
<1>10. /\ data.nodes = h /\ data.facts = facts /\ data.supersessions = by
       /\ data.retractions = [f \in FactIds |-> None]
       /\ data.last_global_position = args.position
  BY <1>6, <1>9 DEF Canonical
<1>11. Consistent(data)
  BY <1>8, <1>9, SoundConsistent
<1>12. Distinct(nodes)
  BY <1>1, <1>2 DEF Checked
<1>13. /\ h \in Seq(Seq(NodeRevision)) /\ Len(h) = Len(nodes)
       /\ lookup \in [Entities -> Nat \cup {None}] /\ NodesIndexed(h, lookup)
  BY <1>3, <1>4, <1>12, NodesOnce
<1>14. \A e \in Entities : NodeAt(h, e) = lookup[e]
  BY <1>13, NodeAtExact
<1>15. [e \in Entities |-> NodeAt(h, e)] = lookup
  BY <1>13, <1>14
<1>16. Endpoints(data) = ends
  <2>1. ASSUME NEW k \in DOMAIN facts
        PROVE  {NodeAt(h, facts[k].source), NodeAt(h, facts[k].target)}
                 = {lookup[facts[k].source], lookup[facts[k].target]}
    <3>1. facts[k] \in Fact
      BY <1>3, LenProperties, ElementOfSeq
    <3>2. QED
      BY <1>14, <3>1, ByIsSupersession
  <2>2. Endpoints(data)
          = [k \in DOMAIN facts |-> {NodeAt(h, facts[k].source), NodeAt(h, facts[k].target)}]
    BY <1>10 DEF Endpoints
  <2>3. QED
    BY <1>5, <2>1, <2>2 DEF EndsOf
<1>17. Offsets(Len(data.nodes), Endpoints(data)) = offsets
  BY <1>5, <1>10, <1>13, <1>16
<1>18. RebuildIndexes(data)
         = [nodes |-> h, facts |-> facts,
            node_lookup |-> [e \in Entities |-> NodeAt(h, e)],
            fact_lookup |-> [f \in FactIds |-> FactAt(facts, f)],
            incident_offsets |-> offsets, incident_facts |-> Incidents(offsets, ends),
            incident_delta |-> [n \in NodeIndex |-> <<>>],
            supersessions |-> by, retractions |-> [f \in FactIds |-> None],
            last_global_position |-> args.position]
  BY <1>10, <1>11, <1>16, <1>17 DEF RebuildIndexes
<1>19. RebuildIndexes(data) = q
  BY <1>6, <1>15, <1>18 DEF FoundAt
<1>20. Sound(RebuildIndexes(Canonical(stand))) /\ RebuildIndexes(Canonical(stand)) # None
  BY <1>8, RebuildSound
<1>21. QED
  BY <1>8, <1>9, <1>19, <1>20

\* However the threads are scheduled, the bulk projection is the one that
\* decoding its snapshot gives: its lookups and its incident index are those of
\* rebuild_indexes, and no check of decoding rejects it.
THEOREM BulkReloads == PartsSpec => []BulkEqualsReload
<1>1. PartsInv => BulkEqualsReload
  <2> SUFFICES ASSUME PartsInv, Accepted
               PROVE  RebuildIndexes(Canonical(projection)) = projection
    BY DEF BulkEqualsReload
  <2>1. call \in Arguments /\ projection = Built(call) /\ projection # None
    BY DEF PartsInv, Accepted
  <2>2. QED
    BY <2>1, BuiltFields, BuiltReloads
<1>2. QED
  BY <1>1, PartsInvariant, PTL

\* A view of a bulk projection never shows a fact beside its replacement,
\* although a prior may come after it in the list.
THEOREM BulkReplacementHides == PartsSpec => []BulkReplacementHidesPrior
<1>1. PartsInv => BulkReplacementHidesPrior
  <2> SUFFICES ASSUME PartsInv, Accepted,
                      NEW valid_at \in 0..(call.known_at + 1), NEW known_at \in 0..(call.known_at + 1),
                      NEW f \in ToSet(ViewRef(projection, valid_at, known_at).facts),
                      NEW g \in ToSet(ViewRef(projection, valid_at, known_at).facts)
               PROVE  g.supersedes # f.id
    BY DEF BulkReplacementHidesPrior
  <2>1. call \in Arguments /\ projection = Built(call) /\ projection # None
    BY DEF PartsInv, Accepted
  <2>2. Sound(projection)
    BY <2>1, BuiltFields, BuiltReloads
  <2>3. valid_at \in Nat /\ known_at \in Nat
    <3>1. call.known_at + 1 \in Nat
      BY <2>1 DEF Arguments, Time
    <3>2. QED
      BY <3>1
  <2>4. QED
    BY <2>2, <2>3, NeverBesideReplacement
<1>2. QED
  BY <1>1, PartsInvariant, PTL

-----------------------------------------------------------------------------
\* What replay accepts can be built.

\* Facts that are all found under their identifiers have distinct ones.
LEMMA IndexedOnce ==
  ASSUME NEW facts \in Seq(Fact), NEW lookup, FactsIndexed(facts, lookup)
  PROVE  /\ Distinct(IdsOf(facts))
         /\ \A j, k \in 1..Len(facts) : facts[j].id = facts[k].id => j = k
<1>1. Len(facts) \in Nat /\ DOMAIN facts = 1..Len(facts)
  BY LenProperties
<1>2. ASSUME NEW j \in 1..Len(facts), NEW k \in 1..Len(facts), facts[j].id = facts[k].id
      PROVE  j = k
  <2>1. lookup[facts[j].id] = j - 1 /\ lookup[facts[k].id] = k - 1
    BY DEF FactsIndexed
  <2>2. QED
    BY <1>1, <1>2, <2>1
<1>3. PICK ids : ids = IdsOf(facts)
  OBVIOUS
<1>4. DOMAIN ids = 1..Len(facts) /\ \A k \in 1..Len(facts) : ids[k] = facts[k].id
  BY <1>1, <1>3 DEF IdsOf
<1>5. ASSUME NEW k \in DOMAIN ids, NEW j \in 1..(k - 1) PROVE ids[j] # ids[k]
  <2>1. k \in 1..Len(facts) /\ j \in 1..Len(facts) /\ j # k
    BY <1>1, <1>4
  <2>2. QED
    BY <1>2, <1>4, <2>1
<1>6. Distinct(ids)
  BY <1>5 DEF Distinct
<1>7. QED
  BY <1>2, <1>3, <1>6

\* When each of the facts is the only one to replace what it names, and that is
\* a fact too, no supersession fails.
LEMMA SupersedeSucceeds ==
  ASSUME NEW p \in Projection, p.supersessions = [f \in FactIds |-> None],
         NEW facts \in Seq(Fact), FactsIndexed(facts, p.fact_lookup),
         NEW by, Replaced(facts, by)
  PROVE  SupersedeAll(p, facts) # None
<1>1. Len(facts) \in Nat
  BY LenProperties
<1>2. PICK s : /\ s[0] = p
               /\ \A k \in 1..Len(facts) : s[k] = Supersede(s[k - 1], facts[k])
               /\ SupersedeAll(p, facts) = s[Len(facts)]
  BY <1>1, SupersedeRecursion
<1> DEFINE N == {k \in Nat : s[k] # None /\ Linking(s[k], p, facts, k)}
<1>3. 0 \in N
  <2>1. p = [p EXCEPT !.supersessions = p.supersessions]
    BY DEF Projection
  <2>2. \A prior \in FactIds : p.supersessions[prior] = None
    OBVIOUS
  <2>3. \A j \in 1..0 : FALSE
    OBVIOUS
  <2>4. Linking(p, p, facts, 0)
    BY <2>1, <2>2, <2>3 DEF Linking
  <2>5. QED
    BY <1>2, <2>4, ProjectionAssumption
<1>4. ASSUME NEW k \in 0..(Len(facts) - 1), k \in N PROVE k + 1 \in N
  <2>1. k \in Nat /\ k + 1 \in Nat /\ k + 1 \in 1..Len(facts) /\ (k + 1) - 1 = k
    BY <1>1
  <2>2. PICK q, f : q = s[k] /\ f = facts[k + 1]
    OBVIOUS
  <2>3. q # None /\ Linking(q, p, facts, k) /\ s[k + 1] = Supersede(q, f)
    BY <1>2, <1>4, <2>1, <2>2
  <2>4. q \in Projection /\ q.fact_lookup = p.fact_lookup
    <3>1. q \in Projection /\ q = [p EXCEPT !.supersessions = q.supersessions]
      BY <2>3 DEF Linking
    <3>2. QED
      BY <3>1 DEF Projection
  <2>5. f \in Fact
    BY <2>1, <2>2, ElementOfSeq
  <2>6. CASE f.supersedes = None
    <3>1. s[k + 1] = q
      BY <2>3, <2>6 DEF Supersede
    <3>2. QED
      BY <2>1, <2>2, <2>3, <3>1, LinkOneMore
  <2>7. CASE f.supersedes # None
    <3>1. PICK x : x = f.supersedes
      OBVIOUS
    <3>2. x \in FactIds /\ By(f) # None /\ By(f).replacement = f.id
      BY <2>5, <2>7, <3>1, ByIsSupersession DEF By
    <3>3. by[x] = By(f)
      BY <2>1, <2>2, <2>7, <3>1 DEF Replaced
    <3>4. PICK i \in 1..Len(facts) : facts[i].id = x
      BY <3>2, <3>3 DEF Replaced
    <3>5. p.fact_lookup[x] = i - 1 /\ i - 1 \in Nat
      BY <1>1, <3>4 DEF FactsIndexed
    <3>6. p.fact_lookup[x] # None
      BY <3>5, NoneAssumption
    <3>7. q.supersessions[x] = None
      <4> SUFFICES ASSUME q.supersessions[x] # None PROVE FALSE
        OBVIOUS
      <4>1. PICK j \in 1..k : facts[j].supersedes = x
        BY <2>3, <3>2 DEF Linking
      <4>2. j \in 1..Len(facts) /\ j # k + 1
        BY <2>1, <1>1
      <4>3. by[x] = By(facts[j])
        BY <2>7, <3>1, <4>1, <4>2 DEF Replaced
      <4>4. facts[j].id = f.id
        BY <3>2, <3>3, <4>3 DEF By
      <4>5. QED
        BY <2>1, <2>2, <4>2, <4>4, IndexedOnce
    <3>8. s[k + 1] = ApplySupersession(q, f)
      BY <2>3, <2>4, <2>7, <3>1, <3>6, <3>7 DEF Supersede
    <3>9. s[k + 1] # None
      <4>1. q.supersessions \in [FactIds -> Supersession \cup {None}]
        BY <2>4, ProjectionFields
      <4>2. By(f) \in Supersession
        BY <2>5, ByIsSupersession
      <4>3. PICK then : then = [q.supersessions EXCEPT ![x] = By(f)]
        OBVIOUS
      <4>4. then \in [FactIds -> Supersession \cup {None}]
        BY <4>1, <4>2, <4>3
      <4>5. s[k + 1] = [q EXCEPT !.supersessions = then]
        BY <2>4, <2>7, <3>1, <3>8, <4>3 DEF ApplySupersession, Projection, By
      <4>6. s[k + 1] \in Projection
        BY <2>4, <4>4, <4>5 DEF Projection
      <4>7. QED
        BY <4>6, ProjectionAssumption
    <3>10. QED
      BY <2>1, <2>2, <2>3, <3>9, LinkOneMore
  <2>8. QED
    BY <2>6, <2>7
<1> HIDE DEF N
<1>5. Len(facts) \in N
  <2>1. Len(facts) \in 0..Len(facts)
    BY <1>1
  <2>2. QED
    BY <1>1, <1>3, <1>4, <2>1, InductionUpTo
<1>6. QED
  BY <1>2, <1>5 DEF N

\* Supersessions are determined by the facts.
LEMMA ReplacedOnce ==
  ASSUME NEW facts,
         NEW a \in [FactIds -> Supersession \cup {None}], Replaced(facts, a),
         NEW b \in [FactIds -> Supersession \cup {None}], Replaced(facts, b)
  PROVE  a = b
<1>1. ASSUME NEW c, Replaced(facts, c), NEW d, Replaced(facts, d),
             NEW x \in FactIds, c[x] # None
      PROVE  d[x] = c[x]
  <2>1. PICK k \in 1..Len(facts) : facts[k].supersedes = x /\ c[x] = By(facts[k])
    BY <1>1 DEF Replaced
  <2>2. x # None
    BY ProjectionAssumption
  <2>3. d[x] = By(facts[k])
    BY <1>1, <2>1, <2>2 DEF Replaced
  <2>4. QED
    BY <2>1, <2>3
<1>2. ASSUME NEW x \in FactIds PROVE a[x] = b[x]
  BY <1>1
<1>3. QED
  BY <1>2

\* A sound projection of the nodes and the facts of a call, however it came to
\* be, is what the call builds.
LEMMA SoundIsBuilt ==
  ASSUME NEW args \in Arguments, Distinct(args.nodes),
         \A k \in DOMAIN args.facts : args.facts[k].recorded_at <= args.known_at,
         NEW q, Sound(q), q.nodes = Histories(args.nodes, args.known_at), q.facts = args.facts,
         q.retractions = [f \in FactIds |-> None]
  PROVE  /\ Built(args) # None
         /\ Canonical(Built(args)) = [Canonical(q) EXCEPT !.last_global_position = args.position]
<1>1. PICK nodes, facts, at : nodes = args.nodes /\ facts = args.facts /\ at = args.known_at
  OBVIOUS
<1>2. nodes \in Seq(Entities) /\ facts \in Seq(Fact) /\ at \in Nat
  BY <1>1 DEF Arguments, Time
<1>3. PICK p, lookup, h : /\ p = InsertNodes(nodes, at)
                          /\ lookup = [e \in Entities |-> PlaceOf(nodes, e)]
                          /\ h = Histories(nodes, at)
  OBVIOUS
<1>4. p # None /\ NodesIn(p, nodes, at)
  BY <1>1, <1>2, <1>3, InsertNodesFields
<1>5. /\ p \in Projection /\ p.node_lookup = lookup
      /\ p = [EmptyProjection EXCEPT !.nodes = p.nodes, !.node_lookup = p.node_lookup]
  BY <1>3, <1>4 DEF NodesIn
<1>6. /\ h \in Seq(Seq(NodeRevision)) /\ lookup \in [Entities -> Nat \cup {None}]
      /\ NodesIndexed(h, lookup)
  BY <1>1, <1>2, <1>3, NodesOnce
<1>7. /\ q \in Projection /\ q.nodes = h /\ q.facts = facts
      /\ NodesIndexed(h, q.node_lookup) /\ FactsIndexed(facts, q.fact_lookup)
      /\ FactsGrounded(facts, q.node_lookup) /\ Replaced(facts, q.supersessions)
  BY <1>1, <1>3 DEF Sound
<1>8. /\ q.node_lookup \in [Entities -> Nat \cup {None}]
      /\ q.supersessions \in [FactIds -> Supersession \cup {None}]
  BY <1>7, ProjectionFields
<1>9. q.node_lookup = lookup
  <2>1. ASSUME NEW e \in Entities PROVE q.node_lookup[e] = lookup[e]
    <3>1. NodeAt(h, e) = q.node_lookup[e]
      BY <1>6, <1>7, <1>8, NodeAtExact
    <3>2. NodeAt(h, e) = lookup[e]
      BY <1>6, NodeAtExact
    <3>3. QED
      BY <3>1, <3>2
  <2>2. QED
    BY <1>6, <1>8, <2>1
<1>10. Distinct(IdsOf(facts))
  BY <1>2, <1>7, IndexedOnce
<1>11. facts \in Seq(Preparable(p, at))
  <2>1. DOMAIN facts = 1..Len(facts) /\ Len(facts) \in Nat
    BY <1>2, LenProperties
  <2>2. ASSUME NEW k \in 1..Len(facts) PROVE facts[k] \in Preparable(p, at)
    <3>1. facts[k] \in Fact
      BY <1>2, ElementOfSeq
    <3>2. facts[k].recorded_at <= at
      BY <1>1, <2>1
    <3>3. /\ ValidFact(facts[k])
          /\ lookup[facts[k].source] # None /\ lookup[facts[k].target] # None
      BY <1>7, <1>9 DEF FactsGrounded
    <3>4. QED
      BY <1>5, <3>1, <3>2, <3>3 DEF Preparable, CanPrepareFact
  <2>3. facts \in [1..Len(facts) -> Preparable(p, at)]
    BY <1>2, <2>2, LenProperties
  <2>4. QED
    BY <2>1, <2>3, FunctionIsSeq
<1>12. PICK looked : looked = [p EXCEPT !.fact_lookup = FoundAt(facts)]
  OBVIOUS
<1>13. FoundAt(facts) \in [FactIds -> Nat \cup {None}] /\ FactsIndexed(facts, FoundAt(facts))
  BY <1>2, <1>10, FactsOnce
<1>14. looked \in Projection /\ looked.fact_lookup = FoundAt(facts)
  BY <1>5, <1>12, <1>13 DEF Projection
<1>15. looked.supersessions = [f \in FactIds |-> None]
  BY <1>5, <1>12 DEF EmptyProjection
<1>16. SupersedeAll(looked, facts) # None
  BY <1>2, <1>7, <1>13, <1>14, <1>15, SupersedeSucceeds
<1>17. LinkedFacts(args) # None
  BY <1>1, <1>3, <1>12, <1>16 DEF LinkedFacts
<1>18. Buildable(args)
  BY <1>1, <1>3, <1>10, <1>11, <1>17 DEF Buildable
<1>19. PICK by : Checked(args, by) /\ Built(args) = AsBuilt(args, by)
  BY <1>18, BuiltFields
<1>20. by = q.supersessions
  <2>1. by \in [FactIds -> Supersession \cup {None}] /\ Replaced(facts, by)
    BY <1>1, <1>19 DEF Checked
  <2>2. QED
    BY <1>7, <1>8, <2>1, ReplacedOnce
<1>21. Built(args) # None
  BY <1>18, BuiltReloads
<1>22. QED
  BY <1>19, <1>20, <1>21 DEF Canonical, AsBuilt

-----------------------------------------------------------------------------
\* The replay of a call.

\* After k of the nodes: their histories and nothing else.
NodesReached(q, nodes, known_at, k) ==
  /\ Sound(q)
  /\ Len(q.nodes) = k
  /\ \A i \in 1..k : q.nodes[i] = <<Revision(nodes, known_at, i)>>
  /\ q.facts = <<>>
  /\ q.retractions = [f \in FactIds |-> None]

\* A node that did not occur before is added at the end.
LEMMA NodeReached ==
  ASSUME NEW nodes \in Seq(Entities), Distinct(nodes), NEW known_at \in Nat,
         NEW k \in Nat, k + 1 \in 1..Len(nodes),
         NEW q, NodesReached(q, nodes, known_at, k)
  PROVE  NodesReached(InsertNode(q, Revision(nodes, known_at, k + 1)), nodes, known_at, k + 1)
<1>1. PICK r, new : r = Revision(nodes, known_at, k + 1) /\ new = InsertNode(q, r)
  OBVIOUS
<1>2. nodes[k + 1] \in Entities
  BY ElementOfSeq
<1>3. r \in NodeRevision /\ r.id = nodes[k + 1]
  <2>1. (k + 1) - 1 \in Nat
    OBVIOUS
  <2>2. QED
    BY <1>1, <1>2, <2>1 DEF Revision, NodeRevision, Time
<1>4. Sound(q) /\ Len(q.nodes) = k
  BY DEF NodesReached
<1>5. Sound(new) /\ NodeInserted(q, r, new)
  BY <1>1, <1>3, <1>4, InsertNodeSound, InsertNodeFields
<1>6. q.node_lookup[r.id] = None
  <2> SUFFICES ASSUME q.node_lookup[r.id] # None PROVE FALSE
    OBVIOUS
  <2>1. PICK i : i = q.node_lookup[r.id] + 1
    OBVIOUS
  <2>2. i \in 1..k /\ q.nodes[i][1].id = nodes[k + 1]
    BY <1>2, <1>3, <1>4, <2>1 DEF Sound, NodesIndexed
  <2>3. q.nodes[i] = <<Revision(nodes, known_at, i)>>
    BY <2>2 DEF NodesReached
  <2>4. nodes[i] = nodes[k + 1]
    BY <2>2, <2>3 DEF Revision
  <2>5. k + 1 \in DOMAIN nodes /\ i \in 1..((k + 1) - 1)
    BY <2>2, LenProperties
  <2>6. QED
    BY <2>4, <2>5 DEF Distinct
<1>7. new.nodes = Append(q.nodes, <<r>>) /\ new.facts = q.facts /\ new.retractions = q.retractions
  BY <1>5, <1>6 DEF NodeInserted
<1>8. q.nodes \in Seq(Seq(NodeRevision)) /\ <<r>> \in Seq(NodeRevision)
  BY <1>3, <1>4, ProjectionFields DEF Sound
<1>9. /\ Len(new.nodes) = k + 1 /\ new.nodes[k + 1] = <<r>>
      /\ \A i \in 1..k : new.nodes[i] = q.nodes[i]
  BY <1>4, <1>7, <1>8, AppendProperties
<1>10. ASSUME NEW i \in 1..(k + 1) PROVE new.nodes[i] = <<Revision(nodes, known_at, i)>>
  <2>1. CASE i = k + 1
    BY <1>1, <1>9, <2>1
  <2>2. CASE i # k + 1
    <3>1. i \in 1..k
      BY <2>2
    <3>2. QED
      BY <1>9, <3>1 DEF NodesReached
  <2>3. QED
    BY <2>1, <2>2
<1>11. NodesReached(new, nodes, known_at, k + 1)
  BY <1>5, <1>7, <1>9, <1>10 DEF NodesReached
<1>12. QED
  BY <1>1, <1>11

\* The nodes of a call, one event each.
LEMMA AllNodesReached ==
  ASSUME NEW nodes \in Seq(Entities), Distinct(nodes), NEW known_at \in Nat
  PROVE  NodesReached(NodesReplayed(nodes, known_at), nodes, known_at, Len(nodes))
<1>1. Len(nodes) \in Nat
  BY LenProperties
<1>2. PICK s : /\ s[0] = EmptyProjection
               /\ \A k \in 1..Len(nodes) : s[k] = InsertNode(s[k - 1], Revision(nodes, known_at, k))
               /\ NodesReplayed(nodes, known_at) = s[Len(nodes)]
  BY <1>1, NodesRecursion
<1> DEFINE N == {k \in Nat : NodesReached(s[k], nodes, known_at, k)}
<1>3. 0 \in N
  <2>1. /\ EmptyProjection.nodes = <<>> /\ EmptyProjection.facts = <<>>
        /\ EmptyProjection.retractions = [f \in FactIds |-> None]
    BY DEF EmptyProjection
  <2>2. Len(EmptyProjection.nodes) = 0
    BY <2>1
  <2>3. \A i \in 1..0 : FALSE
    OBVIOUS
  <2>4. NodesReached(EmptyProjection, nodes, known_at, 0)
    BY <2>1, <2>2, <2>3, EmptySound DEF NodesReached
  <2>5. QED
    BY <1>2, <2>4
<1>4. ASSUME NEW k \in 0..(Len(nodes) - 1), k \in N PROVE k + 1 \in N
  <2>1. k \in Nat /\ k + 1 \in Nat /\ k + 1 \in 1..Len(nodes) /\ (k + 1) - 1 = k
    BY <1>1
  <2>2. s[k + 1] = InsertNode(s[k], Revision(nodes, known_at, k + 1))
    BY <1>2, <2>1
  <2>3. NodesReached(s[k], nodes, known_at, k)
    BY <1>4
  <2>4. QED
    BY <2>1, <2>2, <2>3, NodeReached
<1> HIDE DEF N
<1>5. Len(nodes) \in N
  <2>1. Len(nodes) \in 0..Len(nodes)
    BY <1>1
  <2>2. QED
    BY <1>1, <1>3, <1>4, <2>1, InductionUpTo
<1>6. QED
  BY <1>2, <1>5 DEF N

\* After k of the facts: those facts beside the nodes.
FactsReached(q, n, facts, k) ==
  /\ Sound(q)
  /\ q.nodes = n.nodes /\ q.retractions = n.retractions
  /\ Len(q.facts) = k
  /\ \A i \in 1..k : q.facts[i] = facts[i]

\* Events that replay accepts build a sound projection of just the facts.
LEMMA AllFactsReached ==
  ASSUME NEW facts \in Seq(Fact), FactsReplayed(facts) # None,
         NEW n, n = NodesReplayed(call.nodes, call.known_at), Sound(n), n.facts = <<>>
  PROVE  FactsReached(FactsReplayed(facts), n, facts, Len(facts))
<1>1. Len(facts) \in Nat
  BY LenProperties
<1>2. PICK s : /\ s[0] = n
               /\ \A k \in 1..Len(facts) : s[k] = Put(s[k - 1], facts[k])
               /\ FactsReplayed(facts) = s[Len(facts)]
  BY <1>1, FactsRecursion
<1> DEFINE N == {k \in Nat : s[k] # None => FactsReached(s[k], n, facts, k)}
<1>3. 0 \in N
  <2>1. Len(n.facts) = 0
    OBVIOUS
  <2>2. \A i \in 1..0 : FALSE
    OBVIOUS
  <2>3. FactsReached(n, n, facts, 0)
    BY <2>1, <2>2 DEF FactsReached
  <2>4. QED
    BY <1>2, <2>3
<1>4. ASSUME NEW k \in 0..(Len(facts) - 1), k \in N PROVE k + 1 \in N
  <2>1. k \in Nat /\ k + 1 \in Nat /\ k + 1 \in 1..Len(facts) /\ (k + 1) - 1 = k
    BY <1>1
  <2>2. PICK q, f, new : q = s[k] /\ f = facts[k + 1] /\ new = s[k + 1]
    OBVIOUS
  <2>3. new = Put(q, f) /\ f \in Fact
    BY <1>2, <2>1, <2>2, ElementOfSeq
  <2>4. ASSUME new # None PROVE FactsReached(new, n, facts, k + 1)
    <3>1. q # None /\ CanInsertFact(q, f) /\ new = InsertFact(q, f)
      BY <2>3, <2>4 DEF Put
    <3>2. FactsReached(q, n, facts, k)
      BY <1>4, <2>2, <3>1
    <3>3. Sound(q) /\ Len(q.facts) = k
      BY <3>2 DEF FactsReached
    <3>4. Sound(new) /\ FactInserted(q, f, new)
      BY <2>3, <3>1, <3>3, InsertFactSound, InsertFactFields
    <3>5. /\ new.nodes = q.nodes /\ new.retractions = q.retractions
          /\ new.facts = Append(q.facts, f)
      BY <3>4 DEF FactInserted
    <3>6. q.facts \in Seq(Fact)
      BY <3>3, ProjectionFields DEF Sound
    <3>7. /\ Len(new.facts) = k + 1 /\ new.facts[k + 1] = f
          /\ \A i \in 1..k : new.facts[i] = q.facts[i]
      BY <2>3, <3>3, <3>5, <3>6, AppendProperties
    <3>8. \A i \in 1..(k + 1) : i \in 1..k \/ i = k + 1
      BY <2>1
    <3>9. QED
      BY <2>2, <3>2, <3>4, <3>5, <3>7, <3>8 DEF FactsReached
  <2>5. QED
    BY <2>1, <2>2, <2>4
<1> HIDE DEF N
<1>5. Len(facts) \in N
  <2>1. Len(facts) \in 0..Len(facts)
    BY <1>1
  <2>2. QED
    BY <1>1, <1>3, <1>4, <2>1, InductionUpTo
<1>6. QED
  BY <1>2, <1>5 DEF N

\* A replay of the nodes and the facts of a call leaves what the call builds.
LEMMA ReplayIsBuilt ==
  ASSUME call \in Arguments, Distinct(call.nodes),
         \A k \in DOMAIN call.facts : call.facts[k].recorded_at <= call.known_at,
         NEW q, q = FactsReplayed(call.facts), q # None
  PROVE  /\ Built(call) # None
         /\ Canonical(Built(call)) = [Canonical(q) EXCEPT !.last_global_position = call.position]
<1>1. PICK nodes, facts, at : nodes = call.nodes /\ facts = call.facts /\ at = call.known_at
  OBVIOUS
<1>2. nodes \in Seq(Entities) /\ facts \in Seq(Fact) /\ at \in Nat
  BY <1>1 DEF Arguments, Time
<1>3. PICK n : n = NodesReplayed(nodes, at)
  OBVIOUS
<1>4. NodesReached(n, nodes, at, Len(nodes))
  BY <1>1, <1>2, <1>3, AllNodesReached
<1>5. /\ Sound(n) /\ Len(n.nodes) = Len(nodes) /\ n.facts = <<>>
      /\ n.retractions = [f \in FactIds |-> None]
      /\ \A i \in 1..Len(nodes) : n.nodes[i] = <<Revision(nodes, at, i)>>
  BY <1>4 DEF NodesReached
<1>6. n.nodes = Histories(nodes, at)
  <2>1. PICK h : h = Histories(nodes, at)
    OBVIOUS
  <2>2. h \in Seq(Seq(NodeRevision)) /\ Len(h) = Len(nodes)
    BY <1>1, <1>2, <2>1, NodesOnce
  <2>3. \A i \in 1..Len(nodes) : h[i] = <<Revision(nodes, at, i)>>
    BY <2>1 DEF Histories
  <2>4. n.nodes \in Seq(Seq(NodeRevision))
    BY <1>5, ProjectionFields DEF Sound
  <2>5. Len(n.nodes) = Len(h) /\ \A i \in 1..Len(n.nodes) : n.nodes[i] = h[i]
    BY <1>5, <2>2, <2>3
  <2>6. n.nodes = h
    BY <2>2, <2>4, <2>5, SeqEqual
  <2>7. QED
    BY <2>1, <2>6
<1>7. FactsReached(q, n, facts, Len(facts))
  BY <1>1, <1>2, <1>3, <1>5, AllFactsReached
<1>8. Sound(q) /\ q.nodes = n.nodes /\ q.retractions = n.retractions
  BY <1>7 DEF FactsReached
<1>9. q.facts = facts
  <2>1. q.facts \in Seq(Fact)
    BY <1>8, ProjectionFields DEF Sound
  <2>2. Len(q.facts) = Len(facts) /\ \A i \in 1..Len(facts) : q.facts[i] = facts[i]
    BY <1>7 DEF FactsReached
  <2>3. QED
    BY <1>2, <2>1, <2>2, SeqEqual
<1>10. QED
  BY <1>1, <1>5, <1>6, <1>8, <1>9, SoundIsBuilt

\* What replay accepts by the time of the call the bulk construction accepts
\* too, and it records the same nodes, facts and supersessions, so a view cannot
\* tell which of the two built the projection.
THEOREM BulkFollowsReplay == PartsSpec => []BulkAgreesWithReplay
<1>1. PartsInv => BulkAgreesWithReplay
  <2> SUFFICES ASSUME PartsInv, pc = "done", Distinct(call.nodes),
                      \A k \in DOMAIN call.facts : call.facts[k].recorded_at <= call.known_at,
                      FactsReplayed(call.facts) # None
               PROVE  /\ projection # None
                      /\ Canonical(projection)
                           = [Canonical(FactsReplayed(call.facts)) EXCEPT !.last_global_position = call.position]
    BY DEF BulkAgreesWithReplay
  <2>1. call \in Arguments /\ projection = Built(call)
    BY DEF PartsInv
  <2>2. QED
    BY <2>1, ReplayIsBuilt
<1>2. QED
  BY <1>1, PartsInvariant, PTL

-----------------------------------------------------------------------------
(***************************************************************************)
(* IdIndex is a map for every hash function.  The inductive invariant says *)
(* where an identifier can be: in its fingerprint's entry or at one place  *)
(* of its fingerprint's bucket, never in both.                             *)
(***************************************************************************)

IndexTyped ==
  /\ entries \in [Hashes -> Pair \cup {None}]
  /\ collisions \in [Hashes -> Seq(Pair)]
  /\ latest \in [Ids -> Indexes \cup {None}]

\* The entry of a fingerprint holds a current pair.
EntryCurrent(h) ==
  entries[h] # None => hash[entries[h].id] = h /\ entries[h].index = latest[entries[h].id]

\* A bucket holds current pairs of identifiers other than the entry's, each
\* once, and is empty while the entry is.
BucketCurrent(h) ==
  \A k \in 1..Len(collisions[h]) :
    /\ entries[h] # None
    /\ hash[collisions[h][k].id] = h
    /\ collisions[h][k].id # entries[h].id
    /\ collisions[h][k].index = latest[collisions[h][k].id]
    /\ \A j \in 1..Len(collisions[h]) : j # k => collisions[h][j].id # collisions[h][k].id

\* An inserted identifier is somewhere.
Stored(i) ==
  latest[i] # None =>
    /\ entries[hash[i]] # None
    /\ entries[hash[i]].id = i \/ Places(collisions[hash[i]], i) # {}

IndexInv ==
  /\ IndexTyped
  /\ \A h \in Hashes : EntryCurrent(h) /\ BucketCurrent(h)
  /\ \A i \in Ids : Stored(i)

\* What is stored is never None.
LEMMA IndexNotNone == ASSUME NEW n \in Indexes PROVE n # None
<1>1. n \in Int
  BY HashAssumption
<1>2. QED
  BY <1>1, NoneAssumption

\* The fields of a pair.
LEMMA PairFields == ASSUME NEW p \in Pair PROVE p.id \in Ids /\ p.index \in Indexes
BY DEF Pair

\* The invariant determines what get returns.
LEMMA InvImpliesMap == IndexInv => IndexIsMap
<1>1. SUFFICES ASSUME IndexInv, NEW i \in Ids PROVE Get(i) = latest[i]
  BY DEF IndexIsMap
<1> DEFINE h == hash[i]
           found == Places(collisions[h], i)
<1>2. h \in Hashes
  BY HashAssumption
<1>3. EntryCurrent(h) /\ BucketCurrent(h) /\ Stored(i)
  BY <1>1, <1>2 DEF IndexInv
<1>4. CASE entries[h] # None /\ entries[h].id = i
  BY <1>3, <1>4 DEF Get, EntryCurrent
<1>5. CASE ~(entries[h] # None /\ entries[h].id = i) /\ found # {}
  <2> DEFINE k == CHOOSE k \in found : TRUE
  <2>1. k \in found
    BY <1>5
  <2> HIDE DEF k
  <2>2. k \in 1..Len(collisions[h]) /\ collisions[h][k].id = i
    BY <2>1 DEF Places
  <2>3. collisions[h][k].index = latest[i]
    BY <1>3, <2>2 DEF BucketCurrent
  <2>4. QED
    BY <1>5, <2>3 DEF Get, k
<1>6. CASE ~(entries[h] # None /\ entries[h].id = i) /\ found = {}
  BY <1>3, <1>6 DEF Get, Stored
<1>7. QED
  BY <1>4, <1>5, <1>6

\* A step of insert on identifier i that leaves every other fingerprint alone
\* preserves the invariant if it does so for the fingerprint of i.
LEMMA OtherFingerprints ==
  ASSUME IndexInv, NEW i \in Ids, NEW n \in Indexes,
         IndexTyped',
         latest' = [latest EXCEPT ![i] = n],
         \A g \in Hashes \ {hash[i]} : entries'[g] = entries[g] /\ collisions'[g] = collisions[g],
         EntryCurrent(hash[i])', BucketCurrent(hash[i])',
         \A j \in Ids : hash[j] = hash[i] => Stored(j)'
  PROVE  IndexInv'
<1>1. ASSUME NEW g \in Hashes \ {hash[i]} PROVE EntryCurrent(g)'
  <2> SUFFICES ASSUME entries[g] # None
               PROVE  hash[entries[g].id] = g /\ entries[g].index = latest'[entries[g].id]
    BY <1>1 DEF EntryCurrent
  <2>1. hash[entries[g].id] = g /\ entries[g].index = latest[entries[g].id]
    BY <1>1 DEF IndexInv, EntryCurrent
  <2>2. entries[g] \in Pair
    BY <1>1 DEF IndexInv, IndexTyped
  <2>3. entries[g].id \in Ids /\ entries[g].id # i
    BY <1>1, <2>1, <2>2, PairFields
  <2>4. QED
    BY <2>1, <2>3 DEF IndexInv, IndexTyped
<1>2. ASSUME NEW g \in Hashes \ {hash[i]} PROVE BucketCurrent(g)'
  <2> SUFFICES ASSUME NEW k \in 1..Len(collisions[g])
               PROVE  /\ entries[g] # None
                      /\ hash[collisions[g][k].id] = g
                      /\ collisions[g][k].id # entries[g].id
                      /\ collisions[g][k].index = latest'[collisions[g][k].id]
                      /\ \A j \in 1..Len(collisions[g]) :
                           j # k => collisions[g][j].id # collisions[g][k].id
    BY <1>2 DEF BucketCurrent
  <2>1. /\ entries[g] # None
        /\ hash[collisions[g][k].id] = g
        /\ collisions[g][k].id # entries[g].id
        /\ collisions[g][k].index = latest[collisions[g][k].id]
        /\ \A j \in 1..Len(collisions[g]) :
             j # k => collisions[g][j].id # collisions[g][k].id
    BY <1>2 DEF IndexInv, BucketCurrent
  <2>2. collisions[g] \in Seq(Pair)
    BY <1>2 DEF IndexInv, IndexTyped
  <2>3. collisions[g][k] \in Pair
    BY <2>2, ElementOfSeq
  <2>4. collisions[g][k].id \in Ids /\ collisions[g][k].id # i
    BY <1>2, <2>1, <2>3, PairFields
  <2>5. latest'[collisions[g][k].id] = latest[collisions[g][k].id]
    BY <2>4 DEF IndexInv, IndexTyped
  <2>6. QED
    BY <2>1, <2>5
<1>3. ASSUME NEW j \in Ids, hash[j] # hash[i] PROVE Stored(j)'
  <2>1. hash[j] \in Hashes \ {hash[i]} /\ j # i
    BY <1>3, HashAssumption
  <2>2. latest'[j] = latest[j]
    BY <2>1 DEF IndexInv, IndexTyped
  <2>3. Stored(j)
    BY DEF IndexInv
  <2>4. QED
    BY <2>1, <2>2, <2>3 DEF Stored, Places
<1>4. \A g \in Hashes : EntryCurrent(g)' /\ BucketCurrent(g)'
  BY <1>1, <1>2
<1>5. \A j \in Ids : Stored(j)'
  BY <1>3
<1>6. QED
  BY <1>4, <1>5 DEF IndexInv

\* insert preserves the invariant, in each of its four cases: the pair is the
\* entry, is in the bucket, joins the bucket, or becomes the entry.
LEMMA InsertPreservesInv ==
  ASSUME IndexInv, NEW i \in Ids, NEW n \in Indexes, Insert(i, n)
  PROVE  IndexInv'
<1> DEFINE h == hash[i]
           pair == [id |-> i, index |-> n]
           bucket == collisions[h]
           found == Places(bucket, i)
<1>1. /\ h \in Hashes /\ pair \in Pair /\ pair.id = i /\ pair.index = n
      /\ n # None /\ pair # None
  BY HashAssumption, IndexNotNone DEF Pair
<1>2. /\ IndexTyped /\ bucket \in Seq(Pair) /\ Len(bucket) \in Nat
      /\ entries[h] \in Pair \cup {None}
  BY <1>1, LenProperties DEF IndexInv, IndexTyped
<1>3. \A k \in 1..Len(bucket) : bucket[k] \in Pair /\ bucket[k].id \in Ids
  BY <1>2, ElementOfSeq, PairFields
<1>4. /\ EntryCurrent(h) /\ BucketCurrent(h)
      /\ \A j \in Ids : hash[j] = h => Stored(j)
  BY <1>1 DEF IndexInv
<1>5. /\ latest' = [latest EXCEPT ![i] = n]
      /\ latest' \in [Ids -> Indexes \cup {None}]
      /\ latest'[i] = n
      /\ \A j \in Ids : j # i => latest'[j] = latest[j]
  BY <1>2 DEF Insert, IndexTyped
<1>6. CASE entries[h] # None /\ entries[h].id = i
  <2>1. entries' = [entries EXCEPT ![h] = pair] /\ collisions' = collisions
    BY <1>6 DEF Insert
  <2>2. IndexTyped' /\ entries'[h] = pair
    BY <1>1, <1>2, <1>5, <2>1 DEF IndexTyped
  <2>3. \A g \in Hashes \ {h} : entries'[g] = entries[g] /\ collisions'[g] = collisions[g]
    BY <1>2, <2>1 DEF IndexTyped
  <2>4. EntryCurrent(h)'
    BY <1>1, <1>5, <2>2 DEF EntryCurrent
  <2>5. \A k \in 1..Len(bucket) : bucket[k].id # i
    BY <1>4, <1>6 DEF BucketCurrent
  <2>6. BucketCurrent(h)'
    BY <1>1, <1>3, <1>4, <1>5, <1>6, <2>1, <2>2, <2>5 DEF BucketCurrent
  <2>7. ASSUME NEW j \in Ids, hash[j] = h PROVE Stored(j)'
    BY <1>1, <1>4, <1>5, <1>6, <2>1, <2>2, <2>7 DEF Stored
  <2>8. QED
    BY <1>5, <2>2, <2>3, <2>4, <2>6, <2>7, OtherFingerprints
<1>7. CASE ~(entries[h] # None /\ entries[h].id = i) /\ found # {}
  <2> DEFINE k == CHOOSE k \in found : TRUE
  <2>1. k \in 1..Len(bucket) /\ bucket[k].id = i
    BY <1>7 DEF Places
  <2>2. entries' = entries /\ collisions' = [collisions EXCEPT ![h][k] = pair]
    BY <1>7 DEF Insert
  <2> HIDE DEF k
  <2> DEFINE after == collisions'[h]
  <2>3. /\ collisions' \in [Hashes -> Seq(Pair)]
        /\ Len(after) = Len(bucket)
        /\ after[k] = pair
        /\ \A j \in 1..Len(bucket) : j # k => after[j] = bucket[j]
        /\ \A g \in Hashes \ {h} : entries'[g] = entries[g] /\ collisions'[g] = collisions[g]
    BY <1>1, <1>2, <2>1, <2>2 DEF IndexTyped
  <2>4. IndexTyped'
    BY <1>2, <1>5, <2>2, <2>3 DEF IndexTyped
  <2>5. \A j \in 1..Len(bucket) : after[j].id = bucket[j].id
    BY <1>1, <2>1, <2>3
  <2>6. EntryCurrent(h)'
    BY <1>2, <1>4, <1>5, <1>7, <2>2, PairFields DEF EntryCurrent
  <2>7. BucketCurrent(h)'
    <3> SUFFICES ASSUME NEW l \in 1..Len(bucket)
                 PROVE  /\ entries[h] # None
                        /\ hash[after[l].id] = h
                        /\ after[l].id # entries[h].id
                        /\ after[l].index = latest'[after[l].id]
                        /\ \A j \in 1..Len(bucket) : j # l => after[j].id # after[l].id
      BY <2>2, <2>3 DEF BucketCurrent
    <3>1. /\ entries[h] # None
          /\ hash[after[l].id] = h
          /\ after[l].id # entries[h].id
          /\ \A j \in 1..Len(bucket) : j # l => after[j].id # after[l].id
      BY <1>4, <2>5 DEF BucketCurrent
    <3>2. CASE l = k
      BY <1>1, <1>5, <2>3, <3>1, <3>2
    <3>3. CASE l # k
      <4>1. bucket[l].id \in Ids /\ bucket[l].id # i /\ bucket[l].index = latest[bucket[l].id]
        BY <1>3, <1>4, <2>1, <3>3 DEF BucketCurrent
      <4>2. after[l].index = latest'[after[l].id]
        BY <1>5, <2>3, <3>3, <4>1
      <4>3. QED
        BY <3>1, <4>2
    <3>4. QED
      BY <3>2, <3>3
  <2>8. ASSUME NEW j \in Ids, hash[j] = h PROVE Stored(j)'
    <3>1. entries[h] # None
      BY <1>4, <2>1 DEF BucketCurrent
    <3>2. CASE j = i
      BY <1>1, <2>1, <2>2, <2>3, <2>8, <3>1, <3>2 DEF Stored, Places
    <3>3. CASE j # i
      BY <1>4, <1>5, <2>2, <2>3, <2>5, <2>8, <3>1, <3>3 DEF Stored, Places
    <3>4. QED
      BY <3>2, <3>3
  <2>9. QED
    BY <1>5, <2>3, <2>4, <2>6, <2>7, <2>8, OtherFingerprints
<1>8. CASE ~(entries[h] # None /\ entries[h].id = i) /\ found = {} /\ entries[h] # None
  <2> DEFINE after == Append(bucket, pair)
  <2>1. entries' = entries /\ collisions' = [collisions EXCEPT ![h] = after]
    BY <1>8 DEF Insert
  <2>2. /\ after \in Seq(Pair)
        /\ Len(after) = Len(bucket) + 1
        /\ after[Len(bucket) + 1] = pair
        /\ \A j \in 1..Len(bucket) : after[j] = bucket[j]
    BY <1>1, <1>2, AppendProperties
  <2> HIDE DEF after
  <2>3. /\ IndexTyped' /\ collisions'[h] = after
        /\ \A g \in Hashes \ {h} : entries'[g] = entries[g] /\ collisions'[g] = collisions[g]
    BY <1>1, <1>2, <1>5, <2>1, <2>2 DEF IndexTyped
  <2>4. \A k \in 1..Len(bucket) : bucket[k].id # i
    BY <1>8 DEF Places
  <2>5. entries[h].id \in Ids /\ entries[h].id # i
    BY <1>2, <1>8, PairFields
  <2>6. EntryCurrent(h)'
    BY <1>4, <1>5, <1>8, <2>1, <2>5 DEF EntryCurrent
  <2>7. BucketCurrent(h)'
    <3> SUFFICES ASSUME NEW l \in 1..Len(after)
                 PROVE  /\ entries[h] # None
                        /\ hash[after[l].id] = h
                        /\ after[l].id # entries[h].id
                        /\ after[l].index = latest'[after[l].id]
                        /\ \A j \in 1..Len(after) : j # l => after[j].id # after[l].id
      BY <2>1, <2>3 DEF BucketCurrent
    <3>1. \A j \in 1..Len(after) : j \in 1..Len(bucket) \/ j = Len(bucket) + 1
      BY <1>2, <2>2
    <3>2. CASE l = Len(bucket) + 1
      <4>1. after[l] = pair
        BY <2>2, <3>2
      <4>2. \A j \in 1..Len(after) : j # l => after[j].id # i
        BY <2>2, <2>4, <3>1, <3>2
      <4>3. QED
        BY <1>1, <1>5, <1>8, <2>5, <4>1, <4>2
    <3>3. CASE l \in 1..Len(bucket)
      <4>1. /\ after[l] = bucket[l] /\ bucket[l].id \in Ids /\ bucket[l].id # i
            /\ latest'[bucket[l].id] = latest[bucket[l].id]
        BY <1>3, <1>5, <2>2, <2>4, <3>3
      <4>2. /\ hash[bucket[l].id] = h
            /\ bucket[l].id # entries[h].id
            /\ bucket[l].index = latest[bucket[l].id]
            /\ \A j \in 1..Len(bucket) : j # l => bucket[j].id # bucket[l].id
        BY <1>4, <3>3 DEF BucketCurrent
      <4>3. ASSUME NEW j \in 1..Len(after), j # l PROVE after[j].id # after[l].id
        <5>1. CASE j \in 1..Len(bucket)
          BY <2>2, <4>1, <4>2, <4>3, <5>1
        <5>2. CASE j = Len(bucket) + 1
          BY <1>1, <2>2, <4>1, <5>2
        <5>3. QED
          BY <3>1, <5>1, <5>2
      <4>4. QED
        BY <1>8, <4>1, <4>2, <4>3
    <3>4. QED
      BY <3>1, <3>2, <3>3
  <2>8. ASSUME NEW j \in Ids, hash[j] = h PROVE Stored(j)'
    <3>1. CASE j = i
      <4>1. Len(bucket) + 1 \in 1..Len(after) /\ after[Len(bucket) + 1].id = i
        BY <1>1, <1>2, <2>2
      <4>2. QED
        BY <1>8, <2>1, <2>3, <2>8, <3>1, <4>1 DEF Stored, Places
    <3>2. CASE j # i
      <4>1. \A k \in 1..Len(bucket) : k \in 1..Len(after) /\ after[k].id = bucket[k].id
        BY <1>2, <2>2
      <4>2. QED
        BY <1>4, <1>5, <1>8, <2>1, <2>3, <2>8, <3>2, <4>1 DEF Stored, Places
    <3>3. QED
      BY <3>1, <3>2
  <2>9. QED
    BY <1>5, <2>3, <2>6, <2>7, <2>8, OtherFingerprints
<1>9. CASE entries[h] = None /\ found = {}
  <2>1. entries' = [entries EXCEPT ![h] = pair] /\ collisions' = collisions
    BY <1>9 DEF Insert
  <2>2. /\ IndexTyped' /\ entries'[h] = pair
        /\ \A g \in Hashes \ {h} : entries'[g] = entries[g] /\ collisions'[g] = collisions[g]
    BY <1>1, <1>2, <1>5, <2>1 DEF IndexTyped
  <2>3. EntryCurrent(h)'
    BY <1>1, <1>5, <2>2 DEF EntryCurrent
  <2>4. BucketCurrent(h)'
    BY <1>4, <1>9, <2>1 DEF BucketCurrent
  <2>5. ASSUME NEW j \in Ids, hash[j] = h PROVE Stored(j)'
    <3>1. CASE j = i
      BY <1>1, <2>2, <2>5, <3>1 DEF Stored
    <3>2. CASE j # i
      BY <1>4, <1>5, <1>9, <2>5, <3>2 DEF Stored
    <3>3. QED
      BY <3>1, <3>2
  <2>6. QED
    BY <1>5, <2>2, <2>3, <2>4, <2>5, OtherFingerprints
<1>10. QED
  BY <1>6, <1>7, <1>8, <1>9

\* For every set of identifiers and every fingerprint function, collisions
\* included, the index answers as a map: what was inserted last, or nothing.
THEOREM IndexAlwaysMap == IndexSpec => []IndexIsMap
<1>1. IndexInit => IndexInv
  BY EmptySeq, HashAssumption DEF IndexInit, IndexInv, IndexTyped, EntryCurrent, BucketCurrent, Stored
<1>2. IndexInv /\ [IndexNext]_index_vars => IndexInv'
  <2> SUFFICES ASSUME IndexInv, [IndexNext]_index_vars PROVE IndexInv'
    OBVIOUS
  <2>1. CASE IndexNext
    BY <2>1, InsertPreservesInv DEF IndexNext
  <2>2. CASE UNCHANGED index_vars
    BY <2>2 DEF index_vars, IndexInv, IndexTyped, EntryCurrent, BucketCurrent, Stored, Places
  <2>3. QED
    BY <2>1, <2>2
<1>3. QED
  BY <1>1, <1>2, InvImpliesMap, PTL DEF IndexSpec

=============================================================================
