------------------------ MODULE FileEventStoreProofs ------------------------
(***************************************************************************)
(* Proofs about FileEventStore for every number of processes, every set of *)
(* options, every batch bound and every sequence of failures: what a       *)
(* journal contains, what a failed write, a truncation or a partial        *)
(* write-back leaves of it, and that it implements the durable log. The    *)
(* last part is about Recovery, a host over the store: what the host keeps *)
(* outside the journal stays backed by it.                                 *)
(***************************************************************************)
EXTENDS Recovery, InMemoryStoreProofs, TLAPS

-----------------------------------------------------------------------------
\* Batches that restore into a store.
Restorable(batches) == Restore(FlattenSeq(batches)) # None

\* Such batches are the events of a well-formed store, which restore returns.
LEMMA RestorableStore ==
  ASSUME NEW batches \in Seq(Seq(StoredEvent))
  PROVE  /\ Restorable(batches) =>
              /\ Restore(FlattenSeq(batches)) \in Store
              /\ WellFormed(Restore(FlattenSeq(batches)))
              /\ Restore(FlattenSeq(batches)).events = FlattenSeq(batches)
         /\ \A st \in Store : (WellFormed(st) /\ st.events = FlattenSeq(batches)) =>
              Restorable(batches) /\ Restore(FlattenSeq(batches)) = st
<1>1. FlattenSeq(batches) \in Seq(StoredEvent)
  BY FlattenType
<1>2. Restorable(batches) =>
        /\ Restore(FlattenSeq(batches)) \in Store
        /\ WellFormed(Restore(FlattenSeq(batches)))
        /\ Restore(FlattenSeq(batches)).events = FlattenSeq(batches)
  BY <1>1, RestoreSound DEF Restorable
<1>3. ASSUME NEW st \in Store, WellFormed(st), st.events = FlattenSeq(batches)
      PROVE  Restorable(batches) /\ Restore(FlattenSeq(batches)) = st
  <2>1. Restore(st.events) = st
    BY <1>3, RestoreIdentity
  <2>2. st # None
    BY StoreAssumption
  <2>3. QED
    BY <1>3, <2>1, <2>2 DEF Restorable
<1>4. QED
  BY <1>2, <1>3

\* Without the last batch the rest still restores.
LEMMA RestorableWithoutLast ==
  ASSUME NEW batches \in Seq(Seq(StoredEvent)), NEW b \in Seq(StoredEvent),
         Restorable(Append(batches, b))
  PROVE  Restorable(batches)
<1> DEFINE es == FlattenSeq(Append(batches, b))
           kept == FlattenSeq(batches)
<1>1. Append(batches, b) \in Seq(Seq(StoredEvent))
  BY AppendProperties
<1>2. /\ es \in Seq(StoredEvent) /\ kept \in Seq(StoredEvent)
      /\ es = kept \o b
  BY <1>1, FlattenType, FlattenAppend
<1>3. Restore(es) # None
  BY DEF Restorable
<1> HIDE DEF es, kept
<1>4. /\ Len(kept) \in Nat /\ Len(b) \in Nat /\ Len(es) = Len(kept) + Len(b)
      /\ Len(kept) \in 0..Len(es)
  BY <1>2, LenProperties, ConcatProperties
<1>5. PICK st : Restores(st, es, Len(kept))
  BY <1>2, <1>3, <1>4, RestoreSound
<1>6. SubSeq(es, 1, Len(kept)) = kept
  <2>1. \A k \in 1..Len(kept) : es[k] = kept[k]
    BY <1>2, <1>4, ConcatProperties
  <2>2. SubSeq(es, 1, Len(kept)) = [k \in 1..Len(kept) |-> es[k]]
    BY <1>2, <1>4
  <2>3. kept = [k \in 1..Len(kept) |-> kept[k]]
    BY <1>2, LenProperties
  <2>4. QED
    BY <2>1, <2>2, <2>3
<1>7. st \in Store /\ WellFormed(st) /\ st.events = kept
  BY <1>5, <1>6 DEF Restores
<1>8. QED
  BY <1>7, RestorableStore DEF kept

\* The first batches of restorable batches restore.
LEMMA RestorablePrefix ==
  ASSUME NEW batches \in Seq(Seq(StoredEvent)), Restorable(batches), NEW m \in 0..Len(batches)
  PROVE  Restorable(SubSeq(batches, 1, m))
<1> DEFINE L == Len(batches)
           Beginning(n) == SubSeq(batches, 1, n)
           N == {n \in Nat : Restorable(Beginning(L - n))}
<1>1. L \in Nat /\ \A k \in 1..L : batches[k] \in Seq(StoredEvent)
  BY LenProperties, ElementOfSeq
<1>2. 0 \in N
  <2>1. L - 0 = L /\ Beginning(L) = batches
    BY <1>1, LenProperties
  <2>2. QED
    BY <2>1
<1>3. ASSUME NEW n \in 0..(L - 1), n \in N PROVE n + 1 \in N
  <2> DEFINE k == L - (n + 1)
  <2>1. k \in 0..L /\ k + 1 \in 1..L /\ L - n = k + 1 /\ n + 1 \in Nat /\ k \in Nat
    BY <1>1
  <2> HIDE DEF k
  <2>2. /\ Beginning(k) \in Seq(Seq(StoredEvent)) /\ Len(Beginning(k)) = k
        /\ \A j \in 1..k : Beginning(k)[j] = batches[j]
    BY <1>1, <2>1
  <2>3. /\ Beginning(k + 1) \in Seq(Seq(StoredEvent)) /\ Len(Beginning(k + 1)) = k + 1
        /\ \A j \in 1..(k + 1) : Beginning(k + 1)[j] = batches[j]
    BY <1>1, <2>1
  <2>4. batches[k + 1] \in Seq(StoredEvent)
    BY <1>1, <2>1
  <2> HIDE DEF Front
  <2>5. Beginning(k + 1) = Append(Beginning(k), batches[k + 1])
    <3>1. /\ Append(Beginning(k), batches[k + 1]) \in Seq(Seq(StoredEvent))
          /\ Len(Append(Beginning(k), batches[k + 1])) = k + 1
          /\ \A j \in 1..k : Append(Beginning(k), batches[k + 1])[j] = batches[j]
          /\ Append(Beginning(k), batches[k + 1])[k + 1] = batches[k + 1]
      BY <2>2, <2>4, AppendProperties
    <3>2. \A j \in 1..(k + 1) : j \in 1..k \/ j = k + 1
      BY <2>1
    <3>3. \A j \in 1..(k + 1) : Append(Beginning(k), batches[k + 1])[j] = Beginning(k + 1)[j]
      BY <2>3, <3>1, <3>2
    <3>4. QED
      BY <2>3, <3>1, <3>3, SeqEqual
  <2>6. Restorable(Beginning(k + 1))
    BY <1>3, <2>1
  <2>7. Restorable(Beginning(k))
    BY <2>2, <2>4, <2>5, <2>6, RestorableWithoutLast
  <2>8. QED
    BY <2>1, <2>7 DEF k
<1>4. \A n \in 0..L : n \in N
  <2> HIDE DEF N, L
  <2>1. QED
    BY <1>1, <1>2, <1>3, InductionUpTo
<1>5. L - m \in 0..L /\ L - (L - m) = m
  BY <1>1
<1>6. Restorable(Beginning(L - (L - m)))
  BY <1>4, <1>5
<1>7. QED
  BY <1>5, <1>6

-----------------------------------------------------------------------------
\* The item at k of a readable journal: a header first, whole frames behind it.
FrameAt(f, k) == IF k = 1 THEN f[k] = Header ELSE f[k].kind = "batch"

\* The first n items of a journal are a header and whole frames.
Frames(f, n) == \A k \in 1..n : FrameAt(f, k)

\* The readable length of a journal under the largest limit.
Readable(f) == ReadableLen(f, MaxBatch)

\* The items of a journal.
LEMMA ItemFields ==
  ASSUME NEW f \in Seq(Item)
  PROVE  /\ Len(f) \in Nat
         /\ \A k \in 1..Len(f) : /\ f[k] \in Item
                                 /\ f[k].events \in Seq(StoredEvent)
                                 /\ f[k].size \in 0..MaxBatch
<1>1. Len(f) \in Nat /\ \A k \in 1..Len(f) : f[k] \in Item
  BY LenProperties, ElementOfSeq
<1>2. QED
  BY <1>1 DEF Item

\* The kinds of items are items.
LEMMA ItemKinds ==
  /\ MaxBatch \in Nat /\ MaxBatch >= 1
  /\ Header \in Item /\ Junk \in Item /\ Torn(0) \in Item
  /\ \A x \in Item : Torn(x.size) \in Item
  /\ \A b \in Seq(StoredEvent) : Len(b) <= MaxBatch => Batch(b) \in Item
  /\ Header.kind = "header" /\ Junk.kind = "junk"
  /\ \A n : Torn(n).kind = "torn" /\ Torn(n).size = n
  /\ \A b : Batch(b).kind = "batch" /\ Batch(b).events = b /\ Batch(b).size = Len(b)
<1>1. MaxBatch \in Nat /\ MaxBatch >= 1 /\ <<>> \in Seq(StoredEvent)
  BY FileAssumption, EmptySeq
<1>2. Header \in Item /\ Junk \in Item /\ Torn(0) \in Item
  BY <1>1 DEF Item, Header, Junk, Torn
<1>3. \A x \in Item : Torn(x.size) \in Item
  BY <1>1 DEF Item, Torn
<1>4. ASSUME NEW b \in Seq(StoredEvent), Len(b) <= MaxBatch PROVE Batch(b) \in Item
  <2>1. Len(b) \in 0..MaxBatch
    BY <1>1, <1>4, LenProperties
  <2>2. QED
    BY <2>1 DEF Item, Batch
<1>5. QED
  BY <1>1, <1>2, <1>3, <1>4 DEF Header, Junk, Torn, Batch

\* ReadableLen is the greatest length it speaks of.
LEMMA ReadableLenGreatest ==
  ASSUME NEW f \in Seq(Item), NEW max \in Nat
  PROVE  LET Ok(n) == \A k \in 1..n : IF k = 1 THEN f[k] = Header
                                      ELSE f[k].kind = "batch" /\ f[k].size <= max
         IN  /\ ReadableLen(f, max) \in 0..Len(f)
             /\ Ok(ReadableLen(f, max))
             /\ \A n \in 0..Len(f) : Ok(n) => n <= ReadableLen(f, max)
<1> DEFINE Ok(n) == \A k \in 1..n : IF k = 1 THEN f[k] = Header
                                    ELSE f[k].kind = "batch" /\ f[k].size <= max
           S == {n \in 0..Len(f) : Ok(n)}
<1>1. Len(f) \in Nat
  BY ItemFields
<1>2. S \subseteq Nat /\ 0 \in S /\ \A n \in S : n <= Len(f)
  BY <1>1
<1>3. ReadableLen(f, max) = Max(S)
  BY Zenon DEF ReadableLen
<1>4. \A n \in S : n \in 0..Len(f) /\ Ok(n)
  OBVIOUS
<1>5. \A n \in 0..Len(f) : Ok(n) => n \in S
  OBVIOUS
<1> HIDE DEF S, Ok
<1>6. \E m \in S : \A k \in S : k <= m
  BY <1>1, <1>2, GreatestElement
<1>7. \E m \in S : \A k \in S : m >= k
  BY <1>2, <1>6
<1>8. Max(S) \in S /\ \A k \in S : Max(S) >= k
  BY <1>7, Zenon DEF Max
<1> DEFINE r == ReadableLen(f, max)
<1>9. r \in S /\ \A k \in S : r >= k
  BY <1>3, <1>8, Zenon
<1> HIDE DEF r
<1>10. r \in 0..Len(f) /\ Ok(r)
  BY <1>4, <1>9
<1>11. \A n \in 0..Len(f) : Ok(n) => n <= r
  <2> SUFFICES ASSUME NEW n \in 0..Len(f), Ok(n) PROVE n <= r
    OBVIOUS
  <2>1. n \in S
    BY <1>5
  <2>2. QED
    BY <1>1, <1>9, <1>10, <2>1
<1>12. QED
  BY <1>10, <1>11 DEF Ok, r

\* Under the largest limit every whole frame is readable.
LEMMA ReadableFrames ==
  ASSUME NEW f \in Seq(Item)
  PROVE  /\ Readable(f) \in 0..Len(f)
         /\ Frames(f, Readable(f))
         /\ \A n \in 0..Len(f) : Frames(f, n) => n <= Readable(f)
<1> DEFINE Ok(n) == \A k \in 1..n : IF k = 1 THEN f[k] = Header
                                    ELSE f[k].kind = "batch" /\ f[k].size <= MaxBatch
           r == Readable(f)
<1>1. Len(f) \in Nat /\ MaxBatch \in Nat /\ \A k \in 1..Len(f) : f[k].size \in 0..MaxBatch
  BY ItemFields, ItemKinds
<1>2. /\ r \in 0..Len(f)
      /\ Ok(r)
      /\ \A n \in 0..Len(f) : Ok(n) => n <= r
  BY <1>1, ReadableLenGreatest DEF Readable
<1>3. ASSUME NEW n \in 0..Len(f) PROVE Ok(n) <=> Frames(f, n)
  <2>1. \A k \in 1..n : f[k].size <= MaxBatch
    BY <1>1
  <2>2. QED
    BY <2>1 DEF Frames, FrameAt
<1>4. QED
  BY <1>2, <1>3

\* Where the readable part of a journal ends.
LEMMA ReadableIs ==
  ASSUME NEW f \in Seq(Item), NEW n \in 0..Len(f), Frames(f, n),
         n = Len(f) \/ ~FrameAt(f, n + 1)
  PROVE  Readable(f) = n
<1>1. /\ Len(f) \in Nat /\ Readable(f) \in 0..Len(f) /\ Frames(f, Readable(f))
      /\ n <= Readable(f)
  BY ItemFields, ReadableFrames
<1>2. ASSUME n < Readable(f) PROVE FALSE
  <2>1. n + 1 \in 1..Readable(f) /\ n # Len(f)
    BY <1>1, <1>2
  <2>2. FrameAt(f, n + 1)
    BY <1>1, <2>1 DEF Frames
  <2>3. QED
    BY <2>1, <2>2
<1>3. QED
  BY <1>1, <1>2

\* The batches of the first n items of a journal.
LEMMA BatchesUpToItems ==
  ASSUME NEW f \in Seq(Item), NEW n \in 0..Len(f)
  PROVE  LET m == IF n = 0 THEN 0 ELSE n - 1
         IN  /\ BatchesUpTo(f, n) \in Seq(Seq(StoredEvent))
             /\ Len(BatchesUpTo(f, n)) = m
             /\ \A k \in 1..m : BatchesUpTo(f, n)[k] = f[k + 1].events
             /\ m \in Nat
<1> DEFINE m == IF n = 0 THEN 0 ELSE n - 1
           frames == SubSeq(f, 2, n)
<1>1. /\ Len(f) \in Nat /\ n \in Nat /\ n <= Len(f) /\ m \in Nat
      /\ \A k \in 1..Len(f) : f[k] \in Item /\ f[k].events \in Seq(StoredEvent)
  BY ItemFields
<1>2. /\ frames \in Seq(Item) /\ Len(frames) = m
      /\ \A k \in 1..m : frames[k] = f[k + 1]
  <2>1. \A i \in 2..n : f[i] \in Item
    BY <1>1
  <2>2. /\ frames \in Seq(Item)
        /\ Len(frames) = IF 2 <= n THEN n - 2 + 1 ELSE 0
        /\ \A i \in 1..(n - 2 + 1) : frames[i] = f[2 + i - 1]
    BY <1>1, <2>1, SubSeqProperties
  <2> HIDE DEF frames
  <2>3. Len(frames) = m
    BY <1>1, <2>2
  <2>4. ASSUME NEW k \in 1..m PROVE frames[k] = f[k + 1]
    <3>1. k \in 1..(n - 2 + 1) /\ 2 + k - 1 = k + 1
      BY <1>1
    <3>2. QED
      BY <2>2, <3>1
  <2>5. QED
    BY <2>2, <2>3, <2>4
<1> HIDE DEF m, frames
<1>3. BatchesUpTo(f, n) = [k \in 1..m |-> frames[k].events]
  <2>1. DOMAIN frames = 1..m
    BY <1>2, LenProperties
  <2>2. QED
    BY <2>1 DEF BatchesUpTo, frames
<1>4. \A k \in 1..m : k + 1 \in 1..Len(f)
  BY <1>1 DEF m
<1>5. \A k \in 1..m : /\ BatchesUpTo(f, n)[k] = f[k + 1].events
                      /\ f[k + 1].events \in Seq(StoredEvent)
  BY <1>1, <1>2, <1>3, <1>4
<1>6. BatchesUpTo(f, n) \in [1..m -> Seq(StoredEvent)]
  BY <1>3, <1>5
<1>7. BatchesUpTo(f, n) \in Seq(Seq(StoredEvent)) /\ Len(BatchesUpTo(f, n)) = m
  BY <1>1, <1>6, IsASeq
<1>8. QED
  BY <1>1, <1>5, <1>7 DEF m


-----------------------------------------------------------------------------
\* g is the first n items of f, or these and one item that is no frame: what
\* a truncation, an interrupted write or a partial write-back leaves of f.
CutTo(g, f, n) ==
  /\ n \in 0..Len(f)
  /\ Len(g) \in {n, n + 1}
  /\ \A k \in 1..n : g[k] = f[k]
  /\ Len(g) = n + 1 => g[n + 1].kind \in {"torn", "junk"}

\* The readable part of what is left is the readable part of f, as far as the
\* items that are left go.
LEMMA CutReadable ==
  ASSUME NEW f \in Seq(Item), NEW g \in Seq(Item), NEW n, CutTo(g, f, n)
  PROVE  Readable(g) = IF n <= Readable(f) THEN n ELSE Readable(f)
<1> DEFINE r == Readable(f)
           m == IF n <= r THEN n ELSE r
<1>1. /\ Len(f) \in Nat /\ Len(g) \in Nat /\ n \in 0..Len(f)
      /\ Len(g) = n \/ Len(g) = n + 1
      /\ \A k \in 1..n : g[k] = f[k]
      /\ Len(g) = n + 1 => g[n + 1].kind \in {"torn", "junk"}
  BY ItemFields DEF CutTo
<1>2. r \in 0..Len(f) /\ Frames(f, r) /\ \A i \in 0..Len(f) : Frames(f, i) => i <= r
  BY ReadableFrames
<1> HIDE DEF r
<1>3. m \in 0..Len(g) /\ m <= n /\ m <= r
  BY <1>1, <1>2
<1>4. Frames(g, m)
  <2> SUFFICES ASSUME NEW k \in 1..m PROVE FrameAt(g, k)
    BY DEF Frames
  <2>1. k \in 1..n /\ k \in 1..r
    BY <1>1, <1>2, <1>3
  <2>2. FrameAt(f, k) /\ g[k] = f[k]
    BY <1>1, <1>2, <2>1 DEF Frames
  <2>3. QED
    BY <2>2 DEF FrameAt
<1>5. m = Len(g) \/ ~FrameAt(g, m + 1)
  <2>1. CASE n <= r /\ Len(g) = n
    BY <2>1
  <2>2. CASE n <= r /\ Len(g) = n + 1
    <3>1. m = n /\ g[m + 1].kind \in {"torn", "junk"}
      BY <1>1, <2>2
    <3>2. g[m + 1].kind # "batch" /\ g[m + 1] # Header
      BY <3>1 DEF Header
    <3>3. QED
      BY <3>2 DEF FrameAt
  <2>3. CASE ~(n <= r)
    <3>1. m = r /\ r + 1 \in 1..n /\ r + 1 \in 0..Len(f) /\ ~(r + 1 <= r)
      BY <1>1, <1>2, <2>3
    <3>2. ~Frames(f, r + 1)
      BY <1>2, <3>1
    <3>3. PICK k \in 1..(r + 1) : ~FrameAt(f, k)
      BY <3>2 DEF Frames
    <3>4. k = r + 1
      BY <1>2, <3>3 DEF Frames
    <3>5. g[r + 1] = f[r + 1]
      BY <1>1, <3>1
    <3>6. ~FrameAt(g, r + 1)
      BY <3>3, <3>4, <3>5 DEF FrameAt
    <3>7. QED
      BY <3>1, <3>6
  <2>4. QED
    BY <1>1, <2>1, <2>2, <2>3
<1> HIDE DEF m
<1>6. Readable(g) = m
  BY <1>3, <1>4, <1>5, ReadableIs
<1>7. QED
  BY <1>6 DEF m, r

\* All batches of a journal.
LEMMA BatchesOfItems ==
  ASSUME NEW f \in Seq(Item)
  PROVE  LET m == IF Readable(f) = 0 THEN 0 ELSE Readable(f) - 1
         IN  /\ BatchesOf(f) \in Seq(Seq(StoredEvent))
             /\ Len(BatchesOf(f)) = m
             /\ \A k \in 1..m : BatchesOf(f)[k] = f[k + 1].events
             /\ m \in Nat
<1>1. Readable(f) \in 0..Len(f) /\ BatchesOf(f) = BatchesUpTo(f, Readable(f))
  BY ReadableFrames DEF BatchesOf, Readable
<1>2. QED
  BY <1>1, BatchesUpToItems

\* The batches of the first n readable items are the first batches.
LEMMA BatchesUpToPrefix ==
  ASSUME NEW f \in Seq(Item), NEW n \in 0..Readable(f)
  PROVE  LET m == IF n = 0 THEN 0 ELSE n - 1
         IN  /\ m \in 0..Len(BatchesOf(f))
             /\ BatchesUpTo(f, n) = SubSeq(BatchesOf(f), 1, m)
<1> DEFINE m == IF n = 0 THEN 0 ELSE n - 1
           all == BatchesOf(f)
           some == BatchesUpTo(f, n)
           M == IF Readable(f) = 0 THEN 0 ELSE Readable(f) - 1
<1>1. Len(f) \in Nat /\ Readable(f) \in 0..Len(f) /\ n \in 0..Len(f) /\ n <= Readable(f)
  BY ItemFields, ReadableFrames
<1>2. /\ all \in Seq(Seq(StoredEvent)) /\ Len(all) = M /\ M \in Nat
      /\ \A k \in 1..M : all[k] = f[k + 1].events
  BY BatchesOfItems
<1>3. /\ some \in Seq(Seq(StoredEvent)) /\ Len(some) = m /\ m \in Nat
      /\ \A k \in 1..m : some[k] = f[k + 1].events
  BY <1>1, BatchesUpToItems
<1>4. m \in 0..Len(all)
  BY <1>1, <1>2, <1>3
<1> HIDE DEF m, all, some, M
<1>5. SubSeq(all, 1, m) = [k \in 1..m |-> all[k]]
  BY <1>2, <1>3, <1>4
<1>6. some = [k \in 1..m |-> some[k]]
  BY <1>3, LenProperties
<1>7. \A k \in 1..m : some[k] = all[k]
  <2>1. \A k \in 1..m : k \in 1..M
    BY <1>2, <1>3, <1>4
  <2>2. QED
    BY <1>2, <1>3, <2>1
<1>8. some = SubSeq(all, 1, m)
  BY <1>5, <1>6, <1>7
<1>9. QED
  BY <1>4, <1>8 DEF all, some, m

\* What is left of a journal has the first of its batches.
LEMMA CutBatches ==
  ASSUME NEW f \in Seq(Item), NEW g \in Seq(Item), NEW n, CutTo(g, f, n)
  PROVE  BatchesOf(g) = BatchesUpTo(f, Readable(g)) /\ Readable(g) \in 0..Readable(f)
<1> DEFINE r == Readable(g)
           m == IF r = 0 THEN 0 ELSE r - 1
<1>1. /\ Len(f) \in Nat /\ Len(g) \in Nat /\ n \in 0..Len(f)
      /\ \A k \in 1..n : g[k] = f[k]
  BY ItemFields DEF CutTo
<1>2. Readable(f) \in 0..Len(f)
  BY ReadableFrames
<1>3. r \in 0..Readable(f) /\ r <= n /\ r \in 0..Len(f)
  BY <1>1, <1>2, CutReadable
<1>4. /\ BatchesOf(g) \in Seq(Seq(StoredEvent)) /\ Len(BatchesOf(g)) = m /\ m \in Nat
      /\ \A k \in 1..m : BatchesOf(g)[k] = g[k + 1].events
  BY BatchesOfItems
<1>5. /\ BatchesUpTo(f, r) \in Seq(Seq(StoredEvent)) /\ Len(BatchesUpTo(f, r)) = m
      /\ \A k \in 1..m : BatchesUpTo(f, r)[k] = f[k + 1].events
  BY <1>3, BatchesUpToItems
<1>6. \A k \in 1..m : k + 1 \in 1..n
  BY <1>1, <1>3, <1>4
<1> HIDE DEF r, m
<1>7. \A k \in 1..m : BatchesOf(g)[k] = BatchesUpTo(f, r)[k]
  BY <1>1, <1>4, <1>5, <1>6
<1>8. BatchesOf(g) = BatchesUpTo(f, r)
  BY <1>4, <1>5, <1>7, SeqEqual
<1>9. QED
  BY <1>3, <1>8 DEF r

\* A frame's size is that of its events.
Framed(f) == \A k \in 1..Len(f) : f[k].kind = "batch" => f[k] = Batch(f[k].events)

\* A journal whose frames are proper and whose batches restore.
IsJournal(f) == f \in Seq(Item) /\ Framed(f) /\ Restorable(BatchesOf(f))

\* Whatever is left of a journal is a journal.
LEMMA CutJournal ==
  ASSUME NEW f, IsJournal(f), NEW g \in Seq(Item), NEW n, CutTo(g, f, n)
  PROVE  IsJournal(g)
<1>1. /\ f \in Seq(Item) /\ Framed(f) /\ Restorable(BatchesOf(f))
      /\ BatchesOf(f) \in Seq(Seq(StoredEvent))
  BY BatchesOfItems DEF IsJournal
<1>2. BatchesOf(g) = BatchesUpTo(f, Readable(g)) /\ Readable(g) \in 0..Readable(f)
  BY <1>1, CutBatches
<1>3. \E m \in 0..Len(BatchesOf(f)) : BatchesOf(g) = SubSeq(BatchesOf(f), 1, m)
  BY <1>1, <1>2, BatchesUpToPrefix
<1>4. Restorable(BatchesOf(g))
  BY <1>1, <1>3, RestorablePrefix
<1>5. Framed(g)
  <2> SUFFICES ASSUME NEW k \in 1..Len(g), g[k].kind = "batch" PROVE g[k] = Batch(g[k].events)
    BY DEF Framed
  <2>1. /\ Len(f) \in Nat /\ Len(g) \in Nat /\ n \in 0..Len(f)
        /\ Len(g) = n \/ Len(g) = n + 1
        /\ \A i \in 1..n : g[i] = f[i]
        /\ Len(g) = n + 1 => g[n + 1].kind \in {"torn", "junk"}
    BY <1>1, ItemFields DEF CutTo
  <2>2. k \in 1..n
    <3>1. k \in 1..n \/ (k = n + 1 /\ Len(g) = n + 1)
      BY <2>1
    <3>2. QED
      BY <2>1, <3>1
  <2>3. k \in 1..Len(f) /\ g[k] = f[k]
    BY <2>1, <2>2
  <2>4. QED
    BY <1>1, <2>3 DEF Framed
<1>6. QED
  BY <1>4, <1>5 DEF IsJournal


-----------------------------------------------------------------------------
\* The batches stand, in order, at the head of the journal.
Heads(batches, f) ==
  batches # <<>> =>
    /\ Len(batches) + 1 <= Len(f)
    /\ f[1] = Header
    /\ \A k \in 1..Len(batches) : f[k + 1] = Batch(batches[k])

\* What heads a journal is read from it.
LEMMA HeadsRead ==
  ASSUME NEW f \in Seq(Item), NEW batches \in Seq(Seq(StoredEvent)), Heads(batches, f)
  PROVE  /\ batches # <<>> => Len(batches) + 1 <= Readable(f)
         /\ \A n \in 0..Readable(f) : Len(batches) + 1 <= n => IsPrefix(batches, BatchesUpTo(f, n))
         /\ IsPrefix(batches, BatchesOf(f))
<1> DEFINE m == Len(batches)
<1>1. Len(f) \in Nat /\ m \in Nat /\ Readable(f) \in 0..Len(f)
  BY ItemFields, ReadableFrames, LenProperties
<1>2. ASSUME batches # <<>> PROVE m + 1 <= Readable(f)
  <2>1. m + 1 \in 0..Len(f) /\ f[1] = Header /\ \A k \in 1..m : f[k + 1] = Batch(batches[k])
    BY <1>1, <1>2 DEF Heads
  <2>2. Frames(f, m + 1)
    <3> SUFFICES ASSUME NEW i \in 1..(m + 1) PROVE FrameAt(f, i)
      BY DEF Frames
    <3>1. CASE i = 1
      BY <2>1, <3>1 DEF FrameAt
    <3>2. CASE i # 1
      <4>1. i - 1 \in 1..m /\ (i - 1) + 1 = i
        BY <1>1, <3>2
      <4>2. f[i] = Batch(batches[i - 1])
        BY <2>1, <4>1
      <4>3. QED
        BY <3>2, <4>2, ItemKinds DEF FrameAt
    <3>3. QED
      BY <3>1, <3>2
  <2>3. QED
    BY <2>1, <2>2, ReadableFrames
<1>3. ASSUME NEW n \in 0..Readable(f), batches = <<>> \/ m + 1 <= n
      PROVE  IsPrefix(batches, BatchesUpTo(f, n))
  <2> DEFINE got == BatchesUpTo(f, n)
             M == IF n = 0 THEN 0 ELSE n - 1
  <2>1. /\ n \in 0..Len(f)
        /\ got \in Seq(Seq(StoredEvent)) /\ Len(got) = M /\ M \in Nat
        /\ \A k \in 1..M : got[k] = f[k + 1].events
    BY <1>1, BatchesUpToItems
  <2>2. m <= M
    <3>1. CASE batches = <<>>
      BY <2>1, <3>1, EmptySeq
    <3>2. CASE m + 1 <= n
      BY <1>1, <2>1, <3>2
    <3>3. QED
      BY <1>3, <3>1, <3>2
  <2>3. \A k \in 1..m : batches[k] = got[k]
    <3> SUFFICES ASSUME NEW k \in 1..m PROVE batches[k] = got[k]
      OBVIOUS
    <3>1. batches # <<>>
      BY EmptySeq
    <3>2. k \in 1..M
      BY <1>1, <2>1, <2>2
    <3>3. f[k + 1] = Batch(batches[k])
      BY <3>1 DEF Heads
    <3>4. f[k + 1].events = batches[k]
      BY <3>3, ItemKinds
    <3>5. QED
      BY <2>1, <3>2, <3>4
  <2> HIDE DEF got, m, M
  <2>4. SubSeq(batches, 1, m) = [k \in 1..m |-> batches[k]]
    BY <1>1 DEF m
  <2>5. SubSeq(got, 1, m) = [k \in 1..m |-> got[k]]
    BY <1>1, <2>1, <2>2
  <2>6. QED
    BY <2>1, <2>2, <2>3, <2>4, <2>5 DEF IsPrefix, got, m
<1>4. IsPrefix(batches, BatchesOf(f))
  <2>1. BatchesOf(f) = BatchesUpTo(f, Readable(f)) /\ Readable(f) \in 0..Readable(f)
    BY <1>1 DEF BatchesOf, Readable
  <2>2. QED
    BY <1>2, <1>3, <2>1
<1>5. QED
  BY <1>2, <1>3, <1>4

\* What heads a journal heads what is left of it, if enough is left.
LEMMA HeadsCut ==
  ASSUME NEW f \in Seq(Item), NEW g \in Seq(Item), NEW n, CutTo(g, f, n),
         NEW batches \in Seq(Seq(StoredEvent)), Heads(batches, f),
         batches = <<>> \/ Len(batches) + 1 <= n
  PROVE  Heads(batches, g)
<1> SUFFICES ASSUME batches # <<>>
             PROVE  /\ Len(batches) + 1 <= Len(g)
                    /\ g[1] = Header
                    /\ \A k \in 1..Len(batches) : g[k + 1] = Batch(batches[k])
  BY DEF Heads
<1>1. /\ Len(f) \in Nat /\ Len(g) \in Nat /\ n \in 0..Len(f) /\ Len(g) >= n
      /\ \A k \in 1..n : g[k] = f[k]
      /\ Len(batches) \in Nat /\ Len(batches) + 1 <= n
      /\ f[1] = Header /\ \A k \in 1..Len(batches) : f[k + 1] = Batch(batches[k])
  BY ItemFields, LenProperties DEF CutTo, Heads
<1>2. 1 \in 1..n /\ \A k \in 1..Len(batches) : k + 1 \in 1..n
  BY <1>1
<1>3. QED
  BY <1>1, <1>2

\* A truncated journal.
LEMMA TruncatedCut ==
  ASSUME NEW f \in Seq(Item), NEW n \in 0..Len(f)
  PROVE  SubSeq(f, 1, n) \in Seq(Item) /\ Len(SubSeq(f, 1, n)) = n /\ CutTo(SubSeq(f, 1, n), f, n)
<1>1. Len(f) \in Nat /\ n \in Nat /\ n + 1 # n
  BY ItemFields
<1>2. /\ SubSeq(f, 1, n) \in Seq(Item) /\ Len(SubSeq(f, 1, n)) = n
      /\ \A k \in 1..n : SubSeq(f, 1, n)[k] = f[k]
  BY <1>1
<1>3. QED
  BY <1>1, <1>2 DEF CutTo

\* A write at the end of the journal only appends.
LEMMA WriteAtEnd ==
  ASSUME NEW f \in Seq(Item), NEW item \in Item
  PROVE  WriteAt(f, Len(f), item) = Append(f, item)
<1>1. Len(f) \in Nat /\ (Len(f) + 1)..Len(f) = {}
  BY ItemFields
<1>2. {f[k].size : k \in (Len(f) + 1)..Len(f)} = {}
  BY <1>1
<1>3. SubSeq(f, 1, Len(f)) = f
  BY LenProperties
<1>4. f \o <<item>> = Append(f, item)
  BY AppendIsConcat
<1>5. Append(f, item) \o <<>> = Append(f, item)
  BY AppendProperties, ConcatEmptySeq
<1>6. QED
  BY <1>2, <1>3, <1>4, <1>5 DEF WriteAt

\* An interrupted write at the end leaves the journal and a torn frame.
LEMMA AppendedCut ==
  ASSUME NEW f \in Seq(Item), NEW rest \in Item, rest.kind \in {"torn", "junk"}
  PROVE  Append(f, rest) \in Seq(Item) /\ CutTo(Append(f, rest), f, Len(f))
BY ItemFields, AppendProperties DEF CutTo

\* The items disk and file agree on.
LEMMA CommonItems ==
  ASSUME NEW d \in Seq(Item), NEW f \in Seq(Item)
  PROVE  /\ CommonLen(d, f) \in 0..Len(d) /\ CommonLen(d, f) \in 0..Len(f)
         /\ \A n \in 0..Len(d) :
              (n <= Len(f) /\ \A k \in 1..n : d[k] = f[k]) => n <= CommonLen(d, f)
<1> DEFINE S == {n \in 0..Len(d) : n <= Len(f) /\ SubSeq(d, 1, n) = SubSeq(f, 1, n)}
           c == CommonLen(d, f)
<1>1. Len(d) \in Nat /\ Len(f) \in Nat
  BY ItemFields
<1>2. SubSeq(d, 1, 0) = <<>> /\ SubSeq(f, 1, 0) = <<>>
  BY SubSeqEmpty
<1>3. S \subseteq Nat /\ 0 \in S /\ \A n \in S : n <= Len(d)
  BY <1>1, <1>2
<1>4. \A n \in S : n \in 0..Len(d) /\ n <= Len(f)
  OBVIOUS
<1>5. c = Max(S)
  BY Zenon DEF CommonLen
<1>6. \A n \in 0..Len(d) : (n <= Len(f) /\ SubSeq(d, 1, n) = SubSeq(f, 1, n)) => n \in S
  OBVIOUS
<1> HIDE DEF S
<1>7. \E m \in S : \A k \in S : k <= m
  BY <1>1, <1>3, GreatestElement
<1>8. \E m \in S : \A k \in S : m >= k
  BY <1>3, <1>7
<1>9. Max(S) \in S /\ \A k \in S : Max(S) >= k
  BY <1>8, Zenon DEF Max
<1>10. c \in S /\ \A k \in S : c >= k
  BY <1>5, <1>9, Zenon
<1> HIDE DEF c
<1>11. c \in 0..Len(d) /\ c \in 0..Len(f)
  BY <1>1, <1>4, <1>10
<1>12. ASSUME NEW n \in 0..Len(d), n <= Len(f), \A k \in 1..n : d[k] = f[k]
       PROVE  n <= c
  <2>1. /\ SubSeq(d, 1, n) = [k \in 1..n |-> d[k]]
        /\ SubSeq(f, 1, n) = [k \in 1..n |-> f[k]]
    BY <1>1, <1>12
  <2>2. n \in S
    BY <1>6, <1>12, <2>1
  <2>3. QED
    BY <1>1, <1>10, <1>11, <2>2
<1>13. QED
  BY <1>11, <1>12 DEF c

\* A partial write-back leaves the old or the new content, cut behind what
\* both have in common.
LEMMA ImageCut ==
  ASSUME NEW d \in Seq(Item), NEW f \in Seq(Item), NEW g \in DiskImages(d, f)
  PROVE  /\ g \in Seq(Item)
         /\ \E x \in {d, f} : \E n \in 0..Len(x) : CommonLen(d, f) <= n /\ CutTo(g, x, n)
<1> DEFINE c == CommonLen(d, f)
<1>1. Len(d) \in Nat /\ Len(f) \in Nat /\ c \in 0..Len(d) /\ c \in 0..Len(f)
  BY ItemFields, CommonItems
<1>2. PICK x \in {d, f} :
        \/ \E n \in c..Len(x) : g = SubSeq(x, 1, n)
        \/ \E n \in (c + 1)..Len(x) : \E rest \in Remains(x[n]) \cup {Junk} :
             g = SubSeq(x, 1, n - 1) \o <<rest>>
  <2> DEFINE Damage(x, n) == {SubSeq(x, 1, n - 1) \o <<rest>> : rest \in Remains(x[n]) \cup {Junk}}
             Cut(x) == {SubSeq(x, 1, n) : n \in c..Len(x)}
             Damaged(x) == UNION {Damage(x, n) : n \in (c + 1)..Len(x)}
  <2>1. g \in UNION {Cut(x) \cup Damaged(x) : x \in {d, f}}
    BY Zenon DEF DiskImages
  <2> HIDE DEF Cut, Damaged, Damage, c
  <2>2. PICK x \in {d, f} : g \in Cut(x) \cup Damaged(x)
    BY <2>1
  <2>3. CASE g \in Cut(x)
    BY <2>3 DEF Cut
  <2>4. CASE g \in Damaged(x)
    <3>1. PICK n \in (c + 1)..Len(x) : g \in Damage(x, n)
      BY <2>4 DEF Damaged
    <3>2. QED
      BY <3>1 DEF Damage
  <2>5. QED
    BY <2>2, <2>3, <2>4
<1>3. x \in Seq(Item) /\ Len(x) \in Nat /\ c \in Nat
  BY <1>1, <1>2
<1> HIDE DEF c
<1>4. ASSUME NEW n \in c..Len(x), g = SubSeq(x, 1, n)
      PROVE  g \in Seq(Item) /\ n \in 0..Len(x) /\ c <= n /\ CutTo(g, x, n)
  <2>1. n \in 0..Len(x) /\ c <= n
    BY <1>3
  <2>2. QED
    BY <1>3, <1>4, <2>1, TruncatedCut
<1>5. ASSUME NEW n \in (c + 1)..Len(x), NEW rest \in Remains(x[n]) \cup {Junk},
             g = SubSeq(x, 1, n - 1) \o <<rest>>
      PROVE  g \in Seq(Item) /\ n - 1 \in 0..Len(x) /\ c <= n - 1 /\ CutTo(g, x, n - 1)
  <2> DEFINE head == SubSeq(x, 1, n - 1)
  <2>1. n - 1 \in 0..Len(x) /\ c <= n - 1 /\ n \in 1..Len(x) /\ n - 1 \in Nat
    BY <1>3
  <2>2. head \in Seq(Item) /\ Len(head) = n - 1 /\ CutTo(head, x, n - 1)
    BY <1>3, <2>1, TruncatedCut
  <2>3. rest \in Item /\ rest.kind \in {"torn", "junk"}
    <3>1. x[n] \in Item
      BY <1>3, <2>1, ItemFields
    <3>2. QED
      BY <3>1, ItemKinds DEF Remains
  <2> HIDE DEF head
  <2>4. g = Append(head, rest)
    BY <1>5, <2>2, <2>3, AppendIsConcat DEF head
  <2>5. /\ g \in Seq(Item) /\ Len(g) = (n - 1) + 1
        /\ \A k \in 1..(n - 1) : g[k] = head[k]
        /\ g[(n - 1) + 1] = rest
    BY <2>2, <2>3, <2>4, AppendProperties
  <2>6. \A k \in 1..(n - 1) : g[k] = x[k]
    BY <2>2, <2>5 DEF CutTo
  <2>7. CutTo(g, x, n - 1)
    BY <2>1, <2>3, <2>5, <2>6 DEF CutTo
  <2>8. QED
    BY <2>1, <2>5, <2>7
<1>6. QED
  BY <1>2, <1>4, <1>5 DEF c


-----------------------------------------------------------------------------
\* The shape failures of processes alone can give a journal: never begun, or
\* a header, whole frames and at most one torn frame at the end.
Shaped(f) ==
  \/ f \in {<<>>, <<Torn(0)>>}
  \/ /\ Len(f) >= 1 /\ f[1] = Header
     /\ \A k \in 2..Len(f) : f[k].kind = "batch" \/ (k = Len(f) /\ f[k].kind = "torn")

\* The part of the invariant about the file, the disk and the histories: both
\* are journals, the acknowledged batches head the file and the secured ones
\* head the disk as well.
FileOK(f, d, a, s, lost) ==
  /\ IsJournal(f) /\ IsJournal(d)
  /\ a \in Seq(Seq(StoredEvent)) /\ s \in Seq(Seq(StoredEvent))
  /\ Len(s) <= Len(a)
  /\ Heads(a, f) /\ Heads(s, f) /\ Heads(s, d)
  /\ lost \in BOOLEAN /\ (lost \/ Shaped(f))

\* sync brings the file to the disk.
LEMMA FileSynced ==
  ASSUME NEW f, NEW d, NEW a, NEW s, NEW lost, FileOK(f, d, a, s, lost)
  PROVE  FileOK(f, f, a, s, lost)
BY DEF FileOK

\* The sequences of the histories.
LEMMA HistoryLengths ==
  ASSUME NEW f, NEW d, NEW a, NEW s, NEW lost, FileOK(f, d, a, s, lost)
  PROVE  /\ f \in Seq(Item) /\ d \in Seq(Item)
         /\ Len(f) \in Nat /\ Len(d) \in Nat /\ Len(a) \in Nat /\ Len(s) \in Nat /\ Len(s) <= Len(a)
         /\ Readable(f) \in 0..Len(f)
         /\ a # <<>> => Len(a) + 1 <= Readable(f)
         /\ Len(a) = 0 => a = <<>>
         /\ Len(s) = 0 => s = <<>>
<1>1. /\ f \in Seq(Item) /\ d \in Seq(Item)
      /\ a \in Seq(Seq(StoredEvent)) /\ s \in Seq(Seq(StoredEvent))
      /\ Len(s) <= Len(a) /\ Heads(a, f)
  BY DEF FileOK, IsJournal
<1>2. Len(f) \in Nat /\ Len(d) \in Nat /\ Len(a) \in Nat /\ Len(s) \in Nat
  BY <1>1, LenProperties
<1>3. (Len(a) = 0 => a = <<>>) /\ (Len(s) = 0 => s = <<>>)
  BY <1>1, EmptySeq
<1>4. Readable(f) \in 0..Len(f) /\ (a # <<>> => Len(a) + 1 <= Readable(f))
  BY <1>1, ReadableFrames, HeadsRead
<1>5. QED
  BY <1>1, <1>2, <1>3, <1>4

\* A journal cut behind the acknowledged batches.
LEMMA FileCut ==
  ASSUME NEW f, NEW d, NEW a, NEW s, NEW lost, FileOK(f, d, a, s, lost),
         NEW g \in Seq(Item), NEW n, CutTo(g, f, n), Len(a) + 1 <= n,
         lost \/ Shaped(g)
  PROVE  FileOK(g, d, a, s, lost)
<1>1. /\ IsJournal(f) /\ f \in Seq(Item) /\ Heads(a, f) /\ Heads(s, f)
      /\ a \in Seq(Seq(StoredEvent)) /\ s \in Seq(Seq(StoredEvent))
  BY DEF FileOK, IsJournal
<1>2. n \in Nat /\ Len(s) + 1 <= n
  <2>1. n \in 0..Len(f)
    BY DEF CutTo
  <2>2. QED
    BY <2>1, HistoryLengths
<1>3. IsJournal(g)
  BY <1>1, CutJournal
<1>4. Heads(a, g)
  BY <1>1, HeadsCut
<1>5. Heads(s, g)
  BY <1>1, <1>2, HeadsCut
<1>6. QED
  BY <1>3, <1>4, <1>5 DEF FileOK

\* A truncation behind the acknowledged batches.
LEMMA FileTruncated ==
  ASSUME NEW f, NEW d, NEW a, NEW s, NEW lost, FileOK(f, d, a, s, lost),
         NEW n \in 1..Len(f), Len(a) + 1 <= n, Frames(f, 1)
  PROVE  FileOK(SubSeq(f, 1, n), d, a, s, lost)
<1> DEFINE g == SubSeq(f, 1, n)
<1>1. f \in Seq(Item) /\ Len(f) \in Nat /\ n \in 0..Len(f) /\ n \in Nat
  BY HistoryLengths
<1>2. g \in Seq(Item) /\ Len(g) = n /\ CutTo(g, f, n)
  BY <1>1, TruncatedCut
<1>3. \A k \in 1..n : g[k] = f[k]
  BY <1>2 DEF CutTo
<1> HIDE DEF g
<1>4. lost \/ Shaped(g)
  <2> SUFFICES ASSUME ~lost PROVE Shaped(g)
    OBVIOUS
  <2>1. f[1] = Header
    BY DEF Frames, FrameAt
  <2>2. \A k \in 2..Len(f) : f[k].kind = "batch" \/ (k = Len(f) /\ f[k].kind = "torn")
    <3>1. Shaped(f)
      BY DEF FileOK
    <3>2. f # <<>> /\ f # <<Torn(0)>>
      BY <1>1, <2>1 DEF Header, Torn
    <3>3. QED
      BY <3>1, <3>2 DEF Shaped
  <2>3. g[1] = Header
    BY <1>1, <1>3, <2>1
  <2>4. \A k \in 2..Len(g) : g[k].kind = "batch" \/ (k = Len(g) /\ g[k].kind = "torn")
    <3> SUFFICES ASSUME NEW k \in 2..n
                 PROVE  g[k].kind = "batch" \/ (k = n /\ g[k].kind = "torn")
      BY <1>2
    <3>1. k \in 2..Len(f) /\ k \in 1..n /\ (k = Len(f) => k = n)
      BY <1>1
    <3>2. QED
      BY <1>3, <2>2, <3>1
  <2>5. QED
    BY <1>1, <1>2, <2>3, <2>4 DEF Shaped
<1>5. FileOK(g, d, a, s, lost)
  BY <1>2, <1>4, FileCut
<1>6. QED
  BY <1>5 DEF g

\* An interrupted write at the end of a whole journal.
LEMMA FileTorn ==
  ASSUME NEW f, NEW d, NEW a, NEW s, NEW lost, FileOK(f, d, a, s, lost),
         Readable(f) = Len(f), Len(a) + 1 <= Len(f),
         NEW rest \in Item, rest.kind = "torn"
  PROVE  FileOK(Append(f, rest), d, a, s, lost) /\ BatchesOf(Append(f, rest)) = BatchesOf(f)
<1> DEFINE g == Append(f, rest)
           L == Len(f)
<1>1. f \in Seq(Item) /\ L \in Nat /\ L >= 1
  BY HistoryLengths
<1>2. /\ g \in Seq(Item) /\ CutTo(g, f, L)
      /\ Len(g) = L + 1 /\ g[L + 1] = rest /\ \A k \in 1..L : g[k] = f[k]
  BY <1>1, AppendedCut, AppendProperties
<1> HIDE DEF g
<1>3. Frames(f, L)
  BY <1>1, ReadableFrames
<1>4. Shaped(g)
  <2>1. f[1] = Header /\ \A k \in 2..L : f[k].kind = "batch"
    BY <1>1, <1>3 DEF Frames, FrameAt
  <2>2. g[1] = Header
    BY <1>1, <1>2, <2>1
  <2>3. \A k \in 2..Len(g) : g[k].kind = "batch" \/ (k = Len(g) /\ g[k].kind = "torn")
    <3> SUFFICES ASSUME NEW k \in 2..(L + 1)
                 PROVE  g[k].kind = "batch" \/ (k = L + 1 /\ g[k].kind = "torn")
      BY <1>2
    <3>1. (k \in 2..L /\ k \in 1..L) \/ k = L + 1
      BY <1>1
    <3>2. QED
      BY <1>2, <2>1, <3>1
  <2>4. QED
    BY <1>1, <1>2, <2>2, <2>3 DEF Shaped
<1>5. FileOK(g, d, a, s, lost)
  BY <1>2, <1>4, FileCut
<1>6. BatchesOf(g) = BatchesUpTo(f, Readable(g)) /\ Readable(g) = Readable(f)
  BY <1>1, <1>2, CutBatches, CutReadable
<1>7. BatchesOf(g) = BatchesOf(f)
  BY <1>6 DEF BatchesOf, Readable
<1>8. QED
  BY <1>5, <1>7 DEF g

\* A whole frame at the end of a whole journal.
LEMMA FileExtended ==
  ASSUME NEW f, NEW d, NEW a, NEW s, NEW lost, FileOK(f, d, a, s, lost),
         Readable(f) = Len(f), Len(a) + 1 <= Len(f),
         NEW b \in Seq(StoredEvent), Len(b) <= MaxBatch, Restorable(Append(BatchesOf(f), b))
  PROVE  /\ FileOK(Append(f, Batch(b)), d, a, s, lost)
         /\ Readable(Append(f, Batch(b))) = Len(f) + 1
         /\ BatchesOf(Append(f, Batch(b))) = Append(BatchesOf(f), b)
<1> DEFINE g == Append(f, Batch(b))
           L == Len(f)
           old == BatchesOf(f)
<1>1. /\ f \in Seq(Item) /\ L \in Nat /\ L >= 1 /\ Framed(f)
      /\ Len(a) \in Nat /\ Len(s) \in Nat /\ Len(s) <= Len(a)
  BY HistoryLengths DEF FileOK, IsJournal
<1>2. Batch(b) \in Item /\ Batch(b).kind = "batch" /\ Batch(b).events = b
  BY ItemKinds
<1>3. /\ g \in Seq(Item) /\ Len(g) = L + 1 /\ g[L + 1] = Batch(b)
      /\ \A k \in 1..L : g[k] = f[k]
  BY <1>1, <1>2, AppendProperties
<1> HIDE DEF g
<1>4. Frames(f, L)
  BY <1>1, ReadableFrames
<1>5. \A k \in 1..(L + 1) : k \in 1..L \/ k = L + 1
  BY <1>1
<1>6. Frames(g, L + 1)
  <2> SUFFICES ASSUME NEW k \in 1..(L + 1) PROVE FrameAt(g, k)
    BY DEF Frames
  <2>1. CASE k \in 1..L
    <3>1. FrameAt(f, k) /\ g[k] = f[k]
      BY <1>3, <1>4, <2>1 DEF Frames
    <3>2. QED
      BY <3>1 DEF FrameAt
  <2>2. CASE k = L + 1
    <3>1. k # 1
      BY <1>1, <2>2
    <3>2. QED
      BY <1>2, <1>3, <2>2, <3>1 DEF FrameAt
  <2>3. QED
    BY <1>5, <2>1, <2>2
<1>7. Readable(g) = L + 1
  <2>1. L + 1 \in 0..Len(g)
    BY <1>1, <1>3
  <2>2. QED
    BY <1>3, <1>6, <2>1, ReadableIs
<1>8. BatchesOf(g) = Append(old, b)
  <2>1. /\ old \in Seq(Seq(StoredEvent)) /\ Len(old) = L - 1 /\ L - 1 \in Nat
        /\ \A k \in 1..(L - 1) : old[k] = f[k + 1].events
    <3>1. (IF L = 0 THEN 0 ELSE L - 1) = L - 1
      BY <1>1
    <3>2. QED
      BY <1>1, <3>1, BatchesOfItems
  <2>2. /\ BatchesOf(g) \in Seq(Seq(StoredEvent)) /\ Len(BatchesOf(g)) = L
        /\ \A k \in 1..L : BatchesOf(g)[k] = g[k + 1].events
    <3>1. (IF L + 1 = 0 THEN 0 ELSE (L + 1) - 1) = L
      BY <1>1
    <3>2. QED
      BY <1>3, <1>7, <3>1, BatchesOfItems
  <2> HIDE DEF old
  <2>3. /\ Append(old, b) \in Seq(Seq(StoredEvent)) /\ Len(Append(old, b)) = L
        /\ \A k \in 1..(L - 1) : Append(old, b)[k] = old[k]
        /\ Append(old, b)[L] = b
    <3>1. (L - 1) + 1 = L
      BY <1>1
    <3>2. QED
      BY <2>1, <3>1, AppendProperties
  <2>4. ASSUME NEW k \in 1..L PROVE BatchesOf(g)[k] = Append(old, b)[k]
    <3>1. CASE k = L
      BY <1>2, <1>3, <2>2, <2>3, <3>1
    <3>2. CASE k # L
      <4>1. k \in 1..(L - 1) /\ k + 1 \in 1..L
        BY <1>1, <3>2
      <4>2. QED
        BY <1>3, <2>1, <2>2, <2>3, <4>1
    <3>3. QED
      BY <3>1, <3>2
  <2>5. QED
    BY <2>2, <2>3, <2>4, SeqEqual
<1>9. Framed(g)
  <2> SUFFICES ASSUME NEW k \in 1..(L + 1), g[k].kind = "batch" PROVE g[k] = Batch(g[k].events)
    BY <1>3 DEF Framed
  <2>1. CASE k \in 1..L
    BY <1>1, <1>3, <2>1 DEF Framed
  <2>2. CASE k = L + 1
    BY <1>2, <1>3, <2>2
  <2>3. QED
    BY <1>5, <2>1, <2>2
<1>10. IsJournal(g)
  BY <1>3, <1>8, <1>9 DEF IsJournal
<1>11. ASSUME NEW h, Heads(h, f), Len(h) \in Nat PROVE Heads(h, g)
  <2> SUFFICES ASSUME h # <<>>
               PROVE  /\ Len(h) + 1 <= Len(g) /\ g[1] = Header
                      /\ \A k \in 1..Len(h) : g[k + 1] = Batch(h[k])
    BY DEF Heads
  <2>1. /\ Len(h) + 1 <= L /\ f[1] = Header
        /\ \A k \in 1..Len(h) : f[k + 1] = Batch(h[k])
    BY <1>11 DEF Heads
  <2>2. 1 \in 1..L /\ \A k \in 1..Len(h) : k + 1 \in 1..L
    BY <1>1, <1>11, <2>1
  <2>3. Len(h) + 1 <= Len(g)
    BY <1>1, <1>3, <1>11, <2>1
  <2>4. g[1] = Header
    BY <1>3, <2>1, <2>2
  <2>5. ASSUME NEW k \in 1..Len(h) PROVE g[k + 1] = Batch(h[k])
    <3>1. k + 1 \in 1..L
      BY <2>2
    <3>2. g[k + 1] = f[k + 1]
      BY <1>3, <3>1
    <3>3. QED
      BY <2>1, <3>2
  <2>6. QED
    BY <2>3, <2>4, <2>5
<1>12. Heads(a, g) /\ Heads(s, g)
  BY <1>1, <1>11 DEF FileOK
<1>13. Shaped(g)
  <2>1. g[1] = Header /\ \A k \in 2..(L + 1) : g[k].kind = "batch"
    BY <1>1, <1>6 DEF Frames, FrameAt
  <2>2. QED
    BY <1>1, <1>3, <2>1 DEF Shaped
<1>14. FileOK(g, d, a, s, lost)
  BY <1>10, <1>12, <1>13 DEF FileOK
<1>15. QED
  BY <1>7, <1>8, <1>14 DEF g


\* A journal of at most one item has no batch.
LEMMA FileBegun ==
  ASSUME NEW d, NEW a, NEW s, NEW lost, FileOK(<<>>, d, a, s, lost),
         NEW g \in {<<>>, <<Header>>, <<Torn(0)>>}
  PROVE  FileOK(g, d, a, s, lost) /\ BatchesOf(g) = <<>>
<1>1. a = <<>> /\ s = <<>>
  <2>1. Len(<<>>) = 0 /\ Readable(<<>>) \in 0..Len(<<>>) /\ (a # <<>> => Len(a) + 1 <= Readable(<<>>))
    BY HistoryLengths, EmptySeq
  <2>2. Len(a) \in Nat /\ Len(s) \in Nat /\ Len(s) <= Len(a) /\ (Len(s) = 0 => s = <<>>)
    BY HistoryLengths
  <2>3. a = <<>>
    BY <2>1, <2>2
  <2>4. Len(a) = 0
    BY <2>3, EmptySeq
  <2>5. QED
    BY <2>2, <2>3, <2>4
<1>2. /\ g \in Seq(Item) /\ Len(g) \in 0..1
      /\ \A k \in 1..Len(g) : g[k].kind # "batch"
  <2>1. CASE g = <<>>
    BY <2>1, EmptySeq
  <2>2. ASSUME NEW item \in Item, item.kind # "batch", g = <<item>>
        PROVE  g \in Seq(Item) /\ Len(g) \in 0..1 /\ \A k \in 1..Len(g) : g[k].kind # "batch"
    BY <2>2
  <2>3. QED
    BY <2>1, <2>2, ItemKinds
<1>3. \A k \in 1..Len(g) : g[k].kind # "batch"
  BY <1>2
<1>4. BatchesOf(g) = <<>>
  <2>1. Readable(g) \in 0..1
    <3>1. Readable(g) \in 0..Len(g)
      BY <1>2, ReadableFrames
    <3>2. QED
      BY <1>2, <3>1
  <2>2. (IF Readable(g) = 0 THEN 0 ELSE Readable(g) - 1) = 0
    BY <2>1
  <2>3. BatchesOf(g) \in Seq(Seq(StoredEvent)) /\ Len(BatchesOf(g)) = 0
    BY <1>2, <2>2, BatchesOfItems
  <2>4. QED
    BY <2>3, EmptySeq
<1>5. Restorable(<<>>)
  <2>1. FlattenSeq(<<>>) = <<>> /\ <<>> \in Seq(Seq(StoredEvent))
    BY EmptySeq, EmptyFlattened
  <2>2. EmptyStore.events = <<>>
    BY DEF EmptyStore
  <2>3. QED
    BY <2>1, <2>2, EmptyStoreWellFormed, RestorableStore
<1>6. IsJournal(g)
  BY <1>2, <1>3, <1>4, <1>5 DEF IsJournal, Framed
<1>7. Shaped(g)
  BY ItemKinds DEF Shaped
<1>8. QED
  BY <1>1, <1>4, <1>6, <1>7 DEF FileOK, Heads

\* A partial write-back keeps the secured batches on the disk.
LEMMA FileWrittenBack ==
  ASSUME NEW f, NEW d, NEW a, NEW s, NEW lost, FileOK(f, d, a, s, lost),
         NEW g \in DiskImages(d, f)
  PROVE  FileOK(f, g, a, s, lost)
<1>1. /\ IsJournal(f) /\ IsJournal(d) /\ f \in Seq(Item) /\ d \in Seq(Item)
      /\ s \in Seq(Seq(StoredEvent)) /\ Heads(s, f) /\ Heads(s, d)
  BY DEF FileOK, IsJournal
<1>2. g \in Seq(Item)
  BY <1>1, ImageCut
<1>3. PICK x \in {d, f} : \E n \in 0..Len(x) : CommonLen(d, f) <= n /\ CutTo(g, x, n)
  BY <1>1, ImageCut
<1>4. PICK n \in 0..Len(x) : CommonLen(d, f) <= n /\ CutTo(g, x, n)
  BY <1>3
<1>5. x \in Seq(Item) /\ IsJournal(x) /\ Heads(s, x)
  BY <1>1, <1>3
<1>6. s = <<>> \/ Len(s) + 1 <= n
  <2> SUFFICES ASSUME s # <<>> PROVE Len(s) + 1 <= n
    OBVIOUS
  <2>1. /\ Len(f) \in Nat /\ Len(d) \in Nat /\ Len(x) \in Nat /\ Len(s) \in Nat
        /\ CommonLen(d, f) \in 0..Len(d)
    BY <1>1, <1>5, ItemFields, LenProperties, CommonItems
  <2>2. /\ Len(s) + 1 <= Len(f) /\ Len(s) + 1 <= Len(d)
        /\ f[1] = Header /\ d[1] = Header
        /\ \A k \in 1..Len(s) : f[k + 1] = Batch(s[k]) /\ d[k + 1] = Batch(s[k])
    BY <1>1 DEF Heads
  <2>3. \A i \in 1..(Len(s) + 1) : d[i] = f[i]
    <3> SUFFICES ASSUME NEW i \in 1..(Len(s) + 1) PROVE d[i] = f[i]
      OBVIOUS
    <3>1. i = 1 \/ (i - 1 \in 1..Len(s) /\ (i - 1) + 1 = i)
      BY <2>1
    <3>2. CASE i = 1
      BY <2>2, <3>2
    <3>3. CASE i - 1 \in 1..Len(s) /\ (i - 1) + 1 = i
      <4>1. d[(i - 1) + 1] = f[(i - 1) + 1]
        BY <2>2, <3>3
      <4>2. QED
        BY <3>3, <4>1
    <3>4. QED
      BY <3>1, <3>2, <3>3
  <2>4. Len(s) + 1 \in 0..Len(d)
    BY <2>1, <2>2
  <2>5. Len(s) + 1 <= CommonLen(d, f)
    BY <1>1, <2>2, <2>3, <2>4, CommonItems
  <2>6. QED
    BY <1>4, <2>1, <2>5
<1>7. IsJournal(g)
  BY <1>2, <1>4, <1>5, CutJournal
<1>8. Heads(s, g)
  BY <1>1, <1>2, <1>4, <1>5, <1>6, HeadsCut
<1>9. QED
  BY <1>7, <1>8 DEF FileOK

\* After a loss of power the disk is the file and what was secured is what
\* is known to be acknowledged.
LEMMA FilePowerLost ==
  ASSUME NEW f, NEW d, NEW a, NEW s, NEW lost, FileOK(f, d, a, s, lost)
  PROVE  FileOK(d, d, s, s, TRUE)
<1>1. Len(s) \in Nat
  BY HistoryLengths
<1>2. QED
  BY <1>1 DEF FileOK

\* An acknowledgement of the whole journal.
LEMMA FileAcknowledged ==
  ASSUME NEW f, NEW d, NEW a, NEW s, NEW lost, FileOK(f, d, a, s, lost),
         NEW len \in Nat, len >= 1, Len(f) = len + 1, len <= Readable(f),
         NEW b \in Seq(StoredEvent), f[len + 1] = Batch(b)
  PROVE  /\ Append(BatchesUpTo(f, len), b) = BatchesOf(f)
         /\ Readable(f) = len + 1
         /\ Len(BatchesOf(f)) = len
         /\ FileOK(f, d, BatchesOf(f), s, lost)
         /\ FileOK(f, f, BatchesOf(f), BatchesOf(f), lost)
<1> DEFINE all == BatchesOf(f)
           old == BatchesUpTo(f, len)
<1>1. f \in Seq(Item) /\ Framed(f) /\ IsJournal(f) /\ Len(s) \in Nat
  BY HistoryLengths DEF FileOK, IsJournal
<1>2. len + 1 \in 0..Len(f) /\ len \in 0..Len(f) /\ \A k \in 1..(len + 1) : k \in 1..len \/ k = len + 1
  OBVIOUS
<1>3. Frames(f, len + 1)
  <2> SUFFICES ASSUME NEW k \in 1..(len + 1) PROVE FrameAt(f, k)
    BY DEF Frames
  <2>1. CASE k \in 1..len
    <3>1. Frames(f, Readable(f)) /\ Readable(f) \in 0..Len(f)
      BY <1>1, ReadableFrames
    <3>2. k \in 1..Readable(f)
      BY <2>1, <3>1
    <3>3. QED
      BY <3>1, <3>2 DEF Frames
  <2>2. CASE k = len + 1
    <3>1. k # 1
      BY <2>2
    <3>2. QED
      BY <2>2, <3>1, ItemKinds DEF FrameAt
  <2>3. QED
    BY <1>2, <2>1, <2>2
<1>4. Readable(f) = len + 1
  BY <1>1, <1>2, <1>3, ReadableIs
<1>5. /\ all \in Seq(Seq(StoredEvent)) /\ Len(all) = len
      /\ \A k \in 1..len : all[k] = f[k + 1].events
  <2>1. (IF len + 1 = 0 THEN 0 ELSE (len + 1) - 1) = len
    OBVIOUS
  <2>2. QED
    BY <1>1, <1>4, <2>1, BatchesOfItems
<1>6. /\ old \in Seq(Seq(StoredEvent)) /\ Len(old) = len - 1 /\ len - 1 \in Nat
      /\ \A k \in 1..(len - 1) : old[k] = f[k + 1].events
  <2>1. (IF len = 0 THEN 0 ELSE len - 1) = len - 1
    OBVIOUS
  <2>2. QED
    BY <1>1, <1>2, <2>1, BatchesUpToItems
<1> HIDE DEF all, old
<1>7. Append(old, b) = all
  <2>1. /\ Append(old, b) \in Seq(Seq(StoredEvent)) /\ Len(Append(old, b)) = len
        /\ \A k \in 1..(len - 1) : Append(old, b)[k] = old[k]
        /\ Append(old, b)[len] = b
    <3>1. (len - 1) + 1 = len
      OBVIOUS
    <3>2. QED
      BY <1>6, <3>1, AppendProperties
  <2>2. ASSUME NEW k \in 1..len PROVE Append(old, b)[k] = all[k]
    <3>1. CASE k = len
      <4>1. all[len] = f[len + 1].events
        BY <1>5
      <4>2. QED
        BY <2>1, <3>1, <4>1, ItemKinds
    <3>2. CASE k # len
      <4>1. k \in 1..(len - 1)
        BY <3>2
      <4>2. QED
        BY <1>5, <1>6, <2>1, <4>1
    <3>3. QED
      BY <3>1, <3>2
  <2>3. QED
    BY <1>5, <2>1, <2>2, SeqEqual
<1>8. Heads(all, f)
  <2>1. f[1] = Header
    BY <1>3 DEF Frames, FrameAt
  <2>2. ASSUME NEW k \in 1..len PROVE f[k + 1] = Batch(all[k])
    <3>1. k + 1 \in 1..(len + 1) /\ k + 1 # 1 /\ k + 1 \in 1..Len(f)
      OBVIOUS
    <3>2. f[k + 1].kind = "batch"
      BY <1>3, <3>1 DEF Frames, FrameAt
    <3>3. f[k + 1] = Batch(f[k + 1].events)
      BY <1>1, <3>1, <3>2 DEF Framed
    <3>4. QED
      BY <1>5, <3>3
  <2>3. QED
    BY <1>5, <2>1, <2>2 DEF Heads
<1>9. Len(s) <= len
  <2>1. CASE s = <<>>
    BY <2>1, EmptySeq
  <2>2. CASE s # <<>>
    <3>1. Len(s) + 1 <= len + 1
      BY <2>2 DEF FileOK, Heads
    <3>2. QED
      BY <1>1, <3>1
  <2>3. QED
    BY <2>1, <2>2
<1>10. FileOK(f, d, all, s, lost)
  BY <1>5, <1>8, <1>9 DEF FileOK
<1>11. FileOK(f, f, all, all, lost)
  BY <1>1, <1>5, <1>8 DEF FileOK
<1>12. QED
  BY <1>4, <1>5, <1>7, <1>10, <1>11 DEF all, old


-----------------------------------------------------------------------------
\* What a process that is past open relies on: the beginning of the journal
\* it accounts for is readable, holds what was acknowledged and is what its
\* memory holds; and, with a batch written and not yet synced, that batch is
\* the last item of the journal and the one its memory would commit.
ProcessOK(place, st, len, b, f, a) ==
  /\ place = "new" => f = <<>>
  /\ place \in Running =>
       /\ len \in 1..Readable(f)
       /\ st = Restore(FlattenSeq(BatchesUpTo(f, len)))
       /\ Len(a) + 1 <= len
  /\ place = "written" =>
       /\ Len(f) = len + 1 /\ f[len + 1] = Batch(b)
       /\ CommitPrepared(st, b) = Restore(FlattenSeq(BatchesUpTo(f, len + 1)))

ProcessTypes ==
  /\ lock \in Processes \cup {None}
  /\ pc \in [Processes -> Running \cup {"closed", "new", "scan"}]
  /\ options \in [Processes -> Options \cup {NoOptions}]
  /\ inner \in [Processes -> Store]
  /\ durable_len \in [Processes -> Nat]
  /\ pending \in [Processes -> Seq(StoredEvent)]

\* The advisory lock: whoever is past it holds it, so there is only one.
Locked == \A p \in Processes : pc[p] # "closed" => lock = p

ProcessesOK ==
  \A p \in Processes : ProcessOK(pc[p], inner[p], durable_len[p], pending[p], file, acked)

\* The inductive invariant.
Inv ==
  /\ ProcessTypes
  /\ FileOK(file, disk, acked, secured, lost_power)
  /\ Locked
  /\ ProcessesOK

\* Journals with the same first items have the same first batches.
LEMMA SameBatches ==
  ASSUME NEW f \in Seq(Item), NEW g \in Seq(Item), NEW n \in 0..Len(f), n <= Len(g),
         \A k \in 1..n : g[k] = f[k]
  PROVE  BatchesUpTo(g, n) = BatchesUpTo(f, n)
<1> DEFINE m == IF n = 0 THEN 0 ELSE n - 1
<1>1. Len(f) \in Nat /\ Len(g) \in Nat /\ n \in Nat /\ n \in 0..Len(g)
  BY ItemFields
<1>2. /\ BatchesUpTo(f, n) \in Seq(Seq(StoredEvent)) /\ Len(BatchesUpTo(f, n)) = m
      /\ \A k \in 1..m : BatchesUpTo(f, n)[k] = f[k + 1].events
      /\ m \in Nat
  BY BatchesUpToItems
<1>3. /\ BatchesUpTo(g, n) \in Seq(Seq(StoredEvent)) /\ Len(BatchesUpTo(g, n)) = m
      /\ \A k \in 1..m : BatchesUpTo(g, n)[k] = g[k + 1].events
  BY <1>1, BatchesUpToItems
<1>4. \A k \in 1..m : k + 1 \in 1..n
  BY <1>1
<1> HIDE DEF m
<1>5. \A k \in 1..m : BatchesUpTo(g, n)[k] = BatchesUpTo(f, n)[k]
  BY <1>2, <1>3, <1>4
<1>6. QED
  BY <1>2, <1>3, <1>5, SeqEqual

\* What scan returns when it does not fail: all of the readable journal.
LEMMA ScanReads ==
  ASSUME NEW f \in Seq(Item), NEW max \in Nat,
         Scan(f, max).outcome \in {"Complete", "PartialTail"}
  PROVE  /\ Scan(f, max).durable_len = Readable(f)
         /\ Scan(f, max).events = FlattenSeq(BatchesOf(f))
         /\ Readable(f) \in 1..Len(f) /\ Frames(f, 1)
<1> DEFINE n == ReadableLen(f, max)
<1>1. /\ Scan(f, max).durable_len = n
      /\ Scan(f, max).events = FlattenSeq(BatchesUpTo(f, n))
      /\ n # 0
      /\ n = Len(f) \/ f[n + 1].kind = "torn"
  BY DEF Scan
<1>2. Len(f) \in Nat /\ n \in 0..Len(f)
  BY ItemFields, ReadableLenGreatest
<1>3. Frames(f, n)
  BY ReadableLenGreatest DEF Frames, FrameAt
<1> HIDE DEF n
<1>4. n = Len(f) \/ ~FrameAt(f, n + 1)
  <2>1. n + 1 # 1
    BY <1>1, <1>2
  <2>2. QED
    BY <1>1, <2>1 DEF FrameAt
<1>5. Readable(f) = n
  BY <1>2, <1>3, <1>4, ReadableIs
<1>6. BatchesOf(f) = BatchesUpTo(f, n)
  BY <1>5 DEF BatchesOf, Readable
<1>7. Frames(f, 1)
  <2>1. 1 \in 1..n
    BY <1>1, <1>2
  <2>2. FrameAt(f, 1)
    BY <1>3, <2>1 DEF Frames
  <2>3. QED
    BY <2>2 DEF Frames
<1>8. QED
  BY <1>1, <1>2, <1>5, <1>6, <1>7

\* A journal truncated inside its readable part.
LEMMA TruncatedBatches ==
  ASSUME NEW f \in Seq(Item), NEW n \in 0..Readable(f)
  PROVE  /\ SubSeq(f, 1, n) \in Seq(Item)
         /\ Readable(SubSeq(f, 1, n)) = n
         /\ BatchesOf(SubSeq(f, 1, n)) = BatchesUpTo(f, n)
         /\ BatchesUpTo(SubSeq(f, 1, n), n) = BatchesUpTo(f, n)
<1> DEFINE g == SubSeq(f, 1, n)
<1>1. Readable(f) \in 0..Len(f) /\ n \in 0..Len(f) /\ n <= Readable(f)
  <2>1. Len(f) \in Nat /\ Readable(f) \in 0..Len(f)
    BY ItemFields, ReadableFrames
  <2>2. QED
    BY <2>1
<1>2. g \in Seq(Item) /\ CutTo(g, f, n)
  BY <1>1, TruncatedCut
<1> HIDE DEF g
<1>3. Readable(g) = n
  BY <1>1, <1>2, CutReadable
<1>4. BatchesOf(g) = BatchesUpTo(f, n)
  BY <1>2, <1>3, CutBatches
<1>5. BatchesOf(g) = BatchesUpTo(g, n)
  BY <1>3 DEF BatchesOf, Readable
<1>6. QED
  BY <1>2, <1>3, <1>4, <1>5 DEF g

\* A process that has just restored the readable journal.
LEMMA RestoredProcess ==
  ASSUME NEW f, NEW d, NEW a, NEW s, NEW lost, FileOK(f, d, a, s, lost), Readable(f) >= 1, NEW b
  PROVE  ProcessOK("open", Restore(FlattenSeq(BatchesOf(f))), Readable(f), b, f, a)
<1>1. /\ Len(f) \in Nat /\ Readable(f) \in 0..Len(f) /\ Len(a) \in Nat
      /\ a # <<>> => Len(a) + 1 <= Readable(f)
      /\ Len(a) = 0 => a = <<>>
  BY HistoryLengths
<1>2. Len(a) + 1 <= Readable(f)
  <2>1. CASE a = <<>>
    BY <1>1, <2>1, EmptySeq
  <2>2. CASE a # <<>>
    BY <1>1, <2>2
  <2>3. QED
    BY <2>1, <2>2
<1>3. BatchesOf(f) = BatchesUpTo(f, Readable(f))
  BY DEF BatchesOf, Readable
<1>4. Readable(f) \in 1..Readable(f)
  BY <1>1
<1>5. QED
  BY <1>2, <1>3, <1>4 DEF ProcessOK

\* Nobody else is past the lock.
LEMMA Alone ==
  ASSUME Locked, NEW p \in Processes, pc[p] # "closed" \/ lock = None
  PROVE  \A q \in Processes \ {p} : pc[q] = "closed"
BY FileAssumption DEF Locked

\* A step of the process that holds or takes the lock concerns no other.
LEMMA OneProcess ==
  ASSUME Locked, ProcessTypes, NEW p \in Processes, pc[p] # "closed" \/ lock = None,
         NEW place, pc' = [pc EXCEPT ![p] = place], place = "closed" \/ lock' = p,
         ProcessOK(place, inner'[p], durable_len'[p], pending'[p], file', acked')
  PROVE  Locked' /\ ProcessesOK'
<1>1. \A q \in Processes \ {p} : pc[q] = "closed"
  BY Alone
<1>2. pc'[p] = place /\ \A q \in Processes \ {p} : pc'[q] = "closed"
  BY <1>1 DEF ProcessTypes
<1>3. Locked'
  BY <1>2 DEF Locked
<1>4. ASSUME NEW q \in Processes
      PROVE  ProcessOK(pc'[q], inner'[q], durable_len'[q], pending'[q], file', acked')
  <2>1. CASE q = p
    BY <1>2, <2>1
  <2>2. CASE q # p
    BY <1>2, <2>2 DEF ProcessOK, Running
  <2>3. QED
    BY <2>1, <2>2
<1>5. QED
  BY <1>3, <1>4 DEF ProcessesOK

\* Closing a store, whatever happened to the file.
LEMMA CloseProcess ==
  ASSUME Locked, ProcessTypes, NEW p \in Processes, pc[p] # "closed", Close(p)
  PROVE  Locked' /\ ProcessesOK' /\ ProcessTypes'
<1>1. ProcessTypes'
  <2>1. EmptyStore \in Store /\ 0 \in Nat /\ <<>> \in Seq(StoredEvent)
    BY EmptyStoreWellFormed, EmptySeq
  <2>2. QED
    BY <2>1 DEF Close, ProcessTypes
<1>2. pc' = [pc EXCEPT ![p] = "closed"]
  BY DEF Close
<1>3. ProcessOK("closed", inner'[p], durable_len'[p], pending'[p], file', acked')
  BY DEF ProcessOK, Running
<1>4. QED
  BY <1>1, <1>2, <1>3, OneProcess

\* What sync leaves on the disk is the file, or the disk as it was.
LEMMA SyncedDisk ==
  ASSUME NEW p, NEW f PROVE Synced(p, f) = f \/ Synced(p, f) = disk
BY DEF Synced


-----------------------------------------------------------------------------
\* A step as a reader of the durable log sees it.
LogStep == [Abstract!Next]_(Abstract!vars)

\* The parts of the invariant.
LEMMA InvParts ==
  ASSUME Inv
  PROVE  /\ ProcessTypes /\ Locked /\ ProcessesOK
         /\ FileOK(file, disk, acked, secured, lost_power)
         /\ file \in Seq(Item) /\ disk \in Seq(Item)
         /\ \A p \in Processes :
              /\ ProcessOK(pc[p], inner[p], durable_len[p], pending[p], file, acked)
              /\ options[p].max_frame \in Nat
              /\ inner[p] \in Store
<1>1. ProcessTypes /\ Locked /\ ProcessesOK /\ FileOK(file, disk, acked, secured, lost_power)
  BY DEF Inv
<1>2. file \in Seq(Item) /\ disk \in Seq(Item)
  BY <1>1 DEF FileOK, IsJournal
<1>3. ASSUME NEW p \in Processes
      PROVE  /\ ProcessOK(pc[p], inner[p], durable_len[p], pending[p], file, acked)
             /\ options[p].max_frame \in Nat
             /\ inner[p] \in Store
  BY <1>1, FileAssumption DEF ProcessesOK, ProcessTypes, NoOptions
<1> QED
  BY <1>1, <1>2, <1>3

\* The prefix relation of the instance is the prefix relation.
LEMMA SamePrefix ==
  ASSUME NEW s, NEW t PROVE Abstract!IsPrefix(s, t) <=> IsPrefix(s, t)
BY DEF IsPrefix, Abstract!IsPrefix

\* A sequence is a prefix of itself with one more element.
LEMMA AppendedPrefix ==
  ASSUME NEW S, NEW s \in Seq(S), NEW e \in S
  PROVE  IsPrefix(s, Append(s, e))
<1> DEFINE t == Append(s, e)
<1>1. /\ t \in Seq(S) /\ Len(t) = Len(s) + 1 /\ Len(s) \in Nat
      /\ \A k \in 1..Len(s) : t[k] = s[k]
  BY AppendProperties, LenProperties
<1> HIDE DEF t
<1>2. SubSeq(t, 1, Len(s)) = SubSeq(s, 1, Len(s))
  BY <1>1
<1>3. QED
  BY <1>1, <1>2 DEF IsPrefix, t

\* The first elements of a sequence are a prefix of it.
LEMMA BeginningPrefix ==
  ASSUME NEW S, NEW s \in Seq(S), NEW n \in 0..Len(s)
  PROVE  /\ IsPrefix(SubSeq(s, 1, n), s)
         /\ Len(SubSeq(s, 1, n)) = n
         /\ n = Len(s) => SubSeq(s, 1, n) = s
<1>1. Len(s) \in Nat
  BY LenProperties
<1>2. /\ SubSeq(s, 1, n) \in Seq(S) /\ Len(SubSeq(s, 1, n)) = n
      /\ \A k \in 1..n : SubSeq(s, 1, n)[k] = s[k]
  BY <1>1, SubSeqProperties
<1>3. SubSeq(SubSeq(s, 1, n), 1, n) = SubSeq(s, 1, n)
  BY <1>1, <1>2
<1>4. n = Len(s) => SubSeq(s, 1, n) = s
  BY <1>1, <1>2, SeqEqual
<1>5. QED
  BY <1>1, <1>2, <1>3, <1>4 DEF IsPrefix

\* No step of the log: the batches and the histories stay.
LEMMA LogStutters ==
  ASSUME BatchesOf(file') = BatchesOf(file), acked' = acked, secured' = secured
  PROVE  LogStep
BY DEF LogStep, Abstract!vars

\* open takes the lock and looks at the length.
LEMMA OpenStep ==
  ASSUME Inv, NEW p \in Processes, NEW o \in Options, Open(p, o)
  PROVE  Inv' /\ LogStep
<1> DEFINE place == IF file = <<>> THEN "new" ELSE "scan"
<1>1. ProcessTypes /\ Locked /\ FileOK(file, disk, acked, secured, lost_power)
  BY InvParts
<1>2. /\ pc[p] = "closed" /\ lock = None /\ lock' = p
      /\ options' = [options EXCEPT ![p] = o]
      /\ pc' = [pc EXCEPT ![p] = place]
      /\ file' = file /\ disk' = disk /\ inner' = inner /\ durable_len' = durable_len
      /\ pending' = pending /\ acked' = acked /\ secured' = secured /\ lost_power' = lost_power
  BY DEF Open, Goto, history
<1>3. ProcessOK(place, inner'[p], durable_len'[p], pending'[p], file', acked')
  BY <1>2 DEF ProcessOK, Running
<1>4. Locked' /\ ProcessesOK'
  BY <1>1, <1>2, <1>3, OneProcess
<1>5. ProcessTypes'
  BY <1>1, <1>2 DEF ProcessTypes
<1>6. FileOK(file, disk, acked, secured, lost_power)'
  BY <1>1, <1>2
<1> QED
  BY <1>2, <1>4, <1>5, <1>6, LogStutters DEF Inv

\* A new journal gets its header, or a part of it.
LEMMA WriteHeaderStep ==
  ASSUME Inv, NEW p \in Processes, WriteHeader(p)
  PROVE  Inv' /\ LogStep
<1>1. /\ ProcessTypes /\ Locked /\ FileOK(file, disk, acked, secured, lost_power)
      /\ ProcessOK(pc[p], inner[p], durable_len[p], pending[p], file, acked)
  BY InvParts
<1>2. pc[p] = "new" /\ acked' = acked /\ secured' = secured /\ lost_power' = lost_power
  BY DEF WriteHeader, history
<1>3. file = <<>>
  BY <1>1, <1>2 DEF ProcessOK
<1>4. /\ file' \in {<<>>, <<Header>>, <<Torn(0)>>}
      /\ disk' = disk \/ disk' = file'
  BY SyncedDisk DEF WriteHeader
<1>5. FileOK(<<>>, disk, acked, secured, lost_power)
  BY <1>1, <1>3
<1>6. /\ FileOK(file', disk, acked, secured, lost_power) /\ BatchesOf(file') = <<>>
      /\ BatchesOf(file) = <<>>
  BY <1>3, <1>4, <1>5, FileBegun
<1>7. FileOK(file', file', acked, secured, lost_power)
  BY <1>6, FileSynced
<1>8. FileOK(file, disk, acked, secured, lost_power)'
  BY <1>2, <1>4, <1>6, <1>7
<1>9. Locked' /\ ProcessesOK' /\ ProcessTypes'
  <2>1. CASE Close(p)
    BY <1>1, <1>2, <2>1, CloseProcess
  <2>2. CASE /\ pc' = [pc EXCEPT ![p] = "scan"]
             /\ UNCHANGED <<lock, options, inner, durable_len, pending>>
    <3>1. ProcessOK("scan", inner'[p], durable_len'[p], pending'[p], file', acked')
      BY DEF ProcessOK, Running
    <3>2. lock = p
      BY <1>1, <1>2 DEF Locked
    <3>3. Locked' /\ ProcessesOK'
      BY <1>1, <1>2, <2>2, <3>1, <3>2, OneProcess
    <3> QED
      BY <1>1, <2>2, <3>3 DEF ProcessTypes
  <2> QED
    BY <2>1, <2>2 DEF WriteHeader, Goto
<1> QED
  BY <1>2, <1>6, <1>8, <1>9, LogStutters DEF Inv

\* What scan and restore give the process that opens a journal.
LEMMA OpenedProcess ==
  ASSUME Inv, NEW p \in Processes, pc[p] = "scan",
         Scan(file, options[p].max_frame).outcome \in {"Complete", "PartialTail"}
  PROVE  LET scan == Scan(file, options[p].max_frame)
             restored == Restore(scan.events)
         IN  /\ scan.durable_len = Readable(file) /\ Readable(file) \in 1..Len(file)
             /\ restored = Restore(FlattenSeq(BatchesOf(file)))
             /\ restored \in Store
             /\ Frames(file, 1)
             /\ Len(acked) + 1 <= Readable(file)
<1> DEFINE scan == Scan(file, options[p].max_frame)
<1>1. /\ FileOK(file, disk, acked, secured, lost_power) /\ file \in Seq(Item)
      /\ options[p].max_frame \in Nat
  BY InvParts
<1>2. /\ scan.durable_len = Readable(file) /\ scan.events = FlattenSeq(BatchesOf(file))
      /\ Readable(file) \in 1..Len(file) /\ Frames(file, 1)
  BY <1>1, ScanReads
<1>3. BatchesOf(file) \in Seq(Seq(StoredEvent)) /\ Restorable(BatchesOf(file))
  BY <1>1, BatchesOfItems DEF FileOK, IsJournal
<1>4. Restore(FlattenSeq(BatchesOf(file))) \in Store
  BY <1>3, RestorableStore
<1>5. Len(acked) + 1 <= Readable(file)
  BY <1>1, <1>2, HistoryLengths
<1> QED
  BY <1>2, <1>4, <1>5

\* A whole journal is read into memory, or the open fails.
LEMMA ScanJournalStep ==
  ASSUME Inv, NEW p \in Processes, ScanJournal(p)
  PROVE  Inv' /\ LogStep
<1> DEFINE scan == Scan(file, options[p].max_frame)
           restored == Restore(scan.events)
<1>1. ProcessTypes /\ Locked /\ FileOK(file, disk, acked, secured, lost_power)
  BY InvParts
<1>2. /\ pc[p] = "scan"
      /\ file' = file /\ disk' = disk
      /\ acked' = acked /\ secured' = secured /\ lost_power' = lost_power
  BY DEF ScanJournal, history
<1>3. FileOK(file, disk, acked, secured, lost_power)'
  BY <1>1, <1>2
<1>4. Locked' /\ ProcessesOK' /\ ProcessTypes'
  <2>1. CASE Close(p)
    BY <1>1, <1>2, <2>1, CloseProcess
  <2>2. CASE /\ scan.outcome = "Complete"
             /\ inner' = [inner EXCEPT ![p] = restored]
             /\ durable_len' = [durable_len EXCEPT ![p] = scan.durable_len]
             /\ pc' = [pc EXCEPT ![p] = "open"]
             /\ UNCHANGED <<lock, options, pending>>
    <3>1. /\ scan.durable_len = Readable(file) /\ Readable(file) \in 1..Len(file)
          /\ restored = Restore(FlattenSeq(BatchesOf(file))) /\ restored \in Store
      BY <1>2, <2>2, OpenedProcess
    <3>2. Len(file) \in Nat
      BY <1>1, HistoryLengths
    <3>3. inner'[p] = restored /\ durable_len'[p] = Readable(file)
      BY <1>1, <2>2, <3>1 DEF ProcessTypes
    <3>4. ProcessOK("open", inner'[p], durable_len'[p], pending'[p], file', acked')
      BY <1>1, <1>2, <3>1, <3>2, <3>3, RestoredProcess
    <3>5. lock = p
      BY <1>1, <1>2 DEF Locked
    <3>6. Locked' /\ ProcessesOK'
      BY <1>1, <1>2, <2>2, <3>4, <3>5, OneProcess
    <3>7. ProcessTypes'
      <4> HIDE DEF restored, scan
      <4> QED BY <1>1, <2>2, <3>1, <3>2 DEF ProcessTypes, Running
    <3> QED
      BY <3>6, <3>7
  <2> QED
    BY <2>1, <2>2 DEF ScanJournal, Goto
<1> QED
  BY <1>2, <1>3, <1>4, LogStutters DEF Inv

\* A partial tail is cut off, or the open fails before, at or after that.
LEMMA TruncatePartialTailStep ==
  ASSUME Inv, NEW p \in Processes, TruncatePartialTail(p)
  PROVE  Inv' /\ LogStep
<1> DEFINE scan == Scan(file, options[p].max_frame)
           restored == Restore(scan.events)
           n == Readable(file)
           cut == SubSeq(file, 1, n)
<1>1. /\ ProcessTypes /\ Locked /\ FileOK(file, disk, acked, secured, lost_power)
      /\ file \in Seq(Item)
  BY InvParts
<1>2. /\ pc[p] = "scan" /\ scan.outcome = "PartialTail"
      /\ acked' = acked /\ secured' = secured /\ lost_power' = lost_power
  BY DEF TruncatePartialTail, history
<1>3. /\ scan.durable_len = n /\ n \in 1..Len(file)
      /\ restored = Restore(FlattenSeq(BatchesOf(file))) /\ restored \in Store
      /\ Frames(file, 1) /\ Len(acked) + 1 <= n
  BY <1>2, OpenedProcess
<1>4. n \in Nat /\ n \in 0..n /\ n >= 1
  BY <1>1, <1>3, HistoryLengths
<1>5. /\ FileOK(cut, disk, acked, secured, lost_power)
      /\ Readable(cut) = n
      /\ BatchesOf(cut) = BatchesOf(file)
  <2>1. FileOK(cut, disk, acked, secured, lost_power)
    BY <1>1, <1>3, FileTruncated
  <2>2. Readable(cut) = n /\ BatchesOf(cut) = BatchesUpTo(file, n)
    BY <1>1, <1>4, TruncatedBatches
  <2>3. BatchesOf(file) = BatchesUpTo(file, n)
    BY DEF BatchesOf, Readable
  <2> QED
    BY <2>1, <2>2, <2>3
<1>6. FileOK(cut, cut, acked, secured, lost_power)
  BY <1>5, FileSynced
<1>7. /\ file' = file \/ file' = cut
      /\ disk' = disk \/ (file' = cut /\ disk' = cut)
  BY <1>3, SyncedDisk DEF TruncatePartialTail
<1>8. FileOK(file, disk, acked, secured, lost_power)'
  <2>1. FileOK(file', disk', acked, secured, lost_power)
    BY <1>1, <1>5, <1>6, <1>7
  <2> QED
    BY <1>2, <2>1
<1>9. BatchesOf(file') = BatchesOf(file)
  BY <1>5, <1>7
<1>10. Locked' /\ ProcessesOK' /\ ProcessTypes'
  <2>1. CASE Close(p)
    BY <1>1, <1>2, <2>1, CloseProcess
  <2>2. CASE /\ file' = SubSeq(file, 1, scan.durable_len)
             /\ inner' = [inner EXCEPT ![p] = restored]
             /\ durable_len' = [durable_len EXCEPT ![p] = scan.durable_len]
             /\ pc' = [pc EXCEPT ![p] = "open"]
             /\ UNCHANGED <<lock, options, pending>>
    <3>1. inner'[p] = restored /\ durable_len'[p] = n /\ file' = cut
      BY <1>1, <1>3, <2>2 DEF ProcessTypes
    <3>2. restored = Restore(FlattenSeq(BatchesOf(cut))) /\ Readable(cut) >= 1
      BY <1>3, <1>4, <1>5
    <3>3. ProcessOK("open", restored, n, pending'[p], cut, acked)
      <4>1. ProcessOK("open", Restore(FlattenSeq(BatchesOf(cut))), Readable(cut), pending'[p], cut, acked)
        BY <1>5, <3>2, RestoredProcess
      <4> HIDE DEF restored, cut, n
      <4> QED BY <4>1, <3>2, <1>5
    <3>4. ProcessOK("open", inner'[p], durable_len'[p], pending'[p], file', acked')
      BY <1>2, <3>1, <3>3
    <3>5. lock = p
      BY <1>1, <1>2 DEF Locked
    <3>6. Locked' /\ ProcessesOK'
      BY <1>1, <1>2, <2>2, <3>4, <3>5, OneProcess
    <3>7. ProcessTypes'
      <4> HIDE DEF restored, scan, n
      <4> QED BY <1>1, <2>2, <1>3, <1>4 DEF ProcessTypes, Running
    <3> QED
      BY <3>6, <3>7
  <2> QED
    BY <2>1, <2>2 DEF TruncatePartialTail, Goto
<1> QED
  BY <1>2, <1>8, <1>9, <1>10, LogStutters DEF Inv

\* The end of a process.
LEMMA KillStep ==
  ASSUME Inv, NEW p \in Processes, Kill(p)
  PROVE  Inv' /\ LogStep
<1>1. ProcessTypes /\ Locked /\ FileOK(file, disk, acked, secured, lost_power)
  BY InvParts
<1>2. /\ pc[p] # "closed" /\ Close(p)
      /\ file' = file /\ disk' = disk
      /\ acked' = acked /\ secured' = secured /\ lost_power' = lost_power
  BY DEF Kill, history
<1>3. Locked' /\ ProcessesOK' /\ ProcessTypes'
  BY <1>1, <1>2, CloseProcess
<1>4. FileOK(file, disk, acked, secured, lost_power)'
  BY <1>1, <1>2
<1> QED
  BY <1>2, <1>3, <1>4, LogStutters DEF Inv

\* The operating system writes back what it pleases.
LEMMA WritebackStep ==
  ASSUME Inv, Writeback
  PROVE  Inv' /\ LogStep
<1>1. ProcessTypes /\ Locked /\ ProcessesOK /\ FileOK(file, disk, acked, secured, lost_power)
  BY InvParts
<1>2. /\ disk' \in DiskImages(disk, file)
      /\ UNCHANGED <<file, lock, pc, options, inner, durable_len, pending,
                     acked, secured, lost_power>>
  BY DEF Writeback, process, history
<1>3. FileOK(file, disk, acked, secured, lost_power)'
  BY <1>1, <1>2, FileWrittenBack
<1>4. ProcessTypes' /\ Locked'
  BY <1>1, <1>2 DEF ProcessTypes, Locked
<1>5. ProcessesOK'
  BY <1>1, <1>2 DEF ProcessesOK
<1> QED
  BY <1>2, <1>3, <1>4, <1>5, LogStutters DEF Inv

\* Power is lost: the log keeps what was secured.
LEMMA LosePowerStep ==
  ASSUME Inv, LosePower
  PROVE  Inv' /\ LogStep
<1>1. FileOK(file, disk, acked, secured, lost_power) /\ disk \in Seq(Item)
  BY InvParts
<1>2. /\ file' = disk /\ disk' = disk /\ acked' = secured /\ secured' = secured
      /\ lost_power' = TRUE
      /\ lock' = None
      /\ pc' = [p \in Processes |-> "closed"]
      /\ options' = [p \in Processes |-> NoOptions]
      /\ inner' = [p \in Processes |-> EmptyStore]
      /\ durable_len' = [p \in Processes |-> 0]
      /\ pending' = [p \in Processes |-> <<>>]
  BY DEF LosePower
<1>3. FileOK(file, disk, acked, secured, lost_power)'
  BY <1>1, <1>2, FilePowerLost
<1>4. ProcessTypes' /\ Locked'
  BY <1>2, EmptyStoreWellFormed, EmptySeq DEF ProcessTypes, Locked
<1>5. ProcessesOK'
  BY <1>2 DEF ProcessesOK, ProcessOK, Running
<1>6. IsPrefix(secured, BatchesOf(disk))
  BY <1>1, HeadsRead DEF FileOK
<1>7. LogStep
  <2>1. Abstract!IsPrefix(secured, BatchesOf(disk))
    BY <1>6, SamePrefix
  <2> QED
    BY <1>2, <2>1 DEF LogStep, Abstract!Next, Abstract!LosePower
<1> QED
  BY <1>3, <1>4, <1>5, <1>7 DEF Inv

\* A running store still matches a journal that keeps the items it accounts for.
LEMMA RunningKept ==
  ASSUME NEW f \in Seq(Item), NEW g \in Seq(Item), NEW place \in Running, NEW to \in {"open", "rollback"},
         NEW st, NEW len, NEW b, NEW c, NEW a, ProcessOK(place, st, len, b, f, a),
         len <= Readable(g), \A k \in 1..len : g[k] = f[k]
  PROVE  ProcessOK(to, st, len, c, g, a)
<1>1. len \in 1..Readable(f) /\ st = Restore(FlattenSeq(BatchesUpTo(f, len))) /\ Len(a) + 1 <= len
  BY DEF ProcessOK
<1>2. /\ Readable(f) \in 0..Len(f) /\ Readable(g) \in 0..Len(g)
      /\ Len(f) \in Nat /\ Len(g) \in Nat
  BY ItemFields, ReadableFrames
<1>3. len \in 0..Len(f) /\ len <= Len(g) /\ len \in 1..Readable(g)
  BY <1>1, <1>2
<1>4. BatchesUpTo(g, len) = BatchesUpTo(f, len)
  BY <1>3, SameBatches
<1>5. st = Restore(FlattenSeq(BatchesUpTo(g, len)))
  BY <1>1, <1>4
<1>6. to # "new" /\ to # "written"
  OBVIOUS
<1>7. QED
  BY <1>1, <1>3, <1>5, <1>6 DEF ProcessOK

\* The batches a caller may append.
LEMMA CallerBatches ==
  ASSUME NEW ids \in Batches
  PROVE  ids \in Seq(EventIds) /\ ids # <<>> /\ Len(ids) \in 1..MaxBatch
<1>1. MaxBatch \in Nat
  BY FileAssumption
<1>2. PICK n \in 1..MaxBatch : ids \in [1..n -> EventIds]
  BY DEF Batches
<1>3. n \in Nat /\ n >= 1
  BY <1>1, <1>2
<1>4. ids \in Seq(EventIds) /\ Len(ids) = n
  BY <1>2, <1>3, IsASeq
<1>5. ids # <<>>
  BY <1>3, <1>4
<1>6. QED
  BY <1>2, <1>4, <1>5

\* A batch that persist accepts: written whole, it gives a journal whose
\* restore is what the in-memory store becomes when it commits.
LEMMA PersistedBatch ==
  ASSUME NEW f, NEW d, NEW a, NEW sec, NEW lost, FileOK(f, d, a, sec, lost),
         NEW st, NEW len, NEW c, ProcessOK("open", st, len, c, f, a), Len(f) = len,
         NEW s \in Streams, NEW ids \in Batches, UniqueIds(st.event_ids, ids)
  PROVE  LET b == PrepareAppend(st, s, ids)
             g == Append(f, Batch(b))
         IN  /\ Readable(f) = len /\ len \in 1..Len(f) /\ Len(a) + 1 <= Len(f)
             /\ b \in Seq(StoredEvent) /\ Len(b) <= MaxBatch
             /\ FileOK(g, d, a, sec, lost)
             /\ BatchesOf(g) = Append(BatchesOf(f), b)
             /\ ProcessOK("written", st, len, b, g, a)
<1> DEFINE b == PrepareAppend(st, s, ids)
           g == Append(f, Batch(b))
           new == CommitPrepared(st, b)
           old == BatchesOf(f)
<1>1. f \in Seq(Item) /\ Len(f) \in Nat /\ Readable(f) \in 0..Len(f)
  BY HistoryLengths
<1>2. len \in 1..Readable(f) /\ st = Restore(FlattenSeq(BatchesUpTo(f, len))) /\ Len(a) + 1 <= len
  BY DEF ProcessOK, Running
<1>3. Readable(f) = len /\ len \in 1..Len(f) /\ Len(a) + 1 <= Len(f) /\ len \in Nat
  BY <1>1, <1>2
<1>4. BatchesUpTo(f, len) = old
  BY <1>3 DEF BatchesOf, Readable
<1>5. old \in Seq(Seq(StoredEvent)) /\ Restorable(old)
  BY <1>1, BatchesOfItems DEF FileOK, IsJournal
<1>6. st \in Store /\ WellFormed(st) /\ st.events = FlattenSeq(old)
  BY <1>2, <1>4, <1>5, RestorableStore
<1>7. ids \in Seq(EventIds) /\ ids # <<>> /\ Len(ids) <= MaxBatch
  BY CallerBatches, FileAssumption
<1>8. b \in Seq(StoredEvent) /\ Len(b) <= MaxBatch
  BY <1>6, <1>7, PreparedBatch
<1>9. new \in Store /\ new.events = st.events \o b /\ WellFormed(new)
  <2>1. Extended(st, new, s, b)
    BY <1>6, <1>7, CommittedStore
  <2>2. WellFormed(new)
    BY <1>6, <1>7, CommitWellFormed
  <2> HIDE DEF b, new
  <2>3. QED
    BY <2>1, <2>2 DEF Extended
<1> HIDE DEF b, new, old
<1>10. Append(old, b) \in Seq(Seq(StoredEvent)) /\ FlattenSeq(Append(old, b)) = new.events
  BY <1>5, <1>6, <1>8, <1>9, FlattenAppend, AppendProperties
<1>11. Restorable(Append(old, b)) /\ Restore(FlattenSeq(Append(old, b))) = new
  BY <1>9, <1>10, RestorableStore
<1>12. Restorable(Append(BatchesOf(f), b))
  BY <1>11 DEF old
<1>13. FileOK(g, d, a, sec, lost) /\ Readable(g) = len + 1 /\ BatchesOf(g) = Append(old, b)
  <2>1. Readable(f) = Len(f)
    BY <1>3
  <2>2. /\ FileOK(g, d, a, sec, lost) /\ Readable(g) = Len(f) + 1
        /\ BatchesOf(g) = Append(BatchesOf(f), b)
    BY <1>3, <1>8, <1>12, <2>1, FileExtended
  <2>3. QED
    BY <2>2 DEF old
<1>14. /\ g \in Seq(Item) /\ Len(g) = len + 1 /\ g[len + 1] = Batch(b)
       /\ \A k \in 1..len : g[k] = f[k]
  BY <1>1, <1>8, ItemKinds, AppendProperties
<1> HIDE DEF g
<1>15. BatchesUpTo(g, len + 1) = Append(old, b)
  BY <1>13 DEF BatchesOf, Readable
<1>16. BatchesUpTo(g, len) = old
  BY <1>1, <1>3, <1>4, <1>14, SameBatches
<1>17. ProcessOK("written", st, len, b, g, a)
  <2>1. len \in 1..Readable(g)
    BY <1>3, <1>13
  <2>2. st = Restore(FlattenSeq(BatchesUpTo(g, len)))
    BY <1>2, <1>4, <1>16
  <2>3. CommitPrepared(st, b) = Restore(FlattenSeq(BatchesUpTo(g, len + 1)))
    BY <1>11, <1>15 DEF new
  <2>4. QED
    BY <1>2, <1>14, <2>1, <2>2, <2>3 DEF ProcessOK
<1>18. QED
  BY <1>3, <1>8, <1>13, <1>17 DEF g, b, old

\* append and persist up to the end of the write, whole or cut short.
LEMMA WriteBatchStep ==
  ASSUME Inv, NEW p \in Processes, NEW s \in Streams, NEW ids \in Batches, NEW expected,
         WriteBatch(p, s, expected, ids)
  PROVE  Inv' /\ LogStep
<1> DEFINE st == inner[p]
           len == durable_len[p]
           b == PrepareAppend(st, s, ids)
           item == Batch(b)
<1>1. /\ ProcessTypes /\ Locked /\ FileOK(file, disk, acked, secured, lost_power)
      /\ ProcessOK(pc[p], st, len, pending[p], file, acked)
      /\ file \in Seq(Item)
  BY InvParts
<1>2. /\ pc[p] = "open" /\ Len(file) = len /\ UniqueIds(st.event_ids, ids)
      /\ disk' = disk /\ lock' = lock /\ options' = options /\ inner' = inner
      /\ durable_len' = durable_len
      /\ acked' = acked /\ secured' = secured /\ lost_power' = lost_power
  BY DEF WriteBatch, CanPersist, CanPrepare, history
<1>3. /\ Readable(file) = len /\ len \in 1..Len(file) /\ Len(acked) + 1 <= Len(file)
      /\ b \in Seq(StoredEvent) /\ Len(b) <= MaxBatch
      /\ FileOK(Append(file, item), disk, acked, secured, lost_power)
      /\ BatchesOf(Append(file, item)) = Append(BatchesOf(file), b)
      /\ ProcessOK("written", st, len, b, Append(file, item), acked)
  BY <1>1, <1>2, PersistedBatch
<1>4. item \in Item /\ \A rest \in Remains(item) : rest \in Item /\ rest.kind = "torn"
  BY <1>3, ItemKinds DEF Remains
<1>5. lock = p
  BY <1>1, <1>2 DEF Locked
<1>6. CASE /\ file' = WriteAt(file, len, item)
           /\ pending' = [pending EXCEPT ![p] = b]
           /\ pc' = [pc EXCEPT ![p] = "written"]
  <2>1. file' = Append(file, item)
    BY <1>1, <1>2, <1>4, <1>6, WriteAtEnd
  <2>2. ProcessOK("written", inner'[p], durable_len'[p], pending'[p], file', acked')
    <3>1. pending'[p] = b
      BY <1>1, <1>6 DEF ProcessTypes
    <3> QED
      BY <1>2, <1>3, <2>1, <3>1
  <2>3. Locked' /\ ProcessesOK'
    BY <1>1, <1>2, <1>5, <1>6, <2>2, OneProcess
  <2>4. ProcessTypes'
    <3> HIDE DEF b
    <3> QED BY <1>1, <1>2, <1>3, <1>6 DEF ProcessTypes, Running
  <2>5. FileOK(file, disk, acked, secured, lost_power)'
    BY <1>2, <1>3, <2>1
  <2>6. LogStep
    <3>1. BatchesOf(file) \in Seq(Seq(StoredEvent))
      BY <1>1, BatchesOfItems
    <3>2. BatchesOf(file)' = Append(BatchesOf(file), b)
      BY <1>3, <2>1
    <3>3. Len(BatchesOf(file)') = Len(BatchesOf(file)) + 1
      BY <1>3, <3>1, <3>2, AppendProperties
    <3>4. Abstract!IsPrefix(BatchesOf(file), BatchesOf(file)')
      <4>1. IsPrefix(BatchesOf(file), Append(BatchesOf(file), b))
        BY <1>3, <3>1, AppendedPrefix
      <4> QED
        BY <3>2, <4>1, SamePrefix
    <3>5. Abstract!Extend
      BY <1>2, <3>3, <3>4 DEF Abstract!Extend
    <3> QED
      BY <3>5 DEF LogStep, Abstract!Next
  <2> QED
    BY <2>3, <2>4, <2>5, <2>6 DEF Inv
<1>7. CASE /\ file' \in {file} \cup {WriteAt(file, len, rest) : rest \in Remains(item)}
           /\ pc' = [pc EXCEPT ![p] = "rollback"]
           /\ pending' = pending
  <2>1. file' = file \/ \E rest \in Remains(item) : file' = Append(file, rest)
    BY <1>1, <1>2, <1>4, <1>7, WriteAtEnd
  <2>2. /\ FileOK(file', disk, acked, secured, lost_power)
        /\ BatchesOf(file') = BatchesOf(file)
        /\ \A k \in 1..len : file'[k] = file[k]
    <3>1. CASE file' = file
      BY <1>1, <3>1
    <3>2. CASE \E rest \in Remains(item) : file' = Append(file, rest)
      <4>1. PICK rest \in Remains(item) : file' = Append(file, rest)
        BY <3>2
      <4>2. rest \in Item /\ rest.kind = "torn"
        BY <1>4
      <4>3. Readable(file) = Len(file)
        BY <1>2, <1>3
      <4>4. /\ FileOK(Append(file, rest), disk, acked, secured, lost_power)
            /\ BatchesOf(Append(file, rest)) = BatchesOf(file)
        BY <1>1, <1>3, <4>2, <4>3, FileTorn
      <4>5. \A k \in 1..len : Append(file, rest)[k] = file[k]
        BY <1>1, <1>2, <4>2, AppendProperties
      <4> QED
        BY <4>1, <4>4, <4>5
    <3> QED
      BY <2>1, <3>1, <3>2
  <2>3. file' \in Seq(Item) /\ Readable(file') \in Nat /\ Len(file') \in Nat
    BY <2>2, HistoryLengths
  <2>4. len <= Readable(file')
    <3>1. Frames(file, len) /\ len \in Nat
      BY <1>1, <1>3, ReadableFrames, ItemFields
    <3>2. Frames(file', len)
      BY <2>2, <3>1 DEF Frames, FrameAt
    <3>3. Len(file) <= Len(file')
      BY <1>1, <1>2, <1>4, <2>1, AppendProperties, ItemFields
    <3>4. len \in 0..Len(file')
      BY <1>2, <2>3, <3>1, <3>3
    <3> QED
      BY <2>3, <3>2, <3>4, ReadableFrames
  <2>5. ProcessOK("rollback", inner'[p], durable_len'[p], pending'[p], file', acked')
    <3>1. ProcessOK("rollback", st, len, pending'[p], file', acked)
      BY <1>1, <1>2, <2>2, <2>3, <2>4, RunningKept DEF Running
    <3> QED
      BY <1>2, <3>1
  <2>6. Locked' /\ ProcessesOK'
    BY <1>1, <1>2, <1>5, <1>7, <2>5, OneProcess
  <2>7. ProcessTypes'
    BY <1>1, <1>2, <1>7 DEF ProcessTypes, Running
  <2>8. FileOK(file, disk, acked, secured, lost_power)'
    BY <1>2, <2>2
  <2> QED
    BY <1>2, <2>2, <2>6, <2>7, <2>8, LogStutters DEF Inv
<1> QED
  BY <1>6, <1>7 DEF WriteBatch, Goto

\* The written batch is committed in memory and acknowledged.
LEMMA CommitBatchStep ==
  ASSUME Inv, NEW p \in Processes, CommitBatch(p)
  PROVE  Inv' /\ LogStep
<1> DEFINE st == inner[p]
           len == durable_len[p]
           b == pending[p]
           log == BatchesOf(file)
<1>1. /\ ProcessTypes /\ Locked /\ FileOK(file, disk, acked, secured, lost_power)
      /\ ProcessOK(pc[p], st, len, b, file, acked)
      /\ file \in Seq(Item)
  BY InvParts
<1>2. /\ pc[p] = "written"
      /\ disk' = Synced(p, file)
      /\ durable_len' = [durable_len EXCEPT ![p] = len + 1]
      /\ inner' = [inner EXCEPT ![p] = CommitPrepared(st, b)]
      /\ pending' = [pending EXCEPT ![p] = <<>>]
      /\ pc' = [pc EXCEPT ![p] = "open"]
      /\ acked' = Append(BatchesUpTo(file, len), b)
      /\ secured' = IF options[p].durability = "Flush" THEN secured ELSE acked'
      /\ file' = file /\ lock' = lock /\ options' = options /\ lost_power' = lost_power
  BY DEF CommitBatch, Goto
<1>3. /\ len \in 1..Readable(file)
      /\ Len(file) = len + 1 /\ file[len + 1] = Batch(b)
      /\ CommitPrepared(st, b) = Restore(FlattenSeq(BatchesUpTo(file, len + 1)))
  BY <1>1, <1>2 DEF ProcessOK, Running
<1>4. len \in Nat /\ len >= 1 /\ len <= Readable(file) /\ b \in Seq(StoredEvent)
  BY <1>1, <1>3 DEF ProcessTypes
<1>5. /\ Append(BatchesUpTo(file, len), b) = log
      /\ Readable(file) = len + 1 /\ Len(log) = len
      /\ FileOK(file, disk, log, secured, lost_power)
      /\ FileOK(file, file, log, log, lost_power)
  BY <1>1, <1>3, <1>4, FileAcknowledged
<1>6. acked' = log
  BY <1>2, <1>5
<1>7. FileOK(file, disk, acked, secured, lost_power)'
  <2>1. \/ disk' = disk /\ secured' = secured
        \/ disk' = file /\ secured' = log
    BY <1>2, <1>6 DEF Synced
  <2> QED
    BY <1>2, <1>5, <1>6, <2>1
<1>8. BatchesUpTo(file, len + 1) = log
  BY <1>5 DEF BatchesOf, Readable
<1>9. CommitPrepared(st, b) = Restore(FlattenSeq(log)) /\ CommitPrepared(st, b) \in Store
  <2>1. CommitPrepared(st, b) = Restore(FlattenSeq(log))
    BY <1>3, <1>8
  <2>2. log \in Seq(Seq(StoredEvent)) /\ Restorable(log)
    BY <1>1, BatchesOfItems DEF FileOK, IsJournal
  <2>3. Restore(FlattenSeq(log)) \in Store
    BY <2>2, RestorableStore
  <2> QED
    BY <2>1, <2>3
<1>10. ProcessOK("open", inner'[p], durable_len'[p], pending'[p], file', acked')
  <2>1. inner'[p] = CommitPrepared(st, b) /\ durable_len'[p] = len + 1
    BY <1>1, <1>2 DEF ProcessTypes
  <2>2. len + 1 \in 1..Readable(file)
    BY <1>4, <1>5
  <2>3. inner'[p] = Restore(FlattenSeq(BatchesUpTo(file', durable_len'[p])))
    BY <1>2, <1>8, <1>9, <2>1
  <2>4. Len(acked') + 1 <= durable_len'[p]
    BY <1>4, <1>5, <1>6, <2>1
  <2>5. durable_len'[p] \in 1..Readable(file')
    BY <1>2, <2>1, <2>2
  <2> QED
    BY <2>3, <2>4, <2>5 DEF ProcessOK
<1>11. lock = p
  BY <1>1, <1>2 DEF Locked
<1>12. Locked' /\ ProcessesOK'
  BY <1>1, <1>2, <1>10, <1>11, OneProcess
<1>13. ProcessTypes'
  <2>1. <<>> \in Seq(StoredEvent) /\ len + 1 \in Nat
    BY <1>4, EmptySeq
  <2> QED
    BY <1>1, <1>2, <1>9, <2>1 DEF ProcessTypes, Running
<1>14. LogStep
  <2>1. secured' \in {secured, log}
    BY <1>2, <1>6
  <2>2. Abstract!Acknowledge
    BY <1>2, <1>6, <2>1 DEF Abstract!Acknowledge
  <2> QED
    BY <2>2 DEF LogStep, Abstract!Next
<1> QED
  BY <1>7, <1>12, <1>13, <1>14 DEF Inv

\* A failed sync leaves the frame for the rollback.
LEMMA SyncFailsStep ==
  ASSUME Inv, NEW p \in Processes, SyncFails(p)
  PROVE  Inv' /\ LogStep
<1>1. /\ ProcessTypes /\ Locked /\ FileOK(file, disk, acked, secured, lost_power)
      /\ ProcessOK(pc[p], inner[p], durable_len[p], pending[p], file, acked)
      /\ file \in Seq(Item)
  BY InvParts
<1>2. /\ pc[p] = "written"
      /\ pending' = [pending EXCEPT ![p] = <<>>]
      /\ pc' = [pc EXCEPT ![p] = "rollback"]
      /\ file' = file /\ disk' = disk /\ lock' = lock /\ options' = options /\ inner' = inner
      /\ durable_len' = durable_len
      /\ acked' = acked /\ secured' = secured /\ lost_power' = lost_power
  BY DEF SyncFails, Goto, history
<1>3. ProcessOK("rollback", inner'[p], durable_len'[p], pending'[p], file', acked')
  BY <1>1, <1>2 DEF ProcessOK, Running
<1>4. lock = p
  BY <1>1, <1>2 DEF Locked
<1>5. Locked' /\ ProcessesOK'
  BY <1>1, <1>2, <1>3, <1>4, OneProcess
<1>6. ProcessTypes'
  BY <1>1, <1>2, EmptySeq DEF ProcessTypes, Running
<1>7. FileOK(file, disk, acked, secured, lost_power)'
  BY <1>1, <1>2
<1> QED
  BY <1>2, <1>5, <1>6, <1>7, LogStutters DEF Inv

\* A failed append takes its own frame back, or leaves it.
LEMMA RollbackTailStep ==
  ASSUME Inv, NEW p \in Processes, RollbackTail(p)
  PROVE  Inv' /\ LogStep
<1> DEFINE len == durable_len[p]
           cut == SubSeq(file, 1, len)
           log == BatchesOf(file)
<1>1. /\ ProcessTypes /\ Locked /\ FileOK(file, disk, acked, secured, lost_power)
      /\ ProcessOK(pc[p], inner[p], len, pending[p], file, acked)
      /\ file \in Seq(Item)
  BY InvParts
<1>2. /\ pc[p] = "rollback"
      /\ pc' = [pc EXCEPT ![p] = "open"]
      /\ lock' = lock /\ options' = options /\ inner' = inner
      /\ durable_len' = durable_len /\ pending' = pending
      /\ acked' = acked /\ secured' = secured /\ lost_power' = lost_power
  BY DEF RollbackTail, Goto, history
<1>3. \/ file' = file /\ disk' = disk
      \/ file' = cut /\ (disk' = disk \/ disk' = cut)
  BY SyncedDisk DEF RollbackTail
<1>4. len \in 1..Readable(file) /\ Len(acked) + 1 <= len
  BY <1>1, <1>2 DEF ProcessOK, Running
<1>5. /\ Len(file) \in Nat /\ Readable(file) \in 0..Len(file)
      /\ len \in Nat /\ len \in 1..Len(file) /\ len \in 0..Readable(file)
  BY <1>1, <1>4, HistoryLengths
<1>6. Frames(file, 1)
  <2>1. Frames(file, Readable(file)) /\ 1 \in 1..Readable(file)
    BY <1>1, <1>4, <1>5, ReadableFrames
  <2> QED
    BY <2>1 DEF Frames
<1>7. /\ FileOK(cut, disk, acked, secured, lost_power)
      /\ cut \in Seq(Item) /\ Readable(cut) = len /\ BatchesOf(cut) = BatchesUpTo(file, len)
      /\ \A k \in 1..len : cut[k] = file[k]
  <2>1. FileOK(cut, disk, acked, secured, lost_power)
    BY <1>1, <1>4, <1>5, <1>6, FileTruncated
  <2>2. /\ cut \in Seq(Item) /\ Readable(cut) = len /\ BatchesOf(cut) = BatchesUpTo(file, len)
    BY <1>1, <1>5, TruncatedBatches
  <2>3. len \in 0..Len(file)
    BY <1>5
  <2>4. \A k \in 1..len : cut[k] = file[k]
    BY <1>1, <2>3, TruncatedCut DEF CutTo
  <2> QED
    BY <2>1, <2>2, <2>4
<1>8. FileOK(cut, cut, acked, secured, lost_power)
  BY <1>7, FileSynced
<1>9. FileOK(file, disk, acked, secured, lost_power)'
  BY <1>1, <1>2, <1>3, <1>7, <1>8
<1>10. ProcessOK("open", inner'[p], durable_len'[p], pending'[p], file', acked')
  <2>1. ASSUME NEW g \in Seq(Item), len <= Readable(g), \A k \in 1..len : g[k] = file[k]
        PROVE  ProcessOK("open", inner[p], len, pending[p], g, acked)
    BY <1>1, <1>2, <2>1, RunningKept DEF Running
  <2>2. ProcessOK("open", inner[p], len, pending[p], file, acked)
    BY <1>1, <1>4, <1>5, <2>1
  <2>3. ProcessOK("open", inner[p], len, pending[p], cut, acked)
    <3>1. len <= Readable(cut)
      BY <1>5, <1>7
    <3> HIDE DEF cut
    <3> QED BY <1>7, <2>1, <3>1
  <2> QED
    BY <1>2, <1>3, <2>2, <2>3
<1>11. lock = p
  BY <1>1, <1>2 DEF Locked
<1>12. Locked' /\ ProcessesOK'
  BY <1>1, <1>2, <1>10, <1>11, OneProcess
<1>13. ProcessTypes'
  BY <1>1, <1>2 DEF ProcessTypes, Running
<1>14. LogStep
  <2>1. CASE BatchesOf(file') = log
    BY <1>2, <2>1, LogStutters
  <2>2. CASE BatchesOf(file') # log
    <3>1. BatchesOf(file') = BatchesUpTo(file, len)
      BY <1>3, <1>7, <2>2
    <3>2. len - 1 \in 0..Len(log) /\ BatchesUpTo(file, len) = SubSeq(log, 1, len - 1)
      BY <1>1, <1>4, <1>5, BatchesUpToPrefix
    <3>3. log \in Seq(Seq(StoredEvent)) /\ Len(log) \in Nat
      BY <1>1, BatchesOfItems, LenProperties
    <3>4. IsPrefix(SubSeq(log, 1, len - 1), log) /\ Len(SubSeq(log, 1, len - 1)) = len - 1
      BY <3>2, <3>3, BeginningPrefix
    <3>5. len - 1 # Len(log)
      BY <2>2, <3>1, <3>2, <3>3, BeginningPrefix
    <3>6. IsPrefix(acked, BatchesUpTo(file, len))
      BY <1>1, <1>4, <1>5, HeadsRead DEF FileOK
    <3>7. /\ Abstract!IsPrefix(BatchesOf(file)', BatchesOf(file))
          /\ Abstract!IsPrefix(acked, BatchesOf(file)')
          /\ Len(BatchesOf(file)') < Len(BatchesOf(file))
      BY <3>1, <3>2, <3>3, <3>4, <3>5, <3>6, SamePrefix
    <3>8. Abstract!Retract
      BY <1>2, <3>7 DEF Abstract!Retract
    <3> QED
      BY <3>8 DEF LogStep, Abstract!Next
  <2> QED
    BY <2>1, <2>2
<1> QED
  BY <1>9, <1>12, <1>13, <1>14 DEF Inv

-----------------------------------------------------------------------------
\* Nobody has opened the journal yet.
LEMMA InitInv ==
  ASSUME Init
  PROVE  Inv /\ BatchesOf(file) = <<>>
<1>1. FileOK(<<>>, <<>>, <<>>, <<>>, FALSE) /\ BatchesOf(<<>>) = <<>>
  <2>1. <<>> \in Seq(Item) /\ <<>> \in Seq(Seq(StoredEvent)) /\ Len(<<>>) = 0
    BY EmptySeq
  <2>2. BatchesOf(<<>>) \in Seq(Seq(StoredEvent)) /\ Len(BatchesOf(<<>>)) = 0
    <3>1. Readable(<<>>) \in 0..Len(<<>>)
      BY <2>1, ReadableFrames
    <3>2. Readable(<<>>) = 0
      BY <2>1, <3>1
    <3> QED
      BY <2>1, <3>2, BatchesOfItems
  <2>3. BatchesOf(<<>>) = <<>>
    BY <2>2, EmptySeq
  <2>4. Restorable(<<>>)
    <3>1. EmptyStore \in Store /\ WellFormed(EmptyStore) /\ EmptyStore.events = FlattenSeq(<<>>)
      BY EmptyStoreWellFormed, EmptyFlattened DEF EmptyStore
    <3> QED
      BY <2>1, <3>1, RestorableStore
  <2>5. Framed(<<>>) /\ Heads(<<>>, <<>>) /\ Shaped(<<>>)
    BY <2>1 DEF Framed, Heads, Shaped
  <2> QED
    BY <2>1, <2>3, <2>4, <2>5 DEF FileOK, IsJournal
<1>2. FileOK(file, disk, acked, secured, lost_power)
  BY <1>1 DEF Init
<1>3. ProcessTypes /\ Locked
  BY EmptyStoreWellFormed, EmptySeq DEF Init, ProcessTypes, Locked
<1>4. ProcessesOK
  BY DEF Init, ProcessesOK, ProcessOK, Running
<1> QED
  BY <1>1, <1>2, <1>3, <1>4 DEF Inv, Init

\* Every step keeps the invariant and is a step of the durable log.
LEMMA NextInv ==
  ASSUME Inv, [Next]_vars
  PROVE  Inv' /\ LogStep
<1>1. ASSUME NEW p \in Processes, ProcessStep(p)
      PROVE  Inv' /\ LogStep
  BY <1>1, OpenStep, WriteHeaderStep, ScanJournalStep, TruncatePartialTailStep, WriteBatchStep,
     CommitBatchStep, SyncFailsStep, RollbackTailStep, KillStep, Zenon DEF ProcessStep
<1>2. CASE Writeback
  BY <1>2, WritebackStep
<1>3. CASE LosePower
  BY <1>3, LosePowerStep
<1>4. CASE UNCHANGED vars
  <2>1. UNCHANGED <<file, disk, lock, pc, options, inner, durable_len, pending,
                    acked, secured, lost_power>>
    BY <1>4 DEF vars, process, history
  <2>2. ProcessTypes' /\ Locked' /\ FileOK(file, disk, acked, secured, lost_power)'
    BY <2>1, InvParts DEF ProcessTypes, Locked
  <2>3. ProcessesOK'
    BY <2>1, InvParts DEF ProcessesOK
  <2> QED
    BY <2>1, <2>2, <2>3, LogStutters DEF Inv
<1> QED
  BY <1>1, <1>2, <1>3, <1>4 DEF Next

\* Every reachable state satisfies the inductive invariant: the journal is a
\* header and frames that restore, the running store's memory is what its
\* part of the journal restores to, and acknowledged frames lead it.
THEOREM InvHolds == Spec => []Inv
<1>1. Init => Inv
  BY InitInv
<1>2. Inv /\ [Next]_vars => Inv'
  BY NextInv
<1> QED
  BY <1>1, <1>2, PTL DEF Spec

\* Type correctness of the file store, for any number of processes, any set of
\* options and batches of any size.
THEOREM TypeCorrect == Spec => []TypeOK
<1>1. Inv => TypeOK
  <2> SUFFICES ASSUME Inv PROVE TypeOK
    OBVIOUS
  <2>1. /\ ProcessTypes /\ file \in Seq(Item) /\ disk \in Seq(Item)
        /\ acked \in Seq(Seq(StoredEvent)) /\ secured \in Seq(Seq(StoredEvent))
        /\ lost_power \in BOOLEAN
    BY InvParts DEF FileOK
  <2> QED
    BY <2>1 DEF TypeOK, ProcessTypes
<1> QED
  BY <1>1, InvHolds, PTL

\* The advisory lock excludes: no two processes are past open's try_lock at
\* the same time, so no two write the journal.
THEOREM OneWriter ==
  Spec => [](\A p, q \in Processes : (pc[p] # "closed" /\ pc[q] # "closed") => p = q)
<1>1. Inv => \A p, q \in Processes : (pc[p] # "closed" /\ pc[q] # "closed") => p = q
  BY DEF Inv, Locked
<1> QED
  BY <1>1, InvHolds, PTL

\* The memory of a running store is the restore of the frames its writer
\* accounts for, whatever append, sync, rollback or recovery failed before.
THEOREM MemoryAlwaysMatchesJournal == Spec => []MemoryMatchesJournal
<1>1. Inv => MemoryMatchesJournal
  <2> SUFFICES ASSUME Inv, NEW p \in Processes, pc[p] \in Running
               PROVE  /\ durable_len[p] <= ReadableLen(file, MaxBatch)
                      /\ inner[p] = Restore(FlattenSeq(BatchesUpTo(file, durable_len[p])))
    BY DEF MemoryMatchesJournal
  <2>1. /\ durable_len[p] \in 1..Readable(file)
        /\ inner[p] = Restore(FlattenSeq(BatchesUpTo(file, durable_len[p])))
    BY InvParts DEF ProcessOK
  <2>2. Readable(file) \in Nat
    BY InvParts, ReadableFrames, ItemFields
  <2> QED
    BY <2>1, <2>2 DEF Readable
<1> QED
  BY <1>1, InvHolds, PTL

\* No acknowledged batch is lost: acknowledged batches head the journal, and
\* those acknowledged after a sync head the disk too.
THEOREM AcknowledgedAlwaysKept == Spec => []AcknowledgedKept
<1>1. Inv => AcknowledgedKept
  <2> SUFFICES ASSUME Inv
               PROVE  IsPrefix(acked, BatchesOf(file)) /\ IsPrefix(secured, BatchesOf(disk))
    BY DEF AcknowledgedKept
  <2>1. /\ file \in Seq(Item) /\ disk \in Seq(Item)
        /\ acked \in Seq(Seq(StoredEvent)) /\ secured \in Seq(Seq(StoredEvent))
        /\ Heads(acked, file) /\ Heads(secured, disk)
    BY InvParts DEF FileOK
  <2> QED
    BY <2>1, HeadsRead
<1> QED
  BY <1>1, InvHolds, PTL

\* Whatever is readable, of the file or of any image a loss of power could
\* leave, restores: no gap, no repeated identifier, no wrong version.
THEOREM JournalAlwaysRestores == Spec => []JournalRestores
<1>1. Inv => JournalRestores
  <2> SUFFICES ASSUME Inv, NEW f \in {file, disk}
               PROVE  Restore(FlattenSeq(BatchesOf(f))) # None
    BY DEF JournalRestores
  <2>1. IsJournal(f)
    BY InvParts DEF FileOK
  <2> QED
    BY <2>1 DEF IsJournal, Restorable
<1> QED
  BY <1>1, InvHolds, PTL

\* A journal of a header, frames and at most one torn frame at its end opens.
LEMMA ShapedScans ==
  ASSUME NEW f \in Seq(Item), Shaped(f), f \notin {<<>>, <<Torn(0)>>}
  PROVE  Scan(f, MaxBatch).outcome # "Err"
<1> DEFINE n == Readable(f)
<1>1. /\ Len(f) \in Nat /\ Len(f) >= 1 /\ f[1] = Header
      /\ \A k \in 2..Len(f) : f[k].kind = "batch" \/ (k = Len(f) /\ f[k].kind = "torn")
  BY ItemFields DEF Shaped
<1>2. n \in 0..Len(f) /\ \A m \in 0..Len(f) : Frames(f, m) => m <= n
  BY ReadableFrames
<1>3. n >= 1
  <2>1. Frames(f, 1)
    BY <1>1 DEF Frames, FrameAt
  <2> QED
    BY <1>1, <1>2, <2>1
<1>4. ASSUME n # Len(f)
      PROVE  f[n + 1].kind = "torn" /\ f[n + 1].size <= MaxBatch
  <2>1. n + 1 \in 2..Len(f) /\ n + 1 \in 0..Len(f) /\ n \in Nat /\ ~(n + 1 <= n)
    BY <1>1, <1>2, <1>3, <1>4
  <2>2. ~Frames(f, n + 1)
    BY <1>2, <2>1
  <2>3. f[n + 1].kind # "batch"
    <3> SUFFICES ASSUME f[n + 1].kind = "batch" PROVE Frames(f, n + 1)
      BY <2>2
    <3>1. \A k \in 1..n : FrameAt(f, k)
      BY ReadableFrames DEF Frames
    <3>2. FrameAt(f, n + 1)
      BY <1>3, <2>1 DEF FrameAt
    <3>3. ASSUME NEW k \in 1..(n + 1) PROVE k \in 1..n \/ k = n + 1
      BY <2>1
    <3> QED
      BY <3>1, <3>2, <3>3 DEF Frames
  <2>4. f[n + 1].kind = "torn"
    BY <1>1, <2>1, <2>3
  <2>5. n + 1 \in 1..Len(f) /\ MaxBatch \in Nat
    BY <1>1, <2>1, ItemKinds
  <2>6. f[n + 1].size \in 0..MaxBatch
    BY <2>5, ItemFields
  <2> QED
    BY <2>4, <2>5, <2>6
<1>5. n = ReadableLen(f, MaxBatch)
  BY DEF Readable
<1> HIDE DEF n
<1>6. n # 0
  BY <1>1, <1>2, <1>3
<1> QED
  BY <1>4, <1>5, <1>6 DEF Scan

\* No failure of a call or of a process damages the journal: until power is
\* lost it opens under TruncatePartialTail, or its header was never completed.
THEOREM AlwaysReopensUnlessPowerLost == Spec => []ReopensUnlessPowerLost
<1>1. Inv => ReopensUnlessPowerLost
  <2>1. Inv => file \in Seq(Item) /\ (lost_power \/ Shaped(file))
    BY InvParts DEF FileOK
  <2> QED
    BY <2>1, ShapedScans DEF ReopensUnlessPowerLost
<1> QED
  BY <1>1, InvHolds, PTL

\* The file store implements the durable log: under the mapping of the log to
\* the readable batches of the file, every step of a process, of the operating
\* system or of a loss of power extends, acknowledges, retracts or loses as the
\* log allows, or changes nothing a reader sees.
THEOREM FileImplementsDurableLog == Spec => ImplementsDurableLog
<1>1. Init => Abstract!Init
  BY InitInv DEF Init, Abstract!Init
<1>2. Inv /\ [Next]_vars => [Abstract!Next]_(Abstract!vars)
  BY NextInv DEF LogStep
<1> QED
  BY <1>1, <1>2, InvHolds, PTL DEF Spec, ImplementsDurableLog, Abstract!Spec

-----------------------------------------------------------------------------
(***************************************************************************)
(* A host over the file store. The journal alone does not say how much of  *)
(* it the host has been shown. The inductive invariant HostInv names such  *)
(* a part: some number m of items (Rests) that the running store accounts  *)
(* for, that are on disk unless the store last published events that are   *)
(* not, and whose events cover every checkpoint and begin with every       *)
(* projection.                                                             *)
(***************************************************************************)

\* Beginnings of sequences of events.
Beginning(s, t) ==
  /\ s \in Seq(StoredEvent)
  /\ Len(s) <= Len(t)
  /\ \A k \in 1..Len(s) : s[k] = t[k]

\* A beginning is a prefix.
LEMMA BeginningIsPrefix ==
  ASSUME NEW s, NEW t \in Seq(StoredEvent), Beginning(s, t)
  PROVE  IsPrefix(s, t)
<1>1. s \in Seq(StoredEvent) /\ Len(s) \in Nat /\ Len(t) \in Nat /\ Len(s) <= Len(t)
  BY LenProperties DEF Beginning
<1>2. /\ SubSeq(t, 1, Len(s)) \in Seq(StoredEvent) /\ Len(SubSeq(t, 1, Len(s))) = Len(s)
      /\ \A k \in 1..Len(s) : SubSeq(t, 1, Len(s))[k] = t[k]
  BY <1>1, SubSeqProperties
<1>3. \A k \in 1..Len(s) : s[k] = SubSeq(t, 1, Len(s))[k]
  BY <1>2 DEF Beginning
<1>4. s = SubSeq(t, 1, Len(s))
  BY <1>1, <1>2, <1>3, SeqEqual
<1>5. SubSeq(s, 1, Len(s)) = s
  BY <1>1, BeginningPrefix
<1>6. QED
  BY <1>1, <1>4, <1>5 DEF IsPrefix

\* A beginning of a beginning is one.
LEMMA BeginningTransitive ==
  ASSUME NEW s, NEW t, NEW u \in Seq(StoredEvent), Beginning(s, t), Beginning(t, u)
  PROVE  Beginning(s, u)
<1>1. Len(s) \in Nat /\ Len(t) \in Nat /\ Len(u) \in Nat
  BY LenProperties DEF Beginning
<1>2. QED
  BY <1>1 DEF Beginning

-----------------------------------------------------------------------------
\* The events of the first n items of a journal.
Shown(f, n) == FlattenSeq(BatchesUpTo(f, n))

\* They are events.
LEMMA ShownType ==
  ASSUME NEW f \in Seq(Item), NEW n \in 0..Len(f)
  PROVE  Shown(f, n) \in Seq(StoredEvent)
<1>1. BatchesUpTo(f, n) \in Seq(Seq(StoredEvent))
  BY BatchesUpToItems
<1>2. QED
  BY <1>1, FlattenType DEF Shown

\* One more item shows its events behind the others.
LEMMA ShownNext ==
  ASSUME NEW f \in Seq(Item), NEW n \in 0..(Len(f) - 1)
  PROVE  Beginning(Shown(f, n), Shown(f, n + 1))
<1>1. Len(f) \in Nat /\ n \in 0..Len(f) /\ n + 1 \in 0..Len(f) /\ n \in Nat
  BY ItemFields
<1> DEFINE b == BatchesUpTo(f, n)
           c == BatchesUpTo(f, n + 1)
<1>2. b \in Seq(Seq(StoredEvent)) /\ c \in Seq(Seq(StoredEvent))
  BY <1>1, BatchesUpToItems
<1>3. Shown(f, n) \in Seq(StoredEvent) /\ Shown(f, n + 1) \in Seq(StoredEvent)
  BY <1>1, ShownType
<1>4. CASE n = 0
  <2>1. Len(b) = 0 /\ Len(c) = 0
    BY <1>1, <1>4, BatchesUpToItems
  <2>2. b = c
    <3> HIDE DEF b, c
    <3>1. QED
      BY <1>2, <2>1, EmptySeq
  <2>3. Shown(f, n) = Shown(f, n + 1)
    BY <2>2 DEF Shown
  <2>4. QED
    BY <1>3, <2>3, LenProperties DEF Beginning
<1>5. CASE n # 0
  <2>1. /\ Len(b) = n - 1 /\ \A k \in 1..(n - 1) : b[k] = f[k + 1].events
        /\ Len(c) = n /\ \A k \in 1..n : c[k] = f[k + 1].events
    <3>1. (n + 1) # 0 /\ (n + 1) - 1 = n
      BY <1>1
    <3>2. QED
      BY <1>1, <1>5, <3>1, BatchesUpToItems
  <2>2. f[n + 1].events \in Seq(StoredEvent)
    BY <1>1, ItemFields
  <2> DEFINE e == f[n + 1].events
             d == Append(b, e)
  <2>3. d \in Seq(Seq(StoredEvent)) /\ Len(d) = n /\ d[n] = e /\ \A k \in 1..(n - 1) : d[k] = b[k]
    <3> HIDE DEF b, e
    <3>1. e \in Seq(StoredEvent)
      BY <2>2 DEF e
    <3>2. Len(b) + 1 = n
      BY <1>1, <2>1
    <3>3. QED
      BY <1>2, <2>1, <3>1, <3>2, AppendProperties
  <2>4. c = d
    <3>1. \A k \in 1..n : c[k] = d[k]
      <4>1. \A k \in 1..n : k = n \/ k \in 1..(n - 1)
        BY <1>1
      <4> HIDE DEF b, c, d
      <4>2. QED
        BY <1>1, <1>5, <2>1, <2>3, <4>1
    <3> HIDE DEF c, d
    <3>2. QED
      BY <1>2, <2>1, <2>3, <3>1, SeqEqual
  <2>5. Shown(f, n + 1) = Shown(f, n) \o e
    <3>1. FlattenSeq(d) = FlattenSeq(b) \o e
      <4> HIDE DEF b, e
      <4>1. QED
        BY <1>2, <2>2, FlattenAppend DEF e
    <3>2. QED
      BY <2>4, <3>1 DEF Shown
  <2>6. QED
    <3> DEFINE s == Shown(f, n)
               t == Shown(f, n + 1)
    <3> HIDE DEF s, t, e
    <3>1. s \in Seq(StoredEvent) /\ e \in Seq(StoredEvent) /\ t = s \o e
      BY <1>3, <2>2, <2>5 DEF s, t, e
    <3>2. /\ Len(s) \in Nat /\ Len(e) \in Nat /\ Len(t) = Len(s) + Len(e)
          /\ \A k \in 1..Len(s) : t[k] = s[k]
      BY <3>1, ConcatProperties, LenProperties
    <3>3. Beginning(s, t)
      BY <3>1, <3>2 DEF Beginning
    <3>4. QED
      BY <3>3 DEF s, t
<1>6. QED
  BY <1>4, <1>5

\* Fewer items show a beginning of the events of more.
LEMMA ShownGrows ==
  ASSUME NEW f \in Seq(Item), NEW n \in 0..Len(f), NEW m \in 0..n
  PROVE  Beginning(Shown(f, m), Shown(f, n))
<1>1. Len(f) \in Nat /\ n \in Nat /\ m \in Nat /\ m <= n /\ n <= Len(f)
  BY ItemFields
<1> DEFINE N == {k \in Nat : Beginning(Shown(f, m), Shown(f, m + k))}
<1>2. 0 \in N
  <2>1. Shown(f, m) \in Seq(StoredEvent) /\ m + 0 = m
    BY <1>1, ShownType
  <2>2. Beginning(Shown(f, m), Shown(f, m + 0))
    BY <2>1, LenProperties DEF Beginning
  <2>3. QED
    BY <2>2
<1>3. ASSUME NEW k \in 0..((n - m) - 1), k \in N PROVE k + 1 \in N
  <2>1. k \in Nat /\ k + 1 \in Nat /\ m + k \in 0..(Len(f) - 1) /\ m + (k + 1) = (m + k) + 1
        /\ (m + k) + 1 \in 0..Len(f)
    BY <1>1
  <2>2. Beginning(Shown(f, m + k), Shown(f, (m + k) + 1))
    BY <2>1, ShownNext
  <2>3. Shown(f, (m + k) + 1) \in Seq(StoredEvent)
    BY <2>1, ShownType
  <2>4. Beginning(Shown(f, m), Shown(f, (m + k) + 1))
    BY <1>3, <2>2, <2>3, BeginningTransitive
  <2>5. QED
    BY <2>1, <2>4
<1> HIDE DEF N
<1>4. n - m \in Nat /\ n - m \in 0..(n - m) /\ m + (n - m) = n
  BY <1>1
<1>5. n - m \in N
  BY <1>2, <1>3, <1>4, InductionUpTo
<1>6. QED
  BY <1>4, <1>5 DEF N

\* Equal items show equal events, and are as readable.
LEMMA SameShown ==
  ASSUME NEW f \in Seq(Item), NEW g \in Seq(Item), NEW m \in 0..Readable(f), m <= Len(g),
         \A k \in 1..m : g[k] = f[k]
  PROVE  m \in 0..Readable(g) /\ Shown(g, m) = Shown(f, m)
<1>1. /\ Readable(f) \in 0..Len(f) /\ Frames(f, Readable(f))
      /\ \A n \in 0..Len(g) : Frames(g, n) => n <= Readable(g)
      /\ Readable(g) \in 0..Len(g)
  BY ReadableFrames
<1>2. m \in Nat /\ m \in 0..Len(f) /\ m \in 0..Len(g) /\ Len(f) \in Nat /\ Len(g) \in Nat
  BY <1>1, ItemFields
<1>3. Frames(g, m)
  <2> SUFFICES ASSUME NEW k \in 1..m PROVE FrameAt(g, k)
    BY DEF Frames
  <2>1. k \in 1..Readable(f) /\ g[k] = f[k]
    BY <1>1, <1>2
  <2>2. FrameAt(f, k)
    BY <1>1, <2>1 DEF Frames
  <2>3. QED
    BY <2>1, <2>2 DEF FrameAt
<1>4. m <= Readable(g)
  BY <1>1, <1>2, <1>3
<1>5. BatchesUpTo(g, m) = BatchesUpTo(f, m)
  BY <1>2, SameBatches
<1>6. QED
  BY <1>1, <1>2, <1>4, <1>5 DEF Shown

-----------------------------------------------------------------------------
\* The host's process.
LEMMA TheHost == Host \in Processes
  BY RecoveryAssumption

\* The memory of a running store holds the events of the items it accounts
\* for.
LEMMA MemoryShown ==
  ASSUME NEW f \in Seq(Item), NEW st \in Store, NEW place \in Running, NEW len, NEW b, NEW a,
         ProcessOK(place, st, len, b, f, a)
  PROVE  /\ len \in 1..Readable(f)
         /\ WellFormed(st) /\ st.events = Shown(f, len)
<1>1. len \in 1..Readable(f) /\ st = Restore(Shown(f, len))
  BY DEF ProcessOK, Shown
<1>2. len \in 0..Len(f)
  BY <1>1, ReadableFrames, ItemFields
<1>3. BatchesUpTo(f, len) \in Seq(Seq(StoredEvent))
  BY <1>2, BatchesUpToItems
<1>4. Restorable(BatchesUpTo(f, len))
  BY <1>1, StoreAssumption DEF Restorable, Shown
<1>5. WellFormed(st) /\ st.events = Shown(f, len)
  BY <1>1, <1>3, <1>4, RestorableStore DEF Shown
<1>6. QED
  BY <1>1, <1>5

\* The parts of the file store's invariant that concern the host.
LEMMA HostParts ==
  ASSUME Inv
  PROVE  /\ file \in Seq(Item) /\ disk \in Seq(Item)
         /\ inner[Host] \in Store /\ inner \in [Processes -> Store]
         /\ options[Host].max_frame \in Nat
         /\ pc \in [Processes -> Running \cup {"closed", "new", "scan"}]
         /\ durable_len \in [Processes -> Nat]
         /\ options = [options EXCEPT ![Host] = options[Host]]
         /\ pending = [pending EXCEPT ![Host] = pending[Host]]
         /\ options \in [Processes -> Options \cup {NoOptions}]
         /\ ProcessOK(pc[Host], inner[Host], durable_len[Host], pending[Host], file, acked)
         /\ Readable(file) \in 0..Len(file) /\ Len(file) \in Nat
<1>1. Host \in Processes
  BY TheHost
<1>2. /\ file \in Seq(Item) /\ disk \in Seq(Item)
      /\ inner[Host] \in Store /\ options[Host].max_frame \in Nat
      /\ ProcessOK(pc[Host], inner[Host], durable_len[Host], pending[Host], file, acked)
      /\ ProcessTypes
  BY TheHost, InvParts
<1>3. QED
  BY <1>1, <1>2, ReadableFrames, ItemFields DEF ProcessTypes

-----------------------------------------------------------------------------
\* A step of a process keeps the first m items, publishes events only when it
\* goes on with them, and leaves no memory behind.
Advances(p, m) ==
  /\ m <= Len(file') /\ \A k \in 1..m : file'[k] = file[k]
  /\ disk' \in {disk, file'}
  /\ pc'[p] \in Running => m <= durable_len'[p]
  /\ (pc'[p] \in Running /\ inner'[p] # inner[p]) =>
       /\ pc'[p] = "open"
       /\ pc[p] = "written" => options[p].durability = "Flush" \/ disk' = file'
  /\ pc'[p] \notin Running => inner'[p] = EmptyStore

\* Every step of the store that the host's process takes is of that kind.
LEMMA HostAdvances ==
  ASSUME Inv, ProcessStep(Host), pc[Host] \notin Running => inner[Host] = EmptyStore,
         NEW m \in 0..Readable(file), pc[Host] \in Running => m <= durable_len[Host]
  PROVE  Advances(Host, m)
<1>1. /\ file \in Seq(Item) /\ disk \in Seq(Item)
      /\ inner \in [Processes -> Store]
      /\ options[Host].max_frame \in Nat
      /\ pc \in [Processes -> Running \cup {"closed", "new", "scan"}]
      /\ durable_len \in [Processes -> Nat]
      /\ ProcessOK(pc[Host], inner[Host], durable_len[Host], pending[Host], file, acked)
      /\ Readable(file) \in 0..Len(file) /\ Len(file) \in Nat
      /\ Host \in Processes
  BY HostParts, TheHost
<1>2. m \in Nat /\ m \in 0..Len(file)
  BY <1>1
<1>3. ASSUME NEW place, Goto(Host, place) PROVE pc'[Host] = place
  BY <1>1, <1>3 DEF Goto
<1>4. ASSUME Close(Host) PROVE pc'[Host] = "closed" /\ inner'[Host] = EmptyStore
  BY <1>1, <1>4 DEF Close
<1>5. "closed" \notin Running /\ "new" \notin Running /\ "scan" \notin Running
      /\ "open" \in Running /\ "written" \in Running /\ "rollback" \in Running
  BY DEF Running
<1>6. ASSUME NEW n \in 0..Len(file), m <= n
      PROVE  m <= Len(SubSeq(file, 1, n)) /\ \A k \in 1..m : SubSeq(file, 1, n)[k] = file[k]
  <2>1. Len(SubSeq(file, 1, n)) = n /\ CutTo(SubSeq(file, 1, n), file, n)
    BY <1>1, <1>6, TruncatedCut
  <2>2. \A k \in 1..m : k \in 1..n
    BY <1>2, <1>6
  <2>3. QED
    BY <1>6, <2>1, <2>2 DEF CutTo
<1>7. Synced(Host, file) \in {disk, file} /\ Synced(Host, file') \in {disk, file'}
  BY DEF Synced
<1>8. ASSUME NEW o \in Options, Open(Host, o) PROVE Advances(Host, m)
  <2>1. /\ pc[Host] = "closed" /\ pc'[Host] \in {"new", "scan"} /\ inner' = inner
        /\ file' = file /\ disk' = disk
    BY <1>1, <1>8 DEF Open, Goto
  <2>2. pc'[Host] \notin Running /\ inner'[Host] = EmptyStore
    BY <1>5, <2>1
  <2>3. QED
    BY <1>2, <2>1, <2>2 DEF Advances
<1>9. ASSUME WriteHeader(Host) PROVE Advances(Host, m)
  <2>1. pc[Host] = "new" /\ file = <<>>
    BY <1>1, <1>9 DEF WriteHeader, ProcessOK
  <2>2. m = 0 /\ Len(file') \in Nat
    <3>1. Len(file) = 0
      BY <2>1, EmptySeq
    <3>2. file' \in {<<>>, <<Header>>, <<Torn(0)>>}
      BY <1>9 DEF WriteHeader
    <3>3. Header \in Item /\ Torn(0) \in Item
      BY ItemKinds
    <3>4. file' \in Seq(Item)
      <4>1. \A x \in Item : <<x>> \in Seq(Item)
        OBVIOUS
      <4>2. <<>> \in Seq(Item) /\ <<Header>> \in Seq(Item) /\ <<Torn(0)>> \in Seq(Item)
        BY <3>3, <4>1, EmptySeq
      <4>3. QED
        BY <3>2, <4>2
    <3>5. QED
      BY <1>2, <3>1, <3>4, LenProperties
  <2>3. inner[Host] = EmptyStore
    BY <1>5, <2>1
  <2>4. disk' \in {disk, file'}
    BY <1>7, <1>9 DEF WriteHeader
  <2>5. pc'[Host] \notin Running /\ inner'[Host] = EmptyStore
    <3>1. (Goto(Host, "scan") /\ inner' = inner) \/ Close(Host)
      BY <1>9 DEF WriteHeader
    <3>2. QED
      BY <1>3, <1>4, <1>5, <2>3, <3>1
  <2>6. QED
    BY <2>2, <2>4, <2>5 DEF Advances
<1>10. ASSUME ScanJournal(Host) PROVE Advances(Host, m)
  <2>1. pc[Host] = "scan" /\ file' = file /\ disk' = disk
    BY <1>10 DEF ScanJournal
  <2>2. CASE Close(Host)
    BY <1>2, <1>4, <1>5, <2>1, <2>2 DEF Advances
  <2>3. CASE ~Close(Host)
    <3> DEFINE scan == Scan(file, options[Host].max_frame)
    <3>1. /\ scan.outcome = "Complete" /\ Goto(Host, "open")
          /\ durable_len' = [durable_len EXCEPT ![Host] = scan.durable_len]
      BY <1>10, <2>3 DEF ScanJournal
    <3>2. scan.durable_len = Readable(file)
      BY <1>1, <3>1, ScanReads
    <3>3. pc'[Host] = "open" /\ durable_len'[Host] = Readable(file)
      BY <1>1, <1>3, <3>1, <3>2
    <3>4. QED
      BY <1>2, <1>5, <2>1, <3>3 DEF Advances
  <2>4. QED
    BY <2>2, <2>3
<1>11. ASSUME TruncatePartialTail(Host) PROVE Advances(Host, m)
  <2> DEFINE scan == Scan(file, options[Host].max_frame)
  <2>1. pc[Host] = "scan" /\ scan.outcome = "PartialTail"
    BY <1>11 DEF TruncatePartialTail
  <2>2. scan.durable_len = Readable(file)
    BY <1>1, <2>1, ScanReads
  <2>3. /\ file' = file \/ file' = SubSeq(file, 1, scan.durable_len)
        /\ disk' \in {disk, file'}
    BY <1>7, <1>11 DEF TruncatePartialTail
  <2>4. m <= Len(file') /\ \A k \in 1..m : file'[k] = file[k]
    <3> HIDE DEF scan
    <3>1. QED
      BY <1>1, <1>2, <1>6, <2>2, <2>3
  <2>5. CASE Close(Host)
    BY <1>4, <1>5, <2>3, <2>4, <2>5 DEF Advances
  <2>6. CASE ~Close(Host)
    <3>1. /\ Goto(Host, "open")
          /\ durable_len' = [durable_len EXCEPT ![Host] = scan.durable_len]
      BY <1>11, <2>6 DEF TruncatePartialTail
    <3>2. pc'[Host] = "open" /\ durable_len'[Host] = Readable(file)
      BY <1>1, <1>3, <2>2, <3>1
    <3>3. QED
      BY <1>2, <1>5, <2>1, <2>3, <2>4, <3>2 DEF Advances
  <2>7. QED
    BY <2>5, <2>6
<1>12. ASSUME NEW s \in Streams, NEW ids \in Batches, WriteBatch(Host, s, AnyVersion, ids)
       PROVE  Advances(Host, m)
  <2> DEFINE b == PrepareAppend(inner[Host], s, ids)
  <2>1. pc[Host] = "open" /\ Len(file) = durable_len[Host] /\ UniqueIds(inner[Host].event_ids, ids)
    BY <1>12 DEF WriteBatch, CanPersist, CanPrepare
  <2>2. Batch(b) \in Item /\ \A rest \in Remains(Batch(b)) : rest \in Item
    <3>1. PICK x : x = Batch(b)
      OBVIOUS
    <3>2. b \in Seq(StoredEvent) /\ Len(b) <= MaxBatch
      <4>1. FileOK(file, disk, acked, secured, lost_power)
        BY InvParts
      <4>2. ProcessOK("open", inner[Host], durable_len[Host], pending[Host], file, acked)
        BY <1>1, <2>1
      <4>3. QED
        BY <2>1, <4>1, <4>2, PersistedBatch
    <3>3. x \in Item /\ Torn(0) \in Item /\ Torn(x.size) \in Item
      BY <3>1, <3>2, ItemKinds
    <3>4. QED
      BY <3>1, <3>3 DEF Remains
  <2>3. \A item \in Item : WriteAt(file, durable_len[Host], item) = Append(file, item)
    BY <1>1, <2>1, WriteAtEnd
  <2>4. file' = file \/ \E item \in Item : file' = Append(file, item)
    <3> HIDE DEF b
    <3>1. \/ file' = file
          \/ file' = WriteAt(file, durable_len[Host], Batch(b))
          \/ \E rest \in Remains(Batch(b)) : file' = WriteAt(file, durable_len[Host], rest)
      BY <1>12 DEF WriteBatch, b
    <3>2. QED
      BY <2>2, <2>3, <3>1
  <2>5. m <= Len(file') /\ \A k \in 1..m : file'[k] = file[k]
    <3>1. CASE file' = file
      BY <1>2, <3>1
    <3>2. CASE file' # file
      <4>1. PICK item \in Item : file' = Append(file, item)
        BY <2>4, <3>2
      <4>2. Len(file') = Len(file) + 1 /\ \A k \in 1..Len(file) : file'[k] = file[k]
        BY <1>1, <4>1, AppendProperties
      <4>3. QED
        BY <1>1, <1>2, <4>2
    <3>3. QED
      BY <3>1, <3>2
  <2>6. /\ disk' = disk /\ inner' = inner /\ durable_len' = durable_len
        /\ Goto(Host, "written") \/ Goto(Host, "rollback")
    BY <1>12 DEF WriteBatch
  <2>7. pc'[Host] \in Running
    BY <1>3, <1>5, <2>6
  <2>8. QED
    BY <1>5, <2>1, <2>5, <2>6, <2>7 DEF Advances
<1>13. ASSUME CommitBatch(Host) PROVE Advances(Host, m)
  <2>1. /\ pc[Host] = "written" /\ file' = file /\ disk' = Synced(Host, file)
        /\ durable_len' = [durable_len EXCEPT ![Host] = @ + 1] /\ Goto(Host, "open")
    BY <1>13 DEF CommitBatch
  <2>2. pc'[Host] = "open" /\ durable_len'[Host] = durable_len[Host] + 1 /\ durable_len[Host] \in Nat
    BY <1>1, <1>3, <2>1
  <2>3. disk' \in {disk, file'} /\ (options[Host].durability = "Flush" \/ disk' = file')
    BY <2>1 DEF Synced
  <2>4. m <= durable_len'[Host]
    BY <1>2, <1>5, <2>1, <2>2
  <2>5. QED
    BY <1>2, <1>5, <2>1, <2>2, <2>3, <2>4 DEF Advances
<1>14. ASSUME SyncFails(Host) PROVE Advances(Host, m)
  <2>1. /\ pc[Host] = "written" /\ file' = file /\ disk' = disk /\ inner' = inner
        /\ durable_len' = durable_len /\ Goto(Host, "rollback")
    BY <1>14 DEF SyncFails
  <2>2. pc'[Host] = "rollback"
    BY <1>3, <2>1
  <2>3. QED
    BY <1>2, <1>5, <2>1, <2>2 DEF Advances
<1>15. ASSUME RollbackTail(Host) PROVE Advances(Host, m)
  <2>1. /\ pc[Host] = "rollback" /\ inner' = inner /\ durable_len' = durable_len /\ Goto(Host, "open")
        /\ file' = file \/ file' = SubSeq(file, 1, durable_len[Host])
        /\ disk' \in {disk, file'}
    BY <1>7, <1>15 DEF RollbackTail
  <2>2. pc'[Host] = "open" /\ m <= durable_len[Host] /\ durable_len[Host] \in 1..Readable(file)
    BY <1>1, <1>3, <1>5, <2>1 DEF ProcessOK
  <2>3. durable_len[Host] \in 0..Len(file)
    BY <1>1, <2>2
  <2>4. m <= Len(file') /\ \A k \in 1..m : file'[k] = file[k]
    <3>1. CASE file' = file
      BY <1>2, <3>1
    <3>2. CASE file' = SubSeq(file, 1, durable_len[Host])
      BY <1>6, <2>2, <2>3, <3>2
    <3>3. QED
      BY <2>1, <3>1, <3>2
  <2>5. QED
    BY <1>5, <2>1, <2>2, <2>4 DEF Advances
<1>16. ASSUME Kill(Host) PROVE Advances(Host, m)
  <2>1. file' = file /\ disk' = disk /\ Close(Host)
    BY <1>16 DEF Kill
  <2>2. QED
    BY <1>2, <1>4, <1>5, <2>1 DEF Advances
<1>17. QED
  BY <1>8, <1>9, <1>10, <1>11, <1>12, <1>13, <1>14, <1>15, <1>16 DEF ProcessStep

-----------------------------------------------------------------------------
\* A position up to which the events were all returned by some poll.
Covers(es, polled, c) ==
  c # None => c \in 0..(Len(es) - 1) /\ \A k \in 1..(c + 1) : es[k] \in polled

\* What the host keeps outside the journal, against the events es.
Claims(es, polled, c, d, v, generations, p) ==
  /\ Covers(es, polled, c) /\ Covers(es, polled, d) /\ Covers(es, polled, v)
  /\ \A s \in generations : Beginning(s, es)
  /\ p # None => Beginning(p, es)

\* The host rests on the first m items of the journal.
Rests(m) ==
  /\ pc[Host] \in Running => m <= durable_len[Host] /\ inner[Host].events = Shown(file, m)
  /\ ~unsynced => m <= Len(disk) /\ \A k \in 1..m : disk[k] = file[k]
  /\ Claims(Shown(file, m), seen, checkpoint, delivered_through, saved, snapshots, live)

HostInv ==
  /\ Inv
  /\ unsynced \in BOOLEAN /\ tainted \in BOOLEAN
  /\ pc[Host] \notin Running => inner[Host] = EmptyStore
  /\ ~tainted => \E m \in 0..Readable(file) : Rests(m)

\* More events, or more polled ones, back as much.
LEMMA ClaimsGrow ==
  ASSUME NEW es, NEW fs \in Seq(StoredEvent), Beginning(es, fs), NEW polled, NEW c, NEW d, NEW v,
         NEW generations, NEW p, Claims(es, polled, c, d, v, generations, p)
  PROVE  Claims(fs, polled, c, d, v, generations, p)
<1>1. Len(es) \in Nat /\ Len(fs) \in Nat /\ Len(es) <= Len(fs)
      /\ \A k \in 1..Len(es) : es[k] = fs[k]
  BY LenProperties DEF Beginning
<1>2. ASSUME NEW x, Covers(es, polled, x) PROVE Covers(fs, polled, x)
  <2> SUFFICES ASSUME x # None
               PROVE  x \in 0..(Len(fs) - 1) /\ \A k \in 1..(x + 1) : fs[k] \in polled
    BY DEF Covers
  <2>1. x \in 0..(Len(es) - 1) /\ \A k \in 1..(x + 1) : es[k] \in polled
    BY <1>2 DEF Covers
  <2>2. x \in 0..(Len(fs) - 1) /\ \A k \in 1..(x + 1) : k \in 1..Len(es)
    BY <1>1, <2>1
  <2>3. QED
    BY <1>1, <2>1, <2>2
<1>3. Covers(fs, polled, c) /\ Covers(fs, polled, d) /\ Covers(fs, polled, v)
  BY <1>2 DEF Claims
<1>4. /\ \A s \in generations : Beginning(s, fs)
      /\ p # None => Beginning(p, fs)
  BY BeginningTransitive DEF Claims
<1>5. QED
  BY <1>3, <1>4 DEF Claims

\* What a restart keeps claims no more.
LEMMA ForgottenClaims ==
  ASSUME Forget, NEW es,
         Claims(es, seen, checkpoint, delivered_through, saved, snapshots, live),
         saved' = saved, NEW generations, generations \subseteq snapshots
  PROVE  Claims(es, seen, checkpoint', delivered_through', saved', generations, live')
<1>1. Covers(es, seen, None)
  BY DEF Covers
<1>2. \/ checkpoint' = saved /\ delivered_through' = None /\ live' = None
      \/ checkpoint' = checkpoint /\ delivered_through' = delivered_through /\ live' = live
  BY DEF Forget
<1>3. QED
  BY <1>1, <1>2 DEF Claims

-----------------------------------------------------------------------------
\* A step of the store: it publishes what is then the part the host rests on,
\* or it publishes nothing and keeps that part.
LEMMA StoreStepKeeps ==
  ASSUME HostInv, StoreStep
  PROVE  HostInv'
<1>1. Inv /\ ProcessStep(Host) /\ Forget
      /\ saved' = saved /\ snapshots' = snapshots /\ seen' = seen /\ tainted' = tainted
  BY DEF HostInv, StoreStep
<1>2. Inv'
  <2>1. Next
    BY <1>1, TheHost DEF Next
  <2>2. QED
    BY <1>1, <2>1, NextInv
<1>3. /\ file \in Seq(Item) /\ disk \in Seq(Item) /\ inner \in [Processes -> Store]
      /\ Readable(file) \in 0..Len(file) /\ Len(file) \in Nat
  BY <1>1, HostParts
<1>4. /\ file' \in Seq(Item) /\ disk' \in Seq(Item) /\ inner' \in [Processes -> Store]
      /\ inner'[Host] \in Store /\ Len(file') \in Nat /\ Readable(file') \in 0..Len(file')
      /\ ProcessOK(pc'[Host], inner'[Host], durable_len'[Host], pending'[Host], file', acked')
  <2>1. /\ file' \in Seq(Item) /\ disk' \in Seq(Item) /\ ProcessesOK' /\ inner' \in [Processes -> Store]
    BY <1>2 DEF Inv, FileOK, IsJournal, ProcessTypes
  <2>2. QED
    BY <2>1, TheHost, ReadableFrames, ItemFields DEF ProcessesOK
<1>5. unsynced' = IF pc'[Host] # "open" \/ inner'[Host] = inner[Host] THEN unsynced
                  ELSE IF pc[Host] = "written" THEN options[Host].durability = "Flush"
                  ELSE disk' # file'
  BY DEF StoreStep
<1>6. unsynced' \in BOOLEAN /\ tainted' \in BOOLEAN
  BY <1>1, <1>5 DEF HostInv
<1>7. pc[Host] \notin Running => inner[Host] = EmptyStore
  BY DEF HostInv
<1>8. pc'[Host] \notin Running => inner'[Host] = EmptyStore
  <2>1. 0 \in 0..Readable(file) /\ (pc[Host] \in Running => 0 <= durable_len[Host])
    BY <1>1, <1>3, HostParts, TheHost
  <2>2. Advances(Host, 0)
    BY <1>1, <1>7, <2>1, HostAdvances
  <2>3. QED
    BY <2>2 DEF Advances
<1>9. ASSUME ~tainted' PROVE \E n \in 0..Readable(file') : Rests(n)'
  <2>1. PICK m \in 0..Readable(file) : Rests(m)
    BY <1>1, <1>9 DEF HostInv
  <2>2. Advances(Host, m)
    BY <1>1, <1>7, <2>1, HostAdvances DEF Rests
  <2>3. /\ m <= Len(file') /\ \A k \in 1..m : file'[k] = file[k]
        /\ disk' \in {disk, file'}
    BY <2>2 DEF Advances
  <2>4. m \in 0..Readable(file') /\ Shown(file', m) = Shown(file, m)
    BY <1>3, <1>4, <2>1, <2>3, SameShown
  <2>5. Claims(Shown(file', m), seen', checkpoint', delivered_through', saved', snapshots', live')
    BY <1>1, <2>1, <2>4, ForgottenClaims DEF Rests
  <2>6. unsynced' = unsynced =>
          (~unsynced' => m <= Len(disk') /\ \A k \in 1..m : disk'[k] = file'[k])
    BY <2>1, <2>3 DEF Rests
  <2>7. CASE pc'[Host] \notin Running
    <3>1. unsynced' = unsynced
      BY <1>5, <2>7 DEF Running
    <3>2. Rests(m)'
      BY <2>5, <2>6, <2>7, <3>1 DEF Rests
    <3>3. QED
      BY <2>4, <3>2
  <2>8. CASE pc'[Host] \in Running
    <3>1. /\ durable_len'[Host] \in 1..Readable(file')
          /\ inner'[Host].events = Shown(file', durable_len'[Host])
      BY <1>4, <2>8, MemoryShown
    <3>2. m <= durable_len'[Host]
      BY <2>2, <2>8 DEF Advances
    <3>3. durable_len'[Host] \in 0..Len(file') /\ m \in 0..durable_len'[Host]
      BY <1>4, <2>4, <3>1, <3>2
    <3>4. Beginning(Shown(file', m), Shown(file', durable_len'[Host]))
      BY <1>4, <3>3, ShownGrows
    <3>5. CASE inner'[Host] = inner[Host]
      <4>1. unsynced' = unsynced
        BY <1>5, <3>5
      <4>2. inner'[Host].events = Shown(file', m)
        <5>1. CASE pc[Host] \in Running
          BY <2>1, <2>4, <3>5, <5>1 DEF Rests
        <5>2. CASE pc[Host] \notin Running
          <6>1. Shown(file', durable_len'[Host]) = <<>>
            BY <1>7, <3>1, <3>5, <5>2 DEF EmptyStore
          <6>2. Shown(file', m) \in Seq(StoredEvent) /\ Len(Shown(file', m)) <= 0
            BY <3>4, <6>1, EmptySeq DEF Beginning
          <6>3. Shown(file', m) = <<>>
            BY <6>2, LenProperties, EmptySeq
          <6>4. QED
            BY <3>1, <6>1, <6>3
        <5>3. QED
          BY <5>1, <5>2
      <4>3. Rests(m)'
        BY <2>5, <2>6, <3>2, <4>1, <4>2 DEF Rests
      <4>4. QED
        BY <2>4, <4>3
    <3>6. CASE inner'[Host] # inner[Host]
      <4>. PICK n : n = durable_len'[Host]
        OBVIOUS
      <4>1. /\ pc'[Host] = "open"
            /\ pc[Host] = "written" => options[Host].durability = "Flush" \/ disk' = file'
        BY <2>2, <2>8, <3>6 DEF Advances
      <4>2. ~unsynced' => disk' = file'
        BY <1>5, <3>6, <4>1
      <4>3. Shown(file', n) \in Seq(StoredEvent)
        BY <1>4, <3>3, ShownType
      <4>4. Claims(Shown(file', n), seen', checkpoint', delivered_through', saved', snapshots', live')
        BY <2>5, <3>4, <4>3, ClaimsGrow
      <4>5. n \in Nat /\ n <= Len(file') /\ n \in 0..Readable(file')
        BY <1>4, <3>1, <3>3
      <4>6. ~unsynced' => n <= Len(disk') /\ \A k \in 1..n : disk'[k] = file'[k]
        BY <4>2, <4>5
      <4>7. Rests(n)'
        BY <3>1, <4>4, <4>5, <4>6 DEF Rests
      <4>8. QED
        BY <4>5, <4>7
    <3>7. QED
      BY <3>5, <3>6
  <2>9. QED
    BY <2>7, <2>8
<1>10. QED
  BY <1>2, <1>6, <1>8, <1>9 DEF HostInv

\* A write-back leaves on disk what disk and file agree on.
LEMMA DiskStepKeeps ==
  ASSUME HostInv, DiskStep
  PROVE  HostInv'
<1>1. Inv /\ Writeback /\ file' = file /\ pc' = pc /\ inner' = inner /\ durable_len' = durable_len
      /\ disk' \in DiskImages(disk, file)
      /\ checkpoint' = checkpoint /\ delivered_through' = delivered_through /\ saved' = saved
      /\ live' = live /\ snapshots' = snapshots
      /\ seen' = seen /\ unsynced' = unsynced /\ tainted' = tainted
  BY DEF HostInv, DiskStep, Writeback, process, subscription, projection, observed
<1>2. Inv'
  BY <1>1, NextInv DEF Next
<1>3. file \in Seq(Item) /\ disk \in Seq(Item) /\ Readable(file) \in 0..Len(file)
      /\ Len(file) \in Nat /\ Len(disk) \in Nat
  BY <1>1, HostParts, ItemFields
<1>4. ASSUME ~tainted PROVE \E m \in 0..Readable(file') : Rests(m)'
  <2>1. PICK m \in 0..Readable(file) : Rests(m)
    BY <1>4 DEF HostInv
  <2>2. ASSUME ~unsynced PROVE m <= Len(disk') /\ \A k \in 1..m : disk'[k] = file[k]
    <3>1. m <= Len(disk) /\ \A k \in 1..m : disk[k] = file[k]
      BY <2>1, <2>2 DEF Rests
    <3>2. m \in 0..Len(disk) /\ m <= Len(file) /\ m \in Nat
      BY <1>3, <2>1, <3>1
    <3>3. m <= CommonLen(disk, file) /\ CommonLen(disk, file) \in Nat
      BY <1>3, <3>1, <3>2, CommonItems
    <3>4. disk' \in Seq(Item)
          /\ \E x \in {disk, file} : \E n \in 0..Len(x) :
                CommonLen(disk, file) <= n /\ CutTo(disk', x, n)
      BY <1>1, <1>3, ImageCut
    <3>5. PICK x \in {disk, file} : \E n \in 0..Len(x) :
             CommonLen(disk, file) <= n /\ CutTo(disk', x, n)
      BY <3>4
    <3>6. PICK n \in 0..Len(x) : CommonLen(disk, file) <= n /\ CutTo(disk', x, n)
      BY <3>5
    <3>7. n \in Nat /\ Len(disk') \in {n, n + 1} /\ \A k \in 1..n : disk'[k] = x[k]
      BY <1>3, <3>5, <3>6 DEF CutTo
    <3>8. m <= n /\ m <= Len(disk') /\ \A k \in 1..m : k \in 1..n
      BY <3>2, <3>3, <3>6, <3>7
    <3>9. \A k \in 1..m : x[k] = file[k]
      BY <3>1, <3>5
    <3>10. QED
      BY <3>7, <3>8, <3>9
  <2>3. Rests(m)'
    BY <1>1, <2>1, <2>2 DEF Rests
  <2>4. QED
    BY <1>1, <2>1, <2>3
<1>5. QED
  BY <1>1, <1>2, <1>4 DEF HostInv

\* A loss of power leaves what was on disk; without unsynced events that holds
\* what the host rests on.
LEMMA PowerStepKeeps ==
  ASSUME HostInv, PowerStep
  PROVE  HostInv'
<1>1. Inv /\ LosePower /\ Forget /\ file' = disk /\ disk' = disk
      /\ snapshots' \subseteq snapshots /\ tainted' = (tainted \/ unsynced)
      /\ saved' = saved /\ seen' = seen /\ unsynced' = unsynced
  BY DEF HostInv, PowerStep, LosePower
<1>2. Inv'
  BY <1>1, NextInv DEF Next
<1>3. file \in Seq(Item) /\ disk \in Seq(Item)
  BY <1>1, HostParts
<1>4. pc'[Host] = "closed" /\ inner'[Host] = EmptyStore
  BY <1>1, TheHost DEF LosePower
<1>5. pc'[Host] \notin Running
  BY <1>4 DEF Running
<1>6. unsynced' \in BOOLEAN /\ tainted' \in BOOLEAN
  BY <1>1 DEF HostInv
<1>7. ASSUME ~tainted' PROVE \E m \in 0..Readable(file') : Rests(m)'
  <2>1. ~tainted /\ ~unsynced
    BY <1>1, <1>7
  <2>2. PICK m \in 0..Readable(file) : Rests(m)
    BY <2>1 DEF HostInv
  <2>3. m <= Len(disk) /\ \A k \in 1..m : disk[k] = file[k]
    BY <2>1, <2>2 DEF Rests
  <2>4. m \in 0..Readable(disk) /\ Shown(disk, m) = Shown(file, m)
    BY <1>3, <2>2, <2>3, SameShown
  <2>5. Claims(Shown(file', m), seen', checkpoint', delivered_through', saved', snapshots', live')
    BY <1>1, <2>2, <2>4, ForgottenClaims DEF Rests
  <2>6. m <= Len(disk') /\ \A k \in 1..m : disk'[k] = file'[k]
    BY <1>1, <2>3
  <2>7. Rests(m)'
    BY <1>5, <2>5, <2>6 DEF Rests
  <2>8. QED
    BY <1>1, <2>4, <2>7
<1>8. QED
  BY <1>2, <1>4, <1>6, <1>7 DEF HostInv

-----------------------------------------------------------------------------
\* A step of the host that leaves the store alone needs new claims only.
LEMMA HostStepKeeps ==
  ASSUME HostInv, UNCHANGED vars, unsynced' = unsynced, tainted' = tainted,
         \A m \in 0..Readable(file) : Rests(m) =>
            Claims(Shown(file, m), seen', checkpoint', delivered_through', saved', snapshots', live')
  PROVE  HostInv'
<1>1. file' = file /\ disk' = disk /\ pc' = pc /\ inner' = inner /\ durable_len' = durable_len
  BY DEF vars, process
<1>2. Inv'
  BY NextInv DEF HostInv
<1>3. ASSUME ~tainted PROVE \E m \in 0..Readable(file') : Rests(m)'
  <2>1. PICK m \in 0..Readable(file) : Rests(m)
    BY <1>3 DEF HostInv
  <2>2. Claims(Shown(file, m), seen', checkpoint', delivered_through', saved', snapshots', live')
    BY <2>1
  <2>3. Rests(m)'
    BY <1>1, <2>1, <2>2 DEF Rests
  <2>4. QED
    BY <1>1, <2>1, <2>3
<1>4. QED
  BY <1>1, <1>2, <1>3 DEF HostInv

\* The open store holds the events the host rests on.
LEMMA OpenStore ==
  ASSUME HostInv, pc[Host] = "open", NEW m \in 0..Readable(file), Rests(m)
  PROVE  /\ inner[Host] \in Store /\ WellFormed(inner[Host])
         /\ inner[Host].events = Shown(file, m)
         /\ Shown(file, m) \in Seq(StoredEvent) /\ Len(Shown(file, m)) \in Nat
<1>1. "open" \in Running
  BY DEF Running
<1>2. inner[Host] \in Store /\ WellFormed(inner[Host])
  BY <1>1, HostParts, MemoryShown DEF HostInv
<1>3. inner[Host].events = Shown(file, m)
  BY <1>1 DEF Rests
<1>4. QED
  BY <1>2, <1>3, StoreFields, LenProperties

\* The subscription loads from the store with the same operator.
LEMMA SameLoadAll ==
  ASSUME NEW st, NEW after, NEW limit
  PROVE  Sub!LoadAll(st, after, limit) = LoadAll(st, after, limit)
<1>1. \A s, kept : Sub!Filtered(s, kept) = Filtered(s, kept)
  BY Zenon DEF Sub!Filtered, Filtered
<1>2. \A cursor, value : Sub!After(cursor, value) <=> After(cursor, value)
  BY Zenon DEF Sub!After, After
<1>3. QED
  BY <1>1, <1>2, Zenon DEF Sub!LoadAll, LoadAll

\* poll hands out what follows the checkpoint, so that up to its last event
\* nothing is left out.
LEMMA PollKeeps ==
  ASSUME HostInv, Poll
  PROVE  HostInv'
<1> DEFINE events == LoadAll(inner[Host], checkpoint, BatchSize)
<1>1. /\ pc[Host] = "open" /\ UNCHANGED vars /\ seen' = seen \cup ToSet(events)
      /\ delivered_through' = IF events = <<>> THEN None ELSE events[Len(events)].global_position
      /\ checkpoint' = checkpoint /\ saved' = saved /\ live' = live /\ snapshots' = snapshots
      /\ unsynced' = unsynced /\ tainted' = tainted
  BY SameLoadAll DEF Poll, Sub!Poll, projection
<1>2. ASSUME NEW m \in 0..Readable(file), Rests(m)
      PROVE  Claims(Shown(file, m), seen', checkpoint', delivered_through', saved', snapshots', live')
  <2> DEFINE st == inner[Host]
             es == Shown(file, m)
             n == IF checkpoint = None THEN 0 ELSE checkpoint + 1
  <2>1. /\ st \in Store /\ WellFormed(st) /\ st.events = es
        /\ es \in Seq(StoredEvent) /\ Len(es) \in Nat
    BY <1>1, <1>2, OpenStore
  <2>2. Claims(es, seen, checkpoint, delivered_through, saved, snapshots, live)
    BY <1>2 DEF Rests
  <2> HIDE DEF es, st
  <2>3. ASSUME NEW x, Covers(es, seen, x) PROVE Covers(es, seen', x)
    BY <1>1, <2>3 DEF Covers
  <2>4. n \in 0..Len(es) /\ checkpoint = Cursor(n) /\ \A k \in 1..n : es[k] \in seen
    <3>1. CASE checkpoint = None
      BY <2>1, <3>1 DEF Cursor
    <3>2. CASE checkpoint # None
      <4>1. checkpoint \in 0..(Len(es) - 1) /\ \A k \in 1..(checkpoint + 1) : es[k] \in seen
        BY <2>2, <3>2 DEF Claims, Covers
      <4>2. QED
        BY <2>1, <3>2, <4>1 DEF Cursor
    <3>3. QED
      BY <3>1, <3>2
  <2> HIDE DEF n
  <2>5. PICK j \in 0..(Len(es) - n) : events = [k \in 1..j |-> es[n + k]]
    <3>1. BatchSize \in Nat
      BY RecoveryAssumption
    <3> DEFINE j == IF BatchSize < Len(es) - n THEN BatchSize ELSE Len(es) - n
    <3>2. j \in 0..(Len(es) - n)
      BY <2>1, <2>4, <3>1
    <3>3. LoadAll(st, Cursor(n), BatchSize) = [k \in 1..j |-> st.events[n + k]]
      BY <2>1, <2>4, <3>1, LoadAllRest
    <3>4. events = [k \in 1..j |-> es[n + k]]
      BY <2>1, <2>4, <3>3 DEF st
    <3> HIDE DEF j
    <3>5. QED
      BY <3>2, <3>4
  <2>6. Covers(es, seen', delivered_through')
    <3>1. CASE events = <<>>
      BY <1>1, <3>1 DEF Covers
    <3>2. CASE events # <<>>
      <4>1. j # 0
        BY <2>5, <3>2
      <4>2. j \in 1..j /\ j \in Nat /\ n \in Nat /\ n + j \in 1..Len(es) /\ (n + j) - 1 \in 0..(Len(es) - 1)
        BY <2>1, <2>4, <2>5, <4>1
      <4>3. Len(events) = j /\ events[j] = es[n + j]
        <5>1. \A k \in 1..j : es[n + k] \in StoredEvent
          <6>1. \A k \in 1..j : n + k \in 1..Len(es)
            BY <2>1, <2>4, <2>5, <4>2
          <6>2. QED
            BY <2>1, <6>1, ElementOfSeq
        <5>2. QED
          BY <2>5, <4>2, <5>1
      <4>4. es[n + j].global_position = (n + j) - 1
        BY <2>1, <4>2, EventIndexed
      <4>5. delivered_through' = (n + j) - 1
        BY <1>1, <3>2, <4>3, <4>4
      <4>6. ASSUME NEW k \in 1..(n + j) PROVE es[k] \in seen'
        <5>1. CASE k <= n
          BY <1>1, <2>4, <4>2, <5>1
        <5>2. CASE ~(k <= n)
          <6>1. k - n \in 1..j /\ n + (k - n) = k
            BY <4>2, <5>2
          <6>2. events[k - n] = es[k] /\ k - n \in DOMAIN events
            BY <2>5, <6>1
          <6>3. es[k] \in ToSet(events)
            BY <6>2 DEF ToSet
          <6>4. QED
            BY <1>1, <6>3
        <5>3. QED
          BY <5>1, <5>2
      <4>7. ((n + j) - 1) + 1 = n + j
        BY <4>2
      <4>8. QED
        BY <4>2, <4>5, <4>6, <4>7 DEF Covers
    <3>3. QED
      BY <3>1, <3>2
  <2>7. Claims(es, seen', checkpoint', delivered_through', saved', snapshots', live')
    BY <1>1, <2>2, <2>3, <2>6 DEF Claims
  <2>8. QED
    BY <2>7 DEF es
<1> HIDE DEF events
<1>3. QED
  BY <1>1, <1>2, HostStepKeeps

\* acknowledge takes a position up to the last one delivered.
LEMMA AcknowledgeKeeps ==
  ASSUME HostInv, NEW position \in 0..(MaxEvents - 1), Acknowledge(position)
  PROVE  HostInv'
<1>1. /\ UNCHANGED vars /\ unsynced' = unsynced /\ tainted' = tainted /\ seen' = seen
      /\ delivered_through # None /\ position <= delivered_through
      /\ checkpoint' = position /\ delivered_through' = None
      /\ saved' = saved /\ live' = live /\ snapshots' = snapshots
  BY DEF Acknowledge, Sub!Acknowledge, Sub!Accepts, projection, observed
<1>2. ASSUME NEW m \in 0..Readable(file), Rests(m)
      PROVE  Claims(Shown(file, m), seen', checkpoint', delivered_through', saved', snapshots', live')
  <2> DEFINE es == Shown(file, m)
  <2>1. Claims(es, seen, checkpoint, delivered_through, saved, snapshots, live)
    BY <1>2 DEF Rests
  <2>2. Len(es) \in Nat
    <3>1. m \in 0..Len(file) /\ file \in Seq(Item)
      BY <1>2, HostParts DEF HostInv
    <3>2. QED
      BY <3>1, ShownType, LenProperties
  <2> HIDE DEF es
  <2>3. /\ delivered_through \in 0..(Len(es) - 1)
        /\ \A k \in 1..(delivered_through + 1) : es[k] \in seen
    BY <1>1, <2>1 DEF Claims, Covers
  <2>4. position \in 0..(Len(es) - 1) /\ \A k \in 1..(position + 1) : k \in 1..(delivered_through + 1)
    BY <1>1, <2>2, <2>3
  <2>5. Covers(es, seen', checkpoint') /\ Covers(es, seen', delivered_through')
    BY <1>1, <2>3, <2>4 DEF Covers
  <2>6. Claims(es, seen', checkpoint', delivered_through', saved', snapshots', live')
    BY <1>1, <2>1, <2>5 DEF Claims
  <2>7. QED
    BY <2>6 DEF es
<1>3. QED
  BY <1>1, <1>2, HostStepKeeps

\* The host saves a checkpoint that is covered.
LEMMA SaveKeeps ==
  ASSUME HostInv, Save
  PROVE  HostInv'
<1>1. /\ UNCHANGED vars /\ unsynced' = unsynced /\ tainted' = tainted /\ seen' = seen
      /\ checkpoint' = checkpoint /\ delivered_through' = delivered_through
      /\ saved' = checkpoint /\ live' = live /\ snapshots' = snapshots
  BY DEF Save, Sub!Save, projection, observed
<1>2. ASSUME NEW m \in 0..Readable(file), Rests(m)
      PROVE  Claims(Shown(file, m), seen', checkpoint', delivered_through', saved', snapshots', live')
  BY <1>1, <1>2 DEF Rests, Claims
<1>3. QED
  BY <1>1, <1>2, HostStepKeeps

\* A snapshot is the projection the host has.
LEMMA SaveSnapshotKeeps ==
  ASSUME HostInv, SaveSnapshot
  PROVE  HostInv'
<1>1. /\ UNCHANGED vars /\ unsynced' = unsynced /\ tainted' = tainted /\ seen' = seen
      /\ checkpoint' = checkpoint /\ delivered_through' = delivered_through
      /\ saved' = saved /\ live' = live /\ snapshots' = snapshots \cup {live} /\ live # None
  BY DEF SaveSnapshot, subscription, observed
<1>2. ASSUME NEW m \in 0..Readable(file), Rests(m)
      PROVE  Claims(Shown(file, m), seen', checkpoint', delivered_through', saved', snapshots', live')
  BY <1>1, <1>2 DEF Rests, Claims
<1>3. QED
  BY <1>1, <1>2, HostStepKeeps

-----------------------------------------------------------------------------
\* The recursion of the cursor is well-founded.
LEMMA CursorRecursion ==
  ASSUME NEW es, Len(es) \in Nat
  PROVE  \E r : /\ r = [k \in 0..Len(es) |->
                          IF k = 0 THEN StartCursor ELSE Advance(r[k - 1], es[k])]
                /\ CursorOf(es) = r[Len(es)]
<1> DEFINE Rec(r, n) == r = [k \in 0..n |->
                              IF k = 0 THEN StartCursor ELSE Advance(r[k - 1], es[k])]
           N == {n \in Nat : \E r : Rec(r, n)}
<1>1. 0 \in N
  <2>1. Rec([k \in 0..0 |-> StartCursor], 0)
    OBVIOUS
  <2>2. QED
    BY <2>1
<1>2. ASSUME NEW n \in Nat, n \in N PROVE n + 1 \in N
  <2>1. PICK r : Rec(r, n)
    BY <1>2
  <2> DEFINE d == [k \in 0..(n + 1) |->
                     IF k = n + 1 THEN Advance(r[n], es[n + 1]) ELSE r[k]]
  <2>2. ASSUME NEW k \in 0..(n + 1)
        PROVE  d[k] = IF k = 0 THEN StartCursor ELSE Advance(d[k - 1], es[k])
    <3>1. CASE k = n + 1
      <4>1. k # 0 /\ k - 1 = n /\ n \in 0..(n + 1) /\ n # n + 1
        BY <3>1
      <4>2. d[k - 1] = r[n] /\ d[k] = Advance(r[n], es[n + 1])
        BY <3>1, <4>1
      <4>3. QED
        BY <3>1, <4>1, <4>2
    <3>2. CASE k = 0
      <4>1. r[0] = StartCursor /\ d[0] = r[0]
        BY <2>1
      <4>2. QED
        BY <3>2, <4>1
    <3>3. CASE k # n + 1 /\ k # 0
      <4>1. k \in 0..n /\ k - 1 \in 0..(n + 1) /\ k - 1 # n + 1
        BY <3>3
      <4>2. d[k] = r[k] /\ d[k - 1] = r[k - 1]
        BY <3>3, <4>1
      <4> HIDE DEF d
      <4>3. r[k] = Advance(r[k - 1], es[k])
        BY <2>1, <3>3, <4>1
      <4>4. QED
        BY <3>3, <4>2, <4>3
    <3>4. QED
      BY <3>1, <3>2, <3>3
  <2>3. d = [k \in 0..(n + 1) |-> d[k]]
    OBVIOUS
  <2> HIDE DEF d
  <2>4. Rec(d, n + 1)
    BY <2>2, <2>3
  <2>5. n + 1 \in Nat
    OBVIOUS
  <2> HIDE DEF Rec
  <2>6. QED
    BY <2>4, <2>5, Zenon
<1> HIDE DEF N
<1>3. Len(es) \in N
  BY <1>1, <1>2, InductionOnNat
<1>4. \E r : Rec(r, Len(es))
  BY <1>3 DEF N
<1>5. Rec(CHOOSE r : Rec(r, Len(es)), Len(es))
  BY <1>4, Zenon
<1>6. CursorOf(es) = (CHOOSE r : Rec(r, Len(es)))[Len(es)]
  BY Zenon DEF CursorOf
<1>7. QED
  BY <1>5, <1>6, Zenon

\* Where resume starts.
Start(base) == [events |-> base, cursor |-> CursorOf(base), ids |-> {}]

\* The recursion of resume is well-founded.
LEMMA ResumeRecursion ==
  ASSUME NEW base, NEW tail, Len(tail) \in Nat
  PROVE  \E r : /\ r = [k \in 0..Len(tail) |->
                          IF k = 0 THEN Start(base) ELSE ApplyNext(r[k - 1], tail[k])]
                /\ Resume(base, tail) = IF r[Len(tail)] = None THEN None ELSE r[Len(tail)].events
<1> DEFINE Rec(r, n) == r = [k \in 0..n |->
                              IF k = 0 THEN Start(base) ELSE ApplyNext(r[k - 1], tail[k])]
           N == {n \in Nat : \E r : Rec(r, n)}
<1>1. 0 \in N
  <2>1. Rec([k \in 0..0 |-> Start(base)], 0)
    OBVIOUS
  <2>2. QED
    BY <2>1
<1>2. ASSUME NEW n \in Nat, n \in N PROVE n + 1 \in N
  <2>1. PICK r : Rec(r, n)
    BY <1>2
  <2> DEFINE d == [k \in 0..(n + 1) |->
                     IF k = n + 1 THEN ApplyNext(r[n], tail[n + 1]) ELSE r[k]]
  <2>2. ASSUME NEW k \in 0..(n + 1)
        PROVE  d[k] = IF k = 0 THEN Start(base) ELSE ApplyNext(d[k - 1], tail[k])
    <3>1. CASE k = n + 1
      <4>1. k # 0 /\ k - 1 = n /\ n \in 0..(n + 1) /\ n # n + 1
        BY <3>1
      <4>2. d[k - 1] = r[n] /\ d[k] = ApplyNext(r[n], tail[n + 1])
        BY <3>1, <4>1
      <4>3. QED
        BY <3>1, <4>1, <4>2
    <3>2. CASE k = 0
      <4>1. r[0] = Start(base) /\ d[0] = r[0]
        BY <2>1
      <4>2. QED
        BY <3>2, <4>1
    <3>3. CASE k # n + 1 /\ k # 0
      <4>1. k \in 0..n /\ k - 1 \in 0..(n + 1) /\ k - 1 # n + 1
        BY <3>3
      <4>2. d[k] = r[k] /\ d[k - 1] = r[k - 1]
        BY <3>3, <4>1
      <4> HIDE DEF d
      <4>3. r[k] = ApplyNext(r[k - 1], tail[k])
        BY <2>1, <3>3, <4>1
      <4>4. QED
        BY <3>3, <4>2, <4>3
    <3>4. QED
      BY <3>1, <3>2, <3>3
  <2>3. d = [k \in 0..(n + 1) |-> d[k]]
    OBVIOUS
  <2> HIDE DEF d
  <2>4. Rec(d, n + 1)
    BY <2>2, <2>3
  <2>5. n + 1 \in Nat
    OBVIOUS
  <2> HIDE DEF Rec
  <2>6. QED
    BY <2>4, <2>5, Zenon
<1> HIDE DEF N
<1>3. Len(tail) \in N
  BY <1>1, <1>2, InductionOnNat
<1>4. \E r : Rec(r, Len(tail))
  BY <1>3 DEF N
<1>5. Rec(CHOOSE r : Rec(r, Len(tail)), Len(tail))
  BY <1>4, Zenon
<1>6. Resume(base, tail) = IF (CHOOSE r : Rec(r, Len(tail)))[Len(tail)] = None THEN None ELSE (CHOOSE r : Rec(r, Len(tail)))[Len(tail)].events
  BY Zenon DEF Resume, Start
<1>7. QED
  BY <1>5, <1>6, Zenon

\* The cursor of a beginning of a log stands at its last position.
LEMMA CursorPosition ==
  ASSUME NEW es \in Seq(StoredEvent), \A k \in 1..Len(es) : es[k].global_position = k - 1
  PROVE  CursorOf(es).global_position = Cursor(Len(es))
<1>1. Len(es) \in Nat
  BY LenProperties
<1>2. PICK r : /\ r = [k \in 0..Len(es) |-> IF k = 0 THEN StartCursor ELSE Advance(r[k - 1], es[k])]
               /\ CursorOf(es) = r[Len(es)]
  BY <1>1, CursorRecursion
<1>3. CASE Len(es) = 0
  <2>1. r[Len(es)] = StartCursor
    BY <1>1, <1>2, <1>3
  <2>2. QED
    BY <1>2, <1>3, <2>1 DEF StartCursor, Cursor
<1>4. CASE Len(es) # 0
  <2>1. Len(es) \in 0..Len(es) /\ Len(es) \in 1..Len(es)
    BY <1>1, <1>4
  <2>2. r[Len(es)] = Advance(r[Len(es) - 1], es[Len(es)])
    BY <1>2, <1>4, <2>1
  <2>3. r[Len(es)].global_position = es[Len(es)].global_position
    BY <2>2 DEF Advance
  <2>4. QED
    BY <1>2, <1>4, <2>1, <2>3 DEF Cursor
<1>5. QED
  BY <1>3, <1>4

\* What resume accepts it adds, in order and as a whole.
LEMMA ResumeExtends ==
  ASSUME NEW base \in Seq(StoredEvent), NEW tail \in Seq(StoredEvent), Resume(base, tail) # None
  PROVE  /\ Resume(base, tail) \in Seq(StoredEvent)
         /\ Len(Resume(base, tail)) = Len(base) + Len(tail)
         /\ \A k \in 1..Len(base) : Resume(base, tail)[k] = base[k]
         /\ \A k \in 1..Len(tail) : Resume(base, tail)[Len(base) + k] = tail[k]
<1>1. Len(base) \in Nat /\ Len(tail) \in Nat
  BY LenProperties
<1>2. PICK r : /\ r = [k \in 0..Len(tail) |->
                         IF k = 0 THEN Start(base) ELSE ApplyNext(r[k - 1], tail[k])]
               /\ Resume(base, tail) = IF r[Len(tail)] = None THEN None ELSE r[Len(tail)].events
  BY <1>1, ResumeRecursion
<1> DEFINE Good(n) == r[n] # None =>
                        /\ r[n].events \in Seq(StoredEvent)
                        /\ Len(r[n].events) = Len(base) + n
                        /\ \A k \in 1..Len(base) : r[n].events[k] = base[k]
                        /\ \A k \in 1..n : r[n].events[Len(base) + k] = tail[k]
           N == {n \in Nat : Good(n)}
<1>3. 0 \in N
  <2>1. r[0] = Start(base)
    BY <1>1, <1>2
  <2>2. r[0].events = base
    BY <2>1 DEF Start
  <2>3. Good(0)
    BY <1>1, <2>2
  <2> HIDE DEF Good
  <2>4. QED
    BY <2>3
<1>4. ASSUME NEW n \in 0..(Len(tail) - 1), n \in N PROVE n + 1 \in N
  <2> HIDE DEF Good
  <2>1. Good(n) /\ n \in Nat /\ n + 1 \in Nat /\ n + 1 \in 1..Len(tail)
    BY <1>1, <1>4
  <2>2. r[n + 1] = ApplyNext(r[n], tail[n + 1])
    <3>1. n + 1 \in 0..Len(tail) /\ n + 1 # 0 /\ (n + 1) - 1 = n
      BY <1>1, <2>1
    <3>2. QED
      BY <1>2, <3>1
  <2>3. ASSUME r[n + 1] # None PROVE Good(n + 1)
    <3> DEFINE e == tail[n + 1]
               old == r[n].events
               new == r[n + 1].events
    <3>1. r[n] # None /\ new = Append(old, e)
      BY <2>2, <2>3 DEF ApplyNext
    <3>2. e \in StoredEvent
      BY <2>1, ElementOfSeq
    <3>3. /\ old \in Seq(StoredEvent) /\ Len(old) = Len(base) + n
          /\ \A k \in 1..Len(base) : old[k] = base[k]
          /\ \A k \in 1..n : old[Len(base) + k] = tail[k]
      BY <2>1, <3>1 DEF Good
    <3> HIDE DEF e, old, new
    <3>4. /\ new \in Seq(StoredEvent) /\ Len(new) = (Len(base) + n) + 1
          /\ new[(Len(base) + n) + 1] = e
          /\ \A k \in 1..(Len(base) + n) : new[k] = old[k]
      <4>1. /\ new \in Seq(StoredEvent) /\ Len(new) = Len(old) + 1 /\ new[Len(old) + 1] = e
            /\ \A k \in 1..Len(old) : new[k] = old[k]
        <5>1. old \in Seq(StoredEvent)
          BY <3>3
        <5>2. new = Append(old, e)
          BY <3>1
        <5>3. QED
          BY <3>2, <5>1, <5>2, AppendProperties
      <4>2. QED
        BY <3>3, <4>1
    <3>5. Len(new) = Len(base) + (n + 1) /\ new[Len(base) + (n + 1)] = e
      BY <1>1, <2>1, <3>4
    <3>6. \A k \in 1..Len(base) : new[k] = base[k]
      BY <1>1, <2>1, <3>3, <3>4
    <3>7. ASSUME NEW k \in 1..(n + 1) PROVE new[Len(base) + k] = tail[k]
      <4>1. CASE k = n + 1
        BY <3>5, <4>1 DEF e
      <4>2. CASE k # n + 1
        <5>1. k \in 1..n /\ Len(base) + k \in 1..(Len(base) + n)
          BY <1>1, <2>1, <4>2
        <5>2. QED
          BY <3>3, <3>4, <5>1
      <4>3. QED
        BY <4>1, <4>2
    <3>8. QED
      BY <3>4, <3>5, <3>6, <3>7 DEF Good, new
  <2>4. Good(n + 1)
    <3>1. CASE r[n + 1] = None
      BY <3>1 DEF Good
    <3>2. QED
      BY <2>3, <3>1
  <2>5. QED
    BY <2>1, <2>4
<1> HIDE DEF Good
<1>5. Good(Len(tail))
  <2> HIDE DEF N
  <2>1. \A n \in 0..Len(tail) : n \in N
    BY <1>1, <1>3, <1>4, InductionUpTo
  <2>2. Len(tail) \in N
    BY <1>1, <2>1
  <2>3. QED
    BY <2>2 DEF N
<1>6. r[Len(tail)] # None /\ Resume(base, tail) = r[Len(tail)].events
  BY <1>2
<1>7. QED
  BY <1>5, <1>6 DEF Good

\* load_latest returns one of the snapshots: their lengths are bounded by the
\* log they are a past of.
LEMMA LatestBegins ==
  ASSUME NEW es \in Seq(StoredEvent), \A s \in snapshots : Beginning(s, es)
  PROVE  Beginning(Latest, es)
<1>1. Len(es) \in Nat
  BY LenProperties
<1>2. CASE snapshots = {}
  <2>1. Latest = <<>>
    BY <1>2 DEF Latest
  <2>2. Latest \in Seq(StoredEvent) /\ Len(Latest) = 0
    BY <2>1, EmptySeq
  <2>3. QED
    BY <1>1, <2>2 DEF Beginning
<1>3. CASE snapshots # {}
  <2> DEFINE L == {Len(s) : s \in snapshots}
  <2>1. \A s \in snapshots : Len(s) \in Nat /\ Len(s) <= Len(es)
    BY LenProperties DEF Beginning
  <2>2. L \subseteq Nat /\ L # {} /\ \A k \in L : k <= Len(es)
    BY <1>3, <2>1
  <2>3. \E k \in L : \A j \in L : j <= k
    <3> HIDE DEF L
    <3>1. QED
      BY <1>1, <2>2, GreatestElement
  <2>4. \E s \in snapshots : \A t \in snapshots : Len(t) <= Len(s)
    BY <2>3
  <2>5. Latest \in snapshots
    BY <1>3, <2>4 DEF Latest
  <2>6. QED
    BY <2>5
<1>4. QED
  BY <1>2, <1>3

\* Bringing the projection up to date adds the events that follow it.
LEMMA CatchUpKeeps ==
  ASSUME HostInv, CatchUp
  PROVE  HostInv'
<1> DEFINE base == IF live = None THEN Latest ELSE live
           tail == LoadAll(inner[Host], CursorOf(base).global_position, MaxEvents)
<1>1. /\ pc[Host] = "open" /\ UNCHANGED vars
      /\ unsynced' = unsynced /\ tainted' = tainted /\ seen' = seen
      /\ checkpoint' = checkpoint /\ delivered_through' = delivered_through
      /\ saved' = saved /\ snapshots' = snapshots
      /\ Resume(base, tail) # None /\ live' = Resume(base, tail)
  BY DEF CatchUp, subscription, observed
<1> HIDE DEF tail
<1>2. ASSUME NEW m \in 0..Readable(file), Rests(m)
      PROVE  Claims(Shown(file, m), seen', checkpoint', delivered_through', saved', snapshots', live')
  <2> DEFINE st == inner[Host]
             es == Shown(file, m)
  <2>1. /\ st \in Store /\ WellFormed(st) /\ st.events = es
        /\ es \in Seq(StoredEvent) /\ Len(es) \in Nat
    BY <1>1, <1>2, OpenStore
  <2>2. Claims(es, seen, checkpoint, delivered_through, saved, snapshots, live)
    BY <1>2 DEF Rests
  <2> HIDE DEF es, st
  <2>3. Beginning(base, es)
    BY <2>1, <2>2, LatestBegins DEF Claims
  <2> HIDE DEF base
  <2>4. base \in Seq(StoredEvent) /\ Len(base) \in Nat /\ Len(base) \in 0..Len(es)
        /\ \A k \in 1..Len(base) : base[k] = es[k] /\ k \in 1..Len(es)
    BY <2>1, <2>3, LenProperties DEF Beginning
  <2>5. \A k \in 1..Len(es) : es[k].global_position = k - 1
    BY <2>1, EventIndexed
  <2>6. CursorOf(base).global_position = Cursor(Len(base))
    BY <2>4, <2>5, CursorPosition
  <2>7. PICK j \in 0..(Len(es) - Len(base)) : tail = [k \in 1..j |-> es[Len(base) + k]]
    <3>1. MaxEvents \in Nat
      BY RecoveryAssumption
    <3> DEFINE n == Len(base)
               j == IF MaxEvents < Len(es) - n THEN MaxEvents ELSE Len(es) - n
    <3>2. j \in 0..(Len(es) - n)
      BY <2>1, <2>4, <3>1
    <3>3. LoadAll(st, Cursor(n), MaxEvents) = [k \in 1..j |-> st.events[n + k]]
      BY <2>1, <2>4, <3>1, LoadAllRest
    <3>4. tail = [k \in 1..j |-> es[n + k]]
      BY <2>1, <2>6, <3>3 DEF st, tail
    <3> HIDE DEF j
    <3>5. QED
      BY <3>2, <3>4
  <2>8. tail \in Seq(StoredEvent) /\ Len(tail) = j /\ \A k \in 1..j : tail[k] = es[Len(base) + k]
    <3>1. \A k \in 1..j : Len(base) + k \in 1..Len(es)
      BY <2>1, <2>4, <2>7
    <3>2. \A k \in 1..j : es[Len(base) + k] \in StoredEvent
      BY <2>1, <3>1, ElementOfSeq
    <3>3. j \in Nat
      BY <2>1, <2>4, <2>7
    <3>4. QED
      BY <2>7, <3>2, <3>3
  <2>9. /\ live' \in Seq(StoredEvent) /\ Len(live') = Len(base) + j
        /\ \A k \in 1..Len(base) : live'[k] = base[k]
        /\ \A k \in 1..j : live'[Len(base) + k] = tail[k]
    BY <1>1, <2>4, <2>8, ResumeExtends
  <2>10. Beginning(live', es)
    <3>1. Len(live') <= Len(es) /\ j \in Nat
      BY <2>1, <2>4, <2>7, <2>9
    <3>2. ASSUME NEW k \in 1..Len(live') PROVE live'[k] = es[k]
      <4>1. CASE k <= Len(base)
        BY <2>4, <2>9, <4>1
      <4>2. CASE ~(k <= Len(base))
        <5>1. k - Len(base) \in 1..j /\ Len(base) + (k - Len(base)) = k
          BY <2>4, <2>9, <3>1, <4>2
        <5>2. live'[Len(base) + (k - Len(base))] = es[Len(base) + (k - Len(base))]
          BY <2>8, <2>9, <5>1
        <5>3. QED
          BY <5>1, <5>2
      <4>3. QED
        BY <4>1, <4>2
    <3>3. QED
      BY <2>9, <3>1, <3>2 DEF Beginning
  <2>11. Claims(es, seen', checkpoint', delivered_through', saved', snapshots', live')
    BY <1>1, <2>2, <2>10 DEF Claims
  <2>12. QED
    BY <2>11 DEF es
<1> HIDE DEF base
<1>3. QED
  BY <1>1, <1>2, HostStepKeeps

-----------------------------------------------------------------------------
\* The invariant holds in every state: whatever calls fail, the host dies or
\* power is lost.
THEOREM HostInvariant == RecoverySpec => []HostInv
<1>1. RecoveryInit => HostInv
  <2> SUFFICES ASSUME RecoveryInit PROVE HostInv
    OBVIOUS
  <2>1. Init /\ checkpoint = None /\ delivered_through = None /\ saved = None
        /\ live = None /\ snapshots = {} /\ unsynced = FALSE /\ tainted = FALSE
    BY DEF RecoveryInit
  <2>2. Inv
    BY <2>1, InitInv
  <2>3. file = <<>> /\ pc[Host] = "closed" /\ inner[Host] = EmptyStore
    BY <2>1, TheHost DEF Init
  <2>4. pc[Host] \notin Running
    BY <2>3 DEF Running
  <2>5. 0 \in 0..Readable(file) /\ disk \in Seq(Item) /\ Len(disk) \in Nat
    BY <2>2, HostParts, ItemFields
  <2>6. Claims(Shown(file, 0), seen, checkpoint, delivered_through, saved, snapshots, live)
    BY <2>1 DEF Claims, Covers
  <2>7. Rests(0)
    BY <2>4, <2>5, <2>6 DEF Rests
  <2>8. QED
    BY <2>1, <2>2, <2>3, <2>5, <2>7 DEF HostInv
<1>2. HostInv /\ [RecoveryNext]_recovery_vars => HostInv'
  <2> SUFFICES ASSUME HostInv, [RecoveryNext]_recovery_vars PROVE HostInv'
    OBVIOUS
  <2>1. CASE RecoveryNext
    BY <2>1, StoreStepKeeps, DiskStepKeeps, PowerStepKeeps, PollKeeps, AcknowledgeKeeps, SaveKeeps,
       CatchUpKeeps, SaveSnapshotKeeps DEF RecoveryNext
  <2>2. CASE UNCHANGED recovery_vars
    <3>1. /\ UNCHANGED vars /\ unsynced' = unsynced /\ tainted' = tainted /\ seen' = seen
          /\ checkpoint' = checkpoint /\ delivered_through' = delivered_through
          /\ saved' = saved /\ live' = live /\ snapshots' = snapshots
      BY <2>2 DEF recovery_vars, subscription, projection, observed
    <3>2. ASSUME NEW m \in 0..Readable(file), Rests(m)
          PROVE  Claims(Shown(file, m), seen', checkpoint', delivered_through', saved', snapshots',
                        live')
      BY <3>1, <3>2 DEF Rests
    <3>3. QED
      BY <3>1, <3>2, HostStepKeeps
  <2>3. QED
    BY <2>1, <2>2
<1>3. QED
  BY <1>1, <1>2, PTL DEF RecoverySpec

\* What the host rests on is a beginning of the journal.
LEMMA RestsOnJournal ==
  ASSUME HostInv, ~tainted
  PROVE  Claims(Journal, seen, checkpoint, delivered_through, saved, snapshots, live)
<1>1. PICK m \in 0..Readable(file) : Rests(m)
  BY DEF HostInv
<1>2. file \in Seq(Item) /\ Readable(file) \in 0..Len(file)
  BY HostParts DEF HostInv
<1>3. Journal = Shown(file, Readable(file))
  BY DEF Journal, Shown, BatchesOf, Readable
<1>4. Beginning(Shown(file, m), Journal) /\ Journal \in Seq(StoredEvent)
  BY <1>1, <1>2, <1>3, ShownGrows, ShownType
<1>5. QED
  BY <1>1, <1>4, ClaimsGrow DEF Rests

\* A checkpoint never runs ahead of the journal nor over an event that no poll
\* returned, except after a loss of power while the store showed events that
\* were not on disk.
THEOREM CheckpointsAreBacked == RecoverySpec => []CheckpointBacked
<1>1. HostInv => CheckpointBacked
  <2> SUFFICES ASSUME HostInv, ~tainted, NEW c \in {checkpoint, saved} \ {None}
               PROVE  c < Len(Journal) /\ \A k \in 1..(c + 1) : Journal[k] \in seen
    BY DEF CheckpointBacked
  <2>1. Claims(Journal, seen, checkpoint, delivered_through, saved, snapshots, live)
    BY RestsOnJournal
  <2>2. Covers(Journal, seen, c) /\ c # None
    BY <2>1 DEF Claims
  <2>3. c \in 0..(Len(Journal) - 1) /\ \A k \in 1..(c + 1) : Journal[k] \in seen
    BY <2>2 DEF Covers
  <2>4. Len(Journal) \in Nat
    <3>1. file \in Seq(Item) /\ Readable(file) \in 0..Len(file)
      BY HostParts DEF HostInv
    <3>2. Journal = Shown(file, Readable(file))
      BY DEF Journal, Shown, BatchesOf, Readable
    <3>3. QED
      BY <3>1, <3>2, ShownType, LenProperties
  <2>5. QED
    BY <2>3, <2>4
<1>2. QED
  BY <1>1, HostInvariant, PTL

\* Snapshots and the host's projection stay a past of the journal, with the
\* same exception.
THEOREM SnapshotsAreBacked == RecoverySpec => []SnapshotsBacked
<1>1. HostInv => SnapshotsBacked
  <2> SUFFICES ASSUME HostInv, ~tainted, NEW s \in snapshots \cup ({live} \ {None})
               PROVE  IsPrefix(s, Journal)
    BY DEF SnapshotsBacked
  <2>1. Claims(Journal, seen, checkpoint, delivered_through, saved, snapshots, live)
    BY RestsOnJournal
  <2>2. Beginning(s, Journal)
    BY <2>1 DEF Claims
  <2>3. Journal \in Seq(StoredEvent)
    <3>1. file \in Seq(Item) /\ Readable(file) \in 0..Len(file)
      BY HostParts DEF HostInv
    <3>2. Journal = Shown(file, Readable(file))
      BY DEF Journal, Shown, BatchesOf, Readable
    <3>3. QED
      BY <3>1, <3>2, ShownType
  <2>4. QED
    BY <2>2, <2>3, BeginningIsPrefix
<1>2. QED
  BY <1>1, HostInvariant, PTL

=============================================================================
