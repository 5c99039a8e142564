--------------------- MODULE CatchUpSubscriptionProofs ---------------------
(***************************************************************************)
(* Proofs about CatchUpSubscription for every batch size, every number of  *)
(* events and restarts, and whatever positions the host acknowledges.      *)
(***************************************************************************)
EXTENDS CatchUpSubscription, InMemoryStoreProofs, TLAPS

\* A position of the log, or none.
Known(x, st) == x = None \/ x \in 0..(Len(st.events) - 1)

\* Every position up to x was handed out by some poll.
Covered(x, positions) == x # None => 0..x \subseteq positions

\* The inductive invariant: the bounds lie in the log, what lies before them
\* was delivered, and the saved checkpoint is no further than the live one.
Inv ==
  /\ store \in Store /\ WellFormed(store) /\ Len(store.events) <= MaxEvents
  /\ Known(checkpoint, store) /\ Known(delivered_through, store) /\ Known(saved, store)
  /\ delivered \subseteq 0..(Len(store.events) - 1)
  /\ Covered(checkpoint, delivered) /\ Covered(delivered_through, delivered)
  /\ Covered(saved, delivered)
  /\ AtMost(saved, checkpoint)
  /\ restarts \in 0..MaxRestarts

\* The positions a poll returns follow the checkpoint without a gap.
LEMMA PolledPositions ==
  ASSUME NEW st \in Store, WellFormed(st), NEW c, Known(c, st), NEW limit \in Nat
  PROVE  LET n == IF c = None THEN 0 ELSE c + 1
             es == LoadAll(st, c, limit)
         IN  /\ n \in 0..Len(st.events)
             /\ \E m \in 0..(Len(st.events) - n) :
                  /\ DOMAIN es = 1..m
                  /\ Len(es) = m
                  /\ es = <<>> <=> m = 0
                  /\ \A k \in 1..m : es[k].global_position = n + k - 1
<1> DEFINE n == IF c = None THEN 0 ELSE c + 1
           es == LoadAll(st, c, limit)
           rest == Len(st.events) - n
           m == IF limit < rest THEN limit ELSE rest
<1>1. Len(st.events) \in Nat /\ st.events \in Seq(StoredEvent)
  BY StoreFields, LenProperties
<1>2. n \in 0..Len(st.events) /\ n \in Nat
  BY <1>1 DEF Known
<1>3. c = Cursor(n)
  <2>1. CASE c = None
    BY <2>1 DEF Cursor
  <2>2. CASE c # None
    <3>1. c \in Nat /\ n = c + 1
      BY <1>1, <2>2 DEF Known
    <3>2. n # 0 /\ n - 1 = c
      BY <3>1
    <3> HIDE DEF n
    <3>3. QED
      BY <3>2 DEF Cursor
  <2>3. QED
    BY <2>1, <2>2
<1>4. rest \in Nat /\ m \in 0..rest /\ m \in Nat
  BY <1>1, <1>2
<1>5. es = [k \in 1..m |-> st.events[n + k]]
  <2> HIDE DEF n
  <2>1. LoadAll(st, Cursor(n), limit) = [k \in 1..m |-> st.events[n + k]]
    BY <1>2, LoadAllRest
  <2>2. QED
    BY <1>3, <2>1
<1> HIDE DEF n, m, es
<1>6. \A k \in 1..m : n + k \in 1..Len(st.events)
  BY <1>1, <1>2, <1>4
<1>7. es \in Seq(StoredEvent) /\ Len(es) = m /\ DOMAIN es = 1..m
  <2>1. es \in [1..m -> StoredEvent]
    BY <1>1, <1>5, <1>6, ElementOfSeq
  <2>2. QED
    BY <1>4, <2>1, IsASeq
<1>8. es = <<>> <=> m = 0
  BY <1>7, EmptySeq
<1>9. \A k \in 1..m : es[k].global_position = n + k - 1
  <2>1. \A i \in 1..Len(st.events) : st.events[i].global_position = i - 1
    BY DEF WellFormed, GlobalPositions
  <2>2. \A k \in 1..m : es[k] = st.events[n + k]
    BY <1>5
  <2> SUFFICES ASSUME NEW k \in 1..m PROVE es[k].global_position = n + k - 1
    OBVIOUS
  <2>3. n + k \in 1..Len(st.events)
    BY <1>6
  <2>4. st.events[n + k].global_position = n + k - 1
    BY <1>2, <1>4, <2>1, <2>3
  <2>5. QED
    BY <2>2, <2>4
<1>10. QED
  BY <1>2, <1>4, <1>7, <1>8, <1>9 DEF n, es

\* The producer keeps the store well-formed and only adds to the log.
LEMMA ProducePreservesInv ==
  ASSUME Inv, NEW s \in Streams, NEW n \in 1..2, Produce(s, n)
  PROVE  Inv'
<1> DEFINE ids == [k \in 1..n |-> Len(store.events) + k]
           b == PrepareAppend(store, s, ids)
<1>1. /\ store \in Store /\ WellFormed(store) /\ Len(store.events) \in Nat
      /\ MaxEvents \in Nat /\ n \in Nat
  BY StoreFields, LenProperties, SubscriptionAssumption DEF Inv
<1>2. /\ Len(store.events) + n <= MaxEvents
      /\ UniqueIds(store.event_ids, ids)
      /\ store' = CommitPrepared(store, b)
      /\ UNCHANGED <<checkpoint, delivered_through, saved, delivered, restarts>>
  BY DEF Produce, CanPrepare
<1>3. ids \in Seq(EventIds) /\ Len(ids) = n
  <2>1. PICK old \in Nat : old = Len(store.events)
    BY <1>1
  <2>2. \A k \in 1..n : old + k \in 1..MaxEvents
    BY <1>1, <1>2, <2>1
  <2>3. ids \in [1..n -> EventIds]
    BY <2>1, <2>2, SubscriptionAssumption
  <2> HIDE DEF ids
  <2>4. QED
    BY <1>1, <2>3, IsASeq
<1>4. ids # <<>>
  BY <1>3, EmptySeq
<1> HIDE DEF ids
<1>5. Extended(store, store', s, b) /\ WellFormed(store')
  BY <1>1, <1>2, <1>3, <1>4, CommittedStore, CommitWellFormed
<1>6. Len(b) = n
  BY <1>1, <1>3, PreparedBatch
<1> HIDE DEF b
<1>7. store' \in Store /\ Len(store'.events) = Len(store.events) + n
  BY <1>5, <1>6 DEF Extended
<1>8. 0..(Len(store.events) - 1) \subseteq 0..(Len(store'.events) - 1)
  BY <1>1, <1>7
<1>9. Len(store'.events) <= MaxEvents
  BY <1>2, <1>7
<1>10. QED
  BY <1>2, <1>5, <1>7, <1>8, <1>9 DEF Inv, Known

\* A poll hands out the events that follow the checkpoint, so nothing lies
\* undelivered before its last one.
LEMMA PollPreservesInv ==
  ASSUME Inv, Poll
  PROVE  Inv'
<1> DEFINE events == LoadAll(store, checkpoint, BatchSize)
           n == IF checkpoint = None THEN 0 ELSE checkpoint + 1
           polled == {events[k].global_position : k \in DOMAIN events}
<1>1. /\ store \in Store /\ WellFormed(store) /\ Known(checkpoint, store)
      /\ Len(store.events) \in Nat
  BY StoreFields, LenProperties DEF Inv
<1>2. /\ delivered_through' =
           IF events = <<>> THEN None ELSE events[Len(events)].global_position
      /\ delivered' = delivered \cup polled
      /\ UNCHANGED <<store, checkpoint, saved, restarts>>
  BY DEF Poll
<1>3. PICK m \in 0..(Len(store.events) - n) :
        /\ n \in 0..Len(store.events)
        /\ DOMAIN events = 1..m /\ Len(events) = m
        /\ events = <<>> <=> m = 0
        /\ \A k \in 1..m : events[k].global_position = n + k - 1
  <2>1. BatchSize \in Nat
    BY SubscriptionAssumption
  <2>2. QED
    BY <1>1, <2>1, PolledPositions
<1>4. \A i \in 0..(n - 1) : i \in delivered
  <2>1. CASE checkpoint = None
    BY <2>1
  <2>2. CASE checkpoint # None
    <3>1. checkpoint \in Nat /\ n = checkpoint + 1 /\ 0..checkpoint \subseteq delivered
      BY <1>1, <2>2 DEF Known, Inv, Covered
    <3>2. QED
      BY <3>1
  <2>3. QED
    BY <2>1, <2>2
<1>5. polled = {events[k].global_position : k \in 1..m}
  BY <1>3
<1> HIDE DEF events, n, polled
<1>6. \A i \in n..(n + m - 1) : i \in polled
  <2> SUFFICES ASSUME NEW i \in n..(n + m - 1) PROVE i \in polled
    OBVIOUS
  <2>1. i - n + 1 \in 1..m /\ n + (i - n + 1) - 1 = i
    BY <1>1, <1>3
  <2>2. events[i - n + 1].global_position = i
    BY <1>3, <2>1
  <2>3. QED
    BY <1>5, <2>1, <2>2
<1>7. \A i \in 0..(n + m - 1) : i \in delivered'
  <2> SUFFICES ASSUME NEW i \in 0..(n + m - 1) PROVE i \in delivered'
    OBVIOUS
  <2>1. i \in 0..(n - 1) \/ i \in n..(n + m - 1)
    BY <1>1, <1>3
  <2>2. QED
    BY <1>2, <1>4, <1>6, <2>1
<1>8. delivered' \subseteq 0..(Len(store.events) - 1)
  <2>1. \A k \in 1..m : events[k].global_position \in 0..(Len(store.events) - 1)
    BY <1>1, <1>3
  <2>2. QED
    BY <1>2, <1>5, <2>1 DEF Inv
<1>9. Known(delivered_through', store) /\ Covered(delivered_through', delivered')
  <2>1. CASE m = 0
    BY <1>2, <1>3, <2>1 DEF Known, Covered
  <2>2. CASE m # 0
    <3>1. m \in 1..m
      BY <1>1, <1>3, <2>2
    <3>2. delivered_through' = n + m - 1
      BY <1>2, <1>3, <2>2, <3>1
    <3>3. n + m - 1 \in 0..(Len(store.events) - 1)
      BY <1>1, <1>3, <2>2
    <3>4. QED
      BY <1>7, <3>2, <3>3 DEF Known, Covered
  <2>3. QED
    BY <2>1, <2>2
<1>10. Covered(checkpoint, delivered') /\ Covered(saved, delivered')
  BY <1>2 DEF Inv, Covered
<1>11. QED
  BY <1>2, <1>8, <1>9, <1>10 DEF Inv

\* An accepted acknowledgement lies between the checkpoint and the last
\* delivered position.
LEMMA AcknowledgePreservesInv ==
  ASSUME Inv, NEW position \in Position, Acknowledge(position)
  PROVE  Inv'
<1>1. /\ checkpoint' = position /\ delivered_through' = None
      /\ UNCHANGED <<store, saved, delivered, restarts>>
      /\ delivered_through # None /\ position <= delivered_through
      /\ AtMost(checkpoint, position)
  BY DEF Acknowledge, Accepts
<1>2. /\ position \in Nat /\ delivered_through \in 0..(Len(store.events) - 1)
      /\ Len(store.events) \in Nat /\ 0..delivered_through \subseteq delivered
  BY <1>1, StoreFields, LenProperties, SubscriptionAssumption DEF Inv, Known, Covered, Position
<1>3. position \in 0..(Len(store.events) - 1) /\ 0..position \subseteq delivered
  BY <1>1, <1>2
<1>4. AtMost(saved, position)
  <2>1. SUFFICES ASSUME saved # None PROVE position # None /\ saved <= position
    BY DEF AtMost
  <2>2. checkpoint # None /\ saved <= checkpoint /\ checkpoint <= position /\ position # None
    BY <1>1, <2>1 DEF Inv, AtMost
  <2>3. saved \in Int /\ checkpoint \in Int
    BY <1>2, <2>1, <2>2 DEF Inv, Known
  <2>4. QED
    BY <1>2, <2>2, <2>3
<1>5. QED
  BY <1>1, <1>3, <1>4 DEF Inv, Known, Covered

\* The inductive invariant holds in every reachable state.
THEOREM InvHolds == Spec => []Inv
<1>1. Init => Inv
  <2>1. /\ EmptyStore \in Store /\ WellFormed(EmptyStore) /\ Len(EmptyStore.events) = 0
    BY EmptyStoreWellFormed, EmptySeq DEF EmptyStore
  <2>2. QED
    BY <2>1, SubscriptionAssumption DEF Init, Inv, Known, Covered, AtMost
<1>2. Inv /\ [Next]_vars => Inv'
  <2> SUFFICES ASSUME Inv, [Next]_vars
               PROVE  Inv'
    OBVIOUS
  <2>1. ASSUME NEW s \in Streams, NEW n \in 1..2, Produce(s, n) PROVE Inv'
    BY <2>1, ProducePreservesInv
  <2>2. CASE Poll
    BY <2>2, PollPreservesInv
  <2>3. ASSUME NEW position \in Position, Acknowledge(position) PROVE Inv'
    BY <2>3, AcknowledgePreservesInv
  <2>4. CASE Save
    <3>1. AtMost(checkpoint, checkpoint)
      BY StoreFields, LenProperties DEF Inv, Known, AtMost
    <3>2. QED
      BY <2>4, <3>1 DEF Save, Inv
  <2>5. CASE Restart
    <3>1. AtMost(saved, saved)
      BY StoreFields, LenProperties DEF Inv, Known, AtMost
    <3>2. restarts + 1 \in 0..MaxRestarts
      BY <2>5, SubscriptionAssumption DEF Restart, Inv
    <3>3. QED
      BY <2>5, <3>1, <3>2 DEF Restart, Inv, Known, Covered
  <2>6. CASE UNCHANGED vars
    BY <2>6 DEF vars, Inv
  <2>7. QED
    BY <2>1, <2>2, <2>3, <2>4, <2>5, <2>6 DEF Next
<1>3. QED
  BY <1>1, <1>2, PTL DEF Spec

\* The checkpoint and the delivered bound stay positions of the log: neither
\* ever points behind its end.
THEOREM TypeCorrect == Spec => []TypeOK
<1>1. Inv => TypeOK
  <2> SUFFICES ASSUME Inv PROVE TypeOK
    OBVIOUS
  <2>1. Len(store.events) \in Nat /\ MaxEvents \in Nat
    BY StoreFields, LenProperties, SubscriptionAssumption DEF Inv
  <2>2. 0..(Len(store.events) - 1) \subseteq Position
    BY <2>1 DEF Inv, Position
  <2>3. QED
    BY <2>2 DEF Inv, Known, TypeOK, OptionPosition
<1>2. QED
  BY <1>1, InvHolds, PTL

\* No event is skipped: every position at or before the live or the saved
\* checkpoint was handed out by some poll, for every batch size and whatever
\* the host acknowledges, saves and restarts from.
THEOREM NoEventSkipped == Spec => []NothingSkipped
<1>1. Inv => NothingSkipped
  BY DEF Inv, Covered, NothingSkipped
<1>2. QED
  BY <1>1, InvHolds, PTL

\* The persisted checkpoint never moves back.
THEOREM SavedNeverMovesBack == Spec => SavedCheckpointMonotone
<1>1. Inv /\ [Next]_vars => [AtMost(saved, saved')]_saved
  BY DEF Inv, Next, vars, Produce, Poll, Acknowledge, Save, Restart
<1>2. QED
  BY <1>1, InvHolds, PTL DEF Spec, SavedCheckpointMonotone
=============================================================================
