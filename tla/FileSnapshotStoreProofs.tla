----------------------- MODULE FileSnapshotStoreProofs -----------------------
(***************************************************************************)
(* Proofs about FileSnapshotStore for any number of stores and processes,  *)
(* any set of positions and snapshots, and any bounds.                     *)
(*                                                                         *)
(* That a generation is whole is not inductive: a rename publishes what is *)
(* found under the temporary name, so one has to know that nobody else     *)
(* writes under that name.  Names in flight are distinct because each has  *)
(* the id of its process and a value of that process's counter below the   *)
(* current one, and a process that takes over an id starts with no save in *)
(* flight.                                                                 *)
(***************************************************************************)
EXTENDS FileSnapshotStore, WellFoundedInduction, TLAPS

\* Every non-empty bounded set of naturals has a greatest element: its least
\* upper bound.
LEMMA GreatestElement ==
  ASSUME NEW S, S \subseteq Nat, S # {}, NEW b \in Nat, \A k \in S : k <= b
  PROVE  \E m \in S : \A k \in S : k <= m
<1> DEFINE B == {c \in Nat : \A k \in S : k <= c}
<1>1. B \subseteq Nat /\ b \in B
  OBVIOUS
<1>2. PICK m \in B : \A c \in B : m <= c
  <2> DEFINE R == OpToRel(<, Nat)
  <2>1. \A x, y \in Nat : x < y => <<x, y>> \in R
    BY Zenon DEF OpToRel
  <2>2. IsWellFoundedOn(R, Nat)
    BY NatLessThanWellFounded, Zenon
  <2> HIDE DEF R
  <2>3. B \subseteq Nat /\ B # {}
    BY <1>1
  <2>4. PICK m \in B : \A c \in B : ~ (<<c, m>> \in R)
    BY <2>2, <2>3, WFMin, Zenon
  <2>5. \A c \in B : ~ (c < m)
    BY <2>1, <2>3, <2>4, Zenon
  <2>6. QED
    BY <2>3, <2>4, <2>5
<1>3. ASSUME m \notin S PROVE FALSE
  <2>1. m \in Nat /\ \A k \in S : k \in Nat /\ k < m
    BY <1>2, <1>3
  <2>2. m - 1 \in Nat
    <3>1. PICK k \in S : k \in Nat /\ k < m
      BY <2>1
    <3>2. QED
      BY <2>1, <3>1
  <2>3. \A k \in S : k <= m - 1
    BY <2>1, <2>2
  <2>4. m - 1 \in B
    BY <2>2, <2>3
  <2>5. QED
    BY <2>2, <2>4, <1>2
<1>4. QED
  BY <1>2, <1>3

\* A save in flight has a position, bytes and a name its process has handed
\* out.
SaveTyped(w) ==
  pc[w] # "idle" =>
    /\ saving[w].position \in Positions
    /\ saving[w].data \in Snapshots
    /\ name[w] \in Names
    /\ name[w][2] = ProcessOf[w]
    /\ name[w][3] < next_id[ProcessOf[w]]

NamesDistinct(v, w) ==
  (v # w /\ pc[v] # "idle" /\ pc[w] # "idle") => name[v] # name[w]

Whole(f) == f.data \in Snapshots /\ (f.synced \/ durability = "Flush")

\* Between create and rename the temporary file is the writer's own; from the
\* sync on it is whole.
TempOwned(w) ==
  /\ pc[w] = "write" => temp[name[w]] # None /\ temp[name[w]].writer = w
  /\ pc[w] = "rename" => temp[name[w]] # None /\ Whole(temp[name[w]])

\* A generation is whole, and synced unless the stores only flush; so is every
\* earlier one that may come back in its place.
FinalWhole(p) ==
  (durability # "Flush" \/ losses = 0) =>
    \A f \in earlier[p] \cup {final[p]} : f # None => Whole(f)

\* Before any process has died a temporary file belongs to a save or could not
\* be removed, and its name has been handed out.
TempInUse(n) ==
  temp[n] # None => (InUse(n) \/ temp[n].stuck) /\ n[3] < next_id[n[2]]

\* Before any process has died a save finds its temporary name free.
CreateFree(w) == pc[w] = "create" => temp[name[w]] = None

TempsInv ==
  kills = 0 =>
    /\ \A n \in Names : TempInUse(n)
    /\ \A w \in Writers : CreateFree(w)

Inv ==
  /\ TypeOK
  /\ \A w \in Writers : SaveTyped(w) /\ TempOwned(w)
  /\ \A v, w \in Writers : NamesDistinct(v, w)
  /\ \A p \in Positions : FinalWhole(p)
  /\ TempsInv

\* The fields of a file.
LEMMA FileFields ==
  ASSUME NEW w \in Writers \cup {None}, NEW d \in Snapshots \cup {Corrupt}, NEW b \in BOOLEAN
  PROVE  /\ File(w, d, b) \in FileType /\ File(w, d, b) # None
         /\ File(w, d, b).writer = w /\ File(w, d, b).data = d /\ File(w, d, b).synced = b
<1>1. File(w, d, b) \in FileType
  BY DEF File, FileType
<1>2. QED
  BY <1>1, SnapshotAssumption DEF File

\* The initial states satisfy the invariant.
LEMMA InitInv == Init => Inv
<1> SUFFICES ASSUME Init PROVE Inv
  OBVIOUS
<1>1. TypeOK
  BY SnapshotAssumption DEF Init, TypeOK, NoSave
<1>2. QED
  BY <1>1 DEF Init, Inv, SaveTyped, TempOwned, NamesDistinct, FinalWhole, TempsInv, TempInUse,
              CreateFree

\* Return changes only the save of its own store, and ends it.
LEMMA ReturnStep ==
  ASSUME TypeOK, NEW w \in Writers, Return(w)
  PROVE  /\ pc' \in [Writers -> {"idle", "create", "write", "rename"}]
         /\ saving' \in [Writers -> [position: Positions \cup {None}, data: Snapshots \cup {None}]]
         /\ name' \in [Writers -> Names \cup {None}]
         /\ pc'[w] = "idle"
         /\ \A v \in Writers \ {w} : pc'[v] = pc[v] /\ saving'[v] = saving[v] /\ name'[v] = name[v]
BY DEF Return, TypeOK, NoSave

\* The guard removes only the file of its own save, or fails to.
LEMMA GuardStep ==
  ASSUME TypeOK, NEW w \in Writers, name[w] \in Names, DropGuard(w)
  PROVE  /\ temp' \in [Names -> FileType \cup {None}]
         /\ unsettled' \subseteq Names
         /\ \A n \in Names : n # name[w] => temp'[n] = temp[n]
         /\ \/ temp'[name[w]] = None
            \/ temp[name[w]] # None /\ temp'[name[w]].stuck
<1> DEFINE n == name[w]
<1>1. CASE temp' = [temp EXCEPT ![n] = None]
           /\ unsettled' = IF temp[n] = None THEN unsettled ELSE unsettled \cup {n}
  BY <1>1 DEF TypeOK
<1>2. CASE temp[n] # None /\ temp' = [temp EXCEPT ![n].stuck = TRUE] /\ UNCHANGED unsettled
  <2>1. temp[n] \in FileType
    BY <1>2 DEF TypeOK
  <2> DEFINE f == [temp[n] EXCEPT !.stuck = TRUE]
  <2>2. f \in FileType /\ f.stuck = TRUE
    BY <2>1 DEF FileType
  <2>3. temp' = [temp EXCEPT ![n] = f]
    BY <1>2
  <2> HIDE DEF f
  <2>4. QED
    BY <1>2, <2>2, <2>3 DEF TypeOK
<1>3. QED
  BY <1>1, <1>2 DEF DropGuard

\* The name a save takes is in use by no save in flight, nor is there a file
\* of that name before a process has died.
LEMMA BeginInv ==
  ASSUME Inv, NEW w \in Writers, NEW p \in Positions \cup {None}, NEW d \in Snapshots, Begin(w, p, d)
  PROVE  Inv'
<1> DEFINE c == ProcessOf[w]
           n == <<p, c, next_id[c]>>
<1>1. /\ TypeOK /\ pc[w] = "idle" /\ p \in Positions /\ c \in Processes
      /\ next_id[c] \in 0..begun /\ begun \in 0..MaxSaves /\ begun < MaxSaves /\ begun' = begun + 1
      /\ MaxSaves \in Nat /\ blind' \in 0..MaxBlind
  BY SnapshotAssumption DEF Inv, Begin, TakeName, FoundFree, TypeOK, Processes
<1>2. n \in Names /\ n[2] = c /\ n[3] = next_id[c]
  BY <1>1 DEF Names
<1> HIDE DEF n
<1>3. /\ pc' = [pc EXCEPT ![w] = "create"]
      /\ saving' = [saving EXCEPT ![w] = [position |-> p, data |-> d]]
      /\ name' = [name EXCEPT ![w] = n]
      /\ next_id' = [next_id EXCEPT ![c] = @ + 1]
      /\ UNCHANGED <<durability, final, earlier, temp, unsettled, kills, losses>>
  BY DEF Begin, TakeName, generations, temps, n
<1>4. /\ pc'[w] = "create" /\ name'[w] = n
      /\ saving'[w].position = p /\ saving'[w].data = d
      /\ \A v \in Writers \ {w} : pc'[v] = pc[v] /\ saving'[v] = saving[v] /\ name'[v] = name[v]
  BY <1>1, <1>3 DEF TypeOK
<1>5. /\ next_id'[c] = next_id[c] + 1
      /\ \A e \in Processes : next_id[e] \in Nat /\ next_id'[e] \in Nat /\ next_id[e] <= next_id'[e]
      /\ next_id' \in [Processes -> 0..begun']
  BY <1>1, <1>3 DEF TypeOK
<1>6. TypeOK'
  BY <1>1, <1>2, <1>3, <1>5 DEF TypeOK
<1>7. ASSUME NEW v \in Writers PROVE SaveTyped(v)'
  <2>1. CASE v = w
    BY <1>1, <1>2, <1>4, <1>5, <2>1 DEF SaveTyped
  <2>2. CASE v # w
    <3> SUFFICES ASSUME pc[v] # "idle"
                 PROVE  /\ saving[v].position \in Positions /\ saving[v].data \in Snapshots
                        /\ name[v] \in Names /\ name[v][2] = ProcessOf[v]
                        /\ name[v][3] < next_id'[ProcessOf[v]]
      BY <1>4, <2>2 DEF SaveTyped
    <3>1. /\ saving[v].position \in Positions /\ saving[v].data \in Snapshots
          /\ name[v] \in Names /\ name[v][2] = ProcessOf[v]
          /\ name[v][3] < next_id[ProcessOf[v]]
      BY DEF Inv, SaveTyped
    <3>2. name[v][3] \in Nat /\ ProcessOf[v] \in Processes
      BY <3>1, <1>1 DEF Names, Processes
    <3>3. QED
      BY <1>5, <3>1, <3>2
  <2>3. QED
    BY <2>1, <2>2
<1>8. ASSUME NEW v \in Writers PROVE TempOwned(v)'
  BY <1>3, <1>4 DEF Inv, TempOwned, Whole
<1>9. ASSUME NEW v \in Writers, v # w, pc[v] # "idle" PROVE name[v] # n
  <2>1. name[v] \in Names /\ name[v][2] = ProcessOf[v] /\ name[v][3] < next_id[ProcessOf[v]]
    BY <1>9 DEF Inv, SaveTyped
  <2>2. name[v][3] \in Int
    BY <2>1, <1>1 DEF Names
  <2>3. QED
    BY <1>1, <1>2, <2>1, <2>2
<1>10. ASSUME NEW u \in Writers, NEW v \in Writers PROVE NamesDistinct(u, v)'
  <2>1. NamesDistinct(u, v)
    BY DEF Inv
  <2>2. QED
    BY <1>4, <1>9, <2>1 DEF NamesDistinct
<1>11. ASSUME NEW q \in Positions PROVE FinalWhole(q)'
  BY <1>3 DEF Inv, FinalWhole, Whole
<1>12. ASSUME kills' = 0, NEW m \in Names PROVE TempInUse(m)'
  <2> SUFFICES ASSUME temp[m] # None
               PROVE  (InUse(m)' \/ temp[m].stuck) /\ m[3] < next_id'[m[2]]
    BY <1>3 DEF TempInUse
  <2>1. (InUse(m) \/ temp[m].stuck) /\ m[3] < next_id[m[2]]
    BY <1>3, <1>12 DEF Inv, TempsInv, TempInUse
  <2>2. InUse(m) => InUse(m)'
    BY <1>1, <1>4 DEF InUse
  <2>3. m[2] \in Processes /\ m[3] \in Nat
    BY <1>1 DEF Names
  <2>4. QED
    BY <1>5, <2>1, <2>2, <2>3
<1>13. ASSUME kills' = 0, NEW v \in Writers PROVE CreateFree(v)'
  <2>1. CASE v # w
    BY <1>3, <1>4, <1>13, <2>1 DEF Inv, TempsInv, CreateFree
  <2>2. CASE v = w
    <3>1. ASSUME temp[n] # None PROVE FALSE
      <4>1. n[3] < next_id[n[2]]
        BY <1>2, <1>3, <1>13, <3>1 DEF Inv, TempsInv, TempInUse
      <4>2. QED
        BY <1>1, <1>2, <4>1
    <3>2. QED
      BY <1>3, <1>4, <2>2, <3>1 DEF CreateFree
  <2>3. QED
    BY <2>1, <2>2
<1>14. TempsInv'
  BY <1>12, <1>13 DEF TempsInv
<1>15. QED
  BY <1>6, <1>7, <1>8, <1>10, <1>11, <1>14 DEF Inv

\* A step that ends a save, whether its temporary file is gone then or could
\* not be removed.
LEMMA EndInv ==
  ASSUME Inv, NEW w \in Writers, pc[w] # "idle", Return(w),
         temp' \in [Names -> FileType \cup {None}], unsettled' \subseteq Names,
         \A n \in Names : n # name[w] => temp'[n] = temp[n],
         temp'[name[w]] = None \/ (temp[name[w]] # None /\ temp'[name[w]].stuck),
         final' \in [Positions -> FileType \cup {None}],
         earlier' \in [Positions -> SUBSET (FileType \cup {None})],
         \A p \in Positions : FinalWhole(p)',
         UNCHANGED <<durability, next_id, begun, blind, kills, losses>>
  PROVE  Inv'
<1>1. /\ pc' \in [Writers -> {"idle", "create", "write", "rename"}]
      /\ saving' \in [Writers -> [position: Positions \cup {None}, data: Snapshots \cup {None}]]
      /\ name' \in [Writers -> Names \cup {None}]
      /\ pc'[w] = "idle"
      /\ \A v \in Writers \ {w} : pc'[v] = pc[v] /\ saving'[v] = saving[v] /\ name'[v] = name[v]
  BY ReturnStep DEF Inv
<1>2. name[w] \in Names
  BY DEF Inv, SaveTyped
<1>3. TypeOK'
  BY <1>1 DEF Inv, TypeOK
<1>4. ASSUME NEW v \in Writers PROVE SaveTyped(v)'
  BY <1>1 DEF Inv, SaveTyped
<1>5. ASSUME NEW v \in Writers, v # w, pc[v] # "idle"
      PROVE  name[v] \in Names /\ name[v] # name[w] /\ temp'[name[v]] = temp[name[v]]
  BY <1>5 DEF Inv, SaveTyped, NamesDistinct
<1>6. ASSUME NEW v \in Writers PROVE TempOwned(v)'
  <2>1. CASE v = w \/ pc[v] = "idle"
    BY <1>1, <2>1 DEF TempOwned
  <2>2. CASE v # w /\ pc[v] # "idle"
    <3>1. TempOwned(v)
      BY DEF Inv
    <3>2. QED
      BY <1>1, <1>5, <2>2, <3>1 DEF TempOwned, Whole
  <2>3. QED
    BY <2>1, <2>2
<1>7. ASSUME NEW u \in Writers, NEW v \in Writers PROVE NamesDistinct(u, v)'
  BY <1>1 DEF Inv, NamesDistinct
<1>8. ASSUME kills' = 0, NEW n \in Names PROVE TempInUse(n)'
  <2> SUFFICES ASSUME temp'[n] # None
               PROVE  (InUse(n)' \/ temp'[n].stuck) /\ n[3] < next_id[n[2]]
    BY DEF TempInUse
  <2>1. temp[n] # None
    OBVIOUS
  <2>2. (InUse(n) \/ temp[n].stuck) /\ n[3] < next_id[n[2]]
    BY <1>8, <2>1 DEF Inv, TempsInv, TempInUse
  <2>3. CASE n = name[w]
    BY <2>2, <2>3
  <2>4. CASE n # name[w]
    <3>1. InUse(n) => InUse(n)'
      BY <1>1, <2>4 DEF InUse
    <3>2. QED
      BY <2>2, <2>4, <3>1
  <2>5. QED
    BY <2>3, <2>4
<1>9. ASSUME kills' = 0, NEW v \in Writers PROVE CreateFree(v)'
  <2>1. CreateFree(v)
    BY <1>9 DEF Inv, TempsInv
  <2>2. QED
    BY <1>1, <1>5, <2>1 DEF CreateFree
<1>10. TempsInv'
  BY <1>8, <1>9 DEF TempsInv
<1>11. QED
  BY <1>3, <1>4, <1>6, <1>7, <1>10 DEF Inv

\* A step that moves a save on and changes at most its own temporary file.
LEMMA ProgressInv ==
  ASSUME Inv, NEW w \in Writers, pc[w] # "idle", NEW place \in {"write", "rename"},
         NEW f \in FileType,
         temp' = [temp EXCEPT ![name[w]] = f],
         unsettled' \in {unsettled, unsettled \cup {name[w]}},
         pc' = [pc EXCEPT ![w] = place],
         place = "write" => f.writer = w,
         place = "rename" => Whole(f),
         UNCHANGED <<durability, generations, saving, name, next_id, begun, blind, kills, losses>>
  PROVE  Inv'
<1>1. name[w] \in Names /\ f # None /\ final' = final /\ earlier' = earlier
  BY SnapshotAssumption DEF Inv, SaveTyped, generations
<1>2. /\ temp' \in [Names -> FileType \cup {None}]
      /\ unsettled' \subseteq Names
      /\ \A n \in Names : n # name[w] => temp'[n] = temp[n]
      /\ temp'[name[w]] = f
      /\ pc' \in [Writers -> {"idle", "create", "write", "rename"}]
      /\ pc'[w] = place
      /\ \A v \in Writers \ {w} : pc'[v] = pc[v]
  BY <1>1 DEF Inv, TypeOK
<1>3. TypeOK'
  BY <1>1, <1>2 DEF Inv, TypeOK
<1>4. ASSUME NEW v \in Writers PROVE SaveTyped(v)'
  BY <1>2 DEF Inv, SaveTyped
<1>5. ASSUME NEW v \in Writers, v # w, pc[v] # "idle"
      PROVE  name[v] \in Names /\ name[v] # name[w] /\ temp'[name[v]] = temp[name[v]]
  BY <1>2, <1>5 DEF Inv, SaveTyped, NamesDistinct
<1>6. ASSUME NEW v \in Writers PROVE TempOwned(v)'
  <2>1. CASE v = w
    BY <1>1, <1>2, <2>1 DEF TempOwned, Whole
  <2>2. CASE v # w /\ pc[v] = "idle"
    BY <1>2, <2>2 DEF TempOwned
  <2>3. CASE v # w /\ pc[v] # "idle"
    <3>1. TempOwned(v)
      BY DEF Inv
    <3>2. QED
      BY <1>2, <1>5, <2>3, <3>1 DEF TempOwned, Whole
  <2>4. QED
    BY <2>1, <2>2, <2>3
<1>7. ASSUME NEW u \in Writers, NEW v \in Writers PROVE NamesDistinct(u, v)'
  BY <1>2 DEF Inv, NamesDistinct
<1>8. ASSUME NEW p \in Positions PROVE FinalWhole(p)'
  BY <1>1 DEF Inv, FinalWhole, Whole
<1>9. ASSUME kills' = 0, NEW n \in Names PROVE TempInUse(n)'
  <2>1. CASE n = name[w]
    <3>1. n[2] = ProcessOf[w] /\ n[3] < next_id[ProcessOf[w]]
      BY <2>1 DEF Inv, SaveTyped
    <3>2. InUse(n)'
      BY <1>2, <2>1 DEF InUse
    <3>3. QED
      BY <3>1, <3>2 DEF TempInUse
  <2>2. CASE n # name[w]
    <3>1. TempInUse(n)
      BY <1>9 DEF Inv, TempsInv
    <3>2. InUse(n) => InUse(n)'
      BY <1>2, <2>2 DEF InUse
    <3>3. QED
      BY <1>2, <2>2, <3>1, <3>2 DEF TempInUse
  <2>3. QED
    BY <2>1, <2>2
<1>10. ASSUME kills' = 0, NEW v \in Writers PROVE CreateFree(v)'
  <2>1. CreateFree(v)
    BY <1>10 DEF Inv, TempsInv
  <2>2. QED
    BY <1>2, <1>5, <2>1 DEF CreateFree
<1>11. TempsInv'
  BY <1>9, <1>10 DEF TempsInv
<1>12. QED
  BY <1>3, <1>4, <1>6, <1>7, <1>8, <1>11 DEF Inv

\* A save that ends with its guard leaves every generation as it was.
LEMMA GuardInv ==
  ASSUME Inv, NEW w \in Writers, pc[w] # "idle", DropGuard(w), Return(w),
         UNCHANGED <<durability, generations, next_id, begun, blind, kills, losses>>
  PROVE  Inv'
<1>1. final' = final /\ earlier' = earlier
  BY DEF generations
<1>2. name[w] \in Names
  BY DEF Inv, SaveTyped
<1>3. /\ temp' \in [Names -> FileType \cup {None}] /\ unsettled' \subseteq Names
      /\ \A n \in Names : n # name[w] => temp'[n] = temp[n]
      /\ temp'[name[w]] = None \/ (temp[name[w]] # None /\ temp'[name[w]].stuck)
  BY <1>2, GuardStep DEF Inv
<1>4. /\ final' \in [Positions -> FileType \cup {None}]
      /\ earlier' \in [Positions -> SUBSET (FileType \cup {None})]
      /\ \A p \in Positions : FinalWhole(p)'
  BY <1>1 DEF Inv, TypeOK, FinalWhole, Whole
<1>5. QED
  BY <1>3, <1>4, EndInv

\* create_new, and the guard when it fails.
LEMMA CreateInv == ASSUME Inv, NEW w \in Writers, Create(w) PROVE Inv'
<1>1. pc[w] # "idle" /\ UNCHANGED <<durability, generations, next_id, begun, blind, kills, losses>>
  BY DEF Create
<1>2. CASE temp[name[w]] = None
  <2>1. /\ temp' = [temp EXCEPT ![name[w]] = File(w, Corrupt, FALSE)]
        /\ unsettled' = unsettled \cup {name[w]}
        /\ pc' = [pc EXCEPT ![w] = "write"]
        /\ UNCHANGED <<saving, name>>
    BY <1>2 DEF Create
  <2>2. File(w, Corrupt, FALSE) \in FileType /\ File(w, Corrupt, FALSE).writer = w
    BY FileFields
  <2>3. QED
    BY <1>1, <2>1, <2>2, ProgressInv
<1>3. CASE temp[name[w]] # None
  BY <1>1, <1>3, GuardInv DEF Create
<1>4. QED
  BY <1>2, <1>3

\* The write completes the writer's own file.
LEMMA WriteInv == ASSUME Inv, NEW w \in Writers, Write(w) PROVE Inv'
<1> DEFINE f == File(None, saving[w].data, durability # "Flush")
<1>1. /\ pc[w] = "write" /\ pc' = [pc EXCEPT ![w] = "rename"]
      /\ UNCHANGED <<durability, generations, unsettled, saving, name, next_id, begun, blind,
                     kills, losses>>
  BY DEF Write
<1>2. temp[name[w]] # None /\ temp[name[w]].writer = w /\ saving[w].data \in Snapshots
  BY <1>1 DEF Inv, TempOwned, SaveTyped
<1>3. temp' = [temp EXCEPT ![name[w]] = f]
  BY <1>2 DEF Write
<1>4. f \in FileType /\ f.data = saving[w].data /\ f.synced = (durability # "Flush")
  <2>1. (durability # "Flush") \in BOOLEAN
    OBVIOUS
  <2>2. saving[w].data \in Snapshots \cup {Corrupt} /\ None \in Writers \cup {None}
    BY <1>2
  <2>3. PICK b \in BOOLEAN : b = (durability # "Flush")
    BY <2>1, Zenon
  <2>4. f = File(None, saving[w].data, b)
    BY <2>3
  <2>5. f \in FileType /\ f.data = saving[w].data /\ f.synced = b
    BY <2>2, <2>4, FileFields
  <2>6. QED
    BY <2>3, <2>5
<1> HIDE DEF f
<1>5. Whole(f)
  BY <1>2, <1>4 DEF Whole
<1>6. QED
  BY <1>1, <1>3, <1>4, <1>5, ProgressInv

\* The rename publishes a file that is whole, in place of one that was.
LEMMA RenameInv == ASSUME Inv, NEW w \in Writers, Rename(w) PROVE Inv'
<1> DEFINE p == saving[w].position
           f == temp[name[w]]
<1>1. /\ pc[w] = "rename" /\ Return(w)
      /\ temp' = [temp EXCEPT ![name[w]] = None]
      /\ final' = [final EXCEPT ![p] = f]
      /\ earlier' = [earlier EXCEPT ![p] = @ \cup {final[p]}]
      /\ UNCHANGED <<durability, unsettled, next_id, begun, blind, kills, losses>>
  BY DEF Rename
<1>2. p \in Positions /\ name[w] \in Names /\ f # None /\ Whole(f) /\ f \in FileType
  BY <1>1 DEF Inv, TempOwned, SaveTyped, TypeOK
<1> HIDE DEF p, f
<1>3. /\ temp' \in [Names -> FileType \cup {None}] /\ unsettled' \subseteq Names
      /\ \A n \in Names : n # name[w] => temp'[n] = temp[n]
      /\ temp'[name[w]] = None
  BY <1>1, <1>2 DEF Inv, TypeOK
<1>4. /\ final'[p] = f /\ earlier'[p] = earlier[p] \cup {final[p]}
      /\ \A q \in Positions : q # p => final'[q] = final[q] /\ earlier'[q] = earlier[q]
      /\ final' \in [Positions -> FileType \cup {None}]
      /\ earlier' \in [Positions -> SUBSET (FileType \cup {None})]
  <2>1. final \in [Positions -> FileType \cup {None}]
        /\ earlier \in [Positions -> SUBSET (FileType \cup {None})]
    BY DEF Inv, TypeOK
  <2>2. earlier[p] \cup {final[p]} \in SUBSET (FileType \cup {None})
    BY <1>2, <2>1
  <2>3. QED
    BY <1>1, <1>2, <2>1, <2>2
<1>5. ASSUME NEW q \in Positions PROVE FinalWhole(q)'
  <2>1. FinalWhole(q)
    BY DEF Inv
  <2>2. CASE q = p
    BY <1>1, <1>2, <1>4, <2>1, <2>2 DEF FinalWhole, Whole
  <2>3. CASE q # p
    BY <1>1, <1>4, <2>1, <2>3 DEF FinalWhole, Whole
  <2>4. QED
    BY <2>2, <2>3
<1>6. QED
  BY <1>1, <1>3, <1>4, <1>5, EndInv

\* A failed call.
LEMMA FailInv == ASSUME Inv, NEW w \in Writers, Fail(w) PROVE Inv'
BY GuardInv DEF Fail

\* The death of a process resets its counter, which is safe because all its
\* saves end with it.
LEMMA KillInv == ASSUME Inv, NEW c \in Processes, Kill(c) PROVE Inv'
<1>1. /\ TypeOK /\ kills \in Nat /\ kills' = kills + 1 /\ kills < MaxKills /\ MaxKills \in Nat
      /\ begun \in Nat
      /\ UNCHANGED <<durability, final, earlier, temp, unsettled, begun, blind, losses>>
  BY SnapshotAssumption DEF Inv, TypeOK, Kill, generations, temps
<1>2. /\ \A w \in Writers : ProcessOf[w] = c => pc'[w] = "idle"
      /\ \A w \in Writers : ProcessOf[w] # c =>
           /\ pc'[w] = pc[w] /\ saving'[w] = saving[w] /\ name'[w] = name[w]
           /\ next_id'[ProcessOf[w]] = next_id[ProcessOf[w]]
  BY <1>1 DEF Kill, TypeOK, Processes
<1>3. TypeOK'
  <2>1. /\ pc' \in [Writers -> {"idle", "create", "write", "rename"}]
        /\ saving' \in [Writers -> [position: Positions \cup {None}, data: Snapshots \cup {None}]]
        /\ name' \in [Writers -> Names \cup {None}]
    BY <1>1 DEF Kill, TypeOK, NoSave
  <2>2. next_id' \in [Processes -> 0..begun]
    BY <1>1 DEF Kill, TypeOK
  <2>3. kills' \in 0..MaxKills /\ losses' \in 0..kills'
    BY <1>1 DEF TypeOK
  <2>4. QED
    BY <1>1, <2>1, <2>2, <2>3 DEF TypeOK
<1>4. ASSUME NEW w \in Writers PROVE SaveTyped(w)' /\ TempOwned(w)'
  BY <1>1, <1>2 DEF Inv, SaveTyped, TempOwned, Whole
<1>5. ASSUME NEW v \in Writers, NEW w \in Writers PROVE NamesDistinct(v, w)'
  BY <1>2 DEF Inv, NamesDistinct
<1>6. ASSUME NEW p \in Positions PROVE FinalWhole(p)'
  BY <1>1 DEF Inv, FinalWhole, Whole
<1>7. TempsInv'
  BY <1>1 DEF TempsInv
<1>8. QED
  BY <1>3, <1>4, <1>5, <1>6, <1>7 DEF Inv

\* What a loss of power leaves of a file is the same bytes or, if they are not
\* synced, rubble.
LEMMA AfterLossFile ==
  ASSUME NEW f \in FileType \cup {None}, NEW g \in AfterLoss(f)
  PROVE  /\ g \in FileType \cup {None}
         /\ g = None <=> f = None
         /\ f # None => g.synced /\ g.data \in {f.data, Corrupt} /\ (f.synced => g.data = f.data)
<1>1. CASE f = None
  BY <1>1 DEF AfterLoss
<1>2. CASE f # None
  <2> DEFINE kept == [f EXCEPT !.synced = TRUE]
             rubble == [f EXCEPT !.data = Corrupt, !.synced = TRUE]
  <2>1. f \in FileType
    BY <1>2
  <2>2. /\ kept \in FileType /\ kept.data = f.data /\ kept.synced
        /\ rubble \in FileType /\ rubble.data = Corrupt /\ rubble.synced
    BY <2>1 DEF FileType
  <2>3. g = kept \/ (~f.synced /\ g = rubble)
    BY <1>2 DEF AfterLoss
  <2> HIDE DEF kept, rubble
  <2>4. QED
    BY <1>2, <2>2, <2>3, SnapshotAssumption
<1>3. QED
  BY <1>1, <1>2

\* A position is left with one of the files that may come back there.
LEMMA Remains ==
  ASSUME TypeOK, LosePower, NEW p \in Positions
  PROVE  /\ final'[p] \in FileType \cup {None}
         /\ \E f \in earlier[p] \cup {final[p]} :
              f \in FileType \cup {None} /\ final'[p] \in AfterLoss(f)
<1>1. PICK f \in earlier[p] \cup {final[p]} : final'[p] \in AfterLoss(f)
  BY DEF LosePower, MayRemain
<1>2. f \in FileType \cup {None}
  BY DEF TypeOK
<1>3. QED
  BY <1>1, <1>2, AfterLossFile

\* A loss of power ends every save and keeps what is synced.
LEMMA LosePowerInv == ASSUME Inv, LosePower PROVE Inv'
<1>1. /\ TypeOK /\ kills \in Nat /\ kills' = kills + 1 /\ kills < MaxKills /\ MaxKills \in Nat
      /\ losses \in 0..kills /\ losses' = losses + 1 /\ begun \in Nat
      /\ UNCHANGED <<durability, begun, blind>>
  BY SnapshotAssumption DEF Inv, TypeOK, LosePower
<1>2. final' \in [Positions -> FileType \cup {None}]
  <2>1. \A p \in Positions : final'[p] \in FileType \cup {None}
    BY <1>1, Remains
  <2>2. \E S : final' \in [Positions -> S]
    BY DEF LosePower
  <2>3. QED
    BY <2>1, <2>2
<1>3. temp' \in [Names -> FileType \cup {None}]
  <2>1. File(None, Corrupt, TRUE) \in FileType
    BY FileFields
  <2>2. PICK back \in SUBSET unsettled :
          temp' = [n \in Names |-> IF n \in back THEN File(None, Corrupt, TRUE)
                                   ELSE IF n \in unsettled THEN None ELSE temp[n]]
    BY DEF LosePower
  <2>3. QED
    BY <1>1, <2>1, <2>2 DEF TypeOK
<1>4. earlier' = [p \in Positions |-> {}] /\ unsettled' = {}
  BY DEF LosePower
<1>5. TypeOK'
  <2>1. next_id' \in [Processes -> 0..begun'] /\ kills' \in 0..MaxKills /\ losses' \in 0..kills'
    BY <1>1 DEF LosePower
  <2>2. /\ pc' \in [Writers -> {"idle", "create", "write", "rename"}]
        /\ saving' \in [Writers -> [position: Positions \cup {None}, data: Snapshots \cup {None}]]
        /\ name' \in [Writers -> Names \cup {None}]
    BY DEF LosePower, NoSave
  <2>3. QED
    BY <1>1, <1>2, <1>3, <1>4, <2>1, <2>2 DEF TypeOK
<1>6. \A w \in Writers : pc'[w] = "idle"
  BY DEF LosePower
<1>7. ASSUME NEW p \in Positions PROVE FinalWhole(p)'
  <2> SUFFICES ASSUME final'[p] # None, durability # "Flush"
               PROVE  final'[p].data \in Snapshots /\ final'[p].synced
    BY <1>1, <1>4 DEF FinalWhole, Whole
  <2>1. PICK f \in earlier[p] \cup {final[p]} :
          f \in FileType \cup {None} /\ final'[p] \in AfterLoss(f)
    BY <1>1, Remains
  <2>2. f # None
    BY <2>1, AfterLossFile
  <2>3. f.data \in Snapshots /\ f.synced
    BY <2>1, <2>2 DEF Inv, FinalWhole, Whole
  <2>4. QED
    BY <2>1, <2>2, <2>3, AfterLossFile
<1>8. TempsInv'
  BY <1>1 DEF TempsInv
<1>9. QED
  BY <1>5, <1>6, <1>7, <1>8 DEF Inv, SaveTyped, TempOwned, NamesDistinct

\* The inductive invariant holds in every reachable state.
THEOREM SnapshotInvHolds == Spec => []Inv
<1>1. Inv /\ [Next]_vars => Inv'
  <2> SUFFICES ASSUME Inv, [Next]_vars PROVE Inv'
    OBVIOUS
  <2>1. CASE Next
    BY <2>1, BeginInv, CreateInv, WriteInv, RenameInv, FailInv, KillInv, LosePowerInv DEF Next
  <2>2. CASE UNCHANGED vars
    BY <2>2 DEF vars, generations, temps, saves, Inv, TypeOK, SaveTyped, TempOwned, Whole,
                NamesDistinct, FinalWhole, TempsInv, TempInUse, InUse, CreateFree
  <2>3. QED
    BY <2>1, <2>2
<1>2. QED
  BY <1>1, InitInv, PTL DEF Spec

\* The type invariant, for every set of stores, positions and snapshots.
THEOREM SnapshotTypeAlwaysOK == Spec => []TypeOK
<1>1. Inv => TypeOK
  BY DEF Inv
<1>2. QED
  BY <1>1, SnapshotInvHolds, PTL

\* No death of a process in the middle of a save, whoever saves beside it and
\* whichever process takes over its id, leaves a torn generation; nor does a
\* loss of power when the stores sync.
THEOREM GenerationsAlwaysWhole == Spec => []GenerationsWhole
<1>1. Inv => GenerationsWhole
  BY SnapshotAssumption DEF Inv, FinalWhole, Whole, GenerationsWhole
<1>2. QED
  BY <1>1, SnapshotInvHolds, PTL

\* As long as no process dies, a temporary file that no save is using is one
\* whose removal failed, whichever other calls of the saves failed too.
THEOREM TempsLeftOnlyByFaults == Spec => []OnlyFaultsLeaveTemps
<1>1. Inv => OnlyFaultsLeaveTemps
  BY DEF Inv, TempsInv, TempInUse, OnlyFaultsLeaveTemps
<1>2. QED
  BY <1>1, SnapshotInvHolds, PTL

\* As long as no process dies, no save finds its temporary name taken, though
\* any number of failed saves may have left their files behind.
THEOREM RetriesNeverObstructed == Spec => []RetriesUnobstructed
<1>1. Inv => RetriesUnobstructed
  BY DEF Inv, TempsInv, CreateFree, RetriesUnobstructed
<1>2. QED
  BY <1>1, SnapshotInvHolds, PTL

-----------------------------------------------------------------------------
\* Only a rename touches a generation, the one of its own position, which is
\* in flight; and a save takes off only at a position without a generation,
\* but for the one that does not see it.
QuietStep ==
  /\ losses' = losses
  /\ \E q \in Nat : \A p \in Positions : p # q => final'[p] = final[p] /\ earlier'[p] = earlier[p]
  /\ \A p \in Positions :
       \/ final'[p] = final[p] /\ earlier'[p] = earlier[p]
       \/ /\ InFlight(p)
          /\ final'[p] # None /\ final'[p].data \in Snapshots
          /\ earlier'[p] = earlier[p] \cup {final[p]}

SightedStep ==
  /\ blind' = blind
  /\ \A p \in Positions : InFlight(p)' => InFlight(p) \/ (final[p] = None /\ final'[p] = None)

BlindStep ==
  /\ blind' = blind + 1 /\ losses' = losses /\ final' = final /\ earlier' = earlier
  /\ \E q \in Positions : /\ InFlight(q)' /\ final[q] # None
                          /\ \A p \in Positions : p # q => (InFlight(p)' <=> InFlight(p))

\* A step that ends the save of one store or moves it on puts no further
\* position in flight.
LEMMA NoTakeOff ==
  ASSUME NEW w \in Writers, pc[w] # "idle",
         pc'[w] = "idle" \/ saving'[w] = saving[w],
         \A v \in Writers \ {w} : pc'[v] = pc[v] /\ saving'[v] = saving[v],
         NEW p \in Positions, InFlight(p)'
  PROVE  InFlight(p)
<1>1. PICK v \in Writers : pc'[v] # "idle" /\ saving'[v].position = p
  BY DEF InFlight
<1>2. pc[v] # "idle" /\ saving[v].position = p
  BY <1>1
<1>3. QED
  BY <1>2 DEF InFlight

\* The first step of a save touches no generation.
LEMMA BeginIsQuiet ==
  ASSUME Inv, NEW w \in Writers, NEW p \in Positions \cup {None}, NEW d \in Snapshots, Begin(w, p, d)
  PROVE  QuietStep /\ (SightedStep \/ BlindStep)
<1>1. /\ p \in Positions /\ final' = final /\ earlier' = earlier /\ losses' = losses
      /\ pc[w] = "idle" /\ pc'[w] = "create" /\ saving'[w].position = p
      /\ \A v \in Writers \ {w} : pc'[v] = pc[v] /\ saving'[v] = saving[v]
  BY DEF Begin, generations, Inv, TypeOK
<1>2. QuietStep
  BY <1>1 DEF QuietStep
<1>3. InFlight(p)' /\ \A q \in Positions : q # p => (InFlight(q)' <=> InFlight(q))
  BY <1>1 DEF InFlight
<1>4. CASE final[p] = None /\ UNCHANGED blind
  BY <1>1, <1>2, <1>3, <1>4 DEF SightedStep
<1>5. CASE final[p] # None /\ blind' = blind + 1
  BY <1>1, <1>2, <1>3, <1>5 DEF BlindStep
<1>6. QED
  BY <1>2, <1>4, <1>5 DEF Begin, FoundFree

\* Every step but a loss of power is quiet.
LEMMA StepsAreQuiet ==
  ASSUME Inv, Next, ~LosePower
  PROVE  QuietStep /\ (SightedStep \/ BlindStep)
<1>1. TypeOK
  BY DEF Inv
<1>2. ASSUME NEW w \in Writers, pc[w] # "idle", UNCHANGED <<generations, blind, losses>>,
             pc'[w] = "idle" \/ saving'[w] = saving[w],
             \A v \in Writers \ {w} : pc'[v] = pc[v] /\ saving'[v] = saving[v]
      PROVE  QuietStep /\ SightedStep
  BY <1>2, NoTakeOff DEF QuietStep, SightedStep, generations
<1>3. ASSUME NEW w \in Writers, Create(w) PROVE QuietStep /\ SightedStep
  <2>1. pc[w] # "idle" /\ UNCHANGED <<generations, blind, losses>>
    BY <1>3 DEF Create
  <2>2. CASE temp[name[w]] = None
    BY <1>1, <1>2, <1>3, <2>1, <2>2 DEF Create, TypeOK
  <2>3. CASE temp[name[w]] # None
    BY <1>1, <1>2, <1>3, <2>1, <2>3, ReturnStep DEF Create
  <2>4. QED
    BY <2>2, <2>3
<1>4. ASSUME NEW w \in Writers, Write(w) PROVE QuietStep /\ SightedStep
  BY <1>1, <1>2, <1>4 DEF Write, TypeOK
<1>5. ASSUME NEW w \in Writers, Rename(w) PROVE QuietStep /\ SightedStep
  <2> DEFINE q == saving[w].position
             f == temp[name[w]]
  <2>1. /\ pc[w] = "rename" /\ Return(w) /\ losses' = losses /\ blind' = blind
        /\ q \in Positions /\ f # None /\ f.data \in Snapshots
        /\ final' = [final EXCEPT ![q] = f]
        /\ earlier' = [earlier EXCEPT ![q] = @ \cup {final[q]}]
    BY <1>5 DEF Rename, Inv, SaveTyped, TempOwned, Whole
  <2>2. InFlight(q)
    BY <2>1 DEF InFlight
  <2>3. \A p \in Positions : InFlight(p)' => InFlight(p)
    BY <1>1, <2>1, ReturnStep, NoTakeOff
  <2> HIDE DEF q, f
  <2>4. /\ q \in Nat /\ final'[q] = f /\ earlier'[q] = earlier[q] \cup {final[q]}
        /\ \A p \in Positions : p # q => final'[p] = final[p] /\ earlier'[p] = earlier[p]
    BY <1>1, <2>1, SnapshotAssumption DEF TypeOK
  <2>5. QED
    BY <2>1, <2>2, <2>3, <2>4 DEF QuietStep, SightedStep
<1>6. ASSUME NEW w \in Writers, Fail(w) PROVE QuietStep /\ SightedStep
  BY <1>1, <1>2, <1>6, ReturnStep DEF Fail
<1>7. ASSUME NEW c \in Processes, Kill(c) PROVE QuietStep /\ SightedStep
  <2>1. final' = final /\ earlier' = earlier /\ losses' = losses /\ blind' = blind
    BY <1>7 DEF Kill, generations
  <2>2. ASSUME NEW p \in Positions, InFlight(p)' PROVE InFlight(p)
    <3>1. PICK v \in Writers : pc'[v] # "idle" /\ saving'[v].position = p
      BY <2>2 DEF InFlight
    <3>2. pc[v] # "idle" /\ saving[v].position = p
      BY <1>7, <3>1 DEF Kill
    <3>3. QED
      BY <3>2 DEF InFlight
  <2>3. QED
    BY <2>1, <2>2 DEF QuietStep, SightedStep
<1>8. QED
  BY BeginIsQuiet, <1>3, <1>4, <1>5, <1>6, <1>7 DEF Next

\* The generations, those that may come back included, do not reach beyond
\* every bound, so that there is a latest one.
Bounded ==
  \E b \in Nat : \A p \in Positions : (\E f \in earlier[p] \cup {final[p]} : f # None) => p <= b

\* A quiet step adds at most one generation.
LEMMA BoundedStep == ASSUME Inv, Bounded, [Next]_vars PROVE Bounded'
<1>1. PICK b \in Nat :
        \A p \in Positions : (\E f \in earlier[p] \cup {final[p]} : f # None) => p <= b
  BY DEF Bounded
<1>2. Positions \subseteq Nat
  BY SnapshotAssumption
<1>3. CASE Next /\ ~LosePower
  <2>1. PICK q \in Nat :
          \A p \in Positions : p # q => final'[p] = final[p] /\ earlier'[p] = earlier[p]
    BY <1>3, StepsAreQuiet DEF QuietStep
  <2>2. ASSUME NEW p \in Positions, \E f \in earlier'[p] \cup {final'[p]} : f # None
        PROVE  p <= b + q
    <3>1. p \in Nat
      BY <1>2
    <3>2. p = q \/ p <= b
      BY <1>1, <2>1, <2>2
    <3>3. QED
      BY <3>1, <3>2
  <2>3. b + q \in Nat
    OBVIOUS
  <2>4. QED
    BY <2>2, <2>3 DEF Bounded
<1>4. CASE LosePower
  <2>1. ASSUME NEW p \in Positions, \E f \in earlier'[p] \cup {final'[p]} : f # None
        PROVE  p <= b
    <3>1. final'[p] # None
      BY <1>4, <2>1 DEF LosePower
    <3>2. PICK f \in earlier[p] \cup {final[p]} :
            f \in FileType \cup {None} /\ final'[p] \in AfterLoss(f)
      BY <1>4, Remains DEF Inv
    <3>3. f # None
      BY <3>1, <3>2, AfterLossFile
    <3>4. QED
      BY <1>1, <3>2, <3>3
  <2>2. QED
    BY <2>1 DEF Bounded
<1>5. CASE UNCHANGED vars
  BY <1>5 DEF Bounded, vars, generations
<1>6. QED
  BY <1>3, <1>4, <1>5

\* It holds in every reachable state.
THEOREM GenerationsBounded == Spec => [](Inv /\ Bounded)
<1>1. Init => Bounded
  BY DEF Init, Bounded
<1>2. Inv /\ Bounded /\ [Next]_vars => Bounded'
  BY BoundedStep
<1>3. QED
  BY <1>1, <1>2, SnapshotInvHolds, PTL DEF Spec

\* The latest position is that of a generation, and no generation is later.
LatestIsGreatest ==
  \A p \in Positions : final[p] # None =>
    /\ LatestPosition \in Positions /\ LatestPosition \in Nat
    /\ final[LatestPosition] # None
    /\ p <= LatestPosition

\* Max finds it, because the generations are bounded.
LEMMA LatestExists == Bounded => LatestIsGreatest
<1> SUFFICES ASSUME Bounded, NEW p \in Positions, final[p] # None
             PROVE  /\ LatestPosition \in Positions /\ LatestPosition \in Nat
                    /\ final[LatestPosition] # None
                    /\ p <= LatestPosition
  BY DEF LatestIsGreatest
<1> DEFINE S == {q \in Positions : final[q] # None}
<1>1. S \subseteq Nat /\ p \in S
  BY SnapshotAssumption
<1>2. PICK b \in Nat : \A q \in S : q <= b
  BY Zenon DEF Bounded
<1>3. LatestPosition = Max(S)
  BY DEF LatestPosition
<1>4. \A q \in S : q \in Positions /\ final[q] # None
  OBVIOUS
<1> HIDE DEF S
<1>5. \E m \in S : \A q \in S : q <= m
  BY <1>1, <1>2, GreatestElement
<1>6. \E m \in S : \A q \in S : m >= q
  BY <1>1, <1>5
<1>7. Max(S) \in S /\ \A q \in S : Max(S) >= q
  BY <1>6, Zenon DEF Max
<1>8. QED
  BY <1>1, <1>3, <1>4, <1>7

\* load_latest never goes back while power stays on, however the saves of
\* several stores interleave, fail or die.
THEOREM LatestIsNeverOlder == Spec => LatestNeverOlder
<1> DEFINE A == losses' = losses => AtMost(LatestPosition, LatestPosition')
<1>1. ASSUME Inv, LatestIsGreatest, LatestIsGreatest', Next PROVE A
  <2> SUFFICES ASSUME losses' = losses, LatestPosition # None
               PROVE  LatestPosition' # None /\ LatestPosition <= LatestPosition'
    BY DEF AtMost
  <2>1. PICK p \in Positions : final[p] # None
    BY DEF LatestPosition
  <2>2. LatestPosition \in Positions /\ final[LatestPosition] # None
    BY <1>1, <2>1 DEF LatestIsGreatest
  <2>3. ~LosePower
    <3>1. losses \in Int
      BY <1>1 DEF Inv, TypeOK
    <3>2. losses' # losses + 1
      BY <3>1
    <3>3. QED
      BY <3>2 DEF LosePower
  <2>4. final'[LatestPosition] # None
    BY <1>1, <2>2, <2>3, StepsAreQuiet DEF QuietStep
  <2>5. LatestPosition' \in Nat /\ LatestPosition <= LatestPosition'
    BY <1>1, <2>2, <2>4 DEF LatestIsGreatest
  <2>6. QED
    BY <2>5, NoneAssumption
<1>2. Inv /\ LatestIsGreatest /\ LatestIsGreatest' /\ [Next]_vars => [A]_vars
  BY <1>1
<1>3. QED
  BY <1>2, LatestExists, GenerationsBounded, PTL DEF Spec, LatestNeverOlder

-----------------------------------------------------------------------------
\* What the abstract store sees of a position.
LEMMA SeenAt ==
  ASSUME NEW p \in Positions
  PROVE  /\ Published[p] = IF final[p] = None \/ InFlight(p) THEN None ELSE final[p].data
         /\ Published'[p] = IF final'[p] = None \/ InFlight(p)' THEN None ELSE final'[p].data
         /\ Former[p] = {f.data : f \in (earlier[p] \cup (IF InFlight(p) THEN {final[p]} ELSE {}))
                                          \ {None}}
         /\ Former'[p] = {f.data : f \in (earlier'[p] \cup (IF InFlight(p)' THEN {final'[p]} ELSE {}))
                                           \ {None}}
BY DEF Published, Former

\* A generation that is not in flight is published, so it is not taken for a
\* free position.
LEMMA TakenIsPublished ==
  ASSUME Inv, NEW p \in Positions, final[p] # None
  PROVE  final[p].data # None
<1>1. final[p].data \in Snapshots \cup {Corrupt}
  BY DEF Inv, TypeOK, FileType
<1>2. QED
  BY <1>1, SnapshotAssumption

\* What the abstract store sees of a sighted step is a save: a published
\* generation stays as it is, a free position stays free, takes a snapshot or
\* gets back what was there before.
LEMMA SightedStepIsSave ==
  ASSUME Inv, QuietStep, SightedStep
  PROVE  Abstract!Save
<1>1. ASSUME NEW p \in Positions
      PROVE  IF Published[p] = None
             THEN /\ Published'[p] \in Snapshots \cup {None} \cup Former[p]
                  /\ Former'[p] \subseteq Snapshots \cup Former[p]
             ELSE Published'[p] = Published[p] /\ Former'[p] = Former[p]
  <2>1. \/ final'[p] = final[p] /\ earlier'[p] = earlier[p]
        \/ /\ InFlight(p) /\ final'[p] # None /\ final'[p].data \in Snapshots
           /\ earlier'[p] = earlier[p] \cup {final[p]}
    BY DEF QuietStep
  <2>2. InFlight(p)' => InFlight(p) \/ (final[p] = None /\ final'[p] = None)
    BY DEF SightedStep
  <2>3. CASE final[p] # None /\ ~InFlight(p)
    <3>1. Published[p] # None
      BY <2>3, SeenAt, TakenIsPublished
    <3>2. final'[p] = final[p] /\ earlier'[p] = earlier[p] /\ ~InFlight(p)'
      BY <2>1, <2>2, <2>3
    <3>3. Published'[p] = Published[p] /\ Former'[p] = Former[p]
      BY <2>3, <3>2, SeenAt
    <3>4. QED
      BY <3>1, <3>3
  <2>4. CASE final[p] = None \/ InFlight(p)
    <3>1. Published[p] = None
      BY <2>4, SeenAt
    <3>2. \A f \in earlier[p] \cup {final[p]} : f # None => f.data \in Former[p]
      BY <2>4, SeenAt
    <3>3. \A f \in earlier'[p] \cup {final'[p]} : f # None => f.data \in Snapshots \cup Former[p]
      BY <2>1, <3>2
    <3>4. Published'[p] \in Snapshots \cup {None} \cup Former[p]
      BY <3>3, SeenAt
    <3>5. Former'[p] \subseteq Snapshots \cup Former[p]
      BY <3>3, SeenAt
    <3>6. QED
      BY <3>1, <3>4, <3>5
  <2>5. QED
    BY <2>3, <2>4
<1>2. losses' = losses /\ blind' = blind
  BY DEF QuietStep, SightedStep
<1>3. QED
  BY <1>1, <1>2 DEF Abstract!Save

\* A save that does not see a generation takes it out of the published ones,
\* or finds it taken out already.
LEMMA BlindStepIsBlind ==
  ASSUME Inv, BlindStep
  PROVE  Abstract!SaveBlind
<1>1. PICK q \in Positions :
        /\ InFlight(q)' /\ final[q] # None
        /\ \A p \in Positions : p # q => (InFlight(p)' <=> InFlight(p))
  BY DEF BlindStep
<1>2. final' = final /\ earlier' = earlier /\ blind' = blind + 1 /\ losses' = losses
  BY DEF BlindStep
<1>3. \A p \in Positions : p # q => Published'[p] = Published[p] /\ Former'[p] = Former[p]
  BY <1>1, <1>2, SeenAt
<1>4. Published'[q] = None
  BY <1>1, SeenAt
<1>5. Former'[q] = (Former[q] \cup {Published[q]}) \ {None}
  <2>1. Former'[q] = {f.data : f \in (earlier[q] \cup {final[q]}) \ {None}}
    BY <1>1, <1>2, SeenAt
  <2>2. \A f \in earlier[q] \cup {final[q]} : f # None => f.data # None
    <3>1. \A f \in earlier[q] \cup {final[q]} : f # None => f \in FileType
      BY DEF Inv, TypeOK
    <3>2. \A f \in FileType : f.data # None
      BY SnapshotAssumption DEF FileType
    <3>3. QED
      BY <3>1, <3>2
  <2>3. CASE InFlight(q)
    <3>1. Published[q] = None /\ Former[q] = Former'[q]
      BY <2>1, <2>3, SeenAt
    <3>2. None \notin Former'[q]
      BY <2>1, <2>2
    <3>3. QED
      BY <3>1, <3>2
  <2>4. CASE ~InFlight(q)
    <3>1. Published[q] = final[q].data /\ Former[q] = {f.data : f \in earlier[q] \ {None}}
      BY <1>1, <2>4, SeenAt
    <3>2. QED
      BY <1>1, <2>1, <2>2, <3>1
  <2>5. QED
    BY <2>3, <2>4
<1>6. Published' = [Published EXCEPT ![q] = None]
  BY <1>3, <1>4 DEF Published
<1>7. Former' = [Former EXCEPT ![q] = (@ \cup {Published[q]}) \ {None}]
  BY <1>3, <1>5 DEF Former
<1>8. QED
  BY <1>2, <1>6, <1>7 DEF Abstract!SaveBlind

\* A loss of power keeps a published generation, brings back one it took the
\* place of, loses it or leaves rubble; a generation whose save was still in
\* flight may come to light.
LEMMA LosePowerIsLoss ==
  ASSUME Inv, LosePower
  PROVE  Abstract!LosePower
<1>1. ASSUME NEW p \in Positions PROVE ~InFlight(p)' /\ earlier'[p] = {}
  BY DEF LosePower, InFlight
<1>2. ASSUME NEW p \in Positions
      PROVE  Published'[p] \in (IF Published[p] = None THEN Snapshots ELSE {Published[p]})
                                  \cup Former[p] \cup {None, Corrupt}
  <2>1. PICK f \in earlier[p] \cup {final[p]} :
          f \in FileType \cup {None} /\ final'[p] \in AfterLoss(f)
    BY Remains DEF Inv
  <2>2. CASE final'[p] = None
    BY <2>2, SeenAt
  <2>3. CASE final'[p] # None
    <3>1. f # None /\ final'[p].data \in {f.data, Corrupt}
      BY <2>1, <2>3, AfterLossFile
    <3>2. f.data \in Former[p] \cup {Published[p]}
      <4>1. CASE f \in earlier[p] \/ InFlight(p)
        BY <2>1, <3>1, <4>1, SeenAt
      <4>2. CASE f = final[p] /\ ~InFlight(p)
        BY <3>1, <4>2, SeenAt
      <4>3. QED
        BY <2>1, <4>1, <4>2
    <3>3. f.data # None
      BY <2>1, <3>1, SnapshotAssumption DEF FileType
    <3>4. Published'[p] = final'[p].data
      BY <1>1, <2>3, SeenAt
    <3>5. QED
      BY <3>1, <3>2, <3>3, <3>4
  <2>4. QED
    BY <2>2, <2>3
<1>3. Former' = [p \in Positions |-> {}]
  BY <1>1 DEF Former
<1>4. losses' = losses + 1 /\ blind' = blind
  BY DEF LosePower
<1>5. QED
  BY <1>2, <1>3, <1>4 DEF Abstract!LosePower

\* The directory implements the abstract store, however the steps of several
\* stores interleave, fail or die: what is published at a position stays, but
\* for a save that does not see it, which may replace it, and for a loss of
\* power, which may lose it, damage it or bring back what it replaced.
THEOREM DirectoryImplementsGenerations == Spec => ImplementsGenerations
<1>1. Init => Abstract!Init
  BY DEF Init, Abstract!Init, Published, Former, InFlight
<1>2. Inv /\ [Next]_vars => [Abstract!Next]_<<Published, Former, blind, losses>>
  <2> SUFFICES ASSUME Inv, [Next]_vars
               PROVE  [Abstract!Next]_<<Published, Former, blind, losses>>
    OBVIOUS
  <2>1. CASE Next /\ ~LosePower
    BY <2>1, StepsAreQuiet, SightedStepIsSave, BlindStepIsBlind DEF Abstract!Next
  <2>2. CASE LosePower
    BY <2>2, LosePowerIsLoss DEF Abstract!Next
  <2>3. CASE UNCHANGED vars
    BY <2>3 DEF vars, generations, temps, saves, Published, Former, InFlight
  <2>4. QED
    BY <2>1, <2>2, <2>3
<1>3. QED
  BY <1>1, <1>2, SnapshotInvHolds, PTL DEF Spec, ImplementsGenerations, Abstract!Spec

=============================================================================
