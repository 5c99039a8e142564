------------------------- MODULE FileSnapshotStore -------------------------
(***************************************************************************)
(* `FileSnapshotStore` (src/src/snapshot/file): several store objects, in  *)
(* one process or in several, save snapshots to one directory through a    *)
(* temporary file and a rename.  Processes may die at any step and come    *)
(* back with the process id they had, and the machine may lose power.      *)
(***************************************************************************)
EXTENDS Optional, FiniteSetsExt

CONSTANTS
    Positions,
    Snapshots,
    Corrupt,
    Writers,     \* store objects
    ProcessOf,   \* the process a store object lives in
    MaxSaves,    \* bound: saves that take a temporary name
    MaxKills,    \* bound: deaths of processes and losses of power
    MaxBlind     \* bound: generations that a save fails to see

\* A file has a writer until it is written to the end.  It holds the bytes of
\* a snapshot from then on, and keeps them through a loss of power once it is
\* synced.  It is stuck once an attempt to remove it has failed.
FileType ==
    [writer: Writers \cup {None}, data: Snapshots \cup {Corrupt},
     synced: BOOLEAN, stuck: BOOLEAN]

ASSUME SnapshotAssumption ==
    /\ Positions \subseteq Nat
    /\ {None, Corrupt} \cap Snapshots = {} /\ None # Corrupt
    /\ None \notin FileType /\ None \notin Writers
    /\ MaxSaves \in Nat /\ MaxKills \in Nat /\ MaxBlind \in Nat

Processes == {ProcessOf[w] : w \in Writers}

VARIABLES
    durability,  \* SnapshotOptions.durability, the same for all stores
    final,       \* final[p]: the file of position p, or None
    earlier,     \* earlier[p]: what final[p] was before, while a loss of power may
                 \* bring it back: the directory is never synced
    temp,        \* temp[n]: the temporary file with name n, or None
    unsettled,   \* the names whose entries in the directory a loss of power may undo
    pc,          \* pc[w]: where the save of store w is
    saving,      \* saving[w]: position and bytes of the save in flight
    name,        \* name[w]: its temporary name
    next_id,     \* next_id[c]: the counter of process c
    begun,       \* how many saves took a temporary name
    blind,       \* how often a save did not see the generation it looked for
    kills,
    losses       \* how often power was lost

generations == <<final, earlier>>
temps == <<temp, unsettled>>
saves == <<pc, saving, name>>
vars == <<durability, generations, temps, saves, next_id, begun, blind, kills, losses>>

File(w, data, synced) == [writer |-> w, data |-> data, synced |-> synced, stuck |-> FALSE]

Names == Positions \X Processes \X (0..(MaxSaves - 1))

NoSave == [position |-> None, data |-> None]

Init ==
    /\ durability \in {"Flush", "SyncAll"}
    /\ final = [p \in Positions |-> None]
    /\ earlier = [p \in Positions |-> {}]
    /\ temp = [n \in Names |-> None]
    /\ unsettled = {}
    /\ pc = [w \in Writers |-> "idle"]
    /\ saving = [w \in Writers |-> NoSave]
    /\ name = [w \in Writers |-> None]
    /\ next_id = [c \in Processes |-> 0]
    /\ begun = 0
    /\ blind = 0
    /\ kills = 0
    /\ losses = 0

\* save has returned, with Ok or with an error.
Return(w) ==
    /\ pc' = [pc EXCEPT ![w] = "idle"]
    /\ saving' = [saving EXCEPT ![w] = NoSave]
    /\ name' = [name EXCEPT ![w] = None]

\* TempGuard::drop: the temporary file is removed; if that fails the error is
\* ignored and the file stays.
DropGuard(w) ==
    LET n == name[w]
    IN  \/ /\ temp' = [temp EXCEPT ![n] = None]
           /\ unsettled' = IF temp[n] = None THEN unsettled ELSE unsettled \cup {n}
        \/ /\ temp[n] # None
           /\ temp' = [temp EXCEPT ![n].stuck = TRUE]
           /\ UNCHANGED unsettled

\* Mutant: save does not look whether the generation exists.
FoundFreeUnchecked(p) == UNCHANGED blind

\* final_path.exists(): a generation is also missed if its metadata cannot be
\* read.
FoundFree(p) ==
    \/ final[p] = None /\ UNCHANGED blind
    \/ final[p] # None /\ blind < MaxBlind /\ blind' = blind + 1

\* Mutant: the counter is read, and advanced by nobody.
TakeNameAgain(w, p) ==
    LET c == ProcessOf[w]
    IN  /\ begun < MaxSaves
        /\ begun' = begun + 1
        /\ name' = [name EXCEPT ![w] = <<p, c, next_id[c]>>]
        /\ UNCHANGED next_id

\* temporary_path: the process takes the next of its numbers.
TakeName(w, p) ==
    LET c == ProcessOf[w]
    IN  /\ begun < MaxSaves
        /\ begun' = begun + 1
        /\ name' = [name EXCEPT ![w] = <<p, c, next_id[c]>>]
        /\ next_id' = [next_id EXCEPT ![c] = @ + 1]

\* Mutant: a snapshot of an empty cursor is saved.
BeginEmptyCursor(w, p, d) ==
    /\ pc[w] = "idle"
    /\ IF p = None THEN UNCHANGED blind ELSE FoundFree(p)
    /\ TakeName(w, p)
    /\ pc' = [pc EXCEPT ![w] = "create"]
    /\ saving' = [saving EXCEPT ![w] = [position |-> p, data |-> d]]
    /\ UNCHANGED <<durability, generations, temps, kills, losses>>

\* save, to the choice of the temporary name.  An empty cursor has no
\* position and is an error.  If the generation is found save returns, Ok for
\* equal bytes and an error otherwise, and changes nothing.
Begin(w, p, d) ==
    /\ pc[w] = "idle"
    /\ p # None
    /\ FoundFree(p)
    /\ TakeName(w, p)
    /\ pc' = [pc EXCEPT ![w] = "create"]
    /\ saving' = [saving EXCEPT ![w] = [position |-> p, data |-> d]]
    /\ UNCHANGED <<durability, generations, temps, kills, losses>>

\* create_new: a name left behind by a dead process is an error, after which
\* the guard removes that file, or fails to.
Create(w) ==
    /\ pc[w] = "create"
    /\ IF temp[name[w]] = None
       THEN /\ temp' = [temp EXCEPT ![name[w]] = File(w, Corrupt, FALSE)]
            /\ unsettled' = unsettled \cup {name[w]}
            /\ pc' = [pc EXCEPT ![w] = "write"]
            /\ UNCHANGED <<saving, name>>
       ELSE DropGuard(w) /\ Return(w)
    /\ UNCHANGED <<durability, generations, next_id, begun, blind, kills, losses>>

\* Mutant: the file is dropped without a sync.
WriteUnsynced(w) ==
    /\ pc[w] = "write"
    /\ temp' = [temp EXCEPT ![name[w]] =
          IF @ # None THEN IF @.writer = w
                           THEN File(None, saving[w].data, FALSE) ELSE @
          ELSE @]
    /\ pc' = [pc EXCEPT ![w] = "rename"]
    /\ UNCHANGED <<durability, generations, unsettled, saving, name, next_id, begun, blind, kills, losses>>

\* write_all, sync and drop of the open handle.
Write(w) ==
    /\ pc[w] = "write"
    /\ temp' = [temp EXCEPT ![name[w]] =
          IF @ # None THEN IF @.writer = w
                           THEN File(None, saving[w].data, durability # "Flush") ELSE @
          ELSE @]
    /\ pc' = [pc EXCEPT ![w] = "rename"]
    /\ UNCHANGED <<durability, generations, unsettled, saving, name, next_id, begun, blind, kills, losses>>

\* rename: whatever has the temporary name becomes the generation, in place of
\* another that may have come between.
Rename(w) ==
    LET f == temp[name[w]]
        p == saving[w].position
    IN  /\ pc[w] = "rename"
        /\ f # None
        /\ final' = [final EXCEPT ![p] = f]
        /\ earlier' = [earlier EXCEPT ![p] = @ \cup {final[p]}]
        /\ temp' = [temp EXCEPT ![name[w]] = None]
        /\ Return(w)
        /\ UNCHANGED <<durability, unsettled, next_id, begun, blind, kills, losses>>

\* Mutant: nothing removes the temporary file.
FailLeavesTemp(w) ==
    /\ pc[w] # "idle"
    /\ Return(w)
    /\ UNCHANGED <<durability, generations, temps, next_id, begun, blind, kills, losses>>

\* Mutant: the guard removes the final path.
FailRemovesFinal(w) ==
    /\ pc[w] # "idle"
    /\ final' = [final EXCEPT ![saving[w].position] = None]
    /\ Return(w)
    /\ UNCHANGED <<durability, earlier, temps, next_id, begun, blind, kills, losses>>

\* Any call of save fails, a rename that finds no file included.
Fail(w) ==
    /\ pc[w] # "idle"
    /\ DropGuard(w)
    /\ Return(w)
    /\ UNCHANGED <<durability, generations, next_id, begun, blind, kills, losses>>

\* The process of some stores dies; a new one takes its id.
Kill(c) ==
    /\ kills < MaxKills
    /\ \E w \in Writers : ProcessOf[w] = c /\ pc[w] # "idle"
    /\ pc' = [w \in Writers |-> IF ProcessOf[w] = c THEN "idle" ELSE pc[w]]
    /\ saving' = [w \in Writers |-> IF ProcessOf[w] = c THEN NoSave ELSE saving[w]]
    /\ name' = [w \in Writers |-> IF ProcessOf[w] = c THEN None ELSE name[w]]
    /\ next_id' = [next_id EXCEPT ![c] = 0]
    /\ kills' = kills + 1
    /\ UNCHANGED <<durability, generations, temps, begun, blind, losses>>

\* What a loss of power may leave of a file: rubble if it is not synced.
AfterLoss(f) ==
    IF f = None THEN {None}
    ELSE {[f EXCEPT !.synced = TRUE]}
         \cup (IF f.synced THEN {} ELSE {[f EXCEPT !.data = Corrupt, !.synced = TRUE]})

\* Renames that are not on disk yet are undone, down to any of them.
MayRemain(p) == UNION {AfterLoss(f) : f \in earlier[p] \cup {final[p]}}

\* Of the temporary files whose entries are not settled any may be found, those
\* that were renamed or removed included; what is in them does not matter.
LosePower ==
    /\ kills < MaxKills
    /\ final' \in {g \in [Positions -> UNION {MayRemain(p) : p \in Positions}] :
                     \A p \in Positions : g[p] \in MayRemain(p)}
    /\ earlier' = [p \in Positions |-> {}]
    /\ \E back \in SUBSET unsettled :
         temp' = [n \in Names |-> IF n \in back THEN File(None, Corrupt, TRUE)
                                  ELSE IF n \in unsettled THEN None ELSE temp[n]]
    /\ unsettled' = {}
    /\ pc' = [w \in Writers |-> "idle"]
    /\ saving' = [w \in Writers |-> NoSave]
    /\ name' = [w \in Writers |-> None]
    /\ next_id' = [c \in Processes |-> 0]
    /\ kills' = kills + 1
    /\ losses' = losses + 1
    /\ UNCHANGED <<durability, begun, blind>>

Next ==
    \/ \E w \in Writers :
         \/ \E p \in Positions \cup {None}, d \in Snapshots : Begin(w, p, d)
         \/ Create(w) \/ Write(w) \/ Rename(w) \/ Fail(w)
    \/ \E c \in Processes : Kill(c)
    \/ LosePower

Spec == Init /\ [][Next]_vars

-----------------------------------------------------------------------------
\* Types; a save in flight always has a name of a real position.
TypeOK ==
    /\ durability \in {"Flush", "SyncAll"}
    /\ final \in [Positions -> FileType \cup {None}]
    /\ earlier \in [Positions -> SUBSET (FileType \cup {None})]
    /\ temp \in [Names -> FileType \cup {None}]
    /\ unsettled \subseteq Names
    /\ pc \in [Writers -> {"idle", "create", "write", "rename"}]
    /\ saving \in [Writers -> [position: Positions \cup {None}, data: Snapshots \cup {None}]]
    /\ name \in [Writers -> Names \cup {None}]
    /\ next_id \in [Processes -> 0..begun] /\ begun \in 0..MaxSaves
    /\ blind \in 0..MaxBlind
    /\ kills \in 0..MaxKills /\ losses \in 0..kills

\* latest_path: the greatest position with a generation.
LatestPosition ==
    IF \A p \in Positions : final[p] = None THEN None
    ELSE Max({p \in Positions : final[p] # None})

\* Every generation can be read back, so load_latest finds no torn file: a
\* death in the middle of a save leaves none, whoever saves beside it, nor
\* does a loss of power if the stores sync.
GenerationsWhole ==
    (durability # "Flush" \/ losses = 0) =>
        \A p \in Positions : final[p] # None => final[p].data # Corrupt

\* load_latest never goes back to an older generation while power stays on,
\* however the saves of several stores interleave, fail or die.
LatestNeverOlder == [][losses' = losses => AtMost(LatestPosition, LatestPosition')]_vars

InUse(n) == \E w \in Writers : pc[w] \in {"write", "rename"} /\ name[w] = n

\* A temporary file that no save is using was left by a process that died, by
\* a loss of power or by a removal that failed, and by nothing else.
OnlyFaultsLeaveTemps ==
    kills = 0 => \A n \in Names : temp[n] # None => InUse(n) \/ temp[n].stuck

\* What a failed removal leaves behind stands in nobody's way: as long as no
\* process dies, every save, a retry of the failed one included, finds its
\* temporary name free.
RetriesUnobstructed ==
    kills = 0 => \A w \in Writers : pc[w] = "create" => temp[name[w]] = None

InFlight(p) == \E w \in Writers : pc[w] # "idle" /\ saving[w].position = p

\* A generation counts as published once no save of its position is in flight
\* any more.  Until then it is only one that may come back.
Published ==
    [p \in Positions |-> IF final[p] = None \/ InFlight(p) THEN None ELSE final[p].data]

Former ==
    [p \in Positions |->
        {f.data : f \in (earlier[p] \cup (IF InFlight(p) THEN {final[p]} ELSE {})) \ {None}}]

Abstract == INSTANCE SnapshotGenerations WITH snapshots <- Published, former <- Former

\* The directory implements SnapshotGenerations: what is published stays, but
\* for a save that does not see it and for a loss of power.
ImplementsGenerations == Abstract!Spec

\* "Never overwritten", for every generation a reader can find: while power
\* stays on, no later step of any store changes the bytes of a generation.
NeverOverwritten ==
    [][losses' = losses =>
          \A p \in Positions : final[p] # None => final'[p] # None /\ final'[p].data = final[p].data]_vars

=============================================================================
