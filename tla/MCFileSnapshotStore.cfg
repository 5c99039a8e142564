\* Three stores in two processes, two positions, two different snapshots.
CONSTANTS
    w1 = w1
    w2 = w2
    w3 = w3
    Writers = {w1, w2, w3}
    ProcessOf <- MCProcessOf
    Positions = {0, 1}
    Snapshots = {x, y}
    Corrupt = Corrupt
    None = None
    MaxSaves = 3
    MaxKills = 2
    MaxBlind = 1
\* The number of saves is bounded, so behaviours end.
CHECK_DEADLOCK FALSE
SYMMETRY Symmetry
SPECIFICATION Spec
INVARIANTS
    TypeOK
    GenerationsWhole
    OnlyFaultsLeaveTemps
    RetriesUnobstructed
PROPERTIES
    LatestNeverOlder
    ImplementsGenerations
