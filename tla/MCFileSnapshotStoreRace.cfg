\* Two stores in different processes and one position.
CONSTANTS
    w1 = w1
    w2 = w2
    w3 = w3
    Writers = {w1, w3}
    ProcessOf <- MCProcessOf
    Positions = {0}
    Snapshots = {x, y}
    Corrupt = Corrupt
    None = None
    MaxSaves = 2
    MaxKills = 1
    MaxBlind = 0
CHECK_DEADLOCK FALSE
SPECIFICATION Spec
PROPERTY
    NeverOverwritten
