SPECIFICATION LifeSpec
CONSTANTS
    u1 = u1  u2 = u2  d1 = d1
    Ups = {u1, u2}
    Downs = {d1}
    MaxPort = 2
    Interleaved = {"fresh"}
    Absent = Absent
SYMMETRY UpSymmetry
INVARIANTS OneEngine DownWorks
CHECK_DEADLOCK FALSE
