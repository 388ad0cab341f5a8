CONSTANTS
    p1 = p1
    p2 = p2
    s1 = s1
    s2 = s2
    c1 = c1
    c2 = c2
    f1 = f1
    f2 = f2
    x = x
    y = y
    z = z
    Absent = Absent
    Torn = Torn
    Free = Free
    NoKey = NoKey
    Missing = Missing
    NoBinary = NoBinary
    Procs = {p1, p2}
    Modes = {"build"}
    Sources = {s1}
    Configs = {c1}
    Files = {f1, f2}
    Contents = {x, y, z}
    Gen <- MCGen

SPECIFICATION OneFairSpec

PROPERTIES
    NeverWaitsForOthers
