CONSTANTS
    r = r
    a = a
    b = b
    c = c
    x = x
    y = y
    z = z
    Inodes = {r, a, b, c}
    Root = r
    Names = {x, y, z}
    Word = 6
    DirMax = 4
    MaxFaults = 1
SYMMETRY Symmetry
SPECIFICATION Spec
INVARIANTS
    Consistent
    Connected
