CONSTANTS
    i1 = i1
    i2 = i2
    i3 = i3
    i4 = i4
    i5 = i5
    x = x
    y = y
    z = z
    t = t
    u = u
    Ids = {i1, i2, i3, i4, i5}
    Vars = {x, y, z}
    Trees = {t, u}
    Roots = {"metadata", "types"}
    Careful = TRUE
    Null = Null
SPECIFICATION Spec
INVARIANTS TypeOK NoDangling NoLeak
SYMMETRY Symmetry
