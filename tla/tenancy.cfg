SPECIFICATION Spec
CONSTANTS
    t1 = t1
    t2 = t2
    s1 = s1
    s2 = s2
    u1 = u1
    root = root
    k1 = k1
    c1 = c1
    c2 = c2
    None = None
    Tenants = {t1, t2}
    Slugs = {s1, s2}
    Subjects = {u1, root}
    SuperAdmins = {root}
    Keys = {k1}
    Calls = {c1, c2}
    MaxRows = 3
    Threshold = 2
SYMMETRY Symmetry
INVARIANT TypeOK
INVARIANT SlugsAreUnique
INVARIANT OnlyItsAdminsAct
INVARIANT OpenAfterFailuresInARow
PROPERTY EachTenantIsItsAdmins
PROPERTY KeysAreNotReborn
CHECK_DEADLOCK FALSE
