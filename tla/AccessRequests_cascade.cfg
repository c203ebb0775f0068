SPECIFICATION Spec
CHECK_DEADLOCK FALSE
CONSTANTS
    Ids = {i1, i2}
    Tools = {t1}
    Admin = Admin
    Groups = {g1}
    Ports = {https}
    Forms = {"dashed", "dotted"}
    Handlers = {p1, p2}
    NoHandler = NoHandler
    Kinds <- AllKinds
    Overlap = FALSE
SYMMETRY Symmetry
INVARIANT CacheMatchesRecords
