\* Two clients and an external editor, one call at a time each, one retry.
CONSTANTS
    c1 = c1
    c2 = c2
    k1 = k1
    k2 = k2
    Clients = {c1, c2}
    Calls = {k1, k2}
    ClientOf <- OneCallEach
    Files = {f1}
    Names = {n1}
    Contents = {b1}
    NoContent = NoContent
    MaxTries = 2
    MaxVersion = 3
SYMMETRY ClientSymmetry
VIEW WithoutGarbage
SPECIFICATION Spec
INVARIANTS
    TypeOK
    BaselineCovered
PROPERTIES
    NoBlindOverwrite
    RefusalNotSelf
    ProbeHonest
    KeepsPromise
CHECK_DEADLOCK FALSE
