SPECIFICATION Spec
CONSTANTS
    Threads = {t1, t2}
    Runs = {r1, r2, r3}
    NoRun = NoRun
    FirstRun = r1
    Unversioned = Unversioned
    PointerTtl = 1
    GcAge = 9
    MaxTime = 3
SYMMETRY Symmetry
INVARIANTS
    NoReaderException
