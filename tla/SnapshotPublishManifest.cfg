SPECIFICATION Spec
CONSTANTS
    Builders = {b1, b2}
    Cleaners = {gui}
    Runs = {r1, r2, r3}
    NoRun = NoRun
    Legacy = Legacy
    Torn = Torn
    ReadErrors = {}
    GcAge = 3
    Stall = 1
    MaxTime = 4
    MaxFaults = 0
SYMMETRY Symmetry
INVARIANT ManifestDescribesCurrent
