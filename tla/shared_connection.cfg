SPECIFICATION Spec
CONSTANTS
    Savers = {s1, s2}
    Others = {o1}
    Files = 2
    MaxFaults = 2
INVARIANT SavedAtomically
