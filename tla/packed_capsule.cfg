SPECIFICATION Spec
CONSTANTS
    p1 = p1
    p2 = p2
    t1 = t1
    t2 = t2
    Policies = {p1, p2}
    Traces = {t1, t2}
    None = None
    Absent = Absent
    Torn = Torn
    Attempts = {a1, a2}
    Kinds = {"pack"}
    Overlapping = {}
    Inputs <- MCInputs
SYMMETRY MCSymmetry
CHECK_DEADLOCK FALSE
INVARIANT PackVerifies
