SPECIFICATION Spec
CONSTANTS
    v = v  w = w  d = d  b = b  e1 = e1  e2 = e2  e3 = e3
    None = None
    Workers = {v, w}
    Documents = {d}
    Batches = {b}
    Executions = {e1, e2, e3}
    Base <- MCBase
    Limit = 1
    Stages = 1
    MaxEntries = 5
SYMMETRY Symmetry
INVARIANTS OneController OneOutcome CompletedOnce WithinBudget CheckpointExact
PROPERTY HeadFromStart
CHECK_DEADLOCK FALSE
