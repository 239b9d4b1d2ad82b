SPECIFICATION FairSpec
CONSTANTS
    v = v  w = w  d = d  b = b  e1 = e1  e2 = e2  e3 = e3
    None = None
    Workers = {v, w}
    Documents = {}
    Batches = {b}
    Executions = {e1, e2}
    Base <- MCBase
    Limit = 0
    Stages = 0
    MaxEntries = 4
PROPERTY JournalPublished
CHECK_DEADLOCK FALSE
