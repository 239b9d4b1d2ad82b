SPECIFICATION Spec
CONSTANTS
    docs = docs  bare = bare  register = register  repeat = repeat  unread = unread  twice = twice
    doc = doc  dkt = dkt  fr1 = fr1  fr2 = fr2  fr3 = fr3
    None = None
    Requests = {repeat}
    Ids = {1, 2, 3, 4, 5}
    Selectors = {doc, dkt, fr1, fr2, fr3}
    Partitions = {0, 1}
    Sources <- MCSources
    Policy <- MCPolicy
    BatchItems <- MCBatchItems
    Family <- MCFamily
    DocketSel = dkt
    PartitionOf <- MCPartitionOf
INVARIANT DistinctUniverse
