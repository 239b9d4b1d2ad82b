SPECIFICATION MCSpec
CONSTANTS
    docs = docs  bare = bare  register = register  repeat = repeat  unread = unread  twice = twice
    doc = doc  dkt = dkt  fr1 = fr1  fr2 = fr2  fr3 = fr3
    None = None
    Requests = {docs, bare, register, repeat, unread, twice}
    Ids = {1, 2, 3, 4, 5}
    Selectors = {doc, dkt, fr1, fr2, fr3}
    Partitions = {0, 1}
    Sources <- MCSources
    Policy <- MCPolicy
    BatchItems <- MCBatchItems
    Family <- MCFamily
    DocketSel = dkt
    PartitionOf <- MCPartitionOf
    Null = Null
    Junk = Junk
    Odd = Odd
    Unknown = Unknown
    Texts <- MCTexts
    Urls <- MCUrls
    Objects <- MCObjects
    Instants <- MCInstants
    Fixtures <- MCFixtures
    OrderHash <- MCOrderHash
    Withholding <- MCWithholding
    Template <- MCTemplate
    Jobs <- MCJobs
    Artifacts <- MCArtifacts
    BucketOf <- MCBucketOf
    BucketCount = 5
    Installed <- MCInstalled
    WorkerCount = 2
    ParallelThreshold = 5
    MaxJoinIds = 3
    CollapsedFloor = 3
    MaxDeaths = 1
CHECK_DEADLOCK FALSE
INVARIANTS BuildExact PoliciesExact VerifiedExact
PROPERTIES BuildFinishes VerificationEnds
