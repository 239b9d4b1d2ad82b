SPECIFICATION MCSpec
CONSTANTS
    None = None
    ProbeChars = 2
    ProbeFactor = 1
    Jobs <- MCJobs
    VoidTags <- MCVoidTags
    SuppressedTags <- MCSuppressedTags
    HeadingLevels <- MCHeadingLevels
    Cases <- MCCases
    Readers = {1, 2}
    Answers <- MCAnswers
    MaxAnswers = 2
    MaxUpgrades = 1
    u1 = u1  u2 = u2  u3 = u3  w1 = w1  w2 = w2  m1 = m1  m2 = m2
    Unstated = Unstated  Nil = Nil
    Versions = {1, 2, 3}
    Size <- MCSize
    Urls = {u1, u2, u3}
    Start = u1
    Allowed = {u1, u2}
    MaxRedirects = 1
    Attempts = 2
    MaxBytes = 3
    MaxObject = 2
    MaxDrifts = 1
    Writers = {w1, w2}
    Media = {m1, m2}
CHECK_DEADLOCK FALSE
INVARIANTS SegmentsExact ExtractionHonest TextExact RecognitionKept TransferExact PutReady
PROPERTY TransferEnds
