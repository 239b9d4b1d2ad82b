SPECIFICATION MCSpec
CONSTANTS
    id1 = id1  id2 = id2  id3 = id3  d1 = d1  d2 = d2  big = big  small = small  s1 = s1  s2 = s2
    k1 = k1  k2 = k2  o1 = o1  o2 = o2
    None = None
    Sessions = {s1, s2}
    Ids = {id1, id2, id3}
    Digests = {d1, d2}
    Bulks = {big, small}
    Members <- MCMembers
    StateOf <- MCStateOf
    Attempts = 2
    MaxUnits = 3
    MemberKeys = {k1, k2}
    Occs = {o1, o2}
    Absence = Absence
    MaxStates = 3
    MaxReps = 3
    MaxEdits = 2
    w1 = w1  w2 = w2
    Workers = {w1, w2}
    Inputs = {"a", "b", "c", "p", "q"}
    InputValue <- MCInputValue
    Calls = {1, 2}
    Request <- MCRequest
    Groups <- MCGroups
    Outputs <- MCOutputs
    Omitted <- MCOmitted
    Findings <- MCFindings
    MaxEvidence = 3
    Removable = {"a", "p"}
    Uncertain = 0
    SelKeys = {1, 2}
    SelOccs = {1, 2, 3}
    SelField <- MCField
    Definitions <- MCDefinitions
    Generations = 3
    Beginnings <- MCBeginnings
    PlanLimit = 2
    Nil = Nil
SYMMETRY Symmetry
CHECK_DEADLOCK FALSE
INVARIANTS RegistryViews StatesExact ReuseSound AffectedComplete SelectionsExact
PROPERTY ImplementsRegistry
