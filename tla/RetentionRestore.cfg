SPECIFICATION Spec
CONSTANTS
    e1 = e1  e2 = e2  s = s  p1 = p1  p2 = p2  x = x  res = res  rq = rq  sel = sel  x2 = x2  res2 = res2
    bv = bv  br = br  bj = bj  bj2 = bj2
    uImport = uImport  uRestore = uRestore  uOp = uOp  uSplit = uSplit  uMove = uMove  uInputs = uInputs  uReuse = uReuse
    qHead = qHead  qResult = qResult
    dInput = dInput  dOutput = dOutput  dOld = dOld
    pub1 = pub1  pub2 = pub2
    ds = ds
    None = None
    Records = {e1, e2, s, p1, p2, x, res, rq, sel}
    Blobs = {bv, br, bj}
    Units = {uImport, uOp, uRestore}
    Publishers = {pub1, pub2}
    Selects = {qHead}
    Removals = {dInput, dOutput}
    Datasets = {ds}
    Needs <- MCNeeds
    Names <- MCNames
    Content <- MCContent
    RepsOf <- MCRepsOf
    Inline = {p1}
    In <- MCIn
    Roots <- MCRoots
    Operations = {uOp}
    Fused = {uOp}
    Exec <- MCExec
    Res <- MCRes
    JBlob <- MCJBlob
    Args <- MCArgs
    Scope <- MCScope
    Orphans <- MCOrphans
SYMMETRY Symmetry
INVARIANTS ReadyPresent RecoveryProtected
PROPERTIES AvailabilityVersioned NoResurrection
CHECK_DEADLOCK FALSE
