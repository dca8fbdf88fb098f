CONSTANTS
  s1 = s1  s2 = s2  c1 = c1  c2 = c2  c3 = c3  n1 = n1  n2 = n2  n3 = n3
  q1 = q1  q2 = q2  w1 = w1  w2 = w2  w3 = w3  None = None
  Worker = {w1, w2}
  Subsystems = {s1}
  Controllers = {c1}
  Namespaces = {n1}
  Parent <- ParentOne
  Nqns = {q1}
  NqnOf <- NqnOwn
  CtrlrNums = {0, 1}
  NsNums = {1}
  Ops = {"CreateNvmeSubsystem", "CreateNvmeController", "DeleteNvmeController", "UpdateNvmeController", "CreateNvmeNamespace", "DeleteNvmeNamespace"}
  NsidAgrees = TRUE
  LenientDetach = FALSE
  UpdateEchoesId = TRUE
  Conflicts <- PerName
  ForeignUpdates = TRUE
  RpcFaults = TRUE
  StoreFaults = TRUE
  Restarts = FALSE
SPECIFICATION Spec
SYMMETRY Workers
INVARIANTS Mirrored ListHelperExact OneAtATime
PROPERTIES CreateNeverOverwrites
