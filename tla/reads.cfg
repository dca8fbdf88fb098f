CONSTANTS
  s1 = s1  s2 = s2  c1 = c1  c2 = c2  c3 = c3  n1 = n1  n2 = n2  n3 = n3
  q1 = q1  q2 = q2  w1 = w1  w2 = w2  w3 = w3  None = None
  Worker = {w1}
  Subsystems = {s1, s2}
  Controllers = {c1}
  Namespaces = {n1}
  Parent <- ParentOne
  Nqns = {q1, q2}
  NqnOf <- NqnOwn
  CtrlrNums = {0, 1}
  NsNums = {1}
  Ops = {"CreateNvmeSubsystem", "DeleteNvmeSubsystem", "CreateNvmeController", "DeleteNvmeController", "CreateNvmeNamespace", "DeleteNvmeNamespace"}
  NsidAgrees = TRUE
  LenientDetach = FALSE
  UpdateEchoesId = TRUE
  Conflicts <- PerName
  ForeignUpdates = FALSE
  RpcFaults = FALSE
  StoreFaults = FALSE
  Restarts = TRUE
  r1 = r1
  Reader = {r1}
  PageSizes <- SomePageSizes
  DefaultPageSize = 3
  MaxTokens = 1
SPECIFICATION ReadSpec
INVARIANTS ReadTypeOK
PROPERTIES ReadAnswersOwn
