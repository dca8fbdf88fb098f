CONSTANTS
  s1 = s1  s2 = s2  c1 = c1  c2 = c2  c3 = c3  n1 = n1  n2 = n2  n3 = n3
  q1 = q1  q2 = q2  w1 = w1  w2 = w2  w3 = w3  None = None
  Worker = {w1}
  Subsystems = {s1}
  Controllers = {c1}
  Namespaces = {n1}
  Parent <- ParentOne
  Nqns = {q1}
  NqnOf <- NqnOwn
  CtrlrNums = {0}
  NsNums = {1}
  Ops <- AllOps
  NsidAgrees = TRUE
  LenientDetach = TRUE
  UpdateEchoesId = TRUE
  Conflicts <- PerName
  ForeignUpdates = FALSE
  RpcFaults = FALSE
  StoreFaults = FALSE
  Restarts = TRUE
SPECIFICATION Spec
PROPERTIES ChildDeleteSucceeds
