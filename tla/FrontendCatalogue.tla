------------------------- MODULE FrontendCatalogue -------------------------
(***************************************************************************)
(* The Server as an implementation of Catalogue.  The mapping says at      *)
(* which step of its handler a request takes effect: a create at the       *)
(* application's answer to the call that makes the object, the delete of a *)
(* subsystem or controller at the answer to the call that removes it, the  *)
(* delete of a namespace when it starts to detach it.  From then on the    *)
(* handler must not fail: all that is left to it is to bring the other     *)
(* attachments, ListHelper and the store to where the catalogue is.        *)
(***************************************************************************)
EXTENDS Frontend

\* The steps after which the request of a frame has taken effect.
Effective(f) ==
  CASE f.op \in CreateOps            -> f.pc \in {"range", "loop", "get", "call", "list", "save"}
    [] f.op = "DeleteNvmeNamespace"  -> f.pc # "parent"
    [] f.op \in {"DeleteNvmeSubsystem", "DeleteNvmeController"}
                                     -> f.pc \in {"unlist", "erase"}
    [] f.op = "UpdateNvmeController" -> f.pc = "save"
    [] OTHER                         -> FALSE

Doing(k, ops) == {w \in Worker : h[w].key = k /\ h[w].op \in ops /\ Effective(h[w])}

\* The object of a name: its record, or what the handler that is changing the
\* record knows.
Catalogued(k) ==
  IF Doing(k, CreateOps) # {} THEN h[CHOOSE w \in Doing(k, CreateOps) : TRUE].obj
  ELSE IF Doing(k, DeleteOps) # {} THEN None
  ELSE store[k]

CatalogueNow == [k \in Keys |-> Catalogued(k)]

\* The attachments, by the names of the objects in the application; while a
\* namespace is created or deleted, those its handler has to arrive at.
AttachedNow ==
  LET held == {x \in fw.ctrls \X fw.nss :
                 /\ x[1].nqn = x[2].nqn
                 /\ [nqn |-> x[1].nqn, ctrl |-> x[1].id, ns |-> x[2].id] \in fw.att}
      changing == {n \in Namespaces : Doing(n, NamespaceOps) # {}}
      created  == {n \in Namespaces : Doing(n, CreateOps) # {}}
  IN  {<<x[1].owner, x[2].owner>> : x \in {y \in held : y[2].owner \notin changing}}
        \cup {x \in Controllers \X created :
                Parent[x[1]] = Parent[x[2]] /\ Catalogued(x[1]) # None}

RequestNow ==
  [w \in Worker |->
     LET f == h[w] IN
     [op   |-> f.op,
      key  |-> f.key,
      want |-> IF Effective(f) \/ f.op \in DeleteOps THEN None ELSE f.obj,
      done |-> Effective(f)]]

C == INSTANCE Catalogue
       WITH AnyId <- autoCtrlrIDAllocation, catalogue <- CatalogueNow,
            attached <- AttachedNow, request <- RequestNow, answer <- reply

\* The Server implements the catalogue as long as clients wait for their
\* requests on a subsystem, nothing fails and the bridge is not restarted:
\* every request takes effect at once and completely, a refused one has left
\* nothing behind, and after the effect the handler gets through every loop,
\* call and write that is left.
CatalogueSpec == C!Spec
=============================================================================
