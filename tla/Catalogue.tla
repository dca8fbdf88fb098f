----------------------------- MODULE Catalogue -----------------------------
(***************************************************************************)
(* What the bridge promises its clients: one catalogue of NVMe subsystems, *)
(* controllers and namespaces, in which every request takes effect at one  *)
(* instant between its arrival and its answer, completely or not at all.   *)
(* There are no records, no ListHelper, no application and no calls.       *)
(*                                                                         *)
(* The value of a name is what identifies the object in its subsystem: the *)
(* NQN of a subsystem, the id of a controller or of a namespace.           *)
(***************************************************************************)
EXTENDS Integers

CONSTANTS
  Worker,        \* requests that can be under way at once
  Subsystems,    \* names of subsystems
  Controllers,   \* names of controllers
  Namespaces,    \* names of namespaces
  Parent,        \* the subsystem of a controller or namespace
  NqnOf,         \* the NQNs a subsystem may be given
  CtrlrNums,     \* ids a controller can have
  NsNums,        \* ids a namespace can have
  AnyId,         \* in a request for a controller: any id will do
  None           \* no object, no value

VARIABLES
  catalogue,     \* the value of each name that exists, or None
  attached,      \* the pairs <<controller, namespace>>
  request,       \* the request each worker is busy with
  answer         \* the last answer of each worker

vars == <<catalogue, attached, request, answer>>

Children == Controllers \cup Namespaces
Names    == Subsystems \cup Children

Creates == {"CreateNvmeSubsystem", "CreateNvmeController", "CreateNvmeNamespace"}
Deletes == {"DeleteNvmeSubsystem", "DeleteNvmeController", "DeleteNvmeNamespace"}
Updates == {"UpdateNvmeController"}

\* want is the value the request carries, done whether it has taken effect.
NoRequest == [op |-> "none", key |-> None, want |-> None, done |-> FALSE]

Exists(k) == catalogue[k] # None

\* The names whose values must differ from k's.
Rivals(k) ==
  IF k \in Subsystems THEN Subsystems \ {k}
  ELSE {j \in IF k \in Controllers THEN Controllers ELSE Namespaces :
          j # k /\ Parent[j] = Parent[k]}

\* The controllers a new namespace n is attached to.
Partners(n) == {c \in Controllers : Parent[c] = Parent[n] /\ Exists(c)}

ChildrenOf(s) == {k \in Children : Parent[k] = s /\ Exists(k)}

\* The values that k can be given when the request wants want.
Grants(k, want) ==
  {v \in IF k \in Controllers /\ want = AnyId THEN CtrlrNums ELSE {want} :
     \A j \in Rivals(k) : catalogue[j] # v}

\* The values a request op on k may want.
Wants(op, k) ==
  CASE op \in Deletes                -> {None}
    [] op = "CreateNvmeSubsystem"    -> NqnOf[k]
    [] op = "CreateNvmeNamespace"    -> NsNums
    [] OTHER                         -> CtrlrNums \cup {AnyId}

NamesFor(op) ==
  CASE op \in {"CreateNvmeSubsystem", "DeleteNvmeSubsystem"} -> Subsystems
    [] op \in {"CreateNvmeNamespace", "DeleteNvmeNamespace"} -> Namespaces
    [] OTHER                                                 -> Controllers

Init ==
  /\ catalogue = [k \in Names |-> None]
  /\ attached = {}
  /\ request = [w \in Worker |-> NoRequest]
  /\ answer = [w \in Worker |-> "none"]

---------------------------------------------------------------------------

\* A request is answered on arrival: there is nothing to do, or nothing to
\* do it to.
AnswerAtOnce(w, code) ==
  /\ request[w] = NoRequest
  /\ answer' = [answer EXCEPT ![w] = code]
  /\ UNCHANGED <<catalogue, attached, request>>

\* A request is accepted: a create if the name is free, any other if it exists.
Accept(w) ==
  LET r == request'[w] IN
  /\ request[w] = NoRequest
  /\ r.op \in Creates \cup Deletes \cup Updates
  /\ r.key \in NamesFor(r.op)
  /\ r.want \in Wants(r.op, r.key)
  /\ r.op \in Creates <=> ~Exists(r.key)
  /\ request' = [request EXCEPT ![w] =
                   [op |-> r.op, key |-> r.key, want |-> r.want, done |-> FALSE]]
  /\ answer' = [answer EXCEPT ![w] = "none"]
  /\ UNCHANGED <<catalogue, attached>>

Pending(w, ops) == request[w].op \in ops /\ ~request[w].done

\* The request of w takes effect, and nothing it wanted is wanted any more.
TakeEffect(w) ==
  /\ request' = [request EXCEPT ![w].done = TRUE, ![w].want = None]
  /\ UNCHANGED answer

Create(w) ==
  LET k == request[w].key IN
  /\ Pending(w, Creates) /\ TakeEffect(w)
  /\ k \in Children => Exists(Parent[k])
  /\ \E v \in Grants(k, request[w].want) : catalogue' = [catalogue EXCEPT ![k] = v]
  /\ attached' = IF k \in Namespaces THEN attached \cup (Partners(k) \X {k}) ELSE attached

Delete(w) ==
  LET k == request[w].key IN
  /\ Pending(w, Deletes) /\ TakeEffect(w)
  /\ k \in Subsystems => ChildrenOf(k) = {}
  /\ catalogue' = [catalogue EXCEPT ![k] = None]
  /\ attached' = {a \in attached : k \notin {a[1], a[2]}}

\* An update of a controller keeps its id: it must name it.
Update(w) ==
  /\ Pending(w, Updates) /\ TakeEffect(w)
  /\ request[w].want = catalogue[request[w].key]
  /\ UNCHANGED <<catalogue, attached>>

\* What has taken effect is answered with OK.
Confirm(w) ==
  /\ request[w].done
  /\ request' = [request EXCEPT ![w] = NoRequest]
  /\ answer' = [answer EXCEPT ![w] = "OK"]
  /\ UNCHANGED <<catalogue, attached>>

\* A request that cannot take effect is refused, and changes nothing.
Impossible(op, k, want) ==
  CASE op \in Creates -> Grants(k, want) = {}
    [] op \in Deletes -> k \in Subsystems /\ ChildrenOf(k) # {}
    [] OTHER          -> want # catalogue[k]

Refuse(w) ==
  LET r == request[w] IN
  /\ Pending(w, Creates \cup Deletes \cup Updates)
  /\ request' = [request EXCEPT ![w] = NoRequest]
  /\ \/ /\ r.key \in Children /\ ~Exists(Parent[r.key])
        /\ answer' = [answer EXCEPT ![w] = "NotFound"]
     \/ /\ Impossible(r.op, r.key, r.want)
        /\ answer' = [answer EXCEPT ![w] = "Failed"]
  /\ UNCHANGED <<catalogue, attached>>

Next ==
  \E w \in Worker :
    \/ \E code \in {"OK", "NotFound", "Failed"} : AnswerAtOnce(w, code)
    \/ Accept(w)
    \/ Create(w) \/ Delete(w) \/ Update(w)
    \/ Confirm(w) \/ Refuse(w)

Spec == Init /\ [][Next]_vars
=============================================================================
