-------------------------- MODULE FrontendOrdered --------------------------
(* The Server where clients wait for their requests on a subsystem,        *)
(* nothing fails and the bridge is not restarted: every handler that has   *)
(* changed the application gets through, and at each step records,         *)
(* application and attachments are where the handlers' frames say, in      *)
(* every such instance, whatever NQNs the clients give to subsystems.      *)
EXTENDS FrontendMirror

USE DEF CreateOps, DeleteOps, SubsystemOps, ControllerOps, NamespaceOps, MutatingOps

---------------------------------------------------------------------------
(* The inductive invariant.                                                *)

\* What the application holds for a name: what the handler that is past its change
\* has put there, or else what the record says.
Held(k) ==
  IF \E w \in Worker : Past(w, k)
  THEN LET w == CHOOSE v \in Worker : Past(v, k) IN
       IF h[w].op \in CreateOps THEN h[w].obj ELSE None
  ELSE store[k]

Object(k) == [nqn |-> Held(Parent[k]), id |-> Held(k), owner |-> k]

Alive(K) == {k \in K : Held(k) # None}

\* The application's objects are those of the names that hold one, each NQN and
\* each id is held once, and nothing is held below a subsystem that is not.
ObjectsHeld ==
  /\ fw.subs  = {Held(s) : s \in Alive(Subsystems)}
  /\ fw.ctrls = {Object(c) : c \in Alive(Controllers)}
  /\ fw.nss   = {Object(n) : n \in Alive(Namespaces)}
  /\ \A s, t \in Alive(Subsystems) : Held(s) = Held(t) => s = t
  /\ \A c, d \in Alive(Controllers) : Parent[c] = Parent[d] /\ Held(c) = Held(d) => c = d
  /\ \A n, m \in Alive(Namespaces) : Parent[n] = Parent[m] /\ Held(n) = Held(m) => n = m
  /\ \A k \in Alive(Children) : Held(Parent[k]) # None

Attachment(c, n) == [nqn |-> Held(Parent[n]), ctrl |-> Held(c), ns |-> Held(n)]

\* Every attachment is one of a controller and a namespace of the same subsystem.
AttachmentsHeld ==
  \A a \in fw.att : \E c \in Alive(Controllers), n \in Alive(Namespaces) :
    Parent[c] = Parent[n] /\ a = Attachment(c, n)

\* The controllers that have a record, and those of them the loop of a namespace
\* handler has dealt with.
Siblings(s) == {c \in Controllers : Parent[c] = s /\ store[c] # None}

Reached(f) ==
  CASE f.pc \in {"range", "loop"} -> f.seen
    [] f.pc \in {"get", "call"}   -> f.seen \ {f.cur}
    [] OTHER                      -> Siblings(Root(f.key))

\* A handler in its loop knows the controllers, and what it has dealt with is
\* attached to the namespace it creates, detached from the one it deletes.
Looping(w) ==
  LET f == h[w] IN
  /\ f.pc \notin {"loop", "get", "call"} => f.seen = {}
  /\ f.pc \in {"loop", "get", "call"} =>
       f.todo = Siblings(Root(f.key)) /\ f.seen \subseteq f.todo
  /\ f.pc \in {"get", "call"} => f.cur \in f.seen
  /\ f.pc = "call" => f.ctl = store[f.cur]
  /\ f.op = "CreateNvmeNamespace" /\ PastChange(f) =>
       \A c \in Siblings(Root(f.key)) :
         Attachment(c, f.key) \in fw.att <=> c \in Reached(f)
  /\ f.op = "DeleteNvmeNamespace" /\ f.pc # "parent" =>
       \A c \in Siblings(Root(f.key)) :
         Attachment(c, f.key) \in fw.att => c \notin Reached(f)

\* The steps of each request.
StepsOf(op) ==
  CASE op = "CreateNvmeSubsystem"  -> {"scan", "rpc", "list", "save"}
    [] op = "DeleteNvmeSubsystem"  -> {"rpc", "unlist", "erase"}
    [] op = "CreateNvmeController" -> {"parent", "rpc", "list", "save"}
    [] op = "DeleteNvmeController" -> {"parent", "rpc", "unlist", "erase"}
    [] op = "UpdateNvmeController" -> {"parent", "rpc", "save"}
    [] op = "CreateNvmeNamespace"  ->
         {"parent", "rpc", "range", "loop", "get", "call", "list", "save"}
    [] OTHER                       ->
         {"parent", "range", "loop", "get", "call", "rpc", "unlist", "erase"}

\* A handler has its locals from records that are still the same, and has changed
\* nothing as long as it may be refused.
Going(w) ==
  LET f == h[w] IN
  /\ reply[w] = "none"
  /\ f.pc \in StepsOf(f.op)
  /\ f.op \notin SubsystemOps /\ f.pc # "parent" =>
       f.nqn = store[Root(f.key)] /\ f.nqn # None
  /\ f.op \in DeleteOps => f.obj = store[f.key]
  /\ f.op = "UpdateNvmeController" =>
       /\ f.obj \in {store[f.key], autoCtrlrIDAllocation}
       /\ f.pc = "save" => f.obj = store[f.key]
  /\ f.pc \in {"scan", "parent"} \/ (f.pc = "rpc" /\ f.op # "DeleteNvmeNamespace") =>
       f.changed = FALSE

Ordered ==
  /\ cut = {} /\ OnePerSubsystem
  /\ \A w \in Worker : Running(w) => Going(w) /\ Looping(w)
  /\ ObjectsHeld /\ AttachmentsHeld

OInv == IInv /\ Ordered
---------------------------------------------------------------------------
(* What a name holds.                                                      *)

\* A handler past its change says what its name holds, another leaves it to the
\* record.
LEMMA HeldBy ==
  ASSUME IInv, NEW w \in Worker, Running(w)
  PROVE  /\ Past(w, h[w].key) /\ h[w].op \in CreateOps => Held(h[w].key) = h[w].obj
         /\ Past(w, h[w].key) /\ h[w].op \notin CreateOps => Held(h[w].key) = None
         /\ ~Past(w, h[w].key) => Held(h[w].key) = store[h[w].key]
<1>1. \A u \in Worker : Past(u, h[w].key) => u = w
  BY OnlyPast
<1> HIDE DEF CreateOps
<1> QED
  BY <1>1 DEF Held

\* The same after a step.
LEMMA HeldByNext ==
  ASSUME IInv', NEW w \in Worker, Running(w)'
  PROVE  /\ Past(w, h[w].key)' /\ h'[w].op \in CreateOps => Held(h[w].key)' = h'[w].obj
         /\ Past(w, h[w].key)' /\ h'[w].op \notin CreateOps => Held(h[w].key)' = None
         /\ ~Past(w, h[w].key)' => Held(h[w].key)' = store'[h'[w].key]
<1>1. \A u \in Worker : Past(u, h[w].key)' => u = w
  BY DEF IInv, OneAtATime, Exclusive, Past, PastChange, Running
<1> HIDE DEF CreateOps
<1> QED
  BY <1>1 DEF Held

\* A name that no handler works on holds its record.
LEMMA HeldFree ==
  ASSUME NEW k, \A w \in Worker : Running(w) => h[w].key # k
  PROVE  Held(k) = store[k]
  BY DEF Held, Past, PastChange, Running

\* ... and after a step.
LEMMA HeldFreeNext ==
  ASSUME NEW k, \A w \in Worker : Running(w)' => h'[w].key # k
  PROVE  Held(k)' = store'[k]
  BY DEF Held, Past, PastChange, Running

\* What a name can hold.
LEMMA HeldTyped ==
  ASSUME OInv
  PROVE  /\ \A s \in Subsystems : Held(s) \in Nqns \cup {None}
         /\ \A c \in Controllers : Held(c) \in CtrlrNums \cup {None}
         /\ \A n \in Namespaces : Held(n) \in NsNums \cup {None}
<1>1. /\ \A s \in Subsystems : store[s] \in Nqns \cup {None}
      /\ \A c \in Controllers : store[c] \in CtrlrNums \cup {None}
      /\ \A n \in Namespaces : store[n] \in NsNums \cup {None}
  BY DEF OInv, IInv, TypeOK, StoreOK
<1>2. ASSUME NEW w \in Worker, Past(w, h[w].key), h[w].op \in CreateOps
      PROVE  /\ h[w].key \in Subsystems => h[w].obj \in Nqns
             /\ h[w].key \in Controllers => h[w].obj \in CtrlrNums
             /\ h[w].key \in Namespaces => h[w].obj \in NsNums
  <2>1. FrameOK(h[w]) /\ h[w] # IdleFrame /\ h[w].pc \in StepsOf(h[w].op)
    BY <1>2 DEF OInv, Ordered, Going, Running, IInv, TypeOK, HandlersOK, IdleFrame, Past,
       PastChange
  <2>2. h[w].op = "CreateNvmeController" => h[w].pc \in {"list", "save"}
    BY <1>2, <2>1 DEF StepsOf, Past, PastChange
  <2> QED
    BY <1>2, <2>1, <2>2, FrontendAssumption
       DEF FrontendAssumption, FrameOK, Children
<1>3. ASSUME NEW k, NEW w \in Worker, Past(w, k)
      PROVE  /\ k \in Subsystems => Held(k) \in Nqns \cup {None}
             /\ k \in Controllers => Held(k) \in CtrlrNums \cup {None}
             /\ k \in Namespaces => Held(k) \in NsNums \cup {None}
  <2>1. Running(w) /\ h[w].key = k
    BY <1>3 DEF Past, PastChange, Running
  <2> QED
    BY <1>2, <1>3, <2>1, HeldBy DEF OInv
<1> QED
  BY <1>1, <1>3 DEF Held
\* Where a handler works on k, the other names of the subsystem hold their records,
\* and k holds its own until the handler changes the application.
LEMMA Holdings ==
  ASSUME OInv, NEW w \in Worker, Running(w), NEW k, k = h[w].key
  PROVE  /\ k \in Keys /\ Root(k) \in Subsystems /\ Root(k) \in Keys
         /\ \A j \in Keys : Root(j) = Root(k) /\ j # k => Held(j) = store[j]
         /\ ~PastChange(h[w]) \/ h[w].op = "UpdateNvmeController" => Held(k) = store[k]
         /\ store[k] = None <=> h[w].op \in CreateOps
         /\ h[w].op \notin SubsystemOps => k \in Children /\ Root(k) = Parent[k]
         /\ h[w].op \notin SubsystemOps /\ h[w].pc # "parent" =>
              /\ h[w].nqn = Held(Root(k)) /\ h[w].nqn \in fw.subs
              /\ h[w].nqn = store[Root(k)] /\ h[w].nqn # None
<1>1. k \in Keys /\ Root(k) \in Subsystems /\ Root(k) \in Keys /\ Root(Root(k)) = Root(k)
  BY RunningOn, Names DEF OInv
<1>2. ASSUME NEW j \in Keys, Root(j) = Root(k), j # k
      PROVE  Held(j) = store[j]
  BY <1>2, HeldFree DEF OInv, Ordered, OnePerSubsystem
<1>3. ~PastChange(h[w]) \/ h[w].op = "UpdateNvmeController" => Held(k) = store[k]
  BY HeldBy DEF OInv, Past
<1>4. store[k] = None <=> h[w].op \in CreateOps
  BY DEF OInv, IInv, OneAtATime, ReadStaysTrue
<1>5. ASSUME h[w].op \notin SubsystemOps
      PROVE  k \in Children /\ Root(k) = Parent[k] /\ Root(k) # k
  BY <1>1, <1>5, RunningOn, Names DEF OInv, Children
<1>6. ASSUME h[w].op \notin SubsystemOps, h[w].pc # "parent"
      PROVE  /\ h[w].nqn = Held(Root(k)) /\ h[w].nqn \in fw.subs
             /\ h[w].nqn = store[Root(k)] /\ h[w].nqn # None
  <2>1. h[w].nqn = store[Root(k)] /\ h[w].nqn # None
    BY <1>6 DEF OInv, Ordered, Going
  <2>2. Held(Root(k)) = store[Root(k)]
    BY <1>1, <1>2, <1>5, <1>6
  <2> QED
    BY <1>1, <2>1, <2>2 DEF OInv, Ordered, ObjectsHeld, Alive
<1> QED
  BY <1>1, <1>2, <1>3, <1>4, <1>5, <1>6

---------------------------------------------------------------------------
(* A step of one worker on one name.                                       *)

\* Worker w works on k, and its step leaves the frames and answers of the others
\* and the other records alone.
WorksOn(w, k) ==
  /\ h \in [Worker -> Frames] /\ h' \in [Worker -> Frames]
  /\ h[w].pc = "idle" \/ h[w].key = k
  /\ h'[w].pc = "idle" \/ h'[w].key = k
  /\ \A v \in Worker : v # w => h'[v] = h[v] /\ reply'[v] = reply[v]
  /\ \A j \in Keys : j # k => store'[j] = store[j]

\* No other handler works on the subsystem of k.
AloneOn(w, k) ==
  \A v \in Worker : v # w /\ Running(v) => Root(h[v].key) # Root(k)

\* The other names hold what they held.
LEMMA OthersHold ==
  ASSUME IInv, IInv', NEW w \in Worker, NEW k \in Keys, WorksOn(w, k)
  PROVE  \A j \in Keys : j # k => Held(j)' = Held(j)
<1> SUFFICES ASSUME NEW j \in Keys, j # k
             PROVE  Held(j)' = Held(j)
  OBVIOUS
<1>1. \A u \in Worker : /\ Running(u)' /\ h'[u].key = j <=> Running(u) /\ h[u].key = j
                        /\ Running(u) /\ h[u].key = j => h'[u] = h[u]
  BY DEF WorksOn, Running
<1>2. store'[j] = store[j]
  BY DEF WorksOn
<1>3. ASSUME NEW u \in Worker, Running(u), h[u].key = j
      PROVE  Held(j)' = Held(j)
  <2>1. h'[u] = h[u] /\ Running(u)'
    BY <1>1, <1>3
  <2>2. Past(u, j)' <=> Past(u, j)
    BY <2>1 DEF Past, PastChange
  <2> HIDE DEF CreateOps
  <2> QED
    BY <1>2, <1>3, <2>1, <2>2, HeldBy, HeldByNext
<1> QED
  BY <1>1, <1>2, <1>3, HeldFree, HeldFreeNext

\* The attachments of other subsystems are as they were.
KeepsOtherAtt(k) ==
  \A a : (Held(Root(k)) # None => a.nqn # Held(Root(k))) => (a \in fw'.att <=> a \in fw.att)

\* A step of one subsystem's request keeps the attachments of the others.
LEMMA OthersAttached ==
  ASSUME OInv, IInv', NEW w \in Worker, NEW k \in Keys, WorksOn(w, k), KeepsOtherAtt(k),
         NEW c \in Controllers, NEW n \in Namespaces, Parent[c] = Parent[n],
         Parent[n] # Root(k)
  PROVE  (Attachment(c, n) \in fw.att)' <=> Attachment(c, n) \in fw.att
<1>1. c # k /\ n # k /\ Parent[n] # k /\ c \in Keys /\ n \in Keys /\ Parent[n] \in Subsystems
      /\ Parent[n] \in Keys /\ Root(k) \in Subsystems /\ n \in Children
  BY Names DEF Children
<1>2. Attachment(c, n)' = Attachment(c, n)
  BY <1>1, OthersHold DEF Attachment, OInv
<1>3. CASE Held(n) # None
  <2>1. Held(Root(k)) # None => Attachment(c, n).nqn # Held(Root(k))
    BY <1>1, <1>3 DEF Attachment, OInv, Ordered, ObjectsHeld, Alive
  <2> QED
    BY <1>2, <2>1 DEF KeepsOtherAtt
<1>4. CASE Held(n) = None
  <2>1. Attachment(c, n).ns = None
    BY <1>4 DEF Attachment
  <2>2. /\ \A a \in fw.att : a.ns \in NsNums
        /\ \A a \in fw'.att : a.ns \in NsNums
    BY DEF OInv, IInv, TypeOK, FwStates
  <2>3. None \notin NsNums
    BY NumsAreInts, FrontendAssumption DEF FrontendAssumption
  <2> QED
    BY <1>2, <2>1, <2>2, <2>3
<1> QED
  BY <1>3, <1>4

\* The handlers on other subsystems go on where they are.
LEMMA OthersGoOn ==
  ASSUME OInv, IInv', NEW w \in Worker, NEW k \in Keys, WorksOn(w, k), AloneOn(w, k),
         KeepsOtherAtt(k), NEW v \in Worker, v # w, Running(v)'
  PROVE  (Going(v) /\ Looping(v))'
<1>1. h'[v] = h[v] /\ reply'[v] = reply[v] /\ Running(v)
  BY DEF WorksOn, Running
<1> DEFINE f == h[v]
           j == f.key
           s == Root(j)
<1>2. j \in Keys /\ s # Root(k) /\ s # k /\ j # k /\ s \in Subsystems /\ s \in Keys
  BY <1>1, RunningOn, Names DEF AloneOn, OInv
<1>3. store'[s] = store[s] /\ store'[j] = store[j]
  BY <1>2 DEF WorksOn
<1>4. Going(v)'
  BY <1>1, <1>3 DEF Going, OInv, Ordered
<1>5. \A c \in Controllers : Parent[c] = s => store'[c] = store[c]
  BY <1>2, Names DEF WorksOn, Children
<1>6. Siblings(s)' = Siblings(s)
  BY <1>1, <1>5 DEF Siblings
<1>7. Reached(f)' = Reached(f)
  BY <1>1, <1>6 DEF Reached
<1>8. ASSUME NEW c \in Siblings(s), f.op \in NamespaceOps
      PROVE  (Attachment(c, f.key) \in fw.att)' <=> Attachment(c, f.key) \in fw.att
  <2>1. j \in Namespaces /\ s = Parent[j]
    BY <1>1, <1>8, RunningOn, Names DEF OInv, Children
  <2> QED
    BY <1>1, <1>2, <1>8, <2>1, OthersAttached DEF Siblings
<1>9. Looping(v)
  BY <1>1 DEF OInv, Ordered
<1>10. PastChange(f)' <=> PastChange(f)
  BY <1>1 DEF PastChange
<1>11. store'[f.cur] = store[f.cur] \/ f.pc # "call"
  <2> SUFFICES ASSUME f.pc = "call"
               PROVE  store'[f.cur] = store[f.cur]
    OBVIOUS
  <2>1. f.cur \in Controllers /\ Parent[f.cur] = s
    BY <1>9 DEF Looping, Siblings
  <2> QED
    BY <1>5, <2>1
<1>12. Looping(v)'
  BY <1>1, <1>6, <1>7, <1>8, <1>9, <1>10, <1>11 DEF Looping
<1> QED
  BY <1>4, <1>12
---------------------------------------------------------------------------
(* What a step of a handler does where nothing fails.                      *)

\* The frame of w becomes f, or its request is answered.
Proceeds(w, f) ==
  h' = [h EXCEPT ![w] = f] /\ UNCHANGED <<reply, cut>>

Finishes(w, code) ==
  /\ h' = [h EXCEPT ![w] = IdleFrame]
  /\ reply' = [reply EXCEPT ![w] = code]
  /\ UNCHANGED cut

\* Steps that leave records and application alone.
Scanned(w) ==
  /\ At(w, "CreateNvmeSubsystem", "scan")
  /\ Proceeds(w, [h[w] EXCEPT !.pc = "rpc"])
  /\ UNCHANGED <<store, fw>>

Fetched(w) ==
  LET q    == store[Root(h[w].key)]
      next == IF h[w].op = "DeleteNvmeNamespace" THEN "range" ELSE "rpc"
  IN  /\ h[w].pc = "parent" /\ q # None
      /\ Proceeds(w, [h[w] EXCEPT !.nqn = q, !.pc = next])
      /\ UNCHANGED <<store, fw>>

Orphaned(w) ==
  /\ h[w].pc = "parent" /\ store[Root(h[w].key)] = None
  /\ Finishes(w, "NotFound")
  /\ UNCHANGED <<store, fw>>

Listed(w) ==
  /\ h[w].pc \in {"list", "unlist"}
  /\ Proceeds(w, [h[w] EXCEPT !.pc = IF h[w].pc = "list" THEN "save" ELSE "erase"])
  /\ UNCHANGED <<store, fw>>

Ranged(w) ==
  /\ h[w].op \in NamespaceOps /\ h[w].pc = "range"
  /\ Proceeds(w, [h[w] EXCEPT !.todo = Siblings(Root(h[w].key)), !.pc = "loop"])
  /\ UNCHANGED <<store, fw>>

Picked(w) ==
  /\ h[w].op \in NamespaceOps /\ h[w].pc = "loop"
  /\ \E c \in Siblings(Root(h[w].key)) \ h[w].seen :
       Proceeds(w, [h[w] EXCEPT !.seen = h[w].seen \cup {c}, !.cur = c, !.pc = "get"])
  /\ UNCHANGED <<store, fw>>

LoopLeft(w) ==
  LET next == IF h[w].op = "DeleteNvmeNamespace" THEN "rpc" ELSE "list" IN
  /\ h[w].op \in NamespaceOps /\ h[w].pc = "loop"
  /\ Siblings(Root(h[w].key)) \subseteq h[w].seen
  /\ Proceeds(w, [h[w] EXCEPT !.pc = next, !.cur = None, !.ctl = None,
                              !.todo = {}, !.seen = {}])
  /\ UNCHANGED <<store, fw>>

GotId(w) ==
  /\ h[w].op \in NamespaceOps /\ h[w].pc = "get"
  /\ Proceeds(w, [h[w] EXCEPT !.ctl = store[h[w].cur], !.pc = "call"])
  /\ UNCHANGED <<store, fw>>

\* The answer of a call is good: w goes on with obj.
Takes(w, next, obj) ==
  /\ \E b \in BOOLEAN :
       Proceeds(w, [h[w] EXCEPT !.pc = next, !.obj = obj, !.changed = b])
  /\ UNCHANGED store

MadeSubsystem(w) ==
  /\ At(w, "CreateNvmeSubsystem", "rpc") /\ h[w].obj \notin fw.subs
  /\ fw'.subs = fw.subs \cup {h[w].obj}
  /\ fw'.ctrls = fw.ctrls /\ fw'.nss = fw.nss /\ fw'.att = fw.att
  /\ Takes(w, "list", h[w].obj)

RemovedSubsystem(w) ==
  /\ At(w, "DeleteNvmeSubsystem", "rpc") /\ \A o \in Objs : o.nqn # h[w].obj
  /\ fw'.subs = fw.subs \ {h[w].obj}
  /\ fw'.ctrls = fw.ctrls /\ fw'.nss = fw.nss /\ fw'.att = fw.att
  /\ Takes(w, "unlist", h[w].obj)

MadeController(w) ==
  /\ At(w, "CreateNvmeController", "rpc")
  /\ \E n : /\ Adds(h[w].key, h[w].nqn, n) /\ h[w].obj \in {n, autoCtrlrIDAllocation}
            /\ Takes(w, "list", n)
  /\ fw'.att = fw.att

RemovedController(w) ==
  /\ At(w, "DeleteNvmeController", "rpc")
  /\ Removes(h[w].key, h[w].nqn, h[w].obj)
  /\ fw'.att = {a \in fw.att : ~(a.nqn = h[w].nqn /\ a.ctrl = h[w].obj)}
  /\ Takes(w, "unlist", h[w].obj)

UpdatedController(w) ==
  /\ At(w, "UpdateNvmeController", "rpc")
  /\ h[w].obj \in CtrlrIds(fw, h[w].nqn)
  /\ UNCHANGED fw
  /\ Takes(w, "save", h[w].obj)

MadeNamespace(w) ==
  /\ At(w, "CreateNvmeNamespace", "rpc")
  /\ Adds(h[w].key, h[w].nqn, h[w].obj)
  /\ fw'.att = fw.att
  /\ Takes(w, "range", h[w].obj)

RemovedNamespace(w) ==
  /\ At(w, "DeleteNvmeNamespace", "rpc")
  /\ Removes(h[w].key, h[w].nqn, h[w].obj)
  /\ \A a \in fw.att : ~(a.nqn = h[w].nqn /\ a.ns = h[w].obj)
  /\ fw'.att = fw.att
  /\ Takes(w, "unlist", h[w].obj)

AttachmentOf(w) == [nqn |-> h[w].nqn, ctrl |-> h[w].ctl, ns |-> h[w].obj]

Attached(w) ==
  /\ At(w, "CreateNvmeNamespace", "call")
  /\ SameObjects /\ fw'.att = fw.att \cup {AttachmentOf(w)}
  /\ Takes(w, "loop", h[w].obj)

Detached(w) ==
  /\ At(w, "DeleteNvmeNamespace", "call")
  /\ SameObjects /\ fw'.att = fw.att \ {AttachmentOf(w)}
  /\ Takes(w, "loop", h[w].obj)

\* The application refuses what cannot be done.
Hopeless(f) ==
  \/ f.op = "CreateNvmeSubsystem" /\ f.obj \in fw.subs
  \/ f.op = "DeleteNvmeSubsystem" /\ \E o \in Objs : o.nqn = f.obj
  \/ /\ f.op = "CreateNvmeController"
     /\ \A i \in CtrlrNums : f.obj \in {i, autoCtrlrIDAllocation} =>
          \E p \in fw.ctrls : p.nqn = f.nqn /\ p.id = i
  \/ f.op = "CreateNvmeNamespace" /\ \E p \in fw.nss : p.nqn = f.nqn /\ p.id = f.obj
  \/ f.op = "UpdateNvmeController" /\ f.obj \notin CtrlrIds(fw, f.nqn)

Rejected(w) ==
  /\ h[w].pc = "rpc" /\ Hopeless(h[w])
  /\ Finishes(w, "Failed")
  /\ UNCHANGED <<store, fw>>

\* The last write.
Written(w) ==
  /\ h[w].pc \in {"save", "erase"}
  /\ store' = [store EXCEPT ![h[w].key] = IF h[w].op \in DeleteOps THEN None ELSE h[w].obj]
  /\ Finishes(w, "OK")
  /\ UNCHANGED fw
---------------------------------------------------------------------------
(* The handlers take those steps and no others.                            *)

\* Nothing is in the way of a call.
LEMMA PlainCall ==
  ASSUME Faultless, NEW S PROVE Call(S) = S
  BY DEF Faultless, Call

\* A handler goes on from a good answer, and returns from a refusal.
LEMMA Taking ==
  ASSUME OInv, NEW w \in Worker, NEW a, NEW next, NEW obj, TakeAnswer(w, a, next, obj),
         a.ok \in BOOLEAN
  PROVE  /\ a.ok = TRUE => Takes(w, next, obj)
         /\ a.ok = FALSE /\ a.fw = fw /\ h[w].changed = FALSE => Finishes(w, "Failed")
         /\ UNCHANGED store /\ fw' = a.fw
<1>1. h \in [Worker -> Frames]
  BY DEF OInv, IInv, TypeOK, HandlersOK
<1>2. ASSUME a.ok = TRUE
      PROVE  Takes(w, next, obj)
  <2> DEFINE b == h[w].changed \/ a.fw # fw
  <2>1. b \in BOOLEAN /\ h' = [h EXCEPT ![w].pc = next, ![w].obj = obj, ![w].changed = b]
    BY <1>2 DEF TakeAnswer
  <2> HIDE DEF b
  <2>2. h' = [h EXCEPT ![w] = [h[w] EXCEPT !.pc = next, !.obj = obj, !.changed = b]]
    BY <1>1, <2>1 DEF Frames
  <2> QED
    BY <1>2, <2>1, <2>2 DEF Takes, Proceeds, TakeAnswer
<1>3. ASSUME a.ok = FALSE, a.fw = fw, h[w].changed = FALSE
      PROVE  Finishes(w, "Failed")
  BY <1>3 DEF TakeAnswer, ReturnAfter, Finishes
<1> QED
  BY <1>2, <1>3 DEF TakeAnswer

\* Where nobody works on a controller, ListHelper names the controllers that have
\* a record.
LEMMA ListedAreSiblings ==
  ASSUME OInv, ~Restarts, NEW w \in Worker, Running(w), h[w].op \in NamespaceOps
  PROVE  ListedControllers(Root(h[w].key)) = Siblings(Root(h[w].key))
<1>1. ASSUME NEW c \in Controllers, Parent[c] = Root(h[w].key)
      PROVE  c \in ListHelper <=> store[c] # None
  <2>1. c \in Keys /\ Root(c) = Root(h[w].key)
    BY <1>1, Names DEF Children
  <2>2. h[w].key # c
    BY <1>1, RunningOn, FrontendAssumption DEF OInv, FrontendAssumption
  <2>3. \A v \in Worker : Running(v) => h[v].key # c
    BY <2>1, <2>2 DEF OInv, Ordered, OnePerSubsystem
  <2>4. cut = {} /\ ListedOrStaged
    BY DEF OInv, Ordered, IInv, OneAtATime
  <2> QED
    BY <2>1, <2>3, <2>4 DEF ListedOrStaged, Running
<1> QED
  BY <1>1 DEF ListedControllers, Siblings

\* The handler reads the record of its parent.
LEMMA FetchSteps ==
  ASSUME OInv, Faultless, NEW w \in Worker, h[w].pc = "parent", h[w].key \in Children,
         NEW next, next = IF h[w].op = "DeleteNvmeNamespace" THEN "range" ELSE "rpc",
         FetchSubsystem(w, next)
  PROVE  Fetched(w) \/ Orphaned(w)
<1>1. h \in [Worker -> Frames] /\ Root(h[w].key) = Parent[h[w].key]
  BY Names DEF OInv, IInv, TypeOK, HandlersOK
<1>2. Running(w) /\ h[w].changed = FALSE
  BY DEF OInv, Ordered, Going, Running
<1> DEFINE q == store[Parent[h[w].key]]
<1>3. CASE q # None /\ h' = [h EXCEPT ![w].nqn = q, ![w].pc = next] /\ UNCHANGED <<reply, cut>>
  <2>1. h' = [h EXCEPT ![w] = [h[w] EXCEPT !.nqn = q, !.pc = next]]
    BY <1>1, <1>3 DEF Frames
  <2> QED
    BY <1>1, <1>3, <2>1 DEF Fetched, Proceeds, FetchSubsystem
<1>4. CASE q = None /\ Return(w, "NotFound")
  BY <1>1, <1>2, <1>4 DEF Orphaned, Finishes, Return, ReturnAfter, FetchSubsystem
<1> QED
  BY <1>3, <1>4 DEF FetchSubsystem, Faultless

\* The handler goes on, or writes.
LEMMA PlainSteps ==
  ASSUME OInv, Faultless, NEW w \in Worker
  PROVE  /\ ScanNqns(w) => Scanned(w)
         /\ h[w].pc = "list" /\ ListName(w) => Listed(w)
         /\ h[w].pc = "unlist" /\ UnlistName(w) => Listed(w)
         /\ \A value : h[w].pc \in {"save", "erase"} /\ WriteStore(w, value) /\
              value = (IF h[w].op \in DeleteOps THEN None ELSE h[w].obj) => Written(w)
<1>1. h \in [Worker -> Frames]
  BY DEF OInv, IInv, TypeOK, HandlersOK
<1>2. ASSUME NEW next, Goto(w, next)
      PROVE  Proceeds(w, [h[w] EXCEPT !.pc = next])
  BY <1>1, <1>2 DEF Goto, Proceeds, Frames
<1>3. ASSUME ScanNqns(w) PROVE Scanned(w)
  <2>1. NamePrefix # ScanPrefix
    BY DEF NamePrefix, ScanPrefix
  <2> QED
    BY <1>2, <1>3, <2>1 DEF ScanNqns, Scanned
<1>4. ASSUME \/ h[w].pc = "list" /\ ListName(w)
             \/ h[w].pc = "unlist" /\ UnlistName(w)
      PROVE  Listed(w)
  BY <1>2, <1>4 DEF ListName, UnlistName, Listed
<1>5. ASSUME NEW value, h[w].pc \in {"save", "erase"}, WriteStore(w, value),
             value = (IF h[w].op \in DeleteOps THEN None ELSE h[w].obj)
      PROVE  Written(w)
  BY <1>5 DEF WriteStore, Written, Finishes, Return, ReturnAfter, Faultless
<1> QED
  BY <1>3, <1>4, <1>5

\* The loop of a namespace handler.
LEMMA LoopSteps ==
  ASSUME OInv, Faultless, NEW w \in Worker,
         CreateNvmeNamespaceLoop(w) \/ DeleteNvmeNamespaceLoop(w)
  PROVE  Ranged(w) \/ Picked(w) \/ LoopLeft(w) \/ GotId(w)
<1>1. /\ h \in [Worker -> Frames] /\ h[w].op \in NamespaceOps /\ Running(w)
      /\ h[w].pc \in {"range", "loop", "get"}
  BY DEF OInv, IInv, TypeOK, HandlersOK, CreateNvmeNamespaceLoop, DeleteNvmeNamespaceLoop, At,
     Running
<1> DEFINE s == Root(h[w].key)
<1>2. ListedControllers(s) = Siblings(s) /\ Looping(w)
  BY <1>1, ListedAreSiblings DEF Faultless, OInv, Ordered
<1>3. CASE h[w].pc = "range" /\ RangeControllers(w)
  BY <1>1, <1>2, <1>3 DEF RangeControllers, Ranged, Proceeds, Frames
<1>4. ASSUME NEW next, h[w].pc = "loop", PickController(w, next),
             next = IF h[w].op = "DeleteNvmeNamespace" THEN "rpc" ELSE "list"
      PROVE  Picked(w) \/ LoopLeft(w)
  <2>1. UNCHANGED <<store, fw, reply, cut>>
    BY <1>4 DEF PickController
  <2>2. h[w].todo = Siblings(s)
    BY <1>2, <1>4 DEF Looping
  <2>3. ASSUME NEW c \in Siblings(s) \ h[w].seen,
               h' = [h EXCEPT ![w].seen = @ \cup {c}, ![w].cur = c, ![w].pc = "get"]
        PROVE  Picked(w)
    <3>1. h' = [h EXCEPT ![w] = [h[w] EXCEPT !.seen = h[w].seen \cup {c}, !.cur = c,
                                             !.pc = "get"]]
      BY <1>1, <2>3 DEF Frames
    <3> QED
      BY <1>1, <1>4, <2>1, <3>1 DEF Picked, Proceeds
  <2>4. ASSUME (Siblings(s) \ h[w].seen) \cap h[w].todo = {},
               h' = [h EXCEPT ![w].pc = next, ![w].cur = None, ![w].ctl = None,
                              ![w].todo = {}, ![w].seen = {}]
        PROVE  LoopLeft(w)
    <3>1. h' = [h EXCEPT ![w] = [h[w] EXCEPT !.pc = next, !.cur = None, !.ctl = None,
                                             !.todo = {}, !.seen = {}]]
      BY <1>1, <2>4 DEF Frames
    <3>2. Siblings(s) \subseteq h[w].seen
      BY <2>2, <2>4
    <3> QED
      BY <1>1, <1>4, <2>1, <3>1, <3>2 DEF LoopLeft, Proceeds
  <2> QED
    BY <1>2, <1>4, <2>3, <2>4 DEF PickController
<1>5. CASE h[w].pc = "get" /\ GetController(w)
  <2>1. store[h[w].cur] # None
    BY <1>2, <1>5 DEF Looping, Siblings
  <2>2. h' = [h EXCEPT ![w] = [h[w] EXCEPT !.ctl = store[h[w].cur], !.pc = "call"]]
    BY <1>1, <1>5, <2>1 DEF GetController, Faultless, Frames
  <2> QED
    BY <1>1, <1>5, <2>1, <2>2 DEF GetController, Faultless, GotId, Proceeds
<1> QED
  BY <1>3, <1>4, <1>5 DEF CreateNvmeNamespaceLoop, DeleteNvmeNamespaceLoop, At

\* The calls for a subsystem.
LEMMA SubsystemCallSteps ==
  ASSUME OInv, Faultless, NEW w \in Worker,
         CreateNvmeSubsystemRpc(w) \/ DeleteNvmeSubsystemRpc(w)
  PROVE  MadeSubsystem(w) \/ RemovedSubsystem(w) \/ Rejected(w)
<1>1. /\ Running(w) /\ h[w].pc = "rpc" /\ h[w].changed = FALSE /\ fw \in Fw
      /\ \A q : Done(fw, q).ok = TRUE
  BY DEF CreateNvmeSubsystemRpc, DeleteNvmeSubsystemRpc, At, Running, OInv, Ordered, Going,
     IInv, TypeOK, Fw, Done
<1>2. Refused(fw).ok = FALSE /\ Refused(fw).fw = fw
  BY DEF Refused
<1> DEFINE q == h[w].obj
<1>3. CASE CreateNvmeSubsystemRpc(w)
  <2> DEFINE d == Done([fw EXCEPT !.subs = @ \cup {q}], 0)
  <2>1. PICK a \in CreateSubsystem(fw, q) : TakeAnswer(w, a, "list", q)
    BY <1>3, PlainCall DEF CreateNvmeSubsystemRpc
  <2>2. /\ d.ok = TRUE /\ d.fw.subs = fw.subs \cup {q} /\ d.fw.ctrls = fw.ctrls
        /\ d.fw.nss = fw.nss /\ d.fw.att = fw.att
    BY <1>1 DEF Done, Fw, FwStates
  <2>3. (q \in fw.subs /\ a = Refused(fw)) \/ (q \notin fw.subs /\ a = d)
    BY DEF CreateSubsystem
  <2> HIDE DEF d
  <2>4. a.ok \in BOOLEAN
    BY <1>2, <2>2, <2>3
  <2>5. CASE q \in fw.subs /\ a = Refused(fw)
    <3>1. Finishes(w, "Failed") /\ UNCHANGED store /\ fw' = fw
      BY <1>1, <1>2, <2>1, <2>4, <2>5, Taking
    <3> QED
      BY <1>1, <1>3, <2>5, <3>1 DEF CreateNvmeSubsystemRpc, At, Rejected, Hopeless
  <2>6. CASE q \notin fw.subs /\ a = d
    <3>1. Takes(w, "list", q) /\ fw' = d.fw
      BY <2>1, <2>2, <2>4, <2>6, Taking
    <3> QED
      BY <1>3, <2>2, <2>6, <3>1 DEF CreateNvmeSubsystemRpc, MadeSubsystem
  <2> QED
    BY <2>3, <2>5, <2>6
<1>4. CASE DeleteNvmeSubsystemRpc(w)
  <2> DEFINE d == Done([fw EXCEPT !.subs = @ \ {q}], 0)
  <2>1. PICK a \in DeleteSubsystem(fw, q) : TakeAnswer(w, a, "unlist", q)
    BY <1>4, PlainCall DEF DeleteNvmeSubsystemRpc
  <2>2. /\ d.ok = TRUE /\ d.fw.subs = fw.subs \ {q} /\ d.fw.ctrls = fw.ctrls
        /\ d.fw.nss = fw.nss /\ d.fw.att = fw.att
    BY <1>1 DEF Done, Fw, FwStates
  <2>3. q \in fw.subs
    <3>1. h[w].op = "DeleteNvmeSubsystem" /\ ~PastChange(h[w])
      BY <1>4 DEF DeleteNvmeSubsystemRpc, At, PastChange
    <3>2. q = store[h[w].key] /\ h[w].key \in Subsystems
      BY <1>1, <3>1, RunningOn DEF OInv, Ordered, Going
    <3> QED
      BY <1>1, <3>1, <3>2, Holdings DEF OInv, Ordered, ObjectsHeld, Alive
  <2>4. \/ (\E o \in Objs : o.nqn = q) /\ a = Refused(fw)
        \/ (\A o \in Objs : o.nqn # q) /\ a = d
    BY <2>3 DEF DeleteSubsystem, CtrlrIds, NsIds, Objs
  <2> HIDE DEF d
  <2>5. a.ok \in BOOLEAN
    BY <1>2, <2>2, <2>4
  <2>6. CASE (\E o \in Objs : o.nqn = q) /\ a = Refused(fw)
    <3>1. Finishes(w, "Failed") /\ UNCHANGED store /\ fw' = fw
      BY <1>1, <1>2, <2>1, <2>5, <2>6, Taking
    <3> QED
      BY <1>1, <1>4, <2>6, <3>1 DEF DeleteNvmeSubsystemRpc, At, Rejected, Hopeless
  <2>7. CASE (\A o \in Objs : o.nqn # q) /\ a = d
    <3>1. Takes(w, "unlist", q) /\ fw' = d.fw
      BY <2>1, <2>2, <2>5, <2>7, Taking
    <3> QED
      BY <1>4, <2>2, <2>7, <3>1 DEF DeleteNvmeSubsystemRpc, RemovedSubsystem
  <2> QED
    BY <2>4, <2>6, <2>7
<1> QED
  BY <1>3, <1>4

\* The object of a controller or namespace that holds one is in the application.
LEMMA ObjectThere ==
  ASSUME OInv, NEW k, Held(k) # None
  PROVE  /\ k \in Controllers => Object(k) \in fw.ctrls
         /\ k \in Namespaces => Object(k) \in fw.nss
         /\ k \in Subsystems => Held(k) \in fw.subs
  BY DEF OInv, Ordered, ObjectsHeld, Alive

\* The calls for a controller.
LEMMA ControllerCallSteps ==
  ASSUME OInv, Faultless, IdsAgree, NEW w \in Worker,
         \/ CreateNvmeControllerRpc(w) \/ DeleteNvmeControllerRpc(w)
         \/ UpdateNvmeControllerRpc(w)
  PROVE  MadeController(w) \/ RemovedController(w) \/ UpdatedController(w) \/ Rejected(w)
<1>1. /\ Running(w) /\ h[w].pc = "rpc" /\ h[w].changed = FALSE /\ fw \in Fw
      /\ h[w].op \in ControllerOps
  BY DEF CreateNvmeControllerRpc, DeleteNvmeControllerRpc, UpdateNvmeControllerRpc, At,
     Running, OInv, Ordered, Going, IInv, TypeOK, Fw
<1>2. Refused(fw).ok = FALSE /\ Refused(fw).fw = fw
  BY DEF Refused
<1> DEFINE q == h[w].nqn
           i == h[w].obj
           k == h[w].key
<1>3. q \in fw.subs /\ q = Held(Root(k)) /\ k \in Controllers
  BY <1>1, Holdings, RunningOn DEF OInv
<1>4. CASE CreateNvmeControllerRpc(w)
  <2> DEFINE free == CtrlrNums \ CtrlrIds(fw, q)
             ids == IF i = autoCtrlrIDAllocation THEN free ELSE free \cap {i}
             d(n) == Done([fw EXCEPT !.ctrls =
                             @ \cup {[nqn |-> q, id |-> n, owner |-> k]}], n)
  <2>1. PICK a \in CreateCtrlr(fw, q, i, k) : TakeAnswer(w, a, "list", a.val)
    BY <1>4, PlainCall DEF CreateNvmeControllerRpc
  <2>2. \A n : /\ d(n).ok = TRUE /\ d(n).val = n /\ d(n).fw.subs = fw.subs
               /\ d(n).fw.ctrls = fw.ctrls \cup {[nqn |-> q, id |-> n, owner |-> k]}
               /\ d(n).fw.nss = fw.nss /\ d(n).fw.att = fw.att
    BY <1>1 DEF Done, Fw, FwStates
  <2>3. (ids = {} /\ a = Refused(fw)) \/ (\E n \in ids : a = d(n))
    BY <1>3 DEF CreateCtrlr
  <2> HIDE DEF d
  <2>4. CASE ids = {} /\ a = Refused(fw)
    <3>1. \A n \in CtrlrNums : i \in {n, autoCtrlrIDAllocation} =>
            \E p \in fw.ctrls : p.nqn = q /\ p.id = n
      BY <2>4 DEF CtrlrIds
    <3>2. Finishes(w, "Failed") /\ UNCHANGED store /\ fw' = fw
      BY <1>1, <1>2, <2>1, <2>4, Taking
    <3> QED
      BY <1>1, <1>4, <3>1, <3>2 DEF CreateNvmeControllerRpc, At, Rejected, Hopeless
  <2>5. ASSUME NEW n \in ids, a = d(n) PROVE MadeController(w)
    <3>1. Takes(w, "list", n) /\ fw' = d(n).fw
      BY <2>1, <2>2, <2>5, Taking
    <3>2. /\ n \in CtrlrNums /\ i \in {n, autoCtrlrIDAllocation}
          /\ \A p \in fw.ctrls : ~(p.nqn = q /\ p.id = n)
      BY DEF CtrlrIds
    <3>3. Adds(k, q, n)
      BY <1>3, <2>2, <3>1, <3>2 DEF Adds
    <3> QED
      BY <1>4, <2>2, <3>1, <3>2, <3>3 DEF MadeController, CreateNvmeControllerRpc
  <2> QED
    BY <2>3, <2>4, <2>5
<1>5. CASE DeleteNvmeControllerRpc(w)
  <2> DEFINE d == Done([fw EXCEPT !.ctrls = {c \in @ : ~(c.nqn = q /\ c.id = i)},
                                  !.att   = {a \in @ : ~(a.nqn = q /\ a.ctrl = i)}], 0)
  <2>1. PICK a \in RemoveCtrlr(fw, q, i) : TakeAnswer(w, a, "unlist", i)
    BY <1>5, PlainCall DEF DeleteNvmeControllerRpc
  <2>2. /\ d.ok = TRUE /\ d.fw.subs = fw.subs /\ d.fw.nss = fw.nss
        /\ d.fw.ctrls = {c \in fw.ctrls : ~(c.nqn = q /\ c.id = i)}
        /\ d.fw.att = {b \in fw.att : ~(b.nqn = q /\ b.ctrl = i)}
    BY <1>1 DEF Done, Fw, FwStates
  <2>3. \E p \in fw.ctrls : p.nqn = q /\ p.id = i
    <3>1. h[w].op = "DeleteNvmeController" /\ ~PastChange(h[w])
      BY <1>5 DEF DeleteNvmeControllerRpc, At, PastChange
    <3>2. i = store[k]
      BY <1>1, <3>1 DEF OInv, Ordered, Going
    <3>3. Held(k) = i /\ Held(k) # None /\ Root(k) = Parent[k]
      BY <1>1, <3>1, <3>2, Holdings
    <3>4. Object(k) \in fw.ctrls
      BY <1>3, <3>3, ObjectThere
    <3>5. Object(k).nqn = q /\ Object(k).id = i
      BY <1>3, <3>3 DEF Object
    <3> QED
      BY <3>4, <3>5
  <2>4. a = d
    BY <2>3 DEF RemoveCtrlr, CtrlrIds
  <2> HIDE DEF d
  <2>5. Takes(w, "unlist", i) /\ fw' = d.fw
    BY <2>1, <2>2, <2>4, Taking
  <2>6. Removes(k, q, i)
    BY <1>3, <2>2, <2>3, <2>5 DEF Removes
  <2> QED
    BY <1>5, <2>2, <2>5, <2>6 DEF RemovedController, DeleteNvmeControllerRpc
<1>6. CASE UpdateNvmeControllerRpc(w)
  <2>1. PICK a \in UpdateCtrlr(fw, q, i) : TakeAnswer(w, a, "save", a.val)
    BY <1>6, PlainCall DEF UpdateNvmeControllerRpc
  <2>2. Done(fw, i).ok = TRUE /\ Done(fw, i).val = i /\ Done(fw, i).fw = fw
    BY DEF Done
  <2>3. \/ i \notin CtrlrIds(fw, q) /\ a = Refused(fw)
        \/ i \in CtrlrIds(fw, q) /\ a = Done(fw, i)
    BY DEF UpdateCtrlr, IdsAgree
  <2>4. CASE i \notin CtrlrIds(fw, q) /\ a = Refused(fw)
    <3>1. Finishes(w, "Failed") /\ UNCHANGED store /\ fw' = fw
      BY <1>1, <1>2, <2>1, <2>4, Taking
    <3> QED
      BY <1>1, <1>6, <2>4, <3>1 DEF UpdateNvmeControllerRpc, At, Rejected, Hopeless
  <2>5. CASE i \in CtrlrIds(fw, q) /\ a = Done(fw, i)
    <3>1. Takes(w, "save", i) /\ fw' = fw
      BY <2>1, <2>2, <2>5, Taking
    <3> QED
      BY <1>6, <2>5, <3>1 DEF UpdatedController, UpdateNvmeControllerRpc
  <2> QED
    BY <2>3, <2>4, <2>5
<1> QED
  BY <1>4, <1>5, <1>6

\* The calls that allocate and unallocate a namespace: what the loop has detached
\* does not stand in the way.
LEMMA NamespaceCallSteps ==
  ASSUME OInv, Faultless, IdsAgree, NEW w \in Worker,
         CreateNvmeNamespaceRpc(w) \/ DeleteNvmeNamespaceRpc(w)
  PROVE  MadeNamespace(w) \/ RemovedNamespace(w) \/ Rejected(w)
<1>1. /\ Running(w) /\ h[w].pc = "rpc" /\ fw \in Fw /\ h[w].op \in NamespaceOps
      /\ Going(w) /\ Looping(w)
  BY DEF CreateNvmeNamespaceRpc, DeleteNvmeNamespaceRpc, At,
     Running, OInv, Ordered, IInv, TypeOK, Fw
<1>2. Refused(fw).ok = FALSE /\ Refused(fw).fw = fw
  BY DEF Refused
<1> DEFINE q == h[w].nqn
           i == h[w].obj
           k == h[w].key
<1>3. q \in fw.subs /\ q = Held(Root(k)) /\ k \in Namespaces /\ Root(k) = Parent[k]
  BY <1>1, Holdings, RunningOn DEF OInv
<1>4. CASE CreateNvmeNamespaceRpc(w)
  <2> DEFINE d == Done([fw EXCEPT !.nss = @ \cup {[nqn |-> q, id |-> i, owner |-> k]}], i)
  <2>1. PICK a \in AllocNs(fw, q, i, k) : TakeAnswer(w, a, "range", i)
    BY <1>4, PlainCall DEF CreateNvmeNamespaceRpc
  <2>2. /\ d.ok = TRUE /\ d.fw.subs = fw.subs /\ d.fw.ctrls = fw.ctrls /\ d.fw.att = fw.att
        /\ d.fw.nss = fw.nss \cup {[nqn |-> q, id |-> i, owner |-> k]}
    BY <1>1 DEF Done, Fw, FwStates
  <2>3. i \in NsNums
    BY <1>1 DEF OInv, IInv, TypeOK, HandlersOK, FrameOK, Running, IdleFrame
  <2>4. \/ i \in NsIds(fw, q) /\ a = Refused(fw)
        \/ i \notin NsIds(fw, q) /\ a = d
    <3>1. LET free == NsNums \ NsIds(fw, q) IN
            (free \cap {i} = {} <=> i \in NsIds(fw, q)) /\ \A n \in free \cap {i} : n = i
      BY <2>3
    <3> QED
      BY <1>3, <3>1 DEF AllocNs, IdsAgree
  <2> HIDE DEF d
  <2>5. CASE i \in NsIds(fw, q) /\ a = Refused(fw)
    <3>1. h[w].changed = FALSE /\ \E p \in fw.nss : p.nqn = q /\ p.id = i
      BY <1>1, <1>4, <2>5 DEF Going, CreateNvmeNamespaceRpc, At, NsIds
    <3>2. Finishes(w, "Failed") /\ UNCHANGED store /\ fw' = fw
      BY <1>2, <2>1, <2>5, <3>1, Taking
    <3> QED
      BY <1>1, <1>4, <3>1, <3>2 DEF CreateNvmeNamespaceRpc, At, Rejected, Hopeless
  <2>6. CASE i \notin NsIds(fw, q) /\ a = d
    <3>1. Takes(w, "range", i) /\ fw' = d.fw
      BY <2>1, <2>2, <2>6, Taking
    <3>2. Adds(k, q, i)
      BY <1>3, <2>2, <2>3, <2>6, <3>1 DEF Adds, NsIds
    <3> QED
      BY <1>4, <2>2, <3>1, <3>2 DEF MadeNamespace, CreateNvmeNamespaceRpc
  <2> QED
    BY <2>4, <2>5, <2>6
<1>5. CASE DeleteNvmeNamespaceRpc(w)
  <2> DEFINE d == Done([fw EXCEPT !.nss = {m \in @ : ~(m.nqn = q /\ m.id = i)}], 0)
  <2>1. PICK a \in UnallocNs(fw, q, i) : TakeAnswer(w, a, "unlist", i)
    BY <1>5, PlainCall DEF DeleteNvmeNamespaceRpc
  <2>2. /\ d.ok = TRUE /\ d.fw.subs = fw.subs /\ d.fw.ctrls = fw.ctrls /\ d.fw.att = fw.att
        /\ d.fw.nss = {m \in fw.nss : ~(m.nqn = q /\ m.id = i)}
    BY <1>1 DEF Done, Fw, FwStates
  <2>3. h[w].op = "DeleteNvmeNamespace" /\ ~PastChange(h[w])
    BY <1>5 DEF DeleteNvmeNamespaceRpc, At, PastChange
  <2>4. Held(k) = i /\ i = store[k] /\ Held(k) # None
    <3>1. i = store[k]
      BY <1>1, <2>3 DEF Going
    <3> QED
      BY <1>1, <2>3, <3>1, Holdings
  <2>5. \E p \in fw.nss : p.nqn = q /\ p.id = i
    <3>1. Object(k) \in fw.nss
      BY <1>3, <2>4, ObjectThere
    <3>2. Object(k).nqn = q /\ Object(k).id = i
      BY <1>3, <2>4 DEF Object
    <3> QED
      BY <3>1, <3>2
  <2>6. ASSUME NEW b \in fw.att, b.nqn = q, b.ns = i
        PROVE  FALSE
    <3>1. PICK c \in Alive(Controllers), n \in Alive(Namespaces) :
            Parent[c] = Parent[n] /\ b = Attachment(c, n)
      BY DEF OInv, Ordered, AttachmentsHeld
    <3>2. Held(Parent[n]) = q /\ Held(n) = i /\ n \in Namespaces /\ c \in Controllers
          /\ Held(n) # None /\ Held(c) # None
      BY <2>6, <3>1 DEF Attachment, Alive
    <3>3. Parent[n] = Parent[k]
      BY <1>1, <1>3, <3>2, Names, Holdings
         DEF OInv, Ordered, ObjectsHeld, Alive, Children
    <3>4. n = k
      BY <1>3, <2>4, <3>2, <3>3 DEF OInv, Ordered, ObjectsHeld, Alive
    <3>5. c # k /\ c \in Keys /\ Root(c) = Root(k)
      BY <1>3, <3>1, <3>2, <3>4, Names, FrontendAssumption
         DEF Children, FrontendAssumption
    <3>6. c \in Siblings(Root(k))
      BY <1>1, <1>3, <3>1, <3>2, <3>4, <3>5, Holdings DEF Siblings
    <3>7. Reached(h[w]) = Siblings(Root(k))
      BY <1>1 DEF Reached
    <3> QED
      BY <1>1, <2>3, <3>1, <3>4, <3>6, <3>7 DEF Looping
  <2>7. a = d
    BY <2>5, <2>6 DEF UnallocNs, NsIds
  <2> HIDE DEF d
  <2>8. Takes(w, "unlist", i) /\ fw' = d.fw
    BY <2>1, <2>2, <2>7, Taking
  <2>9. Removes(k, q, i)
    BY <1>3, <2>2, <2>5, <2>8 DEF Removes
  <2> QED
    BY <1>5, <2>2, <2>6, <2>8, <2>9 DEF RemovedNamespace, DeleteNvmeNamespaceRpc
<1> QED
  BY <1>4, <1>5

\* The call of the loop is about a controller that has a record and the handler's
\* namespace.
LEMMA CallOf ==
  ASSUME OInv, NEW w \in Worker, Running(w), h[w].op \in NamespaceOps, h[w].pc = "call",
         NEW k, k = h[w].key, NEW c, c = h[w].cur
  PROVE  /\ c \in Siblings(Root(k)) /\ c \in Controllers /\ k \in Namespaces
         /\ Parent[c] = Parent[k] /\ Root(k) = Parent[k]
         /\ Held(c) = h[w].ctl /\ Held(c) # None
         /\ Held(k) = h[w].obj /\ Held(k) # None /\ Held(Parent[k]) = h[w].nqn
         /\ AttachmentOf(w) = Attachment(c, k)
         /\ \A d \in Siblings(Root(k)) : d # c => Attachment(d, k) # Attachment(c, k)
<1>1. Going(w) /\ Looping(w)
  BY DEF OInv, Ordered
<1> DEFINE i == h[w].obj
<1>2. /\ h[w].nqn = Held(Root(k)) /\ k \in Namespaces /\ Root(k) = Parent[k] /\ k \in Keys
      /\ \A j \in Keys : Root(j) = Root(k) /\ j # k => Held(j) = store[j]
  BY Holdings, RunningOn DEF OInv
<1>3. c \in Siblings(Root(k)) /\ h[w].ctl = store[c]
  BY <1>1 DEF Looping
<1>4. \A d \in Siblings(Root(k)) :
         d \in Controllers /\ Parent[d] = Parent[k] /\ Held(d) = store[d] /\ store[d] # None
  BY <1>2, Names, FrontendAssumption DEF FrontendAssumption, Siblings, Children
<1>5. Held(k) = i /\ Held(k) # None
  <2>1. CASE h[w].op = "CreateNvmeNamespace"
    <3>1. Past(w, k)
      BY <2>1 DEF Past, PastChange
    <3>2. i \in NsNums
      BY DEF OInv, IInv, TypeOK, HandlersOK, FrameOK, Running, IdleFrame
    <3> QED
      BY <2>1, <3>1, <3>2, HeldBy, NumsAreInts, FrontendAssumption
         DEF FrontendAssumption, OInv
  <2>2. CASE h[w].op = "DeleteNvmeNamespace"
    <3>1. i = store[k] /\ ~PastChange(h[w])
      BY <1>1, <2>2 DEF Going, PastChange
    <3> QED
      BY <2>2, <3>1, Holdings
  <2> QED
    BY <2>1, <2>2
<1>6. AttachmentOf(w) = Attachment(c, k)
  BY <1>2, <1>3, <1>4, <1>5 DEF AttachmentOf, Attachment
<1>7. ASSUME NEW d \in Siblings(Root(k)), d # c
      PROVE  Attachment(d, k) # Attachment(c, k)
  <2>1. Held(d) # Held(c)
    BY <1>3, <1>4, <1>7 DEF OInv, Ordered, ObjectsHeld, Alive
  <2>2. Attachment(d, k).ctrl = Held(d) /\ Attachment(c, k).ctrl = Held(c)
    BY DEF Attachment
  <2> QED
    BY <2>1, <2>2
<1> QED
  BY <1>2, <1>3, <1>4, <1>5, <1>6, <1>7

\* The calls of the loop: what is next is not attached yet, and no detach fails.
LEMMA AttachSteps ==
  ASSUME OInv, Faultless, LenientDetach, NEW w \in Worker,
         CreateNvmeNamespaceAttach(w) \/ DeleteNvmeNamespaceDetach(w)
  PROVE  Attached(w) \/ Detached(w)
<1>1. /\ Running(w) /\ h[w].pc = "call" /\ fw \in Fw /\ h[w].op \in NamespaceOps
      /\ Going(w) /\ Looping(w)
  BY DEF CreateNvmeNamespaceAttach, DeleteNvmeNamespaceDetach, At,
     Running, OInv, Ordered, IInv, TypeOK, Fw
<1> DEFINE q == h[w].nqn
           i == h[w].obj
           k == h[w].key
           c == h[w].cur
           x == AttachmentOf(w)
<1>2. /\ c \in Siblings(Root(k)) /\ c \in Controllers /\ k \in Namespaces
      /\ Parent[c] = Parent[k] /\ Held(c) = h[w].ctl /\ Held(c) # None
      /\ Held(k) = i /\ Held(k) # None /\ Held(Parent[k]) = q /\ x = Attachment(c, k)
  BY <1>1, CallOf
<1>3. h[w].ctl \in CtrlrIds(fw, q) /\ i \in NsIds(fw, q)
  <2>1. Object(c) \in fw.ctrls /\ Object(k) \in fw.nss
    BY <1>2, ObjectThere
  <2>2. /\ Object(c).nqn = q /\ Object(c).id = h[w].ctl
        /\ Object(k).nqn = q /\ Object(k).id = i
    BY <1>2 DEF Object
  <2> QED
    BY <2>1, <2>2 DEF CtrlrIds, NsIds
<1>4. CASE CreateNvmeNamespaceAttach(w)
  <2> DEFINE d == Done([fw EXCEPT !.att = @ \cup {x}], 0)
  <2>1. PICK a \in AttachNs(fw, q, h[w].ctl, i) : TakeAnswer(w, a, "loop", i)
    BY <1>4, PlainCall DEF CreateNvmeNamespaceAttach
  <2>2. /\ d.ok = TRUE /\ d.fw.subs = fw.subs /\ d.fw.ctrls = fw.ctrls /\ d.fw.nss = fw.nss
        /\ d.fw.att = fw.att \cup {x}
    BY <1>1 DEF Done, Fw, FwStates
  <2>3. x \notin fw.att
    <3>1. h[w].op = "CreateNvmeNamespace" /\ PastChange(h[w]) /\ c \notin Reached(h[w])
      BY <1>1, <1>4 DEF CreateNvmeNamespaceAttach, At, PastChange, Reached
    <3> QED
      BY <1>1, <1>2, <3>1 DEF Looping
  <2>4. a = d
    BY <1>3, <2>3 DEF AttachNs, AttachmentOf
  <2> HIDE DEF d, x
  <2>5. Takes(w, "loop", i) /\ fw' = d.fw
    BY <2>1, <2>2, <2>4, Taking
  <2> QED
    BY <1>4, <2>2, <2>5 DEF Attached, CreateNvmeNamespaceAttach, SameObjects, x
<1>5. CASE DeleteNvmeNamespaceDetach(w)
  <2> DEFINE d == Done([fw EXCEPT !.att = @ \ {x}], 0)
  <2>1. PICK a \in DetachNs(fw, q, h[w].ctl, i) : TakeAnswer(w, a, "loop", i)
    BY <1>5, PlainCall DEF DeleteNvmeNamespaceDetach
  <2>2. /\ d.ok = TRUE /\ d.fw.subs = fw.subs /\ d.fw.ctrls = fw.ctrls /\ d.fw.nss = fw.nss
        /\ d.fw.att = fw.att \ {x}
    BY <1>1 DEF Done, Fw, FwStates
  <2>3. a = d
    BY <1>3 DEF DetachNs, AttachmentOf
  <2> HIDE DEF d, x
  <2>4. Takes(w, "loop", i) /\ fw' = d.fw
    BY <2>1, <2>2, <2>3, Taking
  <2> QED
    BY <1>5, <2>2, <2>4 DEF Detached, DeleteNvmeNamespaceDetach, SameObjects, x
<1> QED
  BY <1>4, <1>5

\* The steps that a handler can take.
Ordinary(w) ==
  \/ Scanned(w) \/ Fetched(w) \/ Orphaned(w) \/ Listed(w)
  \/ Ranged(w) \/ Picked(w) \/ LoopLeft(w) \/ GotId(w)
  \/ MadeSubsystem(w) \/ RemovedSubsystem(w)
  \/ MadeController(w) \/ RemovedController(w) \/ UpdatedController(w)
  \/ MadeNamespace(w) \/ RemovedNamespace(w)
  \/ Attached(w) \/ Detached(w) \/ Rejected(w) \/ Written(w)

\* Every step of a handler without faults is one of those named above.
LEMMA OrderedSteps ==
  ASSUME OInv, Faultless, IdsAgree, LenientDetach, NEW w \in Worker, Handle(w)
  PROVE  Ordinary(w)
<1>1. CASE \/ CreateNvmeSubsystemRpc(w) \/ DeleteNvmeSubsystemRpc(w)
  BY <1>1, SubsystemCallSteps DEF Ordinary
<1>2. CASE \/ CreateNvmeControllerRpc(w) \/ DeleteNvmeControllerRpc(w)
           \/ UpdateNvmeControllerRpc(w)
  BY <1>2, ControllerCallSteps DEF Ordinary
<1>3. CASE CreateNvmeNamespaceRpc(w) \/ DeleteNvmeNamespaceRpc(w)
  BY <1>3, NamespaceCallSteps DEF Ordinary
<1>4. CASE CreateNvmeNamespaceAttach(w) \/ DeleteNvmeNamespaceDetach(w)
  BY <1>4, AttachSteps DEF Ordinary
<1>5. CASE CreateNvmeNamespaceLoop(w) \/ DeleteNvmeNamespaceLoop(w)
  BY <1>5, LoopSteps DEF Ordinary
<1>6. ASSUME h[w].pc = "parent", h[w].op \notin SubsystemOps,
             NEW next, next = IF h[w].op = "DeleteNvmeNamespace" THEN "range" ELSE "rpc",
             FetchSubsystem(w, next)
      PROVE  Ordinary(w)
  <2>1. h[w].key \in Children
    BY <1>6, RunningOn DEF OInv, Running, Children
  <2> QED
    BY <1>6, <2>1, FetchSteps DEF Ordinary
<1>7. CASE \/ CreateNvmeControllerParent(w) \/ DeleteNvmeControllerParent(w)
           \/ UpdateNvmeControllerParent(w)
           \/ CreateNvmeNamespaceParent(w) \/ DeleteNvmeNamespaceParent(w)
  BY <1>6, <1>7 DEF CreateNvmeControllerParent, DeleteNvmeControllerParent,
     UpdateNvmeControllerParent, CreateNvmeNamespaceParent, DeleteNvmeNamespaceParent, At
<1>8. CASE \/ ScanNqns(w) \/ CreateNvmeSubsystemList(w) \/ CreateNvmeControllerList(w)
           \/ CreateNvmeNamespaceList(w) \/ DeleteNvmeSubsystemUnlist(w)
           \/ DeleteNvmeControllerUnlist(w) \/ DeleteNvmeNamespaceUnlist(w)
  BY <1>8, PlainSteps DEF Ordinary, Faultless, CreateNvmeSubsystemList,
     CreateNvmeControllerList, CreateNvmeNamespaceList, DeleteNvmeSubsystemUnlist,
     DeleteNvmeControllerUnlist, DeleteNvmeNamespaceUnlist, At
<1>9. CASE \/ CreateNvmeSubsystemSave(w) \/ CreateNvmeControllerSave(w)
           \/ UpdateNvmeControllerSave(w) \/ CreateNvmeNamespaceSave(w)
           \/ DeleteNvmeSubsystemErase(w) \/ DeleteNvmeControllerErase(w)
           \/ DeleteNvmeNamespaceErase(w)
  BY <1>9, PlainSteps DEF Ordinary, CreateNvmeSubsystemSave, CreateNvmeControllerSave,
     UpdateNvmeControllerSave, CreateNvmeNamespaceSave, DeleteNvmeSubsystemErase,
     DeleteNvmeControllerErase, DeleteNvmeNamespaceErase, At
<1> QED
  BY <1>1, <1>2, <1>3, <1>4, <1>5, <1>7, <1>8, <1>9 DEF Handle

---------------------------------------------------------------------------
(* The application stays with what the names hold.                         *)

\* Where no object comes or goes and every name holds what it held.
LEMMA ObjectsSame ==
  ASSUME OInv, SameObjects, \A j \in Keys : Held(j)' = Held(j)
  PROVE  /\ ObjectsHeld'
         /\ (\A a \in fw'.att :
               \/ a \in fw.att
               \/ \E c \in Alive(Controllers), n \in Alive(Namespaces) :
                    Parent[c] = Parent[n] /\ a = Attachment(c, n)) => AttachmentsHeld'
<1>1. /\ Alive(Subsystems)' = Alive(Subsystems) /\ Alive(Controllers)' = Alive(Controllers)
      /\ Alive(Namespaces)' = Alive(Namespaces) /\ Alive(Children)' = Alive(Children)
  BY Names DEF Alive, Children
<1>2. \A k \in Children : Held(k)' = Held(k) /\ Held(Parent[k])' = Held(Parent[k])
  BY Names
<1>3. \A k \in Children : Object(k)' = Object(k)
  BY <1>2 DEF Object
<1>4. \A c \in Controllers, n \in Namespaces : Attachment(c, n)' = Attachment(c, n)
  BY <1>2 DEF Attachment, Children
<1>5. Alive(Controllers) \subseteq Children /\ Alive(Namespaces) \subseteq Children
      /\ Alive(Controllers) \subseteq Controllers /\ Alive(Namespaces) \subseteq Namespaces
      /\ Alive(Subsystems) \subseteq Keys /\ Alive(Children) \subseteq Children
      /\ Children \subseteq Keys
  BY Names DEF Alive, Children
<1>6. fw'.subs = fw.subs /\ fw'.ctrls = fw.ctrls /\ fw'.nss = fw.nss
  BY DEF SameObjects
<1>7. ObjectsHeld /\ AttachmentsHeld
  BY DEF OInv, Ordered
<1> HIDE DEF Alive, Object, Attachment, Held
<1>8. fw'.subs = {Held(t)' : t \in Alive(Subsystems)'}
  BY <1>1, <1>5, <1>6, <1>7 DEF ObjectsHeld
<1>9. fw'.ctrls = {Object(c)' : c \in Alive(Controllers)'}
  BY <1>1, <1>3, <1>5, <1>6, <1>7 DEF ObjectsHeld
<1>10. fw'.nss = {Object(n)' : n \in Alive(Namespaces)'}
  BY <1>1, <1>3, <1>5, <1>6, <1>7 DEF ObjectsHeld
<1>11. ObjectsHeld'
  BY <1>1, <1>2, <1>5, <1>7, <1>8, <1>9, <1>10 DEF ObjectsHeld
<1>12. (\A a \in fw'.att :
          \/ a \in fw.att
          \/ \E c \in Alive(Controllers), n \in Alive(Namespaces) :
               Parent[c] = Parent[n] /\ a = Attachment(c, n)) => AttachmentsHeld'
  BY <1>1, <1>4, <1>5, <1>7 DEF AttachmentsHeld
<1> QED
  BY <1>11, <1>12

\* A new subsystem.
LEMMA ObjectsMade ==
  ASSUME OInv, NEW s \in Subsystems, Held(s) = None, Held(s)' # None, Held(s)' \notin fw.subs,
         \A j \in Keys : j # s => Held(j)' = Held(j),
         fw'.subs = fw.subs \cup {Held(s)'},
         fw'.ctrls = fw.ctrls, fw'.nss = fw.nss, fw'.att = fw.att
  PROVE  ObjectsHeld' /\ AttachmentsHeld'
<1>1. ObjectsHeld /\ AttachmentsHeld
  BY DEF OInv, Ordered
<1>2. /\ Alive(Subsystems)' = Alive(Subsystems) \cup {s}
      /\ Alive(Controllers)' = Alive(Controllers)
      /\ Alive(Namespaces)' = Alive(Namespaces) /\ Alive(Children)' = Alive(Children)
      /\ s \notin Alive(Subsystems)
  BY Names DEF Alive, Children
<1>3. \A k \in Alive(Children) :
         Held(k)' = Held(k) /\ Held(Parent[k])' = Held(Parent[k]) /\ Held(Parent[k]) # None
  BY <1>1, Names DEF Alive, ObjectsHeld
<1>4. \A k \in Alive(Children) : Object(k)' = Object(k)
  BY <1>3 DEF Object
<1>5. Alive(Controllers) \subseteq Alive(Children) /\ Alive(Namespaces) \subseteq Alive(Children)
  BY DEF Alive, Children
<1>6. \A c \in Alive(Controllers), n \in Alive(Namespaces) : Attachment(c, n)' = Attachment(c, n)
  BY <1>3, <1>5 DEF Attachment
<1>7. \A t \in Alive(Subsystems) : Held(t)' = Held(t) /\ Held(t) \in fw.subs
  BY <1>1, Names DEF Alive, ObjectsHeld
<1> HIDE DEF Alive, Object, Attachment, Held
<1>8. fw'.subs = {Held(t)' : t \in Alive(Subsystems)'}
  BY <1>1, <1>2, <1>7 DEF ObjectsHeld
<1>9. fw'.ctrls = {Object(c)' : c \in Alive(Controllers)'}
  BY <1>1, <1>2, <1>4, <1>5 DEF ObjectsHeld
<1>10. fw'.nss = {Object(n)' : n \in Alive(Namespaces)'}
  BY <1>1, <1>2, <1>4, <1>5 DEF ObjectsHeld
<1>11. \A t, u \in Alive(Subsystems)' : Held(t)' = Held(u)' => t = u
  BY <1>1, <1>2, <1>7 DEF ObjectsHeld
<1>12. /\ \A c, d \in Alive(Controllers)' : Parent[c] = Parent[d] /\ Held(c)' = Held(d)' => c = d
       /\ \A n, m \in Alive(Namespaces)' : Parent[n] = Parent[m] /\ Held(n)' = Held(m)' => n = m
  BY <1>1, <1>2, <1>3, <1>5 DEF ObjectsHeld
<1>13. \A k \in Alive(Children)' : Held(Parent[k])' # None
  BY <1>2, <1>3
<1>14. ObjectsHeld'
  BY <1>8, <1>9, <1>10, <1>11, <1>12, <1>13 DEF ObjectsHeld
<1>15. AttachmentsHeld'
  BY <1>1, <1>2, <1>6 DEF AttachmentsHeld
<1> QED
  BY <1>14, <1>15

\* A subsystem without controllers and namespaces goes.
LEMMA ObjectsRemoved ==
  ASSUME OInv, NEW s \in Subsystems, Held(s) # None, Held(s)' = None,
         \A o \in Objs : o.nqn # Held(s),
         \A j \in Keys : j # s => Held(j)' = Held(j),
         fw'.subs = fw.subs \ {Held(s)},
         fw'.ctrls = fw.ctrls, fw'.nss = fw.nss, fw'.att = fw.att
  PROVE  ObjectsHeld' /\ AttachmentsHeld'
<1>1. ObjectsHeld /\ AttachmentsHeld
  BY DEF OInv, Ordered
<1>2. /\ Alive(Subsystems)' = Alive(Subsystems) \ {s}
      /\ Alive(Controllers)' = Alive(Controllers)
      /\ Alive(Namespaces)' = Alive(Namespaces) /\ Alive(Children)' = Alive(Children)
      /\ s \in Alive(Subsystems)
  BY Names DEF Alive, Children
<1>3. Alive(Controllers) \subseteq Alive(Children) /\ Alive(Namespaces) \subseteq Alive(Children)
      /\ Alive(Children) = Alive(Controllers) \cup Alive(Namespaces)
  BY DEF Alive, Children
<1>4. \A k \in Alive(Children) : Object(k) \in Objs
  BY <1>1, <1>3 DEF ObjectsHeld, Objs
<1>5. \A k \in Alive(Children) : Parent[k] # s
  BY <1>4 DEF Object
<1>6. \A k \in Alive(Children) :
         Held(k)' = Held(k) /\ Held(Parent[k])' = Held(Parent[k]) /\ Held(Parent[k]) # None
  BY <1>1, <1>5, Names DEF Alive, ObjectsHeld
<1>7. \A k \in Alive(Children) : Object(k)' = Object(k)
  BY <1>6 DEF Object
<1>8. \A c \in Alive(Controllers), n \in Alive(Namespaces) : Attachment(c, n)' = Attachment(c, n)
  BY <1>3, <1>6 DEF Attachment
<1>9. \A t \in Alive(Subsystems) \ {s} : Held(t)' = Held(t) /\ Held(t) # Held(s)
  BY <1>1, <1>2, Names DEF Alive, ObjectsHeld
<1> HIDE DEF Alive, Object, Attachment, Held
<1>10. fw'.subs = {Held(t)' : t \in Alive(Subsystems)'}
  BY <1>1, <1>2, <1>9 DEF ObjectsHeld
<1>11. fw'.ctrls = {Object(c)' : c \in Alive(Controllers)'}
  BY <1>1, <1>2, <1>3, <1>7 DEF ObjectsHeld
<1>12. fw'.nss = {Object(n)' : n \in Alive(Namespaces)'}
  BY <1>1, <1>2, <1>3, <1>7 DEF ObjectsHeld
<1>13. \A t, u \in Alive(Subsystems)' : Held(t)' = Held(u)' => t = u
  BY <1>1, <1>2, <1>9 DEF ObjectsHeld
<1>14. /\ \A c, d \in Alive(Controllers)' : Parent[c] = Parent[d] /\ Held(c)' = Held(d)' => c = d
       /\ \A n, m \in Alive(Namespaces)' : Parent[n] = Parent[m] /\ Held(n)' = Held(m)' => n = m
  BY <1>1, <1>2, <1>3, <1>6 DEF ObjectsHeld
<1>15. \A k \in Alive(Children)' : Held(Parent[k])' # None
  BY <1>2, <1>6
<1>16. ObjectsHeld'
  BY <1>10, <1>11, <1>12, <1>13, <1>14, <1>15 DEF ObjectsHeld
<1>17. AttachmentsHeld'
  BY <1>1, <1>2, <1>8 DEF AttachmentsHeld
<1> QED
  BY <1>16, <1>17

\* A new controller or namespace.
LEMMA ObjectsAdded ==
  ASSUME OInv, NEW k \in Children, NEW n, n # None, Held(k) = None, Held(k)' = n,
         \A j \in Keys : j # k => Held(j)' = Held(j),
         NEW q, q = Held(Parent[k]), q # None, Adds(k, q, n), fw'.att = fw.att
  PROVE  ObjectsHeld' /\ AttachmentsHeld'
<1>1. ObjectsHeld /\ AttachmentsHeld
  BY DEF OInv, Ordered
<1>2. Controllers \subseteq Children /\ Namespaces \subseteq Children /\ Children \subseteq Keys
      /\ Children = Controllers \cup Namespaces /\ Controllers \cap Namespaces = {}
  BY Names, FrontendAssumption DEF Children, FrontendAssumption
<1>3. /\ Alive(Subsystems)' = Alive(Subsystems) /\ Alive(Subsystems) \subseteq Keys \ Children
      /\ \A K \in {Controllers, Namespaces, Children} :
           Alive(K)' = IF k \in K THEN Alive(K) \cup {k} ELSE Alive(K)
      /\ \A K \in {Controllers, Namespaces, Children} : k \notin Alive(K) /\ Alive(K) \subseteq K
  BY <1>2, Names DEF Alive
<1>4. \A j \in Children : Held(Parent[j])' = Held(Parent[j])
  BY <1>2, Names
<1>5. \A j \in Children : j # k => Held(j)' = Held(j)
  BY <1>2
<1>6. \A j \in Children : j # k => Object(j)' = Object(j)
  BY <1>4, <1>5 DEF Object
<1>7. Object(k)' = [nqn |-> q, id |-> n, owner |-> k]
  BY <1>4 DEF Object
<1>8. \A c \in Alive(Controllers), m \in Alive(Namespaces) : Attachment(c, m)' = Attachment(c, m)
  BY <1>2, <1>3, <1>4, <1>5 DEF Attachment
<1>9. \A j \in Alive(Children) : Held(j) = n /\ Parent[j] = Parent[k] =>
         ~(j \in Controllers /\ k \in Controllers) /\ ~(j \in Namespaces /\ k \in Namespaces)
  <2> SUFFICES ASSUME NEW j \in Alive(Children), Held(j) = n, Parent[j] = Parent[k]
               PROVE  ~(j \in Controllers /\ k \in Controllers)
                      /\ ~(j \in Namespaces /\ k \in Namespaces)
    OBVIOUS
  <2>1. Object(j).nqn = q /\ Object(j).id = n
    BY DEF Object
  <2>2. /\ j \in Controllers => Object(j) \in fw.ctrls
        /\ j \in Namespaces => Object(j) \in fw.nss
    BY <1>1 DEF ObjectsHeld, Alive
  <2> QED
    BY <1>2, <2>1, <2>2 DEF Adds
<1> HIDE DEF Alive, Object, Attachment, Held
<1>10. fw'.subs = {Held(t)' : t \in Alive(Subsystems)'}
  <2>1. \A t \in Alive(Subsystems) : Held(t)' = Held(t)
    BY <1>3
  <2> QED
    BY <1>1, <1>3, <2>1 DEF ObjectsHeld, Adds
<1>11. fw'.ctrls = {Object(c)' : c \in Alive(Controllers)'}
  <2>1. \A c \in Alive(Controllers) : Object(c)' = Object(c)
    BY <1>2, <1>3, <1>6
  <2>2. CASE k \in Controllers
    <3>1. Alive(Controllers)' = Alive(Controllers) \cup {k}
          /\ fw'.ctrls = fw.ctrls \cup {Object(k)'}
      BY <1>2, <1>3, <1>7, <2>2 DEF Adds
    <3> QED
      BY <1>1, <2>1, <3>1 DEF ObjectsHeld
  <2>3. CASE k \in Namespaces
    <3>1. Alive(Controllers)' = Alive(Controllers) /\ fw'.ctrls = fw.ctrls
      BY <1>2, <1>3, <2>3 DEF Adds
    <3> QED
      BY <1>1, <2>1, <3>1 DEF ObjectsHeld
  <2> QED
    BY <1>2, <2>2, <2>3
<1>12. fw'.nss = {Object(m)' : m \in Alive(Namespaces)'}
  <2>1. \A m \in Alive(Namespaces) : Object(m)' = Object(m)
    BY <1>2, <1>3, <1>6
  <2>2. CASE k \in Namespaces
    <3>1. Alive(Namespaces)' = Alive(Namespaces) \cup {k}
          /\ fw'.nss = fw.nss \cup {Object(k)'}
      BY <1>2, <1>3, <1>7, <2>2 DEF Adds
    <3> QED
      BY <1>1, <2>1, <3>1 DEF ObjectsHeld
  <2>3. CASE k \in Controllers
    <3>1. Alive(Namespaces)' = Alive(Namespaces) /\ fw'.nss = fw.nss
      BY <1>2, <1>3, <2>3 DEF Adds
    <3> QED
      BY <1>1, <2>1, <3>1 DEF ObjectsHeld
  <2> QED
    BY <1>2, <2>2, <2>3
<1>13. \A t, u \in Alive(Subsystems)' : Held(t)' = Held(u)' => t = u
  BY <1>1, <1>3 DEF ObjectsHeld
<1>14. /\ Alive(Controllers) \subseteq Alive(Children) /\ Alive(Namespaces) \subseteq Alive(Children)
       /\ \A j \in Alive(Children) : j # k /\ Held(j)' = Held(j)
  BY <1>2, <1>3, <1>5 DEF Alive
<1>15. \A c, d \in Alive(Controllers)' : Parent[c] = Parent[d] /\ Held(c)' = Held(d)' => c = d
  <2>1. \A c, d \in Alive(Controllers) : Parent[c] = Parent[d] /\ Held(c)' = Held(d)' => c = d
    BY <1>1, <1>14 DEF ObjectsHeld
  <2>2. k \in Controllers => \A c \in Alive(Controllers) :
          ~(Parent[c] = Parent[k] /\ Held(c)' = Held(k)')
    BY <1>3, <1>9, <1>14
  <2> QED
    BY <1>3, <2>1, <2>2
<1>16. \A c, d \in Alive(Namespaces)' : Parent[c] = Parent[d] /\ Held(c)' = Held(d)' => c = d
  <2>1. \A c, d \in Alive(Namespaces) : Parent[c] = Parent[d] /\ Held(c)' = Held(d)' => c = d
    BY <1>1, <1>14 DEF ObjectsHeld
  <2>2. k \in Namespaces => \A c \in Alive(Namespaces) :
          ~(Parent[c] = Parent[k] /\ Held(c)' = Held(k)')
    BY <1>3, <1>9, <1>14
  <2> QED
    BY <1>3, <2>1, <2>2
<1>17. \A j \in Alive(Children)' : Held(Parent[j])' # None
  BY <1>1, <1>3, <1>4 DEF ObjectsHeld
<1>18. ObjectsHeld'
  BY <1>10, <1>11, <1>12, <1>13, <1>15, <1>16, <1>17 DEF ObjectsHeld
<1>19. AttachmentsHeld'
  BY <1>1, <1>3, <1>8 DEF AttachmentsHeld
<1> QED
  BY <1>18, <1>19

\* A controller or namespace goes, and what was attached to it.
LEMMA ObjectsGone ==
  ASSUME OInv, NEW k \in Children, Held(k) # None, Held(k)' = None,
         \A j \in Keys : j # k => Held(j)' = Held(j),
         NEW q, q = Held(Parent[k]), Removes(k, q, Held(k)), fw'.att \subseteq fw.att,
         \A a \in fw'.att : a.nqn = q =>
           /\ k \in Controllers => a.ctrl # Held(k)
           /\ k \in Namespaces => a.ns # Held(k)
  PROVE  ObjectsHeld' /\ AttachmentsHeld'
<1>1. ObjectsHeld /\ AttachmentsHeld
  BY DEF OInv, Ordered
<1>2. Controllers \subseteq Children /\ Namespaces \subseteq Children /\ Children \subseteq Keys
      /\ Children = Controllers \cup Namespaces /\ Controllers \cap Namespaces = {}
  BY Names, FrontendAssumption DEF Children, FrontendAssumption
<1>3. /\ Alive(Subsystems)' = Alive(Subsystems) /\ Alive(Subsystems) \subseteq Keys \ Children
      /\ \A K \in {Controllers, Namespaces, Children} :
           Alive(K)' = Alive(K) \ {k} /\ Alive(K) \subseteq K /\ (k \in K => k \in Alive(K))
      /\ \A K \in {Controllers, Namespaces} : \A j \in Alive(Children) : j \in K => j \in Alive(K)
      /\ Alive(Controllers) \subseteq Alive(Children) /\ Alive(Namespaces) \subseteq Alive(Children)
  BY <1>2, Names DEF Alive
<1>4. \A j \in Children : Held(Parent[j])' = Held(Parent[j])
  BY <1>2, Names
<1>5. \A j \in Children : j # k => Held(j)' = Held(j)
  BY <1>2
<1>6. \A j \in Children : j # k => Object(j)' = Object(j)
  BY <1>4, <1>5 DEF Object
<1>7. \A c \in Alive(Controllers) \ {k}, m \in Alive(Namespaces) \ {k} :
         Attachment(c, m)' = Attachment(c, m)
  BY <1>2, <1>3, <1>4, <1>5 DEF Attachment
<1>8. \A c \in Controllers, m \in Namespaces :
         /\ c = k /\ Parent[c] = Parent[m] =>
              Attachment(c, m).nqn = q /\ Attachment(c, m).ctrl = Held(k)
         /\ m = k => Attachment(c, m).nqn = q /\ Attachment(c, m).ns = Held(k)
  BY DEF Attachment
<1>9. \A j \in Children :
         Object(j).nqn = Held(Parent[j]) /\ Object(j).id = Held(j)
  BY DEF Object
<1>10. \A j \in Alive(Children) : Held(Parent[j]) = q => Parent[j] = Parent[k]
  <2>1. k \in Alive(Children)
    BY <1>3
  <2>2. \A j \in Alive(Children) : Parent[j] \in Alive(Subsystems)
    BY <1>1, <1>3, Names DEF ObjectsHeld, Alive
  <2> QED
    BY <1>1, <2>1, <2>2 DEF ObjectsHeld
<1> HIDE DEF Alive, Object, Attachment, Held
<1>11. fw'.subs = {Held(t)' : t \in Alive(Subsystems)'}
  <2>1. \A t \in Alive(Subsystems) : Held(t)' = Held(t)
    BY <1>3
  <2> QED
    BY <1>1, <1>3, <2>1 DEF ObjectsHeld, Removes
<1>12. \A j \in Alive(Children) : Object(j).nqn = q /\ Object(j).id = Held(k) =>
         /\ j \in Controllers /\ k \in Controllers => j = k
         /\ j \in Namespaces /\ k \in Namespaces => j = k
  <2> SUFFICES ASSUME NEW j \in Alive(Children), Object(j).nqn = q, Object(j).id = Held(k)
               PROVE  /\ j \in Controllers /\ k \in Controllers => j = k
                      /\ j \in Namespaces /\ k \in Namespaces => j = k
    OBVIOUS
  <2>1. j \in Children /\ k \in Alive(Children)
    BY <1>3
  <2>2. Parent[j] = Parent[k] /\ Held(j) = Held(k)
    BY <1>9, <1>10, <2>1
  <2>3. j \in Controllers /\ k \in Controllers => j = k
    BY <1>1, <1>3, <2>1, <2>2 DEF ObjectsHeld
  <2>4. j \in Namespaces /\ k \in Namespaces => j = k
    BY <1>1, <1>3, <2>1, <2>2 DEF ObjectsHeld
  <2> QED
    BY <2>3, <2>4
<1>13. Object(k).nqn = q /\ Object(k).id = Held(k)
  BY <1>9
<1>14. fw'.ctrls = {Object(c)' : c \in Alive(Controllers)'}
  <2>1. \A c \in Alive(Controllers) \ {k} : Object(c)' = Object(c)
    BY <1>2, <1>3, <1>6
  <2>2. CASE k \in Controllers
    <3>1. fw'.ctrls = {p \in fw.ctrls : ~(p.nqn = q /\ p.id = Held(k))}
      BY <1>2, <2>2 DEF Removes
    <3>2. fw.ctrls = {Object(c) : c \in Alive(Controllers)}
      BY <1>1 DEF ObjectsHeld
    <3>3. fw'.ctrls = {Object(c) : c \in Alive(Controllers) \ {k}}
      BY <1>3, <1>12, <1>13, <2>2, <3>1, <3>2
    <3> QED
      BY <1>3, <2>1, <3>3
  <2>3. CASE k \in Namespaces
    <3>1. k \notin Alive(Controllers) /\ fw'.ctrls = fw.ctrls
      BY <1>2, <1>3, <2>3 DEF Removes
    <3> QED
      BY <1>1, <1>3, <2>1, <3>1 DEF ObjectsHeld
  <2> QED
    BY <1>2, <2>2, <2>3
<1>15. fw'.nss = {Object(m)' : m \in Alive(Namespaces)'}
  <2>1. \A m \in Alive(Namespaces) \ {k} : Object(m)' = Object(m)
    BY <1>2, <1>3, <1>6
  <2>2. CASE k \in Namespaces
    <3>1. fw'.nss = {p \in fw.nss : ~(p.nqn = q /\ p.id = Held(k))}
      BY <1>2, <2>2 DEF Removes
    <3>2. fw.nss = {Object(m) : m \in Alive(Namespaces)}
      BY <1>1 DEF ObjectsHeld
    <3>3. fw'.nss = {Object(m) : m \in Alive(Namespaces) \ {k}}
      BY <1>3, <1>12, <1>13, <2>2, <3>1, <3>2
    <3> QED
      BY <1>3, <2>1, <3>3
  <2>3. CASE k \in Controllers
    <3>1. k \notin Alive(Namespaces) /\ fw'.nss = fw.nss
      BY <1>2, <1>3, <2>3 DEF Removes
    <3> QED
      BY <1>1, <1>3, <2>1, <3>1 DEF ObjectsHeld
  <2> QED
    BY <1>2, <2>2, <2>3
<1>16. \A t, u \in Alive(Subsystems)' : Held(t)' = Held(u)' => t = u
  BY <1>1, <1>3 DEF ObjectsHeld
<1>17. /\ \A c, d \in Alive(Controllers)' : Parent[c] = Parent[d] /\ Held(c)' = Held(d)' => c = d
       /\ \A n, m \in Alive(Namespaces)' : Parent[n] = Parent[m] /\ Held(n)' = Held(m)' => n = m
  BY <1>1, <1>2, <1>3, <1>5 DEF ObjectsHeld
<1>18. \A j \in Alive(Children)' : Held(Parent[j])' # None
  BY <1>1, <1>3, <1>4 DEF ObjectsHeld
<1>19. ObjectsHeld'
  BY <1>11, <1>14, <1>15, <1>16, <1>17, <1>18 DEF ObjectsHeld
<1>20. AttachmentsHeld'
  <2> SUFFICES ASSUME NEW a \in fw'.att
               PROVE  \E c \in Alive(Controllers)', m \in Alive(Namespaces)' :
                        Parent[c] = Parent[m] /\ a = Attachment(c, m)'
    BY DEF AttachmentsHeld
  <2>1. PICK c \in Alive(Controllers), m \in Alive(Namespaces) :
          Parent[c] = Parent[m] /\ a = Attachment(c, m)
    BY <1>1 DEF AttachmentsHeld
  <2>2. c # k /\ m # k
    BY <1>3, <1>8, <2>1
  <2> QED
    BY <1>3, <1>7, <2>1, <2>2
<1> QED
  BY <1>19, <1>20

---------------------------------------------------------------------------
(* The handlers stay where their frames say.                               *)

\* A step of w on the subsystem it has to itself keeps the other handlers going.
LEMMA OrderedFrom ==
  ASSUME OInv, IInv', NEW w \in Worker, NEW k \in Keys, WorksOn(w, k), AloneOn(w, k),
         cut' = {}, KeepsOtherAtt(k), ObjectsHeld', AttachmentsHeld',
         Running(w)' => (Going(w) /\ Looping(w))'
  PROVE  Ordered'
<1>1. \A v \in Worker : Running(v)' => (Going(v) /\ Looping(v))'
  BY OthersGoOn
<1>2. OnePerSubsystem'
  <2> SUFFICES ASSUME NEW u \in Worker, NEW v \in Worker, Running(u)', Running(v)',
                      Root(h'[u].key) = Root(h'[v].key), u # v
               PROVE  FALSE
    BY DEF OnePerSubsystem
  <2>1. \A x \in Worker : x # w /\ Running(x)' =>
          Running(x) /\ h'[x] = h[x] /\ Root(h'[x].key) # Root(k)
    BY DEF WorksOn, AloneOn, Running
  <2>2. Running(w)' => h'[w].key = k
    BY DEF WorksOn, Running
  <2> QED
    BY <2>1, <2>2 DEF OInv, Ordered, OnePerSubsystem
<1> QED
  BY <1>1, <1>2 DEF Ordered

\* A handler's step is a step on its name.
LEMMA OwnStep ==
  ASSUME OInv, IInv', NEW w \in Worker, Running(w), NEW k, k = h[w].key,
         NEW g, h' = [h EXCEPT ![w] = g], g.pc = "idle" \/ g.key = k,
         \A v \in Worker : v # w => reply'[v] = reply[v],
         \A j \in Keys : j # k => store'[j] = store[j]
  PROVE  /\ WorksOn(w, k) /\ AloneOn(w, k) /\ k \in Keys
         /\ g \in Frames /\ h[w] \in Frames /\ h'[w] = g
         /\ \A j \in Keys : j # k => Held(j)' = Held(j)
<1>1. h \in [Worker -> Frames] /\ h' \in [Worker -> Frames] /\ k \in Keys
  BY RunningOn DEF OInv, IInv, TypeOK, HandlersOK
<1>2. h'[w] = g /\ \A v \in Worker : v # w => h'[v] = h[v]
  BY <1>1
<1>3. WorksOn(w, k)
  BY <1>1, <1>2 DEF WorksOn
<1>4. AloneOn(w, k)
  BY DEF AloneOn, OInv, Ordered, OnePerSubsystem
<1>5. g \in Frames /\ h[w] \in Frames
  BY <1>1, <1>2
<1> QED
  BY <1>1, <1>2, <1>3, <1>4, <1>5, OthersHold DEF OInv

\* What is left of a handler's frame when its step is to stay in line.
LEMMA GoesOn ==
  ASSUME NEW w \in Worker, Going(w), h'[w].op = h[w].op, h'[w].key = h[w].key,
         UNCHANGED <<reply, store>>, h'[w].pc \in StepsOf(h[w].op),
         h[w].op \in DeleteOps => h'[w].obj = h[w].obj,
         h[w].op \notin SubsystemOps /\ h'[w].pc # "parent" =>
           h'[w].nqn = store[Root(h[w].key)] /\ h'[w].nqn # None,
         h[w].op = "UpdateNvmeController" => h'[w].obj = h[w].obj,
         h[w].op = "UpdateNvmeController" /\ h'[w].pc = "save" => h'[w].obj = store[h[w].key],
         h'[w].pc \notin {"scan", "parent"},
         h'[w].pc = "rpc" /\ h[w].op # "DeleteNvmeNamespace" => h'[w].changed = FALSE
  PROVE  Going(w)'
  BY DEF Going

\* A step that changes nothing but the handler's frame, and neither reaches a
\* controller in the frame without having done its part nor the other way round.
LEMMA QuietProceeds ==
  ASSUME OInv, IInv', NEW w \in Worker, Running(w), NEW k, k = h[w].key, NEW g,
         Proceeds(w, g), UNCHANGED <<store, fw>>, g.key = k, g.op = h[w].op, g.pc # "idle",
         g.op \in CreateOps => g.obj = h[w].obj,
         g.op \in CreateOps \cup DeleteOps => (PastChange(g) <=> PastChange(h[w])),
         Going(w)',
         g.pc \notin {"loop", "get", "call"} => g.seen = {},
         g.pc \in {"loop", "get", "call"} =>
           g.todo = Siblings(Root(k)) /\ g.seen \subseteq Siblings(Root(k)),
         g.pc \in {"get", "call"} => g.cur \in g.seen,
         g.pc = "call" => g.ctl = store[g.cur],
         g.op = "CreateNvmeNamespace" /\ PastChange(g) =>
           \A c \in Siblings(Root(k)) : c \in Reached(g) <=> c \in Reached(h[w]),
         g.op = "DeleteNvmeNamespace" /\ g.pc # "parent" =>
           \A c \in Siblings(Root(k)) : c \in Reached(g) => h[w].pc # "parent" /\ c \in Reached(h[w])
  PROVE  Ordered'
<1>1. /\ h' = [h EXCEPT ![w] = g] /\ reply' = reply /\ cut' = {} /\ store' = store /\ fw' = fw
  BY DEF Proceeds, OInv, Ordered
<1>2. /\ WorksOn(w, k) /\ AloneOn(w, k) /\ k \in Keys /\ h'[w] = g
      /\ \A j \in Keys : j # k => Held(j)' = Held(j)
  BY <1>1, OwnStep
<1>3. Held(k)' = Held(k)
  <2>1. Running(w)' /\ h'[w].key = k
    BY <1>2 DEF Running
  <2>2. Past(w, k)' <=> Past(w, k)
    BY <1>2 DEF Past
  <2> HIDE DEF CreateOps, DeleteOps
  <2> QED
    BY <1>1, <1>2, <2>1, <2>2, HeldBy, HeldByNext DEF OInv, Past
<1>4. \A j \in Keys : Held(j)' = Held(j)
  BY <1>2, <1>3
<1>5. ObjectsHeld' /\ AttachmentsHeld'
  BY <1>1, <1>4, ObjectsSame DEF SameObjects
<1>6. KeepsOtherAtt(k)
  BY <1>1 DEF KeepsOtherAtt
<1>7. Siblings(Root(k))' = Siblings(Root(k)) /\ Reached(g)' = Reached(g)
  BY <1>1 DEF Siblings, Reached
<1>8. ASSUME NEW c \in Siblings(Root(k)), g.op \in NamespaceOps
      PROVE  Attachment(c, k)' = Attachment(c, k)
  <2>1. k \in Namespaces /\ c \in Keys /\ Parent[k] \in Keys
    BY <1>8, RunningOn, Names DEF OInv, Siblings, Children
  <2> QED
    BY <1>2, <1>4, <2>1 DEF Attachment
<1>9. Looping(w)
  BY DEF OInv, Ordered
<1>10. ASSUME g.op = "CreateNvmeNamespace", PastChange(g), NEW c \in Siblings(Root(k))
       PROVE  (Attachment(c, k) \in fw.att)' <=> c \in Reached(g)
  BY <1>1, <1>8, <1>9, <1>10 DEF Looping
<1>11. ASSUME g.op = "DeleteNvmeNamespace", g.pc # "parent", NEW c \in Siblings(Root(k)),
              (Attachment(c, k) \in fw.att)'
       PROVE  c \notin Reached(g)
  BY <1>1, <1>8, <1>9, <1>11 DEF Looping
<1>12. Looping(w)'
  <2>1. PastChange(h[w])' <=> PastChange(g)
    BY <1>2 DEF PastChange
  <2>2. Reached(h[w])' = Reached(g)
    BY <1>2, <1>7 DEF Reached
  <2> QED
    BY <1>1, <1>2, <1>7, <1>10, <1>11, <2>1, <2>2 DEF Looping
<1> QED
  BY <1>1, <1>2, <1>5, <1>6, <1>12, OrderedFrom

\* The steps to and from the application's calls that leave it alone.
LEMMA QuietStepsKeep ==
  ASSUME OInv, IInv', NEW w \in Worker, Running(w),
         Scanned(w) \/ Fetched(w) \/ Listed(w) \/ UpdatedController(w)
  PROVE  Ordered'
<1> DEFINE k == h[w].key
<1>1. /\ h[w] \in Frames /\ h \in [Worker -> Frames] /\ h[w].op \in MutatingOps
      /\ Going(w) /\ Looping(w)
  BY RunningOn DEF OInv, Ordered
<1>2. CASE Scanned(w)
  <2> DEFINE g == [h[w] EXCEPT !.pc = "rpc"]
  <2>1. /\ g.op = "CreateNvmeSubsystem" /\ g.key = k /\ g.pc = "rpc" /\ g.obj = h[w].obj
        /\ g.changed = FALSE /\ g.seen = {} /\ h[w].op = "CreateNvmeSubsystem"
        /\ h[w].pc = "scan"
    BY <1>1, <1>2 DEF Scanned, At, Frames, Going, Looping
  <2>2. Proceeds(w, g) /\ UNCHANGED <<store, fw>> /\ h'[w] = g
    BY <1>1, <1>2 DEF Scanned, Proceeds
  <2> HIDE DEF g
  <2>3. Going(w)'
    BY <1>1, <2>1, <2>2, GoesOn DEF StepsOf, Proceeds
  <2> QED
    BY <2>1, <2>2, <2>3, QuietProceeds DEF PastChange
<1>3. CASE Fetched(w)
  <2> DEFINE q == store[Root(k)]
             next == IF h[w].op = "DeleteNvmeNamespace" THEN "range" ELSE "rpc"
             g == [h[w] EXCEPT !.nqn = q, !.pc = next]
  <2>1. /\ g.op = h[w].op /\ g.key = k /\ g.pc = next /\ g.obj = h[w].obj
        /\ g.changed = FALSE /\ g.seen = {} /\ g.nqn = q /\ q # None /\ h[w].pc = "parent"
    BY <1>1, <1>3 DEF Fetched, Frames, Going, Looping
  <2>2. Proceeds(w, g) /\ UNCHANGED <<store, fw>> /\ h'[w] = g
    BY <1>1, <1>3 DEF Fetched, Proceeds
  <2>3. h[w].op \notin SubsystemOps
    BY <1>1, <2>1 DEF Going, StepsOf
  <2> HIDE DEF g
  <2>4. Going(w)'
    BY <1>1, <2>1, <2>2, <2>3, GoesOn DEF StepsOf, Proceeds
  <2>5. g.op \in CreateOps \cup DeleteOps => (PastChange(g) <=> PastChange(h[w]))
    BY <2>1 DEF PastChange
  <2>6. g.op = "CreateNvmeNamespace" => ~PastChange(g)
    BY <2>1 DEF PastChange
  <2>7. g.op = "DeleteNvmeNamespace" => Reached(g) = {}
    BY <2>1 DEF Reached
  <2> QED
    BY <2>1, <2>2, <2>4, <2>5, <2>6, <2>7, QuietProceeds
<1>4. CASE Listed(w)
  <2> DEFINE next == IF h[w].pc = "list" THEN "save" ELSE "erase"
             g == [h[w] EXCEPT !.pc = next]
  <2>1. /\ g.op = h[w].op /\ g.key = k /\ g.pc = next /\ g.obj = h[w].obj
        /\ g.seen = {} /\ g.nqn = h[w].nqn /\ h[w].pc \in {"list", "unlist"}
    BY <1>1, <1>4 DEF Listed, Frames, Looping
  <2>2. Proceeds(w, g) /\ UNCHANGED <<store, fw>> /\ h'[w] = g
    BY <1>1, <1>4 DEF Listed, Proceeds
  <2> HIDE DEF g
  <2>3. h[w].op # "UpdateNvmeController"
    BY <1>1, <2>1 DEF Going, StepsOf
  <2>4. g.pc \in StepsOf(h[w].op)
    BY <1>1, <2>1 DEF Going, StepsOf
  <2>5. h[w].op \notin SubsystemOps => h[w].nqn = store[Root(k)] /\ h[w].nqn # None
    BY <1>1, <2>1 DEF Going
  <2>6. Going(w)'
    BY <1>1, <2>1, <2>2, <2>3, <2>4, <2>5, GoesOn DEF Proceeds
  <2>7. (PastChange(g) <=> PastChange(h[w])) /\ Reached(g) = Reached(h[w]) /\ h[w].pc # "parent"
    BY <2>1 DEF PastChange, Reached
  <2> QED
    BY <2>1, <2>2, <2>6, <2>7, QuietProceeds
<1>5. CASE UpdatedController(w)
  <2>1. PICK b \in BOOLEAN :
          Proceeds(w, [h[w] EXCEPT !.pc = "save", !.obj = h[w].obj, !.changed = b])
    BY <1>5 DEF UpdatedController, Takes
  <2> DEFINE g == [h[w] EXCEPT !.pc = "save", !.obj = h[w].obj, !.changed = b]
  <2>2. /\ g.op = h[w].op /\ g.key = k /\ g.pc = "save" /\ g.obj = h[w].obj
        /\ g.seen = {} /\ g.nqn = h[w].nqn /\ h[w].op = "UpdateNvmeController"
        /\ h[w].pc = "rpc"
    BY <1>1, <1>5 DEF UpdatedController, At, Frames, Looping
  <2>3. Proceeds(w, g) /\ UNCHANGED <<store, fw>> /\ h'[w] = g
    BY <1>1, <1>5, <2>1 DEF UpdatedController, Takes, Proceeds
  <2> HIDE DEF g
  <2>4. h[w].obj = store[k]
    <3>1. h[w].obj \in {store[k], autoCtrlrIDAllocation}
      BY <1>1, <2>2 DEF Going
    <3>2. h[w].obj \in CtrlrNums
      BY <1>5 DEF UpdatedController, CtrlrIds, OInv, IInv, TypeOK, FwStates
    <3> QED
      BY <3>1, <3>2, MrvlNvmAssumption DEF MrvlNvmAssumption, autoCtrlrIDAllocation
  <2>5. h[w].nqn = store[Root(k)] /\ h[w].nqn # None
    BY <1>1, <2>2 DEF Going
  <2>6. Going(w)'
    BY <1>1, <2>2, <2>3, <2>4, <2>5, GoesOn DEF StepsOf, Proceeds
  <2> QED
    BY <2>2, <2>3, <2>6, QuietProceeds
<1> QED
  BY <1>2, <1>3, <1>4, <1>5

\* The steps of the loop between the calls.
LEMMA LoopStepsKeep ==
  ASSUME OInv, IInv', NEW w \in Worker, Running(w),
         Ranged(w) \/ Picked(w) \/ LoopLeft(w) \/ GotId(w)
  PROVE  Ordered'
<1> DEFINE k == h[w].key
           S == Siblings(Root(k))
<1>1. /\ h[w] \in Frames /\ h \in [Worker -> Frames] /\ h[w].op \in NamespaceOps
      /\ Going(w) /\ Looping(w) /\ h[w].pc \in {"range", "loop", "get"}
  BY RunningOn DEF OInv, Ordered, Ranged, Picked, LoopLeft, GotId
<1>2. h[w].nqn = store[Root(k)] /\ h[w].nqn # None
  BY <1>1 DEF Going
<1>3. ASSUME NEW g, Proceeds(w, g), UNCHANGED <<store, fw>>, g.op = h[w].op, g.key = k,
             g.obj = h[w].obj, g.nqn = h[w].nqn,
             \/ g.pc \in {"loop", "get", "call"}
             \/ g.pc = IF h[w].op = "DeleteNvmeNamespace" THEN "rpc" ELSE "list",
             g.pc \notin {"loop", "get", "call"} => g.seen = {},
             g.pc \in {"loop", "get", "call"} => g.todo = S /\ g.seen \subseteq S,
             g.pc \in {"get", "call"} => g.cur \in g.seen,
             g.pc = "call" => g.ctl = store[g.cur],
             \A c \in S : c \in Reached(g) <=> c \in Reached(h[w])
      PROVE  Ordered'
  <2>1. h'[w] = g
    BY <1>1, <1>3 DEF Proceeds
  <2>2. Going(w)'
    BY <1>1, <1>2, <1>3, <2>1, GoesOn DEF StepsOf, Proceeds
  <2>3. PastChange(g) <=> PastChange(h[w])
    BY <1>1, <1>3 DEF PastChange
  <2> QED
    BY <1>1, <1>3, <2>2, <2>3, QuietProceeds
<1>4. CASE Ranged(w)
  <2> DEFINE g == [h[w] EXCEPT !.todo = S, !.pc = "loop"]
  <2>1. /\ g.op = h[w].op /\ g.key = k /\ g.pc = "loop" /\ g.obj = h[w].obj
        /\ g.nqn = h[w].nqn /\ g.todo = S /\ g.seen = {} /\ h[w].seen = {} /\ h[w].pc = "range"
    BY <1>1, <1>4 DEF Ranged, Frames, Looping
  <2>2. Proceeds(w, g) /\ UNCHANGED <<store, fw>>
    BY <1>4 DEF Ranged
  <2> HIDE DEF g
  <2>3. Reached(g) = Reached(h[w])
    BY <2>1 DEF Reached
  <2> QED
    BY <1>3, <2>1, <2>2, <2>3
<1>5. CASE Picked(w)
  <2>1. PICK c \in S \ h[w].seen :
          Proceeds(w, [h[w] EXCEPT !.seen = h[w].seen \cup {c}, !.cur = c, !.pc = "get"])
    BY <1>5 DEF Picked
  <2> DEFINE g == [h[w] EXCEPT !.seen = h[w].seen \cup {c}, !.cur = c, !.pc = "get"]
  <2>2. /\ g.op = h[w].op /\ g.key = k /\ g.pc = "get" /\ g.obj = h[w].obj
        /\ g.nqn = h[w].nqn /\ g.todo = h[w].todo /\ g.seen = h[w].seen \cup {c} /\ g.cur = c
    BY <1>1, <1>5 DEF Frames
  <2>3. h[w].todo = S /\ h[w].seen \subseteq S /\ h[w].pc = "loop"
    BY <1>1, <1>5 DEF Picked, Looping
  <2>4. Proceeds(w, g) /\ UNCHANGED <<store, fw>>
    BY <1>5, <2>1 DEF Picked
  <2> HIDE DEF g
  <2>5. Reached(g) = Reached(h[w])
    BY <2>2, <2>3 DEF Reached
  <2> QED
    BY <1>3, <2>2, <2>3, <2>4, <2>5
<1>6. CASE LoopLeft(w)
  <2> DEFINE next == IF h[w].op = "DeleteNvmeNamespace" THEN "rpc" ELSE "list"
             g == [h[w] EXCEPT !.pc = next, !.cur = None, !.ctl = None, !.todo = {}, !.seen = {}]
  <2>1. /\ g.op = h[w].op /\ g.key = k /\ g.pc = next /\ g.obj = h[w].obj
        /\ g.nqn = h[w].nqn /\ g.seen = {}
    BY <1>1, <1>6 DEF Frames
  <2>2. S \subseteq h[w].seen /\ h[w].pc = "loop"
    BY <1>6 DEF LoopLeft
  <2>3. Proceeds(w, g) /\ UNCHANGED <<store, fw>>
    BY <1>6 DEF LoopLeft
  <2> HIDE DEF g
  <2>4. Reached(g) = S /\ Reached(h[w]) = h[w].seen
    BY <2>1, <2>2 DEF Reached
  <2> QED
    BY <1>3, <2>1, <2>2, <2>3, <2>4
<1>7. CASE GotId(w)
  <2> DEFINE g == [h[w] EXCEPT !.ctl = store[h[w].cur], !.pc = "call"]
  <2>1. /\ g.op = h[w].op /\ g.key = k /\ g.pc = "call" /\ g.obj = h[w].obj
        /\ g.nqn = h[w].nqn /\ g.seen = h[w].seen /\ g.todo = h[w].todo /\ g.cur = h[w].cur
        /\ g.ctl = store[h[w].cur]
    BY <1>1, <1>7 DEF Frames
  <2>2. h[w].todo = S /\ h[w].seen \subseteq S /\ h[w].pc = "get" /\ h[w].cur \in h[w].seen
    BY <1>1, <1>7 DEF GotId, Looping
  <2>3. Proceeds(w, g) /\ UNCHANGED <<store, fw>>
    BY <1>7 DEF GotId
  <2> HIDE DEF g
  <2>4. Reached(g) = Reached(h[w])
    BY <2>1, <2>2 DEF Reached
  <2> QED
    BY <1>3, <2>1, <2>2, <2>3, <2>4
<1> QED
  BY <1>4, <1>5, <1>6, <1>7

\* A handler that returns leaves its name with what it held.
LEMMA FinishHolds ==
  ASSUME OInv, IInv', NEW w \in Worker, Running(w), Orphaned(w) \/ Rejected(w) \/ Written(w),
         NEW k, k = h[w].key
  PROVE  /\ WorksOn(w, k) /\ AloneOn(w, k) /\ k \in Keys /\ h'[w] = IdleFrame
         /\ cut' = {} /\ fw' = fw /\ \A j \in Keys : Held(j)' = Held(j)
<1>1. Going(w) /\ h[w].op \in MutatingOps /\ k \in Keys
  BY RunningOn DEF OInv, Ordered
<1>2. PICK code : Finishes(w, code)
  BY DEF Orphaned, Rejected, Written
<1>3. /\ h' = [h EXCEPT ![w] = IdleFrame] /\ cut' = {} /\ fw' = fw
      /\ \A v \in Worker : v # w => reply'[v] = reply[v]
      /\ \A j \in Keys : j # k => store'[j] = store[j]
  BY <1>2 DEF Finishes, OInv, Ordered, Orphaned, Rejected, Written, IInv, TypeOK, StoreOK
<1>4. /\ WorksOn(w, k) /\ AloneOn(w, k) /\ k \in Keys /\ h'[w] = IdleFrame
      /\ \A j \in Keys : j # k => Held(j)' = Held(j)
  <2>1. h \in [Worker -> Frames] /\ h' \in [Worker -> Frames]
    BY DEF OInv, IInv, TypeOK, HandlersOK
  <2>2. h'[w] = IdleFrame /\ \A v \in Worker : v # w => h'[v] = h[v]
    BY <1>3, <2>1
  <2>3. WorksOn(w, k)
    BY <1>3, <2>1, <2>2 DEF WorksOn, IdleFrame
  <2>4. AloneOn(w, k)
    BY DEF AloneOn, OInv, Ordered, OnePerSubsystem
  <2> QED
    BY <1>1, <2>2, <2>3, <2>4, OthersHold DEF OInv
<1>5. ~Running(w)'
  BY <1>4 DEF Running, IdleFrame
<1>6. Held(k)' = store'[k]
  BY <1>4, <1>5, HeldFreeNext DEF AloneOn, WorksOn, Running
<1>7. Held(k) = store'[k]
  <2>1. CASE Orphaned(w) \/ Rejected(w)
    <3>1. ~PastChange(h[w]) /\ store' = store
      BY <2>1 DEF Orphaned, Rejected, PastChange
    <3> QED
      BY <3>1, Holdings
  <2>2. CASE Written(w)
    <3>1. store'[k] = IF h[w].op \in DeleteOps THEN None ELSE h[w].obj
      BY <1>1, <2>2 DEF Written, OInv, IInv, TypeOK, StoreOK
    <3>2. h[w].pc \in {"save", "erase"} /\ PastChange(h[w])
      BY <2>2 DEF Written, PastChange
    <3>3. CASE h[w].op = "UpdateNvmeController"
      <4>1. h[w].obj = store[k]
        BY <1>1, <3>2, <3>3 DEF Going, StepsOf
      <4> QED
        BY <3>1, <3>3, <4>1, Holdings
    <3>4. CASE h[w].op \in CreateOps \cup DeleteOps
      <4>1. Past(w, k)
        BY <3>2, <3>4 DEF Past
      <4> QED
        BY <3>1, <3>4, <4>1, HeldBy DEF OInv
    <3> QED
      BY <1>1, <3>3, <3>4
  <2> QED
    BY <2>1, <2>2
<1>8. \A j \in Keys : Held(j)' = Held(j)
  BY <1>4, <1>6, <1>7
<1> QED
  BY <1>3, <1>4, <1>8

\* A handler that ends after its calls, or before them, keeps the order.
LEMMA FinishKeeps ==
  ASSUME OInv, IInv', NEW w \in Worker, Running(w), Orphaned(w) \/ Rejected(w) \/ Written(w)
  PROVE  Ordered'
<1> SUFFICES ASSUME NEW k, k = h[w].key
             PROVE  Ordered'
  OBVIOUS
<1>1. /\ WorksOn(w, k) /\ AloneOn(w, k) /\ k \in Keys /\ h'[w] = IdleFrame
      /\ cut' = {} /\ fw' = fw /\ \A j \in Keys : Held(j)' = Held(j)
  BY FinishHolds
<1>2. ~Running(w)'
  BY <1>1 DEF Running, IdleFrame
<1>3. ObjectsHeld' /\ AttachmentsHeld'
  BY <1>1, ObjectsSame DEF SameObjects
<1>4. KeepsOtherAtt(k)
  BY <1>1 DEF KeepsOtherAtt
<1> QED
  BY <1>1, <1>2, <1>3, <1>4, OrderedFrom

\* What a good answer does to the frame.
TookOn(w, k, next, obj) ==
  /\ h'[w].op = h[w].op /\ h'[w].key = k /\ h'[w].pc = next /\ h'[w].obj = obj
  /\ h'[w].nqn = h[w].nqn /\ h'[w].cur = h[w].cur
  /\ h'[w].todo = h[w].todo /\ h'[w].seen = h[w].seen
  /\ UNCHANGED <<reply, store>> /\ cut' = {} /\ Running(w)'
  /\ WorksOn(w, k) /\ AloneOn(w, k) /\ k \in Keys
  /\ \A j \in Keys : j # k => Held(j)' = Held(j)

\* What a handler that goes on to its next call leaves as it was.
LEMMA TakesOn ==
  ASSUME OInv, IInv', NEW w \in Worker, Running(w), NEW next, next # "idle", NEW obj,
         Takes(w, next, obj), NEW k, k = h[w].key
  PROVE  TookOn(w, k, next, obj)
<1>1. PICK b \in BOOLEAN :
        Proceeds(w, [h[w] EXCEPT !.pc = next, !.obj = obj, !.changed = b])
  BY DEF Takes
<1> DEFINE g == [h[w] EXCEPT !.pc = next, !.obj = obj, !.changed = b]
<1>2. h[w] \in Frames
  BY DEF OInv, IInv, TypeOK, HandlersOK
<1>3. /\ g.op = h[w].op /\ g.key = k /\ g.pc = next /\ g.obj = obj /\ g.nqn = h[w].nqn
      /\ g.cur = h[w].cur /\ g.todo = h[w].todo /\ g.seen = h[w].seen
  BY <1>2 DEF Frames
<1>4. h' = [h EXCEPT ![w] = g] /\ UNCHANGED <<reply, store>> /\ cut' = {}
  BY <1>1 DEF Proceeds, Takes, OInv, Ordered
<1> HIDE DEF g
<1>5. /\ WorksOn(w, k) /\ AloneOn(w, k) /\ k \in Keys /\ h'[w] = g
      /\ \A j \in Keys : j # k => Held(j)' = Held(j)
  BY <1>3, <1>4, OwnStep
<1> QED
  BY <1>3, <1>4, <1>5 DEF Running, TookOn

\* A subsystem is made or removed.
LEMMA SubsystemCallsKeep ==
  ASSUME OInv, IInv', NEW w \in Worker, Running(w), MadeSubsystem(w) \/ RemovedSubsystem(w)
  PROVE  Ordered'
<1> SUFFICES ASSUME NEW k, k = h[w].key, NEW q, q = h[w].obj,
                    NEW next, next = IF h[w].op \in CreateOps THEN "list" ELSE "unlist"
             PROVE  Ordered'
  OBVIOUS
<1>1. Going(w) /\ Looping(w) /\ h[w].pc = "rpc" /\ h[w].op \in SubsystemOps /\ Takes(w, next, q)
  BY DEF OInv, Ordered, MadeSubsystem, RemovedSubsystem, At
<1>2. /\ h'[w].op = h[w].op /\ h'[w].key = k /\ h'[w].pc = next /\ h'[w].obj = q
      /\ h'[w].seen = h[w].seen /\ UNCHANGED <<reply, store>> /\ cut' = {} /\ Running(w)'
      /\ WorksOn(w, k) /\ AloneOn(w, k) /\ k \in Keys
      /\ \A j \in Keys : j # k => Held(j)' = Held(j)
  <2>1. TookOn(w, k, next, q)
    BY <1>1, TakesOn
  <2> QED
    BY <2>1 DEF TookOn
<1>3. k \in Subsystems /\ q \in Nqns /\ q # None /\ ~PastChange(h[w]) /\ Root(k) = k
  <2>1. HandlersOK
    BY DEF OInv, IInv, TypeOK
  <2> QED
    BY <1>1, <2>1, RunningTyped, FrontendAssumption, Names DEF FrontendAssumption, PastChange
<1>4. Past(w, k)'
  BY <1>1, <1>2 DEF Past, PastChange
<1>5. Held(k) = store[k] /\ (store[k] = None <=> h[w].op \in CreateOps)
  BY <1>3, Holdings
<1>6. Held(k)' = IF h[w].op \in CreateOps THEN q ELSE None
  <2> HIDE DEF CreateOps
  <2> QED
    BY <1>2, <1>4, HeldByNext
<1>7. Going(w)'
  BY <1>1, <1>2, GoesOn DEF StepsOf
<1>8. Looping(w)'
  BY <1>1, <1>2 DEF Looping
<1>9. fw'.att = fw.att /\ KeepsOtherAtt(k)
  BY DEF MadeSubsystem, RemovedSubsystem, KeepsOtherAtt
<1>10. CASE MadeSubsystem(w)
  <2>1. ObjectsHeld' /\ AttachmentsHeld'
    BY <1>2, <1>3, <1>5, <1>6, <1>10, ObjectsMade DEF MadeSubsystem, At
  <2> QED
    BY <1>2, <1>7, <1>8, <1>9, <2>1, OrderedFrom
<1>11. CASE RemovedSubsystem(w)
  <2>1. q = store[k] /\ h[w].op = "DeleteNvmeSubsystem"
    BY <1>1, <1>11 DEF Going, RemovedSubsystem, At
  <2>2. ObjectsHeld' /\ AttachmentsHeld'
    BY <1>2, <1>3, <1>5, <1>6, <1>11, <2>1, ObjectsRemoved DEF RemovedSubsystem
  <2> QED
    BY <1>2, <1>7, <1>8, <1>9, <2>2, OrderedFrom
<1> QED
  BY <1>10, <1>11

\* A controller or a namespace is made or removed.
LEMMA ChildCallsKeep ==
  ASSUME OInv, IInv', NEW w \in Worker, Running(w),
         MadeController(w) \/ RemovedController(w) \/ MadeNamespace(w) \/ RemovedNamespace(w)
  PROVE  Ordered'
<1> SUFFICES ASSUME NEW k, k = h[w].key, NEW q, q = h[w].nqn,
                    NEW next, next = IF h[w].op \in DeleteOps THEN "unlist"
                                     ELSE IF h[w].op = "CreateNvmeNamespace" THEN "range"
                                     ELSE "list"
             PROVE  Ordered'
  OBVIOUS
<1>1. /\ Going(w) /\ Looping(w) /\ h[w].pc = "rpc" /\ h[w].op \notin SubsystemOps
      /\ h[w].op \in CreateOps \cup DeleteOps
  BY DEF OInv, Ordered, MadeController, RemovedController, MadeNamespace, RemovedNamespace, At
<1>2. PICK n :
        /\ Takes(w, next, n)
        /\ h[w].op \in CreateOps => Adds(k, q, n) /\ fw'.att = fw.att
        /\ h[w].op \in DeleteOps => n = h[w].obj /\ Removes(k, q, n)
  BY <1>1 DEF MadeController, RemovedController, MadeNamespace, RemovedNamespace, At
<1>3. /\ h'[w].op = h[w].op /\ h'[w].key = k /\ h'[w].pc = next /\ h'[w].obj = n
      /\ h'[w].seen = h[w].seen /\ h'[w].nqn = q
      /\ UNCHANGED <<reply, store>> /\ cut' = {} /\ Running(w)'
      /\ WorksOn(w, k) /\ AloneOn(w, k) /\ k \in Keys
      /\ \A j \in Keys : j # k => Held(j)' = Held(j)
  <2>1. TookOn(w, k, next, n)
    BY <1>2, TakesOn
  <2> QED
    BY <2>1 DEF TookOn
<1>4. /\ k \in Children /\ Root(k) = Parent[k] /\ q = Held(Parent[k]) /\ q # None
      /\ q = store[Root(k)] /\ (store[k] = None <=> h[w].op \in CreateOps)
      /\ Held(k) = store[k]
  BY <1>1, Holdings DEF PastChange
<1>5. Past(w, k)'
  BY <1>1, <1>3 DEF Past, PastChange
<1>6. Held(k)' = IF h[w].op \in CreateOps THEN n ELSE None
  <2> HIDE DEF CreateOps
  <2> QED
    BY <1>3, <1>5, HeldByNext
<1>7. Going(w)'
  BY <1>1, <1>2, <1>3, <1>4, GoesOn DEF StepsOf
<1>8. ObjectsHeld' /\ AttachmentsHeld' /\ KeepsOtherAtt(k)
  <2>1. CASE h[w].op \in CreateOps
    <3>1. n \in CtrlrNums \cup NsNums /\ fw'.att = fw.att
      BY <1>2, <2>1 DEF Adds
    <3>2. n # None
      BY <3>1, NumsAreInts, FrontendAssumption DEF FrontendAssumption
    <3> QED
      BY <1>2, <1>3, <1>4, <1>6, <2>1, <3>1, <3>2, ObjectsAdded DEF KeepsOtherAtt
  <2>2. CASE h[w].op \in DeleteOps
    <3>1. n = Held(k) /\ Held(k) # None /\ Removes(k, q, Held(k))
      BY <1>1, <1>2, <1>4, <2>2 DEF Going
    <3>2. CASE RemovedController(w)
      <4>1. k \in Controllers /\ k \notin Namespaces
        BY <3>2, RunningOn, FrontendAssumption
           DEF RemovedController, At, OInv, FrontendAssumption
      <4>2. fw'.att = {a \in fw.att : ~(a.nqn = q /\ a.ctrl = n)}
        BY <1>2, <2>2, <3>2 DEF RemovedController
      <4> QED
        BY <1>3, <1>4, <1>6, <2>2, <3>1, <4>1, <4>2, ObjectsGone DEF KeepsOtherAtt
    <3>3. CASE RemovedNamespace(w)
      <4>1. k \in Namespaces /\ k \notin Controllers
        BY <3>3, RunningOn, FrontendAssumption
           DEF RemovedNamespace, At, OInv, FrontendAssumption
      <4>2. fw'.att = fw.att /\ \A a \in fw.att : ~(a.nqn = q /\ a.ns = n)
        BY <1>2, <2>2, <3>3 DEF RemovedNamespace
      <4> QED
        <5>1. Held(k)' = None /\ fw'.att \subseteq fw.att
          BY <1>6, <2>2, <4>2
        <5>2. \A a \in fw'.att : a.nqn = q =>
                /\ k \in Controllers => a.ctrl # Held(k)
                /\ k \in Namespaces => a.ns # Held(k)
          BY <3>1, <4>1, <4>2
        <5>3. ObjectsHeld' /\ AttachmentsHeld'
          BY <1>3, <1>4, <3>1, <5>1, <5>2, ObjectsGone
        <5> QED
          BY <4>2, <5>3 DEF KeepsOtherAtt
    <3> QED
      BY <2>2, <3>2, <3>3 DEF MadeController, MadeNamespace, At
  <2> QED
    BY <1>1, <2>1, <2>2
<1>9. Looping(w)'
  <2>1. h[w].seen = {}
    BY <1>1 DEF Looping
  <2>2. CASE h[w].op = "CreateNvmeNamespace"
    <3>1. k \in Namespaces /\ k \notin Controllers
      BY <2>2, RunningOn, FrontendAssumption DEF OInv, FrontendAssumption
    <3>2. fw'.att = fw.att /\ \A p \in fw.nss : ~(p.nqn = q /\ p.id = n)
      BY <1>2, <2>2, <3>1 DEF Adds
    <3>3. ASSUME NEW c, (Attachment(c, k) \in fw.att)'
          PROVE  FALSE
      <4>1. Attachment(c, k)'.nqn = q /\ Attachment(c, k)'.ns = n
        <5>1. Held(Parent[k])' = Held(Parent[k])
          BY <1>3, <1>4, Names
        <5> QED
          BY <1>4, <1>6, <2>2, <5>1 DEF Attachment
      <4>2. PICK d \in Alive(Controllers), m \in Alive(Namespaces) :
              Attachment(c, k)' = Attachment(d, m)
        BY <3>2, <3>3 DEF OInv, Ordered, AttachmentsHeld
      <4>3. Object(m) \in fw.nss
        BY ObjectThere DEF Alive
      <4>4. Object(m).nqn = q /\ Object(m).id = n
        BY <4>1, <4>2 DEF Object, Attachment
      <4> QED
        BY <3>2, <4>3, <4>4
    <3>4. h'[w].pc = "range" /\ h'[w].op = "CreateNvmeNamespace" /\ Reached(h[w])' = {}
      BY <1>3, <2>1, <2>2 DEF Reached
    <3> QED
      BY <1>3, <2>1, <3>3, <3>4 DEF Looping
  <2>3. CASE h[w].op = "DeleteNvmeNamespace"
    <3>1. \A c : Attachment(c, k)'.ns = None
      BY <1>6, <2>3 DEF Attachment
    <3>2. \A a \in fw'.att : a.ns # None
      BY NumsAreInts, FrontendAssumption DEF FrontendAssumption, IInv, TypeOK, FwStates
    <3>3. \A c : ~(Attachment(c, k) \in fw.att)'
      BY <3>1, <3>2
    <3> QED
      BY <1>3, <2>1, <2>3, <3>3 DEF Looping
  <2>4. CASE h[w].op \notin NamespaceOps
    BY <1>1, <1>3, <2>1, <2>4 DEF Looping
  <2> QED
    BY <2>2, <2>3, <2>4
<1> QED
  BY <1>3, <1>7, <1>8, <1>9, OrderedFrom

\* A namespace is attached to the next controller, or detached from it.
LEMMA AttachCallsKeep ==
  ASSUME OInv, IInv', NEW w \in Worker, Running(w), Attached(w) \/ Detached(w)
  PROVE  Ordered'
<1> SUFFICES ASSUME NEW k, k = h[w].key, NEW i, i = h[w].obj, NEW c, c = h[w].cur,
                    NEW x, x = AttachmentOf(w)
             PROVE  Ordered'
  OBVIOUS
<1>1. /\ Going(w) /\ Looping(w) /\ h[w].pc = "call" /\ h[w].op \in NamespaceOps
      /\ Takes(w, "loop", i) /\ SameObjects
  BY DEF OInv, Ordered, Attached, Detached, At
<1>2. /\ h'[w].op = h[w].op /\ h'[w].key = k /\ h'[w].pc = "loop" /\ h'[w].obj = i
      /\ h'[w].seen = h[w].seen /\ h'[w].todo = h[w].todo /\ h'[w].nqn = h[w].nqn
      /\ UNCHANGED <<reply, store>> /\ cut' = {} /\ Running(w)'
      /\ WorksOn(w, k) /\ AloneOn(w, k) /\ k \in Keys
      /\ \A j \in Keys : j # k => Held(j)' = Held(j)
  <2>1. TookOn(w, k, "loop", i)
    BY <1>1, TakesOn
  <2> QED
    BY <2>1 DEF TookOn
<1>3. /\ c \in Siblings(Root(k)) /\ c \in Controllers /\ k \in Namespaces
      /\ Parent[c] = Parent[k] /\ Root(k) = Parent[k] /\ Held(c) # None /\ Held(k) # None
      /\ Held(Parent[k]) = h[w].nqn /\ x = Attachment(c, k)
      /\ \A d \in Siblings(Root(k)) : d # c => Attachment(d, k) # Attachment(c, k)
  BY <1>1, CallOf
<1>4. Held(k)' = Held(k)
  <2>1. Past(w, k)' <=> Past(w, k)
    BY <1>1, <1>2 DEF Past, PastChange
  <2> HIDE DEF CreateOps
  <2> QED
    BY <1>2, <2>1, HeldBy, HeldByNext DEF OInv
<1>5. \A j \in Keys : Held(j)' = Held(j)
  BY <1>2, <1>4
<1>6. fw'.att = fw.att \cup {x} \/ fw'.att = fw.att \ {x}
  BY DEF Attached, Detached
<1>7. ObjectsHeld' /\ AttachmentsHeld'
  <2>1. \A a \in fw'.att :
          \/ a \in fw.att
          \/ \E d \in Alive(Controllers), n \in Alive(Namespaces) :
               Parent[d] = Parent[n] /\ a = Attachment(d, n)
    BY <1>3, <1>6 DEF Alive
  <2> QED
    BY <1>1, <1>5, <2>1, ObjectsSame
<1>8. KeepsOtherAtt(k)
  <2>1. x.nqn = Held(Root(k)) /\ Held(Root(k)) # None
    <3>1. Held(Parent[k]) # None
      BY <1>3 DEF OInv, Ordered, ObjectsHeld, Alive, Children
    <3> QED
      BY <1>3, <3>1 DEF Attachment
  <2> QED
    BY <1>6, <2>1 DEF KeepsOtherAtt
<1>9. Going(w)'
  <2>1. h[w].nqn = store[Root(k)] /\ h[w].nqn # None
    BY <1>1 DEF Going
  <2> QED
    BY <1>1, <1>2, <2>1, GoesOn DEF StepsOf
<1>10. Looping(w)'
  <2>1. \A d \in Siblings(Root(k)) : Attachment(d, k)' = Attachment(d, k)
    <3>1. \A d \in Siblings(Root(k)) : d \in Keys
      BY Names DEF Siblings, Children
    <3>2. Parent[k] \in Keys
      BY <1>3, Names DEF Children
    <3> QED
      BY <1>2, <1>5, <3>1, <3>2 DEF Attachment
  <2>2. Siblings(Root(k))' = Siblings(Root(k))
    BY <1>2 DEF Siblings
  <2>3. Reached(h[w]) = h[w].seen \ {c} /\ Reached(h[w])' = h[w].seen /\ c \in h[w].seen
    BY <1>1, <1>2 DEF Reached, Looping
  <2>4. h[w].todo = Siblings(Root(k)) /\ h[w].seen \subseteq Siblings(Root(k))
    BY <1>1 DEF Looping
  <2>5. CASE Attached(w)
    <3>1. h[w].op = "CreateNvmeNamespace" /\ PastChange(h[w]) /\ fw'.att = fw.att \cup {x}
      BY <2>5 DEF Attached, At, PastChange
    <3>2. \A d \in Siblings(Root(k)) : Attachment(d, k) \in fw.att <=> d \in Reached(h[w])
      BY <1>1, <3>1 DEF Looping
    <3>3. \A d \in Siblings(Root(k)) : (Attachment(d, k) \in fw.att)' <=> d \in h[w].seen
      BY <1>3, <2>1, <2>3, <3>1, <3>2
    <3> QED
      BY <1>2, <2>2, <2>3, <2>4, <3>1, <3>3 DEF Looping
  <2>6. CASE Detached(w)
    <3>1. h[w].op = "DeleteNvmeNamespace" /\ h[w].pc # "parent" /\ fw'.att = fw.att \ {x}
      BY <1>1, <2>6 DEF Detached, At
    <3>2. \A d \in Siblings(Root(k)) : Attachment(d, k) \in fw.att => d \notin Reached(h[w])
      BY <1>1, <3>1 DEF Looping
    <3>3. \A d \in Siblings(Root(k)) : (Attachment(d, k) \in fw.att)' => d \notin h[w].seen
      BY <1>3, <2>1, <2>3, <3>1, <3>2
    <3> QED
      BY <1>2, <2>2, <2>3, <2>4, <3>1, <3>3 DEF Looping
  <2> QED
    BY <2>5, <2>6
<1> QED
  BY <1>2, <1>7, <1>8, <1>9, <1>10, OrderedFrom

---------------------------------------------------------------------------
(* Every step keeps the order.                                             *)

\* Nothing is in the way of a handler, and it keeps to its request's steps.
LEMMA HandleOrdered ==
  ASSUME OInv, IInv', Faultless, IdsAgree, LenientDetach, NEW w \in Worker, Handle(w)
  PROVE  Ordered'
<1>1. Running(w)
  BY StepsOwnFrame DEF OInv, IInv, TypeOK, HandlersOK
<1>2. Ordinary(w)
  BY OrderedSteps
<1> QED
  BY <1>1, <1>2, QuietStepsKeep, LoopStepsKeep, SubsystemCallsKeep, ChildCallsKeep,
     AttachCallsKeep, FinishKeeps DEF Ordinary

\* A request is taken up, or answered at once.
TakesUp(w, op, k, pc, obj) ==
  /\ \/ op \in SubsystemOps /\ k \in Subsystems
     \/ op \in ControllerOps /\ k \in Controllers
     \/ op \in NamespaceOps /\ k \in Namespaces
  /\ pc \in StepsOf(op) \cap {"scan", "parent", "rpc"}
  /\ op \notin SubsystemOps => pc = "parent"
  /\ store[k] = None <=> op \in CreateOps
  /\ op \in DeleteOps => obj = store[k]
  /\ op = "CreateNvmeSubsystem" => obj \in NqnOf[k]
  /\ op = "CreateNvmeController" => obj \in CtrlrNums \cup {autoCtrlrIDAllocation}
  /\ op = "CreateNvmeNamespace" => obj \in NsNums
  /\ op = "UpdateNvmeController" => obj \in {store[k], autoCtrlrIDAllocation}
  /\ Receives(w, op, k) /\ Start(w, op, k, pc, obj)
  /\ UNCHANGED <<store, ListHelper, fw>>

AnswersAtOnce(w, code) ==
  /\ ~Running(w) /\ Answer(w, code)
  /\ UNCHANGED <<store, ListHelper, fw>>

\* Every request is one or the other.
LEMMA RequestSteps ==
  ASSUME IdsAgree, NEW w \in Worker, Request(w)
  PROVE  \/ \E op, k, pc, obj : TakesUp(w, op, k, pc, obj)
         \/ \E code \in {"OK", "NotFound", "Failed"} : AnswersAtOnce(w, code)
<1> DEFINE Goal == \/ \E op, k, pc, obj : TakesUp(w, op, k, pc, obj)
                   \/ \E code \in {"OK", "NotFound", "Failed"} : AnswersAtOnce(w, code)
           Up(op, k, pc, obj) ==
             Receives(w, op, k) /\ Start(w, op, k, pc, obj) /\ UNCHANGED <<store, ListHelper, fw>>
<1>1. ASSUME NEW op, NEW k, NEW code \in {"OK", "NotFound", "Failed"}, Receives(w, op, k),
             Answer(w, code), UNCHANGED <<store, ListHelper, fw>>
      PROVE  Goal
  BY <1>1 DEF AnswersAtOnce, Receives
<1>2. /\ \A s \in Subsystems : \A q \in NqnOf[s] : store[s] = None =>
           (Up("CreateNvmeSubsystem", s, "scan", q) => Goal)
      /\ \A s \in Subsystems : store[s] # None =>
           (Up("DeleteNvmeSubsystem", s, "rpc", store[s]) => Goal)
  <2>1. ASSUME NEW s \in Subsystems, NEW q \in NqnOf[s], store[s] = None,
               Up("CreateNvmeSubsystem", s, "scan", q)
        PROVE  TakesUp(w, "CreateNvmeSubsystem", s, "scan", q)
    BY <2>1 DEF TakesUp, StepsOf
  <2>2. ASSUME NEW s \in Subsystems, store[s] # None,
               Up("DeleteNvmeSubsystem", s, "rpc", store[s])
        PROVE  TakesUp(w, "DeleteNvmeSubsystem", s, "rpc", store[s])
    BY <2>2 DEF TakesUp, StepsOf
  <2> HIDE DEF Up
  <2> QED
    BY <2>1, <2>2
<1>3. /\ \A c \in Controllers, id \in CtrlrNums \cup {autoCtrlrIDAllocation} : store[c] = None =>
           (Up("CreateNvmeController", c, "parent", id) => Goal)
      /\ \A c \in Controllers : store[c] # None =>
           (Up("DeleteNvmeController", c, "parent", store[c]) => Goal)
      /\ \A c \in Controllers : \A id \in {store[c], autoCtrlrIDAllocation} : store[c] # None =>
           (Up("UpdateNvmeController", c, "parent", id) => Goal)
  <2>1. ASSUME NEW c \in Controllers, NEW id \in CtrlrNums \cup {autoCtrlrIDAllocation},
               store[c] = None, Up("CreateNvmeController", c, "parent", id)
        PROVE  TakesUp(w, "CreateNvmeController", c, "parent", id)
    BY <2>1 DEF TakesUp, StepsOf
  <2>2. ASSUME NEW c \in Controllers, store[c] # None,
               Up("DeleteNvmeController", c, "parent", store[c])
        PROVE  TakesUp(w, "DeleteNvmeController", c, "parent", store[c])
    BY <2>2 DEF TakesUp, StepsOf
  <2>3. ASSUME NEW c \in Controllers, NEW id \in {store[c], autoCtrlrIDAllocation},
               store[c] # None, Up("UpdateNvmeController", c, "parent", id)
        PROVE  TakesUp(w, "UpdateNvmeController", c, "parent", id)
    BY <2>3 DEF TakesUp, StepsOf
  <2> HIDE DEF Up
  <2> QED
    BY <2>1, <2>2, <2>3
<1>4. /\ \A n \in Namespaces, i \in NsNums : store[n] = None =>
           (Up("CreateNvmeNamespace", n, "parent", i) => Goal)
      /\ \A n \in Namespaces : store[n] # None =>
           (Up("DeleteNvmeNamespace", n, "parent", store[n]) => Goal)
  <2>1. ASSUME NEW n \in Namespaces, NEW i \in NsNums, store[n] = None,
               Up("CreateNvmeNamespace", n, "parent", i)
        PROVE  TakesUp(w, "CreateNvmeNamespace", n, "parent", i)
    BY <2>1 DEF TakesUp, StepsOf
  <2>2. ASSUME NEW n \in Namespaces, store[n] # None,
               Up("DeleteNvmeNamespace", n, "parent", store[n])
        PROVE  TakesUp(w, "DeleteNvmeNamespace", n, "parent", store[n])
    BY <2>2 DEF TakesUp, StepsOf
  <2> HIDE DEF Up
  <2> QED
    BY <2>1, <2>2
<1> HIDE DEF Goal
<1>5. ASSUME NEW s \in Subsystems,
             \/ \E q \in NqnOf[s] : CreateNvmeSubsystem(w, s, q)
             \/ \E m \in BOOLEAN : DeleteNvmeSubsystem(w, s, m)
             \/ UpdateNvmeSubsystem(w, s)
      PROVE  Goal
  BY <1>1, <1>2, <1>5 DEF CreateNvmeSubsystem, DeleteNvmeSubsystem, UpdateNvmeSubsystem
<1>6. ASSUME NEW c \in Controllers,
             \/ \E id \in CtrlrNums \cup {autoCtrlrIDAllocation} : CreateNvmeController(w, c, id)
             \/ \E m \in BOOLEAN : DeleteNvmeController(w, c, m)
             \/ UpdateNvmeController(w, c)
      PROVE  Goal
  <2>1. UpdateIds(c) = {store[c], autoCtrlrIDAllocation}
    BY DEF UpdateIds, IdsAgree
  <2> QED
    BY <1>1, <1>3, <1>6, <2>1
       DEF CreateNvmeController, DeleteNvmeController, UpdateNvmeController
<1>7. ASSUME NEW n \in Namespaces,
             \/ \E i \in NsNums : CreateNvmeNamespace(w, n, i)
             \/ \E m \in BOOLEAN : DeleteNvmeNamespace(w, n, m)
             \/ UpdateNvmeNamespace(w, n)
      PROVE  Goal
  BY <1>1, <1>4, <1>7 DEF CreateNvmeNamespace, DeleteNvmeNamespace, UpdateNvmeNamespace
<1>8. Goal
  BY <1>5, <1>6, <1>7 DEF Request
<1> QED
  BY <1>8 DEF Goal

\* The handler that takes a request up has the subsystem to itself and has changed
\* nothing.
TookUp(w, op, k, pc, obj) ==
  /\ WorksOn(w, k) /\ AloneOn(w, k) /\ k \in Keys /\ cut' = {} /\ Running(w)'
  /\ h[w].pc = "idle" /\ h'[w].op = op /\ h'[w].key = k /\ h'[w].pc = pc /\ h'[w].obj = obj
  /\ h'[w].changed = FALSE /\ h'[w].seen = {}
  /\ reply' = [reply EXCEPT ![w] = "none"] /\ reply'[w] = "none"
  /\ \A j \in Keys : Held(j)' = Held(j)

\* What a request that arrives leaves as it was.
LEMMA StartHolds ==
  ASSUME OInv, IInv', BySubsystem, NEW w \in Worker, NEW op, NEW k, NEW pc, NEW obj,
         TakesUp(w, op, k, pc, obj)
  PROVE  TookUp(w, op, k, pc, obj)
<1>0. k \in Keys /\ pc \in {"scan", "parent", "rpc"}
  BY DEF TakesUp, Keys, Children
<1> DEFINE g == [IdleFrame EXCEPT !.op = op, !.pc = pc, !.key = k, !.obj = obj]
<1>1. /\ g.op = op /\ g.key = k /\ g.pc = pc /\ g.obj = obj /\ g.changed = FALSE
      /\ g.seen = {} /\ pc # "idle"
  BY <1>0 DEF IdleFrame
<1>2. /\ h' = [h EXCEPT ![w] = g] /\ reply' = [reply EXCEPT ![w] = "none"]
      /\ cut' = {} /\ store' = store
  BY DEF TakesUp, Start, OInv, Ordered
<1> HIDE DEF g
<1>3. /\ h \in [Worker -> Frames] /\ h' \in [Worker -> Frames]
      /\ reply \in [Worker -> {"none", "OK", "NotFound", "Failed"}]
  BY DEF OInv, IInv, TypeOK, HandlersOK
<1>4. h'[w] = g /\ reply'[w] = "none" /\ \A v \in Worker : v # w => h'[v] = h[v] /\ reply'[v] = reply[v]
  BY <1>2, <1>3
<1>5. WorksOn(w, k)
  BY <1>1, <1>2, <1>3, <1>4 DEF TakesUp, WorksOn, Receives, Running
<1>6. ASSUME NEW v \in Worker, Running(v)
      PROVE  Root(h[v].key) # Root(k)
  <2>1. h[v].key \in Keys /\ h[v].key \notin Conflicts[k]
    BY <1>6, RunningOn DEF TakesUp, Receives, OInv
  <2> QED
    BY <1>0, <2>1 DEF BySubsystem
<1>7. AloneOn(w, k)
  BY <1>6 DEF AloneOn
<1>8. Running(w)' /\ h'[w].key = k
  BY <1>1, <1>4 DEF Running
<1>9. Held(k)' = Held(k)
  <2>1. Held(k) = store[k]
    BY <1>6, HeldFree
  <2>2. ~Past(w, k)'
    BY <1>0, <1>1, <1>4 DEF Past, PastChange
  <2> QED
    BY <1>2, <1>8, <2>1, <2>2, HeldByNext
<1>10. \A j \in Keys : Held(j)' = Held(j)
  BY <1>0, <1>5, <1>9, OthersHold DEF OInv
<1> QED
  BY <1>0, <1>1, <1>2, <1>4, <1>5, <1>7, <1>8, <1>10 DEF TakesUp, TookUp, Receives, Running

\* So the order of things stays.
LEMMA StartOrdered ==
  ASSUME OInv, IInv', BySubsystem, NEW w \in Worker, NEW op, NEW k, NEW pc, NEW obj,
         TakesUp(w, op, k, pc, obj)
  PROVE  Ordered'
<1>1. TookUp(w, op, k, pc, obj)
  BY StartHolds
<1> USE DEF TakesUp, TookUp
<1>2. ObjectsHeld' /\ AttachmentsHeld'
  BY <1>1, ObjectsSame DEF SameObjects
<1>3. KeepsOtherAtt(k)
  BY DEF KeepsOtherAtt
<1>4. Going(w)'
  BY <1>1 DEF Going
<1>5. Looping(w)'
  BY <1>1 DEF Looping, PastChange, StepsOf
<1> QED
  BY <1>1, <1>2, <1>3, <1>4, <1>5, OrderedFrom

\* A request that is answered at once changes nothing.
LEMMA AnswerOrdered ==
  ASSUME OInv, NEW w \in Worker, ~Running(w), NEW code, Answer(w, code),
         UNCHANGED <<store, ListHelper, fw>>
  PROVE  Ordered'
<1>1. /\ UNCHANGED <<store, fw, h, cut>> /\ \A v \in Worker : v # w => reply'[v] = reply[v]
  BY DEF Answer, OInv, IInv, TypeOK
<1>2. \A k : Held(k)' = Held(k)
  BY <1>1 DEF Held, Past
<1>3. ObjectsHeld' /\ AttachmentsHeld'
  BY <1>1, <1>2, ObjectsSame DEF SameObjects
<1>4. OnePerSubsystem'
  BY <1>1 DEF OnePerSubsystem, OInv, Ordered, Running
<1>5. ASSUME NEW v \in Worker, Running(v)'
      PROVE  Going(v)' /\ Looping(v)'
  <2>1. Running(v) /\ v # w
    BY <1>1, <1>5 DEF Running
  <2>2. Going(v) /\ Looping(v)
    BY <2>1 DEF OInv, Ordered
  <2>3. Going(v)'
    BY <1>1, <2>1, <2>2 DEF Going
  <2>4. Siblings(Root(h[v].key))' = Siblings(Root(h[v].key)) /\ Reached(h[v])' = Reached(h[v])
    BY <1>1 DEF Siblings, Reached
  <2>5. \A c : Attachment(c, h[v].key)' = Attachment(c, h[v].key)
    BY <1>1, <1>2 DEF Attachment
  <2>6. Looping(v)'
    BY <1>1, <2>2, <2>4, <2>5 DEF Looping, PastChange
  <2> QED
    BY <2>3, <2>6
<1> QED
  BY <1>1, <1>3, <1>4, <1>5 DEF Ordered, OInv

---------------------------------------------------------------------------
\* A request that arrives is taken up or answered.
LEMMA RequestOrdered ==
  ASSUME OInv, IInv', BySubsystem, IdsAgree, NEW w \in Worker, Request(w)
  PROVE  Ordered'
BY RequestSteps, StartOrdered, AnswerOrdered DEF AnswersAtOnce

\* The assumptions the results below share.
Waiting == BySubsystem /\ Faultless /\ IdsAgree /\ LenientDetach

\* The inductive step: OInv is kept by every step of the Server.
LEMMA StepOrdered ==
  ASSUME OInv, Waiting, [Next]_vars
  PROVE  OInv'
<1>1. \A k \in Keys : k \in Conflicts[k]
  BY DEF Waiting, BySubsystem
<1>2. IInv'
  BY <1>1, StepInOrder, WaitingMakesAlone DEF OInv
<1>3. CASE UNCHANGED vars
  <2>1. \A k : Held(k)' = Held(k)
    BY <1>3 DEF vars, Held, Past
  <2>2. ObjectsHeld' /\ AttachmentsHeld'
    BY <1>3, <2>1, ObjectsSame DEF vars, SameObjects
  <2>3. ASSUME NEW v \in Worker, Running(v)'
        PROVE  Going(v)' /\ Looping(v)'
    <3>1. Going(v) /\ Looping(v)
      BY <1>3, <2>3 DEF OInv, Ordered, vars, Running
    <3>2. Going(v)'
      BY <1>3, <3>1 DEF vars, Going
    <3>3. /\ Siblings(Root(h[v].key))' = Siblings(Root(h[v].key))
          /\ Reached(h[v])' = Reached(h[v])
      BY <1>3 DEF vars, Siblings, Reached
    <3>4. \A c : Attachment(c, h[v].key)' = Attachment(c, h[v].key)
      BY <1>3, <2>1 DEF Attachment, vars
    <3>5. Looping(v)'
      BY <1>3, <3>1, <3>3, <3>4 DEF vars, Looping, PastChange
    <3> QED
      BY <3>2, <3>5
  <2>4. OnePerSubsystem' /\ cut' = {}
    BY <1>3 DEF vars, OInv, Ordered, OnePerSubsystem, Running
  <2> QED
    BY <1>2, <2>2, <2>3, <2>4 DEF OInv, Ordered
<1>4. CASE Next
  BY <1>2, <1>4, RequestOrdered, HandleOrdered DEF Waiting, Next, Restart, Faultless, OInv
<1> QED
  BY <1>3, <1>4

\* At the start nothing runs and nothing is there.
LEMMA InitOrdered == Init => OInv
<1> SUFFICES ASSUME Init PROVE OInv
  OBVIOUS
<1>1. \A w \in Worker : ~Running(w)
  BY DEF Init, Running, IdleFrame
<1>2. \A k \in Keys : Held(k) = None
  BY <1>1, HeldFree DEF Init
<1>3. /\ Alive(Subsystems) = {} /\ Alive(Controllers) = {} /\ Alive(Namespaces) = {}
      /\ Alive(Children) = {}
  BY <1>2 DEF Alive, Keys, Children
<1>4. ObjectsHeld /\ AttachmentsHeld
  BY <1>3 DEF ObjectsHeld, AttachmentsHeld, Init, EmptyFw
<1>5. OnePerSubsystem /\ cut = {}
  BY <1>1 DEF OnePerSubsystem, Init
<1> QED
  BY <1>1, <1>4, <1>5, InitInOrder DEF OInv, Ordered

\* Every state of every behaviour is in order.
LEMMA AlwaysOrdered ==
  ASSUME Waiting
  PROVE  Spec => []OInv
<1>1. OInv /\ [Next]_vars => OInv'
  BY StepOrdered
<1> QED
  BY <1>1, InitOrdered, PTL DEF Spec

---------------------------------------------------------------------------
(* Theorems.                                                               *)

\* A running handler's answer is given by the handler's last step.
LEMMA AnswersLast ==
  ASSUME OInv, Waiting, [Next]_vars, NEW w \in Worker, Running(w), reply'[w] # "none"
  PROVE  \/ Orphaned(w) /\ reply'[w] = "NotFound"
         \/ Rejected(w) /\ reply'[w] = "Failed"
         \/ Written(w)  /\ reply'[w] = "OK"
<1>1. reply[w] = "none" /\ reply \in [Worker -> {"none", "OK", "NotFound", "Failed"}]
  BY DEF OInv, Ordered, Going, IInv, TypeOK
<1>2. ASSUME NEW v \in Worker, Request(v)
      PROVE  FALSE
  <2>1. v # w => reply'[w] = reply[w]
    BY <1>1, <1>2 DEF Request, CreateNvmeSubsystem, DeleteNvmeSubsystem, UpdateNvmeSubsystem,
       CreateNvmeController, DeleteNvmeController, UpdateNvmeController,
       CreateNvmeNamespace, DeleteNvmeNamespace, UpdateNvmeNamespace, Answer, Start
  <2>2. ~Running(v)
    BY <1>2 DEF Request, CreateNvmeSubsystem, DeleteNvmeSubsystem, UpdateNvmeSubsystem,
       CreateNvmeController, DeleteNvmeController, UpdateNvmeController,
       CreateNvmeNamespace, DeleteNvmeNamespace, UpdateNvmeNamespace, Receives
  <2> QED
    BY <1>1, <2>1, <2>2
<1>3. ASSUME NEW v \in Worker, Handle(v)
      PROVE  v = w /\ (Orphaned(v) \/ Rejected(v) \/ Written(v))
  <2>1. Ordinary(v)
    BY <1>3, OrderedSteps DEF Waiting
  <2>2. reply' = reply \/ Orphaned(v) \/ Rejected(v) \/ Written(v)
    BY <2>1 DEF Ordinary, Scanned, Fetched, Listed, Ranged, Picked, LoopLeft, GotId,
       MadeSubsystem, RemovedSubsystem, MadeController, RemovedController, UpdatedController,
       MadeNamespace, RemovedNamespace, Attached, Detached, Takes, Proceeds
  <2>3. v # w => reply'[w] = reply[w]
    BY <1>1, <2>2 DEF Orphaned, Rejected, Written, Finishes
  <2> QED
    BY <1>1, <2>2, <2>3
<1>4. Orphaned(w) \/ Rejected(w) \/ Written(w)
  BY <1>1, <1>2, <1>3 DEF Next, Restart, vars, Waiting, Faultless
<1> QED
  BY <1>1, <1>4 DEF Orphaned, Rejected, Written, Finishes

\* A worker without a request has no operation in its frame.
AtRest == \A w \in Worker : ~Running(w) => h[w].op = "none"

\* Frames are cleared when a handler returns.
LEMMA AlwaysAtRest ==
  ASSUME Waiting
  PROVE  Spec => [](OInv /\ AtRest)
<1>1. ASSUME OInv, AtRest, NEW v \in Worker, NEW g, h' = [h EXCEPT ![v] = g],
             g.pc = "idle" => g.op = "none"
      PROVE  AtRest'
  BY <1>1 DEF AtRest, Running, OInv, IInv, TypeOK, HandlersOK
<1>2. ASSUME OInv, AtRest, NEW v \in Worker, NEW op, NEW k, NEW pc \in {"scan", "parent", "rpc"},
             NEW obj, Start(v, op, k, pc, obj)
      PROVE  AtRest'
  BY <1>1, <1>2 DEF Start, IdleFrame
<1>3. ASSUME OInv, AtRest, NEW v \in Worker, NEW code, Answer(v, code)
      PROVE  AtRest'
  BY <1>3 DEF Answer, AtRest, Running
<1>4. ASSUME OInv, AtRest, NEW v \in Worker, Request(v)
      PROVE  AtRest'
  BY <1>2, <1>3, <1>4 DEF Request, CreateNvmeSubsystem, DeleteNvmeSubsystem, UpdateNvmeSubsystem,
     CreateNvmeController, DeleteNvmeController, UpdateNvmeController,
     CreateNvmeNamespace, DeleteNvmeNamespace, UpdateNvmeNamespace
<1>5. ASSUME OInv, AtRest, NEW v \in Worker, NEW code, Finishes(v, code)
      PROVE  AtRest'
  BY <1>1, <1>5 DEF Finishes, IdleFrame
<1>6. ASSUME OInv, AtRest, NEW v \in Worker, NEW next, next # "idle", NEW obj,
             Takes(v, next, obj)
      PROVE  AtRest'
  <2>1. PICK b \in BOOLEAN :
          h' = [h EXCEPT ![v] = [h[v] EXCEPT !.pc = next, !.obj = obj, !.changed = b]]
    BY <1>6 DEF Takes, Proceeds
  <2>2. [h[v] EXCEPT !.pc = next, !.obj = obj, !.changed = b].pc = next
    BY <1>6 DEF OInv, IInv, TypeOK, HandlersOK, Frames
  <2> QED
    BY <1>1, <1>6, <2>1, <2>2
<1>7. ASSUME OInv, AtRest, NEW v \in Worker, Ordinary(v)
      PROVE  AtRest'
  <2>1. h[v] \in Frames
    BY <1>7 DEF OInv, IInv, TypeOK, HandlersOK
  <2>2. CASE Scanned(v) \/ Fetched(v)
    BY <1>1, <1>7, <2>1, <2>2 DEF Scanned, Fetched, Proceeds, Frames
  <2>3. CASE Listed(v) \/ Ranged(v)
    BY <1>1, <1>7, <2>1, <2>3 DEF Listed, Ranged, Proceeds, Frames
  <2>4. CASE Picked(v) \/ GotId(v)
    BY <1>1, <1>7, <2>1, <2>4 DEF Picked, GotId, Proceeds, Frames
  <2>5. CASE LoopLeft(v)
    BY <1>1, <1>7, <2>1, <2>5 DEF LoopLeft, Proceeds, Frames
  <2>6. CASE Orphaned(v) \/ Rejected(v) \/ Written(v)
    BY <1>5, <1>7, <2>6 DEF Orphaned, Rejected, Written
  <2>7. CASE ~(Scanned(v) \/ Fetched(v) \/ Listed(v) \/ Ranged(v) \/ Picked(v) \/ LoopLeft(v)
               \/ GotId(v) \/ Orphaned(v) \/ Rejected(v) \/ Written(v))
    BY <1>6, <1>7, <2>7 DEF Ordinary, MadeSubsystem, RemovedSubsystem, MadeController,
       RemovedController, UpdatedController, MadeNamespace, RemovedNamespace, Attached, Detached
  <2> QED
    BY <2>2, <2>3, <2>4, <2>5, <2>6, <2>7
<1>8. OInv /\ AtRest /\ [Next]_vars => AtRest'
  <2> SUFFICES ASSUME OInv, AtRest, [Next]_vars
               PROVE  AtRest'
    OBVIOUS
  <2>1. CASE UNCHANGED vars
    BY <2>1 DEF vars, AtRest, Running
  <2>2. CASE Next
    BY <1>4, <1>7, <2>2, OrderedSteps DEF Next, Restart, Waiting, Faultless
  <2> QED
    BY <2>1, <2>2
<1>9. Init => AtRest
  BY DEF Init, AtRest, IdleFrame
<1> QED
  BY <1>8, <1>9, AlwaysOrdered, PTL DEF Spec

\* For any number of names, clients and ids, whatever NQNs the subsystems share:
\* when clients wait for their requests on a subsystem and nothing fails, a
\* namespace that is created is attached to every controller of its subsystem that
\* no request works on.
THEOREM AttachedEverywhere ==
  ASSUME Waiting
  PROVE  Spec => NewNamespaceAttached
<1> DEFINE Everywhere(w) ==
      \A c \in Controllers :
        Settled(c) /\ Parent[c] = Parent[h[w].key] /\ store[c] # None =>
          [nqn |-> h[w].nqn, ctrl |-> store[c], ns |-> h[w].obj] \in fw.att
<1>1. ASSUME OInv, AtRest, [Next]_vars, NEW w \in Worker, h[w].op = "CreateNvmeNamespace",
             reply'[w] = "OK"
      PROVE  Everywhere(w)
  <2>1. Running(w)
    BY <1>1 DEF AtRest
  <2>2. Written(w)
    BY <1>1, <2>1, AnswersLast
  <2> SUFFICES ASSUME NEW k, k = h[w].key, NEW c \in Controllers, Parent[c] = Parent[k],
                      store[c] # None
               PROVE  [nqn |-> h[w].nqn, ctrl |-> store[c], ns |-> h[w].obj] \in fw.att
    BY DEF Everywhere
  <2>3. k \in Keys /\ k \in Namespaces /\ Root(k) = Parent[k] /\ h[w].nqn = Held(Parent[k])
        /\ h[w].pc = "save"
    <3>1. h[w].pc \in StepsOf("CreateNvmeNamespace") /\ h[w].pc \in {"save", "erase"}
      BY <1>1, <2>1, <2>2 DEF OInv, Ordered, Going, Written
    <3>2. h[w].pc = "save" /\ k \in Namespaces
      BY <1>1, <2>1, <3>1, RunningOn DEF StepsOf, OInv
    <3> QED
      BY <1>1, <2>1, <3>2, Holdings DEF OInv
  <2>4. Held(c) = store[c]
    BY <1>1, <2>1, <2>3, Holdings, Names, FrontendAssumption DEF FrontendAssumption, Children
  <2>5. Held(k) = h[w].obj
    BY <1>1, <2>1, <2>3, HeldBy DEF Past, PastChange, OInv
  <2>6. Attachment(c, k) \in fw.att
    <3>1. c \in Siblings(Root(k)) /\ Looping(w)
      BY <1>1, <2>1, <2>3 DEF Siblings, OInv, Ordered
    <3> QED
      BY <1>1, <2>3, <3>1 DEF Looping, PastChange, Reached
  <2> QED
    BY <2>3, <2>4, <2>5, <2>6 DEF Attachment
<1>2. OInv /\ AtRest /\ [Next]_vars =>
        [\A w \in Worker : h[w].op = "CreateNvmeNamespace" /\ reply'[w] = "OK" => Everywhere(w)]_vars
  BY <1>1
<1> QED
  BY <1>2, AlwaysAtRest, PTL DEF Spec, NewNamespaceAttached

\* In the same instances a delete of a controller or namespace that exists gets
\* through: its subsystem's record is there, and the application refuses none of
\* its calls.
THEOREM DeletesSucceed ==
  ASSUME Waiting
  PROVE  Spec => ChildDeleteSucceeds
<1>1. ASSUME OInv, AtRest, [Next]_vars, NEW w \in Worker,
             h[w].op \in {"DeleteNvmeController", "DeleteNvmeNamespace"}
      PROVE  reply'[w] \notin {"NotFound", "Failed"}
  <2>1. Running(w)
    BY <1>1 DEF AtRest
  <2>2. ~Rejected(w)
    BY <1>1 DEF Rejected, Hopeless
  <2>3. ~Orphaned(w)
    <3> SUFFICES ASSUME Orphaned(w), NEW k, k = h[w].key
                 PROVE  FALSE
      OBVIOUS
    <3>1. /\ Held(k) = store[k] /\ store[k] # None /\ k \in Children /\ Root(k) = Parent[k]
          /\ Parent[k] # k
      BY <1>1, <2>1, Holdings, Names DEF Orphaned, PastChange
    <3>2. Held(Parent[k]) # None
      BY <1>1, <3>1 DEF OInv, Ordered, ObjectsHeld, Alive
    <3>3. Held(Parent[k]) = store[Parent[k]]
      BY <1>1, <2>1, <3>1, Holdings, Names
    <3> QED
      BY <3>1, <3>2, <3>3 DEF Orphaned
  <2> QED
    BY <1>1, <2>1, <2>2, <2>3, AnswersLast
<1>2. OInv /\ AtRest /\ [Next]_vars =>
        [\A w \in Worker :
           h[w].op \in {"DeleteNvmeController", "DeleteNvmeNamespace"} /\ cut = {}
             => reply'[w] \notin {"NotFound", "Failed"}]_vars
  BY <1>1
<1> QED
  BY <1>2, AlwaysAtRest, PTL DEF Spec, ChildDeleteSucceeds

\* In those instances an update of a controller saves the id that the controller has in
\* the application, whatever NQNs subsystems share.
THEOREM SharedNqnsKeepIds ==
  ASSUME Waiting
  PROVE  Spec => UpdateKeepsId
<1> DEFINE Known(w) == \E o \in fw.ctrls : o.owner = h[w].key /\ o.id = store'[h[w].key]
<1>1. ASSUME OInv, NEW w \in Worker, At(w, "UpdateNvmeController", "save"), NEW k, k = h[w].key
      PROVE  /\ h[w].obj = store[k]
             /\ \E o \in fw.ctrls : o.owner = k /\ o.id = store[k]
  <2>1. Running(w)
    BY <1>1 DEF At, Running
  <2>2. h[w].obj = store[k] /\ k \in Controllers
    BY <1>1, <2>1, RunningOn DEF OInv, Ordered, Going, At
  <2>3. Held(k) = store[k] /\ store[k] # None
    BY <1>1, <2>1, Holdings DEF At
  <2>4. Object(k) \in fw.ctrls
    BY <2>2, <2>3, <1>1 DEF OInv, Ordered, ObjectsHeld, Alive
  <2> QED
    BY <2>2, <2>3, <2>4 DEF Object
<1>2. OInv /\ [Next]_vars =>
        [\A w \in Worker :
           At(w, "UpdateNvmeController", "save") /\ reply'[w] = "OK" => Known(w)]_vars
  BY <1>1, UpdateWritesBack DEF OInv
<1> QED
  BY <1>2, AlwaysOrdered, PTL DEF Spec, UpdateKeepsId
=============================================================================
