----------------------------- MODULE Frontend -----------------------------
(***************************************************************************)
(* The mutating half of pkg/frontend: the Server that keeps one record per *)
(* NVMe subsystem, controller and namespace in a key-value store, keeps    *)
(* the names of those records in the map ListHelper, and mirrors every     *)
(* change to the Marvell SPDK application (MrvlNvm) over JSON-RPC.         *)
(*                                                                         *)
(* gRPC runs each request in a goroutine of its own and the Server has no  *)
(* lock, so a handler is a process (a worker w with a frame h[w]) that     *)
(* interleaves with the others between any two of its accesses to shared   *)
(* state: each store.Get/Set/Delete, each access to ListHelper and each    *)
(* rpc.Call is a step.  The first store.Get of a handler is part of the    *)
(* step in which the request arrives: nothing shared is touched before it. *)
(*                                                                         *)
(* A record is abstracted to what later calls read from it: the NQN of a   *)
(* subsystem, the controller id of a controller, the HostNsid of a         *)
(* namespace.  Requests are the ones the validators let through.           *)
(***************************************************************************)
EXTENDS MrvlNvm, FiniteSets

CONSTANTS
  Worker,          \* concurrent request handlers
  Subsystems,      \* names nvmeSubsystems/<id>
  Controllers,     \* names nvmeSubsystems/<id>/nvmeControllers/<id>
  Namespaces,      \* names nvmeSubsystems/<id>/nvmeNamespaces/<id>
  Parent,          \* the subsystem in a controller's or namespace's name
  Nqns,            \* NQNs clients use
  NqnOf,           \* the NQNs clients give to each subsystem name
  None,            \* no record, no value
  Ops,             \* the requests clients send
  Conflicts,       \* the names whose running requests a client waits for
  ForeignUpdates,  \* UpdateNvmeController may carry any controller id
  RpcFaults,       \* an rpc.Call may fail or lose its answer
  StoreFaults,     \* a store operation may fail
  Restarts         \* the bridge may be restarted

Children == Controllers \cup Namespaces
Keys     == Subsystems \cup Children

ASSUME FrontendAssumption ==
  /\ Subsystems \cap Children = {} /\ Controllers \cap Namespaces = {}
  /\ Parent \in [Children -> Subsystems]
  /\ NqnOf \in [Subsystems -> SUBSET Nqns]
  /\ None \notin Keys \cup Nqns \cup Int
  /\ Conflicts \in [Keys -> SUBSET Keys]
  /\ ForeignUpdates \in BOOLEAN
  /\ RpcFaults \in BOOLEAN /\ StoreFaults \in BOOLEAN /\ Restarts \in BOOLEAN

\* The subsystem a name belongs to: utils.GetSubsystemIDFromNvmeName.
Root(k) == IF k \in Subsystems THEN k ELSE Parent[k]

VARIABLES
  store,       \* the gokv.Store: the record of each name, or None
  ListHelper,  \* the names in Server.ListHelper
  fw,          \* the state of the Marvell application
  h,           \* the frame of each running handler
  reply,       \* the last answer each worker gave
  cut          \* history: requests <<op, name>> that changed fw and then failed

vars == <<store, ListHelper, fw, h, reply, cut>>

SubsystemOps  == {"CreateNvmeSubsystem", "DeleteNvmeSubsystem"}
ControllerOps == {"CreateNvmeController", "DeleteNvmeController", "UpdateNvmeController"}
NamespaceOps  == {"CreateNvmeNamespace", "DeleteNvmeNamespace"}
MutatingOps   == SubsystemOps \cup ControllerOps \cup NamespaceOps
CreateOps     == {"CreateNvmeSubsystem", "CreateNvmeController", "CreateNvmeNamespace"}
DeleteOps     == {"DeleteNvmeSubsystem", "DeleteNvmeController", "DeleteNvmeNamespace"}

\* A frame: the request, where its handler is (pc), and the handler's locals:
\* nqn is subsys.Spec.Nqn, obj the id or NQN of the object it works on, cur and
\* ctl the controller of the current loop iteration and its id.  todo and seen
\* are the state of a range over ListHelper.  changed is history: the request has changed fw.
IdleFrame ==
  [op |-> "none", pc |-> "idle", key |-> None, nqn |-> None, obj |-> None,
   cur |-> None, ctl |-> None, todo |-> {}, seen |-> {}, changed |-> FALSE]

Running(w) == h[w].pc # "idle"
At(w, op, pc) == h[w].op = op /\ h[w].pc = pc

Init ==
  /\ store = [k \in Keys |-> None]
  /\ ListHelper = {}
  /\ fw = EmptyFw
  /\ h = [w \in Worker |-> IdleFrame]
  /\ reply = [w \in Worker |-> "none"]
  /\ cut = {}

---------------------------------------------------------------------------
(* Steps that handlers share.                                              *)

\* The request op on name k may reach worker w.
Receives(w, op, k) ==
  /\ ~Running(w)
  /\ op \in Ops
  /\ \A v \in Worker : Running(v) => h[v].key \notin Conflicts[k]

\* The handler answers without having changed anything.
Answer(w, code) ==
  /\ reply' = [reply EXCEPT ![w] = code]
  /\ UNCHANGED <<h, cut>>

\* The handler goes on past its first store.Get.
Start(w, op, k, pc, obj) ==
  /\ h' = [h EXCEPT ![w] = [IdleFrame EXCEPT !.op = op, !.pc = pc,
                                             !.key = k, !.obj = obj]]
  /\ reply' = [reply EXCEPT ![w] = "none"]
  /\ UNCHANGED cut

\* The handler returns; changed tells whether its request has changed fw.
ReturnAfter(w, code, changed) ==
  /\ h' = [h EXCEPT ![w] = IdleFrame]
  /\ reply' = [reply EXCEPT ![w] = code]
  /\ cut' = IF code # "OK" /\ changed THEN cut \cup {<<h[w].op, h[w].key>>} ELSE cut

Return(w, code) == ReturnAfter(w, code, h[w].changed)

Goto(w, pc) ==
  /\ h' = [h EXCEPT ![w].pc = pc]
  /\ UNCHANGED <<reply, cut>>

\* The handler reads the record of its parent subsystem.
FetchSubsystem(w, next) ==
  LET q == store[Parent[h[w].key]] IN
  /\ \/ /\ q # None
        /\ h' = [h EXCEPT ![w].nqn = q, ![w].pc = next]
        /\ UNCHANGED <<reply, cut>>
     \/ q = None /\ Return(w, "NotFound")
     \/ StoreFaults /\ Return(w, "Failed")
  /\ UNCHANGED <<store, ListHelper, fw>>

\* rpc.Call: the call is answered, or it fails before or after it took effect.
Call(answers) ==
  IF RpcFaults
  THEN answers \cup {Refused(fw)} \cup {[a EXCEPT !.ok = FALSE] : a \in answers}
  ELSE answers

\* Mutant: the status of an answer is not looked at.
TakeAnswerUnchecked(w, a, next, obj) ==
  /\ fw' = a.fw
  /\ h' = [h EXCEPT ![w].pc = next, ![w].obj = obj,
                    ![w].changed = h[w].changed \/ a.fw # fw]
  /\ UNCHANGED <<store, ListHelper, reply, cut>>

\* The handler takes answer a of a call and goes on with obj, or gives up.
TakeAnswer(w, a, next, obj) ==
  LET changed == h[w].changed \/ a.fw # fw IN
  /\ fw' = a.fw
  /\ IF a.ok
     THEN /\ h' = [h EXCEPT ![w].pc = next, ![w].obj = obj, ![w].changed = changed]
          /\ UNCHANGED <<reply, cut>>
     ELSE ReturnAfter(w, "Failed", changed)
  /\ UNCHANGED <<store, ListHelper>>

\* Mutant: the name is not entered in ListHelper.
ListNameForgotten(w) == Goto(w, "save") /\ UNCHANGED <<store, ListHelper, fw>>

\* s.ListHelper[name] = false
ListName(w) ==
  /\ ListHelper' = ListHelper \cup {h[w].key}
  /\ Goto(w, "save")
  /\ UNCHANGED <<store, fw>>

\* Mutant: the name stays in ListHelper.
UnlistNameForgotten(w) == Goto(w, "erase") /\ UNCHANGED <<store, ListHelper, fw>>

\* delete(s.ListHelper, name)
UnlistName(w) ==
  /\ ListHelper' = ListHelper \ {h[w].key}
  /\ Goto(w, "erase")
  /\ UNCHANGED <<store, fw>>

\* Mutant: an error of the store is ignored.
WriteStoreUnchecked(w, value) ==
  /\ \/ store' = [store EXCEPT ![h[w].key] = value]
     \/ StoreFaults /\ UNCHANGED store
  /\ Return(w, "OK")
  /\ UNCHANGED <<ListHelper, fw>>

\* The last store.Set or store.Delete of a handler.  When it fails it may have
\* been applied.
WriteStore(w, value) ==
  /\ \/ /\ store' = [store EXCEPT ![h[w].key] = value]
        /\ \/ Return(w, "OK")
           \/ StoreFaults /\ Return(w, "Failed")
     \/ /\ StoreFaults
        /\ Return(w, "Failed")
        /\ UNCHANGED store
  /\ UNCHANGED <<ListHelper, fw>>

\* The listed names that have the prefix subsys.Name + "/nvmeControllers".
ListedControllers(s) == {c \in ListHelper \cap Controllers : Parent[c] = s}

\* A range over ListHelper starts: todo are the controllers in it.
RangeControllers(w) ==
  /\ h' = [h EXCEPT ![w].todo = ListedControllers(Root(h[w].key)),
                    ![w].pc = "loop"]
  /\ UNCHANGED <<store, ListHelper, fw, reply, cut>>

\* Mutant: a controller that was handled is picked again.
PickControllerAgain(w, next) ==
  LET listed == ListedControllers(Root(h[w].key)) IN
  /\ \/ \E c \in listed : h' = [h EXCEPT ![w].cur = c, ![w].pc = "get"]
     \/ listed = {} /\ h' = [h EXCEPT ![w].pc = next]
  /\ UNCHANGED <<store, ListHelper, fw, reply, cut>>

\* Mutant: the loop is left after its first controller.
PickControllerOnce(w, next) ==
  LET listed == ListedControllers(Root(h[w].key)) IN
  /\ \/ h[w].seen = {} /\ \E c \in listed :
          h' = [h EXCEPT ![w].seen = {c}, ![w].cur = c, ![w].pc = "get"]
     \/ /\ listed = {} \/ h[w].seen # {}
        /\ h' = [h EXCEPT ![w].pc = next, ![w].cur = None, ![w].ctl = None,
                          ![w].todo = {}, ![w].seen = {}]
  /\ UNCHANGED <<store, ListHelper, fw, reply, cut>>

\* One iteration picks a controller, or the loop is over.  Go visits each entry
\* once, never one that was deleted before it was reached, and may or may not
\* visit one that was added after the start.
PickController(w, next) ==
  LET listed == ListedControllers(Root(h[w].key)) \ h[w].seen IN
  /\ \/ \E c \in listed :
          h' = [h EXCEPT ![w].seen = @ \cup {c}, ![w].cur = c, ![w].pc = "get"]
     \/ /\ listed \cap h[w].todo = {}
        /\ h' = [h EXCEPT ![w].pc = next, ![w].cur = None, ![w].ctl = None,
                          ![w].todo = {}, ![w].seen = {}]
  /\ UNCHANGED <<store, ListHelper, fw, reply, cut>>

\* The iteration reads the record of its controller.
GetController(w) ==
  LET id == store[h[w].cur] IN
  /\ \/ /\ id # None
        /\ h' = [h EXCEPT ![w].ctl = id, ![w].pc = "call"]
        /\ UNCHANGED <<reply, cut>>
     \/ id = None /\ Return(w, "NotFound")
     \/ StoreFaults /\ Return(w, "Failed")
  /\ UNCHANGED <<store, ListHelper, fw>>

---------------------------------------------------------------------------
(* nvme_subsystem.go                                                       *)

CreateNvmeSubsystem(w, s, q) ==
  /\ Receives(w, "CreateNvmeSubsystem", s)
  /\ q \in NqnOf[s]
  /\ \/ store[s] # None /\ Answer(w, "OK")
     \/ store[s] = None /\ Start(w, "CreateNvmeSubsystem", s, "scan", q)
     \/ StoreFaults /\ Answer(w, "Failed")
  /\ UNCHANGED <<store, ListHelper, fw>>

\* Every name starts with the collection nvmeSubsystems, and the loop over
\* ListHelper looks for names with another prefix.  It gives up on a name
\* without a record and on a record with the NQN of the request.
NamePrefix == "nvmeSubsystems"
ScanPrefix == "//storage.opiproject.org/subsystems"

ScanNqns(w) ==
  LET scanned == {k \in ListHelper : NamePrefix = ScanPrefix} IN
  /\ At(w, "CreateNvmeSubsystem", "scan")
  /\ IF \E k \in scanned : store[k] \in {None, h[w].obj}
     THEN Return(w, "Failed")
     ELSE Goto(w, "rpc")
  /\ UNCHANGED <<store, ListHelper, fw>>

CreateNvmeSubsystemRpc(w) ==
  /\ At(w, "CreateNvmeSubsystem", "rpc")
  /\ \E a \in Call(CreateSubsystem(fw, h[w].obj)) :
       TakeAnswer(w, a, "list", h[w].obj)

\* spdk_get_version, then the name is listed.
CreateNvmeSubsystemList(w) ==
  /\ At(w, "CreateNvmeSubsystem", "list")
  /\ \/ ListName(w)
     \/ /\ RpcFaults
        /\ Return(w, "Failed")
        /\ UNCHANGED <<store, ListHelper, fw>>

CreateNvmeSubsystemSave(w) ==
  /\ At(w, "CreateNvmeSubsystem", "save")
  /\ WriteStore(w, h[w].obj)

DeleteNvmeSubsystem(w, s, allowMissing) ==
  /\ Receives(w, "DeleteNvmeSubsystem", s)
  /\ \/ store[s] # None /\ Start(w, "DeleteNvmeSubsystem", s, "rpc", store[s])
     \/ store[s] = None /\ Answer(w, IF allowMissing THEN "OK" ELSE "NotFound")
     \/ StoreFaults /\ Answer(w, "Failed")
  /\ UNCHANGED <<store, ListHelper, fw>>

DeleteNvmeSubsystemRpc(w) ==
  /\ At(w, "DeleteNvmeSubsystem", "rpc")
  /\ \E a \in Call(DeleteSubsystem(fw, h[w].obj)) :
       TakeAnswer(w, a, "unlist", h[w].obj)

DeleteNvmeSubsystemUnlist(w) ==
  At(w, "DeleteNvmeSubsystem", "unlist") /\ UnlistName(w)

DeleteNvmeSubsystemErase(w) ==
  At(w, "DeleteNvmeSubsystem", "erase") /\ WriteStore(w, None)

\* UpdateNvmeSubsystem only looks the record up.
UpdateNvmeSubsystem(w, s) ==
  /\ Receives(w, "UpdateNvmeSubsystem", s)
  /\ \/ Answer(w, IF store[s] = None THEN "NotFound" ELSE "Failed")
     \/ StoreFaults /\ Answer(w, "Failed")
  /\ UNCHANGED <<store, ListHelper, fw>>

---------------------------------------------------------------------------
(* nvme_controller.go                                                      *)

\* Mutant: an existing record is not looked for.
CreateNvmeControllerUnchecked(w, c, id) ==
  /\ Receives(w, "CreateNvmeController", c)
  /\ Start(w, "CreateNvmeController", c, "parent", id)
  /\ UNCHANGED <<store, ListHelper, fw>>

CreateNvmeController(w, c, id) ==
  /\ Receives(w, "CreateNvmeController", c)
  /\ \/ store[c] # None /\ Answer(w, "OK")
     \/ store[c] = None /\ Start(w, "CreateNvmeController", c, "parent", id)
     \/ StoreFaults /\ Answer(w, "Failed")
  /\ UNCHANGED <<store, ListHelper, fw>>

CreateNvmeControllerParent(w) ==
  At(w, "CreateNvmeController", "parent") /\ FetchSubsystem(w, "rpc")

\* Mutant: the record gets the id of the request.
CreateNvmeControllerRpcRequestedId(w) ==
  /\ At(w, "CreateNvmeController", "rpc")
  /\ \E a \in Call(CreateCtrlr(fw, h[w].nqn, h[w].obj, h[w].key)) :
       TakeAnswer(w, a, "list", h[w].obj)

\* The record gets the id the application returns.
CreateNvmeControllerRpc(w) ==
  /\ At(w, "CreateNvmeController", "rpc")
  /\ \E a \in Call(CreateCtrlr(fw, h[w].nqn, h[w].obj, h[w].key)) :
       TakeAnswer(w, a, "list", a.val)

CreateNvmeControllerList(w) ==
  At(w, "CreateNvmeController", "list") /\ ListName(w)

CreateNvmeControllerSave(w) ==
  At(w, "CreateNvmeController", "save") /\ WriteStore(w, h[w].obj)

\* Mutant: the id in the record is not used.
DeleteNvmeControllerZeroId(w, c, allowMissing) ==
  /\ Receives(w, "DeleteNvmeController", c)
  /\ store[c] # None
  /\ Start(w, "DeleteNvmeController", c, "parent", 0)
  /\ UNCHANGED <<store, ListHelper, fw>>

DeleteNvmeController(w, c, allowMissing) ==
  /\ Receives(w, "DeleteNvmeController", c)
  /\ \/ store[c] # None /\ Start(w, "DeleteNvmeController", c, "parent", store[c])
     \/ store[c] = None /\ Answer(w, IF allowMissing THEN "OK" ELSE "Failed")
     \/ StoreFaults /\ Answer(w, "Failed")
  /\ UNCHANGED <<store, ListHelper, fw>>

DeleteNvmeControllerParent(w) ==
  At(w, "DeleteNvmeController", "parent") /\ FetchSubsystem(w, "rpc")

DeleteNvmeControllerRpc(w) ==
  /\ At(w, "DeleteNvmeController", "rpc")
  /\ \E a \in Call(RemoveCtrlr(fw, h[w].nqn, h[w].obj)) :
       TakeAnswer(w, a, "unlist", h[w].obj)

DeleteNvmeControllerUnlist(w) ==
  At(w, "DeleteNvmeController", "unlist") /\ UnlistName(w)

DeleteNvmeControllerErase(w) ==
  At(w, "DeleteNvmeController", "erase") /\ WriteStore(w, None)

\* The ids an update request carries: none (then the call asks for -1), or the
\* id a client knows the controller by, or any id.
UpdateIds(c) ==
  {autoCtrlrIDAllocation} \cup (IF ForeignUpdates THEN CtrlrNums ELSE {store[c]})

\* The record is read but its id is not used; a bad update mask ends the call.
UpdateNvmeController(w, c) ==
  /\ Receives(w, "UpdateNvmeController", c)
  /\ \/ /\ store[c] # None
        /\ \/ \E id \in UpdateIds(c) : Start(w, "UpdateNvmeController", c, "parent", id)
           \/ Answer(w, "Failed")
     \/ store[c] = None /\ Answer(w, "NotFound")
     \/ StoreFaults /\ Answer(w, "Failed")
  /\ UNCHANGED <<store, ListHelper, fw>>

UpdateNvmeControllerParent(w) ==
  At(w, "UpdateNvmeController", "parent") /\ FetchSubsystem(w, "rpc")

UpdateNvmeControllerRpc(w) ==
  /\ At(w, "UpdateNvmeController", "rpc")
  /\ \E a \in Call(UpdateCtrlr(fw, h[w].nqn, h[w].obj)) :
       TakeAnswer(w, a, "save", a.val)

UpdateNvmeControllerSave(w) ==
  At(w, "UpdateNvmeController", "save") /\ WriteStore(w, h[w].obj)

---------------------------------------------------------------------------
(* nvme_namespace.go                                                       *)

CreateNvmeNamespace(w, n, hostNsid) ==
  /\ Receives(w, "CreateNvmeNamespace", n)
  /\ \/ store[n] # None /\ Answer(w, "OK")
     \/ store[n] = None /\ Start(w, "CreateNvmeNamespace", n, "parent", hostNsid)
     \/ StoreFaults /\ Answer(w, "Failed")
  /\ UNCHANGED <<store, ListHelper, fw>>

CreateNvmeNamespaceParent(w) ==
  At(w, "CreateNvmeNamespace", "parent") /\ FetchSubsystem(w, "rpc")

\* The instance id in the answer is dropped: later calls use the HostNsid.
CreateNvmeNamespaceRpc(w) ==
  /\ At(w, "CreateNvmeNamespace", "rpc")
  /\ \E a \in Call(AllocNs(fw, h[w].nqn, h[w].obj, h[w].key)) :
       TakeAnswer(w, a, "range", h[w].obj)

CreateNvmeNamespaceLoop(w) ==
  \/ At(w, "CreateNvmeNamespace", "range") /\ RangeControllers(w)
  \/ At(w, "CreateNvmeNamespace", "loop") /\ PickController(w, "list")
  \/ At(w, "CreateNvmeNamespace", "get") /\ GetController(w)

CreateNvmeNamespaceAttach(w) ==
  /\ At(w, "CreateNvmeNamespace", "call")
  /\ \E a \in Call(AttachNs(fw, h[w].nqn, h[w].ctl, h[w].obj)) :
       TakeAnswer(w, a, "loop", h[w].obj)

CreateNvmeNamespaceList(w) ==
  At(w, "CreateNvmeNamespace", "list") /\ ListName(w)

CreateNvmeNamespaceSave(w) ==
  At(w, "CreateNvmeNamespace", "save") /\ WriteStore(w, h[w].obj)

DeleteNvmeNamespace(w, n, allowMissing) ==
  /\ Receives(w, "DeleteNvmeNamespace", n)
  /\ \/ store[n] # None /\ Start(w, "DeleteNvmeNamespace", n, "parent", store[n])
     \/ store[n] = None /\ Answer(w, IF allowMissing THEN "OK" ELSE "NotFound")
     \/ StoreFaults /\ Answer(w, "Failed")
  /\ UNCHANGED <<store, ListHelper, fw>>

\* Mutant: the namespace is unallocated without being detached.
DeleteNvmeNamespaceParentNoDetach(w) ==
  At(w, "DeleteNvmeNamespace", "parent") /\ FetchSubsystem(w, "rpc")

DeleteNvmeNamespaceParent(w) ==
  At(w, "DeleteNvmeNamespace", "parent") /\ FetchSubsystem(w, "range")

DeleteNvmeNamespaceLoop(w) ==
  \/ At(w, "DeleteNvmeNamespace", "range") /\ RangeControllers(w)
  \/ At(w, "DeleteNvmeNamespace", "loop") /\ PickController(w, "rpc")
  \/ At(w, "DeleteNvmeNamespace", "get") /\ GetController(w)

DeleteNvmeNamespaceDetach(w) ==
  /\ At(w, "DeleteNvmeNamespace", "call")
  /\ \E a \in Call(DetachNs(fw, h[w].nqn, h[w].ctl, h[w].obj)) :
       TakeAnswer(w, a, "loop", h[w].obj)

DeleteNvmeNamespaceRpc(w) ==
  /\ At(w, "DeleteNvmeNamespace", "rpc")
  /\ \E a \in Call(UnallocNs(fw, h[w].nqn, h[w].obj)) :
       TakeAnswer(w, a, "unlist", h[w].obj)

DeleteNvmeNamespaceUnlist(w) ==
  At(w, "DeleteNvmeNamespace", "unlist") /\ UnlistName(w)

DeleteNvmeNamespaceErase(w) ==
  At(w, "DeleteNvmeNamespace", "erase") /\ WriteStore(w, None)

\* UpdateNvmeNamespace only looks the record up.
UpdateNvmeNamespace(w, n) ==
  /\ Receives(w, "UpdateNvmeNamespace", n)
  /\ \/ Answer(w, IF store[n] = None THEN "NotFound" ELSE "Failed")
     \/ StoreFaults /\ Answer(w, "Failed")
  /\ UNCHANGED <<store, ListHelper, fw>>

---------------------------------------------------------------------------

\* The bridge is killed and started again: NewServer makes an empty ListHelper
\* over the same store, and the application keeps its state.  A crash of the
\* process, for instance on Go's check for concurrent map accesses, is one too.
Restart ==
  /\ Restarts
  /\ ListHelper' = {}
  /\ h' = [w \in Worker |-> IdleFrame]
  /\ reply' = [w \in Worker |-> "none"]
  /\ cut' = cut \cup {<<h[w].op, h[w].key>> : w \in {v \in Worker : h[v].changed}}
  /\ UNCHANGED <<store, fw>>

\* A request arrives at worker w.
Request(w) ==
  \/ \E s \in Subsystems :
       \/ \E q \in NqnOf[s] : CreateNvmeSubsystem(w, s, q)
       \/ \E m \in BOOLEAN : DeleteNvmeSubsystem(w, s, m)
       \/ UpdateNvmeSubsystem(w, s)
  \/ \E c \in Controllers :
       \/ \E id \in CtrlrNums \cup {autoCtrlrIDAllocation} : CreateNvmeController(w, c, id)
       \/ \E m \in BOOLEAN : DeleteNvmeController(w, c, m)
       \/ UpdateNvmeController(w, c)
  \/ \E n \in Namespaces :
       \/ \E i \in NsNums : CreateNvmeNamespace(w, n, i)
       \/ \E m \in BOOLEAN : DeleteNvmeNamespace(w, n, m)
       \/ UpdateNvmeNamespace(w, n)

\* The handler of worker w takes a step.
Handle(w) ==
  \/ ScanNqns(w) \/ CreateNvmeSubsystemRpc(w)
  \/ CreateNvmeSubsystemList(w) \/ CreateNvmeSubsystemSave(w)
  \/ DeleteNvmeSubsystemRpc(w)
  \/ DeleteNvmeSubsystemUnlist(w) \/ DeleteNvmeSubsystemErase(w)
  \/ CreateNvmeControllerParent(w) \/ CreateNvmeControllerRpc(w)
  \/ CreateNvmeControllerList(w) \/ CreateNvmeControllerSave(w)
  \/ DeleteNvmeControllerParent(w) \/ DeleteNvmeControllerRpc(w)
  \/ DeleteNvmeControllerUnlist(w) \/ DeleteNvmeControllerErase(w)
  \/ UpdateNvmeControllerParent(w) \/ UpdateNvmeControllerRpc(w)
  \/ UpdateNvmeControllerSave(w)
  \/ CreateNvmeNamespaceParent(w) \/ CreateNvmeNamespaceRpc(w)
  \/ CreateNvmeNamespaceLoop(w) \/ CreateNvmeNamespaceAttach(w)
  \/ CreateNvmeNamespaceList(w) \/ CreateNvmeNamespaceSave(w)
  \/ DeleteNvmeNamespaceParent(w) \/ DeleteNvmeNamespaceLoop(w)
  \/ DeleteNvmeNamespaceDetach(w) \/ DeleteNvmeNamespaceRpc(w)
  \/ DeleteNvmeNamespaceUnlist(w) \/ DeleteNvmeNamespaceErase(w)

Next == (\E w \in Worker : Request(w) \/ Handle(w)) \/ Restart

Spec == Init /\ [][Next]_vars

\* A goroutine that can run runs, and a call to the store or to the
\* application returns, with an answer or with an error.
FairSpec == Spec /\ \A w \in Worker : WF_vars(Handle(w))

---------------------------------------------------------------------------
(* What makes the Server correct.                                          *)

Phases ==
  {"idle", "scan", "parent", "rpc", "range", "loop", "get", "call", "list", "save",
   "unlist", "erase"}

Frames ==
  [op : MutatingOps \cup {"none"}, pc : Phases, key : Keys \cup {None},
   nqn : Nqns \cup {None}, obj : Nqns \cup Int \cup {None},
   cur : Controllers \cup {None}, ctl : CtrlrNums \cup {None},
   todo : SUBSET Controllers, seen : SUBSET Controllers, changed : BOOLEAN]

\* What the handlers for each kind of name work on: the object a handler is
\* about to store or remove, and the locals its calls take their ids from.
FrameOK(f) ==
  \/ f = IdleFrame
  \/ /\ f.op \in SubsystemOps
     /\ f.key \in Subsystems /\ f.obj \in Nqns
  \/ /\ f.op \in ControllerOps
     /\ f.key \in Controllers /\ f.obj \in CtrlrNums \cup {autoCtrlrIDAllocation}
     /\ f.op = "DeleteNvmeController" \/ f.pc \in {"list", "save"} => f.obj \in CtrlrNums
     /\ f.pc = "rpc" => f.nqn \in Nqns
  \/ /\ f.op \in NamespaceOps
     /\ f.key \in Namespaces /\ f.obj \in NsNums
     /\ f.pc \in {"rpc", "range", "loop", "get", "call"} => f.nqn \in Nqns
     /\ f.pc = "get" => f.cur \in Controllers
     /\ f.pc = "call" => f.ctl \in CtrlrNums

HandlersOK == h \in [Worker -> Frames] /\ \A w \in Worker : FrameOK(h[w])

StoreOK ==
  /\ store \in [Keys -> Nqns \cup CtrlrNums \cup NsNums \cup {None}]
  /\ \A s \in Subsystems : store[s] \in Nqns \cup {None}
  /\ \A c \in Controllers : store[c] \in CtrlrNums \cup {None}
  /\ \A n \in Namespaces : store[n] \in NsNums \cup {None}

\* Type invariant: what each part of the Server's state and of the handlers'
\* locals can be; a record always holds a value of its own kind, and a call
\* that needs an NQN or an id never gets an unset one.
TypeOK ==
  /\ StoreOK
  /\ ListHelper \subseteq Keys
  /\ fw \in FwStates(Nqns, Controllers, Namespaces)
  /\ HandlersOK
  /\ reply \in [Worker -> {"none", "OK", "NotFound", "Failed"}]
  /\ cut \subseteq MutatingOps \X Keys

\* The subsystems that clients may give an NQN of s.
Mates(s) == {t \in Subsystems : NqnOf[t] \cap NqnOf[s] # {}}

\* No request on k or its subsystem is running or was cut short after it had
\* changed the application, and no delete around k was cut short: its record is
\* still there and names what may by now be another's NQN or id.
Settled(k) ==
  /\ \A w \in Worker : h[w].key \notin {k, Root(k)}
  /\ \A r \in cut : r[2] \notin {k, Root(k)} /\ (r[1] \in DeleteOps => Root(r[2]) \notin Mates(Root(k)))

\* The application's objects that hold the hardware resource of name k.
Objects(k) == {[nqn |-> o.nqn, id |-> o.id] : o \in {p \in fw.ctrls \cup fw.nss : p.owner = k}}

\* The records and the Marvell application agree.  A subsystem record has its
\* subsystem in the application and an NQN there belongs to exactly one record;
\* a controller or namespace has exactly the object its record describes, in
\* the subsystem of its parent's record, and none without a record.  A request
\* that fails halfway harms its own name and the names below it only or, if it is
\* a delete, the names of its own subsystem.
Mirrored ==
  /\ \A s \in Subsystems : Settled(s) /\ store[s] # None => store[s] \in fw.subs
  /\ \A q \in fw.subs :
       (\A s \in Subsystems : q \in NqnOf[s] => Settled(s))
         => Cardinality({s \in Subsystems : store[s] = q}) = 1
  /\ \A k \in Children : Settled(k) =>
       Objects(k) = IF store[k] = None THEN {}
                    ELSE {[nqn |-> store[Parent[k]], id |-> store[k]]}

\* ListHelper names the records: a name without a record makes every namespace
\* request of its subsystem fail with NotFound, a record without a name is
\* left out when namespaces are attached and detached.
ListHelperExact ==
  \A k \in Keys : Settled(k) =>
    /\ k \in ListHelper => store[k] # None
    /\ ~Restarts /\ store[k] # None => k \in ListHelper

\* When a client waits for its own requests on a name, they are handled one at
\* a time.
Exclusive ==
  \A v, w \in Worker : Running(v) /\ Running(w) /\ h[v].key = h[w].key => v = w

\* What a handler's first store.Get found is still so at its later steps.
ReadStaysTrue ==
  \A w \in Worker : Running(w) => (store[h[w].key] = None <=> h[w].op \in CreateOps)

\* A create or a delete changes ListHelper and the store only after it has
\* changed the application, ListHelper first.
PastChange(f) ==
  \/ f.pc \in {"list", "save", "unlist", "erase"}
  \/ f.op = "CreateNvmeNamespace" /\ f.pc \in {"range", "loop", "get", "call"}

ChangesInOrder ==
  \A w \in Worker : h[w].op \in CreateOps \cup DeleteOps =>
    /\ PastChange(h[w]) => h[w].changed
    /\ h[w].pc = "save" => h[w].key \in ListHelper
    /\ h[w].pc = "erase" => h[w].key \notin ListHelper

\* ListHelper names the records but for a name that a handler is between its two
\* changes of, or that a request left there.
ListedOrStaged ==
  \A k \in Keys :
    \/ \E r \in cut : r[2] = k
    \/ \E w \in Worker :
         h[w].op \in CreateOps \cup DeleteOps /\ h[w].key = k /\ h[w].pc \in {"save", "erase"}
    \/ /\ k \in ListHelper => store[k] # None
       /\ ~Restarts /\ store[k] # None => k \in ListHelper

\* The check that a name is free or taken is a store.Get at the start of a handler,
\* and the two writes that rely on it come calls later, without a lock: with one
\* request on a name at a time it still holds when they are made, and the two
\* writes never come apart unless the request fails or the bridge stops.
OneAtATime == Exclusive /\ ReadStaysTrue /\ ChangesInOrder /\ ListedOrStaged

\* "idempotent API when called with same key, should return same object": the
\* record of a name is replaced only by an update of it or after a delete.
CreateNeverOverwrites ==
  [][\A k \in Keys :
       store[k] # None /\ store'[k] \notin {None, store[k]}
         => \E w \in Worker : At(w, "UpdateNvmeController", "save") /\ h[w].key = k]_vars

\* "This id along with subnqn will be used to uniquely refer to this namespace by
\* other API's": an object leaves the application only through a delete of its
\* own name, never because a handler uses an id that is now another's.
NoForeignRemoval ==
  [][\A o \in fw.ctrls \cup fw.nss :
       o \notin fw'.ctrls \cup fw'.nss
         => \E w \in Worker : h[w].op \in DeleteOps /\ h[w].key = o.owner]_vars

\* "Now, attach this new NS to ALL controllers": when a namespace is created
\* it is attached to every settled controller of its subsystem.
NewNamespaceAttached ==
  [][\A w \in Worker :
       h[w].op = "CreateNvmeNamespace" /\ reply'[w] = "OK" =>
         \A c \in Controllers :
           Settled(c) /\ Parent[c] = Parent[h[w].key] /\ store[c] # None =>
             [nqn |-> h[w].nqn, ctrl |-> store[c], ns |-> h[w].obj] \in fw.att]_vars

\* "First, detach this NS from ALL controllers": as long as no request was cut
\* short, a delete of an existing controller or namespace gets through all its
\* calls; above all a namespace is detached everywhere before unalloc_ns.
ChildDeleteSucceeds ==
  [][\A w \in Worker :
       h[w].op \in {"DeleteNvmeController", "DeleteNvmeNamespace"} /\ cut = {}
         => reply'[w] \notin {"NotFound", "Failed"}]_vars

\* An update saves the id under which the application knows the controller.
UpdateKeepsId ==
  [][\A w \in Worker :
       At(w, "UpdateNvmeController", "save") /\ reply'[w] = "OK" =>
         \E o \in fw.ctrls : o.owner = h[w].key /\ o.id = store'[h[w].key]]_vars

\* "check if another object exists with same NQN, it is not allowed": no
\* create call is sent for the NQN of another listed record.
DuplicateNqnStopped ==
  \A w \in Worker : At(w, "CreateNvmeSubsystem", "rpc") =>
    \A s \in ListHelper \cap Subsystems : store[s] # h[w].obj

\* Every request is answered, whatever the others do.
RequestsReturn == \A w \in Worker : Running(w) ~> ~Running(w)
=============================================================================
