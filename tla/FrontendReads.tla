--------------------------- MODULE FrontendReads ---------------------------
(***************************************************************************)
(* The reading half of pkg/frontend beside the mutating half: the Get,     *)
(* Stats and List handlers.  They change nothing but the map Pagination,   *)
(* yet they too look a record up, fetch the record of its subsystem and    *)
(* only then ask the application, while other handlers run in between.     *)
(*                                                                         *)
(* A reader r with frame g[r] is a goroutine that handles such a request.  *)
(* An answer is reduced to its code, the objects it lists and its page     *)
(* token.  Tokens are numbered in the order they are made; 0 is the empty  *)
(* token.  The statistics themselves are left out.                         *)
(***************************************************************************)
EXTENDS Frontend, Sequences

CONSTANTS
  Reader,          \* concurrent handlers of read requests
  PageSizes,       \* the page sizes clients ask for
  DefaultPageSize, \* the page size that 0 stands for
  MaxTokens        \* bound: no listing starts once so many tokens are stored

ASSUME FrontendReadsAssumption ==
  /\ PageSizes \subseteq Int
  /\ DefaultPageSize \in Nat
  /\ MaxTokens \in Nat

VARIABLES
  Pagination,  \* Server.Pagination: the offset each token stands for
  g,           \* the frame of each running read handler
  ans          \* the last answer each reader gave

reads == <<Pagination, g, ans>>

IdleRead ==
  [op |-> "none", pc |-> "idle", key |-> None, nqn |-> None, obj |-> None,
   size |-> 0, offset |-> 0]

NoAnswer(code) == [code |-> code, items |-> {}, token |-> 0]

Reading(r) == g[r].pc # "idle"
ReadAt(r, op, pc) == g[r].op = op /\ g[r].pc = pc

ReadInit ==
  /\ Init
  /\ Pagination = <<>>
  /\ g = [r \in Reader |-> IdleRead]
  /\ ans = [r \in Reader |-> NoAnswer("none")]

---------------------------------------------------------------------------
(* Steps that read handlers share.                                         *)

\* A read request on name k may arrive: like every request, it waits for the
\* running requests its client waits for.
ReceivesRead(r, k) ==
  /\ ~Reading(r)
  /\ \A v \in Worker : Running(v) => h[v].key \notin Conflicts[k]

\* A mutating request that worker w takes up waits for running reads alike.
WaitsForReads(w) ==
  \A r \in Reader : g[r].key \in Keys => h'[w].key \notin Conflicts[g[r].key]

Reply(r, answer) ==
  /\ g' = [g EXCEPT ![r] = IdleRead]
  /\ ans' = [ans EXCEPT ![r] = answer]

\* The handler looks up the record of its name.
LookUp(r, op, k, next, missing) ==
  /\ ReceivesRead(r, k)
  /\ \/ /\ store[k] # None
        /\ g' = [g EXCEPT ![r] = [IdleRead EXCEPT !.op = op, !.pc = next, !.key = k,
                                                  !.obj = store[k]]]
        /\ ans' = [ans EXCEPT ![r] = NoAnswer("none")]
     \/ store[k] = None /\ Reply(r, NoAnswer(missing))
     \/ StoreFaults /\ Reply(r, NoAnswer("Failed"))
  /\ UNCHANGED Pagination

\* The handler fetches the record of subsystem s.
FetchNqn(r, s) ==
  /\ \/ /\ store[s] # None
        /\ g' = [g EXCEPT ![r].nqn = store[s], ![r].pc = "rpc"]
        /\ UNCHANGED ans
     \/ store[s] = None /\ Reply(r, NoAnswer("NotFound"))
     \/ StoreFaults /\ Reply(r, NoAnswer("Failed"))
  /\ UNCHANGED Pagination

FetchParent(r) == FetchNqn(r, Parent[g[r].key])

\* The call for information on an object succeeds if the object exists.
Ask(r, exists) ==
  /\ \/ Reply(r, NoAnswer(IF exists THEN "OK" ELSE "Failed"))
     \/ RpcFaults /\ Reply(r, NoAnswer("Failed"))
  /\ UNCHANGED Pagination

\* utils.ExtractPagination: a token must be in Pagination, a size must not be
\* negative, and size 0 stands for a default.
ExtractPagination(r, op, s, next, size, token) ==
  /\ Len(Pagination) < MaxTokens
  /\ \/ size < 0 /\ Reply(r, NoAnswer("Failed"))
     \/ size >= 0 /\ token \notin {0} \cup DOMAIN Pagination /\ Reply(r, NoAnswer("NotFound"))
     \/ /\ size >= 0 /\ token \in {0} \cup DOMAIN Pagination
        /\ g' = [g EXCEPT ![r] =
                    [IdleRead EXCEPT
                       !.op = op, !.pc = next, !.key = s,
                       !.size = IF size = 0 THEN DefaultPageSize ELSE size,
                       !.offset = IF token = 0 THEN 0 ELSE Pagination[token]]]
        /\ ans' = [ans EXCEPT ![r] = NoAnswer("none")]
  /\ UNCHANGED Pagination

\* utils.LimitPagination: the application lists its objects in an order of its
\* own; the page is what follows the offset, up to the size.
Pages(items, offset, size) ==
  LET rest == Cardinality(items) - offset IN
  {p \in SUBSET items : Cardinality(p) = IF size < rest THEN size ELSE rest}

\* A listing that does not reach the end makes a token for the rest and stores
\* it, but the answer does not carry it.
ListPage(r, items) ==
  LET end == g[r].offset + g[r].size IN
  \/ /\ \E p \in Pages(items, g[r].offset, g[r].size) :
          Reply(r, [code |-> "OK", items |-> p, token |-> 0])
     /\ Pagination' = IF end < Cardinality(items) THEN Append(Pagination, end) ELSE Pagination
  \/ /\ RpcFaults
     /\ Reply(r, NoAnswer("Failed"))
     /\ UNCHANGED Pagination

---------------------------------------------------------------------------
(* nvme_subsystem.go                                                       *)

ListNvmeSubsystems(r, size, token) ==
  ~Reading(r) /\ ExtractPagination(r, "ListNvmeSubsystems", None, "rpc", size, token)

ListNvmeSubsystemsRpc(r) ==
  ReadAt(r, "ListNvmeSubsystems", "rpc") /\ ListPage(r, fw.subs)

GetNvmeSubsystem(r, s) == LookUp(r, "GetNvmeSubsystem", s, "rpc", "NotFound")

GetNvmeSubsystemRpc(r) ==
  ReadAt(r, "GetNvmeSubsystem", "rpc") /\ Ask(r, g[r].obj \in fw.subs)

StatsNvmeSubsystem(r, s) == LookUp(r, "StatsNvmeSubsystem", s, "rpc", "NotFound")

StatsNvmeSubsystemRpc(r) ==
  ReadAt(r, "StatsNvmeSubsystem", "rpc") /\ Ask(r, g[r].obj \in fw.subs)

---------------------------------------------------------------------------
(* nvme_controller.go                                                      *)

ListNvmeControllers(r, s, size, token) ==
  /\ ReceivesRead(r, s)
  /\ ExtractPagination(r, "ListNvmeControllers", s, "parent", size, token)

ListNvmeControllersParent(r) ==
  ReadAt(r, "ListNvmeControllers", "parent") /\ FetchNqn(r, g[r].key)

\* The application refuses to list what is in no subsystem.
ListNvmeControllersRpc(r) ==
  /\ ReadAt(r, "ListNvmeControllers", "rpc")
  /\ IF g[r].nqn \in fw.subs
     THEN ListPage(r, CtrlrIds(fw, g[r].nqn))
     ELSE Reply(r, NoAnswer("Failed")) /\ UNCHANGED Pagination

GetNvmeController(r, c) == LookUp(r, "GetNvmeController", c, "parent", "Failed")

GetNvmeControllerParent(r) ==
  ReadAt(r, "GetNvmeController", "parent") /\ FetchParent(r)

GetNvmeControllerRpc(r) ==
  /\ ReadAt(r, "GetNvmeController", "rpc")
  /\ Ask(r, g[r].obj \in CtrlrIds(fw, g[r].nqn))

\* Mutant: the controller is asked for with id 0.
StatsNvmeControllerRpcZeroId(r) ==
  /\ ReadAt(r, "StatsNvmeController", "rpc")
  /\ Ask(r, 0 \in CtrlrIds(fw, g[r].nqn))

StatsNvmeController(r, c) == LookUp(r, "StatsNvmeController", c, "parent", "Failed")

StatsNvmeControllerParent(r) ==
  ReadAt(r, "StatsNvmeController", "parent") /\ FetchParent(r)

StatsNvmeControllerRpc(r) ==
  /\ ReadAt(r, "StatsNvmeController", "rpc")
  /\ Ask(r, g[r].obj \in CtrlrIds(fw, g[r].nqn))

---------------------------------------------------------------------------
(* nvme_namespace.go                                                       *)

ListNvmeNamespaces(r, s, size, token) ==
  /\ ReceivesRead(r, s)
  /\ ExtractPagination(r, "ListNvmeNamespaces", s, "parent", size, token)

ListNvmeNamespacesParent(r) ==
  ReadAt(r, "ListNvmeNamespaces", "parent") /\ FetchNqn(r, g[r].key)

ListNvmeNamespacesRpc(r) ==
  /\ ReadAt(r, "ListNvmeNamespaces", "rpc")
  /\ IF g[r].nqn \in fw.subs
     THEN ListPage(r, NsIds(fw, g[r].nqn))
     ELSE Reply(r, NoAnswer("Failed")) /\ UNCHANGED Pagination

\* Mutant: the record of the subsystem is not fetched.
GetNvmeNamespaceNoParent(r, n) == LookUp(r, "GetNvmeNamespace", n, "rpc", "NotFound")

GetNvmeNamespace(r, n) == LookUp(r, "GetNvmeNamespace", n, "parent", "NotFound")

GetNvmeNamespaceParent(r) ==
  ReadAt(r, "GetNvmeNamespace", "parent") /\ FetchParent(r)

GetNvmeNamespaceRpc(r) ==
  /\ ReadAt(r, "GetNvmeNamespace", "rpc")
  /\ Ask(r, g[r].obj \in NsIds(fw, g[r].nqn))

StatsNvmeNamespace(r, n) == LookUp(r, "StatsNvmeNamespace", n, "parent", "NotFound")

StatsNvmeNamespaceParent(r) ==
  ReadAt(r, "StatsNvmeNamespace", "parent") /\ FetchParent(r)

StatsNvmeNamespaceRpc(r) ==
  /\ ReadAt(r, "StatsNvmeNamespace", "rpc")
  /\ Ask(r, g[r].obj \in NsIds(fw, g[r].nqn))

---------------------------------------------------------------------------

\* The tokens a client can send: none, the one it was given last, or one that
\* was never made.
Tokens(r) == {0, ans[r].token, MaxTokens + 1}

ReadRequest(r) ==
  \/ \E size \in PageSizes, t \in Tokens(r) :
       \/ ListNvmeSubsystems(r, size, t)
       \/ \E s \in Subsystems : ListNvmeControllers(r, s, size, t)
       \/ \E s \in Subsystems : ListNvmeNamespaces(r, s, size, t)
  \/ \E s \in Subsystems : GetNvmeSubsystem(r, s) \/ StatsNvmeSubsystem(r, s)
  \/ \E c \in Controllers : GetNvmeController(r, c) \/ StatsNvmeController(r, c)
  \/ \E n \in Namespaces : GetNvmeNamespace(r, n) \/ StatsNvmeNamespace(r, n)

ReadHandle(r) ==
  \/ ListNvmeSubsystemsRpc(r) \/ GetNvmeSubsystemRpc(r) \/ StatsNvmeSubsystemRpc(r)
  \/ ListNvmeControllersParent(r) \/ ListNvmeControllersRpc(r)
  \/ GetNvmeControllerParent(r) \/ GetNvmeControllerRpc(r)
  \/ StatsNvmeControllerParent(r) \/ StatsNvmeControllerRpc(r)
  \/ ListNvmeNamespacesParent(r) \/ ListNvmeNamespacesRpc(r)
  \/ GetNvmeNamespaceParent(r) \/ GetNvmeNamespaceRpc(r)
  \/ StatsNvmeNamespaceParent(r) \/ StatsNvmeNamespaceRpc(r)

\* NewServer makes an empty Pagination; clients keep the answers they have.
RestartReads ==
  /\ Restart
  /\ Pagination' = <<>>
  /\ g' = [r \in Reader |-> IdleRead]
  /\ UNCHANGED ans

ReadNext ==
  \/ \E w \in Worker : ((Request(w) /\ WaitsForReads(w)) \/ Handle(w)) /\ UNCHANGED reads
  \/ \E r \in Reader : (ReadRequest(r) \/ ReadHandle(r)) /\ UNCHANGED vars
  \/ RestartReads

ReadSpec == ReadInit /\ [][ReadNext]_<<vars, reads>>
---------------------------------------------------------------------------
(* What makes the reads correct.                                           *)

ListOps  == {"ListNvmeSubsystems", "ListNvmeControllers", "ListNvmeNamespaces"}
GetOps   == {"GetNvmeSubsystem", "GetNvmeController", "GetNvmeNamespace"}
StatsOps == {"StatsNvmeSubsystem", "StatsNvmeController", "StatsNvmeNamespace"}

\* The calls that name no subsystem, and the names each request is about.
BareOps == {"ListNvmeSubsystems", "GetNvmeSubsystem", "StatsNvmeSubsystem"}

ReadKeys(op) ==
  CASE op = "ListNvmeSubsystems" -> {None}
    [] op \in {"GetNvmeController", "StatsNvmeController"} -> Controllers
    [] op \in {"GetNvmeNamespace", "StatsNvmeNamespace"} -> Namespaces
    [] OTHER -> Subsystems

\* What the call of a read needs is there.
ReadFrameOK(f) ==
  \/ f = IdleRead
  \/ /\ f.op # "none" /\ f.key \in ReadKeys(f.op)
     /\ f.op \in GetOps \cup StatsOps =>
          /\ f.key \in Subsystems => f.obj \in Nqns
          /\ f.key \in Controllers => f.obj \in CtrlrNums
          /\ f.key \in Namespaces => f.obj \in NsNums
     /\ f.pc = "rpc" /\ f.op \notin BareOps => f.nqn \in Nqns

ReadFrames ==
  [op : ListOps \cup GetOps \cup StatsOps \cup {"none"}, pc : {"idle", "parent", "rpc"},
   key : Keys \cup {None}, nqn : Nqns \cup {None},
   obj : Nqns \cup CtrlrNums \cup NsNums \cup {None}, size : Nat, offset : Nat]

\* Type invariant of the reading half: the frames and answers of the readers and
\* the offsets in Pagination.  A call that needs an NQN never gets an unset one.
ReadTypeOK ==
  /\ Pagination \in Seq(Nat)
  /\ g \in [Reader -> ReadFrames] /\ \A r \in Reader : ReadFrameOK(g[r])
  /\ ans \in [Reader -> [code : {"none", "OK", "NotFound", "Failed"},
                         items : SUBSET (Nqns \cup CtrlrNums \cup NsNums), token : Nat]]

\* The objects of the application a listing is about.
ListedObjects(f) ==
  IF f.op = "ListNvmeControllers" THEN {o \in fw.ctrls : o.nqn = f.nqn}
                                  ELSE {o \in fw.nss : o.nqn = f.nqn}

\* As long as no request was cut short, a read that gets to its call is answered,
\* and from the object of its own name: the id and the NQN it read in two steps
\* before are still that object's when the call is made.  A listing shows only
\* objects of names below the subsystem it was asked about.
ReadAnswersOwn ==
  [][\A r \in Reader : g[r].pc = "rpc" /\ ans'[r].code # "none" /\ cut = {} =>
       /\ ans'[r].code = "OK" \/ RpcFaults
       /\ g[r].key \in Children =>
            \E o \in fw.ctrls \cup fw.nss :
              o.owner = g[r].key /\ o.nqn = g[r].nqn /\ o.id = g[r].obj
       /\ g[r].op \in ListOps /\ g[r].key \in Subsystems =>
            \A i \in ans'[r].items :
              \E o \in ListedObjects(g[r]) : o.id = i /\ Parent[o.owner] = g[r].key]_<<vars, reads>>

\* "Empty NextPageToken indicates end of results list": an answer without a token
\* shows what was left to show.
EmptyTokenEndsList ==
  [][\A r \in Reader :
       ReadAt(r, "ListNvmeSubsystems", "rpc") /\ ans'[r].code = "OK" /\ ans'[r].token = 0
         => g[r].offset + Cardinality(ans'[r].items) = Cardinality(fw.subs)]_<<vars, reads>>
=============================================================================
