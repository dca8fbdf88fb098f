--------------------------- MODULE FrontendShared ---------------------------
(* The records and the Marvell application agree also where subsystem      *)
(* names share NQNs, through faults and restarts, when clients wait for    *)
(* their requests on a subsystem.                                          *)
EXTENDS FrontendMirror

---------------------------------------------------------------------------
(* The kinds of steps a handler takes.                                     *)

\* The call of a create or a delete does what it is for, with the NQN or id n.
Effect(w, n) ==
  \/ /\ h[w].op = "CreateNvmeSubsystem" /\ n = h[w].obj /\ n \notin fw.subs
     /\ fw'.subs = fw.subs \cup {n} /\ fw'.ctrls = fw.ctrls /\ fw'.nss = fw.nss
  \/ /\ h[w].op = "DeleteNvmeSubsystem" /\ n = h[w].obj /\ \A o \in Objs : o.nqn # n
     /\ fw'.subs = fw.subs \ {n} /\ fw'.ctrls = fw.ctrls /\ fw'.nss = fw.nss
  \/ h[w].op \in CreateOps \ SubsystemOps /\ Adds(h[w].key, h[w].nqn, n)
  \/ h[w].op \in DeleteOps \ SubsystemOps /\ n = h[w].obj /\ Removes(h[w].key, h[w].nqn, n)

Noted(w) == cut' = cut \cup {<<h[w].op, h[w].key>>}

\* That call is answered, or its answer is lost.
Alters(w) ==
  /\ h[w].pc = "rpc" /\ h[w].op \in CreateOps \cup DeleteOps
  /\ UNCHANGED <<store, ListHelper>>
  /\ \/ /\ h'[w].op = h[w].op /\ h'[w].key = h[w].key /\ h'[w].nqn = h[w].nqn
        /\ h'[w].changed /\ PastChange(h'[w]) /\ h'[w].pc \notin {"save", "erase"}
        /\ UNCHANGED cut /\ Effect(w, h'[w].obj)
     \/ h'[w] = IdleFrame /\ Noted(w) /\ \E n : Effect(w, n)

\* Past its fetch of its parent's record a handler keeps the NQN it found.
KeepsNqn(w, f) ==
  \/ h[w].pc = "parent" /\ f.nqn = store[Parent[h[w].key]] /\ f.nqn # None
  \/ h[w].pc # "parent" /\ f.nqn = h[w].nqn

\* The handler goes on, on the same side of its change, and no object comes or goes;
\* a create or delete that is past its change may write to ListHelper.
GoesOn(w) ==
  /\ SameObjects /\ UNCHANGED <<store, cut>>
  /\ h'[w].op = h[w].op /\ h'[w].key = h[w].key /\ h'[w].obj = h[w].obj /\ h'[w].pc # "idle"
  /\ h[w].changed => h'[w].changed
  /\ h'[w].pc # "parent" /\ KeepsNqn(w, h'[w])
  /\ h[w].op \in CreateOps \cup DeleteOps =>
       h[w].pc \notin {"save", "erase"} /\ (PastChange(h'[w]) <=> PastChange(h[w]))
  /\ \/ UNCHANGED ListHelper /\ (h[w].op \notin CreateOps \cup DeleteOps
                                   \/ h'[w].pc \notin {"save", "erase"})
     \/ h[w].op \in CreateOps /\ h'[w].pc = "save" /\ ListHelper' = ListHelper \cup {h[w].key}
     \/ h[w].op \in DeleteOps /\ h'[w].pc = "erase" /\ ListHelper' = ListHelper \ {h[w].key}

\* The handler returns without a write.
GivesUp(w) ==
  /\ SameObjects /\ UNCHANGED <<store, ListHelper>> /\ h'[w] = IdleFrame
  /\ h[w].op \in CreateOps \cup DeleteOps => h[w].pc \notin {"save", "erase"}
  /\ (UNCHANGED cut /\ ~Past(w, h[w].key)) \/ Noted(w)

\* The handler makes its last write and returns.
Writes(w) ==
  \E value :
    /\ SameObjects /\ UNCHANGED ListHelper /\ h'[w] = IdleFrame
    /\ \/ store' = [store EXCEPT ![h[w].key] = value] /\ (UNCHANGED cut \/ Noted(w))
       \/ UNCHANGED store /\ (Noted(w) \/ (UNCHANGED cut /\ ~h[w].changed))
    /\ \/ h[w].op \in CreateOps /\ h[w].pc = "save" /\ value = h[w].obj
       \/ h[w].op \in DeleteOps /\ h[w].pc = "erase" /\ value = None
       \/ At(w, "UpdateNvmeController", "save") /\ value = h[w].obj

\* A request arrives, and is answered at once or taken up.
Arrives(w) ==
  /\ UNCHANGED <<store, ListHelper, fw, cut>>
  /\ \/ h'[w] = h[w]
     \/ /\ h'[w].op \in MutatingOps /\ h'[w].key \in Keys /\ h'[w].nqn = None
        /\ h'[w].pc \in {"scan", "parent", "rpc"} /\ ~PastChange(h'[w])
        /\ h'[w].op \notin SubsystemOps => h'[w].pc = "parent"
        /\ h'[w].op \in SubsystemOps => h'[w].obj \in NqnOf[h'[w].key]
        /\ store[h'[w].key] = None <=> h'[w].op \in CreateOps
        /\ h'[w].op \in DeleteOps => h'[w].obj = store[h'[w].key]
        /\ h'[w].op = "UpdateNvmeController" =>
             h'[w].obj \in {store[h'[w].key], autoCtrlrIDAllocation}

\* What a handler holds is of its own name, and one that is past its change has
\* changed the application.
Tidy(w) ==
  Running(w) =>
    /\ h[w].op \in SubsystemOps => h[w].obj \in NqnOf[h[w].key]
    /\ h[w].op \notin SubsystemOps => h[w].nqn \in NqnOf[Parent[h[w].key]] \cup {None}
    /\ Past(w, h[w].key) => h[w].changed

\* A handler that goes on without a call.
LEMMA MoveKind ==
  ASSUME TypeOK, NEW w \in Worker, Running(w), NEW g, h' = [h EXCEPT ![w] = g],
         UNCHANGED <<store, fw, cut>>, g.pc # "idle",
         g.op = h[w].op, g.key = h[w].key, g.obj = h[w].obj, g.changed = h[w].changed,
         g.pc # "parent", KeepsNqn(w, g),
         h[w].op \in CreateOps \cup DeleteOps =>
           h[w].pc \notin {"save", "erase"} /\ (PastChange(g) <=> PastChange(h[w])),
         \/ UNCHANGED ListHelper /\ g.pc \notin {"save", "erase"}
         \/ h[w].op \in CreateOps /\ g.pc = "save" /\ ListHelper' = ListHelper \cup {h[w].key}
         \/ h[w].op \in DeleteOps /\ g.pc = "erase" /\ ListHelper' = ListHelper \ {h[w].key}
  PROVE  GoesOn(w)
<1>1. h'[w] = g /\ SameObjects
  BY DEF TypeOK, HandlersOK, SameObjects
<1> QED
  BY <1>1 DEF GoesOn

\* A handler that returns without a write.
LEMMA ReturnKind ==
  ASSUME TypeOK, NEW w \in Worker, NEW code, NEW changed, ReturnAfter(w, code, changed),
         UNCHANGED <<store, ListHelper>>, SameObjects,
         h[w].op \in CreateOps \cup DeleteOps => h[w].pc \notin {"save", "erase"},
         Past(w, h[w].key) => changed /\ code # "OK"
  PROVE  GivesUp(w)
<1>1. h'[w] = IdleFrame
  BY DEF TypeOK, HandlersOK, ReturnAfter
<1> QED
  BY <1>1 DEF ReturnAfter, GivesUp, Noted

\* A call that is refused.
LEMMA RefusedKind ==
  ASSUME TypeOK, NEW w \in Worker, h[w].pc = "rpc", NEW a, NEW next, NEW obj,
         TakeAnswer(w, a, next, obj), a.fw = fw, ~a.ok
  PROVE  GivesUp(w)
<1>1. SameObjects /\ ReturnAfter(w, "Failed", h[w].changed \/ a.fw # fw)
  BY DEF TakeAnswer, SameObjects
<1>2. ~Past(w, h[w].key)
  BY DEF Past, PastChange
<1>3. UNCHANGED <<store, ListHelper>>
  BY DEF TakeAnswer
<1> QED
  BY <1>1, <1>2, <1>3, ReturnKind

\* The call of a create or a delete that has its effect, whether the answer comes or not.
LEMMA ChangeKind ==
  ASSUME TypeOK, NEW w \in Worker, h[w].pc = "rpc", h[w].op \in CreateOps \cup DeleteOps,
         NEW a, NEW next \in {"list", "range", "unlist"}, NEW obj,
         next = "range" => h[w].op = "CreateNvmeNamespace",
         TakeAnswer(w, a, next, obj), a.fw # fw, NEW n, Effect(w, n),
         (a.ok = TRUE /\ obj = n) \/ a.ok = FALSE
  PROVE  Alters(w)
<1>1. h \in [Worker -> Frames] /\ UNCHANGED <<store, ListHelper>>
  BY DEF TypeOK, HandlersOK, TakeAnswer
<1>2. CASE a.ok = TRUE /\ obj = n
  <2> DEFINE g == [h[w] EXCEPT !.pc = next, !.obj = obj, !.changed = TRUE]
  <2>1. h' = [h EXCEPT ![w] = g] /\ UNCHANGED cut
    BY <1>1, <1>2 DEF TakeAnswer, Frames
  <2>2. /\ h'[w].op = h[w].op /\ h'[w].key = h[w].key /\ h'[w].nqn = h[w].nqn
        /\ h'[w].obj = obj /\ h'[w].pc = next /\ h'[w].changed
    BY <1>1, <2>1 DEF Frames
  <2>3. PastChange(h'[w]) /\ h'[w].pc \notin {"save", "erase"}
    BY <2>2 DEF PastChange
  <2> QED
    BY <1>1, <1>2, <2>1, <2>2, <2>3 DEF Alters
<1>3. CASE a.ok = FALSE
  <2>1. h'[w] = IdleFrame /\ Noted(w)
    BY <1>1, <1>3 DEF TakeAnswer, ReturnAfter, Noted
  <2> QED
    BY <1>1, <2>1 DEF Alters
<1> QED
  BY <1>2, <1>3

\* A call that makes no object come or go.
LEMMA CallKind ==
  ASSUME TypeOK, NEW w \in Worker, Running(w), Tidy(w), NEW a, NEW next,
         TakeAnswer(w, a, next, h[w].obj), SameObjects,
         \/ h[w].op = "UpdateNvmeController" /\ h[w].pc = "rpc" /\ next = "save"
         \/ h[w].op \in NamespaceOps /\ h[w].pc = "call" /\ next = "loop"
  PROVE  GoesOn(w) \/ GivesUp(w)
<1> DEFINE changed == h[w].changed \/ a.fw # fw
<1>1. h \in [Worker -> Frames] /\ UNCHANGED <<store, ListHelper>>
  BY DEF TypeOK, HandlersOK, TakeAnswer
<1>2. CASE a.ok
  <2> DEFINE g == [h[w] EXCEPT !.pc = next, !.obj = h[w].obj, !.changed = changed]
  <2>1. h' = [h EXCEPT ![w] = g] /\ UNCHANGED cut
    BY <1>1, <1>2 DEF TakeAnswer, Frames
  <2>2. /\ h'[w].op = h[w].op /\ h'[w].key = h[w].key /\ h'[w].nqn = h[w].nqn
        /\ h'[w].obj = h[w].obj /\ h'[w].pc = next /\ (h[w].changed => h'[w].changed)
    BY <1>1, <2>1 DEF Frames
  <2>3. h[w].op \in CreateOps \cup DeleteOps =>
          h[w].pc = "call" /\ next = "loop" /\ (PastChange(h'[w]) <=> PastChange(h[w]))
    BY <2>2 DEF PastChange, CreateOps, DeleteOps
  <2>4. next # "idle" /\ h'[w].pc # "parent" /\ KeepsNqn(w, h'[w])
    BY <2>2 DEF KeepsNqn
  <2> QED
    BY <1>1, <2>1, <2>2, <2>3, <2>4 DEF GoesOn
<1>3. CASE ~a.ok
  <2>1. ReturnAfter(w, "Failed", changed)
    BY <1>3 DEF TakeAnswer
  <2>2. Past(w, h[w].key) => changed
    BY DEF Tidy
  <2>3. h[w].op \in CreateOps \cup DeleteOps => h[w].pc \notin {"save", "erase"}
    BY DEF CreateOps, DeleteOps
  <2> QED
    BY <1>1, <2>1, <2>2, <2>3, ReturnKind
<1> QED
  BY <1>2, <1>3

\* A handler that reads its parent's record.
LEMMA FetchKind ==
  ASSUME TypeOK, NEW w \in Worker, h[w].pc = "parent", h[w].op \notin SubsystemOps,
         NEW next \in {"rpc", "range"}, next = "range" => h[w].op = "DeleteNvmeNamespace",
         FetchSubsystem(w, next)
  PROVE  GoesOn(w) \/ GivesUp(w)
<1>1. h \in [Worker -> Frames] /\ SameObjects /\ ~PastChange(h[w]) /\ Running(w)
  BY DEF TypeOK, HandlersOK, FetchSubsystem, SameObjects, PastChange, Running
<1>2. CASE Return(w, "NotFound") \/ Return(w, "Failed")
  BY <1>1, <1>2, ReturnKind DEF FetchSubsystem, Return, Past
<1> DEFINE q == store[Parent[h[w].key]]
           g == [h[w] EXCEPT !.nqn = q, !.pc = next]
<1>3. CASE h' = [h EXCEPT ![w].nqn = q, ![w].pc = next] /\ UNCHANGED <<reply, cut>>
  <2>1. h' = [h EXCEPT ![w] = g]
    BY <1>1, <1>3 DEF Frames
  <2>2. /\ g.pc = next /\ g.op = h[w].op /\ g.key = h[w].key /\ g.obj = h[w].obj
        /\ g.nqn = q /\ g.changed = h[w].changed
    BY <1>1 DEF Frames
  <2>3. ~PastChange(g)
    BY <2>2 DEF PastChange
  <2>4. UNCHANGED <<store, fw, cut, ListHelper>>
    BY <1>3 DEF FetchSubsystem
  <2> HIDE DEF g
  <2>5. CASE q # None
    <3>1. KeepsNqn(w, g) /\ g.pc # "parent"
      BY <2>2, <2>5 DEF KeepsNqn
    <3> QED
      BY <1>1, <2>1, <2>2, <2>3, <2>4, <3>1, MoveKind
  <2>6. CASE q = None
    BY <1>2, <1>3, <2>6 DEF FetchSubsystem
  <2> QED
    BY <2>5, <2>6
<1> QED
  BY <1>2, <1>3 DEF FetchSubsystem

\* A handler that only goes on, or writes to ListHelper.
LEMMA GotoKind ==
  ASSUME TypeOK, NEW w \in Worker, NEW next, Goto(w, next), UNCHANGED <<store, fw>>,
         \/ /\ h[w].pc = "scan" /\ next = "rpc" /\ h[w].op = "CreateNvmeSubsystem"
            /\ UNCHANGED ListHelper
         \/ /\ h[w].pc = "list" /\ next = "save" /\ h[w].op \in CreateOps
            /\ ListHelper' = ListHelper \cup {h[w].key}
         \/ /\ h[w].pc = "unlist" /\ next = "erase" /\ h[w].op \in DeleteOps
            /\ ListHelper' = ListHelper \ {h[w].key}
  PROVE  GoesOn(w)
<1>1. h \in [Worker -> Frames] /\ Running(w)
  BY DEF TypeOK, HandlersOK, Running
<1> DEFINE g == [h[w] EXCEPT !.pc = next]
<1>2. h' = [h EXCEPT ![w] = g] /\ UNCHANGED <<store, fw, cut>>
  BY <1>1 DEF Frames, Goto
<1>3. /\ g.pc = next /\ g.op = h[w].op /\ g.key = h[w].key /\ g.obj = h[w].obj
      /\ g.nqn = h[w].nqn /\ g.changed = h[w].changed
  BY <1>1 DEF Frames
<1>4. PastChange(g) <=> PastChange(h[w])
  BY <1>3 DEF PastChange
<1> HIDE DEF g
<1>5. /\ g.pc # "idle" /\ h[w].pc \notin {"save", "erase"}
      /\ g.pc # "parent" /\ KeepsNqn(w, g)
  BY <1>3 DEF KeepsNqn
<1>6. \/ UNCHANGED ListHelper /\ g.pc \notin {"save", "erase"}
      \/ h[w].op \in CreateOps /\ g.pc = "save" /\ ListHelper' = ListHelper \cup {h[w].key}
      \/ h[w].op \in DeleteOps /\ g.pc = "erase" /\ ListHelper' = ListHelper \ {h[w].key}
  BY <1>3
<1> QED
  BY <1>1, <1>2, <1>3, <1>4, <1>5, <1>6, MoveKind

\* The loop of a namespace's handler over ListHelper.
LEMMA LoopKind ==
  ASSUME TypeOK, NEW w \in Worker, Tidy(w),
         CreateNvmeNamespaceLoop(w) \/ DeleteNvmeNamespaceLoop(w)
  PROVE  GoesOn(w) \/ GivesUp(w)
<1>1. /\ h[w].op = "CreateNvmeNamespace" \/ h[w].op = "DeleteNvmeNamespace"
      /\ h[w].pc \in {"range", "loop", "get"} /\ Running(w)
      /\ h \in [Worker -> Frames]
  BY DEF CreateNvmeNamespaceLoop, DeleteNvmeNamespaceLoop, At, Running, TypeOK, HandlersOK
<1>2. ASSUME NEW g, h' = [h EXCEPT ![w] = g], UNCHANGED <<store, ListHelper, fw, cut>>,
             g.op = h[w].op, g.key = h[w].key, g.obj = h[w].obj, g.nqn = h[w].nqn,
             g.changed = h[w].changed,
             \/ g.pc \in {"loop", "get", "call"}
             \/ h[w].op = "CreateNvmeNamespace" /\ g.pc = "list"
             \/ h[w].op = "DeleteNvmeNamespace" /\ g.pc = "rpc"
      PROVE  GoesOn(w)
  <2>1. PastChange(g) <=> PastChange(h[w])
    BY <1>1, <1>2 DEF PastChange
  <2>2. g.pc \notin {"idle", "save", "erase"} /\ h[w].pc \notin {"save", "erase"}
    BY <1>1, <1>2
  <2>3. g.pc # "parent" /\ KeepsNqn(w, g)
    BY <1>1, <1>2 DEF KeepsNqn
  <2> QED
    BY <1>1, <1>2, <2>1, <2>2, <2>3, MoveKind
<1>3. CASE RangeControllers(w)
  <2> DEFINE g == [h[w] EXCEPT !.todo = ListedControllers(Root(h[w].key)), !.pc = "loop"]
  <2>1. h' = [h EXCEPT ![w] = g] /\ UNCHANGED <<store, ListHelper, fw, cut>>
    BY <1>1, <1>3 DEF RangeControllers, Frames
  <2>2. /\ g.pc = "loop" /\ g.op = h[w].op /\ g.key = h[w].key /\ g.obj = h[w].obj
        /\ g.nqn = h[w].nqn /\ g.changed = h[w].changed
    BY <1>1 DEF Frames
  <2> HIDE DEF g
  <2> QED
    BY <1>2, <2>1, <2>2
<1>4. ASSUME NEW next, PickController(w, next),
             \/ h[w].op = "CreateNvmeNamespace" /\ next = "list"
             \/ h[w].op = "DeleteNvmeNamespace" /\ next = "rpc"
      PROVE  GoesOn(w)
  <2>1. UNCHANGED <<store, ListHelper, fw, cut>>
    BY <1>4 DEF PickController
  <2>2. ASSUME NEW c,
               h' = [h EXCEPT ![w].seen = @ \cup {c}, ![w].cur = c, ![w].pc = "get"]
        PROVE  GoesOn(w)
    <3> DEFINE g == [h[w] EXCEPT !.seen = @ \cup {c}, !.cur = c, !.pc = "get"]
    <3>1. h' = [h EXCEPT ![w] = g]
      BY <1>1, <2>2 DEF Frames
    <3>2. /\ g.pc = "get" /\ g.op = h[w].op /\ g.key = h[w].key /\ g.obj = h[w].obj
          /\ g.nqn = h[w].nqn /\ g.changed = h[w].changed
      BY <1>1 DEF Frames
    <3> HIDE DEF g
    <3> QED
      BY <1>2, <2>1, <3>1, <3>2
  <2>3. CASE h' = [h EXCEPT ![w].pc = next, ![w].cur = None, ![w].ctl = None,
                            ![w].todo = {}, ![w].seen = {}]
    <3> DEFINE g == [h[w] EXCEPT !.pc = next, !.cur = None, !.ctl = None,
                                 !.todo = {}, !.seen = {}]
    <3>1. h' = [h EXCEPT ![w] = g]
      BY <1>1, <2>3 DEF Frames
    <3>2. /\ g.pc = next /\ g.op = h[w].op /\ g.key = h[w].key /\ g.obj = h[w].obj
          /\ g.nqn = h[w].nqn /\ g.changed = h[w].changed
      BY <1>1 DEF Frames
    <3> HIDE DEF g
    <3> QED
      BY <1>2, <1>4, <2>1, <3>1, <3>2
  <2> QED
    BY <1>4, <2>2, <2>3 DEF PickController
<1>5. CASE GetController(w)
  <2>1. CASE Return(w, "NotFound") \/ Return(w, "Failed")
    <3>1. SameObjects /\ UNCHANGED <<store, ListHelper>>
      BY <1>5 DEF GetController, SameObjects
    <3>2. Past(w, h[w].key) => h[w].changed
      BY <1>1 DEF Tidy
    <3> QED
      BY <1>1, <2>1, <3>1, <3>2, ReturnKind DEF Return
  <2> DEFINE id == store[h[w].cur]
             g == [h[w] EXCEPT !.ctl = id, !.pc = "call"]
  <2>2. CASE h' = [h EXCEPT ![w].ctl = id, ![w].pc = "call"] /\ UNCHANGED <<reply, cut>>
    <3>1. h' = [h EXCEPT ![w] = g] /\ UNCHANGED <<store, ListHelper, fw, cut>>
      BY <1>1, <1>5, <2>2 DEF GetController, Frames
    <3>2. /\ g.pc = "call" /\ g.op = h[w].op /\ g.key = h[w].key /\ g.obj = h[w].obj
          /\ g.nqn = h[w].nqn /\ g.changed = h[w].changed
      BY <1>1 DEF Frames
    <3> HIDE DEF g
    <3> QED
      BY <1>2, <3>1, <3>2
  <2> QED
    BY <1>5, <2>1, <2>2 DEF GetController
<1> QED
  BY <1>3, <1>4, <1>5 DEF CreateNvmeNamespaceLoop, DeleteNvmeNamespaceLoop, At

\* An object that is added was not there.
LEMMA AddsChanges ==
  ASSUME NEW k, NEW q, NEW n, Adds(k, q, n)
  PROVE  fw' # fw
<1> DEFINE o == [nqn |-> q, id |-> n, owner |-> k]
<1>1. o.nqn = q /\ o.id = n
  OBVIOUS
<1>2. (o \in fw'.ctrls /\ o \notin fw.ctrls) \/ (o \in fw'.nss /\ o \notin fw.nss)
  BY <1>1 DEF Adds
<1> QED
  BY <1>2

\* The calls of the subsystem handlers.
LEMMA SubsystemRpcKind ==
  ASSUME TypeOK, NEW w \in Worker, CreateNvmeSubsystemRpc(w) \/ DeleteNvmeSubsystemRpc(w)
  PROVE  Alters(w) \/ GivesUp(w)
<1>1. h[w].pc = "rpc" /\ h[w].op \in SubsystemOps /\ Running(w)
  BY DEF CreateNvmeSubsystemRpc, DeleteNvmeSubsystemRpc, At, Running, SubsystemOps
<1> SUFFICES ASSUME NEW q, q = h[w].obj
             PROVE  Alters(w) \/ GivesUp(w)
  OBVIOUS
<1>2. q \in Nqns /\ fw \in Fw
  BY <1>1, RunningTyped DEF TypeOK, Fw
<1>3. CASE CreateNvmeSubsystemRpc(w)
  <2>1. PICK a \in Call(CreateSubsystem(fw, q)) : TakeAnswer(w, a, "list", q)
    BY <1>3 DEF CreateNvmeSubsystemRpc
  <2>2. fw' = a.fw /\ h[w].op = "CreateNvmeSubsystem"
    BY <1>3, <2>1 DEF TakeAnswer, CreateNvmeSubsystemRpc, At
  <2>3. CASE /\ q \notin fw.subs /\ a.fw.subs = fw.subs \cup {q}
             /\ a.fw.ctrls = fw.ctrls /\ a.fw.nss = fw.nss
             /\ a.ok = TRUE \/ (RpcFaults /\ a.ok = FALSE)
    <3>1. Effect(w, q) /\ a.fw # fw /\ h[w].op \in CreateOps
      BY <2>2, <2>3 DEF Effect, CreateOps
    <3> QED
      BY <1>1, <2>1, <2>3, <3>1, ChangeKind
  <2>4. CASE a.fw = fw /\ ~a.ok
    BY <1>1, <2>1, <2>4, RefusedKind
  <2> QED
    BY <1>2, <2>1, <2>3, <2>4, CreateSubsystemDoes
<1>4. CASE DeleteNvmeSubsystemRpc(w)
  <2>1. PICK a \in Call(DeleteSubsystem(fw, q)) : TakeAnswer(w, a, "unlist", q)
    BY <1>4 DEF DeleteNvmeSubsystemRpc
  <2>2. fw' = a.fw /\ h[w].op = "DeleteNvmeSubsystem"
    BY <1>4, <2>1 DEF TakeAnswer, DeleteNvmeSubsystemRpc, At
  <2>3. CASE /\ q \in fw.subs /\ \A o \in Objs : o.nqn # q
             /\ a.fw.subs = fw.subs \ {q}
             /\ a.fw.ctrls = fw.ctrls /\ a.fw.nss = fw.nss
             /\ a.ok = TRUE \/ (RpcFaults /\ a.ok = FALSE)
    <3>1. Effect(w, q) /\ a.fw # fw /\ h[w].op \in DeleteOps
      BY <2>2, <2>3 DEF Effect, DeleteOps
    <3> QED
      BY <1>1, <2>1, <2>3, <3>1, ChangeKind
  <2>4. CASE a.fw = fw /\ ~a.ok
    BY <1>1, <2>1, <2>4, RefusedKind
  <2> QED
    BY <1>2, <2>1, <2>3, <2>4, DeleteSubsystemDoes
<1> QED
  BY <1>3, <1>4

\* The calls of the controller handlers.
LEMMA ControllerRpcKind ==
  ASSUME TypeOK, IdsAgree, NEW w \in Worker, Tidy(w),
         \/ CreateNvmeControllerRpc(w) \/ DeleteNvmeControllerRpc(w)
         \/ UpdateNvmeControllerRpc(w)
  PROVE  Alters(w) \/ GoesOn(w) \/ GivesUp(w)
<1>1. h[w].pc = "rpc" /\ h[w].op \in ControllerOps /\ Running(w)
  BY DEF CreateNvmeControllerRpc, DeleteNvmeControllerRpc, UpdateNvmeControllerRpc, At,
         Running, ControllerOps
<1> SUFFICES ASSUME NEW k, k = h[w].key, NEW q, q = h[w].nqn, NEW i, i = h[w].obj
             PROVE  Alters(w) \/ GoesOn(w) \/ GivesUp(w)
  OBVIOUS
<1>2. k \in Controllers /\ q \in Nqns /\ fw \in Fw
  BY <1>1, RunningTyped DEF TypeOK, Fw
<1>3. CASE CreateNvmeControllerRpc(w)
  <2>1. PICK a \in Call(CreateCtrlr(fw, q, i, k)) : TakeAnswer(w, a, "list", a.val)
    BY <1>3 DEF CreateNvmeControllerRpc
  <2>2. fw' = a.fw /\ h[w].op = "CreateNvmeController"
    BY <1>3, <2>1 DEF TakeAnswer, CreateNvmeControllerRpc, At
  <2>3. \/ a.fw = fw /\ a.ok = FALSE
        \/ \E n : Adds(k, q, n) /\ ((a.ok = TRUE /\ a.val = n) \/ (RpcFaults /\ a.ok = FALSE))
    BY <1>2, <2>1, <2>2, CreateCtrlrDoes
  <2>4. ASSUME NEW n, Adds(k, q, n),
               (a.ok = TRUE /\ a.val = n) \/ (RpcFaults /\ a.ok = FALSE)
        PROVE  Alters(w)
    <3>1. Effect(w, n) /\ h[w].op \in CreateOps
      BY <2>2, <2>4 DEF Effect, CreateOps, SubsystemOps
    <3>2. a.fw # fw
      BY <2>2, <2>4, AddsChanges
    <3> QED
      BY <1>1, <2>1, <2>4, <3>1, <3>2, ChangeKind
  <2> QED
    BY <1>1, <2>1, <2>3, <2>4, RefusedKind
<1>4. CASE DeleteNvmeControllerRpc(w)
  <2>1. PICK a \in Call(RemoveCtrlr(fw, q, i)) : TakeAnswer(w, a, "unlist", i)
    BY <1>4 DEF DeleteNvmeControllerRpc
  <2>2. fw' = a.fw /\ h[w].op = "DeleteNvmeController"
    BY <1>4, <2>1 DEF TakeAnswer, DeleteNvmeControllerRpc, At
  <2>3. CASE Removes(k, q, i) /\ (a.ok = TRUE \/ (RpcFaults /\ a.ok = FALSE))
    <3>1. Effect(w, i) /\ h[w].op \in DeleteOps
      BY <2>2, <2>3 DEF Effect, DeleteOps, SubsystemOps
    <3>2. a.fw # fw
      BY <2>2, <2>3 DEF Removes
    <3> QED
      BY <1>1, <2>1, <2>3, <3>1, <3>2, ChangeKind
  <2> QED
    BY <1>1, <1>2, <2>1, <2>2, <2>3, RefusedKind, RemoveCtrlrDoes
<1>5. CASE UpdateNvmeControllerRpc(w)
  <2>1. PICK a \in Call(UpdateCtrlr(fw, q, i)) : TakeAnswer(w, a, "save", a.val)
    BY <1>5 DEF UpdateNvmeControllerRpc
  <2>2. UpdateEchoesId
    BY DEF IdsAgree
  <2>3. a.fw = fw /\ (a.ok => a.val = i)
    BY <2>1, <2>2, UpdateCtrlrDoes
  <2>4. SameObjects /\ h[w].op = "UpdateNvmeController"
    BY <1>5, <2>1, <2>3 DEF TakeAnswer, SameObjects, UpdateNvmeControllerRpc, At
  <2>5. CASE a.ok
    <3>1. TakeAnswer(w, a, "save", h[w].obj)
      BY <2>1, <2>3, <2>5
    <3> QED
      BY <1>1, <2>4, <3>1, CallKind
  <2> QED
    BY <1>1, <2>1, <2>3, <2>5, RefusedKind
<1> QED
  BY <1>3, <1>4, <1>5

\* The calls of the namespace handlers.
LEMMA NamespaceRpcKind ==
  ASSUME TypeOK, IdsAgree, NEW w \in Worker, Tidy(w),
         \/ CreateNvmeNamespaceRpc(w) \/ CreateNvmeNamespaceAttach(w)
         \/ DeleteNvmeNamespaceRpc(w) \/ DeleteNvmeNamespaceDetach(w)
  PROVE  Alters(w) \/ GoesOn(w) \/ GivesUp(w)
<1>1. fw \in Fw
  BY DEF TypeOK, Fw
<1> SUFFICES ASSUME NEW k, k = h[w].key, NEW q, q = h[w].nqn, NEW i, i = h[w].obj
             PROVE  Alters(w) \/ GoesOn(w) \/ GivesUp(w)
  OBVIOUS
<1>2. ASSUME h[w].pc = "rpc" \/ h[w].pc = "call", h[w].op \in NamespaceOps
      PROVE  Running(w) /\ k \in Namespaces /\ q \in Nqns
  <2>1. Running(w)
    BY <1>2 DEF Running
  <2> QED
    BY <1>2, <2>1, RunningTyped DEF TypeOK
<1>3. CASE CreateNvmeNamespaceRpc(w)
  <2>1. h[w].pc = "rpc" /\ h[w].op = "CreateNvmeNamespace" /\ h[w].op \in NamespaceOps
    BY <1>3 DEF CreateNvmeNamespaceRpc, At, NamespaceOps
  <2>2. PICK a \in Call(AllocNs(fw, q, i, k)) : TakeAnswer(w, a, "range", i)
    BY <1>3 DEF CreateNvmeNamespaceRpc
  <2>3. fw' = a.fw
    BY <2>2 DEF TakeAnswer
  <2>4. CASE Adds(k, q, i) /\ (a.ok = TRUE \/ (RpcFaults /\ a.ok = FALSE))
    <3>1. Effect(w, i) /\ h[w].op \in CreateOps
      BY <2>1, <2>4 DEF Effect, CreateOps, SubsystemOps
    <3>2. a.fw # fw
      BY <2>3, <2>4, AddsChanges
    <3> QED
      BY <2>1, <2>2, <2>4, <3>1, <3>2, ChangeKind
  <2> QED
    BY <1>1, <1>2, <2>1, <2>2, <2>3, <2>4, RefusedKind, AllocNsDoes DEF IdsAgree
<1>4. CASE DeleteNvmeNamespaceRpc(w)
  <2>1. h[w].pc = "rpc" /\ h[w].op = "DeleteNvmeNamespace" /\ h[w].op \in NamespaceOps
    BY <1>4 DEF DeleteNvmeNamespaceRpc, At, NamespaceOps
  <2>2. PICK a \in Call(UnallocNs(fw, q, i)) : TakeAnswer(w, a, "unlist", i)
    BY <1>4 DEF DeleteNvmeNamespaceRpc
  <2>3. fw' = a.fw
    BY <2>2 DEF TakeAnswer
  <2>4. CASE Removes(k, q, i) /\ (a.ok = TRUE \/ (RpcFaults /\ a.ok = FALSE))
    <3>1. Effect(w, i) /\ h[w].op \in DeleteOps
      BY <2>1, <2>4 DEF Effect, DeleteOps, SubsystemOps
    <3>2. a.fw # fw
      BY <2>3, <2>4 DEF Removes
    <3> QED
      BY <2>1, <2>2, <2>4, <3>1, <3>2, ChangeKind
  <2> QED
    BY <1>1, <1>2, <2>1, <2>2, <2>3, <2>4, RefusedKind, UnallocNsDoes
<1>5. CASE CreateNvmeNamespaceAttach(w) \/ DeleteNvmeNamespaceDetach(w)
  <2>1. h[w].pc = "call" /\ h[w].op \in NamespaceOps
    BY <1>5 DEF CreateNvmeNamespaceAttach, DeleteNvmeNamespaceDetach, At, NamespaceOps
  <2>2. PICK a \in Call(AttachNs(fw, q, h[w].ctl, i)) \cup Call(DetachNs(fw, q, h[w].ctl, i)) :
               TakeAnswer(w, a, "loop", h[w].obj)
    BY <1>5 DEF CreateNvmeNamespaceAttach, DeleteNvmeNamespaceDetach
  <2>3. fw' = a.fw
    BY <2>2 DEF TakeAnswer
  <2>4. SameObjects
    BY <1>1, <2>2, <2>3, AttachmentsDo
  <2> QED
    BY <1>2, <2>1, <2>2, <2>4, CallKind
<1> QED
  BY <1>3, <1>4, <1>5

\* A handler's last write to the store.
LEMMA WriteKind ==
  ASSUME TypeOK, NEW w \in Worker, Tidy(w), NEW value, WriteStore(w, value),
         \/ h[w].op \in CreateOps /\ h[w].pc = "save" /\ value = h[w].obj
         \/ h[w].op \in DeleteOps /\ h[w].pc = "erase" /\ value = None
         \/ At(w, "UpdateNvmeController", "save") /\ value = h[w].obj
  PROVE  Writes(w)
<1>1. SameObjects /\ UNCHANGED ListHelper /\ h \in [Worker -> Frames]
  BY DEF WriteStore, SameObjects, TypeOK, HandlersOK
<1>2. ASSUME NEW code, Return(w, code)
      PROVE  /\ h'[w] = IdleFrame
             /\ UNCHANGED cut \/ Noted(w)
             /\ code = "Failed" => Noted(w) \/ (UNCHANGED cut /\ ~h[w].changed)
  BY <1>1, <1>2 DEF Return, ReturnAfter, Noted
<1>3. CASE store' = [store EXCEPT ![h[w].key] = value] /\ (Return(w, "OK") \/ Return(w, "Failed"))
  BY <1>1, <1>2, <1>3 DEF Writes
<1>4. CASE UNCHANGED store /\ Return(w, "Failed")
  BY <1>1, <1>2, <1>4 DEF Writes
<1> QED
  BY <1>3, <1>4 DEF WriteStore

\* Every step of a handler is of one of these kinds.
LEMMA HandleKinds ==
  ASSUME TypeOK, IdsAgree, NEW w \in Worker, Tidy(w), Handle(w)
  PROVE  GoesOn(w) \/ GivesUp(w) \/ Alters(w) \/ Writes(w)
<1>1. CASE ScanNqns(w)
  <2>1. /\ h[w].op = "CreateNvmeSubsystem" /\ h[w].pc = "scan"
        /\ ~Past(w, h[w].key) /\ SameObjects
    BY <1>1 DEF ScanNqns, At, Past, PastChange, SameObjects
  <2>2. CASE Return(w, "Failed")
    BY <1>1, <2>1, <2>2, ReturnKind DEF ScanNqns, Return
  <2>3. CASE Goto(w, "rpc")
    BY <1>1, <2>1, <2>3, GotoKind DEF ScanNqns
  <2> QED
    BY <1>1, <2>2, <2>3 DEF ScanNqns
<1>2. CASE CreateNvmeSubsystemList(w)
  <2>1. /\ h[w].op = "CreateNvmeSubsystem" /\ h[w].pc = "list" /\ Running(w)
        /\ h[w].op \in CreateOps
    BY <1>2 DEF CreateNvmeSubsystemList, At, Running, CreateOps
  <2>2. CASE RpcFaults /\ Return(w, "Failed") /\ UNCHANGED <<store, ListHelper, fw>>
    BY <2>1, <2>2, ReturnKind DEF Tidy, SameObjects, Return
  <2>3. CASE ListName(w)
    BY <2>1, <2>3, GotoKind DEF ListName
  <2> QED
    BY <1>2, <2>2, <2>3 DEF CreateNvmeSubsystemList
<1>3. CASE \/ CreateNvmeControllerParent(w) \/ DeleteNvmeControllerParent(w)
           \/ UpdateNvmeControllerParent(w) \/ CreateNvmeNamespaceParent(w)
           \/ DeleteNvmeNamespaceParent(w)
  <2>1. /\ h[w].pc = "parent" /\ h[w].op \notin SubsystemOps
        /\ \/ FetchSubsystem(w, "rpc")
           \/ h[w].op = "DeleteNvmeNamespace" /\ FetchSubsystem(w, "range")
    BY <1>3 DEF CreateNvmeControllerParent, DeleteNvmeControllerParent, SubsystemOps,
       UpdateNvmeControllerParent, CreateNvmeNamespaceParent, DeleteNvmeNamespaceParent, At
  <2> QED
    BY <2>1, FetchKind
<1>4. CASE CreateNvmeControllerList(w) \/ CreateNvmeNamespaceList(w)
  BY <1>4, GotoKind DEF CreateNvmeControllerList, CreateNvmeNamespaceList, At, ListName,
     CreateOps
<1>5. CASE \/ DeleteNvmeSubsystemUnlist(w) \/ DeleteNvmeControllerUnlist(w)
           \/ DeleteNvmeNamespaceUnlist(w)
  BY <1>5, GotoKind DEF DeleteNvmeSubsystemUnlist, DeleteNvmeControllerUnlist,
     DeleteNvmeNamespaceUnlist, At, UnlistName, DeleteOps
<1>6. CASE CreateNvmeNamespaceLoop(w) \/ DeleteNvmeNamespaceLoop(w)
  BY <1>6, LoopKind
<1>7. CASE \/ CreateNvmeSubsystemSave(w) \/ CreateNvmeControllerSave(w)
           \/ CreateNvmeNamespaceSave(w)
  <2>1. h[w].op \in CreateOps /\ h[w].pc = "save" /\ WriteStore(w, h[w].obj)
    BY <1>7 DEF CreateNvmeSubsystemSave, CreateNvmeControllerSave, CreateNvmeNamespaceSave,
       At, CreateOps
  <2> QED
    BY <2>1, WriteKind
<1>8. CASE \/ DeleteNvmeSubsystemErase(w) \/ DeleteNvmeControllerErase(w)
           \/ DeleteNvmeNamespaceErase(w)
  <2>1. h[w].op \in DeleteOps /\ h[w].pc = "erase" /\ WriteStore(w, None)
    BY <1>8 DEF DeleteNvmeSubsystemErase, DeleteNvmeControllerErase,
       DeleteNvmeNamespaceErase, At, DeleteOps
  <2> QED
    BY <2>1, WriteKind
<1>9. CASE UpdateNvmeControllerSave(w)
  BY <1>9, WriteKind DEF UpdateNvmeControllerSave
<1> QED
  BY <1>1, <1>2, <1>3, <1>4, <1>5, <1>6, <1>7, <1>8, <1>9, SubsystemRpcKind,
     ControllerRpcKind, NamespaceRpcKind DEF Handle

\* Every request that arrives is answered at once or taken up.
LEMMA RequestKinds ==
  ASSUME TypeOK, IdsAgree, StoreOwn, NEW w \in Worker, Request(w)
  PROVE  Arrives(w)
<1> USE DEF Keys, Children
<1>1. h \in [Worker -> Frames]
  BY DEF TypeOK, HandlersOK
<1>2. ASSUME NEW op \in MutatingOps, NEW k \in Keys, NEW pc \in {"scan", "parent", "rpc"},
             NEW obj, Start(w, op, k, pc, obj),
             op \in SubsystemOps => obj \in NqnOf[k],
             store[k] = None <=> op \in CreateOps,
             op \in DeleteOps => obj = store[k],
             op = "UpdateNvmeController" => obj \in {store[k], autoCtrlrIDAllocation},
             op \notin SubsystemOps => pc = "parent",
             UNCHANGED <<store, ListHelper, fw>>
      PROVE  Arrives(w)
  <2>1. /\ h'[w].op = op /\ h'[w].pc = pc /\ h'[w].key = k /\ h'[w].obj = obj
        /\ h'[w].nqn = None /\ UNCHANGED cut
    BY <1>1, <1>2 DEF Start, IdleFrame, Frames
  <2>2. ~PastChange(h'[w])
    BY <2>1 DEF PastChange
  <2> QED
    BY <1>2, <2>1, <2>2 DEF Arrives
<1>3. ASSUME NEW code, Answer(w, code), UNCHANGED <<store, ListHelper, fw>>
      PROVE  Arrives(w)
  BY <1>3 DEF Answer, Arrives
<1>4. ASSUME NEW s \in Subsystems,
             \/ \E q \in NqnOf[s] : CreateNvmeSubsystem(w, s, q)
             \/ \E m \in BOOLEAN : DeleteNvmeSubsystem(w, s, m)
             \/ UpdateNvmeSubsystem(w, s)
      PROVE  Arrives(w)
  <2>1. store[s] # None => store[s] \in NqnOf[s]
    BY DEF StoreOwn
  <2> QED
    BY <1>2, <1>3, <1>4, <2>1 DEF CreateNvmeSubsystem, DeleteNvmeSubsystem,
       UpdateNvmeSubsystem, MutatingOps, SubsystemOps, CreateOps, DeleteOps
<1>5. ASSUME NEW c \in Controllers,
             \/ \E id \in CtrlrNums \cup {autoCtrlrIDAllocation} : CreateNvmeController(w, c, id)
             \/ \E m \in BOOLEAN : DeleteNvmeController(w, c, m)
             \/ UpdateNvmeController(w, c)
      PROVE  Arrives(w)
  <2>1. CASE \/ \E id \in CtrlrNums \cup {autoCtrlrIDAllocation} : CreateNvmeController(w, c, id)
             \/ \E m \in BOOLEAN : DeleteNvmeController(w, c, m)
    BY <1>2, <1>3, <2>1 DEF CreateNvmeController, DeleteNvmeController, MutatingOps,
       SubsystemOps, ControllerOps, CreateOps, DeleteOps
  <2>2. CASE UpdateNvmeController(w, c)
    <3>1. UpdateIds(c) = {store[c], autoCtrlrIDAllocation}
      BY DEF UpdateIds, IdsAgree
    <3> QED
      BY <1>2, <1>3, <2>2, <3>1 DEF UpdateNvmeController, MutatingOps,
         SubsystemOps, ControllerOps, CreateOps, DeleteOps
  <2> QED
    BY <1>5, <2>1, <2>2
<1>6. ASSUME NEW n \in Namespaces,
             \/ \E i \in NsNums : CreateNvmeNamespace(w, n, i)
             \/ \E m \in BOOLEAN : DeleteNvmeNamespace(w, n, m)
             \/ UpdateNvmeNamespace(w, n)
      PROVE  Arrives(w)
  BY <1>2, <1>3, <1>6 DEF CreateNvmeNamespace, DeleteNvmeNamespace, UpdateNvmeNamespace,
     MutatingOps, SubsystemOps, NamespaceOps, CreateOps, DeleteOps
<1> QED
  BY <1>4, <1>5, <1>6 DEF Request

\* A handler at work, and no other does anything.
Acts(w) ==
  /\ Running(w) /\ h \in [Worker -> Frames]
  /\ \A v \in Worker : v # w => h'[v] = h[v]
  /\ GoesOn(w) \/ GivesUp(w) \/ Alters(w) \/ Writes(w)

\* A handler stays with its request and writes under its own name only.
LEMMA ActsOnName ==
  ASSUME TypeOK, NEW w \in Worker, Acts(w)
  PROVE  /\ Running(w)' => h'[w].op = h[w].op /\ h'[w].key = h[w].key
         /\ \A k \in Keys : k # h[w].key =>
              store'[k] = store[k] /\ (k \in ListHelper' <=> k \in ListHelper)
         /\ cut \subseteq cut'
         /\ h'[w] = IdleFrame \/ UNCHANGED <<store, cut>>
<1>1. CASE GoesOn(w)
  BY <1>1 DEF GoesOn
<1>2. CASE GivesUp(w)
  BY <1>2 DEF GivesUp, Noted, Running, IdleFrame
<1>3. CASE Alters(w)
  BY <1>3 DEF Alters, Noted, Running, IdleFrame
<1>4. CASE Writes(w)
  BY <1>4 DEF Writes, Noted, Running, IdleFrame, TypeOK, StoreOK
<1> QED
  BY <1>1, <1>2, <1>3, <1>4 DEF Acts

\* The NQN of a handler that is about to call is one of its subsystem's.
LEMMA NqnTidy ==
  ASSUME TypeOK, NEW w \in Worker, Tidy(w), h[w].pc = "rpc", h[w].op \notin SubsystemOps
  PROVE  /\ Running(w) /\ h[w].key \in Children /\ h[w].nqn \in Nqns
         /\ h[w].nqn \in NqnOf[Parent[h[w].key]]
<1>1. Running(w)
  BY DEF Running
<1>2. h[w].key \in Children /\ h[w].nqn \in Nqns
  BY <1>1, RunningTyped DEF TypeOK, MutatingOps, Children
<1> QED
  BY <1>1, <1>2, FrontendAssumption DEF Tidy, FrontendAssumption

\* The objects stay in their places, whatever a handler does.
LEMMA ActsPlaced ==
  ASSUME TypeOK, Placed, StoreOwn, NEW w \in Worker, Tidy(w), Acts(w)
  PROVE  Placed'
<1>1. CASE GoesOn(w) \/ GivesUp(w) \/ Writes(w)
  BY <1>1, PlacedSame DEF GoesOn, GivesUp, Writes
<1>2. CASE Alters(w)
  <2>1. PICK n : Effect(w, n)
    BY <1>2 DEF Alters
  <2>2. CASE /\ h[w].op = "CreateNvmeSubsystem" /\ n = h[w].obj
             /\ fw'.subs = fw.subs \cup {n} /\ fw'.ctrls = fw.ctrls /\ fw'.nss = fw.nss
    <3>1. n \in NqnOf[h[w].key] /\ h[w].key \in Subsystems
      BY <2>2, RunningTyped DEF Acts, Tidy, TypeOK, SubsystemOps
    <3> QED
      BY <2>2, <3>1 DEF Placed, Objs
  <2>3. CASE /\ h[w].op = "DeleteNvmeSubsystem" /\ \A o \in Objs : o.nqn # n
             /\ fw'.subs = fw.subs \ {n} /\ fw'.ctrls = fw.ctrls /\ fw'.nss = fw.nss
    BY <2>3 DEF Placed, Objs
  <2>4. CASE h[w].op \notin SubsystemOps
    BY <1>2, <2>1, <2>4, NqnTidy, PlacedAdds, PlacedRemoves
       DEF Alters, Effect, SubsystemOps
  <2> QED
    BY <2>1, <2>2, <2>3, <2>4 DEF Effect
<1> QED
  BY <1>1, <1>2 DEF Acts

\* What handlers and records hold stays of their own name.
LEMMA ActsTidy ==
  ASSUME TypeOK, TypeOK', StoreOwn, \A v \in Worker : Tidy(v), NEW w \in Worker, Acts(w)
  PROVE  StoreOwn' /\ \A v \in Worker : Tidy(v)'
<1>1. /\ Running(w) /\ Tidy(w) /\ h[w].key \in Keys /\ h[w].op \in MutatingOps
      /\ h[w].op \in SubsystemOps => h[w].key \in Subsystems
      /\ h[w].op \in ControllerOps \cup NamespaceOps => h[w].key \in Children
  BY RunningTyped DEF Acts, TypeOK, Children
<1>2. StoreOwn'
  <2>1. CASE UNCHANGED store
    BY <2>1 DEF StoreOwn
  <2>2. CASE Writes(w)
    <3>1. PICK value : /\ store' = [store EXCEPT ![h[w].key] = value] \/ UNCHANGED store
                       /\ \/ h[w].op \in CreateOps \cup DeleteOps /\ value \in {h[w].obj, None}
                          \/ h[w].op = "UpdateNvmeController"
      BY <2>2 DEF Writes, At
    <3>2. h[w].key \in Subsystems => h[w].op \in SubsystemOps
      BY <1>1, FrontendAssumption DEF FrontendAssumption, MutatingOps
    <3>3. h[w].key \in Subsystems => value \in NqnOf[h[w].key] \cup {None}
      BY <1>1, <3>1, <3>2 DEF Tidy, SubsystemOps
    <3>4. \A s \in Subsystems :
            store'[s] = store[s] \/ (s = h[w].key /\ store'[s] = value)
      BY <3>1 DEF TypeOK, StoreOK, Keys
    <3> QED
      BY <3>3, <3>4 DEF StoreOwn
  <2> QED
    BY <2>1, <2>2 DEF Acts, GoesOn, GivesUp, Alters
<1>3. Tidy(w)'
  <2>1. CASE h'[w] = IdleFrame
    BY <2>1 DEF Tidy, Running, IdleFrame
  <2>2. CASE GoesOn(w)
    <3>1. /\ h'[w].nqn \in {h[w].nqn, store[Parent[h[w].key]]}
          /\ h'[w].op = h[w].op /\ h'[w].key = h[w].key /\ h'[w].obj = h[w].obj
          /\ h[w].op \notin SubsystemOps => Parent[h[w].key] \in Subsystems
          /\ Past(w, h[w].key)' => Past(w, h[w].key)
          /\ h[w].changed => h'[w].changed
      BY <1>1, <2>2, FrontendAssumption DEF GoesOn, KeepsNqn, FrontendAssumption, MutatingOps, Past
    <3> QED
      BY <1>1, <3>1 DEF Tidy, StoreOwn
  <2>3. CASE /\ Alters(w) /\ h'[w].op = h[w].op /\ h'[w].key = h[w].key
             /\ h'[w].nqn = h[w].nqn /\ h'[w].changed /\ Effect(w, h'[w].obj)
    <3>1. h[w].op \in SubsystemOps => h'[w].obj = h[w].obj
      BY <2>3 DEF Effect
    <3> QED
      BY <1>1, <2>3, <3>1 DEF Tidy
  <2> QED
    BY <2>1, <2>2, <2>3 DEF Acts, GivesUp, Alters, Writes
<1>4. \A v \in Worker : v # w => Tidy(v)'
  BY DEF Acts, Tidy, Running, Past
<1> QED
  BY <1>2, <1>3, <1>4

\* What the application's objects are.
LEMMA ObjsKinds ==
  ASSUME TypeOK
  PROVE  /\ \A o \in fw.ctrls : o.nqn \in Nqns /\ o.id \in CtrlrNums /\ o.owner \in Controllers
         /\ \A o \in fw.nss : o.nqn \in Nqns /\ o.id \in NsNums /\ o.owner \in Namespaces
         /\ fw.subs \subseteq Nqns
  BY DEF TypeOK, FwStates

\* What a name has is in its subsystem.
LEMMA HasThere ==
  ASSUME TypeOK, Placed, NEW k \in Children, NEW v, Has(k, v)
  PROVE  \E o \in Objs : /\ o.owner = k /\ o.id = v /\ o.nqn \in fw.subs \cap NqnOf[Root(k)]
                         /\ k \in Controllers => o \in fw.ctrls
                         /\ k \in Namespaces => o \in fw.nss
<1>1. PICK o \in Objs : o.owner = k /\ o.id = v
  BY Names DEF Has
<1>2. /\ k \in Controllers => o \in fw.ctrls
      /\ k \in Namespaces => o \in fw.nss
  BY <1>1, ObjsKinds, FrontendAssumption DEF Objs, FrontendAssumption
<1> QED
  BY <1>1, <1>2, Names DEF Placed
---------------------------------------------------------------------------
(* The inductive invariant where subsystems share NQNs.                    *)

\* No delete was cut short in a subsystem that clients may give the NQN q.
Sound(q)      == \A r \in cut : r[1] \in DeleteOps => q \notin NqnOf[Root(r[2])]
SoundBelow(s) == \A q \in NqnOf[s] : Sound(q)

\* What a handler read is still so: its parent's record, and its own.
Knows(w) ==
  Running(w) =>
    /\ h[w].op \notin SubsystemOps /\ h[w].pc # "parent" =>
         h[w].nqn = store[Parent[h[w].key]] /\ h[w].nqn # None
    /\ h[w].op \in DeleteOps => h[w].obj = store[h[w].key]
    /\ h[w].op = "UpdateNvmeController" =>
         /\ h[w].obj \in {store[h[w].key], autoCtrlrIDAllocation}
         /\ h[w].pc = "save" => h[w].obj = store[h[w].key]

\* A sound NQN has one holder, the subsystem that expects it, and is then in the
\* application.
OneHolder ==
  \A s, t \in Subsystems : \A q \in Nqns :
    Sound(q) /\ Expects(s, q) /\ Expects(t, q) => s = t

Backed ==
  \A s \in Subsystems : \A q \in Nqns : Sound(q) /\ Expects(s, q) => q \in fw.subs

\* It is there for a holder, or for a create that was cut short.
Owned ==
  \A q \in fw.subs :
    Sound(q) => \E s \in Subsystems : q \in NqnOf[s] /\ (Expects(s, q) \/ ~Uncut(s))

\* An object under it belongs to the subsystem that holds it, which no handler has
\* changed yet.
Rooted ==
  \A o \in Objs :
    Sound(o.nqn) =>
      Expects(Parent[o.owner], o.nqn) /\ \A w \in Worker : ~Past(w, Parent[o.owner])

\* In a sound subsystem a controller or namespace has what is expected.
AgreeBelow(k) ==
  SoundBelow(Parent[k]) =>
    /\ \A v \in Values : Expects(k, v) => Has(k, v)
    /\ Uncut(k) => \A v \in Values : Has(k, v) => Expects(k, v)

Shared ==
  /\ OneHolder /\ Backed /\ Owned /\ Rooted
  /\ \A k \in Children : AgreeBelow(k)

SInv ==
  /\ IInv /\ OnePerSubsystem /\ Placed /\ StoreOwn
  /\ \A w \in Worker : Tidy(w) /\ Knows(w)
  /\ Shared

\* A name that no handler works on expects what it expected.
LEMMA ElsewhereExpects ==
  ASSUME TypeOK, NEW w \in Worker, Acts(w), NEW k \in Keys, k # h[w].key
  PROVE  /\ \A u \in Worker : Past(u, k)' <=> Past(u, k)
         /\ \A v : Expects(k, v)' <=> Expects(k, v)
<1>1. ~Past(w, k) /\ ~Past(w, k)'
  <2>1. ASSUME Past(w, k)'
        PROVE  FALSE
    <3>1. Running(w)' /\ h'[w].key = k
      BY <2>1 DEF Past, PastChange, Running
    <3> QED
      BY <3>1, ActsOnName
  <2> QED
    BY <2>1 DEF Past
<1>2. \A u \in Worker : u # w => h'[u] = h[u]
  BY DEF Acts
<1>3. \A u \in Worker : /\ Past(u, k)' <=> Past(u, k)
                        /\ Past(u, k) => h'[u] = h[u]
  BY <1>1, <1>2 DEF Past
<1>4. store'[k] = store[k]
  BY ActsOnName
<1> QED
  BY <1>3, <1>4 DEF Expects

\* After its step the handler that works on a name says what the name expects.
LEMMA HereExpects ==
  ASSUME IInv, NEW w \in Worker, Acts(w), NEW k, k = h[w].key
  PROVE  /\ \A u \in Worker : u # w => ~Past(u, k) /\ ~Past(u, k)'
         /\ \A v : Expects(k, v)' <=>
              IF Past(w, k)' THEN h'[w].op \in CreateOps /\ h'[w].obj = v
                             ELSE store'[k] # None /\ store'[k] = v
<1>1. ASSUME NEW u \in Worker, u # w
      PROVE  ~Past(u, k) /\ ~Past(u, k)'
  <2>1. ~Past(u, k) /\ h'[u] = h[u]
    BY <1>1, OnlyPast DEF Acts
  <2> QED
    BY <2>1 DEF Past
<1>2. ASSUME Past(w, k)', NEW v
      PROVE  Expects(k, v)' <=> h'[w].op \in CreateOps /\ h'[w].obj = v
  BY <1>1, <1>2 DEF Expects
<1>3. ASSUME ~Past(w, k)', NEW v
      PROVE  Expects(k, v)' <=> store'[k] # None /\ store'[k] = v
  <2>1. \A u \in Worker : ~Past(u, k)'
    BY <1>1, <1>3
  <2> QED
    BY <2>1 DEF Expects
<1> QED
  BY <1>1, <1>2, <1>3

\* A subsystem expects one of the NQNs clients give it.
LEMMA ExpectsOwn ==
  ASSUME IInv, StoreOwn, \A w \in Worker : Tidy(w), NEW s \in Subsystems, NEW q, Expects(s, q)
  PROVE  q \in NqnOf[s] /\ q \in Nqns
<1>1. ASSUME NEW w \in Worker, Past(w, s), h[w].obj = q
      PROVE  q \in NqnOf[s]
  <2>1. Running(w) /\ h[w].key = s
    BY <1>1 DEF Past, PastChange, Running
  <2>2. h[w].op \in SubsystemOps
    BY <2>1, RunningOn, Names DEF Children, MutatingOps
  <2> QED
    BY <1>1, <2>1, <2>2 DEF Tidy
<1>2. q \in NqnOf[s]
  BY <1>1 DEF Expects, StoreOwn
<1> QED
  BY <1>2, FrontendAssumption DEF FrontendAssumption
---------------------------------------------------------------------------
(* Steps after which no object has come or gone.                           *)

\* A delete was cut short that leaves open whether k still has v.
Unsound(k, v) == IF k \in Subsystems THEN ~Sound(v) ELSE ~SoundBelow(Parent[k])

\* No more is expected than before, but where a delete was cut short, and no less,
\* but where a request past its change was.
Fades ==
  /\ SameObjects /\ cut \subseteq cut'
  /\ \A u \in Worker : \A k \in Keys : Past(u, k)' => Past(u, k)
  /\ \A k \in Keys : \A v :
       /\ Expects(k, v)' => Expects(k, v) \/ Unsound(k, v)'
       /\ Expects(k, v) => Expects(k, v)' \/ (~Uncut(k)' /\ \E u \in Worker : Past(u, k))

\* What was cut short stays so.
LEMMA CutGrows ==
  ASSUME cut \subseteq cut'
  PROVE  /\ \A q : Sound(q)' => Sound(q)
         /\ \A s : SoundBelow(s)' => SoundBelow(s)
         /\ \A k : Uncut(k)' => Uncut(k)
  BY DEF Sound, SoundBelow, Uncut

\* The invariant outlives such a step.
LEMMA FadesKeeps ==
  ASSUME IInv, Shared, Fades
  PROVE  Shared'
<1> USE DEF Shared
<1>1. fw'.subs = fw.subs /\ Objs' = Objs /\ (\A k, v : Has(k, v)' <=> Has(k, v))
  BY HasSame DEF Fades, SameObjects, Objs
<1>2. /\ \A q : Sound(q)' => Sound(q)
      /\ \A s : SoundBelow(s)' => SoundBelow(s)
      /\ \A k : Uncut(k)' => Uncut(k)
  BY CutGrows DEF Fades
<1>3. \A s \in Subsystems : \A q : Sound(q)' /\ Expects(s, q)' => Expects(s, q)
  BY Names DEF Fades, Unsound
<1>4. OneHolder' /\ Backed'
  BY <1>1, <1>2, <1>3 DEF OneHolder, Backed
<1>5. Owned'
  <2> SUFFICES ASSUME NEW q \in fw.subs, Sound(q)'
               PROVE  \E s \in Subsystems : q \in NqnOf[s] /\ (Expects(s, q)' \/ ~Uncut(s)')
    BY <1>1 DEF Owned
  <2>1. PICK s \in Subsystems : q \in NqnOf[s] /\ (Expects(s, q) \/ ~Uncut(s))
    BY <1>2 DEF Owned
  <2>2. Expects(s, q)' \/ ~Uncut(s)'
    BY <1>2, <2>1, Names DEF Fades
  <2> QED
    BY <2>1, <2>2
<1>6. Rooted'
  <2> SUFFICES ASSUME NEW o \in Objs, Sound(o.nqn)'
               PROVE  Expects(Parent[o.owner], o.nqn)' /\ \A w \in Worker : ~Past(w, Parent[o.owner])'
    BY <1>1 DEF Rooted
  <2>1. Expects(Parent[o.owner], o.nqn) /\ \A w \in Worker : ~Past(w, Parent[o.owner])
    BY <1>2 DEF Rooted
  <2>2. Parent[o.owner] \in Keys
    BY ObjsTyped, Names DEF Objs, Children
  <2> QED
    BY <2>1, <2>2 DEF Fades
<1>7. ASSUME NEW k \in Children
      PROVE  AgreeBelow(k)'
  <2>1. k \in Keys /\ k \notin Subsystems
    BY Names
  <2>2. SUFFICES ASSUME SoundBelow(Parent[k])'
                 PROVE  /\ \A v \in Values : Expects(k, v)' => Has(k, v)'
                        /\ Uncut(k)' => \A v \in Values : Has(k, v)' => Expects(k, v)'
    BY DEF AgreeBelow
  <2>3. SoundBelow(Parent[k]) /\ AgreeBelow(k)
    BY <1>2, <2>2
  <2> QED
    BY <1>1, <1>2, <2>1, <2>2, <2>3 DEF AgreeBelow, Fades, Unsound
<1> QED
  BY <1>4, <1>5, <1>6, <1>7

\* A delete that fails past its change leaves its subsystem unsound.
LEMMA DeleteSpoils ==
  ASSUME SInv, NEW w \in Worker, Running(w), h[w].op \in DeleteOps, h[w].pc # "parent",
         NEW k, k = h[w].key, <<h[w].op, k>> \in cut',
         NEW v, k \in Subsystems => v = store[k]
  PROVE  Unsound(k, v)'
<1>1. /\ IInv /\ Tidy(w) /\ Knows(w) /\ k \in Keys
      /\ h[w].op \in SubsystemOps => k \in Subsystems
      /\ h[w].op \notin SubsystemOps => k \in Children
  BY RunningOn DEF SInv, MutatingOps, Children
<1>2. ASSUME NEW q \in NqnOf[Root(k)]
      PROVE  ~Sound(q)'
  <2> DEFINE r == <<h[w].op, k>>
  <2>1. r \in cut' /\ r[1] \in DeleteOps /\ q \in NqnOf[Root(r[2])]
    BY <1>2
  <2> HIDE DEF r
  <2> QED
    BY <2>1 DEF Sound
<1>3. CASE h[w].op \in SubsystemOps
  <2>1. k \in Subsystems /\ Root(k) = k /\ v \in NqnOf[k]
    BY <1>1, <1>3, Names DEF Tidy, Knows
  <2> QED
    BY <1>2, <2>1 DEF Unsound
<1>4. CASE h[w].op \notin SubsystemOps
  <2>1. k \in Children /\ k \notin Subsystems /\ Root(k) = Parent[k]
    BY <1>1, <1>4, Names
  <2>2. h[w].nqn \in NqnOf[Parent[k]]
    BY <1>1, <1>4 DEF Tidy, Knows
  <2>3. ~SoundBelow(Parent[k])'
    BY <1>2, <2>1, <2>2 DEF SoundBelow
  <2> QED
    BY <2>1, <2>3 DEF Unsound
<1> QED
  BY <1>3, <1>4

\* It is enough to look at the name that is worked on.
LEMMA FadesHere ==
  ASSUME SInv, NEW w \in Worker, Acts(w), SameObjects, NEW k \in Keys, k = h[w].key,
         Past(w, k)' => Past(w, k),
         \A v : /\ Expects(k, v)' => Expects(k, v) \/ Unsound(k, v)'
                /\ Expects(k, v) => Expects(k, v)' \/ (~Uncut(k)' /\ Past(w, k))
  PROVE  Fades
<1>1. TypeOK /\ IInv /\ cut \subseteq cut'
  BY ActsOnName DEF SInv, IInv
<1>2. \A u \in Worker : u # w => ~Past(u, k)'
  BY <1>1, HereExpects
<1>3. ASSUME NEW j \in Keys, j # k
      PROVE  /\ \A u \in Worker : Past(u, j)' <=> Past(u, j)
             /\ \A v : Expects(j, v)' <=> Expects(j, v)
  BY <1>1, <1>3, ElsewhereExpects
<1> QED
  BY <1>1, <1>2, <1>3 DEF Fades

\* A handler that goes on, gives up or writes changes no object.
LEMMA ActsFades ==
  ASSUME SInv, NEW w \in Worker, Acts(w), GoesOn(w) \/ GivesUp(w) \/ Writes(w)
  PROVE  Fades
<1> SUFFICES ASSUME NEW k, k = h[w].key
             PROVE  Fades
  OBVIOUS
<1>1. /\ IInv /\ Running(w) /\ k \in Keys /\ Tidy(w) /\ Knows(w) /\ SameObjects
      /\ h[w].op \in MutatingOps
  BY RunningOn DEF SInv, Acts, GoesOn, GivesUp, Writes
<1>2. \A v : Expects(k, v)' <=>
        IF Past(w, k)' THEN h'[w].op \in CreateOps /\ h'[w].obj = v
                       ELSE store'[k] # None /\ store'[k] = v
  BY <1>1, HereExpects
<1>3. \A v : Expects(k, v) <=>
        IF Past(w, k) THEN h[w].op \in CreateOps /\ h[w].obj = v
                      ELSE store[k] # None /\ store[k] = v
  BY <1>1, ExpectsPast, ExpectsRecord
<1>4. h'[w] = IdleFrame => ~Past(w, k)'
  BY DEF Past, PastChange, IdleFrame
<1>5. ASSUME Noted(w)
      PROVE  <<h[w].op, k>> \in cut' /\ ~Uncut(k)'
  <2>1. <<h[w].op, k>> \in cut' /\ <<h[w].op, k>>[2] = k
    BY <1>5 DEF Noted
  <2> QED
    BY <2>1 DEF Uncut
<1>6. store[k] = None <=> h[w].op \in CreateOps
  BY <1>1 DEF IInv, OneAtATime, ReadStaysTrue
<1>7. CASE GoesOn(w)
  <2>1. UNCHANGED store /\ h'[w].op = h[w].op /\ h'[w].obj = h[w].obj /\ h'[w].key = k
    BY <1>7 DEF GoesOn
  <2>2. Past(w, k)' <=> Past(w, k)
    BY <1>7, <2>1 DEF Past, GoesOn
  <2> QED
    BY <1>1, <1>2, <1>3, <2>1, <2>2, FadesHere
<1>8. CASE GivesUp(w)
  <2>1. UNCHANGED store /\ ~Past(w, k)'
    BY <1>4, <1>8 DEF GivesUp
  <2>2. CASE ~Past(w, k)
    BY <1>1, <1>2, <1>3, <2>1, <2>2, FadesHere
  <2>3. CASE Past(w, k)
    <3>1. Noted(w) /\ h[w].pc # "parent" /\ h[w].op \in CreateOps \cup DeleteOps
      BY <1>8, <2>3 DEF GivesUp, Past, PastChange
    <3>2. ASSUME NEW v, Expects(k, v)'
          PROVE  Unsound(k, v)'
      <4>1. store[k] # None /\ v = store[k] /\ h[w].op \in DeleteOps
        BY <1>2, <1>6, <2>1, <3>1, <3>2
      <4> QED
        BY <1>1, <1>5, <3>1, <4>1, DeleteSpoils
    <3> QED
      BY <1>1, <1>5, <2>1, <2>3, <3>1, <3>2, FadesHere
  <2> QED
    BY <2>2, <2>3
<1>9. CASE Writes(w)
  <2>1. PICK value :
          /\ \/ store' = [store EXCEPT ![k] = value] /\ (UNCHANGED cut \/ Noted(w))
             \/ UNCHANGED store /\ (Noted(w) \/ (UNCHANGED cut /\ ~h[w].changed))
          /\ \/ h[w].op \in CreateOps /\ h[w].pc = "save" /\ value = h[w].obj
             \/ h[w].op \in DeleteOps /\ h[w].pc = "erase" /\ value = None
             \/ At(w, "UpdateNvmeController", "save") /\ value = h[w].obj
    BY <1>9 DEF Writes
  <2>2. ~Past(w, k)' /\ (store' = [store EXCEPT ![k] = value] => store'[k] = value)
    BY <1>1, <1>4, <1>9 DEF Writes, IInv, TypeOK, StoreOK
  <2>3. CASE h[w].op \in CreateOps /\ h[w].pc = "save" /\ value = h[w].obj
    <3>1. Past(w, k) /\ h[w].changed /\ store[k] = None
      BY <1>1, <1>6, <2>3 DEF Past, PastChange, Tidy
    <3>2. \A v : Expects(k, v)' => Expects(k, v)
      BY <1>2, <1>3, <2>1, <2>2, <2>3, <3>1
    <3>3. h[w].obj # None
      <4>1. h[w].obj \in Nqns \cup CtrlrNums \cup NsNums
        BY <1>1, <2>3, RunningTyped DEF IInv, TypeOK, MutatingOps
      <4> QED
        BY <4>1, NumsAreInts, FrontendAssumption DEF FrontendAssumption
    <3>4. \A v : Expects(k, v) => Expects(k, v)' \/ Noted(w)
      BY <1>2, <1>3, <2>1, <2>2, <2>3, <3>1, <3>3
    <3> QED
      BY <1>1, <1>5, <2>2, <3>1, <3>2, <3>4, FadesHere
  <2>4. CASE h[w].op \in DeleteOps /\ h[w].pc = "erase" /\ value = None
    <3>1. Past(w, k) /\ h[w].changed
      BY <1>1, <2>4 DEF Past, PastChange, Tidy
    <3>2. \A v : ~Expects(k, v)
      BY <1>3, <2>4, <3>1 DEF CreateOps, DeleteOps
    <3>3. ASSUME NEW v, Expects(k, v)'
          PROVE  Unsound(k, v)'
      <4>1. v = store[k] /\ Noted(w)
        BY <1>2, <2>1, <2>2, <2>4, <3>1, <3>3
      <4> QED
        BY <1>1, <1>5, <2>4, <4>1, DeleteSpoils
    <3> QED
      BY <1>1, <2>2, <3>2, <3>3, FadesHere
  <2>5. CASE At(w, "UpdateNvmeController", "save") /\ value = h[w].obj
    <3>1. ~Past(w, k) /\ h[w].obj = store[k]
      BY <1>1, <2>5 DEF Past, At, Knows, CreateOps, DeleteOps
    <3>2. store'[k] = store[k]
      BY <2>1, <2>2, <2>5, <3>1
    <3> QED
      BY <1>1, <1>2, <1>3, <2>2, <3>1, <3>2, FadesHere
  <2> QED
    BY <2>1, <2>3, <2>4, <2>5
<1> QED
  BY <1>7, <1>8, <1>9

\* A request that arrives is about to change something at most.
LEMMA ArrivesFades ==
  ASSUME NEW w \in Worker, ~Running(w), Arrives(w), \A v \in Worker : v # w => h'[v] = h[v]
  PROVE  Fades
<1>1. ~PastChange(h[w]) /\ ~PastChange(h'[w])
  BY DEF Arrives, PastChange, Running
<1>2. \A u \in Worker : \A k \in Keys : /\ Past(u, k)' <=> Past(u, k)
                                        /\ Past(u, k) => h'[u] = h[u]
  BY <1>1 DEF Past
<1>3. UNCHANGED <<store, fw, cut>>
  BY DEF Arrives
<1>4. \A k \in Keys : \A v : Expects(k, v)' <=> Expects(k, v)
  BY <1>2, <1>3 DEF Expects
<1> QED
  BY <1>2, <1>3, <1>4 DEF Fades, SameObjects

\* A restart cuts short every request that has changed the application.
LEMMA RestartFades ==
  ASSUME SInv, Restart
  PROVE  Fades
<1>1. /\ UNCHANGED <<store, fw>> /\ cut \subseteq cut'
      /\ \A u \in Worker : h'[u] = IdleFrame
      /\ \A u \in Worker : h[u].changed => <<h[u].op, h[u].key>> \in cut'
  BY DEF Restart
<1>2. \A u \in Worker : \A k : ~Past(u, k)'
  BY <1>1 DEF Past, PastChange, IdleFrame
<1>3. \A k : \A v : Expects(k, v)' <=> store[k] # None /\ store[k] = v
  BY <1>1, <1>2 DEF Expects
<1>4. ASSUME NEW k \in Keys, NEW u \in Worker, Past(u, k)
      PROVE  /\ \A v : Expects(k, v)' => Unsound(k, v)'
             /\ ~Uncut(k)'
  <2>1. /\ Running(u) /\ h[u].key = k /\ Tidy(u) /\ Knows(u) /\ h[u].changed
        /\ h[u].pc # "parent" /\ h[u].op \in CreateOps \cup DeleteOps
    BY <1>4 DEF Past, PastChange, Running, SInv, Tidy
  <2>2. <<h[u].op, k>> \in cut' /\ <<h[u].op, k>>[2] = k
    BY <1>1, <2>1
  <2>3. h[u].op \in CreateOps <=> store[k] = None
    BY <2>1 DEF SInv, IInv, OneAtATime, ReadStaysTrue
  <2>4. ASSUME NEW v, Expects(k, v)'
        PROVE  Unsound(k, v)'
    <3>1. v = store[k] /\ h[u].op \in DeleteOps
      BY <1>3, <2>1, <2>3, <2>4
    <3> QED
      BY <2>1, <2>2, <3>1, DeleteSpoils
  <2> QED
    BY <2>2, <2>4 DEF Uncut
<1>5. ASSUME NEW k \in Keys, \A u \in Worker : ~Past(u, k), NEW v
      PROVE  Expects(k, v)' <=> Expects(k, v)
  BY <1>3, <1>5 DEF Expects
<1> QED
  BY <1>1, <1>2, <1>4, <1>5 DEF Fades, SameObjects
---------------------------------------------------------------------------
(* Steps that make an object come or go.                                   *)

\* Afterwards k is expected to have what the call has made, and nothing after a
\* delete; if the answer is lost, k is expected to have what it had before.
Turns(op, k, n) ==
  \/ UNCHANGED cut /\ \A v : Expects(k, v)' <=> op \in CreateOps /\ v = n
  \/ <<op, k>> \in cut' /\ \A v : Expects(k, v)' <=> Expects(k, v)

\* The call of a create or a delete turns what its own name expects, and that only.
LEMMA AltersTurns ==
  ASSUME SInv, NEW w \in Worker, Acts(w), Alters(w), NEW k, k = h[w].key
  PROVE  /\ k \in Keys /\ Running(w) /\ cut \subseteq cut'
         /\ h[w].op \in CreateOps => \A v : ~Expects(k, v)
         /\ h[w].op \in DeleteOps => \A v : Expects(k, v) <=> v = h[w].obj
         /\ \E n : Effect(w, n) /\ Turns(h[w].op, k, n)
         /\ \A j \in Keys : j # k =>
              /\ \A u \in Worker : Past(u, j)' <=> Past(u, j)
              /\ \A v : Expects(j, v)' <=> Expects(j, v)
<1>1. /\ IInv /\ TypeOK /\ k \in Keys /\ Running(w) /\ Knows(w) /\ h[w].pc = "rpc"
      /\ UNCHANGED store /\ h[w].op \in CreateOps \cup DeleteOps
  BY RunningOn DEF SInv, IInv, Acts, Alters
<1>2. cut \subseteq cut'
  BY <1>1, ActsOnName
<1>3. ~Past(w, k)
  BY <1>1 DEF Past, PastChange
<1>4. \A v : Expects(k, v) <=> store[k] # None /\ store[k] = v
  BY <1>1, <1>3, ExpectsRecord
<1>5. store[k] = None <=> h[w].op \in CreateOps
  BY <1>1 DEF IInv, OneAtATime, ReadStaysTrue
<1>6. h[w].op \in DeleteOps => h[w].obj = store[k] /\ h[w].op \notin CreateOps
  BY <1>1 DEF Knows, CreateOps, DeleteOps
<1>7. \A v : Expects(k, v)' <=>
        IF Past(w, k)' THEN h'[w].op \in CreateOps /\ h'[w].obj = v
                       ELSE store'[k] # None /\ store'[k] = v
  <2>1. IInv
    BY <1>1
  <2> QED
    BY <2>1, HereExpects
<1>8. \E n : Effect(w, n) /\ Turns(h[w].op, k, n)
  <2>1. CASE /\ h'[w].op = h[w].op /\ h'[w].key = h[w].key /\ PastChange(h'[w])
             /\ UNCHANGED cut /\ Effect(w, h'[w].obj)
    <3>1. Past(w, k)'
      BY <1>1, <2>1 DEF Past
    <3>2. \A v : Expects(k, v)' <=> h[w].op \in CreateOps /\ v = h'[w].obj
      BY <1>7, <2>1, <3>1
    <3> QED
      BY <2>1, <3>2 DEF Turns
  <2>2. CASE h'[w] = IdleFrame /\ Noted(w) /\ \E n : Effect(w, n)
    <3>1. ~Past(w, k)' /\ <<h[w].op, k>> \in cut'
      BY <2>2 DEF Past, PastChange, IdleFrame, Noted
    <3>2. \A v : Expects(k, v)' <=> store'[k] # None /\ store'[k] = v
      BY <1>7, <3>1
    <3>3. \A v : Expects(k, v)' <=> Expects(k, v)
      BY <1>1, <1>4, <3>2
    <3> QED
      BY <2>2, <3>1, <3>3 DEF Turns
  <2> QED
    BY <2>1, <2>2 DEF Alters
<1>9. \A j \in Keys : j # k =>
        /\ \A u \in Worker : Past(u, j)' <=> Past(u, j)
        /\ \A v : Expects(j, v)' <=> Expects(j, v)
  BY <1>1, ElsewhereExpects
<1>10. /\ h[w].op \in CreateOps => \A v : ~Expects(k, v)
       /\ h[w].op \in DeleteOps => \A v : Expects(k, v) <=> v = h[w].obj
  BY <1>4, <1>5, <1>6
<1>11. k \in Keys /\ Running(w)
  BY <1>1
<1> QED
  BY <1>2, <1>8, <1>9, <1>10, <1>11

\* A subsystem is created or deleted in the application.
LEMMA SubsystemAltersKeeps ==
  ASSUME SInv, NEW w \in Worker, Acts(w), Alters(w), h[w].op \in SubsystemOps
  PROVE  Shared'
<1> SUFFICES ASSUME NEW k, k = h[w].key, NEW q, q = h[w].obj
             PROVE  Shared'
  OBVIOUS
<1>1. /\ k \in Keys /\ Running(w) /\ cut \subseteq cut'
      /\ h[w].op \in CreateOps => \A v : ~Expects(k, v)
      /\ h[w].op \in DeleteOps => \A v : Expects(k, v) <=> v = q
      /\ \E n : Effect(w, n) /\ Turns(h[w].op, k, n)
      /\ \A j \in Keys : j # k =>
           /\ \A u \in Worker : Past(u, j)' <=> Past(u, j)
           /\ \A v : Expects(j, v)' <=> Expects(j, v)
  BY AltersTurns
<1>2. /\ k \in Subsystems /\ q \in NqnOf[k] /\ IInv /\ Shared /\ h[w].pc = "rpc"
      /\ h[w].op = "CreateNvmeSubsystem" \/ h[w].op = "DeleteNvmeSubsystem"
  BY <1>1, RunningOn DEF SInv, Tidy, SubsystemOps, Alters
<1>3. /\ \A x : Sound(x)' => Sound(x)
      /\ \A s : SoundBelow(s)' => SoundBelow(s)
      /\ \A j : Uncut(j)' => Uncut(j)
  BY <1>1, CutGrows
<1>4. Turns(h[w].op, k, q) /\ Objs' = Objs /\ fw'.ctrls = fw.ctrls /\ fw'.nss = fw.nss
  BY <1>1, <1>2 DEF Effect, Objs, CreateOps, DeleteOps, SubsystemOps
<1>5. \A s \in Subsystems : s # k => \A x : Expects(s, x)' <=> Expects(s, x)
  BY <1>1, Names
<1>6. ASSUME NEW o \in Objs
      PROVE  Parent[o.owner] \in Keys
  BY <1>2, <1>6, ObjsTyped, Names DEF Objs, Children
<1>7. \A j \in Children : AgreeBelow(j)'
  <2> SUFFICES ASSUME NEW j \in Children, SoundBelow(Parent[j])'
               PROVE  /\ \A v \in Values : Expects(j, v)' => Has(j, v)'
                      /\ Uncut(j)' => \A v \in Values : Has(j, v)' => Expects(j, v)'
    BY DEF AgreeBelow
  <2>1. j \in Keys /\ j # k /\ j \notin Subsystems
    BY <1>2, Names
  <2>2. \A v : /\ Has(j, v)' <=> Has(j, v)
               /\ Expects(j, v)' <=> Expects(j, v)
    BY <1>1, <1>4, <2>1 DEF Has
  <2>3. AgreeBelow(j) /\ SoundBelow(Parent[j])
    BY <1>2, <1>3 DEF Shared
  <2> QED
    BY <1>3, <2>2, <2>3 DEF AgreeBelow
<1>8. CASE h[w].op = "CreateNvmeSubsystem"
  <2>1. /\ q \notin fw.subs /\ fw'.subs = fw.subs \cup {q}
        /\ \A v : ~Expects(k, v) /\ h[w].op \in CreateOps
    BY <1>1, <1>8 DEF Effect, CreateOps, DeleteOps, SubsystemOps
  <2>2. \A x : Expects(k, x)' => x = q
    BY <1>4, <2>1 DEF Turns
  <2>3. Expects(k, q)' \/ ~Uncut(k)'
    <3>1. ASSUME <<h[w].op, k>> \in cut'
          PROVE  ~Uncut(k)'
      <4>1. <<h[w].op, k>>[2] = k
        OBVIOUS
      <4> QED
        BY <3>1, <4>1 DEF Uncut
    <3> QED
      BY <1>4, <2>1, <3>1 DEF Turns
  <2>4. ASSUME NEW s \in Subsystems, NEW x \in Nqns, Sound(x)', Expects(s, x)'
        PROVE  /\ x \in fw'.subs
               /\ x = q => s = k
               /\ x # q => Expects(s, x)
    BY <1>2, <1>3, <1>5, <2>1, <2>2, <2>4 DEF Shared, Backed
  <2>5. OneHolder' /\ Backed'
    BY <1>2, <1>3, <2>4 DEF Shared, OneHolder, Backed
  <2>6. Owned'
    <3> SUFFICES ASSUME NEW x \in fw'.subs, Sound(x)'
                 PROVE  \E s \in Subsystems : x \in NqnOf[s] /\ (Expects(s, x)' \/ ~Uncut(s)')
      BY DEF Owned
    <3>1. CASE x = q
      BY <1>2, <2>3, <3>1
    <3>2. CASE x \in fw.subs
      BY <1>2, <1>3, <1>5, <2>1, <3>2 DEF Shared, Owned
    <3> QED
      BY <2>1, <3>1, <3>2
  <2>7. Rooted'
    BY <1>1, <1>2, <1>3, <1>4, <1>6, <2>1 DEF Shared, Rooted
  <2> QED
    BY <1>7, <2>5, <2>6, <2>7 DEF Shared
<1>9. CASE h[w].op = "DeleteNvmeSubsystem"
  <2>1. /\ \A o \in Objs : o.nqn # q
        /\ fw'.subs = fw.subs \ {q}
        /\ \A v : Expects(k, v) <=> v = q
        /\ h[w].op \in DeleteOps /\ h[w].op \notin CreateOps
    BY <1>1, <1>9 DEF Effect, CreateOps, DeleteOps, SubsystemOps
  <2>2. (\A v : ~Expects(k, v)') \/ ((\A v : Expects(k, v)' <=> v = q) /\ ~Sound(q)')
    <3>1. ASSUME <<h[w].op, k>> \in cut'
          PROVE  ~Sound(q)'
      <4> DEFINE r == <<h[w].op, k>>
      <4>1. r \in cut' /\ r[1] \in DeleteOps /\ q \in NqnOf[Root(r[2])]
        BY <1>2, <2>1, <3>1, Names
      <4> HIDE DEF r
      <4> QED
        BY <4>1 DEF Sound
    <3> QED
      BY <1>4, <2>1, <3>1 DEF Turns
  <2>3. ASSUME NEW s \in Subsystems, NEW x \in Nqns, Sound(x)', Expects(s, x)'
        PROVE  s # k /\ Expects(s, x) /\ x # q
    <3>1. s # k
      BY <2>2, <2>3
    <3>2. Expects(s, x) /\ Sound(x)
      BY <1>3, <1>5, <2>3, <3>1
    <3>3. x # q
      BY <1>2, <2>1, <3>1, <3>2 DEF Shared, OneHolder
    <3> QED
      BY <3>1, <3>2, <3>3
  <2>4. OneHolder' /\ Backed'
    BY <1>2, <1>3, <2>1, <2>3 DEF Shared, OneHolder, Backed
  <2>5. Owned'
    <3> SUFFICES ASSUME NEW x \in fw.subs, x # q, Sound(x)'
                 PROVE  \E s \in Subsystems : x \in NqnOf[s] /\ (Expects(s, x)' \/ ~Uncut(s)')
      BY <2>1 DEF Owned
    <3> QED
      BY <1>2, <1>3, <1>5, <2>1 DEF Shared, Owned
  <2>6. Rooted'
    <3> SUFFICES ASSUME NEW o \in Objs, Sound(o.nqn)'
                 PROVE  /\ Expects(Parent[o.owner], o.nqn)'
                        /\ \A u \in Worker : ~Past(u, Parent[o.owner])'
      BY <1>4 DEF Rooted
    <3>1. /\ Expects(Parent[o.owner], o.nqn)
          /\ \A u \in Worker : ~Past(u, Parent[o.owner])
      BY <1>2, <1>3 DEF Shared, Rooted
    <3>2. Parent[o.owner] # k
      BY <2>1, <3>1
    <3> QED
      BY <1>1, <1>6, <3>1, <3>2
  <2> QED
    BY <1>7, <2>4, <2>5, <2>6 DEF Shared
<1> QED
  BY <1>2, <1>8, <1>9

\* While a handler calls for a controller or namespace, its subsystem stands under
\* the NQN the handler has read, before the call and after it.
LEMMA StandsAbove ==
  ASSUME SInv, NEW w \in Worker, Acts(w), Alters(w), h[w].op \notin SubsystemOps,
         NEW k, k = h[w].key, NEW s, s = Parent[k], NEW q, q = h[w].nqn
  PROVE  /\ k \in Children /\ s \in Subsystems /\ q \in NqnOf[s]
         /\ \A u \in Worker : ~Past(u, s) /\ ~Past(u, s)'
         /\ Expects(s, q) /\ Expects(s, q)'
<1>1. /\ IInv /\ TypeOK /\ Running(w) /\ Tidy(w) /\ Knows(w) /\ h[w].pc = "rpc"
      /\ OnePerSubsystem /\ k \in Keys /\ h[w].op \in MutatingOps
  BY RunningOn DEF SInv, IInv, Acts, Alters
<1>2. k \in Children
  BY <1>1, RunningOn DEF MutatingOps, Children
<1>3. Root(k) = s /\ s \in Subsystems /\ s \in Keys /\ Root(s) = s /\ s # k
  BY <1>2, Names
<1>4. q = store[s] /\ store[s] # None /\ q \in NqnOf[s]
  BY <1>1 DEF Knows, Tidy
<1>5. ASSUME NEW u \in Worker, Past(u, s)
      PROVE  FALSE
  <2>1. Running(u) /\ h[u].key = s
    BY <1>5 DEF Past, PastChange, Running
  <2>2. u = w
    BY <1>1, <1>3, <2>1 DEF OnePerSubsystem
  <2> QED
    BY <1>3, <2>1, <2>2
<1>6. Expects(s, q)
  BY <1>4, <1>5 DEF Expects
<1>7. /\ \A u \in Worker : Past(u, s)' <=> Past(u, s)
      /\ \A v : Expects(s, v)' <=> Expects(s, v)
  BY <1>1, <1>3, ElsewhereExpects
<1> QED
  BY <1>2, <1>3, <1>4, <1>5, <1>6, <1>7

\* What is said of the subsystems outlives the coming and going of other objects.
LEMMA SubsystemsKeep ==
  ASSUME IInv, Shared, cut \subseteq cut', fw'.subs = fw.subs,
         \A s \in Subsystems : \A q : Expects(s, q)' <=> Expects(s, q)
  PROVE  OneHolder' /\ Backed' /\ Owned'
<1>1. /\ \A q : Sound(q)' => Sound(q)
      /\ \A s : Uncut(s)' => Uncut(s)
  BY CutGrows
<1> QED
  BY <1>1 DEF Shared, OneHolder, Backed, Owned

\* A controller or namespace is created in the application.
LEMMA AddKeeps ==
  ASSUME SInv, NEW w \in Worker, Acts(w), Alters(w), h[w].op \notin SubsystemOps,
         h[w].op \in CreateOps
  PROVE  Shared'
<1> SUFFICES ASSUME NEW k, k = h[w].key, NEW q, q = h[w].nqn
             PROVE  Shared'
  OBVIOUS
<1>1. /\ cut \subseteq cut' /\ \A v : ~Expects(k, v)
      /\ \E n : Effect(w, n) /\ Turns(h[w].op, k, n)
      /\ \A j \in Keys : j # k =>
           /\ \A u \in Worker : Past(u, j)' <=> Past(u, j)
           /\ \A v : Expects(j, v)' <=> Expects(j, v)
  BY AltersTurns
<1>2. /\ k \in Children /\ Parent[k] \in Subsystems
      /\ \A u \in Worker : ~Past(u, Parent[k])'
      /\ Expects(Parent[k], q)'
  BY StandsAbove
<1>3. PICK n : Effect(w, n) /\ Turns(h[w].op, k, n)
  BY <1>1
<1>4. IInv /\ Shared /\ Adds(k, q, n)
  BY <1>3 DEF SInv, Effect, CreateOps, DeleteOps, SubsystemOps
<1>5. /\ \A x : Sound(x)' => Sound(x)
      /\ \A s : SoundBelow(s)' => SoundBelow(s)
      /\ \A j : Uncut(j)' => Uncut(j)
  BY <1>1, CutGrows
<1> DEFINE o == [nqn |-> q, id |-> n, owner |-> k]
<1>6. o.nqn = q /\ o.id = n /\ o.owner = k
  OBVIOUS
<1> HIDE DEF o
<1>7. Objs' = Objs \cup {o} /\ fw'.subs = fw.subs
  BY <1>4 DEF Adds, Objs, o
<1>8. k \in Keys /\ k \notin Subsystems
  BY <1>2, Names
<1>9. OneHolder' /\ Backed' /\ Owned'
  <2>1. \A s \in Subsystems : \A x : Expects(s, x)' <=> Expects(s, x)
    BY <1>1, <1>8, Names
  <2> QED
    BY <1>1, <1>4, <1>7, <2>1, SubsystemsKeep
<1>10. Rooted'
  <2> SUFFICES ASSUME NEW p \in Objs', Sound(p.nqn)'
               PROVE  /\ Expects(Parent[p.owner], p.nqn)'
                      /\ \A u \in Worker : ~Past(u, Parent[p.owner])'
    BY DEF Rooted
  <2>1. CASE p = o
    BY <1>2, <1>6, <2>1
  <2>2. CASE p \in Objs
    <3>1. Parent[p.owner] \in Keys /\ Parent[p.owner] # k
      BY <1>4, <1>8, <2>2, ObjsTyped, Names DEF Objs, Children
    <3>2. /\ Expects(Parent[p.owner], p.nqn)
          /\ \A u \in Worker : ~Past(u, Parent[p.owner])
      BY <1>4, <1>5, <2>2 DEF Shared, Rooted
    <3> QED
      BY <1>1, <3>1, <3>2
  <2> QED
    BY <1>7, <2>1, <2>2
<1>11. ASSUME NEW j \in Children, NEW v
       PROVE  Has(j, v)' <=> Has(j, v) \/ (j = k /\ v = n)
  <2>1. j \notin Subsystems
    BY Names
  <2> QED
    BY <1>6, <1>7, <2>1 DEF Has
<1>12. ASSUME NEW j \in Children, SoundBelow(Parent[j])'
       PROVE  /\ \A v \in Values : Expects(j, v)' => Has(j, v)'
              /\ Uncut(j)' => \A v \in Values : Has(j, v)' => Expects(j, v)'
  <2>1. AgreeBelow(j) /\ SoundBelow(Parent[j]) /\ j \in Keys
    BY <1>4, <1>5, <1>12, Names DEF Shared
  <2>2. CASE j # k
    BY <1>1, <1>5, <1>11, <2>1, <2>2 DEF AgreeBelow
  <2>3. CASE j = k
    <3>1. CASE UNCHANGED cut /\ \A v : Expects(k, v)' <=> h[w].op \in CreateOps /\ v = n
      <4>1. \A v \in Values : Uncut(k)' => ~Has(k, v)
        BY <1>1, <1>5, <2>1, <2>3 DEF AgreeBelow
      <4> QED
        BY <1>11, <2>3, <3>1, <4>1
    <3>2. CASE <<h[w].op, k>> \in cut' /\ \A v : Expects(k, v)' <=> Expects(k, v)
      <4>1. <<h[w].op, k>>[2] = k
        OBVIOUS
      <4>2. ~Uncut(k)'
        BY <3>2, <4>1 DEF Uncut
      <4> QED
        BY <1>1, <2>3, <3>2, <4>2
    <3> QED
      BY <1>3, <3>1, <3>2 DEF Turns
  <2> QED
    BY <2>2, <2>3
<1>13. \A j \in Children : AgreeBelow(j)'
  BY <1>12 DEF AgreeBelow
<1> QED
  BY <1>9, <1>10, <1>13 DEF Shared

\* In a sound subsystem the object that a handler removes is that of its own name.
LEMMA RemovesItsOwn ==
  ASSUME SInv, NEW w \in Worker, Acts(w), Alters(w), h[w].op \notin SubsystemOps,
         h[w].op \in DeleteOps, NEW k, k = h[w].key,
         NEW o \in Objs, o.nqn = h[w].nqn, o.id = h[w].obj,
         (k \in Controllers /\ o \in fw.ctrls) \/ (k \in Namespaces /\ o \in fw.nss),
         SoundBelow(Parent[o.owner])
  PROVE  o.owner = k
<1> SUFFICES ASSUME NEW q, q = h[w].nqn, NEW i, i = h[w].obj, NEW s, s = Parent[k]
             PROVE  o.owner = k
  OBVIOUS
<1>1. k \in Children /\ s \in Subsystems /\ q \in NqnOf[s] /\ Expects(s, q)
  BY StandsAbove
<1>2. /\ IInv /\ TypeOK /\ Placed /\ Shared /\ k \in Keys
      /\ h[w].op \in DeleteOps => \A v : Expects(k, v) <=> v = i
  BY AltersTurns DEF SInv, IInv
<1>3. o.owner \in Children /\ q \in NqnOf[Parent[o.owner]] /\ q \in Nqns
  BY <1>2, ObjsTyped DEF Placed, Objs, Children
<1>4. Parent[o.owner] = s
  <2>1. Sound(q) /\ Parent[o.owner] \in Subsystems
    BY <1>3, Names DEF SoundBelow
  <2>2. Expects(Parent[o.owner], q)
    BY <1>2, <2>1 DEF Shared, Rooted
  <2> QED
    BY <1>1, <1>2, <1>3, <2>1, <2>2 DEF Shared, OneHolder
<1>5. i \in Values
  BY <1>2, ObjsTyped DEF Objs, Values
<1>6. Has(k, i)
  BY <1>1, <1>2, <1>4, <1>5 DEF Shared, AgreeBelow
<1>7. PICK p \in Objs : /\ p.owner = k /\ p.id = i /\ p.nqn \in fw.subs \cap NqnOf[Root(k)]
                        /\ k \in Controllers => p \in fw.ctrls
                        /\ k \in Namespaces => p \in fw.nss
  BY <1>1, <1>2, <1>6, HasThere
<1>8. p.nqn = q
  <2>1. Root(k) = s
    BY <1>1, Names
  <2>2. Sound(p.nqn)
    BY <1>4, <1>7, <2>1 DEF SoundBelow
  <2>3. Expects(s, p.nqn)
    BY <1>2, <1>7, <2>2 DEF Shared, Rooted
  <2> QED
    BY <1>1, <1>2, <2>3, ExpectsOne
<1>9. p = o
  BY <1>2, <1>7, <1>8 DEF Placed
<1> QED
  BY <1>7, <1>9

\* A controller or namespace is removed from the application.
LEMMA RemoveKeeps ==
  ASSUME SInv, NEW w \in Worker, Acts(w), Alters(w), h[w].op \notin SubsystemOps,
         h[w].op \in DeleteOps
  PROVE  Shared'
<1> SUFFICES ASSUME NEW k, k = h[w].key, NEW q, q = h[w].nqn, NEW i, i = h[w].obj,
                    NEW s, s = Parent[k]
             PROVE  Shared'
  OBVIOUS
<1>1. /\ cut \subseteq cut' /\ \A v : Expects(k, v) <=> v = i
      /\ \E n : Effect(w, n) /\ Turns(h[w].op, k, n)
      /\ \A j \in Keys : j # k =>
           /\ \A u \in Worker : Past(u, j)' <=> Past(u, j)
           /\ \A v : Expects(j, v)' <=> Expects(j, v)
  BY AltersTurns
<1>2. /\ k \in Children /\ s \in Subsystems /\ q \in NqnOf[s] /\ Expects(s, q)
  BY StandsAbove
<1>3. /\ IInv /\ TypeOK /\ Placed /\ Shared /\ Removes(k, q, i) /\ Turns(h[w].op, k, i)
      /\ h[w].op \notin CreateOps
  BY <1>1 DEF SInv, IInv, Effect, CreateOps, DeleteOps, SubsystemOps
<1>4. /\ \A x : Sound(x)' => Sound(x)
      /\ \A t : SoundBelow(t)' => SoundBelow(t)
      /\ \A j : Uncut(j)' => Uncut(j)
  BY <1>1, CutGrows
<1>5. /\ Objs' \subseteq Objs /\ fw'.subs = fw.subs
      /\ \A o \in Objs \ Objs' : /\ o.nqn = q /\ o.id = i
                                 /\ (k \in Controllers /\ o \in fw.ctrls) \/ (k \in Namespaces /\ o \in fw.nss)
  BY <1>3 DEF Removes, Objs
<1>6. k \in Keys /\ k \notin Subsystems /\ Root(k) = s
  BY <1>2, Names
<1>7. OneHolder' /\ Backed' /\ Owned'
  <2>1. \A t \in Subsystems : \A x : Expects(t, x)' <=> Expects(t, x)
    BY <1>1, <1>6, Names
  <2> QED
    BY <1>1, <1>3, <1>5, <2>1, SubsystemsKeep
<1>8. Rooted'
  <2> SUFFICES ASSUME NEW o \in Objs', Sound(o.nqn)'
               PROVE  /\ Expects(Parent[o.owner], o.nqn)'
                      /\ \A u \in Worker : ~Past(u, Parent[o.owner])'
    BY DEF Rooted
  <2>1. o \in Objs /\ Parent[o.owner] \in Keys /\ Parent[o.owner] # k
    BY <1>3, <1>5, <1>6, ObjsTyped, Names DEF Objs, Children
  <2>2. /\ Expects(Parent[o.owner], o.nqn)
        /\ \A u \in Worker : ~Past(u, Parent[o.owner])
    BY <1>3, <1>4, <2>1 DEF Shared, Rooted
  <2> QED
    BY <1>1, <2>1, <2>2
<1>9. ASSUME NEW j \in Children, SoundBelow(Parent[j])'
      PROVE  /\ \A v \in Values : Expects(j, v)' => Has(j, v)'
             /\ Uncut(j)' => \A v \in Values : Has(j, v)' => Expects(j, v)'
  <2>1. AgreeBelow(j) /\ SoundBelow(Parent[j]) /\ j \in Keys /\ j \notin Subsystems
    BY <1>3, <1>4, <1>9, Names DEF Shared
  <2>2. \A v : Has(j, v)' => Has(j, v)
    BY <1>5, <2>1 DEF Has
  <2>3. CASE j # k
    <3>1. ASSUME NEW v, Has(j, v)
          PROVE  Has(j, v)'
      <4>1. PICK o \in Objs : o.owner = j /\ o.id = v
        BY <2>1, <3>1 DEF Has
      <4>2. o \in Objs'
        BY <1>5, <2>1, <2>3, <4>1, RemovesItsOwn
      <4> QED
        BY <4>1, <4>2 DEF Has
    <3> QED
      BY <1>1, <1>4, <2>1, <2>2, <2>3, <3>1 DEF AgreeBelow
  <2>4. CASE j = k
    <3>1. CASE UNCHANGED cut /\ \A v : ~Expects(k, v)'
      <4>1. ASSUME NEW v \in Values, Uncut(k)', Has(k, v)'
            PROVE  FALSE
        <5>1. Has(k, v) /\ v = i
          BY <1>1, <1>4, <2>1, <2>2, <2>4, <4>1 DEF AgreeBelow
        <5>2. PICK o \in Objs' : o.owner = k /\ o.id = i
          BY <1>6, <4>1, <5>1 DEF Has
        <5>3. o \in Objs /\ o.nqn \in NqnOf[s]
          BY <1>3, <1>5, <5>2 DEF Placed
        <5>4. Expects(s, o.nqn)
          BY <1>3, <2>1, <2>4, <5>2, <5>3 DEF Shared, Rooted, SoundBelow
        <5>5. o.nqn = q
          BY <1>2, <1>3, <5>4, ExpectsOne
        <5>6. /\ k \in Controllers => o \notin fw'.nss
              /\ k \in Namespaces => o \notin fw'.ctrls
          BY <1>3, <1>5, <5>2, ObjsKinds, FrontendAssumption
             DEF FrontendAssumption, Removes
        <5> QED
          BY <1>3, <5>2, <5>5, <5>6 DEF Removes, Objs
      <4> QED
        BY <2>4, <3>1, <4>1
    <3>2. CASE <<h[w].op, k>> \in cut'
      <4> DEFINE r == <<h[w].op, k>>
      <4>1. r \in cut' /\ r[1] \in DeleteOps /\ q \in NqnOf[Root(r[2])]
        BY <1>2, <1>6, <3>2
      <4> HIDE DEF r
      <4>2. ~SoundBelow(s)'
        BY <1>2, <4>1 DEF Sound, SoundBelow
      <4> QED
        BY <1>9, <2>4, <4>2
    <3> QED
      BY <1>3, <3>1, <3>2 DEF Turns
  <2> QED
    BY <2>3, <2>4
<1>10. \A j \in Children : AgreeBelow(j)'
  BY <1>9 DEF AgreeBelow
<1> QED
  BY <1>7, <1>8, <1>10 DEF Shared

\* The step of a handler, whatever it is, keeps what is said where NQNs are shared.
LEMMA ActsShared ==
  ASSUME SInv, NEW w \in Worker, Acts(w)
  PROVE  Shared'
<1>1. CASE Alters(w)
  BY <1>1, SubsystemAltersKeeps, AddKeeps, RemoveKeeps DEF Alters
<1>2. CASE GoesOn(w) \/ GivesUp(w) \/ Writes(w)
  <2>1. IInv /\ Shared
    BY DEF SInv
  <2> QED
    BY <1>2, <2>1, ActsFades, FadesKeeps
<1> QED
  BY <1>1, <1>2 DEF Acts
---------------------------------------------------------------------------
(* The invariant is inductive.                                             *)

\* What handlers know stays true: no other handler writes what they have read.
LEMMA ActsKnows ==
  ASSUME SInv, TypeOK', NEW w \in Worker, Acts(w), NEW v \in Worker
  PROVE  Knows(v)'
<1>1. IInv /\ TypeOK /\ OnePerSubsystem /\ Knows(w) /\ Knows(v) /\ Running(w)
  BY DEF SInv, IInv, Acts
<1>2. CASE v # w /\ Running(v)
  <2>1. h'[v] = h[v] /\ Root(h[v].key) # Root(h[w].key)
    BY <1>1, <1>2 DEF Acts, OnePerSubsystem
  <2>2. h[v].key \in Keys /\ store'[h[v].key] = store[h[v].key]
    BY <1>1, <1>2, <2>1, RunningOn, ActsOnName
  <2>3. ASSUME h[v].op \notin SubsystemOps
        PROVE  store'[Parent[h[v].key]] = store[Parent[h[v].key]]
    <3>1. h[v].key \in Children
      BY <1>1, <1>2, <2>3, RunningOn DEF MutatingOps, Children
    <3>2. Parent[h[v].key] \in Keys /\ Parent[h[v].key] # h[w].key
      BY <2>1, <3>1, Names
    <3> QED
      BY <1>1, <3>2, ActsOnName
  <2> QED
    BY <1>1, <1>2, <2>1, <2>2, <2>3 DEF Knows
<1>3. CASE v # w /\ ~Running(v)
  BY <1>3 DEF Acts, Knows, Running
<1>4. CASE v = w
  <2> SUFFICES ASSUME Running(w)'
               PROVE  Knows(w)'
    BY <1>4 DEF Knows
  <2>1. UNCHANGED store /\ h'[w].op = h[w].op /\ h'[w].key = h[w].key
    BY <1>1, <2>1, ActsOnName DEF Running, IdleFrame
  <2>2. h[w].op \in MutatingOps
    BY <1>1, RunningOn
  <2>3. CASE GoesOn(w)
    <3>1. h'[w].obj = h[w].obj /\ KeepsNqn(w, h'[w])
      BY <2>3 DEF GoesOn
    <3>2. h[w].op = "UpdateNvmeController" /\ h'[w].pc = "save" => h[w].obj # autoCtrlrIDAllocation
      <4>1. h[w].op = "UpdateNvmeController" /\ h'[w].pc = "save" => h'[w].obj \in CtrlrNums
        BY <2>1 DEF TypeOK, HandlersOK, FrameOK, IdleFrame, SubsystemOps, ControllerOps,
           NamespaceOps
      <4> QED
        BY <3>1, <4>1, MrvlNvmAssumption DEF MrvlNvmAssumption, autoCtrlrIDAllocation
    <3> QED
      BY <1>1, <2>1, <3>1, <3>2 DEF Knows, KeepsNqn
  <2>4. CASE Alters(w) /\ h'[w].nqn = h[w].nqn /\ Effect(w, h'[w].obj)
    <3>1. h[w].pc # "parent" /\ h[w].op # "UpdateNvmeController"
      BY <2>4 DEF Alters, CreateOps, DeleteOps
    <3>2. h[w].op \in DeleteOps => h'[w].obj = h[w].obj
      BY <2>4 DEF Effect, CreateOps, DeleteOps
    <3> QED
      BY <1>1, <2>1, <3>1, <3>2, <2>4 DEF Knows
  <2> QED
    BY <2>3, <2>4 DEF Acts, GivesUp, Alters, Writes, Running, IdleFrame
<1> QED
  BY <1>2, <1>3, <1>4

\* The request that arrives at w is the only one on its subsystem.
FirstIn(w) ==
  Running(w)' => \A v \in Worker : Running(v) => Root(h[v].key) # Root(h'[w].key)

\* It is when clients wait for their requests on a subsystem.
LEMMA ArrivesFirst ==
  ASSUME IInv, BySubsystem, NEW w \in Worker, Request(w)
  PROVE  FirstIn(w)
<1>1. /\ h \in [Worker -> Frames]
      /\ \A v \in Worker : Running(v) => h[v].key \in Keys
  BY RunningOn DEF IInv, TypeOK, HandlersOK
<1>2. ASSUME NEW op, NEW k \in Keys, Receives(w, op, k), NEW pc, NEW obj,
             Start(w, op, k, pc, obj)
      PROVE  FirstIn(w)
  <2>1. h'[w].key = k
    BY <1>1, <1>2 DEF Start, IdleFrame
  <2>2. ASSUME NEW v \in Worker, Running(v)
        PROVE  Root(h[v].key) # Root(k)
    BY <1>1, <1>2, <2>2 DEF Receives, BySubsystem
  <2> QED
    BY <2>1, <2>2 DEF FirstIn
<1>3. ASSUME NEW op, NEW k, Receives(w, op, k), NEW code, Answer(w, code)
      PROVE  FirstIn(w)
  BY <1>3 DEF Receives, Answer, Running, FirstIn
<1>4. CASE \E s \in Subsystems :
             \/ \E q \in NqnOf[s] : CreateNvmeSubsystem(w, s, q)
             \/ \E m \in BOOLEAN : DeleteNvmeSubsystem(w, s, m)
             \/ UpdateNvmeSubsystem(w, s)
  BY <1>2, <1>3, <1>4
     DEF CreateNvmeSubsystem, DeleteNvmeSubsystem, UpdateNvmeSubsystem, Keys
<1>5. CASE \E c \in Controllers :
             \/ \E id \in CtrlrNums \cup {autoCtrlrIDAllocation} : CreateNvmeController(w, c, id)
             \/ \E m \in BOOLEAN : DeleteNvmeController(w, c, m)
             \/ UpdateNvmeController(w, c)
  BY <1>2, <1>3, <1>5
     DEF CreateNvmeController, DeleteNvmeController, UpdateNvmeController, Keys, Children
<1>6. CASE \E n \in Namespaces :
             \/ \E i \in NsNums : CreateNvmeNamespace(w, n, i)
             \/ \E m \in BOOLEAN : DeleteNvmeNamespace(w, n, m)
             \/ UpdateNvmeNamespace(w, n)
  BY <1>2, <1>3, <1>6
     DEF CreateNvmeNamespace, DeleteNvmeNamespace, UpdateNvmeNamespace, Keys, Children
<1> QED
  BY <1>4, <1>5, <1>6 DEF Request

\* The step of a handler keeps the invariant.
LEMMA HandleKeepsShared ==
  ASSUME SInv, IInv', IdsAgree, NEW w \in Worker, Handle(w)
  PROVE  SInv'
<1>1. TypeOK /\ TypeOK' /\ Placed /\ StoreOwn /\ OnePerSubsystem /\ \A v \in Worker : Tidy(v)
  BY DEF SInv, IInv
<1>2. Acts(w)
  <2>1. h \in [Worker -> Frames] /\ Tidy(w)
    BY <1>1 DEF TypeOK, HandlersOK
  <2> QED
    BY <1>1, <2>1, StepsOwnFrame, HandleKinds DEF Acts
<1>3. OnePerSubsystem'
  <2>1. /\ \A v \in Worker : v # w => h'[v] = h[v]
        /\ Running(w) /\ (Running(w)' => h'[w].key = h[w].key)
    BY <1>1, <1>2, ActsOnName DEF Acts
  <2> QED
    BY <1>1, <2>1 DEF OnePerSubsystem, Running
<1>4. Placed' /\ StoreOwn' /\ \A v \in Worker : Tidy(v)'
  BY <1>1, <1>2, ActsPlaced, ActsTidy
<1>5. Shared' /\ \A v \in Worker : Knows(v)'
  BY <1>1, <1>2, ActsShared, ActsKnows
<1> QED
  BY <1>3, <1>4, <1>5 DEF SInv

\* So does a request that arrives.
LEMMA RequestKeepsShared ==
  ASSUME SInv, IInv', BySubsystem, IdsAgree, NEW w \in Worker, Request(w)
  PROVE  SInv'
<1>1. /\ IInv /\ TypeOK /\ Placed /\ StoreOwn /\ Shared /\ OnePerSubsystem
      /\ h \in [Worker -> Frames]
      /\ \A v \in Worker : Tidy(v) /\ Knows(v)
  BY DEF SInv, IInv, TypeOK, HandlersOK
<1>2. Arrives(w) /\ ~Running(w) /\ \A v \in Worker : v # w => h'[v] = h[v]
  BY <1>1, RequestKinds, ArrivesAlone
<1>3. Shared'
  BY <1>1, <1>2, ArrivesFades, FadesKeeps
<1>4. Placed' /\ StoreOwn'
  BY <1>1, <1>2, PlacedSame DEF Arrives, SameObjects, StoreOwn
<1>5. OnePerSubsystem'
  BY <1>1, <1>2, ArrivesFirst DEF FirstIn, OnePerSubsystem, Running
<1>6. Tidy(w)' /\ Knows(w)'
  <2>1. CASE h'[w] = h[w]
    BY <1>2, <2>1 DEF Tidy, Knows, Running
  <2>2. CASE h'[w] # h[w]
    BY <1>2, <2>2 DEF Arrives, Tidy, Knows, Past
  <2> QED
    BY <2>1, <2>2
<1>7. ASSUME NEW v \in Worker, v # w
      PROVE  Tidy(v)' /\ Knows(v)'
  BY <1>1, <1>2, <1>7 DEF Arrives, Tidy, Knows, Running, Past
<1> QED
  BY <1>3, <1>4, <1>5, <1>6, <1>7 DEF SInv

\* And a restart.
LEMMA RestartKeepsShared ==
  ASSUME SInv, IInv', Restart
  PROVE  SInv'
<1>1. IInv /\ Placed /\ StoreOwn /\ Shared
  BY DEF SInv
<1>2. UNCHANGED <<store, fw>> /\ \A v \in Worker : ~Running(v)'
  BY DEF Restart, Running, IdleFrame
<1>3. Shared'
  BY <1>1, RestartFades, FadesKeeps
<1>4. Placed' /\ StoreOwn'
  BY <1>1, <1>2, PlacedSame DEF SameObjects, StoreOwn
<1> QED
  BY <1>2, <1>3, <1>4 DEF SInv, OnePerSubsystem, Tidy, Knows

\* And a step that is not the Server's.
LEMMA StutterKeepsShared ==
  ASSUME SInv, IInv', UNCHANGED vars
  PROVE  SInv'
<1>1. UNCHANGED <<store, fw, h, cut>>
  BY DEF vars
<1>2. \A v \in Worker : \A k : Past(v, k)' <=> Past(v, k)
  BY <1>1 DEF Past, PastChange
<1>3. \A k, v : Expects(k, v)' <=> Expects(k, v)
  BY <1>1, <1>2 DEF Expects
<1>4. Fades
  BY <1>1, <1>2, <1>3 DEF Fades, SameObjects
<1>5. Shared'
  BY <1>4, FadesKeeps DEF SInv
<1>6. Placed' /\ StoreOwn' /\ OnePerSubsystem'
  BY <1>1, PlacedSame DEF SInv, SameObjects, StoreOwn, OnePerSubsystem, Running
<1>7. \A v \in Worker : Tidy(v)' /\ Knows(v)'
  BY <1>1, <1>2 DEF SInv, Tidy, Knows, Running
<1> QED
  BY <1>5, <1>6, <1>7 DEF SInv

\* At the start there is nothing that could be shared.
LEMMA SharedInit == Init => SInv
<1> SUFFICES ASSUME Init PROVE SInv
  OBVIOUS
<1>1. /\ fw.subs = {} /\ Objs = {} /\ cut = {} /\ \A k \in Keys : store[k] = None
      /\ \A w \in Worker : h[w] = IdleFrame
  BY DEF Init, EmptyFw, Objs
<1>2. \A w \in Worker : ~Running(w) /\ \A k : ~Past(w, k)
  BY <1>1 DEF Running, Past, PastChange, IdleFrame
<1>3. \A k \in Keys : \A v : ~Expects(k, v)
  BY <1>1, <1>2 DEF Expects
<1>4. \A k \in Children : \A v : ~Has(k, v)
  BY <1>1, Names DEF Has
<1>5. Placed /\ StoreOwn /\ OnePerSubsystem /\ \A w \in Worker : Tidy(w) /\ Knows(w)
  BY <1>1, <1>2, Names DEF Placed, Objs, StoreOwn, OnePerSubsystem, Tidy, Knows
<1>6. OneHolder /\ Backed /\ Owned /\ Rooted
  BY <1>1, <1>3, Names DEF OneHolder, Backed, Owned, Rooted
<1>7. \A k \in Children : AgreeBelow(k)
  BY <1>3, <1>4, Names DEF AgreeBelow
<1> QED
  BY <1>5, <1>6, <1>7, InitInOrder DEF SInv, Shared

\* Every state of every behaviour in which clients wait for their requests on a
\* subsystem satisfies the invariant.
LEMMA AlwaysShared ==
  ASSUME BySubsystem, IdsAgree
  PROVE  Spec => []SInv
<1>1. \A k \in Keys : k \in Conflicts[k]
  BY DEF BySubsystem
<1>2. IInv /\ [Next]_vars => IInv'
  BY <1>1, StepInOrder, WaitingMakesAlone
<1>3. SInv /\ [Next]_vars => SInv'
  <2> SUFFICES ASSUME SInv, [Next]_vars, IInv'
               PROVE  SInv'
    BY <1>2 DEF SInv
  <2>1. CASE UNCHANGED vars
    BY <2>1, StutterKeepsShared
  <2>2. CASE Next
    BY <2>2, HandleKeepsShared, RequestKeepsShared, RestartKeepsShared DEF Next
  <2> QED
    BY <2>1, <2>2
<1> QED
  BY <1>3, SharedInit, PTL DEF Spec

\* No delete was cut short that could leave a settled name's subsystem unsound.
LEMMA SettledSound ==
  ASSUME TypeOK, NEW k \in Keys, Settled(k), NEW j \in {k, Root(k)}
  PROVE  /\ SoundBelow(Root(k)) /\ Uncut(j) /\ \A w \in Worker : ~Past(w, j)
         /\ \A v : Expects(j, v) <=> store[j] # None /\ store[j] = v
<1>1. ASSUME NEW q \in NqnOf[Root(k)], NEW r \in cut, r[1] \in DeleteOps
      PROVE  q \notin NqnOf[Root(r[2])]
  <2>1. r[2] \in Keys
    BY DEF TypeOK
  <2>2. Root(r[2]) \in Subsystems
    BY <2>1, Names
  <2> QED
    BY <1>1, <2>2 DEF Settled, Mates
<1>2. SoundBelow(Root(k)) /\ Uncut(j)
  BY <1>1 DEF SoundBelow, Sound, Uncut, Settled
<1>3. \A w \in Worker : ~Past(w, j)
  BY DEF Settled, Past
<1> QED
  BY <1>2, <1>3 DEF Expects

\* What is expected of settled names is what Mirrored says.
LEMMA SharedMirrors ==
  ASSUME SInv
  PROVE  Mirrored
<1>1. TypeOK /\ IInv /\ Placed /\ StoreOwn /\ Shared /\ \A w \in Worker : Tidy(w)
  BY DEF SInv, IInv
<1>2. ASSUME NEW s \in Subsystems, Settled(s)
      PROVE  /\ \A q \in NqnOf[s] : Sound(q)
             /\ Uncut(s) /\ \A q : Expects(s, q) <=> store[s] # None /\ store[s] = q
  BY <1>1, <1>2, Names, SettledSound DEF SoundBelow
<1>3. \A q : q # None => \A s \in Subsystems : store[s] = q => q \in NqnOf[s]
  BY <1>1 DEF StoreOwn
<1>4. ASSUME NEW s \in Subsystems, Settled(s), store[s] # None
      PROVE  store[s] \in fw.subs
  <2>1. store[s] \in NqnOf[s] /\ store[s] \in Nqns
    BY <1>1, <1>3, <1>4 DEF TypeOK, StoreOK
  <2> QED
    BY <1>1, <1>2, <1>4, <2>1 DEF Shared, Backed
<1>5. ASSUME NEW q \in fw.subs, \A s \in Subsystems : q \in NqnOf[s] => Settled(s)
      PROVE  Cardinality({s \in Subsystems : store[s] = q}) = 1
  <2>1. q \in Nqns /\ q # None
    BY <1>1, FrontendAssumption DEF FrontendAssumption, TypeOK, FwStates
  <2>2. Sound(q)
    BY <1>1, <1>2, <1>5 DEF Placed
  <2>3. PICK s \in Subsystems : q \in NqnOf[s] /\ (Expects(s, q) \/ ~Uncut(s))
    BY <1>1, <2>2 DEF Shared, Owned
  <2>4. store[s] = q /\ Expects(s, q)
    BY <1>2, <1>5, <2>3
  <2>5. \A t \in Subsystems : store[t] = q => Expects(t, q)
    BY <1>2, <1>3, <1>5, <2>1
  <2>6. {t \in Subsystems : store[t] = q} = {s}
    BY <1>1, <2>1, <2>2, <2>4, <2>5 DEF Shared, OneHolder
  <2> QED
    BY <2>6, FS_Singleton
<1>6. ASSUME NEW k \in Children, Settled(k)
      PROVE  Objects(k) = IF store[k] = None THEN {}
                          ELSE {[nqn |-> store[Parent[k]], id |-> store[k]]}
  <2>1. k \in Keys /\ Root(k) = Parent[k] /\ k \notin Subsystems
    BY Names
  <2>2. /\ SoundBelow(Parent[k]) /\ Uncut(k) /\ AgreeBelow(k)
        /\ \A v : Expects(k, v) <=> store[k] # None /\ store[k] = v
        /\ \A v : Expects(Parent[k], v) => store[Parent[k]] = v
    BY <1>1, <1>6, <2>1, SettledSound DEF Shared
  <2>3. ASSUME NEW o \in Objs, o.owner = k
        PROVE  store[k] # None /\ o.id = store[k] /\ o.nqn = store[Parent[k]]
    <3>1. o.id \in Values
      BY <1>1, ObjsTyped DEF Objs, Values
    <3>2. Has(k, o.id)
      BY <2>3 DEF Has
    <3>3. o.nqn \in NqnOf[Parent[k]]
      BY <1>1, <2>3 DEF Placed
    <3>4. Expects(Parent[k], o.nqn)
      BY <1>1, <2>2, <2>3, <3>3 DEF Shared, Rooted, SoundBelow
    <3> QED
      BY <2>2, <3>1, <3>2, <3>4 DEF AgreeBelow
  <2>4. ASSUME store[k] # None
        PROVE  \E o \in Objs : o.owner = k
    <3>1. store[k] \in Values
      BY <1>1, <2>1, <2>4 DEF TypeOK, StoreOK, Values
    <3>2. Has(k, store[k])
      BY <2>2, <2>4, <3>1 DEF AgreeBelow
    <3> QED
      BY <2>1, <3>2 DEF Has
  <2>5. Objects(k) = {[nqn |-> o.nqn, id |-> o.id] : o \in {p \in Objs : p.owner = k}}
    BY DEF Objects, Objs
  <2>6. CASE store[k] = None
    BY <2>3, <2>5, <2>6
  <2>7. CASE store[k] # None
    BY <2>3, <2>4, <2>5, <2>7
  <2> QED
    BY <2>6, <2>7
<1> QED
  BY <1>4, <1>5, <1>6 DEF Mirrored

\* The records and the application agree also where subsystem names share NQNs,
\* whatever fails and however often the bridge is restarted, when clients wait for
\* their requests on a subsystem and the ids of the requests are the ones the
\* application uses: a create that is refused for the NQN of another leaves no trace,
\* a delete that is refused for the objects in the subsystem none either, and a
\* request that fails halfway harms no other name that is settled.
THEOREM SharedNqnsMirrored ==
  ASSUME BySubsystem, IdsAgree
  PROVE  Spec => []Mirrored
<1>1. SInv => Mirrored
  BY SharedMirrors
<1> QED
  BY <1>1, AlwaysShared, PTL
=============================================================================
