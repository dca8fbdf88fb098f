-------------------------- MODULE FrontendProofs --------------------------
(* Theorems about Frontend, for every value of its constants.             *)
EXTENDS Frontend, TLAPS

\* The states of the Marvell application.
Fw == FwStates(Nqns, Controllers, Namespaces)

\* Well-typed answers of a call whose result carries an id in V.
Answers(V) == [fw : Fw, ok : BOOLEAN, val : V]

---------------------------------------------------------------------------
(* The calls of the Marvell application return well-typed answers.         *)

\* A refused or failed call leaves a well-typed answer.
LEMMA RefusedTyped ==
  ASSUME NEW f \in Fw, NEW V, 0 \in V
  PROVE  Refused(f) \in Answers(V)
  BY DEF Refused, Answers

\* create_subsystem and delete_subsystem.
LEMMA SubsystemCallsTyped ==
  ASSUME NEW f \in Fw, NEW q \in Nqns
  PROVE  /\ CreateSubsystem(f, q) \subseteq Answers(CtrlrNums)
         /\ DeleteSubsystem(f, q) \subseteq Answers(CtrlrNums)
<1> USE MrvlNvmAssumption DEF MrvlNvmAssumption
<1>1. Refused(f) \in Answers(CtrlrNums)
  BY RefusedTyped
<1>2. Done([f EXCEPT !.subs = @ \cup {q}], 0) \in Answers(CtrlrNums)
  BY DEF Fw, FwStates, Answers, Done
<1>3. Done([f EXCEPT !.subs = @ \ {q}], 0) \in Answers(CtrlrNums)
  BY DEF Fw, FwStates, Answers, Done
<1> QED
  BY <1>1, <1>2, <1>3 DEF CreateSubsystem, DeleteSubsystem

\* create_ctrlr, update_ctrlr and remove_ctrlr; the id in the result is an id.
LEMMA ControllerCallsTyped ==
  ASSUME NEW f \in Fw, NEW q \in Nqns, NEW i, NEW c \in Controllers
  PROVE  /\ CreateCtrlr(f, q, i, c) \subseteq Answers(CtrlrNums)
         /\ UpdateCtrlr(f, q, i) \subseteq Answers(CtrlrNums)
         /\ RemoveCtrlr(f, q, i) \subseteq Answers(CtrlrNums)
<1> USE MrvlNvmAssumption DEF MrvlNvmAssumption
<1>1. Refused(f) \in Answers(CtrlrNums)
  BY RefusedTyped
<1>2. ASSUME NEW n \in CtrlrNums
      PROVE  Done([f EXCEPT !.ctrls =
                     @ \cup {[nqn |-> q, id |-> n, owner |-> c]}], n) \in Answers(CtrlrNums)
  BY DEF Fw, FwStates, Answers, Done
<1>3. CreateCtrlr(f, q, i, c) \subseteq Answers(CtrlrNums)
  BY <1>1, <1>2 DEF CreateCtrlr
<1>4. \A j \in CtrlrIds(f, q) : j \in CtrlrNums
  BY DEF Fw, FwStates, CtrlrIds
<1>5. UpdateCtrlr(f, q, i) \subseteq Answers(CtrlrNums)
  <2>1. \A j \in CtrlrNums : Done(f, j) \in Answers(CtrlrNums)
    BY DEF Answers, Done
  <2>2. i \in CtrlrIds(f, q) => (IF UpdateEchoesId THEN i ELSE 0) \in CtrlrNums
    BY <1>4
  <2> QED
    BY <1>1, <2>1, <2>2 DEF UpdateCtrlr
<1>6. Done([f EXCEPT !.ctrls = {d \in @ : ~(d.nqn = q /\ d.id = i)},
                     !.att   = {a \in @ : ~(a.nqn = q /\ a.ctrl = i)}], 0)
        \in Answers(CtrlrNums)
  BY DEF Fw, FwStates, Answers, Done
<1>7. RemoveCtrlr(f, q, i) \subseteq Answers(CtrlrNums)
  BY <1>1, <1>6 DEF RemoveCtrlr
<1> QED
  BY <1>3, <1>5, <1>7

\* alloc_ns, unalloc_ns, attach_ns and detach_ns.
LEMMA NamespaceCallsTyped ==
  ASSUME NEW f \in Fw, NEW q \in Nqns, NEW i \in CtrlrNums, NEW m \in NsNums,
         NEW n \in Namespaces
  PROVE  /\ AllocNs(f, q, m, n) \subseteq Answers(Int)
         /\ UnallocNs(f, q, m) \subseteq Answers(Int)
         /\ AttachNs(f, q, i, m) \subseteq Answers(Int)
         /\ DetachNs(f, q, i, m) \subseteq Answers(Int)
<1> USE MrvlNvmAssumption DEF MrvlNvmAssumption
<1>1. Refused(f) \in Answers(Int)
  BY RefusedTyped
<1>2. ASSUME NEW j \in NsNums
      PROVE  Done([f EXCEPT !.nss =
                     @ \cup {[nqn |-> q, id |-> j, owner |-> n]}], j) \in Answers(Int)
  BY DEF Fw, FwStates, Answers, Done
<1>3. AllocNs(f, q, m, n) \subseteq Answers(Int)
  BY <1>1, <1>2 DEF AllocNs
<1>4. Done([f EXCEPT !.nss = {d \in @ : ~(d.nqn = q /\ d.id = m)}], 0) \in Answers(Int)
  BY DEF Fw, FwStates, Answers, Done
<1>5. UnallocNs(f, q, m) \subseteq Answers(Int)
  BY <1>1, <1>4 DEF UnallocNs
<1> DEFINE a == [nqn |-> q, ctrl |-> i, ns |-> m]
<1>6. Done([f EXCEPT !.att = @ \cup {a}], 0) \in Answers(Int)
  BY DEF Fw, FwStates, Answers, Done
<1>7. Done([f EXCEPT !.att = @ \ {a}], 0) \in Answers(Int)
  BY DEF Fw, FwStates, Answers, Done
<1>8. AttachNs(f, q, i, m) \subseteq Answers(Int)
  BY <1>1, <1>6 DEF AttachNs
<1>9. DetachNs(f, q, i, m) \subseteq Answers(Int)
  BY <1>1, <1>7 DEF DetachNs
<1> QED
  BY <1>3, <1>5, <1>8, <1>9

\* What the bridge sees of a call that may fail is well typed too.
LEMMA CallTyped ==
  ASSUME NEW V, 0 \in V, fw \in Fw, NEW S \in SUBSET Answers(V)
  PROVE  Call(S) \subseteq Answers(V)
<1>1. \A a \in S : [a EXCEPT !.ok = FALSE] \in Answers(V)
  BY DEF Answers
<1>2. Refused(fw) \in Answers(V)
  BY RefusedTyped
<1> QED
  BY <1>1, <1>2 DEF Call

---------------------------------------------------------------------------
(* The steps that handlers share preserve the type invariant.              *)

Codes == {"none", "OK", "NotFound", "Failed"}

\* The frame of a handler that goes on.
LEMMA NextFrameTyped ==
  ASSUME NEW f \in Frames, NEW next \in Phases, NEW obj \in Nqns \cup Int,
         NEW changed \in BOOLEAN
  PROVE  [f EXCEPT !.pc = next, !.obj = obj, !.changed = changed] \in Frames
  BY DEF Frames

USE DEF SubsystemOps, ControllerOps, NamespaceOps, MutatingOps, Phases

\* A worker without a request has a well-typed frame.
LEMMA IdleTyped == IdleFrame \in Frames /\ FrameOK(IdleFrame)
  BY DEF IdleFrame, Frames, FrameOK

\* A handler that runs has a request on a name of the right kind.
LEMMA RunningTyped ==
  ASSUME HandlersOK, NEW w \in Worker, Running(w)
  PROVE  /\ h[w] \in Frames
         /\ h[w].op \in MutatingOps
         /\ h[w].key \in Keys
         /\ h[w].op \in SubsystemOps => h[w].key \in Subsystems /\ h[w].obj \in Nqns
         /\ h[w].op \in ControllerOps =>
              /\ h[w].key \in Controllers
              /\ h[w].obj \in CtrlrNums \cup {autoCtrlrIDAllocation}
              /\ h[w].op = "DeleteNvmeController" \/ h[w].pc \in {"list", "save"}
                   => h[w].obj \in CtrlrNums
              /\ h[w].pc = "rpc" => h[w].nqn \in Nqns
         /\ h[w].op \in NamespaceOps =>
              /\ h[w].key \in Namespaces
              /\ h[w].obj \in NsNums
              /\ h[w].pc \in {"rpc", "range", "loop", "get", "call"} => h[w].nqn \in Nqns
              /\ h[w].pc = "get" => h[w].cur \in Controllers
              /\ h[w].pc = "call" => h[w].ctl \in CtrlrNums
<1>1. h[w] \in Frames /\ FrameOK(h[w])
  BY DEF HandlersOK
<1>2. h[w] # IdleFrame
  BY DEF Running, IdleFrame
<1> QED
  BY <1>1, <1>2 DEF FrameOK, Keys, Children

\* Replacing the frame of one worker.
LEMMA NewFrameTyped ==
  ASSUME HandlersOK, NEW w \in Worker, NEW g \in Frames, FrameOK(g),
         h' = [h EXCEPT ![w] = g]
  PROVE  HandlersOK'
<1>1. h' \in [Worker -> Frames]
  BY DEF HandlersOK
<1>2. ASSUME NEW v \in Worker PROVE FrameOK(h'[v])
  <2>1. h'[v] = g \/ h'[v] = h[v]
    BY DEF HandlersOK
  <2>2. FrameOK(h[v])
    BY DEF HandlersOK
  <2> QED
    BY <2>1, <2>2
<1> QED
  BY <1>1, <1>2, Zenon DEF HandlersOK, FrameOK, IdleFrame

\* A handler that returns.
LEMMA ReturnTyped ==
  ASSUME TypeOK, NEW w \in Worker, Running(w), NEW code \in Codes, NEW changed,
         ReturnAfter(w, code, changed)
  PROVE  HandlersOK' /\ reply' \in [Worker -> Codes] /\ cut' \subseteq MutatingOps \X Keys
<1>1. HandlersOK'
  BY IdleTyped, NewFrameTyped DEF TypeOK, ReturnAfter
<1>2. h[w].op \in MutatingOps /\ h[w].key \in Keys
  BY RunningTyped DEF TypeOK
<1>3. cut' \subseteq MutatingOps \X Keys
  BY <1>2 DEF TypeOK, ReturnAfter
<1> QED
  BY <1>1, <1>3 DEF TypeOK, ReturnAfter, Codes

\* A handler that goes on with another frame and gives no answer yet.
LEMMA GoOnTyped ==
  ASSUME TypeOK, NEW w \in Worker, NEW g \in Frames, FrameOK(g),
         h' = [h EXCEPT ![w] = g], UNCHANGED <<reply, cut>>
  PROVE  HandlersOK' /\ reply' \in [Worker -> Codes] /\ cut' \subseteq MutatingOps \X Keys
  BY NewFrameTyped DEF TypeOK, Codes

\* Only the frames and the answers change.
LEMMA LocalStepTyped ==
  ASSUME TypeOK, UNCHANGED <<store, ListHelper, fw>>, HandlersOK',
         reply' \in [Worker -> Codes], cut' \subseteq MutatingOps \X Keys
  PROVE  TypeOK'
  BY DEF TypeOK, StoreOK, Codes

\* A handler that answers in the step in which its request arrived.
LEMMA AnswerTyped ==
  ASSUME TypeOK, NEW w \in Worker, NEW code \in Codes, Answer(w, code),
         UNCHANGED <<store, ListHelper, fw>>
  PROVE  TypeOK'
<1>1. HandlersOK' /\ cut' \subseteq MutatingOps \X Keys
  BY DEF TypeOK, Answer, HandlersOK
<1>2. reply' \in [Worker -> Codes]
  BY DEF TypeOK, Answer, Codes
<1> QED
  BY <1>1, <1>2, LocalStepTyped

\* A handler that goes on after its first store.Get.
LEMMA StartTyped ==
  ASSUME TypeOK, NEW w \in Worker, NEW op \in MutatingOps, NEW k \in Keys,
         NEW pc \in {"scan", "parent", "rpc"}, NEW obj \in Nqns \cup Int,
         \/ op \in SubsystemOps /\ k \in Subsystems /\ obj \in Nqns
         \/ /\ op \in ControllerOps /\ k \in Controllers
            /\ obj \in CtrlrNums \cup {autoCtrlrIDAllocation} /\ pc = "parent"
            /\ op = "DeleteNvmeController" => obj \in CtrlrNums
         \/ op \in NamespaceOps /\ k \in Namespaces /\ obj \in NsNums /\ pc = "parent",
         Start(w, op, k, pc, obj), UNCHANGED <<store, ListHelper, fw>>
  PROVE  TypeOK'
<1> DEFINE g == [IdleFrame EXCEPT !.op = op, !.pc = pc, !.key = k, !.obj = obj]
<1>1. g \in Frames
  BY DEF Frames, IdleFrame
<1>2. FrameOK(g)
  BY DEF FrameOK, IdleFrame
<1>3. HandlersOK'
  BY <1>1, <1>2, NewFrameTyped DEF TypeOK, Start
<1>4. reply' \in [Worker -> Codes] /\ cut' \subseteq MutatingOps \X Keys
  BY DEF TypeOK, Start, Codes
<1> QED
  BY <1>3, <1>4, LocalStepTyped

\* The parent's record is a subsystem record: its NQN is set.
LEMMA FetchSubsystemTyped ==
  ASSUME TypeOK, NEW w \in Worker, NEW op, NEW next \in {"rpc", "range"},
         op \in ControllerOps \cup NamespaceOps, At(w, op, "parent"),
         FetchSubsystem(w, next)
  PROVE  TypeOK'
<1>1. Running(w) /\ h[w].op = op
  BY DEF At, Running
<1>2. h[w] \in Frames /\ h[w].key \in Children
  BY <1>1, RunningTyped DEF TypeOK, Children
<1> DEFINE q == store[Parent[h[w].key]]
<1>3. q \in Nqns \cup {None}
  BY <1>2, FrontendAssumption DEF FrontendAssumption, TypeOK, StoreOK
<1>4. CASE /\ q # None
           /\ h' = [h EXCEPT ![w].nqn = q, ![w].pc = next]
           /\ UNCHANGED <<reply, cut>>
  <2> DEFINE g == [h[w] EXCEPT !.nqn = q, !.pc = next]
  <2>1. g \in Frames
    BY <1>2, <1>3 DEF Frames
  <2>2. FrameOK(g)
    BY <1>1, <1>2, <1>3, <1>4, RunningTyped DEF TypeOK, FrameOK, Frames
  <2>3. h' = [h EXCEPT ![w] = g]
    BY <1>4 DEF TypeOK, HandlersOK, Frames
  <2> QED
    BY <1>4, <2>1, <2>2, <2>3, GoOnTyped, LocalStepTyped DEF FetchSubsystem
<1>5. CASE Return(w, "NotFound") \/ Return(w, "Failed")
  BY <1>1, <1>5, ReturnTyped, LocalStepTyped DEF Return, FetchSubsystem, Codes
<1> QED
  BY <1>4, <1>5 DEF FetchSubsystem

\* An answer of the application is taken over, or the handler gives up.
LEMMA TakeAnswerTyped ==
  ASSUME TypeOK, NEW w \in Worker, Running(w), NEW V, NEW a \in Answers(V),
         NEW next \in Phases, NEW obj \in Nqns \cup Int,
         \A changed \in BOOLEAN :
           FrameOK([h[w] EXCEPT !.pc = next, !.obj = obj, !.changed = changed]),
         TakeAnswer(w, a, next, obj)
  PROVE  TypeOK'
<1> DEFINE changed == h[w].changed \/ a.fw # fw
           g == [h[w] EXCEPT !.pc = next, !.obj = obj, !.changed = changed]
<1>1. h[w] \in Frames
  BY RunningTyped DEF TypeOK
<1>2. g \in Frames /\ FrameOK(g)
  <2>1. changed \in BOOLEAN
    BY <1>1 DEF Frames
  <2> HIDE DEF changed
  <2>2. g \in Frames
    BY <1>1, <2>1, NextFrameTyped
  <2>3. FrameOK(g)
    BY <2>1
  <2> QED
    BY <2>2, <2>3
<1>3. fw' \in Fw
  BY DEF TakeAnswer, Answers
<1>4. HandlersOK' /\ reply' \in [Worker -> Codes] /\ cut' \subseteq MutatingOps \X Keys
  <2>1. CASE a.ok
    <3>1. h' = [h EXCEPT ![w] = g] /\ UNCHANGED <<reply, cut>>
      BY <2>1 DEF TakeAnswer, TypeOK, HandlersOK, Frames
    <3> QED
      BY <1>2, <3>1, GoOnTyped
  <2>2. CASE ~a.ok
    BY <2>2, ReturnTyped DEF TakeAnswer, Codes
  <2> QED
    BY <2>1, <2>2
<1> QED
  BY <1>3, <1>4 DEF TypeOK, StoreOK, Codes, TakeAnswer, Fw

\* The name is entered in ListHelper or removed from it.
LEMMA ListTyped ==
  ASSUME TypeOK, NEW w \in Worker, Running(w),
         \/ h[w].pc = "list" /\ ListName(w)
         \/ h[w].pc = "unlist" /\ UnlistName(w)
  PROVE  TypeOK'
<1>1. PICK pc \in {"save", "erase"} : Goto(w, pc) /\ (pc = "save" => h[w].pc = "list")
  BY DEF ListName, UnlistName
<1> DEFINE g == [h[w] EXCEPT !.pc = pc]
<1>2. h[w] \in Frames /\ h[w].key \in Keys
  BY RunningTyped DEF TypeOK
<1>3. g \in Frames
  BY <1>2 DEF Frames
<1>4. FrameOK(g)
  BY <1>1, <1>2, RunningTyped DEF TypeOK, FrameOK, Frames
<1>5. h' = [h EXCEPT ![w] = g] /\ UNCHANGED <<reply, cut>>
  BY <1>1 DEF Goto, TypeOK, HandlersOK, Frames
<1>6. HandlersOK' /\ reply' \in [Worker -> Codes] /\ cut' \subseteq MutatingOps \X Keys
  BY <1>3, <1>4, <1>5, GoOnTyped
<1> QED
  BY <1>2, <1>6 DEF TypeOK, StoreOK, Codes, ListName, UnlistName

\* The last write of a handler stores a value of the record's kind.
LEMMA WriteStoreTyped ==
  ASSUME TypeOK, NEW w \in Worker, Running(w), NEW value,
         \/ value = None
         \/ value = h[w].obj /\ h[w].pc = "save",
         WriteStore(w, value)
  PROVE  TypeOK'
<1>1. PICK code \in {"OK", "Failed"} : Return(w, code)
  BY DEF WriteStore
<1>2. HandlersOK' /\ reply' \in [Worker -> Codes] /\ cut' \subseteq MutatingOps \X Keys
  BY <1>1, ReturnTyped DEF Return, Codes
<1>3. /\ h[w].key \in Keys
      /\ h[w].key \in Subsystems => value \in Nqns \cup {None}
      /\ h[w].key \in Controllers => value \in CtrlrNums \cup {None}
      /\ h[w].key \in Namespaces => value \in NsNums \cup {None}
  BY RunningTyped, FrontendAssumption DEF TypeOK, FrontendAssumption, Children
<1>4. StoreOK'
  <2>1. CASE UNCHANGED store
    BY <2>1 DEF TypeOK, StoreOK
  <2>2. CASE store' = [store EXCEPT ![h[w].key] = value]
    BY <1>3, <2>2 DEF TypeOK, StoreOK, Keys, Children
  <2> QED
    BY <2>1, <2>2 DEF WriteStore
<1> QED
  BY <1>2, <1>4 DEF TypeOK, WriteStore, Codes

\* A range over ListHelper starts.
LEMMA RangeTyped ==
  ASSUME TypeOK, NEW w \in Worker, NEW op \in NamespaceOps, At(w, op, "range"),
         RangeControllers(w)
  PROVE  TypeOK'
<1>1. Running(w)
  BY DEF At, Running
<1>2. h[w] \in Frames
  BY <1>1, RunningTyped DEF TypeOK
<1> DEFINE todo == ListedControllers(Root(h[w].key))
           g == [h[w] EXCEPT !.todo = todo, !.pc = "loop"]
<1>3. todo \in SUBSET Controllers
  BY DEF ListedControllers
<1> HIDE DEF todo
<1>4. g \in Frames
  BY <1>2, <1>3 DEF Frames
<1>5. FrameOK(g)
  BY <1>1, <1>2, RunningTyped DEF TypeOK, At, FrameOK, Frames
<1>6. h' = [h EXCEPT ![w] = g]
  BY DEF RangeControllers, TypeOK, HandlersOK, Frames, todo
<1> QED
  BY <1>4, <1>5, <1>6, GoOnTyped, LocalStepTyped DEF RangeControllers

\* An iteration picks a controller, or the loop ends.
LEMMA PickTyped ==
  ASSUME TypeOK, NEW w \in Worker, NEW op \in NamespaceOps, At(w, op, "loop"),
         NEW next \in {"list", "rpc"}, PickController(w, next)
  PROVE  TypeOK'
<1>1. Running(w)
  BY DEF At, Running
<1>2. h[w] \in Frames
  BY <1>1, RunningTyped DEF TypeOK
<1>3. CASE h' = [h EXCEPT ![w].pc = next, ![w].cur = None, ![w].ctl = None,
                          ![w].todo = {}, ![w].seen = {}]
  <2> DEFINE g == [h[w] EXCEPT !.pc = next, !.cur = None, !.ctl = None,
                               !.todo = {}, !.seen = {}]
  <2>1. g \in Frames
    BY <1>2 DEF Frames
  <2>2. FrameOK(g)
    BY <1>1, <1>2, RunningTyped DEF TypeOK, At, FrameOK, Frames
  <2>3. h' = [h EXCEPT ![w] = g]
    BY <1>3 DEF TypeOK, HandlersOK, Frames
  <2> QED
    BY <2>1, <2>2, <2>3, GoOnTyped, LocalStepTyped DEF PickController
<1>4. ASSUME NEW c \in Controllers,
             h' = [h EXCEPT ![w].seen = @ \cup {c}, ![w].cur = c, ![w].pc = "get"]
      PROVE  TypeOK'
  <2> DEFINE g == [h[w] EXCEPT !.seen = @ \cup {c}, !.cur = c, !.pc = "get"]
  <2>1. g \in Frames
    BY <1>2 DEF Frames
  <2>2. FrameOK(g)
    BY <1>1, <1>2, RunningTyped DEF TypeOK, At, FrameOK, Frames
  <2>3. h' = [h EXCEPT ![w] = g]
    BY <1>4 DEF TypeOK, HandlersOK, Frames
  <2> QED
    BY <2>1, <2>2, <2>3, GoOnTyped, LocalStepTyped DEF PickController
<1> QED
  BY <1>3, <1>4 DEF PickController, ListedControllers

\* The iteration reads the record of its controller: an id, or nothing.
LEMMA GetTyped ==
  ASSUME TypeOK, NEW w \in Worker, NEW op \in NamespaceOps, At(w, op, "get"),
         GetController(w)
  PROVE  TypeOK'
<1>1. Running(w)
  BY DEF At, Running
<1>2. h[w] \in Frames /\ h[w].cur \in Controllers
  BY <1>1, RunningTyped DEF TypeOK, At
<1> DEFINE id == store[h[w].cur]
<1>3. id \in CtrlrNums \cup {None}
  BY <1>2 DEF TypeOK, StoreOK
<1>4. CASE /\ id # None
           /\ h' = [h EXCEPT ![w].ctl = id, ![w].pc = "call"]
           /\ UNCHANGED <<reply, cut>>
  <2> DEFINE g == [h[w] EXCEPT !.ctl = id, !.pc = "call"]
  <2>1. g \in Frames
    BY <1>2, <1>3 DEF Frames
  <2>2. FrameOK(g)
    BY <1>1, <1>2, <1>3, <1>4, RunningTyped DEF TypeOK, At, FrameOK, Frames
  <2>3. h' = [h EXCEPT ![w] = g]
    BY <1>4 DEF TypeOK, HandlersOK, Frames
  <2> QED
    BY <1>4, <2>1, <2>2, <2>3, GoOnTyped, LocalStepTyped DEF GetController
<1>5. CASE Return(w, "NotFound") \/ Return(w, "Failed")
  BY <1>1, <1>5, ReturnTyped, LocalStepTyped DEF Return, GetController, Codes
<1> QED
  BY <1>4, <1>5 DEF GetController

---------------------------------------------------------------------------
(* Every action preserves the type invariant.                              *)

\* Ids are integers.
LEMMA NumsAreInts == CtrlrNums \subseteq Int /\ NsNums \subseteq Int
  BY MrvlNvmAssumption DEF MrvlNvmAssumption

\* The arrival of a request, with the handler's first store.Get.
LEMMA RequestTyped ==
  ASSUME TypeOK, NEW w \in Worker, Request(w)
  PROVE  TypeOK'
<1> USE DEF Codes
<1> USE MrvlNvmAssumption, FrontendAssumption DEF MrvlNvmAssumption, FrontendAssumption
<1>1. ASSUME NEW s \in Subsystems, NEW q \in NqnOf[s], CreateNvmeSubsystem(w, s, q)
      PROVE  TypeOK'
  <2>1. s \in Keys /\ q \in Nqns
    BY DEF Keys
  <2> QED
    BY <1>1, <2>1, AnswerTyped, StartTyped DEF CreateNvmeSubsystem
<1>2. ASSUME NEW s \in Subsystems, NEW m \in BOOLEAN, DeleteNvmeSubsystem(w, s, m)
      PROVE  TypeOK'
  <2>1. s \in Keys /\ store[s] \in Nqns \cup {None}
    BY DEF Keys, TypeOK, StoreOK
  <2>2. CASE store[s] # None /\ Start(w, "DeleteNvmeSubsystem", s, "rpc", store[s])
    BY <1>2, <2>1, <2>2, StartTyped DEF DeleteNvmeSubsystem
  <2>3. ASSUME NEW code \in Codes, Answer(w, code)
        PROVE  TypeOK'
    BY <1>2, <2>3, AnswerTyped DEF DeleteNvmeSubsystem
  <2> QED
    BY <1>2, <2>2, <2>3 DEF DeleteNvmeSubsystem
<1>3. ASSUME NEW s \in Subsystems, UpdateNvmeSubsystem(w, s)
      PROVE  TypeOK'
  BY <1>3, AnswerTyped DEF UpdateNvmeSubsystem
<1>4. ASSUME NEW c \in Controllers, NEW id \in CtrlrNums \cup {autoCtrlrIDAllocation},
             CreateNvmeController(w, c, id)
      PROVE  TypeOK'
  <2>1. c \in Keys /\ id \in Int
    BY DEF Keys, Children, autoCtrlrIDAllocation
  <2> QED
    BY <1>4, <2>1, AnswerTyped, StartTyped DEF CreateNvmeController
<1>5. ASSUME NEW c \in Controllers, NEW m \in BOOLEAN, DeleteNvmeController(w, c, m)
      PROVE  TypeOK'
  <2>1. c \in Keys /\ store[c] \in CtrlrNums \cup {None}
    BY DEF Keys, Children, TypeOK, StoreOK
  <2>2. CASE store[c] # None /\ Start(w, "DeleteNvmeController", c, "parent", store[c])
    <3>1. store[c] \in CtrlrNums
      BY <2>1, <2>2
    <3>2. store[c] \in Nqns \cup Int
      BY <3>1, NumsAreInts, Zenon
    <3> QED
      BY <1>5, <2>1, <2>2, <3>1, <3>2, StartTyped DEF DeleteNvmeController
  <2>3. ASSUME NEW code \in Codes, Answer(w, code)
        PROVE  TypeOK'
    BY <1>5, <2>3, AnswerTyped DEF DeleteNvmeController
  <2> QED
    BY <1>5, <2>2, <2>3 DEF DeleteNvmeController
<1>6. ASSUME NEW c \in Controllers, UpdateNvmeController(w, c)
      PROVE  TypeOK'
  <2>1. c \in Keys /\ store[c] \in CtrlrNums \cup {None}
    BY DEF Keys, Children, TypeOK, StoreOK
  <2>2. ASSUME store[c] # None, NEW id \in UpdateIds(c)
        PROVE  id \in CtrlrNums \cup {autoCtrlrIDAllocation} /\ id \in Int
    BY <2>1, <2>2 DEF UpdateIds, autoCtrlrIDAllocation
  <2>3. ASSUME store[c] # None, NEW id \in UpdateIds(c),
               Start(w, "UpdateNvmeController", c, "parent", id)
        PROVE  TypeOK'
    BY <1>6, <2>1, <2>2, <2>3, StartTyped DEF UpdateNvmeController
  <2>4. ASSUME NEW code \in Codes, Answer(w, code)
        PROVE  TypeOK'
    BY <1>6, <2>4, AnswerTyped DEF UpdateNvmeController
  <2> QED
    BY <1>6, <2>3, <2>4 DEF UpdateNvmeController
<1>7. ASSUME NEW n \in Namespaces, NEW i \in NsNums, CreateNvmeNamespace(w, n, i)
      PROVE  TypeOK'
  <2>1. n \in Keys /\ i \in Int
    BY DEF Keys, Children
  <2> QED
    BY <1>7, <2>1, AnswerTyped, StartTyped DEF CreateNvmeNamespace
<1>8. ASSUME NEW n \in Namespaces, NEW m \in BOOLEAN, DeleteNvmeNamespace(w, n, m)
      PROVE  TypeOK'
  <2>1. n \in Keys /\ store[n] \in NsNums \cup {None}
    BY DEF Keys, Children, TypeOK, StoreOK
  <2>2. CASE store[n] # None /\ Start(w, "DeleteNvmeNamespace", n, "parent", store[n])
    <3>1. store[n] \in NsNums
      BY <2>1, <2>2
    <3>2. store[n] \in Nqns \cup Int
      BY <3>1, NumsAreInts, Zenon
    <3> QED
      BY <1>8, <2>1, <2>2, <3>1, <3>2, StartTyped DEF DeleteNvmeNamespace
  <2>3. ASSUME NEW code \in Codes, Answer(w, code)
        PROVE  TypeOK'
    BY <1>8, <2>3, AnswerTyped DEF DeleteNvmeNamespace
  <2> QED
    BY <1>8, <2>2, <2>3 DEF DeleteNvmeNamespace
<1>9. ASSUME NEW n \in Namespaces, UpdateNvmeNamespace(w, n)
      PROVE  TypeOK'
  BY <1>9, AnswerTyped DEF UpdateNvmeNamespace
<1> QED
  BY <1>1, <1>2, <1>3, <1>4, <1>5, <1>6, <1>7, <1>8, <1>9 DEF Request

\* The steps of the subsystem handlers.
LEMMA SubsystemHandlersTyped ==
  ASSUME TypeOK, NEW w \in Worker,
         \/ ScanNqns(w) \/ CreateNvmeSubsystemRpc(w)
         \/ CreateNvmeSubsystemList(w) \/ CreateNvmeSubsystemSave(w)
         \/ DeleteNvmeSubsystemRpc(w)
         \/ DeleteNvmeSubsystemUnlist(w) \/ DeleteNvmeSubsystemErase(w)
  PROVE  TypeOK'
<1>1. CASE ScanNqns(w)
  <2>1. Running(w) /\ h[w].op \in SubsystemOps
    BY <1>1 DEF ScanNqns, At, Running
  <2>2. CASE Return(w, "Failed")
    BY <1>1, <2>1, <2>2, ReturnTyped, LocalStepTyped DEF Return, ScanNqns, Codes
  <2>3. CASE Goto(w, "rpc")
    <3> DEFINE g == [h[w] EXCEPT !.pc = "rpc"]
    <3>1. g \in Frames
      BY <2>1, RunningTyped DEF TypeOK, Frames
    <3>2. FrameOK(g)
      BY <2>1, RunningTyped DEF TypeOK, FrameOK, Frames
    <3>3. h' = [h EXCEPT ![w] = g] /\ UNCHANGED <<reply, cut>>
      BY <2>3 DEF Goto, TypeOK, HandlersOK, Frames
    <3> QED
      BY <1>1, <3>1, <3>2, <3>3, GoOnTyped, LocalStepTyped DEF ScanNqns
  <2> QED
    BY <1>1, <2>2, <2>3 DEF ScanNqns
<1>2. CASE CreateNvmeSubsystemRpc(w) \/ DeleteNvmeSubsystemRpc(w)
  <2>1. Running(w) /\ h[w].op \in SubsystemOps
    BY <1>2 DEF CreateNvmeSubsystemRpc, DeleteNvmeSubsystemRpc, At, Running
  <2>2. h[w] \in Frames /\ h[w].obj \in Nqns /\ h[w].key \in Subsystems
    BY <2>1, RunningTyped DEF TypeOK
  <2>3. fw \in Fw
    BY DEF TypeOK, Fw
  <2>4. ASSUME NEW S \in SUBSET Answers(CtrlrNums), NEW a \in Call(S),
               NEW next \in {"list", "unlist"}, TakeAnswer(w, a, next, h[w].obj)
        PROVE  TypeOK'
    <3>1. a \in Answers(CtrlrNums)
      BY <2>3, CallTyped, MrvlNvmAssumption DEF MrvlNvmAssumption
    <3>2. \A changed \in BOOLEAN :
            FrameOK([h[w] EXCEPT !.pc = next, !.obj = h[w].obj, !.changed = changed])
      BY <2>1, <2>2 DEF FrameOK, Frames
    <3>3. next \in Phases
      OBVIOUS
    <3> HIDE DEF Phases
    <3> QED
      BY <2>1, <2>2, <2>4, <3>1, <3>2, <3>3, TakeAnswerTyped
  <2>5. CASE CreateNvmeSubsystemRpc(w)
    BY <2>2, <2>3, <2>4, <2>5, SubsystemCallsTyped DEF CreateNvmeSubsystemRpc
  <2>6. CASE DeleteNvmeSubsystemRpc(w)
    BY <2>2, <2>3, <2>4, <2>6, SubsystemCallsTyped DEF DeleteNvmeSubsystemRpc
  <2> QED
    BY <1>2, <2>5, <2>6
<1>3. CASE CreateNvmeSubsystemList(w)
  <2>1. Running(w) /\ h[w].pc = "list"
    BY <1>3 DEF CreateNvmeSubsystemList, At, Running
  <2>2. CASE ListName(w)
    BY <2>1, <2>2, ListTyped
  <2>3. CASE Return(w, "Failed") /\ UNCHANGED <<store, ListHelper, fw>>
    BY <2>1, <2>3, ReturnTyped, LocalStepTyped DEF Return, Codes
  <2> QED
    BY <1>3, <2>2, <2>3 DEF CreateNvmeSubsystemList
<1>4. CASE DeleteNvmeSubsystemUnlist(w)
  BY <1>4, ListTyped DEF DeleteNvmeSubsystemUnlist, At, Running
<1>5. CASE CreateNvmeSubsystemSave(w) \/ DeleteNvmeSubsystemErase(w)
  BY <1>5, WriteStoreTyped
     DEF CreateNvmeSubsystemSave, DeleteNvmeSubsystemErase, At, Running
<1> QED
  BY <1>1, <1>2, <1>3, <1>4, <1>5

\* The steps of the controller handlers.
LEMMA ControllerHandlersTyped ==
  ASSUME TypeOK, NEW w \in Worker,
         \/ CreateNvmeControllerParent(w) \/ CreateNvmeControllerRpc(w)
         \/ CreateNvmeControllerList(w) \/ CreateNvmeControllerSave(w)
         \/ DeleteNvmeControllerParent(w) \/ DeleteNvmeControllerRpc(w)
         \/ DeleteNvmeControllerUnlist(w) \/ DeleteNvmeControllerErase(w)
         \/ UpdateNvmeControllerParent(w) \/ UpdateNvmeControllerRpc(w)
         \/ UpdateNvmeControllerSave(w)
  PROVE  TypeOK'
<1>1. CASE \/ CreateNvmeControllerParent(w) \/ DeleteNvmeControllerParent(w)
           \/ UpdateNvmeControllerParent(w)
  BY <1>1, FetchSubsystemTyped
     DEF CreateNvmeControllerParent, DeleteNvmeControllerParent, UpdateNvmeControllerParent
<1>2. CASE \/ CreateNvmeControllerRpc(w) \/ DeleteNvmeControllerRpc(w)
           \/ UpdateNvmeControllerRpc(w)
  <2>1. Running(w) /\ h[w].op \in ControllerOps /\ h[w].pc = "rpc"
    BY <1>2 DEF CreateNvmeControllerRpc, DeleteNvmeControllerRpc,
                UpdateNvmeControllerRpc, At, Running
  <2>2. /\ h[w] \in Frames /\ h[w].nqn \in Nqns /\ h[w].key \in Controllers
        /\ h[w].obj \in CtrlrNums \cup {autoCtrlrIDAllocation}
    BY <2>1, RunningTyped DEF TypeOK
  <2>3. fw \in Fw
    BY DEF TypeOK, Fw
  <2>4. ASSUME NEW S \in SUBSET Answers(CtrlrNums), NEW a \in Call(S),
               NEW next \in {"list", "save"}, TakeAnswer(w, a, next, a.val)
        PROVE  TypeOK'
    <3>1. a \in Answers(CtrlrNums)
      BY <2>3, CallTyped, MrvlNvmAssumption DEF MrvlNvmAssumption
    <3>2. a.val \in CtrlrNums /\ a.val \in Nqns \cup Int
      BY <3>1, NumsAreInts, Zenon DEF Answers
    <3>3. \A changed \in BOOLEAN :
            FrameOK([h[w] EXCEPT !.pc = next, !.obj = a.val, !.changed = changed])
      BY <2>1, <2>2, <3>2 DEF FrameOK, Frames
    <3>4. next \in Phases
      OBVIOUS
    <3> HIDE DEF Phases
    <3> QED
      BY <2>1, <2>4, <3>1, <3>2, <3>3, <3>4, TakeAnswerTyped
  <2>5. CASE CreateNvmeControllerRpc(w)
    BY <2>2, <2>3, <2>4, <2>5, ControllerCallsTyped DEF CreateNvmeControllerRpc
  <2>6. CASE UpdateNvmeControllerRpc(w)
    BY <2>2, <2>3, <2>4, <2>6, ControllerCallsTyped DEF UpdateNvmeControllerRpc
  <2>7. CASE DeleteNvmeControllerRpc(w)
    <3>1. PICK a \in Call(RemoveCtrlr(fw, h[w].nqn, h[w].obj)) :
                 TakeAnswer(w, a, "unlist", h[w].obj)
      BY <2>7 DEF DeleteNvmeControllerRpc
    <3>2. a \in Answers(CtrlrNums)
      BY <2>2, <2>3, ControllerCallsTyped, CallTyped, MrvlNvmAssumption
         DEF MrvlNvmAssumption
    <3>3. h[w].obj \in CtrlrNums
      BY <2>1, <2>7, RunningTyped DEF TypeOK, DeleteNvmeControllerRpc, At
    <3>4. h[w].obj \in Nqns \cup Int
      BY <3>3, NumsAreInts, Zenon
    <3>5. \A changed \in BOOLEAN :
            FrameOK([h[w] EXCEPT !.pc = "unlist", !.obj = h[w].obj, !.changed = changed])
      BY <2>1, <2>2, <3>3 DEF FrameOK, Frames
    <3> QED
      BY <2>1, <3>1, <3>2, <3>4, <3>5, TakeAnswerTyped
  <2> QED
    BY <1>2, <2>5, <2>6, <2>7
<1>3. CASE CreateNvmeControllerList(w) \/ DeleteNvmeControllerUnlist(w)
  BY <1>3, ListTyped DEF CreateNvmeControllerList, DeleteNvmeControllerUnlist, At, Running
<1>4. CASE \/ CreateNvmeControllerSave(w) \/ UpdateNvmeControllerSave(w)
           \/ DeleteNvmeControllerErase(w)
  BY <1>4, WriteStoreTyped
     DEF CreateNvmeControllerSave, UpdateNvmeControllerSave, DeleteNvmeControllerErase,
         At, Running
<1> QED
  BY <1>1, <1>2, <1>3, <1>4

\* The steps of the namespace handlers.
LEMMA NamespaceHandlersTyped ==
  ASSUME TypeOK, NEW w \in Worker,
         \/ CreateNvmeNamespaceParent(w) \/ CreateNvmeNamespaceRpc(w)
         \/ CreateNvmeNamespaceLoop(w) \/ CreateNvmeNamespaceAttach(w)
         \/ CreateNvmeNamespaceList(w) \/ CreateNvmeNamespaceSave(w)
         \/ DeleteNvmeNamespaceParent(w) \/ DeleteNvmeNamespaceLoop(w)
         \/ DeleteNvmeNamespaceDetach(w) \/ DeleteNvmeNamespaceRpc(w)
         \/ DeleteNvmeNamespaceUnlist(w) \/ DeleteNvmeNamespaceErase(w)
  PROVE  TypeOK'
<1>1. CASE CreateNvmeNamespaceParent(w) \/ DeleteNvmeNamespaceParent(w)
  BY <1>1, FetchSubsystemTyped DEF CreateNvmeNamespaceParent, DeleteNvmeNamespaceParent
<1>2. CASE CreateNvmeNamespaceLoop(w) \/ DeleteNvmeNamespaceLoop(w)
  BY <1>2, RangeTyped, PickTyped, GetTyped
     DEF CreateNvmeNamespaceLoop, DeleteNvmeNamespaceLoop
<1>3. CASE \/ CreateNvmeNamespaceRpc(w) \/ CreateNvmeNamespaceAttach(w)
           \/ DeleteNvmeNamespaceDetach(w) \/ DeleteNvmeNamespaceRpc(w)
  <2>1. Running(w) /\ h[w].op \in NamespaceOps /\ h[w].pc \in {"rpc", "call"}
    BY <1>3 DEF CreateNvmeNamespaceRpc, CreateNvmeNamespaceAttach,
                DeleteNvmeNamespaceDetach, DeleteNvmeNamespaceRpc, At, Running
  <2>2. /\ h[w] \in Frames /\ h[w].nqn \in Nqns /\ h[w].key \in Namespaces
        /\ h[w].obj \in NsNums
        /\ h[w].pc = "call" => h[w].ctl \in CtrlrNums
    BY <2>1, RunningTyped DEF TypeOK
  <2>3. fw \in Fw
    BY DEF TypeOK, Fw
  <2>4. h[w].obj \in Nqns \cup Int
    BY <2>2, NumsAreInts, Zenon
  <2>5. ASSUME NEW S \in SUBSET Answers(Int), NEW a \in Call(S),
               NEW next \in {"range", "loop", "list", "unlist"},
               TakeAnswer(w, a, next, h[w].obj)
        PROVE  TypeOK'
    <3>1. a \in Answers(Int)
      BY <2>3, CallTyped
    <3>2. \A changed \in BOOLEAN :
            FrameOK([h[w] EXCEPT !.pc = next, !.obj = h[w].obj, !.changed = changed])
      BY <2>1, <2>2 DEF FrameOK, Frames
    <3>3. next \in Phases
      OBVIOUS
    <3> HIDE DEF Phases
    <3> QED
      BY <2>1, <2>4, <2>5, <3>1, <3>2, <3>3, TakeAnswerTyped
  <2>6. 0 \in CtrlrNums
    BY MrvlNvmAssumption DEF MrvlNvmAssumption
  <2>7. CASE CreateNvmeNamespaceRpc(w)
    <3>1. AllocNs(fw, h[w].nqn, h[w].obj, h[w].key) \in SUBSET Answers(Int)
      BY <2>2, <2>3, <2>6, NamespaceCallsTyped
    <3> QED
      BY <2>5, <2>7, <3>1 DEF CreateNvmeNamespaceRpc
  <2>8. CASE CreateNvmeNamespaceAttach(w)
    <3>1. AttachNs(fw, h[w].nqn, h[w].ctl, h[w].obj) \in SUBSET Answers(Int)
      BY <2>2, <2>3, <2>8, NamespaceCallsTyped DEF CreateNvmeNamespaceAttach, At
    <3> QED
      BY <2>5, <2>8, <3>1 DEF CreateNvmeNamespaceAttach
  <2>9. CASE DeleteNvmeNamespaceDetach(w)
    <3>1. DetachNs(fw, h[w].nqn, h[w].ctl, h[w].obj) \in SUBSET Answers(Int)
      BY <2>2, <2>3, <2>9, NamespaceCallsTyped DEF DeleteNvmeNamespaceDetach, At
    <3> QED
      BY <2>5, <2>9, <3>1 DEF DeleteNvmeNamespaceDetach
  <2>10. CASE DeleteNvmeNamespaceRpc(w)
    <3>1. UnallocNs(fw, h[w].nqn, h[w].obj) \in SUBSET Answers(Int)
      BY <2>2, <2>3, <2>6, NamespaceCallsTyped
    <3> QED
      BY <2>5, <2>10, <3>1 DEF DeleteNvmeNamespaceRpc
  <2> QED
    BY <1>3, <2>7, <2>8, <2>9, <2>10
<1>4. CASE CreateNvmeNamespaceList(w) \/ DeleteNvmeNamespaceUnlist(w)
  BY <1>4, ListTyped DEF CreateNvmeNamespaceList, DeleteNvmeNamespaceUnlist, At, Running
<1>5. CASE CreateNvmeNamespaceSave(w) \/ DeleteNvmeNamespaceErase(w)
  BY <1>5, WriteStoreTyped
     DEF CreateNvmeNamespaceSave, DeleteNvmeNamespaceErase, At, Running
<1> QED
  BY <1>1, <1>2, <1>3, <1>4, <1>5

\* A restart leaves only well-typed remains.
LEMMA RestartTyped ==
  ASSUME TypeOK, Restart
  PROVE  TypeOK'
<1>1. HandlersOK'
  BY IdleTyped DEF Restart, HandlersOK, FrameOK, IdleFrame
<1>2. ASSUME NEW v \in Worker, h[v].changed
      PROVE  h[v].op \in MutatingOps /\ h[v].key \in Keys
  BY <1>2, RunningTyped DEF TypeOK, HandlersOK, FrameOK, IdleFrame, Keys, Children
<1>3. cut' \subseteq MutatingOps \X Keys
  BY <1>2 DEF TypeOK, Restart
<1>4. reply' \in [Worker -> Codes]
  BY DEF Restart, Codes
<1> QED
  BY <1>1, <1>3, <1>4 DEF TypeOK, StoreOK, Codes, Restart

---------------------------------------------------------------------------
(* Theorems.                                                               *)

\* The type invariant holds at the start.
LEMMA InitTyped == Init => TypeOK
  BY IdleTyped DEF Init, TypeOK, StoreOK, HandlersOK, FwStates, EmptyFw, Keys, Children

\* The type invariant is inductive.
LEMMA StepTyped ==
  ASSUME TypeOK, [Next]_vars
  PROVE  TypeOK'
<1>1. CASE UNCHANGED vars
  BY <1>1 DEF vars, TypeOK, StoreOK, HandlersOK, FrameOK, IdleFrame
<1>2. ASSUME NEW w \in Worker, Handle(w)
      PROVE  TypeOK'
  BY <1>2, SubsystemHandlersTyped, ControllerHandlersTyped, NamespaceHandlersTyped
     DEF Handle
<1> QED
  BY <1>1, <1>2, RequestTyped, RestartTyped DEF Next

\* Whatever the handlers, the faults and the restarts do, every part of the
\* state stays in its type: above all no handler calls the application with an
\* NQN or an id it has not read, and no record holds a value of another kind.
THEOREM TypeCorrect == Spec => []TypeOK
<1>1. TypeOK /\ [Next]_vars => TypeOK'
  BY StepTyped
<1> QED
  BY <1>1, InitTyped, PTL DEF Spec
=============================================================================
