-------------------------- MODULE FrontendSafety --------------------------
(* Safety of Frontend when a client waits for its own requests on a name:  *)
(* the inductive invariant OneAtATime and what follows from it.            *)
EXTENDS FrontendProofs

\* The invariant the steps are shown to preserve.
IInv == TypeOK /\ OneAtATime

USE DEF CreateOps, DeleteOps, SubsystemOps, ControllerOps, NamespaceOps, MutatingOps

---------------------------------------------------------------------------
(* A call of a create or a delete that succeeds has changed the application. *)

\* The answer that is taken for a success is one the application gave.
LEMMA SuccessIsReal ==
  ASSUME NEW V, NEW S \in SUBSET Answers(V), NEW a \in Call(S), a.ok
  PROVE  a \in S
<1>1. \A b \in S : ~[b EXCEPT !.ok = FALSE].ok
  BY DEF Answers
<1>2. ~Refused(fw).ok
  BY DEF Refused
<1>3. a \in S \cup {Refused(fw)} \cup {[b EXCEPT !.ok = FALSE] : b \in S}
  BY Zenon DEF Call
<1> QED
  BY <1>1, <1>2, <1>3

\* create_subsystem and delete_subsystem.
LEMMA SubsystemCallsChange ==
  ASSUME fw \in Fw, NEW q \in Nqns,
         NEW a \in CreateSubsystem(fw, q) \cup DeleteSubsystem(fw, q), a.ok
  PROVE  a.fw # fw
<1>1. ASSUME q \notin fw.subs PROVE [fw EXCEPT !.subs = @ \cup {q}] # fw
  BY <1>1 DEF Fw, FwStates
<1>2. ASSUME q \in fw.subs PROVE [fw EXCEPT !.subs = @ \ {q}] # fw
  BY <1>2 DEF Fw, FwStates
<1> QED
  BY <1>1, <1>2 DEF CreateSubsystem, DeleteSubsystem, Refused, Done

\* create_ctrlr and remove_ctrlr.
LEMMA ControllerCallsChange ==
  ASSUME fw \in Fw, NEW q \in Nqns, NEW i, NEW c \in Controllers,
         NEW a \in CreateCtrlr(fw, q, i, c) \cup RemoveCtrlr(fw, q, i), a.ok
  PROVE  a.fw # fw
<1>1. ASSUME NEW n \in CtrlrNums \ CtrlrIds(fw, q)
      PROVE  [fw EXCEPT !.ctrls = @ \cup {[nqn |-> q, id |-> n, owner |-> c]}] # fw
  <2>1. [nqn |-> q, id |-> n, owner |-> c] \notin fw.ctrls
    BY <1>1 DEF CtrlrIds
  <2> QED
    BY <2>1 DEF Fw, FwStates
<1>2. CASE a \in CreateCtrlr(fw, q, i, c)
  BY <1>1, <1>2 DEF CreateCtrlr, Refused, Done
<1>3. CASE a \in RemoveCtrlr(fw, q, i)
  <2>1. /\ i \in CtrlrIds(fw, q)
        /\ a.fw = [fw EXCEPT !.ctrls = {d \in @ : ~(d.nqn = q /\ d.id = i)},
                             !.att   = {b \in @ : ~(b.nqn = q /\ b.ctrl = i)}]
    BY <1>3 DEF RemoveCtrlr, Refused, Done
  <2>2. a.fw.ctrls = {d \in fw.ctrls : ~(d.nqn = q /\ d.id = i)}
    BY <2>1 DEF Fw, FwStates
  <2>3. PICK d \in fw.ctrls : d.nqn = q /\ d.id = i
    BY <2>1 DEF CtrlrIds
  <2> QED
    BY <2>2, <2>3
<1> QED
  BY <1>2, <1>3

\* alloc_ns and unalloc_ns.
LEMMA NamespaceCallsChange ==
  ASSUME fw \in Fw, NEW q \in Nqns, NEW m \in NsNums, NEW n \in Namespaces,
         NEW a \in AllocNs(fw, q, m, n) \cup UnallocNs(fw, q, m), a.ok
  PROVE  a.fw # fw
<1>1. ASSUME NEW j \in NsNums \ NsIds(fw, q)
      PROVE  [fw EXCEPT !.nss = @ \cup {[nqn |-> q, id |-> j, owner |-> n]}] # fw
  <2>1. [nqn |-> q, id |-> j, owner |-> n] \notin fw.nss
    BY <1>1 DEF NsIds
  <2> QED
    BY <2>1 DEF Fw, FwStates
<1>2. CASE a \in AllocNs(fw, q, m, n)
  BY <1>1, <1>2 DEF AllocNs, Refused, Done
<1>3. CASE a \in UnallocNs(fw, q, m)
  <2> DEFINE g == [fw EXCEPT !.nss = {d \in @ : ~(d.nqn = q /\ d.id = m)}]
  <2>1. m \in NsIds(fw, q) /\ a.fw = g
    <3>1. a # Refused(fw)
      BY DEF Refused
    <3>2. m \in NsIds(fw, q) /\ a = Done(g, 0)
      BY <1>3, <3>1, Zenon DEF UnallocNs
    <3> QED
      BY <3>2 DEF Done
  <2>2. a.fw.nss = {d \in fw.nss : ~(d.nqn = q /\ d.id = m)}
    BY <2>1 DEF Fw, FwStates
  <2>3. PICK d \in fw.nss : d.nqn = q /\ d.id = m
    BY <2>1 DEF NsIds
  <2> QED
    BY <2>2, <2>3
<1> QED
  BY <1>2, <1>3

---------------------------------------------------------------------------
(* The kinds of steps preserve the invariant.                              *)

\* A handler goes on; it neither wrote to the shared maps nor is about to finish.
LEMMA GoOnInOrder ==
  ASSUME IInv, NEW w \in Worker, Running(w), NEW g, g.pc # "idle",
         g.pc \notin {"save", "erase"} \/ g.op = "UpdateNvmeController",
         g.op = h[w].op, g.key = h[w].key,
         g.op \in CreateOps \cup DeleteOps /\ PastChange(g) => g.changed,
         h[w].op \in CreateOps \cup DeleteOps => h[w].pc \notin {"save", "erase"},
         h' = [h EXCEPT ![w] = g], UNCHANGED <<store, ListHelper, cut>>
  PROVE  OneAtATime'
<1>1. h \in [Worker -> Frames]
  BY DEF IInv, TypeOK, HandlersOK
<1>2. h'[w] = g /\ \A v \in Worker : v # w => h'[v] = h[v]
  BY <1>1
<1>3. \A v \in Worker :
        /\ h'[v].op = h[v].op /\ h'[v].key = h[v].key /\ (Running(v)' <=> Running(v))
  BY <1>2 DEF Running
<1>4. Exclusive'
  BY <1>3 DEF IInv, OneAtATime, Exclusive
<1>5. ReadStaysTrue'
  BY <1>3 DEF IInv, OneAtATime, ReadStaysTrue
<1>6. ChangesInOrder'
  BY <1>2 DEF IInv, OneAtATime, ChangesInOrder, PastChange
<1>7. ListedOrStaged'
  BY <1>2 DEF IInv, OneAtATime, ListedOrStaged
<1> QED
  BY <1>4, <1>5, <1>6, <1>7 DEF OneAtATime

\* A handler returns without writing to the shared maps; one that was about to
\* make the last of its two writes has failed after it changed the application.
LEMMA ReturnInOrder ==
  ASSUME IInv, NEW w \in Worker, Running(w), NEW code, NEW changed,
         ReturnAfter(w, code, changed), UNCHANGED <<store, ListHelper>>,
         h[w].op \in CreateOps \cup DeleteOps /\ h[w].pc \in {"save", "erase"}
           => code # "OK" /\ changed
  PROVE  OneAtATime'
<1>1. h \in [Worker -> Frames]
  BY DEF IInv, TypeOK, HandlersOK
<1>2. h'[w] = IdleFrame /\ \A v \in Worker : v # w => h'[v] = h[v]
  BY <1>1 DEF ReturnAfter
<1>3. \A v \in Worker : Running(v)' => v # w /\ Running(v)
  BY <1>2 DEF Running, IdleFrame
<1>4. Exclusive'
  BY <1>2, <1>3 DEF IInv, OneAtATime, Exclusive
<1>5. ReadStaysTrue'
  BY <1>2, <1>3 DEF IInv, OneAtATime, ReadStaysTrue
<1>6. ChangesInOrder'
  BY <1>2 DEF IInv, OneAtATime, ChangesInOrder, PastChange, IdleFrame
<1>7. ListedOrStaged'
  <2> SUFFICES ASSUME NEW k \in Keys
               PROVE  \/ \E r \in cut' : r[2] = k
                      \/ \E v \in Worker :
                           /\ h'[v].op \in CreateOps \cup DeleteOps /\ h'[v].key = k
                           /\ h'[v].pc \in {"save", "erase"}
                      \/ /\ k \in ListHelper => store[k] # None
                         /\ ~Restarts /\ store[k] # None => k \in ListHelper
    BY DEF ListedOrStaged
  <2>1. \A r \in cut : r \in cut'
    BY DEF ReturnAfter
  <2>2. CASE /\ h[w].op \in CreateOps \cup DeleteOps /\ h[w].key = k
             /\ h[w].pc \in {"save", "erase"}
    <3>1. <<h[w].op, k>> \in cut'
      BY <2>2 DEF ReturnAfter
    <3> QED
      BY <3>1
  <2>3. CASE ~ /\ h[w].op \in CreateOps \cup DeleteOps /\ h[w].key = k
               /\ h[w].pc \in {"save", "erase"}
    BY <1>2, <2>1, <2>3 DEF IInv, OneAtATime, ListedOrStaged
  <2> QED
    BY <2>2, <2>3
<1> QED
  BY <1>4, <1>5, <1>6, <1>7 DEF OneAtATime

\* The request that arrives at w is the only one on its name.
Alone(w) ==
  Running(w)' => \A v \in Worker : Running(v) => h[v].key # h'[w].key

\* A request arrives and its handler goes on: no other request on the name is
\* running, and the record is there or not as the handler's first read found.
LEMMA StartInOrder ==
  ASSUME IInv, NEW w \in Worker, NEW op \in MutatingOps, NEW k \in Keys,
         NEW pc \in {"scan", "parent", "rpc"}, NEW obj,
         op = "CreateNvmeNamespace" => pc = "parent",
         store[k] = None <=> op \in CreateOps,
         Receives(w, op, k), Start(w, op, k, pc, obj), Alone(w),
         UNCHANGED <<store, ListHelper, fw>>
  PROVE  OneAtATime'
<1>1. h \in [Worker -> Frames]
  BY DEF IInv, TypeOK, HandlersOK
<1>2. /\ h'[w].op = op /\ h'[w].pc = pc /\ h'[w].key = k
      /\ \A v \in Worker : v # w => h'[v] = h[v]
  BY <1>1 DEF Start, IdleFrame
<1>3. ~Running(w) /\ \A v \in Worker : Running(v) => h[v].key # k
  BY <1>2 DEF Receives, Alone, Running
<1>4. Exclusive'
  BY <1>2, <1>3 DEF IInv, OneAtATime, Exclusive, Running
<1>5. ReadStaysTrue'
  BY <1>2 DEF IInv, OneAtATime, ReadStaysTrue, Running
<1>6. ChangesInOrder'
  BY <1>2 DEF IInv, OneAtATime, ChangesInOrder, PastChange
<1>7. ListedOrStaged'
  BY <1>2, <1>3 DEF IInv, OneAtATime, ListedOrStaged, Running, Start
<1> QED
  BY <1>4, <1>5, <1>6, <1>7 DEF OneAtATime

\* A request is answered in the step in which it arrives.
LEMMA AnswerInOrder ==
  ASSUME IInv, NEW w \in Worker, NEW code, Answer(w, code),
         UNCHANGED <<store, ListHelper, fw>>
  PROVE  OneAtATime'
  BY DEF IInv, OneAtATime, Exclusive, ReadStaysTrue, ChangesInOrder, ListedOrStaged,
         Running, PastChange, Answer

\* The first of a handler's two writes: the one to ListHelper.
LEMMA ListInOrder ==
  ASSUME IInv, NEW w \in Worker,
         \/ h[w].op \in CreateOps /\ h[w].pc = "list" /\ ListName(w)
         \/ h[w].op \in DeleteOps /\ h[w].pc = "unlist" /\ UnlistName(w)
  PROVE  OneAtATime'
<1>1. h \in [Worker -> Frames]
  BY DEF IInv, TypeOK, HandlersOK
<1>2. Running(w)
  BY DEF Running
<1> DEFINE k == h[w].key
<1>3. PICK pc \in {"save", "erase"} :
        /\ pc = "save" => h[w].op \in CreateOps /\ ListHelper' = ListHelper \cup {k}
        /\ pc = "erase" => h[w].op \in DeleteOps /\ ListHelper' = ListHelper \ {k}
        /\ Goto(w, pc) /\ UNCHANGED store
  BY DEF ListName, UnlistName
<1>4. /\ h'[w] = [h[w] EXCEPT !.pc = pc]
      /\ \A v \in Worker : v # w => h'[v] = h[v]
  BY <1>1, <1>3 DEF Goto
<1>5. /\ h'[w].op = h[w].op /\ h'[w].key = k /\ h'[w].pc = pc
      /\ h'[w].changed = h[w].changed
  BY <1>1, <1>4 DEF Frames
<1>6. \A v \in Worker :
        h'[v].op = h[v].op /\ h'[v].key = h[v].key /\ (Running(v)' <=> Running(v))
  BY <1>2, <1>4, <1>5 DEF Running
<1>7. Exclusive'
  BY <1>6 DEF IInv, OneAtATime, Exclusive
<1>8. ReadStaysTrue'
  BY <1>3, <1>6 DEF IInv, OneAtATime, ReadStaysTrue
<1>9. ChangesInOrder'
  <2>1. ASSUME NEW v \in Worker, v # w, h[v].pc \in {"save", "erase"}
        PROVE  h[v].key # k
    BY <1>2, <2>1 DEF IInv, OneAtATime, Exclusive, Running
  <2>2. h[w].changed
    BY DEF IInv, OneAtATime, ChangesInOrder, PastChange
  <2>3. /\ h'[w].pc = "save" => h'[w].key \in ListHelper'
        /\ h'[w].pc = "erase" => h'[w].key \notin ListHelper'
    BY <1>3, <1>5
  <2>4. ASSUME NEW v \in Worker, v # w, h[v].op \in CreateOps \cup DeleteOps
        PROVE  /\ h[v].pc = "save" => h[v].key \in ListHelper'
               /\ h[v].pc = "erase" => h[v].key \notin ListHelper'
    BY <1>3, <2>1, <2>4 DEF IInv, OneAtATime, ChangesInOrder
  <2>5. ASSUME NEW v \in Worker, v # w, h[v].op \in CreateOps \cup DeleteOps
        PROVE  PastChange(h[v]) => h[v].changed
    BY <2>5 DEF IInv, OneAtATime, ChangesInOrder
  <2> QED
    BY <1>4, <1>5, <2>2, <2>3, <2>4, <2>5 DEF ChangesInOrder
<1>10. ListedOrStaged'
  <2>1. /\ h'[w].op \in CreateOps \cup DeleteOps /\ h'[w].key = k
        /\ h'[w].pc \in {"save", "erase"}
    BY <1>3, <1>5
  <2>2. \A j \in Keys : j # k => (j \in ListHelper' <=> j \in ListHelper)
    BY <1>3
  <2> QED
    BY <1>3, <1>4, <2>1, <2>2 DEF IInv, OneAtATime, ListedOrStaged, Goto
<1> QED
  BY <1>7, <1>8, <1>9, <1>10 DEF OneAtATime

\* The second of a handler's two writes: the one to the store.
LEMMA WriteInOrder ==
  ASSUME IInv, NEW w \in Worker, NEW value, WriteStore(w, value),
         \/ h[w].op \in CreateOps /\ h[w].pc = "save" /\ value # None
         \/ h[w].op = "UpdateNvmeController" /\ h[w].pc = "save" /\ value # None
         \/ h[w].op \in DeleteOps /\ h[w].pc = "erase" /\ value = None
  PROVE  OneAtATime'
<1>1. h \in [Worker -> Frames] /\ store \in [Keys -> Nqns \cup CtrlrNums \cup NsNums \cup {None}]
  BY DEF IInv, TypeOK, HandlersOK, StoreOK
<1>2. Running(w)
  BY DEF Running
<1> DEFINE k == h[w].key
<1>3. k \in Keys
  BY <1>2, RunningTyped DEF IInv, TypeOK
<1>4. PICK code : Return(w, code) /\ (code = "OK" => store' = [store EXCEPT ![k] = value])
  BY DEF WriteStore
<1>5. CASE UNCHANGED store
  <2>1. code # "OK" \/ h[w].op = "UpdateNvmeController"
    BY <1>1, <1>2, <1>3, <1>4, <1>5 DEF IInv, OneAtATime, ReadStaysTrue
  <2>2. h[w].op \in CreateOps \cup DeleteOps => h[w].changed
    BY DEF IInv, OneAtATime, ChangesInOrder, PastChange
  <2> QED
    BY <1>2, <1>4, <1>5, <2>1, <2>2, ReturnInOrder DEF WriteStore, Return
<1>6. CASE store' = [store EXCEPT ![k] = value]
  <2>1. store'[k] = value /\ \A j \in Keys : j # k => store'[j] = store[j]
    BY <1>1, <1>3, <1>6
  <2>2. h'[w] = IdleFrame /\ \A v \in Worker : v # w => h'[v] = h[v]
    BY <1>1, <1>4 DEF Return, ReturnAfter
  <2>3. \A v \in Worker : Running(v)' => v # w /\ Running(v) /\ h[v].key \in Keys \ {k}
    <3>1. \A v \in Worker : Running(v) => h[v].key \in Keys
      BY RunningTyped DEF IInv, TypeOK
    <3> QED
      BY <1>2, <2>2, <3>1 DEF Running, IdleFrame, IInv, OneAtATime, Exclusive
  <2>4. Exclusive'
    BY <2>2, <2>3 DEF IInv, OneAtATime, Exclusive
  <2>5. ReadStaysTrue'
    BY <2>1, <2>2, <2>3 DEF IInv, OneAtATime, ReadStaysTrue
  <2>6. ChangesInOrder'
    BY <2>2 DEF IInv, OneAtATime, ChangesInOrder, PastChange, IdleFrame, WriteStore
  <2>7. \/ \E r \in cut' : r[2] = k
        \/ /\ k \in ListHelper' => store'[k] # None
           /\ ~Restarts /\ store'[k] # None => k \in ListHelper'
    <3>1. CASE h[w].op \in CreateOps
      BY <2>1, <3>1 DEF IInv, OneAtATime, ChangesInOrder, WriteStore
    <3>2. CASE h[w].op \in DeleteOps
      BY <2>1, <3>2 DEF IInv, OneAtATime, ChangesInOrder, WriteStore
    <3>3. CASE h[w].op = "UpdateNvmeController"
      <4>1. store[k] # None
        BY <1>2, <3>3 DEF IInv, OneAtATime, ReadStaysTrue
      <4>2. ~\E v \in Worker : /\ h[v].op \in CreateOps \cup DeleteOps /\ h[v].key = k
                              /\ h[v].pc \in {"save", "erase"}
        BY <1>2, <3>3 DEF IInv, OneAtATime, Exclusive, Running
      <4>3. \A r \in cut : r \in cut'
        BY <1>4 DEF Return, ReturnAfter
      <4> QED
        BY <1>3, <2>1, <3>3, <4>1, <4>2, <4>3
           DEF IInv, OneAtATime, ListedOrStaged, WriteStore
    <3> QED
      BY <3>1, <3>2, <3>3
  <2>8. ListedOrStaged'
    <3>1. \A r \in cut : r \in cut'
      BY <1>4 DEF Return, ReturnAfter
    <3>2. ASSUME NEW j \in Keys, j # k
          PROVE  \/ \E r \in cut' : r[2] = j
                 \/ \E v \in Worker :
                      /\ h'[v].op \in CreateOps \cup DeleteOps /\ h'[v].key = j
                      /\ h'[v].pc \in {"save", "erase"}
                 \/ /\ j \in ListHelper' => store'[j] # None
                    /\ ~Restarts /\ store'[j] # None => j \in ListHelper'
      BY <2>1, <2>2, <3>1, <3>2 DEF IInv, OneAtATime, ListedOrStaged, WriteStore
    <3> QED
      BY <2>7, <3>2 DEF ListedOrStaged
  <2> QED
    BY <2>4, <2>5, <2>6, <2>8 DEF OneAtATime
<1> QED
  BY <1>5, <1>6 DEF WriteStore

\* A restart ends every request; those that had changed the application are noted.
LEMMA RestartInOrder ==
  ASSUME IInv, Restart
  PROVE  OneAtATime'
<1>1. \A v \in Worker : h'[v] = IdleFrame
  BY DEF Restart
<1>2. Exclusive' /\ ReadStaysTrue' /\ ChangesInOrder'
  BY <1>1 DEF Exclusive, ReadStaysTrue, ChangesInOrder, Running, PastChange, IdleFrame
<1>3. ListedOrStaged'
  BY DEF Restart, ListedOrStaged
<1> QED
  BY <1>2, <1>3 DEF OneAtATime

---------------------------------------------------------------------------
(* Every action preserves the invariant.                                   *)

\* The arrival of a request.
LEMMA RequestInOrder ==
  ASSUME IInv, NEW w \in Worker, Request(w), Alone(w)
  PROVE  OneAtATime'
<1> USE DEF Keys, Children
<1>1. ASSUME NEW op \in MutatingOps, NEW k \in Keys,
             NEW pc \in {"scan", "parent", "rpc"}, NEW obj,
             op = "CreateNvmeNamespace" => pc = "parent",
             store[k] = None <=> op \in CreateOps,
             Receives(w, op, k), Start(w, op, k, pc, obj),
             UNCHANGED <<store, ListHelper, fw>>
      PROVE  OneAtATime'
  BY <1>1, StartInOrder
<1>2. ASSUME NEW code, Answer(w, code), UNCHANGED <<store, ListHelper, fw>>
      PROVE  OneAtATime'
  BY <1>2, AnswerInOrder
<1>3. ASSUME NEW s \in Subsystems, NEW q \in NqnOf[s], CreateNvmeSubsystem(w, s, q)
      PROVE  OneAtATime'
  BY <1>1, <1>2, <1>3 DEF CreateNvmeSubsystem
<1>4. ASSUME NEW s \in Subsystems, NEW m \in BOOLEAN, DeleteNvmeSubsystem(w, s, m)
      PROVE  OneAtATime'
  BY <1>1, <1>2, <1>4 DEF DeleteNvmeSubsystem
<1>5. ASSUME NEW s \in Subsystems, UpdateNvmeSubsystem(w, s)
      PROVE  OneAtATime'
  BY <1>2, <1>5 DEF UpdateNvmeSubsystem
<1>6. ASSUME NEW c \in Controllers, NEW id, CreateNvmeController(w, c, id)
      PROVE  OneAtATime'
  BY <1>1, <1>2, <1>6 DEF CreateNvmeController
<1>7. ASSUME NEW c \in Controllers, NEW m \in BOOLEAN, DeleteNvmeController(w, c, m)
      PROVE  OneAtATime'
  BY <1>1, <1>2, <1>7 DEF DeleteNvmeController
<1>8. ASSUME NEW c \in Controllers, UpdateNvmeController(w, c)
      PROVE  OneAtATime'
  BY <1>1, <1>2, <1>8 DEF UpdateNvmeController
<1>9. ASSUME NEW n \in Namespaces, NEW i \in NsNums, CreateNvmeNamespace(w, n, i)
      PROVE  OneAtATime'
  BY <1>1, <1>2, <1>9 DEF CreateNvmeNamespace
<1>10. ASSUME NEW n \in Namespaces, NEW m \in BOOLEAN, DeleteNvmeNamespace(w, n, m)
       PROVE  OneAtATime'
  BY <1>1, <1>2, <1>10 DEF DeleteNvmeNamespace
<1>11. ASSUME NEW n \in Namespaces, UpdateNvmeNamespace(w, n)
       PROVE  OneAtATime'
  BY <1>2, <1>11 DEF UpdateNvmeNamespace
<1> QED
  BY <1>3, <1>4, <1>5, <1>6, <1>7, <1>8, <1>9, <1>10, <1>11 DEF Request

\* It is when clients wait for their own requests on a name.
LEMMA WaitingMakesAlone ==
  ASSUME IInv, \A k \in Keys : k \in Conflicts[k], NEW w \in Worker, Request(w)
  PROVE  Alone(w)
<1>1. h \in [Worker -> Frames]
  BY DEF IInv, TypeOK, HandlersOK
<1>2. ASSUME NEW op, NEW k \in Keys, Receives(w, op, k), NEW pc, NEW obj,
             Start(w, op, k, pc, obj)
      PROVE  Alone(w)
  BY <1>1, <1>2 DEF Receives, Start, Alone, IdleFrame
<1>3. ASSUME NEW op, NEW k, Receives(w, op, k), NEW code, Answer(w, code)
      PROVE  Alone(w)
  BY <1>3 DEF Receives, Answer, Alone, Running
<1>4. CASE \E s \in Subsystems :
             \/ \E q \in NqnOf[s] : CreateNvmeSubsystem(w, s, q)
             \/ \E m \in BOOLEAN : DeleteNvmeSubsystem(w, s, m)
             \/ UpdateNvmeSubsystem(w, s)
  BY <1>2, <1>3, <1>4
     DEF CreateNvmeSubsystem, DeleteNvmeSubsystem, UpdateNvmeSubsystem, Keys
<1>5. CASE \E c \in Controllers :
             \/ \E id \in CtrlrNums \cup {autoCtrlrIDAllocation} : CreateNvmeController(w, c, id)
             \/ \E m \in BOOLEAN : DeleteNvmeController(w, c, m)
             \/ UpdateNvmeController(w, c)
  BY <1>2, <1>3, <1>5
     DEF CreateNvmeController, DeleteNvmeController, UpdateNvmeController, Keys, Children
<1>6. CASE \E n \in Namespaces :
             \/ \E i \in NsNums : CreateNvmeNamespace(w, n, i)
             \/ \E m \in BOOLEAN : DeleteNvmeNamespace(w, n, m)
             \/ UpdateNvmeNamespace(w, n)
  BY <1>2, <1>3, <1>6
     DEF CreateNvmeNamespace, DeleteNvmeNamespace, UpdateNvmeNamespace, Keys, Children
<1> QED
  BY <1>4, <1>5, <1>6 DEF Request

\* A handler that fetches its parent's record, or fails to.
LEMMA FetchInOrder ==
  ASSUME IInv, NEW w \in Worker, NEW next, h[w].pc = "parent",
         next \in {"rpc", "range"},
         next = "range" => h[w].op = "DeleteNvmeNamespace",
         FetchSubsystem(w, next)
  PROVE  OneAtATime'
<1>1. Running(w) /\ h \in [Worker -> Frames]
  BY DEF Running, IInv, TypeOK, HandlersOK
<1>2. CASE Return(w, "NotFound") \/ Return(w, "Failed")
  BY <1>1, <1>2, ReturnInOrder DEF Return, FetchSubsystem
<1> DEFINE q == store[Parent[h[w].key]]
           g == [h[w] EXCEPT !.nqn = q, !.pc = next]
<1>3. CASE h' = [h EXCEPT ![w].nqn = q, ![w].pc = next] /\ UNCHANGED <<reply, cut>>
  <2>1. h' = [h EXCEPT ![w] = g]
    BY <1>1, <1>3 DEF Frames
  <2>2. g.pc = next /\ g.op = h[w].op /\ g.key = h[w].key /\ (g.changed <=> h[w].changed)
    BY <1>1 DEF Frames
  <2>3. ~(g.op \in CreateOps \cup DeleteOps /\ PastChange(g))
    BY <2>2 DEF PastChange
  <2> QED
    BY <1>1, <1>3, <2>1, <2>2, <2>3, GoOnInOrder DEF FetchSubsystem
<1> QED
  BY <1>2, <1>3 DEF FetchSubsystem

\* A handler that takes the answer of a call; the call of a create or a delete
\* that succeeds has changed the application.
LEMMA TakeInOrder ==
  ASSUME IInv, NEW w \in Worker, h[w].pc \in {"rpc", "call"},
         NEW a, NEW next \in {"range", "loop", "list", "save", "unlist"}, NEW obj,
         next = "save" => h[w].op = "UpdateNvmeController",
         h[w].op \in CreateOps \cup DeleteOps /\ a.ok /\ h[w].pc = "rpc" => a.fw # fw,
         h[w].pc = "call" => next = "loop" /\ h[w].op \in NamespaceOps,
         TakeAnswer(w, a, next, obj)
  PROVE  OneAtATime'
<1>1. Running(w) /\ h \in [Worker -> Frames]
  BY DEF Running, IInv, TypeOK, HandlersOK
<1> DEFINE changed == h[w].changed \/ a.fw # fw
           g == [h[w] EXCEPT !.pc = next, !.obj = obj, !.changed = changed]
<1>2. CASE ~a.ok
  BY <1>1, <1>2, ReturnInOrder DEF TakeAnswer
<1>3. CASE a.ok
  <2>1. h' = [h EXCEPT ![w] = g] /\ UNCHANGED <<store, ListHelper, cut>>
    BY <1>1, <1>3 DEF TakeAnswer, Frames
  <2>2. g.pc = next /\ g.op = h[w].op /\ g.key = h[w].key /\ (g.changed <=> changed)
    BY <1>1 DEF Frames
  <2>3. g.op \in CreateOps \cup DeleteOps /\ PastChange(g) => changed
    <3>1. CASE h[w].pc = "rpc"
      BY <1>3, <2>2, <3>1
    <3>2. CASE h[w].pc = "call"
      BY <2>2, <3>2 DEF IInv, OneAtATime, ChangesInOrder, PastChange
    <3> QED
      BY <3>1, <3>2
  <2> QED
    BY <1>1, <2>1, <2>2, <2>3, GoOnInOrder
<1> QED
  BY <1>2, <1>3

\* A namespace handler goes on in its loop over ListHelper, or past it.
LEMMA NextInOrder ==
  ASSUME IInv, NEW w \in Worker, NEW g,
         h[w].op = "CreateNvmeNamespace" \/ h[w].op = "DeleteNvmeNamespace",
         h[w].pc = "range" \/ h[w].pc = "loop" \/ h[w].pc = "get",
         \/ g.pc \in {"loop", "get", "call"}
         \/ h[w].op = "CreateNvmeNamespace" /\ g.pc = "list"
         \/ h[w].op = "DeleteNvmeNamespace" /\ g.pc = "rpc",
         g.op = h[w].op, g.key = h[w].key, (g.changed <=> h[w].changed),
         h' = [h EXCEPT ![w] = g], UNCHANGED <<store, ListHelper, cut>>
  PROVE  OneAtATime'
<1>1. PastChange(g) => PastChange(h[w])
  BY DEF PastChange
<1>2. PastChange(g) => g.changed
  BY <1>1 DEF IInv, OneAtATime, ChangesInOrder
<1> QED
  BY <1>2, GoOnInOrder DEF Running

\* The steps of a handler's loop over ListHelper.
LEMMA LoopInOrder ==
  ASSUME IInv, NEW w \in Worker,
         CreateNvmeNamespaceLoop(w) \/ DeleteNvmeNamespaceLoop(w)
  PROVE  OneAtATime'
<1>1. /\ h[w].op \in {"CreateNvmeNamespace", "DeleteNvmeNamespace"}
      /\ h[w].pc \in {"range", "loop", "get"}
  BY DEF CreateNvmeNamespaceLoop, DeleteNvmeNamespaceLoop, At
<1>2. Running(w) /\ h \in [Worker -> Frames]
  BY <1>1 DEF Running, IInv, TypeOK, HandlersOK
<1>3. CASE RangeControllers(w)
  <2> DEFINE g == [h[w] EXCEPT !.todo = ListedControllers(Root(h[w].key)), !.pc = "loop"]
  <2>1. h' = [h EXCEPT ![w] = g] /\ UNCHANGED <<store, ListHelper, cut>>
    BY <1>2, <1>3 DEF RangeControllers, Frames
  <2>2. g.pc = "loop" /\ g.op = h[w].op /\ g.key = h[w].key /\ (g.changed <=> h[w].changed)
    BY <1>2 DEF Frames
  <2> QED
    BY NextInOrder, <1>1, <2>1, <2>2
<1>4. ASSUME NEW next, PickController(w, next),
             \/ h[w].op = "CreateNvmeNamespace" /\ next = "list"
             \/ h[w].op = "DeleteNvmeNamespace" /\ next = "rpc"
      PROVE  OneAtATime'
  <2>1. ASSUME NEW c,
               h' = [h EXCEPT ![w].seen = @ \cup {c}, ![w].cur = c, ![w].pc = "get"]
        PROVE  OneAtATime'
    <3> DEFINE g == [h[w] EXCEPT !.seen = @ \cup {c}, !.cur = c, !.pc = "get"]
    <3>1. h' = [h EXCEPT ![w] = g] /\ UNCHANGED <<store, ListHelper, cut>>
      BY <1>2, <1>4, <2>1 DEF PickController, Frames
    <3>2. g.pc = "get" /\ g.op = h[w].op /\ g.key = h[w].key /\ (g.changed <=> h[w].changed)
      BY <1>2 DEF Frames
    <3> QED
      BY NextInOrder, <1>1, <3>1, <3>2
  <2>2. CASE h' = [h EXCEPT ![w].pc = next, ![w].cur = None, ![w].ctl = None,
                            ![w].todo = {}, ![w].seen = {}]
    <3> DEFINE g == [h[w] EXCEPT !.pc = next, !.cur = None, !.ctl = None,
                                 !.todo = {}, !.seen = {}]
    <3>1. h' = [h EXCEPT ![w] = g] /\ UNCHANGED <<store, ListHelper, cut>>
      BY <1>2, <1>4, <2>2 DEF PickController, Frames
    <3>2. g.pc = next /\ g.op = h[w].op /\ g.key = h[w].key /\ (g.changed <=> h[w].changed)
      BY <1>2 DEF Frames
    <3> QED
      BY NextInOrder, <1>1, <1>4, <3>1, <3>2
  <2> QED
    BY <1>4, <2>1, <2>2 DEF PickController
<1>5. CASE GetController(w)
  <2>1. CASE Return(w, "NotFound") \/ Return(w, "Failed")
    BY <1>1, <1>2, <1>5, <2>1, ReturnInOrder DEF Return, GetController
  <2> DEFINE id == store[h[w].cur]
             g == [h[w] EXCEPT !.ctl = id, !.pc = "call"]
  <2>2. CASE h' = [h EXCEPT ![w].ctl = id, ![w].pc = "call"] /\ UNCHANGED <<reply, cut>>
    <3>1. h' = [h EXCEPT ![w] = g] /\ UNCHANGED <<store, ListHelper, cut>>
      BY <1>2, <1>5, <2>2 DEF GetController, Frames
    <3>2. g.pc = "call" /\ g.op = h[w].op /\ g.key = h[w].key /\ (g.changed <=> h[w].changed)
      BY <1>2 DEF Frames
    <3> QED
      BY NextInOrder, <1>1, <3>1, <3>2
  <2> QED
    BY <1>5, <2>1, <2>2 DEF GetController
<1> QED
  BY <1>3, <1>4, <1>5 DEF CreateNvmeNamespaceLoop, DeleteNvmeNamespaceLoop, At

\* The steps of the subsystem handlers.
LEMMA SubsystemHandlersInOrder ==
  ASSUME IInv, NEW w \in Worker,
         \/ ScanNqns(w) \/ CreateNvmeSubsystemRpc(w)
         \/ CreateNvmeSubsystemList(w) \/ CreateNvmeSubsystemSave(w)
         \/ DeleteNvmeSubsystemRpc(w)
         \/ DeleteNvmeSubsystemUnlist(w) \/ DeleteNvmeSubsystemErase(w)
  PROVE  OneAtATime'
<1>1. Running(w) /\ h[w].op \in SubsystemOps /\ h \in [Worker -> Frames]
  BY DEF ScanNqns, CreateNvmeSubsystemRpc, CreateNvmeSubsystemList,
         CreateNvmeSubsystemSave, DeleteNvmeSubsystemRpc, DeleteNvmeSubsystemUnlist,
         DeleteNvmeSubsystemErase, At, Running, IInv, TypeOK, HandlersOK
<1>2. h[w].obj \in Nqns /\ fw \in Fw
  BY <1>1, RunningTyped DEF IInv, TypeOK, Fw
<1>3. h[w].obj # None
  BY <1>2, FrontendAssumption DEF FrontendAssumption
<1>4. CASE ScanNqns(w)
  <2>1. CASE Return(w, "Failed")
    BY <1>1, <1>4, <2>1, ReturnInOrder DEF Return, ScanNqns, At
  <2>2. CASE Goto(w, "rpc")
    <3> DEFINE g == [h[w] EXCEPT !.pc = "rpc"]
    <3>1. h' = [h EXCEPT ![w] = g] /\ UNCHANGED <<store, ListHelper, cut>>
      BY <1>1, <1>4, <2>2 DEF ScanNqns, Goto, Frames
    <3>2. g.pc = "rpc" /\ g.op = h[w].op /\ g.key = h[w].key
      BY <1>1 DEF Frames
    <3> QED
      BY <1>1, <1>4, <3>1, <3>2, GoOnInOrder DEF PastChange, ScanNqns, At
  <2> QED
    BY <1>4, <2>1, <2>2 DEF ScanNqns
<1>5. CASE CreateNvmeSubsystemRpc(w)
  <2>1. PICK a \in Call(CreateSubsystem(fw, h[w].obj)) : TakeAnswer(w, a, "list", h[w].obj)
    BY <1>5 DEF CreateNvmeSubsystemRpc
  <2>2. a.ok => a.fw # fw
    BY <1>2, SubsystemCallsTyped, SubsystemCallsChange, SuccessIsReal
  <2> QED
    BY <1>5, <2>1, <2>2, TakeInOrder DEF CreateNvmeSubsystemRpc, At
<1>6. CASE DeleteNvmeSubsystemRpc(w)
  <2>1. PICK a \in Call(DeleteSubsystem(fw, h[w].obj)) : TakeAnswer(w, a, "unlist", h[w].obj)
    BY <1>6 DEF DeleteNvmeSubsystemRpc
  <2>2. a.ok => a.fw # fw
    BY <1>2, SubsystemCallsTyped, SubsystemCallsChange, SuccessIsReal
  <2> QED
    BY <1>6, <2>1, <2>2, TakeInOrder DEF DeleteNvmeSubsystemRpc, At
<1>7. CASE CreateNvmeSubsystemList(w)
  BY <1>1, <1>7, ListInOrder, ReturnInOrder DEF CreateNvmeSubsystemList, At, Return
<1>8. CASE DeleteNvmeSubsystemUnlist(w)
  BY <1>8, ListInOrder DEF DeleteNvmeSubsystemUnlist, At
<1>9. CASE CreateNvmeSubsystemSave(w) \/ DeleteNvmeSubsystemErase(w)
  BY <1>3, <1>9, WriteInOrder DEF CreateNvmeSubsystemSave, DeleteNvmeSubsystemErase, At
<1> QED
  BY <1>4, <1>5, <1>6, <1>7, <1>8, <1>9

\* The steps of the controller handlers.
LEMMA ControllerHandlersInOrder ==
  ASSUME IInv, NEW w \in Worker,
         \/ CreateNvmeControllerParent(w) \/ CreateNvmeControllerRpc(w)
         \/ CreateNvmeControllerList(w) \/ CreateNvmeControllerSave(w)
         \/ DeleteNvmeControllerParent(w) \/ DeleteNvmeControllerRpc(w)
         \/ DeleteNvmeControllerUnlist(w) \/ DeleteNvmeControllerErase(w)
         \/ UpdateNvmeControllerParent(w) \/ UpdateNvmeControllerRpc(w)
         \/ UpdateNvmeControllerSave(w)
  PROVE  OneAtATime'
<1>1. fw \in Fw
  BY DEF IInv, TypeOK, Fw
<1>2. CASE \/ CreateNvmeControllerParent(w) \/ DeleteNvmeControllerParent(w)
           \/ UpdateNvmeControllerParent(w)
  <2>1. h[w].pc = "parent" /\ FetchSubsystem(w, "rpc")
    BY <1>2 DEF CreateNvmeControllerParent, DeleteNvmeControllerParent,
                UpdateNvmeControllerParent, At
  <2> QED
    BY <2>1, FetchInOrder
<1>3. ASSUME Running(w), h[w].op \in ControllerOps, h[w].pc = "rpc"
      PROVE  h[w].nqn \in Nqns /\ h[w].key \in Controllers
  BY <1>3, RunningTyped DEF IInv, TypeOK
<1>4. CASE CreateNvmeControllerRpc(w)
  <2>1. PICK a \in Call(CreateCtrlr(fw, h[w].nqn, h[w].obj, h[w].key)) :
               TakeAnswer(w, a, "list", a.val)
    BY <1>4 DEF CreateNvmeControllerRpc
  <2>2. h[w].nqn \in Nqns /\ h[w].key \in Controllers
    BY <1>3, <1>4 DEF CreateNvmeControllerRpc, At, Running
  <2>3. a.ok => a.fw # fw
    BY <1>1, <2>2, ControllerCallsTyped, ControllerCallsChange, SuccessIsReal
  <2> QED
    BY <1>4, <2>1, <2>3, TakeInOrder DEF CreateNvmeControllerRpc, At
<1>5. CASE DeleteNvmeControllerRpc(w)
  <2>1. PICK a \in Call(RemoveCtrlr(fw, h[w].nqn, h[w].obj)) :
               TakeAnswer(w, a, "unlist", h[w].obj)
    BY <1>5 DEF DeleteNvmeControllerRpc
  <2>2. h[w].nqn \in Nqns /\ h[w].key \in Controllers
    BY <1>3, <1>5 DEF DeleteNvmeControllerRpc, At, Running
  <2>3. a.ok => a.fw # fw
    <3>1. RemoveCtrlr(fw, h[w].nqn, h[w].obj) \in SUBSET Answers(CtrlrNums)
      BY <1>1, <2>2, ControllerCallsTyped
    <3>2. a.ok => a \in RemoveCtrlr(fw, h[w].nqn, h[w].obj)
      BY <3>1, SuccessIsReal
    <3> QED
      BY <1>1, <2>2, <3>2, ControllerCallsChange
  <2> QED
    BY <1>5, <2>1, <2>3, TakeInOrder DEF DeleteNvmeControllerRpc, At
<1>6. CASE UpdateNvmeControllerRpc(w)
  BY <1>6, TakeInOrder DEF UpdateNvmeControllerRpc, At
<1>7. CASE CreateNvmeControllerList(w) \/ DeleteNvmeControllerUnlist(w)
  BY <1>7, ListInOrder DEF CreateNvmeControllerList, DeleteNvmeControllerUnlist, At
<1>8. CASE CreateNvmeControllerSave(w) \/ UpdateNvmeControllerSave(w)
  <2>1. Running(w) /\ h[w].op \in ControllerOps /\ h[w].pc = "save"
    BY <1>8 DEF CreateNvmeControllerSave, UpdateNvmeControllerSave, At, Running
  <2>2. h[w].obj \in CtrlrNums
    BY <2>1, RunningTyped DEF IInv, TypeOK
  <2>3. h[w].obj # None
    BY <2>2, NumsAreInts, FrontendAssumption, Zenon DEF FrontendAssumption
  <2> QED
    BY <1>8, <2>3, WriteInOrder DEF CreateNvmeControllerSave, UpdateNvmeControllerSave, At
<1>9. CASE DeleteNvmeControllerErase(w)
  BY <1>9, WriteInOrder DEF DeleteNvmeControllerErase, At
<1> QED
  BY <1>2, <1>4, <1>5, <1>6, <1>7, <1>8, <1>9

\* The steps of the namespace handlers.
LEMMA NamespaceHandlersInOrder ==
  ASSUME IInv, NEW w \in Worker,
         \/ CreateNvmeNamespaceParent(w) \/ CreateNvmeNamespaceRpc(w)
         \/ CreateNvmeNamespaceLoop(w) \/ CreateNvmeNamespaceAttach(w)
         \/ CreateNvmeNamespaceList(w) \/ CreateNvmeNamespaceSave(w)
         \/ DeleteNvmeNamespaceParent(w) \/ DeleteNvmeNamespaceLoop(w)
         \/ DeleteNvmeNamespaceDetach(w) \/ DeleteNvmeNamespaceRpc(w)
         \/ DeleteNvmeNamespaceUnlist(w) \/ DeleteNvmeNamespaceErase(w)
  PROVE  OneAtATime'
<1>1. fw \in Fw /\ 0 \in CtrlrNums
  BY MrvlNvmAssumption DEF IInv, TypeOK, Fw, MrvlNvmAssumption
<1>2. CASE CreateNvmeNamespaceParent(w) \/ DeleteNvmeNamespaceParent(w)
  <2>1. /\ h[w].pc = "parent"
        /\ \/ h[w].op = "CreateNvmeNamespace" /\ FetchSubsystem(w, "rpc")
           \/ h[w].op = "DeleteNvmeNamespace" /\ FetchSubsystem(w, "range")
    BY <1>2 DEF CreateNvmeNamespaceParent, DeleteNvmeNamespaceParent, At
  <2> QED
    BY <2>1, FetchInOrder
<1>3. CASE CreateNvmeNamespaceLoop(w) \/ DeleteNvmeNamespaceLoop(w)
  BY <1>3, LoopInOrder
<1>4. ASSUME Running(w), h[w].op \in NamespaceOps
      PROVE  /\ h[w].key \in Namespaces /\ h[w].obj \in NsNums
             /\ h[w].pc = "rpc" => h[w].nqn \in Nqns
  BY <1>4, RunningTyped DEF IInv, TypeOK
<1>5. CASE CreateNvmeNamespaceRpc(w)
  <2>1. PICK a \in Call(AllocNs(fw, h[w].nqn, h[w].obj, h[w].key)) :
               TakeAnswer(w, a, "range", h[w].obj)
    BY <1>5 DEF CreateNvmeNamespaceRpc
  <2>2. h[w].nqn \in Nqns /\ h[w].key \in Namespaces /\ h[w].obj \in NsNums
    BY <1>4, <1>5 DEF CreateNvmeNamespaceRpc, At, Running
  <2>3. a.ok => a.fw # fw
    BY <1>1, <2>2, NamespaceCallsTyped, NamespaceCallsChange, SuccessIsReal
  <2> QED
    BY <1>5, <2>1, <2>3, TakeInOrder DEF CreateNvmeNamespaceRpc, At
<1>6. CASE CreateNvmeNamespaceAttach(w)
  BY <1>6, TakeInOrder DEF CreateNvmeNamespaceAttach, At
<1>7. CASE DeleteNvmeNamespaceDetach(w)
  BY <1>7, TakeInOrder DEF DeleteNvmeNamespaceDetach, At
<1>8. CASE DeleteNvmeNamespaceRpc(w)
  <2>1. PICK a \in Call(UnallocNs(fw, h[w].nqn, h[w].obj)) :
               TakeAnswer(w, a, "unlist", h[w].obj)
    BY <1>8 DEF DeleteNvmeNamespaceRpc
  <2>2. h[w].nqn \in Nqns /\ h[w].key \in Namespaces /\ h[w].obj \in NsNums
    BY <1>4, <1>8 DEF DeleteNvmeNamespaceRpc, At, Running
  <2>3. a.ok => a.fw # fw
    BY <1>1, <2>2, NamespaceCallsTyped, NamespaceCallsChange, SuccessIsReal
  <2> QED
    BY <1>8, <2>1, <2>3, TakeInOrder DEF DeleteNvmeNamespaceRpc, At
<1>9. CASE CreateNvmeNamespaceList(w) \/ DeleteNvmeNamespaceUnlist(w)
  BY <1>9, ListInOrder DEF CreateNvmeNamespaceList, DeleteNvmeNamespaceUnlist, At
<1>10. CASE CreateNvmeNamespaceSave(w)
  <2>1. h[w].obj \in NsNums
    BY <1>4, <1>10 DEF CreateNvmeNamespaceSave, At, Running
  <2>2. h[w].obj # None
    BY <2>1, NumsAreInts, FrontendAssumption, Zenon DEF FrontendAssumption
  <2> QED
    BY <1>10, <2>2, WriteInOrder DEF CreateNvmeNamespaceSave, At
<1>11. CASE DeleteNvmeNamespaceErase(w)
  BY <1>11, WriteInOrder DEF DeleteNvmeNamespaceErase, At
<1> QED
  BY <1>2, <1>3, <1>5, <1>6, <1>7, <1>8, <1>9, <1>10, <1>11

---------------------------------------------------------------------------
(* Whose frame and record a step is about.                                 *)

\* A step of a handler leaves the frames of the others alone.
LEMMA StepsOwnFrame ==
  ASSUME NEW w \in Worker, h \in [Worker -> Frames], Handle(w)
  PROVE  Running(w) /\ \A v \in Worker : v # w => h'[v] = h[v]
<1>1. CASE \/ ScanNqns(w) \/ CreateNvmeSubsystemRpc(w)
           \/ CreateNvmeSubsystemList(w) \/ CreateNvmeSubsystemSave(w)
           \/ DeleteNvmeSubsystemRpc(w)
           \/ DeleteNvmeSubsystemUnlist(w) \/ DeleteNvmeSubsystemErase(w)
  BY <1>1 DEF ScanNqns, CreateNvmeSubsystemRpc, CreateNvmeSubsystemList,
     CreateNvmeSubsystemSave, DeleteNvmeSubsystemRpc, DeleteNvmeSubsystemUnlist,
     DeleteNvmeSubsystemErase, At, Running, Return, ReturnAfter, Goto, TakeAnswer,
     ListName, UnlistName, WriteStore
<1>2. CASE \/ CreateNvmeControllerParent(w) \/ CreateNvmeControllerRpc(w)
           \/ CreateNvmeControllerList(w) \/ CreateNvmeControllerSave(w)
           \/ DeleteNvmeControllerParent(w) \/ DeleteNvmeControllerRpc(w)
           \/ DeleteNvmeControllerUnlist(w) \/ DeleteNvmeControllerErase(w)
           \/ UpdateNvmeControllerParent(w) \/ UpdateNvmeControllerRpc(w)
           \/ UpdateNvmeControllerSave(w)
  BY <1>2 DEF CreateNvmeControllerParent, CreateNvmeControllerRpc,
     CreateNvmeControllerList, CreateNvmeControllerSave, DeleteNvmeControllerParent,
     DeleteNvmeControllerRpc, DeleteNvmeControllerUnlist, DeleteNvmeControllerErase,
     UpdateNvmeControllerParent, UpdateNvmeControllerRpc, UpdateNvmeControllerSave,
     At, Running, Return, ReturnAfter, Goto, FetchSubsystem, TakeAnswer,
     ListName, UnlistName, WriteStore
<1>3. CASE \/ CreateNvmeNamespaceParent(w) \/ CreateNvmeNamespaceRpc(w)
           \/ CreateNvmeNamespaceLoop(w) \/ CreateNvmeNamespaceAttach(w)
           \/ CreateNvmeNamespaceList(w) \/ CreateNvmeNamespaceSave(w)
           \/ DeleteNvmeNamespaceParent(w) \/ DeleteNvmeNamespaceLoop(w)
           \/ DeleteNvmeNamespaceDetach(w) \/ DeleteNvmeNamespaceRpc(w)
           \/ DeleteNvmeNamespaceUnlist(w) \/ DeleteNvmeNamespaceErase(w)
  BY <1>3 DEF CreateNvmeNamespaceParent, CreateNvmeNamespaceRpc, CreateNvmeNamespaceLoop,
     CreateNvmeNamespaceAttach, CreateNvmeNamespaceList, CreateNvmeNamespaceSave,
     DeleteNvmeNamespaceParent, DeleteNvmeNamespaceLoop, DeleteNvmeNamespaceDetach,
     DeleteNvmeNamespaceRpc, DeleteNvmeNamespaceUnlist, DeleteNvmeNamespaceErase,
     At, Running, Return, ReturnAfter, Goto, FetchSubsystem, TakeAnswer, RangeControllers,
     PickController, GetController, ListName, UnlistName, WriteStore
<1> QED
  BY <1>1, <1>2, <1>3 DEF Handle

\* So does the arrival of a request, at a worker that was idle.
LEMMA ArrivesAlone ==
  ASSUME NEW w \in Worker, h \in [Worker -> Frames], Request(w)
  PROVE  ~Running(w) /\ \A v \in Worker : v # w => h'[v] = h[v]
  BY DEF Request, CreateNvmeSubsystem, DeleteNvmeSubsystem, UpdateNvmeSubsystem,
     CreateNvmeController, DeleteNvmeController, UpdateNvmeController,
     CreateNvmeNamespace, DeleteNvmeNamespace, UpdateNvmeNamespace, Receives, Answer, Start

\* A handler stays on its name, writes to no other record, and answers its own
\* client when it returns; what was cut short stays noted.
StaysOn(w) ==
  /\ Running(w)' => h'[w].op = h[w].op /\ h'[w].key = h[w].key /\ reply'[w] = reply[w]
  /\ \A k \in Keys : k # h[w].key => store'[k] = store[k]
  /\ \A v \in Worker : v # w => reply'[v] = reply[v]
  /\ cut \subseteq cut'

\* A handler works on one record and answers one client, its own.
LEMMA StepsOwnName ==
  ASSUME IInv, NEW w \in Worker, Handle(w)
  PROVE  StaysOn(w)
<1>1. /\ h \in [Worker -> Frames]
      /\ store \in [Keys -> Nqns \cup CtrlrNums \cup NsNums \cup {None}]
      /\ reply \in [Worker -> Codes]
  BY DEF IInv, TypeOK, HandlersOK, StoreOK, Codes
<1>2. h[w] \in Frames
  BY <1>1
<1>3. ASSUME NEW code, NEW changed, ReturnAfter(w, code, changed),
             \/ UNCHANGED store
             \/ \E value : store' = [store EXCEPT ![h[w].key] = value]
      PROVE  StaysOn(w)
  <2>1. ~Running(w)'
    BY <1>1, <1>3 DEF ReturnAfter, Running, IdleFrame
  <2>2. \A k \in Keys : k # h[w].key => store'[k] = store[k]
    BY <1>1, <1>3
  <2>3. (\A v \in Worker : v # w => reply'[v] = reply[v]) /\ cut \subseteq cut'
    BY <1>1, <1>3 DEF ReturnAfter
  <2> QED
    BY <2>1, <2>2, <2>3 DEF StaysOn
<1>4. ASSUME NEW pc, Goto(w, pc), UNCHANGED store
      PROVE  StaysOn(w)
  BY <1>1, <1>2, <1>4 DEF Goto, StaysOn, Frames
<1>5. ASSUME NEW next, FetchSubsystem(w, next)
      PROVE  StaysOn(w)
  <2>1. CASE /\ h' = [h EXCEPT ![w].nqn = store[Parent[h[w].key]], ![w].pc = next]
             /\ UNCHANGED <<reply, cut>>
    BY <1>1, <1>2, <1>5, <2>1 DEF FetchSubsystem, StaysOn, Frames
  <2> QED
    BY <1>3, <1>5, <2>1 DEF FetchSubsystem, Return
<1>6. ASSUME NEW a, NEW next, NEW obj, TakeAnswer(w, a, next, obj)
      PROVE  StaysOn(w)
  <2>1. CASE /\ h' = [h EXCEPT ![w].pc = next, ![w].obj = obj,
                               ![w].changed = h[w].changed \/ a.fw # fw]
             /\ UNCHANGED <<reply, cut>>
    BY <1>1, <1>2, <1>6, <2>1 DEF TakeAnswer, StaysOn, Frames
  <2> QED
    BY <1>3, <1>6, <2>1 DEF TakeAnswer
<1>7. ASSUME ListName(w) \/ UnlistName(w)
      PROVE  StaysOn(w)
  BY <1>4, <1>7 DEF ListName, UnlistName
<1>8. ASSUME NEW value, WriteStore(w, value)
       PROVE  StaysOn(w)
  BY <1>3, <1>8 DEF WriteStore, Return
<1>9. ASSUME RangeControllers(w)
       PROVE  StaysOn(w)
  BY <1>1, <1>2, <1>9 DEF RangeControllers, StaysOn, Frames
<1>10. ASSUME NEW next, PickController(w, next)
       PROVE  StaysOn(w)
  <2>1. UNCHANGED <<store, reply, cut>>
    BY <1>10 DEF PickController
  <2>2. CASE h' = [h EXCEPT ![w].pc = next, ![w].cur = None, ![w].ctl = None,
                            ![w].todo = {}, ![w].seen = {}]
    BY <1>1, <1>2, <2>1, <2>2 DEF StaysOn, Frames
  <2>3. CASE \E c : h' = [h EXCEPT ![w].seen = @ \cup {c}, ![w].cur = c, ![w].pc = "get"]
    <3>1. PICK c : h' = [h EXCEPT ![w].seen = @ \cup {c}, ![w].cur = c, ![w].pc = "get"]
      BY <2>3
    <3> QED
      BY <1>1, <1>2, <2>1, <3>1 DEF StaysOn, Frames
  <2> QED
    BY <1>10, <2>2, <2>3 DEF PickController
<1>11. ASSUME GetController(w)
       PROVE  StaysOn(w)
  <2>1. CASE /\ h' = [h EXCEPT ![w].ctl = store[h[w].cur], ![w].pc = "call"]
             /\ UNCHANGED <<reply, cut>>
    BY <1>1, <1>2, <1>11, <2>1 DEF GetController, StaysOn, Frames
  <2> QED
    BY <1>3, <1>11, <2>1 DEF GetController, Return
<1> HIDE DEF StaysOn
<1> QED
  BY <1>3, <1>4, <1>5, <1>6, <1>7, <1>8, <1>9, <1>10, <1>11 DEF Handle, Return,
     ScanNqns, CreateNvmeSubsystemRpc, CreateNvmeSubsystemList, CreateNvmeSubsystemSave,
     DeleteNvmeSubsystemRpc, DeleteNvmeSubsystemUnlist, DeleteNvmeSubsystemErase,
     CreateNvmeControllerParent, CreateNvmeControllerRpc, CreateNvmeControllerList,
     CreateNvmeControllerSave, DeleteNvmeControllerParent, DeleteNvmeControllerRpc,
     DeleteNvmeControllerUnlist, DeleteNvmeControllerErase, UpdateNvmeControllerParent,
     UpdateNvmeControllerRpc, UpdateNvmeControllerSave, CreateNvmeNamespaceParent,
     CreateNvmeNamespaceRpc, CreateNvmeNamespaceLoop, CreateNvmeNamespaceAttach,
     CreateNvmeNamespaceList, CreateNvmeNamespaceSave, DeleteNvmeNamespaceParent,
     DeleteNvmeNamespaceLoop, DeleteNvmeNamespaceDetach, DeleteNvmeNamespaceRpc,
     DeleteNvmeNamespaceUnlist, DeleteNvmeNamespaceErase

---------------------------------------------------------------------------
(* Theorems.                                                               *)

\* The strengthened invariant holds at the start.
LEMMA InitInOrder == Init => IInv
<1>1. Init => OneAtATime
  BY DEF Init, OneAtATime, Exclusive, ReadStaysTrue, ChangesInOrder, ListedOrStaged,
         Running, PastChange, IdleFrame
<1> QED
  BY <1>1, InitTyped DEF IInv

\* A step that is not the Server's own.
LEMMA StutterInOrder ==
  ASSUME IInv, UNCHANGED vars
  PROVE  OneAtATime'
<1> USE DEF vars, IInv, OneAtATime, Running
<1>1. Exclusive' /\ ReadStaysTrue'
  BY DEF Exclusive, ReadStaysTrue
<1>2. ChangesInOrder'
  BY DEF ChangesInOrder, PastChange
<1>3. ListedOrStaged'
  BY DEF ListedOrStaged
<1> QED
  BY <1>1, <1>2, <1>3

\* Any step of a handler.
LEMMA HandleInOrder ==
  ASSUME IInv, NEW w \in Worker, Handle(w)
  PROVE  OneAtATime'
  BY SubsystemHandlersInOrder, ControllerHandlersInOrder, NamespaceHandlersInOrder
     DEF Handle

\* The strengthened invariant is inductive.
LEMMA StepInOrder ==
  ASSUME IInv, [Next]_vars, \A w \in Worker : Request(w) => Alone(w)
  PROVE  IInv'
<1>1. TypeOK'
  BY StepTyped DEF IInv
<1>2. CASE UNCHANGED vars
  BY <1>1, <1>2, StutterInOrder DEF IInv
<1>3. CASE Next
  BY <1>1, <1>3, HandleInOrder, RequestInOrder, RestartInOrder DEF IInv, Next
<1> QED
  BY <1>2, <1>3

\* With one request on a name at a time, whatever the requests on other names,
\* the faults and the restarts do, the check a handler starts with still holds
\* when it writes, and its writes to ListHelper and to the store stay together.
THEOREM HandledOneAtATime ==
  ASSUME \A k \in Keys : k \in Conflicts[k]
  PROVE  Spec => []OneAtATime
<1>1. IInv /\ [Next]_vars => IInv'
  BY StepInOrder, WaitingMakesAlone
<1>2. IInv => OneAtATime
  BY DEF IInv
<1> QED
  BY <1>1, <1>2, InitInOrder, PTL DEF Spec

\* ListHelper names exactly the records, apart from names that are being changed
\* or that a failed request left behind.
THEOREM ListHelperNamesRecords ==
  ASSUME \A k \in Keys : k \in Conflicts[k]
  PROVE  Spec => []ListHelperExact
<1>1. OneAtATime => ListHelperExact
  BY DEF OneAtATime, ListedOrStaged, ListHelperExact, Settled
<1> QED
  BY <1>1, HandledOneAtATime, PTL

\* A record is replaced only by an update of it or after a delete: no create
\* overwrites the record of another.
THEOREM NeverOverwritten ==
  ASSUME \A k \in Keys : k \in Conflicts[k]
  PROVE  Spec => CreateNeverOverwrites
<1> DEFINE Kept == \A k \in Keys :
             store[k] # None /\ store'[k] \notin {None, store[k]}
               => \E w \in Worker : At(w, "UpdateNvmeController", "save") /\ h[w].key = k
<1>1. ASSUME IInv, NEW w \in Worker, NEW value, WriteStore(w, value),
             \/ h[w].op \in CreateOps /\ Running(w)
             \/ value = None
             \/ At(w, "UpdateNvmeController", "save")
      PROVE  Kept
  <2> SUFFICES ASSUME NEW k \in Keys, store[k] # None, store'[k] \notin {None, store[k]}
               PROVE  At(w, "UpdateNvmeController", "save") /\ h[w].key = k
    OBVIOUS
  <2>1. store' = [store EXCEPT ![h[w].key] = value] /\ store \in [Keys -> Nqns \cup CtrlrNums \cup NsNums \cup {None}]
    BY <1>1 DEF WriteStore, IInv, TypeOK, StoreOK
  <2>2. h[w].key = k /\ value # None
    BY <2>1
  <2> QED
    BY <1>1, <2>2 DEF IInv, OneAtATime, ReadStaysTrue
<1>2. ASSUME NEW w \in Worker, Request(w)
      PROVE  UNCHANGED store
  BY <1>2 DEF Request, CreateNvmeSubsystem, DeleteNvmeSubsystem, UpdateNvmeSubsystem,
     CreateNvmeController, DeleteNvmeController, UpdateNvmeController,
     CreateNvmeNamespace, DeleteNvmeNamespace, UpdateNvmeNamespace
<1>3. ASSUME IInv, NEW w \in Worker, Handle(w)
      PROVE  Kept
  <2>1. CASE UNCHANGED store
    BY <2>1
  <2>2. CASE \/ CreateNvmeSubsystemSave(w) \/ CreateNvmeControllerSave(w)
             \/ CreateNvmeNamespaceSave(w) \/ UpdateNvmeControllerSave(w)
    BY <1>1, <1>3, <2>2 DEF CreateNvmeSubsystemSave, CreateNvmeControllerSave,
       CreateNvmeNamespaceSave, UpdateNvmeControllerSave, At, Running
  <2>3. CASE \/ DeleteNvmeSubsystemErase(w) \/ DeleteNvmeControllerErase(w)
             \/ DeleteNvmeNamespaceErase(w)
    BY <1>1, <1>3, <2>3 DEF DeleteNvmeSubsystemErase, DeleteNvmeControllerErase,
       DeleteNvmeNamespaceErase
  <2> QED
    BY <1>3, <2>1, <2>2, <2>3 DEF Handle,
       ScanNqns, CreateNvmeSubsystemRpc, CreateNvmeSubsystemList, DeleteNvmeSubsystemRpc,
       DeleteNvmeSubsystemUnlist, CreateNvmeControllerParent, CreateNvmeControllerRpc,
       CreateNvmeControllerList, DeleteNvmeControllerParent, DeleteNvmeControllerRpc,
       DeleteNvmeControllerUnlist, UpdateNvmeControllerParent, UpdateNvmeControllerRpc,
       CreateNvmeNamespaceParent, CreateNvmeNamespaceRpc, CreateNvmeNamespaceLoop,
       CreateNvmeNamespaceAttach, CreateNvmeNamespaceList, DeleteNvmeNamespaceParent,
       DeleteNvmeNamespaceLoop, DeleteNvmeNamespaceDetach, DeleteNvmeNamespaceRpc,
       DeleteNvmeNamespaceUnlist, FetchSubsystem, TakeAnswer, ListName, UnlistName,
       RangeControllers, PickController, GetController
<1>4. IInv /\ [Next]_vars => [Kept]_vars
  BY <1>2, <1>3 DEF Next, Restart
<1>5. IInv /\ [Next]_vars => IInv'
  BY StepInOrder, WaitingMakesAlone
<1> QED
  BY <1>4, <1>5, InitInOrder, PTL DEF Spec, CreateNeverOverwrites

=============================================================================
