-------------------------- MODULE FrontendMirror --------------------------
(* The records and the Marvell application agree: Mirrored and             *)
(* NoForeignRemoval, for every instance in which clients wait for their    *)
(* own requests on a name and give each subsystem NQNs of its own.         *)
EXTENDS FrontendSafety, FiniteSetTheorems

\* What the clients and the application are assumed to do.
OwnNqns ==
  \A s \in Subsystems :
    NqnOf[s] # {} /\ \A t \in Subsystems : t # s => NqnOf[s] \cap NqnOf[t] = {}

\* A client waits for every request on the subsystem its request is about.
BySubsystem == \A j, k \in Keys : Root(j) = Root(k) => j \in Conflicts[k]

IdsAgree == NsidAgrees /\ UpdateEchoesId /\ ~ForeignUpdates

Faultless == ~RpcFaults /\ ~StoreFaults /\ ~Restarts

USE DEF CreateOps, DeleteOps, SubsystemOps, ControllerOps, NamespaceOps, MutatingOps

---------------------------------------------------------------------------
(* The inductive invariant.                                                *)

Objs   == fw.ctrls \cup fw.nss
Values == Nqns \cup CtrlrNums \cup NsNums

\* Each object is in a subsystem with an NQN of its owner's parent, and its id
\* is its own.
Placed ==
  /\ \A q \in fw.subs : \E s \in Subsystems : q \in NqnOf[s]
  /\ \A o \in Objs : o.nqn \in fw.subs /\ o.nqn \in NqnOf[Parent[o.owner]]
  /\ \A o, p \in fw.ctrls : o.nqn = p.nqn /\ o.id = p.id => o = p
  /\ \A o, p \in fw.nss : o.nqn = p.nqn /\ o.id = p.id => o = p

\* So do the records, and what the handlers hold is of their own name.
StoreOwn == \A s \in Subsystems : store[s] \in NqnOf[s] \cup {None}

\* One handler works on a subsystem at a time.
OnePerSubsystem ==
  \A v, w \in Worker :
    Running(v) /\ Running(w) /\ Root(h[v].key) = Root(h[w].key) => v = w

FrameOwn(w) ==
  Running(w) =>
    /\ h[w].op \in SubsystemOps => h[w].obj \in NqnOf[h[w].key]
    /\ h[w].op \notin SubsystemOps => h[w].nqn \in NqnOf[Parent[h[w].key]] \cup {None}
    /\ h[w].op \in DeleteOps => h[w].obj = store[h[w].key]
    /\ h[w].op = "UpdateNvmeController" =>
         /\ h[w].obj \in {store[h[w].key], autoCtrlrIDAllocation}
         /\ h[w].pc = "save" => h[w].obj = store[h[w].key]
         /\ ~h[w].changed
    /\ h[w].op \notin NamespaceOps /\ h[w].changed => PastChange(h[w])

\* Where nothing fails, only a namespace request can give up halfway.
CutNamespaces == Faultless => \A r \in cut : r[2] \in Namespaces

\* No request on s and no delete below it was cut short.
Clean(s)  == \A r \in cut : r[2] # s /\ (r[1] \in DeleteOps => Root(r[2]) # s)
Intact(s) == Faultless \/ Clean(s)
Uncut(k)  == \A r \in cut : r[2] # k

\* The handler of w is between its change of the application and its last write.
Past(w, k) ==
  h[w].key = k /\ h[w].op \in CreateOps \cup DeleteOps /\ PastChange(h[w])

\* What the application should have for k: what the handler that is past its
\* change has put there, or else what the record says.
Expects(k, v) ==
  \/ \E w \in Worker : Past(w, k) /\ h[w].op \in CreateOps /\ h[w].obj = v
  \/ (\A w \in Worker : ~Past(w, k)) /\ store[k] # None /\ store[k] = v

\* What it has.
Has(k, v) ==
  \/ k \in Subsystems /\ v \in fw.subs /\ v \in NqnOf[k]
  \/ k \in Children /\ \E o \in Objs : o.owner = k /\ o.id = v

AgreeAt(k) ==
  Intact(Root(k)) =>
    /\ \A v \in Values : Expects(k, v) => Has(k, v)
    /\ Uncut(k) => \A v \in Values : Has(k, v) => Expects(k, v)

Agree == \A k \in Keys : AgreeAt(k)

\* What is added to IInv.
Matches ==
  Placed /\ StoreOwn /\ (\A w \in Worker : FrameOwn(w)) /\ CutNamespaces /\ Agree

MInv == IInv /\ Matches
---------------------------------------------------------------------------
(* What a call does to the application.                                    *)

\* No subsystem, controller or namespace comes or goes.
SameObjects ==
  fw'.subs = fw.subs /\ fw'.ctrls = fw.ctrls /\ fw'.nss = fw.nss

\* An answer of a call is one of the application's, a refusal, or an answer that is lost.
LEMMA CallKinds ==
  ASSUME NEW S, NEW a \in Call(S)
  PROVE  \/ a \in S
         \/ a = Refused(fw)
         \/ RpcFaults /\ \E b \in S : a = [b EXCEPT !.ok = FALSE]
  BY Zenon DEF Call

\* The answer of a call is that of the application or a failure, and it may be
\* lost when the call has taken effect.
LEMMA CallDoes ==
  ASSUME NEW S, NEW a \in Call(S),
         \A b \in S : b = Refused(fw) \/ \E f, v : b = Done(f, v)
  PROVE  \/ a.fw = fw /\ a.ok = FALSE
         \/ \E f, v : /\ Done(f, v) \in S /\ a.fw = f
                      /\ (a.ok = TRUE /\ a.val = v) \/ (RpcFaults /\ a.ok = FALSE)
<1>1. CASE a = Refused(fw)
  BY <1>1 DEF Refused
<1>2. CASE a \in S
  <2>1. CASE a = Refused(fw)
    BY <1>1, <2>1
  <2>2. ASSUME NEW f, NEW v, a = Done(f, v)
        PROVE  Done(f, v) \in S /\ a.fw = f /\ a.ok = TRUE /\ a.val = v
    <3>1. Done(f, v) \in S
      BY <1>2, <2>2
    <3>2. a.fw = f /\ a.ok = TRUE /\ a.val = v
      BY <2>2 DEF Done
    <3> QED
      BY <3>1, <3>2
  <2> QED
    BY <1>2, <2>1, <2>2
<1>3. ASSUME RpcFaults, NEW b \in S, a = [b EXCEPT !.ok = FALSE]
      PROVE  \/ a.fw = fw /\ a.ok = FALSE
             \/ \E f, v : /\ Done(f, v) \in S /\ a.fw = f
                          /\ (a.ok = TRUE /\ a.val = v) \/ (RpcFaults /\ a.ok = FALSE)
  <2>1. CASE b = Refused(fw)
    BY <1>3, <2>1 DEF Refused
  <2>2. ASSUME NEW f, NEW v, b = Done(f, v)
        PROVE  Done(f, v) \in S /\ a.fw = f /\ a.ok = FALSE
    <3>1. Done(f, v) \in S
      BY <1>3, <2>2
    <3>2. a.fw = f /\ a.ok = FALSE
      BY <1>3, <2>2 DEF Done
    <3> QED
      BY <3>1, <3>2
  <2> QED
    BY <1>3, <2>1, <2>2
<1> QED
  BY <1>1, <1>2, <1>3, CallKinds

\* What is done is known by the answer, and is not a refusal.
LEMMA DoneIs ==
  ASSUME NEW f, NEW v
  PROVE  /\ Done(f, v) # Refused(fw)
         /\ \A g, u : Done(f, v) = Done(g, u) => f = g /\ v = u
<1>1. Done(f, v) # Refused(fw)
  BY DEF Done, Refused
<1>2. \A g, u : Done(g, u).fw = g /\ Done(g, u).val = u
  BY DEF Done
<1> QED
  BY <1>1, <1>2

\* The single calls: each changes nothing, or does what it is for, and then says so
\* unless its answer is lost.
LEMMA CreateSubsystemDoes ==
  ASSUME fw \in Fw, NEW q \in Nqns, NEW a \in Call(CreateSubsystem(fw, q))
  PROVE  \/ a.fw = fw /\ a.ok = FALSE
         \/ /\ q \notin fw.subs /\ a.fw.subs = fw.subs \cup {q}
            /\ a.fw.ctrls = fw.ctrls /\ a.fw.nss = fw.nss
            /\ a.ok = TRUE \/ (RpcFaults /\ a.ok = FALSE)
<1> DEFINE g == [fw EXCEPT !.subs = @ \cup {q}]
           S == CreateSubsystem(fw, q)
<1>1. \A b \in S : b = Refused(fw) \/ (b = Done(g, 0) /\ q \notin fw.subs)
  BY DEF CreateSubsystem
<1>2. g.subs = fw.subs \cup {q} /\ g.ctrls = fw.ctrls /\ g.nss = fw.nss
  BY DEF Fw, FwStates
<1> HIDE DEF g, S
<1>3. \/ a.fw = fw /\ a.ok = FALSE
      \/ \E f, v : /\ Done(f, v) \in S /\ a.fw = f
                   /\ (a.ok = TRUE /\ a.val = v) \/ (RpcFaults /\ a.ok = FALSE)
  <2>1. \A b \in S : b = Refused(fw) \/ \E f, v : b = Done(f, v)
    BY <1>1
  <2>2. a \in Call(S)
    BY DEF S
  <2> QED
    BY <2>1, <2>2, CallDoes
<1> QED
  BY <1>1, <1>2, <1>3, DoneIs

\* mrvl_nvm_deletesubsystem removes a subsystem without objects, or refuses.
LEMMA DeleteSubsystemDoes ==
  ASSUME fw \in Fw, NEW q \in Nqns, NEW a \in Call(DeleteSubsystem(fw, q))
  PROVE  \/ a.fw = fw /\ a.ok = FALSE
         \/ /\ q \in fw.subs /\ \A o \in Objs : o.nqn # q
            /\ a.fw.subs = fw.subs \ {q}
            /\ a.fw.ctrls = fw.ctrls /\ a.fw.nss = fw.nss
            /\ a.ok = TRUE \/ (RpcFaults /\ a.ok = FALSE)
<1> DEFINE g == [fw EXCEPT !.subs = @ \ {q}]
           S == DeleteSubsystem(fw, q)
<1>1. \A b \in S : \/ b = Refused(fw)
                   \/ b = Done(g, 0) /\ q \in fw.subs /\ \A o \in Objs : o.nqn # q
  BY DEF DeleteSubsystem, CtrlrIds, NsIds, Objs
<1>2. g.subs = fw.subs \ {q} /\ g.ctrls = fw.ctrls /\ g.nss = fw.nss
  BY DEF Fw, FwStates
<1> HIDE DEF g, S
<1>3. \/ a.fw = fw /\ a.ok = FALSE
      \/ \E f, v : /\ Done(f, v) \in S /\ a.fw = f
                   /\ (a.ok = TRUE /\ a.val = v) \/ (RpcFaults /\ a.ok = FALSE)
  <2>1. \A b \in S : b = Refused(fw) \/ \E f, v : b = Done(f, v)
    BY <1>1
  <2>2. a \in Call(S)
    BY DEF S
  <2> QED
    BY <2>1, <2>2, CallDoes
<1> QED
  BY <1>1, <1>2, <1>3, DoneIs

\* A controller or namespace k with id n appears in the subsystem q.
Adds(k, q, n) ==
  LET o == [nqn |-> q, id |-> n, owner |-> k] IN
  /\ q \in fw.subs /\ fw'.subs = fw.subs
  /\ \/ /\ k \in Controllers /\ n \in CtrlrNums
        /\ \A p \in fw.ctrls : ~(p.nqn = q /\ p.id = n)
        /\ fw'.ctrls = fw.ctrls \cup {o} /\ fw'.nss = fw.nss
     \/ /\ k \in Namespaces /\ n \in NsNums
        /\ \A p \in fw.nss : ~(p.nqn = q /\ p.id = n)
        /\ fw'.nss = fw.nss \cup {o} /\ fw'.ctrls = fw.ctrls

\* What has the id n among the objects like k in the subsystem q disappears.
Removes(k, q, n) ==
  /\ fw'.subs = fw.subs
  /\ \/ /\ k \in Controllers /\ \E p \in fw.ctrls : p.nqn = q /\ p.id = n
        /\ fw'.ctrls = {p \in fw.ctrls : ~(p.nqn = q /\ p.id = n)}
        /\ fw'.nss = fw.nss
     \/ /\ k \in Namespaces /\ \E p \in fw.nss : p.nqn = q /\ p.id = n
        /\ fw'.nss = {p \in fw.nss : ~(p.nqn = q /\ p.id = n)}
        /\ fw'.ctrls = fw.ctrls

\* mrvl_nvm_subsys_create_ctrlr adds a controller with a free number, or refuses.
LEMMA CreateCtrlrDoes ==
  ASSUME fw \in Fw, NEW q \in Nqns, NEW i, NEW k \in Controllers,
         NEW a \in Call(CreateCtrlr(fw, q, i, k)), fw' = a.fw
  PROVE  \/ a.fw = fw /\ a.ok = FALSE
         \/ \E n : Adds(k, q, n) /\ ((a.ok = TRUE /\ a.val = n) \/ (RpcFaults /\ a.ok = FALSE))
<1> DEFINE g(n) == [fw EXCEPT !.ctrls = @ \cup {[nqn |-> q, id |-> n, owner |-> k]}]
           S == CreateCtrlr(fw, q, i, k)
<1>1. \A b \in S : \/ b = Refused(fw)
                   \/ /\ q \in fw.subs
                      /\ \E n \in CtrlrNums \ CtrlrIds(fw, q) : b = Done(g(n), n)
  BY DEF CreateCtrlr
<1>2. \A n : /\ g(n).subs = fw.subs /\ g(n).nss = fw.nss
             /\ g(n).ctrls = fw.ctrls \cup {[nqn |-> q, id |-> n, owner |-> k]}
  BY DEF Fw, FwStates
<1>3. \A n \in CtrlrNums \ CtrlrIds(fw, q), p \in fw.ctrls : ~(p.nqn = q /\ p.id = n)
  BY DEF CtrlrIds
<1>4. \A n \in CtrlrNums \ CtrlrIds(fw, q) :
         q \in fw.subs /\ fw' = g(n) => Adds(k, q, n)
  BY <1>2, <1>3 DEF Adds
<1> HIDE DEF g, S
<1>5. \/ a.fw = fw /\ a.ok = FALSE
      \/ \E f, v : /\ Done(f, v) \in S /\ a.fw = f
                   /\ (a.ok = TRUE /\ a.val = v) \/ (RpcFaults /\ a.ok = FALSE)
  <2>1. \A b \in S : b = Refused(fw) \/ \E f, v : b = Done(f, v)
    BY <1>1
  <2>2. a \in Call(S)
    BY DEF S
  <2> QED
    BY <2>1, <2>2, CallDoes
<1>6. ASSUME NEW f, NEW v, Done(f, v) \in S, a.fw = f
      PROVE  Adds(k, q, v)
  BY <1>1, <1>4, <1>6, DoneIs
<1> QED
  BY <1>5, <1>6

\* mrvl_nvm_subsys_alloc_ns adds a namespace with the number asked for, or refuses.
LEMMA AllocNsDoes ==
  ASSUME fw \in Fw, NsidAgrees, NEW q \in Nqns, NEW i, NEW k \in Namespaces,
         NEW a \in Call(AllocNs(fw, q, i, k)), fw' = a.fw
  PROVE  \/ a.fw = fw /\ a.ok = FALSE
         \/ Adds(k, q, i) /\ (a.ok = TRUE \/ (RpcFaults /\ a.ok = FALSE))
<1> DEFINE g == [fw EXCEPT !.nss = @ \cup {[nqn |-> q, id |-> i, owner |-> k]}]
           S == AllocNs(fw, q, i, k)
<1>1. \A b \in S : \/ b = Refused(fw)
                   \/ /\ q \in fw.subs /\ i \in NsNums \ NsIds(fw, q)
                      /\ b = Done(g, i)
  BY DEF AllocNs
<1>2. /\ g.subs = fw.subs /\ g.ctrls = fw.ctrls
      /\ g.nss = fw.nss \cup {[nqn |-> q, id |-> i, owner |-> k]}
  BY DEF Fw, FwStates
<1>3. q \in fw.subs /\ i \in NsNums \ NsIds(fw, q) /\ fw' = g => Adds(k, q, i)
  BY <1>2 DEF Adds, NsIds
<1> HIDE DEF g, S
<1>4. \/ a.fw = fw /\ a.ok = FALSE
      \/ \E f, v : /\ Done(f, v) \in S /\ a.fw = f
                   /\ (a.ok = TRUE /\ a.val = v) \/ (RpcFaults /\ a.ok = FALSE)
  <2>1. \A b \in S : b = Refused(fw) \/ \E f, v : b = Done(f, v)
    BY <1>1
  <2>2. a \in Call(S)
    BY DEF S
  <2> QED
    BY <2>1, <2>2, CallDoes
<1> QED
  BY <1>1, <1>3, <1>4, DoneIs

\* mrvl_nvm_subsys_remove_ctrlr takes one controller away, or refuses.
LEMMA RemoveCtrlrDoes ==
  ASSUME fw \in Fw, NEW q \in Nqns, NEW i, NEW k \in Controllers,
         NEW a \in Call(RemoveCtrlr(fw, q, i)), fw' = a.fw
  PROVE  \/ a.fw = fw /\ a.ok = FALSE
         \/ Removes(k, q, i) /\ (a.ok = TRUE \/ (RpcFaults /\ a.ok = FALSE))
<1> DEFINE g == [fw EXCEPT !.ctrls = {c \in @ : ~(c.nqn = q /\ c.id = i)},
                           !.att   = {b \in @ : ~(b.nqn = q /\ b.ctrl = i)}]
           S == RemoveCtrlr(fw, q, i)
<1>1. \A b \in S : b = Refused(fw) \/ (b = Done(g, 0) /\ i \in CtrlrIds(fw, q))
  BY DEF RemoveCtrlr
<1>2. /\ g.subs = fw.subs /\ g.nss = fw.nss
      /\ g.ctrls = {c \in fw.ctrls : ~(c.nqn = q /\ c.id = i)}
  BY DEF Fw, FwStates
<1>3. i \in CtrlrIds(fw, q) /\ fw' = g => Removes(k, q, i)
  BY <1>2 DEF Removes, CtrlrIds
<1> HIDE DEF g, S
<1>4. \/ a.fw = fw /\ a.ok = FALSE
      \/ \E f, v : /\ Done(f, v) \in S /\ a.fw = f
                   /\ (a.ok = TRUE /\ a.val = v) \/ (RpcFaults /\ a.ok = FALSE)
  <2>1. \A b \in S : b = Refused(fw) \/ \E f, v : b = Done(f, v)
    BY <1>1
  <2>2. a \in Call(S)
    BY DEF S
  <2> QED
    BY <2>1, <2>2, CallDoes
<1> QED
  BY <1>1, <1>3, <1>4, DoneIs

\* mrvl_nvm_subsys_unalloc_ns takes one namespace away, or refuses.
LEMMA UnallocNsDoes ==
  ASSUME fw \in Fw, NEW q \in Nqns, NEW i, NEW k \in Namespaces,
         NEW a \in Call(UnallocNs(fw, q, i)), fw' = a.fw
  PROVE  \/ a.fw = fw /\ a.ok = FALSE
         \/ Removes(k, q, i) /\ (a.ok = TRUE \/ (RpcFaults /\ a.ok = FALSE))
<1> DEFINE g == [fw EXCEPT !.nss = {m \in @ : ~(m.nqn = q /\ m.id = i)}]
           S == UnallocNs(fw, q, i)
<1>1. \A b \in S : b = Refused(fw) \/ (b = Done(g, 0) /\ i \in NsIds(fw, q))
  BY DEF UnallocNs
<1>2. /\ g.subs = fw.subs /\ g.ctrls = fw.ctrls
      /\ g.nss = {m \in fw.nss : ~(m.nqn = q /\ m.id = i)}
  BY DEF Fw, FwStates
<1>3. i \in NsIds(fw, q) /\ fw' = g => Removes(k, q, i)
  BY <1>2 DEF Removes, NsIds
<1> HIDE DEF g, S
<1>4. \/ a.fw = fw /\ a.ok = FALSE
      \/ \E f, v : /\ Done(f, v) \in S /\ a.fw = f
                   /\ (a.ok = TRUE /\ a.val = v) \/ (RpcFaults /\ a.ok = FALSE)
  <2>1. \A b \in S : b = Refused(fw) \/ \E f, v : b = Done(f, v)
    BY <1>1
  <2>2. a \in Call(S)
    BY DEF S
  <2> QED
    BY <2>1, <2>2, CallDoes
<1> QED
  BY <1>1, <1>3, <1>4, DoneIs

\* An update names a controller of the subsystem and returns its id.
LEMMA UpdateCtrlrDoes ==
  ASSUME UpdateEchoesId, NEW q, NEW i, NEW a \in Call(UpdateCtrlr(fw, q, i))
  PROVE  a.fw = fw /\ (a.ok => a.val = i /\ i \in CtrlrIds(fw, q))
<1> DEFINE S == UpdateCtrlr(fw, q, i)
<1>1. \A b \in S : b = Refused(fw) \/ (b = Done(fw, i) /\ i \in CtrlrIds(fw, q))
  BY DEF UpdateCtrlr
<1> HIDE DEF S
<1>2. \/ a.fw = fw /\ a.ok = FALSE
      \/ \E f, v : /\ Done(f, v) \in S /\ a.fw = f
                   /\ (a.ok = TRUE /\ a.val = v) \/ (RpcFaults /\ a.ok = FALSE)
  <2>1. \A b \in S : b = Refused(fw) \/ \E f, v : b = Done(f, v)
    BY <1>1
  <2>2. a \in Call(S)
    BY DEF S
  <2> QED
    BY <2>1, <2>2, CallDoes
<1> QED
  BY <1>1, <1>2, DoneIs

\* Attaching and detaching leave the objects as they are.
LEMMA AttachmentsDo ==
  ASSUME fw \in Fw, NEW q, NEW i, NEW n,
         NEW a \in Call(AttachNs(fw, q, i, n)) \cup Call(DetachNs(fw, q, i, n)),
         fw' = a.fw
  PROVE  SameObjects /\ a.ok \in BOOLEAN
<1> DEFINE g(T) == [fw EXCEPT !.att = T]
           x == [nqn |-> q, ctrl |-> i, ns |-> n]
<1>1. \A T : g(T).subs = fw.subs /\ g(T).ctrls = fw.ctrls /\ g(T).nss = fw.nss
  BY DEF Fw, FwStates
<1>2. ASSUME NEW T, NEW S, a \in Call(S), \A b \in S : b = Refused(fw) \/ b = Done(g(T), 0)
      PROVE  SameObjects /\ a.ok \in BOOLEAN
  <2> HIDE DEF g
  <2>1. \A b \in S : b = Refused(fw) \/ \E f, v : b = Done(f, v)
    BY <1>2
  <2>2. \/ a.fw = fw /\ a.ok = FALSE
        \/ \E f, v : /\ Done(f, v) \in S /\ a.fw = f
                     /\ (a.ok = TRUE /\ a.val = v) \/ (RpcFaults /\ a.ok = FALSE)
    BY <1>2, <2>1, CallDoes
  <2>3. ASSUME NEW f, NEW v, Done(f, v) \in S PROVE f = g(T)
    BY <1>2, <2>3, DoneIs
  <2>4. (fw' = fw \/ fw' = g(T)) /\ a.ok \in BOOLEAN
    BY <2>2, <2>3
  <2> QED
    BY <1>1, <2>4 DEF SameObjects
<1>3. \A b \in AttachNs(fw, q, i, n) :
        b = Refused(fw) \/ b = Done(g(fw.att \cup {x}), 0)
  BY DEF AttachNs
<1>4. \A b \in DetachNs(fw, q, i, n) :
        b = Refused(fw) \/ b = Done(g(fw.att \ {x}), 0)
  BY DEF DetachNs
<1> HIDE DEF g
<1> QED
  BY <1>2, <1>3, <1>4

---------------------------------------------------------------------------
(* Names, handlers and what is expected of the application.                *)

\* What kind of name a request is about.
LEMMA Names ==
  /\ \A k \in Keys : Root(k) \in Subsystems /\ k # None
  /\ \A s \in Subsystems : s \in Keys /\ Root(s) = s /\ s \notin Children
  /\ \A k \in Children : k \in Keys /\ Root(k) = Parent[k] /\ k \notin Subsystems
  BY FrontendAssumption DEF FrontendAssumption, Keys, Root

\* A running handler has an operation on a name of its kind.
LEMMA RunningOn ==
  ASSUME IInv, NEW w \in Worker, Running(w)
  PROVE  /\ h \in [Worker -> Frames] /\ h[w].key \in Keys /\ h[w].op \in MutatingOps
         /\ h[w].op \in SubsystemOps => h[w].key \in Subsystems
         /\ h[w].op \in ControllerOps => h[w].key \in Controllers
         /\ h[w].op \in NamespaceOps => h[w].key \in Namespaces
  BY DEF IInv, TypeOK, HandlersOK, FrameOK, Running, IdleFrame, Keys, Children

\* Beside a handler no other is past its change on the same name.
LEMMA OnlyPast ==
  ASSUME IInv, NEW w \in Worker, Running(w), NEW u \in Worker, u # w
  PROVE  ~Past(u, h[w].key)
  BY DEF IInv, OneAtATime, Exclusive, Past, PastChange, Running

\* At most one value is expected for a name.
LEMMA ExpectsOne ==
  ASSUME IInv, NEW k, NEW u, NEW v, Expects(k, u), Expects(k, v)
  PROVE  u = v
  BY OnlyPast DEF Expects, Past, PastChange, Running

\* What an undisturbed record, or a handler past its change, says is expected.
LEMMA ExpectsRecord ==
  ASSUME IInv, NEW w \in Worker, Running(w), ~Past(w, h[w].key), NEW v
  PROVE  Expects(h[w].key, v) <=> store[h[w].key] # None /\ store[h[w].key] = v
  BY OnlyPast DEF Expects

\* While a handler is past its change, it alone says what is expected.
LEMMA ExpectsPast ==
  ASSUME IInv, NEW w \in Worker, Running(w), Past(w, h[w].key), NEW v
  PROVE  Expects(h[w].key, v) <=> h[w].op \in CreateOps /\ h[w].obj = v
  BY OnlyPast DEF Expects

\* Nothing of an intact subsystem's own name was cut.
LEMMA IntactUncut ==
  ASSUME CutNamespaces, NEW s \in Subsystems, Intact(s)
  PROVE  Uncut(s)
  BY FrontendAssumption, Names DEF FrontendAssumption, CutNamespaces, Intact, Clean, Uncut, Children

\* An intact subsystem has one NQN in the application.
LEMMA OneNqn ==
  ASSUME MInv, NEW s \in Subsystems, Intact(s),
         NEW p \in fw.subs \cap NqnOf[s], NEW q \in fw.subs \cap NqnOf[s]
  PROVE  p = q
<1>1. p \in Values /\ q \in Values
  BY FrontendAssumption DEF FrontendAssumption, Values
<1>2. Has(s, p) /\ Has(s, q)
  BY DEF Has
<1>3. Expects(s, p) /\ Expects(s, q)
  BY <1>1, <1>2, IntactUncut, Names DEF MInv, Matches, Agree, AgreeAt
<1> QED
  BY <1>3, ExpectsOne DEF MInv

---------------------------------------------------------------------------
(* The objects stay placed.                                                *)

\* Placed and Has depend on the objects only.
LEMMA PlacedSame ==
  ASSUME Placed, SameObjects
  PROVE  Placed'
  BY DEF Placed, SameObjects, Objs

\* A new object with an id of its own stays placed.
LEMMA PlacedAdds ==
  ASSUME Placed, NEW k \in Children, NEW q \in NqnOf[Parent[k]], NEW n, Adds(k, q, n)
  PROVE  Placed'
<1> DEFINE o == [nqn |-> q, id |-> n, owner |-> k]
<1>1. o.nqn = q /\ o.id = n /\ o.owner = k
  OBVIOUS
<1> HIDE DEF o
<1>2. /\ q \in fw.subs /\ fw'.subs = fw.subs
      /\ \/ /\ \A p \in fw.ctrls : ~(p.nqn = q /\ p.id = n)
            /\ fw'.ctrls = fw.ctrls \cup {o} /\ fw'.nss = fw.nss
         \/ /\ \A p \in fw.nss : ~(p.nqn = q /\ p.id = n)
            /\ fw'.nss = fw.nss \cup {o} /\ fw'.ctrls = fw.ctrls
  BY DEF Adds, o
<1>3. \A p \in Objs' : p \in Objs \/ p = o
  BY <1>2 DEF Objs
<1>4. \A p \in Objs' : p.nqn \in fw'.subs /\ p.nqn \in NqnOf[Parent[p.owner]]
  BY <1>1, <1>2, <1>3 DEF Placed
<1>5. \A p, r \in fw'.ctrls : p.nqn = r.nqn /\ p.id = r.id => p = r
  BY <1>1, <1>2 DEF Placed
<1>6. \A p, r \in fw'.nss : p.nqn = r.nqn /\ p.id = r.id => p = r
  BY <1>1, <1>2 DEF Placed
<1> QED
  BY <1>2, <1>4, <1>5, <1>6 DEF Placed

\* Taking objects away leaves the others placed.
LEMMA PlacedRemoves ==
  ASSUME Placed, NEW k, NEW q, NEW n, Removes(k, q, n)
  PROVE  Placed'
<1>1. fw'.subs = fw.subs /\ fw'.ctrls \subseteq fw.ctrls /\ fw'.nss \subseteq fw.nss
  BY DEF Removes
<1> QED
  BY <1>1 DEF Placed, Objs

---------------------------------------------------------------------------
(* What a step at one name leaves alone.                                   *)

\* Where no object comes or goes, every name has what it had.
LEMMA HasSame ==
  ASSUME SameObjects, NEW k, NEW v
  PROVE  Has(k, v)' <=> Has(k, v)
  BY DEF SameObjects, Has, Objs

\* A step of w on k keeps what the others hold.
LEMMA KeepFrames ==
  ASSUME MInv, Exclusive', NEW w \in Worker, NEW k \in Keys,
         h' \in [Worker -> Frames],
         \A v \in Worker : v # w => h'[v] = h[v],
         \/ UNCHANGED store
         \/ /\ Running(w) /\ h[w].key = k
            /\ \A j \in Keys : j # k => store'[j] = store[j],
         FrameOwn(w)'
  PROVE  \A v \in Worker : FrameOwn(v)'
<1> SUFFICES ASSUME NEW v \in Worker, v # w, Running(v)
             PROVE  FrameOwn(v)'
  BY DEF FrameOwn, Running
<1>1. h'[v] = h[v] /\ h[v].key \in Keys
  BY RunningOn DEF MInv
<1>2. store'[h[v].key] = store[h[v].key]
  BY <1>1 DEF MInv, IInv, OneAtATime, Exclusive
<1> QED
  BY <1>1, <1>2 DEF MInv, Matches, FrameOwn, Running, PastChange

\* A step of w on k keeps the agreement at the other names.
LEMMA KeepAgree ==
  ASSUME MInv, NEW w \in Worker, NEW k \in Keys,
         \A v \in Worker : v # w => h'[v] = h[v],
         h[w].pc = "idle" \/ h[w].key = k, h'[w].pc = "idle" \/ h'[w].key = k,
         \A j \in Keys : j # k => store'[j] = store[j],
         cut \subseteq cut',
         \A j \in Keys : j # k /\ Intact(Root(j)) => \A v \in Values : Has(j, v)' <=> Has(j, v),
         AgreeAt(k)'
  PROVE  Agree'
<1> SUFFICES ASSUME NEW j \in Keys, j # k
             PROVE  AgreeAt(j)'
  BY DEF Agree
<1>1. \A u \in Worker : /\ Past(u, j)' <=> Past(u, j)
                        /\ Past(u, j) => h'[u] = h[u]
  BY Names DEF Past, PastChange
<1>2. \A v : Expects(j, v)' <=> Expects(j, v)
  BY <1>1 DEF Expects
<1>3. (Intact(Root(j))' => Intact(Root(j))) /\ (Uncut(j)' => Uncut(j))
  BY DEF Intact, Clean, Uncut
<1> QED
  BY <1>2, <1>3 DEF AgreeAt, MInv, Matches, Agree

---------------------------------------------------------------------------
(* The kinds of steps keep records and application in agreement.           *)

\* A handler goes on from one side of its change to the same side.
LEMMA GoOnMatches ==
  ASSUME MInv, Exclusive', NEW w \in Worker, Running(w), NEW g \in Frames,
         h' = [h EXCEPT ![w] = g], UNCHANGED <<store, cut>>, SameObjects,
         g.op = h[w].op, g.key = h[w].key, g.obj = h[w].obj,
         g.op \in CreateOps \cup DeleteOps => (PastChange(g) <=> PastChange(h[w])),
         g.op = "UpdateNvmeController" /\ g.pc = "save" => g.obj = store[g.key],
         g.changed = h[w].changed \/ g.op \in NamespaceOps,
         g.op \notin SubsystemOps => g.nqn \in {h[w].nqn, store[Parent[h[w].key]]}
  PROVE  Matches'
<1> DEFINE k == h[w].key
<1>1. /\ k \in Keys /\ h \in [Worker -> Frames] /\ h' \in [Worker -> Frames]
      /\ h'[w] = g /\ \A v \in Worker : v # w => h'[v] = h[v]
  BY RunningOn DEF MInv
<1>2. FrameOwn(w)'
  <2>1. FrameOwn(w) /\ h[w].op \in MutatingOps
    BY RunningOn DEF MInv, Matches
  <2>2. g.op \notin SubsystemOps => g.nqn \in NqnOf[Parent[k]] \cup {None}
    <3>1. g.op \notin SubsystemOps => k \in Children
      BY RunningOn DEF MInv, Children
    <3> QED
      BY <2>1, <3>1, Names DEF FrameOwn, MInv, Matches, StoreOwn
  <2>3. h[w].op = "UpdateNvmeController" => g.changed = FALSE
    BY <2>1 DEF FrameOwn, Frames, MInv
  <2>4. g.op \notin NamespaceOps /\ g.changed => PastChange(g)
    BY <2>1, <2>3 DEF FrameOwn
  <2> QED
    BY <1>1, <2>1, <2>2, <2>3, <2>4 DEF FrameOwn, Running
<1>3. AgreeAt(k)'
  <2>1. \A u \in Worker : /\ Past(u, k)' <=> Past(u, k)
                          /\ h'[u].op = h[u].op /\ h'[u].obj = h[u].obj
    BY <1>1 DEF Past
  <2>2. \A v : (Expects(k, v)' <=> Expects(k, v)) /\ (Has(k, v)' <=> Has(k, v))
    BY <2>1, HasSame DEF Expects
  <2> QED
    BY <1>1, <2>2 DEF AgreeAt, MInv, Matches, Agree, Intact, Clean, Uncut
<1>4. Agree'
  BY <1>1, <1>3, HasSame, KeepAgree
<1>5. \A v \in Worker : FrameOwn(v)'
  BY <1>1, <1>2, KeepFrames
<1> QED
  BY <1>4, <1>5, PlacedSame DEF Matches, MInv, StoreOwn, CutNamespaces

\* A handler returns without a write.  One that had changed the application was a
\* create; its name is noted, and where nothing fails it is a namespace's.
LEMMA ReturnMatches ==
  ASSUME MInv, Exclusive', NEW w \in Worker, Running(w), NEW code, NEW changed,
         ReturnAfter(w, code, changed), UNCHANGED store, SameObjects,
         changed <=> h[w].changed \/ (h[w].op \in NamespaceOps /\ changed),
         h[w].op \in CreateOps \cup DeleteOps /\ PastChange(h[w]) =>
           /\ h[w].op \in CreateOps /\ code # "OK" /\ changed
           /\ h[w].op \in NamespaceOps \/ RpcFaults
  PROVE  Matches'
<1> SUFFICES ASSUME NEW k, k = h[w].key
             PROVE  Matches'
  OBVIOUS
<1>1. /\ k \in Keys /\ h \in [Worker -> Frames] /\ h[w].op \in MutatingOps
      /\ h[w].op \in NamespaceOps => k \in Namespaces
      /\ h[w].op \in SubsystemOps => k \in Subsystems
      /\ FrameOwn(w)
  BY RunningOn DEF MInv, Matches
<1>2. /\ h'[w] = IdleFrame /\ \A v \in Worker : v # w => h'[v] = h[v]
      /\ h' \in [Worker -> Frames] /\ h'[w].pc = "idle"
  BY <1>1, IdleTyped DEF ReturnAfter, IdleFrame
<1>3. /\ cut \subseteq cut' /\ \A r \in cut' : r \in cut \/ r = <<h[w].op, k>>
      /\ code # "OK" /\ changed => <<h[w].op, k>> \in cut'
      /\ ~changed => cut' = cut
  BY DEF ReturnAfter
<1>4. FrameOwn(w)'
  BY <1>2 DEF FrameOwn, Running, IdleFrame
<1>5. CutNamespaces'
  <2>1. Faultless /\ changed => h[w].op \in NamespaceOps
    BY <1>1 DEF FrameOwn, Faultless
  <2> QED
    BY <1>1, <1>3, <2>1 DEF CutNamespaces, MInv, Matches
<1>6. AgreeAt(k)'
  <2>1. \A u \in Worker : Past(u, k)' <=> u # w /\ Past(u, k)
    BY <1>1, <1>2, Names DEF Past, IdleFrame, PastChange
  <2>2. \A u \in Worker : ~Past(u, k)'
    BY <2>1, OnlyPast DEF MInv
  <2>3. \A v : Expects(k, v)' <=> store[k] # None /\ store[k] = v
    BY <2>2 DEF Expects
  <2>4. CASE ~Past(w, k)
    <3>1. \A v : Expects(k, v)' <=> Expects(k, v)
      BY <2>3, <2>4, ExpectsRecord DEF MInv
    <3> QED
      BY <1>1, <1>3, <3>1, HasSame DEF AgreeAt, MInv, Matches, Agree, Intact, Clean, Uncut
  <2>5. CASE Past(w, k)
    <3>1. <<h[w].op, k>> \in cut' /\ h[w].op \in CreateOps
      BY <1>3, <2>5 DEF Past
    <3>2. store[k] = None
      BY <3>1 DEF MInv, IInv, OneAtATime, ReadStaysTrue
    <3>3. ~Uncut(k)'
      BY <3>1 DEF Uncut
    <3> QED
      BY <2>3, <3>2, <3>3 DEF AgreeAt
  <2> QED
    BY <2>4, <2>5
<1>7. Agree'
  BY <1>1, <1>2, <1>3, <1>6, HasSame, KeepAgree
<1>8. \A v \in Worker : FrameOwn(v)'
  BY <1>1, <1>2, <1>4, KeepFrames
<1> QED
  BY <1>5, <1>7, <1>8, PlacedSame DEF Matches, MInv, StoreOwn

\* A request arrives and its handler goes on.
LEMMA StartMatches ==
  ASSUME MInv, Exclusive', NEW w \in Worker, ~Running(w),
         NEW op \in MutatingOps, NEW k \in Keys, NEW pc \in {"scan", "parent", "rpc"}, NEW obj,
         h' \in [Worker -> Frames],
         op = "CreateNvmeNamespace" => pc = "parent",
         op \in SubsystemOps => obj \in NqnOf[k],
         op \in DeleteOps => obj = store[k],
         op = "UpdateNvmeController" => obj \in {store[k], autoCtrlrIDAllocation},
         Start(w, op, k, pc, obj), UNCHANGED <<store, ListHelper, fw>>
  PROVE  Matches'
<1>1. h \in [Worker -> Frames] /\ h[w].pc = "idle"
  BY DEF MInv, IInv, TypeOK, HandlersOK, Running
<1>2. /\ h'[w] = [IdleFrame EXCEPT !.op = op, !.pc = pc, !.key = k, !.obj = obj]
      /\ \A v \in Worker : v # w => h'[v] = h[v]
  BY <1>1 DEF Start
<1>3. /\ h'[w].op = op /\ h'[w].pc = pc /\ h'[w].key = k /\ h'[w].obj = obj
      /\ h'[w].nqn = None /\ h'[w].changed = FALSE
  BY <1>2 DEF IdleFrame
<1>4. FrameOwn(w)'
  BY <1>3 DEF FrameOwn
<1>5. SameObjects /\ cut' = cut
  BY DEF SameObjects, Start
<1>6. AgreeAt(k)'
  <2>1. \A u \in Worker : /\ Past(u, k)' <=> Past(u, k)
                          /\ Past(u, k) => h'[u] = h[u]
    BY <1>1, <1>2, <1>3, Names DEF Past, PastChange
  <2>2. \A v : (Expects(k, v)' <=> Expects(k, v)) /\ (Has(k, v)' <=> Has(k, v))
    BY <1>5, <2>1, HasSame DEF Expects
  <2> QED
    BY <1>5, <2>2 DEF AgreeAt, MInv, Matches, Agree, Intact, Clean, Uncut
<1>7. Agree'
  BY <1>1, <1>2, <1>3, <1>5, <1>6, HasSame, KeepAgree
<1>8. \A v \in Worker : FrameOwn(v)'
  BY <1>2, <1>4, KeepFrames
<1> QED
  BY <1>5, <1>7, <1>8, PlacedSame DEF Matches, MInv, StoreOwn, CutNamespaces

\* Nothing that the invariant speaks of changes.
LEMMA StutterMatches ==
  ASSUME Matches, UNCHANGED <<store, fw, h, cut>>
  PROVE  Matches'
  BY DEF Matches, Placed, Objs, StoreOwn, FrameOwn, Running, PastChange, CutNamespaces,
     Agree, AgreeAt, Expects, Past, Has, Intact, Clean, Uncut

\* The last write of a handler.
LEMMA WriteMatches ==
  ASSUME MInv, Exclusive', NEW w \in Worker, NEW value, WriteStore(w, value),
         \/ h[w].op \in CreateOps /\ h[w].pc = "save" /\ value = h[w].obj
         \/ h[w].op \in DeleteOps /\ h[w].pc = "erase" /\ value = None
         \/ At(w, "UpdateNvmeController", "save") /\ value = h[w].obj
  PROVE  Matches'
<1> SUFFICES ASSUME NEW k, k = h[w].key
             PROVE  Matches'
  OBVIOUS
<1>1. Running(w)
  BY DEF Running, At
<1>2. /\ k \in Keys /\ h \in [Worker -> Frames] /\ h[w].op \in MutatingOps
      /\ h[w].op \in SubsystemOps => k \in Subsystems
      /\ h[w].op \notin SubsystemOps => k \in Children
      /\ FrameOwn(w)
  BY <1>1, RunningOn DEF MInv, Matches, Children
<1>3. /\ h'[w] = IdleFrame /\ \A v \in Worker : v # w => h'[v] = h[v]
      /\ h' \in [Worker -> Frames] /\ h'[w].pc = "idle"
  <2>1. h' = [h EXCEPT ![w] = IdleFrame]
    BY DEF WriteStore, Return, ReturnAfter
  <2>2. IdleFrame.pc = "idle"
    BY DEF IdleFrame
  <2> QED
    BY <1>2, <2>1, <2>2, IdleTyped
<1>4. /\ store' = [store EXCEPT ![k] = value] \/ (StoreFaults /\ UNCHANGED store)
      /\ \/ store' = [store EXCEPT ![k] = value] /\ cut' = cut
         \/ StoreFaults /\ cut' = IF h[w].changed THEN cut \cup {<<h[w].op, k>>} ELSE cut
  BY DEF WriteStore, Return, ReturnAfter
<1>5. /\ store'[k] \in {store[k], value} /\ \A j \in Keys : j # k => store'[j] = store[j]
  <2>1. store \in [Keys -> Nqns \cup CtrlrNums \cup NsNums \cup {None}]
    BY DEF MInv, IInv, TypeOK, StoreOK
  <2> QED
    BY <1>2, <1>4, <2>1
<1>6. /\ cut \subseteq cut' /\ \A r \in cut' : r \in cut \/ r = <<h[w].op, k>>
      /\ \/ store'[k] = value /\ cut' = cut
         \/ ~h[w].changed /\ cut' = cut
         \/ ~Faultless /\ <<h[w].op, k>> \in cut'
  <2>1. store \in [Keys -> Nqns \cup CtrlrNums \cup NsNums \cup {None}]
    BY DEF MInv, IInv, TypeOK, StoreOK
  <2> QED
    BY <1>2, <1>4, <2>1 DEF Faultless
<1>7. SameObjects
  BY DEF WriteStore, SameObjects
<1>8. FrameOwn(w)'
  BY <1>3 DEF FrameOwn, Running, IdleFrame
<1>9. StoreOwn'
  <2>1. k \in Subsystems => value \in NqnOf[k] \cup {None}
    BY <1>1, <1>2, Names DEF FrameOwn, At
  <2> QED
    BY <1>5, <2>1, Names DEF MInv, Matches, StoreOwn
<1>10. CutNamespaces'
  BY <1>6 DEF CutNamespaces, MInv, Matches
<1>11. AgreeAt(k)'
  <2>1. \A u \in Worker : ~Past(u, k)'
    <3>1. \A u \in Worker : Past(u, k)' => u # w /\ Past(u, k)
      BY <1>2, <1>3, Names DEF Past, PastChange
    <3> QED
      BY <1>1, <3>1, OnlyPast DEF MInv
  <2>2. \A v : Expects(k, v)' <=> store'[k] # None /\ store'[k] = v
    BY <2>1 DEF Expects
  <2>3. \A v : Has(k, v)' <=> Has(k, v)
    BY <1>7, HasSame
  <2>4. CASE h[w].op = "UpdateNvmeController"
    <3>1. store'[k] = store[k] /\ cut' = cut
      BY <1>1, <1>2, <1>4, <1>5, <1>6, <2>4 DEF FrameOwn, At
    <3>2. \A v : Expects(k, v)' <=> Expects(k, v)
      BY <1>1, <2>2, <2>4, <3>1, ExpectsRecord DEF MInv, Past
    <3> QED
      BY <1>2, <2>3, <3>1, <3>2 DEF AgreeAt, MInv, Matches, Agree, Intact, Clean, Uncut
  <2>5. CASE h[w].op \in CreateOps
    <3>1. h[w].pc = "save" /\ value = h[w].obj /\ Past(w, k) /\ store[k] = None /\ h[w].changed
      BY <1>1, <2>5 DEF At, Past, PastChange, MInv, IInv, OneAtATime, ReadStaysTrue, ChangesInOrder
    <3>2. \A v : Expects(k, v)' => Expects(k, v)
      BY <1>1, <1>5, <2>2, <2>5, <3>1, ExpectsPast DEF MInv
    <3>3. Uncut(k)' => store'[k] = h[w].obj
      BY <1>6, <3>1 DEF Uncut
    <3>4. h[w].obj # None
      <4>1. FrameOK(h[w])
        BY DEF MInv, IInv, TypeOK, HandlersOK
      <4>2. h[w].obj \in Nqns \cup CtrlrNums \cup NsNums
        BY <2>5, <3>1, <4>1 DEF FrameOK, IdleFrame
      <4> QED
        BY <4>2, FrontendAssumption, NumsAreInts DEF FrontendAssumption
    <3>5. Uncut(k)' => \A v : Expects(k, v) => Expects(k, v)'
      BY <1>1, <2>2, <2>5, <3>1, <3>3, <3>4, ExpectsPast DEF MInv
    <3> QED
      BY <1>2, <1>6, <2>3, <3>2, <3>5 DEF AgreeAt, MInv, Matches, Agree, Intact, Clean, Uncut
  <2>6. CASE h[w].op \in DeleteOps
    <3>1. h[w].pc = "erase" /\ value = None /\ Past(w, k) /\ h[w].changed
      BY <1>1, <2>6 DEF At, Past, PastChange, MInv, IInv, OneAtATime, ChangesInOrder
    <3>2. \A v : ~Expects(k, v)
      BY <1>1, <2>6, <3>1, ExpectsPast DEF MInv
    <3>3. ~Intact(Root(k))' \/ (cut' = cut /\ \A v : ~Expects(k, v)')
      BY <1>2, <1>6, <2>2, <2>6, <3>1, Names DEF Intact, Clean, Faultless
    <3> QED
      BY <1>2, <2>3, <3>2, <3>3 DEF AgreeAt, MInv, Matches, Agree, Intact, Clean, Uncut
  <2> QED
    BY <1>1, <2>4, <2>5, <2>6 DEF At
<1>12. Agree'
  BY <1>2, <1>3, <1>5, <1>6, <1>7, <1>11, HasSame, KeepAgree
<1>13. \A v \in Worker : FrameOwn(v)'
  BY <1>1, <1>2, <1>3, <1>5, <1>8, KeepFrames
<1> QED
  BY <1>7, <1>9, <1>10, <1>12, <1>13, PlacedSame DEF Matches, MInv

\* A restart: creates that had changed the application are noted with their names,
\* deletes with everything in their subsystem.
LEMMA RestartMatches ==
  ASSUME MInv, Restart
  PROVE  Matches'
<1>1. \A v \in Worker : h'[v] = IdleFrame
  BY DEF Restart
<1>2. SameObjects /\ store' = store /\ cut \subseteq cut' /\ ~Faultless
  BY DEF Restart, SameObjects, Faultless
<1>3. \A w \in Worker : h[w].changed => <<h[w].op, h[w].key>> \in cut'
  BY DEF Restart
<1>4. \A v \in Worker : FrameOwn(v)'
  BY <1>1 DEF FrameOwn, Running, IdleFrame
<1>5. ASSUME NEW k \in Keys PROVE AgreeAt(k)'
  <2>1. \A u \in Worker : ~Past(u, k)'
    BY <1>1 DEF Past, IdleFrame
  <2>2. \A v : Expects(k, v)' <=> store[k] # None /\ store[k] = v
    BY <1>2, <2>1 DEF Expects
  <2>3. \A v : Has(k, v)' <=> Has(k, v)
    BY <1>2, HasSame
  <2>4. CASE \A w \in Worker : ~Past(w, k)
    <3>1. \A v : Expects(k, v)' <=> Expects(k, v)
      BY <2>2, <2>4 DEF Expects
    <3> QED
      BY <1>2, <2>3, <3>1 DEF AgreeAt, MInv, Matches, Agree, Intact, Clean, Uncut
  <2>5. ASSUME NEW w \in Worker, Past(w, k) PROVE AgreeAt(k)'
    <3>1. h[w].changed /\ h[w].key = k /\ Running(w) /\ <<h[w].op, k>> \in cut'
      BY <1>3, <2>5 DEF Past, PastChange, Running, MInv, IInv, OneAtATime, ChangesInOrder
    <3>2. ~Uncut(k)'
      BY <3>1 DEF Uncut
    <3>3. CASE h[w].op \in CreateOps
      <4>1. store[k] = None
        BY <3>1, <3>3 DEF MInv, IInv, OneAtATime, ReadStaysTrue
      <4> QED
        BY <2>2, <3>2, <4>1 DEF AgreeAt
    <3>4. CASE h[w].op \in DeleteOps
      BY <1>2, <3>1, <3>4 DEF AgreeAt, Intact, Clean
    <3> QED
      BY <2>5, <3>3, <3>4 DEF Past
  <2> QED
    BY <2>4, <2>5
<1> QED
  BY <1>2, <1>4, <1>5, PlacedSame DEF Matches, MInv, StoreOwn, CutNamespaces, Agree

\* A handler goes on or returns after a call, and the application keeps its objects.
LEMMA TakeMatches ==
  ASSUME MInv, IInv', NEW w \in Worker, NEW a, NEW next,
         TakeAnswer(w, a, next, h[w].obj), SameObjects,
         \/ h[w].pc = "rpc" /\ a.fw = fw
         \/ h[w].pc = "call" /\ h[w].op \in NamespaceOps,
         a.ok =>
           \/ h[w].pc = "call" /\ next = "loop"
           \/ h[w].op = "UpdateNvmeController" /\ next = "save" /\ h[w].obj = store[h[w].key]
  PROVE  Matches'
<1>1. /\ Running(w) /\ h \in [Worker -> Frames] /\ h' \in [Worker -> Frames] /\ Exclusive'
  BY DEF Running, MInv, IInv, TypeOK, HandlersOK, OneAtATime
<1> DEFINE changed == h[w].changed \/ a.fw # fw
<1>2. CASE a.ok
  <2> DEFINE g == [h[w] EXCEPT !.pc = next, !.obj = h[w].obj, !.changed = changed]
  <2>1. h' = [h EXCEPT ![w] = g] /\ UNCHANGED <<store, cut>>
    BY <1>1, <1>2 DEF TakeAnswer, Frames
  <2>2. /\ g.pc = next /\ g.obj = h[w].obj /\ g.changed = changed
        /\ g.op = h[w].op /\ g.key = h[w].key /\ g.nqn = h[w].nqn
    BY <1>1 DEF Frames
  <2>3. g \in Frames
    BY <1>1, <2>1
  <2>4. g.changed = h[w].changed \/ g.op \in NamespaceOps
    BY <1>1, <2>2 DEF Frames
  <2>5. g.op \in CreateOps \cup DeleteOps => (PastChange(g) <=> PastChange(h[w]))
    BY <1>2, <2>2 DEF PastChange
  <2> HIDE DEF g
  <2> QED
    BY <1>1, <1>2, <2>1, <2>2, <2>3, <2>4, <2>5, GoOnMatches
<1>3. CASE ~a.ok
  <2>1. ReturnAfter(w, "Failed", changed) /\ UNCHANGED store
    BY <1>3 DEF TakeAnswer
  <2>2. changed <=> h[w].changed \/ (h[w].op \in NamespaceOps /\ changed)
    OBVIOUS
  <2>3. h[w].op \in CreateOps \cup DeleteOps /\ PastChange(h[w]) =>
          h[w].op \in CreateOps \cap NamespaceOps /\ changed
    BY DEF PastChange, MInv, IInv, OneAtATime, ChangesInOrder
  <2> HIDE DEF changed
  <2> QED
    BY <1>1, <2>1, <2>2, <2>3, ReturnMatches
<1> QED
  BY <1>2, <1>3

\* A call that changed nothing and failed ends its handler.
LEMMA RefusedMatches ==
  ASSUME MInv, IInv', NEW w \in Worker, h[w].pc = "rpc", NEW a, NEW next, NEW obj,
         TakeAnswer(w, a, next, obj), a.fw = fw, ~a.ok
  PROVE  Matches'
<1>1. SameObjects
  BY DEF TakeAnswer, SameObjects
<1>2. TakeAnswer(w, a, next, h[w].obj)
  BY DEF TakeAnswer
<1> QED
  BY <1>1, <1>2, TakeMatches

\* A step makes the application have x for k, or no longer have it, and leaves
\* alone what it has for the other names.
Gains(k, x) == \A v \in Values : Has(k, v)' <=> Has(k, v) \/ v = x

Loses(k, x) ==
  Intact(Root(k)) => \A v \in Values : Has(k, v)' => Has(k, v) /\ v # x

OthersKeep(k) ==
  \A j \in Keys : j # k /\ Intact(Root(j)) =>
    \A v \in Values : Has(j, v)' <=> Has(j, v)

\* The call by which a create or a delete changes the application's objects.
LEMMA ChangeMatches ==
  ASSUME MInv, IInv', NEW w \in Worker, h[w].pc = "rpc",
         NEW a, NEW next \in {"list", "range", "unlist"}, NEW obj,
         a.ok = TRUE \/ (RpcFaults /\ a.ok = FALSE),
         TakeAnswer(w, a, next, obj), a.fw # fw, Placed',
         h[w].op \in SubsystemOps \cup DeleteOps => obj = h[w].obj,
         next = "range" => h[w].op = "CreateNvmeNamespace",
         NEW k \in Keys, h[w].key = k,
         OthersKeep(k),
         \/ h[w].op \in CreateOps /\ (a.ok = TRUE => Gains(k, obj))
         \/ h[w].op \in DeleteOps /\ Loses(k, h[w].obj)
  PROVE  Matches'
<1>1. /\ Running(w) /\ h \in [Worker -> Frames] /\ h' \in [Worker -> Frames] /\ Exclusive'
      /\ ~PastChange(h[w]) /\ FrameOwn(w) /\ h[w].op \in MutatingOps
  BY DEF Running, MInv, Matches, IInv, TypeOK, HandlersOK, OneAtATime, PastChange
<1>2. \A u \in Worker : ~Past(u, k)
  BY <1>1, OnlyPast DEF MInv, Past
<1>3. \A v : Expects(k, v) <=> store[k] # None /\ store[k] = v
  BY <1>2 DEF Expects
<1>4. UNCHANGED store /\ \A v \in Worker : v # w => h'[v] = h[v]
  BY <1>1 DEF TakeAnswer, ReturnAfter
<1>5. AgreeAt(k)
  BY DEF MInv, Matches, Agree
<1>6. CASE a.ok = TRUE
  <2> DEFINE g == [h[w] EXCEPT !.pc = next, !.obj = obj, !.changed = TRUE]
  <2>1. h' = [h EXCEPT ![w] = g] /\ cut' = cut
    BY <1>1, <1>6 DEF TakeAnswer, Frames
  <2>2. /\ h'[w].pc = next /\ h'[w].obj = obj /\ h'[w].changed = TRUE
        /\ h'[w].op = h[w].op /\ h'[w].key = k /\ h'[w].nqn = h[w].nqn
    BY <1>1, <2>1 DEF Frames
  <2> HIDE DEF g
  <2>3. Past(w, k)' /\ \A u \in Worker : u # w => ~Past(u, k)'
    BY <1>2, <1>4, <2>2 DEF Past, PastChange
  <2>4. \A v : Expects(k, v)' <=> h[w].op \in CreateOps /\ v = obj
    BY <2>2, <2>3 DEF Expects
  <2>5. FrameOwn(w)'
    BY <1>1, <1>4, <2>2 DEF FrameOwn, PastChange, Running
  <2>6. AgreeAt(k)'
    <3>1. (Intact(Root(k))' <=> Intact(Root(k))) /\ (Uncut(k)' <=> Uncut(k))
      BY <2>1 DEF Intact, Clean, Uncut
    <3>2. CASE h[w].op \in CreateOps
      <4>1. store[k] = None
        BY <1>1, <3>2 DEF MInv, IInv, OneAtATime, ReadStaysTrue
      <4>2. \A v \in Values : Has(k, v)' <=> Has(k, v) \/ v = obj
        BY <1>6, <3>2 DEF Gains
      <4> QED
        BY <1>3, <1>5, <2>4, <3>1, <3>2, <4>1, <4>2 DEF AgreeAt
    <3>3. CASE h[w].op \in DeleteOps
      <4>1. h[w].obj = store[k]
        BY <1>1, <3>3 DEF FrameOwn
      <4>2. Intact(Root(k)) => \A v \in Values : Has(k, v)' => Has(k, v) /\ v # h[w].obj
        BY <3>3 DEF Loses
      <4> QED
        BY <1>3, <1>5, <2>4, <3>1, <3>3, <4>1, <4>2 DEF AgreeAt
    <3> QED
      BY <3>2, <3>3
  <2>7. Agree'
    BY <1>4, <2>1, <2>2, <2>6, KeepAgree DEF OthersKeep
  <2>8. \A v \in Worker : FrameOwn(v)'
    BY <1>1, <1>4, <2>5, KeepFrames
  <2> QED
    BY <1>4, <2>1, <2>7, <2>8 DEF Matches, MInv, StoreOwn, CutNamespaces
<1>7. CASE a.ok = FALSE
  <2>1. ReturnAfter(w, "Failed", TRUE) /\ RpcFaults
    BY <1>7 DEF TakeAnswer
  <2>2. h' = [h EXCEPT ![w] = IdleFrame] /\ cut' = cut \cup {<<h[w].op, k>>}
    BY <2>1 DEF ReturnAfter
  <2>3. h'[w].pc = "idle"
    BY <1>1, <2>2 DEF IdleFrame
  <2>4. FrameOwn(w)'
    BY <2>3 DEF FrameOwn, Running
  <2>5. AgreeAt(k)'
    <3>1. \A u \in Worker : ~Past(u, k)'
      <4> SUFFICES ASSUME NEW u \in Worker PROVE ~Past(u, k)'
        OBVIOUS
      <4>1. CASE u = w
        BY <2>3, <4>1 DEF Past, PastChange
      <4>2. CASE u # w
        BY <1>2, <1>4, <4>2 DEF Past, PastChange
      <4> QED
        BY <4>1, <4>2
    <3>2. \A v : Expects(k, v)' <=> store[k] # None /\ store[k] = v
      BY <1>4, <3>1 DEF Expects
    <3>3. ~Uncut(k)'
      <4>1. <<h[w].op, k>> \in cut'
        BY <2>2
      <4> QED
        BY <4>1 DEF Uncut
    <3>4. CASE h[w].op \in CreateOps
      <4>1. store[k] = None
        BY <1>1, <3>4 DEF MInv, IInv, OneAtATime, ReadStaysTrue
      <4> QED
        BY <3>2, <3>3, <4>1 DEF AgreeAt
    <3>5. CASE h[w].op \in DeleteOps
      <4>1. <<h[w].op, k>> \in cut' /\ ~Faultless
        BY <2>1, <2>2 DEF Faultless
      <4>2. ~Intact(Root(k))'
        BY <3>5, <4>1 DEF Intact, Clean
      <4> QED
        BY <4>2 DEF AgreeAt
    <3> QED
      BY <3>4, <3>5
  <2>6. Agree'
    BY <1>4, <2>2, <2>3, <2>5, KeepAgree DEF OthersKeep
  <2>7. \A v \in Worker : FrameOwn(v)'
    BY <1>1, <1>4, <2>4, KeepFrames
  <2>8. CutNamespaces'
    BY <2>1 DEF CutNamespaces, Faultless
  <2> QED
    BY <1>4, <2>6, <2>7, <2>8 DEF Matches, MInv, StoreOwn
<1> QED
  BY <1>6, <1>7

---------------------------------------------------------------------------
(* The calls.                                                              *)

\* The objects have names, ids and NQNs of their kind.
LEMMA ObjsTyped ==
  ASSUME IInv
  PROVE  /\ \A o \in fw.ctrls : o.nqn \in Nqns /\ o.id \in CtrlrNums /\ o.owner \in Controllers
         /\ \A o \in fw.nss : o.nqn \in Nqns /\ o.id \in NsNums /\ o.owner \in Namespaces
  BY DEF IInv, TypeOK, FwStates

\* The NQN that the call of a controller or namespace handler carries is one of
\* its parent's.
LEMMA NqnOwn ==
  ASSUME MInv, NEW w \in Worker, h[w].pc = "rpc", h[w].op \notin SubsystemOps
  PROVE  /\ Running(w) /\ h[w].key \in Children /\ h[w].nqn \in Nqns
         /\ h[w].nqn \in NqnOf[Parent[h[w].key]]
<1>1. Running(w)
  BY DEF Running
<1>2. HandlersOK
  BY DEF MInv, IInv, TypeOK
<1>3. h[w].op \in ControllerOps \/ h[w].op \in NamespaceOps
  BY <1>1, RunningOn DEF MInv
<1>4. h[w].key \in Children /\ h[w].nqn \in Nqns
  BY <1>1, <1>2, <1>3, RunningTyped DEF Children
<1>5. h[w].nqn # None
  BY <1>4, FrontendAssumption DEF FrontendAssumption
<1> QED
  BY <1>1, <1>4, <1>5 DEF MInv, Matches, FrameOwn

\* Where the records are intact, what a delete of a controller or a namespace
\* names by NQN and id is its own object.
LEMMA RemovesOwn ==
  ASSUME MInv, OwnNqns, NEW w \in Worker, h[w].pc = "rpc",
         NEW o \in Objs, o.nqn = h[w].nqn, o.id = h[w].obj, Intact(Parent[o.owner]),
         \/ h[w].op = "DeleteNvmeController" /\ o \in fw.ctrls
         \/ h[w].op = "DeleteNvmeNamespace" /\ o \in fw.nss
  PROVE  o.owner = h[w].key
<1> SUFFICES ASSUME NEW k, k = h[w].key
             PROVE  o.owner = k
  OBVIOUS
<1>1. Running(w) /\ k \in Children /\ h[w].nqn \in NqnOf[Parent[k]]
  BY NqnOwn
<1>2. o.owner \in Children /\ o.nqn \in fw.subs /\ o.nqn \in NqnOf[Parent[o.owner]]
  BY ObjsTyped DEF MInv, Matches, Placed, Children
<1>3. Parent[k] \in Subsystems /\ Root(k) = Parent[k] /\ k \in Keys
  BY <1>1, Names
<1>4. Parent[o.owner] = Parent[k]
  BY <1>1, <1>2, <1>3, Names DEF OwnNqns
<1>5. h[w].obj = store[k] /\ store[k] # None /\ store[k] \in Values
  <2>1. h[w].obj = store[k] /\ store[k] # None
    BY <1>1 DEF MInv, Matches, FrameOwn, IInv, OneAtATime, ReadStaysTrue
  <2> QED
    BY <1>3, <2>1 DEF MInv, IInv, TypeOK, StoreOK, Values
<1>6. Expects(k, store[k])
  BY <1>1, <1>5, ExpectsRecord DEF MInv, Past, PastChange
<1>7. Has(k, store[k])
  BY <1>3, <1>4, <1>5, <1>6 DEF MInv, Matches, Agree, AgreeAt
<1>8. PICK p \in Objs : p.owner = k /\ p.id = h[w].obj
  BY <1>1, <1>5, <1>7, Names DEF Has
<1>9. p.nqn = o.nqn
  BY <1>2, <1>3, <1>4, <1>8, OneNqn DEF MInv, Matches, Placed
<1>10. h[w].op = "DeleteNvmeController" => p \in fw.ctrls
  <2>1. h[w].op = "DeleteNvmeController" => k \in Controllers
    BY <1>1, RunningOn DEF MInv
  <2> QED
    BY <1>8, <2>1, ObjsTyped, FrontendAssumption DEF FrontendAssumption, MInv, Objs
<1>11. h[w].op = "DeleteNvmeNamespace" => p \in fw.nss
  <2>1. h[w].op = "DeleteNvmeNamespace" => k \in Namespaces
    BY <1>1, RunningOn DEF MInv
  <2> QED
    BY <1>8, <2>1, ObjsTyped, FrontendAssumption DEF FrontendAssumption, MInv, Objs
<1>12. p = o
  BY <1>8, <1>9, <1>10, <1>11 DEF MInv, Matches, Placed
<1> QED
  BY <1>8, <1>12

\* A controller or a namespace is created.
LEMMA AddMatches ==
  ASSUME MInv, IInv', NEW w \in Worker, h[w].pc = "rpc",
         h[w].op \in CreateOps, h[w].op \notin SubsystemOps,
         NEW a, NEW next \in {"list", "range"}, NEW obj, NEW n, TakeAnswer(w, a, next, obj),
         next = "range" => h[w].op = "CreateNvmeNamespace",
         Adds(h[w].key, h[w].nqn, n),
         \/ a.ok = TRUE /\ obj = n
         \/ RpcFaults /\ a.ok = FALSE
  PROVE  Matches'
<1> SUFFICES ASSUME NEW k, k = h[w].key, NEW q, q = h[w].nqn
             PROVE  Matches'
  OBVIOUS
<1>1. k \in Children /\ q \in NqnOf[Parent[k]] /\ k \in Keys
  BY NqnOwn, Names
<1> DEFINE o == [nqn |-> q, id |-> n, owner |-> k]
<1>2. o.nqn = q /\ o.id = n /\ o.owner = k
  OBVIOUS
<1> HIDE DEF o
<1>3. /\ fw'.subs = fw.subs
      /\ \/ /\ \A p \in fw.ctrls : ~(p.nqn = q /\ p.id = n)
            /\ fw'.ctrls = fw.ctrls \cup {o} /\ fw'.nss = fw.nss
         \/ /\ \A p \in fw.nss : ~(p.nqn = q /\ p.id = n)
            /\ fw'.nss = fw.nss \cup {o} /\ fw'.ctrls = fw.ctrls
  BY DEF Adds, o
<1>4. Objs' = Objs \cup {o} /\ a.fw # fw
  BY <1>2, <1>3 DEF Objs, TakeAnswer
<1>5. Placed'
  BY <1>1, PlacedAdds DEF MInv, Matches
<1>6. OthersKeep(k)
  BY <1>2, <1>3, <1>4 DEF Has, OthersKeep
<1>7. Gains(k, n)
  BY <1>1, <1>2, <1>3, <1>4, Names DEF Has, Gains
<1> QED
  BY <1>1, <1>4, <1>5, <1>6, <1>7, ChangeMatches

\* A controller or a namespace is removed.
LEMMA RemoveMatches ==
  ASSUME MInv, IInv', OwnNqns, NEW w \in Worker, h[w].pc = "rpc",
         h[w].op \in DeleteOps, h[w].op \notin SubsystemOps,
         NEW a, TakeAnswer(w, a, "unlist", h[w].obj), a.fw # fw,
         Removes(h[w].key, h[w].nqn, h[w].obj),
         a.ok = TRUE \/ (RpcFaults /\ a.ok = FALSE)
  PROVE  Matches'
<1> SUFFICES ASSUME NEW k, k = h[w].key, NEW q, q = h[w].nqn, NEW i, i = h[w].obj
             PROVE  Matches'
  OBVIOUS
<1>1. /\ Running(w) /\ k \in Children /\ k \in Keys /\ q \in NqnOf[Parent[k]]
      /\ Root(k) = Parent[k] /\ Root(k) \in Subsystems
  BY NqnOwn, Names
<1>2. /\ h[w].op = "DeleteNvmeController" => k \in Controllers /\ k \notin Namespaces
      /\ h[w].op = "DeleteNvmeNamespace" => k \in Namespaces /\ k \notin Controllers
      /\ h[w].op \in {"DeleteNvmeController", "DeleteNvmeNamespace"}
  BY <1>1, RunningOn, FrontendAssumption DEF MInv, FrontendAssumption
<1>3. /\ fw'.subs = fw.subs /\ q \in fw.subs
      /\ \/ /\ h[w].op = "DeleteNvmeController" /\ fw'.nss = fw.nss
            /\ fw'.ctrls = {p \in fw.ctrls : ~(p.nqn = q /\ p.id = i)}
         \/ /\ h[w].op = "DeleteNvmeNamespace" /\ fw'.ctrls = fw.ctrls
            /\ fw'.nss = {p \in fw.nss : ~(p.nqn = q /\ p.id = i)}
  BY <1>2 DEF Removes, MInv, Matches, Placed, Objs
<1>4. Placed'
  BY PlacedRemoves DEF MInv, Matches
<1>5. ASSUME NEW o \in Objs, o \notin Objs', Intact(Parent[o.owner])
      PROVE  o.owner = k
  BY <1>3, <1>5, RemovesOwn DEF Objs
<1>6. Objs' \subseteq Objs
  BY <1>3 DEF Objs
<1>7. OthersKeep(k)
  <2> SUFFICES ASSUME NEW j \in Keys, j # k, Intact(Root(j)), NEW v \in Values
               PROVE  Has(j, v)' <=> Has(j, v)
    BY DEF OthersKeep
  <2> QED
    BY <1>3, <1>5, <1>6, Names DEF Has
<1>8. Loses(k, i)
  <2> SUFFICES ASSUME Intact(Root(k)), NEW v \in Values, Has(k, v)'
               PROVE  Has(k, v) /\ v # i
    BY DEF Loses
  <2>1. PICK o \in Objs' : o.owner = k /\ o.id = v
    BY <1>1, Names DEF Has
  <2>2. o \in Objs /\ Has(k, v)
    BY <1>1, <1>6, <2>1 DEF Has
  <2>3. o.nqn = q
    BY <1>1, <1>3, <2>1, <2>2, OneNqn DEF MInv, Matches, Placed
  <2>4. h[w].op = "DeleteNvmeController" => o \in fw'.ctrls
    BY <1>2, <2>1, <2>2, <1>3, ObjsTyped DEF Objs, MInv
  <2>5. h[w].op = "DeleteNvmeNamespace" => o \in fw'.nss
    BY <1>2, <2>1, <2>2, <1>3, ObjsTyped DEF Objs, MInv
  <2> QED
    BY <1>3, <2>1, <2>2, <2>3, <2>4, <2>5
<1> QED
  BY <1>1, <1>4, <1>7, <1>8, ChangeMatches

\* A subsystem is created or deleted.
LEMMA SubsystemRpcMatches ==
  ASSUME MInv, IInv', OwnNqns, NEW w \in Worker,
         CreateNvmeSubsystemRpc(w) \/ DeleteNvmeSubsystemRpc(w)
  PROVE  Matches'
<1>1. h[w].pc = "rpc" /\ h[w].op \in SubsystemOps /\ Running(w) /\ FrameOwn(w)
  BY DEF CreateNvmeSubsystemRpc, DeleteNvmeSubsystemRpc, At, Running, MInv, Matches
<1> SUFFICES ASSUME NEW k, k = h[w].key, NEW q, q = h[w].obj
             PROVE  Matches'
  OBVIOUS
<1>2. k \in Subsystems /\ k \in Keys /\ q \in NqnOf[k] /\ q \in Nqns
  BY <1>1, RunningOn, Names, FrontendAssumption DEF MInv, FrameOwn, FrontendAssumption
<1>3. fw \in Fw
  BY DEF MInv, IInv, TypeOK, Fw
<1>4. ASSUME NEW a, NEW next, TakeAnswer(w, a, next, q), a.fw = fw, ~a.ok
      PROVE  Matches'
  BY <1>1, <1>4, RefusedMatches
<1>5. \A s \in Subsystems : s # k => q \notin NqnOf[s]
  BY <1>2 DEF OwnNqns
<1>6. CASE CreateNvmeSubsystemRpc(w)
  <2>1. PICK a \in Call(CreateSubsystem(fw, q)) : TakeAnswer(w, a, "list", q)
    BY <1>6 DEF CreateNvmeSubsystemRpc
  <2>2. CASE /\ q \notin fw.subs /\ a.fw.subs = fw.subs \cup {q}
             /\ a.fw.ctrls = fw.ctrls /\ a.fw.nss = fw.nss
             /\ a.ok = TRUE \/ (RpcFaults /\ a.ok = FALSE)
    <3>1. /\ fw'.subs = fw.subs \cup {q} /\ fw'.ctrls = fw.ctrls /\ fw'.nss = fw.nss
          /\ a.fw # fw
      BY <2>1, <2>2 DEF TakeAnswer
    <3>2. Placed'
      BY <1>2, <3>1 DEF MInv, Matches, Placed, Objs
    <3>3. OthersKeep(k)
      BY <1>5, <3>1, Names DEF OthersKeep, Has, Objs
    <3>4. Gains(k, q)
      BY <1>2, <3>1, Names DEF Gains, Has, Objs
    <3>5. h[w].op \in CreateOps
      BY <1>6 DEF CreateNvmeSubsystemRpc, At
    <3> QED
      BY <1>1, <1>2, <2>1, <2>2, <3>1, <3>2, <3>3, <3>4, <3>5, ChangeMatches
  <2> QED
    BY <1>2, <1>3, <1>4, <2>1, <2>2, CreateSubsystemDoes
<1>7. CASE DeleteNvmeSubsystemRpc(w)
  <2>1. PICK a \in Call(DeleteSubsystem(fw, q)) : TakeAnswer(w, a, "unlist", q)
    BY <1>7 DEF DeleteNvmeSubsystemRpc
  <2>2. CASE /\ q \in fw.subs /\ \A o \in Objs : o.nqn # q
             /\ a.fw.subs = fw.subs \ {q}
             /\ a.fw.ctrls = fw.ctrls /\ a.fw.nss = fw.nss
             /\ a.ok = TRUE \/ (RpcFaults /\ a.ok = FALSE)
    <3>1. /\ fw'.subs = fw.subs \ {q} /\ fw'.ctrls = fw.ctrls /\ fw'.nss = fw.nss
          /\ a.fw # fw
      BY <2>1, <2>2 DEF TakeAnswer
    <3>2. Placed'
      BY <2>2, <3>1 DEF MInv, Matches, Placed, Objs
    <3>3. OthersKeep(k)
      BY <1>5, <3>1, Names DEF OthersKeep, Has, Objs
    <3>4. Loses(k, q)
      BY <1>2, <3>1, Names DEF Loses, Has, Objs
    <3>5. h[w].op \in DeleteOps
      BY <1>7 DEF DeleteNvmeSubsystemRpc, At
    <3> QED
      BY <1>1, <1>2, <2>1, <2>2, <3>1, <3>2, <3>3, <3>4, <3>5, ChangeMatches
  <2> QED
    BY <1>2, <1>3, <1>4, <2>1, <2>2, DeleteSubsystemDoes
<1> QED
  BY <1>6, <1>7

\* A controller is created, deleted or updated.
LEMMA ControllerRpcMatches ==
  ASSUME MInv, IInv', OwnNqns, IdsAgree, NEW w \in Worker,
         \/ CreateNvmeControllerRpc(w) \/ DeleteNvmeControllerRpc(w)
         \/ UpdateNvmeControllerRpc(w)
  PROVE  Matches'
<1>1. h[w].pc = "rpc" /\ h[w].op \in ControllerOps /\ Running(w) /\ FrameOwn(w)
  BY DEF CreateNvmeControllerRpc, DeleteNvmeControllerRpc, UpdateNvmeControllerRpc, At,
         Running, MInv, Matches
<1> SUFFICES ASSUME NEW k, k = h[w].key, NEW q, q = h[w].nqn, NEW i, i = h[w].obj
             PROVE  Matches'
  OBVIOUS
<1>2. k \in Controllers /\ q \in Nqns /\ fw \in Fw
  BY <1>1, RunningOn, NqnOwn DEF MInv, IInv, TypeOK, Fw
<1>3. ASSUME NEW a, NEW next, NEW obj, TakeAnswer(w, a, next, obj), a.fw = fw, ~a.ok
      PROVE  Matches'
  BY <1>1, <1>3, RefusedMatches
<1>4. CASE CreateNvmeControllerRpc(w)
  <2>1. PICK a \in Call(CreateCtrlr(fw, q, i, k)) : TakeAnswer(w, a, "list", a.val)
    BY <1>4 DEF CreateNvmeControllerRpc
  <2>2. fw' = a.fw /\ h[w].op = "CreateNvmeController"
    BY <1>4, <2>1 DEF TakeAnswer, CreateNvmeControllerRpc, At
  <2>3. \/ a.fw = fw /\ a.ok = FALSE
        \/ \E n : Adds(k, q, n) /\ ((a.ok = TRUE /\ a.val = n) \/ (RpcFaults /\ a.ok = FALSE))
    BY <1>2, <2>1, <2>2, CreateCtrlrDoes
  <2>4. ASSUME NEW n, Adds(k, q, n),
               (a.ok = TRUE /\ a.val = n) \/ (RpcFaults /\ a.ok = FALSE)
        PROVE  Matches'
    BY <1>1, <2>1, <2>2, <2>4, AddMatches
  <2> QED
    BY <1>3, <2>1, <2>3, <2>4
<1>5. CASE DeleteNvmeControllerRpc(w)
  <2>1. PICK a \in Call(RemoveCtrlr(fw, q, i)) : TakeAnswer(w, a, "unlist", i)
    BY <1>5 DEF DeleteNvmeControllerRpc
  <2>2. fw' = a.fw /\ h[w].op = "DeleteNvmeController"
    BY <1>5, <2>1 DEF TakeAnswer, DeleteNvmeControllerRpc, At
  <2>3. CASE Removes(k, q, i) /\ (a.ok = TRUE \/ (RpcFaults /\ a.ok = FALSE))
    <3>1. a.fw # fw
      BY <2>2, <2>3 DEF Removes
    <3> QED
      BY <1>1, <2>1, <2>2, <2>3, <3>1, RemoveMatches
  <2> QED
    BY <1>2, <1>3, <2>1, <2>2, <2>3, RemoveCtrlrDoes
<1>6. CASE UpdateNvmeControllerRpc(w)
  <2>1. PICK a \in Call(UpdateCtrlr(fw, q, i)) : TakeAnswer(w, a, "save", a.val)
    BY <1>6 DEF UpdateNvmeControllerRpc
  <2>2. UpdateEchoesId
    BY DEF IdsAgree
  <2>3. a.fw = fw /\ (a.ok => a.val = i /\ i \in CtrlrIds(fw, q))
    BY <2>1, <2>2, UpdateCtrlrDoes
  <2>4. CASE a.ok
    <3>1. i \in CtrlrNums
      BY <2>3, <2>4, ObjsTyped DEF CtrlrIds, MInv
    <3>2. i # autoCtrlrIDAllocation
      BY <3>1, MrvlNvmAssumption DEF MrvlNvmAssumption, autoCtrlrIDAllocation
    <3>3. h[w].op = "UpdateNvmeController" /\ i = store[k]
      BY <1>1, <1>6, <3>2 DEF UpdateNvmeControllerRpc, At, FrameOwn
    <3>4. TakeAnswer(w, a, "save", h[w].obj) /\ h[w].obj = store[h[w].key]
      BY <2>1, <2>3, <2>4, <3>3
    <3>5. SameObjects
      BY <2>1, <2>3 DEF TakeAnswer, SameObjects
    <3> QED
      BY <1>1, <2>3, <2>4, <3>3, <3>4, <3>5, TakeMatches
  <2> QED
    BY <1>3, <2>1, <2>3, <2>4
<1> QED
  BY <1>4, <1>5, <1>6

\* A namespace is created, attached, detached or deleted.
LEMMA NamespaceRpcMatches ==
  ASSUME MInv, IInv', OwnNqns, IdsAgree, NEW w \in Worker,
         \/ CreateNvmeNamespaceRpc(w) \/ CreateNvmeNamespaceAttach(w)
         \/ DeleteNvmeNamespaceRpc(w) \/ DeleteNvmeNamespaceDetach(w)
  PROVE  Matches'
<1>1. fw \in Fw
  BY DEF MInv, IInv, TypeOK, Fw
<1> SUFFICES ASSUME NEW k, k = h[w].key, NEW q, q = h[w].nqn, NEW i, i = h[w].obj
             PROVE  Matches'
  OBVIOUS
<1>2. ASSUME h[w].pc = "rpc", h[w].op \in NamespaceOps
      PROVE  k \in Namespaces /\ q \in Nqns
  BY <1>2, RunningOn, NqnOwn DEF MInv
<1>3. ASSUME NEW a, NEW next, NEW obj, TakeAnswer(w, a, next, obj), a.fw = fw, ~a.ok,
             h[w].pc = "rpc"
      PROVE  Matches'
  BY <1>3, RefusedMatches
<1>4. CASE CreateNvmeNamespaceRpc(w)
  <2>1. h[w].pc = "rpc" /\ h[w].op = "CreateNvmeNamespace"
    BY <1>4 DEF CreateNvmeNamespaceRpc, At
  <2>2. PICK a \in Call(AllocNs(fw, q, i, k)) : TakeAnswer(w, a, "range", i)
    BY <1>4 DEF CreateNvmeNamespaceRpc
  <2>3. fw' = a.fw
    BY <2>2 DEF TakeAnswer
  <2>4. CASE Adds(k, q, i) /\ (a.ok = TRUE \/ (RpcFaults /\ a.ok = FALSE))
    BY <2>1, <2>2, <2>4, AddMatches
  <2> QED
    BY <1>1, <1>2, <1>3, <2>1, <2>2, <2>3, <2>4, AllocNsDoes DEF IdsAgree
<1>5. CASE DeleteNvmeNamespaceRpc(w)
  <2>1. h[w].pc = "rpc" /\ h[w].op = "DeleteNvmeNamespace"
    BY <1>5 DEF DeleteNvmeNamespaceRpc, At
  <2>2. PICK a \in Call(UnallocNs(fw, q, i)) : TakeAnswer(w, a, "unlist", i)
    BY <1>5 DEF DeleteNvmeNamespaceRpc
  <2>3. fw' = a.fw
    BY <2>2 DEF TakeAnswer
  <2>4. CASE Removes(k, q, i) /\ (a.ok = TRUE \/ (RpcFaults /\ a.ok = FALSE))
    <3>1. a.fw # fw
      BY <2>3, <2>4 DEF Removes
    <3> QED
      BY <2>1, <2>2, <2>4, <3>1, RemoveMatches
  <2> QED
    BY <1>1, <1>2, <1>3, <2>1, <2>2, <2>3, <2>4, UnallocNsDoes
<1>6. CASE CreateNvmeNamespaceAttach(w) \/ DeleteNvmeNamespaceDetach(w)
  <2>1. h[w].pc = "call" /\ h[w].op \in NamespaceOps
    BY <1>6 DEF CreateNvmeNamespaceAttach, DeleteNvmeNamespaceDetach, At
  <2>2. PICK a \in Call(AttachNs(fw, q, h[w].ctl, i)) \cup Call(DetachNs(fw, q, h[w].ctl, i)) :
               TakeAnswer(w, a, "loop", h[w].obj)
    BY <1>6 DEF CreateNvmeNamespaceAttach, DeleteNvmeNamespaceDetach
  <2>3. fw' = a.fw
    BY <2>2 DEF TakeAnswer
  <2>4. Running(w)
    BY <2>1 DEF Running
  <2>5. q \in Nqns
    BY <2>1, <2>4, RunningTyped DEF MInv, IInv, TypeOK
  <2>6. SameObjects /\ a.ok \in BOOLEAN
    BY <1>1, <2>2, <2>3, <2>5, AttachmentsDo
  <2> QED
    BY <2>1, <2>2, <2>6, TakeMatches
<1> QED
  BY <1>4, <1>5, <1>6

---------------------------------------------------------------------------
(* The other steps.                                                        *)

\* A step that moves a handler on without a call.
LEMMA MoveMatches ==
  ASSUME MInv, IInv', NEW w \in Worker, NEW g, h' = [h EXCEPT ![w] = g],
         h[w].pc # "idle", UNCHANGED <<store, fw, cut>>,
         g.op = h[w].op, g.key = h[w].key, g.obj = h[w].obj, g.changed = h[w].changed,
         g.nqn = h[w].nqn \/ g.nqn = store[Parent[h[w].key]],
         g.op = "UpdateNvmeController" => g.pc # "save",
         g.op \in CreateOps \cup DeleteOps => (PastChange(g) <=> PastChange(h[w]))
  PROVE  Matches'
<1>1. /\ Running(w) /\ SameObjects /\ Exclusive'
      /\ h \in [Worker -> Frames] /\ h' \in [Worker -> Frames]
  BY DEF Running, SameObjects, MInv, IInv, TypeOK, HandlersOK, OneAtATime
<1>2. g \in Frames
  BY <1>1
<1> QED
  BY <1>1, <1>2, GoOnMatches

\* A handler gives up without a call.
LEMMA FailMatches ==
  ASSUME MInv, IInv', NEW w \in Worker, NEW code, h[w].pc # "idle",
         Return(w, code), UNCHANGED <<store, fw>>,
         h[w].op \in CreateOps \cup DeleteOps /\ PastChange(h[w]) =>
           /\ h[w].op \in CreateOps /\ code # "OK"
           /\ h[w].op \in NamespaceOps \/ RpcFaults
  PROVE  Matches'
<1>1. /\ Running(w) /\ SameObjects /\ Exclusive'
      /\ h[w].op \in CreateOps \cup DeleteOps /\ PastChange(h[w]) => h[w].changed
  BY DEF Running, SameObjects, MInv, IInv, OneAtATime, ChangesInOrder
<1> QED
  BY <1>1, ReturnMatches DEF Return

\* A handler that fetches its parent's record gets an NQN of the parent, or gives up.
LEMMA FetchMatches ==
  ASSUME MInv, IInv', NEW w \in Worker, NEW next \in {"rpc", "range"}, h[w].pc = "parent",
         next = "range" => h[w].op = "DeleteNvmeNamespace",
         FetchSubsystem(w, next)
  PROVE  Matches'
<1>1. h \in [Worker -> Frames]
  BY DEF MInv, IInv, TypeOK, HandlersOK
<1>2. CASE Return(w, "NotFound") \/ Return(w, "Failed")
  BY <1>2, FailMatches DEF FetchSubsystem, PastChange
<1> DEFINE q == store[Parent[h[w].key]]
           g == [h[w] EXCEPT !.nqn = q, !.pc = next]
<1>3. CASE h' = [h EXCEPT ![w].nqn = q, ![w].pc = next] /\ UNCHANGED <<reply, cut>>
  <2>1. h' = [h EXCEPT ![w] = g]
    BY <1>1, <1>3 DEF Frames
  <2>2. /\ g.pc = next /\ g.op = h[w].op /\ g.key = h[w].key /\ g.obj = h[w].obj
        /\ g.nqn = q /\ g.changed = h[w].changed
    BY <1>1 DEF Frames
  <2>3. ~PastChange(g) /\ ~PastChange(h[w])
    BY <2>2 DEF PastChange
  <2>4. UNCHANGED <<store, fw, cut>>
    BY <1>3 DEF FetchSubsystem
  <2> HIDE DEF g
  <2> QED
    BY <2>1, <2>2, <2>3, <2>4, MoveMatches
<1> QED
  BY <1>2, <1>3 DEF FetchSubsystem

\* A handler that only goes on.
LEMMA GotoMatches ==
  ASSUME MInv, IInv', NEW w \in Worker, NEW next, Goto(w, next), UNCHANGED <<store, fw>>,
         \/ h[w].pc = "scan" /\ next = "rpc" /\ h[w].op = "CreateNvmeSubsystem"
         \/ h[w].pc = "list" /\ next = "save" /\ h[w].op \in CreateOps
         \/ h[w].pc = "unlist" /\ next = "erase"
  PROVE  Matches'
<1>1. h \in [Worker -> Frames]
  BY DEF MInv, IInv, TypeOK, HandlersOK
<1> DEFINE g == [h[w] EXCEPT !.pc = next]
<1>2. h' = [h EXCEPT ![w] = g] /\ UNCHANGED <<store, fw, cut>>
  BY <1>1 DEF Frames, Goto
<1>3. /\ g.pc = next /\ g.op = h[w].op /\ g.key = h[w].key /\ g.obj = h[w].obj
      /\ g.nqn = h[w].nqn /\ g.changed = h[w].changed
  BY <1>1 DEF Frames
<1>4. PastChange(g) <=> PastChange(h[w])
  BY <1>3 DEF PastChange
<1>5. g.op = "UpdateNvmeController" => g.pc # "save"
  BY <1>3
<1> HIDE DEF g
<1> QED
  BY <1>2, <1>3, <1>4, <1>5, MoveMatches

\* The steps of a handler's loop over ListHelper.
LEMMA LoopMatches ==
  ASSUME MInv, IInv', NEW w \in Worker,
         CreateNvmeNamespaceLoop(w) \/ DeleteNvmeNamespaceLoop(w)
  PROVE  Matches'
<1>1. /\ h[w].op = "CreateNvmeNamespace" \/ h[w].op = "DeleteNvmeNamespace"
      /\ h[w].pc \in {"range", "loop", "get"}
      /\ h \in [Worker -> Frames]
  BY DEF CreateNvmeNamespaceLoop, DeleteNvmeNamespaceLoop, At, MInv, IInv, TypeOK, HandlersOK
<1>2. ASSUME NEW g, h' = [h EXCEPT ![w] = g], UNCHANGED <<store, fw, cut>>,
             g.op = h[w].op, g.key = h[w].key, g.obj = h[w].obj, g.nqn = h[w].nqn,
             g.changed = h[w].changed,
             \/ g.pc \in {"loop", "get", "call"}
             \/ h[w].op = "CreateNvmeNamespace" /\ g.pc = "list"
             \/ h[w].op = "DeleteNvmeNamespace" /\ g.pc = "rpc"
      PROVE  Matches'
  <2>1. PastChange(g) <=> PastChange(h[w])
    BY <1>1, <1>2 DEF PastChange
  <2> QED
    BY <1>1, <1>2, <2>1, MoveMatches
<1>3. CASE RangeControllers(w)
  <2> DEFINE g == [h[w] EXCEPT !.todo = ListedControllers(Root(h[w].key)), !.pc = "loop"]
  <2>1. h' = [h EXCEPT ![w] = g] /\ UNCHANGED <<store, fw, cut>>
    BY <1>1, <1>3 DEF RangeControllers, Frames
  <2>2. /\ g.pc = "loop" /\ g.op = h[w].op /\ g.key = h[w].key /\ g.obj = h[w].obj
        /\ g.nqn = h[w].nqn /\ g.changed = h[w].changed
    BY <1>1 DEF Frames
  <2> HIDE DEF g
  <2> QED
    BY <1>2, <2>1, <2>2
<1>4. ASSUME NEW next, PickController(w, next),
             \/ h[w].op = "CreateNvmeNamespace" /\ next = "list"
             \/ h[w].op = "DeleteNvmeNamespace" /\ next = "rpc"
      PROVE  Matches'
  <2>1. UNCHANGED <<store, fw, cut>>
    BY <1>4 DEF PickController
  <2>2. ASSUME NEW c,
               h' = [h EXCEPT ![w].seen = @ \cup {c}, ![w].cur = c, ![w].pc = "get"]
        PROVE  Matches'
    <3> DEFINE g == [h[w] EXCEPT !.seen = @ \cup {c}, !.cur = c, !.pc = "get"]
    <3>1. h' = [h EXCEPT ![w] = g]
      BY <1>1, <2>2 DEF Frames
    <3>2. /\ g.pc = "get" /\ g.op = h[w].op /\ g.key = h[w].key /\ g.obj = h[w].obj
          /\ g.nqn = h[w].nqn /\ g.changed = h[w].changed
      BY <1>1 DEF Frames
    <3> HIDE DEF g
    <3> QED
      BY <1>2, <2>1, <3>1, <3>2
  <2>3. CASE h' = [h EXCEPT ![w].pc = next, ![w].cur = None, ![w].ctl = None,
                            ![w].todo = {}, ![w].seen = {}]
    <3> DEFINE g == [h[w] EXCEPT !.pc = next, !.cur = None, !.ctl = None,
                                 !.todo = {}, !.seen = {}]
    <3>1. h' = [h EXCEPT ![w] = g]
      BY <1>1, <2>3 DEF Frames
    <3>2. /\ g.pc = next /\ g.op = h[w].op /\ g.key = h[w].key /\ g.obj = h[w].obj
          /\ g.nqn = h[w].nqn /\ g.changed = h[w].changed
      BY <1>1 DEF Frames
    <3> HIDE DEF g
    <3> QED
      BY <1>2, <1>4, <2>1, <3>1, <3>2
  <2> QED
    BY <1>4, <2>2, <2>3 DEF PickController
<1>5. CASE GetController(w)
  <2>1. CASE Return(w, "NotFound") \/ Return(w, "Failed")
    BY <1>1, <1>5, <2>1, FailMatches DEF GetController, PastChange
  <2> DEFINE id == store[h[w].cur]
             g == [h[w] EXCEPT !.ctl = id, !.pc = "call"]
  <2>2. CASE h' = [h EXCEPT ![w].ctl = id, ![w].pc = "call"] /\ UNCHANGED <<reply, cut>>
    <3>1. h' = [h EXCEPT ![w] = g] /\ UNCHANGED <<store, fw, cut>>
      BY <1>1, <1>5, <2>2 DEF GetController, Frames
    <3>2. /\ g.pc = "call" /\ g.op = h[w].op /\ g.key = h[w].key /\ g.obj = h[w].obj
          /\ g.nqn = h[w].nqn /\ g.changed = h[w].changed
      BY <1>1 DEF Frames
    <3> HIDE DEF g
    <3> QED
      BY <1>2, <3>1, <3>2
  <2> QED
    BY <1>5, <2>1, <2>2 DEF GetController
<1> QED
  BY <1>3, <1>4, <1>5 DEF CreateNvmeNamespaceLoop, DeleteNvmeNamespaceLoop, At

\* Every step of a running handler.
LEMMA HandleMatches ==
  ASSUME MInv, IInv', OwnNqns, IdsAgree, NEW w \in Worker, Handle(w)
  PROVE  Matches'
<1>1. CASE ScanNqns(w)
  <2>1. CASE Return(w, "Failed")
    BY <1>1, <2>1, FailMatches DEF ScanNqns, At, PastChange
  <2>2. CASE Goto(w, "rpc")
    BY <1>1, <2>2, GotoMatches DEF ScanNqns, At
  <2> QED
    BY <1>1, <2>1, <2>2 DEF ScanNqns
<1>2. CASE CreateNvmeSubsystemList(w)
  <2>1. CASE RpcFaults /\ Return(w, "Failed") /\ UNCHANGED <<store, ListHelper, fw>>
    BY <1>2, <2>1, FailMatches DEF CreateNvmeSubsystemList, At
  <2>2. CASE ListName(w)
    BY <1>2, <2>2, GotoMatches DEF CreateNvmeSubsystemList, At, ListName
  <2> QED
    BY <1>2, <2>1, <2>2 DEF CreateNvmeSubsystemList
<1>3. CASE \/ CreateNvmeControllerParent(w) \/ DeleteNvmeControllerParent(w)
           \/ UpdateNvmeControllerParent(w) \/ CreateNvmeNamespaceParent(w)
           \/ DeleteNvmeNamespaceParent(w)
  <2>1. /\ h[w].pc = "parent"
        /\ \/ FetchSubsystem(w, "rpc")
           \/ h[w].op = "DeleteNvmeNamespace" /\ FetchSubsystem(w, "range")
    BY <1>3 DEF CreateNvmeControllerParent, DeleteNvmeControllerParent,
       UpdateNvmeControllerParent, CreateNvmeNamespaceParent, DeleteNvmeNamespaceParent, At
  <2> QED
    BY <2>1, FetchMatches
<1>4. CASE CreateNvmeControllerList(w) \/ CreateNvmeNamespaceList(w)
  BY <1>4, GotoMatches DEF CreateNvmeControllerList, CreateNvmeNamespaceList, At, ListName
<1>5. CASE \/ DeleteNvmeSubsystemUnlist(w) \/ DeleteNvmeControllerUnlist(w)
           \/ DeleteNvmeNamespaceUnlist(w)
  BY <1>5, GotoMatches DEF DeleteNvmeSubsystemUnlist, DeleteNvmeControllerUnlist,
     DeleteNvmeNamespaceUnlist, At, UnlistName
<1>6. CASE CreateNvmeNamespaceLoop(w) \/ DeleteNvmeNamespaceLoop(w)
  BY <1>6, LoopMatches
<1>7. Exclusive'
  BY DEF IInv, OneAtATime
<1>8. CASE \/ CreateNvmeSubsystemSave(w) \/ CreateNvmeControllerSave(w)
           \/ CreateNvmeNamespaceSave(w)
  <2>1. h[w].op \in CreateOps /\ h[w].pc = "save" /\ WriteStore(w, h[w].obj)
    BY <1>8 DEF CreateNvmeSubsystemSave, CreateNvmeControllerSave, CreateNvmeNamespaceSave, At
  <2> QED
    BY <1>7, <2>1, WriteMatches
<1>9. CASE \/ DeleteNvmeSubsystemErase(w) \/ DeleteNvmeControllerErase(w)
           \/ DeleteNvmeNamespaceErase(w)
  <2>1. h[w].op \in DeleteOps /\ h[w].pc = "erase" /\ WriteStore(w, None)
    BY <1>9 DEF DeleteNvmeSubsystemErase, DeleteNvmeControllerErase,
       DeleteNvmeNamespaceErase, At
  <2> QED
    BY <1>7, <2>1, WriteMatches
<1>10. CASE UpdateNvmeControllerSave(w)
  BY <1>7, <1>10, WriteMatches DEF UpdateNvmeControllerSave
<1> QED
  BY <1>1, <1>2, <1>3, <1>4, <1>5, <1>6, <1>8, <1>9, <1>10, SubsystemRpcMatches,
     ControllerRpcMatches, NamespaceRpcMatches DEF Handle

\* A request arrives.
LEMMA RequestMatches ==
  ASSUME MInv, IInv', IdsAgree, NEW w \in Worker, Request(w)
  PROVE  Matches'
<1> USE DEF Keys, Children
<1>1. Exclusive' /\ h' \in [Worker -> Frames]
  BY DEF IInv, OneAtATime, TypeOK, HandlersOK
<1>2. ASSUME NEW op \in MutatingOps, NEW k \in Keys, NEW pc \in {"scan", "parent", "rpc"},
             NEW obj, Receives(w, op, k), Start(w, op, k, pc, obj),
             op = "CreateNvmeNamespace" => pc = "parent",
             op \in SubsystemOps => obj \in NqnOf[k],
             op \in DeleteOps => obj = store[k],
             op = "UpdateNvmeController" => obj \in {store[k], autoCtrlrIDAllocation},
             UNCHANGED <<store, ListHelper, fw>>
      PROVE  Matches'
  BY <1>1, <1>2, StartMatches DEF Receives
<1>3. ASSUME NEW code, Answer(w, code), UNCHANGED <<store, ListHelper, fw>>
      PROVE  Matches'
  BY <1>3, StutterMatches DEF Answer, MInv
<1>4. ASSUME NEW s \in Subsystems,
             \/ \E q \in NqnOf[s] : CreateNvmeSubsystem(w, s, q)
             \/ \E m \in BOOLEAN : DeleteNvmeSubsystem(w, s, m)
             \/ UpdateNvmeSubsystem(w, s)
      PROVE  Matches'
  <2>1. store[s] # None => store[s] \in NqnOf[s]
    BY DEF MInv, Matches, StoreOwn
  <2> QED
    BY <1>2, <1>3, <1>4, <2>1 DEF CreateNvmeSubsystem, DeleteNvmeSubsystem, UpdateNvmeSubsystem
<1>5. ASSUME NEW c \in Controllers,
             \/ \E id \in CtrlrNums \cup {autoCtrlrIDAllocation} : CreateNvmeController(w, c, id)
             \/ \E m \in BOOLEAN : DeleteNvmeController(w, c, m)
             \/ UpdateNvmeController(w, c)
      PROVE  Matches'
  <2>1. CASE \/ \E id \in CtrlrNums \cup {autoCtrlrIDAllocation} : CreateNvmeController(w, c, id)
             \/ \E m \in BOOLEAN : DeleteNvmeController(w, c, m)
    BY <1>2, <1>3, <2>1 DEF CreateNvmeController, DeleteNvmeController
  <2>2. CASE UpdateNvmeController(w, c)
    <3>1. UpdateIds(c) = {store[c], autoCtrlrIDAllocation}
      BY DEF UpdateIds, IdsAgree
    <3> QED
      BY <1>2, <1>3, <2>2, <3>1 DEF UpdateNvmeController
  <2> QED
    BY <1>5, <2>1, <2>2
<1>6. ASSUME NEW n \in Namespaces,
             \/ \E i \in NsNums : CreateNvmeNamespace(w, n, i)
             \/ \E m \in BOOLEAN : DeleteNvmeNamespace(w, n, m)
             \/ UpdateNvmeNamespace(w, n)
      PROVE  Matches'
  BY <1>2, <1>3, <1>6 DEF CreateNvmeNamespace, DeleteNvmeNamespace, UpdateNvmeNamespace
<1> QED
  BY <1>4, <1>5, <1>6 DEF Request

---------------------------------------------------------------------------
(* What the steps of the handlers do to the application's objects.         *)

\* A handler's step leaves the objects as they are or makes the one change its
\* request is for.
LEMMA ObjectSteps ==
  ASSUME MInv, IdsAgree, NEW w \in Worker, Handle(w)
  PROVE  \/ SameObjects
         \/ /\ At(w, "CreateNvmeSubsystem", "rpc") /\ fw'.subs = fw.subs \cup {h[w].obj}
            /\ fw'.ctrls = fw.ctrls /\ fw'.nss = fw.nss
         \/ /\ At(w, "DeleteNvmeSubsystem", "rpc") /\ fw'.subs = fw.subs \ {h[w].obj}
            /\ fw'.ctrls = fw.ctrls /\ fw'.nss = fw.nss
            /\ \A o \in Objs : o.nqn # h[w].obj
         \/ \E n : Adds(h[w].key, h[w].nqn, n)
         \/ At(w, "DeleteNvmeController", "rpc") /\ Removes(h[w].key, h[w].nqn, h[w].obj)
         \/ At(w, "DeleteNvmeNamespace", "rpc") /\ Removes(h[w].key, h[w].nqn, h[w].obj)
<1>1. fw \in Fw
  BY DEF MInv, IInv, TypeOK, Fw
<1>2. CASE UNCHANGED fw
  BY <1>2 DEF SameObjects
<1>3. CASE CreateNvmeSubsystemRpc(w) \/ DeleteNvmeSubsystemRpc(w)
  <2>1. h[w].op \in SubsystemOps /\ Running(w)
    BY <1>3 DEF CreateNvmeSubsystemRpc, DeleteNvmeSubsystemRpc, At, Running
  <2>2. h[w].obj \in Nqns
    BY <2>1, RunningTyped DEF MInv, IInv, TypeOK
  <2>3. CASE CreateNvmeSubsystemRpc(w)
    <3>1. PICK a \in Call(CreateSubsystem(fw, h[w].obj)) : fw' = a.fw
      BY <2>3 DEF CreateNvmeSubsystemRpc, TakeAnswer
    <3> QED
      BY <1>1, <1>2, <2>2, <2>3, <3>1, CreateSubsystemDoes DEF CreateNvmeSubsystemRpc
  <2>4. CASE DeleteNvmeSubsystemRpc(w)
    <3>1. PICK a \in Call(DeleteSubsystem(fw, h[w].obj)) : fw' = a.fw
      BY <2>4 DEF DeleteNvmeSubsystemRpc, TakeAnswer
    <3> QED
      BY <1>1, <1>2, <2>2, <2>4, <3>1, DeleteSubsystemDoes DEF DeleteNvmeSubsystemRpc
  <2> QED
    BY <1>3, <2>3, <2>4
<1>4. CASE \/ CreateNvmeControllerRpc(w) \/ DeleteNvmeControllerRpc(w)
           \/ UpdateNvmeControllerRpc(w)
  <2>1. h[w].op \in ControllerOps /\ h[w].pc = "rpc" /\ Running(w)
    BY <1>4 DEF CreateNvmeControllerRpc, DeleteNvmeControllerRpc, UpdateNvmeControllerRpc,
       At, Running
  <2>2. h[w].nqn \in Nqns /\ h[w].key \in Controllers
    BY <2>1, RunningTyped DEF MInv, IInv, TypeOK
  <2>3. CASE CreateNvmeControllerRpc(w)
    <3>1. PICK a \in Call(CreateCtrlr(fw, h[w].nqn, h[w].obj, h[w].key)) : fw' = a.fw
      BY <2>3 DEF CreateNvmeControllerRpc, TakeAnswer
    <3> QED
      BY <1>1, <1>2, <2>2, <3>1, CreateCtrlrDoes
  <2>4. CASE DeleteNvmeControllerRpc(w)
    <3>1. PICK a \in Call(RemoveCtrlr(fw, h[w].nqn, h[w].obj)) : fw' = a.fw
      BY <2>4 DEF DeleteNvmeControllerRpc, TakeAnswer
    <3> QED
      BY <1>1, <1>2, <2>2, <2>4, <3>1, RemoveCtrlrDoes DEF DeleteNvmeControllerRpc
  <2>5. CASE UpdateNvmeControllerRpc(w)
    <3>1. PICK a \in Call(UpdateCtrlr(fw, h[w].nqn, h[w].obj)) : fw' = a.fw
      BY <2>5 DEF UpdateNvmeControllerRpc, TakeAnswer
    <3> QED
      BY <1>2, <3>1, UpdateCtrlrDoes DEF IdsAgree
  <2> QED
    BY <1>4, <2>3, <2>4, <2>5
<1>5. CASE CreateNvmeNamespaceRpc(w) \/ DeleteNvmeNamespaceRpc(w)
  <2>1. h[w].op \in NamespaceOps /\ h[w].pc = "rpc" /\ Running(w)
    BY <1>5 DEF CreateNvmeNamespaceRpc, DeleteNvmeNamespaceRpc, At, Running
  <2>2. h[w].nqn \in Nqns /\ h[w].key \in Namespaces
    BY <2>1, RunningTyped DEF MInv, IInv, TypeOK
  <2>3. CASE CreateNvmeNamespaceRpc(w)
    <3>1. PICK a \in Call(AllocNs(fw, h[w].nqn, h[w].obj, h[w].key)) : fw' = a.fw
      BY <2>3 DEF CreateNvmeNamespaceRpc, TakeAnswer
    <3> QED
      BY <1>1, <1>2, <2>2, <3>1, AllocNsDoes DEF IdsAgree
  <2>4. CASE DeleteNvmeNamespaceRpc(w)
    <3>1. PICK a \in Call(UnallocNs(fw, h[w].nqn, h[w].obj)) : fw' = a.fw
      BY <2>4 DEF DeleteNvmeNamespaceRpc, TakeAnswer
    <3> QED
      BY <1>1, <1>2, <2>2, <2>4, <3>1, UnallocNsDoes DEF DeleteNvmeNamespaceRpc
  <2> QED
    BY <1>5, <2>3, <2>4
<1>6. CASE CreateNvmeNamespaceAttach(w) \/ DeleteNvmeNamespaceDetach(w)
  <2>1. PICK a \in Call(AttachNs(fw, h[w].nqn, h[w].ctl, h[w].obj))
                     \cup Call(DetachNs(fw, h[w].nqn, h[w].ctl, h[w].obj)) : fw' = a.fw
    BY <1>6 DEF CreateNvmeNamespaceAttach, DeleteNvmeNamespaceDetach, TakeAnswer
  <2> QED
    BY <1>1, <2>1, AttachmentsDo
<1> QED
  BY <1>2, <1>3, <1>4, <1>5, <1>6 DEF Handle,
     ScanNqns, CreateNvmeSubsystemList, CreateNvmeSubsystemSave,
     DeleteNvmeSubsystemUnlist, DeleteNvmeSubsystemErase, CreateNvmeControllerParent,
     CreateNvmeControllerList, CreateNvmeControllerSave, DeleteNvmeControllerParent,
     DeleteNvmeControllerUnlist, DeleteNvmeControllerErase, UpdateNvmeControllerParent,
     UpdateNvmeControllerSave, CreateNvmeNamespaceParent, CreateNvmeNamespaceLoop,
     CreateNvmeNamespaceList, CreateNvmeNamespaceSave, DeleteNvmeNamespaceParent,
     DeleteNvmeNamespaceLoop, DeleteNvmeNamespaceUnlist, DeleteNvmeNamespaceErase,
     FetchSubsystem, ListName, UnlistName, WriteStore, RangeControllers, PickController,
     GetController

---------------------------------------------------------------------------
(* Theorems.                                                               *)

\* At the start there is nothing to disagree about.
LEMMA MirrorInit == Init => Matches
<1> SUFFICES ASSUME Init PROVE Matches
  OBVIOUS
<1> USE DEF Init, EmptyFw, IdleFrame
<1>1. Placed /\ StoreOwn /\ CutNamespaces
  BY Names DEF Placed, Objs, StoreOwn, CutNamespaces
<1>2. \A w \in Worker : FrameOwn(w)
  BY DEF FrameOwn, Running
<1>3. Agree
  BY Names DEF Agree, AgreeAt, Expects, Past, Has, Objs
<1> QED
  BY <1>1, <1>2, <1>3 DEF Matches

\* What is added to IInv is kept by every step.
LEMMA MirrorStep ==
  ASSUME MInv, IInv', OwnNqns, IdsAgree, [Next]_vars
  PROVE  Matches'
<1>1. CASE UNCHANGED vars
  BY <1>1, StutterMatches DEF vars, MInv
<1>2. CASE Next
  BY <1>2, RequestMatches, HandleMatches, RestartMatches DEF Next
<1> QED
  BY <1>1, <1>2

\* Every state of every behaviour matches.
LEMMA AlwaysMatches ==
  ASSUME \A k \in Keys : k \in Conflicts[k], OwnNqns, IdsAgree
  PROVE  Spec => []MInv
<1>1. IInv /\ [Next]_vars => IInv'
  BY StepInOrder, WaitingMakesAlone
<1>2. MInv /\ [Next]_vars => MInv'
  BY <1>1, MirrorStep DEF MInv
<1>3. Init => MInv
  BY MirrorInit, InitInOrder DEF MInv
<1> QED
  BY <1>2, <1>3, PTL DEF Spec

\* What is known of a settled name and of its subsystem.
LEMMA SettledAgrees ==
  ASSUME MInv, OwnNqns, NEW k \in Keys, Settled(k), NEW j \in {k, Root(k)}
  PROVE  \A v \in Values : Has(j, v) <=> store[j] # None /\ store[j] = v
<1>1. j \in Keys /\ Root(k) \in Subsystems /\ Root(j) = Root(k)
  BY Names
<1>2. Root(k) \in Mates(Root(k))
  BY <1>1 DEF OwnNqns, Mates
<1>3. Intact(Root(j)) /\ Uncut(j)
  BY <1>1, <1>2 DEF Settled, Intact, Clean, Uncut
<1>4. \A v : Expects(j, v) <=> store[j] # None /\ store[j] = v
  BY DEF Settled, Expects, Past
<1> QED
  BY <1>1, <1>3, <1>4 DEF MInv, Matches, Agree, AgreeAt

\* What is expected of settled names is what Mirrored says.
LEMMA MatchesMirrors ==
  ASSUME MInv, OwnNqns
  PROVE  Mirrored
<1>1. ASSUME NEW s \in Subsystems, Settled(s), store[s] # None
      PROVE  store[s] \in fw.subs
  <2>1. store[s] \in Values
    BY <1>1 DEF MInv, IInv, TypeOK, StoreOK, Values
  <2> QED
    BY <1>1, <2>1, Names, SettledAgrees DEF Has
<1>2. ASSUME NEW q \in fw.subs, \A s \in Subsystems : q \in NqnOf[s] => Settled(s)
      PROVE  Cardinality({s \in Subsystems : store[s] = q}) = 1
  <2>1. PICK s \in Subsystems : q \in NqnOf[s]
    BY DEF MInv, Matches, Placed
  <2>2. q \in Nqns /\ q # None /\ q \in Values
    BY FrontendAssumption DEF FrontendAssumption, MInv, IInv, TypeOK, FwStates, Values
  <2>3. store[s] = q
    BY <1>2, <2>1, <2>2, Names, SettledAgrees DEF Has
  <2>4. \A t \in Subsystems : store[t] = q => t = s
    BY <2>1, <2>2 DEF MInv, Matches, StoreOwn, OwnNqns
  <2>5. {t \in Subsystems : store[t] = q} = {s}
    BY <2>3, <2>4
  <2> QED
    BY <2>5, FS_Singleton
<1>3. ASSUME NEW k \in Children, Settled(k)
      PROVE  Objects(k) = IF store[k] = None THEN {}
                          ELSE {[nqn |-> store[Parent[k]], id |-> store[k]]}
  <2>1. k \in Keys /\ Root(k) = Parent[k] /\ Parent[k] \in Subsystems /\ k \notin Subsystems
    BY Names
  <2>2. ASSUME NEW o \in Objs, o.owner = k
        PROVE  store[k] # None /\ o.id = store[k] /\ o.nqn = store[Parent[k]]
    <3>1. o.id \in Values /\ o.nqn \in Values
      BY ObjsTyped DEF MInv, Objs, Values
    <3>2. Has(k, o.id) /\ Has(Parent[k], o.nqn)
      BY <2>1, <2>2 DEF Has, MInv, Matches, Placed
    <3> QED
      BY <1>3, <2>1, <3>1, <3>2, SettledAgrees
  <2>3. ASSUME store[k] # None
        PROVE  \E o \in Objs : o.owner = k
    <3>1. store[k] \in Values
      BY <2>1, <2>3 DEF MInv, IInv, TypeOK, StoreOK, Values
    <3>2. Has(k, store[k])
      BY <1>3, <2>1, <2>3, <3>1, SettledAgrees
    <3> QED
      BY <2>1, <3>2 DEF Has
  <2>4. Objects(k) = {[nqn |-> o.nqn, id |-> o.id] : o \in {p \in Objs : p.owner = k}}
    BY DEF Objects, Objs
  <2>5. CASE store[k] = None
    BY <2>2, <2>4, <2>5
  <2>6. CASE store[k] # None
    BY <2>2, <2>3, <2>4, <2>6
  <2> QED
    BY <2>5, <2>6
<1> QED
  BY <1>1, <1>2, <1>3 DEF Mirrored

\* For any number of names, clients, faults and restarts: when clients wait for
\* their own requests on a name, give each subsystem NQNs of its own, and the ids
\* of the requests are the ones the application uses, the application has for every
\* name that no request is working on or gave up on exactly what its record says.
THEOREM RecordsMirrored ==
  ASSUME \A k \in Keys : k \in Conflicts[k], OwnNqns, IdsAgree
  PROVE  Spec => []Mirrored
<1>1. MInv => Mirrored
  BY MatchesMirrors
<1> QED
  BY <1>1, AlwaysMatches, PTL

\* Where nothing fails, an object leaves the application by a delete of its own
\* name only, whatever the requests on other names, even in the same subsystem, do
\* between the delete's first look at its record and its call.
THEOREM OwnRemovalsOnly ==
  ASSUME \A k \in Keys : k \in Conflicts[k], OwnNqns, IdsAgree, Faultless
  PROVE  Spec => NoForeignRemoval
<1> DEFINE Kept == \A o \in fw.ctrls \cup fw.nss :
             o \notin fw'.ctrls \cup fw'.nss
               => \E w \in Worker : h[w].op \in DeleteOps /\ h[w].key = o.owner
<1>1. ASSUME fw'.ctrls \cup fw'.nss = fw.ctrls \cup fw.nss
      PROVE  Kept
  BY <1>1
<1>2. ASSUME MInv, NEW w \in Worker, h[w].pc = "rpc", Removes(h[w].key, h[w].nqn, h[w].obj),
             \/ h[w].op = "DeleteNvmeController" /\ h[w].key \notin Namespaces
             \/ h[w].op = "DeleteNvmeNamespace" /\ h[w].key \notin Controllers
      PROVE  Kept
  <2> SUFFICES ASSUME NEW o \in Objs, o \notin fw'.ctrls \cup fw'.nss
               PROVE  o.owner = h[w].key
    BY <1>2 DEF Objs
  <2>1. o.nqn = h[w].nqn /\ o.id = h[w].obj
    BY <1>2 DEF Removes, Objs
  <2>2. \/ h[w].op = "DeleteNvmeController" /\ o \in fw.ctrls
        \/ h[w].op = "DeleteNvmeNamespace" /\ o \in fw.nss
    BY <1>2 DEF Removes, Objs
  <2>3. Intact(Parent[o.owner])
    BY DEF Intact
  <2> QED
    BY <1>2, <2>1, <2>2, <2>3, RemovesOwn
<1>3. ASSUME MInv, NEW w \in Worker, Handle(w)
      PROVE  Kept
  <2>1. CASE fw'.ctrls = fw.ctrls /\ fw'.nss = fw.nss
    BY <1>1, <2>1
  <2>2. CASE \E n : Adds(h[w].key, h[w].nqn, n)
    BY <2>2 DEF Adds
  <2>3. CASE \/ At(w, "DeleteNvmeController", "rpc") /\ Removes(h[w].key, h[w].nqn, h[w].obj)
             \/ At(w, "DeleteNvmeNamespace", "rpc") /\ Removes(h[w].key, h[w].nqn, h[w].obj)
    <3>1. /\ h[w].op = "DeleteNvmeController" => h[w].key \in Controllers
          /\ h[w].op = "DeleteNvmeNamespace" => h[w].key \in Namespaces
      BY <1>3, <2>3, RunningOn DEF At, Running, MInv
    <3> QED
      BY <1>2, <1>3, <2>3, <3>1, FrontendAssumption DEF FrontendAssumption, At
  <2> QED
    BY <1>3, <2>1, <2>2, <2>3, ObjectSteps DEF SameObjects
<1>4. ASSUME NEW w \in Worker, Request(w)
      PROVE  UNCHANGED fw
  BY <1>4 DEF Request, CreateNvmeSubsystem, DeleteNvmeSubsystem, UpdateNvmeSubsystem,
     CreateNvmeController, DeleteNvmeController, UpdateNvmeController,
     CreateNvmeNamespace, DeleteNvmeNamespace, UpdateNvmeNamespace
<1>5. MInv /\ [Next]_vars => [Kept]_vars
  BY <1>3, <1>4 DEF Next, Restart
<1> QED
  BY <1>5, AlwaysMatches, PTL DEF Spec, NoForeignRemoval

\* An update that has the record's id in hand leaves the record as it is, and so do
\* the steps of the others while it is about to save.
LEMMA UpdateWritesBack ==
  ASSUME IInv, NEW w \in Worker, At(w, "UpdateNvmeController", "save"), [Next]_vars,
         h[w].obj = store[h[w].key]
  PROVE  store'[h[w].key] = store[h[w].key]
<1>1. h[w].key \in Keys
  BY RunningOn DEF At, Running
<1>2. CASE UNCHANGED store
  BY <1>2
<1>3. ASSUME NEW v \in Worker, Handle(v), v # w
      PROVE  store'[h[w].key] = store[h[w].key]
  <2>1. /\ Running(v) /\ Running(w) /\ StaysOn(v)
    BY <1>3, StepsOwnFrame, StepsOwnName DEF IInv, TypeOK, HandlersOK, At, Running
  <2>2. h[v].key # h[w].key
    BY <1>3, <2>1 DEF IInv, OneAtATime, Exclusive
  <2> QED
    BY <1>1, <2>1, <2>2 DEF StaysOn
<1>4. CASE Handle(w)
  <2>1. UpdateNvmeControllerSave(w)
    BY <1>4 DEF Handle, At, ScanNqns, CreateNvmeSubsystemRpc, CreateNvmeSubsystemList,
       CreateNvmeSubsystemSave,
       DeleteNvmeSubsystemRpc, DeleteNvmeSubsystemUnlist, DeleteNvmeSubsystemErase,
       CreateNvmeControllerParent, CreateNvmeControllerRpc, CreateNvmeControllerList,
       CreateNvmeControllerSave, DeleteNvmeControllerParent, DeleteNvmeControllerRpc,
       DeleteNvmeControllerUnlist, DeleteNvmeControllerErase, UpdateNvmeControllerParent,
       UpdateNvmeControllerRpc, CreateNvmeNamespaceParent, CreateNvmeNamespaceRpc,
       CreateNvmeNamespaceLoop, CreateNvmeNamespaceAttach, CreateNvmeNamespaceList,
       CreateNvmeNamespaceSave, DeleteNvmeNamespaceParent, DeleteNvmeNamespaceLoop,
       DeleteNvmeNamespaceDetach, DeleteNvmeNamespaceRpc, DeleteNvmeNamespaceUnlist,
       DeleteNvmeNamespaceErase
  <2>2. store \in [Keys -> Nqns \cup CtrlrNums \cup NsNums \cup {None}]
    BY DEF IInv, TypeOK, StoreOK
  <2> QED
    BY <1>1, <2>1, <2>2 DEF UpdateNvmeControllerSave, WriteStore
<1>5. ASSUME NEW v \in Worker, Request(v)
      PROVE  UNCHANGED store
  BY <1>5 DEF Request, CreateNvmeSubsystem, DeleteNvmeSubsystem, UpdateNvmeSubsystem,
     CreateNvmeController, DeleteNvmeController, UpdateNvmeController,
     CreateNvmeNamespace, DeleteNvmeNamespace, UpdateNvmeNamespace
<1> QED
  BY <1>2, <1>3, <1>4, <1>5 DEF Next, Restart, vars

\* Where nothing fails, an update of a controller saves the id the controller has
\* in the application: the record it saved over is the one that led it there.
THEOREM UpdateSavesId ==
  ASSUME \A k \in Keys : k \in Conflicts[k], OwnNqns, IdsAgree, Faultless
  PROVE  Spec => UpdateKeepsId
<1> DEFINE Known(w) == \E o \in fw.ctrls : o.owner = h[w].key /\ o.id = store'[h[w].key]
<1>1. ASSUME MInv, NEW w \in Worker, At(w, "UpdateNvmeController", "save")
      PROVE  /\ h[w].key \in Controllers /\ h[w].obj = store[h[w].key]
             /\ \E o \in fw.ctrls : o.owner = h[w].key /\ o.id = store[h[w].key]
  <2>1. Running(w)
    BY <1>1 DEF At, Running
  <2>2. /\ h[w].key \in Controllers /\ h[w].key \in Keys /\ h[w].key \in Children
        /\ h[w].obj = store[h[w].key] /\ store[h[w].key] # None
    BY <1>1, <2>1, RunningOn DEF MInv, Matches, FrameOwn, At, Children,
       IInv, OneAtATime, ReadStaysTrue
  <2>3. Expects(h[w].key, store[h[w].key]) /\ store[h[w].key] \in Values
    <3>1. ~Past(w, h[w].key)
      BY <1>1 DEF Past, At
    <3> QED
      BY <1>1, <2>1, <2>2, <3>1, ExpectsRecord DEF MInv, IInv, TypeOK, StoreOK, Values
  <2>4. Has(h[w].key, store[h[w].key])
    BY <1>1, <2>2, <2>3 DEF MInv, Matches, Agree, AgreeAt, Intact
  <2>5. PICK o \in Objs : o.owner = h[w].key /\ o.id = store[h[w].key]
    BY <2>2, <2>4, Names DEF Has
  <2>6. o \in fw.ctrls
    BY <1>1, <2>2, <2>5, FrontendAssumption
       DEF FrontendAssumption, Objs, MInv, IInv, TypeOK, FwStates
  <2> QED
    BY <2>2, <2>5, <2>6
<1>2. MInv /\ [Next]_vars =>
        [\A w \in Worker :
           At(w, "UpdateNvmeController", "save") /\ reply'[w] = "OK" => Known(w)]_vars
  BY <1>1, UpdateWritesBack DEF MInv
<1> QED
  BY <1>2, AlwaysMatches, PTL DEF Spec, UpdateKeepsId
=============================================================================
