--------------------------- MODULE GatewayProofs ---------------------------
(* Theorems about Gateway, for every value of its constants.               *)
EXTENDS Gateway, FrontendShared

---------------------------------------------------------------------------

\* A step of the process is a step of the Server or leaves it alone.
LEMMA ProcessSteps ==
  ASSUME [GatewayNext]_<<vars, process>>
  PROVE  [Next]_vars
<1>1. CASE UNCHANGED <<vars, process>>
  BY <1>1
<1>2. CASE OpenStore \/ Listen \/ Serve \/ ServeFails \/ CloseStore \/ GatewayServes
  BY <1>2 DEF OpenStore, Listen, Serve, ServeFails, CloseStore, GatewayServes
<1>3. CASE Exit \/ Killed \/ GatewayFails
  BY <1>3 DEF Exit, Killed, GatewayFails, Ends, Next
<1>4. ASSUME NEW w \in Worker, Send(w) \/ HandleServed(w) \/ GiveUp(w)
      PROVE  [Next]_vars
  BY <1>4 DEF Send, HandleServed, GiveUp, Next
<1> QED
  BY <1>1, <1>2, <1>3, <1>4 DEF GatewayNext

\* The process around the Server adds no behaviour to it: every step of main, of
\* the gateway and of the clients is a step of Frontend or none, the end of the
\* process is its Restart, and a closed store is a store that fails.
THEOREM ProcessRunsServer == GatewaySpec => ServerSpec
<1>1. GatewayInit => Init
  BY DEF GatewayInit
<1>2. [GatewayNext]_<<vars, process>> => [Next]_vars
  BY ProcessSteps
<1> QED
  BY <1>1, <1>2, PTL DEF GatewaySpec, ServerSpec, Spec
---------------------------------------------------------------------------
(* The handlers and the two goroutines of the process.                     *)

\* The state before main has opened its store.
LEMMA ProcessInitTyped == GatewayInit => GatewayTypeOK
  BY DEF GatewayInit, GatewayTypeOK, MainPhases, GatewayPhases, Init, Running, IdleFrame

\* A running handler has a request of the kinds that change something.
LEMMA RunningRequest ==
  ASSUME TypeOK, NEW w \in Worker, Running(w)
  PROVE  <<h[w].op, h[w].key>> \in MutatingOps \X Keys
  BY DEF TypeOK, HandlersOK, FrameOK, Running, IdleFrame, MutatingOps, Keys, Children

\* Every step of the process keeps the type invariant.
LEMMA ProcessStepTyped ==
  ASSUME TypeOK, GatewayTypeOK, [GatewayNext]_<<vars, process>>
  PROVE  GatewayTypeOK'
<1> USE DEF GatewayTypeOK, MainPhases, GatewayPhases, Running, Served
<1>1. h \in [Worker -> Frames]
  BY DEF TypeOK, HandlersOK
<1>2. CASE UNCHANGED <<vars, process>>
  BY <1>2 DEF vars, process
<1>3. CASE OpenStore \/ Listen \/ Serve \/ ServeFails \/ CloseStore \/ GatewayServes
  BY <1>3 DEF OpenStore, Listen, Serve, ServeFails, CloseStore, GatewayServes, MainGoes, vars
<1>4. CASE Exit \/ Killed \/ GatewayFails
  BY <1>4 DEF Exit, Killed, GatewayFails, Ends, Restart, IdleFrame
<1>5. ASSUME NEW w \in Worker, Send(w) PROVE GatewayTypeOK'
  BY <1>1, <1>5, ArrivesAlone DEF Send
<1>6. ASSUME NEW w \in Worker, HandleServed(w) PROVE GatewayTypeOK'
  BY <1>1, <1>6, StepsOwnFrame DEF HandleServed
<1>7. ASSUME NEW w \in Worker, GiveUp(w) PROVE GatewayTypeOK'
  <2>1. <<h[w].op, h[w].key>> \in MutatingOps \X Keys
    BY <1>7, RunningRequest DEF GiveUp
  <2> QED
    BY <1>7, <2>1 DEF GiveUp, vars
<1> QED
  BY <1>2, <1>3, <1>4, <1>5, <1>6, <1>7 DEF GatewayNext

\* The two goroutines live and die together, handlers run only where a gRPC server
\* was started, and a client waits only for a handler that runs.
THEOREM ProcessTypeCorrect == GatewaySpec => []GatewayTypeOK
<1>1. TypeOK /\ GatewayTypeOK /\ [GatewayNext]_<<vars, process>> => GatewayTypeOK'
  BY ProcessStepTyped
<1>2. GatewaySpec => []TypeOK
  BY ProcessRunsServer, TypeCorrect DEF ServerSpec
<1> QED
  BY <1>1, <1>2, ProcessInitTyped, PTL DEF GatewaySpec
---------------------------------------------------------------------------
(* The order in which one name is handled.                                 *)

\* Until an answer comes late, a client waits for every handler that runs.
Ordered == late = {} => OneAtATime /\ \A w \in Worker : Running(w) => w \in waiting

\* At first no handler runs.
LEMMA ProcessInitOrdered == GatewayInit => Ordered
  BY InitInOrder DEF GatewayInit, Ordered, IInv, Init, Running, IdleFrame

\* A client sends its next request after an answer, so only a late answer lets two meet.
LEMMA ProcessStepOrdered ==
  ASSUME TypeOK, GatewayTypeOK, Ordered, [GatewayNext]_<<vars, process>>
  PROVE  Ordered'
<1> SUFFICES ASSUME late' = {}
             PROVE  OneAtATime' /\ \A w \in Worker : Running(w)' => w \in waiting'
  BY DEF Ordered
<1> USE DEF Running
<1>1. late = {}
  BY DEF GatewayNext, OpenStore, Listen, Serve, ServeFails, CloseStore, GatewayServes,
     Exit, Killed, GatewayFails, Ends, Send, HandleServed, GiveUp, process
<1>2. IInv /\ h \in [Worker -> Frames] /\ \A w \in Worker : Running(w) => w \in waiting
  BY <1>1 DEF IInv, Ordered, TypeOK, HandlersOK
<1>3. CASE UNCHANGED <<vars, process>>
  BY <1>2, <1>3, StutterInOrder DEF vars, process
<1>4. CASE OpenStore \/ Listen \/ Serve \/ ServeFails \/ CloseStore \/ GatewayServes
  <2>1. UNCHANGED vars /\ UNCHANGED waiting
    BY <1>4 DEF OpenStore, Listen, Serve, ServeFails, CloseStore, GatewayServes
  <2> QED
    BY <1>2, <2>1, StutterInOrder DEF vars
<1>5. CASE Exit \/ Killed \/ GatewayFails
  <2>1. Restart
    BY <1>5 DEF Exit, Killed, GatewayFails, Ends
  <2> QED
    BY <1>2, <2>1, RestartInOrder DEF Restart, IdleFrame
<1>6. ASSUME NEW w \in Worker, Send(w)
      PROVE  OneAtATime' /\ \A v \in Worker : Running(v)' => v \in waiting'
  <2>1. Alone(w)
    BY <1>2, <1>6 DEF Send, Alone
  <2> QED
    BY <1>2, <1>6, <2>1, RequestInOrder, ArrivesAlone DEF Send
<1>7. ASSUME NEW w \in Worker, HandleServed(w)
      PROVE  OneAtATime' /\ \A v \in Worker : Running(v)' => v \in waiting'
  BY <1>2, <1>7, HandleInOrder, StepsOwnFrame DEF HandleServed
<1>8. ASSUME NEW w \in Worker, GiveUp(w)
      PROVE  FALSE
  BY <1>8 DEF GiveUp
<1> QED
  BY <1>3, <1>4, <1>5, <1>6, <1>7, <1>8 DEF GatewayNext

\* For any number of requests and clients, and whatever fails or is killed: a name
\* is handled by one request at a time, with all that HandledOneAtATime says of it,
\* as long as no answer was late.  No assumption on Conflicts is needed: that clients
\* wait for their answers is what orders the requests.
THEOREM OrderedUntilLate == GatewaySpec => []OneAtATimeUntilLate
<1>1. TypeOK /\ GatewayTypeOK /\ Ordered /\ [GatewayNext]_<<vars, process>> => Ordered'
  BY ProcessStepOrdered
<1>2. GatewaySpec => []TypeOK
  BY ProcessRunsServer, TypeCorrect DEF ServerSpec
<1>3. Ordered => OneAtATimeUntilLate
  BY DEF Ordered, OneAtATimeUntilLate
<1> QED
  BY <1>1, <1>2, <1>3, ProcessTypeCorrect, ProcessInitOrdered, PTL DEF GatewaySpec

\* So do the records and the application agree, through failed calls, a closed store
\* and the end of the process, as long as no answer was late: what RecordsMirrored
\* assumes of the clients' waiting follows from how they send requests.
THEOREM MirroredUntilLate ==
  ASSUME OwnNqns, IdsAgree
  PROVE  GatewaySpec => [](late = {} => Mirrored)
<1> DEFINE Agrees == late = {} => Matches
<1>1. GatewayInit => Agrees
  BY MirrorInit DEF GatewayInit
<1>2. /\ TypeOK /\ GatewayTypeOK /\ Ordered /\ Agrees /\ TypeOK'
      /\ [GatewayNext]_<<vars, process>>
      => Agrees'
  <2> SUFFICES ASSUME TypeOK, GatewayTypeOK, Ordered, Agrees, TypeOK',
                      [GatewayNext]_<<vars, process>>, late' = {}
               PROVE  Matches'
    OBVIOUS
  <2>1. late = {}
    BY DEF GatewayNext, OpenStore, Listen, Serve, ServeFails, CloseStore, GatewayServes,
       Exit, Killed, GatewayFails, Ends, Send, HandleServed, GiveUp, process
  <2>2. MInv /\ IInv'
    BY <2>1, ProcessStepOrdered DEF MInv, IInv, Ordered
  <2> QED
    BY <2>2, ProcessSteps, MirrorStep
<1>3. TypeOK /\ Ordered /\ Agrees => (late = {} => Mirrored)
  BY MatchesMirrors DEF MInv, IInv, Ordered
<1>4. GatewaySpec => []TypeOK
  BY ProcessRunsServer, TypeCorrect DEF ServerSpec
<1>5. TypeOK /\ GatewayTypeOK /\ Ordered /\ [GatewayNext]_<<vars, process>> => Ordered'
  BY ProcessStepOrdered
<1> QED
  BY <1>1, <1>2, <1>3, <1>4, <1>5, ProcessTypeCorrect, ProcessInitOrdered, PTL
     DEF GatewaySpec

---------------------------------------------------------------------------
(* What an answer that comes late can break, and what it cannot: the       *)
(* inductive invariant behind LateHarmsOwnName.                            *)

\* No answer about name k was late.
Timely(k) == \A r \in late : r[2] # k

\* A client waits for every handler but those whose answer was late, and no two
\* clients wait for the same name.
Queued ==
  /\ \A w \in Worker : Running(w) => w \in waiting \/ <<h[w].op, h[w].key>> \in late
  /\ \A v, w \in waiting : h[v].key = h[w].key => v = w

\* On a name without late answers, what a handler read is still so.
Solo(w) ==
  Running(w) /\ Timely(h[w].key) =>
    /\ store[h[w].key] = None <=> h[w].op \in CreateOps
    /\ h[w].op \in DeleteOps =>
         h[w].obj = store[h[w].key] /\ (h[w].pc = "erase" => h[w].key \notin ListHelper)
    /\ h[w].op = "UpdateNvmeController" =>
         /\ h[w].obj \in {store[h[w].key], autoCtrlrIDAllocation}
         /\ h[w].pc = "save" => h[w].obj = store[h[w].key]
    /\ h[w].op \in CreateOps /\ h[w].pc = "save" => h[w].key \in ListHelper

\* ListHelper and the records of such a name, as ListedOrStaged has it.
Staged(k) ==
  Timely(k) =>
    \/ \E r \in cut : r[2] = k
    \/ \E w \in Worker : Past(w, k) /\ h[w].pc \in {"save", "erase"}
    \/ /\ k \in ListHelper => store[k] # None
       /\ ~Restarts /\ store[k] # None => k \in ListHelper

\* No request that failed or was answered late is about s, and no such delete or
\* update is about a name below it; none is about k.
Whole(s) == \A r \in cut \cup Stale : r[2] # s /\ (r[1] \in DeleteOps => Root(r[2]) # s)
Clear(k) == \A r \in cut \cup Stale : r[2] # k

\* A create of k has added v and not returned yet; a delete has removed it.
Made(w, k, v)   == Past(w, k) /\ h[w].op \in CreateOps /\ h[w].obj = v
Unmade(w, k, v) == Past(w, k) /\ h[w].op \in DeleteOps /\ h[w].obj = v

\* The record of k stands for v.
Recorded(k, v) == store[k] = v /\ v # None /\ \A w \in Worker : ~Unmade(w, k, v)

\* A handler of k relies on v being there: it has added it, or will delete it or
\* save it again.
Wants(w, k, v) ==
  \/ Made(w, k, v)
  \/ /\ Running(w) /\ h[w].key = k /\ h[w].obj = v
     /\ \/ h[w].op \in DeleteOps /\ ~PastChange(h[w])
        \/ h[w].op = "UpdateNvmeController" /\ v # autoCtrlrIDAllocation

Claims(k, v) == Recorded(k, v) \/ \E w \in Worker : Wants(w, k, v)

\* What is claimed for a name is there; what a create has added nobody else claims,
\* however many creates of one name run beside each other; and what is there is
\* claimed unless a request on the name failed or was late.
Fits(k) ==
  Whole(Root(k)) => \A v \in Values :
    /\ Claims(k, v) => Has(k, v)
    /\ \A w \in Worker : Made(w, k, v) =>
         ~Recorded(k, v) /\ \A u \in Worker \ {w} : ~Wants(u, k, v)
    /\ Clear(k) /\ Has(k, v) => Claims(k, v)

LInv ==
  /\ TypeOK /\ GatewayTypeOK /\ Queued /\ Placed /\ StoreOwn
  /\ \A w \in Worker : Tidy(w) /\ Solo(w)
  /\ \A k \in Keys : Staged(k) /\ Fits(k)

\* A handler at work: no other handler, and no client, does anything.
Works(w) == Acts(w) /\ UNCHANGED late

USE DEF Works

\* The requests that failed or were late only become more.
LEMMA HistoryGrows ==
  ASSUME cut \subseteq cut', late \subseteq late'
  PROVE  /\ \A k \in Keys : Timely(k)' => Timely(k)
         /\ \A k \in Keys : Clear(k)' => Clear(k)
         /\ \A k \in Keys : Whole(k)' => Whole(k)
<1>1. Stale \subseteq Stale'
  BY DEF Stale
<1> QED
  BY <1>1 DEF Timely, Clear, Whole

\* What counts as cut short for a request that was late.
LEMMA StaleHas ==
  ASSUME NEW r \in late
  PROVE  IF r[1] = "UpdateNvmeController" THEN <<"DeleteNvmeController", r[2]>> \in Stale
                                          ELSE r \in Stale
<1> DEFINE s(p) == IF p[1] = "UpdateNvmeController" THEN <<"DeleteNvmeController", p[2]>> ELSE p
<1>1. s(r) \in {s(p) : p \in late}
  OBVIOUS
<1>2. s(r) \in Stale
  BY <1>1, Zenon DEF Stale
<1> QED
  BY <1>2

\* A request that was late or failed is about its name and its subsystem.
LEMMA WholeIsClear ==
  ASSUME NEW k \in Keys
  PROVE  /\ Clear(k) => Timely(k)
         /\ k \in Subsystems /\ Whole(k) => Clear(k)
<1>1. ASSUME NEW r \in late
      PROVE  \E p \in Stale : p[2] = r[2]
  BY <1>1, StaleHas
<1> QED
  BY <1>1 DEF Clear, Timely, Whole

\* On a name without late answers one handler runs at a time.
LEMMA TimelyAlone ==
  ASSUME Queued, NEW v \in Worker, NEW w \in Worker, Running(v), Running(w),
         h[v].key = h[w].key, Timely(h[w].key)
  PROVE  v = w
<1>1. ASSUME NEW u \in Worker, Running(u), h[u].key = h[w].key
      PROVE  u \in waiting
  BY <1>1 DEF Queued, Timely
<1> QED
  BY <1>1 DEF Queued

\* In a subsystem without late deletes and updates, a client waits for every handler
\* that is not a create.
LEMMA ChangesWaited ==
  ASSUME TypeOK, Queued, NEW w \in Worker, Running(w), h[w].op \notin CreateOps,
         Whole(Root(h[w].key))
  PROVE  w \in waiting
<1>1. h[w].op \in DeleteOps \/ h[w].op = "UpdateNvmeController"
  BY RunningTyped DEF TypeOK, MutatingOps, SubsystemOps, ControllerOps, NamespaceOps,
     CreateOps, DeleteOps
<1>2. SUFFICES ASSUME <<h[w].op, h[w].key>> \in late
               PROVE  FALSE
  BY DEF Queued
<1>3. \E op \in DeleteOps : <<op, h[w].key>> \in Stale
  <2>1. CASE h[w].op \in DeleteOps
    BY <1>2, <2>1, StaleHas DEF DeleteOps
  <2>2. CASE h[w].op = "UpdateNvmeController"
    BY <1>2, <2>2, StaleHas DEF DeleteOps
  <2> QED
    BY <1>1, <2>1, <2>2
<1> QED
  BY <1>3 DEF Whole

\* So at most one of them runs on a name.
LEMMA OneChange ==
  ASSUME TypeOK, Queued, NEW v \in Worker, NEW w \in Worker, Running(v), Running(w),
         h[v].op \notin CreateOps, h[w].op \notin CreateOps,
         h[v].key = h[w].key, Whole(Root(h[w].key))
  PROVE  v = w
  BY ChangesWaited DEF Queued

\* Clients wait for the handlers that run, in their order.
LEMMA WorksQueued ==
  ASSUME TypeOK, GatewayTypeOK, Queued, NEW w \in Worker, Works(w),
         waiting' = IF Running(w)' THEN waiting ELSE waiting \ {w}
  PROVE  Queued'
<1>1. Running(w)' => h'[w].op = h[w].op /\ h'[w].key = h[w].key
  BY ActsOnName
<1>2. \A v \in Worker : Running(v)' =>
        /\ Running(v) /\ h'[v].op = h[v].op /\ h'[v].key = h[v].key
        /\ v \in waiting => v \in waiting'
  BY <1>1 DEF Acts, Running
<1>3. \A v \in waiting' : v \in waiting /\ v \in Worker /\ h'[v].key = h[v].key
  BY <1>1 DEF Acts, GatewayTypeOK
<1> QED
  BY <1>2, <1>3 DEF Queued, Acts

\* On a name without late answers, what a handler read stays so.
LEMMA WorksSolo ==
  ASSUME LInv, TypeOK', NEW w \in Worker, Works(w), NEW v \in Worker
  PROVE  Solo(v)'
<1>1. /\ TypeOK /\ Queued /\ Solo(w) /\ Solo(v) /\ Running(w)
      /\ h[w].key \in Keys /\ (h[v].key \in Keys \/ ~Running(v))
  BY RunningTyped DEF LInv, Acts, TypeOK
<1>2. \A k : Timely(k)' <=> Timely(k)
  BY DEF Acts, Timely
<1>3. CASE v # w
  <2> SUFFICES ASSUME Running(v)', Timely(h'[v].key)
               PROVE  Solo(v)'
    BY <1>2 DEF Solo
  <2>1. Running(v) /\ h'[v] = h[v] /\ h[v].key # h[w].key
    BY <1>1, <1>3, TimelyAlone DEF Acts, Running
  <2>2. h[v].key \in Keys
    BY <2>1, RunningTyped, <1>1 DEF TypeOK
  <2>3. /\ store'[h[v].key] = store[h[v].key]
        /\ h[v].key \in ListHelper' <=> h[v].key \in ListHelper
    BY <1>1, <2>1, <2>2, ActsOnName
  <2> QED
    BY <1>1, <1>2, <2>1, <2>3 DEF Solo
<1>4. CASE v = w
  <2> SUFFICES ASSUME Running(w)', Timely(h[w].key)
               PROVE  Solo(w)'
    BY <1>1, <1>2, <1>4, ActsOnName DEF Solo
  <2>1. UNCHANGED store /\ h'[w].op = h[w].op /\ h'[w].key = h[w].key
    BY <1>1, ActsOnName DEF Running, IdleFrame
  <2>2. CASE GoesOn(w)
    <3>1. h'[w].obj = h[w].obj
      BY <2>2 DEF GoesOn
    <3>2. h[w].op = "UpdateNvmeController" /\ h'[w].pc = "save" => h[w].obj # autoCtrlrIDAllocation
      <4>1. h[w].op = "UpdateNvmeController" /\ h'[w].pc = "save" => h'[w].obj \in CtrlrNums
        BY <2>1 DEF TypeOK, HandlersOK, FrameOK, IdleFrame, SubsystemOps, ControllerOps,
           NamespaceOps
      <4> QED
        BY <3>1, <4>1, MrvlNvmAssumption DEF MrvlNvmAssumption, autoCtrlrIDAllocation
    <3>3. /\ h[w].op \in CreateOps /\ h'[w].pc = "save" => h[w].key \in ListHelper'
          /\ h[w].op \in DeleteOps /\ h'[w].pc = "erase" => h[w].key \notin ListHelper'
      BY <2>2 DEF GoesOn
    <3> QED
      BY <1>1, <2>1, <3>1, <3>2, <3>3 DEF Solo
  <2>3. CASE /\ Alters(w) /\ h'[w].pc \notin {"save", "erase"}
             /\ Effect(w, h'[w].obj)
    <3>1. h[w].op \in DeleteOps => h'[w].obj = h[w].obj
      BY <2>3 DEF Effect, CreateOps, DeleteOps
    <3>2. h[w].op # "UpdateNvmeController"
      BY <2>3 DEF Alters, CreateOps, DeleteOps
    <3> QED
      BY <1>1, <2>1, <2>3, <3>1, <3>2 DEF Solo
  <2> QED
    BY <2>2, <2>3 DEF Acts, GivesUp, Alters, Writes, Running, IdleFrame
<1> QED
  BY <1>3, <1>4

\* The record of a name that is settled or staged without late answers is in
\* ListHelper, whatever a handler does.
LEMMA WorksStaged ==
  ASSUME LInv, TypeOK', NEW w \in Worker, Works(w), NEW k \in Keys
  PROVE  Staged(k)'
<1>1. /\ TypeOK /\ Queued /\ Solo(w) /\ Tidy(w) /\ Staged(k) /\ Running(w)
      /\ \A j : Timely(j)' <=> Timely(j)
  BY DEF LInv, Acts, Timely
<1> SUFFICES ASSUME Timely(k), \A r \in cut : r[2] # k, \A r \in cut' : r[2] # k
             PROVE  \/ \E u \in Worker : Past(u, k)' /\ h'[u].pc \in {"save", "erase"}
                    \/ /\ k \in ListHelper' => store'[k] # None
                       /\ ~Restarts /\ store'[k] # None => k \in ListHelper'
  BY <1>1, ActsOnName DEF Staged
<1>2. ASSUME NEW u \in Worker, u # w, Past(u, k), h[u].pc \in {"save", "erase"}
      PROVE  Past(u, k)' /\ h'[u].pc \in {"save", "erase"}
  BY <1>2 DEF Acts, Past
<1>3. \/ \E u \in Worker : Past(u, k) /\ h[u].pc \in {"save", "erase"}
      \/ /\ k \in ListHelper => store[k] # None
         /\ ~Restarts /\ store[k] # None => k \in ListHelper
  BY <1>1 DEF Staged
<1>4. ASSUME Noted(w), h[w].key = k
      PROVE  FALSE
  <2>1. <<h[w].op, k>> \in cut' /\ <<h[w].op, k>>[2] = k
    BY <1>4 DEF Noted
  <2> QED
    BY <2>1
<1>5. CASE ~(Past(w, k) /\ h[w].pc \in {"save", "erase"}) /\ UNCHANGED ListHelper
           /\ (store'[k] = None <=> store[k] = None)
  BY <1>2, <1>3, <1>5
<1>6. CASE h[w].key # k
  <2>1. ~Past(w, k)
    BY <1>6 DEF Past
  <2>2. store'[k] = store[k] /\ (k \in ListHelper' <=> k \in ListHelper)
    BY <1>1, <1>6, ActsOnName
  <2> QED
    BY <1>2, <1>3, <2>1, <2>2
<1>7. CASE h[w].key = k
  <2>1. CASE GoesOn(w)
    <3>1. ~(Past(w, k) /\ h[w].pc \in {"save", "erase"}) /\ UNCHANGED store
      BY <2>1 DEF GoesOn, Past
    <3>2. CASE UNCHANGED ListHelper
      BY <1>5, <3>1, <3>2
    <3>3. CASE ~UNCHANGED ListHelper
      <4>1. /\ h[w].op \in CreateOps \cup DeleteOps /\ h'[w].pc \in {"save", "erase"}
            /\ h'[w].op = h[w].op /\ h'[w].key = k
        BY <1>7, <2>1, <3>3 DEF GoesOn
      <4>2. Past(w, k)'
        BY <4>1 DEF Past, PastChange
      <4> QED
        BY <4>1, <4>2
    <3> QED
      BY <3>2, <3>3
  <2>2. CASE GivesUp(w) \/ Alters(w)
    <3>1. ~(Past(w, k) /\ h[w].pc \in {"save", "erase"}) /\ UNCHANGED <<store, ListHelper>>
      BY <2>2 DEF GivesUp, Alters, Past
    <3> QED
      BY <1>5, <3>1
  <2>3. CASE Writes(w)
    <3>1. PICK value :
            /\ UNCHANGED ListHelper
            /\ \/ store' = [store EXCEPT ![k] = value]
               \/ UNCHANGED store /\ ~h[w].changed
            /\ \/ h[w].op \in CreateOps /\ h[w].pc = "save" /\ value = h[w].obj
               \/ h[w].op \in DeleteOps /\ h[w].pc = "erase" /\ value = None
               \/ At(w, "UpdateNvmeController", "save") /\ value = h[w].obj
      BY <1>4, <1>7, <2>3 DEF Writes
    <3>2. Running(w) /\ store' = [store EXCEPT ![k] = value] => store'[k] = value
      BY <1>1 DEF TypeOK, StoreOK
    <3>3. h[w].op \in CreateOps \cup DeleteOps /\ h[w].pc \in {"save", "erase"}
            => store' = [store EXCEPT ![k] = value]
      BY <1>1, <1>7, <3>1 DEF Tidy, Past, PastChange
    <3>4. h[w].pc = "save" => h[w].obj # None
      <4>1. h[w].pc = "save" => h[w].obj \in Nqns \cup CtrlrNums \cup NsNums
        BY <1>1, RunningTyped DEF TypeOK, MutatingOps
      <4> QED
        BY <4>1, NumsAreInts, FrontendAssumption DEF FrontendAssumption
    <3>5. CASE h[w].op \in CreateOps /\ h[w].pc = "save" /\ value = h[w].obj
      <4>1. k \in ListHelper
        BY <1>1, <1>7, <3>5 DEF Solo
      <4> QED
        BY <3>1, <3>2, <3>3, <3>4, <3>5, <4>1, <1>1
    <3>6. CASE h[w].op \in DeleteOps /\ h[w].pc = "erase" /\ value = None
      <4>1. k \notin ListHelper
        BY <1>1, <1>7, <3>6 DEF Solo
      <4> QED
        BY <3>1, <3>2, <3>3, <3>6, <4>1, <1>1
    <3>7. CASE At(w, "UpdateNvmeController", "save") /\ value = h[w].obj
      <4>1. store[k] # None
        BY <1>1, <1>7, <3>7 DEF Solo, At, CreateOps
      <4>2. store'[k] # None
        BY <1>1, <3>1, <3>2, <3>4, <3>7, <4>1 DEF At
      <4>3. ~Past(w, k)
        BY <3>7 DEF Past, At, CreateOps, DeleteOps
      <4> QED
        BY <1>5, <3>1, <4>1, <4>2, <4>3
    <3> QED
      BY <3>1, <3>5, <3>6, <3>7
  <2> QED
    BY <2>1, <2>2, <2>3 DEF Acts
<1> QED
  BY <1>6, <1>7

\* A handler that is on no or another name has made, removed and wants nothing of k.
LEMMA OffName ==
  ASSUME NEW w \in Worker, NEW k, ~Running(w) \/ h[w].key # k, NEW v
  PROVE  ~Made(w, k, v) /\ ~Unmade(w, k, v) /\ ~Wants(w, k, v)
  BY DEF Made, Unmade, Wants, Past, PastChange, Running

\* A name without late answers is claimed for one value only.
LEMMA ClaimsOne ==
  ASSUME LInv, NEW k \in Keys, Timely(k), NEW p, NEW q, Claims(k, p), Claims(k, q)
  PROVE  p = q
<1>1. Queued /\ \A w \in Worker : Solo(w)
  BY DEF LInv
<1>2. ASSUME NEW w \in Worker, NEW v, Wants(w, k, v)
      PROVE  Running(w) /\ h[w].key = k /\ h[w].obj = v /\ (store[k] # None => store[k] = v)
  <2>1. Running(w) /\ h[w].key = k
    BY <1>2, OffName
  <2> QED
    BY <1>1, <1>2, <2>1 DEF Wants, Made, Past, Solo
<1>3. ASSUME NEW w \in Worker, NEW v \in Worker, Wants(w, k, p), Wants(v, k, q)
      PROVE  p = q
  <2>1. v = w
    BY <1>1, <1>2, <1>3, TimelyAlone
  <2> QED
    BY <1>2, <1>3, <2>1
<1> QED
  BY <1>2, <1>3 DEF Claims, Recorded

\* So a subsystem without late answers has one NQN in the application.
LEMMA OneNqnWhole ==
  ASSUME LInv, NEW s \in Subsystems, Whole(s),
         NEW p \in fw.subs \cap NqnOf[s], NEW q \in fw.subs \cap NqnOf[s]
  PROVE  p = q
<1>1. s \in Keys /\ Root(s) = s /\ Clear(s) /\ Timely(s)
  BY Names, WholeIsClear
<1>2. Has(s, p) /\ Has(s, q) /\ p \in Values /\ q \in Values
  BY FrontendAssumption DEF Has, Values, FrontendAssumption
<1>3. Claims(s, p) /\ Claims(s, q)
  BY <1>1, <1>2 DEF LInv, Fits
<1> QED
  BY <1>1, <1>3, ClaimsOne

\* What a delete is about to remove is its own, or of a subsystem that is not whole.
LEMMA RemovesTidy ==
  ASSUME LInv, OwnNqns, NEW w \in Worker, h[w].pc = "rpc", h[w].op \in DeleteOps \ SubsystemOps,
         NEW o \in Objs, o.nqn = h[w].nqn, o.id = h[w].obj, Whole(Root(o.owner)),
         (h[w].key \in Controllers /\ o \in fw.ctrls) \/ (h[w].key \in Namespaces /\ o \in fw.nss)
  PROVE  o.owner = h[w].key
<1> DEFINE k == h[w].key
           v == h[w].obj
<1>1. TypeOK /\ Placed /\ Tidy(w)
  BY DEF LInv
<1>2. Running(w) /\ k \in Children /\ h[w].nqn \in NqnOf[Root(k)] /\ k \in Keys
  BY <1>1, NqnTidy, Names
<1>3. o.owner \in Children /\ v \in Values /\ o.nqn \in fw.subs \cap NqnOf[Root(o.owner)]
  BY <1>1, ObjsKinds, Names DEF Objs, Values, Placed, Children
<1>4. Root(o.owner) = Root(k)
  BY <1>2, <1>3, Names DEF OwnNqns
<1>5. Wants(w, k, v)
  BY <1>2 DEF Wants, Past, PastChange
<1>6. Has(k, v)
  BY <1>2, <1>3, <1>4, <1>5 DEF LInv, Fits, Claims
<1>7. PICK p \in Objs : /\ p.owner = k /\ p.id = v /\ p.nqn \in fw.subs \cap NqnOf[Root(k)]
                        /\ k \in Controllers => p \in fw.ctrls
                        /\ k \in Namespaces => p \in fw.nss
  BY <1>1, <1>2, <1>6, HasThere
<1>8. p.nqn = o.nqn
  BY <1>2, <1>3, <1>4, <1>7, Names, OneNqnWhole
<1>9. p = o
  BY <1>1, <1>7, <1>8 DEF Placed
<1> QED
  BY <1>7, <1>9

\* A call leaves the objects of the other names alone.
LEMMA OthersHave ==
  ASSUME LInv, OwnNqns, NEW w \in Worker, Running(w), h[w].pc = "rpc", NEW n, Effect(w, n),
         NEW j \in Keys, j # h[w].key, Whole(Root(j)), NEW v \in Values
  PROVE  Has(j, v)' <=> Has(j, v)
<1>1. TypeOK /\ Tidy(w)
  BY DEF LInv
<1>2. CASE h[w].op \in SubsystemOps
  <2>1. h[w].key \in Subsystems /\ n = h[w].obj /\ n \in NqnOf[h[w].key]
        /\ fw'.ctrls = fw.ctrls /\ fw'.nss = fw.nss
        /\ (fw'.subs = fw.subs \cup {n} \/ fw'.subs = fw.subs \ {n})
    BY <1>1, <1>2, RunningTyped DEF TypeOK, Tidy, Effect
  <2>2. j \in Subsystems => n \notin NqnOf[j]
    BY <2>1 DEF OwnNqns
  <2> QED
    BY <2>1, <2>2, Names DEF Has, Objs
<1>3. CASE h[w].op \in CreateOps \ SubsystemOps /\ Adds(h[w].key, h[w].nqn, n)
  <2>1. fw'.subs = fw.subs
    BY <1>3 DEF Adds
  <2>2. \A o : o.owner = j => (o \in Objs' <=> o \in Objs)
    BY <1>3 DEF Adds, Objs
  <2> QED
    BY <2>1, <2>2 DEF Has
<1>4. CASE h[w].op \in DeleteOps \ SubsystemOps /\ n = h[w].obj /\ Removes(h[w].key, h[w].nqn, n)
  <2>1. fw'.subs = fw.subs
    BY <1>4 DEF Removes
  <2>2. ASSUME j \in Children, NEW o, o.owner = j
        PROVE  o \in Objs' <=> o \in Objs
    <3>1. ASSUME o \in Objs, o \notin Objs'
          PROVE  FALSE
      <4>1. /\ o.nqn = h[w].nqn /\ o.id = h[w].obj
            /\ \/ h[w].key \in Controllers /\ o \in fw.ctrls
               \/ h[w].key \in Namespaces /\ o \in fw.nss
        BY <1>4, <3>1 DEF Removes, Objs
      <4>2. o.owner = h[w].key
        BY <1>4, <2>2, <3>1, <4>1, RemovesTidy
      <4> QED
        BY <2>2, <4>2
    <3> QED
      BY <1>4, <3>1 DEF Removes, Objs
  <2> QED
    BY <2>1, <2>2, Names DEF Has
<1> QED
  BY <1>2, <1>3, <1>4 DEF Effect, SubsystemOps

\* A create adds what its name did not have.
LEMMA CreateHas ==
  ASSUME LInv, NEW w \in Worker, Running(w), h[w].pc = "rpc", h[w].op \in CreateOps,
         NEW n, Effect(w, n), NEW k, h[w].key = k, Whole(Root(k))
  PROVE  /\ n \in Values /\ n # None /\ ~Has(k, n)
         /\ \A v : Has(k, v)' <=> Has(k, v) \/ v = n
<1>1. TypeOK /\ Placed /\ Tidy(w) /\ k \in Keys
  BY RunningTyped DEF LInv, TypeOK
<1>2. CASE h[w].op \in SubsystemOps
  <2>1. k \in Subsystems /\ n = h[w].obj /\ n \in NqnOf[k]
        /\ fw'.subs = fw.subs \cup {n} /\ n \notin fw.subs
    BY <1>1, <1>2, RunningTyped DEF TypeOK, Tidy, Effect, SubsystemOps, CreateOps, DeleteOps
  <2>2. n \in Nqns
    BY <2>1, FrontendAssumption DEF FrontendAssumption
  <2> QED
    BY <2>1, <2>2, Names, FrontendAssumption DEF Has, Values, FrontendAssumption
<1>3. CASE Adds(k, h[w].nqn, n) /\ h[w].op \notin SubsystemOps
  <2> DEFINE o == [nqn |-> h[w].nqn, id |-> n, owner |-> k]
  <2>1. k \in Children /\ h[w].nqn \in fw.subs \cap NqnOf[Root(k)] /\ Root(k) \in Subsystems
    BY <1>1, <1>3, NqnTidy, Names DEF Adds
  <2>2. n \in Values /\ n # None
    BY <1>3, NumsAreInts, FrontendAssumption DEF Adds, Values, FrontendAssumption
  <2>3. ~Has(k, n)
    <3>1. SUFFICES ASSUME Has(k, n)
                   PROVE  FALSE
      OBVIOUS
    <3>2. PICK p \in Objs : /\ p.owner = k /\ p.id = n /\ p.nqn \in fw.subs \cap NqnOf[Root(k)]
                            /\ k \in Controllers => p \in fw.ctrls
                            /\ k \in Namespaces => p \in fw.nss
      BY <1>1, <2>1, <3>1, HasThere
    <3>3. p.nqn = h[w].nqn
      BY <2>1, <3>2, OneNqnWhole
    <3> QED
      BY <1>3, <3>2, <3>3 DEF Adds
  <2>4. Objs' = Objs \cup {o}
    BY <1>3 DEF Adds, Objs
  <2>5. o.owner = k /\ o.id = n
    OBVIOUS
  <2> HIDE DEF o
  <2> QED
    BY <2>1, <2>2, <2>3, <2>4, <2>5, Names DEF Has
<1> QED
  BY <1>2, <1>3 DEF Effect, SubsystemOps, CreateOps, DeleteOps

\* A delete removes what it is for, and nothing else of its name.
LEMMA DeleteHas ==
  ASSUME LInv, NEW w \in Worker, Running(w), h[w].pc = "rpc", h[w].op \in DeleteOps,
         NEW n, Effect(w, n), NEW k, h[w].key = k, Whole(Root(k))
  PROVE  /\ n = h[w].obj
         /\ \A v : Has(k, v)' <=> Has(k, v) /\ v # n
<1>1. TypeOK /\ Placed /\ Tidy(w) /\ k \in Keys
  BY RunningTyped DEF LInv, TypeOK
<1>2. CASE h[w].op \in SubsystemOps
  <2>1. k \in Subsystems /\ n = h[w].obj /\ fw'.subs = fw.subs \ {n}
    BY <1>1, <1>2, RunningTyped DEF TypeOK, Tidy, Effect, SubsystemOps, CreateOps, DeleteOps
  <2> QED
    BY <2>1, Names DEF Has
<1>3. CASE Removes(k, h[w].nqn, n) /\ n = h[w].obj /\ h[w].op \notin SubsystemOps
  <2>1. k \in Children /\ h[w].nqn \in NqnOf[Root(k)] /\ Root(k) \in Subsystems
    BY <1>1, <1>3, NqnTidy, Names
  <2>2. ASSUME NEW p \in Objs, p.owner = k, p.id = n
        PROVE  p \notin Objs'
    <3>1. /\ p.nqn \in fw.subs \cap NqnOf[Root(k)]
          /\ (k \in Controllers /\ p \in fw.ctrls /\ p \notin fw.nss) \/
             (k \in Namespaces /\ p \in fw.nss /\ p \notin fw.ctrls)
      BY <1>1, <2>1, <2>2, ObjsKinds, Names, FrontendAssumption
         DEF Placed, Objs, FrontendAssumption
    <3>2. PICK q \in Objs : q.nqn = h[w].nqn
      BY <1>3 DEF Removes, Objs
    <3>3. q.nqn \in fw.subs \cap NqnOf[Root(k)]
      BY <1>1, <2>1, <3>2 DEF Placed
    <3>4. p.nqn = h[w].nqn
      BY <2>1, <3>1, <3>2, <3>3, OneNqnWhole
    <3> QED
      BY <1>3, <2>1, <2>2, <3>1, <3>4, FrontendAssumption DEF Removes, Objs, FrontendAssumption
  <2>3. Objs' \subseteq Objs /\ \A p \in Objs : p.id # n => p \in Objs'
    BY <1>3 DEF Removes, Objs
  <2> QED
    BY <1>3, <2>1, <2>2, <2>3, Names DEF Has
<1> QED
  BY <1>2, <1>3 DEF Effect, SubsystemOps, CreateOps, DeleteOps

\* A name that a step does not touch still fits.
LEMMA KeepFits ==
  ASSUME NEW k \in Keys, Fits(k), cut \subseteq cut', late \subseteq late',
         store'[k] = store[k],
         \A v \in Values : \A u \in Worker :
           /\ Made(u, k, v)' <=> Made(u, k, v)
           /\ Unmade(u, k, v)' <=> Unmade(u, k, v)
           /\ Wants(u, k, v)' <=> Wants(u, k, v),
         Whole(Root(k)) => \A v \in Values : Has(k, v)' <=> Has(k, v)
  PROVE  Fits(k)'
<1>1. Whole(Root(k))' => Whole(Root(k)) /\ (Clear(k)' => Clear(k))
  BY HistoryGrows, Names
<1>2. \A v \in Values : Recorded(k, v)' <=> Recorded(k, v)
  BY DEF Recorded
<1>3. \A v \in Values : Claims(k, v)' <=> Claims(k, v)
  BY <1>2 DEF Claims
<1> QED
  BY <1>1, <1>2, <1>3 DEF Fits

\* A handler that does not move keeps what it has.
LEMMA SameFrame ==
  ASSUME NEW w \in Worker, h'[w] = h[w], NEW k, NEW v
  PROVE  /\ Made(w, k, v)' <=> Made(w, k, v)
         /\ Unmade(w, k, v)' <=> Unmade(w, k, v)
         /\ Wants(w, k, v)' <=> Wants(w, k, v)
  BY DEF Made, Unmade, Wants, Past, Running

\* Off a name in the next state.
LEMMA OffNameNext ==
  ASSUME NEW w \in Worker, NEW k, ~Running(w)' \/ h'[w].key # k, NEW v
  PROVE  ~Made(w, k, v)' /\ ~Unmade(w, k, v)' /\ ~Wants(w, k, v)'
  BY DEF Made, Unmade, Wants, Past, PastChange, Running

\* The names that a handler does not work on still fit.
LEMMA WorksFitsOthers ==
  ASSUME LInv, OwnNqns, NEW w \in Worker, Works(w), NEW k \in Keys, k # h[w].key
  PROVE  Fits(k)'
<1>1. TypeOK /\ Fits(k) /\ Running(w) /\ late \subseteq late'
  BY DEF LInv, Acts
<1>2. ~Running(w)' \/ h'[w].key # k
  BY <1>1, ActsOnName
<1>3. store'[k] = store[k] /\ cut \subseteq cut'
  BY <1>1, ActsOnName
<1>4. \A v \in Values : \A u \in Worker :
        /\ Made(u, k, v)' <=> Made(u, k, v)
        /\ Unmade(u, k, v)' <=> Unmade(u, k, v)
        /\ Wants(u, k, v)' <=> Wants(u, k, v)
  BY <1>2, OffName, OffNameNext, SameFrame DEF Acts
<1>5. ASSUME Whole(Root(k)), NEW v \in Values
      PROVE  Has(k, v)' <=> Has(k, v)
  <2>1. CASE SameObjects
    BY <2>1, HasSame
  <2>2. CASE Alters(w)
    BY <1>1, <1>5, <2>2, OthersHave DEF Alters
  <2> QED
    BY <2>1, <2>2 DEF Acts, GoesOn, GivesUp, Writes
<1> QED
  BY <1>1, <1>3, <1>4, <1>5, KeepFits

\* A handler that goes on has, has removed and wants what it did.
LEMMA GoesOnFits ==
  ASSUME LInv, NEW w \in Worker, Works(w), GoesOn(w), NEW k \in Keys
  PROVE  Fits(k)'
<1>1. /\ Fits(k) /\ late \subseteq late' /\ UNCHANGED <<store, cut>> /\ Running(w)
      /\ h'[w].op = h[w].op /\ h'[w].key = h[w].key /\ h'[w].obj = h[w].obj
      /\ Running(w)' /\ SameObjects
      /\ h[w].op \in CreateOps \cup DeleteOps => (PastChange(h'[w]) <=> PastChange(h[w]))
  BY DEF LInv, Acts, GoesOn, Running
<1>2. \A v \in Values :
        /\ Made(w, k, v)' <=> Made(w, k, v)
        /\ Unmade(w, k, v)' <=> Unmade(w, k, v)
        /\ Wants(w, k, v)' <=> Wants(w, k, v)
  BY <1>1 DEF Made, Unmade, Wants, Past
<1>3. \A v \in Values : \A u \in Worker :
        /\ Made(u, k, v)' <=> Made(u, k, v)
        /\ Unmade(u, k, v)' <=> Unmade(u, k, v)
        /\ Wants(u, k, v)' <=> Wants(u, k, v)
  BY <1>2, SameFrame DEF Acts
<1> QED
  BY <1>1, <1>3, HasSame, KeepFits

\* A request that failed is no longer clear of its name, nor a delete of its subsystem.
LEMMA NotedBreaks ==
  ASSUME NEW w \in Worker, Noted(w), NEW k \in Keys, h[w].key = k
  PROVE  /\ ~Clear(k)'
         /\ h[w].op \in DeleteOps \/ k \in Subsystems => ~Whole(Root(k))'
<1>1. <<h[w].op, k>> \in cut' /\ <<h[w].op, k>>[1] = h[w].op /\ <<h[w].op, k>>[2] = k
  BY DEF Noted
<1> QED
  BY <1>1, Names DEF Clear, Whole

\* On a clear name, what its one handler wants and has not added is recorded.
LEMMA WantsRecord ==
  ASSUME LInv, NEW k \in Keys, Timely(k), NEW w \in Worker, NEW v, Wants(w, k, v),
         ~Made(w, k, v)
  PROVE  Recorded(k, v)
<1>1. /\ TypeOK /\ Queued /\ Solo(w) /\ Running(w) /\ h[w].key = k /\ h[w].obj = v
      /\ \/ h[w].op \in DeleteOps /\ ~PastChange(h[w])
         \/ h[w].op = "UpdateNvmeController" /\ v # autoCtrlrIDAllocation
  BY DEF LInv, Wants
<1>2. v = store[k] /\ v # None
  BY <1>1 DEF Solo, CreateOps, DeleteOps
<1>3. ~Unmade(w, k, v)
  BY <1>1 DEF Unmade, Past, DeleteOps
<1>4. \A u \in Worker \ {w} : ~Unmade(u, k, v)
  BY <1>1, TimelyAlone, OffName
<1> QED
  BY <1>2, <1>3, <1>4 DEF Recorded

\* A handler that gives up takes its claim along: to the record, or to the history.
LEMMA GivesUpFits ==
  ASSUME LInv, NEW w \in Worker, Works(w), GivesUp(w), NEW k \in Keys, h[w].key = k
  PROVE  Fits(k)'
<1>1. /\ Fits(k) /\ UNCHANGED store /\ Running(w) /\ SameObjects
      /\ ~Running(w)' /\ cut \subseteq cut' /\ late \subseteq late'
  BY DEF LInv, Acts, GivesUp, Noted, Running, IdleFrame
<1>2. /\ Whole(Root(k))' => Whole(Root(k))
      /\ Clear(k)' => Clear(k) /\ Timely(k)
  BY <1>1, HistoryGrows, WholeIsClear, Names
<1>3. \A v \in Values : \A u \in Worker \ {w} :
        /\ Made(u, k, v)' <=> Made(u, k, v)
        /\ Unmade(u, k, v)' <=> Unmade(u, k, v)
        /\ Wants(u, k, v)' <=> Wants(u, k, v)
  BY SameFrame DEF Acts
<1>4. \A v \in Values : ~Made(w, k, v)' /\ ~Unmade(w, k, v)' /\ ~Wants(w, k, v)'
  BY <1>1, OffNameNext
<1> SUFFICES ASSUME Whole(Root(k))', NEW v \in Values
             PROVE  /\ Claims(k, v)' => Has(k, v)'
                    /\ \A u \in Worker : Made(u, k, v)' =>
                         ~Recorded(k, v)' /\ \A x \in Worker \ {u} : ~Wants(x, k, v)'
                    /\ Clear(k)' /\ Has(k, v)' => Claims(k, v)'
  BY DEF Fits
<1>5. ~Unmade(w, k, v)
  <2>1. CASE Noted(w)
    BY <2>1, NotedBreaks DEF Unmade
  <2>2. CASE ~Past(w, k)
    BY <2>2 DEF Unmade
  <2> QED
    BY <2>1, <2>2 DEF GivesUp
<1>6. Recorded(k, v)' <=> Recorded(k, v)
  BY <1>1, <1>3, <1>4, <1>5 DEF Recorded
<1>7. Claims(k, v)' => Claims(k, v)
  BY <1>3, <1>4, <1>6 DEF Claims
<1>8. Clear(k)' /\ Claims(k, v) => Claims(k, v)'
  <2> SUFFICES ASSUME Clear(k)', Wants(w, k, v)
               PROVE  Recorded(k, v)
    BY <1>3, <1>6 DEF Claims
  <2>1. ~Made(w, k, v)
    BY NotedBreaks DEF GivesUp, Made
  <2> QED
    BY <1>2, <2>1, WantsRecord
<1>9. Has(k, v)' <=> Has(k, v)
  BY <1>1, HasSame
<1> QED
  BY <1>1, <1>2, <1>3, <1>4, <1>6, <1>7, <1>8, <1>9 DEF Fits

\* What a create adds nobody claimed before, and what a delete removes nobody claims
\* after it.
LEMMA AltersFits ==
  ASSUME LInv, NEW w \in Worker, Works(w), Alters(w), NEW k \in Keys, h[w].key = k
  PROVE  Fits(k)'
<1>1. /\ Fits(k) /\ UNCHANGED store /\ Running(w) /\ TypeOK /\ Queued
      /\ cut \subseteq cut' /\ late \subseteq late' /\ h[w].pc = "rpc"
      /\ h[w].op \in CreateOps \cup DeleteOps
  BY DEF LInv, Acts, Alters, Noted
<1>2. /\ Whole(Root(k))' => Whole(Root(k))
      /\ Clear(k)' => Clear(k)
  BY <1>1, HistoryGrows, Names
<1>3. \A v \in Values : \A u \in Worker \ {w} :
        /\ Made(u, k, v)' <=> Made(u, k, v)
        /\ Unmade(u, k, v)' <=> Unmade(u, k, v)
        /\ Wants(u, k, v)' <=> Wants(u, k, v)
  BY SameFrame DEF Acts
<1>4. \A v \in Values :
        /\ ~Made(w, k, v) /\ ~Unmade(w, k, v)
        /\ Wants(w, k, v) <=> h[w].op \in DeleteOps /\ v = h[w].obj
  BY <1>1 DEF Made, Unmade, Wants, Past, PastChange, CreateOps, DeleteOps
<1> SUFFICES ASSUME Whole(Root(k))'
             PROVE  \A v \in Values :
                      /\ Claims(k, v)' => Has(k, v)'
                      /\ \A u \in Worker : Made(u, k, v)' =>
                           ~Recorded(k, v)' /\ \A x \in Worker \ {u} : ~Wants(x, k, v)'
                      /\ Clear(k)' /\ Has(k, v)' => Claims(k, v)'
  BY DEF Fits
<1>5. CASE h'[w] = IdleFrame /\ Noted(w) /\ \E n : Effect(w, n)
  <2>1. ~Clear(k)' /\ h[w].op \in CreateOps
    BY <1>1, <1>5, NotedBreaks
  <2>2. \A v : Has(k, v) => Has(k, v)'
    BY <1>1, <1>2, <1>5, <2>1, CreateHas
  <2>3. \A v \in Values : ~Made(w, k, v)' /\ ~Unmade(w, k, v)' /\ ~Wants(w, k, v)'
    BY <1>5, OffNameNext DEF Running, IdleFrame
  <2>4. \A v \in Values : Recorded(k, v)' <=> Recorded(k, v)
    BY <1>1, <1>3, <1>4, <2>3 DEF Recorded
  <2>5. \A v \in Values : Claims(k, v)' => Claims(k, v)
    BY <1>3, <2>3, <2>4 DEF Claims
  <2>6. \A v \in Values : \A u \in Worker \ {w} : Made(u, k, v) =>
          ~Recorded(k, v) /\ \A x \in Worker \ {u} : ~Wants(x, k, v)
    BY <1>1, <1>2 DEF Fits
  <2>7. \A v \in Values : \A u \in Worker : Made(u, k, v)' =>
          ~Recorded(k, v)' /\ \A x \in Worker \ {u} : ~Wants(x, k, v)'
    BY <1>3, <2>3, <2>4, <2>6
  <2>8. \A v \in Values : Claims(k, v)' => Has(k, v)'
    BY <1>1, <1>2, <2>2, <2>5 DEF Fits
  <2> QED
    BY <2>1, <2>7, <2>8
<1>6. ASSUME NEW n, Effect(w, n), h[w].op \in CreateOps
      PROVE  n \in Values /\ n # None /\ ~Has(k, n) /\ \A v : Has(k, v)' <=> Has(k, v) \/ v = n
  <2>1. LInv /\ Whole(Root(k)) /\ Running(w) /\ h[w].pc = "rpc" /\ h[w].key = k
    BY <1>1, <1>2
  <2> QED
    BY <1>6, <2>1, CreateHas
<1> SUFFICES ASSUME NEW n, Effect(w, n), h'[w].obj = n, h'[w].op = h[w].op, h'[w].key = k,
                    PastChange(h'[w]), Running(w)', NEW v \in Values
             PROVE  /\ Claims(k, v)' => Has(k, v)'
                    /\ \A u \in Worker : Made(u, k, v)' =>
                         ~Recorded(k, v)' /\ \A x \in Worker \ {u} : ~Wants(x, k, v)'
                    /\ Clear(k)' /\ Has(k, v)' => Claims(k, v)'
  BY <1>5 DEF Alters, Running, PastChange
<1>7. CASE h[w].op \in CreateOps
  <2>1. /\ n \in Values /\ n # None /\ ~Has(k, n)
        /\ \A x : Has(k, x)' <=> Has(k, x) \/ x = n
    BY <1>6, <1>7
  <2>2. /\ Made(w, k, v)' <=> v = n
        /\ Wants(w, k, v)' <=> v = n
        /\ ~Unmade(w, k, v)' /\ ~Wants(w, k, v)
    BY <1>4, <1>7 DEF Made, Unmade, Wants, Past, CreateOps, DeleteOps
  <2>3. Recorded(k, v)' <=> Recorded(k, v)
    BY <1>1, <1>3, <1>4, <2>2 DEF Recorded
  <2>4. Claims(k, v)' <=> Claims(k, v) \/ v = n
    BY <1>3, <2>2, <2>3 DEF Claims
  <2>5. ~Claims(k, n)
    BY <1>1, <1>2, <2>1 DEF Fits
  <2>6. v = n => ~Recorded(k, v)' /\ \A x \in Worker \ {w} : ~Wants(x, k, v)'
    BY <1>3, <2>3, <2>5 DEF Claims
  <2>7. \A u \in Worker : Made(u, k, v) =>
          v # n /\ ~Recorded(k, v) /\ \A x \in Worker \ {u} : ~Wants(x, k, v)
    BY <1>1, <1>2, <2>5 DEF Fits, Claims, Wants
  <2>8. \A u \in Worker : Made(u, k, v)' =>
          ~Recorded(k, v)' /\ \A x \in Worker \ {u} : ~Wants(x, k, v)'
    BY <1>3, <2>2, <2>3, <2>6, <2>7
  <2> QED
    BY <1>1, <1>2, <2>1, <2>4, <2>8 DEF Fits
<1>8. CASE h[w].op \in DeleteOps
  <2>1. n = h[w].obj /\ (Has(k, v)' <=> Has(k, v) /\ v # n)
    BY <1>1, <1>2, <1>8, DeleteHas
  <2>2. /\ Unmade(w, k, v)' <=> v = n
        /\ ~Made(w, k, v)' /\ ~Wants(w, k, v)'
        /\ Wants(w, k, v) <=> v = n
    BY <1>4, <1>8, <2>1 DEF Made, Unmade, Wants, Past, CreateOps, DeleteOps
  <2>3. Recorded(k, v)' <=> Recorded(k, v) /\ v # n
    BY <1>1, <1>3, <1>4, <2>2 DEF Recorded
  <2>4. ASSUME NEW u \in Worker \ {w}, Wants(u, k, v), v = n
        PROVE  FALSE
    <3>1. CASE Made(u, k, v)
      BY <1>1, <1>2, <2>2, <2>4, <3>1 DEF Fits
    <3>2. CASE ~Made(u, k, v)
      <4>1. Running(u) /\ h[u].key = k /\ h[u].op \notin CreateOps
        BY <2>4, <3>2 DEF Wants, CreateOps, DeleteOps
      <4>2. h[w].op \notin CreateOps
        BY <1>8 DEF CreateOps, DeleteOps
      <4> QED
        BY <1>1, <1>2, <4>1, <4>2, OneChange
    <3> QED
      BY <3>1, <3>2
  <2>5. Claims(k, v)' <=> Claims(k, v) /\ v # n
    BY <1>3, <2>2, <2>3, <2>4 DEF Claims
  <2>6. \A u \in Worker : Made(u, k, v)' =>
          ~Recorded(k, v)' /\ \A x \in Worker \ {u} : ~Wants(x, k, v)'
    BY <1>1, <1>2, <1>3, <2>2, <2>3 DEF Fits
  <2> QED
    BY <1>1, <1>2, <2>1, <2>5, <2>6 DEF Fits
<1> QED
  BY <1>1, <1>7, <1>8

\* A handler that writes hands its claim on to the record, or clears it.
LEMMA WritesFits ==
  ASSUME LInv, NEW w \in Worker, Works(w), Writes(w), NEW k \in Keys, h[w].key = k
  PROVE  Fits(k)'
<1>1. /\ Fits(k) /\ Running(w) /\ TypeOK /\ Queued /\ Tidy(w) /\ Solo(w) /\ SameObjects
      /\ ~Running(w)' /\ cut \subseteq cut' /\ late \subseteq late'
  BY DEF LInv, Acts, Writes, Noted, Running, IdleFrame
<1>2. /\ Whole(Root(k))' => Whole(Root(k))
      /\ Clear(k)' => Clear(k) /\ Timely(k)
  BY <1>1, HistoryGrows, WholeIsClear, Names
<1>3. \A v \in Values : \A u \in Worker \ {w} :
        /\ Made(u, k, v)' <=> Made(u, k, v)
        /\ Unmade(u, k, v)' <=> Unmade(u, k, v)
        /\ Wants(u, k, v)' <=> Wants(u, k, v)
  BY SameFrame DEF Acts
<1>4. \A v \in Values : ~Made(w, k, v)' /\ ~Unmade(w, k, v)' /\ ~Wants(w, k, v)'
  BY <1>1, OffNameNext
<1> SUFFICES ASSUME Whole(Root(k))', NEW v \in Values
             PROVE  /\ Claims(k, v)' => Has(k, v)'
                    /\ \A u \in Worker : Made(u, k, v)' =>
                         ~Recorded(k, v)' /\ \A x \in Worker \ {u} : ~Wants(x, k, v)'
                    /\ Clear(k)' /\ Has(k, v)' => Claims(k, v)'
  BY DEF Fits
<1>5. Has(k, v)' <=> Has(k, v)
  BY <1>1, HasSame
<1>6. PICK value :
        /\ \/ store' = [store EXCEPT ![k] = value]
           \/ UNCHANGED store /\ (Noted(w) \/ (UNCHANGED cut /\ ~h[w].changed))
        /\ \/ h[w].op \in CreateOps /\ h[w].pc = "save" /\ value = h[w].obj
           \/ h[w].op \in DeleteOps /\ h[w].pc = "erase" /\ value = None
           \/ At(w, "UpdateNvmeController", "save") /\ value = h[w].obj
  BY DEF Writes
<1>7. store' = [store EXCEPT ![k] = value] => store'[k] = value
  BY <1>1 DEF TypeOK, StoreOK
<1>8. Clear(k)' => \A u \in Worker \ {w} : ~Made(u, k, v) /\ ~Unmade(u, k, v) /\ ~Wants(u, k, v)
  BY <1>1, <1>2, TimelyAlone, OffName
<1>9. CASE h[w].op \in DeleteOps /\ h[w].pc = "erase" /\ value = None
  <2>1. ~Made(w, k, v) /\ ~Wants(w, k, v)
    BY <1>9 DEF Made, Wants, PastChange, CreateOps, DeleteOps
  <2>2. store'[k] = None
    BY <1>1, <1>6, <1>7, <1>9, NotedBreaks DEF Tidy, Past, PastChange
  <2>3. ~Recorded(k, v)'
    BY <2>2 DEF Recorded
  <2>4. Claims(k, v)' => Claims(k, v)
    BY <1>3, <1>4, <2>3 DEF Claims
  <2>5. Clear(k)' => ~Recorded(k, v)
    BY <1>1, <1>2, <1>9 DEF Recorded, Unmade, Past, PastChange, Solo
  <2>6. Clear(k)' => ~Claims(k, v)
    BY <1>8, <2>1, <2>5 DEF Claims
  <2> QED
    BY <1>1, <1>2, <1>3, <1>4, <1>5, <2>3, <2>4, <2>6 DEF Fits
<1> SUFFICES ASSUME h[w].pc = "save" /\ value = h[w].obj,
                    h[w].op \in CreateOps \/ h[w].op = "UpdateNvmeController"
             PROVE  /\ Claims(k, v)' => Has(k, v)'
                    /\ \A u \in Worker : Made(u, k, v)' =>
                         ~Recorded(k, v)' /\ \A x \in Worker \ {u} : ~Wants(x, k, v)'
                    /\ Clear(k)' /\ Has(k, v)' => Claims(k, v)'
  BY <1>6, <1>9 DEF At
<1>10. /\ ~Unmade(w, k, v)
       /\ Wants(w, k, v) <=> v = value
       /\ Made(w, k, v) <=> h[w].op \in CreateOps /\ v = value
       /\ value # None
  <2>1. value \in Nqns \cup CtrlrNums \cup NsNums
    BY <1>1, RunningTyped DEF TypeOK, MutatingOps
  <2>2. value # None
    BY <2>1, NumsAreInts, FrontendAssumption DEF FrontendAssumption
  <2>3. h[w].op = "UpdateNvmeController" => value \in CtrlrNums
    BY <1>1, RunningTyped DEF TypeOK, ControllerOps
  <2>4. h[w].op = "UpdateNvmeController" => value # autoCtrlrIDAllocation
    BY <2>3, MrvlNvmAssumption DEF MrvlNvmAssumption, autoCtrlrIDAllocation
  <2> QED
    BY <1>1, <2>2, <2>4 DEF Made, Unmade, Wants, Past, PastChange, CreateOps, DeleteOps
<1>11. \/ Recorded(k, v)' <=> Recorded(k, v)
       \/ Recorded(k, v)' => v = value
  BY <1>3, <1>4, <1>6, <1>7, <1>10 DEF Recorded
<1>12. Claims(k, v)' => Claims(k, v)
  BY <1>3, <1>4, <1>10, <1>11 DEF Claims
<1>13. \A u \in Worker : Made(u, k, v)' =>
         ~Recorded(k, v)' /\ \A x \in Worker \ {u} : ~Wants(x, k, v)'
  <2>1. \A u \in Worker \ {w} : Made(u, k, v) =>
          ~Recorded(k, v) /\ \A x \in Worker \ {u} : ~Wants(x, k, v)
    BY <1>1, <1>2 DEF Fits
  <2>2. \A u \in Worker \ {w} : Made(u, k, v) => ~Recorded(k, v)'
    BY <1>10, <1>11, <2>1
  <2> QED
    BY <1>3, <1>4, <2>1, <2>2
<1>14. ASSUME Clear(k)', Has(k, v)
       PROVE  Claims(k, v)'
  <2>1. ~Noted(w)
    BY <1>14, NotedBreaks
  <2>2. h[w].op = "UpdateNvmeController" => store[k] = value
    BY <1>1, <1>2, <1>14 DEF Solo
  <2>3. h[w].op \in CreateOps => store' = [store EXCEPT ![k] = value] /\ store[k] = None
    BY <1>1, <1>2, <1>6, <1>14, <2>1 DEF Solo, Tidy, Past, PastChange
  <2>4. store'[k] = value
    BY <1>6, <1>7, <2>2, <2>3
  <2>5. Claims(k, v) => v = value
    BY <1>8, <1>10, <1>14, <2>2, <2>3 DEF Claims, Recorded
  <2>6. Claims(k, v)
    BY <1>1, <1>2, <1>14 DEF Fits
  <2>7. Recorded(k, v)'
    BY <1>3, <1>4, <1>8, <1>10, <1>14, <2>4, <2>5, <2>6 DEF Recorded
  <2> QED
    BY <2>7 DEF Claims
<1> QED
  BY <1>1, <1>2, <1>5, <1>12, <1>13, <1>14 DEF Fits

\* A handler's step keeps the invariant.
LEMMA ServedKeeps ==
  ASSUME LInv, TypeOK', GatewayTypeOK', OwnNqns, IdsAgree, NEW w \in Worker, HandleServed(w)
  PROVE  LInv'
<1>1. TypeOK /\ GatewayTypeOK /\ Queued /\ Placed /\ StoreOwn /\ \A v \in Worker : Tidy(v)
  BY DEF LInv
<1>2. Works(w)
  BY <1>1, HandleKinds, StepsOwnFrame DEF HandleServed, Acts, TypeOK, HandlersOK
<1>3. Queued'
  BY <1>1, <1>2, WorksQueued DEF HandleServed
<1>4. Placed' /\ StoreOwn' /\ \A v \in Worker : Tidy(v)'
  BY <1>1, <1>2, ActsPlaced, ActsTidy
<1>5. \A v \in Worker : Solo(v)'
  BY <1>2, WorksSolo
<1>6. ASSUME NEW k \in Keys
      PROVE  Staged(k)' /\ Fits(k)'
  <2>1. Staged(k)'
    BY <1>2, WorksStaged
  <2>2. ASSUME h[w].key = k
        PROVE  Fits(k)'
    BY <1>2, <2>2, GoesOnFits, GivesUpFits, AltersFits, WritesFits DEF Acts
  <2>3. ASSUME h[w].key # k
        PROVE  Fits(k)'
    BY <1>2, <2>3, WorksFitsOthers
  <2> QED
    BY <2>1, <2>2, <2>3
<1> QED
  BY <1>3, <1>4, <1>5, <1>6 DEF LInv

\* A client that gives up, or main and the gateway on their way, change nothing that
\* the handlers go by.
LEMMA StillKeeps ==
  ASSUME LInv, TypeOK', GatewayTypeOK', UNCHANGED <<store, ListHelper, fw, h, cut>>,
         late \subseteq late', Queued'
  PROVE  LInv'
<1>1. Placed' /\ StoreOwn' /\ SameObjects
  BY DEF LInv, Placed, StoreOwn, Objs, SameObjects
<1>2. ASSUME NEW w \in Worker
      PROVE  Tidy(w)' /\ Solo(w)'
  <2>1. Tidy(w) /\ Solo(w) /\ (Running(w) => h[w].key \in Keys)
    BY RunningTyped DEF LInv, TypeOK
  <2>2. Running(w) /\ Timely(h[w].key)' => Timely(h[w].key)
    BY <2>1 DEF Timely
  <2> QED
    BY <2>1, <2>2 DEF Tidy, Solo, Running, Past
<1>3. ASSUME NEW k \in Keys
      PROVE  Staged(k)' /\ Fits(k)'
  <2>1. Staged(k) /\ Fits(k)
    BY DEF LInv
  <2>2. Staged(k)'
    BY <2>1, HistoryGrows DEF Staged, Past
  <2>3. Fits(k)'
    BY <1>1, <2>1, HasSame, SameFrame, KeepFits
  <2> QED
    BY <2>2, <2>3
<1> QED
  BY <1>1, <1>2, <1>3 DEF LInv

\* A request finds what the record says still there: no delete of its name can be
\* at work, for its client would be waiting.
LEMMA ArrivesFits ==
  ASSUME LInv, NEW w \in Worker, NEW k \in Keys, ~Running(w), Arrives(w), UNCHANGED late,
         \A v \in Worker : v # w => h'[v] = h[v],
         \A v \in waiting : h[v].key # h'[w].key
  PROVE  Fits(k)'
<1>1. /\ Fits(k) /\ TypeOK /\ Queued /\ SameObjects
      /\ UNCHANGED <<store, cut>> /\ cut \subseteq cut' /\ late \subseteq late'
  BY DEF LInv, Arrives, SameObjects
<1>2. \A v \in Values : \A u \in Worker \ {w} :
        /\ Made(u, k, v)' <=> Made(u, k, v)
        /\ Unmade(u, k, v)' <=> Unmade(u, k, v)
        /\ Wants(u, k, v)' <=> Wants(u, k, v)
  BY SameFrame
<1>3. \A v \in Values : ~Made(w, k, v) /\ ~Unmade(w, k, v) /\ ~Wants(w, k, v)
  BY OffName
<1>4. CASE \A v \in Values : ~Made(w, k, v)' /\ ~Unmade(w, k, v)' /\ ~Wants(w, k, v)'
  BY <1>1, <1>2, <1>3, <1>4, HasSame, KeepFits
<1>5. CASE /\ h'[w].key = k /\ ~PastChange(h'[w])
           /\ store[k] = None <=> h'[w].op \in CreateOps
           /\ h'[w].op \in DeleteOps => h'[w].obj = store[k]
           /\ h'[w].op = "UpdateNvmeController" =>
                h'[w].obj \in {store[k], autoCtrlrIDAllocation}
  <2> SUFFICES ASSUME Whole(Root(k))', NEW v \in Values
               PROVE  /\ Claims(k, v)' => Has(k, v)'
                      /\ \A u \in Worker : Made(u, k, v)' =>
                           ~Recorded(k, v)' /\ \A x \in Worker \ {u} : ~Wants(x, k, v)'
                      /\ Clear(k)' /\ Has(k, v)' => Claims(k, v)'
    BY DEF Fits
  <2>1. Whole(Root(k)) /\ (Clear(k)' => Clear(k)) /\ (Has(k, v)' <=> Has(k, v))
    BY <1>1, HistoryGrows, HasSame, Names
  <2>2. ~Made(w, k, v)' /\ ~Unmade(w, k, v)'
    BY <1>5 DEF Made, Unmade, Past
  <2>3. ASSUME NEW u \in Worker, Unmade(u, k, v)
        PROVE  FALSE
    <3>1. Running(u) /\ h[u].key = k /\ h[u].op \notin CreateOps
      BY <2>3, OffName DEF Unmade, CreateOps, DeleteOps
    <3>2. u \in waiting
      BY <1>1, <2>1, <3>1, ChangesWaited
    <3> QED
      BY <1>5, <3>1, <3>2
  <2>4. Recorded(k, v)' <=> Recorded(k, v)
    BY <1>1, <1>2, <2>2, <2>3 DEF Recorded
  <2>5. Wants(w, k, v)' => Recorded(k, v)
    BY <1>5, <2>2, <2>3 DEF Wants, Recorded, DeleteOps, CreateOps
  <2>6. Claims(k, v)' <=> Claims(k, v)
    BY <1>2, <1>3, <2>4, <2>5 DEF Claims
  <2> QED
    BY <1>1, <1>2, <2>1, <2>2, <2>4, <2>5, <2>6 DEF Fits
<1>6. CASE h'[w] = h[w] \/ h'[w].key # k
  BY <1>3, <1>4, <1>6, OffNameNext, SameFrame
<1> QED
  BY <1>5, <1>6 DEF Arrives

\* A request that arrives keeps the invariant.
LEMMA SendKeeps ==
  ASSUME LInv, TypeOK', GatewayTypeOK', IdsAgree, NEW w \in Worker, Send(w)
  PROVE  LInv'
<1>1. /\ TypeOK /\ GatewayTypeOK /\ Queued /\ Placed /\ StoreOwn
      /\ \A v \in Worker : Tidy(v) /\ Solo(v)
      /\ \A k \in Keys : Staged(k)
  BY DEF LInv
<1>2. /\ ~Running(w) /\ Arrives(w) /\ \A v \in Worker : v # w => h'[v] = h[v]
      /\ UNCHANGED <<store, ListHelper, fw, cut, late>> /\ SameObjects
      /\ \A v \in waiting : h[v].key # h'[w].key
      /\ waiting' = IF Running(w)' THEN waiting \cup {w} ELSE waiting
  BY <1>1, RequestKinds, ArrivesAlone
     DEF Send, TypeOK, HandlersOK, Arrives, SameObjects
<1>3. w \notin waiting /\ waiting \subseteq Worker
  BY <1>1, <1>2 DEF GatewayTypeOK
<1>4. Queued'
  <2>1. \A v \in Worker : Running(v)' => v \in waiting' \/ <<h'[v].op, h'[v].key>> \in late'
    BY <1>1, <1>2 DEF Queued, Running
  <2>2. \A v \in waiting : h'[v] = h[v]
    BY <1>2, <1>3
  <2>3. \A v, u \in waiting' : h'[v].key = h'[u].key => v = u
    BY <1>1, <1>2, <2>2 DEF Queued
  <2> QED
    BY <2>1, <2>3 DEF Queued
<1>5. Placed' /\ StoreOwn'
  BY <1>1, <1>2, PlacedSame DEF StoreOwn
<1>6. Tidy(w)' /\ Solo(w)'
  <2>1. CASE h'[w] = h[w]
    BY <1>2, <2>1 DEF Tidy, Solo, Running
  <2>2. CASE h'[w] # h[w]
    <3>1. Tidy(w)'
      BY <1>2, <2>2 DEF Arrives, Tidy, Past
    <3>2. Solo(w)'
      BY <1>2, <2>2 DEF Arrives, Solo
    <3> QED
      BY <3>1, <3>2
  <2> QED
    BY <2>1, <2>2
<1>7. ASSUME NEW v \in Worker, v # w
      PROVE  Tidy(v)' /\ Solo(v)'
  <2>1. Tidy(v) /\ Solo(v) /\ h'[v] = h[v]
    BY <1>1, <1>2, <1>7
  <2> QED
    BY <1>2, <2>1 DEF Tidy, Solo, Running, Past, Timely
<1>8. ASSUME NEW k \in Keys
      PROVE  Staged(k)' /\ Fits(k)'
  <2>1. Staged(k)
    BY <1>1
  <2>2. \A u \in Worker : Past(u, k) => Past(u, k)' /\ h'[u] = h[u]
    BY <1>2 DEF Past, PastChange, Running
  <2>3. Staged(k)'
    BY <1>2, <2>1, <2>2 DEF Staged, Timely
  <2>4. Fits(k)'
    BY <1>2, ArrivesFits
  <2> QED
    BY <2>3, <2>4
<1> QED
  BY <1>4, <1>5, <1>6, <1>7, <1>8 DEF LInv

\* The end of the process notes every request that had changed the application.
LEMMA EndKeeps ==
  ASSUME LInv, TypeOK', GatewayTypeOK', Ends
  PROVE  LInv'
<1>1. /\ TypeOK /\ Queued /\ Placed /\ StoreOwn /\ SameObjects
      /\ \A w \in Worker : Tidy(w)
      /\ UNCHANGED <<store, late>> /\ Restarts /\ ListHelper' = {} /\ waiting' = {}
      /\ cut \subseteq cut' /\ late \subseteq late'
      /\ \A w \in Worker : h[w].changed => <<h[w].op, h[w].key>> \in cut'
      /\ \A w \in Worker : h'[w] = IdleFrame /\ ~Running(w)'
  BY DEF LInv, Ends, Restart, SameObjects, Running, IdleFrame
<1>2. Queued' /\ Placed' /\ StoreOwn' /\ \A w \in Worker : Tidy(w)' /\ Solo(w)'
  BY <1>1, PlacedSame DEF Queued, StoreOwn, Tidy, Solo
<1>3. ASSUME NEW k \in Keys
      PROVE  Fits(k)'
  <2> SUFFICES ASSUME Whole(Root(k))', NEW v \in Values
               PROVE  /\ Claims(k, v)' => Has(k, v)'
                      /\ \A u \in Worker : Made(u, k, v)' =>
                           ~Recorded(k, v)' /\ \A x \in Worker \ {u} : ~Wants(x, k, v)'
                      /\ Clear(k)' /\ Has(k, v)' => Claims(k, v)'
    BY DEF Fits
  <2>1. /\ Whole(Root(k)) /\ (Clear(k)' => Clear(k) /\ Timely(k))
        /\ Has(k, v)' <=> Has(k, v)
    BY <1>1, HistoryGrows, HasSame, WholeIsClear, Names
  <2>2. Fits(k)
    BY DEF LInv
  <2>3. \A u \in Worker : ~Made(u, k, v)' /\ ~Unmade(u, k, v)' /\ ~Wants(u, k, v)'
    BY <1>1, OffNameNext
  <2>4. ASSUME NEW u \in Worker, Past(u, k)
        PROVE  /\ h[u].op \notin DeleteOps /\ ~Clear(k)'
    <3>1. Running(u) /\ h[u].key = k
      BY <2>4 DEF Past, PastChange, Running
    <3>2. <<h[u].op, k>> \in cut'
      BY <1>1, <2>4, <3>1 DEF Tidy
    <3>3. <<h[u].op, k>>[1] = h[u].op /\ <<h[u].op, k>>[2] = k
      OBVIOUS
    <3> QED
      BY <3>2, <3>3 DEF Whole, Clear
  <2>5. Recorded(k, v)' <=> Recorded(k, v)
    BY <1>1, <2>3, <2>4 DEF Recorded, Unmade
  <2>6. Claims(k, v)' => Claims(k, v)
    BY <2>3, <2>5 DEF Claims
  <2>7. Clear(k)' /\ Claims(k, v) => Recorded(k, v)
    BY <2>1, <2>4, WantsRecord DEF Claims, Made
  <2> QED
    BY <2>1, <2>2, <2>3, <2>5, <2>6, <2>7 DEF Fits, Claims
<1>4. \A k \in Keys : Staged(k)'
  BY <1>1 DEF Staged
<1> QED
  BY <1>2, <1>3, <1>4 DEF LInv

\* Every step of the process keeps the invariant.
LEMMA ProcessStepKeeps ==
  ASSUME LInv, TypeOK', GatewayTypeOK', OwnNqns, IdsAgree, [GatewayNext]_<<vars, process>>
  PROVE  LInv'
<1>1. CASE UNCHANGED <<vars, process>>
  <2>1. Queued'
    BY <1>1 DEF LInv, Queued, vars, process, Running
  <2> QED
    BY <1>1, <2>1, StillKeeps DEF vars, process
<1>2. CASE OpenStore \/ Listen \/ Serve \/ ServeFails \/ CloseStore \/ GatewayServes
  <2>1. UNCHANGED <<vars, waiting, late>>
    BY <1>2 DEF OpenStore, Listen, Serve, ServeFails, CloseStore, GatewayServes
  <2>2. Queued'
    BY <2>1 DEF LInv, Queued, vars, Running
  <2> QED
    BY <2>1, <2>2, StillKeeps DEF vars
<1>3. CASE Exit \/ Killed \/ GatewayFails
  BY <1>3, EndKeeps DEF Exit, Killed, GatewayFails
<1>4. ASSUME NEW w \in Worker, Send(w)
      PROVE  LInv'
  BY <1>4, SendKeeps
<1>5. ASSUME NEW w \in Worker, HandleServed(w)
      PROVE  LInv'
  BY <1>5, ServedKeeps
<1>6. ASSUME NEW w \in Worker, GiveUp(w)
      PROVE  LInv'
  <2>1. Queued'
    BY <1>6 DEF LInv, GatewayTypeOK, Queued, GiveUp, vars, Running
  <2> QED
    BY <1>6, <2>1, StillKeeps DEF GiveUp, vars
<1> QED
  BY <1>1, <1>2, <1>3, <1>4, <1>5, <1>6 DEF GatewayNext

\* At first there are no records, no objects and no requests.
LEMMA ProcessInitKeeps ==
  ASSUME GatewayInit, TypeOK, GatewayTypeOK
  PROVE  LInv
<1>1. /\ fw = EmptyFw /\ cut = {} /\ late = {} /\ waiting = {} /\ ListHelper = {}
      /\ \A k \in Keys : store[k] = None
      /\ \A w \in Worker : ~Running(w)
  BY DEF GatewayInit, Init, Running, IdleFrame
<1>2. Queued /\ Placed /\ StoreOwn /\ \A w \in Worker : Tidy(w) /\ Solo(w)
  BY <1>1, Names DEF Queued, Placed, StoreOwn, Tidy, Solo, EmptyFw, Objs
<1>3. \A k : \A v : ~Has(k, v)
  BY <1>1 DEF Has, EmptyFw, Objs
<1>4. \A k \in Keys : \A v : ~Claims(k, v)
  BY <1>1, OffName DEF Claims, Recorded
<1>5. \A k \in Keys : \A v : \A w \in Worker : ~Made(w, k, v)
  BY <1>1, OffName
<1>6. \A k \in Keys : Staged(k) /\ Fits(k)
  BY <1>1, <1>3, <1>4, <1>5 DEF Staged, Fits
<1> QED
  BY <1>2, <1>6 DEF LInv

\* What is known of a name that no request is working on, that none gave up on or
\* answered late, and of its subsystem.
LEMMA TimedAgrees ==
  ASSUME LInv, OwnNqns, NEW k \in Keys, Timed!Settled(k)
  PROVE  /\ Timely(k) /\ Clear(k) /\ \A w \in Worker : h[w].key # k
         /\ \A j \in {k, Root(k)} : \A v \in Values :
              Has(j, v) <=> store[j] # None /\ store[j] = v
<1>1. k \in Keys /\ Root(k) \in Subsystems /\ Root(k) \in Keys /\ Root(Root(k)) = Root(k)
  BY Names
<1>2. Root(k) \in Timed!Mates(Root(k))
  BY <1>1 DEF OwnNqns, Timed!Mates
<1>3. /\ \A w \in Worker : h[w].key \notin {k, Root(k)}
      /\ \A r \in cut \cup Stale :
           r[2] \notin {k, Root(k)} /\ (r[1] \in DeleteOps => Root(r[2]) # Root(k))
  BY <1>2 DEF Timed!Settled, Timed!Root, Root, Timed!DeleteOps, DeleteOps
<1>4. Whole(Root(k)) /\ Clear(k) /\ Clear(Root(k))
  BY <1>3 DEF Whole, Clear
<1>5. Timely(k)
  BY <1>4, WholeIsClear
<1>6. ASSUME NEW j \in {k, Root(k)}, NEW v \in Values
      PROVE  Has(j, v) <=> store[j] # None /\ store[j] = v
  <2>1. j \in Keys /\ Whole(Root(j)) /\ Clear(j) /\ Fits(j)
    BY <1>1, <1>4 DEF LInv
  <2>2. \A w \in Worker : ~Made(w, j, v) /\ ~Unmade(w, j, v) /\ ~Wants(w, j, v)
    BY <1>3, OffName
  <2>3. Claims(j, v) <=> store[j] # None /\ store[j] = v
    BY <2>2 DEF Claims, Recorded
  <2> QED
    BY <2>1, <2>3 DEF Fits
<1> QED
  BY <1>3, <1>4, <1>5, <1>6

\* What fits settled names is what Mirrored says of them.
LEMMA FitsMirrors ==
  ASSUME LInv, OwnNqns
  PROVE  Timed!Mirrored
<1>1. ASSUME NEW s \in Subsystems, Timed!Settled(s), store[s] # None
      PROVE  store[s] \in fw.subs
  <2>1. store[s] \in Values
    BY <1>1 DEF LInv, TypeOK, StoreOK, Values
  <2> QED
    BY <1>1, <2>1, Names, TimedAgrees DEF Has
<1>2. ASSUME NEW q \in fw.subs, \A s \in Subsystems : q \in NqnOf[s] => Timed!Settled(s)
      PROVE  Cardinality({s \in Subsystems : store[s] = q}) = 1
  <2>1. PICK s \in Subsystems : q \in NqnOf[s]
    BY DEF LInv, Placed
  <2>2. q \in Nqns /\ q # None /\ q \in Values
    BY FrontendAssumption DEF FrontendAssumption, LInv, TypeOK, FwStates, Values
  <2>3. store[s] = q
    BY <1>2, <2>1, <2>2, Names, TimedAgrees DEF Has
  <2>4. \A t \in Subsystems : store[t] = q => t = s
    BY <2>1, <2>2 DEF LInv, StoreOwn, OwnNqns
  <2>5. {t \in Subsystems : store[t] = q} = {s}
    BY <2>3, <2>4
  <2> QED
    BY <2>5, FS_Singleton
<1>3. ASSUME NEW k \in Children, Timed!Settled(k)
      PROVE  Timed!Objects(k) = IF store[k] = None THEN {}
                                ELSE {[nqn |-> store[Parent[k]], id |-> store[k]]}
  <2>1. k \in Keys /\ Root(k) = Parent[k] /\ Parent[k] \in Subsystems /\ k \notin Subsystems
    BY Names
  <2>2. ASSUME NEW o \in Objs, o.owner = k
        PROVE  store[k] # None /\ o.id = store[k] /\ o.nqn = store[Parent[k]]
    <3>1. o.id \in Values /\ o.nqn \in Values
      BY DEF LInv, TypeOK, FwStates, Objs, Values
    <3>2. Has(k, o.id) /\ Has(Parent[k], o.nqn)
      BY <2>1, <2>2 DEF Has, LInv, Placed
    <3> QED
      BY <1>3, <2>1, <3>1, <3>2, TimedAgrees
  <2>3. ASSUME store[k] # None
        PROVE  \E o \in Objs : o.owner = k
    <3>1. store[k] \in Values
      BY <2>1, <2>3 DEF LInv, TypeOK, StoreOK, Values
    <3>2. Has(k, store[k])
      BY <1>3, <2>1, <2>3, <3>1, TimedAgrees
    <3> QED
      BY <2>1, <3>2 DEF Has
  <2>4. Timed!Objects(k) = {[nqn |-> o.nqn, id |-> o.id] : o \in {p \in Objs : p.owner = k}}
    BY DEF Timed!Objects, Objs
  <2>5. CASE store[k] = None
    BY <2>2, <2>4, <2>5
  <2>6. CASE store[k] # None
    BY <2>2, <2>3, <2>4, <2>6
  <2> QED
    BY <2>5, <2>6
<1>4. \A S : Timed!Cardinality(S) = Cardinality(S)
  BY DEF Timed!Cardinality, Cardinality
<1> QED
  BY <1>1, <1>2, <1>3, <1>4 DEF Timed!Mirrored, Timed!Children, Children

\* Where no request is past its change, ListHelper names the records.
LEMMA StagedListed ==
  ASSUME LInv, OwnNqns
  PROVE  Timed!ListHelperExact
<1> SUFFICES ASSUME NEW k \in Keys, Timed!Settled(k)
             PROVE  /\ k \in ListHelper => store[k] # None
                    /\ ~Restarts /\ store[k] # None => k \in ListHelper
  BY DEF Timed!ListHelperExact, Timed!Keys, Timed!Children, Keys, Children
<1>1. Timely(k) /\ Clear(k) /\ \A w \in Worker : h[w].key # k
  BY TimedAgrees
<1>2. Staged(k)
  BY DEF LInv
<1> QED
  BY <1>1, <1>2 DEF Staged, Clear, Past

\* For any number of names, clients and late answers, whatever fails or restarts:
\* when each subsystem has NQNs of its own, and the ids of the requests are the ones
\* the application uses, every name that no request is working on, and that none
\* gave up on or answered too late, has its record, its name in ListHelper and its
\* object, unless a delete or an update of its subsystem or below was late.
THEOREM LateHarmlessElsewhere ==
  ASSUME OwnNqns, IdsAgree
  PROVE  GatewaySpec => []LateHarmsOwnName
<1>1. GatewayInit /\ TypeOK /\ GatewayTypeOK => LInv
  BY ProcessInitKeeps
<1>2. LInv /\ TypeOK' /\ GatewayTypeOK' /\ [GatewayNext]_<<vars, process>> => LInv'
  BY ProcessStepKeeps
<1>3. LInv => LateHarmsOwnName
  BY FitsMirrors, StagedListed DEF LateHarmsOwnName
<1>4. GatewaySpec => []TypeOK
  BY ProcessRunsServer, TypeCorrect DEF ServerSpec
<1> QED
  BY <1>1, <1>2, <1>3, <1>4, ProcessTypeCorrect, PTL DEF GatewaySpec
=============================================================================
