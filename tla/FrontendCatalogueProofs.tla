---------------------- MODULE FrontendCatalogueProofs ----------------------
(* The Server implements Catalogue, in every instance in which clients     *)
(* wait for their requests on a subsystem and nothing fails: every step of *)
(* a handler is a step of the catalogue or one that it does not see.       *)
EXTENDS FrontendCatalogue, FrontendOrdered

USE DEF CreateOps, DeleteOps, SubsystemOps, ControllerOps, NamespaceOps, MutatingOps

---------------------------------------------------------------------------
(* The state of the catalogue.                                             *)

\* The request of a handler whose frame is f.
RequestOf(f) ==
  [op |-> f.op, key |-> f.key,
   want |-> IF Effective(f) \/ f.op \in DeleteOps THEN None ELSE f.obj,
   done |-> Effective(f)]

\* What it takes for a request to have had its effect.
EffectiveIs ==
  \A w \in Worker :
    /\ Running(w) \/ h[w] = IdleFrame
    /\ Effective(h[w]) <=>
         \/ h[w].op \in CreateOps \cup DeleteOps /\ PastChange(h[w])
         \/ h[w].op = "DeleteNvmeNamespace" /\ h[w].pc # "parent"
         \/ h[w].op = "UpdateNvmeController" /\ h[w].pc = "save"

\* A delete of namespace k has started to detach it.
Leaving(k) ==
  \E w \in Worker : h[w].op = "DeleteNvmeNamespace" /\ h[w].key = k /\ Effective(h[w])

\* The catalogue is what the names hold, without the namespaces on their way out.
CatalogueIs == \A k \in Keys : Catalogued(k) = IF Leaving(k) THEN None ELSE Held(k)

\* Controller c and namespace n are attached in the application.
Plain(c, n) ==
  /\ Parent[c] = Parent[n] /\ Held(c) # None /\ Held(n) # None
  /\ Attachment(c, n) \in fw.att

\* The attachments of a namespace that a handler has an effective request for are
\* those it is to have, the others those in the application.
AttachmentsAre ==
  /\ AttachedNow \subseteq Controllers \X Namespaces
  /\ \A c \in Controllers, n \in Namespaces :
       /\ (\A w \in Worker : Running(w) => h[w].key # n) =>
            (<<c, n>> \in AttachedNow <=> Plain(c, n))
       /\ \A w \in Worker : Running(w) /\ h[w].key = n =>
            (<<c, n>> \in AttachedNow <=>
               IF Effective(h[w])
               THEN h[w].op \in CreateOps /\ Parent[c] = Parent[n] /\ Held(c) # None
               ELSE Plain(c, n))

CInv == OInv /\ AtRest /\ EffectiveIs /\ CatalogueIs /\ AttachmentsAre

\* Which frames have taken effect, from the order of a request's steps.
LEMMA EffectiveKnown ==
  ASSUME OInv, AtRest
  PROVE  EffectiveIs
<1> SUFFICES ASSUME NEW w \in Worker
             PROVE  /\ Running(w) \/ h[w] = IdleFrame
                    /\ Effective(h[w]) <=>
                         \/ h[w].op \in CreateOps \cup DeleteOps /\ PastChange(h[w])
                         \/ h[w].op = "DeleteNvmeNamespace" /\ h[w].pc # "parent"
                         \/ h[w].op = "UpdateNvmeController" /\ h[w].pc = "save"
  BY DEF EffectiveIs
<1>1. CASE ~Running(w)
  <2>1. h[w] = IdleFrame
    BY <1>1 DEF AtRest, OInv, IInv, TypeOK, HandlersOK, FrameOK
  <2> QED
    BY <2>1 DEF Effective, IdleFrame, PastChange
<1>2. CASE Running(w)
  <2>1. h[w].op \in MutatingOps /\ h[w].pc \in StepsOf(h[w].op)
    BY <1>2, RunningOn DEF OInv, Ordered, Going
  <2> QED
    BY <1>2, <2>1 DEF Effective, PastChange, StepsOf
<1> QED
  BY <1>1, <1>2

\* What the catalogue has under a name, from the one request that works on it.
LEMMA CatalogueKnown ==
  ASSUME OInv, AtRest, EffectiveIs
  PROVE  CatalogueIs
<1> SUFFICES ASSUME NEW k \in Keys
             PROVE  Catalogued(k) = IF Leaving(k) THEN None ELSE Held(k)
  BY DEF CatalogueIs
<1>1. CASE \A w \in Worker : Running(w) => h[w].key # k
  <2>1. \A w \in Worker : Effective(h[w]) => h[w].key # k
    BY <1>1 DEF EffectiveIs, PastChange, IdleFrame
  <2>2. Held(k) = store[k]
    BY <1>1, HeldFree
  <2> QED
    BY <2>1, <2>2 DEF Catalogued, Doing, Leaving
<1>2. ASSUME NEW w \in Worker, Running(w), h[w].key = k
      PROVE  Catalogued(k) = IF Leaving(k) THEN None ELSE Held(k)
  <2>1. \A v \in Worker : Effective(h[v]) /\ h[v].key = k => v = w
    BY <1>2 DEF EffectiveIs, PastChange, IdleFrame, OInv, IInv, OneAtATime, Exclusive
  <2>2. \A ops : Doing(k, ops) = IF h[w].op \in ops /\ Effective(h[w]) THEN {w} ELSE {}
    BY <1>2, <2>1 DEF Doing
  <2>3. Past(w, k) <=> h[w].op \in CreateOps \cup DeleteOps /\ PastChange(h[w])
    BY <1>2 DEF Past
  <2>4. Leaving(k) <=> h[w].op = "DeleteNvmeNamespace" /\ Effective(h[w])
    BY <1>2, <2>1 DEF Leaving
  <2>5. Catalogued(k) = IF h[w].op \in CreateOps /\ Effective(h[w]) THEN h[w].obj
                        ELSE IF h[w].op \in DeleteOps /\ Effective(h[w]) THEN None
                        ELSE store[k]
    <3> HIDE DEF CreateOps, DeleteOps, Effective
    <3> QED
      BY <2>2 DEF Catalogued
  <2> QED
    BY <1>2, <2>3, <2>4, <2>5, HeldBy DEF EffectiveIs, OInv
<1> QED
  BY <1>1, <1>2

\* The application has attached objects of c and n.
Joined(c, n) ==
  \E x \in fw.ctrls \X fw.nss :
    /\ x[1].nqn = x[2].nqn /\ x[1].owner = c /\ x[2].owner = n
    /\ [nqn |-> x[1].nqn, ctrl |-> x[1].id, ns |-> x[2].id] \in fw.att

\* Attached in the application, said of names and of objects.
LEMMA PlainIs ==
  ASSUME OInv, NEW c \in Controllers, NEW n \in Namespaces
  PROVE  Plain(c, n) <=> Joined(c, n)
<1> USE DEF Children
<1>1. /\ \A o \in fw.ctrls : o.owner = c => Held(c) # None /\ o = Object(c)
      /\ \A o \in fw.nss : o.owner = n => Held(n) # None /\ o = Object(n)
      /\ Held(c) # None => Object(c) \in fw.ctrls
      /\ Held(n) # None => Object(n) \in fw.nss
  BY DEF OInv, Ordered, ObjectsHeld, Alive, Object
<1>2. /\ Object(c).owner = c /\ Object(c).id = Held(c) /\ Object(c).nqn = Held(Parent[c])
      /\ Object(n).owner = n /\ Object(n).id = Held(n) /\ Object(n).nqn = Held(Parent[n])
  BY DEF Object
<1>3. Held(c) # None /\ Held(n) # None => (Held(Parent[c]) = Held(Parent[n]) <=> Parent[c] = Parent[n])
  BY Names DEF OInv, Ordered, ObjectsHeld, Alive
<1> HIDE DEF Object
<1>4. ASSUME Plain(c, n)
      PROVE  Joined(c, n)
  <2> DEFINE x == <<Object(c), Object(n)>>
  <2>1. x \in fw.ctrls \X fw.nss /\ x[1] = Object(c) /\ x[2] = Object(n)
    BY <1>1, <1>4 DEF Plain
  <2> HIDE DEF x
  <2> QED
    BY <1>2, <1>4, <2>1 DEF Plain, Attachment, Joined
<1>5. ASSUME NEW x \in fw.ctrls \X fw.nss, x[1].nqn = x[2].nqn, x[1].owner = c, x[2].owner = n,
             [nqn |-> x[1].nqn, ctrl |-> x[1].id, ns |-> x[2].id] \in fw.att
      PROVE  Plain(c, n)
  <2>1. x[1] \in fw.ctrls /\ x[2] \in fw.nss
    BY <1>5
  <2>2. /\ x[1] = Object(c) /\ x[2] = Object(n) /\ Held(c) # None /\ Held(n) # None
    BY <1>1, <1>5, <2>1
  <2> QED
    BY <1>2, <1>3, <1>5, <2>2 DEF Plain, Attachment
<1> QED
  BY <1>4, <1>5 DEF Joined

\* Which namespaces the catalogue has attached, from the one request on each.
LEMMA AttachmentsKnown ==
  ASSUME OInv, AtRest, EffectiveIs, CatalogueIs
  PROVE  AttachmentsAre
<1> DEFINE held == {x \in fw.ctrls \X fw.nss :
                      /\ x[1].nqn = x[2].nqn
                      /\ [nqn |-> x[1].nqn, ctrl |-> x[1].id, ns |-> x[2].id] \in fw.att}
           changing == {n \in Namespaces : Doing(n, NamespaceOps) # {}}
           created  == {n \in Namespaces : Doing(n, CreateOps) # {}}
           standing == {<<x[1].owner, x[2].owner>> : x \in {y \in held : y[2].owner \notin changing}}
           coming   == {x \in Controllers \X created :
                          Parent[x[1]] = Parent[x[2]] /\ Catalogued(x[1]) # None}
<1>1. AttachedNow = standing \cup coming
  BY DEF AttachedNow
<1>2. \A x \in fw.ctrls \X fw.nss : x[1].owner \in Controllers /\ x[2].owner \in Namespaces
  BY DEF OInv, IInv, TypeOK, FwStates
<1>3. AttachedNow \subseteq Controllers \X Namespaces
  <2>1. held \subseteq fw.ctrls \X fw.nss
    OBVIOUS
  <2>2. standing \subseteq Controllers \X Namespaces
    <3> HIDE DEF held, changing
    <3> QED
      BY <1>2, <2>1
  <2>3. coming \subseteq Controllers \X Namespaces
    <3>1. coming \subseteq Controllers \X created /\ created \subseteq Namespaces
      OBVIOUS
    <3> HIDE DEF coming, created
    <3> QED
      BY <3>1
  <2> HIDE DEF standing, coming
  <2> QED
    BY <1>1, <2>2, <2>3
<1>4. ASSUME NEW c \in Controllers, NEW n \in Namespaces
      PROVE  <<c, n>> \in AttachedNow <=>
               \/ n \notin changing /\ Plain(c, n)
               \/ n \in created /\ Parent[c] = Parent[n] /\ Held(c) # None
  <2>1. Catalogued(c) = Held(c)
    <3>1. ~Leaving(c)
      BY <1>4, RunningOn, FrontendAssumption
         DEF FrontendAssumption, Leaving, EffectiveIs, PastChange, IdleFrame, OInv
    <3> QED
      BY <3>1, Names DEF CatalogueIs, Children
  <2>2. <<c, n>> \in standing <=> n \notin changing /\ Plain(c, n)
    <3>1. <<c, n>> \in standing <=>
            \E x \in held : x[2].owner \notin changing /\ x[1].owner = c /\ x[2].owner = n
      <4> HIDE DEF held, changing
      <4> QED
        OBVIOUS
    <3> HIDE DEF changing
    <3>2. (\E x \in held : x[1].owner = c /\ x[2].owner = n) <=> Plain(c, n)
      <4>1. Plain(c, n) <=> Joined(c, n)
        BY PlainIs
      <4> DEFINE P(x) == [nqn |-> x[1].nqn, ctrl |-> x[1].id, ns |-> x[2].id] \in fw.att
      <4>2. \A x : x \in held <=> x \in fw.ctrls \X fw.nss /\ x[1].nqn = x[2].nqn /\ P(x)
        OBVIOUS
      <4>3. Plain(c, n) <=>
              \E x \in fw.ctrls \X fw.nss :
                x[1].nqn = x[2].nqn /\ x[1].owner = c /\ x[2].owner = n /\ P(x)
        BY <4>1 DEF Joined
      <4> HIDE DEF held, P
      <4> QED
        BY <4>2, <4>3
    <3> HIDE DEF held
    <3> QED
      BY <3>1, <3>2
  <2>3. <<c, n>> \in coming <=> n \in created /\ Parent[c] = Parent[n] /\ Held(c) # None
    <3> HIDE DEF created
    <3> QED
      BY <2>1
  <2> HIDE DEF standing, coming, changing, created
  <2> QED
    BY <1>1, <2>2, <2>3
<1> HIDE DEF held, standing, coming
<1>5. ASSUME NEW c \in Controllers, NEW n \in Namespaces, \A w \in Worker : Running(w) => h[w].key # n
      PROVE  <<c, n>> \in AttachedNow <=> Plain(c, n)
  <2>1. \A ops : Doing(n, ops) = {}
    BY <1>5 DEF Doing, EffectiveIs, PastChange, IdleFrame
  <2> QED
    BY <1>4, <2>1
<1>6. ASSUME NEW c \in Controllers, NEW n \in Namespaces, NEW w \in Worker, Running(w),
             h[w].key = n
      PROVE  <<c, n>> \in AttachedNow <=>
               IF Effective(h[w])
               THEN h[w].op \in CreateOps /\ Parent[c] = Parent[n] /\ Held(c) # None
               ELSE Plain(c, n)
  <2>1. \A v \in Worker : Effective(h[v]) /\ h[v].key = n => v = w
    BY <1>6 DEF EffectiveIs, PastChange, IdleFrame, OInv, IInv, OneAtATime, Exclusive
  <2>2. \A ops : Doing(n, ops) = IF h[w].op \in ops /\ Effective(h[w]) THEN {w} ELSE {}
    BY <1>6, <2>1 DEF Doing
  <2>3. h[w].op \in NamespaceOps
    BY <1>6, RunningOn, FrontendAssumption DEF FrontendAssumption, OInv, Children
  <2>4. n \in changing <=> Effective(h[w])
    BY <2>2, <2>3
  <2>5. n \in created <=> h[w].op \in CreateOps /\ Effective(h[w])
    <3> HIDE DEF CreateOps
    <3> QED
      BY <2>2
  <2> HIDE DEF changing, created, CreateOps
  <2> QED
    BY <1>4, <2>4, <2>5
<1> QED
  BY <1>3, <1>5, <1>6 DEF AttachmentsAre

\* All of this holds in every state of every behaviour.
LEMMA AlwaysCatalogued ==
  ASSUME Waiting
  PROVE  Spec => []CInv
<1>1. OInv /\ AtRest => CInv
  BY EffectiveKnown, CatalogueKnown, AttachmentsKnown DEF CInv
<1> QED
  BY <1>1, AlwaysAtRest, PTL

---------------------------------------------------------------------------
(* What a step on one name leaves alone.                                   *)

\* A step of w on k, which it has to itself with all of k's subsystem; k may come
\* or go, and attachments of k with it.
OnStep(w, k) ==
  /\ WorksOn(w, k) /\ AloneOn(w, k) /\ k \in Keys
  /\ \A j \in Keys : j # k => Held(j)' = Held(j)

ComesOrGoes(k) == Held(k)' = Held(k) \/ Held(k) = None \/ Held(k)' = None

KeepsAtt(k) ==
  \A c \in Alive(Controllers), n \in Alive(Namespaces) :
    c # k /\ n # k /\ Parent[c] = Parent[n] =>
      (Attachment(c, n) \in fw'.att <=> Attachment(c, n) \in fw.att)

\* The other names are in the catalogue as before.
OthersStay(k) == \A j \in Keys : j # k => Catalogued(j)' = Catalogued(j)

\* A step on one name leaves the rest of the catalogue as it was.
LEMMA OthersCatalogued ==
  ASSUME CInv, CInv', NEW w \in Worker, NEW k, OnStep(w, k)
  PROVE  OthersStay(k)
<1> SUFFICES ASSUME NEW j \in Keys, j # k
             PROVE  Catalogued(j)' = Catalogued(j)
  BY DEF OthersStay
<1>1. \A v \in Worker : /\ Effective(h[v]) /\ h[v].key = j => h'[v] = h[v]
                        /\ Effective(h'[v]) /\ h'[v].key = j => h'[v] = h[v]
  <2>1. \A v \in Worker : /\ Effective(h[v]) => h[v].pc # "idle"
                          /\ Effective(h'[v]) => h'[v].pc # "idle"
    BY DEF CInv, EffectiveIs, PastChange, Running, IdleFrame
  <2> QED
    BY <2>1 DEF OnStep, WorksOn
<1>2. Leaving(j)' <=> Leaving(j)
  <2>1. Leaving(j)' <=> \E v \in Worker : /\ h'[v].op = "DeleteNvmeNamespace" /\ h'[v].key = j
                                           /\ Effective(h'[v])
    BY DEF Leaving, Effective
  <2> QED
    BY <1>1, <2>1 DEF Leaving
<1> QED
  BY <1>2 DEF CInv, CatalogueIs, OnStep

\* The attachments of other controllers and namespaces are seen as before.
OthersJoined(k) ==
  \A c \in Controllers, n \in Namespaces : c # k /\ n # k =>
    (<<c, n>> \in AttachedNow' <=> <<c, n>> \in AttachedNow)

\* ... and the attachments between other names,
LEMMA PlainElsewhere ==
  ASSUME CInv, CInv', NEW w \in Worker, NEW k, OnStep(w, k), ComesOrGoes(k), KeepsAtt(k),
         NEW c \in Controllers, NEW n \in Namespaces, c # k, n # k
  PROVE  Plain(c, n)' <=> Plain(c, n)
<1>1. /\ c \in Keys /\ n \in Keys /\ n \in Children /\ Parent[n] \in Keys
  BY Names DEF Children
<1>2. Held(c)' = Held(c) /\ Held(n)' = Held(n)
  BY <1>1 DEF OnStep
<1>3. CASE Held(c) # None /\ Held(n) # None /\ Parent[c] = Parent[n]
  <2>1. Held(Parent[n]) # None /\ Held(Parent[n])' # None
    BY <1>1, <1>2, <1>3 DEF CInv, OInv, Ordered, ObjectsHeld, Alive
  <2>2. Held(Parent[n])' = Held(Parent[n])
    BY <1>1, <2>1 DEF OnStep, ComesOrGoes
  <2>3. Attachment(c, n)' = Attachment(c, n)
    BY <1>2, <2>2 DEF Attachment
  <2>4. Attachment(c, n) \in fw'.att <=> Attachment(c, n) \in fw.att
    BY <1>3 DEF KeepsAtt, Alive
  <2> QED
    BY <1>2, <2>3, <2>4 DEF Plain
<1>4. CASE ~(Held(c) # None /\ Held(n) # None /\ Parent[c] = Parent[n])
  BY <1>2, <1>4 DEF Plain
<1> QED
  BY <1>3, <1>4

\* ... and so what the catalogue says of them.
LEMMA OthersAre ==
  ASSUME CInv, CInv', NEW w \in Worker, NEW k, OnStep(w, k), ComesOrGoes(k), KeepsAtt(k)
  PROVE  OthersJoined(k)
<1> SUFFICES ASSUME NEW c \in Controllers, NEW n \in Namespaces, c # k, n # k
             PROVE  <<c, n>> \in AttachedNow' <=> <<c, n>> \in AttachedNow
  BY DEF OthersJoined
<1>1. Plain(c, n)' <=> Plain(c, n)
  BY PlainElsewhere
<1>2. Held(c)' = Held(c)
  BY Names DEF OnStep, Children
<1>3. \A v \in Worker : /\ Running(v) /\ h[v].key = n => Running(v)' /\ h'[v] = h[v]
                        /\ Running(v)' /\ h'[v].key = n => Running(v) /\ h'[v] = h[v]
  BY DEF OnStep, WorksOn, Running
<1>4. CASE \A v \in Worker : Running(v) => h[v].key # n
  <2>1. \A v \in Worker : Running(v)' => h'[v].key # n
    BY <1>3, <1>4
  <2> QED
    BY <1>1, <1>4, <2>1 DEF CInv, AttachmentsAre
<1>5. ASSUME NEW v \in Worker, Running(v), h[v].key = n
      PROVE  <<c, n>> \in AttachedNow' <=> <<c, n>> \in AttachedNow
  <2>1. Running(v)' /\ h'[v] = h[v]
    BY <1>3, <1>5
  <2>2. Effective(h[v])' <=> Effective(h[v])
    BY <2>1 DEF Effective
  <2>3. <<c, n>> \in AttachedNow <=>
          IF Effective(h[v])
          THEN h[v].op \in CreateOps /\ Parent[c] = Parent[n] /\ Held(c) # None
          ELSE Plain(c, n)
    BY <1>5 DEF CInv, AttachmentsAre
  <2>4. <<c, n>> \in AttachedNow' <=>
          IF Effective(h[v])'
          THEN h'[v].op \in CreateOps /\ Parent[c] = Parent[n] /\ Held(c)' # None
          ELSE Plain(c, n)'
    BY <1>5, <2>1 DEF CInv, AttachmentsAre
  <2> QED
    BY <1>1, <1>2, <2>1, <2>2, <2>3, <2>4
<1> QED
  BY <1>4, <1>5

\* A controller that a handler has to itself is attached where the application has
\* attached it.
LEMMA OwnController ==
  ASSUME CInv, CInv', NEW w \in Worker, NEW k \in Controllers, OnStep(w, k),
         NEW n \in Namespaces
  PROVE  /\ <<k, n>> \in AttachedNow <=> Plain(k, n)
         /\ <<k, n>> \in AttachedNow' <=> Plain(k, n)'
<1>1. Root(k) = Parent[k] /\ Root(n) = Parent[n] /\ n # k
  BY Names, FrontendAssumption DEF FrontendAssumption, Children
<1>2. CASE Parent[k] = Parent[n]
  <2>1. \A v \in Worker : /\ Running(v) => h[v].key # n
                          /\ Running(v)' => h'[v].key # n
    BY <1>1, <1>2 DEF OnStep, WorksOn, AloneOn, Running
  <2> QED
    BY <2>1 DEF CInv, AttachmentsAre
<1>3. CASE Parent[k] # Parent[n]
  <2>1. ~Plain(k, n) /\ ~Plain(k, n)'
    BY <1>3 DEF Plain
  <2>2. <<k, n>> \notin AttachedNow
    BY <1>3, <2>1 DEF CInv, AttachmentsAre
  <2>3. <<k, n>> \notin AttachedNow'
    BY <1>3, <2>1 DEF CInv, AttachmentsAre
  <2> QED
    BY <2>1, <2>2, <2>3
<1> QED
  BY <1>2, <1>3

---------------------------------------------------------------------------
(* The catalogue's steps.                                                  *)

\* If only one name may have changed, the catalogue changes there.
LEMMA CatalogueMoves ==
  ASSUME NEW k \in Keys, OthersStay(k)
  PROVE  CatalogueNow' = [CatalogueNow EXCEPT ![k] = Catalogued(k)']
<1>1. CatalogueNow' = [j \in Keys |-> Catalogued(j)']
  BY DEF CatalogueNow
<1> QED
  BY <1>1 DEF CatalogueNow, OthersStay

\* If only one worker has moved, the requests change there.
LEMMA RequestMoves ==
  ASSUME NEW w \in Worker, NEW k, WorksOn(w, k)
  PROVE  /\ RequestNow' = [RequestNow EXCEPT ![w] = RequestOf(h'[w])]
         /\ RequestNow[w] = RequestOf(h[w])
         /\ RequestNow \in [Worker -> {RequestOf(h[v]) : v \in Worker}]
<1>1. /\ RequestNow = [v \in Worker |-> RequestOf(h[v])]
      /\ RequestNow' = [v \in Worker |-> RequestOf(h'[v])]
  BY DEF RequestNow, RequestOf, Effective
<1>2. \A v \in Worker : v # w => RequestOf(h'[v]) = RequestOf(h[v])
  BY DEF WorksOn
<1> QED
  BY <1>1, <1>2

\* Nothing that the catalogue shows has changed.
LEMMA Unseen ==
  ASSUME CInv, CInv', NEW w \in Worker, NEW k, OnStep(w, k), Catalogued(k)' = Catalogued(k),
         AttachedNow' = AttachedNow, reply' = reply, RequestOf(h'[w]) = RequestOf(h[w])
  PROVE  UNCHANGED C!vars
<1>1. RequestNow' = RequestNow
  BY RequestMoves DEF OnStep
<1>2. CatalogueNow' = CatalogueNow
  BY OthersCatalogued, CatalogueMoves DEF OnStep, CatalogueNow
<1> QED
  BY <1>1, <1>2 DEF C!vars

\* A step from which a request is done is the catalogue's TakeEffect of it.
LEMMA TakesEffect ==
  ASSUME NEW w \in Worker, NEW k, WorksOn(w, k), reply' = reply,
         h'[w].op = h[w].op, h'[w].key = h[w].key, ~Effective(h[w]), Effective(h'[w])
  PROVE  C!TakeEffect(w) /\ RequestNow[w] = RequestOf(h[w]) /\ ~RequestNow[w].done
<1>1. /\ RequestNow' = [RequestNow EXCEPT ![w] = RequestOf(h'[w])]
      /\ RequestNow[w] = RequestOf(h[w])
  BY RequestMoves
<1>2. /\ RequestOf(h'[w]) = [RequestOf(h[w]) EXCEPT !.done = TRUE, !.want = None]
      /\ ~RequestOf(h[w]).done
  <2>1. Effective(h[w]) = FALSE /\ Effective(h'[w]) = TRUE
    BY DEF Effective
  <2> DEFINE x == IF h[w].op \in DeleteOps THEN None ELSE h[w].obj
  <2>2. RequestOf(h[w]) = [op |-> h[w].op, key |-> h[w].key, want |-> x, done |-> FALSE]
    BY <2>1 DEF RequestOf
  <2>3. RequestOf(h'[w]) = [op |-> h[w].op, key |-> h[w].key, want |-> None, done |-> TRUE]
    BY <2>1 DEF RequestOf
  <2> HIDE DEF x
  <2>4. ~RequestOf(h[w]).done
    BY <2>2
  <2> DEFINE S == [op : {h[w].op}, key : {h[w].key}, want : {x, None}, done : BOOLEAN]
             a == [RequestOf(h[w]) EXCEPT !.done = TRUE]
             b == [a EXCEPT !.want = None]
  <2>5. a \in S /\ a.op = h[w].op /\ a.key = h[w].key /\ a.want = x /\ a.done = TRUE
    <3>1. /\ RequestOf(h[w]) \in S /\ RequestOf(h[w]).op = h[w].op
          /\ RequestOf(h[w]).key = h[w].key /\ RequestOf(h[w]).want = x
      BY <2>2
    <3> QED
      BY <3>1
  <2> HIDE DEF a
  <2>6. b \in S /\ b.op = h[w].op /\ b.key = h[w].key /\ b.want = None /\ b.done = TRUE
    BY <2>5
  <2>7. RequestOf(h'[w]) \in S
    BY <2>3
  <2> HIDE DEF b
  <2>8. b = RequestOf(h'[w])
    BY <2>3, <2>6, <2>7
  <2> QED
    BY <2>4, <2>8 DEF a, b
<1> QED
  BY <1>1, <1>2 DEF C!TakeEffect

\* The object of a delete disappears, and every attachment of it.
LEMMA Deleted ==
  ASSUME CInv, CInv', NEW w \in Worker, NEW k, k = h[w].key, OnStep(w, k), reply' = reply,
         h'[w].op = h[w].op, h'[w].key = k, h[w].op \in DeleteOps,
         ~Effective(h[w]), Effective(h'[w]), Catalogued(k)' = None, OthersJoined(k),
         \A x \in Keys : <<x, k>> \notin AttachedNow' /\ <<k, x>> \notin AttachedNow',
         k \in Subsystems => C!ChildrenOf(k) = {}
  PROVE  C!Delete(w)
<1>1. C!TakeEffect(w) /\ RequestNow[w] = RequestOf(h[w]) /\ ~RequestNow[w].done
  BY TakesEffect DEF OnStep
<1>2. RequestNow[w].key = k /\ RequestNow[w].op \in C!Deletes
  BY <1>1 DEF RequestOf, C!Deletes
<1>3. CatalogueNow' = [CatalogueNow EXCEPT ![k] = None]
  BY OthersCatalogued, CatalogueMoves DEF OnStep
<1>4. AttachedNow' = {a \in AttachedNow : k \notin {a[1], a[2]}}
  <2>1. /\ AttachedNow \subseteq Controllers \X Namespaces
        /\ AttachedNow' \subseteq Controllers \X Namespaces
    BY DEF CInv, AttachmentsAre
  <2>2. Controllers \cup Namespaces \subseteq Keys
    BY DEF Keys, Children
  <2>3. ASSUME NEW a \in Controllers \X Namespaces
        PROVE  a \in AttachedNow' <=> a \in AttachedNow /\ k \notin {a[1], a[2]}
    <3>1. PICK c \in Controllers, n \in Namespaces : a = <<c, n>>
      OBVIOUS
    <3>2. a[1] = c /\ a[2] = n /\ c \in Keys /\ n \in Keys
      BY <2>2, <3>1
    <3> QED
      BY <3>1, <3>2 DEF OthersJoined
  <2> QED
    BY <2>1, <2>3
<1> QED
  BY <1>1, <1>2, <1>3, <1>4 DEF C!Delete, C!Pending

\* A new object appears, a namespace with its attachments.
LEMMA Created ==
  ASSUME CInv, CInv', NEW w \in Worker, NEW k, k = h[w].key, OnStep(w, k), reply' = reply,
         h'[w].op = h[w].op, h'[w].key = k, h[w].op \in CreateOps,
         ~Effective(h[w]), Effective(h'[w]),
         k \in Children => Catalogued(Parent[k]) # None,
         Catalogued(k)' \in C!Grants(k, h[w].obj),
         AttachedNow' = IF k \in Namespaces THEN AttachedNow \cup (C!Partners(k) \X {k})
                        ELSE AttachedNow
  PROVE  C!Create(w)
<1>1. C!TakeEffect(w) /\ RequestNow[w] = RequestOf(h[w]) /\ ~RequestNow[w].done
  BY TakesEffect DEF OnStep
<1>2. /\ RequestNow[w].key = k /\ RequestNow[w].op \in C!Creates
      /\ RequestNow[w].want = h[w].obj
  BY <1>1 DEF RequestOf, C!Creates
<1>3. CatalogueNow' = [CatalogueNow EXCEPT ![k] = Catalogued(k)']
  BY OthersCatalogued, CatalogueMoves DEF OnStep
<1>4. k \in C!Children => C!Exists(Parent[k])
  <2>1. k \in Children => CatalogueNow[Parent[k]] # None
    BY Names DEF CatalogueNow
  <2> QED
    BY <2>1 DEF C!Children, C!Exists, Children
<1> QED
  BY <1>1, <1>2, <1>3, <1>4 DEF C!Create, C!Pending

\* An idle handler has no request.
LEMMA IdleRequest == RequestOf(IdleFrame) = C!NoRequest
<1>1. /\ IdleFrame.op = "none" /\ IdleFrame.key = None /\ IdleFrame.obj = None
      /\ Effective(IdleFrame) = FALSE
  BY DEF IdleFrame, Effective
<1> QED
  BY <1>1 DEF RequestOf, C!NoRequest

\* A handler that returns leaves the catalogue as it is.
LEMMA Returned ==
  ASSUME CInv, CInv', NEW w \in Worker, NEW k, OnStep(w, k), Running(w), k = h[w].key,
         h'[w] = IdleFrame, Catalogued(k)' = Catalogued(k)
  PROVE  /\ CatalogueNow' = CatalogueNow
         /\ RequestNow' = [RequestNow EXCEPT ![w] = C!NoRequest]
         /\ RequestNow[w] = RequestOf(h[w])
<1>1. CatalogueNow' = CatalogueNow
  BY OthersCatalogued, CatalogueMoves DEF OnStep, CatalogueNow
<1>2. /\ RequestNow' = [RequestNow EXCEPT ![w] = RequestOf(h'[w])]
      /\ RequestNow[w] = RequestOf(h[w])
  BY RequestMoves DEF OnStep
<1>3. RequestOf(IdleFrame) = C!NoRequest
  BY IdleRequest
<1> QED
  BY <1>1, <1>2, <1>3

\* A request that has not had its effect is given up.
LEMMA RefusedRequest ==
  ASSUME CInv, CInv', NEW w \in Worker, NEW k, OnStep(w, k), Running(w), k = h[w].key,
         h'[w] = IdleFrame, Catalogued(k)' = Catalogued(k), AttachedNow' = AttachedNow,
         ~Effective(h[w]), NEW code, reply' = [reply EXCEPT ![w] = code],
         \/ code = "NotFound" /\ k \in Children /\ Catalogued(Parent[k]) = None
         \/ code = "Failed" /\ C!Impossible(h[w].op, k, RequestOf(h[w]).want)
  PROVE  C!Refuse(w)
<1>1. /\ CatalogueNow' = CatalogueNow
      /\ RequestNow' = [RequestNow EXCEPT ![w] = C!NoRequest]
      /\ RequestNow[w] = RequestOf(h[w])
  BY Returned
<1>2. /\ RequestNow[w].op = h[w].op /\ RequestNow[w].key = k /\ ~RequestNow[w].done
  BY <1>1 DEF RequestOf
<1>3. C!Pending(w, C!Creates \cup C!Deletes \cup C!Updates)
  <2>1. h[w].op \in MutatingOps
    BY RunningOn DEF CInv, OInv
  <2> QED
    BY <1>2, <2>1 DEF C!Pending, C!Creates, C!Deletes, C!Updates
<1>4. k \in Children /\ Catalogued(Parent[k]) = None => k \in C!Children /\ ~C!Exists(Parent[k])
  BY Names DEF CatalogueNow, C!Children, C!Exists, Children
<1>5. \/ /\ RequestNow[w].key \in C!Children /\ ~C!Exists(Parent[RequestNow[w].key])
         /\ code = "NotFound"
      \/ /\ C!Impossible(RequestNow[w].op, RequestNow[w].key, RequestNow[w].want)
         /\ code = "Failed"
  BY <1>1, <1>2, <1>4
<1> QED
  BY <1>1, <1>3, <1>5 DEF C!Refuse

\* A request that has had its effect is answered with OK.
LEMMA Confirmed ==
  ASSUME CInv, CInv', NEW w \in Worker, NEW k, OnStep(w, k), Running(w), k = h[w].key,
         h'[w] = IdleFrame, Catalogued(k)' = Catalogued(k), AttachedNow' = AttachedNow,
         Effective(h[w]), reply' = [reply EXCEPT ![w] = "OK"]
  PROVE  C!Confirm(w)
<1>1. /\ CatalogueNow' = CatalogueNow
      /\ RequestNow' = [RequestNow EXCEPT ![w] = C!NoRequest]
      /\ RequestNow[w] = RequestOf(h[w])
  BY Returned
<1> QED
  BY <1>1 DEF C!Confirm, RequestOf

---------------------------------------------------------------------------
(* What the catalogue shows of the name a handler works on.                *)

\* Handlers that delete the namespaces of a name others do not work on.
LEMMA CataloguedBy ==
  ASSUME CInv, NEW w \in Worker, NEW k, OnStep(w, k)
  PROVE  Catalogued(k) = IF h[w].op = "DeleteNvmeNamespace" /\ Effective(h[w])
                         THEN None ELSE Held(k)
<1>1. Leaving(k) <=> h[w].op = "DeleteNvmeNamespace" /\ Effective(h[w])
  <2>1. \A v \in Worker : Effective(h[v]) => Running(v)
    BY DEF CInv, EffectiveIs, PastChange, IdleFrame
  <2>2. Running(w) => h[w].key = k
    BY DEF OnStep, WorksOn, Running
  <2> QED
    BY <2>1, <2>2 DEF Leaving, OnStep, AloneOn
<1> QED
  BY <1>1 DEF CInv, CatalogueIs, OnStep

\* The same of the next state.
LEMMA CataloguedNext ==
  ASSUME CInv, CInv', NEW w \in Worker, NEW k, OnStep(w, k)
  PROVE  Catalogued(k)' = IF h'[w].op = "DeleteNvmeNamespace" /\ Effective(h'[w])
                          THEN None ELSE Held(k)'
<1>0. \A v \in Worker : Effective(h[v])' <=> Effective(h'[v])
  BY DEF Effective
<1>1. Leaving(k)' <=> h'[w].op = "DeleteNvmeNamespace" /\ Effective(h'[w])
  <2>1. \A v \in Worker : Effective(h'[v]) => Running(v)'
    BY <1>0 DEF CInv, EffectiveIs, PastChange, IdleFrame
  <2>2. Running(w)' => h'[w].key = k
    BY DEF OnStep, WorksOn, Running
  <2>3. \A v \in Worker : v # w /\ Running(v)' => h'[v].key # k
    BY DEF OnStep, WorksOn, AloneOn, Running
  <2>4. Leaving(k)' <=> \E v \in Worker : /\ h'[v].op = "DeleteNvmeNamespace" /\ h'[v].key = k
                                           /\ Effective(h'[v])
    BY <1>0 DEF Leaving
  <2> QED
    BY <2>1, <2>2, <2>3, <2>4
<1> QED
  BY <1>1 DEF CInv, CatalogueIs, OnStep

\* The names of the subsystem of a handler's name.
AroundHeld(k) == \A j \in Keys : Root(j) = Root(k) /\ j # k => Catalogued(j) = Held(j)

\* They have no handler, and the catalogue has what they hold.
LEMMA Around ==
  ASSUME CInv, NEW w \in Worker, NEW k, OnStep(w, k)
  PROVE  AroundHeld(k)
<1> SUFFICES ASSUME NEW j \in Keys, Root(j) = Root(k), j # k
             PROVE  Catalogued(j) = Held(j)
  BY DEF AroundHeld
<1>1. \A v \in Worker : Effective(h[v]) => Running(v)
  BY DEF CInv, EffectiveIs, PastChange, IdleFrame
<1>2. \A v \in Worker : Running(v) => h[v].key # j
  BY DEF OnStep, WorksOn, AloneOn, Running
<1>3. ~Leaving(j)
  BY <1>1, <1>2 DEF Leaving
<1> QED
  BY <1>3 DEF CInv, CatalogueIs

\* The attachments of a namespace of the handler in an effective request are those
\* of the catalogue, else those of the application.
LEMMA OwnNamespace ==
  ASSUME CInv, CInv', NEW w \in Worker, NEW n \in Namespaces, OnStep(w, n),
         NEW c \in Controllers
  PROVE  /\ <<c, n>> \in AttachedNow <=>
              IF Running(w) /\ Effective(h[w])
              THEN h[w].op \in CreateOps /\ Parent[c] = Parent[n] /\ Held(c) # None
              ELSE Plain(c, n)
         /\ <<c, n>> \in AttachedNow' <=>
              IF Running(w)' /\ Effective(h'[w])
              THEN h'[w].op \in CreateOps /\ Parent[c] = Parent[n] /\ Held(c)' # None
              ELSE Plain(c, n)'
<1>1. /\ Running(w) => h[w].key = n
      /\ Running(w)' => h'[w].key = n
      /\ \A v \in Worker : v # w => /\ Running(v) => h[v].key # n
                                    /\ Running(v)' => h'[v].key # n
  BY DEF OnStep, WorksOn, AloneOn, Running
<1>2. Effective(h[w])' <=> Effective(h'[w])
  BY DEF Effective
<1>3. <<c, n>> \in AttachedNow <=>
        IF Running(w) /\ Effective(h[w])
        THEN h[w].op \in CreateOps /\ Parent[c] = Parent[n] /\ Held(c) # None
        ELSE Plain(c, n)
  BY <1>1 DEF CInv, AttachmentsAre
<1>4. <<c, n>> \in AttachedNow' <=>
        IF Running(w)' /\ Effective(h'[w])
        THEN h'[w].op \in CreateOps /\ Parent[c] = Parent[n] /\ Held(c)' # None
        ELSE Plain(c, n)'
  <2>1. CASE Running(w)'
    BY <1>1, <1>2, <2>1 DEF CInv, AttachmentsAre
  <2>2. CASE ~Running(w)'
    BY <1>1, <2>2 DEF CInv, AttachmentsAre
  <2> QED
    BY <2>1, <2>2
<1> QED
  BY <1>3, <1>4

\* When the attachments of the handler's name stay, all do.
LEMMA AttachedAsBefore ==
  ASSUME CInv, CInv', NEW w \in Worker, NEW k, OnStep(w, k), ComesOrGoes(k), KeepsAtt(k),
         k \in Controllers => \A n \in Namespaces : Plain(k, n)' <=> Plain(k, n),
         k \in Namespaces =>
           \A c \in Controllers : <<c, k>> \in AttachedNow' <=> <<c, k>> \in AttachedNow
  PROVE  AttachedNow' = AttachedNow
<1>1. /\ AttachedNow \subseteq Controllers \X Namespaces
      /\ AttachedNow' \subseteq Controllers \X Namespaces
  BY DEF CInv, AttachmentsAre
<1>2. ASSUME NEW c \in Controllers, NEW n \in Namespaces
      PROVE  <<c, n>> \in AttachedNow' <=> <<c, n>> \in AttachedNow
  <2>1. CASE c # k /\ n # k
    BY <2>1, OthersAre DEF OthersJoined
  <2>2. CASE c = k
    BY <2>2, OwnController
  <2>3. CASE n = k
    BY <2>3
  <2> QED
    BY <2>1, <2>2, <2>3
<1> QED
  BY <1>1, <1>2

\* A step that changes neither what names hold nor the application.
Unmoved(k) == Held(k)' = Held(k) /\ fw' = fw

\* It leaves every attachment in the application.
LEMMA PlainSame ==
  ASSUME NEW w \in Worker, NEW k, OnStep(w, k), Unmoved(k),
         NEW c \in Controllers, NEW n \in Namespaces
  PROVE  Plain(c, n)' <=> Plain(c, n)
<1>1. c \in Keys /\ n \in Keys /\ Parent[n] \in Keys
  BY Names DEF Children
<1>2. \A j \in Keys : Held(j)' = Held(j)
  BY DEF OnStep, Unmoved
<1>3. Attachment(c, n)' = Attachment(c, n)
  BY <1>1, <1>2 DEF Attachment
<1> QED
  BY <1>1, <1>2, <1>3 DEF Plain, Unmoved

\* A step of a request that is as effective as before is not seen if it changes
\* neither.
LEMMA QuietUnseen ==
  ASSUME CInv, CInv', NEW w \in Worker, NEW k, OnStep(w, k), Running(w), Running(w)',
         Unmoved(k), h'[w].op = h[w].op, Effective(h'[w]) <=> Effective(h[w])
  PROVE  Catalogued(k)' = Catalogued(k) /\ AttachedNow' = AttachedNow
<1>1. Catalogued(k)' = Catalogued(k)
  BY CataloguedBy, CataloguedNext DEF Unmoved
<1>2. ComesOrGoes(k) /\ KeepsAtt(k)
  BY DEF ComesOrGoes, KeepsAtt, Unmoved
<1>3. \A c \in Controllers, n \in Namespaces : Plain(c, n)' <=> Plain(c, n)
  BY PlainSame
<1>4. ASSUME k \in Namespaces, NEW c \in Controllers
      PROVE  <<c, k>> \in AttachedNow' <=> <<c, k>> \in AttachedNow
  <2>1. Held(c)' = Held(c)
    BY Names DEF OnStep, Unmoved, Children
  <2> HIDE DEF CreateOps
  <2> QED
    BY <1>3, <1>4, <2>1, OwnNamespace
<1> QED
  BY <1>1, <1>2, <1>3, <1>4, AttachedAsBefore

---------------------------------------------------------------------------
(* Steps that the catalogue does not see.                                  *)

\* A step on a request that stays as effective as it was.
LEMMA QuietFrame ==
  ASSUME CInv, CInv', NEW w \in Worker, Running(w), NEW k, k = h[w].key, NEW g, Proceeds(w, g),
         UNCHANGED <<store, fw>>, g.key = k, g.op = h[w].op, g.obj = h[w].obj, g.pc # "idle",
         PastChange(g) <=> PastChange(h[w]), Effective(g) <=> Effective(h[w])
  PROVE  UNCHANGED C!vars
<1>1. h' = [h EXCEPT ![w] = g] /\ reply' = reply /\ IInv /\ IInv' /\ OInv
  BY DEF Proceeds, CInv, OInv
<1>2. OnStep(w, k) /\ h'[w] = g
  BY <1>1, OwnStep DEF OnStep
<1>3. Running(w)'
  BY <1>2 DEF Running
<1>4. Held(k)' = Held(k)
  <2>1. /\ Past(w, k) <=> h[w].op \in CreateOps \cup DeleteOps /\ PastChange(h[w])
        /\ Past(w, k)' <=> h[w].op \in CreateOps \cup DeleteOps /\ PastChange(h[w])
    BY <1>2 DEF Past, PastChange
  <2> HIDE DEF CreateOps, DeleteOps
  <2> QED
    BY <1>1, <1>2, <1>3, <2>1, HeldBy, HeldByNext
<1>5. Catalogued(k)' = Catalogued(k) /\ AttachedNow' = AttachedNow
  BY <1>2, <1>3, <1>4, QuietUnseen DEF Unmoved
<1>6. RequestOf(h'[w]) = RequestOf(h[w])
  <2>1. CASE Effective(h[w])
    <3>1. Effective(g) = TRUE /\ Effective(h[w]) = TRUE
      BY <2>1 DEF Effective
    <3> QED
      BY <1>2, <3>1 DEF RequestOf
  <2>2. CASE ~Effective(h[w])
    <3>1. Effective(g) = FALSE /\ Effective(h[w]) = FALSE
      BY <2>2 DEF Effective
    <3> QED
      BY <1>2, <3>1 DEF RequestOf
  <2> QED
    BY <2>1, <2>2
<1> QED
  BY <1>1, <1>2, <1>5, <1>6, Unseen

\* The quiet steps of the handlers: a look at other records, a change of
\* ListHelper, an iteration of a loop.
LEMMA QuietSteps ==
  ASSUME CInv, CInv', NEW w \in Worker, Running(w),
         \/ Scanned(w) \/ (Fetched(w) /\ h[w].op # "DeleteNvmeNamespace") \/ Listed(w)
         \/ Ranged(w) \/ Picked(w) \/ LoopLeft(w) \/ GotId(w)
  PROVE  UNCHANGED C!vars
<1>1. /\ h[w] \in Frames /\ h[w].op \in MutatingOps /\ h[w].pc \in StepsOf(h[w].op)
  BY RunningOn DEF CInv, OInv, Ordered, Going
<1>2. CASE Scanned(w)
  <2> DEFINE g == [h[w] EXCEPT !.pc = "rpc"]
  <2>1. /\ g.op = h[w].op /\ g.key = h[w].key /\ g.obj = h[w].obj /\ g.pc = "rpc"
        /\ h[w].op = "CreateNvmeSubsystem" /\ h[w].pc = "scan"
    BY <1>1, <1>2 DEF Scanned, At, Frames
  <2>2. Proceeds(w, g) /\ UNCHANGED <<store, fw>>
    BY <1>2 DEF Scanned
  <2> HIDE DEF g
  <2>3. (PastChange(g) <=> PastChange(h[w])) /\ (Effective(g) <=> Effective(h[w]))
    BY <1>1, <1>2, <2>1 DEF PastChange, Effective, StepsOf
  <2> QED
    BY <2>1, <2>2, <2>3, QuietFrame
<1>3. CASE Fetched(w) /\ h[w].op # "DeleteNvmeNamespace"
  <2> DEFINE g == [h[w] EXCEPT !.nqn = store[Root(h[w].key)], !.pc = "rpc"]
  <2>1. /\ g.op = h[w].op /\ g.key = h[w].key /\ g.obj = h[w].obj /\ g.pc = "rpc"
        /\ h[w].pc = "parent" /\ h[w].op # "DeleteNvmeNamespace"
    BY <1>1, <1>3 DEF Fetched, At, Frames
  <2>2. Proceeds(w, g) /\ UNCHANGED <<store, fw>>
    BY <1>3 DEF Fetched
  <2> HIDE DEF g
  <2>3. (PastChange(g) <=> PastChange(h[w])) /\ (Effective(g) <=> Effective(h[w]))
    BY <1>1, <1>3, <2>1 DEF PastChange, Effective, StepsOf
  <2> QED
    BY <2>1, <2>2, <2>3, QuietFrame
<1>4. CASE Listed(w)
  <2> DEFINE g == [h[w] EXCEPT !.pc = IF h[w].pc = "list" THEN "save" ELSE "erase"]
  <2>1. /\ g.op = h[w].op /\ g.key = h[w].key /\ g.obj = h[w].obj /\ g.pc = (IF h[w].pc = "list" THEN "save" ELSE "erase")
        /\ h[w].pc \in {"list", "unlist"}
    BY <1>1, <1>4 DEF Listed, At, Frames
  <2>2. Proceeds(w, g) /\ UNCHANGED <<store, fw>>
    BY <1>4 DEF Listed
  <2> HIDE DEF g
  <2>3. (PastChange(g) <=> PastChange(h[w])) /\ (Effective(g) <=> Effective(h[w]))
    BY <1>1, <1>4, <2>1 DEF PastChange, Effective, StepsOf
  <2> QED
    BY <2>1, <2>2, <2>3, QuietFrame
<1>5. CASE Ranged(w)
  <2> DEFINE g == [h[w] EXCEPT !.todo = Siblings(Root(h[w].key)), !.pc = "loop"]
  <2>1. /\ g.op = h[w].op /\ g.key = h[w].key /\ g.obj = h[w].obj /\ g.pc = "loop"
        /\ h[w].op \in NamespaceOps /\ h[w].pc = "range"
    BY <1>1, <1>5 DEF Ranged, At, Frames
  <2>2. Proceeds(w, g) /\ UNCHANGED <<store, fw>>
    BY <1>5 DEF Ranged
  <2> HIDE DEF g
  <2>3. (PastChange(g) <=> PastChange(h[w])) /\ (Effective(g) <=> Effective(h[w]))
    BY <1>1, <1>5, <2>1 DEF PastChange, Effective, StepsOf
  <2> QED
    BY <2>1, <2>2, <2>3, QuietFrame
<1>6. ASSUME Picked(w)
      PROVE  UNCHANGED C!vars
  <2>1. PICK c \in Siblings(Root(h[w].key)) \ h[w].seen :
          Proceeds(w, [h[w] EXCEPT !.seen = h[w].seen \cup {c}, !.cur = c, !.pc = "get"])
    BY <1>6 DEF Picked
  <2> DEFINE g == [h[w] EXCEPT !.seen = h[w].seen \cup {c}, !.cur = c, !.pc = "get"]
  <2>2. /\ g.op = h[w].op /\ g.key = h[w].key /\ g.obj = h[w].obj /\ g.pc = "get"
        /\ h[w].op \in NamespaceOps /\ h[w].pc = "loop" /\ UNCHANGED <<store, fw>>
    BY <1>1, <1>6 DEF Picked, Frames
  <2>3. Proceeds(w, g)
    BY <2>1
  <2> HIDE DEF g
  <2>4. (PastChange(g) <=> PastChange(h[w])) /\ (Effective(g) <=> Effective(h[w]))
    BY <1>1, <2>2 DEF PastChange, Effective, StepsOf
  <2> QED
    BY <2>2, <2>3, <2>4, QuietFrame
<1>7. CASE LoopLeft(w)
  <2> DEFINE g == [h[w] EXCEPT !.pc = IF h[w].op = "DeleteNvmeNamespace" THEN "rpc" ELSE "list",
                             !.cur = None, !.ctl = None, !.todo = {}, !.seen = {}]
  <2>1. /\ g.op = h[w].op /\ g.key = h[w].key /\ g.obj = h[w].obj /\ g.pc = (IF h[w].op = "DeleteNvmeNamespace" THEN "rpc" ELSE "list")
        /\ h[w].op \in NamespaceOps /\ h[w].pc = "loop"
    BY <1>1, <1>7 DEF LoopLeft, At, Frames
  <2>2. Proceeds(w, g) /\ UNCHANGED <<store, fw>>
    BY <1>7 DEF LoopLeft
  <2> HIDE DEF g
  <2>3. (PastChange(g) <=> PastChange(h[w])) /\ (Effective(g) <=> Effective(h[w]))
    BY <1>1, <1>7, <2>1 DEF PastChange, Effective, StepsOf
  <2> QED
    BY <2>1, <2>2, <2>3, QuietFrame
<1>8. CASE GotId(w)
  <2> DEFINE g == [h[w] EXCEPT !.ctl = store[h[w].cur], !.pc = "call"]
  <2>1. /\ g.op = h[w].op /\ g.key = h[w].key /\ g.obj = h[w].obj /\ g.pc = "call"
        /\ h[w].op \in NamespaceOps /\ h[w].pc = "get"
    BY <1>1, <1>8 DEF GotId, At, Frames
  <2>2. Proceeds(w, g) /\ UNCHANGED <<store, fw>>
    BY <1>8 DEF GotId
  <2> HIDE DEF g
  <2>3. (PastChange(g) <=> PastChange(h[w])) /\ (Effective(g) <=> Effective(h[w]))
    BY <1>1, <1>8, <2>1 DEF PastChange, Effective, StepsOf
  <2> QED
    BY <2>1, <2>2, <2>3, QuietFrame
<1> QED
  BY <1>2, <1>3, <1>4, <1>5, <1>6, <1>7, <1>8

\* An attachment tells its controller and its namespace.
LEMMA OwnAttachment ==
  ASSUME OInv, NEW c \in Alive(Controllers), NEW d \in Alive(Controllers),
         NEW n \in Alive(Namespaces), NEW m \in Alive(Namespaces),
         Parent[c] = Parent[n], Parent[d] = Parent[m], Attachment(c, n) = Attachment(d, m)
  PROVE  c = d /\ n = m
<1>1. Held(Parent[n]) = Held(Parent[m]) /\ Held(c) = Held(d) /\ Held(n) = Held(m)
  BY DEF Attachment
<1>2. Held(Parent[n]) # None /\ Parent[n] \in Subsystems /\ Parent[m] \in Subsystems
  BY FrontendAssumption DEF FrontendAssumption, OInv, Ordered, ObjectsHeld, Alive, Children
<1>3. Parent[n] = Parent[m]
  BY <1>1, <1>2 DEF OInv, Ordered, ObjectsHeld, Alive
<1> QED
  BY <1>1, <1>3 DEF OInv, Ordered, ObjectsHeld

\* While its attachments are made or removed, the catalogue has those the namespace
\* will have, and a namespace that is removed is in it no more.
LEMMA NamespaceCallsUnseen ==
  ASSUME CInv, CInv', NEW w \in Worker, Running(w),
         Attached(w) \/ Detached(w) \/ RemovedNamespace(w)
  PROVE  UNCHANGED C!vars
<1>1. PICK k : k = h[w].key
  OBVIOUS
<1>2. OInv /\ IInv /\ IInv' /\ OInv'
  BY DEF CInv, OInv
<1>3. PICK next : /\ next = IF h[w].pc = "rpc" THEN "unlist" ELSE "loop"
                  /\ TookOn(w, k, next, h[w].obj)
  BY <1>1, <1>2, TakesOn DEF Attached, Detached, RemovedNamespace, At
<1>4. /\ OnStep(w, k) /\ reply' = reply /\ Running(w)'
      /\ h'[w].op = h[w].op /\ h'[w].key = k /\ h'[w].pc = next /\ h'[w].obj = h[w].obj
  BY <1>3 DEF TookOn, OnStep
<1>5. k \in Namespaces
  BY <1>1, <1>2, RunningOn DEF Attached, Detached, RemovedNamespace, At
<1>6. Effective(h[w]) /\ Effective(h'[w])
  BY <1>3, <1>4 DEF Attached, Detached, RemovedNamespace, At, Effective
<1>7. RequestOf(h'[w]) = RequestOf(h[w])
  <2>1. Effective(h[w]) = TRUE /\ Effective(h'[w]) = TRUE
    BY <1>6 DEF Effective
  <2> QED
    BY <1>1, <1>4, <2>1 DEF RequestOf
<1>8. /\ Catalogued(k)' = Catalogued(k)
      /\ ComesOrGoes(k)
  <2>1. CASE Attached(w)
    <3>1. Past(w, k) /\ Past(w, k)' /\ h[w].op \in CreateOps
      BY <1>1, <1>3, <1>4, <2>1 DEF Attached, At, Past, PastChange
    <3>2. Held(k) = h[w].obj /\ Held(k)' = h'[w].obj
      BY <1>1, <1>2, <1>4, <3>1, HeldBy, HeldByNext
    <3> QED
      BY <1>4, <2>1, <3>2, CataloguedBy, CataloguedNext DEF Attached, At, ComesOrGoes
  <2>2. CASE Detached(w)
    <3>1. /\ Catalogued(k) = None /\ Catalogued(k)' = None
      BY <1>4, <1>6, <2>2, CataloguedBy, CataloguedNext DEF Detached, At
    <3>2. ~Past(w, k) /\ ~Past(w, k)'
      BY <1>1, <1>3, <1>4, <2>2 DEF Detached, At, Past, PastChange
    <3> QED
      BY <1>1, <1>2, <1>3, <1>4, <3>1, <3>2, HeldBy, HeldByNext DEF ComesOrGoes, TookOn
  <2>3. CASE RemovedNamespace(w)
    <3>1. /\ Catalogued(k) = None /\ Catalogued(k)' = None
      BY <1>4, <1>6, <2>3, CataloguedBy, CataloguedNext DEF RemovedNamespace, At
    <3>2. Past(w, k)' /\ h'[w].op \notin CreateOps
      BY <1>1, <1>3, <1>4, <2>3 DEF RemovedNamespace, At, Past, PastChange
    <3> QED
      BY <1>2, <1>4, <3>1, <3>2, HeldByNext DEF ComesOrGoes
  <2> QED
    BY <2>1, <2>2, <2>3
<1>9. KeepsAtt(k)
  <2>1. CASE RemovedNamespace(w)
    BY <2>1 DEF RemovedNamespace, KeepsAtt
  <2>2. CASE Attached(w) \/ Detached(w)
    <3>1. PICK c : c = h[w].cur
      OBVIOUS
    <3>2. /\ c \in Alive(Controllers) /\ k \in Alive(Namespaces) /\ Parent[c] = Parent[k]
          /\ AttachmentOf(w) = Attachment(c, k)
      <4>1. h[w].pc = "call" /\ h[w].op \in NamespaceOps
        BY <2>2 DEF Attached, Detached, At
      <4> QED
        BY <1>1, <1>2, <3>1, <4>1, CallOf DEF Alive
    <3>3. ASSUME NEW d \in Alive(Controllers), NEW n \in Alive(Namespaces), n # k,
                 Parent[d] = Parent[n]
          PROVE  Attachment(d, n) # Attachment(c, k)
      BY <1>2, <3>2, <3>3, OwnAttachment
    <3> HIDE DEF AttachmentOf
    <3> QED
      BY <2>2, <3>2, <3>3 DEF Attached, Detached, KeepsAtt
  <2> QED
    BY <2>1, <2>2
<1>10. ASSUME NEW c \in Controllers
       PROVE  <<c, k>> \in AttachedNow' <=> <<c, k>> \in AttachedNow
  <2>1. Held(c)' = Held(c)
    BY <1>4, <1>5, Names, FrontendAssumption DEF FrontendAssumption, OnStep, Children
  <2> HIDE DEF CreateOps
  <2> QED
    BY <1>4, <1>5, <1>6, <2>1, OwnNamespace
<1>11. AttachedNow' = AttachedNow
  BY <1>4, <1>5, <1>8, <1>9, <1>10, AttachedAsBefore, FrontendAssumption DEF FrontendAssumption
<1> QED
  BY <1>4, <1>7, <1>8, <1>11, Unseen

---------------------------------------------------------------------------
(* Effects.                                                                *)

\* What a call that takes effect does, whatever it changes in the application.
Strikes(w, k) ==
  /\ k = h[w].key /\ OnStep(w, k) /\ reply' = reply /\ store' = store
  /\ Running(w) /\ Running(w)' /\ h'[w].op = h[w].op /\ h'[w].key = k
  /\ ~Effective(h[w]) /\ Effective(h'[w])
  /\ Held(k) = store[k]

\* It is still the request's turn to change its name.
LEMMA CallStrikes ==
  ASSUME CInv, CInv', NEW w \in Worker, Running(w), NEW k, k = h[w].key, h[w].pc = "rpc",
         NEW next \in {"list", "range", "unlist", "save"}, NEW obj, Takes(w, next, obj),
         h[w].op # "DeleteNvmeNamespace",
         h[w].op \in CreateOps => next \in {"list", "range"},
         h[w].op \in DeleteOps => next = "unlist",
         h[w].op = "UpdateNvmeController" => next = "save"
  PROVE  Strikes(w, k) /\ h'[w].pc = next /\ h'[w].obj = obj
<1>1. OInv /\ IInv /\ IInv' /\ h[w].op \in MutatingOps
  BY RunningOn DEF CInv, OInv
<1>2. TookOn(w, k, next, obj)
  BY <1>1, TakesOn
<1>3. /\ OnStep(w, k) /\ reply' = reply /\ store' = store /\ Running(w)'
      /\ h'[w].op = h[w].op /\ h'[w].key = k /\ h'[w].pc = next /\ h'[w].obj = obj
  BY <1>2 DEF TookOn, OnStep
<1>4. ~Effective(h[w]) /\ Effective(h'[w])
  <2>1. ~Effective(h[w])
    BY <1>1 DEF Effective
  <2>2. Effective(h'[w])
    BY <1>1, <1>3 DEF Effective
  <2> QED
    BY <2>1, <2>2
<1>5. Held(k) = store[k]
  BY <1>1, HeldBy DEF Past, PastChange
<1> QED
  BY <1>3, <1>4, <1>5 DEF Strikes

\* An update takes effect when the application has accepted the id of the record.
LEMMA UpdateStrikes ==
  ASSUME CInv, CInv', NEW w \in Worker, Running(w), UpdatedController(w)
  PROVE  C!Update(w)
<1>1. PICK k : k = h[w].key
  OBVIOUS
<1>2. h[w].op = "UpdateNvmeController" /\ h[w].pc = "rpc" /\ fw' = fw /\ Takes(w, "save", h[w].obj)
  BY DEF UpdatedController, At
<1>3. Strikes(w, k) /\ h'[w].pc = "save" /\ h'[w].obj = h[w].obj
  BY <1>1, <1>2, CallStrikes
<1>4. k \in Controllers /\ k \in Keys
  BY <1>1, <1>2, RunningOn DEF CInv, OInv
<1>5. h'[w].obj = store'[k]
  BY <1>2, <1>3 DEF CInv, OInv, Ordered, Going, Strikes
<1>6. Held(k)' = store'[k]
  <2>1. ~Past(w, k)' /\ IInv'
    BY <1>2, <1>3 DEF Past, Strikes, CInv, OInv
  <2> QED
    BY <1>3, <2>1, HeldByNext DEF Strikes
<1>7. Unmoved(k) /\ ComesOrGoes(k) /\ KeepsAtt(k) /\ OnStep(w, k)
  BY <1>2, <1>3, <1>6 DEF Strikes, Unmoved, ComesOrGoes, KeepsAtt
<1>8. AttachedNow' = AttachedNow
  <2>1. k \notin Namespaces
    BY <1>4, FrontendAssumption DEF FrontendAssumption
  <2> QED
    BY <1>4, <1>7, <2>1, PlainSame, AttachedAsBefore
<1>9. Catalogued(k)' = Catalogued(k) /\ Catalogued(k) = h[w].obj
  BY <1>2, <1>3, <1>5, <1>6, <1>7, CataloguedBy, CataloguedNext DEF Strikes
<1>10. CatalogueNow' = CatalogueNow
  BY <1>7, <1>9, OthersCatalogued, CatalogueMoves DEF OnStep, CatalogueNow
<1>11. C!TakeEffect(w) /\ RequestNow[w] = RequestOf(h[w]) /\ ~RequestNow[w].done
  BY <1>1, <1>3, TakesEffect DEF Strikes, OnStep
<1>12. RequestNow[w].want = CatalogueNow[RequestNow[w].key] /\ RequestNow[w].op \in C!Updates
  <2>1. /\ RequestOf(h[w]).key = k /\ RequestOf(h[w]).op = "UpdateNvmeController"
        /\ RequestOf(h[w]).want = h[w].obj
    BY <1>1, <1>2, <1>3 DEF RequestOf, Strikes
  <2> QED
    BY <1>4, <1>9, <1>11, <2>1 DEF CatalogueNow, C!Updates
<1> QED
  BY <1>8, <1>10, <1>11, <1>12 DEF C!Update, C!Pending

\* A subsystem is deleted when the application has removed it, and it removes only
\* one without controllers and namespaces.
LEMMA SubsystemDeleteStrikes ==
  ASSUME CInv, CInv', NEW w \in Worker, Running(w), RemovedSubsystem(w)
  PROVE  C!Delete(w)
<1>1. PICK k : k = h[w].key
  OBVIOUS
<1>2. h[w].op = "DeleteNvmeSubsystem" /\ h[w].pc = "rpc" /\ Takes(w, "unlist", h[w].obj)
  BY DEF RemovedSubsystem, At
<1>3. Strikes(w, k) /\ h'[w].pc = "unlist" /\ h'[w].obj = h[w].obj
  BY <1>1, <1>2, CallStrikes
<1>4. k \in Subsystems /\ k \notin Controllers /\ k \notin Namespaces /\ Held(k) = h[w].obj
  BY <1>1, <1>2, <1>3, RunningOn, FrontendAssumption
     DEF FrontendAssumption, Children, CInv, OInv, Ordered, Going, Strikes
<1>5. Held(k)' = None
  <2>1. Past(w, k)' /\ IInv' /\ h'[w].op \notin CreateOps
    BY <1>2, <1>3 DEF Past, PastChange, Strikes, CInv, OInv
  <2> QED
    BY <1>3, <2>1, HeldByNext DEF Strikes
<1>6. ComesOrGoes(k) /\ KeepsAtt(k) /\ OnStep(w, k)
  BY <1>3, <1>5 DEF Strikes, ComesOrGoes, KeepsAtt, RemovedSubsystem
<1>7. OthersJoined(k)
  BY <1>6, OthersAre
<1>8. Catalogued(k)' = None
  BY <1>2, <1>3, <1>5, <1>6, CataloguedNext DEF Strikes
<1>9. \A x \in Keys : <<x, k>> \notin AttachedNow' /\ <<k, x>> \notin AttachedNow'
  <2>1. AttachedNow' \subseteq Controllers \X Namespaces
    BY DEF CInv, AttachmentsAre
  <2> QED
    BY <1>4, <2>1
<1>10. C!ChildrenOf(k) = {}
  <2>1. ASSUME NEW j \in Children, Parent[j] = k, CatalogueNow[j] # None
        PROVE  FALSE
    <3>1. j \in Keys /\ Root(j) = k /\ Root(k) = k /\ j # k
      BY <1>4, <2>1, Names
    <3>2. Held(j) # None
      BY <1>6, <2>1, <3>1, Around DEF AroundHeld, CatalogueNow
    <3>3. Object(j) \in Objs
      BY <2>1, <3>2, ObjectThere DEF CInv, Objs, Children
    <3>4. Object(j).nqn = Held(k)
      BY <2>1 DEF Object
    <3> QED
      BY <1>4, <3>3, <3>4 DEF RemovedSubsystem
  <2> QED
    BY <2>1 DEF C!ChildrenOf, C!Exists, C!Children, Children
<1> QED
  BY <1>1, <1>2, <1>3, <1>6, <1>7, <1>8, <1>9, <1>10, Deleted DEF Strikes

\* A controller is deleted when the application has removed it, with its attachments.
LEMMA ControllerDeleteStrikes ==
  ASSUME CInv, CInv', NEW w \in Worker, Running(w), RemovedController(w)
  PROVE  C!Delete(w)
<1>1. PICK k : k = h[w].key
  OBVIOUS
<1>2. h[w].op = "DeleteNvmeController" /\ h[w].pc = "rpc" /\ Takes(w, "unlist", h[w].obj)
  BY DEF RemovedController, At
<1>3. Strikes(w, k) /\ h'[w].pc = "unlist" /\ h'[w].obj = h[w].obj
  BY <1>1, <1>2, CallStrikes
<1>4. /\ k \in Controllers /\ k \notin Subsystems /\ k \notin Namespaces /\ Held(k) = h[w].obj
      /\ h[w].nqn = Held(Parent[k]) /\ h[w].nqn # None /\ Held(k) # None
  <2>1. k \in Controllers /\ k \notin Subsystems /\ k \notin Namespaces
    BY <1>1, <1>2, RunningOn, FrontendAssumption DEF FrontendAssumption, Children, CInv, OInv
  <2>2. Held(k) = h[w].obj
    BY <1>1, <1>2, <1>3 DEF CInv, OInv, Ordered, Going, Strikes
  <2>3. /\ Root(k) = Parent[k] /\ h[w].nqn = Held(Root(k)) /\ h[w].nqn # None
        /\ store[k] # None
    BY <1>1, <1>2, Holdings DEF CInv
  <2> QED
    BY <1>3, <2>1, <2>2, <2>3 DEF Strikes
<1>5. Held(k)' = None
  <2>1. Past(w, k)' /\ IInv' /\ h'[w].op \notin CreateOps
    BY <1>2, <1>3 DEF Past, PastChange, Strikes, CInv, OInv
  <2> QED
    BY <1>3, <2>1, HeldByNext DEF Strikes
<1>6. KeepsAtt(k)
  <2>1. ASSUME NEW c \in Alive(Controllers), NEW n \in Alive(Namespaces),
               c # k, Parent[c] = Parent[n]
        PROVE  ~(Attachment(c, n).nqn = h[w].nqn /\ Attachment(c, n).ctrl = h[w].obj)
    <3>1. ASSUME Held(Parent[n]) = Held(Parent[k]), Held(c) = Held(k)
          PROVE  FALSE
      <4>1. Parent[n] = Parent[k]
        BY <1>4, <2>1, <3>1, FrontendAssumption
           DEF FrontendAssumption, Children, CInv, OInv, Ordered, ObjectsHeld, Alive
      <4> QED
        BY <1>4, <2>1, <3>1, <4>1 DEF CInv, OInv, Ordered, ObjectsHeld, Alive
    <3> QED
      BY <1>4, <3>1 DEF Attachment
  <2> QED
    BY <2>1 DEF KeepsAtt, RemovedController
<1>7. OnStep(w, k) /\ ComesOrGoes(k) /\ OthersJoined(k)
  BY <1>3, <1>5, <1>6, OthersAre DEF Strikes, ComesOrGoes
<1>8. Catalogued(k)' = None
  BY <1>2, <1>3, <1>5, <1>7, CataloguedNext DEF Strikes
<1>9. \A x \in Keys : <<x, k>> \notin AttachedNow' /\ <<k, x>> \notin AttachedNow'
  <2>1. AttachedNow' \subseteq Controllers \X Namespaces
    BY DEF CInv, AttachmentsAre
  <2>2. \A n \in Namespaces : ~Plain(k, n)'
    BY <1>5 DEF Plain
  <2>3. \A n \in Namespaces : <<k, n>> \notin AttachedNow'
    BY <1>4, <1>7, <2>2, OwnController
  <2> QED
    BY <1>4, <2>1, <2>3
<1> QED
  BY <1>1, <1>2, <1>3, <1>4, <1>7, <1>8, <1>9, Deleted DEF Strikes

\* A namespace is deleted when its handler starts to detach it.
LEMMA NamespaceDeleteStrikes ==
  ASSUME CInv, CInv', NEW w \in Worker, Running(w), Fetched(w), h[w].op = "DeleteNvmeNamespace"
  PROVE  C!Delete(w)
<1>1. PICK k : k = h[w].key
  OBVIOUS
<1> DEFINE g == [h[w] EXCEPT !.nqn = store[Root(k)], !.pc = "range"]
<1>2. /\ Proceeds(w, g) /\ UNCHANGED <<store, fw>> /\ h[w].pc = "parent"
  BY <1>1 DEF Fetched
<1>3. /\ g.op = h[w].op /\ g.key = k /\ g.pc = "range" /\ IInv /\ IInv' /\ OInv
      /\ k \in Namespaces /\ k \notin Subsystems /\ k \notin Controllers
  BY <1>1, RunningOn, FrontendAssumption DEF FrontendAssumption, Children, CInv, OInv, Frames
<1> HIDE DEF g
<1>4. h' = [h EXCEPT ![w] = g] /\ reply' = reply
  BY <1>2 DEF Proceeds
<1>5. OnStep(w, k) /\ h'[w] = g
  BY <1>1, <1>2, <1>3, <1>4, OwnStep DEF OnStep
<1>6. ~Effective(h[w]) /\ Effective(h'[w]) /\ Running(w)'
  BY <1>2, <1>3, <1>5 DEF Effective, Running
<1>7. Held(k)' = Held(k)
  <2>1. ~Past(w, k) /\ ~Past(w, k)'
    BY <1>2, <1>3, <1>5 DEF Past, PastChange
  <2> QED
    BY <1>1, <1>2, <1>3, <1>5, <1>6, <2>1, HeldBy, HeldByNext
<1>8. OthersJoined(k)
  <2>1. ComesOrGoes(k) /\ KeepsAtt(k)
    BY <1>2, <1>7 DEF ComesOrGoes, KeepsAtt
  <2> QED
    BY <1>5, <2>1, OthersAre
<1>9. Catalogued(k)' = None
  BY <1>3, <1>5, <1>6, CataloguedNext
<1>10. \A x \in Keys : <<x, k>> \notin AttachedNow' /\ <<k, x>> \notin AttachedNow'
  <2>1. AttachedNow' \subseteq Controllers \X Namespaces
    BY DEF CInv, AttachmentsAre
  <2>2. \A c \in Controllers : <<c, k>> \notin AttachedNow'
    BY <1>3, <1>5, <1>6, OwnNamespace
  <2> QED
    BY <1>3, <2>1, <2>2
<1> QED
  BY <1>1, <1>3, <1>4, <1>5, <1>6, <1>8, <1>9, <1>10, Deleted

\* A create that takes effect gives a name that held nothing the object its handler
\* has from then on.
LEMMA CreateHolds ==
  ASSUME CInv, CInv', NEW w \in Worker, NEW k, Strikes(w, k), h[w].op \in CreateOps,
         h[w].pc = "rpc", h'[w].pc \in {"list", "range"}
  PROVE  /\ k \in Keys /\ Held(k) = None /\ store[k] = None /\ OnStep(w, k) /\ ComesOrGoes(k)
         /\ Held(k)' = h'[w].obj /\ Catalogued(k)' = h'[w].obj
<1>1. IInv /\ IInv' /\ OInv /\ OnStep(w, k) /\ h'[w].op \in CreateOps /\ k \in Keys
  BY DEF Strikes, CInv, OInv, OnStep
<1>2. Held(k) = None /\ store[k] = None
  BY Holdings DEF Strikes, CInv
<1>3. h[w].op = "CreateNvmeNamespace" \/ h'[w].pc = "list"
  <2>1. h'[w].pc \in StepsOf(h'[w].op)
    BY DEF Strikes, CInv, OInv, Ordered, Going
  <2> QED
    BY <2>1 DEF Strikes, StepsOf
<1>4. Held(k)' = h'[w].obj
  <2>1. Past(w, k)'
    BY <1>3 DEF Past, PastChange, Strikes
  <2> QED
    BY <1>1, <2>1, HeldByNext DEF Strikes
<1>5. Catalogued(k)' = h'[w].obj
  BY <1>1, <1>4, CataloguedNext
<1> QED
  BY <1>1, <1>2, <1>4, <1>5 DEF ComesOrGoes

\* A subsystem is created when the application has created it, with an NQN that no
\* other has.
LEMMA SubsystemCreateStrikes ==
  ASSUME CInv, CInv', NEW w \in Worker, Running(w), MadeSubsystem(w)
  PROVE  C!Create(w)
<1>1. PICK k : k = h[w].key
  OBVIOUS
<1>2. /\ h[w].op = "CreateNvmeSubsystem" /\ h[w].op \in CreateOps /\ h[w].pc = "rpc"
      /\ Takes(w, "list", h[w].obj) /\ h[w].obj \notin fw.subs /\ fw'.att = fw.att
  BY DEF MadeSubsystem, At
<1>3. Strikes(w, k) /\ h'[w].pc = "list" /\ h'[w].obj = h[w].obj
  BY <1>1, <1>2, CallStrikes
<1>4. /\ k \in Keys /\ Held(k) = None /\ OnStep(w, k) /\ ComesOrGoes(k)
      /\ Catalogued(k)' = h[w].obj
  BY <1>2, <1>3, CreateHolds
<1>5. k \in Subsystems /\ k \notin Children /\ h[w].obj \in Nqns
  <2>1. h[w].op \in SubsystemOps /\ HandlersOK
    BY <1>2 DEF CInv, OInv, IInv, TypeOK
  <2> QED
    BY <1>1, <2>1, RunningTyped, FrontendAssumption DEF FrontendAssumption
<1>6. AttachedNow' = AttachedNow
  <2>1. KeepsAtt(k)
    BY <1>2 DEF KeepsAtt
  <2> QED
    BY <1>4, <1>5, <2>1, AttachedAsBefore DEF Children
<1>7. h[w].obj \in C!Grants(k, h[w].obj)
  <2>1. ASSUME NEW j \in Subsystems \ {k}
        PROVE  CatalogueNow[j] # h[w].obj
    <3>1. j \in Keys /\ Catalogued(j) \in {None, Held(j)}
      BY <2>1, Names DEF CInv, CatalogueIs
    <3>2. Held(j) # h[w].obj
      BY <1>2, <1>5, <2>1, ObjectThere, FrontendAssumption DEF FrontendAssumption, CInv
    <3>3. h[w].obj # None
      BY <1>5, FrontendAssumption DEF FrontendAssumption
    <3> QED
      BY <3>1, <3>2, <3>3 DEF CatalogueNow
  <2> QED
    BY <1>5, <2>1 DEF C!Grants, C!Rivals, Children
<1> QED
  BY <1>1, <1>2, <1>3, <1>4, <1>5, <1>6, <1>7, Created DEF Strikes, Children

\* The values that the children of a subsystem may not get are those of its objects.
LEMMA ChildGranted ==
  ASSUME CInv, NEW w \in Worker, NEW k \in Children, OnStep(w, k), Held(Parent[k]) # None,
         NEW n, n # None, NEW K, K = IF k \in Controllers THEN Controllers ELSE Namespaces,
         NEW objs, objs = IF k \in Controllers THEN fw.ctrls ELSE fw.nss,
         \A p \in objs : ~(p.nqn = Held(Parent[k]) /\ p.id = n)
  PROVE  \A j \in K : j # k /\ Parent[j] = Parent[k] => CatalogueNow[j] # n
<1> SUFFICES ASSUME NEW j \in K, j # k, Parent[j] = Parent[k], CatalogueNow[j] = n
             PROVE  FALSE
  OBVIOUS
<1>1. j \in Children /\ j \in Keys /\ Root(j) = Root(k)
  BY Names DEF Children
<1>2. Held(j) = n
  BY <1>1, Around DEF AroundHeld, CatalogueNow
<1>3. Object(j) \in objs
  BY <1>2, ObjectThere DEF CInv
<1>4. Object(j).nqn = Held(Parent[k]) /\ Object(j).id = n
  BY <1>2 DEF Object
<1> QED
  BY <1>3, <1>4

\* A new object has no attachments yet.
LEMMA NewIsPlain ==
  ASSUME CInv, CInv', NEW w \in Worker, NEW k \in Children, OnStep(w, k), Held(k) = None,
         fw'.att = fw.att, Held(Parent[k]) # None,
         NEW c \in Controllers, NEW n \in Namespaces, k \in {c, n}
  PROVE  ~Plain(c, n) /\ ~Plain(c, n)'
<1>1. ~Plain(c, n)
  BY DEF Plain
<1>2. ASSUME Plain(c, n)'
      PROVE  FALSE
  <2>1. /\ c \in Keys /\ n \in Keys /\ Parent[n] \in Keys /\ Parent[c] = Parent[n]
        /\ Parent[c] # k /\ Parent[n] # k /\ Held(c)' # None /\ Held(n)' # None
        /\ Parent[n] = Parent[k] /\ Parent[n] \in Subsystems
    BY <1>2, Names, FrontendAssumption DEF FrontendAssumption, Plain, Children
  <2>2. Attachment(c, n)' \in fw.att
    BY <1>2 DEF Plain
  <2>3. PICK d \in Alive(Controllers), m \in Alive(Namespaces) :
          Parent[d] = Parent[m] /\ Attachment(c, n)' = Attachment(d, m)
    BY <2>2 DEF CInv, OInv, Ordered, AttachmentsHeld
  <2>4. /\ d \in Controllers /\ m \in Namespaces /\ Held(d) # None /\ Held(m) # None
        /\ d # k /\ m # k /\ d \in Keys /\ m \in Keys /\ Parent[m] \in Subsystems
    BY Names, FrontendAssumption DEF FrontendAssumption, Alive, Children
  <2>5. Held(Parent[n])' = Held(Parent[m]) /\ Held(c)' = Held(d) /\ Held(n)' = Held(m)
    BY <2>3 DEF Attachment
  <2>6. Held(Parent[n])' = Held(Parent[n]) /\ Held(d)' = Held(d) /\ Held(m)' = Held(m)
    BY <2>1, <2>4 DEF OnStep
  <2>7. Held(Parent[m]) # None
    BY <2>4 DEF CInv, OInv, Ordered, ObjectsHeld, Alive, Children
  <2>8. Parent[n] = Parent[m]
    BY <2>1, <2>4, <2>5, <2>6, <2>7 DEF CInv, OInv, Ordered, ObjectsHeld, Alive
  <2>9. ObjectsHeld'
    BY DEF CInv, OInv, Ordered
  <2>10. c = d
    BY <2>1, <2>3, <2>4, <2>5, <2>6, <2>8, <2>9 DEF ObjectsHeld, Alive
  <2>11. n = m
    BY <2>1, <2>3, <2>4, <2>5, <2>6, <2>8, <2>9 DEF ObjectsHeld, Alive
  <2> QED
    BY <2>4, <2>10, <2>11
<1> QED
  BY <1>1, <1>2

\* A controller is created when the application has created it, with an id that is
\* free in its subsystem, the one that was asked for if one was.
LEMMA ControllerCreateStrikes ==
  ASSUME CInv, CInv', NEW w \in Worker, Running(w), MadeController(w)
  PROVE  C!Create(w)
<1>1. PICK k : k = h[w].key
  OBVIOUS
<1>2. /\ h[w].op = "CreateNvmeController" /\ h[w].op \in CreateOps /\ h[w].pc = "rpc"
      /\ fw'.att = fw.att /\ OInv
  BY DEF MadeController, At, CInv
<1>3. PICK n : /\ Adds(k, h[w].nqn, n) /\ h[w].obj \in {n, autoCtrlrIDAllocation}
               /\ Takes(w, "list", n)
  BY <1>1 DEF MadeController
<1>4. Strikes(w, k) /\ h'[w].pc = "list" /\ h'[w].obj = n
  BY <1>1, <1>2, <1>3, CallStrikes
<1>5. /\ k \in Keys /\ Held(k) = None /\ OnStep(w, k) /\ ComesOrGoes(k) /\ Catalogued(k)' = n
  BY <1>2, <1>4, CreateHolds
<1>6. /\ k \in Controllers /\ k \in Children /\ k \notin Namespaces /\ k \notin Subsystems
      /\ n \in CtrlrNums /\ n # None
      /\ \A p \in fw.ctrls : ~(p.nqn = h[w].nqn /\ p.id = n)
  <2>1. k \in Controllers
    BY <1>1, <1>2, RunningOn DEF CInv, OInv
  <2>2. k \in Children /\ k \notin Namespaces /\ k \notin Subsystems
    BY <2>1, FrontendAssumption DEF FrontendAssumption, Children
  <2>3. n \in CtrlrNums /\ \A p \in fw.ctrls : ~(p.nqn = h[w].nqn /\ p.id = n)
    BY <1>3, <2>2 DEF Adds
  <2> QED
    BY <2>1, <2>2, <2>3, NumsAreInts, FrontendAssumption DEF FrontendAssumption
<1>7. Root(k) = Parent[k] /\ h[w].nqn = Held(Parent[k]) /\ Held(Parent[k]) # None
  BY <1>1, <1>2, Holdings
<1>8. AttachedNow' = AttachedNow
  <2>1. KeepsAtt(k)
    BY <1>2 DEF KeepsAtt
  <2>2. \A m \in Namespaces : Plain(k, m)' <=> Plain(k, m)
    BY <1>2, <1>5, <1>6, <1>7, NewIsPlain
  <2> QED
    BY <1>5, <1>6, <2>1, <2>2, AttachedAsBefore
<1>9. n \in C!Grants(k, h[w].obj)
  <2>1. \A j \in Controllers : j # k /\ Parent[j] = Parent[k] => CatalogueNow[j] # n
    BY <1>5, <1>6, <1>7, ChildGranted
  <2>2. \A j \in C!Rivals(k) : CatalogueNow[j] # n
    BY <1>6, <2>1 DEF C!Rivals
  <2> QED
    BY <1>3, <1>6, <2>2 DEF C!Grants
<1>10. Catalogued(Parent[k]) # None
  BY <1>5, <1>6, <1>7, Around, Names DEF AroundHeld
<1> QED
  BY <1>1, <1>2, <1>4, <1>5, <1>6, <1>8, <1>9, <1>10, Created DEF Strikes

\* A namespace is created when the application has created it, attached to every
\* controller of its subsystem.
LEMMA NamespaceCreateStrikes ==
  ASSUME CInv, CInv', NEW w \in Worker, Running(w), MadeNamespace(w)
  PROVE  C!Create(w)
<1>1. PICK k : k = h[w].key
  OBVIOUS
<1>2. PICK n : n = h[w].obj
  OBVIOUS
<1>3. /\ h[w].op = "CreateNvmeNamespace" /\ h[w].op \in CreateOps /\ h[w].pc = "rpc"
      /\ fw'.att = fw.att /\ OInv /\ Adds(k, h[w].nqn, n) /\ Takes(w, "range", n)
  BY <1>1, <1>2 DEF MadeNamespace, At, CInv
<1>4. Strikes(w, k) /\ h'[w].pc = "range" /\ h'[w].obj = n
  BY <1>1, <1>3, CallStrikes
<1>5. /\ k \in Keys /\ Held(k) = None /\ OnStep(w, k) /\ ComesOrGoes(k) /\ Catalogued(k)' = n
  BY <1>3, <1>4, CreateHolds
<1>6. /\ k \in Namespaces /\ k \in Children /\ k \notin Controllers /\ k \notin Subsystems
      /\ n # None
      /\ \A p \in fw.nss : ~(p.nqn = h[w].nqn /\ p.id = n)
  <2>1. k \in Namespaces
    BY <1>1, <1>3, RunningOn DEF CInv, OInv
  <2>2. k \in Children /\ k \notin Controllers /\ k \notin Subsystems
    BY <2>1, FrontendAssumption DEF FrontendAssumption, Children
  <2>3. n \in NsNums /\ \A p \in fw.nss : ~(p.nqn = h[w].nqn /\ p.id = n)
    BY <1>3, <2>2 DEF Adds
  <2> QED
    BY <2>1, <2>2, <2>3, NumsAreInts, FrontendAssumption DEF FrontendAssumption
<1>7. Root(k) = Parent[k] /\ h[w].nqn = Held(Parent[k]) /\ Held(Parent[k]) # None
  BY <1>1, <1>3, Holdings
<1>8. OthersJoined(k)
  <2>1. KeepsAtt(k)
    BY <1>3 DEF KeepsAtt
  <2> QED
    BY <1>5, <2>1, OthersAre
<1>9. ASSUME NEW c \in Controllers
      PROVE  /\ <<c, k>> \notin AttachedNow
             /\ <<c, k>> \in AttachedNow' <=> c \in C!Partners(k)
  <2>1. ~Plain(c, k)
    BY <1>5, <1>6 DEF Plain
  <2>2. ~Effective(h[w]) /\ Effective(h'[w]) /\ Running(w)' /\ h'[w].op \in CreateOps
    BY <1>3, <1>4 DEF Strikes
  <2>3. c \in Keys /\ c # k
    BY <1>6, Names DEF Children
  <2>4. Held(c)' = Held(c)
    BY <1>5, <2>3 DEF OnStep
  <2>5. /\ <<c, k>> \notin AttachedNow
        /\ <<c, k>> \in AttachedNow' <=> Parent[c] = Parent[k] /\ Held(c) # None
    <3> HIDE DEF CreateOps
    <3> QED
      BY <1>5, <1>6, <2>1, <2>2, <2>4, OwnNamespace
  <2>6. c \in C!Partners(k) <=> Parent[c] = Parent[k] /\ Held(c) # None
    <3>1. Parent[c] = Parent[k] => CatalogueNow[c] = Held(c)
      BY <1>5, <1>6, <2>3, Around, Names DEF AroundHeld, CatalogueNow, Children
    <3> QED
      BY <3>1 DEF C!Partners, C!Exists
  <2> QED
    BY <2>5, <2>6
<1>10. AttachedNow' = AttachedNow \cup (C!Partners(k) \X {k})
  <2>1. /\ AttachedNow \subseteq Controllers \X Namespaces
        /\ AttachedNow' \subseteq Controllers \X Namespaces
    BY DEF CInv, AttachmentsAre
  <2>2. C!Partners(k) \subseteq Controllers
    BY DEF C!Partners
  <2>3. ASSUME NEW c \in Controllers, NEW m \in Namespaces
        PROVE  <<c, m>> \in AttachedNow' <=>
                 <<c, m>> \in AttachedNow \/ (c \in C!Partners(k) /\ m = k)
    <3>1. CASE m = k
      BY <1>9, <3>1
    <3>2. CASE m # k
      <4>1. c # k
        BY <1>6
      <4> QED
        BY <1>8, <3>2, <4>1 DEF OthersJoined
    <3> QED
      BY <3>1, <3>2
  <2> DEFINE P == C!Partners(k)
  <2>4. P \subseteq Controllers /\ k \in Namespaces
    BY <1>6, <2>2
  <2>5. \A c \in Controllers, m \in Namespaces :
          <<c, m>> \in AttachedNow' <=> <<c, m>> \in AttachedNow \/ (c \in P /\ m = k)
    BY <2>3
  <2> HIDE DEF P
  <2>6. AttachedNow' = AttachedNow \cup (P \X {k})
    BY <2>1, <2>4, <2>5
  <2> QED
    BY <2>6 DEF P
<1>11. n \in C!Grants(k, h[w].obj)
  <2>1. \A j \in Namespaces : j # k /\ Parent[j] = Parent[k] => CatalogueNow[j] # n
    BY <1>5, <1>6, <1>7, ChildGranted
  <2>2. \A j \in C!Rivals(k) : CatalogueNow[j] # n
    BY <1>6, <2>1 DEF C!Rivals
  <2> QED
    BY <1>2, <1>6, <2>2 DEF C!Grants
<1>12. Catalogued(Parent[k]) # None
  BY <1>5, <1>6, <1>7, Around, Names DEF AroundHeld
<1> QED
  BY <1>1, <1>3, <1>4, <1>5, <1>6, <1>10, <1>11, <1>12, Created DEF Strikes

---------------------------------------------------------------------------
(* Answers.                                                                *)

\* The name that an object of a subsystem is held for.
LEMMA HolderOf ==
  ASSUME CInv, NEW s \in Subsystems, Held(s) # None
  PROVE  /\ \A o \in fw.ctrls : o.nqn = Held(s) =>
              \E c \in Controllers : Parent[c] = s /\ Held(c) # None /\ Held(c) = o.id
         /\ \A o \in fw.nss : o.nqn = Held(s) =>
              \E n \in Namespaces : Parent[n] = s /\ Held(n) # None /\ Held(n) = o.id
<1>1. \A k \in Alive(Children) : Parent[k] \in Alive(Subsystems)
  BY FrontendAssumption DEF FrontendAssumption, CInv, OInv, Ordered, ObjectsHeld, Alive
<1>2. \A t \in Alive(Subsystems) : Held(t) = Held(s) => t = s
  BY DEF CInv, OInv, Ordered, ObjectsHeld, Alive
<1>3. \A k : Object(k).nqn = Held(Parent[k]) /\ Object(k).id = Held(k)
  BY DEF Object
<1>4. ASSUME NEW o \in fw.ctrls, o.nqn = Held(s)
      PROVE  \E c \in Controllers : Parent[c] = s /\ Held(c) # None /\ Held(c) = o.id
  <2>1. PICK c \in Alive(Controllers) : o = Object(c)
    BY DEF CInv, OInv, Ordered, ObjectsHeld
  <2>2. c \in Alive(Children) /\ c \in Controllers /\ Held(c) # None
    BY DEF Alive, Children
  <2> QED
    BY <1>1, <1>2, <1>3, <1>4, <2>1, <2>2
<1>5. ASSUME NEW o \in fw.nss, o.nqn = Held(s)
      PROVE  \E n \in Namespaces : Parent[n] = s /\ Held(n) # None /\ Held(n) = o.id
  <2>1. PICK n \in Alive(Namespaces) : o = Object(n)
    BY DEF CInv, OInv, Ordered, ObjectsHeld
  <2>2. n \in Alive(Children) /\ n \in Namespaces /\ Held(n) # None
    BY DEF Alive, Children
  <2> QED
    BY <1>1, <1>2, <1>3, <1>5, <2>1, <2>2
<1> QED
  BY <1>4, <1>5

\* A call that the application rejects is one that the catalogue cannot grant.
LEMMA HopelessIsImpossible ==
  ASSUME CInv, NEW w \in Worker, Running(w), NEW k, k = h[w].key, OnStep(w, k),
         h[w].pc = "rpc", Hopeless(h[w])
  PROVE  ~Effective(h[w]) /\ C!Impossible(h[w].op, k, RequestOf(h[w]).want)
<1>1. /\ OInv /\ IInv /\ h[w].op \in MutatingOps /\ k \in Keys
      /\ h[w].op \in SubsystemOps => k \in Subsystems
      /\ h[w].op \in ControllerOps => k \in Controllers /\ k \notin Subsystems
      /\ h[w].op \in NamespaceOps => k \in Namespaces /\ k \notin Controllers /\ k \notin Subsystems
  BY RunningOn, FrontendAssumption DEF FrontendAssumption, Children, CInv, OInv, OnStep
<1>2. h[w].op # "DeleteNvmeNamespace"
  BY DEF Hopeless
<1>3. ~Effective(h[w])
  BY <1>1, <1>2 DEF Effective
<1>4. RequestOf(h[w]).want = IF h[w].op \in DeleteOps THEN None ELSE h[w].obj
  BY <1>3 DEF RequestOf
<1>5. Held(k) = store[k] /\ (store[k] = None <=> h[w].op \in CreateOps)
  <2>1. ~PastChange(h[w])
    BY <1>2 DEF PastChange
  <2> QED
    BY <1>1, <2>1, Holdings
<1>6. h[w].op \notin SubsystemOps =>
        /\ k \in Children /\ Root(k) = Parent[k] /\ h[w].nqn = Held(Parent[k])
        /\ Held(Parent[k]) # None /\ Parent[k] \in Subsystems
  BY <1>1, Holdings
<1>7. \A j \in Children : /\ j \in Keys /\ Root(j) = Parent[j]
                          /\ Parent[j] = Root(k) /\ j # k => CatalogueNow[j] = Held(j)
  BY Around, Names DEF AroundHeld, CatalogueNow
<1>8. CASE h[w].op = "CreateNvmeSubsystem" /\ h[w].obj \in fw.subs
  <2>1. PICK s \in Alive(Subsystems) : h[w].obj = Held(s)
    BY <1>8 DEF CInv, OInv, Ordered, ObjectsHeld
  <2>2. s # k /\ s \in Subsystems /\ s \in Keys /\ k \in Subsystems
    BY <1>1, <1>5, <1>8, Names DEF Alive
  <2>3. Catalogued(s) = Held(s)
    <3>1. ~Leaving(s)
      BY <2>2, RunningOn, FrontendAssumption
         DEF FrontendAssumption, Children, Leaving, CInv, OInv, EffectiveIs, PastChange, IdleFrame
    <3> QED
      BY <2>2, <3>1 DEF CInv, CatalogueIs
  <2>4. CatalogueNow[s] = h[w].obj
    BY <2>1, <2>2, <2>3 DEF CatalogueNow
  <2>5. C!Grants(k, h[w].obj) = {}
    BY <2>2, <2>4, FrontendAssumption DEF FrontendAssumption, Children, C!Grants, C!Rivals
  <2>6. RequestOf(h[w]).want = h[w].obj
    BY <1>4, <1>8
  <2> QED
    BY <1>3, <1>8, <2>5, <2>6 DEF C!Impossible, C!Creates, C!Deletes
<1>9. CASE h[w].op = "DeleteNvmeSubsystem" /\ \E o \in Objs : o.nqn = h[w].obj
  <2>1. h[w].obj = Held(k) /\ k \in Subsystems /\ Held(k) # None /\ Root(k) = k
    BY <1>1, <1>5, <1>9, Names DEF OInv, Ordered, Going
  <2>2. PICK j \in Children : Parent[j] = k /\ Held(j) # None
    BY <1>9, <2>1, HolderOf DEF Objs, Children
  <2>3. CatalogueNow[j] # None
    BY <1>7, <2>1, <2>2, Names
  <2>4. C!ChildrenOf(k) # {}
    BY <2>2, <2>3 DEF C!ChildrenOf, C!Exists, C!Children, Children
  <2> QED
    BY <1>3, <1>9, <2>1, <2>4 DEF C!Impossible, C!Creates, C!Deletes
<1>10. CASE /\ h[w].op = "CreateNvmeController"
            /\ \A i \in CtrlrNums : h[w].obj \in {i, autoCtrlrIDAllocation} =>
                 \E p \in fw.ctrls : p.nqn = h[w].nqn /\ p.id = i
  <2>1. h[w].obj \in CtrlrNums \cup {autoCtrlrIDAllocation}
    BY <1>1, <1>10, RunningTyped DEF IInv, TypeOK
  <2>2. ASSUME NEW i \in CtrlrNums, h[w].obj \in {i, autoCtrlrIDAllocation}
        PROVE  \E c \in Controllers : c # k /\ Parent[c] = Parent[k] /\ CatalogueNow[c] = i
    <3>1. PICK p \in fw.ctrls : p.nqn = h[w].nqn /\ p.id = i
      BY <1>10, <2>2
    <3>2. PICK c \in Controllers : Parent[c] = Parent[k] /\ Held(c) # None /\ Held(c) = i
      BY <1>6, <1>10, <3>1, HolderOf
    <3>3. c # k /\ c \in Children
      BY <1>5, <1>10, <3>2 DEF Children
    <3> QED
      BY <1>6, <1>7, <1>10, <3>2, <3>3
  <2>3. \A c \in Controllers : c # k /\ Parent[c] = Parent[k] => c \in C!Rivals(k)
    BY <1>1, <1>10 DEF C!Rivals
  <2>4. C!Grants(k, h[w].obj) = {}
    BY <1>1, <1>10, <2>1, <2>2, <2>3 DEF C!Grants
  <2>5. RequestOf(h[w]).want = h[w].obj
    BY <1>4, <1>10
  <2> QED
    BY <1>3, <1>10, <2>4, <2>5 DEF C!Impossible, C!Creates, C!Deletes
<1>11. CASE /\ h[w].op = "CreateNvmeNamespace"
            /\ \E p \in fw.nss : p.nqn = h[w].nqn /\ p.id = h[w].obj
  <2>1. PICK n \in Namespaces : Parent[n] = Parent[k] /\ Held(n) # None /\ Held(n) = h[w].obj
    BY <1>6, <1>11, HolderOf
  <2>2. n # k /\ n \in Children
    BY <1>5, <1>11, <2>1 DEF Children
  <2>3. CatalogueNow[n] = h[w].obj
    BY <1>6, <1>7, <1>11, <2>1, <2>2
  <2>4. n \in C!Rivals(k)
    BY <1>1, <1>11, <2>1, <2>2 DEF C!Rivals
  <2>5. C!Grants(k, h[w].obj) = {}
    BY <1>1, <1>11, <2>3, <2>4 DEF C!Grants
  <2>6. RequestOf(h[w]).want = h[w].obj
    BY <1>4, <1>11
  <2> QED
    BY <1>3, <1>11, <2>5, <2>6 DEF C!Impossible, C!Creates, C!Deletes
<1>12. CASE h[w].op = "UpdateNvmeController" /\ h[w].obj \notin CtrlrIds(fw, h[w].nqn)
  <2>1. Held(k) # None /\ k \in Controllers
    BY <1>1, <1>5, <1>12
  <2>2. Object(k) \in fw.ctrls /\ Object(k).nqn = h[w].nqn /\ Object(k).id = Held(k)
    BY <1>1, <1>6, <1>12, <2>1, ObjectThere DEF Object
  <2>3. h[w].obj # Held(k)
    BY <1>12, <2>2 DEF CtrlrIds
  <2>4. CatalogueNow[k] = Held(k)
    BY <1>1, <1>12, CataloguedBy DEF CatalogueNow
  <2> QED
    BY <1>3, <1>4, <1>12, <2>3, <2>4 DEF C!Impossible, C!Creates, C!Deletes
<1> QED
  BY <1>8, <1>9, <1>10, <1>11, <1>12 DEF Hopeless

\* A handler that returns confirms what has taken effect, and refuses what has not.
LEMMA ReturnsSeen ==
  ASSUME CInv, CInv', NEW w \in Worker, Running(w), Orphaned(w) \/ Rejected(w) \/ Written(w)
  PROVE  C!Refuse(w) \/ C!Confirm(w)
<1>1. PICK k : k = h[w].key
  OBVIOUS
<1>2. /\ OInv /\ IInv /\ IInv' /\ h[w].op \in MutatingOps /\ h[w].pc \in StepsOf(h[w].op)
      /\ h[w].op \in SubsystemOps => k \in Subsystems
      /\ h[w].op \notin SubsystemOps => k \in Children
      /\ k \in Namespaces => h[w].op \in NamespaceOps /\ k \notin Controllers /\ k \notin Subsystems
  BY <1>1, RunningOn, FrontendAssumption
     DEF FrontendAssumption, Children, CInv, OInv, Ordered, Going
<1>3. /\ WorksOn(w, k) /\ AloneOn(w, k) /\ k \in Keys /\ h'[w] = IdleFrame
      /\ fw' = fw /\ \A j \in Keys : Held(j)' = Held(j)
  BY <1>1, <1>2, FinishHolds
<1>4. OnStep(w, k) /\ Unmoved(k) /\ ComesOrGoes(k) /\ KeepsAtt(k) /\ ~Running(w)'
  BY <1>3 DEF OnStep, Unmoved, ComesOrGoes, KeepsAtt, Running, IdleFrame
<1>5. Catalogued(k)' = Held(k)
  BY <1>3, <1>4, CataloguedNext DEF Unmoved, IdleFrame
<1>6. ASSUME ~Effective(h[w])
      PROVE  Catalogued(k)' = Catalogued(k) /\ AttachedNow' = AttachedNow
  <2>1. Catalogued(k)' = Catalogued(k)
    BY <1>4, <1>5, <1>6, CataloguedBy
  <2>2. \A c \in Controllers, n \in Namespaces : Plain(c, n)' <=> Plain(c, n)
    BY <1>4, PlainSame
  <2>3. k \in Namespaces =>
          \A c \in Controllers : <<c, k>> \in AttachedNow' <=> <<c, k>> \in AttachedNow
    BY <1>4, <1>6, <2>2, OwnNamespace
  <2> QED
    BY <1>4, <2>1, <2>2, <2>3, AttachedAsBefore
<1>7. CASE Orphaned(w)
  <2>1. h[w].pc = "parent" /\ store[Root(k)] = None /\ reply' = [reply EXCEPT ![w] = "NotFound"]
    BY <1>1, <1>7 DEF Orphaned, Finishes
  <2>2. ~Effective(h[w]) /\ h[w].op \notin SubsystemOps
    BY <1>2, <2>1 DEF Effective, StepsOf
  <2>3. k \in Children /\ Root(k) = Parent[k] /\ Root(Root(k)) = Root(k) /\ Root(k) # k /\ Root(k) \in Keys
    BY <1>2, <2>2, Names
  <2>4. Held(Root(k)) = store[Root(k)]
    BY <1>1, <1>2, <2>3, Holdings
  <2>5. Catalogued(Parent[k]) = None
    BY <1>4, <2>1, <2>3, <2>4, Around DEF AroundHeld
  <2> QED
    BY <1>1, <1>3, <1>4, <1>6, <2>1, <2>2, <2>3, <2>5, RefusedRequest
<1>8. CASE Rejected(w)
  <2>1. h[w].pc = "rpc" /\ Hopeless(h[w]) /\ reply' = [reply EXCEPT ![w] = "Failed"]
    BY <1>8 DEF Rejected, Finishes
  <2>2. ~Effective(h[w]) /\ C!Impossible(h[w].op, k, RequestOf(h[w]).want)
    BY <1>1, <1>4, <2>1, HopelessIsImpossible
  <2> QED
    BY <1>1, <1>3, <1>4, <1>6, <2>1, <2>2, RefusedRequest
<1>9. CASE Written(w)
  <2>1. h[w].pc \in {"save", "erase"} /\ reply' = [reply EXCEPT ![w] = "OK"]
    BY <1>9 DEF Written, Finishes
  <2>2. Effective(h[w])
    BY <1>2, <2>1 DEF Effective, StepsOf
  <2>3. h[w].op = "DeleteNvmeNamespace" => Held(k) = None
    BY <1>1, <1>2, <2>1, HeldBy DEF Past, PastChange, StepsOf
  <2>4. Catalogued(k)' = Catalogued(k)
    BY <1>4, <1>5, <2>3, CataloguedBy
  <2>5. \A c \in Controllers, n \in Namespaces : Plain(c, n)' <=> Plain(c, n)
    BY <1>4, PlainSame
  <2>6. ASSUME k \in Namespaces, NEW c \in Controllers
        PROVE  Plain(c, k) <=> h[w].op \in CreateOps /\ Parent[c] = Parent[k] /\ Held(c) # None
    <3>1. CASE h[w].op = "DeleteNvmeNamespace"
      BY <2>3, <3>1 DEF Plain
    <3>2. CASE h[w].op = "CreateNvmeNamespace"
      <4>1. h[w].pc = "save"
        BY <1>2, <2>1, <3>2 DEF StepsOf
      <4>2. \A d \in Siblings(Root(k)) : Attachment(d, k) \in fw.att
        BY <1>1, <1>2, <3>2, <4>1 DEF OInv, Ordered, Looping, PastChange, Reached
      <4>3. Held(k) # None
        <5>1. Held(k) = h[w].obj
          BY <1>1, <1>2, <3>2, <4>1, HeldBy DEF Past, PastChange
        <5>2. h[w].obj \in NsNums
          BY <1>2, <3>2, RunningTyped DEF IInv, TypeOK
        <5> QED
          BY <5>1, <5>2, NumsAreInts, FrontendAssumption DEF FrontendAssumption
      <4>4. Parent[c] = Parent[k] => Held(c) = store[c]
        <5>1. c # k /\ c \in Keys /\ Root(c) = Parent[c] /\ Root(k) = Parent[k]
          BY <1>2, <2>6, Names DEF Children
        <5> QED
          BY <1>1, <1>2, <5>1, Holdings
      <4>5. Root(k) = Parent[k]
        BY <2>6, Names DEF Children
      <4> QED
        BY <3>2, <4>2, <4>3, <4>4, <4>5 DEF Plain, Siblings
    <3> QED
      BY <1>2, <2>6, <3>1, <3>2
  <2>7. k \in Namespaces =>
          \A c \in Controllers : <<c, k>> \in AttachedNow' <=> <<c, k>> \in AttachedNow
    <3> HIDE DEF CreateOps
    <3> QED
      BY <1>4, <2>2, <2>5, <2>6, OwnNamespace
  <2>8. AttachedNow' = AttachedNow
    BY <1>4, <2>5, <2>7, AttachedAsBefore
  <2> QED
    BY <1>1, <1>3, <1>4, <2>1, <2>2, <2>4, <2>8, Confirmed
<1> QED
  BY <1>7, <1>8, <1>9

\* Every step of a handler is a step of the catalogue or one that it does not see.
LEMMA HandleImplements ==
  ASSUME CInv, CInv', Faultless, IdsAgree, LenientDetach, NEW w \in Worker, Handle(w)
  PROVE  \/ C!Create(w) \/ C!Delete(w) \/ C!Update(w) \/ C!Confirm(w) \/ C!Refuse(w)
         \/ UNCHANGED C!vars
<1>1. OInv /\ Running(w)
  BY StepsOwnFrame DEF CInv, OInv, IInv, TypeOK, HandlersOK
<1>2. Ordinary(w)
  BY <1>1, OrderedSteps
<1> QED
  BY <1>1, <1>2, QuietSteps, NamespaceCallsUnseen, UpdateStrikes,
     SubsystemDeleteStrikes, ControllerDeleteStrikes, NamespaceDeleteStrikes,
     SubsystemCreateStrikes, ControllerCreateStrikes, NamespaceCreateStrikes, ReturnsSeen
     DEF Ordinary

\* A request that is answered at once leaves everything as it is.
LEMMA AnswerImplements ==
  ASSUME NEW w \in Worker, CInv, NEW code, AnswersAtOnce(w, code)
  PROVE  C!AnswerAtOnce(w, code)
<1>1. /\ UNCHANGED <<store, ListHelper, fw, h, cut>> /\ reply' = [reply EXCEPT ![w] = code]
      /\ h[w] = IdleFrame
  BY DEF AnswersAtOnce, Answer, CInv, EffectiveIs
<1>2. CatalogueNow' = CatalogueNow /\ AttachedNow' = AttachedNow /\ RequestNow' = RequestNow
  BY <1>1 DEF CatalogueNow, AttachedNow, RequestNow, Catalogued, Doing, Effective
<1>3. RequestNow[w] = C!NoRequest
  <2>1. RequestNow[w] = RequestOf(h[w])
    BY DEF RequestNow, RequestOf
  <2> QED
    BY <1>1, <2>1, IdleRequest
<1> QED
  BY <1>1, <1>2, <1>3 DEF C!AnswerAtOnce

\* A request is taken up when the catalogue has its name, or is free of it.
LEMMA StartImplements ==
  ASSUME CInv, CInv', BySubsystem, NEW w \in Worker, NEW op, NEW k, NEW pc, NEW obj,
         TakesUp(w, op, k, pc, obj)
  PROVE  C!Accept(w)
<1>1. TookUp(w, op, k, pc, obj)
  BY StartHolds DEF CInv, OInv
<1>2. /\ OnStep(w, k) /\ Running(w)' /\ ~Running(w) /\ h[w] = IdleFrame
      /\ h'[w].op = op /\ h'[w].key = k /\ h'[w].pc = pc /\ h'[w].obj = obj
      /\ reply' = [reply EXCEPT ![w] = "none"] /\ Held(k)' = Held(k) /\ fw' = fw /\ k \in Keys
  BY <1>1 DEF TookUp, TakesUp, OnStep, CInv, EffectiveIs, Running
<1>3. op \in MutatingOps /\ pc \in StepsOf(op) /\ pc \in {"scan", "parent", "rpc"}
  BY DEF TakesUp
<1>4. ~Effective(h[w]) /\ ~Effective(h'[w])
  <2>1. ~Effective(h[w])
    BY <1>2 DEF IdleFrame, Effective
  <2>2. ~Effective(h'[w])
    BY <1>2, <1>3 DEF TakesUp, Effective
  <2> QED
    BY <2>1, <2>2
<1>5. Unmoved(k) /\ ComesOrGoes(k) /\ KeepsAtt(k)
  BY <1>2 DEF Unmoved, ComesOrGoes, KeepsAtt
<1>6. Catalogued(k)' = Catalogued(k) /\ Catalogued(k) = store[k]
  <2>1. Held(k) = store[k]
    BY <1>2, HeldFree DEF OnStep, AloneOn
  <2> QED
    BY <1>2, <1>4, <2>1, CataloguedBy, CataloguedNext
<1>7. AttachedNow' = AttachedNow
  <2>1. \A c \in Controllers, n \in Namespaces : Plain(c, n)' <=> Plain(c, n)
    BY <1>2, <1>5, PlainSame
  <2>2. k \in Namespaces =>
          \A c \in Controllers : <<c, k>> \in AttachedNow' <=> <<c, k>> \in AttachedNow
    BY <1>2, <1>4, <2>1, OwnNamespace
  <2> QED
    BY <1>2, <1>5, <2>1, <2>2, AttachedAsBefore
<1>8. CatalogueNow' = CatalogueNow
  BY <1>2, <1>6, OthersCatalogued, CatalogueMoves DEF OnStep, CatalogueNow
<1>9. /\ RequestNow' = [RequestNow EXCEPT ![w] = RequestOf(h'[w])]
      /\ RequestNow[w] = RequestOf(h[w])
      /\ RequestNow'[w] = RequestOf(h'[w])
  BY <1>2, RequestMoves DEF OnStep
<1>10. PICK want : want = IF op \in DeleteOps THEN None ELSE obj
  OBVIOUS
<1>11. RequestOf(h'[w]) = [op |-> op, key |-> k, want |-> want, done |-> FALSE]
  <2>1. Effective(h'[w]) = FALSE
    BY <1>4 DEF Effective
  <2> HIDE DEF DeleteOps
  <2> QED
    BY <1>2, <1>10, <2>1 DEF RequestOf
<1>12. RequestNow[w] = C!NoRequest
  BY <1>2, <1>9, IdleRequest
<1>13. op \in C!Creates \cup C!Deletes \cup C!Updates
  BY <1>3 DEF C!Creates, C!Deletes, C!Updates
<1>14. k \in C!NamesFor(op)
  BY DEF TakesUp, C!NamesFor
<1>15. want \in C!Wants(op, k)
  <2>1. CASE op \in DeleteOps
    BY <1>10, <2>1 DEF C!Wants, C!Deletes
  <2>2. CASE op = "CreateNvmeSubsystem"
    BY <1>10, <2>2 DEF TakesUp, C!Wants, C!Deletes
  <2>3. CASE op = "CreateNvmeNamespace"
    BY <1>10, <2>3 DEF TakesUp, C!Wants, C!Deletes
  <2>4. CASE op = "CreateNvmeController"
    BY <1>10, <2>4 DEF TakesUp, C!Wants, C!Deletes
  <2>5. CASE op = "UpdateNvmeController"
    <3>1. store[k] \in CtrlrNums
      BY <2>5 DEF TakesUp, CInv, OInv, IInv, TypeOK, StoreOK
    <3> QED
      BY <1>10, <2>5, <3>1 DEF TakesUp, C!Wants, C!Deletes
  <2> QED
    BY <1>3, <2>1, <2>2, <2>3, <2>4, <2>5
<1>16. op \in C!Creates <=> ~C!Exists(k)
  <2>1. CatalogueNow[k] = store[k]
    BY <1>2, <1>6 DEF CatalogueNow
  <2> QED
    BY <2>1 DEF TakesUp, C!Creates, C!Exists
<1>17. PICK r : r = [op |-> op, key |-> k, want |-> want, done |-> FALSE]
  OBVIOUS
<1>18. /\ r.op = op /\ r.key = k /\ r.want = want /\ RequestNow'[w] = r
       /\ RequestNow' = [RequestNow EXCEPT ![w] =
            [op |-> r.op, key |-> r.key, want |-> r.want, done |-> FALSE]]
  BY <1>9, <1>11, <1>17
<1> QED
  BY <1>2, <1>7, <1>8, <1>12, <1>13, <1>14, <1>15, <1>16, <1>18 DEF C!Accept

\* The catalogue starts empty.
LEMMA InitImplements == Init => C!Init
<1> SUFFICES ASSUME Init PROVE C!Init
  OBVIOUS
<1>1. \A w \in Worker : h[w] = IdleFrame
  BY DEF Init
<1>2. \A w \in Worker : ~Effective(h[w])
  BY <1>1 DEF Effective, IdleFrame
<1>3. \A k, ops : Doing(k, ops) = {}
  BY <1>2 DEF Doing
<1>4. CatalogueNow = [k \in Keys |-> None]
  BY <1>3 DEF CatalogueNow, Catalogued, Init
<1>5. C!Names = Keys
  BY DEF C!Names, C!Children, Keys, Children
<1>6. AttachedNow = {}
  BY <1>3 DEF AttachedNow, Init, EmptyFw
<1>7. RequestNow = [w \in Worker |-> C!NoRequest]
  <2>1. RequestNow = [w \in Worker |-> RequestOf(h[w])]
    BY DEF RequestNow, RequestOf
  <2> QED
    BY <1>1, <2>1, IdleRequest
<1> QED
  BY <1>4, <1>5, <1>6, <1>7 DEF C!Init, Init

\* Every step of the Server is one of the catalogue, or leaves it as it is.
LEMMA StepImplements ==
  ASSUME CInv, CInv', Waiting, [Next]_vars
  PROVE  [C!Next]_(C!vars)
<1> USE DEF Waiting
<1>1. ASSUME NEW w \in Worker, Handle(w)
      PROVE  C!Next \/ UNCHANGED C!vars
  BY <1>1, HandleImplements DEF C!Next
<1>2. ASSUME NEW w \in Worker, Request(w)
      PROVE  C!Next
  BY <1>2, RequestSteps, AnswerImplements, StartImplements DEF C!Next
<1>3. ~Restart
  BY DEF Restart, Faultless
<1>4. CASE UNCHANGED vars
  BY <1>4 DEF vars, C!vars, CatalogueNow, AttachedNow, RequestNow, Catalogued, Doing, Effective
<1> QED
  BY <1>1, <1>2, <1>3, <1>4 DEF Next

---------------------------------------------------------------------------

\* Where clients wait for their requests on a subsystem and nothing fails, the
\* Server is a catalogue: every request takes effect at one instant, completely or
\* not at all, and after the effect no loop, call or write can fail.  In every
\* such instance, with any number of names, ids and requests, also when clients
\* give several subsystems the same NQN.
THEOREM ImplementsCatalogue ==
  ASSUME Waiting
  PROVE  Spec => CatalogueSpec
<1>1. Init => C!Init
  BY InitImplements
<1>2. CInv /\ CInv' /\ [Next]_vars => [C!Next]_(C!vars)
  BY StepImplements
<1> QED
  BY <1>1, <1>2, AlwaysCatalogued, PTL DEF Spec, CatalogueSpec, C!Spec
=============================================================================
