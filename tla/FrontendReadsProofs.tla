------------------------ MODULE FrontendReadsProofs ------------------------
(* Theorems about FrontendReads, for every value of its constants.         *)
EXTENDS FrontendReads, FrontendMirror

Replies ==
  [code : Codes, items : SUBSET (Nqns \cup CtrlrNums \cup NsNums), token : Nat]

---------------------------------------------------------------------------
(* The reads beside the mutating handlers.                                 *)

\* With read handlers beside them, and clients that also wait for their reads, the
\* mutating handlers behave as they do without: a step of a reader changes nothing
\* they look at, and a restart is a restart of both.
THEOREM ReadsAreInvisible == ReadSpec => Spec
<1>1. ReadInit => Init
  BY DEF ReadInit
<1>2. [ReadNext]_<<vars, reads>> => [Next]_vars
  <2> SUFFICES ASSUME [ReadNext]_<<vars, reads>>
               PROVE  [Next]_vars
    OBVIOUS
  <2>1. CASE UNCHANGED <<vars, reads>>
    BY <2>1
  <2>2. CASE ReadNext
    BY <2>2 DEF ReadNext, RestartReads, Next
  <2> QED
    BY <2>1, <2>2
<1> QED
  BY <1>1, <1>2, PTL DEF ReadSpec, Spec

---------------------------------------------------------------------------
(* The steps that read handlers share preserve the type invariant.         *)

\* A step that gives reader r frame f and answer a.
LEMMA ReaderTyped ==
  ASSUME ReadTypeOK, NEW r \in Reader,
         NEW f \in ReadFrames, ReadFrameOK(f), NEW a \in Replies,
         g' = [g EXCEPT ![r] = f], ans' = [ans EXCEPT ![r] = a],
         Pagination' \in Seq(Nat)
  PROVE  ReadTypeOK'
<1>1. g' \in [Reader -> ReadFrames]
  BY DEF ReadTypeOK
<1>2. \A q \in Reader : ReadFrameOK(g'[q])
  <2> SUFFICES ASSUME NEW q \in Reader PROVE ReadFrameOK(g'[q])
    OBVIOUS
  <2>1. CASE q = r
    BY <2>1 DEF ReadTypeOK
  <2>2. CASE q # r
    <3>1. g'[q] = g[q]
      BY <2>2 DEF ReadTypeOK
    <3> QED
      BY <3>1 DEF ReadTypeOK
  <2> QED
    BY <2>1, <2>2
<1>3. ans' \in [Reader -> Replies]
  BY DEF ReadTypeOK, Replies, Codes
<1> QED
  BY <1>1, <1>2, <1>3 DEF ReadTypeOK, Replies, Codes, ReadFrameOK

\* The idle frame.
LEMMA IdleReadTyped == IdleRead \in ReadFrames /\ ReadFrameOK(IdleRead)
<1>1. IdleRead \in ReadFrames
  BY DEF IdleRead, ReadFrames
<1>2. ReadFrameOK(IdleRead)
  BY DEF ReadFrameOK
<1> QED
  BY <1>1, <1>2

\* An answer that lists nothing.
LEMMA NoAnswerTyped == ASSUME NEW code \in Codes PROVE NoAnswer(code) \in Replies
  BY DEF NoAnswer, Replies

\* The handler replies.
LEMMA ReplyTyped ==
  ASSUME ReadTypeOK, NEW r \in Reader, NEW a \in Replies, Reply(r, a),
         Pagination' \in Seq(Nat)
  PROVE  ReadTypeOK'
  BY ReaderTyped, IdleReadTyped DEF Reply

\* A lookup takes what it found to the call.
LEMMA LookUpTyped ==
  ASSUME TypeOK, ReadTypeOK, NEW r \in Reader,
         NEW op \in GetOps \cup StatsOps, NEW k \in ReadKeys(op), k \in Keys,
         NEW next \in {"parent", "rpc"}, op \notin BareOps => next = "parent",
         NEW missing \in Codes, LookUp(r, op, k, next, missing)
  PROVE  ReadTypeOK'
<1> DEFINE f == [IdleRead EXCEPT !.op = op, !.pc = next, !.key = k, !.obj = store[k]]
<1>1. Pagination' \in Seq(Nat)
  BY DEF LookUp, ReadTypeOK
<1>2. CASE store[k] # None /\ g' = [g EXCEPT ![r] = f]
           /\ ans' = [ans EXCEPT ![r] = NoAnswer("none")]
  <2>1. store[k] \in Nqns \cup CtrlrNums \cup NsNums
    BY <1>2 DEF TypeOK, StoreOK
  <2>2. f \in ReadFrames
    BY <2>1 DEF ReadFrames, IdleRead
  <2>3. /\ k \in Subsystems => store[k] \in Nqns
        /\ k \in Controllers => store[k] \in CtrlrNums
        /\ k \in Namespaces => store[k] \in NsNums
    BY <1>2 DEF TypeOK, StoreOK
  <2>4. f.op = op /\ f.key = k /\ f.obj = store[k] /\ f.pc = next
    BY DEF IdleRead
  <2>5. ReadFrameOK(f)
    BY <2>3, <2>4 DEF ReadFrameOK, GetOps, StatsOps
  <2>6. NoAnswer("none") \in Replies
    BY NoAnswerTyped DEF Codes
  <2> QED
    BY <1>1, <1>2, <2>2, <2>5, <2>6, ReaderTyped
<1>3. CASE \E code \in Codes : Reply(r, NoAnswer(code))
  BY <1>1, <1>3, ReplyTyped, NoAnswerTyped
<1> QED
  BY <1>2, <1>3 DEF LookUp, Codes

\* The fetch of subsystem s gives the call its NQN.
LEMMA FetchNqnTyped ==
  ASSUME TypeOK, ReadTypeOK, NEW r \in Reader, g[r].pc = "parent",
         NEW s \in Subsystems, FetchNqn(r, s)
  PROVE  ReadTypeOK'
<1> DEFINE f == [g[r] EXCEPT !.nqn = store[s], !.pc = "rpc"]
<1>1. Pagination' \in Seq(Nat)
  BY DEF FetchNqn, ReadTypeOK
<1>2. CASE store[s] # None /\ g' = [g EXCEPT ![r].nqn = store[s], ![r].pc = "rpc"]
           /\ UNCHANGED ans
  <2>1. store[s] \in Nqns
    BY <1>2 DEF TypeOK, StoreOK
  <2>2. g[r] \in ReadFrames /\ ReadFrameOK(g[r]) /\ g[r] # IdleRead
    BY DEF ReadTypeOK, IdleRead
  <2>3. f \in ReadFrames
    BY <2>1, <2>2 DEF ReadFrames
  <2>4. f.op = g[r].op /\ f.key = g[r].key /\ f.obj = g[r].obj /\ f.nqn = store[s]
    BY <2>2 DEF ReadFrames
  <2>5. ReadFrameOK(f)
    BY <2>1, <2>2, <2>4 DEF ReadFrameOK
  <2>6. ans' = [ans EXCEPT ![r] = ans[r]] /\ ans[r] \in Replies
    BY <1>2 DEF ReadTypeOK, Replies, Codes
  <2>7. g' = [g EXCEPT ![r] = f]
    BY <1>2, <2>2 DEF ReadTypeOK, ReadFrames
  <2> QED
    BY <1>1, <2>3, <2>5, <2>6, <2>7, ReaderTyped
<1>3. CASE \E code \in Codes : Reply(r, NoAnswer(code))
  BY <1>1, <1>3, ReplyTyped, NoAnswerTyped
<1> QED
  BY <1>2, <1>3 DEF FetchNqn, Codes

\* A read below a subsystem fetches the record of its parent.
LEMMA FetchParentTyped ==
  ASSUME TypeOK, ReadTypeOK, NEW r \in Reader, g[r].pc = "parent",
         g[r].key \in Children, FetchParent(r)
  PROVE  ReadTypeOK'
<1>1. Parent[g[r].key] \in Subsystems
  BY FrontendAssumption DEF FrontendAssumption
<1> QED
  BY <1>1, FetchNqnTyped DEF FetchParent

\* The call for information on one object.
LEMMA AskTyped ==
  ASSUME ReadTypeOK, NEW r \in Reader, NEW exists, Ask(r, exists)
  PROVE  ReadTypeOK'
<1>1. Pagination' \in Seq(Nat)
  BY DEF Ask, ReadTypeOK
<1>2. \E code \in Codes : Reply(r, NoAnswer(code))
  BY DEF Ask, Codes
<1> QED
  BY <1>1, <1>2, ReplyTyped, NoAnswerTyped

\* The first step of a listing.
LEMMA ExtractTyped ==
  ASSUME ReadTypeOK, NEW r \in Reader, NEW op \in ListOps,
         NEW s \in ReadKeys(op),
         NEW next \in {"parent", "rpc"}, op # "ListNvmeSubsystems" => next = "parent",
         NEW size \in PageSizes, NEW token \in Nat,
         ExtractPagination(r, op, s, next, size, token)
  PROVE  ReadTypeOK'
<1> DEFINE sz == IF size = 0 THEN DefaultPageSize ELSE size
           off == IF token = 0 THEN 0 ELSE Pagination[token]
           f == [IdleRead EXCEPT !.op = op, !.pc = next, !.key = s,
                                 !.size = sz, !.offset = off]
<1>1. Pagination' \in Seq(Nat)
  BY DEF ExtractPagination, ReadTypeOK
<1>2. CASE /\ size >= 0 /\ token \in {0} \cup DOMAIN Pagination
           /\ g' = [g EXCEPT ![r] = f] /\ ans' = [ans EXCEPT ![r] = NoAnswer("none")]
  <2>1. sz \in Nat
    BY <1>2, FrontendReadsAssumption DEF FrontendReadsAssumption
  <2>2. off \in Nat
    BY <1>2 DEF ReadTypeOK
  <2>3. s \in Keys \cup {None}
    BY DEF ReadKeys, Keys, Children
  <2>4. f \in ReadFrames
    BY <2>1, <2>2, <2>3 DEF ReadFrames, IdleRead
  <2>5. f.op = op /\ f.key = s /\ f.pc = next
    BY DEF IdleRead
  <2>6. ReadFrameOK(f)
    BY <2>5 DEF ReadFrameOK, ListOps, GetOps, StatsOps, BareOps
  <2>7. NoAnswer("none") \in Replies
    BY NoAnswerTyped DEF Codes
  <2> QED
    BY <1>1, <1>2, <2>4, <2>6, <2>7, ReaderTyped
<1>3. CASE \E code \in Codes : Reply(r, NoAnswer(code))
  BY <1>1, <1>3, ReplyTyped, NoAnswerTyped
<1> QED
  BY <1>2, <1>3 DEF ExtractPagination, Codes

\* The page of a listing shows some of what the application has.
LEMMA ListPageTyped ==
  ASSUME ReadTypeOK, NEW r \in Reader,
         NEW items \in SUBSET (Nqns \cup CtrlrNums \cup NsNums), ListPage(r, items)
  PROVE  ReadTypeOK'
<1> DEFINE end == g[r].offset + g[r].size
<1>1. end \in Nat
  BY DEF ReadTypeOK, ReadFrames
<1>2. CASE /\ \E p \in Pages(items, g[r].offset, g[r].size) :
                Reply(r, [code |-> "OK", items |-> p, token |-> 0])
           /\ Pagination' = IF end < Cardinality(items)
                            THEN Append(Pagination, end) ELSE Pagination
  <2>1. Pagination' \in Seq(Nat)
    BY <1>1, <1>2 DEF ReadTypeOK
  <2>2. PICK p \in Pages(items, g[r].offset, g[r].size) :
          Reply(r, [code |-> "OK", items |-> p, token |-> 0])
    BY <1>2
  <2>3. [code |-> "OK", items |-> p, token |-> 0] \in Replies
    BY DEF Pages, Replies, Codes
  <2> QED
    BY <2>1, <2>2, <2>3, ReplyTyped
<1>3. CASE Reply(r, NoAnswer("Failed")) /\ UNCHANGED Pagination
  BY <1>3, ReplyTyped, NoAnswerTyped DEF ReadTypeOK, Codes
<1> QED
  BY <1>2, <1>3 DEF ListPage

---------------------------------------------------------------------------
(* Every step of a reader preserves the type invariant.                    *)

\* What the application lists are NQNs and ids.
LEMMA ListedTyped ==
  ASSUME TypeOK, NEW q
  PROVE  /\ fw.subs \subseteq Nqns
         /\ CtrlrIds(fw, q) \subseteq CtrlrNums
         /\ NsIds(fw, q) \subseteq NsNums
  BY DEF TypeOK, FwStates, CtrlrIds, NsIds

\* A read request arrives.
LEMMA ReadRequestTyped ==
  ASSUME TypeOK, ReadTypeOK, NEW r \in Reader, ReadRequest(r)
  PROVE  ReadTypeOK'
<1>1. \A t \in Tokens(r) : t \in Nat
  BY FrontendReadsAssumption DEF Tokens, ReadTypeOK, FrontendReadsAssumption
<1>2. ASSUME NEW size \in PageSizes, NEW t \in Tokens(r),
             \/ ListNvmeSubsystems(r, size, t)
             \/ \E s \in Subsystems : ListNvmeControllers(r, s, size, t)
             \/ \E s \in Subsystems : ListNvmeNamespaces(r, s, size, t)
      PROVE  ReadTypeOK'
  BY <1>1, <1>2, ExtractTyped
     DEF ListNvmeSubsystems, ListNvmeControllers, ListNvmeNamespaces, ListOps, ReadKeys
<1>3. ASSUME NEW s \in Subsystems, GetNvmeSubsystem(r, s) \/ StatsNvmeSubsystem(r, s)
      PROVE  ReadTypeOK'
  <2>1. s \in Keys
    BY DEF Keys
  <2> QED
    BY <1>3, <2>1, LookUpTyped
       DEF GetNvmeSubsystem, StatsNvmeSubsystem, GetOps, StatsOps, BareOps, ReadKeys, Codes
<1>4. ASSUME NEW c \in Controllers, GetNvmeController(r, c) \/ StatsNvmeController(r, c)
      PROVE  ReadTypeOK'
  <2>1. c \in Keys
    BY DEF Keys, Children
  <2> QED
    BY <1>4, <2>1, LookUpTyped
       DEF GetNvmeController, StatsNvmeController, GetOps, StatsOps, BareOps, ReadKeys, Codes
<1>5. ASSUME NEW n \in Namespaces, GetNvmeNamespace(r, n) \/ StatsNvmeNamespace(r, n)
      PROVE  ReadTypeOK'
  <2>1. n \in Keys
    BY DEF Keys, Children
  <2> QED
    BY <1>5, <2>1, LookUpTyped
       DEF GetNvmeNamespace, StatsNvmeNamespace, GetOps, StatsOps, BareOps, ReadKeys, Codes
<1> QED
  BY <1>2, <1>3, <1>4, <1>5 DEF ReadRequest

\* What the frame of a reader in the middle of a request says of its name.
LEMMA ReadNames ==
  ASSUME ReadTypeOK, NEW r \in Reader, Reading(r)
  PROVE  g[r].key \in ReadKeys(g[r].op)
  BY DEF ReadTypeOK, ReadFrameOK, Reading, IdleRead

\* The handlers of subsystem reads.
LEMMA SubsystemReadsTyped ==
  ASSUME TypeOK, ReadTypeOK, NEW r \in Reader,
         \/ ListNvmeSubsystemsRpc(r) \/ GetNvmeSubsystemRpc(r) \/ StatsNvmeSubsystemRpc(r)
  PROVE  ReadTypeOK'
<1>1. CASE ListNvmeSubsystemsRpc(r)
  BY <1>1, ListedTyped, ListPageTyped DEF ListNvmeSubsystemsRpc
<1>2. CASE GetNvmeSubsystemRpc(r)
  BY <1>2, AskTyped DEF GetNvmeSubsystemRpc
<1>3. CASE StatsNvmeSubsystemRpc(r)
  BY <1>3, AskTyped DEF StatsNvmeSubsystemRpc
<1> QED
  BY <1>1, <1>2, <1>3

\* A refusal of the application.
LEMMA RefusedReadTyped ==
  ASSUME ReadTypeOK, NEW r \in Reader, Reply(r, NoAnswer("Failed")), UNCHANGED Pagination
  PROVE  ReadTypeOK'
<1>1. NoAnswer("Failed") \in Replies
  BY NoAnswerTyped DEF Codes
<1> QED
  BY <1>1, ReplyTyped DEF ReadTypeOK

\* The handlers of controller reads.
LEMMA ControllerReadsTyped ==
  ASSUME TypeOK, ReadTypeOK, NEW r \in Reader,
         \/ ListNvmeControllersParent(r) \/ ListNvmeControllersRpc(r)
         \/ GetNvmeControllerParent(r) \/ GetNvmeControllerRpc(r)
         \/ StatsNvmeControllerParent(r) \/ StatsNvmeControllerRpc(r)
  PROVE  ReadTypeOK'
<1>1. CASE ListNvmeControllersParent(r)
  <2>1. g[r].pc = "parent" /\ g[r].key \in Subsystems
    BY <1>1, ReadNames DEF ListNvmeControllersParent, ReadAt, Reading, ReadKeys
  <2> QED
    BY <1>1, <2>1, FetchNqnTyped DEF ListNvmeControllersParent
<1>2. CASE ListNvmeControllersRpc(r)
  BY <1>2, ListedTyped, ListPageTyped, RefusedReadTyped DEF ListNvmeControllersRpc
<1>3. CASE GetNvmeControllerParent(r) \/ StatsNvmeControllerParent(r)
  <2>1. g[r].pc = "parent" /\ g[r].key \in Children /\ FetchParent(r)
    BY <1>3, ReadNames
       DEF GetNvmeControllerParent, StatsNvmeControllerParent, ReadAt, Reading, ReadKeys, Children
  <2> QED
    BY <2>1, FetchParentTyped
<1>4. CASE GetNvmeControllerRpc(r)
  BY <1>4, AskTyped DEF GetNvmeControllerRpc
<1>5. CASE StatsNvmeControllerRpc(r)
  BY <1>5, AskTyped DEF StatsNvmeControllerRpc
<1> QED
  BY <1>1, <1>2, <1>3, <1>4, <1>5

\* The handlers of namespace reads.
LEMMA NamespaceReadsTyped ==
  ASSUME TypeOK, ReadTypeOK, NEW r \in Reader,
         \/ ListNvmeNamespacesParent(r) \/ ListNvmeNamespacesRpc(r)
         \/ GetNvmeNamespaceParent(r) \/ GetNvmeNamespaceRpc(r)
         \/ StatsNvmeNamespaceParent(r) \/ StatsNvmeNamespaceRpc(r)
  PROVE  ReadTypeOK'
<1>1. CASE ListNvmeNamespacesParent(r)
  <2>1. g[r].pc = "parent" /\ g[r].key \in Subsystems
    BY <1>1, ReadNames DEF ListNvmeNamespacesParent, ReadAt, Reading, ReadKeys
  <2> QED
    BY <1>1, <2>1, FetchNqnTyped DEF ListNvmeNamespacesParent
<1>2. CASE ListNvmeNamespacesRpc(r)
  BY <1>2, ListedTyped, ListPageTyped, RefusedReadTyped DEF ListNvmeNamespacesRpc
<1>3. CASE GetNvmeNamespaceParent(r) \/ StatsNvmeNamespaceParent(r)
  <2>1. g[r].pc = "parent" /\ g[r].key \in Children /\ FetchParent(r)
    BY <1>3, ReadNames
       DEF GetNvmeNamespaceParent, StatsNvmeNamespaceParent, ReadAt, Reading, ReadKeys, Children
  <2> QED
    BY <2>1, FetchParentTyped
<1>4. CASE GetNvmeNamespaceRpc(r)
  BY <1>4, AskTyped DEF GetNvmeNamespaceRpc
<1>5. CASE StatsNvmeNamespaceRpc(r)
  BY <1>5, AskTyped DEF StatsNvmeNamespaceRpc
<1> QED
  BY <1>1, <1>2, <1>3, <1>4, <1>5

---------------------------------------------------------------------------
(* The type invariant of the reading half.                                 *)

\* A restart forgets the running reads and every token.
LEMMA RestartReadsTyped ==
  ASSUME ReadTypeOK, RestartReads PROVE ReadTypeOK'
<1>1. Pagination' \in Seq(Nat)
  BY DEF RestartReads
<1>2. g' \in [Reader -> ReadFrames] /\ \A r \in Reader : ReadFrameOK(g'[r])
  BY IdleReadTyped DEF RestartReads
<1> QED
  BY <1>1, <1>2 DEF RestartReads, ReadTypeOK

\* One step: the mutating handlers leave the readers' state alone.
LEMMA ReadStepTyped ==
  ASSUME TypeOK, ReadTypeOK, [ReadNext]_<<vars, reads>>
  PROVE  ReadTypeOK'
<1>1. CASE UNCHANGED reads
  BY <1>1 DEF reads, ReadTypeOK
<1>2. ASSUME NEW r \in Reader, ReadRequest(r) \/ ReadHandle(r)
      PROVE  ReadTypeOK'
  BY <1>2, ReadRequestTyped, SubsystemReadsTyped, ControllerReadsTyped, NamespaceReadsTyped
     DEF ReadHandle
<1>3. CASE RestartReads
  BY <1>3, RestartReadsTyped
<1> QED
  BY <1>1, <1>2, <1>3 DEF ReadNext

\* A read never calls the application with an NQN or an id it has not read, every
\* frame is one of its own request, and every token stands for an offset, whatever
\* the mutating handlers do in between and however often the bridge is restarted.
THEOREM ReadsTypeCorrect == ReadSpec => []ReadTypeOK
<1>1. ReadInit => ReadTypeOK
  <2> SUFFICES ASSUME ReadInit PROVE ReadTypeOK
    OBVIOUS
  <2>1. NoAnswer("none") \in Replies
    BY NoAnswerTyped DEF Codes
  <2> QED
    BY <2>1, IdleReadTyped DEF ReadInit, ReadTypeOK, Replies, Codes
<1>2. TypeOK /\ ReadTypeOK /\ [ReadNext]_<<vars, reads>> => ReadTypeOK'
  BY ReadStepTyped
<1> QED
  BY <1>1, <1>2, ReadsAreInvisible, TypeCorrect, PTL DEF ReadSpec

---------------------------------------------------------------------------
(* What the reads answer: ReadAnswersOwn, where clients wait for their own *)
(* requests on a name and give each subsystem NQNs of its own.             *)

USE DEF CreateOps, DeleteOps, SubsystemOps, ControllerOps, NamespaceOps, MutatingOps

---------------------------------------------------------------------------
(* The inductive invariant.                                                *)

\* What reader r has read is still so: no handler works on its name, the record
\* it found is the record there, and, as long as no request was cut short, the NQN
\* it fetched is that of the subsystem its name is in.
HoldsOwn(r) ==
  /\ \A w \in Worker : Running(w) => h[w].key # g[r].key
  /\ g[r].op \in GetOps \cup StatsOps => g[r].obj = store[g[r].key]
  /\ cut = {} /\ g[r].pc = "rpc" /\ g[r].op \notin BareOps =>
       g[r].nqn \in fw.subs \cap NqnOf[Root(g[r].key)]

ReadsOwn ==
  \A r \in Reader : Reading(r) =>
    ans[r].code = "none" /\ (g[r].key \in Keys => HoldsOwn(r))

RInv == MInv /\ ReadTypeOK /\ ReadsOwn

---------------------------------------------------------------------------
(* What a name without a running handler has in the application.           *)

\* Where no request was cut short, everything is intact.
LEMMA NothingCut ==
  ASSUME cut = {}, NEW k
  PROVE  Intact(Root(k)) /\ Uncut(k)
  BY DEF Intact, Clean, Uncut

\* A record that no handler works on has its object.
LEMMA RecordHas ==
  ASSUME MInv, cut = {}, NEW k \in Keys, store[k] # None,
         \A w \in Worker : Running(w) => h[w].key # k
  PROVE  /\ k \in Subsystems => store[k] \in fw.subs \cap NqnOf[k]
         /\ k \in Children => \E o \in Objs : o.owner = k /\ o.id = store[k]
                                /\ o.nqn \in fw.subs \cap NqnOf[Parent[k]]
<1>1. store[k] \in Values
  BY DEF MInv, IInv, TypeOK, StoreOK, Values
<1>2. Expects(k, store[k])
  BY DEF Expects, Past, PastChange, Running
<1>3. Has(k, store[k])
  BY <1>1, <1>2, NothingCut DEF MInv, Matches, Agree, AgreeAt
<1> QED
  BY <1>3, Names DEF Has, MInv, Matches, Placed

\* What the application has of a subsystem that has a record is its record.
LEMMA SubsystemIsRecord ==
  ASSUME MInv, cut = {}, NEW s \in Subsystems, store[s] # None,
         NEW q \in fw.subs \cap NqnOf[s]
  PROVE  q = store[s]
<1>1. q \in Values /\ s \in Keys /\ Root(s) = s
  BY Names, FrontendAssumption DEF FrontendAssumption, Values
<1>2. Has(s, q)
  BY DEF Has
<1>3. Expects(s, q)
  BY <1>1, <1>2, NothingCut DEF MInv, Matches, Agree, AgreeAt
<1>4. \A w \in Worker : ~(Past(w, s) /\ h[w].op \in CreateOps)
  BY DEF Past, PastChange, Running, MInv, IInv, OneAtATime, ReadStaysTrue
<1> QED
  BY <1>3, <1>4 DEF Expects

\* The object of a child is in the one subsystem its parent has.
LEMMA ChildInParent ==
  ASSUME MInv, cut = {}, NEW k \in Children, NEW o \in Objs, o.owner = k,
         NEW q \in fw.subs \cap NqnOf[Parent[k]]
  PROVE  o.nqn = q
<1>1. Parent[k] \in Subsystems /\ Root(k) = Parent[k]
  BY Names
<1>2. Intact(Parent[k])
  BY <1>1, NothingCut
<1>3. o.nqn \in fw.subs \cap NqnOf[Parent[k]]
  BY DEF MInv, Matches, Placed
<1> QED
  BY <1>1, <1>2, <1>3, OneNqn
---------------------------------------------------------------------------
(* The mutating handlers leave what the readers hold true.                 *)

\* Only the delete of a subsystem takes an NQN from the application, and no
\* request works on the name of a reader.
LEMMA NqnStays ==
  ASSUME RInv, OwnNqns, IdsAgree, cut = {}, NEW r \in Reader, Reading(r), g[r].key \in Keys,
         HoldsOwn(r), g[r].pc = "rpc", g[r].op \notin BareOps,
         NEW w \in Worker, Handle(w)
  PROVE  g[r].nqn \in fw'.subs
<1> DEFINE k == g[r].key
           t == Root(k)
<1>1. g[r].nqn \in fw.subs \cap NqnOf[t]
  BY DEF HoldsOwn
<1>2. CASE fw.subs \subseteq fw'.subs
  BY <1>1, <1>2
<1>3. CASE At(w, "DeleteNvmeSubsystem", "rpc") /\ fw'.subs = fw.subs \ {h[w].obj}
           /\ \A o \in Objs : o.nqn # h[w].obj
  <2> SUFFICES ASSUME g[r].nqn = h[w].obj
               PROVE  FALSE
    BY <1>1, <1>3
  <2>1. Running(w) /\ h[w].op = "DeleteNvmeSubsystem"
    BY <1>3 DEF At, Running
  <2>2. h[w].key \in Subsystems /\ h[w].obj \in NqnOf[h[w].key]
    BY <2>1, RunningOn DEF RInv, MInv, Matches, FrameOwn
  <2>3. t = h[w].key
    BY <1>1, <2>2, Names DEF OwnNqns
  <2>4. k # h[w].key
    BY <2>1 DEF HoldsOwn
  <2>5. k \in Children /\ t = Parent[k]
    BY <2>3, <2>4 DEF Keys, Root
  <2>6. g[r].op \in GetOps \cup StatsOps
    BY <2>5, ReadNames, Names DEF RInv, ReadTypeOK, ReadFrames, ReadKeys, ListOps, GetOps,
       StatsOps, BareOps, ReadFrameOK, Reading, IdleRead
  <2>7. store[k] # None
    <3>1. ReadFrameOK(g[r]) /\ g[r] # IdleRead
      BY DEF RInv, ReadTypeOK, Reading, IdleRead
    <3>2. g[r].obj \in CtrlrNums \cup NsNums
      BY <2>5, <2>6, <3>1 DEF ReadFrameOK, Children
    <3>3. g[r].obj # None
      BY <3>2, NumsAreInts, FrontendAssumption, Zenon DEF FrontendAssumption
    <3> QED
      BY <2>6, <3>3 DEF HoldsOwn
  <2>8. PICK o \in Objs : o.owner = k
    BY <2>5, <2>7, RecordHas DEF HoldsOwn, RInv
  <2>9. o.nqn = h[w].obj
    BY <1>1, <2>5, <2>8, ChildInParent DEF RInv
  <2> QED
    BY <1>3, <2>9
<1> QED
  BY <1>2, <1>3, ObjectSteps DEF SameObjects, Adds, Removes, RInv

\* A step of a mutating handler.
LEMMA HandleKeepsReads ==
  ASSUME RInv, OwnNqns, IdsAgree, NEW w \in Worker, Handle(w), UNCHANGED reads
  PROVE  ReadsOwn'
<1> SUFFICES ASSUME NEW r \in Reader, Reading(r)
             PROVE  ans[r].code = "none" /\ (g[r].key \in Keys => HoldsOwn(r)')
  BY DEF ReadsOwn, Reading, reads
<1>1. ans[r].code = "none"
  BY DEF RInv, ReadsOwn
<1>2. ASSUME g[r].key \in Keys
      PROVE  HoldsOwn(r)'
  <2>1. HoldsOwn(r) /\ StaysOn(w) /\ g' = g
    BY <1>2, StepsOwnName DEF RInv, MInv, ReadsOwn, reads
  <2>2. Running(w) /\ \A v \in Worker : v # w => h'[v] = h[v]
    BY StepsOwnFrame DEF RInv, MInv, IInv, TypeOK, HandlersOK
  <2>3. \A v \in Worker : Running(v)' => h'[v].key # g[r].key
    BY <2>1, <2>2 DEF HoldsOwn, StaysOn, Running
  <2>4. store'[g[r].key] = store[g[r].key]
    BY <1>2, <2>1, <2>2 DEF HoldsOwn, StaysOn
  <2>5. cut' = {} => cut = {}
    BY <2>1 DEF StaysOn
  <2> QED
    BY <1>2, <2>1, <2>3, <2>4, <2>5, NqnStays DEF HoldsOwn
<1> QED
  BY <1>1, <1>2

\* A request that waits for the reads on its name.
LEMMA RequestKeepsReads ==
  ASSUME RInv, \A k \in Keys : k \in Conflicts[k],
         NEW w \in Worker, Request(w), WaitsForReads(w), UNCHANGED reads
  PROVE  ReadsOwn'
<1>1. UNCHANGED <<store, fw>> /\ cut' = cut
  BY DEF Request, CreateNvmeSubsystem, DeleteNvmeSubsystem, UpdateNvmeSubsystem,
     CreateNvmeController, DeleteNvmeController, UpdateNvmeController,
     CreateNvmeNamespace, DeleteNvmeNamespace, UpdateNvmeNamespace, Answer, Start
<1>2. \A v \in Worker : v # w => h'[v] = h[v]
  BY ArrivesAlone DEF RInv, MInv, IInv, TypeOK, HandlersOK
<1> SUFFICES ASSUME NEW r \in Reader, Reading(r), g[r].key \in Keys
             PROVE  HoldsOwn(r)'
  BY DEF ReadsOwn, Reading, reads, RInv
<1>3. HoldsOwn(r) /\ g' = g
  BY DEF RInv, ReadsOwn, reads
<1>4. h'[w].key # g[r].key
  BY DEF WaitsForReads
<1> QED
  BY <1>1, <1>2, <1>3, <1>4 DEF HoldsOwn, Running
---------------------------------------------------------------------------
(* The steps of the readers.                                               *)

\* A handler begins to read: nothing runs on its name, and what it looked up is
\* the record.
Begins(r) ==
  \E f :
    /\ g' = [g EXCEPT ![r] = f] /\ ans' = [ans EXCEPT ![r] = NoAnswer("none")]
    /\ f.key \in Keys => ReceivesRead(r, f.key)
    /\ f.op \in GetOps \cup StatsOps => f.obj = store[f.key]
    /\ f.pc = "rpc" => f.op \in BareOps

\* It fetches the record of its subsystem.
Fetches(r) ==
  LET q == store[Root(g[r].key)] IN
  /\ Reading(r) /\ g[r].key \in Keys /\ q # None
  /\ g' = [g EXCEPT ![r].nqn = q, ![r].pc = "rpc"]
  /\ UNCHANGED ans

Replied(r) == \E a : Reply(r, a)

\* A lookup begins to read or answers.
LEMMA LookUpBegins ==
  ASSUME NEW r, NEW op, NEW k \in Keys, NEW next, NEW missing,
         next = "rpc" => op \in BareOps, LookUp(r, op, k, next, missing)
  PROVE  Begins(r) \/ Replied(r)
<1>1. ASSUME store[k] # None, ReceivesRead(r, k),
             g' = [g EXCEPT ![r] = [IdleRead EXCEPT !.op = op, !.pc = next, !.key = k,
                                                    !.obj = store[k]]],
             ans' = [ans EXCEPT ![r] = NoAnswer("none")]
      PROVE  Begins(r)
  <2> DEFINE f == [IdleRead EXCEPT !.op = op, !.pc = next, !.key = k, !.obj = store[k]]
  <2>1. f.op = op /\ f.pc = next /\ f.key = k /\ f.obj = store[k]
    BY DEF IdleRead
  <2> QED
    BY <1>1, <2>1 DEF Begins
<1> QED
  BY <1>1 DEF LookUp, Replied

\* So does the start of a listing.
LEMMA ExtractBegins ==
  ASSUME NEW r, NEW op \in ListOps, NEW s, NEW next, NEW size, NEW token,
         s \in Keys => ReceivesRead(r, s), next = "rpc" => op \in BareOps,
         ExtractPagination(r, op, s, next, size, token)
  PROVE  Begins(r) \/ Replied(r)
<1> DEFINE sz == IF size = 0 THEN DefaultPageSize ELSE size
           off == IF token = 0 THEN 0 ELSE Pagination[token]
           f == [IdleRead EXCEPT !.op = op, !.pc = next, !.key = s,
                                 !.size = sz, !.offset = off]
<1>1. ASSUME g' = [g EXCEPT ![r] = f], ans' = [ans EXCEPT ![r] = NoAnswer("none")]
      PROVE  Begins(r)
  <2>1. f.op = op /\ f.pc = next /\ f.key = s
    BY DEF IdleRead
  <2>2. f.op \notin GetOps \cup StatsOps
    BY <2>1 DEF ListOps, GetOps, StatsOps
  <2> HIDE DEF f
  <2> QED
    BY <1>1, <2>1, <2>2 DEF Begins
<1> QED
  BY <1>1 DEF ExtractPagination, Replied

\* The fetch of the subsystem of a read.
LEMMA FetchFetches ==
  ASSUME ReadTypeOK, NEW r \in Reader, Reading(r), g[r].key \in Keys,
         NEW s, s = Root(g[r].key), FetchNqn(r, s)
  PROVE  Fetches(r) \/ Replied(r)
  BY DEF FetchNqn, Fetches, Replied

\* The steps before the call.
LEMMA ReaderSteps ==
  ASSUME ReadTypeOK, NEW r \in Reader, ReadRequest(r) \/ ReadHandle(r)
  PROVE  Begins(r) \/ Fetches(r) \/ Replied(r)
<1>1. ASSUME NEW size, NEW t, ListNvmeSubsystems(r, size, t)
      PROVE  Begins(r) \/ Replied(r)
  <2>1. None \notin Keys
    BY FrontendAssumption DEF FrontendAssumption
  <2> QED
    BY <1>1, <2>1, ExtractBegins DEF ListNvmeSubsystems, ListOps, BareOps
<1>2. ASSUME NEW size, NEW t, NEW s \in Subsystems,
             ListNvmeControllers(r, s, size, t) \/ ListNvmeNamespaces(r, s, size, t)
      PROVE  Begins(r) \/ Replied(r)
  BY <1>2, ExtractBegins DEF ListNvmeControllers, ListNvmeNamespaces, ListOps
<1>3. ASSUME ReadRequest(r)
      PROVE  Begins(r) \/ Replied(r)
  BY <1>1, <1>2, <1>3, LookUpBegins
     DEF ReadRequest, GetNvmeSubsystem, StatsNvmeSubsystem, GetNvmeController,
         StatsNvmeController, GetNvmeNamespace, StatsNvmeNamespace, Keys, Children, BareOps
<1>4. CASE ListNvmeControllersParent(r) \/ ListNvmeNamespacesParent(r)
  <2>1. Reading(r) /\ g[r].key \in Subsystems /\ FetchNqn(r, g[r].key)
    BY <1>4, ReadNames
       DEF ListNvmeControllersParent, ListNvmeNamespacesParent, ReadAt, Reading, ReadKeys
  <2> QED
    BY <2>1, FetchFetches DEF Root, Keys
<1>5. CASE \/ GetNvmeControllerParent(r) \/ StatsNvmeControllerParent(r)
           \/ GetNvmeNamespaceParent(r) \/ StatsNvmeNamespaceParent(r)
  <2>1. Reading(r) /\ g[r].key \in Children /\ FetchParent(r)
    BY <1>5, ReadNames
       DEF GetNvmeControllerParent, StatsNvmeControllerParent, GetNvmeNamespaceParent,
           StatsNvmeNamespaceParent, ReadAt, Reading, ReadKeys, Children
  <2>2. g[r].key \in Keys /\ Parent[g[r].key] = Root(g[r].key)
    BY <2>1, Names
  <2> QED
    BY <2>1, <2>2, FetchFetches DEF FetchParent
<1>6. CASE \/ ListNvmeSubsystemsRpc(r) \/ ListNvmeControllersRpc(r) \/ ListNvmeNamespacesRpc(r)
           \/ GetNvmeSubsystemRpc(r) \/ StatsNvmeSubsystemRpc(r)
           \/ GetNvmeControllerRpc(r) \/ StatsNvmeControllerRpc(r)
           \/ GetNvmeNamespaceRpc(r) \/ StatsNvmeNamespaceRpc(r)
  BY <1>6 DEF ListNvmeSubsystemsRpc, ListNvmeControllersRpc, ListNvmeNamespacesRpc,
     GetNvmeSubsystemRpc, StatsNvmeSubsystemRpc, GetNvmeControllerRpc, StatsNvmeControllerRpc,
     GetNvmeNamespaceRpc, StatsNvmeNamespaceRpc, Ask, ListPage, Replied
<1> QED
  BY <1>3, <1>4, <1>5, <1>6 DEF ReadHandle

---------------------------------------------------------------------------
---------------------------------------------------------------------------
(* What a reader has read holds when it has read it.                       *)

\* The other readers are where they were.
LEMMA OtherReaders ==
  ASSUME RInv, NEW r \in Reader, NEW f, NEW a, UNCHANGED vars,
         g' = [g EXCEPT ![r] = f], ans' = [ans EXCEPT ![r] = a],
         f.pc # "idle" => a.code = "none" /\ (f.key \in Keys => HoldsOwn(r)')
  PROVE  ReadsOwn'
<1> SUFFICES ASSUME NEW p \in Reader, Reading(p)'
             PROVE  ans'[p].code = "none" /\ (g'[p].key \in Keys => HoldsOwn(p)')
  BY DEF ReadsOwn
<1>1. CASE p = r
  <2>1. g'[r] = f /\ ans'[r] = a
    BY DEF RInv, ReadTypeOK
  <2> QED
    BY <1>1, <2>1 DEF Reading
<1>2. CASE p # r
  <2>1. g'[p] = g[p] /\ ans'[p] = ans[p]
    BY <1>2 DEF RInv, ReadTypeOK
  <2> QED
    BY <2>1 DEF RInv, ReadsOwn, Reading, HoldsOwn, vars, Running
<1> QED
  BY <1>1, <1>2

\* A reader that begins on a name finds no handler there.
LEMMA BeginsOwn ==
  ASSUME RInv, \A k \in Keys : k \in Conflicts[k],
         NEW r \in Reader, Begins(r), UNCHANGED vars
  PROVE  ReadsOwn'
<1>1. PICK f :
        /\ g' = [g EXCEPT ![r] = f] /\ ans' = [ans EXCEPT ![r] = NoAnswer("none")]
        /\ f.key \in Keys => ReceivesRead(r, f.key)
        /\ f.op \in GetOps \cup StatsOps => f.obj = store[f.key]
        /\ f.pc = "rpc" => f.op \in BareOps
  BY DEF Begins
<1>2. g'[r] = f
  BY <1>1 DEF RInv, ReadTypeOK
<1>3. f.key \in Keys => HoldsOwn(r)'
  BY <1>1, <1>2 DEF HoldsOwn, ReceivesRead, Running, vars
<1>4. NoAnswer("none").code = "none"
  BY DEF NoAnswer
<1> QED
  BY <1>1, <1>3, <1>4, OtherReaders

\* The NQN a reader fetches is that of the subsystem its name is in.
LEMMA FetchesOwn ==
  ASSUME RInv, NEW r \in Reader, Fetches(r), UNCHANGED vars
  PROVE  ReadsOwn'
<1> DEFINE k == g[r].key
           s == Root(k)
           f == [g[r] EXCEPT !.nqn = store[s], !.pc = "rpc"]
<1>1. k \in Keys /\ Reading(r) /\ store[s] # None /\ s \in Subsystems /\ s \in Keys
  BY Names DEF Fetches
<1>2. g' = [g EXCEPT ![r] = f] /\ ans' = [ans EXCEPT ![r] = ans[r]]
  BY DEF Fetches, RInv, ReadTypeOK
<1>3. g[r] \in ReadFrames
  BY DEF RInv, ReadTypeOK
<1>4. f.nqn = store[s] /\ f.key = k /\ f.op = g[r].op /\ f.obj = g[r].obj /\ f.pc = "rpc"
  BY <1>3 DEF ReadFrames
<1>5. g'[r] = f
  BY <1>2 DEF RInv, ReadTypeOK
<1>6. ans[r].code = "none" /\ HoldsOwn(r)
  BY <1>1 DEF RInv, ReadsOwn
<1>7. ASSUME cut = {}, g[r].op \notin BareOps
      PROVE  store[s] \in fw.subs \cap NqnOf[s]
  <2>1. CASE k \in Subsystems
    BY <1>1, <1>6, <1>7, <2>1, RecordHas, Names DEF RInv, HoldsOwn
  <2>2. CASE k \in Children
    <3>1. g[r].op \in GetOps \cup StatsOps /\ g[r].obj # None
      <4>1. g[r].op \in GetOps \cup StatsOps
        BY <1>1, <2>2, ReadNames, Names DEF RInv, ReadTypeOK, ReadFrames, ReadKeys, ListOps,
           GetOps, StatsOps, ReadFrameOK, Reading, IdleRead
      <4>2. ReadFrameOK(g[r]) /\ g[r] # IdleRead
        BY <1>1 DEF RInv, ReadTypeOK, Reading, IdleRead
      <4>3. g[r].obj \in CtrlrNums \cup NsNums
        BY <2>2, <4>1, <4>2 DEF ReadFrameOK, Children
      <4> QED
        BY <4>1, <4>3, NumsAreInts, FrontendAssumption, Zenon DEF FrontendAssumption
    <3>2. PICK o \in Objs : o.owner = k /\ o.nqn \in fw.subs \cap NqnOf[Parent[k]]
      BY <1>1, <1>6, <1>7, <2>2, <3>1, RecordHas DEF RInv, HoldsOwn
    <3>3. s = Parent[k]
      BY <2>2, Names
    <3> QED
      BY <1>1, <1>7, <3>2, <3>3, SubsystemIsRecord DEF RInv
  <2> QED
    BY <1>1, <2>1, <2>2 DEF Keys
<1>8. HoldsOwn(r)'
  <2>1. \A w \in Worker : Running(w)' => h'[w].key # g'[r].key
    BY <1>4, <1>5, <1>6 DEF HoldsOwn, vars, Running
  <2>2. (g[r].op \in GetOps \cup StatsOps => g[r].obj = store[g[r].key])'
    BY <1>4, <1>5, <1>6 DEF HoldsOwn, vars
  <2>3. (cut = {} /\ g[r].pc = "rpc" /\ g[r].op \notin BareOps =>
           g[r].nqn \in fw.subs \cap NqnOf[Root(g[r].key)])'
    BY <1>4, <1>5, <1>7 DEF vars
  <2> QED
    BY <2>1, <2>2, <2>3 DEF HoldsOwn
<1> QED
  BY <1>2, <1>6, <1>8, OtherReaders

\* A reader that has answered holds nothing.
LEMMA RepliedOwn ==
  ASSUME RInv, NEW r \in Reader, Replied(r), UNCHANGED vars
  PROVE  ReadsOwn'
<1>1. PICK a : g' = [g EXCEPT ![r] = IdleRead] /\ ans' = [ans EXCEPT ![r] = a]
  BY DEF Replied, Reply
<1>2. IdleRead.pc = "idle"
  BY DEF IdleRead
<1> QED
  BY <1>1, <1>2, OtherReaders

---------------------------------------------------------------------------
(* The invariant is inductive.                                             *)

\* It holds before any request.
LEMMA ReadsMirrorInit == ReadInit => RInv
<1> SUFFICES ASSUME ReadInit PROVE RInv
  OBVIOUS
<1>1. MInv
  BY InitInOrder, MirrorInit DEF ReadInit, MInv
<1>2. ReadTypeOK
  <2>1. NoAnswer("none") \in Replies
    BY NoAnswerTyped DEF Codes
  <2> QED
    BY <2>1, IdleReadTyped DEF ReadInit, ReadTypeOK, Replies, Codes
<1>3. ReadsOwn
  BY DEF ReadInit, ReadsOwn, Reading, IdleRead
<1> QED
  BY <1>1, <1>2, <1>3 DEF RInv

\* Every step preserves it.
LEMMA ReadsMirrorStep ==
  ASSUME \A k \in Keys : k \in Conflicts[k], OwnNqns, IdsAgree, RInv,
         [ReadNext]_<<vars, reads>>
  PROVE  RInv'
<1>1. [Next]_vars
  BY DEF ReadNext, RestartReads, Next, vars
<1>2. MInv'
  <2>1. IInv'
    BY <1>1, StepInOrder, WaitingMakesAlone DEF RInv, MInv
  <2> QED
    BY <1>1, <2>1, MirrorStep DEF RInv, MInv
<1>3. ReadTypeOK'
  BY ReadStepTyped DEF RInv, MInv, IInv
<1>4. ReadsOwn'
  <2>1. CASE UNCHANGED <<vars, reads>>
    BY <2>1 DEF RInv, ReadsOwn, Reading, HoldsOwn, Running, vars, reads
  <2>2. ASSUME NEW w \in Worker, (Request(w) /\ WaitsForReads(w)) \/ Handle(w), UNCHANGED reads
        PROVE  ReadsOwn'
    BY <2>2, RequestKeepsReads, HandleKeepsReads
  <2>3. ASSUME NEW r \in Reader, ReadRequest(r) \/ ReadHandle(r), UNCHANGED vars
        PROVE  ReadsOwn'
    BY <2>3, ReaderSteps, BeginsOwn, FetchesOwn, RepliedOwn DEF RInv
  <2>4. CASE RestartReads
    BY <2>4 DEF RestartReads, ReadsOwn, Reading, IdleRead
  <2> QED
    BY <2>1, <2>2, <2>3, <2>4 DEF ReadNext
<1> QED
  BY <1>2, <1>3, <1>4 DEF RInv

---------------------------------------------------------------------------
(* The answers.                                                            *)

\* What a reader that is about to make its call knows of the application.
LEMMA AtTheCall ==
  ASSUME RInv, cut = {}, NEW r \in Reader, g[r].pc = "rpc"
  PROVE  /\ g[r].key \in Children =>
              \E o \in Objs : o.owner = g[r].key /\ o.nqn = g[r].nqn /\ o.id = g[r].obj
         /\ g[r].op \in {"GetNvmeSubsystem", "StatsNvmeSubsystem"} => g[r].obj \in fw.subs
         /\ g[r].op \in ListOps /\ g[r].key \in Subsystems =>
              g[r].nqn \in fw.subs \cap NqnOf[g[r].key]
<1> DEFINE k == g[r].key
           op == g[r].op
<1>1. Reading(r) /\ k \in ReadKeys(op) /\ ReadFrameOK(g[r]) /\ g[r] # IdleRead
  BY ReadNames DEF Reading, RInv, ReadTypeOK, IdleRead
<1>2. op \in ListOps \cup GetOps \cup StatsOps
  BY <1>1 DEF RInv, ReadTypeOK, ReadFrames, ReadFrameOK
<1>3. k \in Keys => HoldsOwn(r)
  BY <1>1 DEF RInv, ReadsOwn
<1>4. None \notin Values
  BY NumsAreInts, FrontendAssumption DEF FrontendAssumption, Values
<1>5. CASE k \in Children
  <2>1. op \in GetOps \cup StatsOps /\ op \notin BareOps /\ k \notin Subsystems
    BY <1>1, <1>2, <1>5, Names, FrontendAssumption
       DEF FrontendAssumption, ReadKeys, ListOps, GetOps, StatsOps, BareOps
  <2>2. g[r].obj \in CtrlrNums \cup NsNums
    BY <1>1, <1>5, <2>1 DEF ReadFrameOK, Children
  <2>3. store[k] = g[r].obj /\ store[k] # None
    BY <1>3, <1>4, <1>5, <2>1, <2>2, Names DEF HoldsOwn, Values
  <2>4. PICK o \in Objs : o.owner = k /\ o.id = store[k]
    BY <1>3, <1>5, <2>3, RecordHas, Names DEF HoldsOwn, RInv
  <2>5. g[r].nqn \in fw.subs \cap NqnOf[Parent[k]]
    BY <1>3, <1>5, <2>1, Names DEF HoldsOwn
  <2>6. o.nqn = g[r].nqn
    BY <1>5, <2>4, <2>5, ChildInParent DEF RInv
  <2> QED
    BY <1>5, <2>1, <2>3, <2>4, <2>6 DEF ListOps, GetOps, StatsOps, BareOps
<1>6. CASE op \in {"GetNvmeSubsystem", "StatsNvmeSubsystem"}
  <2>1. k \in Subsystems /\ op \in GetOps \cup StatsOps
    BY <1>1, <1>6 DEF ReadKeys, GetOps, StatsOps
  <2>2. store[k] = g[r].obj /\ store[k] # None
    BY <1>1, <1>3, <1>4, <2>1, Names DEF HoldsOwn, Values, ReadFrameOK
  <2>3. store[k] \in fw.subs
    BY <1>3, <2>1, <2>2, RecordHas, Names DEF HoldsOwn, RInv
  <2> QED
    BY <1>6, <2>1, <2>2, <2>3, Names DEF ListOps
<1>7. CASE op \in ListOps /\ k \in Subsystems
  <2>1. op \notin BareOps
    BY <1>1, <1>7, Names DEF ReadKeys, ListOps, BareOps
  <2> QED
    BY <1>3, <1>7, <2>1, Names DEF HoldsOwn, BareOps
<1> QED
  BY <1>5, <1>6, <1>7

\* An answer about one object that exists.
LEMMA AskAnswers ==
  ASSUME RInv, NEW r \in Reader, NEW exists, exists = TRUE, Ask(r, exists)
  PROVE  (ans'[r].code = "OK" \/ RpcFaults) /\ ans'[r].items = {}
<1>1. \E code \in {"OK", "Failed"} :
        Reply(r, NoAnswer(code)) /\ (code = "OK" \/ RpcFaults)
  BY DEF Ask
<1> QED
  BY <1>1 DEF Reply, NoAnswer, RInv, ReadTypeOK

\* A page of a listing.
LEMMA ListPageAnswers ==
  ASSUME RInv, NEW r \in Reader, NEW items, ListPage(r, items)
  PROVE  (ans'[r].code = "OK" \/ RpcFaults) /\ ans'[r].items \subseteq items
<1>1. CASE \E p \in Pages(items, g[r].offset, g[r].size) :
             Reply(r, [code |-> "OK", items |-> p, token |-> 0])
  BY <1>1 DEF Pages, Reply, RInv, ReadTypeOK
<1>2. CASE RpcFaults /\ Reply(r, NoAnswer("Failed"))
  BY <1>2 DEF Reply, NoAnswer, RInv, ReadTypeOK
<1> QED
  BY <1>1, <1>2 DEF ListPage

\* What is listed in a subsystem belongs to names below it.
LEMMA ListedBelow ==
  ASSUME RInv, OwnNqns, NEW s \in Subsystems, NEW o \in Objs, o.nqn \in NqnOf[s]
  PROVE  Parent[o.owner] = s
<1>1. o.owner \in Children
  BY ObjsTyped DEF RInv, MInv, Objs, Children
<1>2. o.nqn \in NqnOf[Parent[o.owner]] /\ Parent[o.owner] \in Subsystems
  BY <1>1, Names DEF RInv, MInv, Matches, Placed
<1> QED
  BY <1>2 DEF OwnNqns

\* The calls about one object.
LEMMA AskingAnswersOwn ==
  ASSUME RInv, OwnNqns, cut = {}, NEW r \in Reader, g[r].pc = "rpc",
         \/ GetNvmeSubsystemRpc(r) \/ StatsNvmeSubsystemRpc(r)
         \/ GetNvmeControllerRpc(r) \/ StatsNvmeControllerRpc(r)
         \/ GetNvmeNamespaceRpc(r) \/ StatsNvmeNamespaceRpc(r)
  PROVE  (ans'[r].code = "OK" \/ RpcFaults) /\ ans'[r].items = {}
<1>1. g[r].key \in ReadKeys(g[r].op)
  BY ReadNames DEF RInv, Reading
<1>2. CASE GetNvmeSubsystemRpc(r) \/ StatsNvmeSubsystemRpc(r)
  BY <1>2, AtTheCall, AskAnswers DEF GetNvmeSubsystemRpc, StatsNvmeSubsystemRpc, ReadAt
<1>3. CASE GetNvmeControllerRpc(r) \/ StatsNvmeControllerRpc(r)
  <2>1. g[r].key \in Controllers
    BY <1>1, <1>3 DEF GetNvmeControllerRpc, StatsNvmeControllerRpc, ReadAt, ReadKeys
  <2>2. PICK o \in Objs : o.owner = g[r].key /\ o.nqn = g[r].nqn /\ o.id = g[r].obj
    BY <2>1, AtTheCall DEF Children
  <2>3. o \in fw.ctrls
    BY <2>1, <2>2, FrontendAssumption
       DEF Objs, FrontendAssumption, RInv, MInv, IInv, TypeOK, FwStates
  <2>4. g[r].obj \in CtrlrIds(fw, g[r].nqn)
    BY <2>2, <2>3 DEF CtrlrIds
  <2> QED
    BY <1>3, <2>4, AskAnswers DEF GetNvmeControllerRpc, StatsNvmeControllerRpc
<1>4. CASE GetNvmeNamespaceRpc(r) \/ StatsNvmeNamespaceRpc(r)
  <2>1. g[r].key \in Namespaces
    BY <1>1, <1>4 DEF GetNvmeNamespaceRpc, StatsNvmeNamespaceRpc, ReadAt, ReadKeys
  <2>2. PICK o \in Objs : o.owner = g[r].key /\ o.nqn = g[r].nqn /\ o.id = g[r].obj
    BY <2>1, AtTheCall DEF Children
  <2>3. o \in fw.nss
    BY <2>1, <2>2, FrontendAssumption
       DEF Objs, FrontendAssumption, RInv, MInv, IInv, TypeOK, FwStates
  <2>4. g[r].obj \in NsIds(fw, g[r].nqn)
    BY <2>2, <2>3 DEF NsIds
  <2> QED
    BY <1>4, <2>4, AskAnswers DEF GetNvmeNamespaceRpc, StatsNvmeNamespaceRpc
<1> QED
  BY <1>2, <1>3, <1>4

\* The calls that list.
LEMMA ListingAnswersOwn ==
  ASSUME RInv, OwnNqns, cut = {}, NEW r \in Reader, g[r].pc = "rpc",
         ListNvmeSubsystemsRpc(r) \/ ListNvmeControllersRpc(r) \/ ListNvmeNamespacesRpc(r)
  PROVE  /\ ans'[r].code = "OK" \/ RpcFaults
         /\ g[r].key \in Subsystems =>
              \A i \in ans'[r].items :
                \E o \in ListedObjects(g[r]) : o.id = i /\ Parent[o.owner] = g[r].key
<1>1. g[r].key \in ReadKeys(g[r].op)
  BY ReadNames DEF RInv, Reading
<1>2. CASE ListNvmeSubsystemsRpc(r)
  <2>1. g[r].key = None /\ None \notin Subsystems
    BY <1>1, <1>2, FrontendAssumption
       DEF FrontendAssumption, Keys, ListNvmeSubsystemsRpc, ReadAt, ReadKeys
  <2> QED
    BY <1>2, <2>1, ListPageAnswers DEF ListNvmeSubsystemsRpc
<1>3. CASE ListNvmeControllersRpc(r) \/ ListNvmeNamespacesRpc(r)
  <2>1. g[r].op \in ListOps /\ g[r].key \in Subsystems
    BY <1>1, <1>3
       DEF ListNvmeControllersRpc, ListNvmeNamespacesRpc, ReadAt, ReadKeys, ListOps
  <2>2. g[r].nqn \in fw.subs \cap NqnOf[g[r].key]
    BY <2>1, AtTheCall
  <2>3. ListedObjects(g[r]) \subseteq {o \in Objs : o.nqn = g[r].nqn}
    BY DEF ListedObjects, Objs
  <2>4. \A o \in ListedObjects(g[r]) : Parent[o.owner] = g[r].key
    BY <2>1, <2>2, <2>3, ListedBelow
  <2>5. ListPage(r, {o.id : o \in ListedObjects(g[r])})
    BY <1>3, <2>2
       DEF ListNvmeControllersRpc, ListNvmeNamespacesRpc, ReadAt, ListedObjects, CtrlrIds, NsIds
  <2> QED
    BY <2>4, <2>5, ListPageAnswers
<1> QED
  BY <1>2, <1>3

\* When the answer of a reader at its call appears, it is its own step.
LEMMA OwnAnswer ==
  ASSUME RInv, NEW r \in Reader, g[r].pc = "rpc", ans'[r].code # "none",
         [ReadNext]_<<vars, reads>>
  PROVE  ReadHandle(r)
<1>1. Reading(r) /\ ans[r].code = "none"
  BY DEF Reading, RInv, ReadsOwn
<1>2. ans' # ans
  BY <1>1
<1>3. PICK p \in Reader : ReadRequest(p) \/ ReadHandle(p)
  BY <1>2 DEF ReadNext, RestartReads, reads
<1>4. p = r
  BY <1>1, <1>3, ReaderSteps DEF RInv, ReadTypeOK, Begins, Fetches, Replied, Reply
<1>5. ~ReadRequest(r)
  BY <1>1 DEF ReadRequest, ListNvmeSubsystems, ListNvmeControllers, ListNvmeNamespaces,
     GetNvmeSubsystem, StatsNvmeSubsystem, GetNvmeController, StatsNvmeController,
     GetNvmeNamespace, StatsNvmeNamespace, LookUp, ReceivesRead
<1> QED
  BY <1>3, <1>4, <1>5

\* Where clients wait for their own requests on a name, reads among them, and give
\* each subsystem NQNs of its own, the steps of a read need no lock either: as long
\* as no request was cut short, the id and the NQN that a Get or a Stats reads in
\* two steps are those of the object of its name when its call is made, and a List
\* shows objects below its subsystem only.
THEOREM ReadsAnswered ==
  ASSUME \A k \in Keys : k \in Conflicts[k], OwnNqns, IdsAgree
  PROVE  ReadSpec => ReadAnswersOwn
<1>1. RInv /\ [ReadNext]_<<vars, reads>> => RInv'
  BY ReadsMirrorStep
<1> DEFINE Own(r) ==
      /\ ans'[r].code = "OK" \/ RpcFaults
      /\ g[r].key \in Children =>
           \E o \in fw.ctrls \cup fw.nss :
             o.owner = g[r].key /\ o.nqn = g[r].nqn /\ o.id = g[r].obj
      /\ g[r].op \in ListOps /\ g[r].key \in Subsystems =>
           \A i \in ans'[r].items :
             \E o \in ListedObjects(g[r]) : o.id = i /\ Parent[o.owner] = g[r].key
<1>2. ASSUME RInv, [ReadNext]_<<vars, reads>>, NEW r \in Reader,
             g[r].pc = "rpc", ans'[r].code # "none", cut = {}
      PROVE  Own(r)
  <2>1. g[r].key \in Children =>
          \E o \in fw.ctrls \cup fw.nss :
            o.owner = g[r].key /\ o.nqn = g[r].nqn /\ o.id = g[r].obj
    BY <1>2, AtTheCall DEF Objs
  <2>2. \/ GetNvmeSubsystemRpc(r) \/ StatsNvmeSubsystemRpc(r)
        \/ GetNvmeControllerRpc(r) \/ StatsNvmeControllerRpc(r)
        \/ GetNvmeNamespaceRpc(r) \/ StatsNvmeNamespaceRpc(r)
        \/ ListNvmeSubsystemsRpc(r) \/ ListNvmeControllersRpc(r) \/ ListNvmeNamespacesRpc(r)
    <3>1. ReadHandle(r)
      BY <1>2, OwnAnswer
    <3> QED
      BY <1>2, <3>1 DEF ReadHandle, ReadAt, ListNvmeControllersParent, ListNvmeNamespacesParent,
         GetNvmeControllerParent, StatsNvmeControllerParent, GetNvmeNamespaceParent,
         StatsNvmeNamespaceParent
  <2>3. CASE \/ GetNvmeSubsystemRpc(r) \/ StatsNvmeSubsystemRpc(r)
             \/ GetNvmeControllerRpc(r) \/ StatsNvmeControllerRpc(r)
             \/ GetNvmeNamespaceRpc(r) \/ StatsNvmeNamespaceRpc(r)
    <3>1. (ans'[r].code = "OK" \/ RpcFaults) /\ ans'[r].items = {}
      BY <1>2, <2>3, AskingAnswersOwn
    <3> QED
      BY <2>1, <3>1
  <2>4. CASE \/ ListNvmeSubsystemsRpc(r) \/ ListNvmeControllersRpc(r)
             \/ ListNvmeNamespacesRpc(r)
    BY <1>2, <2>1, <2>4, ListingAnswersOwn
  <2> QED
    BY <2>2, <2>3, <2>4
<1>3. RInv /\ [ReadNext]_<<vars, reads>> =>
        [\A r \in Reader : g[r].pc = "rpc" /\ ans'[r].code # "none" /\ cut = {} =>
           Own(r)]_<<vars, reads>>
  BY <1>2
<1>4. ReadInit => RInv
  BY ReadsMirrorInit
<1> QED
  BY <1>1, <1>3, <1>4, PTL DEF ReadSpec, ReadAnswersOwn
=============================================================================
