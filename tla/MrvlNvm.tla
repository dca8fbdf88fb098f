------------------------------ MODULE MrvlNvm ------------------------------
(***************************************************************************)
(* EXTERNAL.  The Marvell SPDK application at the other end of Server.rpc, *)
(* as far as pkg/frontend can tell: the NVMe subsystems, controllers and   *)
(* namespaces of the DPU and which namespace is attached to which          *)
(* controller.  It is modelled from the calls the handlers make, the       *)
(* parameter and result types of pkg/models/spdk.go and the call           *)
(* descriptions of mrvl_nvme_json.rpc_methods.pdf.                         *)
(*                                                                         *)
(* A state f of the application is a record                                *)
(*   subs   the NQNs of the subsystems,                                    *)
(*   ctrls  the controllers [nqn, id, owner],                              *)
(*   nss    the namespaces [nqn, id, owner],                               *)
(*   att    the attachments [nqn, ctrl, ns].                               *)
(* owner identifies the hardware resource the object occupies, the PCIe    *)
(* function of a controller and the volume (bdev) of a namespace.  Each is *)
(* the property of one OPI resource, so the resource's name stands for it; *)
(* no call reads it back.                                                  *)
(*                                                                         *)
(* A call is the set of its possible answers [fw, ok, val]: the state      *)
(* after it, whether it returned status 0, and the id in the result.       *)
(***************************************************************************)
EXTENDS Integers

CONSTANTS
  CtrlrNums,      \* ids a controller can have in its subsystem
  NsNums,         \* ids a namespace can have in its subsystem
  NsidAgrees,     \* TRUE: alloc_ns picks the HostNsid of the request
  LenientDetach,  \* TRUE: detaching what is not attached returns status 0
  UpdateEchoesId  \* TRUE: update_ctrlr returns the controller id

ASSUME MrvlNvmAssumption ==
  /\ CtrlrNums \subseteq Nat
  /\ 0 \in CtrlrNums
  /\ NsNums \subseteq Nat
  /\ NsidAgrees \in BOOLEAN
  /\ LenientDetach \in BOOLEAN
  /\ UpdateEchoesId \in BOOLEAN

\* The ctrlr_id that asks the application to choose one.
autoCtrlrIDAllocation == -1

EmptyFw == [subs |-> {}, ctrls |-> {}, nss |-> {}, att |-> {}]

FwStates(Nqns, Controllers, Namespaces) ==
  [subs  : SUBSET Nqns,
   ctrls : SUBSET [nqn : Nqns, id : CtrlrNums, owner : Controllers],
   nss   : SUBSET [nqn : Nqns, id : NsNums, owner : Namespaces],
   att   : SUBSET [nqn : Nqns, ctrl : CtrlrNums, ns : NsNums]]

Done(f, val) == [fw |-> f, ok |-> TRUE, val |-> val]
Refused(f)   == [fw |-> f, ok |-> FALSE, val |-> 0]

CtrlrIds(f, q) == {c.id : c \in {d \in f.ctrls : d.nqn = q}}
NsIds(f, q)    == {n.id : n \in {m \in f.nss : m.nqn = q}}

---------------------------------------------------------------------------

\* mrvl_nvm_create_subsystem: the NQN of a subsystem is unique.
CreateSubsystem(f, q) ==
  IF q \in f.subs THEN {Refused(f)}
                  ELSE {Done([f EXCEPT !.subs = @ \cup {q}], 0)}

\* mrvl_nvm_delete_subsystem: "All controllers and namespaces in the
\* subsystem need to removed before removing a subsystem".
DeleteSubsystem(f, q) ==
  IF q \in f.subs /\ CtrlrIds(f, q) = {} /\ NsIds(f, q) = {}
  THEN {Done([f EXCEPT !.subs = @ \ {q}], 0)}
  ELSE {Refused(f)}

\* mrvl_nvm_subsys_create_ctrlr: a given id is used if it is free, -1 asks for
\* any free id.
CreateCtrlr(f, q, i, owner) ==
  LET free == CtrlrNums \ CtrlrIds(f, q)
      ids  == IF i = autoCtrlrIDAllocation THEN free ELSE free \cap {i}
  IN  IF q \in f.subs /\ ids # {}
      THEN {Done([f EXCEPT !.ctrls =
                    @ \cup {[nqn |-> q, id |-> n, owner |-> owner]}], n) : n \in ids}
      ELSE {Refused(f)}

\* mrvl_nvm_subsys_update_ctrlr changes queue limits, which are not modelled.
\* A result without ctrlr_id is decoded as 0.
UpdateCtrlr(f, q, i) ==
  IF i \in CtrlrIds(f, q)
  THEN {Done(f, IF UpdateEchoesId THEN i ELSE 0)}
  ELSE {Refused(f)}

\* mrvl_nvm_subsys_remove_ctrlr with force = 1 detaches what is attached.
RemoveCtrlr(f, q, i) ==
  IF i \in CtrlrIds(f, q)
  THEN {Done([f EXCEPT !.ctrls = {c \in @ : ~(c.nqn = q /\ c.id = i)},
                       !.att   = {a \in @ : ~(a.nqn = q /\ a.ctrl = i)}], 0)}
  ELSE {Refused(f)}

\* mrvl_nvm_subsys_alloc_ns without an instance id in the request: the result
\* carries "an integer generated by app, unique at subsystem level".  With
\* NsidAgrees only the behaviours in which that is the HostNsid are kept.
AllocNs(f, q, hostNsid, owner) ==
  LET free == NsNums \ NsIds(f, q)
      ids  == IF NsidAgrees THEN free \cap {hostNsid} ELSE free
  IN  IF q \in f.subs /\ ids # {}
      THEN {Done([f EXCEPT !.nss =
                    @ \cup {[nqn |-> q, id |-> n, owner |-> owner]}], n) : n \in ids}
      ELSE {Refused(f)}

\* mrvl_nvm_subsys_unalloc_ns: "Namespace can be unallocated only if it is not
\* attached to any controller".
UnallocNs(f, q, n) ==
  IF n \in NsIds(f, q) /\ ~\E a \in f.att : a.nqn = q /\ a.ns = n
  THEN {Done([f EXCEPT !.nss = {m \in @ : ~(m.nqn = q /\ m.id = n)}], 0)}
  ELSE {Refused(f)}

\* mrvl_nvm_ctrlr_attach_ns
AttachNs(f, q, i, n) ==
  LET a == [nqn |-> q, ctrl |-> i, ns |-> n]
  IN  IF i \in CtrlrIds(f, q) /\ n \in NsIds(f, q) /\ a \notin f.att
      THEN {Done([f EXCEPT !.att = @ \cup {a}], 0)}
      ELSE {Refused(f)}

\* mrvl_nvm_ctrlr_detach_ns
DetachNs(f, q, i, n) ==
  LET a == [nqn |-> q, ctrl |-> i, ns |-> n]
  IN  IF i \in CtrlrIds(f, q) /\ n \in NsIds(f, q) /\ (a \in f.att \/ LenientDetach)
      THEN {Done([f EXCEPT !.att = @ \ {a}], 0)}
      ELSE {Refused(f)}
=============================================================================
