-------------------------- MODULE VmManagerProofs ---------------------------
(***************************************************************************)
(* The theorems about the network allocations and about the VMM manager,   *)
(* for any number of subnets, context ids, callers, VM ids, instances and  *)
(* faults.  The first part is about the steps of the manager: the types    *)
(* they keep, the kinds there are, and the state of an instance as its     *)
(* lock.  The invariant adds to these who owns what, and admission; the    *)
(* invariant of the network allocations is kept because the manager uses   *)
(* them only through their operations.                                     *)
(***************************************************************************)
EXTENDS VmManager, SequenceTheorems, FiniteSetTheorems, TLAPS

-----------------------------------------------------------------------------
(***************************************************************************)
(* Every step of the VMM manager keeps the types of its variables, for any *)
(* number of callers, VM ids, instances, addresses and faults, and touches *)
(* the network allocations only through their operations.                  *)
(***************************************************************************)

(* Types.  A caller past CreateVM's Acquire has an instance in hand, and a *)
(* caller in CreateVM has the id it was called with.                       *)
NoInstance == {"idle", "check", "acquire", "scan", "next"}

InHand ==
  \A t \in Callers :
    /\ pc[t] \notin NoInstance => cur[t] \in Objs
    /\ pc[t] \in {"check", "acquire", "insert"} => arg[t] \in VmIds

(* The manager's own part of the type invariant.                           *)
LocalTypeOK ==
  /\ instances \in [VmIds -> Objs \cup {NoObj}]
  /\ provision \subseteq Callers
  /\ state \in [Objs -> States \cup {"none"}]
  /\ machine \in [Objs -> BOOLEAN]
  /\ signalled \subseteq procs /\ procs \subseteq Objs
  /\ sockets \in [VmIds -> Objs \cup {NoObj}]
  /\ pc \in [Callers -> PCs]
  /\ op \in [Callers -> Ops]
  /\ arg \in [Callers -> VmIds \cup {NoVm}]
  /\ cur \in [Callers -> Objs \cup {NoObj}]
  /\ err \in [Callers -> BOOLEAN]
  /\ stopped \in [Callers -> BOOLEAN]
  /\ unread \in [Callers -> SUBSET Objs]
  /\ todo \in [Callers -> SUBSET Objs]

ManagerInv == LocalTypeOK /\ InHand

(* The types of the network and of the manager together are all of them.   *)
LEMMA TypeSplit == TypeOK <=> NetTypeOK /\ LocalTypeOK
  BY DEF TypeOK, LocalTypeOK

(* How a call ends.                                                        *)
LEMMA ReturnType ==
  ASSUME ManagerInv, NEW t \in Callers, Return(t)
  PROVE  /\ provision' \subseteq Callers
         /\ pc' \in [Callers -> PCs] /\ op' \in [Callers -> Ops]
         /\ arg' \in [Callers -> VmIds \cup {NoVm}]
         /\ cur' \in [Callers -> Objs \cup {NoObj}]
         /\ err' \in [Callers -> BOOLEAN] /\ stopped' \in [Callers -> BOOLEAN]
         /\ unread' \in [Callers -> SUBSET Objs] /\ todo' \in [Callers -> SUBSET Objs]
         /\ InHand'
<1> USE DEF ManagerInv
<1>1. /\ provision' \subseteq Callers
      /\ pc' \in [Callers -> PCs] /\ op' \in [Callers -> Ops]
      /\ arg' \in [Callers -> VmIds \cup {NoVm}]
      /\ cur' \in [Callers -> Objs \cup {NoObj}]
      /\ err' \in [Callers -> BOOLEAN] /\ stopped' \in [Callers -> BOOLEAN]
      /\ unread' \in [Callers -> SUBSET Objs] /\ todo' \in [Callers -> SUBSET Objs]
  BY DEF Return, Goto, LocalTypeOK, PCs, Ops
<1>2. InHand'
  BY DEF Return, Goto, InHand, NoInstance, LocalTypeOK
<1> QED
  BY <1>1, <1>2

(* ProvisionVM keeps the manager's types.                                  *)
LEMMA ProvisionVMType ==
  ASSUME ManagerInv, NEW t \in Callers, NEW v \in VmIds, ProvisionVM(t, v)
  PROVE  ManagerInv'
<1>1. LocalTypeOK'
  BY DEF ManagerInv, ProvisionVM, Goto, LocalTypeOK, PCs, Ops, instVars, hostVars
<1>2. InHand'
  BY DEF ManagerInv, ProvisionVM, Goto, InHand, NoInstance, LocalTypeOK
<1> QED
  BY <1>1, <1>2 DEF ManagerInv

(* CreateCheck keeps the manager's types.                                  *)
LEMMA CreateCheckType ==
  ASSUME ManagerInv, NEW t \in Callers, CreateCheck(t)
  PROVE  ManagerInv'
<1>1. CASE Return(t)
  BY <1>1, ReturnType DEF ManagerInv, CreateCheck, LocalTypeOK, instVars, hostVars
<1>2. CASE Goto(t, "acquire") /\ UNCHANGED <<provision, localVars>>
  <2>1. LocalTypeOK'
    BY <1>2 DEF ManagerInv, CreateCheck, Goto, LocalTypeOK, PCs, instVars, hostVars, localVars
  <2>2. InHand'
    BY <1>2 DEF ManagerInv, CreateCheck, Goto, InHand, NoInstance, LocalTypeOK, localVars
  <2> QED
    BY <2>1, <2>2 DEF ManagerInv
<1> QED
  BY <1>1, <1>2 DEF CreateCheck

(* CreateInsert keeps the manager's types.                                 *)
LEMMA CreateInsertType ==
  ASSUME ManagerInv, NEW t \in Callers, CreateInsert(t)
  PROVE  ManagerInv'
<1>1. LocalTypeOK'
  BY DEF ManagerInv, InHand, NoInstance, CreateInsert, Goto, SetState, LocalTypeOK,
         PCs, States, instVars, hostVars, localVars
<1>2. InHand'
  BY DEF ManagerInv, InHand, NoInstance, CreateInsert, Goto, LocalTypeOK, localVars
<1> QED
  BY <1>1, <1>2 DEF ManagerInv

(* ConfigureInvalid keeps the manager's types.                             *)
LEMMA ConfigureInvalidType ==
  ASSUME ManagerInv, NEW t \in Callers, ConfigureInvalid(t)
  PROVE  ManagerInv'
<1>1. LocalTypeOK'
  BY DEF ManagerInv, InHand, NoInstance, ConfigureInvalid, Goto, SetState, LocalTypeOK,
         PCs, States, instVars, hostVars, localVars
<1>2. InHand'
  BY DEF ManagerInv, InHand, NoInstance, ConfigureInvalid, Goto, LocalTypeOK, localVars
<1> QED
  BY <1>1, <1>2 DEF ManagerInv

(* ConfigureBegin keeps the manager's types.                               *)
LEMMA ConfigureBeginType ==
  ASSUME ManagerInv, NEW t \in Callers, ConfigureBegin(t)
  PROVE  ManagerInv'
<1>1. LocalTypeOK'
  BY DEF ManagerInv, InHand, NoInstance, ConfigureBegin, Goto, SetState, LocalTypeOK,
         PCs, States, instVars, hostVars, localVars
<1>2. InHand'
  BY DEF ManagerInv, InHand, NoInstance, ConfigureBegin, Goto, LocalTypeOK, localVars
<1> QED
  BY <1>1, <1>2 DEF ManagerInv

(* ConfigureTAP keeps the manager's types.                                 *)
LEMMA ConfigureTAPType ==
  ASSUME ManagerInv, NEW t \in Callers, ConfigureTAP(t)
  PROVE  ManagerInv'
<1>1. LocalTypeOK'
  BY DEF ManagerInv, InHand, NoInstance, ConfigureTAP, Goto, SetState, LocalTypeOK,
         PCs, States, instVars, hostVars, localVars
<1>2. InHand'
  BY DEF ManagerInv, InHand, NoInstance, ConfigureTAP, Goto, LocalTypeOK, localVars
<1> QED
  BY <1>1, <1>2 DEF ManagerInv

(* ConfigureFirewall keeps the manager's types.                            *)
LEMMA ConfigureFirewallType ==
  ASSUME ManagerInv, NEW t \in Callers, ConfigureFirewall(t)
  PROVE  ManagerInv'
<1>1. LocalTypeOK'
  BY DEF ManagerInv, InHand, NoInstance, ConfigureFirewall, Goto, SetState, LocalTypeOK,
         PCs, States, instVars, hostVars, localVars
<1>2. InHand'
  BY DEF ManagerInv, InHand, NoInstance, ConfigureFirewall, Goto, LocalTypeOK, localVars
<1> QED
  BY <1>1, <1>2 DEF ManagerInv

(* ConfigureMachine keeps the manager's types.                             *)
LEMMA ConfigureMachineType ==
  ASSUME ManagerInv, NEW t \in Callers, ConfigureMachine(t)
  PROVE  ManagerInv'
<1>1. LocalTypeOK'
  <2>1. /\ state' \in [Objs -> States \cup {"none"}] /\ machine' \in [Objs -> BOOLEAN]
        /\ pc' \in [Callers -> PCs]
    <3>1. \/ /\ machine' = [machine EXCEPT ![cur[t]] = TRUE]
             /\ SetState(cur[t], "configured") /\ Goto(t, "start")
          \/ Goto(t, "unwind") /\ UNCHANGED instVars
      BY DEF ConfigureMachine
    <3>2. CASE UNCHANGED instVars /\ Goto(t, "unwind")
      BY <3>2 DEF ManagerInv, Goto, LocalTypeOK, PCs, instVars
    <3>3. CASE /\ machine' = [machine EXCEPT ![cur[t]] = TRUE]
               /\ SetState(cur[t], "configured") /\ Goto(t, "start")
      BY <3>3, Zenon DEF ManagerInv, Goto, SetState, LocalTypeOK, PCs, States
    <3> QED
      BY <3>1, <3>2, <3>3
  <2> QED
    BY <2>1 DEF ManagerInv, ConfigureMachine, LocalTypeOK, hostVars, localVars
<1>2. InHand'
  BY DEF ManagerInv, InHand, NoInstance, ConfigureMachine, Goto, LocalTypeOK, localVars
<1> QED
  BY <1>1, <1>2 DEF ManagerInv

(* ConfigureUnwound keeps the manager's types.                             *)
LEMMA ConfigureUnwoundType ==
  ASSUME ManagerInv, NEW t \in Callers, ConfigureUnwound(t)
  PROVE  ManagerInv'
<1>1. LocalTypeOK'
  BY DEF ManagerInv, InHand, NoInstance, ConfigureUnwound, Goto, SetState, LocalTypeOK,
         PCs, States, instVars, hostVars, localVars
<1>2. InHand'
  BY DEF ManagerInv, InHand, NoInstance, ConfigureUnwound, Goto, LocalTypeOK, localVars
<1> QED
  BY <1>1, <1>2 DEF ManagerInv

(* Start keeps the manager's types.                                        *)
LEMMA StartType ==
  ASSUME ManagerInv, NEW t \in Callers, Start(t)
  PROVE  ManagerInv'
<1>1. LocalTypeOK'
  BY DEF ManagerInv, InHand, NoInstance, Start, Goto, SetState, LocalTypeOK,
         PCs, States, instVars, hostVars, localVars
<1>2. InHand'
  BY DEF ManagerInv, InHand, NoInstance, Start, Goto, LocalTypeOK, localVars
<1> QED
  BY <1>1, <1>2 DEF ManagerInv

(* StartFailed keeps the manager's types.                                  *)
LEMMA StartFailedType ==
  ASSUME ManagerInv, NEW t \in Callers, StartFailed(t)
  PROVE  ManagerInv'
<1>1. LocalTypeOK'
  BY DEF ManagerInv, InHand, NoInstance, StartFailed, Goto, SetState, LocalTypeOK,
         PCs, States, instVars, hostVars, localVars
<1>2. InHand'
  BY DEF ManagerInv, InHand, NoInstance, StartFailed, Goto, LocalTypeOK, localVars
<1> QED
  BY <1>1, <1>2 DEF ManagerInv

(* Stop keeps the manager's types.                                         *)
LEMMA StopType ==
  ASSUME ManagerInv, NEW t \in Callers, Stop(t)
  PROVE  ManagerInv'
<1>1. LocalTypeOK'
  BY Zenon DEF ManagerInv, InHand, NoInstance, Stop, Goto, SetState, LocalTypeOK,
         PCs, States, instVars, hostVars, localVars
<1>2. InHand'
  BY DEF ManagerInv, InHand, NoInstance, Stop, Goto, LocalTypeOK, localVars
<1> QED
  BY <1>1, <1>2 DEF ManagerInv

(* StopVMM keeps the manager's types.                                      *)
LEMMA StopVMMType ==
  ASSUME ManagerInv, NEW t \in Callers, StopVMM(t)
  PROVE  ManagerInv'
<1>1. LocalTypeOK'
  BY Zenon DEF ManagerInv, InHand, NoInstance, StopVMM, Goto, SetState, LocalTypeOK,
         PCs, States, instVars, hostVars, localVars
<1>2. InHand'
  BY DEF ManagerInv, InHand, NoInstance, StopVMM, Goto, LocalTypeOK, localVars
<1> QED
  BY <1>1, <1>2 DEF ManagerInv

(* StopSocket keeps the manager's types.                                   *)
LEMMA StopSocketType ==
  ASSUME ManagerInv, NEW t \in Callers, StopSocket(t)
  PROVE  ManagerInv'
<1>1. LocalTypeOK'
  BY Zenon DEF ManagerInv, InHand, NoInstance, StopSocket, Goto, SetState, LocalTypeOK,
         PCs, States, instVars, hostVars, localVars
<1>2. InHand'
  BY DEF ManagerInv, InHand, NoInstance, StopSocket, Goto, LocalTypeOK, localVars
<1> QED
  BY <1>1, <1>2 DEF ManagerInv

(* StartMachine keeps the manager's types.                                 *)
LEMMA StartMachineType ==
  ASSUME ManagerInv, NEW t \in Callers, StartMachine(t)
  PROVE  ManagerInv'
<1>1. LocalTypeOK'
  BY DEF ManagerInv, InHand, NoInstance, StartMachine, Goto, SetState, LocalTypeOK,
         PCs, States, instVars, hostVars, localVars, ProcessUp
<1>2. InHand'
  BY Zenon DEF ManagerInv, InHand, NoInstance, StartMachine, Goto, LocalTypeOK, localVars
<1> QED
  BY <1>1, <1>2 DEF ManagerInv

(* CreateAcquire takes an allocation that was not made yet, or returns.    *)
LEMMA AcquireStep ==
  ASSUME NEW t \in Callers, CreateAcquire(t)
  PROVE  \/ Return(t) /\ UNCHANGED netVars
         \/ \E o \in Objs : /\ Acquire(o, arg[t]) /\ Goto(t, "insert")
                           /\ cur' = [cur EXCEPT ![t] = o]
                           /\ UNCHANGED <<provision, op, arg, err, stopped, unread, todo>>
<1>1. FreshObjs # {} => NewObj \in Objs
  BY Zenon DEF NewObj, FreshObjs
<1> QED
  BY <1>1, Zenon DEF CreateAcquire

(* CreateAcquire keeps the manager's types.                                *)
LEMMA CreateAcquireType ==
  ASSUME ManagerInv, NEW t \in Callers, CreateAcquire(t)
  PROVE  ManagerInv'
<1>1. CASE Return(t)
  BY <1>1, ReturnType DEF ManagerInv, CreateAcquire, LocalTypeOK, instVars, hostVars
<1>2. CASE \E o \in Objs : /\ Goto(t, "insert") /\ cur' = [cur EXCEPT ![t] = o]
                          /\ UNCHANGED <<provision, op, arg, err, stopped, unread, todo>>
  <2>1. PICK o \in Objs : /\ Goto(t, "insert") /\ cur' = [cur EXCEPT ![t] = o]
                          /\ UNCHANGED <<provision, op, arg, err, stopped, unread, todo>>
    BY <1>2, Zenon
  <2>2. LocalTypeOK'
    BY <2>1 DEF ManagerInv, CreateAcquire, Goto, LocalTypeOK, PCs, instVars, hostVars
  <2>3. InHand'
    BY <2>1, Zenon DEF ManagerInv, CreateAcquire, Goto, InHand, NoInstance, LocalTypeOK
  <2> QED
    BY <2>2, <2>3 DEF ManagerInv
<1> QED
  BY <1>1, <1>2, AcquireStep, Zenon

(* StartDone keeps the manager's types.                                    *)
LEMMA StartDoneType ==
  ASSUME ManagerInv, NEW t \in Callers, StartDone(t)
  PROVE  ManagerInv'
<1>1. state' \in [Objs -> States \cup {"none"}]
  BY DEF ManagerInv, LocalTypeOK, StartDone, SetState, States
<1>2. CASE Return(t)
  BY <1>1, <1>2, ReturnType DEF ManagerInv, StartDone, LocalTypeOK, hostVars
<1>3. CASE Goto(t, "stop") /\ UNCHANGED <<provision, localVars>>
  <2>1. LocalTypeOK'
    BY <1>1, <1>3 DEF ManagerInv, StartDone, Goto, LocalTypeOK, PCs, hostVars, localVars
  <2>2. InHand'
    BY <1>3 DEF ManagerInv, StartDone, Goto, InHand, NoInstance, LocalTypeOK, localVars
  <2> QED
    BY <2>1, <2>2 DEF ManagerInv
<1> QED
  BY <1>2, <1>3 DEF StartDone

(* DestroyVM keeps the manager's types.                                    *)
LEMMA DestroyVMType ==
  ASSUME ManagerInv, NEW t \in Callers, NEW v \in VmIds, DestroyVM(t, v)
  PROVE  ManagerInv'
<1>1. LocalTypeOK'
  BY DEF ManagerInv, DestroyVM, Goto, LocalTypeOK, PCs, Ops, instVars, hostVars
<1>2. InHand'
  BY DEF ManagerInv, DestroyVM, Goto, InHand, NoInstance, LocalTypeOK
<1> QED
  BY <1>1, <1>2 DEF ManagerInv

(* Reconcile keeps the manager's types.                                    *)
LEMMA ReconcileType ==
  ASSUME ManagerInv, NEW t \in Callers, Reconcile(t)
  PROVE  ManagerInv'
<1>1. Range(instances) \ {NoObj} \subseteq Objs
  BY DEF ManagerInv, LocalTypeOK, Range
<1>2. unread' \in [Callers -> SUBSET Objs]
  BY <1>1, Zenon DEF ManagerInv, LocalTypeOK, Reconcile
<1>3. PICK l \in {"scan", "next"} : Goto(t, l)
  BY Zenon DEF Reconcile
<1>4. LocalTypeOK'
  BY <1>2, <1>3 DEF ManagerInv, Reconcile, Goto, LocalTypeOK, PCs, Ops, instVars, hostVars
<1>5. InHand'
  BY <1>3 DEF ManagerInv, Reconcile, Goto, InHand, NoInstance, LocalTypeOK
<1> QED
  BY <1>4, <1>5 DEF ManagerInv

(* ReconcileScan keeps the manager's types.                                *)
LEMMA ReconcileScanType ==
  ASSUME ManagerInv, NEW t \in Callers, ReconcileScan(t)
  PROVE  ManagerInv'
<1>1. PICK o \in unread[t], l \in {"scan", "next"} :
        /\ unread' = [unread EXCEPT ![t] = @ \ {o}]
        /\ todo' = [todo EXCEPT ![t] = @ \cup ({o} \cap CleanupFailed)]
        /\ Goto(t, l)
  BY Zenon DEF ReconcileScan
<1>2. unread' \in [Callers -> SUBSET Objs] /\ todo' \in [Callers -> SUBSET Objs]
  BY <1>1 DEF ManagerInv, LocalTypeOK
<1>3. LocalTypeOK'
  BY <1>1, <1>2 DEF ManagerInv, ReconcileScan, Goto, LocalTypeOK, PCs, instVars, hostVars
<1>4. InHand'
  BY <1>1 DEF ManagerInv, ReconcileScan, Goto, InHand, NoInstance, LocalTypeOK
<1> QED
  BY <1>3, <1>4 DEF ManagerInv

(* ReconcileNext keeps the manager's types.                                *)
LEMMA ReconcileNextType ==
  ASSUME ManagerInv, NEW t \in Callers, ReconcileNext(t)
  PROVE  ManagerInv'
<1>1. CASE Return(t)
  BY <1>1, ReturnType DEF ManagerInv, ReconcileNext, LocalTypeOK, instVars, hostVars
<1>2. CASE \E o \in todo[t] :
             /\ cur' = [cur EXCEPT ![t] = o] /\ todo' = [todo EXCEPT ![t] = @ \ {o}]
             /\ Goto(t, "stop") /\ UNCHANGED <<provision, op, arg, err, stopped, unread>>
  <2>1. PICK o \in todo[t] :
          /\ cur' = [cur EXCEPT ![t] = o] /\ todo' = [todo EXCEPT ![t] = @ \ {o}]
          /\ Goto(t, "stop") /\ UNCHANGED <<provision, op, arg, err, stopped, unread>>
    BY <1>2, Zenon
  <2>2. o \in Objs
    BY DEF ManagerInv, LocalTypeOK
  <2>3. LocalTypeOK'
    BY <2>1, <2>2 DEF ManagerInv, ReconcileNext, Goto, LocalTypeOK, PCs, instVars, hostVars
  <2>4. InHand'
    BY <2>1, <2>2 DEF ManagerInv, ReconcileNext, Goto, InHand, NoInstance, LocalTypeOK
  <2> QED
    BY <2>3, <2>4 DEF ManagerInv
<1> QED
  BY <1>1, <1>2 DEF ReconcileNext

(* After a Stop: the next item of a Reconcile, or the return.              *)
LEMMA LeaveType ==
  ASSUME ManagerInv, NEW t \in Callers, Leave(t)
  PROVE  /\ provision' \subseteq Callers
         /\ pc' \in [Callers -> PCs] /\ op' \in [Callers -> Ops]
         /\ arg' \in [Callers -> VmIds \cup {NoVm}]
         /\ cur' \in [Callers -> Objs \cup {NoObj}]
         /\ err' \in [Callers -> BOOLEAN] /\ stopped' \in [Callers -> BOOLEAN]
         /\ unread' \in [Callers -> SUBSET Objs] /\ todo' \in [Callers -> SUBSET Objs]
         /\ InHand'
<1>1. CASE Return(t)
  BY <1>1, ReturnType
<1>2. CASE /\ Goto(t, "next")
           /\ err' = [err EXCEPT ![t] = FALSE] /\ stopped' = [stopped EXCEPT ![t] = FALSE]
           /\ UNCHANGED <<provision, op, arg, cur, unread, todo>>
  <2>1. /\ pc' \in [Callers -> PCs]
        /\ err' \in [Callers -> BOOLEAN] /\ stopped' \in [Callers -> BOOLEAN]
    BY <1>2 DEF ManagerInv, LocalTypeOK, Goto, PCs
  <2>2. InHand'
    BY <1>2, Zenon DEF ManagerInv, LocalTypeOK, InHand, NoInstance, Goto
  <2> QED
    BY <1>2, <2>1, <2>2 DEF ManagerInv, LocalTypeOK
<1> QED
  BY <1>1, <1>2 DEF Leave

(* StopEnd keeps the manager's types.                                      *)
LEMMA StopEndType ==
  ASSUME ManagerInv, NEW t \in Callers, StopEnd(t)
  PROVE  ManagerInv'
<1>1. state' \in [Objs -> States \cup {"none"}] /\ machine' \in [Objs -> BOOLEAN]
  <2>1. state' \in [Objs -> States \cup {"none"}]
    BY DEF ManagerInv, LocalTypeOK, StopEnd, SetState, States
  <2>2. machine' \in [Objs -> BOOLEAN]
    BY Zenon DEF ManagerInv, LocalTypeOK, StopEnd
  <2> QED
    BY <2>1, <2>2
<1>2. CASE Leave(t)
  BY <1>1, <1>2, LeaveType DEF ManagerInv, StopEnd, LocalTypeOK, hostVars
<1>3. CASE Goto(t, "delete") /\ UNCHANGED <<provision, localVars>>
  <2>1. LocalTypeOK'
    BY <1>1, <1>3 DEF ManagerInv, StopEnd, Goto, LocalTypeOK, PCs, hostVars, localVars
  <2>2. InHand'
    BY <1>3, Zenon DEF ManagerInv, StopEnd, Goto, InHand, NoInstance, LocalTypeOK, localVars
  <2> QED
    BY <2>1, <2>2 DEF ManagerInv
<1> QED
  BY <1>2, <1>3 DEF StopEnd

(* Delete keeps the manager's types.                                       *)
LEMMA DeleteType ==
  ASSUME ManagerInv, NEW t \in Callers, Delete(t)
  PROVE  ManagerInv'
<1>1. instances' \in [VmIds -> Objs \cup {NoObj}]
  BY Zenon DEF ManagerInv, LocalTypeOK, Delete
<1> QED
  BY <1>1, LeaveType DEF ManagerInv, Delete, LocalTypeOK, instVars, hostVars

(* ReleaseStep keeps the manager's types.                                  *)
LEMMA ReleaseStepType ==
  ASSUME ManagerInv, NEW t \in Callers, ReleaseStep(t)
  PROVE  ManagerInv'
<1>1. UNCHANGED <<instances, instVars, hostVars>>
  BY DEF ReleaseStep
<1>2. CASE UNCHANGED <<pc, provision, localVars>>
  BY <1>1, <1>2 DEF ManagerInv, LocalTypeOK, InHand, instVars, hostVars, localVars
<1>3. CASE Return(t)
  BY <1>1, <1>3, ReturnType DEF ManagerInv, LocalTypeOK, instVars, hostVars
<1>4. CASE /\ pc[t] \in {"unwind", "release"} /\ Goto(t, AfterRelease(t))
           /\ err' = [err EXCEPT ![t] = TRUE] \/ UNCHANGED err
           /\ UNCHANGED <<provision, op, arg, cur, stopped, unread, todo>>
  <2>1. AfterRelease(t) \in {"unwound", "socket", "stopEnd"}
    BY <1>4 DEF AfterRelease, ManagerInv, LocalTypeOK
  <2>2. pc' \in [Callers -> PCs] /\ err' \in [Callers -> BOOLEAN]
    BY <1>4, <2>1, Zenon DEF Goto, ManagerInv, LocalTypeOK, PCs
  <2>3. LocalTypeOK'
    BY <1>1, <1>4, <2>2 DEF ManagerInv, LocalTypeOK, instVars, hostVars
  <2>4. InHand'
    BY <1>4, <2>1 DEF Goto, ManagerInv, LocalTypeOK, InHand, NoInstance
  <2> QED
    BY <2>3, <2>4 DEF ManagerInv
<1> QED
  BY <1>2, <1>3, <1>4, Zenon DEF ReleaseStep, localVars

(* The manager's types hold at the start.                                  *)
LEMMA ManagerInit == Init => ManagerInv
<1> SUFFICES ASSUME Init PROVE ManagerInv
  OBVIOUS
<1>1. LocalTypeOK
  BY DEF Init, LocalTypeOK, PCs, Ops
<1>2. InHand
  BY DEF Init, InHand, NoInstance
<1> QED
  BY <1>1, <1>2 DEF ManagerInv

(* The processes that nobody has told to end.                              *)
Live == procs \ signalled

(* A step of no caller: nothing happens, or a process that was told to end *)
(* does so, and its socket file may go with it.                            *)
Still ==
  /\ UNCHANGED <<netVars, instances, provision, instVars, pc, localVars>>
  /\ UNCHANGED Live /\ \A v \in VmIds : sockets'[v] \in {sockets[v], NoObj}

(* Every step is one of a caller, or of nobody.                            *)
LEMMA NextSplit ==
  ASSUME ManagerInv, [Next]_vars
  PROVE  Still \/ \E t \in Callers : Call(t) \/ Step(t)
<1>1. CASE UNCHANGED vars
  BY <1>1, Zenon DEF vars, hostVars, Still, Live
<1>2. ASSUME NEW o \in Objs, ProcessExit(o) PROVE Still
  <2>1. Live' = Live
    BY <1>2 DEF ProcessExit, Live
  <2>2. \A v \in VmIds : sockets'[v] \in {sockets[v], NoObj}
    BY <1>2 DEF ProcessExit, ManagerInv, LocalTypeOK
  <2> QED
    BY <1>2, <2>1, <2>2, Zenon DEF ProcessExit, Still
<1> QED
  BY <1>1, <1>2, Zenon DEF Next

(* The end of a process keeps the manager's types.                         *)
LEMMA ProcessExitType ==
  ASSUME ManagerInv, NEW o \in Objs, ProcessExit(o)
  PROVE  ManagerInv'
<1>1. /\ signalled' \subseteq procs' /\ procs' \subseteq Objs
      /\ sockets' \in [VmIds -> Objs \cup {NoObj}]
  BY DEF ProcessExit, ManagerInv, LocalTypeOK
<1> QED
  BY <1>1, Zenon DEF ProcessExit, ManagerInv, LocalTypeOK, InHand, instVars, localVars

(* Every step keeps the manager's types.                                   *)
LEMMA ManagerNext ==
  ASSUME ManagerInv, [Next]_vars
  PROVE  ManagerInv'
<1>1. CASE UNCHANGED vars
  BY <1>1 DEF vars, instVars, hostVars, localVars, ManagerInv, LocalTypeOK, InHand
<1>2. ASSUME NEW t \in Callers, Call(t)
      PROVE  ManagerInv'
  BY <1>2, ProvisionVMType, DestroyVMType, ReconcileType DEF Call
<1>3. ASSUME NEW t \in Callers, Step(t)
      PROVE  ManagerInv'
  BY <1>3, CreateCheckType, CreateAcquireType, CreateInsertType, ConfigureInvalidType,
     ConfigureBeginType, ConfigureTAPType, ConfigureFirewallType, ConfigureMachineType,
     ConfigureUnwoundType, StartType, StartMachineType, StartDoneType, StartFailedType,
     StopType, StopVMMType, ReleaseStepType, StopSocketType, StopEndType, DeleteType,
     ReconcileScanType, ReconcileNextType, Zenon DEF Step
<1> QED
  BY <1>1, <1>2, <1>3, ProcessExitType, Zenon DEF Next

-----------------------------------------------------------------------------
(* The manager uses the allocations as module Network says: a step of a    *)
(* caller is a step of the allocation in its hand, or leaves the pool, the *)
(* leases and the links alone.                                             *)
LEMMA ManagerUsesNetwork ==
  ASSUME ManagerInv, NetTypeOK, [Next]_vars
  PROVE  \/ \E o \in Objs : NetStep(o)
         \/ UNCHANGED <<ipamVars, leaseVars, linkVars>> /\ faults' \in Nat
<1> DEFINE Quiet == UNCHANGED <<ipamVars, leaseVars, linkVars>> /\ faults' \in Nat
<1>1. faults \in Nat
  BY DEF NetTypeOK
<1>2. UNCHANGED netVars => Quiet
  BY <1>1 DEF netVars
<1>3. Fail(1) => faults' \in Nat
  BY <1>1 DEF Fail
<1>4. CASE Still
  BY <1>2, <1>4, Zenon DEF Still
<1>5. ASSUME NEW t \in Callers, Call(t)
      PROVE  Quiet
  BY <1>2, <1>5 DEF Call, ProvisionVM, DestroyVM, Reconcile
<1>6. ASSUME NEW t \in Callers, Step(t)
      PROVE  Quiet \/ \E o \in Objs : NetStep(o)
  <2>1. CASE CreateAcquire(t)
    <3>1. arg[t] \in VmIds
      BY <2>1, Zenon DEF CreateAcquire, ManagerInv, InHand
    <3> QED
      BY <1>2, <2>1, <3>1, AcquireStep, Zenon DEF NetStep
  <2>2. CASE ConfigureTAP(t)
    <3>1. cur[t] \in Objs
      BY <2>2, Zenon DEF ConfigureTAP, ManagerInv, InHand, NoInstance
    <3> QED
      BY <2>2, <3>1, Zenon DEF ConfigureTAP, NetStep
  <2>3. CASE ConfigureFirewall(t)
    <3>1. cur[t] \in Objs
      BY <2>3, Zenon DEF ConfigureFirewall, ManagerInv, InHand, NoInstance
    <3> QED
      BY <2>3, <3>1, Zenon DEF ConfigureFirewall, NetStep
  <2>4. CASE ReleaseStep(t)
    <3>1. cur[t] \in Objs
      BY <2>4, Zenon DEF ReleaseStep, ManagerInv, InHand, NoInstance
    <3> QED
      BY <2>4, <3>1, Zenon DEF ReleaseStep, NetStep
  <2>5. CASE \/ CreateCheck(t) \/ CreateInsert(t) \/ ConfigureBegin(t)
             \/ ConfigureUnwound(t) \/ Start(t) \/ StartDone(t) \/ StartFailed(t)
             \/ Stop(t) \/ StopEnd(t) \/ Delete(t) \/ ReconcileScan(t) \/ ReconcileNext(t)
    BY <1>2, <2>5, Zenon DEF CreateCheck, CreateInsert, ConfigureBegin, ConfigureUnwound, Start,
       StartDone, StartFailed, Stop, StopEnd, Delete, ReconcileScan, ReconcileNext
  <2>6. CASE ConfigureInvalid(t) \/ ConfigureMachine(t) \/ StartMachine(t)
    BY <1>1, <1>3, <2>6, Zenon DEF ConfigureInvalid, ConfigureMachine, StartMachine
  <2>7. CASE StopVMM(t) \/ StopSocket(t)
    BY <1>1, <1>3, <2>7 DEF StopVMM, StopSocket
  <2> QED
    BY <1>6, <2>1, <2>2, <2>3, <2>4, <2>5, <2>6, <2>7, Zenon DEF Step
<1> QED
  BY <1>4, <1>5, <1>6, NextSplit, Zenon

-----------------------------------------------------------------------------
(***************************************************************************)
(* The kinds of step a caller of the VMM manager takes: what it may change *)
(* of the instance in its hand, and what it leaves alone.                  *)
(***************************************************************************)

(* The state of an instance is its lock.  A caller inside Configure, Start *)
(* or Stop has put the instance in the matching state.                     *)
Locked ==
  \A t \in Callers :
    /\ pc[t] \in Configuring => state[cur[t]] = "configuring"
    /\ pc[t] \in Starting => state[cur[t]] = "starting"
    /\ pc[t] \in Stopping => state[cur[t]] = "stopping"

(* A step of caller t leaves the other callers and the instances that t    *)
(* does not work on alone.                                                 *)
Frame(t) ==
  /\ \A u \in Callers : u # t =>
       /\ pc'[u] = pc[u] /\ cur'[u] = cur[u]
       /\ unread'[u] = unread[u] /\ todo'[u] = todo[u]
       /\ err'[u] = err[u] /\ stopped'[u] = stopped[u]
  /\ \A o \in Objs : o # cur[t] =>
       /\ state'[o] = state[o] /\ machine'[o] = machine[o]
       /\ o \in Live' <=> o \in Live

(* The kinds of step: outside of Configure, Start and Stop; inside one of  *)
(* them; into one of them; out of one of them; and CreateVM's insertion.   *)
Outside(t) ==
  /\ pc[t] \notin AtWork /\ pc'[t] \notin AtWork
  /\ UNCHANGED <<state, machine, Live, sockets>>

Inside(t) ==
  /\ \/ pc[t] \in Configuring /\ pc'[t] \in Configuring /\ UNCHANGED <<Live, sockets>>
     \/ /\ pc[t] = "boot" /\ pc'[t] \in {"booted", "bootFailed"}
        /\ \A v \in VmIds : \/ sockets'[v] = sockets[v]
                            \/ v = vm[cur[t]] /\ sockets'[v] = cur[t]
     \/ /\ pc[t] \in Stopping \ {"stopEnd"} /\ pc'[t] \in Stopping \ {"stopVMM"}
        /\ stopped'[t] = stopped[t] \/ (stopped'[t] /\ cur[t] \notin Live')
        /\ Live' \subseteq Live /\ \A v \in VmIds : sockets'[v] \in {sockets[v], NoObj}
  /\ cur'[t] = cur[t] /\ UNCHANGED <<state, machine>>

Enter(t) ==
  /\ pc[t] \notin AtWork
  /\ \/ state[cur[t]] = "created" /\ state'[cur[t]] = "configuring" /\ pc'[t] = "setup"
     \/ /\ state[cur[t]] = "configured" /\ state'[cur[t]] = "starting"
        /\ pc'[t] = "boot" /\ machine[cur[t]]
     \/ /\ state[cur[t]] \in Stoppable /\ state'[cur[t]] = "stopping"
        /\ \/ machine[cur[t]] /\ pc'[t] = "stopVMM" /\ ~stopped'[t]
           \/ ~machine[cur[t]] /\ pc'[t] = "release" /\ stopped'[t]
  /\ cur'[t] = cur[t] /\ UNCHANGED <<machine, Live, sockets>>

Exit(t) ==
  /\ pc'[t] \notin AtWork /\ cur'[t] \in {cur[t], NoObj}
  /\ \/ pc[t] = "newMachine" /\ state'[cur[t]] = "configured" /\ machine'[cur[t]]
     \/ /\ pc[t] = "unwound" /\ state'[cur[t]] \in {"created", "cleanup-failed"}
        /\ machine' = machine
     \/ pc[t] = "booted" /\ state'[cur[t]] = "running" /\ machine' = machine
     \/ pc[t] = "bootFailed" /\ state'[cur[t]] = "configured" /\ machine' = machine
     \/ /\ pc[t] = "stopEnd" /\ (machine'[cur[t]] <=> machine[cur[t]] /\ ~stopped[t])
        /\ \/ state'[cur[t]] = "cleanup-failed"
           \/ state'[cur[t]] = "stopped" /\ ~err[t]
  /\ UNCHANGED <<Live, sockets>>

Inserted(t) ==
  /\ pc[t] = "insert" /\ pc'[t] = "configure" /\ cur'[t] = cur[t]
  /\ state'[cur[t]] = "created" /\ UNCHANGED <<machine, Live, sockets>>

Kind(t) == Outside(t) \/ Inside(t) \/ Enter(t) \/ Exit(t) \/ Inserted(t)

-----------------------------------------------------------------------------
(* The callers other than t.                                               *)
OthersKept(t) ==
  \A u \in Callers : u # t =>
    /\ pc'[u] = pc[u] /\ cur'[u] = cur[u]
    /\ unread'[u] = unread[u] /\ todo'[u] = todo[u]
    /\ err'[u] = err[u] /\ stopped'[u] = stopped[u]

(* Goto moves one caller.                                                  *)
LEMMA GotoKeeps ==
  ASSUME ManagerInv, NEW t \in Callers, NEW l, Goto(t, l)
  PROVE  pc'[t] = l /\ \A u \in Callers : u # t => pc'[u] = pc[u]
  BY DEF ManagerInv, LocalTypeOK, Goto

(* A return moves one caller and names no new instance.                    *)
LEMMA LeaveKeeps ==
  ASSUME ManagerInv, NEW t \in Callers, Return(t) \/ Leave(t)
  PROVE  OthersKept(t) /\ pc'[t] \in {"idle", "next"} /\ cur'[t] \in {cur[t], NoObj}
<1>1. CASE Return(t)
  BY <1>1 DEF ManagerInv, LocalTypeOK, OthersKept, Return, Goto
<1>2. CASE Leave(t) /\ ~Return(t)
  BY <1>2 DEF ManagerInv, LocalTypeOK, OthersKept, Leave, Goto
<1> QED
  BY <1>1, <1>2

(* SetState changes one instance.                                          *)
LEMMA SetStateKeeps ==
  ASSUME ManagerInv, NEW o \in Objs, NEW s, SetState(o, s)
  PROVE  state'[o] = s /\ \A p \in Objs : p # o => state'[p] = state[p]
  BY Zenon DEF ManagerInv, LocalTypeOK, SetState

(* The steps outside Configure, Start and Stop do not touch an instance.   *)
LEMMA OutsideSteps ==
  ASSUME ManagerInv, NEW t \in Callers,
         \/ Call(t) \/ CreateCheck(t) \/ CreateAcquire(t) \/ ConfigureInvalid(t)
         \/ Delete(t) \/ ReconcileScan(t) \/ ReconcileNext(t)
  PROVE  Frame(t) /\ Outside(t)
<1>1. UNCHANGED <<state, machine, Live, sockets>>
  BY DEF Call, ProvisionVM, DestroyVM, Reconcile, CreateCheck, CreateAcquire,
     ConfigureInvalid, Delete, ReconcileScan, ReconcileNext, instVars, hostVars, Live
<1>2. OthersKept(t)
  <2>1. CASE Call(t)
    BY <2>1, Zenon DEF ManagerInv, LocalTypeOK, OthersKept, Call, ProvisionVM, DestroyVM,
       Reconcile, Goto
  <2>2. CASE CreateCheck(t)
    BY <2>2, LeaveKeeps, GotoKeeps, Zenon DEF OthersKept, CreateCheck, localVars
  <2>3. CASE CreateAcquire(t)
    BY <2>3, AcquireStep, LeaveKeeps, Zenon DEF ManagerInv, LocalTypeOK, OthersKept, Goto
  <2>4. CASE ConfigureInvalid(t)
    BY <2>4, GotoKeeps, Zenon DEF OthersKept, ConfigureInvalid, localVars
  <2>5. CASE Delete(t)
    BY <2>5, LeaveKeeps DEF Delete
  <2>6. CASE ReconcileNext(t)
    BY <2>6, LeaveKeeps, Zenon DEF ManagerInv, LocalTypeOK, OthersKept, ReconcileNext, Goto
  <2>7. CASE ReconcileScan(t)
    BY <2>7, Zenon DEF ManagerInv, LocalTypeOK, OthersKept, ReconcileScan, Goto
  <2> QED
    BY <2>1, <2>2, <2>3, <2>4, <2>5, <2>6, <2>7
<1>3. pc[t] \notin AtWork /\ pc'[t] \notin AtWork
  <2>1. pc[t] \in {"idle", "check", "acquire", "configure", "delete", "scan", "next"}
    BY Zenon DEF Call, ProvisionVM, DestroyVM, Reconcile, CreateCheck, CreateAcquire,
     ConfigureInvalid, Delete, ReconcileScan, ReconcileNext
  <2>2. pc'[t] \in {"idle", "check", "acquire", "insert", "stop", "scan", "next"}
    BY LeaveKeeps, GotoKeeps DEF Call, ProvisionVM, DestroyVM, Reconcile, CreateCheck,
     CreateAcquire, ConfigureInvalid, Delete, ReconcileScan, ReconcileNext
  <2> QED
    BY <2>1, <2>2, Zenon DEF AtWork, Configuring, Starting, Stopping
<1> QED
  BY <1>1, <1>2, <1>3, Zenon DEF Frame, OthersKept, Outside

(* Configure, CreateVM's insertion, Start and Stop.                        *)
LEMMA ConfigureSteps ==
  ASSUME ManagerInv, NEW t \in Callers,
         \/ ConfigureBegin(t) \/ ConfigureTAP(t) \/ ConfigureFirewall(t)
         \/ ConfigureMachine(t) \/ ConfigureUnwound(t)
  PROVE  Frame(t) /\ Kind(t)
<1>1. cur[t] \in Objs
  BY Zenon DEF ManagerInv, InHand, NoInstance, ConfigureBegin, ConfigureTAP, ConfigureFirewall,
     ConfigureMachine, ConfigureUnwound
<1>2. CASE ConfigureBegin(t)
  <2>1. Frame(t) /\ cur'[t] = cur[t] /\ UNCHANGED <<machine, Live, sockets>>
    BY <1>1, <1>2, GotoKeeps, SetStateKeeps, Zenon DEF Frame, ConfigureBegin, localVars,
       hostVars, Live
  <2>2. /\ pc[t] = "configure"
        /\ \/ /\ state[cur[t]] = "created" /\ state'[cur[t]] = "configuring"
              /\ pc'[t] = "setup"
           \/ UNCHANGED state /\ pc'[t] = "stop"
    BY <1>1, <1>2, GotoKeeps, SetStateKeeps, Zenon DEF ConfigureBegin
  <2> QED
    BY <2>1, <2>2, Zenon DEF Kind, Enter, Outside, AtWork, Configuring, Starting, Stopping
<1>3. CASE ConfigureTAP(t) \/ ConfigureFirewall(t)
  <2>1. Frame(t) /\ cur'[t] = cur[t] /\ UNCHANGED <<state, machine, Live, sockets>>
    BY <1>3, GotoKeeps, Zenon DEF Frame, ConfigureTAP, ConfigureFirewall, localVars, instVars,
       hostVars, Live
  <2> QED
    BY <1>3, <2>1, GotoKeeps, Zenon DEF ConfigureTAP, ConfigureFirewall, Kind, Inside, Configuring
<1>4. CASE ConfigureMachine(t)
  <2>1. cur'[t] = cur[t] /\ UNCHANGED <<Live, sockets>>
    BY <1>4, Zenon DEF ConfigureMachine, localVars, hostVars, Live
  <2>2. CASE Goto(t, "unwind") /\ UNCHANGED <<state, machine>>
    BY <1>4, <2>1, <2>2, GotoKeeps, Zenon DEF ConfigureMachine, Frame, Kind, Inside, Configuring,
       localVars
  <2>3. CASE /\ machine' = [machine EXCEPT ![cur[t]] = TRUE]
             /\ SetState(cur[t], "configured") /\ Goto(t, "start")
    <3>1. machine'[cur[t]] /\ \A o \in Objs : o # cur[t] => machine'[o] = machine[o]
      BY <1>1, <2>3, Zenon DEF ManagerInv, LocalTypeOK
    <3>2. Frame(t)
      BY <1>1, <1>4, <2>1, <2>3, <3>1, GotoKeeps, SetStateKeeps, Zenon DEF ConfigureMachine,
         Frame, localVars
    <3>3. pc[t] = "newMachine" /\ pc'[t] = "start" /\ state'[cur[t]] = "configured"
      BY <1>1, <1>4, <2>3, GotoKeeps, SetStateKeeps, Zenon DEF ConfigureMachine
    <3> QED
      BY <2>1, <3>1, <3>2, <3>3, Zenon DEF Kind, Exit, AtWork, Configuring, Starting, Stopping
  <2> QED
    BY <1>4, <2>2, <2>3, Zenon DEF ConfigureMachine, instVars
<1>5. CASE ConfigureUnwound(t)
  <2>1. /\ cur'[t] = cur[t] /\ UNCHANGED <<machine, Live, sockets>>
        /\ \A u \in Callers : u # t => err'[u] = err[u]
    BY <1>5 DEF ConfigureUnwound, hostVars, Live, ManagerInv, LocalTypeOK
  <2>2. Frame(t)
    BY <1>1, <1>5, <2>1, GotoKeeps, SetStateKeeps, Zenon DEF ConfigureUnwound, Frame
  <2>3. /\ pc[t] = "unwound" /\ pc'[t] = "stop"
        /\ state'[cur[t]] \in {"created", "cleanup-failed"}
    BY <1>1, <1>5, GotoKeeps, SetStateKeeps, Zenon DEF ConfigureUnwound
  <2> QED
    BY <2>1, <2>2, <2>3, Zenon DEF Kind, Exit, AtWork, Configuring, Starting, Stopping
<1> QED
  BY <1>2, <1>3, <1>4, <1>5, Zenon

(* CreateInsert makes one instance.                                        *)
LEMMA InsertStep ==
  ASSUME ManagerInv, NEW t \in Callers, CreateInsert(t)
  PROVE  Frame(t) /\ Kind(t)
<1>1. cur[t] \in Objs
  BY Zenon DEF ManagerInv, InHand, NoInstance, CreateInsert
<1>2. Frame(t) /\ cur'[t] = cur[t] /\ UNCHANGED <<machine, Live, sockets>>
  <2>1. UNCHANGED <<machine, Live, sockets, cur, err, stopped, unread, todo>>
    BY Zenon DEF CreateInsert, localVars, hostVars, Live
  <2>2. /\ \A u \in Callers : u # t => pc'[u] = pc[u]
        /\ \A o \in Objs : o # cur[t] => state'[o] = state[o]
    BY <1>1, GotoKeeps, SetStateKeeps, Zenon DEF CreateInsert
  <2> QED
    BY <2>1, <2>2, Zenon DEF Frame
<1>3. /\ pc[t] = "insert"
      /\ \/ pc'[t] = "configure" /\ state'[cur[t]] = "created"
         \/ pc'[t] = "undo" /\ UNCHANGED state
  BY <1>1, GotoKeeps, SetStateKeeps, Zenon DEF CreateInsert
<1> QED
  BY <1>2, <1>3, Zenon DEF Kind, Inserted, Outside, AtWork, Configuring, Starting, Stopping

(* The steps of Start change the caller's own instance.                    *)
LEMMA StartSteps ==
  ASSUME ManagerInv, Locked, NEW t \in Callers,
         Start(t) \/ StartMachine(t) \/ StartDone(t) \/ StartFailed(t)
  PROVE  Frame(t) /\ Kind(t)
<1>1. cur[t] \in Objs
  BY Zenon DEF ManagerInv, InHand, NoInstance, Start, StartMachine, StartDone, StartFailed
<1>2. CASE Start(t)
  <2>1. Frame(t) /\ cur'[t] = cur[t] /\ UNCHANGED <<machine, Live, sockets>>
    BY <1>1, <1>2, GotoKeeps, SetStateKeeps, Zenon DEF Frame, Start, localVars, hostVars, Live
  <2>2. /\ pc[t] = "start"
        /\ \/ /\ state[cur[t]] = "configured" /\ machine[cur[t]]
              /\ state'[cur[t]] = "starting" /\ pc'[t] = "boot"
           \/ UNCHANGED state /\ pc'[t] = "stop"
    BY <1>1, <1>2, GotoKeeps, SetStateKeeps, Zenon DEF Start
  <2> QED
    BY <2>1, <2>2, Zenon DEF Kind, Enter, Outside, AtWork, Configuring, Starting, Stopping
<1>3. CASE StartMachine(t)
  <2>1. /\ cur'[t] = cur[t] /\ UNCHANGED <<state, machine>>
        /\ \A o \in Objs : o # cur[t] => (o \in Live' <=> o \in Live)
    BY <1>3, Zenon DEF StartMachine, ProcessUp, localVars, instVars, hostVars, Live
  <2>2. Frame(t)
    BY <1>3, <2>1, GotoKeeps, Zenon DEF Frame, StartMachine, localVars
  <2>3. \A v \in VmIds : \/ sockets'[v] = sockets[v]
                         \/ v = vm[cur[t]] /\ sockets'[v] = cur[t]
    <3>1. UNCHANGED sockets \/ sockets' = [sockets EXCEPT ![vm[cur[t]]] = cur[t]]
      BY <1>3, Zenon DEF StartMachine, ProcessUp, hostVars, Live
    <3> QED
      BY <3>1 DEF ManagerInv, LocalTypeOK
  <2> QED
    BY <1>3, <2>1, <2>2, <2>3, GotoKeeps, Zenon DEF StartMachine, Kind, Inside
<1>4. CASE StartDone(t)
  <2>1. /\ pc[t] = "booted" /\ SetState(cur[t], "running") /\ Return(t)
        /\ UNCHANGED <<machine, Live, sockets>>
    BY <1>4, Zenon DEF StartDone, Locked, Starting, hostVars, Live
  <2>2. Frame(t)
    BY <1>1, <2>1, LeaveKeeps, SetStateKeeps, Zenon DEF Frame, OthersKept
  <2> QED
    BY <1>1, <2>1, <2>2, LeaveKeeps, SetStateKeeps, Zenon DEF Kind, Exit, AtWork, Configuring,
       Starting,
       Stopping
<1>5. CASE StartFailed(t)
  <2>1. Frame(t) /\ cur'[t] = cur[t] /\ UNCHANGED <<machine, Live, sockets>>
    BY <1>1, <1>5, GotoKeeps, SetStateKeeps, Zenon DEF Frame, StartFailed, localVars, hostVars, Live
  <2>2. pc[t] = "bootFailed" /\ pc'[t] = "stop" /\ state'[cur[t]] = "configured"
    BY <1>1, <1>5, GotoKeeps, SetStateKeeps, Zenon DEF StartFailed
  <2> QED
    BY <2>1, <2>2, Zenon DEF Kind, Exit, AtWork, Configuring, Starting, Stopping
<1> QED
  BY <1>2, <1>3, <1>4, <1>5

(* The steps of Stop change the caller's own instance.                     *)
LEMMA StopSteps ==
  ASSUME ManagerInv, NEW t \in Callers,
         Stop(t) \/ StopVMM(t) \/ ReleaseStep(t) \/ StopSocket(t) \/ StopEnd(t)
  PROVE  Frame(t) /\ Kind(t)
<1>1. cur[t] \in Objs
  BY Zenon DEF ManagerInv, InHand, NoInstance, Stop, StopVMM, ReleaseStep, StopSocket, StopEnd
<1>2. /\ \A u \in Callers : [err EXCEPT ![t] = TRUE][u] = IF u = t THEN TRUE ELSE err[u]
      /\ \A b \in BOOLEAN, u \in Callers :
           [stopped EXCEPT ![t] = b][u] = IF u = t THEN b ELSE stopped[u]
  BY DEF ManagerInv, LocalTypeOK
<1>3. CASE Stop(t)
  <2>1. cur'[t] = cur[t] /\ UNCHANGED <<machine, Live, sockets, err, cur, unread, todo>>
    BY <1>3, Zenon DEF Stop, hostVars, Live
  <2>2. machine[cur[t]] \in BOOLEAN
    BY <1>1 DEF ManagerInv, LocalTypeOK
  <2>3. Frame(t)
    <3>1. \A u \in Callers : u # t => stopped'[u] = stopped[u]
      BY <1>2, <1>3, <2>2, Zenon DEF Stop
    <3>2. \A u \in Callers : u # t => pc'[u] = pc[u]
      BY <1>3, GotoKeeps, Zenon DEF Stop
    <3>3. \A o \in Objs : o # cur[t] => state'[o] = state[o]
      BY <1>1, <1>3, SetStateKeeps, Zenon DEF Stop
    <3> QED
      BY <2>1, <3>1, <3>2, <3>3, Zenon DEF Frame
  <2>4. CASE Goto(t, "delete") /\ UNCHANGED state
    <3>1. pc[t] = "stop" /\ pc'[t] = "delete"
      BY <1>3, <2>4, GotoKeeps, Zenon DEF Stop
    <3> QED
      BY <2>1, <2>3, <2>4, <3>1, Zenon DEF Kind, Outside, AtWork, Configuring, Starting, Stopping
  <2>5. CASE state[cur[t]] \in Stoppable
    <3>1. pc[t] \notin AtWork /\ state'[cur[t]] = "stopping"
      BY <1>1, <1>3, <2>5, SetStateKeeps, Zenon DEF Stop, AtWork, Configuring, Starting, Stopping
    <3>2. CASE machine[cur[t]]
      <4>1. pc'[t] = "stopVMM" /\ stopped' = [stopped EXCEPT ![t] = FALSE]
        BY <1>3, <2>5, <3>2, GotoKeeps, Zenon DEF Stop
      <4> QED
        BY <1>2, <2>1, <2>3, <2>5, <3>1, <3>2, <4>1, Zenon DEF Kind, Enter
    <3>3. CASE ~machine[cur[t]]
      <4>1. pc'[t] = "release" /\ stopped' = [stopped EXCEPT ![t] = TRUE]
        BY <1>3, <2>5, <3>3, GotoKeeps, Zenon DEF Stop
      <4> QED
        BY <1>2, <2>1, <2>3, <2>5, <3>1, <3>3, <4>1, Zenon DEF Kind, Enter
    <3> QED
      BY <3>2, <3>3, Zenon
  <2> QED
    BY <1>3, <2>4, <2>5, Zenon DEF Stop
<1>4. CASE StopVMM(t)
  <2>1. /\ cur'[t] = cur[t] /\ UNCHANGED <<state, machine>>
        /\ \A o \in Objs : o # cur[t] => (o \in Live' <=> o \in Live)
    BY <1>4, Zenon DEF StopVMM, instVars, Live
  <2>2. Frame(t)
    BY <1>2, <1>4, <2>1, GotoKeeps, Zenon DEF Frame, StopVMM
  <2>3. /\ stopped'[t] = stopped[t] \/ (stopped'[t] /\ cur[t] \notin Live')
        /\ Live' \subseteq Live /\ UNCHANGED sockets
    BY <1>2, <1>4, Zenon DEF StopVMM, Live
  <2>4. pc[t] = "stopVMM" /\ pc'[t] = "release"
    BY <1>4, GotoKeeps, Zenon DEF StopVMM
  <2> QED
    BY <2>1, <2>2, <2>3, <2>4, Zenon DEF Kind, Inside, Stopping
<1>5. CASE ReleaseStep(t)
  <2>1. UNCHANGED <<state, machine, Live, sockets>> /\ pc[t] \in {"undo", "unwind", "release"}
    BY <1>5, Zenon DEF ReleaseStep, instVars, hostVars, Live
  <2>2. CASE UNCHANGED <<pc, localVars>>
    BY <2>1, <2>2, Zenon DEF localVars, Frame, Kind, Outside, Inside, AtWork, Configuring,
       Starting, Stopping
  <2>3. CASE pc[t] = "undo" /\ Return(t)
    BY <2>1, <2>3, LeaveKeeps, Zenon DEF OthersKept, Frame, Kind, Outside, AtWork, Configuring,
       Starting, Stopping
  <2>4. CASE /\ pc[t] # "undo" /\ Goto(t, AfterRelease(t))
             /\ err' = [err EXCEPT ![t] = TRUE] \/ UNCHANGED err
             /\ UNCHANGED <<cur, stopped, unread, todo>>
    <3>1. Frame(t)
      BY <1>2, <2>1, <2>4, GotoKeeps, Zenon DEF Frame
    <3>2. /\ pc[t] = "unwind" => AfterRelease(t) = "unwound"
          /\ pc[t] = "release" => AfterRelease(t) \in {"socket", "stopEnd"}
      BY <2>1, <2>4 DEF AfterRelease, ManagerInv, LocalTypeOK
    <3> QED
      BY <2>1, <2>4, <3>1, <3>2, GotoKeeps, Zenon DEF Kind, Inside, Configuring, Stopping
  <2> QED
    BY <1>5, <2>2, <2>3, <2>4, Zenon DEF ReleaseStep, localVars
<1>6. CASE StopSocket(t)
  <2>1. cur'[t] = cur[t] /\ UNCHANGED <<state, machine, Live>>
    BY <1>6, Zenon DEF StopSocket, instVars, Live
  <2>2. Frame(t)
    BY <1>2, <1>6, <2>1, GotoKeeps, Zenon DEF Frame, StopSocket
  <2>3. stopped'[t] = stopped[t] /\ \A v \in VmIds : sockets'[v] \in {sockets[v], NoObj}
    BY <1>6, Zenon DEF StopSocket, ManagerInv, LocalTypeOK
  <2>4. pc[t] = "socket" /\ pc'[t] = "stopEnd"
    BY <1>6, GotoKeeps, Zenon DEF StopSocket
  <2> QED
    BY <2>1, <2>2, <2>3, <2>4, Zenon DEF Kind, Inside, Stopping
<1>7. CASE StopEnd(t)
  <2>1. /\ machine'[cur[t]] <=> machine[cur[t]] /\ ~stopped[t]
        /\ \A o \in Objs : o # cur[t] => machine'[o] = machine[o]
    BY <1>1, <1>7, Zenon DEF StopEnd, ManagerInv, LocalTypeOK
  <2>2. OthersKept(t) /\ pc'[t] \in {"idle", "next", "delete"} /\ cur'[t] \in {cur[t], NoObj}
    BY <1>7, LeaveKeeps, GotoKeeps, Zenon DEF StopEnd, OthersKept, localVars
  <2>3. UNCHANGED <<Live, sockets>> /\ pc[t] = "stopEnd"
    BY <1>7, Zenon DEF StopEnd, hostVars, Live
  <2>4. /\ \A o \in Objs : o # cur[t] => state'[o] = state[o]
        /\ \/ state'[cur[t]] = "cleanup-failed"
           \/ state'[cur[t]] = "stopped" /\ ~err[t]
    BY <1>1, <1>7, SetStateKeeps, Zenon DEF StopEnd
  <2>5. Frame(t)
    BY <2>1, <2>2, <2>3, <2>4, Zenon DEF Frame, OthersKept
  <2> QED
    BY <2>1, <2>2, <2>3, <2>4, <2>5, Zenon DEF Kind, Exit, AtWork, Configuring, Starting, Stopping
<1> QED
  BY <1>3, <1>4, <1>5, <1>6, <1>7

(* Every step is of one of the kinds above.                                *)
LEMMA StepKind ==
  ASSUME ManagerInv, Locked, NEW t \in Callers, Call(t) \/ Step(t)
  PROVE  Frame(t) /\ Kind(t)
  BY OutsideSteps, ConfigureSteps, InsertStep, StartSteps, StopSteps DEF Step, Kind

-----------------------------------------------------------------------------
(***************************************************************************)
(* The state of an instance works as its lock: the callers at work on      *)
(* instances are at work on different ones, and an instance is in one      *)
(* hand only until it is inserted.                                         *)
(***************************************************************************)

(* The state of an instance is its lock: Locked and OneActor.  An          *)
(* allocation that was not made yet is in nobody's hand; an instance that  *)
(* is not in the map yet is in its creator's hand only.                    *)
Unmade ==
  \A o \in Objs :
    /\ vm[o] = NoVm => state[o] = "none" /\ \A t \in Callers : cur[t] # o
    /\ state[o] = "none" => /\ \A v \in VmIds : instances[v] # o
                           /\ \A t \in Callers : o \notin todo[t] \cup unread[t]

Private ==
  \A t \in Callers : pc[t] \in {"insert", "undo"} =>
    state[cur[t]] = "none" /\ \A u \in Callers : u # t => cur[u] # cur[t]

LockInv == Locked /\ Unmade /\ Private /\ OneActor

(* Where the instances in hand, in the map and on the lists come from.     *)
NewHand(t) ==
  cur'[t] \in Objs /\ vm[cur'[t]] = NoVm /\ vm'[cur'[t]] # NoVm /\ state' = state

Origin(t) ==
  /\ \/ cur'[t] \in {cur[t], NoObj}
     \/ cur'[t] \in Objs /\ pc'[t] = "stop" /\ state[cur'[t]] # "none"
     \/ pc'[t] = "insert" /\ NewHand(t)
  /\ pc'[t] \in {"insert", "undo"} =>
       \/ pc'[t] = "insert" /\ NewHand(t)
       \/ pc[t] \in {"insert", "undo"} /\ cur'[t] = cur[t] /\ state' = state
  /\ \A v \in VmIds : instances'[v] \in {instances[v], NoObj} \/ state'[instances'[v]] # "none"
  /\ \A o \in todo'[t] \cup unread'[t] : o \in todo[t] \cup unread[t] \/ state[o] # "none"

(* A call that begins names no instance that was not made.                 *)
LEMMA CallOrigin ==
  ASSUME ManagerInv, Unmade, NEW t \in Callers, Call(t)
  PROVE  Origin(t)
<1> USE DEF ManagerInv, LocalTypeOK
<1>1. ASSUME NEW v \in VmIds, ProvisionVM(t, v)
      PROVE  Origin(t)
  BY <1>1, Zenon DEF ProvisionVM, Goto, Origin
<1>2. ASSUME NEW v \in VmIds, DestroyVM(t, v)
      PROVE  Origin(t)
  <2>1. instances[v] \in Objs /\ state[instances[v]] # "none"
    BY <1>2, Zenon DEF DestroyVM, Unmade
  <2> QED
    BY <1>2, <2>1, Zenon DEF DestroyVM, Goto, Origin
<1>3. CASE Reconcile(t)
  <2>1. \A o \in Range(instances) \ {NoObj} : state[o] # "none"
    BY DEF Unmade, Range
  <2>2. pc'[t] \in {"scan", "next"} /\ unread'[t] = Range(instances) \ {NoObj}
    BY <1>3, Zenon DEF Reconcile, Goto
  <2> QED
    BY <1>3, <2>1, <2>2, Zenon DEF Reconcile, Origin
<1> QED
  BY <1>1, <1>2, <1>3, Zenon DEF Call

(* CreateVM brings only an instance it has acquired itself into play.      *)
LEMMA CreateOrigin ==
  ASSUME ManagerInv, NetTypeOK, NEW t \in Callers,
         CreateCheck(t) \/ CreateAcquire(t) \/ CreateInsert(t) \/ ReleaseStep(t)
  PROVE  Origin(t)
<1> USE DEF ManagerInv, LocalTypeOK
<1>1. Return(t) => pc'[t] = "idle" /\ cur'[t] = NoObj /\ todo'[t] = {} /\ unread'[t] = {}
  BY Zenon DEF Return, Goto
<1>2. CASE CreateCheck(t)
  BY <1>1, <1>2, Zenon DEF CreateCheck, Goto, Origin, localVars
<1>3. CASE CreateAcquire(t)
  <2>1. CASE Return(t)
    BY <1>1, <1>3, <2>1, Zenon DEF CreateAcquire, Origin
  <2>2. CASE \E o \in Objs : /\ Acquire(o, arg[t]) /\ Goto(t, "insert")
                            /\ cur' = [cur EXCEPT ![t] = o] /\ UNCHANGED <<unread, todo>>
    <3>1. PICK o \in Objs : /\ Acquire(o, arg[t]) /\ Goto(t, "insert")
                            /\ cur' = [cur EXCEPT ![t] = o] /\ UNCHANGED <<unread, todo>>
      BY <2>2, Zenon
    <3>2. arg[t] # NoVm
      BY <1>3, NilAssumption, Zenon DEF CreateAcquire, InHand
    <3>3. vm[o] = NoVm /\ vm'[o] # NoVm
      BY <3>1, <3>2, Zenon DEF Acquire, NetTypeOK
    <3>4. pc'[t] = "insert" /\ cur'[t] = o /\ UNCHANGED <<instances, state>>
      BY <1>3, <3>1, Zenon DEF CreateAcquire, Goto, instVars
    <3> QED
      BY <3>1, <3>3, <3>4, Zenon DEF Origin, NewHand
  <2> QED
    BY <1>3, <2>1, <2>2, AcquireStep, Zenon
<1>4. CASE CreateInsert(t)
  <2>1. cur[t] \in Objs /\ arg[t] \in VmIds
    BY <1>4, Zenon DEF CreateInsert, InHand, NoInstance
  <2> QED
    BY <1>4, <2>1, Zenon DEF CreateInsert, Goto, SetState, Origin, localVars
<1>5. CASE ReleaseStep(t)
  <2>1. UNCHANGED <<instances, state>> /\ pc[t] \in {"undo", "unwind", "release"}
    BY <1>5, Zenon DEF ReleaseStep, instVars
  <2>2. CASE UNCHANGED <<pc, cur, unread, todo>>
    BY <2>1, <2>2, Zenon DEF Origin
  <2>3. CASE Return(t)
    BY <1>1, <2>1, <2>3, Zenon DEF Origin
  <2>4. CASE pc[t] # "undo" /\ Goto(t, AfterRelease(t)) /\ UNCHANGED <<cur, unread, todo>>
    <3>1. AfterRelease(t) \in {"unwound", "socket", "stopEnd"}
      BY <2>1, <2>4, Zenon DEF AfterRelease
    <3> QED
      BY <2>1, <2>4, <3>1 DEF Goto, Origin
  <2> QED
    BY <1>5, <2>2, <2>3, <2>4, Zenon DEF ReleaseStep, localVars
<1> QED
  BY <1>2, <1>3, <1>4, <1>5, Zenon

(* No step of a caller brings an instance into play that was not made,     *)
(* except the one it acquires itself.                                      *)
LEMMA StepOrigin ==
  ASSUME ManagerInv, NetTypeOK, Unmade, NEW t \in Callers, Call(t) \/ Step(t)
  PROVE  Origin(t)
<1>1. ASSUME NEW l \in PCs \ {"insert", "undo"}, Goto(t, l), 
             UNCHANGED <<cur, unread, todo, instances>>
      PROVE  Origin(t)
  BY <1>1, Zenon DEF Origin, Goto, ManagerInv, LocalTypeOK
<1>2. Return(t) \/ Leave(t) =>
        /\ pc'[t] \in {"idle", "next"} /\ cur'[t] \in {cur[t], NoObj}
        /\ todo'[t] \subseteq todo[t] /\ unread'[t] \subseteq unread[t]
  BY DEF Return, Leave, Goto, ManagerInv, LocalTypeOK
<1>3. CASE \/ ConfigureInvalid(t) \/ ConfigureBegin(t) \/ ConfigureTAP(t)
           \/ ConfigureFirewall(t) \/ ConfigureMachine(t) \/ ConfigureUnwound(t)
  BY <1>1, <1>3, Zenon DEF ConfigureInvalid, ConfigureBegin, ConfigureTAP, ConfigureFirewall,
     ConfigureMachine, ConfigureUnwound, localVars, PCs
<1>4. CASE Start(t) \/ StartMachine(t) \/ StartFailed(t)
  BY <1>1, <1>4, Zenon DEF Start, StartMachine, StartFailed, localVars, PCs
<1>5. CASE StartDone(t)
  BY <1>1, <1>2, <1>5, Zenon DEF StartDone, localVars, PCs, Origin
<1>6. CASE Stop(t) \/ StopVMM(t) \/ StopSocket(t)
  BY <1>1, <1>6, Zenon DEF Stop, StopVMM, StopSocket, PCs
<1>7. CASE StopEnd(t)
  BY <1>1, <1>2, <1>7, Zenon DEF StopEnd, localVars, PCs, Origin
<1>8. CASE Delete(t)
  <2>1. \A v \in VmIds : instances'[v] \in {instances[v], NoObj}
    BY <1>8, Zenon DEF Delete, ManagerInv, LocalTypeOK
  <2> QED
    BY <1>2, <1>8, <2>1, Zenon DEF Delete, Origin
<1>9. CASE ReconcileNext(t)
  <2>1. CASE Return(t)
    BY <1>2, <1>9, <2>1, Zenon DEF ReconcileNext, Origin
  <2>2. ASSUME NEW o \in todo[t], cur' = [cur EXCEPT ![t] = o],
               todo' = [todo EXCEPT ![t] = @ \ {o}], UNCHANGED unread, Goto(t, "stop")
        PROVE  Origin(t)
    <3>1. o \in Objs /\ state[o] # "none"
      BY <2>2 DEF Unmade, ManagerInv, LocalTypeOK
    <3>2. /\ cur'[t] = o /\ pc'[t] = "stop"
          /\ todo'[t] \subseteq todo[t] /\ unread'[t] = unread[t]
      BY <2>2 DEF Goto, ManagerInv, LocalTypeOK
    <3> QED
      BY <1>9, <3>1, <3>2, Zenon DEF ReconcileNext, Origin
  <2> QED
    BY <1>9, <2>1, <2>2, Zenon DEF ReconcileNext
<1>10. CASE ReconcileScan(t)
  <2>1. /\ pc'[t] \in {"scan", "next"} /\ UNCHANGED <<cur, instances>>
        /\ todo'[t] \cup unread'[t] \subseteq todo[t] \cup unread[t]
    BY <1>10 DEF ReconcileScan, Goto, ManagerInv, LocalTypeOK
  <2> QED
    BY <2>1, Zenon DEF Origin
<1> QED
  BY CallOrigin, CreateOrigin, <1>3, <1>4, <1>5, <1>6, <1>7, <1>8, <1>9, <1>10, Zenon DEF Step

-----------------------------------------------------------------------------
(* Only the caller whose lock it is changes the state of an instance.      *)
LEMMA LockKept ==
  ASSUME ManagerInv, Locked, OneActor, Private, NEW t \in Callers, Frame(t), Kind(t)
  PROVE  Locked' /\ OneActor'
<1> DEFINE Own == /\ pc'[t] \in Configuring => state'[cur'[t]] = "configuring"
                  /\ pc'[t] \in Starting => state'[cur'[t]] = "starting"
                  /\ pc'[t] \in Stopping => state'[cur'[t]] = "stopping"
           Alone == \A u \in Callers : u # t /\ pc[u] \in AtWork => cur[u] # cur[t]
<1>1. \A u \in Callers : pc[u] \in AtWork => cur[u] \in Objs
  BY Zenon DEF ManagerInv, InHand, NoInstance, AtWork, Configuring, Starting, Stopping
<1>2. \A u \in Callers : u # t => pc'[u] = pc[u] /\ cur'[u] = cur[u]
  BY Zenon DEF Frame
<1>3. Alone => \A u \in Callers : u # t /\ pc[u] \in AtWork => state'[cur[u]] = state[cur[u]]
  BY <1>1, Zenon DEF Frame
<1>4. ASSUME Own, Alone \/ state' = state
      PROVE  Locked'
  <2>1. \A u \in Callers : u # t /\ pc[u] \in AtWork => state'[cur[u]] = state[cur[u]]
    BY <1>3, <1>4, Zenon
  <2> SUFFICES ASSUME NEW u \in Callers, u # t
               PROVE  /\ pc'[u] \in Configuring => state'[cur'[u]] = "configuring"
                      /\ pc'[u] \in Starting => state'[cur'[u]] = "starting"
                      /\ pc'[u] \in Stopping => state'[cur'[u]] = "stopping"
    BY <1>4, Zenon DEF Locked
  <2>2. pc'[u] = pc[u] /\ cur'[u] = cur[u]
    BY <1>2, Zenon
  <2> QED
    BY <2>1, <2>2, Zenon DEF Locked, AtWork
<1>5. ASSUME pc'[t] \in AtWork => cur'[t] = cur[t] /\ Alone
      PROVE  OneActor'
  BY <1>2, <1>5, Zenon DEF OneActor
<1>6. pc[t] \in AtWork => Alone
  BY Zenon DEF OneActor
<1>7. CASE Outside(t)
  <2>1. pc'[t] \notin AtWork /\ state' = state
    BY <1>7, Zenon DEF Outside
  <2> QED
    BY <1>4, <1>5, <2>1, Zenon DEF AtWork
<1>8. CASE Inside(t)
  <2>1. /\ pc[t] \in AtWork /\ cur'[t] = cur[t] /\ state' = state
        /\ pc'[t] \in Configuring => pc[t] \in Configuring
        /\ pc'[t] \in Starting => pc[t] \in Starting
        /\ pc'[t] \in Stopping => pc[t] \in Stopping
    BY <1>8 DEF Inside, AtWork, Configuring, Starting, Stopping
  <2>2. Own
    BY <2>1, Zenon DEF Locked
  <2> QED
    BY <1>4, <1>5, <1>6, <2>1, <2>2, Zenon
<1>9. CASE Enter(t)
  <2>1. Alone
    BY <1>9, Zenon DEF Enter, Locked, Stoppable, AtWork
  <2>2. Own /\ cur'[t] = cur[t]
    BY <1>9, Zenon DEF Enter, Configuring, Starting, Stopping
  <2> QED
    BY <1>4, <1>5, <2>1, <2>2, Zenon
<1>10. CASE Exit(t)
  <2>1. pc[t] \in AtWork /\ pc'[t] \notin AtWork
    BY <1>10, Zenon DEF Exit, AtWork, Configuring, Starting, Stopping
  <2> QED
    BY <1>4, <1>5, <1>6, <2>1, Zenon DEF AtWork
<1>11. CASE Inserted(t)
  <2>1. pc'[t] \notin AtWork
    BY <1>11, Zenon DEF Inserted, AtWork, Configuring, Starting, Stopping
  <2>2. Alone
    BY <1>11, Zenon DEF Inserted, Private
  <2> QED
    BY <1>4, <1>5, <2>1, <2>2, Zenon DEF AtWork
<1> QED
  BY <1>7, <1>8, <1>9, <1>10, <1>11, Zenon DEF Kind

(* No step takes an instance back to where CreateVM has not made it.       *)
LEMMA MadeKept ==
  ASSUME ManagerInv, NEW t \in Callers, Frame(t), Kind(t)
  PROVE  \A o \in Objs : state'[o] = "none" => state[o] = "none"
<1>1. \A o \in Objs : o # cur[t] => state'[o] = state[o]
  BY Zenon DEF Frame
<1>2. UNCHANGED state \/ state'[cur[t]] # "none"
  BY Zenon DEF Kind, Outside, Inside, Enter, Exit, Inserted
<1> QED
  BY <1>1, <1>2

(* A lease is given back for good, and an allocation keeps its VM id.      *)
Monotone ==
  \A o \in Objs : /\ released[o] => released'[o]
                  /\ vm[o] # NoVm => vm'[o] = vm[o]

(* An allocation that was acquired stays acquired, under the same VM id,   *)
(* through every step.                                                     *)
LEMMA NetMonotone ==
  ASSUME ManagerInv, NetTypeOK, [Next]_vars
  PROVE  Monotone
<1>1. CASE UNCHANGED <<ipamVars, leaseVars, linkVars>>
  BY <1>1, Zenon DEF Monotone, leaseVars
<1>2. ASSUME NEW o \in Objs, NetStep(o)
      PROVE  Monotone
  <2> USE DEF Monotone, leaseVars, NetTypeOK
  <2>1. CASE \E v \in VmIds : Acquire(o, v)
    BY <2>1 DEF Acquire
  <2>2. CASE UNCHANGED <<vm, released>>
    BY <2>2, Zenon
  <2>3. CASE ReleaseEnd(o)
    BY <2>3 DEF ReleaseEnd
  <2> QED
    BY <1>2, <2>1, <2>2, <2>3, Zenon DEF NetStep, SetupRefused, SetupTAP, SetupTAPFails,
       SetupFirewall, SetupFirewallFails, ReleaseDone, ReleaseBegin, ReleaseAt, CleanupTAP,
       CleanupFirewall, CleanupFails, ReleaseFails, netVars
<1> QED
  BY <1>1, <1>2, ManagerUsesNetwork

(* What was not made yet is nowhere referred to, and what CreateVM has in  *)
(* hand is its own, after every step.                                      *)
LEMMA UnmadeKept ==
  ASSUME ManagerInv, Unmade, Private, Monotone, NEW t \in Callers, Frame(t), Kind(t), Origin(t)
  PROVE  Unmade' /\ Private'
<1>1. \A o \in Objs : state'[o] = "none" => state[o] = "none"
  BY MadeKept
<1>2. \A o \in Objs : vm'[o] = NoVm => vm[o] = NoVm
  BY Zenon DEF Monotone
<1>3. \A u \in Callers : u # t => pc'[u] = pc[u] /\ cur'[u] = cur[u]
  BY Zenon DEF Frame
<1>4. \A u \in Callers : pc[u] \in {"insert", "undo"} => cur[u] \in Objs
  BY Zenon DEF ManagerInv, InHand, NoInstance
<1>5. \A u \in Callers : u # t => unread'[u] = unread[u] /\ todo'[u] = todo[u]
  BY Zenon DEF Frame
<1>6. \A o \in Objs : vm[o] = NoVm => state[o] = "none" /\ \A u \in Callers : cur[u] # o
  BY Zenon DEF Unmade
<1>7. Unmade'
  <2> SUFFICES ASSUME NEW o \in Objs
               PROVE  /\ vm'[o] = NoVm => state'[o] = "none" /\ \A u \in Callers : cur'[u] # o
                      /\ state'[o] = "none" => /\ \A v \in VmIds : instances'[v] # o
                                              /\ \A u \in Callers : o \notin todo'[u] \cup unread'[u]
    BY Zenon DEF Unmade
  <2>1. vm'[o] = NoVm => \A u \in Callers : cur'[u] # o
    <3>1. vm'[o] = NoVm => cur'[t] # o
      <4>1. vm'[o] = NoVm => state[o] = "none" /\ cur[t] # o
        BY <1>2, <1>6, Zenon
      <4> QED
        BY <4>1, NilAssumption, Zenon DEF Origin, NewHand
    <3>2. vm'[o] = NoVm => \A u \in Callers : u # t => cur'[u] # o
      BY <1>2, <1>3, <1>6, Zenon
    <3> QED
      BY <3>1, <3>2, Zenon
  <2>2. vm'[o] = NoVm => state'[o] = "none"
    <3>1. vm'[o] = NoVm => state[o] = "none" /\ cur[t] # o
      BY <1>2, <1>6, Zenon
    <3> QED
      BY <3>1, Zenon DEF Frame
  <2>3. state'[o] = "none" => \A v \in VmIds : instances'[v] # o
    BY <1>1, NilAssumption, Zenon DEF Unmade, Origin
  <2>4. state'[o] = "none" => \A u \in Callers : o \notin todo'[u] \cup unread'[u]
    BY <1>1, <1>5, Zenon DEF Unmade, Origin
  <2> QED
    BY <2>1, <2>2, <2>3, <2>4, Zenon
<1>8. Private'
  <2> SUFFICES ASSUME NEW u \in Callers, pc'[u] \in {"insert", "undo"}
               PROVE  state'[cur'[u]] = "none" /\ \A w \in Callers : w # u => cur'[w] # cur'[u]
    BY Zenon DEF Private
  <2>1. CASE u # t
    <3>1. /\ pc[u] \in {"insert", "undo"} /\ cur'[u] = cur[u] /\ cur[u] \in Objs
          /\ cur[u] # cur[t] /\ state[cur[u]] = "none" /\ vm[cur[u]] # NoVm
      BY <1>3, <1>4, <1>6, <2>1, Zenon DEF Private
    <3>2. state'[cur[u]] = "none"
      BY <3>1, Zenon DEF Frame
    <3>3. cur'[t] # cur[u]
      BY <3>1, NilAssumption, Zenon DEF Origin, NewHand
    <3> QED
      BY <1>3, <3>1, <3>2, <3>3, Zenon DEF Private
  <2>2. CASE u = t /\ pc[t] \in {"insert", "undo"} /\ cur'[t] = cur[t] /\ state' = state
    BY <1>3, <2>2, Zenon DEF Private
  <2>3. CASE u = t /\ NewHand(t)
    <3>1. cur'[t] \in Objs /\ vm[cur'[t]] = NoVm /\ state' = state
      BY <2>3, Zenon DEF NewHand
    <3>2. state[cur'[t]] = "none" /\ \A w \in Callers : cur[w] # cur'[t]
      BY <1>6, <3>1, Zenon
    <3> QED
      BY <1>3, <2>3, <3>1, <3>2, Zenon
  <2> QED
    BY <2>1, <2>2, <2>3, Zenon DEF Origin
<1> QED
  BY <1>7, <1>8

(* The lock invariant holds at the start.                                  *)
LEMMA LockInit == Init => LockInv
<1> SUFFICES ASSUME Init PROVE LockInv
  OBVIOUS
<1> USE DEF Init
<1>1. Locked /\ OneActor
  BY DEF Locked, OneActor, AtWork, Configuring, Starting, Stopping
<1>2. Unmade
  BY NilAssumption DEF NetInit, Unmade
<1>3. Private
  BY DEF Private
<1> QED
  BY <1>1, <1>2, <1>3 DEF LockInv

(* Every step keeps the lock invariant.                                    *)
LEMMA LockNext ==
  ASSUME ManagerInv, NetTypeOK, LockInv, [Next]_vars
  PROVE  LockInv'
<1> USE DEF LockInv
<1>1. CASE Still
  BY <1>1, Zenon DEF Still, netVars, leaseVars, instVars, localVars, Locked, Unmade, Private,
     OneActor
<1>2. ASSUME NEW t \in Callers, Call(t) \/ Step(t)
      PROVE  LockInv'
  <2>1. Frame(t) /\ Kind(t) /\ Origin(t) /\ Monotone
    BY <1>2, StepKind, StepOrigin, NetMonotone
  <2>2. Locked' /\ OneActor'
    BY <2>1, LockKept
  <2>3. Unmade' /\ Private'
    BY <2>1, UnmadeKept
  <2> QED
    BY <2>2, <2>3
<1> QED
  BY <1>1, <1>2, NextSplit, Zenon

-----------------------------------------------------------------------------
(* Every change of an instance's state is one of the life cycle.           *)
LEMMA LifecycleNext ==
  ASSUME ManagerInv, LockInv, [Next]_vars
  PROVE  LifecycleStep
<1>1. CASE Still
  BY <1>1, Zenon DEF Still, instVars, LifecycleStep
<1>2. ASSUME NEW t \in Callers, Call(t) \/ Step(t)
      PROVE  LifecycleStep
  <2>1. Frame(t) /\ Kind(t)
    BY <1>2, StepKind, Zenon DEF LockInv
  <2>2. state' = state \/ <<state[cur[t]], state'[cur[t]]>> \in Transitions
    <3> USE DEF LockInv, Locked, Configuring, Starting, Stopping, Transitions
    <3>1. CASE Outside(t) \/ Inside(t)
      BY <3>1, Zenon DEF Outside, Inside
    <3>2. CASE Enter(t)
      BY <3>2, Zenon DEF Enter, Stoppable
    <3>3. CASE Exit(t)
      BY <3>3, Zenon DEF Exit
    <3>4. CASE Inserted(t)
      BY <3>4 DEF Inserted, Private
    <3> QED
      BY <2>1, <3>1, <3>2, <3>3, <3>4, Zenon DEF Kind
  <2> QED
    BY <2>1, <2>2 DEF Frame, LifecycleStep
<1> QED
  BY <1>1, <1>2, NextSplit, Zenon

-----------------------------------------------------------------------------
(* Popping a non-empty stack: what is left, and what was on top.           *)
LEMMA PopSeq ==
  ASSUME NEW S, NEW s \in Seq(S), s # <<>>
  PROVE  /\ Pop(s) \in Seq(S) /\ Top(s) \in S
         /\ Len(s) \in Nat \ {0} /\ Len(Pop(s)) = Len(s) - 1
         /\ \A i \in 1..(Len(s) - 1) : Pop(s)[i] = s[i]
<1>1. Len(s) \in Nat \ {0}
  BY EmptySeq
<1>2. Pop(s) = SubSeq(s, 1, Len(s) - 1) /\ Top(s) = s[Len(s)]
  BY DEF Pop, Top
<1>3. s[Len(s)] \in S /\ \A i \in 1..Len(s) : s[i] \in S
  BY <1>1, ElementOfSeq
<1>4. 1..(Len(s) - 1) \subseteq 1..Len(s)
  BY <1>1
<1>5. /\ SubSeq(s, 1, Len(s) - 1) \in Seq(S)
      /\ Len(SubSeq(s, 1, Len(s) - 1)) = Len(s) - 1
      /\ \A i \in 1..(Len(s) - 1) : SubSeq(s, 1, Len(s) - 1)[i] = s[i]
  <2> DEFINE m == Len(s) - 1
  <2>1. m \in Int /\ \A i \in 1..m : s[i] \in S
    BY <1>1, <1>3, <1>4
  <2>2. m >= 0 /\ m - 1 + 1 = m /\ \A i \in 1..m : 1 + i - 1 = i
    BY <1>1
  <2> HIDE DEF m
  <2>3. /\ SubSeq(s, 1, m) \in Seq(S)
        /\ Len(SubSeq(s, 1, m)) = IF 1 <= m THEN m - 1 + 1 ELSE 0
        /\ \A i \in 1..(m - 1 + 1) : SubSeq(s, 1, m)[i] = s[1 + i - 1]
    BY <2>1, SubSeqProperties
  <2>4. Len(SubSeq(s, 1, m)) = m
    BY <2>1, <2>2, <2>3
  <2>5. \A i \in 1..m : SubSeq(s, 1, m)[i] = s[i]
    BY <2>1, <2>2, <2>3
  <2> QED
    BY <2>3, <2>4, <2>5 DEF m
<1> QED
  BY <1>1, <1>2, <1>3, <1>5

(* Popping a stack without duplicates removes exactly its top.             *)
LEMMA PopRange ==
  ASSUME NEW S, NEW s \in Seq(S), s # <<>>, IsInjective(s)
  PROVE  /\ IsInjective(Pop(s))
         /\ Range(Pop(s)) = Range(s) \ {Top(s)}
         /\ Top(s) \in Range(s)
<1> DEFINE n == Len(s)
<1>1. /\ n \in Nat \ {0} /\ Pop(s) \in Seq(S) /\ Len(Pop(s)) = n - 1
      /\ \A i \in 1..(n - 1) : Pop(s)[i] = s[i]
  BY PopSeq
<1>2. DOMAIN s = 1..n /\ DOMAIN Pop(s) = 1..(n - 1)
  BY <1>1, LenProperties
<1>3. Top(s) = s[n]
  BY DEF Top
<1> HIDE DEF n
<1>4. \A i, j \in 1..n : s[i] = s[j] => i = j
  BY <1>2 DEF IsInjective
<1>5. IsInjective(Pop(s))
  BY <1>1, <1>2, <1>4 DEF IsInjective
<1>6. Range(s) = {s[i] : i \in 1..n} /\ Range(Pop(s)) = {s[i] : i \in 1..(n - 1)}
  BY <1>1, <1>2 DEF Range
<1>7. {s[i] : i \in 1..(n - 1)} = {s[i] : i \in 1..n} \ {s[n]}
  BY <1>1, <1>4
<1>8. Range(Pop(s)) = Range(s) \ {Top(s)}
  BY ONLY <1>3, <1>6, <1>7, Zenon
<1>9. n \in 1..n
  BY <1>1
<1>10. Top(s) \in Range(s)
  BY ONLY <1>3, <1>6, <1>9
<1> QED
  BY ONLY <1>5, <1>8, <1>10

(* What a sequence contains after an Append.                               *)
LEMMA PushElement ==
  ASSUME NEW S, NEW s \in Seq(S), NEW x \in S
  PROVE  /\ Append(s, x) \in Seq(S)
         /\ Range(Append(s, x)) = Range(s) \cup {x}
<1> DEFINE n == Len(s)
           a == Append(s, x)
<1>1. /\ n \in Nat /\ a \in Seq(S) /\ Len(a) = n + 1
      /\ \A i \in 1..n : a[i] = s[i]
      /\ a[n + 1] = x
  BY AppendProperties, LenProperties
<1>2. DOMAIN s = 1..n /\ DOMAIN a = 1..(n + 1)
  BY <1>1, LenProperties
<1> HIDE DEF n, a
<1>3. Range(a) = {a[i] : i \in 1..(n + 1)} /\ Range(s) = {s[i] : i \in 1..n}
  BY <1>2 DEF Range
<1>4. Range(a) = Range(s) \cup {x}
  BY <1>1, <1>3
<1> QED
  BY <1>1, <1>4 DEF a

(* Pushing a new element keeps a stack without duplicates.                 *)
LEMMA PushRange ==
  ASSUME NEW S, NEW s \in Seq(S), NEW x \in S, x \notin Range(s), IsInjective(s)
  PROVE  /\ Append(s, x) \in Seq(S)
         /\ IsInjective(Append(s, x))
         /\ Range(Append(s, x)) = Range(s) \cup {x}
<1> DEFINE n == Len(s)
           a == Append(s, x)
<1>1. /\ n \in Nat /\ a \in Seq(S) /\ Len(a) = n + 1
      /\ \A i \in 1..n : a[i] = s[i]
      /\ a[n + 1] = x
  BY AppendProperties, LenProperties
<1>2. DOMAIN s = 1..n /\ DOMAIN a = 1..(n + 1)
  BY <1>1, LenProperties
<1> HIDE DEF n, a
<1>3. \A i, j \in 1..n : s[i] = s[j] => i = j
  BY <1>2 DEF IsInjective
<1>4. \A i \in 1..n : s[i] # x
  BY <1>2 DEF Range
<1>5. IsInjective(a)
  BY <1>1, <1>2, <1>3, <1>4 DEF IsInjective
<1> QED
  BY <1>1, <1>5, PushElement DEF a

-----------------------------------------------------------------------------
(* The inductive invariant.  Two facts are added to the properties: an     *)
(* allocation inside Setup or Release holds its lease (and a released one  *)
(* was acquired and has no cleanup left), and an element of the nft sets   *)
(* has an owner whose Release, if one is running, has either not reached   *)
(* the firewall step or has kept it for the next one.                      *)
Busy ==
  \A o \in Objs : /\ phase[o] # "unlocked" => Held(o)
                  /\ released[o] => vm[o] # NoVm /\ cleanup[o] = <<>>

Pending(o) ==
  /\ Held(o) /\ "firewall" \in Range(cleanup[o])
  /\ phase[o] = "release" =>
       \/ "firewall" \in Range(remaining[o])
       \/ \E i \in 1..left[o] : i <= Len(cleanup[o]) /\ cleanup[o][i] = "firewall"

ElementsPending ==
  /\ \A n \in guestTaps : \E o \in Objs : Pending(o) /\ tapName(o) = n
  /\ \A e \in allowed : \E o \in Objs : Pending(o) /\ e = <<tapName(o), subnet[o]>>

PoolInv == NetTypeOK /\ Busy /\ LeasesDisjoint /\ PoolAccounted
NetInv == PoolInv /\ ElementsPending
-----------------------------------------------------------------------------
(* The pool starts with every address on its stacks, each once.            *)
LEMMA IpamInitPool ==
  ASSUME IpamInit
  PROVE  /\ IpamTypeOK
         /\ IsInjective(freeSubnets) /\ Range(freeSubnets) = Subnets
         /\ IsInjective(freeCIDs) /\ Range(freeCIDs) = CIDs
<1> DEFINE k == MaxGuestCID - MinGuestCID + 1
<1>1. MaxSubnets \in Nat /\ k \in Nat /\ MinGuestCID \in Nat /\ MaxGuestCID \in Nat
  BY SubnetsAssumption, CIDsAssumption
<1>2. freeSubnets \in [1..MaxSubnets -> Subnets] /\ freeCIDs \in [1..k -> CIDs]
  BY <1>1 DEF IpamInit, Subnets, CIDs
<1>3. freeSubnets \in Seq(Subnets) /\ freeCIDs \in Seq(CIDs)
  BY <1>1, <1>2, SeqDef
<1>4. IsInjective(freeSubnets) /\ IsInjective(freeCIDs)
  BY <1>1 DEF IpamInit, IsInjective
<1>5. Range(freeSubnets) = Subnets
  <2>1. \A x \in Subnets : x + 1 \in 1..MaxSubnets /\ freeSubnets[x + 1] = x
    BY <1>1 DEF IpamInit, Subnets
  <2> QED
    BY <1>2, <2>1 DEF Range
<1>6. Range(freeCIDs) = CIDs
  <2>1. \A x \in CIDs : /\ x - MinGuestCID + 1 \in 1..k
                       /\ freeCIDs[x - MinGuestCID + 1] = x
    BY <1>1 DEF IpamInit, CIDs
  <2> QED
    BY <1>2, <2>1 DEF Range
<1> QED
  BY <1>3, <1>4, <1>5, <1>6 DEF IpamInit, IpamTypeOK

(* The network invariant holds at the start.                               *)
LEMMA InitInv ==
  ASSUME NetInit
  PROVE  NetInv
<1>1. IpamInit
  BY DEF NetInit
<1>2. NetTypeOK
  <2>1. 0 \in Subnets /\ MinGuestCID \in CIDs
    BY SubnetsAssumption, CIDsAssumption DEF Subnets, CIDs
  <2> QED
    BY <1>1, <2>1, IpamInitPool, EmptySeq, FaultsAssumption, Zenon DEF NetInit, NetTypeOK, Phases
<1>3. \A o \in Objs : ~Held(o) /\ phase[o] = "unlocked" /\ ~released[o]
  BY DEF NetInit, Held
<1>4. Busy /\ LeasesDisjoint
  BY <1>3 DEF Busy, LeasesDisjoint
<1>5. PoolAccounted
  BY <1>1, <1>3, IpamInitPool DEF IpamInit, PoolAccounted
<1>6. ElementsPending
  BY DEF NetInit, ElementsPending
<1> QED
  BY <1>2, <1>4, <1>5, <1>6 DEF NetInv, PoolInv
-----------------------------------------------------------------------------
(* Acquire: the popped addresses are in no other lease, because the free   *)
(* stacks hold only addresses outside the used maps.                       *)
LEMMA AcquireInv ==
  ASSUME NetInv, NEW o \in Objs, NEW v \in VmIds, Acquire(o, v)
  PROVE  NetInv'
<1> DEFINE s == Top(freeSubnets)
           c == Top(freeCIDs)
<1> USE DEF NetInv, PoolInv
<1>1. /\ freeSubnets \in Seq(Subnets) /\ freeSubnets # <<>> /\ IsInjective(freeSubnets)
      /\ freeCIDs \in Seq(CIDs) /\ freeCIDs # <<>> /\ IsInjective(freeCIDs)
  BY DEF Acquire, PoolAllocate, PoolExhausted, NetTypeOK, IpamTypeOK, PoolAccounted
<1>2. /\ s \in Subnets /\ freeSubnets' \in Seq(Subnets)
      /\ c \in CIDs /\ freeCIDs' \in Seq(CIDs)
  BY <1>1, PopSeq, Zenon DEF Acquire, PoolAllocate
<1>3. /\ IsInjective(freeSubnets') /\ Range(freeSubnets') = Range(freeSubnets) \ {s}
      /\ s \in Range(freeSubnets)
      /\ IsInjective(freeCIDs') /\ Range(freeCIDs') = Range(freeCIDs) \ {c}
      /\ c \in Range(freeCIDs)
  BY <1>1, PopRange, Zenon DEF Acquire, PoolAllocate
<1> HIDE DEF s, c
<1>4. /\ vm' = [vm EXCEPT ![o] = v] /\ subnet' = [subnet EXCEPT ![o] = s]
      /\ cid' = [cid EXCEPT ![o] = c] /\ vm[o] = NoVm /\ v # NoVm
      /\ usedSubnets' = usedSubnets \cup {s} /\ usedCIDs' = usedCIDs \cup {c}
      /\ UNCHANGED <<cleanup, released, phase, left, remaining, linkVars, faults>>
  BY NilAssumption, Zenon DEF Acquire, PoolAllocate, s, c
<1>5. NetTypeOK'
  BY <1>2, <1>4 DEF NetTypeOK, IpamTypeOK, linkVars
<1>6. /\ \A p \in Objs : p # o => /\ Held(p)' = Held(p) /\ subnet'[p] = subnet[p]
                                  /\ cid'[p] = cid[p] /\ vm'[p] = vm[p]
      /\ subnet'[o] = s /\ cid'[o] = c
      /\ ~Held(o)
  BY <1>4, Zenon DEF Held, NetTypeOK
<1>7. Busy'
  BY <1>4, <1>6 DEF Busy
<1>8. s \notin usedSubnets /\ c \notin usedCIDs
  BY <1>3, Zenon DEF PoolAccounted
<1>9. \A p \in Objs : Held(p) => subnet[p] # s /\ cid[p] # c
  BY <1>8 DEF PoolAccounted
<1>10. LeasesDisjoint'
  BY <1>6, <1>9 DEF LeasesDisjoint
<1>11. Held(o)'
  BY <1>4 DEF Held, NetTypeOK, Busy
<1>12. PoolAccounted'
  <2>1. usedSubnets' = {subnet'[p] : p \in {q \in Objs : Held(q)'}}
    BY <1>4, <1>6, <1>11 DEF PoolAccounted
  <2>2. usedCIDs' = {cid'[p] : p \in {q \in Objs : Held(q)'}}
    BY <1>4, <1>6, <1>11, Zenon DEF PoolAccounted
  <2>3. /\ Range(freeSubnets') = Subnets \ usedSubnets'
        /\ Range(freeCIDs') = CIDs \ usedCIDs'
    BY <1>3, <1>4 DEF PoolAccounted
  <2> QED
    BY <1>3, <2>1, <2>2, <2>3, Zenon DEF PoolAccounted
<1>13. ElementsPending'
  <2>1. \A p \in Objs : Pending(p) =>
          Pending(p)' /\ tapName(p)' = tapName(p) /\ subnet'[p] = subnet[p]
    BY <1>4, <1>6 DEF Pending, tapName
  <2> QED
    BY <1>4, <2>1, Zenon DEF ElementsPending, linkVars
<1> QED
  BY <1>5, <1>7, <1>10, <1>12, <1>13, Zenon
(* A step that changes neither the pool nor who holds which lease keeps    *)
(* the accounting.                                                         *)
LEMMA PoolKept ==
  ASSUME NetInv, UNCHANGED <<ipamVars, vm, subnet, cid, released>>
  PROVE  /\ IpamTypeOK' /\ LeasesDisjoint' /\ PoolAccounted'
         /\ \A p \in Objs : Held(p)' = Held(p) /\ tapName(p)' = tapName(p)
<1>1. \A p : Held(p)' = Held(p) /\ tapName(p)' = tapName(p)
  BY DEF Held, tapName
<1>2. IpamTypeOK'
  BY DEF NetInv, PoolInv, NetTypeOK, IpamTypeOK, ipamVars
<1>3. LeasesDisjoint'
  BY <1>1 DEF NetInv, PoolInv, LeasesDisjoint
<1>4. PoolAccounted'
  BY <1>1 DEF NetInv, PoolInv, PoolAccounted, ipamVars
<1> QED
  BY <1>1, <1>2, <1>3, <1>4

(* Setup.                                                                  *)
LEMMA SetupTAPInv ==
  ASSUME NetInv, NEW o \in Objs, SetupTAP(o)
  PROVE  NetInv'
<1> USE DEF NetInv, PoolInv
<1>1. UNCHANGED <<ipamVars, vm, subnet, cid, released>>
  BY DEF SetupTAP
<1>2. /\ IpamTypeOK' /\ LeasesDisjoint' /\ PoolAccounted'
      /\ \A p \in Objs : Held(p)' = Held(p) /\ tapName(p)' = tapName(p)
  BY <1>1, PoolKept
<1>3. Held(o) /\ tapName(o) \in TapNames
  BY TapAssumption DEF SetupTAP, SetupEnabled, Held, tapName, NetTypeOK
<1>4. NetTypeOK'
  BY <1>2, <1>3 DEF SetupTAP, NetTypeOK, Phases, Steps
<1>5. Busy'
  <2>1. ~released[o]
    BY <1>3 DEF Held
  <2> QED
    BY <1>1, <1>2, <1>3, <2>1 DEF SetupTAP, Busy, NetTypeOK
<1>6. ElementsPending'
  <2>1. ~Pending(o)
    BY DEF SetupTAP, SetupEnabled, Pending, Range
  <2>2. \A p \in Objs : Pending(p) => Pending(p)'
    BY <1>2, <2>1, Zenon DEF SetupTAP, Pending, NetTypeOK
  <2> QED
    BY <1>1, <1>2, <2>2, Zenon DEF ElementsPending, SetupTAP
<1> QED
  BY <1>2, <1>4, <1>5, <1>6

(* SetupTAPFails keeps the network invariant.                              *)
LEMMA SetupTAPFailsInv ==
  ASSUME NetInv, NEW o \in Objs, SetupTAPFails(o)
  PROVE  NetInv'
<1> USE DEF NetInv, PoolInv
<1>1. UNCHANGED <<ipamVars, leaseVars, guestTaps, allowed>>
  BY DEF SetupTAPFails
<1>2. /\ IpamTypeOK' /\ LeasesDisjoint' /\ PoolAccounted'
      /\ \A p \in Objs : Held(p)' = Held(p) /\ tapName(p)' = tapName(p)
  BY <1>1, PoolKept, Zenon DEF leaseVars
<1>3. tapName(o) \in TapNames
  BY TapAssumption DEF SetupTAPFails, SetupEnabled, tapName, NetTypeOK
<1>4. NetTypeOK'
  <2>1. taps \in [TapNames -> Objs \cup {NoObj}] /\ faults \in Nat
    BY DEF NetTypeOK
  <2>2. faults' \in Nat
    BY <2>1 DEF SetupTAPFails, Fail
  <2>3. taps' = taps \/ taps' = [taps EXCEPT ![tapName(o)] = o]
    BY DEF SetupTAPFails
  <2>4. taps' \in [TapNames -> Objs \cup {NoObj}]
    BY <1>3, <2>1, <2>3, Zenon
  <2> QED
    BY <1>1, <1>2, <2>2, <2>4, Zenon DEF NetTypeOK, leaseVars
<1>5. Busy'
  BY <1>1, <1>2, Zenon DEF Busy, leaseVars
<1>6. ElementsPending'
  <2>1. \A p \in Objs : Pending(p) => Pending(p)'
    BY <1>1, <1>2, Zenon DEF Pending, leaseVars
  <2> QED
    BY <1>1, <1>2, <2>1, Zenon DEF ElementsPending, leaseVars
<1> QED
  BY <1>2, <1>4, <1>5, <1>6

(* SetupFirewall keeps the network invariant.                              *)
LEMMA SetupFirewallInv ==
  ASSUME NetInv, NEW o \in Objs, SetupFirewall(o)
  PROVE  NetInv'
<1> USE DEF NetInv, PoolInv
<1>1. UNCHANGED <<ipamVars, vm, subnet, cid, released>>
  BY Zenon DEF SetupFirewall
<1>2. /\ IpamTypeOK' /\ LeasesDisjoint' /\ PoolAccounted'
      /\ \A p \in Objs : Held(p)' = Held(p) /\ tapName(p)' = tapName(p)
  BY <1>1, PoolKept
<1>3. Held(o) /\ tapName(o) \in TapNames
  BY TapAssumption DEF SetupFirewall, Busy, Held, tapName, NetTypeOK
<1>4. /\ cleanup'[o] \in Seq(Steps) /\ "firewall" \in Range(cleanup'[o])
      /\ cleanup' = [cleanup EXCEPT ![o] = cleanup'[o]]
  <2>1. cleanup[o] \in Seq(Steps) /\ cleanup'[o] = Append(cleanup[o], "firewall")
    BY Zenon DEF SetupFirewall, NetTypeOK
  <2>2. cleanup' = [cleanup EXCEPT ![o] = Append(cleanup[o], "firewall")]
    BY Zenon DEF SetupFirewall
  <2>3. "firewall" \in Steps
    BY DEF Steps
  <2>4. cleanup'[o] \in Seq(Steps) /\ "firewall" \in Range(cleanup'[o])
    BY <2>1, <2>3, PushElement
  <2> QED
    BY <2>1, <2>2, <2>4, Zenon
<1>5. NetTypeOK'
  BY <1>2, <1>3, <1>4 DEF SetupFirewall, NetTypeOK, Phases
<1>6. Busy'
  <2>1. ~released[o]
    BY <1>3 DEF Held
  <2> QED
    BY <1>1, <1>2, <1>3, <2>1, Zenon DEF SetupFirewall, Busy, NetTypeOK
<1>7. ElementsPending'
  <2>1. Pending(o)'
    BY <1>2, <1>3, <1>4, Zenon DEF SetupFirewall, Pending, NetTypeOK
  <2>2. \A p \in Objs : p # o /\ Pending(p) => Pending(p)'
    BY <1>2, Zenon DEF SetupFirewall, Pending, NetTypeOK
  <2> QED
    BY <1>1, <1>2, <2>1, <2>2, Zenon DEF ElementsPending, SetupFirewall
<1> QED
  BY <1>2, <1>5, <1>6, <1>7

(* SetupFirewallFails keeps the network invariant.                         *)
LEMMA SetupFirewallFailsInv ==
  ASSUME NetInv, NEW o \in Objs, SetupFirewallFails(o)
  PROVE  NetInv'
<1> USE DEF NetInv, PoolInv
<1>1. UNCHANGED <<ipamVars, vm, subnet, cid, released, linkVars>>
  BY DEF SetupFirewallFails
<1>2. /\ IpamTypeOK' /\ LeasesDisjoint' /\ PoolAccounted'
      /\ \A p \in Objs : Held(p)' = Held(p) /\ tapName(p)' = tapName(p)
  BY <1>1, PoolKept, Zenon
<1>3. NetTypeOK'
  BY <1>2 DEF SetupFirewallFails, Fail, NetTypeOK, Phases, linkVars
<1>4. Busy'
  BY <1>1, <1>2 DEF SetupFirewallFails, Busy, NetTypeOK
<1>5. ElementsPending'
  <2>1. \A p \in Objs : Pending(p) => Pending(p)'
    BY <1>2, Zenon DEF SetupFirewallFails, Pending, NetTypeOK
  <2> QED
    BY <1>1, <1>2, <2>1, Zenon DEF ElementsPending, linkVars
<1> QED
  BY <1>2, <1>3, <1>4, <1>5
-----------------------------------------------------------------------------
(* Release.                                                                *)
LEMMA ReleaseBeginInv ==
  ASSUME NetInv, NEW o \in Objs, ReleaseBegin(o)
  PROVE  NetInv'
<1> USE DEF NetInv, PoolInv
<1>1. UNCHANGED <<ipamVars, vm, subnet, cid, released, cleanup, linkVars, faults>>
  BY DEF ReleaseBegin
<1>2. /\ IpamTypeOK' /\ LeasesDisjoint' /\ PoolAccounted'
      /\ \A p \in Objs : Held(p)' = Held(p) /\ tapName(p)' = tapName(p)
  BY <1>1, PoolKept
<1>3. cleanup[o] \in Seq(Steps)
  BY Zenon DEF NetTypeOK
<1>4. Len(cleanup[o]) \in Nat /\ DOMAIN cleanup[o] = 1..Len(cleanup[o])
  BY <1>3, LenProperties, Zenon
<1>5. NetTypeOK'
  BY <1>1, <1>2, <1>4, EmptySeq, Zenon DEF ReleaseBegin, NetTypeOK, Phases, linkVars
<1>6. Busy'
  BY <1>1, <1>2 DEF ReleaseBegin, Busy, NetTypeOK
<1>7. ElementsPending'
  <2>1. Pending(o) => Pending(o)'
    <3>1. left'[o] = Len(cleanup[o]) /\ cleanup' = cleanup
      BY DEF ReleaseBegin, NetTypeOK
    <3>2. "firewall" \in Range(cleanup[o]) =>
            \E i \in 1..Len(cleanup[o]) : cleanup[o][i] = "firewall"
      BY <1>4 DEF Range
    <3>3. \A i \in 1..Len(cleanup[o]) : i <= Len(cleanup[o])
      BY <1>4
    <3> QED
      BY <1>2, <3>1, <3>2, <3>3, Zenon DEF Pending
  <2>2. \A p \in Objs : p # o /\ Pending(p) => Pending(p)'
    BY <1>2 DEF ReleaseBegin, Pending, NetTypeOK
  <2> QED
    BY <1>1, <1>2, <2>1, <2>2, ZenonT(30) DEF ElementsPending, linkVars
<1> QED
  BY <1>2, <1>5, <1>6, <1>7

(* What every step of the cleanup loop keeps: it moves one item down, and  *)
(* an allocation other than o is not touched.                              *)
LEMMA ReleaseAtKeeps ==
  ASSUME NetInv, NEW o \in Objs, NEW step \in Steps, ReleaseAt(o, step)
  PROVE  /\ UNCHANGED <<ipamVars, vm, subnet, cid, released, cleanup, phase>>
         /\ left[o] \in Nat \ {0} /\ left' = [left EXCEPT ![o] = left[o] - 1]
         /\ phase[o] = "release" /\ cleanup[o][left[o]] = step
         /\ left' \in [Objs -> Nat]
<1>1. left \in [Objs -> Nat]
  BY Zenon DEF NetInv, PoolInv, NetTypeOK
<1>2. /\ UNCHANGED <<ipamVars, vm, subnet, cid, released, cleanup, phase>>
      /\ phase[o] = "release" /\ cleanup[o][left[o]] = step
  BY Zenon DEF ReleaseAt
<1>3. left[o] > 0 /\ left' = [left EXCEPT ![o] = left[o] - 1]
  BY Zenon DEF ReleaseAt
<1>4. left[o] \in Nat \ {0} /\ left[o] - 1 \in Nat
  BY <1>1, <1>3
<1>5. left' \in [Objs -> Nat]
  BY <1>1, <1>3, <1>4, Zenon
<1> QED
  BY <1>2, <1>3, <1>4, <1>5, Zenon

(* What is not the last item of a list is among those before it.           *)
LEMMA NotTheLast ==
  ASSUME NEW n \in Nat \ {0}, NEW f, NEW x, NEW y, f[n] = x, x # y
  PROVE  \A i \in 1..n : f[i] = y => i \in 1..n - 1
  OBVIOUS

(* CleanupTAP keeps the network invariant.                                 *)
LEMMA CleanupTAPInv ==
  ASSUME NetInv, NEW o \in Objs, CleanupTAP(o)
  PROVE  NetInv'
<1>1. /\ UNCHANGED <<ipamVars, vm, subnet, cid, released, cleanup, phase>>
      /\ left[o] \in Nat \ {0} /\ left' = [left EXCEPT ![o] = left[o] - 1]
      /\ phase[o] = "release" /\ cleanup[o][left[o]] = "tap"
      /\ left' \in [Objs -> Nat]
  <2>1. ReleaseAt(o, "tap") /\ "tap" \in Steps
    BY Zenon DEF CleanupTAP, Steps
  <2> QED
    BY <2>1, ReleaseAtKeeps, Zenon
<1>2. /\ IpamTypeOK' /\ LeasesDisjoint' /\ PoolAccounted'
      /\ \A p \in Objs : Held(p)' = Held(p) /\ tapName(p)' = tapName(p)
  BY <1>1, PoolKept, Zenon
<1> USE DEF NetInv, PoolInv
<1>3. tapName(o) \in TapNames
  BY <1>1, TapAssumption, Zenon DEF Busy, Held, tapName, NetTypeOK
<1>4. NetTypeOK'
  <2>1. taps' \in [TapNames -> Objs \cup {NoObj}]
    BY <1>3, Zenon DEF CleanupTAP, NetTypeOK
  <2> QED
    BY <1>1, <1>2, <2>1, Zenon DEF CleanupTAP, NetTypeOK
<1>5. Busy'
  BY <1>1, <1>2, Zenon DEF Busy
<1>6. ElementsPending'
  <2>1. UNCHANGED <<remaining, guestTaps, allowed>>
    BY Zenon DEF CleanupTAP
  <2>2. Pending(o) => Pending(o)'
    <3>1. left'[o] = left[o] - 1
      BY <1>1, Zenon DEF NetTypeOK
    <3>2. left[o] \in Nat \ {0} /\ cleanup[o][left[o]] = "tap" /\ "tap" # "firewall"
      BY <1>1, Zenon
    <3>3. \A i \in 1..left[o] : cleanup[o][i] = "firewall" => i \in 1..left'[o]
      BY <3>1, <3>2, NotTheLast, Zenon
    <3> QED
      BY <1>1, <1>2, <2>1, <3>3, Zenon DEF Pending
  <2>3. \A p \in Objs : p # o /\ Pending(p) => Pending(p)'
    <3>1. left \in [Objs -> Nat]
      BY Zenon DEF NetTypeOK
    <3> HIDE DEF NetInv, PoolInv
    <3> QED
      BY <1>1, <1>2, <2>1, <3>1, Zenon DEF Pending
  <2> QED
    BY <1>1, <1>2, <2>1, <2>2, <2>3, Zenon DEF ElementsPending
<1> QED
  BY <1>2, <1>4, <1>5, <1>6

(* CleanupFirewall keeps the network invariant.                            *)
LEMMA CleanupFirewallInv ==
  ASSUME NetInv, NEW o \in Objs, CleanupFirewall(o)
  PROVE  NetInv'
<1>1. /\ UNCHANGED <<ipamVars, vm, subnet, cid, released, cleanup, phase>>
      /\ left[o] \in Nat \ {0} /\ left' = [left EXCEPT ![o] = left[o] - 1]
      /\ phase[o] = "release" /\ cleanup[o][left[o]] = "firewall"
      /\ left' \in [Objs -> Nat]
  <2>1. ReleaseAt(o, "firewall") /\ "firewall" \in Steps
    BY DEF CleanupFirewall, Steps
  <2> QED
    BY <2>1, ReleaseAtKeeps, Zenon
<1>2. /\ IpamTypeOK' /\ LeasesDisjoint' /\ PoolAccounted'
      /\ \A p \in Objs : Held(p)' = Held(p) /\ tapName(p)' = tapName(p)
  BY <1>1, PoolKept, Zenon
<1> USE DEF NetInv, PoolInv
<1>3. NetTypeOK'
  BY <1>1, <1>2, Zenon DEF CleanupFirewall, NetTypeOK
<1>4. Busy'
  BY <1>1, <1>2, Zenon DEF Busy
<1>5. ElementsPending'
  <2>1. \A p \in Objs : p # o /\ Pending(p) => Pending(p)'
    BY <1>1, <1>2 DEF CleanupFirewall, Pending, NetTypeOK
  <2>2. /\ guestTaps' = guestTaps \ {tapName(o)}
        /\ allowed' = allowed \ {<<tapName(o), subnet[o]>>}
    BY DEF CleanupFirewall
  <2> QED
    BY <1>1, <1>2, <2>1, <2>2, Zenon DEF ElementsPending
<1> QED
  BY <1>2, <1>3, <1>4, <1>5

(* CleanupFails keeps the network invariant.                               *)
LEMMA CleanupFailsInv ==
  ASSUME NetInv, NEW o \in Objs, CleanupFails(o)
  PROVE  NetInv'
<1>1. PICK step \in Steps :
        /\ ReleaseAt(o, step)
        /\ remaining' = [remaining EXCEPT ![o] = Append(remaining[o], step)]
        /\ Fail(1) \/ UNCHANGED faults
        /\ UNCHANGED linkVars
  BY Zenon DEF CleanupFails
<1>2. /\ UNCHANGED <<ipamVars, vm, subnet, cid, released, cleanup, phase>>
      /\ left[o] \in Nat \ {0} /\ left' = [left EXCEPT ![o] = left[o] - 1]
      /\ phase[o] = "release" /\ cleanup[o][left[o]] = step
      /\ left' \in [Objs -> Nat]
  BY <1>1, ReleaseAtKeeps, Zenon
<1>3. /\ IpamTypeOK' /\ LeasesDisjoint' /\ PoolAccounted'
      /\ \A p \in Objs : Held(p)' = Held(p) /\ tapName(p)' = tapName(p)
  BY <1>2, PoolKept
<1> USE DEF NetInv, PoolInv
<1>4. remaining \in [Objs -> Seq(Steps)] /\ left \in [Objs -> Nat] /\ faults \in Nat
  BY DEF NetTypeOK
<1>5. /\ Append(remaining[o], step) \in Seq(Steps)
      /\ remaining'[o] = Append(remaining[o], step)
      /\ Range(remaining'[o]) = Range(remaining[o]) \cup {step}
  BY <1>1, <1>4, PushElement, ZenonT(30)
<1>6. faults' \in Nat
  BY <1>1, <1>4 DEF Fail
<1>7. NetTypeOK'
  <2>1. remaining' \in [Objs -> Seq(Steps)]
    BY <1>1, <1>4, <1>5, Zenon
  <2> QED
    BY <1>1, <1>2, <1>3, <1>6, <2>1, Zenon DEF NetTypeOK, linkVars
<1>8. Busy'
  BY <1>2, <1>3, Zenon DEF Busy
<1>9. ElementsPending'
  <2>1. Pending(o) => Pending(o)'
    <3>1. left'[o] = left[o] - 1
      BY <1>2, <1>4, Zenon
    <3>2. \A i \in 1..left[o] :
            cleanup[o][i] = "firewall" => i \in 1..left'[o] \/ step = "firewall"
      BY <1>2, <3>1
    <3> QED
      BY <1>2, <1>3, <1>5, <3>2, Zenon DEF Pending
  <2>2. \A p \in Objs : p # o /\ Pending(p) => Pending(p)'
    BY <1>1, <1>2, <1>3, <1>4, Zenon DEF Pending
  <2> QED
    BY <1>1, <1>2, <1>3, <2>1, <2>2, Zenon DEF ElementsPending, linkVars
<1> QED
  BY <1>3, <1>7, <1>8, <1>9, Zenon
(* ReleaseFails keeps the network invariant.                               *)
LEMMA ReleaseFailsInv ==
  ASSUME NetInv, NEW o \in Objs, ReleaseFails(o)
  PROVE  NetInv'
<1> USE DEF NetInv, PoolInv
<1>1. UNCHANGED <<ipamVars, vm, subnet, cid, released, left, linkVars, faults>>
  BY Zenon DEF ReleaseFails
<1>2. /\ IpamTypeOK' /\ LeasesDisjoint' /\ PoolAccounted'
      /\ \A p \in Objs : Held(p)' = Held(p) /\ tapName(p)' = tapName(p)
  BY <1>1, PoolKept
<1>3. NetTypeOK'
  BY <1>1, <1>2, EmptySeq, Zenon DEF ReleaseFails, NetTypeOK, Phases, linkVars
<1>4. Busy'
  <2>1. ~released[o]
    BY Zenon DEF ReleaseFails, Busy, Held
  <2> QED
    BY <1>1, <1>2, <2>1, Zenon DEF ReleaseFails, Busy, NetTypeOK
<1>5. ElementsPending'
  <2>1. Pending(o) => Pending(o)'
    <3>1. /\ phase[o] = "release" /\ left[o] = 0
          /\ cleanup'[o] = remaining[o] /\ phase'[o] = "unlocked"
      BY DEF ReleaseFails, NetTypeOK
    <3>2. ~(\E i \in 1..left[o] : TRUE)
      BY <3>1
    <3> QED
      BY <1>2, <3>1, <3>2, Zenon DEF Pending
  <2>2. \A p \in Objs : p # o /\ Pending(p) => Pending(p)'
    BY <1>1, <1>2 DEF ReleaseFails, Pending, NetTypeOK
  <2> QED
    BY <1>1, <1>2, <2>1, <2>2 DEF ElementsPending, linkVars
<1> QED
  BY <1>2, <1>3, <1>4, <1>5

(* ReleaseEnd: the addresses of o were marked used, because o held its     *)
(* lease, and no other holder has them, so they are pushed exactly once.   *)
LEMMA ReleaseEndInv ==
  ASSUME NetInv, NEW o \in Objs, ReleaseEnd(o)
  PROVE  NetInv'
<1> DEFINE s == subnet[o]
           c == cid[o]
<1> USE DEF NetInv, PoolInv
<1>1. /\ phase[o] = "release" /\ left[o] = 0 /\ remaining[o] = <<>>
      /\ cleanup' = [cleanup EXCEPT ![o] = <<>>]
      /\ released' = [released EXCEPT ![o] = TRUE]
      /\ phase' = [phase EXCEPT ![o] = "unlocked"]
      /\ PoolRelease(s, c)
      /\ UNCHANGED <<vm, subnet, cid, left, remaining, linkVars, faults>>
  BY Zenon DEF ReleaseEnd
<1>2. Held(o) /\ s \in Subnets /\ c \in CIDs
  BY <1>1, Zenon DEF Busy, NetTypeOK
<1>3. s \in usedSubnets /\ c \in usedCIDs
  BY <1>2, Zenon DEF PoolAccounted
<1>4. s \in 0..255
  BY <1>2, SubnetsAssumption DEF Subnets
<1> HIDE DEF s, c
<1>5. /\ usedSubnets' = usedSubnets \ {s} /\ freeSubnets' = Append(freeSubnets, s)
      /\ usedCIDs' = usedCIDs \ {c} /\ freeCIDs' = Append(freeCIDs, c)
  BY <1>1, <1>3, <1>4, Zenon DEF PoolRelease
<1>6. /\ freeSubnets \in Seq(Subnets) /\ IsInjective(freeSubnets)
      /\ Range(freeSubnets) = Subnets \ usedSubnets
      /\ freeCIDs \in Seq(CIDs) /\ IsInjective(freeCIDs)
      /\ Range(freeCIDs) = CIDs \ usedCIDs
      /\ usedSubnets \subseteq Subnets /\ usedCIDs \subseteq CIDs
  BY DEF NetTypeOK, IpamTypeOK, PoolAccounted
<1>7. /\ freeSubnets' \in Seq(Subnets) /\ IsInjective(freeSubnets')
      /\ Range(freeSubnets') = Range(freeSubnets) \cup {s}
  BY <1>2, <1>3, <1>5, <1>6, PushRange
<1>8. /\ freeCIDs' \in Seq(CIDs) /\ IsInjective(freeCIDs')
      /\ Range(freeCIDs') = Range(freeCIDs) \cup {c}
  BY <1>2, <1>3, <1>5, <1>6, PushRange
<1>9. IpamTypeOK'
  BY <1>5, <1>6, <1>7, <1>8, Zenon DEF IpamTypeOK
<1>10. NetTypeOK'
  BY <1>1, <1>9, EmptySeq, Zenon DEF NetTypeOK, Phases, linkVars
<1>11. /\ \A p \in Objs : p # o => Held(p)' = Held(p)
       /\ \A p \in Objs : tapName(p)' = tapName(p)
       /\ ~Held(o)'
  BY <1>1, Zenon DEF Held, tapName, NetTypeOK
<1>12. Busy'
  BY <1>1, <1>2, <1>11, Zenon DEF Busy, Held, NetTypeOK
<1>13. LeasesDisjoint'
  BY <1>1, <1>11, Zenon DEF LeasesDisjoint
<1>14. \A p \in Objs : p # o /\ Held(p) => subnet[p] # s /\ cid[p] # c
  BY <1>2, Zenon DEF LeasesDisjoint, s, c
<1>15. PoolAccounted'
  <2>1. {subnet[p] : p \in {q \in Objs : Held(q)'}} = usedSubnets \ {s}
    BY <1>2, <1>11, <1>14 DEF PoolAccounted, s
  <2>2. {cid[p] : p \in {q \in Objs : Held(q)'}} = usedCIDs \ {c}
    BY <1>2, <1>11, <1>14, Zenon DEF PoolAccounted, c
  <2>3. /\ Range(freeSubnets') = Subnets \ usedSubnets'
        /\ Range(freeCIDs') = CIDs \ usedCIDs'
    BY <1>2, <1>5, <1>6, <1>7, <1>8, Zenon
  <2>4. subnet' = subnet /\ cid' = cid
    BY <1>1, Zenon
  <2>5. /\ usedSubnets' = {subnet'[p] : p \in {q \in Objs : Held(q)'}}
        /\ usedCIDs' = {cid'[p] : p \in {q \in Objs : Held(q)'}}
    BY <1>5, <2>1, <2>2, <2>4, Zenon
  <2> QED
    BY <1>7, <1>8, <2>3, <2>5, Zenon DEF PoolAccounted
<1>16. ElementsPending'
  <2>1. ~Pending(o)
    <3> HIDE DEF NetInv, PoolInv
    <3>1. left[o] = 0 /\ remaining[o] = <<>> /\ phase[o] = "release"
      BY <1>1, Zenon
    <3>2. ~(\E i \in 1..left[o] : TRUE) /\ Range(remaining[o]) = {}
      BY <3>1 DEF Range
    <3> QED
      BY <3>1, <3>2, Zenon DEF Pending
  <2>2. \A p \in Objs : p # o /\ Pending(p) => Pending(p)'
    BY <1>1, <1>11 DEF Pending, NetTypeOK
  <2> QED
    BY <1>1, <1>11, <2>1, <2>2, Zenon DEF ElementsPending, linkVars
<1> QED
  BY <1>10, <1>12, <1>13, <1>15, <1>16, ZenonT(30)

(* A step that leaves the pool, the leases and the links alone, whatever   *)
(* it does to the fault budget.                                            *)
LEMMA QuietInv ==
  ASSUME NetInv, UNCHANGED <<ipamVars, leaseVars, linkVars>>, faults' \in Nat
  PROVE  NetInv'
<1> USE DEF NetInv, PoolInv
<1>1. /\ IpamTypeOK' /\ LeasesDisjoint' /\ PoolAccounted'
      /\ \A p \in Objs : Held(p)' = Held(p) /\ tapName(p)' = tapName(p)
  BY PoolKept, Zenon DEF leaseVars
<1>2. NetTypeOK'
  BY <1>1, Zenon DEF NetTypeOK, leaseVars, linkVars
<1>3. Busy'
  BY <1>1, Zenon DEF Busy, leaseVars
<1>4. ElementsPending'
  <2>1. \A p \in Objs : Pending(p) => Pending(p)'
    BY <1>1, Zenon DEF Pending, leaseVars
  <2> QED
    BY <1>1, <2>1, Zenon DEF ElementsPending, leaseVars, linkVars
<1> QED
  BY <1>1, <1>2, <1>3, <1>4, Zenon

-----------------------------------------------------------------------------
(* Every operation of an allocation keeps the invariant.                   *)
LEMMA NetStepInv ==
  ASSUME NetInv, NEW o \in Objs, NetStep(o)
  PROVE  NetInv'
<1>1. CASE \E v \in VmIds : Acquire(o, v)
  BY <1>1, AcquireInv, Zenon
<1>2. CASE UNCHANGED netVars
  BY <1>2, QuietInv DEF netVars, NetInv, PoolInv, NetTypeOK
<1>3. CASE SetupTAP(o)
  BY <1>3, SetupTAPInv
<1>4. CASE SetupTAPFails(o)
  BY <1>4, SetupTAPFailsInv, Zenon
<1>5. CASE SetupFirewall(o)
  BY <1>5, SetupFirewallInv
<1>6. CASE SetupFirewallFails(o)
  BY <1>6, SetupFirewallFailsInv
<1>7. CASE ReleaseBegin(o)
  BY <1>7, ReleaseBeginInv
<1>8. CASE CleanupTAP(o)
  BY <1>8, CleanupTAPInv
<1>9. CASE CleanupFirewall(o)
  BY <1>9, CleanupFirewallInv
<1>10. CASE CleanupFails(o)
  BY <1>10, CleanupFailsInv
<1>11. CASE ReleaseFails(o)
  BY <1>11, ReleaseFailsInv
<1>12. CASE ReleaseEnd(o)
  BY <1>12, ReleaseEndInv
<1> QED
  BY <1>1, <1>2, <1>3, <1>4, <1>5, <1>6, <1>7, <1>8, <1>9, <1>10, <1>11, <1>12, Zenon
     DEF NetStep, SetupRefused, ReleaseDone

(* The invariant gives the properties.                                     *)
LEMMA NetInvImplies ==
  ASSUME NetInv
  PROVE  NetTypeOK /\ LeasesDisjoint /\ PoolAccounted /\ FirewallOwned
<1>1. \A o \in Objs : Pending(o) => Held(o) /\ "firewall" \in Range(cleanup[o])
  BY Zenon DEF Pending
<1>2. FirewallOwned
  BY <1>1, Zenon DEF NetInv, ElementsPending, FirewallOwned
<1> QED
  BY <1>2, Zenon DEF NetInv, PoolInv

(* The network invariant holds in every reachable state.                   *)
LEMMA NetInvariance == NetSpec => []NetInv
<1>1. NetInit => NetInv
  BY InitInv
<1>2. NetInv /\ [NetNext]_netVars => NetInv'
  <2>1. ASSUME NetInv, UNCHANGED netVars PROVE NetInv'
    BY <2>1, QuietInv DEF netVars, NetInv, PoolInv, NetTypeOK
  <2> QED
    BY <2>1, NetStepInv, Zenon DEF NetNext
<1> QED
  BY <1>1, <1>2, PTL DEF NetSpec

(* The variables of an allocation and of the pool keep their types,        *)
(* however callers interleave Acquire, Setup and Release.                  *)
THEOREM NetTypeCorrect == NetSpec => []NetTypeOK
  BY NetInvariance, NetInvImplies, PTL

(* Leases that are held have distinct subnets and context ids (Allocate    *)
(* and Release of ipam.go, Release of allocation.go).                      *)
THEOREM LeasesStayDisjoint == NetSpec => []LeasesDisjoint
  BY NetInvariance, NetInvImplies, PTL

(* The pool neither loses an address nor gets one back twice.              *)
THEOREM PoolStaysAccounted == NetSpec => []PoolAccounted
  BY NetInvariance, NetInvImplies, PTL

(* An nft element always has an owner that holds its lease and still has   *)
(* the firewall cleanup to do, whichever kernel calls fail.                *)
THEOREM FirewallStaysOwned == NetSpec => []FirewallOwned
  BY NetInvariance, NetInvImplies, PTL

-----------------------------------------------------------------------------
(***************************************************************************)
(* Who owns what: leases, Firecracker processes, and what a stopped        *)
(* instance has left on the host.                                          *)
(***************************************************************************)

(* An instance that is ready, starting or running holds its lease.         *)
HoldInv ==
  /\ \A o \in Objs : state[o] \in {"configured", "starting", "running"} => Held(o)
  /\ \A t \in Callers : pc[t] \in {"firewall", "newMachine"} => Held(cur[t])

(* Only a Release ends a lease, of the instance in the caller's hand.      *)
LEMMA HeldKept ==
  ASSUME ManagerInv, NetTypeOK, NEW t \in Callers, Call(t) \/ Step(t)
  PROVE  /\ ~ReleaseStep(t) => \A o \in Objs : Held(o) => Held(o)'
         /\ \A o \in Objs : o # cur[t] /\ Held(o) => Held(o)'
<1> USE DEF Held
<1>1. CASE UNCHANGED <<vm, released>>
  BY <1>1, Zenon
<1>2. CASE CreateAcquire(t)
  <2>1. CASE \E o \in Objs : Acquire(o, arg[t])
    BY <2>1, Zenon DEF Acquire, NetTypeOK
  <2> QED
    BY <1>1, <1>2, <2>1, AcquireStep, Zenon DEF netVars, leaseVars
<1>3. CASE ReleaseStep(t)
  <2>1. UNCHANGED vm /\ \A o \in Objs : o # cur[t] => released'[o] = released[o]
    BY <1>3, Zenon DEF ReleaseStep, ReleaseBegin, ReleaseAt, CleanupTAP, CleanupFirewall,
       CleanupFails,
     ReleaseFails, ReleaseEnd, ReleaseDone, netVars, leaseVars, NetTypeOK
  <2> QED
    BY <1>3, <2>1, Zenon
<1>4. CASE ConfigureTAP(t) \/ ConfigureFirewall(t)
  BY <1>1, <1>4, Zenon DEF ConfigureTAP, ConfigureFirewall, SetupTAP, SetupTAPFails, SetupFirewall,
     SetupFirewallFails, leaseVars
<1>5. CASE Call(t)
  BY <1>1, <1>5, Zenon DEF Call, ProvisionVM, DestroyVM, Reconcile, netVars, leaseVars
<1> QED
  BY <1>1, <1>2, <1>3, <1>4, <1>5, Zenon DEF Step, CreateCheck, CreateInsert, ConfigureInvalid,
     ConfigureBegin, ConfigureMachine, ConfigureUnwound, Start, StartMachine, StartDone,
     StartFailed, Stop, StopVMM, StopSocket, StopEnd, Delete, ReconcileScan, ReconcileNext, netVars,
     leaseVars

(* A step of a caller keeps HoldInv.                                       *)
LEMMA HoldStep ==
  ASSUME ManagerInv, NetTypeOK, LockInv, HoldInv, NEW t \in Callers, Call(t) \/ Step(t),
         Frame(t), Kind(t)
  PROVE  HoldInv'
<1> DEFINE Ready == {"configured", "starting", "running"}
<1>1. \A u \in Callers : pc[u] \in {"firewall", "newMachine"} => cur[u] \in Objs
  BY Zenon DEF ManagerInv, InHand, NoInstance
<1>2. ReleaseStep(t) => /\ pc[t] \in {"undo", "unwind", "release"}
                        /\ state[cur[t]] \notin Ready /\ UNCHANGED state
  BY Zenon DEF ReleaseStep, instVars, LockInv, Locked, Private, Configuring, Stopping
<1>3. \A o \in Objs : state'[o] \in Ready => Held(o)'
  <2>1. \A o \in Objs : o # cur[t] /\ state'[o] \in Ready => Held(o)'
    BY HeldKept, Zenon DEF Frame, HoldInv
  <2>2. ASSUME cur[t] \in Objs, state'[cur[t]] \in Ready
        PROVE  Held(cur[t]) /\ ~ReleaseStep(t)
    <3>1. CASE Outside(t) \/ Inside(t)
      BY <1>2, <2>2, <3>1, Zenon DEF Outside, Inside, HoldInv
    <3>2. CASE Enter(t)
      BY <1>2, <2>2, <3>2, Zenon DEF Enter, HoldInv
    <3>3. CASE Exit(t)
      BY <1>2, <2>2, <3>3, Zenon DEF Exit, HoldInv, LockInv, Locked, Starting
    <3>4. CASE Inserted(t)
      BY <2>2, <3>4, Zenon DEF Inserted
    <3> QED
      BY <3>1, <3>2, <3>3, <3>4, Zenon DEF Kind
  <2> QED
    BY <2>1, <2>2, HeldKept, Zenon
<1>4. \A u \in Callers : u # t /\ pc'[u] \in {"firewall", "newMachine"} => Held(cur[u])'
  <2> SUFFICES ASSUME NEW u \in Callers, u # t, pc'[u] \in {"firewall", "newMachine"}
               PROVE  Held(cur[u])'
    OBVIOUS
  <2>1. pc[u] \in {"firewall", "newMachine"} /\ cur'[u] = cur[u] /\ Held(cur[u])
    BY Zenon DEF Frame, HoldInv
  <2>2. ReleaseStep(t) => cur[u] # cur[t]
    BY <1>2, <2>1, Zenon DEF LockInv, Private, OneActor, AtWork, Configuring, Stopping
  <2>3. vm'[cur[u]] # NoVm /\ ~released'[cur[u]]
    BY <1>1, <2>1, <2>2, HeldKept, Zenon DEF Held
  <2> QED
    BY <2>1, <2>3, Zenon DEF Held
<1>5. pc'[t] \in {"firewall", "newMachine"} => Held(cur[t])'
  <2> SUFFICES ASSUME pc'[t] \in {"firewall", "newMachine"}
               PROVE  Held(cur[t])'
    BY Zenon
  <2>1. Inside(t) /\ pc[t] \in Configuring /\ cur'[t] = cur[t]
    BY Zenon DEF Kind, Outside, Inside, Enter, Exit, Inserted, AtWork, Configuring, Stopping
  <2>2. ConfigureTAP(t) \/ ConfigureFirewall(t)
    <3>1. ~ReleaseStep(t)
      <4>1. pc[t] \in {"unwind", "release"} =>
              AfterRelease(t) \in {"unwound", "socket", "stopEnd"}
        BY DEF AfterRelease, ManagerInv, LocalTypeOK
      <4>2. ReleaseStep(t) => pc'[t] \in {pc[t], "unwound", "socket", "stopEnd", "idle", "next"}
        BY <4>1, GotoKeeps, LeaveKeeps, Zenon DEF ReleaseStep
      <4>3. ReleaseStep(t) => pc[t] \in {"undo", "unwind", "release"}
        BY Zenon DEF ReleaseStep
      <4> QED
        BY <4>2, <4>3, Zenon
    <3>2. ~ConfigureMachine(t) /\ ~ConfigureUnwound(t)
      <4>1. ConfigureMachine(t) \/ ConfigureUnwound(t) => pc'[t] \in {"start", "unwind", "stop"}
        BY GotoKeeps, Zenon DEF ConfigureMachine, ConfigureUnwound
      <4> QED
        BY <4>1, Zenon
    <3> QED
      BY <2>1, <3>1, <3>2, Zenon DEF Configuring, Call, ProvisionVM, DestroyVM, Reconcile, Step,
         CreateCheck, CreateAcquire, CreateInsert, ConfigureInvalid, ConfigureBegin, Start,
         StartMachine, StartDone, StartFailed, Stop, StopVMM, StopSocket, StopEnd, Delete,
         ReconcileScan, ReconcileNext
  <2>3. cur[t] \in Objs /\ ~ReleaseStep(t)
    BY <2>2, Zenon DEF ConfigureTAP, ConfigureFirewall, ReleaseStep, ManagerInv, InHand, NoInstance
  <2>4. Held(cur[t])
    <3>1. CASE ConfigureTAP(t)
      <4>1. ~(pc'[t] = "unwind")
        BY Zenon
      <4> QED
        BY <3>1, <4>1, GotoKeeps, Zenon DEF ConfigureTAP, SetupTAP, SetupEnabled, Held
    <3>2. CASE ConfigureFirewall(t)
      BY <3>2, Zenon DEF ConfigureFirewall, HoldInv
    <3> QED
      BY <2>2, <3>1, <3>2, Zenon
  <2>5. vm'[cur[t]] # NoVm /\ ~released'[cur[t]]
    BY <2>3, <2>4, HeldKept, Zenon DEF Held
  <2> QED
    BY <2>1, <2>5, ZenonT(30) DEF Held
<1> QED
  BY <1>3, <1>4, <1>5, Zenon DEF HoldInv

(* Every step keeps HoldInv: an instance between configuration and         *)
(* teardown holds its lease.                                               *)
LEMMA HoldNext ==
  ASSUME ManagerInv, NetTypeOK, LockInv, HoldInv, [Next]_vars
  PROVE  HoldInv'
<1>1. CASE Still
  BY <1>1, Zenon DEF Still, netVars, leaseVars, instVars, localVars, HoldInv, Held
<1>2. ASSUME NEW t \in Callers, Call(t) \/ Step(t)
      PROVE  HoldInv'
  BY <1>2, StepKind, HoldStep, Zenon DEF LockInv
<1> QED
  BY <1>1, <1>2, NextSplit, Zenon

-----------------------------------------------------------------------------
(* Every process that was not told to end can be reached through its       *)
(* instance's machine.                                                     *)
ProcInv ==
  /\ ProcessHandled
  /\ \A t \in Callers :
       /\ pc[t] \in Starting => machine[cur[t]]
       /\ pc[t] = "stopVMM" => ~stopped[t]
       /\ pc[t] \in {"release", "socket", "stopEnd"} /\ stopped[t] => cur[t] \notin Live

(* A step of a caller keeps ProcInv.                                       *)
LEMMA ProcStep ==
  ASSUME ManagerInv, ManagerInv', LockInv, ProcInv, NEW t \in Callers, Frame(t), Kind(t)
  PROVE  ProcInv'
<1> USE DEF ProcInv
<1>1. Live' \subseteq Objs
  BY Zenon DEF ManagerInv, LocalTypeOK, Live
<1>2. \A o \in Objs : o # cur[t] =>
        (machine'[o] <=> machine[o]) /\ (o \in Live' <=> o \in Live)
  BY Zenon DEF Frame
<1>3. cur[t] \in Live' => machine'[cur[t]]
  <2>1. CASE Outside(t) \/ Enter(t) \/ Inserted(t)
    BY <2>1, Zenon DEF Outside, Enter, Inserted, ProcessHandled, Live
  <2>2. CASE Inside(t)
    BY <2>2, Zenon DEF Inside, ProcessHandled, Live, Starting
  <2>3. CASE Exit(t)
    BY <2>3, Zenon DEF Exit, ProcessHandled, Live
  <2> QED
    BY <2>1, <2>2, <2>3, Zenon DEF Kind
<1>4. ASSUME NEW u \in Callers, u # t
      PROVE  /\ pc'[u] \in Starting => machine'[cur'[u]]
             /\ pc'[u] = "stopVMM" => ~stopped'[u]
             /\ pc'[u] \in {"release", "socket", "stopEnd"} /\ stopped'[u]
                  => cur'[u] \notin Live'
  <2>1. pc'[u] = pc[u] /\ cur'[u] = cur[u] /\ stopped'[u] = stopped[u]
    BY <1>4, Zenon DEF Frame
  <2>2. CASE pc[u] \in AtWork /\ cur[u] = cur[t]
    <3>1. pc[t] \notin AtWork
      BY <1>4, <2>2, Zenon DEF LockInv, OneActor
    <3>2. UNCHANGED <<machine, Live>>
      BY <3>1, Zenon DEF Kind, Outside, Inside, Enter, Exit, Inserted, AtWork, Configuring,
         Starting,
         Stopping
    <3> QED
      BY <2>1, <3>2, Zenon
  <2>3. CASE pc[u] \in AtWork /\ cur[u] # cur[t]
    <3>1. cur[u] \in Objs
      BY <2>3, Zenon DEF ManagerInv, InHand, NoInstance, AtWork, Configuring, Starting, Stopping
    <3> QED
      BY <1>2, <2>1, <2>3, <3>1, Zenon
  <2>4. CASE pc[u] \notin AtWork
    BY <2>1, <2>4, Zenon DEF AtWork, Starting, Stopping
  <2> QED
    BY <2>2, <2>3, <2>4, Zenon
<1>5. /\ pc'[t] \in Starting => machine'[cur'[t]]
      /\ pc'[t] = "stopVMM" => ~stopped'[t]
      /\ pc'[t] \in {"release", "socket", "stopEnd"} /\ stopped'[t] => cur'[t] \notin Live'
  <2> USE DEF AtWork, Configuring, Starting, Stopping
  <2>1. CASE Outside(t) \/ Exit(t)
    BY <2>1, Zenon DEF Outside, Exit
  <2>2. CASE Inserted(t)
    BY <2>2, Zenon DEF Inserted
  <2>3. CASE Inside(t)
    BY <2>3, Zenon DEF Inside
  <2>4. CASE Enter(t)
    BY <2>4, Zenon DEF Enter, ProcessHandled, Live
  <2> QED
    BY <2>1, <2>2, <2>3, <2>4, Zenon DEF Kind
<1>6. ProcessHandled'
  BY <1>1, <1>2, <1>3, Zenon DEF ProcessHandled, Live
<1> QED
  BY <1>4, <1>5, <1>6, Zenon

(* Every step keeps ProcInv: a process is reachable through its machine.   *)
LEMMA ProcNext ==
  ASSUME ManagerInv, LockInv, ProcInv, [Next]_vars
  PROVE  ProcInv'
<1>1. CASE Still
  BY <1>1, Zenon DEF Still, instVars, localVars, ProcInv, ProcessHandled, Live
<1>2. ASSUME NEW t \in Callers, Call(t) \/ Step(t)
      PROVE  ProcInv'
  BY <1>2, ManagerNext, StepKind, ProcStep, Zenon DEF LockInv
<1> QED
  BY <1>1, <1>2, NextSplit, Zenon

-----------------------------------------------------------------------------
(* A stopped instance has nothing left on the host, because a Stop without *)
(* an error so far has done each of its steps.                             *)
StoppedHost ==
  \A o \in Objs : state[o] = "stopped" =>
    released[o] /\ ~machine[o] /\ o \notin Live /\ \A v \in VmIds : sockets[v] # o

SocketsNamed == \A v \in VmIds : sockets[v] # NoObj => vm[sockets[v]] = v

StopProgress ==
  \A t \in Callers :
    /\ pc[t] \in {"release", "socket", "stopEnd"} => stopped[t] \/ err[t]
    /\ pc[t] \in {"socket", "stopEnd"} /\ ~err[t] => released[cur[t]]
    /\ pc[t] = "stopEnd" /\ ~err[t] => \A v \in VmIds : sockets[v] # cur[t]

CleanInv == StoppedHost /\ SocketsNamed /\ StopProgress

(* Only the process of a starting instance makes a socket.                 *)
LEMMA SocketStep ==
  ASSUME NEW t \in Callers, Kind(t)
  PROVE  \A v \in VmIds : \/ sockets'[v] \in {sockets[v], NoObj}
                          \/ pc[t] = "boot" /\ v = vm[cur[t]] /\ sockets'[v] = cur[t]
  BY Zenon DEF Kind, Outside, Inside, Enter, Exit, Inserted

(* A socket file is under the VM id of the instance that made it, after    *)
(* every step.                                                             *)
LEMMA SocketsKept ==
  ASSUME ManagerInv, LockInv, SocketsNamed, Monotone, NEW t \in Callers, Kind(t)
  PROVE  SocketsNamed'
<1> SUFFICES ASSUME NEW v \in VmIds, sockets'[v] # NoObj
             PROVE  vm'[sockets'[v]] = v
  BY Zenon DEF SocketsNamed
<1>1. v # NoVm
  BY NilAssumption, Zenon
<1>2. CASE sockets'[v] = sockets[v]
  <2>1. sockets[v] \in Objs /\ vm[sockets[v]] = v
    BY <1>2, Zenon DEF ManagerInv, LocalTypeOK, SocketsNamed
  <2> QED
    BY <1>1, <1>2, <2>1, Zenon DEF Monotone
<1>3. CASE pc[t] = "boot" /\ v = vm[cur[t]] /\ sockets'[v] = cur[t]
  <2>1. cur[t] \in Objs
    BY <1>3, Zenon DEF ManagerInv, InHand, NoInstance
  <2> QED
    BY <1>1, <1>3, <2>1, Zenon DEF Monotone
<1> QED
  BY <1>2, <1>3, SocketStep, Zenon

(* What is stopped has nothing left on the host, after every step.         *)
LEMMA StoppedKept ==
  ASSUME ManagerInv, LockInv, ProcInv, CleanInv, Monotone, NEW t \in Callers, Frame(t), Kind(t)
  PROVE  StoppedHost'
<1> SUFFICES ASSUME NEW o \in Objs, state'[o] = "stopped"
             PROVE  /\ released'[o] /\ ~machine'[o] /\ o \notin Live'
                    /\ \A v \in VmIds : sockets'[v] # o
  BY Zenon DEF StoppedHost
<1> USE DEF CleanInv
<1>1. CASE o # cur[t]
  <2>1. state[o] = "stopped" /\ machine'[o] = machine[o] /\ (o \in Live' <=> o \in Live)
    BY <1>1, Zenon DEF Frame
  <2>2. \A v \in VmIds : sockets'[v] # o
    <3>1. \A v \in VmIds : sockets'[v] \in {sockets[v], NoObj, cur[t]}
      BY SocketStep, Zenon
    <3> QED
      BY <1>1, <2>1, <3>1, NilAssumption, Zenon DEF StoppedHost
  <2> QED
    BY <2>1, <2>2, Zenon DEF StoppedHost, Monotone
<1>2. CASE o = cur[t] /\ state[o] = "stopped"
  <2>1. pc[t] \notin AtWork
    BY <1>2, Zenon DEF LockInv, Locked, AtWork
  <2>2. Outside(t)
    BY <1>2, <2>1, Zenon DEF Kind, Outside, Inside, Enter, Exit, Inserted, Stoppable, AtWork,
       Configuring,
       Starting, Stopping
  <2> QED
    BY <1>2, <2>2, Zenon DEF Outside, StoppedHost, Monotone
<1>3. CASE o = cur[t] /\ state[o] # "stopped"
  <2>1. /\ pc[t] = "stopEnd" /\ ~err[t] /\ UNCHANGED <<Live, sockets>>
        /\ machine'[cur[t]] <=> machine[cur[t]] /\ ~stopped[t]
    BY <1>3, Zenon DEF Kind, Outside, Inside, Enter, Exit, Inserted
  <2>2. stopped[t] /\ released[cur[t]] /\ \A v \in VmIds : sockets[v] # cur[t]
    BY <2>1, Zenon DEF StopProgress
  <2>3. cur[t] \notin Live
    BY <2>1, <2>2, Zenon DEF ProcInv
  <2> QED
    BY <1>3, <2>1, <2>2, <2>3, Zenon DEF Monotone
<1> QED
  BY <1>1, <1>2, <1>3, Zenon

(* The steps of a Stop.                                                    *)
Progress(t) ==
  /\ pc'[t] \in {"release", "socket", "stopEnd"} => stopped'[t] \/ err'[t]
  /\ pc'[t] \in {"socket", "stopEnd"} /\ ~err'[t] => released'[cur'[t]]
  /\ pc'[t] = "stopEnd" /\ ~err'[t] => \A v \in VmIds : sockets'[v] # cur'[t]

(* StopVMM and the removal of the socket make the progress that Stop       *)
(* records.                                                                *)
LEMMA StopProgressStep ==
  ASSUME ManagerInv, NetTypeOK, CleanInv, NEW t \in Callers, StopVMM(t) \/ StopSocket(t)
  PROVE  Progress(t)
<1> USE DEF ManagerInv, LocalTypeOK
<1>1. CASE StopVMM(t)
  BY <1>1, Zenon DEF StopVMM, Goto, Progress
<1>2. CASE StopSocket(t)
  <2>1. pc'[t] = "stopEnd" /\ cur[t] \in Objs /\ UNCHANGED <<stopped, cur, released>>
    BY <1>2, Zenon DEF StopSocket, Goto, leaseVars, InHand, NoInstance
  <2>2. CASE err' = [err EXCEPT ![t] = TRUE]
    BY <2>1, <2>2, Zenon DEF Progress
  <2>3. CASE sockets' = [sockets EXCEPT ![vm[cur[t]]] = NoObj] /\ UNCHANGED err
    <3>1. \A v \in VmIds : sockets'[v] # cur[t]
      <4>1. \A v \in VmIds : sockets[v] = cur[t] => v = vm[cur[t]]
        BY <2>1, NilAssumption, Zenon DEF CleanInv, SocketsNamed
      <4>2. \A v \in VmIds : sockets'[v] = IF v = vm[cur[t]] THEN NoObj ELSE sockets[v]
        BY <2>3, Zenon
      <4> QED
        BY <2>1, <4>1, <4>2, NilAssumption, Zenon
    <3> QED
      BY <1>2, <2>1, <2>3, <3>1, Zenon DEF StopSocket, Progress, CleanInv, StopProgress
  <2> QED
    BY <1>2, <2>2, <2>3, Zenon DEF StopSocket
<1> QED
  BY <1>1, <1>2, Zenon

(* The release of the lease makes the progress that Stop records.          *)
LEMMA ReleaseProgress ==
  ASSUME ManagerInv, NetTypeOK, CleanInv, NEW t \in Callers, ReleaseStep(t)
  PROVE  Progress(t)
<1> USE DEF ManagerInv, LocalTypeOK
<1>1. /\ UNCHANGED sockets /\ pc[t] \in {"undo", "unwind", "release"} /\ cur[t] \in Objs
      /\ pc[t] = "release" => stopped[t] \/ err[t]
  BY Zenon DEF ReleaseStep, hostVars, Live, InHand, NoInstance, CleanInv, StopProgress
<1>2. CASE UNCHANGED <<pc, err, stopped>>
  BY <1>1, <1>2, Zenon DEF Progress
<1>3. CASE Return(t)
  BY <1>3, LeaveKeeps, Zenon DEF Progress
<1>4. CASE /\ pc[t] # "undo" /\ err' = [err EXCEPT ![t] = TRUE]
  BY <1>4, Zenon DEF Progress
<1>5. CASE /\ pc[t] # "undo" /\ Goto(t, AfterRelease(t)) /\ UNCHANGED <<cur, err, stopped>>
           /\ ReleaseEnd(cur[t]) \/ ReleaseDone(cur[t])
  <2>1. released'[cur[t]]
    BY <1>1, <1>5, Zenon DEF ReleaseEnd, ReleaseDone, netVars, leaseVars, NetTypeOK
  <2>2. CASE pc[t] = "unwind"
    BY <1>5, <2>2, Zenon DEF AfterRelease, Goto, Progress
  <2>3. CASE pc[t] = "release" /\ stopped[t]
    <3>1. pc'[t] = "socket"
      BY <1>5, <2>3, Zenon DEF AfterRelease, Goto
    <3> QED
      BY <1>5, <2>1, <2>3, <3>1, Zenon DEF Progress
  <2>4. CASE pc[t] = "release" /\ ~stopped[t]
    BY <1>1, <1>5, <2>4, Zenon DEF Progress
  <2> QED
    BY <1>1, <1>5, <2>2, <2>3, <2>4, Zenon
<1> QED
  BY <1>2, <1>3, <1>4, <1>5, Zenon DEF ReleaseStep, localVars

(* What a running Stop has recorded stays true while others run.           *)
LEMMA ProgressKept ==
  ASSUME ManagerInv, NetTypeOK, LockInv, CleanInv, Monotone, NEW t \in Callers,
         Call(t) \/ Step(t), Frame(t), Kind(t)
  PROVE  StopProgress'
<1>1. ASSUME NEW u \in Callers, u # t
      PROVE  /\ pc'[u] \in {"release", "socket", "stopEnd"} => stopped'[u] \/ err'[u]
             /\ pc'[u] \in {"socket", "stopEnd"} /\ ~err'[u] => released'[cur'[u]]
             /\ pc'[u] = "stopEnd" /\ ~err'[u] => \A v \in VmIds : sockets'[v] # cur'[u]
  <2>1. pc'[u] = pc[u] /\ cur'[u] = cur[u] /\ stopped'[u] = stopped[u] /\ err'[u] = err[u]
    BY <1>1, Zenon DEF Frame
  <2>2. pc[u] \in {"socket", "stopEnd"} => cur[u] \in Objs
    BY Zenon DEF ManagerInv, InHand, NoInstance
  <2>3. pc[u] = "stopEnd" /\ pc[t] = "boot" => cur[u] # cur[t]
    BY <1>1, Zenon DEF LockInv, OneActor, AtWork, Starting, Stopping
  <2>4. pc[u] = "stopEnd" /\ ~err[u] => \A v \in VmIds : sockets'[v] # cur[u]
    <3>1. \A v \in VmIds : \/ sockets'[v] \in {sockets[v], NoObj}
                           \/ pc[t] = "boot" /\ sockets'[v] = cur[t]
      BY SocketStep, Zenon
    <3> QED
      BY <2>2, <2>3, <3>1, NilAssumption, Zenon DEF CleanInv, StopProgress
  <2>5. pc[u] \in {"socket", "stopEnd"} /\ ~err[u] => released'[cur[u]]
    BY <2>2, Zenon DEF CleanInv, StopProgress, Monotone
  <2> QED
    BY <2>1, <2>4, <2>5, Zenon DEF CleanInv, StopProgress
<1>2. Progress(t)
  <2>1. CASE pc'[t] \notin {"release", "socket", "stopEnd"}
    BY <2>1, Zenon DEF Progress
  <2>2. CASE Enter(t)
    BY <2>2, Zenon DEF Enter, Progress
  <2>3. CASE pc[t] \in Stopping /\ pc[t] # "stopEnd"
    BY <2>3, StopProgressStep, ReleaseProgress, Zenon DEF Stopping, Call, ProvisionVM, DestroyVM,
       Reconcile, Step, CreateCheck, CreateAcquire, CreateInsert, ConfigureInvalid,
       ConfigureBegin, ConfigureTAP, ConfigureFirewall, ConfigureMachine, ConfigureUnwound,
       Start, StartMachine, StartDone, StartFailed, Stop, StopEnd, Delete, ReconcileScan,
       ReconcileNext
  <2>4. CASE pc[t] = "stopEnd"
    BY <2>4, Zenon DEF Progress, Kind, Outside, Inside, Enter, Exit, Inserted, AtWork, Configuring,
       Stopping
  <2> QED
    BY <2>1, <2>2, <2>3, <2>4, Zenon DEF Kind, Outside, Inside, Exit, Inserted, AtWork, Configuring,
       Stopping
<1> QED
  BY <1>1, <1>2, Zenon DEF StopProgress, Progress

(* Every step keeps CleanInv.                                              *)
LEMMA CleanNext ==
  ASSUME ManagerInv, NetTypeOK, LockInv, ProcInv, CleanInv, [Next]_vars
  PROVE  CleanInv'
<1>1. CASE Still
  <2>1. \A o \in Objs, v \in VmIds : sockets'[v] = o => sockets[v] = o
    BY <1>1, NilAssumption, Zenon DEF Still
  <2>2. StoppedHost'
    BY <1>1, <2>1, Zenon DEF Still, netVars, leaseVars, instVars, CleanInv, StoppedHost
  <2>3. SocketsNamed'
    BY <1>1, Zenon DEF Still, netVars, leaseVars, CleanInv, SocketsNamed
  <2>4. \A t \in Callers : pc[t] = "stopEnd" => cur[t] \in Objs
    BY Zenon DEF ManagerInv, InHand, NoInstance
  <2>5. StopProgress'
    BY <1>1, <2>1, <2>4, Zenon DEF Still, netVars, leaseVars, localVars, CleanInv, StopProgress
  <2> QED
    BY <2>2, <2>3, <2>5, Zenon DEF CleanInv
<1>2. ASSUME NEW t \in Callers, Call(t) \/ Step(t)
      PROVE  CleanInv'
  <2>1. Frame(t) /\ Kind(t) /\ Monotone
    BY <1>2, StepKind, NetMonotone, Zenon DEF LockInv
  <2> QED
    BY <1>2, <2>1, StoppedKept, SocketsKept, ProgressKept, Zenon DEF CleanInv
<1> QED
  BY <1>1, <1>2, NextSplit, Zenon

-----------------------------------------------------------------------------
(* Admission.  An insertion is made where there was room, under the same   *)
(* hold of the manager's mutex as the test; whoever is in ProvisionVM has  *)
(* a token; whatever is being configured or started has a caller at it.    *)
Provisioning ==
  {"check", "acquire", "insert", "undo", "configure", "start"} \cup Configuring \cup Starting

RoomInv ==
  /\ IsFiniteSet(Resident) /\ ResidentLimit
  /\ IsFiniteSet(provision) /\ Cardinality(provision) <= MaxConcurrentProvision

Tokens == \A t \in Callers : pc[t] \in Provisioning => t \in provision

Attended ==
  \A o \in Objs : state[o] \in {"configuring", "starting"} =>
    \E t \in Callers : pc[t] \in Configuring \cup Starting /\ cur[t] = o

AdmitInv == RoomInv /\ Tokens /\ Attended

(* Only CreateInsert and Delete change the map.                            *)
LEMMA MapStep ==
  ASSUME ManagerInv, [Next]_vars
  PROVE  UNCHANGED instances \/ \E t \in Callers : CreateInsert(t) \/ Delete(t)
<1>1. ASSUME NEW t \in Callers, Call(t)
      PROVE  UNCHANGED instances
  BY <1>1, Zenon DEF Call, ProvisionVM, DestroyVM, Reconcile
<1>2. ASSUME NEW t \in Callers, Step(t)
      PROVE  UNCHANGED instances \/ CreateInsert(t) \/ Delete(t)
  BY <1>2, Zenon DEF Step, CreateCheck, CreateAcquire, ConfigureInvalid, ConfigureBegin,
     ConfigureTAP,
     ConfigureFirewall, ConfigureMachine, ConfigureUnwound, Start, StartMachine, StartDone,
     StartFailed, Stop, StopVMM, ReleaseStep, StopSocket, StopEnd, ReconcileScan, ReconcileNext
<1> QED
  BY <1>1, <1>2, NextSplit, Zenon DEF Still

(* How a step of t moves the tokens.                                       *)
TokenStep(t) ==
  \/ provision' = provision /\ (pc'[t] \in Provisioning => pc[t] \in Provisioning)
  \/ provision' = provision \ {t} /\ pc'[t] \notin Provisioning
  \/ provision' = provision \cup {t} /\ Cardinality(provision) < MaxConcurrentProvision

(* What a step does to the tokens of Manager.provision.                    *)
LEMMA StepTokens ==
  ASSUME ManagerInv, NEW t \in Callers, Call(t) \/ Step(t)
  PROVE  TokenStep(t)
<1> USE DEF Provisioning, Configuring, Starting
<1>1. Return(t) \/ Leave(t) => TokenStep(t)
  BY LeaveKeeps, Zenon DEF Return, Leave, TokenStep
<1>2. ASSUME NEW l \in PCs, Goto(t, l), UNCHANGED provision,
             l \in Provisioning => pc[t] \in Provisioning
      PROVE  TokenStep(t)
  BY <1>2, GotoKeeps, Zenon DEF TokenStep
<1>3. CASE Call(t)
  <2>1. CASE \E v \in VmIds : ProvisionVM(t, v)
    BY <2>1, Zenon DEF ProvisionVM, TokenStep
  <2>2. CASE (\E v \in VmIds : DestroyVM(t, v)) \/ Reconcile(t)
    BY <1>2, <2>2, Zenon DEF DestroyVM, Reconcile, PCs
  <2> QED
    BY <1>3, <2>1, <2>2, Zenon DEF Call
<1>4. CASE CreateCheck(t) \/ CreateAcquire(t) \/ CreateInsert(t)
  BY <1>1, <1>2, <1>4, Zenon DEF CreateCheck, CreateAcquire, CreateInsert, PCs
<1>5. CASE \/ ConfigureInvalid(t) \/ ConfigureBegin(t) \/ ConfigureTAP(t)
           \/ ConfigureFirewall(t) \/ ConfigureMachine(t) \/ ConfigureUnwound(t)
  BY <1>2, <1>5, Zenon DEF ConfigureInvalid, ConfigureBegin, ConfigureTAP, ConfigureFirewall,
     ConfigureMachine, ConfigureUnwound, PCs
<1>6. CASE Start(t) \/ StartMachine(t) \/ StartDone(t) \/ StartFailed(t)
  BY <1>1, <1>2, <1>6, Zenon DEF Start, StartMachine, StartDone, StartFailed, PCs
<1>7. CASE \/ Stop(t) \/ StopVMM(t) \/ StopSocket(t) \/ StopEnd(t) \/ Delete(t)
           \/ ReconcileScan(t) \/ ReconcileNext(t)
  BY <1>1, <1>2, <1>7, Zenon DEF Stop, StopVMM, StopSocket, StopEnd, Delete, ReconcileScan,
     ReconcileNext, PCs
<1>8. CASE ReleaseStep(t)
  <2>1. CASE UNCHANGED <<pc, provision>>
    BY <2>1 DEF TokenStep
  <2>2. CASE Return(t)
    BY <1>1, <2>2, Zenon
  <2>3. CASE /\ pc[t] \in {"unwind", "release"} /\ Goto(t, AfterRelease(t))
             /\ UNCHANGED provision
    <3>1. /\ pc[t] = "unwind" => AfterRelease(t) = "unwound"
          /\ pc[t] = "release" => AfterRelease(t) \in {"socket", "stopEnd"}
      BY <2>3, Zenon DEF AfterRelease, ManagerInv, LocalTypeOK
    <3> QED
      BY <1>2, <2>3, <3>1, Zenon DEF PCs
  <2> QED
    BY <1>8, <2>1, <2>2, <2>3, Zenon DEF ReleaseStep
<1> QED
  BY <1>3, <1>4, <1>5, <1>6, <1>7, <1>8, Zenon DEF Step

(* Every step keeps RoomInv: the map has no more than MaxVMs instances.    *)
LEMMA RoomNext ==
  ASSUME ManagerInv, RoomInv, [Next]_vars
  PROVE  RoomInv'
<1>0. ASSUME NEW a \in Nat, NEW b \in Nat, NEW c \in Nat, a <= b, b <= c
      PROVE  a <= c
  BY <1>0
<1> USE DEF ManagerInv, LocalTypeOK
<1>1. Resident' = {v \in VmIds : instances'[v] # NoObj}
  BY DEF Resident
<1>2. MaxVMs \in Nat /\ MaxConcurrentProvision \in Nat
  BY LimitsAssumption, Zenon
<1>3. IsFiniteSet(Resident') /\ Cardinality(Resident') <= MaxVMs
  <2>1. CASE UNCHANGED instances
    BY <1>1, <2>1, Zenon DEF RoomInv, ResidentLimit, Resident
  <2>2. ASSUME NEW t \in Callers, CreateInsert(t), instances' # instances
        PROVE  IsFiniteSet(Resident') /\ Cardinality(Resident') <= MaxVMs
    <3>1. /\ arg[t] \in VmIds /\ cur[t] # NoObj /\ arg[t] \notin Resident
          /\ Cardinality(Resident) < MaxVMs
          /\ instances' = [instances EXCEPT ![arg[t]] = cur[t]]
      BY <2>2, NilAssumption, Zenon DEF CreateInsert, Admissible, Resident, InHand, NoInstance
    <3>2. Resident' = Resident \cup {arg[t]}
      BY <1>1, <3>1, Zenon DEF Resident
    <3>3. Cardinality(Resident) \in Nat
      BY FS_CardinalityType, Zenon DEF RoomInv
    <3>4. /\ IsFiniteSet(Resident \cup {arg[t]})
          /\ Cardinality(Resident \cup {arg[t]}) = Cardinality(Resident) + 1
      BY <3>1, FS_AddElement, Zenon DEF RoomInv
    <3> QED
      BY <1>2, <3>1, <3>2, <3>3, <3>4
  <2>3. ASSUME NEW t \in Callers, Delete(t)
        PROVE  IsFiniteSet(Resident') /\ Cardinality(Resident') <= MaxVMs
    <3>1. Resident' \subseteq Resident
      BY <1>1, <2>3 DEF Delete, Resident
    <3>2. /\ Cardinality(Resident) \in Nat /\ Cardinality(Resident') \in Nat
          /\ IsFiniteSet(Resident') /\ Cardinality(Resident') <= Cardinality(Resident)
      BY <3>1, FS_Subset, FS_CardinalityType, Zenon DEF RoomInv
    <3>3. Cardinality(Resident) <= MaxVMs
      BY Zenon DEF RoomInv, ResidentLimit
    <3> QED
      BY <1>0, <1>2, <3>2, <3>3, Zenon
  <2>4. UNCHANGED instances \/ \E t \in Callers : CreateInsert(t) \/ Delete(t)
    BY MapStep, Zenon
  <2> QED
    BY <2>1, <2>2, <2>3, <2>4, Zenon
<1>4. IsFiniteSet(provision') /\ Cardinality(provision') <= MaxConcurrentProvision
  <2>1. CASE provision' \subseteq provision
    <3>1. /\ Cardinality(provision) \in Nat /\ Cardinality(provision') \in Nat
          /\ IsFiniteSet(provision') /\ Cardinality(provision') <= Cardinality(provision)
      BY <2>1, FS_Subset, FS_CardinalityType, Zenon DEF RoomInv
    <3> QED
      BY <1>2, <3>1 DEF RoomInv
  <2>2. ASSUME NEW t \in Callers, provision' = provision \cup {t},
               Cardinality(provision) < MaxConcurrentProvision
        PROVE  IsFiniteSet(provision') /\ Cardinality(provision') <= MaxConcurrentProvision
    <3>1. Cardinality(provision) \in Nat
      BY FS_CardinalityType, Zenon DEF RoomInv
    <3>2. /\ IsFiniteSet(provision \cup {t})
          /\ Cardinality(provision \cup {t}) \in
               {Cardinality(provision), Cardinality(provision) + 1}
      BY FS_AddElement, Zenon DEF RoomInv
    <3> QED
      BY <1>2, <2>2, <3>1, <3>2
  <2>3. CASE Still
    BY <2>1, <2>3, Zenon DEF Still
  <2>4. ASSUME NEW t \in Callers, Call(t) \/ Step(t)
        PROVE  IsFiniteSet(provision') /\ Cardinality(provision') <= MaxConcurrentProvision
    BY <2>1, <2>2, <2>4, StepTokens, Zenon DEF TokenStep
  <2> QED
    BY <2>3, <2>4, NextSplit, Zenon
<1> QED
  BY <1>3, <1>4, Zenon DEF RoomInv, ResidentLimit

(* A caller in ProvisionVM has its token, after every step.                *)
LEMMA TokensKept ==
  ASSUME Tokens, NEW t \in Callers, Frame(t), TokenStep(t)
  PROVE  Tokens'
  BY Zenon DEF Tokens, Frame, TokenStep

(* An instance that is being configured or started has its caller, after   *)
(* every step.                                                             *)
LEMMA AttendedKept ==
  ASSUME ManagerInv, LockInv, Attended, NEW t \in Callers, Frame(t), Kind(t)
  PROVE  Attended'
<1> SUFFICES ASSUME NEW o \in Objs, state'[o] \in {"configuring", "starting"}
             PROVE  \E u \in Callers : pc'[u] \in Configuring \cup Starting /\ cur'[u] = o
  BY Zenon DEF Attended
<1>1. \A u \in Callers : u # t => pc'[u] = pc[u] /\ cur'[u] = cur[u]
  BY Zenon DEF Frame
<1>2. CASE o # cur[t]
  <2>1. PICK u \in Callers : pc[u] \in Configuring \cup Starting /\ cur[u] = o
    BY <1>2, Zenon DEF Frame, Attended
  <2> QED
    BY <1>1, <1>2, <2>1, Zenon
<1>3. CASE o = cur[t] /\ Outside(t)
  <2>1. PICK u \in Callers : pc[u] \in Configuring \cup Starting /\ cur[u] = o
    BY <1>3, Zenon DEF Outside, Attended
  <2> QED
    BY <1>1, <1>3, <2>1, Zenon DEF Outside, AtWork
<1>4. CASE o = cur[t] /\ Inside(t)
  BY <1>4, Zenon DEF Inside, LockInv, Locked, Configuring, Starting, Stopping
<1>5. CASE o = cur[t] /\ Enter(t)
  BY <1>5, Zenon DEF Enter, Configuring, Starting
<1>6. CASE o = cur[t] /\ (Exit(t) \/ Inserted(t))
  BY <1>6, Zenon DEF Exit, Inserted
<1> QED
  BY <1>2, <1>3, <1>4, <1>5, <1>6, Zenon DEF Kind

(* Every step keeps AdmitInv.                                              *)
LEMMA AdmitNext ==
  ASSUME ManagerInv, LockInv, AdmitInv, [Next]_vars
  PROVE  AdmitInv'
<1> USE DEF AdmitInv
<1>1. RoomInv'
  BY RoomNext, Zenon
<1>2. CASE Still
  BY <1>1, <1>2, Zenon DEF Still, instVars, localVars, Tokens, Attended
<1>3. ASSUME NEW t \in Callers, Call(t) \/ Step(t)
      PROVE  Tokens' /\ Attended'
  BY <1>3, StepKind, StepTokens, TokensKept, AttendedKept, Zenon DEF LockInv
<1> QED
  BY <1>1, <1>2, <1>3, NextSplit, Zenon

(* Each instance that is being configured or started has its own caller    *)
(* with its own token.                                                     *)
LEMMA AdmitImpliesLimit ==
  ASSUME ManagerInv, AdmitInv
  PROVE  ProvisionLimit
<1> DEFINE S == {o \in Objs : state[o] \in {"configuring", "starting"}}
           W(o) == {t \in Callers : pc[t] \in Configuring \cup Starting /\ cur[t] = o}
           f == [o \in S |-> CHOOSE t \in W(o) : TRUE]
<1>1. \A o \in S : f[o] \in W(o)
  <2>1. \A o \in S : W(o) # {}
    BY Zenon DEF AdmitInv, Attended
  <2> QED
    BY <2>1, Zenon
<1>2. \A o \in S : W(o) \subseteq provision
  BY Zenon DEF AdmitInv, Tokens, Provisioning
<1>3. \A o \in S : f[o] \in provision /\ cur[f[o]] = o
  BY <1>1, <1>2, Zenon
<1> HIDE DEF S
<1>4. DOMAIN f = S
  OBVIOUS
<1>5. f = [o \in S |-> f[o]]
  OBVIOUS
<1> HIDE DEF f
<1>6. f \in Injection(S, provision)
  <2>1. f \in [S -> provision]
    BY <1>3, <1>5, Zenon
  <2>2. IsInjective(f)
    BY <1>3, <1>4, Zenon DEF IsInjective
  <2> QED
    BY <2>1, <2>2, Zenon DEF Injection
<1>7. IsFiniteSet(S) /\ Cardinality(S) <= Cardinality(provision)
  BY <1>6, FS_Injection, Zenon DEF AdmitInv, RoomInv
<1>8. Cardinality(S) \in Nat /\ Cardinality(provision) \in Nat
  BY <1>7, FS_CardinalityType, Zenon DEF AdmitInv, RoomInv
<1>9. Cardinality(S) <= MaxConcurrentProvision
  BY <1>7, <1>8, LimitsAssumption DEF AdmitInv, RoomInv
<1> QED
  BY <1>9, Zenon DEF ProvisionLimit, S

-----------------------------------------------------------------------------
(* The manager's part of the inductive invariant.                          *)
LocalInv ==
  ManagerInv /\ LockInv /\ HoldInv /\ ProcInv /\ CleanInv /\ AdmitInv

(* The manager's part of the invariant holds at the start.                 *)
LEMMA LocalInvInit == Init => LocalInv
<1> SUFFICES ASSUME Init PROVE LocalInv
  OBVIOUS
<1>1. ManagerInv /\ LockInv
  BY ManagerInit, LockInit, Zenon
<1>2. HoldInv /\ ProcInv
  BY Zenon DEF Init, HoldInv, ProcInv, ProcessHandled, Live, Starting
<1>3. CleanInv
  BY Zenon DEF Init, CleanInv, StoppedHost, SocketsNamed, StopProgress, Live
<1>4. AdmitInv
  <2>1. Resident = {} /\ provision = {}
    BY DEF Init, Resident
  <2>2. RoomInv
    BY <2>1, FS_EmptySet, LimitsAssumption DEF RoomInv, ResidentLimit
  <2>3. Tokens /\ Attended
    BY Zenon DEF Init, Tokens, Attended, Provisioning, Configuring, Starting
  <2> QED
    BY <2>2, <2>3, Zenon DEF AdmitInv
<1> QED
  BY <1>1, <1>2, <1>3, <1>4, Zenon DEF LocalInv

(* Every step keeps the manager's part of the invariant.                   *)
LEMMA LocalInvNext ==
  ASSUME LocalInv, NetTypeOK, [Next]_vars
  PROVE  LocalInv'
  BY ManagerNext, LockNext, HoldNext, ProcNext, CleanNext, AdmitNext, Zenon DEF LocalInv

-----------------------------------------------------------------------------
Inv == LocalInv /\ NetInv

(* Every step keeps the invariant.                                         *)
LEMMA InvNext == Inv /\ [Next]_vars => Inv'
<1> SUFFICES ASSUME Inv, [Next]_vars PROVE Inv'
  OBVIOUS
<1>1. NetTypeOK /\ ManagerInv
  BY NetInvImplies, Zenon DEF Inv, LocalInv
<1>2. NetInv'
  BY <1>1, ManagerUsesNetwork, NetStepInv, QuietInv, Zenon DEF Inv
<1> QED
  BY <1>1, <1>2, LocalInvNext, Zenon DEF Inv

(* The invariant holds in every reachable state.                           *)
LEMMA Invariance == Spec => []Inv
<1>1. Init => Inv
  BY LocalInvInit, InitInv DEF Init, Inv
<1> QED
  BY <1>1, InvNext, PTL DEF Spec

(* Every variable of the manager, its instances and its callers keeps its  *)
(* type.                                                                   *)
THEOREM TypeCorrect == Spec => []TypeOK
<1>1. Inv => TypeOK
  BY TypeSplit, NetInvImplies, Zenon DEF Inv, LocalInv, ManagerInv
<1> QED
  BY Invariance, <1>1, PTL

(* At most one caller is inside Configure, Start or Stop of an instance.   *)
THEOREM OneActorHolds == Spec => []OneActor
<1>1. Inv => OneActor
  BY Zenon DEF Inv, LocalInv, LockInv
<1> QED
  BY Invariance, <1>1, PTL

(* Running instances have distinct subnets and VSOCK context ids, because  *)
(* a running instance holds its lease and held leases are disjoint.        *)
THEOREM RunningAreIsolated == Spec => []RunningIsolated
<1>1. Inv => RunningIsolated
  BY NetInvImplies, Zenon DEF Inv, LocalInv, HoldInv, LeasesDisjoint, RunningIsolated
<1> QED
  BY Invariance, <1>1, PTL

(* A Firecracker process that was not told to end is always reachable from *)
(* its instance.                                                           *)
THEOREM ProcessesAreHandled == Spec => []ProcessHandled
<1>1. Inv => ProcessHandled
  BY Zenon DEF Inv, LocalInv, ProcInv
<1> QED
  BY Invariance, <1>1, PTL

(* A stopped instance has no lease, cleanup or socket left, and its        *)
(* process was told to end.                                                *)
THEOREM StoppedAreClean == Spec => []StoppedClean
<1>1. Inv => StoppedClean
  BY Zenon DEF Inv, LocalInv, CleanInv, StoppedHost, NetInv, PoolInv, Busy, StoppedClean, Live
<1> QED
  BY Invariance, <1>1, PTL

(* CreateVM keeps the map within MaxVMs.                                   *)
THEOREM ResidentsAreLimited == Spec => []ResidentLimit
<1>1. Inv => ResidentLimit
  BY Zenon DEF Inv, LocalInv, AdmitInv, RoomInv
<1> QED
  BY Invariance, <1>1, PTL

(* ProvisionVM keeps the instances in Configure or Start within            *)
(* MaxConcurrentProvision.                                                 *)
THEOREM ProvisioningIsLimited == Spec => []ProvisionLimit
<1>1. Inv => ProvisionLimit
  BY AdmitImpliesLimit DEF Inv, LocalInv
<1> QED
  BY Invariance, <1>1, PTL

(* The manager keeps the accounting of the address pool.                   *)
THEOREM ManagerAccountsForPool ==
  Spec => [](LeasesDisjoint /\ PoolAccounted /\ FirewallOwned)
<1>1. Inv => LeasesDisjoint /\ PoolAccounted /\ FirewallOwned
  BY NetInvImplies DEF Inv
<1> QED
  BY Invariance, <1>1, PTL

(* Every change of an instance's state is one of the life cycle.           *)
THEOREM LifecycleIsOrdered == Spec => LifecycleOrder
<1>1. Inv /\ [Next]_vars => [LifecycleStep]_vars
  BY LifecycleNext DEF Inv, LocalInv
<1> QED
  BY Invariance, <1>1, PTL DEF Spec, LifecycleOrder
=============================================================================
