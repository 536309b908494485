----------------------------- MODULE VmManager -----------------------------
(***************************************************************************)
(* The VMM manager and its instances (internal/core/vmm/manager.go and     *)
(* instance.go) on top of the network allocations of module Network.       *)
(*                                                                         *)
(* Callers run ProvisionVM, DestroyVM and Reconcile concurrently.  A step  *)
(* is a critical section of the manager's or the instance's mutex, or one  *)
(* call of the kernel, nft or Firecracker; pc[t] is the next step of       *)
(* caller t.  An element of Objs is an Instance together with the          *)
(* Allocation it was made with.                                            *)
(***************************************************************************)
EXTENDS Network

CONSTANTS
  Callers,                \* goroutines that call the manager
  MaxVMs,                 \* limits.MaxVMs
  MaxConcurrentProvision  \* limits.MaxConcurrentProvision

(* NewManagerWithLimits replaces limits that are not positive.             *)
ASSUME LimitsAssumption ==
  MaxVMs \in Nat \ {0} /\ MaxConcurrentProvision \in Nat \ {0}

VARIABLES
  instances,  \* Manager.instances: VM id -> instance, NoObj when absent
  provision,  \* callers holding a token of Manager.provision
  state,      \* Instance.state, "none" before NewInstance
  machine,    \* Instance.machine is not nil
  procs,      \* instances whose Firecracker process is alive
  signalled,  \* those of procs that StopVMM has told to end
  sockets,    \* VM id -> instance whose process made the socket file
  pc,         \* next step of each caller
  op,         \* operation each caller is running
  arg,        \* its VM id argument
  cur,        \* instance it works on
  err,        \* an error was collected in the running Configure or Stop
  stopped,    \* machineStopped of the running Stop
  unread,     \* instances whose state the running Reconcile has still to read
  todo        \* instances the running Reconcile has still to stop

instVars == <<state, machine>>
hostVars == <<procs, signalled, sockets>>
localVars == <<op, arg, cur, err, stopped, unread, todo>>
vars == <<netVars, instances, provision, instVars, hostVars, pc, localVars>>

States == {"created", "configuring", "configured", "starting", "running",
           "stopping", "stopped", "cleanup-failed"}
Ops == {"none", "provision", "destroy", "reconcile"}
PCs == {"idle", "check", "acquire", "insert", "undo", "configure", "setup",
        "firewall", "newMachine", "unwind", "unwound", "start", "boot",
        "booted", "bootFailed", "stop", "stopVMM", "release", "socket",
        "stopEnd", "delete", "scan", "next"}

Resident == {v \in VmIds : instances[v] # NoObj}

Init ==
  /\ NetInit
  /\ instances = [v \in VmIds |-> NoObj]
  /\ provision = {}
  /\ state = [o \in Objs |-> "none"]
  /\ machine = [o \in Objs |-> FALSE]
  /\ procs = {}
  /\ signalled = {}
  /\ sockets = [v \in VmIds |-> NoObj]
  /\ pc = [t \in Callers |-> "idle"]
  /\ op = [t \in Callers |-> "none"]
  /\ arg = [t \in Callers |-> NoVm]
  /\ cur = [t \in Callers |-> NoObj]
  /\ err = [t \in Callers |-> FALSE]
  /\ stopped = [t \in Callers |-> FALSE]
  /\ unread = [t \in Callers |-> {}]
  /\ todo = [t \in Callers |-> {}]

Goto(t, l) == pc' = [pc EXCEPT ![t] = l]
SetState(o, s) == state' = [state EXCEPT ![o] = s]

(* The call returns: its locals are gone and a ProvisionVM gives its token *)
(* back.                                                                   *)
Return(t) ==
  /\ Goto(t, "idle")
  /\ provision' = provision \ {t}
  /\ op' = [op EXCEPT ![t] = "none"]
  /\ arg' = [arg EXCEPT ![t] = NoVm]
  /\ cur' = [cur EXCEPT ![t] = NoObj]
  /\ err' = [err EXCEPT ![t] = FALSE]
  /\ stopped' = [stopped EXCEPT ![t] = FALSE]
  /\ unread' = [unread EXCEPT ![t] = {}]
  /\ todo' = [todo EXCEPT ![t] = {}]

(* The manager's mutex is free: Reconcile keeps it while it reads the      *)
(* states of the instances; every other critical section is one step.      *)
Unlocked == \A t \in Callers : pc[t] # "scan"

(* Stop has returned with an error, or the entry was deleted: Reconcile    *)
(* goes on with its next item, the others return.                          *)
Leave(t) ==
  \/ /\ op[t] = "reconcile" /\ Goto(t, "next")
     /\ err' = [err EXCEPT ![t] = FALSE]
     /\ stopped' = [stopped EXCEPT ![t] = FALSE]
     /\ UNCHANGED <<provision, op, arg, cur, unread, todo>>
  \/ op[t] # "reconcile" /\ Return(t)

-----------------------------------------------------------------------------
(* ProvisionVM and CreateVM.  A refused admission (no token, no room, id   *)
(* taken) changes nothing but the caller's place.                          *)
FreshObjs == {o \in Objs : vm[o] = NoVm}
NewObj == CHOOSE o \in FreshObjs : TRUE
(* Bound: no calls once Objs is used up, but for those that find the pool  *)
(* empty.                                                                  *)
ObjsLeft == FreshObjs # {} \/ PoolExhausted

ProvisionVM(t, v) ==
  /\ pc[t] = "idle" /\ ObjsLeft
  /\ Cardinality(provision) < MaxConcurrentProvision
  /\ provision' = provision \cup {t}
  /\ op' = [op EXCEPT ![t] = "provision"]
  /\ arg' = [arg EXCEPT ![t] = v]
  /\ Goto(t, "check")
  /\ UNCHANGED <<netVars, instances, instVars, hostVars, cur, err, stopped,
                 unread, todo>>

(* Room for v in the map, tested under the manager's mutex.                *)
Admissible(v) == instances[v] = NoObj /\ Cardinality(Resident) < MaxVMs

CreateCheck(t) ==
  /\ pc[t] = "check" /\ Unlocked
  /\ \/ /\ Admissible(arg[t]) /\ Goto(t, "acquire")
        /\ UNCHANGED <<provision, localVars>>
     \/ ~Admissible(arg[t]) /\ Return(t)
  /\ UNCHANGED <<netVars, instances, instVars, hostVars>>

(* The address lease is taken outside the manager's mutex.  Bound: when    *)
(* every element of Objs was used, the call fails as on an empty pool.     *)
CreateAcquire(t) ==
  /\ pc[t] = "acquire"
  /\ \/ /\ FreshObjs # {} /\ Acquire(NewObj, arg[t]) /\ Goto(t, "insert")
        /\ cur' = [cur EXCEPT ![t] = NewObj]
        /\ UNCHANGED <<provision, op, arg, err, stopped, unread, todo>>
     \/ (PoolExhausted \/ FreshObjs = {}) /\ Return(t) /\ UNCHANGED netVars
  /\ UNCHANGED <<instances, instVars, hostVars>>

(* Faulty variant of CreateInsert: the number of instances is not tested   *)
(* again.                                                                  *)
CreateInsertUnchecked(t) ==
  /\ pc[t] = "insert" /\ Unlocked
  /\ \/ /\ instances[arg[t]] = NoObj /\ Goto(t, "configure")
        /\ instances' = [instances EXCEPT ![arg[t]] = cur[t]]
        /\ SetState(cur[t], "created")
     \/ instances[arg[t]] # NoObj /\ Goto(t, "undo") /\ UNCHANGED <<instances, state>>
  /\ UNCHANGED <<netVars, provision, machine, hostVars, localVars>>

(* CreateVM tests again before it inserts; the loser undoes its lease.     *)
CreateInsert(t) ==
  /\ pc[t] = "insert" /\ Unlocked
  /\ \/ /\ Admissible(arg[t]) /\ Goto(t, "configure")
        /\ instances' = [instances EXCEPT ![arg[t]] = cur[t]]
        /\ SetState(cur[t], "created")
     \/ ~Admissible(arg[t]) /\ Goto(t, "undo") /\ UNCHANGED <<instances, state>>
  /\ UNCHANGED <<netVars, provision, machine, hostVars, localVars>>

-----------------------------------------------------------------------------
(* Configure.  Its validations (config, assets, network config) come       *)
(* before any change of state; ProvisionVM then calls removeFailedVM,      *)
(* whose first step is Stop.                                               *)
ConfigureInvalid(t) ==
  /\ pc[t] = "configure" /\ Fail(1)
  /\ Goto(t, "stop")
  /\ UNCHANGED <<ipamVars, leaseVars, linkVars, instances, provision, instVars,
                 hostVars, localVars>>

ConfigureBegin(t) ==
  /\ pc[t] = "configure"
  /\ IF state[cur[t]] = "created"
     THEN SetState(cur[t], "configuring") /\ Goto(t, "setup")
     ELSE UNCHANGED state /\ Goto(t, "stop")
  /\ UNCHANGED <<netVars, instances, provision, machine, hostVars, localVars>>

(* Allocation.Setup, one kernel call at a time.                            *)
ConfigureTAP(t) ==
  /\ pc[t] = "setup"
  /\ \/ SetupTAP(cur[t]) /\ Goto(t, "firewall")
     \/ SetupTAPFails(cur[t]) /\ Goto(t, "unwind")
  /\ UNCHANGED <<instances, provision, instVars, hostVars, localVars>>

ConfigureFirewall(t) ==
  /\ pc[t] = "firewall"
  /\ \/ SetupFirewall(cur[t]) /\ Goto(t, "newMachine")
     \/ SetupFirewallFails(cur[t]) /\ Goto(t, "unwind")
  /\ UNCHANGED <<instances, provision, instVars, hostVars, localVars>>

(* The rest of Configure builds the Firecracker configuration, checks the  *)
(* snapshot and makes the machine; any of it may fail.                     *)
ConfigureMachine(t) ==
  /\ pc[t] = "newMachine"
  /\ \/ /\ machine' = [machine EXCEPT ![cur[t]] = TRUE]
        /\ SetState(cur[t], "configured") /\ Goto(t, "start")
        /\ UNCHANGED faults
     \/ Fail(1) /\ Goto(t, "unwind") /\ UNCHANGED instVars
  /\ UNCHANGED <<ipamVars, leaseVars, linkVars, instances, provision, hostVars,
                 localVars>>

(* The deferred function of a failed Configure, after its Release.         *)
ConfigureUnwound(t) ==
  /\ pc[t] = "unwound"
  /\ SetState(cur[t], IF err[t] THEN "cleanup-failed" ELSE "created")
  /\ err' = [err EXCEPT ![t] = FALSE]
  /\ Goto(t, "stop")
  /\ UNCHANGED <<netVars, instances, provision, machine, hostVars, op, arg, cur,
                 stopped, unread, todo>>

-----------------------------------------------------------------------------
(* Start.  In the wrong state it fails and ProvisionVM cleans up.          *)
Start(t) ==
  /\ pc[t] = "start"
  /\ IF state[cur[t]] = "configured" /\ machine[cur[t]]
     THEN SetState(cur[t], "starting") /\ Goto(t, "boot")
     ELSE UNCHANGED state /\ Goto(t, "stop")
  /\ UNCHANGED <<netVars, instances, provision, machine, hostVars, localVars>>

(* machine.Start or machine.ResumeVM.  A process that comes up binds the   *)
(* API socket, which fails when the path exists; a failed start may leave  *)
(* the process behind.                                                     *)
ProcessUp(o) ==
  /\ sockets[vm[o]] = NoObj
  /\ procs' = procs \cup {o}
  /\ sockets' = [sockets EXCEPT ![vm[o]] = o]
  /\ UNCHANGED signalled

StartMachine(t) ==
  /\ pc[t] = "boot"
  /\ \/ ProcessUp(cur[t]) /\ Goto(t, "booted") /\ UNCHANGED faults
     \/ ProcessUp(cur[t]) /\ Goto(t, "bootFailed") /\ Fail(1)
     \/ /\ Goto(t, "bootFailed") /\ UNCHANGED hostVars
        /\ \/ Fail(1)
           \/ sockets[vm[cur[t]]] # NoObj /\ UNCHANGED faults
  /\ UNCHANGED <<ipamVars, leaseVars, linkVars, instances, provision, instVars,
                 localVars>>

(* Start completes; with "running" ProvisionVM returns the instance.       *)
StartDone(t) ==
  /\ pc[t] = "booted"
  /\ IF state[cur[t]] = "starting"
     THEN SetState(cur[t], "running") /\ Return(t)
     ELSE UNCHANGED <<state, provision, localVars>> /\ Goto(t, "stop")
  /\ UNCHANGED <<netVars, instances, machine, hostVars>>

(* Faulty variant of StartFailed: the instance is reset to "created".      *)
StartFailedResets(t) ==
  /\ pc[t] = "bootFailed"
  /\ SetState(cur[t], "created")
  /\ Goto(t, "stop")
  /\ UNCHANGED <<netVars, instances, provision, machine, hostVars, localVars>>

StartFailed(t) ==
  /\ pc[t] = "bootFailed"
  /\ SetState(cur[t], "configured")
  /\ Goto(t, "stop")
  /\ UNCHANGED <<netVars, instances, provision, machine, hostVars, localVars>>

-----------------------------------------------------------------------------
(* DestroyVM and Reconcile read the map under the manager's mutex and call *)
(* Stop after they gave it up.                                             *)
DestroyVM(t, v) ==
  /\ pc[t] = "idle" /\ Unlocked /\ instances[v] # NoObj
  /\ op' = [op EXCEPT ![t] = "destroy"]
  /\ cur' = [cur EXCEPT ![t] = instances[v]]
  /\ Goto(t, "stop")
  /\ UNCHANGED <<netVars, instances, provision, instVars, hostVars, arg, err,
                 stopped, unread, todo>>

CleanupFailed == {o \in Objs : state[o] = "cleanup-failed"}

(* Reconcile takes the manager's mutex and reads the state of one instance *)
(* after the other, each under the instance's own mutex, while teardowns   *)
(* and configurations go on; then it gives the manager's mutex up.         *)
Reconcile(t) ==
  /\ pc[t] = "idle" /\ Unlocked
  /\ op' = [op EXCEPT ![t] = "reconcile"]
  /\ unread' = [unread EXCEPT ![t] = Range(instances) \ {NoObj}]
  /\ Goto(t, IF Resident = {} THEN "next" ELSE "scan")
  /\ UNCHANGED <<netVars, instances, provision, instVars, hostVars, arg, cur, err,
                 stopped, todo>>

ReconcileScan(t) ==
  /\ pc[t] = "scan"
  /\ \E o \in unread[t] :
       /\ unread' = [unread EXCEPT ![t] = @ \ {o}]
       /\ todo' = [todo EXCEPT ![t] = @ \cup ({o} \cap CleanupFailed)]
       /\ Goto(t, IF unread[t] = {o} THEN "next" ELSE "scan")
  /\ UNCHANGED <<netVars, instances, provision, instVars, hostVars, op, arg, cur,
                 err, stopped>>

ReconcileNext(t) ==
  /\ pc[t] = "next"
  /\ \/ \E o \in todo[t] :
          /\ cur' = [cur EXCEPT ![t] = o]
          /\ todo' = [todo EXCEPT ![t] = @ \ {o}]
          /\ Goto(t, "stop")
          /\ UNCHANGED <<provision, op, arg, err, stopped, unread>>
     \/ todo[t] = {} /\ Return(t)
  /\ UNCHANGED <<netVars, instances, instVars, hostVars>>

-----------------------------------------------------------------------------
(* Faulty variants of Stoppable: a teardown in progress may be entered     *)
(* again, or a failed one may not be retried.                              *)
StoppableAgain == {"running", "configured", "cleanup-failed", "stopping"}
StoppableOnce == {"running", "configured"}

(* Stop returns nil without doing anything unless the instance is running, *)
(* configured or cleanup-failed.                                           *)
Stoppable == {"running", "configured", "cleanup-failed"}

Stop(t) ==
  /\ pc[t] = "stop"
  /\ IF state[cur[t]] \in Stoppable
     THEN /\ SetState(cur[t], "stopping")
          /\ stopped' = [stopped EXCEPT ![t] = ~machine[cur[t]]]
          /\ Goto(t, IF machine[cur[t]] THEN "stopVMM" ELSE "release")
     ELSE UNCHANGED <<state, stopped>> /\ Goto(t, "delete")
  /\ UNCHANGED <<netVars, instances, provision, machine, hostVars, op, arg, cur,
                 err, unread, todo>>

(* Faulty variant of StopVMM: its error is dropped.                        *)
StopVMMErrorDropped(t) ==
  /\ pc[t] = "stopVMM"
  /\ \/ signalled' = signalled \cup ({cur[t]} \cap procs) /\ UNCHANGED faults
     \/ cur[t] \in procs /\ Fail(1) /\ UNCHANGED signalled
  /\ stopped' = [stopped EXCEPT ![t] = TRUE]
  /\ Goto(t, "release")
  /\ UNCHANGED <<ipamVars, leaseVars, linkVars, instances, provision, instVars,
                 procs, sockets, op, arg, cur, err, unread, todo>>

(* machine.StopVMM sends SIGTERM and does not wait: the process may still  *)
(* be alive when Stop goes on, and when Stop has returned.  It fails only  *)
(* on a live process.                                                      *)
StopVMM(t) ==
  /\ pc[t] = "stopVMM"
  /\ \/ /\ signalled' = signalled \cup ({cur[t]} \cap procs)
        /\ stopped' = [stopped EXCEPT ![t] = TRUE]
        /\ UNCHANGED <<err, faults>>
     \/ /\ cur[t] \in procs /\ Fail(1)
        /\ err' = [err EXCEPT ![t] = TRUE]
        /\ UNCHANGED <<signalled, stopped>>
  /\ Goto(t, "release")
  /\ UNCHANGED <<ipamVars, leaseVars, linkVars, instances, provision, instVars,
                 procs, sockets, op, arg, cur, unread, todo>>

(* A Firecracker process that was told to end does so, at any time later;  *)
(* nobody in the manager waits for it.  The socket file may go with it:    *)
(* Stop takes a missing one for removed.                                   *)
ProcessExit(o) ==
  /\ o \in signalled
  /\ procs' = procs \ {o}
  /\ signalled' = signalled \ {o}
  /\ sockets' \in {sockets, [sockets EXCEPT ![vm[o]] = NoObj]}
  /\ UNCHANGED <<netVars, instances, provision, instVars, pc, localVars>>

(* Allocation.Release, called by CreateVM's loser ("undo"), by a failed    *)
(* Configure ("unwind") and by Stop ("release").                           *)
AfterRelease(t) ==
  CASE pc[t] = "unwind" -> "unwound"
    [] pc[t] = "release" /\ stopped[t] -> "socket"
    [] pc[t] = "release" /\ ~stopped[t] -> "stopEnd"

ReleaseStep(t) ==
  /\ pc[t] \in {"undo", "unwind", "release"}
  /\ \/ /\ \/ ReleaseBegin(cur[t]) \/ CleanupTAP(cur[t])
           \/ CleanupFirewall(cur[t]) \/ CleanupFails(cur[t])
        /\ UNCHANGED <<pc, provision, localVars>>
     \/ /\ pc[t] # "undo" /\ ReleaseFails(cur[t])
        /\ Goto(t, AfterRelease(t))
        /\ err' = [err EXCEPT ![t] = TRUE]
        /\ UNCHANGED <<provision, op, arg, cur, stopped, unread, todo>>
     \/ /\ ReleaseEnd(cur[t]) \/ ReleaseDone(cur[t])
        /\ \/ pc[t] = "undo" /\ Return(t)
           \/ /\ pc[t] # "undo" /\ Goto(t, AfterRelease(t))
              /\ UNCHANGED <<provision, localVars>>
  /\ UNCHANGED <<instances, instVars, hostVars>>

(* The socket is removed only when StopVMM returned no error.              *)
StopSocket(t) ==
  /\ pc[t] = "socket"
  /\ \/ /\ sockets' = [sockets EXCEPT ![vm[cur[t]]] = NoObj]
        /\ UNCHANGED <<err, faults>>
     \/ /\ Fail(1)
        /\ err' = [err EXCEPT ![t] = TRUE]
        /\ UNCHANGED sockets
  /\ Goto(t, "stopEnd")
  /\ UNCHANGED <<ipamVars, leaseVars, linkVars, instances, provision, instVars,
                 procs, signalled, op, arg, cur, stopped, unread, todo>>

(* Faulty variant of StopEnd: the machine is forgotten although its        *)
(* process could not be stopped.                                           *)
StopEndForgets(t) ==
  /\ pc[t] = "stopEnd"
  /\ machine' = [machine EXCEPT ![cur[t]] = FALSE]
  /\ \/ err[t] /\ SetState(cur[t], "cleanup-failed") /\ Leave(t)
     \/ /\ ~err[t] /\ SetState(cur[t], "stopped") /\ Goto(t, "delete")
        /\ UNCHANGED <<provision, localVars>>
  /\ UNCHANGED <<netVars, instances, hostVars>>

StopEnd(t) ==
  /\ pc[t] = "stopEnd"
  /\ machine' = [machine EXCEPT ![cur[t]] = @ /\ ~stopped[t]]
  /\ \/ err[t] /\ SetState(cur[t], "cleanup-failed") /\ Leave(t)
     \/ /\ ~err[t] /\ SetState(cur[t], "stopped") /\ Goto(t, "delete")
        /\ UNCHANGED <<provision, localVars>>
  /\ UNCHANGED <<netVars, instances, hostVars>>

(* removeFailedVM, DestroyVM and Reconcile after a Stop that returned nil. *)
Delete(t) ==
  /\ pc[t] = "delete" /\ Unlocked
  /\ instances' = [instances EXCEPT ![vm[cur[t]]] = IF @ = cur[t] THEN NoObj ELSE @]
  /\ Leave(t)
  /\ UNCHANGED <<netVars, instVars, hostVars>>

-----------------------------------------------------------------------------
Call(t) ==
  \/ \E v \in VmIds : ProvisionVM(t, v) \/ DestroyVM(t, v)
  \/ Reconcile(t)

Step(t) ==
  \/ CreateCheck(t) \/ CreateAcquire(t) \/ CreateInsert(t)
  \/ ConfigureInvalid(t) \/ ConfigureBegin(t) \/ ConfigureTAP(t)
  \/ ConfigureFirewall(t) \/ ConfigureMachine(t) \/ ConfigureUnwound(t)
  \/ Start(t) \/ StartMachine(t) \/ StartDone(t) \/ StartFailed(t)
  \/ Stop(t) \/ StopVMM(t) \/ ReleaseStep(t) \/ StopSocket(t) \/ StopEnd(t)
  \/ Delete(t) \/ ReconcileScan(t) \/ ReconcileNext(t)

Next ==
  \/ \E t \in Callers : Call(t) \/ Step(t)
  \/ \E o \in Objs : ProcessExit(o)

Spec == Init /\ [][Next]_vars

(* A goroutine inside a call keeps running, and gets the manager's mutex   *)
(* although others take it again and again (a sync.Mutex serves the waiter *)
(* that has waited longest); nobody has to call, no process has to end.    *)
FairSpec == Spec /\ \A t \in Callers : SF_vars(Step(t))

-----------------------------------------------------------------------------
(* Every variable keeps its type.                                          *)
TypeOK ==
  /\ NetTypeOK
  /\ instances \in [VmIds -> Objs \cup {NoObj}]
  /\ provision \subseteq Callers
  /\ state \in [Objs -> States \cup {"none"}]
  /\ machine \in [Objs -> BOOLEAN]
  /\ signalled \subseteq procs /\ procs \subseteq Objs
  /\ sockets \in [VmIds -> Objs \cup {NoObj}]
  /\ pc \in [Callers -> PCs]
  /\ op \in [Callers -> Ops]
  /\ arg \in [Callers -> VmIds \cup {NoVm}]
  /\ cur \in [Callers -> Objs \cup {NoObj}]
  /\ err \in [Callers -> BOOLEAN]
  /\ stopped \in [Callers -> BOOLEAN]
  /\ unread \in [Callers -> SUBSET Objs]
  /\ todo \in [Callers -> SUBSET Objs]

(* The steps during which a caller works on the instance's resources       *)
(* without holding its mutex, by the state that keeps others away.         *)
Configuring == {"setup", "firewall", "newMachine", "unwind", "unwound"}
Starting == {"boot", "booted", "bootFailed"}
Stopping == {"stopVMM", "release", "socket", "stopEnd"}
AtWork == Configuring \cup Starting \cup Stopping

(* At most one caller at a time configures, starts or tears down an        *)
(* instance, although Configure, Start and Stop give up its mutex while    *)
(* they call the kernel and Firecracker: the state they set is the lock.   *)
OneActor ==
  \A t, u \in Callers :
    t # u /\ pc[t] \in AtWork /\ pc[u] \in AtWork => cur[t] # cur[u]

(* Two running instances never share a guest subnet or a VSOCK context id, *)
(* whatever creations, failed configurations, teardowns and                *)
(* reconciliations overlap: a running instance holds its lease.            *)
RunningIsolated ==
  \A o, p \in Objs :
    o # p /\ state[o] = "running" /\ state[p] = "running"
      => subnet[o] # subnet[p] /\ cid[o] # cid[p]

(* An instance that Stop left in the state "stopped" keeps nothing that    *)
(* another teardown would have to undo: its lease is back in the pool, no  *)
(* cleanup is pending, the socket it made is gone, and its process was     *)
(* told to end, also when StopVMM, Release or the removal failed before.   *)
(* The process may live on for a while, beside the next user of its lease. *)
StoppedClean ==
  \A o \in Objs : state[o] = "stopped" =>
    /\ released[o] /\ cleanup[o] = <<>>
    /\ ~machine[o] /\ (o \in procs => o \in signalled)
    /\ \A v \in VmIds : sockets[v] # o

(* A Firecracker process that nobody has told to end is always reachable   *)
(* through the machine of its instance, also after a failed start and      *)
(* after a StopVMM that failed, so that the next Stop tries to stop it.    *)
ProcessHandled == \A o \in procs \ signalled : machine[o]

(* The map never holds more than MaxVMs instances, although CreateVM gives *)
(* up the manager's mutex between its two tests.                           *)
ResidentLimit == Cardinality(Resident) <= MaxVMs

(* At most MaxConcurrentProvision instances are being configured or        *)
(* started at any time.                                                    *)
ProvisionLimit ==
  Cardinality({o \in Objs : state[o] \in {"configuring", "starting"}})
    <= MaxConcurrentProvision

(* Every call returns: no caller waits for another for ever.               *)
CallsReturn == \A t \in Callers : pc[t] # "idle" ~> pc[t] = "idle"

(* Another instance was made whose TAP and nft elements have o's name.     *)
Twin(o) ==
  \E p \in Objs \ {o} : {vm[o], vm[p]} \subseteq VmIds /\ tapName(p) = tapName(o)

(* Once the host calls stop failing, a reconciliation finishes the         *)
(* teardown of each instance it has listed: it ends stopped and out of the *)
(* map, whoever else stops, creates and reconciles meanwhile.  The         *)
(* exception is an instance with a twin: the twin's teardown deletes the   *)
(* nft elements that the two share, and the deletion o has still to do     *)
(* fails for ever.                                                         *)
ReconcileEffective ==
  \A o \in Objs :
    faults = 0 /\ state[o] = "cleanup-failed" /\ (\E t \in Callers : o \in todo[t])
      ~> (state[o] = "stopped" /\ o \notin Range(instances)) \/ Twin(o)

Transitions ==
  {<<"none", "created">>, <<"created", "configuring">>,
   <<"configuring", "configured">>, <<"configuring", "created">>,
   <<"configuring", "cleanup-failed">>, <<"configured", "starting">>,
   <<"starting", "running">>, <<"starting", "configured">>,
   <<"configured", "stopping">>, <<"running", "stopping">>,
   <<"cleanup-failed", "stopping">>, <<"stopping", "stopped">>,
   <<"stopping", "cleanup-failed">>}

LifecycleStep ==
  \A o \in Objs : state'[o] # state[o] => <<state[o], state'[o]>> \in Transitions

(* An instance only moves along the life cycle of lifecycle.go: a teardown *)
(* always passes through "stopping", a stopped instance stays stopped, and *)
(* a cleanup failure can only be left by another teardown.                 *)
LifecycleOrder == [][LifecycleStep]_vars

-----------------------------------------------------------------------------
(* What the comment on Reconcile says: "Cleanup failures remain visible in *)
(* the manager until a later reconciliation succeeds".                     *)
CleanupFailuresVisible == CleanupFailed \subseteq Range(instances)
=============================================================================
