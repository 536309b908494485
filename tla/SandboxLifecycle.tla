-------------------------- MODULE SandboxLifecycle --------------------------
(***************************************************************************)
(* A sandbox from the HTTP API to the virtual machine.  The daemon's       *)
(* requests write the sandbox's row and publish a lifecycle job; JetStream *)
(* keeps the jobs and delivers each up to MaxDeliver times; the worker has *)
(* one consumer loop per kind of job, whose handler calls the VMM manager  *)
(* and writes the row.  Every database call, publication and VMM call is a *)
(* step of its own: the two loops and the requests interleave between      *)
(* them, and the worker may die there.                                     *)
(*                                                                         *)
(* The VMM manager is reduced to what its two operations show of a VM id:  *)
(* vms[s] is where its instance stands and whether the manager's map has   *)
(* it, strays the virtual machines that run without an entry (module       *)
(* VmManager has the detail).  The id of a message is SandboxID:subject,   *)
(* so that the duplicate window keeps a second copy of a job out of the    *)
(* stream; once the window is over, copies of a job are kept side by side. *)
(***************************************************************************)
EXTENDS Naturals, FiniteSets

CONSTANTS
  Sandboxes,    \* the sandboxes that may be created
  NoSandbox,    \* no sandbox in hand
  Requests,     \* the API requests in progress at once
  MaxDeliver,   \* consumerMaxDeliver
  MaxCopies,    \* bound on copies of one job that are under way at once
  MaxFaults,    \* bound on database, publication, VMM and ack failures
  MaxCrashes    \* bound on restarts of the worker

ASSUME SandboxAssumption == NoSandbox \notin Sandboxes

ASSUME DeliveryAssumption ==
  /\ MaxDeliver \in Nat \ {0} /\ MaxCopies \in Nat \ {0}
  /\ MaxFaults \in Nat /\ MaxCrashes \in Nat

VARIABLES
  row,          \* row[s]: the status column, "none" before and "gone" after
  req,          \* req[r]: the next step of an API request
  reqFor,       \* reqFor[r]: the sandbox it is about
  job,          \* job[k][m]: a copy of a job of kind k in the stream
  deliveries,   \* deliveries[k][m]: how often it was delivered, until settled
  seen,         \* seen[k][s]: the job's id is in the stream's duplicate window
  again,        \* again[k][m]: redeliveries in the consumer's buffer
  at,           \* at[k]: the next step of the consumer loop of kind k
  on, copy,     \* on[k], copy[k]: the sandbox of the job it handles, and which
                \* copy of the job
  vms,          \* vms[s]: the manager's view of the sandbox's VM
  strays,       \* sandboxes with a live VM that no entry refers to
  faults, crashes

daemonVars == <<req, reqFor>>
streamVars == <<job, deliveries, seen, again>>
workerVars == <<at, on, copy>>
vmmVars == <<vms, strays>>
vars == <<row, daemonVars, streamVars, workerVars, vmmVars, faults, crashes>>

Kinds == {"create", "destroy"}

(* The copies of jobs: of which sandbox, and which one.                    *)
Copies == 1..MaxCopies
Jobs == Sandboxes \X Copies

(* The CHECK constraint of the status column.                              *)
Statuses ==
  {"pending", "provisioning", "running", "stopping", "stopped", "failed", "cleanup_failed"}

Settled == {"acked", "exhausted"}

(* Where the VM of a sandbox stands: being provisioned ("busy"), so but    *)
(* without an entry ("unlisted"), stopped before its start with and        *)
(* without one ("doomed", "undone"), running, or left by a failed cleanup. *)
VmStates == {"none", "busy", "unlisted", "doomed", "undone", "up", "failed"}

Listed(s) == vms[s] \in {"busy", "doomed", "up", "failed"}

Present(s) == row[s] \in Statuses

Fault == faults < MaxFaults /\ faults' = faults + 1
NoFault == UNCHANGED faults

Init ==
  /\ row = [s \in Sandboxes |-> "none"]
  /\ req = [r \in Requests |-> "idle"]
  /\ reqFor = [r \in Requests |-> NoSandbox]
  /\ job = [k \in Kinds |-> [m \in Jobs |-> "none"]]
  /\ deliveries = [k \in Kinds |-> [m \in Jobs |-> 0]]
  /\ seen = [k \in Kinds |-> [s \in Sandboxes |-> FALSE]]
  /\ again = [k \in Kinds |-> [m \in Jobs |-> 0]]
  /\ at = [k \in Kinds |-> "idle"]
  /\ on = [k \in Kinds |-> NoSandbox]
  /\ copy = [k \in Kinds |-> 1]
  /\ vms = [s \in Sandboxes |-> "none"]
  /\ strays = {}
  /\ faults = 0 /\ crashes = 0

-----------------------------------------------------------------------------
(* Faulty variant of UpdateStatus: a missing row is inserted.              *)
UpdateStatusInserts(s, status) ==
  NoFault /\ row' = [row EXCEPT ![s] = status]

(* The database.  UpdateStatus has no guard on the old status and fails    *)
(* when the row is missing or the database is.                             *)
UpdateStatus(s, status) ==
  Present(s) /\ NoFault /\ row' = [row EXCEPT ![s] = status]

UpdateStatusFails(s) ==
  UNCHANGED row /\ ((~Present(s) /\ NoFault) \/ Fault)

CreateSandbox(s) == row[s] = "none" /\ row' = [row EXCEPT ![s] = "pending"]

GetSandboxByID(s) == Present(s)

(* Deleting a row that is not there is no error.                           *)
DeleteSandbox(s) == row' = [row EXCEPT ![s] = "gone"]

Handling(k, m) == at[k] # "idle" /\ <<on[k], copy[k]>> = m

(* The place of a job that is done with is free for another copy.          *)
Free(k, m) ==
  job[k][m] \in Settled \cup {"none"} /\ again[k][m] = 0 /\ ~Handling(k, m)

(* The stream.  A publication with an id that is still in the duplicate    *)
(* window is acknowledged and dropped.                                     *)
Stored(k, s) ==
  \/ seen[k][s] /\ UNCHANGED streamVars
  \/ /\ ~seen[k][s] /\ seen' = [seen EXCEPT ![k][s] = TRUE]
     /\ \E c \in Copies :
          /\ Free(k, <<s, c>>) /\ \A d \in Copies : d < c => ~Free(k, <<s, d>>)
          /\ job' = [job EXCEPT ![k][<<s, c>>] = "queued"]
          /\ deliveries' = [deliveries EXCEPT ![k][<<s, c>>] = 0]
     /\ UNCHANGED again

Publish(k, s) == Stored(k, s) /\ NoFault

(* An error of the publication does not say whether the job was stored.    *)
PublishFails(k, s) == (Stored(k, s) \/ UNCHANGED streamVars) /\ Fault

-----------------------------------------------------------------------------
(* The daemon.                                                             *)
Goto(r, l) == req' = [req EXCEPT ![r] = l] /\ UNCHANGED reqFor

Return(r) ==
  /\ req' = [req EXCEPT ![r] = "idle"]
  /\ reqFor' = [reqFor EXCEPT ![r] = NoSandbox]

Create(r, s) ==
  /\ req[r] = "idle" /\ CreateSandbox(s)
  /\ req' = [req EXCEPT ![r] = "dispatchCreate"]
  /\ reqFor' = [reqFor EXCEPT ![r] = s]
  /\ UNCHANGED <<streamVars, workerVars, vmmVars, faults, crashes>>

DispatchCreate(r) ==
  /\ req[r] = "dispatchCreate"
  /\ \/ Publish("create", reqFor[r]) /\ Return(r)
     \/ PublishFails("create", reqFor[r]) /\ Goto(r, "createFailed")
  /\ UNCHANGED <<row, workerVars, vmmVars, crashes>>

CreateFailed(r) ==
  /\ req[r] = "createFailed"
  /\ UpdateStatus(reqFor[r], "failed") \/ UpdateStatusFails(reqFor[r])
  /\ Return(r)
  /\ UNCHANGED <<streamVars, workerVars, vmmVars, crashes>>

(* Delete reads the row first and writes it in a second statement.         *)
Delete(r, s) ==
  /\ req[r] = "idle" /\ GetSandboxByID(s)
  /\ req' = [req EXCEPT ![r] = "markStopping"]
  /\ reqFor' = [reqFor EXCEPT ![r] = s]
  /\ UNCHANGED <<row, streamVars, workerVars, vmmVars, faults, crashes>>

MarkStopping(r) ==
  /\ req[r] = "markStopping"
  /\ \/ UpdateStatus(reqFor[r], "stopping") /\ Goto(r, "dispatchDestroy")
     \/ UpdateStatusFails(reqFor[r]) /\ Return(r)
  /\ UNCHANGED <<streamVars, workerVars, vmmVars, crashes>>

DispatchDestroy(r) ==
  /\ req[r] = "dispatchDestroy"
  /\ \/ Publish("destroy", reqFor[r]) /\ Return(r)
     \/ PublishFails("destroy", reqFor[r]) /\ Goto(r, "destroyFailed")
  /\ UNCHANGED <<row, workerVars, vmmVars, crashes>>

DestroyFailed(r) ==
  /\ req[r] = "destroyFailed"
  /\ UpdateStatus(reqFor[r], "cleanup_failed") \/ UpdateStatusFails(reqFor[r])
  /\ Return(r)
  /\ UNCHANGED <<streamVars, workerVars, vmmVars, crashes>>
-----------------------------------------------------------------------------
Begin(k, m) ==
  /\ at' = [at EXCEPT ![k] = "begin"]
  /\ on' = [on EXCEPT ![k] = m[1]]
  /\ copy' = [copy EXCEPT ![k] = m[2]]

(* The consumers of the stream.  A job that was delivered and neither      *)
(* acknowledged nor refused comes back after AckWait, unless it has used   *)
(* up its deliveries; it then stays in the stream and is delivered no more.*)
Deliver(k, m) ==
  /\ at[k] = "idle" /\ job[k][m] = "queued"
  /\ job' = [job EXCEPT ![k][m] = "delivered"]
  /\ deliveries' = [deliveries EXCEPT ![k][m] = @ + 1]
  /\ Begin(k, m)
  /\ UNCHANGED <<row, daemonVars, seen, again, vmmVars, faults, crashes>>

DeliverAgain(k, m) ==
  /\ at[k] = "idle" /\ again[k][m] > 0
  /\ again' = [again EXCEPT ![k][m] = @ - 1]
  /\ Begin(k, m)
  /\ UNCHANGED <<row, daemonVars, job, deliveries, seen, vmmVars, faults, crashes>>

(* The handler outlasts AckWait: the same job is delivered to the busy     *)
(* loop, which handles it when it is done, whatever it answers meanwhile.  *)
AckWaitExpires(k, m) ==
  /\ Handling(k, m) /\ job[k][m] = "delivered" /\ deliveries[k][m] < MaxDeliver
  /\ deliveries' = [deliveries EXCEPT ![k][m] = @ + 1]
  /\ again' = [again EXCEPT ![k][m] = @ + 1]
  /\ UNCHANGED <<row, daemonVars, job, seen, workerVars, vmmVars, faults, crashes>>

(* Faulty variant of Requeued: no limit on the deliveries.                 *)
RequeuedAlways(k, m) == "queued"

Requeued(k, m) == IF deliveries[k][m] < MaxDeliver THEN "queued" ELSE "exhausted"

(* The stream's answer to a job; the deliveries of a settled one are done. *)
Answered(k, m, state) ==
  /\ job' = [job EXCEPT ![k][m] = state]
  /\ deliveries' = [deliveries EXCEPT ![k][m] = IF state \in Settled THEN 0 ELSE @]

(* No handler will answer any more: the answer was lost or the worker died.*)
Requeue(k, m) ==
  /\ job[k][m] = "delivered" /\ ~Handling(k, m) /\ again[k][m] = 0
  /\ Answered(k, m, Requeued(k, m))
  /\ UNCHANGED <<row, daemonVars, seen, again, workerVars, vmmVars, faults, crashes>>

(* The duplicate window of ten minutes is over, wherever the job stands:   *)
(* its deliveries, or an outage of the worker, may take longer.  A create  *)
(* job is published once, so that only a destroy job's id is missed.       *)
Forget(s) ==
  /\ seen["destroy"][s] /\ seen' = [seen EXCEPT !["destroy"][s] = FALSE]
  /\ UNCHANGED <<row, daemonVars, job, deliveries, again, workerVars, vmmVars, faults, crashes>>

-----------------------------------------------------------------------------
(* The worker: what every handler does.                                    *)
Proceed(k, l) == at' = [at EXCEPT ![k] = l] /\ UNCHANGED <<on, copy>>

Idle(k) ==
  /\ at' = [at EXCEPT ![k] = "idle"]
  /\ on' = [on EXCEPT ![k] = NoSandbox]
  /\ copy' = [copy EXCEPT ![k] = 1]

Mark(k, status, next) ==
  /\ \/ UpdateStatus(on[k], status) /\ Proceed(k, next)
     \/ UpdateStatusFails(on[k]) /\ Proceed(k, "nak")
  /\ UNCHANGED <<daemonVars, streamVars, vmmVars, crashes>>

(* The error of writing a failure status is dropped.                       *)
MarkError(k, status) ==
  /\ UpdateStatus(on[k], status) \/ UpdateStatusFails(on[k])
  /\ Proceed(k, "nak")
  /\ UNCHANGED <<daemonVars, streamVars, vmmVars, crashes>>

Ack(k) ==
  /\ at[k] = "ack"
  /\ \/ Answered(k, <<on[k], copy[k]>>, "acked") /\ NoFault
     \/ UNCHANGED <<job, deliveries>> /\ Fault
  /\ Idle(k)
  /\ UNCHANGED <<row, daemonVars, seen, again, vmmVars, crashes>>

Nak(k) ==
  /\ at[k] = "nak"
  /\ LET m == <<on[k], copy[k]>> IN
       \/ job[k][m] = "delivered" /\ Answered(k, m, Requeued(k, m))
       \/ job[k][m] # "delivered" /\ UNCHANGED <<job, deliveries>>
  /\ Idle(k)
  /\ UNCHANGED <<row, daemonVars, seen, again, vmmVars, faults, crashes>>

-----------------------------------------------------------------------------
(* Faulty variant of MarkProvisioning: its error is acknowledged.          *)
MarkProvisioningAcks ==
  /\ at["create"] = "begin"
  /\ \/ UpdateStatus(on["create"], "provisioning") /\ Proceed("create", "provision")
     \/ UpdateStatusFails(on["create"]) /\ Proceed("create", "ack")
  /\ UNCHANGED <<daemonVars, streamVars, vmmVars, crashes>>

(* handleSandboxCreate.                                                    *)
MarkProvisioning ==
  at["create"] = "begin" /\ Mark("create", "provisioning", "provision")

(* Faulty variant of ProvisionBegin: a VM that exists counts as provisioned.*)
ProvisionBeginReuses ==
  LET s == on["create"] IN
  /\ at["create"] = "provision" /\ NoFault
  /\ \/ /\ vms[s] = "none"
        /\ vms' = [vms EXCEPT ![s] = "busy"] /\ Proceed("create", "provisioning")
     \/ vms[s] # "none" /\ UNCHANGED vms /\ Proceed("create", "markRunning")
  /\ UNCHANGED <<row, daemonVars, streamVars, strays, crashes>>

(* ProvisionVM up to the insertion into the manager's map: refused when    *)
(* the id is there already, or for lack of room.                           *)
ProvisionBegin ==
  LET s == on["create"] IN
  /\ at["create"] = "provision"
  /\ \/ /\ vms[s] = "none" /\ NoFault
        /\ vms' = [vms EXCEPT ![s] = "busy"] /\ Proceed("create", "provisioning")
     \/ vms[s] # "none" /\ NoFault /\ UNCHANGED vms /\ Proceed("create", "markFailed")
     \/ vms[s] = "none" /\ Fault /\ UNCHANGED vms /\ Proceed("create", "markFailed")
  /\ UNCHANGED <<row, daemonVars, streamVars, strays, crashes>>

(* Configure and Start.  A VM whose entry was removed meanwhile starts all *)
(* the same and is a stray from then on; one that was stopped between the  *)
(* two does not.                                                           *)
ProvisionEnd ==
  LET s == on["create"]
      Becomes(e) == vms' = [vms EXCEPT ![s] = e] IN
  /\ at["create"] = "provisioning" /\ NoFault
  /\ \/ /\ vms[s] = "busy" /\ Becomes("up") /\ UNCHANGED strays
        /\ Proceed("create", "markRunning")
     \/ /\ vms[s] = "unlisted" /\ Becomes("none") /\ strays' = strays \cup {s}
        /\ Proceed("create", "markRunning")
     \/ /\ vms[s] \in {"doomed", "undone"} /\ Becomes("none") /\ UNCHANGED strays
        /\ Proceed("create", "markFailed")
  /\ UNCHANGED <<row, daemonVars, streamVars, crashes>>

(* Faulty variant of ProvisionFails: the entry is removed although the VM  *)
(* could not be stopped.                                                   *)
ProvisionFailsForgets ==
  LET s == on["create"] IN
  /\ at["create"] = "provisioning" /\ Fault
  /\ vms' = [vms EXCEPT ![s] = "none"] /\ strays' = strays \cup {s}
  /\ Proceed("create", "markFailed")
  /\ UNCHANGED <<row, daemonVars, streamVars, crashes>>

(* Configure or Start fails: removeFailedVM stops the VM and removes its   *)
(* entry, or leaves both to a later cleanup.                               *)
ProvisionFails ==
  LET s == on["create"] IN
  /\ at["create"] = "provisioning" /\ Fault
  /\ \E e \in IF Listed(s) THEN {"none", "failed"} ELSE {"none"} :
       vms' = [vms EXCEPT ![s] = e]
  /\ Proceed("create", "markFailed")
  /\ UNCHANGED <<row, daemonVars, streamVars, strays, crashes>>

MarkFailed == at["create"] = "markFailed" /\ MarkError("create", "failed")

MarkRunning == at["create"] = "markRunning" /\ Mark("create", "running", "ack")

-----------------------------------------------------------------------------
(* handleSandboxDestroy.  Stop does nothing to a VM that is being          *)
(* configured or started, and DestroyVM removes its entry; between the two *)
(* it stops the VM.                                                        *)
DestroyVM ==
  LET s == on["destroy"]
      Becomes(e) == vms' = [vms EXCEPT ![s] = e] IN
  /\ at["destroy"] = "begin"
  /\ \/ ~Listed(s) /\ NoFault /\ UNCHANGED vms /\ Proceed("destroy", "markCleanupFailed")
     \/ /\ Listed(s) /\ NoFault /\ Proceed("destroy", "markStopped")
        /\ \/ vms[s] = "busy" /\ (Becomes("unlisted") \/ Becomes("undone"))
           \/ vms[s] = "doomed" /\ Becomes("undone")
           \/ vms[s] \in {"up", "failed"} /\ Becomes("none")
     \/ /\ Listed(s) /\ Fault /\ Proceed("destroy", "markCleanupFailed")
        /\ Becomes(IF vms[s] \in {"busy", "doomed"} THEN "doomed" ELSE "failed")
  /\ UNCHANGED <<row, daemonVars, streamVars, strays, crashes>>

(* Faulty variant of MarkCleanupFailed: the row is not written.            *)
MarkCleanupFailedSkips ==
  /\ at["destroy"] = "markCleanupFailed" /\ Proceed("destroy", "nak")
  /\ UNCHANGED <<row, daemonVars, streamVars, vmmVars, faults, crashes>>

MarkCleanupFailed ==
  at["destroy"] = "markCleanupFailed" /\ MarkError("destroy", "cleanup_failed")

(* Faulty variant of MarkStopped: the row is not deleted.                  *)
MarkStoppedAcks == at["destroy"] = "markStopped" /\ Mark("destroy", "stopped", "ack")

MarkStopped == at["destroy"] = "markStopped" /\ Mark("destroy", "stopped", "deleteRow")

DeleteRow ==
  /\ at["destroy"] = "deleteRow"
  /\ \/ DeleteSandbox(on["destroy"]) /\ NoFault /\ Proceed("destroy", "ack")
     \/ UNCHANGED row /\ Fault /\ Proceed("destroy", "nak")
  /\ UNCHANGED <<daemonVars, streamVars, vmmVars, crashes>>

(* The worker exits, or dies, and starts again with an empty manager and   *)
(* no memory of what it handled.  Virtual machines may outlive it.         *)
Restart ==
  /\ crashes < MaxCrashes /\ crashes' = crashes + 1
  /\ at' = [k \in Kinds |-> "idle"]
  /\ on' = [k \in Kinds |-> NoSandbox]
  /\ copy' = [k \in Kinds |-> 1]
  /\ again' = [k \in Kinds |-> [m \in Jobs |-> 0]]
  /\ vms' = [s \in Sandboxes |-> "none"]
  /\ \E alive \in SUBSET {s \in Sandboxes : vms[s] # "none"} : strays' = strays \cup alive
  /\ UNCHANGED <<row, daemonVars, job, deliveries, seen, faults>>

-----------------------------------------------------------------------------
Request(r) ==
  \/ DispatchCreate(r) \/ CreateFailed(r)
  \/ MarkStopping(r) \/ DispatchDestroy(r) \/ DestroyFailed(r)

Stream(k, m) ==
  Deliver(k, m) \/ DeliverAgain(k, m) \/ Requeue(k, m) \/ AckWaitExpires(k, m)

CreateStep ==
  \/ MarkProvisioning \/ ProvisionBegin \/ ProvisionEnd \/ ProvisionFails
  \/ MarkFailed \/ MarkRunning

DestroyStep == DestroyVM \/ MarkCleanupFailed \/ MarkStopped \/ DeleteRow

Next ==
  \/ \E r \in Requests : Request(r) \/ \E s \in Sandboxes : Create(r, s) \/ Delete(r, s)
  \/ \E k \in Kinds :
       \/ Ack(k) \/ Nak(k)
       \/ \E m \in Jobs : Stream(k, m)
  \/ \E s \in Sandboxes : Forget(s)
  \/ CreateStep \/ DestroyStep \/ Restart

Spec == Init /\ [][Next]_vars

(* A request and a handler go on until they return; a queued job is        *)
(* delivered to an idle loop.  No job is passed over forever.              *)
FairSpec ==
  /\ Spec
  /\ \A r \in Requests : WF_vars(Request(r))
  /\ \A k \in Kinds : WF_vars(Ack(k) \/ Nak(k))
  /\ \A k \in Kinds, m \in Jobs :
       SF_vars(Deliver(k, m)) /\ SF_vars(DeliverAgain(k, m)) /\ WF_vars(Requeue(k, m))
  /\ WF_vars(CreateStep) /\ WF_vars(DestroyStep)

-----------------------------------------------------------------------------
RequestSteps ==
  {"idle", "dispatchCreate", "createFailed", "markStopping", "dispatchDestroy", "destroyFailed"}

LoopSteps ==
  [create |-> {"idle", "begin", "provision", "provisioning", "markFailed", "markRunning",
               "ack", "nak"},
   destroy |-> {"idle", "begin", "markCleanupFailed", "markStopped", "deleteRow", "ack", "nak"}]

(* Every variable has its type; a request or loop that is under way has a  *)
(* sandbox in hand, and no job is delivered more than MaxDeliver times.    *)
TypeOK ==
  /\ row \in [Sandboxes -> Statuses \cup {"none", "gone"}]
  /\ req \in [Requests -> RequestSteps]
  /\ \A r \in Requests :
       reqFor[r] \in IF req[r] = "idle" THEN {NoSandbox} ELSE Sandboxes
  /\ job \in [Kinds -> [Jobs -> Settled \cup {"none", "queued", "delivered"}]]
  /\ deliveries \in [Kinds -> [Jobs -> 0..MaxDeliver]]
  /\ seen \in [Kinds -> [Sandboxes -> BOOLEAN]]
  /\ again \in [Kinds -> [Jobs -> 0..MaxDeliver]]
  /\ \A k \in Kinds :
       /\ at[k] \in LoopSteps[k]
       /\ on[k] \in IF at[k] = "idle" THEN {NoSandbox} ELSE Sandboxes
       /\ copy[k] \in Copies
  /\ vms \in [Sandboxes -> VmStates]
  /\ strays \subseteq Sandboxes
  /\ faults \in 0..MaxFaults /\ crashes \in 0..MaxCrashes

(* A destroy job is acknowledged only when the sandbox's row is gone, and  *)
(* the row stays gone, whatever create job, request, redelivery or second  *)
(* copy of the same job was under way (consumer.go: Ack after              *)
(* handleSandboxDestroy returned nil).                                     *)
AckedDestroyIsGone ==
  \A m \in Jobs : job["destroy"][m] = "acked" => row[m[1]] = "gone"

DestroyStored(s) == \E m \in Jobs : m[1] = s /\ job["destroy"][m] # "none"

(* While the worker does not restart, a row says "running" only of a       *)
(* virtual machine that was started and not stopped since, unless a        *)
(* destroy job for it was stored: a refused or repeated create job never   *)
(* reports a VM that is not there.                                         *)
RunningBacked ==
  \A s \in Sandboxes :
    row[s] = "running" /\ crashes = 0 /\ ~DestroyStored(s) => vms[s] = "up" \/ s \in strays

(* Without a restart and without a Delete the manager's entry is never     *)
(* lost: a virtual machine without an entry is the work of a destroy job.  *)
StraysDestroyed ==
  \A s \in strays : crashes > 0 \/ DestroyStored(s)

(* A row that was deleted is never written again (UpdateSandboxStatus      *)
(* updates and does not insert), and no virtual machine is provisioned for *)
(* a create job that starts after the deletion.                            *)
GoneForGood ==
  [][\A s \in Sandboxes : row[s] = "gone" =>
       /\ row'[s] = "gone"
       /\ at["create"] = "begin" /\ on["create"] = s => at'["create"] \in {"begin", "nak", "idle"}]_vars

(* A sandbox whose create job was stored does not stay pending while the   *)
(* worker stays up: the redeliveries outlive fewer failures than           *)
(* MaxDeliver.                                                             *)
CreateSettles ==
  \A m \in Jobs :
    row[m[1]] = "pending" /\ job["create"][m] = "queued" ~> row[m[1]] # "pending" \/ crashes > 0

(* A destroy job that was stored shows in the sandbox's row while the      *)
(* worker stays up and the failures are fewer than MaxDeliver: the row is  *)
(* deleted, or it says that the cleanup failed, although the create        *)
(* handler writes the same row and handlers outlast their ack wait.        *)
DestroyReported ==
  \A m \in Jobs :
    job["destroy"][m] = "queued" /\ deliveries["destroy"][m] = 0
      ~> row[m[1]] \in {"gone", "cleanup_failed"} \/ crashes > 0
=============================================================================
