--------------------------- MODULE SandboxProofs ----------------------------
(***************************************************************************)
(* The safety of the sandbox lifecycle for any number of sandboxes,        *)
(* requests, deliveries, faults and restarts of the worker.  The invariant *)
(* has three parts: the types, what the stream knows of a job (JobInv) and *)
(* what ties the row of a sandbox to its virtual machine (VmInv).          *)
(***************************************************************************)
EXTENDS SandboxLifecycle, TLAPS

JobStates == Settled \cup {"none", "queued", "delivered"}

(* The types, with the domains of the functions.                           *)
Types ==
  /\ TypeOK
  /\ reqFor \in [Requests -> Sandboxes \cup {NoSandbox}]
  /\ at \in [Kinds -> LoopSteps["create"] \cup LoopSteps["destroy"]]
  /\ on \in [Kinds -> Sandboxes \cup {NoSandbox}]
  /\ copy \in [Kinds -> Copies]

(* A redelivery in the buffer was counted, a queued job has a delivery     *)
(* left, and what is handled was stored.  This holds of every copy of a    *)
(* job, whether or not the duplicate window kept a second one out.         *)
JobInv(k, m) ==
  /\ job[k][m] \notin Settled => again[k][m] <= deliveries[k][m]
  /\ job[k][m] = "queued" => deliveries[k][m] < MaxDeliver
  /\ again[k][m] > 0 \/ <<on[k], copy[k]>> = m => job[k][m] # "none"

(* A VM is between two states exactly while the create loop provisions it; *)
(* only a destroy job takes its entry or its start away.                   *)
Unfinished == {"busy", "unlisted", "doomed", "undone"}

VmInv(s) ==
  /\ vms[s] \in Unfinished <=> at["create"] = "provisioning" /\ on["create"] = s
  /\ vms[s] \in Unfinished \ {"busy"} => DestroyStored(s)
  /\ \/ ~(row[s] = "running" \/ (at["create"] = "markRunning" /\ on["create"] = s))
     \/ crashes > 0 \/ DestroyStored(s) \/ vms[s] = "up" \/ s \in strays
  /\ s \in strays => crashes > 0 \/ DestroyStored(s)

(* The destroy handler acknowledges what it has deleted.                   *)
GoneInv(s) ==
  /\ at["destroy"] = "ack" /\ on["destroy"] = s => row[s] = "gone"
  /\ \A m \in Jobs : m[1] = s /\ job["destroy"][m] = "acked" => row[s] = "gone"

LifeInv ==
  /\ Types
  /\ \A k \in Kinds, m \in Jobs : JobInv(k, m)
  /\ \A s \in Sandboxes : VmInv(s) /\ GoneInv(s)

(* A copy of a job is one of the copies of a sandbox's job.                *)
LEMMA JobPairs ==
  /\ \A m \in Jobs : m[1] \in Sandboxes /\ m[2] \in Copies /\ m = <<m[1], m[2]>>
  /\ \A s \in Sandboxes, c \in Copies : <<s, c>> \in Jobs /\ <<s, c>>[1] = s
  /\ \A c : <<NoSandbox, c>> \notin Jobs
  /\ 1 \in Copies
  BY SandboxAssumption, DeliveryAssumption DEF Jobs, Copies

(* A sandbox and a copy make a job.                                        *)
LEMMA PairOf ==
  ASSUME NEW s \in Sandboxes, NEW c \in Copies
  PROVE  \E m \in Jobs : m = <<s, c>> /\ m[1] = s
<1>1. <<s, c>> \in Jobs /\ <<s, c>>[1] = s
  BY JobPairs
<1> QED
  BY <1>1, Zenon

(* The invariant of the lifecycle holds at the start.                      *)
LEMMA LifeInit == Init => LifeInv
<1> SUFFICES ASSUME Init PROVE LifeInv
  OBVIOUS
<1>1. Types
  BY DeliveryAssumption DEF Init, Types, TypeOK, Statuses, RequestSteps, Settled, LoopSteps,
     Kinds, VmStates, Copies
<1>2. \A k \in Kinds, m \in Jobs : JobInv(k, m)
  <2> SUFFICES ASSUME NEW k \in Kinds, NEW m \in Jobs PROVE JobInv(k, m)
    OBVIOUS
  <2>1. job[k][m] = "none" /\ again[k][m] = 0 /\ deliveries[k][m] = 0 /\ on[k] = NoSandbox
    BY DEF Init
  <2>2. <<on[k], copy[k]>> # m
    BY <2>1, JobPairs
  <2> QED
    BY <2>1, <2>2, DeliveryAssumption DEF JobInv
<1>3. \A s \in Sandboxes : VmInv(s) /\ GoneInv(s)
  BY SandboxAssumption DEF Init, VmInv, GoneInv, Unfinished, Kinds, Statuses
<1> QED
  BY <1>1, <1>2, <1>3 DEF LifeInv

(* An entry of a table of jobs is written and the others are kept.         *)
LEMMA OneEntry ==
  ASSUME NEW S, NEW f \in [Kinds -> [Jobs -> S]],
         NEW k \in Kinds, NEW m \in Jobs, NEW v \in S, NEW g, g = [f EXCEPT ![k][m] = v]
  PROVE  /\ g \in [Kinds -> [Jobs -> S]] /\ g[k][m] = v
         /\ \A l \in Kinds, n \in Jobs : l # k \/ n # m => g[l][n] = f[l][n]
  OBVIOUS

(* The duplicate window of one id opens or ends.                           *)
LEMMA OneWindow ==
  ASSUME seen \in [Kinds -> [Sandboxes -> BOOLEAN]], NEW k \in Kinds, NEW s \in Sandboxes,
         NEW v \in BOOLEAN, seen' = [seen EXCEPT ![k][s] = v]
  PROVE  seen' \in [Kinds -> [Sandboxes -> BOOLEAN]]
  BY Zenon

(* The part of the types that belongs to the stream.                       *)
StreamTypes ==
  /\ job \in [Kinds -> [Jobs -> JobStates]]
  /\ deliveries \in [Kinds -> [Jobs -> 0..MaxDeliver]]
  /\ seen \in [Kinds -> [Sandboxes -> BOOLEAN]]
  /\ again \in [Kinds -> [Jobs -> 0..MaxDeliver]]

(* A step changes what the stream knows of one job only.                   *)
OtherJobs(k, m) ==
  \A l \in Kinds, n \in Jobs : l # k \/ n # m =>
    job'[l][n] = job[l][n] /\ deliveries'[l][n] = deliveries[l][n] /\ again'[l][n] = again[l][n]

(* A destroy job that is stored stays stored, in one state or another.     *)
StoredStays == \A n \in Jobs : job["destroy"][n] # "none" => job'["destroy"][n] # "none"

(* A publication adds at most one job, and takes none away.                *)
LEMMA StoredKeeps ==
  ASSUME LifeInv, NEW k \in Kinds, NEW s \in Sandboxes,
         Stored(k, s) \/ UNCHANGED streamVars, UNCHANGED <<on, copy>>
  PROVE  /\ StreamTypes' /\ \A l \in Kinds, n \in Jobs : JobInv(l, n)'
         /\ StoredStays
         /\ \A n \in Jobs : job'["destroy"][n] = "acked" => job["destroy"][n] = "acked"
<1>1. StreamTypes /\ MaxDeliver \in Nat \ {0}
  BY DeliveryAssumption DEF LifeInv, Types, TypeOK, StreamTypes, JobStates
<1>2. CASE UNCHANGED streamVars
  BY <1>1, <1>2, Zenon DEF streamVars, StreamTypes, StoredStays, LifeInv, JobInv
<1>3. CASE ~UNCHANGED streamVars
  <2>1. PICK c \in Copies :
          /\ Free(k, <<s, c>>) /\ job' = [job EXCEPT ![k][<<s, c>>] = "queued"]
          /\ deliveries' = [deliveries EXCEPT ![k][<<s, c>>] = 0]
    BY <1>3, Zenon DEF Stored
  <2>2. PICK m \in Jobs : m = <<s, c>>
    BY JobPairs, Zenon
  <2>3. /\ job' = [job EXCEPT ![k][m] = "queued"] /\ deliveries' = [deliveries EXCEPT ![k][m] = 0]
        /\ seen' = [seen EXCEPT ![k][s] = TRUE] /\ again' = again /\ again[k][m] = 0
    BY <1>3, <2>1, <2>2, Zenon DEF Stored, Free
  <2>4. "queued" \in JobStates /\ 0 \in 0..MaxDeliver /\ TRUE \in BOOLEAN
    BY <1>1 DEF JobStates
  <2>5. /\ job' \in [Kinds -> [Jobs -> JobStates]] /\ job'[k][m] = "queued"
        /\ \A l \in Kinds, n \in Jobs : l # k \/ n # m => job'[l][n] = job[l][n]
    BY <1>1, <2>3, <2>4, OneEntry DEF StreamTypes
  <2>6. /\ deliveries' \in [Kinds -> [Jobs -> 0..MaxDeliver]] /\ deliveries'[k][m] = 0
        /\ \A l \in Kinds, n \in Jobs : l # k \/ n # m => deliveries'[l][n] = deliveries[l][n]
    BY <1>1, <2>3, <2>4, OneEntry DEF StreamTypes
  <2>7. seen' \in [Kinds -> [Sandboxes -> BOOLEAN]]
    BY <1>1, <2>3, <2>4, OneWindow, Zenon DEF StreamTypes
  <2>8. StreamTypes' /\ OtherJobs(k, m)
    BY <1>1, <2>3, <2>5, <2>6, <2>7, Zenon DEF StreamTypes, OtherJobs
  <2>9. JobInv(k, m)'
    <3>1. job'[k][m] = "queued" /\ deliveries'[k][m] = 0 /\ again'[k][m] = 0
      BY <2>3, <2>5, <2>6, Zenon
    <3> QED
      BY <1>1, <3>1 DEF JobInv
  <2>10. ASSUME NEW l \in Kinds, NEW n \in Jobs, l # k \/ n # m PROVE JobInv(l, n)'
    <3>1. JobInv(l, n)
      BY Zenon DEF LifeInv
    <3>2. /\ job'[l][n] = job[l][n] /\ deliveries'[l][n] = deliveries[l][n]
          /\ again'[l][n] = again[l][n] /\ on' = on /\ copy' = copy
      BY <2>8, <2>10, Zenon DEF OtherJobs
    <3> QED
      BY <3>1, <3>2, Zenon DEF JobInv
  <2>11. \A l \in Kinds, n \in Jobs : JobInv(l, n)'
    BY <2>9, <2>10, Zenon
  <2>12. StoredStays /\ \A n \in Jobs : job'["destroy"][n] = "acked" => job["destroy"][n] = "acked"
    BY <2>5 DEF StoredStays, Kinds
  <2> QED
    BY <2>8, <2>11, <2>12
<1> QED
  BY <1>2, <1>3

(* What a write of the status column may do.                               *)
LEMMA StatusWrite ==
  ASSUME LifeInv, NEW s \in Sandboxes, NEW status \in Statuses,
         UpdateStatus(s, status) \/ UpdateStatusFails(s)
  PROVE  /\ row' \in [Sandboxes -> Statuses \cup {"none", "gone"}] /\ faults' \in 0..MaxFaults
         /\ \A t \in Sandboxes :
              /\ row[t] = "gone" => row'[t] = "gone"
              /\ row'[t] # row[t] => t = s /\ row'[t] = status
<1>1. row \in [Sandboxes -> Statuses \cup {"none", "gone"}] /\ faults \in 0..MaxFaults
  BY DEF LifeInv, Types, TypeOK
<1>2. faults' \in 0..MaxFaults
  <2>1. UNCHANGED faults \/ Fault
    BY Zenon DEF UpdateStatus, UpdateStatusFails, NoFault
  <2> QED
    BY <1>1, <2>1, DeliveryAssumption DEF Fault
<1>3. UNCHANGED row \/ (row[s] # "gone" /\ row' = [row EXCEPT ![s] = status])
  <2>1. Present(s) => row[s] # "gone"
    BY Zenon DEF Present, Statuses
  <2> QED
    BY <2>1, Zenon DEF UpdateStatus, UpdateStatusFails
<1> QED
  BY <1>1, <1>2, <1>3

(* What was asked for stays asked for.                                     *)
LEMMA StillStored ==
  ASSUME StoredStays, NEW s, DestroyStored(s)
  PROVE  DestroyStored(s)'
  BY Zenon DEF StoredStays, DestroyStored

(* Steps outside of the worker say nothing new about a virtual machine.    *)
LEMMA WorkerUntouched ==
  ASSUME LifeInv, UNCHANGED <<workerVars, vmmVars, crashes>>, StoredStays,
         \A n \in Jobs : job'["destroy"][n] = "acked" => job["destroy"][n] = "acked",
         \A t \in Sandboxes :
           /\ row[t] = "gone" => row'[t] = "gone"
           /\ row'[t] = "running" => row[t] = "running"
  PROVE  \A s \in Sandboxes : VmInv(s)' /\ GoneInv(s)'
<1> SUFFICES ASSUME NEW s \in Sandboxes PROVE VmInv(s)' /\ GoneInv(s)'
  OBVIOUS
<1>1. VmInv(s) /\ GoneInv(s) /\ (DestroyStored(s) => DestroyStored(s)')
  BY StillStored, Zenon DEF LifeInv
<1>2. VmInv(s)'
  BY <1>1, Zenon DEF VmInv, workerVars, vmmVars
<1>3. GoneInv(s)'
  BY <1>1, Zenon DEF GoneInv, workerVars
<1> QED
  BY <1>2, <1>3

(* What a request of the API does to the row and to the stream.            *)
LEMMA RequestEffects ==
  ASSUME LifeInv, NEW r \in Requests,
         Request(r) \/ \E s \in Sandboxes : Create(r, s) \/ Delete(r, s)
  PROVE  /\ row' \in [Sandboxes -> Statuses \cup {"none", "gone"}] /\ faults' \in 0..MaxFaults
         /\ \A t \in Sandboxes :
              /\ row[t] = "gone" => row'[t] = "gone"
              /\ row'[t] = "running" => row[t] = "running"
         /\ \E k \in Kinds, s \in Sandboxes : Stored(k, s) \/ UNCHANGED streamVars
         /\ UNCHANGED <<workerVars, vmmVars, crashes>>
<1>1. ASSUME NEW s \in Sandboxes, Create(r, s) \/ Delete(r, s)
      PROVE  /\ row' \in [Sandboxes -> Statuses \cup {"none", "gone"}] /\ UNCHANGED faults
             /\ \A t \in Sandboxes :
                  /\ row[t] = "gone" => row'[t] = "gone"
                  /\ row'[t] = "running" => row[t] = "running"
             /\ UNCHANGED <<streamVars, workerVars, vmmVars, crashes>>
  <2>1. CASE Delete(r, s)
    BY <2>1 DEF Delete, LifeInv, Types, TypeOK
  <2>2. CASE Create(r, s)
    BY <2>2 DEF Create, CreateSandbox, LifeInv, Types, TypeOK, Statuses
  <2> QED
    BY <1>1, <2>1, <2>2
<1>2. ASSUME Request(r)
      PROVE  reqFor[r] \in Sandboxes
  BY <1>2 DEF Request, DispatchCreate, CreateFailed, MarkStopping, DispatchDestroy, DestroyFailed,
     LifeInv, Types, TypeOK
<1>3. CASE DispatchCreate(r) \/ DispatchDestroy(r)
  <2>1. /\ UNCHANGED <<row, workerVars, vmmVars, crashes>> /\ faults' \in 0..MaxFaults
        /\ Stored("create", reqFor[r]) \/ Stored("destroy", reqFor[r]) \/ UNCHANGED streamVars
    BY <1>3, DeliveryAssumption DEF DispatchCreate, DispatchDestroy, Publish, PublishFails,
       Fault, NoFault,
       LifeInv, Types, TypeOK
  <2> QED
    BY <1>2, <1>3, <2>1 DEF Request, Kinds, LifeInv, Types, TypeOK
<1>4. CASE CreateFailed(r) \/ MarkStopping(r) \/ DestroyFailed(r)
  <2>1. PICK status \in {"failed", "stopping", "cleanup_failed"} :
          UpdateStatus(reqFor[r], status) \/ UpdateStatusFails(reqFor[r])
    BY <1>4 DEF CreateFailed, MarkStopping, DestroyFailed
  <2>2. UNCHANGED <<streamVars, workerVars, vmmVars, crashes>>
    BY <1>4 DEF CreateFailed, MarkStopping, DestroyFailed
  <2> QED
    BY <1>2, <1>4, <2>1, <2>2, StatusWrite DEF Request, Statuses, Kinds
<1> QED
  BY <1>1, <1>3, <1>4 DEF Request, Kinds, LifeInv, Types, TypeOK

(* A request of the API keeps the invariant.                               *)
LEMMA RequestKeeps ==
  ASSUME LifeInv, NEW r \in Requests,
         Request(r) \/ \E s \in Sandboxes : Create(r, s) \/ Delete(r, s)
  PROVE  LifeInv'
<1>1. /\ req' \in [Requests -> RequestSteps]
      /\ reqFor' \in [Requests -> Sandboxes \cup {NoSandbox}]
      /\ \A q \in Requests : reqFor'[q] \in IF req'[q] = "idle" THEN {NoSandbox} ELSE Sandboxes
  <2>1. \/ req' = [req EXCEPT ![r] = "idle"] /\ reqFor' = [reqFor EXCEPT ![r] = NoSandbox]
        \/ /\ reqFor' = reqFor /\ reqFor[r] \in Sandboxes
           /\ \E l \in RequestSteps \ {"idle"} : req' = [req EXCEPT ![r] = l]
        \/ \E s \in Sandboxes, l \in RequestSteps \ {"idle"} :
             req' = [req EXCEPT ![r] = l] /\ reqFor' = [reqFor EXCEPT ![r] = s]
    <3>1. CASE Request(r)
      <4>1. reqFor[r] \in Sandboxes
        BY <3>1 DEF Request, DispatchCreate, CreateFailed, MarkStopping, DispatchDestroy,
           DestroyFailed,
           LifeInv, Types, TypeOK
      <4>2. Return(r) \/ Goto(r, "createFailed") \/ Goto(r, "dispatchDestroy") \/ Goto(r, "destroyFailed")
        BY <3>1 DEF Request, DispatchCreate, CreateFailed, MarkStopping, DispatchDestroy,
           DestroyFailed
      <4> QED
        BY <4>1, <4>2 DEF Return, Goto, RequestSteps
    <3>2. CASE \E s \in Sandboxes : Create(r, s) \/ Delete(r, s)
      BY <3>2 DEF Create, Delete, RequestSteps
    <3> QED
      BY <3>1, <3>2
  <2>2. PICK l \in RequestSteps, x \in Sandboxes \cup {NoSandbox} :
          /\ req' = [req EXCEPT ![r] = l] /\ reqFor' = [reqFor EXCEPT ![r] = x]
          /\ x \in IF l = "idle" THEN {NoSandbox} ELSE Sandboxes
    <3>1. reqFor = [reqFor EXCEPT ![r] = reqFor[r]]
      BY DEF LifeInv, Types
    <3> QED
      BY <2>1, <3>1 DEF RequestSteps
  <2>3. ASSUME NEW q \in Requests
        PROVE  reqFor'[q] \in IF req'[q] = "idle" THEN {NoSandbox} ELSE Sandboxes
    <3>1. CASE q = r
      BY <2>2, <3>1 DEF LifeInv, Types, TypeOK
    <3>2. CASE q # r
      BY <2>2, <3>2 DEF LifeInv, Types, TypeOK
    <3> QED
      BY <3>1, <3>2
  <2> QED
    BY <2>2, <2>3 DEF LifeInv, Types, TypeOK
<1>2. PICK k \in Kinds, s \in Sandboxes : Stored(k, s) \/ UNCHANGED streamVars
  BY RequestEffects
<1>3. UNCHANGED <<workerVars, vmmVars, crashes>>
  BY RequestEffects, Zenon
<1>4. Types'
  BY <1>1, <1>2, <1>3, RequestEffects, StoredKeeps, Zenon
  DEF LifeInv, Types, TypeOK, StreamTypes, JobStates, workerVars, vmmVars
<1>5. \A l \in Kinds, n \in Jobs : JobInv(l, n)'
  BY <1>2, <1>3, StoredKeeps, Zenon DEF workerVars
<1>6. \A t \in Sandboxes : VmInv(t)' /\ GoneInv(t)'
  BY <1>2, <1>3, RequestEffects, StoredKeeps, WorkerUntouched DEF workerVars
<1> QED
  BY <1>4, <1>5, <1>6 DEF LifeInv

-----------------------------------------------------------------------------
(* The part of the types that belongs to the loops of the worker.          *)
WorkerTypes ==
  /\ at \in [Kinds -> LoopSteps["create"] \cup LoopSteps["destroy"]]
  /\ on \in [Kinds -> Sandboxes \cup {NoSandbox}]
  /\ copy \in [Kinds -> Copies]
  /\ \A k \in Kinds :
       /\ at[k] \in LoopSteps[k]
       /\ on[k] \in IF at[k] = "idle" THEN {NoSandbox} ELSE Sandboxes
       /\ copy[k] \in Copies

(* A loop moves to one of its steps.                                       *)
LEMMA LoopMoves ==
  ASSUME LifeInv, NEW k \in Kinds, NEW l \in LoopSteps[k],
         NEW x \in Sandboxes \cup {NoSandbox}, NEW c \in Copies,
         l = "idle" => x = NoSandbox, l # "idle" => x \in Sandboxes,
         at' = [at EXCEPT ![k] = l], on' = [on EXCEPT ![k] = x], copy' = [copy EXCEPT ![k] = c]
  PROVE  /\ WorkerTypes' /\ at'[k] = l /\ on'[k] = x /\ copy'[k] = c
         /\ \A i \in Kinds : i # k => at'[i] = at[i] /\ on'[i] = on[i] /\ copy'[i] = copy[i]
<1>1. WorkerTypes
  BY DEF LifeInv, Types, TypeOK, WorkerTypes
<1>2. l \in LoopSteps["create"] \cup LoopSteps["destroy"] /\ x \in Sandboxes \cup {NoSandbox}
  BY DEF Kinds
<1>3. /\ at'[k] = l /\ on'[k] = x /\ copy'[k] = c
      /\ \A i \in Kinds : i # k => at'[i] = at[i] /\ on'[i] = on[i] /\ copy'[i] = copy[i]
  BY <1>1 DEF WorkerTypes
<1>4. /\ at' \in [Kinds -> LoopSteps["create"] \cup LoopSteps["destroy"]]
      /\ on' \in [Kinds -> Sandboxes \cup {NoSandbox}] /\ copy' \in [Kinds -> Copies]
  BY <1>1, <1>2 DEF WorkerTypes
<1>5. ASSUME NEW i \in Kinds
      PROVE  /\ at'[i] \in LoopSteps[i]
             /\ on'[i] \in IF at'[i] = "idle" THEN {NoSandbox} ELSE Sandboxes
             /\ copy'[i] \in Copies
  <2>1. CASE i = k
    BY <1>3, <2>1
  <2>2. CASE i # k
    BY <1>1, <1>3, <2>2 DEF WorkerTypes
  <2> QED
    BY <2>1, <2>2
<1> QED
  BY <1>3, <1>4, <1>5 DEF WorkerTypes

(* Only the loop of a kind takes a job or gives it back.                   *)
OneHandler(k, m) ==
  \A i \in Kinds : \/ on'[i] = on[i] /\ copy'[i] = copy[i]
                   \/ i = k /\ (<<on'[i], copy'[i]>> = m \/ on'[i] = NoSandbox)

(* A step about one job keeps what is known of the others.                 *)
LEMMA OneJob ==
  ASSUME LifeInv, NEW k \in Kinds, NEW m \in Jobs, OtherJobs(k, m), JobInv(k, m)',
         OneHandler(k, m)
  PROVE  \A i \in Kinds, n \in Jobs : JobInv(i, n)'
<1> SUFFICES ASSUME NEW i \in Kinds, NEW n \in Jobs, i # k \/ n # m
             PROVE  JobInv(i, n)'
  BY Zenon
<1>1. <<on'[i], copy'[i]>> = n => <<on[i], copy[i]>> = n
  BY JobPairs DEF OneHandler
<1>2. JobInv(i, n)
  BY Zenon DEF LifeInv
<1> QED
  BY <1>1, <1>2, Zenon DEF JobInv, OtherJobs

(* A delivery or an answer is outside of what the handlers do to a VM.     *)
LEMMA BetweenHandlers ==
  ASSUME LifeInv, NEW k \in Kinds, UNCHANGED <<row, vmmVars, crashes>>, StoredStays,
         \/ UNCHANGED workerVars
         \/ /\ at[k] \in {"idle", "ack", "nak"} /\ at'[k] \in {"idle", "begin"}
            /\ \A i \in Kinds : i # k => at'[i] = at[i] /\ on'[i] = on[i],
         \A n \in Jobs : job'["destroy"][n] = "acked" => row[n[1]] = "gone"
  PROVE  \A s \in Sandboxes : VmInv(s)' /\ GoneInv(s)'
<1> SUFFICES ASSUME NEW s \in Sandboxes PROVE VmInv(s)' /\ GoneInv(s)'
  OBVIOUS
<1>1. /\ at'["create"] = "provisioning" /\ on'["create"] = s <=> at["create"] = "provisioning" /\ on["create"] = s
      /\ at'["create"] = "markRunning" /\ on'["create"] = s <=> at["create"] = "markRunning" /\ on["create"] = s
      /\ at'["destroy"] = "ack" /\ on'["destroy"] = s => at["destroy"] = "ack" /\ on["destroy"] = s
  BY DEF workerVars, Kinds
<1>2. VmInv(s)'
  <2>1. VmInv(s) /\ (DestroyStored(s) => DestroyStored(s)')
    BY StillStored, Zenon DEF LifeInv
  <2> QED
    BY <1>1, <2>1, Zenon DEF VmInv, vmmVars
<1>3. GoneInv(s)'
  BY <1>1, Zenon DEF LifeInv, GoneInv
<1> QED
  BY <1>2, <1>3

(* The stream delivers a job to an idle loop.                              *)
LEMMA DeliverKeeps ==
  ASSUME LifeInv, NEW k \in Kinds, NEW m \in Jobs, Deliver(k, m) \/ DeliverAgain(k, m)
  PROVE  LifeInv'
<1>1. StreamTypes /\ JobInv(k, m) /\ MaxDeliver \in Nat
  BY DeliveryAssumption DEF LifeInv, Types, TypeOK, StreamTypes, JobStates
<1>2. /\ at[k] = "idle" /\ at' = [at EXCEPT ![k] = "begin"] /\ on' = [on EXCEPT ![k] = m[1]]
      /\ copy' = [copy EXCEPT ![k] = m[2]] /\ UNCHANGED <<row, daemonVars, seen, vmmVars, faults, crashes>>
  BY Zenon DEF Deliver, DeliverAgain, Begin
<1>3. "begin" \in LoopSteps[k] /\ m[1] \in Sandboxes /\ m[2] \in Copies /\ m = <<m[1], m[2]>>
  BY JobPairs DEF LoopSteps, Kinds
<1>4. /\ WorkerTypes' /\ at'[k] = "begin" /\ on'[k] = m[1] /\ copy'[k] = m[2]
      /\ \A i \in Kinds : i # k => at'[i] = at[i] /\ on'[i] = on[i] /\ copy'[i] = copy[i]
  BY <1>2, <1>3, LoopMoves, Zenon
<1>5. StreamTypes' /\ OtherJobs(k, m) /\ JobInv(k, m)' /\ job'[k][m] \in {job[k][m], "delivered"}
  <2>1. CASE Deliver(k, m)
    <3>1. /\ job[k][m] = "queued" /\ job' = [job EXCEPT ![k][m] = "delivered"] /\ again' = again
          /\ deliveries' = [deliveries EXCEPT ![k][m] = deliveries[k][m] + 1]
      BY <1>1, <2>1 DEF Deliver, StreamTypes
    <3>2. deliveries[k][m] + 1 \in 0..MaxDeliver /\ "delivered" \in JobStates
      BY <1>1, <3>1 DEF StreamTypes, JobInv, JobStates
    <3>3. /\ job' \in [Kinds -> [Jobs -> JobStates]] /\ job'[k][m] = "delivered"
          /\ \A i \in Kinds, n \in Jobs : i # k \/ n # m => job'[i][n] = job[i][n]
      BY <1>1, <3>1, <3>2, OneEntry DEF StreamTypes
    <3>4. /\ deliveries' \in [Kinds -> [Jobs -> 0..MaxDeliver]]
          /\ deliveries'[k][m] = deliveries[k][m] + 1
          /\ \A i \in Kinds, n \in Jobs : i # k \/ n # m => deliveries'[i][n] = deliveries[i][n]
      BY <1>1, <3>1, <3>2, OneEntry DEF StreamTypes
    <3>5. StreamTypes' /\ OtherJobs(k, m)
      BY <1>1, <1>2, <3>1, <3>3, <3>4, Zenon DEF StreamTypes, OtherJobs
    <3>6. JobInv(k, m)'
      BY <1>1, <3>1, <3>3, <3>4 DEF StreamTypes, JobInv, Settled
    <3> QED
      BY <3>3, <3>5, <3>6, Zenon
  <2>2. CASE DeliverAgain(k, m)
    <3>1. /\ again[k][m] > 0 /\ again' = [again EXCEPT ![k][m] = again[k][m] - 1]
          /\ UNCHANGED <<job, deliveries>>
      BY <1>1, <2>2 DEF DeliverAgain, StreamTypes
    <3>2. again[k][m] - 1 \in 0..MaxDeliver
      BY <1>1, <3>1 DEF StreamTypes
    <3>3. /\ again' \in [Kinds -> [Jobs -> 0..MaxDeliver]] /\ again'[k][m] = again[k][m] - 1
          /\ \A i \in Kinds, n \in Jobs : i # k \/ n # m => again'[i][n] = again[i][n]
      BY <1>1, <3>1, <3>2, OneEntry DEF StreamTypes
    <3>4. StreamTypes' /\ OtherJobs(k, m)
      BY <1>1, <1>2, <3>1, <3>3, Zenon DEF StreamTypes, OtherJobs
    <3>5. JobInv(k, m)'
      BY <1>1, <3>1, <3>3 DEF StreamTypes, JobInv
    <3> QED
      BY <3>1, <3>4, <3>5, Zenon
  <2> QED
    BY <2>1, <2>2
<1>6. Types'
  BY <1>2, <1>4, <1>5, Zenon DEF LifeInv, Types, TypeOK, StreamTypes, WorkerTypes, JobStates,
     daemonVars, vmmVars
<1>7. \A i \in Kinds, n \in Jobs : JobInv(i, n)'
  <2>1. OneHandler(k, m)
    <3> SUFFICES ASSUME NEW i \in Kinds
                 PROVE  \/ on'[i] = on[i] /\ copy'[i] = copy[i]
                        \/ i = k /\ <<on'[i], copy'[i]>> = m
      BY Zenon DEF OneHandler
    <3>1. CASE i = k
      BY <1>3, <1>4, <3>1, Zenon
    <3>2. CASE i # k
      BY <1>4, <3>2, Zenon
    <3> QED
      BY <3>1, <3>2
  <2> QED
    BY <1>5, <2>1, OneJob, Zenon
<1>8. \A t \in Sandboxes : VmInv(t)' /\ GoneInv(t)'
  <2>1. \A n \in Jobs : job'["destroy"][n] \in {job["destroy"][n], "delivered"}
    BY <1>5 DEF OtherJobs, Kinds
  <2>2. StoredStays /\ \A n \in Jobs : job'["destroy"][n] = "acked" => row[n[1]] = "gone"
    BY <2>1, JobPairs DEF StoredStays, LifeInv, GoneInv
  <2> QED
    BY <1>2, <1>4, <2>2, BetweenHandlers, Zenon
<1> QED
  BY <1>6, <1>7, <1>8 DEF LifeInv

(* A job that comes back, or is settled, keeps its account.                *)
LEMMA AnsweredKeeps ==
  ASSUME StreamTypes, NEW k \in Kinds, NEW m \in Jobs, JobInv(k, m), UNCHANGED <<seen, again>>,
         NEW v \in JobStates, Answered(k, m, v), v # "none",
         v = "queued" => deliveries[k][m] < MaxDeliver /\ job[k][m] = "delivered",
         v = "delivered" => job[k][m] = "delivered"
  PROVE  StreamTypes' /\ OtherJobs(k, m) /\ JobInv(k, m)' /\ job'[k][m] = v
<1>1. MaxDeliver \in Nat /\ deliveries[k][m] \in 0..MaxDeliver /\ 0 \in 0..MaxDeliver
  BY DeliveryAssumption DEF StreamTypes
<1>2. PICK d \in 0..MaxDeliver :
        deliveries' = [deliveries EXCEPT ![k][m] = d] /\ (v \notin Settled => d = deliveries[k][m])
  BY <1>1, Zenon DEF Answered, StreamTypes
<1>3. /\ job' \in [Kinds -> [Jobs -> JobStates]] /\ job'[k][m] = v
      /\ \A i \in Kinds, n \in Jobs : i # k \/ n # m => job'[i][n] = job[i][n]
  BY OneEntry DEF StreamTypes, Answered
<1>4. /\ deliveries' \in [Kinds -> [Jobs -> 0..MaxDeliver]] /\ deliveries'[k][m] = d
      /\ \A i \in Kinds, n \in Jobs : i # k \/ n # m => deliveries'[i][n] = deliveries[i][n]
  BY <1>2, OneEntry DEF StreamTypes
<1>5. StreamTypes' /\ OtherJobs(k, m)
  BY <1>3, <1>4, Zenon DEF StreamTypes, OtherJobs
<1>6. JobInv(k, m)'
  BY <1>2, <1>3, <1>4 DEF JobInv, Settled, JobStates
<1> QED
  BY <1>3, <1>5, <1>6

(* An ack wait expires, or a job comes back.                               *)
LEMMA TimersKeep ==
  ASSUME LifeInv, NEW k \in Kinds, NEW m \in Jobs, AckWaitExpires(k, m) \/ Requeue(k, m)
  PROVE  LifeInv'
<1>1. StreamTypes /\ JobInv(k, m) /\ MaxDeliver \in Nat
  BY DeliveryAssumption DEF LifeInv, Types, TypeOK, StreamTypes, JobStates
<1>2. UNCHANGED <<row, daemonVars, seen, workerVars, vmmVars, faults, crashes>>
  BY Zenon DEF AckWaitExpires, Requeue
<1>3. /\ StreamTypes' /\ OtherJobs(k, m) /\ JobInv(k, m)'
      /\ job'[k][m] = job[k][m] \/ job'[k][m] \in {"queued", "exhausted"}
  <2>1. CASE AckWaitExpires(k, m)
    <3>1. /\ job[k][m] = "delivered" /\ deliveries[k][m] < MaxDeliver /\ UNCHANGED <<job, seen>>
          /\ deliveries' = [deliveries EXCEPT ![k][m] = deliveries[k][m] + 1]
          /\ again' = [again EXCEPT ![k][m] = again[k][m] + 1]
      BY <1>1, <2>1 DEF AckWaitExpires, StreamTypes
    <3>2. deliveries[k][m] + 1 \in 0..MaxDeliver /\ again[k][m] + 1 \in 0..MaxDeliver
      BY <1>1, <3>1 DEF StreamTypes, JobInv, Settled
    <3>3. /\ deliveries' \in [Kinds -> [Jobs -> 0..MaxDeliver]]
          /\ deliveries'[k][m] = deliveries[k][m] + 1
          /\ \A i \in Kinds, n \in Jobs : i # k \/ n # m => deliveries'[i][n] = deliveries[i][n]
      BY <1>1, <3>1, <3>2, OneEntry DEF StreamTypes
    <3>4. /\ again' \in [Kinds -> [Jobs -> 0..MaxDeliver]]
          /\ again'[k][m] = again[k][m] + 1
          /\ \A i \in Kinds, n \in Jobs : i # k \/ n # m => again'[i][n] = again[i][n]
      BY <1>1, <3>1, <3>2, OneEntry DEF StreamTypes
    <3>5. StreamTypes' /\ OtherJobs(k, m)
      BY <1>1, <3>1, <3>3, <3>4, Zenon DEF StreamTypes, OtherJobs
    <3>6. JobInv(k, m)'
      BY <1>1, <3>1, <3>3, <3>4 DEF StreamTypes, JobInv, Settled
    <3> QED
      BY <3>1, <3>5, <3>6, Zenon
  <2>2. CASE Requeue(k, m)
    <3>1. PICK v \in {"queued", "exhausted"} :
            /\ Answered(k, m, v) /\ job[k][m] = "delivered" /\ UNCHANGED <<seen, again>>
            /\ v = "queued" => deliveries[k][m] < MaxDeliver
      BY <2>2, Zenon DEF Requeue, Requeued
    <3>2. v \in JobStates /\ v \notin {"none", "delivered"}
      BY <3>1 DEF JobStates, Settled
    <3> QED
      BY <1>1, <3>1, <3>2, AnsweredKeeps
  <2> QED
    BY <2>1, <2>2
<1>4. Types'
  BY <1>2, <1>3, Zenon DEF LifeInv, Types, TypeOK, StreamTypes, JobStates, daemonVars, vmmVars, workerVars
<1>5. \A i \in Kinds, n \in Jobs : JobInv(i, n)'
  <2>1. OneHandler(k, m)
    BY <1>2 DEF workerVars, OneHandler
  <2> QED
    BY <1>3, <2>1, OneJob, Zenon
<1>6. \A t \in Sandboxes : VmInv(t)' /\ GoneInv(t)'
  <2>1. \A n \in Jobs : job'["destroy"][n] \in {job["destroy"][n], "queued", "exhausted"}
    BY <1>3 DEF OtherJobs, Kinds
  <2>2. StoredStays /\ \A n \in Jobs : job'["destroy"][n] = "acked" => row[n[1]] = "gone"
    BY <2>1, JobPairs DEF StoredStays, LifeInv, GoneInv
  <2> QED
    BY <1>2, <2>2, BetweenHandlers, Zenon
<1> QED
  BY <1>4, <1>5, <1>6 DEF LifeInv

(* The end of a duplicate window changes nothing about the jobs stored.    *)
LEMMA ForgetKeeps ==
  ASSUME LifeInv, NEW s \in Sandboxes, Forget(s)
  PROVE  LifeInv'
<1>1. /\ UNCHANGED <<row, daemonVars, job, deliveries, again, workerVars, vmmVars, faults, crashes>>
      /\ seen' = [seen EXCEPT !["destroy"][s] = FALSE] /\ "destroy" \in Kinds
  BY Zenon DEF Forget, Kinds
<1>2. seen' \in [Kinds -> [Sandboxes -> BOOLEAN]]
  BY <1>1, OneWindow, Zenon DEF LifeInv, Types, TypeOK
<1>3. Types'
  BY <1>1, <1>2, Zenon DEF LifeInv, Types, TypeOK, daemonVars, vmmVars, workerVars
<1>4. \A i \in Kinds, n \in Jobs : JobInv(i, n)'
  BY <1>1, Zenon DEF LifeInv, JobInv, workerVars
<1>5. StoredStays /\ \A n \in Jobs : job'["destroy"][n] = "acked" => row[n[1]] = "gone"
  BY <1>1, JobPairs, Zenon DEF StoredStays, LifeInv, GoneInv
<1>6. \A t \in Sandboxes : VmInv(t)' /\ GoneInv(t)'
  BY <1>1, <1>5, BetweenHandlers, Zenon
<1> QED
  BY <1>3, <1>4, <1>6 DEF LifeInv

(* A handler answers: the loop is idle again, and the job is acknowledged, *)
(* comes back, or is as it was.                                            *)
LEMMA AnswerKeeps ==
  ASSUME LifeInv, NEW k \in Kinds, Ack(k) \/ Nak(k)
  PROVE  LifeInv'
<1>1. StreamTypes /\ WorkerTypes /\ MaxDeliver \in Nat
  BY DeliveryAssumption DEF LifeInv, Types, TypeOK, StreamTypes, WorkerTypes, JobStates
<1>2. /\ at[k] \in {"ack", "nak"} /\ on[k] \in Sandboxes /\ copy[k] \in Copies
      /\ at' = [at EXCEPT ![k] = "idle"] /\ on' = [on EXCEPT ![k] = NoSandbox]
      /\ copy' = [copy EXCEPT ![k] = 1] /\ UNCHANGED <<row, daemonVars, seen, again, vmmVars, crashes>>
  BY <1>1, Zenon DEF Ack, Nak, Idle, WorkerTypes
<1>3. PICK m \in Jobs : m = <<on[k], copy[k]>> /\ m[1] = on[k]
  BY <1>2, PairOf, Zenon
<1>4. JobInv(k, m) /\ job[k][m] \in JobStates /\ job[k][m] # "none"
  BY <1>1, <1>3, Zenon DEF LifeInv, JobInv, StreamTypes
<1>5. faults' \in 0..MaxFaults
  BY DeliveryAssumption DEF Ack, Nak, Fault, NoFault, LifeInv, Types, TypeOK
<1>6. "idle" \in LoopSteps[k] /\ 1 \in Copies
  BY JobPairs DEF LoopSteps, Kinds
<1>7. /\ WorkerTypes' /\ at'[k] = "idle" /\ on'[k] = NoSandbox
      /\ \A i \in Kinds : i # k => at'[i] = at[i] /\ on'[i] = on[i] /\ copy'[i] = copy[i]
  BY <1>2, <1>6, LoopMoves, Zenon
<1>8. /\ StreamTypes' /\ OtherJobs(k, m) /\ JobInv(k, m)' /\ job'[k][m] # "none"
      /\ job'[k][m] = "acked" => job[k][m] = "acked" \/ at[k] = "ack"
  <2>1. CASE UNCHANGED <<job, deliveries>>
    <3>1. StreamTypes' /\ OtherJobs(k, m)
      BY <1>1, <1>2, <2>1, Zenon DEF StreamTypes, OtherJobs
    <3> QED
      BY <1>2, <1>4, <2>1, <3>1, Zenon DEF JobInv
  <2>2. CASE Answered(k, m, "acked") /\ at[k] = "ack"
    BY <1>1, <1>2, <1>4, <2>2, AnsweredKeeps DEF JobStates, Settled
  <2>3. CASE job[k][m] = "delivered" /\ Answered(k, m, Requeued(k, m))
    <3>1. PICK v \in {"queued", "exhausted"} :
            v = Requeued(k, m) /\ (v = "queued" => deliveries[k][m] < MaxDeliver)
      BY Zenon DEF Requeued
    <3>2. v \in JobStates /\ v \notin {"none", "delivered", "acked"}
      BY <3>1 DEF JobStates, Settled
    <3> QED
      BY <1>1, <1>2, <1>4, <2>3, <3>1, <3>2, AnsweredKeeps
  <2> QED
    BY <1>3, <2>1, <2>2, <2>3, Zenon DEF Ack, Nak
<1>9. Types'
  BY <1>2, <1>5, <1>7, <1>8, Zenon DEF LifeInv, Types, TypeOK, StreamTypes, WorkerTypes,
     JobStates, daemonVars, vmmVars
<1>10. \A i \in Kinds, n \in Jobs : JobInv(i, n)'
  <2>1. OneHandler(k, m)
    BY <1>7, Zenon DEF OneHandler
  <2> QED
    BY <1>8, <2>1, OneJob, Zenon
<1>11. \A t \in Sandboxes : VmInv(t)' /\ GoneInv(t)'
  <2>1. ASSUME NEW n \in Jobs
        PROVE  /\ job["destroy"][n] # "none" => job'["destroy"][n] # "none"
               /\ job'["destroy"][n] = "acked" => row[n[1]] = "gone"
    <3>1. n[1] \in Sandboxes /\ GoneInv(n[1])
      BY JobPairs, Zenon DEF LifeInv
    <3>2. CASE k = "destroy" /\ n = m
      BY <1>3, <1>8, <3>1, <3>2, Zenon DEF GoneInv
    <3>3. CASE ~(k = "destroy" /\ n = m)
      BY <1>8, <3>1, <3>3, Zenon DEF OtherJobs, Kinds, GoneInv
    <3> QED
      BY <3>2, <3>3, Zenon
  <2>2. StoredStays
    BY <2>1, Zenon DEF StoredStays
  <2> QED
    BY <1>2, <1>7, <2>1, <2>2, BetweenHandlers
<1> QED
  BY <1>9, <1>10, <1>11 DEF LifeInv

-----------------------------------------------------------------------------
(* A handler goes on with the sandbox it has.                              *)
LEMMA HandlerMoves ==
  ASSUME LifeInv, NEW k \in Kinds, at[k] # "idle", NEW l \in LoopSteps[k], l # "idle", Proceed(k, l)
  PROVE  /\ WorkerTypes' /\ at'[k] = l /\ on' = on /\ copy' = copy /\ on[k] \in Sandboxes
         /\ \A i \in Kinds : i # k => at'[i] = at[i]
<1>1. PICK s \in Sandboxes, c \in Copies : s = on[k] /\ c = copy[k]
  BY Zenon DEF LifeInv, Types, TypeOK
<1>2. at' = [at EXCEPT ![k] = l] /\ on' = [on EXCEPT ![k] = s] /\ copy' = [copy EXCEPT ![k] = c]
  BY <1>1 DEF Proceed, LifeInv, Types
<1>3. /\ WorkerTypes' /\ at'[k] = l
      /\ \A i \in Kinds : i # k => at'[i] = at[i]
  BY <1>2, LoopMoves, Zenon
<1> QED
  BY <1>1, <1>3, Zenon DEF Proceed

(* A handler writes the row of its sandbox.                                *)
LEMMA RowStep ==
  ASSUME LifeInv, NEW k \in Kinds, at[k] \notin {"idle", "provisioning"},
         NEW l \in LoopSteps[k] \ {"idle", "provisioning", "markRunning"}, Proceed(k, l),
         UNCHANGED <<daemonVars, streamVars, vmmVars, crashes>>,
         row' \in [Sandboxes -> Statuses \cup {"none", "gone"}], faults' \in 0..MaxFaults,
         \A t \in Sandboxes :
           /\ row[t] = "gone" => row'[t] = "gone"
           /\ row'[t] = "running" =>
                row[t] = "running" \/ (at["create"] = "markRunning" /\ on["create"] = t)
           /\ k = "destroy" /\ l = "ack" /\ on["destroy"] = t => row'[t] = "gone"
  PROVE  LifeInv'
<1>1. /\ WorkerTypes' /\ at'[k] = l /\ on' = on /\ copy' = copy
      /\ \A i \in Kinds : i # k => at'[i] = at[i]
  BY HandlerMoves, Zenon
<1>2. Types'
  BY <1>1 DEF LifeInv, Types, TypeOK, WorkerTypes, daemonVars, streamVars, vmmVars
<1>3. \A i \in Kinds, n \in Jobs : JobInv(i, n)'
  BY <1>1, Zenon DEF LifeInv, JobInv, streamVars
<1>4. ASSUME NEW s \in Sandboxes PROVE VmInv(s)'
  <2>1. /\ at'["create"] = "provisioning" <=> at["create"] = "provisioning"
        /\ at'["create"] = "markRunning" => at["create"] = "markRunning"
    BY <1>1, Zenon DEF Kinds
  <2>2. DestroyStored(s) <=> DestroyStored(s)'
    BY Zenon DEF DestroyStored, streamVars
  <2> QED
    BY <1>1, <2>1, <2>2, Zenon DEF LifeInv, VmInv, vmmVars
<1>5. ASSUME NEW s \in Sandboxes PROVE GoneInv(s)'
  <2>1. at'["destroy"] = "ack" => at["destroy"] = "ack" \/ (k = "destroy" /\ l = "ack")
    BY <1>1, Zenon DEF Kinds
  <2> QED
    BY <1>1, <2>1, Zenon DEF LifeInv, GoneInv, streamVars
<1> QED
  BY <1>2, <1>3, <1>4, <1>5 DEF LifeInv

(* A handler calls the VMM manager for its sandbox.                        *)
LEMMA VmStep ==
  ASSUME LifeInv, NEW k \in Kinds, at[k] # "idle", NEW s \in Sandboxes, s = on[k],
         NEW l \in LoopSteps[k] \ {"idle", "ack"}, Proceed(k, l),
         UNCHANGED <<row, daemonVars, streamVars, crashes>>, faults' \in 0..MaxFaults,
         NEW e \in VmStates, vms' = [vms EXCEPT ![s] = e],
         strays' \in {strays, strays \cup {s}}, VmInv(s)'
  PROVE  LifeInv'
<1>1. /\ WorkerTypes' /\ at'[k] = l /\ on' = on /\ copy' = copy
      /\ \A i \in Kinds : i # k => at'[i] = at[i]
  BY HandlerMoves
<1>2. vms' \in [Sandboxes -> VmStates] /\ strays' \subseteq Sandboxes
  BY DEF LifeInv, Types, TypeOK
<1>3. Types'
  BY <1>1, <1>2, Zenon DEF LifeInv, Types, TypeOK, WorkerTypes, daemonVars, streamVars
<1>4. \A i \in Kinds, n \in Jobs : JobInv(i, n)'
  BY <1>1, Zenon DEF LifeInv, JobInv, streamVars
<1>5. ASSUME NEW t \in Sandboxes, t # s PROVE VmInv(t)'
  <2>1. vms'[t] = vms[t] /\ (t \in strays' <=> t \in strays)
    BY <1>5, Zenon DEF LifeInv, Types, TypeOK
  <2>2. on["create"] = t => at'["create"] = at["create"]
    BY <1>1, <1>5, Zenon DEF Kinds
  <2>3. DestroyStored(t) <=> DestroyStored(t)'
    BY Zenon DEF DestroyStored, streamVars
  <2> QED
    BY <1>1, <2>1, <2>2, <2>3, Zenon DEF LifeInv, VmInv
<1>6. ASSUME NEW t \in Sandboxes PROVE GoneInv(t)'
  <2>1. at'["destroy"] = "ack" => at["destroy"] = "ack"
    BY <1>1 DEF Kinds
  <2> QED
    BY <1>1, <2>1 DEF LifeInv, GoneInv, streamVars
<1> QED
  BY <1>3, <1>4, <1>5, <1>6, Zenon DEF LifeInv

(* The handlers' database calls keep the invariant.                        *)
LEMMA MarksKeep ==
  ASSUME LifeInv,
         \/ MarkProvisioning \/ MarkFailed \/ MarkRunning
         \/ MarkCleanupFailed \/ MarkStopped \/ DeleteRow
  PROVE  LifeInv'
<1>1. ASSUME NEW k \in Kinds, NEW status \in Statuses, NEW l \in LoopSteps[k],
             at[k] \notin {"idle", "provisioning"},
             l \notin {"idle", "provisioning", "markRunning"},
             UpdateStatus(on[k], status) \/ UpdateStatusFails(on[k]), Proceed(k, l),
             UNCHANGED <<daemonVars, streamVars, vmmVars, crashes>>,
             k = "destroy" => l # "ack",
             status = "running" => k = "create" /\ at[k] = "markRunning"
      PROVE  LifeInv'
  <2>1. on[k] \in Sandboxes
    BY <1>1, Zenon DEF LifeInv, Types, TypeOK
  <2>2. PICK s \in Sandboxes : s = on[k]
    BY <2>1, Zenon
  <2>3. UpdateStatus(s, status) \/ UpdateStatusFails(s)
    BY <1>1, <2>2, Zenon
  <2>4. /\ row' \in [Sandboxes -> Statuses \cup {"none", "gone"}] /\ faults' \in 0..MaxFaults
        /\ \A t \in Sandboxes :
             /\ row[t] = "gone" => row'[t] = "gone"
             /\ row'[t] # row[t] => t = s /\ row'[t] = status
    BY <2>3, StatusWrite, Zenon
  <2>5. \A t \in Sandboxes : row'[t] = "running" =>
          row[t] = "running" \/ (at["create"] = "markRunning" /\ on["create"] = t)
    BY <1>1, <2>2, <2>4
  <2> QED
    BY <1>1, <2>4, <2>5, RowStep, Zenon
<1>2. /\ {"provisioning", "failed", "running", "cleanup_failed", "stopped"} \subseteq Statuses
      /\ {"provision", "nak", "ack"} \subseteq LoopSteps["create"] /\ "create" \in Kinds
      /\ {"deleteRow", "nak", "ack"} \subseteq LoopSteps["destroy"] /\ "destroy" \in Kinds
  BY Zenon DEF Statuses, LoopSteps, Kinds
<1>3. CASE MarkProvisioning
  BY <1>1, <1>2, <1>3 DEF MarkProvisioning, Mark
<1>4. CASE MarkFailed
  BY <1>1, <1>2, <1>4 DEF MarkFailed, MarkError
<1>5. CASE MarkRunning
  BY <1>1, <1>2, <1>5 DEF MarkRunning, Mark
<1>6. CASE MarkCleanupFailed
  BY <1>1, <1>2, <1>6 DEF MarkCleanupFailed, MarkError
<1>7. CASE MarkStopped
  BY <1>1, <1>2, <1>7 DEF MarkStopped, Mark
<1>8. CASE DeleteRow
  <2>1. PICK s \in Sandboxes : s = on["destroy"]
    BY <1>2, <1>8 DEF DeleteRow, LifeInv, Types, TypeOK
  <2>2. PICK l \in {"ack", "nak"} :
          /\ Proceed("destroy", l)
          /\ l = "ack" => row'[s] = "gone"
          /\ row' \in [Sandboxes -> Statuses \cup {"none", "gone"}] /\ faults' \in 0..MaxFaults
          /\ \A t \in Sandboxes : row'[t] \in {row[t], "gone"}
    <3>1. faults' \in 0..MaxFaults /\ row \in [Sandboxes -> Statuses \cup {"none", "gone"}]
      BY <1>8, DeliveryAssumption DEF DeleteRow, NoFault, Fault, LifeInv, Types, TypeOK
    <3>2. \/ row' = [row EXCEPT ![s] = "gone"] /\ Proceed("destroy", "ack")
          \/ row' = row /\ Proceed("destroy", "nak")
      BY <1>8, <2>1 DEF DeleteRow, DeleteSandbox
    <3>3. CASE row' = [row EXCEPT ![s] = "gone"] /\ Proceed("destroy", "ack")
      BY <3>1, <3>3
    <3>4. CASE row' = row /\ Proceed("destroy", "nak")
      BY <3>1, <3>4
    <3> QED
      BY <3>2, <3>3, <3>4, Zenon
  <2>3. \A t \in Sandboxes :
          /\ row[t] = "gone" => row'[t] = "gone"
          /\ row'[t] = "running" => row[t] = "running"
          /\ l = "ack" /\ on["destroy"] = t => row'[t] = "gone"
    BY <2>1, <2>2
  <2>4. UNCHANGED <<daemonVars, streamVars, vmmVars, crashes>> /\ at["destroy"] = "deleteRow"
    BY <1>8 DEF DeleteRow
  <2> QED
    BY <1>2, <2>2, <2>3, <2>4, RowStep
<1> QED
  BY <1>3, <1>4, <1>5, <1>6, <1>7, <1>8

(* ProvisionVM keeps the invariant.                                        *)
LEMMA ProvisionKeeps ==
  ASSUME LifeInv, ProvisionBegin \/ ProvisionEnd \/ ProvisionFails
  PROVE  LifeInv'
<1>1. /\ at["create"] \in {"provision", "provisioning"} /\ "create" \in Kinds
      /\ UNCHANGED <<row, daemonVars, streamVars, crashes>>
  BY Zenon DEF ProvisionBegin, ProvisionEnd, ProvisionFails, Kinds
<1>2. PICK s \in Sandboxes : s = on["create"]
  BY <1>1, Zenon DEF LifeInv, Types, TypeOK
<1>3. vms \in [Sandboxes -> VmStates] /\ VmInv(s)
  BY Zenon DEF LifeInv, Types, TypeOK
<1>4. faults' \in 0..MaxFaults
  BY DeliveryAssumption DEF ProvisionBegin, ProvisionEnd, ProvisionFails, Fault, NoFault,
     LifeInv, Types, TypeOK
<1>5. PICK e \in VmStates, l \in {"provisioning", "markRunning", "markFailed"} :
        /\ vms' = [vms EXCEPT ![s] = e] /\ Proceed("create", l)
        /\ strays' \in {strays, strays \cup {s}}
        /\ e \in Unfinished <=> l = "provisioning"
        /\ e \in Unfinished => e = "busy"
        /\ l = "markRunning" => e = "up" \/ s \in strays'
        /\ strays' # strays => vms[s] = "unlisted"
        /\ vms[s] = "up" => e = "up"
  <2>1. /\ {"none", "busy", "up", "failed"} \subseteq VmStates /\ vms[s] \in VmStates
        /\ vms = [vms EXCEPT ![s] = vms[s]]
    BY <1>3 DEF VmStates
  <2>2. CASE ProvisionBegin
    <3>1. vms[s] \notin Unfinished
      BY <1>2, <1>3, <2>2 DEF ProvisionBegin, VmInv
    <3> QED
      BY <1>2, <2>1, <2>2, <3>1 DEF ProvisionBegin, Unfinished
  <2>3. CASE ProvisionEnd
    BY <1>2, <2>1, <2>3 DEF ProvisionEnd, Unfinished
  <2>4. CASE ProvisionFails
    <3>1. vms[s] \in Unfinished
      BY <1>2, <1>3, <2>4 DEF ProvisionFails, VmInv
    <3> QED
      BY <1>2, <2>1, <2>4, <3>1, Zenon DEF ProvisionFails, Unfinished
  <2> QED
    BY <2>2, <2>3, <2>4
<1>6. l \in LoopSteps["create"] \ {"idle", "ack"}
  BY <1>5 DEF LoopSteps
<1>7. /\ at'["create"] = l /\ on'["create"] = s
  BY <1>1, <1>2, <1>5, <1>6, HandlerMoves
<1>8. vms'[s] = e
  BY <1>3, <1>5
<1>9. VmInv(s)'
  <2>5. DestroyStored(s) <=> DestroyStored(s)'
    BY <1>1, Zenon DEF DestroyStored, streamVars
  <2>1. vms'[s] \in Unfinished <=> at'["create"] = "provisioning" /\ on'["create"] = s
    BY <1>5, <1>7, <1>8
  <2>2. vms'[s] \in Unfinished \ {"busy"} => DestroyStored(s)'
    BY <1>5, <1>8, Zenon
  <2>3. \/ ~(row'[s] = "running" \/ (at'["create"] = "markRunning" /\ on'["create"] = s))
        \/ crashes' > 0 \/ DestroyStored(s)' \/ vms'[s] = "up" \/ s \in strays'
    BY <1>1, <1>3, <1>5, <1>7, <1>8, <2>5 DEF VmInv
  <2>4. s \in strays' => crashes' > 0 \/ DestroyStored(s)'
    BY <1>1, <1>3, <1>5, <2>5 DEF VmInv, Unfinished
  <2> QED
    BY <2>1, <2>2, <2>3, <2>4 DEF VmInv
<1> QED
  BY <1>1, <1>2, <1>4, <1>5, <1>6, <1>9, VmStep, Zenon

(* DestroyVM keeps the invariant, whatever the create loop is at.          *)
LEMMA DestroyKeeps ==
  ASSUME LifeInv, DestroyVM
  PROVE  LifeInv'
<1>1. /\ at["destroy"] = "begin" /\ "destroy" \in Kinds
      /\ UNCHANGED <<row, daemonVars, streamVars, strays, crashes>>
  BY Zenon DEF DestroyVM, Kinds
<1>2. PICK s \in Sandboxes : s = on["destroy"]
  BY <1>1, Zenon DEF LifeInv, Types, TypeOK
<1>3. vms \in [Sandboxes -> VmStates] /\ VmInv(s)
  BY <1>1, Zenon DEF LifeInv, Types, TypeOK
<1>4. faults' \in 0..MaxFaults
  BY DeliveryAssumption DEF DestroyVM, Fault, NoFault, LifeInv, Types, TypeOK
<1>5. PICK e \in VmStates, l \in {"markCleanupFailed", "markStopped"} :
        /\ vms' = [vms EXCEPT ![s] = e] /\ Proceed("destroy", l)
        /\ e \in Unfinished <=> vms[s] \in Unfinished
  <2>1. /\ {"none", "unlisted", "undone", "doomed", "failed"} \subseteq VmStates /\ vms[s] \in VmStates
        /\ vms = [vms EXCEPT ![s] = vms[s]]
    BY <1>3, Zenon DEF VmStates
  <2> QED
    BY <1>2, <2>1 DEF DestroyVM, Unfinished, Listed
<1>6. l \in LoopSteps["destroy"] \ {"idle", "ack"}
  BY <1>5, Zenon DEF LoopSteps
<1>7. at'["create"] = at["create"] /\ on' = on
  BY <1>1, <1>5, <1>6, HandlerMoves DEF Kinds
<1>8. vms'[s] = e
  BY <1>3, <1>5, Zenon
<1>9. DestroyStored(s)'
  <2>1. PICK c \in Copies : c = copy["destroy"]
    BY <1>1, Zenon DEF LifeInv, Types, TypeOK
  <2>2. PICK m \in Jobs : m = <<s, c>> /\ m[1] = s
    BY <1>1, PairOf, Zenon
  <2>3. job["destroy"][m] # "none"
    BY <1>1, <1>2, <2>1, <2>2, Zenon DEF LifeInv, JobInv
  <2> QED
    BY <1>1, <2>2, <2>3, Zenon DEF DestroyStored, streamVars
<1>10. VmInv(s)'
  BY <1>3, <1>5, <1>7, <1>8, <1>9, Zenon DEF VmInv
<1> QED
  BY <1>1, <1>2, <1>4, <1>5, <1>6, <1>10, VmStep, Zenon

(* A restart of the worker keeps the invariant.                            *)
LEMMA RestartKeeps ==
  ASSUME LifeInv, Restart
  PROVE  LifeInv'
<1>1. /\ at' = [k \in Kinds |-> "idle"] /\ on' = [k \in Kinds |-> NoSandbox]
      /\ copy' = [k \in Kinds |-> 1] /\ again' = [k \in Kinds |-> [m \in Jobs |-> 0]]
      /\ vms' = [s \in Sandboxes |-> "none"]
      /\ strays' \subseteq Sandboxes /\ UNCHANGED <<row, daemonVars, job, deliveries, seen, faults>>
  BY Zenon DEF Restart, LifeInv, Types, TypeOK
<1>2. crashes' > 0 /\ crashes' \in 0..MaxCrashes
  BY DeliveryAssumption DEF Restart, LifeInv, Types, TypeOK
<1>3. StreamTypes /\ WorkerTypes'
  BY <1>1, JobPairs DEF StreamTypes, WorkerTypes, LoopSteps, Kinds, LifeInv, Types, TypeOK, JobStates
<1>4. again' \in [Kinds -> [Jobs -> 0..MaxDeliver]] /\ vms' \in [Sandboxes -> VmStates]
  BY <1>1, DeliveryAssumption DEF VmStates
<1>5. Types'
  BY <1>1, <1>2, <1>3, <1>4, Zenon DEF LifeInv, Types, TypeOK, WorkerTypes, daemonVars
<1>6. ASSUME NEW k \in Kinds, NEW m \in Jobs PROVE JobInv(k, m)'
  <2>1. again'[k][m] = 0 /\ on'[k] = NoSandbox /\ JobInv(k, m) /\ deliveries[k][m] \in 0..MaxDeliver
    BY <1>1, <1>3, Zenon DEF LifeInv, StreamTypes
  <2>2. <<on'[k], copy'[k]>> # m
    BY <2>1, JobPairs, Zenon
  <2> QED
    BY <1>1, <2>1, <2>2, DeliveryAssumption DEF JobInv
<1>7. ASSUME NEW s \in Sandboxes PROVE VmInv(s)' /\ GoneInv(s)'
  <2>1. at'["create"] = "idle" /\ at'["destroy"] = "idle" /\ vms'[s] = "none" /\ GoneInv(s)
    <3>1. "create" \in Kinds /\ "destroy" \in Kinds
      BY DEF Kinds
    <3> QED
      BY <1>1, <3>1, Zenon DEF LifeInv
  <2> QED
    BY <1>1, <1>2, <2>1 DEF VmInv, GoneInv, Unfinished
<1> QED
  BY <1>5, <1>6, <1>7, Zenon DEF LifeInv

-----------------------------------------------------------------------------
(* The invariant of the lifecycle: the types, the stream's account of each *)
(* job, and what the row, the manager and the destroy jobs say together.   *)
THEOREM LifecycleInvariant == Spec => []LifeInv
<1>1. ASSUME LifeInv, [Next]_vars PROVE LifeInv'
  <2>1. CASE UNCHANGED vars
    BY <1>1, <2>1 DEF vars, daemonVars, streamVars, workerVars, vmmVars, LifeInv, Types, TypeOK,
       JobInv, VmInv, GoneInv, DestroyStored
  <2>2. ASSUME NEW r \in Requests, Request(r) \/ \E s \in Sandboxes : Create(r, s) \/ Delete(r, s)
        PROVE  LifeInv'
    BY <1>1, <2>2, RequestKeeps
  <2>3. ASSUME NEW k \in Kinds, Ack(k) \/ Nak(k) PROVE LifeInv'
    BY <1>1, <2>3, AnswerKeeps
  <2>4. ASSUME NEW k \in Kinds, NEW m \in Jobs, Stream(k, m) PROVE LifeInv'
    BY <1>1, <2>4, DeliverKeeps, TimersKeep, Zenon DEF Stream
  <2>5. ASSUME NEW s \in Sandboxes, Forget(s) PROVE LifeInv'
    BY <1>1, <2>5, ForgetKeeps, Zenon
  <2>6. CASE CreateStep
    BY <1>1, <2>6, MarksKeep, ProvisionKeeps DEF CreateStep
  <2>7. CASE DestroyStep
    BY <1>1, <2>7, MarksKeep, DestroyKeeps DEF DestroyStep
  <2>8. CASE Restart
    BY <1>1, <2>8, RestartKeeps
  <2> QED
    BY <1>1, <2>1, <2>2, <2>3, <2>4, <2>5, <2>6, <2>7, <2>8, Zenon DEF Next
<1> QED
  BY <1>1, LifeInit, PTL DEF Spec

(* The types; a request or a loop that is under way has a sandbox in hand, *)
(* and JetStream never delivers a job more than consumerMaxDeliver times.  *)
THEOREM LifecycleTypes == Spec => []TypeOK
<1>1. LifeInv => TypeOK
  BY DEF LifeInv, Types
<1> QED
  BY <1>1, LifecycleInvariant, PTL

(* consumer.go acknowledges a destroy job only when the sandbox's row is   *)
(* gone, and the row stays gone whatever else was under way.               *)
THEOREM AckedDestroysAreGone == Spec => []AckedDestroyIsGone
<1>1. LifeInv => AckedDestroyIsGone
  <2> SUFFICES ASSUME LifeInv, NEW m \in Jobs, job["destroy"][m] = "acked" PROVE row[m[1]] = "gone"
    BY Zenon DEF AckedDestroyIsGone
  <2>1. m[1] \in Sandboxes
    BY JobPairs
  <2> QED
    BY <2>1, Zenon DEF LifeInv, GoneInv
<1> QED
  BY <1>1, LifecycleInvariant, PTL

(* handleSandboxCreate writes "running" only of a VM that lives, until a   *)
(* destroy job for it is stored or the worker restarts.                    *)
THEOREM RunningIsBacked == Spec => []RunningBacked
<1>1. LifeInv => RunningBacked
  BY DeliveryAssumption DEF LifeInv, Types, TypeOK, VmInv, RunningBacked
<1> QED
  BY <1>1, LifecycleInvariant, PTL

(* Without a restart of the worker, only a destroy job can leave a VM that *)
(* no entry of the VMM manager refers to.                                  *)
THEOREM StraysAreDestroyed == Spec => []StraysDestroyed
<1>1. LifeInv => StraysDestroyed
  BY DEF LifeInv, Types, TypeOK, VmInv, StraysDestroyed
<1> QED
  BY <1>1, LifecycleInvariant, PTL

-----------------------------------------------------------------------------
(* What a step may do about a sandbox whose row is gone.                   *)
StaysGone(s) ==
  /\ row'[s] = "gone"
  /\ at["create"] = "begin" /\ on["create"] = s => at'["create"] \in {"begin", "nak", "idle"}

(* The handlers leave a deleted row alone, and the create handler stops at *)
(* its first statement.                                                    *)
LEMMA HandlersLeaveGone ==
  ASSUME LifeInv, NEW s \in Sandboxes, row[s] = "gone", CreateStep \/ DestroyStep
  PROVE  StaysGone(s)
<1>1. ~Present(s)
  BY Zenon DEF Present, Statuses
<1>2. at \in [Kinds -> LoopSteps["create"] \cup LoopSteps["destroy"]] /\ {"create", "destroy"} = Kinds
      /\ row \in [Sandboxes -> Statuses \cup {"none", "gone"}]
  BY DEF LifeInv, Types, TypeOK, Kinds
<1>3. ASSUME NEW k \in Kinds, NEW status, UpdateStatus(on[k], status) \/ UpdateStatusFails(on[k])
      PROVE  row'[s] = "gone"
  BY <1>1, <1>2, <1>3, Zenon DEF UpdateStatus, UpdateStatusFails
<1>4. row'[s] = "gone"
  <2>1. CASE UNCHANGED row
    BY <2>1, Zenon
  <2>2. CASE MarkProvisioning \/ MarkFailed \/ MarkRunning \/ MarkCleanupFailed \/ MarkStopped
    BY <1>2, <1>3, <2>2, Zenon DEF MarkProvisioning, MarkFailed, MarkRunning, MarkCleanupFailed,
       MarkStopped,
       Mark, MarkError
  <2>3. CASE DeleteRow
    BY <1>2, <2>3, Zenon DEF DeleteRow, DeleteSandbox
  <2> QED
    BY <2>1, <2>2, <2>3 DEF CreateStep, DestroyStep, ProvisionBegin, ProvisionEnd,
       ProvisionFails, DestroyVM
<1>5. ASSUME at["create"] = "begin", on["create"] = s
      PROVE  at'["create"] \in {"begin", "nak", "idle"}
  <2>1. CASE MarkProvisioning
    BY <1>1, <1>2, <1>5, <2>1 DEF MarkProvisioning, Mark, UpdateStatus, Proceed
  <2>2. CASE DestroyStep
    <3>1. \E l \in {"markCleanupFailed", "markStopped", "deleteRow", "ack", "nak"} : Proceed("destroy", l)
      BY <2>2 DEF DestroyStep, DestroyVM, MarkCleanupFailed, MarkStopped, DeleteRow, Mark, MarkError
    <3> QED
      BY <1>2, <1>5, <3>1, Zenon DEF Proceed
  <2> QED
    BY <1>5, <2>1, <2>2, Zenon DEF CreateStep, ProvisionBegin, ProvisionEnd, ProvisionFails,
       MarkFailed, MarkRunning
<1> QED
  BY <1>4, <1>5 DEF StaysGone

(* No step of the daemon, the stream or the worker writes a row that was   *)
(* deleted, and no VM is provisioned for a create job handled after it.    *)
THEOREM GoneStaysGone == Spec => GoneForGood
<1> DEFINE Gone == \A s \in Sandboxes : row[s] = "gone" =>
                     /\ row'[s] = "gone"
                     /\ at["create"] = "begin" /\ on["create"] = s => at'["create"] \in {"begin", "nak", "idle"}
<1>1. ASSUME LifeInv, [Next]_vars PROVE [Gone]_vars
  <2> SUFFICES ASSUME Next, NEW s \in Sandboxes, row[s] = "gone" PROVE StaysGone(s)
    BY <1>1, Zenon DEF StaysGone
  <2>1. ASSUME NEW r \in Requests, Request(r) \/ \E t \in Sandboxes : Create(r, t) \/ Delete(r, t)
        PROVE  StaysGone(s)
    BY <1>1, <2>1, RequestEffects DEF StaysGone, workerVars
  <2>2. ASSUME NEW k \in Kinds, Ack(k) \/ Nak(k) PROVE StaysGone(s)
    <3>1. UNCHANGED row /\ at[k] # "begin" /\ at' = [at EXCEPT ![k] = "idle"]
      BY <2>2 DEF Ack, Nak, Idle
    <3> QED
      BY <1>1, <3>1 DEF StaysGone, LifeInv, Types
  <2>6. ASSUME NEW t \in Sandboxes, Forget(t) PROVE StaysGone(s)
    BY <2>6, Zenon DEF Forget, workerVars, StaysGone
  <2>3. ASSUME NEW k \in Kinds, NEW m \in Jobs, Stream(k, m)
        PROVE  StaysGone(s)
    <3>1. UNCHANGED row /\ (at' = at \/ (at[k] # "begin" /\ at' = [at EXCEPT ![k] = "begin"]))
      BY <2>3 DEF Stream, Deliver, DeliverAgain, Begin, Requeue, AckWaitExpires, workerVars
    <3>2. CASE at' = at
      BY <3>1, <3>2, Zenon DEF StaysGone
    <3>3. CASE at[k] # "begin" /\ at' = [at EXCEPT ![k] = "begin"]
      BY <1>1, <3>1, <3>3 DEF StaysGone, LifeInv, Types
    <3> QED
      BY <3>1, <3>2, <3>3, Zenon
  <2>4. CASE CreateStep \/ DestroyStep
    BY <1>1, <2>4, HandlersLeaveGone
  <2>5. CASE Restart
    BY <2>5 DEF Restart, Kinds, StaysGone
  <2> QED
    BY <2>1, <2>2, <2>3, <2>4, <2>5, <2>6 DEF Next
<1> QED
  BY <1>1, LifecycleInvariant, PTL DEF Spec, GoneForGood
=============================================================================
