-------------------------- MODULE GuestExecProofs ---------------------------
(***************************************************************************)
(* The guest agent runs at most MaxConcurrentCommands commands and reports *)
(* the truth about them, for any number of requests and whatever their     *)
(* processes do.                                                           *)
(***************************************************************************)
EXTENDS GuestExec, FiniteSetTheorems, TLAPS

(* Where a goroutine of execute holds a slot, and where it has started a   *)
(* process.                                                                *)
Started == {"verify", "reap", "wait", "kill", "cleanup"}
Holding == Started \cup {"prepare", "start"}

ExecTypes ==
  /\ pc \in [Requests -> Holding \cup {"new", "admit", "done"}]
  /\ cgroups \subseteq Requests /\ killed \subseteq Requests
  /\ procs \in [Requests -> SUBSET Kinds]
  /\ exit \in [Requests -> Exits]
  /\ err \in [Requests -> BOOLEAN]
  /\ code \in [Requests -> Exits]

(* There are no more tokens in commandSlots than it has room for.          *)
SlotInv == IsFiniteSet(slots) /\ Cardinality(slots) <= MaxConcurrentCommands

(* What is true of one request.  It holds a slot from the select that took *)
(* it to the deferred release.  Its command does nothing before it is      *)
(* started and, once Wait has returned, has no process left that holds a   *)
(* pipe or could start another one.  How the process ended is known when   *)
(* it is gone, and a command that was killed is reported with an error.    *)
RequestInv(r) ==
  /\ r \in slots <=> pc[r] \in Holding
  /\ pc[r] \notin Started \cup {"done"} => procs[r] = {}
  /\ pc[r] \in {"cleanup", "done"} => Waited(r)
  /\ pc[r] \in Started => "main" \in procs[r] \/ exit[r] # "none"
  /\ r \in killed => pc[r] \in {"reap", "kill", "cleanup", "done"}
  /\ r \in killed /\ pc[r] \in {"kill", "cleanup"} => err[r]
  /\ pc[r] = "done" /\ ~err[r] =>
       /\ exit[r] # "none" /\ code[r] = ExitCode(r) /\ r \notin killed
       /\ procs[r] = {} /\ r \notin cgroups

ExecInv == ExecTypes /\ SlotInv /\ \A r \in Requests : RequestInv(r)

-----------------------------------------------------------------------------
(* The invariant holds at the start.                                       *)
LEMMA ExecInit == Init => ExecInv
<1> SUFFICES ASSUME Init PROVE ExecInv
  OBVIOUS
<1>1. SlotInv
  BY SlotsAssumption, FS_EmptySet DEF Init, SlotInv
<1>2. ExecTypes
  BY DEF Init, ExecTypes, Holding, Started, Kinds, Group, Exits
<1>3. \A r \in Requests : RequestInv(r)
  BY DEF Init, RequestInv, Holding, Started
<1> QED
  BY <1>1, <1>2, <1>3 DEF ExecInv

(* A slot more is taken only when one is free, and a slot less is no       *)
(* trouble.                                                                *)
LEMMA SlotCount ==
  ASSUME SlotInv, NEW r,
         \/ slots' = slots
         \/ slots' = slots \ {r}
         \/ slots' = slots \cup {r} /\ Cardinality(slots) < MaxConcurrentCommands
  PROVE  IsFiniteSet(slots') /\ Cardinality(slots') <= MaxConcurrentCommands
<1>1. Cardinality(slots) \in Nat /\ MaxConcurrentCommands \in Nat
  BY FS_CardinalityType, SlotsAssumption DEF SlotInv
<1>2. CASE slots' = slots \ {r}
  <2>1. IsFiniteSet(slots \ {r}) /\ Cardinality(slots \ {r}) \in {Cardinality(slots), Cardinality(slots) - 1}
    BY FS_RemoveElement DEF SlotInv
  <2> QED
    BY <1>1, <1>2, <2>1 DEF SlotInv
<1>3. CASE slots' = slots \cup {r} /\ Cardinality(slots) < MaxConcurrentCommands
  <2>1. /\ IsFiniteSet(slots \cup {r})
        /\ Cardinality(slots \cup {r}) \in {Cardinality(slots), Cardinality(slots) + 1}
    BY FS_AddElement DEF SlotInv
  <2> QED
    BY <1>1, <1>3, <2>1 DEF SlotInv
<1> QED
  BY <1>2, <1>3 DEF SlotInv

-----------------------------------------------------------------------------
(* The steps of the agent, seen from the request r that takes them: what   *)
(* they leave alone of the others.                                         *)
OthersKept(r) ==
  \A q \in Requests : q # r =>
    /\ pc'[q] = pc[q] /\ procs'[q] = procs[q] /\ exit'[q] = exit[q]
    /\ err'[q] = err[q] /\ code'[q] = code[q]
    /\ q \in slots' <=> q \in slots
    /\ q \in cgroups' <=> q \in cgroups
    /\ q \in killed' <=> q \in killed

(* A step of one request has to be looked at for that request only.        *)
LEMMA OneRequest ==
  ASSUME ExecInv, NEW r \in Requests, OthersKept(r), ExecTypes', RequestInv(r)',
         \/ slots' = slots
         \/ slots' = slots \ {r}
         \/ slots' = slots \cup {r} /\ Cardinality(slots) < MaxConcurrentCommands
  PROVE  ExecInv'
<1>1. SlotInv'
  BY SlotCount DEF ExecInv, SlotInv
<1>2. ASSUME NEW q \in Requests, q # r PROVE RequestInv(q)'
  BY <1>2 DEF ExecInv, OthersKept, RequestInv, Waited, ExitCode
<1> QED
  BY <1>1, <1>2 DEF ExecInv

(* Report, whatever the result: the request's slot is free again.          *)
LEMMA ReportKeeps ==
  ASSUME ExecTypes, NEW r \in Requests, NEW e \in BOOLEAN, NEW c \in Exits, Report(r, e, c)
  PROVE  /\ pc' \in [Requests -> Holding \cup {"new", "admit", "done"}] /\ pc'[r] = "done"
         /\ err' \in [Requests -> BOOLEAN] /\ err'[r] = e
         /\ code' \in [Requests -> Exits] /\ code'[r] = c
         /\ slots' = slots \ {r}
         /\ \A q \in Requests : q # r => pc'[q] = pc[q] /\ err'[q] = err[q] /\ code'[q] = code[q]
  BY DEF ExecTypes, Report, Goto

(* A jump to another step.                                                 *)
LEMMA GotoKeeps ==
  ASSUME ExecTypes, NEW r \in Requests, NEW l \in Holding \cup {"admit"}, Goto(r, l)
  PROVE  /\ pc' \in [Requests -> Holding \cup {"new", "admit", "done"}] /\ pc'[r] = l
         /\ \A q \in Requests : q # r => pc'[q] = pc[q]
  BY DEF ExecTypes, Goto

-----------------------------------------------------------------------------
(* The agent's steps before a process is started.                          *)
LEMMA AdmissionKeeps ==
  ASSUME ExecInv, NEW r \in Requests, Serve(r) \/ ValidateFails(r) \/ Admit(r) \/ prepareCgroup(r)
  PROVE  ExecInv'
<1> DEFINE Refused == Report(r, TRUE, "none")
           Admitted == /\ pc[r] = "admit" /\ Goto(r, "prepare") /\ UNCHANGED <<err, code>>
                       /\ slots' = slots \cup {r} /\ Cardinality(slots) < MaxConcurrentCommands
           Proceeds == \/ pc[r] = "new" /\ Goto(r, "admit") /\ UNCHANGED <<slots, err, code>>
                       \/ pc[r] = "prepare" /\ Goto(r, "start") /\ UNCHANGED <<slots, err, code>>
<1>1. /\ pc[r] \in {"new", "admit", "prepare"} /\ UNCHANGED <<procs, killed, exit>>
      /\ Refused \/ Admitted \/ Proceeds
      /\ cgroups' = cgroups \/ cgroups' = cgroups \cup {r}
  BY Zenon DEF Serve, ValidateFails, Admit, prepareCgroup, osVars
<1>2. ExecTypes /\ RequestInv(r)
  BY DEF ExecInv
<1>3. pc' \in [Requests -> Holding \cup {"new", "admit", "done"}]
  BY <1>1, <1>2, ReportKeeps, GotoKeeps, Zenon DEF Holding, Started, Exits
<1>4. err' \in [Requests -> BOOLEAN] /\ code' \in [Requests -> Exits]
  BY <1>1, <1>2, ReportKeeps, Zenon DEF ExecTypes, Exits
<1>5. ExecTypes'
  BY <1>1, <1>2, <1>3, <1>4 DEF ExecTypes
<1>6. /\ procs'[r] = {} /\ r \notin killed'
      /\ \/ pc'[r] = "done" /\ err'[r] /\ slots' = slots \ {r}
         \/ /\ pc'[r] = "prepare" /\ slots' = slots \cup {r}
            /\ Cardinality(slots) < MaxConcurrentCommands
         \/ pc'[r] = "admit" /\ pc[r] = "new" /\ slots' = slots
         \/ pc'[r] = "start" /\ pc[r] = "prepare" /\ slots' = slots
  BY <1>1, <1>2, ReportKeeps, GotoKeeps, Zenon DEF RequestInv, Holding, Started, Exits
<1>7. RequestInv(r)'
  BY <1>2, <1>6 DEF RequestInv, Holding, Started, Waited
<1>8. OthersKept(r)
  <2>1. \A q \in Requests : q # r => pc'[q] = pc[q] /\ err'[q] = err[q] /\ code'[q] = code[q]
    BY <1>1, <1>2, ReportKeeps, GotoKeeps, Zenon DEF Holding, Started, Exits
  <2> QED
    BY <1>1, <1>6, <2>1 DEF OthersKept
<1> QED
  BY <1>5, <1>6, <1>7, <1>8, OneRequest

(* Starting the command.                                                   *)
LEMMA StartKeeps ==
  ASSUME ExecInv, NEW r \in Requests, StartCommand(r)
  PROVE  ExecInv'
<1>1. ExecTypes /\ RequestInv(r) /\ pc[r] = "start" /\ procs[r] = {}
  BY DEF StartCommand, ExecInv, RequestInv, Started
<1>2. CASE /\ Goto(r, "verify") /\ procs' = [procs EXCEPT ![r] = {"main"}]
           /\ UNCHANGED <<slots, cgroups, err, code, killed, exit>>
  <2>1. pc' \in [Requests -> Holding \cup {"new", "admit", "done"}] /\ pc'[r] = "verify"
        /\ \A q \in Requests : q # r => pc'[q] = pc[q]
    BY <1>1, <1>2, GotoKeeps DEF Holding, Started
  <2>2. /\ procs' \in [Requests -> SUBSET Kinds] /\ procs'[r] = {"main"}
        /\ \A q \in Requests : q # r => procs'[q] = procs[q]
    BY <1>1, <1>2 DEF ExecTypes, Kinds, Group
  <2>3. ExecTypes' /\ OthersKept(r)
    BY <1>1, <1>2, <2>1, <2>2 DEF ExecTypes, OthersKept
  <2>4. RequestInv(r)'
    BY <1>1, <1>2, <2>1, <2>2 DEF RequestInv, Holding, Started
  <2> QED
    BY <1>2, <2>3, <2>4, OneRequest
<1>3. CASE /\ Report(r, TRUE, "none") /\ UNCHANGED <<procs, killed, exit>>
           /\ Removed(r) \/ UNCHANGED cgroups
  <2>1. /\ pc' \in [Requests -> Holding \cup {"new", "admit", "done"}] /\ pc'[r] = "done"
        /\ err' \in [Requests -> BOOLEAN] /\ err'[r] /\ code' \in [Requests -> Exits]
        /\ slots' = slots \ {r}
        /\ \A q \in Requests : q # r => pc'[q] = pc[q] /\ err'[q] = err[q] /\ code'[q] = code[q]
    BY <1>1, <1>3, ReportKeeps, Zenon DEF Exits
  <2>2. ExecTypes' /\ OthersKept(r)
    BY <1>1, <1>3, <2>1 DEF ExecTypes, OthersKept, Removed
  <2>3. RequestInv(r)'
    BY <1>1, <1>3, <2>1 DEF RequestInv, Holding, Started, Waited
  <2> QED
    BY <2>1, <2>2, <2>3, OneRequest
<1> QED
  BY <1>2, <1>3, Zenon DEF StartCommand

(* The steps from the start of the command to the return of its Wait.      *)
LEMMA WaitingKeeps ==
  ASSUME ExecInv, NEW r \in Requests,
         VerifyLimits(r) \/ killAndReap(r) \/ WaitReturns(r) \/ Timeout(r)
  PROVE  ExecInv'
<1>1. ExecTypes /\ RequestInv(r)
  BY DEF ExecInv
<1>2. PICK l \in {"wait", "reap", "kill", "cleanup"} :
        /\ Goto(r, l) /\ UNCHANGED <<slots, cgroups, procs, exit, code>>
        /\ pc[r] \in {"verify", "wait", "kill"}
        /\ l = "wait" => pc[r] = "verify"
        /\ l = "cleanup" => Waited(r) /\ pc[r] # "verify"
        /\ \/ UNCHANGED <<killed, err>> /\ l \in {"wait", "cleanup"}
           \/ killed' = killed \cup {r} /\ err' = err /\ l = "reap"
           \/ killed' = killed \cup {r} /\ err' = [err EXCEPT ![r] = TRUE] /\ l = "kill"
  BY DEF VerifyLimits, killAndReap, WaitReturns, Timeout, osVars
<1>3. pc' \in [Requests -> Holding \cup {"new", "admit", "done"}] /\ pc'[r] = l
      /\ \A q \in Requests : q # r => pc'[q] = pc[q]
  BY <1>1, <1>2, GotoKeeps DEF Holding, Started
<1>4. /\ err' \in [Requests -> BOOLEAN] /\ (l = "kill" => err'[r])
      /\ l = "cleanup" => err'[r] = err[r]
      /\ \A q \in Requests : q # r => err'[q] = err[q]
  BY <1>1, <1>2, Zenon DEF ExecTypes
<1>5. ExecTypes' /\ OthersKept(r)
  BY <1>1, <1>2, <1>3, <1>4 DEF ExecTypes, OthersKept
<1>6. RequestInv(r)'
  <2>1. r \in slots' /\ ("main" \in procs'[r] \/ exit'[r] # "none")
    BY <1>1, <1>2 DEF RequestInv, Holding, Started
  <2>2. l = "cleanup" => Waited(r)'
    BY <1>2 DEF Waited
  <2>3. r \in killed' => l # "wait"
    BY <1>1, <1>2 DEF RequestInv
  <2>4. r \in killed' /\ l \in {"kill", "cleanup"} => err'[r]
    BY <1>1, <1>2, <1>4 DEF RequestInv
  <2> QED
    BY <1>3, <2>1, <2>2, <2>3, <2>4 DEF RequestInv, Holding, Started
<1> QED
  BY <1>2, <1>5, <1>6, OneRequest

(* The end of execute.  A result without an error is given only when the   *)
(* cgroup could be removed, and so no process was left in it.              *)
LEMMA ReportingKeeps ==
  ASSUME ExecInv, NEW r \in Requests, Reap(r) \/ Cleanup(r)
  PROVE  ExecInv'
<1>1. ExecTypes /\ RequestInv(r)
  BY DEF ExecInv
<1>2. PICK e \in BOOLEAN, c \in Exits :
        /\ Report(r, e, c) /\ UNCHANGED <<procs, killed, exit>>
        /\ Removed(r) \/ UNCHANGED cgroups
        /\ Waited(r) /\ pc[r] \in {"reap", "cleanup"}
        /\ ~e => ~err[r] /\ Removed(r) /\ c = ExitCode(r) /\ pc[r] = "cleanup"
  <2>1. ExitCode(r) \in Exits /\ err[r] \in BOOLEAN /\ "none" \in Exits
    BY <1>1 DEF ExitCode, ExecTypes, Exits
  <2>2. pc[r] = "cleanup" => Waited(r)
    BY <1>1 DEF RequestInv
  <2> QED
    BY <2>1, <2>2, Zenon DEF Reap, Cleanup
<1>3. /\ pc' \in [Requests -> Holding \cup {"new", "admit", "done"}] /\ pc'[r] = "done"
      /\ err' \in [Requests -> BOOLEAN] /\ err'[r] = e
      /\ code' \in [Requests -> Exits] /\ code'[r] = c
      /\ slots' = slots \ {r}
      /\ \A q \in Requests : q # r => pc'[q] = pc[q] /\ err'[q] = err[q] /\ code'[q] = code[q]
  BY <1>1, <1>2, ReportKeeps
<1>4. ExecTypes' /\ OthersKept(r)
  BY <1>1, <1>2, <1>3 DEF ExecTypes, OthersKept, Removed
<1>5. ~e => /\ procs[r] = {} /\ r \notin killed /\ r \notin cgroups' /\ exit[r] # "none"
            /\ c = ExitCode(r)
  BY <1>1, <1>2 DEF RequestInv, Removed, Started
<1>6. ExitCode(r)' = ExitCode(r)
  BY <1>2 DEF ExitCode
<1>7. RequestInv(r)'
  <2>1. r \notin slots' /\ Waited(r)' /\ (r \in killed' <=> r \in killed)
    BY <1>2, <1>3 DEF Waited
  <2>2. ~err'[r] => /\ exit'[r] # "none" /\ code'[r] = ExitCode(r)' /\ r \notin killed'
                    /\ procs'[r] = {} /\ r \notin cgroups'
    BY <1>2, <1>3, <1>5, <1>6
  <2> QED
    BY <1>3, <2>1, <2>2 DEF RequestInv, Holding, Started
<1> QED
  BY <1>3, <1>4, <1>7, OneRequest

-----------------------------------------------------------------------------
(* What the command's processes do.  Only a process of the group starts    *)
(* another one, so that nothing comes to life after Wait has returned.     *)
LEMMA ProcessesKeep ==
  ASSUME ExecInv, NEW r \in Requests, Processes(r)
  PROVE  ExecInv'
<1>1. ExecTypes /\ RequestInv(r) /\ UNCHANGED <<pc, slots, cgroups, killed, err, code>>
  BY DEF ExecInv, Processes, ProcessKilled, Fork, ProcessEnds
<1>2. PICK P \in SUBSET Kinds, x \in Exits :
        /\ procs' = [procs EXCEPT ![r] = P] /\ exit' = [exit EXCEPT ![r] = x]
        /\ procs[r] # {} /\ (procs[r] \cap Group = {} => P \subseteq procs[r] /\ x = exit[r])
        /\ "main" \in procs[r] => "main" \in P \/ x # "none"
        /\ "main" \notin procs[r] => x = exit[r]
  <2>1. CASE ProcessKilled(r)
    <3>1. /\ procs' = [procs EXCEPT ![r] = procs[r] \ Group] /\ procs[r] \ Group \in SUBSET Kinds
          /\ exit' = [exit EXCEPT ![r] = IF "main" \in procs[r] THEN "signal" ELSE exit[r]]
          /\ (IF "main" \in procs[r] THEN "signal" ELSE exit[r]) \in Exits
          /\ procs[r] \cap Group # {}
      BY <1>1, <2>1 DEF ProcessKilled, ExecTypes, Exits
    <3> QED
      BY <3>1, Zenon
  <2>2. ASSUME NEW k \in Kinds, Fork(r, k)
        PROVE  /\ procs' = [procs EXCEPT ![r] = procs[r] \cup {k}]
               /\ procs[r] \cup {k} \in SUBSET Kinds /\ exit[r] \in Exits
               /\ exit' = [exit EXCEPT ![r] = exit[r]] /\ procs[r] \cap Group # {}
    BY <1>1, <2>2 DEF Fork, ExecTypes
  <2>3. ASSUME NEW k \in Kinds, ProcessEnds(r, k)
        PROVE  \E x \in Exits :
                 /\ procs' = [procs EXCEPT ![r] = procs[r] \ {k}]
                 /\ procs[r] \ {k} \in SUBSET Kinds /\ procs[r] # {}
                 /\ exit' = [exit EXCEPT ![r] = x]
                 /\ k = "main" => x # "none" /\ "main" \in procs[r]
                 /\ k # "main" => x = exit[r]
    <3>1. CASE k = "main"
      BY <1>1, <2>3, <3>1 DEF ProcessEnds, ExecTypes, Exits
    <3>2. CASE k # "main"
      BY <1>1, <2>3, <3>2 DEF ProcessEnds, ExecTypes
    <3> QED
      BY <3>1, <3>2
  <2>4. CASE \E k \in Kinds : Fork(r, k)
    BY <2>2, <2>4
  <2>5. CASE \E k \in Kinds : ProcessEnds(r, k)
    BY <2>3, <2>5 DEF Group
  <2> QED
    BY <2>1, <2>4, <2>5 DEF Processes
<1>3. /\ procs' \in [Requests -> SUBSET Kinds] /\ procs'[r] = P
      /\ exit' \in [Requests -> Exits] /\ exit'[r] = x
      /\ \A q \in Requests : q # r => procs'[q] = procs[q] /\ exit'[q] = exit[q]
  BY <1>1, <1>2 DEF ExecTypes
<1>4. ExecTypes' /\ OthersKept(r)
  BY <1>1, <1>3 DEF ExecTypes, OthersKept
<1>5. Waited(r) => Waited(r)'
  BY <1>2, <1>3 DEF Waited, Group
<1>6. RequestInv(r)'
  BY <1>1, <1>2, <1>3, <1>5 DEF RequestInv
<1> QED
  BY <1>1, <1>4, <1>6, OneRequest

-----------------------------------------------------------------------------
(* The slots, the processes and the reports fit together, whatever the     *)
(* commands do and whenever their timeouts expire (execute in main.go).    *)
THEOREM ExecInvariant == Spec => []ExecInv
<1>1. ASSUME ExecInv, [Next]_vars PROVE ExecInv'
  <2> USE <1>1
  <2>1. ASSUME NEW r \in Requests, Agent(r) PROVE ExecInv'
    BY <2>1, AdmissionKeeps, StartKeeps, WaitingKeeps, ReportingKeeps DEF Agent
  <2>2. ASSUME NEW r \in Requests, Processes(r) PROVE ExecInv'
    BY <2>2, ProcessesKeep
  <2>3. ASSUME UNCHANGED <<pc, slots, osVars, err, code>> PROVE ExecInv'
    BY <2>3 DEF osVars, ExecInv, ExecTypes, SlotInv, RequestInv, Waited, ExitCode
  <2> QED
    BY <2>1, <2>2, <2>3 DEF Next, Expire, vars
<1> QED
  BY <1>1, ExecInit, PTL DEF Spec

(* commandSlots bounds the commands that run, with their descendants that  *)
(* hold an output pipe: the slot is given back after Wait only.            *)
THEOREM CommandsStayBounded == Spec => []CommandsBounded
<1>1. ASSUME ExecInv PROVE CommandsBounded
  <2> DEFINE Live == {r \in Requests : ~Waited(r)}
  <2>1. Live \subseteq slots
    BY <1>1 DEF ExecInv, ExecTypes, RequestInv, Waited, Holding, Started
  <2>2. /\ Cardinality(Live) <= Cardinality(slots)
        /\ Cardinality(Live) \in Nat /\ Cardinality(slots) \in Nat
    BY <1>1, <2>1, FS_Subset, FS_CardinalityType DEF ExecInv, SlotInv
  <2> HIDE DEF Live
  <2>3. Cardinality(Live) <= MaxConcurrentCommands
    BY <1>1, <2>2, SlotsAssumption DEF ExecInv, SlotInv
  <2> QED
    BY <2>3 DEF CommandsBounded, Live
<1> QED
  BY <1>1, ExecInvariant, PTL

(* A result without an error is the truth about a command that ended on    *)
(* its own, even when its timeout expired meanwhile.                       *)
THEOREM ResultsAreTruthful == Spec => []ResultTruthful
<1>1. ExecInv => ResultTruthful
  BY DEF ExecInv, RequestInv, ResultTruthful
<1> QED
  BY <1>1, ExecInvariant, PTL
=============================================================================
