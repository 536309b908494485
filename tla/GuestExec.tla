----------------------------- MODULE GuestExec -----------------------------
(***************************************************************************)
(* Command execution in the guest agent (cmd/guest-agent/main.go and       *)
(* limits.go): serve runs one goroutine per connection; execute takes a    *)
(* command slot, starts the command in a cgroup of its own, waits for it   *)
(* or kills its process group when the timeout expires, removes the cgroup *)
(* and reports.                                                            *)
(*                                                                         *)
(* What a command is made of decides what the agent can do to it.  "main"  *)
(* is the process it started, "child" another one of its process group,    *)
(* "holder" one that left the group with the output pipes open, "daemon"   *)
(* one that left the group and closed them.                                *)
(***************************************************************************)
EXTENDS Naturals, FiniteSets

CONSTANTS
  Requests,               \* connections, one request each
  Timed,                  \* requests with TimeoutMS > 0
  MaxConcurrentCommands   \* capacity of commandSlots

ASSUME SlotsAssumption == MaxConcurrentCommands \in Nat \ {0} /\ Timed \subseteq Requests

VARIABLES
  pc,       \* next step of each goroutine
  slots,    \* requests with a token in commandSlots
  cgroups,  \* requests whose cgroup directory exists
  procs,    \* live processes of each command
  expired,  \* requests whose context is done
  killed,   \* commands whose process group was sent SIGKILL
  exit,     \* how "main" ended
  err,      \* ExecResult.Error is not empty
  code      \* ExecResult.ExitCode: "ok" is 0, "none" is -1

osVars == <<cgroups, procs, killed, exit>>
vars == <<pc, slots, osVars, expired, err, code>>

Group == {"main", "child"}
Kinds == Group \cup {"holder", "daemon"}
Exits == {"none", "ok", "nonzero", "signal"}

Init ==
  /\ pc = [r \in Requests |-> "new"]
  /\ slots = {} /\ cgroups = {} /\ expired = {} /\ killed = {}
  /\ procs = [r \in Requests |-> {}]
  /\ exit = [r \in Requests |-> "none"]
  /\ err = [r \in Requests |-> FALSE]
  /\ code = [r \in Requests |-> "none"]

Goto(r, l) == pc' = [pc EXCEPT ![r] = l]

(* execute returns: its deferred functions free the slot and the timer.    *)
Report(r, e, c) ==
  /\ Goto(r, "done")
  /\ err' = [err EXCEPT ![r] = e]
  /\ code' = [code EXCEPT ![r] = c]
  /\ slots' = slots \ {r}

-----------------------------------------------------------------------------
(* serve refuses another peer than the host and a request that does not    *)
(* decode.                                                                 *)
Serve(r) ==
  /\ pc[r] = "new"
  /\ \/ Goto(r, "admit") /\ UNCHANGED <<slots, err, code>>
     \/ Report(r, TRUE, "none")
  /\ UNCHANGED <<osVars, expired>>

ValidateFails(r) ==
  pc[r] = "admit" /\ Report(r, TRUE, "none") /\ UNCHANGED <<osVars, expired>>

(* A slot is taken at once or not at all.                                  *)
Admit(r) ==
  /\ pc[r] = "admit"
  /\ IF Cardinality(slots) < MaxConcurrentCommands
     THEN slots' = slots \cup {r} /\ Goto(r, "prepare") /\ UNCHANGED <<err, code>>
     ELSE Report(r, TRUE, "none")
  /\ UNCHANGED <<osVars, expired>>

(* The context of a request with a timeout expires.                        *)
Expire(r) ==
  /\ r \in Timed \cap slots /\ r \notin expired
  /\ expired' = expired \cup {r}
  /\ UNCHANGED <<pc, slots, osVars, err, code>>

(* rmdir of the cgroup fails as long as a process is in it, and may fail   *)
(* otherwise.                                                              *)
Removed(r) == procs[r] = {} /\ cgroups' = cgroups \ {r}

prepareCgroup(r) ==
  /\ pc[r] = "prepare"
  /\ \/ /\ Goto(r, "start") /\ cgroups' = cgroups \cup {r}
        /\ UNCHANGED <<slots, err, code>>
     \/ Report(r, TRUE, "none") /\ cgroups' \in {cgroups, cgroups \cup {r}}
  /\ UNCHANGED <<procs, killed, exit, expired>>

StartCommand(r) ==
  /\ pc[r] = "start"
  /\ \/ /\ Goto(r, "verify") /\ procs' = [procs EXCEPT ![r] = {"main"}]
        /\ UNCHANGED <<slots, cgroups, err, code>>
     \/ /\ Report(r, TRUE, "none") /\ UNCHANGED procs
        /\ Removed(r) \/ UNCHANGED cgroups
  /\ UNCHANGED <<killed, exit, expired>>

(* The cgroup and the rlimits of the running command are verified ...      *)
VerifyLimits(r) ==
  pc[r] = "verify" /\ Goto(r, "wait") /\ UNCHANGED <<slots, osVars, expired, err, code>>

(* ... or are not as they should be.                                       *)
killAndReap(r) ==
  /\ pc[r] = "verify" /\ Goto(r, "reap") /\ killed' = killed \cup {r}
  /\ UNCHANGED <<slots, cgroups, procs, exit, expired, err, code>>

(* cmd.Wait returns when the process is gone and nobody has the pipes.     *)
Waited(r) == procs[r] \subseteq {"daemon"}

Reap(r) ==
  /\ pc[r] = "reap" /\ Waited(r)
  /\ Removed(r) \/ UNCHANGED cgroups
  /\ Report(r, TRUE, "none")
  /\ UNCHANGED <<procs, killed, exit, expired>>

-----------------------------------------------------------------------------
(* The select of execute: either case when both are ready.                 *)
WaitReturns(r) ==
  /\ pc[r] \in {"wait", "kill"} /\ Waited(r)
  /\ Goto(r, "cleanup")
  /\ UNCHANGED <<slots, osVars, expired, err, code>>

(* Faulty variant of Timeout: only the process itself is sent the signal.  *)
TimeoutKillsMain(r) ==
  /\ pc[r] = "wait" /\ r \in expired
  /\ procs' = [procs EXCEPT ![r] = @ \ {"main"}]
  /\ exit' = [exit EXCEPT ![r] = IF "main" \in procs[r] THEN "signal" ELSE @]
  /\ err' = [err EXCEPT ![r] = TRUE]
  /\ Goto(r, "kill")
  /\ UNCHANGED <<slots, cgroups, killed, expired, code>>

(* Faulty variant of Timeout: it does not wait for the killed command.     *)
TimeoutReports(r) ==
  /\ pc[r] = "wait" /\ r \in expired
  /\ killed' = killed \cup {r}
  /\ Report(r, TRUE, "none")
  /\ UNCHANGED <<cgroups, procs, exit, expired>>

Timeout(r) ==
  /\ pc[r] = "wait" /\ r \in expired
  /\ killed' = killed \cup {r}
  /\ err' = [err EXCEPT ![r] = TRUE]
  /\ Goto(r, "kill")
  /\ UNCHANGED <<slots, cgroups, procs, exit, expired, code>>

(* Killed processes have no exit code.  The buffers take every write, so   *)
(* that Wait has no other error than an exit status.                       *)
ExitCode(r) == IF exit[r] \in {"ok", "nonzero"} THEN exit[r] ELSE "none"

(* Faulty variant of Cleanup: an error of the removal is not reported.     *)
CleanupSilent(r) ==
  /\ pc[r] = "cleanup"
  /\ Removed(r) \/ UNCHANGED cgroups
  /\ Report(r, err[r], ExitCode(r))
  /\ UNCHANGED <<procs, killed, exit, expired>>

(* The removal's error is reported unless the timeout is.                  *)
Cleanup(r) ==
  /\ pc[r] = "cleanup"
  /\ \/ Removed(r) /\ Report(r, err[r], ExitCode(r))
     \/ UNCHANGED cgroups /\ Report(r, TRUE, ExitCode(r))
  /\ UNCHANGED <<procs, killed, exit, expired>>

-----------------------------------------------------------------------------
(* The processes.  Those of the group die once they are killed; a process  *)
(* that ended on its own is not killed any more.                           *)
Fork(r, k) ==
  /\ procs[r] \cap Group # {} /\ r \notin killed /\ k # "main"
  /\ procs' = [procs EXCEPT ![r] = @ \cup {k}]
  /\ UNCHANGED <<pc, slots, cgroups, killed, exit, expired, err, code>>

ProcessEnds(r, k) ==
  /\ k \in procs[r] /\ ~(r \in killed /\ k \in Group)
  /\ procs' = [procs EXCEPT ![r] = @ \ {k}]
  /\ IF k = "main" THEN \E s \in Exits \ {"none"} : exit' = [exit EXCEPT ![r] = s]
                   ELSE UNCHANGED exit
  /\ UNCHANGED <<pc, slots, cgroups, killed, expired, err, code>>

ProcessKilled(r) ==
  /\ r \in killed /\ procs[r] \cap Group # {}
  /\ procs' = [procs EXCEPT ![r] = @ \ Group]
  /\ exit' = [exit EXCEPT ![r] = IF "main" \in procs[r] THEN "signal" ELSE @]
  /\ UNCHANGED <<pc, slots, cgroups, killed, expired, err, code>>

-----------------------------------------------------------------------------
Agent(r) ==
  \/ Serve(r) \/ ValidateFails(r) \/ Admit(r) \/ prepareCgroup(r) \/ StartCommand(r)
  \/ VerifyLimits(r) \/ killAndReap(r) \/ Reap(r) \/ WaitReturns(r) \/ Timeout(r) \/ Cleanup(r)

Processes(r) == ProcessKilled(r) \/ \E k \in Kinds : Fork(r, k) \/ ProcessEnds(r, k)

Next == \E r \in Requests : Agent(r) \/ Processes(r) \/ Expire(r)

Spec == Init /\ [][Next]_vars

(* The agent's goroutines run, timers fire and SIGKILL takes effect; what  *)
(* a command does on its own is up to it.                                  *)
FairSpec ==
  Spec /\ \A r \in Requests : WF_vars(Agent(r)) /\ WF_vars(Expire(r)) /\ WF_vars(ProcessKilled(r))

-----------------------------------------------------------------------------
(* At most MaxConcurrentCommands commands are running, in every sense the  *)
(* agent can see: their processes are alive or their output is open.       *)
CommandsBounded ==
  Cardinality({r \in Requests : ~Waited(r)}) <= MaxConcurrentCommands

(* A result without an error tells the truth: the command ended on its own *)
(* with that exit code and left no process and no cgroup behind.           *)
ResultTruthful ==
  \A r \in Requests : pc[r] = "done" /\ ~err[r] =>
    /\ exit[r] # "none" /\ code[r] = ExitCode(r) /\ r \notin killed
    /\ procs[r] = {} /\ r \notin cgroups

(* A command with a timeout is over some time after it was started, unless *)
(* a process that left its group keeps the output open.                    *)
TimeoutEffective ==
  \A r \in Timed : pc[r] = "wait" ~> (pc[r] = "done" \/ "holder" \in procs[r])

(* Execution is bounded ("A bounded command execution timeout."): a        *)
(* command with a timeout gives its slot back.                             *)
ExecutionBounded == \A r \in Timed : r \in slots ~> r \notin slots
=============================================================================
