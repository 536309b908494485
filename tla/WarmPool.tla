------------------------------ MODULE WarmPool ------------------------------
(***************************************************************************)
(* The warm pool (internal/core/vmm/pool.go): running instances are added  *)
(* by their owner, checked out under a lease, reset and checked in again,  *)
(* or stopped.  Calls run concurrently with each other and with the        *)
(* manager's DestroyVM, which does not know about the pool.  A step is a   *)
(* critical section of the pool's or of an instance's mutex, or the reset  *)
(* function.  The stages of Instance.Stop are those of module VmManager,   *)
(* reduced to the states they go through.                                  *)
(***************************************************************************)
EXTENDS Naturals, Sequences, FiniteSets

CONSTANTS
  Instances,   \* instances that ProvisionVM returned
  NoInstance,
  Leases,      \* lease ids
  Callers,     \* goroutines that use the pool or destroy an instance
  Capacity     \* WarmPool.capacity

(* NewWarmPool refuses a capacity that is not positive; a process has      *)
(* finitely many goroutines.                                               *)
ASSUME CapacityAssumption == Capacity \in Nat \ {0} /\ NoInstance \notin Instances
ASSUME CallersAssumption == IsFiniteSet(Callers)

VARIABLES
  idle,    \* WarmPool.idle, the last element is checked out first
  inUse,   \* WarmPool.inUse
  state,   \* Instance.state
  dirty,   \* instances a tenant had and no reset succeeded on since
  owned,   \* history: instances their owner has and did not give to the pool
  repeated, \* history: instances added although their owner had given them away
  pc, cur  \* next step of each caller and the instance it works on

poolVars == <<idle, inUse>>
history == <<owned, repeated>>
callVars == <<pc, cur>>
vars == <<poolVars, state, dirty, history, callVars>>

Idle == {idle[k] : k \in 1..Len(idle)}
Leased == {l \in Leases : inUse[l] # NoInstance}
At(places) == {t \in Callers : pc[t] \in places}

Init ==
  /\ idle = << >>
  /\ inUse = [l \in Leases |-> NoInstance]
  /\ state = [i \in Instances |-> "running"]
  /\ owned = Instances /\ repeated = {}
  /\ dirty = {}
  /\ pc = [t \in Callers |-> "idle"]
  /\ cur = [t \in Callers |-> NoInstance]

Begin(t, l, i) ==
  /\ pc[t] = "idle"
  /\ pc' = [pc EXCEPT ![t] = l] /\ cur' = [cur EXCEPT ![t] = i]

Goto(t, l) == pc' = [pc EXCEPT ![t] = l] /\ UNCHANGED cur

Return(t) ==
  /\ pc' = [pc EXCEPT ![t] = "idle"]
  /\ cur' = [cur EXCEPT ![t] = NoInstance]

-----------------------------------------------------------------------------
(* Add looks at the state before it takes the pool's mutex.  It accepts    *)
(* any running instance, also one that is idle or leased already.          *)
Add(t, i) ==
  /\ state[i] = "running"
  /\ Begin(t, "add", i)
  /\ owned' = owned \ {i}
  /\ repeated' = IF i \in owned THEN repeated ELSE repeated \cup {i}
  /\ UNCHANGED <<poolVars, state, dirty>>

(* Faulty variant of AddIdle: one instance too many.                       *)
AddIdleOneMore(t) ==
  /\ pc[t] = "add"
  /\ IF Len(idle) + Cardinality(Leased) > Capacity
     THEN owned' = owned \cup {cur[t]} /\ UNCHANGED idle
     ELSE idle' = Append(idle, cur[t]) /\ UNCHANGED owned
  /\ Return(t)
  /\ UNCHANGED <<inUse, state, dirty, repeated>>

(* Without room the owner keeps the instance.                              *)
AddIdle(t) ==
  /\ pc[t] = "add"
  /\ IF Len(idle) + Cardinality(Leased) >= Capacity
     THEN owned' = owned \cup {cur[t]} /\ UNCHANGED idle
     ELSE idle' = Append(idle, cur[t]) /\ UNCHANGED owned
  /\ Return(t)
  /\ UNCHANGED <<inUse, state, dirty, repeated>>

(* Checkout.  The refusals (lease exists, nothing idle, the last idle      *)
(* instance not running) change nothing: the instance is put back.         *)
Checkout(l) ==
  /\ inUse[l] = NoInstance /\ idle # << >>
  /\ LET i == idle[Len(idle)] IN
       /\ state[i] = "running"
       /\ inUse' = [inUse EXCEPT ![l] = i] /\ dirty' = dirty \cup {i}
  /\ idle' = SubSeq(idle, 1, Len(idle) - 1)
  /\ UNCHANGED <<state, history, callVars>>

-----------------------------------------------------------------------------
(* Faulty variant of Checkin: the lease is kept while the reset runs.      *)
CheckinKeepsLease(t, l) ==
  /\ inUse[l] # NoInstance
  /\ Begin(t, "reset", inUse[l])
  /\ UNCHANGED <<poolVars, state, history, dirty>>

(* Checkin takes the lease out of the map before it resets the instance.   *)
Checkin(t, l) ==
  /\ inUse[l] # NoInstance
  /\ Begin(t, "reset", inUse[l])
  /\ inUse' = [inUse EXCEPT ![l] = NoInstance]
  /\ UNCHANGED <<idle, state, history, dirty>>

(* Faulty variant of Reset: the error is dropped.                          *)
ResetErrorDropped(t) ==
  /\ pc[t] = "reset"
  /\ dirty' \in {dirty, dirty \ {cur[t]}} /\ Goto(t, "verify")
  /\ UNCHANGED <<poolVars, state, history>>

(* Faulty variant of Reset: a failed reset drops the instance.             *)
ResetForgets(t) ==
  /\ pc[t] = "reset"
  /\ \/ dirty' = dirty \ {cur[t]} /\ Goto(t, "verify")
     \/ UNCHANGED dirty /\ Return(t)
  /\ UNCHANGED <<poolVars, state, history>>

(* The reset function succeeds or fails.                                   *)
Reset(t) ==
  /\ pc[t] = "reset"
  /\ \/ dirty' = dirty \ {cur[t]} /\ Goto(t, "verify")
     \/ UNCHANGED dirty /\ Goto(t, "stop")
  /\ UNCHANGED <<poolVars, state, history>>

Verify(t) ==
  /\ pc[t] = "verify"
  /\ Goto(t, IF state[cur[t]] = "running" THEN "return" ELSE "stop")
  /\ UNCHANGED <<poolVars, state, history, dirty>>

ReturnIdle(t) ==
  /\ pc[t] = "return"
  /\ idle' = Append(idle, cur[t]) /\ Return(t)
  /\ UNCHANGED <<inUse, state, history, dirty>>

-----------------------------------------------------------------------------
(* The manager's DestroyVM of an instance, whoever has it.                 *)
DestroyVM(t, i) ==
  /\ Begin(t, "stop", i)
  /\ UNCHANGED <<poolVars, state, history, dirty>>

(* Instance.Stop does nothing while another Stop runs and after one that   *)
(* succeeded.                                                              *)
Stop(t) ==
  /\ pc[t] = "stop"
  /\ IF state[cur[t]] \in {"running", "cleanup-failed"}
     THEN state' = [state EXCEPT ![cur[t]] = "stopping"] /\ Goto(t, "stopping")
     ELSE UNCHANGED state /\ Return(t)
  /\ UNCHANGED <<poolVars, history, dirty>>

StopEnd(t) ==
  /\ pc[t] = "stopping"
  /\ \E s \in {"stopped", "cleanup-failed"} : state' = [state EXCEPT ![cur[t]] = s]
  /\ Return(t)
  /\ UNCHANGED <<poolVars, history, dirty>>

Step(t) == AddIdle(t) \/ Reset(t) \/ Verify(t) \/ ReturnIdle(t) \/ Stop(t) \/ StopEnd(t)

Next ==
  \/ \E t \in Callers : Step(t)
  \/ \E t \in Callers, i \in Instances : Add(t, i) \/ DestroyVM(t, i)
  \/ \E l \in Leases : Checkout(l) \/ \E t \in Callers : Checkin(t, l)

Spec == Init /\ [][Next]_vars

-----------------------------------------------------------------------------
InHand == At({"add", "reset", "verify", "return"})

(* Instance i is with its owner, once in the idle list, under one lease,   *)
(* or in the hands of one Add or Checkin.                                  *)
InOnePlace(i) ==
  /\ \A j, k \in 1..Len(idle) : idle[j] = i /\ idle[k] = i => j = k
  /\ \A l, m \in Leases : inUse[l] = i /\ inUse[m] = i => l = m
  /\ \A t, u \in InHand : cur[t] = i /\ cur[u] = i => t = u
  /\ i \notin Idle \cap owned
  /\ \A l \in Leases : inUse[l] = i => i \notin Idle \cup owned
  /\ \A t \in InHand : cur[t] = i => i \notin Idle \cup owned /\ \A l \in Leases : inUse[l] # i

(* An instance that was never added again while the pool had it is in one  *)
(* place only, and two tenants never share it, whatever order Checkouts,   *)
(* Checkins and Adds of this and other instances come in.  The pool itself *)
(* does not keep an instance from being added again (Add).                 *)
OnePlace == \A i \in Instances \ repeated : InOnePlace(i)

(* What waits in the idle list was reset since its last tenant ("An        *)
(* instance is only returned to the idle pool after the supplied reset     *)
(* operation succeeds"), unless it was added again while a tenant had it.  *)
IdleClean == Idle \cap dirty \subseteq repeated

(* A running instance is never dropped: it is with its owner, in the pool  *)
(* or in the hands of a call that will put it back or stop it.             *)
RunningKept ==
  \A i \in Instances :
    \/ state[i] # "running"
    \/ i \in owned \cup Idle
    \/ \E l \in Leased : inUse[l] = i
    \/ \E t \in Callers : pc[t] # "idle" /\ cur[t] = i

(* Add counts the idle and the leased instances but not the ones a Checkin *)
(* is resetting, so the pool can outgrow its capacity, by at most one      *)
(* instance for every other call that was under way.                       *)
GrowthBounded ==
  Len(idle) + Cardinality(Leased) + Cardinality(At({"reset", "verify", "return"}))
    <= Capacity + Cardinality(Callers) - 1
=============================================================================
