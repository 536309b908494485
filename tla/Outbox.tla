------------------------------- MODULE Outbox -------------------------------
(***************************************************************************)
(* The transactional outbox: the table outbox_events, the relays that      *)
(* claim its rows and publish them, and the duplicate window of the stream *)
(* they publish to.                                                        *)
(*                                                                         *)
(* Time is relative, so that it may go on forever in a finite model:       *)
(* wait[e] is available_at - now(), age[e] is now() - locked_at up to the  *)
(* age at which a claim is stale, window[e] what is left of the stream's   *)
(* memory of the event's message id.  A statement of the repository is one *)
(* step.  Which of the available rows are the oldest is not kept: a claim  *)
(* takes any of them.  Failures beyond the cap of retryDelay are not told  *)
(* apart.                                                                  *)
(*                                                                         *)
(* The table's times are the database's now(), the times RunOnce hands to  *)
(* it are the relay host's time.Now().  A reading of the host's clock is   *)
(* off by at most MaxSkew ticks, and by another amount each time.          *)
(***************************************************************************)
EXTENDS Integers, FiniteSets

CONSTANTS
  Events,          \* the rows that may be enqueued
  Oversized,       \* events the publisher refuses for good
  Relays,          \* the relays that run
  Owners, owner,   \* owner[r]: the name relay r claims under
  NoOwner,         \* locked_by IS NULL
  NoEvent,         \* no event in hand
  BatchSize,       \* Relay.batchSize
  LockAge,         \* Relay.lockAge, in ticks
  MaxSkew,         \* assumption: how far a relay host's clock is off, in ticks
  MaxBackoff,      \* the failure count at which retryDelay stops growing
  Window,          \* the stream's duplicate window, in ticks
  MaxBatchTicks,   \* assumption: a relay is through with a batch by then
  MaxFaults        \* bound on failed statements, publications and crashes

ASSUME OwnerAssumption == owner \in [Relays -> Owners] /\ NoOwner \notin Owners

ASSUME EventAssumption == Oversized \subseteq Events /\ NoEvent \notin Events

ASSUME TimeAssumption ==
  /\ BatchSize \in Nat \ {0} /\ LockAge \in Nat /\ MaxSkew \in Nat /\ MaxBackoff \in Nat
  /\ Window \in Nat /\ MaxBatchTicks \in Nat /\ MaxFaults \in Nat

VARIABLES
  stored,        \* rows of the table
  published,     \* rows with published_at
  quarantined,   \* rows with quarantined_at
  wait, lock, age, failures,
  pc, batch, cur, spent,   \* a relay: its step, the rest of its batch as
                           \* pairs of event and failure count, the pair in
                           \* hand, the ticks since its claim
  copies,        \* copies[e]: 0, 1 or more (2) messages in the stream
  window,
  faults

rowVars == <<stored, published, quarantined, wait, lock, age, failures>>
relayVars == <<pc, batch, cur, spent>>
busVars == <<copies, window>>
vars == <<rowVars, relayVars, busVars, faults>>

Fault == faults < MaxFaults /\ faults' = faults + 1
NoFault == UNCHANGED faults

AtMost(n, max) == IF n < max THEN n ELSE max

(* 1<<n.  The count is capped before it is shifted: no bit is lost.        *)
ShiftOne[n \in Nat] == IF n = 0 THEN 1 ELSE 2 * ShiftOne[n - 1]

(* Faulty variant of retryDelay: the count is not capped.                  *)
retryDelayUncapped(f) == ShiftOne[f]

(* retryDelay: 1<<failures seconds, the count capped.                      *)
retryDelay(f) == ShiftOne[AtMost(f, MaxBackoff)]

(* time.Now() on a relay's host, less the database's now().                *)
Skews == -MaxSkew..MaxSkew

(* The age at which a claim is stale by every clock.                       *)
StaleAge == LockAge + MaxSkew + 1

Idle == <<NoEvent, 0>>

Init ==
  /\ stored = {} /\ published = {} /\ quarantined = {}
  /\ wait = [e \in Events |-> 0]
  /\ lock = [e \in Events |-> NoOwner]
  /\ age = [e \in Events |-> 0]
  /\ failures = [e \in Events |-> 0]
  /\ pc = [r \in Relays |-> "idle"]
  /\ batch = [r \in Relays |-> {}]
  /\ cur = [r \in Relays |-> Idle]
  /\ spent = [r \in Relays |-> 0]
  /\ copies = [e \in Events |-> 0]
  /\ window = [e \in Events |-> 0]
  /\ faults = 0

-----------------------------------------------------------------------------
(* Enqueue and EnqueueTx insert a row, now or with a later available_at.   *)
(* A second row with the same id is refused.                               *)
Enqueue(e) ==
  /\ e \notin stored /\ stored' = stored \cup {e}
  /\ \E d \in {0, 1} : wait' = [wait EXCEPT ![e] = d]
  /\ UNCHANGED <<published, quarantined, lock, age, failures, relayVars, busVars, faults>>

(* Redrive of a quarantined row.                                           *)
Redrive(e) ==
  /\ e \in quarantined /\ quarantined' = quarantined \ {e}
  /\ wait' = [wait EXCEPT ![e] = 0]
  /\ UNCHANGED <<stored, published, lock, age, failures, relayVars, busVars, faults>>

-----------------------------------------------------------------------------
(* Faulty variants of Stale: claims are taken over at lockAge already, or  *)
(* never.                                                                  *)
StaleAtLockAge(e, skew) == lock[e] # NoOwner /\ age[e] + skew >= LockAge

StaleNever(e, skew) == FALSE

(* ClaimBatch.  A row is free when it is not locked or its lock is, by the *)
(* relay's clock, older than lockAge; SKIP LOCKED keeps two claims from    *)
(* taking the same row.                                                    *)
Stale(e, skew) == lock[e] # NoOwner /\ age[e] + skew > LockAge

Claimable(skew) ==
  {e \in stored \ (published \cup quarantined) :
     wait[e] = 0 /\ (lock[e] = NoOwner \/ Stale(e, skew))}

Claims(r, S) ==
  /\ S # {}
  /\ \E skew \in Skews :
       /\ S \subseteq Claimable(skew)
       /\ Cardinality(S) = AtMost(Cardinality(Claimable(skew)), BatchSize)
  /\ lock' = [e \in Events |-> IF e \in S THEN owner[r] ELSE lock[e]]
  /\ age' = [e \in Events |-> IF e \in S THEN 0 ELSE age[e]]
  /\ UNCHANGED <<stored, published, quarantined, wait, failures, busVars>>

ClaimBatch(r) ==
  /\ pc[r] = "idle" /\ NoFault
  /\ \E S \in SUBSET Events :
       /\ Claims(r, S)
       /\ batch' = [batch EXCEPT ![r] = {<<e, failures[e]>> : e \in S}]
  /\ pc' = [pc EXCEPT ![r] = "next"]
  /\ spent' = [spent EXCEPT ![r] = 0]
  /\ UNCHANGED cur

(* The rows are claimed but the relay does not get to see them.            *)
ClaimFails(r) ==
  /\ pc[r] = "idle" /\ Fault
  /\ \E S \in SUBSET Events : Claims(r, S)
  /\ UNCHANGED relayVars

-----------------------------------------------------------------------------
(* RunOnce goes through the batch until it is done or a step fails.        *)
Goto(r, l) == pc' = [pc EXCEPT ![r] = l] /\ UNCHANGED <<batch, cur, spent>>

Abort(r) ==
  /\ pc' = [pc EXCEPT ![r] = "idle"]
  /\ batch' = [batch EXCEPT ![r] = {}]
  /\ cur' = [cur EXCEPT ![r] = Idle]
  /\ spent' = [spent EXCEPT ![r] = 0]

Proceed(r) ==
  IF batch[r] = {} THEN Abort(r)
  ELSE pc' = [pc EXCEPT ![r] = "next"] /\ cur' = [cur EXCEPT ![r] = Idle] /\ UNCHANGED <<batch, spent>>

NextEvent(r) ==
  /\ pc[r] = "next"
  /\ \E b \in batch[r] :
       /\ cur' = [cur EXCEPT ![r] = b]
       /\ batch' = [batch EXCEPT ![r] = @ \ {b}]
  /\ pc' = [pc EXCEPT ![r] = "publish"]
  /\ UNCHANGED <<rowVars, busVars, spent, faults>>

event(r) == cur[r][1]

(* The stream drops a message whose id it remembers.                       *)
Accepted(e) ==
  IF window[e] > 0 THEN UNCHANGED busVars
  ELSE /\ copies' = [copies EXCEPT ![e] = AtMost(@ + 1, 2)]
       /\ window' = [window EXCEPT ![e] = Window]

(* Faulty variant of Publish: an error of unknown kind counts as success.  *)
PublishOptimistic(r) ==
  /\ pc[r] = "publish" /\ UNCHANGED rowVars
  /\ \/ event(r) \in Oversized /\ Goto(r, "quarantine") /\ UNCHANGED busVars /\ NoFault
     \/ event(r) \notin Oversized /\ Accepted(event(r)) /\ Goto(r, "mark") /\ NoFault
     \/ event(r) \notin Oversized /\ Goto(r, "mark") /\ Fault /\ UNCHANGED busVars

Publish(r) ==
  /\ pc[r] = "publish" /\ UNCHANGED rowVars
  /\ \/ event(r) \in Oversized /\ Goto(r, "quarantine") /\ UNCHANGED busVars /\ NoFault
     \/ event(r) \notin Oversized /\ Accepted(event(r)) /\ Goto(r, "mark") /\ NoFault
     \/ /\ event(r) \notin Oversized /\ Goto(r, "release") /\ Fault
        /\ Accepted(event(r)) \/ UNCHANGED busVars
-----------------------------------------------------------------------------
(* The completions.  Each statement has the same guard; when it updates no *)
(* row the relay gets ErrClaimLost and drops the rest of its batch.        *)
Holds(r) ==
  /\ event(r) \in stored \ (published \cup quarantined)
  /\ lock[event(r)] = owner[r]

Unlock(e) ==
  /\ lock' = [lock EXCEPT ![e] = NoOwner]
  /\ age' = [age EXCEPT ![e] = 0]

(* Faulty variant of MarkedPublished: the lock is kept.                    *)
MarkedPublishedLocked(e) ==
  published' = published \cup {e} /\ UNCHANGED <<stored, quarantined, wait, lock, age, failures>>

MarkedPublished(e) ==
  /\ published' = published \cup {e} /\ Unlock(e)
  /\ UNCHANGED <<stored, quarantined, wait, failures>>

(* What is left, by the database's clock, of a delay set by the relay's.   *)
Until(delay, skew) == IF delay + skew > 0 THEN delay + skew ELSE 0

Released(e, f) ==
  /\ \E skew \in Skews : wait' = [wait EXCEPT ![e] = Until(retryDelay(f), skew)]
  /\ failures' = [failures EXCEPT ![e] = AtMost(@ + 1, MaxBackoff + 1)]
  /\ Unlock(e)
  /\ UNCHANGED <<stored, published, quarantined>>

Quarantined(e) ==
  /\ quarantined' = quarantined \cup {e}
  /\ failures' = [failures EXCEPT ![e] = AtMost(@ + 1, MaxBackoff + 1)]
  /\ Unlock(e)
  /\ UNCHANGED <<stored, published, wait>>

Completed(r) ==
  \/ pc[r] = "mark" /\ MarkedPublished(event(r))
  \/ pc[r] = "release" /\ Released(event(r), cur[r][2])
  \/ pc[r] = "quarantine" /\ Quarantined(event(r))

Complete(r) ==
  Holds(r) /\ Completed(r) /\ Proceed(r) /\ NoFault /\ UNCHANGED busVars

ClaimLost(r) ==
  /\ pc[r] \in {"mark", "release", "quarantine"} /\ ~Holds(r)
  /\ Abort(r) /\ NoFault /\ UNCHANGED <<rowVars, busVars>>

(* The statement fails, before or after it took effect.                    *)
CompleteFails(r) ==
  /\ pc[r] \in {"mark", "release", "quarantine"} /\ Fault
  /\ (Holds(r) /\ Completed(r)) \/ UNCHANGED rowVars
  /\ Abort(r) /\ UNCHANGED busVars

Crash(r) ==
  pc[r] # "idle" /\ Fault /\ Abort(r) /\ UNCHANGED <<rowVars, busVars>>

-----------------------------------------------------------------------------
Less(n) == IF n > 0 THEN n - 1 ELSE 0

(* A relay takes at most MaxBatchTicks for its batch.                      *)
Tick ==
  /\ \A r \in Relays : pc[r] # "idle" => spent[r] < MaxBatchTicks
  /\ wait' = [e \in Events |-> Less(wait[e])]
  /\ age' = [e \in Events |-> IF lock[e] = NoOwner THEN 0 ELSE AtMost(age[e] + 1, StaleAge)]
  /\ window' = [e \in Events |-> Less(window[e])]
  /\ spent' = [r \in Relays |-> IF pc[r] = "idle" THEN 0 ELSE spent[r] + 1]
  /\ UNCHANGED <<stored, published, quarantined, lock, failures, pc, batch, cur, copies, faults>>

Run(r) == NextEvent(r) \/ Publish(r) \/ Complete(r) \/ ClaimLost(r)

Next ==
  \/ \E e \in Events : Enqueue(e) \/ Redrive(e)
  \/ \E r \in Relays :
       ClaimBatch(r) \/ Run(r) \/ ClaimFails(r) \/ CompleteFails(r) \/ Crash(r)
  \/ Tick

Spec == Init /\ [][Next]_vars

(* Time passes, and a relay that has claimed a batch goes through it.      *)
FairSpec == Spec /\ WF_vars(Tick) /\ \A r \in Relays : WF_vars(Run(r))

-----------------------------------------------------------------------------
Pairs == Events \X (0..MaxBackoff + 1)
LongestWait == ShiftOne[MaxBackoff] + MaxSkew

(* Every variable has its type; the counters keep within their caps.       *)
TypeOK ==
  /\ stored \subseteq Events /\ published \subseteq stored /\ quarantined \subseteq stored
  /\ wait \in [Events -> 0..LongestWait]
  /\ lock \in [Events -> Owners \cup {NoOwner}]
  /\ age \in [Events -> 0..StaleAge]
  /\ failures \in [Events -> 0..MaxBackoff + 1]
  /\ pc \in [Relays -> {"idle", "next", "publish", "mark", "release", "quarantine"}]
  /\ batch \in [Relays -> SUBSET Pairs]
  /\ cur \in [Relays -> Pairs \cup {Idle}]
  /\ spent \in [Relays -> 0..MaxBatchTicks]
  /\ copies \in [Events -> 0..2]
  /\ window \in [Events -> 0..Window]
  /\ faults \in 0..MaxFaults

(* A row that left the table's work for good or for quarantine is not      *)
(* locked, so that no relay is waited for (the three UPDATEs clear         *)
(* locked_at and locked_by), and never both published and quarantined      *)
(* (chk_outbox_terminal_state).                                            *)
TerminalUnlocked ==
  /\ published \cap quarantined = {}
  /\ \A e \in published \cup quarantined : lock[e] = NoOwner

Delivery == INSTANCE EventDelivery WITH
  sent <- {e \in Events : copies[e] > 0}, done <- published

(* The outbox delivers every event at least once before it is recorded as  *)
(* published, with relays that crash, lose their claims to others and      *)
(* publish what another one has published already.                         *)
AtLeastOnce == Delivery!DeliverySpec

InHand(r) == {b[1] : b \in batch[r]} \cup ({event(r)} \ {NoEvent})

(* ClaimBatch gives a row to one relay at a time: two relays have the same *)
(* event in hand only after one of them has spent so long on its batch     *)
(* that a clock which is off by MaxSkew may read more than lockAge.  With  *)
(* clocks that agree this is lockAge itself.                               *)
ClaimsExclusive ==
  \A q, r \in Relays :
    (q # r /\ InHand(q) \cap InHand(r) # {}) =>
      (spent[q] + MaxSkew > LockAge \/ spent[r] + MaxSkew > LockAge)

Prompt == \A r \in Relays : spent[r] + MaxSkew <= LockAge

(* Some relay is run again and again.  Nothing in the repository calls     *)
(* RunOnce: this is what its caller will have to do.                       *)
RunAgain == \E r \in Relays : WF_vars(ClaimBatch(r))

(* When one relay at least is run again and again and none outlives its    *)
(* claims any more, every event that the stream takes is recorded as       *)
(* published in the end, through failed publications, lost claims, failed  *)
(* statements and crashes, and every other event is quarantined.  (Slow    *)
(* relays can go on taking the rows from each other.)                      *)
EventuallySettled ==
  (RunAgain /\ <>[]Prompt) =>
    \A e \in Events :
      e \in stored ~> e \in IF e \in Oversized THEN quarantined ELSE published
=============================================================================
