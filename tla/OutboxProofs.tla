---------------------------- MODULE OutboxProofs ----------------------------
(***************************************************************************)
(* The outbox delivers at least once and settles rows cleanly, for any     *)
(* number of events, relays, owner names, ticks and faults: module Outbox  *)
(* implements module EventDelivery.                                        *)
(***************************************************************************)
EXTENDS Outbox, WellFoundedInduction, TLAPS

Busy == {"publish", "mark", "release", "quarantine"}

Types ==
  /\ stored \subseteq Events /\ published \subseteq stored /\ quarantined \subseteq stored
  /\ lock \in [Events -> Owners \cup {NoOwner}]
  /\ failures \in [Events -> Nat]
  /\ pc \in [Relays -> Busy \cup {"idle", "next"}]
  /\ batch \in [Relays -> SUBSET (Events \X Nat)]
  /\ cur \in [Relays -> (Events \X Nat) \cup {Idle}]
  /\ copies \in [Events -> Nat]
  /\ window \in [Events -> Nat]

(* What the stream remembers it has; what a relay is about to record as    *)
(* published was accepted before, by this relay or by another.             *)
Bus ==
  /\ \A e \in Events : window[e] > 0 => copies[e] > 0
  /\ \A e \in published : copies[e] > 0
  /\ \A r \in Relays : pc[r] = "mark" => copies[event(r)] > 0

(* A relay has rows of the table in its hands; what it does with one       *)
(* depends on the event alone, so that no two relays disagree on it.       *)
Hands ==
  /\ \A r \in Relays : \A b \in batch[r] : b[1] \in stored
  /\ \A r \in Relays : pc[r] \in Busy => event(r) \in stored
  /\ \A r \in Relays : pc[r] = "mark" => event(r) \notin Oversized
  /\ \A r \in Relays : pc[r] = "quarantine" => event(r) \in Oversized
  /\ published \cap Oversized = {} /\ quarantined \subseteq Oversized

OutInv == Types /\ Bus /\ Hands /\ TerminalUnlocked

(* The invariant of the outbox holds at the start.                         *)
LEMMA OutInit == Init => OutInv
<1> SUFFICES ASSUME Init PROVE OutInv
  OBVIOUS
<1>1. Types
  BY DEF Init, Types
<1>2. Bus /\ Hands /\ TerminalUnlocked
  BY DEF Init, Bus, Hands, TerminalUnlocked, Busy
<1> QED
  BY <1>1, <1>2 DEF OutInv

(* A capped number is a number.                                            *)
LEMMA CapType == ASSUME NEW n \in Nat, NEW m \in Nat PROVE AtMost(n, m) \in Nat
  BY DEF AtMost

(* What the steps of a relay leave of the other relays and of its hands.   *)
LEMMA AbortKeeps ==
  ASSUME Types, NEW r \in Relays, Abort(r)
  PROVE  /\ pc' \in [Relays -> Busy \cup {"idle", "next"}] /\ pc'[r] = "idle"
         /\ batch' \in [Relays -> SUBSET (Events \X Nat)] /\ batch'[r] = {}
         /\ cur' \in [Relays -> (Events \X Nat) \cup {Idle}]
         /\ \A q \in Relays : q # r => pc'[q] = pc[q] /\ batch'[q] = batch[q] /\ cur'[q] = cur[q]
  BY DEF Types, Abort, Busy

(* A relay that proceeds keeps its batch and disturbs no other relay.      *)
LEMMA ProceedKeeps ==
  ASSUME Types, NEW r \in Relays, Proceed(r)
  PROVE  /\ pc' \in [Relays -> Busy \cup {"idle", "next"}] /\ pc'[r] \in {"idle", "next"}
         /\ batch' \in [Relays -> SUBSET (Events \X Nat)] /\ batch'[r] = batch[r]
         /\ cur' \in [Relays -> (Events \X Nat) \cup {Idle}]
         /\ \A q \in Relays : q # r => pc'[q] = pc[q] /\ batch'[q] = batch[q] /\ cur'[q] = cur[q]
<1>1. CASE batch[r] = {}
  BY <1>1, AbortKeeps DEF Proceed
<1>2. CASE batch[r] # {}
  BY <1>2 DEF Types, Proceed, Busy
<1> QED
  BY <1>1, <1>2

(* A message the stream takes is counted, and no other count changes.      *)
LEMMA AcceptedKeeps ==
  ASSUME Types, Bus, NEW e \in Events, Accepted(e)
  PROVE  /\ copies' \in [Events -> Nat] /\ window' \in [Events -> Nat]
         /\ copies'[e] > 0 /\ \A x \in Events : copies[x] > 0 => copies'[x] > 0
         /\ \A x \in Events : window'[x] > 0 => copies'[x] > 0
         /\ \A x \in Events : x # e => copies'[x] = copies[x]
<1>1. CASE window[e] > 0
  BY <1>1 DEF Types, Bus, Accepted, busVars
<1>2. CASE ~(window[e] > 0)
  BY <1>2, TimeAssumption DEF Types, Bus, Accepted, AtMost
<1> QED
  BY <1>1, <1>2

(* A completion of the row in the hand of a relay that holds it.           *)
LEMMA CompletedKeeps ==
  ASSUME OutInv, NEW r \in Relays, Holds(r), Completed(r), UNCHANGED busVars
  PROVE  /\ stored' = stored /\ published' \subseteq stored /\ quarantined' \subseteq stored
         /\ lock' \in [Events -> Owners \cup {NoOwner}]
         /\ failures' \in [Events -> Nat]
         /\ \A e \in published' : copies[e] > 0
         /\ published' \cap Oversized = {} /\ quarantined' \subseteq Oversized
         /\ TerminalUnlocked'
<1> DEFINE e == event(r)
<1>1. e \in stored /\ e \in Events /\ e \notin published \cup quarantined
  BY DEF Holds, OutInv, Types
<1>2. /\ lock' = [lock EXCEPT ![e] = NoOwner]
      /\ stored' = stored
      /\ failures' \in [Events -> Nat]
  BY <1>1, TimeAssumption, CapType DEF Completed, MarkedPublished, Released, Quarantined, Unlock,
     OutInv, Types, AtMost
<1>3. CASE pc[r] = "mark"
  BY <1>1, <1>2, <1>3 DEF Completed, MarkedPublished, OutInv, Types, Bus, Hands, TerminalUnlocked
<1>4. CASE pc[r] = "release"
  BY <1>1, <1>2, <1>4 DEF Completed, Released, OutInv, Types, Bus, Hands, TerminalUnlocked
<1>5. CASE pc[r] = "quarantine"
  BY <1>1, <1>2, <1>5 DEF Completed, Quarantined, OutInv, Types, Bus, Hands, TerminalUnlocked
<1> QED
  BY <1>3, <1>4, <1>5 DEF Completed

(* Steps that leave the relays' hands and the bus alone.                   *)
LEMMA RowsOnly ==
  ASSUME OutInv, NEW e \in Events, Enqueue(e) \/ Redrive(e)
  PROVE  OutInv'
<1> USE DEF OutInv
<1>1. Types' /\ TerminalUnlocked'
  BY DEF Types, TerminalUnlocked, Enqueue, Redrive, relayVars, busVars
<1>2. UNCHANGED <<relayVars, busVars, published>> /\ stored \subseteq stored' /\ quarantined' \subseteq quarantined
  BY DEF Enqueue, Redrive
<1>3. Bus' /\ Hands'
  BY <1>2 DEF Bus, Hands, event, relayVars, busVars
<1> QED
  BY <1>1, <1>3

(* A claim keeps the invariant.                                            *)
LEMMA ClaimKeeps ==
  ASSUME OutInv, NEW r \in Relays, ClaimBatch(r) \/ ClaimFails(r)
  PROVE  OutInv'
<1>1. PICK S \in SUBSET Events :
        /\ Claims(r, S)
        /\ \/ /\ batch' = [batch EXCEPT ![r] = {<<e, failures[e]>> : e \in S}]
              /\ pc' = [pc EXCEPT ![r] = "next"] /\ cur' = cur
           \/ UNCHANGED relayVars
  BY DEF ClaimBatch, ClaimFails
<1>2. /\ UNCHANGED <<stored, published, quarantined, failures, busVars>> /\ cur' = cur
      /\ S \subseteq stored /\ S \cap (published \cup quarantined) = {}
  BY <1>1 DEF Claims, Claimable, relayVars
<1>3. lock' \in [Events -> Owners \cup {NoOwner}] /\ TerminalUnlocked'
  BY <1>1, <1>2, OwnerAssumption DEF Claims, OutInv, Types, TerminalUnlocked
<1>4. /\ pc' \in [Relays -> Busy \cup {"idle", "next"}]
      /\ batch' \in [Relays -> SUBSET (Events \X Nat)]
      /\ \A q \in Relays : pc'[q] = pc[q] \/ pc'[q] = "next"
      /\ \A q \in Relays : \A b \in batch'[q] : b[1] \in stored
  <2>1. CASE UNCHANGED relayVars
    BY <2>1 DEF OutInv, Types, Hands, relayVars
  <2>2. CASE ~UNCHANGED relayVars
    <3>1. {<<e, failures[e]>> : e \in S} \in SUBSET (Events \X Nat)
      BY <1>2 DEF OutInv, Types
    <3>2. \A b \in {<<e, failures[e]>> : e \in S} : b[1] \in stored
      BY <1>2
    <3> QED
      BY <1>1, <2>2, <3>1, <3>2 DEF OutInv, Types, Hands
  <2> QED
    BY <2>1, <2>2
<1>5. Types'
  BY <1>2, <1>3, <1>4 DEF OutInv, Types, busVars
<1>6. Bus' /\ Hands'
  BY <1>2, <1>4 DEF OutInv, Bus, Hands, event, busVars, Busy
<1> QED
  BY <1>3, <1>5, <1>6 DEF OutInv

(* Taking the next event of a batch keeps the invariant.                   *)
LEMMA NextEventKeeps ==
  ASSUME OutInv, NEW r \in Relays, NextEvent(r)
  PROVE  OutInv'
<1>1. PICK b \in batch[r] :
        cur' = [cur EXCEPT ![r] = b] /\ batch' = [batch EXCEPT ![r] = @ \ {b}]
  BY Zenon DEF NextEvent
<1>2. b \in Events \X Nat /\ b[1] \in stored
  BY <1>1 DEF OutInv, Types, Hands
<1>3. pc' = [pc EXCEPT ![r] = "publish"] /\ UNCHANGED <<rowVars, busVars>>
  BY DEF NextEvent
<1>4. Types'
  BY <1>1, <1>2, <1>3 DEF OutInv, Types, Busy, rowVars, busVars
<1>5. \A q \in Relays : q # r => pc'[q] = pc[q] /\ cur'[q] = cur[q]
  BY <1>1, <1>3 DEF OutInv, Types
<1>6. pc'[r] = "publish" /\ cur'[r] = b
  BY <1>1, <1>3 DEF OutInv, Types
<1>7. Bus'
  BY <1>3, <1>5, <1>6 DEF OutInv, Bus, event, rowVars, busVars
<1>8. \A q \in Relays : batch'[q] \subseteq batch[q]
  BY <1>1 DEF OutInv, Types
<1>9. Hands'
  BY <1>2, <1>3, <1>5, <1>6, <1>8 DEF OutInv, Hands, event, rowVars, Busy
<1>10. TerminalUnlocked'
  BY <1>3 DEF OutInv, TerminalUnlocked, rowVars
<1> QED
  BY <1>4, <1>7, <1>9, <1>10 DEF OutInv

(* A publication keeps the invariant, whatever its outcome.                *)
LEMMA PublishKeeps ==
  ASSUME OutInv, NEW r \in Relays, Publish(r)
  PROVE  OutInv'
<1>1. /\ UNCHANGED rowVars /\ batch' = batch /\ cur' = cur
      /\ pc[r] = "publish" /\ event(r) \in stored /\ event(r) \in Events
  BY DEF OutInv, Types, Hands, Publish, Goto, Busy
<1>2. PICK l \in {"quarantine", "mark", "release"} :
        /\ pc' = [pc EXCEPT ![r] = l]
        /\ Accepted(event(r)) \/ (UNCHANGED busVars /\ l # "mark")
        /\ l = "mark" => event(r) \notin Oversized
        /\ l = "quarantine" => event(r) \in Oversized
  BY DEF Publish, Goto
<1>3. /\ copies' \in [Events -> Nat] /\ window' \in [Events -> Nat]
      /\ l = "mark" => copies'[event(r)] > 0
      /\ \A x \in Events : copies[x] > 0 => copies'[x] > 0
      /\ \A x \in Events : window'[x] > 0 => copies'[x] > 0
  <2>1. CASE Accepted(event(r))
    BY <1>1, <2>1, AcceptedKeeps DEF OutInv
  <2>2. CASE UNCHANGED busVars /\ l # "mark"
    BY <2>2 DEF OutInv, Types, Bus, busVars
  <2> QED
    BY <1>2, <2>1, <2>2
<1>4. pc' \in [Relays -> Busy \cup {"idle", "next"}] /\ pc'[r] = l /\ \A q \in Relays : q # r => pc'[q] = pc[q]
  BY <1>2 DEF OutInv, Types, Busy
<1>5. Types'
  BY <1>1, <1>3, <1>4 DEF OutInv, Types, rowVars
<1>6. \A q \in Relays : pc'[q] = "mark" => event(q)' \in Events /\ copies'[event(q)'] > 0
  <2> SUFFICES ASSUME NEW q \in Relays, pc'[q] = "mark"
               PROVE  event(q)' \in Events /\ copies'[event(q)'] > 0
    OBVIOUS
  <2>1. event(q)' = event(q)
    BY <1>1 DEF event
  <2>2. CASE q = r
    BY <1>1, <1>3, <1>4, <2>1, <2>2
  <2>3. CASE q # r
    BY <1>3, <1>4, <2>1, <2>3 DEF OutInv, Types, Bus, Hands, Busy
  <2> QED
    BY <2>2, <2>3
<1>7. Bus'
  BY <1>1, <1>3, <1>6 DEF OutInv, Types, Bus, rowVars
<1>8. Hands'
  BY <1>1, <1>2, <1>4 DEF OutInv, Hands, event, rowVars, Busy
<1>9. TerminalUnlocked'
  BY <1>1 DEF OutInv, TerminalUnlocked, rowVars
<1> QED
  BY <1>5, <1>7, <1>8, <1>9 DEF OutInv

(* A relay that lets go of its row, whatever became of the row.            *)
LEMMA LetGo ==
  ASSUME OutInv, NEW r \in Relays, Abort(r) \/ Proceed(r), UNCHANGED busVars,
         stored' = stored, published' \subseteq stored, quarantined' \subseteq stored,
         lock' \in [Events -> Owners \cup {NoOwner}], failures' \in [Events -> Nat],
         \A e \in published' : copies[e] > 0,
         published' \cap Oversized = {}, quarantined' \subseteq Oversized,
         TerminalUnlocked'
  PROVE  OutInv'
<1>1. /\ pc' \in [Relays -> Busy \cup {"idle", "next"}] /\ pc'[r] \in {"idle", "next"}
      /\ batch' \in [Relays -> SUBSET (Events \X Nat)] /\ batch'[r] \subseteq batch[r]
      /\ cur' \in [Relays -> (Events \X Nat) \cup {Idle}]
      /\ \A q \in Relays : q # r => pc'[q] = pc[q] /\ batch'[q] = batch[q] /\ cur'[q] = cur[q]
  BY AbortKeeps, ProceedKeeps DEF OutInv
<1>2. Types'
  BY <1>1 DEF OutInv, Types, busVars
<1>3. Bus'
  BY <1>1 DEF OutInv, Bus, event, busVars
<1>4. Hands'
  BY <1>1 DEF OutInv, Hands, event, Busy
<1> QED
  BY <1>2, <1>3, <1>4 DEF OutInv

(* The statement after a publication keeps the invariant, whether it       *)
(* succeeds, finds its claim lost or fails, and so does a crash.           *)
LEMMA CompletionKeeps ==
  ASSUME OutInv, NEW r \in Relays,
         Complete(r) \/ ClaimLost(r) \/ CompleteFails(r) \/ Crash(r)
  PROVE  OutInv'
<1>1. /\ (Holds(r) /\ Completed(r)) \/ UNCHANGED rowVars
      /\ Abort(r) \/ Proceed(r)
      /\ UNCHANGED busVars
  BY DEF Complete, ClaimLost, CompleteFails, Crash
<1>2. CASE Holds(r) /\ Completed(r)
  BY <1>1, <1>2, CompletedKeeps, LetGo
<1>3. CASE UNCHANGED rowVars
  <2>1. TerminalUnlocked'
    BY <1>3 DEF OutInv, TerminalUnlocked, rowVars
  <2> QED
    BY <1>1, <1>3, <2>1, LetGo DEF OutInv, Types, Bus, Hands, rowVars
<1> QED
  BY <1>1, <1>2, <1>3

(* The passing of time keeps the invariant.                                *)
LEMMA TickKeeps ==
  ASSUME OutInv, Tick
  PROVE  OutInv'
<1>1. window' \in [Events -> Nat] /\ \A e \in Events : window'[e] > 0 => window[e] > 0
  BY DEF Tick, Less, OutInv, Types
<1> QED
  BY <1>1 DEF Tick, OutInv, Types, Bus, Hands, TerminalUnlocked, event

(* The types hold; a row that is published or quarantined is not locked; a *)
(* relay about to record a publication has made it (relay.go:              *)
(* MarkPublished only after Publish returned nil).                         *)
THEOREM OutboxInvariant == Spec => []OutInv
<1>1. ASSUME OutInv, [Next]_vars PROVE OutInv'
  <2>1. CASE UNCHANGED vars
    BY <1>1, <2>1 DEF vars, rowVars, relayVars, busVars, OutInv, Types, Bus, Hands,
       TerminalUnlocked, event
  <2>2. ASSUME NEW e \in Events, Enqueue(e) \/ Redrive(e) PROVE OutInv'
    BY <1>1, <2>2, RowsOnly
  <2>3. ASSUME NEW r \in Relays, ClaimBatch(r) \/ ClaimFails(r) PROVE OutInv'
    BY <1>1, <2>3, ClaimKeeps
  <2>4. ASSUME NEW r \in Relays, NextEvent(r) PROVE OutInv'
    BY <1>1, <2>4, NextEventKeeps
  <2>5. ASSUME NEW r \in Relays, Publish(r) PROVE OutInv'
    BY <1>1, <2>5, PublishKeeps
  <2>6. ASSUME NEW r \in Relays, Complete(r) \/ ClaimLost(r) \/ CompleteFails(r) \/ Crash(r) PROVE OutInv'
    BY <1>1, <2>6, CompletionKeeps
  <2>7. CASE Tick
    BY <1>1, <2>7, TickKeeps
  <2> QED
    BY <1>1, <2>1, <2>2, <2>3, <2>4, <2>5, <2>6, <2>7 DEF Next, Run
<1> QED
  BY <1>1, OutInit, PTL DEF Spec

(* The three UPDATEs of repository.go that settle a row leave it unlocked, *)
(* and no row is both published and quarantined.                           *)
THEOREM TerminalRowsUnlocked == Spec => []TerminalUnlocked
<1>1. OutInv => TerminalUnlocked
  BY DEF OutInv
<1> QED
  BY <1>1, OutboxInvariant, PTL

-----------------------------------------------------------------------------
(* A publication is a Send of the abstract specification, or a stutter; a  *)
(* completion that marks the row is its Finish.                            *)
Sent == {e \in Events : copies[e] > 0}

(* A publication is a Send of the abstract specification, or changes       *)
(* nothing it sees.                                                        *)
LEMMA PublishSends ==
  ASSUME OutInv, NEW r \in Relays, Publish(r)
  PROVE  UNCHANGED <<stored, published>> /\ (Sent' = Sent \/ (event(r) \in stored /\ Sent' = Sent \cup {event(r)}))
<1>1. /\ UNCHANGED rowVars /\ event(r) \in stored /\ event(r) \in Events
      /\ Accepted(event(r)) \/ UNCHANGED busVars
  BY DEF OutInv, Types, Hands, Publish, Busy
<1>2. CASE UNCHANGED busVars
  BY <1>1, <1>2 DEF Sent, busVars, rowVars
<1>3. CASE Accepted(event(r))
  <2>1. /\ copies'[event(r)] > 0
        /\ \A x \in Events : x # event(r) => copies'[x] = copies[x]
    BY <1>1, <1>3, AcceptedKeeps DEF OutInv
  <2> QED
    BY <1>1, <2>1 DEF Sent, rowVars
<1> QED
  BY <1>1, <1>2, <1>3

(* A completed publication is a Finish of the abstract specification, or   *)
(* changes nothing it sees.                                                *)
LEMMA CompletionFinishes ==
  ASSUME OutInv, NEW r \in Relays,
         Complete(r) \/ ClaimLost(r) \/ CompleteFails(r) \/ Crash(r)
  PROVE  /\ UNCHANGED stored /\ Sent' = Sent
         /\ published' = published \/ (event(r) \in Sent \ published /\ published' = published \cup {event(r)})
<1>1. /\ (Holds(r) /\ Completed(r)) \/ UNCHANGED rowVars
      /\ UNCHANGED busVars
  BY DEF Complete, ClaimLost, CompleteFails, Crash
<1>2. Sent' = Sent
  BY <1>1 DEF Sent, busVars
<1>3. CASE UNCHANGED rowVars
  BY <1>2, <1>3 DEF rowVars
<1>4. CASE Holds(r) /\ Completed(r)
  <2>1. stored' = stored /\ event(r) \in Events /\ event(r) \notin published
    BY <1>4 DEF Holds, Completed, MarkedPublished, Released, Quarantined, OutInv, Types
  <2>2. CASE pc[r] = "mark"
    BY <1>2, <1>4, <2>1, <2>2, Zenon DEF Completed, MarkedPublished, Sent, OutInv, Bus
  <2>3. CASE pc[r] # "mark"
    BY <1>2, <1>4, <2>1, <2>3 DEF Completed, Released, Quarantined
  <2> QED
    BY <2>2, <2>3
<1> QED
  BY <1>1, <1>3, <1>4

(* The outbox (ClaimBatch, Publish, MarkPublished, Release and Quarantine, *)
(* with crashes, lost claims and failed statements) implements             *)
(* EventDelivery: nothing is recorded as published before the stream has   *)
(* it.                                                                     *)
THEOREM DeliversAtLeastOnce == Spec => AtLeastOnce
<1> USE DEF Delivery!deliveryVars
<1>1. Init => Delivery!DeliveryInit
  BY DEF Init, Delivery!DeliveryInit
<1>2. ASSUME OutInv, [Next]_vars
      PROVE  [Delivery!DeliveryNext]_(Delivery!deliveryVars)
  <2> USE <1>2
  <2>1. CASE UNCHANGED vars
    BY <2>1 DEF vars, rowVars, busVars
  <2>2. ASSUME NEW e \in Events, Enqueue(e) \/ Redrive(e)
        PROVE  [Delivery!DeliveryNext]_(Delivery!deliveryVars)
    <3>1. CASE Enqueue(e)
      BY <3>1 DEF Enqueue, busVars, Delivery!DeliveryNext, Delivery!Store
    <3>2. CASE Redrive(e)
      BY <3>2 DEF Redrive, busVars
    <3> QED
      BY <2>2, <3>1, <3>2
  <2>3. ASSUME NEW r \in Relays, ClaimBatch(r) \/ ClaimFails(r) \/ NextEvent(r)
        PROVE  [Delivery!DeliveryNext]_(Delivery!deliveryVars)
    BY <2>3, Zenon DEF ClaimBatch, ClaimFails, Claims, NextEvent, rowVars, busVars
  <2>4. ASSUME NEW r \in Relays, Publish(r)
        PROVE  [Delivery!DeliveryNext]_(Delivery!deliveryVars)
    <3>1. event(r) \in Events
      BY <2>4 DEF OutInv, Types, Hands, Publish, Busy
    <3> QED
      BY <2>4, <3>1, PublishSends DEF Sent, Delivery!DeliveryNext, Delivery!Send
  <2>5. ASSUME NEW r \in Relays, Complete(r) \/ ClaimLost(r) \/ CompleteFails(r) \/ Crash(r)
        PROVE  [Delivery!DeliveryNext]_(Delivery!deliveryVars)
    BY <2>5, CompletionFinishes, Zenon DEF Sent, Delivery!DeliveryNext, Delivery!Finish
  <2>6. CASE Tick
    BY <2>6 DEF Tick
  <2> QED
    BY <2>1, <2>2, <2>3, <2>4, <2>5, <2>6 DEF Next, Run
<1> QED
  BY <1>1, <1>2, OutboxInvariant, PTL DEF Spec, AtLeastOnce, Delivery!DeliverySpec

-----------------------------------------------------------------------------
(* Claims.  The relays claim under names of their own: two relays of one   *)
(* name could complete each other's rows and so free a row that a third    *)
(* one has in hand.                                                        *)
DistinctOwners == \A q, r \in Relays : owner[q] = owner[r] => q = r

(* A relay has a row in its hands once, and nothing between its batches.   *)
HandInv ==
  /\ spent \in [Relays -> Nat] /\ age \in [Events -> Nat]
  /\ \A r \in Relays :
       /\ pc[r] = "idle" => batch[r] = {} /\ cur[r] = Idle
       /\ \A b, c \in batch[r] : b[1] = c[1] => b = c
       /\ \A b \in batch[r] : b[1] # event(r)

(* A claim of this age is stale by no clock.                               *)
Fresh(ticks) == ticks + MaxSkew <= LockAge

(* Until its claim may be stale a relay has the lock of every row in its   *)
(* hands, and the lock is as old as its batch.                             *)
ClaimInv ==
  \A r \in Relays : \A e \in InHand(r) :
    Fresh(spent[r]) => lock[e] = owner[r] /\ age[e] = spent[r]

ExclusiveInv == HandInv /\ ClaimInv

(* What a relay has in its hands are events.                               *)
LEMMA HandsFull ==
  ASSUME Types, NEW r \in Relays
  PROVE  InHand(r) \subseteq Events
  BY DEF Types, InHand, event, Idle

(* Who lets go of a row, or does nothing with it, has no more in hand.     *)
LEMMA LetGoHands ==
  ASSUME OutInv, ExclusiveInv, NEW r \in Relays, Abort(r) \/ Proceed(r)
  PROVE  /\ spent' \in [Relays -> Nat]
         /\ \A q \in Relays :
              /\ pc'[q] = "idle" => batch'[q] = {} /\ cur'[q] = Idle
              /\ \A b, c \in batch'[q] : b[1] = c[1] => b = c
              /\ \A b \in batch'[q] : b[1] # event(q)'
         /\ \A q \in Relays \ {r} : InHand(q)' = InHand(q) /\ spent'[q] = spent[q]
         /\ InHand(r)' \subseteq InHand(r) \ {event(r)}
         /\ InHand(r)' # {} => spent'[r] = spent[r]
<1> USE DEF OutInv, Types, ExclusiveInv, HandInv
<1>1. \A q \in Relays \ {r} : pc'[q] = pc[q] /\ batch'[q] = batch[q] /\ cur'[q] = cur[q] /\ spent'[q] = spent[q]
  BY DEF Abort, Proceed
<1>2. /\ cur'[r] = Idle /\ spent' \in [Relays -> Nat]
      /\ \/ pc'[r] = "idle" /\ batch'[r] = {}
         \/ pc'[r] = "next" /\ batch'[r] = batch[r] /\ spent'[r] = spent[r]
  BY DEF Abort, Proceed, Idle
<1>3. event(r)' = NoEvent
  BY <1>2 DEF event, Idle
<1>4. \A b \in batch[r] : b[1] \in Events
  OBVIOUS
<1>5. \A q \in Relays \ {r} : event(q)' = event(q)
  BY <1>1 DEF event
<1>6. \A b \in batch'[r] : b \in batch[r] /\ b[1] # NoEvent
  BY <1>2, <1>4, EventAssumption, Zenon
<1>7. /\ InHand(r)' = {b[1] : b \in batch'[r]}
      /\ InHand(r) = {b[1] : b \in batch[r]} \cup ({event(r)} \ {NoEvent})
  BY <1>3, Zenon DEF InHand
<1>8. /\ InHand(r)' \subseteq InHand(r) \ {event(r)}
      /\ InHand(r)' # {} => spent'[r] = spent[r]
  BY <1>2, <1>6, <1>7
<1>9. \A q \in Relays \ {r} : InHand(q)' = InHand(q)
  BY <1>1, <1>5 DEF InHand
<1>10. ASSUME NEW q \in Relays
       PROVE  /\ pc'[q] = "idle" => batch'[q] = {} /\ cur'[q] = Idle
              /\ \A b, c \in batch'[q] : b[1] = c[1] => b = c
              /\ \A b \in batch'[q] : b[1] # event(q)'
  <2>1. CASE q = r
    BY <1>2, <1>3, <1>6, <2>1, Zenon
  <2>2. CASE q # r
    BY <1>1, <1>5, <2>2
  <2> QED
    BY <2>1, <2>2, Zenon
<1> QED
  BY <1>1, <1>2, <1>8, <1>9, <1>10

(* A completion frees the row in hand, which no other relay can rely on.   *)
LEMMA CompletionExclusive ==
  ASSUME DistinctOwners, OutInv, ExclusiveInv, NEW r \in Relays,
         Complete(r) \/ ClaimLost(r) \/ CompleteFails(r) \/ Crash(r)
  PROVE  ExclusiveInv'
<1>1. Abort(r) \/ Proceed(r)
  BY Zenon DEF Complete, ClaimLost, CompleteFails, Crash
<1>2. \/ UNCHANGED <<lock, age>>
      \/ /\ lock[event(r)] = owner[r] /\ event(r) \in Events
         /\ lock' = [lock EXCEPT ![event(r)] = NoOwner] /\ age' = [age EXCEPT ![event(r)] = 0]
  BY Zenon DEF Complete, ClaimLost, CompleteFails, Crash, Holds, Completed, MarkedPublished,
     Released, Quarantined, Unlock, rowVars, OutInv, Types
<1>3. age' \in [Events -> Nat]
  BY <1>2 DEF ExclusiveInv, HandInv
<1>4. HandInv'
  BY <1>1, <1>3, LetGoHands, Zenon DEF HandInv
<1>5. ASSUME NEW q \in Relays, NEW e \in InHand(q)', Fresh(spent'[q])
      PROVE  lock'[e] = owner[q] /\ age'[e] = spent'[q]
  <2>1. /\ e \in InHand(q) /\ spent'[q] = spent[q]
        /\ q = r => e # event(r)
    BY <1>1, <1>5, LetGoHands, Zenon
  <2>2. e \in Events /\ lock[e] = owner[q] /\ age[e] = spent[q]
    BY <1>5, <2>1, HandsFull, Zenon DEF OutInv, ExclusiveInv, ClaimInv
  <2>3. lock[event(r)] = owner[r] => e # event(r)
    BY <2>1, <2>2 DEF DistinctOwners
  <2> QED
    BY <1>2, <2>1, <2>2, <2>3, Zenon DEF OutInv, Types, ExclusiveInv, HandInv
<1> QED
  BY <1>4, <1>5, Zenon DEF ExclusiveInv, ClaimInv

(* A claim takes no row from a relay whose own claim is fresh.             *)
LEMMA ClaimExclusive ==
  ASSUME OutInv, ExclusiveInv, NEW r \in Relays, ClaimBatch(r) \/ ClaimFails(r)
  PROVE  ExclusiveInv'
<1>1. PICK S \in SUBSET Events :
        /\ Claims(r, S)
        /\ \/ /\ pc[r] = "idle"
              /\ batch' = [batch EXCEPT ![r] = {<<e, failures[e]>> : e \in S}]
              /\ pc' = [pc EXCEPT ![r] = "next"] /\ cur' = cur
              /\ spent' = [spent EXCEPT ![r] = 0]
           \/ UNCHANGED relayVars
  BY Zenon DEF ClaimBatch, ClaimFails
<1>2. /\ lock' = [e \in Events |-> IF e \in S THEN owner[r] ELSE lock[e]]
      /\ age' = [e \in Events |-> IF e \in S THEN 0 ELSE age[e]]
      /\ S \subseteq Events /\ cur' = cur
      /\ \A e \in S : lock[e] = NoOwner \/ ~Fresh(age[e])
  <2>1. PICK skew \in Skews : S \subseteq Claimable(skew)
    BY <1>1, Zenon DEF Claims
  <2>2. ASSUME NEW a \in Nat, a + skew > LockAge PROVE ~Fresh(a)
    BY <2>1, <2>2, TimeAssumption DEF Skews, Fresh
  <2>3. \A e \in S : lock[e] = NoOwner \/ ~Fresh(age[e])
    BY <2>1, <2>2, Zenon DEF Claimable, Stale, ExclusiveInv, HandInv
  <2> QED
    BY <1>1, <2>3, Zenon DEF Claims, relayVars
<1>3. age' \in [Events -> Nat] /\ spent' \in [Relays -> Nat]
  BY <1>1, <1>2 DEF ExclusiveInv, HandInv, relayVars
<1>4. \A q \in Relays : event(q)' = event(q)
  BY <1>2 DEF event
<1>5. ASSUME NEW q \in Relays, batch'[q] = batch[q], pc'[q] = pc[q], spent'[q] = spent[q]
      PROVE  /\ pc'[q] = "idle" => batch'[q] = {} /\ cur'[q] = Idle
             /\ \A b, c \in batch'[q] : b[1] = c[1] => b = c
             /\ \A b \in batch'[q] : b[1] # event(q)'
             /\ \A e \in InHand(q)' :
                  Fresh(spent'[q]) => lock'[e] = owner[q] /\ age'[e] = spent'[q]
  <2>1. InHand(q)' = InHand(q)
    BY <1>4, <1>5 DEF InHand
  <2>2. ASSUME NEW e \in InHand(q), Fresh(spent[q])
        PROVE  e \in Events /\ lock[e] = owner[q] /\ age[e] = spent[q] /\ e \notin S
    <3>1. e \in Events /\ lock[e] = owner[q] /\ age[e] = spent[q]
      BY <2>2, HandsFull, Zenon DEF OutInv, ExclusiveInv, ClaimInv
    <3>2. owner[q] # NoOwner
      BY OwnerAssumption
    <3> QED
      BY <1>2, <2>2, <3>1, <3>2, Zenon
  <2> QED
    BY <1>2, <1>4, <1>5, <2>1, <2>2, Zenon DEF ExclusiveInv, HandInv
<1>6. CASE UNCHANGED relayVars
  BY <1>3, <1>5, <1>6, Zenon DEF ExclusiveInv, HandInv, ClaimInv, relayVars
<1>7. CASE ~UNCHANGED relayVars
  <2>1. /\ pc[r] = "idle" /\ cur[r] = Idle /\ pc'[r] = "next" /\ spent'[r] = 0
        /\ batch'[r] = {<<e, failures[e]>> : e \in S}
        /\ \A q \in Relays \ {r} : batch'[q] = batch[q] /\ pc'[q] = pc[q] /\ spent'[q] = spent[q]
    BY <1>1, <1>7, Zenon DEF OutInv, Types, ExclusiveInv, HandInv
  <2>2. event(r)' = NoEvent
    BY <1>4, <2>1 DEF event, Idle
  <2>3. InHand(r)' = S
    <3>1. InHand(r)' = {b[1] : b \in batch'[r]}
      BY <2>2 DEF InHand
    <3>2. \A e \in S : <<e, failures[e]>> \in batch'[r] /\ <<e, failures[e]>>[1] = e
      BY <2>1
    <3>3. \A b \in batch'[r] : b[1] \in S
      BY <2>1
    <3> QED
      BY <3>1, <3>2, <3>3, Zenon
  <2>4. /\ pc'[r] # "idle"
        /\ \A b, c \in batch'[r] : b[1] = c[1] => b = c
        /\ \A b \in batch'[r] : b[1] # event(r)'
        /\ \A e \in InHand(r)' : lock'[e] = owner[r] /\ age'[e] = spent'[r]
    BY <1>2, <2>1, <2>2, <2>3, EventAssumption
  <2>5. \A q \in Relays : q = r \/ q \in Relays \ {r}
    BY Zenon
  <2>6. HandInv'
    BY <1>3, <1>5, <2>1, <2>4, <2>5, Zenon DEF HandInv
  <2>7. ClaimInv'
    BY <1>5, <2>1, <2>4, <2>5, Zenon DEF ClaimInv
  <2> QED
    BY <2>6, <2>7, Zenon DEF ExclusiveInv
<1> QED
  BY <1>6, <1>7, Zenon

(* Taking the next row of a batch changes nothing in a relay's hands.      *)
LEMMA NextEventExclusive ==
  ASSUME OutInv, ExclusiveInv, NEW r \in Relays, NextEvent(r)
  PROVE  ExclusiveInv'
<1> USE DEF OutInv, Types, ExclusiveInv, HandInv
<1>1. PICK b \in batch[r] :
        cur' = [cur EXCEPT ![r] = b] /\ batch' = [batch EXCEPT ![r] = @ \ {b}]
  BY Zenon DEF NextEvent
<1>2. pc' = [pc EXCEPT ![r] = "publish"] /\ UNCHANGED <<rowVars, spent>>
  BY DEF NextEvent
<1>3. /\ event(r)' = b[1] /\ b[1] \in Events /\ batch'[r] = batch[r] \ {b} /\ pc'[r] = "publish"
      /\ \A q \in Relays \ {r} : event(q)' = event(q) /\ batch'[q] = batch[q] /\ pc'[q] = pc[q] /\ cur'[q] = cur[q]
  BY <1>1, <1>2 DEF event
<1>4. \A q \in Relays : InHand(q)' \subseteq InHand(q)
  <2>1. InHand(r)' \subseteq InHand(r)
    BY <1>1, <1>3 DEF InHand
  <2>2. \A q \in Relays \ {r} : InHand(q)' \subseteq InHand(q)
    BY <1>3 DEF InHand
  <2> QED
    BY <2>1, <2>2, Zenon
<1>5. ClaimInv'
  BY <1>2, <1>4, Zenon DEF ClaimInv, rowVars
<1>6. HandInv'
  <2> SUFFICES ASSUME NEW q \in Relays
               PROVE  /\ pc'[q] = "idle" => batch'[q] = {} /\ cur'[q] = Idle
                      /\ \A c, d \in batch'[q] : c[1] = d[1] => c = d
                      /\ \A c \in batch'[q] : c[1] # event(q)'
    BY <1>2, Zenon DEF rowVars
  <2>1. CASE q = r
    <3>1. pc'[q] # "idle" /\ batch'[q] \subseteq batch[r] /\ b \notin batch'[q] /\ event(q)' = b[1]
      BY <1>3, <2>1
    <3>2. \A c, d \in batch[r] : c[1] = d[1] => c = d
      BY Zenon
    <3> QED
      BY <1>1, <3>1, <3>2, Zenon
  <2>2. CASE q # r
    BY <1>3, <2>2
  <2> QED
    BY <2>1, <2>2, Zenon
<1> QED
  BY <1>5, <1>6

(* Until it may be stale a lock ages with the batch.                       *)
LEMMA TickExclusive ==
  ASSUME OutInv, ExclusiveInv, Tick
  PROVE  ExclusiveInv'
<1> USE DEF OutInv, Types, ExclusiveInv, HandInv
<1>1. UNCHANGED <<lock, pc, batch, cur>> /\ \A r \in Relays : event(r)' = event(r)
  BY DEF Tick, event
<1>2. age' \in [Events -> Nat] /\ spent' \in [Relays -> Nat]
  <2>1. \A e \in Events : AtMost(age[e] + 1, StaleAge) \in Nat
    BY TimeAssumption DEF AtMost, StaleAge
  <2> QED
    BY <2>1 DEF Tick
<1>3. HandInv'
  BY <1>1, <1>2
<1>4. ASSUME NEW r \in Relays, NEW e \in InHand(r)', Fresh(spent'[r])
      PROVE  lock'[e] = owner[r] /\ age'[e] = spent'[r]
  <2>1. e \in InHand(r) /\ e \in Events
    BY <1>1, <1>4, HandsFull DEF InHand
  <2>2. pc[r] # "idle"
    BY <2>1 DEF InHand, event, Idle
  <2>3. spent'[r] = spent[r] + 1 /\ Fresh(spent[r])
    BY <1>4, <2>2, TimeAssumption DEF Tick, Fresh
  <2>4. lock[e] = owner[r] /\ age[e] = spent[r] /\ lock[e] # NoOwner
    BY <2>1, <2>3, OwnerAssumption DEF ClaimInv
  <2>5. age'[e] = AtMost(age[e] + 1, StaleAge)
    BY <2>1, <2>4, Zenon DEF Tick
  <2> QED
    BY <1>1, <1>4, <2>3, <2>4, <2>5, TimeAssumption DEF AtMost, Fresh, StaleAge
<1> QED
  BY <1>3, <1>4 DEF ClaimInv

(* Enqueueing, redriving and publishing leave locks and hands alone.       *)
LEMMA HandsUntouched ==
  ASSUME ExclusiveInv, UNCHANGED <<lock, age, batch, cur, spent>>,
         \A r \in Relays : pc'[r] = "idle" => pc[r] = "idle"
  PROVE  ExclusiveInv'
<1>1. \A r \in Relays : event(r)' = event(r) /\ InHand(r)' = InHand(r)
  BY DEF event, InHand
<1> QED
  BY <1>1, Zenon DEF ExclusiveInv, HandInv, ClaimInv

(* While relays claim under names of their own and their hosts' clocks are *)
(* off by at most MaxSkew, ClaimBatch gives a row to one relay at a time:  *)
(* two have it in hand only after one has spent more than lockAge less     *)
(* MaxSkew on its batch, for any number of relays, rows and faults.        *)
THEOREM ClaimsAreExclusive ==
  ASSUME DistinctOwners
  PROVE  Spec => []ClaimsExclusive
<1>1. Init => ExclusiveInv
  BY DEF Init, ExclusiveInv, HandInv, ClaimInv, InHand, event, Idle
<1>2. ASSUME OutInv, ExclusiveInv, [Next]_vars PROVE ExclusiveInv'
  <2>1. CASE UNCHANGED vars
    BY <1>2, <2>1, HandsUntouched DEF vars, rowVars, relayVars
  <2>2. ASSUME NEW e \in Events, Enqueue(e) \/ Redrive(e) PROVE ExclusiveInv'
    BY <1>2, <2>2, HandsUntouched DEF Enqueue, Redrive, relayVars
  <2>3. ASSUME NEW r \in Relays, ClaimBatch(r) \/ ClaimFails(r) PROVE ExclusiveInv'
    BY <1>2, <2>3, ClaimExclusive
  <2>4. ASSUME NEW r \in Relays, NextEvent(r) PROVE ExclusiveInv'
    BY <1>2, <2>4, NextEventExclusive
  <2>5. ASSUME NEW r \in Relays, Publish(r) PROVE ExclusiveInv'
    <3>1. UNCHANGED <<lock, age, batch, cur, spent>>
      BY <2>5 DEF Publish, Goto, rowVars
    <3>2. \A q \in Relays : pc'[q] = "idle" => pc[q] = "idle"
      BY <1>2, <2>5 DEF Publish, Goto, OutInv, Types
    <3> QED
      BY <1>2, <3>1, <3>2, HandsUntouched
  <2>6. ASSUME NEW r \in Relays, Complete(r) \/ ClaimLost(r) \/ CompleteFails(r) \/ Crash(r)
        PROVE  ExclusiveInv'
    BY <1>2, <2>6, CompletionExclusive
  <2>7. CASE Tick
    BY <1>2, <2>7, TickExclusive
  <2> QED
    BY <1>2, <2>1, <2>2, <2>3, <2>4, <2>5, <2>6, <2>7 DEF Next, Run
<1>3. ASSUME OutInv, ExclusiveInv PROVE ClaimsExclusive
  <2> SUFFICES ASSUME NEW q \in Relays, NEW r \in Relays, NEW e \in InHand(q) \cap InHand(r),
                      ~(spent[q] + MaxSkew > LockAge), ~(spent[r] + MaxSkew > LockAge)
               PROVE  q = r
    BY Zenon DEF ClaimsExclusive
  <2>1. Fresh(spent[q]) /\ Fresh(spent[r])
    BY <1>3, TimeAssumption DEF ExclusiveInv, HandInv, Fresh
  <2> QED
    BY <1>3, <2>1 DEF ExclusiveInv, ClaimInv, DistinctOwners
<1> QED
  BY <1>1, <1>2, <1>3, OutboxInvariant, PTL DEF Spec

-----------------------------------------------------------------------------
(* The delays of retryDelay.  Induction over the numbers, for a set.       *)
LEMMA Induction ==
  ASSUME NEW S, 0 \in S, \A n \in Nat : n \in S => n + 1 \in S
  PROVE  Nat \subseteq S
<1> SUFFICES ASSUME Nat \ S # {} PROVE FALSE
  OBVIOUS
<1>1. IsWellFoundedOn(OpToRel(<, Nat), Nat)
  BY NatLessThanWellFounded
<1>2. PICK n \in Nat \ S : \A y \in Nat \ S : <<y, n>> \notin OpToRel(<, Nat)
  <2>1. Nat \ S \subseteq Nat
    OBVIOUS
  <2> QED
    BY <1>1, <2>1, WFMin, Zenon
<1>3. n # 0 /\ n - 1 \in Nat /\ n - 1 < n /\ n = (n - 1) + 1
  OBVIOUS
<1>4. <<n - 1, n>> \in OpToRel(<, Nat)
  BY <1>3 DEF OpToRel
<1>5. n - 1 \in S
  BY <1>2, <1>3, <1>4, Zenon
<1> QED
  BY <1>3, <1>5

(* The shifts up to n bits.                                                *)
Shifts(g, n) ==
  /\ g \in [0..n -> Nat \ {0}] /\ g[0] = 1
  /\ \A k \in 1..n : g[k] = 2 * g[k - 1]

(* They exist.                                                             *)
LEMMA ShiftsExist == \A n \in Nat : \E g : Shifts(g, n)
<1> DEFINE S == {n \in Nat : \E g : Shifts(g, n)}
<1>1. 0 \in S
  <2>1. Shifts([k \in 0..0 |-> 1], 0)
    BY DEF Shifts
  <2> QED
    BY <2>1
<1>2. ASSUME NEW n \in Nat, n \in S PROVE n + 1 \in S
  <2>1. PICK g : Shifts(g, n)
    BY <1>2
  <2>2. g \in [0..n -> Nat \ {0}] /\ g[0] = 1 /\ \A k \in 1..n : g[k] = 2 * g[k - 1]
    BY <2>1 DEF Shifts
  <2>3. PICK h : h = [k \in 0..n + 1 |-> IF k = n + 1 THEN 2 * g[n] ELSE g[k]]
    BY Zenon
  <2>4. \A k \in 0..n : h[k] = g[k]
    BY <2>3
  <2>5. h[n + 1] = 2 * g[n] /\ g[n] \in Nat \ {0}
    BY <2>2, <2>3
  <2>6. h \in [0..n + 1 -> Nat \ {0}]
    BY <2>2, <2>3, <2>5
  <2>7. ASSUME NEW k \in 1..n + 1 PROVE h[k] = 2 * h[k - 1]
    <3>1. CASE k = n + 1
      BY <2>4, <2>5, <3>1
    <3>2. CASE k # n + 1
      BY <2>2, <2>4, <3>2
    <3> QED
      BY <3>1, <3>2
  <2>8. Shifts(h, n + 1)
    BY <2>2, <2>4, <2>6, <2>7 DEF Shifts
  <2> QED
    BY <2>8
<1> HIDE DEF S
<1>3. Nat \subseteq S
  BY <1>1, <1>2, Induction, Zenon
<1> QED
  BY <1>3 DEF S

(* The shifts up to n bits are those up to n + 1 bits.                     *)
LEMMA ShiftsAgree ==
  ASSUME NEW n \in Nat, NEW g, Shifts(g, n), NEW h, Shifts(h, n + 1)
  PROVE  \A k \in 0..n : g[k] = h[k]
<1> DEFINE S == {k \in Nat : k <= n => g[k] = h[k]}
<1>1. 0 \in S
  BY DEF Shifts
<1>2. ASSUME NEW k \in Nat, k \in S PROVE k + 1 \in S
  BY <1>2 DEF Shifts
<1> HIDE DEF S
<1>3. Nat \subseteq S
  BY <1>1, <1>2, Induction, Zenon
<1> QED
  BY <1>3 DEF S

(* ShiftOne is what its definition says, for every number of bits.         *)
LEMMA ShiftOneIs ==
  /\ ShiftOne[0] = 1
  /\ \A n \in Nat : ShiftOne[n] \in Nat \ {0} /\ ShiftOne[n + 1] = 2 * ShiftOne[n]
<1> DEFINE G(n) == CHOOSE g : Shifts(g, n)
           f == [n \in Nat |-> G(n)[n]]
<1>1. \A n \in Nat : Shifts(G(n), n)
  BY ShiftsExist
<1> HIDE DEF G
<1>2. f[0] = 1 /\ \A n \in Nat : f[n] \in Nat \ {0}
  BY <1>1 DEF Shifts
<1>3. ASSUME NEW n \in Nat PROVE f[n + 1] = 2 * f[n]
  <2>1. Shifts(G(n), n) /\ Shifts(G(n + 1), n + 1)
    BY <1>1
  <2>2. n \in 0..n /\ n + 1 \in 1..n + 1 /\ (n + 1) - 1 = n
    OBVIOUS
  <2>3. G(n)[n] = G(n + 1)[n]
    BY <2>1, <2>2, ShiftsAgree, Zenon
  <2>4. G(n + 1)[n + 1] = 2 * G(n + 1)[n]
    BY <2>1, <2>2 DEF Shifts
  <2> QED
    BY <2>3, <2>4
<1>4. f = [n \in Nat |-> IF n = 0 THEN 1 ELSE 2 * f[n - 1]]
  <2>1. \A n \in Nat : f[n] = IF n = 0 THEN 1 ELSE 2 * f[n - 1]
    <3> HIDE DEF f
    <3> SUFFICES ASSUME NEW n \in Nat, n # 0 PROVE f[n] = 2 * f[n - 1]
      BY <1>2
    <3>1. n - 1 \in Nat /\ (n - 1) + 1 = n
      OBVIOUS
    <3> QED
      BY <1>3, <3>1
  <2>2. DOMAIN f = Nat
    OBVIOUS
  <2> QED
    BY <2>1
<1> HIDE DEF f
<1>5. ShiftOne = [n \in Nat |-> IF n = 0 THEN 1 ELSE 2 * ShiftOne[n - 1]]
  BY <1>4, Zenon DEF ShiftOne
<1>6. ShiftOne[0] = 1 /\ \A n \in Nat : ShiftOne[n + 1] = 2 * ShiftOne[n]
  <2> SUFFICES ASSUME NEW n \in Nat PROVE ShiftOne[0] = 1 /\ ShiftOne[n + 1] = 2 * ShiftOne[n]
    OBVIOUS
  <2>1. n + 1 \in Nat /\ n + 1 # 0 /\ (n + 1) - 1 = n /\ 0 \in Nat
    OBVIOUS
  <2> QED
    BY <1>5, <2>1
<1> DEFINE S == {n \in Nat : ShiftOne[n] \in Nat \ {0}}
<1>7. 0 \in S
  BY <1>6
<1>8. ASSUME NEW n \in Nat, n \in S PROVE n + 1 \in S
  BY <1>6, <1>8
<1> HIDE DEF S
<1>9. Nat \subseteq S
  BY <1>7, <1>8, Induction, Zenon
<1> QED
  BY <1>6, <1>9 DEF S

(* More bits, a longer delay.                                              *)
LEMMA ShiftOneGrows == \A n \in Nat : \A k \in 0..n : ShiftOne[k] <= ShiftOne[n]
<1> DEFINE S == {n \in Nat : \A k \in 0..n : ShiftOne[k] <= ShiftOne[n]}
<1>1. 0 \in S
  BY ShiftOneIs
<1>2. ASSUME NEW n \in Nat, n \in S PROVE n + 1 \in S
  <2>1. ShiftOne[n] \in Nat /\ ShiftOne[n + 1] = 2 * ShiftOne[n] /\ ShiftOne[n + 1] \in Nat
    BY ShiftOneIs
  <2>2. ASSUME NEW k \in 0..n + 1 PROVE ShiftOne[k] <= ShiftOne[n + 1]
    <3>1. CASE k = n + 1
      BY <2>1, <3>1
    <3>2. CASE k # n + 1
      <4>1. k \in 0..n /\ k \in Nat
        BY <3>2
      <4>2. ShiftOne[k] <= ShiftOne[n] /\ ShiftOne[k] \in Nat
        BY <1>2, <4>1, ShiftOneIs
      <4> QED
        BY <2>1, <4>2
    <3> QED
      BY <3>1, <3>2
  <2> QED
    BY <2>2
<1> HIDE DEF S
<1>3. Nat \subseteq S
  BY <1>1, <1>2, Induction, Zenon
<1> QED
  BY <1>3 DEF S

(* The longest delay, the longest wait and the oldest age are numbers.     *)
LEMMA Caps ==
  /\ ShiftOne[MaxBackoff] \in Nat \ {0}
  /\ LongestWait \in Nat \ {0}
  /\ StaleAge \in Nat
<1>1. MaxBackoff \in Nat
  BY TimeAssumption, Zenon
<1>2. ShiftOne[MaxBackoff] \in Nat \ {0}
  BY <1>1, ShiftOneIs
<1> QED
  BY <1>2, TimeAssumption DEF LongestWait, StaleAge

(* A row waits at most as long as the cap says, whatever its failures.     *)
LEMMA DelayBound ==
  ASSUME NEW f \in Nat
  PROVE  retryDelay(f) \in 1..ShiftOne[MaxBackoff]
<1>1. AtMost(f, MaxBackoff) \in 0..MaxBackoff /\ MaxBackoff \in Nat
  BY TimeAssumption DEF AtMost
<1> QED
  BY <1>1, ShiftOneIs, ShiftOneGrows DEF retryDelay

(* A delay set by another clock is longer by MaxSkew at most.              *)
LEMMA UntilBound ==
  ASSUME NEW d \in 1..ShiftOne[MaxBackoff], NEW skew \in Skews
  PROVE  Until(d, skew) \in 0..LongestWait
  BY Caps, TimeAssumption DEF Until, Skews, LongestWait

(* The types that a relay's own steps change.                              *)
RelayTypes ==
  /\ pc \in [Relays -> {"idle", "next", "publish", "mark", "release", "quarantine"}]
  /\ batch \in [Relays -> SUBSET Pairs]
  /\ cur \in [Relays -> Pairs \cup {Idle}]
  /\ spent \in [Relays -> 0..MaxBatchTicks]

(* The types of the rows, and of the stream and the faults.                *)
RowTypes ==
  /\ stored \subseteq Events /\ published \subseteq stored /\ quarantined \subseteq stored
  /\ wait \in [Events -> 0..LongestWait]
  /\ lock \in [Events -> Owners \cup {NoOwner}]
  /\ age \in [Events -> 0..StaleAge]
  /\ failures \in [Events -> 0..MaxBackoff + 1]

BusTypes ==
  copies \in [Events -> 0..2] /\ window \in [Events -> 0..Window] /\ faults \in 0..MaxFaults

(* A failure counted up to a cap stays within it.                          *)
LEMMA CapBound ==
  ASSUME NEW m \in Nat, NEW n \in 0..m
  PROVE  AtMost(n + 1, m) \in 0..m
  BY DEF AtMost

(* A relay that lets go, or goes on to another step, keeps its types.      *)
LEMMA RelayTypesKept ==
  ASSUME RelayTypes, NEW r \in Relays,
         \/ Abort(r) \/ Proceed(r)
         \/ \E l \in {"mark", "release", "quarantine"} : Goto(r, l)
  PROVE  RelayTypes'
<1> USE DEF RelayTypes
<1>1. CASE Abort(r)
  BY <1>1, TimeAssumption DEF Abort
<1>2. CASE Proceed(r)
  BY <1>1, <1>2 DEF Proceed
<1>3. CASE \E l \in {"mark", "release", "quarantine"} : Goto(r, l)
  BY <1>3 DEF Goto
<1> QED
  BY <1>1, <1>2, <1>3

(* A step uses up one fault of the budget or none.                         *)
LEMMA FaultsBounded ==
  ASSUME faults \in 0..MaxFaults, Fault \/ NoFault
  PROVE  faults' \in 0..MaxFaults
  BY TimeAssumption DEF Fault, NoFault

(* A completion keeps the types of the rows: the delay is within the cap.  *)
LEMMA CompletedTypes ==
  ASSUME TypeOK, NEW r \in Relays, Holds(r), Completed(r)
  PROVE  RowTypes'
<1> DEFINE e == event(r)
<1>1. e \in stored /\ e \in Events /\ cur[r] \in Pairs
  BY EventAssumption DEF TypeOK, Holds, event, Idle
<1>2. cur[r][2] \in Nat
  BY <1>1, TimeAssumption DEF Pairs
<1>3. \A skew \in Skews : Until(retryDelay(cur[r][2]), skew) \in 0..LongestWait
  BY <1>2, DelayBound, UntilBound, Zenon
<1>4. AtMost(failures[e] + 1, MaxBackoff + 1) \in 0..MaxBackoff + 1
  BY <1>1, CapBound, TimeAssumption DEF TypeOK
<1>5. /\ lock' = [lock EXCEPT ![e] = NoOwner] /\ age' = [age EXCEPT ![e] = 0] /\ stored' = stored
      /\ \/ wait' = wait
         \/ \E skew \in Skews : wait' = [wait EXCEPT ![e] = Until(retryDelay(cur[r][2]), skew)]
      /\ failures' = failures \/ failures' = [failures EXCEPT ![e] = AtMost(@ + 1, MaxBackoff + 1)]
      /\ published' \in {published, published \cup {e}}
      /\ quarantined' \in {quarantined, quarantined \cup {e}}
  BY Zenon DEF Completed, MarkedPublished, Released, Quarantined, Unlock
<1> HIDE DEF e
<1>6. wait' \in [Events -> 0..LongestWait] /\ failures' \in [Events -> 0..MaxBackoff + 1]
  <2>1. failures' \in [Events -> 0..MaxBackoff + 1]
    BY <1>1, <1>4, <1>5 DEF TypeOK
  <2>2. CASE wait' = wait
    BY <2>1, <2>2, Zenon DEF TypeOK
  <2>3. CASE \E skew \in Skews : wait' = [wait EXCEPT ![e] = Until(retryDelay(cur[r][2]), skew)]
    <3>1. PICK n \in 0..LongestWait : wait' = [wait EXCEPT ![e] = n]
      BY <1>3, <2>3, Zenon
    <3> QED
      BY <1>1, <2>1, <3>1, Zenon DEF TypeOK
  <2> QED
    BY <1>5, <2>2, <2>3, Zenon
<1>7. lock' \in [Events -> Owners \cup {NoOwner}] /\ age' \in [Events -> 0..StaleAge]
  <2>1. 0 \in 0..StaleAge
    BY Caps
  <2> QED
    BY <1>5, <2>1, Zenon DEF TypeOK
<1> QED
  BY <1>1, <1>5, <1>6, <1>7, Zenon DEF TypeOK, RowTypes

(* The passing of time keeps the types: the counters go down to 0, the age *)
(* of a claim up to its cap, and no relay is out of time.                  *)
LEMMA TickTypes ==
  ASSUME TypeOK, Tick
  PROVE  TypeOK'
<1>1. ASSUME NEW m \in Nat, NEW n \in 0..m PROVE Less(n) \in 0..m
  BY DEF Less
<1>2. LongestWait \in Nat /\ StaleAge \in Nat
  BY Caps
<1>3. wait' \in [Events -> 0..LongestWait]
  BY <1>1, <1>2, Zenon DEF Tick, TypeOK
<1>4. window' \in [Events -> 0..Window]
  BY <1>1, TimeAssumption DEF Tick, TypeOK
<1>5. age' \in [Events -> 0..StaleAge]
  <2>1. 0 \in 0..StaleAge
    BY <1>2
  <2> QED
    BY <1>2, <2>1, CapBound, Zenon DEF Tick, TypeOK
<1>6. spent' \in [Relays -> 0..MaxBatchTicks]
  BY TimeAssumption DEF Tick, TypeOK
<1> QED
  BY <1>3, <1>4, <1>5, <1>6 DEF Tick, TypeOK

(* Every counter keeps within its cap, for any caps: the delay of          *)
(* retryDelay grows up to 1<<MaxBackoff and no further, an age is told     *)
(* apart up to the first stale one, a batch is not kept past its time.     *)
THEOREM OutboxTypes == Spec => []TypeOK
<1> USE DEF RowTypes, BusTypes
<1>1. Init => TypeOK
  BY Caps, TimeAssumption DEF Init, TypeOK
<1>2. TypeOK <=> RowTypes /\ RelayTypes /\ BusTypes
  BY Zenon DEF TypeOK, RelayTypes
<1>3. ASSUME TypeOK, [Next]_vars PROVE TypeOK'
  <2> USE <1>3
  <2>1. CASE UNCHANGED vars
    BY <2>1, Zenon DEF vars, rowVars, relayVars, busVars, TypeOK
  <2>2. ASSUME NEW e \in Events, Enqueue(e) \/ Redrive(e) PROVE TypeOK'
    <3>1. {0, 1} \subseteq 0..LongestWait
      BY Caps
    <3>2. wait' \in [Events -> 0..LongestWait]
      BY <2>2, <3>1 DEF Enqueue, Redrive, TypeOK
    <3> QED
      BY <2>2, <3>2 DEF Enqueue, Redrive, relayVars, busVars, TypeOK
  <2>3. ASSUME NEW r \in Relays, ClaimBatch(r) \/ ClaimFails(r) PROVE TypeOK'
    <3>1. PICK S \in SUBSET Events :
            /\ Claims(r, S)
            /\ \/ /\ batch' = [batch EXCEPT ![r] = {<<e, failures[e]>> : e \in S}]
                  /\ pc' = [pc EXCEPT ![r] = "next"] /\ cur' = cur /\ spent' = [spent EXCEPT ![r] = 0]
               \/ UNCHANGED relayVars
      BY <2>3, Zenon DEF ClaimBatch, ClaimFails
    <3>2. S \subseteq Events
      BY Zenon
    <3>3. RowTypes'
      <4>1. 0 \in 0..StaleAge
        BY Caps
      <4>2. /\ lock' = [e \in Events |-> IF e \in S THEN owner[r] ELSE lock[e]]
            /\ age' = [e \in Events |-> IF e \in S THEN 0 ELSE age[e]]
            /\ UNCHANGED <<stored, published, quarantined, wait, failures>>
        BY <3>1, Zenon DEF Claims
      <4>3. lock' \in [Events -> Owners \cup {NoOwner}]
        BY <4>2, OwnerAssumption, Zenon DEF TypeOK
      <4>4. age' \in [Events -> 0..StaleAge]
        BY <4>1, <4>2, Zenon DEF TypeOK
      <4> QED
        BY <4>2, <4>3, <4>4, Zenon DEF TypeOK
    <3>4. {<<e, failures[e]>> : e \in S} \in SUBSET Pairs
      BY <3>2 DEF Pairs, TypeOK
    <3>5. RelayTypes'
      <4>1. 0 \in 0..MaxBatchTicks
        BY TimeAssumption
      <4>2. CASE UNCHANGED relayVars
        BY <4>2, Zenon DEF TypeOK, RelayTypes, relayVars
      <4>3. CASE ~UNCHANGED relayVars
        <5>1. /\ batch' = [batch EXCEPT ![r] = {<<e, failures[e]>> : e \in S}]
              /\ pc' = [pc EXCEPT ![r] = "next"] /\ cur' = cur /\ spent' = [spent EXCEPT ![r] = 0]
          BY <3>1, <4>3, Zenon
        <5>2. batch' \in [Relays -> SUBSET Pairs]
          BY <3>4, <5>1, Zenon DEF TypeOK
        <5> QED
          BY <4>1, <5>1, <5>2, Zenon DEF TypeOK, RelayTypes
      <4> QED
        BY <4>2, <4>3, Zenon
    <3>6. faults' \in 0..MaxFaults
      <4>1. faults \in 0..MaxFaults /\ (Fault \/ NoFault)
        BY <2>3, Zenon DEF ClaimBatch, ClaimFails, TypeOK
      <4> QED
        BY <4>1, FaultsBounded, Zenon
    <3>7. BusTypes'
      BY <3>1, <3>6, Zenon DEF Claims, busVars, TypeOK
    <3> QED
      BY <3>3, <3>5, <3>7, Zenon DEF TypeOK, RelayTypes
  <2>4. ASSUME NEW r \in Relays, NextEvent(r) PROVE TypeOK'
    <3>1. PICK b \in batch[r] :
            cur' = [cur EXCEPT ![r] = b] /\ batch' = [batch EXCEPT ![r] = @ \ {b}]
      BY <2>4, Zenon DEF NextEvent
    <3>2. b \in Pairs
      BY <3>1, Zenon DEF TypeOK
    <3>3. RelayTypes'
      BY <2>4, <3>1, <3>2 DEF NextEvent, TypeOK, RelayTypes
    <3> QED
      BY <2>4, <3>3 DEF NextEvent, rowVars, busVars, TypeOK, RelayTypes
  <2>5. ASSUME NEW r \in Relays, Publish(r) PROVE TypeOK'
    <3>1. RelayTypes'
      BY <1>2, <2>5, RelayTypesKept, Zenon DEF Publish
    <3>2. faults' \in 0..MaxFaults
      <4>1. faults \in 0..MaxFaults /\ (Fault \/ NoFault)
        BY <2>5, Zenon DEF Publish, TypeOK
      <4> QED
        BY <4>1, FaultsBounded, Zenon
    <3>3. copies' \in [Events -> 0..2] /\ window' \in [Events -> 0..Window]
      <4>1. CASE UNCHANGED busVars
        BY <4>1 DEF busVars, TypeOK
      <4>2. CASE Accepted(event(r)) /\ ~UNCHANGED busVars
        BY <4>2, TimeAssumption DEF Accepted, AtMost, TypeOK
      <4> QED
        BY <2>5, <4>1, <4>2 DEF Publish
    <3> QED
      BY <2>5, <3>1, <3>2, <3>3 DEF Publish, rowVars, TypeOK, RelayTypes
  <2>6. ASSUME NEW r \in Relays, Complete(r) \/ ClaimLost(r) \/ CompleteFails(r) \/ Crash(r)
        PROVE  TypeOK'
    <3>1. /\ (Holds(r) /\ Completed(r)) \/ UNCHANGED rowVars
          /\ Abort(r) \/ Proceed(r)
          /\ UNCHANGED busVars /\ (Fault \/ NoFault)
      BY <2>6, Zenon DEF Complete, ClaimLost, CompleteFails, Crash
    <3>2. RowTypes'
      BY <3>1, CompletedTypes DEF rowVars, TypeOK
    <3>3. RelayTypes'
      BY <1>2, <3>1, RelayTypesKept
    <3>4. BusTypes'
      BY <3>1, FaultsBounded, Zenon DEF busVars, TypeOK
    <3> QED
      BY <3>2, <3>3, <3>4, Zenon DEF TypeOK, RelayTypes
  <2>7. CASE Tick
    BY <2>7, TickTypes
  <2> QED
    BY <2>1, <2>2, <2>3, <2>4, <2>5, <2>6, <2>7, Zenon DEF Next, Run
<1> QED
  BY <1>1, <1>3, PTL DEF Spec
=============================================================================
