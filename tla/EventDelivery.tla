---------------------------- MODULE EventDelivery ----------------------------
(***************************************************************************)
(* What the transactional outbox promises: an event that was stored is     *)
(* sent at least once before it is done, and what is done stays done.      *)
(* Sending again is allowed; giving up silently is not.                    *)
(***************************************************************************)
CONSTANT Events

VARIABLES
  stored,   \* events whose transaction committed
  sent,     \* events the message bus accepted at least once
  done      \* events the outbox will not send again

deliveryVars == <<stored, sent, done>>

DeliveryInit == stored = {} /\ sent = {} /\ done = {}

Store(e) ==
  /\ e \notin stored
  /\ stored' = stored \cup {e} /\ UNCHANGED <<sent, done>>

Send(e) ==
  /\ e \in stored
  /\ sent' = sent \cup {e} /\ UNCHANGED <<stored, done>>

Finish(e) ==
  /\ e \in sent \ done
  /\ done' = done \cup {e} /\ UNCHANGED <<stored, sent>>

DeliveryNext == \E e \in Events : Store(e) \/ Send(e) \/ Finish(e)

DeliverySpec == DeliveryInit /\ [][DeliveryNext]_deliveryVars
=============================================================================
