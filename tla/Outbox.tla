-------------------------------- MODULE Outbox --------------------------------
(***************************************************************************)
(* What the transactional outbox promises to the services that write into  *)
(* it: an event whose transaction has committed is accepted for ever, and  *)
(* only accepted events reach Kafka. OutboxRelay implements this module,   *)
(* and Delivery shows that every accepted event does reach it.             *)
(***************************************************************************)
CONSTANT Events

VARIABLES
  accepted,     \* events whose transaction has committed
  delivered     \* events that Kafka has at least one copy of

vars == <<accepted, delivered>>

Init == accepted = {} /\ delivered = {}

Accept(e) ==
  /\ e \notin accepted
  /\ accepted' = accepted \cup {e}
  /\ UNCHANGED delivered

Deliver(e) ==
  /\ e \in accepted \ delivered
  /\ delivered' = delivered \cup {e}
  /\ UNCHANGED accepted

Next == \E e \in Events : Accept(e) \/ Deliver(e)

Spec == Init /\ [][Next]_vars
=============================================================================
