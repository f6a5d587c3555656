------------------------------ MODULE Delivery ------------------------------
(***************************************************************************)
(* What the outbox promises a producer and a broker: a recorded event is   *)
(* handed to the broker at least once before it is called delivered, and   *)
(* delivered is for good (services/core-api/README.md, "Outbox worker").   *)
(***************************************************************************)
CONSTANTS Event

VARIABLES
  recorded,   \* events committed with their business records
  sent,       \* events the broker was given, once or several times
  done        \* events whose delivery is acknowledged

vars == <<recorded, sent, done>>

Init == recorded = {} /\ sent = {} /\ done = {}

Record(e) == recorded' = recorded \cup {e} /\ UNCHANGED <<sent, done>>

Send(e) ==
  /\ e \in recorded
  /\ sent' = sent \cup {e}
  /\ UNCHANGED <<recorded, done>>

Finish(e) ==
  /\ e \in sent
  /\ done' = done \cup {e}
  /\ UNCHANGED <<recorded, sent>>

Next == \E e \in Event : Record(e) \/ Send(e) \/ Finish(e)

Spec == Init /\ [][Next]_vars
=============================================================================
