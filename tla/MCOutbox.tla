------------------------------ MODULE MCOutbox ------------------------------
(* Two or three processes over one or two events, under IDs of their own or *)
(* under the one ID of their host, with clocks that agree or do not.        *)
EXTENDS Outbox, TLC

CONSTANTS w1, w2, w3, t1, t2

OwnID == [p \in Process |-> p]
HostID == [p \in Process |-> "host"]
OneTenant == [e \in Event |-> t1]
TwoTenants == [e \in Event |-> IF e = 3 THEN t2 ELSE t1]
OneClock == [p \in Process |-> {0}]
AnyClock == [p \in Process |-> -1..1]
=============================================================================
