------------------------------- MODULE Outbox -------------------------------
(***************************************************************************)
(* The delivery of outbox events: Processor.RunOnce                        *)
(* (internal/outbox/worker.go) in several worker processes, over the       *)
(* claims and marks of internal/platform/store/postgres/outbox.go, each of *)
(* which is one transaction.                                               *)
(*                                                                         *)
(* Times are kept relative to true time: `wait` is available_at and        *)
(* `lease` is locked_until, less the time it is.  The processes run on     *)
(* hosts whose clocks differ, and take `now` before the statement that     *)
(* uses it: Reading[p] is by how much `now` may be ahead of true time, or  *)
(* behind it, when it is used.  Below -Margin a time is past for everyone. *)
(***************************************************************************)
EXTENDS Integers, FiniteSets

CONSTANTS
  Event,       \* events, numbered by (occurred_at, id)
  Tenant, TenantOf,
  Process,     \* worker processes
  WorkerID,    \* the ID each runs under: ITEMBA_WORKER_ID or the host's name
  NoWorker,
  BatchSize, Lease, RetryDelay,
  Reading,     \* what a process may read on its clock, relative to true time
  Margin,      \* bound: no reading is further off than this
  Poison,      \* events the broker never accepts
  MaxFaults,   \* bound: crashes, broker and database errors, slow rounds
  MaxCount     \* bound: claims and publications of an event are counted so far

ASSUME EventAssumption == Event \subseteq Nat /\ Poison \subseteq Event
ASSUME TenantAssumption == TenantOf \in [Event -> Tenant]
ASSUME WorkerAssumption == NoWorker \notin {WorkerID[p] : p \in Process}
\* RunOnce refuses any other configuration.
ASSUME ConfigAssumption ==
  /\ BatchSize \in Nat \ {0} /\ Lease \in Nat \ {0} /\ RetryDelay \in Nat \ {0}
  /\ MaxFaults \in Nat /\ MaxCount \in Nat \ {0}
\* Clocks are off by a bounded amount.
ASSUME ClockAssumption ==
  /\ Margin \in Nat
  /\ Reading \in [Process -> SUBSET (-Margin..Margin)]

VARIABLES
  recorded,  \* events with a row in outbox_events
  row,       \* their rows: wait, owner, lease, done (processed_at IS NOT NULL)
  attempts,  \* outbox_events.attempts
  sent,      \* times the broker was given each event
  worker,    \* each process: tenants left in its round, batch, current event
  faults

vars == <<recorded, row, attempts, sent, worker, faults>>

\* Past for every process, and before what any of them calls now.
Past == -Margin
Expired == -Margin - 1

\* A row nobody holds.
Free(wait, done) == [wait |-> wait, owner |-> NoWorker, lease |-> Expired, done |-> done]

\* due: the ticker's channel, which holds one tick; the loop's first round needs
\* none.  at: "round" (between events), "ack" or "nack" (event `on` was
\* published, or was not).  lease is what was granted with the batch.
Asleep == [due |-> TRUE, tenants |-> {}, batch |-> {}, lease |-> Expired,
           at |-> "round", on |-> 0]

Init ==
  /\ recorded = {}
  /\ row = [e \in Event |-> Free(Past, FALSE)]
  /\ attempts = [e \in Event |-> 0]
  /\ sent = [e \in Event |-> 0]
  /\ worker = [p \in Process |-> Asleep]
  /\ faults = 0

Counted(n) == IF n < MaxCount THEN n + 1 ELSE n

Fault == faults < MaxFaults /\ faults' = faults + 1

-----------------------------------------------------------------------------
(* The producer: a sale's transaction commits with its event, available from *)
(* now on *)

Record(e) ==
  /\ e \notin recorded
  /\ recorded' = recorded \cup {e}
  /\ row' = [row EXCEPT ![e] = Free(0, FALSE)]
  /\ UNCHANGED <<attempts, sent, worker, faults>>

-----------------------------------------------------------------------------
(* Processor.RunOnce *)

Between(p) == worker[p].at = "round" /\ worker[p].batch = {}

Resting(p) == Between(p) /\ worker[p].tenants = {}

\* A round over all tenants.
StartRound(p) ==
  /\ Resting(p) /\ worker[p].due
  /\ worker' = [worker EXCEPT ![p] = [worker[p] EXCEPT !.tenants = Tenant, !.due = FALSE]]
  /\ UNCHANGED <<recorded, row, attempts, sent, faults>>

\* Faulty variant: delivered events are not left out.
ClaimableAgain(tenant, now) ==
  {e \in recorded : TenantOf[e] = tenant /\ row[e].wait <= now /\ row[e].lease < now}

\* Due and not leased, by the claiming process's clock.
Claimable(tenant, now) ==
  {e \in recorded : /\ TenantOf[e] = tenant /\ ~row[e].done
                    /\ row[e].wait <= now /\ row[e].lease < now}

\* ORDER BY occurred_at, id ... LIMIT
Earliest(S) == {e \in S : Cardinality({f \in S : f < e}) < BatchSize}

Leased(B, p, now) ==
  /\ row' = [e \in Event |-> IF e \in B
                             THEN [row[e] EXCEPT !.owner = WorkerID[p], !.lease = now + Lease]
                             ELSE row[e]]
  /\ attempts' = [e \in Event |-> IF e \in B THEN Counted(attempts[e]) ELSE attempts[e]]

\* An empty batch is held under no lease.
Claim(p, tenant, now) ==
  LET B == Earliest(Claimable(tenant, now)) IN
  /\ Between(p) /\ tenant \in worker[p].tenants
  /\ Leased(B, p, now)
  /\ worker' = [worker EXCEPT ![p] =
                  [worker[p] EXCEPT !.tenants = worker[p].tenants \ {tenant},
                                    !.batch = B,
                                    !.lease = IF B = {} THEN Expired ELSE now + Lease]]
  /\ UNCHANGED <<recorded, sent, faults>>

\* The claim returns an error, before its commit or after: the next tenant.
ClaimFails(p, tenant, now) ==
  /\ Between(p) /\ tenant \in worker[p].tenants
  /\ Fault
  /\ \/ Leased(Earliest(Claimable(tenant, now)), p, now)
     \/ UNCHANGED <<row, attempts>>
  /\ worker' = [worker EXCEPT ![p].tenants = @ \ {tenant}]
  /\ UNCHANGED <<recorded, sent>>

\* RETURNING gives the batch in no particular order.
Ready(p, e) == worker[p].at = "round" /\ e \in worker[p].batch

Publish(p, e) ==
  /\ Ready(p, e) /\ e \notin Poison
  /\ sent' = [sent EXCEPT ![e] = Counted(@)]
  /\ worker' = [worker EXCEPT ![p] = [worker[p] EXCEPT !.at = "ack", !.on = e]]
  /\ UNCHANGED <<recorded, row, attempts, faults>>

\* Faulty variant: the publisher's error is not looked at.
PublishUnchecked(p, e) ==
  /\ Ready(p, e)
  /\ \/ e \in Poison /\ UNCHANGED <<sent, faults>>
     \/ e \notin Poison /\ Fault /\ sent' \in {sent, [sent EXCEPT ![e] = Counted(@)]}
  /\ worker' = [worker EXCEPT ![p] = [worker[p] EXCEPT !.at = "ack", !.on = e]]
  /\ UNCHANGED <<recorded, row, attempts>>

\* The publisher returns an error: the broker has refused the event, or has it
\* and the answer was lost.
PublishFails(p, e) ==
  /\ Ready(p, e)
  /\ \/ e \in Poison /\ UNCHANGED <<sent, faults>>
     \/ e \notin Poison /\ Fault /\ sent' \in {sent, [sent EXCEPT ![e] = Counted(@)]}
  /\ worker' = [worker EXCEPT ![p] = [worker[p] EXCEPT !.at = "nack", !.on = e]]
  /\ UNCHANGED <<recorded, row, attempts>>

\* Faulty variant: the event just handled is handled again.
ProceedAgain(p) ==
  worker' = [worker EXCEPT ![p] = [worker[p] EXCEPT !.at = "round", !.on = 0]]

\* On to the next event of the batch.
Proceed(p) ==
  worker' = [worker EXCEPT ![p] =
               [worker[p] EXCEPT !.at = "round", !.on = 0,
                                 !.batch = worker[p].batch \ {worker[p].on}]]

\* Faulty variant: whoever holds the lease.
OwnedByAnyone(p) == ~row[worker[p].on].done

\* WHERE ... locked_by = $3 AND processed_at IS NULL
Owned(p) ==
  row[worker[p].on].owner = WorkerID[p] /\ ~row[worker[p].on].done

MarkPublished(p) ==
  /\ worker[p].at = "ack"
  /\ row' = IF Owned(p) THEN [row EXCEPT ![worker[p].on] = Free(@.wait, TRUE)] ELSE row
  /\ Proceed(p)
  /\ UNCHANGED <<recorded, attempts, sent, faults>>

\* Faulty variants: the retry is due before the failure, or at once.
MarkFailedBackwards(p, now) ==
  /\ worker[p].at = "nack"
  /\ row' = IF Owned(p) THEN [row EXCEPT ![worker[p].on] = Free(Expired - RetryDelay, FALSE)] ELSE row
  /\ Proceed(p)
  /\ UNCHANGED <<recorded, attempts, sent, faults>>
MarkFailedAtOnce(p, now) ==
  /\ worker[p].at = "nack"
  /\ row' = IF Owned(p) THEN [row EXCEPT ![worker[p].on] = Free(Past, FALSE)] ELSE row
  /\ Proceed(p)
  /\ UNCHANGED <<recorded, attempts, sent, faults>>

MarkFailed(p, now) ==
  /\ worker[p].at = "nack"
  /\ row' = IF Owned(p)
            THEN [row EXCEPT ![worker[p].on] = Free(now + RetryDelay, FALSE)] ELSE row
  /\ Proceed(p)
  /\ UNCHANGED <<recorded, attempts, sent, faults>>

\* The mark does not reach the database: the error is logged.
MarkLost(p) ==
  /\ worker[p].at \in {"ack", "nack"}
  /\ Fault
  /\ Proceed(p)
  /\ UNCHANGED <<recorded, row, attempts, sent>>

\* The process dies and is started again under its ID.
Crash(p) ==
  /\ worker[p] # Asleep
  /\ Fault
  /\ worker' = [worker EXCEPT ![p] = Asleep]
  /\ UNCHANGED <<recorded, row, attempts, sent>>

-----------------------------------------------------------------------------
(* Time *)

Down(n, floor) == IF n > floor THEN n - 1 ELSE floor

Elapse ==
  /\ row' = [e \in Event |-> [row[e] EXCEPT !.wait = Down(@, Past), !.lease = Down(@, Expired)]]
  /\ worker' = [p \in Process |-> [worker[p] EXCEPT !.lease = Down(@, Expired),
                                                     !.due = TRUE]]
  /\ UNCHANGED <<recorded, attempts, sent>>

Idle == \A p \in Process : Resting(p) /\ ~worker[p].due

\* The tick that comes when every process is through with its round.
Tick == Idle /\ Elapse /\ UNCHANGED faults

\* A round takes longer than the ticker's period.
SlowRound == ~Idle /\ Fault /\ Elapse

Work(p) ==
  \/ StartRound(p)
  \/ \E tenant \in Tenant, now \in Reading[p] : Claim(p, tenant, now)
  \/ \E e \in Event : Publish(p, e) \/ (e \in Poison /\ PublishFails(p, e))
  \/ MarkPublished(p) \/ \E now \in Reading[p] : MarkFailed(p, now)

Faulty(p) ==
  \/ \E tenant \in Tenant, now \in Reading[p] : ClaimFails(p, tenant, now)
  \/ \E e \in Event : PublishFails(p, e)
  \/ MarkLost(p) \/ Crash(p)

Next ==
  \/ \E e \in Event : Record(e)
  \/ \E p \in Process : Work(p) \/ Faulty(p)
  \/ Tick \/ SlowRound

Spec == Init /\ [][Next]_vars

\* The ticker fires, calls return and time passes.
Fairness == WF_vars(Tick) /\ \A p \in Process : WF_vars(Work(p))

FairSpec == Spec /\ Fairness

-----------------------------------------------------------------------------
(* What delivery promises *)

Done == {e \in Event : row[e].done}
Sent == {e \in Event : sent[e] > 0}

ID == {WorkerID[p] : p \in Process} \cup {NoWorker}
Time == {n \in Int : n >= Expired}
Row == [wait : {n \in Time : n >= Past}, owner : ID, lease : Time, done : BOOLEAN]
WorkerState ==
  [due : BOOLEAN, tenants : SUBSET Tenant, batch : SUBSET Event, lease : Time,
   at : {"round", "ack", "nack"}, on : Event \cup {0}]

OutboxTypeOK ==
  /\ recorded \subseteq Event
  /\ row \in [Event -> Row]
  /\ attempts \in [Event -> Nat] /\ sent \in [Event -> Nat]
  /\ worker \in [Process -> WorkerState]
  /\ faults \in Nat

\* "Safe leases": two processes never work on the same event while the leases
\* both were granted still run on every clock, whatever late marks, crashes and
\* lost answers came before.  What a lease is worth is its length less the
\* margin: with a margin of the lease's length it protects nothing.
LeaseExclusive ==
  \A p, q \in Process : \A e \in worker[p].batch \cap worker[q].batch :
    worker[p].lease >= Margin /\ worker[q].lease >= Margin => p = q

\* A publication was paid for by a claim: a lease publishes its event once,
\* and what is published again was claimed again.
OneSendPerClaim == \A e \in Event : sent[e] <= attempts[e]

\* A delivered event is never leased, put off or reopened, not even by the
\* late failure report of a process whose lease ran out.
Final == \A e \in Event : row[e].done => row'[e].done /\ row'[e].owner = NoWorker
DoneIsFinal == [][Final]_vars

\* The workers implement at-least-once delivery.
Promise == INSTANCE Delivery WITH sent <- Sent, done <- Done
DeliverySpec == Promise!Spec

\* A failed event is claimed again, by any clock, no sooner than Recurrence
\* ticks later: meanwhile the processes have room for Reach other events.
Recurrence == RetryDelay - 2 * Margin
Reach == Cardinality(Process) * BatchSize * Recurrence

\* The poison ahead of an event in its tenant does not fill every batch, where
\* leases outlast the clocks' differences.  Poison that does is what the workers
\* are busy with for ever.
WithinReach(e) ==
  /\ Lease >= 2 * Margin
  /\ Cardinality({f \in Poison : TenantOf[f] = TenantOf[e] /\ f < e}) < Reach

\* Every recorded event the broker accepts is delivered in the end, after any
\* finite number of faults and behind the events the broker never accepts, if
\* these are fewer than the processes can claim before the first is due again.
EventuallyDelivered ==
  \A e \in Event \ Poison : WithinReach(e) => (e \in recorded ~> e \in Done)
=============================================================================
