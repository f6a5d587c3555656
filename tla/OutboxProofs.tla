---------------------------- MODULE OutboxProofs ----------------------------
(***************************************************************************)
(* Delivery of outbox events, for any number of events, tenants, worker    *)
(* processes and faults, any lease, batch size and retry delay, and clocks *)
(* that are off by any bounded amount.                                     *)
(***************************************************************************)
EXTENDS Outbox, FiniteSetTheorems, TLAPS

-----------------------------------------------------------------------------
(* Types *)

LEMMA CountedType == ASSUME NEW n \in Nat PROVE Counted(n) \in Nat /\ Counted(n) > 0
BY ConfigAssumption DEF Counted

Wait == {n \in Time : n >= Past}

LEMMA TimeFacts ==
  /\ Time \subseteq Int /\ Wait \subseteq Time
  /\ Expired \in Time /\ Past \in Wait /\ 0 \in Wait
  /\ Row = [wait : Wait, owner : ID, lease : Time, done : BOOLEAN]
BY ClockAssumption DEF Time, Wait, Past, Expired, Row

\* Whatever a process reads on its clock, what it adds to it is a time to come.
LEMMA ReadingType ==
  ASSUME NEW p \in Process, NEW now \in Reading[p]
  PROVE  now + Lease \in Time /\ now + RetryDelay \in Wait
<1>1. now \in Int /\ now >= -Margin
  BY ClockAssumption
<1> QED
  BY <1>1, ClockAssumption, ConfigAssumption DEF Time, Wait, Past, Expired

LEMMA DownType ==
  /\ \A n \in Time : Down(n, Expired) \in Time
  /\ \A n \in Wait : Down(n, Past) \in Wait
BY ClockAssumption DEF Down, Time, Wait, Past, Expired

LEMMA FreeType ==
  ASSUME NEW wait \in Wait, NEW done \in BOOLEAN PROVE Free(wait, done) \in Row
BY TimeFacts DEF Free, ID

LEMMA InitType == Init => OutboxTypeOK
<1> SUFFICES ASSUME Init PROVE OutboxTypeOK
  OBVIOUS
<1>1. Free(Past, FALSE) \in Row
  BY FreeType, TimeFacts
<1>2. Asleep \in WorkerState
  BY TimeFacts DEF Asleep, WorkerState
<1> QED
  BY <1>1, <1>2 DEF Init, OutboxTypeOK

LEMMA LeasedType ==
  ASSUME OutboxTypeOK, NEW p \in Process, NEW now \in Reading[p], NEW B,
         Leased(B, p, now)
  PROVE  row' \in [Event -> Row] /\ attempts' \in [Event -> Nat]
<1>1. WorkerID[p] \in ID /\ now + Lease \in Time
  BY ReadingType DEF ID
<1>2. \A e \in Event :
        [row[e] EXCEPT !.owner = WorkerID[p], !.lease = now + Lease] \in Row
  BY <1>1 DEF OutboxTypeOK, Row
<1>3. row' \in [Event -> Row]
  BY <1>2 DEF Leased, OutboxTypeOK
<1>4. attempts' \in [Event -> Nat]
  BY CountedType DEF Leased, OutboxTypeOK
<1> QED BY <1>3, <1>4

LEMMA EarliestType == \A tenant, now : Earliest(Claimable(tenant, now)) \subseteq recorded
BY DEF Earliest, Claimable

LEMMA ProceedType ==
  ASSUME OutboxTypeOK, NEW p \in Process, Proceed(p)
  PROVE  worker' \in [Process -> WorkerState]
<1> DEFINE B == worker[p].batch \ {worker[p].on}
<1>1. worker \in [Process -> WorkerState] /\ B \in SUBSET Event
  BY DEF OutboxTypeOK, WorkerState
<1>2. worker' = [worker EXCEPT ![p] =
                            [worker[p] EXCEPT !.at = "round", !.on = 0, !.batch = B]]
  BY DEF Proceed
<1> HIDE DEF B
<1>3. [worker[p] EXCEPT !.at = "round", !.on = 0, !.batch = B] \in WorkerState
  BY <1>1 DEF WorkerState
<1> QED BY <1>1, <1>2, <1>3

LEMMA MarkType ==
  ASSUME OutboxTypeOK, NEW p \in Process,
         MarkPublished(p) \/ \E now \in Reading[p] : MarkFailed(p, now)
  PROVE  OutboxTypeOK'
<1>1. worker' \in [Process -> WorkerState]
  BY ProceedType DEF MarkPublished, MarkFailed
<1> DEFINE e == worker[p].on
<1>2. row' \in [Event -> Row]
  <2>1. /\ \A now \in Reading[p] : Free(now + RetryDelay, FALSE) \in Row
        /\ \A f \in Event : Free(row[f].wait, TRUE) \in Row
    BY FreeType, ReadingType, TimeFacts DEF OutboxTypeOK
  <2>2. row \in [Event -> Row]
    BY DEF OutboxTypeOK
  <2> QED
    BY <2>1, <2>2 DEF MarkPublished, MarkFailed
<1> QED
  BY <1>1, <1>2 DEF OutboxTypeOK, MarkPublished, MarkFailed

LEMMA ElapseType == OutboxTypeOK /\ (Tick \/ SlowRound) => OutboxTypeOK'
<1> SUFFICES ASSUME OutboxTypeOK, Elapse, faults' \in Nat PROVE OutboxTypeOK'
  BY DEF Tick, SlowRound, Fault, OutboxTypeOK
<1>1. \A e \in Event :
        [row[e] EXCEPT !.wait = Down(@, Past), !.lease = Down(@, Expired)] \in Row
  <2> TAKE e \in Event
  <2>1. row[e] \in Row /\ row[e].wait \in Wait /\ row[e].lease \in Time
    BY TimeFacts DEF OutboxTypeOK
  <2>2. Down(row[e].wait, Past) \in Wait /\ Down(row[e].lease, Expired) \in Time
    BY <2>1, DownType
  <2> QED BY <2>1, <2>2, TimeFacts
<1>2. \A p \in Process :
        [worker[p] EXCEPT !.lease = Down(@, Expired), !.due = TRUE] \in WorkerState
  BY DownType DEF OutboxTypeOK, WorkerState
<1> QED
  BY <1>1, <1>2 DEF OutboxTypeOK, Elapse

LEMMA NextType == OutboxTypeOK /\ [Next]_vars => OutboxTypeOK'
<1> SUFFICES ASSUME OutboxTypeOK, [Next]_vars PROVE OutboxTypeOK'
  OBVIOUS
<1>1. ASSUME NEW e \in Event, Record(e) PROVE OutboxTypeOK'
  BY <1>1, FreeType, TimeFacts DEF Record, OutboxTypeOK
<1>2. ASSUME NEW p \in Process, StartRound(p) PROVE OutboxTypeOK'
  <2>1. [worker[p] EXCEPT !.tenants = Tenant, !.due = FALSE] \in WorkerState
    BY DEF OutboxTypeOK, WorkerState
  <2>2. worker' = [worker EXCEPT ![p] = [worker[p] EXCEPT !.tenants = Tenant, !.due = FALSE]]
    BY <1>2 DEF StartRound
  <2>3. worker' \in [Process -> WorkerState]
    BY <2>1, <2>2 DEF OutboxTypeOK
  <2> QED BY <1>2, <2>3 DEF StartRound, OutboxTypeOK
<1>3. ASSUME NEW p \in Process, NEW tenant \in Tenant, NEW now \in Reading[p],
             Claim(p, tenant, now)
      PROVE  OutboxTypeOK'
  <2> DEFINE B == Earliest(Claimable(tenant, now))
             T == worker[p].tenants \ {tenant}
             until == IF B = {} THEN Expired ELSE now + Lease
  <2>1. row' \in [Event -> Row] /\ attempts' \in [Event -> Nat]
    BY <1>3, LeasedType DEF Claim
  <2>2. B \in SUBSET Event /\ until \in Time
    BY EarliestType, ReadingType, TimeFacts DEF OutboxTypeOK
  <2>3. worker' \in [Process -> WorkerState]
    <3>1. worker' = [worker EXCEPT ![p] =
                      [worker[p] EXCEPT !.tenants = T, !.batch = B, !.lease = until]]
      BY <1>3 DEF Claim
    <3> HIDE DEF B, until
    <3>2. worker[p] \in WorkerState /\ T \in SUBSET Tenant
      BY DEF OutboxTypeOK, WorkerState
    <3> HIDE DEF T
    <3>3. [worker[p] EXCEPT !.tenants = T, !.batch = B, !.lease = until] \in WorkerState
      BY <2>2, <3>2 DEF WorkerState
    <3> QED
      BY <3>1, <3>3 DEF OutboxTypeOK
  <2> QED
    BY <1>3, <2>1, <2>3 DEF Claim, OutboxTypeOK
<1>4. ASSUME NEW p \in Process, NEW tenant \in Tenant, NEW now \in Reading[p],
             ClaimFails(p, tenant, now)
      PROVE  OutboxTypeOK'
  <2>1. row' \in [Event -> Row] /\ attempts' \in [Event -> Nat]
    BY <1>4, LeasedType DEF ClaimFails, OutboxTypeOK
  <2>2. worker' \in [Process -> WorkerState]
    BY <1>4 DEF ClaimFails, OutboxTypeOK, WorkerState
  <2> QED
    BY <1>4, <2>1, <2>2 DEF ClaimFails, Fault, OutboxTypeOK
<1>5. ASSUME NEW p \in Process, NEW e \in Event, Publish(p, e) \/ PublishFails(p, e)
      PROVE  OutboxTypeOK'
  <2>1. sent' \in [Event -> Nat]
    BY <1>5, CountedType DEF Publish, PublishFails, OutboxTypeOK
  <2>2. worker' \in [Process -> WorkerState]
    <3>1. /\ [worker[p] EXCEPT !.at = "ack", !.on = e] \in WorkerState
          /\ [worker[p] EXCEPT !.at = "nack", !.on = e] \in WorkerState
      BY DEF OutboxTypeOK, WorkerState
    <3> QED
      BY <1>5, <3>1 DEF Publish, PublishFails, OutboxTypeOK
  <2>3. faults' \in Nat
    BY <1>5 DEF Publish, PublishFails, Fault, OutboxTypeOK
  <2> QED
    BY <1>5, <2>1, <2>2, <2>3 DEF Publish, PublishFails, OutboxTypeOK
<1>6. ASSUME NEW p \in Process, MarkLost(p) PROVE OutboxTypeOK'
  BY <1>6, ProceedType DEF MarkLost, Fault, OutboxTypeOK
<1>7. ASSUME NEW p \in Process, Crash(p) PROVE OutboxTypeOK'
  <2>1. Asleep \in WorkerState
    BY TimeFacts DEF Asleep, WorkerState
  <2> QED
    BY <1>7, <2>1 DEF Crash, Fault, OutboxTypeOK
<1>8. CASE UNCHANGED vars
  BY <1>8 DEF vars, OutboxTypeOK
<1> QED
  BY <1>1, <1>2, <1>3, <1>4, <1>5, <1>6, <1>7, <1>8, MarkType, ElapseType
     DEF Next, Work, Faulty

\* Rows, batches and leases keep their types.
THEOREM OutboxTypeCorrect == Spec => []OutboxTypeOK
BY InitType, NextType, PTL DEF Spec

-----------------------------------------------------------------------------
(* At least once.  A process acknowledges only what it has just published,   *)
(* and what it publishes has a row.                                          *)

Handled ==
  \A p \in Process :
    /\ worker[p].batch \subseteq recorded
    /\ worker[p].at # "round" => worker[p].on \in worker[p].batch
    /\ worker[p].at = "ack" => sent[worker[p].on] > 0

DeliveryInv ==
  /\ OutboxTypeOK
  /\ Handled
  /\ \A e \in Event : row[e].done => sent[e] > 0
  /\ \A e \in Event : sent[e] > 0 => e \in recorded

LEMMA UnrecordedNotDone ==
  ASSUME DeliveryInv, NEW e \in Event \ recorded PROVE ~row[e].done
BY DEF DeliveryInv

\* Publications are counted up, never down.
LEMMA SentGrows ==
  ASSUME OutboxTypeOK, [Next]_vars
  PROVE  \A e \in Event : sent[e] > 0 => sent'[e] > 0
<1>1. \A n \in Nat : Counted(n) > 0
  BY CountedType
<1>2. ASSUME NEW p \in Process, NEW e \in Event, Publish(p, e) \/ PublishFails(p, e)
      PROVE  \A f \in Event : sent[f] > 0 => sent'[f] > 0
  BY <1>1, <1>2 DEF Publish, PublishFails, OutboxTypeOK
<1>3. CASE UNCHANGED sent
  BY <1>3
<1> QED
  BY <1>2, <1>3 DEF Next, Work, Faulty, Record, StartRound, Claim, ClaimFails,
     MarkPublished, MarkFailed, MarkLost, Crash, Tick, SlowRound, Elapse, vars

\* Only MarkPublished makes an event delivered.
LEMMA DoneByMark ==
  ASSUME DeliveryInv, [Next]_vars
  PROVE  \A e \in Event : row'[e].done => row[e].done \/ sent[e] > 0
<1> USE DEF DeliveryInv, OutboxTypeOK
<1>1. ASSUME NEW p \in Process, NEW now, NEW B, Leased(B, p, now)
      PROVE  \A e \in Event : row'[e].done => row[e].done
  BY <1>1 DEF Leased, Row
<1>2. ASSUME NEW p \in Process, MarkPublished(p)
      PROVE  \A e \in Event : row'[e].done => row[e].done \/ sent[e] > 0
  <2>1. worker[p].on \in Event /\ sent[worker[p].on] > 0
    BY <1>2 DEF MarkPublished, Handled
  <2> QED BY <1>2, <2>1 DEF MarkPublished
<1>3. ASSUME NEW p \in Process, NEW now, MarkFailed(p, now)
      PROVE  \A e \in Event : row'[e].done => row[e].done
  BY <1>3 DEF MarkFailed, Free
<1>4. CASE Elapse
  BY <1>4 DEF Elapse, Row
<1>5. CASE UNCHANGED row
  BY <1>5
<1>6. ASSUME NEW e \in Event, Record(e)
      PROVE  \A f \in Event : row'[f].done => row[f].done
  BY <1>6 DEF Record, Free
<1> QED
  BY <1>1, <1>2, <1>3, <1>4, <1>5, <1>6 DEF Next, Work, Faulty, StartRound, Claim,
     ClaimFails, Publish, PublishFails, MarkLost, Crash, Tick, SlowRound, vars

\* Only what is in a batch, hence recorded, is published.
LEMMA SentRecorded ==
  ASSUME DeliveryInv, [Next]_vars
  PROVE  \A e \in Event : sent'[e] > 0 => e \in recorded'
<1> USE DEF DeliveryInv, OutboxTypeOK
<1>1. recorded \subseteq recorded'
  BY DEF Next, Work, Faulty, Record, StartRound, Claim, ClaimFails, Publish,
     PublishFails, MarkPublished, MarkFailed, MarkLost, Crash, Tick, SlowRound,
     Elapse, vars
<1>2. ASSUME NEW p \in Process, NEW e \in Event, Publish(p, e) \/ PublishFails(p, e)
      PROVE  \A f \in Event : sent'[f] > 0 => f \in recorded'
  <2>1. e \in recorded
    BY <1>2 DEF Publish, PublishFails, Ready, Handled
  <2>2. \A f \in Event \ {e} : sent'[f] = sent[f]
    BY <1>2 DEF Publish, PublishFails
  <2> QED BY <1>1, <2>1, <2>2
<1>3. CASE UNCHANGED sent
  BY <1>1, <1>3
<1> QED
  BY <1>2, <1>3 DEF Next, Work, Faulty, Record, StartRound, Claim, ClaimFails,
     MarkPublished, MarkFailed, MarkLost, Crash, Tick, SlowRound, Elapse, vars

LEMMA HandledNext == DeliveryInv /\ [Next]_vars => Handled'
<1> SUFFICES ASSUME DeliveryInv, [Next]_vars PROVE Handled'
  OBVIOUS
<1>0. OutboxTypeOK /\ Handled
  BY DEF DeliveryInv
<1>1. recorded \subseteq recorded'
  BY DEF Next, Work, Faulty, Record, StartRound, Claim, ClaimFails, Publish,
     PublishFails, MarkPublished, MarkFailed, MarkLost, Crash, Tick, SlowRound, Elapse, vars
<1>2. \A e \in Event : sent[e] > 0 => sent'[e] > 0
  BY <1>0, SentGrows
<1>3. \A p \in Process : worker[p].batch \subseteq Event
  BY <1>0 DEF OutboxTypeOK, WorkerState
<1>4. ASSUME NEW p \in Process, NEW q \in Process, worker'[q] = worker[q]
      PROVE  /\ worker'[q].batch \subseteq recorded'
             /\ worker'[q].at # "round" => worker'[q].on \in worker'[q].batch
             /\ worker'[q].at = "ack" => sent'[worker'[q].on] > 0
  BY <1>0, <1>1, <1>2, <1>3, <1>4 DEF Handled
<1>5. ASSUME NEW p \in Process, NEW w \in WorkerState,
             worker' = [worker EXCEPT ![p] = w],
             w.batch \subseteq recorded',
             w.at # "round" => w.on \in w.batch,
             w.at = "ack" => sent'[w.on] > 0
      PROVE  Handled'
  BY <1>0, <1>4, <1>5 DEF Handled, OutboxTypeOK
<1>6. ASSUME NEW p \in Process, StartRound(p) PROVE Handled'
  BY <1>0, <1>1, <1>6 DEF StartRound, Resting, Between, Handled, OutboxTypeOK, WorkerState
<1>7. ASSUME NEW p \in Process, NEW tenant \in Tenant, NEW now, Claim(p, tenant, now)
      PROVE  Handled'
  BY <1>0, <1>1, <1>7, EarliestType DEF Claim, Between, Handled, OutboxTypeOK, WorkerState
<1>8. ASSUME NEW p \in Process, NEW tenant \in Tenant, NEW now, ClaimFails(p, tenant, now)
      PROVE  Handled'
  BY <1>0, <1>1, <1>8 DEF ClaimFails, Between, Handled, OutboxTypeOK, WorkerState
<1>9. ASSUME NEW p \in Process, NEW e \in Event, Publish(p, e)
      PROVE  Handled'
  <2>1. sent'[e] > 0
    BY <1>0, <1>9, CountedType DEF Publish, OutboxTypeOK
  <2> DEFINE w == [worker[p] EXCEPT !.at = "ack", !.on = e]
  <2>2. w \in WorkerState /\ w.batch = worker[p].batch /\ w.on = e
    BY <1>0 DEF OutboxTypeOK, WorkerState
  <2>3. w.batch \subseteq recorded' /\ e \in w.batch
    BY <1>0, <1>1, <1>9, <2>2 DEF Publish, Ready, Handled
  <2>4. worker' = [worker EXCEPT ![p] = w]
    BY <1>9 DEF Publish
  <2> HIDE DEF w
  <2> QED BY <1>5, <2>1, <2>2, <2>3, <2>4
<1>10. ASSUME NEW p \in Process, NEW e \in Event, PublishFails(p, e)
       PROVE  Handled'
  <2> DEFINE w == [worker[p] EXCEPT !.at = "nack", !.on = e]
  <2>1. w \in WorkerState /\ w.batch = worker[p].batch /\ w.on = e /\ w.at = "nack"
    BY <1>0 DEF OutboxTypeOK, WorkerState
  <2>2. w.batch \subseteq recorded' /\ e \in w.batch
    BY <1>0, <1>1, <1>10, <2>1 DEF PublishFails, Ready, Handled
  <2>3. worker' = [worker EXCEPT ![p] = w]
    BY <1>10 DEF PublishFails
  <2> HIDE DEF w
  <2> QED BY <1>5, <2>1, <2>2, <2>3
<1>11. ASSUME NEW p \in Process, Proceed(p) PROVE Handled'
  <2> DEFINE w == [worker[p] EXCEPT !.at = "round", !.on = 0,
                                    !.batch = worker[p].batch \ {worker[p].on}]
  <2>1. w \in WorkerState
    BY <1>0, <1>11, ProceedType DEF Proceed, OutboxTypeOK
  <2>2. w.batch \subseteq worker[p].batch /\ w.at = "round"
    BY <1>0 DEF OutboxTypeOK, WorkerState
  <2>3. w.batch \subseteq recorded'
    BY <1>0, <1>1, <2>2 DEF Handled
  <2>4. worker' = [worker EXCEPT ![p] = w]
    BY <1>11 DEF Proceed
  <2> HIDE DEF w
  <2> QED BY <1>5, <2>1, <2>2, <2>3, <2>4
<1>12. ASSUME NEW p \in Process, Crash(p) PROVE Handled'
  <2>1. Asleep \in WorkerState /\ Asleep.batch = {} /\ Asleep.at = "round"
    BY TimeFacts DEF Asleep, WorkerState
  <2> QED BY <1>5, <1>12, <2>1 DEF Crash
<1>13. CASE Elapse
  BY <1>0, <1>1, <1>2, <1>3, <1>13 DEF Elapse, Handled, OutboxTypeOK, WorkerState
<1>14. CASE UNCHANGED worker
  BY <1>4, <1>14 DEF Handled
<1> QED
  BY <1>6, <1>7, <1>8, <1>9, <1>10, <1>11, <1>12, <1>13, <1>14
     DEF Next, Work, Faulty, Record, MarkPublished, MarkFailed, MarkLost, Tick,
         SlowRound, vars

LEMMA DeliveryNext == DeliveryInv /\ [Next]_vars => DeliveryInv'
<1> SUFFICES ASSUME DeliveryInv, [Next]_vars PROVE DeliveryInv'
  OBVIOUS
<1>1. OutboxTypeOK'
  BY NextType DEF DeliveryInv
<1>2. Handled'
  BY HandledNext
<1>3. \A e \in Event : row'[e].done => sent'[e] > 0
  BY DoneByMark, SentGrows DEF DeliveryInv
<1>4. \A e \in Event : sent'[e] > 0 => e \in recorded'
  BY SentRecorded
<1> QED
  BY <1>1, <1>2, <1>3, <1>4 DEF DeliveryInv

LEMMA DeliveryInit == Init => DeliveryInv
<1> SUFFICES ASSUME Init PROVE DeliveryInv
  OBVIOUS
<1>1. OutboxTypeOK
  BY InitType
<1>2. Handled
  BY DEF Init, Handled, Asleep
<1>3. \A e \in Event : ~row[e].done /\ sent[e] = 0
  BY DEF Init, Free
<1> QED
  BY <1>1, <1>2, <1>3 DEF DeliveryInv

\* What a worker of RunOnce holds was recorded by the outbox, what it is about
\* to acknowledge was given to the broker, and so was every delivered event.
THEOREM DeliveryInvariant == Spec => []DeliveryInv
BY DeliveryInit, DeliveryNext, PTL DEF Spec

\* A step of the workers is a step of Delivery or none.
LEMMA StepSimulation ==
  DeliveryInv /\ [Next]_vars => [Promise!Next]_(Promise!vars)
<1> SUFFICES ASSUME DeliveryInv, [Next]_vars
             PROVE  Promise!Next \/ UNCHANGED <<recorded, Sent, Done>>
  BY DEF Promise!vars
<1> USE DEF DeliveryInv, OutboxTypeOK
<1>1. ASSUME NEW e \in Event, Record(e) PROVE Promise!Next
  <2>1. UNCHANGED Done
    BY <1>1, UnrecordedNotDone DEF Record, Done, Free
  <2> QED
    BY <1>1, <2>1 DEF Record, Promise!Next, Promise!Record, Sent
<1>2. ASSUME NEW p \in Process, NEW now, NEW B, Leased(B, p, now) PROVE UNCHANGED Done
  BY <1>2 DEF Leased, Done, Row
<1>3. ASSUME NEW p \in Process, NEW e \in Event, Publish(p, e) PROVE Promise!Next
  <2>1. Sent' = Sent \cup {e}
    BY <1>3, CountedType DEF Publish, Sent
  <2>2. e \in recorded
    BY <1>3 DEF Publish, Ready, Handled
  <2> QED
    BY <1>3, <2>1, <2>2 DEF Publish, Promise!Next, Promise!Send, Done
<1>4. ASSUME NEW p \in Process, NEW e \in Event, PublishFails(p, e)
      PROVE  Promise!Next \/ UNCHANGED <<recorded, Sent, Done>>
  <2>1. e \in recorded
    BY <1>4 DEF PublishFails, Ready, Handled
  <2>2. CASE sent' = [sent EXCEPT ![e] = Counted(@)]
    <3>1. Sent' = Sent \cup {e}
      BY <2>2, CountedType DEF Sent
    <3> QED
      BY <1>4, <2>1, <3>1 DEF PublishFails, Promise!Next, Promise!Send, Done
  <2>3. CASE sent' = sent
    BY <1>4, <2>3 DEF PublishFails, Sent, Done
  <2> QED
    BY <1>4, <2>2, <2>3 DEF PublishFails
<1>5. ASSUME NEW p \in Process, MarkPublished(p)
      PROVE  Promise!Next \/ UNCHANGED <<recorded, Sent, Done>>
  <2> DEFINE e == worker[p].on
  <2>1. e \in Event /\ e \in Sent
    BY <1>5 DEF MarkPublished, Handled, Sent
  <2>2. CASE Owned(p)
    <3>1. Done' = Done \cup {e}
      <4>1. row' = [row EXCEPT ![e] = Free(row[e].wait, TRUE)]
        BY <1>5, <2>2 DEF MarkPublished
      <4> HIDE DEF e
      <4> QED BY <2>1, <4>1 DEF Done, Free
    <3> QED
      BY <1>5, <2>1, <3>1 DEF MarkPublished, Promise!Next, Promise!Finish, Sent
  <2>3. CASE ~Owned(p)
    BY <1>5, <2>3 DEF MarkPublished, Sent, Done
  <2> QED BY <2>2, <2>3
<1>6. ASSUME NEW p \in Process, NEW now, MarkFailed(p, now)
      PROVE  UNCHANGED <<recorded, Sent, Done>>
  <2> DEFINE e == worker[p].on
  <2>1. e \in Event
    BY <1>6 DEF MarkFailed, Handled
  <2>2. CASE Owned(p)
    <3>1. ~row[e].done /\ row' = [row EXCEPT ![e] = Free(now + RetryDelay, FALSE)]
      BY <1>6, <2>2 DEF MarkFailed, Owned
    <3> HIDE DEF e
    <3>2. Done' = Done
      BY <2>1, <3>1 DEF Done, Free
    <3> QED BY <1>6, <3>2 DEF MarkFailed, Sent
  <2>3. CASE ~Owned(p)
    BY <1>6, <2>3 DEF MarkFailed, Sent, Done
  <2> QED BY <2>2, <2>3
<1>7. CASE Elapse
  BY <1>7 DEF Elapse, Sent, Done, Row
<1>8. ASSUME UNCHANGED <<recorded, sent, row>> PROVE UNCHANGED <<recorded, Sent, Done>>
  BY <1>8 DEF Sent, Done
<1>9. ASSUME UNCHANGED <<recorded, sent>>, UNCHANGED Done
      PROVE  UNCHANGED <<recorded, Sent, Done>>
  BY <1>9 DEF Sent
<1> QED
  BY <1>1, <1>2, <1>3, <1>4, <1>5, <1>6, <1>7, <1>8, <1>9
     DEF Next, Work, Faulty, StartRound, Claim, ClaimFails, MarkLost, Crash, Tick,
         SlowRound, vars

\* The workers deliver at least once: no event is called delivered that the
\* broker was not given, none is given that was not recorded, and a delivered
\* event stays delivered.
THEOREM AtLeastOnce == Spec => DeliverySpec
<1>1. Init => Promise!Init
  BY DEF Init, Promise!Init, Sent, Done, Free
<1> QED
  BY <1>1, DeliveryInvariant, StepSimulation, PTL
     DEF Spec, DeliverySpec, Promise!Spec

-----------------------------------------------------------------------------
(* Leases.  While the lease a process was granted runs on every clock, the    *)
(* rows of its batch are still its own, with just as long to go: so nobody    *)
(* else can claim them, and nobody else's late mark touches them, provided no *)
(* two processes go by one ID.                                                *)

UniqueIDs == \A p, q \in Process : WorkerID[p] = WorkerID[q] => p = q

Held(p, e) ==
  /\ row[e].owner = WorkerID[p]
  /\ row[e].lease = worker[p].lease
  /\ ~row[e].done

HoldsBatch ==
  \A p \in Process : worker[p].lease >= Margin => \A e \in worker[p].batch : Held(p, e)

LeaseInv == OutboxTypeOK /\ Handled /\ HoldsBatch

LEMMA HoldsExclusively ==
  ASSUME UniqueIDs, HoldsBatch PROVE LeaseExclusive
BY DEF UniqueIDs, HoldsBatch, Held, LeaseExclusive

\* What is claimed nobody holds.
LEMMA ClaimedWasFree ==
  ASSUME OutboxTypeOK, HoldsBatch, NEW tenant, NEW r \in Process, NEW now \in Reading[r],
         NEW p \in Process, worker[p].lease >= Margin, NEW e \in worker[p].batch
  PROVE  e \notin Earliest(Claimable(tenant, now))
<1>1. now \in Int /\ now <= Margin /\ Margin \in Nat
  BY ClockAssumption
<1>2. row[e].lease = worker[p].lease /\ worker[p].lease \in Int
  BY TimeFacts DEF OutboxTypeOK, WorkerState, HoldsBatch, Held
<1> QED
  BY <1>1, <1>2 DEF Earliest, Claimable

LEMMA LeasedHolds ==
  ASSUME OutboxTypeOK, HoldsBatch, NEW tenant, NEW p \in Process, NEW now \in Reading[p],
         Leased(Earliest(Claimable(tenant, now)), p, now),
         NEW q \in Process, worker[q].lease >= Margin, NEW e \in worker[q].batch
  PROVE  row'[e] = row[e] /\ Held(q, e)
<1>1. e \notin Earliest(Claimable(tenant, now)) /\ e \in Event
  BY ClaimedWasFree DEF OutboxTypeOK, WorkerState
<1>2. Held(q, e)
  BY DEF HoldsBatch
<1> QED BY <1>1, <1>2 DEF Leased

LEMMA ProceedEffect ==
  ASSUME OutboxTypeOK, NEW p \in Process, Proceed(p)
  PROVE  /\ \A q \in Process \ {p} : worker'[q] = worker[q]
         /\ worker'[p].batch = worker[p].batch \ {worker[p].on}
         /\ worker'[p].lease = worker[p].lease
<1> DEFINE B == worker[p].batch \ {worker[p].on}
           w == [worker[p] EXCEPT !.at = "round", !.on = 0, !.batch = B]
<1>1. worker \in [Process -> WorkerState] /\ worker' = [worker EXCEPT ![p] = w]
  BY DEF OutboxTypeOK, Proceed
<1>2. w.batch = B /\ w.lease = worker[p].lease
  BY <1>1 DEF WorkerState
<1> HIDE DEF w, B
<1>3. /\ worker'[p] = w
      /\ \A q \in Process \ {p} : worker'[q] = worker[q]
  BY <1>1
<1> QED BY <1>2, <1>3 DEF B

\* A mark touches no row that another process holds.
LEMMA MarkSpares ==
  ASSUME UniqueIDs, LeaseInv, NEW p \in Process, NEW now,
         MarkPublished(p) \/ MarkFailed(p, now),
         NEW q \in Process, worker'[q].lease >= Margin, NEW e \in worker'[q].batch
  PROVE  /\ row'[e] = row[e] /\ Held(q, e) /\ worker'[q].lease = worker[q].lease
<1> USE DEF LeaseInv, OutboxTypeOK
<1>1. /\ worker'[q].batch \subseteq worker[q].batch
      /\ worker'[q].lease = worker[q].lease
      /\ p = q => e # worker[p].on
  BY ProceedEffect DEF MarkPublished, MarkFailed
<1>2. Held(q, e)
  BY <1>1 DEF HoldsBatch
<1>3. CASE Owned(p)
  <2>1. e # worker[p].on
    BY <1>1, <1>2, <1>3 DEF Owned, Held, UniqueIDs
  <2> DEFINE f == worker[p].on
  <2>2. \/ row' = [row EXCEPT ![f] = Free(row[f].wait, TRUE)]
        \/ row' = [row EXCEPT ![f] = Free(now + RetryDelay, FALSE)]
    BY <1>3 DEF MarkPublished, MarkFailed
  <2>3. e \in Event
    BY <1>1 DEF WorkerState
  <2> HIDE DEF f
  <2>4. row'[e] = row[e]
    BY <2>1, <2>2, <2>3 DEF f
  <2> QED
    BY <1>1, <1>2, <2>4
<1>4. CASE ~Owned(p)
  BY <1>1, <1>2, <1>4 DEF MarkPublished, MarkFailed
<1> QED BY <1>3, <1>4

LEMMA HoldsNext ==
  ASSUME UniqueIDs, LeaseInv, [Next]_vars
  PROVE  HoldsBatch'
<1> USE DEF LeaseInv, OutboxTypeOK
<1>1. ASSUME NEW p \in Process, NEW tenant \in Tenant, NEW now \in Reading[p],
             Claim(p, tenant, now)
      PROVE  HoldsBatch'
  <2> DEFINE B == Earliest(Claimable(tenant, now))
  <2>1. Leased(B, p, now) /\ B \subseteq Event /\ (\A e \in B : ~row[e].done)
    BY <1>1, EarliestType DEF Claim, Earliest, Claimable
  <2>2. /\ worker'[p].batch = B /\ (B # {} => worker'[p].lease = now + Lease)
        /\ \A q \in Process \ {p} : worker'[q] = worker[q]
    BY <1>1 DEF Claim, WorkerState
  <2>3. \A e \in B : Held(p, e)'
    BY <2>1, <2>2 DEF Leased, Held, Row
  <2>4. ASSUME NEW q \in Process \ {p}, worker'[q].lease >= Margin, NEW e \in worker'[q].batch
        PROVE  Held(q, e)'
    <3>1. worker'[q] = worker[q]
      BY <2>2
    <3>2. row'[e] = row[e] /\ Held(q, e)
      BY <2>1, <2>4, <3>1, LeasedHolds
    <3> QED BY <3>1, <3>2 DEF Held
  <2> QED
    BY <2>2, <2>3, <2>4 DEF HoldsBatch
<1>2. ASSUME NEW p \in Process, NEW tenant \in Tenant, NEW now \in Reading[p],
             ClaimFails(p, tenant, now)
      PROVE  HoldsBatch'
  <2>1. \A q \in Process : /\ worker'[q].batch = worker[q].batch
                           /\ worker'[q].lease = worker[q].lease
    BY <1>2 DEF ClaimFails, WorkerState
  <2>2. CASE Leased(Earliest(Claimable(tenant, now)), p, now)
    <3>1. ASSUME NEW q \in Process, worker'[q].lease >= Margin, NEW e \in worker'[q].batch
          PROVE  Held(q, e)'
      <4>1. row'[e] = row[e] /\ Held(q, e)
        BY <2>1, <2>2, <3>1, LeasedHolds
      <4> QED BY <2>1, <4>1 DEF Held
    <3> QED BY <3>1 DEF HoldsBatch
  <2>3. CASE UNCHANGED row
    BY <2>1, <2>3 DEF HoldsBatch, Held
  <2> QED BY <1>2, <2>2, <2>3 DEF ClaimFails
<1>3. ASSUME NEW p \in Process, NEW now, MarkPublished(p) \/ MarkFailed(p, now)
      PROVE  HoldsBatch'
  BY <1>3, MarkSpares DEF HoldsBatch, Held
<1>4. ASSUME UNCHANGED row,
             \A q \in Process : /\ worker'[q].batch \subseteq worker[q].batch
                               /\ \/ worker'[q].lease = worker[q].lease
                                  \/ worker'[q].batch = {}
      PROVE  HoldsBatch'
  BY <1>4 DEF HoldsBatch, Held
<1>5. ASSUME NEW p \in Process, StartRound(p) \/ MarkLost(p) \/ Crash(p)
      PROVE  HoldsBatch'
  <2>1. CASE StartRound(p)
    <3> DEFINE w == [worker[p] EXCEPT !.tenants = Tenant, !.due = FALSE]
    <3>1. w.batch = worker[p].batch /\ w.lease = worker[p].lease
      BY DEF WorkerState
    <3>2. worker' = [worker EXCEPT ![p] = w] /\ UNCHANGED row
      BY <2>1 DEF StartRound
    <3> HIDE DEF w
    <3> QED BY <1>4, <3>1, <3>2
  <2>2. CASE MarkLost(p)
    BY <1>4, <2>2, ProceedEffect DEF MarkLost
  <2>3. CASE Crash(p)
    <3>1. worker' = [worker EXCEPT ![p] = Asleep] /\ UNCHANGED row
      BY <2>3 DEF Crash
    <3>2. Asleep.batch = {}
      BY DEF Asleep
    <3> QED BY <1>4, <3>1, <3>2
  <2> QED BY <1>5, <2>1, <2>2, <2>3
<1>6. ASSUME NEW p \in Process, NEW e \in Event, Publish(p, e) \/ PublishFails(p, e)
      PROVE  HoldsBatch'
  <2>1. ASSUME NEW w, w.batch = worker[p].batch, w.lease = worker[p].lease,
               worker' = [worker EXCEPT ![p] = w], UNCHANGED row
        PROVE  HoldsBatch'
    BY <1>4, <2>1
  <2>2. /\ [worker[p] EXCEPT !.at = "ack", !.on = e].batch = worker[p].batch
        /\ [worker[p] EXCEPT !.at = "ack", !.on = e].lease = worker[p].lease
        /\ [worker[p] EXCEPT !.at = "nack", !.on = e].batch = worker[p].batch
        /\ [worker[p] EXCEPT !.at = "nack", !.on = e].lease = worker[p].lease
    BY DEF WorkerState
  <2>3. CASE Publish(p, e)
    BY <2>1, <2>2, <2>3 DEF Publish
  <2>4. CASE PublishFails(p, e)
    BY <2>1, <2>2, <2>4 DEF PublishFails
  <2> QED BY <1>6, <2>3, <2>4
<1>7. CASE Elapse
  <2>1. ASSUME NEW q \in Process, worker'[q].lease >= Margin, NEW e \in worker'[q].batch
        PROVE  Held(q, e)'
    <3>1. /\ worker'[q].batch = worker[q].batch
          /\ worker'[q].lease = Down(worker[q].lease, Expired) /\ worker[q].lease \in Int
      BY <1>7, TimeFacts DEF Elapse, WorkerState
    <3>2. e \in Event /\ row[e] \in Row
      BY <3>1 DEF WorkerState
    <3>3. /\ row'[e].owner = row[e].owner /\ row'[e].done = row[e].done
          /\ row'[e].lease = Down(row[e].lease, Expired)
      BY <1>7, <3>2 DEF Elapse, Row
    <3>4. worker[q].lease >= Margin
      BY <2>1, <3>1, ClockAssumption DEF Down, Expired
    <3>5. Held(q, e)
      BY <3>1, <3>4 DEF HoldsBatch
    <3> QED BY <3>1, <3>3, <3>5 DEF Held
  <2> QED BY <2>1 DEF HoldsBatch
<1>8. CASE UNCHANGED <<row, worker>>
  BY <1>4, <1>8
<1>9. ASSUME NEW e \in Event, Record(e)
      PROVE  HoldsBatch'
  <2>1. \A q \in Process : e \notin worker[q].batch
    BY <1>9 DEF Record, Handled
  <2>2. \A f \in Event \ {e} : row'[f] = row[f]
    BY <1>9 DEF Record
  <2>3. UNCHANGED worker /\ \A q \in Process : worker[q].batch \subseteq Event
    BY <1>9 DEF Record, WorkerState
  <2> QED BY <2>1, <2>2, <2>3 DEF HoldsBatch, Held
<1> QED
  BY <1>1, <1>2, <1>3, <1>5, <1>6, <1>7, <1>8, <1>9
     DEF Next, Work, Faulty, Tick, SlowRound, vars

\* With an ID of its own each, no two processes ever work on one event inside
\* their leases, as long as these exceed what the clocks may be off by.
THEOREM SafeLeases == UniqueIDs /\ Spec => []LeaseExclusive
<1> SUFFICES ASSUME UniqueIDs PROVE Spec => []LeaseExclusive
  OBVIOUS
<1>1. Init => HoldsBatch
  BY DEF Init, Asleep, HoldsBatch
<1>2. DeliveryInv /\ HoldsBatch /\ [Next]_vars => HoldsBatch'
  BY HoldsNext DEF DeliveryInv, LeaseInv
<1>3. HoldsBatch => LeaseExclusive
  BY HoldsExclusively
<1> QED
  BY <1>1, <1>2, <1>3, DeliveryInvariant, PTL DEF Spec

-----------------------------------------------------------------------------
(* Delivered events *)

DoneIsFree == \A e \in Event : row[e].done => row[e].owner = NoWorker

\* Claims leave delivered events alone, and so do the marks of other events'
\* processes.
LEMMA FinalStep ==
  DeliveryInv /\ DoneIsFree /\ [Next]_vars => DoneIsFree' /\ [Final]_vars
<1> SUFFICES ASSUME DeliveryInv, DoneIsFree, [Next]_vars
             PROVE  DoneIsFree' /\ Final
  OBVIOUS
<1> USE DEF DeliveryInv, OutboxTypeOK, Final, DoneIsFree
<1>1. ASSUME NEW p \in Process, NEW tenant, NEW now,
             Leased(Earliest(Claimable(tenant, now)), p, now)
      PROVE  DoneIsFree' /\ Final
  <2>1. \A e \in Earliest(Claimable(tenant, now)) : ~row[e].done
    BY DEF Earliest, Claimable
  <2> QED BY <1>1, <2>1 DEF Leased, Row
<1>2. ASSUME NEW p \in Process, NEW now, MarkPublished(p) \/ MarkFailed(p, now)
      PROVE  DoneIsFree' /\ Final
  <2> DEFINE f == worker[p].on
  <2>1. CASE Owned(p)
    <3>1. /\ ~row[f].done
          /\ \/ row' = [row EXCEPT ![f] = Free(row[f].wait, TRUE)]
             \/ row' = [row EXCEPT ![f] = Free(now + RetryDelay, FALSE)]
      BY <1>2, <2>1 DEF MarkPublished, MarkFailed, Owned
    <3> HIDE DEF f
    <3> QED BY <3>1 DEF Free
  <2>2. CASE ~Owned(p)
    BY <1>2, <2>2 DEF MarkPublished, MarkFailed
  <2> QED BY <2>1, <2>2
<1>3. CASE Elapse
  BY <1>3 DEF Elapse, Row
<1>4. CASE UNCHANGED row
  BY <1>4
<1>5. ASSUME NEW e \in Event, Record(e) PROVE DoneIsFree' /\ Final
  BY <1>5, UnrecordedNotDone DEF Record, Free
<1> QED
  BY <1>1, <1>2, <1>3, <1>4, <1>5 DEF Next, Work, Faulty, StartRound, Claim,
     ClaimFails, Publish, PublishFails, MarkLost, Crash, Tick, SlowRound, vars

\* A delivered event is never claimed, put off or reopened again.
THEOREM DeliveredForGood == Spec => DoneIsFinal
<1>1. Init => DoneIsFree
  BY DEF Init, DoneIsFree, Free
<1>2. DeliveryInv /\ DoneIsFree /\ [Next]_vars => DoneIsFree' /\ [Final]_vars
  BY FinalStep
<1> QED
  BY <1>1, <1>2, DeliveryInvariant, PTL DEF Spec, DoneIsFinal
-----------------------------------------------------------------------------
(* What is published was claimed.  Each claim of an event lets one process    *)
(* publish it once; the processes that still may are counted with the         *)
(* publications, because a mark that is late or lost, a crash or a lost       *)
(* answer leaves several processes with one event.                            *)

\* The processes that hold e and have not published it since they claimed it.
Owing(e) ==
  {p \in Process : /\ e \in worker[p].batch
                   /\ worker[p].at = "round" \/ worker[p].on # e}

\* n publications and those still owing are within m claims, as far as claims
\* are counted.
Covered(n, m, S) ==
  /\ n <= MaxCount /\ m <= MaxCount /\ IsFiniteSet(S)
  /\ m = MaxCount \/ n + Cardinality(S) <= m

ClaimsCover == \A e \in Event : Covered(sent[e], attempts[e], Owing(e))

LEMMA FewerOwe ==
  ASSUME NEW n \in Nat, NEW m \in Nat, NEW S, Covered(n, m, S),
         NEW T \in SUBSET S, NEW k \in Nat, m <= k, k <= MaxCount
  PROVE  Covered(n, k, T)
<1>1. IsFiniteSet(T) /\ Cardinality(T) <= Cardinality(S)
  BY FS_Subset DEF Covered
<1>2. Cardinality(T) \in Nat /\ Cardinality(S) \in Nat /\ MaxCount \in Nat
  BY <1>1, FS_CardinalityType, ConfigAssumption DEF Covered
<1> QED BY <1>1, <1>2 DEF Covered

LEMMA OneMoreOwes ==
  ASSUME NEW n \in Nat, NEW m \in Nat, NEW S, Covered(n, m, S), NEW p,
         NEW T \in SUBSET (S \cup {p})
  PROVE  Covered(n, Counted(m), T)
<1>1. IsFiniteSet(S \cup {p}) /\ Cardinality(S \cup {p}) <= Cardinality(S) + 1
  <2>1. IsFiniteSet(S) /\ Cardinality(S) \in Nat
    BY FS_CardinalityType DEF Covered
  <2>2. /\ IsFiniteSet(S \cup {p})
        /\ \/ Cardinality(S \cup {p}) = Cardinality(S)
           \/ Cardinality(S \cup {p}) = Cardinality(S) + 1
    BY <2>1, FS_AddElement
  <2> QED BY <2>1, <2>2
<1>2. IsFiniteSet(T) /\ Cardinality(T) <= Cardinality(S \cup {p})
  BY <1>1, FS_Subset
<1>3. /\ Cardinality(T) \in Nat /\ Cardinality(S) \in Nat /\ MaxCount \in Nat
      /\ Cardinality(S \cup {p}) \in Nat
  BY <1>1, <1>2, FS_CardinalityType, ConfigAssumption DEF Covered
<1> QED BY <1>1, <1>2, <1>3 DEF Covered, Counted

LEMMA OnePublishes ==
  ASSUME NEW n \in Nat, NEW m \in Nat, NEW S, Covered(n, m, S), NEW p \in S,
         NEW T \in SUBSET (S \ {p})
  PROVE  Covered(Counted(n), m, T) /\ Covered(n, m, T)
<1>1. IsFiniteSet(S \ {p}) /\ Cardinality(S \ {p}) = Cardinality(S) - 1
  BY FS_RemoveElement DEF Covered
<1>2. IsFiniteSet(T) /\ Cardinality(T) <= Cardinality(S \ {p})
  BY <1>1, FS_Subset
<1>3. /\ Cardinality(T) \in Nat /\ Cardinality(S) \in Nat /\ MaxCount \in Nat
      /\ Cardinality(S \ {p}) \in Nat
  BY <1>1, <1>2, FS_CardinalityType, ConfigAssumption DEF Covered
<1> QED BY <1>1, <1>2, <1>3 DEF Covered, Counted

\* Counting never lowers a count, nor takes it past its bound.
LEMMA CountedBound ==
  ASSUME NEW n \in Nat, n <= MaxCount
  PROVE  n <= Counted(n) /\ Counted(n) <= MaxCount
BY ConfigAssumption DEF Counted

\* What leaves the books as they are and makes no process owe is a safe step.
LEMMA OwingShrinks ==
  ASSUME OutboxTypeOK, OutboxTypeOK', ClaimsCover, UNCHANGED sent,
         \A e \in Event : /\ Owing(e)' \subseteq Owing(e)
                          /\ attempts[e] <= attempts'[e] /\ attempts'[e] <= MaxCount
  PROVE  ClaimsCover'
<1> SUFFICES ASSUME NEW e \in Event PROVE Covered(sent'[e], attempts'[e], Owing(e)')
  BY DEF ClaimsCover
<1>1. sent[e] \in Nat /\ attempts[e] \in Nat /\ attempts'[e] \in Nat
  BY DEF OutboxTypeOK
<1>2. Covered(sent[e], attempts[e], Owing(e))
  BY DEF ClaimsCover
<1>3. Covered(sent[e], attempts'[e], Owing(e)')
  BY <1>1, <1>2, FewerOwe
<1> QED BY <1>3

\* One process's worker changes: only what it owes may.
LEMMA OwingOf ==
  ASSUME NEW p \in Process, \A q \in Process \ {p} : worker'[q] = worker[q], NEW e
  PROVE  /\ Owing(e)' \subseteq Owing(e) \cup {p}
         /\ (p \in Owing(e)' => p \in Owing(e)) => Owing(e)' \subseteq Owing(e)
         /\ p \notin Owing(e)' => Owing(e)' \subseteq Owing(e) \ {p}
BY DEF Owing

LEMMA LeasedCounts ==
  ASSUME OutboxTypeOK, ClaimsCover, NEW p, NEW now, NEW B, Leased(B, p, now), NEW e \in Event
  PROVE  /\ attempts'[e] = IF e \in B THEN Counted(attempts[e]) ELSE attempts[e]
         /\ attempts[e] <= attempts'[e] /\ attempts'[e] <= MaxCount
<1>1. attempts'[e] = IF e \in B THEN Counted(attempts[e]) ELSE attempts[e]
  BY DEF Leased
<1>2. attempts[e] \in Nat /\ attempts[e] <= MaxCount
  BY DEF OutboxTypeOK, ClaimsCover, Covered
<1> QED BY <1>1, <1>2, CountedBound

LEMMA PublicationPaid ==
  ASSUME OutboxTypeOK, ClaimsCover, UNCHANGED attempts, NEW p \in Process, NEW e \in Event,
         Ready(p, e), NEW w, w.batch = worker[p].batch, w.at # "round", w.on = e,
         worker' = [worker EXCEPT ![p] = w],
         sent' \in {sent, [sent EXCEPT ![e] = Counted(@)]}
  PROVE  ClaimsCover'
<1>1. worker'[p] = w /\ \A q \in Process \ {p} : worker'[q] = worker[q]
  BY DEF OutboxTypeOK
<1>2. p \in Owing(e) /\ p \notin Owing(e)'
  BY <1>1 DEF Owing, Ready
<1>3. ASSUME NEW f \in Event PROVE Covered(sent'[f], attempts'[f], Owing(f)')
  <2>1. sent[f] \in Nat /\ attempts[f] \in Nat /\ Covered(sent[f], attempts[f], Owing(f))
    BY DEF OutboxTypeOK, ClaimsCover
  <2>2. CASE f = e
    <3>1. Owing(e)' \subseteq Owing(e) \ {p}
      BY <1>1, <1>2, OwingOf
    <3>2. Covered(Counted(sent[e]), attempts[e], Owing(e)') /\ Covered(sent[e], attempts[e], Owing(e)')
      BY <1>2, <2>1, <2>2, <3>1, OnePublishes
    <3> QED BY <2>2, <3>2 DEF OutboxTypeOK
  <2>3. CASE f # e
    <3>1. p \in Owing(f)' => p \in Owing(f)
      BY <1>1 DEF Owing, Ready
    <3>2. Owing(f)' \subseteq Owing(f)
      BY <1>1, <3>1, OwingOf
    <3>3. sent'[f] = sent[f]
      BY <2>3 DEF OutboxTypeOK
    <3>4. attempts[f] <= attempts[f] /\ attempts[f] <= MaxCount
      BY <2>1 DEF Covered
    <3>5. Covered(sent[f], attempts[f], Owing(f)')
      BY <2>1, <3>2, <3>4, FewerOwe
    <3> QED BY <3>3, <3>5
  <2> QED BY <2>2, <2>3
<1> QED BY <1>3 DEF ClaimsCover

LEMMA ClaimsCoverNext ==
  DeliveryInv /\ ClaimsCover /\ [Next]_vars => ClaimsCover'
<1> SUFFICES ASSUME DeliveryInv, ClaimsCover, [Next]_vars PROVE ClaimsCover'
  OBVIOUS
<1>0. OutboxTypeOK /\ OutboxTypeOK' /\ Handled
  BY NextType DEF DeliveryInv
<1>1. \A e \in Event : attempts[e] \in Nat /\ attempts[e] <= MaxCount
  BY <1>0 DEF OutboxTypeOK, ClaimsCover, Covered
\* No claim and no publication: nobody owes who did not.
<1>2. ASSUME UNCHANGED <<attempts, sent>>, \A e \in Event : Owing(e)' \subseteq Owing(e)
      PROVE  ClaimsCover'
  BY <1>0, <1>1, <1>2, OwingShrinks
<1>3. ASSUME UNCHANGED <<attempts, sent>>, NEW p \in Process,
             \A q \in Process \ {p} : worker'[q] = worker[q],
             \A e \in Event : p \in Owing(e)' => p \in Owing(e)
      PROVE  ClaimsCover'
  BY <1>2, <1>3, OwingOf
<1>4. ASSUME NEW e \in Event, Record(e) PROVE ClaimsCover'
  BY <1>2, <1>4 DEF Record, Owing
<1>5. ASSUME NEW p \in Process, StartRound(p) PROVE ClaimsCover'
  <2>1. worker'[p].batch = {} /\ \A q \in Process \ {p} : worker'[q] = worker[q]
    BY <1>0, <1>5 DEF StartRound, Resting, Between, OutboxTypeOK, WorkerState
  <2> QED BY <1>3, <1>5, <2>1 DEF StartRound, Owing
<1>6. ASSUME NEW p \in Process, NEW tenant \in Tenant, NEW now, Claim(p, tenant, now)
      PROVE  ClaimsCover'
  <2> DEFINE B == Earliest(Claimable(tenant, now))
  <2>1. Leased(B, p, now) /\ UNCHANGED sent
    BY <1>6 DEF Claim
  <2>2. worker'[p].batch = B /\ \A q \in Process \ {p} : worker'[q] = worker[q]
    <3> DEFINE T == worker[p].tenants \ {tenant}
               until == IF B = {} THEN Expired ELSE now + Lease
    <3>1. /\ worker \in [Process -> WorkerState]
          /\ worker' = [worker EXCEPT ![p] =
                          [worker[p] EXCEPT !.tenants = T, !.batch = B, !.lease = until]]
      BY <1>0, <1>6 DEF Claim, OutboxTypeOK
    <3> HIDE DEF T, until, B
    <3> QED BY <3>1 DEF WorkerState
  <2> HIDE DEF B
  <2>3. ASSUME NEW e \in Event PROVE Covered(sent[e], attempts'[e], Owing(e)')
    <3>1. /\ sent[e] \in Nat /\ attempts[e] \in Nat /\ attempts'[e] \in Nat
          /\ Covered(sent[e], attempts[e], Owing(e))
      BY <1>0 DEF OutboxTypeOK, ClaimsCover
    <3>2. CASE e \in B
      <4>1. Owing(e)' \subseteq Owing(e) \cup {p} /\ attempts'[e] = Counted(attempts[e])
        BY <1>0, <2>1, <2>2, <3>2, OwingOf, LeasedCounts
      <4> QED BY <3>1, <4>1, OneMoreOwes
    <3>3. CASE e \notin B
      <4>1. p \notin Owing(e)'
        BY <2>2, <3>3 DEF Owing
      <4>2. Owing(e)' \subseteq Owing(e)
        BY <2>2, <4>1, OwingOf
      <4>3. attempts[e] <= attempts'[e] /\ attempts'[e] <= MaxCount
        BY <1>0, <2>1, LeasedCounts
      <4> QED BY <3>1, <4>2, <4>3, FewerOwe
    <3> QED BY <3>2, <3>3
  <2> QED BY <2>1, <2>3 DEF ClaimsCover
<1>7. ASSUME NEW p \in Process, NEW tenant \in Tenant, NEW now, ClaimFails(p, tenant, now)
      PROVE  ClaimsCover'
  <2>1. \A q \in Process : /\ worker'[q].batch = worker[q].batch
                           /\ worker'[q].at = worker[q].at /\ worker'[q].on = worker[q].on
    BY <1>0, <1>7 DEF ClaimFails, OutboxTypeOK, WorkerState
  <2>2. \A e \in Event : Owing(e)' \subseteq Owing(e)
    BY <2>1 DEF Owing
  <2>3. \A e \in Event : attempts[e] <= attempts'[e] /\ attempts'[e] <= MaxCount
    <3>1. CASE Leased(Earliest(Claimable(tenant, now)), p, now)
      BY <1>0, <3>1, LeasedCounts
    <3>2. CASE UNCHANGED attempts
      BY <1>1, <3>2
    <3> QED BY <1>7, <3>1, <3>2 DEF ClaimFails
  <2>4. UNCHANGED sent
    BY <1>7 DEF ClaimFails
  <2> QED BY <1>0, <2>2, <2>3, <2>4, OwingShrinks
<1>8. ASSUME NEW p \in Process, NEW e \in Event, Publish(p, e) PROVE ClaimsCover'
  <2> DEFINE w == [worker[p] EXCEPT !.at = "ack", !.on = e]
  <2>1. w.batch = worker[p].batch /\ w.at # "round" /\ w.on = e
    BY <1>0 DEF OutboxTypeOK, WorkerState
  <2>2. worker' = [worker EXCEPT ![p] = w]
    BY <1>8 DEF Publish
  <2> HIDE DEF w
  <2> QED BY <1>0, <1>8, <2>1, <2>2, PublicationPaid DEF Publish
<1>9. ASSUME NEW p \in Process, NEW e \in Event, PublishFails(p, e) PROVE ClaimsCover'
  <2> DEFINE w == [worker[p] EXCEPT !.at = "nack", !.on = e]
  <2>1. w.batch = worker[p].batch /\ w.at # "round" /\ w.on = e
    BY <1>0 DEF OutboxTypeOK, WorkerState
  <2>2. worker' = [worker EXCEPT ![p] = w]
    BY <1>9 DEF PublishFails
  <2>3. sent' \in {sent, [sent EXCEPT ![e] = Counted(@)]}
    BY <1>9 DEF PublishFails
  <2> HIDE DEF w
  <2> QED BY <1>0, <1>9, <2>1, <2>2, <2>3, PublicationPaid DEF PublishFails
<1>10. ASSUME NEW p \in Process, Proceed(p), worker[p].at # "round",
              UNCHANGED <<attempts, sent>>
       PROVE  ClaimsCover'
  <2>1. /\ \A q \in Process \ {p} : worker'[q] = worker[q]
        /\ worker'[p].batch = worker[p].batch \ {worker[p].on}
    BY <1>0, <1>10, ProceedEffect
  <2>2. \A e \in Event : p \in Owing(e)' => p \in Owing(e)
    BY <2>1 DEF Owing
  <2> QED BY <1>3, <1>10, <2>1, <2>2
<1>11. ASSUME NEW p \in Process, Crash(p) PROVE ClaimsCover'
  <2>1. worker'[p].batch = {} /\ \A q \in Process \ {p} : worker'[q] = worker[q]
    BY <1>0, <1>11 DEF Crash, Asleep, OutboxTypeOK
  <2> QED BY <1>3, <1>11, <2>1 DEF Crash, Owing
<1>12. CASE Elapse
  <2>1. \A q \in Process : /\ worker'[q].batch = worker[q].batch
                           /\ worker'[q].at = worker[q].at /\ worker'[q].on = worker[q].on
    <3> TAKE q \in Process
    <3>1. worker[q] \in WorkerState
      BY <1>0 DEF OutboxTypeOK
    <3>2. worker'[q] = [worker[q] EXCEPT !.lease = Down(worker[q].lease, Expired),
                                         !.due = TRUE]
      BY <1>12 DEF Elapse
    <3> QED BY <3>1, <3>2 DEF WorkerState
  <2> QED BY <1>2, <1>12, <2>1 DEF Elapse, Owing
<1>13. CASE UNCHANGED vars
  BY <1>2, <1>13 DEF vars, Owing
<1> QED
  BY <1>4, <1>5, <1>6, <1>7, <1>8, <1>9, <1>10, <1>11, <1>12, <1>13
     DEF Next, Work, Faulty, MarkPublished, MarkFailed, MarkLost, Tick, SlowRound

\* No event is given to the broker more often than it was claimed: one lease
\* publishes its event at most once, whatever crashes, lost answers, late marks
\* and clocks do.
THEOREM PaidPublications == Spec => []OneSendPerClaim
<1>1. Init => ClaimsCover
  <2> SUFFICES ASSUME Init, NEW e \in Event PROVE Covered(sent[e], attempts[e], Owing(e))
    BY DEF ClaimsCover
  <2>1. Owing(e) = {} /\ sent[e] = 0 /\ attempts[e] = 0
    BY DEF Init, Owing, Asleep
  <2> QED BY <2>1, FS_EmptySet, ConfigAssumption DEF Covered
<1>2. DeliveryInv /\ ClaimsCover => OneSendPerClaim
  <2> SUFFICES ASSUME DeliveryInv, ClaimsCover, NEW e \in Event PROVE sent[e] <= attempts[e]
    BY DEF OneSendPerClaim
  <2>1. sent[e] \in Nat /\ attempts[e] \in Nat /\ Covered(sent[e], attempts[e], Owing(e))
    BY DEF DeliveryInv, OutboxTypeOK, ClaimsCover
  <2>2. Cardinality(Owing(e)) \in Nat
    BY <2>1, FS_CardinalityType DEF Covered
  <2> QED BY <2>1, <2>2 DEF Covered
<1> QED
  BY <1>1, <1>2, ClaimsCoverNext, DeliveryInvariant, PTL DEF Spec
=============================================================================
