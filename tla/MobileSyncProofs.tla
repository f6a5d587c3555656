-------------------------- MODULE MobileSyncProofs --------------------------
(***************************************************************************)
(* Sales on the device, for any number of sales, of New Sale pages and of  *)
(* faults: whatever is shown or stored of a sale is backed by the server   *)
(* or by what the device keeps, however the pages' completions, the        *)
(* synchronization loop, failures and restarts fall between one another's  *)
(* awaits.                                                                 *)
(***************************************************************************)
EXTENDS MobileSync, FiniteSetTheorems, WellFoundedInduction, SequenceTheorems, TLAPS

USE DEF At

-----------------------------------------------------------------------------
(* What a handler may rely on at each await.  Another handler may work on     *)
(* the same sale meanwhile, so each part is something no handler takes away:  *)
(* rows stay stored, results stay, the server's postings stay, and a command  *)
(* leaves the queue only when its result is kept.                             *)

InSync == {"lookup", "submit", "keep", "replace", "dequeue", "review"}

AfterSave == InSync \cup {"park", "enqueue", "return", "forget", "unlist"}

JobInv(h) ==
  /\ ~At(h, "idle") => job[h].sale \in Sale
  /\ job[h].at \in AfterSave =>
       job[h].status \in Status /\ stored[job[h].sale] # "none"
  /\ job[h].at \in {"save", "park"} => job[h].status \in {"syncing", "pendingSync"}
  /\ job[h].at \in InSync => job[h].sale \in queue \cup results
  /\ job[h].at \in {"replace", "dequeue"} => job[h].sale \in results
  /\ At(h, "keep") => job[h].sale \in posted
  /\ At(h, "dequeue") => job[h].status = "synced"
  /\ At(h, "return") /\ job[h].status = "synced" => job[h].sale \in posted

JobsInv == \A h \in Handler : JobInv(h)

\* A row of the sales list is stored, and says synced only of what is posted.
RowOK(row) ==
  /\ row \in Row
  /\ stored[row.id] # "none"
  /\ row.status = "synced" => row.id \in posted

RowsOK(rows) == rows \in Seq(Row) /\ \A i \in DOMAIN rows : RowOK(rows[i])

DiskInv ==
  /\ results \subseteq posted
  /\ \A s \in Sale : stored[s] = "synced" => s \in posted
  /\ \A s \in posted : stored[s] # "none"
  /\ \A s \in Sale : stored[s] = "requiresReview" => s \in queue \cup results

MobileInv ==
  MobileTypeOK /\ IsFiniteSet(Stored) /\ JobsInv /\ RowsOK(listed) /\ DiskInv

LEMMA InvSaysSo == MobileInv => SyncedIsPosted /\ EvidenceKept
BY DEF MobileInv, RowsOK, RowOK, DiskInv, SyncedIsPosted, EvidenceKept

-----------------------------------------------------------------------------
(* Steps in general *)

LEMMA Jobs ==
  ASSUME MobileTypeOK
  PROVE  /\ job \in [Handler -> Job]
         /\ \A h \in Handler : /\ job[h].at \in Await /\ job[h].sale \in Sale \cup {0}
                               /\ job[h].status \in Status \cup {"none"}
                               /\ job[h].index \in Nat
BY DEF MobileTypeOK, Job

\* Handler h alone goes on, to w.
Moves(h, w) == job' = [job EXCEPT ![h] = w]

LEMMA MovesType ==
  ASSUME MobileTypeOK, NEW h \in Handler, NEW w \in Job, Moves(h, w)
  PROVE  /\ job' \in [Handler -> Job] /\ job'[h] = w
         /\ \A q \in Handler \ {h} : job'[q] = job[q]
BY Jobs DEF Moves

LEMMA GotoEffect ==
  ASSUME MobileTypeOK, NEW h \in Handler, NEW at \in Await, Goto(h, at)
  PROVE  /\ job' \in [Handler -> Job]
         /\ \A q \in Handler \ {h} : job'[q] = job[q]
         /\ job'[h].at = at /\ job'[h].sale = job[h].sale
         /\ job'[h].status = job[h].status
<1> DEFINE w == [job[h] EXCEPT !.at = at]
<1>1. /\ w \in Job /\ w.at = at /\ w.sale = job[h].sale /\ w.status = job[h].status
  BY Jobs DEF Job
<1>2. Moves(h, w)
  BY DEF Goto, Moves
<1> HIDE DEF w
<1> QED BY <1>1, <1>2, MovesType

LEMMA GotoAsEffect ==
  ASSUME MobileTypeOK, NEW h \in Handler, NEW at \in Await, NEW status \in Status,
         GotoAs(h, at, status)
  PROVE  /\ job' \in [Handler -> Job]
         /\ \A q \in Handler \ {h} : job'[q] = job[q]
         /\ job'[h].at = at /\ job'[h].sale = job[h].sale
         /\ job'[h].status = status
<1> DEFINE w == [job[h] EXCEPT !.at = at, !.status = status]
<1>1. w \in Job /\ w.at = at /\ w.sale = job[h].sale /\ w.status = status
  BY Jobs DEF Job
<1>2. Moves(h, w)
  BY DEF GotoAs, Moves
<1> HIDE DEF w
<1> QED BY <1>1, <1>2, MovesType

LEMMA IdleType == Idle \in Job /\ Idle.at = "idle"
BY DEF Idle, Job, Await

\* What no step takes away.
Grows ==
  /\ \A s \in Sale : stored[s] # "none" => stored'[s] # "none"
  /\ results \subseteq results' /\ posted \subseteq posted'
  /\ queue \cup results \subseteq queue' \cup results'

\* So a handler that stays at its await can still rely on what it did.
LEMMA Bystander ==
  ASSUME MobileTypeOK, Grows, NEW q \in Handler, JobInv(q), job'[q] = job[q]
  PROVE  JobInv(q)'
BY DEF Grows, JobInv, AfterSave, InSync

\* A step's writes are justified: it may add to the disk what the invariant
\* allows, and takes nothing away.
DiskStep ==
  /\ Grows
  /\ results' \subseteq posted'
  /\ \A s \in Sale : stored'[s] = "synced" => stored[s] = "synced" \/ s \in posted'
  /\ \A s \in posted' \ posted : stored'[s] # "none"
  /\ \A s \in Sale : stored'[s] = "requiresReview" =>
       stored[s] = "requiresReview" \/ s \in queue' \cup results'

LEMMA DiskStays ==
  ASSUME MobileTypeOK, DiskInv, DiskStep
  PROVE  DiskInv'
BY DEF DiskInv, DiskStep, Grows, MobileTypeOK

LEMMA QuietDisk ==
  ASSUME DiskInv, UNCHANGED <<stored, queue, results, posted>>
  PROVE  DiskStep
BY DEF DiskInv, DiskStep, Grows

\* A step of handler h keeps the invariant if it keeps the types, what others
\* rely on, the sales list and what h relies on next.
LEMMA StepInv ==
  ASSUME MobileInv, MobileTypeOK', IsFiniteSet(Stored)', DiskStep,
         RowsOK(listed)', NEW h \in Handler, JobInv(h)',
         \A q \in Handler \ {h} : job'[q] = job[q]
  PROVE  MobileInv'
<1>1. DiskInv'
  BY DiskStays DEF MobileInv
<1>2. ASSUME NEW q \in Handler PROVE JobInv(q)'
  <2>1. CASE q = h
    BY <2>1
  <2>2. CASE q # h
    BY <2>2, Bystander DEF MobileInv, JobsInv, DiskStep
  <2> QED BY <2>1, <2>2
<1> QED BY <1>1, <1>2 DEF MobileInv, JobsInv

\* With the sales list and the rows as they are.
LEMMA UnlistedStepInv ==
  ASSUME MobileInv, MobileTypeOK', UNCHANGED <<stored, listed>>, DiskStep,
         NEW h \in Handler, JobInv(h)',
         \A q \in Handler \ {h} : job'[q] = job[q]
  PROVE  MobileInv'
<1>1. IsFiniteSet(Stored)'
  BY DEF MobileInv, Stored
<1>2. RowsOK(listed)'
  <2>1. RowsOK(listed) /\ Grows
    BY DEF MobileInv, DiskStep
  <2> QED BY <2>1 DEF Grows, RowsOK, RowOK, Row
<1> QED BY <1>1, <1>2, StepInv

\* With one row written.
LEMMA WriteStepInv ==
  ASSUME MobileInv, MobileTypeOK', UNCHANGED listed, DiskStep,
         NEW h \in Handler, JobInv(h)', NEW v,
         stored' = [stored EXCEPT ![job[h].sale] = v],
         \A q \in Handler \ {h} : job'[q] = job[q]
  PROVE  MobileInv'
<1>1. Stored' \subseteq Stored \cup {job[h].sale}
  BY DEF MobileInv, MobileTypeOK, Stored
<1>2. IsFiniteSet(Stored \cup {job[h].sale})
  BY FS_AddElement DEF MobileInv
<1>3. IsFiniteSet(Stored)'
  BY <1>1, <1>2, FS_Subset
<1>4. RowsOK(listed)'
  <2>1. RowsOK(listed) /\ Grows
    BY DEF MobileInv, DiskStep
  <2> QED BY <2>1 DEF Grows, RowsOK, RowOK, Row
<1> QED BY <1>3, <1>4, StepInv
-----------------------------------------------------------------------------
(* New Sale page *)

LEMMA PageIsHandler == \A p \in Page : p \in Handler /\ p # Loop
BY HandlerAssumption DEF Handler

LEMMA OpenStep ==
  ASSUME MobileInv, NEW p \in Page, NEW s \in Sale, Open(p, s) PROVE MobileInv'
<1> DEFINE w == [Idle EXCEPT !.at = "shown", !.sale = s]
<1>1. w \in Job /\ w.at = "shown" /\ w.sale = s
  BY DEF Idle, Job, Await
<1>2. Moves(p, w) /\ UNCHANGED <<online, listed, drafts, saving, disk, posted, faults>>
  BY DEF Open, Moves
<1> HIDE DEF w
<1>3. /\ job' \in [Handler -> Job] /\ job'[p] = w
      /\ \A q \in Handler \ {p} : job'[q] = job[q]
  BY <1>1, <1>2, MovesType, PageIsHandler DEF MobileInv
<1>4. JobInv(p)'
  BY <1>1, <1>3 DEF JobInv, AfterSave, InSync
<1>5. MobileTypeOK' /\ DiskStep
  BY <1>2, <1>3, QuietDisk DEF MobileInv, MobileTypeOK, disk
<1> QED BY <1>2, <1>3, <1>4, <1>5, UnlistedStepInv, PageIsHandler DEF disk

LEMMA ToIdle ==
  ASSUME MobileInv, NEW h \in Handler, job' = [job EXCEPT ![h] = Idle]
  PROVE  /\ job' \in [Handler -> Job] /\ JobInv(h)'
         /\ \A q \in Handler \ {h} : job'[q] = job[q]
<1>1. /\ job' \in [Handler -> Job] /\ job'[h] = Idle
      /\ \A q \in Handler \ {h} : job'[q] = job[q]
  BY IdleType, MovesType DEF Moves, MobileInv
<1>2. JobInv(h)'
  BY <1>1, IdleType DEF JobInv, AfterSave, InSync
<1> QED BY <1>1, <1>2

LEMMA LeaveStep == ASSUME MobileInv, NEW p \in Page, Leave(p) PROVE MobileInv'
<1>1. /\ job' \in [Handler -> Job] /\ JobInv(p)'
      /\ \A q \in Handler \ {p} : job'[q] = job[q]
  BY ToIdle, PageIsHandler DEF Leave
<1>2. MobileTypeOK' /\ DiskStep
  BY <1>1, QuietDisk DEF Leave, MobileInv, MobileTypeOK, disk
<1> QED BY <1>1, <1>2, UnlistedStepInv, PageIsHandler DEF Leave, disk

\* No handler moves: the lists of drafts, the connection.
LEMMA AsideStep ==
  ASSUME MobileInv, MobileTypeOK',
         UNCHANGED <<listed, stored, queue, results, posted, job>>
  PROVE  MobileInv'
<1>1. Loop \in Handler /\ JobInv(Loop)'
  BY DEF Handler, MobileInv, JobsInv, JobInv
<1>2. DiskStep
  BY QuietDisk DEF MobileInv
<1> QED BY <1>1, <1>2, UnlistedStepInv

LEMMA DraftStep ==
  ASSUME MobileInv, (\E p \in Page : SaveDraft(p)) \/ (\E s \in Sale : ListDraft(s))
  PROVE  MobileInv'
<1>1. ASSUME NEW p \in Page, SaveDraft(p) PROVE MobileTypeOK'
  <2>1. job[p].sale \in Sale
    BY <1>1, PageIsHandler DEF SaveDraft, MobileInv, JobsInv, JobInv
  <2> QED BY <1>1, <2>1 DEF SaveDraft, MobileInv, MobileTypeOK
<1>2. ASSUME NEW s \in Sale, ListDraft(s) PROVE MobileTypeOK'
  BY <1>2 DEF ListDraft, MobileInv, MobileTypeOK, disk
<1> QED BY <1>1, <1>2, AsideStep DEF SaveDraft, ListDraft, disk

LEMMA ConnectionStep ==
  ASSUME MobileInv, LoseConnection \/ Reconnect PROVE MobileInv'
<1>1. MobileTypeOK'
  <2>1. online' \in BOOLEAN /\ faults' \in Nat
    <3>1. faults \in Nat
      BY DEF MobileInv, MobileTypeOK
    <3>2. faults' \in Nat
      BY <3>1 DEF LoseConnection, Reconnect, Fault
    <3>3. online' = TRUE \/ online' = FALSE
      BY DEF LoseConnection, Reconnect
    <3> QED BY <3>2, <3>3
  <2> QED BY <2>1 DEF LoseConnection, Reconnect, MobileInv, MobileTypeOK, disk
<1> QED BY <1>1, AsideStep DEF LoseConnection, Reconnect, disk

LEMMA CompleteSaleStep ==
  ASSUME MobileInv, NEW p \in Page, CompleteSale(p) PROVE MobileInv'
<1> DEFINE status == IF online THEN "syncing" ELSE "pendingSync"
<1>1. status \in {"syncing", "pendingSync"} /\ status \in Status
  BY DEF Status
<1>2. GotoAs(p, "save", status) /\ At(p, "shown")
  BY DEF CompleteSale
<1> HIDE DEF status
<1>3. /\ job' \in [Handler -> Job] /\ \A q \in Handler \ {p} : job'[q] = job[q]
      /\ job'[p].at = "save" /\ job'[p].sale = job[p].sale /\ job'[p].status = status
  BY <1>1, <1>2, GotoAsEffect, PageIsHandler DEF MobileInv, Await
<1>4. JobInv(p)'
  BY <1>1, <1>2, <1>3, PageIsHandler DEF MobileInv, JobsInv, JobInv, AfterSave, InSync
<1>5. MobileTypeOK' /\ DiskStep
  BY <1>3, QuietDisk DEF CompleteSale, MobileInv, MobileTypeOK, disk
<1> QED BY <1>3, <1>4, <1>5, UnlistedStepInv, PageIsHandler DEF CompleteSale, disk

LEMMA SaveSaleStep ==
  ASSUME MobileInv, NEW p \in Page, SaveSale(p) PROVE MobileInv'
<1> DEFINE s == job[p].sale
           v == IF stored[s] = "none" THEN job[p].status ELSE stored[s]
           at == IF online THEN "enqueue" ELSE "park"
<1>1. /\ p \in Handler /\ s \in Sale /\ job[p].at = "save"
      /\ job[p].status \in {"syncing", "pendingSync"}
  BY PageIsHandler DEF SaveSale, MobileInv, JobsInv, JobInv
<1>2. at \in {"enqueue", "park"} /\ at \in Await
  BY DEF Await
<1>3. /\ stored \in [Sale -> Status \cup {"none"}] /\ stored' = [stored EXCEPT ![s] = v]
      /\ v \in Status /\ (v = stored[s] \/ v \in {"syncing", "pendingSync"})
      /\ (stored[s] # "none" => v = stored[s])
  BY <1>1 DEF SaveSale, MobileInv, MobileTypeOK, Status
<1>4. /\ job' \in [Handler -> Job] /\ \A q \in Handler \ {p} : job'[q] = job[q]
      /\ job'[p].at = at /\ job'[p].sale = s /\ job'[p].status = job[p].status
  BY <1>1, <1>2, GotoEffect DEF SaveSale, MobileInv
<1>5. UNCHANGED <<online, listed, drafts, saving, saved, queue, results, posted, faults>>
  BY DEF SaveSale
<1> HIDE DEF s, v, at
<1>6. stored'[s] = v /\ (\A t \in Sale \ {s} : stored'[t] = stored[t]) /\ "none" \notin Status
  BY <1>1, <1>3 DEF Status
<1>7. DiskStep
  BY <1>3, <1>5, <1>6 DEF DiskStep, Grows, MobileInv, DiskInv
<1>8. MobileTypeOK'
  BY <1>3, <1>4, <1>5 DEF MobileInv, MobileTypeOK
<1>9. JobInv(p)'
  BY <1>1, <1>2, <1>3, <1>4, <1>6 DEF JobInv, AfterSave, InSync, Status
<1> QED BY <1>1, <1>3, <1>4, <1>5, <1>7, <1>8, <1>9, WriteStepInv DEF s

LEMMA ListSaleStep ==
  ASSUME MobileInv, NEW p \in Page, ListSale(p) PROVE MobileInv'
<1> DEFINE r == [id |-> job[p].sale, status |-> job[p].status]
<1>1. p \in Handler /\ JobInv(p) /\ job[p].at = "return"
  BY PageIsHandler DEF ListSale, MobileInv, JobsInv
<1>2. job[p].sale \in Sale /\ job[p].status \in Status /\ stored[job[p].sale] # "none"
  BY <1>1 DEF JobInv, AfterSave
<1>3. RowOK(r)
  BY <1>1, <1>2 DEF RowOK, Row, JobInv
<1>4. listed' = <<r>> \o listed /\ UNCHANGED <<online, drafts, saving, disk, posted, faults>>
  BY DEF ListSale
<1> HIDE DEF r
<1>5. RowsOK(listed')
  <2>1. listed \in Seq(Row) /\ r \in Row /\ \A i \in 1..Len(listed) : RowOK(listed[i])
    BY <1>3 DEF MobileInv, RowsOK, RowOK
  <2>2. <<r>> \in Seq(Row) /\ Len(<<r>>) = 1 /\ <<r>>[1] = r
    BY <2>1
  <2>3. /\ listed' \in Seq(Row) /\ Len(listed') = 1 + Len(listed)
        /\ \A i \in 1..Len(listed') :
             listed'[i] = IF i <= 1 THEN <<r>>[i] ELSE listed[i - 1]
    BY <1>4, <2>1, <2>2, ConcatProperties
  <2>4. ASSUME NEW i \in 1..Len(listed') PROVE RowOK(listed'[i])
    <3>1. CASE i = 1
      BY <1>3, <2>2, <2>3, <3>1
    <3>2. CASE i # 1
      <4>1. i - 1 \in 1..Len(listed) /\ listed'[i] = listed[i - 1]
        BY <2>1, <2>3, <3>2
      <4> QED BY <2>1, <4>1
    <3> QED BY <3>1, <3>2
  <2> QED BY <2>3, <2>4 DEF RowsOK
<1>6. RowsOK(listed)'
  BY <1>4, <1>5 DEF RowsOK, RowOK, Row, disk
<1>7. /\ job' \in [Handler -> Job] /\ \A q \in Handler \ {p} : job'[q] = job[q]
      /\ job'[p].at = "forget" /\ job'[p].sale = job[p].sale /\ job'[p].status = job[p].status
  BY <1>1, GotoEffect DEF ListSale, MobileInv, Await
<1>8. JobInv(p)'
  BY <1>2, <1>4, <1>7 DEF JobInv, AfterSave, InSync, disk
<1>9. MobileTypeOK' /\ DiskStep
  BY <1>4, <1>6, <1>7, QuietDisk DEF MobileInv, MobileTypeOK, RowsOK, disk
<1>10. IsFiniteSet(Stored)'
  BY <1>4 DEF MobileInv, Stored, disk
<1> QED BY <1>1, <1>6, <1>7, <1>8, <1>9, <1>10, StepInv

LEMMA DeleteDraftStep ==
  ASSUME MobileInv, NEW p \in Page, DeleteDraft(p) PROVE MobileInv'
<1>1. p \in Handler /\ JobInv(p) /\ job[p].at = "forget"
  BY PageIsHandler DEF DeleteDraft, MobileInv, JobsInv
<1>2. /\ job' \in [Handler -> Job] /\ \A q \in Handler \ {p} : job'[q] = job[q]
      /\ job'[p].at = "unlist" /\ job'[p].sale = job[p].sale /\ job'[p].status = job[p].status
  BY <1>1, GotoEffect DEF DeleteDraft, MobileInv, Await
<1>3. JobInv(p)'
  BY <1>1, <1>2 DEF DeleteDraft, JobInv, AfterSave, InSync
<1>4. MobileTypeOK' /\ DiskStep
  BY <1>2, QuietDisk DEF DeleteDraft, MobileInv, MobileTypeOK
<1> QED BY <1>1, <1>2, <1>3, <1>4, UnlistedStepInv DEF DeleteDraft

LEMMA UnlistDraftStep ==
  ASSUME MobileInv, NEW p \in Page, UnlistDraft(p) PROVE MobileInv'
<1>1. /\ job' \in [Handler -> Job] /\ JobInv(p)'
      /\ \A q \in Handler \ {p} : job'[q] = job[q]
  BY ToIdle, PageIsHandler DEF UnlistDraft
<1>2. MobileTypeOK' /\ DiskStep
  BY <1>1, QuietDisk DEF UnlistDraft, MobileInv, MobileTypeOK, disk
<1> QED BY <1>1, <1>2, UnlistedStepInv, PageIsHandler DEF UnlistDraft, disk

-----------------------------------------------------------------------------
(* _syncOne *)

LEMMA EnqueueStep ==
  ASSUME MobileInv, NEW h \in Handler, Enqueue(h) PROVE MobileInv'
<1> DEFINE at == IF At(h, "park") THEN "return" ELSE "lookup"
<1>1. /\ JobInv(h) /\ job[h].at \in {"park", "enqueue"} /\ Goto(h, at)
      /\ queue' = queue \cup {job[h].sale}
      /\ UNCHANGED <<online, listed, drafts, saving, stored, saved, results, posted, faults>>
  BY DEF Enqueue, MobileInv, JobsInv
<1>2. job[h].sale \in Sale /\ at \in Await
  BY <1>1 DEF JobInv, Await
<1>3. /\ at = "return" => job[h].at = "park"
      /\ at \in {"return", "lookup"}
  OBVIOUS
<1> HIDE DEF at
<1>4. /\ job' \in [Handler -> Job] /\ \A q \in Handler \ {h} : job'[q] = job[q]
      /\ job'[h].at = at /\ job'[h].sale = job[h].sale /\ job'[h].status = job[h].status
  BY <1>1, <1>2, GotoEffect DEF MobileInv
<1>5. JobInv(h)'
  BY <1>1, <1>2, <1>3, <1>4 DEF JobInv, AfterSave, InSync
<1>6. MobileTypeOK' /\ DiskStep
  BY <1>1, <1>2, <1>4 DEF MobileInv, MobileTypeOK, DiskInv, DiskStep, Grows
<1> QED BY <1>1, <1>4, <1>5, <1>6, UnlistedStepInv

LEMMA ReadResultStep ==
  ASSUME MobileInv, NEW h \in Handler, ReadResult(h) PROVE MobileInv'
<1> DEFINE at == IF job[h].sale \in results THEN "replace" ELSE "submit"
<1>1. /\ JobInv(h) /\ job[h].at = "lookup" /\ Goto(h, at) /\ at \in Await
      /\ UNCHANGED <<online, listed, drafts, saving, disk, posted, faults>>
  BY DEF ReadResult, MobileInv, JobsInv, Await
<1>2. /\ at = "replace" => job[h].sale \in results
      /\ at \in {"replace", "submit"}
  OBVIOUS
<1> HIDE DEF at
<1>3. /\ job' \in [Handler -> Job] /\ \A q \in Handler \ {h} : job'[q] = job[q]
      /\ job'[h].at = at /\ job'[h].sale = job[h].sale /\ job'[h].status = job[h].status
  BY <1>1, GotoEffect DEF MobileInv
<1>4. JobInv(h)'
  BY <1>1, <1>2, <1>3 DEF JobInv, AfterSave, InSync, disk
<1>5. MobileTypeOK' /\ DiskStep
  BY <1>1, <1>3, QuietDisk DEF MobileInv, MobileTypeOK, disk
<1> QED BY <1>1, <1>3, <1>4, <1>5, UnlistedStepInv DEF disk

\* The answer comes, or an error in its place.
LEMMA SubmitStep ==
  ASSUME MobileInv, NEW h \in Handler, Submit(h) \/ SubmitFails(h) PROVE MobileInv'
<1>1. /\ JobInv(h) /\ job[h].at = "submit" /\ faults' \in Nat
      /\ UNCHANGED <<online, listed, drafts, saving, disk>>
      /\ posted' \in {posted, posted \cup {job[h].sale}}
      /\ \/ Goto(h, "keep") /\ job[h].sale \in posted'
         \/ Goto(h, "review")
  BY DEF Submit, SubmitFails, Fault, MobileInv, JobsInv, MobileTypeOK
<1>2. job[h].sale \in Sale /\ stored[job[h].sale] # "none"
  BY <1>1 DEF JobInv, AfterSave, InSync
<1>3. /\ job' \in [Handler -> Job] /\ \A q \in Handler \ {h} : job'[q] = job[q]
      /\ job'[h].sale = job[h].sale /\ job'[h].status = job[h].status
      /\ job'[h].at \in {"keep", "review"} /\ (job'[h].at = "keep" => job[h].sale \in posted')
  BY <1>1, GotoEffect DEF MobileInv, Await
<1>4. JobInv(h)'
  BY <1>1, <1>3 DEF JobInv, AfterSave, InSync, disk
<1>5. MobileTypeOK' /\ DiskStep
  BY <1>1, <1>2, <1>3 DEF MobileInv, MobileTypeOK, DiskInv, DiskStep, Grows, disk
<1> QED BY <1>1, <1>3, <1>4, <1>5, UnlistedStepInv DEF disk

LEMMA SaveResultStep ==
  ASSUME MobileInv, NEW h \in Handler, SaveResult(h) PROVE MobileInv'
<1>1. JobInv(h) /\ job[h].at = "keep" /\ job[h].sale \in posted /\ job[h].sale \in Sale
  BY DEF SaveResult, MobileInv, JobsInv, JobInv
<1>2. /\ job' \in [Handler -> Job] /\ \A q \in Handler \ {h} : job'[q] = job[q]
      /\ job'[h].at = "replace" /\ job'[h].sale = job[h].sale /\ job'[h].status = job[h].status
  BY GotoEffect DEF SaveResult, MobileInv, Await
<1>3. JobInv(h)'
  BY <1>1, <1>2 DEF SaveResult, JobInv, AfterSave, InSync
<1>4. MobileTypeOK' /\ DiskStep
  BY <1>1, <1>2 DEF SaveResult, MobileInv, MobileTypeOK, DiskInv, DiskStep, Grows
<1> QED BY <1>2, <1>3, <1>4, UnlistedStepInv DEF SaveResult

\* replaceSale, with what justifies the new status.
LEMMA ReplaceStep ==
  ASSUME MobileInv, NEW h \in Handler, NEW status \in Status, NEW at \in {"dequeue", "return"},
         job[h].at \in InSync, GotoAs(h, at, status),
         stored' = [stored EXCEPT ![job[h].sale] = status],
         UNCHANGED <<online, listed, drafts, saving, saved, queue, results, posted, faults>>,
         status = "synced" => job[h].sale \in results,
         at = "dequeue" => status = "synced"
  PROVE  MobileInv'
<1>1. /\ JobInv(h) /\ job[h].sale \in Sale /\ job[h].sale \in queue \cup results
  BY DEF MobileInv, JobsInv, JobInv, InSync
<1>2. /\ job' \in [Handler -> Job] /\ \A q \in Handler \ {h} : job'[q] = job[q]
      /\ job'[h].at = at /\ job'[h].sale = job[h].sale /\ job'[h].status = status
  BY GotoAsEffect DEF MobileInv, Await
<1> DEFINE s == job[h].sale
<1>3. /\ stored'[s] = status /\ (\A t \in Sale \ {s} : stored'[t] = stored[t])
      /\ status # "none" /\ stored' \in [Sale -> Status \cup {"none"}]
  BY <1>1 DEF MobileInv, MobileTypeOK, Status
<1>4. status = "synced" => job[h].sale \in posted
  BY DEF MobileInv, DiskInv
<1>5. JobInv(h)'
  BY <1>1, <1>2, <1>3, <1>4 DEF JobInv, AfterSave, InSync
<1>6. DiskStep
  BY <1>1, <1>3, <1>4 DEF MobileInv, DiskInv, DiskStep, Grows
<1>7. MobileTypeOK'
  BY <1>2, <1>3 DEF MobileInv, MobileTypeOK
<1> QED BY <1>2, <1>5, <1>6, <1>7, WriteStepInv

LEMMA ReplacesStep ==
  ASSUME MobileInv, NEW h \in Handler, ReplaceSynced(h) \/ ReplaceRejected(h)
  PROVE  MobileInv'
<1>1. CASE ReplaceSynced(h)
  <2>1. job[h].at = "replace" /\ job[h].sale \in results /\ "synced" \in Status
    BY <1>1 DEF ReplaceSynced, MobileInv, JobsInv, JobInv, Status
  <2> QED BY <1>1, <2>1, ReplaceStep DEF ReplaceSynced, InSync
<1>2. CASE ReplaceRejected(h)
  <2>1. "requiresReview" \in Status
    BY DEF Status
  <2> QED BY <1>2, <2>1, ReplaceStep DEF ReplaceRejected, InSync
<1> QED BY <1>1, <1>2

LEMMA RemoveCommandStep ==
  ASSUME MobileInv, NEW h \in Handler, RemoveCommand(h) PROVE MobileInv'
<1>1. /\ JobInv(h) /\ job[h].at = "dequeue" /\ job[h].sale \in results
      /\ job[h].sale \in posted
  BY DEF RemoveCommand, MobileInv, JobsInv, JobInv, DiskInv
<1>2. /\ job' \in [Handler -> Job] /\ \A q \in Handler \ {h} : job'[q] = job[q]
      /\ job'[h].at = "return" /\ job'[h].sale = job[h].sale /\ job'[h].status = job[h].status
  BY GotoEffect DEF RemoveCommand, MobileInv, Await
<1>3. JobInv(h)'
  BY <1>1, <1>2 DEF RemoveCommand, JobInv, AfterSave, InSync
<1>4. MobileTypeOK'
  BY <1>2 DEF RemoveCommand, MobileInv, MobileTypeOK
<1>5. DiskStep
  BY <1>1 DEF RemoveCommand, MobileInv, DiskInv, DiskStep, Grows
<1> QED BY <1>2, <1>3, <1>4, <1>5, UnlistedStepInv DEF RemoveCommand

LEMMA StoreFailsStep ==
  ASSUME MobileInv, NEW h \in Handler, StoreFails(h) PROVE MobileInv'
<1>1. /\ JobInv(h) /\ faults' \in Nat
      /\ UNCHANGED <<online, listed, drafts, saving, disk, posted>>
      /\ \/ job[h].at \in InSync /\ Goto(h, "review")
         \/ job[h].at # "idle" /\ (Goto(h, "shown") \/ Goto(h, "stuck"))
  BY DEF StoreFails, Fault, InSync, MobileInv, JobsInv, MobileTypeOK
<1>2. /\ job' \in [Handler -> Job] /\ \A q \in Handler \ {h} : job'[q] = job[q]
      /\ job'[h].sale = job[h].sale /\ job'[h].status = job[h].status
      /\ \/ job[h].at \in InSync /\ job'[h].at = "review"
         \/ job[h].at # "idle" /\ job'[h].at \in {"shown", "stuck"}
  BY <1>1, GotoEffect DEF MobileInv, Await
<1>3. JobInv(h)'
  BY <1>1, <1>2 DEF JobInv, AfterSave, InSync, disk
<1>4. MobileTypeOK' /\ DiskStep
  BY <1>1, <1>2, QuietDisk DEF MobileInv, MobileTypeOK, disk
<1> QED BY <1>1, <1>2, <1>3, <1>4, UnlistedStepInv DEF disk
-----------------------------------------------------------------------------
(* synchronizePending *)

LEMMA MinIn == ASSUME NEW S \in SUBSET Nat, S # {} PROVE Min(S) \in S
<1>1. \E i \in S : \A j \in S : ~(<<j, i>> \in OpToRel(<, Nat))
  BY NatLessThanWellFounded, WFMin
<1>2. \A i, j \in Nat : j < i => <<j, i>> \in OpToRel(<, Nat)
  BY DEF OpToRel
<1>3. \E i \in S : \A j \in S : i <= j
  <2>1. PICK i \in S : \A j \in S : ~(<<j, i>> \in OpToRel(<, Nat))
    BY <1>1
  <2>2. ASSUME NEW j \in S PROVE i <= j
    <3>1. ~(j < i)
      BY <1>2, <2>1
    <3> QED BY <3>1
  <2> QED BY <2>2
<1> QED BY <1>3 DEF Min

\* The loop goes on to a row that is waiting, which is shown as syncing, or ends.
LEMMA AdvanceEffect ==
  ASSUME MobileTypeOK, NEW rows, rows \in Seq(Row), NEW from \in Nat \ {0},
         Advance(rows, from)
  PROVE  /\ job' \in [Handler -> Job] /\ \A q \in Page : job'[q] = job[q]
         /\ listed' \in Seq(Row) /\ DOMAIN listed' = DOMAIN rows
         /\ \A i \in DOMAIN rows : listed'[i] = rows[i] \/
              (listed'[i].id = rows[i].id /\ listed'[i].status = "syncing")
         /\ \/ job'[Loop] = Idle
            \/ /\ job'[Loop].at = "enqueue" /\ job'[Loop].status \in Status
               /\ \E i \in DOMAIN rows : job'[Loop].sale = rows[i].id
<1> DEFINE Left == {i \in from..Len(rows) : Retryable(rows[i].status)}
<1>0. Loop \in Handler /\ \A q \in Page : q \in Handler \ {Loop}
  BY HandlerAssumption DEF Handler
<1>1. CASE Left = {}
  <2>1. listed' = rows /\ Moves(Loop, Idle)
    BY <1>1 DEF Advance, Moves
  <2> QED BY <1>0, <2>1, MovesType, IdleType
<1>2. CASE Left # {}
  <2> DEFINE i == Min(Left)
             r == [id |-> rows[i].id, status |-> "syncing"]
             w == [at |-> "enqueue", sale |-> rows[i].id,
                   status |-> rows[i].status, index |-> i]
  <2>1. Left \in SUBSET Nat
    OBVIOUS
  <2>2. i \in Left
    BY <1>2, <2>1, MinIn
  <2>3. i \in 1..Len(rows) /\ i \in DOMAIN rows /\ i \in Nat
    BY <2>2
  <2>4. listed' = [rows EXCEPT ![i] = r] /\ Moves(Loop, w)
    BY <1>2 DEF Advance, Moves
  <2> HIDE DEF i
  <2>5. rows[i] \in Row /\ rows[i].id \in Sale /\ rows[i].status \in Status
    <3>1. rows[i] \in Row
      BY <2>3, ElementOfSeq
    <3> QED BY <3>1 DEF Row
  <2>6. r \in Row /\ r.id = rows[i].id /\ r.status = "syncing"
    BY <2>5 DEF Row, Status
  <2>7. w \in Job /\ w.at = "enqueue" /\ w.status \in Status /\ w.sale = rows[i].id
    BY <2>3, <2>5 DEF Job, Await
  <2> HIDE DEF r, w
  <2>8. /\ job' \in [Handler -> Job] /\ job'[Loop] = w
        /\ \A q \in Page : job'[q] = job[q]
    BY <1>0, <2>4, <2>7, MovesType
  <2>9. listed' \in Seq(Row) /\ DOMAIN listed' = DOMAIN rows
    BY <2>3, <2>4, <2>6
  <2>10. \A k \in DOMAIN rows : listed'[k] = rows[k] \/
           (listed'[k].id = rows[k].id /\ listed'[k].status = "syncing")
    BY <2>4, <2>6
  <2> QED BY <2>3, <2>7, <2>8, <2>9, <2>10
<1> QED BY <1>1, <1>2

LEMMA AdvanceStep ==
  ASSUME MobileInv, NEW rows, RowsOK(rows), NEW from \in Nat \ {0}, Advance(rows, from),
         UNCHANGED <<online, drafts, saving, disk, posted, faults>>
  PROVE  MobileInv'
<1>1. rows \in Seq(Row) /\ \A i \in DOMAIN rows : RowOK(rows[i])
  BY DEF RowsOK
<1>2. /\ job' \in [Handler -> Job] /\ \A q \in Page : job'[q] = job[q]
      /\ listed' \in Seq(Row) /\ DOMAIN listed' = DOMAIN rows
      /\ \A i \in DOMAIN rows : listed'[i] = rows[i] \/
           (listed'[i].id = rows[i].id /\ listed'[i].status = "syncing")
      /\ \/ job'[Loop] = Idle
         \/ /\ job'[Loop].at = "enqueue" /\ job'[Loop].status \in Status
            /\ \E i \in DOMAIN rows : job'[Loop].sale = rows[i].id
  BY <1>1, AdvanceEffect DEF MobileInv
<1>3. Loop \in Handler /\ \A q \in Handler \ {Loop} : job'[q] = job[q]
  BY <1>2 DEF Handler
<1>4. JobInv(Loop)'
  <2>1. CASE job'[Loop] = Idle
    BY <2>1, IdleType DEF JobInv, AfterSave, InSync
  <2>2. CASE /\ job'[Loop].at = "enqueue" /\ job'[Loop].status \in Status
             /\ \E i \in DOMAIN rows : job'[Loop].sale = rows[i].id
    <3>1. job'[Loop].sale \in Sale /\ stored[job'[Loop].sale] # "none"
      BY <1>1, <2>2 DEF RowOK, Row
    <3> QED BY <2>2, <3>1 DEF JobInv, AfterSave, InSync, disk
  <2> QED BY <1>2, <2>1, <2>2
<1>5. RowsOK(listed)'
  <2>1. ASSUME NEW i \in DOMAIN listed' PROVE RowOK(listed'[i])
    <3>1. RowOK(rows[i]) /\ listed'[i] \in Row
      BY <1>1, <1>2
    <3>2. \/ listed'[i] = rows[i]
          \/ listed'[i].id = rows[i].id /\ listed'[i].status # "synced"
      BY <1>2
    <3> QED BY <3>1, <3>2 DEF RowOK
  <2> QED BY <1>2, <2>1 DEF RowsOK, RowOK, disk
<1>6. MobileTypeOK' /\ DiskStep
  BY <1>2, QuietDisk DEF MobileInv, MobileTypeOK, disk
<1>7. IsFiniteSet(Stored)'
  BY DEF MobileInv, Stored, disk
<1> QED BY <1>3, <1>4, <1>5, <1>6, <1>7, StepInv

LEMMA RetryStep ==
  ASSUME MobileInv, StartSync \/ ContinueSync PROVE MobileInv'
<1>1. CASE StartSync
  BY <1>1, AdvanceStep DEF StartSync, MobileInv
<1>2. CASE ContinueSync
  <2> DEFINE n == job[Loop].index
             r == [id |-> job[Loop].sale, status |-> job[Loop].status]
             rows == [listed EXCEPT ![n] = r]
  <2>1. /\ Advance(rows, n + 1) /\ job[Loop].at = "return"
        /\ UNCHANGED <<online, drafts, saving, disk, posted, faults>>
    BY <1>2 DEF ContinueSync
  <2>2. Loop \in Handler /\ JobInv(Loop) /\ n \in Nat
    BY Jobs DEF MobileInv, JobsInv, Handler
  <2>3. RowOK(r)
    BY <2>1, <2>2 DEF RowOK, Row, JobInv, AfterSave
  <2>4. RowsOK(rows)
    <3>1. listed \in Seq(Row) /\ r \in Row /\ \A i \in DOMAIN listed : RowOK(listed[i])
      BY <2>3 DEF MobileInv, RowsOK, RowOK
    <3> HIDE DEF r, n
    <3>2. /\ rows \in Seq(Row) /\ DOMAIN rows = DOMAIN listed
          /\ \A i \in DOMAIN listed : rows[i] = r \/ rows[i] = listed[i]
      <4>1. DOMAIN rows = 1..Len(listed) /\ \A i \in 1..Len(listed) : rows[i] = r \/ rows[i] = listed[i]
        BY <3>1
      <4>2. \A i \in 1..Len(listed) : listed[i] \in Row
        BY <3>1
      <4>3. rows = [i \in 1..Len(listed) |-> rows[i]] /\ \A i \in 1..Len(listed) : rows[i] \in Row
        BY <3>1, <4>1, <4>2
      <4>4. Len(listed) \in Nat /\ DOMAIN listed = 1..Len(listed)
        BY <3>1
      <4> HIDE DEF rows
      <4> QED BY <4>1, <4>3, <4>4
    <3> HIDE DEF rows
    <3> QED BY <2>3, <3>1, <3>2 DEF RowsOK
  <2>5. n + 1 \in Nat \ {0}
    BY <2>2
  <2> HIDE DEF rows, n
  <2> QED BY <2>1, <2>4, <2>5, AdvanceStep
<1> QED BY <1>1, <1>2

-----------------------------------------------------------------------------
(* The device *)

LEMMA RestartedStep ==
  ASSUME MobileInv, Restarted, faults' \in Nat PROVE MobileInv'
<1> DEFINE n == Cardinality(Stored)
<1>1. PICK ids \in [1..n -> Stored] :
        listed' = [i \in DOMAIN ids |-> [id |-> ids[i], status |-> stored[ids[i]]]]
  BY DEF Restarted
<1>2. n \in Nat
  BY FS_CardinalityType DEF MobileInv
<1>3. /\ job' = [h \in Handler |-> Idle] /\ online' = TRUE /\ drafts' = saved /\ saving' = {}
      /\ UNCHANGED <<disk, posted>>
  BY DEF Restarted
<1>4. job' \in [Handler -> Job] /\ \A h \in Handler : JobInv(h)'
  BY <1>3, IdleType DEF JobInv, AfterSave, InSync
<1> HIDE DEF n
<1>5. \A s \in Stored : RowOK([id |-> s, status |-> stored[s]])
  BY DEF RowOK, Row, Stored, MobileInv, MobileTypeOK, DiskInv
<1>6. RowsOK(listed')
  <2>1. DOMAIN listed' = 1..n /\ \A i \in 1..n : RowOK(listed'[i])
    BY <1>1, <1>5
  <2>2. \A i \in 1..n : listed'[i] \in Row
    BY <2>1 DEF RowOK
  <2>3. listed' = [i \in 1..n |-> listed'[i]]
    BY <1>1
  <2>4. listed' \in Seq(Row)
    BY <1>2, <2>2, <2>3
  <2> QED BY <2>1, <2>4 DEF RowsOK
<1>7. RowsOK(listed)'
  BY <1>3, <1>6 DEF RowsOK, RowOK, disk
<1>8. MobileTypeOK'
  BY <1>3, <1>4, <1>7 DEF MobileInv, MobileTypeOK, RowsOK, disk
<1>9. DiskInv' /\ IsFiniteSet(Stored)'
  BY <1>3 DEF MobileInv, DiskInv, Stored, disk
<1> QED BY <1>4, <1>7, <1>8, <1>9 DEF MobileInv, JobsInv

LEMMA InitInv == Init => MobileInv
<1> SUFFICES ASSUME Init PROVE MobileInv
  OBVIOUS
<1>1. job \in [Handler -> Job] /\ JobsInv
  BY IdleType DEF Init, JobsInv, JobInv, AfterSave, InSync
<1>2. MobileTypeOK /\ RowsOK(listed) /\ DiskInv
  BY <1>1 DEF Init, MobileTypeOK, RowsOK, DiskInv, Status
<1>3. Stored = {}
  BY DEF Init, Stored
<1> QED BY <1>1, <1>2, <1>3, FS_EmptySet DEF MobileInv

LEMMA NextInv == MobileInv /\ [Next]_vars => MobileInv'
<1> SUFFICES ASSUME MobileInv, [Next]_vars PROVE MobileInv'
  OBVIOUS
<1>1. ASSUME NEW h \in Handler, SyncStep(h) PROVE MobileInv'
  BY <1>1, EnqueueStep, ReadResultStep, SubmitStep, SaveResultStep, ReplacesStep,
     RemoveCommandStep DEF SyncStep
<1>2. ASSUME NEW p \in Page, PageStep(p) PROVE MobileInv'
  BY <1>1, <1>2, SaveSaleStep, ListSaleStep, DeleteDraftStep, UnlistDraftStep, PageIsHandler
     DEF PageStep
<1>3. CASE LoopStep
  BY <1>1, <1>3, RetryStep DEF LoopStep, Handler
<1>4. CASE Crash \/ Reopen
  <2>1. faults' \in Nat
    <3>1. faults \in Nat
      BY DEF MobileInv, MobileTypeOK
    <3> QED BY <1>4, <3>1 DEF Crash, Reopen, Fault
  <2> QED BY <1>4, <2>1, RestartedStep DEF Crash, Reopen
<1>5. CASE UNCHANGED vars
  <2>1. MobileTypeOK'
    BY <1>5 DEF vars, disk, MobileInv, MobileTypeOK
  <2> QED BY <1>5, <2>1, AsideStep DEF vars, disk
<1> QED
  BY <1>2, <1>3, <1>4, <1>5, OpenStep, LeaveStep, DraftStep, CompleteSaleStep, RetryStep,
     SubmitStep, StoreFailsStep, ConnectionStep DEF Next

LEMMA MobileInvariant == Spec => []MobileInv
BY InitInv, NextInv, PTL DEF Spec

-----------------------------------------------------------------------------
(* What the device promises *)

\* Lists, rows, the queue and the handlers keep their types; in particular no
\* sale is ever stored as rejected or under an ID that was not given.
THEOREM MobileTypeCorrect == Spec => []MobileTypeOK
<1>1. MobileInv => MobileTypeOK
  BY DEF MobileInv
<1> QED BY <1>1, MobileInvariant, PTL

\* "Synced" is shown and stored only for what the server has posted, whatever
\* answers are lost, and whichever handlers work on one sale at once.
THEOREM SyncedHonestly == Spec => []SyncedIsPosted
BY InvSaysSo, MobileInvariant, PTL

\* Every sale that is shown, or that the server has, is stored on the device, and
\* a sale in review has its command queued or its result at hand.
THEOREM EvidenceIsKept == Spec => []EvidenceKept
BY InvSaysSo, MobileInvariant, PTL
\* Only a completion's write and _syncOne's change a row, and only DeleteDraft
\* takes a draft off the disk.
LEMMA LosslessStep == MobileInv /\ [Next]_vars => Lossless
<1> SUFFICES ASSUME MobileInv, [Next]_vars PROVE Lossless
  OBVIOUS
<1>1. /\ \A h \in Handler : JobInv(h)
      /\ stored \in [Sale -> Status \cup {"none"}] /\ "none" \notin Status
      /\ {"syncing", "pendingSync"} \subseteq Status
  BY DEF MobileInv, MobileTypeOK, JobsInv, Status
<1>2. ASSUME UNCHANGED stored, saved \subseteq saved' PROVE Lossless
  BY <1>2 DEF Lossless
<1>3. ASSUME NEW p \in Page, SaveSale(p) PROVE Lossless
  <2>1. job[p].status # "none"
    BY <1>1, <1>3, PageIsHandler DEF SaveSale, JobInv
  <2> QED BY <1>1, <1>3, <2>1 DEF SaveSale, Lossless
<1>4. ASSUME NEW h \in Handler, ReplaceSynced(h) \/ ReplaceRejected(h) PROVE Lossless
  BY <1>1, <1>4 DEF ReplaceSynced, ReplaceRejected, Lossless
<1>5. ASSUME NEW p \in Page, DeleteDraft(p) PROVE Lossless
  <2>1. stored[job[p].sale] # "none"
    BY <1>1, <1>5, PageIsHandler DEF DeleteDraft, JobInv, AfterSave
  <2> QED BY <1>5, <2>1 DEF DeleteDraft, Lossless
<1>6. ASSUME NEW h \in Handler, SyncStep(h) PROVE Lossless
  BY <1>2, <1>4, <1>6 DEF SyncStep, Enqueue, ReadResult, Submit, SaveResult, RemoveCommand, disk
<1>7. ASSUME NEW p \in Page, PageStep(p) PROVE Lossless
  BY <1>2, <1>3, <1>5, <1>6, <1>7, PageIsHandler DEF PageStep, ListSale, UnlistDraft, disk
<1>8. CASE LoopStep \/ StartSync
  BY <1>2, <1>6, <1>8 DEF LoopStep, StartSync, ContinueSync, Handler, disk
<1>9. ASSUME NEW p \in Page,
             (\E s \in Sale : Open(p, s)) \/ Leave(p) \/ SaveDraft(p) \/ CompleteSale(p)
      PROVE  Lossless
  BY <1>2, <1>9 DEF Open, Leave, SaveDraft, CompleteSale, disk
<1>10. CASE \/ \E s \in Sale : ListDraft(s)
            \/ \E h \in Handler : SubmitFails(h) \/ StoreFails(h)
            \/ LoseConnection \/ Reconnect \/ Crash \/ Reopen \/ UNCHANGED vars
  BY <1>2, <1>10 DEF ListDraft, SubmitFails, StoreFails, LoseConnection, Reconnect, Crash,
     Reopen, Restarted, vars, disk
<1> QED
  BY <1>7, <1>8, <1>9, <1>10 DEF Next

\* A draft leaves the disk, and a sale its state before posting, only when the
\* sale is stored; what is stored stays stored, and synced never goes back to
\* waiting for its first try.
THEOREM NothingIsLost == Spec => NothingLost
<1>1. MobileInv /\ [Next]_vars => [Lossless]_vars
  BY LosslessStep
<1> QED BY <1>1, MobileInvariant, PTL DEF Spec, NothingLost
=============================================================================
