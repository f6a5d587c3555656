----------------------------- MODULE MobileSync -----------------------------
(***************************************************************************)
(* Completion and synchronization of sales on the attendant's device:      *)
(* SalesController (lib/application/sales_controller.dart) over the        *)
(* encrypted store and SalesSyncService (lib/data).                        *)
(*                                                                         *)
(* Dart runs one event at a time, so an action is what runs between two    *)
(* awaits: a store or gateway call and the code that resumes after it.     *)
(* Handlers are the New Sale pages, each of which runs completeSale, and   *)
(* the Loop, the one run of synchronizePending that isSyncing admits.      *)
(***************************************************************************)
EXTENDS Integers, Sequences, FiniteSetsExt

CONSTANTS
  Sale,        \* client transaction IDs, numbered by createdAt
  CreditSale,  \* those sold on credit
  Page, Loop,  \* handlers
  MaxListed,   \* bound: rows of the sales list, completions under way included
  MaxFaults    \* bound: crashes, lost connections, gateway and store errors

ASSUME SaleAssumption == Sale \subseteq Nat \ {0} /\ CreditSale \subseteq Sale
ASSUME HandlerAssumption == Loop \notin Page
ASSUME BoundAssumption == MaxListed \in Nat /\ MaxFaults \in Nat

VARIABLES
  online,   \* controller.isOnline
  listed,   \* controller.sales: ID and status of each row, newest first
  drafts,   \* controller.drafts
  saving,   \* drafts written by saveDraft and not yet in controller.drafts
  stored,   \* local_sales: the status of each row, or "none"
  saved,    \* sale_drafts
  queue,    \* sync_queue
  results,  \* sync_results
  posted,   \* what the authoritative server has posted
  job,      \* each handler: the await it is at, its sale, and the sale's status
  faults

disk == <<stored, saved, queue, results>>
vars == <<online, listed, drafts, saving, disk, posted, job, faults>>

Handler == Page \cup {Loop}

\* The other two statuses of the code, draft and rejected, are never given.
Status == {"pendingSync", "syncing", "synced", "requiresReview"}

\* index: the row of the sales list the loop is at.
Idle == [at |-> "idle", sale |-> 0, status |-> "none", index |-> 0]

Init ==
  /\ online = TRUE /\ listed = <<>> /\ drafts = {} /\ saving = {}
  /\ stored = [s \in Sale |-> "none"]
  /\ saved = {} /\ queue = {} /\ results = {} /\ posted = {}
  /\ job = [h \in Handler |-> Idle]
  /\ faults = 0

Fault == faults < MaxFaults /\ faults' = faults + 1

At(h, at) == job[h].at = at

\* h goes on to the next await of its coroutine.
Goto(h, at) == job' = [job EXCEPT ![h] = [job[h] EXCEPT !.at = at]]

\* ... with the sale in another status: copyWith.
GotoAs(h, at, status) ==
  job' = [job EXCEPT ![h] = [job[h] EXCEPT !.at = at, !.status = status]]

-----------------------------------------------------------------------------
(* New Sale page *)

\* No page, draft, row or job has the ID.
Fresh(s) ==
  /\ s \notin drafts \cup saved /\ stored[s] = "none"
  /\ \A h \in Handler : job[h].sale # s

\* createNewSale, or a draft opened from the list.  IDs are given in order.
Open(p, s) ==
  /\ At(p, "idle")
  /\ s \in drafts \/ \A t \in Sale : t >= s => Fresh(t)
  /\ job' = [job EXCEPT ![p] = [Idle EXCEPT !.at = "shown", !.sale = s]]
  /\ UNCHANGED <<online, listed, drafts, saving, disk, posted, faults>>

\* The page is closed without a completion.
Leave(p) ==
  /\ At(p, "shown")
  /\ job' = [job EXCEPT ![p] = Idle]
  /\ UNCHANGED <<online, listed, drafts, saving, disk, posted, faults>>

\* saveDraft: the button stays enabled while a completion is under way.
SaveDraft(p) ==
  /\ ~At(p, "idle") /\ job[p].sale \notin saving
  /\ saved' = saved \cup {job[p].sale}
  /\ saving' = saving \cup {job[p].sale}
  /\ UNCHANGED <<online, listed, drafts, stored, queue, results, posted, job, faults>>

ListDraft(s) ==
  /\ s \in saving
  /\ drafts' = drafts \cup {s} /\ saving' = saving \ {s}
  /\ UNCHANGED <<online, listed, disk, posted, job, faults>>

\* What validateCompletion refuses besides (an empty cart, stock, a customer out
\* of scope, the offline limits) depends on the draft only: those drafts stay on
\* their page.
MayComplete(s) == online \/ s \notin CreditSale

Completing == {p \in Page : job[p].at \notin {"idle", "shown"}}

CompleteSale(p) ==
  /\ At(p, "shown") /\ MayComplete(job[p].sale)
  /\ Len(listed) + Cardinality(Completing) < MaxListed
  /\ GotoAs(p, "save", IF online THEN "syncing" ELSE "pendingSync")
  /\ UNCHANGED <<online, listed, drafts, saving, disk, posted, faults>>

\* Faulty variant: a completion overwrites the row a former one left.
SaveSaleOver(p) ==
  /\ At(p, "save")
  /\ stored' = [stored EXCEPT ![job[p].sale] = job[p].status]
  /\ Goto(p, IF online THEN "enqueue" ELSE "park")
  /\ UNCHANGED <<online, listed, drafts, saving, saved, queue, results, posted, faults>>

\* store.saveSale inserts or ignores; then isOnline is read again.
SaveSale(p) ==
  /\ At(p, "save")
  /\ stored' = [stored EXCEPT ![job[p].sale] = IF @ = "none" THEN job[p].status ELSE @]
  /\ Goto(p, IF online THEN "enqueue" ELSE "park")
  /\ UNCHANGED <<online, listed, drafts, saving, saved, queue, results, posted, faults>>

\* sales.insert(0, sale)
ListSale(p) ==
  /\ p \in Page /\ At(p, "return")
  /\ listed' = <<[id |-> job[p].sale, status |-> job[p].status]>> \o listed
  /\ Goto(p, "forget")
  /\ UNCHANGED <<online, drafts, saving, disk, posted, faults>>

DeleteDraft(p) ==
  /\ At(p, "forget")
  /\ saved' = saved \ {job[p].sale}
  /\ Goto(p, "unlist")
  /\ UNCHANGED <<online, listed, drafts, saving, stored, queue, results, posted, faults>>

\* drafts.removeWhere, and the receipt takes the page's place.
UnlistDraft(p) ==
  /\ At(p, "unlist")
  /\ drafts' = drafts \ {job[p].sale}
  /\ job' = [job EXCEPT ![p] = Idle]
  /\ UNCHANGED <<online, listed, saving, disk, posted, faults>>

-----------------------------------------------------------------------------
(* _syncOne, of a page or of the loop *)

\* Offline completion queues the command and stops there.
Enqueue(h) ==
  /\ job[h].at \in {"park", "enqueue"}
  /\ queue' = queue \cup {job[h].sale}
  /\ Goto(h, IF At(h, "park") THEN "return" ELSE "lookup")
  /\ UNCHANGED <<online, listed, drafts, saving, stored, saved, results, posted, faults>>

\* SalesSyncService.synchronize: a stored result answers for the server.
ReadResult(h) ==
  /\ At(h, "lookup")
  /\ Goto(h, IF job[h].sale \in results THEN "replace" ELSE "submit")
  /\ UNCHANGED <<online, listed, drafts, saving, disk, posted, faults>>

\* The server posts the sale, or finds that it has.
Submit(h) ==
  /\ At(h, "submit")
  /\ posted' = posted \cup {job[h].sale}
  /\ Goto(h, "keep")
  /\ UNCHANGED <<online, listed, drafts, saving, disk, faults>>

\* Faulty variant: an error of the gateway is taken for its answer.
SubmitUnchecked(h) ==
  /\ At(h, "submit") /\ Fault
  /\ posted' \in {posted, posted \cup {job[h].sale}}
  /\ Goto(h, "keep")
  /\ UNCHANGED <<online, listed, drafts, saving, disk>>

\* No connection, a refusal, or an answer that is lost.
SubmitFails(h) ==
  /\ At(h, "submit") /\ Fault
  /\ posted' \in {posted, posted \cup {job[h].sale}}
  /\ Goto(h, "review")
  /\ UNCHANGED <<online, listed, drafts, saving, disk>>

SaveResult(h) ==
  /\ At(h, "keep")
  /\ results' = results \cup {job[h].sale}
  /\ Goto(h, "replace")
  /\ UNCHANGED <<online, listed, drafts, saving, stored, saved, queue, posted, faults>>

ReplaceSynced(h) ==
  /\ At(h, "replace")
  /\ stored' = [stored EXCEPT ![job[h].sale] = "synced"]
  /\ GotoAs(h, "dequeue", "synced")
  /\ UNCHANGED <<online, listed, drafts, saving, saved, queue, results, posted, faults>>

RemoveCommand(h) ==
  /\ At(h, "dequeue")
  /\ queue' = queue \ {job[h].sale}
  /\ Goto(h, "return")
  /\ UNCHANGED <<online, listed, drafts, saving, stored, saved, results, posted, faults>>

\* Faulty variants: the command leaves the queue with the failure; the failure is
\* final.
ReplaceAsRejected(h) ==
  /\ At(h, "review")
  /\ stored' = [stored EXCEPT ![job[h].sale] = "rejected"]
  /\ GotoAs(h, "return", "rejected")
  /\ UNCHANGED <<online, listed, drafts, saving, saved, queue, results, posted, faults>>
ReplaceDequeued(h) ==
  /\ At(h, "review")
  /\ stored' = [stored EXCEPT ![job[h].sale] = "requiresReview"]
  /\ queue' = queue \ {job[h].sale}
  /\ GotoAs(h, "return", "requiresReview")
  /\ UNCHANGED <<online, listed, drafts, saving, saved, results, posted, faults>>

\* catch (_)
ReplaceRejected(h) ==
  /\ At(h, "review")
  /\ stored' = [stored EXCEPT ![job[h].sale] = "requiresReview"]
  /\ GotoAs(h, "return", "requiresReview")
  /\ UNCHANGED <<online, listed, drafts, saving, saved, queue, results, posted, faults>>

\* An await of the store throws: inside _syncOne's try the sale goes to review;
\* elsewhere completeSale gives the page back, and the loop never ends.
StoreFails(h) ==
  /\ job[h].at \in {"save", "park", "enqueue", "lookup", "keep", "replace",
                    "dequeue", "review", "forget"}
  /\ Fault
  /\ \/ job[h].at \in {"lookup", "keep", "replace", "dequeue"} /\ Goto(h, "review")
     \/ /\ job[h].at \in {"save", "park", "enqueue", "review", "forget"}
        /\ Goto(h, IF h = Loop THEN "stuck" ELSE "shown")
  /\ UNCHANGED <<online, listed, drafts, saving, disk, posted>>

-----------------------------------------------------------------------------
(* synchronizePending *)

Retryable(status) == status \in {"pendingSync", "requiresReview"}

\* Faulty variant: the loop leaves reviewed sales alone.
AdvancePendingOnly(rows, from) ==
  LET Left == {i \in from..Len(rows) : rows[i].status = "pendingSync"} IN
  IF Left = {}
  THEN /\ listed' = rows
       /\ job' = [job EXCEPT ![Loop] = Idle]
  ELSE LET i == Min(Left) IN
       /\ listed' = [rows EXCEPT ![i] = [id |-> rows[i].id, status |-> "syncing"]]
       /\ job' = [job EXCEPT ![Loop] =
                    [at |-> "enqueue", sale |-> rows[i].id,
                     status |-> rows[i].status, index |-> i]]

\* From row `from` on, the next row to retry is shown as syncing and tried; with
\* none left isSyncing is cleared.
Advance(rows, from) ==
  LET Left == {i \in from..Len(rows) : Retryable(rows[i].status)} IN
  IF Left = {}
  THEN /\ listed' = rows
       /\ job' = [job EXCEPT ![Loop] = Idle]
  ELSE LET i == Min(Left) IN
       /\ listed' = [rows EXCEPT ![i] = [id |-> rows[i].id, status |-> "syncing"]]
       /\ job' = [job EXCEPT ![Loop] =
                    [at |-> "enqueue", sale |-> rows[i].id,
                     status |-> rows[i].status, index |-> i]]

\* The Sync now button: enabled with a pending row, online, and not syncing.
StartSync ==
  /\ online /\ At(Loop, "idle")
  /\ \E i \in DOMAIN listed : Retryable(listed[i].status)
  /\ Advance(listed, 1)
  /\ UNCHANGED <<online, drafts, saving, disk, posted, faults>>

\* sales[index] = await _syncOne(...): the row that is at index now.
ContinueSync ==
  /\ At(Loop, "return")
  /\ Advance([listed EXCEPT ![job[Loop].index] =
                [id |-> job[Loop].sale, status |-> job[Loop].status]],
             job[Loop].index + 1)
  /\ UNCHANGED <<online, drafts, saving, disk, posted, faults>>

-----------------------------------------------------------------------------
(* The device *)

\* setConnectivity
LoseConnection ==
  /\ online /\ Fault
  /\ online' = FALSE
  /\ UNCHANGED <<listed, drafts, saving, disk, posted, job>>

Reconnect ==
  /\ ~online
  /\ online' = TRUE
  /\ UNCHANGED <<listed, drafts, saving, disk, posted, job, faults>>

Stored == {s \in Sale : stored[s] # "none"}

\* main and initializeLocalData: the lists are read back from the store, the
\* sales newest first.
Restarted ==
  /\ online' = TRUE
  /\ \E ids \in [1..Cardinality(Stored) -> Stored] :
       /\ \A i, j \in DOMAIN ids : i < j => ids[i] > ids[j]
       /\ listed' = [i \in DOMAIN ids |-> [id |-> ids[i], status |-> stored[ids[i]]]]
  /\ drafts' = saved /\ saving' = {}
  /\ job' = [h \in Handler |-> Idle]
  /\ UNCHANGED <<disk, posted>>

\* The process dies at any await.
Crash ==
  /\ \E h \in Handler : ~At(h, "idle")
  /\ Fault /\ Restarted

\* The attendant closes the app while nothing runs, and opens it again.
Reopen ==
  /\ \A h \in Handler : job[h].at \in {"idle", "shown", "stuck"}
  /\ Restarted /\ UNCHANGED faults

SyncStep(h) ==
  \/ Enqueue(h) \/ ReadResult(h) \/ Submit(h) \/ SaveResult(h)
  \/ ReplaceSynced(h) \/ RemoveCommand(h) \/ ReplaceRejected(h)

PageStep(p) ==
  SaveSale(p) \/ SyncStep(p) \/ ListSale(p) \/ DeleteDraft(p) \/ UnlistDraft(p)

LoopStep == SyncStep(Loop) \/ ContinueSync

Next ==
  \/ \E p \in Page :
       \/ \E s \in Sale : Open(p, s)
       \/ Leave(p) \/ SaveDraft(p) \/ CompleteSale(p) \/ PageStep(p)
  \/ \E s \in Sale : ListDraft(s)
  \/ StartSync \/ LoopStep
  \/ \E h \in Handler : SubmitFails(h) \/ StoreFails(h)
  \/ LoseConnection \/ Reconnect \/ Crash \/ Reopen

Spec == Init /\ [][Next]_vars

\* Awaits return; the attendant presses Sync now when it is offered, the
\* connection comes back, and the app is closed and opened from time to time.
Fairness ==
  /\ \A p \in Page : WF_vars(PageStep(p))
  /\ WF_vars(LoopStep) /\ WF_vars(StartSync)
  /\ WF_vars(Reconnect) /\ WF_vars(Reopen)

FairSpec == Spec /\ Fairness

-----------------------------------------------------------------------------
(* What the device promises *)

Row == [id : Sale, status : Status]
Await == {"idle", "shown", "save", "park", "enqueue", "lookup", "submit", "keep",
          "replace", "dequeue", "review", "return", "forget", "unlist", "stuck"}
Job == [at : Await, sale : Sale \cup {0}, status : Status \cup {"none"}, index : Nat]

MobileTypeOK ==
  /\ online \in BOOLEAN
  /\ listed \in Seq(Row)
  /\ drafts \subseteq Sale /\ saving \subseteq Sale
  /\ stored \in [Sale -> Status \cup {"none"}]
  /\ saved \subseteq Sale /\ queue \subseteq Sale
  /\ results \subseteq Sale /\ posted \subseteq Sale
  /\ job \in [Handler -> Job]
  /\ faults \in Nat

\* "Synced" is shown and stored only for what the server has posted, whatever
\* answers were lost, and whichever handlers worked on the sale at once.
SyncedIsPosted ==
  /\ results \subseteq posted
  /\ \A s \in Sale : stored[s] = "synced" => s \in posted
  /\ \A i \in DOMAIN listed : listed[i].status = "synced" => listed[i].id \in posted

\* Every sale the attendant sees, or the server has, is evidenced on the device,
\* and a sale in review still has its command queued or its result at hand.
EvidenceKept ==
  /\ \A i \in DOMAIN listed : stored[listed[i].id] # "none"
  /\ \A s \in posted : stored[s] # "none"
  /\ \A s \in Sale : stored[s] = "requiresReview" => s \in queue \cup results

\* A draft leaves the disk, and a sale its state before posting, only when the
\* sale is stored; and what is stored as synced never goes back to waiting.
Lossless ==
  /\ \A s \in saved \ saved' : stored[s] # "none"
  /\ \A s \in Sale : stored[s] # "none" =>
       /\ stored'[s] # "none"
       /\ stored[s] = "synced" => stored'[s] \in {"synced", "requiresReview"}
NothingLost == [][Lossless]_vars

\* A sale stored as waiting or for review is synced in the end, after any finite
\* number of faults and whatever the attendant does meanwhile.
PendingIsSynced ==
  \A s \in Sale : Retryable(stored[s]) ~> stored[s] = "synced"

\* Every stored sale is synced in the end.
EventuallySynced ==
  \A s \in Sale : stored[s] # "none" ~> stored[s] = "synced"

\* A credit sale never waits for a connection.
CreditNeverOffline == \A p \in Page : At(p, "park") => job[p].sale \notin CreditSale
=============================================================================
