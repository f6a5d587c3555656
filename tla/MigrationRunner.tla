-------------------------- MODULE MigrationRunner --------------------------
(***************************************************************************)
(* cmd/migrate and internal/platform/migrate: deployment jobs, perhaps     *)
(* several at once and of different releases, apply the *.up.sql files of  *)
(* their directory to one database.  One action for each statement sent.   *)
(*                                                                         *)
(* A file's number is its place in lexical order; its contents stand for   *)
(* their SHA-256 too.  A transaction's effects become visible when it      *)
(* commits; the primary key of the ledger makes a second INSERT of the     *)
(* same version wait for the first one's transaction to end.               *)
(***************************************************************************)
EXTENDS Naturals, Sequences, FiniteSetsExt

CONSTANTS
  Runner,     \* the jobs that may run at the same time
  Release,    \* migration directories: functions from numbers to contents
  Missing,    \* no row of the ledger
  MaxRuns,    \* bound: runs started
  MaxFaults   \* bound: statements that fail from outside

File == UNION {DOMAIN release : release \in Release}
Contents == UNION {{release[f] : f \in DOMAIN release} : release \in Release}
NoFiles == [f \in {} |-> Missing]

ASSUME ReleaseAssumption ==
  /\ \A release \in Release : DOMAIN release \subseteq Nat
  /\ Missing \notin Contents
ASSUME BoundAssumption == MaxRuns \in Nat /\ MaxFaults \in Nat

VARIABLES
  created,  \* does public.itembaz_schema_migrations exist
  ledger,   \* its rows: the checksum by version
  schema,   \* the migrations that took effect, in order
  run,      \* per job: the statement it has reached, its directory and the
            \* files of it that are left
  orphans,  \* transactions whose job went away while they were committing
  runs,     \* runs started
  faults    \* faults had

database == <<created, ledger, schema>>
vars == <<database, run, orphans, runs, faults>>

History == INSTANCE SchemaHistory

Init ==
  /\ created = FALSE
  /\ ledger = [f \in File |-> Missing]
  /\ schema = <<>>
  /\ run = [r \in Runner |-> [pc |-> "idle", release |-> NoFiles, left |-> {}]]
  /\ orphans = {}
  /\ runs = 0
  /\ faults = 0

Stopped == {"idle", "failed", "applied"}
Statements == {"initialize", "create", "select", "exec", "insert", "commit"}

At(r, pc) == run[r].pc = pc
Goto(r, pc) == run' = [run EXCEPT ![r].pc = pc]

\* The name the loop has reached, and the contents read from its file.
Name(r) == Min(run[r].left)
Version(r) == [file |-> Name(r), contents |-> run[r].release[Name(r)]]

\* On to the next file.
Pass(r) ==
  run' = [run EXCEPT ![r] = [pc |-> "select", release |-> @.release,
                             left |-> @.left \ {Name(r)}]]

-----------------------------------------------------------------------------

Start(r, release) ==
  /\ run[r].pc \in Stopped /\ runs < MaxRuns
  /\ runs' = runs + 1
  /\ run' = [run EXCEPT ![r] = [pc |-> "initialize", release |-> release,
                                left |-> DOMAIN release]]
  /\ UNCHANGED <<database, orphans, faults>>

\* CREATE TABLE IF NOT EXISTS looks, and creates; PostgreSQL refuses the table
\* a second session creates between the two.
Initialize(r) ==
  /\ At(r, "initialize")
  /\ Goto(r, IF created THEN "select" ELSE "create")
  /\ UNCHANGED <<database, orphans, runs, faults>>

Create(r) ==
  /\ At(r, "create")
  /\ created' = TRUE
  /\ Goto(r, IF created THEN "failed" ELSE "select")
  /\ UNCHANGED <<ledger, schema, orphans, runs, faults>>

\* Faulty variant: an applied file is skipped without comparing checksums.
SelectAnyChecksum(r) ==
  /\ At(r, "select") /\ run[r].left # {}
  /\ \/ ledger[Name(r)] = Missing /\ Goto(r, "exec")
     \/ ledger[Name(r)] # Missing /\ Pass(r)
  /\ UNCHANGED <<database, orphans, runs, faults>>

\* SELECT checksum ... WHERE version, outside any transaction.
Select(r) ==
  /\ At(r, "select") /\ run[r].left # {}
  /\ \/ ledger[Name(r)] = Missing /\ Goto(r, "exec")
     \/ ledger[Name(r)] = Version(r).contents /\ Pass(r)
     \/ ledger[Name(r)] \notin {Missing, Version(r).contents} /\ Goto(r, "failed")
  /\ UNCHANGED <<database, orphans, runs, faults>>

\* Faulty variant: the file is sent to the pool, not to the transaction.
ExecOutside(r) ==
  /\ At(r, "exec")
  /\ schema' = Append(schema, Version(r))
  /\ Goto(r, "insert")
  /\ UNCHANGED <<created, ledger, orphans, runs, faults>>

\* BEGIN, and the statements of the file.  They may fail on what a runner that
\* applied the same file has committed since (a table that now exists), or pass.
Exec(r) ==
  /\ At(r, "exec")
  /\ \/ Goto(r, "insert")
     \/ ledger[Name(r)] # Missing /\ Goto(r, "failed")
  /\ UNCHANGED <<database, orphans, runs, faults>>

\* Another transaction has inserted the version and not ended.
KeyTaken(r) ==
  \/ \E s \in Runner \ {r} : At(s, "commit") /\ Name(s) = Name(r)
  \/ \E o \in orphans : o.file = Name(r)

\* Faulty variants: the version is no key; a collision is tried again.
InsertNoKey(r) ==
  /\ At(r, "insert")
  /\ Goto(r, "commit")
  /\ UNCHANGED <<database, orphans, runs, faults>>
InsertRetried(r) ==
  /\ At(r, "insert") /\ ~KeyTaken(r)
  /\ Goto(r, IF ledger[Name(r)] = Missing THEN "commit" ELSE "exec")
  /\ UNCHANGED <<database, orphans, runs, faults>>
\* ... or an error that was logged and passed over.
InsertIgnored(r) ==
  /\ At(r, "insert") /\ ~KeyTaken(r)
  /\ \/ ledger[Name(r)] = Missing /\ Goto(r, "commit")
     \/ ledger[Name(r)] # Missing /\ Pass(r)
  /\ UNCHANGED <<database, orphans, runs, faults>>

\* INSERT waits for that transaction, and violates the primary key if it
\* committed: ROLLBACK, and the run has failed.
Insert(r) ==
  /\ At(r, "insert") /\ ~KeyTaken(r)
  /\ Goto(r, IF ledger[Name(r)] = Missing THEN "commit" ELSE "failed")
  /\ UNCHANGED <<database, orphans, runs, faults>>

Committed(version) ==
  /\ ledger' = [ledger EXCEPT ![version.file] = version.contents]
  /\ schema' = Append(schema, version)
  /\ UNCHANGED created

Commit(r) ==
  /\ At(r, "commit")
  /\ Committed(Version(r))
  /\ Pass(r)
  /\ UNCHANGED <<orphans, runs, faults>>

Finish(r) ==
  /\ At(r, "select") /\ run[r].left = {}
  /\ Goto(r, "applied")
  /\ UNCHANGED <<database, orphans, runs, faults>>

-----------------------------------------------------------------------------
(* Failures *)

\* The file cannot be read or its SQL is wrong, the two minutes are over, the
\* job is killed, the connection breaks: what was not committed is rolled back.
Fail(r) ==
  /\ run[r].pc \notin Stopped /\ faults < MaxFaults
  /\ faults' = faults + 1
  /\ Goto(r, "failed")
  /\ UNCHANGED <<database, orphans, runs>>

\* ... while COMMIT is under way: the job does not learn how it ends.
Abandon(r) ==
  /\ At(r, "commit") /\ faults < MaxFaults
  /\ faults' = faults + 1
  /\ orphans' = orphans \cup {Version(r)}
  /\ Goto(r, "failed")
  /\ UNCHANGED <<database, runs>>

Settle(version) ==
  /\ orphans' = orphans \ {version}
  /\ Committed(version) \/ UNCHANGED database
  /\ UNCHANGED <<run, runs, faults>>

-----------------------------------------------------------------------------

Work(r) ==
  \/ Initialize(r) \/ Create(r) \/ Select(r) \/ Exec(r)
  \/ Insert(r) \/ Commit(r) \/ Finish(r)

Next ==
  \/ \E r \in Runner, release \in Release : Start(r, release)
  \/ \E r \in Runner : Work(r) \/ Fail(r) \/ Abandon(r)
  \/ \E o \in orphans : Settle(o)

Spec == Init /\ [][Next]_vars

\* Jobs run, and PostgreSQL ends a transaction whose client is gone; nobody
\* has to start a job.
Fairness ==
  /\ \A r \in Runner : WF_vars(Work(r))
  /\ WF_vars(\E o \in orphans : Settle(o))

FairSpec == Spec /\ Fairness

-----------------------------------------------------------------------------
(* What the runner promises *)

\* Types, and the primary key: a version has one transaction at most between
\* its INSERT and the transaction's end, and then no row yet.
MigrationTypeOK ==
  /\ created \in BOOLEAN
  /\ ledger \in [File -> Contents \cup {Missing}]
  /\ schema \in Seq([file : File, contents : Contents])
  /\ runs \in 0..MaxRuns /\ faults \in 0..MaxFaults
  /\ orphans \subseteq [file : File, contents : Contents]
  /\ run \in [Runner -> [pc : Stopped \cup Statements, left : SUBSET File,
                          release : Release \cup {NoFiles}]]
  /\ \A r \in Runner :
       At(r, "commit") => ~KeyTaken(r) /\ ledger[Name(r)] = Missing

\* The ledger says what took effect: a row for each migration that did, with
\* the contents that did, none for one that did not, however runs interleave,
\* fail, or go away while they commit.
LedgerIsTruth ==
  /\ \A f \in File : ledger[f] # Missing => History!TookEffect(f, ledger[f])
  /\ \A i \in DOMAIN schema : ledger[schema[i].file] = schema[i].contents

\* A run that says "database migrations applied" leaves a database with every
\* file of its directory, at the contents the directory has, and it stays so.
AppliedIsCurrent ==
  \A r \in Runner : At(r, "applied") =>
    \A f \in DOMAIN run[r].release : History!TookEffect(f, run[r].release[f])

\* Runs of any releases together make a history: each file once, whole, and
\* after the files its release sorts before it.
HistorySpec == History!HistorySpec

\* Every run ends: neither a collision with another nor a commit left behind
\* keeps one waiting or trying forever.
EveryRunEnds == \A r \in Runner : []<>(run[r].pc \in Stopped)
=============================================================================
