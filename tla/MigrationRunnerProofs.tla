----------------------- MODULE MigrationRunnerProofs -----------------------
(***************************************************************************)
(* The migration runner, for any number of jobs, releases, runs and        *)
(* faults.                                                                 *)
(***************************************************************************)
EXTENDS MigrationRunner, WellFoundedInduction, TLAPS

LEMMA LeastIsLeast ==
  ASSUME NEW S, S \subseteq Nat, S # {}
  PROVE  Min(S) \in S /\ \A g \in S : Min(S) <= g
<1> DEFINE R == OpToRel(<, Nat)
<1>1. R = {ss \in Nat \X Nat : ss[1] < ss[2]}
  BY DEF OpToRel
<1>2. PICK x \in S : \A y \in S : <<y, x>> \notin R
  <2>1. IsWellFoundedOn(R, Nat)
    BY NatLessThanWellFounded
  <2> HIDE DEF R
  <2> QED
    BY <2>1, WFMin
<1> HIDE DEF R
<1>3. ASSUME NEW y \in S PROVE x <= y
  <2>1. x \in Nat /\ y \in Nat
    OBVIOUS
  <2>2. y < x => <<y, x>> \in R
    BY <1>1, <2>1
  <2> QED
    BY <1>2, <2>1, <2>2
<1> QED
  BY <1>3 DEF Min

-----------------------------------------------------------------------------
(* The inductive invariant: what a run has passed is in the ledger, and what *)
(* is left of its directory comes after it; the same of a commit left        *)
(* behind.                                                                   *)

Run == [pc : Stopped \cup Statements, left : SUBSET File,
        release : Release \cup {NoFiles}]
Migration == [file : File, contents : Contents]
Started == Statements \cup {"applied"}
Working == {"exec", "insert", "commit"}

Passed(s) ==
  s.pc \in Started =>
    /\ s.release \in Release
    /\ s.left \subseteq DOMAIN s.release
    /\ \A g \in DOMAIN s.release \ s.left :
         ledger[g] = s.release[g] /\ \A f \in s.left : g < f
    /\ s.pc \in Working => s.left # {}
    /\ s.pc = "applied" => s.left = {}

Due(v) ==
  /\ ledger[v.file] = Missing
  /\ \E release \in Release :
       /\ v.file \in DOMAIN release /\ v.contents = release[v.file]
       /\ \A g \in DOMAIN release : g < v.file => ledger[g] = release[g]

KeyHeld(r) == At(r, "commit") => ~KeyTaken(r) /\ ledger[Name(r)] = Missing

Tables ==
  /\ created \in BOOLEAN
  /\ ledger \in [File -> Contents \cup {Missing}]
  /\ schema \in Seq(Migration)
  /\ LedgerIsTruth

Commits ==
  /\ orphans \subseteq Migration
  /\ \A o \in orphans : Due(o)
  /\ \A o, p \in orphans : o.file = p.file => o = p

Jobs ==
  /\ run \in [Runner -> Run]
  /\ \A r \in Runner : Passed(run[r]) /\ KeyHeld(r)

Counters == runs \in 0..MaxRuns /\ faults \in 0..MaxFaults

IInv == Tables /\ Commits /\ Jobs /\ Counters

-----------------------------------------------------------------------------

LEMMA FileFacts ==
  /\ File \subseteq Nat
  /\ \A release \in Release : DOMAIN release \subseteq File
  /\ \A release \in Release : \A f \in DOMAIN release :
       release[f] \in Contents /\ release[f] # Missing
BY ReleaseAssumption DEF File, Contents

LEMMA NameFacts ==
  ASSUME NEW r \in Runner, Jobs, run[r].pc \in Working \cup {"select"}, run[r].left # {}
  PROVE  /\ run[r].release \in Release
         /\ Name(r) \in run[r].left /\ Name(r) \in DOMAIN run[r].release
         /\ \A g \in run[r].left : Name(r) <= g
         /\ Name(r) \in File /\ Name(r) \in Nat
         /\ Version(r) \in Migration
         /\ Version(r).file = Name(r)
         /\ Version(r).contents = run[r].release[Name(r)]
         /\ \A g \in DOMAIN run[r].release :
              g < Name(r) => ledger[g] = run[r].release[g]
<1>1. /\ run[r].release \in Release
      /\ run[r].left \subseteq DOMAIN run[r].release
      /\ \A g \in DOMAIN run[r].release \ run[r].left : ledger[g] = run[r].release[g]
  BY DEF Jobs, Passed, Started, Statements, Working
<1>2. run[r].left \subseteq Nat
  BY <1>1, FileFacts
<1>3. Name(r) \in run[r].left /\ \A g \in run[r].left : Name(r) <= g
  BY <1>2, LeastIsLeast DEF Name
<1>4. Name(r) \in DOMAIN run[r].release /\ Name(r) \in File /\ Name(r) \in Nat
  BY <1>1, <1>3, FileFacts
<1>5. run[r].release[Name(r)] \in Contents
  BY <1>1, <1>4, FileFacts
<1>6. Version(r) \in Migration /\ Version(r).file = Name(r)
      /\ Version(r).contents = run[r].release[Name(r)]
  BY <1>4, <1>5 DEF Version, Migration
<1>7. ASSUME NEW g \in DOMAIN run[r].release, g < Name(r)
      PROVE  ledger[g] = run[r].release[g]
  <2>1. g \in Nat
    BY <1>1, FileFacts
  <2>2. g \notin run[r].left
    BY <1>3, <1>4, <1>7, <2>1
  <2> QED
    BY <1>1, <2>2
<1> QED
  BY <1>1, <1>3, <1>4, <1>6, <1>7

LEMMA InitInv == Init => IInv
<1> SUFFICES ASSUME Init PROVE IInv
  OBVIOUS
<1>1. Tables
  <2>1. schema = <<>> /\ DOMAIN schema = {} /\ schema \in Seq(Migration)
    BY DEF Init
  <2> QED
    BY <2>1 DEF Init, Tables, LedgerIsTruth
<1>2. Commits
  BY DEF Init, Commits
<1>3. Jobs
  BY DEF Init, Jobs, Run, Passed, KeyHeld, At, Stopped, Working, Started, Statements
<1>4. Counters
  BY BoundAssumption DEF Init, Counters
<1> QED
  BY <1>1, <1>2, <1>3, <1>4 DEF IInv

\* A step that changes one job, to a statement that is not COMMIT, and no table.
LEMMA JobStep ==
  ASSUME Commits, Jobs, NEW r \in Runner, NEW s \in Run, s.pc # "commit", Passed(s),
         run' = [run EXCEPT ![r] = s], UNCHANGED <<ledger, orphans>>
  PROVE  Commits' /\ Jobs'
<1>1. run' \in [Runner -> Run]
  BY DEF Jobs
<1>2. Commits'
  BY DEF Commits, Due
<1>3. ASSUME NEW q \in Runner PROVE Passed(run[q])' /\ KeyHeld(q)'
  <2>1. run'[q] = IF q = r THEN s ELSE run[q]
    BY DEF Jobs
  <2>2. Passed(run[q])'
    BY <2>1 DEF Passed, Jobs, Started, Statements
  <2>3. ASSUME At(q, "commit")' PROVE ~KeyTaken(q)' /\ (ledger[Name(q)] = Missing)'
    <3>1. q # r /\ run'[q] = run[q] /\ At(q, "commit")
      BY <2>1, <2>3 DEF At
    <3>2. Name(q)' = Name(q)
      BY <3>1 DEF Name
    <3>3. ~KeyTaken(q) /\ ledger[Name(q)] = Missing
      BY <3>1 DEF Jobs, KeyHeld
    <3>4. ASSUME NEW p \in Runner \ {q}, At(p, "commit")' PROVE (Name(p) # Name(q))'
      <4>1. p # r /\ run'[p] = run[p] /\ At(p, "commit")
        BY <3>4 DEF At, Jobs
      <4>2. Name(p)' = Name(p)
        BY <4>1 DEF Name
      <4> QED
        BY <3>2, <3>3, <4>1, <4>2 DEF KeyTaken
    <3>5. \A o \in orphans' : o.file # Name(q)'
      BY <3>2, <3>3 DEF KeyTaken
    <3> QED
      BY <3>2, <3>3, <3>4, <3>5 DEF KeyTaken
  <2> QED
    BY <2>2, <2>3 DEF KeyHeld
<1> QED
  BY <1>1, <1>2, <1>3 DEF Jobs

\* A version that is due commits: the tables agree again, the history grows by
\* one step of the abstract specification, and no row there was is changed.
LEMMA CommitStep ==
  ASSUME Tables, NEW v \in Migration, Due(v), Committed(v)
  PROVE  /\ Tables'
         /\ History!HistoryNext
         /\ ledger'[v.file] = v.contents
         /\ \A f \in File : f # v.file => ledger'[f] = ledger[f]
         /\ \A f \in File : ledger[f] # Missing => ledger'[f] = ledger[f]
<1>1. v.file \in File /\ v.contents \in Contents /\ v.contents # Missing
  BY ReleaseAssumption DEF Migration
<1>2. v = [file |-> v.file, contents |-> v.contents]
  BY DEF Migration
<1>3. /\ ledger'[v.file] = v.contents
      /\ \A f \in File : f # v.file => ledger'[f] = ledger[f]
      /\ \A f \in File : ledger[f] # Missing => ledger'[f] = ledger[f]
      /\ ledger' \in [File -> Contents \cup {Missing}]
  BY <1>1 DEF Tables, Committed, Due
<1>4. /\ schema' = Append(schema, v)
      /\ schema' \in Seq(Migration)
      /\ DOMAIN schema = 1..Len(schema) /\ Len(schema) \in Nat
      /\ DOMAIN schema' = 1..(Len(schema) + 1)
      /\ \A i \in DOMAIN schema : schema'[i] = schema[i] /\ schema[i] \in Migration
      /\ schema'[Len(schema) + 1] = v
  BY DEF Tables, Committed
<1>5. \A i \in DOMAIN schema : schema[i].file \in File /\ schema[i].contents # Missing
  BY <1>4, ReleaseAssumption DEF Migration
<1>6. LedgerIsTruth'
  <2>1. ASSUME NEW f \in File, ledger'[f] # Missing
        PROVE  History!TookEffect(f, ledger[f])'
    <3>1. CASE f = v.file
      BY <3>1, <1>2, <1>3, <1>4 DEF History!TookEffect
    <3>2. CASE f # v.file
      <4>1. ledger'[f] = ledger[f] /\ ledger[f] # Missing
        BY <3>2, <2>1, <1>3
      <4>2. PICK i \in DOMAIN schema : schema[i] = [file |-> f, contents |-> ledger[f]]
        BY <4>1 DEF Tables, LedgerIsTruth, History!TookEffect
      <4>3. i \in DOMAIN schema' /\ schema'[i] = schema[i]
        BY <1>4
      <4> QED
        BY <4>1, <4>2, <4>3 DEF History!TookEffect
    <3> QED
      BY <3>1, <3>2
  <2>2. ASSUME NEW i \in DOMAIN schema'
        PROVE  ledger'[schema'[i].file] = schema'[i].contents
    <3>1. CASE i = Len(schema) + 1
      BY <3>1, <1>3, <1>4
    <3>2. CASE i # Len(schema) + 1
      <4>1. i \in DOMAIN schema
        BY <3>2, <1>4
      <4>2. schema'[i] = schema[i] /\ ledger[schema[i].file] = schema[i].contents
        BY <4>1, <1>4 DEF Tables, LedgerIsTruth
      <4>3. ledger'[schema[i].file] = ledger[schema[i].file]
        BY <4>1, <4>2, <1>5, <1>3
      <4> QED
        BY <4>2, <4>3
    <3> QED
      BY <3>1, <3>2
  <2> QED
    BY <2>1, <2>2 DEF LedgerIsTruth
<1>7. Tables'
  BY <1>3, <1>4, <1>6 DEF Tables, Committed
<1>8. History!HistoryNext
  <2>1. PICK release \in Release :
          /\ v.file \in DOMAIN release /\ v.contents = release[v.file]
          /\ \A g \in DOMAIN release : g < v.file => ledger[g] = release[g]
    BY DEF Due
  <2>2. \A i \in DOMAIN schema : schema[i].file # v.file
    BY <1>5 DEF Tables, LedgerIsTruth, Due
  <2>3. ASSUME NEW g \in DOMAIN release, g < v.file
        PROVE  History!TookEffect(g, release[g])
    <3>1. g \in File /\ ledger[g] = release[g] /\ release[g] # Missing
      BY <2>1, <2>3, FileFacts
    <3> QED
      BY <3>1 DEF Tables, LedgerIsTruth
  <2>4. schema' = Append(schema, [file |-> v.file, contents |-> release[v.file]])
    BY <1>2, <1>4, <2>1
  <2> QED
    BY <2>1, <2>2, <2>3, <2>4 DEF History!HistoryNext, History!Apply
<1> QED
  BY <1>3, <1>7, <1>8

\* What a run has passed stays in the ledger.
LEMMA PassedStays ==
  ASSUME NEW s \in Run, Passed(s),
         \A f \in File : ledger[f] # Missing => ledger'[f] = ledger[f]
  PROVE  Passed(s)'
<1> SUFFICES ASSUME s.pc \in Started
             PROVE  \A g \in DOMAIN s.release \ s.left : ledger'[g] = ledger[g]
  BY DEF Passed, Started, Statements
<1>1. s.release \in Release
  BY DEF Passed, Started, Statements
<1>2. \A g \in DOMAIN s.release \ s.left :
        g \in File /\ ledger[g] = s.release[g] /\ s.release[g] # Missing
  BY <1>1, FileFacts DEF Passed, Started, Statements
<1> QED
  BY <1>2

\* A transaction left behind, or about to be, stays due while another commits.
LEMMA DueStays ==
  ASSUME NEW v \in Migration, Due(v), NEW f \in File, f # v.file,
         \A g \in File : g # f => ledger'[g] = ledger[g],
         \A g \in File : ledger[g] # Missing => ledger'[g] = ledger[g]
  PROVE  Due(v)'
<1>1. v.file \in File
  BY DEF Migration
<1>2. ledger'[v.file] = Missing
  BY <1>1 DEF Due
<1>3. PICK release \in Release :
          /\ v.file \in DOMAIN release /\ v.contents = release[v.file]
          /\ \A g \in DOMAIN release : g < v.file => ledger[g] = release[g]
  BY DEF Due
<1>4. \A g \in DOMAIN release : g < v.file => ledger'[g] = release[g]
  BY <1>3, FileFacts
<1> QED
  BY <1>2, <1>3, <1>4 DEF Due

LEMMA CommitKeeps ==
  ASSUME IInv, NEW r \in Runner, Commit(r)
  PROVE  IInv' /\ History!HistoryNext
<1> DEFINE v == Version(r)
<1>1. run[r] \in Run /\ run[r].pc = "commit" /\ run[r].left # {} /\ Passed(run[r])
      /\ ~KeyTaken(r) /\ ledger[Name(r)] = Missing
  BY DEF IInv, Jobs, Commit, At, KeyHeld, Passed, Working, Started, Statements
<1>2. /\ run[r].release \in Release
      /\ Name(r) \in run[r].left /\ Name(r) \in DOMAIN run[r].release
      /\ \A g \in run[r].left : Name(r) <= g
      /\ Name(r) \in File /\ Name(r) \in Nat
      /\ v \in Migration /\ v.file = Name(r)
      /\ v.contents = run[r].release[Name(r)]
      /\ \A g \in DOMAIN run[r].release :
           g < Name(r) => ledger[g] = run[r].release[g]
  BY <1>1, NameFacts DEF IInv, Working
<1>3. Due(v)
  BY <1>1, <1>2 DEF Due
<1> HIDE DEF v
<1>4. /\ Tables' /\ History!HistoryNext
      /\ ledger'[v.file] = v.contents
      /\ \A f \in File : f # v.file => ledger'[f] = ledger[f]
      /\ \A f \in File : ledger[f] # Missing => ledger'[f] = ledger[f]
  <2>1. Committed(v)
    BY DEF Commit, v
  <2> QED
    BY <1>2, <1>3, <2>1, CommitStep DEF IInv
<1>5. Commits'
  <2>1. ASSUME NEW o \in orphans PROVE Due(o)'
    <3>1. o \in Migration /\ Due(o) /\ v.file # o.file
      BY <1>1, <1>2 DEF IInv, Commits, KeyTaken
    <3> QED
      BY <3>1, <1>2, <1>4, DueStays
  <2> QED
    BY <2>1 DEF IInv, Commits, Commit
<1>6. PICK s \in Run :
        /\ s = [pc |-> "select", release |-> run[r].release,
                left |-> run[r].left \ {Name(r)}]
        /\ s.pc = "select" /\ s.release = run[r].release
        /\ s.left = run[r].left \ {Name(r)}
  <2> DEFINE u == [pc |-> "select", release |-> run[r].release,
                left |-> run[r].left \ {Name(r)}]
  <2>1. u \in Run /\ u.pc = "select" /\ u.release = run[r].release
        /\ u.left = run[r].left \ {Name(r)}
    BY <1>1 DEF Run, Statements, Stopped
  <2> HIDE DEF u
  <2>2. u = [pc |-> "select", release |-> run[r].release,
                left |-> run[r].left \ {Name(r)}]
    BY DEF u
  <2> QED
    BY <2>1, <2>2
<1>7. Passed(s)'
  <2>1. s.left \subseteq DOMAIN s.release
    BY <1>1, <1>6 DEF Passed, Working, Started, Statements
  <2>2. ASSUME NEW g \in DOMAIN s.release \ s.left
        PROVE  ledger'[g] = s.release[g] /\ \A f \in s.left : g < f
    <3>1. CASE g = Name(r)
      <4>1. \A f \in s.left : f \in Nat /\ f # Name(r) /\ Name(r) <= f
        BY <1>2, <1>6, <2>1, FileFacts
      <4> QED
        BY <4>1, <3>1, <1>2, <1>4, <1>6
    <3>2. CASE g # Name(r)
      <4>1. ledger[g] = s.release[g] /\ \A f \in run[r].left : g < f
        BY <3>2, <1>1, <1>6 DEF Passed, Working, Started, Statements
      <4>2. g \in File /\ s.release[g] # Missing
        BY <1>2, <1>6, FileFacts
      <4> QED
        BY <4>1, <4>2, <1>4, <1>6
    <3> QED
      BY <3>1, <3>2
  <2> QED
    BY <1>2, <1>6, <2>1, <2>2 DEF Passed, Working, Started, Statements
<1>8. run' = [run EXCEPT ![r] = s]
  BY <1>6 DEF Commit, Pass
<1>9. Jobs'
  <2>1. run' \in [Runner -> Run]
    BY <1>6, <1>8 DEF IInv, Jobs
  <2>2. ASSUME NEW q \in Runner PROVE Passed(run[q])' /\ KeyHeld(q)'
    <3>1. run'[q] = IF q = r THEN s ELSE run[q]
      BY <1>8 DEF IInv, Jobs
    <3>2. CASE q = r
      BY <3>1, <3>2, <1>6, <1>7 DEF Passed, KeyHeld, At, Started, Statements
    <3>3. CASE q # r
      <4>1. Passed(run[q])'
        <5>1. PICK t \in Run : t = run[q] /\ Passed(t)
          BY DEF IInv, Jobs
        <5>2. Passed(t)'
          BY <5>1, <1>4, PassedStays
        <5> QED
          BY <5>1, <5>2, <3>1, <3>3
      <4>2. ASSUME At(q, "commit")' PROVE (~KeyTaken(q) /\ ledger[Name(q)] = Missing)'
        <5>1. At(q, "commit") /\ Name(q)' = Name(q)
          BY <4>2, <3>1, <3>3 DEF At, Name
        <5>2. ~KeyTaken(q) /\ ledger[Name(q)] = Missing
          BY <5>1 DEF IInv, Jobs, KeyHeld
        <5>3. Name(q) # Name(r)
          BY <5>2, <1>1, <3>3 DEF KeyTaken, At
        <5>4. Name(q) \in File
          <6>1. run[q].pc \in Working \cup {"select"} /\ run[q].left # {}
            BY <5>1 DEF IInv, Jobs, Passed, At, Working, Started, Statements
          <6> QED
            BY <6>1, NameFacts DEF IInv
        <5>5. ledger'[Name(q)] = Missing
          BY <5>2, <5>3, <5>4, <1>2, <1>4
        <5>6. ASSUME NEW p \in Runner \ {q}, At(p, "commit")' PROVE (Name(p) # Name(q))'
          <6>1. p # r /\ run'[p] = run[p] /\ At(p, "commit")
            BY <5>6, <1>6, <1>8 DEF At, IInv, Jobs
          <6>2. Name(p)' = Name(p)
            BY <6>1 DEF Name
          <6> QED
            BY <5>1, <5>2, <6>1, <6>2 DEF KeyTaken
        <5>7. \A o \in orphans' : o.file # Name(q)'
          BY <5>1, <5>2 DEF KeyTaken, Commit
        <5> QED
          BY <5>1, <5>5, <5>6, <5>7 DEF KeyTaken
      <4> QED
        BY <4>1, <4>2 DEF KeyHeld
    <3> QED
      BY <3>2, <3>3
  <2> QED
    BY <2>1, <2>2 DEF Jobs
<1> QED
  BY <1>4, <1>5, <1>9 DEF IInv, Counters, Commit

\* What a job's step makes of its place, when the tables stay.
LEMMA GotoRun ==
  ASSUME Jobs, NEW r \in Runner, NEW pc \in Stopped \cup Statements, Goto(r, pc)
  PROVE  \E s \in Run : /\ run' = [run EXCEPT ![r] = s]
                        /\ s.pc = pc /\ s.left = run[r].left
                        /\ s.release = run[r].release
<1>1. run[r] \in Run
  BY DEF Jobs
<1> DEFINE s == [run[r] EXCEPT !.pc = pc]
<1>2. s \in Run /\ s.pc = pc /\ s.left = run[r].left /\ s.release = run[r].release
  BY <1>1 DEF Run
<1>3. run' = [run EXCEPT ![r] = s]
  BY DEF Goto
<1> QED
  BY <1>2, <1>3

LEMMA GotoKeeps ==
  ASSUME IInv, NEW r \in Runner, NEW pc \in (Stopped \cup Statements) \ {"commit"},
         Goto(r, pc), UNCHANGED <<ledger, orphans>>,
         pc \in Started => /\ run[r].pc \in Started
                           /\ pc \in Working => run[r].left # {}
                           /\ pc = "applied" => run[r].left = {}
  PROVE  Commits' /\ Jobs'
<1>1. PICK s \in Run : /\ run' = [run EXCEPT ![r] = s]
                       /\ s.pc = pc /\ s.left = run[r].left
                       /\ s.release = run[r].release
  BY GotoRun DEF IInv
<1>2. Passed(run[r])
  BY DEF IInv, Jobs
<1>3. Passed(s)
  BY <1>1, <1>2 DEF Passed, Started, Statements, Working
<1> QED
  BY <1>1, <1>3, JobStep DEF IInv

LEMMA TablesStay ==
  ASSUME Tables, created' \in BOOLEAN, UNCHANGED <<ledger, schema>>
  PROVE  Tables'
BY DEF Tables, LedgerIsTruth, History!TookEffect

LEMMA StartKeeps ==
  ASSUME IInv, NEW r \in Runner, NEW release \in Release, Start(r, release)
  PROVE  IInv'
<1>1. PICK s \in Run : /\ run' = [run EXCEPT ![r] = s] /\ s.pc = "initialize"
                       /\ s.release = release /\ s.left = DOMAIN release
  <2> DEFINE s == [pc |-> "initialize", release |-> release, left |-> DOMAIN release]
  <2>1. s \in Run
    BY FileFacts DEF Run, Statements
  <2> QED
    BY <2>1 DEF Start
<1>2. Passed(s)
  BY <1>1 DEF Passed, Working, Started, Statements
<1>3. Commits' /\ Jobs'
  BY <1>1, <1>2, JobStep DEF IInv, Start, database
<1>4. Tables'
  BY TablesStay DEF IInv, Tables, Start, database
<1>5. Counters'
  BY BoundAssumption DEF IInv, Counters, Start
<1> QED
  BY <1>3, <1>4, <1>5 DEF IInv

LEMMA CreateKeeps ==
  ASSUME IInv, NEW r \in Runner, Initialize(r) \/ Create(r) PROVE IInv'
<1>1. Tables' /\ Counters'
  <2>1. created' \in BOOLEAN /\ UNCHANGED <<ledger, schema>>
    BY DEF IInv, Tables, Initialize, Create, database
  <2> QED
    BY <2>1, TablesStay DEF IInv, Counters, Initialize, Create
<1>2. PICK pc \in {"select", "create", "failed"} : Goto(r, pc)
  BY DEF Initialize, Create
<1>3. run[r].pc \in {"initialize", "create"} /\ UNCHANGED <<ledger, orphans>>
  BY DEF Initialize, Create, At, database
<1>4. pc \in (Stopped \cup Statements) \ {"commit"} /\ pc \notin Working
      /\ pc # "applied" /\ run[r].pc \in Started
  BY <1>3 DEF Stopped, Statements, Working, Started
<1>5. Commits' /\ Jobs'
  BY <1>2, <1>3, <1>4, GotoKeeps
<1> QED
  BY <1>1, <1>5 DEF IInv

\* The other statements that leave the tables and the commits alone, and the
\* failures.
LEMMA ReadKeeps ==
  ASSUME IInv, NEW r \in Runner,
         Exec(r) \/ Finish(r) \/ Fail(r) \/ (Insert(r) /\ ledger[Name(r)] # Missing)
  PROVE  IInv'
<1>1. Tables' /\ Counters'
  <2>1. UNCHANGED <<created, ledger, schema>>
    BY DEF Exec, Finish, Fail, Insert, database
  <2>2. Tables'
    BY <2>1, TablesStay DEF IInv, Tables
  <2>3. UNCHANGED <<runs, faults>> \/ (runs' = runs /\ faults < MaxFaults /\ faults' = faults + 1)
    BY DEF Exec, Finish, Fail, Insert
  <2>4. Counters'
    BY <2>3, BoundAssumption DEF IInv, Counters
  <2> QED
    BY <2>2, <2>4
<1>2. UNCHANGED <<ledger, orphans>>
  BY DEF Exec, Finish, Fail, Insert, database
<1>3. Passed(run[r])
  BY DEF IInv, Jobs
<1>4. \E pc \in (Stopped \cup Statements) \ {"commit"} :
        /\ Goto(r, pc)
        /\ pc \in Started => /\ run[r].pc \in Started
                             /\ pc \in Working => run[r].left # {}
                             /\ pc = "applied" => run[r].left = {}
  <2>1. CASE Goto(r, "failed")
    BY <2>1 DEF Stopped, Started, Statements
  <2>2. CASE At(r, "exec") /\ Goto(r, "insert")
    <3>1. run[r].left # {} /\ run[r].pc \in Started
      BY <2>2, <1>3 DEF Passed, At, Started, Statements, Working
    <3> QED
      BY <2>2, <3>1 DEF Stopped, Started, Statements, Working
  <2>3. CASE At(r, "select") /\ run[r].left = {} /\ Goto(r, "applied")
    BY <2>3 DEF At, Stopped, Started, Statements, Working
  <2> QED
    BY <2>1, <2>2, <2>3 DEF Exec, Finish, Fail, Insert
<1>5. Commits' /\ Jobs'
  BY <1>2, <1>4, GotoKeeps
<1> QED
  BY <1>1, <1>5 DEF IInv

LEMMA SelectKeeps ==
  ASSUME IInv, NEW r \in Runner, Select(r) PROVE IInv'
<1>1. Tables' /\ Counters'
  BY TablesStay DEF IInv, Tables, Counters, Select, database
<1>2. run[r] \in Run /\ Passed(run[r]) /\ run[r].pc = "select" /\ run[r].left # {}
      /\ UNCHANGED <<ledger, orphans>>
  BY DEF IInv, Jobs, Select, At, database
<1>3. CASE Goto(r, "exec")
  <2>1. Commits' /\ Jobs'
    BY <1>2, <1>3, GotoKeeps DEF Stopped, Started, Statements, Working
  <2> QED
    BY <1>1, <2>1 DEF IInv
<1>4. CASE Goto(r, "failed")
  <2>1. Commits' /\ Jobs'
    BY <1>2, <1>4, GotoKeeps DEF Stopped, Started, Statements, Working
  <2> QED
    BY <1>1, <2>1 DEF IInv
<1>5. CASE ledger[Name(r)] = Version(r).contents /\ Pass(r)
  <2>1. /\ run[r].release \in Release
        /\ Name(r) \in run[r].left /\ Name(r) \in DOMAIN run[r].release
        /\ \A g \in run[r].left : Name(r) <= g
        /\ Name(r) \in Nat
        /\ Version(r).contents = run[r].release[Name(r)]
    BY <1>2, NameFacts DEF IInv
  <2>2. PICK s \in Run :
          /\ s = [pc |-> "select", release |-> run[r].release,
                left |-> run[r].left \ {Name(r)}]
          /\ s.pc = "select" /\ s.release = run[r].release
          /\ s.left = run[r].left \ {Name(r)}
    <3> DEFINE u == [pc |-> "select", release |-> run[r].release,
                left |-> run[r].left \ {Name(r)}]
    <3>1. u \in Run /\ u.pc = "select" /\ u.release = run[r].release
          /\ u.left = run[r].left \ {Name(r)}
      BY <1>2 DEF Run, Statements, Stopped
    <3> HIDE DEF u
    <3>2. u = [pc |-> "select", release |-> run[r].release,
                left |-> run[r].left \ {Name(r)}]
      BY DEF u
    <3> QED
      BY <3>1, <3>2
  <2>3. Passed(s)
    <3>1. /\ s.left \subseteq DOMAIN s.release
          /\ \A g \in DOMAIN s.release \ run[r].left :
               ledger[g] = s.release[g] /\ \A f \in run[r].left : g < f
      BY <1>2, <2>2 DEF Passed, Started, Statements
    <3>2. \A f \in s.left : f \in Nat /\ f # Name(r) /\ Name(r) <= f
      BY <2>1, <2>2, <3>1, FileFacts
    <3>3. \A f \in s.left : Name(r) < f
      BY <3>2, <2>1
    <3>4. \A g \in DOMAIN s.release \ s.left :
            ledger[g] = s.release[g] /\ \A f \in s.left : g < f
      BY <3>1, <3>3, <2>1, <2>2, <1>5
    <3> QED
      BY <2>1, <2>2, <3>1, <3>4 DEF Passed, Started, Statements, Working
  <2>4. run' = [run EXCEPT ![r] = s]
    <3>1. run' = [run EXCEPT ![r] = [pc |-> "select", release |-> run[r].release,
                left |-> run[r].left \ {Name(r)}]]
      BY <1>5 DEF Pass
    <3> QED
      BY <2>2, <3>1
  <2>5. Commits' /\ Jobs'
    BY <1>2, <2>2, <2>3, <2>4, JobStep DEF IInv
  <2> QED
    BY <1>1, <2>5 DEF IInv
<1> QED
  BY <1>3, <1>4, <1>5 DEF Select

\* What a job holds while it commits.
LEMMA Holding ==
  ASSUME IInv, NEW q \in Runner, At(q, "commit")
  PROVE  /\ ~KeyTaken(q) /\ ledger[Name(q)] = Missing
         /\ Name(q) \in File
         /\ Version(q) \in Migration /\ Version(q).file = Name(q) /\ Due(Version(q))
<1>1. ~KeyTaken(q) /\ ledger[Name(q)] = Missing
  BY DEF IInv, Jobs, KeyHeld
<1>2. run[q].pc \in Working \cup {"select"} /\ run[q].left # {}
  BY DEF IInv, Jobs, Passed, At, Started, Statements, Working
<1>3. /\ run[q].release \in Release /\ Name(q) \in DOMAIN run[q].release
      /\ Name(q) \in File /\ Version(q) \in Migration
      /\ Version(q).file = Name(q)
      /\ Version(q).contents = run[q].release[Name(q)]
      /\ \A g \in DOMAIN run[q].release :
           g < Name(q) => ledger[g] = run[q].release[g]
  BY <1>2, NameFacts DEF IInv
<1>4. Due(Version(q))
  BY <1>1, <1>3 DEF Due
<1> QED
  BY <1>1, <1>3, <1>4

LEMMA InsertKeeps ==
  ASSUME IInv, NEW r \in Runner, Insert(r), ledger[Name(r)] = Missing
  PROVE  IInv'
<1>1. Tables' /\ Counters'
  BY TablesStay DEF IInv, Tables, Counters, Insert, database
<1>2. Commits'
  BY DEF IInv, Commits, Due, Insert, database
<1>3. At(r, "insert") /\ ~KeyTaken(r) /\ Goto(r, "commit")
      /\ UNCHANGED <<ledger, orphans>>
  BY DEF Insert, database
<1>4. PICK s \in Run : /\ run' = [run EXCEPT ![r] = s]
                       /\ s.pc = "commit" /\ s.left = run[r].left
                       /\ s.release = run[r].release
  BY <1>3, GotoRun DEF IInv, Stopped, Statements
<1>5. run' \in [Runner -> Run] /\ \A q \in Runner : run'[q] = IF q = r THEN s ELSE run[q]
  BY <1>4 DEF IInv, Jobs
<1>6. \A q \in Runner : Name(q)' = Name(q)
  BY <1>4, <1>5 DEF Name
<1>7. ASSUME NEW q \in Runner PROVE Passed(run[q])'
  <2>1. Passed(run[q]) /\ Passed(run[r]) /\ run[r].pc = "insert"
    BY <1>3 DEF IInv, Jobs, At
  <2> QED
    BY <2>1, <1>3, <1>4, <1>5 DEF Passed, Started, Statements, Working
<1>8. ASSUME NEW q \in Runner, At(q, "commit")'
      PROVE  (~KeyTaken(q) /\ ledger[Name(q)] = Missing)'
  <2>1. CASE q = r
    <3>1. ASSUME NEW p \in Runner \ {r}, At(p, "commit")' PROVE (Name(p) # Name(r))'
      <4>1. At(p, "commit")
        BY <3>1, <1>5 DEF At
      <4> QED
        BY <4>1, <1>3, <1>6 DEF KeyTaken
    <3>2. \A o \in orphans' : o.file # Name(r)'
      BY <1>3, <1>6 DEF KeyTaken
    <3>3. ledger'[Name(r)'] = Missing
      BY <1>3, <1>6
    <3> QED
      BY <2>1, <3>1, <3>2, <3>3 DEF KeyTaken
  <2>2. CASE q # r
    <3>1. At(q, "commit")
      BY <2>2, <1>5, <1>8 DEF At
    <3>2. ~KeyTaken(q) /\ ledger[Name(q)] = Missing
      BY <3>1, Holding
    <3>3. ASSUME NEW p \in Runner \ {q}, At(p, "commit")' PROVE (Name(p) # Name(q))'
      <4>1. CASE p = r
        BY <4>1, <2>2, <3>1, <1>3, <1>6 DEF KeyTaken
      <4>2. CASE p # r
        <5>1. At(p, "commit")
          BY <4>2, <3>3, <1>5 DEF At
        <5> QED
          BY <5>1, <3>2, <1>6 DEF KeyTaken
      <4> QED
        BY <4>1, <4>2
    <3>4. (\A o \in orphans' : o.file # Name(q)') /\ ledger'[Name(q)'] = Missing
      BY <3>2, <1>3, <1>6 DEF KeyTaken
    <3> QED
      BY <3>3, <3>4 DEF KeyTaken
  <2> QED
    BY <2>1, <2>2
<1> QED
  BY <1>1, <1>2, <1>5, <1>7, <1>8 DEF IInv, Jobs, KeyHeld

LEMMA AbandonKeeps ==
  ASSUME IInv, NEW r \in Runner, Abandon(r) PROVE IInv'
<1>1. At(r, "commit") /\ Goto(r, "failed") /\ UNCHANGED ledger
  BY DEF Abandon, database
<1>2. Tables'
  <2>1. UNCHANGED <<created, ledger, schema>>
    BY DEF Abandon, database
  <2> QED
    BY <2>1, TablesStay DEF IInv, Tables
<1>3. Counters'
  BY BoundAssumption DEF IInv, Counters, Abandon
<1>4. /\ ~KeyTaken(r) /\ Version(r) \in Migration
      /\ Version(r).file = Name(r) /\ Due(Version(r))
  BY <1>1, Holding
<1>5. PICK v \in Migration : /\ v = Version(r) /\ v.file = Name(r) /\ Due(v)
                             /\ orphans' = orphans \cup {v}
  BY <1>4 DEF Abandon
<1>6. Commits'
  <2>1. \A o \in orphans' : o \in Migration /\ Due(o)
    BY <1>5 DEF IInv, Commits
  <2>2. \A o \in orphans' : Due(o)'
    BY <2>1, <1>1 DEF Due
  <2>3. \A o \in orphans : o.file # v.file
    BY <1>4, <1>5 DEF KeyTaken
  <2> QED
    BY <2>1, <2>2, <2>3, <1>5 DEF IInv, Commits
<1>7. PICK s \in Run : /\ run' = [run EXCEPT ![r] = s]
                       /\ s.pc = "failed" /\ s.left = run[r].left
                       /\ s.release = run[r].release
  BY <1>1, GotoRun DEF IInv, Stopped, Statements
<1>8. run' \in [Runner -> Run] /\ \A q \in Runner : run'[q] = IF q = r THEN s ELSE run[q]
  BY <1>7 DEF IInv, Jobs
<1>9. \A q \in Runner : Name(q)' = Name(q)
  BY <1>7, <1>8 DEF Name
<1>10. ASSUME NEW q \in Runner PROVE Passed(run[q])'
  <2>1. Passed(run[q])
    BY DEF IInv, Jobs
  <2> QED
    BY <2>1, <1>1, <1>7, <1>8 DEF Passed, Started, Statements, Working
<1>11. ASSUME NEW q \in Runner, At(q, "commit")'
       PROVE  (~KeyTaken(q) /\ ledger[Name(q)] = Missing)'
  <2>1. q # r /\ At(q, "commit")
    BY <1>7, <1>8, <1>11 DEF At
  <2>2. ~KeyTaken(q) /\ ledger[Name(q)] = Missing
    BY <2>1, Holding
  <2>3. v.file # Name(q)
    BY <2>1, <2>2, <1>1, <1>5 DEF KeyTaken
  <2>4. ASSUME NEW p \in Runner \ {q}, At(p, "commit")' PROVE (Name(p) # Name(q))'
    <3>1. At(p, "commit")
      BY <2>4, <1>7, <1>8 DEF At
    <3> QED
      BY <3>1, <2>2, <1>9 DEF KeyTaken
  <2>5. (\A o \in orphans' : o.file # Name(q)') /\ ledger'[Name(q)'] = Missing
    BY <2>2, <2>3, <1>1, <1>5, <1>9 DEF KeyTaken
  <2> QED
    BY <2>4, <2>5 DEF KeyTaken
<1> QED
  BY <1>2, <1>3, <1>6, <1>8, <1>10, <1>11 DEF IInv, Jobs, KeyHeld

LEMMA SettleKeeps ==
  ASSUME IInv, NEW o \in orphans, Settle(o)
  PROVE  IInv' /\ [History!HistoryNext]_schema
<1>1. /\ o \in Migration /\ Due(o) /\ UNCHANGED <<run, runs, faults>>
      /\ orphans' = orphans \ {o}
      /\ \A p \in orphans' : p.file # o.file
  BY DEF IInv, Commits, Settle
<1>2. \A q \in Runner : Name(q)' = Name(q)
  BY <1>1 DEF Name
<1>3. \A q \in Runner : At(q, "commit") => o.file # Name(q)
  BY Holding DEF KeyTaken
<1>4. o.file \in File
  BY <1>1 DEF Migration
<1>5. /\ Tables' /\ [History!HistoryNext]_schema
      /\ \A f \in File : f # o.file => ledger'[f] = ledger[f]
      /\ \A f \in File : ledger[f] # Missing => ledger'[f] = ledger[f]
  <2>1. CASE Committed(o)
    BY <2>1, <1>1, CommitStep DEF IInv
  <2>2. CASE UNCHANGED database
    <3>1. Tables'
      BY <2>2, TablesStay DEF IInv, Tables, database
    <3> QED
      BY <3>1, <2>2 DEF database
  <2> QED
    BY <2>1, <2>2 DEF Settle
<1>6. Commits'
  <2>1. ASSUME NEW p \in orphans' PROVE p \in Migration /\ Due(p)'
    <3>1. p \in Migration /\ Due(p) /\ o.file # p.file
      BY <1>1 DEF IInv, Commits
    <3> QED
      BY <3>1, <1>4, <1>5, DueStays
  <2> QED
    BY <2>1, <1>1 DEF IInv, Commits
<1>7. ASSUME NEW q \in Runner PROVE Passed(run[q])' /\ KeyHeld(q)'
  <2>1. Passed(run[q])'
    <3>1. PICK t \in Run : t = run[q] /\ Passed(t)
      BY DEF IInv, Jobs
    <3>2. Passed(t)'
      BY <3>1, <1>5, PassedStays
    <3> QED
      BY <3>1, <3>2, <1>1
  <2>2. ASSUME At(q, "commit")' PROVE (~KeyTaken(q) /\ ledger[Name(q)] = Missing)'
    <3>1. At(q, "commit")
      BY <2>2, <1>1 DEF At
    <3>2. ~KeyTaken(q) /\ ledger[Name(q)] = Missing /\ Name(q) \in File
      BY <3>1, Holding
    <3>3. ledger'[Name(q)'] = Missing
      BY <3>1, <3>2, <1>2, <1>3, <1>5
    <3>4. ASSUME NEW p \in Runner \ {q}, At(p, "commit")' PROVE (Name(p) # Name(q))'
      <4>1. At(p, "commit")
        BY <3>4, <1>1 DEF At
      <4> QED
        BY <4>1, <3>2, <1>2 DEF KeyTaken
    <3>5. \A p \in orphans' : p.file # Name(q)'
      BY <3>2, <1>1, <1>2 DEF KeyTaken
    <3> QED
      BY <3>3, <3>4, <3>5 DEF KeyTaken
  <2> QED
    BY <2>1, <2>2 DEF KeyHeld
<1>8. Jobs'
  <2>1. run' \in [Runner -> Run]
    BY <1>1 DEF IInv, Jobs
  <2> QED
    BY <2>1, <1>7 DEF Jobs
<1> QED
  BY <1>1, <1>5, <1>6, <1>8 DEF IInv, Counters

-----------------------------------------------------------------------------

LEMMA NextKeeps ==
  ASSUME IInv, [Next]_vars PROVE IInv' /\ [History!HistoryNext]_schema
<1>1. ASSUME NEW r \in Runner, NEW release \in Release, Start(r, release)
      PROVE  IInv' /\ UNCHANGED schema
  BY <1>1, StartKeeps DEF Start, database
<1>2. ASSUME NEW r \in Runner, Initialize(r) \/ Create(r)
      PROVE  IInv' /\ UNCHANGED schema
  BY <1>2, CreateKeeps DEF Initialize, Create, database
<1>3. ASSUME NEW r \in Runner, Select(r) PROVE IInv' /\ UNCHANGED schema
  BY <1>3, SelectKeeps DEF Select, database
<1>4. ASSUME NEW r \in Runner, Exec(r) \/ Finish(r) \/ Fail(r)
      PROVE  IInv' /\ UNCHANGED schema
  BY <1>4, ReadKeeps DEF Exec, Finish, Fail, database
<1>5. ASSUME NEW r \in Runner, Insert(r) PROVE IInv' /\ UNCHANGED schema
  <2>1. UNCHANGED schema
    BY <1>5 DEF Insert, database
  <2>2. CASE ledger[Name(r)] = Missing
    BY <1>5, <2>1, <2>2, InsertKeeps
  <2>3. CASE ledger[Name(r)] # Missing
    BY <1>5, <2>1, <2>3, ReadKeeps
  <2> QED
    BY <2>2, <2>3
<1>6. ASSUME NEW r \in Runner, Commit(r) PROVE IInv' /\ History!HistoryNext
  BY <1>6, CommitKeeps
<1>7. ASSUME NEW r \in Runner, Abandon(r) PROVE IInv' /\ UNCHANGED schema
  BY <1>7, AbandonKeeps DEF Abandon, database
<1>8. ASSUME NEW o \in orphans, Settle(o) PROVE IInv' /\ [History!HistoryNext]_schema
  BY <1>8, SettleKeeps
<1>9. CASE UNCHANGED vars
  <2>1. UNCHANGED <<created, ledger, schema, run, orphans, runs, faults>>
    BY <1>9 DEF vars, database
  <2>2. Tables' /\ Commits' /\ Counters'
    BY <2>1, TablesStay DEF IInv, Tables, Commits, Counters, Due
  <2>3. Jobs'
    BY <2>1 DEF IInv, Jobs, Passed, KeyHeld, At, KeyTaken, Name
  <2> QED
    BY <2>1, <2>2, <2>3 DEF IInv
<1> QED
  BY <1>1, <1>2, <1>3, <1>4, <1>5, <1>6, <1>7, <1>8, <1>9 DEF Next, Work

LEMMA InvImplies == IInv => MigrationTypeOK /\ LedgerIsTruth /\ AppliedIsCurrent
<1> SUFFICES ASSUME IInv PROVE MigrationTypeOK /\ LedgerIsTruth /\ AppliedIsCurrent
  OBVIOUS
<1>1. MigrationTypeOK
  BY DEF IInv, Tables, Commits, Jobs, Counters, KeyHeld, Run, Migration, MigrationTypeOK
<1>2. LedgerIsTruth
  BY DEF IInv, Tables
<1>3. ASSUME NEW r \in Runner, At(r, "applied"), NEW f \in DOMAIN run[r].release
      PROVE  History!TookEffect(f, run[r].release[f])
  <2>1. run[r].release \in Release /\ ledger[f] = run[r].release[f]
    BY <1>3 DEF IInv, Jobs, Passed, At, Started
  <2>2. f \in File /\ run[r].release[f] # Missing
    BY <2>1, <1>3, FileFacts
  <2> QED
    BY <2>1, <2>2, <1>2 DEF LedgerIsTruth
<1> QED
  BY <1>1, <1>2, <1>3 DEF AppliedIsCurrent

LEMMA Invariant == Spec => []IInv
<1>1. Init => IInv
  BY InitInv
<1>2. IInv /\ [Next]_vars => IInv'
  BY NextKeeps
<1> QED
  BY <1>1, <1>2, PTL DEF Spec

\* Types hold, and no version ever has two transactions between INSERT and end.
THEOREM MigrationTypes == Spec => []MigrationTypeOK
BY Invariant, InvImplies, PTL

\* The ledger and the migrations that took effect agree at every moment.
THEOREM LedgerTrue == Spec => []LedgerIsTruth
BY Invariant, InvImplies, PTL

\* A run that ended well leaves all of its directory applied, for good.
THEOREM AppliedCurrent == Spec => []AppliedIsCurrent
BY Invariant, InvImplies, PTL

\* Concurrent, failing, abandoned and mixed-release runs implement the abstract
\* history: each file once, whole, after the files before it.
THEOREM RunnerRefinesHistory == Spec => HistorySpec
<1>1. Init => History!HistoryInit
  BY DEF Init, History!HistoryInit
<1>2. IInv /\ [Next]_vars => [History!HistoryNext]_schema
  BY NextKeeps
<1> QED
  BY <1>1, <1>2, Invariant, PTL DEF Spec, HistorySpec, History!HistorySpec
=============================================================================
