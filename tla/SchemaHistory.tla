--------------------------- MODULE SchemaHistory ---------------------------
(***************************************************************************)
(* What the migration runner promises of the database: migrations take     *)
(* effect whole, one at a time, each file once whatever its contents, and  *)
(* a release's file only after every file the release sorts before it has  *)
(* taken effect with the contents the release gives it.                    *)
(***************************************************************************)
EXTENDS Naturals, Sequences

CONSTANT
  Release  \* the migration directories: functions from file numbers to contents

VARIABLE
  schema   \* the migrations that took effect, in order

HistoryInit == schema = <<>>

TookEffect(f, c) == \E i \in DOMAIN schema : schema[i] = [file |-> f, contents |-> c]

Apply(release, f) ==
  /\ \A i \in DOMAIN schema : schema[i].file # f
  /\ \A g \in DOMAIN release : g < f => TookEffect(g, release[g])
  /\ schema' = Append(schema, [file |-> f, contents |-> release[f]])

HistoryNext == \E release \in Release : \E f \in DOMAIN release : Apply(release, f)

HistorySpec == HistoryInit /\ [][HistoryNext]_schema
=============================================================================
