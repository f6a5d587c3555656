------------------------- MODULE MCMigrationRunner -------------------------
(* A first release, the next one, one that edits a file already shipped and *)
(* one whose new file sorts between the others.                             *)
EXTENDS MigrationRunner, TLC

CONSTANTS core, extra, edited

First == 1 :> core
Second == 1 :> core @@ 3 :> extra
Edited == 1 :> edited @@ 3 :> extra
Between == 1 :> core @@ 2 :> extra @@ 3 :> extra
Releases == {First, Second, Edited, Between}
=============================================================================
