------------------------- MODULE MCMigrationRunner -------------------------
(***************************************************************************)
(* MigrationRunner for TLC: the last file of the instance carries CREATE  *)
(* INDEX CONCURRENTLY statements, the others carry none.                  *)
(***************************************************************************)
EXTENDS MigrationRunner

CONSTANT Indexes    \* CONCURRENTLY statements in the file that has some

MCFiles == {1, 2}
MCStatements == [f \in MCFiles |-> IF f = 2 THEN Indexes ELSE 0]
=============================================================================
