---------------------------- MODULE MCMigrations ----------------------------
(* Two migrators and their database, by themselves: the one that the         *)
(* persistence manager starts, and one from the command line.               *)
EXTENDS Migrations

MCMigrationPool == [p \in Migrators |-> IF p = "manager" THEN 1 ELSE 2]
=============================================================================
