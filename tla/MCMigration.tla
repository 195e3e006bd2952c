---------------------------- MODULE MCMigration ----------------------------
(* An entry whose migration fails, and a user who works before it is retried. *)
EXTENDS Migration

=============================================================================
