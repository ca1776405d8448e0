-------------------------- MODULE MCDatabaseWriter --------------------------
(* Three operations, batches and scripts of two rows, one crash.           *)
EXTENDS DatabaseWriter
=============================================================================
