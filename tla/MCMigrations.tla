---------------------------- MODULE MCMigrations ----------------------------
(* Model-checking instance of Migrations: two machines that were upgraded  *)
(* and one that was not.                                                   *)
EXTENDS Migrations, TLC

CONSTANTS old, new, newer

MCNeeds == (old :> 1) @@ (new :> 2) @@ (newer :> 2)
=============================================================================
