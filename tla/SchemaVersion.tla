--------------------------- MODULE SchemaVersion ----------------------------
(***************************************************************************)
(* What a database promises the programs that open it: its schema has one  *)
(* version, which only grows and jumps to that of the program that         *)
(* migrates it, and a program starts to work at its own version only.      *)
(***************************************************************************)
EXTENDS Naturals

CONSTANTS
  Programs,   \* processes that open the database
  Needs       \* the SCHEMA_VERSION each is built with

VARIABLES
  version,    \* of the schema
  working     \* programs that have opened it

SchemaInit == version = 0 /\ working = {}

(* The program may not live to see it.                                     *)
Upgrade(p) ==
  /\ version < Needs[p] /\ version' = Needs[p]
  /\ working' \in {working, working \cup {p}}

Enter(p) ==
  /\ version = Needs[p]
  /\ working' = working \cup {p}
  /\ UNCHANGED version

Leave(p) ==
  /\ working' = working \ {p}
  /\ UNCHANGED version

SchemaNext == \E p \in Programs : Upgrade(p) \/ Enter(p) \/ Leave(p)

SchemaSpec == SchemaInit /\ [][SchemaNext]_<<version, working>>
=============================================================================
