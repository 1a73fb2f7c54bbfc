---------------------------- MODULE MigrationsMC ----------------------------
(* TLC instance of Migrations. *)
EXTENDS Migrations

CONSTANTS web1, start1, start2

Runners == {web1, start1, start2}
Versions == {1, 3}
=============================================================================
