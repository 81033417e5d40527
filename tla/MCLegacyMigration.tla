---- MODULE MCLegacyMigration ----
(* A small instance of LegacyMigration. *)
EXTENDS LegacyMigration

CONSTANTS a, b
====
