---------------------------- MODULE MCMigrations ----------------------------
(***************************************************************************)
(* Instance of Migrations for TLC: a file of two statements that tolerates *)
(* to be repeated, as the repository's own files do, and one of a single   *)
(* statement that does not and has no DOWN section.                        *)
(***************************************************************************)
EXTENDS Migrations

MCFiles == 1..2
MCCreates == <<2, 1>>
MCDrops == <<2, 0>>
=============================================================================
