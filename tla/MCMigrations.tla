---------------------------- MODULE MCMigrations ----------------------------
(* Migrations on a small instance: two versions that can be applied, and   *)
(* manager.py behind them.                                                 *)
EXTENDS Migrations

CONSTANTS v1, v2, manager

MCFiles == <<v1, v2, manager>>
=============================================================================
