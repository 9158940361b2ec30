---------------------------- MODULE MCVniLedger -----------------------------
(* An instance of VniLedger for TLC.  Keys and jobs are interchangeable,   *)
(* but the run checks a liveness property too, so no symmetry is declared. *)
EXTENDS VniLedger
=============================================================================
