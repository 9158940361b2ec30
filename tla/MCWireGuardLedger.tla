-------------------------- MODULE MCWireGuardLedger --------------------------
(* Three gateways, two free addresses next to the border gateway's own: the     *)
(* ledger fills up, and what a user brings collides with what it holds.         *)
EXTENDS WireGuardLedger
==============================================================================
