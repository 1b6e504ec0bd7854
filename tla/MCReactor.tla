----------------------------- MODULE MCReactor -----------------------------
(***************************************************************************)
(* A small Reactor for TLC.                                                *)
(***************************************************************************)
EXTENDS Reactor
=============================================================================
