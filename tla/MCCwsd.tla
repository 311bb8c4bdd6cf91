-------------------------------- MODULE MCCwsd --------------------------------
(***************************************************************************)
(* A small instance of Cwsd for TLC.                                        *)
(***************************************************************************)
EXTENDS Cwsd

CONSTANT L1
==============================================================================
