--------------------------- MODULE MCTarsDispatch ---------------------------
(* Small instances of TarsDispatch for TLC.                                *)
EXTENDS TarsDispatch

CONSTANTS r1, r2, r3
=============================================================================
