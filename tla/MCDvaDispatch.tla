--------------------------- MODULE MCDvaDispatch ---------------------------
(* Small instances of DvaDispatch for TLC.                                  *)
EXTENDS DvaDispatch

CONSTANTS r1, r2, r3

\* All that the bound on idle invocations leaves to do is done: the timer would
\* go on sending headers.  A step of its own, so that TLC reports any other stop.
IdleBoundReached == pc = "idle" /\ Work = {} /\ idle = MaxIdle /\ UNCHANGED vars

MCNext == Next \/ IdleBoundReached

MCSpec == Init /\ [][MCNext]_vars

MCFairSpec == MCSpec /\ WF_vars(Dispatcher)
=============================================================================
