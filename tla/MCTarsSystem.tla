---------------------------- MODULE MCTarsSystem ----------------------------
(* Small instances of TarsSystem for TLC.                                    *)
EXTENDS TarsSystem

CONSTANTS r1, r2

\* The part of the state space searched for a counterexample: r1 alone is
\* negated, r2 appears after the first failure, housekeeping starts when all
\* failures are over and no invocation runs.
KeptFileSearch ==
    /\ (status[r1] = "Pass" => pc = "idle")
    /\ status[r2] # "none" => failures > 0
    /\ status[r2] # "Negated"
    /\ step # "idle" => failures = MaxFailures /\ pc = "idle"

\* One file of each kind: r1 is sent as a pass, then r2 as a negation.
OneOfEachKind ==
    /\ status[r1] # "Negated"
    /\ status[r2] # "none" => exported[r1] = "Processed"
    /\ status[r2] = "Pass" => exported[r2] = "Unprocessed"
=============================================================================
