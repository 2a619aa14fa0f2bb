-------------------------- MODULE MCMainController --------------------------
EXTENDS MainControllerProofs, TLC
CONSTANTS c1, c2
Symmetry == Permutations(Command)

\* A bound of the run faults: the report of a runout comes without another fault.
RunoutAlone ==
    faults["runout"] > 0 => \A k \in FaultKinds \ {"runout"} : faults[k] = 0
=============================================================================
