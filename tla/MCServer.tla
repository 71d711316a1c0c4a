------------------------------ MODULE MCServer ------------------------------
EXTENDS Server, TLC

NoFaults    == {}
AllocFaults == {"alloc"}
AllFaults   == {"signal", "alloc"}

Symmetry == Permutations(Sessions)
=============================================================================
