-------------------------------- MODULE MCAddOns --------------------------------
EXTENDS AddOns, TLC

\* The first cluster can grow on both sides, and the second one at the end, with a worker whose
\* address is that of the ingress.
MCInitial == 1 :> {2} @@ 2 :> {1, 2}
Symmetry == Permutations(Processes)
=============================================================================
