------------------------------- MODULE MCStorage -------------------------------
EXTENDS Storage, TLC

\* The first cluster has one node for ever or grows at the start of the list of nodes, and the
\* second one is not installed.
MCInitial == 1 :> {2} @@ 2 :> {1}
=============================================================================
