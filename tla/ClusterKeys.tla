------------------------------- MODULE ClusterKeys -------------------------------
(***************************************************************************)
(* What `create cluster` and `delete cluster` promise of the SSH keys, of  *)
(* ztp/internal/enricher.go and ztp/internal/cmd/cluster: a cluster has one*)
(* pair of keys from its creation to its deletion, that is of no other     *)
(* cluster.  Nothing is promised of a cluster that is torn: one that a     *)
(* command left half done, or that two commands worked with.               *)
(***************************************************************************)
EXTENDS Naturals

CONSTANT Clusters

VARIABLES
  pairs,    \* the pairs of keys of each cluster that isn't torn: none or one
  issued,   \* pairs generated so far, that are numbered
  torn

vars == <<pairs, issued, torn>>

Init == pairs = [c \in Clusters |-> {}] /\ issued = 0 /\ torn = {}

\* Commands generate pairs, that they use or not.
Issue == issued' = issued + 1 /\ UNCHANGED <<pairs, torn>>

Create(c, k) ==
  /\ c \notin torn /\ pairs[c] = {}
  /\ \A d \in Clusters : k \notin pairs[d]
  /\ pairs' = [pairs EXCEPT ![c] = {k}]
  /\ UNCHANGED <<issued, torn>>

Delete(c) ==
  /\ pairs[c] # {}
  /\ pairs' = [pairs EXCEPT ![c] = {}]
  /\ UNCHANGED <<issued, torn>>

Tear(some) ==
  /\ torn' = torn \union some
  /\ pairs' = [c \in Clusters |-> IF c \in some THEN {} ELSE pairs[c]]
  /\ UNCHANGED issued

\* A complete deletion leaves nothing of the commands before it.
Mend(c) ==
  /\ torn' = torn \ {c}
  /\ UNCHANGED <<pairs, issued>>

Next ==
  \/ Issue
  \/ \E c \in Clusters : (\E k \in 1 .. issued : Create(c, k)) \/ Delete(c) \/ Mend(c)
  \/ \E some \in SUBSET Clusters : Tear(some)

Spec == Init /\ [][Next]_vars
=============================================================================
