---------------------------- MODULE MCCreateCluster ----------------------------
(* One process with two clusters, to check the loops of a command over them and   *)
(* the commands that follow one that was killed; or two processes with one cluster,*)
(* to check what their commands do to each other.                                  *)
EXTENDS CreateCluster, TLC
=============================================================================
