-------------------------- MODULE MCRestartableWatch --------------------------
(* The restartable watch over two objects. *)
EXTENDS RestartableWatch, TLC
=============================================================================
