------------------------------- MODULE MCApplier -------------------------------
(* A set like the ones of the templates of the commands: two namespaces, one with *)
(* the subscription of an operator and an object that the operator finalizes, of  *)
(* a kind that the operator brings; the other with an object of a kind that the   *)
(* set defines, that has a status; and a global object.                           *)
EXTENDS Applier, TLC

CONSTANTS ns1, ns2, crd, subscription, opcrd, operand, custom, global

MCPosition ==
  (ns1 :> 1) @@ (ns2 :> 2) @@ (crd :> 3) @@ (subscription :> 4) @@ (operand :> 5)
    @@ (custom :> 6) @@ (global :> 7)
MCOperator == opcrd :> subscription
MCNamespaceOf ==
  (subscription :> ns1) @@ (operand :> ns1) @@ (custom :> ns2) @@ (global :> NoNamespace)
MCKindOf ==
  (subscription :> BuiltIn) @@ (operand :> opcrd) @@ (custom :> crd) @@ (global :> BuiltIn)
=============================================================================
