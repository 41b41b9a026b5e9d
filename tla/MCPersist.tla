-------------------------------- MODULE MCPersist --------------------------------
(***************************************************************************)
(* Instance of Persist: two attempts with two domains and two addresses of *)
(* one service.  All of them with a user, and one without.                 *)
(***************************************************************************)
EXTENDS Persist

MCForms ==
  {f \in [domain : Domains, ip : [Services -> Addresses], user : BOOLEAN] :
     f.domain = "old" \/ f.ip["ingress"] = "b" => f.user}
=============================================================================
