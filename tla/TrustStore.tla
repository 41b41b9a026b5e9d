------------------------------- MODULE TrustStore -------------------------------
(***************************************************************************)
(* What the RegistryTool of ztp/internal/registry_tool.go promises: a store*)
(* with the certificate authority that a cluster trusts for each registry, *)
(* in which each addition is atomic and touches nothing else.              *)
(***************************************************************************)
EXTENDS Naturals

CONSTANTS Servers, MaxCAs

VARIABLE trusted   \* the authority trusted for each server, or 0

TypeOK == trusted \in [Servers -> 0 .. MaxCAs]

Add(server, ca) == trusted' = [trusted EXCEPT ![server] = ca]

Init == TypeOK

Next == \E server \in Servers, ca \in 1 .. MaxCAs : Add(server, ca)

Spec == Init /\ [][Next]_trusted
=============================================================================
