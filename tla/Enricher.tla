-------------------------------- MODULE Enricher --------------------------------
(***************************************************************************)
(* The start that all the commands have in common: the configuration file  *)
(* is loaded (ztp/internal/config/loader.go) and completed with what the   *)
(* hub and the network say (ztp/internal/enricher.go), in the memory of the*)
(* process.  Each request is a step of its own, so what the memory says may*)
(* be old when it is used, by the commands of the module AddOns.           *)
(*                                                                         *)
(* The SSH keys, that the enricher may generate, are in CreateCluster.     *)
(***************************************************************************)
EXTENDS Integers, FiniteSets

CONSTANTS
  NumClusters,    \* the clusters are numbered, in the order of their names
  NumNodes,       \* the nodes are numbered, in the order of their names
  Masters,        \* those whose name is that of a control plane node
  First,          \* last byte of the address of the first node of a cluster: 10
  IngressByte,    \* that of the internal address of the ingress: 242
  APIByte,        \* that of the internal address of the API: 243
  Bytes,          \* how many values a byte has: 256
  NumRegistries,  \* the registries are numbered
  Configured,     \* the registry of the configuration file, or Unset
  MaxVersion,     \* bound: addresses and certificates that one thing has had
  Processes       \* that run the commands

Clusters == 1 .. NumClusters
Nodes == 1 .. NumNodes
Registries == 1 .. NumRegistries
Versions == 1 .. MaxVersion
Unset == 0
NoAddress == -1

ASSUME EnricherAssumption ==
  /\ NumClusters \in Nat \ {0} /\ NumNodes \in Nat \ {0}
  /\ Masters \subseteq Nodes /\ \A m \in Masters, w \in Nodes \ Masters : m < w
  /\ First \in Nat /\ IngressByte \in Nat /\ APIByte \in Nat /\ Bytes \in Nat
  /\ First < IngressByte /\ IngressByte < APIByte /\ APIByte < Bytes
  /\ NumRegistries \in Nat /\ Configured \in Registries \union {Unset}
  /\ MaxVersion \in Nat \ {0}

VARIABLES
  config,       \* the nodes that the configuration file has for each cluster
  installed,    \* hub: the clusters whose kubeconfig exists
  agents,       \* hub: the nodes of each cluster whose agent reports an external address
  registry,     \* hub: the registry that the configmap names, or Unset without configmap
  certificate,  \* the certificate that each registry presents, or Unset if it is down
  names,        \* DNS: the addresses of the API and of the applications of each cluster
  pc,           \* what each process is doing
  cluster,      \* the cluster that each process is working with
  loaded,       \* the nodes that it loaded from the configuration
  url,          \* the registry that it found
  external,     \* the nodes whose external address it found
  kubeconfig,   \* the clusters whose kubeconfig it found
  ca,           \* the certificate of the registry that it found for each cluster
  resolved      \* the addresses that it found in the DNS for each cluster

outside == <<config, installed, agents, registry, certificate, names>>
memory == <<loaded, url, external, kubeconfig, ca, resolved>>

-----------------------------------------------------------------------------
(* The configuration in memory, before anything is known. *)

NoNodes == [c \in Clusters |-> {}]
NoVersions == [c \in Clusters |-> Unset]

EnricherInit ==
  /\ pc = [p \in Processes |-> "idle"]
  /\ cluster = [p \in Processes |-> 1]
  /\ loaded = [p \in Processes |-> NoNodes]
  /\ url = [p \in Processes |-> Unset]
  /\ external = [p \in Processes |-> NoNodes]
  /\ kubeconfig = [p \in Processes |-> {}]
  /\ ca = [p \in Processes |-> NoVersions]
  /\ resolved = [p \in Processes |-> NoVersions]

ForgetMemory(p) ==
  /\ loaded' = [loaded EXCEPT ![p] = NoNodes]
  /\ url' = [url EXCEPT ![p] = Unset]
  /\ external' = [external EXCEPT ![p] = NoNodes]
  /\ kubeconfig' = [kubeconfig EXCEPT ![p] = {}]
  /\ ca' = [ca EXCEPT ![p] = NoVersions]
  /\ resolved' = [resolved EXCEPT ![p] = NoVersions]

From(p, place) == pc[p] = place
To(p, place) == pc' = [pc EXCEPT ![p] = place] /\ UNCHANGED cluster

-----------------------------------------------------------------------------
(* The addresses of the nodes inside of the network of the cluster. *)

\* The nodes are sorted by name, so the control plane comes first.
Position(n, s) == Cardinality({m \in s : m < n})

\* byte(10 + index)
Address(i) == (First + i) % Bytes

\* Mutant of InternalIP: the workers are numbered apart from the control plane.
InternalIPOfKind(p, c, n) ==
  LET kind == IF n \in Masters THEN Masters ELSE Nodes \ Masters IN
  Address(Position(n, loaded[p][c] \intersect kind))

InternalIP(p, c, n) == Address(Position(n, loaded[p][c]))
VirtualIPs == {IngressByte, APIByte}

-----------------------------------------------------------------------------
(* Load *)

Load(p) ==
  /\ From(p, "load")
  /\ loaded' = [loaded EXCEPT ![p] = config]
  /\ To(p, "config")
  /\ UNCHANGED <<url, external, kubeconfig, ca, resolved>>

ControlPlaneNodes(p, c) == loaded[p][c] \intersect Masters

-----------------------------------------------------------------------------
(* Enrich.  A setter that fails ends the command: see FailEnrich in AddOns.  Those that  *)
(* only compute something from what is already there are part of the next one that asks. *)

\* setOCPTag, setRHCOSRelease and setConfigImageSet come before, and only need the version of
\* OpenShift.  A hub without the configmap has no registry, and that isn't an error.
SetConfigRegistry(p) ==
  /\ From(p, "config")
  /\ url' = [url EXCEPT ![p] = IF Configured # Unset THEN Configured ELSE registry]
  /\ To(p, "agents")
  /\ UNCHANGED <<loaded, external, kubeconfig, ca, resolved>>

\* setSNO to setInternalNodeIPs come before: the pull secret, the keys and the domain have to
\* be in the hub.  The agents are matched with the nodes by the address of the interface.
SetExternalNodeIPs(p) ==
  /\ From(p, "agents")
  /\ LET c == cluster[p] IN
     external' = [external EXCEPT ![p][c] = agents[c] \intersect loaded[p][c]]
  /\ To(p, "kubeconfig")
  /\ UNCHANGED <<loaded, url, kubeconfig, ca, resolved>>

\* A cluster that isn't installed has none, and that isn't an error.
SetKubeconfig(p) ==
  /\ From(p, "kubeconfig")
  /\ LET c == cluster[p] IN
     kubeconfig' = [kubeconfig EXCEPT ![p] = IF c \in installed THEN @ \union {c} ELSE @]
  /\ To(p, "ca")
  /\ UNCHANGED <<loaded, url, external, ca, resolved>>

\* getCA: what the server presents, if there is one.
CanGetCA(p) == url[p] # Unset => certificate[url[p]] # Unset

\* setClusterImageSet, setClusterRegistryURL and setClusterRegistryCA
SetClusterRegistry(p) ==
  /\ From(p, "ca") /\ CanGetCA(p)
  /\ LET c == cluster[p] IN
     ca' = [ca EXCEPT ![p][c] = IF url[p] = Unset THEN Unset ELSE certificate[url[p]]]
  /\ To(p, "names")
  /\ UNCHANGED <<loaded, url, external, kubeconfig, resolved>>

\* resolveDomain: with the resolver of the host, or with those of the nodes of the hub.
CanResolve(p) == names[cluster[p]] # Unset

\* setHostnames, setExternalAPIIP and setExternalIngressIP
SetExternalIPs(p) ==
  /\ From(p, "names") /\ CanResolve(p)
  /\ LET c == cluster[p] IN
     /\ resolved' = [resolved EXCEPT ![p][c] = names[c]]
     /\ IF c < NumClusters
        THEN pc' = [pc EXCEPT ![p] = "agents"] /\ cluster' = [cluster EXCEPT ![p] = c + 1]
        ELSE pc' = [pc EXCEPT ![p] = "task"] /\ cluster' = [cluster EXCEPT ![p] = 1]
  /\ UNCHANGED <<loaded, url, external, kubeconfig, ca>>

Enriching == {"load", "config", "agents", "kubeconfig", "ca", "names"}

EnrichCluster(p) ==
  SetExternalNodeIPs(p) \/ SetKubeconfig(p) \/ SetClusterRegistry(p) \/ SetExternalIPs(p)

Enrich(p) == SetConfigRegistry(p) \/ EnrichCluster(p)

-----------------------------------------------------------------------------
EnricherType ==
  /\ config \in [Clusters -> SUBSET Nodes]
  /\ installed \subseteq Clusters
  /\ agents \in [Clusters -> SUBSET Nodes]
  /\ registry \in Registries \union {Unset}
  /\ certificate \in [Registries -> Versions \union {Unset}]
  /\ names \in [Clusters -> Versions \union {Unset}]
  /\ cluster \in [Processes -> Clusters]
  /\ loaded \in [Processes -> [Clusters -> SUBSET Nodes]]
  /\ url \in [Processes -> Registries \union {Unset}]
  /\ external \in [Processes -> [Clusters -> SUBSET Nodes]]
  /\ kubeconfig \in [Processes -> SUBSET Clusters]
  /\ ca \in [Processes -> [Clusters -> Versions \union {Unset}]]
  /\ resolved \in [Processes -> [Clusters -> Versions \union {Unset}]]
=============================================================================
