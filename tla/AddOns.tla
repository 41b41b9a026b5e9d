--------------------------------- MODULE AddOns ---------------------------------
(***************************************************************************)
(* The commands that create and delete what the clusters have besides of   *)
(* the storage: the load balancer (ztp/internal/cmd/metallb), the user     *)
(* interface (cmd/ui) and the policies that send the pulls of images to    *)
(* the registry (cmd/icsp).  And of `create cluster` and `delete cluster`, *)
(* what the others depend on: the addresses given to the nodes.            *)
(*                                                                         *)
(* All of them start with the enricher, and then work with the clusters one*)
(* by one with what was in the memory then.  Several may run at the same   *)
(* time, and each may be killed or fail at any point, while the            *)
(* configuration, the DNS, the registry and the clusters change.           *)
(*                                                                         *)
(* The applier is detailed in Applier, the registry tool in RegistryTool,  *)
(* and the rest of the commands of the clusters in CreateCluster.          *)
(***************************************************************************)
EXTENDS Enricher

CONSTANTS
  Initial,        \* the nodes that each cluster has at the start
  Installed,      \* the clusters that are installed at the start, with load balancers or without
  Named,          \* the registry that the hub names at the start, or Unset
  NumCatalogs,    \* the catalogs of the hub are numbered
  MaxRuns,        \* bound: commands run
  MaxOverlapped,  \* bound: of those, the first ones may run at the same time
  MaxEvents       \* bound: changes of what is outside of the program

Catalogs == 1 .. NumCatalogs

ASSUME AddOnsAssumption ==
  /\ Initial \in [Clusters -> SUBSET Nodes] /\ Installed \subseteq Clusters
  /\ NumCatalogs \in Nat /\ Named \in Registries \union {Unset}
  /\ MaxRuns \in Nat /\ MaxOverlapped \in Nat /\ MaxEvents \in Nat

VARIABLES
  address,   \* hub: last byte of the internal address given to each node (NMStateConfig)
  pool,      \* clusters: the external addresses given to the load balancer (IPAddressPool)
  balancer,  \* clusters: the rest of the objects of the load balancer
  ui,        \* the clusters with the user interface
  trusted,   \* clusters: the certificate trusted for each registry
  mirrors,   \* clusters: the registry in the policy of each catalog
  command,   \* what each process runs
  waits,     \* the processes that were asked to wait
  left,      \* the nodes or catalogs that the process has still to do
  outcome,   \* of the task of each cluster
  exit,      \* exit code of the command
  runs,      \* commands run so far
  events,    \* changes so far
  shifted,   \* history: the clusters whose nodes changed other than by the end
  moved,     \* history: those whose names changed when they were in use
  renamed,   \* history: another registry was named when one was in use
  overlapped \* history: two commands ran at the same time

clusters == <<address, pool, balancer, ui, trusted, mirrors>>
process == <<command, waits, left, outcome, exit>>
history == <<shifted, moved, renamed, overlapped>>
vars == <<outside, pc, cluster, memory, clusters, process, runs, events, history>>

-----------------------------------------------------------------------------
NoMirrors == [k \in Catalogs |-> Unset]

Init ==
  /\ EnricherInit
  /\ config = Initial /\ installed = Installed
  /\ agents = [c \in Clusters |-> IF c \in Installed THEN Initial[c] ELSE {}]
  /\ registry = Named
  /\ certificate = [r \in Registries |-> 1]
  /\ names = [c \in Clusters |-> 1]
  /\ address = [c \in Clusters |-> [n \in Nodes |->
       IF c \in Installed /\ n \in Initial[c] THEN Address(Position(n, Initial[c])) ELSE NoAddress]]
  /\ \E balanced \in {{}, Installed} :
       /\ pool = [c \in Clusters |-> IF c \in balanced THEN names[c] ELSE Unset]
       /\ balancer = [c \in Clusters |-> IF c \in balanced THEN "announced" ELSE "absent"]
  /\ ui = {}
  /\ trusted = [c \in Clusters |-> [r \in Registries |-> Unset]]
  /\ mirrors = [c \in Clusters |-> NoMirrors]
  /\ command = [p \in Processes |-> "none"]
  /\ waits = {}
  /\ left = [p \in Processes |-> {}]
  /\ outcome = [p \in Processes |-> [c \in Clusters |-> "none"]]
  /\ exit = [p \in Processes |-> "none"]
  /\ runs = 0 /\ events = 0
  /\ shifted = {} /\ moved = {} /\ renamed = FALSE /\ overlapped = FALSE

Busy == {p \in Processes : pc[p] # "idle"}
IsFirst(n, s) == n \in s /\ \A m \in s : n <= m

-----------------------------------------------------------------------------
(* What is outside of the program. *)

Happen ==
  /\ events < MaxEvents /\ events' = events + 1
  /\ UNCHANGED <<pc, cluster, memory, clusters, process, runs>>

\* The new nodes come after those that there were.
Appends(old, new) == old \subseteq new /\ \A n \in old, m \in new \ old : n < m

\* A node is added to the file, or removed from it.
EditConfig(c, n) ==
  /\ config' = [config EXCEPT ![c] = IF n \in @ THEN @ \ {n} ELSE @ \union {n}]
  /\ shifted' = IF Appends(config[c], config'[c]) THEN shifted ELSE shifted \union {c}
  /\ UNCHANGED <<installed, agents, registry, certificate, names, moved, renamed, overlapped>>

Install(c) ==
  /\ c \notin installed /\ \E n \in Nodes : address[c][n] # NoAddress
  /\ installed' = installed \union {c}
  /\ UNCHANGED <<config, agents, registry, certificate, names, history>>

Report(c, n) ==
  /\ n \notin agents[c] /\ address[c][n] # NoAddress
  /\ agents' = [agents EXCEPT ![c] = @ \union {n}]
  /\ UNCHANGED <<config, installed, registry, certificate, names, history>>

Move(c) ==
  /\ names[c] < MaxVersion
  /\ names' = [names EXCEPT ![c] = @ + 1]
  /\ moved' = IF pool[c] = Unset /\ Busy = {} THEN moved ELSE moved \union {c}
  /\ UNCHANGED <<config, installed, agents, registry, certificate, shifted, renamed, overlapped>>

Replace(r) ==
  /\ certificate[r] < MaxVersion
  /\ certificate' = [certificate EXCEPT ![r] = @ + 1]
  /\ UNCHANGED <<config, installed, agents, registry, names, history>>

Register(r) ==
  /\ registry # r /\ registry' = r
  /\ renamed' = (renamed \/ Busy # {} \/ \E c \in Clusters : mirrors[c] # NoMirrors)
  /\ UNCHANGED <<config, installed, agents, certificate, names, shifted, moved, overlapped>>

Event ==
  /\ Happen
  /\ \/ \E c \in Clusters : Install(c) \/ Move(c)
     \/ \E c \in Clusters, n \in Nodes : EditConfig(c, n) \/ Report(c, n)
     \/ \E r \in Registries : Replace(r)
     \/ \E r \in Registries \union {Unset} : Register(r)

\* The operator of the load balancer starts to announce the addresses of the pool.
Announce ==
  /\ \E c \in Clusters :
       /\ balancer[c] = "complete"
       /\ balancer' = [balancer EXCEPT ![c] = "announced"]
  /\ UNCHANGED <<outside, pc, cluster, memory, address, pool, ui, trusted, mirrors, process,
                 runs, events, history>>

\* The API of the cluster answers to who has only its name.
Reachable(c) == c \in installed /\ balancer[c] = "announced" /\ pool[c] = names[c]

-----------------------------------------------------------------------------
(* The start and the end of a command. *)

Start(p, what, wait) ==
  /\ From(p, "idle") /\ runs < MaxRuns /\ (Busy # {} => runs < MaxOverlapped)
  /\ runs' = runs + 1
  /\ To(p, "load")
  /\ command' = [command EXCEPT ![p] = what]
  /\ waits' = IF wait THEN waits \union {p} ELSE waits
  /\ overlapped' = (overlapped \/ Busy # {})
  /\ UNCHANGED <<outside, memory, clusters, left, outcome, exit, events, shifted, moved, renamed>>

StartCreateCluster(p) == Start(p, "create cluster", FALSE)
StartDeleteCluster(p) == Start(p, "delete cluster", FALSE)
StartCreateMetalLB(p) == \E wait \in BOOLEAN : Start(p, "create metallb", wait)
StartDeleteMetalLB(p) == Start(p, "delete metallb", FALSE)
StartCreateUI(p) == Start(p, "create ui", FALSE)
StartDeleteUI(p) == Start(p, "delete ui", FALSE)
StartCreateICSP(p) == Start(p, "create icsp", FALSE)

\* These stop at the first cluster that fails; the others only write the error.
Strict(p) == command[p] \in {"create cluster", "delete cluster", "create metallb"}

Exit(p, code) ==
  /\ pc' = [pc EXCEPT ![p] = "done"]
  /\ exit' = [exit EXCEPT ![p] = code]
  /\ UNCHANGED cluster

Forget(p) ==
  /\ pc' = [pc EXCEPT ![p] = "idle"]
  /\ cluster' = [cluster EXCEPT ![p] = 1]
  /\ command' = [command EXCEPT ![p] = "none"]
  /\ waits' = waits \ {p}
  /\ left' = [left EXCEPT ![p] = {}]
  /\ outcome' = [outcome EXCEPT ![p] = [c \in Clusters |-> "none"]]
  /\ exit' = [exit EXCEPT ![p] = "none"]
  /\ ForgetMemory(p)
  /\ UNCHANGED <<outside, clusters, runs, events, history>>

End(p) == From(p, "done") /\ Forget(p)
Die(p) == pc[p] \notin {"idle", "done"} /\ Forget(p)

\* A file, a request or a value that isn't right.
FailEnrich(p) ==
  /\ pc[p] \in Enriching
  /\ Exit(p, "1")
  /\ UNCHANGED <<outside, memory, clusters, command, waits, left, outcome, runs, events, history>>

\* The end of the task of a cluster.
EndTask(p, how) ==
  /\ outcome' = [outcome EXCEPT ![p][cluster[p]] = how]
  /\ left' = [left EXCEPT ![p] = {}]
  /\ IF how = "failed" /\ Strict(p) THEN Exit(p, "1")
     ELSE IF cluster[p] < NumClusters
          THEN /\ pc' = [pc EXCEPT ![p] = "task"] /\ cluster' = [cluster EXCEPT ![p] = @ + 1]
               /\ UNCHANGED exit
     ELSE IF p \in waits
          THEN /\ pc' = [pc EXCEPT ![p] = "wait"] /\ cluster' = [cluster EXCEPT ![p] = 1]
               /\ UNCHANGED exit
     ELSE Exit(p, "0")
  /\ UNCHANGED <<command, waits>>

\* Another step of the same task.
Continue(p, place, todo) ==
  /\ To(p, place)
  /\ left' = [left EXCEPT ![p] = todo]
  /\ UNCHANGED <<command, waits, outcome, exit>>

Tasks == {"task", "addresses", "pool", "services", "apply", "remove", "crds", "trust", "mirrors"}

FailTask(p) ==
  /\ pc[p] \in Tasks
  /\ EndTask(p, "failed")
  /\ UNCHANGED <<outside, memory, clusters, runs, events, history>>

\* The client connects through the first node of the control plane whose address is known.
Tunnelled(p) ==
  \E n \in Nodes : IsFirst(n, ControlPlaneNodes(p, cluster[p]) \intersect external[p][cluster[p]])
HasKubeconfig(p) == cluster[p] \in kubeconfig[p]

Running(p, what, place) == command[p] = what /\ From(p, place)
Quiet == UNCHANGED <<outside, memory, runs, events, history>>

-----------------------------------------------------------------------------
(* create cluster and delete cluster *)

Give(p, n) ==
  LET c == cluster[p] IN
  address' = IF address[c][n] # NoAddress THEN address
             ELSE [address EXCEPT ![c][n] = InternalIP(p, c, n)]

StartAddresses(p) ==
  /\ Running(p, "create cluster", "task")
  /\ LET todo == loaded[p][cluster[p]] IN
     IF todo = {} THEN EndTask(p, "ok") ELSE Continue(p, "addresses", todo)
  /\ UNCHANGED clusters /\ Quiet

\* The objects that exist are left as they are: a node keeps the address that it has.
WriteAddress(p) ==
  /\ From(p, "addresses")
  /\ \E n \in Nodes :
       /\ IsFirst(n, left[p])
       /\ Give(p, n)
       /\ IF left[p] = {n} THEN EndTask(p, "ok") ELSE Continue(p, "addresses", left[p] \ {n})
  /\ UNCHANGED <<pool, balancer, ui, trusted, mirrors>> /\ Quiet

\* With the objects of the hub the hosts go away, and all that was in the cluster.  The
\* kubeconfigs that other processes have in memory are of no use.
DeleteCluster(p) ==
  /\ Running(p, "delete cluster", "task")
  /\ LET c == cluster[p] IN
     /\ address' = [address EXCEPT ![c] = [n \in Nodes |-> NoAddress]]
     /\ installed' = installed \ {c}
     /\ agents' = [agents EXCEPT ![c] = {}]
     /\ pool' = [pool EXCEPT ![c] = Unset]
     /\ balancer' = [balancer EXCEPT ![c] = "absent"]
     /\ ui' = ui \ {c}
     /\ trusted' = [trusted EXCEPT ![c] = [r \in Registries |-> Unset]]
     /\ mirrors' = [mirrors EXCEPT ![c] = NoMirrors]
     /\ kubeconfig' = [q \in Processes |-> kubeconfig[q] \ {c}]
     /\ shifted' = IF Busy = {p} THEN shifted \ {c} ELSE shifted
     /\ moved' = IF Busy = {p} THEN moved \ {c} ELSE moved
  /\ EndTask(p, "ok")
  /\ UNCHANGED <<config, registry, certificate, names, loaded, url, external, ca, resolved,
                 runs, events, renamed, overlapped>>

-----------------------------------------------------------------------------
(* create metallb and delete metallb *)

CheckMetalLB(p) ==
  /\ command[p] \in {"create metallb", "delete metallb"} /\ From(p, "task")
  /\ IF HasKubeconfig(p) /\ Tunnelled(p)
     THEN Continue(p, IF command[p] = "create metallb" THEN "pool" ELSE "remove", {})
     ELSE EndTask(p, "failed")
  /\ UNCHANGED clusters /\ Quiet

\* The pool has what the DNS said when the command started.
ApplyPool(p) ==
  /\ From(p, "pool") /\ HasKubeconfig(p)
  /\ LET c == cluster[p] IN
     pool' = IF pool[c] # Unset THEN pool ELSE [pool EXCEPT ![c] = resolved[p][c]]
  /\ Continue(p, "services", {})
  /\ UNCHANGED <<address, balancer, ui, trusted, mirrors>> /\ Quiet

ApplyServices(p) ==
  /\ From(p, "services") /\ HasKubeconfig(p)
  /\ LET c == cluster[p] IN
     balancer' = IF balancer[c] # "absent" THEN balancer
                 ELSE [balancer EXCEPT ![c] = "complete"]
  /\ EndTask(p, "ok")
  /\ UNCHANGED <<address, pool, ui, trusted, mirrors>> /\ Quiet

\* Mutant of WaitReachable: one iteration too many.
WaitTooFar(p) ==
  /\ From(p, "wait") /\ Reachable(cluster[p])
  /\ IF cluster[p] <= NumClusters
     THEN /\ cluster' = [cluster EXCEPT ![p] = @ + 1]
          /\ UNCHANGED <<pc, exit>>
     ELSE Exit(p, "0")
  /\ UNCHANGED <<clusters, command, waits, left, outcome>> /\ Quiet

\* Mutant of WaitReachable: waits only for the first cluster.
WaitFirst(p) ==
  /\ From(p, "wait") /\ Reachable(cluster[p])
  /\ Exit(p, "0")
  /\ UNCHANGED <<clusters, command, waits, left, outcome>> /\ Quiet

WaitReachable(p) ==
  /\ From(p, "wait") /\ Reachable(cluster[p])
  /\ IF cluster[p] < NumClusters
     THEN /\ cluster' = [cluster EXCEPT ![p] = @ + 1]
          /\ UNCHANGED <<pc, exit>>
     ELSE Exit(p, "0")
  /\ UNCHANGED <<clusters, command, waits, left, outcome>> /\ Quiet

\* One deadline for all the clusters.
TimeOut(p) ==
  /\ From(p, "wait")
  /\ Exit(p, "1")
  /\ UNCHANGED <<clusters, command, waits, left, outcome>> /\ Quiet

DeleteMetalLB(p) ==
  /\ Running(p, "delete metallb", "remove") /\ HasKubeconfig(p)
  /\ LET c == cluster[p] IN
     /\ pool' = [pool EXCEPT ![c] = Unset]
     /\ balancer' = [balancer EXCEPT ![c] = "absent"]
     /\ moved' = IF Busy = {p} THEN moved \ {c} ELSE moved
  /\ Continue(p, "crds", {})
  /\ UNCHANGED <<outside, memory, address, ui, trusted, mirrors, runs, events,
                 shifted, renamed, overlapped>>

\* Only with the flag --crds, and then for the two operators.  The objects are already gone.
DeleteCRDs(p) ==
  /\ From(p, "crds")
  /\ EndTask(p, "ok")
  /\ UNCHANGED clusters /\ Quiet

-----------------------------------------------------------------------------
(* create ui and delete ui, that need the load balancer: their client has no tunnel *)

CheckUI(p) ==
  /\ command[p] \in {"create ui", "delete ui"} /\ From(p, "task")
  /\ IF HasKubeconfig(p) /\ Reachable(cluster[p])
     THEN Continue(p, "apply", {})
     ELSE EndTask(p, "failed")
  /\ UNCHANGED clusters /\ Quiet

ApplyUI(p) ==
  /\ From(p, "apply") /\ HasKubeconfig(p) /\ Reachable(cluster[p])
  /\ ui' = IF command[p] = "create ui" THEN ui \union {cluster[p]} ELSE ui \ {cluster[p]}
  /\ EndTask(p, "ok")
  /\ UNCHANGED <<address, pool, balancer, trusted, mirrors>> /\ Quiet

-----------------------------------------------------------------------------
(* create icsp *)

CheckICSP(p) ==
  /\ Running(p, "create icsp", "task")
  /\ IF HasKubeconfig(p) /\ url[p] # Unset /\ ca[p][cluster[p]] # Unset /\ Tunnelled(p)
     THEN Continue(p, "trust", {})
     ELSE EndTask(p, "failed")
  /\ UNCHANGED clusters /\ Quiet

\* Mutant of TrustRegistry: any certificate of the registry is good enough.
TrustNewRegistry(p) ==
  /\ From(p, "trust") /\ HasKubeconfig(p)
  /\ LET c == cluster[p] IN
     trusted' = IF trusted[c][url[p]] # Unset THEN trusted
                ELSE [trusted EXCEPT ![c][url[p]] = ca[p][c]]
  /\ IF Catalogs = {} THEN EndTask(p, "ok") ELSE Continue(p, "mirrors", Catalogs)
  /\ UNCHANGED <<address, pool, balancer, ui, mirrors>> /\ Quiet

\* The list of catalogs is read before, and the policies are created after the registry is
\* trusted.  IsTrusted and AddTrusted are one step, as in TrustStore.
TrustRegistry(p) ==
  /\ From(p, "trust") /\ HasKubeconfig(p)
  /\ LET c == cluster[p] IN trusted' = [trusted EXCEPT ![c][url[p]] = ca[p][c]]
  /\ IF Catalogs = {} THEN EndTask(p, "ok") ELSE Continue(p, "mirrors", Catalogs)
  /\ UNCHANGED <<address, pool, balancer, ui, mirrors>> /\ Quiet

\* A policy that exists stays, whatever the registry that it names.
CreateCatalogICSP(p) ==
  /\ From(p, "mirrors") /\ HasKubeconfig(p)
  /\ \E k \in Catalogs :
       /\ IsFirst(k, left[p])
       /\ LET c == cluster[p] IN
          mirrors' = IF mirrors[c][k] # Unset THEN mirrors ELSE [mirrors EXCEPT ![c][k] = url[p]]
       /\ IF left[p] = {k} THEN EndTask(p, "ok") ELSE Continue(p, "mirrors", left[p] \ {k})
  /\ UNCHANGED <<address, pool, balancer, ui, trusted>> /\ Quiet

-----------------------------------------------------------------------------
(* The seven commands. *)

LoadAndEnrich(p) ==
  /\ Load(p) \/ Enrich(p)
  /\ UNCHANGED <<outside, clusters, process, runs, events, history>>

RunCreateCluster(p) == StartAddresses(p) \/ WriteAddress(p)
RunMetalLB(p) ==
  \/ CheckMetalLB(p) \/ ApplyPool(p) \/ ApplyServices(p) \/ WaitReachable(p) \/ TimeOut(p)
  \/ DeleteMetalLB(p) \/ DeleteCRDs(p)
RunUI(p) == CheckUI(p) \/ ApplyUI(p)
RunICSP(p) == CheckICSP(p) \/ TrustRegistry(p) \/ CreateCatalogICSP(p)

Command(p) ==
  \/ LoadAndEnrich(p) \/ End(p)
  \/ RunCreateCluster(p) \/ DeleteCluster(p) \/ RunMetalLB(p) \/ RunUI(p) \/ RunICSP(p)

StartCommand(p) ==
  \/ StartCreateCluster(p) \/ StartDeleteCluster(p) \/ StartCreateMetalLB(p)
  \/ StartDeleteMetalLB(p) \/ StartCreateUI(p) \/ StartDeleteUI(p) \/ StartCreateICSP(p)

Next ==
  \/ Event \/ Announce
  \/ \E p \in Processes :
       StartCommand(p) \/ Command(p) \/ FailEnrich(p) \/ FailTask(p) \/ Die(p)

Spec == Init /\ [][Next]_vars

-----------------------------------------------------------------------------
(* Properties. *)

Commands == {"create cluster", "delete cluster", "create metallb", "delete metallb",
             "create ui", "delete ui", "create icsp"}

PlaceOK(p) ==
  /\ pc[p] = "idle" <=> command[p] = "none"
  /\ pc[p] = "addresses" => command[p] = "create cluster"
  /\ pc[p] \in {"pool", "services", "wait"} => command[p] = "create metallb"
  /\ pc[p] \in {"remove", "crds"} => command[p] = "delete metallb"
  /\ pc[p] = "apply" => command[p] \in {"create ui", "delete ui"}
  /\ pc[p] \in {"trust", "mirrors"} =>
       command[p] = "create icsp" /\ url[p] # Unset /\ ca[p][cluster[p]] # Unset
  /\ p \in waits => command[p] = "create metallb"

TypeOK ==
  /\ EnricherType
  /\ pc \in [Processes -> {"idle", "wait", "done"} \union Enriching \union Tasks]
  /\ address \in [Clusters -> [Nodes -> 0 .. Bytes - 1 \union {NoAddress}]]
  /\ pool \in [Clusters -> Versions \union {Unset}]
  /\ balancer \in [Clusters -> {"absent", "complete", "announced"}]
  /\ ui \subseteq Clusters
  /\ trusted \in [Clusters -> [Registries -> Versions \union {Unset}]]
  /\ mirrors \in [Clusters -> [Catalogs -> Registries \union {Unset}]]
  /\ command \in [Processes -> Commands \union {"none"}]
  /\ waits \subseteq Processes
  /\ left \in [Processes -> SUBSET (Nodes \union Catalogs)]
  /\ outcome \in [Processes -> [Clusters -> {"none", "ok", "failed"}]]
  /\ exit \in [Processes -> {"none", "0", "1"}]
  /\ runs \in 0 .. MaxRuns /\ events \in 0 .. MaxEvents
  /\ shifted \subseteq Clusters /\ moved \subseteq Clusters
  /\ renamed \in BOOLEAN /\ overlapped \in BOOLEAN
  /\ \A p \in Processes : PlaceOK(p)

\* The internal addresses that the hub has for the nodes of a cluster are different, and none
\* is that of the API or of the ingress, through any creations, deletions and changes of the
\* configuration that add nodes at the end, while the nodes fit below the virtual addresses.
\* A change elsewhere moves the indices of the nodes, and those that are already there keep
\* theirs (setInternalNodeIP; the loader; templates/objects/070-nmstateconfig.yaml).
AddressesDistinct ==
  \A c \in Clusters \ shifted : Cardinality(config[c]) <= IngressByte - First =>
    \A n \in Nodes : address[c][n] # NoAddress =>
      /\ address[c][n] \notin VirtualIPs
      /\ \A m \in Nodes : m # n => address[c][m] # address[c][n]

\* What the exit code 0 says, when no other command ran at the same time.  Of the creation of
\* the load balancers: that each cluster has one, with the addresses of the DNS if they
\* didn't move since before it was deleted for the last time; and if it was asked to wait,
\* that the API of each answered through it, and it still does.  Of the others, that all
\* the clusters were attempted (CreateCommand.Run and wait of metallb; the other Run).
ExitZeroMeans ==
  \A p \in Processes : exit[p] = "0" =>
    /\ \A c \in Clusters : outcome[p][c] # "none"
    /\ Strict(p) => \A c \in Clusters : outcome[p][c] = "ok"
    /\ command[p] = "create metallb" /\ ~ overlapped =>
         \A c \in Clusters :
           /\ pool[c] # Unset /\ balancer[c] # "absent"
           /\ c \notin moved => pool[c] = names[c] /\ (p \in waits => Reachable(c))

\* A policy never sends pulls to a registry that the cluster doesn't trust, wherever the
\* command that created it was cut; and a task that is done leaves one for each catalog,
\* that is for the registry of the task unless another one had been named before
\* (CreateTask.Run and createCatalogICSP of icsp).
MirrorsTrusted ==
  /\ \A c \in Clusters, k \in Catalogs :
       mirrors[c][k] # Unset => trusted[c][mirrors[c][k]] # Unset
  /\ \A p \in Processes, c \in Clusters :
       command[p] = "create icsp" /\ outcome[p][c] = "ok" /\ ~ overlapped =>
         /\ trusted[c][url[p]] = ca[p][c]
         /\ \A k \in Catalogs : mirrors[c][k] # Unset /\ (~ renamed => mirrors[c][k] = url[p])
=============================================================================
