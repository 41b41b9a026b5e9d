------------------------------ MODULE AddOnsProofs ------------------------------
(***************************************************************************)
(* The proofs of the safety properties of AddOns, for any numbers of       *)
(* clusters, nodes, registries, catalogs, processes, commands and events.  *)
(***************************************************************************)
EXTENDS AddOns, FiniteSetTheorems, TLAPS

LEMMA AddOnsNumbers ==
  /\ NumClusters \in Nat /\ 1 \in Clusters
  /\ \A c \in Clusters : c \in Nat /\ c >= 1 /\ c <= NumClusters
  /\ \A c \in Clusters : c < NumClusters => c + 1 \in Clusters
  /\ NumNodes \in Nat /\ \A n \in Nodes : n \in Nat /\ n >= 1
  /\ 1 \in Versions /\ \A v \in Versions : v \in Nat /\ v >= 1 /\ v <= MaxVersion
  /\ \A v \in Versions : v < MaxVersion => v + 1 \in Versions
  /\ Unset < MaxVersion => Unset + 1 \in Versions
  /\ \A r \in Registries : r # Unset
  /\ \A k \in Catalogs : k \in Nat /\ k >= 1
BY EnricherAssumption, AddOnsAssumption
   DEF Clusters, Nodes, Versions, Registries, Catalogs, Unset

LEMMA CountNext ==
  ASSUME NEW max \in Nat, NEW n \in 0 .. max, n < max
  PROVE  n + 1 \in 0 .. max
OBVIOUS

LEMMA BoundsType == MaxRuns \in Nat /\ MaxEvents \in Nat
BY AddOnsAssumption

LEMMA NodesFinite == IsFiniteSet(Nodes)
<1>1. 1 \in Int /\ NumNodes \in Int
  BY EnricherAssumption
<1>2. IsFiniteSet(1 .. NumNodes)
  BY <1>1, FS_Interval
<1> QED
  BY <1>2 DEF Nodes

LEMMA PositionType ==
  ASSUME NEW s \in SUBSET Nodes, NEW n \in Nodes
  PROVE  Position(n, s) \in Nat
<1>1. IsFiniteSet({m \in s : m < n})
  BY NodesFinite, FS_Subset
<1> QED
  BY <1>1, FS_CardinalityType DEF Position

LEMMA AddressType ==
  ASSUME NEW i \in Nat
  PROVE  Address(i) \in 0 .. Bytes - 1 /\ Address(i) # NoAddress
BY EnricherAssumption DEF Address, NoAddress

-----------------------------------------------------------------------------
(* The type invariant, in its parts. *)

OutsideType ==
  /\ config \in [Clusters -> SUBSET Nodes]
  /\ installed \subseteq Clusters
  /\ agents \in [Clusters -> SUBSET Nodes]
  /\ registry \in Registries \union {Unset}
  /\ certificate \in [Registries -> Versions \union {Unset}]
  /\ names \in [Clusters -> Versions \union {Unset}]

MemoryType ==
  /\ loaded \in [Processes -> [Clusters -> SUBSET Nodes]]
  /\ url \in [Processes -> Registries \union {Unset}]
  /\ external \in [Processes -> [Clusters -> SUBSET Nodes]]
  /\ kubeconfig \in [Processes -> SUBSET Clusters]
  /\ ca \in [Processes -> [Clusters -> Versions \union {Unset}]]
  /\ resolved \in [Processes -> [Clusters -> Versions \union {Unset}]]

ClustersType ==
  /\ address \in [Clusters -> [Nodes -> 0 .. Bytes - 1 \union {NoAddress}]]
  /\ pool \in [Clusters -> Versions \union {Unset}]
  /\ balancer \in [Clusters -> {"absent", "complete", "announced"}]
  /\ ui \subseteq Clusters
  /\ trusted \in [Clusters -> [Registries -> Versions \union {Unset}]]
  /\ mirrors \in [Clusters -> [Catalogs -> Registries \union {Unset}]]

ProcessType ==
  /\ pc \in [Processes -> {"idle", "wait", "done"} \union Enriching \union Tasks]
  /\ cluster \in [Processes -> Clusters]
  /\ command \in [Processes -> Commands \union {"none"}]
  /\ waits \subseteq Processes
  /\ left \in [Processes -> SUBSET (Nodes \union Catalogs)]
  /\ outcome \in [Processes -> [Clusters -> {"none", "ok", "failed"}]]
  /\ exit \in [Processes -> {"none", "0", "1"}]

HistoryType ==
  /\ runs \in 0 .. MaxRuns /\ events \in 0 .. MaxEvents
  /\ shifted \subseteq Clusters /\ moved \subseteq Clusters
  /\ renamed \in BOOLEAN /\ overlapped \in BOOLEAN

LEMMA TypeParts ==
  TypeOK <=> /\ OutsideType /\ MemoryType /\ ClustersType /\ ProcessType /\ HistoryType
             /\ \A p \in Processes : PlaceOK(p)
BY DEF TypeOK, EnricherType, OutsideType, MemoryType, ClustersType, ProcessType, HistoryType

LEMMA TypePartsNext ==
  ASSUME OutsideType', MemoryType', ClustersType', ProcessType', HistoryType',
         \A p \in Processes : PlaceOK(p)'
  PROVE  TypeOK'
BY DEF TypeOK, EnricherType, OutsideType, MemoryType, ClustersType, ProcessType, HistoryType

LEMMA TypeInit == Init => TypeOK
<1> SUFFICES ASSUME Init PROVE TypeOK
  OBVIOUS
<1>1. OutsideType
  BY EnricherAssumption, AddOnsAssumption, AddOnsNumbers DEF Init, OutsideType
<1>2. MemoryType
  BY DEF Init, EnricherInit, MemoryType, NoNodes, NoVersions
<1>3. ClustersType
  <2>1. address \in [Clusters -> [Nodes -> 0 .. Bytes - 1 \union {NoAddress}]]
    <3>1. ASSUME NEW c \in Clusters, NEW n \in Nodes
          PROVE  Address(Position(n, Initial[c])) \in 0 .. Bytes - 1
      BY PositionType, AddressType, AddOnsAssumption
    <3> QED
      BY <3>1 DEF Init
  <2>2. pool \in [Clusters -> Versions \union {Unset}]
        /\ balancer \in [Clusters -> {"absent", "complete", "announced"}]
    BY AddOnsNumbers DEF Init
  <2> QED
    BY <2>1, <2>2 DEF Init, ClustersType, NoMirrors
<1>4. ProcessType
  BY AddOnsNumbers DEF Init, EnricherInit, ProcessType
<1>5. HistoryType
  <2>1. runs = 0 /\ events = 0 /\ shifted = {} /\ moved = {}
        /\ renamed = FALSE /\ overlapped = FALSE
    BY DEF Init
  <2>2. runs \in 0 .. MaxRuns /\ events \in 0 .. MaxEvents
    BY <2>1, AddOnsAssumption
  <2> QED
    BY <2>1, <2>2 DEF HistoryType
<1>6. \A p \in Processes : PlaceOK(p)
  BY DEF Init, EnricherInit, PlaceOK
<1> QED
  BY <1>1, <1>2, <1>3, <1>4, <1>5, <1>6, TypeParts

-----------------------------------------------------------------------------
(* The steps that the actions have in common. *)

LEMMA ExitType ==
  ASSUME TypeOK, NEW p \in Processes, NEW code \in {"0", "1"}, Exit(p, code), pc[p] # "idle",
         UNCHANGED <<url, ca, command, waits, left, outcome>>
  PROVE  ProcessType' /\ \A q \in Processes : PlaceOK(q)'
<1>1. ProcessType'
  BY TypeParts DEF ProcessType, Exit
<1>2. ASSUME NEW q \in Processes PROVE PlaceOK(q)'
  BY <1>2, TypeParts DEF ProcessType, PlaceOK, Exit
<1> QED
  BY <1>1, <1>2

LEMMA EndTaskType ==
  ASSUME TypeOK, NEW p \in Processes, NEW how \in {"ok", "failed"}, EndTask(p, how),
         pc[p] # "idle", UNCHANGED <<url, ca>>
  PROVE  ProcessType' /\ \A q \in Processes : PlaceOK(q)'
<1> ProcessType /\ \A q \in Processes : PlaceOK(q)
  BY TypeParts
<1>1. /\ command' \in [Processes -> Commands \union {"none"}] /\ waits' \subseteq Processes
      /\ left' \in [Processes -> SUBSET (Nodes \union Catalogs)]
      /\ outcome' \in [Processes -> [Clusters -> {"none", "ok", "failed"}]]
  BY DEF ProcessType, EndTask
<1>2. CASE Exit(p, "1") \/ Exit(p, "0")
  <2>1. ProcessType'
    BY <1>1, <1>2 DEF ProcessType, Exit
  <2>2. ASSUME NEW q \in Processes PROVE PlaceOK(q)'
    BY <1>2, <2>2 DEF ProcessType, PlaceOK, EndTask, Exit
  <2> QED
    BY <2>1, <2>2
<1>3. CASE /\ cluster[p] < NumClusters /\ UNCHANGED exit
           /\ pc' = [pc EXCEPT ![p] = "task"] /\ cluster' = [cluster EXCEPT ![p] = @ + 1]
  <2>1. ProcessType'
    BY <1>1, <1>3, AddOnsNumbers DEF ProcessType, Tasks
  <2>2. ASSUME NEW q \in Processes PROVE PlaceOK(q)'
    BY <1>3, <2>2 DEF ProcessType, PlaceOK, EndTask
  <2> QED
    BY <2>1, <2>2
<1>4. CASE /\ p \in waits /\ UNCHANGED exit
           /\ pc' = [pc EXCEPT ![p] = "wait"] /\ cluster' = [cluster EXCEPT ![p] = 1]
  <2>1. ProcessType'
    BY <1>1, <1>4, AddOnsNumbers DEF ProcessType
  <2>2. ASSUME NEW q \in Processes PROVE PlaceOK(q)'
    BY <1>4, <2>2 DEF ProcessType, PlaceOK, EndTask
  <2> QED
    BY <2>1, <2>2
<1> QED
  BY <1>2, <1>3, <1>4 DEF EndTask

LEMMA ContinueType ==
  ASSUME TypeOK, NEW p \in Processes, NEW place \in Tasks,
         NEW todo \in SUBSET (Nodes \union Catalogs), Continue(p, place, todo),
         pc[p] # "idle", UNCHANGED <<url, ca>>,
         place = "addresses" => command[p] = "create cluster",
         place \in {"pool", "services"} => command[p] = "create metallb",
         place \in {"remove", "crds"} => command[p] = "delete metallb",
         place = "apply" => command[p] \in {"create ui", "delete ui"},
         place \in {"trust", "mirrors"} =>
           command[p] = "create icsp" /\ url[p] # Unset /\ ca[p][cluster[p]] # Unset
  PROVE  ProcessType' /\ \A q \in Processes : PlaceOK(q)'
<1> ProcessType /\ \A q \in Processes : PlaceOK(q)
  BY TypeParts
<1>1. ProcessType'
  BY DEF ProcessType, Continue, To
<1>2. place # "idle" /\ place # "wait"
  BY DEF Tasks
<1>3. ASSUME NEW q \in Processes PROVE PlaceOK(q)'
  BY <1>2, <1>3 DEF ProcessType, PlaceOK, Continue, To
<1> QED
  BY <1>1, <1>3

LEMMA ForgetType ==
  ASSUME TypeOK, NEW p \in Processes, Forget(p)
  PROVE  TypeOK'
<1> OutsideType /\ MemoryType /\ ClustersType /\ ProcessType /\ HistoryType
    /\ \A q \in Processes : PlaceOK(q)
  BY TypeParts
<1>1. MemoryType'
  BY DEF MemoryType, Forget, ForgetMemory, NoNodes, NoVersions
<1>2. ProcessType'
  BY AddOnsNumbers DEF ProcessType, Forget
<1>3. ASSUME NEW q \in Processes PROVE PlaceOK(q)'
  BY <1>3 DEF ProcessType, MemoryType, PlaceOK, Forget, ForgetMemory
<1>4. OutsideType' /\ ClustersType' /\ HistoryType'
  BY DEF OutsideType, ClustersType, HistoryType, Forget, outside, clusters, history
<1> QED
  BY <1>1, <1>2, <1>3, <1>4, TypePartsNext

LEMMA StartType ==
  ASSUME TypeOK, NEW p \in Processes, NEW what \in Commands, NEW wait \in BOOLEAN,
         Start(p, what, wait), wait => what = "create metallb"
  PROVE  TypeOK'
<1> OutsideType /\ MemoryType /\ ClustersType /\ ProcessType /\ HistoryType
    /\ \A q \in Processes : PlaceOK(q)
  BY TypeParts
<1>1. OutsideType' /\ MemoryType' /\ ClustersType'
  BY DEF OutsideType, MemoryType, ClustersType, Start, outside, memory, clusters
<1>2. ProcessType'
  BY DEF ProcessType, Start, To, Enriching
<1>3. what # "none"
  BY DEF Commands
<1>4. p \notin waits
  BY DEF PlaceOK, Start, From
<1>5. ASSUME NEW q \in Processes PROVE PlaceOK(q)'
  <2>1. CASE q = p
    BY <1>3, <1>4, <2>1 DEF ProcessType, PlaceOK, Start, To, memory
  <2>2. CASE q # p
    BY <2>2 DEF ProcessType, PlaceOK, Start, To, memory
  <2> QED
    BY <2>1, <2>2
<1>6. runs' \in 0 .. MaxRuns
  <2>1. runs \in 0 .. MaxRuns
    BY DEF HistoryType
  <2>2. runs < MaxRuns /\ runs' = runs + 1
    BY DEF Start
  <2>3. runs + 1 \in 0 .. MaxRuns
    BY <2>1, <2>2, BoundsType, CountNext
  <2> QED
    BY <2>2, <2>3
<1>7. overlapped' \in BOOLEAN /\ UNCHANGED <<events, shifted, moved, renamed>>
  BY DEF HistoryType, Start
<1>8. HistoryType'
  BY <1>6, <1>7 DEF HistoryType
<1> QED
  BY <1>1, <1>2, <1>5, <1>8, TypePartsNext

-----------------------------------------------------------------------------
(* The steps of what is outside of the program. *)

\* What a command doesn't touch, when only what is outside changes.
LEMMA EventType ==
  ASSUME TypeOK, Event, OutsideType', shifted' \subseteq Clusters, moved' \subseteq Clusters,
         renamed' \in BOOLEAN, UNCHANGED overlapped
  PROVE  TypeOK'
<1> OutsideType /\ MemoryType /\ ClustersType /\ ProcessType /\ HistoryType
    /\ \A q \in Processes : PlaceOK(q)
  BY TypeParts
<1>1. UNCHANGED <<pc, cluster, memory, clusters, process, runs>>
      /\ events < MaxEvents /\ events' = events + 1
  BY DEF Event, Happen
<1>2. MemoryType' /\ ClustersType' /\ ProcessType'
  BY <1>1 DEF MemoryType, ClustersType, ProcessType, memory, clusters, process
<1>3. \A q \in Processes : PlaceOK(q)'
  BY <1>1 DEF PlaceOK, memory, process
<1>4. runs' \in 0 .. MaxRuns
  BY <1>1 DEF HistoryType
<1>5. events \in 0 .. MaxEvents /\ overlapped' \in BOOLEAN
  BY DEF HistoryType
<1>6. events' \in 0 .. MaxEvents
  <2>1. events + 1 \in 0 .. MaxEvents
    BY <1>1, <1>5, BoundsType, CountNext
  <2> QED
    BY <1>1, <2>1
<1>7. HistoryType'
  BY <1>4, <1>5, <1>6 DEF HistoryType
<1> QED
  BY <1>2, <1>3, <1>7, TypePartsNext

LEMMA EventKeeps ==
  ASSUME TypeOK, Event
  PROVE  /\ OutsideType' /\ shifted' \subseteq Clusters /\ moved' \subseteq Clusters
         /\ renamed' \in BOOLEAN /\ UNCHANGED overlapped
<1> OutsideType /\ HistoryType
  BY TypeParts
<1>1. shifted \subseteq Clusters /\ moved \subseteq Clusters /\ renamed \in BOOLEAN
  BY DEF HistoryType
<1>2. ASSUME NEW c \in Clusters, Install(c) \/ Move(c)
      PROVE  /\ OutsideType' /\ shifted' \subseteq Clusters /\ moved' \subseteq Clusters
             /\ renamed' \in BOOLEAN /\ UNCHANGED overlapped
  <2>1. CASE Install(c)
    BY <1>1, <2>1 DEF Install, OutsideType, history
  <2>2. CASE Move(c)
    <3>1. names[c] = Unset \/ names[c] \in Versions
      BY DEF OutsideType
    <3>2. names[c] < MaxVersion
      BY <2>2 DEF Move
    <3>3. names[c] + 1 \in Versions
      BY <3>1, <3>2, AddOnsNumbers
    <3>4. OutsideType'
      BY <2>2, <3>3 DEF Move, OutsideType
    <3> QED
      BY <1>1, <2>2, <3>4 DEF Move
  <2> QED
    BY <1>2, <2>1, <2>2
<1>3. ASSUME NEW c \in Clusters, NEW n \in Nodes, EditConfig(c, n) \/ Report(c, n)
      PROVE  /\ OutsideType' /\ shifted' \subseteq Clusters /\ moved' \subseteq Clusters
             /\ renamed' \in BOOLEAN /\ UNCHANGED overlapped
  <2>1. CASE EditConfig(c, n)
    BY <1>1, <2>1 DEF EditConfig, OutsideType
  <2>2. CASE Report(c, n)
    BY <1>1, <2>2 DEF Report, OutsideType, history
  <2> QED
    BY <1>3, <2>1, <2>2
<1>4. ASSUME NEW r \in Registries, Replace(r)
      PROVE  /\ OutsideType' /\ shifted' \subseteq Clusters /\ moved' \subseteq Clusters
             /\ renamed' \in BOOLEAN /\ UNCHANGED overlapped
  <2>1. certificate[r] = Unset \/ certificate[r] \in Versions
    BY DEF OutsideType
  <2>2. certificate[r] < MaxVersion
    BY <1>4 DEF Replace
  <2>3. certificate[r] + 1 \in Versions
    BY <2>1, <2>2, AddOnsNumbers
  <2>4. OutsideType'
    BY <1>4, <2>3 DEF Replace, OutsideType
  <2> QED
    BY <1>1, <1>4, <2>4 DEF Replace, history
<1>5. ASSUME NEW r \in Registries \union {Unset}, Register(r)
      PROVE  /\ OutsideType' /\ shifted' \subseteq Clusters /\ moved' \subseteq Clusters
             /\ renamed' \in BOOLEAN /\ UNCHANGED overlapped
  <2>1. OutsideType'
    BY <1>5 DEF Register, OutsideType
  <2>2. renamed' \in BOOLEAN
    BY <1>5 DEF Register
  <2> QED
    BY <1>1, <1>5, <2>1, <2>2 DEF Register
<1> QED
  BY <1>2, <1>3, <1>4, <1>5 DEF Event

LEMMA AnnounceType ==
  ASSUME TypeOK, Announce
  PROVE  TypeOK'
<1> OutsideType /\ MemoryType /\ ClustersType /\ ProcessType /\ HistoryType
    /\ \A q \in Processes : PlaceOK(q)
  BY TypeParts
<1>1. ClustersType'
  BY DEF ClustersType, Announce
<1>2. OutsideType' /\ MemoryType' /\ ProcessType' /\ HistoryType'
  BY DEF OutsideType, MemoryType, ProcessType, HistoryType, Announce, outside, memory,
         process, history
<1>3. \A q \in Processes : PlaceOK(q)'
  BY DEF PlaceOK, Announce, memory, process
<1> QED
  BY <1>1, <1>2, <1>3, TypePartsNext

-----------------------------------------------------------------------------
(* The steps of the enricher. *)

LEMMA EnrichType ==
  ASSUME TypeOK, NEW p \in Processes, LoadAndEnrich(p)
  PROVE  TypeOK'
<1> OutsideType /\ MemoryType /\ ClustersType /\ ProcessType /\ HistoryType
    /\ \A q \in Processes : PlaceOK(q)
  BY TypeParts
<1>1. UNCHANGED <<outside, clusters, process, runs, events, history>>
  BY DEF LoadAndEnrich
<1>2. OutsideType' /\ ClustersType' /\ HistoryType'
  BY <1>1 DEF OutsideType, ClustersType, HistoryType, outside, clusters, history
<1>3. UNCHANGED <<command, waits, left, outcome, exit>>
  BY <1>1 DEF process
<1>4. command[p] # "none" /\ pc[p] \in Enriching
  BY DEF LoadAndEnrich, Load, Enrich, EnrichCluster, SetConfigRegistry, SetExternalNodeIPs,
         SetKubeconfig, SetClusterRegistry, SetExternalIPs, From, Enriching, PlaceOK
<1>5. CASE Load(p)
  <2>1. MemoryType' /\ ProcessType'
    BY <1>3, <1>5 DEF Load, To, MemoryType, ProcessType, OutsideType, Enriching
  <2>2. ASSUME NEW q \in Processes PROVE PlaceOK(q)'
    BY <1>3, <1>4, <1>5, <2>2 DEF Load, To, ProcessType, PlaceOK
  <2> QED
    BY <1>2, <2>1, <2>2, TypePartsNext
<1>6. CASE SetConfigRegistry(p)
  <2>1. MemoryType' /\ ProcessType'
    BY <1>3, <1>6, EnricherAssumption
       DEF SetConfigRegistry, To, MemoryType, ProcessType, OutsideType, Enriching
  <2>2. ASSUME NEW q \in Processes PROVE PlaceOK(q)'
    BY <1>3, <1>4, <1>6, <2>2 DEF SetConfigRegistry, To, ProcessType, MemoryType, PlaceOK
  <2> QED
    BY <1>2, <2>1, <2>2, TypePartsNext
<1>7. CASE SetExternalNodeIPs(p)
  <2>1. MemoryType' /\ ProcessType'
    BY <1>3, <1>7 DEF SetExternalNodeIPs, To, MemoryType, ProcessType, OutsideType, Enriching
  <2>2. ASSUME NEW q \in Processes PROVE PlaceOK(q)'
    BY <1>3, <1>4, <1>7, <2>2 DEF SetExternalNodeIPs, To, ProcessType, PlaceOK
  <2> QED
    BY <1>2, <2>1, <2>2, TypePartsNext
<1>8. CASE SetKubeconfig(p)
  <2>1. MemoryType' /\ ProcessType'
    BY <1>3, <1>8 DEF SetKubeconfig, To, MemoryType, ProcessType, OutsideType, Enriching
  <2>2. ASSUME NEW q \in Processes PROVE PlaceOK(q)'
    BY <1>3, <1>4, <1>8, <2>2 DEF SetKubeconfig, To, ProcessType, PlaceOK
  <2> QED
    BY <1>2, <2>1, <2>2, TypePartsNext
<1>9. CASE SetClusterRegistry(p)
  <2>1. url[p] # Unset => certificate[url[p]] \in Versions \union {Unset}
    BY DEF MemoryType, OutsideType
  <2>2. MemoryType' /\ ProcessType'
    BY <1>3, <1>9, <2>1 DEF SetClusterRegistry, To, MemoryType, ProcessType, Enriching
  <2>3. ASSUME NEW q \in Processes PROVE PlaceOK(q)'
    BY <1>3, <1>4, <1>9, <2>3 DEF SetClusterRegistry, To, ProcessType, MemoryType, PlaceOK
  <2> QED
    BY <1>2, <2>2, <2>3, TypePartsNext
<1>10. CASE SetExternalIPs(p)
  <2>1. MemoryType'
    BY <1>10 DEF SetExternalIPs, MemoryType, ProcessType, OutsideType
  <2>2. CASE /\ cluster[p] < NumClusters
             /\ pc' = [pc EXCEPT ![p] = "agents"]
             /\ cluster' = [cluster EXCEPT ![p] = cluster[p] + 1]
    <3>1. cluster[p] + 1 \in Clusters
      BY <2>2, AddOnsNumbers DEF ProcessType
    <3>2. ProcessType'
      BY <1>3, <2>2, <3>1 DEF ProcessType, Enriching
    <3>3. ASSUME NEW q \in Processes PROVE PlaceOK(q)'
      BY <1>3, <1>4, <1>10, <2>2, <3>3 DEF SetExternalIPs, ProcessType, PlaceOK
    <3> QED
      BY <1>2, <2>1, <3>2, <3>3, TypePartsNext
  <2>3. CASE pc' = [pc EXCEPT ![p] = "task"] /\ cluster' = [cluster EXCEPT ![p] = 1]
    <3>1. ProcessType'
      BY <1>3, <2>3, AddOnsNumbers DEF ProcessType, Tasks
    <3>2. ASSUME NEW q \in Processes PROVE PlaceOK(q)'
      BY <1>3, <1>4, <1>10, <2>3, <3>2 DEF SetExternalIPs, ProcessType, PlaceOK
    <3> QED
      BY <1>2, <2>1, <3>1, <3>2, TypePartsNext
  <2> QED
    BY <1>10, <2>2, <2>3 DEF SetExternalIPs
<1> QED
  BY <1>5, <1>6, <1>7, <1>8, <1>9, <1>10 DEF LoadAndEnrich, Enrich, EnrichCluster

-----------------------------------------------------------------------------
(* The steps of the tasks. *)

\* Those that change only the clusters and the process.
LEMMA QuietType ==
  ASSUME TypeOK, Quiet, ClustersType', ProcessType', \A q \in Processes : PlaceOK(q)'
  PROVE  TypeOK'
<1> OutsideType /\ MemoryType /\ HistoryType
  BY TypeParts
<1>1. OutsideType' /\ MemoryType' /\ HistoryType'
  BY DEF Quiet, OutsideType, MemoryType, HistoryType, outside, memory, history
<1> QED
  BY <1>1, TypePartsNext

LEMMA QuietEnd ==
  ASSUME TypeOK, NEW p \in Processes, NEW how \in {"ok", "failed"}, EndTask(p, how),
         pc[p] # "idle", Quiet, ClustersType'
  PROVE  TypeOK'
<1>1. UNCHANGED <<url, ca>>
  BY DEF Quiet, memory
<1>2. ProcessType' /\ \A q \in Processes : PlaceOK(q)'
  BY <1>1, EndTaskType
<1> QED
  BY <1>2, QuietType

LEMMA QuietContinue ==
  ASSUME TypeOK, NEW p \in Processes, NEW place \in Tasks,
         NEW todo \in SUBSET (Nodes \union Catalogs), Continue(p, place, todo),
         pc[p] # "idle", Quiet, ClustersType',
         place = "addresses" => command[p] = "create cluster",
         place \in {"pool", "services"} => command[p] = "create metallb",
         place \in {"remove", "crds"} => command[p] = "delete metallb",
         place = "apply" => command[p] \in {"create ui", "delete ui"},
         place \in {"trust", "mirrors"} =>
           command[p] = "create icsp" /\ url[p] # Unset /\ ca[p][cluster[p]] # Unset
  PROVE  TypeOK'
<1>1. UNCHANGED <<url, ca>>
  BY DEF Quiet, memory
<1>2. ProcessType' /\ \A q \in Processes : PlaceOK(q)'
  BY <1>1, ContinueType
<1> QED
  BY <1>2, QuietType

\* The steps of the wait, that leave the tasks as they were.
LEMMA QuietExit ==
  ASSUME TypeOK, NEW p \in Processes, NEW code \in {"0", "1"}, Exit(p, code), pc[p] # "idle",
         UNCHANGED <<clusters, command, waits, left, outcome>>, Quiet
  PROVE  TypeOK'
<1>1. UNCHANGED <<url, ca>>
  BY DEF Quiet, memory
<1>2. ProcessType' /\ \A q \in Processes : PlaceOK(q)'
  BY <1>1, ExitType
<1>3. ClustersType'
  BY TypeParts DEF ClustersType, clusters
<1> QED
  BY <1>2, <1>3, QuietType

LEMMA FailType ==
  ASSUME TypeOK, NEW p \in Processes, FailEnrich(p) \/ FailTask(p)
  PROVE  TypeOK'
<1> OutsideType /\ MemoryType /\ ClustersType /\ HistoryType
  BY TypeParts
<1>1. OutsideType' /\ MemoryType' /\ ClustersType' /\ HistoryType' /\ UNCHANGED <<url, ca>>
  BY DEF FailEnrich, FailTask, OutsideType, MemoryType, ClustersType, HistoryType, outside,
         memory, clusters, history
<1>2. pc[p] # "idle"
  BY DEF FailEnrich, FailTask, Enriching, Tasks
<1>3. ProcessType' /\ \A q \in Processes : PlaceOK(q)'
  BY <1>1, <1>2, ExitType, EndTaskType DEF FailEnrich, FailTask
<1> QED
  BY <1>1, <1>3, TypePartsNext

LEMMA SameClusters ==
  ASSUME TypeOK, UNCHANGED clusters
  PROVE  ClustersType'
BY TypeParts DEF ClustersType, clusters

LEMMA StartAddressesType ==
  ASSUME TypeOK, NEW p \in Processes, StartAddresses(p)
  PROVE  TypeOK'
<1>1. /\ UNCHANGED clusters /\ Quiet /\ pc[p] # "idle" /\ command[p] = "create cluster"
      /\ \/ EndTask(p, "ok")
         \/ Continue(p, "addresses", loaded[p][cluster[p]])
  BY DEF StartAddresses, Running, From
<1>2. loaded[p][cluster[p]] \in SUBSET (Nodes \union Catalogs) /\ "addresses" \in Tasks
  BY TypeParts DEF MemoryType, ProcessType, Tasks
<1> QED
  BY <1>1, <1>2, SameClusters, QuietEnd, QuietContinue

LEMMA WriteAddressType ==
  ASSUME TypeOK, NEW p \in Processes, WriteAddress(p)
  PROVE  TypeOK'
<1> MemoryType /\ ClustersType /\ ProcessType
  BY TypeParts
<1>1. /\ UNCHANGED <<pool, balancer, ui, trusted, mirrors>> /\ Quiet /\ pc[p] # "idle"
      /\ command[p] = "create cluster"
  BY TypeParts DEF WriteAddress, From, PlaceOK
<1>2. PICK n \in Nodes :
        /\ Give(p, n)
        /\ EndTask(p, "ok") \/ Continue(p, "addresses", left[p] \ {n})
  BY DEF WriteAddress
<1>3. InternalIP(p, cluster[p], n) \in 0 .. Bytes - 1
  <2>1. loaded[p][cluster[p]] \in SUBSET Nodes
    BY DEF MemoryType, ProcessType
  <2>2. Position(n, loaded[p][cluster[p]]) \in Nat
    BY <2>1, PositionType
  <2> QED
    BY <2>2, AddressType DEF InternalIP
<1>4. ClustersType'
  BY <1>1, <1>2, <1>3 DEF ClustersType, ProcessType, Give
<1>5. left[p] \ {n} \in SUBSET (Nodes \union Catalogs) /\ "addresses" \in Tasks
  BY DEF ProcessType, Tasks
<1> QED
  BY <1>1, <1>2, <1>4, <1>5, QuietEnd, QuietContinue

LEMMA DeleteClusterType ==
  ASSUME TypeOK, NEW p \in Processes, DeleteCluster(p)
  PROVE  TypeOK'
<1> OutsideType /\ MemoryType /\ ClustersType /\ ProcessType /\ HistoryType
  BY TypeParts
<1>1. OutsideType' /\ MemoryType'
  BY DEF DeleteCluster, OutsideType, MemoryType
<1>2. ClustersType'
  BY DEF DeleteCluster, ClustersType, NoMirrors, NoAddress
<1>3. pc[p] # "idle" /\ EndTask(p, "ok") /\ UNCHANGED <<url, ca>>
  BY DEF DeleteCluster, Running, From
<1>4. ProcessType' /\ \A q \in Processes : PlaceOK(q)'
  BY <1>3, EndTaskType
<1>5. HistoryType'
  <2>1. shifted' \subseteq Clusters /\ moved' \subseteq Clusters
    BY DEF HistoryType, DeleteCluster
  <2>2. UNCHANGED <<runs, events, renamed, overlapped>>
    BY DEF DeleteCluster
  <2> QED
    BY <2>1, <2>2 DEF HistoryType
<1> QED
  BY <1>1, <1>2, <1>4, <1>5, TypePartsNext

LEMMA CheckMetalLBType ==
  ASSUME TypeOK, NEW p \in Processes, CheckMetalLB(p)
  PROVE  TypeOK'
<1>1. /\ UNCHANGED clusters /\ Quiet /\ pc[p] # "idle"
      /\ \/ EndTask(p, "failed")
         \/ command[p] = "create metallb" /\ Continue(p, "pool", {})
         \/ command[p] = "delete metallb" /\ Continue(p, "remove", {})
  BY DEF CheckMetalLB, From
<1>2. {} \in SUBSET (Nodes \union Catalogs) /\ "pool" \in Tasks /\ "remove" \in Tasks
  BY DEF Tasks
<1> QED
  BY <1>1, <1>2, SameClusters, QuietEnd, QuietContinue

LEMMA ApplyPoolType ==
  ASSUME TypeOK, NEW p \in Processes, ApplyPool(p)
  PROVE  TypeOK'
<1> MemoryType /\ ClustersType /\ ProcessType
  BY TypeParts
<1>1. /\ Quiet /\ pc[p] # "idle" /\ command[p] = "create metallb" /\ Continue(p, "services", {})
  BY TypeParts DEF ApplyPool, From, PlaceOK
<1>2. ClustersType'
  BY DEF ApplyPool, ClustersType, MemoryType, ProcessType
<1>3. {} \in SUBSET (Nodes \union Catalogs) /\ "services" \in Tasks
  BY DEF Tasks
<1> QED
  BY <1>1, <1>2, <1>3, QuietContinue

LEMMA ApplyServicesType ==
  ASSUME TypeOK, NEW p \in Processes, ApplyServices(p)
  PROVE  TypeOK'
<1> ClustersType
  BY TypeParts
<1>1. ClustersType'
  BY DEF ApplyServices, ClustersType
<1> QED
  BY <1>1, QuietEnd DEF ApplyServices, From

LEMMA WaitReachableType ==
  ASSUME TypeOK, NEW p \in Processes, WaitReachable(p)
  PROVE  TypeOK'
<1> ProcessType /\ \A q \in Processes : PlaceOK(q)
  BY TypeParts
<1>1. /\ Quiet /\ UNCHANGED <<clusters, command, waits, left, outcome>> /\ pc[p] = "wait"
  BY DEF WaitReachable, From
<1>2. CASE Exit(p, "0")
  BY <1>1, <1>2, QuietExit
<1>3. CASE cluster[p] < NumClusters /\ cluster' = [cluster EXCEPT ![p] = @ + 1]
           /\ UNCHANGED <<pc, exit>>
  <2>1. cluster[p] + 1 \in Clusters
    BY <1>3, AddOnsNumbers DEF ProcessType
  <2>2. ProcessType'
    BY <1>1, <1>3, <2>1 DEF ProcessType
  <2>3. ASSUME NEW q \in Processes PROVE PlaceOK(q)'
    BY <1>1, <1>3, <2>3 DEF ProcessType, PlaceOK, Quiet, memory
  <2> QED
    BY <1>1, <2>2, <2>3, SameClusters, QuietType
<1> QED
  BY <1>2, <1>3 DEF WaitReachable

LEMMA TimeOutType ==
  ASSUME TypeOK, NEW p \in Processes, TimeOut(p)
  PROVE  TypeOK'
BY QuietExit DEF TimeOut, From

LEMMA DeleteMetalLBType ==
  ASSUME TypeOK, NEW p \in Processes, DeleteMetalLB(p)
  PROVE  TypeOK'
<1> OutsideType /\ MemoryType /\ ClustersType /\ ProcessType /\ HistoryType
  BY TypeParts
<1>1. OutsideType' /\ MemoryType' /\ UNCHANGED <<url, ca>>
  BY DEF DeleteMetalLB, OutsideType, MemoryType, outside, memory
<1>2. ClustersType'
  BY DEF DeleteMetalLB, ClustersType
<1>3. pc[p] # "idle" /\ command[p] = "delete metallb" /\ Continue(p, "crds", {})
  BY DEF DeleteMetalLB, Running, From
<1>4. {} \in SUBSET (Nodes \union Catalogs) /\ "crds" \in Tasks
  BY DEF Tasks
<1>5. ProcessType' /\ \A q \in Processes : PlaceOK(q)'
  BY <1>1, <1>3, <1>4, ContinueType
<1>6. HistoryType'
  <2>1. moved' \subseteq Clusters
    BY DEF HistoryType, DeleteMetalLB
  <2>2. UNCHANGED <<runs, events, shifted, renamed, overlapped>>
    BY DEF DeleteMetalLB
  <2> QED
    BY <2>1, <2>2 DEF HistoryType
<1> QED
  BY <1>1, <1>2, <1>5, <1>6, TypePartsNext

LEMMA DeleteCRDsType ==
  ASSUME TypeOK, NEW p \in Processes, DeleteCRDs(p)
  PROVE  TypeOK'
BY SameClusters, QuietEnd DEF DeleteCRDs, From

LEMMA CheckUIType ==
  ASSUME TypeOK, NEW p \in Processes, CheckUI(p)
  PROVE  TypeOK'
<1>1. /\ UNCHANGED clusters /\ Quiet /\ pc[p] # "idle"
      /\ command[p] \in {"create ui", "delete ui"}
      /\ EndTask(p, "failed") \/ Continue(p, "apply", {})
  BY DEF CheckUI, From
<1>2. {} \in SUBSET (Nodes \union Catalogs) /\ "apply" \in Tasks
  BY DEF Tasks
<1> QED
  BY <1>1, <1>2, SameClusters, QuietEnd, QuietContinue

LEMMA ApplyUIType ==
  ASSUME TypeOK, NEW p \in Processes, ApplyUI(p)
  PROVE  TypeOK'
<1>1. ClustersType'
  BY TypeParts DEF ApplyUI, ClustersType, ProcessType
<1> QED
  BY <1>1, QuietEnd DEF ApplyUI, From

LEMMA CheckICSPType ==
  ASSUME TypeOK, NEW p \in Processes, CheckICSP(p)
  PROVE  TypeOK'
<1>1. /\ UNCHANGED clusters /\ Quiet /\ pc[p] # "idle" /\ command[p] = "create icsp"
      /\ \/ EndTask(p, "failed")
         \/ /\ Continue(p, "trust", {})
            /\ url[p] # Unset /\ ca[p][cluster[p]] # Unset
  BY DEF CheckICSP, Running, From
<1>2. {} \in SUBSET (Nodes \union Catalogs) /\ "trust" \in Tasks
  BY DEF Tasks
<1> QED
  BY <1>1, <1>2, SameClusters, QuietEnd, QuietContinue

LEMMA TrustRegistryType ==
  ASSUME TypeOK, NEW p \in Processes, TrustRegistry(p)
  PROVE  TypeOK'
<1> MemoryType /\ ClustersType /\ ProcessType
  BY TypeParts
<1>1. /\ Quiet /\ pc[p] # "idle" /\ command[p] = "create icsp"
      /\ url[p] # Unset /\ ca[p][cluster[p]] # Unset
      /\ EndTask(p, "ok") \/ Continue(p, "mirrors", Catalogs)
  BY TypeParts DEF TrustRegistry, From, PlaceOK
<1>2. ClustersType'
  <2>1. ca[p][cluster[p]] \in Versions \union {Unset}
    BY DEF MemoryType, ProcessType
  <2> QED
    BY <2>1 DEF TrustRegistry, ClustersType
<1>3. Catalogs \in SUBSET (Nodes \union Catalogs) /\ "mirrors" \in Tasks
  BY DEF Tasks
<1> QED
  BY <1>1, <1>2, <1>3, QuietEnd, QuietContinue

LEMMA CreateCatalogICSPType ==
  ASSUME TypeOK, NEW p \in Processes, CreateCatalogICSP(p)
  PROVE  TypeOK'
<1> MemoryType /\ ClustersType /\ ProcessType
  BY TypeParts
<1>1. /\ Quiet /\ pc[p] # "idle" /\ command[p] = "create icsp"
      /\ url[p] # Unset /\ ca[p][cluster[p]] # Unset
  BY TypeParts DEF CreateCatalogICSP, From, PlaceOK
<1>2. PICK k \in Catalogs : EndTask(p, "ok") \/ Continue(p, "mirrors", left[p] \ {k})
  BY DEF CreateCatalogICSP
<1>3. ClustersType'
  <2>1. url[p] \in Registries \union {Unset}
    BY DEF MemoryType
  <2>2. UNCHANGED <<address, pool, balancer, ui, trusted>>
    BY DEF CreateCatalogICSP
  <2>3. PICK j \in Catalogs :
          mirrors' = IF mirrors[cluster[p]][j] # Unset THEN mirrors
                     ELSE [mirrors EXCEPT ![cluster[p]][j] = url[p]]
    BY DEF CreateCatalogICSP
  <2>4. mirrors' \in [Clusters -> [Catalogs -> Registries \union {Unset}]]
    BY <2>1, <2>3 DEF ClustersType
  <2> QED
    BY <2>2, <2>4 DEF ClustersType
<1>4. left[p] \ {k} \in SUBSET (Nodes \union Catalogs) /\ "mirrors" \in Tasks
  BY DEF ProcessType, Tasks
<1> QED
  BY <1>1, <1>2, <1>3, <1>4, QuietEnd, QuietContinue

LEMMA StartStep ==
  ASSUME NEW p \in Processes, StartCommand(p)
  PROVE  \E what \in Commands, wait \in BOOLEAN :
           Start(p, what, wait) /\ (wait => what = "create metallb")
BY DEF StartCommand, StartCreateCluster, StartDeleteCluster, StartCreateMetalLB,
       StartDeleteMetalLB, StartCreateUI, StartDeleteUI, StartCreateICSP, Commands

LEMMA StartCommandType ==
  ASSUME TypeOK, NEW p \in Processes, StartCommand(p)
  PROVE  TypeOK'
<1>1. PICK what \in Commands, wait \in BOOLEAN :
        Start(p, what, wait) /\ (wait => what = "create metallb")
  BY StartStep
<1> QED
  BY <1>1, StartType

LEMMA StutterType ==
  ASSUME TypeOK, UNCHANGED vars
  PROVE  TypeOK'
<1> OutsideType /\ MemoryType /\ ClustersType /\ ProcessType /\ HistoryType
    /\ \A q \in Processes : PlaceOK(q)
  BY TypeParts
<1>1. OutsideType' /\ MemoryType' /\ ClustersType' /\ ProcessType' /\ HistoryType'
  BY DEF OutsideType, MemoryType, ClustersType, ProcessType, HistoryType, vars, outside,
         memory, clusters, process, history
<1>2. \A q \in Processes : PlaceOK(q)'
  BY DEF PlaceOK, vars, memory, process
<1> QED
  BY <1>1, <1>2, TypePartsNext

LEMMA CommandType ==
  ASSUME TypeOK, NEW p \in Processes, Command(p)
  PROVE  TypeOK'
BY EnrichType, ForgetType, StartAddressesType, WriteAddressType, DeleteClusterType,
   CheckMetalLBType, ApplyPoolType, ApplyServicesType, WaitReachableType, TimeOutType,
   DeleteMetalLBType, DeleteCRDsType, CheckUIType, ApplyUIType, CheckICSPType,
   TrustRegistryType, CreateCatalogICSPType
   DEF Command, End, RunCreateCluster, RunMetalLB, RunUI, RunICSP

LEMMA TypeStep ==
  ASSUME TypeOK, [Next]_vars
  PROVE  TypeOK'
<1>1. CASE Event
  BY <1>1, EventKeeps, EventType
<1>2. CASE Announce
  BY <1>2, AnnounceType
<1>3. ASSUME NEW p \in Processes,
             StartCommand(p) \/ Command(p) \/ FailEnrich(p) \/ FailTask(p) \/ Die(p)
      PROVE  TypeOK'
  BY <1>3, StartCommandType, CommandType, FailType, ForgetType DEF Die
<1>4. CASE UNCHANGED vars
  BY <1>4, StutterType
<1> QED
  BY <1>1, <1>2, <1>3, <1>4 DEF Next

\* Every variable always has a value of its type, and a process is only in a stage of the
\* command that it runs, whatever the sizes.
THEOREM TypeCorrect == Spec => []TypeOK
<1>1. Init => TypeOK
  BY TypeInit
<1>2. TypeOK /\ [Next]_vars => TypeOK'
  BY TypeStep
<1> QED
  BY <1>1, <1>2, PTL DEF Spec

-----------------------------------------------------------------------------
(* What a process doesn't do to the others, and what a step doesn't change.  *)

ProcessStep(p) == StartCommand(p) \/ Command(p) \/ FailEnrich(p) \/ FailTask(p) \/ Die(p)

\* The memory and the place of a process are as they were, but for the kubeconfigs of the
\* clusters that are deleted.
Same(q) ==
  /\ pc'[q] = pc[q] /\ cluster'[q] = cluster[q] /\ command'[q] = command[q]
  /\ left'[q] = left[q] /\ outcome'[q] = outcome[q] /\ exit'[q] = exit[q]
  /\ loaded'[q] = loaded[q] /\ url'[q] = url[q] /\ ca'[q] = ca[q] /\ resolved'[q] = resolved[q]
  /\ (q \in waits') = (q \in waits) /\ kubeconfig'[q] \subseteq kubeconfig[q]

LEMMA EndTaskSame ==
  ASSUME TypeOK, NEW p \in Processes, NEW how, EndTask(p, how), NEW q \in Processes, q # p
  PROVE  /\ pc'[q] = pc[q] /\ cluster'[q] = cluster[q] /\ command'[q] = command[q]
         /\ left'[q] = left[q] /\ outcome'[q] = outcome[q] /\ exit'[q] = exit[q]
         /\ waits' = waits
BY TypeParts DEF ProcessType, EndTask, Exit

LEMMA ContinueSame ==
  ASSUME TypeOK, NEW p \in Processes, NEW place, NEW todo, Continue(p, place, todo),
         NEW q \in Processes, q # p
  PROVE  /\ pc'[q] = pc[q] /\ cluster'[q] = cluster[q] /\ command'[q] = command[q]
         /\ left'[q] = left[q] /\ outcome'[q] = outcome[q] /\ exit'[q] = exit[q]
         /\ waits' = waits
BY TypeParts DEF ProcessType, Continue, To

\* A step of a task ends it or goes on with it, and changes no memory.
TaskGoes(p) ==
  \/ \E how \in {"ok", "failed"} : EndTask(p, how)
  \/ \E place \in Tasks : \E todo : Continue(p, place, todo)

LEMMA TaskGoesEnd ==
  ASSUME NEW p \in Processes, NEW how \in {"ok", "failed"}, EndTask(p, how)
  PROVE  TaskGoes(p)
BY DEF TaskGoes

LEMMA TaskGoesOn ==
  ASSUME NEW p \in Processes, NEW place \in Tasks, NEW todo, Continue(p, place, todo)
  PROVE  TaskGoes(p)
BY DEF TaskGoes

LEMMA TaskStep ==
  ASSUME TypeOK, NEW p \in Processes,
         \/ FailTask(p) \/ RunCreateCluster(p) \/ RunUI(p) \/ RunICSP(p)
         \/ CheckMetalLB(p) \/ ApplyPool(p) \/ ApplyServices(p) \/ DeleteMetalLB(p)
         \/ DeleteCRDs(p)
  PROVE  UNCHANGED memory /\ TaskGoes(p)
<1>1. UNCHANGED memory
  BY DEF FailTask, RunCreateCluster, StartAddresses, WriteAddress, RunUI, CheckUI, ApplyUI,
         RunICSP, CheckICSP, TrustRegistry, CreateCatalogICSP, CheckMetalLB, ApplyPool,
         ApplyServices, DeleteMetalLB, DeleteCRDs, Quiet
<1> SUFFICES TaskGoes(p)
  BY <1>1
<1>2. /\ "addresses" \in Tasks /\ "pool" \in Tasks /\ "services" \in Tasks
      /\ "remove" \in Tasks /\ "crds" \in Tasks /\ "apply" \in Tasks /\ "trust" \in Tasks
      /\ "mirrors" \in Tasks
  BY DEF Tasks
<1>3. CASE FailTask(p) \/ ApplyServices(p) \/ DeleteCRDs(p) \/ ApplyUI(p)
  BY <1>3, TaskGoesEnd DEF FailTask, ApplyServices, DeleteCRDs, ApplyUI
<1>4. CASE StartAddresses(p)
  BY <1>2, <1>4, TaskGoesEnd, TaskGoesOn DEF StartAddresses
<1>5. CASE WriteAddress(p)
  BY <1>2, <1>5, TaskGoesEnd, TaskGoesOn DEF WriteAddress
<1>6. CASE CheckUI(p)
  BY <1>2, <1>6, TaskGoesEnd, TaskGoesOn DEF CheckUI
<1>7. CASE CheckICSP(p)
  BY <1>2, <1>7, TaskGoesEnd, TaskGoesOn DEF CheckICSP
<1>8. CASE TrustRegistry(p)
  BY <1>2, <1>8, TaskGoesEnd, TaskGoesOn DEF TrustRegistry
<1>9. CASE CreateCatalogICSP(p)
  BY <1>2, <1>9, TaskGoesEnd, TaskGoesOn DEF CreateCatalogICSP
<1>10. CASE CheckMetalLB(p)
  <2>1. EndTask(p, "failed") \/ Continue(p, "pool", {}) \/ Continue(p, "remove", {})
    BY <1>10 DEF CheckMetalLB
  <2> QED
    BY <1>2, <2>1, TaskGoesEnd, TaskGoesOn
<1>11. CASE ApplyPool(p) \/ DeleteMetalLB(p)
  BY <1>2, <1>11, TaskGoesOn DEF ApplyPool, DeleteMetalLB
<1> QED
  BY <1>3, <1>4, <1>5, <1>6, <1>7, <1>8, <1>9, <1>10, <1>11
     DEF RunCreateCluster, RunUI, RunICSP

LEMMA OthersKeep ==
  ASSUME TypeOK, NEW p \in Processes, ProcessStep(p), NEW q \in Processes, q # p
  PROVE  Same(q)
<1> MemoryType /\ ProcessType
  BY TypeParts
<1>1. CASE StartCommand(p)
  <2>1. PICK what \in Commands, wait \in BOOLEAN : Start(p, what, wait)
    BY <1>1, StartStep
  <2>2. (q \in waits') = (q \in waits)
    BY <2>1 DEF Start
  <2>3. /\ pc'[q] = pc[q] /\ cluster'[q] = cluster[q] /\ command'[q] = command[q]
        /\ UNCHANGED <<memory, left, outcome, exit>>
    BY <2>1 DEF Start, To, ProcessType
  <2> QED
    BY <2>2, <2>3 DEF Same, memory
<1>2. CASE Forget(p)
  BY <1>2 DEF Forget, ForgetMemory, MemoryType, ProcessType, Same
<1>3. CASE FailEnrich(p)
  BY <1>3 DEF FailEnrich, Exit, memory, ProcessType, Same
<1>4. CASE LoadAndEnrich(p)
  <2>1. UNCHANGED <<command, waits, left, outcome, exit>>
    BY <1>4 DEF LoadAndEnrich, process
  <2>2. pc'[q] = pc[q] /\ cluster'[q] = cluster[q]
    BY <1>4 DEF LoadAndEnrich, Load, Enrich, EnrichCluster, SetConfigRegistry,
                SetExternalNodeIPs, SetKubeconfig, SetClusterRegistry, SetExternalIPs, To,
                ProcessType
  <2>3. /\ loaded'[q] = loaded[q] /\ url'[q] = url[q] /\ ca'[q] = ca[q]
        /\ resolved'[q] = resolved[q] /\ kubeconfig'[q] = kubeconfig[q]
    BY <1>4 DEF LoadAndEnrich, Load, Enrich, EnrichCluster, SetConfigRegistry,
                SetExternalNodeIPs, SetKubeconfig, SetClusterRegistry, SetExternalIPs,
                MemoryType
  <2> QED
    BY <2>1, <2>2, <2>3 DEF Same
<1>5. CASE \/ FailTask(p) \/ RunCreateCluster(p) \/ RunUI(p) \/ RunICSP(p)
           \/ CheckMetalLB(p) \/ ApplyPool(p) \/ ApplyServices(p) \/ DeleteMetalLB(p)
           \/ DeleteCRDs(p)
  <2>1. UNCHANGED memory /\ TaskGoes(p)
    BY <1>5, TaskStep
  <2> QED
    BY <2>1, EndTaskSame, ContinueSame DEF TaskGoes, Same, memory
<1>6. CASE DeleteCluster(p)
  <2>1. EndTask(p, "ok") /\ UNCHANGED <<loaded, url, ca, resolved>>
        /\ kubeconfig'[q] \subseteq kubeconfig[q]
    BY <1>6 DEF DeleteCluster, MemoryType
  <2> QED
    BY <2>1, EndTaskSame DEF Same
<1>7. CASE WaitReachable(p) \/ TimeOut(p)
  BY <1>7 DEF WaitReachable, TimeOut, Exit, Quiet, memory, ProcessType, Same
<1> QED
  BY <1>1, <1>2, <1>3, <1>4, <1>5, <1>6, <1>7 DEF ProcessStep, Command, End, Die, RunMetalLB

\* The steps of what is outside leave all the processes as they are.
LEMMA OutsideKeeps ==
  ASSUME Event \/ Announce
  PROVE  UNCHANGED <<pc, cluster, memory, process>> /\ \A q \in Processes : Same(q)
BY DEF Event, Happen, Announce, memory, process, Same

LEMMA NextSteps ==
  ASSUME Next
  PROVE  Event \/ Announce \/ \E p \in Processes : ProcessStep(p)
BY DEF Next, ProcessStep

LEMMA CommandSteps ==
  ASSUME NEW p \in Processes, ProcessStep(p)
  PROVE  \/ StartCommand(p) \/ Forget(p) \/ FailEnrich(p) \/ FailTask(p) \/ LoadAndEnrich(p)
         \/ StartAddresses(p) \/ WriteAddress(p) \/ DeleteCluster(p)
         \/ CheckMetalLB(p) \/ ApplyPool(p) \/ ApplyServices(p) \/ WaitReachable(p)
         \/ TimeOut(p) \/ DeleteMetalLB(p) \/ DeleteCRDs(p)
         \/ CheckUI(p) \/ ApplyUI(p) \/ CheckICSP(p) \/ TrustRegistry(p)
         \/ CreateCatalogICSP(p)
BY DEF ProcessStep, Command, RunCreateCluster, RunMetalLB, RunUI, RunICSP, End, Die

\* The end of a task, and another step of one.
LEMMA EndTaskPlace ==
  ASSUME TypeOK, NEW p \in Processes, NEW how, EndTask(p, how)
  PROVE  pc'[p] \in {"task", "wait", "done"} /\ command' = command
BY TypeParts DEF ProcessType, EndTask, Exit

LEMMA ContinuePlace ==
  ASSUME TypeOK, NEW p \in Processes, NEW place, NEW todo, Continue(p, place, todo)
  PROVE  /\ pc'[p] = place /\ left'[p] = todo /\ UNCHANGED <<cluster, command, outcome>>
BY TypeParts DEF ProcessType, Continue, To

LEMMA TasksPlace == \A place \in Tasks : place \notin {"idle", "load", "wait", "done"}
BY DEF Tasks

\* How a process comes to the stages that the invariants are about.
LEMMA StageEntered ==
  ASSUME TypeOK, NEW p \in Processes, ProcessStep(p)
  PROVE  /\ pc'[p] = "addresses" => StartAddresses(p) \/ WriteAddress(p)
         /\ pc'[p] = "services" => ApplyPool(p)
         /\ pc'[p] = "mirrors" => TrustRegistry(p) \/ CreateCatalogICSP(p)
         /\ pc'[p] \in {"idle"} \union Enriching =>
              StartCommand(p) \/ Forget(p) \/ LoadAndEnrich(p)
<1> ProcessType
  BY TypeParts
<1>1. CASE StartAddresses(p) \/ WriteAddress(p)
  <2>1. EndTask(p, "ok") \/ \E todo : Continue(p, "addresses", todo)
    BY <1>1 DEF StartAddresses, WriteAddress
  <2> QED
    BY <1>1, <2>1, EndTaskPlace, ContinuePlace DEF Enriching
<1>2. CASE CheckMetalLB(p)
  <2>1. EndTask(p, "failed") \/ Continue(p, "pool", {}) \/ Continue(p, "remove", {})
    BY <1>2 DEF CheckMetalLB
  <2> QED
    BY <2>1, EndTaskPlace, ContinuePlace DEF Enriching
<1>3. CASE CreateCatalogICSP(p)
  <2>1. PICK k \in Catalogs : EndTask(p, "ok") \/ Continue(p, "mirrors", left[p] \ {k})
    BY <1>3 DEF CreateCatalogICSP
  <2> QED
    BY <1>3, <2>1, EndTaskPlace, ContinuePlace DEF Enriching
<1>4. CASE TrustRegistry(p)
  <2>1. EndTask(p, "ok") \/ Continue(p, "mirrors", Catalogs)
    BY <1>4 DEF TrustRegistry
  <2> QED
    BY <1>4, <2>1, EndTaskPlace, ContinuePlace DEF Enriching
<1>5. CASE ApplyPool(p)
  <2>1. Continue(p, "services", {})
    BY <1>5 DEF ApplyPool
  <2> QED
    BY <1>5, <2>1, ContinuePlace DEF Enriching
<1>6. CASE \/ FailTask(p) \/ CheckUI(p) \/ ApplyUI(p) \/ CheckICSP(p) \/ ApplyServices(p)
           \/ DeleteMetalLB(p) \/ DeleteCRDs(p) \/ DeleteCluster(p)
  <2>1. \/ EndTask(p, "ok") \/ EndTask(p, "failed") \/ Continue(p, "apply", {})
        \/ Continue(p, "trust", {}) \/ Continue(p, "crds", {})
    BY <1>6 DEF FailTask, CheckUI, ApplyUI, CheckICSP, ApplyServices, DeleteMetalLB,
                DeleteCRDs, DeleteCluster
  <2> QED
    BY <2>1, EndTaskPlace, ContinuePlace DEF Enriching
<1>7. CASE WaitReachable(p) \/ TimeOut(p) \/ FailEnrich(p)
  <2>1. pc'[p] \in {"wait", "done"}
    BY <1>7 DEF WaitReachable, TimeOut, FailEnrich, Exit, From, ProcessType
  <2> QED
    BY <2>1 DEF Enriching
<1>8. CASE StartCommand(p)
  <2>1. PICK what \in Commands, wait \in BOOLEAN : Start(p, what, wait)
    BY <1>8, StartStep
  <2>2. pc'[p] = "load"
    BY <2>1 DEF Start, To, ProcessType
  <2> QED
    BY <1>8, <2>2
<1>9. CASE Forget(p)
  BY <1>9 DEF Forget, ProcessType
<1>10. CASE LoadAndEnrich(p)
  <2>1. pc'[p] \in {"config", "agents", "kubeconfig", "ca", "names", "task"}
    BY <1>10 DEF LoadAndEnrich, Load, Enrich, EnrichCluster, SetConfigRegistry,
                 SetExternalNodeIPs, SetKubeconfig, SetClusterRegistry, SetExternalIPs, To,
                 ProcessType
  <2> QED
    BY <1>10, <2>1
<1> QED
  BY <1>1, <1>2, <1>3, <1>4, <1>5, <1>6, <1>7, <1>8, <1>9, <1>10, CommandSteps

-----------------------------------------------------------------------------
(* The addresses.  While the nodes of a cluster didn't shift, each address   *)
(* that the hub has is that of the position of the node in the file now, and *)
(* what a creation loaded is the beginning of what is in the file.           *)

PlacedOK ==
  \A c \in Clusters \ shifted, n \in Nodes : address[c][n] # NoAddress =>
    n \in config[c] /\ address[c][n] = Address(Position(n, config[c]))

LoadedOK(p) ==
  /\ command[p] = "create cluster" /\ pc[p] \notin {"load", "done"} =>
       \A c \in Clusters \ shifted : Appends(loaded[p][c], config[c])
  /\ pc[p] = "addresses" => left[p] \subseteq loaded[p][cluster[p]]

AddressInv == PlacedOK /\ \A p \in Processes : LoadedOK(p)

LEMMA AppendsSelf ==
  ASSUME NEW s
  PROVE  Appends(s, s)
BY DEF Appends

LEMMA AppendsAgain ==
  ASSUME NEW r, NEW s, NEW t, Appends(r, s), Appends(s, t)
  PROVE  Appends(r, t)
BY DEF Appends

\* A node that was there keeps its position.
LEMMA AppendsPosition ==
  ASSUME NEW r \in SUBSET Nodes, NEW s \in SUBSET Nodes, Appends(r, s), NEW n \in r
  PROVE  n \in s /\ Position(n, r) = Position(n, s)
<1>1. n \in s
  BY DEF Appends
<1>2. ASSUME NEW m \in s, m < n PROVE m \in r
  <2>1. m \notin r => n < m
    BY DEF Appends
  <2> QED
    BY <1>2, <2>1, AddOnsNumbers
<1>3. {m \in r : m < n} = {m \in s : m < n}
  BY <1>2 DEF Appends
<1> QED
  BY <1>1, <1>3 DEF Position

LEMMA PositionsDiffer ==
  ASSUME NEW s \in SUBSET Nodes, NEW m \in s, NEW n \in s, m # n
  PROVE  Position(m, s) # Position(n, s)
<1>1. ASSUME NEW a \in s, NEW b \in s, a < b PROVE Position(a, s) # Position(b, s)
  <2> DEFINE before(x) == {k \in s : k < x}
  <2>1. before(a) \subseteq before(b) /\ a \in before(b) /\ a \notin before(a)
    BY <1>1, AddOnsNumbers
  <2>2. IsFiniteSet(before(b))
    BY NodesFinite, FS_Subset
  <2>3. Cardinality(before(a)) # Cardinality(before(b))
    <3> HIDE DEF before
    <3> QED
      BY <2>1, <2>2, FS_Subset
  <2> QED
    BY <2>3 DEF Position
<1>2. m < n \/ n < m
  BY AddOnsNumbers
<1> QED
  BY <1>1, <1>2

LEMMA PositionBelow ==
  ASSUME NEW s \in SUBSET Nodes, NEW n \in s
  PROVE  Position(n, s) < Cardinality(s) /\ Cardinality(s) \in Nat
<1> DEFINE before == {k \in s : k < n}
<1>1. before \subseteq s /\ n \notin before
  BY AddOnsNumbers
<1>2. IsFiniteSet(s)
  BY NodesFinite, FS_Subset
<1>3. before # s /\ Cardinality(before) < Cardinality(s)
  <2> HIDE DEF before
  <2>1. IsFiniteSet(before) /\ Cardinality(before) <= Cardinality(s)
        /\ (Cardinality(before) = Cardinality(s) => before = s)
    BY <1>1, <1>2, FS_Subset
  <2>2. Cardinality(before) \in Nat /\ Cardinality(s) \in Nat
    BY <1>2, <2>1, FS_CardinalityType
  <2> QED
    BY <1>1, <2>1, <2>2
<1>4. Cardinality(s) \in Nat
  BY <1>2, FS_CardinalityType
<1> QED
  BY <1>3, <1>4 DEF Position

LEMMA AddressInit == Init => AddressInv
<1> SUFFICES ASSUME Init PROVE AddressInv
  OBVIOUS
<1>1. PlacedOK
  BY AddOnsAssumption DEF Init, PlacedOK
<1>2. ASSUME NEW p \in Processes PROVE LoadedOK(p)
  BY <1>2 DEF Init, EnricherInit, LoadedOK
<1> QED
  BY <1>1, <1>2 DEF AddressInv

\* A change of the file moves the cluster to the shifted ones, or adds after what was there.
LEMMA AddressEdit ==
  ASSUME TypeOK, AddressInv, NEW d \in Clusters, NEW m \in Nodes, EditConfig(d, m),
         UNCHANGED <<pc, cluster, memory, clusters, process>>
  PROVE  AddressInv'
<1> OutsideType /\ MemoryType /\ ProcessType
  BY TypeParts
<1>1. ASSUME NEW c \in Clusters \ shifted' PROVE c \notin shifted /\ Appends(config[c], config'[c])
  <2>1. CASE c = d
    BY <1>1, <2>1 DEF EditConfig
  <2>2. CASE c # d
    <3>1. config'[c] = config[c]
      BY <2>2 DEF EditConfig, OutsideType
    <3> QED
      BY <1>1, <3>1, AppendsSelf DEF EditConfig
  <2> QED
    BY <2>1, <2>2
<1>2. config' \in [Clusters -> SUBSET Nodes]
  BY DEF EditConfig, OutsideType
<1>3. PlacedOK'
  <2> SUFFICES ASSUME NEW c \in Clusters \ shifted', NEW n \in Nodes, address'[c][n] # NoAddress
               PROVE  n \in config'[c] /\ address'[c][n] = Address(Position(n, config'[c]))
    BY DEF PlacedOK
  <2>1. c \notin shifted /\ Appends(config[c], config'[c]) /\ address' = address
    BY <1>1 DEF clusters
  <2>2. n \in config[c] /\ address[c][n] = Address(Position(n, config[c]))
    BY <2>1 DEF AddressInv, PlacedOK
  <2>3. config[c] \in SUBSET Nodes /\ config'[c] \in SUBSET Nodes
    BY <1>2 DEF OutsideType
  <2>4. n \in config'[c] /\ Position(n, config[c]) = Position(n, config'[c])
    BY <2>1, <2>2, <2>3, AppendsPosition
  <2> QED
    BY <2>1, <2>2, <2>4
<1>4. ASSUME NEW p \in Processes PROVE LoadedOK(p)'
  <2>1. UNCHANGED <<pc, cluster, loaded, command, left>>
    BY DEF memory, process
  <2>2. ASSUME NEW c \in Clusters \ shifted', command[p] = "create cluster",
               pc[p] \notin {"load", "done"}
        PROVE  Appends(loaded[p][c], config'[c])
    <3>1. c \notin shifted /\ Appends(config[c], config'[c])
      BY <1>1
    <3>2. Appends(loaded[p][c], config[c])
      BY <2>2, <3>1 DEF AddressInv, LoadedOK
    <3> QED
      BY <3>1, <3>2, AppendsAgain
  <2> QED
    BY <2>1, <2>2 DEF AddressInv, LoadedOK
<1> QED
  BY <1>3, <1>4 DEF AddressInv

\* What the steps that have nothing to do with the addresses keep.
LEMMA AddressKept ==
  ASSUME AddressInv, UNCHANGED <<address, config, shifted>>,
         \A q \in Processes : Same(q) \/ LoadedOK(q)'
  PROVE  AddressInv'
<1>1. PlacedOK'
  BY DEF AddressInv, PlacedOK
<1>2. ASSUME NEW q \in Processes PROVE LoadedOK(q)'
  BY <1>2 DEF AddressInv, LoadedOK, Same
<1> QED
  BY <1>1, <1>2 DEF AddressInv

LEMMA AddressOutside ==
  ASSUME TypeOK, AddressInv, Event \/ Announce
  PROVE  AddressInv'
<1>1. ASSUME NEW c \in Clusters, NEW n \in Nodes, EditConfig(c, n), Event PROVE AddressInv'
  BY <1>1, AddressEdit DEF Event, Happen
<1>2. CASE UNCHANGED <<address, config, shifted>>
  BY <1>2, OutsideKeeps, AddressKept
<1>3. \/ UNCHANGED <<address, config, shifted>>
      \/ Event /\ \E c \in Clusters, n \in Nodes : EditConfig(c, n)
  BY DEF Event, Happen, Install, Move, Report, Replace, Register, Announce, outside, clusters,
         history
<1> QED
  BY <1>1, <1>2, <1>3

\* Of a process that goes on and doesn't come to the stage of the addresses.
LEMMA LoadedKept ==
  ASSUME AddressInv, NEW p \in Processes, UNCHANGED <<config, shifted, command, loaded>>,
         pc[p] \notin {"load", "done"} \/ pc'[p] \in {"load", "done"}, pc'[p] # "addresses"
  PROVE  LoadedOK(p)'
BY DEF AddressInv, LoadedOK

LEMMA WriteAddressPlaced ==
  ASSUME TypeOK, AddressInv, NEW p \in Processes, WriteAddress(p)
  PROVE  PlacedOK'
<1> OutsideType /\ MemoryType /\ ClustersType /\ ProcessType /\ \A q \in Processes : PlaceOK(q)
  BY TypeParts
<1>1. PICK n \in Nodes : IsFirst(n, left[p]) /\ Give(p, n)
  BY DEF WriteAddress
<1>2. UNCHANGED <<config, shifted>> /\ pc[p] = "addresses"
  BY DEF WriteAddress, From, Quiet, outside, history
<1> SUFFICES ASSUME NEW c \in Clusters \ shifted, NEW m \in Nodes, address'[c][m] # NoAddress
             PROVE  m \in config[c] /\ address'[c][m] = Address(Position(m, config[c]))
  BY <1>2 DEF PlacedOK
<1>3. CASE address'[c][m] = address[c][m]
  BY <1>3 DEF AddressInv, PlacedOK
<1>4. CASE address'[c][m] # address[c][m]
  <2>1. c = cluster[p] /\ m = n /\ address'[c][m] = InternalIP(p, c, n)
    BY <1>1, <1>4 DEF Give, ClustersType, ProcessType
  <2>2. command[p] = "create cluster" /\ n \in left[p]
    BY <1>1, <1>2 DEF PlaceOK, IsFirst
  <2>3. Appends(loaded[p][c], config[c]) /\ n \in loaded[p][c]
    BY <1>2, <2>1, <2>2 DEF AddressInv, LoadedOK
  <2>4. loaded[p][c] \in SUBSET Nodes /\ config[c] \in SUBSET Nodes
    BY DEF MemoryType, OutsideType
  <2>5. n \in config[c] /\ Position(n, loaded[p][c]) = Position(n, config[c])
    BY <2>3, <2>4, AppendsPosition
  <2> QED
    BY <2>1, <2>5 DEF InternalIP
<1> QED
  BY <1>3, <1>4

LEMMA WriteAddressLoaded ==
  ASSUME TypeOK, AddressInv, NEW p \in Processes, WriteAddress(p)
  PROVE  LoadedOK(p)'
<1>1. PICK n \in Nodes :
        /\ IsFirst(n, left[p])
        /\ IF left[p] = {n} THEN EndTask(p, "ok") ELSE Continue(p, "addresses", left[p] \ {n})
  BY DEF WriteAddress
<1>2. UNCHANGED <<config, shifted, loaded>> /\ pc[p] = "addresses"
  BY DEF WriteAddress, From, Quiet, outside, history, memory
<1>3. CASE EndTask(p, "ok")
  BY <1>2, <1>3, EndTaskPlace, LoadedKept
<1>4. CASE Continue(p, "addresses", left[p] \ {n})
  <2>1. left'[p] = left[p] \ {n} /\ UNCHANGED <<cluster, command>>
    BY <1>4, ContinuePlace
  <2> QED
    BY <1>2, <2>1 DEF AddressInv, LoadedOK
<1> QED
  BY <1>1, <1>3, <1>4

LEMMA AddressDelete ==
  ASSUME TypeOK, AddressInv, NEW p \in Processes, DeleteCluster(p)
  PROVE  AddressInv'
<1> OutsideType /\ ClustersType /\ ProcessType /\ \A q \in Processes : PlaceOK(q)
  BY TypeParts
<1>1. UNCHANGED <<config, loaded>> /\ pc[p] = "task" /\ command[p] = "delete cluster"
      /\ EndTask(p, "ok")
  BY DEF DeleteCluster, Running, From
<1>2. ASSUME NEW c \in Clusters, NEW n \in Nodes, address'[c][n] # NoAddress
      PROVE  c # cluster[p] /\ address'[c][n] = address[c][n]
  BY <1>2 DEF DeleteCluster, ClustersType, ProcessType
<1>3. \A c \in Clusters : c # cluster[p] /\ c \notin shifted' => c \notin shifted
  BY DEF DeleteCluster
<1>4. ASSUME NEW c \in Clusters \ shifted', NEW n \in Nodes, address'[c][n] # NoAddress
      PROVE  n \in config'[c] /\ address'[c][n] = Address(Position(n, config'[c]))
  <2>1. c # cluster[p] /\ address'[c][n] = address[c][n] /\ config' = config
    BY <1>1, <1>2, <1>4
  <2>2. c \notin shifted
    BY <1>3, <2>1
  <2>3. n \in config[c] /\ address[c][n] = Address(Position(n, config[c]))
    BY <1>4, <2>1, <2>2 DEF AddressInv, PlacedOK
  <2> QED
    BY <2>1, <2>3
<1>5. LoadedOK(p)'
  BY <1>1, EndTaskPlace DEF LoadedOK
<1>6. ASSUME NEW q \in Processes, q # p PROVE LoadedOK(q)'
  <2>1. Same(q)
    BY <1>6, OthersKeep DEF ProcessStep, Command
  <2>2. CASE Busy = {p}
    <3>1. pc[q] = "idle" /\ command[q] = "none"
      BY <1>6, <2>2 DEF Busy, PlaceOK
    <3> QED
      BY <2>1, <3>1 DEF LoadedOK, Same
  <2>3. CASE Busy # {p}
    <3>1. shifted' = shifted
      BY <2>3 DEF DeleteCluster
    <3> QED
      BY <1>1, <2>1, <3>1 DEF AddressInv, LoadedOK, Same
  <2> QED
    BY <2>2, <2>3
<1>7. PlacedOK'
  BY <1>4 DEF PlacedOK
<1> QED
  BY <1>5, <1>6, <1>7 DEF AddressInv

\* The steps that leave the addresses alone, and what the process is left with.
LEMMA AddressOther ==
  ASSUME TypeOK, AddressInv, NEW p \in Processes, ProcessStep(p),
         ~ WriteAddress(p), ~ DeleteCluster(p)
  PROVE  UNCHANGED <<address, config, shifted>>
BY CommandSteps, StartStep
   DEF Start, Forget, FailEnrich, FailTask, LoadAndEnrich, StartAddresses, CheckMetalLB,
       ApplyPool, ApplyServices, WaitReachable, TimeOut, DeleteMetalLB, DeleteCRDs, CheckUI,
       ApplyUI, CheckICSP, TrustRegistry, CreateCatalogICSP, Quiet, outside, clusters, history

LEMMA LoadedEnrich ==
  ASSUME TypeOK, AddressInv, NEW p \in Processes, LoadAndEnrich(p)
  PROVE  LoadedOK(p)'
<1> MemoryType /\ ProcessType
  BY TypeParts
<1>1. UNCHANGED <<config, shifted, command>>
  BY DEF LoadAndEnrich, outside, process, history
<1>2. CASE Load(p)
  <2>1. pc'[p] = "config" /\ loaded'[p] = config
    BY <1>2 DEF Load, To, MemoryType, ProcessType
  <2> QED
    BY <1>1, <2>1, AppendsSelf DEF LoadedOK
<1>3. CASE Enrich(p)
  <2>1. pc[p] \notin {"load", "done"} /\ UNCHANGED loaded
        /\ pc'[p] \in {"agents", "kubeconfig", "ca", "names", "task"}
    BY <1>3 DEF Enrich, EnrichCluster, SetConfigRegistry, SetExternalNodeIPs, SetKubeconfig,
                SetClusterRegistry, SetExternalIPs, From, To, ProcessType
  <2> QED
    BY <1>1, <2>1, LoadedKept
<1> QED
  BY <1>2, <1>3 DEF LoadAndEnrich

LEMMA LoadedTask ==
  ASSUME TypeOK, AddressInv, NEW p \in Processes, UNCHANGED <<address, config, shifted>>,
         ProcessStep(p), ~ WriteAddress(p),
         \/ FailTask(p) \/ StartAddresses(p) \/ RunUI(p) \/ RunICSP(p)
         \/ CheckMetalLB(p) \/ ApplyPool(p) \/ ApplyServices(p) \/ DeleteMetalLB(p)
         \/ DeleteCRDs(p)
  PROVE  LoadedOK(p)'
<1> MemoryType /\ ProcessType
  BY TypeParts
<1>1. UNCHANGED loaded /\ TaskGoes(p)
  BY TaskStep DEF RunCreateCluster, memory
<1>2. pc[p] \notin {"load", "done"}
  BY DEF FailTask, Tasks, StartAddresses, RunUI, CheckUI, ApplyUI, RunICSP, CheckICSP,
         TrustRegistry, CreateCatalogICSP, CheckMetalLB, ApplyPool, ApplyServices,
         DeleteMetalLB, DeleteCRDs, Running, From
<1>3. CASE \E how \in {"ok", "failed"} : EndTask(p, how)
  BY <1>1, <1>2, <1>3, EndTaskPlace, LoadedKept
<1>4. ASSUME NEW place \in Tasks, NEW todo, Continue(p, place, todo) PROVE LoadedOK(p)'
  <2>1. /\ pc'[p] = place /\ left'[p] = todo /\ UNCHANGED <<cluster, command>>
    BY <1>4, ContinuePlace
  <2>2. CASE place # "addresses"
    BY <1>1, <1>2, <2>1, <2>2, LoadedKept
  <2>3. CASE StartAddresses(p)
    <3>1. \/ EndTask(p, "ok")
          \/ Continue(p, "addresses", loaded[p][cluster[p]])
      BY <2>3 DEF StartAddresses
    <3>2. pc'[p] = "addresses" => left'[p] = loaded[p][cluster[p]]
      BY <3>1, EndTaskPlace, ContinuePlace
    <3> QED
      <4>1. \A c \in Clusters \ shifted' : command'[p] = "create cluster" =>
              Appends(loaded'[p][c], config'[c])
        BY <1>1, <1>2, <2>1 DEF AddressInv, LoadedOK
      <4>2. cluster' = cluster /\ loaded' = loaded
        BY <1>1, <2>1
      <4> QED
        BY <3>2, <4>1, <4>2 DEF LoadedOK
  <2>4. CASE ~ StartAddresses(p)
    <3>1. pc'[p] # "addresses"
      BY <2>4, StageEntered
    <3> QED
      BY <1>1, <1>2, <2>1, <3>1, LoadedKept
  <2> QED
    BY <2>2, <2>3, <2>4
<1> QED
  BY <1>1, <1>3, <1>4 DEF TaskGoes

LEMMA AddressStep ==
  ASSUME TypeOK, AddressInv, NEW p \in Processes, ProcessStep(p)
  PROVE  AddressInv'
<1> MemoryType /\ ProcessType
  BY TypeParts
<1>1. \A q \in Processes : q # p => Same(q)
  BY OthersKeep
<1>2. CASE WriteAddress(p)
  <2>1. \A q \in Processes : q # p => LoadedOK(q)'
    BY <1>1, <1>2 DEF WriteAddress, Quiet, outside, history, AddressInv, LoadedOK, Same
  <2> QED
    BY <1>2, <2>1, WriteAddressPlaced, WriteAddressLoaded DEF AddressInv
<1>3. CASE DeleteCluster(p)
  BY <1>3, AddressDelete
<1>4. CASE ~ WriteAddress(p) /\ ~ DeleteCluster(p)
  <2>1. UNCHANGED <<address, config, shifted>>
    BY <1>4, AddressOther
  <2>2. CASE StartCommand(p)
    <3>1. PICK what \in Commands, wait \in BOOLEAN : Start(p, what, wait)
      BY <2>2, StartStep
    <3>2. pc'[p] = "load"
      BY <3>1 DEF Start, To, ProcessType
    <3> QED
      BY <1>1, <2>1, <3>2, AddressKept DEF LoadedOK
  <2>3. CASE Forget(p)
    <3>1. pc'[p] = "idle" /\ command'[p] = "none"
      BY <2>3 DEF Forget, ProcessType
    <3> QED
      BY <1>1, <2>1, <3>1, AddressKept DEF LoadedOK
  <2>4. CASE FailEnrich(p)
    <3>1. pc'[p] = "done" /\ UNCHANGED <<command, loaded>>
      BY <2>4 DEF FailEnrich, Exit, memory, ProcessType
    <3> QED
      BY <1>1, <2>1, <3>1, LoadedKept, AddressKept
  <2>5. CASE LoadAndEnrich(p)
    BY <1>1, <2>1, <2>5, LoadedEnrich, AddressKept
  <2>6. CASE WaitReachable(p) \/ TimeOut(p)
    <3>1. pc[p] = "wait" /\ pc'[p] \in {"wait", "done"} /\ UNCHANGED <<command, loaded>>
      BY <2>6 DEF WaitReachable, TimeOut, Exit, From, Quiet, memory, ProcessType
    <3> QED
      BY <1>1, <2>1, <3>1, LoadedKept, AddressKept
  <2>7. CASE \/ FailTask(p) \/ StartAddresses(p) \/ RunUI(p) \/ RunICSP(p)
             \/ CheckMetalLB(p) \/ ApplyPool(p) \/ ApplyServices(p) \/ DeleteMetalLB(p)
             \/ DeleteCRDs(p)
    BY <1>1, <1>4, <2>1, <2>7, LoadedTask, AddressKept
  <2> QED
    BY <1>4, <2>2, <2>3, <2>4, <2>5, <2>6, <2>7, CommandSteps DEF RunUI, RunICSP
<1> QED
  BY <1>2, <1>3, <1>4

LEMMA AddressInvariant == Spec => []AddressInv
<1>1. TypeOK /\ AddressInv /\ [Next]_vars => AddressInv'
  <2>1. ASSUME TypeOK, AddressInv, Next PROVE AddressInv'
    BY <2>1, NextSteps, AddressOutside, AddressStep
  <2>2. ASSUME AddressInv, UNCHANGED vars PROVE AddressInv'
    BY <2>2 DEF AddressInv, PlacedOK, LoadedOK, vars, outside, clusters, memory, process, history
  <2> QED
    BY <2>1, <2>2
<1> QED
  BY <1>1, AddressInit, TypeCorrect, PTL DEF Spec

\* Below the virtual addresses there is no modulo.
LEMMA AddressFits ==
  ASSUME NEW i \in Nat, NEW size \in Nat, i < size, size <= IngressByte - First
  PROVE  Address(i) = First + i /\ Address(i) \notin VirtualIPs
BY EnricherAssumption DEF Address, VirtualIPs

\* The addresses of the nodes of a cluster are different, and none is one of the virtual ones,
\* while the nodes fit and no node was added before others or removed, for any numbers of
\* clusters, nodes and commands that run at the same time.
THEOREM AddressesAreDistinct == Spec => []AddressesDistinct
<1>1. ASSUME TypeOK, AddressInv PROVE AddressesDistinct
  <2> SUFFICES ASSUME NEW c \in Clusters \ shifted,
                      Cardinality(config[c]) <= IngressByte - First,
                      NEW n \in Nodes, address[c][n] # NoAddress
               PROVE  /\ address[c][n] \notin VirtualIPs
                      /\ \A m \in Nodes : m # n => address[c][m] # address[c][n]
    BY DEF AddressesDistinct
  <2>1. config[c] \in SUBSET Nodes
    BY <1>1, TypeParts DEF OutsideType
  <2>2. ASSUME NEW m \in Nodes, address[c][m] # NoAddress
        PROVE  /\ m \in config[c] /\ Position(m, config[c]) \in Nat
               /\ address[c][m] = First + Position(m, config[c])
               /\ address[c][m] \notin VirtualIPs
    <3>1. m \in config[c] /\ address[c][m] = Address(Position(m, config[c]))
      BY <1>1, <2>2 DEF AddressInv, PlacedOK
    <3>2. Position(m, config[c]) \in Nat
      BY <2>1, PositionType
    <3>3. Position(m, config[c]) < Cardinality(config[c]) /\ Cardinality(config[c]) \in Nat
      BY <2>1, <3>1, PositionBelow
    <3> QED
      BY <3>1, <3>2, <3>3, AddressFits
  <2>3. ASSUME NEW m \in Nodes, m # n PROVE address[c][m] # address[c][n]
    <3>1. CASE address[c][m] = NoAddress
      BY <3>1
    <3>2. CASE address[c][m] # NoAddress
      <4>1. Position(m, config[c]) # Position(n, config[c])
        BY <2>1, <2>2, <2>3, <3>2, PositionsDiffer
      <4>2. First \in Nat
        BY EnricherAssumption
      <4>3. /\ address[c][m] = First + Position(m, config[c])
            /\ address[c][n] = First + Position(n, config[c])
            /\ Position(m, config[c]) \in Nat /\ Position(n, config[c]) \in Nat
        BY <2>2, <3>2
      <4> QED
        BY <4>1, <4>2, <4>3
    <3> QED
      BY <3>1, <3>2
  <2> QED
    BY <2>2, <2>3
<1> QED
  BY <1>1, TypeCorrect, AddressInvariant, PTL

-----------------------------------------------------------------------------
(* What runs alone.  Until two commands run at the same time, a command that *)
(* takes a step finds the others idle.                                       *)

Alone == ~ overlapped => \A p, q \in Processes : pc[p] # "idle" /\ pc[q] # "idle" => p = q

\* Nothing was done for any cluster before the tasks.
Nothing(p) ==
  pc[p] \in {"idle"} \union Enriching => \A c \in Clusters : outcome[p][c] = "none"

AloneInv == Alone /\ \A p \in Processes : Nothing(p)

LEMMA OverlappedStays ==
  ASSUME TypeOK, Next
  PROVE  overlapped => overlapped'
<1>1. CASE Event \/ Announce
  BY <1>1, EventKeeps DEF Announce, history
<1>2. ASSUME NEW p \in Processes, ProcessStep(p) PROVE overlapped => overlapped'
  BY <1>2, CommandSteps, StartStep
     DEF Start, Forget, FailEnrich, FailTask, LoadAndEnrich, StartAddresses, WriteAddress,
         DeleteCluster, CheckMetalLB, ApplyPool, ApplyServices, WaitReachable, TimeOut,
         DeleteMetalLB, DeleteCRDs, CheckUI, ApplyUI, CheckICSP, TrustRegistry,
         CreateCatalogICSP, Quiet, history
<1> QED
  BY <1>1, <1>2, NextSteps

\* Only a start finds its process idle.
LEMMA BusySteps ==
  ASSUME TypeOK, NEW p \in Processes, Command(p) \/ FailEnrich(p) \/ FailTask(p) \/ Die(p)
  PROVE  pc[p] # "idle"
BY DEF Command, Die, FailEnrich, FailTask, LoadAndEnrich, Load, Enrich, EnrichCluster,
       SetConfigRegistry, SetExternalNodeIPs, SetKubeconfig, SetClusterRegistry,
       SetExternalIPs, End, RunCreateCluster, StartAddresses, WriteAddress, DeleteCluster,
       RunMetalLB, CheckMetalLB, ApplyPool, ApplyServices, WaitReachable, TimeOut,
       DeleteMetalLB, DeleteCRDs, RunUI, CheckUI, ApplyUI, RunICSP, CheckICSP, TrustRegistry,
       CreateCatalogICSP, Running, From, Enriching, Tasks

LEMMA OthersIdle ==
  ASSUME TypeOK, Alone, NEW p \in Processes, ProcessStep(p), ~ overlapped',
         NEW q \in Processes, q # p
  PROVE  /\ pc[q] = "idle" /\ command[q] = "none"
         /\ pc'[q] = "idle" /\ command'[q] = "none"
<1>1. pc[q] = "idle"
  <2>1. CASE StartCommand(p)
    <3>1. Busy = {}
      BY <2>1, StartStep DEF Start
    <3> QED
      BY <3>1 DEF Busy
  <2>2. CASE ~ StartCommand(p)
    <3>1. pc[p] # "idle"
      BY <2>2, BusySteps DEF ProcessStep
    <3>2. Next
      BY DEF Next, ProcessStep
    <3>3. ~ overlapped
      BY <3>2, OverlappedStays
    <3> QED
      BY <3>1, <3>3 DEF Alone
  <2> QED
    BY <2>1, <2>2
<1>2. command[q] = "none"
  BY <1>1, TypeParts DEF PlaceOK
<1>3. pc'[q] = pc[q] /\ command'[q] = command[q]
  BY OthersKeep DEF Same
<1> QED
  BY <1>1, <1>2, <1>3

LEMMA AloneStep ==
  ASSUME TypeOK, AloneInv, Next
  PROVE  AloneInv'
<1>1. CASE Event \/ Announce
  <2>1. UNCHANGED <<pc, outcome, overlapped>>
    BY <1>1, OutsideKeeps, EventKeeps DEF process, Announce, history
  <2> QED
    BY <2>1 DEF AloneInv, Alone, Nothing
<1>2. ASSUME NEW p \in Processes, ProcessStep(p) PROVE AloneInv'
  <2>1. Alone'
    BY <1>2, OthersIdle DEF AloneInv, Alone
  <2>2. ASSUME NEW q \in Processes, q # p PROVE Nothing(q)'
    <3>1. Same(q)
      BY <1>2, <2>2, OthersKeep
    <3> QED
      BY <3>1 DEF AloneInv, Nothing, Same
  <2>3. Nothing(p)'
    <3> SUFFICES ASSUME pc'[p] \in {"idle"} \union Enriching, NEW c \in Clusters
                 PROVE  outcome'[p][c] = "none"
      BY DEF Nothing
    <3>1. StartCommand(p) \/ Forget(p) \/ LoadAndEnrich(p)
      BY <1>2, StageEntered
    <3>2. CASE StartCommand(p)
      BY <3>2, StartStep DEF Start, From, AloneInv, Nothing
    <3>3. CASE Forget(p)
      BY <3>3, TypeParts DEF Forget, ProcessType
    <3>4. CASE LoadAndEnrich(p)
      <4>1. UNCHANGED outcome /\ pc[p] \in Enriching
        BY <3>4 DEF LoadAndEnrich, Load, Enrich, EnrichCluster, SetConfigRegistry,
                    SetExternalNodeIPs, SetKubeconfig, SetClusterRegistry, SetExternalIPs,
                    From, Enriching, process
      <4> QED
        BY <4>1 DEF AloneInv, Nothing
    <3> QED
      BY <3>1, <3>2, <3>3, <3>4
  <2> QED
    BY <2>1, <2>2, <2>3 DEF AloneInv
<1> QED
  BY <1>1, <1>2, NextSteps

LEMMA AloneInvariant == Spec => []AloneInv
<1>1. Init => AloneInv
  BY DEF Init, EnricherInit, AloneInv, Alone, Nothing
<1>2. TypeOK /\ AloneInv /\ [Next]_vars => AloneInv'
  <2>1. ASSUME AloneInv, UNCHANGED vars PROVE AloneInv'
    BY <2>1 DEF AloneInv, Alone, Nothing, vars, process, history
  <2> QED
    BY <2>1, AloneStep
<1> QED
  BY <1>1, <1>2, TypeCorrect, PTL DEF Spec

-----------------------------------------------------------------------------
(* The mirrors.  A policy is for a registry that the cluster trusts, and so  *)
(* is the next one of a process that can still reach the cluster.            *)

TrustedOK ==
  \A c \in Clusters, k \in Catalogs : mirrors[c][k] # Unset => trusted[c][mirrors[c][k]] # Unset

TrustsOK(p) ==
  pc[p] = "mirrors" /\ HasKubeconfig(p) => trusted[cluster[p]][url[p]] # Unset

TrustedInv == TrustedOK /\ \A p \in Processes : TrustsOK(p)

LEMMA TrustsKept ==
  ASSUME NEW q \in Processes, TrustsOK(q), Same(q), UNCHANGED trusted
  PROVE  TrustsOK(q)'
BY DEF TrustsOK, HasKubeconfig, Same

LEMMA TrustedDelete ==
  ASSUME TypeOK, TrustedInv, NEW p \in Processes, DeleteCluster(p)
  PROVE  TrustedInv'
<1> MemoryType /\ ClustersType /\ ProcessType
  BY TypeParts
<1>1. /\ trusted' = [trusted EXCEPT ![cluster[p]] = [r \in Registries |-> Unset]]
      /\ mirrors' = [mirrors EXCEPT ![cluster[p]] = NoMirrors]
      /\ kubeconfig' = [q \in Processes |-> kubeconfig[q] \ {cluster[p]}]
      /\ EndTask(p, "ok")
  BY DEF DeleteCluster
<1>2. TrustedOK'
  <2> SUFFICES ASSUME NEW c \in Clusters, NEW k \in Catalogs, mirrors'[c][k] # Unset
               PROVE  trusted'[c][mirrors'[c][k]] # Unset
    BY DEF TrustedOK
  <2>1. c # cluster[p]
    BY <1>1 DEF ClustersType, ProcessType, NoMirrors
  <2>2. mirrors'[c] = mirrors[c] /\ trusted'[c] = trusted[c]
    BY <1>1, <2>1 DEF ClustersType
  <2> QED
    BY <2>2 DEF TrustedInv, TrustedOK
<1>3. TrustsOK(p)'
  BY <1>1, EndTaskPlace DEF TrustsOK
<1>4. ASSUME NEW q \in Processes, q # p PROVE TrustsOK(q)'
  <2> SUFFICES ASSUME pc'[q] = "mirrors", HasKubeconfig(q)' PROVE trusted'[cluster'[q]][url'[q]] # Unset
    BY DEF TrustsOK
  <2>1. Same(q)
    BY <1>4, OthersKeep DEF ProcessStep, Command
  <2>2. cluster[q] # cluster[p] /\ HasKubeconfig(q)
    BY <1>1, <2>1 DEF HasKubeconfig, Same
  <2>3. trusted'[cluster[q]] = trusted[cluster[q]]
    BY <1>1, <2>2 DEF ClustersType, ProcessType
  <2> QED
    BY <2>1, <2>2, <2>3 DEF TrustedInv, TrustsOK, Same
<1> QED
  BY <1>2, <1>3, <1>4 DEF TrustedInv

LEMMA TrustedTrust ==
  ASSUME TypeOK, TrustedInv, NEW p \in Processes, TrustRegistry(p)
  PROVE  TrustedInv'
<1> MemoryType /\ ClustersType /\ ProcessType /\ \A q \in Processes : PlaceOK(q)
  BY TypeParts
<1>1. /\ trusted' = [trusted EXCEPT ![cluster[p]][url[p]] = ca[p][cluster[p]]]
      /\ UNCHANGED <<mirrors, url, kubeconfig>>
      /\ EndTask(p, "ok") \/ Continue(p, "mirrors", Catalogs)
  BY DEF TrustRegistry, Quiet, memory
<1>2. ca[p][cluster[p]] # Unset /\ url[p] \in Registries
  BY DEF TrustRegistry, From, PlaceOK, MemoryType
<1>3. \A c \in Clusters, r \in Registries : trusted[c][r] # Unset => trusted'[c][r] # Unset
  BY <1>1, <1>2 DEF ClustersType
<1>4. trusted'[cluster[p]][url[p]] # Unset
  BY <1>1, <1>2 DEF ClustersType, ProcessType
<1>5. TrustedOK'
  <2>1. ASSUME NEW c \in Clusters, NEW k \in Catalogs, mirrors[c][k] # Unset
        PROVE  trusted'[c][mirrors[c][k]] # Unset
    <3>1. mirrors[c][k] \in Registries
      BY <2>1 DEF ClustersType
    <3> QED
      BY <1>3, <2>1, <3>1 DEF TrustedInv, TrustedOK
  <2> QED
    BY <1>1, <2>1 DEF TrustedOK
<1>6. TrustsOK(p)'
  <2>1. CASE EndTask(p, "ok")
    BY <2>1, EndTaskPlace DEF TrustsOK
  <2>2. CASE Continue(p, "mirrors", Catalogs)
    <3>1. cluster' = cluster
      BY <2>2, ContinuePlace
    <3> QED
      BY <1>1, <1>4, <3>1 DEF TrustsOK
  <2> QED
    BY <1>1, <2>1, <2>2
<1>7. ASSUME NEW q \in Processes, q # p PROVE TrustsOK(q)'
  <2>1. Same(q)
    BY <1>7, OthersKeep DEF ProcessStep, Command, RunICSP
  <2> SUFFICES ASSUME pc'[q] = "mirrors", HasKubeconfig(q)' PROVE trusted'[cluster'[q]][url'[q]] # Unset
    BY DEF TrustsOK
  <2>2. pc[q] = "mirrors" /\ HasKubeconfig(q)
    BY <1>1, <2>1 DEF HasKubeconfig, Same
  <2>3. url[q] \in Registries /\ cluster[q] \in Clusters
    BY <2>2 DEF PlaceOK, MemoryType, ProcessType
  <2> QED
    BY <1>3, <2>1, <2>2, <2>3 DEF TrustedInv, TrustsOK, Same
<1> QED
  BY <1>5, <1>6, <1>7 DEF TrustedInv

LEMMA TrustedMirror ==
  ASSUME TypeOK, TrustedInv, NEW p \in Processes, CreateCatalogICSP(p)
  PROVE  TrustedInv'
<1> MemoryType /\ ClustersType /\ ProcessType
  BY TypeParts
<1>1. PICK k \in Catalogs :
        /\ mirrors' = IF mirrors[cluster[p]][k] # Unset THEN mirrors
                      ELSE [mirrors EXCEPT ![cluster[p]][k] = url[p]]
        /\ EndTask(p, "ok") \/ Continue(p, "mirrors", left[p] \ {k})
  BY DEF CreateCatalogICSP
<1>2. UNCHANGED <<trusted, url, kubeconfig>> /\ HasKubeconfig(p) /\ pc[p] = "mirrors"
  BY DEF CreateCatalogICSP, Quiet, memory, From
<1>3. trusted[cluster[p]][url[p]] # Unset
  BY <1>2 DEF TrustedInv, TrustsOK
<1>4. TrustedOK'
  <2>1. ASSUME NEW c \in Clusters, NEW j \in Catalogs, mirrors'[c][j] # Unset
        PROVE  trusted[c][mirrors'[c][j]] # Unset
    <3>1. mirrors'[c][j] = mirrors[c][j] \/ (c = cluster[p] /\ mirrors'[c][j] = url[p])
      BY <1>1 DEF ClustersType, ProcessType
    <3> QED
      BY <1>3, <2>1, <3>1 DEF TrustedInv, TrustedOK
  <2> QED
    BY <1>2, <2>1 DEF TrustedOK
<1>5. TrustsOK(p)'
  <2>1. CASE EndTask(p, "ok")
    BY <2>1, EndTaskPlace DEF TrustsOK
  <2>2. CASE Continue(p, "mirrors", left[p] \ {k})
    <3>1. cluster' = cluster
      BY <2>2, ContinuePlace
    <3> QED
      BY <1>2, <1>3, <3>1 DEF TrustsOK
  <2> QED
    BY <1>1, <2>1, <2>2
<1>6. ASSUME NEW q \in Processes, q # p PROVE TrustsOK(q)'
  <2>1. Same(q)
    BY <1>6, OthersKeep DEF ProcessStep, Command, RunICSP
  <2> QED
    BY <1>2, <2>1, TrustsKept DEF TrustedInv
<1> QED
  BY <1>4, <1>5, <1>6 DEF TrustedInv

LEMMA TrustedStep ==
  ASSUME TypeOK, TrustedInv, Next
  PROVE  TrustedInv'
<1>1. CASE Event \/ Announce
  <2>1. UNCHANGED <<trusted, mirrors>>
    BY <1>1 DEF Event, Happen, Announce, clusters
  <2>2. \A q \in Processes : Same(q)
    BY <1>1, OutsideKeeps
  <2> QED
    BY <2>1, <2>2, TrustsKept DEF TrustedInv, TrustedOK
<1>2. ASSUME NEW p \in Processes, ProcessStep(p) PROVE TrustedInv'
  <2>1. CASE DeleteCluster(p) \/ TrustRegistry(p) \/ CreateCatalogICSP(p)
    BY <2>1, TrustedDelete, TrustedTrust, TrustedMirror
  <2>2. CASE ~ DeleteCluster(p) /\ ~ TrustRegistry(p) /\ ~ CreateCatalogICSP(p)
    <3>1. UNCHANGED <<trusted, mirrors>>
      BY <1>2, <2>2, CommandSteps, StartStep
         DEF Start, Forget, FailEnrich, FailTask, LoadAndEnrich, StartAddresses, WriteAddress,
             CheckMetalLB, ApplyPool, ApplyServices, WaitReachable, TimeOut, DeleteMetalLB,
             DeleteCRDs, CheckUI, ApplyUI, CheckICSP, clusters
    <3>2. pc'[p] # "mirrors"
      BY <1>2, <2>2, StageEntered
    <3>3. \A q \in Processes : q # p => Same(q)
      BY <1>2, OthersKeep
    <3>4. TrustedOK'
      BY <3>1 DEF TrustedInv, TrustedOK
    <3>5. TrustsOK(p)'
      BY <3>2 DEF TrustsOK
    <3> QED
      BY <3>1, <3>3, <3>4, <3>5, TrustsKept DEF TrustedInv
  <2> QED
    BY <2>1, <2>2
<1> QED
  BY <1>1, <1>2, NextSteps

LEMMA TrustedInvariant == Spec => []TrustedInv
<1>1. Init => TrustedInv
  BY DEF Init, EnricherInit, TrustedInv, TrustedOK, TrustsOK, NoMirrors
<1>2. TypeOK /\ TrustedInv /\ [Next]_vars => TrustedInv'
  <2>1. ASSUME TrustedInv, UNCHANGED vars PROVE TrustedInv'
    BY <2>1 DEF TrustedInv, TrustedOK, TrustsOK, HasKubeconfig, vars, memory, clusters
  <2> QED
    BY <2>1, TrustedStep
<1> QED
  BY <1>1, <1>2, TypeCorrect, PTL DEF Spec

-----------------------------------------------------------------------------
(* The registry of the policies.  Until another one is named, they all name  *)
(* the same one, that the processes have in memory.                          *)

Target == IF Configured # Unset THEN Configured ELSE registry

TargetsMirrors == ~ renamed => \A c \in Clusters, k \in Catalogs : mirrors[c][k] \in {Unset, Target}

TargetsURL(p) ==
  ~ renamed /\ pc[p] \in {"agents", "kubeconfig", "ca", "names"} \union Tasks => url[p] = Target

TargetInv == TargetsMirrors /\ \A p \in Processes : TargetsURL(p)

LEMMA TargetOutside ==
  ASSUME TypeOK, TargetInv, Event \/ Announce
  PROVE  TargetInv'
<1>1. UNCHANGED <<pc, cluster, memory, process, mirrors>>
  BY OutsideKeeps DEF Event, Happen, Announce, clusters
<1>2. CASE UNCHANGED <<registry, renamed>>
  BY <1>1, <1>2 DEF TargetInv, TargetsMirrors, TargetsURL, Target, memory
<1>3. ASSUME NEW r \in Registries \union {Unset}, Register(r) PROVE TargetInv'
  <2>1. ASSUME ~ renamed' PROVE Busy = {} /\ \A c \in Clusters : mirrors[c] = NoMirrors
    BY <1>3, <2>1 DEF Register
  <2>2. TargetsMirrors'
    BY <1>1, <2>1 DEF TargetsMirrors, NoMirrors
  <2>3. ASSUME NEW p \in Processes PROVE TargetsURL(p)'
    <3> SUFFICES ASSUME ~ renamed', pc'[p] \in {"agents", "kubeconfig", "ca", "names"} \union Tasks
                 PROVE  FALSE
      BY DEF TargetsURL
    <3>1. pc[p] = "idle"
      BY <2>1 DEF Busy
    <3> QED
      BY <1>1, <3>1, TasksPlace
  <2> QED
    BY <2>2, <2>3 DEF TargetInv
<1>4. UNCHANGED <<registry, renamed>> \/ \E r \in Registries \union {Unset} : Register(r)
  BY DEF Event, Happen, Install, Move, EditConfig, Report, Replace, Announce, outside, history
<1> QED
  BY <1>2, <1>3, <1>4

LEMMA TargetUnchanged ==
  ASSUME TypeOK, NEW p \in Processes, ProcessStep(p)
  PROVE  UNCHANGED <<registry, renamed>>
BY CommandSteps, StartStep
   DEF Start, Forget, FailEnrich, FailTask, LoadAndEnrich, StartAddresses, WriteAddress,
       DeleteCluster, CheckMetalLB, ApplyPool, ApplyServices, WaitReachable, TimeOut,
       DeleteMetalLB, DeleteCRDs, CheckUI, ApplyUI, CheckICSP, TrustRegistry,
       CreateCatalogICSP, Quiet, outside, history

\* The URL of a process changes only when it finds the registry and when it ends.
LEMMA TargetURLStep ==
  ASSUME TypeOK, TargetInv, NEW p \in Processes, ProcessStep(p)
  PROVE  TargetsURL(p)'
<1> MemoryType /\ ProcessType
  BY TypeParts
<1>1. UNCHANGED <<registry, renamed>>
  BY TargetUnchanged
<1> DEFINE Later == {"agents", "kubeconfig", "ca", "names"} \union Tasks
<1> SUFFICES ASSUME ~ renamed', pc'[p] \in Later PROVE url'[p] = Target
  BY <1>1 DEF TargetsURL, Target
<1>2. CASE url' = url /\ pc[p] \in Later
  BY <1>1, <1>2 DEF TargetInv, TargetsURL
<1>3. CASE StartCommand(p) \/ Forget(p) \/ FailEnrich(p) \/ Load(p)
  <2>1. pc'[p] \in {"idle", "load", "config", "done"}
    BY <1>3, StartStep DEF Start, To, Forget, FailEnrich, Exit, Load, ProcessType
  <2> QED
    BY <2>1, TasksPlace DEF Tasks
<1>4. CASE SetConfigRegistry(p)
  BY <1>4 DEF SetConfigRegistry, MemoryType, Target
<1>5. CASE EnrichCluster(p)
  <2>1. url' = url /\ pc[p] \in {"agents", "kubeconfig", "ca", "names"}
    BY <1>5 DEF EnrichCluster, SetExternalNodeIPs, SetKubeconfig, SetClusterRegistry,
                SetExternalIPs, From
  <2> QED
    BY <1>2, <2>1
<1>6. CASE WaitReachable(p) \/ TimeOut(p)
  <2>1. pc'[p] \in {"wait", "done"}
    BY <1>6 DEF WaitReachable, TimeOut, Exit, From, ProcessType
  <2> QED
    BY <2>1, TasksPlace
<1>7. CASE \/ FailTask(p) \/ RunCreateCluster(p) \/ RunUI(p) \/ RunICSP(p)
           \/ CheckMetalLB(p) \/ ApplyPool(p) \/ ApplyServices(p) \/ DeleteMetalLB(p)
           \/ DeleteCRDs(p) \/ DeleteCluster(p)
  <2>1. url' = url
    BY <1>7, TaskStep DEF memory, DeleteCluster
  <2>2. pc[p] \in Tasks
    BY <1>7 DEF FailTask, RunCreateCluster, StartAddresses, WriteAddress, RunUI, CheckUI,
                ApplyUI, RunICSP, CheckICSP, TrustRegistry, CreateCatalogICSP, CheckMetalLB,
                ApplyPool, ApplyServices, DeleteMetalLB, DeleteCRDs, DeleteCluster, Running,
                From, Tasks
  <2> QED
    BY <1>2, <2>1, <2>2
<1> QED
  BY <1>3, <1>4, <1>5, <1>6, <1>7, CommandSteps
     DEF LoadAndEnrich, Enrich, RunCreateCluster, RunUI, RunICSP

LEMMA TargetMirrorsStep ==
  ASSUME TypeOK, TargetInv, NEW p \in Processes, ProcessStep(p)
  PROVE  TargetsMirrors'
<1> MemoryType /\ ClustersType /\ ProcessType
  BY TypeParts
<1>1. UNCHANGED <<registry, renamed>>
  BY TargetUnchanged
<1> SUFFICES ASSUME ~ renamed, NEW c \in Clusters, NEW k \in Catalogs
             PROVE  mirrors'[c][k] \in {Unset, Target}
  BY <1>1 DEF TargetsMirrors, Target
<1>2. mirrors[c][k] \in {Unset, Target}
  BY DEF TargetInv, TargetsMirrors
<1>3. CASE CreateCatalogICSP(p)
  <2>1. pc[p] = "mirrors"
    BY <1>3 DEF CreateCatalogICSP, From
  <2>2. url[p] = Target
    BY <2>1 DEF TargetInv, TargetsURL, Tasks
  <2>3. mirrors'[c][k] = mirrors[c][k] \/ mirrors'[c][k] = url[p]
    BY <1>3 DEF CreateCatalogICSP, ClustersType, ProcessType
  <2> QED
    BY <1>2, <2>2, <2>3
<1>4. CASE DeleteCluster(p)
  <2>1. mirrors'[c][k] = mirrors[c][k] \/ mirrors'[c][k] = Unset
    BY <1>4 DEF DeleteCluster, ClustersType, ProcessType, NoMirrors
  <2> QED
    BY <1>2, <2>1
<1>5. CASE ~ CreateCatalogICSP(p) /\ ~ DeleteCluster(p)
  <2>1. UNCHANGED mirrors
    BY <1>5, CommandSteps, StartStep
       DEF Start, Forget, FailEnrich, FailTask, LoadAndEnrich, StartAddresses, WriteAddress,
           CheckMetalLB, ApplyPool, ApplyServices, WaitReachable, TimeOut, DeleteMetalLB,
           DeleteCRDs, CheckUI, ApplyUI, CheckICSP, TrustRegistry, clusters
  <2> QED
    BY <1>2, <2>1
<1> QED
  BY <1>3, <1>4, <1>5

LEMMA TargetStep ==
  ASSUME TypeOK, TargetInv, Next
  PROVE  TargetInv'
<1>1. ASSUME NEW p \in Processes, ProcessStep(p) PROVE TargetInv'
  <2>1. ASSUME NEW q \in Processes, q # p PROVE TargetsURL(q)'
    BY <1>1, <2>1, OthersKeep, TargetUnchanged DEF TargetInv, TargetsURL, Target, Same
  <2> QED
    BY <1>1, <2>1, TargetURLStep, TargetMirrorsStep DEF TargetInv
<1> QED
  BY <1>1, TargetOutside, NextSteps

LEMMA TargetInvariant == Spec => []TargetInv
<1>1. Init => TargetInv
  BY TasksPlace DEF Init, EnricherInit, TargetInv, TargetsMirrors, TargetsURL, NoMirrors
<1>2. TypeOK /\ TargetInv /\ [Next]_vars => TargetInv'
  <2>1. ASSUME TargetInv, UNCHANGED vars PROVE TargetInv'
    BY <2>1 DEF TargetInv, TargetsMirrors, TargetsURL, Target, vars, outside, memory,
                clusters, history
  <2> QED
    BY <2>1, TargetStep
<1> QED
  BY <1>1, <1>2, TypeCorrect, PTL DEF Spec

-----------------------------------------------------------------------------
(* What a command that runs alone leaves in the clusters: the certificate    *)
(* that it had, and the policies of the catalogs that it has been through.   *)

Mirrored(p, c, s) ==
  /\ trusted[c][url[p]] = ca[p][c]
  /\ \A k \in s : mirrors[c][k] # Unset /\ (~ renamed => mirrors[c][k] = url[p])

MirroredOK(p) ==
  ~ overlapped /\ command[p] = "create icsp" =>
    /\ pc[p] = "mirrors" => Mirrored(p, cluster[p], Catalogs \ left[p])
    /\ \A c \in Clusters : outcome[p][c] = "ok" => Mirrored(p, c, Catalogs)

MirroredInv == \A p \in Processes : MirroredOK(p)

\* The same after a step.
MirroredNext(p, c, s) ==
  /\ trusted'[c][url'[p]] = ca'[p][c]
  /\ \A k \in s : mirrors'[c][k] # Unset /\ (~ renamed' => mirrors'[c][k] = url'[p])

LEMMA MirroredOKNext ==
  ASSUME NEW p \in Processes,
         ~ overlapped' /\ command'[p] = "create icsp" =>
           /\ pc'[p] = "mirrors" => MirroredNext(p, cluster'[p], Catalogs \ left'[p])
           /\ \A c \in Clusters : outcome'[p][c] = "ok" => MirroredNext(p, c, Catalogs)
  PROVE  MirroredOK(p)'
BY DEF MirroredOK, Mirrored, MirroredNext

LEMMA MirroredOutside ==
  ASSUME TypeOK, MirroredInv, Event \/ Announce
  PROVE  MirroredInv'
<1>1. UNCHANGED <<pc, cluster, memory, process, trusted, mirrors, overlapped>>
  BY OutsideKeeps, EventKeeps DEF Event, Happen, Announce, clusters, history
<1>2. renamed => renamed'
  BY DEF Event, Install, Move, EditConfig, Report, Replace, Register, Announce, history
<1>3. \A p \in Processes, c \in Clusters : \A s : Mirrored(p, c, s) => MirroredNext(p, c, s)
  BY <1>1, <1>2 DEF Mirrored, MirroredNext, memory
<1> SUFFICES ASSUME NEW p \in Processes, ~ overlapped', command'[p] = "create icsp"
             PROVE  /\ pc'[p] = "mirrors" => MirroredNext(p, cluster'[p], Catalogs \ left'[p])
                    /\ \A c \in Clusters : outcome'[p][c] = "ok" => MirroredNext(p, c, Catalogs)
  BY MirroredOKNext DEF MirroredInv
<1>4. /\ pc[p] = "mirrors" => Mirrored(p, cluster[p], Catalogs \ left[p])
      /\ \A c \in Clusters : outcome[p][c] = "ok" => Mirrored(p, c, Catalogs)
  BY <1>1 DEF MirroredInv, MirroredOK, process
<1>5. cluster[p] \in Clusters
  BY TypeParts DEF ProcessType
<1> QED
  BY <1>1, <1>3, <1>4, <1>5 DEF process

\* Of a process that doesn't come to the policies, and finishes no task.
LEMMA MirroredKept ==
  ASSUME TypeOK, MirroredInv, NEW p \in Processes, ~ overlapped' => ~ overlapped,
         command'[p] = command[p], UNCHANGED <<url, ca, trusted, mirrors, renamed>>,
         pc'[p] # "mirrors",
         \A c \in Clusters : outcome'[p][c] = "ok" => outcome[p][c] = "ok"
  PROVE  MirroredOK(p)'
BY DEF MirroredInv, MirroredOK, Mirrored

LEMMA MirroredTrust ==
  ASSUME TypeOK, MirroredInv, NEW p \in Processes, TrustRegistry(p)
  PROVE  MirroredOK(p)'
<1> MemoryType /\ ClustersType /\ ProcessType /\ \A q \in Processes : PlaceOK(q)
  BY TypeParts
<1>1. /\ trusted' = [trusted EXCEPT ![cluster[p]][url[p]] = ca[p][cluster[p]]]
      /\ UNCHANGED <<mirrors, url, ca, renamed, overlapped>> /\ pc[p] = "trust"
      /\ IF Catalogs = {} THEN EndTask(p, "ok") ELSE Continue(p, "mirrors", Catalogs)
  BY DEF TrustRegistry, From, Quiet, memory, history
<1>2. url[p] \in Registries /\ cluster[p] \in Clusters
  BY <1>1 DEF PlaceOK, MemoryType, ProcessType
<1>3. trusted'[cluster[p]][url[p]] = ca[p][cluster[p]]
  BY <1>1, <1>2 DEF ClustersType
<1>4. ASSUME NEW c \in Clusters, Mirrored(p, c, Catalogs) PROVE MirroredNext(p, c, Catalogs)
  <2>1. trusted'[c][url[p]] = ca[p][c]
    BY <1>1, <1>2, <1>4 DEF Mirrored, ClustersType
  <2> QED
    BY <1>1, <1>4, <2>1 DEF Mirrored, MirroredNext
<1> SUFFICES ASSUME ~ overlapped, command[p] = "create icsp"
             PROVE  /\ pc'[p] = "mirrors" => MirroredNext(p, cluster'[p], Catalogs \ left'[p])
                    /\ \A c \in Clusters : outcome'[p][c] = "ok" => MirroredNext(p, c, Catalogs)
  BY <1>1, EndTaskPlace, ContinuePlace, MirroredOKNext
<1>5. \A c \in Clusters : outcome[p][c] = "ok" => Mirrored(p, c, Catalogs)
  BY DEF MirroredInv, MirroredOK
<1>6. CASE Catalogs = {}
  <2>1. EndTask(p, "ok")
    BY <1>1, <1>6
  <2>2. pc'[p] # "mirrors"
    BY <2>1, EndTaskPlace
  <2>3. \A c \in Clusters : outcome'[p][c] = "ok" => c = cluster[p] \/ outcome[p][c] = "ok"
    BY <2>1 DEF EndTask, ProcessType
  <2>4. MirroredNext(p, cluster[p], Catalogs)
    BY <1>1, <1>3, <1>6 DEF MirroredNext
  <2> QED
    BY <1>4, <1>5, <2>2, <2>3, <2>4
<1>7. CASE Catalogs # {}
  <2>1. Continue(p, "mirrors", Catalogs)
    BY <1>1, <1>7
  <2>2. left'[p] = Catalogs /\ UNCHANGED <<cluster, outcome>>
    BY <2>1, ContinuePlace
  <2>3. MirroredNext(p, cluster'[p], Catalogs \ left'[p])
    BY <1>1, <1>3, <2>2 DEF MirroredNext
  <2> QED
    BY <1>4, <1>5, <2>2, <2>3
<1> QED
  BY <1>6, <1>7

LEMMA MirroredMirror ==
  ASSUME TypeOK, TargetInv, MirroredInv, NEW p \in Processes, CreateCatalogICSP(p)
  PROVE  MirroredOK(p)'
<1> MemoryType /\ ClustersType /\ ProcessType /\ \A q \in Processes : PlaceOK(q)
  BY TypeParts
<1>1. PICK k \in Catalogs :
        /\ IsFirst(k, left[p])
        /\ mirrors' = IF mirrors[cluster[p]][k] # Unset THEN mirrors
                      ELSE [mirrors EXCEPT ![cluster[p]][k] = url[p]]
        /\ IF left[p] = {k} THEN EndTask(p, "ok") ELSE Continue(p, "mirrors", left[p] \ {k})
  BY DEF CreateCatalogICSP
<1>2. UNCHANGED <<trusted, url, ca, renamed, overlapped>> /\ pc[p] = "mirrors"
  BY DEF CreateCatalogICSP, Quiet, memory, history, From
<1>3. url[p] # Unset /\ cluster[p] \in Clusters
  BY <1>2 DEF PlaceOK, ProcessType
<1>4. ~ renamed => url[p] = Target /\ mirrors[cluster[p]][k] \in {Unset, Target}
  BY <1>2, <1>3 DEF TargetInv, TargetsMirrors, TargetsURL, Tasks
<1>5. mirrors'[cluster[p]][k] # Unset /\ (~ renamed => mirrors'[cluster[p]][k] = url[p])
  BY <1>1, <1>3, <1>4 DEF ClustersType
<1>6. ASSUME NEW c \in Clusters, NEW j \in Catalogs,
             mirrors[c][j] # Unset /\ (~ renamed => mirrors[c][j] = url[p])
      PROVE  mirrors'[c][j] # Unset /\ (~ renamed => mirrors'[c][j] = url[p])
  BY <1>1, <1>3, <1>6 DEF ClustersType
<1>7. ASSUME NEW c \in Clusters, Mirrored(p, c, Catalogs) PROVE MirroredNext(p, c, Catalogs)
  BY <1>2, <1>6, <1>7 DEF Mirrored, MirroredNext
<1> SUFFICES ASSUME ~ overlapped, command[p] = "create icsp"
             PROVE  /\ pc'[p] = "mirrors" => MirroredNext(p, cluster'[p], Catalogs \ left'[p])
                    /\ \A c \in Clusters : outcome'[p][c] = "ok" => MirroredNext(p, c, Catalogs)
  BY <1>1, <1>2, EndTaskPlace, ContinuePlace, MirroredOKNext
<1>8. /\ \A c \in Clusters : outcome[p][c] = "ok" => Mirrored(p, c, Catalogs)
      /\ Mirrored(p, cluster[p], Catalogs \ left[p])
  BY <1>2 DEF MirroredInv, MirroredOK
<1>9. ASSUME NEW s \in SUBSET Catalogs, s \subseteq (Catalogs \ left[p]) \union {k}
      PROVE  MirroredNext(p, cluster[p], s)
  <2>1. ASSUME NEW j \in s
        PROVE  mirrors'[cluster[p]][j] # Unset /\ (~ renamed => mirrors'[cluster[p]][j] = url[p])
    <3>1. CASE j = k
      BY <1>5, <3>1
    <3>2. CASE j # k
      <4>1. mirrors[cluster[p]][j] # Unset /\ (~ renamed => mirrors[cluster[p]][j] = url[p])
        BY <1>8, <1>9, <3>2 DEF Mirrored
      <4> QED
        BY <1>3, <1>6, <4>1
    <3> QED
      BY <3>1, <3>2
  <2>2. trusted[cluster[p]][url[p]] = ca[p][cluster[p]]
    BY <1>8 DEF Mirrored
  <2>3. /\ trusted'[cluster[p]][url'[p]] = ca'[p][cluster[p]]
        /\ \A j \in s : mirrors'[cluster[p]][j] # Unset
             /\ (~ renamed' => mirrors'[cluster[p]][j] = url'[p])
    BY <1>2, <2>1, <2>2
  <2> QED
    BY <2>3 DEF MirroredNext
<1>10. CASE left[p] = {k}
  <2>1. EndTask(p, "ok")
    BY <1>1, <1>10
  <2>2. pc'[p] # "mirrors"
    BY <2>1, EndTaskPlace
  <2>3. \A c \in Clusters : outcome'[p][c] = "ok" => c = cluster[p] \/ outcome[p][c] = "ok"
    BY <2>1 DEF EndTask, ProcessType
  <2>4. MirroredNext(p, cluster[p], Catalogs)
    BY <1>9, <1>10
  <2> QED
    BY <1>7, <1>8, <2>2, <2>3, <2>4
<1>11. CASE left[p] # {k}
  <2>1. Continue(p, "mirrors", left[p] \ {k})
    BY <1>1, <1>11
  <2>2. left'[p] = left[p] \ {k} /\ UNCHANGED <<cluster, outcome>>
    BY <2>1, ContinuePlace
  <2>3. MirroredNext(p, cluster[p], Catalogs \ (left[p] \ {k}))
    BY <1>9
  <2>4. MirroredNext(p, cluster'[p], Catalogs \ left'[p])
    BY <2>2, <2>3 DEF MirroredNext
  <2> QED
    BY <1>7, <1>8, <2>2, <2>4
<1> QED
  BY <1>10, <1>11

\* The tasks of icsp that don't get as far as the policies.
LEMMA MirroredOther ==
  ASSUME TypeOK, AloneInv, MirroredInv, NEW p \in Processes, ProcessStep(p),
         ~ TrustRegistry(p), ~ CreateCatalogICSP(p)
  PROVE  MirroredOK(p)'
<1> MemoryType /\ ProcessType /\ \A q \in Processes : PlaceOK(q)
  BY TypeParts
<1>1. /\ pc'[p] # "mirrors" /\ renamed' = renamed /\ (~ overlapped' => ~ overlapped)
  <2>1. Next
    BY DEF Next, ProcessStep
  <2> QED
    BY <2>1, StageEntered, TargetUnchanged, OverlappedStays
<1>2. CASE pc'[p] \in {"idle"} \union Enriching
  <2>1. \A c \in Clusters : outcome'[p][c] = "none"
    <3>1. Next
      BY DEF Next, ProcessStep
    <3> QED
      BY <1>2, <3>1, AloneStep DEF AloneInv, Nothing
  <2> QED
    BY <1>1, <2>1 DEF MirroredOK
<1>3. CASE LoadAndEnrich(p) \/ FailEnrich(p)
  <2>1. \A c \in Clusters : outcome'[p][c] = "none"
    <3>1. UNCHANGED outcome /\ pc[p] \in Enriching
      BY <1>3 DEF LoadAndEnrich, Load, Enrich, EnrichCluster, SetConfigRegistry,
                  SetExternalNodeIPs, SetKubeconfig, SetClusterRegistry, SetExternalIPs,
                  FailEnrich, From, Enriching, process
    <3> QED
      BY <3>1 DEF AloneInv, Nothing
  <2> QED
    BY <1>1, <2>1 DEF MirroredOK
<1>4. CASE command'[p] # "create icsp"
  BY <1>4 DEF MirroredOK
<1>5. CASE FailTask(p) \/ CheckICSP(p)
  <2>1. UNCHANGED <<url, ca, trusted, mirrors>>
    BY <1>5 DEF FailTask, CheckICSP, Quiet, memory, clusters
  <2>2. EndTask(p, "failed") \/ Continue(p, "trust", {})
    BY <1>5 DEF FailTask, CheckICSP
  <2>3. command'[p] = command[p] /\ \A c \in Clusters : outcome'[p][c] = "ok" => outcome[p][c] = "ok"
    BY <2>2 DEF EndTask, Continue, ProcessType
  <2> QED
    BY <1>1, <2>1, <2>3, MirroredKept
<1>6. CASE \/ RunCreateCluster(p) \/ DeleteCluster(p) \/ RunMetalLB(p) \/ RunUI(p)
  <2>1. command[p] # "create icsp"
    BY <1>6 DEF RunCreateCluster, StartAddresses, WriteAddress, DeleteCluster, RunMetalLB,
                CheckMetalLB, ApplyPool, ApplyServices, WaitReachable, TimeOut,
                DeleteMetalLB, DeleteCRDs, RunUI, CheckUI, ApplyUI, Running, From, PlaceOK
  <2>2. command' = command
    BY <1>6, EndTaskPlace, ContinuePlace, TaskStep
       DEF TaskGoes, RunMetalLB, DeleteCluster, WaitReachable, TimeOut
  <2> QED
    BY <1>4, <2>1, <2>2
<1>7. CASE StartCommand(p) \/ Forget(p)
  <2>1. pc'[p] \in {"idle", "load"}
    BY <1>7, StartStep DEF Start, To, Forget, ProcessType
  <2> QED
    BY <1>2, <2>1 DEF Enriching
<1> QED
  BY <1>3, <1>5, <1>6, <1>7 DEF ProcessStep, Command, RunICSP, End, Die

LEMMA MirroredStep ==
  ASSUME TypeOK, AloneInv, TargetInv, MirroredInv, Next
  PROVE  MirroredInv'
<1>1. ASSUME NEW p \in Processes, ProcessStep(p) PROVE MirroredInv'
  <2>1. ASSUME NEW q \in Processes, q # p PROVE MirroredOK(q)'
    <3>1. CASE overlapped'
      BY <3>1 DEF MirroredOK
    <3>2. CASE ~ overlapped'
      <4>1. command'[q] = "none"
        BY <1>1, <2>1, <3>2, OthersIdle DEF AloneInv
      <4> QED
        BY <4>1 DEF MirroredOK
    <3> QED
      BY <3>1, <3>2
  <2>2. MirroredOK(p)'
    BY <1>1, MirroredTrust, MirroredMirror, MirroredOther
  <2> QED
    BY <2>1, <2>2 DEF MirroredInv
<1> QED
  BY <1>1, MirroredOutside, NextSteps

LEMMA MirroredInvariant == Spec => []MirroredInv
<1>1. Init => MirroredInv
  BY DEF Init, MirroredInv, MirroredOK
<1>2. TypeOK /\ AloneInv /\ TargetInv /\ MirroredInv /\ [Next]_vars => MirroredInv'
  <2>1. ASSUME MirroredInv, UNCHANGED vars PROVE MirroredInv'
    BY <2>1 DEF MirroredInv, MirroredOK, Mirrored, vars, memory, clusters, process, history
  <2> QED
    BY <2>1, MirroredStep
<1> QED
  BY <1>1, <1>2, TypeCorrect, AloneInvariant, TargetInvariant, PTL DEF Spec

\* Pulls are only sent to registries that the clusters trust, wherever the commands are cut and
\* however they interleave; and one that ran alone leaves a policy for each catalog.
THEOREM MirrorsAreTrusted == Spec => []MirrorsTrusted
<1>1. ASSUME TrustedInv, MirroredInv PROVE MirrorsTrusted
  BY <1>1 DEF TrustedInv, TrustedOK, MirroredInv, MirroredOK, Mirrored, MirrorsTrusted
<1> QED
  BY <1>1, TrustedInvariant, MirroredInvariant, PTL

-----------------------------------------------------------------------------
(* The exit code.  The clusters before the current one were attempted, and   *)
(* all of them when the command waits or ends well.                          *)

Attempted(p, c) == outcome[p][c] # "none" /\ (Strict(p) => outcome[p][c] = "ok")

ProgressOK(p) ==
  /\ pc[p] \in Tasks => \A c \in Clusters : c < cluster[p] => Attempted(p, c)
  /\ pc[p] = "wait" \/ exit[p] = "0" => \A c \in Clusters : Attempted(p, c)
  /\ exit[p] # "none" => pc[p] = "done"

ProgressInv == \A p \in Processes : ProgressOK(p)

LEMMA EndTaskResult ==
  ASSUME TypeOK, NEW p \in Processes, NEW how \in {"ok", "failed"}, EndTask(p, how)
  PROVE  /\ outcome'[p] = [outcome[p] EXCEPT ![cluster[p]] = how]
         /\ command' = command /\ waits' = waits
         /\ \/ pc'[p] = "done" /\ exit'[p] = "1"
            \/ /\ how = "failed" => ~ Strict(p)
               /\ \/ /\ cluster[p] < NumClusters /\ pc'[p] = "task"
                     /\ cluster'[p] = cluster[p] + 1 /\ exit'[p] = exit[p]
                  \/ /\ ~ cluster[p] < NumClusters /\ p \in waits /\ pc'[p] = "wait"
                     /\ cluster'[p] = 1 /\ exit'[p] = exit[p]
                  \/ /\ ~ cluster[p] < NumClusters /\ p \notin waits
                     /\ pc'[p] = "done" /\ exit'[p] = "0"
<1> ProcessType
  BY TypeParts
<1>1. outcome'[p] = [outcome[p] EXCEPT ![cluster[p]] = how]
      /\ command' = command /\ waits' = waits
  BY DEF EndTask, ProcessType
<1>2. CASE how = "failed" /\ Strict(p)
  BY <1>1, <1>2 DEF EndTask, Exit, ProcessType
<1>3. CASE ~ (how = "failed" /\ Strict(p)) /\ cluster[p] < NumClusters
  BY <1>1, <1>3 DEF EndTask, ProcessType
<1>4. CASE ~ (how = "failed" /\ Strict(p)) /\ ~ cluster[p] < NumClusters /\ p \in waits
  BY <1>1, <1>4 DEF EndTask, ProcessType
<1>5. CASE ~ (how = "failed" /\ Strict(p)) /\ ~ cluster[p] < NumClusters /\ p \notin waits
  BY <1>1, <1>5 DEF EndTask, Exit, ProcessType
<1> QED
  BY <1>2, <1>3, <1>4, <1>5

LEMMA ClustersBefore ==
  ASSUME NEW c \in Clusters, NEW d \in Clusters
  PROVE  /\ c < d + 1 => c < d \/ c = d
         /\ ~ d < NumClusters => c < d \/ c = d
         /\ ~ c < 1
BY AddOnsNumbers

\* What a step of a task leaves of the exit code and of the clusters that were attempted.
LEMMA ProgressTask ==
  ASSUME TypeOK, NEW p \in Processes, ProgressOK(p), TaskGoes(p), pc[p] \in Tasks
  PROVE  ProgressOK(p)'
<1> ProcessType
  BY TypeParts
<1>1. exit[p] = "none" /\ \A c \in Clusters : c < cluster[p] => Attempted(p, c)
  BY TasksPlace DEF ProgressOK
<1>2. ASSUME NEW place \in Tasks, NEW todo, Continue(p, place, todo) PROVE ProgressOK(p)'
  <2>1. pc'[p] = place /\ UNCHANGED <<cluster, command, outcome, exit>>
    BY <1>2, ContinuePlace DEF Continue
  <2> QED
    BY <1>1, <1>2, <2>1, TasksPlace DEF ProgressOK, Attempted, Strict
<1>3. ASSUME NEW how \in {"ok", "failed"}, EndTask(p, how) PROVE ProgressOK(p)'
  <2>1. /\ outcome'[p] = [outcome[p] EXCEPT ![cluster[p]] = how]
        /\ command' = command
        /\ \/ pc'[p] = "done" /\ exit'[p] = "1"
           \/ /\ how = "failed" => ~ Strict(p)
              /\ \/ /\ cluster[p] < NumClusters /\ pc'[p] = "task"
                    /\ cluster'[p] = cluster[p] + 1 /\ exit'[p] = exit[p]
                 \/ /\ ~ cluster[p] < NumClusters /\ pc'[p] = "wait" /\ exit'[p] = exit[p]
                 \/ /\ ~ cluster[p] < NumClusters /\ pc'[p] = "done" /\ exit'[p] = "0"
    BY <1>3, EndTaskResult
  <2>2. CASE pc'[p] = "done" /\ exit'[p] = "1"
    BY <2>2, TasksPlace DEF ProgressOK
  <2>3. CASE how = "failed" => ~ Strict(p)
    <3>1. ASSUME NEW c \in Clusters, c < cluster[p] \/ c = cluster[p] PROVE Attempted(p, c)'
      BY <1>1, <2>1, <2>3, <3>1 DEF Attempted, Strict, ProcessType
    <3>2. cluster[p] \in Clusters
      BY DEF ProcessType
    <3>3. CASE pc'[p] = "task" /\ cluster'[p] = cluster[p] + 1 /\ exit'[p] = exit[p]
      <4>1. \A c \in Clusters : c < cluster'[p] => Attempted(p, c)'
        BY <3>1, <3>2, <3>3, ClustersBefore
      <4> QED
        BY <1>1, <3>3, <4>1 DEF ProgressOK
    <3>4. CASE ~ cluster[p] < NumClusters /\ pc'[p] \in {"wait", "done"}
               /\ (exit'[p] = exit[p] \/ pc'[p] = "done")
      <4>1. \A c \in Clusters : Attempted(p, c)'
        BY <3>1, <3>2, <3>4, ClustersBefore
      <4> QED
        BY <1>1, <3>4, <4>1, TasksPlace DEF ProgressOK
    <3> QED
      BY <2>1, <2>2, <3>3, <3>4
  <2> QED
    BY <2>1, <2>2, <2>3
<1> QED
  BY <1>2, <1>3 DEF TaskGoes

LEMMA TaskSteps ==
  ASSUME TypeOK, NEW p \in Processes,
         \/ FailTask(p) \/ RunCreateCluster(p) \/ RunUI(p) \/ RunICSP(p)
         \/ CheckMetalLB(p) \/ ApplyPool(p) \/ ApplyServices(p) \/ DeleteMetalLB(p)
         \/ DeleteCRDs(p) \/ DeleteCluster(p)
  PROVE  pc[p] \in Tasks /\ TaskGoes(p) /\ UNCHANGED <<loaded, url, ca, resolved>>
<1>1. pc[p] \in Tasks
  BY DEF FailTask, RunCreateCluster, StartAddresses, WriteAddress, RunUI, CheckUI, ApplyUI,
         RunICSP, CheckICSP, TrustRegistry, CreateCatalogICSP, CheckMetalLB, ApplyPool,
         ApplyServices, DeleteMetalLB, DeleteCRDs, DeleteCluster, Running, From, Tasks
<1>2. TaskGoes(p) /\ UNCHANGED <<loaded, url, ca, resolved>>
  BY TaskStep, TaskGoesEnd DEF memory, DeleteCluster
<1> QED
  BY <1>1, <1>2

LEMMA ProgressStep ==
  ASSUME TypeOK, ProgressInv, NEW p \in Processes, ProcessStep(p)
  PROVE  ProgressOK(p)'
<1> ProcessType
  BY TypeParts
<1> ProgressOK(p)
  BY DEF ProgressInv
<1>1. CASE StartCommand(p)
  <2>1. pc'[p] = "load" /\ exit'[p] = exit[p] /\ pc[p] = "idle"
    BY <1>1, StartStep DEF Start, To, From, ProcessType
  <2> QED
    BY <2>1, TasksPlace DEF ProgressOK
<1>2. CASE Forget(p)
  <2>1. pc'[p] = "idle" /\ exit'[p] = "none"
    BY <1>2 DEF Forget, ProcessType
  <2> QED
    BY <2>1, TasksPlace DEF ProgressOK
<1>3. CASE FailEnrich(p) \/ TimeOut(p)
  <2>1. pc'[p] = "done" /\ exit'[p] = "1"
    BY <1>3 DEF FailEnrich, TimeOut, Exit, ProcessType
  <2> QED
    BY <2>1, TasksPlace DEF ProgressOK
<1>4. CASE LoadAndEnrich(p)
  <2>1. pc[p] \in Enriching /\ exit' = exit
    BY <1>4 DEF LoadAndEnrich, Load, Enrich, EnrichCluster, SetConfigRegistry,
                SetExternalNodeIPs, SetKubeconfig, SetClusterRegistry, SetExternalIPs, From,
                Enriching, process
  <2>2. exit'[p] = "none"
    BY <2>1 DEF ProgressOK, Enriching
  <2>3. pc'[p] \in Enriching \/ (pc'[p] = "task" /\ cluster'[p] = 1)
    BY <1>4 DEF LoadAndEnrich, Load, Enrich, EnrichCluster, SetConfigRegistry,
                SetExternalNodeIPs, SetKubeconfig, SetClusterRegistry, SetExternalIPs, To,
                Enriching, ProcessType
  <2>4. CASE pc'[p] \in Enriching
    <3>1. pc'[p] \notin Tasks /\ pc'[p] # "wait"
      BY <2>4 DEF Enriching, Tasks
    <3> QED
      BY <2>2, <3>1 DEF ProgressOK
  <2>5. CASE pc'[p] = "task" /\ cluster'[p] = 1
    BY <2>2, <2>5, ClustersBefore DEF ProgressOK
  <2> QED
    BY <2>3, <2>4, <2>5
<1>5. CASE WaitReachable(p)
  <2>1. pc[p] = "wait" /\ UNCHANGED <<command, outcome>>
        /\ pc'[p] \in {"wait", "done"} /\ (exit'[p] = exit[p] \/ pc'[p] = "done")
    BY <1>5 DEF WaitReachable, Exit, From, ProcessType
  <2>2. \A c \in Clusters : Attempted(p, c)'
    BY <2>1 DEF ProgressOK, Attempted, Strict
  <2> QED
    BY <2>1, <2>2, TasksPlace DEF ProgressOK
<1>6. CASE \/ FailTask(p) \/ RunCreateCluster(p) \/ RunUI(p) \/ RunICSP(p)
           \/ CheckMetalLB(p) \/ ApplyPool(p) \/ ApplyServices(p) \/ DeleteMetalLB(p)
           \/ DeleteCRDs(p) \/ DeleteCluster(p)
  BY <1>6, TaskSteps, ProgressTask
<1> QED
  BY <1>1, <1>2, <1>3, <1>4, <1>5, <1>6 DEF ProcessStep, Command, RunMetalLB, End, Die

LEMMA ProgressInvariant == Spec => []ProgressInv
<1>1. Init => ProgressInv
  BY TasksPlace DEF Init, EnricherInit, ProgressInv, ProgressOK
<1>2. TypeOK /\ ProgressInv /\ [Next]_vars => ProgressInv'
  <2>1. ASSUME ProgressInv, NEW q \in Processes, Same(q) PROVE ProgressOK(q)'
    <3>1. /\ pc'[q] = pc[q] /\ cluster'[q] = cluster[q] /\ command'[q] = command[q]
          /\ outcome'[q] = outcome[q] /\ exit'[q] = exit[q]
      BY <2>1 DEF Same
    <3>2. ProgressOK(q) /\ \A c \in Clusters : Attempted(q, c) => Attempted(q, c)'
      BY <2>1, <3>1 DEF ProgressInv, Attempted, Strict
    <3> QED
      BY <3>1, <3>2 DEF ProgressOK
  <2>2. ASSUME TypeOK, ProgressInv, Next PROVE ProgressInv'
    BY <2>1, <2>2, NextSteps, OutsideKeeps, OthersKeep, ProgressStep DEF ProgressInv
  <2>3. ASSUME ProgressInv, UNCHANGED vars PROVE ProgressInv'
    BY <2>3 DEF ProgressInv, ProgressOK, Attempted, Strict, vars, process
  <2> QED
    BY <2>2, <2>3
<1> QED
  BY <1>1, <1>2, TypeCorrect, PTL DEF Spec

-----------------------------------------------------------------------------
(* What the DNS said.  The enricher goes through all the clusters before the *)
(* tasks, and what it found is what is there while nothing moved.            *)

ResolvedOK(p) ==
  /\ pc[p] \in {"idle", "load", "config"} => cluster[p] = 1
  /\ pc[p] \in Enriching => \A c \in Clusters : c < cluster[p] => resolved[p][c] # Unset
  /\ pc[p] \in Tasks => \A c \in Clusters : resolved[p][c] # Unset
  /\ pc[p] = "idle" => \A c \in Clusters : resolved[p][c] = Unset

ResolvedInv == \A p \in Processes : ResolvedOK(p)

LEMMA ResolvedEnrich ==
  ASSUME TypeOK, NEW p \in Processes, ResolvedOK(p), LoadAndEnrich(p)
  PROVE  ResolvedOK(p)'
<1> MemoryType /\ ProcessType
  BY TypeParts
<1>1. CASE Load(p)
  <2>1. pc[p] = "load" /\ pc'[p] = "config" /\ UNCHANGED <<cluster, resolved>>
    BY <1>1 DEF Load, To, From, ProcessType
  <2> QED
    BY <2>1 DEF ResolvedOK, Enriching, Tasks
<1>2. CASE SetConfigRegistry(p)
  <2>1. pc[p] = "config" /\ pc'[p] = "agents" /\ UNCHANGED <<cluster, resolved>>
    BY <1>2 DEF SetConfigRegistry, To, From, ProcessType
  <2> QED
    BY <2>1 DEF ResolvedOK, Enriching, Tasks
<1>3. CASE SetExternalNodeIPs(p) \/ SetKubeconfig(p) \/ SetClusterRegistry(p)
  <2>1. /\ pc[p] \in {"agents", "kubeconfig", "ca"} /\ pc'[p] \in {"kubeconfig", "ca", "names"}
        /\ UNCHANGED <<cluster, resolved>>
    BY <1>3 DEF SetExternalNodeIPs, SetKubeconfig, SetClusterRegistry, To, From, ProcessType
  <2> QED
    BY <2>1 DEF ResolvedOK, Enriching, Tasks
<1>4. CASE SetExternalIPs(p)
  <2>1. pc[p] = "names" /\ resolved'[p] = [resolved[p] EXCEPT ![cluster[p]] = names[cluster[p]]]
        /\ names[cluster[p]] # Unset
    BY <1>4 DEF SetExternalIPs, CanResolve, From, MemoryType
  <2>2. ASSUME NEW c \in Clusters, c < cluster[p] \/ c = cluster[p] PROVE resolved'[p][c] # Unset
    BY <2>1, <2>2 DEF ResolvedOK, Enriching, MemoryType, ProcessType
  <2>3. cluster[p] \in Clusters
    BY DEF ProcessType
  <2>4. CASE pc'[p] = "agents" /\ cluster'[p] = cluster[p] + 1
    <3>1. \A c \in Clusters : c < cluster'[p] => resolved'[p][c] # Unset
      BY <2>2, <2>3, <2>4, ClustersBefore
    <3> QED
      BY <2>4, <3>1 DEF ResolvedOK, Tasks
  <2>5. CASE pc'[p] = "task" /\ ~ cluster[p] < NumClusters
    <3>1. \A c \in Clusters : resolved'[p][c] # Unset
      BY <2>2, <2>3, <2>5, ClustersBefore
    <3> QED
      BY <2>5, <3>1 DEF ResolvedOK, Enriching
  <2>6. CASE cluster[p] < NumClusters
    BY <1>4, <2>4, <2>6 DEF SetExternalIPs, ProcessType
  <2>7. CASE ~ cluster[p] < NumClusters
    BY <1>4, <2>5, <2>7 DEF SetExternalIPs, ProcessType
  <2> QED
    BY <2>6, <2>7
<1> QED
  BY <1>1, <1>2, <1>3, <1>4 DEF LoadAndEnrich, Enrich, EnrichCluster

LEMMA ResolvedStep ==
  ASSUME TypeOK, ResolvedInv, NEW p \in Processes, ProcessStep(p)
  PROVE  ResolvedOK(p)'
<1> MemoryType /\ ProcessType
  BY TypeParts
<1> ResolvedOK(p)
  BY DEF ResolvedInv
<1>1. CASE StartCommand(p)
  <2>1. pc'[p] = "load" /\ UNCHANGED <<cluster, resolved>> /\ pc[p] = "idle"
    BY <1>1, StartStep DEF Start, To, From, memory, ProcessType
  <2>2. cluster'[p] = 1
    BY <2>1 DEF ResolvedOK
  <2> QED
    BY <2>1, <2>2, TasksPlace, ClustersBefore DEF ResolvedOK
<1>2. CASE Forget(p)
  <2>1. /\ pc'[p] = "idle" /\ cluster'[p] = 1
        /\ \A c \in Clusters : resolved'[p][c] = Unset
    BY <1>2 DEF Forget, ForgetMemory, NoVersions, ProcessType, MemoryType
  <2> QED
    BY <2>1, TasksPlace DEF ResolvedOK, Enriching
<1>3. CASE FailEnrich(p) \/ TimeOut(p) \/ WaitReachable(p)
  <2>1. pc'[p] \in {"wait", "done"}
    BY <1>3 DEF FailEnrich, TimeOut, WaitReachable, Exit, From, ProcessType
  <2> QED
    BY <2>1, TasksPlace DEF ResolvedOK, Enriching
<1>4. CASE LoadAndEnrich(p)
  BY <1>4, ResolvedEnrich
<1>5. CASE \/ FailTask(p) \/ RunCreateCluster(p) \/ RunUI(p) \/ RunICSP(p)
           \/ CheckMetalLB(p) \/ ApplyPool(p) \/ ApplyServices(p) \/ DeleteMetalLB(p)
           \/ DeleteCRDs(p) \/ DeleteCluster(p)
  <2>1. pc[p] \in Tasks /\ TaskGoes(p) /\ resolved' = resolved
    BY <1>5, TaskSteps
  <2>2. pc'[p] \in Tasks \union {"wait", "done"}
    BY <2>1, EndTaskPlace, ContinuePlace DEF TaskGoes, Tasks
  <2>3. pc'[p] \notin Enriching /\ pc'[p] # "idle"
    BY <2>2 DEF Enriching, Tasks
  <2> QED
    BY <2>1, <2>2, <2>3 DEF ResolvedOK, Enriching
<1> QED
  BY <1>1, <1>2, <1>3, <1>4, <1>5 DEF ProcessStep, Command, RunMetalLB, End, Die

LEMMA ResolvedInvariant == Spec => []ResolvedInv
<1>1. Init => ResolvedInv
  BY AddOnsNumbers, TasksPlace
     DEF Init, EnricherInit, ResolvedInv, ResolvedOK, Enriching, NoVersions
<1>2. TypeOK /\ ResolvedInv /\ [Next]_vars => ResolvedInv'
  <2>1. ASSUME ResolvedInv, NEW q \in Processes, Same(q) PROVE ResolvedOK(q)'
    <3>1. pc'[q] = pc[q] /\ cluster'[q] = cluster[q] /\ resolved'[q] = resolved[q]
      BY <2>1 DEF Same
    <3> QED
      BY <2>1, <3>1 DEF ResolvedInv, ResolvedOK
  <2>2. ASSUME TypeOK, ResolvedInv, Next PROVE ResolvedInv'
    BY <2>1, <2>2, NextSteps, OutsideKeeps, OthersKeep, ResolvedStep DEF ResolvedInv
  <2>3. ASSUME ResolvedInv, UNCHANGED vars PROVE ResolvedInv'
    BY <2>3 DEF ResolvedInv, ResolvedOK, vars, memory
  <2> QED
    BY <2>2, <2>3
<1> QED
  BY <1>1, <1>2, TypeCorrect, PTL DEF Spec

PoolOK(c) ==
  c \notin moved =>
    /\ pool[c] \in {Unset, names[c]}
    /\ \A p \in Processes : command[p] = "create metallb" => resolved[p][c] \in {Unset, names[c]}

PoolInv == \A c \in Clusters : PoolOK(c)

LEMMA PoolOutside ==
  ASSUME TypeOK, PoolInv, Event \/ Announce
  PROVE  PoolInv'
<1> OutsideType
  BY TypeParts
<1>1. UNCHANGED <<pool, command, resolved>>
  BY OutsideKeeps DEF Event, Happen, Announce, clusters, memory, process
<1>2. CASE UNCHANGED <<names, moved>>
  BY <1>1, <1>2 DEF PoolInv, PoolOK
<1>3. ASSUME NEW d \in Clusters, Move(d) PROVE PoolInv'
  <2> SUFFICES ASSUME NEW c \in Clusters PROVE PoolOK(c)'
    BY DEF PoolInv
  <2>1. CASE c # d
    <3>1. names'[c] = names[c] /\ (c \notin moved' => c \notin moved)
      BY <1>3, <2>1 DEF Move, OutsideType
    <3> QED
      BY <1>1, <3>1 DEF PoolInv, PoolOK
  <2>2. CASE c = d
    <3> SUFFICES ASSUME c \notin moved' PROVE PoolOK(c)'
      BY DEF PoolOK
    <3>1. pool[c] = Unset /\ Busy = {}
      BY <1>3, <2>2 DEF Move
    <3>2. \A p \in Processes : command[p] = "none"
      BY <3>1, TypeParts DEF Busy, PlaceOK
    <3> QED
      BY <1>1, <3>1, <3>2 DEF PoolOK
  <2> QED
    BY <2>1, <2>2
<1>4. UNCHANGED <<names, moved>> \/ \E c \in Clusters : Move(c)
  BY DEF Event, Happen, Install, EditConfig, Report, Replace, Register, Announce, outside, history
<1> QED
  BY <1>2, <1>3, <1>4

\* What a process has in memory of the DNS is what it says, while nothing moves.
LEMMA PoolMemory ==
  ASSUME TypeOK, ResolvedInv, PoolInv, NEW p \in Processes, ProcessStep(p), NEW c \in Clusters,
         c \notin moved, command'[p] = "create metallb"
  PROVE  resolved'[p][c] \in {Unset, names[c]}
<1> MemoryType /\ ProcessType
  BY TypeParts
<1>1. CASE command[p] = "create metallb" /\ resolved'[p] = resolved[p]
  BY <1>1 DEF PoolInv, PoolOK
<1>2. CASE StartCommand(p)
  <2>1. resolved' = resolved /\ pc[p] = "idle"
    BY <1>2, StartStep DEF Start, From, memory
  <2> QED
    BY <2>1 DEF ResolvedInv, ResolvedOK
<1>3. CASE Forget(p)
  BY <1>3 DEF Forget, ForgetMemory, NoVersions, MemoryType
<1>4. CASE FailEnrich(p) \/ TimeOut(p) \/ WaitReachable(p)
  BY <1>1, <1>4 DEF FailEnrich, TimeOut, WaitReachable, Quiet, memory
<1>5. CASE LoadAndEnrich(p)
  <2>1. command' = command
    BY <1>5 DEF LoadAndEnrich, process
  <2>2. CASE resolved'[p][c] = resolved[p][c] \/ resolved'[p][c] = names[c]
    BY <2>1, <2>2 DEF PoolInv, PoolOK
  <2>3. \/ resolved' = resolved
        \/ resolved' = [resolved EXCEPT ![p][cluster[p]] = names[cluster[p]]]
    BY <1>5 DEF LoadAndEnrich, Load, Enrich, EnrichCluster, SetConfigRegistry,
                SetExternalNodeIPs, SetKubeconfig, SetClusterRegistry, SetExternalIPs
  <2>4. resolved'[p][c] = resolved[p][c] \/ resolved'[p][c] = names[c]
    <3>1. resolved \in [Processes -> [Clusters -> Versions \union {Unset}]]
      BY DEF MemoryType
    <3>2. CASE c = cluster[p]
      BY <2>3, <3>1, <3>2
    <3>3. CASE c # cluster[p]
      BY <2>3, <3>1, <3>3
    <3> QED
      BY <3>2, <3>3
  <2> QED
    BY <2>2, <2>4
<1>6. CASE \/ FailTask(p) \/ RunCreateCluster(p) \/ RunUI(p) \/ RunICSP(p)
           \/ CheckMetalLB(p) \/ ApplyPool(p) \/ ApplyServices(p) \/ DeleteMetalLB(p)
           \/ DeleteCRDs(p) \/ DeleteCluster(p)
  <2>1. TaskGoes(p) /\ resolved' = resolved
    BY <1>6, TaskSteps
  <2>2. command' = command
    BY <2>1, EndTaskPlace, ContinuePlace DEF TaskGoes
  <2> QED
    BY <1>1, <2>1, <2>2
<1> QED
  BY <1>2, <1>3, <1>4, <1>5, <1>6 DEF ProcessStep, Command, RunMetalLB, End, Die

\* What a step of a command does to the load balancers.
LEMMA PoolChange ==
  ASSUME TypeOK, NEW p \in Processes, ProcessStep(p)
  PROVE  /\ UNCHANGED <<names, renamed>>
         /\ \/ UNCHANGED <<pool, balancer, moved, installed>>
            \/ ApplyPool(p) \/ ApplyServices(p) \/ DeleteMetalLB(p) \/ DeleteCluster(p)
<1>1. UNCHANGED <<names, renamed>>
  BY CommandSteps, StartStep
     DEF Start, Forget, FailEnrich, FailTask, LoadAndEnrich, StartAddresses, WriteAddress,
         DeleteCluster, CheckMetalLB, ApplyPool, ApplyServices, WaitReachable, TimeOut,
         DeleteMetalLB, DeleteCRDs, CheckUI, ApplyUI, CheckICSP, TrustRegistry,
         CreateCatalogICSP, Quiet, outside, history
<1>2. CASE ~ (ApplyPool(p) \/ ApplyServices(p) \/ DeleteMetalLB(p) \/ DeleteCluster(p))
  <2>1. UNCHANGED <<pool, balancer, moved, installed>>
    BY <1>2, CommandSteps, StartStep
       DEF Start, Forget, FailEnrich, FailTask, LoadAndEnrich, StartAddresses, WriteAddress,
           CheckMetalLB, WaitReachable, TimeOut, DeleteCRDs, CheckUI, ApplyUI, CheckICSP,
           TrustRegistry, CreateCatalogICSP, Quiet, outside, clusters, history
  <2> QED
    BY <1>1, <2>1
<1> QED
  BY <1>1, <1>2

LEMMA PoolDelete ==
  ASSUME TypeOK, PoolInv, NEW p \in Processes, DeleteMetalLB(p) \/ DeleteCluster(p),
         NEW c \in Clusters
  PROVE  PoolOK(c)'
<1> MemoryType /\ ClustersType /\ ProcessType /\ \A q \in Processes : PlaceOK(q)
  BY TypeParts
<1>1. /\ pool' = [pool EXCEPT ![cluster[p]] = Unset] /\ UNCHANGED <<names, resolved>>
      /\ moved' = IF Busy = {p} THEN moved \ {cluster[p]} ELSE moved
      /\ command[p] \in {"delete metallb", "delete cluster"}
  BY DEF DeleteMetalLB, DeleteCluster, Running, outside, memory
<1>2. command' = command
  BY EndTaskPlace, ContinuePlace DEF DeleteMetalLB, DeleteCluster
<1>3. CASE c \notin moved
  BY <1>1, <1>2, <1>3 DEF PoolInv, PoolOK, ClustersType
<1>4. CASE c \in moved /\ c \notin moved'
  <2>1. Busy = {p} /\ c = cluster[p]
    BY <1>1, <1>4
  <2>2. pool'[c] = Unset
    BY <1>1, <2>1 DEF ClustersType
  <2>3. \A q \in Processes : command[q] # "create metallb"
    BY <1>1, <2>1 DEF Busy, PlaceOK
  <2> QED
    BY <1>2, <2>2, <2>3 DEF PoolOK
<1> QED
  BY <1>3, <1>4 DEF PoolOK

LEMMA PoolStep ==
  ASSUME TypeOK, ResolvedInv, PoolInv, NEW p \in Processes, ProcessStep(p), NEW c \in Clusters
  PROVE  PoolOK(c)'
<1> MemoryType /\ ClustersType /\ ProcessType /\ \A q \in Processes : PlaceOK(q)
  BY TypeParts
<1>1. CASE DeleteMetalLB(p) \/ DeleteCluster(p)
  BY <1>1, PoolDelete
<1>2. CASE UNCHANGED moved /\ ~ DeleteMetalLB(p) /\ ~ DeleteCluster(p)
  <2> SUFFICES ASSUME c \notin moved PROVE PoolOK(c)'
    BY <1>2 DEF PoolOK
  <2>1. names' = names
    BY PoolChange
  <2>2. ASSUME NEW q \in Processes, command'[q] = "create metallb"
        PROVE  resolved'[q][c] \in {Unset, names[c]}
    <3>1. CASE q = p
      BY <2>2, <3>1, PoolMemory
    <3>2. CASE q # p
      <4>1. command'[q] = command[q] /\ resolved'[q] = resolved[q]
        BY <3>2, OthersKeep DEF Same
      <4> QED
        BY <2>2, <4>1 DEF PoolInv, PoolOK
    <3> QED
      BY <3>1, <3>2
  <2>3. pool'[c] \in {Unset, names[c]}
    <3>1. pool[c] \in {Unset, names[c]}
      BY DEF PoolInv, PoolOK
    <3>2. CASE ApplyPool(p)
      <4>1. /\ command[p] = "create metallb"
            /\ pool'[c] = pool[c] \/ pool'[c] = resolved[p][c]
        BY <3>2 DEF ApplyPool, From, PlaceOK, ClustersType, ProcessType
      <4>2. resolved[p][c] \in {Unset, names[c]}
        BY <4>1 DEF PoolInv, PoolOK
      <4> QED
        BY <3>1, <4>1, <4>2
    <3>3. CASE ~ ApplyPool(p)
      <4>1. pool' = pool
        BY <1>2, <3>3, PoolChange DEF ApplyServices
      <4> QED
        BY <3>1, <4>1
    <3> QED
      BY <3>2, <3>3
  <2> QED
    BY <2>1, <2>2, <2>3 DEF PoolOK
<1>3. CASE ApplyPool(p) \/ ApplyServices(p)
  <2>1. UNCHANGED moved
    BY <1>3 DEF ApplyPool, ApplyServices, Quiet, history
  <2> QED
    BY <1>1, <1>2, <2>1
<1> QED
  BY <1>1, <1>2, <1>3, PoolChange

LEMMA PoolInvariant == Spec => []PoolInv
<1>1. Init => PoolInv
  BY DEF Init, PoolInv, PoolOK
<1>2. TypeOK /\ ResolvedInv /\ PoolInv /\ [Next]_vars => PoolInv'
  <2>1. ASSUME TypeOK, ResolvedInv, PoolInv, Next PROVE PoolInv'
    BY <2>1, NextSteps, PoolOutside, PoolStep DEF PoolInv
  <2>2. ASSUME PoolInv, UNCHANGED vars PROVE PoolInv'
    BY <2>2 DEF PoolInv, PoolOK, vars, outside, memory, clusters, process, history
  <2> QED
    BY <2>1, <2>2
<1> QED
  BY <1>1, <1>2, TypeCorrect, ResolvedInvariant, PTL DEF Spec

-----------------------------------------------------------------------------
(* What a command that runs alone leaves of the load balancers.  The one of  *)
(* a cluster stays reachable until the names move.                           *)

BalancedOK(p) ==
  ~ overlapped /\ command[p] = "create metallb" =>
    /\ pc[p] = "services" => pool[cluster[p]] # Unset
    /\ \A c \in Clusters : outcome[p][c] = "ok" => pool[c] # Unset /\ balancer[c] # "absent"
    /\ \A c \in Clusters : c \notin moved =>
         ((pc[p] = "wait" /\ c < cluster[p]) \/ (exit[p] = "0" /\ p \in waits) => Reachable(c))

BalancedInv == \A p \in Processes : BalancedOK(p)

LEMMA BalancedOutside ==
  ASSUME TypeOK, ProgressInv, BalancedInv, Event \/ Announce
  PROVE  BalancedInv'
<1> OutsideType /\ ClustersType /\ ProcessType
  BY TypeParts
<1>1. UNCHANGED <<pc, cluster, process, pool, overlapped>>
  BY OutsideKeeps, EventKeeps DEF Event, Happen, Announce, clusters, history
<1>2. \A c \in Clusters : /\ balancer[c] # "absent" => balancer'[c] # "absent"
                          /\ balancer[c] = "announced" => balancer'[c] = "announced"
  BY DEF Event, Happen, Announce, clusters, ClustersType
<1>3. installed \subseteq installed' /\ moved \subseteq moved'
  BY DEF Event, Install, Move, EditConfig, Report, Replace, Register, Announce, outside, history
<1>4. ASSUME NEW c \in Clusters, c \notin moved', Busy # {} PROVE names'[c] = names[c]
  <2>1. ASSUME NEW d \in Clusters, Move(d) PROVE names'[c] = names[c]
    BY <1>4, <2>1 DEF Move, OutsideType
  <2>2. names' = names \/ \E d \in Clusters : Move(d)
    BY DEF Event, Install, EditConfig, Report, Replace, Register, Announce, outside
  <2> QED
    BY <2>1, <2>2
<1>5. ASSUME NEW c \in Clusters, c \notin moved', Busy # {}, Reachable(c) PROVE Reachable(c)'
  BY <1>1, <1>2, <1>3, <1>4, <1>5 DEF Reachable
<1> SUFFICES ASSUME NEW p \in Processes, ~ overlapped, command[p] = "create metallb"
             PROVE  BalancedOK(p)'
  BY <1>1 DEF BalancedInv, BalancedOK, process
<1>6. Busy # {}
  BY TypeParts DEF Busy, PlaceOK
<1>7. /\ pc[p] = "services" => pool[cluster[p]] # Unset
      /\ \A c \in Clusters : outcome[p][c] = "ok" => pool[c] # Unset /\ balancer[c] # "absent"
      /\ \A c \in Clusters : c \notin moved =>
           ((pc[p] = "wait" /\ c < cluster[p]) \/ (exit[p] = "0" /\ p \in waits) => Reachable(c))
  BY DEF BalancedInv, BalancedOK
<1>8. /\ pc' = pc /\ cluster' = cluster /\ outcome' = outcome /\ pool' = pool /\ exit' = exit
      /\ waits' = waits
  BY <1>1 DEF process
<1>9. ASSUME NEW c \in Clusters, c \notin moved',
             (pc[p] = "wait" /\ c < cluster[p]) \/ (exit[p] = "0" /\ p \in waits)
      PROVE  Reachable(c)'
  BY <1>3, <1>5, <1>6, <1>7, <1>9
<1>10. \A c \in Clusters : outcome[p][c] = "ok" => pool[c] # Unset /\ balancer'[c] # "absent"
  BY <1>2, <1>7
<1> QED
  BY <1>7, <1>8, <1>9, <1>10 DEF BalancedOK

\* Of a process that finishes no task and waits for no cluster.
LEMMA BalancedKept ==
  ASSUME TypeOK, BalancedInv, NEW p \in Processes, ~ overlapped' => ~ overlapped,
         command'[p] = command[p], UNCHANGED <<pool, balancer>>,
         pc'[p] \notin {"services", "wait"}, exit'[p] # "0",
         \A c \in Clusters : outcome'[p][c] = "ok" => outcome[p][c] = "ok"
  PROVE  BalancedOK(p)'
BY DEF BalancedInv, BalancedOK

LEMMA BalancedPool ==
  ASSUME TypeOK, ResolvedInv, ProgressInv, BalancedInv, NEW p \in Processes, ApplyPool(p)
  PROVE  BalancedOK(p)'
<1> MemoryType /\ ClustersType /\ ProcessType
  BY TypeParts
<1>1. /\ pool' = IF pool[cluster[p]] # Unset THEN pool
                 ELSE [pool EXCEPT ![cluster[p]] = resolved[p][cluster[p]]]
      /\ UNCHANGED <<balancer, overlapped>> /\ pc[p] = "pool" /\ Continue(p, "services", {})
  BY DEF ApplyPool, From, Quiet, history
<1>2. /\ pc'[p] = "services" /\ UNCHANGED <<cluster, command, outcome, exit>>
  BY <1>1, ContinuePlace DEF Continue
<1>3. cluster[p] \in Clusters /\ resolved[p][cluster[p]] # Unset /\ exit[p] = "none"
  BY <1>1 DEF ResolvedInv, ResolvedOK, ProgressInv, ProgressOK, ProcessType, Tasks
<1>4. pool'[cluster[p]] # Unset /\ \A c \in Clusters : pool[c] # Unset => pool'[c] # Unset
  BY <1>1, <1>3 DEF ClustersType
<1>5. ~ overlapped /\ command[p] = "create metallb" =>
        \A c \in Clusters : outcome[p][c] = "ok" => pool[c] # Unset /\ balancer[c] # "absent"
  BY DEF BalancedInv, BalancedOK
<1>6. ~ overlapped /\ command[p] = "create metallb" =>
        \A c \in Clusters : outcome[p][c] = "ok" => pool'[c] # Unset /\ balancer[c] # "absent"
  BY <1>4, <1>5
<1> QED
  BY <1>1, <1>2, <1>3, <1>4, <1>6 DEF BalancedOK

LEMMA BalancedServices ==
  ASSUME TypeOK, ProgressInv, BalancedInv, NEW p \in Processes, ApplyServices(p)
  PROVE  BalancedOK(p)'
<1> ClustersType /\ ProcessType
  BY TypeParts
<1>1. /\ balancer' = IF balancer[cluster[p]] # "absent" THEN balancer
                     ELSE [balancer EXCEPT ![cluster[p]] = "complete"]
      /\ UNCHANGED <<pool, overlapped>> /\ pc[p] = "services" /\ EndTask(p, "ok")
  BY DEF ApplyServices, From, Quiet, history
<1>2. cluster[p] \in Clusters /\ exit[p] = "none"
  BY <1>1 DEF ProgressInv, ProgressOK, ProcessType
<1>3. /\ outcome'[p] = [outcome[p] EXCEPT ![cluster[p]] = "ok"]
      /\ command' = command /\ waits' = waits
      /\ pc'[p] # "services" /\ (pc'[p] = "wait" => cluster'[p] = 1)
      /\ exit'[p] = "0" => p \notin waits
  BY <1>1, <1>2, EndTaskResult
<1>4. balancer'[cluster[p]] # "absent"
      /\ \A c \in Clusters : balancer[c] # "absent" => balancer'[c] # "absent"
  BY <1>1, <1>2 DEF ClustersType
<1> SUFFICES ASSUME ~ overlapped, command[p] = "create metallb" PROVE BalancedOK(p)'
  BY <1>1, <1>3 DEF BalancedOK
<1>5. /\ pool[cluster[p]] # Unset
      /\ \A c \in Clusters : outcome[p][c] = "ok" => pool[c] # Unset /\ balancer[c] # "absent"
  BY <1>1 DEF BalancedInv, BalancedOK
<1>6. ASSUME NEW c \in Clusters, outcome'[p][c] = "ok"
      PROVE  pool'[c] # Unset /\ balancer'[c] # "absent"
  <2>1. c = cluster[p] \/ outcome[p][c] = "ok"
    BY <1>3, <1>6 DEF ProcessType
  <2> QED
    BY <1>1, <1>4, <1>5, <2>1
<1>7. \A c \in Clusters : ~ (pc'[p] = "wait" /\ c < cluster'[p])
  BY <1>2, <1>3, ClustersBefore
<1> QED
  BY <1>3, <1>6, <1>7 DEF BalancedOK

LEMMA BalancedWait ==
  ASSUME TypeOK, ProgressInv, BalancedInv, NEW p \in Processes, WaitReachable(p)
  PROVE  BalancedOK(p)'
<1> ProcessType
  BY TypeParts
<1>1. /\ UNCHANGED <<pool, balancer, command, waits, outcome, installed, names, moved, overlapped>>
      /\ pc[p] = "wait" /\ Reachable(cluster[p])
  BY DEF WaitReachable, From, Quiet, clusters, outside, history
<1>2. cluster[p] \in Clusters /\ exit[p] = "none"
  BY <1>1 DEF ProgressInv, ProgressOK, ProcessType
<1> SUFFICES ASSUME ~ overlapped, command[p] = "create metallb" PROVE BalancedOK(p)'
  BY <1>1 DEF BalancedOK
<1>3. /\ \A c \in Clusters : outcome[p][c] = "ok" => pool[c] # Unset /\ balancer[c] # "absent"
      /\ \A c \in Clusters : c \notin moved /\ c < cluster[p] => Reachable(c)
  BY <1>1 DEF BalancedInv, BalancedOK
<1>4. ASSUME NEW c \in Clusters, c \notin moved, c < cluster[p] \/ c = cluster[p]
      PROVE  Reachable(c)'
  BY <1>1, <1>3, <1>4 DEF Reachable
<1>5. CASE /\ cluster[p] < NumClusters /\ pc'[p] = "wait" /\ exit'[p] = exit[p]
           /\ cluster'[p] = cluster[p] + 1
  <2>1. \A c \in Clusters : c \notin moved /\ c < cluster'[p] => Reachable(c)'
    BY <1>2, <1>4, <1>5, ClustersBefore
  <2> QED
    BY <1>1, <1>2, <1>3, <1>5, <2>1 DEF BalancedOK
<1>6. CASE ~ cluster[p] < NumClusters /\ pc'[p] = "done"
  <2>1. \A c \in Clusters : c \notin moved => Reachable(c)'
    BY <1>2, <1>4, <1>6, ClustersBefore
  <2> QED
    BY <1>1, <1>3, <1>6, <2>1 DEF BalancedOK
<1>7. CASE cluster[p] < NumClusters
  BY <1>1, <1>5, <1>7 DEF WaitReachable, ProcessType
<1>8. CASE ~ cluster[p] < NumClusters
  BY <1>6, <1>8 DEF WaitReachable, Exit, ProcessType
<1> QED
  BY <1>7, <1>8

\* Where the steps before the tasks lead.
LEMMA EarlyPlace ==
  ASSUME TypeOK, NEW p \in Processes
  PROVE  /\ StartCommand(p) => pc'[p] = "load"
         /\ Forget(p) => pc'[p] = "idle"
         /\ LoadAndEnrich(p) => pc'[p] \in Enriching \union {"task"}
         /\ FailEnrich(p) => pc'[p] = "done" /\ exit'[p] = "1"
<1> ProcessType
  BY TypeParts
<1>1. ASSUME StartCommand(p) PROVE pc'[p] = "load"
  BY <1>1, StartStep DEF Start, To, ProcessType
<1>2. ASSUME Forget(p) PROVE pc'[p] = "idle"
  BY <1>2 DEF Forget, ProcessType
<1>3. ASSUME LoadAndEnrich(p) PROVE pc'[p] \in Enriching \union {"task"}
  <2>1. CASE SetExternalIPs(p)
    BY <2>1 DEF SetExternalIPs, Enriching, ProcessType
  <2>2. CASE ~ SetExternalIPs(p)
    BY <1>3, <2>2 DEF LoadAndEnrich, Load, Enrich, EnrichCluster, SetConfigRegistry,
                      SetExternalNodeIPs, SetKubeconfig, SetClusterRegistry, To, Enriching,
                      ProcessType
  <2> QED
    BY <2>1, <2>2
<1>4. ASSUME FailEnrich(p) PROVE pc'[p] = "done" /\ exit'[p] = "1"
  BY <1>4 DEF FailEnrich, Exit, ProcessType
<1> QED
  BY <1>1, <1>2, <1>3, <1>4

LEMMA BalancedStep ==
  ASSUME TypeOK, AloneInv, ResolvedInv, ProgressInv, BalancedInv, NEW p \in Processes,
         ProcessStep(p)
  PROVE  BalancedOK(p)'
<1> MemoryType /\ ProcessType /\ \A q \in Processes : PlaceOK(q)
  BY TypeParts
<1>1. Next
  BY DEF Next, ProcessStep
<1>2. (~ overlapped' => ~ overlapped) /\ (exit'[p] # "none" => pc'[p] = "done")
  BY <1>1, OverlappedStays, ProgressStep DEF ProgressOK
<1>3. CASE command'[p] # "create metallb"
  BY <1>3 DEF BalancedOK
<1>4. CASE StartCommand(p) \/ Forget(p) \/ LoadAndEnrich(p) \/ FailEnrich(p)
  <2>1. pc'[p] \in {"idle", "task", "done"} \union Enriching
    BY <1>4, EarlyPlace DEF Enriching
  <2>2. exit'[p] # "0"
    <3>1. CASE FailEnrich(p)
      BY <3>1, EarlyPlace
    <3>2. CASE StartCommand(p) \/ Forget(p) \/ LoadAndEnrich(p)
      <4>1. pc'[p] # "done"
        BY <3>2, EarlyPlace DEF Enriching
      <4> QED
        BY <1>2, <4>1
    <3> QED
      BY <1>4, <3>1, <3>2
  <2>3. \A c \in Clusters : outcome'[p][c] = "none"
    <3>1. CASE StartCommand(p) \/ Forget(p)
      <4>1. pc'[p] \in {"idle"} \union Enriching
        BY <3>1, StartStep DEF Start, To, Forget, Enriching, ProcessType
      <4> QED
        BY <1>1, <4>1, AloneStep DEF AloneInv, Nothing
    <3>2. CASE LoadAndEnrich(p) \/ FailEnrich(p)
      <4>1. UNCHANGED outcome /\ pc[p] \in Enriching
        BY <3>2 DEF LoadAndEnrich, Load, Enrich, EnrichCluster, SetConfigRegistry,
                    SetExternalNodeIPs, SetKubeconfig, SetClusterRegistry, SetExternalIPs,
                    FailEnrich, From, Enriching, process
      <4> QED
        BY <4>1 DEF AloneInv, Nothing
    <3> QED
      BY <1>4, <3>1, <3>2
  <2> QED
    BY <2>1, <2>2, <2>3 DEF BalancedOK, Enriching
<1>5. CASE FailTask(p) \/ CheckMetalLB(p)
  <2>1. pc[p] \in Tasks /\ UNCHANGED <<pool, balancer>>
    BY <1>5 DEF FailTask, CheckMetalLB, From, Tasks, clusters
  <2>2. \/ EndTask(p, "failed") \/ Continue(p, "pool", {}) \/ Continue(p, "remove", {})
    BY <1>5 DEF FailTask, CheckMetalLB
  <2>3. CASE EndTask(p, "failed")
    <3>1. CASE Strict(p)
      <4>1. /\ outcome'[p] = [outcome[p] EXCEPT ![cluster[p]] = "failed"]
            /\ command' = command /\ pc'[p] = "done" /\ exit'[p] = "1"
        BY <2>3, <3>1, EndTaskResult
      <4>2. \A c \in Clusters : outcome'[p][c] = "ok" => outcome[p][c] = "ok"
        BY <4>1 DEF ProcessType
      <4> QED
        BY <1>2, <2>1, <4>1, <4>2, BalancedKept
    <3>2. CASE ~ Strict(p)
      <4>1. command'[p] # "create metallb"
        BY <2>3, <3>2, EndTaskPlace DEF Strict
      <4> QED
        BY <1>3, <4>1
    <3> QED
      BY <3>1, <3>2
  <2>4. CASE Continue(p, "pool", {}) \/ Continue(p, "remove", {})
    <3>1. pc'[p] \in {"pool", "remove"} /\ UNCHANGED <<command, outcome>>
      BY <2>4, ContinuePlace
    <3> QED
      BY <1>2, <2>1, <3>1, BalancedKept
  <2> QED
    BY <2>2, <2>3, <2>4
<1>6. CASE TimeOut(p)
  <2>1. /\ UNCHANGED <<pool, balancer, command, outcome>>
        /\ pc'[p] = "done" /\ exit'[p] = "1"
    BY <1>6 DEF TimeOut, Exit, clusters, ProcessType
  <2> QED
    BY <1>2, <2>1, BalancedKept
<1>7. CASE \/ RunCreateCluster(p) \/ DeleteCluster(p) \/ RunUI(p) \/ RunICSP(p)
           \/ DeleteMetalLB(p) \/ DeleteCRDs(p)
  <2>1. command[p] # "create metallb"
    BY <1>7 DEF RunCreateCluster, StartAddresses, WriteAddress, DeleteCluster, RunUI, CheckUI,
                ApplyUI, RunICSP, CheckICSP, TrustRegistry, CreateCatalogICSP, DeleteMetalLB,
                DeleteCRDs, Running, From, PlaceOK
  <2>2. command' = command
    BY <1>7, TaskSteps, EndTaskPlace, ContinuePlace DEF TaskGoes
  <2> QED
    BY <1>3, <2>1, <2>2
<1> QED
  BY <1>4, <1>5, <1>6, <1>7, BalancedPool, BalancedServices, BalancedWait
     DEF ProcessStep, Command, RunMetalLB, End, Die

LEMMA BalancedInvariant == Spec => []BalancedInv
<1>1. Init => BalancedInv
  BY DEF Init, BalancedInv, BalancedOK
<1>2. TypeOK /\ AloneInv /\ ResolvedInv /\ ProgressInv /\ BalancedInv /\ [Next]_vars => BalancedInv'
  <2>1. ASSUME TypeOK, AloneInv, BalancedInv, NEW p \in Processes, ProcessStep(p),
               NEW q \in Processes, q # p
        PROVE  BalancedOK(q)'
    <3>1. CASE overlapped'
      BY <3>1 DEF BalancedOK
    <3>2. CASE ~ overlapped'
      <4>1. command'[q] = "none"
        BY <2>1, <3>2, OthersIdle DEF AloneInv
      <4> QED
        BY <4>1 DEF BalancedOK
    <3> QED
      BY <3>1, <3>2
  <2>2. ASSUME TypeOK, AloneInv, ResolvedInv, ProgressInv, BalancedInv, Next PROVE BalancedInv'
    <3>1. ASSUME NEW p \in Processes, ProcessStep(p) PROVE BalancedInv'
      BY <2>1, <2>2, <3>1, BalancedStep DEF BalancedInv
    <3> QED
      BY <2>2, <3>1, BalancedOutside, NextSteps
  <2>3. ASSUME BalancedInv, UNCHANGED vars PROVE BalancedInv'
    BY <2>3 DEF BalancedInv, BalancedOK, Reachable, vars, outside, clusters, process, history
  <2> QED
    BY <2>2, <2>3
<1> QED
  BY <1>1, <1>2, TypeCorrect, AloneInvariant, ResolvedInvariant, ProgressInvariant, PTL DEF Spec

\* What the exit code 0 of each command says of the clusters, for any numbers of them and
\* wherever the names move and the other commands are cut.
THEOREM ExitCodeIsRight == Spec => []ExitZeroMeans
<1>1. ASSUME ProgressInv, PoolInv, BalancedInv PROVE ExitZeroMeans
  <2> SUFFICES ASSUME NEW p \in Processes, exit[p] = "0"
               PROVE  /\ \A c \in Clusters : outcome[p][c] # "none"
                      /\ Strict(p) => \A c \in Clusters : outcome[p][c] = "ok"
                      /\ command[p] = "create metallb" /\ ~ overlapped =>
                           \A c \in Clusters :
                             /\ pool[c] # Unset /\ balancer[c] # "absent"
                             /\ c \notin moved => pool[c] = names[c] /\ (p \in waits => Reachable(c))
    BY DEF ExitZeroMeans
  <2>1. \A c \in Clusters : outcome[p][c] # "none" /\ (Strict(p) => outcome[p][c] = "ok")
    BY <1>1 DEF ProgressInv, ProgressOK, Attempted
  <2>2. ASSUME command[p] = "create metallb", ~ overlapped, NEW c \in Clusters
        PROVE  /\ pool[c] # Unset /\ balancer[c] # "absent"
               /\ c \notin moved => pool[c] = names[c] /\ (p \in waits => Reachable(c))
    <3>1. outcome[p][c] = "ok"
      BY <2>1, <2>2 DEF Strict
    <3>2. pool[c] # Unset /\ balancer[c] # "absent"
          /\ (c \notin moved /\ p \in waits => Reachable(c))
      BY <1>1, <2>2, <3>1 DEF BalancedInv, BalancedOK
    <3>3. c \notin moved => pool[c] \in {Unset, names[c]}
      BY <1>1 DEF PoolInv, PoolOK
    <3> QED
      BY <3>2, <3>3
  <2> QED
    BY <2>1, <2>2
<1> QED
  BY <1>1, ProgressInvariant, PoolInvariant, BalancedInvariant, PTL

=============================================================================
