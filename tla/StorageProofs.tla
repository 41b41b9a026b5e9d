----------------------------- MODULE StorageProofs -----------------------------
(***************************************************************************)
(* The proofs of the safety properties of Storage, for any numbers of      *)
(* clusters, nodes, processes and commands.                                *)
(***************************************************************************)
EXTENDS Storage, FiniteSetTheorems, TLAPS

LEMMA StorageNumbers ==
  /\ NumClusters \in Nat /\ 1 \in Clusters
  /\ \A c \in Clusters : c \in Nat /\ c >= 1 /\ c <= NumClusters
  /\ \A c \in Clusters : c < NumClusters => c + 1 \in Clusters
  /\ NumNodes \in Nat /\ \A n \in Nodes : n \in Nat /\ n >= 1 /\ n <= NumNodes
BY StorageAssumption DEF Clusters, Nodes

LEMMA NodesFinite == IsFiniteSet(Nodes) /\ Cardinality(Nodes) = NumNodes
<1>1. 1 \in Int /\ NumNodes \in Int /\ ~ (1 > NumNodes) /\ NumNodes - 1 + 1 = NumNodes
  BY StorageAssumption
<1>2. IsFiniteSet(1 .. NumNodes)
      /\ Cardinality(1 .. NumNodes) = IF 1 > NumNodes THEN 0 ELSE NumNodes - 1 + 1
  BY <1>1, FS_Interval
<1> QED
  BY <1>1, <1>2 DEF Nodes

\* The rack of a node is smaller than the number of nodes, and no other node has it.
LEMMA PositionType ==
  ASSUME NEW s \in SUBSET Nodes, NEW n \in Nodes
  PROVE  Position(n, s) \in 0 .. NumNodes
<1> DEFINE before == {m \in s : m < n}
<1>1. IsFiniteSet(Nodes) /\ Cardinality(Nodes) = NumNodes
  BY NodesFinite
<1>2. before \subseteq Nodes
  OBVIOUS
<1>3. IsFiniteSet(before) /\ Cardinality(before) <= NumNodes
  BY <1>1, <1>2, FS_Subset
<1>4. Cardinality(before) \in Nat
  BY <1>3, FS_CardinalityType
<1> QED
  BY <1>3, <1>4, StorageNumbers DEF Position

LEMMA PositionsDiffer ==
  ASSUME NEW s \in SUBSET Nodes, NEW m \in s, NEW n \in s, m # n
  PROVE  Position(m, s) # Position(n, s)
<1>1. ASSUME NEW a \in s, NEW b \in s, a < b PROVE Position(a, s) # Position(b, s)
  <2> DEFINE A == {k \in s : k < a}
  <2> DEFINE B == {k \in s : k < b}
  <2>1. IsFiniteSet(Nodes)
    BY NodesFinite
  <2>2. A \subseteq B /\ a \in B /\ a \notin A /\ B \subseteq Nodes
    BY <1>1, StorageNumbers
  <2>3. IsFiniteSet(B)
    BY <2>1, <2>2, FS_Subset
  <2>4. IsFiniteSet(A) /\ Cardinality(A) # Cardinality(B)
    BY <2>2, <2>3, FS_Subset
  <2> QED
    BY <2>4 DEF Position
<1>2. m < n \/ n < m
  BY StorageNumbers
<1> QED
  BY <1>1, <1>2

-----------------------------------------------------------------------------
(* The type invariant. *)

LEMMA TypeInit == Init => TypeOK
<1> SUFFICES ASSUME Init PROVE TypeOK
  OBVIOUS
<1>1. HubType
  BY StorageAssumption, StorageNumbers DEF Init, HubType, Users, NoRack
<1>2. ProcessType
  BY StorageNumbers DEF Init, ProcessType, Places, Operators, Users
<1>3. \A p \in Processes : PlaceOK(p)
  BY DEF Init, PlaceOK, Is, Users
<1> QED
  BY <1>1, <1>2, <1>3, StorageAssumption DEF Init, TypeOK

LEMMA GoToType ==
  ASSUME TypeOK, NEW p \in Processes, NEW place \in Places, GoTo(p, place),
         /\ place \in {"annotation", "annotate"} => verb[p] = "create" /\ op[p] \in Users
         /\ place \in {"list", "store", "resize", "class", "default"} => Is(p, "create", "odf")
         /\ place \in {"apply", "wait"} => verb[p] = "create"
         /\ place \in {"remove", "unannotate", "crds"} => verb[p] = "delete"
         /\ place \notin {"wipe", "label"}
  PROVE  ProcessType' /\ \A q \in Processes : PlaceOK(q)'
<1>1. ProcessType'
  BY DEF TypeOK, ProcessType, GoTo
<1>2. PlaceOK(p)'
  BY DEF TypeOK, ProcessType, PlaceOK, GoTo, Is
<1>3. ASSUME NEW q \in Processes, q # p PROVE PlaceOK(q)'
  BY <1>3 DEF TypeOK, ProcessType, PlaceOK, GoTo, Is
<1> QED
  BY <1>1, <1>2, <1>3

LEMMA EndTaskType ==
  ASSUME TypeOK, NEW p \in Processes, NEW how \in {"ok", "failed"}, EndTask(p, how)
  PROVE  ProcessType' /\ \A q \in Processes : PlaceOK(q)'
<1>1. CASE Exit(p, "1") \/ Exit(p, "0")
  <2>1. ProcessType'
    BY <1>1 DEF TypeOK, ProcessType, EndTask, Exit, Places
  <2>2. ASSUME NEW q \in Processes PROVE PlaceOK(q)'
    BY <1>1, <2>2 DEF TypeOK, ProcessType, PlaceOK, EndTask, Exit, Is
  <2> QED
    BY <2>1, <2>2
<1>2. CASE NextCluster(p) /\ cluster[p] < NumClusters
  <2>1. cluster[p] + 1 \in Clusters
    BY <1>2, StorageNumbers DEF TypeOK, ProcessType
  <2>2. ProcessType'
    BY <1>2, <2>1 DEF TypeOK, ProcessType, EndTask, NextCluster, Places
  <2>3. ASSUME NEW q \in Processes PROVE PlaceOK(q)'
    BY <1>2, <2>3 DEF TypeOK, ProcessType, PlaceOK, EndTask, NextCluster, Is
  <2> QED
    BY <2>2, <2>3
<1> QED
  BY <1>1, <1>2 DEF EndTask

LEMMA ForgetType ==
  ASSUME TypeOK, NEW p \in Processes, Forget(p)
  PROVE  ProcessType' /\ \A q \in Processes : PlaceOK(q)'
<1>1. ProcessType'
  BY StorageNumbers DEF TypeOK, ProcessType, Forget, Places, Operators, Users
<1>2. ASSUME NEW q \in Processes PROVE PlaceOK(q)'
  BY <1>2 DEF TypeOK, ProcessType, PlaceOK, Forget, Is
<1> QED
  BY <1>1, <1>2

LEMMA RemoveType ==
  ASSUME HubType, NEW c \in Clusters, NEW o \in Users, Remove(c, o),
         UNCHANGED <<wiped, sno, members, racks>>
  PROVE  HubType'
BY DEF HubType, Remove, Objects, Operators, Users

LEMMA WorldType ==
  ASSUME TypeOK, World
  PROVE  TypeOK'
<1>1. PICK c \in Clusters :
        \/ \E n \in Nodes : Join(c, n) \/ \E o \in Users : Take(c, n, o)
        \/ \E o \in Objects : Progress(c, o) \/ Recover(c, o)
        \/ CreateStore(c)
        \/ \E o \in {"lvmo", "odf"} : CreateClass(c, o)
  BY DEF World
<1>2. UNCHANGED <<process, runs>>
  BY <1>1 DEF Join, Take, Progress, Recover, CreateStore, CreateClass
<1>3. ProcessType' /\ \A p \in Processes : PlaceOK(p)'
  BY <1>2 DEF TypeOK, ProcessType, PlaceOK, process, Is
<1>4. HubType'
  <2>1. ASSUME NEW n \in Nodes, Join(c, n) PROVE HubType'
    BY <2>1 DEF TypeOK, HubType, Join
  <2>2. ASSUME NEW n \in Nodes, NEW o \in Users, Take(c, n, o) PROVE HubType'
    BY <2>2 DEF TypeOK, HubType, Take
  <2>3. ASSUME NEW o \in Objects, Progress(c, o) \/ Recover(c, o) PROVE HubType'
    <3>1. \E v \in {"ready", "error"} : object' = [object EXCEPT ![c][o] = v]
      BY <2>3 DEF Progress, Recover
    <3> QED
      BY <2>3, <3>1 DEF TypeOK, HubType, Progress, Recover
  <2>4. CASE CreateStore(c)
    BY <2>4 DEF TypeOK, HubType, CreateStore, Objects
  <2>5. ASSUME NEW o \in {"lvmo", "odf"}, CreateClass(c, o) PROVE HubType'
    BY <2>5 DEF TypeOK, HubType, CreateClass
  <2> QED
    BY <1>1, <2>1, <2>2, <2>3, <2>4, <2>5
<1>5. spoiled' \in [Clusters -> SUBSET {"joined", "script", "shared", "cut", "overlap"}]
  BY <1>1 DEF TypeOK, Join, Take, Progress, Recover, CreateStore, CreateClass, Spoil
<1> QED
  BY <1>2, <1>3, <1>4, <1>5 DEF TypeOK

LEMMA StartType ==
  ASSUME TypeOK, NEW p \in Processes, NEW v \in {"create", "delete"}, NEW o \in Operators,
         v = "delete" => o \in Users, Start(p, v, o)
  PROVE  TypeOK'
<1>1. ProcessType'
  BY DEF TypeOK, ProcessType, Start, Places
<1>2. ASSUME NEW q \in Processes PROVE PlaceOK(q)'
  BY <1>2 DEF TypeOK, ProcessType, PlaceOK, Start, Is
<1>3. HubType' /\ runs' \in 0 .. MaxRuns
  BY StorageAssumption DEF TypeOK, HubType, Start, hub
<1>4. spoiled' \in [Clusters -> SUBSET {"joined", "script", "shared", "cut", "overlap"}]
  BY DEF TypeOK, Start
<1> QED
  BY <1>1, <1>2, <1>3, <1>4 DEF TypeOK

LEMMA CutType ==
  ASSUME TypeOK, NEW p \in Processes, Cut(p)
  PROVE  spoiled' \in [Clusters -> SUBSET {"joined", "script", "shared", "cut", "overlap"}]
BY DEF TypeOK, ProcessType, Cut

\* Die, FailStart, FailTask, Enrich, Check and End.
LEMMA LoopType ==
  ASSUME TypeOK, NEW p \in Processes,
         Die(p) \/ FailStart(p) \/ FailTask(p) \/ Enrich(p) \/ Check(p) \/ End(p)
  PROVE  TypeOK'
<1>1. HubType' /\ runs' \in 0 .. MaxRuns
  BY DEF TypeOK, HubType, Die, FailStart, FailTask, Enrich, Check, End, Forget, Exit, EndTask,
         NextCluster, GoTo, hub
<1>2. spoiled' \in [Clusters -> SUBSET {"joined", "script", "shared", "cut", "overlap"}]
  BY CutType DEF TypeOK, Die, FailStart, FailTask, Enrich, Check, End
<1>3. ProcessType' /\ \A q \in Processes : PlaceOK(q)'
  <2>1. CASE Die(p) \/ End(p)
    BY <2>1, ForgetType DEF Die, End
  <2>2. CASE FailStart(p)
    <3>1. ProcessType'
      BY <2>2 DEF TypeOK, ProcessType, FailStart, Exit, Places
    <3>2. ASSUME NEW q \in Processes PROVE PlaceOK(q)'
      BY <2>2, <3>2 DEF TypeOK, ProcessType, PlaceOK, FailStart, Exit, Is
    <3> QED
      BY <3>1, <3>2
  <2>3. CASE FailTask(p)
    BY <2>3, EndTaskType DEF FailTask
  <2>4. CASE Enrich(p)
    BY <2>4, GoToType DEF Enrich, Places
  <2>5. CASE Check(p)
    <3>1. CASE EndTask(p, "failed")
      BY <3>1, EndTaskType
    <3>2. CASE verb[p] = "delete" /\ GoTo(p, "remove")
      BY <3>2, GoToType DEF Places
    <3>3. CASE verb[p] = "create" /\ op[p] = "odf" /\ GoTo(p, "list")
      BY <3>3, GoToType DEF Places, Is
    <3>4. CASE verb[p] = "create" /\ op[p] # "odf" /\ GoTo(p, "annotation")
      <4>1. op[p] \in Users
        BY <3>4 DEF TypeOK, ProcessType, Operators
      <4> QED
        BY <3>4, <4>1, GoToType DEF Places
    <3> QED
      BY <2>5, <3>1, <3>2, <3>3, <3>4 DEF Check, TypeOK, ProcessType
  <2> QED
    BY <2>1, <2>2, <2>3, <2>4, <2>5
<1> QED
  BY <1>1, <1>2, <1>3 DEF TypeOK

\* A step that takes a list of nodes, or that does the next of them.
LEMMA NodesType ==
  ASSUME TypeOK, NEW p \in Processes, NEW place \in Places, NEW s \in SUBSET Nodes,
         pc' = [pc EXCEPT ![p] = place], left' = [left EXCEPT ![p] = s],
         \/ UNCHANGED listed
         \/ \E l \in SUBSET Nodes : listed' = [listed EXCEPT ![p] = l],
         UNCHANGED <<verb, op, cluster, outcome, exit>>,
         verb[p] = "create",
         \/ place \in {"wipe", "annotate"} /\ op[p] \in Users
         \/ place = "label" /\ op[p] = "odf"
         \/ place = "apply",
         place \in {"wipe", "label"} => s # {}
  PROVE  ProcessType' /\ \A q \in Processes : PlaceOK(q)'
<1>1. ProcessType'
  BY DEF TypeOK, ProcessType
<1>2. ASSUME NEW q \in Processes PROVE PlaceOK(q)'
  BY <1>2 DEF TypeOK, ProcessType, PlaceOK, Is, Users
<1> QED
  BY <1>1, <1>2

LEMMA WipeType ==
  ASSUME TypeOK, NEW p \in Processes, op[p] \in Users, verb[p] = "create", WipeDisks(p)
  PROVE  TypeOK'
<1>0. cluster[p] \in Clusters /\ left[p] \in SUBSET Nodes /\ members[cluster[p]] \in SUBSET Nodes
      /\ left = [left EXCEPT ![p] = left[p]]
  BY DEF TypeOK, ProcessType, HubType
<1>1. CASE ReadAnnotation(p)
  <2>1. HubType' /\ UNCHANGED <<runs, spoiled>>
    BY <1>1 DEF ReadAnnotation, TypeOK, HubType, hub
  <2>2. ProcessType' /\ \A q \in Processes : PlaceOK(q)'
    <3>1. CASE pc' = [pc EXCEPT ![p] = "apply"] /\ UNCHANGED left
      BY <1>0, <1>1, <3>1, NodesType DEF ReadAnnotation, Places
    <3>2. CASE /\ pc' = [pc EXCEPT ![p] = "wipe"] /\ members[cluster[p]] # {}
               /\ left' = [left EXCEPT ![p] = members[cluster[p]]]
      BY <1>0, <1>1, <3>2, NodesType DEF ReadAnnotation, Places
    <3>3. CASE /\ pc' = [pc EXCEPT ![p] = "annotate"]
               /\ left' = [left EXCEPT ![p] = members[cluster[p]]]
      BY <1>0, <1>1, <3>3, NodesType DEF ReadAnnotation, Places
    <3> QED
      BY <1>1, <3>1, <3>2, <3>3 DEF ReadAnnotation
  <2> QED
    BY <2>1, <2>2 DEF TypeOK
<1>2. CASE WipeNode(p)
  <2>1. PICK n \in Nodes :
          /\ \/ disk' = [disk EXCEPT ![cluster[p]][n] = "clean"] /\ UNCHANGED spoiled
             \/ UNCHANGED disk /\ Spoil(cluster[p], "script")
          /\ left' = [left EXCEPT ![p] = @ \ {n}]
          /\ pc' = [pc EXCEPT ![p] = IF left[p] = {n} THEN "annotate" ELSE "wipe"]
          /\ n \in left[p]
          /\ UNCHANGED <<wiped, sno, members, object, racks, classes, defaults>>
    BY <1>2 DEF WipeNode, IsFirst
  <2>2. HubType'
    <3>0. disk \in [Clusters -> [Nodes -> {"old", "clean"} \union Users]]
      BY DEF TypeOK, HubType
    <3>1. disk' \in [Clusters -> [Nodes -> {"old", "clean"} \union Users]]
      BY <1>0, <2>1, <3>0
    <3> QED
      BY <2>1, <3>1 DEF TypeOK, HubType
  <2>3. spoiled' \in [Clusters -> SUBSET {"joined", "script", "shared", "cut", "overlap"}]
    BY <1>0, <2>1 DEF TypeOK, Spoil
  <2>4. ProcessType' /\ \A q \in Processes : PlaceOK(q)'
    <3> DEFINE place == IF left[p] = {n} THEN "annotate" ELSE "wipe"
    <3> DEFINE rest == left[p] \ {n}
    <3>1. /\ place \in Places /\ rest \in SUBSET Nodes
          /\ place = "wipe" => rest # {}
          /\ place \in {"wipe", "annotate"}
      BY <1>0, <2>1 DEF Places
    <3>2. pc' = [pc EXCEPT ![p] = place] /\ left' = [left EXCEPT ![p] = rest]
      BY <2>1 DEF TypeOK, ProcessType
    <3>3. UNCHANGED <<listed, verb, op, cluster, outcome, exit>>
      BY <1>2 DEF WipeNode
    <3> HIDE DEF place, rest
    <3> QED
      BY <3>1, <3>2, <3>3, NodesType
  <2> QED
    BY <1>2, <2>2, <2>3, <2>4 DEF WipeNode, TypeOK
<1>3. CASE AddWiped(p)
  <2>1. HubType' /\ UNCHANGED <<runs, spoiled>>
    BY <1>0, <1>3 DEF AddWiped, AddAnnotation, GoTo, TypeOK, HubType
  <2>2. ProcessType' /\ \A q \in Processes : PlaceOK(q)'
    BY <1>3, GoToType DEF AddWiped, Places
  <2> QED
    BY <2>1, <2>2 DEF TypeOK
<1> QED
  BY <1>1, <1>2, <1>3 DEF WipeDisks

LEMMA LabelType ==
  ASSUME TypeOK, NEW p \in Processes, verb[p] = "create", op[p] = "odf", LabelNodes(p)
  PROVE  TypeOK'
<1>0. /\ cluster[p] \in Clusters /\ left[p] \in SUBSET Nodes /\ listed[p] \in SUBSET Nodes
      /\ members[cluster[p]] \in SUBSET Nodes
      /\ verb[p] = "create" /\ op[p] = "odf"
  BY DEF TypeOK, ProcessType, HubType, LabelNodes, Is
<1>1. CASE ListNodes(p)
  <2> DEFINE s == members[cluster[p]]
  <2> DEFINE place == IF s = {} THEN "apply" ELSE "label"
  <2>1. HubType' /\ UNCHANGED <<runs, spoiled>>
    BY <1>1 DEF ListNodes, TypeOK, HubType, hub
  <2>2. place \in Places /\ s \in SUBSET Nodes /\ (place = "label" => s # {})
        /\ place \in {"apply", "label"}
    BY <1>0 DEF Places
  <2>3. /\ pc' = [pc EXCEPT ![p] = place] /\ left' = [left EXCEPT ![p] = s]
        /\ listed' = [listed EXCEPT ![p] = s]
        /\ UNCHANGED <<verb, op, cluster, outcome, exit>>
    BY <1>1 DEF ListNodes
  <2> HIDE DEF s, place
  <2>4. ProcessType' /\ \A q \in Processes : PlaceOK(q)'
    BY <1>0, <2>2, <2>3, NodesType
  <2> QED
    BY <2>1, <2>4 DEF TypeOK
<1>2. CASE Label(p)
  <2>1. PICK n \in Nodes :
          /\ racks' = [racks EXCEPT ![cluster[p]][n] = Position(n, listed[p])]
          /\ left' = [left EXCEPT ![p] = @ \ {n}]
          /\ pc' = [pc EXCEPT ![p] = IF left[p] = {n} THEN "apply" ELSE "label"]
          /\ n \in left[p]
    BY <1>2 DEF Label, IsFirst, AddLabels
  <2>2. Position(n, listed[p]) \in NoRack .. NumNodes
    BY <1>0, PositionType, StorageNumbers DEF NoRack
  <2>3. HubType' /\ UNCHANGED <<runs, spoiled>>
    BY <1>0, <1>2, <2>1, <2>2 DEF Label, TypeOK, HubType
  <2> DEFINE place == IF left[p] = {n} THEN "apply" ELSE "label"
  <2> DEFINE rest == left[p] \ {n}
  <2>4. /\ place \in Places /\ rest \in SUBSET Nodes
        /\ place = "label" => rest # {}
        /\ place \in {"apply", "label"}
    BY <1>0, <2>1 DEF Places
  <2>5. pc' = [pc EXCEPT ![p] = place] /\ left' = [left EXCEPT ![p] = rest]
    BY <2>1 DEF TypeOK, ProcessType
  <2>6. UNCHANGED <<listed, verb, op, cluster, outcome, exit>>
    BY <1>2 DEF Label
  <2> HIDE DEF place, rest
  <2>7. ProcessType' /\ \A q \in Processes : PlaceOK(q)'
    BY <1>0, <2>4, <2>5, <2>6, NodesType
  <2> QED
    BY <2>3, <2>7 DEF TypeOK
<1> QED
  BY <1>1, <1>2 DEF LabelNodes

\* The steps that deploy and wait: each goes to another place or ends the task.
LEMMA DeployType ==
  ASSUME TypeOK, NEW p \in Processes, verb[p] = "create",
         \/ Apply(p) \/ WaitVolume(p) \/ WaitLVMCluster(p) \/ WaitStorageCluster(p)
         \/ WaitBackingStore(p) \/ ResizeBackingStore(p) \/ WaitStorageClass(p) \/ MarkDefault(p)
  PROVE  TypeOK'
<1>0. /\ cluster[p] \in Clusters /\ op[p] \in Operators /\ op[p] \in Objects
      /\ pc[p] \in {"class", "store", "default", "resize"} => op[p] = "odf"
  BY DEF TypeOK, ProcessType, PlaceOK, Is, Objects
<1>1. ProcessType' /\ \A q \in Processes : PlaceOK(q)'
  <2>1. ASSUME NEW how \in {"ok", "failed"}, EndTask(p, how)
        PROVE  ProcessType' /\ \A q \in Processes : PlaceOK(q)'
    BY <2>1, EndTaskType
  <2>2. ASSUME NEW place \in {"store", "resize", "class", "default"}, GoTo(p, place), op[p] = "odf"
        PROVE  ProcessType' /\ \A q \in Processes : PlaceOK(q)'
    <3>1. place \in Places /\ Is(p, "create", "odf")
      BY <2>2 DEF Places, Is
    <3> QED
      BY <2>2, <3>1, GoToType
  <2>3. CASE Apply(p)
    BY <2>3, GoToType DEF Apply, Places
  <2>4. CASE WaitVolume(p) \/ WaitLVMCluster(p) \/ ResizeBackingStore(p) \/ MarkDefault(p)
    <3>1. EndTask(p, "ok") \/ EndTask(p, "failed")
      BY <2>4 DEF WaitVolume, WaitLVMCluster, ResizeBackingStore, MarkDefault
    <3> QED
      BY <2>1, <3>1
  <2>5. CASE WaitStorageCluster(p)
    <3>1. op[p] = "odf"
      BY <2>5 DEF WaitStorageCluster, Running
    <3>2. \/ EndTask(p, "failed") \/ GoTo(p, "store") \/ GoTo(p, "class")
      BY <2>5 DEF WaitStorageCluster
    <3> QED
      BY <2>1, <2>2, <3>1, <3>2
  <2>6. CASE WaitBackingStore(p)
    <3>1. op[p] = "odf" /\ (EndTask(p, "failed") \/ GoTo(p, "resize"))
      BY <1>0, <2>6 DEF WaitBackingStore
    <3> QED
      BY <2>1, <2>2, <3>1
  <2>7. CASE WaitStorageClass(p)
    <3>1. op[p] = "odf" /\ GoTo(p, "default")
      BY <1>0, <2>7 DEF WaitStorageClass
    <3> QED
      BY <2>2, <3>1
  <2> QED
    BY <2>3, <2>4, <2>5, <2>6, <2>7
<1>2. CASE Apply(p)
  <2>1. HubType' /\ UNCHANGED runs
    BY <1>0, <1>2 DEF Apply, GoTo, TypeOK, HubType
  <2>2. spoiled' \in [Clusters -> SUBSET {"joined", "script", "shared", "cut", "overlap"}]
    BY <1>0, <1>2 DEF Apply, Spoil, TypeOK
  <2> QED
    BY <1>1, <2>1, <2>2 DEF TypeOK
<1>3. CASE MarkDefault(p)
  <2>1. op[p] = "odf" /\ UNCHANGED <<spoiled, runs>>
    BY <1>0, <1>3 DEF MarkDefault, EndTask, Exit, NextCluster
  <2>2. defaults' \in [Clusters -> SUBSET {"lvmo", "odf"}]
    BY <1>0, <1>3, <2>1 DEF MarkDefault, TypeOK, HubType
  <2>3. HubType'
    BY <1>3, <2>2 DEF MarkDefault, TypeOK, HubType
  <2> QED
    BY <1>1, <2>1, <2>3 DEF TypeOK
<1>4. CASE ~ (Apply(p) \/ MarkDefault(p))
  <2>1. UNCHANGED <<hub, spoiled, runs>>
    BY <1>4 DEF WaitVolume, WaitLVMCluster, WaitStorageCluster, WaitBackingStore,
                ResizeBackingStore, WaitStorageClass, EndTask, Exit, NextCluster, GoTo
  <2>2. HubType'
    BY <2>1 DEF TypeOK, HubType, hub
  <2> QED
    BY <1>1, <2>1, <2>2 DEF TypeOK
<1> QED
  BY <1>2, <1>3, <1>4

LEMMA DeleteType ==
  ASSUME TypeOK, NEW p \in Processes, verb[p] = "delete", DeleteUser(p)
  PROVE  TypeOK'
<1>0. cluster[p] \in Clusters /\ op[p] \in Users
  BY DEF TypeOK, ProcessType, PlaceOK
<1>1. CASE DeleteObjects(p)
  <2>1. HubType' /\ UNCHANGED runs
    BY <1>0, <1>1, RemoveType DEF DeleteObjects, GoTo, TypeOK
  <2>2. spoiled' \in [Clusters -> SUBSET {"joined", "script", "shared", "cut", "overlap"}]
    BY <1>0, <1>1 DEF DeleteObjects, Spoil, TypeOK
  <2>3. ProcessType' /\ \A q \in Processes : PlaceOK(q)'
    BY <1>1, GoToType DEF DeleteObjects, Places
  <2> QED
    BY <2>1, <2>2, <2>3 DEF TypeOK
<1>2. CASE DeleteWiped(p)
  <2>1. HubType' /\ UNCHANGED <<runs, spoiled>>
    BY <1>0, <1>2 DEF DeleteWiped, DeleteAnnotation, GoTo, TypeOK, HubType
  <2>2. ProcessType' /\ \A q \in Processes : PlaceOK(q)'
    BY <1>2, GoToType DEF DeleteWiped, Places
  <2> QED
    BY <2>1, <2>2 DEF TypeOK
<1>3. CASE DeleteCRDs(p)
  <2>1. HubType'
    BY <1>0, <1>3, RemoveType DEF DeleteCRDs, DeleteCRDGroup, TypeOK, HubType, hub
  <2>2. UNCHANGED <<runs, spoiled>>
    BY <1>3 DEF DeleteCRDs, EndTask, Exit, NextCluster
  <2>3. ProcessType' /\ \A q \in Processes : PlaceOK(q)'
    BY <1>3, EndTaskType DEF DeleteCRDs
  <2> QED
    BY <2>1, <2>2, <2>3 DEF TypeOK
<1> QED
  BY <1>1, <1>2, <1>3 DEF DeleteUser

\* The parts of the next-state relation that the proofs split it into.
LEMMA NextCases ==
  ASSUME Next, TypeOK
  PROVE  \/ World
         \/ \E p \in Processes :
              \/ \E v \in {"create", "delete"}, o \in Operators :
                   Start(p, v, o) /\ (v = "delete" => o \in Users)
              \/ Die(p) \/ FailStart(p) \/ FailTask(p) \/ Enrich(p) \/ Check(p) \/ End(p)
              \/ WipeDisks(p) /\ verb[p] = "create" /\ op[p] \in Users
              \/ LabelNodes(p) /\ verb[p] = "create" /\ op[p] = "odf"
              \/ /\ verb[p] = "create"
                 /\ \/ Apply(p) \/ WaitVolume(p) \/ WaitLVMCluster(p) \/ WaitStorageCluster(p)
                    \/ WaitBackingStore(p) \/ ResizeBackingStore(p) \/ WaitStorageClass(p)
                    \/ MarkDefault(p)
              \/ DeleteUser(p) /\ verb[p] = "delete" /\ op[p] \in Users
BY DEF Next, StartCreateLSO, StartCreateLVMO, StartCreateODF, StartDeleteLSO, StartDeleteLVMO,
       Command, CreateLSO, DeployLSO, CreateLVMO, WipeDisksLVMO, DeployLVMO, CreateODF, DeployODF, DeleteLSO,
       DeleteLVMO, Is, Operators, Users

LEMMA TypeNext == TypeOK /\ [Next]_vars => TypeOK'
<1> SUFFICES ASSUME TypeOK, [Next]_vars PROVE TypeOK'
  OBVIOUS
<1>1. CASE Next
  BY <1>1, NextCases, WorldType, StartType, LoopType, WipeType, LabelType, DeployType, DeleteType
<1>2. CASE UNCHANGED vars
  BY <1>2 DEF vars, hub, process, TypeOK, HubType, ProcessType, PlaceOK, Is
<1> QED
  BY <1>1, <1>2

\* The types of the hub and of the processes, and where each command can be.
THEOREM StorageTypeCorrect == Spec => []TypeOK
BY TypeInit, TypeNext, PTL DEF Spec

-----------------------------------------------------------------------------
(* The invariant from which the other properties follow. *)

\* Without overlaps only one process works.
Alone == \A p, q \in Processes : pc[p] # "idle" /\ pc[q] # "idle" /\ p # q => Overlapped

\* Why the disks in use aren't wiped: the annotation is there since before the objects.
WipeInv(c) ==
  Overlapped \/ "shared" \in spoiled[c] \/
  /\ \A u \in Users : object[c][u] # "absent" => c \in wiped
  /\ \A n \in Nodes, u \in Users : disk[c][n] = u => object[c][u] # "absent"
  /\ \A p \in Processes : cluster[p] = c =>
       /\ pc[p] \in {"wipe", "annotate"} => c \notin wiped
       /\ pc[p] = "apply" /\ op[p] \in Users => c \in wiped
       /\ pc[p] \in {"unannotate", "crds"} => \A u \in Users : object[c][u] = "absent"

\* Why the disks are clean when an operator starts.
CleanNodes(c, s) == \A n \in s : disk[c][n] # "old"
CleanInv(c) ==
  Overlapped \/ spoiled[c] # {} \/
  /\ c \in wiped =>
       \/ CleanNodes(c, members[c])
       \/ \E p \in Processes : pc[p] = "unannotate" /\ cluster[p] = c
  /\ \A p \in Processes : cluster[p] = c =>
       /\ pc[p] = "wipe" => CleanNodes(c, members[c] \ left[p])
       /\ pc[p] = "annotate" => CleanNodes(c, members[c])
       /\ pc[p] \in {"unannotate", "crds"} => \A n \in Nodes : disk[c][n] \notin Users

\* What each process did for ODF.
ODFInv(p) ==
  /\ pc[p] = "idle" => listed[p] = {}
  /\ listed[p] # {} => op[p] = "odf"
  /\ pc[p] = "label" => left[p] \subseteq listed[p]
  /\ Overlapped \/ \A n \in listed[p] \ left[p] : racks[cluster[p]][n] = Position(n, listed[p])
  /\ Is(p, "create", "odf") /\ pc[p] \in {"wait", "store", "resize", "class", "default"} =>
       object[cluster[p]]["odf"] # "absent"
  /\ pc[p] \in {"store", "resize"} => cluster[p] \in sno /\ object[cluster[p]]["odf"] = "ready"
  /\ Is(p, "create", "odf") => \A c \in Clusters : outcome[p][c] = "ok" =>
       object[c]["odf"] # "absent" /\ (c \in sno \/ "odf" \in defaults[c])

\* Where the loop over the clusters is.
LoopInv(p) ==
  /\ pc[p] # "done" => \A c \in Clusters : outcome[p][c] = "none" <=> c >= cluster[p]
  /\ pc[p] # "done" => exit[p] = "none"
  /\ pc[p] \in {"idle", "enrich"} => cluster[p] = 1
  /\ Strict(p) => \A c \in Clusters : outcome[p][c] # "ok"
  /\ Strict(p) /\ pc[p] # "done" => cluster[p] = 1

Waits(p) == pc[p] = "wait" /\ ~ Overlapped => object[cluster[p]][op[p]] # "absent"

IInv ==
  /\ Alone /\ ExitCodes
  /\ \A c \in Clusters : WipeInv(c) /\ CleanInv(c)
  /\ \A p \in Processes : ODFInv(p) /\ LoopInv(p) /\ Waits(p)

\* A step of a process leaves the others alone, and history only grows.
Same(q) ==
  /\ pc'[q] = pc[q] /\ verb'[q] = verb[q] /\ op'[q] = op[q] /\ cluster'[q] = cluster[q]
  /\ listed'[q] = listed[q] /\ left'[q] = left[q]
  /\ outcome'[q] = outcome[q] /\ exit'[q] = exit[q]

LoopStep(p) == Die(p) \/ FailStart(p) \/ FailTask(p) \/ Enrich(p) \/ Check(p) \/ End(p)
Starts(p) == \E v \in {"create", "delete"}, o \in Operators :
               Start(p, v, o) /\ (v = "delete" => o \in Users)
WipeStep(p) == WipeDisks(p) /\ verb[p] = "create" /\ op[p] \in Users
LabelStep(p) == LabelNodes(p) /\ verb[p] = "create" /\ op[p] = "odf"
DeployStep(p) ==
  /\ verb[p] = "create"
  /\ \/ Apply(p) \/ WaitVolume(p) \/ WaitLVMCluster(p) \/ WaitStorageCluster(p)
     \/ WaitBackingStore(p) \/ ResizeBackingStore(p) \/ WaitStorageClass(p) \/ MarkDefault(p)
DeleteStep(p) == DeleteUser(p) /\ verb[p] = "delete" /\ op[p] \in Users
Works(p) == LoopStep(p) \/ WipeStep(p) \/ LabelStep(p) \/ DeployStep(p) \/ DeleteStep(p)

LEMMA Frame ==
  ASSUME TypeOK, NEW p \in Processes, Starts(p) \/ Works(p), NEW q \in Processes, q # p
  PROVE  Same(q)
<1>1. CASE Starts(p)
  BY <1>1 DEF TypeOK, ProcessType, Same, Starts, Start
<1>2. CASE LoopStep(p)
  BY <1>2 DEF TypeOK, ProcessType, Same, LoopStep, Die, FailStart, FailTask, Enrich, Check, End,
              Forget, Exit, EndTask, NextCluster, GoTo
<1>3. CASE WipeStep(p)
  BY <1>3 DEF TypeOK, ProcessType, Same, WipeStep, WipeDisks, ReadAnnotation, WipeNode, AddWiped, GoTo
<1>4. CASE LabelStep(p)
  BY <1>4 DEF TypeOK, ProcessType, Same, LabelStep, LabelNodes, ListNodes, Label
<1>5. CASE DeployStep(p)
  BY <1>5 DEF TypeOK, ProcessType, Same, DeployStep, Apply, WaitVolume, WaitLVMCluster,
              WaitStorageCluster, WaitBackingStore, ResizeBackingStore, WaitStorageClass,
              MarkDefault, EndTask, Exit, NextCluster, GoTo
<1>6. CASE DeleteStep(p)
  BY <1>6 DEF TypeOK, ProcessType, Same, DeleteStep, DeleteUser, DeleteObjects, DeleteWiped,
              DeleteCRDs, EndTask, Exit, NextCluster, GoTo
<1> QED
  BY <1>1, <1>2, <1>3, <1>4, <1>5, <1>6 DEF Works

LEMMA Grows ==
  ASSUME TypeOK, World \/ \E p \in Processes : Starts(p) \/ Works(p)
  PROVE  /\ \A c \in Clusters : spoiled[c] \subseteq spoiled'[c]
         /\ Overlapped => Overlapped'
<1>1. \A c \in Clusters : spoiled[c] \subseteq spoiled'[c]
  <2>1. ASSUME NEW d \in Clusters, NEW why, Spoil(d, why)
        PROVE  \A c \in Clusters : spoiled[c] \subseteq spoiled'[c]
    BY <2>1 DEF TypeOK, Spoil
  <2>2. ASSUME UNCHANGED spoiled
        PROVE  \A c \in Clusters : spoiled[c] \subseteq spoiled'[c]
    BY <2>2
  <2>3. CASE World
    <3>1. UNCHANGED spoiled \/ \E d \in Clusters, why \in {"joined"} : Spoil(d, why)
      BY <2>3 DEF World, Join, Take, Progress, Recover, CreateStore, CreateClass
    <3> QED
      BY <2>1, <2>2, <3>1
  <2>4. ASSUME NEW p \in Processes, Starts(p)
        PROVE  \A c \in Clusters : spoiled[c] \subseteq spoiled'[c]
    BY <2>4 DEF Starts, Start
  <2>5. ASSUME NEW p \in Processes, Works(p)
        PROVE  \A c \in Clusters : spoiled[c] \subseteq spoiled'[c]
    <3>0. cluster[p] \in Clusters
      BY DEF TypeOK, ProcessType
    <3>1. CASE LoopStep(p)
      <4>1. UNCHANGED spoiled \/ Cut(p)
        BY <3>1 DEF LoopStep, Die, FailStart, FailTask, Enrich, Check, End
      <4> QED
        BY <3>0, <4>1, <2>2 DEF Cut, TypeOK
    <3>2. CASE WipeStep(p) \/ LabelStep(p) \/ DeployStep(p) \/ DeleteStep(p)
      <4>1. UNCHANGED spoiled \/ Spoil(cluster[p], "script") \/ Spoil(cluster[p], "shared")
        BY <3>2 DEF WipeStep, LabelStep, DeployStep, DeleteStep, WipeDisks, ReadAnnotation,
                    WipeNode, AddWiped, LabelNodes, ListNodes, Label, Apply, WaitVolume,
                    WaitLVMCluster, WaitStorageCluster, WaitBackingStore, ResizeBackingStore,
                    WaitStorageClass, MarkDefault, DeleteUser, DeleteObjects, DeleteWiped, DeleteCRDs
      <4> QED
        BY <3>0, <4>1, <2>1, <2>2
    <3> QED
      BY <2>5, <3>1, <3>2 DEF Works
  <2> QED
    BY <2>3, <2>4, <2>5
<1> QED
  BY <1>1 DEF Overlapped

LEMMA Cases ==
  ASSUME TypeOK, Next
  PROVE  World \/ \E p \in Processes : Starts(p) \/ Works(p)
BY NextCases DEF Starts, Works, LoopStep, WipeStep, LabelStep, DeployStep, DeleteStep

\* A process that works is not idle, and without overlaps the others are.
LEMMA BusyWorks ==
  ASSUME NEW p \in Processes, Works(p)
  PROVE  pc[p] # "idle"
BY DEF Works, LoopStep, WipeStep, LabelStep, DeployStep, DeleteStep, Die, FailStart, FailTask,
       Enrich, Check, End, WipeDisks, ReadAnnotation, WipeNode, AddWiped, LabelNodes, ListNodes,
       Label, Apply, WaitVolume, WaitLVMCluster, WaitStorageCluster, WaitBackingStore,
       ResizeBackingStore, WaitStorageClass, MarkDefault, DeleteUser, DeleteObjects, DeleteWiped,
       DeleteCRDs, Running

LEMMA AloneNext ==
  ASSUME TypeOK, Alone, World \/ \E p \in Processes : Starts(p) \/ Works(p)
  PROVE  Alone'
<1>1. CASE World
  <2>1. UNCHANGED pc
    BY <1>1 DEF World, Join, Take, Progress, Recover, CreateStore, CreateClass, process
  <2> QED
    BY <1>1, <2>1, Grows DEF Alone
<1>2. ASSUME NEW p \in Processes, Works(p) PROVE Alone'
  BY <1>2, Frame, Grows, BusyWorks DEF Alone, Same
<1>3. ASSUME NEW p \in Processes, Starts(p) PROVE Alone'
  <2>1. CASE Busy = {}
    <3>1. \A q \in Processes : q # p => pc'[q] = "idle"
      BY <1>3, <2>1, Frame DEF Same, Busy
    <3> QED
      BY <3>1 DEF Alone
  <2>2. CASE Busy # {}
    <3>1. spoiled' = [c \in Clusters |-> spoiled[c] \union {"overlap"}]
      BY <1>3, <2>2 DEF Starts, Start
    <3>2. Overlapped'
      BY <3>1, StorageNumbers DEF Overlapped
    <3> QED
      BY <3>2 DEF Alone
  <2> QED
    BY <2>1, <2>2
<1> QED
  BY <1>1, <1>2, <1>3

-----------------------------------------------------------------------------
(* The loop over the clusters and the exit codes. *)

LEMMA ForgetLoop ==
  ASSUME TypeOK, NEW p \in Processes, Forget(p)
  PROVE  LoopInv(p)' /\ ExitOK(p)'
BY StorageNumbers DEF TypeOK, ProcessType, Forget, LoopInv, ExitOK, Strict

LEMMA EndTaskLoop ==
  ASSUME TypeOK, NEW p \in Processes, LoopInv(p), pc[p] # "done", NEW how \in {"ok", "failed"},
         EndTask(p, how), how = "ok" => ~ Strict(p)
  PROVE  LoopInv(p)' /\ ExitOK(p)'
<1>0. /\ cluster[p] \in Clusters /\ Strict(p)' = Strict(p)
      /\ exit[p] = "none" /\ p \in DOMAIN exit /\ p \in DOMAIN pc
      /\ outcome' = [outcome EXCEPT ![p][cluster[p]] = how]
  BY DEF TypeOK, ProcessType, Strict, EndTask, Exit, NextCluster, LoopInv
<1>1. \A c \in Clusters : outcome'[p][c] = IF c = cluster[p] THEN how ELSE outcome[p][c]
  BY <1>0 DEF TypeOK, ProcessType
<1>2. \A c \in Clusters : outcome'[p][c] = "none" <=> c > cluster[p]
  BY <1>0, <1>1, StorageNumbers DEF LoopInv
<1>3. CASE how = "failed" /\ Strict(p)
  <2>1. pc'[p] = "done" /\ exit'[p] = "1" /\ cluster[p] = 1
    BY <1>0, <1>3 DEF EndTask, Exit, TypeOK, ProcessType, LoopInv
  <2>2. \A c \in Clusters : outcome'[p][c] = IF c < 1 THEN "ok" ELSE IF c = 1 THEN "failed" ELSE "none"
    BY <1>1, <1>2, <1>3, <2>1, StorageNumbers
  <2>3. \A c \in Clusters : outcome'[p][c] # "ok"
    BY <2>2, StorageNumbers
  <2> QED
    BY <1>0, <1>3, <2>1, <2>2, <2>3, StorageNumbers DEF LoopInv, ExitOK
<1>4. CASE ~ (how = "failed" /\ Strict(p)) /\ cluster[p] < NumClusters
  <2>1. pc'[p] = "check" /\ cluster'[p] = cluster[p] + 1 /\ exit'[p] = "none" /\ ~ Strict(p)
    BY <1>0, <1>4 DEF EndTask, NextCluster, TypeOK, ProcessType, LoopInv
  <2>2. \A c \in Clusters : outcome'[p][c] = "none" <=> c >= cluster'[p]
    BY <1>0, <1>2, <2>1, StorageNumbers
  <2> QED
    BY <1>0, <2>1, <2>2 DEF LoopInv, ExitOK
<1>5. CASE ~ (how = "failed" /\ Strict(p)) /\ ~ (cluster[p] < NumClusters)
  <2>1. pc'[p] = "done" /\ exit'[p] = "0" /\ ~ Strict(p)
    BY <1>0, <1>5 DEF EndTask, Exit, TypeOK, ProcessType, LoopInv
  <2>2. \A c \in Clusters : outcome'[p][c] # "none"
    BY <1>0, <1>2, <1>5, StorageNumbers
  <2> QED
    BY <1>0, <2>1, <2>2 DEF LoopInv, ExitOK
<1> QED
  BY <1>3, <1>4, <1>5

\* Any other step: the process moves within the task.
LEMMA MoveLoop ==
  ASSUME TypeOK, NEW p \in Processes, LoopInv(p), pc[p] \notin {"idle", "enrich", "done"},
         pc'[p] \notin {"idle", "enrich", "done"},
         /\ verb'[p] = verb[p] /\ op'[p] = op[p] /\ cluster'[p] = cluster[p]
         /\ outcome'[p] = outcome[p] /\ exit'[p] = exit[p]
  PROVE  LoopInv(p)' /\ ExitOK(p)'
BY DEF LoopInv, ExitOK, Strict

LEMMA LoopNext ==
  ASSUME TypeOK, NEW p \in Processes, LoopInv(p), ExitOK(p), Starts(p) \/ Works(p)
  PROVE  LoopInv(p)' /\ ExitOK(p)'
<1>0. cluster[p] \in Clusters /\ p \in DOMAIN pc
  BY DEF TypeOK, ProcessType
<1>1. CASE Starts(p)
  <2>1. /\ pc[p] = "idle" /\ pc'[p] = "enrich"
        /\ cluster'[p] = cluster[p] /\ outcome'[p] = outcome[p] /\ exit'[p] = exit[p]
    BY <1>0, <1>1 DEF Starts, Start
  <2>2. cluster[p] = 1 /\ exit[p] = "none" /\ \A c \in Clusters : outcome[p][c] = "none"
    BY <2>1, StorageNumbers DEF LoopInv
  <2> QED
    BY <2>1, <2>2, StorageNumbers DEF LoopInv, ExitOK
<1>2. CASE LoopStep(p)
  <2>1. CASE Die(p) \/ End(p)
    BY <2>1, ForgetLoop DEF Die, End
  <2>2. CASE FailStart(p)
    <3>1. /\ pc'[p] = "done" /\ exit'[p] = "1" /\ outcome' = outcome /\ verb' = verb /\ op' = op
          /\ cluster[p] = 1 /\ cluster' = cluster
      BY <2>2 DEF FailStart, Exit, LoopInv, TypeOK, ProcessType
    <3>2. \A c \in Clusters : outcome[p][c] = "none"
      BY <2>2, <3>1, StorageNumbers DEF LoopInv, FailStart
    <3> QED
      BY <3>1, <3>2 DEF LoopInv, ExitOK, Strict
  <2>3. CASE FailTask(p)
    BY <2>3, EndTaskLoop DEF FailTask
  <2>4. CASE Enrich(p)
    BY <1>0, <2>4 DEF Enrich, GoTo, LoopInv, ExitOK, Strict
  <2>5. CASE Check(p)
    <3>1. CASE EndTask(p, "failed")
      BY <2>5, <3>1, EndTaskLoop DEF Check
    <3>2. CASE \E place \in {"remove", "list", "annotation"} : GoTo(p, place)
      BY <1>0, <2>5, <3>2, MoveLoop DEF Check, GoTo
    <3> QED
      BY <2>5, <3>1, <3>2 DEF Check
  <2> QED
    BY <1>2, <2>1, <2>2, <2>3, <2>4, <2>5 DEF LoopStep
<1>3. CASE WipeStep(p)
  BY <1>0, <1>3, MoveLoop DEF WipeStep, WipeDisks, ReadAnnotation, WipeNode, AddWiped, GoTo
<1>4. CASE LabelStep(p)
  BY <1>0, <1>4, MoveLoop DEF LabelStep, LabelNodes, ListNodes, Label
<1>5. CASE DeployStep(p)
  <2>1. \/ EndTask(p, "failed")
        \/ EndTask(p, "ok") /\ op[p] # "lvmo"
        \/ \E place \in {"wait", "store", "resize", "class", "default"} : GoTo(p, place)
    <3>1. CASE Apply(p) \/ WaitVolume(p) \/ WaitLVMCluster(p) \/ WaitStorageCluster(p)
      BY <3>1 DEF Apply, WaitVolume, WaitLVMCluster, WaitStorageCluster, Running
    <3>2. CASE WaitBackingStore(p) \/ ResizeBackingStore(p) \/ WaitStorageClass(p) \/ MarkDefault(p)
      BY <3>2 DEF WaitBackingStore, ResizeBackingStore, WaitStorageClass, MarkDefault, TypeOK,
                  PlaceOK, Is
    <3> QED
      BY <1>5, <3>1, <3>2 DEF DeployStep
  <2>2. pc[p] \notin {"idle", "enrich", "done"}
    BY <1>5 DEF DeployStep, Apply, WaitVolume, WaitLVMCluster, WaitStorageCluster,
                WaitBackingStore, ResizeBackingStore, WaitStorageClass, MarkDefault, Running
  <2>3. CASE \E place \in {"wait", "store", "resize", "class", "default"} : GoTo(p, place)
    BY <1>0, <2>2, <2>3, MoveLoop DEF GoTo
  <2>4. CASE EndTask(p, "failed") \/ (EndTask(p, "ok") /\ op[p] # "lvmo")
    BY <2>2, <2>4, EndTaskLoop DEF Strict
  <2> QED
    BY <2>1, <2>3, <2>4
<1>6. CASE DeleteStep(p)
  <2>1. CASE DeleteObjects(p) \/ DeleteWiped(p)
    BY <1>0, <2>1, MoveLoop DEF DeleteObjects, DeleteWiped, GoTo
  <2>2. CASE DeleteCRDs(p)
    <3>1. \E how \in {"ok", "failed"} : EndTask(p, how)
      BY <2>2 DEF DeleteCRDs
    <3>2. ~ Strict(p) /\ pc[p] # "done"
      BY <1>6, <2>2 DEF DeleteStep, Strict, DeleteCRDs
    <3> QED
      BY <3>1, <3>2, EndTaskLoop
  <2> QED
    BY <1>6, <2>1, <2>2 DEF DeleteStep, DeleteUser
<1> QED
  BY <1>1, <1>2, <1>3, <1>4, <1>5, <1>6 DEF Works

-----------------------------------------------------------------------------
(* The annotation and the disks. *)

\* Without overlaps, the others are idle during a step of a process.
LEMMA OthersIdle ==
  ASSUME TypeOK, Alone, NEW p \in Processes, Starts(p) \/ Works(p)
  PROVE  \A q \in Processes : q # p => pc'[q] = "idle" \/ Overlapped'
<1>1. SUFFICES ASSUME NEW q \in Processes, q # p, pc'[q] # "idle" PROVE Overlapped'
  OBVIOUS
<1>2. pc[q] # "idle"
  BY <1>1, Frame DEF Same
<1>3. CASE Works(p)
  BY <1>1, <1>2, <1>3, BusyWorks, Grows DEF Alone
<1>4. CASE Starts(p)
  <2>1. spoiled' = [c \in Clusters |-> spoiled[c] \union {"overlap"}]
    BY <1>2, <1>4 DEF Starts, Start, Busy
  <2> QED
    BY <2>1, StorageNumbers DEF Overlapped
<1> QED
  BY <1>3, <1>4

\* A step that only moves the process, and not to where something is expected of the disks.
LEMMA QuietStep ==
  ASSUME TypeOK, NEW p \in Processes, NEW c \in Clusters, WipeInv(c), CleanInv(c),
         \A q \in Processes : q # p => pc'[q] = "idle" \/ Overlapped',
         Overlapped => Overlapped', spoiled[c] \subseteq spoiled'[c],
         UNCHANGED <<wiped, members, disk, object>>,
         pc'[p] \notin {"wipe", "annotate", "unannotate", "crds"},
         pc'[p] = "apply" => op'[p] \notin Users,
         pc[p] = "unannotate" => spoiled'[cluster[p]] # {},
         \A q \in Processes : q # p => Same(q)
  PROVE  WipeInv(c)' /\ CleanInv(c)'
<1>1. WipeInv(c)'
  BY DEF WipeInv
<1>2. CleanInv(c)'
  <2>1. SUFFICES ASSUME ~ Overlapped', spoiled'[c] = {} PROVE CleanInv(c)'
    BY DEF CleanInv
  <2>2. c \in wiped => CleanNodes(c, members[c])
    BY <2>1 DEF CleanInv, Same
  <2>3. c \in wiped' => CleanNodes(c, members[c])'
    BY <2>2 DEF CleanNodes
  <2> QED
    BY <2>1, <2>3 DEF CleanInv
<1> QED
  BY <1>1, <1>2

LEMMA WorldWipe ==
  ASSUME TypeOK, NEW c \in Clusters, WipeInv(c), CleanInv(c), World
  PROVE  WipeInv(c)' /\ CleanInv(c)'
<1>0. Overlapped => Overlapped'
  BY Grows
<1>1. UNCHANGED <<wiped, pc, op, cluster, left>>
  BY DEF World, Join, Take, Progress, Recover, CreateStore, CreateClass, process
<1>2. ASSUME UNCHANGED <<members, disk, spoiled>>,
             \A u \in Users : object[c][u] = "absent" <=> object'[c][u] = "absent"
      PROVE  WipeInv(c)' /\ CleanInv(c)'
  <2>1. WipeInv(c)'
    BY <1>0, <1>1, <1>2 DEF WipeInv
  <2>2. CleanInv(c)'
    BY <1>0, <1>1, <1>2 DEF CleanInv, CleanNodes
  <2> QED
    BY <2>1, <2>2
<1>3. ASSUME NEW d \in Clusters, NEW n \in Nodes, Join(d, n)
      PROVE  WipeInv(c)' /\ CleanInv(c)'
  <2>1. CASE d # c
    <3>1. members'[c] = members[c] /\ spoiled'[c] = spoiled[c] /\ UNCHANGED <<disk, object>>
      BY <1>3, <2>1 DEF Join, Spoil, TypeOK, HubType
    <3>2. WipeInv(c)'
      BY <1>0, <1>1, <3>1 DEF WipeInv
    <3>3. CleanInv(c)'
      BY <1>0, <1>1, <3>1 DEF CleanInv, CleanNodes
    <3> QED
      BY <3>2, <3>3
  <2>2. CASE d = c
    <3>1. spoiled'[c] = spoiled[c] \union {"joined"} /\ UNCHANGED <<disk, object>>
      BY <1>3, <2>2 DEF Join, Spoil, TypeOK
    <3>2. WipeInv(c)'
      BY <1>0, <1>1, <3>1 DEF WipeInv
    <3>3. CleanInv(c)'
      BY <3>1 DEF CleanInv
    <3> QED
      BY <3>2, <3>3
  <2> QED
    BY <2>1, <2>2
<1>4. ASSUME NEW d \in Clusters, NEW n \in Nodes, NEW o \in Users, Take(d, n, o)
      PROVE  WipeInv(c)' /\ CleanInv(c)'
  <2>0. UNCHANGED <<members, object, spoiled>>
    BY <1>4 DEF Take
  <2>1. \A m \in Nodes : disk'[c][m] = IF d = c /\ m = n THEN o ELSE disk[c][m]
    BY <1>4 DEF Take, TypeOK, HubType
  <2>2. WipeInv(c)'
    BY <1>0, <1>1, <1>4, <2>0, <2>1 DEF WipeInv, Take
  <2>3. CleanInv(c)'
    <3>1. SUFFICES ASSUME ~ Overlapped', spoiled'[c] = {} PROVE CleanInv(c)'
      BY DEF CleanInv
    <3>2. ~ Overlapped /\ spoiled[c] = {}
      BY <1>0, <2>0, <3>1
    <3>3. \A s \in SUBSET Nodes : CleanNodes(c, s) => CleanNodes(c, s)'
      BY <2>1 DEF CleanNodes, Users
    <3>4. ASSUME NEW p \in Processes, cluster[p] = c, pc[p] \in {"unannotate", "crds"}
          PROVE  d # c
      BY <1>4, <3>2, <3>4 DEF WipeInv, Take
    <3>5. members[c] \in SUBSET Nodes /\ members' = members
          /\ \A p \in Processes : (members[c] \ left[p]) \in SUBSET Nodes
      BY <2>0 DEF TypeOK, HubType
    <3>6. CleanNodes(c, members[c]) => CleanNodes(c, members[c])'
      BY <2>1, <3>5 DEF CleanNodes, Users
    <3>7. \A p \in Processes : CleanNodes(c, members[c] \ left[p]) =>
                                 CleanNodes(c, members[c] \ left[p])'
      BY <1>1, <2>1, <3>5 DEF CleanNodes, Users
    <3>8. c \in wiped' =>
            \/ CleanNodes(c, members[c])'
            \/ \E p \in Processes : pc'[p] = "unannotate" /\ cluster'[p] = c
      BY <1>1, <3>2, <3>6 DEF CleanInv
    <3>9. ASSUME NEW p \in Processes, cluster'[p] = c
          PROVE  /\ pc'[p] = "wipe" => CleanNodes(c, members[c] \ left[p])'
                 /\ pc'[p] = "annotate" => CleanNodes(c, members[c])'
                 /\ pc'[p] \in {"unannotate", "crds"} => \A m \in Nodes : disk'[c][m] \notin Users
      <4>1. pc'[p] = "wipe" => CleanNodes(c, members[c] \ left[p])'
        BY <1>1, <3>2, <3>7, <3>9 DEF CleanInv
      <4>2. pc'[p] = "annotate" => CleanNodes(c, members[c])'
        BY <1>1, <3>2, <3>6, <3>9 DEF CleanInv
      <4>3. pc'[p] \in {"unannotate", "crds"} => \A m \in Nodes : disk'[c][m] \notin Users
        BY <1>1, <2>1, <3>2, <3>4, <3>9 DEF CleanInv
      <4> QED
        BY <4>1, <4>2, <4>3
    <3> QED
      BY <3>8, <3>9 DEF CleanInv
  <2> QED
    BY <2>2, <2>3
<1>5. ASSUME NEW d \in Clusters, NEW o \in Objects, Progress(d, o) \/ Recover(d, o)
      PROVE  WipeInv(c)' /\ CleanInv(c)'
  <2>1. \E v \in {"ready", "error"} : object' = [object EXCEPT ![d][o] = v]
    BY <1>5 DEF Progress, Recover
  <2>2. object[d][o] # "absent" /\ UNCHANGED <<members, disk, spoiled>>
    BY <1>5 DEF Progress, Recover
  <2>3. \A u \in Users : object[c][u] = "absent" <=> object'[c][u] = "absent"
    BY <2>1, <2>2 DEF TypeOK, HubType, Users, Objects, Operators
  <2> QED
    BY <1>2, <2>2, <2>3
<1>6. ASSUME NEW d \in Clusters, CreateStore(d) PROVE WipeInv(c)' /\ CleanInv(c)'
  <2>1. \A u \in Users : object[c][u] = "absent" <=> object'[c][u] = "absent"
    BY <1>6 DEF CreateStore, TypeOK, HubType, Users, Objects, Operators
  <2> QED
    BY <1>2, <1>6, <2>1 DEF CreateStore
<1>7. ASSUME NEW d \in Clusters, NEW o, CreateClass(d, o) PROVE WipeInv(c)' /\ CleanInv(c)'
  BY <1>2, <1>7 DEF CreateClass
<1> QED
  BY <1>3, <1>4, <1>5, <1>6, <1>7 DEF World

\* A step of a process that works with another cluster.
LEMMA ElsewhereStep ==
  ASSUME TypeOK, NEW p \in Processes, NEW c \in Clusters, WipeInv(c), CleanInv(c),
         Overlapped => Overlapped', spoiled[c] \subseteq spoiled'[c],
         c \in wiped' <=> c \in wiped, members'[c] = members[c],
         disk'[c] = disk[c], object'[c] = object[c],
         cluster[p] # c,
         cluster'[p] = c => pc'[p] \notin {"wipe", "annotate", "apply", "unannotate", "crds"},
         \A q \in Processes : q # p => Same(q)
  PROVE  WipeInv(c)' /\ CleanInv(c)'
<1>1. WipeInv(c)'
  BY DEF WipeInv, Same
<1>2. CleanInv(c)'
  <2>1. SUFFICES ASSUME ~ Overlapped', spoiled'[c] = {} PROVE CleanInv(c)'
    BY DEF CleanInv
  <2>2. c \in wiped' =>
          CleanNodes(c, members[c]) \/ \E q \in Processes : pc'[q] = "unannotate" /\ cluster'[q] = c
    BY <2>1 DEF CleanInv, Same
  <2>3. c \in wiped' =>
          CleanNodes(c, members[c])' \/ \E q \in Processes : pc'[q] = "unannotate" /\ cluster'[q] = c
    BY <2>2 DEF CleanNodes
  <2>4. ASSUME NEW q \in Processes, cluster'[q] = c
        PROVE  /\ pc'[q] = "wipe" => CleanNodes(c, members[c] \ left[q])'
               /\ pc'[q] = "annotate" => CleanNodes(c, members[c])'
               /\ pc'[q] \in {"unannotate", "crds"} => \A m \in Nodes : disk'[c][m] \notin Users
    BY <2>1, <2>4 DEF CleanInv, CleanNodes, Same
  <2> QED
    BY <2>3, <2>4 DEF CleanInv
<1> QED
  BY <1>1, <1>2

LEMMA WipeStepWipe ==
  ASSUME TypeOK, NEW p \in Processes, NEW c \in Clusters, WipeInv(c), CleanInv(c), WipeStep(p),
         \A q \in Processes : q # p => pc'[q] = "idle" \/ Overlapped',
         Overlapped => Overlapped', spoiled[c] \subseteq spoiled'[c],
         \A q \in Processes : q # p => Same(q)
  PROVE  WipeInv(c)' /\ CleanInv(c)'
<1>0. /\ cluster' = cluster /\ op' = op /\ members' = members /\ object' = object
      /\ cluster[p] \in Clusters /\ p \in DOMAIN pc /\ p \in DOMAIN left /\ left[p] \subseteq Nodes
  BY DEF WipeStep, WipeDisks, ReadAnnotation, WipeNode, AddWiped, GoTo, TypeOK, ProcessType, hub
<1>1. CASE cluster[p] # c
  <2>1. c \in wiped' <=> c \in wiped
    BY <1>1 DEF WipeStep, WipeDisks, ReadAnnotation, WipeNode, AddWiped, AddAnnotation, hub
  <2>2. disk'[c] = disk[c]
    BY <1>1 DEF WipeStep, WipeDisks, ReadAnnotation, WipeNode, AddWiped, hub, TypeOK, HubType
  <2> QED
    BY <1>0, <1>1, <2>1, <2>2, ElsewhereStep
<1>2. CASE cluster[p] = c /\ ReadAnnotation(p)
  <2>0. UNCHANGED <<wiped, disk, spoiled>>
    BY <1>2 DEF ReadAnnotation, hub
  <2>1. CASE c \in wiped
    <3>1. pc'[p] = "apply" /\ pc[p] = "annotation"
      BY <1>0, <1>2, <2>1 DEF ReadAnnotation
    <3>2. WipeInv(c)'
      BY <1>0, <2>0, <2>1, <3>1 DEF WipeInv
    <3>3. CleanInv(c)'
      BY <1>0, <2>0, <3>1 DEF CleanInv, CleanNodes, Same
    <3> QED
      BY <3>2, <3>3
  <2>2. CASE c \notin wiped
    <3>1. /\ left'[p] = members[c]
          /\ pc'[p] \in {"wipe", "annotate"} /\ (pc'[p] = "annotate" => members[c] = {})
      BY <1>0, <1>2, <2>2 DEF ReadAnnotation
    <3>2. WipeInv(c)'
      BY <1>0, <2>0, <2>2, <3>1 DEF WipeInv
    <3>3. CleanNodes(c, {})' /\ members[c] \ left'[p] = {}
      BY <3>1 DEF CleanNodes
    <3>4. CleanInv(c)'
      BY <1>0, <2>0, <2>2, <3>1, <3>3 DEF CleanInv
    <3> QED
      BY <3>2, <3>4
  <2> QED
    BY <2>1, <2>2
<1>3. CASE cluster[p] = c /\ WipeNode(p)
  <2>1. PICK n \in Nodes :
          /\ n \in left[p]
          /\ \/ disk' = [disk EXCEPT ![c][n] = "clean"] /\ UNCHANGED spoiled
             \/ UNCHANGED disk /\ Spoil(c, "script")
          /\ left' = [left EXCEPT ![p] = @ \ {n}]
          /\ pc' = [pc EXCEPT ![p] = IF left[p] = {n} THEN "annotate" ELSE "wipe"]
    BY <1>3 DEF WipeNode, IsFirst
  <2>2. /\ wiped' = wiped /\ pc[p] = "wipe" /\ pc'[p] \in {"wipe", "annotate"}
        /\ left'[p] = left[p] \ {n} /\ (pc'[p] = "annotate" => left'[p] = {})
    BY <1>0, <1>3, <2>1 DEF WipeNode
  <2>3. \A m \in Nodes : disk'[c][m] = disk[c][m] \/ disk'[c][m] = "clean"
    BY <2>1 DEF TypeOK, HubType
  <2>4. WipeInv(c)'
    <3>1. \A m \in Nodes, u \in Users : disk'[c][m] = u => disk[c][m] = u
      BY <2>3 DEF Users
    <3> QED
      BY <1>0, <1>3, <2>2, <3>1 DEF WipeInv
  <2>5. CleanInv(c)'
    <3>1. SUFFICES ASSUME ~ Overlapped', spoiled'[c] = {} PROVE CleanInv(c)'
      BY DEF CleanInv
    <3>2. ~ Overlapped /\ spoiled[c] = {}
      BY <3>1
    <3>3. disk' = [disk EXCEPT ![c][n] = "clean"]
      BY <2>1, <3>1 DEF Spoil, TypeOK
    <3>4. CleanNodes(c, members[c] \ left[p]) /\ c \notin wiped
      BY <1>3, <2>2, <3>2 DEF CleanInv, WipeInv
    <3>5. disk'[c][n] = "clean" /\ members[c] \subseteq Nodes
      BY <3>3 DEF TypeOK, HubType
    <3>6. \A m \in members[c] \ left'[p] : disk'[c][m] # "old"
      BY <2>2, <2>3, <3>4, <3>5 DEF CleanNodes
    <3>7. CleanNodes(c, members[c] \ left[p])'
      BY <1>0, <3>6 DEF CleanNodes
    <3>8. pc'[p] = "annotate" => CleanNodes(c, members[c])'
      BY <1>0, <2>2, <3>6 DEF CleanNodes
    <3> QED
      BY <1>0, <1>3, <2>2, <3>1, <3>4, <3>7, <3>8 DEF CleanInv
  <2> QED
    BY <2>4, <2>5
<1>4. CASE cluster[p] = c /\ AddWiped(p)
  <2>1. /\ wiped' = wiped \union {c} /\ pc[p] = "annotate" /\ pc'[p] = "apply" /\ left' = left
        /\ UNCHANGED <<disk, spoiled>>
    BY <1>0, <1>4 DEF AddWiped, AddAnnotation, GoTo
  <2>2. WipeInv(c)'
    BY <1>0, <2>1 DEF WipeInv
  <2>3. CleanInv(c)'
    <3>1. SUFFICES ASSUME ~ Overlapped', spoiled'[c] = {} PROVE CleanInv(c)'
      BY DEF CleanInv
    <3>2. CleanNodes(c, members[c])
      BY <1>4, <2>1, <3>1 DEF CleanInv
    <3>3. CleanNodes(c, members[c])'
      BY <1>0, <2>1, <3>2 DEF CleanNodes
    <3> QED
      BY <2>1, <3>1, <3>3 DEF CleanInv
  <2> QED
    BY <2>2, <2>3
<1> QED
  BY <1>1, <1>2, <1>3, <1>4 DEF WipeStep, WipeDisks

LEMMA ApplyWipe ==
  ASSUME TypeOK, NEW p \in Processes, NEW c \in Clusters, WipeInv(c), CleanInv(c), Apply(p),
         \A q \in Processes : q # p => pc'[q] = "idle" \/ Overlapped',
         Overlapped => Overlapped', spoiled[c] \subseteq spoiled'[c],
         \A q \in Processes : q # p => Same(q)
  PROVE  WipeInv(c)' /\ CleanInv(c)'
<1> DEFINE o == op[p]
<1>0. /\ cluster' = cluster /\ op' = op /\ pc'[p] = "wait" /\ pc[p] = "apply"
      /\ UNCHANGED <<wiped, members, disk>>
      /\ cluster[p] \in Clusters /\ op[p] \in Operators /\ op[p] \in Objects
      /\ Users \subseteq Objects
  BY DEF Apply, GoTo, TypeOK, ProcessType, Objects, Operators
<1>1. CASE cluster[p] # c
  <2>1. object'[c] = object[c]
    BY <1>0, <1>1 DEF Apply, TypeOK, HubType
  <2> QED
    BY <1>0, <1>1, <2>1, ElsewhereStep
<1>2. CASE cluster[p] = c
  <2>1. CleanInv(c)'
    <3>1. SUFFICES ASSUME ~ Overlapped', spoiled'[c] = {} PROVE CleanInv(c)'
      BY DEF CleanInv
    <3>2. c \in wiped => CleanNodes(c, members[c])
      BY <1>0, <3>1 DEF CleanInv, Same
    <3>3. c \in wiped' => CleanNodes(c, members[c])'
      BY <1>0, <3>2 DEF CleanNodes
    <3> QED
      BY <1>0, <3>1, <3>3 DEF CleanInv
  <2>2. WipeInv(c)'
    <3>1. SUFFICES ASSUME ~ Overlapped', "shared" \notin spoiled'[c] PROVE WipeInv(c)'
      BY DEF WipeInv
    <3>2. ~ Overlapped /\ "shared" \notin spoiled[c]
      BY <3>1
    <3>3. o \in Users => c \in wiped
      BY <1>0, <1>2, <3>2 DEF WipeInv
    <3>4. o \in Users => \A u \in Users : u # o => object[c][u] = "absent"
      BY <1>2, <3>1 DEF Apply, Spoil, Other, TypeOK
    <3>5. \A u \in Users : u # o => object'[c][u] = object[c][u]
      BY <1>0, <1>2 DEF Apply, TypeOK, HubType
    <3>6. object[c][o] # "absent" => object'[c][o] # "absent"
      BY <1>0, <1>2 DEF Apply, TypeOK, HubType
    <3>7. \A u \in Users : object'[c][u] # "absent" => c \in wiped'
      BY <1>0, <3>2, <3>3, <3>4, <3>5 DEF WipeInv
    <3>8. \A n \in Nodes, u \in Users : disk'[c][n] = u => object'[c][u] # "absent"
      BY <1>0, <3>2, <3>5, <3>6 DEF WipeInv
    <3> QED
      BY <1>0, <3>1, <3>7, <3>8 DEF WipeInv
  <2> QED
    BY <2>1, <2>2
<1> QED
  BY <1>1, <1>2

LEMMA DeleteWipe ==
  ASSUME TypeOK, NEW p \in Processes, NEW c \in Clusters, WipeInv(c), CleanInv(c), DeleteStep(p),
         \A q \in Processes : q # p => pc'[q] = "idle" \/ Overlapped',
         Overlapped => Overlapped', spoiled[c] \subseteq spoiled'[c],
         \A q \in Processes : q # p => Same(q)
  PROVE  WipeInv(c)' /\ CleanInv(c)'
<1> DEFINE o == op[p]
<1>0. /\ cluster[p] \in Clusters /\ o \in Users /\ o \in Objects /\ Users \subseteq Objects
      /\ p \in DOMAIN pc /\ members' = members
      /\ pc'[p] \in {"unannotate", "crds", "check", "done"}
      /\ pc'[p] \in {"unannotate", "crds"} => cluster'[p] = cluster[p]
  BY DEF DeleteStep, DeleteUser, DeleteObjects, DeleteWiped, DeleteCRDs, DeleteCRDGroup, GoTo,
         EndTask, Exit, NextCluster, TypeOK, ProcessType, Objects, Operators, hub
<1>1. CASE cluster[p] # c
  <2>1. c \in wiped' <=> c \in wiped
    BY <1>1 DEF DeleteStep, DeleteUser, DeleteObjects, DeleteWiped, DeleteCRDs, DeleteCRDGroup,
                DeleteAnnotation, hub
  <2>2. disk'[c] = disk[c] /\ object'[c] = object[c]
    BY <1>0, <1>1 DEF DeleteStep, DeleteUser, DeleteObjects, DeleteWiped, DeleteCRDs,
                      DeleteCRDGroup, Remove, hub, TypeOK, HubType
  <2> QED
    BY <1>0, <1>1, <2>1, <2>2, ElsewhereStep
<1>r. ASSUME Remove(c, o), cluster[p] = c
      PROVE  /\ \A u \in Users : object'[c][u] = IF u = o THEN "absent" ELSE object[c][u]
             /\ \A n \in Nodes : disk'[c][n] = IF disk[c][n] = o THEN "old" ELSE disk[c][n]
  BY <1>0, <1>r DEF Remove, TypeOK, HubType
<1>2. CASE cluster[p] = c /\ DeleteObjects(p)
  <2>0. wiped' = wiped /\ pc'[p] = "unannotate" /\ cluster'[p] = c /\ Remove(c, o)
    BY <1>0, <1>2 DEF DeleteObjects, GoTo
  <2>1. SUFFICES ASSUME ~ Overlapped', "shared" \notin spoiled'[c]
                 PROVE  WipeInv(c)' /\ CleanInv(c)'
    BY DEF WipeInv, CleanInv
  <2>2. ~ Overlapped /\ "shared" \notin spoiled[c]
    BY <2>1
  <2>3. \A u \in Users : u # o => object[c][u] = "absent"
    BY <1>2, <2>1 DEF DeleteObjects, Spoil, Other, TypeOK
  <2>4. \A u \in Users : object'[c][u] = "absent"
    BY <1>2, <1>r, <2>0, <2>3
  <2>5. \A n \in Nodes : disk[c][n] \in Users => disk[c][n] = o
    BY <2>2, <2>3 DEF WipeInv
  <2>6. \A n \in Nodes : disk'[c][n] \notin Users
    BY <1>2, <1>r, <2>0, <2>5 DEF Users
  <2>7. WipeInv(c)'
    BY <1>0, <2>0, <2>1, <2>4, <2>6 DEF WipeInv
  <2>8. CleanInv(c)'
    BY <1>0, <2>0, <2>1, <2>6 DEF CleanInv
  <2> QED
    BY <2>7, <2>8
<1>3. CASE cluster[p] = c /\ DeleteWiped(p)
  <2>0. /\ c \notin wiped' /\ pc[p] = "unannotate" /\ pc'[p] = "crds"
        /\ UNCHANGED <<disk, object, spoiled, cluster>>
    BY <1>0, <1>3 DEF DeleteWiped, DeleteAnnotation, GoTo
  <2>1. WipeInv(c)'
    BY <1>3, <2>0 DEF WipeInv
  <2>2. CleanInv(c)'
    BY <1>3, <2>0 DEF CleanInv
  <2> QED
    BY <2>1, <2>2
<1>4. CASE cluster[p] = c /\ DeleteCRDs(p)
  <2>0. pc[p] = "crds" /\ pc'[p] \in {"check", "done"} /\ wiped' = wiped /\ spoiled' = spoiled
    BY <1>0, <1>4 DEF DeleteCRDs, DeleteCRDGroup, EndTask, Exit, NextCluster, hub
  <2>1. CASE UNCHANGED hub
    BY <1>0, <2>0, <2>1, QuietStep DEF hub
  <2>2. CASE Remove(c, o)
    <3>1. WipeInv(c)'
      <4>1. SUFFICES ASSUME ~ Overlapped', "shared" \notin spoiled'[c] PROVE WipeInv(c)'
        BY DEF WipeInv
      <4>2. ~ Overlapped /\ "shared" \notin spoiled[c]
        BY <4>1
      <4>3. \A u \in Users : object[c][u] = "absent"
        BY <1>4, <2>0, <4>2 DEF WipeInv
      <4>4. \A u \in Users : object'[c][u] = "absent"
        BY <1>4, <1>r, <2>2, <4>3
      <4>5. \A n \in Nodes, u \in Users : disk'[c][n] # u
        BY <1>0, <1>4, <1>r, <2>2, <4>2, <4>3 DEF WipeInv, Users
      <4> QED
        BY <2>0, <4>1, <4>4, <4>5 DEF WipeInv
    <3>2. CleanInv(c)'
      <4>1. SUFFICES ASSUME ~ Overlapped', spoiled'[c] = {} PROVE CleanInv(c)'
        BY DEF CleanInv
      <4>2. ~ Overlapped /\ spoiled[c] = {}
        BY <4>1
      <4>3. \A n \in Nodes : disk[c][n] \notin Users
        BY <1>4, <2>0, <4>2 DEF CleanInv
      <4>4. \A n \in Nodes : disk'[c][n] = disk[c][n]
        BY <1>0, <1>4, <1>r, <2>2, <4>3
      <4>5. c \in wiped => CleanNodes(c, members[c])
        BY <2>0, <4>1, <4>2 DEF CleanInv, Same
      <4>6. c \in wiped' => CleanNodes(c, members[c])'
        BY <1>0, <2>0, <4>4, <4>5 DEF CleanNodes, TypeOK, HubType
      <4> QED
        BY <2>0, <4>1, <4>6 DEF CleanInv
    <3> QED
      BY <3>1, <3>2
  <2> QED
    BY <1>4, <2>1, <2>2 DEF DeleteCRDs, DeleteCRDGroup
<1> QED
  BY <1>1, <1>2, <1>3, <1>4 DEF DeleteStep, DeleteUser

LEMMA WipeNext ==
  ASSUME TypeOK, Alone, \A c \in Clusters : WipeInv(c) /\ CleanInv(c),
         World \/ \E p \in Processes : Starts(p) \/ Works(p),
         NEW c \in Clusters
  PROVE  WipeInv(c)' /\ CleanInv(c)'
<1>0. (Overlapped => Overlapped') /\ spoiled[c] \subseteq spoiled'[c]
  BY Grows
<1>1. CASE World
  BY <1>1, WorldWipe
<1>2. ASSUME NEW p \in Processes, Starts(p) \/ Works(p)
      PROVE  WipeInv(c)' /\ CleanInv(c)'
  <2>0. /\ \A q \in Processes : q # p => pc'[q] = "idle" \/ Overlapped'
        /\ \A q \in Processes : q # p => Same(q)
        /\ cluster[p] \in Clusters /\ p \in DOMAIN pc
    BY <1>2, OthersIdle, Frame DEF TypeOK, ProcessType
  <2>1. CASE Starts(p)
    <3>1. UNCHANGED <<wiped, members, disk, object>> /\ pc[p] = "idle" /\ pc'[p] = "enrich"
      BY <2>0, <2>1 DEF Starts, Start, hub
    <3> QED
      BY <1>0, <2>0, <3>1, QuietStep
  <2>2. CASE LoopStep(p)
    <3>1. /\ UNCHANGED <<wiped, members, disk, object>>
          /\ pc'[p] \in {"idle", "done", "check", "remove", "list", "annotation"}
      BY <2>0, <2>2 DEF LoopStep, Die, FailStart, FailTask, Enrich, Check, End, Forget, Exit,
                        EndTask, NextCluster, GoTo, hub
    <3>2. pc[p] = "unannotate" => spoiled'[cluster[p]] # {}
      BY <2>0, <2>2 DEF LoopStep, Die, FailStart, FailTask, Enrich, Check, End, Cut, TypeOK
    <3> QED
      BY <1>0, <2>0, <3>1, <3>2, QuietStep
  <2>3. CASE WipeStep(p)
    BY <1>0, <2>0, <2>3, WipeStepWipe
  <2>4. CASE LabelStep(p)
    <3>1. /\ UNCHANGED <<wiped, members, disk, object>> /\ op' = op /\ op[p] \notin Users
          /\ pc'[p] \in {"apply", "label"} /\ pc[p] # "unannotate"
      BY <2>0, <2>4 DEF LabelStep, LabelNodes, ListNodes, Label, hub, Users
    <3> QED
      BY <1>0, <2>0, <3>1, QuietStep
  <2>5. CASE DeployStep(p) /\ ~ Apply(p)
    <3>1. UNCHANGED <<wiped, members, disk, object>> /\ pc[p] # "unannotate"
      BY <2>5 DEF DeployStep, WaitVolume, WaitLVMCluster, WaitStorageCluster, WaitBackingStore,
                  ResizeBackingStore, WaitStorageClass, MarkDefault, Running, hub
    <3>2. pc'[p] \in {"store", "resize", "class", "default", "check", "done"}
      BY <2>0, <2>5 DEF DeployStep, WaitVolume, WaitLVMCluster, WaitStorageCluster,
                        WaitBackingStore, ResizeBackingStore, WaitStorageClass, MarkDefault,
                        EndTask, Exit, NextCluster, GoTo
    <3> QED
      BY <1>0, <2>0, <3>1, <3>2, QuietStep
  <2>6. CASE Apply(p)
    BY <1>0, <2>0, <2>6, ApplyWipe
  <2>7. CASE DeleteStep(p)
    BY <1>0, <2>0, <2>7, DeleteWipe
  <2> QED
    BY <1>2, <2>1, <2>2, <2>3, <2>4, <2>5, <2>6, <2>7 DEF Works
<1> QED
  BY <1>1, <1>2

-----------------------------------------------------------------------------
(* What is done for ODF. *)

\* No command removes ODF or its class.
ODFStays(c) ==
  /\ object[c]["odf"] # "absent" => object'[c]["odf"] # "absent"
  /\ object[c]["odf"] = "ready" => object'[c]["odf"] = "ready"
  /\ "odf" \in defaults[c] => "odf" \in defaults'[c]

LEMMA ODFHub ==
  ASSUME TypeOK, World \/ \E p \in Processes : Starts(p) \/ Works(p)
  PROVE  sno' = sno /\ \A c \in Clusters : ODFStays(c)
<1>0. "odf" \in Objects /\ "odf" \notin Users
  BY DEF Objects, Operators, Users
<1>1. ASSUME UNCHANGED <<object, defaults>> PROVE \A c \in Clusters : ODFStays(c)
  BY <1>1 DEF ODFStays
<1>2. ASSUME NEW d \in Clusters, NEW o \in Users, Remove(d, o)
      PROVE  \A c \in Clusters : ODFStays(c)
  BY <1>0, <1>2 DEF Remove, ODFStays, TypeOK, HubType
<1>3. CASE World
  <2>1. sno' = sno
    BY <1>3 DEF World, Join, Take, Progress, Recover, CreateStore, CreateClass
  <2>2. UNCHANGED defaults
    BY <1>3 DEF World, Join, Take, Progress, Recover, CreateStore, CreateClass
  <2>3. \/ UNCHANGED object
        \/ \E d \in Clusters, o \in Objects, v \in {"pending", "ready", "error"} :
             object[d][o] # "ready" /\ object' = [object EXCEPT ![d][o] = v]
    BY <1>3 DEF World, Join, Take, Progress, Recover, CreateStore, CreateClass, Objects
  <2>4. ASSUME NEW d \in Clusters, NEW o \in Objects, NEW v \in {"pending", "ready", "error"},
               object[d][o] # "ready", object' = [object EXCEPT ![d][o] = v], NEW c \in Clusters
        PROVE  ODFStays(c)
    <3>1. CASE c = d /\ o = "odf"
      BY <1>0, <2>2, <2>4, <3>1 DEF ODFStays, TypeOK, HubType
    <3>2. CASE ~ (c = d /\ o = "odf")
      <4>1. object'[c]["odf"] = object[c]["odf"]
        BY <1>0, <2>4, <3>2 DEF TypeOK, HubType
      <4> QED
        BY <2>2, <4>1 DEF ODFStays
    <3> QED
      BY <3>1, <3>2
  <2> QED
    BY <1>1, <2>1, <2>2, <2>3, <2>4
<1>4. ASSUME NEW p \in Processes, Starts(p) \/ LoopStep(p)
      PROVE  sno' = sno /\ \A c \in Clusters : ODFStays(c)
  <2>1. UNCHANGED hub
    BY <1>4 DEF Starts, Start, LoopStep, Die, FailStart, FailTask, Enrich, Check, End, Forget
  <2> QED
    BY <1>1, <2>1 DEF hub
<1>5. ASSUME NEW p \in Processes, WipeStep(p) \/ LabelStep(p)
      PROVE  sno' = sno /\ \A c \in Clusters : ODFStays(c)
  <2>1. UNCHANGED <<sno, object, defaults>>
    BY <1>5 DEF WipeStep, WipeDisks, ReadAnnotation, WipeNode, AddWiped, LabelStep, LabelNodes,
                ListNodes, Label, hub
  <2> QED
    BY <1>1, <2>1
<1>6. ASSUME NEW p \in Processes, DeployStep(p)
      PROVE  sno' = sno /\ \A c \in Clusters : ODFStays(c)
  <2>0. cluster[p] \in Clusters /\ op[p] \in Objects
    BY DEF TypeOK, ProcessType, Objects
  <2>1. CASE Apply(p)
    <3>0. sno' = sno /\ defaults' = defaults
      BY <2>1 DEF Apply
    <3>1. CASE UNCHANGED object
      BY <1>1, <3>0, <3>1
    <3>2. CASE /\ object[cluster[p]][op[p]] = "absent"
               /\ object' = [object EXCEPT ![cluster[p]][op[p]] = "pending"]
      <4>1. ASSUME NEW c \in Clusters
            PROVE  \/ object'[c]["odf"] = object[c]["odf"]
                   \/ object[c]["odf"] = "absent" /\ object'[c]["odf"] = "pending"
        BY <1>0, <2>0, <3>2 DEF TypeOK, HubType
      <4> QED
        BY <3>0, <4>1 DEF ODFStays
    <3> QED
      BY <2>1, <3>1, <3>2 DEF Apply
  <2>2. CASE MarkDefault(p)
    <3>1. sno' = sno /\ object' = object
      BY <2>2 DEF MarkDefault
    <3>2. ASSUME NEW c \in Clusters PROVE defaults[c] \subseteq defaults'[c]
      BY <2>0, <2>2 DEF MarkDefault, TypeOK, HubType
    <3> QED
      BY <3>1, <3>2 DEF ODFStays
  <2>3. CASE ~ (Apply(p) \/ MarkDefault(p))
    <3>1. UNCHANGED hub
      BY <1>6, <2>3 DEF DeployStep, WaitVolume, WaitLVMCluster, WaitStorageCluster,
                        WaitBackingStore, ResizeBackingStore, WaitStorageClass
    <3> QED
      BY <1>1, <3>1 DEF hub
  <2> QED
    BY <2>1, <2>2, <2>3
<1>7. ASSUME NEW p \in Processes, DeleteStep(p)
      PROVE  sno' = sno /\ \A c \in Clusters : ODFStays(c)
  <2>1. cluster[p] \in Clusters /\ op[p] \in Users
    BY <1>7 DEF TypeOK, ProcessType, DeleteStep
  <2>2. sno' = sno
    BY <1>7 DEF DeleteStep, DeleteUser, DeleteObjects, DeleteWiped, DeleteCRDs, DeleteCRDGroup, hub
  <2>3. UNCHANGED <<object, defaults>> \/ Remove(cluster[p], op[p])
    BY <1>7 DEF DeleteStep, DeleteUser, DeleteObjects, DeleteWiped, DeleteCRDs, DeleteCRDGroup, hub
  <2> QED
    BY <1>1, <1>2, <2>1, <2>2, <2>3
<1> QED
  BY <1>3, <1>4, <1>5, <1>6, <1>7 DEF Works

\* The racks of the nodes of a process.
RacksInv(p) ==
  Overlapped \/ \A n \in listed[p] \ left[p] : racks[cluster[p]][n] = Position(n, listed[p])

LEMMA RacksSame ==
  ASSUME NEW p, RacksInv(p), Overlapped => Overlapped', UNCHANGED racks,
         listed'[p] = {} \/ (listed'[p] = listed[p] /\ left'[p] = left[p] /\ cluster'[p] = cluster[p])
  PROVE  RacksInv(p)'
<1>1. \A n, s : Position(n, s)' = Position(n, s)
  BY DEF Position
<1> QED
  BY <1>1 DEF RacksInv

\* The steps that go on within the task, or that end it, for what was done of ODF.
LEMMA ODFMove ==
  ASSUME TypeOK, NEW p \in Processes, ODFInv(p), RacksInv(p)',
         sno' = sno, \A c \in Clusters : ODFStays(c),
         /\ verb'[p] = verb[p] /\ op'[p] = op[p] /\ cluster'[p] = cluster[p]
         /\ listed'[p] = listed[p] /\ outcome'[p] = outcome[p],
         pc'[p] # "idle", pc'[p] # "label",
         Is(p, "create", "odf") /\ pc'[p] \in {"wait", "store", "resize", "class", "default"} =>
           object'[cluster[p]]["odf"] # "absent",
         pc'[p] \in {"store", "resize"} =>
           cluster[p] \in sno /\ object'[cluster[p]]["odf"] = "ready"
  PROVE  ODFInv(p)'
<1>1. Is(p, "create", "odf")' = Is(p, "create", "odf")
  BY DEF Is
<1>2. Is(p, "create", "odf") => \A c \in Clusters : outcome'[p][c] = "ok" =>
        object'[c]["odf"] # "absent" /\ (c \in sno \/ "odf" \in defaults'[c])
  BY DEF ODFInv, ODFStays
<1> QED
  BY <1>1, <1>2 DEF ODFInv, RacksInv

LEMMA ODFEndTask ==
  ASSUME TypeOK, NEW p \in Processes, ODFInv(p), RacksInv(p)',
         sno' = sno, \A c \in Clusters : ODFStays(c),
         NEW how \in {"ok", "failed"}, EndTask(p, how),
         Is(p, "create", "odf") /\ how = "ok" =>
           /\ object'[cluster[p]]["odf"] # "absent"
           /\ cluster[p] \in sno \/ "odf" \in defaults'[cluster[p]]
  PROVE  ODFInv(p)'
<1>1. /\ verb'[p] = verb[p] /\ op'[p] = op[p] /\ listed'[p] = {}
      /\ pc'[p] \in {"check", "done"} /\ cluster[p] \in Clusters
      /\ outcome' = [outcome EXCEPT ![p][cluster[p]] = how]
  BY DEF EndTask, Exit, NextCluster, TypeOK, ProcessType
<1>2. \A c \in Clusters : outcome'[p][c] = IF c = cluster[p] THEN how ELSE outcome[p][c]
  BY <1>1 DEF TypeOK, ProcessType
<1>3. Is(p, "create", "odf")' = Is(p, "create", "odf")
  BY <1>1 DEF Is
<1>4. Is(p, "create", "odf") => \A c \in Clusters : outcome'[p][c] = "ok" =>
        object'[c]["odf"] # "absent" /\ (c \in sno \/ "odf" \in defaults'[c])
  BY <1>2 DEF ODFInv, ODFStays
<1> QED
  BY <1>1, <1>3, <1>4 DEF ODFInv, RacksInv

\* A process that starts or ends has done nothing for ODF.
LEMMA ODFFresh ==
  ASSUME NEW p \in Processes, pc'[p] \notin {"label", "wait", "store", "resize", "class", "default"},
         listed'[p] = {}, \A c \in Clusters : outcome'[p][c] # "ok"
  PROVE  ODFInv(p)'
BY DEF ODFInv

LEMMA ODFSelf ==
  ASSUME TypeOK, NEW p \in Processes, ODFInv(p), LoopInv(p), Starts(p) \/ Works(p),
         Overlapped => Overlapped', sno' = sno, \A c \in Clusters : ODFStays(c)
  PROVE  ODFInv(p)'
<1>0. /\ RacksInv(p) /\ p \in DOMAIN pc /\ cluster[p] \in Clusters
      /\ op[p] \in Operators /\ op[p] \in Objects
  BY DEF ODFInv, RacksInv, TypeOK, ProcessType, Objects
<1>e. ASSUME NEW how \in {"ok", "failed"}, EndTask(p, how), UNCHANGED racks,
             Is(p, "create", "odf") /\ how = "ok" =>
               /\ object'[cluster[p]]["odf"] # "absent"
               /\ cluster[p] \in sno \/ "odf" \in defaults'[cluster[p]]
      PROVE  ODFInv(p)'
  <2>1. listed'[p] = {}
    BY <1>e DEF EndTask, Exit, NextCluster, TypeOK, ProcessType
  <2>2. RacksInv(p)'
    BY <2>1 DEF RacksInv
  <2> QED
    BY <1>e, <2>2, ODFEndTask
<1>g. ASSUME NEW place \in Places \ {"idle", "label"}, GoTo(p, place), UNCHANGED racks,
             Is(p, "create", "odf") /\ place \in {"wait", "store", "resize", "class", "default"} =>
               object'[cluster[p]]["odf"] # "absent",
             place \in {"store", "resize"} =>
               cluster[p] \in sno /\ object'[cluster[p]]["odf"] = "ready"
      PROVE  ODFInv(p)'
  <2>1. /\ pc'[p] = place
        /\ verb'[p] = verb[p] /\ op'[p] = op[p] /\ cluster'[p] = cluster[p]
        /\ listed'[p] = listed[p] /\ left'[p] = left[p] /\ outcome'[p] = outcome[p]
    BY <1>0, <1>g DEF GoTo
  <2>2. RacksInv(p)'
    BY <1>0, <1>g, <2>1, RacksSame
  <2> QED
    BY <1>g, <2>1, <2>2, ODFMove
<1>1. CASE Starts(p)
  <2>1. /\ pc[p] = "idle" /\ pc'[p] = "enrich" /\ listed'[p] = listed[p]
        /\ outcome'[p] = outcome[p]
    BY <1>0, <1>1 DEF Starts, Start
  <2>2. listed[p] = {} /\ \A c \in Clusters : outcome[p][c] = "none"
    BY <2>1, StorageNumbers DEF ODFInv, LoopInv
  <2> QED
    BY <2>1, <2>2, ODFFresh
<1>2. CASE LoopStep(p)
  <2>1. CASE Die(p) \/ End(p)
    <3>1. /\ pc'[p] = "idle" /\ listed'[p] = {} /\ \A c \in Clusters : outcome'[p][c] = "none"
      BY <2>1 DEF Die, End, Forget, TypeOK, ProcessType
    <3> QED
      BY <3>1, ODFFresh
  <2>2. CASE FailStart(p)
    <3>1. /\ pc[p] = "enrich" /\ pc'[p] = "done" /\ listed'[p] = {} /\ outcome' = outcome
      BY <2>2 DEF FailStart, Exit, TypeOK, ProcessType
    <3>2. \A c \in Clusters : outcome[p][c] = "none"
      BY <3>1, StorageNumbers DEF LoopInv
    <3> QED
      BY <3>1, <3>2, ODFFresh
  <2>3. CASE FailTask(p)
    BY <1>e, <2>3 DEF FailTask, hub
  <2>4. CASE Enrich(p)
    BY <1>g, <2>4 DEF Enrich, hub, Places
  <2>5. CASE Check(p)
    <3>1. CASE EndTask(p, "failed")
      BY <1>e, <2>5, <3>1 DEF Check, hub
    <3>2. ASSUME NEW place \in {"remove", "list", "annotation"}, GoTo(p, place) PROVE ODFInv(p)'
      BY <1>g, <2>5, <3>2 DEF Check, hub, Places
    <3> QED
      BY <2>5, <3>1, <3>2 DEF Check
  <2> QED
    BY <1>2, <2>1, <2>2, <2>3, <2>4, <2>5 DEF LoopStep
<1>3. CASE WipeStep(p)
  <2>1. listed[p] = {} /\ ~ Is(p, "create", "odf")
    BY <1>3 DEF WipeStep, ODFInv, Users, Is
  <2>2. /\ verb'[p] = verb[p] /\ op'[p] = op[p] /\ cluster'[p] = cluster[p]
        /\ listed'[p] = listed[p] /\ outcome'[p] = outcome[p]
        /\ pc'[p] \in {"apply", "wipe", "annotate"}
    BY <1>0, <1>3 DEF WipeStep, WipeDisks, ReadAnnotation, WipeNode, AddWiped, GoTo
  <2>3. RacksInv(p)'
    BY <2>1, <2>2 DEF RacksInv
  <2> QED
    BY <2>1, <2>2, <2>3, ODFMove
<1>4. CASE LabelStep(p)
  <2>0. op[p] = "odf" /\ op'[p] = "odf" /\ Is(p, "create", "odf") /\ Is(p, "create", "odf")'
    BY <1>4 DEF LabelStep, Is, LabelNodes, ListNodes, Label
  <2>1. \A c \in Clusters : outcome'[p][c] = "ok" =>
          object'[c]["odf"] # "absent" /\ (c \in sno' \/ "odf" \in defaults'[c])
    BY <1>4, <2>0 DEF LabelStep, LabelNodes, ListNodes, Label, ODFInv, ODFStays
  <2>2. pc'[p] \in {"apply", "label"}
    BY <1>0, <1>4 DEF LabelStep, LabelNodes, ListNodes, Label
  <2>3. CASE ListNodes(p)
    <3>1. left'[p] = listed'[p] /\ listed'[p] \ left'[p] = {}
      BY <2>3 DEF ListNodes, TypeOK, ProcessType
    <3> QED
      BY <2>0, <2>1, <2>2, <3>1 DEF ODFInv
  <2>4. CASE Label(p)
    <3>1. PICK n \in Nodes :
            /\ n \in left[p] /\ left' = [left EXCEPT ![p] = @ \ {n}]
            /\ racks' = [racks EXCEPT ![cluster[p]][n] = Position(n, listed[p])]
      BY <2>4 DEF Label, IsFirst, AddLabels
    <3>2. /\ pc[p] = "label" /\ listed' = listed /\ cluster' = cluster /\ left'[p] = left[p] \ {n}
          /\ left[p] \subseteq listed[p] /\ UNCHANGED spoiled
      BY <2>4, <3>1 DEF Label, ODFInv, TypeOK, ProcessType
    <3>3. /\ \A m \in Nodes : m # n => racks'[cluster[p]][m] = racks[cluster[p]][m]
          /\ racks'[cluster[p]][n] = Position(n, listed[p])
      BY <1>0, <3>1 DEF TypeOK, HubType
    <3>4. listed[p] \subseteq Nodes
      BY DEF TypeOK, ProcessType
    <3>5. ~ Overlapped' =>
             \A m \in listed[p] \ left'[p] : racks'[cluster[p]][m] = Position(m, listed[p])
      <4>1. Overlapped' <=> Overlapped
        BY <3>2 DEF Overlapped
      <4> QED
        BY <1>0, <3>2, <3>3, <3>4, <4>1 DEF RacksInv
    <3>6. RacksInv(p)'
      BY <3>2, <3>5 DEF RacksInv, Position
    <3> QED
      BY <2>0, <2>1, <2>2, <3>2, <3>6 DEF ODFInv, RacksInv
  <2> QED
    BY <1>4, <2>3, <2>4 DEF LabelStep, LabelNodes
<1>5. CASE DeployStep(p)
  <2>1. CASE Apply(p)
    <3>1. GoTo(p, "wait") /\ UNCHANGED racks
      BY <2>1 DEF Apply
    <3>2. op[p] = "odf" => object'[cluster[p]]["odf"] # "absent"
      BY <1>0, <2>1 DEF Apply, TypeOK, HubType
    <3> QED
      BY <1>g, <3>1, <3>2 DEF Is, Places
  <2>2. CASE WaitVolume(p) \/ WaitLVMCluster(p)
    <3>1. UNCHANGED racks /\ op[p] # "odf" /\ (EndTask(p, "ok") \/ EndTask(p, "failed"))
      BY <2>2 DEF WaitVolume, WaitLVMCluster, Running, hub
    <3> QED
      BY <1>e, <3>1 DEF Is
  <2>3. CASE WaitStorageCluster(p)
    <3>1. UNCHANGED <<racks, object>>
      BY <2>3 DEF WaitStorageCluster, hub
    <3>2. CASE EndTask(p, "failed")
      BY <1>e, <3>1, <3>2
    <3>3. CASE object[cluster[p]]["odf"] = "ready" /\ cluster[p] \in sno /\ GoTo(p, "store")
      BY <1>g, <3>1, <3>3 DEF Places
    <3>4. CASE object[cluster[p]]["odf"] = "ready" /\ GoTo(p, "class")
      BY <1>g, <3>1, <3>4 DEF Places
    <3> QED
      BY <2>3, <3>2, <3>3, <3>4 DEF WaitStorageCluster
  <2>4. CASE WaitBackingStore(p)
    <3>1. UNCHANGED <<racks, object>> /\ pc[p] = "store"
      BY <2>4 DEF WaitBackingStore, hub
    <3>2. CASE EndTask(p, "failed")
      BY <1>e, <3>1, <3>2
    <3>3. CASE GoTo(p, "resize")
      BY <1>g, <3>1, <3>3 DEF Places, ODFInv
    <3> QED
      BY <2>4, <3>2, <3>3 DEF WaitBackingStore
  <2>5. CASE ResizeBackingStore(p)
    <3>1. UNCHANGED <<racks, object>> /\ pc[p] = "resize"
      BY <2>5 DEF ResizeBackingStore, hub
    <3>2. object[cluster[p]]["odf"] # "absent" /\ cluster[p] \in sno
      BY <3>1 DEF ODFInv
    <3>3. \E how \in {"ok", "failed"} : EndTask(p, how)
      BY <2>5 DEF ResizeBackingStore
    <3> QED
      BY <1>e, <3>1, <3>2, <3>3
  <2>6. CASE WaitStorageClass(p)
    <3>1. UNCHANGED <<racks, object>> /\ pc[p] = "class" /\ GoTo(p, "default")
      BY <2>6 DEF WaitStorageClass, hub
    <3> QED
      BY <1>g, <3>1 DEF Places, ODFInv
  <2>7. CASE MarkDefault(p)
    <3>1. UNCHANGED <<racks, object>> /\ pc[p] = "default" /\ op[p] = "odf"
      BY <2>7 DEF MarkDefault, TypeOK, PlaceOK, Is
    <3>2. CASE EndTask(p, "failed")
      BY <1>e, <3>1, <3>2
    <3>3. CASE defaults' = [defaults EXCEPT ![cluster[p]] = @ \union {op[p]}] /\ EndTask(p, "ok")
      <4>1. "odf" \in defaults'[cluster[p]]
        BY <1>0, <3>1, <3>3 DEF TypeOK, HubType
      <4>2. Is(p, "create", "odf") => object[cluster[p]]["odf"] # "absent"
        BY <3>1 DEF ODFInv
      <4> QED
        BY <1>e, <3>1, <3>3, <4>1, <4>2
    <3> QED
      BY <2>7, <3>2, <3>3 DEF MarkDefault
  <2> QED
    BY <1>5, <2>1, <2>2, <2>3, <2>4, <2>5, <2>6, <2>7 DEF DeployStep
<1>6. CASE DeleteStep(p)
  <2>0. ~ Is(p, "create", "odf")
    BY <1>6 DEF DeleteStep, Is
  <2>1. UNCHANGED racks
    BY <1>6 DEF DeleteStep, DeleteUser, DeleteObjects, DeleteWiped, DeleteCRDs, DeleteCRDGroup, hub
  <2>2. \/ GoTo(p, "unannotate") \/ GoTo(p, "crds") \/ EndTask(p, "ok") \/ EndTask(p, "failed")
    BY <1>6 DEF DeleteStep, DeleteUser, DeleteObjects, DeleteWiped, DeleteCRDs
  <2> QED
    BY <1>e, <1>g, <2>0, <2>1, <2>2 DEF Places
<1> QED
  BY <1>1, <1>2, <1>3, <1>4, <1>5, <1>6 DEF Works

LEMMA ODFNext ==
  ASSUME TypeOK, Alone, \A p \in Processes : ODFInv(p) /\ LoopInv(p),
         World \/ \E p \in Processes : Starts(p) \/ Works(p),
         NEW q \in Processes
  PROVE  ODFInv(q)'
<1>0. (Overlapped => Overlapped') /\ sno' = sno /\ \A c \in Clusters : ODFStays(c)
  BY Grows, ODFHub
<1>1. ASSUME Same(q), UNCHANGED racks \/ pc'[q] = "idle" \/ Overlapped' PROVE ODFInv(q)'
  <2>1. RacksInv(q)'
    <3>1. CASE UNCHANGED racks
      BY <1>0, <1>1, <3>1, RacksSame DEF ODFInv, RacksInv, Same
    <3>2. CASE pc'[q] = "idle"
      BY <1>1, <3>2 DEF ODFInv, RacksInv, Same
    <3>3. CASE Overlapped'
      BY <3>3 DEF RacksInv
    <3> QED
      BY <1>1, <3>1, <3>2, <3>3
  <2>2. Is(q, "create", "odf")' = Is(q, "create", "odf")
    BY <1>1 DEF Is, Same
  <2>3. cluster[q] \in Clusters
    BY DEF TypeOK, ProcessType
  <2> QED
    BY <1>0, <1>1, <2>1, <2>2, <2>3 DEF ODFInv, RacksInv, ODFStays, Same
<1>2. CASE World
  <2>1. Same(q) /\ UNCHANGED racks
    BY <1>2 DEF World, Join, Take, Progress, Recover, CreateStore, CreateClass, process, Same
  <2> QED
    BY <1>1, <2>1
<1>3. ASSUME NEW p \in Processes, Starts(p) \/ Works(p) PROVE ODFInv(q)'
  <2>1. CASE p = q
    BY <1>0, <1>3, <2>1, ODFSelf
  <2>2. CASE p # q
    BY <1>1, <1>3, <2>2, Frame, OthersIdle
  <2> QED
    BY <2>1, <2>2
<1> QED
  BY <1>2, <1>3

LEMMA WaitsNext ==
  ASSUME TypeOK, Alone, \A p \in Processes : Waits(p),
         World \/ \E p \in Processes : Starts(p) \/ Works(p),
         NEW q \in Processes
  PROVE  Waits(q)'
<1>0. Overlapped => Overlapped'
  BY Grows
<1>1. CASE World
  <2>1. /\ UNCHANGED <<pc, cluster, op>>
        /\ \A c \in Clusters, o \in Objects : object[c][o] # "absent" => object'[c][o] # "absent"
    <3>1. UNCHANGED <<pc, cluster, op>>
      BY <1>1 DEF World, Join, Take, Progress, Recover, CreateStore, CreateClass, process
    <3>2. \/ UNCHANGED object
          \/ \E d \in Clusters, o \in Objects, v \in {"pending", "ready", "error"} :
               object' = [object EXCEPT ![d][o] = v]
      BY <1>1 DEF World, Join, Take, Progress, Recover, CreateStore, CreateClass, Objects
    <3>3. ASSUME NEW d \in Clusters, NEW o \in Objects, NEW v \in {"pending", "ready", "error"},
                 object' = [object EXCEPT ![d][o] = v], NEW c \in Clusters, NEW b \in Objects
          PROVE  object[c][b] # "absent" => object'[c][b] # "absent"
      BY <3>3 DEF TypeOK, HubType
    <3> QED
      BY <3>1, <3>2, <3>3
  <2>2. cluster[q] \in Clusters /\ op[q] \in Objects
    BY DEF TypeOK, ProcessType, Objects
  <2> QED
    BY <1>0, <2>1, <2>2 DEF Waits
<1>2. ASSUME NEW p \in Processes, Starts(p) \/ Works(p) PROVE Waits(q)'
  <2>1. CASE p # q
    BY <1>2, <2>1, OthersIdle DEF Waits
  <2>2. CASE Apply(q)
    <3>1. cluster[q] \in Clusters /\ op[q] \in Objects
      BY DEF TypeOK, ProcessType, Objects
    <3>2. object'[cluster[q]][op[q]] # "absent" /\ cluster' = cluster /\ op' = op
      BY <2>2, <3>1 DEF Apply, GoTo, TypeOK, HubType
    <3> QED
      BY <3>2 DEF Waits
  <2>3. CASE p = q /\ ~ Apply(q)
    <3>0. q \in DOMAIN pc
      BY DEF TypeOK, ProcessType
    <3>1. CASE Starts(q) \/ LoopStep(q)
      <4>1. pc'[q] # "wait"
        BY <3>0, <3>1 DEF Starts, Start, LoopStep, Die, FailStart, FailTask, Enrich, Check, End,
                          Forget, Exit, EndTask, NextCluster, GoTo
      <4> QED
        BY <4>1 DEF Waits
    <3>2. CASE WipeStep(q) \/ LabelStep(q) \/ DeleteStep(q)
      <4>1. pc'[q] # "wait"
        BY <3>0, <3>2 DEF WipeStep, WipeDisks, ReadAnnotation, WipeNode, AddWiped, LabelStep,
                          LabelNodes, ListNodes, Label, DeleteStep, DeleteUser, DeleteObjects,
                          DeleteWiped, DeleteCRDs, EndTask, Exit, NextCluster, GoTo
      <4> QED
        BY <4>1 DEF Waits
    <3>3. CASE DeployStep(q)
      <4>1. pc'[q] # "wait"
        BY <2>3, <3>0, <3>3 DEF DeployStep, WaitVolume, WaitLVMCluster, WaitStorageCluster,
                                WaitBackingStore, ResizeBackingStore, WaitStorageClass,
                                MarkDefault, EndTask, Exit, NextCluster, GoTo
      <4> QED
        BY <4>1 DEF Waits
    <3> QED
      BY <1>2, <2>3, <3>1, <3>2, <3>3 DEF Works
  <2> QED
    BY <2>1, <2>2, <2>3
<1> QED
  BY <1>1, <1>2

-----------------------------------------------------------------------------
(* The theorems. *)

LEMMA InvInit == Init => IInv
<1> SUFFICES ASSUME Init PROVE IInv
  OBVIOUS
<1>1. Alone /\ ExitCodes
  BY DEF Init, Alone, ExitCodes, ExitOK
<1>2. ASSUME NEW c \in Clusters PROVE WipeInv(c) /\ CleanInv(c)
  BY DEF Init, WipeInv, CleanInv, Users, Objects, Operators
<1>3. ASSUME NEW p \in Processes PROVE ODFInv(p) /\ LoopInv(p) /\ Waits(p)
  BY StorageNumbers DEF Init, ODFInv, LoopInv, Waits, Strict, Is
<1> QED
  BY <1>1, <1>2, <1>3 DEF IInv

LEMMA InvNext == TypeOK /\ IInv /\ [Next]_vars => IInv'
<1> SUFFICES ASSUME TypeOK, IInv, [Next]_vars PROVE IInv'
  OBVIOUS
<1>1. CASE Next
  <2>0. World \/ \E p \in Processes : Starts(p) \/ Works(p)
    BY <1>1, Cases
  <2>1. Alone'
    BY <2>0, AloneNext DEF IInv
  <2>2. \A c \in Clusters : WipeInv(c)' /\ CleanInv(c)'
    BY <2>0, WipeNext DEF IInv
  <2>3. \A p \in Processes : ODFInv(p)' /\ Waits(p)'
    BY <2>0, ODFNext, WaitsNext DEF IInv
  <2>4. ASSUME NEW q \in Processes PROVE LoopInv(q)' /\ ExitOK(q)'
    <3>1. ASSUME Same(q) PROVE LoopInv(q)' /\ ExitOK(q)'
      BY <3>1 DEF IInv, ExitCodes, LoopInv, ExitOK, Strict, Same
    <3>2. CASE World
      <4>1. Same(q)
        BY <3>2 DEF World, Join, Take, Progress, Recover, CreateStore, CreateClass, process, Same
      <4> QED
        BY <3>1, <4>1
    <3>3. ASSUME NEW p \in Processes, Starts(p) \/ Works(p) PROVE LoopInv(q)' /\ ExitOK(q)'
      BY <3>1, <3>3, Frame, LoopNext DEF IInv, ExitCodes
    <3> QED
      BY <2>0, <3>2, <3>3
  <2> QED
    BY <2>1, <2>2, <2>3, <2>4 DEF IInv, ExitCodes
<1>2. CASE UNCHANGED vars
  <2>1. UNCHANGED <<wiped, sno, members, disk, object, racks, classes, defaults, pc, verb, op,
                    cluster, listed, left, outcome, exit, runs, spoiled>>
    BY <1>2 DEF vars, hub, process
  <2>2. (Overlapped' <=> Overlapped) /\ Alone'
    BY <2>1 DEF IInv, Alone, Overlapped
  <2>3. ASSUME NEW c \in Clusters PROVE WipeInv(c)' /\ CleanInv(c)'
    <3>1. WipeInv(c) /\ CleanInv(c)
      BY DEF IInv
    <3> QED
      BY <2>1, <2>2, <3>1 DEF WipeInv, CleanInv, CleanNodes
  <2>4. ASSUME NEW p \in Processes PROVE ODFInv(p)' /\ LoopInv(p)' /\ Waits(p)' /\ ExitOK(p)'
    <3>1. ODFInv(p) /\ LoopInv(p) /\ Waits(p) /\ ExitOK(p)
      BY DEF IInv, ExitCodes
    <3>2. ODFInv(p)'
      BY <2>1, <2>2, <3>1 DEF ODFInv, Is, Position
    <3>3. LoopInv(p)' /\ Waits(p)' /\ ExitOK(p)'
      BY <2>1, <2>2, <3>1 DEF LoopInv, Waits, ExitOK, Strict
    <3> QED
      BY <3>2, <3>3
  <2> QED
    BY <2>2, <2>3, <2>4 DEF IInv, ExitCodes
<1> QED
  BY <1>1, <1>2

LEMMA StorageInvariant == Spec => [](TypeOK /\ IInv)
<1>1. Init => TypeOK /\ IInv
  BY TypeInit, InvInit
<1>2. TypeOK /\ IInv /\ [Next]_vars => (TypeOK /\ IInv)'
  BY TypeNext, InvNext
<1> QED
  BY <1>1, <1>2, PTL DEF Spec

\* What the exit code of a command tells of its clusters.
THEOREM StorageExitCodes == Spec => []ExitCodes
<1>1. TypeOK /\ IInv => ExitCodes
  BY DEF IInv
<1> QED
  BY <1>1, StorageInvariant, PTL

\* The racks are distinct, and what is done has its class.
THEOREM StorageODFDone == Spec => []ODFDone
<1>1. ASSUME TypeOK, IInv PROVE ODFDone
  <2>1. RacksDistinct
    <3>1. SUFFICES ASSUME NEW p \in Processes, NEW m \in listed[p] \ left[p],
                          NEW n \in listed[p] \ left[p], ~ Overlapped, m # n
                   PROVE  racks[cluster[p]][m] # racks[cluster[p]][n]
      BY DEF RacksDistinct
    <3>2. /\ racks[cluster[p]][m] = Position(m, listed[p])
          /\ racks[cluster[p]][n] = Position(n, listed[p])
      BY <1>1, <3>1 DEF IInv, ODFInv
    <3>3. listed[p] \in SUBSET Nodes
      BY <1>1 DEF TypeOK, ProcessType
    <3> QED
      BY <3>1, <3>2, <3>3, PositionsDiffer
  <2> QED
    BY <1>1, <2>1 DEF IInv, ODFInv, ODFDone
<1> QED
  BY <1>1, StorageInvariant, PTL

\* What a command waits for is there.
THEOREM StorageWaitsForExisting == Spec => []WaitsForExisting
<1>1. ASSUME TypeOK, IInv PROVE WaitsForExisting
  BY <1>1 DEF IInv, ODFInv, Waits, WaitsForExisting
<1> QED
  BY <1>1, StorageInvariant, PTL

\* How the contents of a disk change.
LEMMA DiskChanges ==
  ASSUME TypeOK, World \/ \E p \in Processes : Starts(p) \/ Works(p),
         NEW c \in Clusters, NEW n \in Nodes
  PROVE  \/ disk'[c][n] = disk[c][n]
         \/ disk'[c][n] = "old"
         \/ disk'[c][n] = "clean" /\ \E p \in Processes : cluster[p] = c /\ pc[p] = "wipe"
         \/ \E o \in Users : disk'[c][n] = o /\ object[c][o] # "absent" /\ n \in members[c]
<1>1. CASE World
  <2>1. \/ UNCHANGED disk
        \/ \E d \in Clusters, m \in Nodes, o \in Users :
             /\ object[d][o] # "absent" /\ m \in members[d]
             /\ disk' = [disk EXCEPT ![d][m] = o]
    BY <1>1 DEF World, Join, Take, Progress, Recover, CreateStore, CreateClass
  <2>2. ASSUME NEW d \in Clusters, NEW m \in Nodes, NEW o \in Users,
               disk' = [disk EXCEPT ![d][m] = o]
        PROVE  disk'[c][n] = IF c = d /\ n = m THEN o ELSE disk[c][n]
    BY <2>2 DEF TypeOK, HubType
  <2> QED
    BY <2>1, <2>2
<1>2. ASSUME NEW p \in Processes, Starts(p) \/ LoopStep(p) PROVE disk' = disk
  BY <1>2 DEF Starts, Start, LoopStep, Die, FailStart, FailTask, Enrich, Check, End, Forget, hub
<1>3. ASSUME NEW p \in Processes, WipeStep(p)
      PROVE  \/ disk' = disk
             \/ disk'[c][n] = disk[c][n]
             \/ disk'[c][n] = "clean" /\ cluster[p] = c /\ pc[p] = "wipe"
  <2>1. CASE WipeNode(p)
    <3>1. \/ UNCHANGED disk
          \/ pc[p] = "wipe" /\ \E m \in Nodes : disk' = [disk EXCEPT ![cluster[p]][m] = "clean"]
      BY <2>1 DEF WipeNode
    <3>2. cluster[p] \in Clusters
      BY DEF TypeOK, ProcessType
    <3>3. ASSUME NEW m \in Nodes, disk' = [disk EXCEPT ![cluster[p]][m] = "clean"]
          PROVE  disk'[c][n] = IF c = cluster[p] /\ n = m THEN "clean" ELSE disk[c][n]
      BY <3>2, <3>3 DEF TypeOK, HubType
    <3> QED
      BY <3>1, <3>3
  <2> QED
    BY <1>3, <2>1 DEF WipeStep, WipeDisks, ReadAnnotation, AddWiped, hub
<1>4. ASSUME NEW p \in Processes, LabelStep(p) \/ DeployStep(p) PROVE disk' = disk
  BY <1>4 DEF LabelStep, LabelNodes, ListNodes, Label, DeployStep, Apply, WaitVolume,
              WaitLVMCluster, WaitStorageCluster, WaitBackingStore, ResizeBackingStore,
              WaitStorageClass, MarkDefault, hub
<1>5. ASSUME NEW p \in Processes, DeleteStep(p)
      PROVE  disk'[c][n] = disk[c][n] \/ disk'[c][n] = "old"
  <2>1. disk' = disk \/ Remove(cluster[p], op[p])
    BY <1>5 DEF DeleteStep, DeleteUser, DeleteObjects, DeleteWiped, DeleteCRDs, DeleteCRDGroup, hub
  <2>2. cluster[p] \in Clusters
    BY DEF TypeOK, ProcessType
  <2> QED
    BY <2>1, <2>2 DEF Remove, TypeOK, HubType
<1> QED
  BY <1>1, <1>2, <1>3, <1>4, <1>5 DEF Works

\* The disks in use aren't wiped.
THEOREM StorageWipesOnlyFree == Spec => WipesOnlyFree
<1>1. ASSUME TypeOK, IInv, [Next]_vars, NEW c \in Clusters, NEW n \in Nodes,
             disk[c][n] \in Users, disk'[c][n] = "clean"
      PROVE  Overlapped \/ "shared" \in spoiled[c]
  <2>1. disk'[c][n] # disk[c][n]
    BY <1>1 DEF Users
  <2>2. World \/ \E p \in Processes : Starts(p) \/ Works(p)
    BY <1>1, <2>1, Cases DEF vars, hub
  <2>3. \E p \in Processes : cluster[p] = c /\ pc[p] = "wipe"
    BY <1>1, <2>1, <2>2, DiskChanges DEF Users
  <2> QED
    BY <1>1, <2>3 DEF IInv, WipeInv
<1>2. TypeOK /\ IInv /\ [Next]_vars =>
        [\A c \in Clusters, n \in Nodes :
           disk[c][n] \in Users /\ disk'[c][n] = "clean" =>
             Overlapped \/ "shared" \in spoiled[c]]_vars
  BY <1>1
<1> QED
  BY <1>2, StorageInvariant, PTL DEF Spec, WipesOnlyFree

\* The disks are clean when an operator starts to use them.
THEOREM StorageStartsClean == Spec => StartsClean
<1>1. ASSUME TypeOK, IInv, [Next]_vars, NEW c \in Clusters, NEW n \in Nodes,
             disk[c][n] = "old", disk'[c][n] \in Users, ~ Overlapped, spoiled[c] = {}
      PROVE  FALSE
  <2>1. disk'[c][n] # disk[c][n]
    BY <1>1 DEF Users
  <2>2. World \/ \E p \in Processes : Starts(p) \/ Works(p)
    BY <1>1, <2>1, Cases DEF vars, hub
  <2>3. PICK o \in Users : object[c][o] # "absent" /\ n \in members[c]
    BY <1>1, <2>1, <2>2, DiskChanges DEF Users
  <2>4. c \in wiped /\ ~ \E p \in Processes : pc[p] = "unannotate" /\ cluster[p] = c
    BY <1>1, <2>3 DEF IInv, WipeInv
  <2>5. CleanNodes(c, members[c])
    BY <1>1, <2>4 DEF IInv, CleanInv
  <2> QED
    BY <1>1, <2>3, <2>5 DEF CleanNodes
<1>2. TypeOK /\ IInv /\ [Next]_vars =>
        [\A c \in Clusters, n \in Nodes :
           disk[c][n] = "old" /\ disk'[c][n] \in Users => Overlapped \/ spoiled[c] # {}]_vars
  BY <1>1
<1> QED
  BY <1>2, StorageInvariant, PTL DEF Spec, StartsClean
=============================================================================
