-------------------------------- MODULE Storage --------------------------------
(***************************************************************************)
(* The storage commands, of ztp/internal/cmd/lso, lvmo and odf: the        *)
(* creation of the local storage operator, of the logical volume manager   *)
(* operator and of OpenShift Data Foundation, and the deletion of the first*)
(* two.  Each works with the clusters of the configuration one by one.     *)
(*                                                                         *)
(* The creation of LSO and of LVMO wipes the disks of the nodes, unless an *)
(* annotation in the hub, that both share, says that it was done before.   *)
(* ODF labels the nodes with racks, and waits for what it creates.         *)
(*                                                                         *)
(* Several commands may run at the same time, and each may be killed or    *)
(* fail at any point.  The details of the applier are in the module Applier*)
(* and those of the watches in RestartableWatch: no storage command has a  *)
(* deadline, so the channels of their watches are never closed.            *)
(***************************************************************************)
EXTENDS Integers, FiniteSets

CONSTANTS
  NumClusters,   \* the clusters of the configuration are numbered, in its order
  NumNodes,      \* the control plane nodes of each cluster are numbered, in the order of their
                 \* names; the commands neither wipe nor label the workers
  Initial,       \* the nodes that each cluster has at the start
  Installed,     \* the clusters whose kubeconfig is in the hub
  Processes,     \* that run the commands
  MaxRuns,       \* bound: commands run
  MaxOverlapped  \* bound: of those, the first ones may run at the same time

Clusters == 1 .. NumClusters
Nodes == 1 .. NumNodes

ASSUME StorageAssumption ==
  /\ NumClusters \in Nat \ {0}
  /\ NumNodes \in Nat \ {0}
  /\ Initial \in [Clusters -> SUBSET Nodes]
  /\ Installed \subseteq Clusters
  /\ MaxRuns \in Nat /\ MaxOverlapped \in Nat

Users == {"lso", "lvmo"}             \* the operators that use the disks
Operators == Users \union {"odf"}
Objects == Operators \union {"store"} \* the one that each creates, and the backing store of ODF
NoRack == -1

VARIABLES
  wiped,     \* hub: the clusters with the annotation that says that the disks were wiped
  sno,       \* the clusters that have one node for ever
  members,   \* the nodes of each cluster, in the configuration and in the cluster
  disk,      \* what is in the disks of each node: old data, nothing, or an operator
  object,    \* the state of the objects of each cluster
  racks,     \* the label with the rack of each node
  classes,   \* the operators whose storage class exists in each cluster
  defaults,  \* those whose storage class is marked as the default one
  pc,        \* what each process is doing
  verb, op,  \* the command that each process runs: create or delete, and what
  cluster,   \* the cluster that each process is working with
  listed,    \* the nodes that the process took from the cluster or the configuration
  left,      \* those that are still to be wiped or labelled
  outcome,   \* of the task of each cluster
  exit,      \* exit code of the command
  runs,      \* commands run so far
  spoiled    \* history: what happened to each cluster that the annotation doesn't tell

hub == <<wiped, sno, members, disk, object, racks, classes, defaults>>
process == <<pc, verb, op, cluster, listed, left, outcome, exit>>
vars == <<hub, process, runs, spoiled>>

-----------------------------------------------------------------------------
Init ==
  /\ wiped = {}
  /\ members = Initial
  /\ sno \in SUBSET {c \in Clusters : Cardinality(Initial[c]) = 1}
  /\ disk = [c \in Clusters |-> [n \in Nodes |-> "old"]]
  /\ object = [c \in Clusters |-> [o \in Objects |-> "absent"]]
  /\ racks = [c \in Clusters |-> [n \in Nodes |-> NoRack]]
  /\ classes = [c \in Clusters |-> {}] /\ defaults = [c \in Clusters |-> {}]
  /\ pc = [p \in Processes |-> "idle"]
  /\ verb = [p \in Processes |-> "create"] /\ op = [p \in Processes |-> "lso"]
  /\ cluster = [p \in Processes |-> 1]
  /\ listed = [p \in Processes |-> {}] /\ left = [p \in Processes |-> {}]
  /\ outcome = [p \in Processes |-> [c \in Clusters |-> "none"]]
  /\ exit = [p \in Processes |-> "none"]
  /\ runs = 0
  /\ spoiled = [c \in Clusters |-> {}]

Spoil(c, why) == spoiled' = [spoiled EXCEPT ![c] = @ \union {why}]
Overlapped == \E c \in Clusters : "overlap" \in spoiled[c]

IsFirst(n, s) == n \in s /\ \A m \in s : n <= m

-----------------------------------------------------------------------------
(* The clusters. *)

\* A node is added to the configuration and to the cluster, with old disks.
Join(c, n) ==
  /\ n \notin members[c] /\ c \notin sno
  /\ members' = [members EXCEPT ![c] = @ \union {n}]
  /\ Spoil(c, "joined")
  /\ UNCHANGED <<wiped, sno, disk, object, racks, classes, defaults, process, runs>>

\* An operator starts to use the disks of a node that no other uses.
Take(c, n, o) ==
  /\ object[c][o] # "absent" /\ n \in members[c] /\ disk[c][n] \notin Users
  /\ disk' = [disk EXCEPT ![c][n] = o]
  /\ UNCHANGED <<wiped, sno, members, object, racks, classes, defaults, process, runs, spoiled>>

\* An object is ready or, in the case of ODF, goes through an error.
Progress(c, o) ==
  /\ object[c][o] = "pending"
  /\ \/ object' = [object EXCEPT ![c][o] = "ready"]
     \/ /\ o \in {"odf", "store"}
        /\ object' = [object EXCEPT ![c][o] = "error"]
  /\ UNCHANGED <<wiped, sno, members, disk, racks, classes, defaults, process, runs, spoiled>>

Recover(c, o) ==
  /\ object[c][o] = "error"
  /\ object' = [object EXCEPT ![c][o] = "ready"]
  /\ UNCHANGED <<wiped, sno, members, disk, racks, classes, defaults, process, runs, spoiled>>

\* ODF creates its backing store in the clusters with one node, and the class in the others.
CreateStore(c) ==
  /\ c \in sno /\ object[c]["odf"] = "ready" /\ object[c]["store"] = "absent"
  /\ object' = [object EXCEPT ![c]["store"] = "pending"]
  /\ UNCHANGED <<wiped, sno, members, disk, racks, classes, defaults, process, runs, spoiled>>

CreateClass(c, o) ==
  /\ object[c][o] = "ready" /\ o \notin classes[c]
  /\ o = "lvmo" \/ (o = "odf" /\ c \notin sno)
  /\ classes' = [classes EXCEPT ![c] = @ \union {o}]
  /\ UNCHANGED <<wiped, sno, members, disk, object, racks, defaults, process, runs, spoiled>>

World ==
  \E c \in Clusters :
    \/ \E n \in Nodes : Join(c, n) \/ \E o \in Users : Take(c, n, o)
    \/ \E o \in Objects : Progress(c, o) \/ Recover(c, o)
    \/ CreateStore(c)
    \/ \E o \in {"lvmo", "odf"} : CreateClass(c, o)

-----------------------------------------------------------------------------
(* The requests of the client that change metadata: each is one merge patch, that replaces *)
(* the values that were there.                                                           *)

AddAnnotation(c) == wiped' = wiped \union {c}
DeleteAnnotation(c) == wiped' = wiped \ {c}
AddLabels(c, n, rack) == racks' = [racks EXCEPT ![c][n] = rack]

-----------------------------------------------------------------------------
(* The loop over the clusters, that is the same in all the commands. *)

Busy == {p \in Processes : pc[p] # "idle"}

\* The disks may be wiped by one command while another one deploys.
Start(p, v, o) ==
  /\ pc[p] = "idle" /\ runs < MaxRuns /\ (Busy # {} => runs < MaxOverlapped)
  /\ runs' = runs + 1
  /\ pc' = [pc EXCEPT ![p] = "enrich"]
  /\ verb' = [verb EXCEPT ![p] = v] /\ op' = [op EXCEPT ![p] = o]
  /\ spoiled' = IF Busy = {} THEN spoiled
                ELSE [c \in Clusters |-> spoiled[c] \union {"overlap"}]
  /\ UNCHANGED <<hub, cluster, listed, left, outcome, exit>>

\* Only the creation of LVMO stops at the first cluster that fails.
Strict(p) == verb[p] = "create" /\ op[p] = "lvmo"

Running(p, v, o, place) == pc[p] = place /\ verb[p] = v /\ op[p] = o

GoTo(p, place) ==
  /\ pc' = [pc EXCEPT ![p] = place]
  /\ UNCHANGED <<verb, op, cluster, listed, left, outcome, exit, runs>>

Exit(p, code) ==
  /\ pc' = [pc EXCEPT ![p] = "done"]
  /\ exit' = [exit EXCEPT ![p] = code]
  /\ listed' = [listed EXCEPT ![p] = {}] /\ left' = [left EXCEPT ![p] = {}]
  /\ UNCHANGED <<verb, op, cluster, runs>>

\* The memory of the command goes away with it.
Forget(p) ==
  /\ pc' = [pc EXCEPT ![p] = "idle"]
  /\ verb' = [verb EXCEPT ![p] = "create"] /\ op' = [op EXCEPT ![p] = "lso"]
  /\ cluster' = [cluster EXCEPT ![p] = 1]
  /\ outcome' = [outcome EXCEPT ![p] = [c \in Clusters |-> "none"]]
  /\ listed' = [listed EXCEPT ![p] = {}] /\ left' = [left EXCEPT ![p] = {}]
  /\ exit' = [exit EXCEPT ![p] = "none"]
  /\ UNCHANGED <<hub, runs>>

End(p) == pc[p] = "done" /\ Forget(p) /\ UNCHANGED spoiled

NextCluster(p) ==
  /\ pc' = [pc EXCEPT ![p] = "check"]
  /\ cluster' = [cluster EXCEPT ![p] = @ + 1]
  /\ listed' = [listed EXCEPT ![p] = {}] /\ left' = [left EXCEPT ![p] = {}]
  /\ UNCHANGED <<verb, op, exit, runs>>

\* Mutant of EndTask: the loop stops at the first failure, whatever the command.
EndTaskStops(p, how) ==
  /\ outcome' = [outcome EXCEPT ![p][cluster[p]] = how]
  /\ IF how = "failed" THEN Exit(p, "0")
     ELSE IF cluster[p] < NumClusters THEN NextCluster(p)
     ELSE Exit(p, "0")

\* Mutant of EndTask: it does one iteration too many.
EndTaskTooFar(p, how) ==
  /\ outcome' = [outcome EXCEPT ![p][cluster[p]] = how]
  /\ IF how = "failed" /\ Strict(p) THEN Exit(p, "1")
     ELSE IF cluster[p] <= NumClusters THEN NextCluster(p)
     ELSE Exit(p, "0")

\* The error of a task is only written to the console, except by the strict command.
EndTask(p, how) ==
  /\ outcome' = [outcome EXCEPT ![p][cluster[p]] = how]
  /\ IF how = "failed" /\ Strict(p) THEN Exit(p, "1")
     ELSE IF cluster[p] < NumClusters THEN NextCluster(p)
     ELSE Exit(p, "0")

\* The process is killed.  A deletion may have done half of its work.
Cut(p) == spoiled' = IF pc[p] = "unannotate"
                     THEN [spoiled EXCEPT ![cluster[p]] = @ \union {"cut"}] ELSE spoiled

Die(p) ==
  /\ pc[p] \notin {"idle", "done"}
  /\ Cut(p) /\ Forget(p)

\* The configuration can't be loaded or enriched.
FailStart(p) ==
  /\ pc[p] = "enrich"
  /\ Exit(p, "1")
  /\ UNCHANGED <<hub, outcome, spoiled>>

\* A check or a request of a task fails.
FailTask(p) ==
  /\ pc[p] \notin {"idle", "done", "enrich"}
  /\ Cut(p) /\ EndTask(p, "failed")
  /\ UNCHANGED hub

Enrich(p) ==
  /\ pc[p] = "enrich"
  /\ GoTo(p, "check")
  /\ UNCHANGED <<hub, spoiled>>

\* The kubeconfig, the key, the addresses and the disks of the nodes are all right, and
\* for a creation there are nodes.
Check(p) ==
  /\ pc[p] = "check"
  /\ IF cluster[p] \notin Installed \/ (verb[p] = "create" /\ members[cluster[p]] = {})
     THEN EndTask(p, "failed")
     ELSE GoTo(p, IF verb[p] = "delete" THEN "remove"
                  ELSE IF op[p] = "odf" THEN "list" ELSE "annotation")
  /\ UNCHANGED <<hub, spoiled>>

-----------------------------------------------------------------------------
(* wipeClusterDisks and wipeNodeDisks, that are the same in LSO and LVMO *)

\* Mutant of ReadAnnotation: the disks are always wiped.
ReadNoAnnotation(p) ==
  /\ pc[p] = "annotation"
  /\ LET c == cluster[p] IN
     /\ left' = [left EXCEPT ![p] = members[c]]
     /\ pc' = [pc EXCEPT ![p] = "wipe"]
  /\ UNCHANGED <<hub, verb, op, cluster, listed, outcome, exit, runs, spoiled>>

\* Mutant of ReadAnnotation: there is nothing else to do if the disks were wiped.
ReadAnnotationOnly(p) ==
  /\ pc[p] = "annotation"
  /\ LET c == cluster[p] IN
     IF c \in wiped
     THEN pc' = [pc EXCEPT ![p] = "wait"] /\ UNCHANGED left
     ELSE pc' = [pc EXCEPT ![p] = "wipe"] /\ left' = [left EXCEPT ![p] = members[c]]
  /\ UNCHANGED <<hub, verb, op, cluster, listed, outcome, exit, runs, spoiled>>

ReadAnnotation(p) ==
  /\ pc[p] = "annotation"
  /\ LET c == cluster[p] IN
     IF c \in wiped
     THEN pc' = [pc EXCEPT ![p] = "apply"] /\ UNCHANGED left
     ELSE /\ pc' = [pc EXCEPT ![p] = IF members[c] = {} THEN "annotate" ELSE "wipe"]
          /\ left' = [left EXCEPT ![p] = members[c]]
  /\ UNCHANGED <<hub, verb, op, cluster, listed, outcome, exit, runs, spoiled>>

\* The script succeeds if its last command does, and that isn't the one that wipes.
WipeNode(p) ==
  /\ pc[p] = "wipe"
  /\ \E n \in Nodes :
       /\ IsFirst(n, left[p])
       /\ \/ disk' = [disk EXCEPT ![cluster[p]][n] = "clean"] /\ UNCHANGED spoiled
          \/ UNCHANGED disk /\ Spoil(cluster[p], "script")
       /\ left' = [left EXCEPT ![p] = @ \ {n}]
       /\ pc' = [pc EXCEPT ![p] = IF left[p] = {n} THEN "annotate" ELSE "wipe"]
  /\ UNCHANGED <<wiped, sno, members, object, racks, classes, defaults, verb, op, cluster, listed,
                 outcome, exit, runs>>

AddWiped(p) ==
  /\ pc[p] = "annotate"
  /\ AddAnnotation(cluster[p])
  /\ GoTo(p, "apply")
  /\ UNCHANGED <<sno, members, disk, object, racks, classes, defaults, spoiled>>

-----------------------------------------------------------------------------
(* deployLSO, deployLVMO and deployODF *)

Other(o) == Users \ {o}

\* The objects that exist are left as they are.  The two that use disks may meet.
Apply(p) ==
  /\ pc[p] = "apply"
  /\ LET c == cluster[p]
         o == op[p] IN
     /\ object' = IF object[c][o] = "absent" THEN [object EXCEPT ![c][o] = "pending"] ELSE object
     /\ IF o \in Users /\ \E u \in Other(o) : object[c][u] # "absent"
        THEN Spoil(c, "shared") ELSE UNCHANGED spoiled
  /\ GoTo(p, "wait")
  /\ UNCHANGED <<wiped, sno, members, disk, racks, classes, defaults>>

\* waitVolume: till the local volume is available.
WaitVolume(p) ==
  /\ Running(p, "create", "lso", "wait")
  /\ object[cluster[p]]["lso"] = "ready"
  /\ EndTask(p, "ok")
  /\ UNCHANGED <<hub, spoiled>>

\* waitLVMCluster reads the field `ready`, that is a boolean, into a string, which is
\* an error as soon as the status has it.
WaitLVMCluster(p) ==
  /\ Running(p, "create", "lvmo", "wait")
  /\ object[cluster[p]]["lvmo"] = "ready"
  /\ EndTask(p, "failed")
  /\ UNCHANGED <<hub, spoiled>>

WaitStorageCluster(p) ==
  /\ Running(p, "create", "odf", "wait")
  /\ LET c == cluster[p] IN
     \/ object[c]["odf"] = "error" /\ EndTask(p, "failed")
     \/ object[c]["odf"] = "ready" /\ GoTo(p, IF c \in sno THEN "store" ELSE "class")
  /\ UNCHANGED <<hub, spoiled>>

\* The patch that follows is the difference of an object with itself: it changes nothing.
WaitBackingStore(p) ==
  /\ pc[p] = "store"
  /\ LET c == cluster[p] IN
     \/ object[c]["store"] = "error" /\ EndTask(p, "failed")
     \/ object[c]["store"] = "ready" /\ GoTo(p, "resize")
  /\ UNCHANGED <<hub, spoiled>>

ResizeBackingStore(p) ==
  /\ pc[p] = "resize"
  /\ EndTask(p, IF object[cluster[p]]["store"] = "absent" THEN "failed" ELSE "ok")
  /\ UNCHANGED <<hub, spoiled>>

\* waitStorageClass takes any event, also a bookmark, as the class being there.
WaitStorageClass(p) ==
  /\ pc[p] = "class"
  /\ GoTo(p, "default")
  /\ UNCHANGED <<hub, spoiled>>

\* The annotation is a patch, that fails if the class doesn't exist.
MarkDefault(p) ==
  /\ pc[p] = "default"
  /\ LET c == cluster[p] IN
     IF op[p] \in classes[c]
     THEN defaults' = [defaults EXCEPT ![c] = @ \union {op[p]}] /\ EndTask(p, "ok")
     ELSE UNCHANGED defaults /\ EndTask(p, "failed")
  /\ UNCHANGED <<wiped, sno, members, disk, object, racks, classes, spoiled>>

-----------------------------------------------------------------------------
(* labelNodes, of ODF *)

ListNodes(p) ==
  /\ pc[p] = "list"
  /\ LET c == cluster[p] IN
     /\ listed' = [listed EXCEPT ![p] = members[c]]
     /\ left' = [left EXCEPT ![p] = members[c]]
     /\ pc' = [pc EXCEPT ![p] = IF members[c] = {} THEN "apply" ELSE "label"]
  /\ UNCHANGED <<hub, verb, op, cluster, outcome, exit, runs, spoiled>>

\* The rack is the position of the node in the list.
Position(n, s) == Cardinality({m \in s : m < n})

\* Mutant of Label: the nodes that have a rack keep it.
LabelNew(p) ==
  /\ pc[p] = "label"
  /\ \E n \in Nodes :
       /\ IsFirst(n, left[p])
       /\ racks' = IF racks[cluster[p]][n] # NoRack THEN racks
                   ELSE [racks EXCEPT ![cluster[p]][n] = Position(n, listed[p])]
       /\ left' = [left EXCEPT ![p] = @ \ {n}]
       /\ pc' = [pc EXCEPT ![p] = IF left[p] = {n} THEN "apply" ELSE "label"]
  /\ UNCHANGED <<wiped, sno, members, disk, object, classes, defaults, verb, op, cluster, listed,
                 outcome, exit, runs, spoiled>>

Label(p) ==
  /\ pc[p] = "label"
  /\ \E n \in Nodes :
       /\ IsFirst(n, left[p])
       /\ AddLabels(cluster[p], n, Position(n, listed[p]))
       /\ left' = [left EXCEPT ![p] = @ \ {n}]
       /\ pc' = [pc EXCEPT ![p] = IF left[p] = {n} THEN "apply" ELSE "label"]
  /\ UNCHANGED <<wiped, sno, members, disk, object, classes, defaults, verb, op, cluster, listed,
                 outcome, exit, runs, spoiled>>

-----------------------------------------------------------------------------
(* delete lso and delete lvmo *)

\* Without its object the operator leaves the disks, with its data, and its class.
Remove(c, o) ==
  /\ object' = [object EXCEPT ![c][o] = "absent"]
  /\ disk' = [disk EXCEPT ![c] = [n \in Nodes |-> IF disk[c][n] = o THEN "old" ELSE disk[c][n]]]
  /\ classes' = [classes EXCEPT ![c] = @ \ {o}]
  /\ defaults' = [defaults EXCEPT ![c] = @ \ {o}]

\* The annotation goes with the first of the two that is deleted.
DeleteObjects(p) ==
  /\ pc[p] = "remove"
  /\ LET c == cluster[p] IN
     /\ Remove(c, op[p])
     /\ IF \E u \in Other(op[p]) : object[c][u] # "absent"
        THEN Spoil(c, "shared") ELSE UNCHANGED spoiled
  /\ GoTo(p, "unannotate")
  /\ UNCHANGED <<wiped, sno, members, racks>>

\* Mutant of DeleteWiped: the annotation stays.
KeepWiped(p) ==
  /\ pc[p] = "unannotate"
  /\ GoTo(p, "crds")
  /\ UNCHANGED <<hub, spoiled>>

DeleteWiped(p) ==
  /\ pc[p] = "unannotate"
  /\ DeleteAnnotation(cluster[p])
  /\ GoTo(p, "crds")
  /\ UNCHANGED <<sno, members, disk, object, racks, classes, defaults, spoiled>>

\* The definitions of the group are deleted one by one, and with them the objects.
DeleteCRDGroup(c, o) == Remove(c, o) /\ UNCHANGED <<wiped, sno, members, racks>>

\* Only with the flag --crds.  It may fail after deleting the definition that matters.
DeleteCRDs(p) ==
  /\ pc[p] = "crds"
  /\ \/ UNCHANGED hub /\ EndTask(p, "ok")
     \/ DeleteCRDGroup(cluster[p], op[p]) /\ \E how \in {"ok", "failed"} : EndTask(p, how)
  /\ UNCHANGED spoiled

-----------------------------------------------------------------------------
(* The five commands. *)

Is(p, v, o) == verb[p] = v /\ op[p] = o

WipeDisks(p) == ReadAnnotation(p) \/ WipeNode(p) \/ AddWiped(p)

DeployLSO(p) == Apply(p) \/ WaitVolume(p)
CreateLSO(p) == Is(p, "create", "lso") /\ (WipeDisks(p) \/ DeployLSO(p))

\* The wait always fails, so the class that comes after it is never waited for or marked.
WipeDisksLVMO(p) == WipeDisks(p)
DeployLVMO(p) == Apply(p) \/ WaitLVMCluster(p)
CreateLVMO(p) == Is(p, "create", "lvmo") /\ (WipeDisksLVMO(p) \/ DeployLVMO(p))

LabelNodes(p) == ListNodes(p) \/ Label(p)
DeployODF(p) ==
  \/ Apply(p) \/ WaitStorageCluster(p) \/ WaitBackingStore(p) \/ ResizeBackingStore(p)
  \/ WaitStorageClass(p) \/ MarkDefault(p)
CreateODF(p) == Is(p, "create", "odf") /\ (LabelNodes(p) \/ DeployODF(p))

DeleteUser(p) == DeleteObjects(p) \/ DeleteWiped(p) \/ DeleteCRDs(p)
DeleteLSO(p) == Is(p, "delete", "lso") /\ DeleteUser(p)
DeleteLVMO(p) == Is(p, "delete", "lvmo") /\ DeleteUser(p)

StartCreateLSO(p) == Start(p, "create", "lso")
StartCreateLVMO(p) == Start(p, "create", "lvmo")
StartCreateODF(p) == Start(p, "create", "odf")
StartDeleteLSO(p) == Start(p, "delete", "lso")
StartDeleteLVMO(p) == Start(p, "delete", "lvmo")

Command(p) ==
  \/ Enrich(p) \/ Check(p) \/ End(p)
  \/ CreateLSO(p) \/ CreateLVMO(p) \/ CreateODF(p) \/ DeleteLSO(p) \/ DeleteLVMO(p)

Next ==
  \/ World
  \/ \E p \in Processes :
       \/ StartCreateLSO(p) \/ StartCreateLVMO(p) \/ StartCreateODF(p)
       \/ StartDeleteLSO(p) \/ StartDeleteLVMO(p)
       \/ Command(p) \/ FailStart(p) \/ FailTask(p) \/ Die(p)

Spec == Init /\ [][Next]_vars

-----------------------------------------------------------------------------
(* Properties. *)

Places == {"idle", "enrich", "check", "annotation", "wipe", "annotate", "list", "label",
           "apply", "wait", "store", "resize", "class", "default",
           "remove", "unannotate", "crds", "done"}

HubType ==
  /\ wiped \subseteq Clusters /\ sno \subseteq Clusters
  /\ members \in [Clusters -> SUBSET Nodes]
  /\ disk \in [Clusters -> [Nodes -> {"old", "clean"} \union Users]]
  /\ object \in [Clusters -> [Objects -> {"absent", "pending", "ready", "error"}]]
  /\ racks \in [Clusters -> [Nodes -> NoRack .. NumNodes]]
  /\ classes \in [Clusters -> SUBSET {"lvmo", "odf"}]
  /\ defaults \in [Clusters -> SUBSET {"lvmo", "odf"}]

ProcessType ==
  /\ pc \in [Processes -> Places]
  /\ verb \in [Processes -> {"create", "delete"}] /\ op \in [Processes -> Operators]
  /\ cluster \in [Processes -> Clusters]
  /\ listed \in [Processes -> SUBSET Nodes] /\ left \in [Processes -> SUBSET Nodes]
  /\ outcome \in [Processes -> [Clusters -> {"none", "ok", "failed"}]]
  /\ exit \in [Processes -> {"none", "0", "1"}]

\* Where a process can be, in each of the commands: the creation of LVMO doesn't get to wait
\* for the storage class.
PlaceOK(p) ==
  /\ pc[p] \in {"annotation", "wipe", "annotate"} => verb[p] = "create" /\ op[p] \in Users
  /\ pc[p] \in {"list", "label", "store", "resize", "class", "default"} => Is(p, "create", "odf")
  /\ pc[p] \in {"apply", "wait"} => verb[p] = "create"
  /\ verb[p] = "delete" => op[p] \in Users
  /\ pc[p] \in {"remove", "unannotate", "crds"} => verb[p] = "delete"
  /\ pc[p] \in {"wipe", "label"} => left[p] # {}

TypeOK ==
  /\ HubType /\ ProcessType
  /\ runs \in 0 .. MaxRuns
  /\ spoiled \in [Clusters -> SUBSET {"joined", "script", "shared", "cut", "overlap"}]
  /\ \A p \in Processes : PlaceOK(p)

\* The disks that an operator uses are wiped only if two commands ran at the same time, or
\* if LSO and LVMO were in one cluster: the annotation is removed after the objects and
\* added before them (create_lso_cmd.go and create_lvmo_cmd.go, wipeClusterDisks; the
\* deletion commands).
WipesOnlyFree ==
  [][\A c \in Clusters, n \in Nodes :
       disk[c][n] \in Users /\ disk'[c][n] = "clean" => Overlapped \/ "shared" \in spoiled[c]]_vars

\* An operator starts with the disks wiped since the last one used them, but for a node
\* that came later, a script whose failure wasn't noticed, a deletion cut before it removed
\* the annotation, and the two cases above (wipeClusterDisks).
StartsClean ==
  [][\A c \in Clusters, n \in Nodes :
       disk[c][n] = "old" /\ disk'[c][n] \in Users => Overlapped \/ spoiled[c] # {}]_vars

\* What the exit code of a command says: zero, for all but one, that all the clusters were
\* attempted; one, that none was or that the strict command stopped at the first failure,
\* after doing the ones before.  And the creation of LVMO is never done
\* (CreateCommand.run and DeleteCommand.run; waitLVMCluster).
ExitOK(p) ==
  /\ exit[p] = "0" => \A c \in Clusters : outcome[p][c] # "none"
  /\ exit[p] = "1" =>
       \/ \A c \in Clusters : outcome[p][c] = "none"
       \/ /\ Strict(p)
          /\ \E f \in Clusters : \A c \in Clusters :
               outcome[p][c] = IF c < f THEN "ok" ELSE IF c = f THEN "failed" ELSE "none"
  /\ exit[p] = "0" => ~ Strict(p)
ExitCodes == \A p \in Processes : ExitOK(p)

\* After the nodes that a creation of ODF found are labelled, each has a rack of its own,
\* whatever labels other commands left before in some of them, unless another one is
\* labelling (labelNodes).  And a creation that is done has marked the class, although the
\* wait for it can end before it exists (waitStorageClass).
RacksDistinct ==
  \A p \in Processes : \A m, n \in listed[p] \ left[p] :
    ~ Overlapped /\ m # n => racks[cluster[p]][m] # racks[cluster[p]][n]
ODFDone ==
  /\ RacksDistinct
  /\ \A p \in Processes, c \in Clusters :
       Is(p, "create", "odf") /\ outcome[p][c] = "ok" =>
         object[c]["odf"] # "absent" /\ (c \in sno \/ "odf" \in defaults[c])

\* None of the waits has a deadline, so a command may only wait for what is there: without
\* others at the same time, it is for an object that exists and that the operator will take
\* to one of the states that end the wait (waitVolume, waitLVMCluster, waitStorageCluster
\* and waitBackingStore).
WaitsForExisting ==
  \A p \in Processes : ~ Overlapped =>
    /\ pc[p] = "wait" => object[cluster[p]][op[p]] # "absent"
    /\ pc[p] = "store" => object[cluster[p]]["odf"] = "ready" /\ cluster[p] \in sno
=============================================================================
