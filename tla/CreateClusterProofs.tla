--------------------------- MODULE CreateClusterProofs ---------------------------
(***************************************************************************)
(* The proofs of the safety invariants of CreateCluster: the types, and    *)
(* that the keys of a cluster agree, in the hub and in the output files.   *)
(***************************************************************************)
EXTENDS CreateCluster, FiniteSetTheorems, TLAPS

LEMMA ClustersAreNumbers ==
  /\ NumClusters \in Nat /\ NumClusters >= 1
  /\ 1 \in Clusters
  /\ \A c \in Clusters : c \in Nat /\ c >= 1 /\ c <= NumClusters
  /\ \A c \in Clusters : c < NumClusters => c + 1 \in Clusters
BY CreateClusterAssumption DEF Clusters

-----------------------------------------------------------------------------
(* The type invariant. *)

LEMMA TypeInit == Init => TypeOK
BY ClustersAreNumbers, CreateClusterAssumption
   DEF Init, TypeOK, KeyType, HubType, ProcessType, Forgotten, NoKey, Keys

LEMMA TypeStart ==
  ASSUME TypeOK, NEW p \in Processes, StartCreate(p) \/ StartDelete(p)
  PROVE  TypeOK'
<1>1. /\ UNCHANGED <<object, generated, files, keys, status, provisioned, cluster, expired>>
      /\ pc[p] = "idle" /\ runs < MaxRuns /\ runs' = runs + 1
      /\ \E part \in {"enrich", "delete"} : pc' = [pc EXCEPT ![p] = part]
      /\ \E first \in {1, 3} : step' = [step EXCEPT ![p] = first]
      /\ pc'[p] = "enrich" => step'[p] = 1
      /\ result' = [result EXCEPT ![p] = "none"]
      /\ torn' = torn \/ torn' = Clusters
      /\ output' = output \/ output' = output \union {p}
  BY DEF StartCreate, StartDelete, Start, hub, TypeOK, ProcessType
<1>2. KeyType'
  BY <1>1 DEF TypeOK, KeyType, Keys
<1>3. HubType'
  BY <1>1, CreateClusterAssumption DEF TypeOK, HubType
<1>4. ProcessType'
  BY <1>1 DEF TypeOK, ProcessType
<1>5. ASSUME NEW q \in Processes PROVE Forgotten(q)'
  BY <1>1, <1>5 DEF TypeOK, ProcessType, Forgotten
<1> QED
  BY <1>2, <1>3, <1>4, <1>5 DEF TypeOK

\* Whatever the last step of a command is, it leaves the process without memory.
LEMMA TypeEnd ==
  ASSUME TypeOK, NEW p \in Processes, NEW outcome \in {"ok", "ready", "deleted", "failed"},
         End(p, outcome)
  PROVE  /\ ProcessType' /\ \A q \in Processes : Forgotten(q)'
         /\ keys' \in [Processes -> [Clusters -> {NoKey} \union Keys]]
<1>1. ProcessType'
  BY ClustersAreNumbers DEF TypeOK, ProcessType, End
<1>2. keys' \in [Processes -> [Clusters -> {NoKey} \union Keys]]
  BY DEF TypeOK, KeyType, End
<1>3. ASSUME NEW q \in Processes PROVE Forgotten(q)'
  BY <1>3 DEF TypeOK, KeyType, ProcessType, Forgotten, End
<1> QED
  BY <1>1, <1>2, <1>3

LEMMA TypeEnrich ==
  ASSUME TypeOK, NEW p \in Processes, Enrich(p)
  PROVE  TypeOK'
<1> DEFINE c == cluster[p]
<1>1. c \in Clusters
  BY DEF TypeOK, ProcessType
<1>2. KeyType'
  <2>1. CASE object[c][3] # NoKey
    <3>1. keys' = [keys EXCEPT ![p][c] = object[c][3]] /\ UNCHANGED <<generated, object, files>>
      BY <2>1 DEF Enrich, SetSSHKeys, hub
    <3> QED
      BY <3>1, <1>1 DEF TypeOK, KeyType, Keys
  <2>2. CASE object[c][3] = NoKey
    <3>1. /\ keys' = [keys EXCEPT ![p][c] = generated + 1] /\ generated' = generated + 1
          /\ UNCHANGED <<object, files>>
      BY <2>2 DEF Enrich, SetSSHKeys, hub
    <3>2. generated \in Nat /\ Keys \subseteq Keys' /\ generated + 1 \in Keys' /\ generated' \in Nat
      BY <3>1 DEF Keys, TypeOK, KeyType
    <3>3. keys' \in [Processes -> [Clusters -> {NoKey} \union Keys']]
      BY <3>1, <3>2, <1>1 DEF TypeOK, KeyType
    <3>4. object' \in [Clusters -> [1 .. 3 -> {NoKey} \union Keys']]
      BY <3>1, <3>2 DEF TypeOK, KeyType
    <3>5. files' \in [Clusters -> [private : {NoKey} \union Keys', public : {NoKey} \union Keys']]
      <4>1. [private : {NoKey} \union Keys, public : {NoKey} \union Keys]
              \subseteq [private : {NoKey} \union Keys', public : {NoKey} \union Keys']
        BY <3>2
      <4> QED
        BY <4>1, <3>1 DEF TypeOK, KeyType
    <3> QED
      BY <3>2, <3>3, <3>4, <3>5 DEF KeyType
  <2> QED
    BY <2>1, <2>2
<1>3. ProcessType'
  BY <1>1, ClustersAreNumbers DEF TypeOK, ProcessType, Enrich, Loop
<1>4. ASSUME NEW q \in Processes PROVE Forgotten(q)'
  <2>1. CASE q = p
    BY <2>1, ClustersAreNumbers DEF TypeOK, ProcessType, Forgotten, Enrich, Loop
  <2>2. CASE q # p
    <3>1. keys'[q] = keys[q]
      BY <2>2 DEF Enrich, SetSSHKeys, TypeOK, KeyType
    <3> QED
      BY <3>1, <2>2, <1>4 DEF TypeOK, ProcessType, Forgotten, Enrich, Loop
  <2> QED
    BY <2>1, <2>2
<1> QED
  BY <1>2, <1>3, <1>4 DEF TypeOK, HubType, Enrich, hub

LEMMA TypeApply ==
  ASSUME TypeOK, NEW p \in Processes, Apply(p)
  PROVE  TypeOK'
<1> DEFINE c == cluster[p]
<1>1. c \in Clusters /\ step[p] \in 1 .. 3 /\ keys[p][c] \in {NoKey} \union Keys
  BY DEF TypeOK, ProcessType, KeyType
<1>2. KeyType'
  BY <1>1 DEF TypeOK, KeyType, Apply, Keys
<1>3. ProcessType'
  BY <1>1, ClustersAreNumbers DEF TypeOK, ProcessType, Apply, Loop
<1>4. ASSUME NEW q \in Processes PROVE Forgotten(q)'
  BY <1>1, <1>4, ClustersAreNumbers DEF TypeOK, ProcessType, Forgotten, Apply, Loop
<1> QED
  BY <1>2, <1>3, <1>4 DEF TypeOK, HubType, Apply

LEMMA TypeWrite ==
  ASSUME TypeOK, NEW p \in Processes, WritePrivateKey(p) \/ WritePublicKey(p)
  PROVE  TypeOK'
<1>1. cluster[p] \in Clusters /\ keys[p][cluster[p]] \in {NoKey} \union Keys
  BY DEF TypeOK, ProcessType, KeyType
<1>2. KeyType'
  BY <1>1 DEF TypeOK, KeyType, WritePrivateKey, WritePublicKey, hub, Keys
<1>3. ProcessType'
  BY <1>1, ClustersAreNumbers DEF TypeOK, ProcessType, WritePrivateKey, WritePublicKey
<1>4. ASSUME NEW q \in Processes PROVE Forgotten(q)'
  BY <1>1, <1>4 DEF TypeOK, ProcessType, Forgotten, WritePrivateKey, WritePublicKey
<1> QED
  BY <1>2, <1>3, <1>4 DEF TypeOK, HubType, WritePrivateKey, WritePublicKey, hub

\* A step that ends the command, and leaves the keys of the hub and of the files.
LEMMA TypeEnds ==
  ASSUME TypeOK, NEW p \in Processes, NEW outcome \in {"ok", "ready", "deleted", "failed"},
         End(p, outcome), UNCHANGED <<hub, generated, files, runs>>, torn' \subseteq Clusters
  PROVE  TypeOK'
BY TypeEnd DEF TypeOK, KeyType, HubType, hub, Keys

LEMMA TypeWait ==
  ASSUME TypeOK, NEW p \in Processes,
         \/ DontWait(p) \/ Expire(p) \/ WaitHosts(p)
         \/ WaitInstall(p) \/ TimeOut(p) \/ Die(p)
  PROVE  TypeOK'
<1>1. CASE Expire(p)
  BY <1>1 DEF TypeOK, KeyType, HubType, ProcessType, Forgotten, Expire, hub, Keys
<1>2. CASE WaitHosts(p)
  BY <1>2 DEF TypeOK, KeyType, HubType, ProcessType, Forgotten, WaitHosts, hub, Keys
<1>3. CASE DontWait(p)
  BY <1>3, TypeEnds DEF DontWait, TypeOK, HubType
<1>4. CASE TimeOut(p)
  BY <1>4, TypeEnds DEF TimeOut, TypeOK, HubType
<1>5. CASE Die(p)
  BY <1>5, TypeEnds DEF Die, TypeOK, HubType
<1>6. CASE WaitInstall(p)
  <2>1. UNCHANGED <<hub, generated, files, runs, torn>> /\ pc[p] = "installing"
    BY <1>6 DEF WaitInstall
  <2>2. CASE End(p, "failed") \/ End(p, "ready")
    BY <2>1, <2>2, TypeEnds DEF TypeOK, HubType
  <2>3. CASE /\ cluster[p] < NumClusters
             /\ cluster' = [cluster EXCEPT ![p] = @ + 1] /\ pc' = [pc EXCEPT ![p] = "hosts"]
             /\ UNCHANGED <<step, keys, output, expired, result>>
    BY <2>1, <2>3, ClustersAreNumbers
       DEF TypeOK, KeyType, HubType, ProcessType, Forgotten, hub, Keys
  <2> QED
    BY <1>6, <2>2, <2>3 DEF WaitInstall, Installed
<1> QED
  BY <1>1, <1>2, <1>3, <1>4, <1>5, <1>6

LEMMA TypeDelete ==
  ASSUME TypeOK, NEW p \in Processes, DeleteObject(p)
  PROVE  TypeOK'
<1> DEFINE c == cluster[p]
<1>1. c \in Clusters /\ step[p] \in 1 .. 3 /\ pc[p] = "delete"
  BY DEF TypeOK, ProcessType, DeleteObject
<1>2. object' \in [Clusters -> [1 .. 3 -> {NoKey} \union Keys]]
  BY <1>1 DEF TypeOK, KeyType, DeleteObject
<1>3. HubType'
  BY <1>1 DEF TypeOK, HubType, DeleteObject
<1>4. UNCHANGED <<generated, files, runs>>
  BY DEF DeleteObject
<1>5. CASE /\ step[p] > 1
           /\ step' = [step EXCEPT ![p] = @ - 1]
           /\ UNCHANGED <<pc, cluster, keys, output, expired, result>>
  BY <1>1, <1>2, <1>3, <1>4, <1>5 DEF TypeOK, KeyType, ProcessType, Forgotten, Keys
<1>6. CASE /\ c < NumClusters
           /\ step' = [step EXCEPT ![p] = 3] /\ cluster' = [cluster EXCEPT ![p] = @ + 1]
           /\ UNCHANGED <<pc, keys, output, expired, result>>
  BY <1>1, <1>2, <1>3, <1>4, <1>6, ClustersAreNumbers
     DEF TypeOK, KeyType, ProcessType, Forgotten, Keys
<1>7. CASE End(p, "deleted")
  BY <1>2, <1>3, <1>4, <1>7, TypeEnd DEF TypeOK, KeyType, Keys
<1> QED
  BY <1>5, <1>6, <1>7 DEF DeleteObject

LEMMA TypeNext == TypeOK /\ [Next]_vars => TypeOK'
<1> SUFFICES ASSUME TypeOK, [Next]_vars PROVE TypeOK'
  OBVIOUS
<1>1. CASE Hub
  <2>1. /\ UNCHANGED <<object, generated, files, runs, torn>> /\ UNCHANGED process
        /\ status' \in [Clusters -> {"none", "completed", "error"}]
        /\ provisioned' \subseteq Clusters
    BY <1>1 DEF Hub, Provision, Install, TypeOK, HubType
  <2> QED
    BY <2>1 DEF TypeOK, KeyType, HubType, ProcessType, Forgotten, process, Keys
<1>2. CASE UNCHANGED vars
  BY <1>2 DEF vars, hub, TypeOK, KeyType, HubType, ProcessType, Forgotten, process, Keys
<1>3. ASSUME NEW p \in Processes,
             StartCreate(p) \/ StartDelete(p) \/ Die(p) \/ Expire(p) \/ Run(p)
      PROVE  TypeOK'
  BY <1>3, TypeStart, TypeEnrich, TypeApply, TypeWrite, TypeWait, TypeDelete DEF Run
<1> QED
  BY <1>1, <1>2, <1>3 DEF Next

\* The variables always have their types, the keys are always ones that were
\* generated, and a process without a command remembers nothing of the last one.
THEOREM ClusterTypeCorrect == Spec => []TypeOK
BY TypeInit, TypeNext, PTL DEF Spec

-----------------------------------------------------------------------------
(* The keys of a cluster agree.                                            *)
(*                                                                         *)
(* At most one command works with the objects of a cluster that isn't torn,*)
(* and what it remembers says how far it is: the inductive invariant       *)
(* relates the objects and the files to where the command is.              *)

AnyKey == {NoKey} \union Keys

\* The three objects of the cluster have the same key, or none of them exists.
Whole(c, k) == \A i \in 1 .. 3 : object[c][i] = k
Uniform(c) == \E k \in AnyKey : Whole(c, k)

\* Those that exist have the same key.
Shared(c, k) == \A i \in 1 .. 3 : object[c][i] \in {NoKey, k}

Written(p, c) == files[c] = [private |-> keys[p][c], public |-> keys[p][c]]

EnrichInv(p, c) ==
  pc[p] = "enrich" =>
    /\ Uniform(c)
    /\ c < cluster[p] => keys[p][c] # NoKey /\ Shared(c, keys[p][c])

ApplyInv(p, c) ==
  pc[p] = "apply" =>
    /\ keys[p][c] # NoKey /\ Shared(c, keys[p][c])
    /\ c < cluster[p] => Whole(c, keys[p][c])
    /\ c = cluster[p] => \A i \in 1 .. 3 : i < step[p] => object[c][i] = keys[p][c]
    /\ c > cluster[p] => Uniform(c)

WaitInv(p, c) ==
  /\ pc[p] \in {"private", "public", "hosts", "installing"} =>
       keys[p][c] # NoKey /\ Whole(c, keys[p][c])
  /\ pc[p] = "private" /\ c < cluster[p] => Written(p, c)
  /\ pc[p] = "public" =>
       /\ c < cluster[p] => Written(p, c)
       /\ c = cluster[p] => files[c].private = keys[p][c]
  /\ pc[p] \in {"hosts", "installing"} /\ p \in output => Written(p, c)

DeleteInv(p, c) ==
  pc[p] = "delete" =>
    /\ \E k \in AnyKey : Shared(c, k)
    /\ c < cluster[p] => Whole(c, NoKey)
    /\ c = cluster[p] => \A i \in 1 .. 3 : i > step[p] => object[c][i] = NoKey
    /\ c > cluster[p] => Uniform(c)

ClusterInv(c) ==
  /\ \A p, q \in Busy : p = q
  /\ Busy = {} => Uniform(c)
  /\ \A p \in Processes : EnrichInv(p, c) /\ ApplyInv(p, c) /\ WaitInv(p, c) /\ DeleteInv(p, c)

KeyInv == \A c \in Clusters \ torn : ClusterInv(c)

LEMMA KeyTypes ==
  ASSUME TypeOK, NEW p \in Processes, NEW c \in Clusters
  PROVE  /\ keys[p][c] \in AnyKey /\ object[c] \in [1 .. 3 -> AnyKey]
         /\ cluster[p] \in Clusters /\ step[p] \in 1 .. 3
         /\ files[c] = [private |-> files[c].private, public |-> files[c].public]
BY DEF TypeOK, KeyType, ProcessType, AnyKey

\* The other processes are idle, so only what the command of p does matters.
LEMMA OneCommand ==
  ASSUME KeyInv, NEW c \in Clusters \ torn, NEW p \in Busy
  PROVE  /\ ClusterInv(c)
         /\ \A q \in Processes \ {p} : pc[q] = "idle"
BY DEF KeyInv, ClusterInv, Busy

LEMMA OneCommandNext ==
  ASSUME NEW c, NEW p \in Processes, \A q \in Processes \ {p} : pc'[q] = "idle",
         pc'[p] = "idle" => Uniform(c)',
         EnrichInv(p, c)', ApplyInv(p, c)', WaitInv(p, c)', DeleteInv(p, c)'
  PROVE  ClusterInv(c)'
<1>1. ASSUME NEW q \in Processes \ {p}
      PROVE  EnrichInv(q, c)' /\ ApplyInv(q, c)' /\ WaitInv(q, c)' /\ DeleteInv(q, c)'
  BY DEF EnrichInv, ApplyInv, WaitInv, DeleteInv
<1>2. (Busy = {})' => pc'[p] = "idle"
  BY DEF Busy
<1>3. \A q, r \in Busy' : q = r
  BY DEF Busy
<1> QED
  BY <1>1, <1>2, <1>3 DEF ClusterInv

\* The end of a command leaves only clusters that are whole, or torn.
LEMMA KeyEnd ==
  ASSUME KeyInv, NEW p \in Busy, NEW c \in Clusters \ torn, NEW outcome, End(p, outcome),
         TypeOK, Uniform(c)'
  PROVE  ClusterInv(c)'
<1>1. pc' = [pc EXCEPT ![p] = "idle"]
  BY DEF End
<1>2. p \in Processes /\ \A q \in Processes \ {p} : pc[q] = "idle"
  BY OneCommand DEF Busy
<1>3. pc'[p] = "idle" /\ \A q \in Processes \ {p} : pc'[q] = "idle"
  BY <1>1, <1>2 DEF TypeOK, ProcessType
<1> QED
  BY <1>2, <1>3, OneCommandNext DEF EnrichInv, ApplyInv, WaitInv, DeleteInv

LEMMA KeyInit == Init => KeyInv
<1> SUFFICES ASSUME Init, NEW c \in Clusters PROVE ClusterInv(c)
  BY DEF KeyInv
<1>1. Busy = {} /\ \A p \in Processes : pc[p] = "idle"
  BY DEF Init, Busy
<1>2. Uniform(c)
  BY DEF Init, Uniform, Whole, AnyKey
<1> QED
  BY <1>1, <1>2 DEF ClusterInv, EnrichInv, ApplyInv, WaitInv, DeleteInv

LEMMA KeyHub ==
  ASSUME KeyInv, Hub \/ UNCHANGED vars
  PROVE  KeyInv'
<1>1. UNCHANGED <<object, generated, files, torn, pc, cluster, step, keys, output>>
  BY DEF Hub, Provision, Install, vars, hub, process
<1> QED
  BY <1>1 DEF KeyInv, ClusterInv, Busy, EnrichInv, ApplyInv, WaitInv, DeleteInv, Uniform, Whole,
              Shared, Written, AnyKey, Keys

\* A command that starts when there are others tears all the clusters.
LEMMA KeyStart ==
  ASSUME TypeOK, KeyInv, NEW p \in Processes, StartCreate(p) \/ StartDelete(p)
  PROVE  KeyInv'
<1> SUFFICES ASSUME NEW c \in Clusters \ torn' PROVE ClusterInv(c)'
  BY DEF KeyInv
<1>1. /\ Busy = {} /\ torn' = torn /\ cluster[p] = 1
      /\ UNCHANGED <<object, generated, cluster>>
      /\ \E part \in {"enrich", "delete"} : pc' = [pc EXCEPT ![p] = part]
      /\ step' = [step EXCEPT ![p] = IF pc'[p] = "enrich" THEN 1 ELSE 3]
  BY DEF StartCreate, StartDelete, Start, hub, TypeOK, ProcessType, Forgotten
<1>2. pc'[p] \in {"enrich", "delete"} /\ \A q \in Processes \ {p} : pc'[q] = "idle"
  BY <1>1 DEF Busy, TypeOK, ProcessType
<1>3. Uniform(c)
  BY <1>1 DEF KeyInv, ClusterInv
<1>4. Uniform(c)' /\ \E k \in AnyKey' : Shared(c, k)'
  BY <1>1, <1>3 DEF Uniform, Whole, Shared, AnyKey, Keys
<1>5. c \in Nat /\ ~(c < cluster'[p]) /\ step'[p] = IF pc'[p] = "enrich" THEN 1 ELSE 3
  BY <1>1, ClustersAreNumbers DEF TypeOK, ProcessType
<1>6. EnrichInv(p, c)' /\ DeleteInv(p, c)'
  BY <1>2, <1>4, <1>5 DEF EnrichInv, DeleteInv
<1>7. ApplyInv(p, c)' /\ WaitInv(p, c)'
  BY <1>2 DEF ApplyInv, WaitInv
<1> QED
  BY <1>2, <1>6, <1>7, OneCommandNext

\* A cluster that has a secret has all its objects, with the key of the secret.
LEMMA KeyEnrich ==
  ASSUME TypeOK, KeyInv, NEW p \in Processes, Enrich(p)
  PROVE  KeyInv'
<1> SUFFICES ASSUME NEW c \in Clusters \ torn' PROVE ClusterInv(c)'
  BY DEF KeyInv
<1> DEFINE d == cluster[p]
<1>1. c \in Clusters \ torn /\ p \in Busy /\ pc[p] = "enrich" /\ UNCHANGED object
  BY DEF Enrich, Busy, hub
<1>2. ClusterInv(c) /\ \A q \in Processes \ {p} : pc[q] = "idle"
  BY <1>1, OneCommand
<1>3. EnrichInv(p, c)
  BY <1>2 DEF ClusterInv
<1>4. AnyKey \subseteq AnyKey' /\ d \in Clusters /\ c \in Nat /\ d \in Nat /\ object[d][3] \in Nat
  BY ClustersAreNumbers
     DEF AnyKey, Keys, NoKey, Enrich, SetSSHKeys, TypeOK, KeyType, ProcessType
<1>5. Uniform(c)'
  BY <1>1, <1>3, <1>4 DEF EnrichInv, Uniform, Whole
<1>6. c <= d => keys'[p][c] # NoKey /\ Shared(c, keys'[p][c])
  <2>1. CASE c < d
    <3>1. keys'[p][c] = keys[p][c]
      BY <2>1, <1>4 DEF Enrich, SetSSHKeys, TypeOK, KeyType
    <3> QED
      BY <2>1, <3>1, <1>1, <1>3 DEF EnrichInv
  <2>2. CASE c = d
    <3>1. PICK k \in AnyKey : Whole(c, k)
      BY <1>1, <1>3 DEF EnrichInv, Uniform
    <3>2. keys'[p][c] = IF object[c][3] # NoKey THEN object[c][3] ELSE generated + 1
      BY <2>2 DEF Enrich, SetSSHKeys, TypeOK, KeyType
    <3> QED
      BY <3>1, <3>2 DEF Whole, Shared, TypeOK, KeyType, NoKey
  <2> QED
    BY <2>1, <2>2, <1>4
<1>7. /\ \A q \in Processes \ {p} : pc'[q] = "idle"
      /\ \/ pc'[p] = "enrich" /\ cluster'[p] = d + 1
         \/ pc'[p] = "apply" /\ cluster'[p] = 1 /\ d >= NumClusters
      /\ step'[p] = 1
  BY <1>1, <1>2, <1>4, ClustersAreNumbers DEF Enrich, Loop, TypeOK, ProcessType, Forgotten
<1>8. c <= NumClusters /\ c >= 1 /\ NumClusters \in Nat
  BY ClustersAreNumbers
<1>9. EnrichInv(p, c)'
  BY <1>1, <1>4, <1>5, <1>6, <1>7, <1>8 DEF EnrichInv, Shared
<1>10. ApplyInv(p, c)'
  BY <1>1, <1>4, <1>5, <1>6, <1>7, <1>8 DEF ApplyInv, Shared, Whole
<1>11. WaitInv(p, c)' /\ DeleteInv(p, c)'
  BY <1>7 DEF WaitInv, DeleteInv
<1> QED
  BY <1>7, <1>9, <1>10, <1>11, OneCommandNext

\* What exists has the key of the command, so creating the rest completes it.
LEMMA KeyApply ==
  ASSUME TypeOK, KeyInv, NEW p \in Processes, Apply(p)
  PROVE  KeyInv'
<1> SUFFICES ASSUME NEW c \in Clusters \ torn' PROVE ClusterInv(c)'
  BY DEF KeyInv
<1> DEFINE d == cluster[p]
           k == keys[p][c]
<1>1. /\ c \in Clusters \ torn /\ p \in Busy /\ pc[p] = "apply"
      /\ UNCHANGED <<generated, keys, output, files>>
  BY DEF Apply, Busy
<1>2. ClusterInv(c) /\ \A q \in Processes \ {p} : pc[q] = "idle"
  BY <1>1, OneCommand
<1>3. /\ k # NoKey /\ Shared(c, k)
      /\ c < d => Whole(c, k)
      /\ c = d => \A i \in 1 .. 3 : i < step[p] => object[c][i] = k
      /\ c > d => Uniform(c)
  BY <1>1, <1>2 DEF ClusterInv, ApplyInv
<1>4. /\ d \in Clusters /\ c \in Nat /\ d \in Nat /\ step[p] \in 1 .. 3
      /\ c <= NumClusters /\ c >= 1 /\ NumClusters \in Nat /\ AnyKey' = AnyKey
  BY <1>1, ClustersAreNumbers, KeyTypes DEF AnyKey, Keys
<1>5. c # d => object'[c] = object[c]
  BY <1>4 DEF Apply, TypeOK, KeyType
<1>6. c = d => /\ object'[c][step[p]] = k
               /\ \A i \in 1 .. 3 : i # step[p] => object'[c][i] = object[c][i]
  BY <1>3, <1>4 DEF Apply, TypeOK, KeyType, Shared
<1>7. Shared(c, k)'
  BY <1>1, <1>3, <1>4, <1>5, <1>6 DEF Shared
<1>8. c < d => Whole(c, k)'
  BY <1>1, <1>3, <1>5, <1>4 DEF Whole
<1>9. c > d => Uniform(c)'
  BY <1>3, <1>5, <1>4 DEF Uniform, Whole
<1>10. c = d => \A i \in 1 .. 3 : i <= step[p] => object'[c][i] = k
  BY <1>3, <1>6, <1>4
<1>11. \A q \in Processes \ {p} : pc'[q] = "idle"
  BY <1>2 DEF Apply, Loop, TypeOK, ProcessType
<1>12. CASE step[p] < 3
  <2>1. step'[p] = step[p] + 1 /\ pc'[p] = "apply" /\ cluster'[p] = d
    BY <1>1, <1>12 DEF Apply, TypeOK, ProcessType
  <2>2. ApplyInv(p, c)'
    BY <2>1, <1>1, <1>3, <1>4, <1>7, <1>8, <1>9, <1>10 DEF ApplyInv, Whole, Shared
  <2> QED
    BY <2>1, <2>2, <1>11, OneCommandNext DEF EnrichInv, WaitInv, DeleteInv
<1>13. CASE step[p] = 3
  <2>1. c <= d => Whole(c, k)'
    BY <1>8, <1>10, <1>13, <1>4, <1>1 DEF Whole
  <2>2. CASE d < NumClusters
    <3>1. step'[p] = 1 /\ pc'[p] = "apply" /\ cluster'[p] = d + 1
      BY <1>1, <1>13, <2>2 DEF Apply, Loop, TypeOK, ProcessType
    <3>2. ApplyInv(p, c)'
      BY <3>1, <2>1, <1>1, <1>3, <1>4, <1>7, <1>9 DEF ApplyInv, Whole, Shared
    <3> QED
      BY <3>1, <3>2, <1>11, OneCommandNext DEF EnrichInv, WaitInv, DeleteInv
  <2>3. CASE ~(d < NumClusters)
    <3>1. /\ pc'[p] = IF p \in output THEN "private" ELSE "hosts"
          /\ cluster'[p] = 1
      BY <1>1, <1>13, <2>3 DEF Apply, Loop, TypeOK, ProcessType
    <3>2. WaitInv(p, c)'
      BY <3>1, <2>1, <2>3, <1>1, <1>3, <1>4 DEF WaitInv, Whole
    <3> QED
      BY <3>1, <3>2, <1>11, OneCommandNext DEF EnrichInv, ApplyInv, DeleteInv
  <2> QED
    BY <2>2, <2>3
<1> QED
  BY <1>4, <1>12, <1>13

LEMMA KeyWrite ==
  ASSUME TypeOK, KeyInv, NEW p \in Processes, WritePrivateKey(p) \/ WritePublicKey(p)
  PROVE  KeyInv'
<1> SUFFICES ASSUME NEW c \in Clusters \ torn' PROVE ClusterInv(c)'
  BY DEF KeyInv
<1> DEFINE d == cluster[p]
           k == keys[p][c]
<1>1. /\ c \in Clusters \ torn /\ p \in Busy /\ pc[p] \in {"private", "public"}
      /\ UNCHANGED <<object, keys, output>>
  BY DEF WritePrivateKey, WritePublicKey, Busy, hub
<1>2. ClusterInv(c) /\ \A q \in Processes \ {p} : pc[q] = "idle"
  BY <1>1, OneCommand
<1>3. WaitInv(p, c)
  BY <1>2 DEF ClusterInv
<1>4. /\ d \in Clusters /\ c \in Nat /\ d \in Nat /\ c <= NumClusters /\ c >= 1
      /\ NumClusters \in Nat
      /\ files[c] = [private |-> files[c].private, public |-> files[c].public]
  BY <1>1, ClustersAreNumbers, KeyTypes
<1>5. \A q \in Processes \ {p} : pc'[q] = "idle"
  BY <1>2 DEF WritePrivateKey, WritePublicKey, TypeOK, ProcessType
<1>6. k # NoKey /\ Whole(c, k)'
  BY <1>1, <1>3 DEF WaitInv, Whole
<1>7. c # d => files'[c] = files[c]
  BY <1>4 DEF WritePrivateKey, WritePublicKey, TypeOK, KeyType
<1>8. CASE WritePrivateKey(p)
  <2>1. pc[p] = "private" /\ pc'[p] = "public" /\ cluster'[p] = d
    BY <1>8 DEF WritePrivateKey, TypeOK, ProcessType
  <2>2. c = d => files'[c].private = k
    BY <1>8, <1>4 DEF WritePrivateKey, TypeOK, KeyType
  <2>3. WaitInv(p, c)'
    BY <2>1, <2>2, <1>1, <1>3, <1>4, <1>6, <1>7 DEF WaitInv, Written
  <2> QED
    BY <2>1, <2>3, <1>5, OneCommandNext DEF EnrichInv, ApplyInv, DeleteInv
<1>9. CASE WritePublicKey(p)
  <2>1. /\ pc[p] = "public"
        /\ IF d < NumClusters THEN pc'[p] = "private" /\ cluster'[p] = d + 1
                              ELSE pc'[p] = "hosts"
    BY <1>9 DEF WritePublicKey, TypeOK, ProcessType
  <2>2. c = d => files'[c] = [private |-> k, public |-> k]
    <3>1. c = d => files'[c] = [files[c] EXCEPT !.public = k]
      BY <1>9, <1>4 DEF WritePublicKey, TypeOK, KeyType
    <3> QED
      BY <3>1, <2>1, <1>3, <1>4 DEF WaitInv
  <2>3. c <= d => Written(p, c)'
    BY <2>1, <2>2, <1>1, <1>3, <1>4, <1>7 DEF WaitInv, Written
  <2>4. WaitInv(p, c)'
    BY <2>1, <2>3, <1>1, <1>4, <1>6 DEF WaitInv
  <2>5. pc'[p] \in {"private", "hosts"}
    BY <2>1
  <2> QED
    BY <2>5, <2>4, <1>5, OneCommandNext DEF EnrichInv, ApplyInv, DeleteInv
<1> QED
  BY <1>8, <1>9

\* Waiting touches neither the keys nor the files.
LEMMA KeyWait ==
  ASSUME TypeOK, KeyInv, NEW p \in Processes,
         DontWait(p) \/ Expire(p) \/ WaitHosts(p) \/ WaitInstall(p) \/ TimeOut(p)
  PROVE  KeyInv'
<1> SUFFICES ASSUME NEW c \in Clusters \ torn' PROVE ClusterInv(c)'
  BY DEF KeyInv
<1>1. /\ c \in Clusters \ torn /\ p \in Busy /\ pc[p] \in {"hosts", "installing"}
      /\ UNCHANGED <<object, generated, files>>
  BY DEF DontWait, Expire, WaitHosts, WaitInstall, TimeOut, Busy, hub
<1>2. ClusterInv(c) /\ \A q \in Processes \ {p} : pc[q] = "idle"
  BY <1>1, OneCommand
<1>3. WaitInv(p, c) /\ keys[p][c] \in AnyKey
  BY <1>1, <1>2, KeyTypes DEF ClusterInv
<1>4. CASE \E outcome : End(p, outcome)
  <2>1. Uniform(c)'
    BY <1>1, <1>3 DEF WaitInv, Uniform, Whole, AnyKey, Keys
  <2> QED
    BY <1>1, <1>4, <2>1, KeyEnd
<1>5. CASE /\ UNCHANGED <<keys, output>>
           /\ pc'[p] \in {"hosts", "installing"}
           /\ \A q \in Processes \ {p} : pc'[q] = pc[q]
  <2>1. WaitInv(p, c)'
    BY <1>1, <1>3, <1>5 DEF WaitInv, Whole, Written
  <2> QED
    BY <2>1, <1>2, <1>5, OneCommandNext DEF EnrichInv, ApplyInv, DeleteInv
<1> QED
  BY <1>4, <1>5
     DEF DontWait, Expire, WaitHosts, WaitInstall, Installed, TimeOut, TypeOK, ProcessType

LEMMA SharedIsUniform ==
  ASSUME NEW c \in Clusters, NEW k \in AnyKey, Shared(c, k), ~Partial(c)
  PROVE  Uniform(c)
<1>1. KeysOf(c) = {} \/ \A i \in 1 .. 3 : object[c][i] # NoKey
  BY DEF Partial
<1>2. CASE KeysOf(c) = {}
  BY <1>2 DEF KeysOf, Uniform, Whole, AnyKey
<1>3. CASE \A i \in 1 .. 3 : object[c][i] # NoKey
  BY <1>3 DEF Shared, Uniform, Whole
<1> QED
  BY <1>1, <1>2, <1>3

\* In whatever step it is, what exists of the cluster has only one key.
LEMMA OneKey ==
  ASSUME TypeOK, NEW c \in Clusters, ClusterInv(c)
  PROVE  \E k \in AnyKey : Shared(c, k)
<1>1. CASE Busy = {}
  BY <1>1 DEF ClusterInv, Uniform, Whole, Shared
<1>2. ASSUME NEW p \in Busy PROVE \E k \in AnyKey : Shared(c, k)
  <2>1. /\ p \in Processes /\ keys[p][c] \in AnyKey
        /\ EnrichInv(p, c) /\ ApplyInv(p, c) /\ WaitInv(p, c) /\ DeleteInv(p, c)
        /\ pc[p] \in {"enrich", "apply", "private", "public", "hosts", "installing", "delete"}
    BY <1>2, KeyTypes DEF ClusterInv, Busy, TypeOK, ProcessType
  <2>2. CASE pc[p] = "enrich"
    BY <2>1, <2>2 DEF EnrichInv, Uniform, Whole, Shared
  <2>3. CASE pc[p] = "apply"
    BY <2>1, <2>3 DEF ApplyInv
  <2>4. CASE pc[p] \in {"private", "public", "hosts", "installing"}
    BY <2>1, <2>4 DEF WaitInv, Whole, Shared
  <2>5. CASE pc[p] = "delete"
    BY <2>1, <2>5 DEF DeleteInv
  <2> QED
    BY <2>1, <2>2, <2>3, <2>4, <2>5
<1> QED
  BY <1>1, <1>2

\* A cluster that isn't torn by the death of a command is whole.
LEMMA KeyDie ==
  ASSUME TypeOK, KeyInv, NEW p \in Processes, Die(p)
  PROVE  KeyInv'
<1> SUFFICES ASSUME NEW c \in Clusters \ torn' PROVE ClusterInv(c)'
  BY DEF KeyInv
<1>1. /\ c \in Clusters \ torn /\ p \in Busy /\ ~Partial(c) /\ End(p, "failed")
      /\ UNCHANGED <<object, generated>>
  BY DEF Die, Busy, hub
<1>2. ClusterInv(c)
  BY <1>1, OneCommand
<1>3. Uniform(c)
  BY <1>1, <1>2, OneKey, SharedIsUniform
<1>4. Uniform(c)'
  BY <1>1, <1>3 DEF Uniform, Whole, AnyKey, Keys
<1> QED
  BY <1>1, <1>4, KeyEnd

\* The objects are deleted one by one, and in the end none is left.
LEMMA KeyDelete ==
  ASSUME TypeOK, KeyInv, NEW p \in Processes, DeleteObject(p)
  PROVE  KeyInv'
<1> SUFFICES ASSUME NEW c \in Clusters \ torn' PROVE ClusterInv(c)'
  BY DEF KeyInv
<1> DEFINE d == cluster[p]
<1>1. p \in Busy /\ pc[p] = "delete" /\ UNCHANGED generated
  BY DEF DeleteObject, Busy
<1>2. /\ d \in Clusters /\ c \in Clusters /\ c \in Nat /\ d \in Nat /\ step[p] \in 1 .. 3
      /\ c <= NumClusters /\ c >= 1 /\ NumClusters \in Nat /\ AnyKey' = AnyKey
      /\ NoKey \in AnyKey
  BY <1>1, ClustersAreNumbers, KeyTypes DEF AnyKey, Keys
<1>3. object' = [object EXCEPT ![d][step[p]] = NoKey]
  <2>1. Deletable(Parts[step[p]])
    BY <1>2 DEF Deletable, Parts
  <2> QED
    BY <2>1 DEF DeleteObject
<1>4. /\ c # d => object'[c] = object[c]
      /\ c = d => /\ object'[c][step[p]] = NoKey
                  /\ \A i \in 1 .. 3 : i # step[p] => object'[c][i] = object[c][i]
  BY <1>2, <1>3 DEF TypeOK, KeyType
<1>5. /\ \A q \in Processes \ {p} : pc[q] = "idle"
      /\ \/ c \notin torn /\ DeleteInv(p, c)
         \/ /\ c = d /\ step[p] = 1 /\ \A i \in 2 .. 3 : object[c][i] = NoKey
  <2>1. CASE c \notin torn
    BY <2>1, <1>1, OneCommand DEF ClusterInv
  <2>2. CASE c \in torn
    BY <2>2 DEF DeleteObject, Busy
  <2> QED
    BY <2>1, <2>2
<1>6. \E k \in AnyKey : Shared(c, k)'
  <2>1. CASE c \notin torn /\ DeleteInv(p, c)
    BY <2>1, <1>1, <1>2, <1>4 DEF DeleteInv, Shared
  <2>2. CASE c = d /\ step[p] = 1 /\ \A i \in 2 .. 3 : object[c][i] = NoKey
    BY <2>2, <1>2, <1>4 DEF Shared
  <2> QED
    BY <2>1, <2>2, <1>5
<1>7. c < d => Whole(c, NoKey)'
  BY <1>1, <1>2, <1>4, <1>5 DEF DeleteInv, Whole
<1>8. c > d => Uniform(c)'
  BY <1>1, <1>2, <1>4, <1>5 DEF DeleteInv, Uniform, Whole
<1>9. c = d => \A i \in 1 .. 3 : i >= step[p] => object'[c][i] = NoKey
  BY <1>1, <1>2, <1>4, <1>5 DEF DeleteInv
<1>10. CASE /\ step[p] > 1
            /\ step' = [step EXCEPT ![p] = @ - 1]
            /\ UNCHANGED <<pc, cluster>>
  <2>1. step'[p] = step[p] - 1 /\ pc'[p] = "delete" /\ cluster'[p] = d
    BY <1>1, <1>10 DEF TypeOK, ProcessType
  <2>2. DeleteInv(p, c)'
    BY <2>1, <1>2, <1>6, <1>7, <1>8, <1>9 DEF DeleteInv
  <2> QED
    BY <2>1, <2>2, <1>5, <1>10, OneCommandNext DEF EnrichInv, ApplyInv, WaitInv
<1>11. CASE /\ step[p] = 1 /\ d < NumClusters
            /\ step' = [step EXCEPT ![p] = 3] /\ cluster' = [cluster EXCEPT ![p] = @ + 1]
            /\ UNCHANGED pc
  <2>1. step'[p] = 3 /\ pc'[p] = "delete" /\ cluster'[p] = d + 1
    BY <1>1, <1>11 DEF TypeOK, ProcessType
  <2>2. c <= d => Whole(c, NoKey)'
    BY <1>2, <1>7, <1>9, <1>11 DEF Whole
  <2>3. DeleteInv(p, c)'
    BY <2>1, <2>2, <1>2, <1>6, <1>8 DEF DeleteInv
  <2> QED
    BY <2>1, <2>3, <1>5, <1>11, OneCommandNext DEF EnrichInv, ApplyInv, WaitInv
<1>12. CASE step[p] = 1 /\ ~(d < NumClusters) /\ End(p, "deleted")
  <2>1. Whole(c, NoKey)'
    BY <1>2, <1>7, <1>9, <1>12 DEF Whole
  <2>2. Uniform(c)'
    BY <2>1, <1>2 DEF Uniform
  <2>3. \A q \in Processes : pc'[q] = "idle"
    BY <1>5, <1>12 DEF End, TypeOK, ProcessType
  <2> QED
    BY <2>2, <2>3, OneCommandNext DEF EnrichInv, ApplyInv, WaitInv, DeleteInv
<1> QED
  BY <1>2, <1>10, <1>11, <1>12 DEF DeleteObject

LEMMA KeyNext == TypeOK /\ KeyInv /\ [Next]_vars => KeyInv'
BY KeyHub, KeyStart, KeyEnrich, KeyApply, KeyWrite, KeyWait, KeyDie, KeyDelete DEF Next, Run

LEMMA KeyAgreement ==
  ASSUME TypeOK, KeyInv
  PROVE  KeysAgree /\ FilesMatch
<1>1. ASSUME NEW c \in Clusters \ torn PROVE Cardinality(KeysOf(c)) <= 1
  <2>1. PICK k \in AnyKey : Shared(c, k)
    BY OneKey DEF KeyInv
  <2>2. KeysOf(c) = {} \/ KeysOf(c) = {k}
    BY <2>1 DEF KeysOf, Shared
  <2>3. Cardinality({}) = 0 /\ Cardinality({k}) = 1
    BY FS_EmptySet, FS_Singleton
  <2> QED
    BY <2>2, <2>3
<1>2. ASSUME NEW p \in output, NEW c \in Clusters \ torn, pc[p] \in {"hosts", "installing"}
      PROVE  /\ files[c].private = files[c].public
             /\ \A i \in 1 .. 3 : object[c][i] = files[c].private
  <2>1. WaitInv(p, c)
    BY DEF KeyInv, ClusterInv, TypeOK, ProcessType
  <2> QED
    BY <2>1, <1>2 DEF WaitInv, Whole, Written
<1> QED
  BY <1>1, <1>2 DEF KeysAgree, FilesMatch

\* The objects of a cluster have the keys of its secret, whatever commands ran,
\* died and ran again, unless one of them died half way through the objects of the
\* cluster or ran at the same time as another one.
THEOREM ClusterKeysAgree == Spec => []KeysAgree
BY TypeInit, TypeNext, KeyInit, KeyNext, KeyAgreement, PTL DEF Spec

\* The files that a command has written have the keys of the cluster.
THEOREM ClusterFilesMatch == Spec => []FilesMatch
BY TypeInit, TypeNext, KeyInit, KeyNext, KeyAgreement, PTL DEF Spec
-----------------------------------------------------------------------------
(* Success means that the clusters are installed. *)

\* The clusters that a command has already waited for are still installed.
ReadyInv ==
  \A p \in Processes : \A c \in Clusters \ torn :
    pc[p] \in {"hosts", "installing"} /\ c < cluster[p] => status[c] = "completed"

LEMMA ReadyInit == Init => ReadyInv
BY DEF Init, ReadyInv

LEMMA ReadyHub ==
  ASSUME TypeOK, ReadyInv, Hub \/ UNCHANGED vars
  PROVE  ReadyInv'
<1>1. /\ UNCHANGED <<torn, pc, cluster>>
      /\ \A c \in Clusters : status[c] = "completed" => status'[c] = "completed"
  BY DEF Hub, Provision, Install, vars, hub, process, TypeOK, HubType
<1> QED
  BY <1>1 DEF ReadyInv

\* A step that leaves the state of the installations, and doesn't mend clusters.
LEMMA ReadyKept ==
  ASSUME TypeOK, ReadyInv, NEW p \in Processes, UNCHANGED status,
         torn \subseteq torn',
         \A q \in Processes \ {p} : pc'[q] = pc[q] /\ cluster'[q] = cluster[q],
         pc'[p] \in {"hosts", "installing"} =>
           \/ cluster'[p] = 1
           \/ /\ pc[p] \in {"hosts", "installing"}
              /\ \/ cluster'[p] = cluster[p]
                 \/ cluster'[p] = cluster[p] + 1 /\ status[cluster[p]] = "completed"
  PROVE  ReadyInv'
<1> SUFFICES ASSUME NEW q \in Processes, NEW c \in Clusters \ torn',
                    pc'[q] \in {"hosts", "installing"}, c < cluster'[q]
             PROVE  status[c] = "completed"
  BY DEF ReadyInv
<1>1. CASE q # p
  BY <1>1 DEF ReadyInv
<1>2. CASE q = p
  <2>1. c \in Nat /\ c >= 1 /\ cluster[p] \in Nat
    BY ClustersAreNumbers DEF TypeOK, ProcessType
  <2>2. CASE c < cluster[p] /\ pc[p] \in {"hosts", "installing"}
    BY <2>2 DEF ReadyInv
  <2>3. CASE c = cluster[p] /\ status[cluster[p]] = "completed"
    BY <2>3
  <2> QED
    BY <1>2, <2>1, <2>2, <2>3
<1> QED
  BY <1>1, <1>2

\* The command that deletes is alone, so no other one has waited for the cluster.
LEMMA ReadyDelete ==
  ASSUME TypeOK, KeyInv, NEW p \in Processes, DeleteObject(p)
  PROVE  ReadyInv'
<1> SUFFICES ASSUME NEW q \in Processes, NEW c \in Clusters \ torn',
                    pc'[q] \in {"hosts", "installing"}
             PROVE  FALSE
  BY DEF ReadyInv
<1>1. pc[p] = "delete" /\ p \in Busy /\ pc'[p] \in {"delete", "idle"}
      /\ \A r \in Processes \ {p} : pc'[r] = pc[r]
  BY DEF DeleteObject, End, Busy, TypeOK, ProcessType
<1>2. Busy = {p} \/ c \notin torn
  BY DEF DeleteObject
<1>3. pc[q] = "idle" \/ q = p
  BY <1>2, <1>1, OneCommand DEF Busy
<1> QED
  BY <1>1, <1>3

LEMMA ReadyNext == TypeOK /\ KeyInv /\ ReadyInv /\ [Next]_vars => ReadyInv'
<1> SUFFICES ASSUME TypeOK, KeyInv, ReadyInv, [Next]_vars PROVE ReadyInv'
  OBVIOUS
<1>1. ASSUME NEW p \in Processes, StartCreate(p) \/ StartDelete(p) PROVE ReadyInv'
  BY <1>1, ReadyKept
     DEF StartCreate, StartDelete, Start, hub, TypeOK, ProcessType, HubType
<1>2. ASSUME NEW p \in Processes,
             Enrich(p) \/ WritePrivateKey(p) \/ WritePublicKey(p) \/ WaitHosts(p) \/ Expire(p)
      PROVE  ReadyInv'
  BY <1>2, ReadyKept
     DEF Enrich, Loop, WritePrivateKey, WritePublicKey, WaitHosts, Expire, hub,
         TypeOK, ProcessType
<1>3. ASSUME NEW p \in Processes, Apply(p) PROVE ReadyInv'
  BY <1>3, ReadyKept DEF Apply, Loop, TypeOK, ProcessType
<1>4. ASSUME NEW p \in Processes, DontWait(p) \/ WaitInstall(p) \/ TimeOut(p) \/ Die(p)
      PROVE  ReadyInv'
  BY <1>4, ReadyKept
     DEF DontWait, WaitInstall, Installed, TimeOut, Die, End, hub, TypeOK, ProcessType
<1> QED
  BY <1>1, <1>2, <1>3, <1>4, ReadyHub, ReadyDelete DEF Next, Run

LEMMA ReadyStep ==
  TypeOK /\ ReadyInv /\ [Next]_vars =>
    \A p \in Processes : result[p] # "ready" /\ result'[p] = "ready" =>
      \A c \in Clusters \ torn : status[c] = "completed"
<1> SUFFICES ASSUME TypeOK, ReadyInv, [Next]_vars, NEW p \in Processes,
                    result[p] # "ready", result'[p] = "ready",
                    NEW c \in Clusters \ torn
             PROVE  status[c] = "completed"
  OBVIOUS
<1>1. result' # result
  OBVIOUS
<1>2. PICK q \in Processes : StartCreate(q) \/ StartDelete(q) \/ Die(q) \/ Expire(q) \/ Run(q)
  BY <1>1 DEF Next, Hub, Provision, Install, vars, process
<1>3. WaitInstall(q) /\ status[cluster[q]] = "completed" /\ Installed(q)
  BY <1>1, <1>2
     DEF StartCreate, StartDelete, Start, Die, Expire, Run, Enrich, Apply, WritePrivateKey,
         WritePublicKey, DontWait, WaitHosts, WaitInstall, TimeOut, DeleteObject, End,
         TypeOK, ProcessType
<1>4. pc[q] = "installing" /\ ~(cluster[q] < NumClusters)
  BY <1>1, <1>3 DEF WaitInstall, Installed
<1>5. c = cluster[q] \/ c < cluster[q]
  BY <1>4, ClustersAreNumbers DEF TypeOK, ProcessType
<1> QED
  BY <1>3, <1>4, <1>5 DEF ReadyInv

\* A command that waits says that the clusters are ready only if all of them were
\* installed at the same time, in spite of the waits that end without an error.
THEOREM ClusterReadyIsInstalled == Spec => ReadyMeansInstalled
<1>1. Spec => [](TypeOK /\ KeyInv /\ ReadyInv)
  BY TypeInit, TypeNext, KeyInit, KeyNext, ReadyInit, ReadyNext, PTL DEF Spec
<1>2. TypeOK /\ ReadyInv /\ [Next]_vars =>
        [\A p \in Processes : result[p] # "ready" /\ result'[p] = "ready" =>
           \A c \in Clusters \ torn : status[c] = "completed"]_vars
  BY ReadyStep
<1> QED
  BY <1>1, <1>2, PTL DEF Spec, ReadyMeansInstalled

-----------------------------------------------------------------------------
(* The keys of a cluster are of no other. *)

\* Where a pair of keys generated for a cluster may be.
Holds(c, k) ==
  \/ \E i \in 1 .. 3 : object[c][i] = k
  \/ \E p \in Processes : keys[p][c] = k
  \/ files[c].private = k \/ files[c].public = k

\* No two clusters have a key in common, in the hub, in the files or in the memory of any
\* command, even if they are torn.
KeysPrivate == \A c, d \in Clusters : \A k \in Keys : Holds(c, k) /\ Holds(d, k) => c = d

\* A step that copies keys within a cluster, and may give a new one to one of them.
LEMMA PrivateCopy ==
  ASSUME TypeOK, KeysPrivate, NEW e \in Clusters, generated' \in {generated, generated + 1},
         \A c \in Clusters : \A k \in Keys' :
           Holds(c, k)' => (k \in Keys /\ Holds(c, k)) \/ (k \notin Keys /\ c = e)
  PROVE  KeysPrivate'
<1> SUFFICES ASSUME NEW c \in Clusters, NEW d \in Clusters, NEW k \in Keys', Holds(c, k)', Holds(d, k)'
             PROVE  c = d
  BY DEF KeysPrivate
<1> QED
  BY DEF KeysPrivate

LEMMA PrivateEnrich ==
  ASSUME TypeOK, KeysPrivate, NEW p \in Processes, Enrich(p)
  PROVE  KeysPrivate'
<1>1. /\ UNCHANGED <<object, files>> /\ SetSSHKeys(p, cluster[p]) /\ cluster[p] \in Clusters
      /\ generated \in Nat
  BY DEF Enrich, hub, TypeOK, KeyType, ProcessType
<1>2. generated' \in {generated, generated + 1}
  BY <1>1 DEF SetSSHKeys
<1>3. ASSUME NEW c \in Clusters, NEW k \in Keys', Holds(c, k)'
      PROVE  (k \in Keys /\ Holds(c, k)) \/ (k \notin Keys /\ c = cluster[p])
  <2>1. CASE object[cluster[p]][3] # NoKey
    <3>1. /\ generated' = generated
          /\ keys' = [keys EXCEPT ![p][cluster[p]] = object[cluster[p]][3]]
      BY <1>1, <2>1 DEF SetSSHKeys
    <3>2. \A q \in Processes : keys'[q][c] = keys[q][c] \/ keys'[q][c] = object[c][3]
      BY <1>1, <3>1 DEF TypeOK, KeyType
    <3> QED
      BY <1>1, <1>3, <3>1, <3>2 DEF Holds, Keys
  <2>2. CASE object[cluster[p]][3] = NoKey
    <3>1. /\ generated' = generated + 1
          /\ keys' = [keys EXCEPT ![p][cluster[p]] = generated + 1]
      BY <1>1, <2>2 DEF SetSSHKeys
    <3>2. CASE k \in Keys
      <4>1. k # generated + 1
        BY <1>1, <3>2 DEF Keys
      <4>2. \A q \in Processes : keys'[q][c] = k => keys[q][c] = k
        BY <1>1, <3>1, <4>1 DEF TypeOK, KeyType
      <4> QED
        BY <1>1, <1>3, <3>2, <4>2 DEF Holds
    <3>3. CASE k \notin Keys
      <4>1. \A i \in 1 .. 3 : object[c][i] # k
        BY <3>3, <1>1 DEF TypeOK, KeyType, Keys, NoKey
      <4>2. files[c].private # k /\ files[c].public # k
        <5>1. files[c] \in [private : {NoKey} \union Keys, public : {NoKey} \union Keys]
          BY DEF TypeOK, KeyType
        <5>2. k # NoKey
          BY DEF Keys, NoKey
        <5> QED
          BY <3>3, <5>1, <5>2
      <4>3. PICK q \in Processes : keys'[q][c] = k
        BY <1>1, <1>3, <4>1, <4>2 DEF Holds
      <4>4. keys[q][c] # k
        BY <3>3 DEF TypeOK, KeyType, Keys, NoKey
      <4> QED
        BY <1>1, <3>1, <3>3, <4>3, <4>4 DEF TypeOK, KeyType
    <3> QED
      BY <3>2, <3>3
  <2> QED
    BY <2>1, <2>2
<1> QED
  BY <1>1, <1>2, <1>3, PrivateCopy

\* The end of a command only forgets.
LEMMA EndForgets ==
  ASSUME TypeOK, NEW p \in Processes, NEW outcome, End(p, outcome) \/ UNCHANGED keys,
         NEW q \in Processes, NEW c \in Clusters
  PROVE  keys'[q][c] \in {keys[q][c], NoKey}
<1>1. CASE UNCHANGED keys
  BY <1>1
<1>2. CASE End(p, outcome)
  <2>1. keys' = [keys EXCEPT ![p] = [d \in Clusters |-> NoKey]]
    BY <1>2 DEF End
  <2>2. q = p => keys'[q][c] = NoKey
    BY <2>1 DEF TypeOK, KeyType
  <2>3. q # p => keys'[q] = keys[q]
    BY <2>1 DEF TypeOK, KeyType
  <2> QED
    BY <2>2, <2>3
<1> QED
  BY <1>1, <1>2

LEMMA PrivateNext == TypeOK /\ KeysPrivate /\ [Next]_vars => KeysPrivate'
<1> SUFFICES ASSUME TypeOK, KeysPrivate, [Next]_vars PROVE KeysPrivate'
  OBVIOUS
<1>0. 1 \in Clusters
  BY ClustersAreNumbers
\* What is left are the steps that only copy, or forget.
<1>1. ASSUME UNCHANGED generated,
             \A c \in Clusters : \A k \in Keys : Holds(c, k)' => Holds(c, k)
      PROVE  KeysPrivate'
  BY <1>1 DEF KeysPrivate, Keys
<1>2. CASE Hub \/ UNCHANGED vars
  BY <1>1, <1>2 DEF Hub, Provision, Install, vars, hub, process, Holds
<1>3. ASSUME NEW p \in Processes, StartCreate(p) \/ StartDelete(p) \/ Expire(p) \/ WaitHosts(p)
      PROVE  KeysPrivate'
  BY <1>1, <1>3 DEF StartCreate, StartDelete, Start, Expire, WaitHosts, hub, Holds
<1>4. ASSUME NEW p \in Processes, NEW outcome, End(p, outcome) \/ UNCHANGED keys,
             UNCHANGED <<object, files, generated>>
      PROVE  KeysPrivate'
  <2>1. \A q \in Processes, c \in Clusters : keys'[q][c] \in {keys[q][c], NoKey}
    BY <1>4, EndForgets
  <2>2. NoKey \notin Keys
    BY DEF Keys, NoKey
  <2> QED
    BY <1>1, <1>4, <2>1, <2>2 DEF Holds
<1>5. ASSUME NEW p \in Processes, Die(p) \/ DontWait(p) \/ TimeOut(p) \/ WaitInstall(p)
      PROVE  KeysPrivate'
  BY <1>4, <1>5 DEF Die, DontWait, TimeOut, WaitInstall, Installed, hub
<1>6. ASSUME NEW p \in Processes, WritePrivateKey(p) \/ WritePublicKey(p)
      PROVE  KeysPrivate'
  <2>1. UNCHANGED <<object, keys, generated>>
    BY <1>6 DEF WritePrivateKey, WritePublicKey, hub
  <2>2. /\ cluster[p] \in Clusters
        /\ files \in [Clusters -> [private : {NoKey} \union Keys, public : {NoKey} \union Keys]]
    BY DEF TypeOK, KeyType, ProcessType
  <2>3. \A c \in Clusters : /\ files'[c].private \in {files[c].private, keys[p][c]}
                           /\ files'[c].public \in {files[c].public, keys[p][c]}
    <3>1. CASE WritePrivateKey(p)
      BY <2>2, <3>1 DEF WritePrivateKey
    <3>2. CASE WritePublicKey(p)
      BY <2>2, <3>2 DEF WritePublicKey
    <3> QED
      BY <1>6, <3>1, <3>2
  <2> QED
    BY <1>1, <2>1, <2>3 DEF Holds
<1>7. ASSUME NEW p \in Processes, Apply(p)
      PROVE  KeysPrivate'
  <2>1. UNCHANGED <<files, keys, generated>>
    BY <1>7 DEF Apply
  <2>2. \A c \in Clusters, i \in 1 .. 3 : object'[c][i] \in {object[c][i], keys[p][c]}
    BY <1>7 DEF Apply, TypeOK, KeyType, ProcessType
  <2> QED
    BY <1>1, <2>1, <2>2 DEF Holds
<1>8. ASSUME NEW p \in Processes, DeleteObject(p)
      PROVE  KeysPrivate'
  <2>1. UNCHANGED <<files, generated>> /\ (UNCHANGED keys \/ End(p, "deleted"))
    BY <1>8 DEF DeleteObject
  <2>2. \A q \in Processes, c \in Clusters : keys'[q][c] \in {keys[q][c], NoKey}
    BY <2>1, EndForgets
  <2>3. \A c \in Clusters, i \in 1 .. 3 : object'[c][i] \in {object[c][i], NoKey}
    BY <1>8 DEF DeleteObject, TypeOK, KeyType, ProcessType
  <2>4. NoKey \notin Keys
    BY DEF Keys, NoKey
  <2> QED
    BY <1>1, <2>1, <2>2, <2>3, <2>4 DEF Holds
<1> QED
  BY <1>2, <1>3, <1>5, <1>6, <1>7, <1>8, PrivateEnrich DEF Next, Run

\* The keys of a cluster are of no other one, wherever they are, and whatever commands
\* overlapped, died or were repeated: no host accepts the key of another cluster.
THEOREM ClusterKeysArePrivate == Spec => []KeysPrivate
<1>1. Init => KeysPrivate
  BY DEF Init, KeysPrivate, Keys
<1> QED
  BY <1>1, TypeInit, TypeNext, PrivateNext, PTL DEF Spec

-----------------------------------------------------------------------------
(* The commands implement the pairs of keys of the clusters. *)

\* What exists of a whole cluster has at most one pair of keys.
LEMMA PairsAreOne ==
  ASSUME TypeOK, KeyInv, NEW c \in Clusters
  PROVE  PairsOf(c) = {} \/ \E k \in Keys : PairsOf(c) = {k}
<1>1. CASE c \in torn
  BY <1>1 DEF PairsOf
<1>2. CASE c \notin torn
  <2>1. PICK k \in AnyKey : Shared(c, k)
    BY <1>2, OneKey DEF KeyInv
  <2> QED
    BY <1>2, <2>1 DEF PairsOf, KeysOf, Shared, AnyKey
<1> QED
  BY <1>1, <1>2

\* The pairs of the step after, cluster by cluster.
LEMMA PairsNext ==
  /\ \A c \in Clusters : Pairs[c] = PairsOf(c) /\ Pairs'[c] = PairsOf(c)'
  /\ Pairs' = [c \in Clusters |-> PairsOf(c)']
  /\ Pairs = [c \in Clusters |-> PairsOf(c)]
BY DEF Pairs

\* A step that leaves the objects as they are.
LEMMA SameObjects ==
  ASSUME TypeOK, UNCHANGED object, generated' \in {generated, generated + 1},
         NEW some \in SUBSET Clusters, torn' = torn \union some,
         generated' = generated \/ some = {}
  PROVE  [Promise!Next]_(Promise!vars)
<1>1. \A c \in Clusters : PairsOf(c)' = IF c \in some THEN {} ELSE PairsOf(c)
  BY DEF PairsOf, KeysOf
<1>2. CASE generated' = generated
  <2>1. Promise!Tear(some)
    BY <1>1, <1>2, PairsNext DEF Promise!Tear
  <2> QED
    BY <2>1 DEF Promise!Next
<1>3. CASE generated' = generated + 1 /\ some = {}
  <2>1. Promise!Issue
    BY <1>1, <1>3, PairsNext DEF Promise!Issue
  <2> QED
    BY <2>1 DEF Promise!Next
<1> QED
  BY <1>2, <1>3

\* A step that changes the objects of one cluster.
LEMMA OnePair ==
  ASSUME NEW e \in Clusters, \A c \in Clusters \ {e} : PairsOf(c)' = PairsOf(c)
  PROVE  Pairs' = [Pairs EXCEPT ![e] = PairsOf(e)']
BY PairsNext

LEMMA ApplyKeepsPairs ==
  ASSUME TypeOK, KeyInv, KeyInv', KeysPrivate, NEW p \in Processes, Apply(p)
  PROVE  [Promise!Next]_(Promise!vars)
<1>0. PICK e \in Clusters : e = cluster[p]
  BY DEF Apply, TypeOK, ProcessType
<1>9. PICK k \in {NoKey} \union Keys : k = keys[p][e]
  BY DEF TypeOK, KeyType
<1>1. /\ step[p] \in 1 .. 3 /\ UNCHANGED <<torn, generated, keys>>
      /\ pc[p] = "apply"
  BY DEF Apply, TypeOK, ProcessType
<1>2. /\ object' = IF object[e][step[p]] # NoKey THEN object
                   ELSE [object EXCEPT ![e][step[p]] = k]
  BY <1>0, <1>9 DEF Apply
<1>3. CASE e \in torn \/ object' = object
  <2>1. \A c \in Clusters : PairsOf(c)' = PairsOf(c)
    <3>1. \A c \in Clusters : c \notin torn => object'[c] = object[c]
      BY <1>1, <1>2, <1>3 DEF TypeOK, KeyType
    <3> QED
      BY <1>1, <3>1 DEF PairsOf, KeysOf
  <2>2. Pairs' = Pairs
    BY <2>1, PairsNext
  <2> QED
    BY <1>1, <2>2 DEF Promise!vars
<1>4. CASE e \notin torn /\ object' = [object EXCEPT ![e][step[p]] = k]
  <2>1. k # NoKey /\ k \in Keys /\ Shared(e, k)
    BY <1>0, <1>9, <1>1, <1>4, OneCommand, KeyTypes DEF ClusterInv, ApplyInv, Busy, AnyKey
  <2>2. \A c \in Clusters \ {e} : PairsOf(c)' = PairsOf(c)
    BY <1>1, <1>4 DEF PairsOf, KeysOf, TypeOK, KeyType
  <2>3. PairsOf(e)' = {k}
    <3>1. object'[e][step[p]] = k /\ \A i \in 1 .. 3 : object'[e][i] \in {object[e][i], k}
      BY <1>1, <1>4 DEF TypeOK, KeyType
    <3> QED
      BY <1>1, <1>4, <2>1, <3>1 DEF PairsOf, KeysOf, Shared
  <2>4. PairsOf(e) \in {{}, {k}}
    BY <1>4, <2>1 DEF PairsOf, KeysOf, Shared
  <2>5. \A d \in Clusters \ {e} : k \notin PairsOf(d)
    BY <1>0, <1>9, <1>1, <2>1 DEF KeysPrivate, Holds, PairsOf, KeysOf
  <2>6. CASE PairsOf(e) = {}
    <3>1. k \in 1 .. generated
      BY <2>1 DEF Keys
    <3>2. Promise!Create(e, k)
      BY <1>1, <1>4, <2>2, <2>3, <2>5, <2>6, OnePair, PairsNext DEF Promise!Create
    <3> QED
      BY <1>1, <3>1, <3>2 DEF Promise!Next
  <2>7. CASE PairsOf(e) = {k}
    BY <1>1, <2>2, <2>3, <2>7, PairsNext DEF Promise!vars
  <2> QED
    BY <2>4, <2>6, <2>7
<1> QED
  BY <1>2, <1>3, <1>4

LEMMA DeleteKeepsPairs ==
  ASSUME TypeOK, KeyInv, KeyInv', NEW p \in Processes, DeleteObject(p)
  PROVE  [Promise!Next]_(Promise!vars)
<1>0. PICK e \in Clusters : e = cluster[p]
  BY DEF DeleteObject, TypeOK, ProcessType
<1>1. step[p] \in 1 .. 3 /\ UNCHANGED generated
  BY DEF DeleteObject, TypeOK, ProcessType
<1>2. object' = [object EXCEPT ![e][step[p]] = NoKey]
  <2>1. Deletable(Parts[step[p]])
    BY <1>1 DEF Deletable, Parts
  <2> QED
    BY <1>0, <2>1 DEF DeleteObject
<1>3. /\ \A c \in Clusters \ {e} : object'[c] = object[c]
      /\ \A i \in 1 .. 3 : object'[e][i] = IF i = step[p] THEN NoKey ELSE object[e][i]
  BY <1>1, <1>2 DEF TypeOK, KeyType
<1>4. \/ torn' = torn
      \/ torn' = torn \ {e} /\ step[p] = 1 /\ \A i \in 2 .. 3 : object[e][i] = NoKey
  BY <1>0 DEF DeleteObject
<1>5. \A c \in Clusters \ {e} : PairsOf(c)' = PairsOf(c)
  BY <1>3, <1>4 DEF PairsOf, KeysOf
<1>6. CASE torn' = torn
  <2>1. PairsOf(e)' \subseteq PairsOf(e)
    BY <1>3, <1>6 DEF PairsOf, KeysOf
  <2>2. PairsOf(e)' = PairsOf(e) \/ (PairsOf(e)' = {} /\ PairsOf(e) # {})
    BY <1>1, <2>1, PairsAreOne
  <2>3. CASE PairsOf(e)' = PairsOf(e)
    BY <1>1, <1>5, <1>6, <2>3, PairsNext DEF Promise!vars
  <2>4. CASE PairsOf(e)' = {} /\ PairsOf(e) # {}
    <3>1. Promise!Delete(e)
      BY <1>1, <1>5, <1>6, <2>4, OnePair, PairsNext DEF Promise!Delete
    <3> QED
      BY <1>1, <3>1 DEF Promise!Next
  <2> QED
    BY <2>2, <2>3, <2>4
<1>7. CASE /\ torn' = torn \ {e} /\ e \in torn /\ step[p] = 1
           /\ \A i \in 2 .. 3 : object[e][i] = NoKey
  <2>1. PairsOf(e) = {} /\ PairsOf(e)' = {}
    BY <1>3, <1>7 DEF PairsOf, KeysOf
  <2>2. Promise!Mend(e)
    BY <1>1, <1>5, <1>7, <2>1, PairsNext DEF Promise!Mend
  <2> QED
    BY <1>1, <2>2 DEF Promise!Next
<1> QED
  BY <1>4, <1>6, <1>7

LEMMA StepKeepsPairs ==
  ASSUME TypeOK, KeyInv, KeyInv', KeysPrivate, [Next]_vars
  PROVE  [Promise!Next]_(Promise!vars)
<1>1. CASE Hub \/ UNCHANGED vars
  <2>1. UNCHANGED <<object, generated, torn>>
    BY <1>1 DEF Hub, Provision, Install, vars, hub
  <2>2. {} \in SUBSET Clusters /\ torn' = torn \union {}
    BY <2>1
  <2> QED
    BY <2>1, <2>2, SameObjects
<1>2. ASSUME NEW p \in Processes, StartCreate(p) \/ StartDelete(p) \/ Die(p)
      PROVE  [Promise!Next]_(Promise!vars)
  <2>1. UNCHANGED <<object, generated>>
    BY <1>2 DEF StartCreate, StartDelete, Start, Die, hub
  <2>2. \E some \in SUBSET Clusters : torn' = torn \union some
    <3>1. torn \subseteq Clusters
      BY DEF TypeOK, HubType
    <3> QED
      BY <1>2, <3>1 DEF StartCreate, StartDelete, Start, Die
  <2> QED
    BY <2>1, <2>2, SameObjects
<1>3. ASSUME NEW p \in Processes,
             \/ Expire(p) \/ Enrich(p) \/ WritePrivateKey(p) \/ WritePublicKey(p)
             \/ DontWait(p) \/ WaitHosts(p) \/ WaitInstall(p) \/ TimeOut(p)
      PROVE  [Promise!Next]_(Promise!vars)
  <2>1. UNCHANGED <<object, torn>> /\ generated' \in {generated, generated + 1}
    BY <1>3 DEF Expire, Enrich, SetSSHKeys, WritePrivateKey, WritePublicKey, DontWait, WaitHosts,
                WaitInstall, TimeOut, hub
  <2>2. {} \in SUBSET Clusters /\ torn' = torn \union {}
    BY <2>1
  <2> QED
    BY <2>1, <2>2, SameObjects
<1> QED
  BY <1>1, <1>2, <1>3, ApplyKeepsPairs, DeleteKeepsPairs DEF Next, Run

\* The commands implement the pairs of keys of the clusters: a whole cluster has one pair of
\* its own from its creation to its deletion, whatever is repeated, killed or left over.
THEOREM CommandsImplementClusterKeys == Spec => ImplementsClusterKeys
<1>1. Init => Promise!Init
  BY PairsNext DEF Init, Promise!Init, PairsOf, KeysOf
<1> QED
  BY <1>1, TypeInit, TypeNext, KeyInit, KeyNext, ClusterKeysArePrivate, StepKeepsPairs, PTL
  DEF Spec, ImplementsClusterKeys, Promise!Spec

-----------------------------------------------------------------------------
(* The length of a command. *)

\* The clusters that come after the one of the command.
After(p) == NumClusters - cluster[p]

\* The steps that the command of the process can still take, the end of its time included.
Left(p) ==
  CASE pc[p] = "enrich"     -> After(p) + 7 * NumClusters + 2
    [] pc[p] = "apply"      -> 3 * After(p) + (4 - step[p]) + 4 * NumClusters + 1
    [] pc[p] = "private"    -> 2 * After(p) + 2 * NumClusters + 3
    [] pc[p] = "public"     -> 2 * After(p) + 2 * NumClusters + 2
    [] pc[p] = "hosts"      -> 2 * After(p) + 2 + (IF expired[p] = "no" THEN 1 ELSE 0)
    [] pc[p] = "installing" -> 2 * After(p) + 1 + (IF expired[p] = "no" THEN 1 ELSE 0)
    [] pc[p] = "delete"     -> 3 * After(p) + step[p]
    [] OTHER                -> 0

\* Where the command of the process is.
Place(p) == <<pc[p], cluster[p], step[p], expired[p]>>

\* A command that moves comes closer to its end, whatever the other ones do.
Advances ==
  \A p \in Processes :
    Place(p)' # Place(p) => pc[p] = "idle" \/ Left(p)' < Left(p)

\* No command takes more steps than this.
LeftBounded ==
  \A p \in Processes : Left(p) \in 0 .. 8 * NumClusters + 1 /\ (Left(p) = 0 <=> pc[p] = "idle")

LEMMA LeftIsBounded ==
  ASSUME TypeOK
  PROVE  LeftBounded
<1> SUFFICES ASSUME NEW p \in Processes
             PROVE  Left(p) \in 0 .. 8 * NumClusters + 1 /\ (Left(p) = 0 <=> pc[p] = "idle")
  BY DEF LeftBounded
<1>1. /\ NumClusters \in Nat \ {0} /\ cluster[p] \in 1 .. NumClusters /\ step[p] \in 1 .. 3
      /\ pc[p] \in {"idle", "enrich", "apply", "private", "public", "hosts", "installing", "delete"}
  BY CreateClusterAssumption DEF TypeOK, ProcessType, Clusters
<1>2. After(p) \in 0 .. NumClusters - 1
  BY <1>1 DEF After
<1> QED
  BY <1>1, <1>2 DEF Left

\* A process that another one leaves as it is.
LEMMA OthersStay ==
  ASSUME TypeOK, NEW p \in Processes, NEW q \in Processes \ {p},
         StartCreate(p) \/ StartDelete(p) \/ Die(p) \/ Expire(p) \/ Run(p)
  PROVE  Place(q)' = Place(q)
  BY DEF StartCreate, StartDelete, Start, Die, End, Expire, Run, Enrich, Apply, Loop,
         WritePrivateKey, WritePublicKey, DontWait, WaitHosts, WaitInstall, TimeOut, Installed,
         DeleteObject, Place, TypeOK, ProcessType

LEMMA CommandAdvances ==
  ASSUME TypeOK, NEW p \in Processes, Die(p) \/ Expire(p) \/ Run(p)
  PROVE  Left(p)' < Left(p)
<1>1. /\ NumClusters \in Nat \ {0} /\ cluster[p] \in 1 .. NumClusters /\ step[p] \in 1 .. 3
      /\ pc \in [Processes -> {"idle", "enrich", "apply", "private", "public", "hosts",
                               "installing", "delete"}]
      /\ cluster \in [Processes -> 1 .. NumClusters] /\ step \in [Processes -> 1 .. 3]
      /\ expired \in [Processes -> {"no", "closed", "stuck"}]
      /\ pc[p] \notin {"apply", "delete"} => step[p] = 1
      /\ pc[p] \notin {"hosts", "installing"} => expired[p] = "no"
  BY CreateClusterAssumption DEF TypeOK, ProcessType, Clusters, Forgotten
<1>2. After(p) \in 0 .. NumClusters - 1
  BY <1>1 DEF After
<1>3. ASSUME NEW outcome, End(p, outcome), pc[p] # "idle"
      PROVE  Left(p)' < Left(p)
  <2>1. Left(p)' = 0
    BY <1>1, <1>3 DEF End, Left
  <2>2. Left(p) \in Nat /\ Left(p) # 0
    BY <1>1, <1>3, LeftIsBounded DEF LeftBounded
  <2> QED
    BY <2>1, <2>2
<1>4. CASE Die(p) \/ DontWait(p) \/ TimeOut(p)
  BY <1>3, <1>4 DEF Die, DontWait, TimeOut
<1>5. CASE Expire(p)
  BY <1>1, <1>2, <1>5 DEF Expire, Left, After
<1>6. CASE Enrich(p)
  BY <1>1, <1>2, <1>6 DEF Enrich, Loop, Left, After
<1>7. CASE Apply(p)
  BY <1>1, <1>2, <1>7 DEF Apply, Loop, Left, After
<1>8. CASE WritePrivateKey(p) \/ WritePublicKey(p)
  BY <1>1, <1>2, <1>8 DEF WritePrivateKey, WritePublicKey, Left, After
<1>9. CASE WaitHosts(p)
  BY <1>1, <1>2, <1>9 DEF WaitHosts, Left, After
<1>10. CASE WaitInstall(p)
  <2>1. CASE cluster[p] < NumClusters /\ Installed(p)
    BY <1>1, <1>2, <1>10, <2>1 DEF WaitInstall, Installed, Left, After
  <2>2. CASE \E outcome : End(p, outcome)
    BY <1>3, <1>10, <2>2 DEF WaitInstall
  <2> QED
    BY <1>10, <2>1, <2>2 DEF WaitInstall, Installed
<1>11. CASE DeleteObject(p)
  <2>1. CASE step[p] > 1 \/ cluster[p] < NumClusters
    BY <1>1, <1>2, <1>11, <2>1 DEF DeleteObject, Left, After
  <2>2. CASE End(p, "deleted")
    BY <1>3, <1>11, <2>2 DEF DeleteObject
  <2> QED
    BY <1>1, <1>11, <2>1, <2>2 DEF DeleteObject
<1> QED
  BY <1>4, <1>5, <1>6, <1>7, <1>8, <1>9, <1>10, <1>11 DEF Run

\* Commands are finite: each step of one, whatever the others and the hub do, brings it closer
\* to its end, and there are at most eight for each cluster and one more (create_cluster_cmd.go
\* and delete_cluster_cmd.go: the loops over the clusters, the templates and the waits).
THEOREM CommandsAreFinite == Spec => [](LeftBounded) /\ [][Advances]_vars
<1>1. TypeOK => LeftBounded
  BY LeftIsBounded
<1>2. TypeOK /\ [Next]_vars => [Advances]_vars
  <2> SUFFICES ASSUME TypeOK, Next PROVE Advances
    BY DEF vars
  <2>1. CASE Hub
    BY <2>1 DEF Hub, Provision, Install, process, Advances, Place
  <2>2. ASSUME NEW p \in Processes,
               StartCreate(p) \/ StartDelete(p) \/ Die(p) \/ Expire(p) \/ Run(p)
        PROVE  Advances
    <3>1. \A q \in Processes \ {p} : Place(q)' = Place(q)
      BY <2>2, OthersStay
    <3>2. pc[p] = "idle" \/ Left(p)' < Left(p)
      BY <2>2, CommandAdvances DEF StartCreate, StartDelete, Start
    <3> QED
      BY <3>1, <3>2 DEF Advances
  <2> QED
    BY <2>1, <2>2 DEF Next
<1> QED
  BY <1>1, <1>2, ClusterTypeCorrect, PTL DEF Spec
=============================================================================
