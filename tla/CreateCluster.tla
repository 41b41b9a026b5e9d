------------------------------ MODULE CreateCluster ------------------------------
(***************************************************************************)
(* The commands `create cluster` and `delete cluster`, of                  *)
(* ztp/internal/cmd/cluster, and the SSH keys of the clusters: the enricher*)
(* takes them from the secret of the cluster or generates them, and the    *)
(* applier puts them in three objects, the last of which is that secret.   *)
(*                                                                         *)
(* Several commands may run at the same time, and each may be killed at any*)
(* point.  The details of the applier are in the module Applier: here it   *)
(* creates the objects that don't exist, in the order of the templates, and*)
(* deletes them in the reverse order.                                      *)
(***************************************************************************)
EXTENDS Naturals, FiniteSets, Sequences

CONSTANTS
  NumClusters,   \* the clusters of the configuration are numbered
  Processes,     \* that run the commands
  MaxRuns        \* bound: commands run

ASSUME CreateClusterAssumption ==
  /\ NumClusters \in Nat \ {0}
  /\ MaxRuns \in Nat

Clusters == 1 .. NumClusters

\* The objects that hold the keys, in the order of the templates: the public one
\* is in the AgentClusterInstall and in the InfraEnv, and both are in the secret.
Parts == <<"install", "infra", "secret">>
NoKey == 0

VARIABLES
  object,      \* hub: the key in each of the parts of each cluster
  generated,   \* pairs of keys generated so far; a pair is known by its number
  files,       \* the private and the public key in the output files of each cluster
  status,      \* hub: the state of the installation of each cluster
  provisioned, \* hub: the clusters whose hosts are all provisioned
  pc,          \* what each process is doing
  cluster,     \* the cluster that each process is working with
  step,        \* the part of the cluster that comes next
  keys,        \* the keys that each process has for each cluster
  output,      \* the processes that were given the flag --output
  expired,     \* no, or what the end of the wait does to the watch: closed or stuck
  result,      \* of the last command of each process
  runs,        \* commands run so far
  torn         \* history: clusters whose objects may be of different commands

hub == <<object, status, provisioned>>
process == <<pc, cluster, step, keys, output, expired, result>>
vars == <<hub, process, generated, files, runs, torn>>

-----------------------------------------------------------------------------
KeysOf(c) == {object[c][i] : i \in 1 .. 3} \ {NoKey}

\* Some of the objects of the cluster exist, but not all of them.
Partial(c) == KeysOf(c) # {} /\ \E i \in 1 .. 3 : object[c][i] = NoKey

Busy == {p \in Processes : pc[p] # "idle"}

Init ==
  /\ object = [c \in Clusters |-> [i \in 1 .. 3 |-> NoKey]]
  /\ generated = 0
  /\ files = [c \in Clusters |-> [private |-> NoKey, public |-> NoKey]]
  /\ status = [c \in Clusters |-> "none"] /\ provisioned = {}
  /\ pc = [p \in Processes |-> "idle"]
  /\ cluster = [p \in Processes |-> 1] /\ step = [p \in Processes |-> 1]
  /\ keys = [p \in Processes |-> [c \in Clusters |-> NoKey]]
  /\ output = {} /\ expired = [p \in Processes |-> "no"]
  /\ result = [p \in Processes |-> "none"]
  /\ runs = 0 /\ torn = {}

-----------------------------------------------------------------------------
(* The hub installs a cluster whose objects exist. *)

Provision(c) ==
  /\ object[c][2] # NoKey /\ c \notin provisioned
  /\ provisioned' = provisioned \union {c}
  /\ UNCHANGED <<object, status, process, generated, files, runs, torn>>

Install(c, outcome) ==
  /\ object[c][1] # NoKey /\ c \in provisioned /\ status[c] = "none"
  /\ status' = [status EXCEPT ![c] = outcome]
  /\ UNCHANGED <<object, provisioned, process, generated, files, runs, torn>>

-----------------------------------------------------------------------------
(* Running commands. *)

\* The objects of a cluster that two commands may create can be of both.
Start(p, part, first) ==
  /\ pc[p] = "idle" /\ runs < MaxRuns
  /\ runs' = runs + 1
  /\ pc' = [pc EXCEPT ![p] = part]
  /\ step' = [step EXCEPT ![p] = first]
  /\ result' = [result EXCEPT ![p] = "none"]
  /\ torn' = IF Busy = {} THEN torn ELSE Clusters
  /\ UNCHANGED <<hub, cluster, keys, expired, generated, files>>

StartCreate(p) ==
  /\ Start(p, "enrich", 1)
  /\ output' \in {output, output \union {p}}

StartDelete(p) == Start(p, "delete", 3) /\ UNCHANGED output

\* The memory of the command goes away with it.
End(p, outcome) ==
  /\ pc' = [pc EXCEPT ![p] = "idle"]
  /\ cluster' = [cluster EXCEPT ![p] = 1] /\ step' = [step EXCEPT ![p] = 1]
  /\ keys' = [keys EXCEPT ![p] = [c \in Clusters |-> NoKey]]
  /\ output' = output \ {p} /\ expired' = [expired EXCEPT ![p] = "no"]
  /\ result' = [result EXCEPT ![p] = outcome]

\* The command is killed, or a step of it fails, with the objects as they are.
Die(p) ==
  /\ pc[p] # "idle"
  /\ End(p, "failed")
  /\ torn' = torn \union {c \in Clusters : Partial(c)}
  /\ UNCHANGED <<hub, generated, files, runs>>

-----------------------------------------------------------------------------
(* create cluster *)

\* Mutant of SetSSHKeys: the secret isn't looked at.
SetSSHKeysAfresh(p, c) ==
  /\ keys' = [keys EXCEPT ![p][c] = generated + 1]
  /\ generated' = generated + 1

\* setSSHKeys: the keys of the secret, or new ones if it doesn't exist.
SetSSHKeys(p, c) ==
  IF object[c][3] # NoKey
  THEN keys' = [keys EXCEPT ![p][c] = object[c][3]] /\ UNCHANGED generated
  ELSE /\ keys' = [keys EXCEPT ![p][c] = generated + 1]
       /\ generated' = generated + 1

\* Mutant of Loop: it does one iteration too many.
LoopTooFar(p, next) ==
  IF cluster[p] <= NumClusters
  THEN cluster' = [cluster EXCEPT ![p] = @ + 1] /\ UNCHANGED pc
  ELSE cluster' = [cluster EXCEPT ![p] = 1] /\ pc' = [pc EXCEPT ![p] = next]

\* The loops over the clusters: one more cluster, or what comes after the loop.
Loop(p, next) ==
  IF cluster[p] < NumClusters
  THEN cluster' = [cluster EXCEPT ![p] = @ + 1] /\ UNCHANGED pc
  ELSE cluster' = [cluster EXCEPT ![p] = 1] /\ pc' = [pc EXCEPT ![p] = next]

\* Enrich does all the clusters before any is deployed.
Enrich(p) ==
  /\ pc[p] = "enrich"
  /\ SetSSHKeys(p, cluster[p])
  /\ Loop(p, "apply")
  /\ UNCHANGED <<hub, step, output, expired, result, files, runs, torn>>

\* deploy: the objects that exist are left as they are.
Apply(p) ==
  /\ pc[p] = "apply"
  /\ LET c == cluster[p] IN
     /\ object' = IF object[c][step[p]] # NoKey THEN object
                  ELSE [object EXCEPT ![c][step[p]] = keys[p][c]]
     /\ IF step[p] < 3
        THEN /\ step' = [step EXCEPT ![p] = @ + 1]
             /\ UNCHANGED <<pc, cluster>>
        ELSE /\ step' = [step EXCEPT ![p] = 1]
             /\ Loop(p, IF p \in output THEN "private" ELSE "hosts")
  /\ UNCHANGED <<status, provisioned, keys, output, expired, result, generated, files, runs,
                 torn>>

\* writeOutput writes two files for each cluster.
WritePrivateKey(p) ==
  /\ pc[p] = "private"
  /\ files' = [files EXCEPT ![cluster[p]].private = keys[p][cluster[p]]]
  /\ pc' = [pc EXCEPT ![p] = "public"]
  /\ UNCHANGED <<hub, cluster, step, keys, output, expired, result, generated, runs, torn>>

WritePublicKey(p) ==
  /\ pc[p] = "public"
  /\ files' = [files EXCEPT ![cluster[p]].public = keys[p][cluster[p]]]
  /\ IF cluster[p] < NumClusters
     THEN /\ cluster' = [cluster EXCEPT ![p] = @ + 1]
          /\ pc' = [pc EXCEPT ![p] = "private"]
     ELSE /\ cluster' = [cluster EXCEPT ![p] = 1]
          /\ pc' = [pc EXCEPT ![p] = "hosts"]
  /\ UNCHANGED <<hub, step, keys, output, expired, result, generated, runs, torn>>

\* The flag --wait is zero.
DontWait(p) ==
  /\ pc[p] = "hosts" /\ cluster[p] = 1 /\ expired[p] = "no"
  /\ End(p, "ok")
  /\ UNCHANGED <<hub, generated, files, runs, torn>>

\* The time to wait ends: the watch closes its channel, or it was restarting and
\* leaves it open (see RestartableWatch).
Expire(p) ==
  /\ pc[p] \in {"hosts", "installing"} /\ expired[p] = "no"
  /\ \E what \in {"closed", "stuck"} : expired' = [expired EXCEPT ![p] = what]
  /\ UNCHANGED <<hub, pc, cluster, step, keys, output, result, generated, files, runs, torn>>

\* Mutant of WaitHosts: the end of the time to wait isn't noticed.
WaitHostsForEver(p) ==
  /\ pc[p] = "hosts" /\ expired[p] # "stuck"
  /\ cluster[p] \in provisioned
  /\ pc' = [pc EXCEPT ![p] = "installing"]
  /\ UNCHANGED <<hub, cluster, step, keys, output, expired, result, generated, files, runs,
                 torn>>

\* waitHosts: it also returns nil when the channel is closed.
WaitHosts(p) ==
  /\ pc[p] = "hosts" /\ expired[p] # "stuck"
  /\ cluster[p] \in provisioned \/ expired[p] = "closed"
  /\ pc' = [pc EXCEPT ![p] = "installing"]
  /\ UNCHANGED <<hub, cluster, step, keys, output, expired, result, generated, files, runs,
                 torn>>

\* The wait for a cluster has succeeded.
Installed(p) ==
  IF cluster[p] < NumClusters
  THEN /\ cluster' = [cluster EXCEPT ![p] = @ + 1] /\ pc' = [pc EXCEPT ![p] = "hosts"]
       /\ UNCHANGED <<step, keys, output, expired, result>>
  ELSE End(p, "ready")

\* Mutant of TimeOut: it isn't reported.
TimeOutSilently(p) ==
  /\ pc[p] = "installing" /\ expired[p] = "closed"
  /\ Installed(p)
  /\ UNCHANGED <<hub, generated, files, runs, torn>>

\* waitInstall: the channel is closed, or the watch can't even be created, or the
\* installation completed too late.
TimeOut(p) ==
  /\ pc[p] = "installing" /\ expired[p] = "closed"
  /\ End(p, "failed")
  /\ UNCHANGED <<hub, generated, files, runs, torn>>

\* waitInstall sees the final status of the installation in time.
WaitInstall(p) ==
  /\ pc[p] = "installing" /\ expired[p] = "no"
  /\ \/ status[cluster[p]] = "error" /\ End(p, "failed")
     \/ status[cluster[p]] = "completed" /\ Installed(p)
  /\ UNCHANGED <<hub, generated, files, runs, torn>>

-----------------------------------------------------------------------------
(* delete cluster *)

\* Mutant of Deletable: the InfraEnv is skipped, instead of the ClusterDeployment.
DeletableWrong(part) == part # "infra"

\* The only object that isn't deleted directly is the ClusterDeployment, that has
\* no keys and goes with the namespace.
Deletable(part) == part # "deployment"

\* A cluster that is deleted starts afresh, if no other command is running.
DeleteObject(p) ==
  /\ pc[p] = "delete"
  /\ LET c == cluster[p]
         left == IF Deletable(Parts[step[p]]) THEN NoKey ELSE object[c][step[p]]
     IN
     /\ object' = [object EXCEPT ![c][step[p]] = left]
     /\ status' = IF step[p] = 1 THEN [status EXCEPT ![c] = "none"] ELSE status
     /\ provisioned' = IF step[p] = 2 THEN provisioned \ {c} ELSE provisioned
     /\ torn' = IF step[p] = 1 /\ Busy = {p} /\ \A i \in 2 .. 3 : object[c][i] = NoKey
                THEN torn \ {c} ELSE torn
     /\ IF step[p] > 1
        THEN /\ step' = [step EXCEPT ![p] = @ - 1]
             /\ UNCHANGED <<pc, cluster, keys, output, expired, result>>
        ELSE IF c < NumClusters
        THEN /\ step' = [step EXCEPT ![p] = 3] /\ cluster' = [cluster EXCEPT ![p] = @ + 1]
             /\ UNCHANGED <<pc, keys, output, expired, result>>
        ELSE End(p, "deleted")
  /\ UNCHANGED <<generated, files, runs>>

-----------------------------------------------------------------------------
Hub == \E c \in Clusters : Provision(c) \/ \E outcome \in {"completed", "error"} : Install(c, outcome)

Run(p) ==
  \/ Enrich(p) \/ Apply(p)
  \/ WritePrivateKey(p) \/ WritePublicKey(p)
  \/ DontWait(p) \/ WaitHosts(p) \/ WaitInstall(p) \/ TimeOut(p)
  \/ DeleteObject(p)

Next ==
  \/ Hub
  \/ \E p \in Processes : StartCreate(p) \/ StartDelete(p) \/ Die(p) \/ Expire(p) \/ Run(p)

Spec == Init /\ [][Next]_vars

\* A command goes on till it ends, and the time to wait passes.
FairSpec ==
  /\ Spec
  /\ \A p \in Processes : WF_vars(Run(p)) /\ WF_vars(Expire(p))

-----------------------------------------------------------------------------
(* Properties. *)

Keys == 1 .. generated

KeyType ==
  /\ generated \in Nat
  /\ object \in [Clusters -> [1 .. 3 -> {NoKey} \union Keys]]
  /\ files \in [Clusters -> [private : {NoKey} \union Keys, public : {NoKey} \union Keys]]
  /\ keys \in [Processes -> [Clusters -> {NoKey} \union Keys]]

HubType ==
  /\ status \in [Clusters -> {"none", "completed", "error"}]
  /\ provisioned \subseteq Clusters
  /\ runs \in 0 .. MaxRuns
  /\ torn \subseteq Clusters

ProcessType ==
  /\ pc \in [Processes -> {"idle", "enrich", "apply", "private", "public", "hosts", "installing",
                           "delete"}]
  /\ cluster \in [Processes -> Clusters]
  /\ step \in [Processes -> 1 .. 3]
  /\ output \subseteq Processes
  /\ expired \in [Processes -> {"no", "closed", "stuck"}]
  /\ result \in [Processes -> {"none", "ok", "ready", "deleted", "failed"}]

\* A command starts without anything that a previous one remembered.
Forgotten(p) ==
  /\ pc[p] \notin {"apply", "delete"} => step[p] = 1
  /\ pc[p] \notin {"hosts", "installing"} => expired[p] = "no"
  /\ pc[p] = "idle" => cluster[p] = 1 /\ p \notin output
  /\ pc[p] \in {"idle", "delete"} => \A c \in Clusters : keys[p][c] = NoKey
  /\ pc[p] # "idle" => result[p] = "none"

TypeOK == KeyType /\ HubType /\ ProcessType /\ \A p \in Processes : Forgotten(p)

\* The keys that the hosts of a cluster accept (AgentClusterInstall and InfraEnv)
\* are the ones that its secret keeps (enricher.go, setSSHKeys), through creations,
\* deletions and creations again, unless a command died half way through the
\* objects of the cluster or ran at the same time as another one.
KeysAgree == \A c \in Clusters \ torn : Cardinality(KeysOf(c)) <= 1

\* Each step of the commands is one on the pairs of keys of whole clusters: a cluster gets a
\* pair of its own, keeps it till it is deleted, whatever creations are repeated meanwhile
\* with the secret or without it, and starts again with none (enricher.go, setSSHKeys).
PairsOf(c) == IF c \in torn THEN {} ELSE KeysOf(c)
Pairs == [c \in Clusters |-> PairsOf(c)]
Promise == INSTANCE ClusterKeys WITH pairs <- Pairs,
                                    issued <- generated
ImplementsClusterKeys == Promise!Spec

\* What a command has written to the output files of a cluster opens its hosts:
\* the keys may be of the secret of a previous command, or new.
FilesMatch ==
  \A p \in output : \A c \in Clusters \ torn :
    pc[p] \in {"hosts", "installing"} =>
      /\ files[c].private = files[c].public
      /\ \A i \in 1 .. 3 : object[c][i] = files[c].private

\* The same, whatever happened before (create_cluster_cmd.go: "Wrote SSH private
\* key for cluster ..."), which the code doesn't ensure.
FilesAlwaysMatch ==
  \A p \in output : \A c \in Clusters :
    Busy = {p} /\ pc[p] \in {"hosts", "installing"} => files[c].private = object[c][2]

\* A command that waits reports success only if every cluster was installed, even
\* though waitHosts doesn't tell that the time to wait has ended.
ReadyMeansInstalled ==
  [][\A p \in Processes : result[p] # "ready" /\ result'[p] = "ready" =>
       \A c \in Clusters \ torn : status[c] = "completed"]_vars

\* A command ends, by the end of the time to wait at the latest, unless that finds
\* the watch restarting.
CommandEnds ==
  \A p \in Processes : pc[p] # "idle" ~> (pc[p] = "idle" \/ expired[p] = "stuck")
=============================================================================
