# A TLA+ model of ztp-pipeline-relocatable

The program deploys OpenShift clusters from a hub. Its core is the Go tool `ztp`
(`ztp/internal`), whose commands create and delete Kubernetes objects and wait for
controllers that they don't control. This directory models what is hard in it: commands that
are killed and repeated, watches that end and restart, objects that take time to go away, and
several commands at the same time. TLC checks the models on small instances, and TLAPS proves
their safety properties for any instance.

Read `RestartableWatch.tla`, `ObjectSet.tla`, `Applier.tla`, `ClusterKeys.tla`,
`CreateCluster.tla`, `TrustStore.tla`, `RegistryTool.tla`, `CreateRegistry.tla`, `Storage.tla`,
`Enricher.tla`, `AddOns.tla`, `ChangeDomain.tla` and `Persist.tla` in this order; each starts with what
it models, and those that are checked end with their properties. `*Proofs.tla` have the theorems, `MC*.tla`
and `*.cfg` the instances for TLC. Run `tlc -config X.cfg M` and `tlapm MProofs.tla`.

## 1. The system

| Component | State that it keeps | Operations | Interacts with |
|---|---|---|---|
| Restartable watch, `client.go` | resume version, underlying watch, events and stop channels | `Watch`, `Stop`, the goroutine `forward` | the API server; every wait of the commands reads from it |
| Applier, `applier.go` | none of its own: the objects of the server are its state | `ApplyObjects`, `DeleteObjects` and their steps | API server, controllers, operators; waits with watches |
| Cluster commands, `cmd/cluster` | keys and configuration in memory, output files | enrich, deploy, write files, wait; delete | enricher, applier, watch |
| Enricher, `enricher.go` | none of its own: the configuration in the memory of the command | one setter per field | reads the hub, the DNS and the registry at the start of every command |
| Registry commands, `cmd/registry`, `registry_tool.go`, `quay` | Quay's first user, trusted CA configmap, image configuration, pull secret | `create registry`, `delete registry`, `AddTrusted`, `IsTrusted` | API servers of the hub and of the clusters, Quay, SSH to the nodes |
| Storage commands, `cmd/lso`, `cmd/lvmo`, `cmd/odf` | annotation `wiped` of the namespace of the cluster, disks of the nodes | wipe disks, apply, wait, delete | applier, watch, SSH |
| `cmd/metallb`, `cmd/icsp`, `cmd/ui` | none of their own: pools, mirrors and trust in the clusters | a loop over the clusters that checks, applies a set and waits | enricher, applier, registry tool; each other, through the clusters |
| UI backend, `ui/backend` | configuration of the cluster (ingress, API server, routes) | `changeDomain`, proxies, OAuth | API server |
| UI frontend, `ui/frontend` | progress of the persistence of settings | `persist` and its steps with retries | backend, API server |
| Tekton pipelines and shell scripts | none | run the steps in order | `oc`, SSH |

The rest (configuration, models, templates, jq, console, logging, developer tools, hack,
documentation) has no behaviour of this kind. `PROJECT.json` lists all of it, with the reasons.

What is hard, and what makes each component correct:

* **Watch.** Events lost or repeated by a restart, resource versions that are too old, a list
  in no order, the race of `Stop`, the deadline and the sending of an event. Correct when its
  reader ends up knowing what the server has, and is released when its time is over.
* **Applier.** The steps of one command against the controllers; objects that exist but are
  going away; kinds that don't exist yet; a failure or a kill between any two requests; one
  error answer with two meanings. Correct when namespaces are deleted only when they are
  empty, and success of a command means what the caller understands.
* **Cluster commands.** The keys exist in three objects, two files and the memory of the
  command, and are written one by one. Correct when they agree, and a successful wait means
  installed clusters.
* **Registry.** Two objects per trusted registry, written by several commands, and an
  initialization that can be done only once: recovery after a kill. Correct when no trusted
  registry is lost, the nodes have what the cluster trusts, and running the command again
  completes it.
* **Storage.** An annotation that remembers an irreversible action in other machines. Correct
  when no disk in use is wiped and no dirty disk is used.
* **Enricher and add-ons.** What a command read at its start is old when it is used, and objects
  that exist are never updated. Correct when nodes have distinct addresses, the mirrors are
  those of a trusted registry, and the exit code zero means what a script takes it for.
* **Waits.** Each command interprets events and the end of a channel in its own way. Correct
  when a wait that succeeds has seen what it waits for.
* **Domain change and persistence.** Sequences of patches that fail half way and are retried.
  Correct when a retry that succeeds has completed all the steps.

The list of hazards of `PROJECT.json` has each of these at its line, with the properties that
cover it, or the reason why none does.

## 2. The modules

### RestartableWatch

`goroutine` is where `forward` is: in the `select` of `forwardUnderlying`, sending an event
(line 729, outside of the `select`), in the backoff that creates the next underlying watch, or
done. Each case of the `select` and of the `switch` is an action (`ReceiveEvent`,
`ReceiveBookmark`, `ReceiveGone`, `ReceiveError`, `ReceiveClosed`, `SelectStop`,
`SelectExpired`), and `Send`, `Recreate` and `GiveUp` are the rest. `Open` is `Client.Watch`.

The server is external: a log of changes whose positions are the resource versions. A watch
from "0" starts with a list from a cache that may be behind, in no order; a watch from another
version starts after it, or gets a 410 if that part of the log was compacted. The deadline
(`Expire`) is not seen by the goroutine at once. The reader folds events into `view`, as
`waitCRDs` and `waitHosts` do, and may leave and stop the watch at any time.

`forgot` and `cut` are history variables. They mark two real holes: after a 410 the watch
restarts at "0", whose list doesn't tell of deletions; and a watch that ends in the middle of
its initial list resumes after the version of the last event, which may be higher than that of
objects that were not sent. The version of the last event of the list may also be lower than that
of objects that were sent: a watch that ends then resumes before them, and an older change of an
object comes after a newer one. The reader is right again once it has caught up.

### ObjectSet and Applier

`ObjectSet` is what the commands promise of a set of objects, with no pc, queue or controller: a
command adds objects that don't exist, inside of namespaces that are present, or takes them away,
a namespace only when it is empty; and it may report success only when everything is there with
its status (but for what was found terminating), or nothing of it stays. A command may die, or
fail, between any two of these. `Applier` implements it with `state`, `statused`, `command`,
`result` and `leftover`, which have the same names; all the rest (`pc`, `todo`, `current`,
`waiting`, `known`, what is established and served) is how it is done, and doesn't show.

`pc` is the part of `ApplyObjects` or `DeleteObjects` that is running, `todo` the objects left
in it, `current` the object being created or the namespace being emptied. A command creates
namespaces, definitions, waits for these, and creates the rest; or deletes the rest, then for
each namespace waits for the objects inside (`Disappear`, `Watch`, `SeeDeletion`) and deletes
it, and then the definitions. The orders are those of the templates (`Position`).

`Creation` is what the server answers to a creation, and `Create` what `createObject` does with
the answer: the first attempt that fails with a 404 waits for the definition (`WaitCRD`), the
next ones repeat with a backoff without a limit (`Retry`). `FailStep` and `FailDelete` are
requests that fail for any other reason, `Crash` the end of the process.

The controllers are external: they establish and serve definitions, install the operator that
an object of the set asks for, finalize objects (not inside of a namespace that is being
deleted: the reason for the order of `DeleteObjects`, lines 360-363), and remove what is empty.

Simplifications: an error 500 of a webhook that isn't ready has the treatment of the 404, so it
is part of the time that `Serve` takes; `known` (what the REST mapper of the command has
cached) is what was served when the command started; `waitCRDs` looks at the definitions that
are established and not at the events one by one; controllers that empty a namespace being
deleted aren't needed, since `NamespaceDeletedEmpty` says that it is empty already.

### ClusterKeys and CreateCluster

`ClusterKeys` is what the commands promise of the keys: each cluster has no pair or one, which no
other cluster has; a creation gives it a pair that was generated, a deletion takes it away, and in
between it doesn't change, however many times the creation is repeated. Nothing is promised of a
cluster that is torn. `CreateCluster` implements it: `pairs` is `Pairs`, the keys that the objects
and the secret of each cluster that isn't torn have, and `issued` is `generated`.

A pair of keys is a number. The templates that hold keys are `030-agentclusterinstall` and
`060-infraenv` (the public one) and `100-ssh-secret` (both): the three entries of `object[c]`.
`Enrich` takes the keys of the secret or generates new ones, for all the clusters; `Apply`
creates each object that doesn't exist; `WritePrivateKey` and `WritePublicKey` write the files;
`WaitHosts` and `WaitInstall` wait. `DeleteObject` deletes the objects in the reverse order.
`Die` ends a command anywhere. `Expire` is the end of `--wait`, which either closes the channel
of the watch or finds it restarting and leaves it open: what `RestartableWatch` shows.

`torn` is the history of the clusters whose objects may be of different commands: those that a
command left half done, and all of them while two commands overlap. A complete deletion clears
it, when nothing else is running.

Simplifications: the deletion of an object is immediate here (`Applier` has the finalizers);
`delete cluster` also enriches, but what it generates is lost with it; the hosts of a cluster
are provisioned together; cluster deployments have no keys and go with the namespace.

### TrustStore and RegistryTool

`TrustStore` is what `IsTrusted` and `AddTrusted` promise: a store with the certificate that the
cluster trusts for each registry, where an addition is atomic. `RegistryTool` is what they do:
each request to the API server is a step of one of several processes. `config` is the name that
the image configuration has, `exists` and `data` the configmaps, `at` the request that comes
next in each process, `seen` the name that it read, `fetched` the certificate that it adds. The
store of `TrustStore` is `Effective`: the data of the configmap that the configuration names,
or nothing if it doesn't exist. `Leave` is the end of a process anywhere, also because a
request failed; `torn` remembers that one ended between the two writes.

Simplifications: nobody else changes the image configuration or deletes configmaps, and a
configmap with the name of the tool that the configuration doesn't name comes from the tool.
Certificates are numbers; the name of the key and the TLS handshake are pure.

### CreateRegistry

It extends `RegistryTool` with the process `Creator`, which runs `create registry` and `delete
registry` one after the other, while the others (`create icsp`) use the tool for another
registry. `pc` is the step of `deployRegistry` and of the functions that it calls; in the steps
`trust` and `add` the process is inside of the tool, and its next step is one of the tool.
`database`, `token` and `damage` are what Quay has, the secret that says that it was
initialized, and the history of how they came to disagree: killed in the middle, or a deletion
that was interrupted after the registry and before the namespace. `authority` counts the
registries, each with its own certificate; `nodeCA` is what each node has installed.

`members` are the nodes of the cluster, and others may `Join`. `left` are the nodes of the
configuration that the command loaded when it started, without those where it has run the script
that installs the certificate. The script ends with the exit status of its last line, the restart
of the services, so `InstallCA` may also leave the node as it was and go on (`RunScript`); a
script whose failure is noticed is the end of the command (`Die`). No later command repairs
a node, since none installs anything if the registry is trusted. `missing` is the history of
that: the nodes whose script failed unnoticed, and those that joined and that no command
has reached since. They are what `TrustedNodes` and `CreatedMeansUsable` except.

Simplifications: the applier creates the namespace and then the registry, the other objects and
the operator are part of the time that `BecomeAvailable` takes; a deletion waits for the
registry and then deletes the namespace (`Applier` has the details of both); nodes come in any
order, those that join are in the configuration, with their addresses, by the time that a command
starts, and none leaves; another writer of the pull secret (`EditPull`) changes only its own entry.

### Storage

The five commands have the same loop: `pc` is the step of the task of `cluster[p]`, `outcome`
what the tasks gave so far, `exit` the exit code. `wiped` is the annotation of the hub that
`create lso` and `create lvmo` share (`ReadAnnotation`, `WipeNode`, `AddWiped`), and that
`delete lso` and `delete lvmo` remove after the objects (`DeleteObjects`, `DeleteWiped`).
`disk` is what each disk has: what was there before, nothing, or the data of an operator.
`create odf` labels the nodes with racks, whose number is the position of the node in the list
(`Label`), and waits for what it creates. The operators and the nodes that join are external
(`World`). `spoiled` is the history of what the annotation doesn't tell: a node that joined
later, a script whose failure wasn't noticed, LSO and LVMO together, a deletion that was cut
before the annotation was removed, and commands that ran at the same time.

Three facts of the code that the module shows: the wait of `create lvmo` always fails, since it
reads a boolean into a string (`WaitLVMCluster`), so this command always exits with one;
the patch that should resize the backing store is the difference of an object with itself
(`ResizeBackingStore` changes nothing); and no storage command has a deadline.

### Enricher and AddOns

`Enricher` is the start of every command: `Load` and one action for each request of the
enricher, that fills what the process has in memory (`loaded`, `url`, `external`, `kubeconfig`,
`ca`, `resolved`). A failure for any cluster ends the command for all of them. `InternalIP` is
the address of a node, ten plus its position in a byte.

`AddOns` extends it with what the commands do with that memory, which may be old by then: `create
cluster` and `delete cluster` as far as the addresses of the nodes, `create metallb` and `delete
metallb`, `create ui` and `delete ui`, and `create icsp`. `Event` is what changes outside: the
configuration, the names of the DNS, the registry that the hub names and its certificate, the
installation of clusters and the reports of agents. `Tunnelled` and `Reachable` are the two ways
to a cluster: through a node of the control plane, or, for the commands of the UI, only through
the addresses of the load balancer. `shifted`, `moved`, `renamed` and `overlapped` are histories
of what makes an address, a pool or a mirror that exists differ from the configuration: the
commands create what is missing and never update what is there.

Simplifications: the objects of a set that have no property of their own are one
(`ApplyServices`, `ApplyUI`); trusting the registry is one step, as `TrustStore` says that it
may be; the deletion of the objects of a cluster is one step. The tunnel of a client is never
stored, so closing it does nothing, and nothing in the model depends on it. `setRHCOSRelease`
makes a request without a timeout: it is one of the reads that may fail, and no liveness of
these commands is stated.

### ChangeDomain and Persist

`ChangeDomain` is the endpoint of the backend. `rpc[r]` is the call that request `r` does next;
each may succeed, be refused (an answer with another status) or be rejected (no answer, and nobody
knows if it was done). `cluster` are the objects: the domain in the specification and in the
status of the ingress, the certificate of the API server, the route of the interface and its copy,
the OAuth client, the deployment and its pod. `Throw` is what a second answer to the same request
does: an exception that nothing catches, which ends the process and all its requests. `Restart` is
the pod that goes away.

`Persist` is the page: `page` is the step of `persist`, and each step needs a route for the
host that the page came from (`Served(origin)`). `Failed` is an error that is shown, `Escaped` a
promise returned without `await`, whose rejection leaves the page as it is. The user may try
again, with the same form or another, or load the page again in the middle (`Open`); the answer
of a request may be lost while the backend goes on. All the forms have a domain: without one
`persistDomain` skips the request (`persistDomain.ts:15-19`), which the model leaves out.

The histories `ignored`, `cut`, `half`, `stale`, `unbound`, `mixed`, `early`, `late` and
`overlapped` are the causes why a success may not mean that all was saved. Each is real:

* the endpoint decides that the domain is unchanged by the status of the ingress, which is
  behind its specification, and looks at nothing else, so a request that was cut, or whose
  second patch failed, is never completed by trying again (`stale`, `half`, `cut`);
* failures of `updateZtpfwUI` only go to the log (`ignored`), also that of the deployment, after
  which the pod that the page waits for never comes;
* who has the identity provider is taken for one that is bound to the role (`unbound`); the
  pool of addresses and the service that names it are two writes (`mixed`);
* a second request while the route is moving makes its copy from the route that was
  moved, and deletes that of the former host (`late`, `overlapped`).

Simplifications: `WaitOperators` is both waits of `saveApi`, and `WaitPod` those of
`persistDomain` and `waitOnReconciliation`. `waitForLivenessProbe` doesn't return what its own
retry says, so it succeeds only at the first attempt; both may fail at any time. The pool made
by `create metallb` is of another kind than the one that the page patches (`IPAddressPool` and
`AddressPool`), so the page can't save a service that names it (`"foreign"`). The secrets have
no content.

## 3. What TLC checks

| Run | Instance | States | Shows |
|---|---|---|---|
| `watch` | 2 objects, 3 changes, 2 ended watches | 137,123 | nothing is lost or left over but by the two holes; convergence; the goroutine ends |
| `watch_deadline` | the same | | **violated**: a deadline during a restart leaves the reader blocked |
| `applier` | 2 namespaces, 1 definition of the set and 1 of an operator, 4 objects, 5 commands, 2 failures, 4 conflicts | 35,049 | deletion order, meaning of success, end of commands; each step is one of `ObjectSet` |
| `applier_wait` | the same | | **violated**: a missing namespace passes for a missing definition |
| `create_cluster` | 2 clusters, 1 process, 4 commands | 448,497 | each step is one of `ClusterKeys`; keys in the files, meaning of a wait, end of commands |
| `create_cluster_overlap` | 1 cluster, 2 processes, 3 commands | 380,436 | agreement of the keys of the objects, and of the files, with commands that overlap |
| `create_cluster_files` | 1 cluster, 1 process, 4 commands | | **violated**: keys written that don't open the hosts |
| `create_registry` | 1 node and another that joins, 2 processes, 2 registries, 2 configmap names, 2 certificates | 2,268,082 | trust of nodes and cluster, meaning of success and of refusal, the trust store, end of commands |
| `create_registry_orphan` | the same | | **violated**: a configmap that exists isn't updated but created |
| `storage` | 2 clusters, 2 nodes, 2 processes, 3 commands, the first 2 of which may overlap | 2,322,657 | what is wiped and when, racks, exit codes, and that waits without a deadline are for what exists |
| `add_ons` | 2 clusters, 3 nodes, 2 registries, 2 catalogs, 2 processes, 2 commands, 1 event | 3,731,149 | distinct addresses, mirrors of trusted registries, meaning of the exit code zero |
| `persist` | 2 attempts, 2 domains, 1 service, 2 addresses | 1,348,377 | the host of the page is served, success means saved, an attempt ends |

The properties, with the code that each one is about, are at the end of each module.

Why the bounds are enough. *Watch*: three changes allow a creation, a deletion and a creation
again, or changes of both objects around a compaction, and two ended watches a restart of a
restarted watch. *Applier*: two namespaces make the order of deletion matter; the objects are
one of each sort that the code treats differently (builtin kind, kind of the set, kind of an
operator; namespaced or not; with status; with finalizers); five commands allow an apply, a
delete that dies, another delete, an apply that finds what is left, and one more; four is the
number of attempts of `retry.DefaultBackoff`.
*CreateCluster*: two clusters tell the loops apart; four commands
allow a creation that dies, its repetition, a deletion and a new creation.

*CreateRegistry*: commands aren't bounded, only the certificates: two of them allow a registry
to be deleted and created again with another one, any number of times interrupted; two
processes with different registries are what the races of the tool need, since each race is
between two requests of one and one write of another; two names tell the configmap of the tool
from one of the administrator; the second node joins at any point, so it is one of the nodes of a
command, one that is late for it, or isn't there.

*Storage*: three commands allow a creation that is cut, a deletion and a creation again, or those
of LSO and LVMO together and then one alone, and the first two may overlap. The first cluster has
one node, for ever or until another joins before it, so the position of a node may change; the
second isn't installed, so that a loop goes on or stops. *AddOns*: two commands and one event,
since each property relates what one command leaves to what another reads, with a change between;
the bytes are few (the address of the ingress is that of the third node), so that the limit of
`AddressesDistinct` is reached: two nodes fit and three don't. The processes are symmetric; the
properties are all of safety. *Persist*: two attempts, since each cause needs a request and its
repetition, or two that meet. `cut` is the one that needs three: an attempt that completes, one
that is cut and one answered "unchanged". With three attempts TLC visited 31 million states, to a
depth of 40, without finishing and without a violation; that number is only covered by the proof.
It also finished with the services of the ingress and of the API and one address. All the forms
of `MCForms` have a user but one.

`CHECK_DEADLOCK FALSE` in all the runs: the bounds end them, and also real ends are: a watch
that is done, a reader that is blocked.

Fairness. The goroutine and the reader of a watch are run by the Go scheduler, and `select`
chooses at random among the cases that are ready: strong fairness of each case, weak fairness of
what runs alone. Controllers do their work (weak fairness of each). A command that isn't killed
goes on, and its time to wait passes. For `CreateRegistry` that is weak fairness of the command
and of the availability of the registry. Nothing is assumed of kills, failures, conflicts, ended
watches, compactions, bookmarks or users. For `Persist`, weak fairness of the steps of the page
and of each request: every call ends, which `fetch-retry` doesn't assure if the server answers 429
for ever. Nothing is assumed of the operators or of the pod: the waits of the page are bounded.
`Storage` and `AddOns` state no fairness: no command of storage has a deadline, and those that
wait for an operator that fails don't end; `WaitsForExisting` is what they have.

Liveness holds with exceptions that the properties name, since they are real: `DeleteEnds`
except when a deletion was missed, `ApplyEnds` except when an object being deleted was taken
for an existing one, `CommandEnds` of `CreateCluster` except when the deadline finds
the watch restarting, and that of `CreateRegistry` except when the namespace goes away under
it.
`ApplyEnds` also depends on the order of the templates, which is part of the instance (as in
the templates, the subscription of an operator comes before the objects of its kinds).

## 4. What is proved

For every value of the constants that satisfies the named assumptions:

* `WatchAssumption`, `ApplierAssumption`, `CreateClusterAssumption`, `ToolAssumption`,
  `CreateRegistryAssumption`: distinct sorts of objects, a total order of the templates, bounds
  that are numbers, and that only the registry commands add the registry of the cluster;
* `StorageAssumption`, `EnricherAssumption`, `AddOnsAssumption`: clusters, nodes and registries
  are numbered, control plane nodes sort before workers, and `First < IngressByte < APIByte <
  Bytes` (10, 242, 243 and 256 in the code);
* `DomainAssumption`, `NoneAssumption`, `PersistAssumption`: the first domain is one of them, each
  attempt has a request of its own, and the values for nothing aren't addresses or domains.

The theorems:

* `RestartableWatchProofs`: `WatchTypeCorrect`, `WatchLosesNoObject`, `WatchKeepsNoGhost`.
  Neither of the last two is inductive. The invariant says, for each position of the log, that
  the reader knows (counting the event in flight, `Seen`) every object whose last change is
  behind the position where the watch would resume (`Resume`: that of the underlying watch, or
  `version` in the backoff) unless it is still in the initial list (`LostInv`), and no object
  whose last change behind it is a deletion (`GhostInv`). `LogInv` says that the objects that
  exist are those whose last change in the log isn't a deletion, `ListInv` and `PosInv` what
  the initial list and the positions may be. `WatchSendsRealChanges`, from the same invariant: a
  change that is sent is that of the log at its version, so the reader is told of no deletion that
  didn't happen, and of nothing that never existed. `WatchGoesBackOnlyIf`:
  `version` goes back only after a 410, or inside of an initial list.
* `ApplierProofs`: `ApplierTypeCorrect`, and inductive invariants on top of it. `GoneInv`,
  for `NamespacesDeletedEmpty` and `DeleteIsComplete`: an object of the namespace in course
  that isn't waited for any more is gone (`WaitInv`), and so are those of the namespaces done
  (`DeleteInv`); it needs the server to refuse creations in a namespace that is terminating.
  `OthersInv`, for `DeleteIsComplete`: an object that the delete is done with isn't present, unless
  the failure of one of them is still to be reported. `ApplyInv`, for `ApplyIsComplete`: each object
  that was done in this command is present or was found terminating, and has its status.
  `ApplierImplementsObjectSet`, action by action: what `GoneInv` says makes the deletion of a
  namespace one of an empty one, `StatusInv` (an object that is gone has no status) what the
  deletion of an object does to the statuses, and the two theorems before it what a report of
  success claims. `WaitsCanEnd` needs that nothing exists outside of its namespace (`HomeInv`).
  `ApplierCommandsAdvance` orders where a command is by part, objects left, objects to wait for,
  and step of the object: every step goes down, but for the repeated creation.
* `CreateClusterProofs`: `ClusterTypeCorrect`; `KeyInv`, for `ClusterKeysAgree` and
  `ClusterFilesMatch`: for each cluster that isn't torn at most one command is busy, and how
  far it is determines which objects have which key (`EnrichInv`, `ApplyInv`, `WaitInv`,
  `DeleteInv`), and when no command is busy the three objects have the same key or none;
  `ReadyInv`, for the action property `ClusterReadyIsInstalled`: the clusters before the one
  that is waited for are installed. `ClusterKeysArePrivate`: what the objects, the files and the
  commands hold for two clusters is never the same pair, since a cluster gets a new one or keeps its own
  (`KeysPrivate`, that is inductive). `CommandsImplementClusterKeys`, from both: a step either leaves the pairs of the
  whole clusters as they are, or gives one to a cluster that had none, takes it away, or tears
  clusters. `CommandsAreFinite`: a number that each step of a command lowers (`Left`), whatever
  the others do.

* `RegistryToolProofs`: `ToolImplementsTrustStore`, that each step of `RegistryTool` is an
  addition of `TrustStore` or changes nothing of it, and `ToolLeavesNoOrphan`. The invariant
  says that the name read is still that of the configuration unless the configmap of the tool
  exists (`PlanInv`), that a configmap that isn't of the tool is the one configured
  (`NameInv`), and that the process about to link is alone, with the configuration pointing to
  nothing (`LinkInv`): so the link has nothing to lose.
* `CreateRegistryProofs`: `RegistryUsesTool` (the commands only take steps of the tool), from
  which `RegistryImplementsTrustStore` follows; `RegistryTypeCorrect` and
  `RegistrySecretMatches` with the invariant of what is done before each step (`StageInv`,
  `DatabaseInv`); `RegistryTrustedNodes` and `RegistryCreatedIsUsable` with where the command is
  inside of the tool and which nodes are done (`CallInv`, `NodesInv`: the nodes that the command
  doesn't know are late, those that it has been through have the certificate or a cause not to,
  and the cluster never trusts a certificate newer than that of the registry); `RegistryRefusals`, which needs
  `ToolLeavesNoOrphan`. `RegistryCommandsAdvance`: the number of steps left, those inside of the
  tool included, goes down, or the nodes left are fewer; and what a command may wait for.

* `StorageProofs`: `StorageTypeCorrect`, `StorageWipesOnlyFree`, `StorageStartsClean`,
  `StorageExitCodes`, `StorageODFDone`, `StorageWaitsForExisting`, from one invariant, `IInv`. Its
  parts say, for a cluster without the causes of `spoiled`: the annotation is there while the
  objects are (`WipeInv`); with the annotation the disks are clean or in use, but for a deletion
  between its two steps (`CleanInv`); the nodes that a process has been through have the rack of
  their position (`ODFInv`); exactly the clusters before the one in course have an outcome
  (`LoopInv`).
* `AddOnsProofs`: `TypeCorrect`; `AddressesAreDistinct`, from `AddressInv` (an address that
  exists, or that a process is about to write, is that of the position of its node, as long as
  nodes are only added at the end); `MirrorsAreTrusted`, from what the process knows of its
  cluster before each catalog (`AloneInv`, `TrustedInv`, `TargetInv`, `MirroredInv`);
  `ExitCodeIsRight`, from what the tasks before left (`ProgressInv`, `ResolvedInv`, `PoolInv`,
  `BalancedInv`).
* `PersistProofs`: `TypeCorrect`; `TheOriginIsServed`, from `CallInv` and `AloneInv` (at most one
  request runs, that of the page that waits for it) and `RouteInv` (until it moves the route, this
  has the host of the page, and the copy made of it is for that host); `SuccessIsSaved`, from what
  is done at each step of the page and of the request (`ServiceInv`, `UserInv`, `PodInv`), and
  from what the objects say of each other: the specification of the ingress has the domain of the
  last request that was answered, the certificate the same one, and the route and the OAuth client
  too (`RoutesInv`, `HalfInv`, `InterfaceInv`), each but for its causes. Without the last ones a
  request that is answered "unchanged" says nothing. `AnAnswerComes`: the request that
  a page waits for runs, was answered or was killed (`AnswerInv`). `AttemptsAreFinite`: the steps
  left of the page and of each request, that every step of theirs lowers.

The proofs follow the actions, one step for each. TLC checked the inductive invariants first.
All the safety properties of the passing runs are proved.

Only model-checked: all the liveness properties (`Converges`, `ForwarderEnds`, `ApplyEnds`,
`DeleteEnds`, `CommandEnds`, `AttemptEnds`), since TLAPS proves neither liveness under fairness
nor `ENABLED`; and the four violations. For the commands of `Applier`, `CreateCluster` and
`CreateRegistry` and for the page of `Persist` the theorems above prove the other half of it: each
step leaves less to do, and what is waited for is named. That fairness then brings it is what TLC
checks. Facts that need an induction over data are out of reach
too: the modules have none, their sets and functions are defined without recursion.

## 5. Where the code and its documentation disagree

1. `client.go:656`: the events channel isn't closed when the context ends during the backoff,
   so a reader outlives its deadline (`DeadlineReleasesReader`).
2. `applier.go:651`: any 404 is taken for a missing definition (`WaitsOnlyForMissingCRD`).
3. `create_cluster_cmd.go:440`: the keys written may not be those of the cluster, after a
   creation that was killed before the last template (`FilesAlwaysMatch`).
4. `registry_tool.go:274`: a configmap that exists but isn't in the image configuration is
   created again and not updated, so an `AddTrusted` that was killed makes the next ones fail
   (`CreatesOrUpdates`).

Others are exceptions inside of properties that hold: the deletion that `waitDisappear`
misses (`applier.go:803`), what a 410 makes the watch forget (`client.go:699`), the nodes that
never get the certificate of the registry, since the failure of the script isn't noticed
(`create_registry_cmd.go:693`) or they joined when it was trusted already (`:600`), and the causes
of `SuccessMeansSaved`. The comment of `changeDomain.ts:276-303` describes a sequence with the
API server patched before the ingress and the `domain` of the ingress updated; the model follows
the code.

## 6. Not modelled

* Rendering of templates, parsing of the configuration, jq, console and logging: conversions and
  output, without a state that a property could be about.
* SSH tunnels: their operation is that of a library. The models have what follows from them: if
  a cluster can be reached, and that the two scripts run in the nodes, that which wipes the disks
  (`Storage`) and that which installs the certificate (`CreateRegistry`), may fail unnoticed.
* `delete registry`: the deletion of the definitions of Quay (`--crds`), and the loop over the
  clusters (it stops at the first error, as `Strict` of `AddOns`). `CreateRegistry` has one cluster.
* Development commands: shells, tunnels and the application of arbitrary manifests.
* Tekton pipelines and shell scripts: steps in a fixed order, whose state is that of `oc` and of
  the clusters.
* UI backend: the other endpoints proxy requests or log in; they keep no state. UI frontend: the
  pages, the wizard and `deleteKubeAdmin`, which is one call; and how `fetch-retry` spaces its
  retries (without a limit for answers 429).
