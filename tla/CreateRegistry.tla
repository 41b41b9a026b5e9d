----------------------------- MODULE CreateRegistry -----------------------------
(***************************************************************************)
(* The commands `create registry` and `delete registry`, of                *)
(* ztp/internal/cmd/registry, run one after the other on one cluster while *)
(* other processes use the registry tool on it.  `create registry` applies *)
(* the objects of the registry, initializes Quay, puts the password in the *)
(* pull secret, and makes the nodes and the cluster trust the certificate  *)
(* of the registry.                                                        *)
(*                                                                         *)
(* Each request is a step, and the command may die between any two.  The   *)
(* details of the applier are in the module Applier.                       *)
(***************************************************************************)
EXTENDS RegistryTool

CONSTANTS
  Creator,   \* the process that runs these commands
  Nodes,     \* that the cluster may have
  FirstNodes \* those that it has at the start

Local == ServerOf[Creator]

ASSUME CreateRegistryAssumption ==
  /\ Creator \in Processes
  /\ \A p \in Processes \ {Creator} : ServerOf[p] # Local
  /\ FirstNodes \subseteq Nodes

VARIABLES
  namespace,   \* ztpfw-registry: absent, active or terminating
  registry,    \* absent, present or available
  authority,   \* the certificate authority of the registry, a number
  database,    \* of Quay: empty, with a user, or complete, with the organization too
  token,       \* the secret quay-token: absent or present
  pull,        \* the entries of the pull secret of the cluster: local and other
  members,     \* the nodes of the cluster
  nodeCA,      \* the authority installed in each node
  pc,          \* what the command is doing
  left,        \* nodes that the command knows, where it hasn't installed the authority yet
  seenPull,    \* the entries of the pull secret that were read
  result,      \* of the last command
  missing,     \* history: why a node lacks the certificate: none; script, the script that
               \* installs it failed and nobody noticed; or late, it joined, and no command
               \* that knows it has installed the certificate since
  damage       \* history: none; half, the initialization of Quay was left half done;
               \* or stale, the database was lost but not the secret quay-token

objects == <<namespace, registry, authority, database, token>>
process == <<pc, left, seenPull, result>>
nodes == <<members, nodeCA, missing>>
registryVars == <<objects, pull, nodes, process, damage>>
vars == <<toolVars, registryVars>>

Init ==
  /\ ToolInit /\ \A n \in Names : data[n][Local] = NoCA
  /\ namespace = "absent" /\ registry = "absent" /\ authority = NoCA
  /\ database = "empty" /\ token = "absent" /\ damage = "none"
  /\ pull \in SUBSET {"other"}
  /\ members = FirstNodes
  /\ nodeCA = [n \in Nodes |-> NoCA] /\ missing = [n \in Nodes |-> "none"]
  /\ pc = "idle" /\ left = {} /\ seenPull = {} /\ result = "none"

-----------------------------------------------------------------------------
(* The cluster. *)

BecomeAvailable ==
  /\ registry = "present" /\ registry' = "available"
  /\ UNCHANGED <<toolVars, namespace, authority, database, token, pull, nodes, process, damage>>

\* The database of a registry that was deleted goes away after it.
CollectDatabase ==
  /\ registry = "absent" /\ database # "empty" /\ database' = "empty"
  /\ damage' = IF token = "present" THEN "stale" ELSE "none"
  /\ UNCHANGED <<toolVars, namespace, registry, authority, token, pull, nodes, process>>

\* A namespace goes away with all that is inside of it.
Vanish ==
  /\ namespace = "terminating" /\ namespace' = "absent"
  /\ database' = "empty" /\ token' = "absent" /\ damage' = "none"
  /\ UNCHANGED <<toolVars, registry, authority, pull, nodes, process>>

\* Somebody else adds or removes an entry of the pull secret.
EditPull ==
  /\ pull' \in {pull \union {"other"}, pull \ {"other"}} /\ pull' # pull
  /\ UNCHANGED <<toolVars, objects, nodes, process, damage>>

\* A node is added to the cluster, and to the configuration.
Join(n) ==
  /\ n \notin members
  /\ members' = members \union {n}
  /\ missing' = [missing EXCEPT ![n] = "late"]
  /\ UNCHANGED <<toolVars, objects, pull, nodeCA, process, damage>>

-----------------------------------------------------------------------------
(* create registry *)

Go(place) == pc' = place /\ UNCHANGED <<left, seenPull, result>>

End(outcome) == pc' = "idle" /\ left' = {} /\ seenPull' = {} /\ result' = outcome

\* The nodes are those of the configuration when the command starts.
StartCreate ==
  /\ pc = "idle" /\ (registry # "absent" \/ authority < MaxCAs)
  /\ pc' = "namespace" /\ left' = members /\ result' = "none"
  /\ UNCHANGED <<toolVars, objects, pull, nodes, seenPull, damage>>

\* A namespace that exists is taken as it is, also when it is terminating.
ApplyNamespace ==
  /\ pc = "namespace"
  /\ namespace' = IF namespace = "absent" THEN "active" ELSE namespace
  /\ Go("registry")
  /\ UNCHANGED <<toolVars, registry, authority, database, token, pull, nodes, damage>>

\* Nothing can be created in a namespace that is terminating, and the creation is
\* repeated for ever if it doesn't exist.  A new registry has a new certificate, which the
\* command will install in all the nodes that it knows.
ApplyRegistry ==
  /\ pc = "registry" /\ namespace # "absent"
  /\ IF namespace = "active"
     THEN /\ registry' = IF registry = "absent" THEN "present" ELSE registry
          /\ authority' = IF registry = "absent" THEN authority + 1 ELSE authority
          /\ missing' = [n \in Nodes |-> IF registry = "absent" /\ n \in left
                                        THEN "none" ELSE missing[n]]
          /\ Go("wait")
     ELSE End("refused") /\ UNCHANGED <<registry, authority, missing>>
  /\ UNCHANGED <<toolVars, namespace, database, token, pull, members, nodeCA, damage>>

WaitRegistry ==
  /\ pc = "wait" /\ registry = "available"
  /\ Go("token")
  /\ UNCHANGED <<toolVars, objects, pull, nodes, damage>>

\* Mutant of CheckToken: the secret isn't looked at.
CheckNoToken ==
  /\ pc = "token"
  /\ Go("user")
  /\ UNCHANGED <<toolVars, objects, pull, nodes, damage>>

\* The secret tells if the registry was initialized.
CheckToken ==
  /\ pc = "token"
  /\ Go(IF token = "present" THEN "pull" ELSE "user")
  /\ UNCHANGED <<toolVars, objects, pull, nodes, damage>>

\* Mutant of InitializeUser: the organization isn't created.
InitializeUserOnly ==
  /\ pc = "user"
  /\ IF database # "empty"
     THEN End("refused") /\ UNCHANGED database
     ELSE database' = "user" /\ Go("secret")
  /\ UNCHANGED <<toolVars, namespace, registry, authority, token, pull, nodes, damage>>

\* Quay initializes a user only if there is none.
InitializeUser ==
  /\ pc = "user"
  /\ IF database # "empty"
     THEN End("refused") /\ UNCHANGED database
     ELSE database' = "user" /\ Go("organization")
  /\ UNCHANGED <<toolVars, namespace, registry, authority, token, pull, nodes, damage>>

CreateOrganization ==
  /\ pc = "organization"
  /\ database' = "complete"
  /\ Go("secret")
  /\ UNCHANGED <<toolVars, namespace, registry, authority, token, pull, nodes, damage>>

CreateToken ==
  /\ pc = "secret"
  /\ token' = "present"
  /\ Go("pull")
  /\ UNCHANGED <<toolVars, namespace, registry, authority, database, pull, nodes, damage>>

-----------------------------------------------------------------------------
\* The pull secret is read, changed and written as a whole.
ReadPull ==
  /\ pc = "pull"
  /\ IF "local" \in pull
     THEN Go("trust")
     ELSE pc' = "patch" /\ seenPull' = pull /\ UNCHANGED <<left, result>>
  /\ UNCHANGED <<toolVars, objects, pull, nodes, damage>>

PatchPull ==
  /\ pc = "patch"
  /\ pull' = seenPull \union {"local"}
  /\ pc' = "trust" /\ seenPull' = {}
  /\ UNCHANGED <<toolVars, objects, nodes, left, result, damage>>

\* FetchCA and IsTrusted.
CheckTrust ==
  /\ pc = "trust"
  /\ CallIsTrusted(Creator, authority)
  /\ UNCHANGED registryVars

AlreadyTrusted ==
  /\ pc = "trust" /\ at[Creator] = "trusted"
  /\ Leave(Creator) /\ End("created")
  /\ UNCHANGED <<objects, pull, nodes, damage>>

NotTrusted ==
  /\ pc = "trust" /\ at[Creator] = "untrusted"
  /\ Go("install")
  /\ UNCHANGED <<toolVars, objects, pull, nodes, damage>>

\* The script succeeds if its last command does, the restart of the services, also when
\* the certificate wasn't installed.
RunScript(n) ==
  \/ /\ nodeCA' = [nodeCA EXCEPT ![n] = fetched[Creator]]
     /\ missing' = [missing EXCEPT ![n] = "none"]
  \/ /\ missing' = [missing EXCEPT ![n] = IF nodeCA[n] = fetched[Creator] THEN "none" ELSE "script"]
     /\ UNCHANGED nodeCA

\* Mutant of InstallCA: the loop over the nodes ends after the first one.
InstallOneCA(n) ==
  /\ pc = "install"
  /\ RunScript(n) /\ left' = {}
  /\ UNCHANGED <<toolVars, objects, pull, members, pc, seenPull, result, damage>>

\* Mutant of InstallCA: the loop doesn't go on to the next node.
InstallSameCA(n) ==
  /\ pc = "install"
  /\ RunScript(n)
  /\ UNCHANGED <<toolVars, objects, pull, members, pc, left, seenPull, result, damage>>

InstallCA(n) ==
  /\ pc = "install"
  /\ RunScript(n) /\ left' = left \ {n}
  /\ UNCHANGED <<toolVars, objects, pull, members, pc, seenPull, result, damage>>

AddTrusted ==
  /\ pc = "install" /\ left = {}
  /\ CallAddTrusted(Creator) /\ Go("add")
  /\ UNCHANGED <<objects, pull, nodes, damage>>

Added ==
  /\ pc = "add" /\ at[Creator] \in {"added", "refused"}
  /\ End(IF at[Creator] = "added" THEN "created" ELSE "refused")
  /\ Leave(Creator)
  /\ UNCHANGED <<objects, pull, nodes, damage>>

-----------------------------------------------------------------------------
(* delete registry *)

StartDelete ==
  /\ pc = "idle"
  /\ pc' = "deleteRegistry" /\ result' = "none"
  /\ UNCHANGED <<toolVars, objects, pull, nodes, left, seenPull, damage>>

\* Mutant of DeleteRegistry: it isn't waited for, and stays.
DeleteNoRegistry ==
  /\ pc = "deleteRegistry"
  /\ Go("deleteNamespace")
  /\ UNCHANGED <<toolVars, objects, pull, nodes, damage>>

\* The registry is deleted, and waited for.
DeleteRegistry ==
  /\ pc = "deleteRegistry"
  /\ registry' = "absent"
  /\ Go("deleteNamespace")
  /\ UNCHANGED <<toolVars, namespace, authority, database, token, pull, nodes, damage>>

DeleteNamespace ==
  /\ pc = "deleteNamespace"
  /\ namespace' = IF namespace = "active" THEN "terminating" ELSE namespace
  /\ End("deleted")
  /\ UNCHANGED <<toolVars, registry, authority, database, token, pull, nodes, damage>>

-----------------------------------------------------------------------------
\* The command is killed, or a request fails.
Die ==
  /\ pc # "idle"
  /\ End("failed")
  /\ damage' = IF pc \in {"organization", "secret"} THEN "half" ELSE damage
  /\ IF at[Creator] = "idle" THEN UNCHANGED toolVars ELSE Leave(Creator)
  /\ UNCHANGED <<objects, pull, nodes>>

Command ==
  \/ ApplyNamespace \/ ApplyRegistry \/ WaitRegistry
  \/ CheckToken \/ InitializeUser \/ CreateOrganization \/ CreateToken
  \/ ReadPull \/ PatchPull
  \/ CheckTrust \/ AlreadyTrusted \/ NotTrusted
  \/ \E n \in left : InstallCA(n)
  \/ AddTrusted \/ Added
  \/ DeleteRegistry \/ DeleteNamespace
  \/ ToolStep(Creator) /\ UNCHANGED registryVars

Next ==
  \/ BecomeAvailable \/ CollectDatabase \/ Vanish \/ EditPull \/ \E n \in Nodes : Join(n)
  \/ StartCreate \/ StartDelete \/ Command \/ Die
  \/ \E p \in Processes \ {Creator} : ToolProcess(p) /\ UNCHANGED registryVars

Spec == Init /\ [][Next]_vars

FairSpec == Spec /\ WF_vars(Command) /\ WF_vars(BecomeAvailable)

-----------------------------------------------------------------------------
(* Properties. *)

\* The command is inside of the tool while it is in the steps that use it.
TypeOK ==
  /\ ToolType
  /\ namespace \in {"absent", "active", "terminating"}
  /\ registry \in {"absent", "present", "available"}
  /\ database \in {"empty", "user", "complete"} /\ token \in {"absent", "present"}
  /\ pull \subseteq {"local", "other"}
  /\ authority \in 0 .. MaxCAs /\ members \subseteq Nodes
  /\ nodeCA \in [Nodes -> 0 .. MaxCAs] /\ missing \in [Nodes -> {"none", "script", "late"}]
  /\ pc \in {"idle", "namespace", "registry", "wait", "token", "user", "organization", "secret",
             "pull", "patch", "trust", "install", "add", "deleteRegistry", "deleteNamespace"}
  /\ left \subseteq Nodes /\ seenPull \subseteq {"other"}
  /\ result \in {"none", "created", "deleted", "refused", "failed"}
  /\ damage \in {"none", "half", "stale"}
  /\ registry # "absent" => namespace = "active" /\ authority # NoCA
  /\ at[Creator] # "idle" => pc \in {"trust", "install", "add"}

\* A node without the certificate of the registry is one whose script failed unnoticed
\* (create_registry_cmd.go:693) or one that joined when the registry was trusted already
\* or the nodes had been read (600, 613).
Installed(n) == nodeCA[n] = authority \/ missing[n] # "none"

\* A cluster that trusts the registry has its certificate in all its nodes, but for the
\* two causes that nothing repairs, as nothing is installed if the registry is trusted
\* (create_registry_cmd.go, trustRegistry: the nodes come before AddTrusted).
TrustedNodes ==
  Effective[Local] = authority /\ authority # NoCA => \A n \in members : Installed(n)

\* After a creation that succeeds the registry can be used to pull images, and nothing
\* but another command changes that, unless its database was lost and the secret wasn't,
\* or in a node whose script failed or that joined (create_registry_cmd.go,
\* deployRegistry and trustRegistry).
CreatedMeansUsable ==
  result = "created" =>
    /\ registry = "available" /\ token = "present"
    /\ database = "complete" \/ damage = "stale"
    /\ "local" \in pull
    /\ Effective[Local] = authority /\ \A n \in members : Installed(n)

\* The secret quay-token exists exactly when Quay is initialized, but for commands that
\* died in the middle, and databases lost (create_registry_cmd.go, deployRegistry: the
\* secret decides if the registry is initialized).
SecretMatchesDatabase ==
  damage = "none" /\ pc \notin {"organization", "secret"} =>
    database = IF token = "present" THEN "complete" ELSE "empty"

\* A creation that isn't killed is refused only by a namespace that is being deleted,
\* by what a command that died left half done, or by another process that is adding
\* the first registry at the same time (create_registry_cmd.go, run).
RefusedOnlyIf ==
  [][result' = "refused" /\ pc # "idle" =>
       \/ namespace = "terminating"
       \/ damage = "half"
       \/ /\ at[Creator] = "refused"
          /\ (torn \/ config = Default \/ \E p \in Processes \ {Creator} : at[p] = "link")]_vars

\* Commands end, unless the namespace goes away between its creation and that of the
\* registry (applier.go, createObject: the creation is repeated for ever).
CommandEnds ==
  pc # "idle" ~> (pc = "idle" \/ (pc = "registry" /\ namespace = "absent"))
=============================================================================
