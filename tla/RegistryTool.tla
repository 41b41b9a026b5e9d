------------------------------ MODULE RegistryTool ------------------------------
(***************************************************************************)
(* The RegistryTool of ztp/internal/registry_tool.go, that several commands*)
(* may be using at the same time on one cluster.  The registries that the  *)
(* cluster trusts are in a configmap, and the configuration of the images  *)
(* has the name of that configmap.                                         *)
(*                                                                         *)
(* Each request to the API server is a step, and a process may end between *)
(* any two of them.                                                        *)
(***************************************************************************)
EXTENDS Naturals

CONSTANTS
  Processes,   \* that use the tool
  Servers,     \* the registries
  ServerOf,    \* the registry that each process adds
  Names,       \* of configmaps
  Default,     \* the name of the configmap that the tool creates
  NoName,      \* the image configuration has no name
  MaxCAs       \* bound: certificate authorities of a server, one after the other

NoCA == 0

ASSUME ToolAssumption ==
  /\ ServerOf \in [Processes -> Servers]
  /\ Default \in Names
  /\ NoName \notin Names
  /\ MaxCAs \in Nat \ {0}

VARIABLES
  config,    \* spec.additionalTrustedCA.name of the image configuration
  exists,    \* the configmaps that exist
  data,      \* the data of each configmap
  at,        \* where each process is inside of the tool
  seen,      \* configmapName: what each process has read from the configuration
  fetched,   \* the authority that each process adds
  torn       \* history: a process died between the two writes of AddTrusted

cluster == <<config, exists, data>>
toolVars == <<cluster, at, seen, fetched, torn>>

-----------------------------------------------------------------------------
Empty == [s \in Servers |-> NoCA]

\* The registries that the cluster trusts.
Effective == IF config \in exists THEN data[config] ELSE Empty

\* Where a process is while the tool works for it, and after the tool returns.
Inside == {"checkConfig", "checkConfigmap", "addConfig", "addConfigmap", "create", "patch", "link"}
Returned == {"trusted", "untrusted", "added", "refused"}

\* The administrator may have trusted other registries, in a configmap of the tool
\* or not, that may not exist.
ToolInit ==
  /\ config \in Names \union {NoName}
  /\ exists \in SUBSET (Names \intersect {config})
  /\ data \in [Names -> [Servers -> {NoCA, 1}]]
  /\ \A n \in Names \ exists : data[n] = Empty
  /\ at = [p \in Processes |-> "idle"]
  /\ seen = [p \in Processes |-> NoName]
  /\ fetched = [p \in Processes |-> NoCA]
  /\ torn = FALSE

GoTo(p, place) == at' = [at EXCEPT ![p] = place]

-----------------------------------------------------------------------------
(* IsTrusted *)

CallIsTrusted(p, ca) ==
  /\ at[p] = "idle"
  /\ GoTo(p, "checkConfig")
  /\ fetched' = [fetched EXCEPT ![p] = ca]
  /\ UNCHANGED <<cluster, seen, torn>>

CheckConfig(p) ==
  /\ at[p] = "checkConfig"
  /\ seen' = [seen EXCEPT ![p] = config]
  /\ GoTo(p, IF config = NoName THEN "untrusted" ELSE "checkConfigmap")
  /\ UNCHANGED <<cluster, fetched, torn>>

\* Mutant of CheckConfigmap: it is enough that the registry has some certificate.
CheckConfigmapKey(p) ==
  /\ at[p] = "checkConfigmap"
  /\ GoTo(p, IF seen[p] \in exists /\ data[seen[p]][ServerOf[p]] # NoCA
             THEN "trusted" ELSE "untrusted")
  /\ UNCHANGED <<cluster, seen, fetched, torn>>

CheckConfigmap(p) ==
  /\ at[p] = "checkConfigmap"
  /\ GoTo(p, IF seen[p] \in exists /\ data[seen[p]][ServerOf[p]] = fetched[p]
             THEN "trusted" ELSE "untrusted")
  /\ UNCHANGED <<cluster, seen, fetched, torn>>

-----------------------------------------------------------------------------
(* AddTrusted *)

CallAddTrusted(p) ==
  /\ at[p] = "untrusted"
  /\ GoTo(p, "addConfig")
  /\ UNCHANGED <<cluster, seen, fetched, torn>>

AddConfig(p) ==
  /\ at[p] = "addConfig"
  /\ seen' = [seen EXCEPT ![p] = config]
  /\ GoTo(p, IF config = NoName THEN "create" ELSE "addConfigmap")
  /\ UNCHANGED <<cluster, fetched, torn>>

AddConfigmap(p) ==
  /\ at[p] = "addConfigmap"
  /\ GoTo(p, IF seen[p] \notin exists THEN "create"
             ELSE IF data[seen[p]][ServerOf[p]] = fetched[p] THEN "added"
             ELSE "patch")
  /\ UNCHANGED <<cluster, seen, fetched, torn>>

\* It is created with the name of the tool, whatever the name in the configuration.
Create(p) ==
  /\ at[p] = "create"
  /\ IF Default \in exists
     THEN GoTo(p, "refused") /\ UNCHANGED <<exists, data>>
     ELSE /\ exists' = exists \union {Default}
          /\ data' = [data EXCEPT ![Default] = [Empty EXCEPT ![ServerOf[p]] = fetched[p]]]
          /\ GoTo(p, IF seen[p] = Default THEN "added" ELSE "link")
  /\ UNCHANGED <<config, seen, fetched, torn>>

\* Mutant of Patch: the data are replaced, as in the creation.
PatchReplaces(p) ==
  /\ at[p] = "patch"
  /\ data' = [data EXCEPT ![seen[p]] = [Empty EXCEPT ![ServerOf[p]] = fetched[p]]]
  /\ GoTo(p, "added")
  /\ UNCHANGED <<config, exists, seen, fetched, torn>>

\* A merge patch, that only has the key of the registry.
Patch(p) ==
  /\ at[p] = "patch"
  /\ data' = [data EXCEPT ![seen[p]][ServerOf[p]] = fetched[p]]
  /\ GoTo(p, "added")
  /\ UNCHANGED <<config, exists, seen, fetched, torn>>

\* The image configuration is pointed to the new configmap.
Link(p) ==
  /\ at[p] = "link"
  /\ config' = Default
  /\ GoTo(p, "added")
  /\ UNCHANGED <<exists, data, seen, fetched, torn>>

-----------------------------------------------------------------------------
\* The process ends: on its own, killed, or because a request failed.
Leave(p) ==
  /\ at[p] # "idle"
  /\ GoTo(p, "idle")
  /\ seen' = [seen EXCEPT ![p] = NoName]
  /\ fetched' = [fetched EXCEPT ![p] = NoCA]
  /\ torn' = (torn \/ at[p] = "link")
  /\ UNCHANGED cluster

ToolStep(p) ==
  \/ CheckConfig(p) \/ CheckConfigmap(p)
  \/ AddConfig(p) \/ AddConfigmap(p) \/ Create(p) \/ Patch(p) \/ Link(p)

ToolProcess(p) ==
  \/ \E ca \in 1 .. MaxCAs : CallIsTrusted(p, ca)
  \/ CallAddTrusted(p) \/ ToolStep(p) \/ Leave(p)

ToolNext == \E p \in Processes : ToolProcess(p)

ToolSpec == ToolInit /\ [][ToolNext]_toolVars

-----------------------------------------------------------------------------
(* Properties. *)

ToolType ==
  /\ config \in Names \union {NoName}
  /\ exists \subseteq Names
  /\ data \in [Names -> [Servers -> 0 .. MaxCAs]]
  /\ \A n \in Names \ exists : data[n] = Empty
  /\ at \in [Processes -> {"idle"} \union Inside \union Returned]
  /\ seen \in [Processes -> Names \union {NoName}]
  /\ fetched \in [Processes -> 0 .. MaxCAs]
  /\ \A p \in Processes : at[p] # "idle" => fetched[p] # NoCA
  /\ \A p \in Processes : at[p] = "patch" => seen[p] \in exists
  /\ torn \in BOOLEAN

\* The tool implements the trust store: whatever processes do at the same time, each
\* step adds one registry to the ones that the cluster trusts, or changes nothing
\* (registry_tool.go, AddTrusted: a merge patch of one key, and the configuration
\* is only pointed to another configmap when the one that it names doesn't exist).
Store == INSTANCE TrustStore WITH trusted <- Effective
ImplementsTrustStore == Store!Spec

\* The configmap of the tool isn't left out of the configuration, which would make
\* AddTrusted fail for ever, unless a process died between the two writes
\* (registry_tool.go, AddTrusted).
OrphanOnlyIfTorn ==
  Default \in exists => config = Default \/ torn \/ \E p \in Processes : at[p] = "link"

\* What the comment of AddTrusted says (registry_tool.go:267): the configmap is created
\* or updated.  So a process that is alone isn't refused because it exists.
CreatesOrUpdates ==
  [][\A p \in Processes : at[p] = "create" /\ at'[p] = "refused" =>
       \E q \in Processes \ {p} : at[q] # "idle"]_toolVars
=============================================================================
