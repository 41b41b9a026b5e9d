--------------------------- MODULE RegistryToolProofs ---------------------------
(***************************************************************************)
(* The registry tool implements the trust store, for any processes, any    *)
(* registries and any names of configmaps.                                 *)
(***************************************************************************)
EXTENDS RegistryTool, TLAPS

\* The configmaps that exist and aren't of the tool are the one of the configuration,
\* and a process that has read the name of the tool knows the present configuration.
NameInv ==
  /\ \A n \in exists \ {Default} : config = n
  /\ \A p \in Processes : seen[p] = Default => config = Default

\* What a process knows of the configuration when it is about to write.
PlanInv ==
  \A p \in Processes :
    /\ at[p] \in {"addConfigmap", "create"} => Default \in exists \/ seen[p] = config
    /\ at[p] = "create" => seen[p] \notin exists \ {Default}
    /\ at[p] \in {"checkConfigmap", "addConfigmap"} => seen[p] # NoName
    /\ at[p] = "refused" => Default \in exists

\* The process that is about to link the configmap is the only one, the configmap has
\* its registry, and the configuration has nothing to lose.
LinkInv ==
  \A p \in Processes : at[p] = "link" =>
    /\ Default \in exists /\ config \notin exists
    /\ data[Default] = [Empty EXCEPT ![ServerOf[p]] = fetched[p]]
    /\ \A q \in Processes : at[q] = "link" => q = p

ToolInv == ToolType /\ NameInv /\ PlanInv /\ LinkInv

-----------------------------------------------------------------------------
(* Types. *)

LEMMA InitToolType == ToolInit => ToolType
<1> SUFFICES ASSUME ToolInit PROVE ToolType
  OBVIOUS
<1>1. data \in [Names -> [Servers -> 0 .. MaxCAs]]
  <2>1. {NoCA, 1} \subseteq 0 .. MaxCAs
    BY ToolAssumption DEF NoCA
  <2> QED
    BY <2>1 DEF ToolInit
<1>2. fetched \in [Processes -> 0 .. MaxCAs]
  BY ToolAssumption DEF ToolInit, NoCA
<1> QED
  BY <1>1, <1>2 DEF ToolInit, ToolType

LEMMA NextToolType == ToolType /\ [ToolNext]_toolVars => ToolType'
<1> SUFFICES ASSUME ToolType, [ToolNext]_toolVars PROVE ToolType'
  OBVIOUS
<1> USE ToolAssumption DEF ToolType
<1>1. CASE UNCHANGED toolVars
  BY <1>1 DEF toolVars, cluster, Empty
<1>2. ASSUME NEW p \in Processes, ToolProcess(p) PROVE ToolType'
  <2>1. ASSUME NEW ca \in 1 .. MaxCAs, CallIsTrusted(p, ca) PROVE ToolType'
    BY <2>1 DEF CallIsTrusted, GoTo, cluster, Inside, Empty, NoCA
  <2>2. CASE CallAddTrusted(p)
    BY <2>2 DEF CallAddTrusted, GoTo, cluster, Inside, Empty, NoCA
  <2>3. CASE CheckConfig(p)
    BY <2>3 DEF CheckConfig, GoTo, cluster, Inside, Returned, Empty
  <2>4. CASE CheckConfigmap(p)
    BY <2>4 DEF CheckConfigmap, GoTo, cluster, Returned, Empty
  <2>5. CASE AddConfig(p)
    BY <2>5 DEF AddConfig, GoTo, cluster, Inside, Empty
  <2>6. CASE AddConfigmap(p)
    BY <2>6 DEF AddConfigmap, GoTo, cluster, Inside, Returned, Empty
  <2>7. CASE Create(p)
    <3>1. /\ at' \in [Processes -> {"idle"} \union Inside \union Returned]
          /\ \A q \in Processes : at'[q] # "idle" => fetched'[q] # NoCA
          /\ \A q \in Processes : at'[q] = "patch" => seen'[q] \in exists'
      BY <2>7 DEF Create, GoTo, Inside, Returned
    <3>2. /\ exists' \subseteq Names
          /\ data' \in [Names -> [Servers -> 0 .. MaxCAs]]
          /\ \A n \in Names \ exists' : data'[n] = Empty
      <4>1. CASE Default \in exists
        BY <2>7, <4>1 DEF Create
      <4>2. CASE Default \notin exists
        <5>1. [Empty EXCEPT ![ServerOf[p]] = fetched[p]] \in [Servers -> 0 .. MaxCAs]
          BY DEF Empty, NoCA
        <5>2. /\ exists' = exists \union {Default}
              /\ data' = [data EXCEPT ![Default] = [Empty EXCEPT ![ServerOf[p]] = fetched[p]]]
          BY <2>7, <4>2 DEF Create
        <5> QED
          BY <5>1, <5>2
      <4> QED
        BY <4>1, <4>2
    <3>3. config' = config /\ seen' = seen /\ fetched' = fetched /\ torn' = torn
      BY <2>7 DEF Create
    <3> QED
      BY <3>1, <3>2, <3>3 DEF Empty, NoCA
  <2>8. CASE Patch(p)
    BY <2>8 DEF Patch, GoTo, Returned, Empty
  <2>9. CASE Link(p)
    BY <2>9 DEF Link, GoTo, Returned, Empty
  <2>10. CASE Leave(p)
    BY <2>10 DEF Leave, GoTo, cluster, Empty, NoCA
  <2> QED
    BY <1>2, <2>1, <2>2, <2>3, <2>4, <2>5, <2>6, <2>7, <2>8, <2>9, <2>10
    DEF ToolProcess, ToolStep
<1> QED
  BY <1>1, <1>2 DEF ToolNext

-----------------------------------------------------------------------------
(* The invariants. *)

LEMMA InitToolInv == ToolInit => ToolInv
<1> SUFFICES ASSUME ToolInit PROVE ToolInv
  OBVIOUS
<1>1. ToolType
  BY InitToolType
<1>2. NameInv
  BY ToolAssumption DEF ToolInit, NameInv
<1>3. PlanInv /\ LinkInv
  BY DEF ToolInit, PlanInv, LinkInv
<1> QED
  BY <1>1, <1>2, <1>3 DEF ToolInv

LEMMA NextNameInv == ToolInv /\ [ToolNext]_toolVars => NameInv'
<1> SUFFICES ASSUME ToolInv, [ToolNext]_toolVars PROVE NameInv'
  OBVIOUS
<1> USE ToolAssumption DEF ToolInv, ToolType, NameInv
<1>1. CASE UNCHANGED toolVars
  BY <1>1 DEF toolVars, cluster
<1>2. ASSUME NEW p \in Processes, ToolProcess(p) PROVE NameInv'
  <2>1. ASSUME NEW ca \in 1 .. MaxCAs, CallIsTrusted(p, ca) PROVE NameInv'
    BY <2>1 DEF CallIsTrusted, cluster
  <2>2. CASE CallAddTrusted(p) \/ CheckConfigmap(p) \/ AddConfigmap(p)
    BY <2>2 DEF CallAddTrusted, CheckConfigmap, AddConfigmap, cluster
  <2>3. CASE CheckConfig(p) \/ AddConfig(p)
    BY <2>3 DEF CheckConfig, AddConfig, cluster
  <2>4. CASE Create(p)
    BY <2>4 DEF Create
  <2>5. CASE Patch(p)
    BY <2>5 DEF Patch
  <2>6. CASE Link(p)
    BY <2>6 DEF Link, LinkInv
  <2>7. CASE Leave(p)
    BY <2>7 DEF Leave, cluster
  <2> QED
    BY <1>2, <2>1, <2>2, <2>3, <2>4, <2>5, <2>6, <2>7 DEF ToolProcess, ToolStep
<1> QED
  BY <1>1, <1>2 DEF ToolNext

LEMMA NextPlanInv == ToolInv /\ [ToolNext]_toolVars => PlanInv'
<1> SUFFICES ASSUME ToolInv, [ToolNext]_toolVars PROVE PlanInv'
  OBVIOUS
<1> USE ToolAssumption DEF ToolInv, ToolType, NameInv, PlanInv
<1>1. CASE UNCHANGED toolVars
  BY <1>1 DEF toolVars, cluster
<1>2. ASSUME NEW p \in Processes, ToolProcess(p) PROVE PlanInv'
  <2>1. ASSUME NEW ca \in 1 .. MaxCAs, CallIsTrusted(p, ca) PROVE PlanInv'
    BY <2>1 DEF CallIsTrusted, GoTo, cluster
  <2>2. CASE CallAddTrusted(p)
    BY <2>2 DEF CallAddTrusted, GoTo, cluster
  <2>3. CASE CheckConfig(p)
    BY <2>3 DEF CheckConfig, GoTo, cluster
  <2>4. CASE CheckConfigmap(p)
    BY <2>4 DEF CheckConfigmap, GoTo, cluster
  <2>5. CASE AddConfig(p)
    BY <2>5 DEF AddConfig, GoTo, cluster
  <2>6. CASE AddConfigmap(p)
    BY <2>6 DEF AddConfigmap, GoTo, cluster
  <2>7. CASE Create(p)
    BY <2>7 DEF Create, GoTo
  <2>8. CASE Patch(p)
    BY <2>8 DEF Patch, GoTo
  <2>9. CASE Link(p)
    BY <2>9 DEF Link, LinkInv, GoTo
  <2>10. CASE Leave(p)
    BY <2>10 DEF Leave, GoTo, cluster
  <2> QED
    BY <1>2, <2>1, <2>2, <2>3, <2>4, <2>5, <2>6, <2>7, <2>8, <2>9, <2>10
    DEF ToolProcess, ToolStep
<1> QED
  BY <1>1, <1>2 DEF ToolNext

LEMMA NextLinkInv == ToolInv /\ [ToolNext]_toolVars => LinkInv'
<1> SUFFICES ASSUME ToolInv, [ToolNext]_toolVars PROVE LinkInv'
  OBVIOUS
<1> USE ToolAssumption DEF ToolInv, ToolType, LinkInv
<1>1. CASE UNCHANGED toolVars
  BY <1>1 DEF toolVars, cluster, Empty
<1>2. ASSUME NEW p \in Processes, ToolProcess(p) PROVE LinkInv'
  <2>1. ASSUME NEW ca \in 1 .. MaxCAs, CallIsTrusted(p, ca) PROVE LinkInv'
    BY <2>1 DEF CallIsTrusted, GoTo, cluster, Empty
  <2>2. CASE CallAddTrusted(p) \/ CheckConfig(p) \/ CheckConfigmap(p)
    BY <2>2 DEF CallAddTrusted, CheckConfig, CheckConfigmap, GoTo, cluster, Empty
  <2>3. CASE AddConfig(p) \/ AddConfigmap(p)
    BY <2>3 DEF AddConfig, AddConfigmap, GoTo, cluster, Empty
  <2>4. CASE Create(p)
    <3>1. CASE Default \in exists
      BY <2>4, <3>1 DEF Create, GoTo, Empty
    <3>2. CASE Default \notin exists
      <4>1. \A q \in Processes : at[q] # "link"
        BY <3>2
      <4>2. /\ at' = [at EXCEPT ![p] = IF seen[p] = Default THEN "added" ELSE "link"]
            /\ exists' = exists \union {Default}
            /\ data'[Default] = [Empty EXCEPT ![ServerOf[p]] = fetched[p]]
            /\ config' = config /\ fetched' = fetched /\ seen[p] = config
        BY <2>4, <3>2 DEF Create, GoTo, PlanInv
      <4>3. seen[p] # Default => config \notin exists'
        BY <2>4, <3>2, <4>2 DEF Create, PlanInv
      <4> QED
        BY <4>1, <4>2, <4>3 DEF Empty
    <3> QED
      BY <3>1, <3>2
  <2>5. CASE Patch(p)
    <3>1. seen[p] \in exists /\ config = seen[p]
      BY <2>5 DEF Patch, NameInv
    <3>2. \A q \in Processes : at[q] # "link"
      BY <3>1
    <3> QED
      BY <2>5, <3>2 DEF Patch, GoTo
  <2>6. CASE Link(p)
    BY <2>6 DEF Link, GoTo
  <2>7. CASE Leave(p)
    BY <2>7 DEF Leave, GoTo, cluster, Empty
  <2> QED
    BY <1>2, <2>1, <2>2, <2>3, <2>4, <2>5, <2>6, <2>7 DEF ToolProcess, ToolStep
<1> QED
  BY <1>1, <1>2 DEF ToolNext

THEOREM ToolInvariant == ToolSpec => []ToolInv
<1>1. ToolInv /\ [ToolNext]_toolVars => ToolInv'
  BY NextToolType, NextNameInv, NextPlanInv, NextLinkInv DEF ToolInv
<1> QED
  BY <1>1, InitToolInv, PTL DEF ToolSpec

\* The configmap of the tool isn't left out of the configuration unless a process died
\* between the two writes of AddTrusted, for any processes.
THEOREM ToolLeavesNoOrphan == ToolSpec => []OrphanOnlyIfTorn
<1> USE ToolAssumption
<1>1. ToolInit => OrphanOnlyIfTorn
  BY DEF ToolInit, OrphanOnlyIfTorn
<1>2. ToolType /\ NameInv /\ OrphanOnlyIfTorn /\ [ToolNext]_toolVars => OrphanOnlyIfTorn'
  <2> SUFFICES ASSUME ToolType, NameInv, OrphanOnlyIfTorn, [ToolNext]_toolVars
               PROVE OrphanOnlyIfTorn'
    OBVIOUS
  <2> USE DEF ToolType, OrphanOnlyIfTorn
  <2>1. CASE UNCHANGED toolVars
    BY <2>1 DEF toolVars, cluster
  <2>2. ASSUME NEW p \in Processes, ToolProcess(p) PROVE OrphanOnlyIfTorn'
    <3>1. ASSUME NEW ca \in 1 .. MaxCAs, CallIsTrusted(p, ca) PROVE OrphanOnlyIfTorn'
      BY <3>1 DEF CallIsTrusted, GoTo, cluster
    <3>2. CASE CallAddTrusted(p) \/ CheckConfig(p) \/ CheckConfigmap(p)
      BY <3>2 DEF CallAddTrusted, CheckConfig, CheckConfigmap, GoTo, cluster
    <3>3. CASE AddConfig(p) \/ AddConfigmap(p)
      BY <3>3 DEF AddConfig, AddConfigmap, GoTo, cluster
    <3>4. CASE Create(p)
      <4>1. CASE Default \in exists
        BY <3>4, <4>1 DEF Create, GoTo
      <4>2. CASE Default \notin exists /\ seen[p] # Default
        BY <3>4, <4>2 DEF Create, GoTo
      <4>3. CASE Default \notin exists /\ seen[p] = Default
        BY <3>4, <4>3 DEF Create, GoTo, NameInv
      <4> QED
        BY <4>1, <4>2, <4>3
    <3>5. CASE Patch(p)
      BY <3>5 DEF Patch, GoTo
    <3>6. CASE Link(p)
      BY <3>6 DEF Link
    <3>7. CASE Leave(p)
      BY <3>7 DEF Leave, GoTo, cluster
    <3> QED
      BY <2>2, <3>1, <3>2, <3>3, <3>4, <3>5, <3>6, <3>7 DEF ToolProcess, ToolStep
  <2> QED
    BY <2>1, <2>2 DEF ToolNext
<1> QED
  BY <1>1, <1>2, ToolInvariant, PTL DEF ToolSpec, ToolInv

-----------------------------------------------------------------------------
(* The refinement. *)

\* What a step of a process does to the registries that are trusted: it adds the one of
\* the process, from one of the three writes, or nothing.
LEMMA StepAdds ==
  ASSUME ToolInv, NEW p \in Processes, ToolProcess(p)
  PROVE  \/ Effective' = Effective
         \/ /\ at[p] \in {"create", "patch", "link"}
            /\ Effective' = [Effective EXCEPT ![ServerOf[p]] = fetched[p]]
<1> USE ToolAssumption DEF ToolInv, ToolType
<1>1. CASE UNCHANGED cluster
  BY <1>1 DEF cluster, Effective, Empty
<1>2. CASE Create(p)
  <2>1. CASE Default \in exists
    BY <1>2, <2>1, <1>1 DEF Create, cluster
  <2>2. CASE Default \notin exists
    <3>1. /\ at[p] = "create" /\ config' = config /\ exists' = exists \union {Default}
          /\ data' = [data EXCEPT ![Default] = [Empty EXCEPT ![ServerOf[p]] = fetched[p]]]
          /\ seen[p] = config /\ config \notin exists
      BY <1>2, <2>2 DEF Create, PlanInv
    <3>2. Effective = Empty
      BY <3>1 DEF Effective
    <3>3. CASE config = Default
      BY <3>1, <3>2, <3>3 DEF Effective
    <3>4. CASE config # Default
      BY <3>1, <3>2, <3>4 DEF Effective, Empty
    <3> QED
      BY <3>3, <3>4
  <2> QED
    BY <2>1, <2>2
<1>3. CASE Patch(p)
  <2>1. at[p] = "patch" /\ seen[p] \in exists /\ config = seen[p]
    BY <1>3 DEF Patch, NameInv
  <2>2. /\ config' = config /\ exists' = exists
        /\ data' = [data EXCEPT ![seen[p]][ServerOf[p]] = fetched[p]]
    BY <1>3 DEF Patch
  <2> QED
    BY <2>1, <2>2 DEF Effective
<1>4. CASE Link(p)
  <2>1. at[p] = "link" /\ config' = Default /\ exists' = exists /\ data' = data
    BY <1>4 DEF Link
  <2>2. /\ Default \in exists /\ Effective = Empty
        /\ data[Default] = [Empty EXCEPT ![ServerOf[p]] = fetched[p]]
    BY <2>1 DEF LinkInv, Effective
  <2> QED
    BY <2>1, <2>2 DEF Effective
<1>5. CASE CallAddTrusted(p) \/ Leave(p) \/ \E ca \in 1 .. MaxCAs : CallIsTrusted(p, ca)
  BY <1>1, <1>5 DEF CallAddTrusted, Leave, CallIsTrusted
<1>6. CASE CheckConfig(p) \/ CheckConfigmap(p) \/ AddConfig(p) \/ AddConfigmap(p)
  BY <1>1, <1>6 DEF CheckConfig, CheckConfigmap, AddConfig, AddConfigmap
<1> QED
  BY <1>2, <1>3, <1>4, <1>5, <1>6 DEF ToolProcess, ToolStep

\* The tool implements the trust store: for any processes, registries and names, what
\* the cluster trusts changes one registry at a time.
THEOREM ToolImplementsTrustStore == ToolSpec => ImplementsTrustStore
<1> USE ToolAssumption
<1>1. ToolInv => Effective \in [Servers -> 0 .. MaxCAs]
  BY DEF ToolInv, ToolType, Effective, Empty, NoCA
<1>2. ToolInit => Store!Init
  BY <1>1, InitToolInv DEF Store!Init, Store!TypeOK
<1>3. ToolInv /\ [ToolNext]_toolVars => [Store!Next]_Effective
  <2> SUFFICES ASSUME ToolInv, [ToolNext]_toolVars, Effective' # Effective PROVE Store!Next
    OBVIOUS
  <2>1. CASE UNCHANGED toolVars
    BY <2>1 DEF toolVars, cluster, Effective, Empty
  <2>2. ASSUME NEW p \in Processes, ToolProcess(p) PROVE Store!Next
    <3>1. /\ at[p] \in {"create", "patch", "link"}
          /\ Effective' = [Effective EXCEPT ![ServerOf[p]] = fetched[p]]
      BY <2>2, StepAdds
    <3>2. fetched[p] \in 1 .. MaxCAs /\ ServerOf[p] \in Servers
      BY <3>1 DEF ToolInv, ToolType, NoCA
    <3> QED
      BY <3>1, <3>2 DEF Store!Next, Store!Add
  <2> QED
    BY <2>1, <2>2 DEF ToolNext
<1> QED
  BY <1>2, <1>3, ToolInvariant, PTL DEF ToolSpec, ImplementsTrustStore, Store!Spec
=============================================================================
