-------------------------- MODULE CreateRegistryProofs --------------------------
(***************************************************************************)
(* Theorems about the registry commands, for any nodes, any other processes*)
(* that use the registry tool, and any number of registries one after the  *)
(* other.                                                                  *)
(***************************************************************************)
EXTENDS CreateRegistry, RegistryToolProofs

Initializing == {"user", "organization", "secret"}
Trusting == {"trust", "install", "add"}
Finishing == {"pull", "patch"} \union Trusting

\* The steps of a creation before it installs anything in the nodes.
Preparing == {"namespace", "registry", "wait", "token", "pull", "patch", "trust"} \union Initializing

\* What the command has done before it gets to each step, that nothing undoes.
StageInv ==
  /\ pc \in {"namespace", "registry"} => registry # "absent" \/ authority < MaxCAs
  /\ pc \in {"wait", "token"} \union Initializing \union Finishing => registry # "absent"
  /\ pc \in {"token"} \union Initializing \union Finishing => registry = "available"
  /\ pc = "deleteNamespace" => registry = "absent"
  /\ pc # "idle" => result = "none"
  /\ pc \in {"organization", "secret"} => database # "empty"
  /\ pc = "secret" => database = "complete"
  /\ pc \in Initializing => token = "absent"
  /\ pc \in Finishing => token = "present"
  /\ pc \in Trusting => "local" \in pull

\* The secret and the database of Quay.
DatabaseInv ==
  /\ token = "present" => database = "complete" \/ damage = "stale"
  /\ token = "absent" /\ database # "empty" =>
       damage = "half" \/ pc \in {"organization", "secret"}

\* Where the command is inside of the tool, and what it does there.
CallInv ==
  /\ at[Creator] # "idle" => fetched[Creator] = authority
  /\ pc = "trust" =>
       at[Creator] \in {"idle", "checkConfig", "checkConfigmap", "trusted", "untrusted"}
  /\ pc = "install" => at[Creator] = "untrusted"
  /\ pc = "add" =>
       at[Creator] \in {"addConfig", "addConfigmap", "create", "patch", "link",
                       "added", "refused"}
  /\ at[Creator] \in {"trusted", "added"} => Effective[Local] = authority

\* The nodes that have the certificate, and the one that the cluster trusts.  The nodes of
\* the cluster that the command doesn't know are those that joined since it started.
NodesInv ==
  /\ pc \in Preparing => \A n \in members \ left : missing[n] = "late"
  /\ pc \in {"install", "add"} => \A n \in members \ left : Installed(n)
  /\ pc = "add" => left = {}
  /\ Effective[Local] <= authority
  /\ TrustedNodes

-----------------------------------------------------------------------------
(* The commands are users of the registry tool. *)

LEMMA CreatorFacts ==
  /\ Creator \in Processes /\ Local \in Servers
  /\ \A p \in Processes \ {Creator} : ServerOf[p] # Local
  BY ToolAssumption, CreateRegistryAssumption DEF Local

LEMMA NextIsToolNext == TypeOK /\ StageInv /\ [Next]_vars => [ToolNext]_toolVars
<1> SUFFICES ASSUME TypeOK, StageInv, [Next]_vars PROVE [ToolNext]_toolVars
  OBVIOUS
<1>1. CASE UNCHANGED vars
  BY <1>1 DEF vars
<1>2. ASSUME NEW p \in Processes, ToolProcess(p) PROVE [ToolNext]_toolVars
  BY <1>2 DEF ToolNext
<1>3. CASE BecomeAvailable \/ CollectDatabase \/ Vanish \/ EditPull \/ \E n \in Nodes : Join(n)
  BY <1>3 DEF BecomeAvailable, CollectDatabase, Vanish, EditPull, Join
<1>4. CASE StartCreate \/ StartDelete \/ DeleteRegistry \/ DeleteNamespace
  BY <1>4 DEF StartCreate, StartDelete, DeleteRegistry, DeleteNamespace
<1>5. CASE ApplyNamespace \/ ApplyRegistry \/ WaitRegistry \/ CheckToken
  BY <1>5 DEF ApplyNamespace, ApplyRegistry, WaitRegistry, CheckToken
<1>6. CASE InitializeUser \/ CreateOrganization \/ CreateToken \/ ReadPull \/ PatchPull
  BY <1>6 DEF InitializeUser, CreateOrganization, CreateToken, ReadPull, PatchPull
<1>7. CASE NotTrusted \/ \E n \in left : InstallCA(n)
  BY <1>7 DEF NotTrusted, InstallCA
<1>8. CASE CheckTrust
  <2>1. authority \in 1 .. MaxCAs
    BY <1>8 DEF CheckTrust, StageInv, Finishing, Trusting, TypeOK, NoCA
  <2> QED
    BY <1>8, <2>1, <1>2, CreatorFacts DEF CheckTrust, ToolProcess
<1>9. CASE AlreadyTrusted \/ AddTrusted \/ Added \/ Die \/ ToolStep(Creator)
  BY <1>9, <1>2, CreatorFacts DEF AlreadyTrusted, AddTrusted, Added, Die, ToolProcess
<1> QED
  BY <1>1, <1>2, <1>3, <1>4, <1>5, <1>6, <1>7, <1>8, <1>9 DEF Next, Command

\* What another process does to the command and to its registry: nothing.
LEMMA OthersPlace ==
  ASSUME ToolType, NEW p \in Processes \ {Creator}, ToolProcess(p)
  PROVE  at'[Creator] = at[Creator] /\ fetched'[Creator] = fetched[Creator]
<1>1. \E place : at' = [at EXCEPT ![p] = place]
  BY DEF ToolProcess, ToolStep, CallIsTrusted, CallAddTrusted, CheckConfig, CheckConfigmap,
         AddConfig, AddConfigmap, Create, Patch, Link, Leave, GoTo
<1>2. fetched' = fetched \/ \E ca : fetched' = [fetched EXCEPT ![p] = ca]
  BY DEF ToolProcess, ToolStep, CallIsTrusted, CallAddTrusted, CheckConfig, CheckConfigmap,
         AddConfig, AddConfigmap, Create, Patch, Link, Leave
<1> QED
  BY <1>1, <1>2, CreatorFacts DEF ToolType

LEMMA EffectiveType == ToolType => Effective \in [Servers -> 0 .. MaxCAs]
  BY ToolAssumption DEF ToolType, Effective, Empty, NoCA

LEMMA OthersFrame ==
  ASSUME ToolInv, NEW p \in Processes \ {Creator}, ToolProcess(p)
  PROVE  Effective'[Local] = Effective[Local]
  BY EffectiveType, StepAdds, CreatorFacts DEF ToolInv

-----------------------------------------------------------------------------
(* Types. *)

LEMMA InitTypeOK == Init => TypeOK
  BY InitToolType, CreatorFacts, ToolAssumption, CreateRegistryAssumption
  DEF Init, TypeOK, ToolInit, NoCA

LEMMA NextTypeOK == TypeOK /\ StageInv /\ [Next]_vars => TypeOK'
<1> SUFFICES ASSUME TypeOK, StageInv, [Next]_vars PROVE TypeOK'
  OBVIOUS
<1>t. ToolType'
  BY NextIsToolNext, NextToolType DEF TypeOK
<1> USE ToolAssumption, CreatorFacts, <1>t DEF TypeOK, NoCA
<1>1. CASE UNCHANGED vars
  BY <1>1 DEF vars, registryVars, objects, process, nodes, toolVars
<1>2. CASE BecomeAvailable \/ CollectDatabase
  <2>1. CASE BecomeAvailable
    BY <2>1 DEF BecomeAvailable, process, nodes, toolVars
  <2>2. CASE CollectDatabase
    BY <2>2 DEF CollectDatabase, process, nodes, toolVars
  <2> QED
    BY <1>2, <2>1, <2>2
<1>3. CASE Vanish \/ EditPull \/ \E n \in Nodes : Join(n)
  <2>1. CASE Vanish
    BY <2>1 DEF Vanish, process, nodes, toolVars
  <2>2. CASE EditPull
    BY <2>2 DEF EditPull, objects, process, nodes, toolVars
  <2>3. ASSUME NEW n \in Nodes, Join(n) PROVE TypeOK'
    BY <2>3 DEF Join, objects, process, toolVars
  <2> QED
    BY <1>3, <2>1, <2>2, <2>3
<1>4. CASE StartCreate \/ StartDelete
  BY <1>4 DEF StartCreate, StartDelete, objects, nodes, toolVars
<1>5. CASE ApplyNamespace \/ WaitRegistry \/ CheckToken
  <2>1. CASE ApplyNamespace
    BY <2>1 DEF ApplyNamespace, Go, objects, nodes, toolVars
  <2>2. CASE WaitRegistry
    BY <2>2 DEF WaitRegistry, Go, objects, nodes, toolVars
  <2>3. CASE CheckToken
    BY <2>3 DEF CheckToken, Go, objects, nodes, toolVars
  <2> QED
    BY <1>5, <2>1, <2>2, <2>3
<1>6. CASE ApplyRegistry
  <2>1. CASE namespace = "active"
    <3>1. registry # "absent" \/ authority < MaxCAs
      BY <1>6 DEF ApplyRegistry, StageInv
    <3>2. authority' \in 0 .. MaxCAs /\ authority' # NoCA
      BY <1>6, <2>1, <3>1 DEF ApplyRegistry
    <3>3. /\ registry' \in {"present", "available"} /\ namespace' = "active" /\ pc' = "wait"
          /\ UNCHANGED <<at, database, token, pull, members, nodeCA, damage, left, seenPull,
                         result>>
          /\ missing' \in [Nodes -> {"none", "script", "late"}]
      BY <1>6, <2>1 DEF ApplyRegistry, Go, toolVars
    <3> QED
      BY <1>6, <3>2, <3>3 DEF ApplyRegistry
  <2>2. CASE namespace # "active"
    BY <1>6, <2>2 DEF ApplyRegistry, End, nodes, toolVars
  <2> QED
    BY <2>1, <2>2
<1>7. CASE InitializeUser \/ CreateOrganization \/ CreateToken
  <2>1. CASE InitializeUser
    BY <2>1 DEF InitializeUser, Go, End, objects, nodes, toolVars
  <2>2. CASE CreateOrganization
    BY <2>2 DEF CreateOrganization, Go, End, objects, nodes, toolVars
  <2>3. CASE CreateToken
    BY <2>3 DEF CreateToken, Go, End, objects, nodes, toolVars
  <2> QED
    BY <1>7, <2>1, <2>2, <2>3
<1>8. CASE ReadPull \/ PatchPull
  <2>1. CASE ReadPull
    <3>1. CASE "local" \in pull
      BY <2>1, <3>1 DEF ReadPull, Go, objects, nodes, toolVars
    <3>2. CASE "local" \notin pull
      <4>1. pull \subseteq {"other"}
        BY <3>2
      <4> QED
        BY <2>1, <3>2, <4>1 DEF ReadPull, nodes, objects, toolVars
    <3> QED
      BY <3>1, <3>2
  <2>2. CASE PatchPull
    BY <2>2 DEF PatchPull, nodes, objects, toolVars
  <2> QED
    BY <1>8, <2>1, <2>2
<1>9. CASE CheckTrust \/ NotTrusted \/ AddTrusted
  <2>1. CASE CheckTrust
    <3>1. pc = "trust" /\ UNCHANGED registryVars
      BY <2>1 DEF CheckTrust
    <3> QED
      BY <3>1 DEF registryVars, objects, process, nodes
  <2>2. CASE NotTrusted
    <3>1. pc' = "install" /\ UNCHANGED <<left, seenPull, result, objects, pull, nodes, damage>>
      BY <2>2 DEF NotTrusted, Go
    <3>2. at' = at /\ pc = "trust" /\ at[Creator] = "untrusted"
      BY <2>2 DEF NotTrusted, toolVars
    <3> QED
      BY <3>1, <3>2 DEF objects, nodes
  <2>3. CASE AddTrusted
    <3>1. pc' = "add" /\ UNCHANGED <<left, seenPull, result, objects, pull, nodes, damage>>
      BY <2>3 DEF AddTrusted, Go
    <3> QED
      BY <3>1 DEF objects, nodes
  <2> QED
    BY <1>9, <2>1, <2>2, <2>3
<1>10. CASE AlreadyTrusted \/ Added
  <2>1. /\ pc' = "idle" /\ left' = {} /\ seenPull' = {} /\ result' \in {"created", "refused"}
        /\ UNCHANGED <<objects, pull, nodes, damage>>
    BY <1>10 DEF AlreadyTrusted, Added, End
  <2>2. at'[Creator] = "idle"
    BY <1>10 DEF AlreadyTrusted, Added, Leave, GoTo, ToolType
  <2> QED
    BY <2>1, <2>2 DEF objects, nodes
<1>11. ASSUME NEW n \in left, InstallCA(n) PROVE TypeOK'
  <2>1. nodeCA' \in [Nodes -> 0 .. MaxCAs] /\ missing' \in [Nodes -> {"none", "script", "late"}]
    BY <1>11 DEF InstallCA, RunScript, ToolType
  <2> QED
    BY <1>11, <2>1 DEF InstallCA, objects, toolVars
<1>12. CASE DeleteRegistry \/ DeleteNamespace
  <2>1. CASE DeleteRegistry
    BY <2>1 DEF DeleteRegistry, Go, End, objects, nodes, toolVars, StageInv
  <2>2. CASE DeleteNamespace
    BY <2>2 DEF DeleteNamespace, Go, End, objects, nodes, toolVars, StageInv
  <2> QED
    BY <1>12, <2>1, <2>2
<1>13. CASE Die
  <2>1. /\ pc' = "idle" /\ left' = {} /\ seenPull' = {} /\ result' = "failed"
        /\ damage' \in {"none", "half", "stale"} /\ UNCHANGED <<objects, pull, nodes>>
    BY <1>13 DEF Die, End
  <2>2. at'[Creator] = "idle"
    BY <1>13 DEF Die, Leave, GoTo, ToolType, toolVars
  <2> QED
    BY <2>1, <2>2 DEF objects, nodes
<1>14. CASE ToolStep(Creator) /\ UNCHANGED registryVars
  <2>1. at[Creator] # "idle"
    BY <1>14 DEF ToolStep, CheckConfig, CheckConfigmap, AddConfig, AddConfigmap, Create, Patch,
                 Link
  <2> QED
    BY <1>14, <2>1 DEF registryVars, objects, process, nodes
<1>15. ASSUME NEW p \in Processes \ {Creator}, ToolProcess(p), UNCHANGED registryVars
       PROVE  TypeOK'
  <2>1. at'[Creator] = at[Creator]
    BY <1>15, OthersPlace
  <2> QED
    BY <1>15, <2>1 DEF registryVars, objects, process, nodes
<1> QED
  BY <1>1, <1>2, <1>3, <1>4, <1>5, <1>6, <1>7, <1>8, <1>9, <1>10, <1>11, <1>12, <1>13, <1>14,
     <1>15 DEF Next, Command

-----------------------------------------------------------------------------
(* The command and its registry. *)

LEMMA NextStageInv == TypeOK /\ StageInv /\ DatabaseInv /\ [Next]_vars => StageInv' /\ DatabaseInv'
<1> SUFFICES ASSUME TypeOK, StageInv, DatabaseInv, [Next]_vars
             PROVE  StageInv' /\ DatabaseInv'
  OBVIOUS
<1> USE DEF TypeOK, StageInv, DatabaseInv, Initializing, Finishing, Trusting
<1>1. CASE UNCHANGED registryVars
  BY <1>1 DEF registryVars, objects, process
<1>2. CASE BecomeAvailable
  BY <1>2 DEF BecomeAvailable, process
<1>3. CASE CollectDatabase
  BY <1>3 DEF CollectDatabase, process
<1>4. CASE Vanish
  BY <1>4 DEF Vanish, process
<1>5. CASE EditPull
  BY <1>5 DEF EditPull, objects, process
<1>6. CASE StartCreate \/ StartDelete
  BY <1>6 DEF StartCreate, StartDelete, objects
<1>7. CASE ApplyNamespace
  BY <1>7 DEF ApplyNamespace, Go
<1>8. CASE ApplyRegistry
  BY <1>8 DEF ApplyRegistry, Go, End
<1>9. CASE WaitRegistry
  BY <1>9 DEF WaitRegistry, Go, objects
<1>10. CASE CheckToken
  BY <1>10 DEF CheckToken, Go, objects
<1>11. CASE InitializeUser
  BY <1>11 DEF InitializeUser, Go, End
<1>12. CASE CreateOrganization
  BY <1>12 DEF CreateOrganization, Go
<1>13. CASE CreateToken
  BY <1>13 DEF CreateToken, Go
<1>14. CASE ReadPull
  BY <1>14 DEF ReadPull, Go, objects
<1>15. CASE PatchPull
  BY <1>15 DEF PatchPull, objects
<1>16. CASE AlreadyTrusted \/ Added
  BY <1>16 DEF AlreadyTrusted, Added, End, objects
<1>17. CASE NotTrusted \/ AddTrusted
  BY <1>17 DEF NotTrusted, AddTrusted, Go, objects
<1>18. ASSUME NEW n \in left, InstallCA(n) PROVE StageInv' /\ DatabaseInv'
  BY <1>18 DEF InstallCA, objects
<1>19. CASE DeleteRegistry
  BY <1>19 DEF DeleteRegistry, Go
<1>20. CASE DeleteNamespace
  BY <1>20 DEF DeleteNamespace, End
<1>21. CASE Die
  BY <1>21 DEF Die, End, objects
<1>22. CASE UNCHANGED vars \/ CheckTrust
  BY <1>1, <1>22 DEF vars, CheckTrust
<1>23. ASSUME NEW n \in Nodes, Join(n) PROVE StageInv' /\ DatabaseInv'
  BY <1>23 DEF Join, objects, process
<1> QED
  BY <1>1, <1>2, <1>3, <1>4, <1>5, <1>6, <1>7, <1>8, <1>9, <1>10, <1>11, <1>12, <1>13, <1>14,
     <1>15, <1>16, <1>17, <1>18, <1>19, <1>20, <1>21, <1>22, <1>23 DEF Next, Command

RegistryInv == TypeOK /\ StageInv /\ DatabaseInv

LEMMA RegistryInvariant == Spec => []RegistryInv
<1>1. Init => RegistryInv
  BY InitTypeOK DEF Init, RegistryInv, StageInv, DatabaseInv, Initializing, Finishing, Trusting
<1>2. RegistryInv /\ [Next]_vars => RegistryInv'
  BY NextTypeOK, NextStageInv DEF RegistryInv
<1> QED
  BY <1>1, <1>2, PTL DEF Spec

\* The types of the commands and of the cluster, for any nodes and processes.
THEOREM RegistryTypeCorrect == Spec => []TypeOK
  BY RegistryInvariant, PTL DEF RegistryInv

\* The secret and the database of Quay agree after any sequence of commands, but for the
\* two cases that are named.
THEOREM RegistrySecretMatches == Spec => []SecretMatchesDatabase
<1>1. RegistryInv => SecretMatchesDatabase
  BY DEF RegistryInv, TypeOK, DatabaseInv, SecretMatchesDatabase
<1> QED
  BY <1>1, RegistryInvariant, PTL

\* The commands, together with the other processes, use the tool as it is meant to be.
THEOREM RegistryUsesTool == Spec => ToolSpec
<1>1. Init => ToolInit
  BY DEF Init
<1>2. RegistryInv /\ [Next]_vars => [ToolNext]_toolVars
  BY NextIsToolNext DEF RegistryInv
<1> QED
  BY <1>1, <1>2, RegistryInvariant, PTL DEF Spec, ToolSpec

\* With the commands of the registry and any other processes, what the cluster trusts
\* changes one registry at a time.
THEOREM RegistryImplementsTrustStore == Spec => ImplementsTrustStore
  BY RegistryUsesTool, ToolImplementsTrustStore, PTL

-----------------------------------------------------------------------------
(* The nodes and what the cluster trusts. *)

\* How the call to the tool of the command advances.
LEMMA CreatorCalls ==
  ASSUME ToolInv, ToolStep(Creator)
  PROVE  /\ at[Creator] \in {"checkConfig", "checkConfigmap"} =>
              at'[Creator] \in {"checkConfigmap", "trusted", "untrusted"}
         /\ at[Creator] \in {"addConfig", "addConfigmap", "create", "patch", "link"} =>
              at'[Creator] \in {"addConfigmap", "create", "patch", "link", "added", "refused"}
         /\ at[Creator] \in Inside
         /\ fetched' = fetched
  BY CreatorFacts
  DEF ToolInv, ToolType, ToolStep, CheckConfig, CheckConfigmap, AddConfig, AddConfigmap, Create,
      Patch, Link, GoTo, Inside

\* The tool says that a registry is trusted, or added, when the cluster trusts it.
LEMMA CreatorDone ==
  ASSUME ToolInv, ToolStep(Creator), at'[Creator] \in {"trusted", "added"}
  PROVE  Effective'[Local] = fetched[Creator]
<1> USE CreatorFacts, ToolAssumption DEF ToolInv, ToolType
<1>1. CASE CheckConfigmap(Creator)
  <2>1. seen[Creator] \in exists /\ data[seen[Creator]][Local] = fetched[Creator]
        /\ config' = config /\ exists' = exists /\ data' = data
    BY <1>1 DEF CheckConfigmap, GoTo, cluster, Local
  <2>2. config = seen[Creator]
    BY <2>1 DEF NameInv
  <2> QED
    BY <2>1, <2>2 DEF Effective
<1>2. CASE AddConfigmap(Creator)
  <2>1. seen[Creator] \in exists /\ data[seen[Creator]][Local] = fetched[Creator]
        /\ config' = config /\ exists' = exists /\ data' = data
    BY <1>2 DEF AddConfigmap, GoTo, cluster, Local
  <2>2. config = seen[Creator]
    BY <2>1 DEF NameInv
  <2> QED
    BY <2>1, <2>2 DEF Effective
<1>3. CASE Create(Creator)
  <2>1. Default \notin exists /\ seen[Creator] = Default
    BY <1>3 DEF Create, GoTo
  <2>2. config' = Default /\ exists' = exists \union {Default}
        /\ data' = [data EXCEPT ![Default] = [Empty EXCEPT ![Local] = fetched[Creator]]]
    BY <1>3, <2>1 DEF Create, NameInv, Local
  <2> QED
    BY <2>2 DEF Effective, Empty
<1>4. CASE Patch(Creator)
  <2>1. seen[Creator] \in exists /\ config' = config /\ exists' = exists
        /\ data' = [data EXCEPT ![seen[Creator]][Local] = fetched[Creator]]
    BY <1>4 DEF Patch, Local
  <2>2. config = seen[Creator]
    BY <2>1 DEF NameInv
  <2> QED
    BY <2>1, <2>2 DEF Effective
<1>5. CASE Link(Creator)
  <2>1. Default \in exists /\ config' = Default /\ exists' = exists /\ data' = data
        /\ data[Default] = [Empty EXCEPT ![Local] = fetched[Creator]]
    BY <1>5 DEF Link, LinkInv, Local
  <2> QED
    BY <2>1 DEF Effective, Empty
<1>6. CASE CheckConfig(Creator) \/ AddConfig(Creator)
  BY <1>6 DEF CheckConfig, AddConfig, GoTo
<1> QED
  BY <1>1, <1>2, <1>3, <1>4, <1>5, <1>6 DEF ToolStep

TrustInv == CallInv /\ NodesInv

LEMMA EffectiveFrame == UNCHANGED cluster => Effective' = Effective
  BY DEF cluster, Effective, Empty

LEMMA NextTrustInv ==
  ToolInv /\ RegistryInv /\ RegistryInv' /\ TrustInv /\ [Next]_vars => TrustInv'
<1> SUFFICES ASSUME ToolInv, RegistryInv, RegistryInv', TrustInv, [Next]_vars PROVE TrustInv'
  OBVIOUS
<1>t. Effective[Local] \in 0 .. MaxCAs /\ authority \in 0 .. MaxCAs /\ authority' \in 0 .. MaxCAs
  BY EffectiveType, CreatorFacts DEF ToolInv, RegistryInv, TypeOK
<1> USE CreatorFacts, ToolAssumption
    DEF RegistryInv, TypeOK, ToolType, TrustInv, CallInv, NodesInv, TrustedNodes, Installed, NoCA,
        nodes, Preparing, Initializing
<1>1. ASSUME UNCHANGED <<at, fetched, cluster, authority, nodes, pc, left>> PROVE TrustInv'
  BY <1>1, EffectiveFrame
<1>2. CASE BecomeAvailable \/ CollectDatabase \/ Vanish \/ EditPull \/ UNCHANGED vars
  BY <1>1, <1>2 DEF BecomeAvailable, CollectDatabase, Vanish, EditPull, vars, registryVars,
                    objects, process, toolVars
<1>3. ASSUME at[Creator] = "idle",
             UNCHANGED <<at, fetched, cluster, authority, nodes>>, pc' \notin {"install", "add"},
             pc' \in Preparing => left' = members \/ (pc \in Preparing /\ left' = left)
      PROVE  TrustInv'
  BY <1>3, EffectiveFrame
<1>4. CASE StartCreate \/ StartDelete \/ ApplyNamespace \/ WaitRegistry \/ CheckToken
  BY <1>3, <1>4 DEF StartCreate, StartDelete, ApplyNamespace, WaitRegistry, CheckToken, Go,
                    objects, toolVars
<1>5. CASE InitializeUser \/ CreateOrganization \/ CreateToken \/ ReadPull \/ PatchPull
  BY <1>3, <1>5 DEF InitializeUser, CreateOrganization, CreateToken, ReadPull, PatchPull, Go, End,
                    objects, toolVars
<1>6. CASE DeleteRegistry \/ DeleteNamespace
  BY <1>3, <1>6 DEF DeleteRegistry, DeleteNamespace, Go, End, toolVars
<1>7. CASE ApplyRegistry
  <2>1. /\ at[Creator] = "idle" /\ UNCHANGED <<at, fetched, cluster, members, nodeCA>>
        /\ pc \in Preparing /\ pc' \in {"wait", "idle"} /\ (pc' = "wait" => left' = left)
    BY <1>7 DEF ApplyRegistry, Go, End, toolVars
  <2>2. \A n \in Nodes \ left : missing'[n] = missing[n]
    BY <1>7 DEF ApplyRegistry
  <2>3. CASE authority' = authority + 1
    BY <2>1, <2>2, <2>3, <1>t, EffectiveFrame
  <2>4. CASE UNCHANGED <<authority, missing>>
    BY <2>1, <2>4, <1>t, EffectiveFrame
  <2>5. authority' = authority + 1 \/ UNCHANGED <<authority, missing>>
    BY <1>7 DEF ApplyRegistry
  <2> QED
    BY <2>3, <2>4, <2>5
<1>8. CASE CheckTrust
  BY <1>8, EffectiveFrame DEF CheckTrust, CallIsTrusted, GoTo, registryVars, objects, process
<1>9. CASE AlreadyTrusted \/ Added
  BY <1>9, EffectiveFrame DEF AlreadyTrusted, Added, Leave, GoTo, End, objects
<1>10. CASE NotTrusted
  BY <1>10, EffectiveFrame DEF NotTrusted, Go, objects, toolVars
<1>11. ASSUME NEW n \in left, InstallCA(n) PROVE TrustInv'
  <2>1. /\ left' = left \ {n} /\ pc = "install" /\ pc' = pc
        /\ UNCHANGED <<at, fetched, cluster, authority, members>>
    BY <1>11 DEF InstallCA, objects, toolVars
  <2>2. \A m \in Nodes \ {n} : nodeCA'[m] = nodeCA[m] /\ missing'[m] = missing[m]
    BY <1>11 DEF InstallCA, RunScript
  <2>3. nodeCA'[n] = authority \/ missing'[n] # "none"
    BY <1>11, <2>1 DEF InstallCA, RunScript
  <2> QED
    BY <2>1, <2>2, <2>3, EffectiveFrame
<1>12. CASE AddTrusted
  BY <1>12, EffectiveFrame DEF AddTrusted, CallAddTrusted, GoTo, Go, objects
<1>13. CASE Die
  BY <1>13, EffectiveFrame DEF Die, Leave, GoTo, End, objects, toolVars
<1>14. CASE ToolStep(Creator) /\ UNCHANGED registryVars
  <2>1. /\ UNCHANGED <<authority, nodes, pc, left, fetched>>
        /\ at[Creator] \in Inside /\ fetched[Creator] = authority
    BY <1>14, CreatorCalls DEF registryVars, objects, process, Inside
  <2>2. CallInv'
    <3>1. at'[Creator] \in {"trusted", "added"} => Effective'[Local] = authority
      BY <1>14, <2>1, CreatorDone
    <3>2. /\ pc = "trust" => at'[Creator] \in {"checkConfigmap", "trusted", "untrusted"}
          /\ pc = "add" => at'[Creator] \in {"addConfigmap", "create", "patch", "link", "added",
                                             "refused"}
          /\ pc # "install"
      BY <1>14, <2>1, CreatorCalls DEF Inside
    <3> QED
      BY <2>1, <3>1, <3>2 DEF CallInv
  <2>3. CASE Effective' = Effective
    BY <2>1, <2>2, <2>3
  <2>4. CASE /\ at[Creator] \in {"create", "patch", "link"}
             /\ Effective' = [Effective EXCEPT ![Local] = fetched[Creator]]
    <3>1. pc = "add" /\ \A n \in members : Installed(n)
      BY <2>4
    <3>2. Effective'[Local] = authority
      BY <2>1, <2>4, EffectiveType DEF ToolInv
    <3> QED
      BY <2>1, <2>2, <3>1, <3>2, <1>t
  <2> QED
    BY <1>14, <2>3, <2>4, StepAdds DEF ToolProcess, Local
<1>15. ASSUME NEW p \in Processes \ {Creator}, ToolProcess(p), UNCHANGED registryVars
       PROVE  TrustInv'
  <2>1. /\ UNCHANGED <<authority, nodes, pc, left>> /\ Effective'[Local] = Effective[Local]
        /\ at'[Creator] = at[Creator] /\ fetched'[Creator] = fetched[Creator]
    BY <1>15, OthersFrame, OthersPlace DEF registryVars, objects, process
  <2> QED
    BY <2>1
<1>16. ASSUME NEW n \in Nodes, Join(n) PROVE TrustInv'
  <2>1. /\ members' = members \union {n} /\ missing' = [missing EXCEPT ![n] = "late"]
        /\ UNCHANGED <<at, fetched, cluster, authority, nodeCA, pc, left>>
    BY <1>16 DEF Join, objects, process, toolVars
  <2> QED
    BY <2>1, EffectiveFrame
<1> QED
  BY <1>2, <1>4, <1>5, <1>6, <1>7, <1>8, <1>9, <1>10, <1>11, <1>12, <1>13, <1>14, <1>15, <1>16
  DEF Next, Command

LEMMA TrustInvariant == Spec => [](ToolInv /\ RegistryInv /\ TrustInv)
<1>1. Init => TrustInv
  <2> SUFFICES ASSUME Init PROVE TrustInv
    OBVIOUS
  <2>1. Effective[Local] = NoCA
    BY ToolAssumption, CreatorFacts DEF Init, ToolInit, Effective, Empty
  <2> QED
    BY <2>1, CreatorFacts
    DEF Init, ToolInit, TrustInv, CallInv, NodesInv, TrustedNodes, NoCA, Preparing, Initializing
<1>2. Spec => []ToolInv
  BY RegistryUsesTool, ToolInvariant, PTL
<1> QED
  BY <1>1, <1>2, NextTrustInv, RegistryInvariant, PTL DEF Spec

\* A cluster that trusts the registry has its certificate in every node, for any nodes, but
\* for those whose script failed unnoticed and those that joined.
THEOREM RegistryTrustedNodes == Spec => []TrustedNodes
  BY TrustInvariant, PTL DEF TrustInv, NodesInv

-----------------------------------------------------------------------------
(* What success and refusal mean. *)

CreatedInv == (result = "created" => pc = "idle") /\ CreatedMeansUsable

LEMMA NextCreatedInv ==
  ToolInv /\ RegistryInv /\ TrustInv /\ CreatedInv /\ [Next]_vars => CreatedInv'
<1> SUFFICES ASSUME ToolInv, RegistryInv, TrustInv, CreatedInv, [Next]_vars PROVE CreatedInv'
  OBVIOUS
<1> USE CreatorFacts, ToolAssumption
    DEF RegistryInv, TypeOK, CreatedInv, CreatedMeansUsable, Installed, NoCA, nodes
<1>1. ASSUME result' # "created" PROVE CreatedInv'
  BY <1>1
<1>2. ASSUME result # "created", UNCHANGED result PROVE CreatedInv'
  BY <1>2
<1>3. CASE BecomeAvailable
  BY <1>2, <1>3 DEF BecomeAvailable, process
<1>4. CASE CollectDatabase
  BY <1>2, <1>4 DEF CollectDatabase, process
<1>5. CASE Vanish
  BY <1>2, <1>5 DEF Vanish, process
<1>6. CASE EditPull
  BY <1>6, EffectiveFrame DEF EditPull, process, objects, toolVars
<1>7. CASE StartCreate \/ StartDelete \/ DeleteNamespace \/ Die
  BY <1>1, <1>7 DEF StartCreate, StartDelete, DeleteNamespace, Die, End
<1>8. CASE ApplyNamespace \/ ApplyRegistry \/ WaitRegistry \/ CheckToken \/ DeleteRegistry
  BY <1>1, <1>2, <1>8 DEF ApplyNamespace, ApplyRegistry, WaitRegistry, CheckToken, DeleteRegistry,
                          Go, End
<1>9. CASE InitializeUser \/ CreateOrganization \/ CreateToken \/ ReadPull \/ PatchPull
  BY <1>1, <1>2, <1>9 DEF InitializeUser, CreateOrganization, CreateToken, ReadPull, PatchPull,
                          Go, End
<1>10. CASE CheckTrust \/ NotTrusted \/ AddTrusted \/ \E n \in left : InstallCA(n)
  BY <1>2, <1>10 DEF CheckTrust, NotTrusted, AddTrusted, InstallCA, Go, registryVars, process
<1>11. CASE AlreadyTrusted \/ Added
  <2>1. CASE result' = "created"
    <3>1. /\ pc \in {"trust", "add"} /\ at[Creator] \in {"trusted", "added"} /\ pc' = "idle"
          /\ UNCHANGED <<registry, authority, database, token, pull, nodes, damage, cluster>>
      BY <1>11, <2>1 DEF AlreadyTrusted, Added, Leave, End, objects
    <3>2. Effective[Local] = authority /\ authority # NoCA
      BY <3>1 DEF TrustInv, CallInv, StageInv, Finishing, Trusting
    <3>3. \A n \in members : Installed(n)
      BY <3>2 DEF TrustInv, NodesInv, TrustedNodes
    <3>4. registry = "available" /\ token = "present" /\ "local" \in pull
      BY <3>1 DEF StageInv, Finishing, Trusting
    <3>5. database = "complete" \/ damage = "stale"
      BY <3>4 DEF DatabaseInv
    <3> QED
      BY <3>1, <3>2, <3>3, <3>4, <3>5, EffectiveFrame
  <2> QED
    BY <1>1, <2>1
<1>12. CASE ToolStep(Creator) /\ UNCHANGED registryVars
  <2>1. at[Creator] \in Inside
    BY <1>12, CreatorCalls
  <2> QED
    BY <1>2, <1>12, <2>1 DEF Inside, registryVars, process
<1>13. ASSUME NEW p \in Processes \ {Creator}, ToolProcess(p), UNCHANGED registryVars
       PROVE  CreatedInv'
  BY <1>13, OthersFrame DEF registryVars, objects, process
<1>14. CASE UNCHANGED vars
  BY <1>14, EffectiveFrame DEF vars, registryVars, objects, process, toolVars
<1>15. ASSUME NEW n \in Nodes, Join(n) PROVE CreatedInv'
  <2>1. /\ members' = members \union {n} /\ missing' = [missing EXCEPT ![n] = "late"]
        /\ UNCHANGED <<registry, authority, database, token, pull, nodeCA, pc, result, damage, cluster>>
    BY <1>15 DEF Join, objects, process, toolVars
  <2> QED
    BY <2>1, EffectiveFrame
<1> QED
  BY <1>3, <1>4, <1>5, <1>6, <1>7, <1>8, <1>9, <1>10, <1>11, <1>12, <1>13, <1>14, <1>15
  DEF Next, Command

\* After a creation that succeeds the registry can be used, whatever other processes do,
\* for any nodes, but for the lost database and for the nodes whose script failed unnoticed
\* and those that joined.
THEOREM RegistryCreatedIsUsable == Spec => []CreatedMeansUsable
<1>1. Init => CreatedInv
  BY DEF Init, CreatedInv, CreatedMeansUsable
<1> QED
  BY <1>1, NextCreatedInv, TrustInvariant, PTL DEF Spec, CreatedInv

\* A creation is refused only for the reasons that are named, for any processes.
THEOREM RegistryRefusals == Spec => RefusedOnlyIf
<1>1. ASSUME ToolInv, OrphanOnlyIfTorn, RegistryInv, [Next]_vars, result' = "refused", pc # "idle"
      PROVE  \/ namespace = "terminating"
             \/ damage = "half"
             \/ /\ at[Creator] = "refused"
                /\ (torn \/ config = Default
                      \/ \E p \in Processes \ {Creator} : at[p] = "link")
  <2> USE <1>1 DEF RegistryInv, TypeOK
  <2>1. CASE result' = result
    BY <2>1 DEF StageInv
  <2>2. CASE ApplyRegistry
    BY <2>2, <2>1 DEF ApplyRegistry, Go, End
  <2>3. CASE InitializeUser
    BY <2>3 DEF InitializeUser, Go, End, StageInv, Initializing, DatabaseInv
  <2>4. CASE Added
    <3>1. at[Creator] = "refused"
      BY <2>4 DEF Added, End
    <3>2. Default \in exists
      BY <3>1, CreatorFacts DEF ToolInv, PlanInv
    <3> QED
      BY <3>1, <3>2 DEF OrphanOnlyIfTorn
  <2>5. CASE \/ BecomeAvailable \/ CollectDatabase \/ Vanish \/ EditPull
             \/ UNCHANGED vars \/ \E n \in Nodes : Join(n)
    BY <2>1, <2>5 DEF BecomeAvailable, CollectDatabase, Vanish, EditPull, Join, vars, registryVars, process
  <2>6. CASE StartCreate \/ StartDelete \/ DeleteRegistry \/ DeleteNamespace \/ Die
    BY <2>1, <2>6 DEF StartCreate, StartDelete, DeleteRegistry, DeleteNamespace, Die, Go, End
  <2>7. CASE ApplyNamespace \/ WaitRegistry \/ CheckToken \/ CreateOrganization \/ CreateToken
    BY <2>1, <2>7 DEF ApplyNamespace, WaitRegistry, CheckToken, CreateOrganization, CreateToken, Go
  <2>8. CASE ReadPull \/ PatchPull \/ NotTrusted \/ AddTrusted \/ \E n \in left : InstallCA(n)
    BY <2>1, <2>8 DEF ReadPull, PatchPull, NotTrusted, AddTrusted, InstallCA, Go
  <2>9. CASE AlreadyTrusted
    BY <2>1, <2>9 DEF AlreadyTrusted, End
  <2>10. CASE UNCHANGED registryVars
    BY <2>1, <2>10 DEF registryVars, process
  <2> HIDE DEF RegistryInv, TypeOK
  <2> QED
    BY <2>2, <2>3, <2>4, <2>5, <2>6, <2>7, <2>8, <2>9, <2>10 DEF Next, Command, CheckTrust
<1>2. ToolInv /\ OrphanOnlyIfTorn /\ RegistryInv /\ [Next]_vars =>
        [result' = "refused" /\ pc # "idle" =>
           \/ namespace = "terminating"
           \/ damage = "half"
           \/ /\ at[Creator] = "refused"
              /\ (torn \/ config = Default
                    \/ \E p \in Processes \ {Creator} : at[p] = "link")]_vars
  BY <1>1
<1>3. Spec => []OrphanOnlyIfTorn
  BY RegistryUsesTool, ToolLeavesNoOrphan, PTL
<1> QED
  BY <1>2, <1>3, TrustInvariant, PTL DEF Spec, RefusedOnlyIf

-----------------------------------------------------------------------------
(* What the end of the commands rests on, besides fairness. *)

\* The most steps that the creation has before it inside of the tool.
ToolStepsLeft ==
  CASE at[Creator] = "idle" -> 11
    [] at[Creator] = "checkConfig" -> 10
    [] at[Creator] = "checkConfigmap" -> 9
    [] at[Creator] \in {"trusted", "untrusted"} -> 8
    [] at[Creator] = "addConfig" -> 7
    [] at[Creator] = "addConfigmap" -> 6
    [] at[Creator] \in {"create", "patch"} -> 5
    [] at[Creator] = "link" -> 4
    [] OTHER -> 3

\* The most steps that a command has before it, those of the loop over the nodes apart.
StepsLeft ==
  CASE pc = "namespace" -> 21
    [] pc = "registry" -> 20
    [] pc = "wait" -> 19
    [] pc = "token" -> 18
    [] pc = "user" -> 17
    [] pc = "organization" -> 16
    [] pc = "secret" -> 15
    [] pc = "pull" -> 14
    [] pc = "patch" -> 13
    [] pc = "trust" -> ToolStepsLeft + 1
    [] pc \in {"install", "add"} -> ToolStepsLeft
    [] pc = "deleteRegistry" -> 2
    [] pc = "deleteNamespace" -> 1
    [] OTHER -> 0

Advances ==
  pc # "idle" =>
    \/ UNCHANGED <<pc, left, seenPull, result, at[Creator]>>
    \/ StepsLeft' < StepsLeft
    \/ StepsLeft' = StepsLeft /\ left' \subseteq left /\ left' # left

\* A command that isn't over waits only for a registry that exists to be available, and for
\* the namespace that it created and somebody deleted; otherwise a step of it can be taken.
CanGoOn ==
  \/ pc \in {"namespace", "token", "pull", "patch", "deleteRegistry", "deleteNamespace"}
         \union Initializing
  \/ pc = "registry" /\ namespace # "absent"
  \/ pc = "wait" /\ registry = "available"
  \/ pc = "trust" /\ at[Creator] \in {"idle", "checkConfig", "checkConfigmap", "trusted", "untrusted"}
  \/ pc = "install" /\ (left # {} \/ at[Creator] = "untrusted")
  \/ pc = "add" /\ at[Creator] \in {"addConfig", "addConfigmap", "create", "patch", "link",
                                  "added", "refused"}

WaitsFor ==
  pc # "idle" =>
    \/ CanGoOn
    \/ pc = "registry" /\ namespace = "absent"
    \/ pc = "wait" /\ registry = "present"

\* Each request of the tool is nearer to its answer.
LEMMA ToolAdvances ==
  ASSUME ToolInv, ToolStep(Creator), pc \in {"trust", "add"}, UNCHANGED registryVars
  PROVE  StepsLeft' < StepsLeft
<1>1. pc' = pc
  BY DEF registryVars, process
<1>2. at' = [at EXCEPT ![Creator] = at'[Creator]]
  BY CreatorFacts
  DEF ToolInv, ToolType, ToolStep, CheckConfig, CheckConfigmap, AddConfig, AddConfigmap, Create,
      Patch, Link, GoTo
<1>3. \/ at[Creator] = "checkConfig" /\ at'[Creator] \in {"untrusted", "checkConfigmap"}
      \/ at[Creator] = "checkConfigmap" /\ at'[Creator] \in {"trusted", "untrusted"}
      \/ at[Creator] = "addConfig" /\ at'[Creator] \in {"create", "addConfigmap"}
      \/ at[Creator] = "addConfigmap" /\ at'[Creator] \in {"create", "added", "patch"}
      \/ at[Creator] = "create" /\ at'[Creator] \in {"refused", "added", "link"}
      \/ at[Creator] \in {"patch", "link"} /\ at'[Creator] = "added"
  BY CreatorFacts
  DEF ToolInv, ToolType, ToolStep, CheckConfig, CheckConfigmap, AddConfig, AddConfigmap, Create,
      Patch, Link, GoTo
<1>4. ToolStepsLeft' < ToolStepsLeft /\ ToolStepsLeft \in Nat /\ ToolStepsLeft' \in Nat
  BY <1>3 DEF ToolStepsLeft
<1> QED
  BY <1>1, <1>4 DEF StepsLeft

LEMMA NextAdvances ==
  ToolInv /\ RegistryInv /\ TrustInv /\ [Next]_vars => Advances
<1> SUFFICES ASSUME ToolInv, RegistryInv, TrustInv, [Next]_vars, pc # "idle"
             PROVE  \/ UNCHANGED <<pc, left, seenPull, result, at[Creator]>>
                    \/ StepsLeft' < StepsLeft
                    \/ StepsLeft' = StepsLeft /\ left' \subseteq left /\ left' # left
  BY DEF Advances
<1>t. TypeOK /\ StageInv /\ CallInv
  BY DEF RegistryInv, TrustInv
<1>p. StepsLeft \in Nat \ {0}
  BY <1>t DEF TypeOK, StepsLeft, ToolStepsLeft
<1>i. ASSUME pc' = "idle" PROVE StepsLeft' < StepsLeft
  BY <1>i, <1>p DEF StepsLeft
<1>1. CASE UNCHANGED vars
  BY <1>1 DEF vars, toolVars, registryVars, process
<1>2. CASE BecomeAvailable \/ CollectDatabase \/ Vanish \/ EditPull \/ \E n \in Nodes : Join(n)
  BY <1>2 DEF BecomeAvailable, CollectDatabase, Vanish, EditPull, Join, toolVars, process
<1>3. CASE StartCreate \/ StartDelete
  BY <1>3 DEF StartCreate, StartDelete
<1>4. CASE Die \/ AlreadyTrusted \/ Added \/ DeleteNamespace
  BY <1>4, <1>i DEF Die, AlreadyTrusted, Added, DeleteNamespace, End
<1>5. CASE ApplyRegistry \/ InitializeUser
  BY <1>5, <1>i DEF ApplyRegistry, InitializeUser, Go, End, StepsLeft
<1>6. CASE ApplyNamespace \/ WaitRegistry \/ CheckToken \/ DeleteRegistry
  BY <1>6 DEF ApplyNamespace, WaitRegistry, CheckToken, DeleteRegistry, Go, StepsLeft
<1>7. CASE CreateOrganization \/ CreateToken
  BY <1>7 DEF CreateOrganization, CreateToken, Go, StepsLeft
<1>8. CASE ReadPull \/ PatchPull
  <2>1. at[Creator] = "idle" /\ at'[Creator] = "idle"
    BY <1>8, <1>t DEF ReadPull, PatchPull, toolVars, TypeOK
  <2>2. ToolStepsLeft = 11 /\ ToolStepsLeft' = 11
    BY <2>1 DEF ToolStepsLeft
  <2> QED
    BY <1>8, <2>2 DEF ReadPull, PatchPull, Go, StepsLeft
<1>9. CASE CheckTrust
  <2>1. pc = "trust" /\ pc' = "trust" /\ at[Creator] = "idle" /\ at'[Creator] = "checkConfig"
    BY <1>9, CreatorFacts DEF CheckTrust, CallIsTrusted, GoTo, registryVars, process, ToolInv, ToolType
  <2> QED
    BY <2>1 DEF StepsLeft, ToolStepsLeft
<1>10. CASE NotTrusted
  <2>1. pc = "trust" /\ pc' = "install" /\ at[Creator] = "untrusted" /\ at'[Creator] = "untrusted"
    BY <1>10 DEF NotTrusted, Go, toolVars
  <2> QED
    BY <2>1 DEF StepsLeft, ToolStepsLeft
<1>11. ASSUME NEW n \in left, InstallCA(n) PROVE StepsLeft' = StepsLeft /\ left' \subseteq left /\ left' # left
  BY <1>11 DEF InstallCA, StepsLeft, ToolStepsLeft, toolVars
<1>12. CASE AddTrusted
  <2>1. pc = "install" /\ pc' = "add" /\ at[Creator] = "untrusted" /\ at'[Creator] = "addConfig"
    BY <1>12, CreatorFacts DEF AddTrusted, CallAddTrusted, GoTo, Go, ToolInv, ToolType
  <2> QED
    BY <2>1 DEF StepsLeft, ToolStepsLeft
<1>13. CASE ToolStep(Creator) /\ UNCHANGED registryVars
  <2>1. pc \in Trusting /\ at[Creator] \in Inside
    BY <1>13, <1>t, CreatorCalls DEF TypeOK, Trusting, Inside
  <2>2. pc # "install"
    BY <2>1, <1>t DEF CallInv, Inside
  <2> QED
    BY <1>13, <2>1, <2>2, ToolAdvances DEF Trusting
<1>14. ASSUME NEW p \in Processes \ {Creator}, ToolProcess(p), UNCHANGED registryVars
       PROVE  UNCHANGED <<pc, left, seenPull, result, at[Creator]>>
  BY <1>14, OthersPlace DEF registryVars, process, ToolInv
<1> QED
  BY <1>1, <1>2, <1>3, <1>4, <1>5, <1>6, <1>7, <1>8, <1>9, <1>10, <1>11, <1>12, <1>13, <1>14
  DEF Next, Command

\* A command takes a bounded number of steps, apart from the loop over the nodes, in which
\* each step leaves fewer nodes; and what it may have to wait for is named.  Whether what it
\* waits for comes is CommandEnds, that TLC checks.
THEOREM RegistryCommandsAdvance == Spec => []WaitsFor /\ [][Advances]_vars
<1>1. RegistryInv /\ TrustInv => WaitsFor
  BY DEF RegistryInv, TrustInv, TypeOK, StageInv, CallInv, WaitsFor, CanGoOn, Initializing, Finishing,
         Trusting
<1>2. ToolInv /\ RegistryInv /\ TrustInv /\ [Next]_vars => [Advances]_vars
  BY NextAdvances
<1> QED
  BY <1>1, <1>2, TrustInvariant, PTL DEF Spec
=============================================================================
