----------------------------- MODULE PersistProofs -----------------------------
(***************************************************************************)
(* The proofs of the safety properties of Persist, for any domains,        *)
(* services, addresses and forms, and any number of attempts and requests. *)
(***************************************************************************)
EXTENDS Persist, TLAPS

LEMMA PersistNumbers ==
  /\ MaxAttempts \in Nat /\ Requests = 1 .. MaxAttempts
  /\ Requests \subseteq Nat /\ \A r \in Requests : r > 0
BY PersistAssumption

LEMMA DomainNames == First \in Domains /\ None \notin Domains
BY DomainAssumption, NoneAssumption

LEMMA ServiceNames ==
  /\ Services \subseteq {"ingress", "api"} /\ "ingress" \in Services
  /\ "absent" \notin Addresses /\ "unset" \notin Addresses
  /\ "foreign" \notin Addresses /\ None \notin Addresses /\ None # "foreign"
BY PersistAssumption DEF None

LEMMA FormType ==
  ASSUME NEW f \in Forms
  PROVE  f.domain \in Domains /\ f.ip \in [Services -> Addresses] /\ f.user \in BOOLEAN
BY PersistAssumption

-----------------------------------------------------------------------------
(* The requests. *)

RequestType ==
  /\ rpc \in [Requests -> Places \union {"idle", "done", "killed"}]
  /\ answer \in [Requests -> {"none", "ok", "error"}]

LEMMA PlaceNames ==
  /\ Places = {"read", "secrets", "ingress", "apiserver", "route", "backup", "copy", "host",
               "oauth", "deployment", "answer"}
  /\ "idle" \notin Places /\ "done" \notin Places /\ "killed" \notin Places
BY DEF Places, Interface

LEMMA KilledType ==
  ASSUME RequestType
  PROVE  /\ Killed \in [Requests -> {"idle", "done", "killed"}]
         /\ \A q \in Requests : IF Running(q) THEN Killed[q] = "killed" ELSE Killed[q] = rpc[q]
BY PlaceNames DEF RequestType, Killed, Running

\* What a step of a request does to its place and its answer, and to those of the others.
Moved(r, to) ==
  /\ rpc'[r] = to
  /\ \A q \in Requests : q # r => rpc'[q] = rpc[q] /\ answer'[q] = answer[q]

LEMMA GoMoves ==
  ASSUME RequestType, NEW r \in Requests, NEW place \in Places, Go(r, place)
  PROVE  RequestType' /\ Moved(r, place) /\ answer' = answer
BY DEF RequestType, Moved, Go

LEMMA ReplyMoves ==
  ASSUME RequestType, NEW r \in Requests, NEW what \in {"ok", "error"},
         NEW place \in Places \union {"done"}, Reply(r, what, place)
  PROVE  /\ RequestType'
         /\ \/ answer[r] = "none" /\ answer'[r] = what /\ Moved(r, place)
            \/ answer[r] # "none" /\ answer' = answer /\ rpc' = Killed
<1>1. CASE answer[r] = "none"
  BY <1>1 DEF RequestType, Moved, Reply
<1>2. CASE answer[r] # "none"
  <2>1. answer' = answer /\ rpc' = Killed
    BY <1>2 DEF Reply, Throw
  <2> QED
    BY <1>2, <2>1, KilledType DEF RequestType
<1> QED
  BY <1>1, <1>2

\* The places that a step of a request may come to, if it isn't killed.
After(from) ==
  CASE from = "read" -> {"secrets", "done"}
    [] from = "secrets" -> {"ingress", "done"}
    [] from = "ingress" -> {"apiserver", "done"}
    [] from = "apiserver" -> {"route", "done"}
    [] from = "route" -> {"backup", "oauth"}
    [] from = "backup" -> {"copy"}
    [] from = "copy" -> {"host"}
    [] from = "host" -> {"oauth"}
    [] from = "oauth" -> {"deployment"}
    [] from = "deployment" -> {"answer"}
    [] from = "answer" -> {"done"}

\* A step of a request: it goes on, it answers, or it ends the process.
Goes(r) ==
  /\ Running(r) /\ want' = want /\ RequestType'
  /\ \A q \in Requests \ {r} :
       /\ answer'[q] = answer[q]
       /\ rpc'[q] = rpc[q] \/ (Running(q) /\ rpc'[q] = "killed")
  /\ rpc'[r] \in {"killed"} \union After(rpc[r])
  /\ answer'[r] # answer[r] =>
       /\ answer[r] = "none" \/ rpc'[r] = "killed"
       /\ rpc'[r] \notin {"secrets", "ingress"}
       /\ answer'[r] = "ok" => rpc'[r] = "done"
  /\ rpc'[r] = "killed" => answer[r] # "none" \/ rpc[r] = "secrets"

LEMMA Going ==
  ASSUME RequestType, NEW r \in Requests, ChangeDomainImpl(r)
  PROVE  Goes(r)
<1> USE PlaceNames
<1>k. ASSUME rpc' = Killed, Running(r)
      PROVE  /\ rpc'[r] = "killed"
             /\ \A q \in Requests \ {r} :
                  rpc'[q] = rpc[q] \/ (Running(q) /\ rpc'[q] = "killed")
  BY <1>k, KilledType
<1>g. ASSUME NEW place \in Places, Go(r, place), place \in After(rpc[r]), Running(r), want' = want
      PROVE  Goes(r)
  BY <1>g, GoMoves DEF Goes, Moved
<1>r. ASSUME NEW what \in {"ok", "error"}, NEW place \in Places \union {"done"},
             Reply(r, what, place), place \in After(rpc[r]), Running(r), want' = want,
             what = "ok" => place = "done", place \notin {"secrets", "ingress"}
      PROVE  Goes(r)
  <2>1. RequestType'
    BY <1>r, ReplyMoves
  <2>2. CASE answer[r] = "none" /\ answer'[r] = what /\ Moved(r, place)
    BY <1>r, <2>1, <2>2 DEF Goes, Moved
  <2>3. CASE answer[r] # "none" /\ answer' = answer /\ rpc' = Killed
    BY <1>r, <1>k, <2>1, <2>3 DEF Goes
  <2> QED
    BY <1>r, <2>2, <2>3, ReplyMoves
<1>1. CASE ReadIngress(r)
  <2>1. \/ Reply(r, "ok", "done") \/ Reply(r, "error", "done") \/ Go(r, "secrets")
    BY <1>1 DEF ReadIngress
  <2> QED
    BY <1>1, <1>g, <1>r, <2>1 DEF ReadIngress, After, Running
<1>2. CASE CreateSecrets(r)
  <2>1. rpc[r] = "secrets" /\ want' = want /\ Running(r)
    BY <1>2 DEF CreateSecrets, Running
  <2>2. CASE answer' = [answer EXCEPT ![r] = "error"] /\ rpc' = Killed
    <3>1. RequestType'
      BY <2>2, KilledType DEF RequestType
    <3>2. answer'[r] = "error" /\ \A q \in Requests \ {r} : answer'[q] = answer[q]
      BY <2>2 DEF RequestType
    <3> QED
      BY <1>k, <2>1, <2>2, <3>1, <3>2 DEF Goes
  <2> QED
    BY <1>2, <1>g, <1>r, <2>1, <2>2 DEF CreateSecrets, After
<1>3. CASE PatchIngress(r)
  BY <1>3, <1>g, <1>r DEF PatchIngress, After, Running
<1>4. CASE PatchApiServer(r)
  BY <1>4, <1>g, <1>r DEF PatchApiServer, After, Running
<1>5. CASE GetRoute(r)
  BY <1>5, <1>g DEF GetRoute, After, Running
<1>6. CASE DeleteBackup(r) \/ CreateBackup(r) \/ UpdateRoute(r) \/ UpdateOAuth(r)
  BY <1>6, <1>g DEF DeleteBackup, CreateBackup, UpdateRoute, UpdateOAuth, After, Running
<1>7. CASE UpdateDeployment(r)
  BY <1>7, <1>g DEF UpdateDeployment, After, Running
<1>8. CASE Answer(r)
  BY <1>8, <1>r DEF Answer, After, Running
<1> QED
  BY <1>1, <1>2, <1>3, <1>4, <1>5, <1>6, <1>7, <1>8 DEF ChangeDomainImpl


-----------------------------------------------------------------------------
(* The type invariant: what the cluster and the requests have, and what the *)
(* page has.                                                                 *)

ClusterType ==
  /\ routes \in Domains /\ current \in Domains /\ certificate \in Domains
  /\ route \in Domains /\ deployment \in Domains /\ pod \in Domains
  /\ backup \in Domains \union {None}
  /\ redirects \subseteq Domains
  /\ want \in [Requests -> Domains]
  /\ seen \in [Requests -> Domains]
  /\ ignored \in BOOLEAN /\ cut \in BOOLEAN
  /\ half \in BOOLEAN /\ stale \in BOOLEAN

LEMMA DomainParts == DomainType <=> RequestType /\ ClusterType
BY DEF DomainType, RequestType, ClusterType

LEMMA DomainPartsNext == DomainType' <=> RequestType' /\ ClusterType'
BY DEF DomainType, RequestType, ClusterType

Pages == {"form", "failed", "stuck", "done", "idp", "secret", "provider", "bind",
          "authentication", "get", "pool", "service", "operators", "post", "answer", "pod",
          "cleanup"}

SavedType ==
  /\ saving \in Services /\ creating \in BOOLEAN
  /\ idp \in {"absent", "present"} /\ admin \in BOOLEAN
  /\ service \in [Services -> Addresses \union {"absent", "unset"}]
  /\ pool \in [Services -> Addresses \union {"foreign", None}]
  /\ unbound \in BOOLEAN /\ mixed \subseteq Services
  /\ early \in BOOLEAN

PageType ==
  /\ page \in Pages
  /\ origin \in Domains /\ form \in Forms /\ error \in BOOLEAN
  /\ attempts \in 0 .. MaxAttempts
  /\ late \in BOOLEAN /\ overlapped \in BOOLEAN
  /\ SavedType

ShownOK == (error <=> page = "failed") /\ (Saving => attempts > 0)

LEMMA TypeParts == TypeOK <=> DomainType /\ PageType /\ ShownOK
BY DEF TypeOK, PageType, SavedType, Pages, ShownOK

LEMMA TypePartsNext == TypeOK' <=> DomainType' /\ PageType' /\ ShownOK'
BY DEF TypeOK, PageType, SavedType, Pages, ShownOK

LEMMA TypeInit == Init => TypeOK
<1> SUFFICES ASSUME Init PROVE TypeOK
  OBVIOUS
<1>1. RequestType
  BY DEF Init, DomainInit, RequestType
<1>2. ClusterType
  BY DomainNames DEF Init, DomainInit, ClusterType
<1>3. PageType
  <2>1. form \in Forms /\ form.ip \in [Services -> Addresses]
    BY FormType DEF Init
  <2>2. /\ service \in [Services -> Addresses \union {"absent", "unset"}]
        /\ pool \in [Services -> Addresses \union {"foreign", None}]
    BY <2>1 DEF Init
  <2>3. SavedType
    BY <2>2, ServiceNames DEF Init, SavedType
  <2>4. 0 \in 0 .. MaxAttempts
    BY PersistNumbers
  <2> QED
    BY <2>1, <2>3, <2>4, DomainNames DEF Init, DomainInit, PageType, Pages
<1> QED
  BY <1>1, <1>2, <1>3, DomainParts, TypeParts DEF Init, ShownOK, Saving

LEMMA BackendType ==
  ASSUME DomainType, NEW r \in Requests, ChangeDomainImpl(r)
  PROVE  DomainType'
<1> RequestType /\ ClusterType
  BY DomainParts
<1>1. RequestType'
  BY Going DEF Goes
<1> SUFFICES ClusterType'
  BY <1>1, DomainPartsNext
<1>2. want[r] \in Domains /\ seen[r] \in Domains
  BY DEF ClusterType
<1>3. CASE ReadIngress(r)
  BY <1>3 DEF ReadIngress, ClusterType, cluster
<1>4. CASE CreateSecrets(r)
  BY <1>4 DEF CreateSecrets, ClusterType, cluster, causes
<1>5. CASE PatchIngress(r)
  BY <1>2, <1>5 DEF PatchIngress, ClusterType
<1>6. CASE PatchApiServer(r)
  BY <1>2, <1>6 DEF PatchApiServer, ClusterType
<1>7. CASE GetRoute(r)
  BY <1>7 DEF GetRoute, ClusterType, cluster
<1>8. CASE DeleteBackup(r)
  BY <1>8 DEF DeleteBackup, ClusterType, causes
<1>9. CASE CreateBackup(r)
  BY <1>2, <1>9 DEF CreateBackup, ClusterType
<1>10. CASE UpdateRoute(r)
  BY <1>2, <1>10 DEF UpdateRoute, ClusterType
<1>11. CASE UpdateOAuth(r)
  BY <1>2, <1>11 DEF UpdateOAuth, ClusterType
<1>12. CASE UpdateDeployment(r)
  BY <1>2, <1>12 DEF UpdateDeployment, ClusterType
<1>13. CASE Answer(r)
  BY <1>13 DEF Answer, ClusterType, cluster, causes
<1> QED
  BY <1>3, <1>4, <1>5, <1>6, <1>7, <1>8, <1>9, <1>10, <1>11, <1>12, <1>13 DEF ChangeDomainImpl

LEMMA ReconcileType ==
  ASSUME DomainType, Reconcile \/ Restart
  PROVE  DomainType'
<1> RequestType /\ ClusterType
  BY DomainParts
<1>1. CASE Reconcile
  BY <1>1, DomainPartsNext DEF Reconcile, RequestType, ClusterType, requests, causes
<1>2. CASE Restart
  <2>1. RequestType'
    BY <1>2, KilledType DEF Restart, RequestType
  <2>2. ClusterType'
    BY <1>2 DEF Restart, ClusterType
  <2> QED
    BY <2>1, <2>2, DomainPartsNext
<1> QED
  BY <1>1, <1>2

\* The steps of the page that change nothing of the domain.
Local ==
  \/ Submit \/ Open \/ LoseAnswer \/ GetOAuth \/ CreateSecret \/ PatchIDP \/ BindClusterAdminRole
  \/ WaitAuthentication \/ GetService \/ SavePool \/ SaveService \/ WaitOperators
  \/ ReadAnswer \/ WaitPod

LEMMA NextSteps ==
  ASSUME Next
  PROVE  \/ Local \/ Post \/ DeleteRoute
         \/ (Reconcile \/ Restart) /\ UNCHANGED pageVars
         \/ \E r \in Requests : ChangeDomainImpl(r) /\ UNCHANGED pageVars
BY DEF Next, PersistStep, Local, Backend

LEMMA LocalKeeps == Local => UNCHANGED domainVars
BY DEF Local, Submit, Open, LoseAnswer, GetOAuth, CreateSecret, PatchIDP, BindClusterAdminRole,
       WaitAuthentication, GetService, SavePool, SaveService, WaitOperators, ReadAnswer, WaitPod,
       Aside

LEMMA DomainKept ==
  ASSUME DomainType, UNCHANGED domainVars
  PROVE  DomainType'
BY DEF DomainType, domainVars, cluster, requests, causes

LEMMA PostType ==
  ASSUME TypeOK, Post
  PROVE  TypeOK'
<1> DomainType /\ RequestType /\ ClusterType /\ PageType /\ ShownOK
  BY TypeParts, DomainParts
<1>1. form.domain \in Domains
  BY FormType DEF PageType
<1>2. RequestType'
  BY PlaceNames DEF Post, Call, RequestType
<1>3. ClusterType'
  BY <1>1 DEF Post, Call, ClusterType, cluster, causes
<1>4. PageType'
  BY DEF Post, PageType, SavedType, Pages, identity, services
<1>5. ShownOK'
  BY DEF Post, ShownOK, Saving
<1> QED
  BY <1>2, <1>3, <1>4, <1>5, TypePartsNext, DomainPartsNext

LEMMA DeleteRouteType ==
  ASSUME TypeOK, DeleteRoute
  PROVE  TypeOK'
<1> DomainType /\ RequestType /\ ClusterType /\ PageType /\ ShownOK
  BY TypeParts, DomainParts
<1>1. RequestType'
  BY DEF DeleteRoute, RequestType, requests
<1>2. ClusterType'
  BY DEF DeleteRoute, ClusterType, causes, requests
<1>3. PageType' /\ ShownOK'
  BY DEF DeleteRoute, Step, PageType, SavedType, Pages, ShownOK, Saving, identity, services
<1> QED
  BY <1>1, <1>2, <1>3, TypePartsNext, DomainPartsNext

\* A step of the page goes on, or escapes, without an error, or fails and shows one.
SavingPages == Pages \ {"form", "failed", "stuck", "done"}

LEMMA StepShown ==
  ASSUME ShownOK, NEW from \in SavingPages, NEW to \in Pages \ {"failed"},
         Step(from, to), UNCHANGED error
  PROVE  ShownOK' /\ page' \in Pages /\ error' = FALSE
<1>1. page = from /\ page' = to /\ attempts' = attempts /\ error' = error
  BY DEF Step
<1>2. page # "failed" /\ page' # "failed" /\ attempts > 0
  BY <1>1 DEF SavingPages, ShownOK, Saving
<1>3. ~ error
  BY <1>2 DEF ShownOK
<1> QED
  BY <1>1, <1>2, <1>3 DEF ShownOK, Saving

LEMMA FailedShown ==
  ASSUME ShownOK, NEW from, Failed(from)
  PROVE  ShownOK' /\ page' \in Pages /\ error' = TRUE
BY DEF ShownOK, Failed, Step, Pages, Saving

LEMMA StepType ==
  ASSUME PageType, ShownOK, SavedType', NEW from \in SavingPages,
         NEW to \in Pages \ {"failed"},
         (Step(from, to) /\ UNCHANGED error) \/ Failed(from)
  PROVE  PageType' /\ ShownOK'
<1>1. CASE Step(from, to) /\ UNCHANGED error
  BY <1>1, StepShown DEF PageType, Step
<1>2. CASE Failed(from)
  BY <1>2, FailedShown DEF PageType, Failed, Step
<1> QED
  BY <1>1, <1>2

LEMMA LocalType ==
  ASSUME TypeOK, Local
  PROVE  TypeOK'
<1> DomainType /\ PageType /\ ShownOK /\ SavedType
  BY TypeParts DEF PageType
<1> DomainType'
  BY LocalKeeps, DomainKept
<1> SUFFICES PageType' /\ ShownOK'
  BY TypePartsNext
<1>p. /\ {"idp", "secret", "provider", "bind", "authentication", "get", "pool", "service",
          "operators", "post", "answer", "pod", "cleanup"} \subseteq SavingPages
      /\ SavingPages \subseteq Pages \ {"failed"} /\ "stuck" \in Pages \ {"failed"}
  BY DEF SavingPages, Pages
<1>a. Aside => SavedType'
  BY DEF Aside, identity, services, SavedType
<1>1. CASE Submit
  <2>1. SavedType'
    BY <1>1, ServiceNames DEF Submit, SavedType, identity
  <2>2. attempts' \in 0 .. MaxAttempts /\ attempts' > 0
    BY <1>1, PersistNumbers DEF Submit, PageType
  <2> QED
    BY <1>1, <2>1, <2>2 DEF Submit, PageType, Pages, ShownOK
<1>2. CASE Open
  <2>1. /\ page' = "form" /\ error' = FALSE /\ origin' \in Domains /\ late' \in BOOLEAN
        /\ early' = FALSE /\ saving' = "ingress" /\ creating' = FALSE
        /\ UNCHANGED <<form, attempts, idp, admin, service, pool, overlapped>>
    BY <1>2 DEF Open
  <2>2. unbound' \in BOOLEAN /\ mixed' \subseteq Services
    BY <1>2 DEF Open, SavedType
  <2>3. SavedType'
    BY <2>1, <2>2, ServiceNames DEF SavedType
  <2> QED
    BY <2>1, <2>3 DEF PageType, Pages, ShownOK, Saving
<1>3. CASE LoseAnswer
  BY <1>3, <1>a, <1>p, StepType DEF LoseAnswer
<1>4. CASE GetOAuth
  BY <1>4, <1>a, <1>p, StepType DEF GetOAuth, Ok
<1>5. CASE CreateSecret
  BY <1>5, <1>a, <1>p, StepType DEF CreateSecret, Ok, Escaped
<1>6. CASE PatchIDP
  <2>1. SavedType'
    BY <1>6 DEF PatchIDP, SavedType, services
  <2> QED
    BY <1>6, <1>p, <2>1, StepType DEF PatchIDP, Ok
<1>7. CASE BindClusterAdminRole
  <2>1. admin' \in BOOLEAN /\ unbound' \in BOOLEAN
    BY <1>7 DEF BindClusterAdminRole, SavedType
  <2>2. SavedType'
    BY <1>7, <2>1 DEF BindClusterAdminRole, SavedType, services
  <2> QED
    BY <1>7, <1>p, <2>2, StepType DEF BindClusterAdminRole, Ok, Escaped
<1>8. CASE WaitAuthentication
  BY <1>8, <1>a, <1>p, StepType DEF WaitAuthentication, Ok
<1>9. CASE GetService
  <2>1. saving' \in Services /\ creating' \in BOOLEAN
    BY <1>9, ServiceNames DEF GetService, SaveNext, Saved, SavedType
  <2>2. SavedType'
    BY <1>9, <2>1 DEF GetService, SavedType, identity
  <2>3. Saved \in {"get", "operators"}
    BY DEF Saved
  <2> QED
    BY <1>9, <1>p, <2>2, <2>3, StepType DEF GetService, Ok
<1>10. CASE SavePool
  <2>1. saving \in Services /\ form.ip[saving] \in Addresses
    BY FormType DEF PageType, SavedType
  <2>2. pool' \in [Services -> Addresses \union {"foreign", None}] /\ mixed' \subseteq Services
    BY <1>10, <2>1 DEF SavePool, SavedType
  <2>3. SavedType'
    BY <1>10, <2>2 DEF SavePool, SavedType, identity
  <2> QED
    BY <1>10, <1>p, <2>3, StepType DEF SavePool, Ok
<1>11. CASE SaveService
  <2>1. saving \in Services /\ form.ip[saving] \in Addresses
    BY FormType DEF PageType, SavedType
  <2>2. /\ pool' \in [Services -> Addresses \union {"foreign", None}] /\ mixed' \subseteq Services
        /\ service' \in [Services -> Addresses \union {"absent", "unset"}]
    BY <1>11, <2>1 DEF SaveService, SavedType
  <2>3. saving' \in Services /\ creating' \in BOOLEAN
    BY <1>11, ServiceNames DEF SaveService, SaveNext, Saved, SavedType
  <2>4. SavedType'
    BY <1>11, <2>2, <2>3 DEF SaveService, SavedType, identity
  <2>5. Saved \in {"get", "operators"}
    BY DEF Saved
  <2> QED
    BY <1>11, <1>p, <2>4, <2>5, StepType DEF SaveService, Ok
<1>12. CASE WaitOperators
  BY <1>12, <1>a, <1>p, StepType DEF WaitOperators, Ok
<1>13. CASE ReadAnswer
  BY <1>13, <1>a, <1>p, StepType DEF ReadAnswer
<1>14. CASE WaitPod
  <2>1. early' \in BOOLEAN
    BY <1>14 DEF WaitPod, SavedType
  <2>2. SavedType'
    BY <1>14, <2>1 DEF WaitPod, SavedType, identity, services
  <2> QED
    BY <1>14, <1>p, <2>2, StepType DEF WaitPod, Ok
<1> QED
  BY <1>1, <1>2, <1>3, <1>4, <1>5, <1>6, <1>7, <1>8, <1>9, <1>10, <1>11, <1>12, <1>13, <1>14
     DEF Local

\* The types of the cluster, of the requests and of the page; and an error is shown exactly
\* when an attempt failed.
THEOREM TypeCorrect == Spec => []TypeOK
<1>1. TypeOK /\ [Next]_vars => TypeOK'
  <2> SUFFICES ASSUME TypeOK, [Next]_vars PROVE TypeOK'
    OBVIOUS
  <2> DomainType /\ PageType /\ ShownOK
    BY TypeParts
  <2>1. ASSUME UNCHANGED pageVars PROVE PageType' /\ ShownOK'
    BY <2>1 DEF pageVars, identity, services, PageType, SavedType, ShownOK, Saving
  <2>2. ASSUME NEW r \in Requests, ChangeDomainImpl(r), UNCHANGED pageVars PROVE TypeOK'
    BY <2>1, <2>2, BackendType, TypePartsNext
  <2>3. CASE (Reconcile \/ Restart) /\ UNCHANGED pageVars
    BY <2>1, <2>3, ReconcileType, TypePartsNext
  <2>4. CASE UNCHANGED vars
    <3>1. UNCHANGED domainVars /\ UNCHANGED pageVars
      BY <2>4 DEF vars, pageVars
    <3> QED
      BY <2>1, <3>1, DomainKept, TypePartsNext
  <2> QED
    BY <2>2, <2>3, <2>4, NextSteps, LocalType, PostType, DeleteRouteType
<1> QED
  BY <1>1, TypeInit, PTL DEF Spec

-----------------------------------------------------------------------------
(* How the page moves, and which requests it has made.                       *)

Early == {"idp", "secret", "provider", "bind", "authentication", "get", "pool", "service",
          "operators", "post"}
Waiting == {"pod", "cleanup", "done"}

LEMMA LocalMoves ==
  ASSUME Local
  PROVE  \/ Submit \/ Open
         \/ /\ UNCHANGED <<origin, form, attempts, late, overlapped>>
            /\ page \notin {"form", "failed", "stuck", "done"}
            /\ \/ page' \in {"failed", "stuck"}
               \/ page \in Early /\ page' \in Early
               \/ page = "answer" /\ page' = "pod" /\ answer[attempts] = "ok"
               \/ /\ page = "pod" /\ page' = "cleanup"
                  /\ pod = form.domain /\ early' = (pod # deployment)
<1>1. CASE Submit \/ Open
  BY <1>1
<1>2. CASE LoseAnswer \/ GetOAuth \/ CreateSecret \/ PatchIDP \/ BindClusterAdminRole
  BY <1>2 DEF LoseAnswer, GetOAuth, CreateSecret, PatchIDP, BindClusterAdminRole, Ok, Failed,
              Escaped, Step, Early
<1>3. CASE WaitAuthentication \/ WaitOperators \/ ReadAnswer \/ WaitPod
  BY <1>3 DEF WaitAuthentication, WaitOperators, ReadAnswer, WaitPod, Ok, Failed, Step, Early
<1>4. CASE GetService \/ SavePool \/ SaveService
  BY <1>4 DEF GetService, SavePool, SaveService, Saved, Ok, Failed, Step, Early
<1> QED
  BY <1>1, <1>2, <1>3, <1>4 DEF Local

\* A request that was not made has no answer, and one that succeeded is over.
RequestOK(r) ==
  /\ rpc[r] = "idle" => answer[r] = "none"
  /\ r > attempts => rpc[r] = "idle"
  /\ rpc[r] \in {"read", "secrets", "ingress"} => answer[r] = "none"
  /\ answer[r] = "ok" => rpc[r] \in {"done", "killed"}

\* The last request is that of the attempt.
LastOK ==
  /\ page \in Early => rpc[attempts] = "idle"
  /\ page \in {"answer"} \union Waiting => want[attempts] = form.domain
  /\ page \in Waiting => attempts \in Requests /\ answer[attempts] = "ok"

CallInv == LastOK /\ \A r \in Requests : RequestOK(r)

LEMMA AttemptType ==
  ASSUME TypeOK, Saving
  PROVE  attempts \in Requests
BY PersistNumbers DEF TypeOK

LEMMA CallBackend ==
  ASSUME TypeOK, CallInv, NEW r \in Requests, ChangeDomainImpl(r), UNCHANGED pageVars
  PROVE  CallInv'
<1> RequestType
  BY TypeParts, DomainParts
<1>1. Goes(r)
  BY Going
<1>2. UNCHANGED <<page, attempts, form>>
  BY DEF pageVars
<1>3. rpc[r] \notin {"idle", "done", "killed"} /\ answer[r] # "ok" /\ rpc'[r] # "idle"
  BY <1>1, PlaceNames DEF Goes, Running, After, CallInv, RequestOK
<1>4. ASSUME NEW q \in Requests PROVE RequestOK(q)'
  <2>1. CASE q # r
    <3>1. rpc[q] = "idle" => rpc'[q] = "idle"
      BY <1>1, <2>1, PlaceNames DEF Goes, Running
    <3>2. answer'[q] = answer[q] /\ rpc'[q] \in {rpc[q], "killed"}
      BY <1>1, <2>1 DEF Goes
    <3> QED
      BY <1>2, <3>1, <3>2 DEF CallInv, RequestOK
  <2>2. CASE q = r
    <3>1. ~ (r > attempts)
      BY <1>3 DEF CallInv, RequestOK
    <3>2. rpc'[r] \in {"read", "secrets", "ingress"} => answer'[r] = "none"
      <4>1. rpc'[r] \in {"read", "secrets", "ingress"} => rpc[r] \in {"read", "secrets"}
        BY <1>1, PlaceNames DEF Goes, After, Running
      <4>2. rpc'[r] \in {"secrets", "ingress"} => answer'[r] = answer[r]
        BY <1>1 DEF Goes
      <4>3. rpc'[r] # "read"
        BY <1>1, PlaceNames DEF Goes, After, Running
      <4> QED
        BY <4>1, <4>2, <4>3 DEF CallInv, RequestOK
    <3>3. answer'[r] = "ok" => rpc'[r] \in {"done", "killed"}
      BY <1>1, <1>3 DEF Goes
    <3> QED
      BY <1>2, <1>3, <2>2, <3>1, <3>2, <3>3 DEF RequestOK
  <2> QED
    BY <2>1, <2>2
<1>5. LastOK'
  <2>1. CASE page \in Early
    <3>1. attempts \in Requests
      BY <2>1, AttemptType DEF Early, Saving
    <3>2. rpc[attempts] = "idle"
      BY <2>1 DEF CallInv, LastOK
    <3>3. rpc'[attempts] = "idle"
      BY <1>1, <1>3, <3>1, <3>2, PlaceNames DEF Goes, Running
    <3> QED
      BY <1>2, <2>1, <3>3 DEF LastOK, Early, Waiting
  <2>2. CASE page \in {"answer"} \union Waiting
    <3>1. want'[attempts] = form.domain
      BY <1>1, <2>2 DEF CallInv, LastOK, Goes
    <3>2. page \in Waiting => answer'[attempts] = "ok"
      <4> SUFFICES ASSUME page \in Waiting PROVE answer'[attempts] = "ok"
        OBVIOUS
      <4>1. attempts \in Requests /\ answer[attempts] = "ok"
        BY DEF CallInv, LastOK
      <4> QED
        BY <1>1, <1>3, <4>1 DEF Goes
    <3> QED
      BY <1>2, <2>2, <3>1, <3>2 DEF CallInv, LastOK, Early, Waiting
  <2> QED
    BY <1>2, <2>1, <2>2 DEF LastOK
<1> QED
  BY <1>4, <1>5 DEF CallInv

LEMMA CallLocal ==
  ASSUME TypeOK, CallInv, Local
  PROVE  CallInv'
<1> RequestType
  BY TypeParts, DomainParts
<1>1. UNCHANGED <<rpc, answer, want>>
  BY LocalKeeps DEF domainVars, requests
<1>2. attempts \in Nat /\ Requests \subseteq Nat
  BY PersistNumbers DEF TypeOK
<1>3. CASE Submit
  <2>1. page' = "idp" /\ attempts' = attempts + 1 /\ attempts < MaxAttempts
    BY <1>3 DEF Submit
  <2>2. attempts' \in Requests /\ attempts' > attempts
    BY <1>2, <2>1, PersistNumbers
  <2>3. rpc'[attempts'] = "idle"
    BY <1>1, <2>2 DEF CallInv, RequestOK
  <2>4. \A r \in Requests : r > attempts' => r > attempts
    BY <1>2, <2>1
  <2> QED
    BY <1>1, <2>1, <2>3, <2>4 DEF CallInv, LastOK, RequestOK, Waiting
<1>4. CASE Open
  <2>1. page' = "form" /\ attempts' = attempts
    BY <1>4 DEF Open
  <2> QED
    BY <1>1, <2>1 DEF CallInv, LastOK, RequestOK, Waiting, Early
<1>5. CASE ~ Submit /\ ~ Open
  <2>1. UNCHANGED <<form, attempts>>
    BY <1>5, LocalMoves
  <2>2. \/ page' \in {"failed", "stuck"}
        \/ page \in Early /\ page' \in Early
        \/ page = "answer" /\ page' = "pod" /\ answer[attempts] = "ok"
        \/ page = "pod" /\ page' = "cleanup"
    BY <1>5, LocalMoves
  <2>3. page = "answer" => attempts \in Requests
    BY AttemptType DEF Saving
  <2>4. \A r \in Requests : RequestOK(r)'
    BY <1>1, <2>1 DEF CallInv, RequestOK
  <2>5. LastOK'
    BY <1>1, <2>1, <2>2, <2>3 DEF CallInv, LastOK, Early, Waiting
  <2> QED
    BY <2>4, <2>5 DEF CallInv
<1> QED
  BY <1>3, <1>4, <1>5

LEMMA PostMoves ==
  ASSUME TypeOK, CallInv, Post
  PROVE  /\ attempts \in Requests /\ rpc[attempts] = "idle" /\ answer[attempts] = "none"
         /\ UNCHANGED <<cluster, seen, answer, causes, origin, form, attempts, identity,
                        services, early>>
         /\ page = "post"
         /\ \/ page' = "failed" /\ UNCHANGED <<rpc, want, late, overlapped>>
            \/ /\ page' = "answer" /\ rpc'[attempts] = "read" /\ want'[attempts] = form.domain
               /\ \A q \in Requests \ {attempts} : rpc'[q] = rpc[q] /\ want'[q] = want[q]
               /\ late' = (late \/ route # origin)
               /\ overlapped' = (overlapped \/ \E r \in Requests : Running(r))
<1> RequestType /\ ClusterType
  BY TypeParts, DomainParts
<1>1. attempts \in Requests
  BY AttemptType DEF Post, Saving
<1>2. rpc[attempts] = "idle" /\ answer[attempts] = "none"
  BY <1>1 DEF Post, CallInv, LastOK, Early, RequestOK
<1>3. UNCHANGED <<cluster, seen, answer, causes, origin, form, attempts, identity, services,
                  early>> /\ page = "post"
  BY DEF Post
<1>4. CASE page' = "failed" /\ UNCHANGED <<rpc, want, late, overlapped>>
  BY <1>1, <1>2, <1>3, <1>4
<1>5. CASE /\ page' = "answer" /\ Call(attempts, form.domain)
           /\ late' = (late \/ route # origin)
           /\ overlapped' = (overlapped \/ \E r \in Requests : Running(r))
  <2>1. rpc'[attempts] = "read" /\ want'[attempts] = form.domain
    BY <1>1, <1>5 DEF Call, RequestType, ClusterType
  <2>2. \A q \in Requests \ {attempts} : rpc'[q] = rpc[q] /\ want'[q] = want[q]
    BY <1>1, <1>5 DEF Call, RequestType, ClusterType
  <2> QED
    BY <1>1, <1>2, <1>3, <1>5, <2>1, <2>2
<1> QED
  BY <1>4, <1>5 DEF Post

LEMMA CallPost ==
  ASSUME TypeOK, CallInv, Post
  PROVE  CallInv'
<1>1. /\ attempts \in Requests /\ UNCHANGED <<answer, attempts, form>>
      /\ \/ page' = "failed" /\ UNCHANGED <<rpc, want>>
         \/ /\ page' = "answer" /\ rpc'[attempts] = "read" /\ want'[attempts] = form.domain
            /\ answer[attempts] = "none"
            /\ \A q \in Requests \ {attempts} : rpc'[q] = rpc[q] /\ want'[q] = want[q]
  BY PostMoves
<1>2. attempts \in Nat
  BY PersistNumbers DEF TypeOK
<1>3. ASSUME NEW r \in Requests PROVE RequestOK(r)'
  BY <1>1, <1>2, <1>3 DEF CallInv, RequestOK
<1>4. LastOK'
  BY <1>1 DEF LastOK, Early, Waiting
<1> QED
  BY <1>3, <1>4 DEF CallInv

LEMMA CallCluster ==
  ASSUME TypeOK, CallInv, Reconcile \/ Restart, UNCHANGED pageVars
  PROVE  CallInv'
<1> RequestType
  BY TypeParts, DomainParts
<1>1. UNCHANGED <<page, attempts, form, want, answer>>
  BY DEF pageVars, Reconcile, Restart, requests
<1>2. ASSUME NEW q \in Requests
      PROVE  rpc'[q] = rpc[q] \/ (rpc[q] # "idle" /\ rpc'[q] = "killed")
  BY KilledType, PlaceNames DEF Reconcile, Restart, requests, Running
<1>3. \A r \in Requests : RequestOK(r)'
  BY <1>1, <1>2 DEF CallInv, RequestOK
<1>4. page \in Early => attempts \in Requests
  BY AttemptType DEF Early, Saving
<1>5. LastOK'
  BY <1>1, <1>2, <1>4 DEF CallInv, LastOK
<1> QED
  BY <1>3, <1>5 DEF CallInv

LEMMA CallDeleteRoute ==
  ASSUME TypeOK, CallInv, DeleteRoute
  PROVE  CallInv'
<1>1. UNCHANGED <<attempts, form, rpc, want, answer>> /\ page = "cleanup" /\ page' = "done"
  BY DEF DeleteRoute, Step, requests
<1> QED
  BY <1>1 DEF CallInv, LastOK, RequestOK, Early, Waiting

LEMMA CallInvariant == Spec => []CallInv
<1>1. Init => CallInv
  BY PersistNumbers DEF Init, DomainInit, CallInv, LastOK, RequestOK, Early, Waiting
<1>2. TypeOK /\ CallInv /\ [Next]_vars => CallInv'
  <2> SUFFICES ASSUME TypeOK, CallInv, [Next]_vars PROVE CallInv'
    OBVIOUS
  <2>1. CASE UNCHANGED vars
    BY <2>1 DEF vars, domainVars, requests, CallInv, LastOK, RequestOK
  <2> QED
    BY <2>1, NextSteps, CallLocal, CallPost, CallDeleteRoute, CallCluster, CallBackend
<1> QED
  BY <1>1, <1>2, TypeCorrect, PTL DEF Spec

-----------------------------------------------------------------------------
(* Unless two requests overlapped, at most one is running, that of the page *)
(* if this waits for its answer; and none is when the page has it.           *)

AloneInv ==
  ~ overlapped =>
    /\ \A r, q \in Requests : Running(r) /\ Running(q) => r = q
    /\ page = "answer" => \A r \in Requests : Running(r) => r = attempts
    /\ page \in Waiting => \A r \in Requests : ~ Running(r)

LEMMA AloneKept ==
  ASSUME AloneInv, UNCHANGED <<page, attempts, overlapped>>,
         \A r \in Requests : Running(r)' => Running(r)
  PROVE  AloneInv'
BY DEF AloneInv, Running

\* A step of a request makes no other one run.
LEMMA RunningKept ==
  ASSUME RequestType, NEW r \in Requests, Goes(r)
  PROVE  \A q \in Requests : Running(q)' => Running(q)
BY PlaceNames DEF Goes, Running

LEMMA AloneLocal ==
  ASSUME TypeOK, CallInv, AloneInv, Local
  PROVE  AloneInv'
<1>1. UNCHANGED rpc /\ \A r \in Requests : Running(r)' <=> Running(r)
  BY LocalKeeps DEF domainVars, requests, Running
<1>2. CASE Submit \/ Open
  <2>1. overlapped' = overlapped /\ page' \in {"form", "idp"}
    BY <1>2 DEF Submit, Open
  <2> QED
    BY <1>1, <2>1 DEF AloneInv, Waiting
<1>3. CASE ~ Submit /\ ~ Open
  <2>1. UNCHANGED <<attempts, overlapped>>
    BY <1>3, LocalMoves
  <2>2. \/ page' \in {"failed", "stuck"}
        \/ page \in Early /\ page' \in Early
        \/ page = "answer" /\ page' = "pod" /\ answer[attempts] = "ok"
        \/ page = "pod" /\ page' = "cleanup"
    BY <1>3, LocalMoves
  <2>3. ASSUME page = "answer", answer[attempts] = "ok", NEW r \in Requests, r = attempts
        PROVE  ~ Running(r)
    BY <2>3, PlaceNames DEF CallInv, RequestOK, Running
  <2> QED
    BY <1>1, <2>1, <2>2, <2>3 DEF AloneInv, Waiting, Early
<1> QED
  BY <1>2, <1>3

LEMMA AlonePost ==
  ASSUME TypeOK, CallInv, AloneInv, Post
  PROVE  AloneInv'
<1>1. /\ attempts \in Requests /\ UNCHANGED attempts /\ page = "post"
      /\ \/ page' = "failed" /\ UNCHANGED <<rpc, overlapped>>
         \/ /\ page' = "answer" /\ \A q \in Requests \ {attempts} : rpc'[q] = rpc[q]
            /\ overlapped' = (overlapped \/ \E r \in Requests : Running(r))
  BY PostMoves
<1>2. CASE page' = "failed" /\ UNCHANGED <<rpc, overlapped>>
  BY <1>2 DEF AloneInv, Running, Waiting
<1>3. CASE /\ page' = "answer" /\ \A q \in Requests \ {attempts} : rpc'[q] = rpc[q]
           /\ overlapped' = (overlapped \/ \E r \in Requests : Running(r))
  <2> SUFFICES ASSUME ~ overlapped' PROVE \A r \in Requests : Running(r)' => r = attempts
    BY <1>1, <1>3 DEF AloneInv, Waiting
  <2>1. \A r \in Requests : ~ Running(r)
    BY <1>3
  <2> QED
    BY <1>3, <2>1 DEF Running
<1> QED
  BY <1>1, <1>2, <1>3

LEMMA AloneInvariant == Spec => []AloneInv
<1>1. Init => AloneInv
  BY PlaceNames DEF Init, DomainInit, AloneInv, Running, Waiting
<1>2. TypeOK /\ CallInv /\ AloneInv /\ [Next]_vars => AloneInv'
  <2> SUFFICES ASSUME TypeOK, CallInv, AloneInv, [Next]_vars PROVE AloneInv'
    OBVIOUS
  <2> RequestType
    BY TypeParts, DomainParts
  <2>1. CASE UNCHANGED vars
    BY <2>1 DEF vars, domainVars, requests, AloneInv, Running
  <2>2. CASE DeleteRoute
    <3>1. UNCHANGED <<attempts, overlapped, rpc>> /\ page = "cleanup" /\ page' = "done"
      BY <2>2 DEF DeleteRoute, Step, requests
    <3> QED
      BY <3>1 DEF AloneInv, Running, Waiting
  <2>3. CASE (Reconcile \/ Restart) /\ UNCHANGED pageVars
    <3>1. \A r \in Requests : Running(r)' => Running(r)
      BY <2>3, KilledType, PlaceNames DEF Reconcile, Restart, requests, Running
    <3> QED
      BY <2>3, <3>1, AloneKept DEF pageVars
  <2>4. ASSUME NEW r \in Requests, ChangeDomainImpl(r), UNCHANGED pageVars PROVE AloneInv'
    BY <2>4, Going, RunningKept, AloneKept DEF pageVars
  <2> QED
    BY <2>1, <2>2, <2>3, <2>4, NextSteps, AloneLocal, AlonePost
<1> QED
  BY <1>1, <1>2, TypeCorrect, CallInvariant, PTL DEF Spec

-----------------------------------------------------------------------------
(* The route of the page: until a request moves the route, it is at the host *)
(* of the page, and the copy that is made of it is for that host.             *)

Before == {"read", "secrets", "ingress", "apiserver", "route", "backup", "copy", "host"}

CopyOK(r) ==
  /\ rpc[r] \in {"backup", "copy", "host"} => seen[r] = route
  /\ rpc[r] = "host" /\ ~ ignored => backup = seen[r]

HostOK(r) == rpc[r] \in Before => route = origin

RouteInv ==
  ~ overlapped =>
    /\ \A r \in Requests : CopyOK(r)
    /\ page # "done" /\ ~ late /\ ~ ignored =>
         Served(origin) /\ \A r \in Requests : HostOK(r)

\* A step of a request that is the only one, and leaves the route and the copy as they are.
LEMMA RouteStill ==
  ASSUME TypeOK, AloneInv, RouteInv, NEW r \in Requests, Goes(r), UNCHANGED pageVars,
         UNCHANGED <<route, backup, seen>>, ignored => ignored',
         rpc'[r] \in Before => rpc[r] \in Before,
         rpc'[r] \notin {"backup", "copy", "host"}
  PROVE  RouteInv'
<1> SUFFICES ASSUME ~ overlapped PROVE RouteInv'
  BY DEF RouteInv, pageVars
<1>1. \A q \in Requests : q # r => rpc'[q] \in {rpc[q], "killed"}
  BY DEF Goes
<1>2. \A q \in Requests : CopyOK(q)'
  BY <1>1 DEF RouteInv, CopyOK
<1>3. page # "done" /\ ~ late /\ ~ ignored =>
        Served(origin) /\ \A q \in Requests : rpc'[q] \in Before => route = origin
  BY <1>1 DEF RouteInv, HostOK, Before
<1> QED
  BY <1>2, <1>3 DEF RouteInv, Served, HostOK, pageVars

LEMMA RouteBackend ==
  ASSUME TypeOK, CallInv, AloneInv, RouteInv, NEW r \in Requests, ChangeDomainImpl(r),
         UNCHANGED pageVars
  PROVE  RouteInv'
<1> RequestType /\ ClusterType
  BY TypeParts, DomainParts
<1>1. Goes(r)
  BY Going
<1>2. UNCHANGED <<page, origin, late, overlapped>>
  BY DEF pageVars
<1> SUFFICES ASSUME ~ overlapped PROVE RouteInv'
  BY <1>2 DEF RouteInv
<1>3. Running(r)
  BY <1>1 DEF Goes
<1>4. \A q \in Requests : q # r => rpc[q] \notin Places /\ rpc'[q] = rpc[q]
  BY <1>1, <1>3 DEF AloneInv, Goes, Running
<1>5. ASSUME NEW q \in Requests, q # r PROVE rpc'[q] \notin Before
  BY <1>4, <1>5, PlaceNames DEF Before
<1>6. /\ CopyOK(r)
      /\ page # "done" /\ ~ late /\ ~ ignored => Served(origin) /\ HostOK(r)
  BY DEF RouteInv
<1>7. SUFFICES ASSUME ~ (rpc'[r] \notin {"backup", "copy", "host"} /\ UNCHANGED <<route, backup, seen>>)
               PROVE  /\ CopyOK(r)'
                      /\ page # "done" /\ ~ late /\ ~ ignored' => Served(origin)' /\ HostOK(r)'
  <2>1. ASSUME rpc'[r] \notin {"backup", "copy", "host"}, UNCHANGED <<route, backup, seen>>
        PROVE  RouteInv'
    <3>1. ignored => ignored'
      BY DEF ChangeDomainImpl, ReadIngress, CreateSecrets, PatchIngress, PatchApiServer, GetRoute,
             DeleteBackup, CreateBackup, UpdateRoute, UpdateOAuth, UpdateDeployment, Answer, causes
    <3>2. rpc'[r] \in Before => rpc[r] \in Before
      BY <1>1, <1>3, PlaceNames DEF Goes, After, Before, Running
    <3> QED
      BY <1>1, <2>1, <3>1, <3>2, RouteStill
  <2>2. ASSUME CopyOK(r)',
               page # "done" /\ ~ late /\ ~ ignored' => Served(origin)' /\ HostOK(r)'
        PROVE  RouteInv'
    <3>1. ASSUME NEW q \in Requests PROVE CopyOK(q)'
      BY <1>5, <2>2 DEF CopyOK, Before
    <3>2. ASSUME NEW q \in Requests, page # "done" /\ ~ late /\ ~ ignored' PROVE HostOK(q)'
      BY <1>5, <2>2, <3>2 DEF HostOK
    <3> QED
      BY <1>2, <2>2, <3>1, <3>2 DEF RouteInv
  <2> QED
    BY <2>1, <2>2
<1>8. CASE ReadIngress(r) \/ CreateSecrets(r)
  BY <1>1, <1>7, <1>8, PlaceNames DEF Goes, After, ReadIngress, CreateSecrets, cluster
<1>9. CASE PatchIngress(r) \/ PatchApiServer(r)
  BY <1>1, <1>7, <1>9, PlaceNames DEF Goes, After, PatchIngress, PatchApiServer
<1>10. CASE GetRoute(r)
  <2>1. UNCHANGED <<route, backup>> /\ rpc[r] = "route" /\ (ignored => ignored')
    BY <1>10 DEF GetRoute, cluster
  <2>2. CASE seen' = [seen EXCEPT ![r] = route] /\ Go(r, "backup") /\ UNCHANGED ignored
    <3>1. rpc'[r] = "backup" /\ seen'[r] = route
      BY <2>2, GoMoves, PlaceNames DEF Moved, ClusterType
    <3> QED
      BY <1>2, <1>6, <2>1, <2>2, <3>1 DEF CopyOK, HostOK, Served, Before
  <2>3. CASE Go(r, "oauth") /\ UNCHANGED seen
    BY <1>7, <2>1, <2>3, GoMoves, PlaceNames DEF Moved
  <2> QED
    BY <1>10, <2>2, <2>3 DEF GetRoute
<1>11. CASE DeleteBackup(r)
  <2>1. rpc'[r] = "copy" /\ rpc[r] = "backup"
    BY <1>11, GoMoves, PlaceNames DEF DeleteBackup, Moved
  <2>2. UNCHANGED <<route, seen, ignored>>
    BY <1>11 DEF DeleteBackup, causes
  <2> QED
    BY <1>2, <1>6, <2>1, <2>2 DEF CopyOK, HostOK, Served, Before
<1>12. CASE CreateBackup(r)
  <2>1. rpc'[r] = "host" /\ rpc[r] = "copy"
    BY <1>12, GoMoves, PlaceNames DEF CreateBackup, Moved
  <2>2. UNCHANGED <<route, seen>> /\ (~ ignored' => ~ ignored /\ backup' = seen[r])
    BY <1>12 DEF CreateBackup
  <2> QED
    BY <1>2, <1>6, <2>1, <2>2 DEF CopyOK, HostOK, Served, Before
<1>13. CASE UpdateRoute(r)
  <2>1. rpc'[r] = "oauth" /\ rpc[r] = "host"
    BY <1>13, GoMoves, PlaceNames DEF UpdateRoute, Moved
  <2>2. UNCHANGED <<backup, seen>> /\ (ignored => ignored')
    BY <1>13 DEF UpdateRoute
  <2> QED
    BY <1>2, <1>6, <2>1, <2>2 DEF CopyOK, HostOK, Served, Before
<1>14. CASE UpdateOAuth(r) \/ UpdateDeployment(r) \/ Answer(r)
  BY <1>1, <1>7, <1>14, PlaceNames
     DEF Goes, After, UpdateOAuth, UpdateDeployment, Answer, cluster
<1> QED
  BY <1>8, <1>9, <1>10, <1>11, <1>12, <1>13, <1>14 DEF ChangeDomainImpl

LEMMA RouteLocal ==
  ASSUME TypeOK, AloneInv, RouteInv, Local
  PROVE  RouteInv'
<1>1. UNCHANGED <<rpc, route, backup, seen, ignored>>
  BY LocalKeeps DEF domainVars, cluster, requests, causes
<1>2. overlapped' = overlapped
  BY LocalMoves DEF Submit, Open
<1> SUFFICES ASSUME ~ overlapped, page' # "done", ~ late', ~ ignored
             PROVE  (Served(origin) /\ \A r \in Requests : HostOK(r))'
  BY <1>1, <1>2 DEF RouteInv, CopyOK
<1>3. CASE Open
  <2>1. Served(origin')
    BY <1>3 DEF Open
  <2>2. route = origin' \/ \A r \in Requests : ~ Running(r)
    BY <1>3 DEF Open
  <2>3. \A r \in Requests : ~ Running(r) => rpc[r] \notin Before
    BY PlaceNames DEF Running, Before
  <2> QED
    BY <1>1, <2>1, <2>2, <2>3 DEF Served, HostOK
<1>4. CASE ~ Open
  <2>1. UNCHANGED <<origin, late>> /\ page # "done"
    BY <1>4, LocalMoves DEF Submit
  <2> QED
    BY <1>1, <2>1 DEF RouteInv, Served, HostOK
<1> QED
  BY <1>3, <1>4

LEMMA RoutePost ==
  ASSUME TypeOK, CallInv, AloneInv, RouteInv, Post
  PROVE  RouteInv'
<1>1. /\ attempts \in Requests /\ UNCHANGED <<cluster, seen, causes, origin>> /\ page = "post"
      /\ \/ page' = "failed" /\ UNCHANGED <<rpc, late, overlapped>>
         \/ /\ page' = "answer" /\ rpc'[attempts] = "read"
            /\ \A q \in Requests \ {attempts} : rpc'[q] = rpc[q]
            /\ late' = (late \/ route # origin)
            /\ overlapped' = (overlapped \/ \E r \in Requests : Running(r))
  BY PostMoves
<1>2. UNCHANGED <<route, backup, seen, ignored, origin>>
  BY <1>1 DEF cluster, causes
<1>3. CASE page' = "failed" /\ UNCHANGED <<rpc, late, overlapped>>
  BY <1>1, <1>2, <1>3 DEF RouteInv, CopyOK, HostOK, Served
<1>4. CASE /\ page' = "answer" /\ rpc'[attempts] = "read"
           /\ \A q \in Requests \ {attempts} : rpc'[q] = rpc[q]
           /\ late' = (late \/ route # origin)
           /\ overlapped' = (overlapped \/ \E r \in Requests : Running(r))
  <2> SUFFICES ASSUME ~ overlapped' PROVE RouteInv'
    BY DEF RouteInv
  <2>1. \A q \in Requests \ {attempts} : rpc'[q] \notin Before
    BY <1>4, PlaceNames DEF Running, Before
  <2>2. ~ overlapped /\ (~ late' => ~ late /\ route = origin)
    BY <1>4
  <2>3. \A q \in Requests : CopyOK(q)'
    BY <1>4, <2>1 DEF CopyOK, Before
  <2>4. ~ late' /\ ~ ignored' => Served(origin)' /\ \A q \in Requests : HostOK(q)'
    BY <1>2, <2>2 DEF Served, HostOK
  <2> QED
    BY <2>3, <2>4 DEF RouteInv
<1> QED
  BY <1>1, <1>3, <1>4

LEMMA RouteCluster ==
  ASSUME TypeOK, RouteInv, Reconcile \/ Restart, UNCHANGED pageVars
  PROVE  RouteInv'
<1> RequestType
  BY TypeParts, DomainParts
<1>1. UNCHANGED <<page, origin, late, overlapped, route, backup, seen, ignored>>
  BY DEF pageVars, Reconcile, Restart, requests, causes
<1>2. \A q \in Requests : rpc'[q] \in {rpc[q], "killed"}
  BY KilledType DEF Reconcile, Restart, requests
<1> QED
  BY <1>1, <1>2 DEF RouteInv, CopyOK, HostOK, Served, Before

LEMMA RouteInvariant == Spec => []RouteInv
<1>1. Init => RouteInv
  BY DEF Init, DomainInit, RouteInv, CopyOK, HostOK, Served, Before
<1>2. TypeOK /\ CallInv /\ AloneInv /\ RouteInv /\ [Next]_vars => RouteInv'
  <2> SUFFICES ASSUME TypeOK, CallInv, AloneInv, RouteInv, [Next]_vars PROVE RouteInv'
    OBVIOUS
  <2>1. CASE UNCHANGED vars
    BY <2>1 DEF vars, domainVars, cluster, requests, causes, RouteInv, CopyOK, HostOK, Served
  <2>2. CASE DeleteRoute
    <3>1. /\ UNCHANGED <<overlapped, rpc, route, seen, ignored>>
          /\ page = "cleanup" /\ page' = "done"
      BY <2>2 DEF DeleteRoute, Step, requests, causes
    <3>2. ~ overlapped => \A r \in Requests : rpc[r] \notin Before
      BY <3>1, PlaceNames DEF AloneInv, Running, Before, Waiting
    <3> QED
      BY <3>1, <3>2 DEF RouteInv, CopyOK, Before
  <2> QED
    BY <2>1, <2>2, NextSteps, RouteLocal, RoutePost, RouteCluster, RouteBackend
<1> QED
  BY <1>1, <1>2, TypeCorrect, CallInvariant, AloneInvariant, PTL DEF Spec

\* The host that a page is loaded from is served while it saves, also while a request moves
\* the route (updateZtpfwUI and backupRoute; persist).
THEOREM TheOriginIsServed == Spec => []OriginServed
<1>1. RouteInv => OriginServed
  BY DEF RouteInv, OriginServed, Saving
<1> QED
  BY <1>1, RouteInvariant, PTL

-----------------------------------------------------------------------------
(* The services: those that the page has gone past ask for the addresses of *)
(* the form; and the pools, but for those of an attempt that was cut, have   *)
(* the addresses of their services.                                          *)

Asking == {"idp", "secret", "provider", "bind", "authentication"}
InService == {"get", "pool", "service"}
Later == {"operators", "post", "answer"} \union Waiting

SaveDone(s) == page \in Later \/ (page \in InService /\ s = "ingress" /\ saving = "api")

\* Between the patch of the pool and that of the service.
Between(s) == page = "service" /\ saving = s /\ ~ creating

ServiceOK(s) ==
  /\ SaveDone(s) => service[s] = form.ip[s]
  /\ service[s] # "absent" => pool[s] # None
  /\ Between(s) => pool[s] = form.ip[s]
  /\ s \notin mixed /\ service[s] \in Addresses /\ ~ Between(s) => pool[s] = service[s]

ServiceInv ==
  /\ page \in Asking => saving = "ingress"
  /\ page = "pool" /\ ~ creating => service[saving] # "absent"
  /\ \A s \in Services : ServiceOK(s)

LEMMA ServiceKept ==
  ASSUME ServiceInv, UNCHANGED <<form, services>>,
         \/ page' = page
         \/ page' \in {"form", "failed", "stuck"} /\ page # "service"
         \/ page \in Asking /\ page' \in Asking
         \/ page \in Later /\ page' \in Later
  PROVE  ServiceInv'
BY DEF ServiceInv, ServiceOK, SaveDone, Between, services, Asking, InService, Later, Waiting

LEMMA ServiceGet ==
  ASSUME TypeOK, ServiceInv, GetService
  PROVE  ServiceInv'
<1> PageType /\ SavedType
  BY TypeParts DEF PageType
<1>1. UNCHANGED <<form, service, pool, mixed>> /\ page = "get"
  BY DEF GetService, Ok, Step
<1>2. CASE service[saving] # "absent" /\ service[saving] = form.ip[saving] /\ Ok("get", Saved)
           /\ SaveNext /\ creating' = FALSE
  <2>1. page' = Saved /\ page' \in {"get", "operators"}
    BY <1>2 DEF Ok, Step, Saved
  <2>2. page' = "get" => saving = "ingress" /\ saving' = "api"
    BY <1>2, <2>1 DEF Saved, SaveNext
  <2>3. page' = "operators" => \A s \in Services : s = saving \/ (s = "ingress" /\ saving = "api")
    BY <2>1, ServiceNames DEF Saved, SavedType
  <2>4. ASSUME NEW s \in Services PROVE SaveDone(s)' => service[s] = form.ip[s]
    BY <1>1, <1>2, <2>1, <2>2, <2>3 DEF ServiceInv, ServiceOK, SaveDone, InService, Later, Waiting
  <2>5. ASSUME NEW s \in Services PROVE ServiceOK(s)'
    BY <1>1, <2>1, <2>4 DEF ServiceInv, ServiceOK, Between
  <2> QED
    BY <2>1, <2>5 DEF ServiceInv, Asking
<1>3. CASE service[saving] # "absent" /\ Ok("get", "pool") /\ UNCHANGED saving
           /\ creating' = FALSE
  BY <1>1, <1>3 DEF Ok, Step, ServiceInv, ServiceOK, SaveDone, Between, Asking, InService, Later,
                    Waiting
<1>4. CASE Step("get", "pool") /\ creating' = TRUE /\ UNCHANGED <<error, saving>>
  BY <1>1, <1>4 DEF Step, ServiceInv, ServiceOK, SaveDone, Between, Asking, InService, Later,
                    Waiting
<1> QED
  BY <1>2, <1>3, <1>4 DEF GetService

LEMMA ServicePool ==
  ASSUME TypeOK, ServiceInv, SavePool
  PROVE  ServiceInv'
<1> PageType /\ SavedType
  BY TypeParts DEF PageType
<1>1. /\ UNCHANGED <<form, service, saving, creating>> /\ page = "pool"
      /\ page' \in {"service", "failed"}
  BY DEF SavePool, Ok, Failed, Step
<1>2. form.ip[saving] \in Addresses /\ saving \in Services
  BY FormType DEF PageType, SavedType
<1>3. ~ creating => pool[saving] # None
  BY <1>1, <1>2 DEF ServiceInv, ServiceOK
<1>4. \A s \in Services : SaveDone(s)' => SaveDone(s)
  BY <1>1 DEF SaveDone, InService, Later, Waiting
<1>5. CASE /\ page' = "service" /\ ~ creating
           /\ pool' = [pool EXCEPT ![saving] = form.ip[saving]] /\ UNCHANGED mixed
  <2>1. pool'[saving] = form.ip[saving] /\ \A s \in Services : s # saving => pool'[s] = pool[s]
    BY <1>2, <1>5 DEF SavedType
  <2>2. ASSUME NEW s \in Services PROVE ServiceOK(s)'
    BY <1>1, <1>2, <1>4, <1>5, <2>1, ServiceNames DEF ServiceInv, ServiceOK, Between
  <2> QED
    BY <1>1, <1>5, <2>2 DEF ServiceInv, Asking
<1>6. CASE /\ page' = "service" /\ creating /\ UNCHANGED <<pool, mixed>>
  <2>1. ASSUME NEW s \in Services PROVE ServiceOK(s)'
    BY <1>1, <1>4, <1>6 DEF ServiceInv, ServiceOK, Between
  <2> QED
    BY <1>1, <1>6, <2>1 DEF ServiceInv, Asking
<1>7. CASE page' = "failed" /\ UNCHANGED <<pool, mixed>>
  <2>1. ASSUME NEW s \in Services PROVE ServiceOK(s)'
    BY <1>1, <1>4, <1>7 DEF ServiceInv, ServiceOK, Between
  <2> QED
    BY <1>1, <1>7, <2>1 DEF ServiceInv, Asking
<1>8. CASE /\ page' = "failed" /\ pool' = [pool EXCEPT ![saving] = form.ip[saving]]
           /\ mixed' = mixed \union {saving}
  <2>1. pool'[saving] = form.ip[saving] /\ \A s \in Services : s # saving => pool'[s] = pool[s]
    BY <1>2, <1>8 DEF SavedType
  <2>2. ASSUME NEW s \in Services PROVE ServiceOK(s)'
    BY <1>1, <1>2, <1>4, <1>8, <2>1, ServiceNames DEF ServiceInv, ServiceOK, Between
  <2> QED
    BY <1>1, <1>8, <2>2 DEF ServiceInv, Asking
<1> QED
  BY <1>3, <1>5, <1>6, <1>7, <1>8 DEF SavePool, Ok, Failed, Step

LEMMA ServiceSave ==
  ASSUME TypeOK, ServiceInv, SaveService
  PROVE  ServiceInv'
<1> PageType /\ SavedType
  BY TypeParts DEF PageType
<1>1. UNCHANGED form /\ page = "service" /\ page' \in {"get", "operators", "failed"}
  BY DEF SaveService, Ok, Failed, Step, Saved
<1>2. form.ip[saving] \in Addresses /\ saving \in Services
  BY FormType DEF PageType, SavedType
<1>3. ASSUME service' = [service EXCEPT ![saving] = form.ip[saving]],
             pool' = [pool EXCEPT ![saving] = form.ip[saving]],
             mixed' = mixed \ {saving},
             \A s \in Services : SaveDone(s)' => SaveDone(s) \/ s = saving
      PROVE  \A s \in Services : ServiceOK(s)'
  <2>1. /\ service'[saving] = form.ip[saving] /\ pool'[saving] = form.ip[saving]
        /\ \A s \in Services : s # saving => service'[s] = service[s] /\ pool'[s] = pool[s]
    BY <1>2, <1>3 DEF SavedType
  <2>2. ASSUME NEW s \in Services, s = saving PROVE ServiceOK(s)'
    BY <1>1, <1>2, <2>1, <2>2, ServiceNames DEF ServiceOK
  <2>3. ASSUME NEW s \in Services, s # saving PROVE ServiceOK(s)'
    BY <1>1, <1>3, <2>1, <2>3 DEF ServiceInv, ServiceOK, Between
  <2> QED
    BY <2>2, <2>3
<1>4. CASE /\ Ok("service", Saved) /\ SaveNext
           /\ service' = [service EXCEPT ![saving] = form.ip[saving]]
           /\ pool' = [pool EXCEPT ![saving] = form.ip[saving]]
           /\ mixed' = mixed \ {saving}
  <2>1. page' = Saved /\ page' \in {"get", "operators"}
    BY <1>4 DEF Ok, Step, Saved
  <2>2. page' = "get" => saving = "ingress" /\ saving' = "api"
    BY <1>4, <2>1 DEF Saved, SaveNext
  <2>3. page' = "operators" => \A s \in Services : s = saving \/ (s = "ingress" /\ saving = "api")
    BY <2>1, ServiceNames DEF Saved, SavedType
  <2>4. \A s \in Services : SaveDone(s)' => SaveDone(s) \/ s = saving
    BY <1>1, <2>1, <2>2, <2>3 DEF SaveDone, InService, Later, Waiting
  <2> QED
    BY <1>3, <1>4, <2>1, <2>4 DEF ServiceInv, Asking
<1>5. CASE /\ page' = "failed" /\ UNCHANGED <<service, pool, saving, creating>>
           /\ mixed' = IF creating THEN mixed ELSE mixed \union {saving}
  <2>1. ASSUME NEW s \in Services PROVE ServiceOK(s)'
    <3>1. ~ SaveDone(s)' /\ ~ Between(s)'
      BY <1>5 DEF SaveDone, Between, InService, Later, Waiting
    <3>2. s \notin mixed' => ~ Between(s) /\ s \notin mixed
      BY <1>5 DEF Between
    <3> QED
      BY <1>5, <3>1, <3>2 DEF ServiceInv, ServiceOK
  <2> QED
    BY <1>5, <2>1 DEF ServiceInv, Asking
<1>6. CASE /\ page' = "failed"
           /\ service' = [service EXCEPT ![saving] = form.ip[saving]]
           /\ pool' = [pool EXCEPT ![saving] = form.ip[saving]]
           /\ mixed' = mixed \ {saving}
  <2>1. \A s \in Services : ~ SaveDone(s)'
    BY <1>6 DEF SaveDone, InService, Later, Waiting
  <2> QED
    BY <1>3, <1>6, <2>1 DEF ServiceInv, Asking
<1> QED
  BY <1>4, <1>5, <1>6 DEF SaveService, Failed, Step

LEMMA ServiceOpen ==
  ASSUME TypeOK, ServiceInv, Open
  PROVE  ServiceInv'
<1>1. page' = "form" /\ UNCHANGED <<form, service, pool>>
  BY DEF Open
<1>2. mixed' = IF page = "service" /\ ~ creating THEN mixed \union {saving} ELSE mixed
  BY DEF Open
<1>3. ASSUME NEW s \in Services PROVE ServiceOK(s)'
  <2>1. ~ SaveDone(s)' /\ ~ Between(s)'
    BY <1>1 DEF SaveDone, Between, InService, Later, Waiting
  <2>2. s \notin mixed' => ~ Between(s) /\ s \notin mixed
    BY <1>2 DEF Between
  <2> QED
    BY <1>1, <2>1, <2>2 DEF ServiceInv, ServiceOK
<1> QED
  BY <1>1, <1>3 DEF ServiceInv, Asking

LEMMA ServiceSubmit ==
  ASSUME TypeOK, ServiceInv, Submit
  PROVE  ServiceInv'
<1>1. /\ page' = "idp" /\ page # "service" /\ saving' = "ingress"
      /\ UNCHANGED <<service, pool, mixed>>
  BY DEF Submit
<1>2. ASSUME NEW s \in Services PROVE ServiceOK(s)'
  BY <1>1 DEF ServiceInv, ServiceOK, SaveDone, Between, InService, Later, Waiting
<1> QED
  BY <1>1, <1>2 DEF ServiceInv

LEMMA ServiceInit == Init => ServiceInv
<1> SUFFICES ASSUME Init PROVE ServiceInv
  OBVIOUS
<1>1. page = "form" /\ form \in Forms
  BY DEF Init
<1>2. form.ip \in [Services -> Addresses]
  BY <1>1, FormType
<1>3. ASSUME NEW s \in Services PROVE ServiceOK(s)
  <2>1. ~ SaveDone(s) /\ ~ Between(s)
    BY <1>1 DEF SaveDone, Between, InService, Later, Waiting
  <2>2. /\ service[s] # "absent" => pool[s] # None
        /\ service[s] \in Addresses => pool[s] = service[s]
    <3>1. CASE service = [t \in Services |-> "absent"] /\ pool = [t \in Services |-> None]
      BY <3>1, ServiceNames
    <3>2. CASE service = [t \in Services |-> "unset"] /\ pool = [t \in Services |-> "foreign"]
      BY <3>2, ServiceNames
    <3>3. CASE service = form.ip /\ pool = form.ip
      BY <1>2, <3>3, ServiceNames
    <3> QED
      BY <3>1, <3>2, <3>3 DEF Init
  <2> QED
    BY <2>1, <2>2 DEF ServiceOK
<1> QED
  BY <1>1, <1>3 DEF ServiceInv, Asking

LEMMA ServiceInvariant == Spec => []ServiceInv
<1>1. TypeOK /\ ServiceInv /\ [Next]_vars => ServiceInv'
  <2> SUFFICES ASSUME TypeOK, ServiceInv, [Next]_vars PROVE ServiceInv'
    OBVIOUS
  <2>1. CASE UNCHANGED vars \/ UNCHANGED pageVars
    BY <2>1, ServiceKept DEF vars, pageVars
  <2>2. CASE LoseAnswer \/ GetOAuth \/ CreateSecret \/ PatchIDP \/ BindClusterAdminRole
    <3>1. CASE LoseAnswer \/ CreateSecret \/ PatchIDP \/ BindClusterAdminRole
      BY <3>1, ServiceKept DEF LoseAnswer, CreateSecret, PatchIDP, BindClusterAdminRole, Ok,
                               Failed, Escaped, Step, Aside, Asking
    <3>2. CASE GetOAuth
      <4>1. page = "idp" /\ UNCHANGED <<form, services>> /\ page' \in {"get", "secret", "failed"}
        BY <3>2 DEF GetOAuth, Ok, Failed, Step, Aside
      <4>2. CASE page' = "get"
        BY <4>1, <4>2 DEF ServiceInv, ServiceOK, SaveDone, Between, services, Asking, InService,
                          Later, Waiting
      <4> QED
        BY <4>1, <4>2, ServiceKept DEF Asking
    <3> QED
      BY <2>2, <3>1, <3>2
  <2>3. CASE WaitAuthentication
    <3>1. /\ page = "authentication" /\ UNCHANGED <<form, services>>
          /\ page' \in {"get", "failed"}
      BY <2>3 DEF WaitAuthentication, Ok, Failed, Step, Aside
    <3>2. CASE page' = "get"
      BY <3>1, <3>2 DEF ServiceInv, ServiceOK, SaveDone, Between, services, Asking, InService,
                        Later, Waiting
    <3> QED
      BY <3>1, <3>2, ServiceKept
  <2>4. CASE WaitOperators \/ ReadAnswer \/ WaitPod \/ DeleteRoute \/ Post
    <3>1. UNCHANGED <<form, services>> /\ page \in Later /\ page' \in Later \union {"failed"}
      BY <2>4 DEF WaitOperators, ReadAnswer, WaitPod, DeleteRoute, Post, Ok, Failed, Step, Aside,
                  Later, Waiting
    <3> QED
      BY <3>1, ServiceKept DEF Later, Waiting
  <2> QED
    BY <2>1, <2>2, <2>3, <2>4, NextSteps, ServiceGet, ServicePool, ServiceSave, ServiceOpen,
       ServiceSubmit DEF Local
<1> QED
  BY <1>1, ServiceInit, TypeCorrect, PTL DEF Spec

-----------------------------------------------------------------------------
(* The user: who has the provider has the role too, unless an attempt was    *)
(* cut between the two.                                                      *)

UserInv ==
  /\ idp = "present" /\ ~ unbound => admin \/ page = "bind"
  /\ form.user /\ page \in {"bind", "authentication"} \union InService \union Later =>
       idp = "present"

LEMMA UserKept ==
  ASSUME UserInv, UNCHANGED <<form, identity>>,
         \/ page' = page
         \/ page # "bind" /\ page' \notin {"bind", "authentication"} \union InService \union Later
         \/ page # "bind" /\ page \in {"bind", "authentication"} \union InService \union Later
  PROVE  UserInv'
BY DEF UserInv, identity

LEMMA UserOpen ==
  ASSUME UserInv, Open
  PROVE  UserInv'
<1>1. /\ page' = "form" /\ UNCHANGED <<form, idp, admin>>
      /\ unbound' = (unbound \/ page = "bind")
  BY DEF Open
<1>2. ~ unbound' => ~ unbound /\ page # "bind"
  BY <1>1
<1> QED
  BY <1>1, <1>2 DEF UserInv, InService, Later, Waiting

LEMMA UserSubmit ==
  ASSUME UserInv, Submit
  PROVE  UserInv'
<1>1. page \in {"form", "failed"} /\ page' = "idp" /\ UNCHANGED <<idp, admin, unbound>>
  BY DEF Submit, identity
<1> QED
  BY <1>1 DEF UserInv, InService, Later, Waiting

LEMMA UserPatch ==
  ASSUME UserInv, PatchIDP \/ BindClusterAdminRole
  PROVE  UserInv'
<1>1. CASE PatchIDP
  <2>1. UNCHANGED <<form, admin>> /\ page = "provider"
    BY <1>1 DEF PatchIDP, Ok, Failed, Step
  <2>2. CASE page' = "bind" /\ idp' = "present" /\ UNCHANGED unbound
    BY <2>1, <2>2 DEF UserInv
  <2>3. CASE page' = "failed" /\ idp' \in {"present", idp}
             /\ unbound' = (unbound \/ idp' = "present")
    <3>1. ~ unbound' => idp' # "present"
      BY <2>3
    <3> QED
      BY <2>3, <3>1 DEF UserInv, InService, Later, Waiting
  <2> QED
    BY <1>1, <2>2, <2>3 DEF PatchIDP, Ok, Failed, Step
<1>2. CASE BindClusterAdminRole
  <2>1. UNCHANGED <<form, idp>> /\ page = "bind"
    BY <1>2 DEF BindClusterAdminRole, Ok, Escaped, Step
  <2>2. CASE page' = "authentication" /\ admin' = TRUE
    BY <2>1, <2>2 DEF UserInv
  <2>3. CASE page' = "stuck" /\ unbound' = TRUE
    BY <2>3 DEF UserInv, InService, Later, Waiting
  <2> QED
    BY <1>2, <2>2, <2>3 DEF BindClusterAdminRole, Ok, Escaped, Step
<1> QED
  BY <1>1, <1>2

LEMMA UserInvariant == Spec => []UserInv
<1>1. Init => UserInv
  BY DEF Init, UserInv, InService, Later, Waiting
<1>2. TypeOK /\ UserInv /\ [Next]_vars => UserInv'
  <2> SUFFICES ASSUME TypeOK, UserInv, [Next]_vars PROVE UserInv'
    OBVIOUS
  <2>1. CASE UNCHANGED vars \/ UNCHANGED pageVars
    BY <2>1, UserKept DEF vars, pageVars
  <2>2. CASE LoseAnswer \/ CreateSecret \/ WaitAuthentication \/ WaitOperators \/ ReadAnswer
             \/ WaitPod \/ DeleteRoute \/ Post
    <3>1. /\ UNCHANGED <<form, identity>> /\ page # "bind"
          /\ \/ page \in {"authentication"} \union Later
             \/ page' \in {"provider", "failed", "stuck"}
      BY <2>2 DEF LoseAnswer, CreateSecret, WaitAuthentication, WaitOperators, ReadAnswer, WaitPod,
                  DeleteRoute, Post, Ok, Failed, Escaped, Step, Aside, Later, Waiting
    <3> QED
      BY <3>1, UserKept DEF InService, Later, Waiting
  <2>3. CASE GetService \/ SavePool \/ SaveService
    <3>1. UNCHANGED <<form, identity>> /\ page \in InService
      BY <2>3 DEF GetService, SavePool, SaveService, Ok, Failed, Step, InService
    <3> QED
      BY <3>1, UserKept DEF InService
  <2>4. CASE GetOAuth
    <3>1. /\ UNCHANGED <<form, identity>> /\ page = "idp"
          /\ \/ page' \in {"secret", "failed"}
             \/ page' = "get" /\ (form.user => idp = "present")
      BY <2>4 DEF GetOAuth, Ok, Failed, Step, Aside
    <3> QED
      BY <3>1 DEF UserInv, identity, InService, Later, Waiting
  <2> QED
    BY <2>1, <2>2, <2>3, <2>4, NextSteps, UserOpen, UserSubmit, UserPatch DEF Local
<1> QED
  BY <1>1, <1>2, TypeCorrect, PTL DEF Spec

-----------------------------------------------------------------------------
(* The pod: that of the domain that the page waited for, with a deployment   *)
(* that doesn't change it any more.                                          *)

PodInv ==
  ~ overlapped /\ ~ early /\ page \in {"cleanup", "done"} =>
    pod = form.domain /\ deployment = form.domain

LEMMA PodInvariant == Spec => []PodInv
<1>1. Init => PodInv
  BY DEF Init, PodInv
<1>2. TypeOK /\ CallInv /\ AloneInv /\ PodInv /\ [Next]_vars => PodInv'
  <2> SUFFICES ASSUME TypeOK, CallInv, AloneInv, PodInv, [Next]_vars PROVE PodInv'
    OBVIOUS
  <2> RequestType
    BY TypeParts, DomainParts
  <2>1. CASE UNCHANGED vars
    BY <2>1 DEF vars, domainVars, cluster, PodInv
  <2>2. CASE Local
    <3>1. UNCHANGED <<pod, deployment>>
      BY <2>2, LocalKeeps DEF domainVars, cluster
    <3>2. CASE Submit \/ Open
      BY <3>2 DEF Submit, Open, PodInv
    <3>3. CASE ~ Submit /\ ~ Open
      <4>1. /\ UNCHANGED form
            /\ \/ page' \in {"failed", "stuck", "pod"} \union Early
               \/ page' = "cleanup" /\ pod = form.domain /\ early' = (pod # deployment)
        BY <2>2, <3>3, LocalMoves
      <4> QED
        BY <3>1, <4>1 DEF PodInv, Early
    <3> QED
      BY <3>2, <3>3
  <2>3. CASE Post
    BY <2>3 DEF Post, PodInv
  <2>4. CASE DeleteRoute
    BY <2>4 DEF DeleteRoute, Step, PodInv
  <2>5. CASE (Reconcile \/ Restart) /\ UNCHANGED pageVars
    BY <2>5 DEF Reconcile, Restart, pageVars, PodInv
  <2>6. ASSUME NEW r \in Requests, ChangeDomainImpl(r), UNCHANGED pageVars PROVE PodInv'
    <3>1. Running(r)
      BY <2>6, Going DEF Goes
    <3>2. overlapped \/ page \notin {"cleanup", "done"}
      BY <3>1 DEF AloneInv, Waiting
    <3> QED
      BY <2>6, <3>2 DEF PodInv, pageVars
  <2> QED
    BY <2>1, <2>2, <2>3, <2>4, <2>5, <2>6, NextSteps
<1> QED
  BY <1>1, <1>2, TypeCorrect, CallInvariant, AloneInvariant, PTL DEF Spec

-----------------------------------------------------------------------------
(* The domain of the routes: that of the request that patched them, and of   *)
(* the one that was answered, unless the status was behind.                  *)

Patched == {"apiserver"} \union Interface

PatchedOK(r) == rpc[r] \in Patched /\ answer[r] = "none" => routes = want[r]

RoutesInv ==
  ~ overlapped =>
    /\ \A r \in Requests : PatchedOK(r)
    /\ ~ stale /\ page \in {"answer"} \union Waiting /\ answer[attempts] = "ok" =>
         routes = want[attempts]

\* What is known of the step of a request that runs alone.
LEMMA AloneStep ==
  ASSUME TypeOK, AloneInv, NEW r \in Requests, Goes(r), UNCHANGED pageVars, ~ overlapped
  PROVE  /\ Running(r) /\ ~ overlapped' /\ page' = page /\ attempts' = attempts /\ want' = want
         /\ \A q \in Requests : q # r => /\ rpc[q] \notin Places /\ rpc'[q] = rpc[q]
                                        /\ answer'[q] = answer[q]
         /\ page = "answer" => r = attempts
         /\ page \notin Waiting
BY DEF Goes, AloneInv, Running, pageVars

LEMMA AnswerKept ==
  ASSUME TypeOK, NEW r \in Requests, Goes(r), rpc'[r] \in Patched, answer'[r] = "none"
  PROVE  answer[r] = "none" /\ rpc[r] \in Patched \union {"ingress"}
<1>1. "killed" \notin Patched /\ "done" \notin Patched
  BY DEF Patched, Interface
<1>2. answer[r] = "none"
  BY <1>1 DEF Goes
<1>3. rpc[r] \in Patched \union {"ingress"}
  BY <1>1, PlaceNames DEF Goes, After, Running, Patched, Interface
<1> QED
  BY <1>2, <1>3

LEMMA RoutesBackend ==
  ASSUME TypeOK, CallInv, AloneInv, RoutesInv, NEW r \in Requests, ChangeDomainImpl(r),
         UNCHANGED pageVars
  PROVE  RoutesInv'
<1> RequestType /\ ClusterType
  BY TypeParts, DomainParts
<1>1. Goes(r)
  BY Going
<1> SUFFICES ASSUME ~ overlapped PROVE RoutesInv'
  BY DEF RoutesInv, pageVars
<1>2. /\ Running(r) /\ ~ overlapped' /\ page' = page /\ attempts' = attempts /\ want' = want
      /\ \A q \in Requests : q # r => /\ rpc[q] \notin Places /\ rpc'[q] = rpc[q]
                                     /\ answer'[q] = answer[q]
      /\ page = "answer" => r = attempts
      /\ page \notin Waiting
  BY <1>1, AloneStep
<1>3. ASSUME NEW q \in Requests, q # r PROVE PatchedOK(q)'
  BY <1>2, <1>3, PlaceNames DEF PatchedOK, Patched, Interface
<1> SUFFICES /\ PatchedOK(r)'
             /\ ~ stale' /\ page = "answer" /\ answer'[r] = "ok" => routes' = want[r]
  BY <1>2, <1>3 DEF RoutesInv
<1>5. answer[r] # "ok"
  BY <1>2, PlaceNames DEF CallInv, RequestOK, Running
<1>6. CASE PatchIngress(r)
  <2>1. rpc[r] = "ingress" /\ answer[r] = "none"
    BY <1>6 DEF PatchIngress, CallInv, RequestOK
  <2>2. CASE routes' = want[r] /\ Go(r, "apiserver")
    BY <1>2, <2>2 DEF PatchedOK
  <2>3. CASE Reply(r, "error", "apiserver") \/ Reply(r, "error", "done")
    <3>1. answer'[r] = "error"
      BY <2>1, <2>3, ReplyMoves, PlaceNames
    <3> QED
      BY <3>1 DEF PatchedOK
  <2> QED
    BY <1>6, <2>2, <2>3 DEF PatchIngress
<1>7. CASE ~ PatchIngress(r)
  <2>1. routes' = routes
    BY <1>7 DEF ChangeDomainImpl, ReadIngress, CreateSecrets, PatchApiServer, GetRoute,
                DeleteBackup, CreateBackup, UpdateRoute, UpdateOAuth, UpdateDeployment, Answer,
                cluster
  <2>2. rpc[r] # "ingress"
    BY <1>7 DEF ChangeDomainImpl, ReadIngress, CreateSecrets, PatchApiServer, GetRoute,
                DeleteBackup, CreateBackup, UpdateRoute, UpdateOAuth, UpdateDeployment, Answer
  <2>3. PatchedOK(r)'
    BY <1>1, <1>2, <2>1, <2>2, AnswerKept DEF RoutesInv, PatchedOK
  <2>4. ASSUME ~ stale', answer'[r] = "ok" PROVE routes = want[r]
    <3>1. answer'[r] # answer[r]
      BY <1>5, <2>4
    <3>2. CASE ReadIngress(r)
      <4>1. PICK old \in {current, None} : old = want[r] /\ stale' = (stale \/ routes # current)
        <5>1. CASE Reply(r, "error", "done")
          BY <2>4, <3>1, <5>1, ReplyMoves
        <5>2. CASE \E old \in {current, None} :
                     IF old = want[r]
                     THEN Reply(r, "ok", "done") /\ stale' = (stale \/ routes # current)
                     ELSE Go(r, "secrets") /\ UNCHANGED stale
          BY <3>1, <5>2, GoMoves, PlaceNames
        <5> QED
          BY <3>2, <5>1, <5>2 DEF ReadIngress
      <4>2. old = current
        BY <4>1, DomainNames DEF ClusterType
      <4>3. routes = current
        BY <2>4, <4>1
      <4> QED
        BY <4>1, <4>2, <4>3
    <3>3. CASE Answer(r)
      <4>1. rpc[r] \in Patched /\ answer[r] = "none"
        BY <2>4, <3>1, <3>3, ReplyMoves DEF Answer, Patched, Interface
      <4> QED
        BY <4>1 DEF RoutesInv, PatchedOK
    <3>4. CASE ~ ReadIngress(r) /\ ~ Answer(r)
      <4>1. CASE CreateSecrets(r)
        <5>1. answer' = [answer EXCEPT ![r] = "error"] => answer'[r] = "error"
          BY DEF RequestType
        <5> QED
          BY <2>4, <3>1, <4>1, <5>1, GoMoves, ReplyMoves, PlaceNames DEF CreateSecrets
      <4>2. CASE PatchApiServer(r)
        BY <2>4, <3>1, <4>2, GoMoves, ReplyMoves, PlaceNames DEF PatchApiServer
      <4>3. CASE GetRoute(r) \/ DeleteBackup(r) \/ CreateBackup(r) \/ UpdateRoute(r)
                 \/ UpdateOAuth(r) \/ UpdateDeployment(r)
        BY <3>1, <4>3, GoMoves, PlaceNames
           DEF GetRoute, DeleteBackup, CreateBackup, UpdateRoute, UpdateOAuth, UpdateDeployment
      <4> QED
        BY <1>7, <3>4, <4>1, <4>2, <4>3 DEF ChangeDomainImpl
    <3> QED
      BY <3>2, <3>3, <3>4
  <2> QED
    BY <2>1, <2>3, <2>4
<1> QED
  BY <1>6, <1>7

LEMMA RoutesLocal ==
  ASSUME TypeOK, RoutesInv, Local
  PROVE  RoutesInv'
<1>1. UNCHANGED <<rpc, answer, want, routes, stale>>
  BY LocalKeeps DEF domainVars, cluster, requests, causes
<1>2. overlapped' = overlapped
  BY LocalMoves DEF Submit, Open
<1>3. CASE Submit \/ Open
  BY <1>1, <1>2, <1>3 DEF Submit, Open, RoutesInv, PatchedOK, Waiting
<1>4. CASE ~ Submit /\ ~ Open
  <2>1. UNCHANGED attempts
    BY <1>4, LocalMoves
  <2>2. page' \in {"answer"} \union Waiting => page \in {"answer"} \union Waiting
    BY <1>4, LocalMoves DEF Early, Waiting
  <2> QED
    BY <1>1, <1>2, <2>1, <2>2 DEF RoutesInv, PatchedOK
<1> QED
  BY <1>3, <1>4

LEMMA RoutesPost ==
  ASSUME TypeOK, CallInv, RoutesInv, Post
  PROVE  RoutesInv'
<1>1. /\ attempts \in Requests /\ answer[attempts] = "none"
      /\ UNCHANGED <<cluster, answer, attempts>>
      /\ \/ page' = "failed" /\ UNCHANGED <<rpc, want, overlapped>>
         \/ /\ page' = "answer" /\ rpc'[attempts] = "read"
            /\ \A q \in Requests \ {attempts} : rpc'[q] = rpc[q] /\ want'[q] = want[q]
            /\ overlapped => overlapped'
  BY PostMoves
<1>2. routes' = routes
  BY <1>1 DEF cluster
<1>3. "read" \notin Patched
  BY DEF Patched, Interface
<1>4. ASSUME NEW q \in Requests, ~ overlapped' PROVE PatchedOK(q)'
  BY <1>1, <1>2, <1>3, <1>4 DEF RoutesInv, PatchedOK
<1> QED
  BY <1>1, <1>4 DEF RoutesInv, Waiting

LEMMA RoutesCluster ==
  ASSUME TypeOK, RoutesInv, Reconcile \/ Restart, UNCHANGED pageVars
  PROVE  RoutesInv'
<1> RequestType
  BY TypeParts, DomainParts
<1>1. UNCHANGED <<page, attempts, overlapped, routes, want, answer, stale>>
  BY DEF pageVars, Reconcile, Restart, requests, causes
<1>2. \A q \in Requests : rpc'[q] \in {rpc[q], "killed"}
  BY KilledType DEF Reconcile, Restart, requests
<1>3. "killed" \notin Patched
  BY DEF Patched, Interface
<1> QED
  BY <1>1, <1>2, <1>3 DEF RoutesInv, PatchedOK

LEMMA RoutesInvariant == Spec => []RoutesInv
<1>1. Init => RoutesInv
  BY DEF Init, DomainInit, RoutesInv, PatchedOK, Patched, Interface, Waiting
<1>2. TypeOK /\ CallInv /\ AloneInv /\ RoutesInv /\ [Next]_vars => RoutesInv'
  <2> SUFFICES ASSUME TypeOK, CallInv, AloneInv, RoutesInv, [Next]_vars PROVE RoutesInv'
    OBVIOUS
  <2>1. CASE UNCHANGED vars
    BY <2>1 DEF vars, domainVars, cluster, requests, causes, RoutesInv, PatchedOK
  <2>2. CASE DeleteRoute
    BY <2>2 DEF DeleteRoute, Step, requests, causes, RoutesInv, PatchedOK, Waiting
  <2> QED
    BY <2>1, <2>2, NextSteps, RoutesLocal, RoutesPost, RoutesCluster, RoutesBackend
<1> QED
  BY <1>1, <1>2, TypeCorrect, CallInvariant, AloneInvariant, PTL DEF Spec

-----------------------------------------------------------------------------
(* The certificate of the API server: that of the routes, once a request     *)
(* patched both; and a request that was refused something is known by half.  *)

HalfInv ==
  ~ overlapped /\ ~ half =>
    /\ \A r \in Requests : Running(r) => answer[r] = "none"
    /\ (\A r \in Requests : rpc[r] # "apiserver") => certificate = routes

LEMMA HalfBackend ==
  ASSUME TypeOK, CallInv, AloneInv, RoutesInv, HalfInv, NEW r \in Requests, ChangeDomainImpl(r),
         UNCHANGED pageVars
  PROVE  HalfInv'
<1> RequestType /\ ClusterType
  BY TypeParts, DomainParts
<1>1. Goes(r)
  BY Going
<1> SUFFICES ASSUME ~ overlapped, ~ half' PROVE HalfInv'
  BY DEF HalfInv, pageVars
<1>2. /\ Running(r) /\ want' = want
      /\ \A q \in Requests : q # r => /\ rpc[q] \notin Places /\ rpc'[q] = rpc[q]
                                     /\ answer'[q] = answer[q]
  BY <1>1, AloneStep
<1> SUFFICES /\ Running(r)' => answer'[r] = "none"
             /\ rpc'[r] # "apiserver" => certificate' = routes'
  BY <1>2 DEF HalfInv, Running
<1>3. CASE PatchIngress(r)
  <2>1. rpc'[r] # "done" /\ answer'[r] # "error" /\ rpc[r] = "ingress"
    BY <1>3 DEF PatchIngress
  <2>2. answer[r] = "none"
    BY <2>1 DEF CallInv, RequestOK
  <2>3. Go(r, "apiserver")
    BY <1>3, <2>1, <2>2, ReplyMoves, PlaceNames DEF PatchIngress
  <2> QED
    BY <2>2, <2>3, GoMoves, PlaceNames DEF Moved
<1>4. CASE PatchApiServer(r)
  <2>1. rpc'[r] = "route" /\ answer'[r] # "error" /\ rpc[r] = "apiserver"
    BY <1>4 DEF PatchApiServer
  <2>2. Go(r, "route") /\ certificate' = want[r] /\ routes' = routes
    <3>1. ~ Reply(r, "error", "route") /\ ~ Reply(r, "error", "done")
      BY <2>1, ReplyMoves, PlaceNames, KilledType
    <3> QED
      BY <1>4, <3>1 DEF PatchApiServer
  <2>3. answer'[r] = answer[r]
    BY <2>2, GoMoves, PlaceNames
  <2>4. answer[r] \in {"none", "ok", "error"}
    BY DEF RequestType
  <2>5. answer[r] # "ok"
    BY <2>1 DEF CallInv, RequestOK
  <2>6. answer[r] = "none"
    BY <2>1, <2>3, <2>4, <2>5
  <2>7. routes = want[r]
    BY <2>1, <2>6 DEF RoutesInv, PatchedOK, Patched
  <2> QED
    BY <2>2, <2>3, <2>6, <2>7
<1>5. CASE ~ PatchIngress(r) /\ ~ PatchApiServer(r)
  <2>1. half' = half /\ UNCHANGED <<certificate, routes>>
    BY <1>5 DEF ChangeDomainImpl, ReadIngress, CreateSecrets, GetRoute, DeleteBackup,
                CreateBackup, UpdateRoute, UpdateOAuth, UpdateDeployment, Answer, cluster, causes
  <2>2. rpc[r] # "apiserver"
    BY <1>5 DEF ChangeDomainImpl, ReadIngress, CreateSecrets, GetRoute, DeleteBackup,
                CreateBackup, UpdateRoute, UpdateOAuth, UpdateDeployment, Answer
  <2>3. certificate = routes /\ answer[r] = "none"
    BY <1>2, <2>1, <2>2, PlaceNames DEF HalfInv
  <2>4. Running(r)' => answer'[r] = "none"
    <3>1. CASE CreateSecrets(r)
      <4>1. rpc' = Killed => ~ Running(r)'
        BY <1>2, KilledType, PlaceNames DEF Running
      <4> QED
        BY <2>3, <3>1, <4>1, GoMoves, ReplyMoves, PlaceNames DEF CreateSecrets, Moved, Running
    <3>2. CASE ReadIngress(r) \/ Answer(r)
      <4>1. Reply(r, "ok", "done") \/ Reply(r, "error", "done") => ~ Running(r)'
        BY <2>3, ReplyMoves, PlaceNames DEF Moved, Running
      <4> QED
        BY <2>3, <3>2, <4>1, GoMoves, PlaceNames DEF ReadIngress, Answer
    <3>3. CASE GetRoute(r) \/ DeleteBackup(r) \/ CreateBackup(r) \/ UpdateRoute(r)
               \/ UpdateOAuth(r) \/ UpdateDeployment(r)
      BY <2>3, <3>3, GoMoves, PlaceNames
         DEF GetRoute, DeleteBackup, CreateBackup, UpdateRoute, UpdateOAuth, UpdateDeployment
    <3> QED
      BY <1>5, <3>1, <3>2, <3>3 DEF ChangeDomainImpl
  <2> QED
    BY <2>1, <2>3, <2>4
<1> QED
  BY <1>3, <1>4, <1>5

LEMMA HalfPost ==
  ASSUME TypeOK, CallInv, HalfInv, Post
  PROVE  HalfInv'
<1>1. /\ attempts \in Requests /\ answer[attempts] = "none"
      /\ UNCHANGED <<cluster, answer, causes>>
      /\ \/ UNCHANGED <<rpc, overlapped>>
         \/ /\ rpc'[attempts] = "read"
            /\ \A q \in Requests \ {attempts} : rpc'[q] = rpc[q]
            /\ overlapped' = (overlapped \/ \E r \in Requests : Running(r))
  BY PostMoves
<1>2. UNCHANGED <<certificate, routes, half>>
  BY <1>1 DEF cluster, causes
<1>3. CASE UNCHANGED <<rpc, overlapped>>
  BY <1>1, <1>2, <1>3 DEF HalfInv, Running
<1>4. CASE /\ rpc'[attempts] = "read" /\ \A q \in Requests \ {attempts} : rpc'[q] = rpc[q]
           /\ overlapped' = (overlapped \/ \E r \in Requests : Running(r))
  <2> SUFFICES ASSUME ~ overlapped', ~ half PROVE HalfInv'
    BY <1>2 DEF HalfInv
  <2>1. ~ overlapped /\ \A q \in Requests : ~ Running(q)
    BY <1>4
  <2>2. certificate = routes
    BY <2>1, PlaceNames DEF HalfInv, Running
  <2>3. ASSUME NEW q \in Requests, Running(q)' PROVE answer'[q] = "none"
    BY <1>1, <1>4, <2>1, <2>3 DEF Running
  <2> QED
    BY <1>2, <2>2, <2>3 DEF HalfInv
<1> QED
  BY <1>1, <1>3, <1>4

LEMMA HalfCluster ==
  ASSUME TypeOK, HalfInv, Reconcile \/ Restart, UNCHANGED pageVars
  PROVE  HalfInv'
<1> RequestType
  BY TypeParts, DomainParts
<1>1. UNCHANGED <<overlapped, routes, certificate, answer>>
  BY DEF pageVars, Reconcile, Restart, requests
<1>2. CASE Reconcile
  BY <1>1, <1>2 DEF Reconcile, requests, causes, HalfInv, Running
<1>3. CASE Restart
  <2>1. \A q \in Requests : ~ Running(q)'
    BY <1>3, KilledType, PlaceNames DEF Restart, Running
  <2>2. ~ half' => ~ half /\ \A q \in Requests : rpc[q] # "apiserver"
    BY <1>3 DEF Restart
  <2> QED
    BY <1>1, <2>1, <2>2 DEF HalfInv
<1> QED
  BY <1>2, <1>3

LEMMA HalfInvariant == Spec => []HalfInv
<1>1. Init => HalfInv
  BY PlaceNames DEF Init, DomainInit, HalfInv, Running
<1>2. TypeOK /\ CallInv /\ AloneInv /\ RoutesInv /\ HalfInv /\ [Next]_vars => HalfInv'
  <2> SUFFICES ASSUME TypeOK, CallInv, AloneInv, RoutesInv, HalfInv, [Next]_vars PROVE HalfInv'
    OBVIOUS
  <2>1. CASE UNCHANGED vars
    BY <2>1 DEF vars, domainVars, cluster, requests, causes, HalfInv, Running
  <2>2. CASE DeleteRoute
    BY <2>2 DEF DeleteRoute, Step, requests, causes, HalfInv, Running
  <2>3. CASE Local
    <3>1. UNCHANGED domainVars /\ overlapped' = overlapped
      BY <2>3, LocalKeeps, LocalMoves DEF Submit, Open
    <3> QED
      BY <3>1 DEF domainVars, cluster, requests, causes, HalfInv, Running
  <2> QED
    BY <2>1, <2>2, <2>3, NextSteps, HalfPost, HalfCluster, HalfBackend
<1> QED
  BY <1>1, <1>2, TypeCorrect, CallInvariant, AloneInvariant, RoutesInvariant, PTL DEF Spec

-----------------------------------------------------------------------------
(* The route of the user interface and its login: those of the domain of the *)
(* routes, once a request ended all of updateZtpfwUI.                        *)

UpdatedOK(r) ==
  /\ rpc[r] \in {"oauth", "deployment", "answer"} => route = want[r]
  /\ rpc[r] \in {"deployment", "answer"} => want[r] \in redirects

InterfaceInv ==
  ~ overlapped /\ ~ ignored =>
    /\ \A r \in Requests : UpdatedOK(r)
    /\ ~ half /\ ~ cut /\ (\A r \in Requests : rpc[r] \notin Patched) =>
         route = routes /\ routes \in redirects

LEMMA InterfaceBackend ==
  ASSUME TypeOK, CallInv, AloneInv, RoutesInv, HalfInv, InterfaceInv, NEW r \in Requests,
         ChangeDomainImpl(r), UNCHANGED pageVars
  PROVE  InterfaceInv'
<1> RequestType /\ ClusterType
  BY TypeParts, DomainParts
<1>1. Goes(r)
  BY Going
<1> SUFFICES ASSUME ~ overlapped, ~ ignored' PROVE InterfaceInv'
  BY DEF InterfaceInv, pageVars
<1>2. /\ Running(r) /\ want' = want
      /\ \A q \in Requests : q # r => rpc[q] \notin Places /\ rpc'[q] = rpc[q]
  BY <1>1, AloneStep
<1>3. ~ ignored
  BY DEF ChangeDomainImpl, ReadIngress, CreateSecrets, PatchIngress, PatchApiServer, GetRoute,
         DeleteBackup, CreateBackup, UpdateRoute, UpdateOAuth, UpdateDeployment, Answer, causes
<1>4. ASSUME NEW q \in Requests, q # r PROVE UpdatedOK(q)' /\ rpc[q] \notin Patched
  BY <1>2, <1>4, PlaceNames DEF UpdatedOK, Patched, Interface
<1> SUFFICES /\ UpdatedOK(r)'
             /\ ~ half' /\ ~ cut' /\ rpc'[r] \notin Patched => route' = routes' /\ routes' \in redirects'
  BY <1>4 DEF InterfaceInv
<1>5. UpdatedOK(r)
  BY <1>3 DEF InterfaceInv
<1>6. CASE ReadIngress(r) \/ CreateSecrets(r)
  <2>1. rpc[r] \in {"read", "secrets"} /\ rpc'[r] \in {"secrets", "ingress", "done", "killed"}
    BY <1>1, <1>6, PlaceNames DEF ReadIngress, CreateSecrets, Goes, After
  <2>2. UNCHANGED <<route, routes, redirects, half, cut>>
    BY <1>6 DEF ReadIngress, CreateSecrets, cluster, causes
  <2>3. \A q \in Requests : rpc[q] \notin Patched
    BY <1>4, <2>1 DEF Patched, Interface
  <2> QED
    BY <1>3, <2>1, <2>2, <2>3 DEF InterfaceInv, UpdatedOK
<1>7. CASE PatchIngress(r)
  <2>1. rpc[r] = "ingress" /\ rpc'[r] \in {"apiserver", "done", "killed"}
    BY <1>1, <1>7, PlaceNames DEF PatchIngress, Goes, After
  <2>2. answer[r] = "none"
    BY <2>1 DEF CallInv, RequestOK
  <2>3. half' \/ rpc'[r] = "apiserver"
    BY <1>7, <2>2, GoMoves, ReplyMoves, PlaceNames DEF PatchIngress, Moved
  <2> QED
    BY <2>1, <2>3 DEF UpdatedOK, Patched
<1>8. CASE PatchApiServer(r)
  <2>1. rpc'[r] \in {"route", "done", "killed"} /\ (half' \/ rpc'[r] = "route")
    BY <1>1, <1>8, PlaceNames DEF PatchApiServer, Goes, After
  <2> QED
    BY <2>1 DEF UpdatedOK, Patched, Interface
<1>9. CASE GetRoute(r)
  <2>1. rpc'[r] = "backup"
    BY <1>3, <1>9, GoMoves, PlaceNames DEF GetRoute, Moved
  <2> QED
    BY <2>1 DEF UpdatedOK, Patched, Interface
<1>10. CASE DeleteBackup(r) \/ CreateBackup(r)
  <2>1. rpc'[r] \in {"copy", "host"}
    BY <1>10, GoMoves, PlaceNames DEF DeleteBackup, CreateBackup, Moved
  <2> QED
    BY <2>1 DEF UpdatedOK, Patched, Interface
<1>11. CASE UpdateRoute(r)
  <2>1. rpc'[r] = "oauth" /\ route' = want[r]
    BY <1>11, GoMoves, PlaceNames DEF UpdateRoute, Moved
  <2> QED
    BY <1>2, <2>1 DEF UpdatedOK, Patched, Interface
<1>12. CASE UpdateOAuth(r)
  <2>1. rpc[r] = "oauth" /\ rpc'[r] = "deployment" /\ route' = route /\ want[r] \in redirects'
    BY <1>12, GoMoves, PlaceNames DEF UpdateOAuth, Moved
  <2> QED
    BY <1>2, <1>5, <2>1 DEF UpdatedOK, Patched, Interface
<1>13. CASE UpdateDeployment(r)
  <2>1. rpc[r] = "deployment" /\ rpc'[r] = "answer" /\ UNCHANGED <<route, redirects>>
    BY <1>13, GoMoves, PlaceNames DEF UpdateDeployment, Moved
  <2> QED
    BY <1>2, <1>5, <2>1 DEF UpdatedOK, Patched, Interface
<1>14. CASE Answer(r)
  <2>1. rpc[r] = "answer" /\ UNCHANGED <<route, routes, redirects, half>>
    BY <1>14 DEF Answer, cluster, causes
  <2>2. rpc'[r] \in {"done", "killed"}
    BY <1>1, <2>1, PlaceNames DEF Goes, After
  <2>3. ~ half => answer[r] = "none"
    BY <1>2 DEF HalfInv
  <2>4. ~ half => routes = want[r]
    BY <2>1, <2>3 DEF RoutesInv, PatchedOK, Patched, Interface
  <2>5. route = want[r] /\ want[r] \in redirects
    BY <1>5, <2>1 DEF UpdatedOK
  <2> QED
    BY <2>1, <2>2, <2>4, <2>5 DEF UpdatedOK
<1> QED
  BY <1>6, <1>7, <1>8, <1>9, <1>10, <1>11, <1>12, <1>13, <1>14 DEF ChangeDomainImpl

LEMMA InterfacePost ==
  ASSUME TypeOK, CallInv, InterfaceInv, Post
  PROVE  InterfaceInv'
<1>1. /\ attempts \in Requests /\ UNCHANGED <<cluster, causes>>
      /\ rpc[attempts] = "idle"
      /\ \/ UNCHANGED <<rpc, want, overlapped>>
         \/ /\ rpc'[attempts] = "read"
            /\ \A q \in Requests \ {attempts} : rpc'[q] = rpc[q] /\ want'[q] = want[q]
            /\ overlapped => overlapped'
  BY PostMoves
<1>2. UNCHANGED <<route, routes, redirects, half, cut, ignored>>
  BY <1>1 DEF cluster, causes
<1>3. CASE UNCHANGED <<rpc, want, overlapped>>
  BY <1>2, <1>3 DEF InterfaceInv, UpdatedOK
<1>4. CASE /\ rpc'[attempts] = "read"
           /\ \A q \in Requests \ {attempts} : rpc'[q] = rpc[q] /\ want'[q] = want[q]
           /\ overlapped => overlapped'
  <2>1. ASSUME NEW q \in Requests PROVE UpdatedOK(q) => UpdatedOK(q)'
    BY <1>2, <1>4 DEF UpdatedOK
  <2>2. ASSUME NEW q \in Requests PROVE rpc'[q] \notin Patched => rpc[q] \notin Patched
    BY <1>1, <1>4 DEF Patched, Interface
  <2> QED
    BY <1>2, <1>4, <2>1, <2>2 DEF InterfaceInv
<1> QED
  BY <1>1, <1>3, <1>4

LEMMA InterfaceCluster ==
  ASSUME TypeOK, RoutesInv, HalfInv, InterfaceInv, Reconcile \/ Restart, UNCHANGED pageVars
  PROVE  InterfaceInv'
<1> RequestType
  BY TypeParts, DomainParts
<1>1. UNCHANGED <<overlapped, route, routes, redirects, ignored, want>>
  BY DEF pageVars, Reconcile, Restart, requests, causes
<1>2. CASE Reconcile
  BY <1>1, <1>2 DEF Reconcile, requests, causes, InterfaceInv, UpdatedOK
<1>3. CASE Restart
  <2> SUFFICES ASSUME ~ overlapped, ~ ignored PROVE InterfaceInv'
    BY <1>1 DEF InterfaceInv
  <2>1. \A q \in Requests : UpdatedOK(q)'
    BY <1>3, KilledType, PlaceNames DEF Restart, Running, UpdatedOK
  <2>2. ASSUME ~ half', ~ cut' PROVE route = routes /\ routes \in redirects
    <3>1. /\ ~ half /\ ~ cut
          /\ \A q \in Requests : rpc[q] # "apiserver" /\ rpc[q] \notin Interface \ {"answer"}
      BY <1>3, <2>2 DEF Restart
    <3>2. CASE \A q \in Requests : rpc[q] # "answer"
      <4>1. \A q \in Requests : rpc[q] \notin Patched
        BY <3>1, <3>2 DEF Patched
      <4> QED
        BY <3>1, <4>1 DEF InterfaceInv
    <3>3. ASSUME NEW q \in Requests, rpc[q] = "answer" PROVE route = routes /\ routes \in redirects
      <4>1. route = want[q] /\ want[q] \in redirects
        BY <3>3 DEF InterfaceInv, UpdatedOK
      <4>2. answer[q] = "none"
        BY <3>1, <3>3, PlaceNames DEF HalfInv, Running
      <4>3. routes = want[q]
        BY <3>3, <4>2 DEF RoutesInv, PatchedOK, Patched, Interface
      <4> QED
        BY <4>1, <4>3
    <3> QED
      BY <3>2, <3>3
  <2> QED
    BY <1>1, <2>1, <2>2 DEF InterfaceInv
<1> QED
  BY <1>2, <1>3

LEMMA InterfaceInvariant == Spec => []InterfaceInv
<1>1. Init => InterfaceInv
  BY DEF Init, DomainInit, InterfaceInv, UpdatedOK
<1>2. TypeOK /\ CallInv /\ AloneInv /\ RoutesInv /\ HalfInv /\ InterfaceInv /\ [Next]_vars
        => InterfaceInv'
  <2> SUFFICES ASSUME TypeOK, CallInv, AloneInv, RoutesInv, HalfInv, InterfaceInv, [Next]_vars
               PROVE  InterfaceInv'
    OBVIOUS
  <2>1. CASE UNCHANGED vars
    BY <2>1 DEF vars, domainVars, cluster, requests, causes, InterfaceInv, UpdatedOK
  <2>2. CASE DeleteRoute
    BY <2>2 DEF DeleteRoute, Step, requests, causes, InterfaceInv, UpdatedOK
  <2>3. CASE Local
    <3>1. UNCHANGED domainVars /\ overlapped' = overlapped
      BY <2>3, LocalKeeps, LocalMoves DEF Submit, Open
    <3> QED
      BY <3>1 DEF domainVars, cluster, requests, causes, InterfaceInv, UpdatedOK
  <2> QED
    BY <2>1, <2>2, <2>3, NextSteps, InterfacePost, InterfaceCluster, InterfaceBackend
<1> QED
  BY <1>1, <1>2, TypeCorrect, CallInvariant, AloneInvariant, RoutesInvariant, HalfInvariant, PTL
     DEF Spec

\* What the success of a page says of the services, the user, the pod and the domain, after any
\* number of attempts that failed or were cut anywhere (persist; changeDomainImpl).
THEOREM SuccessIsSaved == Spec => []SuccessMeansSaved
<1>1. ASSUME TypeOK, CallInv, AloneInv, ServiceInv, UserInv, PodInv, RoutesInv, HalfInv,
             InterfaceInv
      PROVE  SuccessMeansSaved
  <2> SUFFICES ASSUME page = "done"
               PROVE  /\ \A s \in Services : /\ service[s] = form.ip[s]
                                             /\ s \notin mixed => pool[s] = form.ip[s]
                      /\ form.user => idp = "present" /\ (~ unbound => admin)
                      /\ ~ overlapped /\ ~ early => pod = form.domain /\ deployment = form.domain
                      /\ ~ overlapped /\ ~ stale => routes = form.domain
                      /\ ~ overlapped /\ ~ stale /\ ~ half =>
                           /\ certificate = form.domain
                           /\ ~ ignored /\ ~ cut =>
                                route = form.domain /\ form.domain \in redirects
    BY DEF SuccessMeansSaved
  <2>1. ASSUME NEW s \in Services
        PROVE  service[s] = form.ip[s] /\ (s \notin mixed => pool[s] = form.ip[s])
    <3>1. form.ip[s] \in Addresses
      BY <1>1, FormType DEF TypeOK
    <3>2. SaveDone(s) /\ ~ Between(s)
      BY DEF SaveDone, Between, Later, Waiting
    <3> QED
      BY <1>1, <3>1, <3>2 DEF ServiceInv, ServiceOK
  <2>2. form.user => idp = "present" /\ (~ unbound => admin)
    BY <1>1 DEF UserInv, Later, Waiting
  <2>3. ~ overlapped /\ ~ early => pod = form.domain /\ deployment = form.domain
    BY <1>1 DEF PodInv
  <2>4. ~ overlapped /\ ~ stale => routes = form.domain
    BY <1>1 DEF CallInv, LastOK, RoutesInv, Waiting
  <2>5. ~ overlapped => \A r \in Requests : ~ Running(r)
    BY <1>1 DEF AloneInv, Waiting
  <2>6. ~ overlapped /\ ~ half => certificate = routes
    BY <1>1, <2>5, PlaceNames DEF HalfInv, Running
  <2>7. ~ overlapped => \A r \in Requests : rpc[r] \notin Patched
    BY <2>5 DEF Running, Places, Patched
  <2>8. ~ overlapped /\ ~ half /\ ~ ignored /\ ~ cut => route = routes /\ routes \in redirects
    BY <1>1, <2>7 DEF InterfaceInv
  <2> QED
    BY <2>1, <2>2, <2>3, <2>4, <2>6, <2>8
<1> QED
  BY <1>1, TypeCorrect, CallInvariant, AloneInvariant, ServiceInvariant, UserInvariant,
     PodInvariant, RoutesInvariant, HalfInvariant, InterfaceInvariant, PTL

-----------------------------------------------------------------------------
(* An attempt is finite, and its page has something to wait for.            *)

\* The calls that a request can still make, its answer included.
CallsLeft(place) ==
  CASE place = "read" -> 11
    [] place = "secrets" -> 10
    [] place = "ingress" -> 9
    [] place = "apiserver" -> 8
    [] place = "route" -> 7
    [] place = "backup" -> 6
    [] place = "copy" -> 5
    [] place = "host" -> 4
    [] place = "oauth" -> 3
    [] place = "deployment" -> 2
    [] place = "answer" -> 1
    [] OTHER -> 0

\* The steps of the page that are left, where the three of a service come twice.
StepsLeft(where, which) ==
  CASE where = "idp" -> 16
    [] where = "secret" -> 15
    [] where = "provider" -> 14
    [] where = "bind" -> 13
    [] where = "authentication" -> 12
    [] where = "get" -> IF which = "ingress" THEN 11 ELSE 8
    [] where = "pool" -> IF which = "ingress" THEN 10 ELSE 7
    [] where = "service" -> IF which = "ingress" THEN 9 ELSE 6
    [] where = "operators" -> 5
    [] where = "post" -> 4
    [] where = "answer" -> 3
    [] where = "pod" -> 2
    [] where = "cleanup" -> 1
    [] OTHER -> 0

\* Every step of a page that saves, and every step of a request, brings them closer to the end.
PageAdvances ==
  Saving /\ <<page, saving>>' # <<page, saving>> => StepsLeft(page, saving)' < StepsLeft(page, saving)
RequestsAdvance ==
  \A r \in Requests : Running(r) /\ rpc'[r] # rpc[r] => CallsLeft(rpc'[r]) < CallsLeft(rpc[r])

\* The request that a page waits for is running, or was answered, or was killed.
AnswerComes ==
  page = "answer" =>
    /\ attempts \in Requests
    /\ Running(attempts) \/ answer[attempts] # "none" \/ rpc[attempts] = "killed"

LEMMA DoneIsAnswered ==
  ASSUME RequestType, NEW r \in Requests, ChangeDomainImpl(r), rpc'[r] = "done"
  PROVE  answer'[r] # "none"
<1>1. Running(r)
  BY Going DEF Goes
<1>2. \A place \in Places : ~ Go(r, place)
  BY GoMoves, PlaceNames DEF Moved
<1>3. rpc' # Killed
  BY <1>1, KilledType
<1>4. ASSUME NEW what \in {"ok", "error"}, NEW place \in Places \union {"done"},
             Reply(r, what, place)
      PROVE  answer'[r] # "none"
  BY <1>3, <1>4, ReplyMoves
<1>5. CASE ReadIngress(r)
  <2>1. \/ Reply(r, "ok", "done") \/ Reply(r, "error", "done") \/ Go(r, "secrets")
    BY <1>5 DEF ReadIngress
  <2> QED
    BY <1>2, <1>4, <2>1, PlaceNames
<1>6. CASE CreateSecrets(r) \/ PatchIngress(r) \/ PatchApiServer(r)
  BY <1>2, <1>3, <1>4, <1>6, PlaceNames DEF CreateSecrets, PatchIngress, PatchApiServer
<1>7. CASE \/ GetRoute(r) \/ DeleteBackup(r) \/ CreateBackup(r) \/ UpdateRoute(r)
           \/ UpdateOAuth(r) \/ UpdateDeployment(r)
  BY <1>2, <1>7, PlaceNames DEF GetRoute, DeleteBackup, CreateBackup, UpdateRoute, UpdateOAuth,
                                UpdateDeployment
<1>8. CASE Answer(r)
  BY <1>4, <1>8 DEF Answer
<1> QED
  BY <1>5, <1>6, <1>7, <1>8 DEF ChangeDomainImpl

\* A request that ended by itself was answered, and that of a page that waits was made.
AnswerInv ==
  /\ \A r \in Requests : rpc[r] = "done" => answer[r] # "none"
  /\ page = "answer" => rpc[attempts] # "idle"

LEMMA AnswerInvariant == Spec => []AnswerInv
<1>1. Init => AnswerInv
  BY DEF Init, DomainInit, AnswerInv
<1>2. TypeOK /\ CallInv /\ AnswerInv /\ [Next]_vars => AnswerInv'
  <2> SUFFICES ASSUME TypeOK, CallInv, AnswerInv, [Next]_vars PROVE AnswerInv'
    OBVIOUS
  <2> RequestType
    BY TypeParts, DomainParts
  <2>1. CASE UNCHANGED vars
    BY <2>1 DEF vars, domainVars, requests, AnswerInv
  <2>2. CASE Local
    <3>1. UNCHANGED <<rpc, answer>>
      BY <2>2, LocalKeeps DEF domainVars, requests
    <3>2. page' # "answer"
      BY <2>2, LocalMoves DEF Early, Submit, Open
    <3> QED
      BY <3>1, <3>2 DEF AnswerInv
  <2>3. CASE Post
    BY <2>3, PostMoves DEF AnswerInv
  <2>4. CASE DeleteRoute
    BY <2>4 DEF DeleteRoute, Step, requests, AnswerInv
  <2>5. CASE (Reconcile \/ Restart) /\ UNCHANGED pageVars
    <3>1. /\ UNCHANGED <<answer, page, attempts>>
          /\ \A r \in Requests : rpc'[r] \in {rpc[r], "killed"}
      BY <2>5, KilledType DEF Reconcile, Restart, requests, pageVars
    <3>2. page = "answer" => attempts \in Requests
      BY AttemptType DEF Saving
    <3> QED
      BY <3>1, <3>2 DEF AnswerInv
  <2>6. ASSUME NEW r \in Requests, ChangeDomainImpl(r), UNCHANGED pageVars
        PROVE  AnswerInv'
    <3>1. Goes(r) /\ (rpc'[r] = "done" => answer'[r] # "none")
      BY <2>6, Going, DoneIsAnswered
    <3>2. page = "answer" => attempts \in Requests
      BY AttemptType DEF Saving
    <3>3. rpc'[r] # "idle"
      BY <3>1, PlaceNames DEF Goes, After, Running
    <3>4. UNCHANGED <<page, attempts>>
      BY <2>6 DEF pageVars
    <3> QED
      BY <3>1, <3>2, <3>3, <3>4 DEF AnswerInv, Goes
  <2> QED
    BY <2>1, <2>2, <2>3, <2>4, <2>5, <2>6, NextSteps
<1> QED
  BY <1>1, <1>2, TypeCorrect, CallInvariant, PTL DEF Spec

\* A page never waits for an answer that nobody will give: its request is running, or was
\* answered, or its process ended, which the page sees (persistDomain; changeDomainImpl).
THEOREM AnAnswerComes == Spec => []AnswerComes
<1>1. TypeOK /\ AnswerInv => AnswerComes
  <2> SUFFICES ASSUME TypeOK, AnswerInv, page = "answer"
               PROVE  /\ attempts \in Requests
                      /\ Running(attempts) \/ answer[attempts] # "none" \/ rpc[attempts] = "killed"
    BY DEF AnswerComes
  <2>1. attempts \in Requests
    BY AttemptType DEF Saving
  <2>2. rpc[attempts] \in Places \union {"done", "killed"}
    BY <2>1, TypeParts, DomainParts DEF RequestType, AnswerInv
  <2> QED
    BY <2>1, <2>2 DEF AnswerInv, Running
<1> QED
  BY <1>1, TypeCorrect, AnswerInvariant, PTL

LEMMA RequestAdvances ==
  ASSUME RequestType, NEW r \in Requests, ChangeDomainImpl(r)
  PROVE  RequestsAdvance
<1>1. Goes(r)
  BY Going
<1>2. CallsLeft("killed") = 0 /\ \A place \in Places : CallsLeft(place) \in 1 .. 11
  BY PlaceNames DEF CallsLeft
<1>3. rpc[r] \in Places /\ rpc'[r] \in {"killed"} \union After(rpc[r])
  BY <1>1 DEF Goes, Running
<1>4. CallsLeft(rpc'[r]) < CallsLeft(rpc[r])
  BY <1>3, PlaceNames DEF After, CallsLeft
<1>5. \A q \in Requests \ {r} :
        Running(q) /\ rpc'[q] # rpc[q] => CallsLeft(rpc'[q]) < CallsLeft(rpc[q])
  BY <1>1, <1>2 DEF Goes, Running
<1> QED
  BY <1>4, <1>5 DEF RequestsAdvance

\* The process that ends takes its requests with it.
LEMMA ClusterAdvances ==
  ASSUME RequestType, Reconcile \/ Restart
  PROVE  RequestsAdvance
<1>1. CallsLeft("killed") = 0 /\ \A place \in Places : CallsLeft(place) \in 1 .. 11
  BY PlaceNames DEF CallsLeft
<1>2. \A q \in Requests : rpc'[q] = rpc[q] \/ (Running(q) /\ rpc'[q] = "killed")
  BY KilledType DEF Reconcile, Restart, requests
<1> QED
  BY <1>1, <1>2 DEF RequestsAdvance, Running

LEMMA LocalAdvances ==
  ASSUME TypeOK, Local
  PROVE  PageAdvances
<1> SUFFICES ASSUME Saving PROVE StepsLeft(page, saving)' < StepsLeft(page, saving)
  BY DEF PageAdvances
<1>1. page \in SavingPages /\ saving \in {"ingress", "api"}
  BY ServiceNames DEF SavingPages, Saving, TypeOK, Pages
<1>2. StepsLeft(page, saving) \in 1 .. 16
  BY <1>1 DEF SavingPages, Pages, StepsLeft
<1>3. CASE page' \in {"failed", "stuck", "form"}
  BY <1>2, <1>3 DEF StepsLeft
<1>4. CASE Submit \/ Open
  BY <1>3, <1>4 DEF Submit, Open, Saving
<1>5. CASE LoseAnswer
  BY <1>3, <1>5 DEF LoseAnswer, Failed, Step
<1>6. CASE GetOAuth
  BY <1>3, <1>6 DEF GetOAuth, Ok, Failed, Step, StepsLeft
<1>7. CASE CreateSecret
  BY <1>3, <1>7 DEF CreateSecret, Ok, Failed, Escaped, Step, StepsLeft
<1>8. CASE PatchIDP
  BY <1>3, <1>8 DEF PatchIDP, Ok, Failed, Step, StepsLeft
<1>9. CASE BindClusterAdminRole
  BY <1>3, <1>9 DEF BindClusterAdminRole, Ok, Escaped, Step, StepsLeft
<1>10. CASE WaitAuthentication
  BY <1>3, <1>10 DEF WaitAuthentication, Ok, Failed, Step, StepsLeft
<1>11. CASE GetService
  BY <1>1, <1>3, <1>11 DEF GetService, Saved, SaveNext, Ok, Step, StepsLeft
<1>12. CASE SavePool
  BY <1>1, <1>3, <1>12 DEF SavePool, Ok, Failed, Step, StepsLeft
<1>13. CASE SaveService
  BY <1>1, <1>3, <1>13 DEF SaveService, Saved, SaveNext, Ok, Failed, Step, StepsLeft
<1>14. CASE WaitOperators
  BY <1>3, <1>14 DEF WaitOperators, Ok, Failed, Step, StepsLeft
<1>15. CASE ReadAnswer
  BY <1>3, <1>15 DEF ReadAnswer, Failed, Step, StepsLeft
<1>16. CASE WaitPod
  BY <1>3, <1>16 DEF WaitPod, Ok, Failed, Step, StepsLeft
<1> QED
  BY <1>4, <1>5, <1>6, <1>7, <1>8, <1>9, <1>10, <1>11, <1>12, <1>13, <1>14, <1>15, <1>16 DEF Local

\* Attempts and requests are finite: each step of the page, but for the user that submits or
\* loads it, and each step of a request, whatever is refused, lost or killed, brings it closer
\* to its end (persist; changeDomainImpl).
THEOREM AttemptsAreFinite == Spec => [][PageAdvances /\ RequestsAdvance]_vars
<1>1. TypeOK /\ CallInv /\ [Next]_vars => [PageAdvances /\ RequestsAdvance]_vars
  <2> SUFFICES ASSUME TypeOK, CallInv, Next PROVE PageAdvances /\ RequestsAdvance
    OBVIOUS
  <2> RequestType
    BY TypeParts, DomainParts
  <2>1. CASE Local
    <3>1. UNCHANGED rpc
      BY <2>1, LocalKeeps DEF domainVars, requests
    <3> QED
      BY <2>1, <3>1, LocalAdvances DEF RequestsAdvance
  <2>2. CASE Post
    <3>1. \A q \in Requests : Running(q) => rpc'[q] = rpc[q]
      BY <2>2, PostMoves, PlaceNames DEF Running
    <3>2. page = "post" /\ page' \in {"failed", "answer"}
      BY <2>2, PostMoves
    <3> QED
      BY <3>1, <3>2 DEF RequestsAdvance, PageAdvances, StepsLeft
  <2>3. CASE DeleteRoute
    BY <2>3 DEF DeleteRoute, Step, requests, RequestsAdvance, PageAdvances, StepsLeft
  <2>4. CASE (Reconcile \/ Restart) /\ UNCHANGED pageVars
    BY <2>4, ClusterAdvances DEF PageAdvances, pageVars, services
  <2>5. ASSUME NEW r \in Requests, ChangeDomainImpl(r), UNCHANGED pageVars
        PROVE  PageAdvances /\ RequestsAdvance
    BY <2>5, RequestAdvances DEF PageAdvances, pageVars, services
  <2> QED
    BY <2>1, <2>2, <2>3, <2>4, <2>5, NextSteps
<1> QED
  BY <1>1, TypeCorrect, CallInvariant, PTL DEF Spec
=============================================================================
