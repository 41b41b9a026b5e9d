------------------------------ MODULE ChangeDomain ------------------------------
(***************************************************************************)
(* The endpoint of the backend of the user interface that changes the      *)
(* domain of the cluster (ui/backend/src/endpoints/changeDomain.ts): the   *)
(* objects that it patches one by one, and the requests that the pages of  *)
(* the module Persist send to it.                                          *)
(*                                                                         *)
(* Each call to the API server is a step.  A call may be refused, which is *)
(* an answer with another status, or rejected, when there is no answer and *)
(* nobody knows if it was done.  To answer the same request twice throws an*)
(* exception that nothing catches, and that ends the process.              *)
(***************************************************************************)
EXTENDS Naturals, FiniteSets

CONSTANTS
  Domains,   \* those that the cluster may have
  First,     \* the one that it has at the start
  Requests   \* bound: requests to the endpoint

ASSUME DomainAssumption == First \in Domains

None == "none"
ASSUME NoneAssumption == None \notin Domains

VARIABLES
  routes,      \* ingress: the domain of the routes in the specification
  current,     \* ingress: the domain of the routes in the status
  certificate, \* API server: the domain of its certificate
  route,       \* the host of the route of the user interface
  backup,      \* the host of the copy of that route, or None
  redirects,   \* OAuth client: the domains that it accepts
  deployment,  \* the domain in the environment of the deployment
  pod,         \* the domain in that of the pod that is running
  rpc,         \* where each request is
  want,        \* the domain that it asks for
  seen,        \* the host of the route that it copies
  answer,      \* what was answered
  ignored,     \* history: something of updateZtpfwUI wasn't done, and only the log says so
  cut,         \* history: the pod went away in the middle of updateZtpfwUI, and no request
               \* ended it later
  half,        \* history: one of the ingress and the API server wasn't patched, and no request
               \* patched both later
  stale        \* history: a request was answered from a status that was behind

cluster == <<routes, current, certificate, route, backup, redirects, deployment, pod>>
requests == <<rpc, want, seen, answer>>
causes == <<ignored, cut, half, stale>>
domainVars == <<cluster, requests, causes>>

\* updateZtpfwUI, and the answer.
Interface == {"route", "backup", "copy", "host", "oauth", "deployment", "answer"}
Places == {"read", "secrets", "ingress", "apiserver"} \union Interface
Served(d) == route = d \/ backup = d
Running(r) == rpc[r] \in Places

DomainInit ==
  /\ routes = First /\ current = First /\ certificate = First
  /\ route = First /\ backup = None /\ redirects = {First}
  /\ deployment = First /\ pod = First
  /\ rpc = [r \in Requests |-> "idle"]
  /\ want = [r \in Requests |-> First]
  /\ seen = [r \in Requests |-> First]
  /\ answer = [r \in Requests |-> "none"]
  /\ ignored = FALSE /\ cut = FALSE /\ half = FALSE /\ stale = FALSE

Call(r, d) ==
  /\ rpc' = [rpc EXCEPT ![r] = "read"]
  /\ want' = [want EXCEPT ![r] = d]

-----------------------------------------------------------------------------
(* The answers. *)

Go(r, place) == rpc' = [rpc EXCEPT ![r] = place] /\ UNCHANGED answer

Killed == [r \in Requests |-> IF Running(r) THEN "killed" ELSE rpc[r]]

\* changeDomain catches the exception of the second answer, and answers for the third time.
Throw == rpc' = Killed /\ UNCHANGED answer

Reply(r, what, place) ==
  IF answer[r] = "none"
  THEN answer' = [answer EXCEPT ![r] = what] /\ rpc' = [rpc EXCEPT ![r] = place]
  ELSE Throw

-----------------------------------------------------------------------------
(* changeDomainImpl *)

\* isDomainChanged.  The body of a refusal is taken for an ingress that says nothing.
ReadIngress(r) ==
  /\ rpc[r] = "read"
  /\ \/ \E old \in {current, None} :
          IF old = want[r]
          THEN Reply(r, "ok", "done") /\ stale' = (stale \/ routes # current)
          ELSE Go(r, "secrets") /\ UNCHANGED stale
     \/ Reply(r, "error", "done") /\ UNCHANGED stale
  /\ UNCHANGED <<cluster, want, seen, ignored, cut, half>>

\* Mutant of CreateSecrets: a failure isn't answered.
CreateSecretsSilently(r) ==
  /\ rpc[r] = "secrets"
  /\ Go(r, "ingress") \/ Go(r, "done")
  /\ UNCHANGED <<cluster, want, seen, causes>>

\* One for the API, and then three for the routes: these are all attempted, and each answers
\* when it fails.
CreateSecrets(r) ==
  /\ rpc[r] = "secrets"
  /\ \/ Go(r, "ingress")
     \/ Reply(r, "error", "done")
     \/ answer' = [answer EXCEPT ![r] = "error"] /\ rpc' = Killed
  /\ UNCHANGED <<cluster, want, seen, causes>>

\* A refusal is answered, and the rest goes on.
PatchIngress(r) ==
  /\ rpc[r] = "ingress"
  /\ \/ routes' = want[r] /\ Go(r, "apiserver")
     \/ UNCHANGED routes /\ Reply(r, "error", "apiserver")
     \/ routes' \in {routes, want[r]} /\ Reply(r, "error", "done")
  /\ half' = (half \/ rpc'[r] = "done" \/ answer'[r] = "error")
  /\ UNCHANGED <<current, certificate, route, backup, redirects, deployment, pod, want, seen,
                 ignored, cut, stale>>

PatchApiServer(r) ==
  /\ rpc[r] = "apiserver"
  /\ \/ certificate' = want[r] /\ Go(r, "route")
     \/ UNCHANGED certificate /\ Reply(r, "error", "route")
     \/ certificate' \in {certificate, want[r]} /\ Reply(r, "error", "done")
  /\ half' = (rpc'[r] # "route" \/ answer'[r] = "error")
  /\ UNCHANGED <<routes, current, route, backup, redirects, deployment, pod, want, seen,
                 ignored, cut, stale>>

-----------------------------------------------------------------------------
(* updateZtpfwUI: whatever fails is written to the log, and the rest goes on. *)

\* Mutant of GetRoute: the route is moved without a copy.
GetRouteOnly(r) ==
  /\ rpc[r] = "route"
  /\ \/ seen' = [seen EXCEPT ![r] = route] /\ Go(r, "host") /\ UNCHANGED ignored
     \/ Go(r, "oauth") /\ ignored' = TRUE /\ UNCHANGED seen
  /\ UNCHANGED <<cluster, want, cut, half, stale>>

GetRoute(r) ==
  /\ rpc[r] = "route"
  /\ \/ seen' = [seen EXCEPT ![r] = route] /\ Go(r, "backup") /\ UNCHANGED ignored
     \/ Go(r, "oauth") /\ ignored' = TRUE /\ UNCHANGED seen
  /\ UNCHANGED <<cluster, want, cut, half, stale>>

\* backupRoute
DeleteBackup(r) ==
  /\ rpc[r] = "backup"
  /\ backup' \in {backup, None}
  /\ Go(r, "copy")
  /\ UNCHANGED <<routes, current, certificate, route, redirects, deployment, pod, want, seen,
                 causes>>

CreateBackup(r) ==
  /\ rpc[r] = "copy"
  /\ \/ backup = None /\ backup' = seen[r] /\ UNCHANGED ignored
     \/ UNCHANGED backup /\ ignored' = TRUE
  /\ Go(r, "host")
  /\ UNCHANGED <<routes, current, certificate, route, redirects, deployment, pod, want, seen,
                 cut, half, stale>>

\* updateSingleRoute
UpdateRoute(r) ==
  /\ rpc[r] = "host"
  /\ route' \in {route, IF seen[r] = want[r] THEN route ELSE want[r]}
  /\ ignored' = (ignored \/ route' # want[r])
  /\ Go(r, "oauth")
  /\ UNCHANGED <<routes, current, certificate, backup, redirects, deployment, pod, want, seen,
                 cut, half, stale>>

\* If the OAuth client can't be read, it is replaced by one that accepts nothing else.
UpdateOAuth(r) ==
  /\ rpc[r] = "oauth"
  /\ redirects' \in {redirects, redirects \union {want[r]}, {want[r]}}
  /\ ignored' = (ignored \/ want[r] \notin redirects')
  /\ Go(r, "deployment")
  /\ UNCHANGED <<routes, current, certificate, route, backup, deployment, pod, want, seen,
                 cut, half, stale>>

UpdateDeployment(r) ==
  /\ rpc[r] = "deployment"
  /\ deployment' \in {deployment, want[r]}
  /\ cut' = FALSE
  /\ Go(r, "answer")
  /\ UNCHANGED <<routes, current, certificate, route, backup, redirects, pod, want, seen,
                 ignored, half, stale>>

Answer(r) ==
  /\ rpc[r] = "answer"
  /\ Reply(r, "ok", "done")
  /\ UNCHANGED <<cluster, want, seen, causes>>

ChangeDomainImpl(r) ==
  \/ ReadIngress(r) \/ CreateSecrets(r) \/ PatchIngress(r) \/ PatchApiServer(r)
  \/ GetRoute(r) \/ DeleteBackup(r) \/ CreateBackup(r) \/ UpdateRoute(r)
  \/ UpdateOAuth(r) \/ UpdateDeployment(r) \/ Answer(r)

-----------------------------------------------------------------------------
(* The cluster. *)

\* The operators move the routes of the console and of the login.
Reconcile ==
  /\ current' = routes
  /\ UNCHANGED <<routes, certificate, route, backup, redirects, deployment, pod, requests, causes>>

\* The pod goes away and another one comes.
Restart ==
  /\ pod' = deployment
  /\ rpc' = Killed
  /\ half' = (half \/ \E r \in Requests : rpc[r] = "apiserver")
  /\ cut' = (cut \/ \E r \in Requests : rpc[r] \in Interface \ {"answer"})
  /\ UNCHANGED <<routes, current, certificate, route, backup, redirects, deployment,
                 want, seen, answer, ignored, stale>>

DomainType ==
  /\ {routes, current, certificate, route, deployment, pod} \subseteq Domains
  /\ backup \in Domains \union {None}
  /\ redirects \subseteq Domains
  /\ rpc \in [Requests -> Places \union {"idle", "done", "killed"}]
  /\ want \in [Requests -> Domains]
  /\ seen \in [Requests -> Domains]
  /\ answer \in [Requests -> {"none", "ok", "error"}]
  /\ ignored \in BOOLEAN /\ cut \in BOOLEAN
  /\ half \in BOOLEAN /\ stale \in BOOLEAN
=============================================================================
