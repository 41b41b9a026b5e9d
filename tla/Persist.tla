-------------------------------- MODULE Persist --------------------------------
(***************************************************************************)
(* The page that saves what the user wrote (ui/frontend/src/components/    *)
(* PersistPage), step by step and with its retries, together with the      *)
(* endpoint that changes the domain (ChangeDomain), that goes on by itself *)
(* when the page that called it has gone.                                  *)
(*                                                                         *)
(* All the requests of the page go to the host that it was loaded from, so *)
(* they need a route for it, and the backend behind.  The waits for the    *)
(* operators of the cluster are bounded, and look at conditions that may   *)
(* be old: they may end well or badly at any time.                         *)
(***************************************************************************)
EXTENDS ChangeDomain

CONSTANTS
  Services,    \* those with an external address: of the ingress and of the API
  Addresses,   \* that the user may write for them
  Forms,       \* what the user may write: the domain, the addresses and, or not, a user
  MaxAttempts  \* bound: attempts to save

ASSUME PersistAssumption ==
  /\ MaxAttempts \in Nat /\ Requests = 1 .. MaxAttempts
  /\ Forms \subseteq [domain : Domains, ip : [Services -> Addresses], user : BOOLEAN]
  /\ Services \subseteq {"ingress", "api"} /\ "ingress" \in Services
  /\ {"absent", "unset", "foreign", None} \intersect Addresses = {}

VARIABLES
  page,       \* what the page is doing
  origin,     \* the domain of the host that it was loaded from
  form,       \* what the user wrote
  error,      \* if the page shows an error
  saving,     \* the service that is being saved
  creating,   \* if it wasn't found, and is to be created
  attempts,   \* attempts so far, and number of the last request
  idp,        \* OAuth: if it has the identity provider of the user
  admin,      \* if the user is bound to the role of the administrator
  service,    \* the address that each service asks for
  pool,       \* the addresses of the pool that it names
  unbound,    \* history: an attempt ended between the provider and the role
  mixed,      \* history: services whose pool was changed and they weren't
  early,      \* history: the page took the pod for the new one in the middle of a change
  late,       \* history: the page asked for a domain when the route had left its host, or was
              \* loaded from such a host in the middle of a request
  overlapped  \* history: two requests ran at the same time

identity == <<idp, admin, unbound>>
services == <<saving, creating, service, pool, mixed>>
vars == <<domainVars, page, origin, form, error, attempts, identity, services, early, late, overlapped>>

Init ==
  /\ DomainInit
  /\ page = "form" /\ origin = First /\ error = FALSE
  /\ form \in Forms
  /\ saving = "ingress" /\ creating = FALSE /\ attempts = 0
  /\ idp = "absent" /\ admin = FALSE
  /\ \/ service = [s \in Services |-> "absent"] /\ pool = [s \in Services |-> None]
     \/ service = [s \in Services |-> "unset"] /\ pool = [s \in Services |-> "foreign"]
     \/ service = form.ip /\ pool = form.ip
  /\ unbound = FALSE /\ mixed = {} /\ early = FALSE /\ late = FALSE /\ overlapped = FALSE

-----------------------------------------------------------------------------
(* The steps of the page. *)

Step(from, to) == page = from /\ page' = to /\ UNCHANGED <<origin, form, attempts, late, overlapped>>
Ok(from, to) == Step(from, to) /\ Served(origin) /\ UNCHANGED error
Failed(from) == Step(from, "failed") /\ error' = TRUE

\* A promise that is returned without await is rejected outside of its try: nothing is shown.
Escaped(from) == Step(from, "stuck") /\ UNCHANGED error

Aside == UNCHANGED <<domainVars, identity, services, early>>

\* The button to save, or to try again, with other values or with the same.
Submit ==
  /\ page \in {"form", "failed"} /\ attempts < MaxAttempts
  /\ page' = "idp" /\ error' = FALSE
  /\ form' \in Forms
  /\ attempts' = attempts + 1
  /\ saving' = "ingress" /\ creating' = FALSE
  /\ early' = FALSE
  /\ UNCHANGED <<domainVars, origin, identity, service, pool, mixed, late, overlapped>>

\* Mutant of Open: the error of the page of before is still shown.
OpenWithError ==
  /\ attempts < MaxAttempts
  /\ page' = "form" /\ UNCHANGED error
  /\ \E d \in Domains :
       /\ Served(d) /\ origin' = d
       /\ late' = (route # d /\ \E r \in Requests : Running(r))
  /\ early' = FALSE
  /\ saving' = "ingress" /\ creating' = FALSE
  /\ unbound' = (unbound \/ page = "bind")
  /\ mixed' = IF page = "service" /\ ~ creating THEN mixed \union {saving} ELSE mixed
  /\ UNCHANGED <<domainVars, form, attempts, idp, admin, service, pool, overlapped>>

\* The page is loaded, perhaps in the middle of the work of the one that there was.
Open ==
  /\ attempts < MaxAttempts
  /\ page' = "form" /\ error' = FALSE
  /\ \E d \in Domains :
       /\ Served(d) /\ origin' = d
       /\ late' = (route # d /\ \E r \in Requests : Running(r))
  /\ early' = FALSE
  /\ saving' = "ingress" /\ creating' = FALSE
  /\ unbound' = (unbound \/ page = "bind")
  /\ mixed' = IF page = "service" /\ ~ creating THEN mixed \union {saving} ELSE mixed
  /\ UNCHANGED <<domainVars, form, attempts, idp, admin, service, pool, overlapped>>

-----------------------------------------------------------------------------
(* persistIdentityProvider *)

\* Who has the provider already is taken for one that has all the rest.
GetOAuth ==
  /\ \/ ~ form.user /\ Step("idp", "get") /\ UNCHANGED error
     \/ form.user /\ idp = "present" /\ Ok("idp", "get")
     \/ form.user /\ idp = "absent" /\ Ok("idp", "secret")
     \/ form.user /\ Failed("idp")
  /\ Aside

\* getHtpasswdData and createSecret
CreateSecret ==
  /\ Ok("secret", "provider") \/ Failed("secret") \/ Escaped("secret")
  /\ Aside

PatchIDP ==
  /\ \/ Ok("provider", "bind") /\ idp' = "present" /\ UNCHANGED unbound
     \/ Failed("provider") /\ idp' \in {idp, IF Served(origin) THEN "present" ELSE idp}
        /\ unbound' = (unbound \/ idp' = "present")
  /\ UNCHANGED <<domainVars, services, early, admin>>

BindClusterAdminRole ==
  /\ \/ Ok("bind", "authentication") /\ admin' = TRUE /\ UNCHANGED unbound
     \/ Escaped("bind") /\ unbound' = TRUE /\ admin' \in {admin, admin \/ Served(origin)}
  /\ UNCHANGED <<domainVars, services, early, idp>>

WaitAuthentication ==
  /\ Ok("authentication", "get") \/ Failed("authentication")
  /\ Aside

-----------------------------------------------------------------------------
(* saveService, for the ingress and then for the API *)

Saved == IF saving = "ingress" /\ "api" \in Services THEN "get" ELSE "operators"
SaveNext == saving' = IF Saved = "get" THEN "api" ELSE "ingress"

\* Whatever the reason why it can't be read, it is taken as missing.
GetService ==
  /\ \/ /\ service[saving] # "absent"
        /\ \/ service[saving] = form.ip[saving] /\ Ok("get", Saved) /\ SaveNext
           \/ service[saving] # form.ip[saving] /\ Ok("get", "pool") /\ UNCHANGED saving
        /\ creating' = FALSE
     \/ Step("get", "pool") /\ creating' = TRUE /\ UNCHANGED <<error, saving>>
  /\ UNCHANGED <<domainVars, identity, early, service, pool, mixed>>

\* createAddressPool, or patchAddressPool of the one that the service names.  Those that the
\* command `create metallb` makes are of another kind, and can't be patched so.
SavePool ==
  LET named == ~ creating /\ pool[saving] # None
      patched == [pool EXCEPT ![saving] = form.ip[saving]] IN
  /\ \/ Ok("pool", "service") /\ pool[saving] # "foreign" /\ named /\ pool' = patched
        /\ UNCHANGED mixed
     \/ Ok("pool", "service") /\ ~ named /\ UNCHANGED <<pool, mixed>>
     \/ Failed("pool") /\ UNCHANGED <<pool, mixed>>
     \/ Failed("pool") /\ Served(origin) /\ named /\ pool[saving] # "foreign" /\ pool' = patched
        /\ mixed' = mixed \union {saving}
  /\ UNCHANGED <<domainVars, identity, early, saving, creating, service>>

\* The service is created or patched with the address, and with the name of a new pool.
SaveService ==
  LET done == /\ creating => service[saving] = "absent"
              /\ service' = [service EXCEPT ![saving] = form.ip[saving]]
              /\ pool' = [pool EXCEPT ![saving] = form.ip[saving]]
              /\ mixed' = mixed \ {saving} IN
  /\ \/ Ok("service", Saved) /\ done /\ SaveNext /\ creating' = FALSE
     \/ Failed("service") /\ UNCHANGED <<service, pool, saving, creating>>
        /\ mixed' = IF creating THEN mixed ELSE mixed \union {saving}
     \/ Failed("service") /\ Served(origin) /\ done /\ UNCHANGED <<saving, creating>>
  /\ UNCHANGED <<domainVars, identity, early>>

\* saveApi: waitForLivenessProbe, that only says yes at the first attempt, and
\* waitForClusterOperator.
WaitOperators == (Ok("operators", "post") \/ Failed("operators")) /\ Aside

-----------------------------------------------------------------------------
(* persistDomain *)

Post ==
  /\ page = "post"
  /\ \/ /\ Served(origin)
        /\ page' = "answer" /\ UNCHANGED error
        /\ Call(attempts, form.domain)
        /\ late' = (late \/ route # origin)
        /\ overlapped' = (overlapped \/ \E r \in Requests : Running(r))
     \/ page' = "failed" /\ error' = TRUE /\ UNCHANGED <<rpc, want, late, overlapped>>
  /\ UNCHANGED <<cluster, seen, answer, causes, origin, form, attempts, identity, services, early>>

ReadAnswer ==
  /\ page = "answer"
  /\ \/ answer[attempts] = "ok" /\ Step("answer", "pod") /\ UNCHANGED error
     \/ answer[attempts] = "error" /\ Failed("answer")
     \/ answer[attempts] = "none" /\ rpc[attempts] = "killed" /\ Failed("answer")
  /\ Aside

LoseAnswer == attempts < MaxAttempts /\ Failed("answer") /\ Aside

-----------------------------------------------------------------------------
(* The waits of persistDomain and waitOnReconciliation, and the end of persist. *)

\* Mutant of WaitPod: any pod that is ready is good enough.
WaitAnyPod ==
  /\ \/ Ok("pod", "cleanup") /\ early' = (pod # deployment)
     \/ Failed("pod") /\ UNCHANGED early
  /\ UNCHANGED <<domainVars, identity, services>>

\* waitForClusterOperator, before and after waitForZtpfwPodToBeRecreated.
WaitPod ==
  /\ \/ Ok("pod", "cleanup") /\ pod = form.domain /\ early' = (pod # deployment)
     \/ Failed("pod") /\ UNCHANGED early
  /\ UNCHANGED <<domainVars, identity, services>>

\* If the copy of the route can't be deleted, the page goes on.
DeleteRoute ==
  /\ Step("cleanup", "done") /\ UNCHANGED error
  /\ backup' \in {backup, IF Served(origin) THEN None ELSE backup}
  /\ UNCHANGED <<routes, current, certificate, route, redirects, deployment, pod, requests,
                 causes, identity, services, early>>

-----------------------------------------------------------------------------
PersistStep ==
  \/ GetOAuth \/ CreateSecret \/ PatchIDP \/ BindClusterAdminRole \/ WaitAuthentication
  \/ GetService \/ SavePool \/ SaveService \/ WaitOperators
  \/ Post \/ ReadAnswer \/ WaitPod \/ DeleteRoute

pageVars == <<page, origin, form, error, attempts, identity, services, early, late, overlapped>>
Backend(r) == ChangeDomainImpl(r) /\ UNCHANGED pageVars

Next ==
  \/ Submit \/ Open \/ PersistStep \/ LoseAnswer
  \/ (Reconcile \/ Restart) /\ UNCHANGED pageVars
  \/ \E r \in Requests : Backend(r)

\* The code of the page and of the backend runs, and all its calls end: it retries some, and
\* not for ever.  Nothing is said of the cluster or of the user.
Fairness ==
  /\ WF_vars(PersistStep)
  /\ \A r \in Requests : WF_vars(Backend(r))

Spec == Init /\ [][Next]_vars /\ Fairness

-----------------------------------------------------------------------------
(* Properties. *)

Saving == page \notin {"form", "failed", "stuck", "done"}

TypeOK ==
  /\ DomainType
  /\ page \in {"form", "failed", "stuck", "done", "idp", "secret", "provider", "bind",
               "authentication", "get", "pool",
               "service", "operators", "post", "answer", "pod", "cleanup"}
  /\ origin \in Domains /\ form \in Forms /\ error \in BOOLEAN
  /\ saving \in Services /\ creating \in BOOLEAN
  /\ attempts \in 0 .. MaxAttempts
  /\ idp \in {"absent", "present"} /\ admin \in BOOLEAN
  /\ service \in [Services -> Addresses \union {"absent", "unset"}]
  /\ pool \in [Services -> Addresses \union {"foreign", None}]
  /\ unbound \in BOOLEAN /\ mixed \subseteq Services
  /\ early \in BOOLEAN /\ late \in BOOLEAN /\ overlapped \in BOOLEAN
  /\ error <=> page = "failed"
  /\ Saving => attempts > 0

\* While a page is saving, its host has a route, that is the one of the user interface or its
\* copy, also when the first one moves to the new domain: without it no request of the page
\* arrives.  Unless the copy couldn't be made, the domain was asked for again when the route
\* had already left the host of the page, this one was loaded from the copy in the middle of a
\* request, or another request ran at the same time (updateZtpfwUI and backupRoute; persist).
OriginServed ==
  Saving /\ ~ late /\ ~ overlapped /\ ~ ignored => Served(origin)

\* What the success of a page says, when no other request ran at the same time: the services
\* ask for the addresses of the form, and their pools have them; a user has the role of the
\* administrator; the pod works for the domain of the form; and the route, the login, the
\* ingress and the API server have that domain.  The causes why something of that may be
\* missing are those that have a history variable (persist; changeDomainImpl).
SuccessMeansSaved ==
  page = "done" =>
    /\ \A s \in Services : service[s] = form.ip[s] /\ (s \notin mixed => pool[s] = form.ip[s])
    /\ form.user => idp = "present" /\ (~ unbound => admin)
    /\ ~ overlapped /\ ~ early => pod = form.domain /\ deployment = form.domain
    /\ ~ overlapped /\ ~ stale => routes = form.domain
    /\ ~ overlapped /\ ~ stale /\ ~ half =>
         /\ certificate = form.domain
         /\ ~ ignored /\ ~ cut => route = form.domain /\ form.domain \in redirects

\* An attempt to save ends: the page succeeds, or it shows an error, or a rejection escapes
\* from it, or the user leaves (changeDomainImpl answers whatever fails; the waits of the page
\* are bounded).
AttemptEnds == Saving ~> ~ Saving
=============================================================================
