--------------------------------- MODULE Applier ---------------------------------
(***************************************************************************)
(* The Applier of ztp/internal/applier.go, that creates and deletes the    *)
(* Kubernetes objects rendered from a set of templates, working against an *)
(* API server whose controllers remove finalizers, empty and remove        *)
(* namespaces, establish custom resource definitions and install operators.*)
(*                                                                         *)
(* Commands that apply or delete the set are run one at a time; each may   *)
(* be killed at any point, and any command may follow any other.           *)
(***************************************************************************)
EXTENDS Naturals, FiniteSets

CONSTANTS
  Namespaces,    \* the namespaces of the set
  CRDs,          \* the custom resource definitions of the set
  Others,        \* the other objects of the set
  OperatorCRDs,  \* definitions that operators bring
  Operator,      \* Operator[d], the object of the set that installs the operator of d
  Position,      \* the place of each object in the order of the templates
  NamespaceOf,   \* the namespace of each of the Others, or NoNamespace
  KindOf,        \* the definition of the kind of each of the Others, or BuiltIn
  Finalized,     \* the Others that an operator must finalize
  WithStatus,    \* the Others whose template has a status
  NoNamespace, BuiltIn, Nothing,
  MaxCommands,   \* bound: commands run
  MaxFailures,   \* bound: requests that the server fails for no reason
  MaxConflicts   \* bound: the attempts of retry.RetryOnConflict

Set == Namespaces \union CRDs \union Others
Definitions == CRDs \union OperatorCRDs
Objects == Set \union OperatorCRDs

ASSUME ApplierAssumption ==
  /\ Namespaces \intersect (Definitions \union Others) = {}
  /\ Others \intersect Definitions = {}
  /\ CRDs \intersect OperatorCRDs = {}
  /\ Namespaces # {} /\ Others # {}
  /\ Operator \in [OperatorCRDs -> Others]
  /\ Position \in [Set -> Nat]
  /\ \A x, y \in Set : Position[x] = Position[y] => x = y
  /\ NamespaceOf \in [Others -> Namespaces \union {NoNamespace}]
  /\ KindOf \in [Others -> Definitions \union {BuiltIn}]
  /\ NoNamespace \notin Objects /\ BuiltIn \notin Objects /\ Nothing \notin Objects
  /\ Finalized \subseteq Others /\ WithStatus \subseteq Others
  /\ MaxCommands \in Nat /\ MaxFailures \in Nat /\ MaxConflicts \in Nat

VARIABLES
  state,        \* server: each object is absent, present or terminating
  established,  \* server: the definitions whose Established condition is True
  served,       \* server: the definitions whose objects can be created
  statused,     \* server: the objects whose status is that of their template
  command,      \* idle, apply or delete
  pc,           \* the part of the applier that runs
  todo,         \* the objects that are left in this part
  current,      \* the object being created, or waited for
  conflicts,    \* failed attempts to update the status of the current object
  waiting,      \* waitDisappear: the objects left to wait for in the current namespace
  failed,       \* deleteObjects: an object couldn't be deleted
  known,        \* definitions that the REST mapper of the command knows
  result,       \* of the last command: none, applied, deleted or error
  commands,     \* commands run so far
  failures,     \* requests failed so far
  leftover      \* history: objects found terminating by the apply in course

server == <<state, established, served, statused>>
process == <<command, pc, todo, current, conflicts, waiting, failed, known, result>>
vars == <<server, process, commands, failures, leftover>>

-----------------------------------------------------------------------------
Inside(n) == {o \in Others : NamespaceOf[o] = n}
IsServed(o) == o \in Others => KindOf[o] \in served \union {BuiltIn}
IsKnown(o) == o \in Others => KindOf[o] \in served \union known \union {BuiltIn}

\* The first and the last of a set of objects, in the order of the templates.
IsFirst(x, S) == x \in S /\ \A y \in S : Position[x] <= Position[y]
IsLast(x, S) == x \in S /\ \A y \in S : Position[y] <= Position[x]

\* What pc can be in each command.
ObjectParts == {"waitCRD", "retry", "status"}
ApplyParts == {"namespaces", "crds", "waitCRDs", "others"} \union ObjectParts
WaitParts == {"disappear", "watch", "watching", "missed"}
DeleteParts == {"deleteOthers", "deleteCRDs"} \union WaitParts

Init ==
  /\ state = [x \in Objects |-> "absent"]
  /\ established = {} /\ served = {} /\ statused = {}
  /\ command = "idle" /\ pc = "idle" /\ todo = {} /\ current = Nothing
  /\ conflicts = 0 /\ waiting = {} /\ failed = FALSE /\ known = {}
  /\ result = "none" /\ commands = 0 /\ failures = 0 /\ leftover = {}

-----------------------------------------------------------------------------
(* The API server and its controllers. *)

Establish(d) ==
  /\ d \in Definitions
  /\ state[d] = "present" /\ d \notin established
  /\ established' = established \union {d}
  /\ UNCHANGED <<state, served, statused, process, commands, failures, leftover>>

\* An established kind takes some time to be usable.
Serve(d) ==
  /\ d \in established \ served
  /\ served' = served \union {d}
  /\ UNCHANGED <<state, established, statused, process, commands, failures, leftover>>

\* The operator that an object of the set (a subscription) asks for is installed.
InstallOperator(d) ==
  /\ d \in OperatorCRDs
  /\ state[Operator[d]] = "present" /\ state[d] = "absent"
  /\ state' = [state EXCEPT ![d] = "present"]
  /\ UNCHANGED <<established, served, statused, process, commands, failures, leftover>>

\* An operator finalizes an object, for which it may need to create others in
\* the same namespace: it can't if that namespace is being deleted.
Finalize(o) ==
  /\ o \in Others
  /\ state[o] = "terminating"
  /\ NamespaceOf[o] # NoNamespace => state[NamespaceOf[o]] = "present"
  /\ state' = [state EXCEPT ![o] = "absent"]
  /\ statused' = statused \ {o}
  /\ UNCHANGED <<established, served, process, commands, failures, leftover>>

\* What a delete request does to an object.
Deleted(o) == IF o \in Finalized THEN "terminating" ELSE "absent"

\* A terminating namespace or definition disappears when it is empty.  (The
\* controllers would also delete what is left of the set inside of it, but there
\* is never any: see NamespaceDeletedEmpty.)
Vanish(x) ==
  /\ x \in Namespaces \union Definitions
  /\ state[x] = "terminating"
  /\ \A o \in Others : x \in {NamespaceOf[o], KindOf[o]} => state[o] = "absent"
  /\ state' = [state EXCEPT ![x] = "absent"]
  /\ established' = established \ {x}
  /\ served' = served \ {x}
  /\ UNCHANGED <<statused, process, commands, failures, leftover>>

-----------------------------------------------------------------------------
(* Running commands. *)

StartApply ==
  /\ command = "idle" /\ commands < MaxCommands
  /\ command' = "apply" /\ pc' = "namespaces" /\ todo' = Namespaces
  /\ leftover' = {}
  /\ result' = "none" /\ failed' = FALSE /\ known' = served
  /\ commands' = commands + 1
  /\ UNCHANGED <<server, current, conflicts, waiting, failures>>

StartDelete ==
  /\ command = "idle" /\ commands < MaxCommands
  /\ command' = "delete" /\ pc' = "deleteOthers" /\ todo' = Others
  /\ result' = "none" /\ failed' = FALSE /\ known' = served
  /\ commands' = commands + 1
  /\ UNCHANGED <<server, current, conflicts, waiting, failures, leftover>>

\* Mutant of Finish: the objects to wait for aren't reset.
FinishKeepsWaiting(outcome) ==
  /\ command' = "idle" /\ pc' = "idle" /\ todo' = {} /\ current' = Nothing
  /\ conflicts' = 0 /\ failed' = FALSE /\ known' = {} /\ UNCHANGED waiting
  /\ result' = outcome

Finish(outcome) ==
  /\ command' = "idle" /\ pc' = "idle" /\ todo' = {} /\ current' = Nothing
  /\ conflicts' = 0 /\ waiting' = {} /\ failed' = FALSE /\ known' = {}
  /\ result' = outcome

\* The command is killed, or its context ends.
Crash ==
  /\ command # "idle"
  /\ Finish("none")
  /\ UNCHANGED <<server, commands, failures, leftover>>

-----------------------------------------------------------------------------
(* ApplyObjects: namespaces, definitions, wait for them, and the rest; the *)
(* first error ends it.                                                    *)

\* The namespace and the definition that the creation of an object needs.
Needs(x) ==
  IF x \in Others THEN {NamespaceOf[x], KindOf[x]} \ {NoNamespace, BuiltIn} ELSE {}

\* Mutant of Creation: an object that can't be created passes for one that exists.
CreationTooLax(x) ==
  CASE ~IsServed(x) \/ \E y \in Needs(x) : state[y] = "absent" -> "noCRD"
    [] IsServed(x) /\ state[x] = "absent" /\ (\A y \in Needs(x) : state[y] = "present")
         -> "created"
    [] OTHER -> "exists"

\* What the server answers to the creation of an object: createObject can't tell
\* a missing namespace from a missing definition.
Creation(x) ==
  CASE ~IsServed(x) \/ \E y \in Needs(x) : state[y] = "absent" -> "noCRD"
    [] IsServed(x) /\ (\A y \in Needs(x) : state[y] = "present")
         -> IF state[x] = "absent" THEN "created" ELSE "exists"
    [] OTHER -> "forbidden"

\* The applier goes on with what is left of this part, or with the next part.
Continue(part, rest) ==
  CASE rest # {} ->
         pc' = part /\ todo' = rest /\ UNCHANGED <<command, failed, known, result>>
    [] rest = {} /\ part = "namespaces" ->
         /\ pc' = IF CRDs = {} THEN "others" ELSE "crds"
         /\ todo' = IF CRDs = {} THEN Others ELSE CRDs
         /\ UNCHANGED <<command, failed, known, result>>
    [] rest = {} /\ part = "crds" ->
         pc' = "waitCRDs" /\ todo' = CRDs /\ UNCHANGED <<command, failed, known, result>>
    [] rest = {} /\ part = "waitCRDs" ->
         pc' = "others" /\ todo' = Others /\ UNCHANGED <<command, failed, known, result>>
    [] rest = {} /\ part = "others" ->
         pc' = "idle" /\ todo' = {} /\ command' = "idle" /\ failed' = FALSE /\ known' = {}
         /\ result' = "applied"

\* createObject succeeded: the status is next, if the template has one.
Created(part, x) ==
  IF x \in WithStatus
  THEN /\ pc' = "status" /\ current' = x
       /\ UNCHANGED <<command, todo, failed, known, result>>
  ELSE Continue(part, todo \ {x}) /\ current' = Nothing

\* A request to create an object, with what follows in createObject: the first
\* attempt waits for the definition, and the next ones back off.
Create(part, x) ==
  LET answer == Creation(x) IN
  /\ state' = IF answer = "created" THEN [state EXCEPT ![x] = "present"] ELSE state
  /\ leftover' = IF answer = "exists" /\ state[x] = "terminating" THEN leftover \union {x}
                                                                 ELSE leftover
  /\ UNCHANGED <<established, served, statused, commands, failures>>
  /\ CASE answer \in {"created", "exists"} ->
            Created(part, x) /\ UNCHANGED <<conflicts, waiting>>
       [] answer = "noCRD" /\ pc = "retry" ->
            UNCHANGED process
       [] answer = "noCRD" /\ pc # "retry" ->
            /\ pc' = "waitCRD" /\ current' = x
            /\ UNCHANGED <<command, todo, conflicts, waiting, failed, known, result>>
       [] answer = "forbidden" ->
            Finish("error")

\* Mutant of CreateNext: the templates are followed in the reverse order.
CreateNextReversed ==
  /\ pc \in {"namespaces", "crds", "others"}
  /\ \E x \in todo : IsLast(x, todo) /\ Create(pc, x)

\* applyNamespaces, and the creations of applyCRDs and of applyObjects.
CreateNext ==
  /\ pc \in {"namespaces", "crds", "others"}
  /\ \E x \in todo : IsFirst(x, todo) /\ Create(pc, x)

\* waitCRDs for all the definitions of the set: a watch from "0" tells of the
\* ones that are established, one by one.
WaitCRDs ==
  /\ pc = "waitCRDs"
  /\ \E d \in todo \intersect established :
       Continue("waitCRDs", todo \ {d}) /\ UNCHANGED <<current, conflicts, waiting>>
  /\ UNCHANGED <<server, commands, failures, leftover>>

\* waitCRDs for the kind of the object that couldn't be created.
WaitCRD ==
  /\ pc = "waitCRD"
  /\ KindOf[current] \in established
  /\ pc' = "retry"
  /\ UNCHANGED <<server, command, todo, current, conflicts, waiting, failed, known, result,
                 commands, failures, leftover>>

\* The backoff repeats the creation till it succeeds or fails in another way.
Retry ==
  /\ pc = "retry"
  /\ Create("others", current)

\* applyStatus: the object is retrieved and its status updated.
ApplyStatus ==
  /\ pc = "status"
  /\ UNCHANGED <<state, established, served, commands, failures, leftover>>
  /\ IF state[current] = "absent"
     THEN Finish("error") /\ UNCHANGED statused
     ELSE /\ statused' = statused \union {current}
          /\ conflicts' = 0
          /\ Continue("others", todo \ {current})
          /\ current' = Nothing
          /\ UNCHANGED waiting

\* Mutant of ConflictStatus: the last conflict isn't reported.
ConflictStatusForgets ==
  /\ pc = "status"
  /\ UNCHANGED <<server, waiting, commands, failures, leftover>>
  /\ IF conflicts + 1 < MaxConflicts
     THEN /\ conflicts' = conflicts + 1
          /\ UNCHANGED <<command, pc, todo, current, failed, known, result>>
     ELSE /\ conflicts' = 0 /\ current' = Nothing
          /\ Continue("others", todo \ {current})

\* Someone else changed the object after it was retrieved.
ConflictStatus ==
  /\ pc = "status"
  /\ UNCHANGED <<server, commands, failures, leftover>>
  /\ IF conflicts + 1 < MaxConflicts
     THEN /\ conflicts' = conflicts + 1
          /\ UNCHANGED <<command, pc, todo, current, waiting, failed, known, result>>
     ELSE Finish("error")

-----------------------------------------------------------------------------
(* DeleteObjects: the other objects, the namespaces once they are empty of *)
(* them, and the definitions, in the reverse order of the templates.       *)

\* Mutant of NamespacesNext: namespaces are deleted without waiting.
NamespacesNextHasty(left, anyFailed) ==
  IF anyFailed THEN Finish("error")
  ELSE \E n \in left :
         /\ IsLast(n, left)
         /\ pc' = "disappear" /\ todo' = left /\ current' = n /\ waiting' = {}
         /\ UNCHANGED <<command, conflicts, failed, known, result>>

\* What follows the last of the other objects: nothing if any couldn't be
\* deleted, else the wait for the objects of the last namespace.
NamespacesNext(left, anyFailed) ==
  IF anyFailed THEN Finish("error")
  ELSE \E n \in left :
         /\ IsLast(n, left)
         /\ pc' = "disappear" /\ todo' = left /\ current' = n /\ waiting' = Inside(n)
         /\ UNCHANGED <<command, conflicts, failed, known, result>>

\* deleteObject: a missing object isn't an error, but a missing kind is.
DeleteOther ==
  /\ pc = "deleteOthers"
  /\ \E o \in todo :
       LET bad == ~IsKnown(o)
           rest == todo \ {o}
       IN /\ IsLast(o, todo)
          /\ state' = IF ~bad /\ state[o] = "present" THEN [state EXCEPT ![o] = Deleted(o)]
                                                     ELSE state
          /\ statused' = IF state'[o] = "absent" THEN statused \ {o} ELSE statused
          /\ IF rest # {}
             THEN /\ todo' = rest /\ failed' = (failed \/ bad)
                  /\ UNCHANGED <<command, pc, current, conflicts, waiting, known, result>>
             ELSE NamespacesNext(Namespaces, failed \/ bad)
  /\ UNCHANGED <<established, served, commands, failures, leftover>>

\* Mutant of Disappear: an object marked for deletion passes for one that is gone.
DisappearHasty ==
  /\ pc = "disappear"
  /\ \E o \in waiting :
       /\ IsLast(o, waiting)
       /\ IF ~IsKnown(o) THEN Finish("error")
          ELSE IF state[o] # "present"
          THEN /\ waiting' = waiting \ {o}
               /\ UNCHANGED <<command, pc, todo, current, conflicts, failed, known, result>>
          ELSE /\ pc' = "watch"
               /\ UNCHANGED <<command, todo, current, conflicts, waiting, failed, known, result>>
  /\ UNCHANGED <<server, commands, failures, leftover>>

\* waitDisappear for the next object of the namespace: it is gone already, or
\* the watch starts.
Disappear ==
  /\ pc = "disappear"
  /\ \E o \in waiting :
       /\ IsLast(o, waiting)
       /\ IF ~IsKnown(o) THEN Finish("error")
          ELSE IF state[o] = "absent"
          THEN /\ waiting' = waiting \ {o}
               /\ UNCHANGED <<command, pc, todo, current, conflicts, failed, known, result>>
          ELSE /\ pc' = "watch"
               /\ UNCHANGED <<command, todo, current, conflicts, waiting, failed, known, result>>
  /\ UNCHANGED <<server, commands, failures, leftover>>

\* The watch starts from "0".  If the object went away after it was retrieved,
\* the initial list doesn't have it (unless it comes from a cache that is
\* behind), and there won't be an event of its deletion.
Watch ==
  /\ pc = "watch"
  /\ \E o \in waiting :
       /\ IsLast(o, waiting)
       /\ \/ pc' = "watching"
          \/ state[o] = "absent" /\ pc' = "missed"
  /\ UNCHANGED <<server, command, todo, current, conflicts, waiting, failed, known, result,
                 commands, failures, leftover>>

\* The deletion event comes, and the object is retrieved again.
SeeDeletion ==
  /\ pc = "watching"
  /\ \E o \in waiting :
       /\ IsLast(o, waiting)
       /\ state[o] = "absent"
       /\ waiting' = waiting \ {o}
  /\ pc' = "disappear"
  /\ UNCHANGED <<server, command, todo, current, conflicts, failed, known, result,
                 commands, failures, leftover>>

\* The watch is restarted from "0" after a 410, and the deletion is forgotten.
MissDeletion ==
  /\ pc = "watching"
  /\ \E o \in waiting : IsLast(o, waiting) /\ state[o] = "absent"
  /\ pc' = "missed"
  /\ UNCHANGED <<server, command, todo, current, conflicts, waiting, failed, known, result,
                 commands, failures, leftover>>

\* What follows the last namespace.
DefinitionsNext ==
  IF CRDs = {} THEN Finish("deleted")
  ELSE /\ pc' = "deleteCRDs" /\ todo' = CRDs /\ current' = Nothing /\ waiting' = {}
       /\ UNCHANGED <<command, conflicts, failed, known, result>>

\* The objects inside of the namespace are gone: it can be deleted.
DeleteNamespace ==
  /\ pc = "disappear" /\ waiting = {}
  /\ state' = IF state[current] = "present" THEN [state EXCEPT ![current] = "terminating"]
                                            ELSE state
  /\ IF todo = {current} THEN DefinitionsNext
                         ELSE NamespacesNext(todo \ {current}, FALSE)
  /\ UNCHANGED <<established, served, statused, commands, failures, leftover>>

DeleteCRD ==
  /\ pc = "deleteCRDs"
  /\ \E d \in todo :
       /\ IsLast(d, todo)
       /\ state' = IF state[d] = "present" THEN [state EXCEPT ![d] = "terminating"] ELSE state
       /\ IF todo = {d} THEN Finish(IF failed THEN "error" ELSE "deleted")
          ELSE /\ todo' = todo \ {d}
               /\ UNCHANGED <<command, pc, current, conflicts, waiting, failed, known, result>>
  /\ UNCHANGED <<established, served, statused, commands, failures, leftover>>

-----------------------------------------------------------------------------
(* Requests that fail for any other reason. *)

\* The first failure ends an apply, and most of a delete.
FailStep ==
  /\ failures < MaxFailures
  /\ failures' = failures + 1
  /\ \/ pc \in ApplyParts \union {"disappear", "watch"}
     \/ pc = "watching" /\ \E o \in waiting : IsLast(o, waiting) /\ state[o] = "absent"
  /\ Finish("error")
  /\ UNCHANGED <<server, commands, leftover>>

\* Mutant of FailDelete: the failures aren't collected.
FailDeleteForgets ==
  /\ failures < MaxFailures
  /\ failures' = failures + 1
  /\ pc \in {"deleteOthers", "deleteCRDs"}
  /\ \E x \in todo :
       /\ IsLast(x, todo)
       /\ IF todo # {x}
          THEN /\ todo' = todo \ {x}
               /\ UNCHANGED <<command, pc, current, conflicts, waiting, failed, known, result>>
          ELSE Finish("error")
  /\ UNCHANGED <<server, commands, leftover>>

\* deleteObjects collects the failures and goes on.
FailDelete ==
  /\ failures < MaxFailures
  /\ failures' = failures + 1
  /\ pc \in {"deleteOthers", "deleteCRDs"}
  /\ \E x \in todo :
       /\ IsLast(x, todo)
       /\ IF todo # {x}
          THEN /\ todo' = todo \ {x} /\ failed' = TRUE
               /\ UNCHANGED <<command, pc, current, conflicts, waiting, known, result>>
          ELSE Finish("error")
  /\ UNCHANGED <<server, commands, leftover>>

-----------------------------------------------------------------------------
Controllers ==
  \/ \E d \in Definitions : Establish(d) \/ Serve(d) \/ InstallOperator(d)
  \/ \E x \in Objects : Finalize(x) \/ Vanish(x)

Applying == CreateNext \/ WaitCRDs \/ WaitCRD \/ Retry \/ ApplyStatus

Deleting == DeleteOther \/ Disappear \/ Watch \/ SeeDeletion \/ DeleteNamespace \/ DeleteCRD

Next ==
  \/ Controllers
  \/ StartApply \/ StartDelete \/ Crash
  \/ Applying \/ ConflictStatus
  \/ Deleting \/ MissDeletion
  \/ FailStep \/ FailDelete

Spec == Init /\ [][Next]_vars

\* The controllers do their work, and a command that isn't killed goes on.
Fairness ==
  /\ \A d \in Definitions :
       WF_vars(Establish(d)) /\ WF_vars(Serve(d)) /\ WF_vars(InstallOperator(d))
  /\ \A x \in Objects : WF_vars(Finalize(x)) /\ WF_vars(Vanish(x))
  /\ WF_vars(Applying) /\ WF_vars(Deleting)

FairSpec == Spec /\ Fairness

-----------------------------------------------------------------------------
(* Properties. *)

ServerType ==
  /\ state \in [Objects -> {"absent", "present", "terminating"}]
  /\ established \subseteq Definitions /\ served \subseteq established
  /\ statused \subseteq WithStatus
  /\ commands \in 0 .. MaxCommands /\ failures \in 0 .. MaxFailures
  /\ leftover \subseteq Set

ProcessType ==
  /\ command \in {"idle", "apply", "delete"}
  /\ pc \in {"idle"} \union ApplyParts \union DeleteParts
  /\ command = "idle" <=> pc = "idle"
  /\ command = "apply" <=> pc \in ApplyParts
  /\ pc = "idle" <=> todo = {}
  /\ pc \in {"namespaces"} \union WaitParts => todo \subseteq Namespaces
  /\ pc \in {"crds", "waitCRDs", "deleteCRDs"} => todo \subseteq CRDs
  /\ pc \in {"others", "deleteOthers"} \union ObjectParts => todo \subseteq Others
  /\ IF pc \in WaitParts \union ObjectParts THEN current \in todo ELSE current = Nothing
  /\ pc = "status" => current \in WithStatus
  /\ conflicts \in Nat /\ (conflicts # 0 => pc = "status" /\ conflicts < MaxConflicts)
  /\ waiting \subseteq Others
  /\ waiting # {} => pc \in WaitParts /\ waiting \subseteq Inside(current)
  /\ failed \in BOOLEAN
  /\ known \subseteq Definitions
  /\ result \in {"none", "applied", "deleted", "error"}

\* The types of the variables, what each part of the applier works on, and what
\* a command leaves behind when it ends or is killed: nothing.
TypeOK == ServerType /\ ProcessType

\* A namespace is deleted only when the objects that the applier put inside of
\* it are gone (applier.go, DeleteObjects: the deletion of some of them creates
\* others in the namespace, and can't once it is marked for deletion), whatever
\* the commands that ran, failed or were killed before.
NamespaceDeletedEmpty ==
  \A o \in Others :
    NamespaceOf[o] # NoNamespace /\ state[NamespaceOf[o]] = "terminating" =>
      state[o] = "absent"

\* A delete that reports success (DeleteObjects returns nil) has left none of the
\* objects of the set's namespaces, and nothing of the set that isn't going away.
DeletedMeansGone ==
  result = "deleted" =>
    /\ \A x \in Set : state[x] # "present"
    /\ \A o \in Others : NamespaceOf[o] # NoNamespace => state[o] = "absent"

\* An apply that reports success (ApplyObjects returns nil) has left every object
\* of the set in the server, but for the ones that a delete before it had marked
\* for deletion, which createObject takes for objects that exist; and each has its
\* status, even if it was created by an earlier apply, killed before setting it.
AppliedMeansComplete ==
  result = "applied" =>
    /\ \A x \in Set : x \notin leftover => state[x] = "present"
    /\ \A o \in WithStatus : state[o] = "present" => o \in statused

\* Each step of the applier is a step of a command on a set of objects, that adds them one
\* by one, or takes them away one by one, and never the other way round; that ends in each
\* namespace before the namespace; and that reports success only of what it has completed.
Promise == INSTANCE ObjectSet
ImplementsObjectSet == Promise!Spec

\* An apply ends, unless it found objects that were going away: for each kind
\* that isn't served yet it waits for something that will come.
ApplyEnds == command = "apply" ~> (command = "idle" \/ leftover # {})

\* A delete ends, unless the deletion of an object that it waits for was missed.
DeleteEnds == command = "delete" ~> (command = "idle" \/ pc = "missed")

\* createObject waits for a definition when it doesn't exist or can't be used yet
\* (applier.go: "If the creation fails because the CRD doesn't exist ...").
WaitsOnlyForMissingCRD ==
  [][pc # "waitCRD" /\ pc' = "waitCRD" => ~IsServed(current')]_vars
=============================================================================
