------------------------------ MODULE ApplierProofs ------------------------------
(***************************************************************************)
(* Proofs about the applier, for any set of objects in any order, and any  *)
(* number of commands that run, fail or are killed.                        *)
(***************************************************************************)
EXTENDS Applier, TLAPS

USE DEF ApplyParts, WaitParts, DeleteParts, ObjectParts

LEMMA FinishType ==
  ASSUME ProcessType, NEW r \in {"none", "applied", "deleted", "error"}, Finish(r)
  PROVE  ProcessType'
BY DEF ProcessType, Finish

\* The ways in which the applier can go on.
LEMMA ContinueType ==
  ASSUME ApplierAssumption, ProcessType,
         NEW part \in {"namespaces", "crds", "waitCRDs", "others"}, NEW x \in todo,
         (part = "others" /\ pc \in ObjectParts) \/ part = pc,
         Continue(part, todo \ {x}),
         current' = Nothing, waiting' = waiting, conflicts' = 0
  PROVE  ProcessType'
<1>1. CASE todo \ {x} # {}
  BY <1>1 DEF ProcessType, Continue
<1>2. CASE todo \ {x} = {} /\ part = "namespaces"
  BY <1>2 DEF ProcessType, Continue, ApplierAssumption
<1>3. CASE todo \ {x} = {} /\ part = "crds"
  BY <1>3 DEF ProcessType, Continue
<1>4. CASE todo \ {x} = {} /\ part = "waitCRDs"
  BY <1>4 DEF ProcessType, Continue, ApplierAssumption
<1>5. CASE todo \ {x} = {} /\ part = "others"
  BY <1>5 DEF ProcessType, Continue
<1> QED
  BY <1>1, <1>2, <1>3, <1>4, <1>5

LEMMA AnswerType ==
  \A x \in Set : Creation(x) \in {"created", "exists", "noCRD", "forbidden"}
BY DEF Creation

\* Only the other objects may wait for a definition.
LEMMA NoCRDType ==
  ASSUME NEW x \in Set, Creation(x) = "noCRD"
  PROVE  x \in Others
BY DEF Creation, IsServed, Needs

LEMMA CreateType ==
  ASSUME ApplierAssumption, TypeOK,
         NEW part \in {"namespaces", "crds", "others"}, NEW x \in todo,
         (part = "others" /\ pc = "retry") \/ part = pc,
         Create(part, x), pc = "retry" => x = current
  PROVE  TypeOK'
<1> USE DEF TypeOK
<1>1. x \in Set /\ Set \subseteq Objects
  BY DEF ProcessType, Set, Objects
<1>2. Creation(x) \in {"created", "exists", "noCRD", "forbidden"}
  BY <1>1, AnswerType
<1>3. ServerType'
  BY <1>1 DEF ServerType, Create
<1>4. ProcessType'
  <2>1. CASE Creation(x) \in {"created", "exists"} /\ x \in WithStatus
    <3>1. part = "others"
      BY <2>1 DEF ProcessType, ApplierAssumption, Definitions
    <3>2. /\ pc' = "status" /\ current' = x
          /\ UNCHANGED <<command, todo, failed, known, result, conflicts, waiting>>
      BY <2>1 DEF Create, Created
    <3>3. command = "apply" /\ waiting = {} /\ conflicts = 0 /\ todo \subseteq Others
      BY <3>1 DEF ProcessType
    <3> QED
      BY <2>1, <3>2, <3>3 DEF ProcessType
  <2>2. CASE Creation(x) \in {"created", "exists"} /\ x \notin WithStatus
    <3>1. Continue(part, todo \ {x}) /\ current' = Nothing /\ UNCHANGED <<conflicts, waiting>>
      BY <2>2 DEF Create, Created
    <3>2. conflicts' = 0
      BY <3>1 DEF ProcessType
    <3> QED
      BY <3>1, <3>2, ContinueType
  <2>3. CASE Creation(x) = "noCRD" /\ pc = "retry"
    BY <2>3 DEF ProcessType, Create, process
  <2>4. CASE Creation(x) = "noCRD" /\ pc # "retry"
    <3>1. part = "others"
      BY <1>1, <2>4, NoCRDType DEF ProcessType, ApplierAssumption, Definitions
    <3> QED
      BY <2>4, <3>1 DEF ProcessType, Create
  <2>5. CASE Creation(x) = "forbidden"
    BY <2>5, FinishType DEF Create
  <2> QED
    BY <1>2, <2>1, <2>2, <2>3, <2>4, <2>5
<1> QED
  BY <1>3, <1>4

\* What follows the deletion of the other objects, or of a namespace.
LEMMA NamespacesNextType ==
  ASSUME ProcessType, NEW left \in SUBSET Namespaces, left # {}, NEW bad \in BOOLEAN,
         command = "delete", conflicts = 0, NamespacesNext(left, bad)
  PROVE  ProcessType'
<1>1. CASE bad
  BY <1>1, FinishType DEF NamespacesNext
<1>2. CASE ~bad
  BY <1>2 DEF NamespacesNext, ProcessType, IsLast, Inside
<1> QED
  BY <1>1, <1>2

LEMMA InitType == ApplierAssumption /\ Init => TypeOK
<1> SUFFICES ASSUME ApplierAssumption, Init PROVE TypeOK
  OBVIOUS
<1>1. ServerType
  BY DEF Init, ServerType, ApplierAssumption
<1>2. ProcessType
  BY DEF Init, ProcessType
<1> QED
  BY <1>1, <1>2 DEF TypeOK

LEMMA StepType ==
  ASSUME ApplierAssumption, TypeOK, [Next]_vars
  PROVE  TypeOK'
<1> USE DEF TypeOK
<1>0. Set \subseteq Objects /\ CRDs \subseteq Definitions /\ Definitions \subseteq Objects
  BY DEF Set, Objects, Definitions
<1>1. ASSUME Controllers PROVE TypeOK'
  <2>1. ProcessType'
    BY <1>1 DEF Controllers, Establish, Serve, InstallOperator, Finalize, Vanish, process,
                ProcessType, Inside
  <2>2. ServerType'
    <3>1. ASSUME NEW d \in Definitions, Establish(d) \/ Serve(d) \/ InstallOperator(d)
          PROVE  ServerType'
      BY <3>1, <1>0 DEF Establish, Serve, InstallOperator, process, ServerType
    <3>2. ASSUME NEW x \in Objects, Finalize(x) \/ Vanish(x)
          PROVE  ServerType'
      BY <3>2, <1>0 DEF Finalize, Vanish, process, ServerType
    <3> QED
      BY <1>1, <3>1, <3>2 DEF Controllers
  <2> QED
    BY <2>1, <2>2
<1>2. CASE StartApply \/ StartDelete
  <2>1. ServerType'
    BY <1>2 DEF StartApply, StartDelete, server, ServerType, ApplierAssumption
  <2>2. ProcessType'
    BY <1>2 DEF StartApply, StartDelete, server, ServerType, ProcessType, ApplierAssumption
  <2> QED
    BY <2>1, <2>2
<1>3. CASE Crash
  BY <1>3, FinishType DEF Crash, server, ServerType
<1>4. CASE CreateNext
  BY <1>4, CreateType DEF CreateNext, IsFirst
<1>5. CASE WaitCRDs
  BY <1>5, ContinueType DEF WaitCRDs, server, ServerType, ProcessType
<1>6. CASE WaitCRD
  BY <1>6 DEF WaitCRD, server, ServerType, ProcessType
<1>7. CASE Retry
  BY <1>7, CreateType DEF Retry, ProcessType
<1>8. CASE ApplyStatus
  <2>1. CASE state[current] = "absent"
    BY <1>8, <2>1, FinishType DEF ApplyStatus, ServerType
  <2>2. CASE state[current] # "absent"
    BY <1>8, <2>2, ContinueType DEF ApplyStatus, ServerType, ProcessType
  <2> QED
    BY <2>1, <2>2
<1>9. CASE ConflictStatus
  <2>1. CASE conflicts + 1 < MaxConflicts
    BY <1>9, <2>1 DEF ConflictStatus, server, ServerType, ProcessType
  <2>2. CASE ~(conflicts + 1 < MaxConflicts)
    BY <1>9, <2>2, FinishType DEF ConflictStatus, server, ServerType
  <2> QED
    BY <2>1, <2>2
<1>10. CASE DeleteOther
  <2>1. PICK o \in todo : DeleteOther!2!(o)
    BY <1>10 DEF DeleteOther
  <2>2. o \in Objects /\ o \in Others
    BY <1>10, <1>0 DEF DeleteOther, ProcessType, Set
  <2>3. ServerType'
    BY <1>10, <2>1, <2>2 DEF DeleteOther, ServerType, Deleted
  <2>4. CASE todo \ {o} # {}
    <3>1. ProcessType'
      BY <1>10, <2>1, <2>4 DEF DeleteOther, ProcessType, IsKnown
    <3> QED
      BY <2>3, <3>1
  <2>5. CASE todo \ {o} = {}
    <3>1. ProcessType'
      BY <1>10, <2>1, <2>5, NamespacesNextType
      DEF DeleteOther, ProcessType, IsKnown, ApplierAssumption
    <3> QED
      BY <2>3, <3>1
  <2> QED
    BY <2>4, <2>5
<1>11. CASE Disappear
  <2>1. ServerType'
    BY <1>11 DEF Disappear, server, ServerType
  <2>2. ProcessType'
    BY <1>11, FinishType DEF Disappear, ProcessType
  <2> QED
    BY <2>1, <2>2
<1>12. CASE Watch \/ SeeDeletion \/ MissDeletion
  BY <1>12 DEF Watch, SeeDeletion, MissDeletion, server, ServerType, ProcessType
<1>13. CASE DeleteNamespace
  <2>1. ServerType'
    BY <1>13, <1>0 DEF DeleteNamespace, ServerType
  <2>2. CASE todo = {current}
    <3>1. ProcessType'
      BY <1>13, <2>2, FinishType DEF DeleteNamespace, DefinitionsNext, ProcessType
    <3> QED
      BY <2>1, <3>1
  <2>3. CASE todo # {current}
    <3>1. /\ todo \ {current} \in SUBSET Namespaces /\ todo \ {current} # {}
          /\ command = "delete" /\ conflicts = 0
      BY <1>13, <2>3 DEF DeleteNamespace, ProcessType
    <3>2. NamespacesNext(todo \ {current}, FALSE)
      BY <1>13, <2>3 DEF DeleteNamespace
    <3>3. ProcessType'
      BY <3>1, <3>2, NamespacesNextType
    <3> QED
      BY <2>1, <3>3
  <2> QED
    BY <2>2, <2>3
<1>14. CASE DeleteCRD
  <2>1. ServerType'
    BY <1>14, <1>0 DEF DeleteCRD, ServerType
  <2>2. ProcessType'
    BY <1>14, FinishType DEF DeleteCRD, ProcessType
  <2> QED
    BY <2>1, <2>2
<1>15. CASE FailStep
  <2>1. ServerType'
    BY <1>15 DEF FailStep, server, ServerType, ApplierAssumption
  <2>2. ProcessType'
    BY <1>15, FinishType DEF FailStep
  <2> QED
    BY <2>1, <2>2
<1>16. CASE FailDelete
  <2>1. ServerType'
    BY <1>16 DEF FailDelete, server, ServerType, ApplierAssumption
  <2>2. ProcessType'
    <3>1. PICK x \in todo :
            IF todo # {x}
            THEN /\ todo' = todo \ {x} /\ failed' = TRUE
                 /\ UNCHANGED <<command, pc, current, conflicts, waiting, known, result>>
            ELSE Finish("error")
      BY <1>16 DEF FailDelete
    <3>2. CASE todo # {x}
      BY <1>16, <3>1, <3>2 DEF FailDelete, ProcessType
    <3>3. CASE todo = {x}
      BY <3>1, <3>3, FinishType
    <3> QED
      BY <3>2, <3>3
  <2> QED
    BY <2>1, <2>2
<1>17. CASE UNCHANGED vars
  BY <1>17 DEF vars, server, process, ServerType, ProcessType, Inside
<1> QED
  BY <1>1, <1>2, <1>3, <1>4, <1>5, <1>6, <1>7, <1>8, <1>9, <1>10, <1>11, <1>12, <1>13,
     <1>14, <1>15, <1>16, <1>17 DEF Next, Applying, Deleting

\* The variables always have the values that the code can give them: in particular
\* a part of the applier never runs without anything left to do, and nothing is
\* left of a command that ended or was killed.
THEOREM ApplierTypeCorrect == Spec => []TypeOK
<1>1. ApplierAssumption
  BY ApplierAssumption
<1> QED
  BY <1>1, InitType, StepType, PTL DEF Spec

-----------------------------------------------------------------------------
(* The inductive invariant of the deletion. *)

\* The objects that the applier already waited for are gone.
WaitInv == pc \in WaitParts => \A o \in Inside(current) \ waiting : state[o] = "absent"

\* The namespaces whose objects were all waited for.
Emptied ==
  CASE pc \in WaitParts -> Namespaces \ todo
    [] pc = "deleteCRDs" -> Namespaces
    [] OTHER -> {}

DeleteInv ==
  /\ result # "none" => pc = "idle"
  /\ \A n \in Emptied : state[n] # "present" /\ \A o \in Inside(n) : state[o] = "absent"
  /\ pc = "deleteCRDs" /\ ~failed => \A d \in CRDs \ todo : state[d] # "present"

\* What a delete that succeeded did to the namespaces and to what was inside of them.
DeletedInv ==
  result = "deleted" =>
    /\ \A x \in Namespaces \union CRDs : state[x] # "present"
    /\ \A o \in Others : NamespaceOf[o] # NoNamespace => state[o] = "absent"

GoneInv == NamespaceDeletedEmpty /\ WaitInv /\ DeleteInv /\ DeletedInv

\* The controllers only finish what was marked for deletion.
LEMMA ControllersStep ==
  ASSUME ApplierAssumption, TypeOK, Controllers
  PROVE  /\ UNCHANGED <<process, leftover>>
         /\ \A x \in Set : state'[x] = state[x] \/ (state[x] = "terminating" /\ state'[x] = "absent")
         /\ statused' \subseteq statused
         /\ \A o \in statused \ statused' : state'[o] = "absent"
<1> USE DEF TypeOK, ServerType
<1>1. ASSUME NEW d \in Definitions, Establish(d) \/ Serve(d)
      PROVE  UNCHANGED <<process, leftover, state, statused>>
  BY <1>1 DEF Establish, Serve
<1>2. ASSUME NEW d \in Definitions, InstallOperator(d)
      PROVE  /\ UNCHANGED <<process, leftover, statused>>
             /\ \A x \in Set : state'[x] = state[x]
  <2>1. d \notin Set
    BY <1>2 DEF InstallOperator, ApplierAssumption, Definitions, Set
  <2> QED
    BY <1>2, <2>1 DEF InstallOperator, Objects
<1>3. ASSUME NEW y \in Objects, Finalize(y) \/ Vanish(y)
      PROVE  /\ UNCHANGED <<process, leftover>>
             /\ \A x \in Set : state'[x] = state[x] \/ (state[x] = "terminating" /\ state'[x] = "absent")
             /\ statused' \subseteq statused
             /\ \A o \in statused \ statused' : state'[o] = "absent"
  <2>1. CASE Finalize(y)
    <3>1. /\ UNCHANGED <<process, leftover>> /\ statused' = statused \ {y}
          /\ state[y] = "terminating" /\ state' = [state EXCEPT ![y] = "absent"]
      BY <2>1 DEF Finalize
    <3> QED
      BY <3>1 DEF Objects
  <2>2. CASE Vanish(y)
    <3>1. /\ UNCHANGED <<process, leftover, statused>>
          /\ state[y] = "terminating" /\ state' = [state EXCEPT ![y] = "absent"]
      BY <2>2 DEF Vanish
    <3> QED
      BY <3>1 DEF Objects
  <2> QED
    BY <1>3, <2>1, <2>2
<1> QED
  <2>1. CASE \E d \in Definitions : Establish(d) \/ Serve(d) \/ InstallOperator(d)
    BY <2>1, <1>1, <1>2
  <2>2. CASE \E x \in Objects : Finalize(x) \/ Vanish(x)
    BY <2>2, <1>3
  <2> QED
    BY <2>1, <2>2 DEF Controllers

\* What the request to create an object does to the server, and where it leaves
\* the applier.
LEMMA CreateStep ==
  ASSUME TypeOK, NEW x \in Set, NEW part \in {"namespaces", "crds", "others"}, Create(part, x),
         pc \in {"namespaces", "crds", "others", "retry"}
  PROVE  /\ \/ state' = state
            \/ /\ state[x] = "absent" /\ \A y \in Needs(x) : state[y] = "present"
               /\ state' = [state EXCEPT ![x] = "present"]
         /\ statused' = statused
         /\ pc' \in ApplyParts \union {"idle"}
         /\ pc' = "idle" \/ result' = result
         /\ result' \in {result, "applied", "error"}
<1>1. Creation(x) = "created" => state[x] = "absent" /\ \A y \in Needs(x) : state[y] = "present"
  BY DEF Creation
<1>2. Creation(x) \in {"created", "exists", "noCRD", "forbidden"}
  BY AnswerType
<1>3. CASE Creation(x) \in {"created", "exists"}
  <2>1. /\ pc' \in ApplyParts \union {"idle"}
        /\ pc' = "idle" \/ result' = result
        /\ result' \in {result, "applied", "error"}
    BY <1>3 DEF Create, Created, Continue
  <2>2. /\ statused' = statused
        /\ state' = IF Creation(x) = "created" THEN [state EXCEPT ![x] = "present"] ELSE state
    BY DEF Create
  <2> QED
    BY <1>1, <2>1, <2>2
<1>4. CASE Creation(x) \in {"noCRD", "forbidden"}
  BY <1>4 DEF Create, Finish, process
<1> QED
  BY <1>2, <1>3, <1>4

\* A command that ends without having succeeded.
LEMMA FinishGone ==
  ASSUME GoneInv, NEW r \in {"none", "error"}, Finish(r), UNCHANGED server
  PROVE  GoneInv'
BY DEF GoneInv, NamespaceDeletedEmpty, WaitInv, DeleteInv, DeletedInv, Emptied, Finish, server

\* An apply, whatever it does, leaves the invariant of the deletion alone.
LEMMA ApplyGone ==
  ASSUME GoneInv, UNCHANGED state, pc' \in ApplyParts \union {"idle"},
         pc' = "idle" \/ result' = result, result' \in {result, "applied", "error"},
         pc # "idle"
  PROVE  GoneInv'
BY DEF GoneInv, NamespaceDeletedEmpty, WaitInv, DeleteInv, DeletedInv, Emptied

LEMMA CreateGone ==
  ASSUME ApplierAssumption, TypeOK, GoneInv,
         NEW x \in Set, NEW part \in {"namespaces", "crds", "others"}, Create(part, x),
         pc \in {"namespaces", "crds", "others", "retry"}
  PROVE  GoneInv'
<1>1. CASE state' = state
  BY <1>1, CreateStep, ApplyGone
<1>2. CASE /\ state[x] = "absent" /\ \A y \in Needs(x) : state[y] = "present"
           /\ state' = [state EXCEPT ![x] = "present"]
  <2>1. state \in [Objects -> {"absent", "present", "terminating"}] /\ Set \subseteq Objects
    BY DEF TypeOK, ServerType, Objects, Set
  <2>2. NamespaceDeletedEmpty'
    <3> SUFFICES ASSUME NEW o \in Others, NamespaceOf[o] # NoNamespace,
                        state'[NamespaceOf[o]] = "terminating"
                 PROVE  state'[o] = "absent"
      BY DEF NamespaceDeletedEmpty
    <3>1. NamespaceOf[o] \in Namespaces /\ o \in Set /\ NamespaceOf[o] \in Set
      BY DEF ApplierAssumption, Set
    <3>2. state[NamespaceOf[o]] = "terminating" /\ state[o] = "absent"
      BY <1>2, <2>1, <3>1 DEF GoneInv, NamespaceDeletedEmpty
    <3>3. o # x
      BY <1>2, <3>1, <3>2 DEF Needs, ApplierAssumption, Objects, Set
    <3> QED
      BY <1>2, <2>1, <3>1, <3>2, <3>3
  <2>3. result' \in {"none", "applied", "error"} /\ (result' # "none" => pc' = "idle")
    BY CreateStep DEF GoneInv, DeleteInv
  <2> QED
    BY <2>2, <2>3, CreateStep DEF GoneInv, WaitInv, DeleteInv, DeletedInv, Emptied
<1> QED
  BY <1>1, <1>2, CreateStep

\* The namespaces that are left have objects to wait for again.
LEMMA NamespacesNextGone ==
  ASSUME GoneInv, NEW left \in SUBSET Namespaces, NEW bad \in BOOLEAN, pc \notin {"idle"},
         NamespacesNext(left, bad),
         \A n \in Namespaces \ left : state'[n] # "present" /\ \A o \in Inside(n) : state'[o] = "absent",
         NamespaceDeletedEmpty'
  PROVE  GoneInv'
<1>1. result = "none"
  BY DEF GoneInv, DeleteInv
<1>2. CASE bad
  BY <1>2 DEF NamespacesNext, Finish, GoneInv, WaitInv, DeleteInv, DeletedInv, Emptied
<1>3. CASE ~bad
  <2>1. /\ pc' = "disappear" /\ todo' = left /\ waiting' = Inside(current')
        /\ result' = "none"
    BY <1>1, <1>3 DEF NamespacesNext
  <2> QED
    BY <2>1 DEF GoneInv, WaitInv, DeleteInv, DeletedInv, Emptied
<1> QED
  BY <1>2, <1>3

LEMMA DeleteOtherGone ==
  ASSUME ApplierAssumption, TypeOK, GoneInv, DeleteOther
  PROVE  GoneInv'
<1> DEFINE bad(o) == ~IsKnown(o)
<1>1. PICK o \in todo :
        /\ state' = IF ~bad(o) /\ state[o] = "present" THEN [state EXCEPT ![o] = Deleted(o)]
                                                     ELSE state
        /\ IF todo \ {o} # {}
           THEN /\ todo' = todo \ {o} /\ failed' = (failed \/ bad(o))
                /\ UNCHANGED <<command, pc, current, conflicts, waiting, known, result>>
           ELSE NamespacesNext(Namespaces, failed \/ bad(o))
  BY DEF DeleteOther
<1>2. o \in Others /\ pc = "deleteOthers" /\ failed \in BOOLEAN
  BY DEF DeleteOther, TypeOK, ProcessType
<1>3. NamespaceDeletedEmpty'
  <2> SUFFICES ASSUME NEW x \in Others, NamespaceOf[x] # NoNamespace,
                      state'[NamespaceOf[x]] = "terminating"
               PROVE  state'[x] = "absent"
    BY DEF NamespaceDeletedEmpty
  <2>1. NamespaceOf[x] \in Namespaces /\ NamespaceOf[x] # o
    BY <1>2 DEF ApplierAssumption
  <2>2. state[NamespaceOf[x]] = "terminating"
    BY <1>1, <2>1 DEF TypeOK, ServerType
  <2>3. state[x] = "absent"
    BY <2>2 DEF GoneInv, NamespaceDeletedEmpty
  <2> QED
    BY <1>1, <2>3 DEF TypeOK, ServerType
<1>4. CASE todo \ {o} # {}
  BY <1>1, <1>2, <1>3, <1>4 DEF GoneInv, WaitInv, DeleteInv, DeletedInv, Emptied
<1>5. CASE todo \ {o} = {}
  <2>1. NamespacesNext(Namespaces, failed \/ bad(o))
    BY <1>1, <1>5
  <2>2. failed \/ bad(o) \in BOOLEAN
    BY <1>2
  <2> QED
    BY <1>2, <1>3, <2>1, <2>2, NamespacesNextGone
<1> QED
  BY <1>4, <1>5

LEMMA DisappearGone ==
  ASSUME TypeOK, GoneInv, Disappear \/ Watch \/ SeeDeletion \/ MissDeletion
  PROVE  GoneInv'
<1>1. UNCHANGED server
  BY DEF Disappear, Watch, SeeDeletion, MissDeletion
<1>2. pc \in WaitParts
  BY DEF Disappear, Watch, SeeDeletion, MissDeletion
<1>3. CASE Finish("error")
  BY <1>1, <1>3, FinishGone
<1>4. CASE /\ UNCHANGED <<todo, current, result>> /\ pc' \in WaitParts
           /\ \E o \in Others : /\ state[o] = "absent" \/ waiting' = waiting
                                /\ waiting' \in {waiting, waiting \ {o}}
  BY <1>1, <1>2, <1>4 DEF server, GoneInv, NamespaceDeletedEmpty, WaitInv, DeleteInv,
                          DeletedInv, Emptied, Inside
<1>5. CASE Disappear
  BY <1>3, <1>4, <1>5 DEF Disappear, TypeOK, ProcessType
<1>6. CASE Watch \/ SeeDeletion \/ MissDeletion
  BY <1>4, <1>6 DEF Watch, SeeDeletion, MissDeletion, TypeOK, ProcessType
<1> QED
  BY <1>5, <1>6

LEMMA DeleteNamespaceGone ==
  ASSUME ApplierAssumption, TypeOK, GoneInv, DeleteNamespace
  PROVE  GoneInv'
<1>1. pc = "disappear" /\ waiting = {} /\ current \in todo /\ todo \subseteq Namespaces
  BY DEF DeleteNamespace, TypeOK, ProcessType
<1>2. state' = IF state[current] = "present" THEN [state EXCEPT ![current] = "terminating"]
                                             ELSE state
  BY DEF DeleteNamespace
<1>3. \A o \in Others : state'[o] = state[o]
  <2>1. current \notin Others
    BY <1>1 DEF ApplierAssumption
  <2> QED
    BY <1>2, <2>1 DEF TypeOK, ServerType
<1>4. \A n \in Namespaces \ (todo \ {current}) :
        state'[n] # "present" /\ \A o \in Inside(n) : state'[o] = "absent"
  <2> SUFFICES ASSUME NEW n \in Namespaces, n \notin todo \/ n = current
               PROVE  state'[n] # "present" /\ \A o \in Inside(n) : state'[o] = "absent"
    OBVIOUS
  <2>1. \A o \in Inside(n) : state[o] = "absent"
    BY <1>1 DEF GoneInv, WaitInv, DeleteInv, Emptied
  <2>2. state'[n] # "present"
    <3>1. n # current => state[n] # "present"
      BY <1>1 DEF GoneInv, DeleteInv, Emptied
    <3>2. n \in Objects
      BY DEF Objects, Set
    <3> QED
      BY <1>2, <3>1, <3>2 DEF TypeOK, ServerType
  <2> QED
    BY <1>3, <2>1, <2>2 DEF Inside
<1>5. NamespaceDeletedEmpty'
  <2> SUFFICES ASSUME NEW o \in Others, NamespaceOf[o] # NoNamespace,
                      state'[NamespaceOf[o]] = "terminating"
               PROVE  state'[o] = "absent"
    BY DEF NamespaceDeletedEmpty
  <2>1. NamespaceOf[o] \in Namespaces
    BY DEF ApplierAssumption
  <2>2. CASE NamespaceOf[o] = current
    BY <1>4, <2>1, <2>2 DEF Inside
  <2>3. CASE NamespaceOf[o] # current
    <3>1. state[NamespaceOf[o]] = "terminating"
      BY <1>2, <2>1, <2>3 DEF TypeOK, ServerType
    <3> QED
      BY <1>3, <3>1 DEF GoneInv, NamespaceDeletedEmpty
  <2> QED
    BY <2>2, <2>3
<1>6. CASE todo # {current}
  <2>1. NamespacesNext(todo \ {current}, FALSE)
    BY <1>6 DEF DeleteNamespace
  <2>2. todo \ {current} \in SUBSET Namespaces
    BY <1>1
  <2> QED
    BY <1>1, <1>4, <1>5, <2>1, <2>2, NamespacesNextGone
<1>7. CASE todo = {current}
  <2>1. DefinitionsNext
    BY <1>7 DEF DeleteNamespace
  <2>2. \A n \in Namespaces : state'[n] # "present" /\ \A o \in Inside(n) : state'[o] = "absent"
    BY <1>4, <1>7
  <2>3. CASE CRDs = {}
    <3>1. pc' = "idle" /\ result' = "deleted"
      BY <2>1, <2>3 DEF DefinitionsNext, Finish
    <3>2. \A o \in Others : NamespaceOf[o] # NoNamespace => state'[o] = "absent"
      BY <2>2 DEF Inside, ApplierAssumption
    <3> QED
      BY <1>5, <2>2, <2>3, <3>1, <3>2
      DEF GoneInv, WaitInv, DeleteInv, DeletedInv, Emptied
  <2>4. CASE CRDs # {}
    <3>1. pc' = "deleteCRDs" /\ todo' = CRDs /\ result' = result
      BY <2>1, <2>4 DEF DefinitionsNext
    <3>2. result = "none"
      BY <1>1 DEF GoneInv, DeleteInv
    <3> QED
      BY <1>5, <2>2, <3>1, <3>2 DEF GoneInv, WaitInv, DeleteInv, DeletedInv, Emptied
  <2> QED
    BY <2>3, <2>4
<1> QED
  BY <1>6, <1>7

LEMMA DeleteCRDGone ==
  ASSUME ApplierAssumption, TypeOK, GoneInv, DeleteCRD
  PROVE  GoneInv'
<1>1. PICK d \in todo :
        /\ state' = IF state[d] = "present" THEN [state EXCEPT ![d] = "terminating"] ELSE state
        /\ IF todo = {d} THEN Finish(IF failed THEN "error" ELSE "deleted")
           ELSE /\ todo' = todo \ {d}
                /\ UNCHANGED <<command, pc, current, conflicts, waiting, failed, known, result>>
  BY DEF DeleteCRD
<1>2. pc = "deleteCRDs" /\ d \in CRDs /\ todo \subseteq CRDs /\ result = "none"
  BY DEF DeleteCRD, TypeOK, ProcessType, GoneInv, DeleteInv
<1>3. \A x \in Set \ {d} : state'[x] = state[x]
  BY <1>1 DEF TypeOK, ServerType, Objects
<1>4. d \notin Namespaces \union Others
  BY <1>2 DEF ApplierAssumption, Definitions
<1>5. state'[d] # "present"
  BY <1>1, <1>2 DEF TypeOK, ServerType, Objects, Set
<1>6. \A x \in Namespaces \union Others : state'[x] = state[x]
  BY <1>3, <1>4 DEF Set
<1>7. NamespaceDeletedEmpty'
  BY <1>6 DEF GoneInv, NamespaceDeletedEmpty, ApplierAssumption
<1>8. \A n \in Namespaces : state'[n] # "present" /\ \A o \in Inside(n) : state'[o] = "absent"
  BY <1>2, <1>6 DEF GoneInv, DeleteInv, Emptied, Inside
<1>9. ~failed => \A c \in CRDs \ (todo \ {d}) : state'[c] # "present"
  BY <1>2, <1>3, <1>5 DEF GoneInv, DeleteInv, Set
<1>10. CASE todo = {d}
  <2>1. pc' = "idle" /\ result' = IF failed THEN "error" ELSE "deleted"
    BY <1>1, <1>10 DEF Finish
  <2>2. \A o \in Others : NamespaceOf[o] # NoNamespace => state'[o] = "absent"
    BY <1>8 DEF Inside, ApplierAssumption
  <2>3. ~failed => \A c \in CRDs : state'[c] # "present"
    BY <1>9, <1>10
  <2> QED
    BY <1>7, <1>8, <2>1, <2>2, <2>3 DEF GoneInv, WaitInv, DeleteInv, DeletedInv, Emptied
<1>11. CASE todo # {d}
  BY <1>1, <1>2, <1>7, <1>8, <1>9, <1>11
  DEF GoneInv, WaitInv, DeleteInv, DeletedInv, Emptied
<1> QED
  BY <1>10, <1>11

LEMMA StepGone ==
  ASSUME ApplierAssumption, TypeOK, GoneInv, [Next]_vars
  PROVE  GoneInv'
<1>1. CASE Controllers
  <2>1. /\ UNCHANGED process
        /\ \A x \in Set : state'[x] = state[x] \/ (state[x] = "terminating" /\ state'[x] = "absent")
    BY <1>1, ControllersStep
  <2>2. NamespaceDeletedEmpty'
    BY <2>1 DEF GoneInv, NamespaceDeletedEmpty, ApplierAssumption, Set
  <2>3. WaitInv' /\ DeleteInv'
    BY <2>1 DEF process, GoneInv, WaitInv, DeleteInv, Emptied, Inside, Set
  <2>4. DeletedInv'
    BY <2>1 DEF process, GoneInv, DeletedInv, Set
  <2> QED
    BY <2>2, <2>3, <2>4 DEF GoneInv
<1>2. CASE StartApply \/ StartDelete
  BY <1>2 DEF StartApply, StartDelete, server, GoneInv, NamespaceDeletedEmpty, WaitInv,
              DeleteInv, DeletedInv, Emptied
<1>3. CASE Crash
  BY <1>3, FinishGone DEF Crash
<1>4. CASE CreateNext \/ Retry
  BY <1>4, CreateGone DEF CreateNext, Retry, IsFirst, TypeOK, ProcessType, Set
<1>5. CASE WaitCRDs
  <2>1. UNCHANGED state /\ pc # "idle"
    BY <1>5 DEF WaitCRDs, server
  <2>2. /\ pc' \in ApplyParts \union {"idle"}
        /\ pc' = "idle" \/ result' = result
        /\ result' \in {result, "applied", "error"}
    BY <1>5 DEF WaitCRDs, Continue
  <2> QED
    BY <2>1, <2>2, ApplyGone
<1>6. CASE WaitCRD
  BY <1>6, ApplyGone DEF WaitCRD, server
<1>7. CASE ApplyStatus
  <2>1. UNCHANGED state /\ pc # "idle"
    BY <1>7 DEF ApplyStatus
  <2>2. /\ pc' \in ApplyParts \union {"idle"}
        /\ pc' = "idle" \/ result' = result
        /\ result' \in {result, "applied", "error"}
    BY <1>7 DEF ApplyStatus, Continue, Finish
  <2> QED
    BY <2>1, <2>2, ApplyGone
<1>8. CASE ConflictStatus
  BY <1>8, ApplyGone DEF ConflictStatus, server, Finish
<1>9. CASE DeleteOther
  BY <1>9, DeleteOtherGone
<1>10. CASE Disappear \/ Watch \/ SeeDeletion \/ MissDeletion
  BY <1>10, DisappearGone
<1>11. CASE DeleteNamespace
  BY <1>11, DeleteNamespaceGone
<1>12. CASE DeleteCRD
  BY <1>12, DeleteCRDGone
<1>13. CASE FailStep
  BY <1>13, FinishGone DEF FailStep
<1>14. CASE FailDelete
  <2>1. PICK x \in todo :
          IF todo # {x}
          THEN /\ todo' = todo \ {x} /\ failed' = TRUE
               /\ UNCHANGED <<command, pc, current, conflicts, waiting, known, result>>
          ELSE Finish("error")
    BY <1>14 DEF FailDelete
  <2>2. UNCHANGED server /\ pc \in {"deleteOthers", "deleteCRDs"}
    BY <1>14 DEF FailDelete
  <2>3. CASE todo # {x}
    BY <2>1, <2>2, <2>3 DEF server, GoneInv, NamespaceDeletedEmpty, WaitInv, DeleteInv,
                            DeletedInv, Emptied
  <2>4. CASE todo = {x}
    BY <2>1, <2>2, <2>4, FinishGone
  <2> QED
    BY <2>3, <2>4
<1>15. CASE UNCHANGED vars
  BY <1>15 DEF vars, server, process, GoneInv, NamespaceDeletedEmpty, WaitInv, DeleteInv,
               DeletedInv, Emptied, Inside
<1> QED
  BY <1>1, <1>2, <1>3, <1>4, <1>5, <1>6, <1>7, <1>8, <1>9, <1>10, <1>11, <1>12, <1>13,
     <1>14, <1>15 DEF Next, Applying, Deleting

LEMMA InitGone == ApplierAssumption /\ Init => GoneInv
BY DEF Init, ApplierAssumption, GoneInv, NamespaceDeletedEmpty, WaitInv, DeleteInv,
       DeletedInv, Emptied, Objects, Set, Definitions

LEMMA AlwaysGone == Spec => []GoneInv
<1>1. ApplierAssumption
  BY ApplierAssumption
<1> QED
  BY <1>1, InitGone, StepGone, ApplierTypeCorrect, PTL DEF Spec

\* Whatever commands run, fail or are killed, a namespace is never marked for
\* deletion while there are objects of the set in it.
THEOREM NamespacesDeletedEmpty == Spec => []NamespaceDeletedEmpty
<1>1. GoneInv => NamespaceDeletedEmpty
  BY DEF GoneInv
<1> QED
  BY <1>1, AlwaysGone, PTL

-----------------------------------------------------------------------------
(* The objects that a delete is done with. *)

\* None is there as it was, unless the failure of one of them is still to be reported.
OthersInv ==
  /\ pc = "deleteOthers" /\ ~failed => \A o \in Others \ todo : state[o] # "present"
  /\ pc \in WaitParts \union {"deleteCRDs"} \/ result = "deleted" =>
       \A o \in Others : state[o] # "present"

\* A command that ends without having succeeded, and one that only creates.
LEMMA FinishOthers ==
  ASSUME pc' \in {"idle"} \union ApplyParts, result' # "deleted"
  PROVE  OthersInv'
BY DEF OthersInv, ApplyParts, ObjectParts, WaitParts

\* The part of the applier that runs stays the same, or the next one starts.
LEMMA GoesOnOthers ==
  ASSUME OthersInv, \A o \in Others : state[o] # "present" => state'[o] # "present",
         pc \in WaitParts \union {"deleteCRDs"}
  PROVE  pc' # "deleteOthers" => OthersInv'
BY DEF OthersInv

LEMMA DeleteOtherOthers ==
  ASSUME ApplierAssumption, TypeOK, GoneInv, OthersInv, DeleteOther
  PROVE  OthersInv'
<1>1. PICK o \in todo :
        /\ state' = IF IsKnown(o) /\ state[o] = "present" THEN [state EXCEPT ![o] = Deleted(o)]
                                                        ELSE state
        /\ IF todo \ {o} # {}
           THEN /\ todo' = todo \ {o} /\ failed' = (failed \/ ~IsKnown(o))
                /\ UNCHANGED <<command, pc, current, conflicts, waiting, known, result>>
           ELSE NamespacesNext(Namespaces, failed \/ ~IsKnown(o))
  BY DEF DeleteOther
<1>2. pc = "deleteOthers" /\ todo \subseteq Others /\ result = "none"
  BY DEF DeleteOther, TypeOK, ProcessType, GoneInv, DeleteInv
<1>3. \A x \in Others : state[x] # "present" => state'[x] # "present"
  BY <1>1, <1>2 DEF TypeOK, ServerType, Deleted
<1>4. IsKnown(o) => state'[o] # "present"
  BY <1>1, <1>2 DEF TypeOK, ServerType, Objects, Set, Deleted
<1>5. ~failed /\ IsKnown(o) => \A x \in Others \ (todo \ {o}) : state'[x] # "present"
  BY <1>2, <1>3, <1>4 DEF OthersInv
<1>6. CASE todo \ {o} # {}
  BY <1>1, <1>2, <1>5, <1>6 DEF OthersInv, WaitParts
<1>7. CASE todo \ {o} = {}
  <2>1. NamespacesNext(Namespaces, failed \/ ~IsKnown(o))
    BY <1>1, <1>7
  <2>2. CASE failed \/ ~IsKnown(o)
    BY <2>1, <2>2, FinishOthers DEF NamespacesNext, Finish
  <2>3. CASE ~failed /\ IsKnown(o)
    <3>1. \A x \in Others : state'[x] # "present"
      BY <1>5, <1>7, <2>3
    <3>2. pc' = "disappear"
      BY <2>1, <2>3 DEF NamespacesNext
    <3> QED
      BY <3>1, <3>2 DEF OthersInv
  <2> QED
    BY <2>2, <2>3
<1> QED
  BY <1>6, <1>7

LEMMA StepOthers ==
  ASSUME ApplierAssumption, TypeOK, GoneInv, OthersInv, [Next]_vars
  PROVE  OthersInv'
<1>1. CASE Controllers
  BY <1>1, ControllersStep DEF process, OthersInv, Set
<1>2. CASE StartApply
  BY <1>2, FinishOthers DEF StartApply, ApplyParts
<1>3. CASE StartDelete
  BY <1>3 DEF StartDelete, OthersInv, WaitParts
<1>4. CASE Crash \/ FailStep
  BY <1>4, FinishOthers DEF Crash, FailStep, Finish
<1>5. CASE CreateNext \/ Retry
  <2>1. PICK x \in Set, part \in {"namespaces", "crds", "others"} :
          Create(part, x) /\ pc \in {"namespaces", "crds", "others", "retry"}
    BY <1>5 DEF CreateNext, Retry, IsFirst, TypeOK, ProcessType, Set, ObjectParts
  <2>2. pc' \in ApplyParts \union {"idle"} /\ result' \in {result, "applied", "error"}
    BY <2>1, CreateStep
  <2>3. result = "none"
    BY <2>1 DEF GoneInv, DeleteInv
  <2> QED
    BY <2>2, <2>3, FinishOthers
<1>6. CASE WaitCRDs \/ WaitCRD \/ ApplyStatus \/ ConflictStatus
  <2>1. pc' \in ApplyParts \union {"idle"} /\ result' \in {result, "applied", "error"}
    BY <1>6 DEF WaitCRDs, WaitCRD, ApplyStatus, ConflictStatus, Continue, Finish, ApplyParts,
                ObjectParts
  <2>2. result = "none"
    BY <1>6 DEF WaitCRDs, WaitCRD, ApplyStatus, ConflictStatus, GoneInv, DeleteInv
  <2> QED
    BY <2>1, <2>2, FinishOthers
<1>7. CASE DeleteOther
  BY <1>7, DeleteOtherOthers
<1>8. CASE Disappear \/ Watch \/ SeeDeletion \/ MissDeletion
  <2>1. pc \in WaitParts /\ pc' # "deleteOthers" /\ UNCHANGED state
    BY <1>8 DEF Disappear, Watch, SeeDeletion, MissDeletion, Finish, server, WaitParts
  <2> QED
    BY <2>1, GoesOnOthers
<1>9. CASE DeleteNamespace \/ DeleteCRD
  <2>1. pc \in WaitParts \union {"deleteCRDs"} /\ pc' # "deleteOthers"
    BY <1>9 DEF DeleteNamespace, DeleteCRD, NamespacesNext, DefinitionsNext, Finish, WaitParts
  <2>2. \A o \in Others : state[o] # "present" => state'[o] # "present"
    <3>1. PICK x : state' = state \/ state' = [state EXCEPT ![x] = "terminating"]
      <4>1. CASE DeleteNamespace
        BY <4>1 DEF DeleteNamespace
      <4>2. CASE DeleteCRD
        BY <4>2 DEF DeleteCRD
      <4> QED
        BY <1>9, <4>1, <4>2
    <3> QED
      BY <3>1 DEF TypeOK, ServerType, Objects, Set
  <2> QED
    BY <2>1, <2>2, GoesOnOthers
<1>10. CASE FailDelete
  <2>1. PICK x \in todo :
          IF todo # {x}
          THEN /\ todo' = todo \ {x} /\ failed' = TRUE
               /\ UNCHANGED <<command, pc, current, conflicts, waiting, known, result>>
          ELSE Finish("error")
    BY <1>10 DEF FailDelete
  <2>2. UNCHANGED state
    BY <1>10 DEF FailDelete, server
  <2>3. CASE todo # {x}
    BY <2>1, <2>2, <2>3 DEF OthersInv
  <2>4. CASE todo = {x}
    BY <2>1, <2>4, FinishOthers DEF Finish
  <2> QED
    BY <2>3, <2>4
<1>11. CASE UNCHANGED vars
  BY <1>11 DEF vars, server, process, OthersInv
<1> QED
  BY <1>1, <1>2, <1>3, <1>4, <1>5, <1>6, <1>7, <1>8, <1>9, <1>10, <1>11
  DEF Next, Applying, Deleting

LEMMA AlwaysOthers == Spec => []OthersInv
<1>1. ApplierAssumption
  BY ApplierAssumption
<1>2. Init => OthersInv
  BY DEF Init, OthersInv, WaitParts
<1> QED
  BY <1>1, <1>2, StepOthers, ApplierTypeCorrect, AlwaysGone, PTL DEF Spec

\* When a delete reports success nothing of the set is left that isn't going away.
THEOREM DeleteIsComplete == Spec => []DeletedMeansGone
<1>1. GoneInv /\ OthersInv => DeletedMeansGone
  BY DEF GoneInv, DeletedInv, OthersInv, DeletedMeansGone, Set
<1> QED
  BY <1>1, AlwaysGone, AlwaysOthers, PTL

-----------------------------------------------------------------------------
(* The inductive invariant of the creation. *)

\* The objects that the current apply is done with.
Done ==
  CASE pc = "namespaces" -> Namespaces \ todo
    [] pc = "crds" -> Namespaces \union (CRDs \ todo)
    [] pc = "waitCRDs" -> Namespaces \union CRDs
    [] pc \in {"others"} \union ObjectParts -> Namespaces \union CRDs \union (Others \ todo)
    [] OTHER -> {}

ApplyInv ==
  /\ result # "none" => pc = "idle"
  /\ \A x \in Done : x \notin leftover => state[x] = "present"
  /\ \A x \in Done \intersect WithStatus : state[x] = "present" => x \in statused
  /\ pc = "status" => current \in leftover \/ state[current] = "present"
  /\ AppliedMeansComplete

\* A command that ends without having succeeded.
LEMMA FinishApplied ==
  ASSUME ApplyInv, pc' \in {"idle"} \union DeleteParts \union {"namespaces"},
         pc' = "namespaces" => todo' = Namespaces,
         result' \in {"none", "error", "deleted"}, result' # "none" => pc' = "idle"
  PROVE  ApplyInv'
BY DEF ApplyInv, Done, AppliedMeansComplete

\* The applier is done with one more object, if any.
LEMMA ContinueDone ==
  ASSUME TypeOK, NEW part \in {"namespaces", "crds", "waitCRDs", "others"}, NEW x \in todo,
         (part = "others" /\ pc \in ObjectParts) \/ part = pc,
         Continue(part, todo \ {x})
  PROVE  /\ pc' # "idle" => Done' \subseteq Done \union {x} /\ result' = result /\ pc' # "status"
         /\ pc' = "idle" => /\ Set \subseteq Done \union {x} /\ Done' = {}
                            /\ result' = "applied"
<1> USE DEF TypeOK, ProcessType
<1>1. CASE todo \ {x} # {}
  BY <1>1 DEF Continue, Done
<1>2. CASE todo \ {x} = {} /\ part = "namespaces"
  BY <1>2 DEF Continue, Done
<1>3. CASE todo \ {x} = {} /\ part = "crds"
  BY <1>3 DEF Continue, Done
<1>4. CASE todo \ {x} = {} /\ part = "waitCRDs"
  BY <1>4 DEF Continue, Done
<1>5. CASE todo \ {x} = {} /\ part = "others"
  BY <1>5 DEF Continue, Done, Set
<1> QED
  BY <1>1, <1>2, <1>3, <1>4, <1>5

\* One more object, if any, is done with: it is there, unless it was going away,
\* and it has its status.
LEMMA ProgressApplied ==
  ASSUME ApplierAssumption, TypeOK, ApplyInv, pc # "idle",
         NEW x \in Set,
         \A y \in Set \ {x} : state'[y] = state[y],
         leftover \subseteq leftover', statused \subseteq statused',
         x \notin leftover' => state'[x] = "present",
         x \in WithStatus => x \in statused',
         Done' \subseteq Done \union {x},
         pc' # "status",
         result' = result \/ (result' = "applied" /\ pc' = "idle" /\ Set \subseteq Done \union {x})
  PROVE  ApplyInv'
<1>1. Done \subseteq Set /\ WithStatus \subseteq Set
  BY DEF Done, Set, ApplierAssumption
<1>2. \A y \in Done \union {x} : y \notin leftover' => state'[y] = "present"
  BY <1>1 DEF ApplyInv
<1>3. \A y \in (Done \union {x}) \intersect WithStatus : state'[y] = "present" => y \in statused'
  BY <1>1 DEF ApplyInv
<1>4. result = "none"
  BY DEF ApplyInv
<1>5. CASE result' = result
  BY <1>2, <1>3, <1>4, <1>5 DEF ApplyInv, AppliedMeansComplete
<1>6. CASE result' = "applied" /\ pc' = "idle" /\ Set \subseteq Done \union {x}
  <2>1. AppliedMeansComplete'
    BY <1>1, <1>2, <1>3, <1>6 DEF AppliedMeansComplete
  <2> QED
    BY <1>2, <1>3, <1>6, <2>1 DEF ApplyInv
<1> QED
  BY <1>5, <1>6

LEMMA CreateApplied ==
  ASSUME ApplierAssumption, TypeOK, ApplyInv,
         NEW x \in todo, NEW part \in {"namespaces", "crds", "others"},
         (part = "others" /\ pc = "retry") \/ part = pc,
         pc = "retry" => x = current, Create(part, x)
  PROVE  ApplyInv'
<1> USE DEF TypeOK, ServerType, ProcessType
<1>1. x \in Set /\ Set \subseteq Objects /\ x \notin Done
  BY DEF Set, Objects, Done, ApplierAssumption, Definitions
<1>2. Creation(x) \in {"created", "exists", "noCRD", "forbidden"}
  BY <1>1, AnswerType
<1>3. Creation(x) = "exists" => state[x] # "absent"
  BY DEF Creation
<1>4. /\ state' = IF Creation(x) = "created" THEN [state EXCEPT ![x] = "present"] ELSE state
      /\ leftover' = IF Creation(x) = "exists" /\ state[x] = "terminating"
                     THEN leftover \union {x} ELSE leftover
      /\ statused' = statused
  BY DEF Create
<1>5. CASE Creation(x) \in {"created", "exists"}
  <2>1. Created(part, x)
    BY <1>5 DEF Create
  <2>2. x \notin leftover' => state'[x] = "present"
    BY <1>1, <1>3, <1>4, <1>5
  <2>3. \A y \in Set \ {x} : state'[y] = state[y]
    BY <1>1, <1>4
  <2>4. leftover \subseteq leftover'
    BY <1>4
  <2>5. CASE x \in WithStatus
    <3>1. pc' = "status" /\ current' = x /\ todo' = todo /\ result' = result
      BY <2>1, <2>5 DEF Created
    <3>2. part = "others"
      BY <2>5 DEF ApplierAssumption, Definitions
    <3>3. Done' = Done /\ Done \subseteq Set \ {x}
      BY <1>1, <3>1, <3>2 DEF Done, Set
    <3>4. result = "none"
      BY <3>2 DEF ApplyInv
    <3> QED
      BY <1>4, <2>2, <2>3, <2>4, <3>1, <3>3, <3>4
      DEF ApplyInv, AppliedMeansComplete
  <2>6. CASE x \notin WithStatus
    <3>1. Continue(part, todo \ {x})
      BY <2>1, <2>6 DEF Created
    <3>2. /\ Done' \subseteq Done \union {x} /\ pc' # "status"
          /\ result' = result \/ (result' = "applied" /\ pc' = "idle" /\ Set \subseteq Done \union {x})
      BY <3>1, ContinueDone
    <3> QED
      BY <1>1, <1>4, <2>2, <2>3, <2>4, <2>6, <3>2, ProgressApplied
  <2> QED
    BY <2>5, <2>6
<1>6. CASE Creation(x) = "noCRD" /\ pc = "retry"
  <2>1. UNCHANGED <<process, state, leftover, statused>>
    BY <1>4, <1>6 DEF Create
  <2> QED
    BY <2>1 DEF process, ApplyInv, Done, AppliedMeansComplete
<1>7. CASE Creation(x) = "noCRD" /\ pc # "retry"
  <2>1. /\ UNCHANGED <<todo, result, state, leftover, statused>>
        /\ pc' = "waitCRD"
    BY <1>4, <1>7 DEF Create
  <2>2. part = "others"
    BY <1>1, <1>7, NoCRDType DEF ApplierAssumption, Definitions
  <2>3. Done' = Done
    BY <1>7, <2>1, <2>2 DEF Done
  <2> QED
    BY <1>7, <2>1, <2>2, <2>3 DEF ApplyInv, AppliedMeansComplete
<1>8. CASE Creation(x) = "forbidden"
  BY <1>8, FinishApplied DEF Create, Finish
<1> QED
  BY <1>2, <1>5, <1>6, <1>7, <1>8

LEMMA StatusApplied ==
  ASSUME ApplierAssumption, TypeOK, ApplyInv, ApplyStatus
  PROVE  ApplyInv'
<1>1. pc = "status" /\ current \in todo /\ current \in WithStatus /\ current \in Set
  BY DEF ApplyStatus, TypeOK, ProcessType, Set
<1>2. UNCHANGED <<state, leftover>>
  BY DEF ApplyStatus
<1>3. CASE state[current] = "absent"
  BY <1>3, FinishApplied DEF ApplyStatus, Finish
<1>4. CASE state[current] # "absent"
  <2>1. statused' = statused \union {current} /\ Continue("others", todo \ {current})
    BY <1>4 DEF ApplyStatus
  <2>2. /\ Done' \subseteq Done \union {current} /\ pc' # "status"
        /\ \/ result' = result
           \/ result' = "applied" /\ pc' = "idle" /\ Set \subseteq Done \union {current}
    BY <1>1, <2>1, ContinueDone
  <2>3. current \notin leftover' => state'[current] = "present"
    BY <1>1, <1>2 DEF ApplyInv
  <2> QED
    BY <1>1, <1>2, <2>1, <2>2, <2>3, ProgressApplied
<1> QED
  BY <1>3, <1>4

LEMMA StepApplied ==
  ASSUME ApplierAssumption, TypeOK, ApplyInv, GoneInv, [Next]_vars
  PROVE  ApplyInv'
<1>1. CASE Controllers
  <2>1. /\ UNCHANGED <<process, leftover>>
        /\ \A x \in Set : state'[x] = state[x] \/ (state[x] = "terminating" /\ state'[x] = "absent")
        /\ statused' \subseteq statused
        /\ \A o \in statused \ statused' : state'[o] = "absent"
    BY <1>1, ControllersStep
  <2>2. Done' = Done /\ Done \subseteq Set /\ WithStatus \subseteq Set
    BY <2>1 DEF process, Done, Set, ApplierAssumption
  <2>3. pc = "status" => current \in Set
    BY <2>2 DEF TypeOK, ProcessType
  <2>4. AppliedMeansComplete'
    BY <2>1, <2>2 DEF process, ApplyInv, AppliedMeansComplete
  <2> QED
    BY <2>1, <2>2, <2>3, <2>4 DEF process, ApplyInv
<1>2. CASE StartApply \/ StartDelete
  BY <1>2, FinishApplied DEF StartApply, StartDelete
<1>3. CASE Crash
  BY <1>3, FinishApplied DEF Crash, Finish
<1>4. CASE CreateNext \/ Retry
  BY <1>4, CreateApplied DEF CreateNext, Retry, IsFirst, TypeOK, ProcessType
<1>5. CASE WaitCRDs
  <2>1. PICK d \in todo : Continue("waitCRDs", todo \ {d})
    BY <1>5 DEF WaitCRDs
  <2>2. pc = "waitCRDs" /\ UNCHANGED <<state, statused, leftover>> /\ d \in CRDs /\ d \in Set
    BY <1>5 DEF WaitCRDs, server, TypeOK, ProcessType, Set
  <2>3. /\ Done' \subseteq Done \union {d} /\ pc' # "status"
        /\ \/ result' = result
           \/ result' = "applied" /\ pc' = "idle" /\ Set \subseteq Done \union {d}
    BY <2>1, <2>2, ContinueDone
  <2>4. d \in Done /\ d \notin WithStatus
    BY <2>2 DEF Done, ApplierAssumption, Definitions
  <2>5. d \notin leftover' => state'[d] = "present"
    BY <2>2, <2>4 DEF ApplyInv
  <2> QED
    BY <2>2, <2>3, <2>4, <2>5, ProgressApplied
<1>6. CASE WaitCRD
  BY <1>6 DEF WaitCRD, server, ApplyInv, Done, AppliedMeansComplete
<1>7. CASE ApplyStatus
  BY <1>7, StatusApplied
<1>8. CASE ConflictStatus
  <2>1. CASE UNCHANGED <<pc, todo, current, result>>
    BY <1>8, <2>1 DEF ConflictStatus, server, ApplyInv, Done, AppliedMeansComplete
  <2>2. CASE Finish("error")
    BY <2>2, FinishApplied DEF Finish
  <2> QED
    BY <1>8, <2>1, <2>2 DEF ConflictStatus
<1>9. CASE Deleting \/ MissDeletion \/ FailDelete
  <2>1. pc \in DeleteParts
    BY <1>9 DEF Deleting, DeleteOther, Disappear, Watch, SeeDeletion, DeleteNamespace, DeleteCRD,
                MissDeletion, FailDelete
  <2>2. pc' \in {"idle"} \union DeleteParts /\ result' \in {result, "error", "deleted"}
    <3>1. CASE DeleteOther
      BY <3>1 DEF DeleteOther, NamespacesNext, Finish
    <3>2. CASE Disappear \/ Watch \/ SeeDeletion \/ MissDeletion
      BY <3>2 DEF Disappear, Watch, SeeDeletion, MissDeletion, Finish
    <3>3. CASE DeleteNamespace
      BY <3>3 DEF DeleteNamespace, NamespacesNext, DefinitionsNext, Finish
    <3>4. CASE DeleteCRD
      BY <3>4 DEF DeleteCRD, Finish
    <3>5. CASE FailDelete
      BY <3>5 DEF FailDelete, Finish
    <3> QED
      BY <1>9, <3>1, <3>2, <3>3, <3>4, <3>5 DEF Deleting
  <2>3. result = "none"
    BY <2>1 DEF ApplyInv
  <2>4. result' # "none" => pc' = "idle"
    BY <1>9, StepGone DEF GoneInv, DeleteInv, Next
  <2> QED
    BY <2>2, <2>3, <2>4, FinishApplied
<1>10. CASE FailStep
  BY <1>10, FinishApplied DEF FailStep, Finish
<1>11. CASE UNCHANGED vars
  BY <1>11 DEF vars, server, process, ApplyInv, Done, AppliedMeansComplete
<1> QED
  BY <1>1, <1>2, <1>3, <1>4, <1>5, <1>6, <1>7, <1>8, <1>9, <1>10, <1>11 DEF Next, Applying

LEMMA InitApplied == Init => ApplyInv
BY DEF Init, ApplyInv, Done, AppliedMeansComplete

LEMMA AlwaysApplied == Spec => []ApplyInv
<1>1. ApplierAssumption
  BY ApplierAssumption
<1> QED
  BY <1>1, InitApplied, StepApplied, ApplierTypeCorrect, AlwaysGone, PTL DEF Spec

\* When an apply reports success every object of the set exists, but for the ones
\* that it found marked for deletion, and has its status, also after an apply that
\* was killed between the creation and the status.
THEOREM ApplyIsComplete == Spec => []AppliedMeansComplete
<1>1. ApplyInv => AppliedMeansComplete
  BY DEF ApplyInv
<1> QED
  BY <1>1, AlwaysApplied, PTL

-----------------------------------------------------------------------------
(* The status goes away with the object. *)

StatusInv == \A o \in statused : state[o] # "absent"

LEMMA StepStatus ==
  ASSUME ApplierAssumption, TypeOK, StatusInv, [Next]_vars
  PROVE  StatusInv'
<1> USE DEF TypeOK, ServerType
<1>1. statused \subseteq Others /\ Others \subseteq Objects
  BY DEF ApplierAssumption, Objects, Set
<1>2. CASE UNCHANGED <<state, statused>>
  BY <1>2 DEF StatusInv
<1>3. ASSUME NEW x \in Objects, Finalize(x) \/ Vanish(x)
      PROVE  StatusInv'
  BY <1>1, <1>3 DEF Finalize, Vanish, StatusInv, ApplierAssumption
<1>4. ASSUME NEW d \in Definitions, Establish(d) \/ Serve(d) \/ InstallOperator(d)
      PROVE  StatusInv'
  BY <1>1, <1>4 DEF Establish, Serve, InstallOperator, StatusInv
<1>5. ASSUME NEW x \in Set, NEW part \in {"namespaces", "crds", "others"}, Create(part, x)
      PROVE  StatusInv'
  BY <1>1, <1>5 DEF Create, StatusInv
<1>6. CASE ApplyStatus
  BY <1>6 DEF ApplyStatus, StatusInv
<1>7. CASE DeleteOther
  <2>1. PICK o \in todo :
          /\ state' = IF IsKnown(o) /\ state[o] = "present" THEN [state EXCEPT ![o] = Deleted(o)]
                                                          ELSE state
          /\ statused' = IF state'[o] = "absent" THEN statused \ {o} ELSE statused
    BY <1>7 DEF DeleteOther
  <2> QED
    BY <1>1, <2>1 DEF StatusInv
<1>8. CASE DeleteNamespace \/ DeleteCRD
  <2>1. statused' = statused
    BY <1>8 DEF DeleteNamespace, DeleteCRD
  <2>2. PICK x : state' = state \/ state' = [state EXCEPT ![x] = "terminating"]
    <3>1. CASE DeleteNamespace
      BY <3>1 DEF DeleteNamespace
    <3>2. CASE DeleteCRD
      BY <3>2 DEF DeleteCRD
    <3> QED
      BY <1>8, <3>1, <3>2
  <2> QED
    BY <1>1, <2>1, <2>2 DEF StatusInv
<1>9. CASE CreateNext \/ Retry
  BY <1>5, <1>9 DEF CreateNext, Retry, IsFirst, ProcessType, Set, ObjectParts
<1>10. CASE StartApply \/ StartDelete \/ Crash \/ WaitCRDs \/ WaitCRD \/ ConflictStatus \/ Disappear
            \/ Watch \/ SeeDeletion \/ MissDeletion \/ FailStep \/ FailDelete \/ UNCHANGED vars
  BY <1>2, <1>10 DEF StartApply, StartDelete, Crash, WaitCRDs, WaitCRD, ConflictStatus, Disappear, Watch,
                    SeeDeletion, MissDeletion, FailStep, FailDelete, vars, server
<1> QED
  BY <1>3, <1>4, <1>6, <1>7, <1>8, <1>9, <1>10 DEF Next, Controllers, Applying, Deleting

LEMMA AlwaysStatus == Spec => []StatusInv
<1>1. ApplierAssumption
  BY ApplierAssumption
<1>2. Init => StatusInv
  BY DEF Init, StatusInv
<1> QED
  BY <1>1, <1>2, StepStatus, ApplierTypeCorrect, PTL DEF Spec

-----------------------------------------------------------------------------
(* The applier implements the set of objects. *)

\* A step of the controllers.
LEMMA ControllersKeepPromise ==
  ASSUME ApplierAssumption, TypeOK, Controllers
  PROVE  [Promise!Next]_(Promise!vars)
<1> USE DEF TypeOK, ServerType
<1>1. ASSUME NEW d \in Definitions, Establish(d) \/ Serve(d)
      PROVE  UNCHANGED Promise!vars
  BY <1>1 DEF Establish, Serve, process, Promise!vars
<1>2. ASSUME NEW d \in Definitions, InstallOperator(d)
      PROVE  Promise!Next
  <2>1. d \in OperatorCRDs /\ Promise!Install(d)
    BY <1>2 DEF InstallOperator, process, Promise!Install
  <2> QED
    BY <2>1 DEF Promise!Next
<1>3. ASSUME NEW x \in Objects, Finalize(x)
      PROVE  Promise!Next
  <2>1. x \in Promise!Set /\ x \notin Namespaces
    BY <1>3 DEF Finalize, ApplierAssumption, Promise!Set
  <2>2. Promise!Vanish(x)
    BY <1>3, <2>1 DEF Finalize, process, Promise!Vanish
  <2> QED
    BY <2>1, <2>2 DEF Promise!Next, Promise!Objects
<1>4. ASSUME NEW x \in Objects, Vanish(x)
      PROVE  Promise!Next
  <2>1. state[x] = "terminating" /\ statused \ {x} = statused
    BY <1>4 DEF Vanish, ApplierAssumption
  <2>2. x \in Namespaces => \A o \in Promise!Inside(x) : state[o] = "absent"
    BY <1>4 DEF Vanish, Promise!Inside
  <2>3. Promise!Vanish(x)
    BY <1>4, <2>1, <2>2 DEF Vanish, process, Promise!Vanish
  <2> QED
    BY <2>3 DEF Promise!Next, Promise!Objects, Promise!Set, Objects, Set
<1> QED
  <2>1. CASE \E d \in Definitions : Establish(d) \/ Serve(d) \/ InstallOperator(d)
    BY <2>1, <1>1, <1>2
  <2>2. CASE \E x \in Objects : Finalize(x) \/ Vanish(x)
    BY <2>2, <1>3, <1>4
  <2> QED
    BY <2>1, <2>2 DEF Controllers

\* How a step of a command may go on or end.
LEMMA ApplyKeepsPromise ==
  ASSUME command = "apply", AppliedMeansComplete',
         \/ Promise!Untouched
         \/ \E x \in Set : Promise!Add(x) \/ Promise!LeaveAlone(x)
         \/ \E o \in WithStatus : Promise!SetStatus(o),
         \/ UNCHANGED <<command, result>>
         \/ command' = "idle" /\ result' \in {"applied", "error"}
  PROVE  Promise!Next
<1>1. result' = "applied" => Promise!Complete'
  BY DEF AppliedMeansComplete, Promise!Complete, Promise!Set, Set
<1>2. Promise!GoesOn \/ Promise!Reports("error") \/ (Promise!Reports("applied") /\ Promise!Complete')
  BY <1>1 DEF Promise!GoesOn, Promise!Reports
<1>3. Promise!Apply
  BY <1>2 DEF Promise!Apply, Promise!Set, Set
<1> QED
  BY <1>3 DEF Promise!Next

LEMMA DeleteKeepsPromise ==
  ASSUME command = "delete", DeletedMeansGone',
         Promise!Untouched \/ \E x \in Set : Promise!Take(x),
         \/ UNCHANGED <<command, result>>
         \/ command' = "idle" /\ result' \in {"deleted", "error"}
  PROVE  Promise!Next
<1>1. result' = "deleted" => Promise!Empty'
  BY DEF DeletedMeansGone, Promise!Empty, Promise!Set, Promise!Namespaced, Set
<1>2. Promise!GoesOn \/ Promise!Reports("error") \/ (Promise!Reports("deleted") /\ Promise!Empty')
  BY <1>1 DEF Promise!GoesOn, Promise!Reports
<1>3. Promise!Delete
  BY <1>2 DEF Promise!Delete, Promise!Set, Set
<1> QED
  BY <1>3 DEF Promise!Next

\* The request to create an object, whatever follows it.
LEMMA CreateKeepsPromise ==
  ASSUME ApplierAssumption, TypeOK, AppliedMeansComplete', command = "apply",
         NEW x \in Set, NEW part \in {"namespaces", "crds", "others"}, Create(part, x)
  PROVE  [Promise!Next]_(Promise!vars)
<1>1. Creation(x) \in {"created", "exists", "noCRD", "forbidden"}
  BY AnswerType
<1>2. /\ state' = IF Creation(x) = "created" THEN [state EXCEPT ![x] = "present"] ELSE state
      /\ leftover' = IF Creation(x) = "exists" /\ state[x] = "terminating"
                     THEN leftover \union {x} ELSE leftover
      /\ statused' = statused
  BY DEF Create
<1>3. CASE Creation(x) = "created"
  <2>1. state[x] = "absent" /\ \A y \in Needs(x) : state[y] = "present"
    BY <1>3 DEF Creation
  <2>2. x \in Promise!Namespaced => NamespaceOf[x] \in Needs(x)
    BY DEF Promise!Namespaced, Needs, ApplierAssumption, Objects, Set
  <2>3. Promise!Add(x)
    BY <1>2, <1>3, <2>1, <2>2 DEF Promise!Add
  <2>4. \/ UNCHANGED <<command, result>>
        \/ command' = "idle" /\ result' \in {"applied", "error"}
    BY <1>3 DEF Create, Created, Continue
  <2> QED
    BY <2>3, <2>4, ApplyKeepsPromise
<1>4. CASE Creation(x) # "created"
  <2>1. Promise!Untouched \/ Promise!LeaveAlone(x)
    BY <1>2, <1>4 DEF Promise!Untouched, Promise!LeaveAlone
  <2>2. \/ UNCHANGED <<command, result>>
        \/ command' = "idle" /\ result' \in {"applied", "error"}
    BY <1>1, <1>4 DEF Create, Created, Continue, Finish, process
  <2> QED
    BY <2>1, <2>2, ApplyKeepsPromise
<1> QED
  BY <1>3, <1>4

LEMMA ApplyingKeepsPromise ==
  ASSUME ApplierAssumption, TypeOK, AppliedMeansComplete', Applying \/ ConflictStatus
  PROVE  [Promise!Next]_(Promise!vars)
<1>1. command = "apply"
  BY DEF Applying, CreateNext, WaitCRDs, WaitCRD, Retry, ApplyStatus, ConflictStatus, TypeOK,
         ProcessType, ApplyParts, ObjectParts
<1>2. CASE CreateNext \/ Retry
  BY <1>1, <1>2, CreateKeepsPromise DEF CreateNext, Retry, IsFirst, TypeOK, ProcessType, Set,
                                        ObjectParts
<1>3. CASE WaitCRDs \/ WaitCRD \/ ConflictStatus
  <2>1. Promise!Untouched
    BY <1>3 DEF WaitCRDs, WaitCRD, ConflictStatus, server, Promise!Untouched
  <2>2. \/ UNCHANGED <<command, result>>
        \/ command' = "idle" /\ result' \in {"applied", "error"}
    BY <1>3 DEF WaitCRDs, WaitCRD, ConflictStatus, Continue, Finish
  <2> QED
    BY <1>1, <2>1, <2>2, ApplyKeepsPromise
<1>4. CASE ApplyStatus
  <2>1. current \in WithStatus
    BY <1>4 DEF ApplyStatus, TypeOK, ProcessType
  <2>2. Promise!Untouched \/ Promise!SetStatus(current)
    BY <1>4 DEF ApplyStatus, Promise!Untouched, Promise!SetStatus
  <2>3. \/ UNCHANGED <<command, result>>
        \/ command' = "idle" /\ result' \in {"applied", "error"}
    BY <1>4 DEF ApplyStatus, Continue, Finish
  <2> QED
    BY <1>1, <2>1, <2>2, <2>3, ApplyKeepsPromise
<1> QED
  BY <1>2, <1>3, <1>4 DEF Applying

\* The deletion of a namespace finds it empty: that is so after it too, by the invariant.
LEMMA DeletingKeepsPromise ==
  ASSUME ApplierAssumption, TypeOK, GoneInv, StatusInv, DeletedMeansGone',
         Deleting \/ MissDeletion \/ FailDelete
  PROVE  [Promise!Next]_(Promise!vars)
<1> USE DEF TypeOK, ServerType, ProcessType
<1>1. command = "delete"
  BY DEF Deleting, DeleteOther, Disappear, Watch, SeeDeletion, DeleteNamespace, DeleteCRD,
         MissDeletion, FailDelete, DeleteParts, WaitParts
<1>2. leftover' = leftover
  BY DEF Deleting, DeleteOther, Disappear, Watch, SeeDeletion, DeleteNamespace, DeleteCRD,
         MissDeletion, FailDelete
<1>3. \/ UNCHANGED <<command, result>>
      \/ command' = "idle" /\ result' \in {"deleted", "error"}
  <2>1. CASE DeleteOther
    BY <2>1 DEF DeleteOther, NamespacesNext, Finish
  <2>2. CASE Disappear \/ Watch \/ SeeDeletion \/ MissDeletion
    BY <2>2 DEF Disappear, Watch, SeeDeletion, MissDeletion, Finish
  <2>3. CASE DeleteNamespace
    BY <2>3 DEF DeleteNamespace, NamespacesNext, DefinitionsNext, Finish
  <2>4. CASE DeleteCRD \/ FailDelete
    BY <2>4 DEF DeleteCRD, FailDelete, Finish
  <2> QED
    BY <2>1, <2>2, <2>3, <2>4 DEF Deleting
<1>4. CASE Disappear \/ Watch \/ SeeDeletion \/ MissDeletion \/ FailDelete
  <2>1. Promise!Untouched
    BY <1>2, <1>4 DEF Disappear, Watch, SeeDeletion, MissDeletion, FailDelete, server,
                      Promise!Untouched
  <2> QED
    BY <1>1, <1>3, <2>1, DeleteKeepsPromise
<1>5. CASE DeleteOther
  <2>1. PICK o \in todo :
          /\ state' = IF IsKnown(o) /\ state[o] = "present" THEN [state EXCEPT ![o] = Deleted(o)]
                                                          ELSE state
          /\ statused' = IF state'[o] = "absent" THEN statused \ {o} ELSE statused
    BY <1>5 DEF DeleteOther
  <2>2. o \in Others /\ o \in Set /\ o \in Objects /\ o \notin Namespaces
    BY <1>5 DEF DeleteOther, Set, Objects, ApplierAssumption
  <2>3. CASE IsKnown(o) /\ state[o] = "present"
    <3>1. state' = [state EXCEPT ![o] = Deleted(o)] /\ state'[o] = Deleted(o)
      BY <2>1, <2>2, <2>3
    <3>2. Promise!Take(o)
      BY <1>2, <2>1, <2>2, <2>3, <3>1 DEF Promise!Take, Deleted
    <3> QED
      BY <1>1, <1>3, <2>2, <3>2, DeleteKeepsPromise
  <2>4. CASE ~(IsKnown(o) /\ state[o] = "present")
    <3>1. state' = state /\ statused' = statused
      BY <2>1, <2>4 DEF StatusInv
    <3> QED
      BY <1>1, <1>2, <1>3, <3>1, DeleteKeepsPromise DEF Promise!Untouched
  <2> QED
    BY <2>3, <2>4
<1>6. CASE DeleteNamespace
  <2>1. current \in Namespaces /\ waiting = {} /\ pc \in WaitParts /\ statused' = statused
    BY <1>6 DEF DeleteNamespace, WaitParts
  <2>2. \A o \in Promise!Inside(current) : state[o] = "absent"
    BY <2>1 DEF GoneInv, WaitInv, Promise!Inside, Inside
  <2>3. current \in Set
    BY <2>1 DEF Set
  <2>4. Promise!Untouched \/ Promise!Take(current)
    BY <1>2, <1>6, <2>1, <2>2 DEF DeleteNamespace, Promise!Untouched, Promise!Take
  <2> QED
    BY <1>1, <1>3, <2>3, <2>4, DeleteKeepsPromise
<1>7. CASE DeleteCRD
  <2>1. PICK d \in todo :
          state' = IF state[d] = "present" THEN [state EXCEPT ![d] = "terminating"] ELSE state
    BY <1>7 DEF DeleteCRD
  <2>2. d \in Set /\ d \notin Namespaces /\ statused' = statused
    BY <1>7 DEF DeleteCRD, Set, ApplierAssumption, Definitions
  <2>3. Promise!Untouched \/ Promise!Take(d)
    BY <1>2, <2>1, <2>2 DEF Promise!Untouched, Promise!Take
  <2> QED
    BY <1>1, <1>3, <2>2, <2>3, DeleteKeepsPromise
<1> QED
  BY <1>4, <1>5, <1>6, <1>7 DEF Deleting

LEMMA StepKeepsPromise ==
  ASSUME ApplierAssumption, TypeOK, GoneInv, StatusInv, AppliedMeansComplete', DeletedMeansGone',
         [Next]_vars
  PROVE  [Promise!Next]_(Promise!vars)
<1>1. CASE Controllers
  BY <1>1, ControllersKeepPromise
<1>2. CASE StartApply \/ StartDelete
  <2>1. Promise!Begin("apply") \/ Promise!Begin("delete")
    BY <1>2 DEF StartApply, StartDelete, server, Promise!Begin
  <2> QED
    BY <2>1 DEF Promise!Next
<1>3. CASE Crash
  <2>1. Promise!Die
    BY <1>3 DEF Crash, Finish, server, Promise!Die, Promise!Untouched, Promise!Reports
  <2> QED
    BY <2>1 DEF Promise!Next
<1>4. CASE Applying \/ ConflictStatus
  BY <1>4, ApplyingKeepsPromise
<1>5. CASE Deleting \/ MissDeletion \/ FailDelete
  BY <1>5, DeletingKeepsPromise
<1>6. CASE FailStep
  <2>1. /\ Promise!Untouched /\ command \in {"apply", "delete"}
        /\ command' = "idle" /\ result' = "error"
    BY <1>6 DEF FailStep, Finish, server, Promise!Untouched, TypeOK, ProcessType, ApplyParts,
                ObjectParts
  <2> QED
    BY <2>1, ApplyKeepsPromise, DeleteKeepsPromise
<1>7. CASE UNCHANGED vars
  BY <1>7 DEF vars, server, process, Promise!vars
<1> QED
  BY <1>1, <1>2, <1>3, <1>4, <1>5, <1>6, <1>7 DEF Next

\* The applier implements the set of objects: whatever its commands know, wait for, retry
\* or leave half done, they add or take away one object at a time, a namespace only when it
\* is empty, and their success means that the set is complete, or gone.
THEOREM ApplierImplementsObjectSet == Spec => ImplementsObjectSet
<1>1. ApplierAssumption
  BY ApplierAssumption
<1>2. Init => Promise!Init
  BY DEF Init, Promise!Init, Promise!Objects, Promise!Set, Objects, Set
<1> QED
  BY <1>1, <1>2, StepKeepsPromise, ApplierTypeCorrect, AlwaysGone, AlwaysStatus, ApplyIsComplete,
     DeleteIsComplete, PTL
  DEF Spec, ImplementsObjectSet, Promise!Spec

-----------------------------------------------------------------------------
(* What the end of the commands rests on, besides fairness: what they wait *)
(* for, and that each of their steps leaves less to do.                    *)

\* Nothing exists outside of its namespace.
HomeInv ==
  \A o \in Others :
    NamespaceOf[o] # NoNamespace /\ state[o] # "absent" => state[NamespaceOf[o]] # "absent"

LEMMA StepHome ==
  ASSUME ApplierAssumption, TypeOK, HomeInv, [Next]_vars
  PROVE  HomeInv'
<1> USE DEF TypeOK, ServerType
<1>1. /\ Others \subseteq Objects /\ Namespaces \subseteq Objects
      /\ \A o \in Others : o \notin Namespaces /\ (NamespaceOf[o] # NoNamespace => NamespaceOf[o] \in Namespaces)
      /\ \A d \in Definitions : d \notin Others /\ d \notin Namespaces
  BY DEF ApplierAssumption, Objects, Set
<1>2. CASE UNCHANGED state
  BY <1>2 DEF HomeInv
<1>3. CASE \E d \in Definitions : Establish(d) \/ Serve(d) \/ InstallOperator(d)
  BY <1>1, <1>3 DEF Establish, Serve, InstallOperator, HomeInv
<1>4. ASSUME NEW x \in Objects, Finalize(x) \/ Vanish(x)
      PROVE  HomeInv'
  <2>1. CASE Finalize(x)
    BY <1>1, <2>1 DEF Finalize, HomeInv
  <2>2. CASE Vanish(x)
    <3>1. /\ state' = [state EXCEPT ![x] = "absent"]
          /\ \A o \in Others : NamespaceOf[o] = x => state[o] = "absent"
      BY <2>2 DEF Vanish
    <3> QED
      BY <1>1, <3>1 DEF HomeInv
  <2> QED
    BY <1>4, <2>1, <2>2
<1>5. ASSUME NEW x \in Set, NEW part \in {"namespaces", "crds", "others"}, Create(part, x)
      PROVE  HomeInv'
  <2>1. CASE state' = state
    BY <2>1, <1>2
  <2>2. CASE state' # state
    <3>1. Creation(x) = "created" /\ state' = [state EXCEPT ![x] = "present"]
      BY <1>5, <2>2 DEF Create
    <3>2. x \in Others /\ NamespaceOf[x] # NoNamespace => state[NamespaceOf[x]] = "present"
      <4>1. \A y \in Needs(x) : state[y] = "present"
        BY <3>1 DEF Creation
      <4> QED
        BY <1>1, <4>1 DEF Needs, ApplierAssumption, Objects
    <3> QED
      BY <1>1, <3>1, <3>2 DEF HomeInv
  <2> QED
    BY <2>1, <2>2
<1>6. CASE CreateNext \/ Retry
  BY <1>5, <1>6 DEF CreateNext, Retry, IsFirst, ProcessType, Set, ObjectParts
<1>7. CASE DeleteOther
  <2>1. PICK o \in todo :
          state' = IF IsKnown(o) /\ state[o] = "present" THEN [state EXCEPT ![o] = Deleted(o)]
                                                        ELSE state
    BY <1>7 DEF DeleteOther
  <2>2. o \in Others
    BY <1>7 DEF DeleteOther, ProcessType
  <2> QED
    BY <1>1, <2>1, <2>2 DEF HomeInv
<1>8. CASE DeleteNamespace \/ DeleteCRD
  <2>1. PICK x :
          \/ state' = state
          \/ state' = [state EXCEPT ![x] = "terminating"] /\ state[x] = "present"
    <3>1. CASE DeleteNamespace
      BY <3>1 DEF DeleteNamespace
    <3>2. CASE DeleteCRD
      BY <3>2 DEF DeleteCRD
    <3> QED
      BY <1>8, <3>1, <3>2
  <2> QED
    BY <1>1, <2>1 DEF HomeInv
<1>9. CASE StartApply \/ StartDelete \/ Crash \/ WaitCRDs \/ WaitCRD \/ ApplyStatus \/ ConflictStatus
           \/ Disappear \/ Watch \/ SeeDeletion \/ MissDeletion \/ FailStep \/ FailDelete \/ UNCHANGED vars
  BY <1>2, <1>9 DEF StartApply, StartDelete, Crash, WaitCRDs, WaitCRD, ApplyStatus, ConflictStatus,
                   Disappear, Watch, SeeDeletion, MissDeletion, FailStep, FailDelete, vars, server
<1> QED
  BY <1>3, <1>4, <1>6, <1>7, <1>8, <1>9 DEF Next, Controllers, Applying, Deleting

\* A delete waits for an object that was marked for deletion, in a namespace where it can be
\* finalized; an apply, for a definition that it left in the server, unless it was going away.
WaitsFor ==
  /\ \A o \in waiting :
       \/ state[o] = "absent"
       \/ state[o] = "terminating" /\ state[NamespaceOf[o]] = "present"
  /\ pc = "waitCRDs" => \A d \in todo : state[d] = "present" \/ d \in leftover

\* What the waits of the commands are for can come: an operator finalizes the objects that a
\* delete waits for, and the server establishes the definitions that an apply waits for.
THEOREM WaitsCanEnd == Spec => []WaitsFor
<1>1. ApplierAssumption
  BY ApplierAssumption
<1>2. Init => HomeInv
  BY DEF Init, HomeInv, Objects, Set
<1>3. ApplierAssumption /\ TypeOK /\ GoneInv /\ OthersInv /\ ApplyInv /\ HomeInv => WaitsFor
  <2> SUFFICES ASSUME ApplierAssumption, TypeOK, GoneInv, OthersInv, ApplyInv, HomeInv
               PROVE  WaitsFor
    OBVIOUS
  <2>1. ASSUME NEW o \in waiting, state[o] # "absent"
        PROVE  state[o] = "terminating" /\ state[NamespaceOf[o]] = "present"
    <3>1. pc \in WaitParts /\ o \in Inside(current) /\ current \in Namespaces
      BY <2>1 DEF TypeOK, ProcessType
    <3>2. o \in Others /\ NamespaceOf[o] \in Namespaces /\ NamespaceOf[o] # NoNamespace
      BY <3>1 DEF Inside, ApplierAssumption, Objects, Set
    <3>3. state[o] = "terminating"
      BY <2>1, <3>1, <3>2 DEF OthersInv, TypeOK, ServerType, Objects, Set
    <3>4. state[NamespaceOf[o]] \notin {"absent", "terminating"}
      BY <2>1, <3>2 DEF HomeInv, GoneInv, NamespaceDeletedEmpty
    <3> QED
      BY <3>2, <3>3, <3>4 DEF TypeOK, ServerType, Objects, Set
  <2>2. ASSUME pc = "waitCRDs", NEW d \in todo PROVE state[d] = "present" \/ d \in leftover
    BY <2>2 DEF ApplyInv, Done, TypeOK, ProcessType
  <2> QED
    BY <2>1, <2>2 DEF WaitsFor
<1> QED
  BY <1>1, <1>2, <1>3, StepHome, ApplierTypeCorrect, AlwaysGone, AlwaysOthers, AlwaysApplied, PTL DEF Spec

\* The parts of a command, and the steps for one object, from the first to the last.
Stage ==
  CASE pc = "namespaces" -> 4
    [] pc \in {"crds", "deleteOthers"} -> 3
    [] pc \in {"waitCRDs"} \union WaitParts -> 2
    [] pc \in {"others", "deleteCRDs"} \union ObjectParts -> 1
    [] OTHER -> 0

Substage ==
  CASE pc = "others" -> MaxConflicts + 3
    [] pc = "waitCRD" -> MaxConflicts + 2
    [] pc = "retry" -> MaxConflicts + 1
    [] pc = "status" -> MaxConflicts - conflicts
    [] pc = "disappear" -> 3
    [] pc = "watch" -> 2
    [] pc = "watching" -> 1
    [] OTHER -> 0

\* The next part, or fewer objects in this one, or fewer in this namespace, or the next
\* step for the same object.
StageAdvances == Stage' < Stage
TodoAdvances == Stage' = Stage /\ todo' \subseteq todo /\ todo' # todo
WaitAdvances ==
  Stage' = Stage /\ todo' = todo /\ waiting' \subseteq waiting /\ waiting' # waiting
ObjectAdvances ==
  Stage' = Stage /\ todo' = todo /\ waiting' = waiting /\ Substage' < Substage

Advances ==
  command # "idle" =>
    \/ UNCHANGED process
    \/ StageAdvances \/ TodoAdvances \/ WaitAdvances \/ ObjectAdvances

LEMMA FinishAdvances ==
  ASSUME TypeOK, command # "idle", pc' = "idle"
  PROVE  StageAdvances
BY DEF TypeOK, ProcessType, StageAdvances, Stage

LEMMA ContinueAdvances ==
  ASSUME TypeOK, NEW part \in {"namespaces", "crds", "waitCRDs", "others"}, NEW x \in todo,
         \/ part = "others" /\ pc \in ObjectParts
         \/ part = pc,
         Continue(part, todo \ {x})
  PROVE  StageAdvances \/ TodoAdvances
<1>1. CASE todo \ {x} # {}
  <2>1. pc' = part /\ todo' = todo \ {x}
    BY <1>1 DEF Continue
  <2> QED
    BY <2>1 DEF TodoAdvances, Stage
<1>2. CASE todo \ {x} = {}
  <2>1. \/ part = "namespaces" /\ pc' \in {"others", "crds"}
        \/ part = "crds" /\ pc' = "waitCRDs"
        \/ part = "waitCRDs" /\ pc' = "others"
        \/ part = "others" /\ pc' = "idle"
    BY <1>2 DEF Continue
  <2> QED
    BY <2>1 DEF StageAdvances, Stage
<1> QED
  BY <1>1, <1>2

LEMMA CreateAdvances ==
  ASSUME ApplierAssumption, TypeOK, NEW x \in todo, NEW part \in {"namespaces", "crds", "others"},
         \/ part = "others" /\ pc = "retry"
         \/ part = pc,
         Create(part, x)
  PROVE  \/ UNCHANGED process
         \/ StageAdvances \/ TodoAdvances \/ ObjectAdvances
<1> USE DEF TypeOK, ProcessType
<1>1. x \in Set /\ command # "idle" /\ MaxConflicts \in Nat
  BY DEF Set, ApplierAssumption
<1>2. Creation(x) \in {"created", "exists", "noCRD", "forbidden"}
  BY <1>1, AnswerType
<1>3. CASE Creation(x) \in {"created", "exists"}
  <2>1. Created(part, x) /\ UNCHANGED <<conflicts, waiting>>
    BY <1>3 DEF Create
  <2>2. CASE x \in WithStatus
    <3>1. part = "others" /\ pc \in {"others", "retry"}
      BY <2>2 DEF ApplierAssumption, Definitions
    <3>2. pc' = "status" /\ todo' = todo /\ waiting' = waiting /\ conflicts' = 0
      BY <2>1, <2>2, <3>1 DEF Created
    <3> QED
      BY <1>1, <3>1, <3>2 DEF ObjectAdvances, Stage, Substage
  <2>3. CASE x \notin WithStatus
    BY <2>1, <2>3, ContinueAdvances DEF Created
  <2> QED
    BY <2>2, <2>3
<1>4. CASE Creation(x) = "noCRD" /\ pc = "retry"
  BY <1>4 DEF Create
<1>5. CASE Creation(x) = "noCRD" /\ pc # "retry"
  <2>1. part = "others" /\ pc = "others"
    BY <1>1, <1>5, NoCRDType DEF ApplierAssumption, Definitions
  <2>2. pc' = "waitCRD" /\ todo' = todo /\ waiting' = waiting
    BY <1>5 DEF Create
  <2> QED
    BY <1>1, <2>1, <2>2 DEF ObjectAdvances, Stage, Substage
<1>6. CASE Creation(x) = "forbidden"
  BY <1>1, <1>6, FinishAdvances DEF Create, Finish
<1> QED
  BY <1>2, <1>3, <1>4, <1>5, <1>6

LEMMA DeletingAdvances ==
  ASSUME TypeOK, Deleting \/ MissDeletion \/ FailDelete
  PROVE  StageAdvances \/ TodoAdvances \/ WaitAdvances \/ ObjectAdvances
<1> USE DEF TypeOK, ProcessType
<1>1. command # "idle"
  BY DEF Deleting, DeleteOther, Disappear, Watch, SeeDeletion, DeleteNamespace, DeleteCRD,
         MissDeletion, FailDelete
<1>2. CASE DeleteOther
  <2>1. PICK o \in todo, bad \in BOOLEAN :
          IF todo \ {o} # {}
          THEN todo' = todo \ {o} /\ pc' = pc
          ELSE NamespacesNext(Namespaces, failed \/ bad)
    BY <1>2 DEF DeleteOther, IsKnown
  <2>2. CASE todo \ {o} # {}
    BY <2>1, <2>2 DEF TodoAdvances, Stage
  <2>3. CASE todo \ {o} = {}
    <3>1. pc = "deleteOthers" /\ pc' \in {"idle", "disappear"}
      BY <1>2, <2>1, <2>3 DEF DeleteOther, NamespacesNext, Finish
    <3> QED
      BY <3>1 DEF StageAdvances, Stage
  <2> QED
    BY <2>2, <2>3
<1>3. CASE Disappear
  <2>1. PICK o \in waiting :
          \/ Finish("error")
          \/ waiting' = waiting \ {o} /\ UNCHANGED <<pc, todo>>
          \/ pc' = "watch" /\ UNCHANGED <<todo, waiting>>
    BY <1>3 DEF Disappear
  <2>2. CASE Finish("error")
    BY <1>1, <2>2, FinishAdvances DEF Finish
  <2>3. CASE waiting' = waiting \ {o} /\ UNCHANGED <<pc, todo>>
    BY <2>3 DEF WaitAdvances, Stage
  <2>4. CASE pc' = "watch" /\ UNCHANGED <<todo, waiting>>
    BY <1>3, <2>4 DEF Disappear, ObjectAdvances, Stage, Substage
  <2> QED
    BY <2>1, <2>2, <2>3, <2>4
<1>4. CASE Watch \/ MissDeletion
  BY <1>4 DEF Watch, MissDeletion, ObjectAdvances, Stage, Substage
<1>5. CASE SeeDeletion
  BY <1>5 DEF SeeDeletion, WaitAdvances, Stage
<1>6. CASE DeleteNamespace
  <2>1. pc = "disappear" /\ current \in todo
    BY <1>6 DEF DeleteNamespace
  <2>2. CASE todo = {current}
    <3>1. pc' \in {"idle", "deleteCRDs"}
      BY <1>6, <2>2 DEF DeleteNamespace, DefinitionsNext, Finish
    <3> QED
      BY <2>1, <3>1 DEF StageAdvances, Stage
  <2>3. CASE todo # {current}
    <3>1. pc' = "disappear" /\ todo' = todo \ {current}
      BY <1>6, <2>3 DEF DeleteNamespace, NamespacesNext
    <3> QED
      BY <2>1, <3>1 DEF TodoAdvances, Stage
  <2> QED
    BY <2>2, <2>3
<1>7. CASE DeleteCRD \/ FailDelete
  <2>1. \/ pc' = "idle"
        \/ \E x \in todo : todo' = todo \ {x} /\ pc' = pc
    <3>1. CASE DeleteCRD
      BY <3>1 DEF DeleteCRD, Finish
    <3>2. CASE FailDelete
      BY <3>2 DEF FailDelete, Finish
    <3> QED
      BY <1>7, <3>1, <3>2
  <2>2. CASE pc' = "idle"
    BY <1>1, <2>2, FinishAdvances
  <2>3. CASE \E x \in todo : todo' = todo \ {x} /\ pc' = pc
    BY <2>3 DEF TodoAdvances, Stage
  <2> QED
    BY <2>1, <2>2, <2>3
<1> QED
  BY <1>2, <1>3, <1>4, <1>5, <1>6, <1>7 DEF Deleting

LEMMA StepAdvances ==
  ASSUME ApplierAssumption, TypeOK, [Next]_vars
  PROVE  Advances
<1> SUFFICES ASSUME command # "idle"
             PROVE  \/ UNCHANGED process
                    \/ StageAdvances \/ TodoAdvances \/ WaitAdvances \/ ObjectAdvances
  BY DEF Advances
<1>1. CASE Controllers \/ UNCHANGED vars
  BY <1>1, ControllersStep DEF vars
<1>2. CASE StartApply \/ StartDelete
  BY <1>2 DEF StartApply, StartDelete
<1>3. CASE Crash \/ FailStep
  BY <1>3, FinishAdvances DEF Crash, FailStep, Finish
<1>4. CASE CreateNext
  BY <1>4, CreateAdvances DEF CreateNext, IsFirst
<1>5. CASE Retry
  BY <1>5, CreateAdvances DEF Retry, TypeOK, ProcessType
<1>6. CASE WaitCRDs
  BY <1>6, ContinueAdvances DEF WaitCRDs
<1>7. CASE WaitCRD
  <2>1. MaxConflicts \in Nat
    BY DEF ApplierAssumption
  <2> QED
    BY <1>7, <2>1 DEF WaitCRD, ObjectAdvances, Stage, Substage
<1>8. CASE ApplyStatus
  <2>1. pc = "status" /\ current \in todo
    BY <1>8 DEF ApplyStatus, TypeOK, ProcessType
  <2>2. Finish("error") \/ Continue("others", todo \ {current})
    BY <1>8 DEF ApplyStatus
  <2>3. CASE Finish("error")
    BY <2>3, FinishAdvances DEF Finish
  <2>4. CASE Continue("others", todo \ {current})
    BY <2>1, <2>4, ContinueAdvances
  <2> QED
    BY <2>2, <2>3, <2>4
<1>9. CASE ConflictStatus
  <2>1. CASE Finish("error")
    BY <2>1, FinishAdvances DEF Finish
  <2>2. CASE ~Finish("error")
    <3>1. pc = "status" /\ conflicts' = conflicts + 1 /\ UNCHANGED <<pc, todo, waiting>>
      BY <1>9, <2>2 DEF ConflictStatus
    <3>2. MaxConflicts \in Nat /\ conflicts \in Nat
      BY DEF ApplierAssumption, TypeOK, ProcessType
    <3> QED
      BY <3>1, <3>2 DEF ObjectAdvances, Stage, Substage
  <2> QED
    BY <2>1, <2>2
<1>10. CASE Deleting \/ MissDeletion \/ FailDelete
  BY <1>10, DeletingAdvances
<1> QED
  BY <1>1, <1>2, <1>3, <1>4, <1>5, <1>6, <1>7, <1>8, <1>9, <1>10 DEF Next, Applying

\* Each step of a command leaves less to do, in an order that can't go on for ever when the
\* set of objects is finite: the only thing that is repeated without getting anywhere is the
\* creation of an object whose namespace or definition is missing (createObject).
THEOREM ApplierCommandsAdvance == Spec => [][Advances]_vars
<1>1. ApplierAssumption
  BY ApplierAssumption
<1> QED
  BY <1>1, StepAdvances, ApplierTypeCorrect, PTL DEF Spec
=============================================================================
