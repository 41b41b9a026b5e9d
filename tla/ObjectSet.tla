-------------------------------- MODULE ObjectSet --------------------------------
(***************************************************************************)
(* What the Applier of ztp/internal/applier.go promises: a set of objects  *)
(* that a command adds to the server one by one, or takes away from it one *)
(* by one, and what the command has done when it reports success.  How it  *)
(* knows, orders, waits and retries is left to the module Applier.         *)
(***************************************************************************)
CONSTANTS Namespaces, CRDs, Others, OperatorCRDs, Operator, NamespaceOf, WithStatus, NoNamespace

Set == Namespaces \union CRDs \union Others
Objects == Set \union OperatorCRDs
Inside(n) == {o \in Others : NamespaceOf[o] = n}
Namespaced == {o \in Others : NamespaceOf[o] # NoNamespace}

VARIABLES
  state,      \* server: each object is absent, present or terminating
  statused,   \* server: the objects whose status is that of their template
  command,    \* idle, apply or delete
  result,     \* of the last command: none, applied, deleted or error
  leftover    \* objects that the apply found terminating, and left as they were

vars == <<state, statused, command, result, leftover>>

Init ==
  /\ state = [x \in Objects |-> "absent"] /\ statused = {}
  /\ command = "idle" /\ result = "none" /\ leftover = {}

-----------------------------------------------------------------------------
(* The server does what it was asked for, and nothing else. *)

\* The deletion of an object ends, that of a namespace when nothing is left inside of it.
Vanish(x) ==
  /\ state[x] = "terminating"
  /\ x \in Namespaces => \A o \in Inside(x) : state[o] = "absent"
  /\ state' = [state EXCEPT ![x] = "absent"]
  /\ statused' = statused \ {x}
  /\ UNCHANGED <<command, result, leftover>>

Install(d) ==
  /\ state[Operator[d]] = "present" /\ state[d] = "absent"
  /\ state' = [state EXCEPT ![d] = "present"]
  /\ UNCHANGED <<statused, command, result, leftover>>

-----------------------------------------------------------------------------
(* What a command may do in a step, and how it may end. *)

Begin(what) ==
  /\ command = "idle"
  /\ command' = what /\ result' = "none"
  /\ leftover' = IF what = "apply" THEN {} ELSE leftover
  /\ UNCHANGED <<state, statused>>

Add(x) ==
  /\ state[x] = "absent"
  /\ x \in Namespaced => state[NamespaceOf[x]] = "present"
  /\ state' = [state EXCEPT ![x] = "present"]
  /\ UNCHANGED <<statused, leftover>>

LeaveAlone(x) ==
  /\ state[x] = "terminating"
  /\ leftover' = leftover \union {x}
  /\ UNCHANGED <<state, statused>>

SetStatus(x) ==
  /\ state[x] # "absent"
  /\ statused' = statused \union {x}
  /\ UNCHANGED <<state, leftover>>

\* A namespace is only marked for deletion, and only when nothing is inside of it.
Take(x) ==
  /\ state[x] = "present"
  /\ \/ state' = [state EXCEPT ![x] = "terminating"] /\ UNCHANGED statused
     \/ /\ x \in Others
        /\ state' = [state EXCEPT ![x] = "absent"] /\ statused' = statused \ {x}
  /\ x \in Namespaces => \A o \in Inside(x) : state[o] = "absent"
  /\ UNCHANGED leftover

Untouched == UNCHANGED <<state, statused, leftover>>

\* The command goes on, or ends.
GoesOn == UNCHANGED <<command, result>>
Reports(what) == command' = "idle" /\ result' = what

\* Every object of the set is there with its status, but for those left alone.
Complete ==
  /\ \A x \in Set \ leftover : state[x] = "present"
  /\ \A o \in WithStatus : state[o] = "present" => o \in statused

\* The namespaces are empty, and every object of the set is there no more, or going away.
Empty ==
  /\ \A x \in Set : state[x] # "present"
  /\ \A o \in Namespaced : state[o] = "absent"

Apply ==
  /\ command = "apply"
  /\ Untouched \/ (\E x \in Set : Add(x) \/ LeaveAlone(x)) \/ \E o \in WithStatus : SetStatus(o)
  /\ GoesOn \/ Reports("error") \/ (Reports("applied") /\ Complete')

Delete ==
  /\ command = "delete"
  /\ Untouched \/ \E x \in Set : Take(x)
  /\ GoesOn \/ Reports("error") \/ (Reports("deleted") /\ Empty')

\* A command that is killed reports nothing.
Die == command # "idle" /\ Untouched /\ Reports("none")

Next ==
  \/ \E x \in Objects : Vanish(x)
  \/ \E d \in OperatorCRDs : Install(d)
  \/ \E what \in {"apply", "delete"} : Begin(what)
  \/ Apply \/ Delete \/ Die

Spec == Init /\ [][Next]_vars
=============================================================================
