------------------------- MODULE RestartableWatchProofs -------------------------
(***************************************************************************)
(* Proofs about the restartable watch, for any set of objects and any      *)
(* number of changes and interruptions: a reader that has caught up knows  *)
(* every existing object (NoLostObject) and no deleted one (NoGhostObject).*)
(***************************************************************************)
EXTENDS RestartableWatch, TLAPS

-----------------------------------------------------------------------------
(* The inductive invariant. *)

\* The version v is a change, other than a deletion, of the object o.
Gives(v, o) == log[v].object = o /\ log[v].type # "DELETED"

\* The version v is the deletion of the object o.
Takes(v, o) == log[v].object = o /\ log[v].type = "DELETED"

\* The log explains the objects that exist.
LogInv ==
  /\ compacted <= Len(log)
  /\ \A o \in live : \E v \in 1..Len(log) :
       Gives(v, o) /\ \A j \in (v + 1)..Len(log) : log[j].object # o
  /\ \A v \in 1..Len(log) : \A o \in Objects :
       Gives(v, o) => o \in live \/ \E j \in (v + 1)..Len(log) : Takes(j, o)

\* There is a goroutine that may still send.
Active == goroutine \in {"select", "send", "backoff"}

\* The versions after this one will still be received.
Resume == IF goroutine = "backoff" THEN version ELSE underlying.pos

\* What the reader knows, once it has read the event being sent.
Seen == Fold(view, pending)

\* The rest of an initial list is consistent with the position of its watch.
ListInv ==
  \A e \in underlying.list :
    /\ e.type = "ADDED"
    /\ e.version \in 1..underlying.pos
    /\ Gives(e.version, e.object)
    /\ \A j \in (e.version + 1)..underlying.pos : log[j].object # e.object

PosInv ==
  /\ version <= Len(log)
  /\ underlying.pos <= Len(log)
  /\ goroutine \in {"select", "send"} => version <= underlying.pos
  /\ goroutine = "none" => underlying.list = {}
  /\ goroutine = "backoff" => underlying.list = {}
  /\ ListInv

\* An existing object is known, or is still to be received.
LostInv ==
  Active /\ ~cut =>
    \A o \in live :
      \/ o \in Seen
      \/ \E e \in underlying.list : e.object = o
      \/ \E j \in (Resume + 1)..Len(log) : Gives(j, o)

\* A known object exists, or its deletion is still to be received.
GhostInv ==
  Active /\ ~forgot =>
    \A o \in Seen : o \in live \/ \E j \in (Resume + 1)..Len(log) : Takes(j, o)

\* Nothing has been read from a watch that may still start from "0".
FreshInv == /\ reader = "idle" => view = {} /\ goroutine = "none"
            /\ goroutine = "none" => view = {} /\ version = 0
            /\ ~forgot /\ version = 0 => Seen = {}

IInv == TypeOK /\ LogInv /\ PosInv /\ LostInv /\ GhostInv /\ FreshInv

-----------------------------------------------------------------------------
(* Type correctness. *)

\* An event of the log has the type of an event.
LEMMA EventAtType ==
  ASSUME TypeOK, NEW v \in 1..Len(log)
  PROVE  /\ EventAt(v) \in Event
         /\ EventAt(v) # NoEvent
         /\ EventAt(v).object = log[v].object
         /\ EventAt(v).type = log[v].type
<1>1. log \in Seq(Change)
  BY DEF TypeOK
<1>2. log[v] \in Change
  BY <1>1
<1>3. v \in Nat
  OBVIOUS
<1>4. log[v].type \in ChangeType /\ log[v].object \in Objects
  BY <1>2 DEF Change
<1>5. QED
  BY <1>3, <1>4 DEF EventAt, Event, NoEvent, ChangeType

\* The entries of an initial list have the type of an event.
LEMMA ListAtType ==
  ASSUME TypeOK, NEW c \in 0..Len(log)
  PROVE  ListAt(c) \in SUBSET Event
<1>1. ASSUME NEW i \in 1..c
      PROVE  [type |-> "ADDED", object |-> log[i].object, version |-> i] \in Event
  <2>1. log[i] \in Change
    BY <1>1 DEF TypeOK
  <2>2. QED
    BY <1>1, <2>1 DEF Event, Change, ChangeType
<1>2. QED
  BY <1>1 DEF ListAt

\* Folding an event of the watch into a set of objects gives a set of objects.
LEMMA FoldType ==
  ASSUME NEW known \in SUBSET Objects, NEW e \in Event \union Notice \union {NoEvent}
  PROVE  Fold(known, e) \in SUBSET Objects
  BY DEF Fold, Event, Notice, NoEvent, ChangeType

\* What Client.Watch and forward() assign to w.underlying.
LEMMA CreateUnderlyingType ==
  ASSUME TypeOK, compacted <= Len(log), CreateUnderlying
  PROVE  underlying' \in [open : BOOLEAN, list : SUBSET Event, pos : Nat]
<1>1. CASE version = 0
  <2>1. PICK c \in compacted..Len(log) :
          underlying' = [open |-> TRUE, list |-> ListAt(c), pos |-> c]
    BY <1>1 DEF CreateUnderlying
  <2>2. c \in 0..Len(log)
    BY <2>1 DEF TypeOK
  <2>3. ListAt(c) \in SUBSET Event
    BY <2>2, ListAtType
  <2>4. QED
    BY <2>1, <2>2, <2>3
<1>2. CASE version # 0
  <2>1. version \in Nat /\ underlying' = [open |-> TRUE, list |-> {}, pos |-> version]
    BY <1>2 DEF CreateUnderlying, TypeOK
  <2>2. QED
    BY <2>1
<1>3. QED
  BY <1>1, <1>2

\* Every step keeps the types (two parts of the inductive invariant are needed).
LEMMA NextTypeOK ==
  ASSUME TypeOK, compacted <= Len(log), reader = "idle" => goroutine = "none", [Next]_vars
  PROVE  TypeOK'
<1> USE DEF serverVars, watchVars, readerVars, history
<1>a. underlying \in [open : BOOLEAN, list : SUBSET Event, pos : Nat]
  BY DEF TypeOK
<1>b. [underlying EXCEPT !.open = FALSE] \in [open : BOOLEAN, list : SUBSET Event, pos : Nat]
  BY <1>a
<1>c. breaks + 1 \in Nat
  BY DEF TypeOK
<1>1. ASSUME NEW o \in Objects, Write(o) PROVE TypeOK'
  BY <1>1 DEF Write, TypeOK, Change, ChangeType
<1>2. ASSUME NEW o \in Objects, Delete(o) PROVE TypeOK'
  BY <1>2 DEF Delete, TypeOK, Change, ChangeType
<1>3. CASE Compact
  BY <1>3 DEF Compact, TypeOK
<1>4. CASE Break
  BY <1>4, <1>b, <1>c DEF Break, TypeOK
<1>5. CASE Expire
  BY <1>5 DEF Expire, TypeOK
<1>6. CASE BreakExpired
  BY <1>6, <1>b DEF BreakExpired, TypeOK
<1>7. CASE Open
  BY <1>7, CreateUnderlyingType DEF Open, TypeOK
<1>8. CASE ReceiveEvent
  <2>1. CASE \E e \in underlying.list :
               /\ underlying' = [underlying EXCEPT !.list = @ \ {e}]
               /\ version' = e.version
               /\ Sending(e)
    <3>1. PICK e \in underlying.list :
               /\ underlying' = [underlying EXCEPT !.list = @ \ {e}]
               /\ version' = e.version
               /\ Sending(e)
      BY <2>1
    <3>2. e \in Event /\ e # NoEvent
      BY <3>1 DEF TypeOK, Event, NoEvent, ChangeType
    <3>3. QED
      BY <1>8, <3>1, <3>2 DEF ReceiveEvent, Sending, TypeOK, Event
  <2>2. CASE /\ underlying.pos < Len(log)
             /\ underlying' = [underlying EXCEPT !.pos = @ + 1]
             /\ version' = underlying.pos + 1
             /\ Sending(EventAt(underlying.pos + 1))
    <3>1. underlying.pos + 1 \in 1..Len(log)
      BY <2>2 DEF TypeOK
    <3>2. EventAt(underlying.pos + 1) \in Event /\ EventAt(underlying.pos + 1) # NoEvent
      BY <3>1, EventAtType
    <3>3. QED
      BY <1>8, <2>2, <3>1, <3>2 DEF ReceiveEvent, Sending, TypeOK
  <2>3. QED
    BY <1>8, <2>1, <2>2 DEF ReceiveEvent
<1>9. CASE ReceiveBookmark
  BY <1>9 DEF ReceiveBookmark, Sending, TypeOK, Notice, NoEvent
<1>10. CASE ReceiveGone
  BY <1>10 DEF ReceiveGone, TypeOK
<1>11. CASE ReceiveError
  <2>1. [type |-> "ERROR", object |-> None, version |-> 0] \in Notice \ {NoEvent}
    BY DEF Notice, NoEvent
  <2>2. QED
    BY <1>11, <1>b, <1>c, <2>1 DEF ReceiveError, Sending, TypeOK
<1>12. CASE ReceiveClosed
  BY <1>12 DEF ReceiveClosed, TypeOK
<1>13. CASE SelectStop \/ SelectExpired
  BY <1>13 DEF SelectStop, SelectExpired, CloseEvents, TypeOK
<1>14. CASE Send
  BY <1>14, FoldType DEF Send, TypeOK
<1>15. CASE Recreate
  BY <1>15, CreateUnderlyingType DEF Recreate, TypeOK
<1>16. CASE GiveUp
  BY <1>16 DEF GiveUp, TypeOK
<1>17. CASE Leave
  BY <1>17 DEF Leave, TypeOK
<1>18. CASE SeeClosed
  BY <1>18 DEF SeeClosed, TypeOK
<1>19. CASE UNCHANGED vars
  BY <1>19 DEF vars, TypeOK
<1>20. QED
  BY <1>1, <1>2, <1>3, <1>4, <1>5, <1>6, <1>7, <1>8, <1>9, <1>10, <1>11, <1>12, <1>13, <1>14,
     <1>15, <1>16, <1>17, <1>18, <1>19 DEF Next, Server, Forward

-----------------------------------------------------------------------------
(* Steps that don't touch what the invariant talks about, but for the log. *)

\* Neither the log, nor the position of the watch, nor the reader's knowledge changes.
Quiet ==
  /\ UNCHANGED <<log, live, version, goroutine, pending, view, cut, forgot>>
  /\ underlying'.list = underlying.list
  /\ underlying'.pos = underlying.pos

QuietStep == Compact \/ Break \/ Expire \/ BreakExpired \/ Leave \/ SeeClosed \/ UNCHANGED vars

LEMMA QuietStepIsQuiet ==
  ASSUME TypeOK, QuietStep
  PROVE  Quiet /\ (reader' = reader \/ reader' = "left")
<1>1. underlying \in [open : BOOLEAN, list : SUBSET Event, pos : Nat]
  BY DEF TypeOK
<1>2. CASE Compact \/ Expire \/ Leave \/ SeeClosed \/ UNCHANGED vars
  BY <1>2 DEF Quiet, Compact, Expire, Leave, SeeClosed, vars, serverVars, watchVars,
              readerVars, history
<1>3. CASE Break \/ BreakExpired
  BY <1>1, <1>3 DEF Quiet, Break, BreakExpired, serverVars, readerVars, history
<1>4. QED
  BY <1>2, <1>3 DEF QuietStep

\* Quiet steps keep the positions and what the reader knows or will know.
LEMMA QuietKeeps ==
  ASSUME PosInv, LostInv, GhostInv, Quiet
  PROVE  PosInv' /\ LostInv' /\ GhostInv'
<1>1. Seen' = Seen /\ Resume' = Resume /\ Active' = Active
  BY DEF Quiet, Seen, Fold, Resume, Active
<1>2. PosInv'
  BY DEF Quiet, PosInv, ListInv, Gives
<1>3. LostInv'
  BY <1>1 DEF Quiet, LostInv, Gives
<1>4. GhostInv'
  BY <1>1 DEF Quiet, GhostInv, Takes
<1>5. QED
  BY <1>2, <1>3, <1>4

\* The next change that the goroutine waits for is within the log, or just after.
LEMMA ResumeType ==
  ASSUME TypeOK, PosInv
  PROVE  Resume \in 0..Len(log) /\ Len(log) \in Nat
  BY DEF TypeOK, PosInv, Resume

-----------------------------------------------------------------------------
(* The server writes. *)

\* A change is added at the end of the log, and the rest of it stays.
LEMMA AppendLog ==
  ASSUME TypeOK, NEW c \in Change, log' = Append(log, c)
  PROVE  /\ Len(log) \in Nat
         /\ Len(log') = Len(log) + 1
         /\ \A v \in 1..Len(log) : log'[v] = log[v]
         /\ log'[Len(log) + 1] = c
<1>1. log \in Seq(Change)
  BY DEF TypeOK
<1>2. QED
  BY <1>1

LEMMA WriteLogInv ==
  ASSUME TypeOK, LogInv, NEW o \in Objects, Write(o)
  PROVE  LogInv'
<1> DEFINE c == [type |-> IF o \in live THEN "MODIFIED" ELSE "ADDED", object |-> o]
           n == Len(log) + 1
<1>1. c \in Change /\ log' = Append(log, c) /\ c.type # "DELETED" /\ c.object = o
  BY DEF Change, ChangeType, Write
<1>2. /\ Len(log) \in Nat /\ Len(log') = n
      /\ \A v \in 1..Len(log) : log'[v] = log[v]
      /\ log'[n] = c
  BY <1>1, AppendLog
<1>3. live' = live \union {o} /\ compacted' = compacted /\ compacted \in Nat
  BY DEF Write, TypeOK
<1> HIDE DEF c
<1>4. compacted' <= Len(log')
  BY <1>2, <1>3 DEF LogInv
<1>5. ASSUME NEW p \in live'
      PROVE  \E v \in 1..Len(log') :
               Gives(v, p)' /\ \A j \in (v + 1)..Len(log') : log'[j].object # p
  <2>1. CASE p = o
    <3>1. Gives(Len(log), p)'
      BY <1>1, <1>2, <2>1 DEF Gives
    <3>2. QED
      BY <1>2, <3>1
  <2>2. CASE p # o
    <3>1. PICK v \in 1..Len(log) :
            Gives(v, p) /\ \A j \in (v + 1)..Len(log) : log[j].object # p
      BY <1>3, <2>2 DEF LogInv
    <3>2. v \in 1..Len(log') /\ Gives(v, p)'
      BY <1>2, <3>1 DEF Gives
    <3>3. \A j \in (v + 1)..Len(log') : log'[j].object # p
      BY <1>1, <1>2, <2>2, <3>1
    <3>4. QED
      BY <3>2, <3>3
  <2>3. QED
    BY <2>1, <2>2
<1>6. ASSUME NEW v \in 1..Len(log'), NEW p \in Objects, Gives(v, p)'
      PROVE  p \in live' \/ \E j \in (v + 1)..Len(log') : Takes(j, p)'
  <2>1. CASE v = n
    BY <1>1, <1>2, <1>3, <1>6, <2>1 DEF Gives
  <2>2. CASE v # n
    <3>1. v \in 1..Len(log) /\ Gives(v, p)
      BY <1>2, <1>6, <2>2 DEF Gives
    <3>2. p \in live \/ \E j \in (v + 1)..Len(log) : Takes(j, p)
      BY <3>1 DEF LogInv
    <3>3. QED
      BY <1>2, <1>3, <3>1, <3>2 DEF Takes
  <2>3. QED
    BY <2>1, <2>2
<1>7. QED
  BY <1>4, <1>5, <1>6 DEF LogInv

LEMMA DeleteLogInv ==
  ASSUME TypeOK, LogInv, NEW o \in Objects, Delete(o)
  PROVE  LogInv'
<1> DEFINE c == [type |-> "DELETED", object |-> o]
           n == Len(log) + 1
<1>1. c \in Change /\ log' = Append(log, c) /\ c.type = "DELETED" /\ c.object = o
  BY DEF Change, ChangeType, Delete
<1>2. /\ Len(log) \in Nat /\ Len(log') = n
      /\ \A v \in 1..Len(log) : log'[v] = log[v]
      /\ log'[n] = c
  BY <1>1, AppendLog
<1>3. live' = live \ {o} /\ compacted' = compacted /\ compacted \in Nat
  BY DEF Delete, TypeOK
<1> HIDE DEF c
<1>4. compacted' <= Len(log')
  BY <1>2, <1>3 DEF LogInv
<1>5. ASSUME NEW p \in live'
      PROVE  \E v \in 1..Len(log') :
               Gives(v, p)' /\ \A j \in (v + 1)..Len(log') : log'[j].object # p
  <2>1. PICK v \in 1..Len(log) :
          Gives(v, p) /\ \A j \in (v + 1)..Len(log) : log[j].object # p
    BY <1>3 DEF LogInv
  <2>2. v \in 1..Len(log') /\ Gives(v, p)'
    BY <1>2, <2>1 DEF Gives
  <2>3. \A j \in (v + 1)..Len(log') : log'[j].object # p
    BY <1>1, <1>2, <1>3, <2>1
  <2>4. QED
    BY <2>2, <2>3
<1>6. ASSUME NEW v \in 1..Len(log'), NEW p \in Objects, Gives(v, p)'
      PROVE  p \in live' \/ \E j \in (v + 1)..Len(log') : Takes(j, p)'
  <2>1. v \in 1..Len(log) /\ Gives(v, p)
    BY <1>1, <1>2, <1>6 DEF Gives
  <2>2. CASE p = o
    BY <1>1, <1>2, <2>1, <2>2 DEF Takes
  <2>3. CASE p # o
    <3>1. p \in live \/ \E j \in (v + 1)..Len(log) : Takes(j, p)
      BY <2>1 DEF LogInv
    <3>2. QED
      BY <1>2, <1>3, <2>1, <2>3, <3>1 DEF Takes
  <2>4. QED
    BY <2>2, <2>3
<1>7. QED
  BY <1>4, <1>5, <1>6 DEF LogInv

\* A change of the server keeps the positions, and what the reader knows or will know.
LEMMA ChangeKeeps ==
  ASSUME TypeOK, PosInv, LostInv, GhostInv, NEW o \in Objects, Write(o) \/ Delete(o)
  PROVE  PosInv' /\ LostInv' /\ GhostInv'
<1>1. PICK c \in Change :
        /\ log' = Append(log, c) /\ c.object = o
        /\ \/ c.type # "DELETED" /\ live' = live \union {o}
           \/ c.type = "DELETED" /\ live' = live \ {o}
  BY DEF Write, Delete, Change, ChangeType
<1>2. /\ Len(log) \in Nat /\ Len(log') = Len(log) + 1
      /\ \A v \in 1..Len(log) : log'[v] = log[v]
      /\ log'[Len(log) + 1] = c
  BY <1>1, AppendLog
<1>3. UNCHANGED <<underlying, version, goroutine, pending, view, cut, forgot>>
  BY DEF Write, Delete, watchVars, readerVars, history
<1>4. Seen' = Seen /\ Resume' = Resume /\ Active' = Active
  BY <1>3 DEF Seen, Fold, Resume, Active
<1>5. Resume \in 0..Len(log)
  BY ResumeType
<1>6. underlying.pos \in Nat
  BY DEF TypeOK
<1>7. ListInv'
  <2>1. SUFFICES ASSUME NEW e \in underlying.list
                 PROVE  /\ e.type = "ADDED"
                        /\ e.version \in 1..underlying.pos
                        /\ Gives(e.version, e.object)'
                        /\ \A j \in (e.version + 1)..underlying.pos : log'[j].object # e.object
    BY <1>3 DEF ListInv, Gives
  <2>2. /\ e.type = "ADDED"
        /\ e.version \in 1..underlying.pos
        /\ Gives(e.version, e.object)
        /\ \A j \in (e.version + 1)..underlying.pos : log[j].object # e.object
        /\ underlying.pos <= Len(log)
    BY DEF PosInv, ListInv
  <2>3. QED
    BY <1>2, <1>3, <1>6, <2>2 DEF Gives
<1>8. PosInv'
  BY <1>2, <1>3, <1>6, <1>7 DEF PosInv, TypeOK
<1>9. LostInv'
  <2>1. SUFFICES ASSUME Active, ~cut, NEW p \in live'
                 PROVE  \/ p \in Seen
                        \/ \E e \in underlying.list : e.object = p
                        \/ \E j \in (Resume + 1)..Len(log') : Gives(j, p)'
    BY <1>3, <1>4 DEF LostInv
  <2>2. CASE p \in live
    <3>1. \/ p \in Seen
          \/ \E e \in underlying.list : e.object = p
          \/ \E j \in (Resume + 1)..Len(log) : Gives(j, p)
      BY <2>1, <2>2 DEF LostInv
    <3>2. QED
      BY <1>2, <1>5, <3>1 DEF Gives
  <2>3. CASE p \notin live
    <3>1. p = o /\ c.type # "DELETED"
      BY <1>1, <2>1, <2>3
    <3>2. Gives(Len(log), p)'
      BY <1>1, <1>2, <3>1 DEF Gives
    <3>3. QED
      BY <1>2, <1>5, <3>2
  <2>4. QED
    BY <2>2, <2>3
<1>10. GhostInv'
  <2>1. SUFFICES ASSUME Active, ~forgot, NEW p \in Seen
                 PROVE  p \in live' \/ \E j \in (Resume + 1)..Len(log') : Takes(j, p)'
    BY <1>3, <1>4 DEF GhostInv
  <2>2. p \in live \/ \E j \in (Resume + 1)..Len(log) : Takes(j, p)
    BY <2>1 DEF GhostInv
  <2>3. CASE \E j \in (Resume + 1)..Len(log) : Takes(j, p)
    BY <1>2, <1>5, <2>3 DEF Takes
  <2>4. CASE p \in live /\ p \notin live'
    <3>1. p = o /\ c.type = "DELETED"
      BY <1>1, <2>4
    <3>2. Takes(Len(log), p)'
      BY <1>1, <1>2, <3>1 DEF Takes
    <3>3. QED
      BY <1>2, <1>5, <3>2
  <2>5. QED
    BY <2>2, <2>3, <2>4
<1>11. QED
  BY <1>8, <1>9, <1>10

-----------------------------------------------------------------------------
(* A new underlying watch. *)

\* Creating an underlying watch from "0" gives a list that is consistent with
\* its position, and forgets no object; from another version, it goes on there.
LEMMA CreateKeeps ==
  ASSUME TypeOK, LogInv, version <= Len(log), CreateUnderlying
  PROVE  /\ underlying'.pos \in 0..Len(log) /\ version <= underlying'.pos
         /\ \A e \in underlying'.list :
              /\ e.type = "ADDED"
              /\ e.version \in 1..underlying'.pos
              /\ Gives(e.version, e.object)
              /\ \A j \in (e.version + 1)..underlying'.pos : log[j].object # e.object
         /\ version = 0 =>
              \A o \in live : \/ \E e \in underlying'.list : e.object = o
                              \/ \E j \in (underlying'.pos + 1)..Len(log) : Gives(j, o)
         /\ version # 0 => underlying'.pos = version /\ underlying'.list = {}
<1> /\ version \in Nat /\ compacted \in Nat /\ Len(log) \in Nat
  BY DEF TypeOK
<1>1. CASE version = 0
  <2>1. PICK c \in compacted..Len(log) :
          underlying' = [open |-> TRUE, list |-> ListAt(c), pos |-> c]
    BY <1>1 DEF CreateUnderlying
  <2>2. underlying'.list = ListAt(c) /\ underlying'.pos = c /\ c \in 0..Len(log)
    BY <2>1
  <2>3. ASSUME NEW e \in ListAt(c)
        PROVE  /\ e.type = "ADDED"
               /\ e.version \in 1..c
               /\ Gives(e.version, e.object)
               /\ \A j \in (e.version + 1)..c : log[j].object # e.object
    <3>1. PICK i \in 1..c :
            /\ log[i].type # "DELETED"
            /\ \A j \in (i + 1)..c : log[j].object # log[i].object
            /\ e = [type |-> "ADDED", object |-> log[i].object, version |-> i]
      BY <2>3 DEF ListAt
    <3>2. QED
      BY <3>1 DEF Gives
  <2>4. ASSUME NEW o \in live
        PROVE  \/ \E e \in ListAt(c) : e.object = o
               \/ \E j \in (c + 1)..Len(log) : Gives(j, o)
    <3>1. PICK v \in 1..Len(log) :
            Gives(v, o) /\ \A j \in (v + 1)..Len(log) : log[j].object # o
      BY <2>4 DEF LogInv
    <3>2. CASE v > c
      BY <2>2, <3>1, <3>2
    <3>3. CASE v <= c
      <4>1. v \in 1..c /\ log[v].type # "DELETED" /\ log[v].object = o
        BY <2>2, <3>1, <3>3 DEF Gives
      <4>2. \A j \in (v + 1)..c : log[j].object # log[v].object
        BY <2>2, <3>1, <4>1
      <4>3. [type |-> "ADDED", object |-> log[v].object, version |-> v] \in ListAt(c)
        BY <4>1, <4>2 DEF ListAt
      <4>4. QED
        BY <4>1, <4>3
    <3>4. QED
      BY <2>2, <3>2, <3>3
  <2>5. QED
    BY <1>1, <2>2, <2>3, <2>4
<1>2. CASE version # 0
  <2>1. underlying' = [open |-> TRUE, list |-> {}, pos |-> version]
    BY <1>2 DEF CreateUnderlying
  <2>2. QED
    BY <1>2, <2>1
<1>3. QED
  BY <1>1, <1>2

LEMMA OpenKeeps ==
  ASSUME IInv, Open
  PROVE  PosInv' /\ LostInv' /\ GhostInv' /\ FreshInv'
<1>1. /\ TypeOK /\ LogInv /\ version = 0 /\ version <= Len(log) /\ CreateUnderlying
      /\ goroutine = "none" /\ view = {} /\ pending = NoEvent /\ Len(log) \in Nat
  BY DEF IInv, TypeOK, PosInv, FreshInv, Open
<1>2. /\ UNCHANGED <<log, live, version, pending, view, cut, forgot>>
      /\ goroutine' = "select" /\ reader' = "reading"
  BY DEF Open, serverVars, history
<1>3. /\ underlying'.pos \in 0..Len(log)
      /\ \A e \in underlying'.list :
           /\ e.type = "ADDED"
           /\ e.version \in 1..underlying'.pos
           /\ Gives(e.version, e.object)
           /\ \A j \in (e.version + 1)..underlying'.pos : log[j].object # e.object
      /\ \A o \in live : \/ \E e \in underlying'.list : e.object = o
                         \/ \E j \in (underlying'.pos + 1)..Len(log) : Gives(j, o)
  BY <1>1, CreateKeeps
<1>4. Seen' = {}
  BY <1>1, <1>2 DEF Seen, Fold, NoEvent
<1>5. Resume' = underlying'.pos
  BY <1>2 DEF Resume
<1>6. PosInv'
  BY <1>1, <1>2, <1>3 DEF PosInv, ListInv, Gives
<1>7. LostInv'
  BY <1>2, <1>3, <1>5 DEF LostInv, Gives
<1>8. GhostInv' /\ FreshInv'
  BY <1>2, <1>4 DEF GhostInv, FreshInv
<1>9. QED
  BY <1>6, <1>7, <1>8

LEMMA RecreateKeeps ==
  ASSUME IInv, Recreate
  PROVE  PosInv' /\ LostInv' /\ GhostInv' /\ FreshInv'
<1>1. /\ TypeOK /\ LogInv /\ version \in 0..Len(log) /\ CreateUnderlying
      /\ goroutine = "backoff" /\ underlying.list = {} /\ Len(log) \in Nat
  BY DEF IInv, TypeOK, PosInv, Recreate
<1>2. /\ UNCHANGED <<log, live, version, pending, view, cut, forgot, reader>>
      /\ goroutine' = "select"
  BY DEF Recreate, serverVars, readerVars, history
<1>3. /\ underlying'.pos \in 0..Len(log) /\ version <= underlying'.pos
      /\ \A e \in underlying'.list :
           /\ e.type = "ADDED"
           /\ e.version \in 1..underlying'.pos
           /\ Gives(e.version, e.object)
           /\ \A j \in (e.version + 1)..underlying'.pos : log[j].object # e.object
      /\ version = 0 =>
           \A o \in live : \/ \E e \in underlying'.list : e.object = o
                           \/ \E j \in (underlying'.pos + 1)..Len(log) : Gives(j, o)
      /\ version # 0 => underlying'.pos = version /\ underlying'.list = {}
  BY <1>1, CreateKeeps
<1>4. Seen' = Seen /\ Active /\ Active'
  BY <1>1, <1>2 DEF Seen, Fold, Active
<1>5. Resume' = underlying'.pos /\ Resume = version
  BY <1>1, <1>2 DEF Resume
<1>6. PosInv'
  BY <1>1, <1>2, <1>3 DEF PosInv, ListInv, Gives
<1>7. LostInv'
  <2>1. CASE version = 0
    BY <1>2, <1>3, <1>5, <2>1 DEF LostInv, Gives
  <2>2. CASE version # 0
    BY <1>1, <1>2, <1>3, <1>4, <1>5, <2>2 DEF LostInv, Gives, IInv
  <2>3. QED
    BY <2>1, <2>2
<1>8. GhostInv'
  <2>1. CASE version = 0
    BY <1>2, <1>4, <2>1 DEF GhostInv, IInv, FreshInv
  <2>2. CASE version # 0
    BY <1>2, <1>3, <1>4, <1>5, <2>2 DEF GhostInv, Takes, IInv
  <2>3. QED
    BY <2>1, <2>2
<1>9. FreshInv'
  BY <1>1, <1>2, <1>4 DEF IInv, FreshInv
<1>10. QED
  BY <1>6, <1>7, <1>8, <1>9

-----------------------------------------------------------------------------
(* The goroutine receives. *)

\* Reading a change tells the reader of its object, and of nothing else.
LEMMA FoldChange ==
  ASSUME NEW known, NEW e \in Event
  PROVE  /\ e.type # "DELETED" => Fold(known, e) = known \union {e.object}
         /\ e.type = "DELETED" => Fold(known, e) = known \ {e.object}
  BY DEF Fold, Event, ChangeType

\* An entry of the initial list.
LEMMA ReceiveListKeeps ==
  ASSUME IInv, goroutine = "select", NEW e \in underlying.list,
         underlying' = [underlying EXCEPT !.list = @ \ {e}],
         version' = e.version, Sending(e),
         UNCHANGED <<log, live, reader, view, cut, forgot>>
  PROVE  PosInv' /\ LostInv' /\ GhostInv' /\ FreshInv'
<1>1. /\ TypeOK /\ LogInv /\ PosInv /\ pending = NoEvent /\ Len(log) \in Nat
      /\ underlying \in [open : BOOLEAN, list : SUBSET Event, pos : Nat] /\ e \in Event
  BY DEF IInv, TypeOK
<1>2. underlying'.list = underlying.list \ {e} /\ underlying'.pos = underlying.pos
  BY <1>1
<1>3. /\ e.type = "ADDED" /\ e.version \in 1..underlying.pos /\ Gives(e.version, e.object)
      /\ \A j \in (e.version + 1)..underlying.pos : log[j].object # e.object
      /\ underlying.pos \in 0..Len(log) /\ e.object \in Objects
  BY <1>1 DEF PosInv, ListInv, Event
<1>4. Seen = view /\ Seen' = view \union {e.object}
  BY <1>1, <1>3, FoldChange DEF Seen, Sending, Fold, NoEvent
<1>5. Active /\ Active' /\ Resume = underlying.pos /\ Resume' = underlying.pos
  BY <1>2 DEF Active, Resume, Sending
<1>6. PosInv'
  BY <1>1, <1>2, <1>3 DEF PosInv, ListInv, Gives, Sending
<1>7. LostInv'
  <2>1. SUFFICES ASSUME ~cut, NEW o \in live
                 PROVE  \/ o \in Seen'
                        \/ \E f \in underlying'.list : f.object = o
                        \/ \E j \in (underlying.pos + 1)..Len(log) : Gives(j, o)
    BY <1>5 DEF LostInv, Gives
  <2>2. \/ o \in Seen
        \/ \E f \in underlying.list : f.object = o
        \/ \E j \in (underlying.pos + 1)..Len(log) : Gives(j, o)
    BY <1>5, <2>1 DEF IInv, LostInv
  <2>3. QED
    BY <1>2, <1>4, <2>2
<1>8. GhostInv'
  <2>1. SUFFICES ASSUME ~forgot, NEW o \in Seen'
                 PROVE  o \in live \/ \E j \in (underlying.pos + 1)..Len(log) : Takes(j, o)
    BY <1>5 DEF GhostInv, Takes
  <2>2. CASE o \in Seen
    BY <1>5, <2>1, <2>2 DEF IInv, GhostInv
  <2>3. CASE o = e.object
    <3>1. o \in live \/ \E j \in (e.version + 1)..Len(log) : Takes(j, o)
      BY <1>1, <1>3, <2>3 DEF LogInv
    <3>2. QED
      BY <1>3, <2>3, <3>1 DEF Takes
  <2>4. QED
    BY <1>4, <2>1, <2>2, <2>3
<1>9. FreshInv'
  BY <1>3 DEF IInv, FreshInv, Sending
<1>10. QED
  BY <1>6, <1>7, <1>8, <1>9

\* The next entry of the log.
LEMMA ReceiveLogKeeps ==
  ASSUME IInv, goroutine = "select", underlying.list = {}, underlying.pos < Len(log),
         underlying' = [underlying EXCEPT !.pos = @ + 1],
         version' = underlying.pos + 1, Sending(EventAt(underlying.pos + 1)),
         UNCHANGED <<log, live, reader, view, cut, forgot>>
  PROVE  PosInv' /\ LostInv' /\ GhostInv' /\ FreshInv'
<1> DEFINE v == underlying.pos + 1
           e == EventAt(v)
<1>1. /\ TypeOK /\ LogInv /\ PosInv /\ pending = NoEvent /\ Len(log) \in Nat
      /\ underlying \in [open : BOOLEAN, list : SUBSET Event, pos : Nat]
      /\ underlying.pos \in Nat
  BY DEF IInv, TypeOK
<1>2. underlying'.list = {} /\ underlying'.pos = v /\ v \in 1..Len(log)
  BY <1>1
<1>3. e \in Event /\ e.object = log[v].object /\ e.type = log[v].type /\ e.object \in Objects
  BY <1>1, <1>2, EventAtType DEF Event
<1>4. /\ Seen = view
      /\ e.type # "DELETED" => Seen' = view \union {e.object}
      /\ e.type = "DELETED" => Seen' = view \ {e.object}
  BY <1>1, <1>3, FoldChange DEF Seen, Sending, Fold, NoEvent
<1>5. Active /\ Active' /\ Resume = underlying.pos /\ Resume' = v
  BY <1>2 DEF Active, Resume, Sending
<1> HIDE DEF e
<1>6. PosInv'
  BY <1>1, <1>2 DEF PosInv, ListInv, Sending
<1>7. LostInv'
  <2>1. SUFFICES ASSUME ~cut, NEW o \in live
                 PROVE  o \in Seen' \/ \E j \in (v + 1)..Len(log) : Gives(j, o)
    BY <1>5 DEF LostInv, Gives
  <2>2. o \in Seen \/ \E j \in v..Len(log) : Gives(j, o)
    BY <1>5, <2>1 DEF IInv, LostInv
  <2>3. CASE e.type # "DELETED"
    BY <1>2, <1>3, <1>4, <2>2, <2>3 DEF Gives
  <2>4. CASE e.type = "DELETED"
    <3>1. PICK i \in 1..Len(log) :
            Gives(i, o) /\ \A j \in (i + 1)..Len(log) : log[j].object # o
      BY <1>1, <2>1 DEF LogInv
    <3>2. CASE o = e.object
      <4>1. i # v
        BY <1>3, <2>4, <3>1 DEF Gives
      <4>2. ~(v \in (i + 1)..Len(log))
        BY <1>3, <3>1, <3>2
      <4>3. i \in (v + 1)..Len(log)
        BY <1>2, <3>1, <4>1, <4>2
      <4>4. QED
        BY <3>1, <4>3
    <3>3. CASE o # e.object
      BY <1>2, <1>3, <1>4, <2>2, <2>4, <3>3 DEF Gives
    <3>4. QED
      BY <3>2, <3>3
  <2>5. QED
    BY <2>3, <2>4
<1>8. GhostInv'
  <2>1. SUFFICES ASSUME ~forgot, NEW o \in Seen'
                 PROVE  o \in live \/ \E j \in (v + 1)..Len(log) : Takes(j, o)
    BY <1>5 DEF GhostInv, Takes
  <2>2. CASE e.type # "DELETED" /\ o = e.object
    <3>1. Gives(v, o)
      BY <1>3, <2>2 DEF Gives
    <3>2. QED
      BY <1>1, <1>2, <1>3, <2>2, <3>1 DEF LogInv
  <2>3. CASE ~(e.type # "DELETED" /\ o = e.object)
    <3>1. o \in view /\ ~(e.type = "DELETED" /\ o = e.object)
      BY <1>4, <2>1, <2>3
    <3>2. o \in live \/ \E j \in v..Len(log) : Takes(j, o)
      BY <1>4, <1>5, <2>1, <3>1 DEF IInv, GhostInv
    <3>3. ~Takes(v, o)
      BY <1>3, <2>3, <3>1 DEF Takes
    <3>4. QED
      BY <1>2, <3>2, <3>3
  <2>4. QED
    BY <2>2, <2>3
<1>9. FreshInv'
  BY <1>1 DEF IInv, FreshInv, Sending
<1>10. QED
  BY <1>6, <1>7, <1>8, <1>9

LEMMA ReceiveEventKeeps ==
  ASSUME IInv, ReceiveEvent
  PROVE  PosInv' /\ LostInv' /\ GhostInv' /\ FreshInv'
<1>1. goroutine = "select" /\ UNCHANGED <<log, live, reader, view, cut, forgot>>
  BY DEF ReceiveEvent, serverVars, readerVars, history
<1>2. CASE \E e \in underlying.list :
             /\ underlying' = [underlying EXCEPT !.list = @ \ {e}]
             /\ version' = e.version
             /\ Sending(e)
  BY <1>1, <1>2, ReceiveListKeeps
<1>3. CASE /\ underlying.list = {}
           /\ underlying.pos < Len(log)
           /\ underlying' = [underlying EXCEPT !.pos = @ + 1]
           /\ version' = underlying.pos + 1
           /\ Sending(EventAt(underlying.pos + 1))
  BY <1>1, <1>3, ReceiveLogKeeps
<1>4. QED
  BY <1>2, <1>3 DEF ReceiveEvent

\* Bookmarks and errors are forwarded, and tell the reader nothing.
LEMMA ReceiveNoticeKeeps ==
  ASSUME IInv, ReceiveBookmark \/ ReceiveError
  PROVE  PosInv' /\ LostInv' /\ GhostInv' /\ FreshInv'
<1>1. /\ TypeOK /\ PosInv /\ goroutine = "select" /\ pending = NoEvent
      /\ underlying \in [open : BOOLEAN, list : SUBSET Event, pos : Nat]
      /\ UNCHANGED <<log, live, reader, view, cut, forgot>>
      /\ underlying'.list = underlying.list /\ underlying'.pos = underlying.pos
      /\ version' = version \/ version' = underlying.pos
      /\ goroutine' = "send" /\ pending'.type \in {"BOOKMARK", "ERROR"}
  BY DEF IInv, TypeOK, ReceiveBookmark, ReceiveError, Sending, serverVars, readerVars, history
<1>2. Seen' = Seen /\ Active /\ Resume' = Resume
  BY <1>1 DEF Seen, Fold, NoEvent, Active, Resume
<1>3. version \in Nat /\ underlying.pos \in Nat
  BY <1>1 DEF TypeOK
<1>4. PosInv'
  BY <1>1, <1>3 DEF PosInv, ListInv, Gives
<1>5. LostInv' /\ GhostInv'
  BY <1>1, <1>2 DEF IInv, LostInv, GhostInv, Gives, Takes
<1>6. FreshInv'
  BY <1>1, <1>2, <1>3 DEF IInv, FreshInv, PosInv
<1>7. QED
  BY <1>4, <1>5, <1>6

\* After a 410 the next watch lists every object, but not the deletions.
LEMMA ReceiveGoneKeeps ==
  ASSUME IInv, ReceiveGone
  PROVE  PosInv' /\ LostInv' /\ GhostInv' /\ FreshInv'
<1>1. /\ TypeOK /\ LogInv /\ PosInv /\ Len(log) \in Nat
      /\ underlying \in [open : BOOLEAN, list : SUBSET Event, pos : Nat]
      /\ UNCHANGED <<log, live, reader, view>>
      /\ underlying.list = {} /\ underlying'.list = {} /\ underlying'.pos = underlying.pos
      /\ version' = 0 /\ goroutine' = "backoff" /\ forgot' = TRUE /\ goroutine = "select"
  BY DEF IInv, TypeOK, ReceiveGone, serverVars, readerVars
<1>2. PosInv'
  BY <1>1 DEF PosInv, ListInv
<1>3. LostInv'
  <2>1. SUFFICES ASSUME NEW o \in live
                 PROVE  \E j \in 1..Len(log) : Gives(j, o)
    BY <1>1 DEF LostInv, Resume, Gives
  <2>2. QED
    BY <1>1, <2>1 DEF LogInv
<1>4. GhostInv' /\ FreshInv'
  BY <1>1 DEF IInv, GhostInv, FreshInv
<1>5. QED
  BY <1>2, <1>3, <1>4

\* The underlying watch ends: the next one starts after the last event.
LEMMA ReceiveClosedKeeps ==
  ASSUME IInv, ReceiveClosed
  PROVE  PosInv' /\ LostInv' /\ GhostInv' /\ FreshInv'
<1>1. /\ TypeOK /\ PosInv /\ Len(log) \in Nat /\ version \in Nat
      /\ underlying \in [open : BOOLEAN, list : SUBSET Event, pos : Nat]
      /\ UNCHANGED <<log, live, reader, view, version, pending, forgot>>
      /\ underlying'.list = {} /\ underlying'.pos = underlying.pos
      /\ goroutine = "select" /\ goroutine' = "backoff"
  BY DEF IInv, TypeOK, ReceiveClosed, serverVars, readerVars
<1>c. ~cut' => ~cut /\ \A e \in underlying.list : ~(e.version <= version)
  BY Zenon DEF ReceiveClosed
<1>2. Seen' = Seen /\ Active /\ Resume = underlying.pos /\ Resume' = version
  BY <1>1 DEF Seen, Fold, Active, Resume
<1>3. version <= underlying.pos /\ underlying.pos \in 0..Len(log)
  BY <1>1 DEF PosInv
<1>4. PosInv'
  BY <1>1 DEF PosInv, ListInv
<1>5. LostInv'
  <2>1. SUFFICES ASSUME ~cut', NEW o \in live
                 PROVE  o \in Seen \/ \E j \in (version + 1)..Len(log) : Gives(j, o)
    BY <1>1, <1>2 DEF LostInv, Gives
  <2>2. \/ o \in Seen
        \/ \E e \in underlying.list : e.object = o
        \/ \E j \in (underlying.pos + 1)..Len(log) : Gives(j, o)
    BY <1>c, <1>2, <2>1 DEF IInv, LostInv
  <2>3. ASSUME NEW e \in underlying.list, e.object = o
        PROVE  \E j \in (version + 1)..Len(log) : Gives(j, o)
    <3>1. e.version \in 1..underlying.pos /\ Gives(e.version, o)
      BY <1>1, <2>3 DEF PosInv, ListInv
    <3>2. ~(e.version <= version)
      BY <1>c, <2>1, <2>3
    <3>3. e.version \in (version + 1)..Len(log)
      BY <1>1, <1>3, <3>1, <3>2
    <3>4. QED
      BY <3>1, <3>3
  <2>4. QED
    BY <1>1, <1>3, <2>2, <2>3
<1>6. GhostInv'
  <2>1. SUFFICES ASSUME ~forgot, NEW o \in Seen
                 PROVE  o \in live \/ \E j \in (version + 1)..Len(log) : Takes(j, o)
    BY <1>1, <1>2 DEF GhostInv, Takes
  <2>2. o \in live \/ \E j \in (underlying.pos + 1)..Len(log) : Takes(j, o)
    BY <1>2, <2>1 DEF IInv, GhostInv
  <2>3. QED
    BY <1>1, <1>3, <2>2
<1>7. FreshInv'
  BY <1>1, <1>2 DEF IInv, FreshInv
<1>8. QED
  BY <1>4, <1>5, <1>6, <1>7

LEMMA SendEventKeeps ==
  ASSUME IInv, Send
  PROVE  PosInv' /\ LostInv' /\ GhostInv' /\ FreshInv'
<1>1. /\ UNCHANGED <<log, live, underlying, version, cut, forgot, reader>>
      /\ goroutine = "send" /\ goroutine' = "select" /\ reader = "reading"
  BY DEF Send, serverVars, history
<1>2. Seen' = Seen
  BY DEF Send, Seen, Fold, NoEvent
<1>3. Resume' = Resume /\ Active
  BY <1>1 DEF Resume, Active
<1>4. PosInv'
  BY <1>1 DEF IInv, PosInv, ListInv, Gives
<1>5. LostInv' /\ GhostInv'
  BY <1>1, <1>2, <1>3 DEF IInv, LostInv, GhostInv, Gives, Takes
<1>6. FreshInv'
  BY <1>1, <1>2 DEF IInv, FreshInv
<1>7. QED
  BY <1>4, <1>5, <1>6

\* The goroutine ends.
LEMMA EndKeeps ==
  ASSUME IInv, SelectStop \/ SelectExpired \/ GiveUp
  PROVE  PosInv' /\ LostInv' /\ GhostInv' /\ FreshInv'
<1>1. /\ underlying \in [open : BOOLEAN, list : SUBSET Event, pos : Nat]
      /\ UNCHANGED <<log, live, version, pending, cut, forgot, reader, view>>
      /\ underlying'.list = underlying.list /\ underlying'.pos = underlying.pos
      /\ goroutine \in {"select", "backoff"} /\ goroutine' = "done"
  BY DEF IInv, TypeOK, SelectStop, SelectExpired, CloseEvents, GiveUp, serverVars, readerVars,
         history
<1>2. PosInv'
  BY <1>1 DEF IInv, PosInv, ListInv, Gives
<1>3. LostInv' /\ GhostInv'
  BY <1>1 DEF LostInv, GhostInv, Active
<1>4. FreshInv'
  BY <1>1 DEF IInv, FreshInv, Seen, Fold
<1>5. QED
  BY <1>2, <1>3, <1>4

-----------------------------------------------------------------------------
(* The theorems. *)

LEMMA InitIInv == Init => IInv
<1> SUFFICES ASSUME Init PROVE IInv
  OBVIOUS
<1> USE DEF Init
<1>1. TypeOK
  <2>1. log \in Seq(Change) /\ live \subseteq Objects /\ view \subseteq Objects
    OBVIOUS
  <2>2. underlying \in [open : BOOLEAN, list : SUBSET Event, pos : Nat]
    OBVIOUS
  <2>3. QED
    BY <2>1, <2>2 DEF TypeOK
<1>2. LogInv /\ PosInv
  BY DEF LogInv, PosInv, ListInv
<1>3. LostInv /\ GhostInv /\ FreshInv
  BY DEF LostInv, GhostInv, FreshInv, Active, Seen, Fold, NoEvent
<1>4. QED
  BY <1>1, <1>2, <1>3 DEF IInv

LEMMA NextIInv == IInv /\ [Next]_vars => IInv'
<1> SUFFICES ASSUME IInv, [Next]_vars PROVE IInv'
  OBVIOUS
<1>1. TypeOK'
  BY NextTypeOK DEF IInv, LogInv, FreshInv
<1>2. CASE \E o \in Objects : Write(o) \/ Delete(o)
  <2>1. PICK o \in Objects : Write(o) \/ Delete(o)
    BY <1>2
  <2>2. LogInv'
    BY <2>1, WriteLogInv, DeleteLogInv DEF IInv
  <2>3. PosInv' /\ LostInv' /\ GhostInv'
    BY <2>1, ChangeKeeps DEF IInv
  <2>4. FreshInv'
    BY <2>1 DEF IInv, FreshInv, Write, Delete, watchVars, readerVars, history, Seen, Fold
  <2>5. QED
    BY <1>1, <2>2, <2>3, <2>4 DEF IInv
<1>3. CASE QuietStep
  <2>1. Quiet /\ (reader' = reader \/ reader' = "left")
    BY <1>3, QuietStepIsQuiet DEF IInv
  <2>2. compacted' <= Len(log)
    BY <1>3, <2>1 DEF IInv, LogInv, QuietStep, Compact, Break, Expire, BreakExpired, Leave, SeeClosed, vars,
              serverVars, TypeOK
  <2>3. LogInv'
    BY <2>1, <2>2 DEF IInv, LogInv, Quiet, Gives, Takes
  <2>4. PosInv' /\ LostInv' /\ GhostInv'
    BY <2>1, QuietKeeps DEF IInv
  <2>5. FreshInv'
    BY <2>1 DEF IInv, FreshInv, Quiet, Seen, Fold
  <2>6. QED
    BY <1>1, <2>3, <2>4, <2>5 DEF IInv
<1>4. CASE Open \/ Forward
  <2>1. UNCHANGED serverVars
    BY <1>4 DEF Open, Forward, ReceiveEvent, ReceiveBookmark, ReceiveGone, ReceiveError,
                ReceiveClosed, SelectStop, SelectExpired, CloseEvents, Send, Recreate, GiveUp
  <2>2. LogInv'
    BY <2>1 DEF IInv, LogInv, serverVars, Gives, Takes
  <2>3. PosInv' /\ LostInv' /\ GhostInv' /\ FreshInv'
    BY <1>4, OpenKeeps, RecreateKeeps, ReceiveEventKeeps, ReceiveNoticeKeeps, ReceiveGoneKeeps,
       ReceiveClosedKeeps, SendEventKeeps, EndKeeps DEF Forward
  <2>4. QED
    BY <1>1, <2>2, <2>3 DEF IInv
<1>5. QED
  BY <1>2, <1>3, <1>4 DEF Next, Server, QuietStep

LEMMA SpecIInv == Spec => []IInv
  BY InitIInv, NextIInv, PTL DEF Spec

\* The variables of the watch always have their types, and an event is pending
\* exactly while the goroutine sends it.
THEOREM WatchTypeCorrect == Spec => []TypeOK
<1>1. IInv => TypeOK
  BY DEF IInv
<1>2. QED
  BY <1>1, SpecIInv, PTL

\* A reader that has caught up knows every existing object, unless a watch was
\* ended in the middle of its initial list.
THEOREM WatchLosesNoObject == Spec => []NoLostObject
<1>1. IInv => NoLostObject
  <2> SUFFICES ASSUME IInv, CaughtUp, ~cut PROVE live \subseteq view
    BY DEF NoLostObject
  <2>1. /\ goroutine = "select" /\ underlying.list = {} /\ Resume = Len(log) /\ pending = NoEvent
        /\ Len(log) \in Nat
    BY DEF CaughtUp, Resume, IInv, TypeOK
  <2>2. Seen = view
    BY <2>1 DEF Seen, Fold, NoEvent
  <2>3. QED
    BY <2>1, <2>2 DEF IInv, LostInv, Active
<1>2. QED
  BY <1>1, SpecIInv, PTL

\* A reader that has caught up knows no deleted object, unless a 410 took the
\* watch back to "0".
THEOREM WatchKeepsNoGhost == Spec => []NoGhostObject
<1>1. IInv => NoGhostObject
  <2> SUFFICES ASSUME IInv, CaughtUp, ~forgot PROVE view \subseteq live
    BY DEF NoGhostObject
  <2>1. goroutine = "select" /\ Resume = Len(log) /\ pending = NoEvent /\ Len(log) \in Nat
    BY DEF CaughtUp, Resume, IInv, TypeOK
  <2>2. Seen = view
    BY <2>1 DEF Seen, Fold, NoEvent
  <2>3. QED
    BY <2>1, <2>2 DEF IInv, GhostInv, Active
<1>2. QED
  BY <1>1, SpecIInv, PTL

-----------------------------------------------------------------------------
(* What is sent. *)

\* Each change that is sent is one that the server made: of that object, at that version, which
\* is where the watch resumes if it ends now; that of an initial list says that the object was
\* added when it may have been modified, but never that a deleted one exists.
SentInv ==
  pending \in Event =>
    /\ version = pending.version /\ version \in 1..Len(log)
    /\ log[version].object = pending.object
    /\ pending.type = "DELETED" <=> log[version].type = "DELETED"

LEMMA NextSentInv == IInv /\ SentInv /\ [Next]_vars => SentInv'
<1> SUFFICES ASSUME IInv, SentInv, [Next]_vars PROVE SentInv'
  OBVIOUS
<1>t. TypeOK /\ Len(log) \in Nat
  BY DEF IInv, TypeOK
<1>n. NoEvent \notin Event /\ \A e \in Notice : e \notin Event
  BY DEF NoEvent, Event, Notice, ChangeType
<1>1. CASE \E o \in Objects : Write(o) \/ Delete(o)
  <2>1. PICK o \in Objects : Write(o) \/ Delete(o)
    BY <1>1
  <2>2. PICK c \in Change : log' = Append(log, c)
    BY <2>1 DEF Write, Delete, Change, ChangeType
  <2>3. UNCHANGED <<version, pending>>
    BY <2>1 DEF Write, Delete, watchVars
  <2> QED
    BY <1>t, <2>2, <2>3, AppendLog DEF SentInv
<1>2. CASE QuietStep
  BY <1>2, <1>t, QuietStepIsQuiet DEF Quiet, SentInv
<1>3. CASE ReceiveEvent
  <2>1. log' = log
    BY <1>3 DEF ReceiveEvent, serverVars
  <2>2. ASSUME NEW e \in underlying.list, version' = e.version, pending' = e
        PROVE  SentInv'
    <3>1. /\ e.type = "ADDED" /\ e.version \in 1..underlying.pos /\ Gives(e.version, e.object)
          /\ underlying.pos <= Len(log)
      BY DEF IInv, PosInv, ListInv
    <3>2. e.version \in 1..Len(log)
      BY <1>t, <3>1 DEF TypeOK
    <3> QED
      BY <2>1, <2>2, <3>1, <3>2 DEF SentInv, Gives
  <2>3. ASSUME underlying.pos < Len(log), version' = underlying.pos + 1,
               pending' = EventAt(underlying.pos + 1)
        PROVE  SentInv'
    <3>1. underlying.pos + 1 \in 1..Len(log)
      BY <1>t, <2>3 DEF TypeOK
    <3> QED
      BY <1>t, <2>1, <2>3, <3>1, EventAtType DEF SentInv, EventAt
  <2> QED
    BY <1>3, <2>2, <2>3 DEF ReceiveEvent, Sending
<1>4. CASE ReceiveBookmark \/ ReceiveError
  <2>1. pending' \in Notice
    BY <1>4, <1>t DEF ReceiveBookmark, ReceiveError, Sending, Notice, TypeOK
  <2> QED
    BY <2>1, <1>n DEF SentInv
<1>5. CASE ReceiveGone
  <2>1. goroutine = "select" /\ pending' = pending
    BY <1>5 DEF ReceiveGone
  <2> QED
    BY <2>1, <1>t, <1>n DEF SentInv, TypeOK
<1>6. CASE Send
  BY <1>6, <1>n DEF Send, SentInv
<1>7. CASE ReceiveClosed \/ SelectStop \/ SelectExpired \/ Recreate \/ GiveUp \/ Open
  <2>1. UNCHANGED <<log, version, pending>>
    BY <1>7 DEF ReceiveClosed, SelectStop, SelectExpired, CloseEvents, Recreate, GiveUp, Open, serverVars
  <2> QED
    BY <2>1 DEF SentInv
<1> QED
  BY <1>1, <1>2, <1>3, <1>4, <1>5, <1>6, <1>7 DEF Next, Server, Forward, QuietStep

\* However many times the watch is restarted, it invents nothing: a reader that is told of a
\* change can take it for one of the server, and of a deletion for a real one.
THEOREM WatchSendsRealChanges == Spec => []SentInv
<1>1. Init => SentInv
  BY DEF Init, SentInv, NoEvent, Event, ChangeType
<1> QED
  BY <1>1, NextSentInv, SpecIInv, PTL DEF Spec

\* The position where the watch would resume only goes back when it starts again after a 410,
\* or inside of an initial list, which is in no order: then it sends again changes that are
\* older than what the reader knows of some objects.
GoesBackOnlyIf == version' < version => forgot' \/ underlying.list # {}

THEOREM WatchGoesBackOnlyIf == Spec => [][GoesBackOnlyIf]_vars
<1>1. ASSUME IInv, [Next]_vars, version' < version, underlying.list = {} PROVE forgot'
  <2>1. /\ version \in Nat /\ underlying.pos \in Nat
        /\ goroutine = "select" => version <= underlying.pos
    BY <1>1 DEF IInv, TypeOK, PosInv
  <2>2. version' # version
    BY <1>1, <2>1
  <2>3. CASE ReceiveEvent
    BY <1>1, <2>1, <2>3 DEF ReceiveEvent
  <2>4. CASE ReceiveBookmark
    BY <1>1, <2>1, <2>4 DEF ReceiveBookmark
  <2>5. CASE ReceiveGone
    BY <2>5 DEF ReceiveGone
  <2>6. CASE \E o \in Objects : Write(o) \/ Delete(o)
    BY <2>2, <2>6 DEF Write, Delete, watchVars
  <2>7. CASE QuietStep
    BY <1>1, <2>2, <2>7, QuietStepIsQuiet DEF IInv, Quiet
  <2>8. CASE Open \/ ReceiveError \/ ReceiveClosed \/ SelectStop \/ SelectExpired \/ Send \/ Recreate \/ GiveUp
    BY <2>2, <2>8 DEF Open, ReceiveError, ReceiveClosed, SelectStop, SelectExpired, CloseEvents, Send,
                     Recreate, GiveUp
  <2> QED
    BY <1>1, <2>3, <2>4, <2>5, <2>6, <2>7, <2>8 DEF Next, Server, Forward, QuietStep
<1>2. IInv /\ [Next]_vars => [GoesBackOnlyIf]_vars
  BY <1>1 DEF GoesBackOnlyIf
<1> QED
  BY <1>2, SpecIInv, PTL DEF Spec
=============================================================================
