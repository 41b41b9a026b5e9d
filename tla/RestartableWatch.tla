---------------------------- MODULE RestartableWatch ----------------------------
(***************************************************************************)
(* The restartableWatch of ztp/internal/client.go: a goroutine that copies *)
(* the events of one Kubernetes watch to an unbuffered channel and, when   *)
(* the API server ends that watch, opens another one where it left off.    *)
(*                                                                         *)
(* The server is external.  It keeps a log of changes whose position is    *)
(* the resource version, may forget a prefix of the log (etcd compaction), *)
(* answers a watch from version "0" with an unordered list taken from a    *)
(* cache that may be behind, and may end a watch at any time.              *)
(*                                                                         *)
(* The reader is whoever ranges over ResultChan: it folds the events into  *)
(* its own idea (view) of the objects that exist, and may return early.    *)
(***************************************************************************)
EXTENDS Naturals, Sequences, FiniteSets

CONSTANTS
  Objects,      \* the objects that match the options of the watch
  None,         \* no object: what bookmarks and errors carry
  MaxVersion,   \* bound: changes that are written to the server
  MaxBreaks     \* bound: times that the server ends a watch

ASSUME WatchAssumption ==
  /\ None \notin Objects
  /\ MaxVersion \in Nat
  /\ MaxBreaks \in Nat

VARIABLES
  log,          \* server: sequence of changes, version v is log[v]
  live,         \* server: the objects that exist
  compacted,    \* server: versions up to this one are forgotten
  breaks,       \* server: watches it has ended
  underlying,   \* w.underlying: is it open, the rest of its initial list, its position
  version,      \* w.version, where the next underlying watch starts (0 is "0")
  goroutine,    \* where forward() is: none, select, send, backoff or done
  pending,      \* the event that forwardUnderlying is sending
  closed,       \* the events channel is closed
  stopped,      \* the stop channel is closed
  expired,      \* the context is done
  reader,       \* the user of the watch: idle, reading or left
  view,         \* the objects that exist according to the events read
  forgot,       \* history: the watch went back to "0" after a 410
  cut           \* history: a watch ended inside its initial list, and the next
                \* one starts after an object that was not sent yet

serverVars == <<log, live, compacted>>
watchVars  == <<underlying, version, goroutine, pending, closed>>
readerVars == <<reader, view, stopped>>
history    == <<forgot, cut>>
vars == <<serverVars, breaks, watchVars, readerVars, expired, history>>

-----------------------------------------------------------------------------
ChangeType == {"ADDED", "MODIFIED", "DELETED"}
Change == [type : ChangeType, object : Objects]
Event  == [type : ChangeType, object : Objects, version : Nat]
Notice == [type : {"BOOKMARK", "ERROR"}, object : {None}, version : Nat]
NoEvent == [type |-> "NONE", object |-> None, version |-> 0]

\* The event that announces version v.
EventAt(v) == [type |-> log[v].type, object |-> log[v].object, version |-> v]

\* The initial list of a watch from "0" whose cache is at version c: the last
\* state of every object that exists at c.
ListAt(c) ==
  {[type |-> "ADDED", object |-> log[v].object, version |-> v] :
     v \in {i \in 1..c : /\ log[i].type # "DELETED"
                         /\ \A j \in (i + 1)..c : log[j].object # log[i].object}}

\* What a reader thinks that exists once it has read an event.
Fold(known, event) ==
  CASE event.type \in {"ADDED", "MODIFIED"} -> known \union {event.object}
    [] event.type = "DELETED"               -> known \ {event.object}
    [] OTHER                                -> known

Init ==
  /\ log = <<>> /\ live = {} /\ compacted = 0 /\ breaks = 0
  /\ underlying = [open |-> FALSE, list |-> {}, pos |-> 0]
  /\ version = 0 /\ goroutine = "none" /\ pending = NoEvent /\ closed = FALSE
  /\ stopped = FALSE /\ expired = FALSE
  /\ reader = "idle" /\ view = {}
  /\ forgot = FALSE /\ cut = FALSE

-----------------------------------------------------------------------------
(* The API server. *)

Write(o) ==
  /\ Len(log) < MaxVersion
  /\ log' = Append(log, [type |-> IF o \in live THEN "MODIFIED" ELSE "ADDED", object |-> o])
  /\ live' = live \union {o}
  /\ UNCHANGED <<compacted, breaks, watchVars, readerVars, expired, history>>

Delete(o) ==
  /\ Len(log) < MaxVersion
  /\ o \in live
  /\ log' = Append(log, [type |-> "DELETED", object |-> o])
  /\ live' = live \ {o}
  /\ UNCHANGED <<compacted, breaks, watchVars, readerVars, expired, history>>

Compact ==
  /\ \E c \in (compacted + 1)..Len(log) : compacted' = c
  /\ UNCHANGED <<log, live, breaks, watchVars, readerVars, expired, history>>

\* The server ends the watch (its timeout, a restart), or the connection drops.
Break ==
  /\ underlying.open
  /\ breaks < MaxBreaks
  /\ underlying' = [underlying EXCEPT !.open = FALSE]
  /\ breaks' = breaks + 1
  /\ UNCHANGED <<serverVars, version, goroutine, pending, closed, readerVars, expired, history>>

\* The deadline of the command passes, or the user interrupts it.  The requests
\* that use the context fail from then on, but the goroutine learns it later.
Expire ==
  /\ ~expired
  /\ expired' = TRUE
  /\ UNCHANGED <<serverVars, breaks, watchVars, readerVars, history>>

\* The transport ends the open watch of an expired context.
BreakExpired ==
  /\ expired
  /\ underlying.open
  /\ underlying' = [underlying EXCEPT !.open = FALSE]
  /\ UNCHANGED <<serverVars, breaks, version, goroutine, pending, closed, readerVars, expired,
                 history>>

-----------------------------------------------------------------------------
(* createUnderlying: the options of the caller, but with ResourceVersion   *)
(* replaced by w.version.                                                  *)

\* Mutant: the version "0" taken as "from now on", without an initial list.
CreateFromNow ==
  /\ ~expired
  /\ underlying' = [open |-> TRUE, list |-> {},
                    pos |-> IF version = 0 THEN Len(log) ELSE version]

\* Mutant: every underlying watch starts from "0".
CreateFromScratch ==
  /\ ~expired
  /\ \E c \in compacted..Len(log) :
       underlying' = [open |-> TRUE, list |-> ListAt(c), pos |-> c]

CreateUnderlying ==
  /\ ~expired
  /\ \/ /\ version = 0
        /\ \E c \in compacted..Len(log) :
             underlying' = [open |-> TRUE, list |-> ListAt(c), pos |-> c]
     \/ /\ version # 0
        /\ underlying' = [open |-> TRUE, list |-> {}, pos |-> version]

\* Client.Watch: always starts at "0", and starts the goroutine.
Open ==
  /\ reader = "idle"
  /\ version = 0
  /\ CreateUnderlying
  /\ goroutine' = "select"
  /\ reader' = "reading"
  /\ UNCHANGED <<serverVars, breaks, version, pending, closed, stopped, view, expired, history>>

-----------------------------------------------------------------------------
(* forwardUnderlying *)

Sending(event) == goroutine' = "send" /\ pending' = event

\* The next change of the watch: any entry of the initial list, in no order,
\* and then the log.
ReceiveEvent ==
  /\ goroutine = "select"
  /\ underlying.open
  /\ \/ \E e \in underlying.list :
          /\ underlying' = [underlying EXCEPT !.list = @ \ {e}]
          /\ version' = e.version
          /\ Sending(e)
     \/ /\ underlying.list = {}
        /\ compacted <= underlying.pos
        /\ underlying.pos < Len(log)
        /\ underlying' = [underlying EXCEPT !.pos = @ + 1]
        /\ version' = underlying.pos + 1
        /\ Sending(EventAt(underlying.pos + 1))
  /\ UNCHANGED <<serverVars, breaks, closed, readerVars, expired, history>>

\* A bookmark carries the position of the watch, and is forwarded too.
ReceiveBookmark ==
  /\ goroutine = "select"
  /\ underlying.open
  /\ underlying.list = {}
  /\ version' = underlying.pos
  /\ Sending([type |-> "BOOKMARK", object |-> None, version |-> underlying.pos])
  /\ UNCHANGED <<serverVars, breaks, underlying, closed, readerVars, expired, history>>

\* 410 Gone: the position is too old.  The event isn't forwarded, and the next
\* underlying watch starts from "0".
ReceiveGone ==
  /\ goroutine = "select"
  /\ underlying.open
  /\ underlying.list = {}
  /\ underlying.pos < compacted
  /\ underlying' = [underlying EXCEPT !.open = FALSE]
  /\ version' = 0
  /\ goroutine' = "backoff"
  /\ forgot' = TRUE
  /\ cut' = FALSE
  /\ UNCHANGED <<serverVars, breaks, pending, closed, readerVars, expired>>

\* Any other error event is forwarded; the server ends the watch after it.
ReceiveError ==
  /\ goroutine = "select"
  /\ underlying.open
  /\ breaks < MaxBreaks
  /\ breaks' = breaks + 1
  /\ underlying' = [underlying EXCEPT !.open = FALSE]
  /\ Sending([type |-> "ERROR", object |-> None, version |-> 0])
  /\ UNCHANGED <<serverVars, version, closed, readerVars, expired, history>>

\* Mutant: the end of the underlying watch ends the goroutine.
ReceiveClosedReturns ==
  /\ goroutine = "select"
  /\ ~underlying.open
  /\ goroutine' = "done"
  /\ UNCHANGED <<serverVars, breaks, underlying, version, pending, closed, readerVars, expired,
                 history>>

\* The result channel of the underlying watch is closed: forward() goes on to
\* create another one at w.version.  What was left of the initial list is lost.
ReceiveClosed ==
  /\ goroutine = "select"
  /\ ~underlying.open
  /\ goroutine' = "backoff"
  /\ underlying' = [underlying EXCEPT !.list = {}]
  /\ cut' = (cut \/ \E e \in underlying.list : e.version <= version)
  /\ UNCHANGED <<serverVars, breaks, version, pending, closed, readerVars, expired, forgot>>

\* Stop() or the end of the context, seen by the select.
CloseEvents ==
  /\ goroutine' = "done"
  /\ closed' = TRUE
  /\ underlying' = [underlying EXCEPT !.open = FALSE]
  /\ UNCHANGED <<serverVars, breaks, version, pending, readerVars, expired, history>>

SelectStop == goroutine = "select" /\ stopped /\ CloseEvents

SelectExpired == goroutine = "select" /\ expired /\ CloseEvents

\* Mutant: the event sent is kept.
SendKeeps ==
  /\ goroutine = "send"
  /\ reader = "reading"
  /\ view' = Fold(view, pending)
  /\ goroutine' = "select"
  /\ UNCHANGED <<serverVars, breaks, underlying, version, pending, closed, reader, stopped, expired,
                 history>>

\* w.events <- event, outside of the select: it needs a reader.
Send ==
  /\ goroutine = "send"
  /\ reader = "reading"
  /\ view' = Fold(view, pending)
  /\ pending' = NoEvent
  /\ goroutine' = "select"
  /\ UNCHANGED <<serverVars, breaks, underlying, version, closed, reader, stopped, expired, history>>

-----------------------------------------------------------------------------
(* forward(): the backoff that creates the next underlying watch. *)

Recreate ==
  /\ goroutine = "backoff"
  /\ CreateUnderlying
  /\ goroutine' = "select"
  /\ UNCHANGED <<serverVars, breaks, version, pending, closed, readerVars, expired, history>>

\* Mutant: a backoff that isn't bound to the context.
GiveUpNever ==
  /\ goroutine = "backoff"
  /\ expired
  /\ UNCHANGED vars

\* The context is done: forward() returns, and leaves the events channel open.
GiveUp ==
  /\ goroutine = "backoff"
  /\ expired
  /\ goroutine' = "done"
  /\ UNCHANGED <<serverVars, breaks, underlying, version, pending, closed, readerVars, expired,
                 history>>

-----------------------------------------------------------------------------
(* The reader. *)

\* It has seen enough: it stops receiving and, as every caller defers it,
\* calls Stop().
Leave ==
  /\ reader = "reading"
  /\ reader' = "left"
  /\ stopped' = TRUE
  /\ UNCHANGED <<serverVars, breaks, watchVars, view, expired, history>>

\* The range over the channel ends.
SeeClosed ==
  /\ reader = "reading"
  /\ closed
  /\ reader' = "left"
  /\ stopped' = TRUE
  /\ UNCHANGED <<serverVars, breaks, watchVars, view, expired, history>>

-----------------------------------------------------------------------------
Server == (\E o \in Objects : Write(o) \/ Delete(o)) \/ Compact \/ Break

Forward ==
  \/ ReceiveEvent \/ ReceiveBookmark \/ ReceiveGone \/ ReceiveError \/ ReceiveClosed
  \/ SelectStop \/ SelectExpired \/ Send
  \/ Recreate \/ GiveUp

Next == Server \/ Expire \/ BreakExpired \/ Open \/ Forward \/ Leave \/ SeeClosed

Spec == Init /\ [][Next]_vars

\* The Go scheduler runs the goroutine and the reader, and the server answers.
\* Go's select picks at random among the cases that are ready, and a bookmark
\* never takes for ever the place of a change.
Fairness ==
  /\ SF_vars(ReceiveEvent) /\ SF_vars(ReceiveGone) /\ SF_vars(ReceiveClosed)
  /\ SF_vars(SelectStop) /\ SF_vars(SelectExpired)
  /\ WF_vars(Send) /\ WF_vars(Recreate) /\ WF_vars(GiveUp)
  /\ WF_vars(SeeClosed)

FairSpec == Spec /\ Fairness

-----------------------------------------------------------------------------
(* Properties *)

\* The types of the variables; pending is an event exactly while it is sent.
TypeOK ==
  /\ log \in Seq(Change) /\ live \subseteq Objects /\ compacted \in Nat /\ breaks \in Nat
  /\ underlying \in [open : BOOLEAN, list : SUBSET Event, pos : Nat]
  /\ version \in Nat
  /\ goroutine \in {"none", "select", "send", "backoff", "done"}
  /\ pending \in Event \union Notice \union {NoEvent}
  /\ (goroutine = "send") <=> (pending # NoEvent)
  /\ closed \in BOOLEAN /\ stopped \in BOOLEAN /\ expired \in BOOLEAN
  /\ reader \in {"idle", "reading", "left"} /\ view \subseteq Objects
  /\ forgot \in BOOLEAN /\ cut \in BOOLEAN

\* Every change known to the server has reached the reader.
CaughtUp ==
  /\ goroutine = "select"
  /\ underlying.open /\ underlying.list = {} /\ underlying.pos = Len(log)

\* However many times the watch is restarted, a reader that has caught up knows
\* every object that exists, unless a watch was ended in the middle of its
\* initial list: that list is in no order, so restarting after the version of
\* the last event may skip the rest (client.go:596-753).
NoLostObject == CaughtUp /\ ~cut => live \subseteq view

\* However many times the watch is restarted, a reader that has caught up
\* doesn't take a deleted object for an existing one, unless the watch went
\* back to "0" after a 410, which forgets the deletions (client.go:687-699).
NoGhostObject == CaughtUp /\ ~forgot => view \subseteq live

\* A reader that stays until the end of the changes ends up with what the
\* server has, with the two exceptions above.
Converges ==
  <>[]((reader = "reading" /\ ~expired)
         => ((cut \/ live \subseteq view) /\ (forgot \/ view \subseteq live)))

\* The goroutine of a reader that keeps receiving ends after the deadline,
\* whatever it was doing (client.go:616-660, 720-735).
ForwarderEnds == (expired /\ reader = "reading") ~> (goroutine = "done" \/ reader = "left")

\* Events are forwarded till the watch is closed, stopped or the context
\* expires (client.go:664-666): a reader doesn't outlive its deadline.
DeadlineReleasesReader == expired ~> (reader # "reading")
=============================================================================
