------------------------------ MODULE RoPipeline ------------------------------
(***************************************************************************)
(* ReadOnlyPipeline (internal/pipeline/pipeline.go): exchanges put items   *)
(* in a bounded queue and go on; one worker takes them out and runs the    *)
(* hooks of each item at the same time, each on a goroutine of its own.    *)
(*                                                                         *)
(* The proxy has four of these pipelines, and SetConfig replaces their     *)
(* hooks while items are on their way: an item carries the hooks that were *)
(* installed when it was offered.                                          *)
(***************************************************************************)
EXTENDS Naturals, Sequences, FiniteSets

CONSTANTS
  Items,      \* the requests (responses) that run through the pipeline
  Hooks,      \* every hook that is ever installed; a hook list is a set of them
  QueueSize   \* capacity of the queue (1000)

None == "none"   \* no item: the worker waits for one

ASSUME RoPipelineAssumption ==
  /\ None \notin Items
  /\ QueueSize \in Nat \ {0}

VARIABLES
  hooks,    \* the installed hook list
  pc,       \* where each item's RunPipeline is, and what it returned
  list,     \* the hook list it read
  queue,    \* the items waiting in the channel
  item,     \* the item the worker is at, or None
  running,  \* the hooks that still run on it
  seen      \* the hooks that have run on each item (history)

vars == <<hooks, pc, list, queue, item, running, seen>>

Steps == {"idle", "read", "unwanted", "queued", "full"}

TypeOK ==
  /\ hooks \subseteq Hooks
  /\ pc \in [Items -> Steps]
  /\ list \in [Items -> SUBSET Hooks]
  /\ queue \in Seq(Items) /\ Len(queue) <= QueueSize
  /\ item \in Items \cup {None}
  /\ running \subseteq Hooks
  /\ seen \in [Items -> SUBSET Hooks]

Init ==
  /\ hooks \in SUBSET Hooks
  /\ pc = [x \in Items |-> "idle"]
  /\ list = [x \in Items |-> {}]
  /\ queue = <<>>
  /\ item = None
  /\ running = {}
  /\ seen = [x \in Items |-> {}]

-----------------------------------------------------------------------------

SetHooks(L) ==
  /\ hooks' = L
  /\ UNCHANGED <<pc, list, queue, item, running, seen>>

\* RunPipeline reads the hook list under the read lock ...
ReadHooks(x) ==
  /\ pc[x] = "idle"
  /\ pc' = [pc EXCEPT ![x] = "read"]
  /\ list' = [list EXCEPT ![x] = hooks]
  /\ UNCHANGED <<hooks, queue, item, running, seen>>

\* Mutant: the queue grows without limit.
Enqueue_Unbounded(x) ==
  /\ pc[x] = "read"
  /\ list[x] # {}
  /\ queue' = Append(queue, x)
  /\ pc' = [pc EXCEPT ![x] = "queued"]
  /\ UNCHANGED <<hooks, list, item, running, seen>>

\* ... and queues the item with the hooks it read,
Enqueue(x) ==
  /\ pc[x] = "read"
  /\ list[x] # {}
  /\ Len(queue) < QueueSize
  /\ queue' = Append(queue, x)
  /\ pc' = [pc EXCEPT ![x] = "queued"]
  /\ UNCHANGED <<hooks, list, item, running, seen>>

\* ... unless there are none,
NoHooks(x) ==
  /\ pc[x] = "read"
  /\ list[x] = {}
  /\ pc' = [pc EXCEPT ![x] = "unwanted"]
  /\ UNCHANGED <<hooks, list, queue, item, running, seen>>

\* ... or returns "pipeline queue full", which no caller looks at.
QueueFull(x) ==
  /\ pc[x] = "read"
  /\ list[x] # {}
  /\ Len(queue) = QueueSize
  /\ pc' = [pc EXCEPT ![x] = "full"]
  /\ UNCHANGED <<hooks, list, queue, item, running, seen>>

RunPipeline(x) == ReadHooks(x) \/ Enqueue(x) \/ NoHooks(x) \/ QueueFull(x)

-----------------------------------------------------------------------------

\* Mutant: the worker runs the hooks installed now, not those of the item.
TakeItem_CurrentHooks ==
  /\ item = None
  /\ queue # <<>>
  /\ item' = Head(queue)
  /\ running' = hooks
  /\ queue' = Tail(queue)
  /\ UNCHANGED <<hooks, pc, list, seen>>

\* Mutant: the worker's loop ends on an item whose hooks have been replaced.
TakeItem_Gone ==
  /\ item = None
  /\ queue # <<>>
  /\ list[Head(queue)] = hooks
  /\ item' = Head(queue)
  /\ running' = list[Head(queue)]
  /\ queue' = Tail(queue)
  /\ UNCHANGED <<hooks, pc, list, seen>>

\* processItem starts one goroutine for each hook of the item.
TakeItem ==
  /\ item = None
  /\ queue # <<>>
  /\ item' = Head(queue)
  /\ running' = list[Head(queue)]
  /\ queue' = Tail(queue)
  /\ UNCHANGED <<hooks, pc, list, seen>>

\* A hook returns, with an error or without: errors are only logged.
HookReturns(h) ==
  /\ h \in running
  /\ running' = running \ {h}
  /\ seen' = [seen EXCEPT ![item] = @ \cup {h}]
  /\ UNCHANGED <<hooks, pc, list, queue, item>>

\* wg.Wait returns when the last hook has.
WaitEnds ==
  /\ item # None
  /\ running = {}
  /\ item' = None
  /\ UNCHANGED <<hooks, pc, list, queue, running, seen>>

processPipelineQueue == TakeItem \/ (\E h \in Hooks : HookReturns(h)) \/ WaitEnds

Next ==
  \/ \E L \in SUBSET Hooks : SetHooks(L)
  \/ \E x \in Items : RunPipeline(x)
  \/ processPipelineQueue

Spec == Init /\ [][Next]_vars

\* RunPipeline never waits, the worker's loop never ends, and hooks return: those
\* of this repository either start goroutines, put an item in a queue of their own
\* without waiting, or write to a file or to the terminal.
Fairness ==
  /\ \A x \in Items : WF_vars(Enqueue(x) \/ NoHooks(x) \/ QueueFull(x))
  /\ WF_vars(TakeItem)
  /\ \A h \in Hooks : WF_vars(HookReturns(h))
  /\ WF_vars(WaitEnds)

FairSpec == Spec /\ Fairness

-----------------------------------------------------------------------------
(***************************************************************************)
(* Properties.                                                             *)
(***************************************************************************)

\* The pipeline implements Notification: what is pending is the item the worker is
\* at, while hooks run on it, and the queue behind it.
PendingItems == (IF running # {} THEN <<item>> ELSE <<>>) \o queue

Fate == [x \in Items |->
           CASE pc[x] = "idle" -> "new"
             [] pc[x] = "read" -> "offered"
             [] pc[x] = "unwanted" -> "unwanted"
             [] pc[x] = "queued" -> "accepted"
             [] pc[x] = "full" -> "dropped"]

Promise == INSTANCE Notification
             WITH Bound <- QueueSize + 1, fate <- Fate, pending <- PendingItems

Implements == Promise!Spec

\* Every item that got into the queue is shown to all the hooks it came with, also
\* when the hooks are replaced again and again meanwhile.
QueuedIsShown ==
  \A x \in Items : pc[x] = "queued" ~> seen[x] = list[x] /\ list[x] # {}
=============================================================================
