--------------------------- MODULE RoPipelineProofs ---------------------------
(***************************************************************************)
(* RoPipeline implements Notification, for any items, any hooks and any    *)
(* capacity of the queue.                                                  *)
(***************************************************************************)
EXTENDS RoPipeline, TLAPS

\* The worker and the queue hold different items, each of them queued; the hooks
\* that have run on the worker's item and those that still run are its hook list,
\* and none has run on an item that is not with the worker yet.
Accounted ==
  /\ item = None => running = {}
  /\ item # None => /\ pc[item] = "queued"
                    /\ running \cup seen[item] = list[item]
                    /\ running \cap seen[item] = {}
  /\ \A i \in 1 .. Len(queue) :
       /\ queue[i] # item
       /\ pc[queue[i]] = "queued"
       /\ list[queue[i]] # {}
       /\ seen[queue[i]] = {}
  /\ \A i, j \in 1 .. Len(queue) : i # j => queue[i] # queue[j]
  /\ \A x \in Items : pc[x] # "queued" => seen[x] = {}

IInv == TypeOK /\ Accounted

-----------------------------------------------------------------------------

LEMMA InitIInv == Init => IInv
  BY RoPipelineAssumption DEF Init, IInv, TypeOK, Accounted, Steps

LEMMA StepIInv == IInv /\ [Next]_vars => IInv'
  <1> SUFFICES ASSUME IInv, [Next]_vars PROVE IInv'
    OBVIOUS
  <1> USE RoPipelineAssumption DEF IInv, TypeOK, Accounted, Steps, vars
  <1>1. ASSUME NEW L \in SUBSET Hooks, SetHooks(L) PROVE IInv'
    BY <1>1 DEF SetHooks
  <1>2. ASSUME NEW x \in Items, ReadHooks(x) PROVE IInv'
    BY <1>2 DEF ReadHooks
  <1>3. ASSUME NEW x \in Items, Enqueue(x) PROVE IInv'
    BY <1>3 DEF Enqueue
  <1>4. ASSUME NEW x \in Items, NoHooks(x) PROVE IInv'
    BY <1>4 DEF NoHooks
  <1>5. ASSUME NEW x \in Items, QueueFull(x) PROVE IInv'
    BY <1>5 DEF QueueFull
  <1>6. CASE TakeItem
    BY <1>6 DEF TakeItem
  <1>7. ASSUME NEW h \in Hooks, HookReturns(h) PROVE IInv'
    BY <1>7 DEF HookReturns
  <1>8. CASE WaitEnds
    BY <1>8 DEF WaitEnds
  <1>9. CASE UNCHANGED vars
    BY <1>9
  <1> QED
    BY <1>1, <1>2, <1>3, <1>4, <1>5, <1>6, <1>7, <1>8, <1>9
    DEF Next, RunPipeline, processPipelineQueue

\* The types hold in every reachable state; in particular the queue never holds
\* more than QueueSize items.
THEOREM TypeCorrect == Spec => []TypeOK
  <1>1. IInv => TypeOK
    BY DEF IInv
  <1> QED
    BY InitIInv, StepIInv, <1>1, PTL DEF Spec

THEOREM Invariant == Spec => []IInv
  BY InitIInv, StepIInv, PTL DEF Spec

-----------------------------------------------------------------------------

LEMMA InitImplements == Init => Promise!Init
  BY DEF Init, Promise!Init, Fate, PendingItems

LEMMA StepImplements == IInv /\ [Next]_vars => [Promise!Next]_(Promise!vars)
  <1> SUFFICES ASSUME IInv, [Next]_vars PROVE [Promise!Next]_(Promise!vars)
    OBVIOUS
  <1> USE RoPipelineAssumption
      DEF IInv, TypeOK, Accounted, Steps, vars, Promise!vars, PendingItems
  <1>1. ASSUME NEW L \in SUBSET Hooks, SetHooks(L) PROVE Promise!Install(L)
    BY <1>1 DEF SetHooks, Promise!Install, Fate
  <1>2. ASSUME NEW x \in Items, ReadHooks(x) PROVE Promise!Offer(x)
    BY <1>2 DEF ReadHooks, Promise!Offer, Fate
  <1>3. ASSUME NEW x \in Items, Enqueue(x) PROVE Promise!Accept(x)
    <2>1. Fate[x] = "offered" /\ Fate' = [Fate EXCEPT ![x] = "accepted"]
      BY <1>3 DEF Enqueue, Fate
    <2>2. PendingItems' = Append(PendingItems, x) /\ Len(PendingItems) < QueueSize + 1
      BY <1>3 DEF Enqueue
    <2> QED
      BY <1>3, <2>1, <2>2 DEF Enqueue, Promise!Accept
  <1>4. ASSUME NEW x \in Items, NoHooks(x) PROVE Promise!Ignore(x)
    BY <1>4 DEF NoHooks, Promise!Ignore, Fate
  <1>5. ASSUME NEW x \in Items, QueueFull(x) PROVE Promise!Drop(x)
    <2>1. Fate[x] = "offered" /\ Fate' = [Fate EXCEPT ![x] = "dropped"]
      BY <1>5 DEF QueueFull, Fate
    <2>2. PendingItems' = PendingItems /\ Len(PendingItems) >= (QueueSize + 1) - 1
      BY <1>5 DEF QueueFull
    <2> QED
      BY <1>5, <2>1, <2>2 DEF QueueFull, Promise!Drop
  <1>6. ASSUME TakeItem PROVE UNCHANGED Promise!vars
    <2>1. Fate' = Fate
      BY <1>6 DEF TakeItem, Fate
    <2>2. queue = <<Head(queue)>> \o Tail(queue)
      BY <1>6 DEF TakeItem
    <2>3. list[Head(queue)] # {}
      BY <1>6 DEF TakeItem
    <2>4. PendingItems = queue
      BY <1>6 DEF TakeItem
    <2>5. PendingItems' = <<Head(queue)>> \o Tail(queue)
      BY <1>6, <2>3 DEF TakeItem
    <2> QED
      BY <1>6, <2>1, <2>2, <2>4, <2>5 DEF TakeItem
  <1>7. ASSUME NEW h \in Hooks, HookReturns(h) PROVE Promise!Show(h)
    <2>1. Fate' = Fate
      BY <1>7 DEF HookReturns, Fate
    <2>2. /\ PendingItems # <<>>
          /\ Head(PendingItems) = item
          /\ Tail(PendingItems) = queue
      BY <1>7 DEF HookReturns
    <2>3. h \in list[item] \ seen[item]
      BY <1>7 DEF HookReturns
    <2>4. running' = {} <=> seen'[item] = list[item]
      BY <1>7, ZenonT(30) DEF HookReturns
    <2>5. running' = {} => PendingItems' = queue
      BY <1>7 DEF HookReturns
    <2>6. running' # {} => PendingItems' = PendingItems
      BY <1>7 DEF HookReturns
    <2> QED
      BY <1>7, <2>1, <2>2, <2>3, <2>4, <2>5, <2>6 DEF HookReturns, Promise!Show
  <1>8. ASSUME WaitEnds PROVE UNCHANGED Promise!vars
    <2>1. Fate' = Fate
      BY <1>8 DEF WaitEnds, Fate
    <2> QED
      BY <1>8, <2>1 DEF WaitEnds
  <1>9. ASSUME UNCHANGED vars PROVE UNCHANGED Promise!vars
    BY <1>9 DEF Fate
  <1> QED
    BY <1>1, <1>2, <1>3, <1>4, <1>5, <1>6, <1>7, <1>8, <1>9
    DEF Next, RunPipeline, processPipelineQueue, Promise!Next

\* The pipeline keeps the promise of Notification: an item that is queued is shown
\* exactly once to each hook of the list that was installed when it was offered,
\* in the order of the queue, one item at a time; only a full queue drops one.
THEOREM PipelineKeepsPromise == Spec => Implements
  BY InitImplements, StepImplements, Invariant, PTL DEF Spec, Implements, Promise!Spec
=============================================================================
