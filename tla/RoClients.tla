------------------------------ MODULE RoClients ------------------------------
(***************************************************************************)
(* The read-only plugins of the gRPC server (internal/grpc/server.go): the *)
(* stream handlers RequestIn, RequestOut, ResponseIn and ResponseOut, and  *)
(* the hooks of the same names.  The four copies of the code are alike but *)
(* for the client table they use; kind says which one runs.                *)
(*                                                                         *)
(* A hook never blocks the pipeline that calls it: for every registered    *)
(* plugin it starts a goroutine, a TASK, that puts the message in the      *)
(* plugin's queue and waits on an unbuffered channel until the handler has *)
(* sent it.  A task that finds the queue full drops the plugin and then    *)
(* waits on the same channel, although it has queued nothing.              *)
(*                                                                         *)
(* The messages themselves play no part here and are not represented.  A   *)
(* plugin that reconnects is a new element of Streams with the old name.   *)
(***************************************************************************)
EXTENDS Naturals, FiniteSets

CONSTANTS
  Exchanges,   \* intercepted messages; each makes one call of the hook
  Streams,     \* streams ever opened by plugins for this hook
  NameOf,      \* [Streams -> names]: the name a stream registers under
  QueueSize    \* capacity of originalRequests / originalResponses (1000)

Kinds == {"RequestIn", "RequestOut", "ResponseIn", "ResponseOut"}

ASSUME RoClientsAssumption == QueueSize \in Nat \ {0}

VARIABLES
  kind,     \* which of the four copies of the code runs
  clients,  \* requestInClients: the streams in the map, keyed by their name
  phase,    \* where each stream's handler is
  queued,   \* how many messages its buffered channel holds
  closed,   \* whether that channel has been closed
  closers,  \* sleeping goroutines started by asyncCloseChannel, per stream
  arrived,  \* the exchanges that have called the hook
  task      \* task[x][s]: the goroutine that tells stream s about exchange x

vars == <<kind, clients, phase, queued, closed, closers, arrived, task>>
channelVars == <<queued, closed, closers>>
hookVars == <<kind, arrived, task>>

Phases == {"connecting", "rejected", "serving", "confirming", "ended"}
Steps == {"none", "ready", "waiting", "full", "empty", "done", "crashed"}

\* The handler of a plugin that registered and is still running.
Live(s) == phase[s] \in {"serving", "confirming"}

\* delete(s.requestInClients, client.name)
WithoutName(s) == {c \in clients : NameOf[c] # NameOf[s]}

\* Tasks run from their start to their first receive without waiting.
AboutToSend(s) == \E x \in Exchanges : task[x][s] = "ready"

TypeOK ==
  /\ kind \in Kinds
  /\ clients \subseteq Streams
  /\ phase \in [Streams -> Phases]
  /\ queued \in [Streams -> 0 .. QueueSize]
  /\ closed \in [Streams -> BOOLEAN]
  /\ closers \in [Streams -> Nat]
  /\ arrived \subseteq Exchanges
  /\ task \in [Exchanges -> [Streams -> Steps]]

Init ==
  /\ kind \in Kinds
  /\ clients = {}
  /\ phase = [s \in Streams |-> "connecting"]
  /\ queued = [s \in Streams |-> 0]
  /\ closed = [s \in Streams |-> FALSE]
  /\ closers = [s \in Streams |-> 0]
  /\ arrived = {}
  /\ task = [x \in Exchanges |-> [s \in Streams |-> "none"]]

-----------------------------------------------------------------------------
(***************************************************************************)
(* The stream handler.                                                     *)
(***************************************************************************)

\* The name is taken: "client already registered".
RegisterDuplicate(s) ==
  /\ phase[s] = "connecting"
  /\ \E c \in clients : NameOf[c] = NameOf[s]
  /\ phase' = [phase EXCEPT ![s] = "rejected"]
  /\ UNCHANGED <<clients, channelVars, hookVars>>

Register(s) ==
  /\ phase[s] = "connecting"
  /\ \A c \in clients : NameOf[c] # NameOf[s]
  /\ clients' = clients \cup {s}
  /\ phase' = [phase EXCEPT ![s] = "serving"]
  /\ UNCHANGED <<channelVars, hookVars>>

\* The loop takes a message and stream.Send hands it to the plugin.
Forward(s) ==
  /\ phase[s] = "serving"
  /\ queued[s] > 0
  /\ queued' = [queued EXCEPT ![s] = @ - 1]
  /\ phase' = [phase EXCEPT ![s] = "confirming"]
  /\ UNCHANGED <<clients, closed, closers, hookVars>>

\* stream.Send fails: the handler returns and its deferred function closes ok.
SendFails(s) ==
  /\ phase[s] = "serving"
  /\ queued[s] > 0
  /\ queued' = [queued EXCEPT ![s] = @ - 1]
  /\ phase' = [phase EXCEPT ![s] = "ended"]
  /\ UNCHANGED <<clients, closed, closers, hookVars>>

\* ok <- true meets <-client.ok of some task of this stream, whatever message
\* that task queued, if any.
Confirm(s) ==
  /\ phase[s] = "confirming"
  /\ \E x \in Exchanges :
       /\ task[x][s] = "waiting"
       /\ task' = [task EXCEPT ![x][s] = "done"]
  /\ phase' = [phase EXCEPT ![s] = "serving"]
  /\ UNCHANGED <<kind, clients, channelVars, arrived>>

\* The queue was closed and is drained: the handler returns and closes ok.
RangeEnds(s) ==
  /\ phase[s] = "serving"
  /\ queued[s] = 0
  /\ closed[s]
  /\ phase' = [phase EXCEPT ![s] = "ended"]
  /\ UNCHANGED <<clients, channelVars, hookVars>>

Serve(s) == Forward(s) \/ SendFails(s) \/ Confirm(s) \/ RangeEnds(s)

Handler(s) == RegisterDuplicate(s) \/ Register(s) \/ Serve(s)

RequestIn(s) == kind = "RequestIn" /\ Handler(s)
RequestOut(s) == kind = "RequestOut" /\ Handler(s)
ResponseIn(s) == kind = "ResponseIn" /\ Handler(s)
ResponseOut(s) == kind = "ResponseOut" /\ Handler(s)

-----------------------------------------------------------------------------
(***************************************************************************)
(* The hook and the goroutines it starts.                                  *)
(***************************************************************************)

\* The hook starts a task for every client registered now, and returns.
StartTasks(x) ==
  /\ x \notin arrived
  /\ arrived' = arrived \cup {x}
  /\ task' = [task EXCEPT ![x] = [s \in Streams |-> IF s \in clients THEN "ready" ELSE "none"]]
  /\ UNCHANGED <<kind, clients, phase, channelVars>>

Go(x, s, from, to) ==
  /\ task[x][s] = from
  /\ task' = [task EXCEPT ![x][s] = to]
  /\ UNCHANGED <<kind, phase, arrived>>

\* Mutant: the task queues its message and does not wait for the handler.
Enqueue_NoWait(x, s) ==
  /\ Go(x, s, "ready", "done")
  /\ ~closed[s]
  /\ queued[s] < QueueSize
  /\ queued' = [queued EXCEPT ![s] = @ + 1]
  /\ UNCHANGED <<clients, closed, closers>>

\* Mutant: the queue grows without limit.
Enqueue_Unbounded(x, s) ==
  /\ Go(x, s, "ready", "waiting")
  /\ ~closed[s]
  /\ queued' = [queued EXCEPT ![s] = @ + 1]
  /\ UNCHANGED <<clients, closed, closers>>

Enqueue(x, s) ==
  /\ Go(x, s, "ready", "waiting")
  /\ ~closed[s]
  /\ queued[s] < QueueSize
  /\ queued' = [queued EXCEPT ![s] = @ + 1]
  /\ UNCHANGED <<clients, closed, closers>>

FindFull(x, s) ==
  /\ Go(x, s, "ready", "full")
  /\ ~closed[s]
  /\ queued[s] = QueueSize
  /\ UNCHANGED <<clients, channelVars>>

\* The send panics on a goroutine where nothing recovers: the process dies.
SendOnClosed(x, s) ==
  /\ Go(x, s, "ready", "crashed")
  /\ closed[s]
  /\ UNCHANGED <<clients, channelVars>>

\* Mutant: "continue FOR" before asyncCloseChannel, as in RequestModHook.
RemoveFull_LeavesOpen(x, s) ==
  /\ Go(x, s, "full", "waiting")
  /\ clients' = WithoutName(s)
  /\ UNCHANGED channelVars

\* The full client is removed, and the task goes on to wait with the others.
RemoveFull(x, s) ==
  /\ Go(x, s, "full", "waiting")
  /\ clients' = WithoutName(s)
  /\ closers' = [closers EXCEPT ![s] = @ + 1]
  /\ UNCHANGED <<queued, closed>>

\* The receive yields false: the handler has ended and closed the channel.
ReceiveFalse(x, s) ==
  /\ Go(x, s, "waiting", "empty")
  /\ phase[s] = "ended"
  /\ UNCHANGED <<clients, channelVars>>

RemoveEmpty(x, s) ==
  /\ Go(x, s, "empty", "done")
  /\ clients' = WithoutName(s)
  /\ closers' = [closers EXCEPT ![s] = @ + 1]
  /\ UNCHANGED <<queued, closed>>

Proceed(x, s) ==
  \/ Enqueue(x, s)
  \/ FindFull(x, s)
  \/ SendOnClosed(x, s)
  \/ RemoveFull(x, s)
  \/ ReceiveFalse(x, s)
  \/ RemoveEmpty(x, s)

Hook(x) == StartTasks(x) \/ \E s \in Streams : Proceed(x, s)

RequestInHook(x) == kind = "RequestIn" /\ Hook(x)
RequestOutHook(x) == kind = "RequestOut" /\ Hook(x)
ResponseInHook(x) == kind = "ResponseIn" /\ Hook(x)
ResponseOutHook(x) == kind = "ResponseOut" /\ Hook(x)

-----------------------------------------------------------------------------

\* Mutant: the channel is closed at once, without the 60 seconds' grace.
CloseFires_AtOnce(s) ==
  /\ closers[s] > 0
  /\ closed' = [closed EXCEPT ![s] = TRUE]
  /\ closers' = [closers EXCEPT ![s] = @ - 1]
  /\ UNCHANGED <<clients, phase, queued, hookVars>>

\* One of asyncCloseChannel's goroutines wakes up after 60 seconds and closes the
\* channel; a second close panics and is recovered.  The sleep is assumed to
\* outlast the first steps of a task.
CloseFires(s) ==
  /\ closers[s] > 0
  /\ ~AboutToSend(s)
  /\ closed' = [closed EXCEPT ![s] = TRUE]
  /\ closers' = [closers EXCEPT ![s] = @ - 1]
  /\ UNCHANGED <<clients, phase, queued, hookVars>>

\* Every exchange has called the hook and every task has ended.
Quiet ==
  /\ arrived = Exchanges
  /\ \A x \in Exchanges, s \in Streams : task[x][s] \in {"none", "done", "crashed"}
  /\ UNCHANGED vars

Next ==
  \/ \E s \in Streams :
       \/ RequestIn(s) \/ RequestOut(s) \/ ResponseIn(s) \/ ResponseOut(s)
       \/ CloseFires(s)
  \/ \E x \in Exchanges :
       RequestInHook(x) \/ RequestOutHook(x) \/ ResponseInHook(x) \/ ResponseOutHook(x)
  \/ Quiet

Spec == Init /\ [][Next]_vars

\* Goroutines that can run do run, timers fire, and stream.Send to a plugin
\* succeeds or fails in the end.
Fairness ==
  \A s \in Streams :
    /\ WF_vars(Serve(s))
    /\ WF_vars(CloseFires(s))
    /\ \A x \in Exchanges : WF_vars(Proceed(x, s))

FairSpec == Spec /\ Fairness

-----------------------------------------------------------------------------

Waiting(s) == {x \in Exchanges : task[x][s] = "waiting"}

\* Messages a handler still has to confirm.
Owed(s) == queued[s] + (IF phase[s] = "confirming" THEN 1 ELSE 0)

\* A running handler has at least as many tasks waiting for it as messages to
\* confirm, so that its "ok <- true" always finds a receiver; the tasks that
\* found the queue full only add to them.
EnoughWaiters ==
  \A s \in Streams : phase[s] # "ended" => Cardinality(Waiting(s)) >= Owed(s)

\* A channel that is closed or about to be belongs to no client in the map.
ClosedIsGone ==
  \A s \in Streams : closed[s] \/ closers[s] > 0 => s \notin clients

\* No task sends on a closed channel, which would end the process.
NoCrash == \A x \in Exchanges, s \in Streams : task[x][s] # "crashed"

\* No other stream of this plugin's name has ever been registered.
Unshared(s) ==
  \A r \in Streams \ {s} : NameOf[r] = NameOf[s] => phase[r] \in {"connecting", "rejected"}

\* A plugin that is still connected is in the map, or its channel is closed or
\* will be, so that its stream ends: it is never there and shown nothing.  (A plugin
\* that reconnects is an exception: a task of its old stream may remove the new one.)
NoOrphan ==
  \A s \in Streams :
    Live(s) /\ Unshared(s) => s \in clients \/ closed[s] \/ closers[s] > 0

\* No goroutine is leaked: every task that is started ends, also those that wait
\* for a confirmation that nobody owes them.
TasksEnd ==
  \A x \in Exchanges, s \in Streams :
    task[x][s] = "ready" ~> task[x][s] \in {"done", "crashed"}
=============================================================================
