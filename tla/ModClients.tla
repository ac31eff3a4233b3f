------------------------------ MODULE ModClients ------------------------------
(***************************************************************************)
(* The modification plugins of the gRPC server (internal/grpc/server.go):  *)
(* the stream handlers RequestMod and ResponseMod, one goroutine per       *)
(* connected plugin, and the hooks RequestModHook and ResponseModHook,     *)
(* which every intercepted exchange runs on its own goroutine.             *)
(*                                                                         *)
(* A handler and the exchanges share two Go channels per plugin: a         *)
(* buffered one carrying the original messages to the handler, and an      *)
(* UNBUFFERED one carrying the modified messages back.  Nothing on the     *)
(* second channel says which exchange a reply is for: any exchange that    *)
(* waits on it may take it.                                                *)
(*                                                                         *)
(* A message is represented by the exchange it was intercepted on, because *)
(* that is all the properties distinguish.  A stream that breaks is not    *)
(* restarted: a plugin that reconnects does so as a new element of Streams *)
(* registering the same name.                                              *)
(***************************************************************************)
EXTENDS Naturals, Sequences, FiniteSets

CONSTANTS
  Exchanges,   \* intercepted messages; each makes one call of the hook
  Streams,     \* RequestMod (or ResponseMod) streams ever opened by plugins
  NameOf,      \* [Streams -> names]: the name a stream registers under
  Kind,        \* which of the two copies of the code runs: "request" or "response"
  QueueSize    \* capacity of originalRequests / originalResponses (1000)

None == "none"   \* an exchange that has not come to a stream yet

ASSUME ModClientsAssumption ==
  /\ None \notin Streams
  /\ Kind \in {"request", "response"}
  /\ QueueSize \in Nat \ {0}

VARIABLES
  clients,  \* requestModClients: the streams in the map, keyed by their name
  phase,    \* where each stream's handler is
  queue,    \* the buffered channel of each stream
  closed,   \* whether that channel has been closed
  closers,  \* sleeping goroutines started by asyncCloseChannel, per stream
  held,     \* the message the handler took from the channel (r, then modReq)
  pc,       \* where each exchange is in the hook
  todo,     \* the streams of its snapshot that it has not come to yet
  cur,      \* the stream it is dealing with (client)
  msg       \* the message it carries (r)

vars == <<clients, phase, queue, closed, closers, held, pc, todo, cur, msg>>
channelVars == <<queue, closed, closers>>
handlerVars == <<phase, held>>
hookVars == <<pc, todo, cur, msg>>

Phases == {"connecting", "rejected", "serving", "awaiting", "replying", "ended"}
Steps == {"idle", "ready", "waiting", "full", "empty", "done", "panicked"}

\* The handler of a plugin that registered and is still running.
Live(s) == phase[s] \in {"serving", "awaiting", "replying"}

\* delete(s.requestModClients, client.name): whatever stream is registered
\* under the name goes, be it the caller's client or not.
WithoutName(s) == {c \in clients : NameOf[c] # NameOf[s]}

\* Hook goroutines run from the snapshot, or from the receipt of a reply, to
\* their next blocking receive without waiting for anything but mutexes.
AboutToSend(s) == \E x \in Exchanges : pc[x] \in {"ready", "full"} /\ s \in todo[x]

TypeOK ==
  /\ clients \subseteq Streams
  /\ phase \in [Streams -> Phases]
  /\ queue \in [Streams -> Seq(Exchanges)]
  /\ closed \in [Streams -> BOOLEAN]
  /\ closers \in [Streams -> Nat]
  /\ held \in [Streams -> Exchanges \cup {None}]
  /\ pc \in [Exchanges -> Steps]
  /\ todo \in [Exchanges -> SUBSET Streams]
  /\ cur \in [Exchanges -> Streams \cup {None}]
  /\ msg \in [Exchanges -> Exchanges]

Init ==
  /\ clients = {}
  /\ phase = [s \in Streams |-> "connecting"]
  /\ queue = [s \in Streams |-> <<>>]
  /\ closed = [s \in Streams |-> FALSE]
  /\ closers = [s \in Streams |-> 0]
  /\ held = [s \in Streams |-> None]
  /\ pc = [x \in Exchanges |-> "idle"]
  /\ todo = [x \in Exchanges |-> {}]
  /\ cur = [x \in Exchanges |-> None]
  /\ msg = [x \in Exchanges |-> x]

-----------------------------------------------------------------------------
(***************************************************************************)
(* The stream handler: RequestMod, and ResponseMod line for line alike.    *)
(***************************************************************************)

\* The first message cannot be received or does not register a name.
RegisterFails(s) ==
  /\ phase[s] = "connecting"
  /\ phase' = [phase EXCEPT ![s] = "rejected"]
  /\ UNCHANGED <<clients, channelVars, held, hookVars>>

\* The name is taken: "client already registered".
RegisterDuplicate(s) ==
  /\ phase[s] = "connecting"
  /\ \E c \in clients : NameOf[c] = NameOf[s]
  /\ phase' = [phase EXCEPT ![s] = "rejected"]
  /\ UNCHANGED <<clients, channelVars, held, hookVars>>

Register(s) ==
  /\ phase[s] = "connecting"
  /\ \A c \in clients : NameOf[c] # NameOf[s]
  /\ clients' = clients \cup {s}
  /\ phase' = [phase EXCEPT ![s] = "serving"]
  /\ UNCHANGED <<channelVars, held, hookVars>>

\* The loop takes a message and stream.Send hands it to the plugin.
Forward(s) ==
  /\ phase[s] = "serving"
  /\ queue[s] # <<>>
  /\ held' = [held EXCEPT ![s] = Head(queue[s])]
  /\ queue' = [queue EXCEPT ![s] = Tail(@)]
  /\ phase' = [phase EXCEPT ![s] = "awaiting"]
  /\ UNCHANGED <<clients, closed, closers, hookVars>>

\* Mutant: the handler logs the failed send and goes on to the next message.
SendFails_Continues(s) ==
  /\ phase[s] = "serving"
  /\ queue[s] # <<>>
  /\ queue' = [queue EXCEPT ![s] = Tail(@)]
  /\ UNCHANGED <<clients, closed, closers, handlerVars, hookVars>>

\* The loop takes a message but stream.Send fails: the handler returns and its
\* deferred function closes modifiedRequests.
SendFails(s) ==
  /\ phase[s] = "serving"
  /\ queue[s] # <<>>
  /\ queue' = [queue EXCEPT ![s] = Tail(@)]
  /\ phase' = [phase EXCEPT ![s] = "ended"]
  /\ UNCHANGED <<clients, closed, closers, held, hookVars>>

\* stream.Recv returns the message as the plugin modified it.
Answered(s) ==
  /\ phase[s] = "awaiting"
  /\ phase' = [phase EXCEPT ![s] = "replying"]
  /\ UNCHANGED <<clients, channelVars, held, hookVars>>

\* Mutant: the handler returns without closing modifiedRequests.
AnswerFails_LeavesOpen(s) ==
  /\ phase[s] = "awaiting"
  /\ phase' = [phase EXCEPT ![s] = "rejected"]
  /\ UNCHANGED <<clients, channelVars, held, hookVars>>

\* stream.Recv fails, or returns a message of the wrong kind or one that does
\* not convert: the handler returns and closes modifiedRequests.
AnswerFails(s) ==
  /\ phase[s] = "awaiting"
  /\ phase' = [phase EXCEPT ![s] = "ended"]
  /\ UNCHANGED <<clients, channelVars, held, hookVars>>

\* Mutant: the hook checks the reply and goes on with the message it had.
Deliver_Ignored(s) ==
  /\ phase[s] = "replying"
  /\ \E x \in Exchanges :
       /\ pc[x] = "waiting"
       /\ cur[x] = s
       /\ pc' = [pc EXCEPT ![x] = "ready"]
  /\ phase' = [phase EXCEPT ![s] = "serving"]
  /\ UNCHANGED <<clients, channelVars, held, todo, cur, msg>>

\* modifiedRequests <- modReq meets <-client.modifiedRequests: the handler goes
\* back to its loop and the exchange carries what it received to its next
\* client.  The receiver is whichever exchange of this client reached the
\* channel first, and nothing orders that by who sent first.
Deliver(s) ==
  /\ phase[s] = "replying"
  /\ \E x \in Exchanges :
       /\ pc[x] = "waiting"
       /\ cur[x] = s
       /\ msg' = [msg EXCEPT ![x] = held[s]]
       /\ pc' = [pc EXCEPT ![x] = "ready"]
  /\ phase' = [phase EXCEPT ![s] = "serving"]
  /\ UNCHANGED <<clients, channelVars, held, todo, cur>>

\* originalRequests was closed and is drained: the loop ends, and with it the
\* handler and the plugin's stream.
RangeEnds(s) ==
  /\ phase[s] = "serving"
  /\ queue[s] = <<>>
  /\ closed[s]
  /\ phase' = [phase EXCEPT ![s] = "ended"]
  /\ UNCHANGED <<clients, channelVars, held, hookVars>>

Serve(s) ==
  \/ Forward(s)
  \/ SendFails(s)
  \/ Answered(s)
  \/ AnswerFails(s)
  \/ Deliver(s)
  \/ RangeEnds(s)

Handler(s) == RegisterFails(s) \/ RegisterDuplicate(s) \/ Register(s) \/ Serve(s)

RequestMod(s) == Kind = "request" /\ Handler(s)
ResponseMod(s) == Kind = "response" /\ Handler(s)

-----------------------------------------------------------------------------
(***************************************************************************)
(* The hook, run by the goroutine of an intercepted exchange.              *)
(***************************************************************************)

\* The registered clients are copied under the read lock.
Snapshot(x) ==
  /\ pc[x] = "idle"
  /\ pc' = [pc EXCEPT ![x] = "ready"]
  /\ todo' = [todo EXCEPT ![x] = clients]
  /\ UNCHANGED <<clients, channelVars, handlerVars, cur, msg>>

\* The loop over the snapshot comes to some client (Go's map order is
\* arbitrary) ...
TakeClient(x, s) ==
  /\ pc[x] = "ready"
  /\ s \in todo[x]
  /\ todo' = [todo EXCEPT ![x] = @ \ {s}]
  /\ cur' = [cur EXCEPT ![x] = s]
  /\ UNCHANGED <<clients, handlerVars, closed, closers, msg>>

\* ... whose channel has room: select takes the send case.
Enqueue(x, s) ==
  /\ TakeClient(x, s)
  /\ ~closed[s]
  /\ Len(queue[s]) < QueueSize
  /\ queue' = [queue EXCEPT ![s] = Append(@, msg[x])]
  /\ pc' = [pc EXCEPT ![x] = "waiting"]

\* ... whose channel is full: select takes the default case.
FindFull(x, s) ==
  /\ TakeClient(x, s)
  /\ ~closed[s]
  /\ Len(queue[s]) = QueueSize
  /\ pc' = [pc EXCEPT ![x] = "full"]
  /\ UNCHANGED queue

\* ... whose channel asyncCloseChannel has closed: the send panics.  For a plain
\* HTTP exchange net/http recovers and the exchange is lost; for a tunnelled one
\* nothing recovers and the process dies, which cuts the behaviour here.
SendOnClosed(x, s) ==
  /\ TakeClient(x, s)
  /\ closed[s]
  /\ pc' = [pc EXCEPT ![x] = "panicked"]
  /\ UNCHANGED queue

\* Mutant: ResponseModHook, too, jumps over asyncCloseChannel.
RemoveFull_LeavesOpen(x) ==
  /\ pc[x] = "full"
  /\ clients' = WithoutName(cur[x])
  /\ pc' = [pc EXCEPT ![x] = "ready"]
  /\ UNCHANGED <<channelVars, handlerVars, todo, cur, msg>>

\* Mutant: the hook returns after it has removed the full client.
RemoveFull_Returns(x) ==
  /\ pc[x] = "full"
  /\ clients' = WithoutName(cur[x])
  /\ closers' = [closers EXCEPT ![cur[x]] = @ + 1]
  /\ pc' = [pc EXCEPT ![x] = "done"]
  /\ UNCHANGED <<handlerVars, queue, closed, todo, cur, msg>>

\* The full client is removed.  In RequestModHook "continue FOR" precedes
\* asyncCloseChannel, so only ResponseModHook has its channel closed.
RemoveFull(x) ==
  /\ pc[x] = "full"
  /\ clients' = WithoutName(cur[x])
  /\ closers' = [closers EXCEPT ![cur[x]] = IF Kind = "response" THEN @ + 1 ELSE @]
  /\ pc' = [pc EXCEPT ![x] = "ready"]
  /\ UNCHANGED <<handlerVars, queue, closed, todo, cur, msg>>

\* Mutant: the reply is assigned to r before it is compared with nil.
ReceiveNil_Assigned(x) ==
  /\ pc[x] = "waiting"
  /\ phase[cur[x]] = "ended"
  /\ pc' = [pc EXCEPT ![x] = "empty"]
  /\ msg' = [msg EXCEPT ![x] = None]
  /\ UNCHANGED <<clients, channelVars, handlerVars, todo, cur>>

\* The receive yields nil: the handler has ended and closed the channel.
ReceiveNil(x) ==
  /\ pc[x] = "waiting"
  /\ phase[cur[x]] = "ended"
  /\ pc' = [pc EXCEPT ![x] = "empty"]
  /\ UNCHANGED <<clients, channelVars, handlerVars, todo, cur, msg>>

\* The dead client is removed, and the exchange goes on with the message it had,
\* whatever clients are left in its snapshot.
RemoveEmpty(x) ==
  /\ pc[x] = "empty"
  /\ clients' = WithoutName(cur[x])
  /\ closers' = [closers EXCEPT ![cur[x]] = @ + 1]
  /\ pc' = [pc EXCEPT ![x] = "done"]
  /\ UNCHANGED <<handlerVars, queue, closed, todo, cur, msg>>

\* No client is left: the hook returns the message.
Return(x) ==
  /\ pc[x] = "ready"
  /\ todo[x] = {}
  /\ pc' = [pc EXCEPT ![x] = "done"]
  /\ UNCHANGED <<clients, channelVars, handlerVars, todo, cur, msg>>

Proceed(x) ==
  \/ \E s \in Streams : Enqueue(x, s) \/ FindFull(x, s) \/ SendOnClosed(x, s)
  \/ RemoveFull(x)
  \/ ReceiveNil(x)
  \/ RemoveEmpty(x)
  \/ Return(x)

Hook(x) == Snapshot(x) \/ Proceed(x)

RequestModHook(x) == Kind = "request" /\ Hook(x)
ResponseModHook(x) == Kind = "response" /\ Hook(x)

-----------------------------------------------------------------------------
(***************************************************************************)
(* asyncCloseChannel.                                                      *)
(***************************************************************************)

\* Mutant: the channel is closed at once, without the 60 seconds' grace.
CloseFires_AtOnce(s) ==
  /\ closers[s] > 0
  /\ closed' = [closed EXCEPT ![s] = TRUE]
  /\ closers' = [closers EXCEPT ![s] = @ - 1]
  /\ UNCHANGED <<clients, handlerVars, queue, hookVars>>

\* Mutant: the goroutine ends after its sleep, and the channel stays open.
CloseFires_LeavesOpen(s) ==
  /\ closers[s] > 0
  /\ closers' = [closers EXCEPT ![s] = @ - 1]
  /\ UNCHANGED <<clients, handlerVars, queue, closed, hookVars>>

\* One of the goroutines wakes up, 60 seconds after it was started, and closes
\* the channel; closing it a second time panics, and that panic is recovered.
\* The sleep is assumed to outlast any run of a hook that does not block, so no
\* channel is closed while an exchange is on its way to send on it.  (It may
\* well be closed while the exchange waits for another client first.)
CloseFires(s) ==
  /\ closers[s] > 0
  /\ ~AboutToSend(s)
  /\ closed' = [closed EXCEPT ![s] = TRUE]
  /\ closers' = [closers EXCEPT ![s] = @ - 1]
  /\ UNCHANGED <<clients, handlerVars, queue, hookVars>>

-----------------------------------------------------------------------------

\* Every exchange has left the hook: a quiet proxy is not a deadlocked one.
Quiet ==
  /\ \A x \in Exchanges : pc[x] \in {"done", "panicked"}
  /\ UNCHANGED vars

Next ==
  \/ \E s \in Streams : RequestMod(s) \/ ResponseMod(s) \/ CloseFires(s)
  \/ \E x \in Exchanges : RequestModHook(x) \/ ResponseModHook(x)
  \/ Quiet

Spec == Init /\ [][Next]_vars

\* Goroutines that can run do run, timers fire, and a plugin that was sent a
\* message answers it or its stream breaks.  Plugins need not connect and
\* exchanges need not arrive.
Fairness ==
  /\ \A s \in Streams : WF_vars(Serve(s)) /\ WF_vars(CloseFires(s))
  /\ \A x \in Exchanges : WF_vars(Proceed(x))

FairSpec == Spec /\ Fairness

-----------------------------------------------------------------------------
(***************************************************************************)
(* What the hook and the handlers guarantee together.                      *)
(***************************************************************************)

Waiting(s) == {x \in Exchanges : pc[x] = "waiting" /\ cur[x] = s}

InHand(s) == phase[s] \in {"awaiting", "replying"}

\* As long as a handler runs, the exchanges blocked on its reply channel are as
\* many as the messages it has yet to answer.  So a handler never offers a reply
\* that nobody will take, and no exchange waits at an idle handler.
NobodyLost ==
  \A s \in Streams : phase[s] # "ended" =>
    Cardinality(Waiting(s)) = Len(queue[s]) + (IF InHand(s) THEN 1 ELSE 0)

\* A channel that is closed or about to be is not in the map any more, so an
\* exchange that arrives later never sends on it.
ClosedIsGone ==
  \A s \in Streams : closed[s] \/ closers[s] > 0 => s \notin clients

\* Nobody else has ever registered under the stream's name.
Unshared(s) ==
  \A r \in Streams \ {s} : NameOf[r] = NameOf[s] => phase[r] \in {"connecting", "rejected"}

\* A plugin that registered and is still connected either is in the map, and takes
\* part in every later exchange, or is on its way out: its channel is closed or will
\* be, and its stream will end.  (A plugin that reconnects under its old name can be
\* dropped in its own old place: whoever removes the old stream removes by name.)
NoOrphan ==
  \A s \in Streams : Live(s) /\ Unshared(s) => s \in clients \/ closed[s] \/ closers[s] > 0

\* No exchange sends on a closed channel.
NoPanic == \A x \in Exchanges : pc[x] # "panicked"

\* While no handler has ended, every message is in exactly one place: with one
\* exchange that is not blocked, in one handler's hands, or once in one queue.
\* Exchanges may swap messages, but none is duplicated and none is lost.
CarriedOnce ==
  (\A s \in Streams : phase[s] # "ended") =>
    \A m \in Exchanges :
      LET carrying == {x \in Exchanges : pc[x] # "waiting" /\ msg[x] = m}
          holding == {s \in Streams : InHand(s) /\ held[s] = m}
          queued == {p \in Streams \X (1 .. QueueSize) :
                       p[2] <= Len(queue[p[1]]) /\ queue[p[1]][p[2]] = m}
      IN Cardinality(carrying) + Cardinality(holding) + Cardinality(queued) = 1

\* An exchange that leaves the hook before it has been offered to every plugin that
\* was registered when it came was waiting for one that broke ("return r, nil" ends
\* the loop over the snapshot); one that falls behind costs the others nothing.
SkippedOnlyByBroken ==
  \A x \in Exchanges : pc[x] = "done" /\ todo[x] # {} => phase[cur[x]] = "ended"

\* Every exchange that enters the hook leaves it.
HookReturns ==
  \A x \in Exchanges : pc[x] = "ready" ~> pc[x] \in {"done", "panicked"}

\* The handler of a plugin that was dropped from the map ends, which closes the
\* plugin's stream and tells it so.
DroppedIsReleased ==
  \A s \in Streams : (Live(s) /\ s \notin clients) ~> phase[s] = "ended"

(***************************************************************************)
(* The promise of Modification.                                            *)
(***************************************************************************)

Standing ==
  [s \in Streams |->
     CASE phase[s] \in {"connecting", "rejected"} -> "new"
       [] Live(s) -> "joined"
       [] OTHER -> "broken"]

Stage ==
  [x \in Exchanges |->
     CASE pc[x] = "idle" -> "out"
       [] pc[x] = "ready" -> "in"
       [] pc[x] = "waiting" -> "with"
       [] pc[x] = "full" -> "refused"
       [] pc[x] = "empty" -> "failed"
       [] pc[x] = "done" -> "back"
       [] OTHER -> "lost"]

Returned == [x \in Exchanges |-> IF pc[x] = "done" THEN msg[x] ELSE None]

Promise == INSTANCE Modification
             WITH Plugins <- Streams, Bound <- QueueSize, members <- clients,
                  standing <- Standing, stage <- Stage, left <- todo, at <- cur,
                  returned <- Returned

\* Handlers, hooks and timers together keep the promise of Modification: each exchange is
\* offered once to each plugin that was registered when it came, unless one before it
\* broke; only a plugin that broke or has its queue full is dropped; messages are swapped,
\* but not invented nor, while the streams hold, duplicated.
Implements == Promise!Spec

(***************************************************************************)
(* What the documentation and the tests say and the code does not do.      *)
(***************************************************************************)

\* The message an exchange leaves the hook with is the one it brought, modified:
\* the request of the exchange that is forwarded, the response that is returned.
OwnMessage == \A x \in Exchanges : pc[x] = "done" => msg[x] = x
=============================================================================
