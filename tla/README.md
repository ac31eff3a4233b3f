# A formal model of efin-proxy

efin-proxy is an HTTP and HTTPS proxy that shows the traffic it intercepts to
plugins, lets them change it, and keeps it in a database. These TLA+ modules
model the parts of it where goroutines meet, TLC checks them on small instances,
and TLAPS proves the most important safety properties for every instance.

Paths are relative to the repository; "server.go" without a path is
`internal/grpc/server.go`.

## 1. The system

| Component | Source | State | Operations |
|---|---|---|---|
| Exchange flow | `internal/proxy/proxy.go` | the goroutine of each exchange | `ServeHTTP`, `processRequestPipelines`, `processResponsePipelines` |
| Tunnels | `internal/proxy/proxy.go`, `internal/certs` | connections, certificate cache | `HandleConnect`, `generateCert` |
| Pipelines | `internal/pipeline/pipeline.go` | hook lists, a queue of 1000 items per read-only pipeline | `RunPipeline`, `SetHooks`, the worker |
| Plugin server | `internal/grpc/server.go` | six tables of clients, two channels per client | six stream handlers, six hooks, `asyncCloseChannel` |
| Configuration and start | `internal/proxy/config.go`, server.go, `proxy.go` | the current configuration | `Apply`, `GetConfig`, `SetConfig`, `GetProxy` |
| IDs and database | `internal/hooks/db.go`, `internal/ids` | the last ID, the savers' queues, the rows | `NextID`, the save hooks, the saver |
| Scope, cloning, conversion | `internal/scope`, `internal/httpbytes`, `internal/grpc/convert.go` | none | `IsInScope`, `CloneRequest`, `ToProto...`, `FromProto...` |
| Printing, saving files, command line, example plugin, generated code | `internal/hooks/print.go`, `pkg`, `cmd` | none of interest | input and output |

How an exchange runs. Its goroutine takes an ID, asks whether it is in scope, and
sends its request through three pipelines: RequestIn (read-only), RequestMod,
RequestOut (read-only). It forwards what RequestMod made of the request, and sends
the response through ResponseIn, ResponseMod and ResponseOut. A read-only pipeline
queues the message and returns; a worker of its own clones it and runs the hooks. A
modification pipeline runs its hooks on the exchange's goroutine. One hook of each
pipeline is the plugin server's, which passes the message to every plugin that is
registered for it. The hooks of RequestOut and ResponseIn include those of the
database saver. A CONNECT request makes a tunnel: two connections, a certificate,
and a goroutine that runs one exchange after the other, or copies bytes both ways
once it has seen a WebSocket handshake. `SetConfig` replaces the ID provider, the
scope and all hook lists while exchanges run.

What is hard:

* exchanges, handlers and timers of one plugin meet at two channels, one of them
  unbuffered and shared by all exchanges, and at a table keyed by a name that the
  plugin may register again;
* streams break at any point, and channels are closed by a timer 60 seconds after
  their plugin was dropped;
* every queue is bounded, and each has its own way of dealing with that: the
  pipelines and the savers drop the message, the plugin server drops the plugin;
* a message is in several hands at once: it is in a queue, or being cloned by a
  worker, while the exchange changes or sends it, and bodies can be read once;
* configurations are applied part by part under traffic, and may fail halfway;
* rows are written long after the exchange, requests and responses apart, by a
  process that may be killed;
* a tunnel can end in ten ways, and its peers need not take turns.

What makes each component correct:

* plugins: an exchange is never stuck in, lost by or duplicated by a modification
  hook, and leaves it with its own message; a plugin is either registered or
  disconnected; nobody sends on a closed channel;
* pipelines: an item that is queued is shown to the hooks it was queued for, in order;
* exchange: a hook sees its message as it was at its place in the exchange, whenever it
  looks; what is sent is whole; request and response are both intercepted or neither,
  and have one ID;
* configuration: what `GetConfig` reports is what runs, or, after a failure, what ran;
* database: the IDs of a file are unique, and its rows of one ID belong to one exchange;
* tunnels: every connection is closed, every answer goes with its request, every
  client is served the certificate of the host it named.

## 2. The modules

| Module | Models | Theorems |
|---|---|---|
| `ModClients` | `RequestMod`, `ResponseMod`, their hooks, `asyncCloseChannel` | `ModClientsProofs` |
| `Modification` | what the plugin server promises of modification plugins (abstract) | |
| `RoClients` | `RequestIn`, `RequestOut`, `ResponseIn`, `ResponseOut`, their hooks, `asyncCloseChannel` | `RoClientsProofs` |
| `RoPipeline` | `ReadOnlyPipeline` | `RoPipelineProofs` |
| `Notification` | what a read-only pipeline promises (abstract) | |
| `Exchange` | `ServeHTTP`, the pipelines between its steps, cloning, conversion | `ExchangeProofs` |
| `Scope` | `scope.New`, `IsInScope`; extended by `Exchange` | |
| `Config` | `Config.Apply`, `GetConfig`, `SetConfig`, the start | `ConfigProofs` |
| `Saver` | `DBIDProvider`, the save hooks and savers, the database part of `Apply`, restarts | `SaverProofs` |
| `Archive` | what the ID provider and the savers promise (abstract) | |
| `Tunnel` | `HandleConnect`, `generateCert` | `TunnelProofs` |

`MCModClients`, `MCRoClients`, `MCExchange`, `MCConfig` and `MCTunnel` define values
for constants that a .cfg cannot write. Operators whose name has an underscore
(`Deliver_Ignored`) are faulty variants of the operator before the underscore,
described by their comment. No specification uses them; put in the place of the
operator, each makes some property fail.

The modules meet at promises, not by sharing variables. `Exchange` uses a read-only
pipeline as `Notification` allows (an item is taken or not, and shown at any later
time) and the plugin server's hook as `Modification` allows (it returns a message of
a plugin's, which may be made of another exchange's message, or the one it was given);
it finds any scope and any hook list each
time it reads one, which is more than `Config` does. `Tunnel` has of the exchange
that it passes or fails. `Config` and `Saver` have the same `Apply`, with its exits, once
with all parts and once with what it reads and writes of the database.

### ModClients

An element of `Streams` is one stream a plugin opens, an element of `Exchanges` one
call of the hook; a plugin that reconnects is a new stream with the old name.
`clients` is the table, `phase` the place of a handler in its code, `queue` the
buffered channel, `closed` whether it was closed, `closers` the goroutines of
`asyncCloseChannel` asleep. An exchange has a snapshot (`todo`), a client it deals
with (`cur`), and the message it carries (`msg`). The unbuffered channel needs no
variable: `Deliver` is the meeting of a handler that sends and any exchange that
receives from it. A message is represented by the exchange it was intercepted on.

The two copies of the code differ in one place: `RequestModHook` jumps over
`asyncCloseChannel` when the queue is full, `ResponseModHook` does not
(`RemoveFull`). `Kind` says which copy runs. A send on a closed channel panics and
ends the exchange: net/http recovers for plain HTTP; in a tunnel nothing does, the
process dies, and the model's behaviour is one that stops there.

`Modification` says the same without channels, handlers or timers. Plugins join and
break; an exchange arrives, is offered to those that were members then, one after the
other, and comes back with a message. A plugin may refuse one only if it broke or
`Bound` exchanges wait for it, and is expelled only then; only behind a plugin that
broke may an exchange give up; what it comes back with is what somebody brought, its
own if no plugin had it, and nobody else's while no plugin has broken; and it may panic
only at a plugin that was expelled meanwhile, never at its first. `Implements` maps the
table to `members`, the snapshot to `left`, `cur` to `at`, a handler's place to
`standing` (`Standing`) and an exchange's to `stage` (`Stage`). What the queue has room
for becomes the number of exchanges that wait, which is what `NobodyLost` is for.

### RoClients

Here a hook starts a goroutine per client and exchange, a task, and returns: `task`
says where each is. A task that found the queue full waits for a confirmation all
the same (server.go:444), so tasks and confirmations are counted, not matched. The
queue is a number, for nothing depends on which message is where. `kind` says which
of the four alike copies of the code runs; it never changes.

### RoPipeline and Notification

`RunPipeline` is two steps, because the hook list is read before the item is
queued: `ReadHooks`, then `Enqueue`, `NoHooks` or `QueueFull`. The worker takes an
item with its list, runs the hooks at the same time (`HookReturns` in any order)
and waits for all. `Notification` knows no queue, no worker and no goroutines: an
item is offered, then accepted, ignored, or, only with too many pending, dropped,
and the oldest pending item is shown to one of its hooks after the other.
`Implements` maps the worker's item, while hooks run on it, and the queue to
`pending`.

### Exchange and Scope

A message is an object that several goroutines hold. On each side, request and
response, there are up to three: the one that was read (`original`), the one in the
queue of the In pipeline (`queued`), and the clone the modification hooks work on
(`working`), which is also the item of the Out pipeline and what is sent. `CloneRequest`
copies all of a message but its URL, so the three share one URL object, the client's;
a plugin answers with an object that has its own. A body is a stream, or the
`BodyWrapper` that cloning puts in its place, read or not: cloning gives the clone a
reader of its own, and `ModPipeline` resets or clones the body after each hook
(`AfterHook`).

A hook is the repository's or a caller's function (`Native`: it may change the
message, its body and, in place, its URL, or fail), or the plugin server's (`Answers`, or
`Gone` if the plugin is not there). `Show` is the worker of a read-only pipeline: it clones the
item as it is at that moment, which may be long after the exchange is over. The ID is
in the message's context: a request from a plugin has the ID the plugin says,
`FromProtoRequest`; a response has that of the request it answers. What a plugin's reply
is made of may be another exchange's message (`Taken`; `mod_swapped` shows how it comes
to that): then it has another's content and, if it is a response, another's ID, for
which "other" stands. `asked` is what the
client wanted; the scope function is read once and asked twice (`AskScope`,
`AskAgain`), the second time about the URL as it is then.

### Config

The proxy has eight parts in the order in which `Apply` replaces them: provider, scope,
six hook lists. `step` says how many an `Apply` under way has replaced; it
may fail at the database, before the first part, and at an expression that does not
compile, after the first. A caller waits for `configMutex`, applies
under it, and makes its configuration the reported one whatever came of it. `main` is
the start of the proxy, `GetProxy`, which applies the first configuration without the
mutex while the plugin server already accepts calls. `failed`, `early` and `applied`
are history, for the properties only.

### Saver and Archive

`NextID` gives an exchange its ID, and `home` is the file whose provider counted it: no
file while no database is configured, for then IDs are UUIDs and `id` is 0. `RequestOut`
and `ResponseIn` put its messages in the
pipelines, with the saver whose hook is installed; before that a plugin of RequestMod may
have put another ID, or another exchange's, in the place of the first (`Rename`).
`saveRequest` and `saveResponse` put
them in the saver's queue or drop them; the saver writes a row, fails, or finds the
database busy and tries again. `Apply` follows config.go: the last ID of the file that is
configured, which need not be the one in use, is read (`NewDBIDProvider`), the provider is
installed and a saver is started (`SetIDProvider`), or UUIDs are
(`NewDefaultProvider`); then the two hooks are installed one after the other, unless the
expression does not compile, and the provider is new and the hooks are not (`ApplyFails`).
A saver is known by the number of its configuration and its file; one that was replaced
goes on with its queue, and exchanges under way go on with the ID they have, so their
rows may stray into a file that never gave that ID. `Crash` keeps the rows and nothing
else, and is followed by the start of the proxy, with any file or none, up to where it
listens; its exchanges are lost. `setBack` and `orphans` are
history, for the properties only: the files of which, since the last start, a provider
counted on from less than the ID of an exchange under way, and those of which it ever
was so, or from less than an ID in the table of responses. The 64-bit counter is taken
not to overflow. The pipelines before the savers are without bound here: that they may
drop an item as well is the saver's drop.

`Archive` has no pipelines, queues, savers or configurations. An exchange begins with an
ID that is free in a file, or with none; its two messages are offered, its request perhaps
under another ID, each to one file or to none, and each is then pending until it is
written there, once and under the ID of its exchange, or lost. IDs of a file are free of
those of
exchanges under way and of its requests while it is `trusted`, and of those of its
responses while it is `kept`; strays do not count. `Implements` maps what is in a pipeline
or a queue to `pending`, and the files that are not in `setBack` and `orphans` to `trusted`
and `kept`; retries, and an `Apply` that sets nobody back, are stutters.

### Tunnel

Each tunnel goes through the steps of `HandleConnect` (`Dial` to `Store`) and then the
loop of its goroutine. `open` has the connections it must still close, `cache` and
`cert` the certificates, named by their host. Of the bytes on the way, messages and
frames are kept: on the client's connection (`wire`), in `clientReader`'s buffer
(`ahead`), in `destReader`'s (`behind`), and so on. A `bufio.Reader` that has to
receive may receive any number of messages (`Taken`), which is what matters when
`io.Copy` later reads the connection past it. Clients and destinations are external:
they send, they leave, a destination answers in order and may send an interim
response first. Bounds on what they send are `MaxSends` and `MaxFrames`.

## 3. What is checked

| Run | Instance | States | Shows |
|---|---|---|---|
| `mod_request` | 3 exchanges, 2 streams of one name | 50,864 | types; waiters match answers owed; no message is lost or duplicated while streams hold; no send on a closed channel; every exchange leaves the hook |
| `mod_response` | 2 exchanges, 2 names | 17,666 | a dropped plugin's channel is closed and its handler ends; `ModClients` implements `Modification` |
| `ro_plugin` | 3 exchanges, 2 streams of one name | 44,576 | types; a confirmation always finds a task; no send on a closed channel; a dropped plugin is released; every task ends |
| `pipe` | 3 items, 2 hooks | 30,780 | `RoPipeline` implements `Notification`; every queued item is shown to its hooks |
| `saver` | 2 exchanges, 2 files, 1 `Apply`, 1 restart | 651,373 | types; IDs of a file are unique until a provider of it counts on from less; its own responses match its own requests unless an ID was forgotten; queues empty however busy the database is; `Saver` implements `Archive` |
| `config` | 2 callers, 3 settings | 135,492 | types; what is reported runs, after success; failures keep the hooks; the builder's hooks stay in front; no answer from the middle of an `Apply`; every call returns |
| `exchange` | 1 exchange, 2 requests, 3 scopes, 2 hooks | 1,559,535 | types; In hooks see what was received, Out hooks what is sent, in whole; interception is the same on both sides, and so is the ID, but for another exchange's response; one hook list per message |
| `tunnel` | 2 tunnels, 2 hosts | 222,084 | types; both connections closed on every path; own certificates; answers and frames in order; a tunnel both peers have left ends |

Bounds. Queues have capacity 1 or 2 instead of 1000, so that full queues are common;
the guards compare with the capacity and nothing else depends on its value. One row is
tried twice instead of five times. Two exchanges are enough to swap messages, and the
third fills the queue behind them. Two streams of one name give the reconnection that
meets the traces of the first; two of different names give a snapshot with a client
left to visit. `saver`: two exchanges of one file, or of two, meet one configuration,
to the same file, the other or none, and one restart; the orders of these with every
step of an exchange are all there. An ID that a plugin makes up is in the theorems
only (`PluginIds` is empty in the run; another exchange's ID is not). `config`: two
callers wait for one mutex and meet the start; each sets once, to the defaults, to
everything at once, or to a database and an expression that does not compile; that a
third caller adds nothing is what the theorems are for. `exchange`: exchanges share no
variable in `Exchange` (what they share is in the other modules), so one is enough,
and what it may get of another, through a plugin's reply, is in `Taken`; its two hooks
are a function and a plugin, in both orders, and the requests a page, and a picture
without a Host in its URL. `tunnel`: both tunnels go through setup and certificates,
to one host or to two; one of them sends two messages, which is what pipelining and a
frame behind a handshake need, and its destination two frames, which can overtake each
other. No configuration has state constraints; `MaxApplies`, `MaxCrashes`, `MaxSends`
and `MaxFrames` are in the guards of the modules that name them.

Fairness. Goroutines that can run do run: weak fairness of the loops of handlers,
workers and savers and of the steps of exchanges, tasks, tunnels and `Apply`. Timers
fire. `SetConfig` gets the mutex if it is free again and again (strong fairness): Go's
`RWMutex` starves nobody. Of plugins it is assumed that one that was sent a message
answers it or disconnects (`Serve` in `ModClients`), and that a send to one ends; the
code has no timeout for either, so without the assumption `HookReturns` does not hold.
Hooks return: those of the repository start goroutines, put an item in a queue
without waiting, or write to a file or a terminal. SQLite answers, be it "busy".
Nothing is assumed of arrivals, connections, peers of tunnels, configurations or
crashes.

The timer. `CloseFires` has one assumption that is not in the code: 60 seconds
outlast the few steps from a snapshot to the send that follows it without blocking
(`AboutToSend`). An exchange that blocks at one client first can keep a snapshot
for longer, so with two modification plugins a send on a closed channel is
reachable: `NoPanic` is checked, and proved, for plugins of one name only.

### Disagreements between the code and what it says

| Run | What it shows |
|---|---|
| `mod_swapped` | Two responses in flight through one plugin may come out exchanged: nothing ties a reply to the exchange that waits for it (server.go:638). |
| `saver_restart` | The last ID is looked up among the requests only; after a restart a response may be filed under the ID of another exchange's request (`internal/hooks/db.go:409`). |
| `config_failed` | `SetConfig` ignores the error of `Apply`, so `GetConfig` reports settings that were not installed (server.go:682), although it "returns the current proxy config" (server.go:654). |
| `tunnel_interim` | After an interim (1xx) response, answers in a tunnel are one behind their requests (`internal/proxy/proxy.go:248`). |

Each of these runs ends with TLC's counterexample. More follow from the same modules
with other constants, or from a weaker form of a property:

* `RequestModHook` removes a plugin whose queue is full and never closes its channel:
  `continue FOR` comes first (server.go:518). `NoOrphan` fails with `Kind = "request"`.
* After a broken plugin the hook returns instead of going on to the next one
  (server.go:529); hence `GiveUp` in `Modification`, and the exception in
  `SkippedOnlyByBroken`.
* A task removes by name a plugin that has reconnected meanwhile (server.go:438, and
  server.go:641 for modification); hence the condition `Unshared` of `NoOrphan`,
  and `Others` in `Modification`: whoever has the name is expelled.
* With a second configuration IDs repeat, because `Apply` reads the last ID from the
  database while exchanges with later ones are not there yet, which the comment at
  `internal/proxy/config.go:56` expects; hence the condition `setBack` of `UniqueIds` and
  `RefusedByStrays`, and `trusted` in `Archive`.
* With another file configured, exchanges under way keep the IDs that the provider of the
  first file gave, and their rows go to the second, where they are refused or filed under
  the IDs of others (`internal/proxy/config.go:58` and 64). The same goes for an ID that a
  plugin has changed (`internal/grpc/convert.go:111`). Hence `OwnRows`: the properties of
  rows are about those whose IDs a provider of their file gave.
* An exchange that gets another's response from a plugin's hook shows it in ResponseOut
  under the other's ID (server.go:638); hence the second disjunct of `SameId`.
* A saver that was replaced waits at its empty queue for ever
  (`internal/hooks/db.go:94`): nobody closes it.
* The clone is not the "deep copy" of `internal/httpbytes/clone.go:50`: it shares the
  URL. Hence the second disjunct of `InIsReceived` and the condition `touched` of
  `BothOrNeither`: a hook that changes a URL in place changes what others see, and may
  have only the request intercepted.
* A full read-only queue is an error that all four callers ignore
  (`internal/proxy/proxy.go:278`).
* README.md:69 and 78 have RequestOut and ResponseOut "triggered after" sending; they
  are queued before it. `OutIsSent` says what holds: they see what is sent.

## 4. What is proved

For every number of exchanges, streams, items, hooks, callers, files and tunnels, every
capacity, and every number of configurations and restarts:

* `ModClientsProofs`: `TypeCorrect`; `ClosedChannelsAreGone`;
  `ResponsePluginsAreReleased`, for `Kind = "response"`; `OnePluginNeverPanics`, for
  streams of one name; `AnswersMatchWaiters`; `MessagesAreCarriedOnce`;
  `OnlyBrokenSkip`; and `ModificationIsPromised`, the refinement.
* `RoClientsProofs`: `TypeCorrect`; `ClosedChannelsAreGone`; `NeverCrashes` and
  `PluginsAreReleased`, for any names; `HandlersFindWaiters`.
* `RoPipelineProofs`: `TypeCorrect`; `PipelineKeepsPromise`, the refinement.
* `ExchangeProofs`: `TypeCorrect`; `InSeesReceived`; `OutSeesSent`; `WholeIsSent`;
  `BothAreIntercepted`; `IdsAreSame`; `ListsAreWhole`.
* `ConfigProofs`: `TypeCorrect`; `ReportedIsRunning`; `FailuresKeepHooks`;
  `AnswersAreRunning`, an action property; `OwnHooksAreKept`.
* `SaverProofs`: `TypeCorrect`; `IdsAreUnique`; `RequestsAreRefusedByStrays`
  (of `RefusedByStrays`, which no run repeats); `ResponsesMatchRequests`; and
  `ArchiveIsPromised`, the refinement.
* `TunnelProofs`: `TypeCorrect`; `TunnelsAreClosed`; `CertificatesAreOwn`;
  `AnswersAreInOrder`; `FramesAreInOrder`.

The assumptions are those of the modules (`QueueSize` is positive, and the like) and
the ones stated in a theorem, none of which can be dropped: the disagreements above
are the counterexamples.

The arguments.

* `ModClients`: a stream in the table is known to have registered and not to be
  condemned, so names in the table are distinct and `delete` by name removes what it
  should when names are not shared; for `NobodyLost` each step of a handler or an
  exchange moves both sides of the count by the same amount, for which exchanges that
  wait are counted as a finite set. For `CarriedOnce` nothing is counted until the
  end: a message is somewhere, and no two places have it (`Placed`); an exchange, a
  handler and the meeting of the two move one message from one place to another, and
  the other steps move none. The refinement puts these together: with the queue full,
  the waiting exchanges are at least as many as its items, or the handler has ended,
  so `Refuse` is allowed; an exchange that returns has a message of no other place, so
  of no other that returned; what is under way was brought by someone (`Brought`); and
  the first client an exchange comes to is one the timer left alone (`FirstIsOpen`),
  so a panic comes later.
* `RoClients`: the same, with an inequality; and no task is about to send on a stream
  that is closed, because tasks are started from the table only.
* `RoPipeline`: the hooks still running and those that have run are together the
  item's list, and the items in the queue are distinct and unseen; from this each step
  is one of `Notification` or a stutter.
* `Exchange`: the properties compare what a hook saw with what was received or sent at
  another time, so the invariant says what does not change in between. `Present`:
  which objects exist at each place. `Kept`: the original and the queued clone have
  what was received; once a side's hooks are over, `Ends`, what will be sent, is not
  changed by anyone, the workers that clone it included; the client's URL changes only
  if `touched`; a response has the ID of the request that was sent, until a plugin's
  hook makes it another exchange's, which is the exception in `SameId`. `Once`: there
  is one answer of the scope, and the hooks that ran followed by those left are one
  list.
* `Config`: while a caller is halfway, the parts before `step` are its own and the
  others those of the last configuration that was applied (`FirstAre`, `RestAre`); a
  failure is only possible at most one part in; and whoever saw the start over shares
  the mutex with all later ones.
* `Saver`: the invariant is said file by file, of the exchanges and rows that have an
  ID of that file. As long as no provider of it was set back (`Safe`), their IDs are
  distinct and, while the file is in use, at most the provider's last (`Counted`,
  `Numbered`); everything in a pipeline or a queue is of an exchange under way
  (`ItemsRunning`) and is there once (`ItemsOnce`); so a row that is written takes the
  ID of nobody else's pending request (`Free`), and a restarted provider, which counts
  on from the largest row, gives only new ones. A restart, which loses all exchanges,
  makes it true again. What pairs the rows has to outlive restarts: every ID in the
  table of responses is at most the provider's (`Paired`), which is what `orphans`
  remembers the end of. Between the look at a file's last ID and the start of the
  provider that counts on from it, only requests of exchanges under way have become
  rows there (`ReadBound`), so it goes back only if it repeats one of their IDs. For
  the refinement it matters that a message is in one place of its pipeline or of all
  the queues, whatever was set back, forgotten or configured: then what a saver is
  done with, or a full queue drops, is pending no more. The next ID is above all IDs
  of its file under way and all its rows, so it is free.
* `Tunnel`: a tunnel that is over has nothing open because copies run at one place
  only (`Placed`), and from there on it keeps the certificate it found or made
  (`Certified`); nobody stores one under another host's name. For `AnswersInOrder`,
  `Lined` says that what the client has sent and the loop has not taken, buffered or
  not, are its next requests in order, a handshake last and only frames behind it; and
  `Ordered`, place by place of the loop, that the client has the answers up to there
  and one request, or its answer, is on its way. A tunnel that has ended gets no more
  answers. For `FramesInOrder`, frames are compared by their place from the end, so a
  step that moves messages over has to keep one sequence, the concatenation; nothing
  is behind a handshake but frames, a destination has frames to send only once it has
  the handshake, and a client that waits sends its own only once the tunnel copies.

Only model-checked: the liveness properties (`HookReturns`, `DroppedIsReleased`,
`TasksEnd`, `QueuedIsShown`, `QueuesDrain`, `SetReturns`, `GoneIsOver`), which need
fairness.

## 5. What is not modelled, and the plan

Left out for good, because it is input and output without state of interest, or another
project's work: the making of keys and certificates and the loading of the root
certificate (`internal/certs`), which is crypto/x509's; what printing and saving to
files writes (`internal/hooks/print.go`); flags and the accept loops; how the example
plugin prints; the generated protocol code; which UUIDs a proxy without a database gives.

Abstracted where it does not change what is said: of a message the ID, the URL's
extension, the changes made to it and its body are kept, so a plugin's change of one
header is like its change of another; headers and cookies are written in the
transaction of their row; a malformed message in a tunnel is a message that fails;
response hooks do not change the URL of the request; a body arrives whole
(`CloneRequest` only logs one that does not, and goes on with what it got), and
redirects, which `http.Client` follows without the hooks, are part of "the destination
answers".

What could follow: `RoClients` as an implementation of an abstract specification like
`Modification`, and a condition under which modification plugins of several names never
make an exchange panic.
