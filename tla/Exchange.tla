------------------------------- MODULE Exchange -------------------------------
(***************************************************************************)
(* An exchange from the request that a client sends to the answer it gets: *)
(* ServeHTTP and one turn of HandleConnect's loop (internal/proxy/proxy.go)*)
(* with the two scope questions, the six pipelines, ModPipeline            *)
(* (internal/pipeline/pipeline.go), the cloning of messages between them   *)
(* (internal/httpbytes/clone.go) and what plugins make of a message        *)
(* (internal/grpc/convert.go).                                             *)
(*                                                                         *)
(* A MESSAGE is an object that several goroutines hold: the exchange works *)
(* on one while the workers of the read-only pipelines copy the ones in    *)
(* their queues.  Of its content the modification hooks that changed it    *)
(* are kept, in order; of its body whether all of it is there, and who has *)
(* read it.  Cloning copies the header and gives the clone a reader of its *)
(* own, but the URL of a request stays one object for all clones.          *)
(*                                                                         *)
(* RoPipeline has the read-only pipelines in detail; here an item that was *)
(* accepted is shown at any later time.  Scope has the answers to the      *)
(* scope questions; Config says when the scope and the hooks change, which *)
(* may be at any time: here each reading of them finds any.                *)
(***************************************************************************)
EXTENDS Naturals, Sequences, Scope

CONSTANTS
  Exchanges,   \* the exchanges
  Requests,    \* what clients may ask for: [host, header, ext]
  Scopes,      \* the scopes that may be set (made by New)
  Hooks,       \* the modification hooks
  Plugins,     \* those that are the plugin server's
  HookLists,   \* the lists of hooks that may be set
  None         \* nothing

ASSUME ExchangeAssumption ==
  /\ Requests \subseteq [host : STRING, header : STRING, ext : DOMAIN Lower]
  /\ Plugins \subseteq Hooks
  /\ HookLists \subseteq Seq(Hooks)

Sides == {"request", "response"}
Objects == {"original", "queued", "working"}

VARIABLES
  pc,        \* where each exchange is
  side,      \* whether it deals with its request or its response
  asked,     \* what the client asked for
  inScope,   \* the scope function that the exchange has read
  url,       \* the extension in the client's URL object and in a plugin's
  touched,   \* history: whether a hook has changed the client's in place
  obj,       \* its messages, per side and object
  cur,       \* the object that currentReq, or currentResp, is, per side
  todo,      \* the modification hooks that are left to run
  ran,       \* history: those that have run, per side
  pending,   \* the items in the queues, per side: "in", "out"
  shown,     \* what the hooks saw of them
  sent       \* what was sent on: to the destination, to the client

vars == <<pc, side, asked, inScope, url, touched, obj, cur, todo, ran, pending, shown, sent>>
queueVars == <<pending, shown>>

-----------------------------------------------------------------------------
(***************************************************************************)
(* Messages.                                                               *)
(***************************************************************************)

\* A body is a BodyWrapper or a stream; it is whole unless somebody read it before it
\* was copied; and a reader may have reached its end.
Bodies == [wrapped : BOOLEAN, whole : BOOLEAN, read : BOOLEAN]
Stream == [wrapped |-> FALSE, whole |-> TRUE, read |-> FALSE]
GetsAll(b) == b.whole /\ ~b.read

\* "changed" is an ID that a plugin made up, "other" that of another exchange.
Ids == Exchanges \cup {"changed", "other"}
Cells == {"client", "plugin", "none"}
Messages == [id : Ids, cell : Cells, edits : Seq(Hooks), body : Bodies]

\* CloneRequest and CloneResponse read a stream to its end and put a BodyWrapper in its
\* place, in the original as in the clone.
Wrapped(m) ==
  IF m.body.wrapped THEN m
  ELSE [m EXCEPT !.body = [wrapped |-> TRUE, whole |-> GetsAll(m.body), read |-> FALSE]]

\* The clone has a reader of its own (ShallowClone).
Clone(m) == [Wrapped(m) EXCEPT !.body.read = FALSE]

\* Mutant: the message stays as the hook left it.
AfterHook_Kept(m) == m

\* ModPipeline after each hook: a BodyWrapper is reset, anything else is cloned.
AfterHook(m) == IF m.body.wrapped THEN [m EXCEPT !.body.read = FALSE] ELSE Clone(m)

\* What whoever reads the message now finds in it: what the hooks of print.go write, and
\* the ID they write it under.
Read(x, m) == [id |-> m.id, ext |-> url[x][m.cell], edits |-> m.edits, whole |-> GetsAll(m.body)]

-----------------------------------------------------------------------------

Places == {"idle", "asking", "pipelines", "hooks", "sending", "waiting", "answered", "failed"}
Contents == [id : Ids, ext : DOMAIN Lower, edits : Seq(Hooks), whole : BOOLEAN]

ASSUME NoneAssumption == None \notin Messages \cup Contents

TypeOK ==
  /\ pc \in [Exchanges -> Places]
  /\ side \in [Exchanges -> Sides]
  /\ asked \in [Exchanges -> Requests \cup {None}]
  /\ inScope \in [Exchanges -> Scopes \cup {None}]
  /\ url \in [Exchanges -> [Cells -> DOMAIN Lower]]
  /\ touched \in [Exchanges -> BOOLEAN]
  /\ obj \in [Exchanges -> [Sides -> [Objects -> Messages \cup {None}]]]
  /\ cur \in [Exchanges -> [Sides -> Objects]]
  /\ todo \in [Exchanges -> Seq(Hooks)]
  /\ ran \in [Exchanges -> [Sides -> Seq(Hooks)]]
  /\ pending \in [Exchanges -> [Sides -> SUBSET {"in", "out"}]]
  /\ shown \in [Exchanges -> [Sides -> [{"in", "out"} -> Contents \cup {None}]]]
  /\ sent \in [Exchanges -> [Sides -> Contents \cup {None}]]

PerSide(v) == [s \in Sides |-> v]

Init ==
  /\ pc = [x \in Exchanges |-> "idle"]
  /\ side = [x \in Exchanges |-> "request"]
  /\ asked = [x \in Exchanges |-> None]
  /\ inScope = [x \in Exchanges |-> None]
  /\ url = [x \in Exchanges |-> [c \in Cells |-> ""]]
  /\ touched = [x \in Exchanges |-> FALSE]
  /\ obj = [x \in Exchanges |-> PerSide([o \in Objects |-> None])]
  /\ cur = [x \in Exchanges |-> PerSide("original")]
  /\ todo = [x \in Exchanges |-> <<>>]
  /\ ran = [x \in Exchanges |-> PerSide(<<>>)]
  /\ pending = [x \in Exchanges |-> PerSide({})]
  /\ shown = [x \in Exchanges |-> PerSide([i \in {"in", "out"} |-> None])]
  /\ sent = [x \in Exchanges |-> PerSide(None)]

-----------------------------------------------------------------------------
(***************************************************************************)
(* The request comes, and the scope is asked about it.                     *)
(***************************************************************************)

Received(x, i, cell) == [id |-> i, cell |-> cell, edits |-> <<>>, body |-> Stream]

\* The request has been read and has got its ID.
Arrive(x) ==
  /\ pc[x] = "idle"
  /\ \E r \in Requests :
       /\ asked' = [asked EXCEPT ![x] = r]
       /\ url' = [url EXCEPT ![x]["client"] = r.ext]
  /\ obj' = [obj EXCEPT ![x]["request"]["original"] = Received(x, x, "client")]
  /\ pc' = [pc EXCEPT ![x] = "asking"]
  /\ UNCHANGED <<side, inScope, touched, cur, todo, ran, queueVars, sent>>

\* Ask(x, s): what the scope s says of req, whose URL is shared with all its clones.
Ask(x, s) == IsInScope(s, [asked[x] EXCEPT !.ext = url[x]["client"]])

Decide(x, yes) == pc' = [pc EXCEPT ![x] = IF yes THEN "pipelines" ELSE "sending"]

AskScope(x) ==
  /\ pc[x] = "asking" /\ side[x] = "request"
  /\ \E s \in Scopes :
       /\ inScope' = [inScope EXCEPT ![x] = s]
       /\ Decide(x, Ask(x, s))
  /\ UNCHANGED <<side, asked, url, touched, obj, cur, todo, ran, queueVars, sent>>

\* Mutant: the scope function is read again.
AskAgain_Reread(x) ==
  /\ pc[x] = "asking" /\ side[x] = "response"
  /\ \E s \in Scopes : Decide(x, Ask(x, s))
  /\ UNCHANGED <<side, asked, inScope, url, touched, obj, cur, todo, ran, queueVars, sent>>

\* The same function is asked again, about the same request.
AskAgain(x) ==
  /\ pc[x] = "asking" /\ side[x] = "response"
  /\ Decide(x, Ask(x, inScope[x]))
  /\ UNCHANGED <<side, asked, inScope, url, touched, obj, cur, todo, ran, queueVars, sent>>

-----------------------------------------------------------------------------
(***************************************************************************)
(* processRequestPipelines and processResponsePipelines.                   *)
(***************************************************************************)

\* RunPipeline queues the item, or not, if there are no hooks or no room.
Queue(x, i) ==
  pending' \in {pending, [pending EXCEPT ![x][side[x]] = @ \cup {i}]}

\* Mutant: there is no second clone, the hooks work on the item in the queue.
RunIn_OneClone(x) ==
  /\ pc[x] = "pipelines"
  /\ LET m == obj[x][side[x]]["original"]
     IN obj' = [obj EXCEPT ![x][side[x]] = [original |-> Wrapped(m), queued |-> Clone(m), working |-> None]]
  /\ cur' = [cur EXCEPT ![x][side[x]] = "queued"]
  /\ Queue(x, "in")
  /\ \E l \in HookLists : todo' = [todo EXCEPT ![x] = l]
  /\ pc' = [pc EXCEPT ![x] = "hooks"]
  /\ UNCHANGED <<side, asked, inScope, url, touched, ran, shown, sent>>

\* The original is cloned, the clone is queued and cloned again, and ModPipeline reads
\* its hooks.
RunIn(x) ==
  /\ pc[x] = "pipelines"
  /\ LET m == obj[x][side[x]]["original"]
     IN obj' = [obj EXCEPT ![x][side[x]] =
                  [original |-> Wrapped(m), queued |-> Clone(m), working |-> Clone(Clone(m))]]
  /\ cur' = [cur EXCEPT ![x][side[x]] = "working"]
  /\ Queue(x, "in")
  /\ \E l \in HookLists : todo' = [todo EXCEPT ![x] = l]
  /\ pc' = [pc EXCEPT ![x] = "hooks"]
  /\ UNCHANGED <<side, asked, inScope, url, touched, ran, shown, sent>>

Current(x) == obj[x][side[x]][cur[x][side[x]]]

\* The message with one more hook's change, or as it was.
Edited(m, h) == {m, [m EXCEPT !.edits = Append(@, h)]}

\* A hook that is a function changes the object it is given, perhaps its URL in place.
\* It may leave the body, read it, or put another stream in its place.
Native(x, h) ==
  /\ h \notin Plugins
  /\ \E e \in Edited(Current(x), h), b \in {Current(x).body, [Current(x).body EXCEPT !.read = TRUE], Stream} :
       obj' = [obj EXCEPT ![x][side[x]][cur[x][side[x]]] = AfterHook([e EXCEPT !.body = b])]
  /\ \/ UNCHANGED <<url, touched>>
     \/ /\ side[x] = "request"
        /\ \E n \in DOMAIN Lower : url' = [url EXCEPT ![x][Current(x).cell] = n]
        /\ touched' = [touched EXCEPT ![x] = @ \/ Current(x).cell = "client"]

\* ToProtoRequest and ToProtoResponse: what is sent to a plugin.
ToProto(x, m) == [id |-> m.id, ext |-> url[x][m.cell], edits |-> m.edits]

\* FromProtoRequest and FromProtoResponse: another object, with a URL of its own and the
\* ID the plugin says, if it is a request, and the ID of the request it answers, if it
\* is a response.
FromProto(x, p, source) ==
  [id |-> IF side[x] = "request" THEN p.id ELSE source.id,
   cell |-> IF side[x] = "request" THEN "plugin" ELSE "none",
   edits |-> p.edits, body |-> Stream]

\* The messages that the reply may have been made of: the exchange's own, or, because
\* replies are not told apart (ModClients), another exchange's, of which only that is kept.
Taken(x) == {Current(x), [Current(x) EXCEPT !.id = "other", !.edits = <<>>]}

\* A plugin answers with a message of its own.
Answers(x, h) ==
  /\ h \in Plugins
  /\ \E m \in Taken(x) :
       LET o == ToProto(x, m)
       IN \E e \in {o.edits, Append(o.edits, h)}, i \in {o.id, "changed"},
             n \in {o.ext} \cup {r.ext : r \in Requests} :
            /\ obj' = [obj EXCEPT ![x][side[x]][cur[x][side[x]]] =
                         AfterHook(FromProto(x, [id |-> i, ext |-> n, edits |-> e], m))]
            /\ url' = IF side[x] = "request" THEN [url EXCEPT ![x]["plugin"] = n] ELSE url
  /\ UNCHANGED touched

\* The plugin is not there, or has gone: the message is returned as it is.
Gone(x, h) ==
  /\ h \in Plugins
  /\ obj' = [obj EXCEPT ![x][side[x]][cur[x][side[x]]] = AfterHook(@)]
  /\ UNCHANGED <<url, touched>>

\* Mutant: ModPipeline reads its hooks again before each of them.
RunHook_Reread(x) ==
  /\ pc[x] = "hooks" /\ todo[x] # <<>>
  /\ LET h == Head(todo[x])
     IN /\ Native(x, h) \/ Answers(x, h) \/ Gone(x, h)
        /\ ran' = [ran EXCEPT ![x][side[x]] = Append(@, h)]
  /\ \E l \in HookLists :
       todo' = [todo EXCEPT ![x] = SubSeq(l, Len(ran[x][side[x]]) + 2, Len(l))]
  /\ UNCHANGED <<pc, side, asked, inScope, cur, queueVars, sent>>

RunHook(x) ==
  /\ pc[x] = "hooks" /\ todo[x] # <<>>
  /\ LET h == Head(todo[x])
     IN /\ Native(x, h) \/ Answers(x, h) \/ Gone(x, h)
        /\ ran' = [ran EXCEPT ![x][side[x]] = Append(@, h)]
  /\ todo' = [todo EXCEPT ![x] = Tail(@)]
  /\ UNCHANGED <<pc, side, asked, inScope, cur, queueVars, sent>>

\* A hook returns an error: the exchange is over, with an answer that says so, or, in a
\* tunnel, with the connection.  The plugin server's hook never does.
HookFails(x) ==
  /\ pc[x] = "hooks" /\ todo[x] # <<>> /\ Head(todo[x]) \notin Plugins
  /\ pc' = [pc EXCEPT ![x] = "failed"]
  /\ UNCHANGED <<side, asked, inScope, url, touched, obj, cur, todo, ran, queueVars, sent>>

\* The message that will be sent is queued.
RunOut(x) ==
  /\ pc[x] = "hooks" /\ todo[x] = <<>>
  /\ Queue(x, "out")
  /\ pc' = [pc EXCEPT ![x] = "sending"]
  /\ UNCHANGED <<side, asked, inScope, url, touched, obj, cur, todo, ran, shown, sent>>

\* The worker clones an item for its hooks, which read the clone.
Show(x, s, i) ==
  /\ i \in pending[x][s]
  /\ LET o == IF i = "in" THEN "queued" ELSE cur[x][s]
         m == obj[x][s][o]
     IN /\ shown' = [shown EXCEPT ![x][s][i] = Read(x, Clone(m))]
        /\ obj' = [obj EXCEPT ![x][s][o] = Wrapped(m)]
  /\ pending' = [pending EXCEPT ![x][s] = @ \ {i}]
  /\ UNCHANGED <<pc, side, asked, inScope, url, touched, cur, todo, ran, sent>>

-----------------------------------------------------------------------------
(***************************************************************************)
(* Sending the request, receiving the response, answering.                 *)
(***************************************************************************)

\* Mutant: the request is sent as it was received.
Send_Original(x) ==
  /\ pc[x] = "sending"
  /\ sent' = [sent EXCEPT ![x][side[x]] = Read(x, obj[x][side[x]]["original"])]
  /\ obj' = [obj EXCEPT ![x][side[x]]["original"].body.read = TRUE]
  /\ pc' = [pc EXCEPT ![x] = IF side[x] = "request" THEN "waiting" ELSE "answered"]
  /\ UNCHANGED <<side, asked, inScope, url, touched, cur, todo, ran, queueVars>>

\* finalReq goes to the destination, finalResp to the client; the body is read.
Send(x) ==
  /\ pc[x] = "sending"
  /\ sent' = [sent EXCEPT ![x][side[x]] = Read(x, Current(x))]
  /\ obj' = [obj EXCEPT ![x][side[x]][cur[x][side[x]]].body.read = TRUE]
  /\ pc' = [pc EXCEPT ![x] = IF side[x] = "request" THEN "waiting" ELSE "answered"]
  /\ UNCHANGED <<side, asked, inScope, url, touched, cur, todo, ran, queueVars>>

RespondWith(x, i) ==
  /\ pc[x] = "waiting"
  /\ side' = [side EXCEPT ![x] = "response"]
  /\ obj' = [obj EXCEPT ![x]["response"]["original"] = Received(x, i, "none")]
  /\ pc' = [pc EXCEPT ![x] = "asking"]
  /\ UNCHANGED <<asked, inScope, url, touched, cur, todo, ran, queueVars, sent>>

\* Mutants: the response belongs to no request, or to the one that was received.
Respond_NoRequest(x) == RespondWith(x, "")
Respond_Original(x) == RespondWith(x, obj[x]["request"]["original"].id)

\* The response belongs to the request that was sent, and has its ID.
Respond(x) == RespondWith(x, Current(x).id)

\* The destination or the client cannot be reached.
Unreachable(x) ==
  /\ pc[x] \in {"sending", "waiting"}
  /\ pc' = [pc EXCEPT ![x] = "failed"]
  /\ UNCHANGED <<side, asked, inScope, url, touched, obj, cur, todo, ran, queueVars, sent>>

-----------------------------------------------------------------------------

\* All exchanges are over, and nothing is left to be shown.
Quiet ==
  /\ \A x \in Exchanges : pc[x] \in {"answered", "failed"} /\ \A s \in Sides : pending[x][s] = {}
  /\ UNCHANGED vars

Go(x) ==
  \/ AskScope(x) \/ AskAgain(x)
  \/ RunIn(x) \/ RunHook(x) \/ HookFails(x) \/ RunOut(x)
  \/ Send(x) \/ Respond(x) \/ Unreachable(x)

Next ==
  \/ \E x \in Exchanges : Arrive(x) \/ Go(x)
  \/ \E x \in Exchanges, s \in Sides, i \in {"in", "out"} : Show(x, s, i)
  \/ Quiet

Spec == Init /\ [][Next]_vars

-----------------------------------------------------------------------------
(***************************************************************************)
(* Properties.                                                             *)
(***************************************************************************)

Intercepted(x, s) == obj[x][s]["queued"] # None

\* The message that the exchange received on one side, as it was then.
AsReceived(x, s) ==
  [id |-> obj[x][s]["original"].id, ext |-> IF s = "request" THEN asked[x].ext ELSE "",
   edits |-> <<>>, whole |-> TRUE]

\* The hooks of RequestIn and ResponseIn see what was received, whatever the
\* modification hooks have done to it before the worker gets there.  (But CloneRequest
\* does not copy the URL: one that was changed in place is seen by all.)
InIsReceived ==
  \A x \in Exchanges, s \in Sides :
    LET seen == shown[x][s]["in"]
    IN seen # None =>
         \/ seen = AsReceived(x, s)
         \/ touched[x] /\ seen = [AsReceived(x, s) EXCEPT !.ext = seen.ext]

\* The hooks of RequestOut and ResponseOut see what is sent, its body too, although
\* it is being sent while they look.
OutIsSent ==
  \A x \in Exchanges, s \in Sides :
    shown[x][s]["out"] # None /\ sent[x][s] # None => shown[x][s]["out"] = sent[x][s]

\* What is sent is whole, whoever has read it on the way; and it is as it was received
\* if it was not intercepted.
SentIsWhole ==
  \A x \in Exchanges, s \in Sides :
    sent[x][s] # None =>
      /\ sent[x][s].whole
      /\ ~Intercepted(x, s) => sent[x][s] = AsReceived(x, s)

\* A response is intercepted if and only if its request was, also when the scope
\* changes between them, and whatever plugins make of the request.  (The scope is asked
\* about the URL as it is then.)
BothOrNeither ==
  \A x \in Exchanges :
    sent[x]["response"] # None /\ ~touched[x] =>
      (Intercepted(x, "request") <=> Intercepted(x, "response"))

\* The response is shown under the ID under which the request was sent, also if a plugin
\* has changed that, or if what was sent is another exchange's request.  (But a plugin's
\* hook for responses may have got another exchange's response: ResponseOut shows it
\* under that exchange's ID.)
SameId ==
  \A x \in Exchanges, i \in {"in", "out"} :
    LET response == shown[x]["response"][i]
    IN shown[x]["request"]["out"] # None /\ response # None =>
         \/ response.id = shown[x]["request"]["out"].id
         \/ i = "out" /\ response.id = "other"

\* The hooks that run on a message are those of one list that was installed, all of
\* them and in its order, although the list may be replaced between two of them.
WholeList ==
  \A x \in Exchanges, s \in Sides :
    Intercepted(x, s) /\ sent[x][s] # None => ran[x][s] \in HookLists
=============================================================================
