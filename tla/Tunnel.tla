-------------------------------- MODULE Tunnel --------------------------------
(***************************************************************************)
(* The tunnels of HandleConnect and the certificate cache of generateCert  *)
(* (internal/proxy/proxy.go).                                              *)
(*                                                                         *)
(* A CONNECT request makes a connection to the destination, takes over the *)
(* client's, finds or makes a certificate for the host, and starts a       *)
(* goroutine that passes requests to the destination and responses to the  *)
(* client, one at a time, or, after a WebSocket handshake, copies bytes    *)
(* both ways until both copies end.  Its deferred calls close both         *)
(* connections.                                                            *)
(*                                                                         *)
(* What the pipelines do with a message is in Exchange; here they let it   *)
(* pass or fail.  Clients, destinations and connections are what the code  *)
(* sees of them: a peer sends, and it leaves.                              *)
(***************************************************************************)
EXTENDS Naturals, Sequences

CONSTANTS
  Tunnels,   \* CONNECT requests
  Hosts,     \* the hosts they name
  MaxSends,  \* bound: how many messages the client of each tunnel sends
  MaxFrames, \* bound: how many frames each destination sends
  None       \* no certificate

ASSUME TunnelAssumption ==
  /\ MaxSends \in [Tunnels -> Nat]
  /\ MaxFrames \in Nat
  /\ None \notin Hosts

Peers == {"client", "dest"}

VARIABLES
  host,    \* the host each request names
  pc,      \* where the handler, later the goroutine, of each tunnel is
  open,    \* the connections it has and has not closed
  gone,    \* the peers that have closed theirs
  cache,   \* CertCache: the host of the certificate kept for each host, or None
  cert,    \* the host of the certificate of each tunnel, or None
  wire,    \* what the client has sent and the proxy has not received
  ahead,   \* what clientReader has received and ReadRequest has not returned
  behind,  \* what destReader has received and ReadResponse has not returned
  current, \* the number of the request that is dealt with
  toDest,  \* what the proxy has sent and the destination has not received
  answers, \* what the destination has sent and the proxy has not received
  answer,  \* the response that is dealt with
  copying, \* the copies of a WebSocket tunnel that have not ended, by their source
  got,     \* what the client has received, and which frames the destination has
  sends,   \* how many requests and frames the client, and frames the destination, has sent
  upgraded,\* whether client and destination have sent their part of the handshake
  pairs,   \* history: which response was taken for the answer to which request
  interim, \* history: whether an interim response was sent
  eager    \* history: whether the client sent frames before the handshake was answered

vars == <<host, pc, open, gone, cache, cert, wire, ahead, behind, current, toDest, answers, answer, copying,
          got, sends, upgraded, pairs, interim, eager>>
setupVars == <<host, cache, cert>>
peerVars == <<gone, sends, upgraded, interim, eager>>
streamVars == <<wire, ahead, behind, toDest, answers, got>>
turnVars == <<current, answer, pairs>>

Request(n) == [kind |-> "request", n |-> n]
Upgrade(n) == [kind |-> "upgrade", n |-> n]
Frame(n) == [kind |-> "frame", n |-> n]
Interim(n) == [kind |-> "interim", n |-> n]
Final(n) == [kind |-> "final", n |-> n]
NoAnswer == [kind |-> "none", n |-> 0]

Messages == [kind : {"request", "upgrade", "frame", "interim", "final"}, n : Nat]
Places == {"idle", "dialed", "hijacked", "established", "making", "storing", "reading",
           "requesting", "awaiting", "answering", "upgrading", "copying", "over", "refused"}

TypeOK ==
  /\ host \in [Tunnels -> Hosts]
  /\ pc \in [Tunnels -> Places]
  /\ open \in [Tunnels -> SUBSET Peers]
  /\ gone \in [Tunnels -> SUBSET Peers]
  /\ cache \in [Hosts -> Hosts \cup {None}]
  /\ cert \in [Tunnels -> Hosts \cup {None}]
  /\ \A f \in {wire, ahead, behind, toDest, answers} : f \in [Tunnels -> Seq(Messages)]
  /\ current \in [Tunnels -> Nat]
  /\ answer \in [Tunnels -> Messages \cup {NoAnswer}]
  /\ copying \in [Tunnels -> SUBSET Peers]
  /\ \A t \in Tunnels : copying[t] # {} => pc[t] = "copying"
  /\ got \in [Tunnels -> [client : Seq(Messages), dest : Seq(Nat)]]
  /\ sends \in [Tunnels -> [requests : Nat, frames : Nat, destFrames : 0 .. MaxFrames]]
  /\ \A t \in Tunnels : sends[t].requests + sends[t].frames <= MaxSends[t]
  /\ upgraded \in [Tunnels -> SUBSET Peers]
  /\ pairs \in [Tunnels -> SUBSET (Nat \X Messages)]
  /\ interim \in [Tunnels -> BOOLEAN]
  /\ eager \in [Tunnels -> BOOLEAN]

Each(v) == [t \in Tunnels |-> v]

Init ==
  /\ host \in [Tunnels -> Hosts]
  /\ pc = Each("idle")
  /\ open = Each({}) /\ gone = Each({})
  /\ cache = [h \in Hosts |-> None] /\ cert = Each(None)
  /\ wire = Each(<<>>) /\ ahead = Each(<<>>) /\ behind = Each(<<>>) /\ toDest = Each(<<>>) /\ answers = Each(<<>>)
  /\ current = Each(0) /\ answer = Each(NoAnswer) /\ copying = Each({})
  /\ got = Each([client |-> <<>>, dest |-> <<>>])
  /\ sends = Each([requests |-> 0, frames |-> 0, destFrames |-> 0])
  /\ upgraded = Each({}) /\ pairs = Each({}) /\ interim = Each(FALSE) /\ eager = Each(FALSE)

Goto(t, from, to) == pc[t] = from /\ pc' = [pc EXCEPT ![t] = to]

-----------------------------------------------------------------------------
(***************************************************************************)
(* HandleConnect up to its goroutine.                                      *)
(***************************************************************************)

HaveOpen(t, peers) == open' = [open EXCEPT ![t] = peers]

setupRest == <<peerVars, streamVars, turnVars, copying>>

\* net.Dial connects or fails, with an answer that says so.
Dial(t) ==
  /\ \/ Goto(t, "idle", "dialed") /\ HaveOpen(t, {"dest"})
     \/ Goto(t, "idle", "refused") /\ UNCHANGED open
  /\ UNCHANGED <<setupVars, setupRest>>

\* The client's connection is taken over, or the destination's is closed.
Hijack(t) ==
  /\ \/ Goto(t, "dialed", "hijacked") /\ HaveOpen(t, Peers)
     \/ Goto(t, "dialed", "refused") /\ HaveOpen(t, {})
  /\ UNCHANGED <<setupVars, setupRest>>

\* "200 Connection Established" is written, or both are closed.
Establish(t) ==
  /\ \/ Goto(t, "hijacked", "established") /\ UNCHANGED open
     \/ Goto(t, "hijacked", "over") /\ HaveOpen(t, {})
  /\ UNCHANGED <<setupVars, setupRest>>

\* generateCert looks for the host under the read lock.
LookUp(t) ==
  LET h == host[t]
  IN /\ IF cache[h] # None
        THEN Goto(t, "established", "reading") /\ cert' = [cert EXCEPT ![t] = cache[h]]
        ELSE Goto(t, "established", "making") /\ UNCHANGED cert
     /\ UNCHANGED <<open, host, cache, setupRest>>

\* Mutant: a certificate that could not be made leaves the destination connected.
Make_LeavesDest(t) ==
  /\ \/ Goto(t, "making", "storing") /\ cert' = [cert EXCEPT ![t] = host[t]] /\ UNCHANGED open
     \/ Goto(t, "making", "over") /\ HaveOpen(t, {"dest"}) /\ UNCHANGED cert
  /\ UNCHANGED <<host, cache, setupRest>>

\* certs.GenerateCert makes one, with no lock held, or fails, and both are closed.
Make(t) ==
  /\ \/ Goto(t, "making", "storing") /\ cert' = [cert EXCEPT ![t] = host[t]] /\ UNCHANGED open
     \/ Goto(t, "making", "over") /\ HaveOpen(t, {}) /\ UNCHANGED cert
  /\ UNCHANGED <<host, cache, setupRest>>

\* Mutant: the certificate is kept under whatever host is being made at the moment.
Store_Other(t) ==
  /\ Goto(t, "storing", "reading")
  /\ \E u \in Tunnels : /\ pc[u] \in {"making", "storing"}
                        /\ cache' = [cache EXCEPT ![host[u]] = cert[t]]
  /\ UNCHANGED <<open, host, cert, setupRest>>

\* It is put in the cache, over one that another tunnel has put there meanwhile, and
\* the goroutine starts.
Store(t) ==
  /\ Goto(t, "storing", "reading")
  /\ cache' = [cache EXCEPT ![host[t]] = cert[t]]
  /\ UNCHANGED <<open, host, cert, setupRest>>

-----------------------------------------------------------------------------
(***************************************************************************)
(* The goroutine's loop.                                                   *)
(***************************************************************************)

\* The goroutine returns: its deferred calls close both connections.
Return(t) ==
  /\ pc' = [pc EXCEPT ![t] = "over"]
  /\ HaveOpen(t, {})
  /\ UNCHANGED <<setupVars, peerVars, streamVars, turnVars, copying>>

\* A bufio.Reader gives the next message it has buffered.  When it has none it receives,
\* and may receive and keep more than one.
Taken(buffered, unread) ==
  IF buffered # <<>>
  THEN {[m |-> Head(buffered), buffered |-> Tail(buffered), unread |-> unread]}
  ELSE {[m |-> Head(unread), buffered |-> SubSeq(unread, 2, k),
         unread |-> SubSeq(unread, k + 1, Len(unread))] : k \in 1 .. Len(unread)}

\* http.ReadRequest takes the next request.
ReadRequest(t) ==
  /\ pc[t] = "reading"
  /\ \E r \in Taken(ahead[t], wire[t]) :
       /\ ahead' = [ahead EXCEPT ![t] = r.buffered]
       /\ wire' = [wire EXCEPT ![t] = r.unread]
       /\ current' = [current EXCEPT ![t] = r.m.n]
       /\ pc' = [pc EXCEPT ![t] = IF r.m.kind = "upgrade" THEN "upgrading" ELSE "requesting"]
  /\ UNCHANGED <<open, setupVars, peerVars, behind, toDest, answers, got, answer, pairs, copying>>

\* Mutant: the loop goes on after an error.
ReadRequestFails_Again(t) ==
  /\ pc[t] = "reading"
  /\ ahead[t] = <<>> /\ wire[t] = <<>> /\ "client" \in gone[t]
  /\ UNCHANGED vars

\* The client has left, and nothing it sent remains.
ReadRequestFails(t) ==
  /\ pc[t] = "reading"
  /\ ahead[t] = <<>> /\ wire[t] = <<>> /\ "client" \in gone[t]
  /\ Return(t)

\* It passes the pipelines, or is out of scope, and is written to the destination.
PassRequest(t) ==
  /\ Goto(t, "requesting", "awaiting")
  /\ toDest' = [toDest EXCEPT ![t] = Append(@, Request(current[t]))]
  /\ UNCHANGED <<open, setupVars, peerVars, wire, ahead, behind, answers, got, turnVars, copying>>

\* A hook fails, or the destination has left.
RequestFails(t) == pc[t] = "requesting" /\ Return(t)

\* http.ReadResponse takes whatever response comes next.
ReadResponse(t) ==
  /\ Goto(t, "awaiting", "answering")
  /\ \E r \in Taken(behind[t], answers[t]) :
       /\ behind' = [behind EXCEPT ![t] = r.buffered]
       /\ answers' = [answers EXCEPT ![t] = r.unread]
       /\ answer' = [answer EXCEPT ![t] = r.m]
       /\ pairs' = [pairs EXCEPT ![t] = @ \cup {<<current[t], r.m>>}]
  /\ UNCHANGED <<open, setupVars, peerVars, wire, ahead, toDest, got, current, copying>>

ReadResponseFails(t) ==
  /\ pc[t] = "awaiting"
  /\ behind[t] = <<>> /\ answers[t] = <<>> /\ "dest" \in gone[t]
  /\ Return(t)

\* It passes the pipelines and is written to the client.
PassResponse(t) ==
  /\ Goto(t, "answering", "reading")
  /\ got' = [got EXCEPT ![t].client = Append(@, answer[t])]
  /\ answer' = [answer EXCEPT ![t] = NoAnswer]
  /\ UNCHANGED <<open, setupVars, peerVars, wire, ahead, behind, toDest, answers, current, pairs, copying>>

\* Mutant: after an error in the pipelines the loop goes on.
ResponseFails_Continue(t) ==
  /\ Goto(t, "answering", "reading")
  /\ UNCHANGED <<open, setupVars, peerVars, streamVars, turnVars, copying>>

\* A hook fails, or the client has left.
ResponseFails(t) == pc[t] = "answering" /\ Return(t)

-----------------------------------------------------------------------------
(***************************************************************************)
(* WebSockets.                                                             *)
(***************************************************************************)

\* Mutant: the answer to the handshake is read with a reader that receives more.
PassUpgrade_ReadAnswer(t) ==
  /\ pc[t] = "upgrading"
  /\ \/ /\ toDest' = [toDest EXCEPT ![t] = Append(@, Upgrade(current[t]))]
        /\ "dest" \notin upgraded[t] /\ toDest[t] = <<>>
        /\ UNCHANGED <<pc, copying, answers, got>>
     \/ /\ answers[t] # <<>>
        /\ got' = [got EXCEPT ![t].client = Append(@, Head(answers[t]))]
        /\ \E k \in 1 .. Len(answers[t]) :
             answers' = [answers EXCEPT ![t] = SubSeq(@, k + 1, Len(@))]
        /\ pc' = [pc EXCEPT ![t] = "copying"]
        /\ copying' = [copying EXCEPT ![t] = Peers]
        /\ UNCHANGED toDest
  /\ UNCHANGED <<open, setupVars, peerVars, wire, ahead, behind, turnVars>>

\* The handshake is written to the destination, and the copies start.
PassUpgrade(t) ==
  /\ Goto(t, "upgrading", "copying")
  /\ toDest' = [toDest EXCEPT ![t] = Append(@, Upgrade(current[t]))]
  /\ copying' = [copying EXCEPT ![t] = Peers]
  /\ UNCHANGED <<open, setupVars, peerVars, wire, ahead, behind, answers, got, turnVars>>

UpgradeFails(t) == pc[t] = "upgrading" /\ Return(t)

\* io.Copy to the destination reads the connection, not clientReader.
CopyUp(t) ==
  /\ "client" \in copying[t] /\ wire[t] # <<>>
  /\ toDest' = [toDest EXCEPT ![t] = Append(@, Head(wire[t]))]
  /\ wire' = [wire EXCEPT ![t] = Tail(@)]
  /\ UNCHANGED <<pc, open, setupVars, peerVars, ahead, behind, answers, got, turnVars, copying>>

CopyDown(t) ==
  /\ "dest" \in copying[t] /\ answers[t] # <<>>
  /\ got' = [got EXCEPT ![t].client = Append(@, Head(answers[t]))]
  /\ answers' = [answers EXCEPT ![t] = Tail(@)]
  /\ UNCHANGED <<pc, open, setupVars, peerVars, wire, ahead, behind, toDest, turnVars, copying>>

Other(p) == IF p = "client" THEN "dest" ELSE "client"
Unread(t, p) == IF p = "client" THEN wire[t] ELSE answers[t]

\* A copy ends at the end of its source, or when it cannot write.
CopyEnds(t, p) ==
  /\ p \in copying[t]
  /\ \/ Unread(t, p) = <<>> /\ p \in gone[t]
     \/ Unread(t, p) # <<>> /\ Other(p) \in gone[t]
  /\ copying' = [copying EXCEPT ![t] = @ \ {p}]
  /\ UNCHANGED <<pc, open, setupVars, peerVars, streamVars, turnVars>>

\* Mutant: the goroutine waits for one of them.
WaitEnds_First(t) == pc[t] = "copying" /\ copying[t] # Peers /\ Return(t)

\* wg.Wait returns when both have ended.
WaitEnds(t) == pc[t] = "copying" /\ copying[t] = {} /\ Return(t)

-----------------------------------------------------------------------------
(***************************************************************************)
(* Clients and destinations.                                               *)
(***************************************************************************)

proxyVars == <<pc, open, setupVars, turnVars, copying, ahead, behind>>
CanSend(t) == "client" \notin gone[t] /\ pc[t] \notin {"idle", "dialed", "hijacked", "over", "refused"}
                /\ sends[t].requests + sends[t].frames < MaxSends[t]

\* The client sends a request, without waiting for the answer to the one before, or
\* begins a WebSocket handshake.
ClientRequests(t) ==
  /\ CanSend(t) /\ "client" \notin upgraded[t]
  /\ LET n == sends[t].requests + 1
     IN \/ wire' = [wire EXCEPT ![t] = Append(@, Request(n))] /\ UNCHANGED upgraded
        \/ /\ wire' = [wire EXCEPT ![t] = Append(@, Upgrade(n))]
           /\ upgraded' = [upgraded EXCEPT ![t] = @ \cup {"client"}]
  /\ sends' = [sends EXCEPT ![t].requests = @ + 1]
  /\ UNCHANGED <<proxyVars, gone, interim, eager, toDest, answers, got>>

HandshakeAnswered(t) == \E i \in DOMAIN got[t].client : got[t].client[i] = Final(sends[t].requests)

ClientFrame(t) ==
  /\ CanSend(t) /\ "client" \in upgraded[t]
  /\ LET n == sends[t].frames + 1
     IN wire' = [wire EXCEPT ![t] = Append(@, Frame(n))]
  /\ sends' = [sends EXCEPT ![t].frames = @ + 1]
  /\ eager' = [eager EXCEPT ![t] = @ \/ ~HandshakeAnswered(t)]
  /\ UNCHANGED <<proxyVars, gone, upgraded, interim, toDest, answers, got>>

\* The destination takes what comes next: it answers a request, perhaps with an interim
\* response first, and a handshake.
DestReceives(t) ==
  /\ toDest[t] # <<>> /\ "dest" \notin gone[t]
  /\ toDest' = [toDest EXCEPT ![t] = Tail(@)]
  /\ LET m == Head(toDest[t])
     IN \/ /\ m.kind = "frame"
           /\ got' = [got EXCEPT ![t].dest = Append(@, m.n)]
           /\ UNCHANGED <<answers, upgraded, interim>>
        \/ /\ m.kind \in {"request", "upgrade"}
           /\ \/ answers' = [answers EXCEPT ![t] = Append(@, Final(m.n))] /\ UNCHANGED interim
              \/ /\ m.kind = "request"
                 /\ answers' = [answers EXCEPT ![t] = @ \o <<Interim(m.n), Final(m.n)>>]
                 /\ interim' = [interim EXCEPT ![t] = TRUE]
           /\ upgraded' = IF m.kind = "upgrade" THEN [upgraded EXCEPT ![t] = @ \cup {"dest"}] ELSE upgraded
           /\ UNCHANGED got
  /\ UNCHANGED <<proxyVars, gone, sends, eager, wire>>

DestFrame(t) ==
  /\ "dest" \in upgraded[t] \ gone[t]
  /\ sends[t].destFrames < MaxFrames
  /\ sends' = [sends EXCEPT ![t].destFrames = @ + 1]
  /\ answers' = [answers EXCEPT ![t] = Append(@, Frame(sends[t].destFrames + 1))]
  /\ UNCHANGED <<proxyVars, gone, upgraded, interim, eager, wire, toDest, got>>

\* A peer closes its connection.
Leave(t, p) ==
  /\ p \in open[t] \ gone[t]
  /\ gone' = [gone EXCEPT ![t] = @ \cup {p}]
  /\ UNCHANGED <<proxyVars, sends, upgraded, interim, eager, wire, toDest, answers, got>>

-----------------------------------------------------------------------------

\* Every tunnel is over.
Finished == (\A t \in Tunnels : pc[t] \in {"over", "refused"}) /\ UNCHANGED vars

Connect(t) == Dial(t) \/ Hijack(t) \/ Establish(t) \/ LookUp(t) \/ Make(t) \/ Store(t)

Turn(t) ==
  \/ ReadRequest(t) \/ ReadRequestFails(t) \/ PassRequest(t) \/ RequestFails(t)
  \/ ReadResponse(t) \/ ReadResponseFails(t) \/ PassResponse(t) \/ ResponseFails(t)
  \/ PassUpgrade(t) \/ UpgradeFails(t) \/ WaitEnds(t)

Copy(t) == CopyUp(t) \/ CopyDown(t) \/ \E p \in Peers : CopyEnds(t, p)

Peer(t) ==
  \/ ClientRequests(t) \/ ClientFrame(t)
  \/ DestReceives(t) \/ DestFrame(t)
  \/ \E p \in Peers : Leave(t, p)

Next == (\E t \in Tunnels : Connect(t) \/ Turn(t) \/ Copy(t) \/ Peer(t)) \/ Finished

Spec == Init /\ [][Next]_vars

\* The handler, the goroutine and the copies run.  Nothing is assumed of the peers.
Fairness ==
  \A t \in Tunnels :
    /\ WF_vars(Hijack(t) \/ Establish(t) \/ LookUp(t) \/ Make(t) \/ Store(t)) /\ WF_vars(Turn(t))
    /\ WF_vars(CopyUp(t)) /\ WF_vars(CopyDown(t)) /\ \A p \in Peers : WF_vars(CopyEnds(t, p))

FairSpec == Spec /\ Fairness

-----------------------------------------------------------------------------
(***************************************************************************)
(* Properties.                                                             *)
(***************************************************************************)

Over(t) == pc[t] \in {"over", "refused"}

\* Whichever of its ten ways out a tunnel takes, it leaves no connection open and no
\* copy running.
BothClosed == \A t \in Tunnels : Over(t) => open[t] = {} /\ copying[t] = {}

\* A tunnel has the certificate of its own host, though others look for theirs and fill
\* the cache at the same time, or fail to; and so does everyone who finds one there.
OwnCertificate ==
  /\ \A t \in Tunnels : cert[t] \in {None, host[t]}
  /\ \A h \in Hosts : cache[h] \in {None, h}
  /\ \A t \in Tunnels : pc[t] = "reading" => cert[t] # None

\* "Check request and response have the same ID" (proxy_test.go:408): the response that
\* is handled as the answer to a request, under its ID, is the answer to that request.
AnswersMatch == \A t \in Tunnels : \A p \in pairs[t] : p[1] = p[2].n

\* This much holds: the client of a destination that sends no interim responses gets
\* the answers to its requests, in their order, none left out and none twice.
AnswersInOrder ==
  \A t \in Tunnels : ~interim[t] =>
    /\ \A p \in pairs[t] : p[1] = p[2].n
    /\ \A i \in DOMAIN got[t].client :
         i <= sends[t].requests => got[t].client[i] = Final(i)

\* A stream ends with the frames 1 to n, in their order, and has no others.
FramesLast(q, n) ==
  /\ n <= Len(q)
  /\ \A i \in 1 .. Len(q) :
       IF i + n <= Len(q) THEN q[i].kind # "frame" ELSE q[i] = Frame(i + n - Len(q))

Received(t) == [i \in DOMAIN got[t].dest |-> Frame(got[t].dest[i])]

\* No frame is lost, overtakes another, or is overtaken by an answer on its way through the
\* proxy, in either direction, if the client waits for the answer to its handshake.
FramesInOrder ==
  \A t \in Tunnels :
    /\ ~eager[t] => FramesLast(Received(t) \o toDest[t] \o wire[t], sends[t].frames)
    /\ FramesLast(got[t].client \o answers[t], sends[t].destFrames)

\* When both peers have left, the tunnel ends.
GoneIsOver == \A t \in Tunnels : gone[t] = Peers ~> Over(t)
=============================================================================
