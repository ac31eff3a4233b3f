----------------------------- MODULE TunnelProofs -----------------------------
(***************************************************************************)
(* Theorems about Tunnel, for any number of tunnels, any hosts and any     *)
(* number of messages.                                                     *)
(***************************************************************************)
EXTENDS Tunnel, SequenceTheorems, TLAPS

\* The variables that say which connections and copies there are, and which
\* certificates; the others have no influence on them.
Shape ==
  /\ host \in [Tunnels -> Hosts]
  /\ pc \in [Tunnels -> Places]
  /\ open \in [Tunnels -> SUBSET Peers]
  /\ cache \in [Hosts -> Hosts \cup {None}]
  /\ cert \in [Tunnels -> Hosts \cup {None}]
  /\ copying \in [Tunnels -> SUBSET Peers]

\* Copies run only while the goroutine waits for them, and there is no connection
\* before there is one.
Placed ==
  /\ \A t \in Tunnels : copying[t] # {} => pc[t] = "copying"
  /\ \A t \in Tunnels : pc[t] = "idle" => open[t] = {}
  /\ BothClosed

Looped == {"reading", "requesting", "awaiting", "answering", "upgrading", "copying"}

\* From the moment it has been found or made, a tunnel keeps its certificate.
Certified ==
  /\ \A t \in Tunnels : cert[t] \in {None, host[t]}
  /\ \A h \in Hosts : cache[h] \in {None, h}
  /\ \A t \in Tunnels : pc[t] \in Looped \cup {"storing"} => cert[t] = host[t]

IInv == Shape /\ Placed /\ Certified

-----------------------------------------------------------------------------

LEMMA InitIInv == Init => IInv
  BY DEF Init, Each, IInv, Shape, Placed, Certified, BothClosed, Over, Places, Peers, Looped

\* The goroutine ends: nothing of the tunnel is left.
LEMMA ReturnKeeps ==
  ASSUME IInv, NEW t \in Tunnels, Return(t), copying[t] = {}
  PROVE  IInv'
  BY DEF Return, HaveOpen, setupVars, IInv, Shape, Placed, Certified, BothClosed, Over,
         Places, Peers, Looped

\* A step of the loop that closes nothing.
LEMMA LoopKeeps ==
  ASSUME IInv, NEW t \in Tunnels, NEW p \in Looped,
         pc[t] \in Looped \ {"copying"}, pc' = [pc EXCEPT ![t] = p],
         UNCHANGED <<open, setupVars>>,
         \/ UNCHANGED copying
         \/ p = "copying" /\ copying' = [copying EXCEPT ![t] = Peers]
  PROVE  IInv'
  BY DEF setupVars, IInv, Shape, Placed, Certified, BothClosed, Over, Places, Peers, Looped

\* Copies only end.
LEMMA CopyKeeps ==
  ASSUME IInv, NEW t \in Tunnels, UNCHANGED <<pc, open, setupVars>>,
         \/ UNCHANGED copying
         \/ \E p \in Peers : copying' = [copying EXCEPT ![t] = @ \ {p}]
  PROVE  IInv'
  BY DEF setupVars, IInv, Shape, Placed, Certified, BothClosed, Over, Places, Peers, Looped

-----------------------------------------------------------------------------

LEMMA ConnectKeeps ==
  ASSUME IInv, NEW t \in Tunnels, Connect(t)
  PROVE  IInv'
  <1> USE TunnelAssumption
      DEF IInv, Shape, Placed, Certified, BothClosed, Over, Places, Peers, Looped,
          setupVars, setupRest, Goto, HaveOpen
  <1>1. CASE Dial(t)
    BY <1>1 DEF Dial
  <1>2. CASE Hijack(t)
    BY <1>2 DEF Hijack
  <1>3. CASE Establish(t)
    BY <1>3 DEF Establish
  <1>4. CASE LookUp(t)
    BY <1>4 DEF LookUp
  <1>5. CASE Make(t)
    BY <1>5 DEF Make
  <1>6. CASE Store(t)
    BY <1>6 DEF Store
  <1> QED
    BY <1>1, <1>2, <1>3, <1>4, <1>5, <1>6 DEF Connect

LEMMA TurnKeeps ==
  ASSUME IInv, NEW t \in Tunnels, Turn(t)
  PROVE  IInv'
  <1>1. pc[t] \notin {"copying"} => copying[t] = {}
    BY DEF IInv, Placed
  <1>2. CASE ReadRequest(t)
    <2>1. PICK p \in {"upgrading", "requesting"} : pc' = [pc EXCEPT ![t] = p]
      BY <1>2 DEF ReadRequest
    <2> QED
      BY <1>2, <2>1, LoopKeeps DEF ReadRequest, Looped
  <1>3. CASE PassRequest(t)
    BY <1>3, LoopKeeps DEF PassRequest, Goto, Looped
  <1>4. CASE ReadResponse(t)
    BY <1>4, LoopKeeps DEF ReadResponse, Goto, Looped
  <1>5. CASE PassResponse(t)
    BY <1>5, LoopKeeps DEF PassResponse, Goto, Looped
  <1>6. CASE PassUpgrade(t)
    BY <1>6, LoopKeeps DEF PassUpgrade, Goto, Looped
  <1>7. CASE ReadRequestFails(t) \/ RequestFails(t) \/ ReadResponseFails(t)
             \/ ResponseFails(t) \/ UpgradeFails(t) \/ WaitEnds(t)
    BY <1>1, <1>7, ReturnKeeps
    DEF ReadRequestFails, RequestFails, ReadResponseFails, ResponseFails, UpgradeFails, WaitEnds
  <1> QED
    BY <1>2, <1>3, <1>4, <1>5, <1>6, <1>7 DEF Turn

LEMMA StepIInv == IInv /\ [Next]_vars => IInv'
  <1> SUFFICES ASSUME IInv, [Next]_vars PROVE IInv'
    OBVIOUS
  <1>1. ASSUME NEW t \in Tunnels, Copy(t) PROVE IInv'
    BY <1>1, CopyKeeps DEF Copy, CopyUp, CopyDown, CopyEnds
  <1>2. ASSUME NEW t \in Tunnels, Peer(t) PROVE IInv'
    BY <1>2, CopyKeeps
    DEF Peer, ClientRequests, ClientFrame, DestReceives, DestFrame, Leave, proxyVars
  <1>3. CASE UNCHANGED vars
    BY <1>3 DEF vars, IInv, Shape, Placed, Certified, BothClosed, Over
  <1> QED
    BY <1>1, <1>2, <1>3, ConnectKeeps, TurnKeeps DEF Next, Finished

LEMMA Invariant == Spec => []IInv
  BY InitIInv, StepIInv, PTL DEF Spec

\* Whichever way a tunnel ends, its connections are closed and its copies have ended.
THEOREM TunnelsAreClosed == Spec => []BothClosed
  <1>1. IInv => BothClosed
    BY DEF IInv, Placed
  <1> QED
    BY Invariant, <1>1, PTL

\* Every tunnel presents a certificate of the host it was asked for, and the cache has
\* none under another host's name, however many tunnels fill it at the same time.
THEOREM CertificatesAreOwn == Spec => []OwnCertificate
  <1>1. IInv => OwnCertificate
    BY TunnelAssumption DEF IInv, Shape, Certified, OwnCertificate, Looped
  <1> QED
    BY Invariant, <1>1, PTL

-----------------------------------------------------------------------------
(***************************************************************************)
(* Types.                                                                  *)
(***************************************************************************)

\* What a buffered reader returns comes first in what it had and what was there to be
\* received, and the rest stays in its order.
LEMMA TakenLemma ==
  ASSUME NEW b \in Seq(Messages), NEW u \in Seq(Messages), NEW r \in Taken(b, u)
  PROVE  /\ r.m \in Messages /\ r.buffered \in Seq(Messages) /\ r.unread \in Seq(Messages)
         /\ Len(b \o u) = 1 + Len(r.buffered \o r.unread)
         /\ r.m = (b \o u)[1]
         /\ \A i \in 1 .. Len(r.buffered \o r.unread) : (r.buffered \o r.unread)[i] = (b \o u)[i + 1]
  <1>1. CASE b # <<>>
    <2>1. r.m = Head(b) /\ r.buffered = Tail(b) /\ r.unread = u
      BY <1>1 DEF Taken
    <2> HIDE DEF Taken
    <2>2. /\ Head(b) \in Messages /\ Tail(b) \in Seq(Messages)
          /\ Head(b) = b[1] /\ Len(Tail(b)) = Len(b) - 1 /\ Len(b) >= 1
          /\ \A i \in 1 .. Len(b) - 1 : Tail(b)[i] = b[i + 1]
      BY <1>1
    <2>3. /\ Len(b \o u) = Len(b) + Len(u)
          /\ \A i \in 1 .. Len(b) + Len(u) : (b \o u)[i] = IF i <= Len(b) THEN b[i] ELSE u[i - Len(b)]
      BY ConcatProperties
    <2>4. /\ Len(Tail(b) \o u) = Len(b) - 1 + Len(u)
          /\ \A i \in 1 .. Len(b) - 1 + Len(u) :
               (Tail(b) \o u)[i] = IF i <= Len(b) - 1 THEN Tail(b)[i] ELSE u[i - (Len(b) - 1)]
      BY <2>2, ConcatProperties
    <2>5. Len(b) \in Nat /\ Len(u) \in Nat
      OBVIOUS
    <2>6. \A i \in 1 .. Len(b) - 1 + Len(u) : (Tail(b) \o u)[i] = (b \o u)[i + 1]
      <3> TAKE i \in 1 .. Len(b) - 1 + Len(u)
      <3>1. CASE i <= Len(b) - 1
        BY <2>2, <2>3, <2>4, <2>5, <3>1
      <3>2. CASE i > Len(b) - 1
        <4>1. i - (Len(b) - 1) = (i + 1) - Len(b) /\ i + 1 \in 1 .. Len(b) + Len(u) /\ ~(i + 1 <= Len(b))
          BY <2>5, <3>2
        <4> QED
          BY <2>3, <2>4, <2>5, <3>2, <4>1
      <3> QED
        BY <2>5, <3>1, <3>2
    <2>7. (b \o u)[1] = b[1]
      BY <2>2, <2>3, <2>5
    <2> QED
      BY <2>1, <2>2, <2>3, <2>4, <2>5, <2>6, <2>7
  <1>2. CASE b = <<>>
    <2>1. PICK k \in 1 .. Len(u) : /\ r.m = Head(u) /\ r.buffered = SubSeq(u, 2, k)
                                  /\ r.unread = SubSeq(u, k + 1, Len(u))
      <3>1. PICK k \in 1 .. Len(u) : r = [m |-> Head(u), buffered |-> SubSeq(u, 2, k),
                                         unread |-> SubSeq(u, k + 1, Len(u))]
        BY <1>2, Zenon DEF Taken
      <3> QED
        BY <3>1
    <2> DEFINE v == SubSeq(u, 2, k)
               w == SubSeq(u, k + 1, Len(u))
    <2>2. Len(u) \in Nat /\ k \in Nat /\ k >= 1 /\ k <= Len(u) /\ \A i \in 1 .. Len(u) : u[i] \in Messages
      OBVIOUS
    <2>3. /\ v \in Seq(Messages) /\ Len(v) = k - 1
          /\ \A i \in 1 .. k - 1 : v[i] = u[i + 1]
      <3>1. \A i \in 2 .. k : u[i] \in Messages
        BY <2>2
      <3>2. /\ v \in Seq(Messages) /\ Len(v) = IF 2 <= k THEN k - 2 + 1 ELSE 0
            /\ \A i \in 1 .. k - 2 + 1 : v[i] = u[2 + i - 1]
        BY <2>2, <3>1, SubSeqProperties
      <3> QED
        BY <2>2, <3>2
    <2>4. /\ w \in Seq(Messages) /\ Len(w) = Len(u) - k
          /\ \A i \in 1 .. Len(u) - k : w[i] = u[i + k]
      <3>1. \A i \in k + 1 .. Len(u) : u[i] \in Messages
        BY <2>2
      <3>2. /\ w \in Seq(Messages) /\ Len(w) = IF k + 1 <= Len(u) THEN Len(u) - (k + 1) + 1 ELSE 0
            /\ \A i \in 1 .. Len(u) - (k + 1) + 1 : w[i] = u[(k + 1) + i - 1]
        BY <2>2, <3>1, SubSeqProperties
      <3> QED
        BY <2>2, <3>2
    <2>5. b \o u = u
      BY <1>2
    <2> HIDE DEF v, w
    <2>6. /\ Len(v \o w) = Len(v) + Len(w)
          /\ \A i \in 1 .. Len(v) + Len(w) : (v \o w)[i] = IF i <= Len(v) THEN v[i] ELSE w[i - Len(v)]
      BY <2>3, <2>4, ConcatProperties
    <2>7. \A i \in 1 .. Len(u) - 1 : (v \o w)[i] = u[i + 1]
      <3> TAKE i \in 1 .. Len(u) - 1
      <3>1. CASE i <= k - 1
        BY <2>2, <2>3, <2>4, <2>6, <3>1
      <3>2. CASE i > k - 1
        <4>1. i - Len(v) \in 1 .. Len(u) - k /\ (i - Len(v)) + k = i + 1 /\ i \in 1 .. Len(v) + Len(w) /\ ~(i <= Len(v))
          BY <2>2, <2>3, <2>4, <3>2
        <4> QED
          BY <2>4, <2>6, <4>1
      <3>3. i <= k - 1 \/ i > k - 1
        BY <2>2
      <3> QED
        BY <3>1, <3>2, <3>3
    <2>8. r.m = u[1] /\ u[1] \in Messages /\ Len(v \o w) = Len(u) - 1
      BY <2>1, <2>2, <2>3, <2>4, <2>6
    <2>9. r.buffered = v /\ r.unread = w
      BY <2>1 DEF v, w
    <2>10. Len(u) = 1 + Len(v \o w) /\ Len(v \o w) = Len(u) - 1
      BY <2>2, <2>8
    <2> QED
      BY <2>3, <2>4, <2>5, <2>7, <2>8, <2>9, <2>10
  <1> QED
    BY <1>1, <1>2

LEMMA MessageTypes ==
  \A n \in Nat : /\ Request(n) \in Messages /\ Upgrade(n) \in Messages /\ Frame(n) \in Messages
                /\ Interim(n) \in Messages /\ Final(n) \in Messages
  BY DEF Request, Upgrade, Frame, Interim, Final, Messages

Counts == [requests : Nat, frames : Nat, destFrames : 0 .. MaxFrames]

\* The types of the variables that IInv leaves out.
Typed ==
  /\ gone \in [Tunnels -> SUBSET Peers]
  /\ wire \in [Tunnels -> Seq(Messages)]
  /\ ahead \in [Tunnels -> Seq(Messages)]
  /\ behind \in [Tunnels -> Seq(Messages)]
  /\ toDest \in [Tunnels -> Seq(Messages)]
  /\ answers \in [Tunnels -> Seq(Messages)]
  /\ current \in [Tunnels -> Nat]
  /\ answer \in [Tunnels -> Messages \cup {NoAnswer}]
  /\ got \in [Tunnels -> [client : Seq(Messages), dest : Seq(Nat)]]
  /\ sends \in [Tunnels -> Counts]
  /\ \A t \in Tunnels : sends[t].requests + sends[t].frames <= MaxSends[t]
  /\ upgraded \in [Tunnels -> SUBSET Peers]
  /\ pairs \in [Tunnels -> SUBSET (Nat \X Messages)]
  /\ interim \in [Tunnels -> BOOLEAN]
  /\ eager \in [Tunnels -> BOOLEAN]

\* A response that is dealt with has been read.
AnswerIsThere == \A t \in Tunnels : pc[t] = "answering" => answer[t] \in Messages

\* One field of a record per tunnel changes.
LEMMA GotLemma ==
  ASSUME Typed, NEW t \in Tunnels
  PROVE  /\ \A m \in Messages :
              got' = [got EXCEPT ![t].client = Append(@, m)] =>
                /\ got' \in [Tunnels -> [client : Seq(Messages), dest : Seq(Nat)]]
                /\ got'[t].client = Append(got[t].client, m)
                /\ \A u \in Tunnels \ {t} : got'[u] = got[u]
         /\ \A n \in Nat :
              got' = [got EXCEPT ![t].dest = Append(@, n)] =>
                /\ got' \in [Tunnels -> [client : Seq(Messages), dest : Seq(Nat)]]
                /\ got'[t].client = got[t].client
                /\ \A u \in Tunnels \ {t} : got'[u] = got[u]
  <1>1. got \in [Tunnels -> [client : Seq(Messages), dest : Seq(Nat)]]
    BY DEF Typed
  <1>2. ASSUME NEW m \in Messages PROVE Append(got[t].client, m) \in Seq(Messages)
    BY <1>1
  <1>3. ASSUME NEW n \in Nat PROVE Append(got[t].dest, n) \in Seq(Nat)
    BY <1>1
  <1> QED
    BY <1>1, <1>2, <1>3

LEMMA SendsLemma ==
  ASSUME Typed, NEW t \in Tunnels, NEW v \in Counts,
         v.requests + v.frames <= MaxSends[t], sends' = [sends EXCEPT ![t] = v]
  PROVE  /\ sends' \in [Tunnels -> Counts]
         /\ \A u \in Tunnels : sends'[u].requests + sends'[u].frames <= MaxSends[u]
         /\ sends'[t] = v
  BY DEF Typed, Counts

\* A step of a client or of a destination counts one more.
LEMMA CountLemma ==
  ASSUME Typed, NEW t \in Tunnels
  PROVE  /\ sends[t].requests \in Nat /\ sends[t].frames \in Nat /\ sends[t].destFrames \in Nat
         /\ ClientRequests(t) =>
              /\ sends' \in [Tunnels -> Counts]
              /\ \A u \in Tunnels : sends'[u].requests + sends'[u].frames <= MaxSends[u]
              /\ sends'[t].requests = sends[t].requests + 1
         /\ ClientFrame(t) =>
              /\ sends' \in [Tunnels -> Counts]
              /\ \A u \in Tunnels : sends'[u].requests + sends'[u].frames <= MaxSends[u]
              /\ sends'[t].requests = sends[t].requests
         /\ DestFrame(t) =>
              /\ sends' \in [Tunnels -> Counts]
              /\ \A u \in Tunnels : sends'[u].requests + sends'[u].frames <= MaxSends[u]
              /\ sends'[t].requests = sends[t].requests
  <1> DEFINE c == sends[t]
  <1>1. /\ c \in Counts /\ MaxSends[t] \in Nat /\ MaxFrames \in Nat
        /\ c.requests \in Nat /\ c.frames \in Nat /\ c.destFrames \in 0 .. MaxFrames
        /\ c.requests + c.frames <= MaxSends[t]
    BY TunnelAssumption DEF Typed, Counts
  <1>2. c = [requests |-> c.requests, frames |-> c.frames, destFrames |-> c.destFrames]
    BY <1>1 DEF Counts
  <1>3. ASSUME ClientRequests(t)
        PROVE  /\ sends' \in [Tunnels -> Counts]
               /\ \A u \in Tunnels : sends'[u].requests + sends'[u].frames <= MaxSends[u]
               /\ sends'[t].requests = c.requests + 1
    <2> DEFINE v == [c EXCEPT !.requests = @ + 1]
    <2>1. sends' = [sends EXCEPT ![t] = v] /\ c.requests + c.frames < MaxSends[t]
      BY <1>3 DEF ClientRequests, CanSend
    <2>2. v \in Counts /\ v.requests = c.requests + 1 /\ v.frames = c.frames
      BY <1>1 DEF Counts
    <2>3. v.requests + v.frames <= MaxSends[t]
      BY <1>1, <2>1, <2>2
    <2> QED
      BY <2>1, <2>2, <2>3, SendsLemma
  <1>4. ASSUME ClientFrame(t)
        PROVE  /\ sends' \in [Tunnels -> Counts]
               /\ \A u \in Tunnels : sends'[u].requests + sends'[u].frames <= MaxSends[u]
               /\ sends'[t].requests = c.requests
    <2> DEFINE v == [c EXCEPT !.frames = @ + 1]
    <2>1. sends' = [sends EXCEPT ![t] = v] /\ c.requests + c.frames < MaxSends[t]
      BY <1>4 DEF ClientFrame, CanSend
    <2>2. v \in Counts /\ v.requests = c.requests /\ v.frames = c.frames + 1
      BY <1>1 DEF Counts
    <2>3. v.requests + v.frames <= MaxSends[t]
      BY <1>1, <2>1, <2>2
    <2> QED
      BY <2>1, <2>2, <2>3, SendsLemma
  <1>5. ASSUME DestFrame(t)
        PROVE  /\ sends' \in [Tunnels -> Counts]
               /\ \A u \in Tunnels : sends'[u].requests + sends'[u].frames <= MaxSends[u]
               /\ sends'[t].requests = c.requests
    <2> DEFINE v == [c EXCEPT !.destFrames = @ + 1]
    <2>1. sends' = [sends EXCEPT ![t] = v] /\ c.destFrames < MaxFrames
      BY <1>5 DEF DestFrame
    <2>2. v \in Counts /\ v.requests = c.requests /\ v.frames = c.frames
      BY <1>1, <2>1 DEF Counts
    <2>3. v.requests + v.frames <= MaxSends[t]
      BY <1>1, <2>2
    <2> QED
      BY <2>1, <2>2, <2>3, SendsLemma
  <1> QED
    BY <1>1, <1>3, <1>4, <1>5

LEMMA InitTyped == Init => Typed
  BY TunnelAssumption DEF Init, Typed, Counts, Each, NoAnswer

LEMMA ConnectTypes ==
  ASSUME Typed, NEW t \in Tunnels, Connect(t)
  PROVE  Typed'
  <1>1. UNCHANGED <<peerVars, streamVars, turnVars>>
    BY DEF Connect, Dial, Hijack, Establish, LookUp, Make, Store, setupRest
  <1> QED
    BY <1>1 DEF Typed, peerVars, streamVars, turnVars

LEMMA TurnTypes ==
  ASSUME Typed, AnswerIsThere, NEW t \in Tunnels, Turn(t)
  PROVE  Typed'
  <1> USE DEF peerVars, streamVars, turnVars
  <1>1. CASE ReadRequest(t)
    <2>1. PICK r \in Taken(ahead[t], wire[t]) :
            /\ ahead' = [ahead EXCEPT ![t] = r.buffered]
            /\ wire' = [wire EXCEPT ![t] = r.unread]
            /\ current' = [current EXCEPT ![t] = r.m.n]
      BY <1>1 DEF ReadRequest
    <2>2. r.m \in Messages /\ r.buffered \in Seq(Messages) /\ r.unread \in Seq(Messages)
      BY TakenLemma DEF Typed
    <2>3. r.m.n \in Nat
      BY <2>2 DEF Messages
    <2>4. UNCHANGED <<peerVars, behind, toDest, answers, got, answer, pairs>>
      BY <1>1 DEF ReadRequest
    <2> QED
      BY <2>1, <2>2, <2>3, <2>4 DEF Typed
  <1>2. CASE PassRequest(t)
    <2>1. toDest' = [toDest EXCEPT ![t] = Append(@, Request(current[t]))]
      BY <1>2 DEF PassRequest
    <2>2. Append(toDest[t], Request(current[t])) \in Seq(Messages)
      BY MessageTypes DEF Typed
    <2>3. UNCHANGED <<peerVars, wire, ahead, behind, answers, got, turnVars>>
      BY <1>2 DEF PassRequest
    <2> QED
      BY <2>1, <2>2, <2>3 DEF Typed
  <1>3. CASE ReadResponse(t)
    <2>1. PICK r \in Taken(behind[t], answers[t]) :
            /\ behind' = [behind EXCEPT ![t] = r.buffered]
            /\ answers' = [answers EXCEPT ![t] = r.unread]
            /\ answer' = [answer EXCEPT ![t] = r.m]
            /\ pairs' = [pairs EXCEPT ![t] = @ \cup {<<current[t], r.m>>}]
      BY <1>3 DEF ReadResponse
    <2>2. r.m \in Messages /\ r.buffered \in Seq(Messages) /\ r.unread \in Seq(Messages)
      BY TakenLemma DEF Typed
    <2>3. pairs[t] \cup {<<current[t], r.m>>} \in SUBSET (Nat \X Messages)
      BY <2>2 DEF Typed
    <2>4. UNCHANGED <<peerVars, wire, ahead, toDest, got, current>>
      BY <1>3 DEF ReadResponse
    <2> QED
      BY <2>1, <2>2, <2>3, <2>4 DEF Typed
  <1>4. CASE PassResponse(t)
    <2>1. /\ got' = [got EXCEPT ![t].client = Append(@, answer[t])]
          /\ answer' = [answer EXCEPT ![t] = NoAnswer]
          /\ pc[t] = "answering"
      BY <1>4 DEF PassResponse, Goto
    <2>2. got' \in [Tunnels -> [client : Seq(Messages), dest : Seq(Nat)]]
      BY <2>1, GotLemma DEF AnswerIsThere
    <2>3. UNCHANGED <<peerVars, wire, ahead, behind, toDest, answers, current, pairs>>
      BY <1>4 DEF PassResponse
    <2> QED
      BY <2>1, <2>2, <2>3 DEF Typed
  <1>5. CASE PassUpgrade(t)
    <2>1. toDest' = [toDest EXCEPT ![t] = Append(@, Upgrade(current[t]))]
      BY <1>5 DEF PassUpgrade
    <2>2. Append(toDest[t], Upgrade(current[t])) \in Seq(Messages)
      BY MessageTypes DEF Typed
    <2>3. UNCHANGED <<peerVars, wire, ahead, behind, answers, got, turnVars>>
      BY <1>5 DEF PassUpgrade
    <2> QED
      BY <2>1, <2>2, <2>3 DEF Typed
  <1>6. CASE Return(t)
    BY <1>6 DEF Return, Typed
  <1> QED
    BY <1>1, <1>2, <1>3, <1>4, <1>5, <1>6
    DEF Turn, ReadRequestFails, RequestFails, ReadResponseFails, ResponseFails, UpgradeFails, WaitEnds

LEMMA CopyTypes ==
  ASSUME Typed, NEW t \in Tunnels, Copy(t)
  PROVE  Typed'
  <1> USE DEF peerVars, streamVars, turnVars
  <1>1. CASE CopyUp(t)
    <2>1. /\ toDest' = [toDest EXCEPT ![t] = Append(@, Head(wire[t]))]
          /\ wire' = [wire EXCEPT ![t] = Tail(@)]
          /\ UNCHANGED <<peerVars, ahead, behind, answers, got, turnVars>>
          /\ wire[t] # <<>>
      BY <1>1 DEF CopyUp
    <2>2. Append(toDest[t], Head(wire[t])) \in Seq(Messages) /\ Tail(wire[t]) \in Seq(Messages)
      BY <2>1 DEF Typed
    <2> QED
      BY <2>1, <2>2 DEF Typed
  <1>2. CASE CopyDown(t)
    <2>1. /\ got' = [got EXCEPT ![t].client = Append(@, Head(answers[t]))]
          /\ answers' = [answers EXCEPT ![t] = Tail(@)]
          /\ UNCHANGED <<peerVars, wire, ahead, behind, toDest, turnVars>>
          /\ answers[t] # <<>>
      BY <1>2 DEF CopyDown
    <2>2. Head(answers[t]) \in Messages /\ Tail(answers[t]) \in Seq(Messages)
      BY <2>1 DEF Typed
    <2>3. got' \in [Tunnels -> [client : Seq(Messages), dest : Seq(Nat)]]
      BY <2>1, <2>2, GotLemma
    <2> QED
      BY <2>1, <2>2, <2>3 DEF Typed
  <1>3. CASE \E p \in Peers : CopyEnds(t, p)
    BY <1>3 DEF CopyEnds, Typed
  <1> QED
    BY <1>1, <1>2, <1>3 DEF Copy

LEMMA PeerTypes ==
  ASSUME Typed, NEW t \in Tunnels, Peer(t)
  PROVE  Typed'
  <1> USE DEF proxyVars, turnVars
  <1>1. CASE ClientRequests(t)
    <2>1. PICK m \in {Request(sends[t].requests + 1), Upgrade(sends[t].requests + 1)} :
            wire' = [wire EXCEPT ![t] = Append(@, m)]
      BY <1>1 DEF ClientRequests
    <2>2. m \in Messages
      BY CountLemma, MessageTypes
    <2>3. Append(wire[t], m) \in Seq(Messages)
      BY <2>2 DEF Typed
    <2>4. upgraded' \in [Tunnels -> SUBSET Peers]
      <3>1. UNCHANGED upgraded \/ upgraded' = [upgraded EXCEPT ![t] = @ \cup {"client"}]
        BY <1>1 DEF ClientRequests
      <3>2. upgraded[t] \cup {"client"} \in SUBSET Peers
        BY DEF Typed, Peers
      <3> QED
        BY <3>1, <3>2 DEF Typed
    <2>5. /\ sends' \in [Tunnels -> Counts]
          /\ \A u \in Tunnels : sends'[u].requests + sends'[u].frames <= MaxSends[u]
      BY <1>1, CountLemma
    <2>6. UNCHANGED <<proxyVars, gone, interim, eager, toDest, answers, got>>
      BY <1>1 DEF ClientRequests
    <2> QED
      BY <2>1, <2>3, <2>4, <2>5, <2>6 DEF Typed
  <1>2. CASE ClientFrame(t)
    <2>1. wire' = [wire EXCEPT ![t] = Append(@, Frame(sends[t].frames + 1))]
      BY <1>2 DEF ClientFrame
    <2>2. Frame(sends[t].frames + 1) \in Messages
      BY CountLemma, MessageTypes
    <2>3. Append(wire[t], Frame(sends[t].frames + 1)) \in Seq(Messages)
      BY <2>2 DEF Typed
    <2>4. eager' \in [Tunnels -> BOOLEAN]
      <3>1. eager' = [eager EXCEPT ![t] = @ \/ ~HandshakeAnswered(t)]
        BY <1>2 DEF ClientFrame
      <3>2. (eager[t] \/ ~HandshakeAnswered(t)) \in BOOLEAN
        OBVIOUS
      <3> QED
        BY <3>1, <3>2 DEF Typed
    <2>5. /\ sends' \in [Tunnels -> Counts]
          /\ \A u \in Tunnels : sends'[u].requests + sends'[u].frames <= MaxSends[u]
      BY <1>2, CountLemma
    <2>6. UNCHANGED <<proxyVars, gone, upgraded, interim, toDest, answers, got>>
      BY <1>2 DEF ClientFrame
    <2> QED
      BY <2>1, <2>3, <2>4, <2>5, <2>6 DEF Typed
  <1>3. CASE DestReceives(t)
    <2> DEFINE m == Head(toDest[t])
    <2>1. m \in Messages /\ m.n \in Nat /\ Tail(toDest[t]) \in Seq(Messages)
      <3>1. toDest[t] \in Seq(Messages) /\ toDest[t] # <<>>
        BY <1>3 DEF DestReceives, Typed
      <3>2. m \in Messages /\ Tail(toDest[t]) \in Seq(Messages)
        BY <3>1
      <3> QED
        BY <3>2 DEF Messages
    <2>2. toDest' = [toDest EXCEPT ![t] = Tail(@)]
      BY <1>3 DEF DestReceives
    <2>3. got' \in [Tunnels -> [client : Seq(Messages), dest : Seq(Nat)]]
      <3>1. got' = [got EXCEPT ![t].dest = Append(@, m.n)] \/ UNCHANGED got
        BY <1>3 DEF DestReceives
      <3> QED
        BY <2>1, <3>1, GotLemma DEF Typed
    <2>4. answers' \in [Tunnels -> Seq(Messages)]
      <3>1. \/ UNCHANGED answers
            \/ answers' = [answers EXCEPT ![t] = Append(@, Final(m.n))]
            \/ answers' = [answers EXCEPT ![t] = @ \o <<Interim(m.n), Final(m.n)>>]
        BY <1>3 DEF DestReceives
      <3>2. /\ Append(answers[t], Final(m.n)) \in Seq(Messages)
            /\ answers[t] \o <<Interim(m.n), Final(m.n)>> \in Seq(Messages)
        BY <2>1, MessageTypes DEF Typed
      <3> QED
        BY <3>1, <3>2 DEF Typed
    <2>5. upgraded' \in [Tunnels -> SUBSET Peers] /\ interim' \in [Tunnels -> BOOLEAN]
      <3>1. /\ UNCHANGED upgraded \/ upgraded' = [upgraded EXCEPT ![t] = @ \cup {"dest"}]
            /\ UNCHANGED interim \/ interim' = [interim EXCEPT ![t] = TRUE]
        BY <1>3 DEF DestReceives
      <3>2. upgraded[t] \cup {"dest"} \in SUBSET Peers
        BY DEF Typed, Peers
      <3> QED
        BY <3>1, <3>2 DEF Typed
    <2>6. UNCHANGED <<proxyVars, gone, sends, eager, wire>>
      BY <1>3 DEF DestReceives
    <2> QED
      BY <2>1, <2>2, <2>3, <2>4, <2>5, <2>6 DEF Typed
  <1>4. CASE DestFrame(t)
    <2>1. answers' = [answers EXCEPT ![t] = Append(@, Frame(sends[t].destFrames + 1))]
      BY <1>4 DEF DestFrame
    <2>2. Frame(sends[t].destFrames + 1) \in Messages
      BY CountLemma, MessageTypes, TunnelAssumption
    <2>3. Append(answers[t], Frame(sends[t].destFrames + 1)) \in Seq(Messages)
      BY <2>2 DEF Typed
    <2>4. /\ sends' \in [Tunnels -> Counts]
          /\ \A u \in Tunnels : sends'[u].requests + sends'[u].frames <= MaxSends[u]
      BY <1>4, CountLemma
    <2>5. UNCHANGED <<proxyVars, gone, upgraded, interim, eager, wire, toDest, got>>
      BY <1>4 DEF DestFrame
    <2> QED
      BY <2>1, <2>3, <2>4, <2>5 DEF Typed
  <1>5. CASE \E p \in Peers : Leave(t, p)
    <2>1. PICK p \in Peers : gone' = [gone EXCEPT ![t] = @ \cup {p}]
      BY <1>5 DEF Leave
    <2>2. gone[t] \cup {p} \in SUBSET Peers
      BY DEF Typed
    <2>3. UNCHANGED <<proxyVars, sends, upgraded, interim, eager, wire, toDest, answers, got>>
      BY <1>5 DEF Leave
    <2> QED
      BY <2>1, <2>2, <2>3 DEF Typed
  <1> QED
    BY <1>1, <1>2, <1>3, <1>4, <1>5 DEF Peer

LEMMA StepTyped == Typed /\ AnswerIsThere /\ [Next]_vars => Typed'
  <1>1. Typed /\ UNCHANGED vars => Typed'
    BY DEF Typed, vars
  <1> QED
    BY <1>1, ConnectTypes, TurnTypes, CopyTypes, PeerTypes DEF Next, Finished

LEMMA StepAnswerIsThere == IInv /\ Typed /\ AnswerIsThere /\ [Next]_vars => AnswerIsThere'
  <1> SUFFICES ASSUME IInv, Typed, AnswerIsThere, [Next]_vars PROVE AnswerIsThere'
    OBVIOUS
  <1> USE DEF AnswerIsThere, IInv, Shape
  <1>1. ASSUME NEW t \in Tunnels, Connect(t) PROVE AnswerIsThere'
    BY <1>1 DEF Connect, Dial, Hijack, Establish, LookUp, Make, Store, Goto, setupRest, turnVars
  <1>2. ASSUME NEW t \in Tunnels, ReadResponse(t) PROVE AnswerIsThere'
    <2>1. PICK r \in Taken(behind[t], answers[t]) : answer' = [answer EXCEPT ![t] = r.m]
      BY <1>2 DEF ReadResponse
    <2>2. r.m \in Messages
      BY TakenLemma DEF Typed
    <2>3. pc' = [pc EXCEPT ![t] = "answering"]
      BY <1>2 DEF ReadResponse, Goto
    <2> QED
      BY <2>1, <2>2, <2>3 DEF Typed
  <1>3. ASSUME NEW t \in Tunnels, Return(t) PROVE AnswerIsThere'
    BY <1>3 DEF Return, turnVars
  <1>4. ASSUME NEW t \in Tunnels, PassResponse(t) PROVE AnswerIsThere'
    BY <1>4 DEF PassResponse, Goto, Typed
  <1>5. ASSUME NEW t \in Tunnels, ReadRequest(t) \/ PassRequest(t) \/ PassUpgrade(t) PROVE AnswerIsThere'
    <2>1. UNCHANGED answer /\ \E p \in {"upgrading", "requesting", "awaiting", "copying"} : pc' = [pc EXCEPT ![t] = p]
      BY <1>5 DEF ReadRequest, PassRequest, PassUpgrade, Goto, turnVars
    <2> QED
      BY <2>1
  <1>6. ASSUME NEW t \in Tunnels, Copy(t) \/ Peer(t) PROVE AnswerIsThere'
    <2>1. UNCHANGED <<pc, answer>>
      BY <1>6 DEF Copy, CopyUp, CopyDown, CopyEnds, Peer, ClientRequests, ClientFrame, DestReceives,
                  DestFrame, Leave, proxyVars, turnVars
    <2> QED
      BY <2>1
  <1>7. CASE UNCHANGED vars
    BY <1>7 DEF vars
  <1> QED
    BY <1>1, <1>2, <1>3, <1>4, <1>5, <1>6, <1>7
    DEF Next, Finished, Turn, ReadRequestFails, RequestFails, ReadResponseFails, ResponseFails,
        UpgradeFails, WaitEnds

LEMMA TypedInvariant == Spec => [](Typed /\ AnswerIsThere)
  <1>1. Init => Typed /\ AnswerIsThere
    BY InitTyped DEF Init, Each, AnswerIsThere
  <1> QED
    BY <1>1, Invariant, StepTyped, StepAnswerIsThere, PTL DEF Spec

\* Every variable of a tunnel has its type, whatever is sent and whoever leaves; in
\* particular a copy runs only where the goroutine waits for it.
THEOREM TypeCorrect == Spec => []TypeOK
  <1>1. IInv /\ Typed => TypeOK
    BY DEF IInv, Shape, Placed, Typed, Counts, TypeOK
  <1> QED
    BY Invariant, TypedInvariant, <1>1, PTL

-----------------------------------------------------------------------------
(***************************************************************************)
(* Answers: what is on its way at each place of the loop.                  *)
(***************************************************************************)

Sent(t) == sends[t].requests
IsUp(t) == "client" \in upgraded[t]
Setup == {"idle", "dialed", "hijacked", "established", "making", "storing"}

\* What the client has sent and ReadRequest has not returned.
Line(t) == ahead[t] \o wire[t]

\* The n-th message of the client: the handshake is the last of its requests.
Expected(t, n) == IF IsUp(t) /\ n = Sent(t) THEN Upgrade(n) ELSE Request(n)

FramesAfter(q, k) == \A i \in 1 .. Len(q) : i > k => q[i].kind = "frame"

\* The requests that are left are in the line in their order, frames behind them, and
\* the handshake is not passed over.
Lined(t) ==
  LET left == Sent(t) - current[t]
  IN /\ left >= 0
     /\ Len(Line(t)) >= left
     /\ ~IsUp(t) => Len(Line(t)) = left
     /\ \A i \in 1 .. left : Line(t)[i] = Expected(t, current[t] + i)
     /\ FramesAfter(Line(t), left)
     /\ IsUp(t) /\ pc[t] \notin {"upgrading", "copying"} => left > 0
     /\ pc[t] \in {"upgrading", "copying"} => left = 0 /\ IsUp(t)
     /\ pc[t] \in Setup => current[t] = 0
     /\ pc[t] \in {"requesting", "awaiting", "answering", "upgrading", "copying"} => current[t] >= 1

HasAnswers(t, k) == Len(got[t].client) = k /\ \A i \in 1 .. k : got[t].client[i] = Final(i)
NoneOnTheWay(t) == toDest[t] = <<>> /\ answers[t] = <<>>

\* Received by the client, or about to be, in a WebSocket tunnel.
Down(t) == got[t].client \o answers[t]

\* One request is on its way at a time, and its answer after it.
Ordered(t) ==
  LET c == current[t]
  IN /\ behind[t] = <<>>
     /\ pc[t] # "copying" => "dest" \notin upgraded[t]
     /\ pc[t] \in Setup \cup {"reading"} => NoneOnTheWay(t) /\ HasAnswers(t, c)
     /\ pc[t] \in {"requesting", "upgrading", "answering"} => NoneOnTheWay(t) /\ HasAnswers(t, c - 1)
     /\ pc[t] = "answering" => answer[t] = Final(c)
     /\ pc[t] = "awaiting" =>
          /\ HasAnswers(t, c - 1)
          /\ \/ toDest[t] = <<Request(c)>> /\ answers[t] = <<>>
             \/ toDest[t] = <<>> /\ answers[t] = <<Final(c)>>
     /\ pc[t] = "copying" /\ "dest" \notin upgraded[t] =>
          /\ HasAnswers(t, c - 1) /\ answers[t] = <<>>
          /\ Len(toDest[t]) >= 1 /\ toDest[t][1] = Upgrade(c) /\ FramesAfter(toDest[t], 1)
     /\ pc[t] = "copying" /\ "dest" \in upgraded[t] =>
          /\ FramesAfter(toDest[t], 0)
          /\ Len(Down(t)) >= c
          /\ \A i \in 1 .. c : Down(t)[i] = Final(i)

Matched(t) == \A p \in pairs[t] : p[1] = p[2].n
Answered(t) == \A i \in DOMAIN got[t].client : i <= Sent(t) => got[t].client[i] = Final(i)

InOrder(t) ==
  /\ ~Over(t) => Lined(t)
  /\ ~interim[t] => Matched(t) /\ IF Over(t) THEN Answered(t) ELSE Ordered(t)

\* What the types say of one tunnel.
TunnelTyped(t) ==
  /\ wire[t] \in Seq(Messages) /\ ahead[t] \in Seq(Messages) /\ behind[t] \in Seq(Messages)
  /\ toDest[t] \in Seq(Messages) /\ answers[t] \in Seq(Messages)
  /\ got[t].client \in Seq(Messages)
  /\ current[t] \in Nat /\ sends[t].requests \in Nat
  /\ pc[t] \in Places

LEMMA TypesOfOne ==
  ASSUME IInv, Typed, NEW t \in Tunnels
  PROVE  TunnelTyped(t)
  <1>1. got[t] \in [client : Seq(Messages), dest : Seq(Nat)] /\ sends[t] \in Counts
    BY DEF Typed
  <1> QED
    BY <1>1 DEF IInv, Shape, Typed, TunnelTyped, Counts

LEMMA JoinLemma ==
  ASSUME NEW a \in Seq(Messages), NEW b \in Seq(Messages)
  PROVE  /\ Len(a) \in Nat /\ Len(b) \in Nat /\ a \o b \in Seq(Messages)
         /\ Len(a \o b) = Len(a) + Len(b)
         /\ \A i \in 1 .. Len(a) : (a \o b)[i] = a[i]
         /\ \A i \in 1 .. Len(b) : (a \o b)[Len(a) + i] = b[i]
  <1>1. Len(a) \in Nat /\ Len(b) \in Nat
    OBVIOUS
  <1>2. /\ a \o b \in Seq(Messages) /\ Len(a \o b) = Len(a) + Len(b)
        /\ \A i \in 1 .. Len(a) + Len(b) : (a \o b)[i] = IF i <= Len(a) THEN a[i] ELSE b[i - Len(a)]
    BY ConcatProperties
  <1>3. \A i \in 1 .. Len(a) : (a \o b)[i] = a[i]
    BY <1>1, <1>2
  <1>4. ASSUME NEW i \in 1 .. Len(b) PROVE (a \o b)[Len(a) + i] = b[i]
    <2>1. Len(a) + i \in 1 .. Len(a) + Len(b) /\ ~(Len(a) + i <= Len(a)) /\ (Len(a) + i) - Len(a) = i
      BY <1>1
    <2> QED
      BY <1>2, <2>1
  <1> QED
    BY <1>1, <1>2, <1>3, <1>4

\* The answers of a tunnel that is not over are in order.
LEMMA OrderedIsAnswered ==
  ASSUME NEW t \in Tunnels, TunnelTyped(t), Lined(t), Ordered(t), ~Over(t)
  PROVE  Answered(t)
  <1> DEFINE c == current[t]
  <1>1. /\ got[t].client \in Seq(Messages) /\ answers[t] \in Seq(Messages)
        /\ c \in Nat /\ Sent(t) \in Nat /\ pc[t] \in Places
    BY DEF TunnelTyped, Sent
  <1>2. DOMAIN got[t].client = 1 .. Len(got[t].client) /\ Len(got[t].client) \in Nat
    BY <1>1
  <1>3. CASE pc[t] = "copying" /\ "dest" \in upgraded[t]
    <2>1. /\ c = Sent(t) /\ Len(Down(t)) >= c
          /\ \A i \in 1 .. c : Down(t)[i] = Final(i)
      BY <1>1, <1>3 DEF Lined, Ordered
    <2>2. \A i \in 1 .. Len(got[t].client) : Down(t)[i] = got[t].client[i]
      BY <1>1, JoinLemma DEF Down
    <2> QED
      BY <1>1, <1>2, <2>1, <2>2 DEF Answered
  <1>4. CASE ~(pc[t] = "copying" /\ "dest" \in upgraded[t])
    <2>1. HasAnswers(t, c) \/ HasAnswers(t, c - 1)
      BY <1>1, <1>4 DEF Ordered, Over, Places, Setup
    <2> QED
      BY <1>2, <2>1 DEF HasAnswers, Answered
  <1> QED
    BY <1>3, <1>4

\* What InOrder is about.
Same(t) ==
  /\ pc'[t] = pc[t] /\ wire'[t] = wire[t] /\ ahead'[t] = ahead[t] /\ behind'[t] = behind[t]
  /\ current'[t] = current[t] /\ toDest'[t] = toDest[t] /\ answers'[t] = answers[t]
  /\ answer'[t] = answer[t] /\ got'[t] = got[t] /\ sends'[t] = sends[t]
  /\ upgraded'[t] = upgraded[t] /\ pairs'[t] = pairs[t] /\ interim'[t] = interim[t]

LEMMA SameKeepsOrder ==
  ASSUME NEW t \in Tunnels, InOrder(t), Same(t)
  PROVE  InOrder(t)'
  <1>1. Over(t)' <=> Over(t)
    BY DEF Same, Over
  <1>2. Matched(t) => Matched(t)'
    BY DEF Same, Matched
  <1>3. Answered(t) => Answered(t)'
    BY DEF Same, Answered, Sent
  <1>4. Lined(t) => Lined(t)'
    BY DEF Same, Lined, Line, Sent, IsUp, Expected
  <1>5. Ordered(t) => Ordered(t)'
    BY DEF Same, Ordered, HasAnswers, NoneOnTheWay, Down
  <1> QED
    BY <1>1, <1>2, <1>3, <1>4, <1>5 DEF InOrder, Same

\* The goroutine ends, or does not start.
LEMMA EndKeepsOrder ==
  ASSUME IInv, Typed, NEW t \in Tunnels, InOrder(t), Over(t)', ~Over(t),
         pairs'[t] = pairs[t], got'[t] = got[t], sends'[t] = sends[t], interim'[t] = interim[t]
  PROVE  InOrder(t)'
  <1>1. Matched(t) => Matched(t)'
    BY DEF Matched
  <1>2. Answered(t) => Answered(t)'
    BY DEF Answered, Sent
  <1>3. ~interim[t] => Answered(t)
    BY TypesOfOne, OrderedIsAnswered DEF InOrder
  <1> QED
    BY <1>1, <1>2, <1>3 DEF InOrder

LEMMA ConnectKeepsOrder ==
  ASSUME IInv, Typed, NEW t \in Tunnels, InOrder(t), Connect(t)
  PROVE  InOrder(t)'
  <1>1. UNCHANGED <<peerVars, streamVars, turnVars>>
    BY DEF Connect, Dial, Hijack, Establish, LookUp, Make, Store, setupRest
  <1>2. PICK p \in Setup \cup {"reading", "refused", "over"} : pc' = [pc EXCEPT ![t] = p]
    BY DEF Connect, Dial, Hijack, Establish, LookUp, Make, Store, Goto, Setup
  <1>3. pc[t] \in Setup /\ pc'[t] = p
    BY <1>2 DEF Connect, Dial, Hijack, Establish, LookUp, Make, Store, Goto, Setup, IInv, Shape
  <1>4. CASE p \in {"refused", "over"}
    BY <1>1, <1>3, <1>4, EndKeepsOrder DEF Over, Setup, peerVars, streamVars, turnVars
  <1>5. CASE p \in Setup \cup {"reading"}
    <2>1. ~Over(t) /\ ~Over(t)'
      BY <1>3, <1>5 DEF Over, Setup
    <2>2. Lined(t) => Lined(t)'
      BY <1>1, <1>3, <1>5
      DEF Lined, Line, Sent, IsUp, Expected, Setup, peerVars, streamVars, turnVars
    <2>3. Ordered(t) => Ordered(t)'
      BY <1>1, <1>3, <1>5
      DEF Ordered, HasAnswers, NoneOnTheWay, Down, Setup, peerVars, streamVars, turnVars
    <2> QED
      BY <1>1, <2>1, <2>2, <2>3 DEF InOrder, Matched, peerVars, turnVars
  <1> QED
    BY <1>4, <1>5

\* The request that is returned is the next one in the line.
LEMMA NextRequest ==
  ASSUME IInv, Typed, NEW t \in Tunnels, Lined(t), ReadRequest(t)
  PROVE  /\ current[t] \in Nat /\ Sent(t) \in Nat /\ Sent(t) - current[t] >= 1
         /\ current'[t] = current[t] + 1
         /\ pc'[t] = IF IsUp(t) /\ current[t] + 1 = Sent(t) THEN "upgrading" ELSE "requesting"
         /\ Len(Line(t)') \in Nat /\ Len(Line(t)) = 1 + Len(Line(t)')
         /\ \A i \in 1 .. Len(Line(t)') : Line(t)'[i] = Line(t)[i + 1]
  <1> DEFINE c == current[t]
             left == Sent(t) - c
  <1>1. PICK r \in Taken(ahead[t], wire[t]) :
          /\ ahead' = [ahead EXCEPT ![t] = r.buffered]
          /\ wire' = [wire EXCEPT ![t] = r.unread]
          /\ current' = [current EXCEPT ![t] = r.m.n]
          /\ pc' = [pc EXCEPT ![t] = IF r.m.kind = "upgrade" THEN "upgrading" ELSE "requesting"]
    BY DEF ReadRequest
  <1>2. pc[t] = "reading"
    BY DEF ReadRequest
  <1>3. /\ ahead'[t] = r.buffered /\ wire'[t] = r.unread /\ current'[t] = r.m.n
        /\ pc'[t] = IF r.m.kind = "upgrade" THEN "upgrading" ELSE "requesting"
    BY <1>1 DEF Typed, IInv, Shape
  <1>4. TunnelTyped(t)
    BY TypesOfOne
  <1>5. /\ Len(Line(t)) = 1 + Len(Line(t)')
        /\ r.m = Line(t)[1]
        /\ \A i \in 1 .. Len(Line(t)') : Line(t)'[i] = Line(t)[i + 1]
        /\ Len(Line(t)') \in Nat
    <2>1. /\ ahead[t] \in Seq(Messages) /\ wire[t] \in Seq(Messages)
      BY <1>4 DEF TunnelTyped
    <2>2. Line(t)' = r.buffered \o r.unread
      BY <1>3 DEF Line
    <2>3. r.buffered \in Seq(Messages) /\ r.unread \in Seq(Messages)
      BY <2>1, TakenLemma
    <2>4. Len(r.buffered \o r.unread) \in Nat
      BY <2>3, JoinLemma
    <2>5. Line(t) = ahead[t] \o wire[t]
      BY DEF Line
    <2>6. /\ Len(ahead[t] \o wire[t]) = 1 + Len(r.buffered \o r.unread)
          /\ r.m = (ahead[t] \o wire[t])[1]
          /\ \A i \in 1 .. Len(r.buffered \o r.unread) :
               (r.buffered \o r.unread)[i] = (ahead[t] \o wire[t])[i + 1]
      <3> HIDE DEF Taken
      <3> QED
        BY <2>1, TakenLemma, Zenon
    <2> HIDE DEF Line
    <2> QED
      BY <2>2, <2>4, <2>5, <2>6, Zenon
  <1>6. c \in Nat /\ Sent(t) \in Nat
    BY <1>4 DEF TunnelTyped, Sent
  <1>7. left \in Nat /\ left >= 1
    BY <1>2, <1>5, <1>6 DEF Lined
  <1>8. r.m = Expected(t, c + 1)
    BY <1>5, <1>7 DEF Lined
  <1>9. /\ r.m.n = c + 1
        /\ r.m.kind = "upgrade" <=> IsUp(t) /\ c + 1 = Sent(t)
    BY <1>8 DEF Expected, Upgrade, Request
  <1> QED
    BY <1>3, <1>5, <1>6, <1>7, <1>9

LEMMA ReadRequestKeepsOrder ==
  ASSUME IInv, Typed, NEW t \in Tunnels, InOrder(t), ReadRequest(t)
  PROVE  InOrder(t)'
  <1> DEFINE c == current[t]
             left == Sent(t) - c
  <1>1. pc[t] = "reading" /\ pc'[t] \in {"upgrading", "requesting"}
    BY DEF ReadRequest, IInv, Shape
  <1>2. UNCHANGED <<peerVars, behind, toDest, answers, got, answer, pairs>>
    BY DEF ReadRequest
  <1>3. interim'[t] = interim[t]
    BY <1>2 DEF peerVars
  <1>4. ~Over(t) /\ ~Over(t)'
    BY <1>1 DEF Over
  <1>5. Lined(t) /\ (~interim[t] => Matched(t) /\ Ordered(t))
    BY <1>4 DEF InOrder
  <1>6. Sent(t)' = Sent(t) /\ (IsUp(t)' <=> IsUp(t))
    BY <1>2 DEF Sent, IsUp, peerVars
  <1>7. /\ c \in Nat /\ Sent(t) \in Nat /\ left >= 1 /\ current'[t] = c + 1
        /\ pc'[t] = IF IsUp(t) /\ c + 1 = Sent(t) THEN "upgrading" ELSE "requesting"
    BY <1>5, NextRequest
  <1>8. /\ Len(Line(t)') \in Nat /\ Len(Line(t)) = 1 + Len(Line(t)')
        /\ \A i \in 1 .. Len(Line(t)') : Line(t)'[i] = Line(t)[i + 1]
    BY <1>5, NextRequest
  <1>9. Lined(t)'
    <2>1. current'[t] = c + 1 /\ Sent(t)' - current'[t] = left - 1
      BY <1>6, <1>7
    <2>2. Len(Line(t)') >= left - 1 /\ (~IsUp(t) => Len(Line(t)') = left - 1)
      BY <1>6, <1>7, <1>8, <1>5 DEF Lined
    <2>3. \A i \in 1 .. left - 1 : Line(t)'[i] = Expected(t, (c + 1) + i)
      <3> TAKE i \in 1 .. left - 1
      <3> DEFINE k == Len(Line(t)')
      <3>1. k \in Nat /\ k >= left - 1 /\ c \in Nat /\ Sent(t) \in Nat
        BY <1>7, <1>8, <2>2
      <3> HIDE DEF k
      <3>2. i \in 1 .. k /\ i + 1 \in 1 .. left /\ c + (i + 1) = (c + 1) + i
        BY <3>1
      <3>3. Line(t)[i + 1] = Expected(t, c + (i + 1))
        BY <1>5, <3>2 DEF Lined
      <3> QED
        BY <1>8, <3>2, <3>3 DEF k
    <2>4. \A n : Expected(t, n)' = Expected(t, n)
      BY <1>6 DEF Expected
    <2>5. \A i \in 1 .. Len(Line(t)') : i > left - 1 => Line(t)'[i].kind = "frame"
      <3> TAKE i \in 1 .. Len(Line(t)')
      <3>1. i > left - 1 => i + 1 > left /\ i + 1 \in 1 .. Len(Line(t))
        BY <1>7, <1>8
      <3> QED
        BY <1>8, <1>5, <3>1 DEF Lined, FramesAfter
    <2>6. pc'[t] = "upgrading" => left - 1 = 0 /\ IsUp(t)
      BY <1>6, <1>7
    <2>7. pc'[t] # "upgrading" /\ IsUp(t) => left - 1 > 0
      BY <1>6, <1>7
    <2>8. pc'[t] \in {"upgrading", "requesting"}
      BY <1>1
    <2> DEFINE n == Sent(t)' - current'[t]
    <2>9. \A i \in 1 .. n : Line(t)'[i] = Expected(t, current[t] + i)'
      BY <2>1, <2>3, <2>4
    <2>10. \A i \in 1 .. Len(Line(t)') : i > n => Line(t)'[i].kind = "frame"
      BY <2>1, <2>5
    <2>11. /\ n >= 0 /\ Len(Line(t)') >= n /\ (~IsUp(t)' => Len(Line(t)') = n)
           /\ current'[t] >= 1 /\ pc'[t] \notin Setup /\ pc'[t] # "copying"
      BY <1>6, <1>7, <2>1, <2>2, <2>8 DEF Setup
    <2>12. /\ IsUp(t)' /\ pc'[t] # "upgrading" => n > 0
           /\ pc'[t] = "upgrading" => n = 0 /\ IsUp(t)'
      BY <1>6, <2>1, <2>6, <2>7
    <2> QED
      BY <2>9, <2>10, <2>11, <2>12 DEF Lined, FramesAfter
  <1>10. ASSUME ~interim[t] PROVE Ordered(t)'
    <2>1. current'[t] - 1 = c
      BY <1>6, <1>7
    <2>2. NoneOnTheWay(t)' /\ behind'[t] = <<>> /\ "dest" \notin upgraded'[t]
      BY <1>1, <1>2, <1>5, <1>10 DEF Ordered, NoneOnTheWay, peerVars, Setup
    <2>3. HasAnswers(t, c)
      BY <1>1, <1>2, <1>5, <1>10 DEF Ordered
    <2>4. HasAnswers(t, current[t] - 1)'
      BY <1>2, <2>1, <2>3 DEF HasAnswers
    <2>5. pc'[t] \in {"upgrading", "requesting"}
      BY <1>1
    <2> QED
      BY <2>2, <2>4, <2>5 DEF Ordered, Setup
  <1>11. Matched(t) => Matched(t)'
    BY <1>2 DEF Matched
  <1> QED
    BY <1>3, <1>4, <1>5, <1>9, <1>10, <1>11 DEF InOrder

\* A reader that has nothing buffered and receives one message keeps none.
LEMMA TakenOne ==
  ASSUME NEW u \in Seq(Messages), NEW r \in Taken(<<>>, u)
  PROVE  u # <<>> /\ (Len(u) = 1 => r.m = u[1] /\ r.buffered = <<>> /\ r.unread = <<>>)
  <1>1. PICK k \in 1 .. Len(u) : r = [m |-> Head(u), buffered |-> SubSeq(u, 2, k), unread |-> SubSeq(u, k + 1, Len(u))]
    BY DEF Taken
  <1>2. Len(u) \in Nat /\ u # <<>>
    BY <1>1
  <1>3. ASSUME Len(u) = 1 PROVE k = 1 /\ Head(u) = u[1] /\ SubSeq(u, 2, 1) = <<>>
    BY <1>1, <1>2, <1>3
  <1> QED
    BY <1>1, <1>2, <1>3

\* A step of the loop that reads nothing from the client.
LEMMA LinedStays ==
  ASSUME NEW t \in Tunnels, Lined(t),
         wire'[t] = wire[t], ahead'[t] = ahead[t], current'[t] = current[t], sends'[t] = sends[t],
         upgraded'[t] = upgraded[t],
         \/ pc[t] \in {"requesting", "awaiting", "answering"} /\ pc'[t] \in {"awaiting", "answering", "reading"}
         \/ pc[t] = "upgrading" /\ pc'[t] = "copying"
  PROVE  Lined(t)'
  BY DEF Lined, Line, Sent, IsUp, Expected, Setup

LEMMA TurnKeepsOrder ==
  ASSUME IInv, Typed, NEW t \in Tunnels, InOrder(t), Turn(t)
  PROVE  InOrder(t)'
  <1> DEFINE c == current[t]
  <1> USE DEF peerVars, turnVars, streamVars
  <1>1. TunnelTyped(t)
    BY TypesOfOne
  <1>2. CASE PassRequest(t)
    <2>1. pc[t] = "requesting" /\ pc'[t] = "awaiting"
      BY <1>2 DEF PassRequest, Goto, IInv, Shape
    <2>2. toDest'[t] = Append(toDest[t], Request(c))
      BY <1>2 DEF PassRequest, Typed
    <2>3. UNCHANGED <<peerVars, wire, ahead, behind, answers, got, turnVars>>
      BY <1>2 DEF PassRequest
    <2>4. ~Over(t) /\ ~Over(t)'
      BY <2>1 DEF Over
    <2>5. Lined(t) => Lined(t)'
      BY <2>1, <2>3, LinedStays
    <2>6. Ordered(t) => Ordered(t)'
      <3>1. toDest[t] = <<>> => toDest'[t] = <<Request(c)>>
        BY <2>2
      <3> QED
        BY <2>1, <2>3, <3>1 DEF Ordered, NoneOnTheWay, HasAnswers, Setup
    <2> QED
      BY <2>3, <2>4, <2>5, <2>6 DEF InOrder, Matched
  <1>3. CASE ReadResponse(t)
    <2>1. PICK r \in Taken(behind[t], answers[t]) :
            /\ behind' = [behind EXCEPT ![t] = r.buffered]
            /\ answers' = [answers EXCEPT ![t] = r.unread]
            /\ answer' = [answer EXCEPT ![t] = r.m]
            /\ pairs' = [pairs EXCEPT ![t] = @ \cup {<<current[t], r.m>>}]
      BY <1>3 DEF ReadResponse
    <2>2. /\ behind'[t] = r.buffered /\ answers'[t] = r.unread /\ answer'[t] = r.m
          /\ pairs'[t] = pairs[t] \cup {<<c, r.m>>}
      BY <2>1 DEF Typed
    <2>3. pc[t] = "awaiting" /\ pc'[t] = "answering"
      BY <1>3 DEF ReadResponse, Goto, IInv, Shape
    <2>4. UNCHANGED <<peerVars, wire, ahead, toDest, got, current>>
      BY <1>3 DEF ReadResponse
    <2>5. ~Over(t) /\ ~Over(t)' /\ Lined(t) /\ Lined(t)'
      BY <2>3, <2>4, LinedStays DEF InOrder, Over
    <2> SUFFICES ASSUME ~interim[t] PROVE Matched(t)' /\ Ordered(t)'
      BY <2>4, <2>5 DEF InOrder
    <2>6. Matched(t) /\ Ordered(t)
      BY <2>5 DEF InOrder
    <2>7. behind[t] = <<>>
      BY <2>6 DEF Ordered
    <2>8. answers[t] # <<>> /\ (Len(answers[t]) = 1 => r.m = answers[t][1] /\ r.buffered = <<>> /\ r.unread = <<>>)
      BY <1>1, <2>7, TakenOne DEF TunnelTyped
    <2>9. answers[t] = <<Final(c)>> /\ toDest[t] = <<>> /\ HasAnswers(t, c - 1)
      BY <2>3, <2>6, <2>8 DEF Ordered
    <2>10. r.m = Final(c) /\ r.buffered = <<>> /\ r.unread = <<>>
      BY <2>8, <2>9
    <2>12. Ordered(t)'
      BY <2>2, <2>3, <2>4, <2>6, <2>9, <2>10 DEF Ordered, NoneOnTheWay, HasAnswers, Setup
    <2>13. Matched(t)'
      BY <2>2, <2>6, <2>10 DEF Matched, Final
    <2> QED
      BY <2>12, <2>13
  <1>4. CASE PassResponse(t)
    <2>1. pc[t] = "answering" /\ pc'[t] = "reading"
      BY <1>4 DEF PassResponse, Goto, IInv, Shape
    <2>2. UNCHANGED <<peerVars, wire, ahead, behind, toDest, answers, current, pairs>>
      BY <1>4 DEF PassResponse
    <2>3. ~Over(t) /\ ~Over(t)' /\ Lined(t) /\ Lined(t)'
      BY <2>1, <2>2, LinedStays DEF InOrder, Over
    <2> SUFFICES ASSUME ~interim[t] PROVE Matched(t)' /\ Ordered(t)'
      BY <2>2, <2>3 DEF InOrder
    <2>4. Matched(t) /\ Ordered(t)
      BY <2>3 DEF InOrder
    <2>5. answer[t] = Final(c) /\ NoneOnTheWay(t) /\ HasAnswers(t, c - 1)
      BY <2>1, <2>4 DEF Ordered
    <2>6. c \in Nat /\ got[t].client \in Seq(Messages) /\ Final(c) \in Messages
      BY <1>1, MessageTypes DEF TunnelTyped
    <2>7. got'[t].client = Append(got[t].client, Final(c))
      <3>1. got' = [got EXCEPT ![t].client = Append(@, answer[t])]
        BY <1>4 DEF PassResponse
      <3> QED
        BY <2>5, <2>6, <3>1, GotLemma
    <2>8. HasAnswers(t, c)'
      <3>1. /\ Len(got'[t].client) = c
            /\ \A i \in 1 .. c - 1 : got'[t].client[i] = got[t].client[i]
            /\ got'[t].client[c] = Final(c)
        BY <2>5, <2>6, <2>7, AppendProperties DEF HasAnswers
      <3>2. \A i \in 1 .. c : i \in 1 .. c - 1 \/ i = c
        BY <2>6
      <3>3. \A i \in 1 .. c : got'[t].client[i] = Final(i)
        BY <2>5, <3>1, <3>2 DEF HasAnswers
      <3> QED
        BY <2>2, <3>1, <3>3 DEF HasAnswers
    <2>10. Ordered(t)'
      BY <2>1, <2>2, <2>4, <2>5, <2>8 DEF Ordered, NoneOnTheWay, HasAnswers, Setup
    <2> QED
      BY <2>2, <2>4, <2>10 DEF Matched
  <1>5. CASE PassUpgrade(t)
    <2>1. pc[t] = "upgrading" /\ pc'[t] = "copying"
      BY <1>5 DEF PassUpgrade, Goto, IInv, Shape
    <2>2. toDest'[t] = Append(toDest[t], Upgrade(c))
      BY <1>5 DEF PassUpgrade, Typed
    <2>3. UNCHANGED <<peerVars, wire, ahead, behind, answers, got, turnVars>>
      BY <1>5 DEF PassUpgrade
    <2>4. ~Over(t) /\ ~Over(t)'
      BY <2>1 DEF Over
    <2>5. Lined(t) => Lined(t)'
      BY <2>1, <2>3, LinedStays
    <2>6. ASSUME Ordered(t) PROVE Ordered(t)'
      <3>1. toDest[t] = <<>> /\ answers[t] = <<>> /\ HasAnswers(t, c - 1) /\ "dest" \notin upgraded[t] /\ behind[t] = <<>>
        BY <2>1, <2>6 DEF Ordered, NoneOnTheWay
      <3>2. toDest'[t] = <<Upgrade(c)>>
        BY <2>2, <3>1
      <3>3. Len(toDest'[t]) >= 1 /\ toDest'[t][1] = Upgrade(c) /\ FramesAfter(toDest'[t], 1)
        BY <3>2 DEF FramesAfter
      <3>4. HasAnswers(t, c - 1)'
        BY <2>3, <3>1 DEF HasAnswers
      <3> QED
        BY <2>1, <2>3, <3>1, <3>3, <3>4 DEF Ordered, HasAnswers, Setup
    <2> QED
      BY <2>3, <2>4, <2>5, <2>6 DEF InOrder, Matched
  <1>6. ASSUME Return(t), ~Over(t) PROVE InOrder(t)'
    <2>1. Over(t)' /\ UNCHANGED <<peerVars, streamVars, turnVars>>
      BY <1>6 DEF Return, Over, IInv, Shape
    <2> QED
      BY <1>6, <2>1, EndKeepsOrder
  <1>7. CASE ReadRequestFails(t) \/ RequestFails(t) \/ ReadResponseFails(t)
             \/ ResponseFails(t) \/ UpgradeFails(t) \/ WaitEnds(t)
    <2>1. ~Over(t) /\ Return(t)
      BY <1>7 DEF ReadRequestFails, RequestFails, ReadResponseFails, ResponseFails, UpgradeFails, WaitEnds, Over
    <2> QED
      BY <1>6, <2>1
  <1> QED
    BY <1>2, <1>3, <1>4, <1>5, <1>7, ReadRequestKeepsOrder DEF Turn

-----------------------------------------------------------------------------
(***************************************************************************)
(* Answers: the copies and the peers.                                      *)
(***************************************************************************)

LEMMA FrameAppended ==
  ASSUME NEW q \in Seq(Messages), NEW e \in Messages, NEW k \in Nat
  PROVE  /\ Len(Append(q, e)) = Len(q) + 1
         /\ \A i \in 1 .. Len(q) : Append(q, e)[i] = q[i]
         /\ e.kind = "frame" /\ FramesAfter(q, k) => FramesAfter(Append(q, e), k)
  <1>1. /\ Len(q) \in Nat /\ Len(Append(q, e)) = Len(q) + 1
        /\ \A i \in 1 .. Len(q) : Append(q, e)[i] = q[i]
        /\ Append(q, e)[Len(q) + 1] = e
    BY AppendProperties
  <1>2. \A i \in 1 .. Len(q) + 1 : i \in 1 .. Len(q) \/ i = Len(q) + 1
    BY <1>1
  <1> QED
    BY <1>1, <1>2 DEF FramesAfter

LEMMA FirstRemoved ==
  ASSUME NEW q \in Seq(Messages), q # <<>>, FramesAfter(q, 1)
  PROVE  Tail(q) \in Seq(Messages) /\ FramesAfter(Tail(q), 0) /\ Head(q) = q[1] /\ Head(q) \in Messages
         /\ Len(q) >= 1
  <1>1. /\ Tail(q) \in Seq(Messages) /\ Len(Tail(q)) = Len(q) - 1 /\ Len(q) \in Nat /\ Len(q) >= 1
        /\ \A i \in 1 .. Len(q) - 1 : Tail(q)[i] = q[i + 1]
        /\ Head(q) = q[1] /\ Head(q) \in Messages
    OBVIOUS
  <1>2. \A i \in 1 .. Len(q) - 1 : i + 1 \in 1 .. Len(q) /\ i + 1 > 1
    BY <1>1
  <1>3. FramesAfter(Tail(q), 0)
    BY <1>1, <1>2 DEF FramesAfter
  <1> QED
    BY <1>1, <1>3

\* In a line of frames only there are frames only.
LEMMA FramesJoined ==
  ASSUME NEW a \in Seq(Messages), NEW b \in Seq(Messages)
  PROVE  FramesAfter(a \o b, 0) <=> FramesAfter(a, 0) /\ FramesAfter(b, 0)
  <1> DEFINE q == a \o b
  <1>1. /\ Len(a) \in Nat /\ Len(b) \in Nat /\ Len(q) = Len(a) + Len(b)
        /\ \A i \in 1 .. Len(a) : q[i] = a[i]
        /\ \A i \in 1 .. Len(b) : q[Len(a) + i] = b[i]
    BY JoinLemma
  <1> HIDE DEF q
  <1>2. ASSUME FramesAfter(q, 0) PROVE FramesAfter(a, 0) /\ FramesAfter(b, 0)
    <2>1. \A i \in 1 .. Len(a) : i \in 1 .. Len(q)
      BY <1>1
    <2>2. \A i \in 1 .. Len(b) : Len(a) + i \in 1 .. Len(q) /\ Len(a) + i > 0
      BY <1>1
    <2> QED
      BY <1>1, <1>2, <2>1, <2>2 DEF FramesAfter
  <1>3. ASSUME FramesAfter(a, 0), FramesAfter(b, 0) PROVE FramesAfter(q, 0)
    <2> SUFFICES ASSUME NEW i \in 1 .. Len(q) PROVE q[i].kind = "frame"
      BY DEF FramesAfter
    <2>1. CASE i \in 1 .. Len(a)
      BY <1>1, <1>3, <2>1 DEF FramesAfter
    <2>2. CASE i \notin 1 .. Len(a)
      <3>1. i - Len(a) \in 1 .. Len(b) /\ Len(a) + (i - Len(a)) = i
        BY <1>1, <2>2
      <3>2. q[i] = b[i - Len(a)]
        BY <1>1, <3>1
      <3> QED
        BY <1>3, <3>1, <3>2 DEF FramesAfter
    <2> QED
      BY <2>1, <2>2
  <1> QED
    BY <1>2, <1>3 DEF q

LEMMA AppendedToJoin ==
  ASSUME NEW a \in Seq(Messages), NEW b \in Seq(Messages), NEW e \in Messages
  PROVE  a \o Append(b, e) = Append(a \o b, e)
  OBVIOUS

\* What is appended behind the second of two is behind both.
LEMMA JoinAppended ==
  ASSUME NEW a \in Seq(Messages), NEW b \in Seq(Messages), NEW e \in Messages
  PROVE  /\ Len(a \o b) \in Nat
         /\ Len(a \o Append(b, e)) = Len(a \o b) + 1
         /\ \A i \in 1 .. Len(a \o b) : (a \o Append(b, e))[i] = (a \o b)[i]
         /\ (a \o Append(b, e))[Len(a \o b) + 1] = e
  <1>1. a \o Append(b, e) = Append(a \o b, e)
    BY AppendedToJoin
  <1>2. a \o b \in Seq(Messages)
    BY JoinLemma
  <1> QED
    BY <1>1, <1>2, AppendProperties

\* What is taken from the front of the second and put behind the first stays in place.
LEMMA JoinShifted ==
  ASSUME NEW a \in Seq(Messages), NEW b \in Seq(Messages), b # <<>>
  PROVE  Append(a, Head(b)) \o Tail(b) = a \o b
  <1>1. Head(b) \in Messages /\ Tail(b) \in Seq(Messages)
    OBVIOUS
  <1>2. b = <<Head(b)>> \o Tail(b)
    <2>1. /\ <<Head(b)>> \o Tail(b) \in Seq(Messages)
          /\ Len(<<Head(b)>> \o Tail(b)) = Len(b)
          /\ \A i \in 1 .. Len(b) : (<<Head(b)>> \o Tail(b))[i] = b[i]
      BY <1>1
    <2> QED
      BY <2>1, SeqEqual
  <1>3. Append(a, Head(b)) = a \o <<Head(b)>> /\ <<Head(b)>> \in Seq(Messages)
    BY <1>1
  <1>4. (a \o <<Head(b)>>) \o Tail(b) = a \o (<<Head(b)>> \o Tail(b))
    BY <1>1, <1>3, ConcatAssociative
  <1> QED
    BY <1>2, <1>3, <1>4, Zenon

\* The left side of a tunnel: the client, and what it has sent.
LEMMA CopyUpKeepsOrder ==
  ASSUME IInv, Typed, NEW t \in Tunnels, InOrder(t), CopyUp(t)
  PROVE  InOrder(t)'
  <1> DEFINE m == Head(wire[t])
  <1>1. TunnelTyped(t)
    BY TypesOfOne
  <1>2. /\ toDest'[t] = Append(toDest[t], m) /\ wire'[t] = Tail(wire[t])
        /\ wire[t] # <<>> /\ pc[t] = "copying"
    BY DEF CopyUp, Typed, IInv, Placed
  <1>3. UNCHANGED <<pc, peerVars, ahead, behind, answers, got, turnVars>>
    BY DEF CopyUp
  <1>4. ~Over(t) /\ ~Over(t)' /\ interim'[t] = interim[t]
    BY <1>2, <1>3 DEF Over, peerVars
  <1>5. Lined(t) /\ (~interim[t] => Matched(t) /\ Ordered(t))
    BY <1>4 DEF InOrder
  <1>6. /\ wire[t] \in Seq(Messages) /\ ahead[t] \in Seq(Messages) /\ toDest[t] \in Seq(Messages)
        /\ current[t] \in Nat /\ Sent(t) \in Nat
    BY <1>1 DEF TunnelTyped, Sent
  <1>7. /\ Sent(t) - current[t] = 0 /\ IsUp(t) /\ current[t] >= 1
        /\ FramesAfter(ahead[t] \o wire[t], 0)
    BY <1>2, <1>5 DEF Lined, Line
  <1>8. FramesAfter(ahead[t], 0) /\ FramesAfter(wire[t], 0)
    BY <1>6, <1>7, FramesJoined
  <1>9. m \in Messages /\ m.kind = "frame" /\ FramesAfter(wire[t], 1)
    <2>1. Len(wire[t]) \in Nat \ {0} /\ m = wire[t][1] /\ m \in Messages
      BY <1>2, <1>6
    <2>2. \A i \in 1 .. Len(wire[t]) : wire[t][i].kind = "frame"
      BY <1>8, <2>1 DEF FramesAfter
    <2> HIDE DEF m
    <2> QED
      BY <2>1, <2>2 DEF FramesAfter
  <1>10. wire'[t] \in Seq(Messages) /\ FramesAfter(wire'[t], 0)
    BY <1>2, <1>6, <1>9, FirstRemoved
  <1>11. FramesAfter(ahead[t] \o wire'[t], 0) /\ Len(ahead[t] \o wire'[t]) \in Nat
    BY <1>6, <1>8, <1>10, FramesJoined, JoinLemma
  <1>12. /\ Line(t)' = ahead[t] \o wire'[t] /\ Sent(t)' = Sent(t) /\ current'[t] = current[t]
         /\ IsUp(t)' /\ pc'[t] = "copying"
    BY <1>2, <1>3, <1>7 DEF Line, Sent, IsUp, peerVars, turnVars
  <1>13. Lined(t)'
    <2>1. Sent(t)' - current'[t] = 0 /\ current'[t] >= 1 /\ Sent(t)' \in Nat /\ current'[t] \in Nat
      BY <1>6, <1>7, <1>12
    <2>2. FramesAfter(Line(t)', 0) /\ Len(Line(t)') \in Nat
      BY <1>11, <1>12, Zenon
    <2>3. \A i \in 1 .. Len(Line(t)') : Line(t)'[i].kind = "frame"
      BY <2>2 DEF FramesAfter
    <2>4. IsUp(t)' /\ pc'[t] = "copying"
      BY <1>12
    <2>5. \A i \in 1 .. Sent(t)' - current'[t] : FALSE
      BY <2>1
    <2> QED
      BY <2>1, <2>2, <2>3, <2>4, <2>5 DEF Lined, FramesAfter, Setup
  <1>14. ASSUME Ordered(t) PROVE Ordered(t)'
    <2>1. /\ Len(toDest'[t]) = Len(toDest[t]) + 1 /\ Len(toDest[t]) \in Nat
          /\ \A i \in 1 .. Len(toDest[t]) : toDest'[t][i] = toDest[t][i]
          /\ FramesAfter(toDest[t], 0) => FramesAfter(toDest'[t], 0)
          /\ FramesAfter(toDest[t], 1) => FramesAfter(toDest'[t], 1)
      BY <1>2, <1>6, <1>9, FrameAppended
    <2>2. toDest[t][1] = Upgrade(current[t]) /\ Len(toDest[t]) >= 1 => toDest'[t][1] = Upgrade(current[t])
      BY <2>1
    <2>3. HasAnswers(t, current[t] - 1) => HasAnswers(t, current[t] - 1)'
      BY <1>3 DEF HasAnswers, turnVars
    <2>4. Down(t)' = Down(t)
      BY <1>3 DEF Down
    <2>5. behind'[t] = <<>> /\ answers'[t] = answers[t] /\ upgraded'[t] = upgraded[t]
      BY <1>3, <1>14 DEF Ordered, peerVars
    <2> QED
      BY <1>2, <1>14, <1>12, <2>1, <2>2, <2>3, <2>4, <2>5 DEF Ordered, Setup
  <1> QED
    BY <1>3, <1>4, <1>5, <1>13, <1>14 DEF InOrder, Matched, turnVars

LEMMA CopyDownKeepsOrder ==
  ASSUME IInv, Typed, NEW t \in Tunnels, InOrder(t), CopyDown(t)
  PROVE  InOrder(t)'
  <1> DEFINE m == Head(answers[t])
  <1>1. TunnelTyped(t)
    BY TypesOfOne
  <1>2. answers'[t] = Tail(answers[t]) /\ answers[t] # <<>> /\ pc[t] = "copying"
    BY DEF CopyDown, Typed, IInv, Placed
  <1>3. UNCHANGED <<pc, peerVars, wire, ahead, behind, toDest, turnVars>>
    BY DEF CopyDown
  <1>4. ~Over(t) /\ ~Over(t)' /\ interim'[t] = interim[t]
    BY <1>2, <1>3 DEF Over, peerVars
  <1>5. Lined(t) /\ (~interim[t] => Matched(t) /\ Ordered(t))
    BY <1>4 DEF InOrder
  <1>6. answers[t] \in Seq(Messages) /\ got[t].client \in Seq(Messages)
    BY <1>1 DEF TunnelTyped
  <1>7. m \in Messages
    BY <1>2, <1>6
  <1>8. got'[t].client = Append(got[t].client, m)
    <2>1. got' = [got EXCEPT ![t].client = Append(@, m)]
      BY DEF CopyDown
    <2> QED
      BY <1>7, <2>1, GotLemma
  <1>9. Down(t)' = Down(t)
    BY <1>2, <1>6, <1>8, JoinShifted DEF Down
  <1>11. Lined(t)'
    BY <1>2, <1>3, <1>5 DEF Lined, Line, Sent, IsUp, Expected, Setup, peerVars, turnVars
  <1>12. ASSUME Ordered(t) PROVE Ordered(t)'
    <2> HIDE DEF Down
    <2>1. "dest" \in upgraded[t]
      BY <1>2, <1>12 DEF Ordered
    <2> QED
      BY <1>2, <1>3, <1>9, <1>12, <2>1 DEF Ordered, Setup, peerVars, turnVars
  <1> QED
    BY <1>3, <1>4, <1>5, <1>11, <1>12 DEF InOrder, Matched, turnVars

\* What the client sends comes last in its line.
LEMMA LineGrows ==
  ASSUME NEW t \in Tunnels, TunnelTyped(t), NEW m \in Messages,
         wire'[t] = Append(wire[t], m), ahead'[t] = ahead[t]
  PROVE  /\ Len(Line(t)) \in Nat
         /\ Len(Line(t)') = Len(Line(t)) + 1
         /\ \A i \in 1 .. Len(Line(t)) : Line(t)'[i] = Line(t)[i]
         /\ Line(t)'[Len(Line(t)) + 1] = m
  <1>1. ahead[t] \in Seq(Messages) /\ wire[t] \in Seq(Messages)
    BY DEF TunnelTyped
  <1>2. Line(t) = ahead[t] \o wire[t] /\ Line(t)' = ahead[t] \o Append(wire[t], m)
    BY DEF Line
  <1>3. /\ Len(ahead[t] \o wire[t]) \in Nat
        /\ Len(ahead[t] \o Append(wire[t], m)) = Len(ahead[t] \o wire[t]) + 1
        /\ \A i \in 1 .. Len(ahead[t] \o wire[t]) :
             (ahead[t] \o Append(wire[t], m))[i] = (ahead[t] \o wire[t])[i]
        /\ (ahead[t] \o Append(wire[t], m))[Len(ahead[t] \o wire[t]) + 1] = m
    BY <1>1, JoinAppended, Zenon
  <1> QED
    BY <1>2, <1>3, Zenon

LEMMA ClientRequestsKeepsOrder ==
  ASSUME IInv, Typed, NEW t \in Tunnels, InOrder(t), ClientRequests(t)
  PROVE  InOrder(t)'
  <1> DEFINE n == Sent(t) + 1
             left == Sent(t) - current[t]
  <1>1. TunnelTyped(t)
    BY TypesOfOne
  <1>2. /\ "client" \notin upgraded[t] /\ pc[t] \notin {"over", "refused"}
        /\ UNCHANGED <<pc, ahead, behind, current, answer, pairs, interim, toDest, answers, got>>
    BY DEF ClientRequests, CanSend, proxyVars, turnVars
  <1>3. Sent(t)' = n
    BY CountLemma DEF Sent
  <1>4. ~Over(t) /\ ~Over(t)' /\ interim'[t] = interim[t]
    BY <1>2 DEF Over
  <1>5. Lined(t) /\ (~interim[t] => Matched(t) /\ Ordered(t))
    BY <1>4 DEF InOrder
  <1>6. current[t] \in Nat /\ Sent(t) \in Nat /\ n \in Nat /\ ~IsUp(t)
    <2>1. current[t] \in Nat /\ Sent(t) \in Nat
      BY <1>1 DEF TunnelTyped, Sent
    <2> QED
      BY <1>2, <2>1 DEF IsUp
  <1>7. PICK m \in {Request(n), Upgrade(n)} :
          /\ wire' = [wire EXCEPT ![t] = Append(@, m)]
          /\ upgraded' = IF m = Upgrade(n) THEN [upgraded EXCEPT ![t] = @ \cup {"client"}] ELSE upgraded
    BY DEF ClientRequests, Request, Upgrade, Sent
  <1>8. m \in Messages
    BY <1>6, MessageTypes
  <1>9. /\ wire'[t] = Append(wire[t], m) /\ ahead'[t] = ahead[t]
        /\ IsUp(t)' <=> m = Upgrade(n)
        /\ "dest" \in upgraded'[t] <=> "dest" \in upgraded[t]
    BY <1>2, <1>6, <1>7 DEF Typed, IsUp
  <1>10. /\ Len(Line(t)) \in Nat
         /\ Len(Line(t)') = Len(Line(t)) + 1
         /\ \A i \in 1 .. Len(Line(t)) : Line(t)'[i] = Line(t)[i]
         /\ Line(t)'[Len(Line(t)) + 1] = m
    BY <1>1, <1>8, <1>9, LineGrows
  <1>11. /\ left \in Nat /\ Len(Line(t)) = left
         /\ \A i \in 1 .. left : Line(t)[i] = Expected(t, current[t] + i)
         /\ pc[t] \notin {"upgrading", "copying"}
         /\ pc[t] \in Setup => current[t] = 0
         /\ pc[t] \in {"requesting", "awaiting", "answering", "upgrading", "copying"} => current[t] >= 1
    BY <1>5, <1>6 DEF Lined
  <1>12. \A i \in 1 .. left + 1 : Line(t)'[i] = Expected(t, current[t] + i)'
    <2> SUFFICES ASSUME NEW i \in 1 .. left + 1 PROVE Line(t)'[i] = Expected(t, current[t] + i)'
      OBVIOUS
    <2>1. CASE i \in 1 .. left
      <3>1. Line(t)'[i] = Request(current[t] + i)
        BY <1>6, <1>10, <1>11, <2>1 DEF Expected
      <3>2. current[t] + i # n
        BY <1>6, <1>11, <2>1
      <3> QED
        BY <1>2, <1>3, <3>1, <3>2 DEF Expected
    <2>2. CASE i = left + 1
      <3>1. Line(t)'[i] = m /\ current[t] + i = n
        BY <1>6, <1>10, <1>11, <2>2
      <3>2. m = IF IsUp(t)' THEN Upgrade(n) ELSE Request(n)
        BY <1>7, <1>9
      <3> QED
        BY <1>2, <1>3, <3>1, <3>2 DEF Expected
    <2> QED
      BY <1>11, <2>1, <2>2
  <1>13. Lined(t)'
    <2>1. /\ Sent(t)' - current'[t] = left + 1 /\ Len(Line(t)') = left + 1
          /\ pc'[t] = pc[t] /\ current'[t] = current[t]
      BY <1>2, <1>3, <1>6, <1>10, <1>11
    <2>2. FramesAfter(Line(t)', left + 1)
      BY <1>11, <2>1 DEF FramesAfter
    <2> QED
      BY <1>11, <1>12, <2>1, <2>2 DEF Lined
  <1>14. Ordered(t) => Ordered(t)'
    BY <1>2, <1>9, <1>11 DEF Ordered, HasAnswers, NoneOnTheWay, Setup
  <1> QED
    BY <1>2, <1>4, <1>5, <1>13, <1>14 DEF InOrder, Matched

LEMMA ClientFrameKeepsOrder ==
  ASSUME IInv, Typed, NEW t \in Tunnels, InOrder(t), ClientFrame(t)
  PROVE  InOrder(t)'
  <1> DEFINE m == Frame(sends[t].frames + 1)
             left == Sent(t) - current[t]
  <1>1. TunnelTyped(t)
    BY TypesOfOne
  <1>2. /\ IsUp(t) /\ pc[t] \notin {"over", "refused"}
        /\ UNCHANGED <<pc, ahead, behind, current, answer, pairs, interim, toDest, answers, got, upgraded>>
    BY DEF ClientFrame, CanSend, proxyVars, turnVars, IsUp
  <1>3. Sent(t)' = Sent(t) /\ m \in Messages /\ m.kind = "frame"
    BY CountLemma, MessageTypes DEF Sent, Frame
  <1>4. ~Over(t) /\ ~Over(t)' /\ interim'[t] = interim[t]
    BY <1>2 DEF Over
  <1>5. Lined(t) /\ (~interim[t] => Matched(t) /\ Ordered(t))
    BY <1>4 DEF InOrder
  <1>6. current[t] \in Nat /\ Sent(t) \in Nat
    BY <1>1 DEF TunnelTyped, Sent
  <1>7. wire'[t] = Append(wire[t], m) /\ ahead'[t] = ahead[t]
    BY <1>2 DEF ClientFrame, Typed
  <1>8. /\ Len(Line(t)) \in Nat
        /\ Len(Line(t)') = Len(Line(t)) + 1
        /\ \A i \in 1 .. Len(Line(t)) : Line(t)'[i] = Line(t)[i]
        /\ Line(t)'[Len(Line(t)) + 1] = m
    BY <1>1, <1>3, <1>7, LineGrows
  <1>9. /\ left \in Nat /\ Len(Line(t)) >= left
        /\ \A i \in 1 .. left : Line(t)[i] = Expected(t, current[t] + i)
        /\ FramesAfter(Line(t), left)
    BY <1>5, <1>6 DEF Lined
  <1>10. \A i \in 1 .. left : Line(t)'[i] = Expected(t, current[t] + i)'
    BY <1>2, <1>3, <1>8, <1>9 DEF Expected, IsUp
  <1>11. FramesAfter(Line(t)', left)
    <2>1. \A i \in 1 .. Len(Line(t)') : i \in 1 .. Len(Line(t)) \/ i = Len(Line(t)) + 1
      BY <1>8
    <2> QED
      BY <1>3, <1>8, <1>9, <2>1 DEF FramesAfter
  <1>12. Lined(t)'
    <2>1. /\ Sent(t)' - current'[t] = left /\ pc'[t] = pc[t] /\ current'[t] = current[t]
          /\ IsUp(t)' /\ Len(Line(t)') >= left
      BY <1>2, <1>3, <1>8, <1>9 DEF IsUp
    <2> QED
      BY <1>2, <1>5, <1>9, <1>10, <1>11, <2>1 DEF Lined
  <1>13. Ordered(t) => Ordered(t)'
    BY <1>2 DEF Ordered, HasAnswers, NoneOnTheWay, Down, Setup
  <1> QED
    BY <1>2, <1>4, <1>5, <1>12, <1>13 DEF InOrder, Matched

\* A step of the destination changes nothing on the client's side.
LEMMA LinedApart ==
  ASSUME NEW t \in Tunnels, Lined(t),
         wire'[t] = wire[t], ahead'[t] = ahead[t], current'[t] = current[t], pc'[t] = pc[t],
         sends'[t].requests = sends[t].requests, IsUp(t)' <=> IsUp(t)
  PROVE  Lined(t)'
  BY DEF Lined, Line, Sent, Expected

LEMMA DestReceivesKeepsOrder ==
  ASSUME IInv, Typed, NEW t \in Tunnels, InOrder(t), DestReceives(t)
  PROVE  InOrder(t)'
  <1> DEFINE m == Head(toDest[t])
             c == current[t]
  <1>1. TunnelTyped(t)
    BY TypesOfOne
  <1>2. /\ toDest[t] # <<>> /\ toDest'[t] = Tail(toDest[t])
        /\ UNCHANGED <<pc, ahead, behind, current, answer, pairs, sends, wire>>
    BY DEF DestReceives, proxyVars, turnVars, Typed
  <1>3. toDest[t] \in Seq(Messages) /\ answers[t] \in Seq(Messages) /\ got[t].client \in Seq(Messages)
        /\ c \in Nat
    BY <1>1 DEF TunnelTyped
  <1>4. m \in Messages /\ m = toDest[t][1] /\ Len(toDest[t]) >= 1 /\ m.n \in Nat
    <2>1. m \in Messages /\ m = toDest[t][1] /\ Len(toDest[t]) >= 1
      BY <1>2, <1>3
    <2> QED
      BY <2>1 DEF Messages
  <1>5. got'[t].client = got[t].client
    BY <1>4, GotLemma DEF DestReceives
  <1>6. /\ m.kind = "frame" => UNCHANGED <<answers, upgraded, interim>>
        /\ m.kind # "frame" =>
             /\ \/ answers'[t] = Append(answers[t], Final(m.n)) /\ UNCHANGED interim
                \/ interim'[t] = TRUE
             /\ upgraded' = IF m.kind = "upgrade" THEN [upgraded EXCEPT ![t] = @ \cup {"dest"}] ELSE upgraded
    BY DEF DestReceives, Typed
  <1>7. ~Over(t)' => Lined(t)'
    <2>1. ~Over(t)' => Lined(t)
      BY <1>2 DEF InOrder, Over
    <2>2. IsUp(t)' <=> IsUp(t)
      BY <1>6 DEF IsUp, Typed
    <2> QED
      BY <1>2, <2>1, <2>2, LinedApart
  <1>8. SUFFICES ASSUME ~interim'[t] PROVE InOrder(t)'
    BY <1>7 DEF InOrder
  <1>9. ~interim[t]
    BY <1>6, <1>8
  <1>10. Matched(t) /\ Matched(t)'
    BY <1>2, <1>9 DEF InOrder, Matched
  <1>11. CASE Over(t)
    BY <1>2, <1>5, <1>9, <1>10, <1>11 DEF InOrder, Over, Answered, Sent
  <1>12. CASE ~Over(t)
    <2>1. ~Over(t)' /\ Lined(t) /\ Ordered(t)
      BY <1>2, <1>9, <1>12 DEF InOrder, Over
    <2>3. Lined(t)'
      BY <1>7, <2>1
    <2>4. pc[t] \in {"awaiting", "copying"} /\ c >= 1 /\ behind'[t] = <<>>
      BY <1>1, <1>2, <1>12, <2>1 DEF Ordered, Lined, NoneOnTheWay, TunnelTyped, Places, Over, Setup
    <2>5. CASE pc[t] = "awaiting"
      <3>1. toDest[t] = <<Request(c)>> /\ answers[t] = <<>> /\ HasAnswers(t, c - 1) /\ "dest" \notin upgraded[t]
        BY <1>2, <2>1, <2>5 DEF Ordered
      <3>2. m.kind = "request" /\ m.n = c /\ toDest'[t] = <<>>
        BY <1>2, <1>4, <3>1 DEF Request
      <3>3. answers'[t] = <<Final(c)>> /\ upgraded' = upgraded
        BY <1>6, <1>8, <3>1, <3>2
      <3>4. HasAnswers(t, c - 1)'
        BY <1>2, <1>5, <3>1 DEF HasAnswers
      <3> QED
        BY <1>2, <1>10, <2>1, <2>3, <2>4, <2>5, <3>1, <3>2, <3>3, <3>4 DEF InOrder, Ordered, Setup
    <2>6. CASE pc[t] = "copying" /\ "dest" \notin upgraded[t]
      <3>1. /\ HasAnswers(t, c - 1) /\ answers[t] = <<>>
            /\ toDest[t][1] = Upgrade(c) /\ FramesAfter(toDest[t], 1)
        BY <2>1, <2>6 DEF Ordered
      <3>2. m.kind = "upgrade" /\ m.n = c
        BY <1>4, <3>1 DEF Upgrade
      <3>3. answers'[t] = <<Final(c)>> /\ "dest" \in upgraded'[t]
        BY <1>6, <1>8, <3>1, <3>2 DEF Typed
      <3>4. FramesAfter(toDest'[t], 0)
        BY <1>2, <1>3, <3>1, FirstRemoved
      <3>5. Down(t)' = Append(got[t].client, Final(c))
        BY <1>3, <1>5, <3>3 DEF Down
      <3>6. Len(Down(t)') = c /\ \A i \in 1 .. c : Down(t)'[i] = Final(i)
        <4>1. Final(c) \in Messages
          BY <1>3, MessageTypes
        <4>2. /\ Len(got[t].client) = c - 1
              /\ Len(Append(got[t].client, Final(c))) = (c - 1) + 1
              /\ \A i \in 1 .. c - 1 : Append(got[t].client, Final(c))[i] = Final(i)
              /\ Append(got[t].client, Final(c))[(c - 1) + 1] = Final(c)
          BY <1>3, <3>1, <4>1, AppendProperties DEF HasAnswers
        <4>3. \A i \in 1 .. c : i \in 1 .. c - 1 \/ i = c
          BY <1>3
        <4> QED
          BY <1>3, <3>5, <4>2, <4>3
      <3> QED
        BY <1>2, <1>10, <2>1, <2>3, <2>4, <2>6, <3>3, <3>4, <3>6 DEF InOrder, Ordered, Setup
    <2>7. CASE pc[t] = "copying" /\ "dest" \in upgraded[t]
      <3>1. /\ FramesAfter(toDest[t], 0) /\ Len(Down(t)) >= c
            /\ \A i \in 1 .. c : Down(t)[i] = Final(i)
        BY <2>1, <2>7 DEF Ordered
      <3>2. m.kind = "frame" /\ FramesAfter(toDest[t], 1)
        BY <1>3, <1>4, <3>1 DEF FramesAfter
      <3>3. FramesAfter(toDest'[t], 0)
        BY <1>2, <1>3, <3>2, FirstRemoved
      <3>4. Down(t)' = Down(t) /\ "dest" \in upgraded'[t]
        BY <1>5, <1>6, <2>7, <3>2 DEF Down
      <3> QED
        BY <1>2, <1>10, <2>1, <2>3, <2>4, <2>7, <3>1, <3>3, <3>4 DEF InOrder, Ordered, Setup
    <2> QED
      BY <2>4, <2>5, <2>6, <2>7
  <1> QED
    BY <1>11, <1>12

LEMMA DestFrameKeepsOrder ==
  ASSUME IInv, Typed, NEW t \in Tunnels, InOrder(t), DestFrame(t)
  PROVE  InOrder(t)'
  <1> DEFINE m == Frame(sends[t].destFrames + 1)
             c == current[t]
  <1>1. TunnelTyped(t)
    BY TypesOfOne
  <1>2. /\ "dest" \in upgraded[t] /\ answers'[t] = Append(answers[t], m)
        /\ UNCHANGED <<pc, ahead, behind, current, answer, pairs, wire, upgraded, interim, toDest, got>>
    BY DEF DestFrame, proxyVars, turnVars, Typed
  <1>3. answers[t] \in Seq(Messages) /\ got[t].client \in Seq(Messages) /\ c \in Nat
    BY <1>1 DEF TunnelTyped
  <1>4. sends'[t].requests = sends[t].requests /\ m \in Messages
    BY CountLemma, MessageTypes
  <1>5. ~Over(t)' => Lined(t)'
    BY <1>2, <1>4, LinedApart DEF InOrder, IsUp, Over
  <1>6. SUFFICES ASSUME ~interim[t] PROVE InOrder(t)'
    BY <1>2, <1>5 DEF InOrder
  <1>7. Matched(t) /\ Matched(t)'
    BY <1>2, <1>6 DEF InOrder, Matched
  <1>8. CASE Over(t)
    BY <1>2, <1>4, <1>6, <1>7, <1>8 DEF InOrder, Over, Answered, Sent
  <1>9. CASE ~Over(t)
    <2>1. ~Over(t)' /\ Lined(t) /\ Ordered(t)
      BY <1>2, <1>6, <1>9 DEF InOrder, Over
    <2>2. Lined(t)'
      BY <1>5, <2>1
    <2>3. pc[t] = "copying"
      BY <1>2, <2>1 DEF Ordered
    <2>4. /\ FramesAfter(toDest[t], 0) /\ Len(Down(t)) >= c
          /\ \A i \in 1 .. c : Down(t)[i] = Final(i)
      BY <1>2, <2>1, <2>3 DEF Ordered
    <2>5. Down(t)' = got[t].client \o Append(answers[t], m) /\ Down(t) = got[t].client \o answers[t]
      BY <1>2 DEF Down
    <2>6. /\ Len(got[t].client \o answers[t]) \in Nat
          /\ Len(got[t].client \o Append(answers[t], m)) = Len(got[t].client \o answers[t]) + 1
          /\ \A i \in 1 .. Len(got[t].client \o answers[t]) :
               (got[t].client \o Append(answers[t], m))[i] = (got[t].client \o answers[t])[i]
      <3>1. /\ answers[t] \in Seq(Messages) /\ got[t].client \in Seq(Messages)
            /\ m \in Messages
        BY <1>3, <1>4
      <3> HIDE DEF m, c
      <3> QED
        BY <3>1, JoinAppended, Zenon
    <2>7. /\ Len(Down(t)) \in Nat /\ Len(Down(t)') = Len(Down(t)) + 1
          /\ \A i \in 1 .. Len(Down(t)) : Down(t)'[i] = Down(t)[i]
      BY <2>5, <2>6, Zenon
    <2>8. Len(Down(t)') >= c /\ \A i \in 1 .. c : Down(t)'[i] = Final(i)
      <3>1. \A i \in 1 .. c : i \in 1 .. Len(Down(t))
        BY <1>3, <2>4, <2>7
      <3> QED
        BY <1>3, <2>4, <2>7, <3>1
    <2>9. Ordered(t)'
      BY <1>2, <2>1, <2>3, <2>4, <2>8 DEF Ordered, Setup
    <2> QED
      BY <1>7, <2>1, <2>2, <2>9 DEF InOrder
  <1> QED
    BY <1>8, <1>9

LEMMA SameOthers ==
  ASSUME IInv, Typed, NEW t \in Tunnels, Connect(t) \/ Turn(t) \/ Copy(t) \/ Peer(t), NEW u \in Tunnels \ {t}
  PROVE  Same(u)
  <1> USE DEF peerVars, streamVars, turnVars, proxyVars, IInv, Shape, Typed, Same
  <1>1. CASE Connect(t)
    BY <1>1 DEF Connect, Dial, Hijack, Establish, LookUp, Make, Store, Goto, setupRest
  <1>2. CASE Turn(t)
    <2>1. CASE ReadRequest(t)
      BY <2>1 DEF ReadRequest
    <2>2. CASE PassRequest(t)
      BY <2>2 DEF PassRequest, Goto
    <2>3. CASE ReadResponse(t)
      BY <2>3 DEF ReadResponse, Goto
    <2>4. CASE PassResponse(t)
      BY <2>4 DEF PassResponse, Goto
    <2>5. CASE PassUpgrade(t)
      BY <2>5 DEF PassUpgrade, Goto
    <2>6. CASE Return(t)
      BY <2>6 DEF Return
    <2> QED
      BY <1>2, <2>1, <2>2, <2>3, <2>4, <2>5, <2>6
      DEF Turn, ReadRequestFails, RequestFails, ReadResponseFails, ResponseFails, UpgradeFails, WaitEnds
  <1>3. CASE Copy(t)
    BY <1>3 DEF Copy, CopyUp, CopyDown, CopyEnds
  <1>4. CASE Peer(t)
    <2>1. CASE ClientRequests(t)
      BY <2>1 DEF ClientRequests
    <2>2. CASE ClientFrame(t)
      BY <2>2 DEF ClientFrame
    <2>3. CASE DestReceives(t)
      <3>1. got' = got \/ \E v : got' = [got EXCEPT ![t].dest = v]
        BY <2>3 DEF DestReceives
      <3>2. got'[u] = got[u]
        BY <3>1
      <3>3. answers' = answers \/ \E v : answers' = [answers EXCEPT ![t] = v]
        BY <2>3 DEF DestReceives
      <3>4. interim'[u] = interim[u] /\ upgraded'[u] = upgraded[u]
        <4>1. interim' = interim \/ interim' = [interim EXCEPT ![t] = TRUE]
          BY <2>3 DEF DestReceives
        <4>2. upgraded' = upgraded \/ upgraded' = [upgraded EXCEPT ![t] = @ \cup {"dest"}]
          BY <2>3 DEF DestReceives
        <4> QED
          BY <4>1, <4>2
      <3>5. answers'[u] = answers[u]
        BY <3>3
      <3> QED
        BY <2>3, <3>2, <3>4, <3>5 DEF DestReceives
    <2>4. CASE DestFrame(t)
      BY <2>4 DEF DestFrame
    <2>5. CASE \E p \in Peers : Leave(t, p)
      BY <2>5 DEF Leave
    <2> QED
      BY <1>4, <2>1, <2>2, <2>3, <2>4, <2>5 DEF Peer
  <1> QED
    BY <1>1, <1>2, <1>3, <1>4

LEMMA ActorKeepsOrder ==
  ASSUME IInv, Typed, NEW t \in Tunnels, InOrder(t), Connect(t) \/ Turn(t) \/ Copy(t) \/ Peer(t)
  PROVE  InOrder(t)'
  <1>1. ASSUME NEW p \in Peers, CopyEnds(t, p) \/ Leave(t, p) PROVE InOrder(t)'
    <2>1. Same(t)
      BY <1>1 DEF CopyEnds, Leave, Same, peerVars, streamVars, turnVars, proxyVars
    <2> QED
      BY <2>1, SameKeepsOrder
  <1> QED
    BY <1>1, ConnectKeepsOrder, TurnKeepsOrder, CopyUpKeepsOrder, CopyDownKeepsOrder,
       ClientRequestsKeepsOrder, ClientFrameKeepsOrder, DestReceivesKeepsOrder, DestFrameKeepsOrder
    DEF Copy, Peer

AllInOrder == \A t \in Tunnels : InOrder(t)

LEMMA InitInOrder == Init => AllInOrder
  <1> SUFFICES ASSUME Init, NEW t \in Tunnels PROVE InOrder(t)
    BY Zenon DEF AllInOrder
  <1>1. /\ pc[t] = "idle" /\ wire[t] = <<>> /\ ahead[t] = <<>> /\ behind[t] = <<>> /\ toDest[t] = <<>>
        /\ answers[t] = <<>> /\ got[t].client = <<>> /\ pairs[t] = {} /\ current[t] = 0
        /\ sends[t].requests = 0 /\ upgraded[t] = {}
    BY DEF Init, Each
  <1>2. Line(t) = <<>>
    BY <1>1 DEF Line
  <1>3. Lined(t)
    <2> HIDE DEF Line
    <2> QED
      BY <1>1, <1>2 DEF Lined, Sent, IsUp, FramesAfter, Setup
  <1>4. Ordered(t)
    BY <1>1 DEF Ordered, NoneOnTheWay, HasAnswers, Setup
  <1> QED
    BY <1>1, <1>3, <1>4 DEF InOrder, Matched, Over

LEMMA StepInOrder == IInv /\ Typed /\ AllInOrder /\ [Next]_vars => AllInOrder'
  <1> SUFFICES ASSUME IInv, Typed, AllInOrder, [Next]_vars, NEW u \in Tunnels PROVE InOrder(u)'
    BY DEF AllInOrder
  <1>1. InOrder(u)
    BY DEF AllInOrder
  <1>2. CASE UNCHANGED vars
    <2>1. Same(u)
      BY <1>2 DEF vars, Same
    <2> QED
      BY <1>1, <2>1, SameKeepsOrder
  <1>3. ASSUME NEW t \in Tunnels, Connect(t) \/ Turn(t) \/ Copy(t) \/ Peer(t) PROVE InOrder(u)'
    <2>1. CASE u = t
      BY <1>1, <1>3, <2>1, ActorKeepsOrder
    <2>2. CASE u # t
      BY <1>1, <1>3, <2>2, SameOthers, SameKeepsOrder
    <2> QED
      BY <2>1, <2>2
  <1> QED
    BY <1>2, <1>3 DEF Next, Finished

LEMMA OrderInvariant == Spec => []AllInOrder
  <1>1. Spec => [](IInv /\ Typed)
    BY Invariant, TypedInvariant, PTL
  <1> QED
    BY <1>1, InitInOrder, StepInOrder, PTL DEF Spec

\* Without interim responses every response is taken for the answer to its own request, and
\* the client receives the answers in the order of its requests, also when it sends further
\* requests without waiting for them and whenever the two connections break: one request is
\* on its way at a time, and what has been received ahead of its turn keeps its place.
THEOREM AnswersAreInOrder == Spec => []AnswersInOrder
  <1>1. IInv /\ Typed /\ AllInOrder => AnswersInOrder
    <2> SUFFICES ASSUME IInv, Typed, AllInOrder, NEW t \in Tunnels, ~interim[t]
                 PROVE  Matched(t) /\ Answered(t)
      BY DEF AnswersInOrder, Matched, Answered, Sent
    <2> QED
      BY TypesOfOne, OrderedIsAnswered DEF AllInOrder, InOrder
  <1> QED
    BY Invariant, TypedInvariant, OrderInvariant, <1>1, PTL

-----------------------------------------------------------------------------
(***************************************************************************)
(* Frames: what the streams hold, and in which order.                      *)
(***************************************************************************)

Elements(q) == {q[i] : i \in 1 .. Len(q)}
FramesOnly(S) == \A m \in S : m.kind = "frame"
NoFrames(S) == \A m \in S : m.kind # "frame"

LEMMA AppendedElements ==
  ASSUME NEW q \in Seq(Messages), NEW e \in Messages
  PROVE  Elements(Append(q, e)) = Elements(q) \cup {e}
  <1>1. /\ Len(q) \in Nat /\ Len(Append(q, e)) = Len(q) + 1
        /\ \A i \in 1 .. Len(q) : Append(q, e)[i] = q[i]
        /\ Append(q, e)[Len(q) + 1] = e
    BY AppendProperties
  <1>2. \A i \in 1 .. Len(q) + 1 : i \in 1 .. Len(q) \/ i = Len(q) + 1
    BY <1>1
  <1>3. \A i \in 1 .. Len(q) : i \in 1 .. Len(q) + 1
    BY <1>1
  <1>4. Len(q) + 1 \in 1 .. Len(q) + 1
    BY <1>1
  <1> DEFINE p == Append(q, e)
  <1>5. /\ Len(p) = Len(q) + 1 /\ p[Len(q) + 1] = e /\ \A i \in 1 .. Len(q) : p[i] = q[i]
    BY <1>1
  <1> HIDE DEF p
  <1>6. Elements(p) = Elements(q) \cup {e}
    BY <1>2, <1>3, <1>4, <1>5 DEF Elements
  <1> QED
    BY <1>6 DEF p

LEMMA RemovedElements ==
  ASSUME NEW q \in Seq(Messages), q # <<>>
  PROVE  /\ Head(q) \in Elements(q) /\ Head(q) = q[1] /\ Head(q) \in Messages
         /\ Tail(q) \in Seq(Messages) /\ Len(Tail(q)) = Len(q) - 1 /\ Len(q) \in Nat /\ Len(q) >= 1
         /\ \A i \in 1 .. Len(q) - 1 : Tail(q)[i] = q[i + 1]
         /\ Elements(Tail(q)) \subseteq Elements(q)
  <1>1. /\ Head(q) = q[1] /\ Head(q) \in Messages /\ Len(q) \in Nat /\ Len(q) >= 1
        /\ Tail(q) \in Seq(Messages) /\ Len(Tail(q)) = Len(q) - 1
        /\ \A i \in 1 .. Len(q) - 1 : Tail(q)[i] = q[i + 1]
    OBVIOUS
  <1>2. Head(q) \in Elements(q)
    <2>1. 1 \in 1 .. Len(q)
      BY <1>1
    <2> QED
      BY <1>1, <2>1 DEF Elements
  <1>3. Elements(Tail(q)) \subseteq Elements(q)
    <2>1. \A i \in 1 .. Len(q) - 1 : i + 1 \in 1 .. Len(q)
      BY <1>1
    <2> QED
      BY <1>1, <2>1 DEF Elements
  <1> QED
    BY <1>1, <1>2, <1>3

LEMMA JoinedElements ==
  ASSUME NEW a \in Seq(Messages), NEW b \in Seq(Messages)
  PROVE  Elements(a \o b) = Elements(a) \cup Elements(b)
  <1> DEFINE q == a \o b
  <1>1. /\ Len(a) \in Nat /\ Len(b) \in Nat /\ Len(q) = Len(a) + Len(b)
        /\ \A i \in 1 .. Len(a) : q[i] = a[i]
        /\ \A i \in 1 .. Len(b) : q[Len(a) + i] = b[i]
    BY JoinLemma
  <1> HIDE DEF q
  <1>2. Elements(q) \subseteq Elements(a) \cup Elements(b)
    <2> SUFFICES ASSUME NEW i \in 1 .. Len(q) PROVE q[i] \in Elements(a) \cup Elements(b)
      BY DEF Elements
    <2>1. CASE i \in 1 .. Len(a)
      BY <1>1, <2>1 DEF Elements
    <2>2. CASE i \notin 1 .. Len(a)
      <3>1. i - Len(a) \in 1 .. Len(b) /\ Len(a) + (i - Len(a)) = i
        BY <1>1, <2>2
      <3>2. q[i] = b[i - Len(a)]
        BY <1>1, <3>1
      <3> QED
        BY <3>1, <3>2 DEF Elements
    <2> QED
      BY <2>1, <2>2
  <1>3. Elements(a) \cup Elements(b) \subseteq Elements(q)
    <2>1. \A i \in 1 .. Len(a) : i \in 1 .. Len(q)
      BY <1>1
    <2>2. \A i \in 1 .. Len(b) : Len(a) + i \in 1 .. Len(q)
      BY <1>1
    <2> QED
      BY <1>1, <2>1, <2>2 DEF Elements
  <1> QED
    BY <1>2, <1>3 DEF q

\* A reader returns, keeps and leaves nothing that was not there.
LEMMA TakenElements ==
  ASSUME NEW b \in Seq(Messages), NEW u \in Seq(Messages), NEW r \in Taken(b, u)
  PROVE  /\ r.m \in Messages /\ r.buffered \in Seq(Messages) /\ r.unread \in Seq(Messages)
         /\ r.m \in Elements(b) \cup Elements(u)
         /\ Elements(r.buffered) \subseteq Elements(b) \cup Elements(u)
         /\ Elements(r.unread) \subseteq Elements(u)
  <1> DEFINE q == b \o u
             p == r.buffered \o r.unread
  <1>1. /\ r.m \in Messages /\ r.buffered \in Seq(Messages) /\ r.unread \in Seq(Messages)
        /\ Len(q) = 1 + Len(p) /\ r.m = q[1] /\ \A i \in 1 .. Len(p) : p[i] = q[i + 1]
    <2> HIDE DEF Taken
    <2> QED
      BY TakenLemma, Zenon
  <1>2. Elements(q) = Elements(b) \cup Elements(u)
    BY JoinedElements
  <1>3. Elements(p) = Elements(r.buffered) \cup Elements(r.unread) /\ Len(p) \in Nat
    BY <1>1, JoinedElements, JoinLemma
  <1> HIDE DEF p, q
  <1>4. r.m \in Elements(q) /\ Elements(p) \subseteq Elements(q)
    <2>1. 1 \in 1 .. Len(q) /\ \A i \in 1 .. Len(p) : i + 1 \in 1 .. Len(q)
      BY <1>1, <1>3
    <2> QED
      BY <1>1, <2>1 DEF Elements
  <1>5. Elements(r.unread) \subseteq Elements(u)
    <2>1. CASE r.unread = u
      BY <2>1
    <2>2. CASE \E k \in 1 .. Len(u) : r.unread = SubSeq(u, k + 1, Len(u))
      <3>1. PICK k \in 1 .. Len(u) : r.unread = SubSeq(u, k + 1, Len(u))
        BY <2>2
      <3>2. Len(u) \in Nat /\ k \in Nat /\ \A i \in 1 .. Len(u) : u[i] \in Messages
        OBVIOUS
      <3> DEFINE v == SubSeq(u, k + 1, Len(u))
      <3>3. \A i \in k + 1 .. Len(u) : u[i] \in Messages
        BY <3>2
      <3>4. /\ Len(v) = IF k + 1 <= Len(u) THEN Len(u) - (k + 1) + 1 ELSE 0
            /\ \A i \in 1 .. Len(u) - (k + 1) + 1 : v[i] = u[(k + 1) + i - 1]
        BY <3>2, <3>3, SubSeqProperties
      <3> HIDE DEF v
      <3>5. \A i \in 1 .. Len(v) : (k + 1) + i - 1 \in 1 .. Len(u) /\ v[i] = u[(k + 1) + i - 1]
        BY <3>2, <3>4
      <3>6. Elements(v) \subseteq Elements(u)
        BY <3>5 DEF Elements
      <3> QED
        BY <3>1, <3>6 DEF v
    <2>3. r.unread = u \/ \E k \in 1 .. Len(u) : r.unread = SubSeq(u, k + 1, Len(u))
      <3>1. CASE b # <<>>
        BY <3>1 DEF Taken
      <3>2. CASE b = <<>>
        <4>1. PICK k \in 1 .. Len(u) : r = [m |-> Head(u), buffered |-> SubSeq(u, 2, k),
                                           unread |-> SubSeq(u, k + 1, Len(u))]
          BY <3>2, Zenon DEF Taken
        <4>2. r.unread = SubSeq(u, k + 1, Len(u))
          BY <4>1
        <4> QED
          BY <4>2
      <3> QED
        BY <3>1, <3>2
    <2> QED
      BY <2>1, <2>2, <2>3
  <1> QED
    BY <1>1, <1>2, <1>3, <1>4, <1>5

-----------------------------------------------------------------------------
(***************************************************************************)
(* Frames: streams that end with the frames 1 to n.                        *)
(***************************************************************************)

LEMMA NoFramesLast ==
  ASSUME NEW q \in Seq(Messages)
  PROVE  FramesLast(q, 0) <=> NoFrames(Elements(q))
  <1>1. Len(q) \in Nat /\ \A i \in 1 .. Len(q) : i + 0 <= Len(q)
    OBVIOUS
  <1> QED
    BY <1>1 DEF FramesLast, NoFrames, Elements

LEMMA NextFrame ==
  ASSUME NEW q \in Seq(Messages), NEW n \in Nat, FramesLast(q, n)
  PROVE  FramesLast(Append(q, Frame(n + 1)), n + 1)
  <1> DEFINE e == Frame(n + 1)
             p == Append(q, e)
  <1>1. e \in Messages
    BY MessageTypes
  <1>2. /\ Len(q) \in Nat /\ Len(p) = Len(q) + 1
        /\ \A i \in 1 .. Len(q) : p[i] = q[i]
        /\ p[Len(q) + 1] = e
    BY <1>1, AppendProperties
  <1> HIDE DEF p
  <1>3. n + 1 <= Len(p)
    BY <1>2 DEF FramesLast
  <1>4. ASSUME NEW i \in 1 .. Len(p)
        PROVE  IF i + (n + 1) <= Len(p) THEN p[i].kind # "frame" ELSE p[i] = Frame(i + (n + 1) - Len(p))
    <2>1. CASE i \in 1 .. Len(q)
      <3>1. /\ i + (n + 1) <= Len(p) <=> i + n <= Len(q)
            /\ i + (n + 1) - Len(p) = i + n - Len(q)
        BY <1>2, <2>1
      <3>2. IF i + n <= Len(q) THEN q[i].kind # "frame" ELSE q[i] = Frame(i + n - Len(q))
        BY <2>1 DEF FramesLast
      <3> QED
        BY <1>2, <2>1, <3>1, <3>2
    <2>2. CASE i \notin 1 .. Len(q)
      <3>1. i = Len(q) + 1 /\ ~(i + (n + 1) <= Len(p)) /\ i + (n + 1) - Len(p) = n + 1
        BY <1>2, <2>2
      <3> QED
        BY <1>2, <3>1
    <2> QED
      BY <2>1, <2>2
  <1>5. FramesLast(p, n + 1)
    BY <1>3, <1>4 DEF FramesLast
  <1> QED
    BY <1>5 DEF p

LEMMA FirstOfLast ==
  ASSUME NEW q \in Seq(Messages), NEW n \in Nat, q # <<>>, Head(q).kind # "frame", FramesLast(q, n)
  PROVE  FramesLast(Tail(q), n)
  <1> DEFINE p == Tail(q)
  <1>1. /\ Head(q) = q[1] /\ Len(q) \in Nat /\ Len(q) >= 1 /\ Len(p) = Len(q) - 1
        /\ \A i \in 1 .. Len(q) - 1 : p[i] = q[i + 1]
    BY RemovedElements
  <1> HIDE DEF p
  <1>2. 1 + n <= Len(q)
    <2>1. 1 \in 1 .. Len(q) /\ (IF 1 + n <= Len(q) THEN q[1].kind # "frame" ELSE q[1] = Frame(1 + n - Len(q)))
      BY <1>1 DEF FramesLast
    <2> QED
      BY <1>1, <2>1 DEF Frame
  <1>3. ASSUME NEW i \in 1 .. Len(p)
        PROVE  IF i + n <= Len(p) THEN p[i].kind # "frame" ELSE p[i] = Frame(i + n - Len(p))
    <2>1. /\ i + 1 \in 1 .. Len(q) /\ p[i] = q[i + 1]
          /\ i + n <= Len(p) <=> (i + 1) + n <= Len(q)
          /\ i + n - Len(p) = (i + 1) + n - Len(q)
      BY <1>1
    <2>2. IF (i + 1) + n <= Len(q) THEN q[i + 1].kind # "frame" ELSE q[i + 1] = Frame((i + 1) + n - Len(q))
      BY <2>1 DEF FramesLast
    <2> QED
      BY <2>1, <2>2
  <1>4. n <= Len(p)
    BY <1>1, <1>2
  <1>5. FramesLast(p, n)
    BY <1>3, <1>4 DEF FramesLast
  <1> QED
    BY <1>5 DEF p

\* No frame is in front of what is not one.
LEMMA NothingBefore ==
  ASSUME NEW a \in Seq(Messages), NEW b \in Seq(Messages), NEW n \in Nat,
         FramesOnly(Elements(a)), b # <<>>, Head(b).kind # "frame", FramesLast(a \o b, n)
  PROVE  a = <<>>
  <1> DEFINE q == a \o b
             k == Len(a)
  <1>1. /\ k \in Nat /\ Len(b) \in Nat /\ Len(q) = k + Len(b)
        /\ \A i \in 1 .. k : q[i] = a[i]
        /\ \A i \in 1 .. Len(b) : q[k + i] = b[i]
    BY JoinLemma
  <1>2. Head(b) = b[1] /\ Len(b) >= 1
    BY RemovedElements
  <1>3. FramesLast(q, n)
    OBVIOUS
  <1> HIDE DEF q
  <1>4. SUFFICES ASSUME k >= 1 PROVE FALSE
    BY <1>1
  <1>5. /\ k \in 1 .. Len(q) /\ k + 1 \in 1 .. Len(q) /\ 1 \in 1 .. Len(b)
        /\ k \in 1 .. k
    BY <1>1, <1>2, <1>4
  <1>6. q[k].kind = "frame"
    BY <1>1, <1>5 DEF FramesOnly, Elements
  <1>7. q[k + 1].kind # "frame"
    BY <1>1, <1>2, <1>5
  <1>8. (k + 1) + n <= Len(q)
    <2>1. IF (k + 1) + n <= Len(q) THEN TRUE ELSE q[k + 1] = Frame((k + 1) + n - Len(q))
      BY <1>3, <1>5 DEF FramesLast
    <2> QED
      BY <1>7, <2>1 DEF Frame
  <1>9. k + n <= Len(q)
    BY <1>1, <1>8
  <1> QED
    BY <1>3, <1>5, <1>6, <1>9 DEF FramesLast

LEMMA TailOfJoined ==
  ASSUME NEW a \in Seq(Messages), NEW b \in Seq(Messages), a # <<>>
  PROVE  a \o b # <<>> /\ Head(a \o b) = Head(a) /\ Tail(a \o b) = Tail(a) \o b
  <1> DEFINE q == a \o b
             p == Tail(a) \o b
  <1>1. /\ Head(a) = a[1] /\ Len(a) \in Nat /\ Len(a) >= 1 /\ Tail(a) \in Seq(Messages)
        /\ Len(Tail(a)) = Len(a) - 1
        /\ \A i \in 1 .. Len(a) - 1 : Tail(a)[i] = a[i + 1]
    BY RemovedElements
  <1>2. /\ Len(b) \in Nat /\ q \in Seq(Messages) /\ Len(q) = Len(a) + Len(b)
        /\ \A i \in 1 .. Len(a) : q[i] = a[i]
        /\ \A i \in 1 .. Len(b) : q[Len(a) + i] = b[i]
    BY JoinLemma
  <1>3. /\ p \in Seq(Messages) /\ Len(p) = Len(Tail(a)) + Len(b)
        /\ \A i \in 1 .. Len(Tail(a)) : p[i] = Tail(a)[i]
        /\ \A i \in 1 .. Len(b) : p[Len(Tail(a)) + i] = b[i]
    BY <1>1, JoinLemma
  <1> HIDE DEF p, q
  <1>4. q # <<>>
    BY <1>1, <1>2
  <1>5. /\ Head(q) = q[1] /\ Tail(q) \in Seq(Messages) /\ Len(Tail(q)) = Len(q) - 1
        /\ \A i \in 1 .. Len(q) - 1 : Tail(q)[i] = q[i + 1]
    BY <1>2, <1>4, RemovedElements
  <1>6. Head(q) = Head(a)
    BY <1>1, <1>2, <1>5
  <1>7. Len(p) = Len(q) - 1
    BY <1>1, <1>2, <1>3
  <1>8. ASSUME NEW i \in 1 .. Len(q) - 1 PROVE Tail(q)[i] = p[i]
    <2>1. CASE i \in 1 .. Len(a) - 1
      <3>1. i + 1 \in 1 .. Len(a) /\ i \in 1 .. Len(Tail(a))
        BY <1>1, <2>1
      <3> QED
        BY <1>1, <1>2, <1>3, <1>5, <2>1, <3>1
    <2>2. CASE i \notin 1 .. Len(a) - 1
      <3> DEFINE j == i - (Len(a) - 1)
      <3>1. j \in 1 .. Len(b) /\ Len(Tail(a)) + j = i /\ Len(a) + j = i + 1
        BY <1>1, <1>2, <2>2
      <3>2. q[i + 1] = b[j] /\ p[i] = b[j]
        BY <1>2, <1>3, <3>1
      <3> QED
        BY <1>5, <3>2
    <2> QED
      BY <2>1, <2>2
  <1>9. Tail(q) = p
    BY <1>3, <1>5, <1>7, <1>8, SeqEqual
  <1> QED
    BY <1>4, <1>6, <1>9 DEF p, q

-----------------------------------------------------------------------------
(***************************************************************************)
(* Frames: the invariant.                                                  *)
(***************************************************************************)

\* The places a tunnel is in once its handshake has been passed on.
Working == {"copying", "over"}

\* What has been sent towards the client or the destination and was not consumed there.
Held(t) == Elements(got[t].client) \cup Elements(answers[t]) \cup Elements(behind[t])
             \cup Elements(toDest[t]) \cup {answer[t]}

\* No answer runs ahead of the request that is dealt with, and while that one has not been
\* sent on, there is none to it.
Numbered(t) ==
  \A m \in Held(t) : m.kind \notin {"frame", "none"} =>
     m.n <= current[t] /\ (pc[t] \in {"requesting", "upgrading"} => m.n < current[t])

\* On the way to the destination only frames follow a handshake or a frame.
HandshakeLast(q) == \A i, j \in 1 .. Len(q) : i < j /\ q[i].kind # "request" => q[j].kind = "frame"

Handshake(t) ==
  /\ HandshakeLast(toDest[t])
  /\ pc[t] \notin Working => \A m \in Elements(toDest[t]) : m.kind = "request"
  /\ "dest" \in upgraded[t] => pc[t] \in Working /\ FramesOnly(Elements(toDest[t]))

\* The destination's frames come last, and none before its handshake.
DownFramed(t) ==
  /\ "dest" \notin upgraded[t] =>
       sends[t].destFrames = 0 /\ NoFrames(Elements(behind[t])) /\ answer[t].kind # "frame"
  /\ FramesLast(Down(t), sends[t].destFrames)

\* So do those of a client that waits for the answer to its handshake.
Up(t) == Received(t) \o toDest[t] \o wire[t]
UpFramed(t) ==
  /\ ~IsUp(t) => sends[t].frames = 0
  /\ ~eager[t] => /\ FramesLast(Up(t), sends[t].frames)
                  /\ pc[t] \notin Working => sends[t].frames = 0

Framed(t) == Numbered(t) /\ Handshake(t) /\ DownFramed(t) /\ UpFramed(t)

\* What the types say of one tunnel's streams.
StreamsTyped(t) ==
  /\ wire[t] \in Seq(Messages) /\ ahead[t] \in Seq(Messages) /\ behind[t] \in Seq(Messages)
  /\ toDest[t] \in Seq(Messages) /\ answers[t] \in Seq(Messages)
  /\ got[t].client \in Seq(Messages) /\ got[t].dest \in Seq(Nat)
  /\ answer[t] \in Messages \cup {NoAnswer}
  /\ current[t] \in Nat /\ sends[t].requests \in Nat
  /\ sends[t].frames \in Nat /\ sends[t].destFrames \in Nat
  /\ pc[t] \in Places

LEMMA StreamTypes ==
  ASSUME IInv, Typed, NEW t \in Tunnels
  PROVE  StreamsTyped(t)
  <1>1. got[t] \in [client : Seq(Messages), dest : Seq(Nat)] /\ sends[t] \in Counts /\ MaxFrames \in Nat
    BY TunnelAssumption DEF Typed
  <1> QED
    BY <1>1 DEF IInv, Shape, Typed, StreamsTyped, Counts

LEMMA ReceivedTypes ==
  ASSUME NEW t \in Tunnels, got[t].dest \in Seq(Nat)
  PROVE  /\ Received(t) \in Seq(Messages)
         /\ FramesOnly(Elements(Received(t)))
  <1> DEFINE d == got[t].dest
             q == Received(t)
  <1>1. Len(d) \in Nat /\ DOMAIN d = 1 .. Len(d) /\ \A i \in 1 .. Len(d) : d[i] \in Nat
    OBVIOUS
  <1>2. q = [i \in 1 .. Len(d) |-> Frame(d[i])]
    BY <1>1 DEF Received
  <1>3. \A i \in 1 .. Len(d) : Frame(d[i]) \in Messages
    BY <1>1, MessageTypes
  <1> DEFINE k == Len(d)
             f == [i \in 1 .. k |-> Frame(d[i])]
  <1>4. k \in Nat /\ f \in [1 .. k -> Messages]
    BY <1>1, <1>3
  <1>5. f \in Seq(Messages)
    <2> HIDE DEF f, k
    <2> QED
      BY <1>4
  <1>6. q \in Seq(Messages) /\ Len(q) = Len(d)
    BY <1>1, <1>2, <1>5
  <1>7. \A i \in 1 .. Len(d) : q[i].kind = "frame"
    BY <1>2 DEF Frame
  <1> HIDE DEF q
  <1> QED
    BY <1>6, <1>7 DEF FramesOnly, Elements, q

LEMMA ThreeJoined ==
  ASSUME NEW a \in Seq(Messages), NEW b \in Seq(Messages), NEW c \in Seq(Messages)
  PROVE  /\ a \o b \o c \in Seq(Messages) /\ a \o b \in Seq(Messages)
         /\ Elements(a \o b \o c) = Elements(a) \cup Elements(b) \cup Elements(c)
  <1> DEFINE p == a \o b
  <1>1. p \in Seq(Messages) /\ Elements(p) = Elements(a) \cup Elements(b)
    BY JoinLemma, JoinedElements, Zenon
  <1> HIDE DEF p
  <1>2. p \o c \in Seq(Messages) /\ Elements(p \o c) = Elements(p) \cup Elements(c)
    BY <1>1, JoinLemma, JoinedElements, Zenon
  <1>3. p \o c \in Seq(Messages) /\ p \in Seq(Messages)
        /\ Elements(p \o c) = Elements(a) \cup Elements(b) \cup Elements(c)
    BY <1>1, <1>2, Zenon
  <1> QED
    BY <1>3 DEF p

LEMMA UpTypes ==
  ASSUME NEW t \in Tunnels, StreamsTyped(t)
  PROVE  /\ Up(t) \in Seq(Messages)
         /\ Received(t) \o toDest[t] \in Seq(Messages)
         /\ Elements(Up(t)) = Elements(Received(t)) \cup Elements(toDest[t]) \cup Elements(wire[t])
  <1>1. Received(t) \in Seq(Messages) /\ toDest[t] \in Seq(Messages) /\ wire[t] \in Seq(Messages)
    BY ReceivedTypes DEF StreamsTyped
  <1> DEFINE a == Received(t)
             b == toDest[t]
             c == wire[t]
  <1>2. a \in Seq(Messages) /\ b \in Seq(Messages) /\ c \in Seq(Messages) /\ Up(t) = a \o b \o c
    BY <1>1 DEF Up
  <1> HIDE DEF a, b, c
  <1>3. /\ a \o b \o c \in Seq(Messages) /\ a \o b \in Seq(Messages)
        /\ Elements(a \o b \o c) = Elements(a) \cup Elements(b) \cup Elements(c)
    BY <1>2, ThreeJoined
  <1>4. /\ Up(t) \in Seq(Messages) /\ a \o b \in Seq(Messages)
        /\ Elements(Up(t)) = Elements(a) \cup Elements(b) \cup Elements(c)
    BY <1>2, <1>3, Zenon
  <1> QED
    BY <1>4 DEF a, b, c

\* A step of the client's side, before any frame was sent.
LEMMA StillNone ==
  ASSUME NEW t \in Tunnels, StreamsTyped(t), StreamsTyped(t)',
         FramesLast(Up(t), 0), Received(t)' = Received(t),
         NoFrames(Elements(Up(t))) =>
           NoFrames(Elements(toDest'[t])) /\ NoFrames(Elements(wire'[t]))
  PROVE  FramesLast(Up(t)', 0)
  <1>1. Up(t) \in Seq(Messages) /\ Elements(Received(t)) \subseteq Elements(Up(t))
    BY UpTypes
  <1>2. NoFrames(Elements(Up(t)))
    BY <1>1, NoFramesLast
  <1>3. PICK a, b, c \in Seq(Messages) :
          /\ a = Received(t) /\ b = toDest'[t] /\ c = wire'[t]
          /\ Up(t)' = a \o b \o c
    BY ReceivedTypes DEF StreamsTyped, Up
  <1> HIDE DEF Up
  <1>4. /\ a \o b \o c \in Seq(Messages)
        /\ Elements(a \o b \o c) = Elements(a) \cup Elements(b) \cup Elements(c)
    BY ThreeJoined
  <1>5. /\ Up(t)' \in Seq(Messages)
        /\ Elements(Up(t)') = Elements(Received(t)) \cup Elements(toDest'[t]) \cup Elements(wire'[t])
    BY <1>3, <1>4, Zenon
  <1>6. NoFrames(Elements(Up(t)'))
    BY <1>1, <1>2, <1>5 DEF NoFrames
  <1> QED
    BY <1>5, <1>6, NoFramesLast

LEMMA DownTypes ==
  ASSUME NEW t \in Tunnels, StreamsTyped(t)
  PROVE  /\ Down(t) \in Seq(Messages)
         /\ Elements(Down(t)) = Elements(got[t].client) \cup Elements(answers[t])
  BY JoinLemma, JoinedElements DEF Down, StreamsTyped

\* A step of the answers' side, before any frame was sent.
LEMMA StillNoneDown ==
  ASSUME NEW t \in Tunnels, StreamsTyped(t), StreamsTyped(t)',
         FramesLast(Down(t), 0),
         NoFrames(Elements(Down(t))) =>
           NoFrames(Elements(got'[t].client)) /\ NoFrames(Elements(answers'[t]))
  PROVE  FramesLast(Down(t)', 0)
  <1>1. Down(t) \in Seq(Messages)
    BY DownTypes
  <1>2. NoFrames(Elements(Down(t)))
    BY <1>1, NoFramesLast
  <1>3. /\ Down(t)' \in Seq(Messages)
        /\ Elements(Down(t)') = Elements(got'[t].client) \cup Elements(answers'[t])
    <2>1. got'[t].client \in Seq(Messages) /\ answers'[t] \in Seq(Messages)
      BY DEF StreamsTyped
    <2>2. Down(t)' = got'[t].client \o answers'[t]
      BY DEF Down
    <2> QED
      BY <2>1, <2>2, JoinLemma, JoinedElements
  <1>4. NoFrames(Elements(Down(t)'))
    BY <1>2, <1>3 DEF NoFrames
  <1> QED
    BY <1>3, <1>4, NoFramesLast

-----------------------------------------------------------------------------
(***************************************************************************)
(* Frames: the loop.                                                       *)
(***************************************************************************)

\* What Framed is about, apart from the place.
SameStreams(t) ==
  /\ wire'[t] = wire[t] /\ behind'[t] = behind[t] /\ current'[t] = current[t] /\ toDest'[t] = toDest[t]
  /\ answers'[t] = answers[t] /\ answer'[t] = answer[t] /\ got'[t] = got[t] /\ sends'[t] = sends[t]
  /\ upgraded'[t] = upgraded[t] /\ eager'[t] = eager[t]

\* A step that changes no stream and does not take up a request.
LEMMA QuietKeepsFrames ==
  ASSUME NEW t \in Tunnels, Framed(t), SameStreams(t),
         pc[t] \in Working => pc'[t] \in Working,
         pc'[t] \in {"requesting", "upgrading"} => pc'[t] = pc[t]
  PROVE  Framed(t)'
  <1> USE DEF SameStreams
  <1>1. Numbered(t)'
    <2>1. Held(t)' = Held(t)
      BY DEF Held
    <2> QED
      BY <2>1 DEF Framed, Numbered
  <1>2. Handshake(t)'
    BY DEF Framed, Handshake
  <1>3. DownFramed(t)'
    <2>1. Down(t)' = Down(t)
      BY DEF Down
    <2> HIDE DEF Down
    <2> QED
      BY <2>1 DEF Framed, DownFramed
  <1>4. UpFramed(t)'
    <2>1. Up(t)' = Up(t)
      BY DEF Up, Received
    <2> HIDE DEF Up
    <2> QED
      BY <2>1 DEF Framed, UpFramed, IsUp
  <1> QED
    BY <1>1, <1>2, <1>3, <1>4 DEF Framed

\* What is behind and before a step whose effect on the streams is elsewhere.
LEMMA UpApart ==
  ASSUME NEW t \in Tunnels, UpFramed(t), Received(t)' = Received(t),
         wire'[t] = wire[t], toDest'[t] = toDest[t], sends'[t].frames = sends[t].frames,
         IsUp(t)' <=> IsUp(t), eager'[t] = eager[t], pc[t] \in Working => pc'[t] \in Working
  PROVE  UpFramed(t)'
  <1>1. Up(t)' = Up(t)
    BY DEF Up
  <1> HIDE DEF Up
  <1> QED
    BY <1>1 DEF UpFramed

LEMMA DownApart ==
  ASSUME NEW t \in Tunnels, DownFramed(t), behind'[t] = behind[t], answer'[t] = answer[t],
         answers'[t] = answers[t], got'[t].client = got[t].client,
         sends'[t].destFrames = sends[t].destFrames,
         "dest" \in upgraded[t] => "dest" \in upgraded'[t]
  PROVE  DownFramed(t)'
  <1>1. Down(t)' = Down(t)
    BY DEF Down
  <1> HIDE DEF Down
  <1> QED
    BY <1>1 DEF DownFramed

LEMMA HandshakeApart ==
  ASSUME NEW t \in Tunnels, Handshake(t), toDest'[t] = toDest[t],
         "dest" \in upgraded'[t] <=> "dest" \in upgraded[t], pc[t] \in Working => pc'[t] \in Working
  PROVE  Handshake(t)'
  BY DEF Handshake

LEMMA ReadRequestKeepsFrames ==
  ASSUME IInv, Typed, NEW t \in Tunnels, StreamsTyped(t)', Lined(t), Framed(t), ReadRequest(t)
  PROVE  Framed(t)'
  <1>1. StreamsTyped(t)
    BY StreamTypes
  <1>2. /\ pc[t] = "reading" /\ pc'[t] \in {"upgrading", "requesting"}
        /\ UNCHANGED <<peerVars, behind, toDest, answers, got, answer>>
    BY DEF ReadRequest, IInv, Shape
  <1>3. current[t] \in Nat /\ current'[t] = current[t] + 1
    BY NextRequest
  <1>4. Elements(wire'[t]) \subseteq Elements(wire[t])
    <2>1. PICK r \in Taken(ahead[t], wire[t]) : wire' = [wire EXCEPT ![t] = r.unread]
      BY DEF ReadRequest
    <2>2. wire'[t] = r.unread
      BY <2>1 DEF Typed
    <2>3. ahead[t] \in Seq(Messages) /\ wire[t] \in Seq(Messages)
      BY <1>1 DEF StreamsTyped
    <2>4. Elements(r.unread) \subseteq Elements(wire[t])
      BY <2>3, TakenElements
    <2> QED
      BY <2>2, <2>4
  <1>5. Numbered(t)'
    <2>1. Held(t)' = Held(t)
      BY <1>2 DEF Held
    <2>2. ASSUME NEW m \in Held(t), m.kind \notin {"frame", "none"}
          PROVE  m.n <= current'[t] /\ m.n < current'[t]
      <3>1. m \in Messages \cup {NoAnswer}
        <4>1. /\ got[t].client \in Seq(Messages) /\ answers[t] \in Seq(Messages)
              /\ behind[t] \in Seq(Messages) /\ toDest[t] \in Seq(Messages)
          BY <1>1 DEF StreamsTyped
        <4>2. \A q \in Seq(Messages) : Elements(q) \subseteq Messages
          BY DEF Elements
        <4> QED
          BY <1>1, <4>1, <4>2 DEF Held, StreamsTyped
      <3>2. m.n \in Nat
        BY <3>1 DEF Messages, NoAnswer
      <3>3. m.n <= current[t]
        BY <2>2 DEF Framed, Numbered
      <3> QED
        BY <1>3, <3>2, <3>3
    <2> QED
      BY <2>1, <2>2 DEF Numbered
  <1>6. Handshake(t)'
    BY <1>2, HandshakeApart DEF Framed, peerVars, Working
  <1>7. DownFramed(t)'
    BY <1>2, DownApart DEF Framed, peerVars
  <1>8. UpFramed(t)'
    <2>1. /\ IsUp(t)' <=> IsUp(t)
          /\ eager'[t] = eager[t] /\ sends'[t].frames = sends[t].frames
          /\ toDest'[t] = toDest[t] /\ Received(t)' = Received(t)
      BY <1>2 DEF IsUp, peerVars, Received
    <2>2. ASSUME ~eager[t] PROVE sends[t].frames = 0 /\ FramesLast(Up(t)', 0)
      <3>1. sends[t].frames = 0 /\ FramesLast(Up(t), 0)
        BY <1>2, <2>2 DEF Framed, UpFramed, Working
      <3>2. Elements(toDest[t]) \subseteq Elements(Up(t)) /\ Elements(wire[t]) \subseteq Elements(Up(t))
        BY <1>1, UpTypes
      <3>3. NoFrames(Elements(Up(t))) => NoFrames(Elements(toDest'[t])) /\ NoFrames(Elements(wire'[t]))
        BY <1>4, <2>1, <3>2 DEF NoFrames
      <3> QED
        BY <1>1, <2>1, <3>1, <3>3, StillNone
    <2> HIDE DEF Up
    <2> QED
      BY <2>1, <2>2 DEF Framed, UpFramed
  <1> QED
    BY <1>5, <1>6, <1>7, <1>8 DEF Framed

\* Behind requests only, anything may be put.
LEMMA BehindRequests ==
  ASSUME NEW q \in Seq(Messages), NEW e \in Messages, \A m \in Elements(q) : m.kind = "request"
  PROVE  HandshakeLast(Append(q, e))
  <1> DEFINE p == Append(q, e)
  <1>1. /\ Len(q) \in Nat /\ Len(p) = Len(q) + 1
        /\ \A i \in 1 .. Len(q) : p[i] = q[i]
    BY AppendProperties
  <1>2. \A i \in 1 .. Len(q) : p[i].kind = "request"
    BY <1>1 DEF Elements
  <1> HIDE DEF p
  <1>3. \A i, j \in 1 .. Len(p) : i < j => i \in 1 .. Len(q)
    BY <1>1
  <1>4. HandshakeLast(p)
    BY <1>2, <1>3 DEF HandshakeLast
  <1> QED
    BY <1>4 DEF p

\* A request or a handshake is passed on.
LEMMA PassOnKeepsFrames ==
  ASSUME IInv, Typed, NEW t \in Tunnels, StreamsTyped(t)', Framed(t), PassRequest(t) \/ PassUpgrade(t)
  PROVE  Framed(t)'
  <1> DEFINE e == IF PassRequest(t) THEN Request(current[t]) ELSE Upgrade(current[t])
  <1>1. StreamsTyped(t)
    BY StreamTypes
  <1>2. /\ pc[t] \in {"requesting", "upgrading"} /\ pc'[t] \in {"awaiting", "copying"}
        /\ PassRequest(t) => pc'[t] = "awaiting"
        /\ PassUpgrade(t) => pc'[t] = "copying"
        /\ UNCHANGED <<peerVars, wire, ahead, behind, answers, got, turnVars>>
    BY DEF PassRequest, PassUpgrade, Goto, IInv, Shape
  <1>3. /\ toDest'[t] = Append(toDest[t], e) /\ e \in Messages /\ e.n = current[t]
        /\ e.kind = IF PassRequest(t) THEN "request" ELSE "upgrade"
    <2>1. toDest'[t] = Append(toDest[t], e)
      BY DEF PassRequest, PassUpgrade, Typed
    <2>2. current[t] \in Nat
      BY <1>1 DEF StreamsTyped
    <2> QED
      BY <2>1, <2>2, MessageTypes DEF Request, Upgrade
  <1> HIDE DEF e
  <1>4. toDest[t] \in Seq(Messages) /\ current[t] \in Nat
    BY <1>1 DEF StreamsTyped
  <1>5. Elements(toDest'[t]) = Elements(toDest[t]) \cup {e}
    BY <1>3, <1>4, AppendedElements
  <1>6. \A m \in Elements(toDest[t]) : m.kind = "request"
    BY <1>2 DEF Framed, Handshake, Working
  <1>7. Numbered(t)'
    <2>1. Held(t)' = Held(t) \cup {e}
      BY <1>2, <1>5 DEF Held, turnVars
    <2>2. current'[t] = current[t] /\ pc'[t] \notin {"requesting", "upgrading"}
      BY <1>2 DEF turnVars
    <2> QED
      BY <1>3, <1>4, <2>1, <2>2 DEF Framed, Numbered
  <1>8. Handshake(t)'
    <2>1. HandshakeLast(toDest'[t])
      BY <1>3, <1>4, <1>6, BehindRequests
    <2>2. "dest" \notin upgraded'[t]
      BY <1>2 DEF Framed, Handshake, Working, peerVars
    <2>3. pc'[t] \notin Working => \A m \in Elements(toDest'[t]) : m.kind = "request"
      BY <1>2, <1>3, <1>5, <1>6 DEF Working
    <2> QED
      BY <2>1, <2>2, <2>3 DEF Handshake
  <1>9. DownFramed(t)'
    BY <1>2, DownApart DEF Framed, peerVars, turnVars
  <1>10. UpFramed(t)'
    <2>1. /\ IsUp(t)' <=> IsUp(t)
          /\ eager'[t] = eager[t] /\ sends'[t].frames = sends[t].frames
          /\ wire'[t] = wire[t] /\ Received(t)' = Received(t)
      BY <1>2 DEF IsUp, peerVars, Received
    <2>2. ASSUME ~eager[t] PROVE sends[t].frames = 0 /\ FramesLast(Up(t)', 0)
      <3>1. sends[t].frames = 0 /\ FramesLast(Up(t), 0)
        BY <1>2, <2>2 DEF Framed, UpFramed, Working
      <3>2. Elements(toDest[t]) \subseteq Elements(Up(t)) /\ Elements(wire[t]) \subseteq Elements(Up(t))
        BY <1>1, UpTypes
      <3>3. NoFrames(Elements(Up(t))) => NoFrames(Elements(toDest'[t])) /\ NoFrames(Elements(wire'[t]))
        BY <1>3, <1>5, <2>1, <3>2 DEF NoFrames
      <3> QED
        BY <1>1, <2>1, <3>1, <3>3, StillNone
    <2> HIDE DEF Up
    <2> QED
      BY <2>1, <2>2 DEF Framed, UpFramed
  <1> QED
    BY <1>7, <1>8, <1>9, <1>10 DEF Framed

LEMMA ReadResponseKeepsFrames ==
  ASSUME IInv, Typed, NEW t \in Tunnels, StreamsTyped(t)', Framed(t), ReadResponse(t)
  PROVE  Framed(t)'
  <1>1. StreamsTyped(t)
    BY StreamTypes
  <1>2. /\ pc[t] = "awaiting" /\ pc'[t] = "answering"
        /\ UNCHANGED <<peerVars, wire, ahead, toDest, got, current>>
    BY DEF ReadResponse, Goto, IInv, Shape
  <1>3. /\ answer'[t] \in Elements(behind[t]) \cup Elements(answers[t])
        /\ Elements(behind'[t]) \subseteq Elements(behind[t]) \cup Elements(answers[t])
        /\ Elements(answers'[t]) \subseteq Elements(answers[t])
    <2>1. PICK r \in Taken(behind[t], answers[t]) :
            /\ behind' = [behind EXCEPT ![t] = r.buffered]
            /\ answers' = [answers EXCEPT ![t] = r.unread]
            /\ answer' = [answer EXCEPT ![t] = r.m]
      BY DEF ReadResponse
    <2>2. behind'[t] = r.buffered /\ answers'[t] = r.unread /\ answer'[t] = r.m
      BY <2>1 DEF Typed
    <2>3. behind[t] \in Seq(Messages) /\ answers[t] \in Seq(Messages)
      BY <1>1 DEF StreamsTyped
    <2>4. /\ r.m \in Elements(behind[t]) \cup Elements(answers[t])
          /\ Elements(r.buffered) \subseteq Elements(behind[t]) \cup Elements(answers[t])
          /\ Elements(r.unread) \subseteq Elements(answers[t])
      BY <2>3, TakenElements
    <2> QED
      BY <2>2, <2>4
  <1>4. Numbered(t)'
    <2>1. Held(t)' \subseteq Held(t)
      BY <1>2, <1>3 DEF Held
    <2> QED
      BY <1>2, <2>1 DEF Framed, Numbered
  <1>5. Handshake(t)'
    BY <1>2, HandshakeApart DEF Framed, peerVars, Working
  <1>6. DownFramed(t)'
    <2>1. "dest" \notin upgraded[t] /\ upgraded'[t] = upgraded[t] /\ sends'[t] = sends[t]
      BY <1>2 DEF Framed, Handshake, Working, peerVars
    <2>2. sends[t].destFrames = 0 /\ NoFrames(Elements(behind[t])) /\ FramesLast(Down(t), 0)
      BY <2>1 DEF Framed, DownFramed
    <2>3. /\ Elements(Down(t)) = Elements(got[t].client) \cup Elements(answers[t])
          /\ Down(t) \in Seq(Messages)
      BY <1>1, DownTypes
    <2>4. NoFrames(Elements(answers[t])) /\ NoFrames(Elements(got[t].client))
      BY <2>2, <2>3, NoFramesLast DEF NoFrames
    <2>5. NoFrames(Elements(answers'[t])) /\ NoFrames(Elements(behind'[t])) /\ answer'[t].kind # "frame"
      BY <1>3, <2>2, <2>4 DEF NoFrames
    <2>6. FramesLast(Down(t)', 0)
      BY <1>1, <1>2, <2>2, <2>4, <2>5, StillNoneDown
    <2> HIDE DEF Down
    <2> QED
      BY <2>1, <2>2, <2>5, <2>6 DEF DownFramed
  <1>7. UpFramed(t)'
    BY <1>2, UpApart DEF Framed, peerVars, IsUp, Received, Working
  <1> QED
    BY <1>4, <1>5, <1>6, <1>7 DEF Framed

LEMMA PassResponseKeepsFrames ==
  ASSUME IInv, Typed, AnswerIsThere, NEW t \in Tunnels, StreamsTyped(t)', Framed(t), PassResponse(t)
  PROVE  Framed(t)'
  <1>1. StreamsTyped(t)
    BY StreamTypes
  <1>2. /\ pc[t] = "answering" /\ pc'[t] = "reading" /\ answer'[t] = NoAnswer
        /\ UNCHANGED <<peerVars, wire, ahead, behind, toDest, answers, current>>
    BY DEF PassResponse, Goto, IInv, Shape, Typed
  <1>3. answer[t] \in Messages /\ got[t].client \in Seq(Messages)
    BY <1>1, <1>2 DEF AnswerIsThere, StreamsTyped
  <1>4. got'[t].client = Append(got[t].client, answer[t]) /\ got'[t].dest = got[t].dest
    BY DEF PassResponse, Typed
  <1>5. Elements(got'[t].client) = Elements(got[t].client) \cup {answer[t]}
    BY <1>3, <1>4, AppendedElements
  <1>6. Numbered(t)'
    <2>1. Held(t)' \subseteq Held(t) \cup {NoAnswer}
      BY <1>2, <1>5 DEF Held
    <2> QED
      BY <1>2, <2>1 DEF Framed, Numbered, NoAnswer
  <1>7. Handshake(t)'
    BY <1>2, HandshakeApart DEF Framed, peerVars, Working
  <1>8. DownFramed(t)'
    <2>1. "dest" \notin upgraded[t] /\ upgraded'[t] = upgraded[t] /\ sends'[t] = sends[t]
      BY <1>2 DEF Framed, Handshake, Working, peerVars
    <2>2. /\ sends[t].destFrames = 0 /\ NoFrames(Elements(behind[t])) /\ FramesLast(Down(t), 0)
          /\ answer[t].kind # "frame"
      BY <2>1 DEF Framed, DownFramed
    <2>3. Elements(Down(t)) = Elements(got[t].client) \cup Elements(answers[t])
      BY <1>1, DownTypes
    <2>4. NoFrames(Elements(Down(t))) =>
            NoFrames(Elements(got'[t].client)) /\ NoFrames(Elements(answers'[t]))
      BY <1>2, <1>5, <2>2, <2>3 DEF NoFrames
    <2>5. FramesLast(Down(t)', 0)
      BY <1>1, <2>2, <2>4, StillNoneDown
    <2> HIDE DEF Down
    <2> QED
      BY <1>2, <2>1, <2>2, <2>5 DEF DownFramed, NoAnswer
  <1>9. UpFramed(t)'
    BY <1>2, <1>4, UpApart DEF Framed, peerVars, IsUp, Received, Working
  <1> QED
    BY <1>6, <1>7, <1>8, <1>9 DEF Framed

-----------------------------------------------------------------------------
(***************************************************************************)
(* Frames: the copies and the peers.                                       *)
(***************************************************************************)

LEMMA CopyUpKeepsFrames ==
  ASSUME IInv, Typed, NEW t \in Tunnels, Lined(t), Framed(t), CopyUp(t)
  PROVE  Framed(t)'
  <1> DEFINE m == Head(wire[t])
  <1>1. StreamsTyped(t)
    BY StreamTypes
  <1>2. /\ toDest'[t] = Append(toDest[t], m) /\ wire'[t] = Tail(wire[t])
        /\ wire[t] # <<>> /\ pc[t] = "copying"
        /\ UNCHANGED <<pc, peerVars, ahead, behind, answers, got, turnVars>>
    BY DEF CopyUp, Typed, IInv, Placed
  <1>3. /\ wire[t] \in Seq(Messages) /\ ahead[t] \in Seq(Messages) /\ toDest[t] \in Seq(Messages)
        /\ Received(t) \in Seq(Messages)
    BY <1>1, ReceivedTypes DEF StreamsTyped
  <1>4. m \in Messages /\ m.kind = "frame"
    <2>1. FramesAfter(ahead[t] \o wire[t], 0)
      BY <1>2 DEF Lined, Line
    <2>2. FramesAfter(wire[t], 0)
      BY <1>3, <2>1, FramesJoined
    <2>3. m = wire[t][1] /\ m \in Messages /\ 1 \in 1 .. Len(wire[t])
      BY <1>2, <1>3, RemovedElements
    <2> QED
      BY <2>2, <2>3 DEF FramesAfter
  <1> HIDE DEF m
  <1>5. Elements(toDest'[t]) = Elements(toDest[t]) \cup {m}
    BY <1>2, <1>3, <1>4, AppendedElements
  <1>6. Numbered(t)'
    <2>1. Held(t)' = Held(t) \cup {m}
      BY <1>2, <1>5 DEF Held, turnVars
    <2> QED
      BY <1>2, <1>4, <2>1 DEF Framed, Numbered, turnVars
  <1>7. Handshake(t)'
    <2>1. HandshakeLast(toDest'[t])
      <3> DEFINE p == Append(toDest[t], m)
                 q == toDest[t]
      <3>1. /\ Len(q) \in Nat /\ Len(p) = Len(q) + 1
            /\ \A i \in 1 .. Len(q) : p[i] = q[i]
            /\ p[Len(q) + 1] = m
        BY <1>3, <1>4, AppendProperties
      <3>2. HandshakeLast(q) /\ toDest'[t] = p
        BY <1>2 DEF Framed, Handshake
      <3> HIDE DEF p, q
      <3>3. \A i, j \in 1 .. Len(p) : i < j => i \in 1 .. Len(q) /\ (j \in 1 .. Len(q) \/ j = Len(q) + 1)
        BY <3>1
      <3> QED
        BY <1>4, <3>1, <3>2, <3>3 DEF HandshakeLast
    <2> QED
      BY <1>2, <1>4, <1>5, <2>1 DEF Framed, Handshake, Working, FramesOnly, peerVars
  <1>8. DownFramed(t)'
    BY <1>2, DownApart DEF Framed, peerVars, turnVars
  <1>9. UpFramed(t)'
    <2>1. Up(t)' = Up(t)
      <3> DEFINE a == Received(t)
                 b == toDest[t]
                 c == wire[t]
      <3>1. a \in Seq(Messages) /\ b \in Seq(Messages) /\ c \in Seq(Messages) /\ c # <<>>
        BY <1>2, <1>3
      <3>2. Up(t) = a \o b \o c /\ Up(t)' = a \o Append(b, Head(c)) \o Tail(c)
        BY <1>2 DEF Up, Received, m
      <3> HIDE DEF a, b, c
      <3>3. a \o b \in Seq(Messages)
        BY <3>1, JoinLemma
      <3>4. a \o Append(b, Head(c)) = Append(a \o b, Head(c))
        BY <3>1
      <3>5. Append(a \o b, Head(c)) \o Tail(c) = a \o b \o c
        BY <3>1, <3>3, JoinShifted
      <3> QED
        BY <3>2, <3>4, <3>5, Zenon
    <2> HIDE DEF Up
    <2> QED
      BY <1>2, <2>1 DEF Framed, UpFramed, IsUp, peerVars
  <1> QED
    BY <1>6, <1>7, <1>8, <1>9 DEF Framed

LEMMA CopyDownKeepsFrames ==
  ASSUME IInv, Typed, NEW t \in Tunnels, Framed(t), CopyDown(t)
  PROVE  Framed(t)'
  <1> DEFINE m == Head(answers[t])
  <1>1. StreamsTyped(t)
    BY StreamTypes
  <1>2. /\ answers'[t] = Tail(answers[t]) /\ answers[t] # <<>>
        /\ UNCHANGED <<pc, peerVars, wire, ahead, behind, toDest, turnVars>>
        /\ got'[t].client = Append(got[t].client, m) /\ got'[t].dest = got[t].dest
    BY DEF CopyDown, Typed
  <1>3. answers[t] \in Seq(Messages) /\ got[t].client \in Seq(Messages)
    BY <1>1 DEF StreamsTyped
  <1>4. m \in Messages /\ m \in Elements(answers[t]) /\ Elements(answers'[t]) \subseteq Elements(answers[t])
    BY <1>2, <1>3, RemovedElements
  <1>5. Elements(got'[t].client) = Elements(got[t].client) \cup {m}
    BY <1>2, <1>3, <1>4, AppendedElements
  <1>6. Numbered(t)'
    <2>1. Held(t)' \subseteq Held(t)
      BY <1>2, <1>4, <1>5 DEF Held, turnVars
    <2> QED
      BY <1>2, <2>1 DEF Framed, Numbered, turnVars
  <1>7. Handshake(t)'
    BY <1>2, HandshakeApart DEF Framed, peerVars
  <1>8. DownFramed(t)'
    <2>1. Down(t)' = Down(t)
      BY <1>2, <1>3, JoinShifted DEF Down
    <2> HIDE DEF Down
    <2> QED
      BY <1>2, <2>1 DEF Framed, DownFramed, peerVars, turnVars
  <1>9. UpFramed(t)'
    BY <1>2, UpApart DEF Framed, peerVars, IsUp, Received
  <1> QED
    BY <1>6, <1>7, <1>8, <1>9 DEF Framed

\* What a client or a destination has sent is counted.
LEMMA FrameCounts ==
  ASSUME Typed, NEW t \in Tunnels
  PROVE  /\ ClientRequests(t) =>
              sends'[t].frames = sends[t].frames /\ sends'[t].destFrames = sends[t].destFrames
         /\ ClientFrame(t) =>
              sends'[t].frames = sends[t].frames + 1 /\ sends'[t].destFrames = sends[t].destFrames
         /\ DestFrame(t) =>
              sends'[t].frames = sends[t].frames /\ sends'[t].destFrames = sends[t].destFrames + 1
  <1>1. sends \in [Tunnels -> Counts] /\ sends[t] \in Counts
    BY DEF Typed
  <1> QED
    BY <1>1 DEF ClientRequests, ClientFrame, DestFrame, Counts

LEMMA ClientRequestsKeepsFrames ==
  ASSUME IInv, Typed, NEW t \in Tunnels, StreamsTyped(t)', Framed(t), ClientRequests(t)
  PROVE  Framed(t)'
  <1>1. StreamsTyped(t)
    BY StreamTypes
  <1>2. /\ ~IsUp(t) /\ ("dest" \in upgraded'[t] <=> "dest" \in upgraded[t])
        /\ UNCHANGED <<proxyVars, gone, interim, eager, toDest, answers, got>>
    BY DEF ClientRequests, IsUp, Typed
  <1>3. PICK e \in Messages : wire'[t] = Append(wire[t], e) /\ e.kind # "frame"
    <2> DEFINE n == sends[t].requests + 1
    <2>1. n \in Nat
      <3>1. sends[t].requests \in Nat
        BY <1>1 DEF StreamsTyped
      <3> QED
        BY <3>1
    <2>2. wire'[t] = Append(wire[t], Request(n)) \/ wire'[t] = Append(wire[t], Upgrade(n))
      BY DEF ClientRequests, Typed
    <2>3. /\ Request(n) \in Messages /\ Upgrade(n) \in Messages
          /\ Request(n).kind # "frame" /\ Upgrade(n).kind # "frame"
      BY <2>1, MessageTypes DEF Request, Upgrade
    <2> QED
      BY <2>2, <2>3
  <1>4. wire[t] \in Seq(Messages)
    BY <1>1 DEF StreamsTyped
  <1>5. Elements(wire'[t]) = Elements(wire[t]) \cup {e}
    BY <1>3, <1>4, AppendedElements
  <1>6. sends'[t].frames = sends[t].frames /\ sends'[t].destFrames = sends[t].destFrames
    BY FrameCounts
  <1>7. Numbered(t)'
    <2>1. Held(t)' = Held(t)
      BY <1>2 DEF Held, proxyVars, turnVars
    <2> QED
      BY <1>2, <2>1 DEF Framed, Numbered, proxyVars, turnVars
  <1>8. Handshake(t)'
    BY <1>2, HandshakeApart DEF Framed, proxyVars
  <1>9. DownFramed(t)'
    BY <1>2, <1>6, DownApart DEF Framed, proxyVars, turnVars
  <1>10. UpFramed(t)'
    <2>1. sends[t].frames = 0
      BY <1>2 DEF Framed, UpFramed
    <2>2. ASSUME ~eager[t] PROVE FramesLast(Up(t)', 0)
      <3>1. FramesLast(Up(t), 0)
        BY <2>1, <2>2 DEF Framed, UpFramed
      <3>2. Elements(toDest[t]) \subseteq Elements(Up(t)) /\ Elements(wire[t]) \subseteq Elements(Up(t))
        BY <1>1, UpTypes
      <3>3. NoFrames(Elements(Up(t))) => NoFrames(Elements(toDest'[t])) /\ NoFrames(Elements(wire'[t]))
        BY <1>2, <1>3, <1>5, <3>2 DEF NoFrames
      <3>4. Received(t)' = Received(t)
        BY <1>2 DEF Received
      <3> QED
        BY <1>1, <3>1, <3>3, <3>4, StillNone
    <2> HIDE DEF Up
    <2> QED
      BY <1>2, <1>6, <2>1, <2>2 DEF UpFramed
  <1> QED
    BY <1>7, <1>8, <1>9, <1>10 DEF Framed

\* The answer to the handshake is there only after it was passed on.
LEMMA AnsweredIsWorking ==
  ASSUME IInv, Typed, NEW t \in Tunnels, Lined(t), Framed(t), IsUp(t), HandshakeAnswered(t), ~Over(t)
  PROVE  pc[t] = "copying"
  <1>1. StreamsTyped(t)
    BY StreamTypes
  <1>2. current[t] \in Nat /\ Sent(t) \in Nat /\ got[t].client \in Seq(Messages) /\ pc[t] \in Places
    BY <1>1 DEF StreamsTyped, Sent
  <1>3. Final(Sent(t)) \in Held(t)
    <2>1. Final(Sent(t)) \in Elements(got[t].client)
      BY <1>2 DEF HandshakeAnswered, Elements, Sent
    <2> QED
      BY <2>1 DEF Held
  <1>4. /\ Sent(t) <= current[t]
        /\ pc[t] \in {"requesting", "upgrading"} => Sent(t) < current[t]
    BY <1>3 DEF Framed, Numbered, Final
  <1>5. /\ Sent(t) - current[t] >= 0
        /\ pc[t] \notin {"upgrading", "copying"} => Sent(t) - current[t] > 0
    BY DEF Lined
  <1> QED
    BY <1>2, <1>4, <1>5

LEMMA ClientFrameKeepsFrames ==
  ASSUME IInv, Typed, NEW t \in Tunnels, Lined(t), Framed(t), ClientFrame(t)
  PROVE  Framed(t)'
  <1> DEFINE n == sends[t].frames
  <1>1. StreamsTyped(t)
    BY StreamTypes
  <1>2. /\ IsUp(t) /\ ~Over(t)
        /\ wire'[t] = Append(wire[t], Frame(n + 1))
        /\ ~eager'[t] => ~eager[t] /\ HandshakeAnswered(t)
        /\ UNCHANGED <<proxyVars, gone, upgraded, interim, toDest, answers, got>>
    BY DEF ClientFrame, CanSend, IsUp, Over, Typed
  <1>3. sends'[t].frames = n + 1 /\ sends'[t].destFrames = sends[t].destFrames
    BY FrameCounts
  <1>4. Numbered(t)'
    <2>1. Held(t)' = Held(t)
      BY <1>2 DEF Held, proxyVars, turnVars
    <2> QED
      BY <1>2, <2>1 DEF Framed, Numbered, proxyVars, turnVars
  <1>5. Handshake(t)'
    BY <1>2, HandshakeApart DEF Framed, proxyVars
  <1>6. DownFramed(t)'
    BY <1>2, <1>3, DownApart DEF Framed, proxyVars, turnVars
  <1>7. UpFramed(t)'
    <2>1. IsUp(t)'
      BY <1>2 DEF IsUp
    <2>2. ASSUME ~eager'[t] PROVE FramesLast(Up(t)', n + 1) /\ pc'[t] \in Working
      <3>1. pc[t] = "copying" /\ FramesLast(Up(t), n)
        BY <1>2, <2>2, AnsweredIsWorking DEF Framed, UpFramed
      <3>2. Up(t)' = Append(Up(t), Frame(n + 1))
        <4> DEFINE p == Received(t) \o toDest[t]
                   e == Frame(n + 1)
        <4>1. p \in Seq(Messages) /\ e \in Messages /\ wire[t] \in Seq(Messages)
          BY <1>1, UpTypes, MessageTypes DEF StreamsTyped
        <4>2. Up(t) = p \o wire[t] /\ Up(t)' = p \o Append(wire[t], e)
          BY <1>2 DEF Up, Received
        <4> HIDE DEF p, e
        <4>3. p \o Append(wire[t], e) = Append(p \o wire[t], e)
          BY <4>1, AppendedToJoin, Zenon
        <4>4. Up(t)' = Append(Up(t), e)
          BY <4>2, <4>3, Zenon
        <4> QED
          BY <4>4 DEF e
      <3>3. Up(t) \in Seq(Messages) /\ n \in Nat
        BY <1>1, UpTypes DEF StreamsTyped
      <3> HIDE DEF Up, n
      <3> QED
        BY <1>2, <3>1, <3>2, <3>3, NextFrame DEF Working, proxyVars
    <2> HIDE DEF Up
    <2> QED
      BY <1>3, <2>1, <2>2 DEF UpFramed
  <1> QED
    BY <1>4, <1>5, <1>6, <1>7 DEF Framed

LEMMA DestFrameKeepsFrames ==
  ASSUME IInv, Typed, NEW t \in Tunnels, Framed(t), DestFrame(t)
  PROVE  Framed(t)'
  <1> DEFINE k == sends[t].destFrames
             e == Frame(k + 1)
  <1>1. StreamsTyped(t)
    BY StreamTypes
  <1>2. /\ "dest" \in upgraded[t] /\ answers'[t] = Append(answers[t], e)
        /\ UNCHANGED <<proxyVars, gone, upgraded, interim, eager, wire, toDest, got>>
    BY DEF DestFrame, Typed
  <1>3. sends'[t].frames = sends[t].frames /\ sends'[t].destFrames = k + 1
    BY FrameCounts
  <1>4. /\ k \in Nat /\ e \in Messages /\ e.kind = "frame"
        /\ answers[t] \in Seq(Messages) /\ got[t].client \in Seq(Messages)
    <2>1. k \in Nat /\ answers[t] \in Seq(Messages) /\ got[t].client \in Seq(Messages)
      BY <1>1 DEF StreamsTyped
    <2> QED
      BY <2>1, MessageTypes DEF Frame
  <1> HIDE DEF e
  <1>5. Numbered(t)'
    <2>1. Elements(answers'[t]) = Elements(answers[t]) \cup {e}
      BY <1>2, <1>4, AppendedElements
    <2>2. Held(t)' = Held(t) \cup {e}
      BY <1>2, <2>1 DEF Held, proxyVars, turnVars
    <2> QED
      BY <1>2, <1>4, <2>2 DEF Framed, Numbered, proxyVars, turnVars
  <1>6. Handshake(t)'
    BY <1>2, HandshakeApart DEF Framed, proxyVars
  <1>7. DownFramed(t)'
    <2>1. Down(t)' = Append(Down(t), e)
      <3>1. Down(t)' = got[t].client \o Append(answers[t], e)
        BY <1>2 DEF Down
      <3>2. got[t].client \o Append(answers[t], e) = Append(got[t].client \o answers[t], e)
        BY <1>4, AppendedToJoin, Zenon
      <3> QED
        BY <3>1, <3>2, Zenon DEF Down
    <2>2. Down(t) \in Seq(Messages) /\ FramesLast(Down(t), k)
      BY <1>1, DownTypes DEF Framed, DownFramed
    <2> HIDE DEF Down
    <2>3. FramesLast(Append(Down(t), e), k + 1)
      <3> HIDE DEF k
      <3> QED
        BY <1>4, <2>2, NextFrame DEF e
    <2> QED
      BY <1>2, <1>3, <2>1, <2>3 DEF DownFramed
  <1>8. UpFramed(t)'
    BY <1>2, <1>3, UpApart DEF Framed, proxyVars, IsUp, Received
  <1> QED
    BY <1>5, <1>6, <1>7, <1>8 DEF Framed

\* What the destination takes is the first of what was sent to it.
LEMMA DestTakes ==
  ASSUME IInv, Typed, NEW t \in Tunnels, Framed(t), DestReceives(t)
  PROVE  /\ toDest[t] # <<>> /\ toDest[t] \in Seq(Messages) /\ toDest'[t] = Tail(toDest[t])
         /\ Head(toDest[t]) \in Messages /\ Head(toDest[t]) \in Elements(toDest[t])
         /\ Elements(toDest'[t]) \subseteq Elements(toDest[t])
         /\ HandshakeLast(toDest'[t])
         /\ Head(toDest[t]).kind # "request" => FramesOnly(Elements(toDest'[t]))
         /\ UNCHANGED <<proxyVars, gone, sends, eager, wire>>
  <1> DEFINE q == toDest[t]
             p == Tail(q)
  <1>1. /\ q # <<>> /\ q \in Seq(Messages) /\ toDest'[t] = p
        /\ UNCHANGED <<proxyVars, gone, sends, eager, wire>>
    BY DEF DestReceives, Typed
  <1>2. /\ Head(q) \in Elements(q) /\ Head(q) = q[1] /\ Head(q) \in Messages
        /\ Len(p) = Len(q) - 1 /\ Len(q) \in Nat /\ Len(q) >= 1
        /\ \A i \in 1 .. Len(q) - 1 : p[i] = q[i + 1]
        /\ Elements(p) \subseteq Elements(q)
    BY <1>1, RemovedElements
  <1>3. HandshakeLast(q)
    BY DEF Framed, Handshake
  <1> HIDE DEF p, q
  <1>4. \A i \in 1 .. Len(p) : i + 1 \in 1 .. Len(q) /\ 1 \in 1 .. Len(q) /\ 1 < i + 1
    BY <1>2
  <1>5. HandshakeLast(p)
    <2> SUFFICES ASSUME NEW i \in 1 .. Len(p), NEW j \in 1 .. Len(p), i < j, p[i].kind # "request"
                 PROVE  p[j].kind = "frame"
      BY DEF HandshakeLast
    <2>1. i + 1 < j + 1 /\ p[i] = q[i + 1] /\ p[j] = q[j + 1]
      BY <1>2
    <2> QED
      BY <1>3, <1>4, <2>1 DEF HandshakeLast
  <1>6. q[1].kind # "request" => \A i \in 1 .. Len(p) : p[i].kind = "frame"
    BY <1>2, <1>3, <1>4 DEF HandshakeLast
  <1>7. Head(q).kind # "request" => FramesOnly(Elements(p))
    BY <1>2, <1>6 DEF FramesOnly, Elements
  <1> QED
    BY <1>1, <1>2, <1>5, <1>7 DEF p, q

LEMMA FrameReceivedKeepsFrames ==
  ASSUME IInv, Typed, NEW t \in Tunnels, Framed(t), DestReceives(t), Head(toDest[t]).kind = "frame"
  PROVE  Framed(t)'
  <1> DEFINE m == Head(toDest[t])
  <1>1. StreamsTyped(t)
    BY StreamTypes
  <1>2. /\ toDest[t] # <<>> /\ toDest[t] \in Seq(Messages) /\ toDest'[t] = Tail(toDest[t])
        /\ m \in Messages /\ Elements(toDest'[t]) \subseteq Elements(toDest[t])
        /\ HandshakeLast(toDest'[t]) /\ FramesOnly(Elements(toDest'[t]))
        /\ UNCHANGED <<proxyVars, gone, sends, eager, wire>>
    BY DestTakes
  <1>3. m.n \in Nat /\ m = Frame(m.n)
    BY <1>2 DEF Messages, Frame
  <1>4. /\ got' = [got EXCEPT ![t].dest = Append(@, m.n)]
        /\ UNCHANGED <<answers, upgraded, interim>>
    BY DEF DestReceives
  <1>5. got'[t].dest = Append(got[t].dest, m.n) /\ got'[t].client = got[t].client
    BY <1>4 DEF Typed
  <1>6. Received(t)' = Append(Received(t), m)
    <2> DEFINE d == got[t].dest
               k == Len(d)
    <2>1. d \in Seq(Nat) /\ k \in Nat /\ DOMAIN d = 1 .. k
      <3>1. d \in Seq(Nat)
        BY <1>1 DEF StreamsTyped
      <3> QED
        BY <3>1
    <2>2. /\ Append(d, m.n) \in Seq(Nat) /\ Len(Append(d, m.n)) = k + 1
          /\ \A i \in 1 .. k : Append(d, m.n)[i] = d[i]
          /\ Append(d, m.n)[k + 1] = m.n
      BY <1>3, <2>1, AppendProperties
    <2>3. DOMAIN Append(d, m.n) = 1 .. k + 1
      BY <2>1, <2>2
    <2>4. Received(t)' = [i \in 1 .. k + 1 |-> Frame(Append(d, m.n)[i])]
      BY <1>5, <2>3 DEF Received
    <2>5. Received(t) = [i \in 1 .. k |-> Frame(d[i])] /\ Received(t) \in Seq(Messages)
      BY <2>1, ReceivedTypes DEF Received
    <2> DEFINE r == Received(t)
               s == Received(t)'
    <2>6. Len(r) = k /\ r \in Seq(Messages) /\ m \in Messages
      BY <1>2, <2>1, <2>5
    <2> HIDE DEF m, r, s, d, k
    <2>7. /\ Append(r, m) \in Seq(Messages) /\ Len(Append(r, m)) = k + 1
          /\ \A i \in 1 .. k : Append(r, m)[i] = r[i]
          /\ Append(r, m)[k + 1] = m
      BY <2>6, AppendProperties
    <2>8. \A i \in 1 .. k + 1 : i \in 1 .. k \/ i = k + 1
      BY <2>1
    <2>9. \A i \in 1 .. k + 1 : s[i] = Append(r, m)[i]
      <3>1. \A i \in 1 .. k : s[i] = Frame(d[i]) /\ r[i] = Frame(d[i])
        BY <2>1, <2>2, <2>4, <2>5 DEF r, s
      <3>2. s[k + 1] = Frame(m.n)
        BY <2>1, <2>2, <2>4 DEF s
      <3> QED
        BY <1>3, <2>7, <2>8, <3>1, <3>2
    <2>10. s \in Seq(Messages) /\ Len(s) = k + 1
      <3>1. \A i \in 1 .. k + 1 : Frame(Append(d, m.n)[i]) \in Messages
        BY <1>3, <2>1, <2>2, <2>8, MessageTypes
      <3> DEFINE f(i) == Frame(Append(d, m.n)[i])
                 g == [i \in 1 .. k + 1 |-> f(i)]
      <3>2. g \in [1 .. k + 1 -> Messages] /\ s = g
        BY <2>4, <3>1 DEF s
      <3> HIDE DEF g
      <3>3. k + 1 \in Nat
        BY <2>1
      <3> QED
        BY <3>2, <3>3
    <2>11. s = Append(r, m)
      BY <2>7, <2>9, <2>10, SeqEqual
    <2> QED
      BY <2>11 DEF r, s
  <1> HIDE DEF m
  <1>7. Numbered(t)'
    <2>1. Held(t)' \subseteq Held(t)
      BY <1>2, <1>4, <1>5 DEF Held, proxyVars, turnVars
    <2> QED
      BY <1>2, <2>1 DEF Framed, Numbered, proxyVars, turnVars
  <1>8. Handshake(t)'
    BY <1>2, <1>4 DEF Framed, Handshake, proxyVars
  <1>9. DownFramed(t)'
    BY <1>2, <1>4, <1>5, DownApart DEF Framed, proxyVars, turnVars
  <1>10. UpFramed(t)'
    <2>1. Up(t)' = Up(t)
      <3> DEFINE a == Received(t)
                 b == toDest[t]
                 c == wire[t]
      <3>1. a \in Seq(Messages) /\ b \in Seq(Messages) /\ b # <<>> /\ m = Head(b)
        BY <1>1, <1>2, ReceivedTypes DEF StreamsTyped, m
      <3>2. Up(t)' = Append(a, m) \o Tail(b) \o c /\ Up(t) = a \o b \o c
        BY <1>2, <1>6 DEF Up
      <3> HIDE DEF a, b, c
      <3>3. Append(a, Head(b)) \o Tail(b) = a \o b
        BY <3>1, JoinShifted
      <3> QED
        BY <3>1, <3>2, <3>3, Zenon
    <2> HIDE DEF Up
    <2> QED
      BY <1>2, <1>4, <2>1 DEF Framed, UpFramed, IsUp, proxyVars
  <1> QED
    BY <1>7, <1>8, <1>9, <1>10 DEF Framed

\* A request or a handshake is answered, with one response or two.
LEMMA DestAnswers ==
  ASSUME IInv, Typed, NEW t \in Tunnels, Framed(t), DestReceives(t), Head(toDest[t]).kind # "frame"
  PROVE  /\ \A e \in Elements(answers'[t]) :
              e \in Elements(answers[t]) \/ (e.kind \in {"interim", "final"} /\ e.n = Head(toDest[t]).n)
         /\ got' = got
         /\ IsUp(t)' <=> IsUp(t)
         /\ "dest" \in upgraded'[t] <=> "dest" \in upgraded[t] \/ Head(toDest[t]).kind = "upgrade"
  <1> DEFINE m == Head(toDest[t])
             q == answers[t]
  <1>1. m \in Messages /\ q \in Seq(Messages)
    BY DestTakes DEF Typed
  <1>2. m.n \in Nat
    BY <1>1 DEF Messages
  <1>3. /\ got' = got
        /\ \/ answers'[t] = Append(q, Final(m.n))
           \/ answers'[t] = q \o <<Interim(m.n), Final(m.n)>>
        /\ upgraded' = IF m.kind = "upgrade" THEN [upgraded EXCEPT ![t] = @ \cup {"dest"}] ELSE upgraded
    BY DEF DestReceives, Typed
  <1> HIDE DEF m
  <1>4. Final(m.n) \in Messages /\ Interim(m.n) \in Messages
    BY <1>2, MessageTypes
  <1>5. \A e \in Elements(answers'[t]) : e \in Elements(q) \/ e \in {Final(m.n), Interim(m.n)}
    <2> DEFINE f == Final(m.n)
               g == Interim(m.n)
    <2>1. f \in Messages /\ g \in Messages /\ (answers'[t] = Append(q, f) \/ answers'[t] = q \o <<g, f>>)
      BY <1>3, <1>4
    <2> HIDE DEF f, g, q
    <2>2. <<g, f>> \in Seq(Messages) /\ Elements(<<g, f>>) = {g, f}
      <3>1. <<g, f>> \in Seq(Messages) /\ Len(<<g, f>>) = 2 /\ <<g, f>>[1] = g /\ <<g, f>>[2] = f
        BY <2>1
      <3> DEFINE p == <<g, f>>
      <3>2. Len(p) = 2 /\ p[1] = g /\ p[2] = f
        BY <3>1
      <3> HIDE DEF p
      <3>3. Elements(p) = {p[1], p[2]}
        <4>1. \A i : i \in 1 .. 2 <=> i = 1 \/ i = 2
          OBVIOUS
        <4> QED
          BY <3>2, <4>1 DEF Elements
      <3> QED
        BY <3>1, <3>2, <3>3 DEF p
    <2>3. Elements(Append(q, f)) = Elements(q) \cup {f}
      BY <1>1, <2>1, AppendedElements
    <2>4. Elements(q \o <<g, f>>) = Elements(q) \cup {g, f}
      BY <1>1, <2>2, JoinedElements
    <2>5. Elements(answers'[t]) \in {Elements(q) \cup {f}, Elements(q) \cup {g, f}}
      BY <2>1, <2>3, <2>4, Zenon
    <2> QED
      BY <2>5 DEF f, g
  <1>6. "dest" \in upgraded'[t] <=> "dest" \in upgraded[t] \/ m.kind = "upgrade"
    BY <1>3 DEF Typed
  <1>7. IsUp(t)' <=> IsUp(t)
    BY <1>3 DEF Typed, IsUp
  <1>8. \A e \in {Final(m.n), Interim(m.n)} : e.kind \in {"interim", "final"} /\ e.n = m.n
    BY DEF Final, Interim
  <1> QED
    BY <1>3, <1>5, <1>6, <1>7, <1>8 DEF m, q

LEMMA RequestReceivedKeepsFrames ==
  ASSUME IInv, Typed, NEW t \in Tunnels, StreamsTyped(t)', Framed(t), DestReceives(t),
         Head(toDest[t]).kind # "frame"
  PROVE  Framed(t)'
  <1> DEFINE m == Head(toDest[t])
  <1>1. StreamsTyped(t)
    BY StreamTypes
  <1>2. /\ toDest[t] # <<>> /\ toDest[t] \in Seq(Messages) /\ toDest'[t] = Tail(toDest[t])
        /\ m \in Messages /\ m \in Elements(toDest[t])
        /\ Elements(toDest'[t]) \subseteq Elements(toDest[t])
        /\ HandshakeLast(toDest'[t]) /\ (m.kind # "request" => FramesOnly(Elements(toDest'[t])))
        /\ UNCHANGED <<proxyVars, gone, sends, eager, wire>>
    BY DestTakes
  <1>3. /\ \A e \in Elements(answers'[t]) :
             e \in Elements(answers[t]) \/ (e.kind \in {"interim", "final"} /\ e.n = m.n)
        /\ got' = got /\ (IsUp(t)' <=> IsUp(t))
        /\ "dest" \in upgraded'[t] <=> "dest" \in upgraded[t] \/ m.kind = "upgrade"
    BY DestAnswers
  <1>4. "dest" \notin upgraded[t] /\ m.kind \in {"request", "upgrade"}
    <2>1. m.kind \in {"request", "upgrade"}
      BY DEF DestReceives
    <2> QED
      BY <1>2, <2>1 DEF Framed, Handshake, FramesOnly
  <1> HIDE DEF m
  <1>5. Numbered(t)'
    <2>1. m \in Held(t)
      BY <1>2 DEF Held
    <2>2. m.n <= current[t] /\ (pc[t] \in {"requesting", "upgrading"} => m.n < current[t])
      BY <1>4, <2>1 DEF Framed, Numbered
    <2>3. \A e \in Held(t)' : e \in Held(t) \/ e.n = m.n
      BY <1>2, <1>3 DEF Held, proxyVars, turnVars
    <2> QED
      BY <1>2, <2>2, <2>3 DEF Framed, Numbered, proxyVars, turnVars
  <1>6. Handshake(t)'
    <2>1. pc'[t] = pc[t]
      BY <1>2 DEF proxyVars
    <2>2. m.kind = "upgrade" => pc[t] \in Working
      BY <1>2 DEF Framed, Handshake
    <2> QED
      BY <1>2, <1>3, <1>4, <2>1, <2>2 DEF Framed, Handshake
  <1>7. DownFramed(t)'
    <2>1. /\ sends[t].destFrames = 0 /\ NoFrames(Elements(behind[t])) /\ answer[t].kind # "frame"
          /\ FramesLast(Down(t), 0) /\ sends' = sends /\ behind' = behind /\ answer' = answer
      BY <1>2, <1>4 DEF Framed, DownFramed, proxyVars, turnVars
    <2>2. Elements(Down(t)) = Elements(got[t].client) \cup Elements(answers[t])
      BY <1>1, DownTypes
    <2>3. NoFrames(Elements(Down(t))) =>
            NoFrames(Elements(got'[t].client)) /\ NoFrames(Elements(answers'[t]))
      BY <1>3, <2>2 DEF NoFrames
    <2>4. FramesLast(Down(t)', 0)
      BY <1>1, <2>1, <2>3, StillNoneDown
    <2> HIDE DEF Down
    <2> QED
      BY <2>1, <2>4 DEF DownFramed
  <1>8. UpFramed(t)'
    <2>1. ASSUME ~eager[t] PROVE FramesLast(Up(t)', sends[t].frames)
      <3> DEFINE a == Received(t)
                 b == toDest[t]
                 c == wire[t]
                 n == sends[t].frames
      <3>1. /\ a \in Seq(Messages) /\ b \in Seq(Messages) /\ c \in Seq(Messages) /\ n \in Nat
            /\ b # <<>> /\ m = Head(b) /\ FramesOnly(Elements(a))
        BY <1>1, <1>2, ReceivedTypes DEF StreamsTyped, m
      <3>2. FramesLast(Up(t), n) /\ Up(t) = a \o b \o c /\ Up(t)' = a \o Tail(b) \o c
        BY <1>2, <1>3, <2>1 DEF Framed, UpFramed, Up, Received
      <3> HIDE DEF a, b, c, n, Up
      <3>3. /\ b \o c # <<>> /\ Head(b \o c) = m /\ Tail(b \o c) = Tail(b) \o c
            /\ b \o c \in Seq(Messages)
        BY <3>1, TailOfJoined, JoinLemma
      <3>4. a \o b \o c = a \o (b \o c)
        <4>1. a \in Seq(Messages) /\ b \in Seq(Messages) /\ c \in Seq(Messages)
          BY <3>1
        <4> QED
          BY <4>1, ConcatAssociative
      <3>5. FramesLast(a \o (b \o c), n) /\ FramesOnly(Elements(a))
        BY <3>1, <3>2, <3>4, Zenon
      <3> DEFINE d == b \o c
      <3>6. d \in Seq(Messages) /\ d # <<>> /\ Head(d).kind # "frame" /\ FramesLast(a \o d, n)
        BY <1>4, <3>3, <3>5
      <3>7. a = <<>>
        <4> HIDE DEF d
        <4> QED
          BY <3>1, <3>6, NothingBefore
      <3>8. FramesLast(Tail(d), n)
        <4>1. a \o d = d
          <5> HIDE DEF d
          <5> QED
            BY <3>6, <3>7
        <4> HIDE DEF d
        <4>2. FramesLast(d, n)
          BY <3>6, <4>1, Zenon
        <4> QED
          BY <3>1, <3>6, <4>2, FirstOfLast
      <3>9. Up(t)' = Tail(d)
        <4>1. a \o Tail(b) = Tail(b)
          <5>1. Tail(b) \in Seq(Messages)
            BY <3>1
          <5> QED
            BY <3>7, <5>1
        <4> QED
          BY <3>2, <3>3, <4>1, Zenon
      <3> QED
        BY <3>8, <3>9, Zenon DEF n
    <2> HIDE DEF Up
    <2> QED
      BY <1>2, <1>3, <2>1 DEF Framed, UpFramed, proxyVars
  <1> QED
    BY <1>5, <1>6, <1>7, <1>8 DEF Framed

-----------------------------------------------------------------------------

AllFramed == \A t \in Tunnels : Framed(t)

LEMMA InitFramed == Init => AllFramed
  <1> SUFFICES ASSUME Init, NEW t \in Tunnels PROVE Framed(t)
    BY Zenon DEF AllFramed
  <1>1. /\ pc[t] = "idle" /\ wire[t] = <<>> /\ behind[t] = <<>> /\ toDest[t] = <<>>
        /\ answers[t] = <<>> /\ got[t] = [client |-> <<>>, dest |-> <<>>]
        /\ answer[t] = NoAnswer /\ upgraded[t] = {}
        /\ sends[t] = [requests |-> 0, frames |-> 0, destFrames |-> 0]
    BY DEF Init, Each
  <1>2. Elements(<<>>) = {}
    BY DEF Elements
  <1>3. FramesLast(<<>>, 0)
    BY DEF FramesLast
  <1>4. got[t].client = <<>> /\ got[t].dest = <<>>
    BY <1>1
  <1>5. Down(t) = <<>>
    BY <1>1, <1>4 DEF Down
  <1>6. Up(t) = <<>>
    <2>1. Received(t) = <<>>
      BY <1>4 DEF Received
    <2> QED
      BY <1>1, <2>1 DEF Up
  <1>7. Numbered(t)
    <2>1. Held(t) = {NoAnswer}
      BY <1>1, <1>2, <1>4 DEF Held
    <2> QED
      BY <2>1 DEF Numbered, NoAnswer
  <1>8. Handshake(t)
    BY <1>1, <1>2 DEF Handshake, HandshakeLast
  <1>9. DownFramed(t)
    <2> HIDE DEF Down
    <2> QED
      BY <1>1, <1>2, <1>3, <1>5 DEF DownFramed, NoFrames, NoAnswer
  <1>10. UpFramed(t)
    <2> HIDE DEF Up
    <2> QED
      BY <1>1, <1>3, <1>6 DEF UpFramed
  <1> QED
    BY <1>7, <1>8, <1>9, <1>10 DEF Framed

LEMMA StreamTypesAfter ==
  ASSUME IInv', Typed', NEW t \in Tunnels
  PROVE  StreamsTyped(t)'
  <1>1. got'[t] \in [client : Seq(Messages), dest : Seq(Nat)] /\ sends'[t] \in Counts /\ MaxFrames \in Nat
    BY TunnelAssumption DEF Typed
  <1> QED
    BY <1>1 DEF IInv, Shape, Typed, StreamsTyped, Counts

\* The goroutine ends, the tunnel is set up, a copy ends or a peer leaves.
LEMMA RestKeepsFrames ==
  ASSUME IInv, Typed, NEW t \in Tunnels, Framed(t),
         \/ Connect(t)
         \/ Return(t)
         \/ \E p \in Peers : CopyEnds(t, p) \/ Leave(t, p)
  PROVE  Framed(t)'
  <1>1. CASE Connect(t)
    <2>1. SameStreams(t)
      BY <1>1 DEF Connect, Dial, Hijack, Establish, LookUp, Make, Store, setupRest,
                  peerVars, streamVars, turnVars, SameStreams
    <2>2. pc[t] \notin Working /\ pc'[t] \notin {"requesting", "upgrading"}
      BY <1>1 DEF Connect, Dial, Hijack, Establish, LookUp, Make, Store, Goto, IInv, Shape, Working
    <2> QED
      BY <2>1, <2>2, QuietKeepsFrames
  <1>2. CASE Return(t)
    <2>1. SameStreams(t) /\ pc'[t] = "over"
      BY <1>2 DEF Return, peerVars, streamVars, turnVars, SameStreams, IInv, Shape
    <2> QED
      BY <2>1, QuietKeepsFrames DEF Working
  <1>3. CASE \E p \in Peers : CopyEnds(t, p) \/ Leave(t, p)
    <2>1. SameStreams(t) /\ pc'[t] = pc[t]
      BY <1>3 DEF CopyEnds, Leave, SameStreams, peerVars, streamVars, turnVars, proxyVars
    <2> QED
      BY <2>1, QuietKeepsFrames
  <1> QED
    BY <1>1, <1>2, <1>3

LEMMA ActorKeepsFrames ==
  ASSUME IInv, Typed, AnswerIsThere, IInv', Typed', NEW t \in Tunnels, InOrder(t), Framed(t),
         Connect(t) \/ Turn(t) \/ Copy(t) \/ Peer(t)
  PROVE  Framed(t)'
  <1>1. StreamsTyped(t)'
    BY StreamTypesAfter
  <1>2. ~Over(t) => Lined(t)
    BY DEF InOrder
  <1>3. CASE Connect(t)
    BY <1>3, RestKeepsFrames
  <1>4. CASE Turn(t)
    <2>1. CASE ReadRequest(t)
      <3>1. Lined(t)
        BY <1>2, <2>1 DEF ReadRequest, Over
      <3> QED
        BY <1>1, <2>1, <3>1, ReadRequestKeepsFrames
    <2>2. CASE Return(t)
      BY <2>2, RestKeepsFrames
    <2> QED
      BY <1>1, <1>4, <2>1, <2>2, PassOnKeepsFrames, ReadResponseKeepsFrames, PassResponseKeepsFrames
      DEF Turn, ReadRequestFails, RequestFails, ReadResponseFails, ResponseFails, UpgradeFails, WaitEnds
  <1>5. CASE Copy(t)
    <2>1. CASE CopyUp(t)
      <3>1. Lined(t)
        BY <1>2, <2>1 DEF CopyUp, Over, IInv, Placed
      <3> QED
        BY <2>1, <3>1, CopyUpKeepsFrames
    <2> QED
      BY <1>5, <2>1, CopyDownKeepsFrames, RestKeepsFrames DEF Copy
  <1>6. CASE Peer(t)
    <2>1. CASE ClientFrame(t)
      <3>1. Lined(t)
        BY <1>2, <2>1 DEF ClientFrame, CanSend, Over
      <3> QED
        BY <2>1, <3>1, ClientFrameKeepsFrames
    <2>2. CASE DestReceives(t)
      BY <1>1, <2>2, FrameReceivedKeepsFrames, RequestReceivedKeepsFrames
    <2> QED
      BY <1>1, <1>6, <2>1, <2>2, ClientRequestsKeepsFrames, DestFrameKeepsFrames, RestKeepsFrames DEF Peer
  <1> QED
    BY <1>3, <1>4, <1>5, <1>6

LEMMA StepFramed ==
  IInv /\ Typed /\ AnswerIsThere /\ AllInOrder /\ IInv' /\ Typed' /\ AllFramed /\ [Next]_vars => AllFramed'
  <1> SUFFICES ASSUME IInv, Typed, AnswerIsThere, AllInOrder, IInv', Typed', AllFramed, [Next]_vars,
                      NEW u \in Tunnels
               PROVE  Framed(u)'
    BY DEF AllFramed
  <1>1. Framed(u) /\ InOrder(u)
    BY DEF AllFramed, AllInOrder
  <1>2. CASE UNCHANGED vars
    <2>1. SameStreams(u) /\ pc'[u] = pc[u]
      BY <1>2 DEF vars, SameStreams
    <2> QED
      BY <1>1, <2>1, QuietKeepsFrames
  <1>3. ASSUME NEW t \in Tunnels, Connect(t) \/ Turn(t) \/ Copy(t) \/ Peer(t) PROVE Framed(u)'
    <2>1. CASE u = t
      BY <1>1, <1>3, <2>1, ActorKeepsFrames
    <2>2. CASE u # t
      <3>1. Same(u)
        BY <1>3, <2>2, SameOthers
      <3>2. eager'[u] = eager[u]
        <4>1. eager' = eager \/ eager' = [eager EXCEPT ![t] = @ \/ ~HandshakeAnswered(t)]
          BY <1>3
          DEF Connect, Dial, Hijack, Establish, LookUp, Make, Store, setupRest,
              Turn, ReadRequest, ReadRequestFails, PassRequest, RequestFails, ReadResponse, ReadResponseFails,
              PassResponse, ResponseFails, PassUpgrade, UpgradeFails, WaitEnds, Return,
              Copy, CopyUp, CopyDown, CopyEnds,
              Peer, ClientRequests, ClientFrame, DestReceives, DestFrame, Leave, peerVars
        <4>2. eager \in [Tunnels -> BOOLEAN]
          BY DEF Typed
        <4> QED
          BY <2>2, <4>1, <4>2
      <3>3. SameStreams(u) /\ pc'[u] = pc[u]
        BY <3>1, <3>2 DEF Same, SameStreams
      <3> QED
        BY <1>1, <3>3, QuietKeepsFrames
    <2> QED
      BY <2>1, <2>2
  <1> QED
    BY <1>2, <1>3 DEF Next, Finished

\* A WebSocket tunnel passes on every frame, in its order, in both directions, though the
\* copies read the connections and what was received ahead stays with the readers: a
\* destination sends none before its handshake has come to it, and a client that waits for
\* the answer to its own sends none while a reader might take them.
THEOREM FramesAreInOrder == Spec => []FramesInOrder
  <1>1. AllFramed => FramesInOrder
    BY Zenon DEF AllFramed, Framed, UpFramed, DownFramed, Up, Down, FramesInOrder
  <1>2. Spec => []AllFramed
    <2>1. Spec => [](IInv /\ Typed /\ AnswerIsThere /\ AllInOrder)
      BY Invariant, TypedInvariant, OrderInvariant, PTL
    <2> QED
      BY <2>1, InitFramed, StepFramed, PTL DEF Spec
  <1> QED
    BY <1>1, <1>2, PTL
=============================================================================
