--------------------------- MODULE ModClientsProofs ---------------------------
(***************************************************************************)
(* Theorems about ModClients, for any number of exchanges and plugins, any *)
(* names and any queue capacity.                                           *)
(***************************************************************************)
EXTENDS ModClients, FiniteSetTheorems, TLAPS

\* A stream whose handler has got as far as registering its name.
Registered(s) == phase[s] \notin {"connecting", "rejected"}

\* What the types leave out: a handler in hand of a message holds one, and only
\* registered streams are known to the map, the hooks and the closers.
Known ==
  /\ \A s \in Streams : InHand(s) => held[s] \in Exchanges
  /\ \A s \in clients : Registered(s)
  /\ \A x \in Exchanges : \A s \in todo[x] : Registered(s)
  /\ \A x \in Exchanges : pc[x] \in {"waiting", "full", "empty"} =>
        cur[x] \in Streams /\ Registered(cur[x])
  /\ \A s \in Streams : ~Registered(s) => ~closed[s] /\ closers[s] = 0

IInv == TypeOK /\ Known

-----------------------------------------------------------------------------

LEMMA InitIInv == Init => IInv
  BY DEF Init, IInv, TypeOK, Known, Registered, InHand, Phases, Steps

LEMMA StepIInv == IInv /\ [Next]_vars => IInv'
  <1> SUFFICES ASSUME IInv, [Next]_vars PROVE IInv'
    OBVIOUS
  <1> USE DEF IInv, TypeOK, Known, Registered, InHand, Phases, Steps,
              vars, channelVars, handlerVars, hookVars
  <1>1. ASSUME NEW s \in Streams, RegisterFails(s) PROVE IInv'
    BY <1>1 DEF RegisterFails
  <1>2. ASSUME NEW s \in Streams, RegisterDuplicate(s) PROVE IInv'
    BY <1>2 DEF RegisterDuplicate
  <1>3. ASSUME NEW s \in Streams, Register(s) PROVE IInv'
    BY <1>3 DEF Register
  <1>4. ASSUME NEW s \in Streams, Forward(s) PROVE IInv'
    BY <1>4 DEF Forward
  <1>5. ASSUME NEW s \in Streams, SendFails(s) PROVE IInv'
    BY <1>5 DEF SendFails
  <1>6. ASSUME NEW s \in Streams, Answered(s) PROVE IInv'
    BY <1>6 DEF Answered
  <1>7. ASSUME NEW s \in Streams, AnswerFails(s) PROVE IInv'
    BY <1>7 DEF AnswerFails
  <1>8. ASSUME NEW s \in Streams, Deliver(s) PROVE IInv'
    BY <1>8 DEF Deliver
  <1>9. ASSUME NEW s \in Streams, RangeEnds(s) PROVE IInv'
    BY <1>9 DEF RangeEnds
  <1>10. ASSUME NEW x \in Exchanges, Snapshot(x) PROVE IInv'
    BY <1>10 DEF Snapshot
  <1>11. ASSUME NEW x \in Exchanges, NEW s \in Streams, Enqueue(x, s) PROVE IInv'
    BY <1>11 DEF Enqueue, TakeClient
  <1>12. ASSUME NEW x \in Exchanges, NEW s \in Streams, FindFull(x, s) PROVE IInv'
    BY <1>12 DEF FindFull, TakeClient
  <1>13. ASSUME NEW x \in Exchanges, NEW s \in Streams, SendOnClosed(x, s) PROVE IInv'
    BY <1>13 DEF SendOnClosed, TakeClient
  <1>14. ASSUME NEW x \in Exchanges, RemoveFull(x) PROVE IInv'
    BY <1>14 DEF RemoveFull, WithoutName
  <1>15. ASSUME NEW x \in Exchanges, ReceiveNil(x) PROVE IInv'
    BY <1>15 DEF ReceiveNil
  <1>16. ASSUME NEW x \in Exchanges, RemoveEmpty(x) PROVE IInv'
    BY <1>16 DEF RemoveEmpty, WithoutName
  <1>17. ASSUME NEW x \in Exchanges, Return(x) PROVE IInv'
    BY <1>17 DEF Return
  <1>18. ASSUME NEW s \in Streams, CloseFires(s) PROVE IInv'
    BY <1>18 DEF CloseFires
  <1>19. CASE Quiet
    BY <1>19 DEF Quiet
  <1>20. CASE UNCHANGED vars
    BY <1>20
  <1> QED
    BY <1>1, <1>2, <1>3, <1>4, <1>5, <1>6, <1>7, <1>8, <1>9, <1>10, <1>11, <1>12,
       <1>13, <1>14, <1>15, <1>16, <1>17, <1>18, <1>19, <1>20
    DEF Next, RequestMod, ResponseMod, Handler, Serve,
        RequestModHook, ResponseModHook, Hook, Proceed

\* The types hold in every reachable state, whatever the parameters are.
THEOREM TypeCorrect == Spec => []TypeOK
  <1>1. IInv => TypeOK
    BY DEF IInv
  <1> QED
    BY InitIInv, StepIInv, <1>1, PTL DEF Spec

THEOREM Invariant == Spec => []IInv
  BY InitIInv, StepIInv, PTL DEF Spec

-----------------------------------------------------------------------------
(***************************************************************************)
(* A channel that is closed, or will be, is not in the map.                *)
(***************************************************************************)

LEMMA StepClosedIsGone == IInv /\ ClosedIsGone /\ [Next]_vars => ClosedIsGone'
  <1> SUFFICES ASSUME IInv, ClosedIsGone, [Next]_vars PROVE ClosedIsGone'
    OBVIOUS
  <1> USE DEF IInv, TypeOK, Known, Registered, ClosedIsGone,
              vars, channelVars, handlerVars, hookVars
  <1>1. ASSUME NEW s \in Streams, RegisterFails(s) PROVE ClosedIsGone'
    BY <1>1 DEF RegisterFails
  <1>2. ASSUME NEW s \in Streams, RegisterDuplicate(s) PROVE ClosedIsGone'
    BY <1>2 DEF RegisterDuplicate
  <1>3. ASSUME NEW s \in Streams, Register(s) PROVE ClosedIsGone'
    BY <1>3 DEF Register
  <1>4. ASSUME NEW s \in Streams, Forward(s) PROVE ClosedIsGone'
    BY <1>4 DEF Forward
  <1>5. ASSUME NEW s \in Streams, SendFails(s) PROVE ClosedIsGone'
    BY <1>5 DEF SendFails
  <1>6. ASSUME NEW s \in Streams, Answered(s) PROVE ClosedIsGone'
    BY <1>6 DEF Answered
  <1>7. ASSUME NEW s \in Streams, AnswerFails(s) PROVE ClosedIsGone'
    BY <1>7 DEF AnswerFails
  <1>8. ASSUME NEW s \in Streams, Deliver(s) PROVE ClosedIsGone'
    BY <1>8 DEF Deliver
  <1>9. ASSUME NEW s \in Streams, RangeEnds(s) PROVE ClosedIsGone'
    BY <1>9 DEF RangeEnds
  <1>10. ASSUME NEW x \in Exchanges, Snapshot(x) PROVE ClosedIsGone'
    BY <1>10 DEF Snapshot
  <1>11. ASSUME NEW x \in Exchanges, NEW s \in Streams, Enqueue(x, s) PROVE ClosedIsGone'
    BY <1>11 DEF Enqueue, TakeClient
  <1>12. ASSUME NEW x \in Exchanges, NEW s \in Streams, FindFull(x, s) PROVE ClosedIsGone'
    BY <1>12 DEF FindFull, TakeClient
  <1>13. ASSUME NEW x \in Exchanges, NEW s \in Streams, SendOnClosed(x, s) PROVE ClosedIsGone'
    BY <1>13 DEF SendOnClosed, TakeClient
  <1>14. ASSUME NEW x \in Exchanges, RemoveFull(x) PROVE ClosedIsGone'
    BY <1>14 DEF RemoveFull, WithoutName
  <1>15. ASSUME NEW x \in Exchanges, ReceiveNil(x) PROVE ClosedIsGone'
    BY <1>15 DEF ReceiveNil
  <1>16. ASSUME NEW x \in Exchanges, RemoveEmpty(x) PROVE ClosedIsGone'
    BY <1>16 DEF RemoveEmpty, WithoutName
  <1>17. ASSUME NEW x \in Exchanges, Return(x) PROVE ClosedIsGone'
    BY <1>17 DEF Return
  <1>18. ASSUME NEW s \in Streams, CloseFires(s) PROVE ClosedIsGone'
    BY <1>18 DEF CloseFires
  <1>19. CASE Quiet
    BY <1>19 DEF Quiet
  <1>20. CASE UNCHANGED vars
    BY <1>20
  <1> QED
    BY <1>1, <1>2, <1>3, <1>4, <1>5, <1>6, <1>7, <1>8, <1>9, <1>10, <1>11, <1>12,
       <1>13, <1>14, <1>15, <1>16, <1>17, <1>18, <1>19, <1>20
    DEF Next, RequestMod, ResponseMod, Handler, Serve,
        RequestModHook, ResponseModHook, Hook, Proceed

\* No exchange that arrives finds, in the map, a plugin whose channel has been
\* closed or is going to be: for any number of plugins that share names or not.
THEOREM ClosedChannelsAreGone == Spec => []ClosedIsGone
  <1>1. Init => ClosedIsGone
    BY DEF Init, ClosedIsGone
  <1> QED
    BY <1>1, Invariant, StepClosedIsGone, PTL DEF Spec

-----------------------------------------------------------------------------
(***************************************************************************)
(* ResponseMod: nobody is left connected but forgotten.                    *)
(***************************************************************************)

LEMMA StepNoOrphan ==
  ASSUME Kind = "response", IInv, NoOrphan, [Next]_vars
  PROVE  NoOrphan'
  <1> USE DEF IInv, TypeOK, Known, Registered, NoOrphan, Unshared, Live,
              vars, channelVars, handlerVars, hookVars
  <1>1. ASSUME NEW s \in Streams, RegisterFails(s) PROVE NoOrphan'
    BY <1>1 DEF RegisterFails
  <1>2. ASSUME NEW s \in Streams, RegisterDuplicate(s) PROVE NoOrphan'
    BY <1>2 DEF RegisterDuplicate
  <1>3. ASSUME NEW s \in Streams, Register(s) PROVE NoOrphan'
    BY <1>3 DEF Register
  <1>4. ASSUME NEW s \in Streams, Forward(s) PROVE NoOrphan'
    BY <1>4 DEF Forward
  <1>5. ASSUME NEW s \in Streams, SendFails(s) PROVE NoOrphan'
    BY <1>5 DEF SendFails
  <1>6. ASSUME NEW s \in Streams, Answered(s) PROVE NoOrphan'
    BY <1>6 DEF Answered
  <1>7. ASSUME NEW s \in Streams, AnswerFails(s) PROVE NoOrphan'
    BY <1>7 DEF AnswerFails
  <1>8. ASSUME NEW s \in Streams, Deliver(s) PROVE NoOrphan'
    BY <1>8 DEF Deliver
  <1>9. ASSUME NEW s \in Streams, RangeEnds(s) PROVE NoOrphan'
    BY <1>9 DEF RangeEnds
  <1>10. ASSUME NEW x \in Exchanges, Snapshot(x) PROVE NoOrphan'
    BY <1>10 DEF Snapshot
  <1>11. ASSUME NEW x \in Exchanges, NEW s \in Streams, Enqueue(x, s) PROVE NoOrphan'
    BY <1>11 DEF Enqueue, TakeClient
  <1>12. ASSUME NEW x \in Exchanges, NEW s \in Streams, FindFull(x, s) PROVE NoOrphan'
    BY <1>12 DEF FindFull, TakeClient
  <1>13. ASSUME NEW x \in Exchanges, NEW s \in Streams, SendOnClosed(x, s) PROVE NoOrphan'
    BY <1>13 DEF SendOnClosed, TakeClient
  <1>14. ASSUME NEW x \in Exchanges, RemoveFull(x) PROVE NoOrphan'
    BY <1>14 DEF RemoveFull, WithoutName
  <1>15. ASSUME NEW x \in Exchanges, ReceiveNil(x) PROVE NoOrphan'
    BY <1>15 DEF ReceiveNil
  <1>16. ASSUME NEW x \in Exchanges, RemoveEmpty(x) PROVE NoOrphan'
    BY <1>16 DEF RemoveEmpty, WithoutName
  <1>17. ASSUME NEW x \in Exchanges, Return(x) PROVE NoOrphan'
    BY <1>17 DEF Return
  <1>18. ASSUME NEW s \in Streams, CloseFires(s) PROVE NoOrphan'
    BY <1>18 DEF CloseFires
  <1>19. CASE Quiet
    BY <1>19 DEF Quiet
  <1>20. CASE UNCHANGED vars
    BY <1>20
  <1> QED
    BY <1>1, <1>2, <1>3, <1>4, <1>5, <1>6, <1>7, <1>8, <1>9, <1>10, <1>11, <1>12,
       <1>13, <1>14, <1>15, <1>16, <1>17, <1>18, <1>19, <1>20
    DEF Next, RequestMod, ResponseMod, Handler, Serve,
        RequestModHook, ResponseModHook, Hook, Proceed

\* Dropping a response plugin releases it, whatever the others are called, unless
\* another stream ever registered under its name.  (RequestMod never closes the
\* channel of a full plugin: TLC shows it.)
THEOREM ResponsePluginsAreReleased ==
  ASSUME Kind = "response"
  PROVE  Spec => []NoOrphan
  <1>1. Init => NoOrphan
    BY DEF Init, NoOrphan, Live
  <1>2. IInv /\ NoOrphan /\ [Next]_vars => NoOrphan'
    BY StepNoOrphan
  <1> QED
    BY <1>1, <1>2, Invariant, PTL DEF Spec

-----------------------------------------------------------------------------
(***************************************************************************)
(* One name: no exchange sends on a closed channel.                        *)
(***************************************************************************)

\* With one name there is one plugin in the map at a time, so a snapshot that
\* still has a plugin in it was never interrupted by a wait: the channel of that
\* plugin, in the map when the snapshot was taken, cannot have been closed since.
OneAtATime ==
  /\ \A s, t \in clients : s = t
  /\ \A x \in Exchanges : \A s, t \in todo[x] : s = t
  /\ \A x \in Exchanges : pc[x] # "ready" => todo[x] = {}
  /\ \A x \in Exchanges : \A s \in todo[x] : ~closed[s]

LEMMA StepNoPanic ==
  ASSUME \A s, t \in Streams : NameOf[s] = NameOf[t],
         IInv, ClosedIsGone, OneAtATime, NoPanic, [Next]_vars
  PROVE  OneAtATime' /\ NoPanic'
  <1> USE DEF IInv, TypeOK, Known, Registered, ClosedIsGone, OneAtATime, NoPanic,
              vars, channelVars, handlerVars, hookVars
  <1>1. ASSUME NEW s \in Streams, RegisterFails(s) PROVE OneAtATime' /\ NoPanic'
    BY <1>1 DEF RegisterFails
  <1>2. ASSUME NEW s \in Streams, RegisterDuplicate(s) PROVE OneAtATime' /\ NoPanic'
    BY <1>2 DEF RegisterDuplicate
  <1>3. ASSUME NEW s \in Streams, Register(s) PROVE OneAtATime' /\ NoPanic'
    BY <1>3 DEF Register
  <1>4. ASSUME NEW s \in Streams, Forward(s) PROVE OneAtATime' /\ NoPanic'
    BY <1>4 DEF Forward
  <1>5. ASSUME NEW s \in Streams, SendFails(s) PROVE OneAtATime' /\ NoPanic'
    BY <1>5 DEF SendFails
  <1>6. ASSUME NEW s \in Streams, Answered(s) PROVE OneAtATime' /\ NoPanic'
    BY <1>6 DEF Answered
  <1>7. ASSUME NEW s \in Streams, AnswerFails(s) PROVE OneAtATime' /\ NoPanic'
    BY <1>7 DEF AnswerFails
  <1>8. ASSUME NEW s \in Streams, Deliver(s) PROVE OneAtATime' /\ NoPanic'
    BY <1>8 DEF Deliver
  <1>9. ASSUME NEW s \in Streams, RangeEnds(s) PROVE OneAtATime' /\ NoPanic'
    BY <1>9 DEF RangeEnds
  <1>10. ASSUME NEW x \in Exchanges, Snapshot(x) PROVE OneAtATime' /\ NoPanic'
    BY <1>10 DEF Snapshot
  <1>11. ASSUME NEW x \in Exchanges, NEW s \in Streams, Enqueue(x, s) PROVE OneAtATime' /\ NoPanic'
    BY <1>11 DEF Enqueue, TakeClient
  <1>12. ASSUME NEW x \in Exchanges, NEW s \in Streams, FindFull(x, s) PROVE OneAtATime' /\ NoPanic'
    BY <1>12 DEF FindFull, TakeClient
  <1>13. ASSUME NEW x \in Exchanges, NEW s \in Streams, SendOnClosed(x, s) PROVE OneAtATime' /\ NoPanic'
    BY <1>13 DEF SendOnClosed, TakeClient
  <1>14. ASSUME NEW x \in Exchanges, RemoveFull(x) PROVE OneAtATime' /\ NoPanic'
    BY <1>14 DEF RemoveFull, WithoutName
  <1>15. ASSUME NEW x \in Exchanges, ReceiveNil(x) PROVE OneAtATime' /\ NoPanic'
    BY <1>15 DEF ReceiveNil
  <1>16. ASSUME NEW x \in Exchanges, RemoveEmpty(x) PROVE OneAtATime' /\ NoPanic'
    BY <1>16 DEF RemoveEmpty, WithoutName
  <1>17. ASSUME NEW x \in Exchanges, Return(x) PROVE OneAtATime' /\ NoPanic'
    BY <1>17 DEF Return
  <1>18. ASSUME NEW s \in Streams, CloseFires(s) PROVE OneAtATime' /\ NoPanic'
    BY <1>18 DEF CloseFires, AboutToSend
  <1>19. CASE Quiet
    BY <1>19 DEF Quiet
  <1>20. CASE UNCHANGED vars
    BY <1>20
  <1> QED
    BY <1>1, <1>2, <1>3, <1>4, <1>5, <1>6, <1>7, <1>8, <1>9, <1>10, <1>11, <1>12,
       <1>13, <1>14, <1>15, <1>16, <1>17, <1>18, <1>19, <1>20
    DEF Next, RequestMod, ResponseMod, Handler, Serve,
        RequestModHook, ResponseModHook, Hook, Proceed

\* While all streams register one name -- one plugin, connecting as often as it
\* likes -- no exchange panics on a closed channel.  (With two plugins, waiting
\* for one can outlast the other's 60 seconds: SendOnClosed is reached.)
THEOREM OnePluginNeverPanics ==
  ASSUME \A s, t \in Streams : NameOf[s] = NameOf[t]
  PROVE  Spec => []NoPanic
  <1>1. Init => OneAtATime /\ NoPanic
    BY DEF Init, OneAtATime, NoPanic
  <1>2. IInv /\ ClosedIsGone /\ OneAtATime /\ NoPanic /\ [Next]_vars
          => OneAtATime' /\ NoPanic'
    BY StepNoPanic
  <1> QED
    BY <1>1, <1>2, Invariant, ClosedChannelsAreGone, PTL DEF Spec

-----------------------------------------------------------------------------
(***************************************************************************)
(* Every handler owes exactly as many answers as there are exchanges that  *)
(* wait for one.                                                           *)
(***************************************************************************)

\* What a running handler has yet to answer.
Owed(s) == Len(queue[s]) + (IF InHand(s) THEN 1 ELSE 0)

\* NobodyLost counts, so the sets it counts have to be finite: however many
\* exchanges there are, finitely many have come to a plugin so far.
WaitersAreFinite == \A s \in Streams : IsFiniteSet(Waiting(s))

LEMMA OwedIsNatural == IInv => \A s \in Streams : Owed(s) \in Nat
  BY DEF IInv, TypeOK, Owed

\* What a step can do to one plugin's account: nothing, unless its handler ends;
\* one more exchange waits for one more answer; or one waits no longer, because it
\* was answered or because the handler has ended.
Settled(t) ==
  /\ Waiting(t)' = Waiting(t)
  /\ phase'[t] = "ended" \/ (phase[t] # "ended" /\ Owed(t)' = Owed(t))

Joined(t) ==
  /\ \E x \in Exchanges : x \notin Waiting(t) /\ Waiting(t)' = Waiting(t) \cup {x}
  /\ phase'[t] = phase[t]
  /\ Owed(t)' = Owed(t) + 1

Left(t) ==
  /\ \E x \in Waiting(t) : Waiting(t)' = Waiting(t) \ {x}
  /\ phase'[t] = "ended" \/ (phase[t] # "ended" /\ Owed(t)' = Owed(t) - 1)

LEMMA StepAccount ==
  ASSUME IInv, [Next]_vars, NEW t \in Streams
  PROVE  Settled(t) \/ Joined(t) \/ Left(t)
  <1> DEFINE Goal == Settled(t) \/ Joined(t) \/ Left(t)
  <1> USE DEF IInv, TypeOK, Known, Registered, Waiting, Owed, InHand, Phases, Steps,
              vars, channelVars, handlerVars, hookVars
  <1>1. ASSUME NEW s \in Streams, RegisterFails(s) PROVE Goal
    BY <1>1 DEF RegisterFails, Settled
  <1>2. ASSUME NEW s \in Streams, RegisterDuplicate(s) PROVE Goal
    BY <1>2 DEF RegisterDuplicate, Settled
  <1>3. ASSUME NEW s \in Streams, Register(s) PROVE Goal
    BY <1>3 DEF Register, Settled
  <1>4. ASSUME NEW s \in Streams, Forward(s) PROVE Goal
    <2>1. Waiting(t)' = Waiting(t)
      BY <1>4 DEF Forward
    <2>2. Len(Tail(queue[s])) = Len(queue[s]) - 1
      BY <1>4 DEF Forward
    <2>3. phase[t] # "ended" \/ phase'[t] = "ended"
      BY <1>4 DEF Forward
    <2>4. Owed(t)' = Owed(t)
      <3>1. CASE t = s
        BY <1>4, <2>2, <3>1 DEF Forward
      <3>2. CASE t # s
        BY <1>4, <3>2 DEF Forward
      <3> QED
        BY <3>1, <3>2
    <2> QED
      BY <2>1, <2>3, <2>4 DEF Settled
  <1>5. ASSUME NEW s \in Streams, SendFails(s) PROVE Goal
    BY <1>5 DEF SendFails, Settled
  <1>6. ASSUME NEW s \in Streams, Answered(s) PROVE Goal
    BY <1>6 DEF Answered, Settled
  <1>7. ASSUME NEW s \in Streams, AnswerFails(s) PROVE Goal
    BY <1>7 DEF AnswerFails, Settled
  <1>8. ASSUME NEW s \in Streams, Deliver(s) PROVE Goal
    <2>1. PICK x \in Exchanges : /\ pc[x] = "waiting" /\ cur[x] = s
                                 /\ pc' = [pc EXCEPT ![x] = "ready"]
      BY <1>8 DEF Deliver
    <2>2. Waiting(s)' = Waiting(s) \ {x} /\ x \in Waiting(s)
      BY <1>8, <2>1 DEF Deliver
    <2>3. Owed(s)' = Owed(s) - 1 /\ phase[s] # "ended"
      BY <1>8 DEF Deliver
    <2>4. CASE t = s
      BY <2>2, <2>3, <2>4 DEF Left
    <2>5. CASE t # s
      <3>1. Waiting(t)' = Waiting(t)
        BY <1>8, <2>1, <2>5 DEF Deliver
      <3>2. Owed(t)' = Owed(t) /\ phase'[t] = phase[t]
        BY <1>8, <2>5 DEF Deliver
      <3> QED
        BY <3>1, <3>2 DEF Settled
    <2> QED
      BY <2>4, <2>5
  <1>9. ASSUME NEW s \in Streams, RangeEnds(s) PROVE Goal
    BY <1>9 DEF RangeEnds, Settled
  <1>10. ASSUME NEW x \in Exchanges, Snapshot(x) PROVE Goal
    BY <1>10 DEF Snapshot, Settled
  <1>11. ASSUME NEW x \in Exchanges, NEW s \in Streams, Enqueue(x, s) PROVE Goal
    <2>1. x \notin Waiting(s) /\ Waiting(s)' = Waiting(s) \cup {x}
      BY <1>11 DEF Enqueue, TakeClient
    <2>2. Owed(s)' = Owed(s) + 1 /\ phase' = phase
      BY <1>11 DEF Enqueue, TakeClient
    <2>3. CASE t = s
      BY <2>1, <2>2, <2>3 DEF Joined
    <2>4. CASE t # s
      <3>1. Waiting(t)' = Waiting(t)
        BY <1>11, <2>4 DEF Enqueue, TakeClient
      <3>2. Owed(t)' = Owed(t)
        BY <1>11, <2>4 DEF Enqueue, TakeClient
      <3> QED
        BY <2>2, <3>1, <3>2 DEF Settled
    <2> QED
      BY <2>3, <2>4
  <1>12. ASSUME NEW x \in Exchanges, NEW s \in Streams, FindFull(x, s) PROVE Goal
    BY <1>12 DEF FindFull, TakeClient, Settled
  <1>13. ASSUME NEW x \in Exchanges, NEW s \in Streams, SendOnClosed(x, s) PROVE Goal
    BY <1>13 DEF SendOnClosed, TakeClient, Settled
  <1>14. ASSUME NEW x \in Exchanges, RemoveFull(x) PROVE Goal
    BY <1>14 DEF RemoveFull, Settled
  <1>15. ASSUME NEW x \in Exchanges, ReceiveNil(x) PROVE Goal
    <2>1. CASE t = cur[x]
      <3>1. x \in Waiting(t) /\ Waiting(t)' = Waiting(t) \ {x}
        BY <1>15, <2>1 DEF ReceiveNil
      <3> QED
        BY <1>15, <2>1, <3>1 DEF ReceiveNil, Left
    <2>2. CASE t # cur[x]
      <3>1. Waiting(t)' = Waiting(t)
        BY <1>15, <2>2 DEF ReceiveNil
      <3> QED
        BY <1>15, <3>1 DEF ReceiveNil, Settled
    <2> QED
      BY <2>1, <2>2
  <1>16. ASSUME NEW x \in Exchanges, RemoveEmpty(x) PROVE Goal
    BY <1>16 DEF RemoveEmpty, Settled
  <1>17. ASSUME NEW x \in Exchanges, Return(x) PROVE Goal
    BY <1>17 DEF Return, Settled
  <1>18. ASSUME NEW s \in Streams, CloseFires(s) PROVE Goal
    BY <1>18 DEF CloseFires, Settled
  <1>19. CASE Quiet
    BY <1>19 DEF Quiet, Settled
  <1>20. CASE UNCHANGED vars
    BY <1>20 DEF Settled
  <1> QED
    BY <1>1, <1>2, <1>3, <1>4, <1>5, <1>6, <1>7, <1>8, <1>9, <1>10, <1>11, <1>12,
       <1>13, <1>14, <1>15, <1>16, <1>17, <1>18, <1>19, <1>20
    DEF Next, RequestMod, ResponseMod, Handler, Serve,
        RequestModHook, ResponseModHook, Hook, Proceed

LEMMA StepNobodyLost ==
  IInv /\ WaitersAreFinite /\ NobodyLost /\ [Next]_vars
    => WaitersAreFinite' /\ NobodyLost'
  <1> SUFFICES ASSUME IInv, WaitersAreFinite, NobodyLost, [Next]_vars,
                      NEW t \in Streams
               PROVE  /\ IsFiniteSet(Waiting(t)')
                      /\ phase'[t] # "ended" => Cardinality(Waiting(t)') = Owed(t)'
    BY DEF WaitersAreFinite, NobodyLost, Owed
  <1>1. /\ IsFiniteSet(Waiting(t))
        /\ phase[t] # "ended" => Cardinality(Waiting(t)) = Owed(t)
    BY DEF WaitersAreFinite, NobodyLost, Owed
  <1>2. Owed(t) \in Nat
    BY OwedIsNatural
  <1>3. CASE Settled(t)
    BY <1>1, <1>3 DEF Settled
  <1>4. CASE Joined(t)
    <2>1. /\ IsFiniteSet(Waiting(t)')
          /\ Cardinality(Waiting(t)') = Cardinality(Waiting(t)) + 1
      BY <1>1, <1>4, FS_AddElement DEF Joined
    <2> QED
      BY <1>1, <1>4, <2>1 DEF Joined
  <1>5. CASE Left(t)
    <2>1. /\ IsFiniteSet(Waiting(t)')
          /\ Cardinality(Waiting(t)') = Cardinality(Waiting(t)) - 1
      BY <1>1, <1>5, FS_RemoveElement DEF Left
    <2> QED
      BY <1>1, <1>5, <2>1 DEF Left
  <1> QED
    BY <1>3, <1>4, <1>5, StepAccount

\* The exchanges blocked on a running handler are always as many as the answers
\* it owes: it never offers a reply that nobody will take, and no exchange waits
\* at a handler that has nothing to do.
THEOREM AnswersMatchWaiters == Spec => []NobodyLost
  <1>1. Init => WaitersAreFinite /\ NobodyLost
    <2> SUFFICES ASSUME Init, NEW s \in Streams
                 PROVE  /\ IsFiniteSet(Waiting(s))
                        /\ Cardinality(Waiting(s)) = Len(queue[s]) + (IF InHand(s) THEN 1 ELSE 0)
      BY DEF WaitersAreFinite, NobodyLost
    <2>1. Waiting(s) = {} /\ Len(queue[s]) = 0 /\ ~InHand(s)
      BY DEF Init, Waiting, InHand
    <2> QED
      BY <2>1, FS_EmptySet
  <1> QED
    BY <1>1, Invariant, StepNobodyLost, PTL DEF Spec

-----------------------------------------------------------------------------
(***************************************************************************)
(* While streams hold, every message is in one place.                      *)
(***************************************************************************)

Carries(x, m) == pc[x] # "waiting" /\ msg[x] = m
Holds(s, m) == InHand(s) /\ held[s] = m
HasQueued(s, i, m) == i \in 1 .. Len(queue[s]) /\ queue[s][i] = m

\* A message is somewhere, and nowhere else.
Somewhere(m) ==
  \/ \E x \in Exchanges : Carries(x, m)
  \/ \E s \in Streams : Holds(s, m)
  \/ \E s \in Streams, i \in Nat : HasQueued(s, i, m)

OnePlace(m) ==
  /\ \A x, y \in Exchanges : Carries(x, m) /\ Carries(y, m) => x = y
  /\ \A s, t \in Streams : Holds(s, m) /\ Holds(t, m) => s = t
  /\ \A s, t \in Streams, i, j \in Nat : HasQueued(s, i, m) /\ HasQueued(t, j, m) => s = t /\ i = j
  /\ \A x \in Exchanges, s \in Streams : ~(Carries(x, m) /\ Holds(s, m))
  /\ \A x \in Exchanges, s \in Streams, i \in Nat : ~(Carries(x, m) /\ HasQueued(s, i, m))
  /\ \A s, t \in Streams, i \in Nat : ~(Holds(s, m) /\ HasQueued(t, i, m))

Unbroken == \A s \in Streams : phase[s] # "ended"

Placed ==
  /\ \A s \in Streams : Len(queue[s]) <= QueueSize
  /\ Unbroken => \A m \in Exchanges : Somewhere(m) /\ OnePlace(m)

\* A step that moves no message.
LEMMA NothingMoves ==
  ASSUME NEW m \in Exchanges, Somewhere(m), OnePlace(m),
         \A x \in Exchanges : Carries(x, m)' <=> Carries(x, m),
         \A s \in Streams : Holds(s, m)' <=> Holds(s, m),
         \A s \in Streams, i \in Nat : HasQueued(s, i, m)' <=> HasQueued(s, i, m)
  PROVE  Somewhere(m)' /\ OnePlace(m)'
  <1>1. Somewhere(m)'
    BY DEF Somewhere
  <1>2. OnePlace(m)'
    BY DEF OnePlace
  <1> QED
    BY <1>1, <1>2

\* The queue of stream s loses its first message, the others of the queue move up.
LEMMA QueueMovesUp ==
  ASSUME IInv, NEW s \in Streams, queue[s] # <<>>, queue' = [queue EXCEPT ![s] = Tail(@)]
  PROVE  /\ \A m \in Exchanges, t \in Streams, i \in Nat :
              HasQueued(t, i, m)' <=> IF t = s THEN i # 0 /\ HasQueued(t, i + 1, m) ELSE HasQueued(t, i, m)
         /\ HasQueued(s, 1, Head(queue[s]))
         /\ Head(queue[s]) \in Exchanges
         /\ \A t \in Streams : Len(queue'[t]) <= Len(queue[t])
  <1>1. queue[s] \in Seq(Exchanges) /\ queue'[s] = Tail(queue[s])
    BY DEF IInv, TypeOK
  <1>2. /\ Len(Tail(queue[s])) = Len(queue[s]) - 1
        /\ \A i \in 1 .. Len(queue[s]) - 1 : Tail(queue[s])[i] = queue[s][i + 1]
        /\ Len(queue[s]) \in Nat \ {0}
        /\ Head(queue[s]) = queue[s][1]
    BY <1>1
  <1>3. \A t \in Streams \ {s} : queue'[t] = queue[t] /\ Len(queue[t]) \in Nat
    BY DEF IInv, TypeOK
  <1>4. ASSUME NEW m \in Exchanges, NEW i \in Nat
        PROVE  HasQueued(s, i, m)' <=> i # 0 /\ HasQueued(s, i + 1, m)
    <2> DEFINE n == Len(queue[s])
    <2>1. n \in Nat \ {0} /\ Len(queue'[s]) = n - 1
      BY <1>1, <1>2
    <2>2. CASE i \in 1 .. n - 1
      <3>1. queue'[s][i] = queue[s][i + 1]
        BY <1>1, <1>2, <2>2
      <3>2. i \in 1 .. Len(queue'[s]) /\ i + 1 \in 1 .. n /\ i # 0
        BY <2>1, <2>2
      <3> QED
        BY <3>1, <3>2 DEF HasQueued
    <2>3. CASE i \notin 1 .. n - 1
      <3>1. i \notin 1 .. Len(queue'[s]) /\ (i = 0 \/ i + 1 \notin 1 .. n)
        BY <2>1, <2>3
      <3> QED
        BY <3>1 DEF HasQueued
    <2> QED
      BY <2>2, <2>3
  <1>5. ASSUME NEW m \in Exchanges, NEW t \in Streams \ {s}, NEW i \in Nat
        PROVE  HasQueued(t, i, m)' <=> HasQueued(t, i, m)
    BY <1>3 DEF HasQueued
  <1>6. HasQueued(s, 1, Head(queue[s])) /\ Head(queue[s]) \in Exchanges
    BY <1>1, <1>2 DEF HasQueued
  <1>7. \A t \in Streams : Len(queue'[t]) <= Len(queue[t])
    BY <1>1, <1>2, <1>3
  <1> QED
    BY <1>4, <1>5, <1>6, <1>7

LEMMA QueueGrows ==
  ASSUME IInv, NEW s \in Streams, NEW v \in Exchanges, queue' = [queue EXCEPT ![s] = Append(@, v)]
  PROVE  /\ \A m \in Exchanges, t \in Streams, i \in Nat :
              HasQueued(t, i, m)' <=>
                HasQueued(t, i, m) \/ (t = s /\ i = Len(queue[s]) + 1 /\ m = v)
         /\ Len(queue'[s]) = Len(queue[s]) + 1
         /\ Len(queue[s]) \in Nat
         /\ \A t \in Streams \ {s} : queue'[t] = queue[t]
  <1>1. queue[s] \in Seq(Exchanges) /\ queue'[s] = Append(queue[s], v)
    BY DEF IInv, TypeOK
  <1>2. /\ Len(Append(queue[s], v)) = Len(queue[s]) + 1
        /\ \A i \in 1 .. Len(queue[s]) : Append(queue[s], v)[i] = queue[s][i]
        /\ Append(queue[s], v)[Len(queue[s]) + 1] = v
        /\ Len(queue[s]) \in Nat
    BY <1>1
  <1>3. \A t \in Streams \ {s} : queue'[t] = queue[t]
    BY DEF IInv, TypeOK
  <1> QED
    BY <1>1, <1>2, <1>3 DEF HasQueued

\* The handler takes the first message of its queue.
LEMMA ForwardMoves ==
  ASSUME IInv, NEW s \in Streams, Forward(s), NEW m \in Exchanges, Somewhere(m), OnePlace(m)
  PROVE  Somewhere(m)' /\ OnePlace(m)'
  <1>1. /\ \A t \in Streams, i \in Nat :
              HasQueued(t, i, m)' <=> IF t = s THEN i # 0 /\ HasQueued(t, i + 1, m) ELSE HasQueued(t, i, m)
        /\ HasQueued(s, 1, Head(queue[s]))
    BY QueueMovesUp DEF Forward
  <1>2. \A x \in Exchanges : Carries(x, m)' <=> Carries(x, m)
    BY DEF Forward, Carries, hookVars
  <1>3. \A t \in Streams : Holds(t, m)' <=> IF t = s THEN m = Head(queue[s]) ELSE Holds(t, m)
    BY DEF Forward, Holds, InHand, IInv, TypeOK
  <1>4. ~Holds(s, m)
    BY DEF Forward, Holds, InHand
  <1>5. \A t \in Streams, i \in Nat : HasQueued(t, i, m) => i # 0
    BY DEF HasQueued, IInv, TypeOK
  <1>6. Somewhere(m)'
    <2>1. CASE m = Head(queue[s])
      BY <1>3, <2>1 DEF Somewhere
    <2>2. CASE m # Head(queue[s])
      <3>1. ASSUME NEW t \in Streams, NEW i \in Nat, HasQueued(t, i, m)
            PROVE  \E j \in Nat : HasQueued(t, j, m)'
        <4>1. CASE t # s
          BY <1>1, <3>1, <4>1
        <4>2. CASE t = s
          <5>1. i # 1
            BY <2>2, <1>1, <3>1, <4>2 DEF HasQueued
          <5>2. i - 1 \in Nat /\ i - 1 # 0 /\ (i - 1) + 1 = i
            BY <1>5, <3>1, <5>1
          <5> QED
            BY <1>1, <3>1, <4>2, <5>2
        <4> QED
          BY <4>1, <4>2
      <3> QED
        BY <1>2, <1>3, <1>4, <3>1 DEF Somewhere
    <2> QED
      BY <2>1, <2>2
  <1>7. OnePlace(m)'
    <2>1. CASE m = Head(queue[s])
      <3>1. HasQueued(s, 1, m)
        BY <1>1, <2>1
      <3>2. \A x \in Exchanges : ~Carries(x, m)
        BY <3>1 DEF OnePlace
      <3>3. \A t \in Streams : ~Holds(t, m)
        BY <3>1 DEF OnePlace
      <3>4. \A t \in Streams, i \in Nat : ~HasQueued(t, i, m)'
        <4> TAKE t \in Streams, i \in Nat
        <4>1. CASE t # s
          BY <1>1, <3>1, <4>1 DEF OnePlace
        <4>2. CASE t = s
          <5> SUFFICES ASSUME i # 0, HasQueued(s, i + 1, m) PROVE FALSE
            BY <1>1, <4>2
          <5>1. i + 1 \in Nat /\ i + 1 # 1
            OBVIOUS
          <5> QED
            BY <3>1, <5>1 DEF OnePlace
        <4> QED
          BY <4>1, <4>2
      <3> QED
        BY <1>2, <1>3, <3>2, <3>3, <3>4 DEF OnePlace
    <2>2. CASE m # Head(queue[s])
      <3>1. \A t \in Streams : Holds(t, m)' => Holds(t, m)
        BY <1>3, <2>2
      <3>2. \A t \in Streams, i \in Nat : HasQueued(t, i, m)' => \E j \in Nat : HasQueued(t, j, m) /\ (IF t = s THEN j = i + 1 ELSE j = i)
        BY <1>1
      <3>3. /\ \A x, y \in Exchanges : Carries(x, m)' /\ Carries(y, m)' => x = y
            /\ \A t, u \in Streams : Holds(t, m)' /\ Holds(u, m)' => t = u
            /\ \A x \in Exchanges, t \in Streams : ~(Carries(x, m)' /\ Holds(t, m)')
        BY <1>2, <3>1 DEF OnePlace
      <3>4. \A t, u \in Streams, i, j \in Nat : HasQueued(t, i, m)' /\ HasQueued(u, j, m)' => t = u /\ i = j
        BY <3>2 DEF OnePlace
      <3>5. /\ \A x \in Exchanges, t \in Streams, i \in Nat : ~(Carries(x, m)' /\ HasQueued(t, i, m)')
            /\ \A t, u \in Streams, i \in Nat : ~(Holds(t, m)' /\ HasQueued(u, i, m)')
        BY <1>2, <3>1, <3>2 DEF OnePlace
      <3> QED
        BY <3>3, <3>4, <3>5 DEF OnePlace
    <2> QED
      BY <2>1, <2>2
  <1> QED
    BY <1>6, <1>7

\* An exchange that waits takes the message from the handler.
LEMMA DeliverMoves ==
  ASSUME IInv, NEW s \in Streams, Deliver(s), NEW m \in Exchanges, Somewhere(m), OnePlace(m)
  PROVE  Somewhere(m)' /\ OnePlace(m)'
  <1>1. PICK x \in Exchanges : /\ pc[x] = "waiting"
                               /\ msg' = [msg EXCEPT ![x] = held[s]]
                               /\ pc' = [pc EXCEPT ![x] = "ready"]
    BY DEF Deliver
  <1>2. \A t \in Streams, i \in Nat : HasQueued(t, i, m)' <=> HasQueued(t, i, m)
    BY DEF Deliver, HasQueued, channelVars
  <1>3. \A y \in Exchanges : Carries(y, m)' <=> IF y = x THEN m = held[s] ELSE Carries(y, m)
    BY <1>1 DEF Carries, IInv, TypeOK
  <1>4. \A t \in Streams : Holds(t, m)' <=> t # s /\ Holds(t, m)
    BY DEF Deliver, Holds, InHand, IInv, TypeOK
  <1>5. Holds(s, m) <=> m = held[s]
    BY DEF Deliver, Holds, InHand
  <1>6. ~Carries(x, m)
    BY <1>1 DEF Carries
  <1>7. Somewhere(m)'
    BY <1>2, <1>3, <1>4, <1>5, <1>6 DEF Somewhere
  <1>8. OnePlace(m)'
    BY <1>2, <1>3, <1>4, <1>5, <1>6 DEF OnePlace
  <1> QED
    BY <1>7, <1>8

\* An exchange puts the message it carries in a queue, and waits.
LEMMA EnqueueMoves ==
  ASSUME IInv, NEW x \in Exchanges, NEW s \in Streams, Enqueue(x, s),
         NEW m \in Exchanges, Somewhere(m), OnePlace(m)
  PROVE  Somewhere(m)' /\ OnePlace(m)'
  <1>1. msg[x] \in Exchanges /\ queue' = [queue EXCEPT ![s] = Append(@, msg[x])]
    BY DEF Enqueue, TakeClient, IInv, TypeOK
  <1>2. /\ \A t \in Streams, i \in Nat :
              HasQueued(t, i, m)' <=>
                HasQueued(t, i, m) \/ (t = s /\ i = Len(queue[s]) + 1 /\ m = msg[x])
        /\ Len(queue[s]) + 1 \in Nat
    <2>1. Len(queue[s]) \in Nat
      BY DEF IInv, TypeOK
    <2>2. \A t \in Streams, i \in Nat :
            HasQueued(t, i, m)' <=>
              HasQueued(t, i, m) \/ (t = s /\ i = Len(queue[s]) + 1 /\ m = msg[x])
      BY <1>1, QueueGrows
    <2> QED
      BY <2>1, <2>2
  <1>3. \A y \in Exchanges : Carries(y, m)' <=> y # x /\ Carries(y, m)
    BY DEF Enqueue, TakeClient, Carries, IInv, TypeOK
  <1>4. Carries(x, m) <=> m = msg[x]
    BY DEF Enqueue, TakeClient, Carries
  <1>5. \A t \in Streams : Holds(t, m)' <=> Holds(t, m)
    BY DEF Enqueue, TakeClient, Holds, InHand, handlerVars
  <1>6. Somewhere(m)'
    BY <1>2, <1>3, <1>4, <1>5 DEF Somewhere
  <1>7. OnePlace(m)'
    BY <1>2, <1>3, <1>4, <1>5 DEF OnePlace
  <1> QED
    BY <1>6, <1>7

\* What a step does to messages, by whether it is one of the three.
LEMMA StepMoves ==
  ASSUME IInv, [Next]_vars, Unbroken'
  PROVE  /\ Unbroken
         /\ \/ \E s \in Streams : Forward(s) \/ Deliver(s)
            \/ \E x \in Exchanges, s \in Streams : Enqueue(x, s)
            \/ /\ UNCHANGED <<queue, held, msg>>
               /\ \A x \in Exchanges : pc'[x] = "waiting" <=> pc[x] = "waiting"
               /\ \A s \in Streams : InHand(s)' <=> InHand(s)
  <1> DEFINE Still == /\ UNCHANGED <<queue, held, msg>>
                      /\ \A x \in Exchanges : pc'[x] = "waiting" <=> pc[x] = "waiting"
                      /\ \A s \in Streams : InHand(s)' <=> InHand(s)
             Moved == \/ \E s \in Streams : Forward(s) \/ Deliver(s)
                      \/ \E x \in Exchanges, s \in Streams : Enqueue(x, s)
             Goal == Unbroken /\ (Moved \/ Still)
  <1> USE DEF IInv, TypeOK, Known, Registered, InHand, Phases, Steps, Unbroken,
              vars, channelVars, handlerVars, hookVars
  <1>1. ASSUME NEW s \in Streams, RegisterFails(s) PROVE Goal
    BY <1>1 DEF RegisterFails
  <1>2. ASSUME NEW s \in Streams, RegisterDuplicate(s) PROVE Goal
    BY <1>2 DEF RegisterDuplicate
  <1>3. ASSUME NEW s \in Streams, Register(s) PROVE Goal
    BY <1>3 DEF Register
  <1>4. ASSUME NEW s \in Streams, Forward(s) PROVE Goal
    <2>1. Unbroken
      BY <1>4 DEF Forward
    <2> QED
      BY <1>4, <2>1
  <1>5. ASSUME NEW s \in Streams, SendFails(s) PROVE Goal
    BY <1>5 DEF SendFails
  <1>6. ASSUME NEW s \in Streams, Answered(s) PROVE Goal
    BY <1>6 DEF Answered
  <1>7. ASSUME NEW s \in Streams, AnswerFails(s) PROVE Goal
    BY <1>7 DEF AnswerFails
  <1>8. ASSUME NEW s \in Streams, Deliver(s) PROVE Goal
    <2>1. Unbroken
      BY <1>8 DEF Deliver
    <2> QED
      BY <1>8, <2>1
  <1>9. ASSUME NEW s \in Streams, RangeEnds(s) PROVE Goal
    BY <1>9 DEF RangeEnds
  <1>10. ASSUME NEW x \in Exchanges, Snapshot(x) PROVE Goal
    BY <1>10 DEF Snapshot
  <1>11. ASSUME NEW x \in Exchanges, NEW s \in Streams, Enqueue(x, s) PROVE Goal
    <2>1. Unbroken
      BY <1>11 DEF Enqueue, TakeClient
    <2> QED
      BY <1>11, <2>1
  <1>12. ASSUME NEW x \in Exchanges, NEW s \in Streams, FindFull(x, s) PROVE Goal
    BY <1>12 DEF FindFull, TakeClient
  <1>13. ASSUME NEW x \in Exchanges, NEW s \in Streams, SendOnClosed(x, s) PROVE Goal
    BY <1>13 DEF SendOnClosed, TakeClient
  <1>14. ASSUME NEW x \in Exchanges, RemoveFull(x) PROVE Goal
    BY <1>14 DEF RemoveFull
  <1>15. ASSUME NEW x \in Exchanges, ReceiveNil(x) PROVE Goal
    BY <1>15 DEF ReceiveNil
  <1>16. ASSUME NEW x \in Exchanges, RemoveEmpty(x) PROVE Goal
    BY <1>16 DEF RemoveEmpty
  <1>17. ASSUME NEW x \in Exchanges, Return(x) PROVE Goal
    BY <1>17 DEF Return
  <1>18. ASSUME NEW s \in Streams, CloseFires(s) PROVE Goal
    BY <1>18 DEF CloseFires
  <1>19. CASE Quiet
    BY <1>19 DEF Quiet
  <1>20. CASE UNCHANGED vars
    BY <1>20
  <1> QED
    BY <1>1, <1>2, <1>3, <1>4, <1>5, <1>6, <1>7, <1>8, <1>9, <1>10, <1>11, <1>12,
       <1>13, <1>14, <1>15, <1>16, <1>17, <1>18, <1>19, <1>20
    DEF Next, RequestMod, ResponseMod, Handler, Serve,
        RequestModHook, ResponseModHook, Hook, Proceed

\* No queue grows beyond its capacity.
LEMMA StepBound ==
  ASSUME IInv, [Next]_vars, \A s \in Streams : Len(queue[s]) <= QueueSize
  PROVE  \A s \in Streams : Len(queue'[s]) <= QueueSize
  <1> DEFINE Bound == \A t \in Streams : Len(queue'[t]) <= QueueSize
  <1>a. ASSUME NEW s \in Streams, queue[s] # <<>>, queue' = [queue EXCEPT ![s] = Tail(@)] PROVE Bound
    <2>1. \A t \in Streams : Len(queue'[t]) <= Len(queue[t]) /\ Len(queue'[t]) \in Nat /\ Len(queue[t]) \in Nat
      BY <1>a, QueueMovesUp DEF IInv, TypeOK
    <2> QED
      BY <2>1, ModClientsAssumption
  <1>b. CASE UNCHANGED queue
    BY <1>b
  <1>c. ASSUME NEW x \in Exchanges, NEW s \in Streams, Enqueue(x, s) PROVE Bound
    <2>1. msg[x] \in Exchanges /\ queue' = [queue EXCEPT ![s] = Append(@, msg[x])] /\ Len(queue[s]) < QueueSize
      BY <1>c DEF Enqueue, IInv, TypeOK
    <2>2. /\ Len(queue'[s]) = Len(queue[s]) + 1 /\ Len(queue[s]) \in Nat
          /\ \A t \in Streams \ {s} : queue'[t] = queue[t]
      BY <2>1, QueueGrows
    <2> QED
      BY <2>1, <2>2, ModClientsAssumption
  <1> USE DEF vars, channelVars, handlerVars, hookVars
  <1>1. ASSUME NEW s \in Streams, Handler(s) PROVE Bound
    <2>1. CASE Forward(s) \/ SendFails(s)
      BY <1>a, <2>1 DEF Forward, SendFails
    <2>2. CASE ~(Forward(s) \/ SendFails(s))
      BY <1>1, <1>b, <2>2
      DEF Handler, Serve, RegisterFails, RegisterDuplicate, Register, Answered, AnswerFails, Deliver, RangeEnds
    <2> QED
      BY <2>1, <2>2
  <1>2. ASSUME NEW x \in Exchanges, Hook(x) PROVE Bound
    BY <1>2, <1>b, <1>c
    DEF Hook, Proceed, Snapshot, FindFull, SendOnClosed, RemoveFull, ReceiveNil, RemoveEmpty, Return
  <1>3. ASSUME NEW s \in Streams, CloseFires(s) PROVE Bound
    BY <1>3, <1>b DEF CloseFires
  <1>4. CASE Quiet \/ UNCHANGED vars
    BY <1>4, <1>b DEF Quiet
  <1> QED
    BY <1>1, <1>2, <1>3, <1>4 DEF Next, RequestMod, ResponseMod, RequestModHook, ResponseModHook

LEMMA StepPlaced == IInv /\ Placed /\ [Next]_vars => Placed'
  <1> SUFFICES ASSUME IInv, Placed, [Next]_vars PROVE Placed'
    OBVIOUS
  <1>1. \A s \in Streams : Len(queue'[s]) <= QueueSize
    BY StepBound DEF Placed
  <1>2. ASSUME Unbroken', NEW m \in Exchanges PROVE Somewhere(m)' /\ OnePlace(m)'
    <2>1. Somewhere(m) /\ OnePlace(m)
      BY <1>2, StepMoves DEF Placed
    <2>2. CASE \E s \in Streams : Forward(s) \/ Deliver(s)
      BY <2>1, <2>2, ForwardMoves, DeliverMoves
    <2>3. CASE \E x \in Exchanges, s \in Streams : Enqueue(x, s)
      BY <2>1, <2>3, EnqueueMoves
    <2>4. CASE /\ UNCHANGED <<queue, held, msg>>
               /\ \A x \in Exchanges : pc'[x] = "waiting" <=> pc[x] = "waiting"
               /\ \A s \in Streams : InHand(s)' <=> InHand(s)
      <3>1. /\ \A x \in Exchanges : Carries(x, m)' <=> Carries(x, m)
            /\ \A s \in Streams : Holds(s, m)' <=> Holds(s, m)
            /\ \A s \in Streams, i \in Nat : HasQueued(s, i, m)' <=> HasQueued(s, i, m)
        BY <2>4 DEF Carries, Holds, HasQueued
      <3> QED
        BY <2>1, <3>1, NothingMoves
    <2> QED
      BY <1>2, <2>2, <2>3, <2>4, StepMoves
  <1> QED
    BY <1>1, <1>2 DEF Placed

\* One exchange, one handler or one place in a queue, and the others have none.
LEMMA PlacesAreCounted ==
  ASSUME IInv, \A s \in Streams : Len(queue[s]) <= QueueSize,
         NEW m \in Exchanges, Somewhere(m), OnePlace(m)
  PROVE  LET carrying == {x \in Exchanges : pc[x] # "waiting" /\ msg[x] = m}
             holding == {s \in Streams : InHand(s) /\ held[s] = m}
             queued == {p \in Streams \X (1 .. QueueSize) :
                          p[2] <= Len(queue[p[1]]) /\ queue[p[1]][p[2]] = m}
         IN Cardinality(carrying) + Cardinality(holding) + Cardinality(queued) = 1
  <1> DEFINE carrying == {x \in Exchanges : pc[x] # "waiting" /\ msg[x] = m}
             holding == {s \in Streams : InHand(s) /\ held[s] = m}
             queued == {p \in Streams \X (1 .. QueueSize) :
                          p[2] <= Len(queue[p[1]]) /\ queue[p[1]][p[2]] = m}
  <1>1. \A x \in Exchanges : x \in carrying <=> Carries(x, m)
    BY DEF Carries
  <1>2. \A s \in Streams : s \in holding <=> Holds(s, m)
    BY DEF Holds
  <1>3. \A s \in Streams : Len(queue[s]) \in Nat
    BY DEF IInv, TypeOK
  <1>4. \A p \in queued : p[1] \in Streams /\ p[2] \in Nat /\ HasQueued(p[1], p[2], m) /\ p = <<p[1], p[2]>>
    BY <1>3, ModClientsAssumption DEF HasQueued
  <1>5. \A s \in Streams, i \in Nat : HasQueued(s, i, m) => <<s, i>> \in queued
    BY <1>3, ModClientsAssumption DEF HasQueued
  <1>6. carrying \subseteq Exchanges /\ holding \subseteq Streams
    OBVIOUS
  <1> SUFFICES Cardinality(carrying) + Cardinality(holding) + Cardinality(queued) = 1
    OBVIOUS
  <1> HIDE DEF carrying, holding, queued
  <1>7. Cardinality({}) = 0
    BY FS_EmptySet
  <1>8. CASE \E x \in Exchanges : Carries(x, m)
    <2>1. PICK x \in Exchanges : Carries(x, m)
      BY <1>8
    <2>2. carrying = {x}
      BY <1>1, <1>6, <2>1 DEF OnePlace
    <2>3. holding = {} /\ queued = {}
      BY <1>2, <1>4, <1>6, <2>1 DEF OnePlace
    <2>4. Cardinality(carrying) = 1
      BY <2>2, FS_Singleton
    <2> QED
      BY <1>7, <2>3, <2>4
  <1>9. CASE \E s \in Streams : Holds(s, m)
    <2>1. PICK s \in Streams : Holds(s, m)
      BY <1>9
    <2>2. holding = {s}
      BY <1>2, <1>6, <2>1 DEF OnePlace
    <2>3. carrying = {} /\ queued = {}
      BY <1>1, <1>4, <1>6, <2>1 DEF OnePlace
    <2>4. Cardinality(holding) = 1
      BY <2>2, FS_Singleton
    <2> QED
      BY <1>7, <2>3, <2>4
  <1>10. CASE \E s \in Streams, i \in Nat : HasQueued(s, i, m)
    <2>1. PICK s \in Streams, i \in Nat : HasQueued(s, i, m)
      BY <1>10
    <2>2. queued = {<<s, i>>}
      <3>1. \A p \in queued : p = <<s, i>>
        BY <1>4, <2>1 DEF OnePlace
      <3> QED
        BY <1>5, <2>1, <3>1
    <2>3. carrying = {} /\ holding = {}
      BY <1>1, <1>2, <1>6, <2>1 DEF OnePlace
    <2>4. Cardinality(queued) = 1
      BY <2>2, FS_Singleton
    <2> QED
      BY <1>7, <2>3, <2>4
  <1> QED
    BY <1>8, <1>9, <1>10 DEF Somewhere

LEMMA AllPlaced == Spec => []Placed
  <1>1. Init => Placed
    <2> SUFFICES ASSUME Init PROVE Placed
      OBVIOUS
    <2>1. \A m \in Exchanges, x \in Exchanges : Carries(x, m) <=> x = m
      BY DEF Init, Carries
    <2>2. \A m \in Exchanges, s \in Streams : ~Holds(s, m)
      BY DEF Init, Holds, InHand
    <2>3. /\ \A m \in Exchanges, s \in Streams, i \in Nat : ~HasQueued(s, i, m)
          /\ \A s \in Streams : Len(queue[s]) <= QueueSize
      BY ModClientsAssumption DEF Init, HasQueued
    <2> QED
      BY <2>1, <2>2, <2>3 DEF Placed, Somewhere, OnePlace
  <1> QED
    BY <1>1, Invariant, StepPlaced, PTL DEF Spec

\* While no stream has broken, no message is lost and none is duplicated on its way
\* through the plugins, for any number of exchanges and plugins.
THEOREM MessagesAreCarriedOnce == Spec => []CarriedOnce
  <1>1. IInv /\ Placed => CarriedOnce
    BY PlacesAreCounted DEF Placed, CarriedOnce, Unbroken
  <1> QED
    BY <1>1, Invariant, AllPlaced, PTL

-----------------------------------------------------------------------------
(***************************************************************************)
(* Who is skipped.                                                         *)
(***************************************************************************)

\* An exchange that received nothing was waiting for a handler that has ended.
EmptyIsBroken ==
  /\ \A x \in Exchanges : pc[x] = "empty" => phase[cur[x]] = "ended"
  /\ SkippedOnlyByBroken

LEMMA StepEmptyIsBroken == IInv /\ EmptyIsBroken /\ [Next]_vars => EmptyIsBroken'
  <1> SUFFICES ASSUME IInv, EmptyIsBroken, [Next]_vars PROVE EmptyIsBroken'
    OBVIOUS
  <1> USE DEF IInv, TypeOK, Known, Registered, EmptyIsBroken, SkippedOnlyByBroken,
              vars, channelVars, handlerVars, hookVars
  <1>1. ASSUME NEW s \in Streams, RegisterFails(s) PROVE EmptyIsBroken'
    BY <1>1 DEF RegisterFails
  <1>2. ASSUME NEW s \in Streams, RegisterDuplicate(s) PROVE EmptyIsBroken'
    BY <1>2 DEF RegisterDuplicate
  <1>3. ASSUME NEW s \in Streams, Register(s) PROVE EmptyIsBroken'
    BY <1>3 DEF Register
  <1>4. ASSUME NEW s \in Streams, Forward(s) PROVE EmptyIsBroken'
    BY <1>4 DEF Forward
  <1>5. ASSUME NEW s \in Streams, SendFails(s) PROVE EmptyIsBroken'
    BY <1>5 DEF SendFails
  <1>6. ASSUME NEW s \in Streams, Answered(s) PROVE EmptyIsBroken'
    BY <1>6 DEF Answered
  <1>7. ASSUME NEW s \in Streams, AnswerFails(s) PROVE EmptyIsBroken'
    BY <1>7 DEF AnswerFails
  <1>8. ASSUME NEW s \in Streams, Deliver(s) PROVE EmptyIsBroken'
    BY <1>8 DEF Deliver
  <1>9. ASSUME NEW s \in Streams, RangeEnds(s) PROVE EmptyIsBroken'
    BY <1>9 DEF RangeEnds
  <1>10. ASSUME NEW x \in Exchanges, Snapshot(x) PROVE EmptyIsBroken'
    BY <1>10 DEF Snapshot
  <1>11. ASSUME NEW x \in Exchanges, NEW s \in Streams, Enqueue(x, s) PROVE EmptyIsBroken'
    BY <1>11 DEF Enqueue, TakeClient
  <1>12. ASSUME NEW x \in Exchanges, NEW s \in Streams, FindFull(x, s) PROVE EmptyIsBroken'
    BY <1>12 DEF FindFull, TakeClient
  <1>13. ASSUME NEW x \in Exchanges, NEW s \in Streams, SendOnClosed(x, s) PROVE EmptyIsBroken'
    BY <1>13 DEF SendOnClosed, TakeClient
  <1>14. ASSUME NEW x \in Exchanges, RemoveFull(x) PROVE EmptyIsBroken'
    BY <1>14 DEF RemoveFull
  <1>15. ASSUME NEW x \in Exchanges, ReceiveNil(x) PROVE EmptyIsBroken'
    BY <1>15 DEF ReceiveNil
  <1>16. ASSUME NEW x \in Exchanges, RemoveEmpty(x) PROVE EmptyIsBroken'
    BY <1>16 DEF RemoveEmpty
  <1>17. ASSUME NEW x \in Exchanges, Return(x) PROVE EmptyIsBroken'
    BY <1>17 DEF Return
  <1>18. ASSUME NEW s \in Streams, CloseFires(s) PROVE EmptyIsBroken'
    BY <1>18 DEF CloseFires
  <1>19. CASE Quiet
    BY <1>19 DEF Quiet
  <1>20. CASE UNCHANGED vars
    BY <1>20
  <1> QED
    BY <1>1, <1>2, <1>3, <1>4, <1>5, <1>6, <1>7, <1>8, <1>9, <1>10, <1>11, <1>12,
       <1>13, <1>14, <1>15, <1>16, <1>17, <1>18, <1>19, <1>20
    DEF Next, RequestMod, ResponseMod, Handler, Serve,
        RequestModHook, ResponseModHook, Hook, Proceed

\* An exchange skips a plugin only behind one that broke, for any plugins and any
\* capacity of their queues.
THEOREM OnlyBrokenSkip == Spec => []SkippedOnlyByBroken
  <1>1. Init => EmptyIsBroken
    BY DEF Init, EmptyIsBroken, SkippedOnlyByBroken
  <1>2. EmptyIsBroken => SkippedOnlyByBroken
    BY DEF EmptyIsBroken
  <1> QED
    BY <1>1, <1>2, Invariant, StepEmptyIsBroken, PTL DEF Spec

-----------------------------------------------------------------------------
(***************************************************************************)
(* The promise of Modification.                                            *)
(***************************************************************************)

\* Every message on its way was brought by an exchange that has come to the hook, and an
\* exchange that no plugin has been shown still has its own.
Brought ==
  /\ \A x \in Exchanges : cur[x] = None => msg[x] = x
  /\ \A x \in Exchanges : msg[x] = x \/ pc[msg[x]] # "idle"
  /\ \A s \in Streams : InHand(s) => pc[held[s]] # "idle"
  /\ \A s \in Streams : \A i \in 1 .. Len(queue[s]) : pc[queue[s][i]] # "idle"

\* The step takes no exchange back to before the hook.
Stays == \A x \in Exchanges : pc[x] # "idle" => pc'[x] # "idle"

LEMMA KeepsBrought ==
  ASSUME IInv, Brought, Stays, UNCHANGED <<queue, held, msg>>,
         \A s \in Streams : InHand(s)' => InHand(s),
         \A x \in Exchanges : cur'[x] = None => cur[x] = None
  PROVE  Brought'
  <1>1. \A x \in Exchanges : msg[x] \in Exchanges
    BY DEF IInv, TypeOK
  <1>2. \A s \in Streams : InHand(s) => held[s] \in Exchanges
    BY DEF IInv, Known
  <1>3. \A s \in Streams : \A i \in 1 .. Len(queue[s]) : queue[s][i] \in Exchanges
    <2> TAKE s \in Streams
    <2>1. queue[s] \in Seq(Exchanges)
      BY DEF IInv, TypeOK
    <2> QED
      BY <2>1
  <1> QED
    BY <1>1, <1>2, <1>3 DEF Brought, Stays

\* A handler takes the first message off its queue, and may hand it to its plugin.
LEMMA TakesBrought ==
  ASSUME IInv, Brought, NEW s \in Streams, queue[s] # <<>>,
         queue' = [queue EXCEPT ![s] = Tail(@)], UNCHANGED <<pc, cur, msg>>,
         \A t \in Streams : InHand(t)' =>
           \/ InHand(t) /\ held'[t] = held[t]
           \/ t = s /\ held'[t] = Head(queue[s])
  PROVE  Brought'
  <1>1. queue[s] \in Seq(Exchanges)
    BY DEF IInv, TypeOK
  <1>2. /\ 1 \in 1 .. Len(queue[s]) /\ Head(queue[s]) = queue[s][1]
        /\ \A i \in 1 .. Len(Tail(queue[s])) :
             i + 1 \in 1 .. Len(queue[s]) /\ Tail(queue[s])[i] = queue[s][i + 1]
    BY <1>1
  <1>3. \A t \in Streams : queue'[t] = IF t = s THEN Tail(queue[s]) ELSE queue[t]
    BY DEF IInv, TypeOK
  <1>4. \A t \in Streams : InHand(t)' => pc[held'[t]] # "idle"
    BY <1>2 DEF Brought
  <1>5. ASSUME NEW t \in Streams, NEW i \in 1 .. Len(queue'[t])
        PROVE  pc[queue'[t][i]] # "idle"
    <2>1. CASE t = s
      <3>1. queue'[t] = Tail(queue[s])
        BY <1>3, <2>1
      <3> QED
        BY <1>2, <3>1 DEF Brought
    <2>2. CASE t # s
      <3>1. queue'[t] = queue[t]
        BY <1>3, <2>2
      <3> QED
        BY <3>1 DEF Brought
    <2> QED
      BY <2>1, <2>2
  <1> QED
    BY <1>4, <1>5 DEF Brought

LEMMA StepBrought == IInv /\ Brought /\ [Next]_vars => Brought'
  <1> SUFFICES ASSUME IInv, Brought, [Next]_vars PROVE Brought'
    OBVIOUS
  <1> USE ModClientsAssumption
      DEF vars, channelVars, handlerVars, hookVars, InHand, Stays
  <1> USE DEF IInv
  <1>1. ASSUME NEW s \in Streams, RegisterFails(s) PROVE Brought'
    BY <1>1, KeepsBrought DEF TypeOK, RegisterFails
  <1>2. ASSUME NEW s \in Streams, RegisterDuplicate(s) PROVE Brought'
    BY <1>2, KeepsBrought DEF TypeOK, RegisterDuplicate
  <1>3. ASSUME NEW s \in Streams, Register(s) PROVE Brought'
    BY <1>3, KeepsBrought DEF TypeOK, Register
  <1>4. ASSUME NEW s \in Streams, Forward(s) PROVE Brought'
    BY <1>4, TakesBrought DEF TypeOK, Forward
  <1>5. ASSUME NEW s \in Streams, SendFails(s) PROVE Brought'
    BY <1>5, TakesBrought DEF TypeOK, SendFails
  <1>6. ASSUME NEW s \in Streams, Answered(s) PROVE Brought'
    BY <1>6, KeepsBrought DEF TypeOK, Answered
  <1>7. ASSUME NEW s \in Streams, AnswerFails(s) PROVE Brought'
    BY <1>7, KeepsBrought DEF TypeOK, AnswerFails
  <1>8. ASSUME NEW s \in Streams, Deliver(s) PROVE Brought'
    <2>1. PICK x \in Exchanges : /\ cur[x] = s /\ msg' = [msg EXCEPT ![x] = held[s]]
                                 /\ pc' = [pc EXCEPT ![x] = "ready"]
      BY <1>8 DEF Deliver
    <2>2. pc[held[s]] # "idle" /\ held[s] \in Exchanges
      BY <1>8 DEF Deliver, Brought, Known
    <2>3. \A y \in Exchanges : pc[y] # "idle" => pc'[y] # "idle"
      BY <2>1 DEF TypeOK
    <2>4. \A y \in Exchanges : msg'[y] = IF y = x THEN held[s] ELSE msg[y]
      BY <2>1 DEF TypeOK
    <2>5. \A t \in Streams : \A i \in 1 .. Len(queue[t]) : queue[t][i] \in Exchanges
      <3> TAKE t \in Streams
      <3>1. queue[t] \in Seq(Exchanges)
        BY DEF TypeOK
      <3> QED
        BY <3>1
    <2>6. UNCHANGED <<queue, held, cur>> /\ \A t \in Streams : InHand(t)' => InHand(t)
      BY <1>8 DEF Deliver, TypeOK
    <2> QED
      BY <2>1, <2>2, <2>3, <2>4, <2>5, <2>6 DEF Brought, TypeOK, Known
  <1>9. ASSUME NEW s \in Streams, RangeEnds(s) PROVE Brought'
    BY <1>9, KeepsBrought DEF TypeOK, RangeEnds
  <1>10. ASSUME NEW x \in Exchanges, Snapshot(x) PROVE Brought'
    BY <1>10, KeepsBrought DEF TypeOK, Snapshot
  <1>11. ASSUME NEW x \in Exchanges, NEW s \in Streams, Enqueue(x, s) PROVE Brought'
    <2>1. /\ queue' = [queue EXCEPT ![s] = Append(@, msg[x])]
          /\ pc' = [pc EXCEPT ![x] = "waiting"] /\ pc[x] = "ready"
          /\ cur' = [cur EXCEPT ![x] = s]
          /\ UNCHANGED <<phase, held, msg>>
      BY <1>11 DEF Enqueue, TakeClient
    <2>2. msg[x] \in Exchanges /\ pc[msg[x]] # "idle" /\ queue[s] \in Seq(Exchanges)
      BY <2>1 DEF Brought, TypeOK
    <2>3. \A i \in 1 .. Len(Append(queue[s], msg[x])) :
            \/ i \in 1 .. Len(queue[s]) /\ Append(queue[s], msg[x])[i] = queue[s][i]
            \/ Append(queue[s], msg[x])[i] = msg[x]
      BY <2>2
    <2>4. \A t \in Streams : queue'[t] = IF t = s THEN Append(queue[s], msg[x]) ELSE queue[t]
      BY <2>1 DEF TypeOK
    <2>5. \A y \in Exchanges : pc[y] # "idle" => pc'[y] # "idle"
      BY <2>1 DEF TypeOK
    <2>6. ASSUME NEW t \in Streams, NEW i \in 1 .. Len(queue'[t])
          PROVE  queue'[t][i] \in Exchanges /\ pc'[queue'[t][i]] # "idle"
      <3>1. CASE t = s
        <4>1. queue'[t] = Append(queue[s], msg[x])
          BY <2>4, <3>1
        <4> QED
          BY <2>2, <2>3, <2>5, <4>1 DEF Brought
      <3>2. CASE t # s
        <4>1. queue'[t] = queue[t] /\ queue[t] \in Seq(Exchanges)
          BY <2>4, <3>2 DEF TypeOK
        <4> QED
          BY <2>5, <4>1 DEF Brought
      <3> QED
        BY <3>1, <3>2
    <2>7. \A y \in Exchanges : cur'[y] = None => cur[y] = None
      BY <2>1 DEF TypeOK
    <2> QED
      BY <2>1, <2>5, <2>6, <2>7 DEF Brought, TypeOK, Known
  <1>12. ASSUME NEW x \in Exchanges, NEW s \in Streams, FindFull(x, s) PROVE Brought'
    BY <1>12, KeepsBrought DEF TypeOK, FindFull, TakeClient
  <1>13. ASSUME NEW x \in Exchanges, NEW s \in Streams, SendOnClosed(x, s) PROVE Brought'
    BY <1>13, KeepsBrought DEF TypeOK, SendOnClosed, TakeClient
  <1>14. ASSUME NEW x \in Exchanges, RemoveFull(x) PROVE Brought'
    BY <1>14, KeepsBrought DEF TypeOK, RemoveFull
  <1>15. ASSUME NEW x \in Exchanges, ReceiveNil(x) PROVE Brought'
    BY <1>15, KeepsBrought DEF TypeOK, ReceiveNil
  <1>16. ASSUME NEW x \in Exchanges, RemoveEmpty(x) PROVE Brought'
    BY <1>16, KeepsBrought DEF TypeOK, RemoveEmpty
  <1>17. ASSUME NEW x \in Exchanges, Return(x) PROVE Brought'
    BY <1>17, KeepsBrought DEF TypeOK, Return
  <1>18. ASSUME NEW s \in Streams, CloseFires(s) PROVE Brought'
    BY <1>18, KeepsBrought DEF TypeOK, CloseFires
  <1>19. CASE Quiet
    BY <1>19 DEF Quiet, Brought
  <1>20. CASE UNCHANGED vars
    BY <1>20 DEF Brought
  <1> QED
    BY <1>1, <1>2, <1>3, <1>4, <1>5, <1>6, <1>7, <1>8, <1>9, <1>10, <1>11, <1>12,
       <1>13, <1>14, <1>15, <1>16, <1>17, <1>18, <1>19, <1>20
    DEF Next, RequestMod, ResponseMod, Handler, Serve,
        RequestModHook, ResponseModHook, Hook, Proceed

\* Before an exchange has been to a plugin it has not waited: none of the plugins that
\* were registered when it came can have been closed since.
FirstIsOpen ==
  \A x \in Exchanges : cur[x] = None /\ pc[x] = "ready" => \A s \in todo[x] : ~closed[s]

LEMMA StepFirstIsOpen == IInv /\ ClosedIsGone /\ FirstIsOpen /\ [Next]_vars => FirstIsOpen'
  <1> SUFFICES ASSUME IInv, ClosedIsGone, FirstIsOpen, [Next]_vars PROVE FirstIsOpen'
    OBVIOUS
  <1> USE ModClientsAssumption
      DEF IInv, TypeOK, Known, ClosedIsGone, FirstIsOpen, vars, channelVars, handlerVars, hookVars
  <1>1. ASSUME NEW s \in Streams, RegisterFails(s) PROVE FirstIsOpen'
    BY <1>1 DEF RegisterFails
  <1>2. ASSUME NEW s \in Streams, RegisterDuplicate(s) PROVE FirstIsOpen'
    BY <1>2 DEF RegisterDuplicate
  <1>3. ASSUME NEW s \in Streams, Register(s) PROVE FirstIsOpen'
    BY <1>3 DEF Register
  <1>4. ASSUME NEW s \in Streams, Forward(s) PROVE FirstIsOpen'
    BY <1>4 DEF Forward
  <1>5. ASSUME NEW s \in Streams, SendFails(s) PROVE FirstIsOpen'
    BY <1>5 DEF SendFails
  <1>6. ASSUME NEW s \in Streams, Answered(s) PROVE FirstIsOpen'
    BY <1>6 DEF Answered
  <1>7. ASSUME NEW s \in Streams, AnswerFails(s) PROVE FirstIsOpen'
    BY <1>7 DEF AnswerFails
  <1>8. ASSUME NEW s \in Streams, Deliver(s) PROVE FirstIsOpen'
    BY <1>8 DEF Deliver
  <1>9. ASSUME NEW s \in Streams, RangeEnds(s) PROVE FirstIsOpen'
    BY <1>9 DEF RangeEnds
  <1>10. ASSUME NEW x \in Exchanges, Snapshot(x) PROVE FirstIsOpen'
    BY <1>10 DEF Snapshot
  <1>11. ASSUME NEW x \in Exchanges, NEW s \in Streams, Enqueue(x, s) PROVE FirstIsOpen'
    BY <1>11 DEF Enqueue, TakeClient
  <1>12. ASSUME NEW x \in Exchanges, NEW s \in Streams, FindFull(x, s) PROVE FirstIsOpen'
    BY <1>12 DEF FindFull, TakeClient
  <1>13. ASSUME NEW x \in Exchanges, NEW s \in Streams, SendOnClosed(x, s) PROVE FirstIsOpen'
    BY <1>13 DEF SendOnClosed, TakeClient
  <1>14. ASSUME NEW x \in Exchanges, RemoveFull(x) PROVE FirstIsOpen'
    BY <1>14 DEF RemoveFull
  <1>15. ASSUME NEW x \in Exchanges, ReceiveNil(x) PROVE FirstIsOpen'
    BY <1>15 DEF ReceiveNil
  <1>16. ASSUME NEW x \in Exchanges, RemoveEmpty(x) PROVE FirstIsOpen'
    BY <1>16 DEF RemoveEmpty
  <1>17. ASSUME NEW x \in Exchanges, Return(x) PROVE FirstIsOpen'
    BY <1>17 DEF Return
  <1>18. ASSUME NEW s \in Streams, CloseFires(s) PROVE FirstIsOpen'
    BY <1>18 DEF CloseFires, AboutToSend
  <1>19. CASE Quiet
    BY <1>19 DEF Quiet
  <1>20. CASE UNCHANGED vars
    BY <1>20
  <1> QED
    BY <1>1, <1>2, <1>3, <1>4, <1>5, <1>6, <1>7, <1>8, <1>9, <1>10, <1>11, <1>12,
       <1>13, <1>14, <1>15, <1>16, <1>17, <1>18, <1>19, <1>20
    DEF Next, RequestMod, ResponseMod, Handler, Serve,
        RequestModHook, ResponseModHook, Hook, Proceed
-----------------------------------------------------------------------------

LEMMA InitImplements == Init => Promise!Init
  BY DEF Init, Promise!Init, Standing, Stage, Returned, Live

\* Steps that the promise does not see.
LEMMA Unseen ==
  ASSUME TypeOK, UNCHANGED <<clients, pc, todo, cur>>,
         \A x \in Exchanges : pc[x] = "done" => msg'[x] = msg[x],
         \A s \in Streams : Standing'[s] = Standing[s]
  PROVE  UNCHANGED Promise!vars
  <1>1. Stage' = Stage
    BY DEF Stage
  <1>2. Returned' = Returned
    BY DEF Returned
  <1>3. Standing' = Standing
    BY DEF Standing
  <1> QED
    BY <1>1, <1>2, <1>3 DEF Promise!vars

\* The stream's handler ends.
LEMMA Breaks ==
  ASSUME TypeOK, NEW s \in Streams, Live(s), phase' = [phase EXCEPT ![s] = "ended"],
         UNCHANGED <<clients, hookVars>>
  PROVE  Promise!Break(s)
  <1>1. Standing[s] = "joined"
    BY DEF Standing, Live
  <1>2. Standing' = [Standing EXCEPT ![s] = "broken"]
    BY DEF Standing, Live, TypeOK
  <1>3. Stage' = Stage /\ Returned' = Returned
    BY DEF Stage, Returned, hookVars
  <1> QED
    BY <1>1, <1>2, <1>3 DEF Promise!Break, hookVars

\* A step of an exchange that does not leave: where it is afterwards.
LEMMA Goes ==
  ASSUME TypeOK, NEW x \in Exchanges, NEW p \in Steps \ {"done"}, pc[x] # "done",
         pc' = [pc EXCEPT ![x] = p],
         \A y \in Exchanges : pc[y] = "done" => msg'[y] = msg[y]
  PROVE  /\ Stage' = [Stage EXCEPT ![x] = Stage'[x]]
         /\ Returned' = Returned
  <1>1. \A y \in Exchanges : y # x => pc'[y] = pc[y]
    BY DEF TypeOK
  <1>2. pc'[x] = p
    BY DEF TypeOK
  <1>3. Stage' = [Stage EXCEPT ![x] = Stage'[x]]
    BY <1>1 DEF Stage
  <1>4. Returned' = Returned
    BY <1>1, <1>2 DEF Returned
  <1> QED
    BY <1>3, <1>4

\* What an exchange may leave the hook with.
LEMMA Leaves ==
  ASSUME IInv, Placed, Brought, NEW x \in Exchanges, pc[x] \in {"ready", "empty"},
         pc' = [pc EXCEPT ![x] = "done"], UNCHANGED <<phase, todo, cur, msg>>
  PROVE  Promise!Leave(x)
  <1> DEFINE m == msg[x]
  <1>1. TypeOK /\ m \in Exchanges
    BY DEF IInv, TypeOK
  <1>2. \A y \in Exchanges : y # x => pc'[y] = pc[y]
    BY <1>1 DEF TypeOK
  <1>3. pc'[x] = "done"
    BY <1>1 DEF TypeOK
  <1>4. Stage' = [Stage EXCEPT ![x] = "back"]
    BY <1>2, <1>3 DEF Stage
  <1>5. Returned' = [Returned EXCEPT ![x] = m]
    BY <1>2, <1>3 DEF Returned
  <1>6. Stage[m] # "out"
    <2>1. pc[m] # "idle"
      BY DEF Brought
    <2>2. pc[m] \in Steps
      BY <1>1 DEF TypeOK
    <2> QED
      BY <1>1, <2>1, <2>2 DEF Stage, Steps
  <1>7. cur[x] = None => m = x
    BY DEF Brought
  <1>8. ASSUME \A s \in Streams : Standing[s] # "broken",
               NEW y \in Exchanges, Stage[y] = "back"
        PROVE  Returned[y] # m
    <2>1. Unbroken
      <3> SUFFICES ASSUME NEW s \in Streams PROVE phase[s] # "ended"
        BY DEF Unbroken
      <3>1. phase[s] \in Phases /\ Standing[s] # "broken"
        BY <1>1, <1>8 DEF TypeOK
      <3> QED
        BY <3>1 DEF Standing, Live
    <2>2. pc[y] = "done"
      <3>1. pc[y] \in Steps
        BY <1>1 DEF TypeOK
      <3> QED
        BY <1>8, <3>1 DEF Stage, Steps
    <2>3. Returned[y] = msg[y] /\ y # x
      BY <2>2 DEF Returned
    <2>4. OnePlace(m)
      BY <1>1, <2>1 DEF Placed
    <2>5. msg[y] = m => y = x
      BY <2>2, <2>4 DEF OnePlace, Carries
    <2> QED
      BY <2>3, <2>5
  <1> HIDE DEF m
  <1>9. UNCHANGED <<Standing, todo, cur>>
    BY DEF Standing, Live
  <1> QED
    BY <1>1, <1>4, <1>5, <1>6, <1>7, <1>8, <1>9 DEF Promise!Leave

\* A plugin whose queue is full and who has not broken keeps as many exchanges waiting.
LEMMA FullIsBusy ==
  ASSUME IInv, NobodyLost, NEW s \in Streams, Len(queue[s]) = QueueSize, Registered(s)
  PROVE  Standing[s] = "broken" \/ Cardinality(Promise!WaitingFor(s)) >= QueueSize
  <1>1. CASE phase[s] = "ended"
    BY <1>1 DEF Standing, Live
  <1>2. CASE phase[s] # "ended"
    <2>1. \A x \in Exchanges : Stage[x] = "with" <=> pc[x] = "waiting"
      <3> TAKE x \in Exchanges
      <3>1. pc[x] \in Steps
        BY DEF IInv, TypeOK
      <3> QED
        BY <3>1 DEF Stage, Steps
    <2>2. Promise!WaitingFor(s) = Waiting(s)
      BY <2>1 DEF Promise!WaitingFor, Waiting
    <2>3. Cardinality(Waiting(s)) = Len(queue[s]) + (IF InHand(s) THEN 1 ELSE 0)
      BY <1>2 DEF NobodyLost
    <2>4. Cardinality(Waiting(s)) >= QueueSize
      BY <2>3, ModClientsAssumption
    <2> QED
      BY <2>2, <2>4
  <1> QED
    BY <1>1, <1>2

LEMMA StepImplements ==
  IInv /\ ClosedIsGone /\ NobodyLost /\ Placed /\ Brought /\ FirstIsOpen /\ [Next]_vars
    => [Promise!Next]_(Promise!vars)
  <1> SUFFICES ASSUME IInv, ClosedIsGone, NobodyLost, Placed, Brought, FirstIsOpen, [Next]_vars
               PROVE  [Promise!Next]_(Promise!vars)
    OBVIOUS
  <1> DEFINE Stutter == UNCHANGED Promise!vars
             Same == \A s \in Streams : Standing'[s] = Standing[s]
  <1> USE DEF IInv, channelVars, handlerVars, hookVars
  <1>1. TypeOK
    OBVIOUS
  <1>2. ASSUME NEW s \in Streams, RegisterFails(s) \/ RegisterDuplicate(s) PROVE Stutter
    <2>1. Same
      BY <1>1, <1>2 DEF RegisterFails, RegisterDuplicate, TypeOK, Standing, Live
    <2> QED
      BY <1>1, <1>2, <2>1, Unseen DEF RegisterFails, RegisterDuplicate
  <1>3. ASSUME NEW s \in Streams, Register(s) PROVE Promise!Join(s)
    <2>1. Standing[s] = "new"
      BY <1>3 DEF Register, Standing, Live
    <2>2. Standing' = [Standing EXCEPT ![s] = "joined"]
      BY <1>1, <1>3 DEF Register, TypeOK, Standing, Live
    <2>3. Stage' = Stage /\ Returned' = Returned
      BY <1>3 DEF Register, Stage, Returned
    <2> QED
      BY <1>3, <2>1, <2>2, <2>3 DEF Register, Promise!Join
  <1>4. ASSUME NEW s \in Streams, Forward(s) \/ Answered(s) PROVE Stutter
    <2>1. Same
      BY <1>1, <1>4 DEF Forward, Answered, TypeOK, Standing, Live
    <2> QED
      BY <1>1, <1>4, <2>1, Unseen DEF Forward, Answered
  <1>5. ASSUME NEW s \in Streams, SendFails(s) \/ AnswerFails(s) \/ RangeEnds(s)
        PROVE  Promise!Break(s)
    BY <1>1, <1>5, Breaks DEF SendFails, AnswerFails, RangeEnds, Live
  <1>6. ASSUME NEW s \in Streams, Deliver(s) PROVE \E x \in Exchanges : Promise!Answer(x)
    <2>1. PICK x \in Exchanges : /\ pc[x] = "waiting" /\ cur[x] = s
                                 /\ msg' = [msg EXCEPT ![x] = held[s]]
                                 /\ pc' = [pc EXCEPT ![x] = "ready"]
      BY <1>6 DEF Deliver
    <2>2. Stage[x] = "with" /\ Stage'[x] = "in"
      BY <1>1, <2>1 DEF Stage, TypeOK
    <2>3. Stage' = [Stage EXCEPT ![x] = "in"] /\ Returned' = Returned
      <3>1. \A y \in Exchanges : pc[y] = "done" => msg'[y] = msg[y]
        BY <1>1, <2>1 DEF TypeOK
      <3> QED
        BY <1>1, <2>1, <2>2, <3>1, Goes DEF Steps
    <2>4. Standing[s] = "joined"
      BY <1>6 DEF Deliver, Standing, Live
    <2>5. Standing' = Standing
      BY <1>1, <1>6 DEF Deliver, TypeOK, Standing, Live
    <2> QED
      BY <1>6, <2>1, <2>2, <2>3, <2>4, <2>5 DEF Deliver, Promise!Answer
  <1>7. ASSUME NEW x \in Exchanges, Snapshot(x) PROVE Promise!Arrive(x)
    <2>1. Stage[x] = "out" /\ Stage'[x] = "in"
      BY <1>1, <1>7 DEF Snapshot, Stage, TypeOK
    <2>2. Stage' = [Stage EXCEPT ![x] = "in"] /\ Returned' = Returned
      BY <1>1, <1>7, <2>1, Goes DEF Snapshot, Steps
    <2>3. Standing' = Standing
      BY <1>7 DEF Snapshot, Standing, Live
    <2> QED
      BY <1>7, <2>1, <2>2, <2>3 DEF Snapshot, Promise!Arrive
  <1>8. ASSUME NEW x \in Exchanges, NEW s \in Streams, TakeClient(x, s), NEW p \in Steps \ {"done"},
               pc' = [pc EXCEPT ![x] = p]
        PROVE  /\ Promise!ComeTo(x, s)
               /\ Stage' = [Stage EXCEPT ![x] = Stage'[x]]
               /\ pc'[x] = p
    <2>1. Stage[x] = "in"
      BY <1>8 DEF TakeClient, Stage
    <2>2. Stage' = [Stage EXCEPT ![x] = Stage'[x]] /\ Returned' = Returned
      BY <1>1, <1>8, Goes DEF TakeClient
    <2>3. Standing' = Standing
      BY <1>8 DEF TakeClient, Standing, Live
    <2>4. pc'[x] = p
      BY <1>1, <1>8 DEF TypeOK
    <2> QED
      BY <1>8, <2>1, <2>2, <2>3, <2>4 DEF TakeClient, Promise!ComeTo
  <1>9. ASSUME NEW x \in Exchanges, NEW s \in Streams, Enqueue(x, s) PROVE Promise!Offer(x, s)
    <2>1. /\ Promise!ComeTo(x, s) /\ Stage' = [Stage EXCEPT ![x] = Stage'[x]]
          /\ pc'[x] = "waiting"
      BY <1>8, <1>9 DEF Enqueue, Steps
    <2>2. Stage'[x] = "with"
      BY <2>1 DEF Stage
    <2> QED
      BY <2>1, <2>2 DEF Promise!Offer
  <1>10. ASSUME NEW x \in Exchanges, NEW s \in Streams, FindFull(x, s) PROVE Promise!Refuse(x, s)
    <2>1. /\ Promise!ComeTo(x, s) /\ Stage' = [Stage EXCEPT ![x] = Stage'[x]]
          /\ pc'[x] = "full"
      BY <1>8, <1>10 DEF FindFull, Steps
    <2>2. Stage'[x] = "refused"
      BY <2>1 DEF Stage
    <2>3. Registered(s) /\ Len(queue[s]) = QueueSize
      BY <1>10 DEF FindFull, TakeClient, Known
    <2>4. Standing[s] = "broken" \/ Cardinality(Promise!WaitingFor(s)) >= QueueSize
      BY <2>3, FullIsBusy
    <2> QED
      BY <2>1, <2>2, <2>3, <2>4 DEF Promise!Refuse, Promise!Cardinality, Cardinality, Promise!IsFiniteSet, IsFiniteSet
  <1>11. ASSUME NEW x \in Exchanges, NEW s \in Streams, SendOnClosed(x, s) PROVE Promise!Panic(x, s)
    <2>1. /\ Promise!ComeTo(x, s) /\ Stage' = [Stage EXCEPT ![x] = Stage'[x]]
          /\ pc'[x] = "panicked"
      BY <1>8, <1>11 DEF SendOnClosed, Steps
    <2>2. Stage'[x] = "lost"
      BY <2>1 DEF Stage
    <2>3. s \notin clients /\ cur[x] # None
      BY <1>11 DEF SendOnClosed, TakeClient, ClosedIsGone, FirstIsOpen
    <2> QED
      BY <2>1, <2>2, <2>3 DEF Promise!Panic
  <1>12. ASSUME NEW x \in Exchanges, RemoveFull(x) PROVE Promise!Expel(x)
    <2>1. Stage[x] = "refused" /\ Stage'[x] = "in"
      BY <1>1, <1>12 DEF RemoveFull, Stage, TypeOK
    <2>2. Stage' = [Stage EXCEPT ![x] = "in"] /\ Returned' = Returned
      BY <1>1, <1>12, <2>1, Goes DEF RemoveFull, Steps
    <2>3. Standing' = Standing
      BY <1>12 DEF RemoveFull, Standing, Live
    <2> QED
      BY <1>12, <2>1, <2>2, <2>3 DEF RemoveFull, WithoutName, Promise!Expel, Promise!Others
  <1>13. ASSUME NEW x \in Exchanges, ReceiveNil(x) PROVE Promise!Fail(x)
    <2>1. Stage[x] = "with" /\ Stage'[x] = "failed"
      BY <1>1, <1>13 DEF ReceiveNil, Stage, TypeOK
    <2>2. Stage' = [Stage EXCEPT ![x] = "failed"] /\ Returned' = Returned
      BY <1>1, <1>13, <2>1, Goes DEF ReceiveNil, Steps
    <2>3. Standing' = Standing
      BY <1>13 DEF ReceiveNil, Standing, Live
    <2>4. Standing[cur[x]] = "broken"
      BY <1>13 DEF ReceiveNil, Known, Standing, Live
    <2> QED
      BY <1>13, <2>1, <2>2, <2>3, <2>4 DEF ReceiveNil, Promise!Fail
  <1>14. ASSUME NEW x \in Exchanges, RemoveEmpty(x) PROVE Promise!GiveUp(x)
    <2>1. Promise!Leave(x)
      BY <1>14, Leaves DEF RemoveEmpty
    <2>2. Stage[x] = "failed"
      BY <1>14 DEF RemoveEmpty, Stage
    <2> QED
      BY <1>14, <2>1, <2>2 DEF RemoveEmpty, WithoutName, Promise!GiveUp, Promise!Others
  <1>15. ASSUME NEW x \in Exchanges, Return(x) PROVE Promise!Finish(x)
    <2>1. Promise!Leave(x)
      BY <1>15, Leaves DEF Return
    <2>2. Stage[x] = "in"
      BY <1>15 DEF Return, Stage
    <2> QED
      BY <1>15, <2>1, <2>2 DEF Return, Promise!Finish
  <1>16. ASSUME NEW s \in Streams, CloseFires(s) PROVE Stutter
    BY <1>1, <1>16, Unseen DEF CloseFires, Standing, Live
  <1>17. ASSUME UNCHANGED vars PROVE Stutter
    BY <1>1, <1>17, Unseen DEF vars, Standing, Live
  <1> HIDE DEF Stutter, Same
  <1>18. \/ \E s \in Streams : Promise!Join(s) \/ Promise!Break(s)
         \/ \E x \in Exchanges :
              \/ Promise!Arrive(x) \/ Promise!Answer(x) \/ Promise!Fail(x) \/ Promise!Expel(x)
              \/ Promise!Finish(x) \/ Promise!GiveUp(x)
              \/ \E s \in Streams : Promise!Offer(x, s) \/ Promise!Refuse(x, s) \/ Promise!Panic(x, s)
         \/ Stutter
    BY <1>2, <1>3, <1>4, <1>5, <1>6, <1>7, <1>9, <1>10, <1>11, <1>12, <1>13, <1>14,
       <1>15, <1>16, <1>17
    DEF Next, RequestMod, ResponseMod, Handler, Serve,
        RequestModHook, ResponseModHook, Hook, Proceed, Quiet
  <1> QED
    BY <1>18 DEF Stutter, Promise!Next

\* Handlers, hooks, queues and timers together keep the promise of Modification, for any
\* exchanges, plugins, names and capacity.
THEOREM ModificationIsPromised == Spec => Implements
  <1>1. Init => Brought /\ FirstIsOpen
    BY DEF Init, Brought, FirstIsOpen, InHand
  <1> QED
    BY <1>1, InitImplements, StepImplements, Invariant, ClosedChannelsAreGone, AnswersMatchWaiters,
       AllPlaced, StepBrought, StepFirstIsOpen, PTL
    DEF Spec, Implements, Promise!Spec
=============================================================================
