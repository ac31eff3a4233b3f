--------------------------- MODULE RoClientsProofs ---------------------------
(***************************************************************************)
(* Theorems about RoClients, for any number of exchanges and plugins, any  *)
(* names and any queue capacity.                                           *)
(***************************************************************************)
EXTENDS RoClients, FiniteSetTheorems, TLAPS

\* What the types leave out: only streams that registered are known to the map,
\* to the tasks and to the closers, and only exchanges that arrived have tasks.
Registered(s) == phase[s] \notin {"connecting", "rejected"}

Known ==
  /\ \A s \in clients : Registered(s)
  /\ \A x \in Exchanges, s \in Streams : task[x][s] # "none" => x \in arrived /\ Registered(s)
  /\ \A s \in Streams : ~Registered(s) => ~closed[s] /\ closers[s] = 0

IInv == TypeOK /\ Known

-----------------------------------------------------------------------------

LEMMA InitIInv == Init => IInv
  BY RoClientsAssumption DEF Init, IInv, TypeOK, Known, Registered, Phases, Steps

LEMMA StepIInv == IInv /\ [Next]_vars => IInv'
  <1> SUFFICES ASSUME IInv, [Next]_vars PROVE IInv'
    OBVIOUS
  <1> USE RoClientsAssumption
      DEF IInv, TypeOK, Known, Registered, Phases, Steps, vars, channelVars, hookVars
  <1>1. ASSUME NEW s \in Streams, RegisterDuplicate(s) PROVE IInv'
    BY <1>1 DEF RegisterDuplicate
  <1>2. ASSUME NEW s \in Streams, Register(s) PROVE IInv'
    BY <1>2 DEF Register
  <1>3. ASSUME NEW s \in Streams, Forward(s) PROVE IInv'
    BY <1>3 DEF Forward
  <1>4. ASSUME NEW s \in Streams, SendFails(s) PROVE IInv'
    BY <1>4 DEF SendFails
  <1>5. ASSUME NEW s \in Streams, Confirm(s) PROVE IInv'
    BY <1>5 DEF Confirm
  <1>6. ASSUME NEW s \in Streams, RangeEnds(s) PROVE IInv'
    BY <1>6 DEF RangeEnds
  <1>7. ASSUME NEW x \in Exchanges, StartTasks(x) PROVE IInv'
    BY <1>7 DEF StartTasks
  <1>8. ASSUME NEW x \in Exchanges, NEW s \in Streams, Enqueue(x, s) PROVE IInv'
    BY <1>8 DEF Enqueue, Go
  <1>9. ASSUME NEW x \in Exchanges, NEW s \in Streams, FindFull(x, s) PROVE IInv'
    BY <1>9 DEF FindFull, Go
  <1>10. ASSUME NEW x \in Exchanges, NEW s \in Streams, SendOnClosed(x, s) PROVE IInv'
    BY <1>10 DEF SendOnClosed, Go
  <1>11. ASSUME NEW x \in Exchanges, NEW s \in Streams, RemoveFull(x, s) PROVE IInv'
    BY <1>11 DEF RemoveFull, Go, WithoutName
  <1>12. ASSUME NEW x \in Exchanges, NEW s \in Streams, ReceiveFalse(x, s) PROVE IInv'
    BY <1>12 DEF ReceiveFalse, Go
  <1>13. ASSUME NEW x \in Exchanges, NEW s \in Streams, RemoveEmpty(x, s) PROVE IInv'
    BY <1>13 DEF RemoveEmpty, Go, WithoutName
  <1>14. ASSUME NEW s \in Streams, CloseFires(s) PROVE IInv'
    BY <1>14 DEF CloseFires
  <1>15. CASE Quiet
    BY <1>15 DEF Quiet
  <1>16. CASE UNCHANGED vars
    BY <1>16
  <1> QED
    BY <1>1, <1>2, <1>3, <1>4, <1>5, <1>6, <1>7, <1>8, <1>9,
       <1>10, <1>11, <1>12, <1>13, <1>14, <1>15, <1>16
    DEF Next, RequestIn, RequestOut, ResponseIn, ResponseOut, Handler, Serve,
        RequestInHook, RequestOutHook, ResponseInHook, ResponseOutHook, Hook, Proceed

\* The types hold in every reachable state; in particular no queue ever holds
\* more than QueueSize messages.
THEOREM TypeCorrect == Spec => []TypeOK
  <1>1. IInv => TypeOK
    BY DEF IInv
  <1> QED
    BY InitIInv, StepIInv, <1>1, PTL DEF Spec

THEOREM Invariant == Spec => []IInv
  BY InitIInv, StepIInv, PTL DEF Spec

-----------------------------------------------------------------------------
(***************************************************************************)
(* No send on a closed channel: the process survives.                      *)
(***************************************************************************)

\* A task that has not sent yet found its client in the map just now, so nobody
\* has closed the channel since.
NoneTooLate ==
  \A x \in Exchanges, s \in Streams : task[x][s] = "ready" => ~closed[s]

LEMMA StepNoCrash ==
  IInv /\ ClosedIsGone /\ NoneTooLate /\ NoCrash /\ [Next]_vars
    => ClosedIsGone' /\ NoneTooLate' /\ NoCrash'
  <1> SUFFICES ASSUME IInv, ClosedIsGone, NoneTooLate, NoCrash, [Next]_vars
               PROVE  ClosedIsGone' /\ NoneTooLate' /\ NoCrash'
    OBVIOUS
  <1> USE DEF IInv, TypeOK, Known, Registered, ClosedIsGone, NoneTooLate, NoCrash,
              vars, channelVars, hookVars
  <1>1. ASSUME NEW s \in Streams, RegisterDuplicate(s) PROVE ClosedIsGone' /\ NoneTooLate' /\ NoCrash'
    BY <1>1 DEF RegisterDuplicate
  <1>2. ASSUME NEW s \in Streams, Register(s) PROVE ClosedIsGone' /\ NoneTooLate' /\ NoCrash'
    BY <1>2 DEF Register
  <1>3. ASSUME NEW s \in Streams, Forward(s) PROVE ClosedIsGone' /\ NoneTooLate' /\ NoCrash'
    BY <1>3 DEF Forward
  <1>4. ASSUME NEW s \in Streams, SendFails(s) PROVE ClosedIsGone' /\ NoneTooLate' /\ NoCrash'
    BY <1>4 DEF SendFails
  <1>5. ASSUME NEW s \in Streams, Confirm(s) PROVE ClosedIsGone' /\ NoneTooLate' /\ NoCrash'
    BY <1>5 DEF Confirm
  <1>6. ASSUME NEW s \in Streams, RangeEnds(s) PROVE ClosedIsGone' /\ NoneTooLate' /\ NoCrash'
    BY <1>6 DEF RangeEnds
  <1>7. ASSUME NEW x \in Exchanges, StartTasks(x) PROVE ClosedIsGone' /\ NoneTooLate' /\ NoCrash'
    BY <1>7 DEF StartTasks
  <1>8. ASSUME NEW x \in Exchanges, NEW s \in Streams, Enqueue(x, s) PROVE ClosedIsGone' /\ NoneTooLate' /\ NoCrash'
    BY <1>8 DEF Enqueue, Go
  <1>9. ASSUME NEW x \in Exchanges, NEW s \in Streams, FindFull(x, s) PROVE ClosedIsGone' /\ NoneTooLate' /\ NoCrash'
    BY <1>9 DEF FindFull, Go
  <1>10. ASSUME NEW x \in Exchanges, NEW s \in Streams, SendOnClosed(x, s) PROVE ClosedIsGone' /\ NoneTooLate' /\ NoCrash'
    BY <1>10 DEF SendOnClosed, Go
  <1>11. ASSUME NEW x \in Exchanges, NEW s \in Streams, RemoveFull(x, s) PROVE ClosedIsGone' /\ NoneTooLate' /\ NoCrash'
    BY <1>11 DEF RemoveFull, Go, WithoutName
  <1>12. ASSUME NEW x \in Exchanges, NEW s \in Streams, ReceiveFalse(x, s) PROVE ClosedIsGone' /\ NoneTooLate' /\ NoCrash'
    BY <1>12 DEF ReceiveFalse, Go
  <1>13. ASSUME NEW x \in Exchanges, NEW s \in Streams, RemoveEmpty(x, s) PROVE ClosedIsGone' /\ NoneTooLate' /\ NoCrash'
    BY <1>13 DEF RemoveEmpty, Go, WithoutName
  <1>14. ASSUME NEW s \in Streams, CloseFires(s) PROVE ClosedIsGone' /\ NoneTooLate' /\ NoCrash'
    BY <1>14 DEF CloseFires, AboutToSend
  <1>15. CASE Quiet
    BY <1>15 DEF Quiet
  <1>16. CASE UNCHANGED vars
    BY <1>16
  <1> QED
    BY <1>1, <1>2, <1>3, <1>4, <1>5, <1>6, <1>7, <1>8, <1>9,
       <1>10, <1>11, <1>12, <1>13, <1>14, <1>15, <1>16
    DEF Next, RequestIn, RequestOut, ResponseIn, ResponseOut, Handler, Serve,
        RequestInHook, RequestOutHook, ResponseInHook, ResponseOutHook, Hook, Proceed

LEMMA InitNoCrash == Init => ClosedIsGone /\ NoneTooLate /\ NoCrash
  BY DEF Init, ClosedIsGone, NoneTooLate, NoCrash

\* A channel that is closed, or is going to be, belongs to no client in the map,
\* whatever names the plugins register.
THEOREM ClosedChannelsAreGone == Spec => []ClosedIsGone
  BY InitNoCrash, Invariant, StepNoCrash, PTL DEF Spec

\* No task ever sends on a closed channel: the 60 seconds of asyncCloseChannel
\* are enough for read-only plugins, which RequestModHook cannot say of its own.
THEOREM NeverCrashes == Spec => []NoCrash
  BY InitNoCrash, Invariant, StepNoCrash, PTL DEF Spec

-----------------------------------------------------------------------------
(***************************************************************************)
(* Plugins that are dropped are released.                                  *)
(***************************************************************************)

LEMMA StepNoOrphan == IInv /\ NoOrphan /\ [Next]_vars => NoOrphan'
  <1> SUFFICES ASSUME IInv, NoOrphan, [Next]_vars PROVE NoOrphan'
    OBVIOUS
  <1> USE DEF IInv, TypeOK, Known, Registered, NoOrphan, Unshared, Live, vars, channelVars, hookVars
  <1>1. ASSUME NEW s \in Streams, RegisterDuplicate(s) PROVE NoOrphan'
    BY <1>1 DEF RegisterDuplicate
  <1>2. ASSUME NEW s \in Streams, Register(s) PROVE NoOrphan'
    BY <1>2 DEF Register
  <1>3. ASSUME NEW s \in Streams, Forward(s) PROVE NoOrphan'
    BY <1>3 DEF Forward
  <1>4. ASSUME NEW s \in Streams, SendFails(s) PROVE NoOrphan'
    BY <1>4 DEF SendFails
  <1>5. ASSUME NEW s \in Streams, Confirm(s) PROVE NoOrphan'
    BY <1>5 DEF Confirm
  <1>6. ASSUME NEW s \in Streams, RangeEnds(s) PROVE NoOrphan'
    BY <1>6 DEF RangeEnds
  <1>7. ASSUME NEW x \in Exchanges, StartTasks(x) PROVE NoOrphan'
    BY <1>7 DEF StartTasks
  <1>8. ASSUME NEW x \in Exchanges, NEW s \in Streams, Enqueue(x, s) PROVE NoOrphan'
    BY <1>8 DEF Enqueue, Go
  <1>9. ASSUME NEW x \in Exchanges, NEW s \in Streams, FindFull(x, s) PROVE NoOrphan'
    BY <1>9 DEF FindFull, Go
  <1>10. ASSUME NEW x \in Exchanges, NEW s \in Streams, SendOnClosed(x, s) PROVE NoOrphan'
    BY <1>10 DEF SendOnClosed, Go
  <1>11. ASSUME NEW x \in Exchanges, NEW s \in Streams, RemoveFull(x, s) PROVE NoOrphan'
    BY <1>11 DEF RemoveFull, Go, WithoutName
  <1>12. ASSUME NEW x \in Exchanges, NEW s \in Streams, ReceiveFalse(x, s) PROVE NoOrphan'
    BY <1>12 DEF ReceiveFalse, Go
  <1>13. ASSUME NEW x \in Exchanges, NEW s \in Streams, RemoveEmpty(x, s) PROVE NoOrphan'
    BY <1>13 DEF RemoveEmpty, Go, WithoutName
  <1>14. ASSUME NEW s \in Streams, CloseFires(s) PROVE NoOrphan'
    BY <1>14 DEF CloseFires
  <1>15. CASE Quiet
    BY <1>15 DEF Quiet
  <1>16. CASE UNCHANGED vars
    BY <1>16
  <1> QED
    BY <1>1, <1>2, <1>3, <1>4, <1>5, <1>6, <1>7, <1>8, <1>9,
       <1>10, <1>11, <1>12, <1>13, <1>14, <1>15, <1>16
    DEF Next, RequestIn, RequestOut, ResponseIn, ResponseOut, Handler, Serve,
        RequestInHook, RequestOutHook, ResponseInHook, ResponseOutHook, Hook, Proceed

\* A plugin that is still connected, and under whose name no other stream has been
\* registered, is in the map or has a channel that is closed or will be, whatever the
\* other plugins do and are called.
THEOREM PluginsAreReleased == Spec => []NoOrphan
  <1>1. Init => NoOrphan
    BY DEF Init, NoOrphan, Live
  <1> QED
    BY <1>1, StepNoOrphan, Invariant, PTL DEF Spec

-----------------------------------------------------------------------------
(***************************************************************************)
(* A handler always finds somebody to confirm to.                          *)
(***************************************************************************)

\* EnoughWaiters counts, so the sets it counts have to be finite.
WaitersAreFinite == \A s \in Streams : IsFiniteSet(Waiting(s))

LEMMA OwedIsNatural == IInv => \A s \in Streams : Owed(s) \in Nat
  BY RoClientsAssumption DEF IInv, TypeOK, Owed

\* What a step does to one plugin's account: it leaves the tasks alone and does
\* not raise the debt; one more task waits; or one waits no longer, because it was
\* confirmed or because the handler has ended.
Settled(t) ==
  /\ Waiting(t)' = Waiting(t)
  /\ phase'[t] = "ended" \/ (phase[t] # "ended" /\ Owed(t)' <= Owed(t))

Joined(t) ==
  /\ \E x \in Exchanges : x \notin Waiting(t) /\ Waiting(t)' = Waiting(t) \cup {x}
  /\ phase'[t] = phase[t]
  /\ Owed(t)' <= Owed(t) + 1

Left(t) ==
  /\ \E x \in Waiting(t) : Waiting(t)' = Waiting(t) \ {x}
  /\ phase'[t] = "ended" \/ (phase[t] # "ended" /\ Owed(t)' = Owed(t) - 1)

LEMMA StepAccount ==
  ASSUME IInv, [Next]_vars, NEW t \in Streams
  PROVE  Settled(t) \/ Joined(t) \/ Left(t)
  <1> DEFINE Goal == Settled(t) \/ Joined(t) \/ Left(t)
  <1> USE RoClientsAssumption
      DEF IInv, TypeOK, Known, Registered, Waiting, Owed, Phases, Steps,
          vars, channelVars, hookVars
  <1>1. ASSUME NEW s \in Streams, RegisterDuplicate(s) PROVE Goal
    BY <1>1 DEF RegisterDuplicate, Settled
  <1>2. ASSUME NEW s \in Streams, Register(s) PROVE Goal
    BY <1>2 DEF Register, Settled
  <1>3. ASSUME NEW s \in Streams, Forward(s) PROVE Goal
    BY <1>3 DEF Forward, Settled
  <1>4. ASSUME NEW s \in Streams, SendFails(s) PROVE Goal
    BY <1>4 DEF SendFails, Settled
  <1>5. ASSUME NEW s \in Streams, Confirm(s) PROVE Goal
    <2>1. PICK x \in Exchanges : /\ task[x][s] = "waiting"
                                 /\ task' = [task EXCEPT ![x][s] = "done"]
      BY <1>5 DEF Confirm
    <2>2. CASE t = s
      <3>1. x \in Waiting(t) /\ Waiting(t)' = Waiting(t) \ {x}
        BY <2>1, <2>2
      <3>2. Owed(t)' = Owed(t) - 1 /\ phase[t] # "ended"
        BY <1>5, <2>2 DEF Confirm
      <3> QED
        BY <3>1, <3>2 DEF Left
    <2>3. CASE t # s
      <3>1. Waiting(t)' = Waiting(t)
        BY <2>1, <2>3
      <3>2. Owed(t)' = Owed(t) /\ phase'[t] = phase[t]
        BY <1>5, <2>3 DEF Confirm
      <3> QED
        BY <3>1, <3>2 DEF Settled
    <2> QED
      BY <2>2, <2>3
  <1>6. ASSUME NEW s \in Streams, RangeEnds(s) PROVE Goal
    BY <1>6 DEF RangeEnds, Settled
  <1>7. ASSUME NEW x \in Exchanges, StartTasks(x) PROVE Goal
    BY <1>7 DEF StartTasks, Settled
  <1>8. ASSUME NEW x \in Exchanges, NEW s \in Streams, Enqueue(x, s) PROVE Goal
    <2>1. CASE t = s
      <3>1. x \notin Waiting(t) /\ Waiting(t)' = Waiting(t) \cup {x}
        BY <1>8, <2>1 DEF Enqueue, Go
      <3>2. Owed(t)' <= Owed(t) + 1 /\ phase' = phase
        BY <1>8, <2>1 DEF Enqueue, Go
      <3> QED
        BY <3>1, <3>2 DEF Joined
    <2>2. CASE t # s
      <3>1. Waiting(t)' = Waiting(t)
        BY <1>8, <2>2 DEF Enqueue, Go
      <3>2. Owed(t)' = Owed(t) /\ phase' = phase
        BY <1>8, <2>2 DEF Enqueue, Go
      <3>3. phase[t] = "ended" \/ phase[t] # "ended"
        OBVIOUS
      <3> QED
        BY <3>1, <3>2, OwedIsNatural DEF Settled
    <2> QED
      BY <2>1, <2>2
  <1>9. ASSUME NEW x \in Exchanges, NEW s \in Streams, FindFull(x, s) PROVE Goal
    BY <1>9 DEF FindFull, Go, Settled
  <1>10. ASSUME NEW x \in Exchanges, NEW s \in Streams, SendOnClosed(x, s) PROVE Goal
    BY <1>10 DEF SendOnClosed, Go, Settled
  <1>11. ASSUME NEW x \in Exchanges, NEW s \in Streams, RemoveFull(x, s) PROVE Goal
    <2>1. CASE t = s
      <3>1. x \notin Waiting(t) /\ Waiting(t)' = Waiting(t) \cup {x}
        BY <1>11, <2>1 DEF RemoveFull, Go
      <3>2. Owed(t)' <= Owed(t) + 1 /\ phase' = phase
        BY <1>11, <2>1 DEF RemoveFull, Go
      <3> QED
        BY <3>1, <3>2 DEF Joined
    <2>2. CASE t # s
      <3>1. Waiting(t)' = Waiting(t)
        BY <1>11, <2>2 DEF RemoveFull, Go
      <3>2. Owed(t)' = Owed(t) /\ phase' = phase
        BY <1>11, <2>2 DEF RemoveFull, Go
      <3>3. phase[t] = "ended" \/ phase[t] # "ended"
        OBVIOUS
      <3> QED
        BY <3>1, <3>2, OwedIsNatural DEF Settled
    <2> QED
      BY <2>1, <2>2
  <1>12. ASSUME NEW x \in Exchanges, NEW s \in Streams, ReceiveFalse(x, s) PROVE Goal
    <2>1. CASE t = s
      <3>1. x \in Waiting(t) /\ Waiting(t)' = Waiting(t) \ {x}
        BY <1>12, <2>1 DEF ReceiveFalse, Go
      <3> QED
        BY <1>12, <2>1, <3>1 DEF ReceiveFalse, Go, Left
    <2>2. CASE t # s
      <3>1. Waiting(t)' = Waiting(t)
        BY <1>12, <2>2 DEF ReceiveFalse, Go
      <3> QED
        BY <1>12, <3>1 DEF ReceiveFalse, Go, Settled
    <2> QED
      BY <2>1, <2>2
  <1>13. ASSUME NEW x \in Exchanges, NEW s \in Streams, RemoveEmpty(x, s) PROVE Goal
    BY <1>13 DEF RemoveEmpty, Go, Settled
  <1>14. ASSUME NEW s \in Streams, CloseFires(s) PROVE Goal
    BY <1>14 DEF CloseFires, Settled
  <1>15. CASE Quiet
    BY <1>15 DEF Quiet, Settled
  <1>16. CASE UNCHANGED vars
    BY <1>16 DEF Settled
  <1> QED
    BY <1>1, <1>2, <1>3, <1>4, <1>5, <1>6, <1>7, <1>8, <1>9,
       <1>10, <1>11, <1>12, <1>13, <1>14, <1>15, <1>16
    DEF Next, RequestIn, RequestOut, ResponseIn, ResponseOut, Handler, Serve,
        RequestInHook, RequestOutHook, ResponseInHook, ResponseOutHook, Hook, Proceed

LEMMA StepEnoughWaiters ==
  IInv /\ IInv' /\ WaitersAreFinite /\ EnoughWaiters /\ [Next]_vars
    => WaitersAreFinite' /\ EnoughWaiters'
  <1> SUFFICES ASSUME IInv, IInv', WaitersAreFinite, EnoughWaiters, [Next]_vars,
                      NEW t \in Streams
               PROVE  /\ IsFiniteSet(Waiting(t)')
                      /\ phase'[t] # "ended" => Cardinality(Waiting(t)') >= Owed(t)'
    BY DEF WaitersAreFinite, EnoughWaiters
  <1>1. /\ IsFiniteSet(Waiting(t))
        /\ phase[t] # "ended" => Cardinality(Waiting(t)) >= Owed(t)
    BY DEF WaitersAreFinite, EnoughWaiters
  <1>2. Cardinality(Waiting(t)) \in Nat
    BY <1>1, FS_CardinalityType
  <1>3. Owed(t) \in Nat /\ Owed(t)' \in Nat
    BY RoClientsAssumption DEF IInv, TypeOK, Owed
  <1>4. CASE Settled(t)
    BY <1>1, <1>2, <1>3, <1>4 DEF Settled
  <1>5. CASE Joined(t)
    <2>1. /\ IsFiniteSet(Waiting(t)')
          /\ Cardinality(Waiting(t)') = Cardinality(Waiting(t)) + 1
      BY <1>1, <1>5, FS_AddElement DEF Joined
    <2> QED
      BY <1>1, <1>2, <1>3, <1>5, <2>1 DEF Joined
  <1>6. CASE Left(t)
    <2>1. /\ IsFiniteSet(Waiting(t)')
          /\ Cardinality(Waiting(t)') = Cardinality(Waiting(t)) - 1
      BY <1>1, <1>6, FS_RemoveElement DEF Left
    <2> QED
      BY <1>1, <1>2, <1>3, <1>6, <2>1 DEF Left
  <1> QED
    BY <1>4, <1>5, <1>6, StepAccount

\* A handler that has sent a message always finds a task to confirm it to, so it
\* never blocks on "ok <- true".
THEOREM HandlersFindWaiters == Spec => []EnoughWaiters
  <1>1. Init => WaitersAreFinite /\ EnoughWaiters
    <2> SUFFICES ASSUME Init, NEW s \in Streams
                 PROVE  IsFiniteSet(Waiting(s)) /\ Cardinality(Waiting(s)) >= Owed(s)
      BY DEF WaitersAreFinite, EnoughWaiters
    <2>1. Waiting(s) = {} /\ Owed(s) = 0
      BY DEF Init, Waiting, Owed
    <2> QED
      BY <2>1, FS_EmptySet
  <1> QED
    BY <1>1, Invariant, StepEnoughWaiters, PTL DEF Spec
=============================================================================
