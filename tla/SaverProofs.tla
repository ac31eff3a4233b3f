----------------------------- MODULE SaverProofs -----------------------------
(***************************************************************************)
(* Theorems about Saver, for any number of exchanges, database files,      *)
(* configurations and restarts, any capacity of the queues, and whatever   *)
(* IDs plugins say.                                                        *)
(***************************************************************************)
EXTENDS Saver, TLAPS

\* The saver of a configuration.
LEMMA NewSaverIs ==
  ASSUME NEW n \in 0 .. MaxApplies, NEW f \in Files \cup {None}
  PROVE  NewSaver(n, f) \in Savers \cup {None}
  BY DEF NewSaver, Savers

LEMMA InitTypeOK == Init => TypeOK
  <1> SUFFICES ASSUME Init PROVE TypeOK
    OBVIOUS
  <1>1. 0 \in 0 .. MaxApplies /\ 0 \in 0 .. MaxCrashes /\ 0 \in 0 .. MaxRetries
    BY SaverAssumption
  <1>2. NewSaver(0, FirstFile) \in Savers \cup {None}
    BY <1>1, NewSaverIs, SaverAssumption
  <1>3. saver \in [Tables -> Savers \cup {None}]
    BY <1>2 DEF Init
  <1>4. rows \in [Files -> [Tables -> SUBSET (Nat \X Exchanges)]]
    BY DEF Init
  <1> QED
    BY <1>1, <1>3, <1>4, SaverAssumption DEF Init, TypeOK

\* A pipeline's hooks are those of a saver that exists: so are its items.
LEMMA RunPipelineTypeOK ==
  ASSUME TypeOK, NEW x \in Exchanges, NEW t \in Tables, NEW from,
         NEW to \in {"sent", "answered"}, RunPipeline(x, t, from, to)
  PROVE  /\ (pc \in [Exchanges -> {"idle", "begun", "sent", "answered", "lost"}])'
         /\ (pipe \in [Tables -> Seq(Items)])'
  <1> USE DEF TypeOK, RunPipeline
  <1>1. CASE saver[t] = None
    BY <1>1
  <1>2. CASE saver[t] # None
    <2> DEFINE e == [exchange |-> x, saver |-> saver[t]]
    <2>1. e \in Items
      BY <1>2 DEF Items
    <2>2. pipe' = [pipe EXCEPT ![t] = Append(@, e)]
      BY <1>2
    <2> HIDE DEF e
    <2>3. (pipe \in [Tables -> Seq(Items)])'
      BY <2>1, <2>2
    <2> QED
      BY <2>3
  <1> QED
    BY <1>1, <1>2

\* An ID that a plugin says, or that of another exchange, is a number too.
LEMMA RequestOutTypeOK ==
  ASSUME TypeOK, NEW x \in Exchanges, RequestOut(x)
  PROVE  TypeOK'
  <1> USE DEF TypeOK
  <1>1. /\ (pc \in [Exchanges -> {"idle", "begun", "sent", "answered", "lost"}])'
        /\ (pipe \in [Tables -> Seq(Items)])'
    BY RunPipelineTypeOK DEF RequestOut, Tables
  <1>2. (id \in [Exchanges -> Nat])' /\ (home \in [Exchanges -> Files \cup {None}])'
    <2>1. CASE Rename(x)
      <3>1. PICK i \in PluginIds \cup {id[y] : y \in {z \in Exchanges : Running(z)}} :
              id' = [id EXCEPT ![x] = i]
        BY <2>1 DEF Rename
      <3>2. i \in Nat
        BY <3>1, SaverAssumption
      <3> QED
        BY <2>1, <3>1, <3>2 DEF Rename
    <2>2. CASE UNCHANGED <<id, home>>
      BY <2>2
    <2> QED
      BY <2>1, <2>2 DEF RequestOut
  <1> QED
    BY <1>1, <1>2 DEF RequestOut, RunPipeline, saverVars, configVars

LEMMA ResponseInTypeOK ==
  ASSUME TypeOK, NEW x \in Exchanges, ResponseIn(x)
  PROVE  TypeOK'
  <1>1. /\ (pc \in [Exchanges -> {"idle", "begun", "sent", "answered", "lost"}])'
        /\ (pipe \in [Tables -> Seq(Items)])'
    BY RunPipelineTypeOK DEF ResponseIn, Tables
  <1> QED
    BY <1>1 DEF TypeOK, ResponseIn, RunPipeline, saverVars, configVars

LEMMA SaveTypeOK ==
  ASSUME TypeOK, NEW t \in Tables, Save(t)
  PROVE  TypeOK'
  <1> USE SaverAssumption DEF TypeOK, Save, exchangeVars, configVars
  <1> DEFINE i == Head(pipe[t])
             j == [table |-> t, exchange |-> i.exchange]
  <1>1. /\ pipe[t] \in Seq(Items) /\ i \in Items /\ Tail(pipe[t]) \in Seq(Items)
    OBVIOUS
  <1>2. i.saver \in Savers /\ j \in Jobs
    BY <1>1 DEF Items, Jobs
  <1>3. (pipe \in [Tables -> Seq(Items)])'
    BY <1>1
  <1>4. CASE Len(queue[i.saver]) < QueueSize
    <2> DEFINE q == Append(queue[i.saver], j)
    <2>1. q \in Seq(Jobs) /\ Len(q) <= QueueSize
      BY <1>2, <1>4
    <2>2. queue' = [queue EXCEPT ![i.saver] = q]
      BY <1>4
    <2> HIDE DEF q
    <2>3. (queue \in [Savers -> Seq(Jobs)] /\ \A g \in Savers : Len(queue[g]) <= QueueSize)'
      BY <1>2, <2>1, <2>2, SMTT(20)
    <2> QED
      BY <1>3, <2>3
  <1>5. CASE ~(Len(queue[i.saver]) < QueueSize)
    BY <1>3, <1>5
  <1> QED
    BY <1>4, <1>5

\* Dropping the first item leaves a queue that is no longer than before.
LEMMA DequeueTypeOK ==
  ASSUME TypeOK, NEW g \in Savers, queue[g] # <<>>, Dequeue(g)
  PROVE  /\ (queue \in [Savers -> Seq(Jobs)])'
         /\ (\A k \in Savers : Len(queue[k]) <= QueueSize)'
         /\ (attempts \in [Savers -> 0 .. MaxRetries])'
  <1> USE SaverAssumption DEF TypeOK, Dequeue
  <1>1. Tail(queue[g]) \in Seq(Jobs) /\ Len(Tail(queue[g])) <= QueueSize
    OBVIOUS
  <1> QED
    BY <1>1

LEMMA CommitTypeOK ==
  ASSUME TypeOK, NEW g \in Savers, Commit(g)
  PROVE  TypeOK'
  <1> DEFINE j == Head(queue[g])
             f == g[2]
             t == j.table
             r == <<id[j.exchange], j.exchange>>
  <1>1. j \in Jobs
    BY DEF TypeOK, Commit
  <1>2. t \in Tables /\ j.exchange \in Exchanges
    BY <1>1 DEF Jobs
  <1>3. r \in Nat \X Exchanges
    BY <1>2 DEF TypeOK
  <1>4. f \in Files
    BY DEF Savers
  <1>5. rows' = [rows EXCEPT ![f][t] = @ \cup {r}]
    BY DEF Commit
  <1> HIDE DEF f, t, r
  <1>6. (rows \in [Files -> [Tables -> SUBSET (Nat \X Exchanges)]])'
    BY <1>2, <1>3, <1>4, <1>5 DEF TypeOK
  <1> QED
    BY <1>6, DequeueTypeOK DEF Commit, TypeOK, exchangeVars, configVars

\* The last ID of the table is a number.
LEMMA LastIdIsNat ==
  ASSUME TypeOK, NEW f \in Files, NEW m \in Ids(f, "requests") \cup {0}
  PROVE  m \in Nat
  BY DEF TypeOK, Tables, Ids

LEMMA ApplyTypeOK ==
  ASSUME TypeOK, Apply
  PROVE  TypeOK'
  <1> USE SaverAssumption DEF TypeOK, exchangeVars, saverVars, historyVars
  <1>1. ASSUME Begin PROVE applies' \in 0 .. MaxApplies
    BY <1>1 DEF Begin
  <1>2. ASSUME NEW f \in Files, NewDBIDProvider(f) PROVE TypeOK'
    <2>1. applies' \in 0 .. MaxApplies
      BY <1>1, <1>2 DEF NewDBIDProvider
    <2>2. fresh' \in Savers
      BY <1>2, <2>1 DEF NewDBIDProvider, NewSaver, Savers
    <2>3. newLast' \in Nat
      BY <1>2, LastIdIsNat DEF NewDBIDProvider
    <2> QED
      BY <1>2, <2>1, <2>2, <2>3 DEF NewDBIDProvider
  <1>3. ASSUME SetIDProvider PROVE TypeOK'
    <2>1. fresh[2] \in Files
      BY <1>3 DEF SetIDProvider, Savers
    <2> QED
      BY <1>3, <2>1 DEF SetIDProvider
  <1>4. ASSUME NewDefaultProvider PROVE TypeOK'
    <2>1. applies' \in 0 .. MaxApplies
      BY <1>1, <1>4 DEF NewDefaultProvider
    <2> QED
      BY <1>4, <2>1 DEF NewDefaultProvider
  <1>5. ASSUME SetRequestOutHooks PROVE TypeOK'
    BY <1>5 DEF SetRequestOutHooks
  <1>6. ASSUME SetResponseInHooks PROVE TypeOK'
    BY <1>6 DEF SetResponseInHooks, Return
  <1>7. ASSUME ApplyFails PROVE TypeOK'
    BY <1>7 DEF ApplyFails, Return
  <1> QED
    BY <1>2, <1>3, <1>4, <1>5, <1>6, <1>7 DEF Apply

\* A restart is one with a file, counting on from its last request, or with none.
LEMMA CrashIs ==
  ASSUME TypeOK, Crash
  PROVE  \E f \in Files \cup {None}, m \in Nat :
           Restart(f, m) /\ (f \in Files => IsLastId(f, m))
  <1>1. CASE Restart(None, 0)
    BY <1>1, SaverAssumption
  <1>2. CASE \E f \in Files : \E m \in Ids(f, "requests") \cup {0} : IsLastId(f, m) /\ Restart(f, m)
    BY <1>2, LastIdIsNat
  <1> QED
    BY <1>1, <1>2 DEF Crash

LEMMA CrashTypeOK ==
  ASSUME TypeOK, Crash
  PROVE  TypeOK'
  <1> USE SaverAssumption DEF TypeOK
  <1> PICK f \in Files \cup {None}, m \in Nat : Restart(f, m)
    BY CrashIs
  <1>1. NewSaver(applies, f) \in Savers \cup {None}
    BY NewSaverIs
  <1>2. (saver \in [Tables -> Savers \cup {None}])'
    BY <1>1 DEF Restart
  <1>3. (pc \in [Exchanges -> {"idle", "begun", "sent", "answered", "lost"}])'
    BY DEF Restart
  <1>4. (crashes \in 0 .. MaxCrashes)'
    BY DEF Restart
  <1> QED
    BY <1>2, <1>3, <1>4 DEF Restart

LEMMA StepTypeOK == TypeOK /\ [Next]_vars => TypeOK'
  <1> SUFFICES ASSUME TypeOK, [Next]_vars PROVE TypeOK'
    OBVIOUS
  <1> USE SaverAssumption
  <1>1. ASSUME NEW x \in Exchanges, NextID(x) PROVE TypeOK'
    <2>1. last' \in Nat /\ (id \in [Exchanges -> Nat])'
          /\ (home \in [Exchanges -> Files \cup {None}])'
      <3>1. /\ last \in Nat /\ id \in [Exchanges -> Nat]
            /\ home \in [Exchanges -> Files \cup {None}] /\ counted \in Files \cup {None}
        BY DEF TypeOK
      <3>2. \/ UNCHANGED <<last, id, home>>
            \/ /\ last' = last + 1 /\ id' = [id EXCEPT ![x] = last + 1]
               /\ home' = [home EXCEPT ![x] = counted]
        BY <1>1 DEF NextID
      <3>3. last + 1 \in Nat
        BY <3>1
      <3> QED
        BY <3>1, <3>2, <3>3
    <2>2. (pc \in [Exchanges -> {"idle", "begun", "sent", "answered", "lost"}])'
      BY <1>1 DEF NextID, TypeOK
    <2> QED
      BY <1>1, <2>1, <2>2 DEF NextID, TypeOK, saverVars, configVars
  <1>2. ASSUME NEW x \in Exchanges, RequestOut(x) PROVE TypeOK'
    BY <1>2, RequestOutTypeOK
  <1>3. ASSUME NEW x \in Exchanges, ResponseIn(x) PROVE TypeOK'
    BY <1>3, ResponseInTypeOK
  <1>4. ASSUME NEW t \in Tables, Save(t) PROVE TypeOK'
    BY <1>4, SaveTypeOK
  <1>5. ASSUME NEW g \in Savers, Commit(g) PROVE TypeOK'
    BY <1>5, CommitTypeOK
  <1>6. ASSUME NEW g \in Savers, Fail(g) PROVE TypeOK'
    BY <1>6, DequeueTypeOK DEF Fail, TypeOK, exchangeVars, configVars
  <1>7. ASSUME NEW g \in Savers, Busy(g) PROVE TypeOK'
    <2>1. CASE attempts[g] + 1 < MaxRetries
      <3>1. attempts[g] + 1 \in 0 .. MaxRetries
        BY <2>1 DEF TypeOK
      <3>2. attempts' \in [Savers -> 0 .. MaxRetries]
        BY <1>7, <2>1, <3>1 DEF Busy, TypeOK
      <3> QED
        BY <1>7, <2>1, <3>2 DEF Busy, TypeOK, exchangeVars, configVars
    <2>2. CASE ~(attempts[g] + 1 < MaxRetries)
      BY <1>7, <2>2, DequeueTypeOK DEF Busy, TypeOK, exchangeVars, configVars
    <2> QED
      BY <2>1, <2>2
  <1>8. CASE UNCHANGED vars
    BY <1>8 DEF vars, TypeOK
  <1> QED
    BY <1>1, <1>2, <1>3, <1>4, <1>5, <1>6, <1>7, <1>8, ApplyTypeOK, CrashTypeOK
    DEF Next, saveRequest, saveResponse, Write, Quiet, Tables

\* Types, for any number of files, configurations and restarts; no saver's queue exceeds
\* its capacity, and no row is tried more often than retry allows.
THEOREM TypeCorrect == Spec => []TypeOK
  <1> QED
    BY InitTypeOK, StepTypeOK, PTL DEF Spec

-----------------------------------------------------------------------------
(***************************************************************************)
(* Items and rows: what holds of them whatever is counted.                 *)
(***************************************************************************)

\* An exchange that has offered its request, or its response.
Offered(t, x) == pc[x] = "answered" \/ (pc[x] = "sent" /\ t = "requests")

\* What is in a pipeline or a queue is of an exchange that is under way.
ItemsRunning ==
  /\ \A t \in Tables : \A i \in 1 .. Len(pipe[t]) : Offered(t, pipe[t][i].exchange)
  /\ \A g \in Savers : \A i \in 1 .. Len(queue[g]) :
       Offered(queue[g][i].table, queue[g][i].exchange)

\* A message is in one place of its pipeline or of the queues.
ItemsOnce ==
  /\ \A t \in Tables : \A i, j \in 1 .. Len(pipe[t]) :
       pipe[t][i].exchange = pipe[t][j].exchange => i = j
  /\ \A g, h \in Savers : \A i \in 1 .. Len(queue[g]), j \in 1 .. Len(queue[h]) :
       /\ queue[g][i].table = queue[h][j].table
       /\ queue[g][i].exchange = queue[h][j].exchange
       => g = h /\ i = j
  /\ \A g \in Savers : \A i \in 1 .. Len(queue[g]) :
       \A t \in Tables : \A j \in 1 .. Len(pipe[t]) :
         queue[g][i].table = t => queue[g][i].exchange # pipe[t][j].exchange

\* A message that is still to be written is in no table of any file.
Unwritten ==
  \A f \in Files, t \in Tables : \A r \in rows[f][t] :
    /\ \A i \in 1 .. Len(pipe[t]) : pipe[t][i].exchange # r[2]
    /\ \A g \in Savers : \A i \in 1 .. Len(queue[g]) :
         queue[g][i].table = t => queue[g][i].exchange # r[2]

\* Rows are of exchanges that have offered the message, under the ID they have.
RowsOfExchanges ==
  \A f \in Files, t \in Tables : \A r \in rows[f][t] :
    (Offered(t, r[2]) \/ pc[r[2]] = "lost") /\ r[1] = id[r[2]]

\* An exchange that has not begun is numbered nowhere.
Unnumbered == \A x \in Exchanges : pc[x] = "idle" => home[x] = None

\* Between the look at the last ID and the start of the provider that counts on from it,
\* only requests of exchanges under way have come to be rows.
ReadBound ==
  apply = "read" =>
    \A r \in OwnRows(fresh[2], "requests") : r[1] <= newLast \/ Running(r[2])

Basis == ItemsRunning /\ ItemsOnce /\ Unwritten /\ RowsOfExchanges /\ Unnumbered /\ ReadBound

-----------------------------------------------------------------------------
(***************************************************************************)
(* The IDs of one file.                                                    *)
(***************************************************************************)

\* Those of the exchanges under way differ, and the provider in use is beyond them.
Numbered(f) ==
  /\ DistinctIds(f)
  /\ counted = f => \A x \in Exchanges : Running(x) /\ home[x] = f => id[x] <= last

\* It is beyond the rows of the table too, and those with the ID of an exchange under
\* way are that exchange's.
Free(f, t) ==
  /\ counted = f => \A r \in OwnRows(f, t) : r[1] <= last
  /\ \A r \in OwnRows(f, t) : \A x \in Exchanges :
       Running(x) /\ home[x] = f /\ id[x] = r[1] => r[2] = x

\* What is due to the counter of the file never going back while the proxy runs, ...
Counted(f) == Numbered(f) /\ Free(f, "requests")

\* ... or to less than an ID in the table of responses.
Paired(f) == Free(f, "responses") /\ OwnPairsMatch(f)

Safe(f) == (f \notin setBack => Counted(f)) /\ (f \notin orphans => Paired(f))

Inv == TypeOK /\ Basis /\ setBack \subseteq orphans /\ \A f \in Files : Safe(f)

LEMMA InitInv == Init => Inv
  <1> SUFFICES ASSUME Init PROVE Inv
    OBVIOUS
  <1>1. TypeOK
    BY InitTypeOK
  <1>2. /\ \A f \in Files, t \in Tables : rows[f][t] = {} /\ OwnRows(f, t) = {}
        /\ \A x \in Exchanges : ~Running(x)
        /\ setBack = {} /\ orphans = {} /\ apply = "done"
    BY DEF Init, OwnRows, Running
  <1>3. ItemsRunning /\ ItemsOnce
    BY DEF Init, ItemsRunning, Offered, ItemsOnce, Tables
  <1>4. Unwritten /\ RowsOfExchanges /\ Unnumbered /\ ReadBound
    BY <1>2 DEF Init, Unwritten, RowsOfExchanges, Unnumbered, ReadBound
  <1>5. ASSUME NEW f \in Files PROVE Safe(f)
    BY <1>2 DEF Safe, Counted, Numbered, DistinctIds, Paired, Free, OwnPairsMatch, Tables
  <1> QED
    BY <1>1, <1>2, <1>3, <1>4, <1>5 DEF Inv, Basis

\* What the steps of an exchange, of a worker and of a saver do to sequences.
LEMMA AppendElements ==
  ASSUME NEW S, NEW s \in Seq(S), NEW e \in S
  PROVE  /\ Len(Append(s, e)) = Len(s) + 1
         /\ \A i \in 1 .. Len(Append(s, e)) :
              \/ i \in 1 .. Len(s) /\ Append(s, e)[i] = s[i]
              \/ i = Len(s) + 1 /\ Append(s, e)[i] = e
  OBVIOUS

LEMMA TailElements ==
  ASSUME NEW S, NEW s \in Seq(S), s # <<>>
  PROVE  /\ Tail(s) \in Seq(S) /\ Len(s) \in Nat \ {0}
         /\ Head(s) = s[1] /\ 1 \in 1 .. Len(s)
         /\ \A i \in 1 .. Len(Tail(s)) : i + 1 \in 2 .. Len(s) /\ Tail(s)[i] = s[i + 1]
  OBVIOUS

\* What is in the pipelines, the queues and the tables.
LEMMA Elements ==
  ASSUME TypeOK
  PROVE  /\ \A t \in Tables : \A i \in 1 .. Len(pipe[t]) :
              pipe[t][i].exchange \in Exchanges /\ pipe[t][i].saver \in Savers
         /\ \A g \in Savers : \A i \in 1 .. Len(queue[g]) :
              queue[g][i].exchange \in Exchanges /\ queue[g][i].table \in Tables
         /\ \A f \in Files, t \in Tables : \A r \in rows[f][t] :
              r[1] \in Nat /\ r[2] \in Exchanges
  <1>1. ASSUME NEW t \in Tables, NEW i \in 1 .. Len(pipe[t])
        PROVE  pipe[t][i].exchange \in Exchanges /\ pipe[t][i].saver \in Savers
    <2>1. pipe[t] \in Seq(Items)
      BY DEF TypeOK
    <2>2. pipe[t][i] \in Items
      BY <2>1
    <2> QED
      BY <2>2 DEF Items
  <1>2. ASSUME NEW g \in Savers, NEW i \in 1 .. Len(queue[g])
        PROVE  queue[g][i].exchange \in Exchanges /\ queue[g][i].table \in Tables
    <2>1. queue[g] \in Seq(Jobs)
      BY DEF TypeOK
    <2>2. queue[g][i] \in Jobs
      BY <2>1
    <2> QED
      BY <2>2 DEF Jobs
  <1>3. ASSUME NEW f \in Files, NEW t \in Tables, NEW r \in rows[f][t]
        PROVE  r[1] \in Nat /\ r[2] \in Exchanges
    BY DEF TypeOK
  <1> QED
    BY <1>1, <1>2, <1>3

\* An exchange that has offered nothing has no rows: whatever ID it gets, the rows
\* of each file are the same.
LEMMA RowsStay ==
  ASSUME Inv, NEW x \in Exchanges, pc[x] \in {"idle", "begun"}, rows' = rows,
         \A y \in Exchanges : y # x => home'[y] = home[y]
  PROVE  \A f \in Files, t \in Tables :
           OwnRows(f, t)' = OwnRows(f, t) /\ \A r \in rows[f][t] : r[2] # x
  <1>1. \A f \in Files, t \in Tables : \A r \in rows[f][t] : r[2] \in Exchanges /\ r[2] # x
    BY Elements DEF Inv, Basis, RowsOfExchanges, Offered
  <1> QED
    BY <1>1 DEF OwnRows

\* Where nothing is counted anew, no row comes, and nobody gets an ID.
LEMMA KeepsFile ==
  ASSUME NEW f \in Files,
         \A t \in Tables : OwnRows(f, t)' = OwnRows(f, t),
         counted' = f => counted = f /\ last' = last,
         \A x \in Exchanges :
           Running(x)' /\ home'[x] = f => Running(x) /\ home[x] = f /\ id'[x] = id[x]
  PROVE  /\ Numbered(f) => Numbered(f)'
         /\ \A t \in Tables : Free(f, t) => Free(f, t)'
         /\ OwnPairsMatch(f) => OwnPairsMatch(f)'
  <1>1. Numbered(f) => Numbered(f)'
    BY DEF Numbered, DistinctIds
  <1>2. ASSUME NEW t \in Tables, Free(f, t) PROVE Free(f, t)'
    BY <1>2 DEF Free
  <1>3. OwnPairsMatch(f) => OwnPairsMatch(f)'
    BY DEF OwnPairsMatch, Tables
  <1> QED
    BY <1>1, <1>2, <1>3

LEMMA KeepsSafe ==
  ASSUME Inv, NEW f \in Files,
         \A t \in Tables : OwnRows(f, t)' = OwnRows(f, t),
         counted' = f => counted = f /\ last' = last,
         \A x \in Exchanges :
           Running(x)' /\ home'[x] = f => Running(x) /\ home[x] = f /\ id'[x] = id[x],
         setBack \subseteq setBack', orphans \subseteq orphans'
  PROVE  Safe(f)'
  <1>1. /\ Numbered(f) => Numbered(f)'
        /\ Free(f, "requests") => Free(f, "requests")'
        /\ Free(f, "responses") => Free(f, "responses")'
        /\ OwnPairsMatch(f) => OwnPairsMatch(f)'
    BY KeepsFile DEF Tables
  <1> QED
    BY <1>1 DEF Inv, Safe, Counted, Paired

\* Most steps leave the counter, the exchanges and the rows alone.
LEMMA StillSafe ==
  ASSUME Inv, UNCHANGED <<last, counted, id, home, rows, setBack, orphans>>,
         \A x \in Exchanges : Running(x)' <=> Running(x)
  PROVE  \A f \in Files : Safe(f)'
  <1>1. \A f \in Files, t \in Tables : OwnRows(f, t)' = OwnRows(f, t)
    BY DEF OwnRows
  <1> QED
    BY <1>1, KeepsSafe

-----------------------------------------------------------------------------
(***************************************************************************)
(* The steps of an exchange.                                               *)
(***************************************************************************)

\* It gets its ID before it has a message to save.
LEMMA NextIDBasis ==
  ASSUME Inv, NEW x \in Exchanges, NextID(x)
  PROVE  Basis'
  <1>1. TypeOK
    BY DEF Inv
  <1>2. /\ pc[x] = "idle" /\ pc'[x] = "begun"
        /\ \A y \in Exchanges : y # x => pc'[y] = pc[y] /\ id'[y] = id[y] /\ home'[y] = home[y]
        /\ UNCHANGED <<pipe, queue, rows, apply, fresh, newLast>>
    BY <1>1 DEF NextID, TypeOK, saverVars, configVars
  <1>3. \A t \in Tables, y \in Exchanges : Offered(t, y) => y # x /\ Offered(t, y)'
    BY <1>2 DEF Offered
  <1>4. ItemsRunning'
    BY <1>1, <1>2, <1>3, Elements DEF Inv, Basis, ItemsRunning
  <1>5. ItemsOnce' /\ Unwritten'
    BY <1>2 DEF Inv, Basis, ItemsOnce, Unwritten
  <1>6. \A f \in Files, t \in Tables :
          OwnRows(f, t)' = OwnRows(f, t) /\ \A r \in rows[f][t] : r[2] # x
    BY <1>2, RowsStay
  <1>7. RowsOfExchanges'
    BY <1>1, <1>2, <1>3, <1>6, Elements DEF Inv, Basis, RowsOfExchanges
  <1>8. Unnumbered'
    BY <1>2 DEF Inv, Basis, Unnumbered
  <1>9. ASSUME apply = "read", NEW r \in OwnRows(fresh[2], "requests")
        PROVE  r[1] <= newLast \/ Running(r[2])'
    <2>1. fresh[2] \in Files
      BY <1>1, <1>9 DEF TypeOK, Savers
    <2>2. r[2] \in Exchanges /\ r[2] # x
      BY <1>1, <1>6, <2>1, Elements DEF OwnRows, Tables
    <2> QED
      BY <1>2, <1>9, <2>2 DEF Inv, Basis, ReadBound, Running
  <1>10. ReadBound'
    <2>1. apply = "read" => OwnRows(fresh[2], "requests")' = OwnRows(fresh[2], "requests")
      BY <1>1, <1>2, <1>6 DEF TypeOK, Savers, Tables, OwnRows
    <2> QED
      BY <1>2, <1>9, <2>1 DEF ReadBound
  <1> QED
    BY <1>4, <1>5, <1>7, <1>8, <1>10 DEF Basis

\* Its ID is beyond all that the provider's file has.
LEMMA NextIDSafe ==
  ASSUME Inv, NEW x \in Exchanges, NextID(x), NEW f \in Files
  PROVE  Safe(f)'
  <1>1. /\ TypeOK /\ last \in Nat /\ \A y \in Exchanges : id[y] \in Nat
        /\ setBack' = setBack /\ orphans' = orphans /\ counted' = counted
    BY DEF Inv, TypeOK, NextID, configVars
  <1>2. /\ pc[x] = "idle"
        /\ \A y \in Exchanges : y # x => (Running(y)' <=> Running(y)) /\ id'[y] = id[y] /\ home'[y] = home[y]
        /\ rows' = rows
    BY <1>1 DEF NextID, TypeOK, saverVars, Running
  <1>3. \A t \in Tables : OwnRows(f, t)' = OwnRows(f, t)
    BY <1>2, RowsStay
  <1>4. CASE counted # f
    <2>1. home[x] = None /\ home[x] # f
      BY <1>2, SaverAssumption DEF Inv, Basis, Unnumbered
    <2>2. home'[x] # f
      BY <1>1, <1>4, <2>1 DEF NextID, TypeOK
    <2> QED
      BY <1>1, <1>2, <1>3, <1>4, <2>2, KeepsSafe
  <1>5. CASE counted = f
    <2>1. last' = last + 1 /\ id'[x] = last + 1 /\ home'[x] = f
      BY <1>1, <1>5, SaverAssumption DEF NextID, TypeOK
    <2>2. \A t \in Tables : \A r \in OwnRows(f, t) : r[1] \in Nat
      BY <1>1, Elements DEF OwnRows
    <2>3. Numbered(f) => Numbered(f)'
      BY <1>1, <1>2, <1>5, <2>1 DEF Numbered, DistinctIds
    <2>4. ASSUME NEW t \in Tables, Free(f, t) PROVE Free(f, t)'
      BY <1>1, <1>2, <1>3, <1>5, <2>1, <2>2, <2>4 DEF Free
    <2>5. OwnPairsMatch(f) => OwnPairsMatch(f)'
      BY <1>3 DEF OwnPairsMatch, Tables
    <2> QED
      BY <1>1, <2>3, <2>4, <2>5 DEF Inv, Safe, Counted, Paired, Tables
  <1> QED
    BY <1>4, <1>5

\* What is in the pipelines when an exchange has offered a message.
LEMMA RunPipelineElements ==
  ASSUME TypeOK, NEW x \in Exchanges, NEW t \in Tables, NEW from, NEW to,
         RunPipeline(x, t, from, to)
  PROVE  \A u \in Tables : \A i \in 1 .. Len(pipe'[u]) :
           \/ i \in 1 .. Len(pipe[u]) /\ pipe'[u][i] = pipe[u][i]
           \/ u = t /\ i = Len(pipe[t]) + 1 /\ pipe'[u][i].exchange = x
  <1>1. CASE saver[t] = None
    BY <1>1 DEF RunPipeline
  <1>2. CASE saver[t] # None
    <2> DEFINE e == [exchange |-> x, saver |-> saver[t]]
    <2>1. pipe[t] \in Seq(Items) /\ e \in Items /\ e.exchange = x
      BY <1>2 DEF TypeOK, Items
    <2>2. \A u \in Tables : pipe'[u] = IF u = t THEN Append(pipe[t], e) ELSE pipe[u]
      BY <1>2 DEF RunPipeline, TypeOK
    <2> HIDE DEF e
    <2>3. \A i \in 1 .. Len(Append(pipe[t], e)) :
            \/ i \in 1 .. Len(pipe[t]) /\ Append(pipe[t], e)[i] = pipe[t][i]
            \/ i = Len(pipe[t]) + 1 /\ Append(pipe[t], e)[i] = e
      BY <2>1, AppendElements
    <2>4. ASSUME NEW u \in Tables, u # t, NEW i \in 1 .. Len(pipe'[u])
          PROVE  i \in 1 .. Len(pipe[u]) /\ pipe'[u][i] = pipe[u][i]
      <3>1. pipe'[u] = pipe[u]
        BY <2>2, <2>4
      <3> QED
        BY <3>1
    <2>5. pipe'[t] = Append(pipe[t], e)
      BY <2>2
    <2> QED
      BY <2>1, <2>3, <2>4, <2>5
  <1> QED
    BY <1>1, <1>2

\* A message is offered once, after the exchange has got its last ID.
LEMMA RunPipelineBasis ==
  ASSUME Inv, NEW x \in Exchanges, NEW t \in Tables, NEW from, NEW to,
         RunPipeline(x, t, from, to),
         \/ t = "requests" /\ from = "begun" /\ to = "sent"
         \/ t = "responses" /\ from = "sent" /\ to = "answered",
         \A y \in Exchanges : y # x => id'[y] = id[y] /\ home'[y] = home[y],
         from = "begun" \/ UNCHANGED <<id, home>>
  PROVE  Basis'
  <1>1. TypeOK
    BY DEF Inv
  <1>2. /\ pc[x] = from /\ pc'[x] = to
        /\ \A y \in Exchanges : y # x => pc'[y] = pc[y]
        /\ UNCHANGED <<queue, rows, apply, fresh, newLast>>
    BY <1>1 DEF RunPipeline, TypeOK, saverVars, configVars
  <1>3. ~Offered(t, x) /\ pc[x] # "lost" /\ pc[x] # "idle" /\ pc'[x] # "idle"
    BY <1>2 DEF Offered
  <1>4. \A u \in Tables, y \in Exchanges : Offered(u, y) => Offered(u, y)'
    BY <1>2 DEF Offered
  <1>5. Offered(t, x)'
    BY <1>2 DEF Offered
  <1>6. \A u \in Tables : \A i \in 1 .. Len(pipe'[u]) :
          \/ i \in 1 .. Len(pipe[u]) /\ pipe'[u][i] = pipe[u][i]
          \/ u = t /\ i = Len(pipe[t]) + 1 /\ pipe'[u][i].exchange = x
    BY <1>1, RunPipelineElements
  <1>7. /\ \A i \in 1 .. Len(pipe[t]) : pipe[t][i].exchange # x
        /\ \A g \in Savers : \A i \in 1 .. Len(queue[g]) :
             queue[g][i].table = t => queue[g][i].exchange # x
        /\ \A f \in Files : \A r \in rows[f][t] : r[2] # x
    BY <1>3 DEF Inv, Basis, ItemsRunning, RowsOfExchanges
  <1>8. ItemsRunning'
    <2>1. ASSUME NEW u \in Tables, NEW i \in 1 .. Len(pipe'[u])
          PROVE  Offered(u, pipe[u][i].exchange)'
      BY <1>1, <1>4, <1>5, <1>6, Elements DEF Inv, Basis, ItemsRunning
    <2>2. ASSUME NEW g \in Savers, NEW i \in 1 .. Len(queue[g])
          PROVE  Offered(queue[g][i].table, queue[g][i].exchange)'
      BY <1>1, <1>2, <1>4, Elements DEF Inv, Basis, ItemsRunning
    <2> QED
      BY <1>2, <2>1, <2>2 DEF ItemsRunning
  <1>9. ItemsOnce'
    <2>1. ASSUME NEW u \in Tables, NEW i \in 1 .. Len(pipe'[u]), NEW j \in 1 .. Len(pipe'[u]),
                 pipe'[u][i].exchange = pipe'[u][j].exchange
          PROVE  i = j
      <3>1. /\ i \in 1 .. Len(pipe[u]) /\ pipe'[u][i] = pipe[u][i]
            /\ j \in 1 .. Len(pipe[u]) /\ pipe'[u][j] = pipe[u][j]
            => i = j
        BY <2>1 DEF Inv, Basis, ItemsOnce
      <3>2. /\ i \in 1 .. Len(pipe[u]) /\ pipe'[u][i] = pipe[u][i] /\ u = t
            => pipe'[u][i].exchange # x
        BY <1>7
      <3>3. /\ j \in 1 .. Len(pipe[u]) /\ pipe'[u][j] = pipe[u][j] /\ u = t
            => pipe'[u][j].exchange # x
        BY <1>7
      <3> QED
        BY <1>6, <2>1, <3>1, <3>2, <3>3
    <2>2. ASSUME NEW g \in Savers, NEW i \in 1 .. Len(queue[g]),
                 NEW u \in Tables, NEW j \in 1 .. Len(pipe'[u]), queue[g][i].table = u
          PROVE  queue[g][i].exchange # pipe'[u][j].exchange
      BY <1>6, <1>7, <2>2 DEF Inv, Basis, ItemsOnce
    <2> QED
      BY <1>2, <2>1, <2>2 DEF Inv, Basis, ItemsOnce
  <1>10. Unwritten'
    BY <1>2, <1>6, <1>7 DEF Inv, Basis, Unwritten
  <1>11. from = "begun" => \A f \in Files, u \in Tables : \A r \in rows[f][u] : r[2] # x
    BY <1>2 DEF Inv, Basis, RowsOfExchanges, Offered
  <1>12. RowsOfExchanges'
    BY <1>1, <1>2, <1>3, <1>4, <1>11, Elements DEF Inv, Basis, RowsOfExchanges
  <1>13. Unnumbered'
    BY <1>2, <1>3 DEF Inv, Basis, Unnumbered
  <1>14. \A f \in Files, u \in Tables : OwnRows(f, u)' = OwnRows(f, u)
    <2>1. CASE from = "begun"
      BY <1>2, <2>1, RowsStay
    <2>2. CASE UNCHANGED <<id, home>>
      BY <1>2, <2>2 DEF OwnRows
    <2> QED
      BY <2>1, <2>2
  <1>15. ReadBound'
    <2>1. \A y \in Exchanges : Running(y) => Running(y)'
      BY <1>2 DEF Running
    <2>2. ASSUME apply = "read"
          PROVE  /\ OwnRows(fresh[2], "requests")' = OwnRows(fresh[2], "requests")
                 /\ \A r \in OwnRows(fresh[2], "requests") : r[2] \in Exchanges
      <3>1. fresh[2] \in Files
        BY <1>1, <2>2 DEF TypeOK, Savers
      <3> QED
        BY <1>1, <1>2, <1>14, <3>1, Elements DEF OwnRows, Tables
    <2> QED
      BY <1>2, <2>1, <2>2 DEF Inv, Basis, ReadBound
  <1> QED
    BY <1>8, <1>9, <1>10, <1>12, <1>13, <1>15 DEF Basis

\* A request that was renamed is numbered nowhere.
LEMMA StepRequestOut ==
  ASSUME Inv, NEW x \in Exchanges, RequestOut(x)
  PROVE  Basis' /\ \A f \in Files : Safe(f)'
  <1>1. TypeOK
    BY DEF Inv
  <1>2. /\ RunPipeline(x, "requests", "begun", "sent")
        /\ \A y \in Exchanges : y # x => id'[y] = id[y] /\ home'[y] = home[y]
        /\ home'[x] = None \/ (home'[x] = home[x] /\ id'[x] = id[x])
    BY <1>1 DEF RequestOut, Rename, TypeOK
  <1>3. /\ pc[x] = "begun" /\ rows' = rows /\ UNCHANGED <<last, counted, setBack, orphans>>
        /\ \A y \in Exchanges : Running(y)' <=> Running(y)
    BY <1>1, <1>2 DEF RunPipeline, TypeOK, saverVars, configVars, Running
  <1>4. Basis'
    BY <1>2, RunPipelineBasis DEF Tables
  <1>5. ASSUME NEW f \in Files PROVE Safe(f)'
    <2>1. \A t \in Tables : OwnRows(f, t)' = OwnRows(f, t)
      BY <1>2, <1>3, RowsStay
    <2>2. \A y \in Exchanges : home'[y] = f => home[y] = f /\ id'[y] = id[y]
      BY <1>2, SaverAssumption
    <2> QED
      BY <1>3, <2>1, <2>2, KeepsSafe
  <1> QED
    BY <1>4, <1>5

LEMMA StepResponseIn ==
  ASSUME Inv, NEW x \in Exchanges, ResponseIn(x)
  PROVE  Basis' /\ \A f \in Files : Safe(f)'
  <1>1. Basis'
    BY RunPipelineBasis DEF ResponseIn, Tables
  <1>2. /\ UNCHANGED <<last, counted, id, home, rows, setBack, orphans>>
        /\ \A y \in Exchanges : Running(y)' <=> Running(y)
    BY DEF Inv, TypeOK, ResponseIn, RunPipeline, saverVars, configVars, Running
  <1> QED
    BY <1>1, <1>2, StillSafe

-----------------------------------------------------------------------------
(***************************************************************************)
(* The steps of the workers and of the savers.                             *)
(***************************************************************************)

\* Where an element was before the first of its sequence was taken, if it was.
Before(taken, k) == IF taken THEN k + 1 ELSE k

LEMMA BeforeInjective ==
  ASSUME NEW taken, NEW k \in Nat, NEW l \in Nat, Before(taken, k) = Before(taken, l)
  PROVE  k = l
  BY DEF Before

\* A worker takes the first item off its pipeline.
LEMMA PipeElements ==
  ASSUME TypeOK, NEW t \in Tables, Save(t)
  PROVE  /\ 1 \in 1 .. Len(pipe[t]) /\ Head(pipe[t]) = pipe[t][1]
         /\ \A u \in Tables : \A k \in 1 .. Len(pipe'[u]) :
              /\ k \in Nat /\ Before(u = t, k) \in 1 .. Len(pipe[u])
              /\ pipe'[u][k] = pipe[u][Before(u = t, k)]
              /\ u = t => Before(u = t, k) # 1
  <1>1. pipe[t] \in Seq(Items) /\ pipe[t] # <<>>
    BY DEF TypeOK, Save
  <1>2. \A u \in Tables : pipe'[u] = IF u = t THEN Tail(pipe[t]) ELSE pipe[u]
    BY DEF TypeOK, Save
  <1>3. /\ 1 \in 1 .. Len(pipe[t]) /\ Head(pipe[t]) = pipe[t][1]
        /\ \A k \in 1 .. Len(Tail(pipe[t])) :
             k \in Nat /\ k + 1 \in 2 .. Len(pipe[t]) /\ Tail(pipe[t])[k] = pipe[t][k + 1]
    BY <1>1, TailElements
  <1>4. ASSUME NEW k \in 1 .. Len(pipe'[t])
        PROVE  /\ k \in Nat /\ k + 1 \in 1 .. Len(pipe[t]) /\ k + 1 # 1
               /\ pipe'[t][k] = pipe[t][k + 1]
    <2>1. pipe'[t] = Tail(pipe[t])
      BY <1>2
    <2>2. k \in Nat /\ k + 1 \in 2 .. Len(pipe[t]) /\ pipe'[t][k] = pipe[t][k + 1]
      BY <1>3, <2>1
    <2> QED
      BY <1>1, <2>2
  <1>5. ASSUME NEW u \in Tables, u # t, NEW k \in 1 .. Len(pipe'[u])
        PROVE  k \in Nat /\ k \in 1 .. Len(pipe[u]) /\ pipe'[u][k] = pipe[u][k]
    <2>1. pipe'[u] = pipe[u]
      BY <1>2, <1>5
    <2> QED
      BY <1>5, <2>1
  <1> QED
    BY <1>3, <1>4, <1>5 DEF Before

\* The item it took is at most appended to a queue.
LEMMA QueueElements ==
  ASSUME TypeOK, NEW t \in Tables, Save(t)
  PROVE  \A g \in Savers : \A k \in 1 .. Len(queue'[g]) :
           \/ k \in 1 .. Len(queue[g]) /\ queue'[g][k] = queue[g][k]
           \/ /\ g = Head(pipe[t]).saver /\ k = Len(queue[g]) + 1
              /\ queue'[g][k].table = t
              /\ queue'[g][k].exchange = Head(pipe[t]).exchange
  <1> DEFINE i == Head(pipe[t])
             j == [table |-> t, exchange |-> i.exchange]
  <1>1. i.exchange \in Exchanges /\ i.saver \in Savers
    BY PipeElements, Elements
  <1>2. j \in Jobs
    BY <1>1 DEF Jobs
  <1>3. CASE Len(queue[i.saver]) < QueueSize
    <2>1. /\ queue[i.saver] \in Seq(Jobs)
          /\ queue' = [queue EXCEPT ![i.saver] = Append(queue[i.saver], j)]
      BY <1>1, <1>3 DEF TypeOK, Save
    <2>2. \A k \in 1 .. Len(Append(queue[i.saver], j)) :
            \/ k \in 1 .. Len(queue[i.saver]) /\ Append(queue[i.saver], j)[k] = queue[i.saver][k]
            \/ k = Len(queue[i.saver]) + 1 /\ Append(queue[i.saver], j)[k] = j
      BY <1>2, <2>1, AppendElements
    <2>3. \A g \in Savers : queue'[g] = IF g = i.saver THEN Append(queue[i.saver], j)
                                                       ELSE queue[g]
      BY <2>1 DEF TypeOK
    <2>4. j.table = t /\ j.exchange = i.exchange
      OBVIOUS
    <2> HIDE DEF j
    <2>5. ASSUME NEW g \in Savers, g # i.saver, NEW k \in 1 .. Len(queue'[g])
          PROVE  k \in 1 .. Len(queue[g]) /\ queue'[g][k] = queue[g][k]
      <3>1. queue'[g] = queue[g]
        BY <2>3, <2>5
      <3> QED
        BY <3>1
    <2>6. queue'[i.saver] = Append(queue[i.saver], j)
      BY <1>1, <2>3
    <2>7. ASSUME NEW k \in 1 .. Len(queue'[i.saver])
          PROVE  \/ k \in 1 .. Len(queue[i.saver]) /\ queue'[i.saver][k] = queue[i.saver][k]
                 \/ /\ k = Len(queue[i.saver]) + 1 /\ queue'[i.saver][k].table = t
                    /\ queue'[i.saver][k].exchange = i.exchange
      BY <2>2, <2>4, <2>6
    <2> QED
      BY <2>5, <2>7
  <1>4. CASE ~(Len(queue[i.saver]) < QueueSize)
    BY <1>4 DEF Save
  <1> QED
    BY <1>3, <1>4

LEMMA StepSave ==
  ASSUME Inv, NEW t \in Tables, Save(t)
  PROVE  Basis' /\ \A f \in Files : Safe(f)'
  <1> DEFINE x == Head(pipe[t]).exchange
  <1>1. UNCHANGED <<exchangeVars, last, counted, id, home, pc, rows, apply, fresh, newLast, setBack, orphans>>
    BY DEF Save, exchangeVars, configVars
  <1>2. TypeOK
    BY DEF Inv
  <1>3. /\ 1 \in 1 .. Len(pipe[t]) /\ x = pipe[t][1].exchange
        /\ \A u \in Tables : \A k \in 1 .. Len(pipe'[u]) :
             /\ k \in Nat /\ Before(u = t, k) \in 1 .. Len(pipe[u])
             /\ pipe'[u][k] = pipe[u][Before(u = t, k)]
             /\ u = t => Before(u = t, k) # 1
    BY <1>2, PipeElements
  <1>4. \A g \in Savers : \A k \in 1 .. Len(queue'[g]) :
          \/ k \in 1 .. Len(queue[g]) /\ queue'[g][k] = queue[g][k]
          \/ /\ g = Head(pipe[t]).saver /\ k = Len(queue[g]) + 1
             /\ queue'[g][k].table = t /\ queue'[g][k].exchange = x
    BY <1>2, QueueElements
  <1> HIDE DEF x
  <1>5. RowsOfExchanges' /\ Unnumbered' /\ ReadBound'
    BY <1>1 DEF Inv, Basis, RowsOfExchanges, Offered, Unnumbered, ReadBound, OwnRows, Running
  <1>6. ItemsRunning'
    <2>1. ASSUME NEW u \in Tables, NEW k \in 1 .. Len(pipe'[u])
          PROVE  Offered(u, pipe'[u][k].exchange)
      BY <1>3 DEF Inv, Basis, ItemsRunning, Offered
    <2>2. ASSUME NEW g \in Savers, NEW k \in 1 .. Len(queue'[g])
          PROVE  Offered(queue'[g][k].table, queue'[g][k].exchange)
      <3>1. Offered(t, x)
        BY <1>3 DEF Inv, Basis, ItemsRunning
      <3> QED
        BY <1>4, <3>1 DEF Inv, Basis, ItemsRunning
    <2> QED
      BY <1>1, <2>1, <2>2 DEF ItemsRunning, Offered
  <1>7. /\ \A k \in 1 .. Len(pipe'[t]) : pipe'[t][k].exchange # x
        /\ \A g \in Savers : \A k \in 1 .. Len(queue[g]) :
             queue[g][k].table = t => queue[g][k].exchange # x
    BY <1>3 DEF Inv, Basis, ItemsOnce
  <1>8. ItemsOnce'
    <2> USE DEF Inv, Basis
    <2>1. ASSUME NEW u \in Tables, NEW k \in 1 .. Len(pipe'[u]), NEW l \in 1 .. Len(pipe'[u]),
                 pipe'[u][k].exchange = pipe'[u][l].exchange
          PROVE  k = l
      <3> DEFINE m == Before(u = t, k)
                 n == Before(u = t, l)
      <3>1. /\ m \in 1 .. Len(pipe[u]) /\ n \in 1 .. Len(pipe[u])
            /\ pipe'[u][k] = pipe[u][m]
            /\ pipe'[u][l] = pipe[u][n]
            /\ k \in Nat /\ l \in Nat
        BY <1>3 DEF Tables
      <3>2. m = n
        BY <2>1, <3>1 DEF ItemsOnce
      <3> QED
        BY <3>1, <3>2, BeforeInjective
    <2>2. ASSUME NEW g \in Savers, NEW h \in Savers,
                 NEW k \in 1 .. Len(queue'[g]), NEW l \in 1 .. Len(queue'[h]),
                 queue'[g][k].table = queue'[h][l].table,
                 queue'[g][k].exchange = queue'[h][l].exchange
          PROVE  g = h /\ k = l
      <3>1. CASE /\ k \in 1 .. Len(queue[g]) /\ queue'[g][k] = queue[g][k]
                 /\ l \in 1 .. Len(queue[h]) /\ queue'[h][l] = queue[h][l]
        BY <2>2, <3>1 DEF ItemsOnce
      <3>2. CASE /\ k \in 1 .. Len(queue[g]) /\ queue'[g][k] = queue[g][k]
                 /\ queue'[h][l].table = t /\ queue'[h][l].exchange = x
        BY <1>7, <2>2, <3>2
      <3>3. CASE /\ l \in 1 .. Len(queue[h]) /\ queue'[h][l] = queue[h][l]
                 /\ queue'[g][k].table = t /\ queue'[g][k].exchange = x
        BY <1>7, <2>2, <3>3
      <3>4. CASE /\ g = Head(pipe[t]).saver /\ k = Len(queue[g]) + 1
                 /\ h = Head(pipe[t]).saver /\ l = Len(queue[h]) + 1
        BY <3>4
      <3> QED
        BY <1>4, <3>1, <3>2, <3>3, <3>4
    <2>3. ASSUME NEW g \in Savers, NEW k \in 1 .. Len(queue'[g]),
                 NEW u \in Tables, NEW l \in 1 .. Len(pipe'[u]), queue'[g][k].table = u
          PROVE  queue'[g][k].exchange # pipe'[u][l].exchange
      <3>1. CASE k \in 1 .. Len(queue[g]) /\ queue'[g][k] = queue[g][k]
        <4> DEFINE m == Before(u = t, l)
        <4>1. m \in 1 .. Len(pipe[u]) /\ pipe'[u][l] = pipe[u][m]
          BY <1>3 DEF Tables
        <4> QED
          BY <2>3, <3>1, <4>1 DEF ItemsOnce
      <3>2. CASE queue'[g][k].table = t /\ queue'[g][k].exchange = x
        BY <1>7, <2>3, <3>2
      <3> QED
        BY <1>4, <3>1, <3>2
    <2> QED
      BY <2>1, <2>2, <2>3 DEF ItemsOnce
  <1>9. Unwritten'
    <2>1. ASSUME NEW f \in Files, NEW u \in Tables, NEW r \in rows[f][u], NEW k \in 1 .. Len(pipe'[u])
          PROVE  pipe'[u][k].exchange # r[2]
      BY <1>3 DEF Inv, Basis, Unwritten
    <2>2. ASSUME NEW f \in Files, NEW u \in Tables, NEW r \in rows[f][u],
                 NEW g \in Savers, NEW k \in 1 .. Len(queue'[g]), queue'[g][k].table = u
          PROVE  queue'[g][k].exchange # r[2]
      <3>1. u = t => x # r[2]
        BY <1>3 DEF Inv, Basis, Unwritten
      <3> QED
        BY <1>4, <2>2, <3>1 DEF Inv, Basis, Unwritten
    <2> QED
      BY <1>1, <2>1, <2>2 DEF Unwritten
  <1>10. \A y \in Exchanges : Running(y)' <=> Running(y)
    BY <1>1 DEF Running
  <1>11. \A f \in Files : Safe(f)'
    BY <1>1, <1>10, StillSafe
  <1> QED
    BY <1>5, <1>6, <1>8, <1>9, <1>11 DEF Basis

\* What is left of a queue when its first item is gone.
LEMMA DequeueElements ==
  ASSUME TypeOK, NEW g \in Savers, queue[g] # <<>>, Dequeue(g)
  PROVE  /\ 1 \in 1 .. Len(queue[g]) /\ Head(queue[g]) = queue[g][1]
         /\ \A h \in Savers : \A k \in 1 .. Len(queue'[h]) :
              /\ k \in Nat /\ Before(h = g, k) \in 1 .. Len(queue[h])
              /\ queue'[h][k] = queue[h][Before(h = g, k)]
              /\ h = g => Before(h = g, k) # 1
  <1>1. queue[g] \in Seq(Jobs)
    BY DEF TypeOK
  <1>2. \A h \in Savers : queue'[h] = IF h = g THEN Tail(queue[g]) ELSE queue[h]
    BY DEF TypeOK, Dequeue
  <1>3. /\ 1 \in 1 .. Len(queue[g]) /\ Head(queue[g]) = queue[g][1]
        /\ \A k \in 1 .. Len(Tail(queue[g])) :
             k \in Nat /\ k + 1 \in 2 .. Len(queue[g]) /\ Tail(queue[g])[k] = queue[g][k + 1]
    BY <1>1, TailElements
  <1>4. ASSUME NEW k \in 1 .. Len(queue'[g])
        PROVE  /\ k \in Nat /\ k + 1 \in 1 .. Len(queue[g]) /\ k + 1 # 1
               /\ queue'[g][k] = queue[g][k + 1]
    <2>1. queue'[g] = Tail(queue[g])
      BY <1>2
    <2>2. k \in Nat /\ k + 1 \in 2 .. Len(queue[g]) /\ queue'[g][k] = queue[g][k + 1]
      BY <1>3, <2>1
    <2> QED
      BY <1>1, <2>2
  <1>5. ASSUME NEW h \in Savers, h # g, NEW k \in 1 .. Len(queue'[h])
        PROVE  k \in Nat /\ k \in 1 .. Len(queue[h]) /\ queue'[h][k] = queue[h][k]
    <2>1. queue'[h] = queue[h]
      BY <1>2, <1>5
    <2> QED
      BY <1>5, <2>1
  <1> QED
    BY <1>3, <1>4, <1>5 DEF Before

\* Dropping the first item of a queue leaves the others as they are; it was the only
\* one of its message.
LEMMA StepDequeue ==
  ASSUME Inv, NEW g \in Savers, queue[g] # <<>>, Dequeue(g), UNCHANGED <<pc, pipe>>
  PROVE  /\ ItemsRunning' /\ ItemsOnce'
         /\ \A h \in Savers : \A k \in 1 .. Len(queue'[h]) :
              queue'[h][k].table = Head(queue[g]).table =>
                queue'[h][k].exchange # Head(queue[g]).exchange
         /\ \A t \in Tables : \A k \in 1 .. Len(pipe[t]) :
              Head(queue[g]).table = t => pipe[t][k].exchange # Head(queue[g]).exchange
  <1>1. /\ 1 \in 1 .. Len(queue[g]) /\ Head(queue[g]) = queue[g][1]
        /\ \A h \in Savers : \A k \in 1 .. Len(queue'[h]) :
             /\ k \in Nat /\ Before(h = g, k) \in 1 .. Len(queue[h])
             /\ queue'[h][k] = queue[h][Before(h = g, k)]
             /\ h = g => Before(h = g, k) # 1
    BY DequeueElements DEF Inv
  <1>2. ItemsRunning'
    <2>1. ASSUME NEW h \in Savers, NEW k \in 1 .. Len(queue'[h])
          PROVE  Offered(queue'[h][k].table, queue'[h][k].exchange)
      BY <1>1 DEF Inv, Basis, ItemsRunning
    <2> QED
      BY <2>1 DEF Inv, Basis, ItemsRunning, Offered
  <1>3. ItemsOnce'
    <2> USE DEF Inv, Basis
    <2>1. ASSUME NEW f \in Savers, NEW h \in Savers,
                 NEW k \in 1 .. Len(queue'[f]), NEW l \in 1 .. Len(queue'[h]),
                 queue'[f][k].table = queue'[h][l].table,
                 queue'[f][k].exchange = queue'[h][l].exchange
          PROVE  f = h /\ k = l
      <3> DEFINE m == Before(f = g, k)
                 n == Before(h = g, l)
      <3>1. /\ m \in 1 .. Len(queue[f]) /\ queue'[f][k] = queue[f][m]
            /\ n \in 1 .. Len(queue[h]) /\ queue'[h][l] = queue[h][n]
            /\ k \in Nat /\ l \in Nat
        BY <1>1
      <3> HIDE DEF m, n
      <3>2. f = h /\ m = n
        BY <2>1, <3>1 DEF ItemsOnce
      <3> QED
        BY <3>1, <3>2, BeforeInjective DEF m, n
    <2>2. ASSUME NEW h \in Savers, NEW k \in 1 .. Len(queue'[h]),
                 NEW t \in Tables, NEW l \in 1 .. Len(pipe[t]), queue'[h][k].table = t
          PROVE  queue'[h][k].exchange # pipe[t][l].exchange
      <3> DEFINE m == Before(h = g, k)
      <3>1. m \in 1 .. Len(queue[h]) /\ queue'[h][k] = queue[h][m]
        BY <1>1
      <3> HIDE DEF m
      <3> QED
        BY <2>2, <3>1 DEF ItemsOnce
    <2> QED
      BY <2>1, <2>2 DEF Inv, Basis, ItemsOnce
  <1>4. ASSUME NEW h \in Savers, NEW k \in 1 .. Len(queue'[h]),
               queue'[h][k].table = Head(queue[g]).table
        PROVE  queue'[h][k].exchange # Head(queue[g]).exchange
    <2> DEFINE m == Before(h = g, k)
    <2>1. /\ m \in 1 .. Len(queue[h]) /\ queue'[h][k] = queue[h][m]
          /\ h = g => m # 1
      BY <1>1
    <2> HIDE DEF m
    <2>2. CASE h = g
      BY <1>1, <1>4, <2>1, <2>2 DEF Inv, Basis, ItemsOnce
    <2>3. CASE h # g
      BY <1>1, <1>4, <2>1, <2>3 DEF Inv, Basis, ItemsOnce
    <2> QED
      BY <2>2, <2>3
  <1>5. ASSUME NEW t \in Tables, NEW k \in 1 .. Len(pipe[t]), Head(queue[g]).table = t
        PROVE  pipe[t][k].exchange # Head(queue[g]).exchange
    BY <1>1, <1>5 DEF Inv, Basis, ItemsOnce
  <1> QED
    BY <1>2, <1>3, <1>4, <1>5

\* The rows that are there are of other messages than those that are left.
LEMMA DequeueUnwritten ==
  ASSUME Inv, NEW g \in Savers, queue[g] # <<>>, Dequeue(g), UNCHANGED pipe,
         NEW f \in Files, NEW t \in Tables, NEW r \in rows[f][t]
  PROVE  /\ \A k \in 1 .. Len(pipe'[t]) : pipe'[t][k].exchange # r[2]
         /\ \A h \in Savers : \A k \in 1 .. Len(queue'[h]) :
              queue'[h][k].table = t => queue'[h][k].exchange # r[2]
  <1>1. ASSUME NEW h \in Savers, NEW k \in 1 .. Len(queue'[h]), queue'[h][k].table = t
        PROVE  queue'[h][k].exchange # r[2]
    <2> DEFINE m == Before(h = g, k)
    <2>1. m \in 1 .. Len(queue[h]) /\ queue'[h][k] = queue[h][m]
      BY DequeueElements DEF Inv
    <2> HIDE DEF m
    <2> QED
      BY <1>1, <2>1 DEF Inv, Basis, Unwritten
  <1> QED
    BY <1>1 DEF Inv, Basis, Unwritten

LEMMA StepDrop ==
  ASSUME Inv, NEW g \in Savers, queue[g] # <<>>, Dequeue(g),
         UNCHANGED <<exchangeVars, pipe, rows, configVars>>
  PROVE  Basis' /\ \A f \in Files : Safe(f)'
  <1> USE DEF exchangeVars, configVars
  <1>1. ItemsRunning' /\ ItemsOnce'
    BY StepDequeue
  <1>2. RowsOfExchanges' /\ Unnumbered' /\ ReadBound'
    BY DEF Inv, Basis, RowsOfExchanges, Offered, Unnumbered, ReadBound, OwnRows, Running
  <1>3. Unwritten'
    BY DequeueUnwritten DEF Unwritten
  <1>4. \A x \in Exchanges : Running(x)' <=> Running(x)
    BY DEF Running
  <1>5. \A f \in Files : Safe(f)'
    BY <1>4, StillSafe
  <1> QED
    BY <1>1, <1>2, <1>3, <1>5 DEF Basis

\* The row of a message that was offered is written, and it is pending no more.
Writes(f, t, x) ==
  /\ f \in Files /\ t \in Tables /\ x \in Exchanges
  /\ Offered(t, x) /\ Running(x)
  /\ \A e \in Files, u \in Tables :
       rows'[e][u] = IF e = f /\ u = t THEN rows[e][u] \cup {<<id[x], x>>} ELSE rows[e][u]
  /\ \A k \in 1 .. Len(pipe'[t]) : pipe'[t][k].exchange # x
  /\ \A h \in Savers : \A k \in 1 .. Len(queue'[h]) :
       queue'[h][k].table = t => queue'[h][k].exchange # x

LEMMA CommitWrites ==
  ASSUME Inv, NEW g \in Savers, Commit(g)
  PROVE  \E f, t, x : Writes(f, t, x)
  <1> PICK f, t, x : f = g[2] /\ t = Head(queue[g]).table /\ x = Head(queue[g]).exchange
    OBVIOUS
  <1>1. /\ queue[g] # <<>> /\ Dequeue(g) /\ UNCHANGED <<pc, pipe>>
        /\ rows' = [rows EXCEPT ![f][t] = @ \cup {<<id[x], x>>}]
    BY DEF Commit, exchangeVars, configVars
  <1>2. TypeOK /\ f \in Files
    BY DEF Inv, Savers
  <1>3. 1 \in 1 .. Len(queue[g]) /\ Head(queue[g]) = queue[g][1]
    BY <1>1, <1>2, DequeueElements
  <1>4. t \in Tables /\ x \in Exchanges /\ Offered(t, x)
    BY <1>2, <1>3, Elements DEF Inv, Basis, ItemsRunning
  <1>5. /\ \A k \in 1 .. Len(pipe'[t]) : pipe'[t][k].exchange # x
        /\ \A h \in Savers : \A k \in 1 .. Len(queue'[h]) :
             queue'[h][k].table = t => queue'[h][k].exchange # x
    BY <1>1, <1>4, StepDequeue
  <1>7. \A e \in Files, u \in Tables :
          rows'[e][u] = IF e = f /\ u = t THEN rows[e][u] \cup {<<id[x], x>>} ELSE rows[e][u]
    BY <1>1, <1>2, <1>4 DEF TypeOK
  <1>8. Running(x)
    BY <1>4 DEF Offered, Running
  <1>9. Writes(f, t, x)
    BY <1>2, <1>4, <1>5, <1>7, <1>8 DEF Writes
  <1> QED
    BY <1>9

LEMMA CommitBasis ==
  ASSUME Inv, NEW g \in Savers, Commit(g)
  PROVE  Basis'
  <1>1. /\ TypeOK /\ queue[g] # <<>> /\ Dequeue(g)
        /\ UNCHANGED <<id, home, pc, pipe, apply, fresh, newLast>>
    BY DEF Inv, Commit, exchangeVars, configVars
  <1> PICK f, t, x : Writes(f, t, x)
    BY CommitWrites
  <1>0. /\ f \in Files /\ t \in Tables /\ x \in Exchanges
        /\ Offered(t, x) /\ Running(x)
        /\ \A e \in Files, u \in Tables :
             rows'[e][u] = IF e = f /\ u = t THEN rows[e][u] \cup {<<id[x], x>>} ELSE rows[e][u]
        /\ \A k \in 1 .. Len(pipe'[t]) : pipe'[t][k].exchange # x
        /\ \A h \in Savers : \A k \in 1 .. Len(queue'[h]) :
             queue'[h][k].table = t => queue'[h][k].exchange # x
    BY DEF Writes
  <1>2. ItemsRunning' /\ ItemsOnce'
    BY <1>1, StepDequeue
  <1>3. \A e \in Files, u \in Tables : \A r \in rows'[e][u] :
          r \in rows[e][u] \/ (u = t /\ r = <<id[x], x>>)
    BY <1>0
  <1>4. Unwritten'
    <2>1. ASSUME NEW e \in Files, NEW u \in Tables, NEW r \in rows'[e][u]
          PROVE  /\ \A k \in 1 .. Len(pipe'[u]) : pipe'[u][k].exchange # r[2]
                 /\ \A h \in Savers : \A k \in 1 .. Len(queue'[h]) :
                      queue'[h][k].table = u => queue'[h][k].exchange # r[2]
      <3>1. CASE r \in rows[e][u]
        BY <1>1, <3>1, DequeueUnwritten
      <3>2. CASE u = t /\ r = <<id[x], x>>
        BY <1>0, <3>2
      <3> QED
        BY <1>3, <3>1, <3>2
    <2> QED
      BY <2>1 DEF Unwritten
  <1>5. RowsOfExchanges'
    BY <1>0, <1>1, <1>3 DEF Inv, Basis, RowsOfExchanges, Offered
  <1>6. Unnumbered'
    BY <1>1 DEF Inv, Basis, Unnumbered
  <1>7. ReadBound'
    <2>1. ASSUME apply = "read", NEW r \in OwnRows(fresh[2], "requests")'
          PROVE  r[1] <= newLast \/ Running(r[2])
      <3>1. fresh[2] \in Files
        BY <1>1, <2>1 DEF TypeOK, Savers
      <3>2. r \in OwnRows(fresh[2], "requests") \/ r = <<id[x], x>>
        BY <1>1, <1>3, <3>1 DEF OwnRows, Tables
      <3> QED
        BY <1>0, <2>1, <3>2 DEF Inv, Basis, ReadBound
    <2> QED
      BY <1>1, <2>1 DEF ReadBound, Running
  <1> QED
    BY <1>2, <1>4, <1>5, <1>6, <1>7 DEF Basis

\* A row more, of an exchange that is under way: nobody else there has its ID.
LEMMA CommitSafe ==
  ASSUME Inv, NEW g \in Savers, Commit(g), NEW f \in Files
  PROVE  Safe(f)'
  <1>1. /\ TypeOK /\ UNCHANGED <<last, counted, id, home, pc, setBack, orphans>>
    BY DEF Inv, Commit, exchangeVars, configVars
  <1> PICK e, t, x : Writes(e, t, x)
    BY CommitWrites
  <1>0. /\ e \in Files /\ t \in Tables /\ x \in Exchanges /\ Running(x)
        /\ \A h \in Files, u \in Tables :
             rows'[h][u] = IF h = e /\ u = t THEN rows[h][u] \cup {<<id[x], x>>} ELSE rows[h][u]
    BY DEF Writes
  <1>2. \A y \in Exchanges : Running(y)' <=> Running(y)
    BY <1>1 DEF Running
  <1>3. CASE f # e \/ home[x] # f
    <2>1. \A u \in Tables : OwnRows(f, u)' = OwnRows(f, u)
      <3>1. ASSUME NEW u \in Tables
            PROVE  OwnRows(f, u)' = OwnRows(f, u)
        <4>1. rows'[f][u] = rows[f][u] \/ (rows'[f][u] = rows[f][u] \cup {<<id[x], x>>} /\ home[x] # f)
          BY <1>0, <1>3
        <4> QED
          BY <1>1, <4>1 DEF OwnRows
      <3> QED
        BY <3>1
    <2> QED
      BY <1>1, <1>2, <2>1, KeepsSafe
  <1>4. CASE f = e /\ home[x] = f
    <2>1. \A u \in Tables : \A r \in OwnRows(f, u)' :
            r \in OwnRows(f, u) \/ (u = t /\ r = <<id[x], x>>)
      BY <1>0, <1>1, <1>4 DEF OwnRows
    <2>2. Numbered(f) => Numbered(f)'
      BY <1>1, <1>2 DEF Numbered, DistinctIds
    <2>3. ASSUME Numbered(f), NEW u \in Tables, Free(f, u) PROVE Free(f, u)'
      <3>1. /\ counted = f => id[x] <= last
            /\ \A y \in Exchanges : Running(y) /\ home[y] = f /\ id[y] = id[x] => x = y
        BY <1>0, <1>4, <2>3 DEF Numbered, DistinctIds
      <3> QED
        BY <1>0, <1>1, <1>2, <2>1, <2>3, <3>1 DEF Free
    <2>4. ASSUME Free(f, "requests"), Free(f, "responses"), OwnPairsMatch(f)
          PROVE  OwnPairsMatch(f)'
      <3> SUFFICES ASSUME NEW q \in OwnRows(f, "requests")', NEW p \in OwnRows(f, "responses")',
                          q[1] = p[1]
                   PROVE  q[2] = p[2]
        BY DEF OwnPairsMatch
      <3>1. q \in OwnRows(f, "requests") /\ q[1] = id[x] => q[2] = x
        BY <1>0, <1>4, <2>4 DEF Free
      <3>2. p \in OwnRows(f, "responses") /\ p[1] = id[x] => p[2] = x
        BY <1>0, <1>4, <2>4 DEF Free
      <3>3. q \in OwnRows(f, "requests") /\ p \in OwnRows(f, "responses") => q[2] = p[2]
        BY <2>4 DEF OwnPairsMatch
      <3>4. /\ q \in OwnRows(f, "requests") \/ q = <<id[x], x>>
            /\ p \in OwnRows(f, "responses") \/ p = <<id[x], x>>
        BY <2>1 DEF Tables
      <3> QED
        BY <3>1, <3>2, <3>3, <3>4
    <2>5. f \notin orphans => f \notin setBack
      BY DEF Inv
    <2>6. Tables = {"requests", "responses"}
      BY DEF Tables
    <2> QED
      BY <1>1, <2>2, <2>3, <2>4, <2>5, <2>6 DEF Inv, Safe, Counted, Paired
  <1> QED
    BY <1>3, <1>4

-----------------------------------------------------------------------------
(***************************************************************************)
(* Configurations and restarts.                                            *)
(***************************************************************************)

\* A provider that starts with IDs beyond those in use and in the table has read them.
LEMMA StepSetIDProvider ==
  ASSUME Inv, SetIDProvider
  PROVE  Basis' /\ setBack' \subseteq orphans' /\ \A f \in Files : Safe(f)'
  <1> PICK h : h = fresh[2]
    OBVIOUS
  <1>1. /\ TypeOK /\ apply = "read" /\ newLast \in Nat
        /\ last' = newLast /\ counted' = h /\ apply' = "provided"
        /\ UNCHANGED <<id, home, pc, pipe, queue, rows>>
    BY DEF Inv, TypeOK, SetIDProvider, saverVars
  <1>2. h \in Files
    BY <1>1 DEF TypeOK, Savers
  <1>3. /\ setBack \subseteq setBack' /\ orphans \subseteq orphans' /\ setBack' \subseteq orphans'
        /\ h \notin setBack' => ~Repeats(h, newLast)
        /\ h \notin orphans' => ~Repeats(h, newLast) /\ ~Revives(h, newLast)
    BY DEF SetIDProvider, Inv
  <1>4. Basis'
    BY <1>1 DEF Inv, Basis, ItemsRunning, Offered, ItemsOnce, Unwritten, RowsOfExchanges,
                Unnumbered, ReadBound
  <1>5. /\ \A y \in Exchanges : Running(y)' <=> Running(y)
        /\ \A f \in Files, t \in Tables : OwnRows(f, t)' = OwnRows(f, t)
    BY <1>1 DEF Running, OwnRows
  <1>6. ASSUME NEW f \in Files, f # h PROVE Safe(f)'
    BY <1>1, <1>3, <1>5, <1>6, KeepsSafe
  <1>7. Safe(h)'
    <2>1. ASSUME ~Repeats(h, newLast)
          PROVE  \A y \in Exchanges : Running(y) /\ home[y] = h => id[y] <= newLast
      <3>1. \A y \in Exchanges : id[y] \in Nat
        BY <1>1 DEF TypeOK
      <3> QED
        BY <1>1, <2>1, <3>1 DEF Repeats
    <2>2. ASSUME h \notin setBack' PROVE Counted(h)'
      <3>1. Counted(h)
        BY <1>2, <1>3, <2>2 DEF Inv, Safe
      <3>2. \A y \in Exchanges : Running(y) /\ home[y] = h => id[y] <= newLast
        BY <1>3, <2>1, <2>2
      <3>3. Numbered(h)'
        BY <1>1, <1>5, <3>1, <3>2 DEF Counted, Numbered, DistinctIds
      <3>4. \A r \in OwnRows(h, "requests") : r[1] <= newLast
        <4>1. \A r \in OwnRows(h, "requests") :
                r[2] \in Exchanges /\ r[1] = id[r[2]] /\ home[r[2]] = h
          BY <1>1, <1>2, Elements DEF Inv, Basis, RowsOfExchanges, OwnRows, Tables
        <4>2. \A r \in OwnRows(h, "requests") : r[1] <= newLast \/ Running(r[2])
          BY <1>1 DEF Inv, Basis, ReadBound
        <4> QED
          BY <3>2, <4>1, <4>2
      <3>5. Free(h, "requests")'
        BY <1>1, <1>2, <1>5, <3>1, <3>4 DEF Counted, Free, Tables
      <3> QED
        BY <3>3, <3>5 DEF Counted
    <2>3. ASSUME h \notin orphans' PROVE Paired(h)'
      <3>1. Paired(h) /\ ~Revives(h, newLast)
        BY <1>2, <1>3, <2>3 DEF Inv, Safe
      <3>2. \A r \in OwnRows(h, "responses") : r[1] <= newLast
        <4>1. \A r \in OwnRows(h, "responses") :
                r[1] \in Nat /\ r \in rows[h]["responses"] /\ home[r[2]] = h
          BY <1>1, <1>2, Elements DEF OwnRows, Tables
        <4> QED
          BY <1>1, <3>1, <4>1 DEF Revives
      <3>3. Free(h, "responses")'
        BY <1>1, <1>2, <1>5, <3>1, <3>2 DEF Paired, Free, Tables
      <3>4. OwnPairsMatch(h)'
        BY <1>2, <1>5, <3>1 DEF Paired, OwnPairsMatch, Tables
      <3> QED
        BY <3>3, <3>4 DEF Paired
    <2> QED
      BY <2>2, <2>3 DEF Safe
  <1> QED
    BY <1>3, <1>4, <1>6, <1>7

\* What the provider has read is the last ID of the requests.
LEMMA ReadHolds ==
  ASSUME Inv, NEW f \in Files, NewDBIDProvider(f)
  PROVE  ReadBound'
  <1>1. IsLastId(f, newLast') /\ rows' = rows /\ home' = home
    BY DEF NewDBIDProvider, exchangeVars, saverVars
  <1>2. fresh' = NewSaver(applies', f) /\ fresh'[2] = f
    BY SaverAssumption DEF NewDBIDProvider, NewSaver
  <1>3. \A r \in OwnRows(f, "requests") : r[1] <= newLast'
    BY <1>1 DEF IsLastId, Ids, OwnRows
  <1>4. OwnRows(f, "requests")' = OwnRows(f, "requests")
    BY <1>1 DEF OwnRows
  <1> QED
    BY <1>2, <1>3, <1>4 DEF ReadBound

LEMMA StepApply ==
  ASSUME Inv, Apply
  PROVE  Basis' /\ setBack' \subseteq orphans' /\ \A f \in Files : Safe(f)'
  <1> DEFINE Goal == Basis' /\ setBack' \subseteq orphans' /\ \A f \in Files : Safe(f)'
             Most == (ItemsRunning /\ ItemsOnce /\ Unwritten /\ RowsOfExchanges /\ Unnumbered)'
  <1>1. ASSUME UNCHANGED <<id, home, pc, pipe, queue, rows>> PROVE Most
    BY <1>1 DEF Inv, Basis, ItemsRunning, Offered, ItemsOnce, Unwritten, RowsOfExchanges, Unnumbered
  <1>2. ASSUME UNCHANGED <<pc, last, counted, id, home, rows, setBack, orphans>>
        PROVE  setBack' \subseteq orphans' /\ \A f \in Files : Safe(f)'
    <2>1. \A x \in Exchanges : Running(x)' <=> Running(x)
      BY <1>2 DEF Running
    <2> QED
      BY <1>2, <2>1, StillSafe DEF Inv
  <1> HIDE DEF Most
  <1>3. ASSUME NEW f \in Files, NewDBIDProvider(f) PROVE Goal
    <2>1. UNCHANGED <<pc, last, counted, id, home, rows, setBack, orphans, pipe, queue>>
      BY <1>3 DEF NewDBIDProvider, exchangeVars, saverVars, historyVars
    <2> QED
      BY <1>1, <1>2, <1>3, <2>1, ReadHolds DEF Basis, Most
  <1>4. ASSUME NewDefaultProvider PROVE Goal
    <2>1. /\ UNCHANGED <<pc, id, home, rows, setBack, orphans, pipe, queue>>
          /\ counted' = None /\ apply' = "provided"
      BY <1>4 DEF NewDefaultProvider, saverVars, historyVars
    <2>2. ReadBound'
      BY <2>1 DEF ReadBound
    <2>3. /\ \A x \in Exchanges : Running(x)' <=> Running(x)
          /\ \A f \in Files, t \in Tables : OwnRows(f, t)' = OwnRows(f, t)
      BY <2>1 DEF Running, OwnRows
    <2>4. \A f \in Files : counted' # f
      BY <2>1, SaverAssumption
    <2>5. \A f \in Files : Safe(f)'
      BY <2>1, <2>3, <2>4, KeepsSafe
    <2> QED
      BY <1>1, <2>1, <2>2, <2>5 DEF Basis, Most, Inv
  <1>5. ASSUME UNCHANGED <<exchangeVars, pipe, saverVars, historyVars>>, apply' # "read"
        PROVE  Goal
    <2>1. UNCHANGED <<pc, last, counted, id, home, rows, setBack, orphans, pipe, queue>>
      BY <1>5 DEF exchangeVars, saverVars, historyVars
    <2>2. ReadBound'
      BY <1>5 DEF ReadBound
    <2> QED
      BY <1>1, <1>2, <2>1, <2>2 DEF Basis, Most
  <1>6. ASSUME SetRequestOutHooks \/ SetResponseInHooks \/ ApplyFails PROVE Goal
    BY <1>5, <1>6 DEF SetRequestOutHooks, SetResponseInHooks, ApplyFails, Return
  <1> QED
    BY <1>3, <1>4, <1>6, StepSetIDProvider DEF Apply

\* A restarted proxy has nobody under way, and counts on from the last row.
LEMMA StepCrash ==
  ASSUME Inv, Crash
  PROVE  Basis' /\ setBack' \subseteq orphans' /\ \A f \in Files : Safe(f)'
  <1>1. TypeOK
    BY DEF Inv
  <1> PICK h \in Files \cup {None}, m \in Nat :
        Restart(h, m) /\ (h \in Files => IsLastId(h, m))
    BY <1>1, CrashIs
  <1>2. /\ last' = m /\ counted' = h /\ UNCHANGED <<id, home, rows>>
        /\ setBack' = {} /\ apply' = "done"
        /\ \A x \in Exchanges : pc'[x] \in {"idle", "lost"} /\ (pc'[x] = "idle" <=> pc[x] = "idle")
        /\ \A t \in Tables : pipe'[t] = <<>>
        /\ \A g \in Savers : queue'[g] = <<>>
    BY DEF Restart
  <1>3. orphans \subseteq orphans' /\ (h \in Files /\ h \notin orphans' => ~Revives(h, m))
    BY DEF Restart
  <1>4. /\ \A x \in Exchanges : ~Running(x)'
        /\ \A f \in Files, t \in Tables : OwnRows(f, t)' = OwnRows(f, t)
    BY <1>2 DEF Running, OwnRows
  <1>5. ItemsRunning' /\ ItemsOnce' /\ Unwritten'
    BY <1>2 DEF ItemsRunning, ItemsOnce, Unwritten
  <1>6. RowsOfExchanges'
    BY <1>1, <1>2, Elements DEF Inv, Basis, RowsOfExchanges, Offered
  <1>7. Unnumbered' /\ ReadBound'
    BY <1>2 DEF Inv, Basis, Unnumbered, ReadBound
  <1>8. ASSUME NEW f \in Files PROVE Safe(f)'
    <2>1. \A t \in Tables : \A r \in OwnRows(f, t) :
            r[1] \in Nat /\ r \in rows[f][t] /\ home[r[2]] = f
      BY <1>1, Elements DEF OwnRows
    <2>2. f = h => \A r \in OwnRows(f, "requests") : r[1] <= m
      BY <2>1 DEF IsLastId, Ids, OwnRows, Tables
    <2>3. Counted(f)'
      BY <1>2, <1>4, <2>2 DEF Counted, Numbered, DistinctIds, Free, Tables
    <2>4. ASSUME f \notin orphans' PROVE Paired(f)'
      <3>1. Paired(f)
        BY <1>3, <2>4 DEF Inv, Safe
      <3>2. f = h => \A r \in OwnRows(f, "responses") : r[1] <= m
        BY <1>3, <2>1, <2>4 DEF Revives, Tables
      <3>3. Free(f, "responses")'
        BY <1>2, <1>4, <3>2 DEF Free, Tables
      <3>4. OwnPairsMatch(f)'
        BY <1>4, <3>1 DEF Paired, OwnPairsMatch, Tables
      <3> QED
        BY <3>3, <3>4 DEF Paired
    <2> QED
      BY <2>3, <2>4 DEF Safe
  <1> QED
    BY <1>2, <1>5, <1>6, <1>7, <1>8 DEF Basis

LEMMA StepInv == Inv /\ [Next]_vars => Inv'
  <1> SUFFICES ASSUME Inv, [Next]_vars PROVE Inv'
    OBVIOUS
  <1> DEFINE Rest == Basis' /\ setBack' \subseteq orphans' /\ \A f \in Files : Safe(f)'
  <1>1. TypeOK'
    BY StepTypeOK DEF Inv
  <1>2. ASSUME UNCHANGED <<setBack, orphans>>, Basis', \A f \in Files : Safe(f)' PROVE Rest
    BY <1>2 DEF Inv
  <1>3. ASSUME NEW x \in Exchanges, NextID(x) PROVE Rest
    BY <1>2, <1>3, NextIDBasis, NextIDSafe DEF NextID, configVars
  <1>4. ASSUME NEW x \in Exchanges, RequestOut(x) PROVE Rest
    BY <1>2, <1>4, StepRequestOut DEF RequestOut, RunPipeline, configVars
  <1>5. ASSUME NEW x \in Exchanges, ResponseIn(x) PROVE Rest
    BY <1>2, <1>5, StepResponseIn DEF ResponseIn, RunPipeline, configVars
  <1>6. ASSUME NEW t \in Tables, Save(t) PROVE Rest
    BY <1>2, <1>6, StepSave DEF Save, configVars
  <1>7. ASSUME NEW g \in Savers, Commit(g) PROVE Rest
    BY <1>2, <1>7, CommitBasis, CommitSafe DEF Commit, configVars
  <1>8. ASSUME NEW g \in Savers, queue[g] # <<>>, Dequeue(g),
               UNCHANGED <<exchangeVars, pipe, rows, configVars>>
        PROVE  Rest
    BY <1>2, <1>8, StepDrop DEF configVars
  <1>9. ASSUME UNCHANGED <<exchangeVars, pipe, queue, rows, configVars>> PROVE Rest
    <2>1. Basis'
      BY <1>9 DEF exchangeVars, configVars, Inv, Basis, ItemsRunning, Offered, ItemsOnce, Unwritten,
                  RowsOfExchanges, Unnumbered, ReadBound, OwnRows, Running
    <2>2. \A x \in Exchanges : Running(x)' <=> Running(x)
      BY <1>9 DEF exchangeVars, Running
    <2> QED
      BY <1>2, <1>9, <2>1, <2>2, StillSafe DEF exchangeVars, configVars
  <1>10. ASSUME NEW g \in Savers, Write(g) PROVE Rest
    BY <1>7, <1>8, <1>9, <1>10 DEF Write, Fail, Busy
  <1>11. ASSUME UNCHANGED vars PROVE Rest
    BY <1>9, <1>11 DEF vars, exchangeVars, configVars
  <1> HIDE DEF Rest
  <1>12. ASSUME Apply \/ Crash PROVE Rest
    BY <1>12, StepApply, StepCrash DEF Rest
  <1>13. Rest
    BY <1>3, <1>4, <1>5, <1>6, <1>10, <1>11, <1>12
    DEF Next, saveRequest, saveResponse, Quiet, Tables
  <1> QED
    BY <1>1, <1>13 DEF Inv, Rest

LEMMA Invariant == Spec => []Inv
  BY InitInv, StepInv, PTL DEF Spec

\* Two exchanges under way with IDs of one file never have one ID, however often the proxy
\* is restarted and configured, with this file, another or none, before a provider of it
\* counts on from less than an ID under way.
THEOREM IdsAreUnique == Spec => []UniqueIds
  <1>1. Inv => UniqueIds
    BY DEF Inv, Safe, Counted, Numbered, UniqueIds
  <1> QED
    BY Invariant, <1>1, PTL

\* On the same condition, and for a request that has kept the ID it was given for the file it
\* is written to: only the row of an exchange that was numbered elsewhere, or renamed, can
\* make the database refuse it.
THEOREM RequestsAreRefusedByStrays == Spec => []RefusedByStrays
  <1>1. ASSUME Inv PROVE RefusedByStrays
    <2> SUFFICES ASSUME NEW g \in Savers, NEW i \in 1 .. Len(queue[g]),
                        queue[g][i].table = "requests", home[queue[g][i].exchange] = g[2],
                        g[2] \notin setBack, NEW r \in OwnRows(g[2], "requests"),
                        r[1] = id[queue[g][i].exchange]
                 PROVE  FALSE
      BY DEF RefusedByStrays
    <2> DEFINE x == queue[g][i].exchange
    <2>1. g[2] \in Files
      BY DEF Savers
    <2>2. x \in Exchanges /\ Running(x)
      BY <1>1, Elements DEF Inv, Basis, ItemsRunning, Offered, Running
    <2>3. r \in rows[g[2]]["requests"]
      BY DEF OwnRows
    <2>4. r[2] # x
      BY <1>1, <2>1, <2>3 DEF Inv, Basis, Unwritten, Tables
    <2>5. Free(g[2], "requests")
      BY <1>1, <2>1 DEF Inv, Safe, Counted
    <2> QED
      BY <2>2, <2>4, <2>5 DEF Free
  <1> QED
    BY Invariant, <1>1, PTL

\* A response with an ID of a file is in it under the ID of the request it answers, before a
\* provider of the file counts on from less than an ID under way or in its table of responses.
THEOREM ResponsesMatchRequests == Spec => []PairsUnlessOrphans
  <1>1. Inv => PairsUnlessOrphans
    BY DEF Inv, Safe, Paired, PairsUnlessOrphans
  <1> QED
    BY Invariant, <1>1, PTL

-----------------------------------------------------------------------------
(***************************************************************************)
(* The promise of Archive.                                                 *)
(***************************************************************************)

\* Where the message of an exchange that may become a row of a file can be.
InPipe(t, x, f) == \E i \in 1 .. Len(pipe[t]) : pipe[t][i].exchange = x /\ pipe[t][i].saver[2] = f
InQueue(t, x, f) ==
  \E g \in Savers : \E i \in 1 .. Len(queue[g]) :
    g[2] = f /\ queue[g][i].table = t /\ queue[g][i].exchange = x
Holds(t, x, f) == (t \in Tables /\ InPipe(t, x, f)) \/ InQueue(t, x, f)

LEMMA PendingIs ==
  /\ \A p \in Pending : \E t, x, f : p = <<t, x, f>>
  /\ \A t, x, f : <<t, x, f>> \in Pending <=> Holds(t, x, f)
  <1> DEFINE P(t) == {<<t, pipe[t][i].exchange, pipe[t][i].saver[2]>> : i \in 1 .. Len(pipe[t])}
             Q(g) == {<<queue[g][i].table, queue[g][i].exchange, g[2]>> : i \in 1 .. Len(queue[g])}
             A == UNION {P(t) : t \in Tables}
             B == UNION {Q(g) : g \in Savers}
  <1>1. Pending = A \cup B
    BY Zenon DEF Pending
  <1>2. /\ \A t, p : p \in P(t) <=>
             \E i \in 1 .. Len(pipe[t]) : p = <<t, pipe[t][i].exchange, pipe[t][i].saver[2]>>
        /\ \A g, p : p \in Q(g) <=>
             \E i \in 1 .. Len(queue[g]) : p = <<queue[g][i].table, queue[g][i].exchange, g[2]>>
    OBVIOUS
  <1> HIDE DEF P, Q
  <1>3. \A p : p \in Pending <=> (\E t \in Tables : p \in P(t)) \/ (\E g \in Savers : p \in Q(g))
    <2>1. \A p : p \in A <=> \E t \in Tables : p \in P(t)
      OBVIOUS
    <2>2. \A p : p \in B <=> \E g \in Savers : p \in Q(g)
      OBVIOUS
    <2> HIDE DEF A, B
    <2> QED
      BY <1>1, <2>1, <2>2
  <1>4. \A p : p \in Pending <=>
          \/ \E t \in Tables : \E i \in 1 .. Len(pipe[t]) :
               p = <<t, pipe[t][i].exchange, pipe[t][i].saver[2]>>
          \/ \E g \in Savers : \E i \in 1 .. Len(queue[g]) :
               p = <<queue[g][i].table, queue[g][i].exchange, g[2]>>
    BY <1>2, <1>3
  <1> QED
    BY <1>4 DEF Holds, InPipe, InQueue

LEMMA PendingIsNext ==
  /\ \A p \in Pending' : \E t, x, f : p = <<t, x, f>>
  /\ \A t, x, f : <<t, x, f>> \in Pending' <=> Holds(t, x, f)'
  <1> DEFINE P(t) == {<<t, pipe'[t][i].exchange, pipe'[t][i].saver[2]>> : i \in 1 .. Len(pipe'[t])}
             Q(g) == {<<queue'[g][i].table, queue'[g][i].exchange, g[2]>> : i \in 1 .. Len(queue'[g])}
             A == UNION {P(t) : t \in Tables}
             B == UNION {Q(g) : g \in Savers}
  <1>1. Pending' = A \cup B
    BY Zenon DEF Pending
  <1>2. /\ \A t, p : p \in P(t) <=>
             \E i \in 1 .. Len(pipe'[t]) : p = <<t, pipe'[t][i].exchange, pipe'[t][i].saver[2]>>
        /\ \A g, p : p \in Q(g) <=>
             \E i \in 1 .. Len(queue'[g]) : p = <<queue'[g][i].table, queue'[g][i].exchange, g[2]>>
    OBVIOUS
  <1> HIDE DEF P, Q
  <1>3. \A p : p \in Pending' <=> (\E t \in Tables : p \in P(t)) \/ (\E g \in Savers : p \in Q(g))
    <2>1. \A p : p \in A <=> \E t \in Tables : p \in P(t)
      OBVIOUS
    <2>2. \A p : p \in B <=> \E g \in Savers : p \in Q(g)
      OBVIOUS
    <2> HIDE DEF A, B
    <2> QED
      BY <1>1, <2>1, <2>2
  <1>4. \A p : p \in Pending' <=>
          \/ \E t \in Tables : \E i \in 1 .. Len(pipe'[t]) :
               p = <<t, pipe'[t][i].exchange, pipe'[t][i].saver[2]>>
          \/ \E g \in Savers : \E i \in 1 .. Len(queue'[g]) :
               p = <<queue'[g][i].table, queue'[g][i].exchange, g[2]>>
    BY <1>2, <1>3
  <1> QED
    BY <1>4 DEF Holds, InPipe, InQueue

LEMMA SamePending ==
  ASSUME \A t, x, f : Holds(t, x, f)' <=> Holds(t, x, f)
  PROVE  Pending' = Pending
  BY PendingIs, PendingIsNext

LEMMA OneMorePending ==
  ASSUME NEW u, NEW y, NEW h,
         \A t, x, f : Holds(t, x, f)' <=> Holds(t, x, f) \/ (t = u /\ x = y /\ f = h)
  PROVE  Pending' = Pending \cup {<<u, y, h>>}
  BY PendingIs, PendingIsNext

LEMMA OneLessPending ==
  ASSUME NEW u, NEW y, NEW h,
         \A t, x, f : Holds(t, x, f)' <=> Holds(t, x, f) /\ ~(t = u /\ x = y /\ f = h)
  PROVE  Pending' = Pending \ {<<u, y, h>>}
  BY PendingIs, PendingIsNext

\* An element that a sequence has is still there after an append, or when the first one
\* is taken, unless it was that one.
LEMMA AppendKeeps ==
  ASSUME NEW S, NEW s \in Seq(S), NEW e \in S
  PROVE  /\ \A i \in 1 .. Len(s) : i \in 1 .. Len(Append(s, e)) /\ Append(s, e)[i] = s[i]
         /\ Len(s) + 1 \in 1 .. Len(Append(s, e)) /\ Append(s, e)[Len(s) + 1] = e
  OBVIOUS

LEMMA TailKeeps ==
  ASSUME NEW S, NEW s \in Seq(S), s # <<>>
  PROVE  \A i \in 1 .. Len(s) :
           i = 1 \/ (i - 1 \in 1 .. Len(Tail(s)) /\ Tail(s)[i - 1] = s[i])
  OBVIOUS

\* It is offered to the file of the installed hook, if there is one.
LEMMA RunPipelineOffers ==
  ASSUME TypeOK, NEW x \in Exchanges, NEW t \in Tables, NEW from, NEW to,
         RunPipeline(x, t, from, to)
  PROVE  Pending' = Pending \/ \E f \in Files : Pending' = Pending \cup {<<t, x, f>>}
  <1>1. queue' = queue
    BY DEF RunPipeline, saverVars
  <1>2. CASE saver[t] = None
    <2>1. pipe' = pipe
      BY <1>2 DEF RunPipeline
    <2>2. \A u, y, f : Holds(u, y, f)' <=> Holds(u, y, f)
      BY <1>1, <2>1 DEF Holds, InPipe, InQueue
    <2> QED
      BY <2>2, SamePending
  <1>3. CASE saver[t] # None
    <2> DEFINE s == pipe[t]
               e == [exchange |-> x, saver |-> saver[t]]
    <2>1. s \in Seq(Items) /\ e \in Items
      BY <1>3 DEF TypeOK, Items
    <2>2. \A u \in Tables : pipe'[u] = IF u = t THEN Append(s, e) ELSE pipe[u]
      BY <1>3 DEF RunPipeline, TypeOK
    <2> PICK h \in Files : h = e.saver[2]
      BY <1>3 DEF TypeOK, Savers
    <2>3. e.exchange = x /\ e.saver[2] = h
      OBVIOUS
    <2> HIDE DEF e
    <2>4. ASSUME NEW y, NEW f
          PROVE  InPipe(t, y, f)' <=> InPipe(t, y, f) \/ (y = x /\ f = h)
      <3>1. pipe'[t] = Append(s, e)
        BY <2>2
      <3>2. InPipe(t, y, f)' => InPipe(t, y, f) \/ (y = x /\ f = h)
        BY <2>1, <2>3, <3>1, AppendElements DEF InPipe
      <3>3. InPipe(t, y, f) \/ (y = x /\ f = h) => InPipe(t, y, f)'
        BY <2>1, <2>3, <3>1, AppendKeeps DEF InPipe
      <3> QED
        BY <3>2, <3>3
    <2>5. ASSUME NEW u, NEW y, NEW f
          PROVE  /\ u \in Tables /\ u # t => (InPipe(u, y, f)' <=> InPipe(u, y, f))
                 /\ InQueue(u, y, f)' <=> InQueue(u, y, f)
      BY <1>1, <2>2 DEF InPipe, InQueue
    <2>6. \A u, y, f : Holds(u, y, f)' <=> Holds(u, y, f) \/ (u = t /\ y = x /\ f = h)
      BY <2>4, <2>5 DEF Holds
    <2>7. Pending' = Pending \cup {<<t, x, h>>}
      BY <2>6, OneMorePending
    <2> QED
      BY <2>7
  <1> QED
    BY <1>2, <1>3

\* The item a worker takes leaves its pipeline for good.
LEMMA SaveTakes ==
  ASSUME Inv, NEW t \in Tables, Save(t), NEW x, x = Head(pipe[t]).exchange,
         NEW f, f = Head(pipe[t]).saver[2]
  PROVE  /\ InPipe(t, x, f) /\ \A h : ~InPipe(t, x, h)' /\ ~InQueue(t, x, h)
         /\ \A u \in Tables : \A y, h :
              ~(u = t /\ y = x /\ h = f) => (InPipe(u, y, h)' <=> InPipe(u, y, h))
  <1>1. TypeOK
    BY DEF Inv
  <1>2. /\ 1 \in 1 .. Len(pipe[t]) /\ Head(pipe[t]) = pipe[t][1]
        /\ \A u \in Tables : \A k \in 1 .. Len(pipe'[u]) :
             /\ Before(u = t, k) \in 1 .. Len(pipe[u])
             /\ pipe'[u][k] = pipe[u][Before(u = t, k)]
             /\ u = t => Before(u = t, k) # 1
    BY <1>1, PipeElements
  <1>4. x = pipe[t][1].exchange /\ f = pipe[t][1].saver[2]
    BY <1>2
  <1>5. InPipe(t, x, f)
    BY <1>2, <1>4 DEF InPipe
  <1>6. \A h : ~InPipe(t, x, h)'
    BY <1>2, <1>4 DEF Inv, Basis, ItemsOnce, InPipe
  <1>7. \A h : ~InQueue(t, x, h)
    BY <1>2, <1>4 DEF Inv, Basis, ItemsOnce, InQueue
  <1>8. ASSUME NEW u \in Tables, NEW y, NEW h, ~(u = t /\ y = x /\ h = f)
        PROVE  InPipe(u, y, h)' <=> InPipe(u, y, h)
    <2>1. InPipe(u, y, h)' => InPipe(u, y, h)
      BY <1>2 DEF InPipe
    <2>2. ASSUME InPipe(u, y, h) PROVE InPipe(u, y, h)'
      <3>1. CASE u # t
        <4>1. pipe'[u] = pipe[u]
          BY <1>1, <3>1 DEF Save, TypeOK
        <4> QED
          BY <2>2, <4>1 DEF InPipe
      <3>2. CASE u = t
        <4>1. pipe[t] \in Seq(Items) /\ pipe[t] # <<>> /\ pipe'[t] = Tail(pipe[t])
          BY <1>1 DEF Save, TypeOK
        <4>2. PICK i \in 1 .. Len(pipe[t]) : pipe[t][i].exchange = y /\ pipe[t][i].saver[2] = h
          BY <2>2, <3>2 DEF InPipe
        <4>3. i # 1
          BY <1>4, <1>8, <3>2, <4>2
        <4>4. i - 1 \in 1 .. Len(pipe'[t]) /\ pipe'[t][i - 1] = pipe[t][i]
          BY <4>1, <4>3, TailKeeps
        <4> QED
          BY <3>2, <4>2, <4>4 DEF InPipe
      <3> QED
        BY <3>1, <3>2
    <2> QED
      BY <2>1, <2>2
  <1> QED
    BY <1>5, <1>6, <1>7, <1>8

\* It is still pending if it found room in the saver's queue, and lost otherwise.
LEMMA SaveImplements ==
  ASSUME Inv, NEW t \in Tables, Save(t)
  PROVE  \/ Pending' = Pending
         \/ \E p \in Pending : Pending' = Pending \ {p}
  <1> PICK x, f : x = Head(pipe[t]).exchange /\ f = Head(pipe[t]).saver[2]
    OBVIOUS
  <1> DEFINE j == [table |-> t, exchange |-> x]
  <1>1. /\ InPipe(t, x, f) /\ \A h : ~InPipe(t, x, h)' /\ ~InQueue(t, x, h)
        /\ \A u \in Tables : \A y, h :
             ~(u = t /\ y = x /\ h = f) => (InPipe(u, y, h)' <=> InPipe(u, y, h))
    BY SaveTakes
  <1>2. TypeOK
    BY DEF Inv
  <1>3. x \in Exchanges /\ Head(pipe[t]).saver \in Savers
    BY <1>2, PipeElements, Elements
  <1> PICK g \in Savers : g = Head(pipe[t]).saver
    BY <1>3
  <1>4. g[2] = f
    OBVIOUS
  <1>5. <<t, x, f>> \in Pending
    BY <1>1, PendingIs DEF Holds
  <1>6. CASE Len(queue[g]) < QueueSize
    <2>1. queue[g] \in Seq(Jobs) /\ j \in Jobs
      BY <1>2, <1>3 DEF TypeOK, Jobs
    <2>2. \A h \in Savers : queue'[h] = IF h = g THEN Append(queue[g], j)
                                                ELSE queue[h]
      BY <1>2, <1>6 DEF TypeOK, Save
    <2>3. j.table = t /\ j.exchange = x
      OBVIOUS
    <2> HIDE DEF j
    <2>4. /\ \A k \in 1 .. Len(queue'[g]) :
               (k \in 1 .. Len(queue[g]) /\ queue'[g][k] = queue[g][k]) \/ queue'[g][k] = j
          /\ \A k \in 1 .. Len(queue[g]) :
               k \in 1 .. Len(queue'[g]) /\ queue'[g][k] = queue[g][k]
          /\ \E k \in 1 .. Len(queue'[g]) : queue'[g][k] = j
      <3>1. queue'[g] = Append(queue[g], j)
        BY <2>2
      <3>2. \A k \in 1 .. Len(Append(queue[g], j)) :
              \/ k \in 1 .. Len(queue[g]) /\ Append(queue[g], j)[k] = queue[g][k]
              \/ k = Len(queue[g]) + 1 /\ Append(queue[g], j)[k] = j
        BY <2>1, AppendElements
      <3>3. /\ \A k \in 1 .. Len(queue[g]) :
                 k \in 1 .. Len(Append(queue[g], j)) /\ Append(queue[g], j)[k] = queue[g][k]
            /\ Len(queue[g]) + 1 \in 1 .. Len(Append(queue[g], j))
            /\ Append(queue[g], j)[Len(queue[g]) + 1] = j
        BY <2>1, AppendKeeps
      <3> QED
        BY <3>1, <3>2, <3>3
    <2>5. ASSUME NEW u, NEW y, NEW h, ~(u = t /\ y = x /\ h = f)
          PROVE  InQueue(u, y, h)' <=> InQueue(u, y, h)
      <3>1. ASSUME InQueue(u, y, h)' PROVE InQueue(u, y, h)
        <4>1. PICK k \in Savers : k[2] = h /\ \E i \in 1 .. Len(queue'[k]) :
                queue'[k][i].table = u /\ queue'[k][i].exchange = y
          BY <3>1 DEF InQueue
        <4>2. CASE k = g
          <5> PICK i \in 1 .. Len(queue'[g]) : queue'[g][i].table = u /\ queue'[g][i].exchange = y
            BY <4>1, <4>2
          <5>1. queue'[g][i] # j
            BY <1>4, <2>3, <2>5, <4>1, <4>2
          <5>2. i \in 1 .. Len(queue[g]) /\ queue[g][i].table = u /\ queue[g][i].exchange = y
            BY <2>4, <5>1
          <5> QED
            BY <4>1, <4>2, <5>2 DEF InQueue
        <4>3. CASE k # g
          BY <2>2, <4>1, <4>3 DEF InQueue
        <4> QED
          BY <4>2, <4>3
      <3>2. ASSUME InQueue(u, y, h) PROVE InQueue(u, y, h)'
        <4>1. PICK k \in Savers : k[2] = h /\ \E i \in 1 .. Len(queue[k]) :
                queue[k][i].table = u /\ queue[k][i].exchange = y
          BY <3>2 DEF InQueue
        <4>2. CASE k = g
          <5> PICK i \in 1 .. Len(queue[g]) : queue[g][i].table = u /\ queue[g][i].exchange = y
            BY <4>1, <4>2
          <5>1. /\ i \in 1 .. Len(queue'[g])
                /\ queue'[g][i].table = u /\ queue'[g][i].exchange = y
            BY <2>4
          <5> QED
            BY <4>1, <4>2, <5>1 DEF InQueue
        <4>3. CASE k # g
          BY <2>2, <4>1, <4>3 DEF InQueue
        <4> QED
          BY <4>2, <4>3
      <3> QED
        BY <3>1, <3>2
    <2>6. InQueue(t, x, f)'
      BY <1>4, <2>3, <2>4 DEF InQueue
    <2>7. \A u, y, h : Holds(u, y, h)' <=> Holds(u, y, h)
      BY <1>1, <2>5, <2>6 DEF Holds
    <2> QED
      BY <2>7, SamePending
  <1>7. CASE ~(Len(queue[g]) < QueueSize)
    <2>1. queue' = queue
      BY <1>7 DEF Save
    <2>2. \A u, y, h : InQueue(u, y, h)' <=> InQueue(u, y, h)
      BY <2>1 DEF InQueue
    <2>3. \A u, y, h : Holds(u, y, h)' <=> Holds(u, y, h) /\ ~(u = t /\ y = x /\ h = f)
      BY <1>1, <2>2 DEF Holds
    <2>4. Pending' = Pending \ {<<t, x, f>>}
      BY <2>3, OneLessPending
    <2> QED
      BY <1>5, <2>4
  <1> QED
    BY <1>6, <1>7

\* The item a saver is done with was pending and is no more.
LEMMA DequeueSettles ==
  ASSUME Inv, NEW g \in Savers, queue[g] # <<>>, Dequeue(g), UNCHANGED <<pc, pipe>>
  PROVE  \E p \in Pending :
           /\ Pending' = Pending \ {p}
           /\ p = <<Head(queue[g]).table, Head(queue[g]).exchange, g[2]>>
  <1> PICK t, x, f : t = Head(queue[g]).table /\ x = Head(queue[g]).exchange /\ f = g[2]
    OBVIOUS
  <1>1. TypeOK
    BY DEF Inv
  <1>2. /\ 1 \in 1 .. Len(queue[g]) /\ Head(queue[g]) = queue[g][1]
        /\ \A h \in Savers : \A k \in 1 .. Len(queue'[h]) :
             /\ Before(h = g, k) \in 1 .. Len(queue[h])
             /\ queue'[h][k] = queue[h][Before(h = g, k)]
    BY <1>1, DequeueElements
  <1>4. /\ \A h \in Savers : \A k \in 1 .. Len(queue'[h]) :
              queue'[h][k].table = t => queue'[h][k].exchange # x
        /\ \A u \in Tables : \A k \in 1 .. Len(pipe[u]) : t = u => pipe[u][k].exchange # x
    BY StepDequeue
  <1>5. t = queue[g][1].table /\ x = queue[g][1].exchange
    BY <1>2
  <1>6. InQueue(t, x, f) /\ ~InQueue(t, x, f)' /\ (t \in Tables => ~InPipe(t, x, f))
    BY <1>2, <1>4, <1>5 DEF InQueue, InPipe
  <1>7. \A u, y, h : InPipe(u, y, h)' <=> InPipe(u, y, h)
    BY DEF InPipe
  <1>8. ASSUME NEW u, NEW y, NEW e, ~(u = t /\ y = x /\ e = f)
        PROVE  InQueue(u, y, e)' <=> InQueue(u, y, e)
    <2>1. InQueue(u, y, e)' => InQueue(u, y, e)
      BY <1>2 DEF InQueue
    <2>2. ASSUME InQueue(u, y, e) PROVE InQueue(u, y, e)'
      <3> PICK h \in Savers : h[2] = e /\ \E i \in 1 .. Len(queue[h]) :
            queue[h][i].table = u /\ queue[h][i].exchange = y
        BY <2>2 DEF InQueue
      <3>1. PICK i \in 1 .. Len(queue[h]) : queue[h][i].table = u /\ queue[h][i].exchange = y
        OBVIOUS
      <3>2. queue[g] \in Seq(Jobs)
            /\ queue'[h] = IF h = g THEN Tail(queue[g]) ELSE queue[h]
        BY <1>1 DEF Dequeue, TypeOK
      <3>3. CASE h = g
        <4>1. i # 1
          BY <1>5, <1>8, <3>1, <3>3
        <4>2. i - 1 \in 1 .. Len(queue'[h]) /\ queue'[h][i - 1] = queue[h][i]
          BY <3>1, <3>2, <3>3, <4>1, TailKeeps
        <4> QED
          BY <3>1, <4>2 DEF InQueue
      <3>4. CASE h # g
        BY <3>1, <3>2, <3>4 DEF InQueue
      <3> QED
        BY <3>3, <3>4
    <2> QED
      BY <2>1, <2>2
  <1>9. \A u, y, e : Holds(u, y, e)' <=> Holds(u, y, e) /\ ~(u = t /\ y = x /\ e = f)
    BY <1>6, <1>7, <1>8 DEF Holds
  <1>10. Pending' = Pending \ {<<t, x, f>>}
    BY <1>9, OneLessPending
  <1>11. <<t, x, f>> \in Pending
    BY <1>6, PendingIs DEF Holds
  <1> QED
    BY <1>10, <1>11

LEMMA InitImplements == Init => Promise!Init
  <1> SUFFICES ASSUME Init PROVE Promise!Init
    OBVIOUS
  <1>1. Pending = {}
    BY DEF Init, Pending, Savers
  <1>2. Files \ setBack = Files /\ Files \ orphans = Files
    BY DEF Init
  <1> QED
    BY <1>1, <1>2 DEF Init, Promise!Init, Tables, Promise!Tables

\* The next ID is free, as far as it is promised.
LEMMA NextIsFree ==
  ASSUME Inv, counted \in Files
  PROVE  Promise!IsFree(last + 1, counted)
  <1>1. last \in Nat /\ \A x \in Exchanges : id[x] \in Nat
    BY DEF Inv, TypeOK
  <1>2. \A t \in Tables : \A r \in rows[counted][t] : r[1] \in Nat
    BY Elements DEF Inv
  <1>3. ASSUME NEW t \in Tables, Free(counted, t)
        PROVE  Promise!IsUnused(last + 1, counted, t)
    BY <1>1, <1>2, <1>3 DEF Free, OwnRows, Promise!IsUnused
  <1>4. ASSUME counted \notin setBack
        PROVE  /\ Promise!IsUnused(last + 1, counted, "requests")
               /\ \A x \in Exchanges :
                    pc[x] \in {"begun", "sent", "answered"} /\ home[x] = counted => id[x] # last + 1
    <2>1. Counted(counted)
      BY <1>4 DEF Inv, Safe
    <2> QED
      BY <1>1, <1>3, <2>1 DEF Counted, Numbered, Running, Tables
  <1>5. ASSUME counted \notin orphans PROVE Promise!IsUnused(last + 1, counted, "responses")
    <2>1. Paired(counted)
      BY <1>5 DEF Inv, Safe
    <2> QED
      BY <1>3, <2>1 DEF Paired, Tables
  <1> QED
    BY <1>4, <1>5 DEF Promise!IsFree

LEMMA SetIDProviderImplements ==
  ASSUME Inv, SetIDProvider
  PROVE  \E f \in Files : Promise!SetBack(f) \/ UNCHANGED Promise!vars
  <1> PICK h : h = fresh[2]
    OBVIOUS
  <1>1. h \in Files
    BY DEF Inv, TypeOK, SetIDProvider, Savers
  <1>2. UNCHANGED <<id, home, pc, pipe, queue, rows>>
    BY DEF SetIDProvider, saverVars
  <1>3. Pending' = Pending
    BY <1>2 DEF Pending
  <1>4. CASE h \in orphans'
    <2>1. \/ (Files \ setBack)' = Files \ setBack
          \/ (Files \ setBack)' = (Files \ setBack) \ {h}
      BY DEF SetIDProvider
    <2>2. (Files \ orphans)' = (Files \ orphans) \ {h}
      BY <1>4 DEF SetIDProvider
    <2>3. Promise!SetBack(h)
      BY <1>2, <1>3, <2>1, <2>2 DEF Promise!SetBack
    <2> QED
      BY <1>1, <2>3
  <1>5. CASE h \notin orphans'
    <2>1. setBack' = setBack /\ orphans' = orphans
      BY <1>5 DEF SetIDProvider
    <2> QED
      BY <1>1, <1>2, <1>3, <2>1 DEF Promise!vars
  <1> QED
    BY <1>4, <1>5

LEMMA RestartImplements ==
  ASSUME Inv, Crash
  PROVE  Promise!Restart
  <1> PICK h \in Files \cup {None}, m \in Nat : Restart(h, m)
    BY CrashIs DEF Inv
  <1>1. /\ Pending' = {}
        /\ pc' = [x \in Exchanges |-> IF pc[x] = "idle" THEN "idle" ELSE "lost"]
        /\ UNCHANGED <<id, home, rows>>
    BY DEF Restart, Pending
  <1>2. (Files \ setBack)' = Files
    BY DEF Restart
  <1>3. \/ (Files \ orphans)' = Files \ orphans
        \/ \E f \in Files : (Files \ orphans)' = (Files \ orphans) \ {f}
    <2>1. CASE h \in Files /\ Revives(h, m)
      <3>1. orphans' = orphans \cup {h}
        BY <2>1 DEF Restart
      <3>2. (Files \ orphans)' = (Files \ orphans) \ {h}
        BY <3>1
      <3> QED
        BY <2>1, <3>2
    <2>2. CASE ~(h \in Files /\ Revives(h, m))
      <3>1. orphans' = orphans
        BY <2>2 DEF Restart
      <3> QED
        BY <3>1
    <2> QED
      BY <2>1, <2>2
  <1> QED
    BY <1>1, <1>2, <1>3 DEF Promise!Restart

LEMMA StepImplements == Inv /\ [Next]_vars => [Promise!Next]_(Promise!vars)
  <1> SUFFICES ASSUME Inv, [Next]_vars PROVE [Promise!Next]_(Promise!vars)
    OBVIOUS
  <1> DEFINE Goal == [Promise!Next]_(Promise!vars)
  <1>1. TypeOK
    BY DEF Inv
  <1>2. ASSUME UNCHANGED <<id, home, pc, pipe, queue, rows, setBack, orphans>> PROVE Goal
    <2>1. Pending' = Pending
      BY <1>2 DEF Pending
    <2> QED
      BY <1>2, <2>1 DEF Promise!vars
  <1>3. ASSUME NEW x \in Exchanges, NextID(x) PROVE Promise!Begin(x)
    <2>1. UNCHANGED <<pipe, queue, rows, setBack, orphans>>
      BY <1>3 DEF NextID, saverVars, configVars
    <2>2. Pending' = Pending
      BY <2>1 DEF Pending
    <2>3. pc[x] = "idle" /\ pc' = [pc EXCEPT ![x] = "begun"]
      BY <1>3 DEF NextID
    <2>4. CASE counted = None
      BY <1>3, <2>1, <2>2, <2>3, <2>4 DEF NextID, Promise!Begin
    <2>5. CASE counted # None
      <3>1. /\ counted \in Files
            /\ id' = [id EXCEPT ![x] = last + 1] /\ home' = [home EXCEPT ![x] = counted]
        BY <1>1, <1>3, <2>5 DEF NextID, TypeOK
      <3>2. id'[x] = last + 1 /\ last + 1 \in Nat \ {0}
        BY <1>1, <3>1 DEF TypeOK
      <3>3. Promise!IsFree(id'[x], counted)
        BY <3>1, <3>2, NextIsFree
      <3> QED
        BY <2>1, <2>2, <2>3, <3>1, <3>2, <3>3 DEF Promise!Begin
    <2> QED
      BY <2>4, <2>5
  <1>4. ASSUME NEW x \in Exchanges, NEW t \in Tables, NEW from, NEW to, RunPipeline(x, t, from, to)
        PROVE  Promise!Offer(x, t, from, to)
    <2>1. Pending' = Pending \/ \E f \in Files : Pending' = Pending \cup {<<t, x, f>>}
      BY <1>1, <1>4, RunPipelineOffers
    <2> QED
      BY <1>4, <2>1 DEF RunPipeline, saverVars, configVars, Promise!Offer
  <1>5. ASSUME NEW x \in Exchanges, RequestOut(x) PROVE Promise!OfferRequest(x)
    <2>1. Promise!Offer(x, "requests", "begun", "sent")
      BY <1>4, <1>5 DEF RequestOut, Tables
    <2>2. ASSUME Rename(x) PROVE id' = [id EXCEPT ![x] = id'[x]] /\ home' = [home EXCEPT ![x] = None]
      BY <1>1, <2>2 DEF Rename, TypeOK
    <2> QED
      BY <1>5, <2>1, <2>2 DEF RequestOut, Promise!OfferRequest
  <1>6. ASSUME NEW x \in Exchanges, ResponseIn(x) PROVE Promise!OfferResponse(x)
    BY <1>4, <1>6 DEF ResponseIn, Tables, Promise!OfferResponse
  <1>7. ASSUME NEW t \in Tables, Save(t) PROVE Goal
    <2>1. UNCHANGED <<id, home, pc, rows, setBack, orphans>>
      BY <1>7 DEF Save, exchangeVars, configVars
    <2>2. CASE Pending' = Pending
      BY <2>1, <2>2 DEF Promise!vars
    <2>3. ASSUME NEW p \in Pending, Pending' = Pending \ {p} PROVE Promise!Lose(p)
      BY <2>1, <2>3 DEF Promise!Lose, Promise!Settle
    <2> QED
      BY <1>7, <2>2, <2>3, SaveImplements DEF Promise!Next
  <1>8. ASSUME NEW g \in Savers, Commit(g) PROVE \E p \in Pending : Promise!Write(p)
    <2> PICK t, x, f : t = Head(queue[g]).table /\ x = Head(queue[g]).exchange /\ f = g[2]
      OBVIOUS
    <2>1. /\ queue[g] # <<>> /\ Dequeue(g)
          /\ UNCHANGED <<id, home, pc, pipe, setBack, orphans>>
          /\ id[x] # 0 /\ id[x] \notin Ids(f, t)
          /\ rows' = [rows EXCEPT ![f][t] = @ \cup {<<id[x], x>>}]
      BY <1>8 DEF Commit, exchangeVars, configVars
    <2> PICK p \in Pending : Pending' = Pending \ {p} /\ p = <<t, x, f>>
      BY <2>1, DequeueSettles
    <2>2. p[1] = t /\ p[2] = x /\ p[3] = f
      OBVIOUS
    <2>3. Promise!Settle(p)
      BY <2>1 DEF Promise!Settle
    <2>4. \A r \in rows[f][t] : r[1] # id[x]
      BY <2>1 DEF Ids
    <2>5. Promise!Write(p)
      BY <2>1, <2>2, <2>3, <2>4 DEF Promise!Write
    <2> QED
      BY <2>5
  <1>9. ASSUME NEW g \in Savers, queue[g] # <<>>, Dequeue(g),
               UNCHANGED <<exchangeVars, pipe, rows, configVars>>
        PROVE  \E p \in Pending : Promise!Lose(p)
    <2>1. UNCHANGED <<id, home, pc, pipe, rows, setBack, orphans>>
      BY <1>9 DEF exchangeVars, configVars
    <2> PICK p \in Pending : Pending' = Pending \ {p}
      BY <1>9, <2>1, DequeueSettles
    <2>2. Promise!Lose(p)
      BY <2>1 DEF Promise!Lose, Promise!Settle
    <2> QED
      BY <2>2
  <1>10. ASSUME NEW g \in Savers, Write(g) PROVE Goal
    <2>1. CASE Commit(g)
      BY <1>8, <2>1 DEF Promise!Next
    <2>2. CASE Fail(g)
      BY <1>9, <2>2 DEF Fail, Promise!Next
    <2>3. CASE Busy(g) /\ UNCHANGED queue
      BY <1>2, <2>3 DEF Busy, exchangeVars, configVars
    <2>4. CASE Busy(g) /\ Dequeue(g)
      BY <1>9, <2>4 DEF Busy, Promise!Next
    <2> QED
      BY <1>10, <2>1, <2>2, <2>3, <2>4 DEF Write, Busy
  <1>11. ASSUME Apply PROVE Goal
    <2>1. CASE SetIDProvider
      BY <2>1, SetIDProviderImplements DEF Promise!Next
    <2>2. ASSUME \/ \E f \in Files : NewDBIDProvider(f)
                 \/ NewDefaultProvider \/ SetRequestOutHooks \/ SetResponseInHooks \/ ApplyFails
          PROVE  UNCHANGED <<id, home, pc, pipe, queue, rows, setBack, orphans>>
      BY <2>2 DEF NewDBIDProvider, NewDefaultProvider, SetRequestOutHooks, SetResponseInHooks,
                  ApplyFails, Return, exchangeVars, saverVars, historyVars
    <2> QED
      BY <1>2, <1>11, <2>1, <2>2 DEF Apply
  <1>12. ASSUME UNCHANGED vars PROVE Goal
    BY <1>2, <1>12 DEF vars
  <1> QED
    BY <1>3, <1>5, <1>6, <1>7, <1>10, <1>11, <1>12, RestartImplements
    DEF Next, saveRequest, saveResponse, Quiet, Tables, Promise!Next, Promise!Tables

\* Pipelines, savers, retries, several files and configurations, plugins' IDs and restarts
\* together keep the promise of Archive: a message becomes at most one row, in the file it was
\* offered to and under the ID of its exchange, or is lost, and IDs are free in their file
\* unless a provider of it counts on from less than before.
THEOREM ArchiveIsPromised == Spec => Implements
  <1>1. Init => Promise!Init
    BY InitImplements
  <1>2. Inv /\ [Next]_vars => [Promise!Next]_(Promise!vars)
    BY StepImplements
  <1> QED
    BY Invariant, <1>1, <1>2, PTL DEF Spec, Implements, Promise!Spec
=============================================================================
