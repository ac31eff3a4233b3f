-------------------------------- MODULE Saver --------------------------------
(***************************************************************************)
(* The database of internal/hooks/db.go: where IDs come from               *)
(* (DBIDProvider), and how requests and responses come to be rows under    *)
(* their IDs (NewDBSaveHooks, saveRequestToDB, saveResponseToDB, retry).   *)
(*                                                                         *)
(* An exchange takes an ID, hands its request to the RequestOut pipeline   *)
(* and, when it is answered, its response to the ResponseIn pipeline.  The *)
(* workers of the two pipelines put them in the bounded queue of a SAVER,  *)
(* whose goroutine writes them one by one.  Each Config.Apply with a       *)
(* database, which need not be the one in use, starts a new ID provider    *)
(* and a new saver; the old saver goes on with what it has.  A crash loses *)
(* everything but the rows.                                                *)
(*                                                                         *)
(* Only the tables requests and responses are represented, and of their    *)
(* rows only the ID and the exchange: headers and cookies are written in   *)
(* the same transaction.                                                   *)
(***************************************************************************)
EXTENDS Naturals, Sequences

CONSTANTS
  Exchanges,   \* intercepted exchanges
  Files,       \* database files that may be configured
  FirstFile,   \* the one the proxy is first started with, or None
  PluginIds,   \* numbers that plugins may give requests as IDs; 0: what is no number
  None,        \* no file, no saver
  QueueSize,   \* capacity of a saver's queue (1000)
  MaxRetries,  \* attempts at writing one row (5)
  MaxApplies,  \* bound: how often a configuration is applied to a running proxy
  MaxCrashes   \* bound: how often the proxy is restarted

ASSUME SaverAssumption ==
  /\ None \notin Files
  /\ FirstFile \in Files \cup {None}
  /\ PluginIds \subseteq Nat
  /\ QueueSize \in Nat \ {0}
  /\ MaxRetries \in Nat \ {0}
  /\ MaxApplies \in Nat
  /\ MaxCrashes \in Nat

\* A saver is known by the number of its configuration and the file it writes to.
Savers == (0 .. MaxApplies) \X Files
Tables == {"requests", "responses"}

VARIABLES
  last,      \* lastUsedID of the provider in use
  counted,   \* the file it counts the IDs of, or None: it makes UUIDs
  id,        \* the ID each exchange has, 0 if it has none or it is no number
  home,      \* the file whose provider gave it that ID, or None
  pc,        \* how far each exchange has come
  pipe,      \* pipe["requests"], pipe["responses"]: the items in the pipelines,
             \* each with the saver its hook belongs to
  queue,     \* the queue of each saver
  attempts,  \* how often the saver has tried its first item
  rows,      \* rows[f]["requests"], rows[f]["responses"]: pairs of an ID and an exchange
  saver,     \* the saver whose hook is installed, per pipeline
  apply,     \* where Config.Apply is
  fresh,     \* the saver of the configuration it applies
  newLast,   \* lastUsedID of the provider it is about to install
  applies,   \* how often a configuration was applied since (bounded by MaxApplies)
  crashes,   \* how often the proxy was restarted (bounded by MaxCrashes)
  \* Two history variables, sets of files:
  setBack,   \* since the process was started, a provider of the file has been installed
             \* that counts on from less than the ID of an exchange under way
  orphans    \* so it ever was, or from less than an ID in the table of responses

vars == <<last, counted, id, home, pc, pipe, queue, attempts, rows, saver, apply, fresh,
          newLast, applies, crashes, setBack, orphans>>
exchangeVars == <<last, counted, id, home, pc>>
saverVars == <<queue, attempts, rows>>
historyVars == <<setBack, orphans>>
configVars == <<saver, apply, fresh, newLast, applies, crashes, setBack, orphans>>

Ids(f, t) == {r[1] : r \in rows[f][t]}

\* SELECT request_id FROM requests ORDER BY request_id DESC LIMIT 1, or 0.
IsLastId(f, m) ==
  /\ m \in Ids(f, "requests") \/ (m = 0 /\ rows[f]["requests"] = {})
  /\ \A i \in Ids(f, "requests") : i <= m

Running(x) == pc[x] \in {"begun", "sent", "answered"}

\* A provider of f that counts on from m will give IDs again that exchanges under way
\* have, or that responses are filed under.
Repeats(f, m) == \E x \in Exchanges : Running(x) /\ home[x] = f /\ id[x] > m
Revives(f, m) == \E r \in rows[f]["responses"] : home[r[2]] = f /\ r[1] > m

Jobs == [table : Tables, exchange : Exchanges]
Items == [exchange : Exchanges, saver : Savers]

TypeOK ==
  /\ last \in Nat
  /\ counted \in Files \cup {None}
  /\ id \in [Exchanges -> Nat]
  /\ home \in [Exchanges -> Files \cup {None}]
  /\ pc \in [Exchanges -> {"idle", "begun", "sent", "answered", "lost"}]
  /\ pipe \in [Tables -> Seq(Items)]
  /\ queue \in [Savers -> Seq(Jobs)] /\ \A g \in Savers : Len(queue[g]) <= QueueSize
  /\ attempts \in [Savers -> 0 .. MaxRetries]
  /\ rows \in [Files -> [Tables -> SUBSET (Nat \X Exchanges)]]
  /\ saver \in [Tables -> Savers \cup {None}]
  /\ apply \in {"done", "read", "provided", "halfway"}
  /\ fresh \in Savers \cup {None} /\ (apply = "read" => fresh \in Savers)
  /\ newLast \in Nat
  /\ applies \in 0 .. MaxApplies /\ crashes \in 0 .. MaxCrashes
  /\ setBack \in SUBSET Files /\ orphans \in SUBSET Files

\* The saver that the n-th configuration starts: none, if it has no file.
NewSaver(n, f) == IF f = None THEN None ELSE <<n, f>>

\* The proxy was started with an empty database, or without one.
Init ==
  /\ last = 0
  /\ counted = FirstFile
  /\ id = [x \in Exchanges |-> 0]
  /\ home = [x \in Exchanges |-> None]
  /\ pc = [x \in Exchanges |-> "idle"]
  /\ pipe = [t \in Tables |-> <<>>]
  /\ queue = [g \in Savers |-> <<>>]
  /\ attempts = [g \in Savers |-> 0]
  /\ rows = [f \in Files |-> [t \in Tables |-> {}]]
  /\ saver = [t \in Tables |-> NewSaver(0, FirstFile)]
  /\ apply = "done"
  /\ fresh = None
  /\ newLast = 0
  /\ applies = 0
  /\ crashes = 0
  /\ setBack = {}
  /\ orphans = {}

-----------------------------------------------------------------------------
(***************************************************************************)
(* An exchange.                                                            *)
(***************************************************************************)

\* Mutant: lastUsedID is read and written back without the mutex.
NextID_Unlocked(x) ==
  /\ pc[x] = "idle"
  /\ IF counted = None THEN UNCHANGED <<last, id, home>>
     ELSE /\ last' \in {last, last + 1}
          /\ id' = [id EXCEPT ![x] = last + 1]
          /\ home' = [home EXCEPT ![x] = counted]
  /\ pc' = [pc EXCEPT ![x] = "begun"]
  /\ UNCHANGED <<counted, pipe, saverVars, configVars>>

\* The next number, or a UUID.
NextID(x) ==
  /\ pc[x] = "idle"
  /\ IF counted = None THEN UNCHANGED <<last, id, home>>
     ELSE /\ last' = last + 1
          /\ id' = [id EXCEPT ![x] = last + 1]
          /\ home' = [home EXCEPT ![x] = counted]
  /\ pc' = [pc EXCEPT ![x] = "begun"]
  /\ UNCHANGED <<counted, pipe, saverVars, configVars>>

\* RunPipeline reads the installed hooks and queues the item with them.
RunPipeline(x, t, from, to) ==
  /\ pc[x] = from
  /\ pc' = [pc EXCEPT ![x] = to]
  /\ IF saver[t] = None THEN UNCHANGED pipe
     ELSE pipe' = [pipe EXCEPT ![t] = Append(@, [exchange |-> x, saver |-> saver[t]])]
  /\ UNCHANGED <<last, counted, saverVars, configVars>>

\* A plugin of RequestMod has said another ID, or has answered with the request of
\* another exchange (FromProtoRequest).
Rename(x) ==
  /\ \E i \in PluginIds \cup {id[y] : y \in {z \in Exchanges : Running(z)}} :
       i # id[x] /\ id' = [id EXCEPT ![x] = i]
  /\ home' = [home EXCEPT ![x] = None]

RequestOut(x) ==
  /\ RunPipeline(x, "requests", "begun", "sent")
  /\ Rename(x) \/ UNCHANGED <<id, home>>

\* The response has the ID of the request that was sent.
ResponseIn(x) == RunPipeline(x, "responses", "sent", "answered") /\ UNCHANGED <<id, home>>

-----------------------------------------------------------------------------
(***************************************************************************)
(* The hooks and the savers.                                               *)
(***************************************************************************)

\* Mutant: the hook queues the item whatever the queue's length.
Save_Unbounded(t) ==
  /\ pipe[t] # <<>>
  /\ LET i == Head(pipe[t])
     IN queue' = [queue EXCEPT ![i.saver] =
                    Append(@, [table |-> t, exchange |-> i.exchange])]
  /\ pipe' = [pipe EXCEPT ![t] = Tail(@)]
  /\ UNCHANGED <<exchangeVars, attempts, rows, configVars>>

\* saveRequest, saveResponse: the worker of the pipeline runs the hook of its first
\* item, which puts it in the saver's queue or, if that is full, drops it.
Save(t) ==
  /\ pipe[t] # <<>>
  /\ LET i == Head(pipe[t])
     IN queue' = IF Len(queue[i.saver]) < QueueSize
                 THEN [queue EXCEPT ![i.saver] =
                         Append(@, [table |-> t, exchange |-> i.exchange])]
                 ELSE queue
  /\ pipe' = [pipe EXCEPT ![t] = Tail(@)]
  /\ UNCHANGED <<exchangeVars, attempts, rows, configVars>>

saveRequest == Save("requests")
saveResponse == Save("responses")

Dequeue(g) ==
  /\ queue' = [queue EXCEPT ![g] = Tail(@)]
  /\ attempts' = [attempts EXCEPT ![g] = 0]

\* Mutant: the row is written, and its item stays in the queue to be written again.
Commit_Again(g) ==
  /\ queue[g] # <<>>
  /\ LET j == Head(queue[g])
     IN /\ id[j.exchange] # 0 /\ id[j.exchange] \notin Ids(g[2], j.table)
        /\ rows' = [rows EXCEPT ![g[2]][j.table] = @ \cup {<<id[j.exchange], j.exchange>>}]
  /\ UNCHANGED <<exchangeVars, pipe, queue, attempts, configVars>>

\* The transaction commits: the row is there.
Commit(g) ==
  /\ queue[g] # <<>>
  /\ LET j == Head(queue[g])
     IN /\ id[j.exchange] # 0 /\ id[j.exchange] \notin Ids(g[2], j.table)
        /\ rows' = [rows EXCEPT ![g[2]][j.table] = @ \cup {<<id[j.exchange], j.exchange>>}]
  /\ Dequeue(g)
  /\ UNCHANGED <<exchangeVars, pipe, configVars>>

\* The write fails, because the ID is no number, the primary key exists or for any other
\* reason than a busy database: no retry, the item is lost.
Fail(g) ==
  /\ queue[g] # <<>>
  /\ Dequeue(g)
  /\ UNCHANGED <<exchangeVars, pipe, rows, configVars>>

\* Mutant: retry starts over after its last attempt.
Busy_Forever(g) ==
  /\ queue[g] # <<>>
  /\ attempts' = [attempts EXCEPT ![g] = (@ + 1) % MaxRetries]
  /\ UNCHANGED <<exchangeVars, pipe, queue, rows, configVars>>

\* Somebody else has the database: retry sleeps and tries again, and gives the item
\* up after the last attempt.
Busy(g) ==
  /\ queue[g] # <<>>
  /\ IF attempts[g] + 1 < MaxRetries
     THEN attempts' = [attempts EXCEPT ![g] = @ + 1] /\ UNCHANGED queue
     ELSE Dequeue(g)
  /\ UNCHANGED <<exchangeVars, pipe, rows, configVars>>

Write(g) == Commit(g) \/ Fail(g) \/ Busy(g)

-----------------------------------------------------------------------------
(***************************************************************************)
(* Config.Apply, as far as it concerns the database, and restarts.         *)
(***************************************************************************)

Begin ==
  /\ apply = "done"
  /\ applies < MaxApplies
  /\ applies' = applies + 1

\* NewDBIDProvider looks up the last ID in the table of requests of the file that is
\* configured, which need not be the one in use.
NewDBIDProvider(f) ==
  /\ Begin
  /\ fresh' = NewSaver(applies', f)
  /\ \E m \in Ids(f, "requests") \cup {0} : IsLastId(f, m) /\ newLast' = m
  /\ apply' = "read"
  /\ UNCHANGED <<exchangeVars, pipe, saverVars, saver, crashes, historyVars>>

\* SetIDProvider, and NewDBSaveHooks: a new saver starts, no old one ends.
SetIDProvider ==
  /\ apply = "read"
  /\ last' = newLast
  /\ counted' = fresh[2]
  /\ apply' = "provided"
  /\ setBack' = setBack \cup {f \in {fresh[2]} : Repeats(f, newLast)}
  /\ orphans' = orphans \cup {f \in {fresh[2]} : Repeats(f, newLast) \/ Revives(f, newLast)}
  /\ UNCHANGED <<id, home, pc, pipe, saverVars, saver, fresh, newLast, applies, crashes>>

\* Without a database, IDs are UUIDs.
NewDefaultProvider ==
  /\ Begin
  /\ last' = 0
  /\ counted' = None
  /\ apply' = "provided"
  /\ UNCHANGED <<id, home, pc, pipe, saverVars, saver, fresh, newLast, crashes, historyVars>>

SetRequestOutHooks ==
  /\ apply = "provided"
  /\ saver' = [saver EXCEPT !["requests"] = fresh]
  /\ apply' = "halfway"
  /\ UNCHANGED <<exchangeVars, pipe, saverVars, fresh, newLast, applies, crashes, historyVars>>

Return ==
  /\ apply' = "done"
  /\ fresh' = None
  /\ newLast' = 0
  /\ UNCHANGED <<exchangeVars, pipe, saverVars, applies, crashes, historyVars>>

SetResponseInHooks ==
  /\ apply = "halfway"
  /\ saver' = [saver EXCEPT !["responses"] = fresh]
  /\ Return

\* The expression of the configuration does not compile: the provider has been
\* replaced, the hooks stay.
ApplyFails ==
  /\ apply = "provided"
  /\ Return
  /\ UNCHANGED saver

Apply ==
  \/ (\E f \in Files : NewDBIDProvider(f)) \/ SetIDProvider \/ NewDefaultProvider
  \/ SetRequestOutHooks \/ SetResponseInHooks \/ ApplyFails

\* What a crash leaves, when the proxy has been started again and has applied its
\* configuration, before it listens: a provider of f that counts on from m.
Restart(f, m) ==
  /\ crashes < MaxCrashes
  /\ crashes' = crashes + 1
  /\ last' = m
  /\ counted' = f
  /\ pc' = [x \in Exchanges |-> IF pc[x] = "idle" THEN "idle" ELSE "lost"]
  /\ pipe' = [t \in Tables |-> <<>>]
  /\ queue' = [g \in Savers |-> <<>>]
  /\ attempts' = [g \in Savers |-> 0]
  /\ saver' = [t \in Tables |-> NewSaver(applies, f)]
  /\ apply' = "done"
  /\ fresh' = None
  /\ newLast' = 0
  /\ setBack' = {}
  /\ orphans' = orphans \cup {g \in Files \cap {f} : Revives(g, m)}
  /\ UNCHANGED <<id, home, rows, applies>>

\* Mutant: the provider starts from 0.
Crash_FromZero == \E f \in Files : Restart(f, 0)

Crash ==
  \/ \E f \in Files : \E m \in Ids(f, "requests") \cup {0} : IsLastId(f, m) /\ Restart(f, m)
  \/ Restart(None, 0)

-----------------------------------------------------------------------------

\* All exchanges are over, and nothing is left to save.
Quiet ==
  /\ \A x \in Exchanges : pc[x] \in {"answered", "lost"}
  /\ \A t \in Tables : pipe[t] = <<>>
  /\ \A g \in Savers : queue[g] = <<>>
  /\ UNCHANGED vars

Next ==
  \/ \E x \in Exchanges : NextID(x) \/ RequestOut(x) \/ ResponseIn(x)
  \/ saveRequest \/ saveResponse
  \/ \E g \in Savers : Write(g)
  \/ Apply
  \/ Crash
  \/ Quiet

Spec == Init /\ [][Next]_vars

\* The workers of the pipelines and the savers run; that an attempt ends, busy or
\* not, is up to SQLite.
Fairness ==
  /\ WF_vars(saveRequest) /\ WF_vars(saveResponse)
  /\ \A g \in Savers : WF_vars(Write(g))

FairSpec == Spec /\ Fairness

-----------------------------------------------------------------------------
(***************************************************************************)
(* Properties.                                                             *)
(***************************************************************************)

\* The rows in f whose IDs a provider of f gave.  Others are strays: those of an exchange
\* that began under another configuration, or that a plugin has renamed.
OwnRows(f, t) == {r \in rows[f][t] : home[r[2]] = f}

OwnPairsMatch(f) ==
  \A q \in OwnRows(f, "requests"), p \in OwnRows(f, "responses") : q[1] = p[1] => q[2] = p[2]

\* A row of requests and a row of responses with one ID are of one exchange: it is all
\* that ties a response to its request.  Strays apart, one would expect it of every file.
PairsMatch == \A f \in Files : OwnPairsMatch(f)

\* This much holds: whatever is dropped at a full queue or refused, and however often
\* the proxy is restarted or configured, with this file or another, no response is filed
\* under the ID of somebody else's request, if both have their IDs from a provider of that
\* file, before one counts on from less than an ID that it gave to an exchange of the same
\* process or that is in the table of responses.
PairsUnlessOrphans == \A f \in Files \ orphans : OwnPairsMatch(f)

DistinctIds(f) ==
  \A x, y \in Exchanges :
    Running(x) /\ Running(y) /\ home[x] = f /\ home[y] = f /\ id[x] = id[y] => x = y

\* Two exchanges that are under way with IDs of one file have different IDs, after restarts
\* and changes of the file too, until a provider of it counts on from less.
UniqueIds == \A f \in Files \ setBack : DistinctIds(f)

\* The database refuses a request whose ID was given for it only because of a stray,
\* on the same condition: no other row there has its ID, not even one that a restarted
\* proxy found.
RefusedByStrays ==
  \A g \in Savers : \A i \in 1 .. Len(queue[g]) :
    LET j == queue[g][i]
    IN j.table = "requests" /\ home[j.exchange] = g[2] /\ g[2] \notin setBack =>
         \A r \in OwnRows(g[2], "requests") : r[1] # id[j.exchange]

\* What is queued is written or given up, however busy the database is and whatever
\* is configured meanwhile: when no more exchanges come, all queues get empty.
QueuesDrain == []<>(\A g \in Savers : queue[g] = <<>>)

-----------------------------------------------------------------------------
(***************************************************************************)
(* The promise of Archive.                                                 *)
(***************************************************************************)

Pending ==
  (UNION {{<<t, pipe[t][i].exchange, pipe[t][i].saver[2]>> : i \in 1 .. Len(pipe[t])} : t \in Tables})
  \cup
  (UNION {{<<queue[g][i].table, queue[g][i].exchange, g[2]>> : i \in 1 .. Len(queue[g])} : g \in Savers})

Promise == INSTANCE Archive
             WITH stage <- pc, pending <- Pending,
                  trusted <- Files \ setBack, kept <- Files \ orphans

\* Whatever the pipelines, the savers of several configurations and files, their retries and
\* restarts do, each message becomes at most one row, in one file, in its table and under
\* its exchange's ID, and the IDs that are given are free in their file, but for strays,
\* unless IDs were forgotten.
Implements == Promise!Spec
=============================================================================
