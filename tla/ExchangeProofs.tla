---------------------------- MODULE ExchangeProofs ----------------------------
(***************************************************************************)
(* Theorems about Exchange, for any number of exchanges, any requests,     *)
(* scopes, hooks and hook lists.                                           *)
(*                                                                         *)
(* The invariant IInv has three parts: the types; Present, which objects   *)
(* there are at each place; and Kept, what is in them: what was received   *)
(* stays in the original and the queued clone, and once the hooks of a     *)
(* side are over, nobody changes what will be sent, Ends.  Once adds what  *)
(* has been decided: one answer of the scope and one list of hooks.        *)
(***************************************************************************)
EXTENDS Exchange, SequenceTheorems, TLAPS

-----------------------------------------------------------------------------
(***************************************************************************)
(* Messages.                                                               *)
(***************************************************************************)

LEMMA BodyRead ==
  ASSUME NEW b \in Bodies
  PROVE  LET c == [b EXCEPT !.read = TRUE]
         IN c \in Bodies /\ c.wrapped = b.wrapped /\ c.whole = b.whole
  BY DEF Bodies

LEMMA WrappedType ==
  ASSUME NEW m \in Messages
  PROVE  /\ Wrapped(m) \in Messages /\ Wrapped(m).body.wrapped
         /\ Wrapped(m).id = m.id /\ Wrapped(m).cell = m.cell /\ Wrapped(m).edits = m.edits
         /\ GetsAll(Wrapped(m).body) <=> GetsAll(m.body)
         /\ m.body.wrapped => Wrapped(m) = m
  BY DEF Wrapped, Messages, Bodies, GetsAll

LEMMA CloneType ==
  ASSUME NEW m \in Messages
  PROVE  /\ Clone(m) \in Messages /\ Clone(m).body.wrapped
         /\ Clone(m).id = m.id /\ Clone(m).cell = m.cell /\ Clone(m).edits = m.edits
         /\ GetsAll(m.body) \/ (m.body.wrapped /\ m.body.whole) => GetsAll(Clone(m).body)
  BY WrappedType DEF Clone, Messages, Bodies, GetsAll, Wrapped

LEMMA AfterHookType ==
  ASSUME NEW m \in Messages
  PROVE  /\ AfterHook(m) \in Messages /\ AfterHook(m).body.wrapped
         /\ AfterHook(m).id = m.id /\ AfterHook(m).cell = m.cell /\ AfterHook(m).edits = m.edits
         /\ GetsAll(m.body) \/ (m.body.wrapped /\ m.body.whole) => GetsAll(AfterHook(m).body)
  BY CloneType DEF AfterHook, Messages, Bodies, GetsAll

LEMMA ReadType ==
  ASSUME NEW x \in Exchanges, url \in [Exchanges -> [Cells -> DOMAIN Lower]], NEW m \in Messages
  PROVE  Read(x, m) \in Contents
  BY DEF Read, Contents, Messages, Bodies, GetsAll, Cells

-----------------------------------------------------------------------------
(***************************************************************************)
(* Updates of functions of functions.                                      *)
(***************************************************************************)

PutTwo(f, x, t, v) == [f EXCEPT ![x][t] = v]
PutThree(f, x, t, o, v) == [f EXCEPT ![x][t][o] = v]

LEMMA PutThreeType ==
  ASSUME NEW S, NEW T, NEW R, NEW V, NEW f \in [S -> [T -> [R -> V]]],
         NEW x \in S, NEW t \in T, NEW r \in R, NEW v \in V
  PROVE  /\ PutThree(f, x, t, r, v) \in [S -> [T -> [R -> V]]]
         /\ \A y \in S, u \in T, o \in R :
              PutThree(f, x, t, r, v)[y][u][o] = IF y = x /\ u = t /\ o = r THEN v ELSE f[y][u][o]
  <1> DEFINE w == [f[x][t] EXCEPT ![r] = v]
  <1>1. w \in [R -> V] /\ \A o \in R : w[o] = IF o = r THEN v ELSE f[x][t][o]
    OBVIOUS
  <1>2. PutThree(f, x, t, r, v) = PutTwo(f, x, t, w)
    BY DEF PutThree, PutTwo
  <1> HIDE DEF w
  <1>3. /\ PutTwo(f, x, t, w) \in [S -> [T -> [R -> V]]]
        /\ \A y \in S, u \in T : PutTwo(f, x, t, w)[y][u] = IF y = x /\ u = t THEN w ELSE f[y][u]
    BY <1>1 DEF PutTwo
  <1> QED
    BY <1>1, <1>2, <1>3

\* One object of an exchange becomes v.
PutObject(x, s, o, v) == obj' = PutThree(obj, x, s, o, v)

LEMMA PutObjectType ==
  ASSUME TypeOK, NEW x \in Exchanges, NEW s \in Sides, NEW o \in Objects, NEW v \in Messages,
         PutObject(x, s, o, v)
  PROVE  /\ obj' \in [Exchanges -> [Sides -> [Objects -> Messages \cup {None}]]]
         /\ \A y \in Exchanges, t \in Sides, u \in Objects :
              obj'[y][t][u] = IF y = x /\ t = s /\ u = o THEN v ELSE obj[y][t][u]
  <1> DEFINE V == Messages \cup {None}
  <1>1. obj \in [Exchanges -> [Sides -> [Objects -> V]]] /\ v \in V
    BY DEF TypeOK
  <1> HIDE DEF V
  <1>2. PutThree(obj, x, s, o, v) \in [Exchanges -> [Sides -> [Objects -> V]]]
    BY <1>1, PutThreeType
  <1>3. \A y \in Exchanges, t \in Sides, u \in Objects :
          PutThree(obj, x, s, o, v)[y][t][u] = IF y = x /\ t = s /\ u = o THEN v ELSE obj[y][t][u]
    <2> DEFINE w == [obj[x][s] EXCEPT ![o] = v]
    <2>1. \A u \in Objects : w[u] = IF u = o THEN v ELSE obj[x][s][u]
      BY <1>1
    <2>2. PutThree(obj, x, s, o, v) = PutTwo(obj, x, s, w)
      BY DEF PutThree, PutTwo
    <2> HIDE DEF w
    <2>3. \A y \in Exchanges, t \in Sides :
            PutTwo(obj, x, s, w)[y][t] = IF y = x /\ t = s THEN w ELSE obj[y][t]
      BY <1>1 DEF PutTwo
    <2> QED
      BY <2>1, <2>2, <2>3
  <1> QED
    BY <1>2, <1>3 DEF PutObject, V

\* An item is added to the queue of a side, or not.
LEMMA QueueType ==
  ASSUME TypeOK, NEW x \in Exchanges, NEW i \in {"in", "out"}, Queue(x, i)
  PROVE  /\ pending' \in [Exchanges -> [Sides -> SUBSET {"in", "out"}]]
         /\ \A y \in Exchanges, s \in Sides :
              pending'[y][s] # pending[y][s] =>
                y = x /\ s = side[x] /\ pending'[y][s] = pending[y][s] \cup {i}
  <1> DEFINE w == pending[x][side[x]] \cup {i}
             V == SUBSET {"in", "out"}
  <1>1. side[x] \in Sides /\ w \in V /\ pending \in [Exchanges -> [Sides -> V]]
    BY DEF TypeOK
  <1>2. pending' = pending \/ pending' = PutTwo(pending, x, side[x], w)
    BY DEF Queue, PutTwo
  <1> HIDE DEF w, V
  <1>3. /\ PutTwo(pending, x, side[x], w) \in [Exchanges -> [Sides -> V]]
        /\ \A y \in Exchanges, s \in Sides :
             PutTwo(pending, x, side[x], w)[y][s] = IF y = x /\ s = side[x] THEN w ELSE pending[y][s]
    BY <1>1 DEF PutTwo
  <1> QED
    BY <1>1, <1>2, <1>3 DEF w, V

LEMMA ThreeObjects ==
  ASSUME NEW V, NEW a \in V, NEW b \in V, NEW c \in V
  PROVE  [original |-> a, queued |-> b, working |-> c] \in [Objects -> V]
  BY DEF Objects
-----------------------------------------------------------------------------
(***************************************************************************)
(* Types, and which objects there are.                                     *)
(***************************************************************************)

\* The exchange has received its message on side s.
Has(x, s) == (s = side[x] /\ pc[x] # "idle") \/ (s = "request" /\ side[x] = "response")

\* The message that an exchange works on is the one it received until it is
\* intercepted, and then the second clone.
Present ==
  /\ \A x \in Exchanges : pc[x] \in {"idle", "waiting"} => side[x] = "request"
  /\ \A x \in Exchanges, s \in Sides :
       /\ Has(x, s) => obj[x][s]["original"] \in Messages
       /\ cur[x][s] \in {"original", "working"}
       /\ cur[x][s] = "working" =>
            Has(x, s) /\ obj[x][s]["queued"] \in Messages /\ obj[x][s]["working"] \in Messages
       /\ pending[x][s] # {} => cur[x][s] = "working"
       /\ obj[x][s]["queued"] # None => cur[x][s] = "working"
       /\ s = side[x] /\ pc[x] \in {"asking", "pipelines"} => cur[x][s] = "original"
       /\ s = side[x] /\ pc[x] = "hooks" => cur[x][s] = "working"

-----------------------------------------------------------------------------
(***************************************************************************)
(* What is in the messages.                                                *)
(***************************************************************************)

\* The hooks of side s are over.
Final(x, s) == Has(x, s) /\ ~(s = side[x] /\ pc[x] \in {"asking", "pipelines", "hooks"})

\* What is sent on side s, once the hooks are over.
Ends(x, s) ==
  LET m == obj[x][s][cur[x][s]]
  IN [id |-> m.id, ext |-> url[x][m.cell], edits |-> m.edits, whole |-> TRUE]

CellOf(s) == IF s = "request" THEN "client" ELSE "none"

\* The client's URL is as it asked for it, unless a hook has changed it; and then the
\* request was intercepted.
UrlKept(x) ==
  /\ url[x]["none"] = ""
  /\ touched[x] => cur[x]["request"] = "working"
  /\ pc[x] # "idle" /\ ~touched[x] => url[x]["client"] = asked[x].ext

\* The response is the one to the request that was sent.
IdKept(x) ==
  side[x] = "response" =>
    obj[x]["response"]["original"].id = obj[x]["request"][cur[x]["request"]].id

OriginalKept(x, s) ==
  Has(x, s) =>
    LET m == obj[x][s]["original"]
    IN m.cell = CellOf(s) /\ m.edits = <<>> /\ (sent[x][s] = None => GetsAll(m.body))

QueuedKept(x, s) ==
  cur[x][s] = "working" =>
    LET m == obj[x][s]["queued"]
    IN /\ m.id = obj[x][s]["original"].id /\ m.cell = CellOf(s) /\ m.edits = <<>>
       /\ GetsAll(m.body)

WorkingKept(x, s) ==
  cur[x][s] = "working" =>
    LET m == obj[x][s]["working"]
    IN /\ m.body.wrapped /\ m.body.whole /\ (sent[x][s] = None => ~m.body.read)
       /\ m.cell \in {CellOf(s), IF s = "request" THEN "plugin" ELSE "none"}
       /\ s = "response" => m.id \in {obj[x][s]["original"].id, "other"}

InKept(x, s) ==
  LET seen == shown[x][s]["in"]
  IN seen # None =>
       /\ cur[x][s] = "working"
       /\ \/ seen = AsReceived(x, s)
          \/ touched[x] /\ seen = [AsReceived(x, s) EXCEPT !.ext = seen.ext]

OutKept(x, s) ==
  /\ "out" \in pending[x][s] => Final(x, s)
  /\ shown[x][s]["out"] # None =>
       Final(x, s) /\ cur[x][s] = "working" /\ shown[x][s]["out"] = Ends(x, s)
  /\ sent[x][s] # None =>
       Final(x, s) /\ ~(s = side[x] /\ pc[x] = "sending") /\ sent[x][s] = Ends(x, s)

KeptAt(x) ==
  /\ UrlKept(x) /\ IdKept(x)
  /\ \A s \in Sides :
       /\ OriginalKept(x, s) /\ QueuedKept(x, s) /\ WorkingKept(x, s)
       /\ InKept(x, s) /\ OutKept(x, s)

Kept == \A x \in Exchanges : KeptAt(x)

IInv == TypeOK /\ Present /\ Kept

LEMMA AsReceivedBut ==
  ASSUME NEW x \in Exchanges, NEW s \in Sides
  PROVE  /\ AsReceived(x, s) = [id |-> AsReceived(x, s).id, ext |-> AsReceived(x, s).ext,
                                edits |-> AsReceived(x, s).edits, whole |-> AsReceived(x, s).whole]
         /\ \A e : [AsReceived(x, s) EXCEPT !.ext = e] =
                [id |-> AsReceived(x, s).id, ext |-> e,
                 edits |-> AsReceived(x, s).edits, whole |-> AsReceived(x, s).whole]
         /\ AsReceived(x, s).id = obj[x][s]["original"].id
         /\ AsReceived(x, s).edits = <<>> /\ AsReceived(x, s).whole = TRUE
  <1> DEFINE i == obj[x][s]["original"].id
             n == IF s = "request" THEN asked[x].ext ELSE ""
  <1>1. AsReceived(x, s) = [id |-> i, ext |-> n, edits |-> <<>>, whole |-> TRUE]
    BY DEF AsReceived
  <1> HIDE DEF i, n
  <1>2. /\ AsReceived(x, s).id = i /\ AsReceived(x, s).ext = n
        /\ AsReceived(x, s).edits = <<>> /\ AsReceived(x, s).whole = TRUE
    BY <1>1
  <1>3. AsReceived(x, s) \in [id : {i}, ext : {n}, edits : {<<>>}, whole : {TRUE}]
    BY <1>1
  <1>4. ASSUME NEW e
        PROVE  [AsReceived(x, s) EXCEPT !.ext = e] = [id |-> i, ext |-> e, edits |-> <<>>, whole |-> TRUE]
    <2> DEFINE r == AsReceived(x, s)
    <2>1. r.id = i /\ r.edits = <<>> /\ r.whole = TRUE
      BY <1>2
    <2>2. r \in [id : {i}, ext : {n}, edits : {<<>>}, whole : {TRUE}]
      BY <1>3
    <2> HIDE DEF r
    <2>3. [r EXCEPT !.ext = e] = [id |-> r.id, ext |-> e, edits |-> r.edits, whole |-> r.whole]
      BY <2>2
    <2>4. [r EXCEPT !.ext = e] = [id |-> i, ext |-> e, edits |-> <<>>, whole |-> TRUE]
      BY <2>1, <2>3
    <2> QED
      BY <2>4 DEF r
  <1>5. AsReceived(x, s).id = obj[x][s]["original"].id
    BY <1>2 DEF i
  <1> QED
    BY <1>1, <1>2, <1>4, <1>5

\* An exchange does nothing to another one.
Stays(y) ==
  /\ pc'[y] = pc[y] /\ side'[y] = side[y] /\ asked'[y] = asked[y] /\ inScope'[y] = inScope[y]
  /\ url'[y] = url[y] /\ touched'[y] = touched[y] /\ obj'[y] = obj[y] /\ cur'[y] = cur[y]
  /\ todo'[y] = todo[y] /\ ran'[y] = ran[y] /\ pending'[y] = pending[y]
  /\ shown'[y] = shown[y] /\ sent'[y] = sent[y]

LEMMA OthersStay ==
  ASSUME TypeOK, NEW x \in Exchanges, NEW y \in Exchanges, y # x,
         Arrive(x) \/ Go(x) \/ \E s \in Sides, i \in {"in", "out"} : Show(x, s, i)
  PROVE  Stays(y)
  <1> USE DEF TypeOK, Stays, queueVars
  <1>1. CASE Arrive(x)
    BY <1>1 DEF Arrive
  <1>2. CASE AskScope(x) \/ AskAgain(x) \/ HookFails(x) \/ RunOut(x) \/ Unreachable(x)
    BY <1>2 DEF AskScope, AskAgain, HookFails, RunOut, Unreachable, Decide, Queue
  <1>3. CASE RunIn(x)
    BY <1>3 DEF RunIn, Queue
  <1>4. CASE RunHook(x)
    <2>1. obj'[y] = obj[y] /\ url'[y] = url[y] /\ touched'[y] = touched[y]
      BY <1>4 DEF RunHook, Native, Answers, Gone
    <2> QED
      BY <1>4, <2>1 DEF RunHook
  <1>5. CASE Send(x)
    BY <1>5 DEF Send
  <1>6. CASE Respond(x)
    BY <1>6 DEF Respond, RespondWith
  <1>7. ASSUME NEW s \in Sides, NEW i \in {"in", "out"}, Show(x, s, i) PROVE Stays(y)
    BY <1>7 DEF Show
  <1> QED
    BY <1>1, <1>2, <1>3, <1>4, <1>5, <1>6, <1>7 DEF Go

LEMMA KeptStays ==
  ASSUME NEW y \in Exchanges, KeptAt(y), Stays(y)
  PROVE  KeptAt(y)'
  <1>1. UrlKept(y)' /\ IdKept(y)'
    BY DEF KeptAt, Stays, UrlKept, IdKept
  <1>2. ASSUME NEW s \in Sides
        PROVE  /\ Has(y, s)' = Has(y, s) /\ Final(y, s)' = Final(y, s)
               /\ Ends(y, s)' = Ends(y, s) /\ AsReceived(y, s)' = AsReceived(y, s)
    BY DEF Stays, Has, Final, Ends, AsReceived
  <1>3. ASSUME NEW s \in Sides
        PROVE  OriginalKept(y, s)' /\ QueuedKept(y, s)' /\ WorkingKept(y, s)'
    BY <1>2 DEF KeptAt, Stays, OriginalKept, QueuedKept, WorkingKept
  <1>4. ASSUME NEW s \in Sides
        PROVE  InKept(y, s)' /\ OutKept(y, s)'
    BY <1>2 DEF KeptAt, Stays, InKept, OutKept
  <1> QED
    BY <1>1, <1>3, <1>4 DEF KeptAt

LEMMA KeptStep ==
  ASSUME IInv, NEW x \in Exchanges, KeptAt(x)',
         Arrive(x) \/ Go(x) \/ \E s \in Sides, i \in {"in", "out"} : Show(x, s, i)
  PROVE  Kept'
  BY OthersStay, KeptStays DEF Kept, IInv

-----------------------------------------------------------------------------
(***************************************************************************)
(* The steps.                                                              *)
(***************************************************************************)

LEMMA CurrentType ==
  ASSUME IInv, NEW x \in Exchanges, pc[x] # "idle"
  PROVE  Current(x) \in Messages
  <1>1. side[x] \in Sides /\ Has(x, side[x])
    BY DEF IInv, TypeOK, Has
  <1> QED
    BY <1>1 DEF IInv, Present, Current

LEMMA InitIInv == Init => IInv
  <1> SUFFICES ASSUME Init PROVE IInv
    OBVIOUS
  <1>1. TypeOK
    <2>1. obj \in [Exchanges -> [Sides -> [Objects -> Messages \cup {None}]]]
      BY DEF Init, PerSide
    <2>2. url \in [Exchanges -> [Cells -> DOMAIN Lower]]
      BY ScopeAssumption DEF Init
    <2>6. pc \in [Exchanges -> Places]
      BY DEF Init, Places
    <2>3. /\ side \in [Exchanges -> Sides]
          /\ asked \in [Exchanges -> Requests \cup {None}] /\ inScope \in [Exchanges -> Scopes \cup {None}]
          /\ touched \in [Exchanges -> BOOLEAN] 
      BY DEF Init, Sides
    <2>7. <<>> \in Seq(Hooks)
      OBVIOUS
    <2>8. todo \in [Exchanges -> Seq(Hooks)] /\ ran \in [Exchanges -> [Sides -> Seq(Hooks)]]
      BY <2>7 DEF Init, PerSide
    <2>4. /\ cur \in [Exchanges -> [Sides -> Objects]]
          /\ pending \in [Exchanges -> [Sides -> SUBSET {"in", "out"}]]
      BY DEF Init, PerSide, Objects
    <2>5. /\ shown \in [Exchanges -> [Sides -> [{"in", "out"} -> Contents \cup {None}]]]
          /\ sent \in [Exchanges -> [Sides -> Contents \cup {None}]]
      BY DEF Init, PerSide
    <2> QED
      BY <2>1, <2>2, <2>3, <2>4, <2>5, <2>6, <2>8 DEF TypeOK
  <1>2. Present
    BY DEF Init, PerSide, Present, Has, Sides, Objects
  <1>3. Kept
    BY DEF Init, PerSide, Kept, KeptAt, UrlKept, IdKept, OriginalKept, QueuedKept, WorkingKept,
           InKept, OutKept, Has, Sides, Objects, Cells
  <1> QED
    BY <1>1, <1>2, <1>3 DEF IInv

\* Steps that change no message.
LEMMA NoMessageIInv ==
  ASSUME IInv, NEW x \in Exchanges,
         AskScope(x) \/ AskAgain(x) \/ HookFails(x) \/ RunOut(x) \/ Unreachable(x)
  PROVE  IInv'
  <1> USE DEF IInv
  <1>1. pending' \in [Exchanges -> [Sides -> SUBSET {"in", "out"}]]
    <2>1. CASE RunOut(x)
      BY <2>1, QueueType DEF RunOut
    <2> QED
      BY <2>1 DEF TypeOK, AskScope, AskAgain, HookFails, Unreachable, queueVars
  <1>2. pc' \in [Exchanges -> Places] /\ inScope' \in [Exchanges -> Scopes \cup {None}]
    <2>1. CASE AskScope(x)
      BY <2>1 DEF TypeOK, Places, AskScope, Decide
    <2>2. CASE AskAgain(x)
      BY <2>2 DEF TypeOK, Places, AskAgain, Decide
    <2> QED
      BY <2>1, <2>2 DEF TypeOK, Places, HookFails, RunOut, Unreachable
  <1>3. UNCHANGED <<side, asked, url, touched, obj, cur, todo, ran, shown, sent>>
    BY DEF AskScope, AskAgain, HookFails, RunOut, Unreachable, queueVars
  <1>4. TypeOK'
    BY <1>1, <1>2, <1>3 DEF TypeOK
  <1>5. /\ \A y \in Exchanges \ {x} : pc'[y] = pc[y] /\ pending'[y] = pending[y]
        /\ pc[x] # "idle" /\ pc'[x] \notin {"idle", "asking", "hooks", "waiting"}
        /\ pc'[x] = "pipelines" => pc[x] = "asking"
        /\ pc'[x] = "sending" => pc[x] \in {"asking", "hooks"}
        /\ \A s \in Sides : pending'[x][s] # pending[x][s] => s = side[x] /\ pc[x] = "hooks"
    BY DEF TypeOK, AskScope, AskAgain, Decide, HookFails, RunOut, Queue, Unreachable, queueVars
  <1>6. Present'
    BY <1>3, <1>5 DEF Present, Has, TypeOK, Sides
  <1>7. \A s \in Sides : pending'[x][s] # pending[x][s] => Final(x, s)'
    BY <1>3, <1>5 DEF Final, Has
  <1>8. KeptAt(x)'
    <2>1. KeptAt(x) /\ \A s \in Sides : sent[x][s] # None => Final(x, s)
      BY DEF Kept, KeptAt, OutKept
    <2>2. \A s \in Sides : (Has(x, s)' <=> Has(x, s)) /\ (Final(x, s) => Final(x, s)')
      BY <1>3, <1>5 DEF Has, Final, Sides
    <2>3. UrlKept(x)' /\ IdKept(x)'
      BY <1>3, <1>5, <2>1 DEF KeptAt, UrlKept, IdKept
    <2>4. ASSUME NEW s \in Sides
          PROVE  OriginalKept(x, s)' /\ QueuedKept(x, s)' /\ WorkingKept(x, s)'
      BY <1>3, <2>1, <2>2 DEF KeptAt, OriginalKept, QueuedKept, WorkingKept
    <2>5. ASSUME NEW s \in Sides
          PROVE  InKept(x, s)'
      <3>1. AsReceived(x, s)' = AsReceived(x, s)
        BY <1>3 DEF AsReceived
      <3> QED
        BY <1>3, <2>1, <3>1 DEF KeptAt, InKept
    <2>6. ASSUME NEW s \in Sides
          PROVE  OutKept(x, s)'
      <3>1. Ends(x, s)' = Ends(x, s)
        BY <1>3 DEF Ends
      <3>2. "out" \in pending'[x][s] => Final(x, s)'
        BY <1>7, <2>1, <2>2 DEF KeptAt, OutKept
      <3>3. sent[x][s] # None => ~(s = side[x] /\ pc'[x] = "sending")
        BY <1>5, <2>1 DEF KeptAt, OutKept, Final
      <3> QED
        BY <1>3, <2>1, <2>2, <3>1, <3>2, <3>3 DEF KeptAt, OutKept
    <2> QED
      BY <2>3, <2>4, <2>5, <2>6 DEF KeptAt
  <1> QED
    BY <1>4, <1>6, <1>8, KeptStep DEF Go

LEMMA ArriveIInv ==
  ASSUME IInv, NEW x \in Exchanges, Arrive(x)
  PROVE  IInv'
  <1> USE DEF IInv
  <1>1. PICK r \in Requests :
          /\ asked' = [asked EXCEPT ![x] = r]
          /\ url' = [url EXCEPT ![x]["client"] = r.ext]
    BY DEF Arrive
  <1>2. r.ext \in DOMAIN Lower
    BY ExchangeAssumption
  <1>3. url' \in [Exchanges -> [Cells -> DOMAIN Lower]]
    BY <1>1, <1>2 DEF PutTwo, TypeOK, Cells
  <1>4. Received(x, x, "client") \in Messages
    BY DEF Received, Stream, Messages, Bodies, Ids, Cells
  <1>5. /\ obj' \in [Exchanges -> [Sides -> [Objects -> Messages \cup {None}]]]
        /\ \A y \in Exchanges, s \in Sides, o \in Objects :
             obj'[y][s][o] = IF y = x /\ s = "request" /\ o = "original"
                             THEN Received(x, x, "client") ELSE obj[y][s][o]
    <2>1. PutObject(x, "request", "original", Received(x, x, "client"))
      BY DEF Arrive, PutObject, PutThree
    <2> QED
      BY <1>4, <2>1, PutObjectType DEF Sides, Objects
  <1>6. TypeOK'
    BY <1>1, <1>3, <1>5 DEF Arrive, TypeOK, Places, queueVars
  <1>7. Present'
    BY <1>4, <1>5 DEF Arrive, Present, Has, TypeOK, Sides, Objects, queueVars
  <1>8. pc[x] = "idle" /\ side[x] = "request" /\ KeptAt(x)
    BY DEF Arrive, Present, Kept
  <1>9. ASSUME NEW s \in Sides
        PROVE  /\ cur[x][s] = "original" /\ sent[x][s] = None /\ pending[x][s] = {}
               /\ shown[x][s]["in"] = None /\ shown[x][s]["out"] = None
    <2>1. ~Has(x, s) /\ ~Final(x, s)
      BY <1>8 DEF Has, Final
    <2>2. cur[x][s] = "original"
      BY <2>1 DEF Present
    <2> QED
      BY <1>8, <2>1, <2>2 DEF Present, KeptAt, InKept, OutKept
  <1>10. /\ url'[x]["client"] = r.ext /\ url'[x]["none"] = url[x]["none"] /\ asked'[x] = r
    BY <1>1 DEF TypeOK, Cells
  <1>11. /\ pc'[x] = "asking"
         /\ UNCHANGED <<side, touched, cur, pending, shown, sent>>
    BY DEF Arrive, TypeOK, queueVars
  <1>12. KeptAt(x)'
    <2>1. UrlKept(x)' /\ IdKept(x)'
      BY <1>8, <1>10, <1>11 DEF KeptAt, UrlKept, IdKept
    <2>2. ASSUME NEW s \in Sides
          PROVE  OriginalKept(x, s)'
      <3>1. Has(x, s)' => s = "request"
        BY <1>8, <1>11 DEF Has
      <3>2. obj'[x]["request"]["original"] = Received(x, x, "client")
        BY <1>5 DEF Sides, Objects
      <3> QED
        BY <3>1, <3>2 DEF OriginalKept, Received, CellOf, Stream, GetsAll
    <2>3. ASSUME NEW s \in Sides
          PROVE  QueuedKept(x, s)' /\ WorkingKept(x, s)' /\ InKept(x, s)' /\ OutKept(x, s)'
      BY <1>9, <1>11 DEF QueuedKept, WorkingKept, InKept, OutKept
    <2> QED
      BY <2>1, <2>2, <2>3 DEF KeptAt
  <1> QED
    BY <1>6, <1>7, <1>12, KeptStep

LEMMA RunInIInv ==
  ASSUME IInv, NEW x \in Exchanges, RunIn(x)
  PROVE  IInv'
  <1> USE DEF IInv
  <1> DEFINE m == obj[x][side[x]]["original"]
  <1>1. m \in Messages /\ side[x] \in Sides
    BY DEF RunIn, Present, Has, TypeOK
  <1>2. Wrapped(m) \in Messages /\ Clone(m) \in Messages /\ Clone(Clone(m)) \in Messages
    BY <1>1, WrappedType, CloneType
  <1> DEFINE v == [original |-> Wrapped(m), queued |-> Clone(m), working |-> Clone(Clone(m))]
  <1>3. /\ v \in [Objects -> Messages \cup {None}]
        /\ \A o \in Objects : v[o] \in Messages
    BY <1>2, ThreeObjects DEF Objects
  <1>4. obj' = PutTwo(obj, x, side[x], v)
    BY DEF RunIn, PutTwo
  <1> HIDE DEF v, m
  <1>5. /\ obj' \in [Exchanges -> [Sides -> [Objects -> Messages \cup {None}]]]
        /\ \A y \in Exchanges, s \in Sides :
             obj'[y][s] = IF y = x /\ s = side[x] THEN v ELSE obj[y][s]
    <2> DEFINE V == [Objects -> Messages \cup {None}]
    <2>1. obj \in [Exchanges -> [Sides -> V]] /\ v \in V
      BY <1>3 DEF TypeOK
    <2> HIDE DEF V
    <2>2. /\ PutTwo(obj, x, side[x], v) \in [Exchanges -> [Sides -> V]]
          /\ \A y \in Exchanges, s \in Sides :
               PutTwo(obj, x, side[x], v)[y][s] = IF y = x /\ s = side[x] THEN v ELSE obj[y][s]
      BY <1>1, <2>1 DEF PutTwo
    <2> QED
      BY <1>4, <2>2 DEF V
  <1>6. /\ pending' \in [Exchanges -> [Sides -> SUBSET {"in", "out"}]]
        /\ \A y \in Exchanges, s \in Sides : pending'[y][s] # pending[y][s] => y = x /\ s = side[x]
    BY QueueType DEF RunIn
  <1>7. /\ cur' \in [Exchanges -> [Sides -> Objects]]
        /\ \A y \in Exchanges, s \in Sides :
             cur'[y][s] = IF y = x /\ s = side[x] THEN "working" ELSE cur[y][s]
    BY <1>1 DEF PutTwo, RunIn, TypeOK, Objects
  <1>8. todo' \in [Exchanges -> Seq(Hooks)] /\ pc' \in [Exchanges -> Places]
    BY ExchangeAssumption DEF RunIn, TypeOK, Places
  <1>9. TypeOK'
    BY <1>5, <1>6, <1>7, <1>8 DEF RunIn, TypeOK
  <1>10. pc[x] = "pipelines" /\ pc' = [pc EXCEPT ![x] = "hooks"] /\ side' = side
    BY DEF RunIn
  <1>11. Present'
    BY <1>1, <1>3, <1>5, <1>6, <1>7, <1>10 DEF Present, Has, TypeOK, Objects
  <1>12. KeptAt(x) /\ UNCHANGED <<url, asked, touched, shown, sent>>
    BY DEF RunIn, Kept
  <1>13. ASSUME NEW s \in Sides
         PROVE  (Has(x, s)' <=> Has(x, s)) /\ (Final(x, s)' <=> Final(x, s))
    BY <1>10 DEF Has, Final, TypeOK
  <1>14. /\ cur[x][side[x]] = "original" /\ Has(x, side[x]) /\ ~Final(x, side[x])
    BY <1>1, <1>10 DEF Present, Has, Final
  <1>15. /\ sent[x][side[x]] = None /\ shown[x][side[x]]["in"] = None /\ shown[x][side[x]]["out"] = None
         /\ pending[x][side[x]] = {}
    BY <1>1, <1>12, <1>14 DEF KeptAt, InKept, OutKept, Present
  <1>16. m.cell = CellOf(side[x]) /\ m.edits = <<>> /\ GetsAll(m.body)
    BY <1>1, <1>12, <1>14, <1>15 DEF KeptAt, OriginalKept, m
  <1>17. /\ v["original"] = Wrapped(m) /\ v["queued"] = Clone(m) /\ v["working"] = Clone(Clone(m))
    BY DEF v
  <1>18. ASSUME NEW s \in Sides, s # side[x]
         PROVE  /\ OriginalKept(x, s)' /\ QueuedKept(x, s)' /\ WorkingKept(x, s)'
                /\ InKept(x, s)' /\ OutKept(x, s)'
    <2>1. obj'[x][s] = obj[x][s] /\ cur'[x][s] = cur[x][s] /\ pending'[x][s] = pending[x][s]
      BY <1>5, <1>6, <1>7, <1>18
    <2>2. /\ AsReceived(x, s)' = AsReceived(x, s) /\ Ends(x, s)' = Ends(x, s)
          /\ (s = side'[x] /\ pc'[x] = "sending") = FALSE
      BY <1>10, <1>12, <1>18, <2>1 DEF AsReceived, Ends
    <2>3. OriginalKept(x, s)' /\ QueuedKept(x, s)' /\ WorkingKept(x, s)' /\ InKept(x, s)'
      BY <1>12, <1>13, <2>1, <2>2 DEF KeptAt, OriginalKept, QueuedKept, WorkingKept, InKept
    <2> QED
      BY <1>12, <1>13, <2>1, <2>2, <2>3 DEF KeptAt, OutKept
  <1>19. OriginalKept(x, side[x])' /\ QueuedKept(x, side[x])' /\ WorkingKept(x, side[x])'
    <2>1. side'[x] = side[x] /\ obj'[x][side[x]] = v
      BY <1>1, <1>5, <1>10
    <2>2. ASSUME NEW n \in Messages
          PROVE  /\ Wrapped(n).id = n.id /\ Wrapped(n).cell = n.cell /\ Wrapped(n).edits = n.edits
                 /\ GetsAll(n.body) => GetsAll(Wrapped(n).body)
                 /\ Clone(n).id = n.id /\ Clone(n).cell = n.cell /\ Clone(n).edits = n.edits
                 /\ GetsAll(n.body) => GetsAll(Clone(n).body)
                 /\ Clone(n).body.wrapped
      BY WrappedType, CloneType
    <2>3. /\ Wrapped(m).id = m.id /\ Wrapped(m).cell = m.cell /\ Wrapped(m).edits = m.edits
          /\ GetsAll(Wrapped(m).body)
      BY <1>1, <1>16, <2>2
    <2>4. /\ Clone(m).id = m.id /\ Clone(m).cell = m.cell /\ Clone(m).edits = m.edits
          /\ GetsAll(Clone(m).body)
      BY <1>1, <1>16, <2>2
    <2>5. /\ Clone(Clone(m)).id = m.id /\ Clone(Clone(m)).cell = m.cell
          /\ GetsAll(Clone(Clone(m)).body) /\ Clone(Clone(m)).body.wrapped
      BY <1>2, <2>2, <2>4
    <2> QED
      BY <1>16, <1>17, <2>1, <2>3, <2>4, <2>5 DEF OriginalKept, QueuedKept, WorkingKept, GetsAll
  <1>20. InKept(x, side[x])' /\ OutKept(x, side[x])'
    <2>1. "out" \notin pending'[x][side[x]]
      <3>1. Queue(x, "in") /\ "in" \in {"in", "out"}
        BY DEF RunIn
      <3>2. pending'[x][side[x]] # pending[x][side[x]] => pending'[x][side[x]] = pending[x][side[x]] \cup {"in"}
        BY <1>1, <3>1, QueueType
      <3> QED
        BY <1>15, <3>2
    <2> QED
      BY <1>10, <1>12, <1>15, <2>1 DEF InKept, OutKept
  <1>21. UrlKept(x)' /\ IdKept(x)'
    <2>1. UrlKept(x)'
      <3>1. cur[x]["request"] = "working" => cur'[x]["request"] = "working"
        BY <1>7 DEF Sides
      <3>2. pc'[x] # "idle" /\ pc[x] # "idle"
        BY <1>10 DEF TypeOK
      <3> QED
        BY <1>12, <3>1, <3>2 DEF KeptAt, UrlKept
    <2>2. CASE side[x] = "request"
      BY <1>10, <2>1, <2>2 DEF IdKept
    <2>3. CASE side[x] = "response"
      <3>1. obj'[x]["request"] = obj[x]["request"] /\ cur'[x]["request"] = cur[x]["request"]
        BY <1>5, <1>7, <2>3 DEF Sides
      <3>2. obj'[x]["response"]["original"].id = m.id
        BY <1>1, <1>5, <1>17, <2>3, WrappedType DEF Sides
      <3> QED
        BY <1>12, <2>1, <2>3, <3>1, <3>2 DEF KeptAt, IdKept, m
    <2> QED
      BY <1>1, <2>1, <2>2, <2>3 DEF Sides
  <1>22. KeptAt(x)'
    <2>1. side' = side
      BY <1>10
    <2>2. \A s \in Sides : s = side[x] =>
            /\ OriginalKept(x, s)' /\ QueuedKept(x, s)' /\ WorkingKept(x, s)'
            /\ InKept(x, s)' /\ OutKept(x, s)'
      BY <1>19, <1>20, <2>1
    <2> QED
      BY <1>18, <1>21, <2>2 DEF KeptAt
  <1> QED
    BY <1>9, <1>11, <1>22, KeptStep DEF Go


\* What every hook does: it leaves a whole message, and a response belongs to the same
\* request, or to another exchange's.
HookResult(x, v) ==
  /\ v \in Messages
  /\ side[x] = "response" => v.id \in {Current(x).id, "other"}
  /\ v.cell \in {Current(x).cell, IF side[x] = "request" THEN "plugin" ELSE "none"}
  /\ Current(x).body.wrapped /\ Current(x).body.whole => v.body.wrapped /\ GetsAll(v.body)
  /\ PutObject(x, side[x], cur[x][side[x]], v)

\* What a plugin's reply is made of.
LEMMA TakenType ==
  ASSUME NEW x, NEW w \in Taken(x), Current(x) \in Messages
  PROVE  w \in Messages /\ w.id \in {Current(x).id, "other"} /\ w.cell = Current(x).cell
  <1>1. CASE w = Current(x)
    BY <1>1
  <1>2. CASE w = [Current(x) EXCEPT !.id = "other", !.edits = <<>>]
    <2>1. w = [id |-> "other", cell |-> Current(x).cell, edits |-> <<>>, body |-> Current(x).body]
      BY <1>2 DEF Messages
    <2> QED
      BY <2>1 DEF Messages, Ids
  <1> QED
    BY <1>1, <1>2 DEF Taken

LEMMA HookObj ==
  ASSUME IInv, NEW x \in Exchanges, RunHook(x)
  PROVE  \E v : HookResult(x, v)
  <1> USE DEF IInv
  <1> DEFINE m == Current(x)
             h == Head(todo[x])
  <1>1. m \in Messages
    BY CurrentType DEF RunHook
  <1>2. h \in Hooks
    BY DEF RunHook, TypeOK
  <1> HIDE DEF h, m
  <1>3. CASE Native(x, h)
    <2>1. PICK e \in Edited(m, h), b \in {m.body, [m.body EXCEPT !.read = TRUE], Stream} :
            obj' = [obj EXCEPT ![x][side[x]][cur[x][side[x]]] = AfterHook([e EXCEPT !.body = b])]
      BY <1>3 DEF Native, m
    <2>2. /\ b \in Bodies
          /\ m.body.wrapped /\ m.body.whole => GetsAll(b) \/ (b.wrapped /\ b.whole)
      <3>1. m.body \in Bodies
        BY <1>1 DEF Messages
      <3>2. Stream \in Bodies /\ GetsAll(Stream)
        BY DEF Stream, Bodies, GetsAll
      <3> QED
        BY <2>1, <3>1, <3>2, BodyRead
    <2>3. e \in Messages /\ e.id = m.id /\ e.cell = m.cell
      <3>1. Append(m.edits, h) \in Seq(Hooks)
        BY <1>1, <1>2 DEF Messages
      <3> QED
        BY <1>1, <2>1, <3>1 DEF Edited, Messages
    <2>4. LET n == [e EXCEPT !.body = b]
          IN /\ n \in Messages /\ n.id = m.id /\ n.cell = m.cell
             /\ m.body.wrapped /\ m.body.whole => GetsAll(n.body) \/ (n.body.wrapped /\ n.body.whole)
      <3>1. [e EXCEPT !.body = b] = [id |-> e.id, cell |-> e.cell, edits |-> e.edits, body |-> b]
        BY <2>3 DEF Messages
      <3> QED
        BY <2>2, <2>3, <3>1 DEF Messages
    <2> QED
      BY <2>1, <2>4, AfterHookType DEF HookResult, PutObject, PutThree, m
  <1>4. CASE Answers(x, h)
    <2>1. PICK w \in Taken(x) :
            \E e \in {ToProto(x, w).edits, Append(ToProto(x, w).edits, h)},
               i \in {ToProto(x, w).id, "changed"},
               n \in {ToProto(x, w).ext} \cup {r.ext : r \in Requests} :
              obj' = [obj EXCEPT ![x][side[x]][cur[x][side[x]]] =
                        AfterHook(FromProto(x, [id |-> i, ext |-> n, edits |-> e], w))]
      BY <1>4 DEF Answers
    <2>2. PICK e \in {ToProto(x, w).edits, Append(ToProto(x, w).edits, h)},
               i \in {ToProto(x, w).id, "changed"},
               n \in {ToProto(x, w).ext} \cup {r.ext : r \in Requests} :
            obj' = [obj EXCEPT ![x][side[x]][cur[x][side[x]]] =
                      AfterHook(FromProto(x, [id |-> i, ext |-> n, edits |-> e], w))]
      BY <2>1
    <2>3. w \in Messages /\ w.id \in {m.id, "other"}
      BY <1>1, TakenType DEF m
    <2>4. e \in Seq(Hooks) /\ i \in Ids
      <3>1. ToProto(x, w).edits = w.edits /\ ToProto(x, w).id = w.id
        BY DEF ToProto
      <3>2. w.edits \in Seq(Hooks) /\ w.id \in Ids
        BY <2>3 DEF Messages
      <3>3. Append(w.edits, h) \in Seq(Hooks)
        BY <1>2, <3>2
      <3>4. e \in {w.edits, Append(w.edits, h)} /\ i \in {w.id, "changed"}
        BY <2>2, <3>1
      <3> QED
        BY <3>2, <3>3, <3>4 DEF Ids
    <2>5. LET a == FromProto(x, [id |-> i, ext |-> n, edits |-> e], w)
          IN /\ a \in Messages /\ GetsAll(a.body)
             /\ a.cell = IF side[x] = "request" THEN "plugin" ELSE "none"
             /\ side[x] = "response" => a.id = w.id
      BY <2>3, <2>4 DEF FromProto, Messages, Cells, Bodies, Stream, GetsAll
    <2> QED
      BY <2>2, <2>3, <2>5, AfterHookType DEF HookResult, PutObject, PutThree, m
  <1>5. CASE Gone(x, h)
    <2>1. obj' = [obj EXCEPT ![x][side[x]][cur[x][side[x]]] = AfterHook(m)]
      BY <1>5 DEF Gone, m, Current
    <2> QED
      BY <1>1, <2>1, AfterHookType DEF HookResult, PutObject, PutThree, m
  <1> QED
    BY <1>3, <1>4, <1>5 DEF RunHook, h

LEMMA HookUrl ==
  ASSUME IInv, NEW x \in Exchanges, RunHook(x)
  PROVE  /\ url' \in [Exchanges -> [Cells -> DOMAIN Lower]]
         /\ touched' \in [Exchanges -> BOOLEAN]
         /\ \A y \in Exchanges :
              /\ touched[y] => touched'[y]
              /\ ~touched'[y] => url'[y]["client"] = url[y]["client"]
  <1> USE DEF IInv
  <1> DEFINE h == Head(todo[x])
  <1>1. Current(x) \in Messages
    BY CurrentType DEF RunHook
  <1>2. Current(x).cell \in Cells /\ "plugin" \in Cells /\ "client" \in Cells
    BY <1>1 DEF Messages, Cells
  <1>3. ASSUME NEW n \in DOMAIN Lower, NEW c \in Cells, url' = [url EXCEPT ![x][c] = n]
        PROVE  /\ url' \in [Exchanges -> [Cells -> DOMAIN Lower]]
               /\ \A y \in Exchanges : y # x \/ c # "client" => url'[y]["client"] = url[y]["client"]
    BY <1>2, <1>3 DEF PutTwo, TypeOK
  <1>4. CASE UNCHANGED <<url, touched>>
    BY <1>4 DEF TypeOK
  <1>5. CASE Native(x, h) /\ ~UNCHANGED <<url, touched>>
    <2>1. PICK n \in DOMAIN Lower : url' = [url EXCEPT ![x][Current(x).cell] = n]
      BY <1>5 DEF Native
    <2>2. touched' = [touched EXCEPT ![x] = @ \/ Current(x).cell = "client"]
      BY <1>5 DEF Native
    <2>3. touched' \in [Exchanges -> BOOLEAN]
      BY <2>2 DEF TypeOK
    <2>4. \A y \in Exchanges : touched[y] => touched'[y]
      BY <2>2 DEF TypeOK
    <2>5. ~touched'[x] => Current(x).cell # "client"
      BY <2>2 DEF TypeOK
    <2> QED
      BY <1>2, <1>3, <2>1, <2>3, <2>4, <2>5
  <1>6. CASE Answers(x, h) /\ ~UNCHANGED url
    <2>1. PICK w \in Taken(x), n \in DOMAIN Lower : url' = [url EXCEPT ![x]["plugin"] = n]
      <3>1. PICK w \in Taken(x) :
              \E n \in {ToProto(x, w).ext} \cup {r.ext : r \in Requests} :
                url' = [url EXCEPT ![x]["plugin"] = n]
        BY <1>6 DEF Answers
      <3>2. ToProto(x, w).ext \in DOMAIN Lower
        BY <1>1, <1>2, TakenType DEF ToProto, TypeOK
      <3> QED
        BY <3>1, <3>2, ExchangeAssumption
    <2>3. UNCHANGED touched
      BY <1>6 DEF Answers
    <2> QED
      BY <1>2, <1>3, <2>1, <2>3 DEF TypeOK
  <1>7. CASE Answers(x, h) /\ UNCHANGED url
    BY <1>7, <1>4 DEF Answers
  <1>8. CASE Gone(x, h)
    BY <1>8, <1>4 DEF Gone
  <1> QED
    BY <1>4, <1>5, <1>6, <1>7, <1>8 DEF RunHook

\* Only the hooks of requests change URLs, and the cell of responses is nobody's.
LEMMA HookUrlKept ==
  ASSUME IInv, NEW x \in Exchanges, RunHook(x)
  PROVE  /\ side[x] = "response" => url' = url /\ touched' = touched
         /\ url'[x]["none"] = url[x]["none"]
  <1> USE DEF IInv
  <1> DEFINE h == Head(todo[x])
  <1>1. CASE side[x] = "response"
    BY <1>1 DEF RunHook, Native, Answers, Gone
  <1>2. CASE side[x] = "request"
    <2>1. Current(x).cell # "none"
      <3>1. cur[x]["request"] = "working" /\ "request" \in Sides
        BY <1>2 DEF RunHook, Present, Sides
      <3>2. WorkingKept(x, "request")
        BY <3>1 DEF Kept, KeptAt
      <3> QED
        BY <1>2, <3>1, <3>2 DEF WorkingKept, Current, CellOf
    <2>2. ASSUME NEW c, NEW n, c # "none", url' = [url EXCEPT ![x][c] = n]
          PROVE  url'[x]["none"] = url[x]["none"]
      BY <2>2 DEF TypeOK, Cells
    <2>3. CASE Native(x, h)
      BY <1>2, <2>1, <2>2, <2>3 DEF Native
    <2>4. CASE Answers(x, h)
      <3>1. PICK n : url' = [url EXCEPT ![x]["plugin"] = n]
        BY <1>2, <2>4 DEF Answers
      <3> QED
        BY <1>2, <3>1 DEF TypeOK, Cells
    <2>5. CASE Gone(x, h)
      BY <2>5 DEF Gone
    <2> QED
      BY <1>2, <2>3, <2>4, <2>5 DEF RunHook
  <1> QED
    BY <1>1, <1>2 DEF TypeOK, Sides

LEMMA RunHookIInv ==
  ASSUME IInv, NEW x \in Exchanges, RunHook(x)
  PROVE  IInv'
  <1> USE DEF IInv
  <1>1. PICK v : HookResult(x, v)
    BY HookObj
  <1>2. side[x] \in Sides /\ cur[x][side[x]] = "working" /\ "working" \in Objects
    BY DEF RunHook, TypeOK, Present, Objects
  <1>3. /\ obj' \in [Exchanges -> [Sides -> [Objects -> Messages \cup {None}]]]
        /\ \A y \in Exchanges, s \in Sides, o \in Objects :
             obj'[y][s][o] = IF y = x /\ s = side[x] /\ o = "working" THEN v ELSE obj[y][s][o]
    BY <1>1, <1>2, PutObjectType DEF HookResult
  <1>4. Head(todo[x]) \in Hooks /\ Tail(todo[x]) \in Seq(Hooks)
    BY DEF RunHook, TypeOK
  <1>5. ran' \in [Exchanges -> [Sides -> Seq(Hooks)]]
    <2>1. Append(ran[x][side[x]], Head(todo[x])) \in Seq(Hooks)
      BY <1>2, <1>4 DEF TypeOK
    <2> QED
      BY <1>2, <2>1 DEF PutTwo, RunHook, TypeOK
  <1>6. todo' \in [Exchanges -> Seq(Hooks)]
    BY <1>4 DEF RunHook, TypeOK
  <1>7. TypeOK'
    BY <1>3, <1>5, <1>6, HookUrl DEF RunHook, TypeOK, queueVars
  <1>8. Present'
    <2>1. UNCHANGED <<pc, side, cur, pending>>
      BY DEF RunHook, queueVars
    <2>2. v \in Messages /\ v # None
      BY <1>1, NoneAssumption DEF HookResult
    <2>3. \A y \in Exchanges, s \in Sides :
            /\ obj'[y][s]["original"] = obj[y][s]["original"]
            /\ obj'[y][s]["queued"] = obj[y][s]["queued"]
            /\ obj'[y][s]["working"] = obj[y][s]["working"] \/ obj'[y][s]["working"] = v
      BY <1>3 DEF Objects
    <2>4. \A y \in Exchanges, s \in Sides : Has(y, s)' <=> Has(y, s)
      BY <2>1 DEF Has
    <2> HIDE DEF IInv
    <2>5. Present
      BY DEF IInv
    <2> QED
      BY <2>1, <2>2, <2>3, <2>4, <2>5 DEF Present
  <1>9. /\ KeptAt(x) /\ pc[x] = "hooks"
        /\ UNCHANGED <<pc, side, asked, cur, pending, shown, sent>>
    BY DEF RunHook, Kept, queueVars
  <1>10. ASSUME NEW s \in Sides
         PROVE  (Has(x, s)' <=> Has(x, s)) /\ (Final(x, s)' <=> Final(x, s))
    BY <1>9 DEF Has, Final
  <1>11. ASSUME NEW s \in Sides, s # side[x]
         PROVE  /\ OriginalKept(x, s)' /\ QueuedKept(x, s)' /\ WorkingKept(x, s)'
                /\ InKept(x, s)' /\ OutKept(x, s)'
    <2>1. /\ OriginalKept(x, s) /\ QueuedKept(x, s) /\ WorkingKept(x, s)
          /\ InKept(x, s) /\ OutKept(x, s)
      BY <1>9 DEF KeptAt
    <2>2. \A o \in Objects : obj'[x][s][o] = obj[x][s][o]
      BY <1>3, <1>11
    <2>3. AsReceived(x, s)' = AsReceived(x, s)
      BY <1>9, <2>2 DEF AsReceived, Objects
    <2>4. /\ obj'[x][s]["original"] = obj[x][s]["original"]
          /\ obj'[x][s]["queued"] = obj[x][s]["queued"]
          /\ obj'[x][s]["working"] = obj[x][s]["working"]
      BY <2>2 DEF Objects
    <2>5. OriginalKept(x, s)' /\ QueuedKept(x, s)' /\ WorkingKept(x, s)'
      BY <1>9, <1>10, <2>1, <2>4 DEF OriginalKept, QueuedKept, WorkingKept
    <2>6. CASE side[x] = "response"
      <3>1. url' = url /\ touched' = touched
        BY <2>6, HookUrlKept
      <3>2. Ends(x, s)' = Ends(x, s)
        BY <1>9, <2>2, <3>1 DEF Ends, TypeOK
      <3> QED
        BY <1>9, <1>10, <2>1, <2>3, <2>5, <3>1, <3>2 DEF InKept, OutKept
    <2>7. CASE side[x] = "request"
      <3>1. ~Has(x, s)
        BY <1>11, <2>7 DEF Has
      <3>2. ~Final(x, s) /\ cur[x][s] # "working"
        BY <3>1 DEF Final, Present
      <3> QED
        BY <1>9, <1>10, <2>1, <2>5, <3>2 DEF InKept, OutKept
    <2> QED
      BY <2>6, <2>7 DEF TypeOK, Sides
  <1>12. ASSUME NEW s \in Sides, s = side[x]
         PROVE  /\ OriginalKept(x, s)' /\ QueuedKept(x, s)' /\ WorkingKept(x, s)'
                /\ InKept(x, s)' /\ OutKept(x, s)'
    <2>1. /\ OriginalKept(x, s) /\ QueuedKept(x, s) /\ WorkingKept(x, s)
          /\ InKept(x, s) /\ OutKept(x, s)
      BY <1>9 DEF KeptAt
    <2>2. /\ obj'[x][s]["original"] = obj[x][s]["original"]
          /\ obj'[x][s]["queued"] = obj[x][s]["queued"]
          /\ obj'[x][s]["working"] = v
      BY <1>3, <1>12 DEF Objects
    <2>3. Current(x) = obj[x][s]["working"] /\ cur[x][s] = "working"
      BY <1>2, <1>12 DEF Current
    <2>4. AsReceived(x, s)' = AsReceived(x, s)
      BY <1>9, <2>2 DEF AsReceived
    <2>5. OriginalKept(x, s)' /\ QueuedKept(x, s)'
      BY <1>9, <1>10, <2>1, <2>2 DEF OriginalKept, QueuedKept
    <2>6. WorkingKept(x, s)'
      <3>1. /\ v.body.wrapped /\ GetsAll(v.body)
            /\ v.cell \in {CellOf(s), IF s = "request" THEN "plugin" ELSE "none"}
            /\ s = "response" => v.id \in {obj[x][s]["original"].id, "other"}
        BY <1>1, <1>12, <2>1, <2>3 DEF HookResult, WorkingKept
      <3> QED
        BY <1>9, <2>2, <3>1 DEF WorkingKept, GetsAll
    <2>7. touched[x] => touched'[x]
      BY HookUrl
    <2>8. ~Final(x, s)
      BY <1>9, <1>12 DEF Final
    <2> QED
      BY <1>9, <1>10, <2>1, <2>4, <2>5, <2>6, <2>7, <2>8 DEF InKept, OutKept
  <1>13. UrlKept(x)' /\ IdKept(x)'
    <2>1. UrlKept(x) /\ IdKept(x) /\ cur[x][side[x]] = "working"
      BY <1>2, <1>9 DEF KeptAt
    <2>2. UrlKept(x)'
      <3>1. CASE side[x] = "request"
        BY <1>9, <2>1, <3>1, HookUrl, HookUrlKept DEF UrlKept
      <3>2. CASE side[x] = "response"
        <4>1. url' = url /\ touched' = touched
          BY <3>2, HookUrlKept
        <4> QED
          BY <1>9, <2>1, <4>1 DEF UrlKept
      <3> QED
        BY <1>2, <3>1, <3>2 DEF Sides
    <2>3. IdKept(x)'
      <3>1. CASE side[x] = "response"
        <4>1. /\ obj'[x]["response"]["original"] = obj[x]["response"]["original"]
              /\ \A o \in Objects : obj'[x]["request"][o] = obj[x]["request"][o]
          BY <1>3, <3>1 DEF Sides, Objects
        <4>2. cur[x]["request"] \in Objects
          BY DEF TypeOK, Sides
        <4> QED
          BY <1>9, <2>1, <4>1, <4>2 DEF IdKept
      <3> QED
        BY <1>9, <3>1 DEF IdKept
    <2> QED
      BY <2>2, <2>3
  <1>14. KeptAt(x)'
    BY <1>11, <1>12, <1>13 DEF KeptAt
  <1> QED
    BY <1>7, <1>8, <1>14, KeptStep DEF Go

LEMMA SendIInv ==
  ASSUME IInv, NEW x \in Exchanges, Send(x)
  PROVE  IInv'
  <1> USE DEF IInv
  <1>1. Current(x) \in Messages /\ side[x] \in Sides /\ cur[x][side[x]] \in Objects
    BY CurrentType DEF Send, TypeOK
  <1>2. Read(x, Current(x)) \in Contents
    BY <1>1, ReadType DEF TypeOK
  <1>3. sent' \in [Exchanges -> [Sides -> Contents \cup {None}]]
    BY <1>1, <1>2 DEF PutTwo, Send, TypeOK
  <1> DEFINE v == [Current(x) EXCEPT !.body.read = TRUE]
  <1>4. v \in Messages
    BY <1>1 DEF Messages, Bodies
  <1>5. PutObject(x, side[x], cur[x][side[x]], v)
    BY DEF Send, Current, PutObject, PutThree
  <1> HIDE DEF v
  <1>6. /\ obj' \in [Exchanges -> [Sides -> [Objects -> Messages \cup {None}]]]
        /\ \A y \in Exchanges, s \in Sides, o \in Objects :
             obj'[y][s][o] = IF y = x /\ s = side[x] /\ o = cur[x][side[x]] THEN v ELSE obj[y][s][o]
    BY <1>1, <1>4, <1>5, PutObjectType
  <1>7. /\ pc' \in [Exchanges -> Places]
        /\ \A y \in Exchanges : y # x => pc'[y] = pc[y]
        /\ pc[x] = "sending" /\ pc'[x] \in {"waiting", "answered"}
        /\ pc'[x] = "waiting" => side[x] = "request"
        /\ UNCHANGED <<side, cur, pending>>
    BY DEF Send, TypeOK, Places, queueVars
  <1>8. TypeOK'
    BY <1>3, <1>6, <1>7 DEF Send, TypeOK, queueVars
  <1>9. Present'
    <2>1. \A s \in Sides : cur[x][s] \in {"original", "working"} /\ "queued" \in Objects
      BY DEF Present, Objects
    <2>2. \A y \in Exchanges, s \in Sides : obj'[y][s]["queued"] = obj[y][s]["queued"]
      BY <1>1, <1>6, <2>1
    <2> QED
      <3>1. \A y \in Exchanges, s \in Sides : Has(y, s)' <=> Has(y, s)
        BY <1>7 DEF Has
      <3>2. \A y \in Exchanges, s \in Sides, u \in Objects :
              obj[y][s][u] \in Messages => obj'[y][s][u] \in Messages
        BY <1>4, <1>6
      <3>3. \A y \in Exchanges : pc'[y] \in {"idle", "waiting", "asking", "pipelines", "hooks"} =>
              pc'[y] = pc[y] \/ (pc'[y] = "waiting" /\ side[y] = "request")
        BY <1>7
      <3> QED
        BY <1>7, <2>2, <3>1, <3>2, <3>3 DEF Present, Objects
  <1>10. /\ KeptAt(x) /\ UNCHANGED <<asked, url, touched, shown>>
         /\ sent' = PutTwo(sent, x, side[x], Read(x, Current(x)))
    BY DEF Send, Kept, PutTwo, queueVars
  <1>11. /\ sent'[x][side[x]] = Read(x, Current(x)) /\ sent'[x][side[x]] # None
         /\ \A s \in Sides : s # side[x] => sent'[x][s] = sent[x][s]
    BY <1>1, <1>2, <1>10, NoneAssumption DEF PutTwo, TypeOK
  <1>12. ASSUME NEW s \in Sides
         PROVE  /\ Has(x, s)' <=> Has(x, s)
                /\ Final(x, s)' <=> Final(x, s)
    BY <1>7 DEF Has, Final
  <1>13. /\ v.id = Current(x).id /\ v.cell = Current(x).cell /\ v.edits = Current(x).edits
         /\ v.body.wrapped = Current(x).body.wrapped /\ v.body.whole = Current(x).body.whole
    BY <1>1 DEF v, Messages, Bodies
  <1>14. Current(x) = obj[x][side[x]][cur[x][side[x]]]
    BY DEF Current
  <1>15. \A s \in Sides, o \in Objects :
           /\ obj'[x][s][o].id = obj[x][s][o].id /\ obj'[x][s][o].cell = obj[x][s][o].cell
           /\ obj'[x][s][o].edits = obj[x][s][o].edits
           /\ obj'[x][s][o].body.wrapped = obj[x][s][o].body.wrapped
           /\ obj'[x][s][o].body.whole = obj[x][s][o].body.whole
           /\ obj'[x][s][o] = obj[x][s][o] \/ (s = side[x] /\ o = cur[x][s])
    BY <1>6, <1>13, <1>14
  <1>16. \A s \in Sides : cur[x][s] \in {"original", "working"}
    BY DEF Present
  <1>17. ASSUME NEW s \in Sides
         PROVE  /\ Ends(x, s)' = Ends(x, s) /\ AsReceived(x, s)' = AsReceived(x, s)
    <2>1. AsReceived(x, s)' = AsReceived(x, s)
      BY <1>10, <1>15 DEF AsReceived, Objects
    <2> DEFINE c == cur[x][s]
    <2>2. /\ obj'[x][s][c].id = obj[x][s][c].id /\ obj'[x][s][c].cell = obj[x][s][c].cell
          /\ obj'[x][s][c].edits = obj[x][s][c].edits
      BY <1>15 DEF TypeOK
    <2>3. cur'[x][s] = c /\ url' = url
      BY <1>7, <1>10
    <2> HIDE DEF c
    <2>4. Ends(x, s)' = [id |-> obj'[x][s][c].id, ext |-> url[x][obj'[x][s][c].cell],
                         edits |-> obj'[x][s][c].edits, whole |-> TRUE]
      BY <2>3 DEF Ends
    <2>5. Ends(x, s) = [id |-> obj[x][s][c].id, ext |-> url[x][obj[x][s][c].cell],
                        edits |-> obj[x][s][c].edits, whole |-> TRUE]
      BY DEF Ends, c
    <2> QED
      BY <2>1, <2>2, <2>4, <2>5
  <1>18. Read(x, Current(x)) = Ends(x, side[x])
    <2>1. sent[x][side[x]] = None /\ Has(x, side[x])
      BY <1>1, <1>7, <1>10 DEF KeptAt, OutKept, Has
    <2>2. GetsAll(Current(x).body)
      <3>1. OriginalKept(x, side[x]) /\ WorkingKept(x, side[x])
        BY <1>1, <1>10 DEF KeptAt
      <3> QED
        BY <1>1, <1>14, <1>16, <2>1, <3>1 DEF OriginalKept, WorkingKept, GetsAll
    <2>3. GetsAll(Current(x).body) = TRUE
      BY <2>2 DEF GetsAll
    <2> QED
      BY <1>14, <2>3 DEF Read, Ends
  <1>19. ASSUME NEW s \in Sides
         PROVE  OriginalKept(x, s)' /\ QueuedKept(x, s)' /\ WorkingKept(x, s)'
    <2>1. OriginalKept(x, s) /\ QueuedKept(x, s) /\ WorkingKept(x, s)
      BY <1>10 DEF KeptAt
    <2>2. "original" \in Objects /\ "queued" \in Objects /\ "working" \in Objects
      BY DEF Objects
    <2>3. OriginalKept(x, s)'
      BY <1>11, <1>12, <1>15, <2>1, <2>2 DEF OriginalKept
    <2>4. QueuedKept(x, s)'
      BY <1>7, <1>15, <2>1, <2>2 DEF QueuedKept
    <2>5. WorkingKept(x, s)'
      BY <1>7, <1>11, <1>15, <2>1, <2>2 DEF WorkingKept
    <2> QED
      BY <2>3, <2>4, <2>5
  <1>20. ASSUME NEW s \in Sides
         PROVE  InKept(x, s)' /\ OutKept(x, s)'
    <2>1. InKept(x, s) /\ OutKept(x, s)
      BY <1>10 DEF KeptAt
    <2>2. InKept(x, s)'
      BY <1>7, <1>10, <1>17, <2>1 DEF InKept
    <2>3. CASE s = side[x]
      <3>1. Final(x, s)' /\ ~(s = side'[x] /\ pc'[x] = "sending")
        BY <1>7, <1>12, <2>3 DEF Final, Has
      <3> QED
        BY <1>7, <1>10, <1>11, <1>12, <1>17, <1>18, <2>1, <2>2, <2>3, <3>1 DEF OutKept
    <2>4. CASE s # side[x]
      BY <1>7, <1>10, <1>11, <1>12, <1>17, <2>1, <2>2, <2>4 DEF OutKept
    <2> QED
      BY <2>3, <2>4
  <1>21. UrlKept(x)' /\ IdKept(x)'
    <2>1. UrlKept(x) /\ IdKept(x)
      BY <1>10 DEF KeptAt
    <2>2. UrlKept(x)'
      BY <1>7, <1>10, <2>1 DEF UrlKept
    <2>3. /\ obj'[x]["response"]["original"].id = obj[x]["response"]["original"].id
          /\ obj'[x]["request"][cur[x]["request"]].id = obj[x]["request"][cur[x]["request"]].id
      <3>1. /\ cur[x]["request"] \in Objects /\ "original" \in Objects
            /\ "request" \in Sides /\ "response" \in Sides
        BY DEF TypeOK, Sides, Objects
      <3> QED
        BY <1>15, <3>1
    <2> QED
      BY <1>7, <2>1, <2>2, <2>3 DEF IdKept
  <1>22. KeptAt(x)'
    BY <1>19, <1>20, <1>21 DEF KeptAt
  <1> QED
    BY <1>8, <1>9, <1>22, KeptStep DEF Go

LEMMA RespondIInv ==
  ASSUME IInv, NEW x \in Exchanges, Respond(x)
  PROVE  IInv'
  <1> USE DEF IInv
  <1>1. Current(x) \in Messages
    BY CurrentType DEF Respond, RespondWith
  <1> DEFINE v == Received(x, Current(x).id, "none")
  <1>2. v \in Messages
    BY <1>1 DEF Received, Stream, Messages, Bodies, Cells
  <1>3. PutObject(x, "response", "original", v)
    BY DEF Respond, RespondWith, PutObject, PutThree
  <1> HIDE DEF v
  <1>4. /\ obj' \in [Exchanges -> [Sides -> [Objects -> Messages \cup {None}]]]
        /\ \A y \in Exchanges, s \in Sides, o \in Objects :
             obj'[y][s][o] = IF y = x /\ s = "response" /\ o = "original" THEN v ELSE obj[y][s][o]
    BY <1>2, <1>3, PutObjectType DEF Sides, Objects
  <1>5. TypeOK'
    BY <1>4 DEF Respond, RespondWith, TypeOK, Places, Sides, queueVars
  <1>6. side[x] = "request" /\ cur[x]["response"] = "original"
    BY DEF Respond, RespondWith, Present, Has, Sides
  <1>7. Present'
    BY <1>2, <1>4, <1>6 DEF Respond, RespondWith, Present, Has, TypeOK, Sides, Objects, queueVars
  <1>8. /\ KeptAt(x) /\ pc[x] = "waiting" /\ pc'[x] = "asking" /\ side'[x] = "response"
        /\ UNCHANGED <<asked, url, touched, cur, pending, shown, sent>>
    BY DEF Respond, RespondWith, Kept, TypeOK, queueVars
  <1>9. ~Has(x, "response") /\ ~Final(x, "response") /\ Final(x, "request") /\ Final(x, "request")'
    BY <1>6, <1>8 DEF Has, Final
  <1>10. /\ obj'[x]["response"]["original"] = v
         /\ \A o \in Objects : obj'[x]["request"][o] = obj[x]["request"][o]
    BY <1>4 DEF Sides, Objects
  <1>11. /\ OriginalKept(x, "request")' /\ QueuedKept(x, "request")' /\ WorkingKept(x, "request")'
         /\ InKept(x, "request")' /\ OutKept(x, "request")'
    <2>1. /\ OriginalKept(x, "request") /\ QueuedKept(x, "request") /\ WorkingKept(x, "request")
          /\ InKept(x, "request") /\ OutKept(x, "request")
      BY <1>8 DEF KeptAt, Sides
    <2>2. Has(x, "request") /\ Has(x, "request")'
      BY <1>6, <1>8 DEF Has
    <2>3. AsReceived(x, "request")' = AsReceived(x, "request")
      BY <1>8, <1>10 DEF AsReceived, Objects
    <2>4. Ends(x, "request")' = Ends(x, "request")
      <3>1. cur[x]["request"] \in Objects
        BY DEF TypeOK, Sides
      <3>2. obj'[x]["request"][cur[x]["request"]] = obj[x]["request"][cur[x]["request"]]
        BY <1>10, <3>1
      <3> QED
        BY <1>8, <3>2 DEF Ends
    <2>5. "original" \in Objects /\ "queued" \in Objects /\ "working" \in Objects
      BY DEF Objects
    <2>6. OriginalKept(x, "request")' /\ QueuedKept(x, "request")' /\ WorkingKept(x, "request")'
      BY <1>8, <1>10, <2>1, <2>2, <2>5 DEF OriginalKept, QueuedKept, WorkingKept
    <2> QED
      BY <1>8, <1>9, <2>1, <2>3, <2>4, <2>6 DEF InKept, OutKept
  <1>12. /\ OriginalKept(x, "response")' /\ QueuedKept(x, "response")' /\ WorkingKept(x, "response")'
         /\ InKept(x, "response")' /\ OutKept(x, "response")'
    <2>1. OriginalKept(x, "response")'
      BY <1>10 DEF OriginalKept, v, Received, CellOf, Stream, GetsAll
    <2>2. InKept(x, "response") /\ OutKept(x, "response") /\ pending[x]["response"] = {}
      BY <1>6, <1>8 DEF KeptAt, Present, Sides
    <2> QED
      BY <1>6, <1>8, <1>9, <2>1, <2>2 DEF QueuedKept, WorkingKept, InKept, OutKept
  <1>13. UrlKept(x)' /\ IdKept(x)'
    <2>1. UrlKept(x)'
      BY <1>8 DEF KeptAt, UrlKept
    <2>2. v.id = obj[x]["request"][cur[x]["request"]].id
      BY <1>6 DEF v, Received, Current
    <2>3. cur[x]["request"] \in Objects
      BY DEF TypeOK, Sides
    <2> QED
      BY <1>8, <1>10, <2>1, <2>2, <2>3 DEF IdKept
  <1>14. KeptAt(x)'
    BY <1>11, <1>12, <1>13 DEF KeptAt, Sides
  <1> QED
    BY <1>5, <1>7, <1>14, KeptStep DEF Go

LEMMA ShowIInv ==
  ASSUME IInv, NEW x \in Exchanges, NEW s \in Sides, NEW i \in {"in", "out"}, Show(x, s, i)
  PROVE  IInv'
  <1> USE DEF IInv
  <1> DEFINE o == IF i = "in" THEN "queued" ELSE cur[x][s]
             m == obj[x][s][o]
  <1>1. m \in Messages /\ o \in Objects
    BY DEF Show, Present, Objects
  <1>2. /\ shown' = PutThree(shown, x, s, i, Read(x, Clone(m)))
        /\ PutObject(x, s, o, Wrapped(m))
        /\ pending' = PutTwo(pending, x, s, pending[x][s] \ {i})
    BY DEF Show, PutObject, PutThree, PutTwo
  <1> HIDE DEF o, m
  <1>3. Wrapped(m) \in Messages /\ Read(x, Clone(m)) \in Contents
    BY <1>1, WrappedType, CloneType, ReadType DEF TypeOK
  <1>4. /\ obj' \in [Exchanges -> [Sides -> [Objects -> Messages \cup {None}]]]
        /\ \A y \in Exchanges, t \in Sides, u \in Objects :
             obj'[y][t][u] = IF y = x /\ t = s /\ u = o THEN Wrapped(m) ELSE obj[y][t][u]
    BY <1>1, <1>2, <1>3, PutObjectType
  <1>5. shown' \in [Exchanges -> [Sides -> [{"in", "out"} -> Contents \cup {None}]]]
    <2> DEFINE V == Contents \cup {None}
    <2>1. shown \in [Exchanges -> [Sides -> [{"in", "out"} -> V]]] /\ Read(x, Clone(m)) \in V
      BY <1>3 DEF TypeOK
    <2> HIDE DEF V
    <2>2. PutThree(shown, x, s, i, Read(x, Clone(m))) \in [Exchanges -> [Sides -> [{"in", "out"} -> V]]]
      BY <2>1, PutThreeType
    <2> QED
      BY <1>2, <2>2 DEF V
  <1>6. /\ pending' \in [Exchanges -> [Sides -> SUBSET {"in", "out"}]]
        /\ \A y \in Exchanges, t \in Sides : pending'[y][t] # {} => pending[y][t] # {}
    <2> DEFINE V == SUBSET {"in", "out"}
    <2>1. pending[x][s] \ {i} \in V /\ pending \in [Exchanges -> [Sides -> V]]
      BY DEF TypeOK
    <2>2. pending[x][s] # {}
      BY DEF Show
    <2> HIDE DEF V
    <2>3. /\ PutTwo(pending, x, s, pending[x][s] \ {i}) \in [Exchanges -> [Sides -> V]]
          /\ \A y \in Exchanges, t \in Sides :
               PutTwo(pending, x, s, pending[x][s] \ {i})[y][t] =
                 IF y = x /\ t = s THEN pending[x][s] \ {i} ELSE pending[y][t]
      BY <2>1 DEF PutTwo
    <2> QED
      BY <1>2, <2>2, <2>3 DEF V
  <1>7. TypeOK'
    BY <1>4, <1>5, <1>6 DEF Show, TypeOK
  <1>8. UNCHANGED <<pc, side, cur>>
    BY DEF Show
  <1>9. Present'
    <2>1. cur[x][s] = "working"
      BY DEF Show, Present
    <2>2. \A y \in Exchanges, t \in Sides :
            obj'[y][t]["queued"] = obj[y][t]["queued"] \/ (y = x /\ t = s)
      BY <1>4 DEF Objects
    <2>3. \A y \in Exchanges, t \in Sides : obj'[y][t]["queued"] # None => cur[y][t] = "working"
      BY <2>1, <2>2 DEF Present
    <2>4. \A y \in Exchanges, t \in Sides : Has(y, t)' <=> Has(y, t)
      BY <1>8 DEF Has
    <2>5. \A y \in Exchanges, t \in Sides, u \in Objects :
            obj[y][t][u] \in Messages => obj'[y][t][u] \in Messages
      BY <1>3, <1>4
    <2> QED
      BY <1>6, <1>8, <2>3, <2>4, <2>5 DEF Present, Objects
  <1>10. KeptAt(x) /\ UNCHANGED <<asked, url, touched, sent>> /\ pending[x][s] # {}
    BY DEF Show, Kept
  <1>11. cur[x][s] = "working" /\ (o = IF i = "in" THEN "queued" ELSE "working") /\ m = obj[x][s][o]
    BY <1>10 DEF Present, o, m
  <1>12. /\ Wrapped(m).id = m.id /\ Wrapped(m).cell = m.cell /\ Wrapped(m).edits = m.edits
         /\ GetsAll(Wrapped(m).body) <=> GetsAll(m.body)
         /\ m.body.wrapped => Wrapped(m) = m
         /\ Clone(m).id = m.id /\ Clone(m).cell = m.cell /\ Clone(m).edits = m.edits
         /\ GetsAll(m.body) \/ (m.body.wrapped /\ m.body.whole) => GetsAll(Clone(m).body)
    BY <1>1, WrappedType, CloneType
  <1>13. /\ OriginalKept(x, s) /\ QueuedKept(x, s) /\ WorkingKept(x, s) /\ InKept(x, s) /\ OutKept(x, s)
         /\ UrlKept(x)
    BY <1>10 DEF KeptAt
  <1>14. /\ i = "in" => m.id = obj[x][s]["original"].id /\ m.cell = CellOf(s) /\ m.edits = <<>> /\ GetsAll(m.body)
         /\ i = "out" => m.body.wrapped /\ m.body.whole
    BY <1>11, <1>13 DEF QueuedKept, WorkingKept
  <1>15. GetsAll(Clone(m).body)
    BY <1>12, <1>14
  <1>16. \A t \in Sides, u \in Objects :
           /\ obj'[x][t][u].id = obj[x][t][u].id /\ obj'[x][t][u].cell = obj[x][t][u].cell
           /\ obj'[x][t][u].edits = obj[x][t][u].edits
           /\ GetsAll(obj'[x][t][u].body) <=> GetsAll(obj[x][t][u].body)
           /\ u = "working" => obj'[x][t][u] = obj[x][t][u]
    BY <1>4, <1>11, <1>12, <1>14
  <1>17. ASSUME NEW t \in Sides
         PROVE  /\ Has(x, t)' = Has(x, t) /\ Final(x, t)' = Final(x, t)
                /\ cur'[x][t] = cur[x][t] /\ cur[x][t] \in Objects
                /\ Ends(x, t)' = Ends(x, t) /\ AsReceived(x, t)' = AsReceived(x, t)
    <2>1. cur'[x][t] = cur[x][t] /\ cur[x][t] \in Objects /\ "original" \in Objects
      BY <1>8 DEF TypeOK, Objects
    <2>2. Has(x, t)' = Has(x, t) /\ Final(x, t)' = Final(x, t)
      BY <1>8 DEF Has, Final
    <2>3. Ends(x, t)' = Ends(x, t)
      <3> DEFINE c == cur[x][t]
      <3>1. /\ obj'[x][t][c].id = obj[x][t][c].id /\ obj'[x][t][c].cell = obj[x][t][c].cell
            /\ obj'[x][t][c].edits = obj[x][t][c].edits
        BY <1>16, <2>1
      <3>2. cur'[x][t] = c /\ url' = url
        BY <1>10, <2>1
      <3> HIDE DEF c
      <3>3. Ends(x, t)' = [id |-> obj'[x][t][c].id, ext |-> url[x][obj'[x][t][c].cell],
                           edits |-> obj'[x][t][c].edits, whole |-> TRUE]
        BY <3>2 DEF Ends
      <3>4. Ends(x, t) = [id |-> obj[x][t][c].id, ext |-> url[x][obj[x][t][c].cell],
                          edits |-> obj[x][t][c].edits, whole |-> TRUE]
        BY DEF Ends, c
      <3> QED
        BY <3>1, <3>3, <3>4
    <2>4. AsReceived(x, t)' = AsReceived(x, t)
      BY <1>10, <1>16, <2>1 DEF AsReceived
    <2> QED
      BY <2>1, <2>2, <2>3, <2>4
  <1>18. /\ shown'[x][s][i] = Read(x, Clone(m))
         /\ \A t \in Sides, j \in {"in", "out"} : shown'[x][t][j] = shown[x][t][j] \/ (t = s /\ j = i)
    <2> DEFINE r == Read(x, Clone(m))
               w == [shown[x][s] EXCEPT ![i] = r]
    <2>1. shown[x][s] \in [{"in", "out"} -> Contents \cup {None}]
      BY DEF TypeOK
    <2>2. w[i] = r /\ \A j \in {"in", "out"} : j # i => w[j] = shown[x][s][j]
      BY <2>1
    <2>3. shown' = PutTwo(shown, x, s, w)
      BY <1>2 DEF PutThree, PutTwo
    <2> HIDE DEF r, w
    <2>4. shown'[x][s] = w /\ \A t \in Sides : t # s => shown'[x][t] = shown[x][t]
      BY <2>3 DEF PutTwo, TypeOK
    <2> QED
      BY <2>2, <2>4 DEF r
  <1>20. pending'[x][s] \subseteq pending[x][s] /\ \A t \in Sides : t # s => pending'[x][t] = pending[x][t]
    BY <1>2 DEF PutTwo, TypeOK
  <1>21. ASSUME NEW t \in Sides
         PROVE  OriginalKept(x, t)' /\ QueuedKept(x, t)' /\ WorkingKept(x, t)'
    <2>1. OriginalKept(x, t) /\ QueuedKept(x, t) /\ WorkingKept(x, t)
      BY <1>10 DEF KeptAt
    <2>2. "original" \in Objects /\ "queued" \in Objects /\ "working" \in Objects
      BY DEF Objects
    <2>3. OriginalKept(x, t)'
      BY <1>10, <1>16, <1>17, <2>1, <2>2 DEF OriginalKept
    <2>4. QueuedKept(x, t)'
      BY <1>16, <1>17, <2>1, <2>2 DEF QueuedKept
    <2>5. WorkingKept(x, t)'
      BY <1>10, <1>16, <1>17, <2>1, <2>2 DEF WorkingKept
    <2> QED
      BY <2>3, <2>4, <2>5
  <1>22. ASSUME NEW t \in Sides
         PROVE  InKept(x, t)'
    <2>1. InKept(x, t) /\ ("in" \in {"in", "out"})
      BY <1>10 DEF KeptAt
    <2>2. CASE t = s /\ i = "in"
      <3>1. /\ shown'[x][t]["in"].id = AsReceived(x, t).id /\ shown'[x][t]["in"].edits = AsReceived(x, t).edits
            /\ shown'[x][t]["in"].whole = AsReceived(x, t).whole
            /\ shown'[x][t]["in"].ext = url[x][CellOf(t)]
        <4>1. shown'[x][t]["in"] = [id |-> Clone(m).id, ext |-> url[x][Clone(m).cell],
                                    edits |-> Clone(m).edits, whole |-> GetsAll(Clone(m).body)]
          BY <1>18, <2>2 DEF Read
        <4>2. GetsAll(Clone(m).body) = TRUE
          BY <1>15 DEF GetsAll
        <4>3. /\ Clone(m).id = obj[x][t]["original"].id /\ Clone(m).cell = CellOf(t)
              /\ Clone(m).edits = <<>>
          BY <1>12, <1>14, <2>2
        <4>4. /\ AsReceived(x, t).id = obj[x][t]["original"].id
              /\ AsReceived(x, t).edits = <<>> /\ AsReceived(x, t).whole = TRUE
          BY AsReceivedBut
        <4>5. shown'[x][t]["in"].whole = TRUE
          BY <4>1, <4>2
        <4>6. /\ shown'[x][t]["in"].id = obj[x][t]["original"].id /\ shown'[x][t]["in"].edits = <<>>
              /\ shown'[x][t]["in"].ext = url[x][CellOf(t)]
          BY <4>1, <4>3
        <4> QED
          BY <4>4, <4>5, <4>6
      <3>2. pc[x] # "idle"
        BY <1>11 DEF Present, Has
      <3>3. touched[x] \/ url[x][CellOf(t)] = AsReceived(x, t).ext
        BY <1>13, <3>2 DEF UrlKept, AsReceived, CellOf
      <3>4. t = "response" => url[x][CellOf(t)] = AsReceived(x, t).ext
        BY <1>13 DEF UrlKept, AsReceived, CellOf, Sides
      <3>5. shown'[x][t]["in"] = [id |-> AsReceived(x, t).id, ext |-> shown'[x][t]["in"].ext,
                                  edits |-> AsReceived(x, t).edits, whole |-> AsReceived(x, t).whole]
        BY <1>18, <2>2, <3>1 DEF Read
      <3>6. /\ AsReceived(x, t) = [id |-> AsReceived(x, t).id, ext |-> AsReceived(x, t).ext,
                                   edits |-> AsReceived(x, t).edits, whole |-> AsReceived(x, t).whole]
            /\ \A e : [AsReceived(x, t) EXCEPT !.ext = e] =
                   [id |-> AsReceived(x, t).id, ext |-> e,
                    edits |-> AsReceived(x, t).edits, whole |-> AsReceived(x, t).whole]
        BY AsReceivedBut
      <3> QED
        BY <1>8, <1>10, <1>11, <1>17, <2>2, <3>1, <3>3, <3>5, <3>6 DEF InKept
    <2>3. CASE ~(t = s /\ i = "in")
      <3>1. shown'[x][t]["in"] = shown[x][t]["in"]
        BY <1>18, <2>1, <2>3
      <3> QED
        BY <1>10, <1>17, <2>1, <3>1 DEF InKept
    <2> QED
      BY <2>2, <2>3
  <1>23. ASSUME NEW t \in Sides
         PROVE  OutKept(x, t)'
    <2>1. OutKept(x, t) /\ "out" \in {"in", "out"}
      BY <1>10 DEF KeptAt
    <2>2. "out" \in pending'[x][t] => "out" \in pending[x][t]
      BY <1>20
    <2>3. CASE t = s /\ i = "out"
      <3>1. "out" \in pending[x][t]
        BY <2>3 DEF Show
      <3>2. shown'[x][t]["out"] = Ends(x, t)
        BY <1>11, <1>12, <1>15, <1>18, <2>3 DEF Read, Ends
      <3> QED
        BY <1>8, <1>10, <1>11, <1>17, <2>1, <2>2, <2>3, <3>1, <3>2 DEF OutKept
    <2>4. CASE ~(t = s /\ i = "out")
      <3>1. shown'[x][t]["out"] = shown[x][t]["out"]
        BY <1>18, <2>1, <2>4
      <3> QED
        BY <1>8, <1>10, <1>17, <2>1, <2>2, <3>1 DEF OutKept
    <2> QED
      BY <2>3, <2>4
  <1>24. UrlKept(x)' /\ IdKept(x)'
    <2>1. UrlKept(x)'
      BY <1>8, <1>10, <1>13 DEF UrlKept
    <2>2. IdKept(x)'
      <3>1. IdKept(x) /\ "request" \in Sides /\ "response" \in Sides /\ "original" \in Objects
        BY <1>10 DEF KeptAt, Sides, Objects
      <3> QED
        BY <1>8, <1>16, <1>17, <3>1 DEF IdKept
    <2> QED
      BY <2>1, <2>2
  <1>25. KeptAt(x)'
    BY <1>21, <1>22, <1>23, <1>24 DEF KeptAt
  <1> QED
    BY <1>7, <1>9, <1>25, KeptStep


LEMMA StepIInv == IInv /\ [Next]_vars => IInv'
  <1> SUFFICES ASSUME IInv, [Next]_vars PROVE IInv'
    OBVIOUS
  <1>1. CASE UNCHANGED vars
    <2>1. TypeOK' /\ Present'
      BY <1>1 DEF vars, IInv, TypeOK, Present, Has
    <2>2. \A y \in Exchanges : Stays(y)
      BY <1>1 DEF vars, Stays
    <2> QED
      BY <2>1, <2>2, KeptStays DEF IInv, Kept
  <1>2. CASE Quiet
    BY <1>1, <1>2 DEF Quiet
  <1> QED
    BY <1>1, <1>2, NoMessageIInv, ArriveIInv, RunInIInv, RunHookIInv, SendIInv, RespondIInv, ShowIInv
    DEF Next, Go

\* Every variable has its type.
THEOREM TypeCorrect == Spec => []TypeOK
  <1>1. IInv => TypeOK
    BY DEF IInv
  <1> QED
    BY InitIInv, StepIInv, <1>1, PTL DEF Spec

\* The hooks of RequestIn and ResponseIn see what was received, unless a hook has
\* changed the URL of the client's request in place.
THEOREM InSeesReceived == Spec => []InIsReceived
  <1>1. IInv => InIsReceived
    BY DEF IInv, Kept, KeptAt, InKept, InIsReceived
  <1> QED
    BY InitIInv, StepIInv, <1>1, PTL DEF Spec

\* The hooks of RequestOut and ResponseOut see what is sent.
THEOREM OutSeesSent == Spec => []OutIsSent
  <1>1. IInv => OutIsSent
    BY DEF IInv, Kept, KeptAt, OutKept, OutIsSent
  <1> QED
    BY InitIInv, StepIInv, <1>1, PTL DEF Spec

\* What is sent is whole, and as it was received if it was not intercepted.
THEOREM WholeIsSent == Spec => []SentIsWhole
  <1>1. ASSUME IInv PROVE SentIsWhole
    <2>1. SUFFICES ASSUME NEW x \in Exchanges, NEW s \in Sides, sent[x][s] # None
                   PROVE  /\ sent[x][s].whole
                          /\ ~Intercepted(x, s) => sent[x][s] = AsReceived(x, s)
      BY DEF SentIsWhole
    <2>2. KeptAt(x)
      BY <1>1 DEF IInv, Kept
    <2>3. Final(x, s) /\ sent[x][s] = Ends(x, s)
      BY <2>1, <2>2 DEF KeptAt, OutKept
    <2>4. sent[x][s].whole
      BY <2>3 DEF Ends
    <2>5. ASSUME ~Intercepted(x, s)
          PROVE  sent[x][s] = AsReceived(x, s)
      <3>1. cur[x][s] = "original"
        BY <1>1, <2>5, NoneAssumption DEF IInv, Present, Intercepted
      <3>2. obj[x][s]["original"].cell = CellOf(s) /\ obj[x][s]["original"].edits = <<>>
        BY <2>2, <2>3 DEF KeptAt, OriginalKept, Final
      <3>3. url[x][CellOf(s)] = IF s = "request" THEN asked[x].ext ELSE ""
        <4>1. CASE s = "request"
          <5>1. pc[x] # "idle"
            BY <1>1, <2>3 DEF Final, Has, IInv, Present
          <5> QED
            BY <2>2, <3>1, <4>1, <5>1 DEF KeptAt, UrlKept, CellOf
        <4>2. CASE s = "response"
          BY <2>2, <4>2 DEF KeptAt, UrlKept, CellOf
        <4> QED
          BY <4>1, <4>2 DEF Sides
      <3> QED
        BY <2>3, <3>1, <3>2, <3>3 DEF Ends, AsReceived
    <2> QED
      BY <2>4, <2>5
  <1> QED
    BY InitIInv, StepIInv, <1>1, PTL DEF Spec

\* The response is shown under the ID under which its request was sent; only ResponseOut
\* may show it under another exchange's, if a plugin's hook got that one's response.
THEOREM IdsAreSame == Spec => []SameId
  <1>1. ASSUME IInv PROVE SameId
    <2>1. SUFFICES ASSUME NEW x \in Exchanges, NEW i \in {"in", "out"},
                          shown[x]["request"]["out"] # None, shown[x]["response"][i] # None
                   PROVE  \/ shown[x]["response"][i].id = shown[x]["request"]["out"].id
                          \/ i = "out" /\ shown[x]["response"][i].id = "other"
      BY DEF SameId
    <2>2. KeptAt(x) /\ "request" \in Sides /\ "response" \in Sides
      BY <1>1 DEF IInv, Kept, Sides
    <2>3. shown[x]["request"]["out"] = Ends(x, "request")
      BY <2>1, <2>2 DEF KeptAt, OutKept
    <2>4. shown[x]["request"]["out"].id = obj[x]["request"][cur[x]["request"]].id
      BY <2>3 DEF Ends
    <2>5. cur[x]["response"] = "working"
      BY <2>1, <2>2 DEF KeptAt, InKept, OutKept
    <2>6. side[x] = "response"
      BY <1>1, <2>2, <2>5 DEF IInv, Present, Has
    <2>7. obj[x]["response"]["original"].id = shown[x]["request"]["out"].id
      BY <2>2, <2>4, <2>6 DEF KeptAt, IdKept
    <2>8. CASE i = "in"
      <3>1. \/ shown[x]["response"]["in"] = AsReceived(x, "response")
            \/ shown[x]["response"]["in"] =
                 [AsReceived(x, "response") EXCEPT !.ext = shown[x]["response"]["in"].ext]
        BY <2>1, <2>2, <2>8 DEF KeptAt, InKept
      <3> DEFINE e == shown[x]["response"]["in"].ext
      <3>2. [AsReceived(x, "response") EXCEPT !.ext = e].id = AsReceived(x, "response").id
        BY <2>2, AsReceivedBut
      <3>3. AsReceived(x, "response").id = obj[x]["response"]["original"].id
        BY <2>2, AsReceivedBut
      <3> QED
        BY <2>7, <2>8, <3>1, <3>2, <3>3
    <2>9. CASE i = "out"
      <3>1. shown[x]["response"]["out"] = Ends(x, "response")
        BY <2>1, <2>2, <2>9 DEF KeptAt, OutKept
      <3>2. shown[x]["response"]["out"].id = obj[x]["response"]["working"].id
        BY <2>5, <3>1 DEF Ends
      <3>3. obj[x]["response"]["working"].id \in {obj[x]["response"]["original"].id, "other"}
        BY <2>2, <2>5 DEF KeptAt, WorkingKept
      <3> QED
        BY <2>7, <2>9, <3>2, <3>3
    <2> QED
      BY <2>8, <2>9
  <1> QED
    BY InitIInv, StepIInv, <1>1, PTL DEF Spec

-----------------------------------------------------------------------------
(***************************************************************************)
(* One answer of the scope, and one list of hooks.                         *)
(***************************************************************************)

\* What the scope says of the request as the client made it.
Said(x) == IsInScope(inScope[x], [asked[x] EXCEPT !.ext = asked[x].ext])

\* The exchange is intercepted on side s.
Chosen(x, s) == cur[x][s] = "working" \/ (s = side[x] /\ pc[x] = "pipelines")

OneAnswer(x, s) ==
  ~touched[x] /\ Has(x, s) /\ ~(s = side[x] /\ pc[x] = "asking") => (Chosen(x, s) <=> Said(x))

\* The hooks that have run, followed by those that have not, are a list.
OneList(x, s) ==
  /\ ~Has(x, s) \/ (s = side[x] /\ pc[x] \in {"asking", "pipelines"}) => ran[x][s] = <<>>
  /\ s = side[x] /\ pc[x] = "hooks" => ran[x][s] \o todo[x] \in HookLists
  /\ cur[x][s] = "working" /\ Final(x, s) /\ ~(s = side[x] /\ pc[x] = "failed" /\ sent[x][s] = None) =>
       ran[x][s] \in HookLists

Once == \A x \in Exchanges, s \in Sides : OneAnswer(x, s) /\ OneList(x, s)

LEMMA InitOnce == Init => Once
  <1> SUFFICES ASSUME Init, NEW x \in Exchanges, NEW s \in Sides
               PROVE  OneAnswer(x, s) /\ OneList(x, s)
    BY DEF Once
  <1>1. pc[x] = "idle" /\ side[x] = "request" /\ cur[x][s] = "original" /\ ran[x][s] = <<>>
    BY DEF Init, PerSide
  <1>2. ~Has(x, s)
    BY <1>1 DEF Has
  <1> QED
    BY <1>1, <1>2 DEF OneAnswer, OneList

LEMMA OnceStays ==
  ASSUME NEW y \in Exchanges, NEW s \in Sides, OneAnswer(y, s), OneList(y, s), Stays(y)
  PROVE  OneAnswer(y, s)' /\ OneList(y, s)'
  <1>1. Has(y, s)' = Has(y, s) /\ Final(y, s)' = Final(y, s) /\ Chosen(y, s)' = Chosen(y, s)
    BY DEF Stays, Has, Final, Chosen
  <1>2. Said(y)' = Said(y)
    BY DEF Stays, Said
  <1> QED
    BY <1>1, <1>2 DEF Stays, OneAnswer, OneList

LEMMA AsksOnce ==
  ASSUME IInv, Once, NEW x \in Exchanges, NEW s \in Sides,
         Arrive(x) \/ Go(x) \/ \E t \in Sides, i \in {"in", "out"} : Show(x, t, i)
  PROVE  OneAnswer(x, s)'
  <1> USE DEF IInv
  <1>1. OneAnswer(x, s)
    BY DEF Once
  <1>2. /\ side[x] \in Sides
        /\ pc[x] = "asking" => cur[x][side[x]] = "original"
        /\ pc[x] \in {"idle", "waiting"} => side[x] = "request"
    BY DEF TypeOK, Present
  <1>3. pc[x] # "idle" /\ ~touched[x] => url[x]["client"] = asked[x].ext
    BY DEF Kept, KeptAt, UrlKept
  <1>4. CASE Arrive(x)
    <2>1. ~Has(x, s)' \/ (s = side'[x] /\ pc'[x] = "asking")
      BY <1>2, <1>4 DEF Arrive, Has, TypeOK
    <2> QED
      BY <2>1 DEF OneAnswer
  <1>5. CASE AskScope(x)
    <2>1. PICK f \in Scopes : inScope' = [inScope EXCEPT ![x] = f] /\ Decide(x, Ask(x, f))
      BY <1>5 DEF AskScope
    <2>2. UNCHANGED <<side, asked, url, touched, cur>> /\ pc[x] = "asking" /\ side[x] = "request"
      BY <1>5 DEF AskScope
    <2>3. pc'[x] \in {"pipelines", "sending"} /\ (pc'[x] = "pipelines" <=> Ask(x, f))
      BY <2>1 DEF Decide, TypeOK
    <2>4. inScope'[x] = f
      BY <2>1 DEF TypeOK
    <2>5. ~touched[x] => (Ask(x, f) <=> Said(x)')
      BY <1>3, <2>2, <2>4 DEF Ask, Said
    <2>6. s = "request" => (Chosen(x, s)' <=> pc'[x] = "pipelines")
      BY <1>2, <2>2 DEF Chosen
    <2>7. s = "response" => ~Has(x, s)'
      BY <2>2 DEF Has
    <2> QED
      BY <2>2, <2>3, <2>5, <2>6, <2>7 DEF OneAnswer, Sides
  <1>6. CASE AskAgain(x)
    <2>1. UNCHANGED <<side, asked, inScope, url, touched, cur>> /\ pc[x] = "asking" /\ side[x] = "response"
      BY <1>6 DEF AskAgain
    <2>2. pc'[x] \in {"pipelines", "sending"} /\ (pc'[x] = "pipelines" <=> Ask(x, inScope[x]))
      BY <1>6 DEF AskAgain, Decide, TypeOK
    <2>3. Said(x)' = Said(x)
      BY <2>1 DEF Said
    <2>4. ~touched[x] => (Ask(x, inScope[x]) <=> Said(x))
      BY <1>3, <2>1 DEF Ask, Said
    <2>5. CASE s = "response"
      <3>1. Chosen(x, s)' <=> pc'[x] = "pipelines"
        BY <1>2, <2>1, <2>5 DEF Chosen
      <3> QED
        BY <2>1, <2>2, <2>3, <2>4, <3>1 DEF OneAnswer
    <2>6. CASE s = "request"
      <3>1. Has(x, s) /\ (Chosen(x, s)' <=> Chosen(x, s)) /\ s # side[x]
        BY <2>1, <2>6 DEF Has, Chosen
      <3> QED
        BY <1>1, <2>1, <2>3, <3>1 DEF OneAnswer
    <2> QED
      BY <2>5, <2>6 DEF Sides
  <1>7. ASSUME UNCHANGED <<side, asked, inScope>>, pc[x] # "idle",
               ~(pc[x] = "asking"), touched[x] => touched'[x], Chosen(x, s)' <=> Chosen(x, s)
        PROVE  OneAnswer(x, s)'
    <2>1. Said(x)' = Said(x)
      BY <1>7 DEF Said
    <2>2. Has(x, s)' => Has(x, s)
      BY <1>7 DEF Has
    <2> QED
      BY <1>1, <1>7, <2>1, <2>2 DEF OneAnswer
  <1>8. CASE RunIn(x)
    <2>1. Chosen(x, s)' <=> Chosen(x, s)
      <3>1. cur'[x][s] = IF s = side[x] THEN "working" ELSE cur[x][s]
        BY <1>2, <1>8 DEF RunIn, TypeOK
      <3>2. pc[x] = "pipelines" /\ pc'[x] = "hooks" /\ side'[x] = side[x]
        BY <1>8 DEF RunIn, TypeOK
      <3> QED
        BY <3>1, <3>2 DEF Chosen
    <2>2. UNCHANGED <<side, asked, inScope, touched>> /\ pc[x] = "pipelines"
      BY <1>8 DEF RunIn
    <2> QED
      BY <1>7, <2>1, <2>2
  <1>9. CASE RunHook(x)
    <2>1. UNCHANGED <<pc, side, asked, inScope, cur>> /\ pc[x] = "hooks"
      BY <1>9 DEF RunHook
    <2>2. touched[x] => touched'[x]
      BY <1>9, HookUrl
    <2>3. Chosen(x, s)' <=> Chosen(x, s)
      BY <2>1 DEF Chosen
    <2> QED
      BY <1>7, <2>1, <2>2, <2>3
  <1>10. CASE HookFails(x) \/ RunOut(x) \/ Send(x) \/ Unreachable(x)
    <2>1. /\ UNCHANGED <<side, asked, inScope, touched, cur>>
          /\ pc[x] \in {"hooks", "sending", "waiting"}
          /\ pc'[x] \in {"failed", "sending", "waiting", "answered"}
      BY <1>10 DEF HookFails, RunOut, Send, Unreachable, TypeOK
    <2>2. Chosen(x, s)' <=> Chosen(x, s)
      BY <2>1 DEF Chosen
    <2> QED
      BY <1>7, <2>1, <2>2
  <1>11. CASE Respond(x)
    <2>1. UNCHANGED <<asked, inScope, touched, cur>> /\ pc[x] = "waiting" /\ pc'[x] = "asking"
      BY <1>11 DEF Respond, RespondWith, TypeOK
    <2>2. side[x] = "request" /\ side'[x] = "response"
      BY <1>2, <1>11, <2>1 DEF Respond, RespondWith, TypeOK
    <2>3. CASE s = "response"
      BY <2>1, <2>2, <2>3 DEF OneAnswer
    <2>4. CASE s = "request"
      <3>1. Has(x, s) /\ (Chosen(x, s)' <=> Chosen(x, s)) /\ Said(x)' = Said(x)
        BY <2>1, <2>2, <2>4 DEF Has, Chosen, Said
      <3> QED
        BY <1>1, <2>1, <3>1 DEF OneAnswer
    <2> QED
      BY <2>3, <2>4 DEF Sides
  <1>12. ASSUME NEW t \in Sides, NEW i \in {"in", "out"}, Show(x, t, i)
         PROVE  OneAnswer(x, s)'
    <2>1. UNCHANGED <<pc, side, asked, inScope, touched, cur>>
      BY <1>12 DEF Show
    <2>2. Said(x)' = Said(x) /\ (Chosen(x, s)' <=> Chosen(x, s)) /\ (Has(x, s)' <=> Has(x, s))
      BY <2>1 DEF Said, Chosen, Has
    <2> QED
      BY <1>1, <2>1, <2>2 DEF OneAnswer
  <1> QED
    BY <1>4, <1>5, <1>6, <1>8, <1>9, <1>10, <1>11, <1>12 DEF Go

LEMMA MoveOne ==
  ASSUME NEW a \in Seq(Hooks), NEW b \in Seq(Hooks), b # <<>>
  PROVE  Append(a, Head(b)) \o Tail(b) = a \o b
  OBVIOUS

LEMMA ListsOnce ==
  ASSUME IInv, Once, NEW x \in Exchanges, NEW s \in Sides,
         Arrive(x) \/ Go(x) \/ \E t \in Sides, i \in {"in", "out"} : Show(x, t, i)
  PROVE  OneList(x, s)'
  <1> USE DEF IInv
  <1>1. OneList(x, s) /\ OutKept(x, s)
    BY DEF Once, Kept, KeptAt
  <1>2. /\ side[x] \in Sides
        /\ pc[x] = "asking" => cur[x][side[x]] = "original"
        /\ pc[x] \in {"idle", "waiting"} => side[x] = "request"
        /\ cur[x][s] = "working" => Has(x, s)
    BY DEF TypeOK, Present
  <1>3. ran[x][s] \in Seq(Hooks) /\ todo[x] \in Seq(Hooks)
    BY DEF TypeOK
  <1>4. CASE Arrive(x)
    <2>1. ~Has(x, s) /\ cur[x][s] # "working"
      BY <1>2, <1>4 DEF Arrive, Has
    <2>2. UNCHANGED <<side, cur, ran>> /\ pc'[x] = "asking"
      BY <1>4 DEF Arrive, TypeOK
    <2> QED
      BY <1>1, <2>1, <2>2 DEF OneList
  <1>5. CASE AskScope(x) \/ AskAgain(x)
    <2>1. UNCHANGED <<side, cur, ran, todo, sent>> /\ pc[x] = "asking" /\ pc'[x] \in {"pipelines", "sending"}
      BY <1>5 DEF AskScope, AskAgain, Decide, TypeOK
    <2>2. Has(x, s)' <=> Has(x, s)
      BY <2>1 DEF Has
    <2>3. s # side[x] => (Final(x, s)' <=> Final(x, s))
      BY <2>1, <2>2 DEF Final
    <2> QED
      BY <1>1, <1>2, <2>1, <2>2, <2>3 DEF OneList
  <1>6. CASE RunIn(x)
    <2>1. /\ UNCHANGED <<side, ran, sent>> /\ pc[x] = "pipelines" /\ pc'[x] = "hooks"
          /\ todo'[x] \in HookLists
      BY <1>6 DEF RunIn, TypeOK
    <2>2. todo'[x] \in Seq(Hooks)
      BY <2>1, ExchangeAssumption
    <2>3. Has(x, s)' <=> Has(x, s)
      BY <2>1 DEF Has
    <2>4. CASE s = side[x]
      <3>1. ran'[x][s] = <<>> /\ ~Final(x, s)' /\ Has(x, s)'
        BY <1>1, <2>1, <2>4 DEF OneList, Final, Has
      <3>2. ran'[x][s] \o todo'[x] = todo'[x]
        BY <2>2, <3>1
      <3> QED
        BY <2>1, <3>1, <3>2 DEF OneList
    <2>5. CASE s # side[x]
      <3>1. cur'[x][s] = cur[x][s]
        BY <1>6, <2>5 DEF RunIn, TypeOK
      <3>2. Final(x, s)' <=> Final(x, s)
        BY <2>1, <2>3, <2>5 DEF Final
      <3> QED
        BY <1>1, <2>1, <2>3, <2>5, <3>1, <3>2 DEF OneList
    <2> QED
      BY <2>4, <2>5
  <1>7. CASE RunHook(x)
    <2>1. /\ UNCHANGED <<pc, side, cur, sent>> /\ pc[x] = "hooks" /\ todo[x] # <<>>
          /\ todo' = [todo EXCEPT ![x] = Tail(@)]
          /\ ran' = [ran EXCEPT ![x][side[x]] = Append(@, Head(todo[x]))]
      BY <1>7 DEF RunHook
    <2>2. (Has(x, s)' <=> Has(x, s)) /\ (Final(x, s)' <=> Final(x, s))
      BY <2>1 DEF Has, Final
    <2>3. CASE s = side[x]
      <3>1. ran'[x][s] = Append(ran[x][s], Head(todo[x])) /\ todo'[x] = Tail(todo[x])
        BY <2>1, <2>3 DEF TypeOK
      <3>2. ran'[x][s] \o todo'[x] = ran[x][s] \o todo[x]
        BY <1>3, <2>1, <3>1, MoveOne
      <3>3. ~Final(x, s) /\ Has(x, s)
        BY <2>1, <2>3 DEF Final, Has
      <3> QED
        BY <1>1, <2>1, <2>2, <2>3, <3>2, <3>3 DEF OneList
    <2>4. CASE s # side[x]
      <3>1. ran'[x][s] = ran[x][s]
        BY <2>1, <2>4 DEF TypeOK
      <3> QED
        BY <1>1, <2>1, <2>2, <2>4, <3>1 DEF OneList
    <2> QED
      BY <2>3, <2>4
  <1>8. CASE HookFails(x)
    <2>1. UNCHANGED <<side, cur, ran, sent>> /\ pc[x] = "hooks" /\ pc'[x] = "failed"
      BY <1>8 DEF HookFails, TypeOK
    <2>2. Has(x, s)' <=> Has(x, s)
      BY <2>1 DEF Has
    <2>3. CASE s = side[x]
      <3>1. sent[x][s] = None /\ Has(x, s)
        BY <1>1, <2>1, <2>3 DEF OutKept, Final, Has
      <3> QED
        BY <2>1, <2>2, <2>3, <3>1 DEF OneList
    <2>4. CASE s # side[x]
      <3>1. Final(x, s)' <=> Final(x, s)
        BY <2>1, <2>2, <2>4 DEF Final
      <3> QED
        BY <1>1, <2>1, <2>2, <2>4, <3>1 DEF OneList
    <2> QED
      BY <2>3, <2>4
  <1>9. CASE RunOut(x)
    <2>1. UNCHANGED <<side, cur, ran, sent>> /\ pc[x] = "hooks" /\ pc'[x] = "sending" /\ todo[x] = <<>>
      BY <1>9 DEF RunOut, TypeOK
    <2>2. Has(x, s)' <=> Has(x, s)
      BY <2>1 DEF Has
    <2>3. CASE s = side[x]
      <3>1. ran[x][s] \o todo[x] = ran[x][s]
        BY <1>3, <2>1
      <3>2. ran[x][s] \in HookLists /\ Has(x, s)
        BY <1>1, <2>1, <2>3, <3>1 DEF OneList, Has
      <3> QED
        BY <2>1, <2>2, <2>3, <3>2 DEF OneList
    <2>4. CASE s # side[x]
      <3>1. Final(x, s)' <=> Final(x, s)
        BY <2>1, <2>2, <2>4 DEF Final
      <3> QED
        BY <1>1, <2>1, <2>2, <2>4, <3>1 DEF OneList
    <2> QED
      BY <2>3, <2>4
  <1>10. CASE Send(x) \/ Unreachable(x)
    <2>1. /\ UNCHANGED <<side, cur, ran>>
          /\ pc[x] \in {"sending", "waiting"} /\ pc'[x] \in {"waiting", "answered", "failed"}
          /\ s # side[x] => sent'[x][s] = sent[x][s]
      BY <1>10 DEF Send, Unreachable, TypeOK, Places
    <2>2. (Has(x, s)' <=> Has(x, s)) /\ (Final(x, s)' <=> Final(x, s))
      BY <2>1 DEF Has, Final
    <2> QED
      BY <1>1, <2>1, <2>2 DEF OneList
  <1>11. CASE Respond(x)
    <2>1. UNCHANGED <<cur, ran, sent>> /\ pc[x] = "waiting" /\ pc'[x] = "asking"
      BY <1>11 DEF Respond, RespondWith, TypeOK
    <2>2. side[x] = "request" /\ side'[x] = "response"
      BY <1>2, <1>11, <2>1 DEF Respond, RespondWith, TypeOK
    <2>3. CASE s = "response"
      <3>1. ~Has(x, s) /\ cur[x][s] # "working"
        BY <1>2, <2>1, <2>2, <2>3 DEF Has
      <3> QED
        BY <1>1, <2>1, <2>2, <2>3, <3>1 DEF OneList
    <2>4. CASE s = "request"
      <3>1. Has(x, s) /\ Has(x, s)' /\ Final(x, s) /\ Final(x, s)'
        BY <2>1, <2>2, <2>4 DEF Has, Final
      <3> QED
        BY <1>1, <2>1, <2>2, <2>4, <3>1 DEF OneList
    <2> QED
      BY <2>3, <2>4 DEF Sides
  <1>12. ASSUME NEW t \in Sides, NEW i \in {"in", "out"}, Show(x, t, i)
         PROVE  OneList(x, s)'
    <2>1. UNCHANGED <<pc, side, cur, todo, ran, sent>>
      BY <1>12 DEF Show
    <2>2. (Has(x, s)' <=> Has(x, s)) /\ (Final(x, s)' <=> Final(x, s))
      BY <2>1 DEF Has, Final
    <2> QED
      BY <1>1, <2>1, <2>2 DEF OneList
  <1> QED
    BY <1>4, <1>5, <1>6, <1>7, <1>8, <1>9, <1>10, <1>11, <1>12 DEF Go

LEMMA StepOnce == IInv /\ Once /\ [Next]_vars => Once'
  <1> SUFFICES ASSUME IInv, Once, [Next]_vars, NEW y \in Exchanges, NEW s \in Sides
               PROVE  OneAnswer(y, s)' /\ OneList(y, s)'
    BY DEF Once
  <1>1. OneAnswer(y, s) /\ OneList(y, s)
    BY DEF Once
  <1>2. CASE UNCHANGED vars
    <2>1. Stays(y)
      BY <1>2 DEF vars, Stays
    <2> QED
      BY <1>1, <2>1, OnceStays
  <1>3. ASSUME NEW x \in Exchanges,
               Arrive(x) \/ Go(x) \/ \E t \in Sides, i \in {"in", "out"} : Show(x, t, i)
        PROVE  OneAnswer(y, s)' /\ OneList(y, s)'
    <2>1. CASE y = x
      BY <1>3, <2>1, AsksOnce, ListsOnce
    <2>2. CASE y # x
      <3>1. Stays(y)
        BY <1>3, <2>2, OthersStay DEF IInv
      <3> QED
        BY <1>1, <3>1, OnceStays
    <2> QED
      BY <2>1, <2>2
  <1> QED
    BY <1>2, <1>3 DEF Next, Quiet

\* Which sides of an exchange were intercepted.
LEMMA InterceptedIs ==
  ASSUME IInv, NEW x \in Exchanges, NEW s \in Sides
  PROVE  Intercepted(x, s) <=> cur[x][s] = "working"
  BY NoneAssumption DEF IInv, Present, Intercepted

\* A response is intercepted if and only if its request was, whatever happens to the
\* scope between them.
THEOREM BothAreIntercepted == Spec => []BothOrNeither
  <1>1. ASSUME IInv, Once PROVE BothOrNeither
    <2>1. SUFFICES ASSUME NEW x \in Exchanges, sent[x]["response"] # None, ~touched[x]
                   PROVE  Intercepted(x, "request") <=> Intercepted(x, "response")
      BY DEF BothOrNeither
    <2>2. "request" \in Sides /\ "response" \in Sides
      BY DEF Sides
    <2>3. Final(x, "response")
      BY <1>1, <2>1, <2>2 DEF IInv, Kept, KeptAt, OutKept
    <2>4. side[x] = "response" /\ pc[x] \notin {"asking", "pipelines"}
      BY <2>3 DEF Final, Has
    <2>5. Has(x, "request") /\ Has(x, "response")
      BY <2>3, <2>4 DEF Final, Has
    <2>6. (Chosen(x, "request") <=> Said(x)) /\ (Chosen(x, "response") <=> Said(x))
      BY <1>1, <2>1, <2>2, <2>4, <2>5 DEF Once, OneAnswer
    <2>7. cur[x]["request"] = "working" <=> cur[x]["response"] = "working"
      BY <2>4, <2>6 DEF Chosen
    <2> QED
      BY <1>1, <2>2, <2>7, InterceptedIs
  <1> QED
    BY InitIInv, StepIInv, InitOnce, StepOnce, <1>1, PTL DEF Spec

\* The hooks that run on a message are those of one list, all of them, in its order.
THEOREM ListsAreWhole == Spec => []WholeList
  <1>1. ASSUME IInv, Once PROVE WholeList
    <2>1. SUFFICES ASSUME NEW x \in Exchanges, NEW s \in Sides, Intercepted(x, s), sent[x][s] # None
                   PROVE  ran[x][s] \in HookLists
      BY DEF WholeList
    <2>2. cur[x][s] = "working"
      BY <1>1, <2>1, InterceptedIs
    <2>3. Final(x, s)
      BY <1>1, <2>1 DEF IInv, Kept, KeptAt, OutKept
    <2> QED
      BY <1>1, <2>1, <2>2, <2>3 DEF Once, OneList
  <1> QED
    BY InitIInv, StepIInv, InitOnce, StepOnce, <1>1, PTL DEF Spec
=============================================================================
