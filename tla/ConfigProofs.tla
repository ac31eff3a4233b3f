---------------------------- MODULE ConfigProofs ----------------------------
(***************************************************************************)
(* What GetConfig reports is what runs, after a SetConfig that succeeded   *)
(* and began when the start was over, for any callers and settings.        *)
(***************************************************************************)
EXTENDS Config, TLAPS

\* The first n parts are those of c.
FirstAre(n, c) == \A i \in 1 .. n : installed[Parts[i]] = Part(c, Parts[i])

\* The parts behind the first n are those of c, but for the provider.
RestAre(n, c) == \A i \in n + 1 .. Len(Parts) : i # 1 => installed[Parts[i]] = Part(c, Parts[i])

\* While the start is under way and nobody has called SetConfig.
StartAlone ==
  main = "starting" =>
    /\ applied = None
    /\ ~early => /\ mutex = None
                 /\ ~failed
                 /\ config = applying[Main]
                 /\ FirstAre(step[Main], config)

\* A SetConfig that met the start spoils what is known of the parts.
EarlyIsUnknown == main = "listening" /\ early => applied = None

\* A SetConfig that holds the mutex has replaced so many parts, and the others are
\* those of the last configuration that was applied.
Halfway ==
  main = "listening" /\ ~early =>
    \A a \in Callers : mutex = a =>
      /\ FirstAre(step[a], applying[a])
      /\ applied # None => RestAre(step[a], applied)

\* Between two of them.
Between ==
  Settled /\ applied # None =>
    /\ RestAre(1, applied)
    /\ ~failed => config = applied /\ FirstAre(1, applied)

NotBegun == \A a \in Callers : pc[a] \in {"idle", "waiting"} => step[a] = 0

IInv == TypeOK /\ StartAlone /\ EarlyIsUnknown /\ Halfway /\ Between /\ NotBegun

-----------------------------------------------------------------------------

\* The parts are eight different ones, and the provider is the first.
LEMMA PartsLemma ==
  /\ Len(Parts) = 8
  /\ \A i \in 1 .. 8 : Parts[i] \in PartNames
  /\ \A p \in PartNames : \E i \in 1 .. 8 : Parts[i] = p
  /\ \A i, j \in 1 .. 8 : Parts[i] = Parts[j] => i = j
  /\ Parts[1] = "ids"
  <1>1. Len(Parts) = 8
    BY DEF Parts
  <1>2. /\ Parts[1] = "ids" /\ Parts[2] = "scope"
        /\ Parts[3] = "requestIn" /\ Parts[4] = "requestMod" /\ Parts[5] = "requestOut"
        /\ Parts[6] = "responseIn" /\ Parts[7] = "responseMod" /\ Parts[8] = "responseOut"
    BY DEF Parts
  <1> QED
    BY <1>1, <1>2 DEF PartNames, Pipelines, RequestPipelines, ResponsePipelines

LEMMA ConfigurationLemma ==
  ASSUME NEW c \in Configurations
  PROVE  /\ c.settings \in Wanted
         /\ c.own = OwnHooks
         /\ c = Configuration(c.settings, OwnHooks)
         /\ \A s \in Wanted : Configuration(s, c.own) \in Configurations
  BY DEF Configurations, Configuration

\* A step of Apply extends what has been replaced by one part and keeps the others.
LEMMA InstallLemma ==
  ASSUME TypeOK, NEW a \in Appliers, Install(a)
  PROVE  /\ step[a] \in 0 .. 7
         /\ step' = [step EXCEPT ![a] = step[a] + 1]
         /\ \A i \in 1 .. 8 :
              installed'[Parts[i]] = IF i = step[a] + 1 THEN Part(applying[a], Parts[i])
                                                        ELSE installed[Parts[i]]
         /\ DOMAIN installed' = PartNames
  <1>1. step[a] \in 0 .. 7
    BY PartsLemma DEF Install, TypeOK
  <1>2. Parts[step[a] + 1] \in PartNames
    BY <1>1, PartsLemma
  <1>3. installed' = [installed EXCEPT ![Parts[step[a] + 1]] = Part(applying[a], Parts[step[a] + 1])]
    BY DEF Install
  <1> QED
    BY <1>1, <1>2, <1>3, PartsLemma DEF Install, TypeOK

LEMMA InitIInv == Init => IInv
  <1> SUFFICES ASSUME Init PROVE IInv
    OBVIOUS
  <1> USE ConfigAssumption DEF Init, Appliers, Main
  <1>1. TypeOK
    <2>1. \A a \in Callers : ~Busy(a) /\ mutex # a
      BY DEF Busy
    <2>2. Busy(Main)
      BY DEF Busy
    <2>3. pc \in [Appliers -> {"idle", "waiting", "applying", "returned"}]
      OBVIOUS
    <2>4. DOMAIN installed = PartNames
      BY DEF NewProxy
    <2>5. /\ step \in [Appliers -> 0 .. Len(Parts)]
          /\ known \in [Callers -> Wanted \cup {None}]
          /\ applying \in [Appliers -> Configurations]
      BY PartsLemma
    <2>6. /\ main = "starting" /\ config \in Configurations /\ mutex = None
          /\ ~failed /\ ~early /\ applied = None
      OBVIOUS
    <2> QED
      BY <2>1, <2>2, <2>3, <2>4, <2>5, <2>6, Zenon DEF TypeOK
  <1>2. StartAlone
    BY DEF StartAlone, FirstAre
  <1> QED
    BY <1>1, <1>2 DEF IInv, EarlyIsUnknown, Halfway, Between, NotBegun, Settled

LEMMA StepIInv == IInv /\ [Next]_vars => IInv'
  <1> SUFFICES ASSUME IInv, [Next]_vars PROVE IInv'
    OBVIOUS
  <1> USE ConfigAssumption DEF IInv, Appliers, Main, history
  <1>1. ASSUME NEW a \in Appliers, Install(a) PROVE IInv'
    <2> /\ step[a] \in 0 .. 7
        /\ step' = [step EXCEPT ![a] = step[a] + 1]
        /\ \A i \in 1 .. 8 :
             installed'[Parts[i]] = IF i = step[a] + 1 THEN Part(applying[a], Parts[i])
                                                       ELSE installed[Parts[i]]
        /\ DOMAIN installed' = PartNames
      BY <1>1, InstallLemma
    <2> /\ UNCHANGED <<main, config, mutex, pc, applying, known, failed, early, applied>>
        /\ pc[a] = "applying"
      BY <1>1 DEF Install, Busy
    <2> Len(Parts) = 8
      BY PartsLemma
    <2>1. TypeOK'
      BY DEF TypeOK, Busy
    <2>2. StartAlone'
      BY DEF StartAlone, FirstAre, TypeOK, Busy
    <2>3. EarlyIsUnknown'
      BY DEF EarlyIsUnknown
    <2>4. Halfway'
      BY DEF Halfway, FirstAre, RestAre, TypeOK, Busy
    <2>5. Between'
      BY DEF Between, Settled, TypeOK, Busy
    <2>6. NotBegun'
      BY DEF NotBegun, TypeOK
    <2> QED
      BY <2>1, <2>2, <2>3, <2>4, <2>5, <2>6
  <1>2. CASE Listen
    BY <1>2, PartsLemma
    DEF Listen, ApplySucceeds, Busy, TypeOK, StartAlone, EarlyIsUnknown, Halfway, Between,
        NotBegun, Settled, FirstAre, RestAre
  <1>3. CASE Exit
    BY <1>3
    DEF Exit, ApplyFails, Busy, TypeOK, StartAlone, EarlyIsUnknown, Halfway, Between,
        NotBegun, Settled, FirstAre, RestAre
  <1>4. ASSUME NEW a \in Callers, GetConfig(a) PROVE IInv'
    BY <1>4, ConfigurationLemma
    DEF GetConfig, Busy, TypeOK, StartAlone, EarlyIsUnknown, Halfway, Between,
        NotBegun, Settled, FirstAre, RestAre
  <1>5. ASSUME NEW a \in Callers, Call(a) PROVE IInv'
    BY <1>5
    DEF Call, Busy, TypeOK, StartAlone, EarlyIsUnknown, Halfway, Between,
        NotBegun, Settled, FirstAre, RestAre
  <1>6. ASSUME NEW a \in Callers, NEW s \in Wanted, SetConfig(a, s) PROVE IInv'
    <2> DEFINE c == Configuration(s, config.own)
    <2> /\ main # "exited" /\ pc[a] = "waiting" /\ mutex = None /\ mutex' = a
        /\ pc' = [pc EXCEPT ![a] = "applying"]
        /\ applying' = [applying EXCEPT ![a] = c]
        /\ early' = (main = "starting")
        /\ UNCHANGED <<main, config, step, installed, known, failed, applied>>
      BY <1>6 DEF SetConfig
    <2> c \in Configurations
      BY ConfigurationLemma DEF TypeOK
    <2> HIDE DEF c
    <2>1. TypeOK'
      BY DEF TypeOK, Busy
    <2>2. StartAlone' /\ EarlyIsUnknown' /\ Between'
      BY DEF StartAlone, EarlyIsUnknown, Between, Settled, TypeOK, Busy
    <2>3. Halfway'
      <3> SUFFICES ASSUME main = "listening" PROVE Halfway'
        BY DEF Halfway
      <3>1. step[a] = 0
        BY DEF NotBegun
      <3>2. applied # None => RestAre(0, applied)
        BY PartsLemma DEF Between, Settled, RestAre
      <3> QED
        BY <3>1, <3>2 DEF Halfway, FirstAre, RestAre
    <2>4. NotBegun'
      BY DEF NotBegun, TypeOK
    <2> QED
      BY <2>1, <2>2, <2>3, <2>4
  <1>7. ASSUME NEW a \in Callers, Return(a) PROVE IInv'
    <2>1. PICK ok \in BOOLEAN :
            /\ ReturnWith(a, ok)
            /\ ok => step[a] = 8
            /\ ~ok => step[a] \in {0, 1}
      BY <1>7, PartsLemma DEF Return, ApplySucceeds, ApplyFails, MayFail, MustFail
    <2> /\ main # "exited" /\ mutex = a /\ config' = applying[a] /\ failed' = ~ok
        /\ applied' = IF ok THEN IF early THEN None ELSE applying[a] ELSE applied
        /\ pc' = [pc EXCEPT ![a] = "returned"] /\ mutex' = None
        /\ UNCHANGED <<main, applying, step, installed, known, early>>
      BY <2>1 DEF ReturnWith
    <2>2. TypeOK'
      BY DEF TypeOK, Busy
    <2>3. StartAlone' /\ EarlyIsUnknown' /\ Halfway' /\ NotBegun'
      BY DEF StartAlone, EarlyIsUnknown, Halfway, NotBegun, TypeOK, Busy, FirstAre
    <2>4. Between'
      <3> SUFFICES ASSUME main = "listening", ~early PROVE Between'
        BY DEF Between, Settled, EarlyIsUnknown
      <3>1. FirstAre(step[a], applying[a])
        BY DEF Halfway
      <3>2. CASE ok
        BY <2>1, <3>1, <3>2, PartsLemma DEF Between, Settled, FirstAre, RestAre
      <3>3. CASE ~ok
        <4>1. applied # None => RestAre(step[a], applied)
          BY DEF Halfway
        <4>2. applied # None => RestAre(1, applied)
          BY <2>1, <3>3, <4>1, PartsLemma DEF RestAre
        <4> QED
          BY <3>3, <4>2 DEF Between, Settled, RestAre
      <3> QED
        BY <3>2, <3>3
    <2> QED
      BY <2>2, <2>3, <2>4
  <1>8. CASE UNCHANGED vars
    BY <1>8
    DEF vars, Busy, TypeOK, StartAlone, EarlyIsUnknown, Halfway, Between, NotBegun, Settled,
        FirstAre, RestAre
  <1> QED
    BY <1>1, <1>2, <1>3, <1>4, <1>5, <1>6, <1>7, <1>8 DEF Next, Quiet

THEOREM Invariant == Spec => []IInv
  BY InitIInv, StepIInv, PTL DEF Spec

\* The types hold in every reachable state; in particular only the holder of the mutex
\* applies a configuration, once the proxy listens.
THEOREM TypeCorrect == Spec => []TypeOK
  <1>1. IInv => TypeOK
    BY DEF IInv
  <1> QED
    BY Invariant, <1>1, PTL

-----------------------------------------------------------------------------

\* A property of the first part and one of the others are one of all.
LEMMA AllParts ==
  /\ \A c : RestAre(1, c) => RunsBut(c, {"ids"})
  /\ \A c : RestAre(1, c) /\ FirstAre(1, c) => Runs(c)
  BY PartsLemma DEF RestAre, FirstAre, RunsBut, Runs

\* After a SetConfig that found the start over and succeeded, every part is the one of
\* the configuration that GetConfig reports.
THEOREM ReportedIsRunning == Spec => []ReportIsTrueAfterSuccess
  <1>1. IInv => ReportIsTrueAfterSuccess
    BY AllParts DEF IInv, Between, ReportIsTrueAfterSuccess
  <1> QED
    BY Invariant, <1>1, PTL

\* Calls that fail leave the scope and the hooks as they were, for any number of them.
THEOREM FailuresKeepHooks == Spec => []FailureKeepsHooks
  <1>1. IInv => FailureKeepsHooks
    BY AllParts DEF IInv, Between, FailureKeepsHooks
  <1> QED
    BY Invariant, <1>1, PTL

\* GetConfig never answers from the middle of an Apply.
THEOREM AnswersAreRunning == Spec => AnswersRun
  <1> DEFINE A == \A a \in Callers :
       known'[a] # known[a] /\ main = "listening" /\ ~failed /\ applied # None =>
         \A p \in PartNames : installed[p] = Part(Configuration(known'[a], OwnHooks), p)
  <1>1. IInv /\ [Next]_vars => [A]_vars
    <2> SUFFICES ASSUME IInv, Next, NEW a \in Callers, known'[a] # known[a],
                        main = "listening", ~failed, applied # None
                 PROVE  Runs(Configuration(known'[a], OwnHooks))
      BY DEF Runs, RunsBut
    <2>1. PICK b \in Callers : GetConfig(b)
      BY DEF Next, Install, Listen, Exit, Call, SetConfig, Return, ReturnWith, Quiet, vars
    <2>2. mutex = None /\ known'[a] = config.settings
      BY <2>1 DEF GetConfig, IInv, TypeOK
    <2>3. config = Configuration(known'[a], OwnHooks)
      BY <2>2, ConfigurationLemma DEF IInv, TypeOK
    <2> QED
      BY <2>2, <2>3, AllParts DEF IInv, Between, Settled
  <1> QED
    BY Invariant, <1>1, PTL DEF Spec, AnswersRun

-----------------------------------------------------------------------------

\* Every list that has been replaced is the one of some configuration.
ListsAreOfConfigurations ==
  \A i \in 1 .. 8 :
    main = "listening" \/ (main = "starting" /\ i <= step[Main]) =>
      \E c \in Configurations : installed[Parts[i]] = Part(c, Parts[i])

LEMMA StepLists ==
  IInv /\ ListsAreOfConfigurations /\ [Next]_vars => ListsAreOfConfigurations'
  <1> SUFFICES ASSUME IInv, ListsAreOfConfigurations, [Next]_vars
               PROVE  ListsAreOfConfigurations'
    OBVIOUS
  <1>1. ASSUME NEW a \in Appliers, Install(a) PROVE ListsAreOfConfigurations'
    <2>1. /\ step[a] \in 0 .. 7
          /\ step' = [step EXCEPT ![a] = step[a] + 1]
          /\ \A i \in 1 .. 8 :
               installed'[Parts[i]] = IF i = step[a] + 1 THEN Part(applying[a], Parts[i])
                                                         ELSE installed[Parts[i]]
      BY <1>1, InstallLemma DEF IInv
    <2>2. applying[a] \in Configurations /\ step[Main] \in 0 .. 8
      BY PartsLemma DEF IInv, TypeOK, Appliers
    <2>3. UNCHANGED main
      BY <1>1 DEF Install
    <2> SUFFICES ASSUME NEW i \in 1 .. 8,
                        main = "listening" \/ (main = "starting" /\ i <= step'[Main])
                 PROVE  \E c \in Configurations : installed'[Parts[i]] = Part(c, Parts[i])
      BY <2>3 DEF ListsAreOfConfigurations
    <2>4. CASE i = step[a] + 1
      BY <2>1, <2>2, <2>4
    <2>5. CASE i # step[a] + 1
      <3>1. main = "starting" => i <= step[Main]
        BY <2>1, <2>2, <2>5 DEF IInv, TypeOK, Appliers
      <3> QED
        BY <2>1, <2>5, <3>1 DEF ListsAreOfConfigurations
    <2> QED
      BY <2>4, <2>5
  <1>2. CASE Listen
    BY <1>2, PartsLemma DEF Listen, ApplySucceeds, ListsAreOfConfigurations
  <1>3. CASE Exit
    BY <1>3 DEF Exit, ListsAreOfConfigurations
  <1>4. CASE UNCHANGED <<main, step, installed>>
    BY <1>4 DEF ListsAreOfConfigurations
  <1> QED
    BY <1>1, <1>2, <1>3, <1>4
    DEF Next, GetConfig, Call, SetConfig, Return, ReturnWith, Quiet, vars

\* One more hook, or none, behind a list that does not have it.
LEMMA OneMoreHook ==
  ASSUME NEW H, NEW l \in Seq(H), OwnFirstAndOnce(l),
         NEW h \in H, \A i \in DOMAIN l : l[i] # h, NEW on \in BOOLEAN
  PROVE  /\ l \o IfSet(on, h) \in Seq(H)
         /\ OwnFirstAndOnce(l \o IfSet(on, h))
         /\ \A i \in DOMAIN (l \o IfSet(on, h)) :
              (l \o IfSet(on, h))[i] = h \/ \E j \in DOMAIN l : (l \o IfSet(on, h))[i] = l[j]
  <1>1. CASE on
    <2>1. l \o IfSet(on, h) = Append(l, h)
      BY <1>1 DEF IfSet
    <2>2. /\ Append(l, h) \in Seq(H)
          /\ Len(Append(l, h)) = Len(l) + 1
          /\ \A i \in 1 .. Len(l) : Append(l, h)[i] = l[i]
          /\ Append(l, h)[Len(l) + 1] = h
      OBVIOUS
    <2>3. DOMAIN Append(l, h) = 1 .. Len(l) + 1 /\ DOMAIN l = 1 .. Len(l) /\ Len(l) \in Nat
      BY <2>2
    <2> QED
      BY <2>1, <2>2, <2>3 DEF OwnFirstAndOnce
  <1>2. CASE ~on
    <2>1. l \o IfSet(on, h) = l
      BY <1>2 DEF IfSet
    <2> QED
      BY <2>1
  <1> QED
    BY <1>1, <1>2

\* The list that a configuration makes begins with its own hooks, and none is twice.
LEMMA ListLemma ==
  ASSUME NEW c \in Configurations, NEW p \in Pipelines
  PROVE  OwnFirstAndOnce(Part(c, p))
  <1> DEFINE s == c.settings
             print == <<"print", "">>
             encoding == <<"accept-encoding", "">>
             db == <<"db", s.dbFile>>
             dir == <<"dir", s.saveDir>>
             b == <<"builder", "">>
             g == <<"plugins", "">>
             H == {print, encoding, db, dir, b, g}
             l1 == OwnHooks \o PrintHooks(s, p)
             l2 == l1 \o EncodingHook(p)
             l3 == l2 \o DBSaveHooks(s, p)
             l4 == l3 \o FileSaveHooks(s, p)
  <1>0. s.printLogs \in BOOLEAN
    BY ConfigurationLemma, ConfigAssumption
  <1>1. Part(c, p) = l4
    BY ConfigurationLemma DEF Part, Pipelines, RequestPipelines, ResponsePipelines
  <1>2. /\ print # encoding /\ print # db /\ print # dir
        /\ encoding # db /\ encoding # dir /\ db # dir
    OBVIOUS
  <1>3. b # g /\ b \notin {print, encoding, db, dir} /\ g \notin {print, encoding, db, dir}
    OBVIOUS
  <1>4. OwnHooks = <<b, g>>
    BY DEF OwnHooks
  <1> HIDE DEF print, encoding, db, dir, b, g, s
  <1>own. /\ OwnHooks \in Seq(H) /\ OwnFirstAndOnce(OwnHooks)
        /\ \A i \in DOMAIN OwnHooks : OwnHooks[i] \notin {print, encoding, db, dir}
    <2>1. /\ OwnHooks \in Seq(H) /\ DOMAIN OwnHooks = {1, 2}
          /\ OwnHooks[1] = b /\ OwnHooks[2] = g
      BY <1>4
    <2> QED
      BY <1>3, <2>1 DEF OwnFirstAndOnce
  <1>in. print \in H /\ encoding \in H /\ db \in H /\ dir \in H
    OBVIOUS
  <1> HIDE DEF H
  <1>5. /\ l1 \in Seq(H) /\ OwnFirstAndOnce(l1)
        /\ \A i \in DOMAIN l1 : l1[i] \notin {encoding, db, dir}
    <2> DEFINE on == s.printLogs /\ p \in SavedPipelines
    <2>1. on \in BOOLEAN /\ l1 = OwnHooks \o IfSet(on, print)
      BY <1>0 DEF PrintHooks, print
    <2> HIDE DEF on, l1
    <2>2. print \in H /\ \A i \in DOMAIN OwnHooks : OwnHooks[i] # print
      BY <1>in, <1>own
    <2>3. /\ l1 \in Seq(H) /\ OwnFirstAndOnce(l1)
          /\ \A i \in DOMAIN l1 : l1[i] = print \/ \E j \in DOMAIN OwnHooks : l1[i] = OwnHooks[j]
      BY <1>own, <2>1, <2>2, OneMoreHook
    <2> QED
      BY <1>2, <1>own, <2>3
  <1> HIDE DEF l1
  <1>6. /\ l2 \in Seq(H) /\ OwnFirstAndOnce(l2)
        /\ \A i \in DOMAIN l2 : l2[i] \notin {db, dir}
    <2> DEFINE on == p = "requestMod"
    <2>1. on \in BOOLEAN /\ l2 = l1 \o IfSet(on, encoding)
      BY DEF EncodingHook, encoding
    <2> HIDE DEF on, l2
    <2>2. encoding \in H /\ \A i \in DOMAIN l1 : l1[i] # encoding
      BY <1>in, <1>5
    <2>3. /\ l2 \in Seq(H) /\ OwnFirstAndOnce(l2)
          /\ \A i \in DOMAIN l2 : l2[i] = encoding \/ \E j \in DOMAIN l1 : l2[i] = l1[j]
      BY <1>5, <2>1, <2>2, OneMoreHook
    <2> QED
      BY <1>2, <1>5, <2>3
  <1> HIDE DEF l2
  <1>7. /\ l3 \in Seq(H) /\ OwnFirstAndOnce(l3)
        /\ \A i \in DOMAIN l3 : l3[i] \notin {dir}
    <2> DEFINE on == p \in SavedPipelines /\ s.dbFile # ""
    <2>1. on \in BOOLEAN /\ l3 = l2 \o IfSet(on, db)
      BY DEF DBSaveHooks, db
    <2> HIDE DEF on, l3
    <2>2. db \in H /\ \A i \in DOMAIN l2 : l2[i] # db
      BY <1>in, <1>6
    <2>3. /\ l3 \in Seq(H) /\ OwnFirstAndOnce(l3)
          /\ \A i \in DOMAIN l3 : l3[i] = db \/ \E j \in DOMAIN l2 : l3[i] = l2[j]
      BY <1>6, <2>1, <2>2, OneMoreHook
    <2> QED
      BY <1>2, <1>6, <2>3
  <1> HIDE DEF l3
  <1>8. /\ l4 \in Seq(H) /\ OwnFirstAndOnce(l4)
    <2> DEFINE on == p \in SavedPipelines /\ s.saveDir # ""
    <2>1. on \in BOOLEAN /\ l4 = l3 \o IfSet(on, dir)
      BY DEF FileSaveHooks, dir
    <2> HIDE DEF on, l4
    <2>2. dir \in H /\ \A i \in DOMAIN l3 : l3[i] # dir
      BY <1>in, <1>7
    <2>3. /\ l4 \in Seq(H) /\ OwnFirstAndOnce(l4)
          /\ \A i \in DOMAIN l4 : l4[i] = dir \/ \E j \in DOMAIN l3 : l4[i] = l3[j]
      BY <1>7, <2>1, <2>2, OneMoreHook
    <2> QED
      BY <1>2, <1>7, <2>3
  <1> QED
    BY <1>1, <1>8

\* The plugin server's hook and the builder's are never lost and never doubled, however
\* often the configuration is set.
THEOREM OwnHooksAreKept == Spec => []OwnHooksStay
  <1>1. Init => ListsAreOfConfigurations
    BY PartsLemma DEF Init, ListsAreOfConfigurations, Appliers, Main
  <1>2. ListsAreOfConfigurations => OwnHooksStay
    <2> SUFFICES ASSUME ListsAreOfConfigurations, main = "listening", NEW p \in Pipelines
                 PROVE  OwnFirstAndOnce(installed[p])
      BY DEF OwnHooksStay
    <2>1. PICK i \in 1 .. 8 : Parts[i] = p
      BY PartsLemma DEF PartNames
    <2>2. PICK c \in Configurations : installed[p] = Part(c, p)
      BY <2>1 DEF ListsAreOfConfigurations
    <2> QED
      BY <2>2, ListLemma
  <1> QED
    BY Invariant, StepLists, <1>1, <1>2, PTL DEF Spec
=============================================================================
