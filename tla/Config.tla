------------------------------- MODULE Config -------------------------------
(***************************************************************************)
(* The configuration: Config.Apply (internal/proxy/config.go), SetConfig   *)
(* and GetConfig of the plugin server, and the start of the proxy          *)
(* (ProxyBuilder.GetProxy), which applies the first configuration while    *)
(* the plugin server already accepts calls.                                *)
(*                                                                         *)
(* The proxy has eight PARTS: the provider of IDs, the scope and six lists *)
(* of hooks.  Apply replaces them one after the other, each under its own  *)
(* mutex, and may fail before the first one or before the second one.      *)
(* What GetConfig reports is kept apart from the parts, by the plugin      *)
(* server.                                                                 *)
(***************************************************************************)
EXTENDS Naturals, Sequences

CONSTANTS
  Callers,    \* plugins that call GetConfig and SetConfig; each sets once
  Wanted,     \* the settings that are asked for (proto.Config)
  NotRegexps, \* the scope expressions that do not compile
  None        \* nobody, nothing

ASSUME ConfigAssumption ==
  /\ Wanted \subseteq [dbFile : STRING, printLogs : BOOLEAN, saveDir : STRING, domainRe : STRING]
  /\ "main" \notin Callers
  /\ None \notin Callers

Main == "main"
Appliers == Callers \cup {Main}

RequestPipelines == {"requestIn", "requestMod", "requestOut"}
ResponsePipelines == {"responseIn", "responseMod", "responseOut"}
Pipelines == RequestPipelines \cup ResponsePipelines

\* What is printed and saved: requests as they are sent, responses as they are received.
SavedPipelines == {"requestOut", "responseIn"}

\* The parts in the order in which Apply replaces them.
Parts == <<"ids", "scope", "requestIn", "requestMod", "requestOut",
           "responseIn", "responseMod", "responseOut">>
PartNames == {"ids", "scope"} \cup Pipelines

\* The hooks of whoever built the proxy, and the plugin server's, in all six lists.  A
\* hook is a name and, if it saves, where to.
OwnHooks == <<<<"builder", "">>, <<"plugins", "">>>>

\* A configuration: settings, and the hooks that SetConfig cannot change.
Configuration(settings, own) == [settings |-> settings, own |-> own]

VARIABLES
  main,      \* "starting", "listening" or, if its Apply fails, "exited"
  config,    \* s.config: what GetConfig reports and SetConfig starts from
  mutex,     \* who holds configMutex for writing, or None
  pc,        \* what a caller does: "idle", "waiting", "applying", "returned"
  applying,  \* the configuration it applies
  step,      \* how many parts it has replaced
  installed, \* the parts of the proxy
  known,     \* what GetConfig told a caller last, or None
  failed,    \* history: the Apply that returned last failed
  early,     \* history: the SetConfig that began last did not find the start over
  applied    \* history: the configuration of the last Apply that succeeded, None if
             \* another one was under way at the same time

vars == <<main, config, mutex, pc, applying, step, installed, known, failed, early, applied>>
history == <<failed, early, applied>>

IfSet(on, hook) == IF on THEN <<hook>> ELSE <<>>

\* The hooks Apply adds to the configuration's own, per list.
PrintHooks(s, p) == IfSet(s.printLogs /\ p \in SavedPipelines, <<"print", "">>)
EncodingHook(p) == IfSet(p = "requestMod", <<"accept-encoding", "">>)
DBSaveHooks(s, p) == IfSet(p \in SavedPipelines /\ s.dbFile # "", <<"db", s.dbFile>>)
FileSaveHooks(s, p) == IfSet(p \in SavedPipelines /\ s.saveDir # "", <<"dir", s.saveDir>>)

\* The part that Apply makes of a configuration: UUIDs or the counter of a database,
\* an expression or none, or a list of hooks.
Part(c, p) ==
  CASE p = "ids" -> <<c.settings.dbFile>>
    [] p = "scope" -> <<c.settings.domainRe>>
    [] p \in Pipelines ->
         c.own \o PrintHooks(c.settings, p) \o EncodingHook(p)
               \o DBSaveHooks(c.settings, p) \o FileSaveHooks(c.settings, p)

\* NewProxy: UUIDs, everything in scope, no hooks.
NewProxy == [p \in PartNames |-> IF p \in Pipelines THEN <<>> ELSE <<"">>]

Configurations == {Configuration(s, OwnHooks) : s \in Wanted}

Busy(a) == pc[a] = "applying"

TypeOK ==
  /\ main \in {"starting", "listening", "exited"}
  /\ config \in Configurations
  /\ mutex \in Callers \cup {None}
  /\ pc \in [Appliers -> {"idle", "waiting", "applying", "returned"}]
  /\ \A a \in Callers : Busy(a) <=> mutex = a
  /\ Busy(Main) <=> main = "starting"
  /\ applying \in [Appliers -> Configurations]
  /\ step \in [Appliers -> 0 .. Len(Parts)]
  /\ DOMAIN installed = PartNames
  /\ known \in [Callers -> Wanted \cup {None}]
  /\ failed \in BOOLEAN /\ early \in BOOLEAN
  /\ applied \in Configurations \cup {None}

\* GetProxy has made the proxy and the configuration, and has started the plugin
\* server; it is about to apply the configuration.
Init ==
  /\ main = "starting"
  /\ config \in Configurations
  /\ mutex = None
  /\ pc = [a \in Appliers |-> IF a = Main THEN "applying" ELSE "idle"]
  /\ applying = [a \in Appliers |-> config]
  /\ step = [a \in Appliers |-> 0]
  /\ installed = NewProxy
  /\ known = [a \in Callers |-> None]
  /\ failed = FALSE
  /\ early = FALSE
  /\ applied = None

-----------------------------------------------------------------------------
(***************************************************************************)
(* Config.Apply.                                                           *)
(***************************************************************************)

\* NewDBIDProvider fails before anything is replaced.
MayFail(a) == step[a] = 0 /\ applying[a].settings.dbFile # ""

\* Mutant: the expression is compiled after a list of hooks has been replaced.
MustFail_Late(a) == step[a] = 3 /\ applying[a].settings.domainRe \in NotRegexps

\* The expression does not compile: the provider has been replaced already.
MustFail(a) == step[a] = 1 /\ applying[a].settings.domainRe \in NotRegexps

\* SetIDProvider, SetScope, SetRequestInHooks ... SetResponseOutHooks.
Install(a) ==
  /\ main # "exited"
  /\ Busy(a)
  /\ step[a] < Len(Parts)
  /\ ~MustFail(a)
  /\ step' = [step EXCEPT ![a] = @ + 1]
  /\ LET p == Parts[step[a] + 1]
     IN installed' = [installed EXCEPT ![p] = Part(applying[a], p)]
  /\ UNCHANGED <<main, config, mutex, pc, applying, known, history>>

ApplySucceeds(a) == Busy(a) /\ step[a] = Len(Parts)
ApplyFails(a) == Busy(a) /\ (MayFail(a) \/ MustFail(a))

-----------------------------------------------------------------------------
(***************************************************************************)
(* The start.                                                              *)
(***************************************************************************)

\* GetProxy returns, and ListenAndServe begins.
Listen ==
  /\ main = "starting"
  /\ ApplySucceeds(Main)
  /\ main' = "listening"
  /\ pc' = [pc EXCEPT ![Main] = "returned"]
  /\ applied' = IF early THEN None ELSE applying[Main]
  /\ UNCHANGED <<config, mutex, applying, step, installed, known, failed, early>>

\* GetProxy returns the error, and the process ends.
Exit ==
  /\ main = "starting"
  /\ ApplyFails(Main)
  /\ main' = "exited"
  /\ pc' = [pc EXCEPT ![Main] = "returned"]
  /\ UNCHANGED <<config, mutex, applying, step, installed, known, history>>

-----------------------------------------------------------------------------
(***************************************************************************)
(* GetConfig and SetConfig.                                                *)
(***************************************************************************)

\* Mutant: GetConfig does not take the mutex.
GetConfig_Unlocked(a) ==
  /\ main # "exited"
  /\ pc[a] = "idle"
  /\ known' = [known EXCEPT ![a] = config.settings]
  /\ UNCHANGED <<main, config, mutex, pc, applying, step, installed, history>>

\* The caller reads the configuration under the read lock.
GetConfig(a) ==
  /\ main # "exited"
  /\ pc[a] = "idle"
  /\ mutex = None
  /\ known' = [known EXCEPT ![a] = config.settings]
  /\ UNCHANGED <<main, config, mutex, pc, applying, step, installed, history>>

\* The call of SetConfig arrives.
Call(a) ==
  /\ main # "exited"
  /\ pc[a] = "idle"
  /\ pc' = [pc EXCEPT ![a] = "waiting"]
  /\ UNCHANGED <<main, config, mutex, applying, step, installed, known, history>>

\* Mutant: the new configuration does not start from the current one.
SetConfig_Fresh(a, settings) ==
  /\ main # "exited"
  /\ pc[a] = "waiting"
  /\ mutex = None
  /\ mutex' = a
  /\ pc' = [pc EXCEPT ![a] = "applying"]
  /\ applying' = [applying EXCEPT ![a] = Configuration(settings, <<>>)]
  /\ early' = (main = "starting")
  /\ UNCHANGED <<main, config, step, installed, known, failed, applied>>

\* Mutant: the mutex is released before the configuration is applied.
SetConfig_Unlocked(a, settings) ==
  /\ main # "exited"
  /\ pc[a] = "waiting"
  /\ mutex = None
  /\ pc' = [pc EXCEPT ![a] = "applying"]
  /\ applying' = [applying EXCEPT ![a] = Configuration(settings, config.own)]
  /\ early' = (main = "starting")
  /\ UNCHANGED <<main, config, mutex, step, installed, known, failed, applied>>

\* SetConfig takes the mutex and copies the current configuration, with its hooks and
\* the settings it was asked for.
SetConfig(a, settings) ==
  /\ main # "exited"
  /\ pc[a] = "waiting"
  /\ mutex = None
  /\ mutex' = a
  /\ pc' = [pc EXCEPT ![a] = "applying"]
  /\ applying' = [applying EXCEPT ![a] = Configuration(settings, config.own)]
  /\ early' = (main = "starting")
  /\ UNCHANGED <<main, config, step, installed, known, failed, applied>>

\* It reports the new configuration and returns, whatever Apply returned.
ReturnWith(a, ok) ==
  /\ main # "exited"
  /\ mutex = a
  /\ config' = applying[a]
  /\ failed' = ~ok
  /\ applied' = IF ok THEN IF early THEN None ELSE applying[a] ELSE applied
  /\ pc' = [pc EXCEPT ![a] = "returned"]
  /\ mutex' = None
  /\ UNCHANGED <<main, applying, step, installed, known, early>>

\* Mutant: after an error SetConfig applies the configuration again.
Return_Retry(a) ==
  \/ ApplySucceeds(a) /\ ReturnWith(a, TRUE)
  \/ /\ ApplyFails(a)
     /\ main # "exited"
     /\ step' = [step EXCEPT ![a] = 0]
     /\ UNCHANGED <<main, config, mutex, pc, applying, installed, known, history>>

Return(a) ==
  \/ ApplySucceeds(a) /\ ReturnWith(a, TRUE)
  \/ ApplyFails(a) /\ ReturnWith(a, FALSE)

-----------------------------------------------------------------------------

\* Every caller is done, or the process has ended.
Quiet ==
  /\ main = "exited" \/ \A a \in Appliers : pc[a] = "returned"
  /\ UNCHANGED vars

Next ==
  \/ \E a \in Appliers : Install(a)
  \/ Listen \/ Exit
  \/ \E a \in Callers : GetConfig(a) \/ Call(a) \/ Return(a)
  \/ \E a \in Callers, settings \in Wanted : SetConfig(a, settings)
  \/ Quiet

Spec == Init /\ [][Next]_vars

\* Apply runs, and Go's RWMutex lets nobody wait for ever.
Fairness ==
  /\ \A a \in Appliers : WF_vars(Install(a))
  /\ WF_vars(Listen)
  /\ \A a \in Callers : WF_vars(Return(a)) /\ SF_vars(\E settings \in Wanted : SetConfig(a, settings))

FairSpec == Spec /\ Fairness

-----------------------------------------------------------------------------
(***************************************************************************)
(* Properties.                                                             *)
(***************************************************************************)

\* Nothing is being applied.
Settled == main = "listening" /\ mutex = None

\* Every part, or every part but some, is the one of configuration c.
RunsBut(c, but) == \A p \in PartNames \ but : installed[p] = Part(c, p)
Runs(c) == RunsBut(c, {})

\* GetConfig "returns the current proxy config" (server.go:654).
ReportIsTrue == Settled => Runs(config)

\* This much holds: after a SetConfig that found the start over, and whose Apply
\* succeeded, what is reported is what runs, whoever calls at the same time.
ReportIsTrueAfterSuccess == Settled /\ ~failed /\ applied # None => Runs(config)

\* However many calls have failed since, the scope and all hooks are those of one
\* configuration, the last one that was applied; only the provider may be newer.
FailureKeepsHooks == Settled /\ applied # None => RunsBut(applied, {"ids"})

OwnFirstAndOnce(hooks) ==
  /\ \A i \in DOMAIN OwnHooks : i \in DOMAIN hooks /\ hooks[i] = OwnHooks[i]
  /\ \A i, j \in DOMAIN hooks : hooks[i] = hooks[j] => i = j

\* Once the proxy listens, the hooks of its builder and the plugin server's are in
\* every list, in front and once, whatever is configured.
OwnHooksStay == main = "listening" => \A p \in Pipelines : OwnFirstAndOnce(installed[p])

\* GetConfig does not answer from the middle of an Apply: what it answers runs, under
\* the conditions of ReportIsTrueAfterSuccess.
AnswersRun ==
  [][\A a \in Callers :
       known'[a] # known[a] /\ main = "listening" /\ ~failed /\ applied # None =>
         \A p \in PartNames : installed[p] = Part(Configuration(known'[a], OwnHooks), p)]_vars

\* A caller of SetConfig gets its answer, also after others have failed, unless the
\* start fails.
SetReturns ==
  \A a \in Callers : pc[a] = "waiting" ~> (pc[a] = "returned" \/ main = "exited")
=============================================================================
