----------------------------- MODULE MCModClients -----------------------------
(* Small instances of ModClients for TLC. *)
EXTENDS ModClients

\* Every plugin has a name of its own ...
OwnName == [s \in Streams |-> s]
\* ... or all streams are one plugin that reconnects.
OneName == [s \in Streams |-> "plugin"]
=============================================================================
