----------------------------- MODULE MCRoClients -----------------------------
(* Small instances of RoClients for TLC. *)
EXTENDS RoClients

\* Every plugin has a name of its own ...
OwnName == [s \in Streams |-> s]
\* ... or all streams are one plugin that reconnects.
OneName == [s \in Streams |-> "plugin"]
=============================================================================
