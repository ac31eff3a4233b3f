------------------------------ MODULE MCConfig ------------------------------
(* Small instances of Config for TLC. *)
EXTENDS Config

Settings(db, print, dir, re) == [dbFile |-> db, printLogs |-> print, saveDir |-> dir, domainRe |-> re]

\* The defaults; everything at once; another database and a bad expression.
SomeSettings ==
  {Settings("", FALSE, "", ".*"), Settings("a.db", TRUE, "d", "x"), Settings("b.db", FALSE, "", "(")}

BadExpressions == {"("}
=============================================================================
