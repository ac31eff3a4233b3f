------------------------------ MODULE MCExchange ------------------------------
(* Small instances of Exchange for TLC. *)
EXTENDS Exchange

CONSTANTS h1, h2

ToLower == [x \in {"", "png", "PNG"} |-> IF x = "PNG" THEN "png" ELSE x]

\* A page, a picture, and a request without a Host but with its header.
SomeRequests ==
  {[host |-> "a:80", header |-> "", ext |-> ""], [host |-> "", header |-> "a:80", ext |-> "PNG"]}

\* The default, without an expression; one host; no host.
SomeScopes == {New(TRUE, {}, {"PNG"}), New(FALSE, {"a:80"}, {}), New(FALSE, {}, {})}

SomeLists == {<<h1, h2>>, <<h2, h1>>}
=============================================================================
