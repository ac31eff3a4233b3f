-------------------------------- MODULE Scope --------------------------------
(***************************************************************************)
(* internal/scope/scope.go: which requests are intercepted.  A request is  *)
(* asked about by its Host, which names the port if the client did, its    *)
(* Host header, and the extension of its URL's path.  An extension is in   *)
(* lower or upper case; both mean the same.                                *)
(***************************************************************************)
CONSTANT Lower  \* strings.ToLower, on the extensions in use

ASSUME ScopeAssumption ==
  /\ "" \in DOMAIN Lower
  /\ \A x \in DOMAIN Lower : Lower[x] \in DOMAIN Lower /\ Lower[Lower[x]] = Lower[x]

\* scope.New: the hosts that the expression matches, if there is one, and the excluded
\* extensions in lower case.
New(anyHost, hosts, extensions) ==
  [anyHost |-> anyHost, hosts |-> hosts, excluded |-> {Lower[x] : x \in extensions}]

isExcludedExtension(s, r) == r.ext # "" /\ Lower[r.ext] \in s.excluded

HostOf(r) == IF r.host # "" THEN r.host ELSE r.header

isIncludedDomain(s, r) == s.anyHost \/ (HostOf(r) # "" /\ HostOf(r) \in s.hosts)

IsInScope(s, r) == ~isExcludedExtension(s, r) /\ isIncludedDomain(s, r)
=============================================================================
