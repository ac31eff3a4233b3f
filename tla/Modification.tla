----------------------------- MODULE Modification -----------------------------
(***************************************************************************)
(* What the plugin server promises of its modification plugins, without    *)
(* channels, handlers, goroutines or timers: an exchange is offered to the *)
(* plugins that were members when it came, one after the other, and leaves *)
(* with a message.  A plugin is expelled only if it breaks or keeps too    *)
(* many exchanges waiting, and an exchange misses the rest of its plugins  *)
(* only behind one that broke.  A panic is possible only at a plugin that  *)
(* has been expelled meanwhile, and never at the first.                    *)
(***************************************************************************)
EXTENDS Naturals, FiniteSets

CONSTANTS
  Exchanges,
  Plugins,   \* streams plugins open, each joining at most once
  NameOf,    \* the name each joins under
  Bound,     \* how many exchanges may wait for a plugin before it can be expelled
  None       \* no plugin

VARIABLES
  members,   \* the plugins that are registered
  standing,  \* of each plugin: whether it has joined, and whether it broke
  stage,     \* how far each exchange is
  left,      \* the plugins it is still to be offered to
  at,        \* the plugin it was offered to last
  returned   \* the message it left with, represented by the exchange that brought it

vars == <<members, standing, stage, left, at, returned>>

Init ==
  /\ members = {}
  /\ standing = [s \in Plugins |-> "new"]
  /\ stage = [x \in Exchanges |-> "out"]
  /\ left = [x \in Exchanges |-> {}]
  /\ at = [x \in Exchanges |-> None]
  /\ returned = [x \in Exchanges |-> None]

Join(s) ==
  /\ standing[s] = "new"
  /\ \A c \in members : NameOf[c] # NameOf[s]
  /\ members' = members \cup {s}
  /\ standing' = [standing EXCEPT ![s] = "joined"]
  /\ UNCHANGED <<stage, left, at, returned>>

Break(s) ==
  /\ standing[s] = "joined"
  /\ standing' = [standing EXCEPT ![s] = "broken"]
  /\ UNCHANGED <<members, stage, left, at, returned>>

Arrive(x) ==
  /\ stage[x] = "out"
  /\ stage' = [stage EXCEPT ![x] = "in"]
  /\ left' = [left EXCEPT ![x] = members]
  /\ UNCHANGED <<members, standing, at, returned>>

ComeTo(x, s) ==
  /\ stage[x] = "in"
  /\ s \in left[x]
  /\ left' = [left EXCEPT ![x] = @ \ {s}]
  /\ at' = [at EXCEPT ![x] = s]
  /\ UNCHANGED <<members, standing, returned>>

Offer(x, s) == ComeTo(x, s) /\ stage' = [stage EXCEPT ![x] = "with"]

WaitingFor(s) == {x \in Exchanges : stage[x] = "with" /\ at[x] = s}

\* The plugin does not take the message.
Refuse(x, s) ==
  /\ ComeTo(x, s)
  /\ standing[s] = "broken" \/ Cardinality(WaitingFor(s)) >= Bound
  /\ stage' = [stage EXCEPT ![x] = "refused"]

Panic(x, s) ==
  /\ ComeTo(x, s)
  /\ s \notin members
  /\ at[x] # None
  /\ stage' = [stage EXCEPT ![x] = "lost"]

Answer(x) ==
  /\ stage[x] = "with"
  /\ standing[at[x]] = "joined"
  /\ stage' = [stage EXCEPT ![x] = "in"]
  /\ UNCHANGED <<members, standing, left, at, returned>>

Fail(x) ==
  /\ stage[x] = "with"
  /\ standing[at[x]] = "broken"
  /\ stage' = [stage EXCEPT ![x] = "failed"]
  /\ UNCHANGED <<members, standing, left, at, returned>>

\* Whoever is a member under the plugin's name.
Others(s) == {c \in members : NameOf[c] # NameOf[s]}

Expel(x) ==
  /\ stage[x] = "refused"
  /\ members' = Others(at[x])
  /\ stage' = [stage EXCEPT ![x] = "in"]
  /\ UNCHANGED <<standing, left, at, returned>>

\* The message is one that was brought in; its own, if no plugin saw it; and, as long as
\* no plugin has broken, one that nobody else has left with.
Leave(x) ==
  /\ stage' = [stage EXCEPT ![x] = "back"]
  /\ \E m \in Exchanges :
       /\ stage[m] # "out"
       /\ at[x] = None => m = x
       /\ (\A s \in Plugins : standing[s] # "broken") =>
            \A y \in Exchanges : stage[y] = "back" => returned[y] # m
       /\ returned' = [returned EXCEPT ![x] = m]
  /\ UNCHANGED <<standing, left, at>>

Finish(x) == stage[x] = "in" /\ left[x] = {} /\ Leave(x) /\ UNCHANGED members
GiveUp(x) == stage[x] = "failed" /\ Leave(x) /\ members' = Others(at[x])

Next ==
  \/ \E s \in Plugins : Join(s) \/ Break(s)
  \/ \E x \in Exchanges :
       \/ Arrive(x) \/ Answer(x) \/ Fail(x) \/ Expel(x) \/ Finish(x) \/ GiveUp(x)
       \/ \E s \in Plugins : Offer(x, s) \/ Refuse(x, s) \/ Panic(x, s)

Spec == Init /\ [][Next]_vars
=============================================================================
