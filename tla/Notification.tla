----------------------------- MODULE Notification -----------------------------
(***************************************************************************)
(* What a read-only pipeline promises, without a queue, a worker or        *)
(* goroutines: an item that is accepted is shown once to each hook of ONE  *)
(* hook list, the one that was installed when the item came; items are     *)
(* shown in the order they were accepted, and no hook sees an item before  *)
(* every hook has seen the one before it.                                  *)
(***************************************************************************)
EXTENDS Naturals, Sequences, FiniteSets

CONSTANTS
  Items,  \* what runs through the pipeline
  Hooks,  \* every hook that is ever installed
  Bound   \* how many accepted items may be waiting to be shown, the one that
          \* is being shown included

VARIABLES
  hooks,    \* the installed hooks
  fate,     \* what became of each item
  list,     \* the hooks each item is for
  pending,  \* the items accepted and not shown to all their hooks, in order
  seen      \* the hooks each item has been shown to

vars == <<hooks, fate, list, pending, seen>>

Fates == {"new", "offered", "unwanted", "accepted", "dropped"}

Init ==
  /\ hooks \in SUBSET Hooks
  /\ fate = [x \in Items |-> "new"]
  /\ list = [x \in Items |-> {}]
  /\ pending = <<>>
  /\ seen = [x \in Items |-> {}]

Install(L) ==
  /\ hooks' = L
  /\ UNCHANGED <<fate, list, pending, seen>>

Offer(x) ==
  /\ fate[x] = "new"
  /\ fate' = [fate EXCEPT ![x] = "offered"]
  /\ list' = [list EXCEPT ![x] = hooks]
  /\ UNCHANGED <<hooks, pending, seen>>

Accept(x) ==
  /\ fate[x] = "offered"
  /\ list[x] # {}
  /\ Len(pending) < Bound
  /\ fate' = [fate EXCEPT ![x] = "accepted"]
  /\ pending' = Append(pending, x)
  /\ UNCHANGED <<hooks, list, seen>>

\* No hook is interested.
Ignore(x) ==
  /\ fate[x] = "offered"
  /\ list[x] = {}
  /\ fate' = [fate EXCEPT ![x] = "unwanted"]
  /\ UNCHANGED <<hooks, list, pending, seen>>

\* Too many items are waiting: only then is one that somebody wants dropped.
Drop(x) ==
  /\ fate[x] = "offered"
  /\ list[x] # {}
  /\ Len(pending) >= Bound - 1
  /\ fate' = [fate EXCEPT ![x] = "dropped"]
  /\ UNCHANGED <<hooks, list, pending, seen>>

\* The oldest pending item is shown to one more of its hooks, and is not pending
\* any longer once it has been shown to all of them.
Show(h) ==
  /\ pending # <<>>
  /\ h \in list[Head(pending)] \ seen[Head(pending)]
  /\ seen' = [seen EXCEPT ![Head(pending)] = @ \cup {h}]
  /\ pending' = IF seen'[Head(pending)] = list[Head(pending)] THEN Tail(pending) ELSE pending
  /\ UNCHANGED <<hooks, fate, list>>

Next ==
  \/ \E L \in SUBSET Hooks : Install(L)
  \/ \E x \in Items : Offer(x) \/ Accept(x) \/ Ignore(x) \/ Drop(x)
  \/ \E h \in Hooks : Show(h)

Spec == Init /\ [][Next]_vars
=============================================================================
