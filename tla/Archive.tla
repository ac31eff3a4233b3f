------------------------------- MODULE Archive -------------------------------
(***************************************************************************)
(* What the ID providers and the savers promise together, without          *)
(* pipelines, queues, savers, retries or configurations: an exchange is    *)
(* given an ID, which is numbered in a database file or is no number; its  *)
(* request and its response are pending once they are offered to a file,   *)
(* and each of them is written there at most once, under the ID of its     *)
(* exchange, or lost.  Rows stay; a restart loses everything else.         *)
(***************************************************************************)
EXTENDS Naturals

CONSTANTS Exchanges, Files, None

Tables == {"requests", "responses"}

VARIABLES
  id,       \* the ID each exchange has, 0 if it has none or it is no number
  home,     \* the file in which it is numbered, or None
  stage,    \* how far each exchange has come
  pending,  \* what may still become a row: triples of a table, an exchange and a file
  rows,     \* in each file and table, pairs of an ID and an exchange
  trusted,  \* files whose IDs are not those of exchanges under way or of its requests
  kept      \* files whose IDs are not those of its responses

vars == <<id, home, stage, pending, rows, trusted, kept>>

Init ==
  /\ id = [x \in Exchanges |-> 0]
  /\ home = [x \in Exchanges |-> None]
  /\ stage = [x \in Exchanges |-> "idle"]
  /\ pending = {}
  /\ rows = [f \in Files |-> [t \in Tables |-> {}]]
  /\ trusted = Files
  /\ kept = Files

\* No exchange that is numbered in f has the number i, or is filed there under it.
IsUnused(i, f, t) == \A r \in rows[f][t] : home[r[2]] = f => r[1] # i

IsFree(i, f) ==
  /\ f \in trusted =>
       /\ IsUnused(i, f, "requests")
       /\ \A x \in Exchanges :
            stage[x] \in {"begun", "sent", "answered"} /\ home[x] = f => id[x] # i
  /\ f \in kept => IsUnused(i, f, "responses")

Begin(x) ==
  /\ stage[x] = "idle"
  /\ stage' = [stage EXCEPT ![x] = "begun"]
  /\ \/ UNCHANGED <<id, home>>
     \/ \E f \in Files :
          /\ id'[x] \in Nat \ {0} /\ IsFree(id'[x], f)
          /\ id' = [id EXCEPT ![x] = id'[x]]
          /\ home' = [home EXCEPT ![x] = f]
  /\ UNCHANGED <<pending, rows, trusted, kept>>

Offer(x, t, from, to) ==
  /\ stage[x] = from
  /\ stage' = [stage EXCEPT ![x] = to]
  /\ (pending' = pending) \/ \E f \in Files : pending' = pending \cup {<<t, x, f>>}
  /\ UNCHANGED <<rows, trusted, kept>>

\* Before it is offered, a request may be given another ID, which is numbered nowhere.
OfferRequest(x) ==
  /\ Offer(x, "requests", "begun", "sent")
  /\ \/ UNCHANGED <<id, home>>
     \/ id' = [id EXCEPT ![x] = id'[x]] /\ home' = [home EXCEPT ![x] = None]

OfferResponse(x) == Offer(x, "responses", "sent", "answered") /\ UNCHANGED <<id, home>>

Settle(p) ==
  /\ p \in pending
  /\ UNCHANGED <<id, home, stage, trusted, kept>>
  /\ pending' = pending \ {p}

\* No row has the ID yet: it is the key of the table.
Write(p) ==
  LET t == p[1]
      x == p[2]
      f == p[3]
  IN /\ id[x] # 0 /\ \A r \in rows[f][t] : r[1] # id[x]
     /\ rows' = [rows EXCEPT ![f][t] = @ \cup {<<id[x], x>>}]
     /\ Settle(p)

Lose(p) == UNCHANGED rows /\ Settle(p)

\* The IDs of f are counted on from less than before.
SetBack(f) ==
  /\ trusted' \in {trusted, trusted \ {f}}
  /\ kept' = kept \ {f}
  /\ UNCHANGED <<id, home, stage, pending, rows>>

\* A new process trusts its IDs, which are counted on from the last request's.
Restart ==
  /\ stage' = [x \in Exchanges |-> IF stage[x] = "idle" THEN "idle" ELSE "lost"]
  /\ pending' = {}
  /\ trusted' = Files
  /\ (kept' = kept) \/ \E f \in Files : kept' = kept \ {f}
  /\ UNCHANGED <<id, home, rows>>

Next ==
  \/ \E x \in Exchanges : Begin(x) \/ OfferRequest(x) \/ OfferResponse(x)
  \/ \E p \in pending : Write(p) \/ Lose(p)
  \/ \E f \in Files : SetBack(f)
  \/ Restart

Spec == Init /\ [][Next]_vars
=============================================================================
