------------------------------ MODULE Delivery ------------------------------
(***************************************************************************)
(* What the offline queue promises a referee, whatever the network does:   *)
(* an entry or a press waits until the server has it, or is held for a     *)
(* person to decide; the server gets a row only while it waits, so nothing *)
(* thrown away turns up later; and only a person throws anything away.     *)
(***************************************************************************)
CONSTANTS
  Rows,    \* the entries and presses, by client uuid
  BoutOf   \* the bout of each

VARIABLES
  where,   \* "unmade", "waiting", "sent", "held" or "gone"
  saved    \* the rows the server has

vars == <<where, saved>>

Init == where = [r \in Rows |-> "unmade"] /\ saved = {}

Moves(rs, to) == where' = [r \in Rows |-> IF r \in rs THEN to ELSE where[r]]

\* The referee presses.
Make(r) == where[r] = "unmade" /\ Moves({r}, "waiting") /\ UNCHANGED saved

\* A request reaches the server; its answer may be lost.
Reach(r) == where[r] = "waiting" /\ saved' = saved \cup {r} /\ UNCHANGED where

\* The row leaves the queue for good only when the server has it.
Deliver(r) == where[r] = "waiting" /\ r \in saved /\ Moves({r}, "sent") /\ UNCHANGED saved

\* The server refuses it.
Hold(r) == where[r] = "waiting" /\ Moves({r}, "held") /\ UNCHANGED saved

\* A person sends held rows again.
SendAgain(rs) == (\A r \in rs : where[r] = "held") /\ Moves(rs, "waiting") /\ UNCHANGED saved

\* A person throws a held row away, alone or with all that is left of its bout.
Discard(r) ==
  /\ where[r] = "held"
  /\ \/ Moves({r}, "gone")
     \/ Moves({q \in Rows : BoutOf[q] = BoutOf[r] /\ where[q] \in {"waiting", "held"}}, "gone")
  /\ UNCHANGED saved

Next ==
  \/ \E r \in Rows : Make(r) \/ Reach(r) \/ Deliver(r) \/ Hold(r) \/ Discard(r)
  \/ \E rs \in SUBSET Rows : SendAgain(rs)

Spec == Init /\ [][Next]_vars
=============================================================================
