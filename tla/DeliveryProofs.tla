--------------------------- MODULE DeliveryProofs ---------------------------
(***************************************************************************)
(* The queue of one tab implements Delivery: every step of the pad is a    *)
(* step of the promise, or changes nothing the referee can see.            *)
(***************************************************************************)
EXTENDS PadQueueProofs

\* What a step is to the referee.
Seen == Promise!Next \/ UNCHANGED Promise!vars

LEMMA UnseenStep ==
  ASSUME UNCHANGED <<place, outbox, rejected, discarded, landed>>
  PROVE  Seen
<1>1. Where' = Where
  BY DEF Where
<1> QED BY <1>1 DEF Seen, Promise!vars

\* The tables of a row that waits, and of one that is held.
LEMMA WhereIs ==
  ASSUME Typed, Ordered
  PROVE  /\ \A r \in outbox : r \in Rows /\ Where[r] = "waiting" /\ place[r] # 0
                              /\ r \notin rejected /\ r \notin discarded
         /\ \A r \in rejected : r \in Rows /\ Where[r] = "held" /\ place[r] # 0
                              /\ r \notin outbox /\ r \notin discarded
         /\ \A r \in Rows : place[r] = 0 => Where[r] = "unmade" /\ r \notin rejected
                              /\ r \notin discarded /\ r \notin outbox
  BY DEF Typed, TypeOK, Ordered, UnmadeNowhere, OneTable, Made, Where

LEMMA MakeSeen ==
  ASSUME Typed, Ordered, NEW t \in Tabs, NEW r \in Rows, AddRow(t, r)
  PROVE  Seen
<1>1. Where[r] = "unmade" /\ r \notin rejected /\ r \notin discarded
  BY WhereIs DEF AddRow
<1>2. /\ place' = [place EXCEPT ![r] = lastId + 1] /\ outbox' = outbox \cup {r}
      /\ rejected' = rejected /\ discarded' = discarded /\ landed' = landed
  BY DEF AddRow
<1>3. place \in [Rows -> Nat] /\ lastId + 1 # 0
  BY DEF Typed, TypeOK
<1>4. \A q \in Rows : Where'[q] = IF q \in {r} THEN "waiting" ELSE Where[q]
  BY <1>2, <1>3 DEF Where
<1>5. Promise!Make(r)
  BY <1>1, <1>2, <1>4 DEF Promise!Make, Promise!Moves, Where
<1> QED BY <1>5 DEF Seen, Promise!Next

LEMMA ReachSeen ==
  ASSUME Typed, Ordered, NEW t \in Tabs, pc[t] \in {"post", "answer"}, UNCHANGED store,
         landed' = landed \cup {cur[t]}
  PROVE  Seen
<1>1. cur[t] \in outbox
  BY DEF Ordered, OutIsFree
<1>2. Where' = Where
  BY DEF Where, store
<1>3. Promise!Reach(cur[t]) /\ cur[t] \in Rows
  BY <1>1, <1>2, WhereIs DEF Promise!Reach
<1> QED BY <1>3 DEF Seen, Promise!Next

LEMMA DeliverSeen ==
  ASSUME Typed, Ordered, OkIsLanded, NEW t \in Tabs, FileSent(t)
  PROVE  Seen
<1> DEFINE r == cur[t]
<1>1. r \in outbox /\ r \in landed
  BY DEF FileSent, IsSaved, Ordered, OutIsFree, OkIsLanded
<1>2. /\ outbox' = outbox \ {r} /\ place' = place /\ rejected' = rejected
      /\ discarded' = discarded /\ landed' = landed
  BY DEF FileSent, MarkSynced
<1>3. r \in Rows /\ Where[r] = "waiting" /\ place[r] # 0 /\ r \notin rejected /\ r \notin discarded
  BY <1>1, WhereIs
<1>4. \A q \in Rows : Where'[q] = IF q \in {r} THEN "sent" ELSE Where[q]
  BY <1>2, <1>3 DEF Where
<1>5. Promise!Deliver(r)
  BY <1>1, <1>2, <1>3, <1>4 DEF Promise!Deliver, Promise!Moves, Where
<1> QED BY <1>3, <1>5 DEF Seen, Promise!Next

LEMMA HoldSeen ==
  ASSUME Typed, Ordered, NEW t \in Tabs, FileHeld(t)
  PROVE  Seen
<1> DEFINE r == cur[t]
<1>1. r \in outbox
  BY DEF FileHeld, Ordered, OutIsFree
<1>2. /\ outbox' = outbox \ {r} /\ place' = place /\ rejected' = rejected \cup {r}
      /\ discarded' = discarded /\ landed' = landed
  BY <1>1 DEF FileHeld, Quarantine
<1>3. r \in Rows /\ Where[r] = "waiting" /\ place[r] # 0
  BY <1>1, WhereIs
<1>4. \A q \in Rows : Where'[q] = IF q \in {r} THEN "held" ELSE Where[q]
  BY <1>2, <1>3 DEF Where
<1>5. Promise!Hold(r)
  BY <1>2, <1>3, <1>4 DEF Promise!Hold, Promise!Moves, Where
<1> QED BY <1>3, <1>5 DEF Seen, Promise!Next

LEMMA SendAgainSeen ==
  ASSUME Typed, Ordered, NEW held \in SUBSET rejected, Requeue(held),
         UNCHANGED <<place, discarded, landed>>
  PROVE  Seen
<1>1. \A r \in held : r \in Rows /\ Where[r] = "held" /\ place[r] # 0
  BY WhereIs
<1>2. outbox' = outbox \cup held /\ rejected' = rejected \ held
  BY DEF Requeue
<1>3. \A q \in Rows : Where'[q] = IF q \in held THEN "waiting" ELSE Where[q]
  BY <1>1, <1>2 DEF Where
<1>4. Promise!SendAgain(held)
  BY <1>1, <1>3 DEF Promise!SendAgain, Promise!Moves, Where
<1>5. held \in SUBSET Rows
  BY <1>1
<1> QED BY <1>4, <1>5 DEF Seen, Promise!Next

LEMMA DiscardSeen ==
  ASSUME Typed, Ordered, NEW t \in Tabs, Discard(t)
  PROVE  Seen
<1> DEFINE r == inbox[t].row
<1>1. /\ rejected' = rejected \ {r} /\ discarded' = discarded \cup ({r} \cap rejected)
      /\ place' = place /\ outbox' = outbox /\ landed' = landed
  BY DEF Discard
<1>2. CASE r \notin rejected
  BY <1>1, <1>2, UnseenStep
<1>3. CASE r \in rejected
  <2>1. r \in Rows /\ Where[r] = "held" /\ place[r] # 0 /\ r \notin outbox
    BY <1>3, WhereIs
  <2>2. \A q \in Rows : Where'[q] = IF q \in {r} THEN "gone" ELSE Where[q]
    BY <1>1, <1>3, <2>1 DEF Where
  <2>3. Promise!Discard(r)
    BY <1>1, <2>1, <2>2 DEF Promise!Discard, Promise!Moves, Where
  <2> QED BY <2>1, <2>3 DEF Seen, Promise!Next
<1> QED BY <1>2, <1>3

LEMMA DiscardBoutSeen ==
  ASSUME Typed, Ordered, NEW t \in Tabs, NEW r \in Rows, DiscardBout(t, r)
  PROVE  Seen
<1> DEFINE b    == BoutOf[r]
           lost == {q \in Rows : BoutOf[q] = BoutOf[r] /\ Where[q] \in {"waiting", "held"}}
<1>1. r \in rejected /\ Where[r] = "held"
  BY WhereIs DEF DiscardBout
<1>2. /\ rejected' = rejected \ OfBout(rejected, b) /\ outbox' = outbox \ OfBout(outbox, b)
      /\ discarded' = discarded \cup OfBout(rejected \cup outbox, b)
      /\ place' = place /\ landed' = landed
  BY DEF DiscardBout
<1>3. \A q \in Rows : q \in lost <=> BoutOf[q] = b /\ q \in outbox \cup rejected
  <2> SUFFICES ASSUME NEW q \in Rows
               PROVE  Where[q] \in {"waiting", "held"} <=> q \in outbox \cup rejected
    OBVIOUS
  <2>1. CASE q \in outbox \cup rejected
    BY <2>1, WhereIs
  <2>2. CASE q \notin outbox \cup rejected
    BY <2>2 DEF Where
  <2> QED BY <2>1, <2>2
<1> HIDE DEF lost
<1>4. ASSUME NEW q \in Rows
      PROVE  Where'[q] = IF q \in lost THEN "gone" ELSE Where[q]
  <2>1. CASE q \in lost
    <3>1. q \notin outbox' /\ q \notin rejected' /\ q \in discarded' /\ place'[q] # 0
      BY <1>2, <1>3, <2>1, WhereIs DEF OfBout
    <3> QED BY <2>1, <3>1 DEF Where
  <2>2. CASE q \notin lost
    <3>1. /\ q \in outbox' <=> q \in outbox
          /\ q \in rejected' <=> q \in rejected
          /\ q \in discarded' <=> q \in discarded
      BY <1>2, <1>3, <2>2 DEF OfBout
    <3> QED BY <1>2, <2>2, <3>1 DEF Where
  <2> QED BY <2>1, <2>2
<1>5. Where' = [q \in Rows |-> IF q \in lost THEN "gone" ELSE Where[q]]
  BY <1>4 DEF Where
<1>6. Promise!Discard(r)
  BY <1>1, <1>2, <1>5 DEF Promise!Discard, Promise!Moves, lost
<1> QED BY <1>6 DEF Seen, Promise!Next

LEMMA StepSeen ==
  ASSUME Typed, Ordered, OkIsLanded, [Next]_vars
  PROVE  Seen
<1>1. CASE UNCHANGED vars
  BY <1>1, UnseenStep DEF vars, store
<1>2. ASSUME NEW t \in Tabs, Operator(t) \/ Tick(t)
      PROVE  Seen
  <2>1. ASSUME NEW r \in Rows, RetryOne(t, r) PROVE Seen
    BY <2>1, SendAgainSeen DEF RetryOne, Curable
  <2>2. CASE RetryAll(t)
    BY <2>2, SendAgainSeen DEF RetryAll, Curable
  <2>3. CASE Drain(t) \/ RefreshState(t)
    BY <2>3, UnseenStep DEF Drain, RefreshState, store
  <2>4. ASSUME NEW r \in Rows, AskDiscard(t, r) PROVE Seen
    BY <2>4, UnseenStep DEF AskDiscard, store
  <2> QED BY <1>2, <2>1, <2>2, <2>3, <2>4, MakeSeen, DiscardSeen, DiscardBoutSeen
          DEF Operator, Tick, PressEntry, PressTap
<1>3. ASSUME NEW t \in Tabs, Server(t) \/ Reload(t)
      PROVE  Seen
  <2>1. UNCHANGED store
    BY <1>3 DEF Server, ServerTakes, ServerRefuses, Reload
  <2>2. landed' = landed \/ (pc[t] = "post" /\ landed' = landed \cup {cur[t]})
    BY <1>3 DEF Server, ServerTakes, ServerRefuses, Reload
  <2> QED BY <2>1, <2>2, ReachSeen, UnseenStep DEF store
<1>4. ASSUME NEW t \in Tabs, Engine(t)
      PROVE  Seen
  <2>1. CASE FileSent(t)
    BY <2>1, DeliverSeen
  <2>2. CASE FileHeld(t)
    BY <2>2, HoldSeen
  <2>3. CASE ~FileSent(t) /\ ~FileHeld(t)
    <3>1. UNCHANGED <<store, landed>>
      BY <1>4, <2>3 DEF Engine, ListPending, ReadHeld, SkipBehindHeld, WaitBehindUnsent, Claim,
        TrySecond, FileFailed, FileStopped, Release, WalkedAll, EmitWalked, EndPass, EndStopped
    <3> QED BY <3>1, UnseenStep DEF store
  <2> QED BY <2>1, <2>2, <2>3
<1> QED BY <1>1, <1>2, <1>3, <1>4 DEF Next

LEMMA InitSeen == Init => Promise!Init
  BY DEF Init, Promise!Init, Where

(* With one tab, the queue implements what it promises the referee: a row  *)
(* waits until the server has it or is held, the server saves no row that  *)
(* was thrown away, and only a Discard throws one away.                    *)
THEOREM QueueDelivers == OneTabOnly /\ Spec => KeepsPromise
<1>1. OneTabOnly /\ Spec => [](Typed /\ Ordered /\ Kept)
  BY OrderedHolds, InitTyped, InitKept, NextTyped, NextKept, PTL DEF Spec
<1>2. Typed /\ Ordered /\ Kept /\ [Next]_vars => [Promise!Next]_(Promise!vars)
  BY StepSeen DEF Seen, Kept
<1> QED BY <1>1, <1>2, InitSeen, PTL DEF Spec, KeepsPromise, Promise!Spec
=============================================================================
