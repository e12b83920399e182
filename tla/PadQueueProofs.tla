--------------------------- MODULE PadQueueProofs ---------------------------
(***************************************************************************)
(* Theorems about PadQueue, for every set of rows and bouts.  First for    *)
(* any number of tabs: the types, and what an answer says of the server.   *)
(* Then what one tab's engine keeps to: the row that is out is safe, a row *)
(* is in one table, and a pass sends a bout's rows in their order.  None   *)
(* of that holds with two tabs: each engine knows only the claims and the  *)
(* refusals of its own pass.                                               *)
(***************************************************************************)
EXTENDS PadQueue, TLAPS

(* The row a tab has out is a row, and a filed answer is an outcome the    *)
(* walk knows.                                                             *)
FlightOK ==
  \A t \in Tabs :
    /\ pc[t] \in {"post", "answer", "filed"} => cur[t] \in Rows
    /\ pc[t] = "filed" => reply[t] \in {"sent", "held", "failed", "offline"}

Typed == TypeOK /\ FlightOK

LEMMA InitTyped == Init => Typed
  BY PadConstants DEF Init, Typed, TypeOK, FlightOK, Stages, Noted, NotSent, Replies,
    Statuses, NotDiscarding, Rows

(* drain leaves pc and asked well typed, and moves no engine that is past  *)
(* its claim.                                                              *)
LEMMA AskTyped ==
  ASSUME Typed, NEW t \in Tabs, Ask(t)
  PROVE  /\ pc' \in [Tabs -> Stages]
         /\ asked' \in [Tabs -> BOOLEAN]
         /\ \A u \in Tabs : pc'[u] \in {"post", "answer", "filed"} => pc'[u] = pc[u]
  BY DEF Ask, Typed, TypeOK, Stages

(* The outcomes a row can have when the walk goes past it.                 *)
Outcomes == {"sent", "held", "failed", "offline"}

(* What the walk's own variables are once a row is passed.                 *)
WalkTyped(t) ==
  /\ pc' \in [Tabs -> Stages]
  /\ todo' \in [Tabs -> SUBSET Rows]
  /\ behind' \in [Tabs -> SUBSET Bouts]
  /\ unsent' \in [Tabs -> [Bouts -> Noted]]
  /\ fails' \in [Tabs -> Nat]
  /\ met' \in [Tabs -> SUBSET {"failed", "offline"}]
  /\ status' \in [Tabs -> Statuses]
  /\ pc'[t] \notin {"post", "answer", "filed"}
  /\ \A u \in Tabs \ {t} : pc'[u] = pc[u]

LEMMA PassedTyped ==
  ASSUME Typed, NEW t \in Tabs, NEW r \in Rows, NEW counts \in BOOLEAN,
         NEW outcome \in Outcomes, Passed(t, r, outcome, counts)
  PROVE  WalkTyped(t)
<1> BoutOf[r] \in Bouts
  BY PadConstants
<1>1. /\ behind' \in [Tabs -> SUBSET Bouts]
      /\ unsent' \in [Tabs -> [Bouts -> Noted]]
  BY DEF Passed, Note, Typed, TypeOK, Noted, Outcomes
<1>2. /\ fails' \in [Tabs -> Nat]
      /\ todo' \in [Tabs -> SUBSET Rows]
      /\ met' \in [Tabs -> SUBSET {"failed", "offline"}]
  BY DEF Passed, Typed, TypeOK
<1>3. /\ pc' \in [Tabs -> Stages]
      /\ status' \in [Tabs -> Statuses]
      /\ pc'[t] \notin {"post", "answer", "filed"}
      /\ \A u \in Tabs \ {t} : pc'[u] = pc[u]
  BY DEF Passed, Typed, TypeOK, Stages, Statuses
<1> QED BY <1>1, <1>2, <1>3 DEF WalkTyped

(* Steps that only ask for a send, or change the tables of the store.      *)
LEMMA OperatorTyped ==
  ASSUME Typed, NEW t \in Tabs, Operator(t) \/ Tick(t)
  PROVE  Typed'
<1> USE DEF Typed, TypeOK, FlightOK, store, pass, flight
<1>1. ASSUME NEW r \in Rows, AddRow(t, r)
      PROVE  Typed'
  <2>1. Ask(t)
    BY <1>1 DEF AddRow
  <2> QED BY <1>1, <2>1, AskTyped DEF AddRow
<1>2. CASE Drain(t)
  <2>1. Ask(t)
    BY <1>2 DEF Drain
  <2> QED BY <1>2, <2>1, AskTyped DEF Drain
<1>3. ASSUME NEW r \in Rows, RetryOne(t, r)
      PROVE  Typed'
  <2>1. Ask(t)
    BY <1>3 DEF RetryOne
  <2> QED BY <1>3, <2>1, AskTyped DEF RetryOne, Requeue, Curable
<1>4. CASE RetryAll(t)
  <2>1. Ask(t)
    BY <1>4 DEF RetryAll
  <2> QED BY <1>4, <2>1, AskTyped DEF RetryAll, Requeue, Curable
<1>5. ASSUME NEW r \in Rows, AskDiscard(t, r)
      PROVE  Typed'
  BY <1>5 DEF AskDiscard
<1>6. CASE Discard(t)
  <2>1. CASE inbox[t].frees
    <3>1. Ask(t)
      BY <1>6, <2>1 DEF Discard
    <3> QED BY <1>6, <2>1, <3>1, AskTyped DEF Discard, NotDiscarding
  <2>2. CASE ~inbox[t].frees
    BY <1>6, <2>2 DEF Discard, EmitResting, NotDiscarding, Statuses
  <2> QED BY <2>1, <2>2
<1>7. ASSUME NEW r \in Rows, DiscardBout(t, r)
      PROVE  Typed'
  BY <1>7 DEF DiscardBout, EmitResting, OfBout, Statuses
<1>8. CASE RefreshState(t)
  BY <1>8 DEF RefreshState, EmitResting, Statuses
<1> QED
  BY <1>1, <1>2, <1>3, <1>4, <1>5, <1>6, <1>7, <1>8
  DEF Operator, Tick, PressEntry, PressTap

(* The engine's own steps.                                                 *)
LEMMA EngineTyped ==
  ASSUME Typed, NEW t \in Tabs, Engine(t)
  PROVE  Typed'
<1> USE DEF Typed, TypeOK, FlightOK, store, pass, flight
<1>1. CASE ListPending(t)
  <2>1. /\ UNCHANGED <<store, landed, behind, unsent, fails, asked, flight, inbox>>
        /\ met' = [met EXCEPT ![t] = {}]
        /\ pending' = [pending EXCEPT ![t] = outbox]
        /\ todo' = [todo EXCEPT ![t] = outbox]
    BY <1>1 DEF ListPending
  <2>2. CASE outbox = {}
    <3>1. pc' = [pc EXCEPT ![t] = "ending"] /\ UNCHANGED status
      BY <1>1, <2>2 DEF ListPending
    <3> QED BY <2>1, <3>1 DEF Stages
  <2>3. CASE outbox # {}
    <3>1. /\ pc' = [pc EXCEPT ![t] = "held"]
          /\ status' = [status EXCEPT ![t] = "syncing"]
      BY <1>1, <2>3 DEF ListPending
    <3> QED BY <2>1, <3>1 DEF Stages, Statuses
  <2> QED BY <2>2, <2>3
<1>2. CASE ReadHeld(t)
  BY <1>2, PadConstants DEF ReadHeld, Stages, Noted, NotSent
<1>3. ASSUME NEW r \in Rows, SkipBehindHeld(t, r)
      PROVE  Typed'
  BY <1>3 DEF SkipBehindHeld
<1>4. ASSUME NEW r \in Rows, WaitBehindUnsent(t, r)
      PROVE  Typed'
  <2>1. PICK o \in Outcomes : Passed(t, r, o, o = "offline")
    BY <1>4 DEF WaitBehindUnsent, Outcomes
  <2>2. WalkTyped(t)
    BY <2>1, PassedTyped
  <2>3. UNCHANGED <<store, landed, pending, asked, flight, inbox>>
    BY <1>4 DEF WaitBehindUnsent
  <2> QED BY <2>2, <2>3 DEF WalkTyped
<1>5. ASSUME NEW r \in Rows, Claim(t, r)
      PROVE  Typed'
  <2>0. UNCHANGED <<store, landed, pending, behind, unsent, fails, met, asked, second, reply,
                    status, inbox>>
    BY <1>5 DEF Claim
  <2>1. CASE r \in outbox
    <3>1. /\ cur' = [cur EXCEPT ![t] = r]
          /\ pc' = [pc EXCEPT ![t] = "post"]
          /\ UNCHANGED todo
      BY <1>5, <2>1 DEF Claim
    <3> QED BY <2>0, <3>1 DEF Stages
  <2>2. CASE r \notin outbox
    <3>1. todo' = [todo EXCEPT ![t] = @ \ {r}] /\ UNCHANGED <<cur, pc>>
      BY <1>5, <2>2 DEF Claim
    <3> QED BY <2>0, <3>1
  <2> QED BY <2>1, <2>2
<1>6. CASE FileSent(t)
  BY <1>6 DEF FileSent, MarkSynced, Stages, Statuses, Replies, Rows
<1>7. CASE TrySecond(t)
  BY <1>7 DEF TrySecond, Stages, Replies
<1>8. CASE FileHeld(t)
  BY <1>8 DEF FileHeld, Quarantine, Stages, Statuses, Replies
<1>9. CASE FileFailed(t)
  BY <1>9 DEF FileFailed, Stages, Replies, AllTroubles
<1>10. CASE FileStopped(t)
  BY <1>10 DEF FileStopped, Stages, Statuses, Replies
<1>11. CASE Release(t)
  <2>1. /\ cur[t] \in Rows
        /\ reply[t] \in Outcomes
        /\ Passed(t, cur[t], reply[t], TRUE)
    BY <1>11 DEF Release, Outcomes
  <2>2. WalkTyped(t)
    BY <2>1, PassedTyped
  <2>3. /\ UNCHANGED <<store, landed, pending, asked, inbox>>
        /\ cur' = [cur EXCEPT ![t] = NoRow]
        /\ second' = [second EXCEPT ![t] = FALSE]
        /\ reply' = [reply EXCEPT ![t] = "none"]
    BY <1>11 DEF Release
  <2> QED BY <2>2, <2>3 DEF WalkTyped, Replies
<1>12. CASE WalkedAll(t)
  BY <1>12 DEF WalkedAll, DropLocals, Stages, Noted, NotSent
<1>13. CASE EmitWalked(t)
  <2>1. WalkedStatus(t) \in Statuses
    BY DEF WalkedStatus, Statuses
  <2>2. /\ UNCHANGED <<store, landed, pending, todo, behind, unsent, fails, flight, inbox>>
        /\ met' = [met EXCEPT ![t] = {}]
    BY <1>13 DEF EmitWalked
  <2>3. \/ /\ pc' = [pc EXCEPT ![t] = "list"]
           /\ asked' = [asked EXCEPT ![t] = FALSE]
           /\ UNCHANGED status
        \/ /\ pc' = [pc EXCEPT ![t] = "ended"]
           /\ status' = [status EXCEPT ![t] = WalkedStatus(t)]
           /\ UNCHANGED asked
    BY <1>13 DEF EmitWalked, Again
  <2> HIDE DEF WalkedStatus
  <2>4. /\ pc' \in [Tabs -> Stages]
        /\ \A u \in Tabs : pc'[u] \in {"post", "answer", "filed"} => pc'[u] = pc[u]
    BY <2>3 DEF Stages
  <2>5. asked' \in [Tabs -> BOOLEAN]
    BY <2>3
  <2>6. status' \in [Tabs -> Statuses]
    <3>1. CASE UNCHANGED status
      BY <3>1
    <3>2. CASE status' = [status EXCEPT ![t] = WalkedStatus(t)]
      BY <2>1, <3>2, Zenon
    <3> QED BY <2>3, <3>1, <3>2
  <2> QED BY <2>2, <2>4, <2>5, <2>6
<1>14. CASE EndPass(t)
  <2>1. UNCHANGED <<store, landed, pass, flight, status, inbox>>
    BY <1>14 DEF EndPass
  <2>2. CASE asked[t]
    <3>1. /\ pc' = [pc EXCEPT ![t] = "list"]
          /\ asked' = [asked EXCEPT ![t] = FALSE]
      BY <1>14, <2>2 DEF EndPass, Again
    <3> QED BY <2>1, <3>1 DEF Stages
  <2>3. CASE ~asked[t]
    <3>1. pc' = [pc EXCEPT ![t] = "idle"] /\ UNCHANGED asked
      BY <1>14, <2>3 DEF EndPass
    <3> QED BY <2>1, <3>1 DEF Stages
  <2> QED BY <2>2, <2>3
<1>15. CASE EndStopped(t)
  BY <1>15 DEF EndStopped, DropLocals, Stages, Noted, NotSent
<1> QED
  BY <1>1, <1>2, <1>3, <1>4, <1>5, <1>6, <1>7, <1>8, <1>9, <1>10, <1>11, <1>12, <1>13,
     <1>14, <1>15 DEF Engine

LEMMA NextTyped == Typed /\ [Next]_vars => Typed'
<1> SUFFICES ASSUME Typed, [Next]_vars PROVE Typed'
  OBVIOUS
<1>1. CASE UNCHANGED vars
  BY <1>1 DEF Typed, TypeOK, FlightOK, vars, store, pass, flight
<1>2. ASSUME NEW t \in Tabs, Server(t)
      PROVE  Typed'
  <2> USE DEF Typed, TypeOK, FlightOK, store, pass, flight
  <2>1. CASE ServerTakes(t)
    BY <1>2, <2>1 DEF ServerTakes, Stages, Replies
  <2>2. CASE ServerRefuses(t)
    BY <1>2, <2>2, PadConstants DEF ServerRefuses, Stages, Replies
  <2> QED BY <1>2, <2>1, <2>2 DEF Server
<1>3. ASSUME NEW t \in Tabs, Reload(t)
      PROVE  Typed'
  BY <1>3 DEF Typed, TypeOK, FlightOK, store, Reload, DropLocals, Stages, Noted, NotSent,
    Replies, Statuses, NotDiscarding
<1> QED BY <1>1, <1>2, <1>3, OperatorTyped, EngineTyped DEF Next

(* Every reachable state of the pad is well typed: a held row that cannot  *)
(* be cured is a held row, and a claim always names a row.                 *)
THEOREM TypeCorrect == Spec => []TypeOK
<1>1. Spec => []Typed
  BY InitTyped, NextTyped, PTL DEF Spec
<1>2. Typed => TypeOK
  BY DEF Typed
<1> QED BY <1>1, <1>2, PTL

-----------------------------------------------------------------------------
(* No row is lost, with any number of tabs.  The invariant needs what an   *)
(* "ok" still on its way says: the server has the row.                     *)

OkIsLanded == \A t \in Tabs : pc[t] = "answer" /\ reply[t] = "ok" => cur[t] \in landed

Kept == NoRowLost /\ SyncedIsLanded /\ OkIsLanded

LEMMA InitKept == Init => Kept
  BY DEF Init, Kept, NoRowLost, SyncedIsLanded, OkIsLanded, Made

(* Kept reads the tables, the server and the answers on their way; a step  *)
(* that grows the server and leaves the rest alone keeps it.               *)
LEMMA KeptStutter ==
  ASSUME Kept,
         UNCHANGED store,
         landed \subseteq landed',
         \A t \in Tabs : pc'[t] = "answer" /\ reply'[t] = "ok" =>
           \/ pc[t] = "answer" /\ reply[t] = "ok" /\ cur'[t] = cur[t]
           \/ cur'[t] \in landed'
  PROVE  Kept'
  BY DEF Kept, NoRowLost, SyncedIsLanded, OkIsLanded, Made, store

LEMMA AskKeepsAnswers ==
  ASSUME Typed, NEW t \in Tabs, Ask(t)
  PROVE  \A u \in Tabs : pc'[u] = "answer" => pc[u] = "answer"
  BY DEF Ask, Typed, TypeOK, Stages

LEMMA OperatorKept ==
  ASSUME Typed, Kept, NEW t \in Tabs, Operator(t) \/ Tick(t)
  PROVE  Kept'
<1> USE DEF flight, Kept
<1>1. ASSUME NEW r \in Rows, AddRow(t, r)
      PROVE  Kept'
  <2>1. Ask(t)
    BY <1>1 DEF AddRow
  <2>2. OkIsLanded'
    BY <1>1, <2>1, AskKeepsAnswers DEF AddRow, OkIsLanded
  <2>3. SyncedIsLanded'
    BY <1>1 DEF AddRow, SyncedIsLanded
  <2>4. NoRowLost'
    BY <1>1 DEF AddRow, NoRowLost, Made, Typed, TypeOK
  <2> QED BY <2>2, <2>3, <2>4
<1>2. CASE Drain(t)
  <2>1. Ask(t)
    BY <1>2 DEF Drain
  <2> QED BY <1>2, <2>1, AskKeepsAnswers, KeptStutter DEF Drain
<1>3. ASSUME NEW held \in SUBSET rejected, Requeue(held), Ask(t),
             UNCHANGED <<lastId, place, never, synced, discarded, landed, pass, flight,
                         status, inbox>>
      PROVE  Kept'
  <2>1. OkIsLanded'
    BY <1>3, AskKeepsAnswers DEF OkIsLanded
  <2>2. NoRowLost'
    BY <1>3 DEF Requeue, NoRowLost, Made
  <2> QED BY <1>3, <2>1, <2>2 DEF SyncedIsLanded
<1>4. ASSUME NEW r \in Rows, RetryOne(t, r)
      PROVE  Kept'
  BY <1>3, <1>4 DEF RetryOne, Curable
<1>5. CASE RetryAll(t)
  BY <1>3, <1>5 DEF RetryAll, Curable
<1>6. ASSUME NEW r \in Rows, AskDiscard(t, r)
      PROVE  Kept'
  BY <1>6, KeptStutter DEF AskDiscard
<1>7. CASE Discard(t)
  <2>1. \A u \in Tabs : pc'[u] = "answer" => pc[u] = "answer"
    BY <1>7, AskKeepsAnswers DEF Discard
  <2>2. OkIsLanded'
    BY <1>7, <2>1 DEF Discard, OkIsLanded
  <2>3. NoRowLost'
    BY <1>7 DEF Discard, NoRowLost, Made
  <2> QED BY <1>7, <2>2, <2>3 DEF Discard, SyncedIsLanded
<1>8. ASSUME NEW r \in Rows, DiscardBout(t, r)
      PROVE  Kept'
  BY <1>8 DEF DiscardBout, OfBout, NoRowLost, Made, SyncedIsLanded, OkIsLanded
<1>9. CASE RefreshState(t)
  BY <1>9, KeptStutter DEF RefreshState
<1> QED
  BY <1>1, <1>2, <1>4, <1>5, <1>6, <1>7, <1>8, <1>9
  DEF Operator, Tick, PressEntry, PressTap

LEMMA EngineKept ==
  ASSUME Typed, Kept, NEW t \in Tabs, Engine(t)
  PROVE  Kept'
<1>1. CASE FileSent(t)
  <2>1. cur[t] \in landed
    BY <1>1 DEF FileSent, IsSaved, Kept, OkIsLanded
  <2>2. NoRowLost'
    BY <1>1, <2>1, PadConstants
    DEF FileSent, MarkSynced, Kept, NoRowLost, Made, Rows
  <2>3. SyncedIsLanded'
    BY <1>1, <2>1 DEF FileSent, MarkSynced, Kept, SyncedIsLanded
  <2>4. OkIsLanded'
    BY <1>1 DEF FileSent, Kept, OkIsLanded, Typed, TypeOK
  <2> QED BY <2>2, <2>3, <2>4 DEF Kept
<1>2. CASE FileHeld(t)
  <2>1. NoRowLost'
    BY <1>2 DEF FileHeld, Quarantine, Kept, NoRowLost, Made
  <2>2. OkIsLanded'
    BY <1>2 DEF FileHeld, Kept, OkIsLanded, Typed, TypeOK
  <2> QED BY <1>2, <2>1, <2>2 DEF FileHeld, Kept, SyncedIsLanded
<1>3. ASSUME UNCHANGED <<store, landed>>,
             \A u \in Tabs : pc'[u] = "answer" =>
               pc[u] = "answer" /\ reply'[u] = reply[u] /\ cur'[u] = cur[u]
      PROVE  Kept'
  BY <1>3, KeptStutter
<1> USE DEF Typed, TypeOK, flight
<1>4. CASE ListPending(t)
  BY <1>3, <1>4 DEF ListPending
<1>5. CASE ReadHeld(t)
  BY <1>3, <1>5 DEF ReadHeld
<1>6. ASSUME NEW r \in Rows, SkipBehindHeld(t, r)
      PROVE  Kept'
  BY <1>3, <1>6 DEF SkipBehindHeld
<1>7. ASSUME NEW r \in Rows, WaitBehindUnsent(t, r)
      PROVE  Kept'
  BY <1>3, <1>7 DEF WaitBehindUnsent, Passed
<1>8. ASSUME NEW r \in Rows, Claim(t, r)
      PROVE  Kept'
  BY <1>3, <1>8 DEF Claim
<1>9. CASE TrySecond(t)
  BY <1>3, <1>9 DEF TrySecond
<1>10. CASE FileFailed(t)
  BY <1>3, <1>10 DEF FileFailed
<1>11. CASE FileStopped(t)
  BY <1>3, <1>11 DEF FileStopped
<1>12. CASE Release(t)
  BY <1>3, <1>12 DEF Release, Passed
<1>13. CASE WalkedAll(t)
  BY <1>3, <1>13 DEF WalkedAll
<1>14. CASE EmitWalked(t)
  BY <1>3, <1>14 DEF EmitWalked, Again
<1>15. CASE EndPass(t)
  BY <1>3, <1>15 DEF EndPass, Again
<1>16. CASE EndStopped(t)
  BY <1>3, <1>16 DEF EndStopped
<1> QED
  BY <1>1, <1>2, <1>4, <1>5, <1>6, <1>7, <1>8, <1>9, <1>10, <1>11, <1>12, <1>13, <1>14,
     <1>15, <1>16 DEF Engine

LEMMA NextKept == Typed /\ Kept /\ [Next]_vars => Kept'
<1> SUFFICES ASSUME Typed, Kept, [Next]_vars PROVE Kept'
  OBVIOUS
<1>1. CASE UNCHANGED vars
  BY <1>1, KeptStutter DEF vars, flight
<1>2. ASSUME NEW t \in Tabs, Server(t)
      PROVE  Kept'
  <2>1. CASE ServerTakes(t)
    BY <2>1, KeptStutter DEF ServerTakes, Typed, TypeOK
  <2>2. CASE ServerRefuses(t)
    <3>1. "ok" \notin Troubles
      BY PadConstants DEF AllTroubles
    <3> QED BY <2>2, <3>1, KeptStutter DEF ServerRefuses, Typed, TypeOK
  <2> QED BY <1>2, <2>1, <2>2 DEF Server
<1>3. ASSUME NEW t \in Tabs, Reload(t)
      PROVE  Kept'
  BY <1>3, KeptStutter DEF Reload, Typed, TypeOK
<1> QED BY <1>1, <1>2, <1>3, OperatorKept, EngineKept DEF Next

(* A hit, a card or a press the referee made is never destroyed by the     *)
(* queue, whatever the tabs, the network and the server do (quarantine,    *)
(* markSynced, backInQueue, discardBoutOf).                                *)
THEOREM RowsAreKept == Spec => []NoRowLost
<1>1. Spec => [](Typed /\ Kept)
  BY InitTyped, InitKept, NextTyped, NextKept, PTL DEF Spec
<1>2. Kept => NoRowLost
  BY DEF Kept
<1> QED BY <1>1, <1>2, PTL

(* An entry is filed as taken only when the server has it (markSynced).    *)
THEOREM SyncedIsSound == Spec => []SyncedIsLanded
<1>1. Spec => [](Typed /\ Kept)
  BY InitTyped, InitKept, NextTyped, NextKept, PTL DEF Spec
<1>2. Kept => SyncedIsLanded
  BY DEF Kept
<1> QED BY <1>1, <1>2, PTL

-----------------------------------------------------------------------------

OneTabOnly == \A t, u \in Tabs : t = u

(* A row nobody pressed is in no table.                                    *)
UnmadeNowhere ==
  \A r \in Rows : r \in outbox \cup rejected \cup synced \cup discarded => Made(r)

Walking == {"walk", "post", "answer", "filed"}

(* The walk starts with the whole list, and the row that is out heads what *)
(* is left of it.                                                          *)
OutIsHead(t) ==
  /\ todo[t] \subseteq pending[t]
  /\ pc[t] = "held" => todo[t] = pending[t]
  /\ \A r \in pending[t] : Made(r)
  /\ pc[t] \in {"post", "answer", "filed"} =>
       cur[t] \in todo[t] /\ \A q \in todo[t] : place[cur[t]] <= place[q]

(* BoutOrder.held covers the inbox, but for the row this pass just held.   *)
HeldIsKnown(t) ==
  pc[t] \in Walking =>
    \A q \in rejected :
      BoutOf[q] \in behind[t] \/ (pc[t] = "filed" /\ reply[t] = "held" /\ q = cur[t])

(* The row that is out waits in the queue, and had to wait for nothing.    *)
OutIsFree(t) ==
  /\ pc[t] \in {"post", "answer"} => cur[t] \in outbox /\ Waits(t, cur[t]) = "none"
  /\ pc[t] = "filed" /\ reply[t] = "sent" => cur[t] \notin outbox \cup rejected

(* A row the pass went past and that still waits is on record.             *)
LeftIsNoted(t) ==
  pc[t] \in Walking =>
    \A q \in (pending[t] \ todo[t]) \cap outbox :
      \/ BoutOf[q] \in behind[t]
      \/ /\ unsent[t][BoutOf[q]].outcome # "none"
         /\ q \in Taps => unsent[t][BoutOf[q]].press

Ordered ==
  /\ UnmadeNowhere
  /\ OneTable
  /\ \A t \in Tabs : OutIsHead(t) /\ HeldIsKnown(t) /\ OutIsFree(t) /\ LeftIsNoted(t)

LEMMA InitOrdered == Init => Ordered
  BY DEF Init, Ordered, UnmadeNowhere, OneTable, OutIsHead, HeldIsKnown, OutIsFree,
    LeftIsNoted, Walking

(* With one tab, an invariant of every tab is an invariant of that tab.    *)
LEMMA OneTabSuffices ==
  ASSUME OneTabOnly, NEW t \in Tabs, UnmadeNowhere', OneTable', OutIsHead(t)',
         HeldIsKnown(t)', OutIsFree(t)', LeftIsNoted(t)'
  PROVE  Ordered'
<1>1. \A u \in Tabs : u = t
  BY DEF OneTabOnly
<1> QED BY <1>1 DEF Ordered

(* A tab that is not walking has nothing out.                              *)
LEMMA NotWalking ==
  ASSUME NEW t \in Tabs, pc'[t] \notin Walking, todo'[t] \subseteq pending'[t],
         pc'[t] = "held" => todo'[t] = pending'[t],
         \A r \in pending'[t] : Made(r)'
  PROVE  OutIsHead(t)' /\ HeldIsKnown(t)' /\ OutIsFree(t)' /\ LeftIsNoted(t)'
  BY DEF OutIsHead, HeldIsKnown, OutIsFree, LeftIsNoted, Walking

LEMMA AskOrder ==
  ASSUME Typed, NEW t \in Tabs, Ask(t)
  PROVE  pc'[t] = pc[t] \/ pc'[t] = "list"
  BY DEF Ask, Typed, TypeOK, Stages, Walking

(* A step of the operator leaves the engine's pass alone.  It keeps the    *)
(* order when no row joins the inbox, only held rows and new ones join the *)
(* queue, and the row that is out stays.                                   *)
LEMMA TablesChange ==
  ASSUME Typed, Ordered, OneTabOnly, NEW t \in Tabs,
         UNCHANGED <<pass, cur, reply>>,
         pc'[t] = pc[t] \/ pc'[t] = "list",
         \A r \in Rows : Made(r) => place'[r] = place[r],
         \A r \in Rows : r \in outbox' => r \in outbox \/ r \in rejected \/ ~Made(r),
         rejected' \subseteq rejected,
         pc[t] \in {"post", "answer"} /\ cur[t] \in outbox => cur[t] \in outbox',
         UnmadeNowhere', OneTable'
  PROVE  Ordered'
<1> DEFINE same == pc'[t] = pc[t]
<1>0. OutIsHead(t) /\ HeldIsKnown(t) /\ OutIsFree(t) /\ LeftIsNoted(t)
  BY DEF Ordered
<1>1. /\ todo'[t] \subseteq pending'[t]
      /\ \A r \in pending'[t] : r \in Rows /\ Made(r) /\ Made(r)'
  BY <1>0 DEF OutIsHead, pass, Made, Typed, TypeOK
<1>2. CASE pc'[t] = "list"
  BY <1>1, <1>2, NotWalking, OneTabSuffices DEF Walking
<1>3. CASE same
  <2>1. OutIsHead(t)'
    BY <1>0, <1>1, <1>3 DEF OutIsHead, pass, Typed, TypeOK
  <2>2. HeldIsKnown(t)'
    BY <1>0, <1>3 DEF HeldIsKnown, pass
  <2>3. OutIsFree(t)'
    <3>1. CASE pc[t] \in {"post", "answer"}
      BY <1>0, <1>3, <3>1 DEF OutIsFree, Waits, pass
    <3>2. CASE pc[t] = "filed" /\ reply[t] = "sent"
      <4>1. cur[t] \in Rows /\ Made(cur[t]) /\ cur[t] \notin outbox \cup rejected
        BY <1>0, <1>1, <3>2 DEF OutIsFree, OutIsHead, pass
      <4> QED BY <1>3, <3>2, <4>1 DEF OutIsFree
    <3> QED BY <1>3, <3>1, <3>2 DEF OutIsFree
  <2>4. LeftIsNoted(t)'
    <3> SUFFICES ASSUME pc[t] \in Walking,
                        NEW q \in (pending[t] \ todo[t]) \cap outbox'
                 PROVE  \/ BoutOf[q] \in behind[t]
                        \/ /\ unsent[t][BoutOf[q]].outcome # "none"
                           /\ q \in Taps => unsent[t][BoutOf[q]].press
      BY <1>3 DEF LeftIsNoted, pass
    <3>1. q \in Rows /\ Made(q)
      BY <1>1 DEF pass
    <3>2. CASE q \in outbox
      BY <1>0, <3>2 DEF LeftIsNoted
    <3>3. CASE q \in rejected
      BY <1>0, <3>3 DEF HeldIsKnown, OutIsHead, Walking
    <3> QED BY <3>1, <3>2, <3>3
  <2> QED BY <2>1, <2>2, <2>3, <2>4, OneTabSuffices
<1> QED BY <1>2, <1>3

(* No row of the bout of the row that is out is held.                      *)
LEMMA OutBoutNotHeld ==
  ASSUME Ordered, NEW t \in Tabs, pc[t] \in {"post", "answer"}
  PROVE  \A q \in rejected : BoutOf[q] # BoutOf[cur[t]]
<1>1. \A q \in rejected : BoutOf[q] \in behind[t]
  BY DEF Ordered, HeldIsKnown, Walking
<1>2. BoutOf[cur[t]] \notin behind[t]
  BY DEF Ordered, OutIsFree, Waits
<1> QED BY <1>1, <1>2

LEMMA OperatorOrdered ==
  ASSUME Typed, Ordered, OneTabOnly, NEW t \in Tabs, Operator(t) \/ Tick(t)
  PROVE  Ordered'
<1>0. UnmadeNowhere /\ OneTable
  BY DEF Ordered
<1>1. ASSUME NEW r \in Rows, AddRow(t, r)
      PROVE  Ordered'
  <2>1. /\ Ask(t) /\ ~Made(r)
        /\ outbox' = outbox \cup {r}
        /\ UNCHANGED <<rejected, synced, discarded, pass, cur, reply>>
    BY <1>1 DEF AddRow, flight, Made
  <2>2. /\ \A q \in Rows : Made(q) => place'[q] = place[q] /\ Made(q)'
        /\ Made(r)'
    BY <1>1 DEF AddRow, Made, Typed, TypeOK
  <2>3. UnmadeNowhere'
    BY <1>0, <2>1, <2>2 DEF UnmadeNowhere
  <2>4. OneTable'
    BY <1>0, <2>1 DEF UnmadeNowhere, OneTable
  <2> QED BY <2>1, <2>2, <2>3, <2>4, AskOrder, TablesChange
<1>2. ASSUME UNCHANGED <<place, outbox, rejected, synced, discarded, pass, cur, reply>>,
             pc'[t] = pc[t] \/ pc'[t] = "list"
      PROVE  Ordered'
  <2>1. UnmadeNowhere' /\ OneTable'
    BY <1>0, <1>2 DEF UnmadeNowhere, OneTable, Made
  <2> QED BY <1>2, <2>1, TablesChange
<1>3. ASSUME NEW held \in SUBSET rejected, Requeue(held), Ask(t),
             UNCHANGED <<place, synced, discarded, pass, cur, reply>>
      PROVE  Ordered'
  <2>1. UnmadeNowhere' /\ OneTable'
    BY <1>0, <1>3 DEF Requeue, UnmadeNowhere, OneTable, Made
  <2>2. outbox' = outbox \cup held /\ rejected' = rejected \ held
    BY <1>3 DEF Requeue
  <2> QED BY <1>3, <2>1, <2>2, AskOrder, TablesChange
<1>4. CASE Drain(t)
  BY <1>2, <1>4, AskOrder DEF Drain, store, flight
<1>5. ASSUME NEW r \in Rows, RetryOne(t, r)
      PROVE  Ordered'
  BY <1>3, <1>5 DEF RetryOne, Curable, flight
<1>6. CASE RetryAll(t)
  BY <1>3, <1>6 DEF RetryAll, Curable, flight
<1>7. ASSUME NEW r \in Rows, AskDiscard(t, r)
      PROVE  Ordered'
  BY <1>2, <1>7 DEF AskDiscard, store, flight
<1>8. CASE Discard(t)
  <2>1. /\ pc'[t] = pc[t] \/ pc'[t] = "list"
        /\ UNCHANGED <<place, outbox, synced, pass, cur, reply>>
    BY <1>8, AskOrder DEF Discard, flight
  <2>2. /\ rejected' = rejected \ {inbox[t].row}
        /\ discarded' = discarded \cup ({inbox[t].row} \cap rejected)
    BY <1>8 DEF Discard
  <2>3. UnmadeNowhere' /\ OneTable'
    BY <1>0, <2>1, <2>2 DEF UnmadeNowhere, OneTable, Made
  <2> QED BY <2>1, <2>2, <2>3, TablesChange
<1>9. ASSUME NEW r \in Rows, DiscardBout(t, r)
      PROVE  Ordered'
  <2>1. /\ UNCHANGED <<place, synced, pc, pass, cur, reply>>
        /\ r \in rejected
        /\ rejected' = rejected \ OfBout(rejected, BoutOf[r])
        /\ outbox' = outbox \ OfBout(outbox, BoutOf[r])
        /\ discarded' = discarded \cup OfBout(rejected \cup outbox, BoutOf[r])
    BY <1>9 DEF DiscardBout, flight
  <2>2. UnmadeNowhere' /\ OneTable'
    BY <1>0, <2>1 DEF UnmadeNowhere, OneTable, Made, OfBout
  <2>3. pc[t] \in {"post", "answer"} /\ cur[t] \in outbox => cur[t] \in outbox'
    BY <2>1, OutBoutNotHeld DEF OfBout
  <2>4. outbox' \subseteq outbox /\ rejected' \subseteq rejected
    BY <2>1
  <2> HIDE DEF OfBout
  <2> QED BY <2>1, <2>2, <2>3, <2>4, TablesChange
<1>10. CASE RefreshState(t)
  BY <1>2, <1>10 DEF RefreshState, store, flight
<1> QED
  BY <1>1, <1>4, <1>5, <1>6, <1>7, <1>8, <1>9, <1>10
  DEF Operator, Tick, PressEntry, PressTap

(* The tables are as they were: what is left to show is about the tab.     *)
LEMMA StoreStays ==
  ASSUME Ordered, OneTabOnly, NEW t \in Tabs,
         UNCHANGED <<place, outbox, rejected, synced, discarded>>,
         OutIsHead(t)', HeldIsKnown(t)', OutIsFree(t)', LeftIsNoted(t)'
  PROVE  Ordered'
<1>1. UnmadeNowhere' /\ OneTable'
  BY DEF Ordered, UnmadeNowhere, OneTable, Made
<1> QED BY <1>1, OneTabSuffices

(* The walk goes past a row: what the row became is what is noted.         *)
LEMMA PassedOrdered ==
  ASSUME Typed, Ordered, OneTabOnly, NEW t \in Tabs, NEW r \in Rows, NEW counts \in BOOLEAN,
         NEW outcome \in Outcomes, Passed(t, r, outcome, counts),
         UNCHANGED <<store, pending>>,
         pc[t] \in Walking,
         \A q \in rejected : BoutOf[q] \in behind[t] \/ (q = r /\ outcome = "held"),
         outcome = "sent" => r \notin outbox
  PROVE  Ordered'
<1>0. /\ OutIsHead(t) /\ LeftIsNoted(t)
      /\ UNCHANGED <<place, outbox, rejected, synced, discarded, pending>>
  BY DEF Ordered, store
<1>1. /\ todo'[t] = todo[t] \ {r}
      /\ pc'[t] \in {"walk", "stopping"}
  BY DEF Passed, Typed, TypeOK
<1>2. OutIsHead(t)'
  BY <1>0, <1>1 DEF OutIsHead, Made
<1>3. /\ behind[t] \subseteq behind'[t]
      /\ outcome = "held" => BoutOf[r] \in behind'[t]
  BY DEF Passed, Note, Typed, TypeOK
<1>4. HeldIsKnown(t)'
  BY <1>0, <1>3 DEF HeldIsKnown
<1>5. OutIsFree(t)'
  BY <1>1 DEF OutIsFree
<1>6. LeftIsNoted(t)'
  <2> DEFINE noted(q) == /\ unsent'[t][BoutOf[q]].outcome # "none"
                         /\ q \in Taps => unsent'[t][BoutOf[q]].press
  <2> SUFFICES ASSUME NEW q \in (pending[t] \ todo'[t]) \cap outbox
               PROVE  BoutOf[q] \in behind'[t] \/ noted(q)
    BY <1>0 DEF LeftIsNoted
  <2>1. q \in Rows /\ BoutOf[q] \in Bouts /\ BoutOf[r] \in Bouts
    BY PadConstants DEF Typed, TypeOK
  <2>2. CASE outcome \in {"failed", "offline"}
    <3>1. unsent' = [unsent EXCEPT ![t][BoutOf[r]] =
                       [press |-> r \in Taps \/ @.press, outcome |-> outcome]]
      BY <2>2 DEF Passed, Note
    <3>2. CASE q = r
      BY <2>1, <2>2, <3>1, <3>2 DEF Typed, TypeOK
    <3>3. CASE q # r
      <4>1. \/ BoutOf[q] \in behind[t]
            \/ /\ unsent[t][BoutOf[q]].outcome # "none"
               /\ q \in Taps => unsent[t][BoutOf[q]].press
        BY <1>0, <1>1, <3>3 DEF LeftIsNoted
      <4> QED BY <1>3, <2>1, <2>2, <3>1, <4>1 DEF Typed, TypeOK
    <3> QED BY <3>2, <3>3
  <2>3. CASE outcome \in {"sent", "held"}
    <3>1. UNCHANGED unsent
      BY <2>3 DEF Passed, Note
    <3>2. CASE q = r
      BY <1>3, <2>3, <3>2
    <3>3. CASE q # r
      BY <1>0, <1>1, <1>3, <3>1, <3>3 DEF LeftIsNoted
    <3> QED BY <3>2, <3>3
  <2> QED BY <2>2, <2>3 DEF Outcomes
<1> QED BY <1>0, <1>2, <1>4, <1>5, <1>6, StoreStays

(* The steps of the walk.                                                  *)
LEMMA WalkOrdered ==
  ASSUME Typed, Ordered, OneTabOnly, NEW t \in Tabs, NEW r \in Rows,
         SkipBehindHeld(t, r) \/ WaitBehindUnsent(t, r) \/ Claim(t, r)
  PROVE  Ordered'
<1>0. /\ OutIsHead(t) /\ HeldIsKnown(t) /\ LeftIsNoted(t)
      /\ pc[t] = "walk" /\ r \in todo[t]
      /\ \A q \in todo[t] : place[r] <= place[q]
  BY DEF Ordered, SkipBehindHeld, WaitBehindUnsent, Claim, IsNext
<1>1. \A q \in rejected : BoutOf[q] \in behind[t]
  BY <1>0 DEF HeldIsKnown, Walking
<1>2. ASSUME todo' = [todo EXCEPT ![t] = @ \ {r}],
             UNCHANGED <<store, pc, pending, behind, unsent, flight>>,
             r \in outbox => BoutOf[r] \in behind[t]
      PROVE  Ordered'
  <2>1. /\ todo'[t] = todo[t] \ {r}
        /\ UNCHANGED <<place, outbox, rejected, synced, discarded>>
    BY <1>2 DEF store, Typed, TypeOK
  <2>2. OutIsHead(t)'
    BY <1>0, <1>2, <2>1 DEF OutIsHead, Made
  <2>3. HeldIsKnown(t)' /\ OutIsFree(t)'
    BY <1>0, <1>1, <1>2, <2>1 DEF HeldIsKnown, OutIsFree
  <2>4. LeftIsNoted(t)'
    BY <1>0, <1>2, <2>1 DEF LeftIsNoted
  <2> QED BY <2>1, <2>2, <2>3, <2>4, StoreStays
<1>3. CASE SkipBehindHeld(t, r)
  <2>1. BoutOf[r] \in behind[t]
    <3>1. Waits(t, r) = "behind-held"
      BY <1>3 DEF SkipBehindHeld
    <3>2. unsent[t][BoutOf[r]].outcome \in {"none", "failed", "offline"}
      BY PadConstants DEF Typed, TypeOK, Noted
    <3> QED BY <3>1, <3>2 DEF Waits
  <2> QED BY <1>2, <1>3, <2>1 DEF SkipBehindHeld
<1>4. CASE WaitBehindUnsent(t, r)
  <2>1. PICK o \in {"failed", "offline"} : Passed(t, r, o, o = "offline")
    BY <1>4 DEF WaitBehindUnsent
  <2>2. UNCHANGED <<store, pending>> /\ o \in Outcomes /\ o # "sent" /\ pc[t] \in Walking
    BY <1>0, <1>4 DEF WaitBehindUnsent, Outcomes, Walking
  <2> QED BY <1>1, <2>1, <2>2, PassedOrdered
<1>5. CASE Claim(t, r)
  <2>1. CASE r \notin outbox
    BY <1>2, <1>5, <2>1 DEF Claim, flight
  <2>2. CASE r \in outbox
    <3>1. /\ cur'[t] = r /\ pc'[t] = "post"
          /\ Waits(t, r) = "none"
          /\ UNCHANGED <<place, outbox, rejected, synced, discarded, pending, todo, behind,
                         unsent, reply>>
      BY <1>5, <2>2 DEF Claim, store, Typed, TypeOK
    <3>2. Waits(t, r)' = "none"
      BY <3>1 DEF Waits
    <3>3. OutIsHead(t)'
      BY <1>0, <3>1 DEF OutIsHead, Made
    <3>4. HeldIsKnown(t)'
      BY <1>1, <3>1 DEF HeldIsKnown
    <3>5. OutIsFree(t)'
      BY <2>2, <3>1, <3>2 DEF OutIsFree, Waits
    <3>6. LeftIsNoted(t)'
      BY <1>0, <3>1 DEF LeftIsNoted, Walking
    <3> QED BY <3>1, <3>3, <3>4, <3>5, <3>6, StoreStays
  <2> QED BY <2>1, <2>2
<1> QED BY <1>3, <1>4, <1>5

(* The POST and the filing of its answer: the walk waits meanwhile.        *)
LEMMA FlightOrdered ==
  ASSUME Typed, Ordered, OneTabOnly, NEW t \in Tabs,
         Server(t) \/ FileSent(t) \/ TrySecond(t) \/ FileHeld(t) \/ FileFailed(t)
  PROVE  Ordered'
<1>0. /\ OutIsHead(t) /\ HeldIsKnown(t) /\ OutIsFree(t) /\ LeftIsNoted(t)
      /\ UnmadeNowhere /\ OneTable
      /\ pc[t] \in {"post", "answer"}
      /\ UNCHANGED <<place, discarded, pending, todo, behind, unsent, cur>>
  BY DEF Ordered, Server, ServerTakes, ServerRefuses, FileSent, TrySecond, FileHeld,
    FileFailed, store, pass
<1>1. /\ cur[t] \in Rows /\ cur[t] \in outbox
      /\ \A q \in rejected : BoutOf[q] \in behind[t]
  BY <1>0 DEF HeldIsKnown, OutIsFree, Walking, Typed, FlightOK
<1>2. ASSUME outbox' \subseteq outbox, pc'[t] \in Walking
      PROVE  OutIsHead(t)' /\ LeftIsNoted(t)'
  BY <1>0, <1>2 DEF OutIsHead, LeftIsNoted, Made, Walking
<1>3. ASSUME UNCHANGED store, pc'[t] \in {"post", "answer", "filed"},
             pc'[t] = "filed" => reply'[t] # "sent"
      PROVE  Ordered'
  <2>1. UNCHANGED <<place, outbox, rejected, synced, discarded>>
    BY <1>3 DEF store
  <2>2. OutIsHead(t)' /\ LeftIsNoted(t)'
    BY <1>2, <1>3, <2>1 DEF Walking
  <2>3. HeldIsKnown(t)' /\ OutIsFree(t)'
    BY <1>0, <1>1, <1>3, <2>1 DEF HeldIsKnown, OutIsFree, Waits
  <2> QED BY <2>1, <2>2, <2>3, StoreStays
<1>4. CASE Server(t)
  BY <1>3, <1>4 DEF Server, ServerTakes, ServerRefuses, Typed, TypeOK
<1>5. CASE TrySecond(t)
  BY <1>3, <1>5 DEF TrySecond, Typed, TypeOK
<1>6. CASE FileFailed(t)
  <2>1. reply'[t] # "sent"
    BY <1>6 DEF FileFailed, Typed, TypeOK
  <2> QED BY <1>3, <1>6, <2>1 DEF FileFailed, Typed, TypeOK
<1>7. CASE FileSent(t)
  <2>1. /\ outbox' = outbox \ {cur[t]} /\ UNCHANGED rejected
        /\ synced' = synced \cup ({cur[t]} \cap Entries)
        /\ pc'[t] = "filed" /\ reply'[t] = "sent"
    BY <1>7 DEF FileSent, MarkSynced, Typed, TypeOK
  <2>2. UnmadeNowhere' /\ OneTable'
    BY <1>0, <1>1, <2>1 DEF UnmadeNowhere, OneTable, Made
  <2>3. HeldIsKnown(t)' /\ OutIsFree(t)'
    BY <1>0, <1>1, <2>1 DEF HeldIsKnown, OutIsFree, OneTable
  <2> QED BY <1>2, <2>1, <2>2, <2>3, OneTabSuffices DEF Walking
<1>8. CASE FileHeld(t)
  <2>1. /\ outbox' = outbox \ {cur[t]} /\ UNCHANGED synced
        /\ rejected' = rejected \cup {cur[t]}
        /\ pc'[t] = "filed" /\ reply'[t] = "held"
    BY <1>1, <1>8 DEF FileHeld, Quarantine, Typed, TypeOK
  <2>2. UnmadeNowhere' /\ OneTable'
    BY <1>0, <1>1, <2>1 DEF UnmadeNowhere, OneTable, Made
  <2>3. HeldIsKnown(t)' /\ OutIsFree(t)'
    BY <1>0, <1>1, <2>1 DEF HeldIsKnown, OutIsFree
  <2> QED BY <1>2, <2>1, <2>2, <2>3, OneTabSuffices DEF Walking
<1> QED BY <1>4, <1>5, <1>6, <1>7, <1>8

(* A step after which the tab walks nothing.                               *)
LEMMA RestOrdered ==
  ASSUME Ordered, OneTabOnly, NEW t \in Tabs,
         UNCHANGED store, pc'[t] \notin Walking,
         \/ UNCHANGED <<pending, todo>> /\ pc'[t] # "held"
         \/ pending'[t] = outbox /\ todo'[t] = outbox
         \/ pending'[t] = {} /\ todo'[t] = {},
         Typed
  PROVE  Ordered'
<1>1. UNCHANGED <<place, outbox, rejected, synced, discarded>>
  BY DEF store
<1>2. /\ todo'[t] \subseteq pending'[t] /\ \A r \in pending'[t] : Made(r)'
      /\ pc'[t] = "held" => todo'[t] = pending'[t]
  BY <1>1 DEF Ordered, OutIsHead, UnmadeNowhere, Made, Typed, TypeOK
<1> QED BY <1>1, <1>2, NotWalking, StoreStays

LEMMA EngineOrdered ==
  ASSUME Typed, Ordered, OneTabOnly, NEW t \in Tabs, Engine(t)
  PROVE  Ordered'
<1>1. CASE ListPending(t)
  <2>1. UNCHANGED store
    BY <1>1 DEF ListPending
  <2>2. pending'[t] = outbox /\ todo'[t] = outbox
    BY <1>1 DEF ListPending, Typed, TypeOK
  <2>3. pc'[t] \notin Walking
    <3>1. pc' = [pc EXCEPT ![t] = "ending"] \/ pc' = [pc EXCEPT ![t] = "held"]
      BY <1>1 DEF ListPending
    <3> QED BY <3>1 DEF Typed, TypeOK, Walking
  <2> QED BY <2>1, <2>2, <2>3, RestOrdered
<1>2. CASE ReadHeld(t)
  <2>1. /\ behind'[t] = {BoutOf[r] : r \in rejected}
        /\ pc'[t] = "walk"
        /\ UNCHANGED <<place, outbox, rejected, synced, discarded, pending, todo>>
    BY <1>2 DEF ReadHeld, store, Typed, TypeOK
  <2>2. OutIsHead(t)' /\ HeldIsKnown(t)' /\ OutIsFree(t)'
    BY <2>1 DEF Ordered, OutIsHead, HeldIsKnown, OutIsFree, Made
  <2>3. LeftIsNoted(t)'
    <3>1. pending[t] \ todo[t] = {}
      BY <1>2 DEF ReadHeld, Ordered, OutIsHead
    <3> QED BY <2>1, <3>1 DEF LeftIsNoted
  <2> QED BY <2>1, <2>2, <2>3, StoreStays
<1>3. CASE Release(t)
  <2>1. /\ pc[t] = "filed" /\ cur[t] \in Rows /\ reply[t] \in Outcomes
        /\ Passed(t, cur[t], reply[t], TRUE)
        /\ UNCHANGED <<store, pending>>
    BY <1>3 DEF Release, Typed, FlightOK, Outcomes
  <2>2. /\ \A q \in rejected :
             BoutOf[q] \in behind[t] \/ (q = cur[t] /\ reply[t] = "held")
        /\ reply[t] = "sent" => cur[t] \notin outbox
        /\ pc[t] \in Walking
    BY <2>1 DEF Ordered, HeldIsKnown, OutIsFree, Walking
  <2> QED BY <2>1, <2>2, PassedOrdered
<1>4. CASE FileStopped(t)
  BY <1>4, RestOrdered DEF FileStopped, pass, Typed, TypeOK, Walking
<1>5. CASE WalkedAll(t)
  BY <1>5, RestOrdered DEF WalkedAll, DropLocals, Typed, TypeOK, Walking
<1>6. CASE EmitWalked(t)
  BY <1>6, RestOrdered DEF EmitWalked, Again, Typed, TypeOK, Walking
<1>7. CASE EndPass(t)
  BY <1>7, RestOrdered DEF EndPass, Again, pass, Typed, TypeOK, Walking
<1>8. CASE EndStopped(t)
  BY <1>8, RestOrdered DEF EndStopped, DropLocals, Typed, TypeOK, Walking
<1> QED
  BY <1>1, <1>2, <1>3, <1>4, <1>5, <1>6, <1>7, <1>8, WalkOrdered, FlightOrdered DEF Engine

LEMMA NextOrdered == OneTabOnly /\ Typed /\ Ordered /\ [Next]_vars => Ordered'
<1> SUFFICES ASSUME OneTabOnly, Typed, Ordered, [Next]_vars PROVE Ordered'
  OBVIOUS
<1>1. CASE UNCHANGED vars
  BY <1>1 DEF vars, store, pass, flight, Ordered, UnmadeNowhere, OneTable, Made, OutIsHead,
    HeldIsKnown, OutIsFree, LeftIsNoted, Waits
<1>2. ASSUME NEW t \in Tabs, Reload(t)
      PROVE  Ordered'
  BY <1>2, RestOrdered DEF Reload, DropLocals, Typed, TypeOK, Walking
<1>3. ASSUME NEW t \in Tabs, Server(t)
      PROVE  Ordered'
  BY <1>3, FlightOrdered
<1> QED BY <1>1, <1>2, <1>3, OperatorOrdered, EngineOrdered DEF Next

LEMMA OrderedHolds == OneTabOnly /\ Spec => [](Typed /\ Ordered)
<1>1. OneTabOnly => OneTabOnly'
  BY DEF OneTabOnly
<1> QED BY <1>1, InitTyped, InitOrdered, NextTyped, NextOrdered, PTL DEF Spec

(* The row whose POST is out is queued, and no row of its bout is held.    *)
LEMMA OrderedIsSafe == Ordered => OutRowIsSafe
<1> SUFFICES ASSUME Ordered, NEW t \in Tabs, NEW r \in Rows, IsOut(t, r)
             PROVE  r \in outbox /\ OfBout(rejected, BoutOf[r]) = {}
  BY DEF OutRowIsSafe
<1>1. cur[t] = r /\ pc[t] \in {"post", "answer"}
  BY DEF IsOut
<1> QED BY <1>1, OutBoutNotHeld DEF Ordered, OutIsFree, OfBout

(* With one tab, the row whose POST is out stays in the queue until its    *)
(* answer is filed, and no row of its bout is held meanwhile: no Discard   *)
(* deletes a row the server may be saving (discardBoutOf).                 *)
THEOREM OutRowStays == OneTabOnly /\ Spec => []OutRowIsSafe
  BY OrderedIsSafe, OrderedHolds, PTL

(* With one tab, a row is in one table of the store at a time (markSynced, *)
(* quarantine, backInQueue and the two Discards each move it whole).       *)
THEOREM TablesAreDisjoint == OneTabOnly /\ Spec => []OneTable
<1>1. Typed /\ Ordered => OneTable
  BY DEF Ordered
<1> QED BY <1>1, OrderedHolds, PTL

(* A row of the pass that was left waiting is on record for its bout.      *)
LEMMA OrderedKeepsOrder == Typed /\ Ordered => OrderWithinPass
<1> SUFFICES ASSUME Typed, Ordered, NEW t \in Tabs, NEW r \in Rows,
                    NEW q \in pending[t] \cap outbox,
                    IsOut(t, r), BoutOf[q] = BoutOf[r], place[q] < place[r]
             PROVE  q \in Entries /\ r \in Entries
  BY DEF OrderWithinPass
<1>1. /\ cur[t] = r /\ pc[t] \in {"post", "answer"}
      /\ q \in Rows /\ place[q] \in Nat /\ place[r] \in Nat
  BY DEF IsOut, Typed, TypeOK
<1>2. q \notin todo[t]
  BY <1>1 DEF Ordered, OutIsHead
<1>3. \/ BoutOf[q] \in behind[t]
      \/ /\ unsent[t][BoutOf[q]].outcome # "none"
         /\ q \in Taps => unsent[t][BoutOf[q]].press
  BY <1>1, <1>2 DEF Ordered, LeftIsNoted, Walking
<1>4. Waits(t, r) = "none"
  BY <1>1 DEF Ordered, OutIsFree
<1> QED BY <1>1, <1>3, <1>4 DEF Waits, Rows

(* With one tab, a pass never sends a press over an earlier row of its     *)
(* bout that it listed and could not send, nor a row over such a press     *)
(* (BoutOrder), whatever Retry, Discard and the network do meanwhile.      *)
THEOREM PassKeepsOrder == OneTabOnly /\ Spec => []OrderWithinPass
  BY OrderedKeepsOrder, OrderedHolds, PTL

-----------------------------------------------------------------------------
(* The bar is green only over an empty queue.  A send that stops drops     *)
(* what was asked during it, so the bar must then say something else; it   *)
(* does because a send stops on a row that stays: its bout holds no        *)
(* refused row, and only a bout that does can be thrown away.              *)

JustHeld(t, b) == pc[t] = "filed" /\ reply[t] = "held" /\ BoutOf[cur[t]] = b

NoneHeldOf(b) == \A q \in rejected : BoutOf[q] # b

(* A bout with a fault on record still has a row the pass left behind.     *)
FaultStays(t) ==
  pc[t] \in Walking =>
    \A b \in Bouts :
      b \notin behind[t] /\ unsent[t][b].outcome # "none" /\ ~JustHeld(t, b) =>
        \E r \in (pending[t] \ todo[t]) \cap outbox : BoutOf[r] = b

(* The row that just failed waits in the queue.                            *)
FailedStays(t) ==
  pc[t] = "filed" /\ reply[t] \in {"failed", "offline"} =>
    cur[t] \in outbox /\ BoutOf[cur[t]] \notin behind[t]

(* A send that stopped left a row no Discard can take.                     *)
StoppedOnRow(t) ==
  pc[t] = "stopping" => status[t] # "idle" /\ \E r \in outbox : NoneHeldOf(BoutOf[r])

(* Green, with nothing asked that would look at the queue again.           *)
GreenIsEmpty(t) ==
  (pc[t] = "idle" \/ (pc[t] = "ended" /\ ~asked[t])) /\ status[t] = "idle" => outbox = {}

Shown == \A t \in Tabs : FaultStays(t) /\ FailedStays(t) /\ StoppedOnRow(t) /\ GreenIsEmpty(t)

LEMMA InitShown == Init => Shown
  BY DEF Init, Shown, FaultStays, FailedStays, StoppedOnRow, GreenIsEmpty, Walking

LEMMA OneTabShown ==
  ASSUME OneTabOnly, NEW t \in Tabs, FaultStays(t)', FailedStays(t)', StoppedOnRow(t)',
         GreenIsEmpty(t)'
  PROVE  Shown'
<1>1. \A u \in Tabs : u = t
  BY DEF OneTabOnly
<1> QED BY <1>1 DEF Shown

(* A walk's fault, and the row that just failed, are of bouts that hold    *)
(* nothing.                                                                *)
LEMMA FreeBouts ==
  ASSUME Ordered, Shown, NEW t \in Tabs
  PROVE  /\ pc[t] \in Walking =>
              \A b \in Bouts : b \notin behind[t] /\ ~JustHeld(t, b) => NoneHeldOf(b)
         /\ pc[t] = "filed" /\ reply[t] \in {"failed", "offline"} => NoneHeldOf(BoutOf[cur[t]])
  BY DEF Ordered, Shown, HeldIsKnown, FailedStays, NoneHeldOf, JustHeld, Walking

(* A step of the operator: rows of a bout that holds nothing stay queued,  *)
(* a row that joins the queue asks for a send, and the bar turns green     *)
(* over an empty queue only.                                               *)
LEMMA TablesShown ==
  ASSUME Typed, Ordered, Shown, OneTabOnly, NEW t \in Tabs,
         UNCHANGED <<pass, cur, reply>>,
         Ask(t) \/ (UNCHANGED <<pc, asked>> /\ outbox' \subseteq outbox),
         rejected' \subseteq rejected,
         \A q \in outbox : NoneHeldOf(BoutOf[q]) => q \in outbox',
         status'[t] = status[t] \/ (status'[t] = "idle" /\ outbox' = {})
  PROVE  Shown'
<1>0. FaultStays(t) /\ FailedStays(t) /\ StoppedOnRow(t) /\ GreenIsEmpty(t)
  BY DEF Shown
<1>1. /\ pc'[t] = pc[t] \/ (pc[t] = "idle" /\ pc'[t] = "list")
      /\ pc'[t] \in {"idle", "ended"} => asked'[t] \/ (asked'[t] = asked[t] /\ outbox' \subseteq outbox)
      /\ pc'[t] = "idle" => outbox' \subseteq outbox
  BY DEF Ask, Typed, TypeOK
<1>2. FaultStays(t)'
  <2> SUFFICES ASSUME pc[t] \in Walking, NEW b \in Bouts, b \notin behind[t],
                      unsent[t][b].outcome # "none", ~JustHeld(t, b)
               PROVE  \E r \in (pending[t] \ todo[t]) \cap outbox' : BoutOf[r] = b
    BY <1>1 DEF FaultStays, JustHeld, pass, Walking
  <2>1. PICK r \in (pending[t] \ todo[t]) \cap outbox : BoutOf[r] = b
    BY <1>0 DEF FaultStays
  <2>2. NoneHeldOf(b)
    BY FreeBouts
  <2> QED BY <2>1, <2>2
<1>3. FailedStays(t)'
  BY <1>0, <1>1, FreeBouts DEF FailedStays, pass
<1>4. StoppedOnRow(t)'
  <2> SUFFICES ASSUME pc[t] = "stopping"
               PROVE  status'[t] # "idle" /\ \E r \in outbox' : NoneHeldOf(BoutOf[r])'
    BY <1>1 DEF StoppedOnRow
  <2>1. PICK r \in outbox : NoneHeldOf(BoutOf[r])
    BY <1>0 DEF StoppedOnRow
  <2>2. r \in outbox' /\ NoneHeldOf(BoutOf[r])'
    BY <2>1 DEF NoneHeldOf
  <2> QED BY <1>0, <2>2 DEF StoppedOnRow
<1>5. GreenIsEmpty(t)'
  BY <1>0, <1>1 DEF GreenIsEmpty
<1> QED BY <1>2, <1>3, <1>4, <1>5, OneTabShown

LEMMA OperatorShown ==
  ASSUME Typed, Ordered, Shown, OneTabOnly, NEW t \in Tabs, Operator(t) \/ Tick(t)
  PROVE  Shown'
<1> USE DEF flight
<1>1. ASSUME NEW r \in Rows, AddRow(t, r)
      PROVE  Shown'
  BY <1>1, TablesShown DEF AddRow
<1>2. CASE Drain(t)
  BY <1>2, TablesShown DEF Drain, store
<1>3. ASSUME NEW r \in Rows, RetryOne(t, r)
      PROVE  Shown'
  BY <1>3, TablesShown DEF RetryOne, Requeue
<1>4. CASE RetryAll(t)
  BY <1>4, TablesShown DEF RetryAll, Requeue
<1>5. ASSUME NEW r \in Rows, AskDiscard(t, r)
      PROVE  Shown'
  BY <1>5, TablesShown DEF AskDiscard, store
<1>6. CASE Discard(t)
  <2>1. status'[t] = status[t] \/ (status'[t] = "idle" /\ outbox' = {})
    BY <1>6 DEF Discard, EmitResting, Typed, TypeOK
  <2>2. /\ UNCHANGED <<outbox, pass, cur, reply>> /\ rejected' \subseteq rejected
        /\ Ask(t) \/ UNCHANGED <<pc, asked>>
    BY <1>6 DEF Discard
  <2> QED BY <2>1, <2>2, TablesShown
<1>7. ASSUME NEW r \in Rows, DiscardBout(t, r)
      PROVE  Shown'
  <2>1. /\ UNCHANGED <<pc, asked, pass, cur, reply>>
        /\ r \in rejected
        /\ rejected' \subseteq rejected
        /\ outbox' = outbox \ OfBout(outbox, BoutOf[r])
        /\ EmitResting(t, outbox')
    BY <1>7 DEF DiscardBout
  <2>2. \A q \in outbox : NoneHeldOf(BoutOf[q]) => q \in outbox'
    BY <2>1 DEF OfBout, NoneHeldOf
  <2>3. status'[t] = status[t] \/ (status'[t] = "idle" /\ outbox' = {})
    BY <2>1 DEF EmitResting, Typed, TypeOK
  <2>4. outbox' \subseteq outbox
    BY <2>1
  <2> QED BY <2>1, <2>2, <2>3, <2>4, TablesShown
<1>8. CASE RefreshState(t)
  <2>1. status'[t] = status[t] \/ (status'[t] = "idle" /\ outbox' = {})
    BY <1>8 DEF RefreshState, EmitResting, store, Typed, TypeOK
  <2> QED BY <1>8, <2>1, TablesShown DEF RefreshState, store
<1> QED
  BY <1>1, <1>2, <1>3, <1>4, <1>5, <1>6, <1>7, <1>8
  DEF Operator, Tick, PressEntry, PressTap

(* The walk goes past a row.  A row that fails leaves a row of its bout in *)
(* the queue: itself, or the one it waits behind.                          *)
LEMMA PassedShown ==
  ASSUME Typed, Ordered, Shown, OneTabOnly, NEW t \in Tabs, NEW r \in Rows,
         NEW counts \in BOOLEAN, NEW outcome \in Outcomes, Passed(t, r, outcome, counts),
         UNCHANGED <<store, pending>>,
         pc[t] \in Walking, r \in todo[t],
         \A b \in Bouts : JustHeld(t, b) => outcome = "held" /\ b = BoutOf[r],
         outcome \in {"failed", "offline"} =>
           /\ NoneHeldOf(BoutOf[r])
           /\ \E q \in ((pending[t] \ todo[t]) \cup {r}) \cap outbox : BoutOf[q] = BoutOf[r]
  PROVE  Shown'
<1>0. /\ FaultStays(t) /\ r \in pending[t] /\ BoutOf[r] \in Bouts
      /\ UNCHANGED <<outbox, rejected, pending>>
  BY PadConstants DEF Shown, Ordered, OutIsHead, store
<1>1. /\ todo'[t] = todo[t] \ {r}
      /\ pc'[t] \in {"walk", "stopping"}
      /\ behind[t] \subseteq behind'[t]
      /\ outcome = "held" => BoutOf[r] \in behind'[t]
  BY DEF Passed, Note, Typed, TypeOK
<1>2. FaultStays(t)'
  <2> SUFFICES ASSUME NEW b \in Bouts, b \notin behind'[t], unsent'[t][b].outcome # "none"
               PROVE  \E q \in (pending[t] \ todo'[t]) \cap outbox : BoutOf[q] = b
    BY <1>0 DEF FaultStays
  <2>1. CASE b = BoutOf[r] /\ outcome \in {"failed", "offline"}
    BY <1>0, <1>1, <2>1
  <2>2. CASE ~(b = BoutOf[r] /\ outcome \in {"failed", "offline"})
    <3>1. unsent'[t][b] = unsent[t][b]
      BY <1>0, <2>2 DEF Passed, Note, Typed, TypeOK
    <3>2. b \notin behind[t] /\ ~JustHeld(t, b)
      BY <1>1
    <3>3. PICK q \in (pending[t] \ todo[t]) \cap outbox : BoutOf[q] = b
      BY <1>0, <3>1, <3>2 DEF FaultStays
    <3> QED BY <1>1, <3>3
  <2> QED BY <2>1, <2>2
<1>3. StoppedOnRow(t)'
  <2> SUFFICES ASSUME pc'[t] = "stopping"
               PROVE  status'[t] # "idle" /\ \E q \in outbox : NoneHeldOf(BoutOf[q])
    BY <1>0 DEF StoppedOnRow, NoneHeldOf
  <2>1. outcome \in {"failed", "offline"} /\ status'[t] \in {"offline", "error"}
    BY PadConstants DEF Passed, Typed, TypeOK
  <2> QED BY <2>1
<1>4. FailedStays(t)' /\ GreenIsEmpty(t)'
  BY <1>1 DEF FailedStays, GreenIsEmpty
<1> QED BY <1>2, <1>3, <1>4, OneTabShown

(* Between the claim and the filing the pass stands still.                 *)
LEMMA FlightShown ==
  ASSUME Typed, Ordered, Shown, OneTabOnly, NEW t \in Tabs,
         \/ Server(t) \/ FileSent(t) \/ TrySecond(t) \/ FileHeld(t) \/ FileFailed(t)
         \/ FileStopped(t)
  PROVE  Shown'
<1>0. /\ FaultStays(t) /\ OutIsHead(t)
      /\ pc[t] \in {"post", "answer"} /\ pc[t] \in Walking
      /\ cur[t] \in outbox /\ cur[t] \in todo[t]
      /\ BoutOf[cur[t]] \in Bouts /\ BoutOf[cur[t]] \notin behind[t]
      /\ UNCHANGED <<pending, todo, behind, unsent>>
  <2>1. /\ pc[t] \in {"post", "answer"}
        /\ UNCHANGED <<pending, todo, behind, unsent>>
    BY DEF Server, ServerTakes, ServerRefuses, FileSent, TrySecond, FileHeld, FileFailed,
      FileStopped, pass
  <2>2. Waits(t, cur[t]) = "none" /\ cur[t] \in outbox /\ cur[t] \in todo[t] /\ cur[t] \in Rows
    BY <2>1 DEF Ordered, OutIsFree, OutIsHead, Typed, FlightOK
  <2>3. FaultStays(t) /\ OutIsHead(t)
    BY DEF Shown, Ordered
  <2> QED BY <2>1, <2>2, <2>3, PadConstants DEF Walking, Waits
<1>1. NoneHeldOf(BoutOf[cur[t]])
  BY <1>0, FreeBouts DEF JustHeld
<1>2. ASSUME pc'[t] \in {"post", "answer", "filed"},
             outbox \ {cur[t]} \subseteq outbox',
             pc'[t] = "filed" /\ reply'[t] \in {"failed", "offline"} =>
               cur'[t] = cur[t] /\ UNCHANGED outbox
      PROVE  Shown'
  <2>1. FaultStays(t)'
    <3> SUFFICES ASSUME NEW b \in Bouts, b \notin behind[t], unsent[t][b].outcome # "none"
                 PROVE  \E r \in (pending[t] \ todo[t]) \cap outbox' : BoutOf[r] = b
      BY <1>0 DEF FaultStays
    <3>1. PICK r \in (pending[t] \ todo[t]) \cap outbox : BoutOf[r] = b
      BY <1>0 DEF FaultStays, JustHeld
    <3> QED BY <1>0, <1>2, <3>1
  <2>2. FailedStays(t)' /\ StoppedOnRow(t)' /\ GreenIsEmpty(t)'
    BY <1>0, <1>2 DEF FailedStays, StoppedOnRow, GreenIsEmpty
  <2> QED BY <2>1, <2>2, OneTabShown
<1> USE DEF Typed, TypeOK, store
<1>3. CASE Server(t)
  BY <1>2, <1>3 DEF Server, ServerTakes, ServerRefuses
<1>4. CASE FileSent(t)
  BY <1>2, <1>4 DEF FileSent, MarkSynced
<1>5. CASE TrySecond(t)
  BY <1>2, <1>5 DEF TrySecond
<1>6. CASE FileHeld(t)
  BY <1>2, <1>6 DEF FileHeld, Quarantine
<1>7. CASE FileFailed(t)
  BY <1>2, <1>7 DEF FileFailed
<1>8. CASE FileStopped(t)
  <2>1. /\ pc'[t] = "stopping" /\ status'[t] = "caller"
        /\ UNCHANGED <<outbox, rejected>>
    BY <1>8 DEF FileStopped
  <2>2. StoppedOnRow(t)'
    BY <1>0, <1>1, <2>1 DEF StoppedOnRow, NoneHeldOf
  <2>3. FaultStays(t)' /\ FailedStays(t)' /\ GreenIsEmpty(t)'
    BY <2>1 DEF FaultStays, FailedStays, GreenIsEmpty, Walking
  <2> QED BY <2>2, <2>3, OneTabShown
<1> QED BY <1>3, <1>4, <1>5, <1>6, <1>7, <1>8

(* Steps that end where nothing is shown yet.                              *)
LEMMA QuietShown ==
  ASSUME OneTabOnly, NEW t \in Tabs, pc'[t] \in {"list", "held", "ending"}
  PROVE  Shown'
<1>1. FaultStays(t)' /\ FailedStays(t)' /\ StoppedOnRow(t)' /\ GreenIsEmpty(t)'
  BY DEF FaultStays, FailedStays, StoppedOnRow, GreenIsEmpty, Walking
<1> QED BY <1>1, OneTabShown

LEMMA EngineShown ==
  ASSUME Typed, Ordered, Shown, OneTabOnly, NEW t \in Tabs, Engine(t)
  PROVE  Shown'
<1>0. FaultStays(t) /\ FailedStays(t) /\ StoppedOnRow(t) /\ GreenIsEmpty(t)
  BY DEF Shown
<1>1. ASSUME pc'[t] \in {"walk", "post"}, FaultStays(t)'
      PROVE  Shown'
  BY <1>1, OneTabShown DEF FailedStays, StoppedOnRow, GreenIsEmpty
<1>2. CASE ListPending(t)
  <2>1. pc' = [pc EXCEPT ![t] = "ending"] \/ pc' = [pc EXCEPT ![t] = "held"]
    BY <1>2 DEF ListPending
  <2> QED BY <2>1, QuietShown DEF Typed, TypeOK
<1>3. CASE ReadHeld(t)
  BY <1>1, <1>3 DEF ReadHeld, FaultStays, NotSent, Typed, TypeOK
<1>4. ASSUME NEW r \in Rows, SkipBehindHeld(t, r)
      PROVE  Shown'
  BY <1>0, <1>1, <1>4
  DEF SkipBehindHeld, IsNext, FaultStays, JustHeld, Walking, store, Typed, TypeOK
<1>5. ASSUME NEW r \in Rows, WaitBehindUnsent(t, r)
      PROVE  Shown'
  <2>1. PICK o \in {"failed", "offline"} : o = Waits(t, r) /\ Passed(t, r, o, o = "offline")
    BY <1>5 DEF WaitBehindUnsent
  <2>2. /\ UNCHANGED <<store, pending>> /\ o \in Outcomes
        /\ pc[t] = "walk" /\ pc[t] \in Walking /\ r \in todo[t]
    BY <1>5 DEF WaitBehindUnsent, IsNext, Outcomes, Walking
  <2>3. /\ BoutOf[r] \in Bouts /\ BoutOf[r] \notin behind[t]
        /\ unsent[t][BoutOf[r]].outcome # "none"
    BY <2>1, PadConstants DEF Waits
  <2>4. \A b \in Bouts : ~JustHeld(t, b)
    BY <2>2 DEF JustHeld
  <2>5. /\ NoneHeldOf(BoutOf[r])
        /\ \E q \in (pending[t] \ todo[t]) \cap outbox : BoutOf[q] = BoutOf[r]
    BY <1>0, <2>2, <2>3, <2>4, FreeBouts DEF FaultStays
  <2> QED BY <2>1, <2>2, <2>4, <2>5, PassedShown
<1>6. ASSUME NEW r \in Rows, Claim(t, r)
      PROVE  Shown'
  <2>1. /\ pc[t] = "walk" /\ pc'[t] \in {"walk", "post"}
        /\ todo'[t] \subseteq todo[t]
        /\ UNCHANGED <<outbox, pending, behind, unsent>>
    BY <1>6 DEF Claim, IsNext, store, Typed, TypeOK
  <2> QED BY <1>0, <1>1, <2>1 DEF FaultStays, JustHeld, Walking
<1>7. CASE Release(t)
  <2>1. /\ pc[t] = "filed" /\ cur[t] \in Rows /\ reply[t] \in Outcomes
        /\ pc[t] \in Walking /\ cur[t] \in todo[t]
        /\ Passed(t, cur[t], reply[t], TRUE)
        /\ UNCHANGED <<store, pending>>
    BY <1>7 DEF Release, Typed, FlightOK, Outcomes, Walking, Ordered, OutIsHead
  <2>2. reply[t] \in {"failed", "offline"} =>
          cur[t] \in outbox /\ NoneHeldOf(BoutOf[cur[t]])
    BY <1>0, <2>1, FreeBouts DEF FailedStays
  <2>3. \A b \in Bouts : JustHeld(t, b) => reply[t] = "held" /\ b = BoutOf[cur[t]]
    BY DEF JustHeld
  <2> QED BY <2>1, <2>2, <2>3, PassedShown
<1>8. CASE WalkedAll(t)
  BY <1>8, QuietShown DEF WalkedAll, Typed, TypeOK
<1>9. CASE EmitWalked(t)
  <2>1. CASE asked[t]
    BY <1>9, <2>1, QuietShown DEF EmitWalked, Again, Typed, TypeOK
  <2>2. CASE ~asked[t]
    <3>1. /\ pc'[t] = "ended" /\ status'[t] = WalkedStatus(t)
          /\ UNCHANGED outbox
      BY <1>9, <2>2 DEF EmitWalked, store, Typed, TypeOK
    <3>2. WalkedStatus(t) = "idle" => outbox = {}
      BY DEF WalkedStatus
    <3> QED BY <3>1, <3>2, OneTabShown
        DEF FaultStays, FailedStays, StoppedOnRow, GreenIsEmpty, Walking
  <2> QED BY <2>1, <2>2
<1>10. CASE EndPass(t)
  <2>1. CASE asked[t]
    BY <1>10, <2>1, QuietShown DEF EndPass, Again, Typed, TypeOK
  <2>2. CASE ~asked[t]
    <3>1. pc[t] = "ended" /\ pc'[t] = "idle" /\ UNCHANGED <<outbox, status>>
      BY <1>10, <2>2 DEF EndPass, store, Typed, TypeOK
    <3> QED BY <1>0, <2>2, <3>1, OneTabShown
        DEF FaultStays, FailedStays, StoppedOnRow, GreenIsEmpty, Walking
  <2> QED BY <2>1, <2>2
<1>11. CASE EndStopped(t)
  <2>1. pc[t] = "stopping" /\ pc'[t] = "idle" /\ UNCHANGED <<outbox, status>>
    BY <1>11 DEF EndStopped, store, Typed, TypeOK
  <2> QED BY <1>0, <2>1, OneTabShown
      DEF FaultStays, FailedStays, StoppedOnRow, GreenIsEmpty, Walking
<1> QED
  BY <1>2, <1>3, <1>4, <1>5, <1>6, <1>7, <1>8, <1>9, <1>10, <1>11, FlightShown DEF Engine

LEMMA NextShown == OneTabOnly /\ Typed /\ Ordered /\ Shown /\ [Next]_vars => Shown'
<1> SUFFICES ASSUME OneTabOnly, Typed, Ordered, Shown, [Next]_vars PROVE Shown'
  OBVIOUS
<1>1. CASE UNCHANGED vars
  BY <1>1 DEF vars, store, pass, flight, Shown, FaultStays, FailedStays, StoppedOnRow,
    GreenIsEmpty, JustHeld, NoneHeldOf
<1>2. ASSUME NEW t \in Tabs, Reload(t)
      PROVE  Shown'
  BY <1>2, QuietShown DEF Reload, Typed, TypeOK
<1>3. ASSUME NEW t \in Tabs, Server(t)
      PROVE  Shown'
  BY <1>3, FlightShown
<1> QED BY <1>1, <1>2, <1>3, OperatorShown, EngineShown DEF Next

(* With one tab, the bar is green at rest only over an empty queue: no     *)
(* press, Retry or Discard that meets the end of a send, or a send that    *)
(* stopped, is missed (emitWalked, emitResting, drain).                    *)
THEOREM GreenIsTrue == OneTabOnly /\ Spec => []GreenMeansSent
<1>1. OneTabOnly => OneTabOnly'
  BY DEF OneTabOnly
<1>2. OneTabOnly /\ Spec => []Shown
  BY <1>1, InitShown, OrderedHolds, NextShown, PTL DEF Spec
<1>3. Shown => GreenMeansSent
  BY DEF Shown, GreenIsEmpty, GreenMeansSent
<1> QED BY <1>2, <1>3, PTL
=============================================================================
