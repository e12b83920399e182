------------------------------ MODULE PadQueue ------------------------------
(***************************************************************************)
(* The offline queue of the scoring pad: the tables of its IndexedDB       *)
(* (apps/web-staff/src/offline/outbox.ts, press-queue.ts), the engine that *)
(* sends them (sync.ts, press-send.ts), the inbox of refused rows, and the *)
(* server as the queue meets it.                                           *)
(*                                                                         *)
(* A row is one hit or card (an entry) or one tap of the clock, of a round *)
(* or of a level step (a tap, `isTap`).  A row keeps its outbox id for     *)
(* life: a refused row remembers it (`outboxId`) and a Retry puts it back  *)
(* at that place.  So a table is the set of the rows in it, and the order  *)
(* of the queue is the order of `place`.                                   *)
(*                                                                         *)
(* Every step is one IndexedDB transaction, or the code between two        *)
(* awaits.  Each browser tab runs its own engine over the one store.       *)
(***************************************************************************)
EXTENDS Naturals, FiniteSets

CONSTANTS
  Bouts,        \* the bouts (matches) scored on this tablet
  Entries,      \* the client uuids of hits and cards
  Taps,         \* the client uuids of clock, round and level presses
  BoutOf,       \* the bout of each row
  Tabs,         \* the open tabs of the pad, each with its own SyncEngine
  MaxFailures,  \* maxConsecutiveFailures
  Troubles,     \* the answers other than "ok" that a POST can meet
  NoRow         \* no row is out

Rows == Entries \cup Taps

AllTroubles == {"bad", "refused", "fault", "offline", "stop"}

ASSUME PadConstants ==
  /\ Entries \cap Taps = {}
  /\ NoRow \notin Rows
  /\ BoutOf \in [Rows -> Bouts]
  /\ MaxFailures \in Nat \ {0}
  /\ Troubles \subseteq AllTroubles

VARIABLES
  lastId,    \* the auto-increment counter of the outbox
  place,     \* the outbox id of each row pressed so far, 0 for a row not pressed
  outbox,    \* the rows that wait in the queue
  rejected,  \* the rows the server refused, held in the inbox
  never,     \* the held rows whose code no new send can cure (can-send-again.ts)
  synced,    \* the entries filed as taken by the server
  discarded, \* the rows an operator destroyed in the inbox (history)
  landed,    \* the rows the server has saved, by client uuid
  pc,        \* where each engine is
  pending,   \* the rows its pass has listed
  todo,      \* those it has not yet walked past
  behind,    \* BoutOrder.held
  unsent,    \* BoutOrder.unsent
  fails,     \* consecutiveFailures
  met,       \* metFault, metNoNetwork
  asked,     \* askedAgain
  cur,       \* sendingId
  second,    \* the POST that is out is the second try of a 400
  reply,     \* the answer that came back, or what became of the row
  status,    \* what the engine last said (resting)
  inbox      \* the held row each tab is discarding, and whether it frees others

store  == <<lastId, place, outbox, rejected, never, synced, discarded>>
pass   == <<pending, todo, behind, unsent, fails, met>>
flight == <<cur, second, reply>>
vars   == <<store, landed, pc, pass, asked, flight, status, inbox>>

Stages == {"idle", "list", "held", "walk", "post", "answer", "filed",
           "stopping", "ending", "ended"}

Statuses == {"idle", "syncing", "offline", "error", "caller"}

NotDiscarding == [row |-> NoRow, frees |-> FALSE]

NotSent == [press |-> FALSE, outcome |-> "none"]

Noted == [press : BOOLEAN, outcome : {"none", "failed", "offline"}]

Replies == {"none", "ok"} \cup AllTroubles \cup {"sent", "held", "failed"}

-----------------------------------------------------------------------------
Init ==
  /\ lastId = 0 /\ place = [r \in Rows |-> 0]
  /\ outbox = {} /\ rejected = {} /\ never = {} /\ synced = {}
  /\ discarded = {} /\ landed = {}
  /\ pc = [t \in Tabs |-> "idle"]
  /\ pending = [t \in Tabs |-> {}]
  /\ todo = [t \in Tabs |-> {}]
  /\ behind = [t \in Tabs |-> {}]
  /\ unsent = [t \in Tabs |-> [b \in Bouts |-> NotSent]]
  /\ fails = [t \in Tabs |-> 0]
  /\ met = [t \in Tabs |-> {}]
  /\ asked = [t \in Tabs |-> FALSE]
  /\ cur = [t \in Tabs |-> NoRow]
  /\ second = [t \in Tabs |-> FALSE]
  /\ reply = [t \in Tabs |-> "none"]
  /\ status = [t \in Tabs |-> "idle"]
  /\ inbox = [t \in Tabs |-> NotDiscarding]

-----------------------------------------------------------------------------
(* Asking for a send.                                                      *)

(* drain: one send at a time; a send asked for while one runs is one more  *)
(* pass of that send.                                                      *)
Ask(t) ==
  IF pc[t] = "idle"
  THEN pc' = [pc EXCEPT ![t] = "list"] /\ asked' = [asked EXCEPT ![t] = FALSE]
  ELSE asked' = [asked EXCEPT ![t] = TRUE] /\ UNCHANGED pc

(* A row is written at the next id before any network call, and the press  *)
(* then asks for a send nobody waits for (sendBehind).                     *)
AddRow(t, r) ==
  /\ place[r] = 0
  /\ lastId' = lastId + 1
  /\ place' = [place EXCEPT ![r] = lastId + 1]
  /\ outbox' = outbox \cup {r}
  /\ Ask(t)
  /\ UNCHANGED <<rejected, never, synced, discarded, landed, pass, flight, status, inbox>>

(* enqueue, queueCard *)
PressEntry(t, r) == r \in Entries /\ AddRow(t, r)

(* queuePress, queueRoundPress, queueLevelPress *)
PressTap(t, r) == r \in Taps /\ AddRow(t, r)

(* A drain nobody can predict: a screen that opens, the browser's `online` *)
(* event, Retry on the bar, a new caller.                                  *)
Drain(t) ==
  /\ Ask(t)
  /\ UNCHANGED <<store, landed, pass, flight, status, inbox>>

(* useSendWhileOffline: every five seconds while the engine says offline   *)
(* and rows wait.                                                          *)
Tick(t) ==
  /\ status[t] = "offline"
  /\ outbox # {}
  /\ Drain(t)

-----------------------------------------------------------------------------
(* One pass of the queue (sendQueue, sendPass).                            *)

(* getAllPending, read in id order.  An empty queue ends the pass.         *)
ListPending(t) ==
  /\ pc[t] = "list"
  /\ met' = [met EXCEPT ![t] = {}]
  /\ pending' = [pending EXCEPT ![t] = outbox]
  /\ todo' = [todo EXCEPT ![t] = outbox]
  /\ IF outbox = {}
     THEN pc' = [pc EXCEPT ![t] = "ending"] /\ UNCHANGED status
     ELSE /\ pc' = [pc EXCEPT ![t] = "held"]
          /\ status' = [status EXCEPT ![t] = "syncing"]
  /\ UNCHANGED <<store, landed, behind, unsent, fails, asked, flight, inbox>>

(* boutsBehindHeldRow: a second read of the store, after the list.         *)
ReadHeld(t) ==
  /\ pc[t] = "held"
  /\ behind' = [behind EXCEPT ![t] = {BoutOf[r] : r \in rejected}]
  /\ unsent' = [unsent EXCEPT ![t] = [b \in Bouts |-> NotSent]]
  /\ fails' = [fails EXCEPT ![t] = 0]
  /\ pc' = [pc EXCEPT ![t] = "walk"]
  /\ UNCHANGED <<store, landed, pending, todo, met, asked, flight, status, inbox>>

IsNext(t, r) ==
  /\ pc[t] = "walk"
  /\ r \in todo[t]
  /\ \A q \in todo[t] : place[r] <= place[q]

(* Slip: a press waits behind an unsent press only.                        *)
Waits_BehindPressOnly(t, r) ==
  LET before == unsent[t][BoutOf[r]] IN
  IF BoutOf[r] \in behind[t] THEN "behind-held"
  ELSE IF before.press THEN before.outcome
  ELSE "none"

(* BoutOrder.waits: a tap waits behind every row of its bout this pass     *)
(* could not send, and every row waits behind a tap it could not send.     *)
Waits(t, r) ==
  LET before == unsent[t][BoutOf[r]] IN
  IF BoutOf[r] \in behind[t] THEN "behind-held"
  ELSE IF before.press \/ r \in Taps THEN before.outcome
  ELSE "none"

(* Slip: the bout of a row held in this pass is not marked.                *)
Note_ForgetsHeld(t, r, outcome) ==
  LET b == BoutOf[r] IN
  /\ behind' = behind
  /\ unsent' = IF outcome \in {"failed", "offline"}
               THEN [unsent EXCEPT ![t][b] =
                       [press |-> r \in Taps \/ @.press, outcome |-> outcome]]
               ELSE unsent

(* BoutOrder.note *)
Note(t, r, outcome) ==
  LET b == BoutOf[r] IN
  /\ behind' = IF outcome = "held" THEN [behind EXCEPT ![t] = @ \cup {b}] ELSE behind
  /\ unsent' = IF outcome \in {"failed", "offline"}
               THEN [unsent EXCEPT ![t][b] =
                       [press |-> r \in Taps \/ @.press, outcome |-> outcome]]
               ELSE unsent

(* What the walk does with a row's outcome: it is noted, failures in a row *)
(* are counted, and at the limit the send stops and says why.  A row that  *)
(* only waits behind a fault of its own bout is not counted.               *)
Passed(t, r, outcome, counts) ==
  LET n == IF ~counts THEN fails[t]
           ELSE IF outcome \in {"failed", "offline"} THEN fails[t] + 1 ELSE 0
      stop == counts /\ n >= MaxFailures
  IN
  /\ Note(t, r, outcome)
  /\ todo' = [todo EXCEPT ![t] = @ \ {r}]
  /\ met' = [met EXCEPT ![t] = @ \cup ({outcome} \cap {"failed", "offline"})]
  /\ fails' = [fails EXCEPT ![t] = IF stop THEN 0 ELSE n]
  /\ pc' = [pc EXCEPT ![t] = IF stop THEN "stopping" ELSE "walk"]
  /\ status' = IF stop
               THEN [status EXCEPT ![t] = IF outcome = "offline" THEN "offline" ELSE "error"]
               ELSE status

(* A row of a bout that holds a refused row: nothing is tried.             *)
SkipBehindHeld(t, r) ==
  /\ IsNext(t, r)
  /\ Waits(t, r) = "behind-held"
  /\ todo' = [todo EXCEPT ![t] = @ \ {r}]
  /\ UNCHANGED <<store, landed, pc, pending, behind, unsent, fails, met, asked, flight, status, inbox>>

(* A row that waits for a row of its bout this pass could not send.        *)
WaitBehindUnsent(t, r) ==
  /\ IsNext(t, r)
  /\ Waits(t, r) \in {"failed", "offline"}
  /\ Passed(t, r, Waits(t, r), Waits(t, r) = "offline")
  /\ UNCHANGED <<store, landed, pending, asked, flight, inbox>>

(* claimForSend: the row is read again and the claim noted in one          *)
(* transaction; a row that left the queue since it was listed is skipped.  *)
Claim(t, r) ==
  /\ IsNext(t, r)
  /\ Waits(t, r) = "none"
  /\ IF r \in outbox
     THEN /\ cur' = [cur EXCEPT ![t] = r]
          /\ pc' = [pc EXCEPT ![t] = "post"]
          /\ UNCHANGED todo
     ELSE /\ todo' = [todo EXCEPT ![t] = @ \ {r}]
          /\ UNCHANGED <<cur, pc>>
  /\ UNCHANGED <<store, landed, pending, behind, unsent, fails, met, asked, second, reply, status,
                 inbox>>

-----------------------------------------------------------------------------
(* The POST and its answer.                                                *)

(* The server saves the row, or answers the copy it saved before.          *)
ServerTakes(t) ==
  /\ pc[t] = "post"
  /\ landed' = landed \cup {cur[t]}
  /\ reply' = [reply EXCEPT ![t] = "ok"]
  /\ pc' = [pc EXCEPT ![t] = "answer"]
  /\ UNCHANGED <<store, pass, asked, cur, second, status, inbox>>

(* Any other end.  A dead network or a fault can lose the answer of a row  *)
(* the server saved.  A saved row is never judged again (a 400), but who   *)
(* may score is asked before the saved copy is looked up.                  *)
ServerRefuses(t) ==
  /\ pc[t] = "post"
  /\ \E trouble \in Troubles :
       /\ trouble = "bad" => cur[t] \notin landed
       /\ reply' = [reply EXCEPT ![t] = trouble]
       /\ \/ UNCHANGED landed
          \/ trouble \in {"offline", "fault"} /\ landed' = landed \cup {cur[t]}
  /\ pc' = [pc EXCEPT ![t] = "answer"]
  /\ UNCHANGED <<store, pass, asked, cur, second, status, inbox>>

(* markSynced, dropSentPress: the row leaves the queue, and an entry is    *)
(* filed as taken, in one transaction.                                     *)
MarkSynced(r) ==
  /\ outbox' = outbox \ {r}
  /\ synced' = synced \cup ({r} \cap Entries)

(* Slip: a conflict read as "already on the server".                       *)
IsSaved_Conflict(answer) == answer \in {"ok", "refused"}

(* Only a 2xx says the server has the row.                                 *)
IsSaved(answer) == answer = "ok"

FileSent(t) ==
  /\ pc[t] = "answer" /\ IsSaved(reply[t])
  /\ MarkSynced(cur[t])
  /\ reply' = [reply EXCEPT ![t] = "sent"]
  /\ pc' = [pc EXCEPT ![t] = "filed"]
  /\ status' = [status EXCEPT ![t] = "syncing"]
  /\ UNCHANGED <<lastId, place, rejected, never, discarded, landed, pass, asked, cur, second,
                 inbox>>

(* retryWithFreshSequence: a 400 for an entry is sent once more.           *)
TrySecond(t) ==
  /\ pc[t] = "answer" /\ reply[t] = "bad"
  /\ cur[t] \in Entries /\ ~second[t]
  /\ second' = [second EXCEPT ![t] = TRUE]
  /\ reply' = [reply EXCEPT ![t] = "none"]
  /\ pc' = [pc EXCEPT ![t] = "post"]
  /\ UNCHANGED <<store, landed, pass, asked, cur, status, inbox>>

(* Slip: a refused row is deleted.                                         *)
Quarantine_Deletes(r) ==
  /\ outbox' = outbox \ {r}
  /\ UNCHANGED <<rejected, never>>

(* quarantine: a refused row moves to the inbox with its code, unless it   *)
(* left the queue meanwhile.                                               *)
Quarantine(r) ==
  /\ outbox' = outbox \ {r}
  /\ rejected' = rejected \cup ({r} \cap outbox)
  /\ \E uncurable \in SUBSET ({r} \cap outbox) : never' = never \cup uncurable

(* A refusal about the bout, a 400 of a tap, a second 400 of an entry.     *)
FileHeld(t) ==
  /\ pc[t] = "answer"
  /\ \/ reply[t] = "refused"
     \/ reply[t] = "bad" /\ (cur[t] \in Taps \/ second[t])
  /\ Quarantine(cur[t])
  /\ reply' = [reply EXCEPT ![t] = "held"]
  /\ pc' = [pc EXCEPT ![t] = "filed"]
  /\ status' = [status EXCEPT ![t] = "syncing"]
  /\ UNCHANGED <<lastId, place, synced, discarded, landed, pass, asked, cur, second, inbox>>

(* markFailed: the row stays in the queue.                                 *)
FileFailed(t) ==
  /\ pc[t] = "answer" /\ reply[t] \in {"fault", "offline"}
  /\ reply' = [reply EXCEPT ![t] = IF @ = "fault" THEN "failed" ELSE "offline"]
  /\ pc' = [pc EXCEPT ![t] = "filed"]
  /\ UNCHANGED <<store, landed, pass, asked, cur, second, status, inbox>>

(* waitForCaller, read-only mode: the row waits, uncounted, and the send   *)
(* ends.                                                                   *)
FileStopped(t) ==
  /\ pc[t] = "answer" /\ reply[t] = "stop"
  /\ status' = [status EXCEPT ![t] = "caller"]
  /\ pc' = [pc EXCEPT ![t] = "stopping"]
  /\ cur' = [cur EXCEPT ![t] = NoRow]
  /\ second' = [second EXCEPT ![t] = FALSE]
  /\ reply' = [reply EXCEPT ![t] = "none"]
  /\ UNCHANGED <<store, landed, pass, asked, inbox>>

(* sendClaimed lets the row go, and the walk goes on with its outcome.     *)
Release(t) ==
  /\ pc[t] = "filed"
  /\ Passed(t, cur[t], reply[t], TRUE)
  /\ cur' = [cur EXCEPT ![t] = NoRow]
  /\ second' = [second EXCEPT ![t] = FALSE]
  /\ reply' = [reply EXCEPT ![t] = "none"]
  /\ UNCHANGED <<store, landed, pending, asked, inbox>>

-----------------------------------------------------------------------------
(* The end of a pass.                                                      *)

(* The list and the BoutOrder are locals of sendPass.                      *)
DropLocals(t) ==
  /\ pending' = [pending EXCEPT ![t] = {}]
  /\ todo' = [todo EXCEPT ![t] = {}]
  /\ behind' = [behind EXCEPT ![t] = {}]
  /\ unsent' = [unsent EXCEPT ![t] = [b \in Bouts |-> NotSent]]
  /\ fails' = [fails EXCEPT ![t] = 0]

WalkedAll(t) ==
  /\ pc[t] = "walk" /\ todo[t] = {}
  /\ pc' = [pc EXCEPT ![t] = "ending"]
  /\ DropLocals(t)
  /\ UNCHANGED <<store, landed, met, asked, flight, status, inbox>>

Again(t) ==
  /\ pc' = [pc EXCEPT ![t] = "list"]
  /\ asked' = [asked EXCEPT ![t] = FALSE]

(* Slip: whatever still waits is an error.                                 *)
WalkedStatus_NeverOffline(t) == IF outbox = {} THEN "idle" ELSE "error"

(* emitWalked: green, or what still waits.                                 *)
WalkedStatus(t) ==
  CASE outbox = {} -> "idle"
    [] outbox # {} /\ "failed" \notin met[t] /\ ("offline" \in met[t] \/ rejected = {}) ->
         "offline"
    [] OTHER -> "error"

EmitWalked(t) ==
  /\ pc[t] = "ending"
  /\ IF asked[t]
     THEN Again(t) /\ UNCHANGED status
     ELSE /\ pc' = [pc EXCEPT ![t] = "ended"]
          /\ status' = [status EXCEPT ![t] = WalkedStatus(t)]
          /\ UNCHANGED asked
  /\ met' = [met EXCEPT ![t] = {}]
  /\ UNCHANGED <<store, landed, pending, todo, behind, unsent, fails, flight, inbox>>

(* Slip: a send asked for during the emit is not looked at again.          *)
EndPass_NotAgain(t) ==
  /\ pc[t] = "ended"
  /\ pc' = [pc EXCEPT ![t] = "idle"]
  /\ UNCHANGED <<store, landed, pass, asked, flight, status, inbox>>

(* The loop's own test, after the emit: a send asked for during it runs.   *)
EndPass(t) ==
  /\ pc[t] = "ended"
  /\ IF asked[t] THEN Again(t)
     ELSE pc' = [pc EXCEPT ![t] = "idle"] /\ UNCHANGED asked
  /\ UNCHANGED <<store, landed, pass, flight, status, inbox>>

(* A pass that stopped ends the send: what was asked meanwhile is dropped. *)
EndStopped(t) ==
  /\ pc[t] = "stopping"
  /\ pc' = [pc EXCEPT ![t] = "idle"]
  /\ asked' = [asked EXCEPT ![t] = FALSE]
  /\ DropLocals(t)
  /\ met' = [met EXCEPT ![t] = {}]
  /\ UNCHANGED <<store, landed, flight, status, inbox>>

-----------------------------------------------------------------------------
(* The inbox.                                                              *)

(* Slip: the row goes back in the queue and stays in the inbox.            *)
Requeue_KeepsHeld(held) ==
  /\ outbox' = outbox \cup held
  /\ UNCHANGED rejected

(* backInQueue, for a set of rows still held when the transaction runs.    *)
Requeue(held) ==
  /\ outbox' = outbox \cup held
  /\ rejected' = rejected \ held

(* Slip: every held row is put back.                                       *)
Curable_All == rejected

(* canSendAgain: a held row no new send can cure stays held.               *)
Curable == rejected \ never

(* requeueRejected: every held row a new send can cure.                    *)
RetryAll(t) ==
  /\ Curable # {}
  /\ Requeue(Curable)
  /\ Ask(t)
  /\ UNCHANGED <<lastId, place, never, synced, discarded, landed, pass, flight, status, inbox>>

(* requeueRejectedEntry: offered only for a row a new send can cure.       *)
RetryOne(t, r) ==
  /\ r \in Curable
  /\ Requeue({r})
  /\ Ask(t)
  /\ UNCHANGED <<lastId, place, never, synced, discarded, landed, pass, flight, status, inbox>>

(* emitResting: with no row left the engine says idle again, else it says  *)
(* what it last said.                                                      *)
EmitResting(t, queue) == status' = [status EXCEPT ![t] = IF queue = {} THEN "idle" ELSE @]

(* refreshState: the inbox asks when it opens, and a Retry that found      *)
(* nothing to put back.                                                    *)
RefreshState(t) ==
  /\ EmitResting(t, outbox)
  /\ UNCHANGED <<store, landed, pc, pass, asked, flight, inbox>>

(* holdsBack: asked before the transaction of the Discard.                 *)
AskDiscard(t, r) ==
  /\ inbox[t] = NotDiscarding
  /\ r \in rejected
  /\ inbox' = [inbox EXCEPT ![t] =
                 [row |-> r, frees |-> \E q \in outbox : BoutOf[q] = BoutOf[r]]]
  /\ UNCHANGED <<store, landed, pc, pass, asked, flight, status>>

(* discardRejectedEntry: the row is destroyed if it is still held; a row   *)
(* with others of its bout behind it frees them, and they are sent now.    *)
Discard(t) ==
  LET r == inbox[t].row IN
  /\ inbox[t] # NotDiscarding
  /\ rejected' = rejected \ {r}
  /\ never' = never \ {r}
  /\ discarded' = discarded \cup ({r} \cap rejected)
  /\ inbox' = [inbox EXCEPT ![t] = NotDiscarding]
  /\ UNCHANGED <<lastId, place, outbox, synced, landed, pass, flight>>
  /\ IF inbox[t].frees THEN Ask(t) /\ UNCHANGED status
     ELSE EmitResting(t, outbox) /\ UNCHANGED <<pc, asked>>

OfBout(S, b) == {q \in S : BoutOf[q] = b}

(* discardBoutOf: while one row of the bout is held, every row of the bout *)
(* leaves the tablet.                                                      *)
DiscardBout(t, r) ==
  /\ r \in rejected
  /\ LET b == BoutOf[r] IN
     /\ rejected' = rejected \ OfBout(rejected, b)
     /\ outbox' = outbox \ OfBout(outbox, b)
     /\ never' = never \ OfBout(never, b)
     /\ discarded' = discarded \cup OfBout(rejected \cup outbox, b)
  /\ EmitResting(t, outbox \ OfBout(outbox, BoutOf[r]))
  /\ UNCHANGED <<lastId, place, synced, landed, pc, pass, asked, flight, inbox>>

-----------------------------------------------------------------------------
(* A tab reloaded or killed and opened again: the store stays, the engine  *)
(* starts anew, and the screen that opens sends the queue.  A POST that    *)
(* was out may still be saved by the server.                               *)
Reload(t) ==
  /\ \/ UNCHANGED landed
     \/ pc[t] = "post" /\ landed' = landed \cup {cur[t]}
  /\ pc' = [pc EXCEPT ![t] = "list"]
  /\ asked' = [asked EXCEPT ![t] = FALSE]
  /\ DropLocals(t)
  /\ met' = [met EXCEPT ![t] = {}]
  /\ cur' = [cur EXCEPT ![t] = NoRow]
  /\ second' = [second EXCEPT ![t] = FALSE]
  /\ reply' = [reply EXCEPT ![t] = "none"]
  /\ status' = [status EXCEPT ![t] = "idle"]
  /\ inbox' = [inbox EXCEPT ![t] = NotDiscarding]
  /\ UNCHANGED store

-----------------------------------------------------------------------------
(* What the engine of one tab does by itself, once a send was asked for.   *)
Engine(t) ==
  \/ ListPending(t) \/ ReadHeld(t)
  \/ \E r \in Rows : SkipBehindHeld(t, r) \/ WaitBehindUnsent(t, r) \/ Claim(t, r)
  \/ FileSent(t) \/ TrySecond(t) \/ FileHeld(t) \/ FileFailed(t) \/ FileStopped(t)
  \/ Release(t) \/ WalkedAll(t) \/ EmitWalked(t) \/ EndPass(t) \/ EndStopped(t)

Operator(t) ==
  \/ \E r \in Rows : \/ PressEntry(t, r) \/ PressTap(t, r) \/ RetryOne(t, r)
                     \/ AskDiscard(t, r) \/ DiscardBout(t, r)
  \/ RetryAll(t) \/ Discard(t) \/ RefreshState(t) \/ Drain(t)

Server(t) == ServerTakes(t) \/ ServerRefuses(t)

Next == \E t \in Tabs : Engine(t) \/ Operator(t) \/ Server(t) \/ Tick(t) \/ Reload(t)

Spec == Init /\ [][Next]_vars

-----------------------------------------------------------------------------
TypeOK ==
  /\ lastId \in Nat
  /\ place \in [Rows -> Nat]
  /\ outbox \subseteq Rows
  /\ rejected \subseteq Rows
  /\ never \subseteq rejected
  /\ synced \subseteq Entries
  /\ discarded \subseteq Rows
  /\ landed \subseteq Rows
  /\ pc \in [Tabs -> Stages]
  /\ pending \in [Tabs -> SUBSET Rows]
  /\ todo \in [Tabs -> SUBSET Rows]
  /\ behind \in [Tabs -> SUBSET Bouts]
  /\ unsent \in [Tabs -> [Bouts -> Noted]]
  /\ fails \in [Tabs -> Nat]
  /\ met \in [Tabs -> SUBSET {"failed", "offline"}]
  /\ asked \in [Tabs -> BOOLEAN]
  /\ cur \in [Tabs -> Rows \cup {NoRow}]
  /\ second \in [Tabs -> BOOLEAN]
  /\ reply \in [Tabs -> Replies]
  /\ status \in [Tabs -> Statuses]
  /\ inbox \in [Tabs -> [row : Rows \cup {NoRow}, frees : BOOLEAN]]

-----------------------------------------------------------------------------
(* Safety.                                                                 *)

Made(r) == place[r] # 0

(* A hit, a card or a press a referee made is never destroyed by the queue *)
(* (outbox.ts, quarantine: "stops a scored hit being destroyed on the      *)
(* way"): it waits, it is held, the server has it, or an operator threw it *)
(* away in the inbox.  With any number of tabs sending one store.          *)
NoRowLost ==
  \A r \in Rows : Made(r) =>
    r \in outbox \cup rejected \cup discarded \cup (IF r \in Taps THEN landed ELSE synced)

(* An entry filed as taken is on the server (markSynced): only a 2xx is,   *)
(* never a 409, a fault or a lost answer.                                  *)
SyncedIsLanded == synced \subseteq landed

(* Row r of tab t is out: claimed, and its answer not yet filed.           *)
IsOut(t, r) == cur[t] = r /\ pc[t] \in {"post", "answer"}

(* The row whose POST is out stays in the queue until its answer is filed, *)
(* and no row of its bout is held meanwhile: the proof discardBoutOf leans *)
(* on ("a row whose POST is out must not be deleted, or the server holds   *)
(* an entry the tablet forgot").  One tab.                                 *)
OutRowIsSafe ==
  \A t \in Tabs : \A r \in Rows :
    IsOut(t, r) => r \in outbox /\ OfBout(rejected, BoutOf[r]) = {}

(* One tab: a row is in one table of the store at a time, so a hit is      *)
(* never both "refused" in the inbox and filed as taken, nor queued twice. *)
OneTable ==
  /\ outbox \cap (rejected \cup synced \cup discarded) = {}
  /\ rejected \cap (synced \cup discarded) = {}

(* BoutOrder, for the rows a pass listed: a press is never out while an    *)
(* earlier row of its bout still waits, and no row is out while an earlier *)
(* press of its bout still waits.  Two entries do not depend on each other.*)
OrderWithinPass ==
  \A t \in Tabs : \A r \in Rows, q \in pending[t] \cap outbox :
    IsOut(t, r) /\ BoutOf[q] = BoutOf[r] /\ place[q] < place[r] =>
      q \in Entries /\ r \in Entries

(* The bar is not green over a row that waits (emitWalked, emitResting): a *)
(* press, a Retry or a Discard that meets the end of a send is not missed. *)
GreenMeansSent ==
  \A t \in Tabs : pc[t] = "idle" /\ status[t] = "idle" => outbox = {}

\* Where a row is, to the referee.
Where ==
  [r \in Rows |-> IF place[r] = 0 THEN "unmade"
                  ELSE IF r \in outbox THEN "waiting"
                  ELSE IF r \in rejected THEN "held"
                  ELSE IF r \in discarded THEN "gone" ELSE "sent"]

Promise == INSTANCE Delivery WITH where <- Where, saved <- landed

(* The queue keeps its promise, with one tab: whatever the passes, the     *)
(* retries, the reloads and the inbox do, a row only moves as Delivery     *)
(* says, and the server saves no row that was thrown away (discardBoutOf). *)
KeepsPromise == Promise!Spec

(* press-send.ts: "While a row of a bout is HELD, every row of that bout   *)
(* waits.  A Retry or a Discard of the held row, in the inbox, frees them",*)
(* in the order they were made (backInQueue).  The code breaks it.         *)
PressNeverPassesRow ==
  \A t \in Tabs : \A r \in Taps, q \in outbox \cup rejected :
    IsOut(t, r) /\ BoutOf[q] = BoutOf[r] => place[q] >= place[r]

-----------------------------------------------------------------------------
(* Liveness.  The engine takes its steps, every request ends, the interval *)
(* fires, and a network that answers again and again takes a row in the    *)
(* end.                                                                    *)

Fairness ==
  \A t \in Tabs :
    /\ WF_vars(Engine(t))
    /\ WF_vars(Server(t))
    /\ WF_vars(Tick(t))
    /\ \A r \in Rows : SF_vars(cur[t] = r /\ ServerTakes(t))

FairSpec == Spec /\ Fairness

(* Where nothing but the network fails, and the pad is not reloaded for    *)
(* ever, every row pressed is sent, with no tap after the press: a send    *)
(* the network stopped is tried again although what was asked during it is *)
(* dropped (useSendWhileOffline).                                          *)
EveryRowIsSent ==
  <>[][\A t \in Tabs : ~Reload(t)]_vars => \A r \in Rows : r \in outbox ~> r \notin outbox

=============================================================================
