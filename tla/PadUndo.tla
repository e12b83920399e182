------------------------------ MODULE PadUndo ------------------------------
(***************************************************************************)
(* "Undo last entry" over the offline queue (apps/web-staff/src:           *)
(* lib/clear-last.ts, offline/take-back.ts, lib/settle-undone.ts,          *)
(* lib/watch-undone.ts).  The newest hit or card of a bout is voided on    *)
(* the server, or taken off the tablet and written down in `undone` until  *)
(* the server was asked for it (the settle).                               *)
(*                                                                         *)
(* The undo, the settle and the engine of PadQueue run side by side in one *)
(* tab: every step is one store transaction or one answer of the server.   *)
(* A void and the settle's own record of it are one step: a settle that    *)
(* dies between them is a void whose answer was lost, which is a step too. *)
(***************************************************************************)
EXTENDS PadQueue

CONSTANTS
  Closers,      \* the taps that close the entries before them: rounds, level steps
  LateRows      \* the rows whose POST can still reach the server when nobody waits for it

ASSUME UndoConstants == Closers \subseteq Taps /\ LateRows \subseteq Rows

VARIABLES
  voided,   \* the entries voided on the server
  undone,   \* the entries taken off the tablet, the server not yet asked
  notices,  \* the entries whose undo was not carried out, and the screen said so
  review,   \* the entries whose undo went for review: the Event is over (history)
  gone,     \* the entries the referee was told are undone (history)
  off,      \* the entries an undo took off the tablet (history)
  late,     \* the rows of a POST without an answer
  undo,     \* the "Undo last entry" of each tab
  settle    \* the settle run of each tab: one at a time (`turn`)

undoTables == <<voided, undone, notices, review, gone, off>>
undoVars   == <<undoTables, late, undo, settle>>
allVars    == <<vars, undoVars>>

NoUndo == [stage |-> "off", bout |-> NoRow, waiting |-> {}, left |-> {},
           row |-> NoRow, answered |-> FALSE]

NoRun == [stage |-> "off", todo |-> {}, bout |-> NoRow, rows |-> {},
          ended |-> "unread", tapped |-> NoRow, result |-> "none"]

UndoInit ==
  /\ Init
  /\ voided = {} /\ undone = {} /\ notices = {} /\ review = {}
  /\ gone = {} /\ off = {} /\ late = {}
  /\ undo = [t \in Tabs |-> NoUndo]
  /\ settle = [t \in Tabs |-> NoRun]

-----------------------------------------------------------------------------
(* The tap (undoLastEntry).                                                *)

To(t, stage) == undo' = [undo EXCEPT ![t].stage = stage]

UndoEnds(t) == undo' = [undo EXCEPT ![t] = NoUndo]

(* Slip: the undo takes any waiting row for an entry, a press too.         *)
AfterClosers_Presses(b) ==
  {e \in OfBout(outbox, b) :
     \A c \in OfBout(outbox, b) \cap Closers : place[c] < place[e]}

(* The entries of a bout queued after its newest round or level press: a   *)
(* press is no entry (isTap), and the undo takes none back.                *)
AfterClosers(b) ==
  {e \in OfBout(outbox, b) \cap Entries :
     \A c \in OfBout(outbox, b) \cap Closers : place[c] < place[e]}

(* What waits on the tablet is read first; an undo that would reach past a *)
(* queued round press stops here.                                          *)
TapUndo(t, b) ==
  /\ undo[t].stage = "off"
  /\ OfBout(outbox, b) \cap Closers = {} \/ AfterClosers(b) # {}
  /\ undo' = [undo EXCEPT ![t] = [NoUndo EXCEPT !.stage = "listed", !.bout = b,
                                                !.waiting = AfterClosers(b)]]
  /\ UNCHANGED <<vars, undoTables, late, settle>>

(* Then what an earlier undo wrote down, before the server is asked.       *)
ReadTakenBack(t) ==
  /\ undo[t].stage = "listed"
  /\ undo' = [undo EXCEPT ![t].stage = "asking", ![t].left = undone]
  /\ UNCHANGED <<vars, undoTables, late, settle>>

Live(b) == (OfBout(landed, b) \cap Entries) \ voided

Newest(S, r) == r \in S /\ \A q \in S : place[q] <= place[r]

(* Slip: the undo does not leave out what an earlier undo took back.       *)
LiveRows_All(t) == Live(undo[t].bout)

(* The server's live entries, without the ones an earlier undo took back.  *)
LiveRows(t) == Live(undo[t].bout) \ undo[t].left

(* readServerEntries, newestToUndo: with no answer, the tablet alone.      *)
AskServer(t) ==
  /\ undo[t].stage = "asking"
  /\ \E answered \in BOOLEAN :
       LET rows == IF answered THEN LiveRows(t) ELSE {}
           list == rows \cup undo[t].waiting
       IN
       IF list = {} THEN UndoEnds(t)
       ELSE \E r \in list :
              /\ Newest(list, r)
              /\ undo' = [undo EXCEPT ![t] =
                   [undo[t] EXCEPT !.stage = IF r \in rows THEN "void" ELSE "take",
                                   !.row = r, !.answered = answered,
                                   !.waiting = @ \cap {r}, !.left = {}]]
  /\ UNCHANGED <<vars, undoTables, late, settle>>

(* The server voids an entry once; a void of a voided entry is refused.    *)
VoidRow(r) == r \notin voided /\ voided' = voided \cup {r}

(* voidOnServer, for the newest row or for one that landed meanwhile: the  *)
(* referee is told, and a copy on the tablet is taken off.                 *)
VoidTaken(t) ==
  /\ undo[t].stage = "void"
  /\ VoidRow(undo[t].row)
  /\ IF undo[t].row \in undo[t].waiting
     THEN To(t, "copy") /\ UNCHANGED gone
     ELSE UndoEnds(t) /\ gone' = gone \cup {undo[t].row}
  /\ UNCHANGED <<vars, undone, notices, review, off, late, settle>>

(* A refusal, a review, no answer: nothing is said to be undone.           *)
VoidFails(t) ==
  /\ undo[t].stage = "void"
  /\ VoidRow(undo[t].row) \/ UNCHANGED voided
  /\ UndoEnds(t)
  /\ UNCHANGED <<vars, undone, notices, review, gone, off, late, settle>>

-----------------------------------------------------------------------------
(* The tablet's half (takeBack, takeOffTablet).                            *)

(* Slip: the row whose POST is out is taken off.                           *)
OnItsWay_Never(t, r) == FALSE

(* Its POST is out, in this tab: the undo waits for its answer.            *)
OnItsWay(t, r) == r \in outbox /\ cur[t] = r

(* Slip: the entry leaves the tablet and is not written down.              *)
TakeOffTablet_Forgets(r) ==
  /\ outbox' = outbox \ {r}
  /\ rejected' = IF r \in outbox THEN rejected ELSE rejected \ {r}
  /\ never' = IF r \in outbox THEN never ELSE never \ {r}
  /\ undone' = undone
  /\ off' = off \cup {r}

(* Off the queue, or off the inbox, and written down, in one transaction.  *)
TakeOffTablet(r) ==
  /\ outbox' = outbox \ {r}
  /\ rejected' = IF r \in outbox THEN rejected ELSE rejected \ {r}
  /\ never' = IF r \in outbox THEN never ELSE never \ {r}
  /\ undone' = undone \cup {r}
  /\ off' = off \cup {r}

(* Removed: with a server that answered, the settle is asked next.         *)
TakeOff(t) ==
  LET r == undo[t].row IN
  /\ undo[t].stage \in {"take", "copy"}
  /\ r \notin synced /\ ~OnItsWay(t, r)
  /\ TakeOffTablet(r)
  /\ EmitResting(t, outbox')
  /\ CASE undo[t].stage = "copy" -> To(t, "forget") /\ UNCHANGED gone
       [] undo[t].stage = "take" /\ undo[t].answered -> To(t, "settle") /\ UNCHANGED gone
       [] OTHER -> UndoEnds(t) /\ gone' = gone \cup {r}
  /\ UNCHANGED <<lastId, place, synced, discarded, landed, pc, pass, asked, flight, inbox,
                 voided, notices, review, late, settle>>

(* The server took it while the undo waited (undoLanded).                  *)
TakenAlready(t) ==
  /\ undo[t].stage \in {"take", "copy"}
  /\ undo[t].row \in synced
  /\ IF undo[t].stage = "copy" THEN To(t, "forget")
     ELSE undo' = [undo EXCEPT ![t].stage = "void", ![t].waiting = {}]
  /\ UNCHANGED <<vars, undoTables, late, settle>>

(* forgetUndone: the copy of an entry voided on the server.                *)
ForgetCopy(t) ==
  /\ undo[t].stage = "forget"
  /\ undone' = undone \ {undo[t].row}
  /\ gone' = gone \cup {undo[t].row}
  /\ UndoEnds(t)
  /\ UNCHANGED <<vars, voided, notices, review, off, late, settle>>

-----------------------------------------------------------------------------
(* The settle (settleUndone): one run at a time in a tab, the watcher's    *)
(* over every bout or the undo's own over its bout.                        *)

Starts(t, entries, tapped) ==
  /\ settle[t].stage = "off"
  /\ settle' = [settle EXCEPT ![t] =
                  [NoRun EXCEPT !.stage = "expire", !.todo = entries, !.tapped = tapped]]
  /\ UNCHANGED <<vars, undoTables, late>>

(* Slip: the watcher looks only while rows wait to be sent.                *)
Watch_WhileSending(t) ==
  undone # {} /\ outbox # {} /\ Starts(t, undone, NoRow) /\ UNCHANGED undo

(* watchUndone: the interval, the `online` event, the end of a send.       *)
Watch(t) == undone # {} /\ Starts(t, undone, NoRow) /\ UNCHANGED undo

UndoSettles(t) ==
  /\ undo[t].stage = "settle"
  /\ Starts(t, OfBout(undone, undo[t].bout), undo[t].row)
  /\ To(t, "settling")

(* attendUndo: the entry a referee is undoing at this moment.              *)
Attended(t, r) ==
  undo[t].row = r /\ undo[t].stage \in {"take", "settle", "settling"}

(* forget: with a notice in the same transaction, when the undo was not    *)
(* carried out and no referee waits for the answer at his button.          *)
Forget(t, r, word) ==
  /\ undone' = undone \ {r}
  /\ notices' = IF word /\ r # settle[t].tapped THEN notices \cup {r} ELSE notices
  /\ settle' = [settle EXCEPT ![t].todo = @ \ {r},
                              ![t].result = IF word /\ r = settle[t].tapped
                                            THEN "refused" ELSE @]

(* Kept: it is tried again by a later run.                                 *)
Keep(t, r) ==
  /\ settle' = [settle EXCEPT ![t].todo = @ \ {r}]
  /\ UNCHANGED <<undone, notices>>

(* Nobody could ask for a day: the undo is let go.                         *)
Expire(t, r) ==
  /\ settle[t].stage = "expire"
  /\ r \in settle[t].todo /\ ~Attended(t, r)
  /\ Forget(t, r, TRUE)
  /\ UNCHANGED <<vars, voided, review, gone, off, late, undo>>

(* The server's entries of one bout: read, refused by a verdict, or no     *)
(* answer, and then every entry of the bout is kept.                       *)
SettleRead(t, b) ==
  /\ settle[t].stage \in {"expire", "next"}
  /\ OfBout(settle[t].todo, b) # {}
  /\ \/ settle' = [settle EXCEPT ![t].stage = "judge", ![t].bout = b, ![t].rows = Live(b),
                                 ![t].ended = "unread"]
     \/ settle' = [settle EXCEPT ![t].stage = "refuse", ![t].bout = b]
     \/ settle' = [settle EXCEPT ![t].stage = "next", ![t].todo = @ \ OfBout(@, b)]
  /\ UNCHANGED <<vars, undoTables, late, undo>>

InTurn(t, stage, r) == settle[t].stage = stage /\ r \in OfBout(settle[t].todo, settle[t].bout)

SettleRefuse(t, r) ==
  /\ InTurn(t, "refuse", r)
  /\ Forget(t, r, TRUE)
  /\ UNCHANGED <<vars, voided, review, gone, off, late, undo>>

(* The server holds no live entry of that id.                              *)
SettleAbsent(t, r) ==
  /\ InTurn(t, "judge", r)
  /\ r \notin settle[t].rows
  /\ Forget(t, r, FALSE)
  /\ UNCHANGED <<vars, voided, review, gone, off, late, undo>>

(* boutEnded: is the bout completed?  Asked once in a run, for an entry no *)
(* referee is undoing now.                                                 *)
LookEnded(t) ==
  /\ settle[t].stage = "judge" /\ settle[t].ended = "unread"
  /\ \E r \in OfBout(settle[t].todo, settle[t].bout) \cap settle[t].rows : ~Attended(t, r)
  /\ \E answer \in {"unknown", "yes", "no"} : settle' = [settle EXCEPT ![t].ended = answer]
  /\ UNCHANGED <<vars, undoTables, late, undo>>

(* A remembered undo corrects no finished bout.                            *)
SettleEnded(t, r) ==
  /\ InTurn(t, "judge", r)
  /\ r \in settle[t].rows /\ ~Attended(t, r)
  /\ \/ settle[t].ended = "unknown" /\ Keep(t, r)
     \/ settle[t].ended = "yes" /\ Forget(t, r, TRUE)
  /\ UNCHANGED <<vars, voided, review, gone, off, late, undo>>

Voiding(t, r) ==
  /\ InTurn(t, "judge", r)
  /\ r \in settle[t].rows
  /\ Attended(t, r) \/ settle[t].ended = "no"

SettleVoid(t, r) ==
  /\ Voiding(t, r)
  /\ VoidRow(r)
  /\ Forget(t, r, FALSE)
  /\ UNCHANGED <<vars, review, gone, off, late, undo>>

(* A verdict, or a request for review: the entry stays live.               *)
SettleNotVoided(t, r) ==
  /\ Voiding(t, r)
  /\ \/ Forget(t, r, TRUE) /\ UNCHANGED review
     \/ /\ undone' = undone \ {r} /\ review' = review \cup {r}
        /\ settle' = [settle EXCEPT ![t].todo = @ \ {r},
                                    ![t].result = IF r = settle[t].tapped THEN "review" ELSE @]
        /\ UNCHANGED notices
  /\ UNCHANGED <<vars, voided, gone, off, late, undo>>

(* No answer, and the void may have landed.                                *)
SettleKeeps(t, r) ==
  /\ Voiding(t, r)
  /\ VoidRow(r) \/ UNCHANGED voided
  /\ Keep(t, r)
  /\ UNCHANGED <<vars, review, gone, off, late, undo>>

NextBout(t) ==
  /\ settle[t].stage \in {"judge", "refuse"}
  /\ OfBout(settle[t].todo, settle[t].bout) = {}
  /\ settle' = [settle EXCEPT ![t].stage = "next", ![t].bout = NoRow, ![t].rows = {}]
  /\ UNCHANGED <<vars, undoTables, late, undo>>

(* Slip: the undo is not handed its run's answer.                          *)
SettleEnds_NoAnswer(t) ==
  /\ settle[t].stage \in {"expire", "next"} /\ settle[t].todo = {}
  /\ settle' = [settle EXCEPT ![t] = NoRun]
  /\ UNCHANGED <<vars, undoTables, late, undo>>

(* The run is over; the undo whose run it was answers the referee.         *)
SettleEnds(t) ==
  /\ settle[t].stage \in {"expire", "next"} /\ settle[t].todo = {}
  /\ settle' = [settle EXCEPT ![t] = NoRun]
  /\ IF settle[t].tapped = NoRow THEN UNCHANGED <<undo, gone>>
     ELSE /\ UndoEnds(t)
          /\ gone' = IF settle[t].result = "none" THEN gone \cup {settle[t].tapped} ELSE gone
  /\ UNCHANGED <<vars, voided, undone, notices, review, off, late>>

-----------------------------------------------------------------------------
(* The queue's own steps.  The POST of one of LateRows that ended without  *)
(* an answer may reach the server later.                                   *)

Unanswered(t) ==
  /\ cur[t] \in LateRows
  /\ pc[t] = "post" /\ pc'[t] # "post"
  /\ reply'[t] \in {"offline", "fault", "none"}

QueueStep(t) ==
  /\ Engine(t) \/ Operator(t) \/ Tick(t) \/ Server(t)
  /\ late' = IF Unanswered(t) THEN late \cup {cur[t]} ELSE late
  /\ UNCHANGED <<undoTables, undo, settle>>

LateLands ==
  /\ \E r \in late : landed' = landed \cup {r} /\ late' = late \ {r}
  /\ UNCHANGED <<store, pc, pass, asked, flight, status, inbox, undoTables, undo, settle>>

ReloadAll(t) ==
  /\ Reload(t)
  /\ late' = IF Unanswered(t) THEN late \cup {cur[t]} ELSE late
  /\ undo' = [undo EXCEPT ![t] = NoUndo]
  /\ settle' = [settle EXCEPT ![t] = NoRun]
  /\ UNCHANGED undoTables

UndoStep(t) ==
  \/ ReadTakenBack(t) \/ AskServer(t) \/ VoidTaken(t) \/ VoidFails(t)
  \/ TakeOff(t) \/ TakenAlready(t) \/ ForgetCopy(t) \/ UndoSettles(t)

SettleStep(t) ==
  \/ \E b \in Bouts : SettleRead(t, b)
  \/ \E r \in Entries : \/ SettleRefuse(t, r) \/ SettleAbsent(t, r) \/ SettleEnded(t, r)
                        \/ SettleVoid(t, r) \/ SettleNotVoided(t, r) \/ SettleKeeps(t, r)
  \/ LookEnded(t) \/ NextBout(t) \/ SettleEnds(t)

UndoNext ==
  \/ \E t \in Tabs :
       \/ QueueStep(t) \/ ReloadAll(t) \/ UndoStep(t) \/ SettleStep(t) \/ Watch(t)
       \/ \E b \in Bouts : TapUndo(t, b)
       \/ \E r \in Entries : Expire(t, r)
  \/ LateLands

UndoSpec == UndoInit /\ [][UndoNext]_allVars

-----------------------------------------------------------------------------
UndoStages == {"off", "listed", "asking", "void", "take", "copy", "forget", "settle",
               "settling"}

RunStages == {"off", "expire", "next", "judge", "refuse"}

UndoTypeOK ==
  /\ TypeOK
  /\ voided \subseteq landed \cap Entries
  /\ undone \subseteq Entries /\ notices \subseteq Entries /\ review \subseteq Entries
  /\ gone \subseteq Entries /\ off \subseteq Entries /\ late \subseteq Rows
  /\ undo \in [Tabs -> [stage : UndoStages, bout : Bouts \cup {NoRow},
                        waiting : SUBSET Entries, left : SUBSET Entries,
                        row : Entries \cup {NoRow}, answered : BOOLEAN]]
  /\ settle \in [Tabs -> [stage : RunStages, todo : SUBSET Entries,
                          bout : Bouts \cup {NoRow}, rows : SUBSET Entries,
                          ended : {"unread", "unknown", "yes", "no"},
                          tapped : Entries \cup {NoRow},
                          result : {"none", "refused", "review"}]]

(* An entry the referee was told is undone is not live on the server: the  *)
(* server never had it or voided it, or the undo is still written down, or *)
(* a notice or a request for review says it was not carried out (clear-    *)
(* last.ts: "The entry is gone: deleted on the tablet, or voided on the    *)
(* server").                                                               *)
UndoHolds ==
  \A r \in gone : r \in landed \ voided => r \in undone \cup notices \cup review

(* takeOffTablet: "this sees the claim or the send sees the delete, and an *)
(* entry filed as taken is never read as still waits": an entry taken off  *)
(* the tablet is not sent, held, requeued or filed again.                  *)
TakenOffStaysOff == undone \cap (outbox \cup rejected \cup synced) = {}

(* undoLastEntry: "An entry an earlier undo took off the tablet is gone    *)
(* for the referee, even while the server still holds it": no tap is spent *)
(* on an entry a tap before it took back, unless its undo was not carried  *)
(* out and the screen said so.                                             *)
NotTakenTwice ==
  \A t \in Tabs : undo[t].stage \in {"void", "take"} =>
    undo[t].row \notin (off \cap gone) \ (notices \cup review)

-----------------------------------------------------------------------------
(* Liveness.  A request of the pad ends (heldTo), the interval of the      *)
(* watcher fires, the removal asked for when an answer is filed is not     *)
(* passed by a later send for ever, and a network that comes back again    *)
(* and again answers in the end.                                           *)

UndoFairness ==
  \A t \in Tabs :
    /\ WF_allVars(Engine(t) /\ QueueStep(t))
    /\ WF_allVars(Server(t) /\ QueueStep(t))
    /\ SF_allVars(UndoStep(t))
    /\ WF_allVars(Watch(t))
    /\ WF_allVars(SettleStep(t))
    /\ \A b \in Bouts : SF_allVars(SettleRead(t, b) /\ settle'[t].stage = "judge")
    /\ SF_allVars(LookEnded(t) /\ settle'[t].ended # "unknown")
    /\ \A r \in Entries : SF_allVars(SettleVoid(t, r))

UndoFairSpec == UndoSpec /\ UndoFairness

Stays == <>[][\A t \in Tabs : ~ReloadAll(t)]_allVars

(* Every tap on Undo is answered: the wait for a row that is out ends      *)
(* (takeBack), and so does the wait for the turn of the settle.            *)
UndoIsAnswered == Stays => \A t \in Tabs : undo[t].stage # "off" ~> undo[t].stage = "off"

(* Every undo written down is settled with the server, also with nothing   *)
(* left to send and no tap (watchUndone).                                  *)
UndoIsSettled == Stays => \A r \in Entries : r \in undone ~> r \notin undone
=============================================================================
