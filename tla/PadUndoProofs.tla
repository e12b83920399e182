---------------------------- MODULE PadUndoProofs ----------------------------
(***************************************************************************)
(* Theorems about the undo of the last entry and its settle, over the      *)
(* queue of PadQueue.                                                      *)
(*                                                                         *)
(* A step of the undo changes the queue in two ways only: TakeOff removes  *)
(* a row from the tablet, and a POST nobody waits for lands late.  What    *)
(* PadQueueProofs shows of the queue's own steps is used as it stands, but *)
(* for the two things a TakeOff ends: a row taken off is in no table, and  *)
(* the bar may be green with a send under way.                             *)
(***************************************************************************)
EXTENDS PadUndo, DeliveryProofs

(* What an "ok" says, without NoRowLost.                                   *)
Filed == SyncedIsLanded /\ OkIsLanded

LEMMA FiledStays ==
  ASSUME Filed,
         synced' \subseteq synced,
         landed \subseteq landed',
         \A t \in Tabs : pc'[t] = "answer" /\ reply'[t] = "ok" =>
           \/ pc[t] = "answer" /\ reply[t] = "ok" /\ cur'[t] = cur[t]
           \/ cur'[t] \in landed'
  PROVE  Filed'
  BY DEF Filed, SyncedIsLanded, OkIsLanded

LEMMA NextFiled ==
  ASSUME Typed, Filed, Next
  PROVE  Filed' /\ landed \subseteq landed'
<1> USE DEF Typed, TypeOK
<1>1. ASSUME UNCHANGED <<synced, landed, cur>>,
             \A u \in Tabs : pc'[u] = "answer" => pc[u] = "answer" /\ reply'[u] = reply[u]
      PROVE  Filed' /\ landed \subseteq landed'
  BY <1>1, FiledStays
<1>2. ASSUME NEW t \in Tabs, Engine(t)
      PROVE  Filed' /\ landed \subseteq landed'
  <2>1. CASE FileSent(t)
    <3>1. cur[t] \in landed
      BY <2>1 DEF FileSent, IsSaved, Filed, OkIsLanded
    <3>2. /\ SyncedIsLanded' /\ UNCHANGED landed
      BY <2>1, <3>1 DEF FileSent, MarkSynced, Filed, SyncedIsLanded
    <3>3. OkIsLanded'
      BY <2>1 DEF FileSent, Filed, OkIsLanded
    <3> QED BY <3>2, <3>3 DEF Filed
  <2>2. CASE ~FileSent(t)
    <3>1. UNCHANGED <<synced, landed>>
      BY <1>2, <2>2
      DEF Engine, ListPending, ReadHeld, SkipBehindHeld, WaitBehindUnsent, Claim, TrySecond,
        FileHeld, FileFailed, FileStopped, Release, WalkedAll, EmitWalked, EndPass, EndStopped,
        store
    <3>2. \A u \in Tabs : pc'[u] = "answer" =>
            pc[u] = "answer" /\ reply'[u] = reply[u] /\ cur'[u] = cur[u]
      BY <1>2, <2>2
      DEF Engine, ListPending, ReadHeld, SkipBehindHeld, WaitBehindUnsent, Claim, TrySecond,
        FileHeld, FileFailed, FileStopped, Release, WalkedAll, EmitWalked, EndPass, EndStopped,
        Passed, Again, flight
    <3> QED BY <3>1, <3>2, FiledStays
  <2> QED BY <2>1, <2>2
<1>3. ASSUME NEW t \in Tabs, Operator(t) \/ Tick(t)
      PROVE  Filed' /\ landed \subseteq landed'
  <2>1. UNCHANGED <<synced, landed, cur, reply>>
    BY <1>3 DEF Operator, Tick, Drain, PressEntry, PressTap, AddRow, RetryOne, RetryAll,
      AskDiscard, Discard, DiscardBout, RefreshState, store, flight
  <2>2. Ask(t) \/ UNCHANGED pc
    BY <1>3 DEF Operator, Tick, Drain, PressEntry, PressTap, AddRow, RetryOne, RetryAll,
      AskDiscard, Discard, DiscardBout, RefreshState
  <2>3. \A u \in Tabs : pc'[u] = "answer" => pc[u] = "answer"
    BY <2>2, AskKeepsAnswers
  <2> QED BY <1>1, <2>1, <2>3
<1>4. ASSUME NEW t \in Tabs, Server(t)
      PROVE  Filed' /\ landed \subseteq landed'
  <2>1. CASE ServerTakes(t)
    BY <2>1, FiledStays DEF ServerTakes, store
  <2>2. CASE ServerRefuses(t)
    <3>1. "ok" \notin Troubles
      BY PadConstants DEF AllTroubles
    <3> QED BY <2>2, <3>1, FiledStays DEF ServerRefuses, store
  <2> QED BY <1>4, <2>1, <2>2 DEF Server
<1>5. ASSUME NEW t \in Tabs, Reload(t)
      PROVE  Filed' /\ landed \subseteq landed'
  BY <1>5, FiledStays DEF Reload, store
<1> QED BY <1>2, <1>3, <1>4, <1>5 DEF Next

-----------------------------------------------------------------------------
(* Type correctness, with any number of tabs.                              *)

UndoRecs == [stage : UndoStages, bout : Bouts \cup {NoRow},
             waiting : SUBSET Entries, left : SUBSET Entries,
             row : Entries \cup {NoRow}, answered : BOOLEAN]

RunRecs == [stage : RunStages, todo : SUBSET Entries,
            bout : Bouts \cup {NoRow}, rows : SUBSET Entries,
            ended : {"unread", "unknown", "yes", "no"},
            tapped : Entries \cup {NoRow},
            result : {"none", "refused", "review"}]

(* The tables of the undo.                                                 *)
TablesOK ==
  /\ voided \subseteq landed \cap Entries
  /\ undone \subseteq Entries /\ notices \subseteq Entries /\ review \subseteq Entries
  /\ gone \subseteq Entries /\ off \subseteq Entries /\ late \subseteq Rows

AtWork == {"void", "take", "copy", "forget", "settle", "settling"}

(* An undo past the server's answer is about an entry, one that is to be   *)
(* voided is on the server, and so is what a settle read there.            *)
WorkOK ==
  /\ undo \in [Tabs -> UndoRecs]
  /\ settle \in [Tabs -> RunRecs]
  /\ \A t \in Tabs :
       /\ undo[t].stage \in AtWork => undo[t].row \in Entries
       /\ undo[t].stage = "void" => undo[t].row \in landed
       /\ settle[t].rows \subseteq landed

UndoTyped == Typed /\ Filed /\ TablesOK /\ WorkOK

LEMMA InitUndoTyped == UndoInit => UndoTyped
<1> SUFFICES ASSUME UndoInit PROVE UndoTyped
  OBVIOUS
<1>1. Typed
  BY InitTyped DEF UndoInit
<1>2. Filed
  BY DEF UndoInit, Init, Filed, SyncedIsLanded, OkIsLanded
<1>3. TablesOK
  BY DEF UndoInit, TablesOK
<1>4. WorkOK
  BY DEF UndoInit, WorkOK, NoUndo, NoRun, UndoRecs, RunRecs, UndoStages, RunStages, AtWork
<1> QED BY <1>1, <1>2, <1>3, <1>4 DEF UndoTyped

(* The queue's part of every step.                                         *)
LEMMA UndoQueueSteps ==
  /\ \A t \in Tabs : QueueStep(t) \/ ReloadAll(t) => Next
  /\ \A t \in Tabs :
       UndoStep(t) \/ SettleStep(t) \/ Watch(t) \/ (\E b \in Bouts : TapUndo(t, b))
         \/ (\E r \in Entries : Expire(t, r)) => TakeOff(t) \/ UNCHANGED vars
<1>1. \A t \in Tabs : QueueStep(t) \/ ReloadAll(t) => Next
  BY DEF QueueStep, ReloadAll, Next
<1>2. \A t \in Tabs : UndoStep(t) => TakeOff(t) \/ UNCHANGED vars
  BY DEF UndoStep, ReadTakenBack, AskServer, VoidTaken, VoidFails, TakenAlready, ForgetCopy,
    UndoSettles, Starts
<1>3. ASSUME NEW t \in Tabs, SettleStep(t)
      PROVE  UNCHANGED vars
  <2>1. ASSUME NEW r \in Entries,
               \/ SettleRefuse(t, r) \/ SettleAbsent(t, r) \/ SettleEnded(t, r)
               \/ SettleVoid(t, r) \/ SettleNotVoided(t, r) \/ SettleKeeps(t, r)
        PROVE  UNCHANGED vars
    BY <2>1, Zenon
    DEF SettleRefuse, SettleAbsent, SettleEnded, SettleVoid, SettleNotVoided, SettleKeeps
  <2>2. ASSUME NEW b \in Bouts, SettleRead(t, b)
        PROVE  UNCHANGED vars
    BY <2>2, Zenon DEF SettleRead
  <2>3. CASE LookEnded(t) \/ NextBout(t) \/ SettleEnds(t)
    BY <2>3, Zenon DEF LookEnded, NextBout, SettleEnds
  <2> QED BY <1>3, <2>1, <2>2, <2>3 DEF SettleStep
<1>4. \A t \in Tabs :
        Watch(t) \/ (\E b \in Bouts : TapUndo(t, b)) \/ (\E r \in Entries : Expire(t, r)) =>
          UNCHANGED vars
  BY DEF Watch, Starts, TapUndo, Expire
<1> QED BY <1>1, <1>2, <1>3, <1>4

(* The queue stays well typed: a row taken off leaves the tables whole.    *)
LEMMA NextQueueTyped ==
  ASSUME UndoTyped, [UndoNext]_allVars
  PROVE  Typed' /\ Filed' /\ landed \subseteq landed'
<1>0. Typed /\ Filed
  BY DEF UndoTyped
<1>1. CASE UNCHANGED vars
  <2>1. UNCHANGED <<synced, landed, pc, cur, reply>>
    BY <1>1 DEF vars, store, flight
  <2> QED BY <1>0, <1>1, <2>1, NextTyped, FiledStays
<1>2. CASE Next
  BY <1>0, <1>2, NextTyped, NextFiled
<1>3. ASSUME NEW t \in Tabs, TakeOff(t)
      PROVE  Typed' /\ Filed' /\ landed \subseteq landed'
  <2>1. /\ UNCHANGED <<lastId, place, synced, discarded, landed, pc, pass, asked, flight, inbox>>
        /\ outbox' \subseteq outbox /\ rejected' \subseteq rejected
        /\ never' \subseteq rejected'
        /\ EmitResting(t, outbox')
    BY <1>0, <1>3 DEF TakeOff, TakeOffTablet, Typed, TypeOK
  <2>2. status' \in [Tabs -> Statuses]
    BY <1>0, <2>1 DEF EmitResting, Typed, TypeOK, Statuses
  <2>3. Typed'
    BY <1>0, <2>1, <2>2 DEF Typed, TypeOK, FlightOK, pass, flight
  <2> QED BY <1>0, <2>1, <2>3, FiledStays DEF flight
<1>4. CASE LateLands
  <2>1. /\ UNCHANGED <<store, pc, pass, asked, flight, status, inbox>>
        /\ landed \subseteq landed' /\ landed' \subseteq Rows
    BY <1>0, <1>4 DEF LateLands, Typed, TypeOK, UndoTyped, TablesOK
  <2>2. Typed'
    BY <1>0, <2>1 DEF Typed, TypeOK, FlightOK, store, pass, flight
  <2> QED BY <1>0, <2>1, <2>2, FiledStays DEF store, flight
<1>5. CASE UNCHANGED allVars
  BY <1>1, <1>5 DEF allVars
<1> QED BY <1>1, <1>2, <1>3, <1>4, <1>5, UndoQueueSteps DEF UndoNext

(* What an update of one tab's undo, or of its settle run, leaves alone.   *)
LEMMA UndoSet ==
  ASSUME undo \in [Tabs -> UndoRecs], NEW t \in Tabs, NEW e \in UndoRecs,
         undo' = [undo EXCEPT ![t] = e]
  PROVE  /\ undo' \in [Tabs -> UndoRecs]
         /\ undo'[t] = e
         /\ \A u \in Tabs \ {t} : undo'[u] = undo[u]
  OBVIOUS

LEMMA RunSet ==
  ASSUME settle \in [Tabs -> RunRecs], NEW t \in Tabs, NEW e \in RunRecs,
         settle' = [settle EXCEPT ![t] = e]
  PROVE  /\ settle' \in [Tabs -> RunRecs]
         /\ settle'[t] = e
         /\ \A u \in Tabs \ {t} : settle'[u] = settle[u]
  OBVIOUS

LEMMA EmptyRecs ==
  /\ NoUndo \in UndoRecs /\ NoUndo.stage = "off" /\ NoUndo.row = NoRow
  /\ NoUndo.waiting = {} /\ NoUndo.left = {}
  /\ NoRun \in RunRecs /\ NoRun.stage = "off" /\ NoRun.rows = {} /\ NoRun.todo = {}
  /\ NoRun.tapped = NoRow /\ NoRun.result = "none"
  BY DEF NoUndo, NoRun, UndoRecs, RunRecs, UndoStages, RunStages

LEMMA ToFields ==
  ASSUME undo \in [Tabs -> UndoRecs], NEW t \in Tabs, NEW stage \in UndoStages, To(t, stage)
  PROVE  /\ undo' \in [Tabs -> UndoRecs]
         /\ undo'[t].stage = stage /\ undo'[t].row = undo[t].row
         /\ undo'[t].waiting = undo[t].waiting /\ undo'[t].left = undo[t].left
         /\ \A u \in Tabs \ {t} : undo'[u] = undo[u]
<1> DEFINE e == [undo[t] EXCEPT !.stage = stage]
<1>1. undo[t] \in UndoRecs
  OBVIOUS
<1>2. /\ e \in UndoRecs /\ e.stage = stage /\ e.row = undo[t].row
      /\ e.waiting = undo[t].waiting /\ e.left = undo[t].left
  BY <1>1 DEF UndoRecs
<1>3. undo' = [undo EXCEPT ![t] = e]
  BY DEF To
<1> HIDE DEF e
<1> QED BY <1>2, <1>3, UndoSet

LEMMA EndsFields ==
  ASSUME undo \in [Tabs -> UndoRecs], NEW t \in Tabs, UndoEnds(t)
  PROVE  /\ undo' \in [Tabs -> UndoRecs]
         /\ undo'[t] = NoUndo
         /\ \A u \in Tabs \ {t} : undo'[u] = undo[u]
  BY UndoSet, EmptyRecs DEF UndoEnds

(* A tab that reads what waits, what was taken back, and the server.       *)
LEMMA TapFields ==
  ASSUME UndoTyped, NEW t \in Tabs, NEW b \in Bouts, TapUndo(t, b)
  PROVE  /\ undo' \in [Tabs -> UndoRecs]
         /\ undo'[t].stage = "listed" /\ undo'[t].waiting = AfterClosers(b)
         /\ \A u \in Tabs \ {t} : undo'[u] = undo[u]
<1> DEFINE e == [NoUndo EXCEPT !.stage = "listed", !.bout = b, !.waiting = AfterClosers(b)]
<1>1. AfterClosers(b) \subseteq Entries
  BY DEF AfterClosers
<1>2. e \in UndoRecs /\ e.stage = "listed" /\ e.waiting = AfterClosers(b)
  BY <1>1 DEF UndoRecs, NoUndo, UndoStages
<1>3. undo' = [undo EXCEPT ![t] = e] /\ undo \in [Tabs -> UndoRecs]
  BY DEF TapUndo, UndoTyped, WorkOK
<1> HIDE DEF e
<1> QED BY <1>2, <1>3, UndoSet

LEMMA ReadFields ==
  ASSUME UndoTyped, NEW t \in Tabs, ReadTakenBack(t)
  PROVE  /\ undo' \in [Tabs -> UndoRecs]
         /\ undo'[t].stage = "asking" /\ undo'[t].left = undone
         /\ undo'[t].waiting = undo[t].waiting
         /\ \A u \in Tabs \ {t} : undo'[u] = undo[u]
<1> DEFINE e == [undo[t] EXCEPT !.stage = "asking", !.left = undone]
<1>1. undo[t] \in UndoRecs /\ undone \subseteq Entries /\ undo \in [Tabs -> UndoRecs]
  BY DEF UndoTyped, TablesOK, WorkOK
<1>2. /\ e \in UndoRecs /\ e.stage = "asking" /\ e.left = undone
      /\ e.waiting = undo[t].waiting
  BY <1>1 DEF UndoRecs, UndoStages
<1>3. undo' = [undo EXCEPT ![t] = e]
  BY DEF ReadTakenBack
<1> HIDE DEF e
<1> QED BY <1>1, <1>2, <1>3, UndoSet

(* The undo once it has chosen its entry.                                  *)
Chosen(t, rows, r, answered) ==
  [undo[t] EXCEPT !.stage = IF r \in rows THEN "void" ELSE "take", !.row = r,
                  !.answered = answered, !.waiting = undo[t].waiting \cap {r}, !.left = {}]

LEMMA ChosenFields ==
  ASSUME UndoTyped, NEW t \in Tabs, NEW rows \in SUBSET Entries, NEW answered \in BOOLEAN,
         NEW r \in rows \cup undo[t].waiting
  PROVE  /\ Chosen(t, rows, r, answered) \in UndoRecs
         /\ Chosen(t, rows, r, answered).stage = IF r \in rows THEN "void" ELSE "take"
         /\ Chosen(t, rows, r, answered).row = r
         /\ Chosen(t, rows, r, answered).waiting \subseteq undo[t].waiting
<1> DEFINE stage == IF r \in rows THEN "void" ELSE "take"
           e == [undo[t] EXCEPT !.stage = stage, !.row = r, !.answered = answered,
                                !.waiting = undo[t].waiting \cap {r}, !.left = {}]
<1>1. undo[t] \in UndoRecs
  BY DEF UndoTyped, WorkOK
<1>2. r \in Entries /\ stage \in UndoStages
  BY <1>1 DEF UndoRecs, UndoStages
<1>3. e = Chosen(t, rows, r, answered)
  BY Zenon DEF Chosen
<1> HIDE DEF stage
<1>4. e \in UndoRecs /\ e.stage = stage /\ e.row = r /\ e.waiting \subseteq undo[t].waiting
  BY <1>1, <1>2 DEF UndoRecs
<1> HIDE DEF e
<1> QED BY <1>3, <1>4 DEF stage

(* newestToUndo: a live entry of the server, or one that waits.            *)
LEMMA AskFields ==
  ASSUME UndoTyped, NEW t \in Tabs, AskServer(t)
  PROVE  /\ undo' \in [Tabs -> UndoRecs]
         /\ \/ undo'[t] = NoUndo
            \/ /\ undo'[t].stage = "void"
               /\ undo'[t].row \in (landed \cap Entries) \ voided
               /\ undo'[t].row \notin undo[t].left
               /\ undo'[t].waiting \subseteq undo[t].waiting
            \/ /\ undo'[t].stage = "take"
               /\ undo'[t].row \in undo[t].waiting
               /\ undo'[t].waiting \subseteq undo[t].waiting
         /\ \A u \in Tabs \ {t} : undo'[u] = undo[u]
<1>0. undo[t] \in UndoRecs /\ undo \in [Tabs -> UndoRecs]
  BY DEF UndoTyped, WorkOK
<1>1. CASE UndoEnds(t)
  BY <1>0, <1>1, EndsFields
<1>2. CASE ~UndoEnds(t)
  <2>1. PICK answered \in BOOLEAN :
          \E r \in (IF answered THEN LiveRows(t) ELSE {}) \cup undo[t].waiting :
            undo' = [undo EXCEPT ![t] =
                       Chosen(t, IF answered THEN LiveRows(t) ELSE {}, r, answered)]
    BY <1>2, Zenon DEF AskServer, Chosen
  <2> DEFINE rows == IF answered THEN LiveRows(t) ELSE {}
  <2>2. PICK r \in rows \cup undo[t].waiting :
          undo' = [undo EXCEPT ![t] = Chosen(t, rows, r, answered)]
    BY <2>1, Zenon
  <2>3. \A q \in rows : q \in (landed \cap Entries) \ voided /\ q \notin undo[t].left
    BY DEF LiveRows, Live, OfBout
  <2> HIDE DEF rows
  <2> DEFINE e == Chosen(t, rows, r, answered)
  <2>4. /\ e \in UndoRecs /\ e.row = r /\ e.waiting \subseteq undo[t].waiting
        /\ e.stage = IF r \in rows THEN "void" ELSE "take"
    BY <2>3, ChosenFields
  <2>5. undo' = [undo EXCEPT ![t] = e]
    BY <2>2
  <2> HIDE DEF e
  <2>6. undo' \in [Tabs -> UndoRecs] /\ undo'[t] = e /\ \A u \in Tabs \ {t} : undo'[u] = undo[u]
    BY <1>0, <2>4, <2>5, UndoSet
  <2> QED BY <2>3, <2>4, <2>6
<1> QED BY <1>1, <1>2

(* The server took the entry while the undo waited.                        *)
LEMMA TakenFields ==
  ASSUME UndoTyped, NEW t \in Tabs, TakenAlready(t)
  PROVE  /\ undo' \in [Tabs -> UndoRecs]
         /\ undo[t].row \in synced /\ undo'[t].row = undo[t].row
         /\ undo'[t].waiting \subseteq undo[t].waiting
         /\ \/ undo[t].stage = "copy" /\ undo'[t].stage = "forget"
            \/ undo[t].stage = "take" /\ undo'[t].stage = "void"
         /\ \A u \in Tabs \ {t} : undo'[u] = undo[u]
<1>0. undo[t] \in UndoRecs /\ undo \in [Tabs -> UndoRecs]
  BY DEF UndoTyped, WorkOK
<1>1. CASE undo[t].stage = "copy"
  <2>1. To(t, "forget") /\ undo[t].row \in synced
    BY <1>1 DEF TakenAlready
  <2> QED BY <1>0, <1>1, <2>1, ToFields DEF UndoStages
<1>2. CASE undo[t].stage = "take"
  <2> DEFINE e == [undo[t] EXCEPT !.stage = "void", !.waiting = {}]
  <2>1. e \in UndoRecs /\ e.stage = "void" /\ e.row = undo[t].row /\ e.waiting = {}
    BY <1>0 DEF UndoRecs, UndoStages
  <2>2. undo' = [undo EXCEPT ![t] = e] /\ undo[t].row \in synced
    BY <1>2 DEF TakenAlready
  <2> HIDE DEF e
  <2>3. undo' \in [Tabs -> UndoRecs] /\ undo'[t] = e /\ \A u \in Tabs \ {t} : undo'[u] = undo[u]
    BY <1>0, <2>1, <2>2, UndoSet
  <2> QED BY <1>2, <2>1, <2>2, <2>3
<1> QED BY <1>1, <1>2 DEF TakenAlready

(* A settle run starts over entries written down.                          *)
LEMMA StartsFields ==
  ASSUME UndoTyped, NEW t \in Tabs, NEW entries \in SUBSET Entries,
         NEW tapped \in Entries \cup {NoRow}, Starts(t, entries, tapped)
  PROVE  /\ settle' \in [Tabs -> RunRecs]
         /\ settle'[t].stage = "expire" /\ settle'[t].todo = entries /\ settle'[t].rows = {}
         /\ settle'[t].tapped = tapped /\ settle'[t].result = "none"
         /\ \A u \in Tabs \ {t} : settle'[u] = settle[u]
<1> DEFINE e == [NoRun EXCEPT !.stage = "expire", !.todo = entries, !.tapped = tapped]
<1>1. /\ e \in RunRecs /\ e.stage = "expire" /\ e.todo = entries /\ e.rows = {}
      /\ e.tapped = tapped /\ e.result = "none"
  BY DEF RunRecs, NoRun, RunStages
<1>2. settle' = [settle EXCEPT ![t] = e] /\ settle \in [Tabs -> RunRecs]
  BY DEF Starts, UndoTyped, WorkOK
<1> HIDE DEF e
<1> QED BY <1>1, <1>2, RunSet

(* One entry of a run is done with.                                        *)
LEMMA DoneFields ==
  ASSUME UndoTyped, NEW t \in Tabs, NEW r, NEW result \in {"none", "refused", "review"},
         settle' = [settle EXCEPT ![t].todo = @ \ {r}, ![t].result = result]
  PROVE  /\ settle' \in [Tabs -> RunRecs]
         /\ settle'[t].stage = settle[t].stage /\ settle'[t].bout = settle[t].bout
         /\ settle'[t].todo = settle[t].todo \ {r} /\ settle'[t].rows = settle[t].rows
         /\ settle'[t].tapped = settle[t].tapped /\ settle'[t].result = result
         /\ \A u \in Tabs \ {t} : settle'[u] = settle[u]
<1> DEFINE e == [settle[t] EXCEPT !.todo = settle[t].todo \ {r}, !.result = result]
<1>0. settle[t] \in RunRecs /\ settle \in [Tabs -> RunRecs]
  BY DEF UndoTyped, WorkOK
<1>1. /\ e \in RunRecs /\ e.stage = settle[t].stage /\ e.bout = settle[t].bout
      /\ e.todo = settle[t].todo \ {r} /\ e.rows = settle[t].rows
      /\ e.tapped = settle[t].tapped /\ e.result = result
  BY <1>0 DEF RunRecs
<1>2. settle' = [settle EXCEPT ![t] = e]
  OBVIOUS
<1> HIDE DEF e
<1> QED BY <1>0, <1>1, <1>2, RunSet

LEMMA ForgetFields ==
  ASSUME UndoTyped, NEW t \in Tabs, NEW r, NEW word \in BOOLEAN, Forget(t, r, word)
  PROVE  /\ settle' \in [Tabs -> RunRecs]
         /\ settle'[t].stage = settle[t].stage /\ settle'[t].bout = settle[t].bout
         /\ settle'[t].todo = settle[t].todo \ {r} /\ settle'[t].rows = settle[t].rows
         /\ settle'[t].tapped = settle[t].tapped
         /\ settle'[t].result = IF word /\ r = settle[t].tapped
                                THEN "refused" ELSE settle[t].result
         /\ \A u \in Tabs \ {t} : settle'[u] = settle[u]
<1> DEFINE result == IF word /\ r = settle[t].tapped THEN "refused" ELSE settle[t].result
<1>1. result \in {"none", "refused", "review"}
  BY DEF UndoTyped, WorkOK, RunRecs
<1>2. settle' = [settle EXCEPT ![t].todo = @ \ {r}, ![t].result = result]
  BY DEF Forget
<1> HIDE DEF result
<1>3. /\ settle' \in [Tabs -> RunRecs]
      /\ settle'[t].stage = settle[t].stage /\ settle'[t].bout = settle[t].bout
      /\ settle'[t].todo = settle[t].todo \ {r} /\ settle'[t].rows = settle[t].rows
      /\ settle'[t].tapped = settle[t].tapped /\ settle'[t].result = result
      /\ \A u \in Tabs \ {t} : settle'[u] = settle[u]
  BY <1>1, <1>2, DoneFields
<1> QED BY <1>3 DEF result

LEMMA KeepFields ==
  ASSUME UndoTyped, NEW t \in Tabs, NEW r, Keep(t, r)
  PROVE  /\ settle' \in [Tabs -> RunRecs]
         /\ settle'[t].stage = settle[t].stage /\ settle'[t].bout = settle[t].bout
         /\ settle'[t].todo = settle[t].todo \ {r} /\ settle'[t].rows = settle[t].rows
         /\ settle'[t].tapped = settle[t].tapped
         /\ settle'[t].result = settle[t].result
         /\ \A u \in Tabs \ {t} : settle'[u] = settle[u]
<1>0. settle[t] \in RunRecs /\ settle \in [Tabs -> RunRecs]
  BY DEF UndoTyped, WorkOK
<1> DEFINE e == [settle[t] EXCEPT !.todo = settle[t].todo \ {r}]
<1>1. /\ e \in RunRecs /\ e.stage = settle[t].stage /\ e.bout = settle[t].bout
      /\ e.todo = settle[t].todo \ {r} /\ e.rows = settle[t].rows
      /\ e.tapped = settle[t].tapped /\ e.result = settle[t].result
  BY <1>0 DEF RunRecs
<1>2. settle' = [settle EXCEPT ![t] = e]
  BY DEF Keep
<1> HIDE DEF e
<1> QED BY <1>0, <1>1, <1>2, RunSet

(* The steps that move a run on: a read of a bout, its verdict, the next.  *)
LEMMA RunOnFields ==
  ASSUME UndoTyped, NEW t \in Tabs,
         (\E b \in Bouts : SettleRead(t, b)) \/ LookEnded(t) \/ NextBout(t)
  PROVE  /\ settle' \in [Tabs -> RunRecs]
         /\ settle'[t].tapped = settle[t].tapped /\ settle'[t].result = settle[t].result
         /\ settle'[t].todo \subseteq settle[t].todo
         /\ \/ settle'[t].rows = Live(settle'[t].bout)
            \/ /\ settle'[t].stage = settle[t].stage /\ settle'[t].bout = settle[t].bout
               /\ settle'[t].rows = settle[t].rows
            \/ settle'[t].stage # "judge" /\ settle'[t].rows \in {settle[t].rows, {}}
         /\ \A u \in Tabs \ {t} : settle'[u] = settle[u]
<1>0. settle[t] \in RunRecs /\ settle \in [Tabs -> RunRecs]
  BY DEF UndoTyped, WorkOK
<1>1. ASSUME NEW e \in RunRecs, settle' = [settle EXCEPT ![t] = e],
             e.tapped = settle[t].tapped, e.result = settle[t].result,
             e.todo \subseteq settle[t].todo,
             \/ e.rows = Live(e.bout)
             \/ e.stage = settle[t].stage /\ e.bout = settle[t].bout /\ e.rows = settle[t].rows
             \/ e.stage # "judge" /\ e.rows \in {settle[t].rows, {}}
      PROVE  /\ settle' \in [Tabs -> RunRecs]
             /\ settle'[t].tapped = settle[t].tapped /\ settle'[t].result = settle[t].result
             /\ settle'[t].todo \subseteq settle[t].todo
             /\ \/ settle'[t].rows = Live(settle'[t].bout)
                \/ /\ settle'[t].stage = settle[t].stage /\ settle'[t].bout = settle[t].bout
                   /\ settle'[t].rows = settle[t].rows
                \/ settle'[t].stage # "judge" /\ settle'[t].rows \in {settle[t].rows, {}}
             /\ \A u \in Tabs \ {t} : settle'[u] = settle[u]
  BY <1>0, <1>1, RunSet
<1>2. ASSUME NEW b \in Bouts, SettleRead(t, b)
      PROVE  \E e \in RunRecs :
               /\ settle' = [settle EXCEPT ![t] = e]
               /\ e.tapped = settle[t].tapped /\ e.result = settle[t].result
               /\ e.todo \subseteq settle[t].todo
               /\ \/ e.rows = Live(e.bout)
                  \/ e.stage # "judge" /\ e.rows = settle[t].rows
  <2> DEFINE d == [settle[t] EXCEPT !.stage = "judge", !.bout = b, !.rows = Live(b),
                                    !.ended = "unread"]
             f == [settle[t] EXCEPT !.stage = "refuse", !.bout = b]
             g == [settle[t] EXCEPT !.stage = "next",
                                    !.todo = settle[t].todo \ OfBout(settle[t].todo, b)]
  <2>0. Live(b) \subseteq Entries
    BY DEF Live
  <2>1. /\ d \in RunRecs /\ d.tapped = settle[t].tapped /\ d.result = settle[t].result
        /\ d.todo = settle[t].todo /\ d.rows = Live(b) /\ d.bout = b
    BY <1>0, <2>0 DEF RunRecs, RunStages
  <2>2. /\ f \in RunRecs /\ f.tapped = settle[t].tapped /\ f.result = settle[t].result
        /\ f.todo = settle[t].todo /\ f.rows = settle[t].rows /\ f.stage = "refuse"
    BY <1>0 DEF RunRecs, RunStages
  <2>3. /\ g \in RunRecs /\ g.tapped = settle[t].tapped /\ g.result = settle[t].result
        /\ g.todo \subseteq settle[t].todo /\ g.rows = settle[t].rows /\ g.stage = "next"
    BY <1>0 DEF RunRecs, RunStages
  <2>4. \/ settle' = [settle EXCEPT ![t] = d] \/ settle' = [settle EXCEPT ![t] = f]
        \/ settle' = [settle EXCEPT ![t] = g]
    BY <1>2 DEF SettleRead
  <2> HIDE DEF d, f, g
  <2> QED BY <2>1, <2>2, <2>3, <2>4
<1>3. ASSUME LookEnded(t)
      PROVE  \E e \in RunRecs :
               /\ settle' = [settle EXCEPT ![t] = e]
               /\ e.tapped = settle[t].tapped /\ e.result = settle[t].result
               /\ e.todo = settle[t].todo /\ e.stage = settle[t].stage
               /\ e.bout = settle[t].bout /\ e.rows = settle[t].rows
  <2>1. PICK answer \in {"unknown", "yes", "no"} :
          settle' = [settle EXCEPT ![t].ended = answer]
    BY <1>3 DEF LookEnded
  <2> DEFINE e == [settle[t] EXCEPT !.ended = answer]
  <2>2. /\ e \in RunRecs /\ e.tapped = settle[t].tapped /\ e.result = settle[t].result
        /\ e.todo = settle[t].todo /\ e.stage = settle[t].stage
        /\ e.bout = settle[t].bout /\ e.rows = settle[t].rows
    BY <1>0, <2>1 DEF RunRecs
  <2>3. settle' = [settle EXCEPT ![t] = e]
    BY <2>1
  <2> HIDE DEF e
  <2> QED BY <2>2, <2>3
<1>4. ASSUME NextBout(t)
      PROVE  \E e \in RunRecs :
               /\ settle' = [settle EXCEPT ![t] = e]
               /\ e.tapped = settle[t].tapped /\ e.result = settle[t].result
               /\ e.todo = settle[t].todo /\ e.stage = "next" /\ e.rows = {}
  <2> DEFINE e == [settle[t] EXCEPT !.stage = "next", !.bout = NoRow, !.rows = {}]
  <2>1. /\ e \in RunRecs /\ e.tapped = settle[t].tapped /\ e.result = settle[t].result
        /\ e.todo = settle[t].todo /\ e.stage = "next" /\ e.rows = {}
    BY <1>0 DEF RunRecs, RunStages
  <2>2. settle' = [settle EXCEPT ![t] = e]
    BY <1>4 DEF NextBout
  <2> HIDE DEF e
  <2> QED BY <2>1, <2>2
<1>5. \E e \in RunRecs :
        /\ settle' = [settle EXCEPT ![t] = e]
        /\ e.tapped = settle[t].tapped /\ e.result = settle[t].result
        /\ e.todo \subseteq settle[t].todo
        /\ \/ e.rows = Live(e.bout)
           \/ e.stage = settle[t].stage /\ e.bout = settle[t].bout /\ e.rows = settle[t].rows
           \/ e.stage # "judge" /\ e.rows \in {settle[t].rows, {}}
  BY <1>2, <1>3, <1>4
<1> QED BY <1>1, <1>5

LEMMA WorkStays ==
  ASSUME UndoTyped, landed \subseteq landed', NEW t \in Tabs,
         undo' \in [Tabs -> UndoRecs], settle' \in [Tabs -> RunRecs],
         \A u \in Tabs \ {t} : undo'[u] = undo[u] /\ settle'[u] = settle[u],
         undo'[t].stage \in AtWork => undo'[t].row \in Entries,
         undo'[t].stage = "void" => undo'[t].row \in landed,
         settle'[t].rows \subseteq landed
  PROVE  WorkOK'
  BY DEF UndoTyped, WorkOK

(* The steps of the undo keep the types of their tables.                   *)
LEMMA UndoStepTyped ==
  ASSUME UndoTyped, NEW t \in Tabs, landed \subseteq landed',
         UndoStep(t) \/ (\E b \in Bouts : TapUndo(t, b))
  PROVE  TablesOK' /\ WorkOK'
<1>0. /\ TablesOK /\ undo \in [Tabs -> UndoRecs] /\ settle \in [Tabs -> RunRecs]
      /\ undo[t] \in UndoRecs /\ settle[t].rows \subseteq landed
      /\ undo[t].stage \in AtWork => undo[t].row \in Entries
      /\ undo[t].stage = "void" => undo[t].row \in landed
  BY DEF UndoTyped, WorkOK
<1>1. ASSUME UNCHANGED <<undoTables, late>>
      PROVE  TablesOK'
  BY <1>0, <1>1 DEF TablesOK, undoTables
<1>2. ASSUME NEW b \in Bouts, TapUndo(t, b)
      PROVE  TablesOK' /\ WorkOK'
  <2>1. UNCHANGED <<undoTables, late, settle>>
    BY <1>2 DEF TapUndo
  <2> QED BY <1>0, <1>1, <1>2, <2>1, TapFields, WorkStays DEF AtWork
<1>3. CASE ReadTakenBack(t)
  <2>1. UNCHANGED <<undoTables, late, settle>>
    BY <1>3 DEF ReadTakenBack
  <2> QED BY <1>0, <1>1, <1>3, <2>1, ReadFields, WorkStays DEF AtWork
<1>4. CASE AskServer(t)
  <2>1. UNCHANGED <<undoTables, late, settle>>
    BY <1>4 DEF AskServer
  <2>2. /\ undo'[t].stage \in AtWork => undo'[t].row \in Entries
        /\ undo'[t].stage = "void" => undo'[t].row \in landed
    BY <1>0, <1>4, AskFields, EmptyRecs DEF AtWork, UndoRecs
  <2> QED BY <1>0, <1>1, <1>4, <2>1, <2>2, AskFields, WorkStays
<1>5. CASE VoidTaken(t)
  <2>1. /\ undo[t].stage = "void" /\ undo[t].row \in landed \cap Entries
        /\ voided' = voided \cup {undo[t].row}
        /\ gone' \subseteq gone \cup {undo[t].row}
        /\ UNCHANGED <<undone, notices, review, off, late, settle>>
        /\ To(t, "copy") \/ UndoEnds(t)
    BY <1>0, <1>5 DEF VoidTaken, VoidRow, AtWork
  <2>2. TablesOK'
    BY <1>0, <2>1 DEF TablesOK
  <2>3. /\ undo' \in [Tabs -> UndoRecs]
        /\ \A u \in Tabs \ {t} : undo'[u] = undo[u]
        /\ undo'[t].stage \in AtWork => undo'[t].row \in Entries
        /\ undo'[t].stage # "void"
    BY <1>0, <2>1, ToFields, EndsFields, EmptyRecs DEF UndoStages, AtWork
  <2> QED BY <1>0, <2>1, <2>2, <2>3, WorkStays
<1>6. CASE VoidFails(t)
  <2>1. /\ undo[t].stage = "void" /\ undo[t].row \in landed \cap Entries
        /\ voided' \subseteq voided \cup {undo[t].row}
        /\ UNCHANGED <<undone, notices, review, gone, off, late, settle>>
        /\ UndoEnds(t)
    BY <1>0, <1>6 DEF VoidFails, VoidRow, AtWork
  <2>2. TablesOK'
    BY <1>0, <2>1 DEF TablesOK
  <2> QED BY <1>0, <2>1, <2>2, EndsFields, EmptyRecs, WorkStays DEF AtWork
<1>7. CASE TakeOff(t)
  <2>1. /\ undo[t].stage \in {"take", "copy"} /\ undo[t].row \in Entries
        /\ undone' = undone \cup {undo[t].row} /\ off' = off \cup {undo[t].row}
        /\ UNCHANGED <<voided, notices, review, late, settle>>
    BY <1>0, <1>7 DEF TakeOff, TakeOffTablet, AtWork
  <2>2. /\ gone' \subseteq gone \cup {undo[t].row}
        /\ To(t, "forget") \/ To(t, "settle") \/ UndoEnds(t)
    BY <1>7, Zenon DEF TakeOff
  <2>3. TablesOK'
    BY <1>0, <2>1, <2>2 DEF TablesOK
  <2>4. /\ undo' \in [Tabs -> UndoRecs]
        /\ \A u \in Tabs \ {t} : undo'[u] = undo[u]
        /\ undo'[t].stage \in AtWork => undo'[t].row \in Entries
        /\ undo'[t].stage # "void"
    BY <1>0, <2>1, <2>2, ToFields, EndsFields, EmptyRecs DEF UndoStages, AtWork
  <2> QED BY <1>0, <2>1, <2>3, <2>4, WorkStays
<1>8. CASE TakenAlready(t)
  <2>1. UNCHANGED <<undoTables, late, settle>>
    BY <1>8 DEF TakenAlready
  <2>2. undo[t].row \in Entries /\ undo[t].row \in synced /\ synced \subseteq landed
    BY <1>0, <1>8 DEF TakenAlready, AtWork, UndoTyped, Filed, SyncedIsLanded
  <2> QED BY <1>0, <1>1, <1>8, <2>1, <2>2, TakenFields, WorkStays DEF AtWork
<1>9. CASE ForgetCopy(t)
  <2>1. /\ undo[t].row \in Entries
        /\ undone' \subseteq undone /\ gone' = gone \cup {undo[t].row}
        /\ UNCHANGED <<voided, notices, review, off, late, settle>>
        /\ UndoEnds(t)
    BY <1>0, <1>9 DEF ForgetCopy, AtWork
  <2>2. TablesOK'
    BY <1>0, <2>1 DEF TablesOK
  <2> QED BY <1>0, <2>1, <2>2, EndsFields, EmptyRecs, WorkStays DEF AtWork
<1>10. CASE UndoSettles(t)
  <2>1. /\ undo[t].row \in Entries
        /\ OfBout(undone, undo[t].bout) \in SUBSET Entries
        /\ Starts(t, OfBout(undone, undo[t].bout), undo[t].row)
        /\ To(t, "settling")
        /\ UNCHANGED <<undoTables, late>>
    BY <1>0, <1>10 DEF UndoSettles, Starts, AtWork, OfBout, TablesOK
  <2>2. settle' \in [Tabs -> RunRecs] /\ settle'[t].rows = {}
        /\ \A u \in Tabs \ {t} : settle'[u] = settle[u]
    BY <2>1, StartsFields
  <2> QED BY <1>0, <1>1, <2>1, <2>2, ToFields, WorkStays DEF AtWork, UndoStages
<1> QED
  BY <1>2, <1>3, <1>4, <1>5, <1>6, <1>7, <1>8, <1>9, <1>10 DEF UndoStep

(* A run ends, or one entry of it is done with, or it reads on.            *)
LEMMA SettleStepTyped ==
  ASSUME UndoTyped, NEW t \in Tabs, landed \subseteq landed',
         SettleStep(t) \/ Watch(t) \/ (\E r \in Entries : Expire(t, r))
  PROVE  TablesOK' /\ WorkOK'
<1>0. /\ TablesOK /\ undo \in [Tabs -> UndoRecs] /\ settle \in [Tabs -> RunRecs]
      /\ settle[t] \in RunRecs /\ settle[t].rows \subseteq landed
      /\ undo[t].stage \in AtWork => undo[t].row \in Entries
      /\ undo[t].stage = "void" => undo[t].row \in landed
  BY DEF UndoTyped, WorkOK
<1>1. ASSUME UNCHANGED undo, settle' \in [Tabs -> RunRecs],
             settle'[t].rows \subseteq landed,
             \A u \in Tabs \ {t} : settle'[u] = settle[u]
      PROVE  WorkOK'
  BY <1>0, <1>1, WorkStays
<1>2. ASSUME NEW r \in Entries, undone' \subseteq undone, notices' \subseteq notices \cup {r},
             review' \subseteq review \cup {r}, voided' \subseteq voided \cup {r},
             voided' = voided \/ r \in settle[t].rows,
             UNCHANGED <<gone, off, late>>
      PROVE  TablesOK'
  BY <1>0, <1>2 DEF TablesOK
<1>3. ASSUME NEW r \in Entries, NEW word \in BOOLEAN, Forget(t, r, word),
             UNCHANGED undo, UNCHANGED <<gone, off, late, review>>,
             UNCHANGED voided \/ (VoidRow(r) /\ r \in settle[t].rows)
      PROVE  TablesOK' /\ WorkOK'
  <2>1. undone' \subseteq undone /\ notices' \subseteq notices \cup {r}
    BY <1>3 DEF Forget
  <2> QED BY <1>0, <1>1, <1>2, <1>3, <2>1, ForgetFields DEF VoidRow
<1>4. ASSUME NEW r \in Entries, Keep(t, r),
             UNCHANGED undo, UNCHANGED <<gone, off, late, review>>,
             UNCHANGED voided \/ (VoidRow(r) /\ r \in settle[t].rows)
      PROVE  TablesOK' /\ WorkOK'
  <2>1. UNCHANGED <<undone, notices>>
    BY <1>4 DEF Keep
  <2> QED BY <1>0, <1>1, <1>2, <1>4, <2>1, KeepFields DEF VoidRow
<1>5. ASSUME NEW r \in Entries, Expire(t, r)
      PROVE  TablesOK' /\ WorkOK'
  BY <1>3, <1>5 DEF Expire
<1>6. ASSUME NEW r \in Entries,
             \/ SettleRefuse(t, r) \/ SettleAbsent(t, r) \/ SettleEnded(t, r)
             \/ SettleVoid(t, r) \/ SettleKeeps(t, r)
      PROVE  TablesOK' /\ WorkOK'
  BY <1>3, <1>4, <1>6
  DEF SettleRefuse, SettleAbsent, SettleEnded, SettleVoid, SettleKeeps, Voiding
<1>7. ASSUME NEW r \in Entries, SettleNotVoided(t, r)
      PROVE  TablesOK' /\ WorkOK'
  <2>1. CASE Forget(t, r, TRUE) /\ UNCHANGED review
    BY <1>3, <1>7, <2>1 DEF SettleNotVoided
  <2>2. CASE ~(Forget(t, r, TRUE) /\ UNCHANGED review)
    <3> DEFINE result == IF r = settle[t].tapped THEN "review" ELSE settle[t].result
    <3>1. /\ undone' = undone \ {r} /\ review' = review \cup {r} /\ UNCHANGED notices
          /\ settle' = [settle EXCEPT ![t].todo = @ \ {r}, ![t].result = result]
          /\ UNCHANGED <<voided, gone, off, late, undo>>
      BY <1>7, <2>2 DEF SettleNotVoided
    <3>2. result \in {"none", "refused", "review"}
      BY <1>0 DEF RunRecs
    <3> HIDE DEF result
    <3>3. settle' \in [Tabs -> RunRecs] /\ settle'[t].rows = settle[t].rows
          /\ \A u \in Tabs \ {t} : settle'[u] = settle[u]
      BY <3>1, <3>2, DoneFields
    <3> QED BY <1>0, <1>1, <1>2, <3>1, <3>3
  <2> QED BY <2>1, <2>2
<1>8. ASSUME UNCHANGED <<undoTables, late>>
      PROVE  TablesOK'
  BY <1>0, <1>8 DEF TablesOK, undoTables
<1>9. CASE (\E b \in Bouts : SettleRead(t, b)) \/ LookEnded(t) \/ NextBout(t)
  <2>1. UNCHANGED <<undoTables, late, undo>>
    BY <1>9 DEF SettleRead, LookEnded, NextBout
  <2>2. /\ settle' \in [Tabs -> RunRecs]
        /\ settle'[t].rows \subseteq landed
        /\ \A u \in Tabs \ {t} : settle'[u] = settle[u]
    BY <1>0, <1>9, RunOnFields DEF Live, OfBout
  <2> QED BY <1>1, <1>8, <2>1, <2>2
<1>10. CASE SettleEnds(t)
  <2>1. /\ settle' = [settle EXCEPT ![t] = NoRun]
        /\ UNCHANGED <<voided, undone, notices, review, off, late>>
    BY <1>10 DEF SettleEnds
  <2>2. /\ settle' \in [Tabs -> RunRecs] /\ settle'[t].rows = {}
        /\ \A u \in Tabs \ {t} : settle'[u] = settle[u]
    BY <1>0, <2>1, RunSet, EmptyRecs
  <2>3. CASE settle[t].tapped = NoRow
    <3>1. UNCHANGED <<undo, gone>>
      BY <1>10, <2>3 DEF SettleEnds
    <3> QED BY <1>1, <1>8, <2>1, <2>2, <3>1 DEF undoTables
  <2>4. CASE settle[t].tapped # NoRow
    <3>1. UndoEnds(t) /\ gone' \subseteq gone \cup {settle[t].tapped} /\ settle[t].tapped \in Entries
      BY <1>0, <1>10, <2>4 DEF SettleEnds, RunRecs
    <3>2. TablesOK'
      BY <1>0, <2>1, <3>1 DEF TablesOK
    <3> QED BY <1>0, <2>2, <3>1, <3>2, EndsFields, EmptyRecs, WorkStays DEF AtWork
  <2> QED BY <2>3, <2>4
<1>11. CASE Watch(t)
  <2>1. Starts(t, undone, NoRow) /\ undone \in SUBSET Entries /\ UNCHANGED <<undoTables, late, undo>>
    BY <1>0, <1>11 DEF Watch, Starts, TablesOK
  <2> QED BY <1>1, <1>8, <2>1, StartsFields
<1> QED
  BY <1>5, <1>6, <1>7, <1>9, <1>10, <1>11 DEF SettleStep

LEMMA NextUndoTyped == UndoTyped /\ [UndoNext]_allVars => UndoTyped'
<1> SUFFICES ASSUME UndoTyped, [UndoNext]_allVars PROVE UndoTyped'
  OBVIOUS
<1>0. Typed' /\ Filed' /\ landed \subseteq landed'
  BY NextQueueTyped
<1>1. /\ TablesOK /\ WorkOK /\ undo \in [Tabs -> UndoRecs] /\ settle \in [Tabs -> RunRecs]
  BY DEF UndoTyped, WorkOK
<1>2. CASE UNCHANGED allVars
  BY <1>0, <1>1, <1>2 DEF allVars, undoVars, undoTables, UndoTyped, TablesOK, WorkOK
<1>3. ASSUME NEW t \in Tabs, QueueStep(t)
      PROVE  TablesOK' /\ WorkOK'
  <2>1. UNCHANGED <<undoTables, undo, settle>>
    BY <1>3 DEF QueueStep
  <2>2. late' \subseteq Rows
    BY <1>1, <1>3 DEF QueueStep, Unanswered, UndoTyped, Typed, FlightOK, TablesOK
  <2> QED BY <1>0, <1>1, <2>1, <2>2 DEF TablesOK, WorkOK, undoTables
<1>4. ASSUME NEW t \in Tabs, ReloadAll(t)
      PROVE  TablesOK' /\ WorkOK'
  <2>1. /\ UNCHANGED undoTables
        /\ undo' = [undo EXCEPT ![t] = NoUndo] /\ settle' = [settle EXCEPT ![t] = NoRun]
    BY <1>4 DEF ReloadAll
  <2>2. late' \subseteq Rows
    BY <1>1, <1>4 DEF ReloadAll, Unanswered, UndoTyped, Typed, FlightOK, TablesOK
  <2>3. TablesOK'
    BY <1>0, <1>1, <2>1, <2>2 DEF TablesOK, undoTables
  <2>4. /\ undo' \in [Tabs -> UndoRecs] /\ undo'[t] = NoUndo
        /\ \A u \in Tabs \ {t} : undo'[u] = undo[u]
    BY <1>1, <2>1, UndoSet, EmptyRecs
  <2>5. /\ settle' \in [Tabs -> RunRecs] /\ settle'[t] = NoRun
        /\ \A u \in Tabs \ {t} : settle'[u] = settle[u]
    BY <1>1, <2>1, RunSet, EmptyRecs
  <2> QED BY <1>0, <2>3, <2>4, <2>5, EmptyRecs, WorkStays DEF AtWork
<1>5. CASE LateLands
  <2>1. UNCHANGED <<undoTables, undo, settle>> /\ late' \subseteq late
    BY <1>5 DEF LateLands
  <2>2. TablesOK' /\ WorkOK'
    BY <1>0, <1>1, <2>1 DEF TablesOK, WorkOK, undoTables
  <2> QED BY <1>0, <2>2 DEF UndoTyped
<1> QED
  BY <1>0, <1>2, <1>3, <1>4, <1>5, UndoStepTyped, SettleStepTyped DEF UndoTyped, UndoNext

LEMMA UndoTypedHolds == UndoSpec => []UndoTyped
  BY InitUndoTyped, NextUndoTyped, PTL DEF UndoSpec

(* Every reachable state of the pad with its undo is well typed, with any  *)
(* number of tabs: only an entry the server saved is voided, by an undo or *)
(* by a settle that read the server before (voidOnServer, settleUndone).   *)
THEOREM UndoTypeCorrect == UndoSpec => []UndoTypeOK
<1>1. UndoTyped => UndoTypeOK
  BY DEF UndoTyped, Typed, TablesOK, WorkOK, UndoTypeOK, UndoRecs, RunRecs
<1> QED BY <1>1, UndoTypedHolds, PTL

-----------------------------------------------------------------------------
(* One tab: an entry taken off the tablet stays off.                       *)

(* The tablet's half of the invariant: what was taken off was pressed      *)
(* before and is in no table, and what an undo may still take off was      *)
(* pressed.                                                                *)
StaysOff ==
  /\ off \cap (outbox \cup rejected \cup synced) = {}
  /\ undone \subseteq off
  /\ \A r \in off : Made(r)
  /\ \A t \in Tabs :
       /\ \A r \in undo[t].waiting : Made(r)
       /\ undo[t].stage \in {"take", "copy"} => Made(undo[t].row)

(* A step of the queue brings no pressed row back, and only a row of the   *)
(* queue reaches the server.                                               *)
LEMMA NextTables ==
  ASSUME Typed, Ordered, Next
  PROVE  /\ \A r \in Rows : Made(r) => Made(r)'
         /\ \A r \in Rows : Made(r) /\ r \in outbox' \cup rejected' \cup synced' =>
              r \in outbox \cup rejected \cup synced
         /\ \A r \in landed' : r \in landed \/ r \in outbox
<1> DEFINE Goal == /\ \A r \in Rows : Made(r) => Made(r)'
                   /\ \A r \in Rows : Made(r) /\ r \in outbox' \cup rejected' \cup synced' =>
                        r \in outbox \cup rejected \cup synced
                   /\ \A r \in landed' : r \in landed \/ r \in outbox
<1>1. ASSUME UNCHANGED place,
             outbox' \cup rejected' \cup synced' \subseteq outbox \cup rejected \cup synced,
             \A r \in landed' : r \in landed \/ r \in outbox
      PROVE  Goal
  BY <1>1 DEF Made
<1>2. \A t \in Tabs : pc[t] \in {"post", "answer"} => cur[t] \in outbox
  BY DEF Ordered, OutIsFree
<1>3. ASSUME NEW t \in Tabs, Engine(t)
      PROVE  Goal
  <2>1. CASE FileSent(t)
    BY <1>1, <1>2, <2>1 DEF FileSent, MarkSynced
  <2>2. CASE FileHeld(t)
    BY <1>1, <1>2, <2>2 DEF FileHeld, Quarantine
  <2>3. CASE ~FileSent(t) /\ ~FileHeld(t)
    <3>1. UNCHANGED <<store, landed>>
      BY <1>3, <2>3
      DEF Engine, ListPending, ReadHeld, SkipBehindHeld, WaitBehindUnsent, Claim, TrySecond,
        FileFailed, FileStopped, Release, WalkedAll, EmitWalked, EndPass, EndStopped
    <3> QED BY <1>1, <3>1 DEF store
  <2> QED BY <2>1, <2>2, <2>3
<1>4. ASSUME NEW t \in Tabs, Operator(t) \/ Tick(t)
      PROVE  Goal
  <2>1. ASSUME NEW r \in Rows, AddRow(t, r)
        PROVE  Goal
    BY <2>1 DEF AddRow, Made, Typed, TypeOK
  <2>2. CASE Drain(t) \/ RefreshState(t) \/ (\E r \in Rows : AskDiscard(t, r))
    BY <1>1, <2>2 DEF Drain, RefreshState, AskDiscard, store
  <2>3. CASE RetryAll(t) \/ (\E r \in Rows : RetryOne(t, r))
    BY <1>1, <2>3 DEF RetryAll, RetryOne, Requeue, Curable
  <2>4. CASE Discard(t)
    BY <1>1, <2>4 DEF Discard
  <2>5. ASSUME NEW r \in Rows, DiscardBout(t, r)
        PROVE  Goal
    BY <1>1, <2>5 DEF DiscardBout
  <2> QED BY <1>4, <2>1, <2>2, <2>3, <2>4, <2>5 DEF Operator, Tick, PressEntry, PressTap
<1>5. ASSUME NEW t \in Tabs, Server(t)
      PROVE  Goal
  BY <1>1, <1>2, <1>5 DEF Server, ServerTakes, ServerRefuses, store
<1>6. ASSUME NEW t \in Tabs, Reload(t)
      PROVE  Goal
  BY <1>1, <1>2, <1>6 DEF Reload, store
<1> QED BY <1>3, <1>4, <1>5, <1>6 DEF Next

(* The order of the queue survives a TakeOff, which never takes the row    *)
(* whose POST is out.                                                      *)
LEMMA UndoOrdered ==
  OneTabOnly /\ UndoTyped /\ Ordered /\ [UndoNext]_allVars => Ordered'
<1> SUFFICES ASSUME OneTabOnly, UndoTyped, Ordered, [UndoNext]_allVars PROVE Ordered'
  OBVIOUS
<1>0. Typed /\ UnmadeNowhere /\ OneTable
  BY DEF UndoTyped, Ordered
<1>1. CASE [Next]_vars
  BY <1>0, <1>1, NextOrdered
<1>2. ASSUME NEW t \in Tabs, TakeOff(t)
      PROVE  Ordered'
  <2>1. /\ UNCHANGED <<place, synced, discarded, pc, pass, cur, reply>>
        /\ outbox' = outbox \ {undo[t].row} /\ rejected' \subseteq rejected
        /\ ~(undo[t].row \in outbox /\ cur[t] = undo[t].row)
    BY <1>2 DEF TakeOff, TakeOffTablet, OnItsWay, flight
  <2>2. UnmadeNowhere' /\ OneTable'
    BY <1>0, <2>1 DEF UnmadeNowhere, OneTable, Made
  <2> QED BY <1>0, <2>1, <2>2, TablesChange
<1>3. CASE LateLands
  BY <1>3 DEF LateLands, store, pass, flight, Ordered, UnmadeNowhere, OneTable, Made, OutIsHead,
    HeldIsKnown, OutIsFree, LeftIsNoted, Waits
<1> QED BY <1>1, <1>2, <1>3, UndoQueueSteps DEF UndoNext, allVars

LEMMA InitStaysOff == UndoInit => Ordered /\ StaysOff
  BY InitOrdered, EmptyRecs DEF UndoInit, StaysOff

(* What a step of the undo may do to the parts StaysOff reads.             *)
LEMMA OffKept ==
  ASSUME StaysOff, OneTabOnly, NEW t \in Tabs, UNCHANGED <<place, off>>,
         outbox' \cup rejected' \cup synced' \subseteq outbox \cup rejected \cup synced,
         undone' \subseteq undone,
         \A r \in undo'[t].waiting : Made(r),
         undo'[t].stage \in {"take", "copy"} => Made(undo'[t].row)
  PROVE  StaysOff'
<1>1. \A u \in Tabs : u = t
  BY DEF OneTabOnly
<1> QED BY <1>1 DEF StaysOff, Made

LEMMA NextStaysOff ==
  OneTabOnly /\ UndoTyped /\ Ordered /\ StaysOff /\ [UndoNext]_allVars => StaysOff'
<1> SUFFICES ASSUME OneTabOnly, UndoTyped, Ordered, StaysOff, [UndoNext]_allVars
             PROVE  StaysOff'
  OBVIOUS
<1>0. /\ Typed /\ TablesOK /\ UnmadeNowhere /\ OneTable
      /\ undo \in [Tabs -> UndoRecs] /\ settle \in [Tabs -> RunRecs]
  BY DEF UndoTyped, WorkOK, Ordered
<1>1. CASE UNCHANGED allVars
  BY <1>1 DEF allVars, vars, store, undoVars, undoTables, StaysOff, Made
<1>2. ASSUME Next, UNCHANGED undoTables,
             \A t \in Tabs : undo'[t] \in {undo[t], NoUndo}
      PROVE  StaysOff'
  <2>1. /\ \A r \in Rows : Made(r) => Made(r)'
        /\ \A r \in Rows : Made(r) /\ r \in outbox' \cup rejected' \cup synced' =>
             r \in outbox \cup rejected \cup synced
    BY <1>0, <1>2, NextTables
  <2>2. off \subseteq Rows /\ UNCHANGED <<off, undone>>
    BY <1>0, <1>2 DEF TablesOK, Rows, undoTables
  <2>3. \A t \in Tabs : undo[t].waiting \subseteq Rows
    BY <1>0 DEF UndoRecs, Rows
  <2>4. \A t \in Tabs : undo[t].stage \in {"take", "copy"} => undo[t].row \in Rows
    BY DEF UndoTyped, WorkOK, AtWork, Rows
  <2> QED BY <2>1, <2>2, <2>3, <2>4, <1>2, EmptyRecs DEF StaysOff
<1>3. ASSUME NEW t \in Tabs, QueueStep(t)
      PROVE  StaysOff'
  BY <1>2, <1>3, UndoQueueSteps DEF QueueStep
<1>4. ASSUME NEW t \in Tabs, ReloadAll(t)
      PROVE  StaysOff'
  <2>1. \A u \in Tabs : undo'[u] \in {undo[u], NoUndo}
    BY <1>0, <1>4 DEF ReloadAll
  <2> QED BY <1>2, <1>4, <2>1, UndoQueueSteps DEF ReloadAll
<1>5. CASE LateLands
  BY <1>5 DEF LateLands, store, undoTables, StaysOff, Made
<1>6. ASSUME NEW t \in Tabs, TakeOff(t)
      PROVE  StaysOff'
  <2> DEFINE r == undo[t].row
  <2>1. /\ undo[t].stage \in {"take", "copy"} /\ r \notin synced
        /\ outbox' = outbox \ {r} /\ rejected' \subseteq rejected
        /\ r \notin outbox => r \notin rejected'
        /\ undone' = undone \cup {r} /\ off' = off \cup {r}
        /\ UNCHANGED <<place, synced>>
    BY <1>6 DEF TakeOff, TakeOffTablet
  <2>2. Made(r) /\ r \notin outbox' \cup rejected' \cup synced'
    BY <1>0, <2>1 DEF StaysOff, OneTable
  <2>3. To(t, "forget") \/ To(t, "settle") \/ UndoEnds(t)
    BY <1>6, Zenon DEF TakeOff
  <2>4. /\ undo'[t].stage \notin {"take", "copy"}
        /\ undo'[t].waiting \subseteq undo[t].waiting
    BY <1>0, <2>3, ToFields, EndsFields, EmptyRecs DEF UndoStages
  <2>5. \A u \in Tabs : u = t
    BY DEF OneTabOnly
  <2> HIDE DEF r
  <2> QED BY <2>1, <2>2, <2>4, <2>5 DEF StaysOff, Made
<1>7. ASSUME NEW t \in Tabs, ~TakeOff(t),
             \/ UndoStep(t) \/ SettleStep(t) \/ Watch(t) \/ (\E b \in Bouts : TapUndo(t, b))
             \/ (\E r \in Entries : Expire(t, r))
      PROVE  StaysOff'
  <2>1. UNCHANGED <<place, outbox, rejected, synced>>
    BY <1>7, UndoQueueSteps DEF vars, store
  <2>2. UNCHANGED off /\ undone' \subseteq undone
    <3>1. CASE UndoStep(t) \/ (\E b \in Bouts : TapUndo(t, b))
      BY <1>7, <3>1 DEF UndoStep, ReadTakenBack, AskServer, VoidTaken, VoidFails, TakenAlready,
        ForgetCopy, UndoSettles, Starts, TapUndo, undoTables
    <3>2. CASE Watch(t) \/ (\E r \in Entries : Expire(t, r)) \/ SettleStep(t)
      BY <3>2 DEF Watch, Starts, Expire, SettleStep, SettleRead, SettleRefuse, SettleAbsent,
        SettleEnded, SettleVoid, SettleNotVoided, SettleKeeps, LookEnded, NextBout, SettleEnds,
        Forget, Keep, undoTables
    <3> QED BY <1>7, <3>1, <3>2
  <2>3. /\ \A q \in undo[t].waiting : Made(q)
        /\ undo[t].stage \in {"take", "copy"} => Made(undo[t].row)
    BY DEF StaysOff
  <2>4. ASSUME undo'[t].waiting \subseteq undo[t].waiting,
               undo'[t].stage \in {"take", "copy"} => Made(undo'[t].row)
        PROVE  StaysOff'
    BY <2>1, <2>2, <2>3, <2>4, OffKept
  <2>5. CASE UNCHANGED undo
    BY <2>3, <2>4, <2>5
  <2>6. CASE UndoEnds(t)
    BY <1>0, <2>4, <2>6, EndsFields, EmptyRecs
  <2>7. ASSUME NEW b \in Bouts, TapUndo(t, b)
        PROVE  StaysOff'
    <3>1. \A q \in AfterClosers(b) : Made(q)
      BY <1>0 DEF AfterClosers, OfBout, UnmadeNowhere, Typed, TypeOK
    <3> QED BY <2>1, <2>2, <2>7, <3>1, TapFields, OffKept
  <2>8. CASE ReadTakenBack(t)
    BY <2>4, <2>8, ReadFields
  <2>9. CASE AskServer(t)
    BY <2>3, <2>4, <2>9, AskFields, EmptyRecs
  <2>10. CASE VoidTaken(t)
    <3>1. CASE undo[t].row \in undo[t].waiting
      <4>1. To(t, "copy")
        BY <2>10, <3>1 DEF VoidTaken
      <4> QED BY <1>0, <2>3, <2>4, <3>1, <4>1, ToFields DEF UndoStages
    <3>2. CASE undo[t].row \notin undo[t].waiting
      BY <2>6, <2>10, <3>2 DEF VoidTaken
    <3> QED BY <3>1, <3>2
  <2>11. CASE VoidFails(t) \/ ForgetCopy(t)
    BY <2>6, <2>11 DEF VoidFails, ForgetCopy
  <2>12. CASE TakenAlready(t)
    BY <2>4, <2>12, TakenFields
  <2>13. CASE UndoSettles(t)
    BY <1>0, <2>4, <2>13, ToFields DEF UndoSettles, UndoStages
  <2>14. CASE Watch(t) \/ (\E r \in Entries : Expire(t, r))
    BY <2>5, <2>14 DEF Watch, Expire
  <2>15. CASE SettleStep(t)
    <3>1. UNCHANGED undo \/ UndoEnds(t)
      BY <2>15 DEF SettleStep, SettleRead, SettleRefuse, SettleAbsent, SettleEnded, SettleVoid,
        SettleNotVoided, SettleKeeps, LookEnded, NextBout, SettleEnds
    <3> QED BY <2>5, <2>6, <3>1
  <2> QED
    BY <1>7, <2>7, <2>8, <2>9, <2>10, <2>11, <2>12, <2>13, <2>14, <2>15 DEF UndoStep
<1> QED BY <1>1, <1>3, <1>4, <1>5, <1>6, <1>7 DEF UndoNext, UndoStep

LEMMA StaysOffHolds == OneTabOnly /\ UndoSpec => [](UndoTyped /\ Ordered /\ StaysOff)
<1>1. OneTabOnly => OneTabOnly'
  BY DEF OneTabOnly
<1> QED BY <1>1, InitStaysOff, UndoTypedHolds, UndoOrdered, NextStaysOff, PTL DEF UndoSpec

(* With one tab, an entry an undo took off the tablet is not sent, held,   *)
(* put back or filed again, whatever the engine was doing with it          *)
(* (takeOffTablet, claimForSend), also when a POST of it lands late.       *)
THEOREM TakenOffIsOff == OneTabOnly /\ UndoSpec => []TakenOffStaysOff
<1>1. StaysOff => TakenOffStaysOff
  BY DEF StaysOff, TakenOffStaysOff
<1> QED BY <1>1, StaysOffHolds, PTL

-----------------------------------------------------------------------------
(* One tab, and every POST answered or dead: what the referee was told is  *)
(* undone is undone, or he hears of it.  The invariant follows the entry   *)
(* through the undo and through the settle that may run for it.            *)

(* A live entry of the server is still written down, or was reported.      *)
Accounted(r) == r \in landed \ voided => r \in undone \cup notices \cup review

UndoTold(t) ==
  /\ undo[t].stage \in {"listed", "asking"} => undo[t].waiting \cap off = {}
  /\ undo[t].stage = "asking" => undone \subseteq undo[t].left
  /\ undo[t].stage = "take" => undo[t].row \notin off
  /\ undo[t].stage = "void" => undo[t].row \notin (off \cap gone) \ (notices \cup review)
  /\ undo[t].stage \in {"copy", "forget"} => undo[t].row \in voided
  /\ undo[t].stage \in {"settle", "settling"} =>
       undo[t].row \in off /\ undo[t].row \notin gone \ voided
  /\ undo[t].stage = "settle" => Accounted(undo[t].row)

RunTold(t) ==
  /\ settle[t].tapped # NoRow =>
       /\ undo[t].stage = "settling" /\ undo[t].row = settle[t].tapped
       /\ settle[t].result = "none" => Accounted(settle[t].tapped)
  /\ settle[t].todo \subseteq off
  /\ settle[t].stage = "judge" =>
       \A r \in OfBout(settle[t].todo, settle[t].bout) :
         r \in landed \ voided => r \in settle[t].rows

Told ==
  /\ late = {}
  /\ gone \subseteq voided \cup off
  /\ \A r \in gone : Accounted(r)
  /\ \A t \in Tabs : UndoTold(t) /\ RunTold(t)

LEMMA InitTold == UndoInit => Told
  BY EmptyRecs DEF UndoInit, Told, UndoTold, RunTold

LEMMA OneTabTold ==
  ASSUME OneTabOnly, NEW t \in Tabs, late' = {}, gone' \subseteq voided' \cup off',
         \A r \in gone' : Accounted(r)', UndoTold(t)', RunTold(t)'
  PROVE  Told'
<1>1. \A u \in Tabs : u = t
  BY DEF OneTabOnly
<1> QED BY <1>1 DEF Told

(* A step of the queue: no entry taken off, and none voided, comes alive.  *)
LEMMA QueueTold ==
  ASSUME OneTabOnly, UndoTyped, Ordered, StaysOff, Told, NEW t \in Tabs,
         Next, UNCHANGED <<undoTables, late>>,
         \/ UNCHANGED <<undo, settle>>
         \/ undo'[t] = NoUndo /\ settle'[t] = NoRun
  PROVE  Told'
<1>0. /\ late = {} /\ gone \subseteq voided \cup off /\ UndoTold(t) /\ RunTold(t)
      /\ \A r \in gone : Accounted(r)
      /\ UNCHANGED <<voided, undone, notices, review, gone, off>>
  BY DEF Told, undoTables
<1>1. \A r \in landed' : r \in landed \/ r \in outbox
  BY NextTables DEF UndoTyped
<1>2. \A r : r \in voided \cup off /\ r \in landed' \ voided' => r \in landed \ voided
  BY <1>0, <1>1 DEF StaysOff
<1>3. \A r \in gone' : Accounted(r)'
  BY <1>0, <1>2 DEF Accounted
<1>4. CASE UNCHANGED <<undo, settle>>
  <2>1. UndoTold(t)'
    BY <1>0, <1>2, <1>4 DEF UndoTold, Accounted
  <2>2. RunTold(t)'
    BY <1>0, <1>2, <1>4 DEF RunTold, UndoTold, Accounted, OfBout
  <2> QED BY <1>0, <1>3, <2>1, <2>2, OneTabTold
<1>5. CASE undo'[t] = NoUndo /\ settle'[t] = NoRun
  <2>1. UndoTold(t)' /\ RunTold(t)'
    BY <1>5, EmptyRecs DEF UndoTold, RunTold
  <2> QED BY <1>0, <1>3, <2>1, OneTabTold
<1> QED BY <1>4, <1>5

(* One entry of a run is done with: it is accounted for, or it is the one  *)
(* the referee waits for and he is told, or it stays written down.         *)
LEMMA DoneTold ==
  ASSUME OneTabOnly, UndoTyped, Told, NEW t \in Tabs, NEW r \in Entries,
         UNCHANGED <<landed, gone, off, late, undo>>,
         voided \subseteq voided', notices \subseteq notices', review \subseteq review',
         undone' \subseteq undone, undone \ {r} \subseteq undone',
         settle'[t].stage = settle[t].stage, settle'[t].bout = settle[t].bout,
         settle'[t].todo = settle[t].todo \ {r}, settle'[t].rows = settle[t].rows,
         settle'[t].tapped = settle[t].tapped,
         settle'[t].result = "none" => settle[t].result = "none",
         \/ Accounted(r)'
         \/ r = settle[t].tapped /\ settle'[t].result # "none"
         \/ undone' = undone
  PROVE  Told'
<1>0. /\ late = {} /\ gone \subseteq voided \cup off /\ UndoTold(t) /\ RunTold(t)
      /\ \A q \in gone : Accounted(q)
      /\ NoRow \notin Entries
  BY PadConstants DEF Told, Rows
<1>1. \A q : Accounted(q) /\ (q # r \/ Accounted(r)' \/ undone' = undone) => Accounted(q)'
  BY DEF Accounted
<1>2. \A q \in gone' : Accounted(q)'
  <2> SUFFICES ASSUME NEW q \in gone, q = r, r = settle[t].tapped
               PROVE  Accounted(q)'
    BY <1>0, <1>1
  <2>1. r \in voided
    BY <1>0 DEF RunTold, UndoTold
  <2> QED BY <2>1 DEF Accounted
<1>3. UndoTold(t)'
  <2>1. undo[t].stage = "settle" => Accounted(undo[t].row)'
    BY <1>0, <1>1 DEF RunTold, UndoTold
  <2> QED BY <1>0, <2>1 DEF UndoTold
<1>4. RunTold(t)'
  <2>1. \A q : q = settle[t].tapped /\ q # NoRow /\ settle'[t].result = "none" => Accounted(q)'
    BY <1>0, <1>1 DEF RunTold
  <2>2. settle'[t].stage = "judge" =>
          \A q \in OfBout(settle'[t].todo, settle'[t].bout) :
            q \in landed' \ voided' => q \in settle'[t].rows
    BY <1>0 DEF RunTold, OfBout
  <2> QED BY <1>0, <2>1, <2>2 DEF RunTold, Accounted
<1> QED BY <1>0, <1>2, <1>3, <1>4, OneTabTold

LEMMA SettleEntryTold ==
  ASSUME OneTabOnly, UndoTyped, Told, NEW t \in Tabs, NEW r \in Entries,
         \/ Expire(t, r) \/ SettleRefuse(t, r) \/ SettleAbsent(t, r) \/ SettleEnded(t, r)
         \/ SettleVoid(t, r) \/ SettleNotVoided(t, r) \/ SettleKeeps(t, r)
  PROVE  Told'
<1>0. RunTold(t) /\ settle[t] \in RunRecs
  BY DEF Told, UndoTyped, WorkOK
<1>1. ASSUME Forget(t, r, TRUE), UNCHANGED <<vars, voided, review, gone, off, late, undo>>
      PROVE  Told'
  <2>1. /\ undone' = undone \ {r} /\ UNCHANGED landed
        /\ notices' = IF r # settle[t].tapped THEN notices \cup {r} ELSE notices
    BY <1>1 DEF Forget, vars
  <2>2. /\ settle'[t].stage = settle[t].stage /\ settle'[t].bout = settle[t].bout
        /\ settle'[t].todo = settle[t].todo \ {r} /\ settle'[t].rows = settle[t].rows
        /\ settle'[t].tapped = settle[t].tapped
        /\ settle'[t].result = IF r = settle[t].tapped THEN "refused" ELSE settle[t].result
    BY <1>1, ForgetFields
  <2>3. CASE r = settle[t].tapped
    BY <1>1, <2>1, <2>2, <2>3, DoneTold
  <2>4. CASE r # settle[t].tapped
    <3>1. Accounted(r)'
      BY <2>1, <2>4 DEF Accounted
    <3> QED BY <1>1, <2>1, <2>2, <2>4, <3>1, DoneTold
  <2> QED BY <2>3, <2>4
<1>2. ASSUME Forget(t, r, FALSE), UNCHANGED <<vars, review, gone, off, late, undo>>,
             \/ VoidRow(r)
             \/ UNCHANGED voided /\ r \notin landed \ voided
      PROVE  Told'
  <2>1. /\ undone' = undone \ {r} /\ UNCHANGED <<landed, notices>>
        /\ voided \subseteq voided'
    BY <1>2 DEF Forget, vars, VoidRow
  <2>2. Accounted(r)'
    BY <1>2, <2>1 DEF VoidRow, Accounted
  <2>3. /\ settle'[t].stage = settle[t].stage /\ settle'[t].bout = settle[t].bout
        /\ settle'[t].todo = settle[t].todo \ {r} /\ settle'[t].rows = settle[t].rows
        /\ settle'[t].tapped = settle[t].tapped /\ settle'[t].result = settle[t].result
    BY <1>2, ForgetFields
  <2> QED BY <1>2, <2>1, <2>2, <2>3, DoneTold
<1>3. ASSUME Keep(t, r), UNCHANGED <<vars, review, gone, off, late, undo>>,
             VoidRow(r) \/ UNCHANGED voided
      PROVE  Told'
  <2>1. UNCHANGED <<landed, undone, notices>> /\ voided \subseteq voided'
    BY <1>3 DEF Keep, vars, VoidRow
  <2> QED BY <1>3, <2>1, KeepFields, DoneTold
<1>4. CASE SettleAbsent(t, r)
  <2>1. r \notin landed \ voided
    BY <1>0, <1>4 DEF SettleAbsent, InTurn, RunTold
  <2> QED BY <1>2, <1>4, <2>1 DEF SettleAbsent
<1>5. CASE Expire(t, r) \/ SettleRefuse(t, r) \/ SettleEnded(t, r)
  BY <1>1, <1>3, <1>5 DEF Expire, SettleRefuse, SettleEnded
<1>6. CASE SettleVoid(t, r) \/ SettleKeeps(t, r)
  BY <1>2, <1>3, <1>6 DEF SettleVoid, SettleKeeps
<1>7. CASE SettleNotVoided(t, r)
  <2>1. CASE Forget(t, r, TRUE) /\ UNCHANGED review
    BY <1>1, <1>7, <2>1 DEF SettleNotVoided
  <2>2. CASE ~(Forget(t, r, TRUE) /\ UNCHANGED review)
    <3> DEFINE result == IF r = settle[t].tapped THEN "review" ELSE settle[t].result
    <3>1. /\ undone' = undone \ {r} /\ review' = review \cup {r} /\ UNCHANGED notices
          /\ settle' = [settle EXCEPT ![t].todo = @ \ {r}, ![t].result = result]
          /\ UNCHANGED <<landed, voided, gone, off, late, undo>>
      BY <1>7, <2>2 DEF SettleNotVoided, vars
    <3>2. result \in {"none", "refused", "review"} /\ (result = "none" => settle[t].result = "none")
      BY <1>0 DEF RunRecs
    <3> HIDE DEF result
    <3>3. /\ settle'[t].stage = settle[t].stage /\ settle'[t].bout = settle[t].bout
          /\ settle'[t].todo = settle[t].todo \ {r} /\ settle'[t].rows = settle[t].rows
          /\ settle'[t].tapped = settle[t].tapped /\ settle'[t].result = result
      BY <3>1, <3>2, DoneFields
    <3>4. Accounted(r)'
      BY <3>1 DEF Accounted
    <3> QED BY <3>1, <3>2, <3>3, <3>4, DoneTold
  <2> QED BY <2>1, <2>2
<1> QED BY <1>4, <1>5, <1>6, <1>7

(* A run starts, reads on, or ends and answers the referee.                *)
LEMMA SettleRunTold ==
  ASSUME OneTabOnly, UndoTyped, StaysOff, Told, NEW t \in Tabs,
         \/ Watch(t) \/ (\E b \in Bouts : SettleRead(t, b)) \/ LookEnded(t) \/ NextBout(t)
         \/ SettleEnds(t)
  PROVE  Told'
<1>0. /\ late = {} /\ gone \subseteq voided \cup off /\ UndoTold(t) /\ RunTold(t)
      /\ \A q \in gone : Accounted(q)
      /\ settle[t] \in RunRecs /\ settle \in [Tabs -> RunRecs] /\ undo \in [Tabs -> UndoRecs]
  BY DEF Told, UndoTyped, WorkOK
<1>1. ASSUME UNCHANGED <<vars, undoTables, late, undo>>, RunTold(t)'
      PROVE  Told'
  <2>1. UNCHANGED <<landed, voided, undone, notices, review, gone, off, undo>>
    BY <1>1 DEF vars, undoTables
  <2>2. UndoTold(t)' /\ \A q \in gone' : Accounted(q)'
    BY <1>0, <2>1 DEF UndoTold, Accounted
  <2> QED BY <1>0, <1>1, <2>1, <2>2, OneTabTold
<1>2. CASE Watch(t)
  <2>1. /\ Starts(t, undone, NoRow) /\ undone \in SUBSET Entries /\ undone \subseteq off
        /\ UNCHANGED <<vars, undoTables, late, undo>>
    BY <1>2 DEF Watch, Starts, UndoTyped, TablesOK, StaysOff
  <2>2. settle'[t].todo = undone /\ settle'[t].tapped = NoRow /\ settle'[t].stage = "expire"
    BY <2>1, StartsFields
  <2>3. RunTold(t)'
    BY <2>1, <2>2 DEF RunTold, undoTables
  <2> QED BY <1>1, <2>1, <2>3
<1>3. CASE (\E b \in Bouts : SettleRead(t, b)) \/ LookEnded(t) \/ NextBout(t)
  <2>1. UNCHANGED <<vars, undoTables, late, undo>>
    BY <1>3 DEF SettleRead, LookEnded, NextBout
  <2>2. /\ settle' \in [Tabs -> RunRecs]
        /\ settle'[t].tapped = settle[t].tapped /\ settle'[t].result = settle[t].result
        /\ settle'[t].todo \subseteq settle[t].todo
        /\ \/ settle'[t].rows = Live(settle'[t].bout)
           \/ /\ settle'[t].stage = settle[t].stage /\ settle'[t].bout = settle[t].bout
              /\ settle'[t].rows = settle[t].rows
           \/ settle'[t].stage # "judge" /\ settle'[t].rows \in {settle[t].rows, {}}
    BY <1>3, RunOnFields
  <2>3. UNCHANGED <<landed, voided, undone, notices, review, off, undo>>
    BY <2>1 DEF vars, undoTables
  <2>4. ASSUME settle'[t].stage = "judge",
               NEW q \in OfBout(settle'[t].todo, settle'[t].bout), q \in landed \ voided
        PROVE  q \in settle'[t].rows
    <3>1. q \in Entries
      BY <1>0, <2>2, <2>4 DEF OfBout, RunRecs
    <3>2. CASE settle'[t].rows = Live(settle'[t].bout)
      BY <2>4, <3>1, <3>2 DEF Live, OfBout
    <3>3. CASE /\ settle'[t].stage = settle[t].stage /\ settle'[t].bout = settle[t].bout
               /\ settle'[t].rows = settle[t].rows
      BY <1>0, <2>2, <2>4, <3>3 DEF RunTold, OfBout
    <3> QED BY <2>2, <2>4, <3>2, <3>3
  <2>5. RunTold(t)'
    BY <1>0, <2>2, <2>3, <2>4 DEF RunTold, Accounted
  <2> QED BY <1>1, <2>1, <2>5
<1>4. CASE SettleEnds(t)
  <2>1. /\ settle'[t] = NoRun
        /\ UNCHANGED <<landed, voided, undone, notices, review, off, late>>
    BY <1>0, <1>4 DEF SettleEnds, vars
  <2>2. RunTold(t)'
    BY <2>1, EmptyRecs DEF RunTold, OfBout
  <2>3. CASE settle[t].tapped = NoRow
    <3>1. UNCHANGED <<vars, undoTables, late, undo>>
      BY <1>4, <2>3 DEF SettleEnds, undoTables
    <3> QED BY <1>1, <2>2, <3>1
  <2>4. CASE settle[t].tapped # NoRow
    <3>1. /\ UndoEnds(t)
          /\ gone' = IF settle[t].result = "none" THEN gone \cup {settle[t].tapped} ELSE gone
      BY <1>4, <2>4 DEF SettleEnds
    <3>2. UndoTold(t)'
      BY <1>0, <3>1, EndsFields, EmptyRecs DEF UndoTold
    <3>3. settle[t].tapped \in off /\ (settle[t].result = "none" => Accounted(settle[t].tapped))
      BY <1>0, <2>4 DEF RunTold, UndoTold
    <3>4. gone' \subseteq voided' \cup off' /\ \A q \in gone' : Accounted(q)
      BY <1>0, <2>1, <3>1, <3>3
    <3>5. \A q \in gone' : Accounted(q)'
      BY <2>1, <3>4 DEF Accounted
    <3> QED BY <1>0, <2>1, <2>2, <3>2, <3>4, <3>5, OneTabTold
  <2> QED BY <2>3, <2>4
<1> QED BY <1>2, <1>3, <1>4

(* The steps of the undo itself.  No run is its own yet.                   *)
LEMMA UndoStepTold ==
  ASSUME OneTabOnly, UndoTyped, StaysOff, Told, NEW t \in Tabs,
         UndoStep(t) \/ (\E b \in Bouts : TapUndo(t, b))
  PROVE  Told'
<1>0. /\ late = {} /\ gone \subseteq voided \cup off /\ UndoTold(t) /\ RunTold(t)
      /\ \A q \in gone : Accounted(q)
      /\ settle[t] \in RunRecs /\ undo \in [Tabs -> UndoRecs] /\ undo[t] \in UndoRecs
      /\ undone \subseteq off /\ off \cap (outbox \cup rejected \cup synced) = {}
  BY DEF Told, UndoTyped, WorkOK, StaysOff
<1>1. ASSUME UNCHANGED <<landed, settle>>, voided \subseteq voided', off \subseteq off',
             undo[t].stage # "settling"
      PROVE  RunTold(t)'
  BY <1>0, <1>1 DEF RunTold, OfBout
<1>2. ASSUME UNCHANGED <<vars, undoTables, late, settle>>, undo[t].stage # "settling",
             UndoTold(t)'
      PROVE  Told'
  <2>1. UNCHANGED <<landed, voided, undone, notices, review, gone, off>>
    BY <1>2 DEF vars, undoTables
  <2> QED BY <1>0, <1>1, <1>2, <2>1, OneTabTold DEF Accounted
<1>3. ASSUME NEW b \in Bouts, TapUndo(t, b)
      PROVE  Told'
  <2>1. /\ UNCHANGED <<vars, undoTables, late, settle>> /\ undo[t].stage = "off"
        /\ undo'[t].stage = "listed" /\ undo'[t].waiting = AfterClosers(b)
    BY <1>3, TapFields DEF TapUndo
  <2>2. AfterClosers(b) \subseteq outbox
    BY DEF AfterClosers, OfBout
  <2>3. UndoTold(t)'
    BY <1>0, <2>1, <2>2 DEF UndoTold, undoTables
  <2> QED BY <1>2, <2>1, <2>3
<1>4. CASE ReadTakenBack(t)
  <2>1. /\ UNCHANGED <<vars, undoTables, late, settle>> /\ undo[t].stage = "listed"
        /\ undo'[t].stage = "asking" /\ undo'[t].left = undone
        /\ undo'[t].waiting = undo[t].waiting
    BY <1>4, ReadFields DEF ReadTakenBack
  <2>2. UndoTold(t)'
    BY <1>0, <2>1 DEF UndoTold, undoTables
  <2> QED BY <1>2, <2>1, <2>2
<1>5. CASE AskServer(t)
  <2>1. /\ UNCHANGED <<vars, undoTables, late, settle>> /\ undo[t].stage = "asking"
        /\ \/ undo'[t] = NoUndo
           \/ /\ undo'[t].stage = "void"
              /\ undo'[t].row \in (landed \cap Entries) \ voided
              /\ undo'[t].row \notin undo[t].left
           \/ undo'[t].stage = "take" /\ undo'[t].row \in undo[t].waiting
    BY <1>5, AskFields DEF AskServer
  <2>2. UNCHANGED <<voided, undone, notices, review, gone, off>>
    BY <2>1 DEF undoTables
  <2>3. undone \subseteq undo[t].left /\ undo[t].waiting \cap off = {}
    BY <1>0, <2>1 DEF UndoTold
  <2>4. CASE undo'[t] = NoUndo
    <3>1. UndoTold(t)'
      BY <2>4, EmptyRecs DEF UndoTold
    <3> QED BY <1>2, <2>1, <3>1
  <2>5. CASE /\ undo'[t].stage = "void"
             /\ undo'[t].row \in (landed \cap Entries) \ voided
             /\ undo'[t].row \notin undo[t].left
    <3>1. undo'[t].row \in gone => undo'[t].row \in notices \cup review
      BY <1>0, <2>3, <2>5 DEF Accounted
    <3>2. UndoTold(t)'
      BY <2>2, <2>5, <3>1 DEF UndoTold
    <3> QED BY <1>2, <2>1, <3>2
  <2>6. CASE undo'[t].stage = "take" /\ undo'[t].row \in undo[t].waiting
    <3>1. UndoTold(t)'
      BY <2>2, <2>3, <2>6 DEF UndoTold
    <3> QED BY <1>2, <2>1, <3>1
  <2> QED BY <2>1, <2>4, <2>5, <2>6
<1>6. CASE VoidTaken(t) \/ VoidFails(t)
  <2>1. /\ undo[t].stage = "void"
        /\ voided \subseteq voided'
        /\ UNCHANGED <<landed, undone, notices, review, off, late, settle>>
        /\ \/ To(t, "copy") /\ gone' = gone /\ undo[t].row \in voided'
           \/ UndoEnds(t) /\ gone' \subseteq gone \cup {undo[t].row} /\ undo[t].row \in voided'
           \/ UndoEnds(t) /\ gone' = gone
    BY <1>6 DEF VoidTaken, VoidFails, VoidRow, vars
  <2>2. gone' \subseteq voided' \cup off' /\ \A q \in gone' : Accounted(q)'
    BY <1>0, <2>1 DEF Accounted
  <2>3. UndoTold(t)'
    BY <1>0, <2>1, ToFields, EndsFields, EmptyRecs DEF UndoTold, UndoStages
  <2> QED BY <1>0, <1>1, <2>1, <2>2, <2>3, OneTabTold
<1>7. CASE TakeOff(t)
  <2>1. /\ undo[t].stage \in {"take", "copy"}
        /\ undone' = undone \cup {undo[t].row} /\ off' = off \cup {undo[t].row}
        /\ UNCHANGED <<landed, voided, notices, review, late, settle>>
    BY <1>7 DEF TakeOff, TakeOffTablet
  <2>2. \/ undo[t].stage = "copy" /\ To(t, "forget") /\ gone' = gone
        \/ undo[t].stage = "take" /\ To(t, "settle") /\ gone' = gone
        \/ undo[t].stage = "take" /\ UndoEnds(t) /\ gone' = gone \cup {undo[t].row}
    BY <1>7, Zenon DEF TakeOff
  <2>3. gone' \subseteq voided' \cup off' /\ \A q \in gone' : Accounted(q)'
    BY <1>0, <2>1, <2>2 DEF Accounted
  <2>4. CASE undo[t].stage = "copy" /\ To(t, "forget") /\ gone' = gone
    <3>1. undo'[t].stage = "forget" /\ undo'[t].row \in voided
      BY <1>0, <2>4, ToFields DEF UndoTold, UndoStages
    <3>2. UndoTold(t)'
      BY <2>1, <3>1 DEF UndoTold
    <3> QED BY <1>0, <1>1, <2>1, <2>3, <2>4, <3>2, OneTabTold
  <2>5. CASE undo[t].stage = "take" /\ To(t, "settle") /\ gone' = gone
    <3>1. undo'[t].stage = "settle" /\ undo'[t].row = undo[t].row
      BY <1>0, <2>5, ToFields DEF UndoStages
    <3>2. undo[t].row \notin gone \ voided
      BY <1>0, <2>5 DEF UndoTold
    <3>3. UndoTold(t)'
      BY <2>1, <2>5, <3>1, <3>2 DEF UndoTold, Accounted
    <3> QED BY <1>0, <1>1, <2>1, <2>3, <2>5, <3>3, OneTabTold
  <2>6. CASE undo[t].stage = "take" /\ UndoEnds(t) /\ gone' = gone \cup {undo[t].row}
    <3>1. UndoTold(t)'
      BY <1>0, <2>6, EndsFields, EmptyRecs DEF UndoTold
    <3> QED BY <1>0, <1>1, <2>1, <2>3, <2>6, <3>1, OneTabTold
  <2> QED BY <2>2, <2>4, <2>5, <2>6
<1>8. CASE TakenAlready(t)
  <2>1. /\ UNCHANGED <<vars, undoTables, late, settle>> /\ undo[t].stage # "settling"
        /\ undo'[t].row = undo[t].row /\ undo[t].row \in synced
        /\ \/ undo[t].stage = "copy" /\ undo'[t].stage = "forget"
           \/ undo[t].stage = "take" /\ undo'[t].stage = "void"
    BY <1>8, TakenFields DEF TakenAlready
  <2>2. UndoTold(t)'
    BY <1>0, <2>1 DEF UndoTold, undoTables
  <2> QED BY <1>2, <2>1, <2>2
<1>9. CASE ForgetCopy(t)
  <2>1. /\ undo[t].stage = "forget" /\ undo[t].row \in voided
        /\ undone' = undone \ {undo[t].row} /\ gone' = gone \cup {undo[t].row}
        /\ UNCHANGED <<landed, voided, notices, review, off, late, settle>>
        /\ UndoEnds(t)
    BY <1>0, <1>9 DEF ForgetCopy, vars, UndoTold
  <2>2. gone' \subseteq voided' \cup off' /\ \A q \in gone' : Accounted(q)'
    BY <1>0, <2>1 DEF Accounted
  <2>3. UndoTold(t)'
    BY <1>0, <2>1, EndsFields, EmptyRecs DEF UndoTold
  <2> QED BY <1>0, <1>1, <2>1, <2>2, <2>3, OneTabTold
<1>10. CASE UndoSettles(t)
  <2>1. /\ undo[t].stage = "settle" /\ undo[t].row \in Entries
        /\ OfBout(undone, undo[t].bout) \in SUBSET Entries
        /\ Starts(t, OfBout(undone, undo[t].bout), undo[t].row)
        /\ To(t, "settling")
        /\ UNCHANGED <<landed, voided, undone, notices, review, gone, off, late>>
    BY <1>10 DEF UndoSettles, Starts, vars, undoTables, UndoTyped, WorkOK, TablesOK, AtWork, OfBout
  <2>2. /\ settle'[t].todo = OfBout(undone, undo[t].bout) /\ settle'[t].tapped = undo[t].row
        /\ settle'[t].stage = "expire"
    <3> DEFINE entries == OfBout(undone, undo[t].bout)
               row == undo[t].row
    <3>1. /\ row \in Entries \cup {NoRow} /\ entries \in SUBSET Entries
          /\ Starts(t, entries, row)
      BY <2>1
    <3> HIDE DEF entries, row
    <3>2. settle'[t].todo = entries /\ settle'[t].tapped = row /\ settle'[t].stage = "expire"
      BY <3>1, StartsFields
    <3> QED BY <3>2 DEF entries, row
  <2>3. undo'[t].stage = "settling" /\ undo'[t].row = undo[t].row
    BY <1>0, <2>1, ToFields DEF UndoStages
  <2>4. OfBout(undone, undo[t].bout) \subseteq off
    BY <1>0 DEF OfBout
  <2>5. RunTold(t)'
    BY <1>0, <2>1, <2>2, <2>3, <2>4 DEF RunTold, UndoTold, Accounted
  <2>6. UndoTold(t)'
    BY <1>0, <2>1, <2>3 DEF UndoTold
  <2> QED BY <1>0, <2>1, <2>5, <2>6, OneTabTold DEF Accounted
<1> QED
  BY <1>3, <1>4, <1>5, <1>6, <1>7, <1>8, <1>9, <1>10 DEF UndoStep

LEMMA NextTold ==
  LateRows = {} /\ OneTabOnly /\ UndoTyped /\ Ordered /\ StaysOff /\ Told /\ [UndoNext]_allVars
    => Told'
<1> SUFFICES ASSUME LateRows = {}, OneTabOnly, UndoTyped, Ordered, StaysOff, Told,
                    [UndoNext]_allVars
             PROVE  Told'
  OBVIOUS
<1>1. CASE UNCHANGED allVars
  BY <1>1 DEF allVars, vars, undoVars, undoTables, Told, UndoTold, RunTold, Accounted, OfBout
<1>2. ASSUME NEW t \in Tabs, QueueStep(t)
      PROVE  Told'
  <2>1. Next /\ UNCHANGED <<undoTables, late, undo, settle>>
    BY <1>2, UndoQueueSteps DEF QueueStep, Unanswered
  <2> QED BY <2>1, QueueTold
<1>3. ASSUME NEW t \in Tabs, ReloadAll(t)
      PROVE  Told'
  <2>1. Next /\ UNCHANGED <<undoTables, late>>
    BY <1>3, UndoQueueSteps DEF ReloadAll, Unanswered
  <2>2. undo'[t] = NoUndo /\ settle'[t] = NoRun
    BY <1>3 DEF ReloadAll, UndoTyped, WorkOK
  <2> QED BY <2>1, <2>2, QueueTold
<1>4. CASE LateLands
  BY <1>4 DEF LateLands, Told
<1> QED
  BY <1>1, <1>2, <1>3, <1>4, UndoStepTold, SettleRunTold, SettleEntryTold
  DEF UndoNext, SettleStep

LEMMA ToldHolds == LateRows = {} /\ OneTabOnly /\ UndoSpec => []Told
<1>1. OneTabOnly /\ LateRows = {} => OneTabOnly' /\ (LateRows = {})'
  BY DEF OneTabOnly
<1> QED BY <1>1, InitTold, StaysOffHolds, NextTold, PTL DEF UndoSpec

(* With one tab, and where no POST lands after its answer was given up, an *)
(* entry the referee was told is undone is not left live on the server     *)
(* unsaid: it is voided, or still written down for the settle, or a notice *)
(* or a review says so, through every reload, late void and settle run     *)
(* (undoLastEntry, settleUndone).                                          *)
THEOREM UndoIsKept == LateRows = {} /\ OneTabOnly /\ UndoSpec => []UndoHolds
<1>1. Told => UndoHolds
  BY DEF Told, Accounted, UndoHolds
<1> QED BY <1>1, ToldHolds, PTL

(* Under the same conditions no tap on Undo is spent on an entry an        *)
(* earlier tap took back, while nothing said that undo failed: the list of *)
(* what was taken back, read before the server is asked, is enough         *)
(* (newestToUndo).                                                         *)
THEOREM TapIsNotWasted == LateRows = {} /\ OneTabOnly /\ UndoSpec => []NotTakenTwice
<1>1. Told => NotTakenTwice
  BY DEF Told, UndoTold, NotTakenTwice
<1> QED BY <1>1, ToldHolds, PTL

-----------------------------------------------------------------------------
(* What the queue promises, with the undo beside it.                       *)

(* Where a row that was pressed may be, short of an undo.                  *)
IsKept(r) == r \in outbox \cup rejected \cup discarded \cup (IF r \in Taps THEN landed ELSE synced)

(* NoRowLost, with an undo that takes entries off the tablet: nothing else *)
(* is missing.                                                             *)
NoRowLostButUndone == \A r \in Rows : Made(r) => IsKept(r) \/ r \in off

LEMMA NextIsKept ==
  ASSUME Typed, Filed, Next
  PROVE  \A r \in Rows : (Made(r) => IsKept(r)) => (Made(r)' => IsKept(r)')
<1> DEFINE Goal == \A r \in Rows : (Made(r) => IsKept(r)) => (Made(r)' => IsKept(r)')
<1>1. ASSUME UNCHANGED place,
             outbox \cup rejected \cup discarded \subseteq outbox' \cup rejected' \cup discarded',
             landed \subseteq landed', synced \subseteq synced'
      PROVE  Goal
  BY <1>1 DEF Made, IsKept
<1>2. ASSUME NEW t \in Tabs, Engine(t)
      PROVE  Goal
  <2>1. CASE FileSent(t)
    <3>1. /\ cur[t] \in landed
          /\ outbox' = outbox \ {cur[t]} /\ UNCHANGED <<place, rejected, discarded, landed>>
          /\ synced' = IF cur[t] \in Entries THEN synced \cup {cur[t]} ELSE synced
      BY <2>1 DEF FileSent, MarkSynced, IsSaved, Filed, OkIsLanded
    <3> QED BY <3>1, PadConstants DEF IsKept, Made, Rows
  <2>2. CASE FileHeld(t)
    BY <1>1, <2>2 DEF FileHeld, Quarantine
  <2>3. CASE ~FileSent(t) /\ ~FileHeld(t)
    <3>1. UNCHANGED <<store, landed>>
      BY <1>2, <2>3
      DEF Engine, ListPending, ReadHeld, SkipBehindHeld, WaitBehindUnsent, Claim, TrySecond,
        FileFailed, FileStopped, Release, WalkedAll, EmitWalked, EndPass, EndStopped
    <3> QED BY <1>1, <3>1 DEF store
  <2> QED BY <2>1, <2>2, <2>3
<1>3. ASSUME NEW t \in Tabs, Operator(t) \/ Tick(t)
      PROVE  Goal
  <2>1. ASSUME NEW r \in Rows, AddRow(t, r)
        PROVE  Goal
    BY <2>1 DEF AddRow, Made, IsKept, Typed, TypeOK
  <2>2. CASE Drain(t) \/ RefreshState(t) \/ (\E r \in Rows : AskDiscard(t, r))
    BY <1>1, <2>2 DEF Drain, RefreshState, AskDiscard, store
  <2>3. CASE RetryAll(t) \/ (\E r \in Rows : RetryOne(t, r))
    BY <1>1, <2>3 DEF RetryAll, RetryOne, Requeue, Curable
  <2>4. CASE Discard(t)
    BY <1>1, <2>4 DEF Discard
  <2>5. ASSUME NEW r \in Rows, DiscardBout(t, r)
        PROVE  Goal
    BY <1>1, <2>5 DEF DiscardBout, OfBout
  <2> QED BY <1>3, <2>1, <2>2, <2>3, <2>4, <2>5 DEF Operator, Tick, PressEntry, PressTap
<1>4. ASSUME NEW t \in Tabs, Server(t) \/ Reload(t)
      PROVE  Goal
  BY <1>1, <1>4 DEF Server, ServerTakes, ServerRefuses, Reload, store
<1> QED BY <1>2, <1>3, <1>4 DEF Next

(* A step of the undo or of the settle takes an entry off, or touches      *)
(* neither the queue nor what was taken off.                               *)
LEMMA TakesOrLeaves ==
  ASSUME NEW t \in Tabs,
         \/ UndoStep(t) \/ SettleStep(t) \/ Watch(t)
         \/ \E b \in Bouts : TapUndo(t, b)
         \/ \E r \in Entries : Expire(t, r)
  PROVE  TakeOff(t) \/ UNCHANGED <<vars, off>>
<1>1. TakeOff(t) \/ UNCHANGED vars
  BY UndoQueueSteps
<1>2. ASSUME ~TakeOff(t) PROVE UNCHANGED off
  <2>1. CASE UndoStep(t)
    BY <1>2, <2>1 DEF UndoStep, ReadTakenBack, AskServer, VoidTaken, VoidFails, TakenAlready,
      ForgetCopy, UndoSettles, Starts, undoTables
  <2>2. CASE SettleStep(t)
    <3>1. ASSUME NEW r \in Entries,
                 \/ SettleRefuse(t, r) \/ SettleAbsent(t, r) \/ SettleEnded(t, r)
                 \/ SettleVoid(t, r) \/ SettleNotVoided(t, r) \/ SettleKeeps(t, r)
          PROVE  UNCHANGED off
      BY <3>1, Zenon
      DEF SettleRefuse, SettleAbsent, SettleEnded, SettleVoid, SettleNotVoided, SettleKeeps
    <3>2. ASSUME NEW b \in Bouts, SettleRead(t, b)
          PROVE  UNCHANGED off
      BY <3>2, Zenon DEF SettleRead, undoTables
    <3>3. CASE LookEnded(t) \/ NextBout(t) \/ SettleEnds(t)
      BY <3>3, Zenon DEF LookEnded, NextBout, SettleEnds, undoTables
    <3> QED BY <2>2, <3>1, <3>2, <3>3 DEF SettleStep
  <2>3. CASE Watch(t) \/ (\E b \in Bouts : TapUndo(t, b)) \/ (\E r \in Entries : Expire(t, r))
    BY <2>3 DEF Watch, Starts, TapUndo, Expire, undoTables
  <2> QED BY <2>1, <2>2, <2>3
<1> QED BY <1>1, <1>2

LEMMA NextNoRowLost ==
  UndoTyped /\ NoRowLostButUndone /\ [UndoNext]_allVars => NoRowLostButUndone'
<1> SUFFICES ASSUME UndoTyped, NoRowLostButUndone, [UndoNext]_allVars
             PROVE  NoRowLostButUndone'
  OBVIOUS
<1>0. Typed /\ Filed
  BY DEF UndoTyped
<1>1. ASSUME NEW t \in Tabs, QueueStep(t) \/ ReloadAll(t)
      PROVE  NoRowLostButUndone'
  <2>1. Next /\ UNCHANGED off
    BY <1>1 DEF QueueStep, ReloadAll, Next, undoTables
  <2> QED BY <1>0, <2>1, NextIsKept DEF NoRowLostButUndone
<1>2. ASSUME NEW t \in Tabs, TakeOff(t)
      PROVE  NoRowLostButUndone'
  BY <1>2 DEF TakeOff, TakeOffTablet, NoRowLostButUndone, IsKept, Made
<1>3. ASSUME UNCHANGED vars, off \subseteq off'
      PROVE  NoRowLostButUndone'
  BY <1>3 DEF vars, store, NoRowLostButUndone, IsKept, Made
<1>4. ASSUME NEW t \in Tabs,
             \/ UndoStep(t) \/ SettleStep(t) \/ Watch(t)
             \/ \E b \in Bouts : TapUndo(t, b)
             \/ \E r \in Entries : Expire(t, r)
      PROVE  NoRowLostButUndone'
  <2>1. TakeOff(t) \/ UNCHANGED <<vars, off>>
    BY <1>4, TakesOrLeaves
  <2> QED BY <1>2, <1>3, <2>1
<1>5. CASE LateLands
  <2>1. /\ UNCHANGED <<place, outbox, rejected, synced, discarded, off>>
        /\ landed \subseteq landed'
    BY <1>5 DEF LateLands, store, undoTables
  <2> QED BY <2>1 DEF NoRowLostButUndone, IsKept, Made
<1>6. CASE UNCHANGED allVars
  BY <1>3, <1>6 DEF allVars, undoVars, undoTables
<1> QED BY <1>1, <1>2, <1>4, <1>5, <1>6 DEF UndoNext

(* With any number of tabs, an undo destroys only what it is asked to: a   *)
(* row that was pressed waits, is held, was thrown away by a person, is on *)
(* the server, or is an entry an undo took off (takeOffTablet removes the  *)
(* row it looked up, and no other).                                        *)
THEOREM UndoLosesNoRow == UndoSpec => []NoRowLostButUndone
<1>1. UndoInit => NoRowLostButUndone
  BY DEF UndoInit, Init, NoRowLostButUndone, Made
<1> QED BY <1>1, UndoTypedHolds, NextNoRowLost, PTL DEF UndoSpec

(* With one tab, what PadQueueProofs shows of the queue stands with undos, *)
(* settles and late POSTs beside it: the undo waits for the answer of the  *)
(* row that is out (takeBack), and a row it removes leaves the walk of the *)
(* pass in order (BoutOrder).                                              *)
THEOREM QueueStandsBesideUndo ==
  OneTabOnly /\ UndoSpec => [](OutRowIsSafe /\ OneTable /\ OrderWithinPass /\ SyncedIsLanded)
<1>1. UndoTyped /\ Ordered => OutRowIsSafe /\ OneTable /\ OrderWithinPass /\ SyncedIsLanded
  BY OrderedIsSafe, OrderedKeepsOrder DEF UndoTyped, Filed, Ordered
<1> QED BY <1>1, StaysOffHolds, PTL

-----------------------------------------------------------------------------
(* The refinement of Delivery, with the undo beside the queue: an entry    *)
(* taken off is thrown away, and nothing else changes for the referee.     *)

(* Where a row is, to the referee, when an undo may have taken it off.     *)
WhereNow == [r \in Rows |-> IF r \in off THEN "gone" ELSE Where[r]]

WithUndo == INSTANCE Delivery WITH where <- WhereNow, saved <- landed

(* What the undo adds to Delivery: it throws away an entry that waits or   *)
(* is held.                                                                *)
TakeBack(r) ==
  /\ WhereNow[r] \in {"waiting", "held"}
  /\ WithUndo!Moves({r}, "gone")
  /\ UNCHANGED landed

KeepsPromiseWithUndo ==
  WithUndo!Init /\ [][WithUndo!Next \/ \E r \in Entries : TakeBack(r)]_(WithUndo!vars)

SeenNow ==
  \/ WithUndo!Next \/ UNCHANGED WithUndo!vars
  \/ \E r \in Entries : TakeBack(r)

(* Where the queue has nothing of what was taken off, a move of Delivery   *)
(* is one of the other rows.                                               *)
LEMMA MovesCarryOver ==
  ASSUME NEW rs \in SUBSET Rows, NEW to, rs \cap off = {}, UNCHANGED off, Promise!Moves(rs, to)
  PROVE  WithUndo!Moves(rs, to)
<1>1. Where' = [r \in Rows |-> IF r \in rs THEN to ELSE Where[r]]
  BY DEF Promise!Moves
<1>2. \A r \in Rows : WhereNow'[r] = IF r \in rs THEN to ELSE WhereNow[r]
  BY <1>1 DEF WhereNow
<1> QED BY <1>2 DEF WithUndo!Moves, WhereNow

LEMMA PromiseCarriesOver ==
  ASSUME Seen, UNCHANGED off, \A r \in off \cap Rows : Where[r] \in {"sent", "gone"}
  PROVE  SeenNow
<1> DEFINE Free == {"unmade", "waiting", "held"}
<1>1. \A r \in Rows : Where[r] \in Free => r \notin off /\ WhereNow[r] = Where[r]
  BY DEF WhereNow
<1>2. \A r \in Rows : WhereNow[r] \in Free => Where[r] = WhereNow[r]
  BY DEF WhereNow
<1>3. CASE UNCHANGED Promise!vars
  <2>1. Where' = Where /\ landed' = landed
    BY <1>3 DEF Promise!vars
  <2>2. WhereNow' = WhereNow
    BY <2>1 DEF WhereNow
  <2> QED BY <2>1, <2>2 DEF SeenNow, WithUndo!vars
<1>4. ASSUME NEW r \in Rows, Promise!Make(r)
      PROVE  SeenNow
  <2>1. WithUndo!Moves({r}, "waiting") /\ WithUndo!Make(r)
    BY <1>1, <1>4, MovesCarryOver DEF Promise!Make, WithUndo!Make
  <2> QED BY <2>1 DEF SeenNow, WithUndo!Next
<1>5. ASSUME NEW r \in Rows, Promise!Reach(r)
      PROVE  SeenNow
  <2>1. WhereNow' = WhereNow
    BY <1>5 DEF Promise!Reach, WhereNow
  <2>2. WithUndo!Reach(r)
    BY <1>1, <1>5, <2>1 DEF Promise!Reach, WithUndo!Reach
  <2> QED BY <2>2 DEF SeenNow, WithUndo!Next
<1>6. ASSUME NEW r \in Rows, Promise!Deliver(r)
      PROVE  SeenNow
  <2>1. WithUndo!Moves({r}, "sent") /\ WithUndo!Deliver(r)
    BY <1>1, <1>6, MovesCarryOver DEF Promise!Deliver, WithUndo!Deliver
  <2> QED BY <2>1 DEF SeenNow, WithUndo!Next
<1>7. ASSUME NEW r \in Rows, Promise!Hold(r)
      PROVE  SeenNow
  <2>1. WithUndo!Moves({r}, "held") /\ WithUndo!Hold(r)
    BY <1>1, <1>7, MovesCarryOver DEF Promise!Hold, WithUndo!Hold
  <2> QED BY <2>1 DEF SeenNow, WithUndo!Next
<1>8. ASSUME NEW r \in Rows, Promise!Discard(r)
      PROVE  SeenNow
  <2>1. r \notin off /\ WhereNow[r] = "held" /\ UNCHANGED landed
    BY <1>1, <1>8 DEF Promise!Discard
  <2>2. ASSUME Promise!Moves({r}, "gone") PROVE WithUndo!Discard(r)
    BY <2>1, <2>2, MovesCarryOver DEF WithUndo!Discard
  <2> DEFINE old == {q \in Rows : BoutOf[q] = BoutOf[r] /\ Where[q] \in {"waiting", "held"}}
             new == {q \in Rows : BoutOf[q] = BoutOf[r] /\ WhereNow[q] \in {"waiting", "held"}}
  <2>3. old = new /\ old \in SUBSET Rows /\ old \cap off = {}
    BY <1>1, <1>2
  <2>4. ASSUME Promise!Moves(old, "gone") PROVE WithUndo!Discard(r)
    <3>1. WithUndo!Moves(new, "gone")
      BY <2>3, <2>4, MovesCarryOver
    <3> QED BY <2>1, <3>1 DEF WithUndo!Discard
  <2> QED BY <1>8, <2>2, <2>4 DEF Promise!Discard, SeenNow, WithUndo!Next
<1>9. ASSUME NEW rs \in SUBSET Rows, Promise!SendAgain(rs)
      PROVE  SeenNow
  <2>1. rs \cap off = {} /\ \A r \in rs : WhereNow[r] = "held"
    BY <1>1, <1>9 DEF Promise!SendAgain
  <2>2. WithUndo!Moves(rs, "waiting") /\ WithUndo!SendAgain(rs)
    BY <1>9, <2>1, MovesCarryOver DEF Promise!SendAgain, WithUndo!SendAgain
  <2> QED BY <2>2 DEF SeenNow, WithUndo!Next
<1> QED BY <1>3, <1>4, <1>5, <1>6, <1>7, <1>8, <1>9 DEF Seen, Promise!Next

(* An entry that is taken off waited or was held, unless a person threw it *)
(* away, or an undo took it, while the tap asked the server.               *)
LEMMA TakeOffSeen ==
  ASSUME UndoTyped, Ordered, StaysOff, NoRowLostButUndone, NEW t \in Tabs, TakeOff(t)
  PROVE  SeenNow
<1> DEFINE r == undo[t].row
<1>1. /\ undo[t].stage \in {"take", "copy"} /\ r \notin synced
      /\ outbox' = outbox \ {r} /\ rejected' \in {rejected, rejected \ {r}}
      /\ off' = off \cup {r}
      /\ UNCHANGED <<place, discarded, landed>>
  BY DEF TakeOff, TakeOffTablet
<1>2. /\ r \in Entries /\ r \in Rows /\ r \notin Taps /\ Made(r)
      /\ off \subseteq Rows
  BY <1>1, PadConstants DEF UndoTyped, TablesOK, WorkOK, AtWork, StaysOff, Rows
<1> HIDE DEF r
<1>3. \A q \in Rows : q # r => Where'[q] = Where[q]
  BY <1>1 DEF Where
<1>4. WhereNow' = [q \in Rows |-> IF q \in {r} THEN "gone" ELSE WhereNow[q]]
  BY <1>1, <1>3 DEF WhereNow
<1>5. CASE r \in outbox \cup rejected
  <2>1. r \notin off /\ WhereNow[r] \in {"waiting", "held"}
    BY <1>2, <1>5 DEF StaysOff, WhereNow, Where, Made
  <2>2. TakeBack(r)
    BY <1>1, <1>4, <2>1 DEF TakeBack, WithUndo!Moves
  <2> QED BY <1>2, <2>2 DEF SeenNow
<1>6. CASE r \notin outbox \cup rejected
  <2>1. r \in discarded \cup off
    BY <1>1, <1>2, <1>6 DEF NoRowLostButUndone, IsKept
  <2>2. WhereNow[r] = "gone"
    BY <1>2, <1>6, <2>1 DEF WhereNow, Where, Made
  <2>3. WhereNow' = WhereNow
    BY <1>4, <2>2 DEF WhereNow
  <2> QED BY <1>1, <2>3 DEF SeenNow, WithUndo!vars
<1> QED BY <1>5, <1>6

LEMMA UndoNextSeen ==
  UndoTyped /\ Ordered /\ StaysOff /\ Told /\ NoRowLostButUndone /\ [UndoNext]_allVars => SeenNow
<1> SUFFICES ASSUME UndoTyped, Ordered, StaysOff, Told, NoRowLostButUndone, [UndoNext]_allVars
             PROVE  SeenNow
  OBVIOUS
<1>0. Typed /\ OkIsLanded /\ late = {}
  BY DEF UndoTyped, Filed, Told
<1>1. \A r \in off \cap Rows : Where[r] \in {"sent", "gone"}
  BY DEF StaysOff, Where, Made
<1>2. ASSUME [Next]_vars, UNCHANGED off
      PROVE  SeenNow
  BY <1>0, <1>1, <1>2, StepSeen, PromiseCarriesOver
<1>3. ASSUME NEW t \in Tabs, QueueStep(t) \/ ReloadAll(t)
      PROVE  SeenNow
  <2>1. Next /\ UNCHANGED off
    BY <1>3 DEF QueueStep, ReloadAll, Next, undoTables
  <2> QED BY <1>2, <2>1
<1>4. ASSUME NEW t \in Tabs,
             \/ UndoStep(t) \/ SettleStep(t) \/ Watch(t)
             \/ \E b \in Bouts : TapUndo(t, b)
             \/ \E r \in Entries : Expire(t, r)
      PROVE  SeenNow
  <2>1. TakeOff(t) \/ UNCHANGED <<vars, off>>
    BY <1>4, TakesOrLeaves
  <2> QED BY <1>2, <2>1, TakeOffSeen
<1>5. CASE LateLands
  BY <1>0, <1>5 DEF LateLands
<1>6. CASE UNCHANGED allVars
  BY <1>2, <1>6 DEF allVars, undoVars, undoTables
<1> QED BY <1>3, <1>4, <1>5, <1>6 DEF UndoNext

(* With one tab and no late POST, the queue with its undo keeps what       *)
(* Delivery promises, an undo being one more way to throw an entry away:   *)
(* it takes an entry that waits or is held, brings none back, and the      *)
(* server gets no entry after it was taken off (takeOffTablet).            *)
THEOREM UndoDelivers == LateRows = {} /\ OneTabOnly /\ UndoSpec => KeepsPromiseWithUndo
<1>1. UndoInit => WithUndo!Init
  BY DEF UndoInit, Init, WithUndo!Init, WhereNow, Where
<1>2. UndoInit => NoRowLostButUndone
  BY DEF UndoInit, Init, NoRowLostButUndone, Made
<1>3. UndoSpec => []NoRowLostButUndone
  BY <1>2, UndoTypedHolds, NextNoRowLost, PTL DEF UndoSpec
<1>4. SeenNow => [WithUndo!Next \/ \E r \in Entries : TakeBack(r)]_(WithUndo!vars)
  BY DEF SeenNow
<1> QED
  BY <1>1, <1>3, <1>4, StaysOffHolds, ToldHolds, UndoNextSeen, PTL
  DEF UndoSpec, KeepsPromiseWithUndo
=============================================================================
