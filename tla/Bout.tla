-------------------------------- MODULE Bout --------------------------------
(***************************************************************************)
(* One bout on the server, a single fight: its sheet of hits, its clock    *)
(* rows, its row in `matches`, and the requests that read and write them   *)
(* (apps/api/src/modules/matches: matches.service.ts, scoring.service.ts,  *)
(* clock.service.ts).                                                      *)
(*                                                                         *)
(* There is no transaction: a request is a chain of reads and writes, each *)
(* one step, and other requests step in between.  Reads that follow one    *)
(* another with no write between are one step where the last of them       *)
(* carries the guard of the write to come.  A request may die after any    *)
(* step, and a tablet sends a hit or a press again until it is answered.   *)
(* The bracket is met as the bout meets it: the side this bout sent on,    *)
(* and whether the bout it feeds was fought.                               *)
(*                                                                         *)
(* Times are ticks of the server: one for each hit or press made, each hit *)
(* saved and each row the desk writes.                                     *)
(***************************************************************************)
EXTENDS Integers, FiniteSets

CONSTANTS
  Hits,         \* the client uuids of the hits
  SideOf,       \* the side each hit scores for
  Presses,      \* the client uuids of the clock presses
  ActionOf,     \* Start, Halt, Resume or End
  Slots,        \* the requests the server can have in hand at once
  Cap,          \* the points that end the bout
  DrawAllowed,  \* the phase lets a bout end level
  Desk,         \* the requests the desk makes
  MaxDesk,      \* bound: requests of the desk
  Mortal,       \* the requests that may die: "hit", "press" or one of the desk's
  MaxCrashes,   \* bound: requests that die
  NoItem        \* a desk's request may name no hit, and never a press

Items == Hits \cup Presses
Sides == {"red", "blue"}

ASSUME BoutConstants ==
  /\ IsFiniteSet(Hits) /\ Hits \cap Presses = {} /\ NoItem \notin Items
  /\ SideOf \in [Hits -> Sides]
  /\ ActionOf \in [Presses -> {"start", "halt", "resume", "end"}]
  /\ Cap \in Nat \ {0} /\ DrawAllowed \in BOOLEAN
  /\ Desk \subseteq {"void", "restore", "reopen", "reset"}
  /\ Mortal \subseteq {"hit", "press"} \cup Desk
  /\ MaxDesk \in Nat /\ MaxCrashes \in Nat

VARIABLES
  bout,      \* the row of `matches`: status, score, winner, end_reason, back_in_play_at
  sheet,     \* the exchanges: not saved, live or voided
  savedAt,   \* recorded_at of each saved hit
  timeline,  \* the rows of match_events that move the clock
  now,       \* the server's time
  madeAt,    \* when each hit or press was made on its tablet, 0 for not yet
  answered,  \* the hits and presses whose tablet got its answer
  fed,       \* the side the bracket took from this bout, and whether it fought on
  job,       \* the request in hand in each slot
  desk,      \* requests of the desk so far
  crashes    \* requests that died so far

world == <<sheet, savedAt, timeline, now>>
pad   == <<madeAt, answered>>
count == <<desk, crashes>>
vars  == <<bout, sheet, savedAt, timeline, now, madeAt, answered, fed, job, desk, crashes>>

Unplayed == [status |-> "scheduled", red |-> 0, blue |-> 0, winner |-> "none",
             reason |-> "none", mark |-> 0]

NotFed == [side |-> "none", fought |-> FALSE]

NoPlan == [does |-> "score", red |-> 0, blue |-> 0, winner |-> "none", reason |-> "none"]

NoJob == [op |-> "none", item |-> NoItem, pc |-> "idle", row |-> Unplayed, seq |-> 0,
          at |-> 0, own |-> FALSE, plan |-> NoPlan]

Init ==
  /\ bout = Unplayed
  /\ sheet = [h \in Hits |-> "unsaved"]
  /\ savedAt = [h \in Hits |-> 0]
  /\ timeline = {}
  /\ now = 0
  /\ madeAt = [i \in Items |-> 0]
  /\ answered = {}
  /\ fed = NotFed
  /\ job = [s \in Slots |-> NoJob]
  /\ desk = 0 /\ crashes = 0

-----------------------------------------------------------------------------
(* The rules: what a sheet and a board say.                                *)

Later(t, u) == IF t > u THEN t ELSE u

PointsOn(sh, side) == Cardinality({h \in Hits : sh[h] = "live" /\ SideOf[h] = side})

Leader(red, blue) ==
  IF red > blue THEN "red" ELSE IF blue > red THEN "blue" ELSE "none"

\* A recorded winner decides, and the board when there is none.
Ladder(winner, red, blue) == IF winner # "none" THEN winner ELSE Leader(red, blue)

CapWinner(red, blue) ==
  IF red >= Cap /\ blue >= Cap THEN Leader(red, blue)
  ELSE IF red >= Cap THEN "red" ELSE IF blue >= Cap THEN "blue" ELSE "none"

Over(red, blue) ==
  /\ red >= Cap \/ blue >= Cap
  /\ Leader(red, blue) # "none" \/ DrawAllowed

InPlay == bout.status \in {"running", "paused"}

(* What a new score does to the result of a completed bout.                *)
Correction(row, red, blue, fought) ==
  LET over    == Over(red, blue)
      winner  == IF over THEN CapWinner(red, blue) ELSE Leader(red, blue)
      onBoard == row.reason # "none" \/ (row.winner = "none" /\ row.red = row.blue)
      changes == Ladder(row.winner, row.red, row.blue) # Ladder(winner, red, blue)
  IN  IF ~onBoard THEN (IF over THEN "score" ELSE "reopen")
      ELSE IF changes /\ fought THEN "refuse"
      ELSE IF ~over THEN "reopen"
      ELSE IF changes THEN "redecide" ELSE "score"

(* What an End makes of the bout it read: its result, or a refusal.  A     *)
(* level bout asks for its time to be up and for a phase that takes draws. *)
EndResult(row, timeUp) ==
  LET leader == Ladder(row.winner, row.red, row.blue)
  IN  IF row.status = "completed" THEN [does |-> "keep", winner |-> "none"]
      ELSE IF leader # "none" THEN [does |-> "name", winner |-> leader]
      ELSE IF timeUp /\ DrawAllowed THEN [does |-> "keep", winner |-> "none"]
      ELSE [does |-> "refuse", winner |-> "none"]

-----------------------------------------------------------------------------
(* The clock: its rows in the order of time, then of sequence.             *)

\* The row the timeline ends with, as a set: empty for an empty timeline.
LastRows == {r \in timeline : \A q \in timeline :
               q.at < r.at \/ (q.at = r.at /\ q.seq <= r.seq)}

Last == CHOOSE r \in LastRows : TRUE

LastAt == IF LastRows = {} THEN 0 ELSE Last.at

ClockStatus ==
  IF LastRows = {} THEN "idle"
  ELSE CASE Last.type \in {"start", "resume"} -> "running"
         [] Last.type \in {"halt", "reopen"}  -> "halted"
         [] Last.type = "end"                 -> "ended"
         [] OTHER                             -> "idle"

\* The rows of a set that no row of it follows by sequence: one, or none.
Newest(rows) == {r \in rows : \A q \in rows : q.seq <= r.seq}

NextSeq ==
  IF Newest(timeline) = {} THEN 1 ELSE (CHOOSE r \in Newest(timeline) : TRUE).seq + 1

SeqTaken(n)   == \E r \in timeline : r.seq = n
PressSaved(p) == \E r \in timeline : r.press = p

\* The newest reset_match row, by sequence; 0 for a bout never reset.
ResetAt ==
  LET resets == Newest({r \in timeline : r.type = "reset_match"})
  IN  IF resets = {} THEN 0 ELSE (CHOOSE r \in resets : TRUE).at

Allowed(action) ==
  action \in CASE ClockStatus = "idle"    -> {"start"}
               [] ClockStatus = "running" -> {"halt", "end"}
               [] ClockStatus = "halted"  -> {"resume", "end"}
               [] ClockStatus = "ended"   -> {"reopen"}

AlreadyTrue(action) ==
  ClockStatus \in CASE action = "start"  -> {"running", "halted"}
                    [] action = "halt"   -> {"halted", "ended"}
                    [] action = "resume" -> {"running"}
                    [] action = "end"    -> {"ended"}

Family(status) == IF status \in {"running", "paused"} THEN {"running", "paused"} ELSE {status}

-----------------------------------------------------------------------------
(* A request in hand: where it stands and where it goes next.              *)

At(s, pc) == job[s].pc = pc

Goes(s, pc) == job' = [job EXCEPT ![s].pc = pc]

IsStart(j) == j.op = "press" /\ ActionOf[j.item] = "start"

\* A late Start that passed its door is counted, whatever the clock made of it.
Taken(j) == IF IsStart(j) THEN "count" ELSE "answer"

\* What follows a recompute: the proof of the count, for a Start.
Counted(j) == IF IsStart(j) THEN "verify" ELSE "answer"

(* A hit or a press made on a tablet.                                      *)
Make(i) ==
  /\ madeAt[i] = 0
  /\ now' = now + 1
  /\ madeAt' = [madeAt EXCEPT ![i] = now + 1]
  /\ UNCHANGED <<bout, sheet, savedAt, timeline, answered, fed, job, count>>

Send(s, i, op, pc) ==
  /\ At(s, "idle") /\ madeAt[i] # 0 /\ i \notin answered
  /\ job' = [job EXCEPT ![s] = [NoJob EXCEPT !.op = op, !.item = i, !.pc = pc,
                                             !.at = madeAt[i]]]
  /\ UNCHANGED <<bout, world, pad, fed, count>>

\* createExchange asks for its saved copy before any rule.
SendHit(s, h) == Send(s, h, "hit", IF sheet[h] = "unsaved" THEN "open" ELSE "replay")

SendPress(s, p) == Send(s, p, "press", "press")

(* The answer reaches the tablet, or the desk.                             *)
Answer(s) ==
  /\ At(s, "answer")
  /\ answered' = IF job[s].op \in {"hit", "press"} THEN answered \cup {job[s].item}
                 ELSE answered
  /\ job' = [job EXCEPT ![s] = NoJob]
  /\ UNCHANGED <<bout, world, madeAt, fed, count>>

(* The request dies, or its answer is lost.                                *)
Crash(s) ==
  /\ job[s].op \in Mortal /\ crashes < MaxCrashes
  /\ crashes' = crashes + 1
  /\ job' = [job EXCEPT ![s] = NoJob]
  /\ UNCHANGED <<bout, world, pad, fed, desk>>

-----------------------------------------------------------------------------
(* A hit: createExchange.                                                  *)

\* Mutant: a saved hit is answered at once.
ReplayHit_AnswersSaved(s) ==
  /\ At(s, "replay") /\ Goes(s, "answer")
  /\ UNCHANGED <<bout, world, pad, fed, count>>

(* A hit sent again scores its bout again, unless a door put the bout back *)
(* in play after it was saved.                                             *)
ReplayHit(s) ==
  /\ At(s, "replay")
  /\ Goes(s, IF bout.mark >= savedAt[job[s].item] THEN "answer" ELSE "row")
  /\ UNCHANGED <<bout, world, pad, fed, count>>

\* Mutant: the last reset is not asked for.
OpenRound_NoReset(s) ==
  /\ At(s, "open")
  /\ Goes(s, IF bout.status = "scheduled" THEN "answer" ELSE "insertHit")
  /\ UNCHANGED <<bout, world, pad, fed, count>>

\* Refused for a bout nobody started, and for a hit made before the last reset.
OpenRound(s) ==
  /\ At(s, "open")
  /\ Goes(s, IF madeAt[job[s].item] <= ResetAt \/ bout.status = "scheduled"
             THEN "answer" ELSE "insertHit")
  /\ UNCHANGED <<bout, world, pad, fed, count>>

InsertHit(s) ==
  LET h == job[s].item IN
  /\ At(s, "insertHit")
  /\ \/ /\ sheet[h] # "unsaved"
        /\ Goes(s, "replay")
        /\ UNCHANGED <<sheet, savedAt, now>>
     \/ /\ sheet[h] = "unsaved"
        /\ sheet' = [sheet EXCEPT ![h] = "live"]
        /\ now' = now + 1
        /\ savedAt' = [savedAt EXCEPT ![h] = now + 1]
        /\ Goes(s, "row")
  /\ UNCHANGED <<bout, timeline, pad, fed, count>>

-----------------------------------------------------------------------------
(* recomputeMatchScore: the row, the sheet, what the bracket allows, and   *)
(* one unguarded write.                                                    *)

LoadRow(s) ==
  /\ At(s, "row")
  /\ job' = [job EXCEPT ![s].row = bout, ![s].pc = "sheet"]
  /\ UNCHANGED <<bout, world, pad, fed, count>>

\* Mutant: the end is decided on the score the row held.
LoadSheet_OldBoard(s) ==
  LET j    == job[s]
      over == Over(j.row.red, j.row.blue)
      done == j.row.status = "completed"
  IN
  /\ At(s, "sheet")
  /\ job' = [job EXCEPT
       ![s].plan = [does   |-> IF over /\ ~done THEN "complete" ELSE "score",
                    red    |-> PointsOn(sheet, "red"), blue |-> PointsOn(sheet, "blue"),
                    winner |-> IF over THEN CapWinner(j.row.red, j.row.blue) ELSE "none",
                    reason |-> IF over THEN "cap" ELSE "none"],
       ![s].pc = IF done THEN "context" ELSE "write"]
  /\ UNCHANGED <<bout, world, pad, fed, count>>

LoadSheet(s) ==
  LET red  == PointsOn(sheet, "red")
      blue == PointsOn(sheet, "blue")
      over == Over(red, blue)
      done == job[s].row.status = "completed"
  IN
  /\ At(s, "sheet")
  /\ job' = [job EXCEPT
       ![s].plan = [does   |-> IF over /\ ~done THEN "complete" ELSE "score",
                    red    |-> red, blue |-> blue,
                    winner |-> IF over THEN CapWinner(red, blue) ELSE "none",
                    reason |-> IF over THEN "cap" ELSE "none"],
       ![s].pc = IF done THEN "context" ELSE "write"]
  /\ UNCHANGED <<bout, world, pad, fed, count>>

\* resultChangeContext and correctionOutcome, for a bout read as completed.
Context(s) ==
  LET j   == job[s]
      out == Correction(j.row, j.plan.red, j.plan.blue, fed.fought)
  IN
  /\ At(s, "context")
  /\ job' = [job EXCEPT ![s].plan.does = IF out = "refuse" THEN "score" ELSE out,
                        ![s].pc = IF out = "reopen" THEN "undo" ELSE "write"]
  /\ UNCHANGED <<bout, world, pad, fed, count>>

(* The bracket gives back what this bout sent on, or refuses: then only    *)
(* the score moves.                                                        *)
UncompleteBestEffort(s) ==
  /\ At(s, "undo")
  /\ \/ /\ fed.fought
        /\ job' = [job EXCEPT ![s].plan.does = "score", ![s].pc = "write"]
        /\ UNCHANGED fed
     \/ /\ ~fed.fought
        /\ fed' = NotFed
        /\ Goes(s, "write")
  /\ UNCHANGED <<bout, world, pad, count>>

\* backInPlayColumns: the time of the cause, or now, and never before the mark read.
MarkOf(j) == Later(IF j.at = 0 THEN now ELSE j.at, j.row.mark)

Scored(row, plan) == [row EXCEPT !.red = plan.red, !.blue = plan.blue]

WriteScore(s) ==
  LET j == job[s] IN
  /\ At(s, "write")
  /\ \/ /\ j.plan.does = "score"
        /\ bout' = Scored(bout, j.plan)
        /\ Goes(s, Counted(j))
     \/ /\ j.plan.does = "complete"
        /\ bout' = [Scored(bout, j.plan) EXCEPT !.status = "completed",
                      !.winner = j.plan.winner, !.reason = j.plan.reason]
        /\ Goes(s, "autoEnd")
     \/ /\ j.plan.does = "reopen"
        /\ bout' = [Scored(bout, j.plan) EXCEPT !.status = "paused", !.winner = "none",
                      !.reason = "none", !.mark = MarkOf(j)]
        /\ Goes(s, Counted(j))
     \/ /\ j.plan.does = "redecide"
        /\ bout' = [Scored(bout, j.plan) EXCEPT !.winner = j.plan.winner,
                                                !.reason = j.plan.reason]
        /\ Goes(s, "changed")
  /\ UNCHANGED <<world, pad, fed, count>>

\* onResultChanged takes the side back and tells the bracket again.
ResultChanged(s) ==
  /\ At(s, "changed")
  /\ fed' = [fed EXCEPT !.side = "none"]
  /\ Goes(s, "tell")
  /\ UNCHANGED <<bout, world, pad, count>>

(* The bracket is told: it asks for a winner, and fills an empty side.     *)
Tell(s) ==
  /\ At(s, "tell")
  /\ fed' = IF fed.side = "none" THEN [fed EXCEPT !.side = bout.winner] ELSE fed
  /\ Goes(s, Counted(job[s]))
  /\ UNCHANGED <<bout, world, pad, count>>

(* endClockBestEffort: the server's own End, on a clock that runs or       *)
(* halts.  Its refusals and its collisions are swallowed.                  *)
AutoEnd(s) ==
  LET j == job[s] IN
  /\ At(s, "autoEnd")
  /\ \/ /\ ~Allowed("end")
        /\ Goes(s, "tell")
     \/ /\ Allowed("end")
        /\ \E timeUp \in BOOLEAN :
             LET end == EndResult(bout, timeUp) IN
             job' = [job EXCEPT ![s] = [j EXCEPT
                       !.own = TRUE, !.row = bout, !.seq = NextSeq,
                       !.at = Later(IF j.at = 0 THEN now ELSE j.at, LastAt),
                       !.plan = [@ EXCEPT !.does = end.does, !.winner = end.winner],
                       !.pc = IF end.does = "refuse" THEN "tell" ELSE "insert"]]
  /\ UNCHANGED <<bout, world, pad, fed, count>>

-----------------------------------------------------------------------------
(* A press sent late: takePress asks every rule, in this order.            *)

\* The press's saved row, then the sequence, before the reads that judge it.
TakePress(s) ==
  /\ At(s, "press")
  /\ job' = [job EXCEPT ![s].seq = NextSeq,
                        ![s].pc = IF PressSaved(job[s].item) THEN "finish" ELSE "pressRow"]
  /\ UNCHANGED <<bout, world, pad, fed, count>>

PressRow(s) ==
  /\ At(s, "pressRow")
  /\ job' = [job EXCEPT ![s].row = bout, ![s].pc = "judge"]
  /\ UNCHANGED <<bout, world, pad, fed, count>>

Refused(j) ==
  LET action == ActionOf[j.item] IN
  \/ j.row.status = "completed" /\ action # "end"
  \/ madeAt[j.item] <= ResetAt
  \/ j.row.mark # 0 /\ madeAt[j.item] <= j.row.mark
  \/ ~Allowed(action)

Judge(s) ==
  LET j == job[s]
      action == ActionOf[j.item]
  IN
  /\ At(s, "judge")
  /\ \/ /\ AlreadyTrue(action)
        /\ Goes(s, Taken(j))
     \/ /\ ~AlreadyTrue(action) /\ Refused(j)
        /\ Goes(s, "answer")
     \/ /\ ~AlreadyTrue(action) /\ ~Refused(j)
        /\ job' = [job EXCEPT ![s].at = Later(madeAt[j.item], LastAt),
                              ![s].pc = IF action = "end" THEN "askSheet" ELSE "insert"]
  /\ UNCHANGED <<bout, world, pad, fed, count>>

\* sheetEnds: a bout in play with a level board, and a sheet that ends it.
SheetEnds ==
  /\ bout.status # "completed" /\ Ladder(bout.winner, bout.red, bout.blue) = "none"
  /\ Over(PointsOn(sheet, "red"), PointsOn(sheet, "blue"))

AskSheet(s) ==
  LET j == job[s] IN
  /\ At(s, "askSheet")
  /\ \/ /\ SheetEnds
        /\ Goes(s, "row")
     \/ /\ ~SheetEnds
        /\ \E timeUp \in BOOLEAN :
             LET end == EndResult(j.row, timeUp) IN
             job' = [job EXCEPT ![s].plan = [@ EXCEPT !.does = end.does, !.winner = end.winner],
                                ![s].pc = IF end.does = "refuse" THEN "answer" ELSE "insert"]
  /\ UNCHANGED <<bout, world, pad, fed, count>>

(* The clock row goes in first, at the sequence read.  A press that lost   *)
(* its sequence is asked every rule again; the server's own End gives up.  *)
InsertPress(s) ==
  LET j    == job[s]
      lost == SeqTaken(j.seq) \/ (~j.own /\ PressSaved(j.item))
      type == IF j.own THEN "end" ELSE ActionOf[j.item]
  IN
  /\ At(s, "insert")
  /\ \/ /\ lost
        /\ Goes(s, IF j.own THEN "tell" ELSE "press")
        /\ UNCHANGED timeline
     \/ /\ ~lost
        /\ timeline' = timeline \cup {[type |-> type, seq |-> j.seq, at |-> j.at,
                                       press |-> IF j.own THEN NoItem ELSE j.item]}
        /\ Goes(s, IF type = "end" THEN "endWrite" ELSE "playWrite")
  /\ UNCHANGED <<bout, sheet, savedAt, now, pad, fed, count>>

StatusOf(action) == IF action = "halt" THEN "paused" ELSE "running"

\* writeBoutInPlay: only while the bout is not completed.
WriteInPlay(s) ==
  LET j == job[s] IN
  /\ At(s, "playWrite")
  /\ \/ /\ bout.status # "completed"
        /\ bout' = [bout EXCEPT !.status = StatusOf(ActionOf[j.item])]
        /\ Goes(s, Taken(j))
     \/ /\ bout.status = "completed"
        /\ Goes(s, "takeBack")
        /\ UNCHANGED bout
  /\ UNCHANGED <<world, pad, fed, count>>

\* Mutant: the mark is not asked for.
Stands_StatusOnly(row) == bout.status \in Family(row.status)

\* The status and the mark an End's door read still stand.
Stands(row) == bout.status \in Family(row.status) /\ bout.mark = row.mark

\* Mutant: the clock's word for the bout's.
Ended_ClockWord(plan) == [bout EXCEPT !.status = "ended", !.winner = plan.winner]

Ended(plan) ==
  IF plan.does = "name"
  THEN [bout EXCEPT !.status = "completed", !.winner = plan.winner, !.reason = "time"]
  ELSE [bout EXCEPT !.status = "completed"]

\* completeOnEnd.
CompleteOnEnd(s) ==
  LET j == job[s] IN
  /\ At(s, "endWrite")
  /\ \/ /\ Stands(j.row)
        /\ bout' = Ended(j.plan)
        /\ Goes(s, "tell")
     \/ /\ ~Stands(j.row)
        /\ Goes(s, "lost")
        /\ UNCHANGED bout
  /\ UNCHANGED <<world, pad, fed, count>>

\* endLostTo: under a completion the row stays, and stops the clock.
EndLostTo(s) ==
  /\ At(s, "lost")
  /\ Goes(s, IF bout.status # "completed" THEN "takeBack"
             ELSE IF job[s].own THEN "tell" ELSE "answer")
  /\ UNCHANGED <<bout, world, pad, fed, count>>

TakeBackRow(s) ==
  /\ At(s, "takeBack")
  /\ timeline' = {r \in timeline : r.seq # job[s].seq}
  /\ Goes(s, IF job[s].own THEN "tell" ELSE "answer")
  /\ UNCHANGED <<bout, sheet, savedAt, now, pad, fed, count>>

(* finishSavedPress: the bout write a saved press missed, while its row is *)
(* the last of the timeline and nothing put the bout back in play since.   *)
(* The row is never taken back here.                                       *)
Speaks(p) ==
  \E r \in LastRows : r.press = p /\ (bout.mark = 0 \/ bout.mark < r.at)

\* Mutant: a saved press that no longer speaks is asked the rules again.
FinishSaved_AsksAgain(s) ==
  /\ At(s, "finish")
  /\ Goes(s, IF Speaks(job[s].item) THEN Taken(job[s]) ELSE "press")
  /\ UNCHANGED <<bout, world, pad, fed, count>>

FinishSaved(s) ==
  LET j == job[s]
      action == ActionOf[j.item]
  IN
  /\ At(s, "finish")
  /\ \/ /\ ~Speaks(j.item)
        /\ Goes(s, Taken(j))
     \/ /\ Speaks(j.item) /\ action = "end"
        /\ \E timeUp \in BOOLEAN :
             LET end == EndResult(bout, timeUp) IN
             job' = [job EXCEPT ![s].row = bout,
                       ![s].plan = [@ EXCEPT !.does = end.does, !.winner = end.winner],
                       ![s].pc = IF bout.status = "completed" \/ end.does = "refuse"
                                 THEN "answer" ELSE "finishEnd"]
     \/ /\ Speaks(j.item) /\ action # "end"
        /\ Goes(s, IF bout.status = StatusOf(action) THEN Taken(j) ELSE "finishPlay")
  /\ UNCHANGED <<bout, world, pad, fed, count>>

FinishEnd(s) ==
  LET j == job[s] IN
  /\ At(s, "finishEnd")
  /\ bout' = IF Stands(j.row) THEN Ended(j.plan) ELSE bout
  /\ Goes(s, IF Stands(j.row) THEN "tell" ELSE "answer")
  /\ UNCHANGED <<world, pad, fed, count>>

FinishPlay(s) ==
  LET j == job[s] IN
  /\ At(s, "finishPlay")
  /\ bout' = IF bout.status = "completed" THEN bout
             ELSE [bout EXCEPT !.status = StatusOf(ActionOf[j.item])]
  /\ Goes(s, Taken(j))
  /\ UNCHANGED <<world, pad, fed, count>>

(* countAtStart: a bout in play, 0-0 over an empty sheet, is counted, and  *)
(* the count is read back.  A count that did not land fails the request.   *)
EmptySheet == \A h \in Hits : sheet[h] # "live"

CountAtStart(s) ==
  LET counts == InPlay /\ bout.red = 0 /\ bout.blue = 0 /\ EmptySheet IN
  /\ At(s, "count")
  /\ job' = [job EXCEPT ![s].at = 0, ![s].pc = IF counts THEN "row" ELSE "answer"]
  /\ UNCHANGED <<bout, world, pad, fed, count>>

VerifyCount(s) ==
  LET j == job[s] 
      landed == (bout.red = j.plan.red /\ bout.blue = j.plan.blue) \/ ~EmptySheet
  IN
  /\ At(s, "verify")
  /\ job' = [job EXCEPT ![s] = IF landed THEN [j EXCEPT !.pc = "answer"] ELSE NoJob]
  /\ UNCHANGED <<bout, world, pad, fed, count>>

-----------------------------------------------------------------------------
(* The desk.  A void and a restore ask first whether the correction lands, *)
(* then write it and recompute.                                            *)

Asks(s, op) == At(s, "idle") /\ op \in Desk /\ desk < MaxDesk /\ desk' = desk + 1

Corrects(s, op, h, value) ==
  LET after == [sheet EXCEPT ![h] = value]
      lands == bout.status # "completed"
               \/ Correction(bout, PointsOn(after, "red"), PointsOn(after, "blue"),
                             fed.fought) # "refuse"
  IN
  /\ Asks(s, op)
  /\ job' = [job EXCEPT ![s] = [NoJob EXCEPT !.op = op, !.item = h,
                                             !.pc = IF lands THEN "flip" ELSE "answer"]]
  /\ UNCHANGED <<bout, world, pad, fed, crashes>>

VoidExchange(s, h) == sheet[h] = "live" /\ Corrects(s, "void", h, "voided")

RevertVoid(s, h) ==
  sheet[h] = "voided" /\ savedAt[h] > ResetAt /\ Corrects(s, "restore", h, "live")

FlipHit(s) ==
  /\ At(s, "flip")
  /\ sheet' = [sheet EXCEPT ![job[s].item] =
                 IF job[s].op = "void" THEN "voided" ELSE "live"]
  /\ Goes(s, "row")
  /\ UNCHANGED <<bout, savedAt, timeline, now, pad, fed, count>>

(* A Reopen of an ended clock, and a Reset: a completed bout is given back *)
(* by the bracket first, which may refuse.                                 *)
AsksBack(s, op, then) ==
  /\ Asks(s, op)
  /\ job' = [job EXCEPT ![s] = [NoJob EXCEPT !.op = op, !.row = bout,
               !.pc = IF bout.status = "completed" THEN "giveBack" ELSE then]]
  /\ UNCHANGED <<bout, world, pad, fed, crashes>>

Reopen(s) == Allowed("reopen") /\ AsksBack(s, "reopen", "deskSeq")

ResetMatch(s) == AsksBack(s, "reset", "voidSheet")

\* Mutant: the bracket agrees and keeps the side.
GiveBack_KeepsSide(s) ==
  /\ At(s, "giveBack") /\ ~fed.fought
  /\ Goes(s, IF job[s].op = "reset" THEN "voidSheet" ELSE "deskSeq")
  /\ UNCHANGED <<bout, world, pad, fed, count>>

GiveBack(s) ==
  LET then == IF job[s].op = "reset" THEN "voidSheet" ELSE "deskSeq" IN
  /\ At(s, "giveBack")
  /\ \/ /\ fed.fought                   \* and no discard was asked for
        /\ Goes(s, "answer")
        /\ UNCHANGED fed
     \/ /\ fed' = NotFed
        /\ Goes(s, then)
  /\ UNCHANGED <<bout, world, pad, count>>

VoidSheet(s) ==
  /\ At(s, "voidSheet")
  /\ sheet' = [h \in Hits |-> IF sheet[h] = "live" THEN "voided" ELSE sheet[h]]
  /\ Goes(s, "deskSeq")
  /\ UNCHANGED <<bout, savedAt, timeline, now, pad, fed, count>>

DeskSeq(s) ==
  /\ At(s, "deskSeq")
  /\ job' = [job EXCEPT ![s].seq = NextSeq, ![s].pc = "deskRow"]
  /\ UNCHANGED <<bout, world, pad, fed, count>>

\* A lost sequence is an error here: nobody asks again.
DeskRow(s) ==
  LET j == job[s] IN
  /\ At(s, "deskRow")
  /\ \/ /\ SeqTaken(j.seq)
        /\ Goes(s, "answer")
        /\ UNCHANGED <<timeline, now>>
     \/ /\ ~SeqTaken(j.seq)
        /\ now' = now + 1
        /\ timeline' = timeline \cup
             {[type |-> IF j.op = "reset" THEN "reset_match" ELSE "reopen",
               seq |-> j.seq, at |-> now + 1, press |-> NoItem]}
        /\ job' = [job EXCEPT ![s].at = now + 1, ![s].pc = "deskWrite"]
  /\ UNCHANGED <<bout, sheet, savedAt, pad, fed, count>>

\* Mutant: the result is kept, for a reopen and an End with nothing between.
Reopened_KeepsWinner == [bout EXCEPT !.status = "paused"]

Reopened == [bout EXCEPT !.status = "paused", !.winner = "none", !.reason = "none"]

DeskWrite(s) ==
  LET j == job[s] IN
  /\ At(s, "deskWrite")
  /\ \/ /\ j.op = "reset"
        /\ bout' = Unplayed
        /\ Goes(s, "answer")
     \/ /\ j.op = "reopen" /\ j.row.status = "completed"
        /\ bout' = [Reopened EXCEPT !.mark = MarkOf(j)]
        /\ Goes(s, "answer")
     \/ /\ j.op = "reopen" /\ j.row.status # "completed" /\ bout.status # "completed"
        /\ bout' = Reopened
        /\ Goes(s, "answer")
     \/ /\ j.op = "reopen" /\ j.row.status # "completed" /\ bout.status = "completed"
        /\ Goes(s, "takeBack")
        /\ UNCHANGED bout
  /\ UNCHANGED <<world, pad, fed, count>>

(* The next bout of the bracket is fought with the side this one sent on.  *)
FightNext ==
  /\ fed.side # "none" /\ ~fed.fought
  /\ fed' = [fed EXCEPT !.fought = TRUE]
  /\ UNCHANGED <<bout, world, pad, job, count>>

-----------------------------------------------------------------------------
Serve(s) ==
  \/ ReplayHit(s) \/ OpenRound(s) \/ InsertHit(s)
  \/ LoadRow(s) \/ LoadSheet(s) \/ Context(s) \/ UncompleteBestEffort(s) \/ WriteScore(s)
  \/ ResultChanged(s) \/ Tell(s) \/ AutoEnd(s)
  \/ TakePress(s) \/ PressRow(s) \/ Judge(s) \/ AskSheet(s) \/ InsertPress(s)
  \/ WriteInPlay(s) \/ CompleteOnEnd(s) \/ EndLostTo(s) \/ TakeBackRow(s)
  \/ FinishSaved(s) \/ FinishEnd(s) \/ FinishPlay(s) \/ CountAtStart(s) \/ VerifyCount(s)
  \/ FlipHit(s) \/ GiveBack(s) \/ VoidSheet(s) \/ DeskSeq(s) \/ DeskRow(s) \/ DeskWrite(s)
  \/ Answer(s)

Sends(s) == (\E h \in Hits : SendHit(s, h)) \/ (\E p \in Presses : SendPress(s, p))

Next ==
  \/ \E i \in Items : Make(i)
  \/ FightNext
  \/ \E s \in Slots :
       \/ Sends(s) \/ Serve(s) \/ Crash(s)
       \/ \E h \in Hits : VoidExchange(s, h) \/ RevertVoid(s, h)
       \/ Reopen(s) \/ ResetMatch(s)

Spec == Init /\ [][Next]_vars

(* The tablets send what they hold, and the server steps what it has in    *)
(* hand.                                                                   *)
FairSpec ==
  /\ Spec
  /\ \A s \in Slots : WF_vars(Serve(s))
  /\ \A i \in Items : WF_vars(\E s \in Slots :
                                (i \in Hits /\ SendHit(s, i)) \/ (i \in Presses /\ SendPress(s, i)))

-----------------------------------------------------------------------------
Rows == [status : {"scheduled", "running", "paused", "completed"}, red : Nat, blue : Nat,
         winner : Sides \cup {"none"}, reason : {"none", "cap", "time"}, mark : Nat]

Plans == [does : {"score", "complete", "reopen", "redecide", "name", "keep", "refuse"},
          red : Nat, blue : Nat, winner : Sides \cup {"none"},
          reason : {"none", "cap", "time"}]

Steps == {"idle", "answer", "replay", "open", "insertHit", "row", "sheet", "context", "undo",
          "write", "changed", "tell", "autoEnd", "press", "pressRow", "judge", "askSheet",
          "insert", "playWrite", "endWrite", "lost", "takeBack", "finish", "finishEnd",
          "finishPlay", "count", "verify", "flip", "giveBack", "voidSheet", "deskSeq",
          "deskRow", "deskWrite"}

Jobs == [op : {"none", "hit", "press", "void", "restore", "reopen", "reset"},
         item : Items \cup {NoItem}, pc : Steps, row : Rows, seq : Nat, at : Nat,
         own : BOOLEAN, plan : Plans]

StoreOK ==
  /\ bout \in Rows
  /\ sheet \in [Hits -> {"unsaved", "live", "voided"}]
  /\ savedAt \in [Hits -> Nat] /\ now \in Nat /\ madeAt \in [Items -> Nat]
  /\ timeline \subseteq [type : {"start", "halt", "resume", "end", "reopen", "reset_match"},
                         seq : Nat, at : Nat, press : Presses \cup {NoItem}]
  /\ answered \subseteq Items
  /\ fed \in [side : Sides \cup {"none"}, fought : BOOLEAN]
  /\ desk \in 0..MaxDesk /\ crashes \in 0..MaxCrashes

(* The row, the sheet and the rows of the clock hold what their columns    *)
(* may hold, and so do the copies a request in hand carries.               *)
BoutTypeOK == StoreOK /\ job \in [Slots -> Jobs]

Settled ==
  /\ \A s \in Slots : At(s, "idle")
  /\ \A h \in Hits : sheet[h] # "unsaved" => h \in answered

(* No bout back in play keeps a winner (ruling 331, reopen-match-columns.ts*)
(* :17): a later End would name that winner whatever the board says.       *)
NoWinnerInPlay == bout.status # "completed" => bout.winner = "none"

(* Once every saved hit is answered, the score on the row is the sheet's:  *)
(* a request that died between the hit and its score is healed by the hit  *)
(* sent again (scoreReplayedHit).                                          *)
ScoreIsTheSheet ==
  Settled /\ (\A h \in Hits : sheet[h] = "live" => bout.mark < savedAt[h]) =>
    bout.red = PointsOn(sheet, "red") /\ bout.blue = PointsOn(sheet, "blue")

(* Nor is a cap reached and never completed: only a bout a door put back   *)
(* in play stays open over a sheet that ends it.                           *)
CapIsCounted ==
  Settled /\ InPlay /\ bout.mark = 0 => ~Over(PointsOn(sheet, "red"), PointsOn(sheet, "blue"))

(* A hit counts for the fight it was made in: none made before the last    *)
(* reset is live (rulings 275 and 290).                                    *)
NoHitOfAnOldFight == \A h \in Hits : sheet[h] = "live" => madeAt[h] > ResetAt

(* The bracket holds a side of this bout only while the bout is completed: *)
(* whatever takes it out of `completed` takes the side back first, and a   *)
(* request that dies in between leaves no side behind.                     *)
FedFromCompleted == fed.side # "none" => bout.status = "completed"

(* An End pressed before the bout was last put back in play never          *)
(* completes it, whatever its door had read (press-before-reopen.ts;       *)
(* completeOnEnd, S4b).                                                    *)
EndSpeaksForBout ==
  [][\A s \in Slots :
       At(s, "endWrite") /\ ~job[s].own /\ bout.status # "completed" /\ job'[s].pc = "tell"
       => madeAt[job[s].item] > bout.mark]_vars

(* Every hit and every press made is answered in the end.                  *)
EveryItemIsAnswered == \A i \in Items : madeAt[i] # 0 ~> i \in answered
=============================================================================
