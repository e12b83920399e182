----------------------------- MODULE BoutProofs -----------------------------
(***************************************************************************)
(* Theorems about Bout.  First for any number of requests at once: the     *)
(* types, that an End pressed before the bout was put back in play never   *)
(* completes it, and that a bout no cap can end never holds a winner while *)
(* it is in play.  Then for a server with one request in hand at a time:   *)
(* no winner in play and no side left in the bracket, whatever dies in     *)
(* between; no hit of a fight before the last reset counts; and the score  *)
(* is the sheet's and the cap is counted, once the tablets have sent again *)
(* what died.                                                              *)
(***************************************************************************)
EXTENDS Bout, TLAPS, FiniteSetTheorems

-----------------------------------------------------------------------------
(* The operators.                                                          *)

LEMMA LaterType == \A t, u \in Nat : Later(t, u) \in Nat /\ Later(t, u) >= t /\ Later(t, u) >= u
  BY DEF Later

LEMMA PointsType ==
  ASSUME NEW sh, NEW side
  PROVE  /\ PointsOn(sh, side) \in Nat
         /\ PointsOn(sh, side) <= Cardinality(Hits)
<1> DEFINE T == {h \in Hits : sh[h] = "live" /\ SideOf[h] = side}
<1>1. T \subseteq Hits /\ IsFiniteSet(Hits)
  BY BoutConstants
<1>2. IsFiniteSet(T) /\ Cardinality(T) <= Cardinality(Hits)
  BY <1>1, FS_Subset
<1>3. Cardinality(T) \in Nat
  BY <1>2, FS_CardinalityType
<1> QED BY <1>2, <1>3 DEF PointsOn

LEMMA LeaderType == \A r, b \in Nat : Leader(r, b) \in Sides \cup {"none"}
  BY DEF Leader, Sides

LEMMA CapType == \A r, b \in Nat : CapWinner(r, b) \in Sides \cup {"none"}
  BY LeaderType DEF CapWinner, Sides

LEMMA EndType ==
  ASSUME NEW row \in Rows, NEW t \in BOOLEAN
  PROVE  /\ EndResult(row, t).does \in {"keep", "name", "refuse"}
         /\ EndResult(row, t).winner \in Sides \cup {"none"}
<1>1. Ladder(row.winner, row.red, row.blue) \in Sides \cup {"none"}
  BY LeaderType DEF Ladder, Rows
<1> QED BY <1>1 DEF EndResult

LEMMA CorrectionType ==
  ASSUME NEW row, NEW r, NEW b, NEW f
  PROVE  /\ Correction(row, r, b, f) \in {"score", "reopen", "refuse", "redecide"}
         /\ Correction(row, r, b, f) = "redecide" => Over(r, b)
  BY DEF Correction

(* What a request reads of the clock has its type: LastRows, Newest and    *)
(* the resets are looked up only where there is one.                       *)
LEMMA ClockType ==
  ASSUME BoutTypeOK
  PROVE  LastAt \in Nat /\ NextSeq \in Nat /\ ResetAt \in Nat
<1>1. ASSUME LastRows # {} PROVE Last \in timeline
  BY <1>1 DEF Last, LastRows
<1>2. LastAt \in Nat
  BY <1>1 DEF LastAt, BoutTypeOK, StoreOK
<1>3. \A X \in SUBSET timeline : \A r \in Newest(X) : r.seq \in Nat /\ r.at \in Nat
  BY DEF Newest, BoutTypeOK, StoreOK
<1>4. NextSeq \in Nat
  BY <1>3 DEF NextSeq
<1>5. ResetAt \in Nat
  <2> DEFINE R == {r \in timeline : r.type = "reset_match"}
  <2>1. R \in SUBSET timeline
    OBVIOUS
  <2>2. \A r \in Newest(R) : r.at \in Nat
    BY <1>3, <2>1
  <2> QED BY <2>2 DEF ResetAt
<1> QED BY <1>2, <1>4, <1>5

-----------------------------------------------------------------------------
(* The types.  A request at a step of a press carries a press.             *)

PressSteps == {"press", "pressRow", "judge", "askSheet", "playWrite", "finish", "finishEnd",
               "finishPlay", "count"}

Carries(j) ==
  /\ j.op = "press" => j.item \in Presses
  /\ j.op = "hit" => j.item \in Hits
  /\ j.pc \in PressSteps => j.op = "press"
  /\ j.pc = "insert" /\ ~j.own => j.op = "press"

ItemOK == \A s \in Slots : Carries(job[s])

Typed == BoutTypeOK /\ ItemOK

LEMMA NoJobType == NoJob \in Jobs /\ Unplayed \in Rows /\ Carries(NoJob)
<1>1. Unplayed \in Rows /\ NoPlan \in Plans
  BY DEF Unplayed, Rows, NoPlan, Plans, Sides
<1>2. NoJob \in Jobs
  BY <1>1 DEF NoJob, Jobs, Steps
<1> QED BY <1>1, <1>2 DEF NoJob, Carries, PressSteps

LEMMA InitTyped == Init => Typed
<1> SUFFICES ASSUME Init PROVE Typed OBVIOUS
<1>1. BoutTypeOK
  BY NoJobType, BoutConstants DEF Init, BoutTypeOK, StoreOK, NotFed, Sides
<1>2. ItemOK
  BY NoJobType DEF Init, ItemOK
<1> QED BY <1>1, <1>2 DEF Typed

(* A step that gives one slot a well-typed request keeps the table so.     *)
LEMMA JobSet ==
  ASSUME Typed, NEW s \in Slots, NEW j \in Jobs, Carries(j), job' = [job EXCEPT ![s] = j]
  PROVE  job' \in [Slots -> Jobs] /\ ItemOK'
  BY DEF Typed, BoutTypeOK, ItemOK

LEMMA JobGoes ==
  ASSUME Typed, NEW s \in Slots, NEW p \in Steps, Goes(s, p),
         p \in PressSteps => job[s].op = "press", p # "insert"
  PROVE  job' \in [Slots -> Jobs] /\ ItemOK'
<1> DEFINE j == [job[s] EXCEPT !.pc = p]
<1>1. job[s] \in Jobs /\ Carries(job[s])
  BY DEF Typed, BoutTypeOK, ItemOK
<1>2. j \in Jobs
  BY <1>1 DEF Jobs
<1>3. Carries(j)
  BY <1>1 DEF Carries, Jobs
<1>4. job' = [job EXCEPT ![s] = j]
  BY DEF Goes
<1> HIDE DEF j
<1> QED BY <1>2, <1>3, <1>4, JobSet

LEMMA NextTyped == Typed /\ [Next]_vars => Typed'
<1> SUFFICES ASSUME Typed, [Next]_vars PROVE Typed'
  OBVIOUS
<1>st. StoreOK /\ job \in [Slots -> Jobs] /\ ItemOK
  BY DEF Typed, BoutTypeOK
<1>q. ASSUME StoreOK', job' \in [Slots -> Jobs], ItemOK' PROVE Typed'
  BY <1>q DEF Typed, BoutTypeOK
<1>j. \A s \in Slots : job[s] \in Jobs /\ Carries(job[s])
  BY <1>st DEF ItemOK
<1>c. LastAt \in Nat /\ NextSeq \in Nat /\ ResetAt \in Nat
  BY ClockType DEF Typed
<1>f. NotFed \in [side : Sides \cup {"none"}, fought : BOOLEAN]
  BY DEF NotFed
<1>p. /\ "answer" \in Steps /\ "row" \in Steps /\ "sheet" \in Steps /\ "context" \in Steps
      /\ "write" \in Steps /\ "undo" \in Steps /\ "tell" \in Steps /\ "insert" \in Steps
      /\ "press" \in Steps /\ "pressRow" \in Steps /\ "judge" \in Steps
      /\ "askSheet" \in Steps /\ "finish" \in Steps /\ "finishEnd" \in Steps
      /\ "giveBack" \in Steps /\ "voidSheet" \in Steps /\ "deskSeq" \in Steps
      /\ "deskRow" \in Steps /\ "deskWrite" \in Steps /\ "open" \in Steps
      /\ "replay" \in Steps /\ "flip" \in Steps
  BY DEF Steps
<1>m. \A s \in Slots : MarkOf(job[s]) \in Nat
  BY <1>j, <1>st, LaterType DEF MarkOf, StoreOK, Jobs, Rows
<1>ReplayHit. ASSUME NEW s \in Slots, ReplayHit(s) PROVE Typed'
  <2>1. job' \in [Slots -> Jobs] /\ ItemOK'
    BY <1>ReplayHit, <1>j, JobGoes DEF ReplayHit, At, Steps, PressSteps, Carries
  <2>2. StoreOK'
    BY <1>ReplayHit, <1>st, <1>j DEF ReplayHit, StoreOK, world, pad, count
  <2> QED BY <1>q, <2>1, <2>2
<1>OpenRound. ASSUME NEW s \in Slots, OpenRound(s) PROVE Typed'
  <2>1. job' \in [Slots -> Jobs] /\ ItemOK'
    BY <1>OpenRound, <1>j, JobGoes DEF OpenRound, At, Steps, PressSteps, Carries
  <2>2. StoreOK'
    BY <1>OpenRound, <1>st, <1>j DEF OpenRound, StoreOK, world, pad, count
  <2> QED BY <1>q, <2>1, <2>2
<1>EndLostTo. ASSUME NEW s \in Slots, EndLostTo(s) PROVE Typed'
  <2>1. job' \in [Slots -> Jobs] /\ ItemOK'
    BY <1>EndLostTo, <1>j, JobGoes DEF EndLostTo, At, Steps, PressSteps, Carries
  <2>2. StoreOK'
    BY <1>EndLostTo, <1>st, <1>j DEF EndLostTo, StoreOK, world, pad, count
  <2> QED BY <1>q, <2>1, <2>2
<1>InsertHit. ASSUME NEW s \in Slots, InsertHit(s) PROVE Typed'
  <2>1. job' \in [Slots -> Jobs] /\ ItemOK'
    BY <1>InsertHit, <1>j, JobGoes DEF InsertHit, At, Steps, PressSteps, Carries
  <2>2. StoreOK'
    BY <1>InsertHit, <1>st, <1>j DEF InsertHit, StoreOK, world, pad, count
  <2> QED BY <1>q, <2>1, <2>2
<1>ResultChanged. ASSUME NEW s \in Slots, ResultChanged(s) PROVE Typed'
  <2>1. job' \in [Slots -> Jobs] /\ ItemOK'
    BY <1>ResultChanged, <1>j, JobGoes DEF ResultChanged, At, Steps, PressSteps, Carries
  <2>2. StoreOK'
    BY <1>ResultChanged, <1>st, <1>j DEF ResultChanged, StoreOK, world, pad, count
  <2> QED BY <1>q, <2>1, <2>2
<1>Tell. ASSUME NEW s \in Slots, Tell(s) PROVE Typed'
  <2>1. job' \in [Slots -> Jobs] /\ ItemOK'
    BY <1>Tell, <1>j, JobGoes DEF Tell, At, Steps, PressSteps, Carries, Counted, IsStart
  <2>2. StoreOK'
    BY <1>Tell, <1>st, <1>j DEF Tell, StoreOK, world, pad, count, Rows
  <2> QED BY <1>q, <2>1, <2>2
<1>TakeBackRow. ASSUME NEW s \in Slots, TakeBackRow(s) PROVE Typed'
  <2>1. job' \in [Slots -> Jobs] /\ ItemOK'
    BY <1>TakeBackRow, <1>j, JobGoes DEF TakeBackRow, At, Steps, PressSteps, Carries
  <2>2. StoreOK'
    BY <1>TakeBackRow, <1>st, <1>j DEF TakeBackRow, StoreOK, world, pad, count
  <2> QED BY <1>q, <2>1, <2>2
<1>WriteInPlay. ASSUME NEW s \in Slots, WriteInPlay(s) PROVE Typed'
  <2>1. job' \in [Slots -> Jobs] /\ ItemOK'
    BY <1>WriteInPlay, <1>j, JobGoes DEF WriteInPlay, At, Steps, PressSteps, Carries, Taken, IsStart
  <2>2. StoreOK'
    BY <1>WriteInPlay, <1>st, <1>j DEF WriteInPlay, StoreOK, world, pad, count, Rows, StatusOf
  <2> QED BY <1>q, <2>1, <2>2
<1>FinishPlay. ASSUME NEW s \in Slots, FinishPlay(s) PROVE Typed'
  <2>1. job' \in [Slots -> Jobs] /\ ItemOK'
    BY <1>FinishPlay, <1>j, JobGoes DEF FinishPlay, At, Steps, PressSteps, Carries, Taken, IsStart
  <2>2. StoreOK'
    BY <1>FinishPlay, <1>st, <1>j DEF FinishPlay, StoreOK, world, pad, count, Rows, StatusOf
  <2> QED BY <1>q, <2>1, <2>2
<1>CompleteOnEnd. ASSUME NEW s \in Slots, CompleteOnEnd(s) PROVE Typed'
  <2>1. job' \in [Slots -> Jobs] /\ ItemOK'
    BY <1>CompleteOnEnd, <1>j, JobGoes DEF CompleteOnEnd, At, Steps, PressSteps, Carries
  <2>r. bout \in Rows /\ job[s].row \in Rows /\ job[s].plan \in Plans /\ MarkOf(job[s]) \in Nat
    BY <1>j, <1>m, <1>st DEF StoreOK, Jobs
  <2>2. bout' \in Rows
    <3>1. Ended(job[s].plan) \in Rows
      BY <2>r DEF Ended, Rows, Plans
    <3> QED BY <1>CompleteOnEnd, <2>r, <3>1 DEF CompleteOnEnd
  <2>3. StoreOK'
    BY <1>CompleteOnEnd, <1>st, <2>2 DEF CompleteOnEnd, StoreOK, world, pad, count
  <2> QED BY <1>q, <2>1, <2>3
<1>FinishEnd. ASSUME NEW s \in Slots, FinishEnd(s) PROVE Typed'
  <2>1. job' \in [Slots -> Jobs] /\ ItemOK'
    BY <1>FinishEnd, <1>j, JobGoes DEF FinishEnd, At, Steps, PressSteps, Carries
  <2>r. bout \in Rows /\ job[s].row \in Rows /\ job[s].plan \in Plans /\ MarkOf(job[s]) \in Nat
    BY <1>j, <1>m, <1>st DEF StoreOK, Jobs
  <2>2. bout' \in Rows
    <3>1. Ended(job[s].plan) \in Rows
      BY <2>r DEF Ended, Rows, Plans
    <3> QED BY <1>FinishEnd, <2>r, <3>1 DEF FinishEnd
  <2>3. StoreOK'
    BY <1>FinishEnd, <1>st, <2>2 DEF FinishEnd, StoreOK, world, pad, count
  <2> QED BY <1>q, <2>1, <2>3
<1>FlipHit. ASSUME NEW s \in Slots, FlipHit(s) PROVE Typed'
  <2>1. job' \in [Slots -> Jobs] /\ ItemOK'
    BY <1>FlipHit, <1>j, JobGoes DEF FlipHit, At, Steps, PressSteps, Carries
  <2>2. StoreOK'
    BY <1>FlipHit, <1>st, <1>j DEF FlipHit, StoreOK, world, pad, count
  <2> QED BY <1>q, <2>1, <2>2
<1>GiveBack. ASSUME NEW s \in Slots, GiveBack(s) PROVE Typed'
  <2>1. job' \in [Slots -> Jobs] /\ ItemOK'
    BY <1>GiveBack, <1>j, JobGoes DEF GiveBack, At, Steps, PressSteps, Carries
  <2>2. StoreOK'
    BY <1>GiveBack, <1>st, <1>j, <1>f DEF GiveBack, StoreOK, world, pad, count
  <2> QED BY <1>q, <2>1, <2>2
<1>VoidSheet. ASSUME NEW s \in Slots, VoidSheet(s) PROVE Typed'
  <2>1. job' \in [Slots -> Jobs] /\ ItemOK'
    BY <1>VoidSheet, <1>j, JobGoes DEF VoidSheet, At, Steps, PressSteps, Carries
  <2>2. StoreOK'
    BY <1>VoidSheet, <1>st, <1>j DEF VoidSheet, StoreOK, world, pad, count
  <2> QED BY <1>q, <2>1, <2>2
<1>WriteScore. ASSUME NEW s \in Slots, WriteScore(s) PROVE Typed'
  <2>1. job' \in [Slots -> Jobs] /\ ItemOK'
    BY <1>WriteScore, <1>j, JobGoes DEF WriteScore, At, Steps, PressSteps, Carries, Counted, IsStart
  <2>r. bout \in Rows /\ job[s].row \in Rows /\ job[s].plan \in Plans /\ MarkOf(job[s]) \in Nat
    BY <1>j, <1>m, <1>st DEF StoreOK, Jobs
  <2>2. bout' \in Rows
    <3> DEFINE scored == Scored(bout, job[s].plan)
    <3>1. scored \in Rows
      BY <2>r DEF Scored, Rows, Plans
    <3>2. /\ job[s].plan.winner \in Sides \cup {"none"}
          /\ job[s].plan.reason \in {"none", "cap", "time"}
      BY <2>r DEF Plans
    <3>3. bout' \in {scored,
            [scored EXCEPT !.status = "completed", !.winner = job[s].plan.winner,
                           !.reason = job[s].plan.reason],
            [scored EXCEPT !.status = "paused", !.winner = "none", !.reason = "none",
                           !.mark = MarkOf(job[s])],
            [scored EXCEPT !.winner = job[s].plan.winner, !.reason = job[s].plan.reason]}
      BY <1>WriteScore DEF WriteScore
    <3> HIDE DEF scored
    <3>4. [scored EXCEPT !.status = "completed", !.winner = job[s].plan.winner,
                         !.reason = job[s].plan.reason] \in Rows
      BY <3>1, <3>2 DEF Rows
    <3>5. [scored EXCEPT !.status = "paused", !.winner = "none", !.reason = "none",
                         !.mark = MarkOf(job[s])] \in Rows
      BY <2>r, <3>1 DEF Rows
    <3>6. [scored EXCEPT !.winner = job[s].plan.winner, !.reason = job[s].plan.reason] \in Rows
      BY <3>1, <3>2 DEF Rows
    <3> QED BY <3>1, <3>3, <3>4, <3>5, <3>6
  <2>3. StoreOK'
    BY <1>WriteScore, <1>st, <2>2 DEF WriteScore, StoreOK, world, pad, count
  <2> QED BY <1>q, <2>1, <2>3
<1>DeskWrite. ASSUME NEW s \in Slots, DeskWrite(s) PROVE Typed'
  <2>1. job' \in [Slots -> Jobs] /\ ItemOK'
    BY <1>DeskWrite, <1>j, JobGoes DEF DeskWrite, At, Steps, PressSteps, Carries
  <2>r. bout \in Rows /\ job[s].row \in Rows /\ job[s].plan \in Plans /\ MarkOf(job[s]) \in Nat
    BY <1>j, <1>m, <1>st DEF StoreOK, Jobs
  <2>2. bout' \in Rows
    <3>1. Reopened \in Rows /\ [Reopened EXCEPT !.mark = MarkOf(job[s])] \in Rows
      BY <2>r DEF Reopened, Rows
    <3>2. bout' \in {bout, Unplayed, Reopened, [Reopened EXCEPT !.mark = MarkOf(job[s])]}
      BY <1>DeskWrite DEF DeskWrite
    <3> QED BY <2>r, <3>1, <3>2, NoJobType
  <2>3. StoreOK'
    BY <1>DeskWrite, <1>st, <2>2 DEF DeskWrite, StoreOK, world, pad, count
  <2> QED BY <1>q, <2>1, <2>3
<1>LoadRow. ASSUME NEW s \in Slots, LoadRow(s) PROVE Typed'
  <2> DEFINE j == [job[s] EXCEPT !.row = bout, !.pc = "sheet"]
  <2>1. j \in Jobs
    BY <1>j, <1>p, <1>st DEF Jobs, StoreOK
  <2>2. Carries(j)
    BY <1>LoadRow, <1>j, <1>st DEF LoadRow, At, Jobs, Carries, PressSteps, StoreOK
  <2>3. job' = [job EXCEPT ![s] = j]
    BY <1>LoadRow DEF LoadRow
  <2>4. job' \in [Slots -> Jobs] /\ ItemOK'
    BY <2>1, <2>2, <2>3, JobSet
  <2>5. StoreOK'
    BY <1>LoadRow, <1>st DEF LoadRow, StoreOK, world, pad, count
  <2> QED BY <1>q, <2>4, <2>5
<1>PressRow. ASSUME NEW s \in Slots, PressRow(s) PROVE Typed'
  <2> DEFINE j == [job[s] EXCEPT !.row = bout, !.pc = "judge"]
  <2>1. j \in Jobs
    BY <1>j, <1>p, <1>st DEF Jobs, StoreOK
  <2>2. Carries(j)
    BY <1>PressRow, <1>j, <1>st DEF PressRow, At, Jobs, Carries, PressSteps, StoreOK
  <2>3. job' = [job EXCEPT ![s] = j]
    BY <1>PressRow DEF PressRow
  <2>4. job' \in [Slots -> Jobs] /\ ItemOK'
    BY <2>1, <2>2, <2>3, JobSet
  <2>5. StoreOK'
    BY <1>PressRow, <1>st DEF PressRow, StoreOK, world, pad, count
  <2> QED BY <1>q, <2>4, <2>5
<1>TakePress. ASSUME NEW s \in Slots, TakePress(s) PROVE Typed'
  <2> DEFINE j == [job[s] EXCEPT !.seq = NextSeq, !.pc = IF PressSaved(job[s].item) THEN "finish" ELSE "pressRow"]
  <2>1. j \in Jobs
    BY <1>j, <1>p, <1>c DEF Jobs
  <2>2. Carries(j)
    BY <1>TakePress, <1>j, <1>c DEF TakePress, At, Jobs, Carries, PressSteps
  <2>3. job' = [job EXCEPT ![s] = j]
    BY <1>TakePress DEF TakePress
  <2>4. job' \in [Slots -> Jobs] /\ ItemOK'
    BY <2>1, <2>2, <2>3, JobSet
  <2>5. StoreOK'
    BY <1>TakePress, <1>st DEF TakePress, StoreOK, world, pad, count
  <2> QED BY <1>q, <2>4, <2>5
<1>DeskSeq. ASSUME NEW s \in Slots, DeskSeq(s) PROVE Typed'
  <2> DEFINE j == [job[s] EXCEPT !.seq = NextSeq, !.pc = "deskRow"]
  <2>1. j \in Jobs
    BY <1>j, <1>p, <1>c DEF Jobs
  <2>2. Carries(j)
    BY <1>DeskSeq, <1>j, <1>c DEF DeskSeq, At, Jobs, Carries, PressSteps
  <2>3. job' = [job EXCEPT ![s] = j]
    BY <1>DeskSeq DEF DeskSeq
  <2>4. job' \in [Slots -> Jobs] /\ ItemOK'
    BY <2>1, <2>2, <2>3, JobSet
  <2>5. StoreOK'
    BY <1>DeskSeq, <1>st DEF DeskSeq, StoreOK, world, pad, count
  <2> QED BY <1>q, <2>4, <2>5
<1>CountAtStart. ASSUME NEW s \in Slots, CountAtStart(s) PROVE Typed'
  <2> DEFINE j == [job[s] EXCEPT !.at = 0, !.pc = IF InPlay /\ bout.red = 0 /\ bout.blue = 0 /\ EmptySheet THEN "row" ELSE "answer"]
  <2>1. j \in Jobs
    BY <1>j, <1>p DEF Jobs
  <2>2. Carries(j)
    BY <1>CountAtStart, <1>j DEF CountAtStart, At, Jobs, Carries, PressSteps
  <2>3. job' = [job EXCEPT ![s] = j]
    BY <1>CountAtStart DEF CountAtStart
  <2>4. job' \in [Slots -> Jobs] /\ ItemOK'
    BY <2>1, <2>2, <2>3, JobSet
  <2>5. StoreOK'
    BY <1>CountAtStart, <1>st DEF CountAtStart, StoreOK, world, pad, count
  <2> QED BY <1>q, <2>4, <2>5
<1>Answer. ASSUME NEW s \in Slots, Answer(s) PROVE Typed'
  <2> DEFINE j == NoJob
  <2>1. j \in Jobs
    BY <1>j, <1>p, NoJobType DEF Jobs
  <2>2. Carries(j)
    BY <1>Answer, <1>j, NoJobType DEF Answer, At, Jobs, Carries, PressSteps
  <2>3. job' = [job EXCEPT ![s] = j]
    BY <1>Answer DEF Answer
  <2>4. job' \in [Slots -> Jobs] /\ ItemOK'
    BY <2>1, <2>2, <2>3, JobSet
  <2>5. StoreOK'
    BY <1>Answer, <1>st, <1>j DEF Answer, StoreOK, world, pad, count, Jobs, Carries, Items
  <2> QED BY <1>q, <2>4, <2>5
<1>LoadSheet. ASSUME NEW s \in Slots, LoadSheet(s) PROVE Typed'
  <2> DEFINE red  == PointsOn(sheet, "red")
             blue == PointsOn(sheet, "blue")
             over == Over(red, blue)
             done == job[s].row.status = "completed"
             plan == [does |-> IF over /\ ~done THEN "complete" ELSE "score",
                      red |-> red, blue |-> blue,
                      winner |-> IF over THEN CapWinner(red, blue) ELSE "none",
                      reason |-> IF over THEN "cap" ELSE "none"]
             j == [job[s] EXCEPT !.plan = plan, !.pc = IF done THEN "context" ELSE "write"]
  <2>1. red \in Nat /\ blue \in Nat /\ CapWinner(red, blue) \in Sides \cup {"none"}
    BY PointsType, CapType
  <2>2. plan \in Plans
    BY <2>1 DEF Plans
  <2>3. job' = [job EXCEPT ![s] = j]
    BY <1>LoadSheet DEF LoadSheet
  <2> HIDE DEF plan
  <2>4j. j \in Jobs
    BY <1>j, <2>2, <1>p DEF Jobs
  <2>4. j \in Jobs /\ Carries(j)
    BY <1>j, <2>2, <2>4j DEF Jobs, Carries, PressSteps
  <2>5. job' \in [Slots -> Jobs] /\ ItemOK'
    BY <2>3, <2>4, JobSet
  <2>6. StoreOK'
    BY <1>LoadSheet, <1>st DEF LoadSheet, StoreOK, world, pad, count
  <2> QED BY <1>q, <2>5, <2>6
<1>Context. ASSUME NEW s \in Slots, Context(s) PROVE Typed'
  <2> DEFINE out == Correction(job[s].row, job[s].plan.red, job[s].plan.blue, fed.fought)
             j == [job[s] EXCEPT !.plan.does = IF out = "refuse" THEN "score" ELSE out,
                                 !.pc = IF out = "reopen" THEN "undo" ELSE "write"]
  <2>1. out \in {"score", "reopen", "refuse", "redecide"}
    BY CorrectionType
  <2>2. job' = [job EXCEPT ![s] = j]
    BY <1>Context DEF Context
  <2> HIDE DEF out
  <2>3a. j.plan \in Plans
    BY <1>j, <2>1 DEF Jobs, Plans
  <2>3b. j \in Jobs
    BY <1>j, <2>1, <2>3a, <1>p DEF Jobs
  <2>3. j \in Jobs /\ Carries(j)
    BY <1>j, <2>1, <2>3b DEF Jobs, Carries, PressSteps
  <2>4. job' \in [Slots -> Jobs] /\ ItemOK'
    BY <2>2, <2>3, JobSet
  <2>5. StoreOK'
    BY <1>Context, <1>st DEF Context, StoreOK, world, pad, count
  <2> QED BY <1>q, <2>4, <2>5
<1>UncompleteBestEffort. ASSUME NEW s \in Slots, UncompleteBestEffort(s) PROVE Typed'
  <2> DEFINE j == [job[s] EXCEPT !.plan.does = "score", !.pc = "write"]
             k == [job[s] EXCEPT !.pc = "write"]
  <2>a. j.plan \in Plans
    BY <1>j DEF Jobs, Plans
  <2>b. j \in Jobs /\ k \in Jobs
    BY <1>j, <2>a, <1>p DEF Jobs
  <2>1. j \in Jobs /\ Carries(j) /\ k \in Jobs /\ Carries(k)
    BY <1>j, <2>b DEF Jobs, Carries, PressSteps
  <2>2. job' = [job EXCEPT ![s] = j] \/ job' = [job EXCEPT ![s] = k]
    BY <1>UncompleteBestEffort DEF UncompleteBestEffort, Goes
  <2> HIDE DEF j, k
  <2>3. job' \in [Slots -> Jobs] /\ ItemOK'
    BY <2>1, <2>2, JobSet
  <2>4. StoreOK'
    BY <1>UncompleteBestEffort, <1>st, <1>f DEF UncompleteBestEffort, StoreOK, world, pad, count
  <2> QED BY <1>q, <2>3, <2>4
<1>AutoEnd. ASSUME NEW s \in Slots, AutoEnd(s) PROVE Typed'
  <2>1. StoreOK'
    BY <1>AutoEnd, <1>st DEF AutoEnd, StoreOK, world, pad, count
  <2>2. CASE Goes(s, "tell")
    <3>1. job' \in [Slots -> Jobs] /\ ItemOK'
      BY <2>2, JobGoes DEF Steps, PressSteps
    <3> QED BY <1>q, <2>1, <3>1
  <2>3. CASE ~Goes(s, "tell")
    <3> DEFINE at == Later(IF job[s].at = 0 THEN now ELSE job[s].at, LastAt)
               end(timeUp) == EndResult(bout, timeUp)
               q(timeUp) == [job[s].plan EXCEPT !.does = end(timeUp).does, !.winner = end(timeUp).winner]
               j(timeUp) == [job[s] EXCEPT !.own = TRUE, !.row = bout, !.seq = NextSeq, !.at = at,
                     !.plan = q(timeUp),
                     !.pc = IF end(timeUp).does = "refuse" THEN "tell" ELSE "insert"]
    <3>1. PICK timeUp \in BOOLEAN : job' = [job EXCEPT ![s] = j(timeUp)]
      BY <1>AutoEnd, <2>3 DEF AutoEnd
    <3>2. end(timeUp).does \in {"keep", "name", "refuse"} /\ end(timeUp).winner \in Sides \cup {"none"}
      BY <1>st, EndType DEF StoreOK
    <3>3. at \in Nat
      BY <1>st, <1>j, <1>c, LaterType DEF StoreOK, Jobs
    <3>4. bout \in Rows
      BY <1>st DEF StoreOK
    <3> HIDE DEF at, end
    <3>5a. q(timeUp) \in Plans
      BY <1>j, <1>c, <3>2, <3>3, <3>4 DEF Jobs, Plans
    <3> HIDE DEF q
    <3>5b. j(timeUp) \in Jobs
      BY <1>j, <1>c, <3>2, <3>3, <3>4, <3>5a, <1>p DEF Jobs
    <3>5. j(timeUp) \in Jobs /\ Carries(j(timeUp))
      BY <1>j, <1>c, <3>2, <3>3, <3>4, <3>5b DEF Jobs, Carries, PressSteps
    <3>6. job' \in [Slots -> Jobs] /\ ItemOK'
      BY <3>1, <3>5, JobSet
    <3> QED BY <1>q, <2>1, <3>6
  <2> QED BY <2>2, <2>3
<1>Judge. ASSUME NEW s \in Slots, Judge(s) PROVE Typed'
  <2>1. StoreOK'
    BY <1>Judge, <1>st DEF Judge, StoreOK, world, pad, count
  <2>2. job[s].op = "press" /\ job[s].item \in Presses
    BY <1>Judge, <1>j DEF Judge, At, Carries, PressSteps
  <2>3. CASE Goes(s, Taken(job[s])) \/ Goes(s, "answer")
    <3>1. job' \in [Slots -> Jobs] /\ ItemOK'
      BY <2>2, <2>3, JobGoes DEF Steps, Taken
    <3> QED BY <1>q, <2>1, <3>1
  <2>4. CASE ~(Goes(s, Taken(job[s])) \/ Goes(s, "answer"))
    <3> DEFINE at == Later(madeAt[job[s].item], LastAt)
               j == [job[s] EXCEPT !.at = at,
                       !.pc = IF ActionOf[job[s].item] = "end" THEN "askSheet" ELSE "insert"]
    <3>1. job' = [job EXCEPT ![s] = j]
      BY <1>Judge, <2>4 DEF Judge
    <3>2. at \in Nat
      BY <1>st, <1>c, <2>2, LaterType DEF StoreOK, Items
    <3> HIDE DEF at
    <3>3j. j \in Jobs
      BY <1>j, <2>2, <3>2, <1>p DEF Jobs
    <3>3. j \in Jobs /\ Carries(j)
      BY <1>j, <2>2, <3>2, <3>3j DEF Jobs, Carries
    <3>4. job' \in [Slots -> Jobs] /\ ItemOK'
      BY <3>1, <3>3, JobSet
    <3> QED BY <1>q, <2>1, <3>4
  <2> QED BY <2>3, <2>4
<1>AskSheet. ASSUME NEW s \in Slots, AskSheet(s) PROVE Typed'
  <2>1. StoreOK'
    BY <1>AskSheet, <1>st DEF AskSheet, StoreOK, world, pad, count
  <2>2. CASE SheetEnds
    <3>1. job' \in [Slots -> Jobs] /\ ItemOK'
      BY <1>AskSheet, <2>2, JobGoes DEF AskSheet, Steps, PressSteps
    <3> QED BY <1>q, <2>1, <3>1
  <2>3. CASE ~SheetEnds
    <3> DEFINE end(timeUp) == EndResult(job[s].row, timeUp)
               q(timeUp) == [job[s].plan EXCEPT !.does = end(timeUp).does, !.winner = end(timeUp).winner]
               j(timeUp) == [job[s] EXCEPT !.plan = q(timeUp),
                     !.pc = IF end(timeUp).does = "refuse" THEN "answer" ELSE "insert"]
    <3>1. PICK timeUp \in BOOLEAN : job' = [job EXCEPT ![s] = j(timeUp)]
      BY <1>AskSheet, <2>3 DEF AskSheet
    <3>2. end(timeUp).does \in {"keep", "name", "refuse"} /\ end(timeUp).winner \in Sides \cup {"none"}
      BY <1>j, EndType DEF Jobs
    <3>3. At(s, "askSheet")
      BY <1>AskSheet DEF AskSheet
    <3> HIDE DEF end
    <3>4a. q(timeUp) \in Plans
      BY <1>j, <3>2, <3>3 DEF Jobs, Plans
    <3> HIDE DEF q
    <3>4b. j(timeUp) \in Jobs
      BY <1>j, <3>2, <3>3, <3>4a, <1>p DEF Jobs
    <3>4. j(timeUp) \in Jobs /\ Carries(j(timeUp))
      BY <1>j, <3>2, <3>3, <3>4b DEF Jobs, Carries, PressSteps, At
    <3>5. job' \in [Slots -> Jobs] /\ ItemOK'
      BY <3>1, <3>4, JobSet
    <3> QED BY <1>q, <2>1, <3>5
  <2> QED BY <2>2, <2>3
<1>FinishSaved. ASSUME NEW s \in Slots, FinishSaved(s) PROVE Typed'
  <2>1. StoreOK'
    BY <1>FinishSaved, <1>st DEF FinishSaved, StoreOK, world, pad, count
  <2>2. job[s].op = "press"
    BY <1>FinishSaved, <1>j DEF FinishSaved, At, Carries, PressSteps
  <2>3. CASE ~(Speaks(job[s].item) /\ ActionOf[job[s].item] = "end")
    <3>1. Goes(s, Taken(job[s])) \/ Goes(s, "finishPlay")
      BY <1>FinishSaved, <2>3 DEF FinishSaved
    <3>2. job' \in [Slots -> Jobs] /\ ItemOK'
      BY <3>1, <2>2, JobGoes DEF Steps, Taken
    <3> QED BY <1>q, <2>1, <3>2
  <2>4. CASE Speaks(job[s].item) /\ ActionOf[job[s].item] = "end"
    <3> DEFINE end(timeUp) == EndResult(bout, timeUp)
               q(timeUp) == [job[s].plan EXCEPT !.does = end(timeUp).does, !.winner = end(timeUp).winner]
               j(timeUp) == [job[s] EXCEPT !.row = bout, !.plan = q(timeUp),
                     !.pc = IF bout.status = "completed" \/ end(timeUp).does = "refuse"
                            THEN "answer" ELSE "finishEnd"]
    <3>1. PICK timeUp \in BOOLEAN : job' = [job EXCEPT ![s] = j(timeUp)]
      BY <1>FinishSaved, <2>4 DEF FinishSaved
    <3>2. end(timeUp).does \in {"keep", "name", "refuse"} /\ end(timeUp).winner \in Sides \cup {"none"}
      BY <1>st, EndType DEF StoreOK
    <3>3. bout \in Rows
      BY <1>st DEF StoreOK
    <3> HIDE DEF end
    <3>4a. q(timeUp) \in Plans
      BY <1>j, <2>2, <3>2, <3>3 DEF Jobs, Plans
    <3> HIDE DEF q
    <3>4b. j(timeUp) \in Jobs
      BY <1>j, <2>2, <3>2, <3>3, <3>4a, <1>p DEF Jobs
    <3>4. j(timeUp) \in Jobs /\ Carries(j(timeUp))
      BY <1>j, <2>2, <3>2, <3>3, <3>4b DEF Jobs, Carries, PressSteps
    <3>5. job' \in [Slots -> Jobs] /\ ItemOK'
      BY <3>1, <3>4, JobSet
    <3> QED BY <1>q, <2>1, <3>5
  <2> QED BY <2>3, <2>4
<1>InsertPress. ASSUME NEW s \in Slots, InsertPress(s) PROVE Typed'
  <2>1. job[s].pc = "insert" /\ (~job[s].own => job[s].op = "press" /\ job[s].item \in Presses)
    BY <1>InsertPress, <1>j DEF InsertPress, At, Carries
  <2>2. job' \in [Slots -> Jobs] /\ ItemOK'
    BY <1>InsertPress, <2>1, JobGoes DEF InsertPress, Steps, PressSteps
  <2> DEFINE type == IF job[s].own THEN "end" ELSE ActionOf[job[s].item]
             r == [type |-> type, seq |-> job[s].seq, at |-> job[s].at,
                   press |-> IF job[s].own THEN NoItem ELSE job[s].item]
  <2>3. type \in {"start", "halt", "resume", "end", "reopen", "reset_match"}
    BY <2>1, BoutConstants
  <2>4. r \in [type : {"start", "halt", "resume", "end", "reopen", "reset_match"},
               seq : Nat, at : Nat, press : Presses \cup {NoItem}]
    BY <1>j, <2>1, <2>3 DEF Jobs
  <2>5. timeline' = timeline \/ timeline' = timeline \cup {r}
    BY <1>InsertPress DEF InsertPress
  <2> HIDE DEF r
  <2>6. StoreOK'
    BY <1>InsertPress, <1>st, <2>4, <2>5 DEF InsertPress, StoreOK, pad, count
  <2> QED BY <1>q, <2>2, <2>6
<1>VerifyCount. ASSUME NEW s \in Slots, VerifyCount(s) PROVE Typed'
  <2> DEFINE j == [job[s] EXCEPT !.pc = "answer"]
  <2>1j. j \in Jobs
    BY <1>j, <1>p DEF Jobs
  <2>1. j \in Jobs /\ Carries(j)
    BY <1>j, <2>1j DEF Jobs, Carries, PressSteps
  <2>2. job' = [job EXCEPT ![s] = j] \/ job' = [job EXCEPT ![s] = NoJob]
    BY <1>VerifyCount DEF VerifyCount
  <2> HIDE DEF j
  <2>3. job' \in [Slots -> Jobs] /\ ItemOK'
    BY <2>1, <2>2, NoJobType, JobSet
  <2>4. StoreOK'
    BY <1>VerifyCount, <1>st DEF VerifyCount, StoreOK, world, pad, count
  <2> QED BY <1>q, <2>3, <2>4
<1>DeskRow. ASSUME NEW s \in Slots, DeskRow(s) PROVE Typed'
  <2>1. CASE SeqTaken(job[s].seq)
    <3>1. job' \in [Slots -> Jobs] /\ ItemOK'
      BY <1>DeskRow, <2>1, JobGoes DEF DeskRow, Steps, PressSteps
    <3>2. StoreOK'
      BY <1>DeskRow, <2>1, <1>st DEF DeskRow, StoreOK, pad, count
    <3> QED BY <1>q, <3>1, <3>2
  <2>2. CASE ~SeqTaken(job[s].seq)
    <3> DEFINE j == [job[s] EXCEPT !.at = now + 1, !.pc = "deskWrite"]
               r == [type |-> IF job[s].op = "reset" THEN "reset_match" ELSE "reopen",
                     seq |-> job[s].seq, at |-> now + 1, press |-> NoItem]
    <3>1. now + 1 \in Nat /\ job[s].seq \in Nat
      BY <1>st, <1>j DEF StoreOK, Jobs
    <3>2j. j \in Jobs
      BY <1>j, <3>1, <1>p DEF Jobs
    <3>2. j \in Jobs /\ Carries(j)
      BY <1>j, <3>1, <3>2j DEF Jobs, Carries, PressSteps
    <3>3. r \in [type : {"start", "halt", "resume", "end", "reopen", "reset_match"},
                 seq : Nat, at : Nat, press : Presses \cup {NoItem}]
      BY <3>1
    <3>4. job' = [job EXCEPT ![s] = j] /\ timeline' = timeline \cup {r} /\ now' = now + 1
      BY <1>DeskRow, <2>2 DEF DeskRow
    <3> HIDE DEF j, r
    <3>5. job' \in [Slots -> Jobs] /\ ItemOK'
      BY <3>2, <3>4, JobSet
    <3>6. StoreOK'
      BY <1>DeskRow, <1>st, <3>1, <3>3, <3>4 DEF DeskRow, StoreOK, pad, count
    <3> QED BY <1>q, <3>5, <3>6
  <2> QED BY <2>1, <2>2
<1>Serve. ASSUME NEW s \in Slots, Serve(s) PROVE Typed'
  BY <1>Serve, <1>ReplayHit, <1>OpenRound, <1>EndLostTo, <1>InsertHit, <1>ResultChanged,
     <1>Tell, <1>TakeBackRow, <1>WriteInPlay, <1>FinishPlay, <1>CompleteOnEnd, <1>FinishEnd,
     <1>FlipHit, <1>GiveBack, <1>VoidSheet, <1>WriteScore, <1>DeskWrite, <1>LoadRow,
     <1>PressRow, <1>TakePress, <1>DeskSeq, <1>Answer, <1>LoadSheet, <1>Context,
     <1>UncompleteBestEffort, <1>AutoEnd, <1>Judge, <1>AskSheet, <1>FinishSaved,
     <1>InsertPress, <1>CountAtStart, <1>VerifyCount, <1>DeskRow
     DEF Serve
<1>Make. ASSUME NEW i \in Items, Make(i) PROVE Typed'
  BY <1>Make, <1>st, <1>q DEF Make, StoreOK, ItemOK, count
<1>FightNext. ASSUME FightNext PROVE Typed'
  BY <1>FightNext, <1>st, <1>q DEF FightNext, StoreOK, ItemOK, world, pad, count
<1>Send. ASSUME NEW s \in Slots, Sends(s) PROVE Typed'
  <2>1. PICK i \in Items, op \in {"hit", "press"}, pc \in {"open", "replay", "press"} :
          /\ Send(s, i, op, pc)
          /\ op = "hit" => i \in Hits /\ pc # "press"
          /\ op = "press" => i \in Presses
    BY <1>Send DEF Sends, SendHit, SendPress, Items
  <2> DEFINE j == [NoJob EXCEPT !.op = op, !.item = i, !.pc = pc, !.at = madeAt[i]]
  <2>2. j \in Jobs
    BY <2>1, <1>st, <1>p, NoJobType DEF StoreOK, Jobs
  <2>3. Carries(j)
    BY <2>1, NoJobType DEF Jobs, Carries, PressSteps
  <2>4. job' = [job EXCEPT ![s] = j]
    BY <2>1 DEF Send
  <2> HIDE DEF j
  <2>5. job' \in [Slots -> Jobs] /\ ItemOK'
    BY <2>2, <2>3, <2>4, JobSet
  <2>6. StoreOK'
    BY <2>1, <1>st DEF Send, StoreOK, world, pad, count
  <2> QED BY <1>q, <2>5, <2>6
<1>Crash. ASSUME NEW s \in Slots, Crash(s) PROVE Typed'
  <2>1. job' \in [Slots -> Jobs] /\ ItemOK'
    BY <1>Crash, NoJobType, JobSet DEF Crash
  <2>2. StoreOK'
    BY <1>Crash, <1>st, BoutConstants DEF Crash, StoreOK, world, pad
  <2> QED BY <1>q, <2>1, <2>2
<1>Correct. ASSUME NEW s \in Slots, NEW h \in Hits, VoidExchange(s, h) \/ RevertVoid(s, h)
            PROVE  Typed'
  <2>1. PICK op \in {"void", "restore"}, v \in {"voided", "live"} : Corrects(s, op, h, v)
    BY <1>Correct DEF VoidExchange, RevertVoid
  <2>2. PICK pc \in {"flip", "answer"} :
          job' = [job EXCEPT ![s] = [NoJob EXCEPT !.op = op, !.item = h, !.pc = pc]]
    BY <2>1 DEF Corrects
  <2> DEFINE j == [NoJob EXCEPT !.op = op, !.item = h, !.pc = pc]
  <2>3j. j \in Jobs
    BY NoJobType, <1>p DEF Jobs, Items
  <2>3. j \in Jobs /\ Carries(j)
    BY NoJobType, <2>3j DEF Jobs, Carries, PressSteps, Items
  <2>4. job' \in [Slots -> Jobs] /\ ItemOK'
    BY <2>2, <2>3, JobSet
  <2>5. StoreOK'
    BY <2>1, <1>st, BoutConstants DEF Corrects, Asks, StoreOK, world, pad
  <2> QED BY <1>q, <2>4, <2>5
<1>Desk. ASSUME NEW s \in Slots, Reopen(s) \/ ResetMatch(s) PROVE Typed'
  <2>1. PICK op \in {"reopen", "reset"}, then \in {"deskSeq", "voidSheet"} : AsksBack(s, op, then)
    BY <1>Desk DEF Reopen, ResetMatch
  <2>2. PICK pc \in {"giveBack", "deskSeq", "voidSheet"} :
          job' = [job EXCEPT ![s] = [NoJob EXCEPT !.op = op, !.row = bout, !.pc = pc]]
    BY <2>1 DEF AsksBack
  <2> DEFINE j == [NoJob EXCEPT !.op = op, !.row = bout, !.pc = pc]
  <2>3j. j \in Jobs
    BY <1>st, NoJobType, <1>p DEF Jobs, StoreOK
  <2>3. j \in Jobs /\ Carries(j)
    BY <1>st, NoJobType, <2>3j DEF StoreOK, Jobs, Carries, PressSteps
  <2>4. job' \in [Slots -> Jobs] /\ ItemOK'
    BY <2>2, <2>3, JobSet
  <2>5. StoreOK'
    BY <2>1, <1>st, BoutConstants DEF AsksBack, Asks, StoreOK, world, pad
  <2> QED BY <1>q, <2>4, <2>5
<1>u. CASE UNCHANGED vars
  BY <1>u, <1>st, <1>q DEF vars, StoreOK, ItemOK
<1> QED
  BY <1>Serve, <1>Make, <1>FightNext, <1>Send, <1>Crash, <1>Correct, <1>Desk, <1>u DEF Next

(* Type correctness: the row, the sheet, the clock's rows and the copies   *)
(* that the requests in hand carry hold what they may hold, for every      *)
(* number of requests at once (matches.service.ts, scoring.service.ts,     *)
(* clock.service.ts).                                                      *)
THEOREM BoutTypeCorrect == Spec => []BoutTypeOK
<1>1. Typed => BoutTypeOK
  BY DEF Typed
<1> QED BY InitTyped, NextTyped, <1>1, PTL DEF Spec

-----------------------------------------------------------------------------

(* A step is taken in one slot: the other requests stand where they were.  *)
LEMMA ServesOne ==
  ASSUME Typed, NEW s \in Slots, Serve(s)
  PROVE  /\ \A t \in Slots \ {s} : job'[t] = job[t]
         /\ madeAt' = madeAt
<1>j. job \in [Slots -> Jobs]
  BY DEF Typed, BoutTypeOK
<1>ReplayHit. CASE ReplayHit(s)
  BY <1>ReplayHit, <1>j DEF ReplayHit, Goes, pad, vars
<1>OpenRound. CASE OpenRound(s)
  BY <1>OpenRound, <1>j DEF OpenRound, Goes, pad, vars
<1>InsertHit. CASE InsertHit(s)
  BY <1>InsertHit, <1>j DEF InsertHit, Goes, pad, vars
<1>LoadRow. CASE LoadRow(s)
  BY <1>LoadRow, <1>j DEF LoadRow, Goes, pad, vars
<1>LoadSheet. CASE LoadSheet(s)
  BY <1>LoadSheet, <1>j DEF LoadSheet, Goes, pad, vars
<1>Context. CASE Context(s)
  BY <1>Context, <1>j DEF Context, Goes, pad, vars
<1>UncompleteBestEffort. CASE UncompleteBestEffort(s)
  BY <1>UncompleteBestEffort, <1>j DEF UncompleteBestEffort, Goes, pad, vars
<1>WriteScore. CASE WriteScore(s)
  BY <1>WriteScore, <1>j DEF WriteScore, Goes, pad, vars
<1>ResultChanged. CASE ResultChanged(s)
  BY <1>ResultChanged, <1>j DEF ResultChanged, Goes, pad, vars
<1>Tell. CASE Tell(s)
  BY <1>Tell, <1>j DEF Tell, Goes, pad, vars
<1>AutoEnd. CASE AutoEnd(s)
  BY <1>AutoEnd, <1>j DEF AutoEnd, Goes, pad, vars
<1>TakePress. CASE TakePress(s)
  BY <1>TakePress, <1>j DEF TakePress, Goes, pad, vars
<1>PressRow. CASE PressRow(s)
  BY <1>PressRow, <1>j DEF PressRow, Goes, pad, vars
<1>Judge. CASE Judge(s)
  BY <1>Judge, <1>j DEF Judge, Goes, pad, vars
<1>AskSheet. CASE AskSheet(s)
  BY <1>AskSheet, <1>j DEF AskSheet, Goes, pad, vars
<1>InsertPress. CASE InsertPress(s)
  BY <1>InsertPress, <1>j DEF InsertPress, Goes, pad, vars
<1>WriteInPlay. CASE WriteInPlay(s)
  BY <1>WriteInPlay, <1>j DEF WriteInPlay, Goes, pad, vars
<1>CompleteOnEnd. CASE CompleteOnEnd(s)
  BY <1>CompleteOnEnd, <1>j DEF CompleteOnEnd, Goes, pad, vars
<1>EndLostTo. CASE EndLostTo(s)
  BY <1>EndLostTo, <1>j DEF EndLostTo, Goes, pad, vars
<1>TakeBackRow. CASE TakeBackRow(s)
  BY <1>TakeBackRow, <1>j DEF TakeBackRow, Goes, pad, vars
<1>FinishSaved. CASE FinishSaved(s)
  BY <1>FinishSaved, <1>j DEF FinishSaved, Goes, pad, vars
<1>FinishEnd. CASE FinishEnd(s)
  BY <1>FinishEnd, <1>j DEF FinishEnd, Goes, pad, vars
<1>FinishPlay. CASE FinishPlay(s)
  BY <1>FinishPlay, <1>j DEF FinishPlay, Goes, pad, vars
<1>CountAtStart. CASE CountAtStart(s)
  BY <1>CountAtStart, <1>j DEF CountAtStart, Goes, pad, vars
<1>VerifyCount. CASE VerifyCount(s)
  BY <1>VerifyCount, <1>j DEF VerifyCount, Goes, pad, vars
<1>FlipHit. CASE FlipHit(s)
  BY <1>FlipHit, <1>j DEF FlipHit, Goes, pad, vars
<1>GiveBack. CASE GiveBack(s)
  BY <1>GiveBack, <1>j DEF GiveBack, Goes, pad, vars
<1>VoidSheet. CASE VoidSheet(s)
  BY <1>VoidSheet, <1>j DEF VoidSheet, Goes, pad, vars
<1>DeskSeq. CASE DeskSeq(s)
  BY <1>DeskSeq, <1>j DEF DeskSeq, Goes, pad, vars
<1>DeskRow. CASE DeskRow(s)
  BY <1>DeskRow, <1>j DEF DeskRow, Goes, pad, vars
<1>DeskWrite. CASE DeskWrite(s)
  BY <1>DeskWrite, <1>j DEF DeskWrite, Goes, pad, vars
<1>Answer. CASE Answer(s)
  BY <1>Answer, <1>j DEF Answer, Goes, pad, vars
<1> QED
  BY <1>ReplayHit, <1>OpenRound, <1>InsertHit, <1>LoadRow, <1>LoadSheet, <1>Context,
     <1>UncompleteBestEffort, <1>WriteScore, <1>ResultChanged, <1>Tell, <1>AutoEnd,
     <1>TakePress, <1>PressRow, <1>Judge, <1>AskSheet, <1>InsertPress, <1>WriteInPlay,
     <1>CompleteOnEnd, <1>EndLostTo, <1>TakeBackRow, <1>FinishSaved, <1>FinishEnd,
     <1>FinishPlay, <1>CountAtStart, <1>VerifyCount, <1>FlipHit, <1>GiveBack,
     <1>VoidSheet, <1>DeskSeq, <1>DeskRow, <1>DeskWrite, <1>Answer
     DEF Serve

LEMMA SendSets ==
  ASSUME job \in [Slots -> Jobs], NEW s \in Slots, Sends(s)
  PROVE  /\ job'[s].pc \in {"open", "replay", "press"} /\ job'[s].plan = NoPlan
         /\ \A t \in Slots \ {s} : job'[t] = job[t]
         /\ madeAt' = madeAt /\ bout' = bout /\ fed' = fed
<1>1. PICK i, op : \E pc \in {"open", "replay", "press"} : Send(s, i, op, pc)
  BY Zenon DEF Sends, SendHit, SendPress
<1> QED BY <1>1 DEF Send, NoJob, pad

LEMMA CorrectSets ==
  ASSUME job \in [Slots -> Jobs], NEW s \in Slots, 
         \E h \in Hits : VoidExchange(s, h) \/ RevertVoid(s, h)
  PROVE  /\ job'[s].pc \in {"flip", "answer"} /\ job'[s].plan = NoPlan
         /\ \A t \in Slots \ {s} : job'[t] = job[t]
         /\ madeAt' = madeAt /\ bout' = bout /\ fed' = fed
<1>1. PICK op, h, v : Corrects(s, op, h, v)
  BY Zenon DEF VoidExchange, RevertVoid
<1>2. PICK pc \in {"flip", "answer"} :
        job' = [job EXCEPT ![s] = [NoJob EXCEPT !.op = op, !.item = h, !.pc = pc]]
  BY <1>1 DEF Corrects
<1>3. madeAt' = madeAt /\ bout' = bout /\ fed' = fed
  BY <1>1 DEF Corrects, pad
<1> QED BY <1>2, <1>3 DEF NoJob

LEMMA AsksOne ==
  ASSUME Typed, NEW s \in Slots,
         Sends(s) \/ Crash(s) \/ (\E h \in Hits : VoidExchange(s, h) \/ RevertVoid(s, h))
                  \/ Reopen(s) \/ ResetMatch(s)
  PROVE  /\ \A t \in Slots \ {s} : job'[t] = job[t]
         /\ madeAt' = madeAt /\ bout' = bout /\ fed' = fed
         /\ job'[s].pc \in {"idle", "open", "replay", "press", "flip", "answer", "giveBack",
                            "deskSeq", "voidSheet"}
<1>j. job \in [Slots -> Jobs] /\ NoJob \in Jobs
  BY NoJobType DEF Typed, BoutTypeOK
<1>1. CASE Sends(s)
  BY <1>1, <1>j, SendSets
<1>2. CASE Crash(s)
  BY <1>2, <1>j DEF Crash, NoJob, pad, world
<1>3. CASE \E h \in Hits : VoidExchange(s, h) \/ RevertVoid(s, h)
  BY <1>3, <1>j, CorrectSets
<1>4. CASE Reopen(s) \/ ResetMatch(s)
  BY <1>4, <1>j DEF Reopen, ResetMatch, AsksBack, NoJob, pad, world
<1> QED BY <1>1, <1>2, <1>3, <1>4

-----------------------------------------------------------------------------
(* An End's door read a bout that was not put back in play after the press:*)
(* the mark it read lies before the press, and its write asks that mark.   *)
Pressed(j) ==
  j.pc \in {"askSheet", "insert", "endWrite"} /\ ~j.own
    => j.op = "press" /\ madeAt[j.item] > j.row.mark

PressedSince == \A s \in Slots : Pressed(job[s])

LEMMA PressedStep ==
  ASSUME Typed, PressedSince, NEW s \in Slots, Serve(s), Pressed(job'[s])
  PROVE  PressedSince'
  BY ServesOne DEF PressedSince, Pressed

LEMMA ServePressed ==
  ASSUME Typed, PressedSince, NEW s \in Slots, Serve(s)
  PROVE  Pressed(job'[s])
<1>j. job \in [Slots -> Jobs] /\ job[s] \in Jobs /\ Carries(job[s]) /\ Pressed(job[s])
  BY DEF Typed, BoutTypeOK, ItemOK, PressedSince
<1>c. ResetAt \in Nat /\ madeAt \in [Items -> Nat]
  BY ClockType DEF Typed, BoutTypeOK, StoreOK
<1>ReplayHit. CASE ReplayHit(s)
  BY <1>ReplayHit, <1>j DEF ReplayHit, Pressed, Goes, Jobs
<1>OpenRound. CASE OpenRound(s)
  BY <1>OpenRound, <1>j DEF OpenRound, Pressed, Goes, Jobs
<1>InsertHit. CASE InsertHit(s)
  BY <1>InsertHit, <1>j DEF InsertHit, Pressed, Goes, Jobs
<1>LoadRow. CASE LoadRow(s)
  BY <1>LoadRow, <1>j DEF LoadRow, Pressed, Goes, Jobs
<1>LoadSheet. CASE LoadSheet(s)
  BY <1>LoadSheet, <1>j DEF LoadSheet, Pressed, Goes, Jobs
<1>Context. CASE Context(s)
  BY <1>Context, <1>j DEF Context, Pressed, Goes, Jobs
<1>UncompleteBestEffort. CASE UncompleteBestEffort(s)
  BY <1>UncompleteBestEffort, <1>j DEF UncompleteBestEffort, Pressed, Goes, Jobs
<1>WriteScore. CASE WriteScore(s)
  BY <1>WriteScore, <1>j DEF WriteScore, Pressed, Goes, Jobs, Counted
<1>ResultChanged. CASE ResultChanged(s)
  BY <1>ResultChanged, <1>j DEF ResultChanged, Pressed, Goes, Jobs
<1>Tell. CASE Tell(s)
  BY <1>Tell, <1>j DEF Tell, Pressed, Goes, Jobs, Counted
<1>AutoEnd. CASE AutoEnd(s)
  <2> DEFINE end(timeUp) == EndResult(bout, timeUp)
             j(timeUp) == [job[s] EXCEPT !.own = TRUE, !.row = bout, !.seq = NextSeq,
                   !.at = Later(IF job[s].at = 0 THEN now ELSE job[s].at, LastAt),
                   !.plan = [@ EXCEPT !.does = end(timeUp).does, !.winner = end(timeUp).winner],
                   !.pc = IF end(timeUp).does = "refuse" THEN "tell" ELSE "insert"]
  <2>0. Goes(s, "tell") \/ \E timeUp \in BOOLEAN : job' = [job EXCEPT ![s] = j(timeUp)]
    BY <1>AutoEnd DEF AutoEnd
  <2>1. job'[s].own \/ job'[s].pc = "tell"
    <3>1. CASE Goes(s, "tell")
      BY <3>1, <1>j DEF Goes, Jobs
    <3>2. ASSUME NEW timeUp \in BOOLEAN, job' = [job EXCEPT ![s] = j(timeUp)] PROVE job'[s].own
      BY <3>2, <1>j DEF Jobs
    <3> QED BY <2>0, <3>1, <3>2
  <2> QED BY <2>1 DEF Pressed
<1>TakePress. CASE TakePress(s)
  BY <1>TakePress, <1>j DEF TakePress, Pressed, Goes, Jobs
<1>PressRow. CASE PressRow(s)
  BY <1>PressRow, <1>j DEF PressRow, Pressed, Goes, Jobs
<1>Judge. CASE Judge(s)
  <2>1. job[s].op = "press" /\ job[s].item \in Items
    BY <1>Judge, <1>j DEF Judge, At, Carries, PressSteps, Items
  <2>2. ASSUME ~Refused(job[s]) PROVE madeAt[job[s].item] > job[s].row.mark
    BY <2>1, <2>2, <1>j, <1>c DEF Refused, Jobs, Rows
  <2>3. CASE Refused(job[s]) \/ AlreadyTrue(ActionOf[job[s].item])
    BY <1>Judge, <1>j, <2>3 DEF Judge, Pressed, Goes, Taken, Jobs
  <2>4. CASE ~Refused(job[s]) /\ ~AlreadyTrue(ActionOf[job[s].item])
    <3>1. job'[s].op = "press" /\ job'[s].item = job[s].item /\ job'[s].row = job[s].row
      BY <1>Judge, <1>j, <2>1, <2>4 DEF Judge, Jobs
    <3> QED BY <2>2, <2>4, <3>1 DEF Pressed
  <2> QED BY <2>3, <2>4
<1>AskSheet. CASE AskSheet(s)
  <2>a. job[s].pc = "askSheet"
    BY <1>AskSheet DEF AskSheet, At
  <2>0. Goes(s, "row") \/ \E p, c : job' = [job EXCEPT ![s].plan = p, ![s].pc = c]
    BY <1>AskSheet, Zenon DEF AskSheet
  <2>1. /\ job'[s].op = job[s].op /\ job'[s].item = job[s].item
        /\ job'[s].row = job[s].row /\ job'[s].own = job[s].own
    <3>1. CASE Goes(s, "row")
      BY <3>1, <1>j DEF Goes, Jobs
    <3>2. CASE \E p, c : job' = [job EXCEPT ![s].plan = p, ![s].pc = c]
      <4>1. PICK p, c : job' = [job EXCEPT ![s].plan = p, ![s].pc = c]
        BY <3>2
      <4> QED BY <4>1, <1>j DEF Jobs
    <3> QED BY <2>0, <3>1, <3>2
  <2> QED BY <1>j, <2>a, <2>1 DEF Pressed
<1>InsertPress. CASE InsertPress(s)
  <2>1. /\ job[s].pc \in {"askSheet", "insert"}
        /\ job'[s].op = job[s].op /\ job'[s].item = job[s].item
        /\ job'[s].row = job[s].row /\ job'[s].own = job[s].own
    BY <1>InsertPress, <1>j DEF InsertPress, At, Goes, Jobs
  <2> QED BY <1>j, <2>1 DEF Pressed
<1>WriteInPlay. CASE WriteInPlay(s)
  BY <1>WriteInPlay, <1>j DEF WriteInPlay, Pressed, Goes, Jobs, Taken
<1>CompleteOnEnd. CASE CompleteOnEnd(s)
  BY <1>CompleteOnEnd, <1>j DEF CompleteOnEnd, Pressed, Goes, Jobs
<1>EndLostTo. CASE EndLostTo(s)
  BY <1>EndLostTo, <1>j DEF EndLostTo, Pressed, Goes, Jobs
<1>TakeBackRow. CASE TakeBackRow(s)
  BY <1>TakeBackRow, <1>j DEF TakeBackRow, Pressed, Goes, Jobs
<1>FinishSaved. CASE FinishSaved(s)
  <2>1. \/ Goes(s, Taken(job[s])) \/ Goes(s, "finishPlay")
        \/ \E p : \E c \in {"answer", "finishEnd"} :
              job' = [job EXCEPT ![s].row = bout, ![s].plan = p, ![s].pc = c]
    BY <1>FinishSaved, Zenon DEF FinishSaved
  <2>2. job'[s].pc \in {"count", "answer", "finishPlay", "finishEnd"}
    <3>1. CASE Goes(s, Taken(job[s])) \/ Goes(s, "finishPlay")
      BY <3>1, <1>j DEF Goes, Jobs, Taken
    <3>2. CASE ~(Goes(s, Taken(job[s])) \/ Goes(s, "finishPlay"))
      <4>1. PICK p : \E c \in {"answer", "finishEnd"} :
              job' = [job EXCEPT ![s].row = bout, ![s].plan = p, ![s].pc = c]
        BY <2>1, <3>2
      <4> QED BY <4>1, <1>j DEF Jobs
    <3> QED BY <3>1, <3>2
  <2> QED BY <2>2 DEF Pressed
<1>FinishEnd. CASE FinishEnd(s)
  BY <1>FinishEnd, <1>j DEF FinishEnd, Pressed, Goes, Jobs
<1>FinishPlay. CASE FinishPlay(s)
  BY <1>FinishPlay, <1>j DEF FinishPlay, Pressed, Goes, Jobs, Taken
<1>CountAtStart. CASE CountAtStart(s)
  BY <1>CountAtStart, <1>j DEF CountAtStart, Pressed, Goes, Jobs
<1>VerifyCount. CASE VerifyCount(s)
  BY <1>VerifyCount, <1>j DEF VerifyCount, Pressed, Goes, Jobs, NoJob
<1>FlipHit. CASE FlipHit(s)
  BY <1>FlipHit, <1>j DEF FlipHit, Pressed, Goes, Jobs
<1>GiveBack. CASE GiveBack(s)
  BY <1>GiveBack, <1>j DEF GiveBack, Pressed, Goes, Jobs
<1>VoidSheet. CASE VoidSheet(s)
  BY <1>VoidSheet, <1>j DEF VoidSheet, Pressed, Goes, Jobs
<1>DeskSeq. CASE DeskSeq(s)
  BY <1>DeskSeq, <1>j DEF DeskSeq, Pressed, Goes, Jobs
<1>DeskRow. CASE DeskRow(s)
  BY <1>DeskRow, <1>j DEF DeskRow, Pressed, Goes, Jobs
<1>DeskWrite. CASE DeskWrite(s)
  BY <1>DeskWrite, <1>j DEF DeskWrite, Pressed, Goes, Jobs
<1>Answer. CASE Answer(s)
  BY <1>Answer, <1>j DEF Answer, Pressed, Goes, Jobs, NoJob
<1> QED
  BY <1>ReplayHit, <1>OpenRound, <1>InsertHit, <1>LoadRow, <1>LoadSheet, <1>Context,
     <1>UncompleteBestEffort, <1>WriteScore, <1>ResultChanged, <1>Tell, <1>AutoEnd,
     <1>TakePress, <1>PressRow, <1>Judge, <1>AskSheet, <1>InsertPress, <1>WriteInPlay,
     <1>CompleteOnEnd, <1>EndLostTo, <1>TakeBackRow, <1>FinishSaved, <1>FinishEnd,
     <1>FinishPlay, <1>CountAtStart, <1>VerifyCount, <1>FlipHit, <1>GiveBack,
     <1>VoidSheet, <1>DeskSeq, <1>DeskRow, <1>DeskWrite, <1>Answer
     DEF Serve

LEMMA InitPressed == Init => PressedSince
  BY DEF Init, PressedSince, Pressed, NoJob

LEMMA NextPressed == Typed /\ PressedSince /\ [Next]_vars => PressedSince'
<1> SUFFICES ASSUME Typed, PressedSince, [Next]_vars PROVE PressedSince'
  OBVIOUS
<1>1. ASSUME NEW s \in Slots, Serve(s) PROVE PressedSince'
  BY <1>1, ServePressed, PressedStep
<1>2. ASSUME NEW s \in Slots,
             Sends(s) \/ Crash(s) \/ (\E h \in Hits : VoidExchange(s, h) \/ RevertVoid(s, h))
                      \/ Reopen(s) \/ ResetMatch(s)
      PROVE  PressedSince'
  BY <1>2, AsksOne DEF PressedSince, Pressed
<1>3. ASSUME NEW i \in Items, Make(i) PROVE PressedSince'
  <2>1. ASSUME NEW s \in Slots, job[s].op = "press", madeAt[job[s].item] > job[s].row.mark
        PROVE  madeAt'[job[s].item] = madeAt[job[s].item]
    <3>1. job[s].item \in Items /\ job[s].row.mark \in Nat /\ madeAt \in [Items -> Nat]
      BY <2>1 DEF Typed, BoutTypeOK, StoreOK, ItemOK, Carries, Jobs, Rows, Items
    <3> QED BY <1>3, <2>1, <3>1 DEF Make
  <2>2. job' = job
    BY <1>3 DEF Make
  <2> QED BY <2>1, <2>2 DEF PressedSince, Pressed
<1>4. CASE FightNext \/ UNCHANGED vars
  BY <1>4 DEF FightNext, vars, pad, PressedSince, Pressed
<1> QED BY <1>1, <1>2, <1>3, <1>4 DEF Next

(* Only completeOnEnd leaves the step that completes a bout.               *)
LEMMA OnlyCompletes ==
  ASSUME NEW s \in Slots, Serve(s), At(s, "endWrite")
  PROVE  CompleteOnEnd(s)
<1>ReplayHit. CASE ReplayHit(s)
  BY <1>ReplayHit DEF ReplayHit, At
<1>OpenRound. CASE OpenRound(s)
  BY <1>OpenRound DEF OpenRound, At
<1>InsertHit. CASE InsertHit(s)
  BY <1>InsertHit DEF InsertHit, At
<1>LoadRow. CASE LoadRow(s)
  BY <1>LoadRow DEF LoadRow, At
<1>LoadSheet. CASE LoadSheet(s)
  BY <1>LoadSheet DEF LoadSheet, At
<1>Context. CASE Context(s)
  BY <1>Context DEF Context, At
<1>UncompleteBestEffort. CASE UncompleteBestEffort(s)
  BY <1>UncompleteBestEffort DEF UncompleteBestEffort, At
<1>WriteScore. CASE WriteScore(s)
  BY <1>WriteScore DEF WriteScore, At
<1>ResultChanged. CASE ResultChanged(s)
  BY <1>ResultChanged DEF ResultChanged, At
<1>Tell. CASE Tell(s)
  BY <1>Tell DEF Tell, At
<1>AutoEnd. CASE AutoEnd(s)
  BY <1>AutoEnd DEF AutoEnd, At
<1>TakePress. CASE TakePress(s)
  BY <1>TakePress DEF TakePress, At
<1>PressRow. CASE PressRow(s)
  BY <1>PressRow DEF PressRow, At
<1>Judge. CASE Judge(s)
  BY <1>Judge DEF Judge, At
<1>AskSheet. CASE AskSheet(s)
  BY <1>AskSheet DEF AskSheet, At
<1>InsertPress. CASE InsertPress(s)
  BY <1>InsertPress DEF InsertPress, At
<1>WriteInPlay. CASE WriteInPlay(s)
  BY <1>WriteInPlay DEF WriteInPlay, At
<1>CompleteOnEnd. CASE CompleteOnEnd(s)
  BY <1>CompleteOnEnd DEF CompleteOnEnd, At
<1>EndLostTo. CASE EndLostTo(s)
  BY <1>EndLostTo DEF EndLostTo, At
<1>TakeBackRow. CASE TakeBackRow(s)
  BY <1>TakeBackRow DEF TakeBackRow, At
<1>FinishSaved. CASE FinishSaved(s)
  BY <1>FinishSaved DEF FinishSaved, At
<1>FinishEnd. CASE FinishEnd(s)
  BY <1>FinishEnd DEF FinishEnd, At
<1>FinishPlay. CASE FinishPlay(s)
  BY <1>FinishPlay DEF FinishPlay, At
<1>CountAtStart. CASE CountAtStart(s)
  BY <1>CountAtStart DEF CountAtStart, At
<1>VerifyCount. CASE VerifyCount(s)
  BY <1>VerifyCount DEF VerifyCount, At
<1>FlipHit. CASE FlipHit(s)
  BY <1>FlipHit DEF FlipHit, At
<1>GiveBack. CASE GiveBack(s)
  BY <1>GiveBack DEF GiveBack, At
<1>VoidSheet. CASE VoidSheet(s)
  BY <1>VoidSheet DEF VoidSheet, At
<1>DeskSeq. CASE DeskSeq(s)
  BY <1>DeskSeq DEF DeskSeq, At
<1>DeskRow. CASE DeskRow(s)
  BY <1>DeskRow DEF DeskRow, At
<1>DeskWrite. CASE DeskWrite(s)
  BY <1>DeskWrite DEF DeskWrite, At
<1>Answer. CASE Answer(s)
  BY <1>Answer DEF Answer, At
<1> QED
  BY <1>ReplayHit, <1>OpenRound, <1>InsertHit, <1>LoadRow, <1>LoadSheet, <1>Context,
     <1>UncompleteBestEffort, <1>WriteScore, <1>ResultChanged, <1>Tell, <1>AutoEnd,
     <1>TakePress, <1>PressRow, <1>Judge, <1>AskSheet, <1>InsertPress, <1>WriteInPlay,
     <1>CompleteOnEnd, <1>EndLostTo, <1>TakeBackRow, <1>FinishSaved, <1>FinishEnd,
     <1>FinishPlay, <1>CountAtStart, <1>VerifyCount, <1>FlipHit, <1>GiveBack,
     <1>VoidSheet, <1>DeskSeq, <1>DeskRow, <1>DeskWrite, <1>Answer
     DEF Serve

(* An End pressed before the bout was last put back in play never          *)
(* completes it, whatever its door had read, for any number of requests    *)
(* at once and any tablet (press-before-reopen.ts; completeOnEnd, S4b).    *)
THEOREM EndSpeaks == Spec => EndSpeaksForBout
<1> DEFINE Lands(s) ==
             At(s, "endWrite") /\ ~job[s].own /\ bout.status # "completed" /\ job'[s].pc = "tell"
           Body == \A s \in Slots : Lands(s) => madeAt[job[s].item] > bout.mark
<1>1. Typed /\ PressedSince /\ [Next]_vars => [Body]_vars
  <2> SUFFICES ASSUME Typed, PressedSince, Next, NEW s \in Slots, Lands(s)
               PROVE  madeAt[job[s].item] > bout.mark
    BY Zenon
  <2>j. job \in [Slots -> Jobs] /\ job[s].pc = "endWrite"
    BY DEF Typed, BoutTypeOK, At
  <2>1. PICK t \in Slots : Serve(t)
    <3>1. ASSUME job' = job PROVE FALSE
      BY <3>1, <2>j
    <3>2. ASSUME NEW t \in Slots,
                 Sends(t) \/ Crash(t) \/ (\E h \in Hits : VoidExchange(t, h) \/ RevertVoid(t, h))
                          \/ Reopen(t) \/ ResetMatch(t)
          PROVE  FALSE
      <4>1. t # s => job'[s] = job[s]
        BY <3>2, AsksOne
      <4>2. job'[t].pc # "tell"
        BY <3>2, AsksOne
      <4> QED BY <4>1, <4>2, <2>j
    <3> QED BY <3>1, <3>2 DEF Next, Make, FightNext
  <2>2. t = s
    <3>1. ASSUME t # s PROVE job'[s] = job[s]
      BY <2>1, <3>1, ServesOne
    <3> QED BY <3>1, <2>j
  <2>3. CompleteOnEnd(s)
    BY <2>1, <2>2, OnlyCompletes
  <2>4. Stands(job[s].row)
    <3>1. ASSUME Goes(s, "lost") PROVE FALSE
      BY <3>1, <2>j DEF Goes, Jobs
    <3> QED BY <2>3, <3>1 DEF CompleteOnEnd
  <2>5. madeAt[job[s].item] > job[s].row.mark
    BY <2>j DEF PressedSince, Pressed
  <2> QED BY <2>4, <2>5 DEF Stands
<1>2. Spec => [](Typed /\ PressedSince)
  BY InitTyped, NextTyped, InitPressed, NextPressed, PTL DEF Spec
<1>3. Spec => [][Body]_vars
  BY <1>1, <1>2, PTL DEF Spec
<1> QED BY <1>3 DEF EndSpeaksForBout

-----------------------------------------------------------------------------
(* A write keeps the winner off a bout in play unless it is a redecide of  *)
(* a bout that is no longer completed.                                     *)
LEMMA WinnerStep ==
  ASSUME Typed, NoWinnerInPlay, NEW s \in Slots, Serve(s),
         At(s, "write") /\ job[s].plan.does = "redecide" => bout.status = "completed"
  PROVE  NoWinnerInPlay'
<1>r. bout \in Rows
  BY DEF Typed, BoutTypeOK, StoreOK
<1>ReplayHit. CASE ReplayHit(s)
  BY <1>ReplayHit DEF ReplayHit, NoWinnerInPlay
<1>OpenRound. CASE OpenRound(s)
  BY <1>OpenRound DEF OpenRound, NoWinnerInPlay
<1>InsertHit. CASE InsertHit(s)
  BY <1>InsertHit DEF InsertHit, NoWinnerInPlay
<1>LoadRow. CASE LoadRow(s)
  BY <1>LoadRow DEF LoadRow, NoWinnerInPlay
<1>LoadSheet. CASE LoadSheet(s)
  BY <1>LoadSheet DEF LoadSheet, NoWinnerInPlay
<1>Context. CASE Context(s)
  BY <1>Context DEF Context, NoWinnerInPlay
<1>UncompleteBestEffort. CASE UncompleteBestEffort(s)
  BY <1>UncompleteBestEffort DEF UncompleteBestEffort, NoWinnerInPlay
<1>WriteScore. CASE WriteScore(s)
  BY <1>WriteScore, <1>r DEF WriteScore, NoWinnerInPlay, Rows, Scored
<1>ResultChanged. CASE ResultChanged(s)
  BY <1>ResultChanged DEF ResultChanged, NoWinnerInPlay
<1>Tell. CASE Tell(s)
  BY <1>Tell DEF Tell, NoWinnerInPlay
<1>AutoEnd. CASE AutoEnd(s)
  BY <1>AutoEnd DEF AutoEnd, NoWinnerInPlay
<1>TakePress. CASE TakePress(s)
  BY <1>TakePress DEF TakePress, NoWinnerInPlay
<1>PressRow. CASE PressRow(s)
  BY <1>PressRow DEF PressRow, NoWinnerInPlay
<1>Judge. CASE Judge(s)
  BY <1>Judge DEF Judge, NoWinnerInPlay
<1>AskSheet. CASE AskSheet(s)
  BY <1>AskSheet DEF AskSheet, NoWinnerInPlay
<1>InsertPress. CASE InsertPress(s)
  BY <1>InsertPress DEF InsertPress, NoWinnerInPlay
<1>WriteInPlay. CASE WriteInPlay(s)
  BY <1>WriteInPlay, <1>r DEF WriteInPlay, NoWinnerInPlay, Rows, StatusOf
<1>CompleteOnEnd. CASE CompleteOnEnd(s)
  BY <1>CompleteOnEnd, <1>r DEF CompleteOnEnd, NoWinnerInPlay, Rows, Ended
<1>EndLostTo. CASE EndLostTo(s)
  BY <1>EndLostTo DEF EndLostTo, NoWinnerInPlay
<1>TakeBackRow. CASE TakeBackRow(s)
  BY <1>TakeBackRow DEF TakeBackRow, NoWinnerInPlay
<1>FinishSaved. CASE FinishSaved(s)
  BY <1>FinishSaved DEF FinishSaved, NoWinnerInPlay
<1>FinishEnd. CASE FinishEnd(s)
  BY <1>FinishEnd, <1>r DEF FinishEnd, NoWinnerInPlay, Rows, Ended
<1>FinishPlay. CASE FinishPlay(s)
  BY <1>FinishPlay, <1>r DEF FinishPlay, NoWinnerInPlay, Rows, StatusOf
<1>CountAtStart. CASE CountAtStart(s)
  BY <1>CountAtStart DEF CountAtStart, NoWinnerInPlay
<1>VerifyCount. CASE VerifyCount(s)
  BY <1>VerifyCount DEF VerifyCount, NoWinnerInPlay
<1>FlipHit. CASE FlipHit(s)
  BY <1>FlipHit DEF FlipHit, NoWinnerInPlay
<1>GiveBack. CASE GiveBack(s)
  BY <1>GiveBack DEF GiveBack, NoWinnerInPlay
<1>VoidSheet. CASE VoidSheet(s)
  BY <1>VoidSheet DEF VoidSheet, NoWinnerInPlay
<1>DeskSeq. CASE DeskSeq(s)
  BY <1>DeskSeq DEF DeskSeq, NoWinnerInPlay
<1>DeskRow. CASE DeskRow(s)
  BY <1>DeskRow DEF DeskRow, NoWinnerInPlay
<1>DeskWrite. CASE DeskWrite(s)
  <2>1. bout' \in {bout, Unplayed, Reopened, [Reopened EXCEPT !.mark = MarkOf(job[s])]}
    BY <1>DeskWrite DEF DeskWrite
  <2>2. Unplayed.winner = "none" /\ Reopened.winner = "none"
        /\ [Reopened EXCEPT !.mark = MarkOf(job[s])].winner = "none"
    BY <1>r DEF Unplayed, Reopened, Rows
  <2> QED BY <2>1, <2>2 DEF NoWinnerInPlay
<1>Answer. CASE Answer(s)
  BY <1>Answer DEF Answer, NoWinnerInPlay
<1> QED
  BY <1>ReplayHit, <1>OpenRound, <1>InsertHit, <1>LoadRow, <1>LoadSheet, <1>Context,
     <1>UncompleteBestEffort, <1>WriteScore, <1>ResultChanged, <1>Tell, <1>AutoEnd,
     <1>TakePress, <1>PressRow, <1>Judge, <1>AskSheet, <1>InsertPress, <1>WriteInPlay,
     <1>CompleteOnEnd, <1>EndLostTo, <1>TakeBackRow, <1>FinishSaved, <1>FinishEnd,
     <1>FinishPlay, <1>CountAtStart, <1>VerifyCount, <1>FlipHit, <1>GiveBack,
     <1>VoidSheet, <1>DeskSeq, <1>DeskRow, <1>DeskWrite, <1>Answer
     DEF Serve

(* The steps that are not the server's leave the row alone.                *)
LEMMA RowStill ==
  ASSUME Typed, [Next]_vars, ~(\E s \in Slots : Serve(s))
  PROVE  bout' = bout
  BY AsksOne DEF Next, Make, FightNext, vars

(* Where the cap is out of reach, no plan redecides.                       *)
Undecided(j) ==
  /\ j.plan.red <= Cardinality(Hits) /\ j.plan.blue <= Cardinality(Hits)
  /\ j.plan.does # "redecide"

NoneRedecides == \A s \in Slots : Undecided(job[s])

LEMMA ServeUndecided ==
  ASSUME Typed, NoneRedecides, Cap > Cardinality(Hits), NEW s \in Slots, Serve(s)
  PROVE  Undecided(job'[s])
<1>j. job \in [Slots -> Jobs] /\ job[s] \in Jobs /\ Undecided(job[s])
  BY DEF Typed, BoutTypeOK, NoneRedecides
<1>n. Cardinality(Hits) \in Nat /\ Cap \in Nat /\ bout \in Rows
  BY BoutConstants, FS_CardinalityType DEF Typed, BoutTypeOK, StoreOK
<1>0. Undecided(NoJob)
  BY <1>n DEF Undecided, NoJob, NoPlan
<1>ReplayHit. CASE ReplayHit(s)
  BY <1>ReplayHit, <1>j DEF ReplayHit, Undecided, Goes, Jobs, Plans
<1>OpenRound. CASE OpenRound(s)
  BY <1>OpenRound, <1>j DEF OpenRound, Undecided, Goes, Jobs, Plans
<1>InsertHit. CASE InsertHit(s)
  BY <1>InsertHit, <1>j DEF InsertHit, Undecided, Goes, Jobs, Plans
<1>LoadRow. CASE LoadRow(s)
  BY <1>LoadRow, <1>j DEF LoadRow, Undecided, Goes, Jobs, Plans
<1>LoadSheet. CASE LoadSheet(s)
  <2>1. /\ job'[s].plan.red = PointsOn(sheet, "red") /\ job'[s].plan.blue = PointsOn(sheet, "blue")
        /\ job'[s].plan.does \in {"complete", "score"}
    BY <1>LoadSheet, <1>j DEF LoadSheet, Jobs
  <2> QED BY <2>1, PointsType DEF Undecided
<1>Context. CASE Context(s)
  <2> DEFINE out == Correction(job[s].row, job[s].plan.red, job[s].plan.blue, fed.fought)
  <2>1. ~Over(job[s].plan.red, job[s].plan.blue)
    BY <1>j, <1>n DEF Undecided, Over, Jobs, Plans
  <2>2. out # "redecide"
    BY <2>1, CorrectionType
  <2>3. /\ job'[s].plan.red = job[s].plan.red /\ job'[s].plan.blue = job[s].plan.blue
        /\ job'[s].plan.does \in {out, "score"}
    <3> HIDE DEF out
    <3>1. job' = [job EXCEPT ![s].plan.does = IF out = "refuse" THEN "score" ELSE out,
                             ![s].pc = IF out = "reopen" THEN "undo" ELSE "write"]
      BY <1>Context DEF Context, out
    <3> QED BY <3>1, <1>j DEF Jobs, Plans
  <2> QED BY <1>j, <2>2, <2>3 DEF Undecided
<1>UncompleteBestEffort. CASE UncompleteBestEffort(s)
  BY <1>UncompleteBestEffort, <1>j DEF UncompleteBestEffort, Undecided, Goes, Jobs, Plans
<1>WriteScore. CASE WriteScore(s)
  BY <1>WriteScore, <1>j DEF WriteScore, Undecided, Goes, Jobs, Plans
<1>ResultChanged. CASE ResultChanged(s)
  BY <1>ResultChanged, <1>j DEF ResultChanged, Undecided, Goes, Jobs, Plans
<1>Tell. CASE Tell(s)
  BY <1>Tell, <1>j DEF Tell, Undecided, Goes, Jobs, Plans
<1>AutoEnd. CASE AutoEnd(s)
  <2>1. CASE Goes(s, "tell")
    BY <2>1, <1>j DEF Goes, Undecided, Jobs
  <2>2. CASE ~(Goes(s, "tell"))
    <3> DEFINE end(timeUp) == EndResult(bout, timeUp)
               q(timeUp) == [job[s].plan EXCEPT !.does = end(timeUp).does, !.winner = end(timeUp).winner]
               j(timeUp) == [job[s] EXCEPT !.own = TRUE, !.row = bout, !.seq = NextSeq,
                     !.at = Later(IF job[s].at = 0 THEN now ELSE job[s].at, LastAt),
                     !.plan = q(timeUp),
                     !.pc = IF end(timeUp).does = "refuse" THEN "tell" ELSE "insert"]
    <3>0. PICK timeUp \in BOOLEAN : job' = [job EXCEPT ![s] = j(timeUp)]
      BY <1>AutoEnd, <2>2 DEF AutoEnd
    <3>1. job'[s].plan = q(timeUp)
      <4> HIDE DEF q, end
      <4> QED BY <3>0, <1>j DEF Jobs
    <3>2. EndResult(bout, timeUp).does # "redecide"
      BY <1>j, <1>n, EndType DEF Jobs
    <3> QED BY <3>1, <3>2, <1>j DEF Undecided, Jobs, Plans
  <2> QED BY <2>1, <2>2
<1>TakePress. CASE TakePress(s)
  BY <1>TakePress, <1>j DEF TakePress, Undecided, Goes, Jobs, Plans
<1>PressRow. CASE PressRow(s)
  BY <1>PressRow, <1>j DEF PressRow, Undecided, Goes, Jobs, Plans
<1>Judge. CASE Judge(s)
  BY <1>Judge, <1>j DEF Judge, Undecided, Goes, Jobs, Plans
<1>AskSheet. CASE AskSheet(s)
  <2>1. CASE Goes(s, "row")
    BY <2>1, <1>j DEF Goes, Undecided, Jobs
  <2>2. CASE ~(Goes(s, "row"))
    <3> DEFINE end(timeUp) == EndResult(job[s].row, timeUp)
               q(timeUp) == [job[s].plan EXCEPT !.does = end(timeUp).does, !.winner = end(timeUp).winner]
               j(timeUp) == [job[s] EXCEPT !.plan = q(timeUp),
                     !.pc = IF end(timeUp).does = "refuse" THEN "answer" ELSE "insert"]
    <3>0. PICK timeUp \in BOOLEAN : job' = [job EXCEPT ![s] = j(timeUp)]
      BY <1>AskSheet, <2>2 DEF AskSheet
    <3>1. job'[s].plan = q(timeUp)
      <4> HIDE DEF q, end
      <4> QED BY <3>0, <1>j DEF Jobs
    <3>2. EndResult(job[s].row, timeUp).does # "redecide"
      BY <1>j, <1>n, EndType DEF Jobs
    <3> QED BY <3>1, <3>2, <1>j DEF Undecided, Jobs, Plans
  <2> QED BY <2>1, <2>2
<1>InsertPress. CASE InsertPress(s)
  BY <1>InsertPress, <1>j DEF InsertPress, Undecided, Goes, Jobs, Plans
<1>WriteInPlay. CASE WriteInPlay(s)
  BY <1>WriteInPlay, <1>j DEF WriteInPlay, Undecided, Goes, Jobs, Plans
<1>CompleteOnEnd. CASE CompleteOnEnd(s)
  BY <1>CompleteOnEnd, <1>j DEF CompleteOnEnd, Undecided, Goes, Jobs, Plans
<1>EndLostTo. CASE EndLostTo(s)
  BY <1>EndLostTo, <1>j DEF EndLostTo, Undecided, Goes, Jobs, Plans
<1>TakeBackRow. CASE TakeBackRow(s)
  BY <1>TakeBackRow, <1>j DEF TakeBackRow, Undecided, Goes, Jobs, Plans
<1>FinishSaved. CASE FinishSaved(s)
  <2>1. CASE Goes(s, Taken(job[s])) \/ Goes(s, "finishPlay")
    BY <2>1, <1>j DEF Goes, Undecided, Jobs
  <2>2. CASE ~(Goes(s, Taken(job[s])) \/ Goes(s, "finishPlay"))
    <3> DEFINE end(timeUp) == EndResult(bout, timeUp)
               q(timeUp) == [job[s].plan EXCEPT !.does = end(timeUp).does, !.winner = end(timeUp).winner]
               j(timeUp) == [job[s] EXCEPT !.row = bout, !.plan = q(timeUp),
                     !.pc = IF bout.status = "completed" \/ end(timeUp).does = "refuse"
                            THEN "answer" ELSE "finishEnd"]
    <3>0. PICK timeUp \in BOOLEAN : job' = [job EXCEPT ![s] = j(timeUp)]
      BY <1>FinishSaved, <2>2 DEF FinishSaved
    <3>1. job'[s].plan = q(timeUp)
      <4> HIDE DEF q, end
      <4> QED BY <3>0, <1>j DEF Jobs
    <3>2. EndResult(bout, timeUp).does # "redecide"
      BY <1>j, <1>n, EndType DEF Jobs
    <3> QED BY <3>1, <3>2, <1>j DEF Undecided, Jobs, Plans
  <2> QED BY <2>1, <2>2
<1>FinishEnd. CASE FinishEnd(s)
  BY <1>FinishEnd, <1>j DEF FinishEnd, Undecided, Goes, Jobs, Plans
<1>FinishPlay. CASE FinishPlay(s)
  BY <1>FinishPlay, <1>j DEF FinishPlay, Undecided, Goes, Jobs, Plans
<1>CountAtStart. CASE CountAtStart(s)
  BY <1>CountAtStart, <1>j DEF CountAtStart, Undecided, Goes, Jobs, Plans
<1>VerifyCount. CASE VerifyCount(s)
  BY <1>VerifyCount, <1>j, <1>0 DEF VerifyCount, Undecided, Jobs
<1>FlipHit. CASE FlipHit(s)
  BY <1>FlipHit, <1>j DEF FlipHit, Undecided, Goes, Jobs, Plans
<1>GiveBack. CASE GiveBack(s)
  BY <1>GiveBack, <1>j DEF GiveBack, Undecided, Goes, Jobs, Plans
<1>VoidSheet. CASE VoidSheet(s)
  BY <1>VoidSheet, <1>j DEF VoidSheet, Undecided, Goes, Jobs, Plans
<1>DeskSeq. CASE DeskSeq(s)
  BY <1>DeskSeq, <1>j DEF DeskSeq, Undecided, Goes, Jobs, Plans
<1>DeskRow. CASE DeskRow(s)
  BY <1>DeskRow, <1>j DEF DeskRow, Undecided, Goes, Jobs, Plans
<1>DeskWrite. CASE DeskWrite(s)
  BY <1>DeskWrite, <1>j DEF DeskWrite, Undecided, Goes, Jobs, Plans
<1>Answer. CASE Answer(s)
  BY <1>Answer, <1>j, <1>0 DEF Answer, Undecided, Jobs
<1> QED
  BY <1>ReplayHit, <1>OpenRound, <1>InsertHit, <1>LoadRow, <1>LoadSheet, <1>Context,
     <1>UncompleteBestEffort, <1>WriteScore, <1>ResultChanged, <1>Tell, <1>AutoEnd,
     <1>TakePress, <1>PressRow, <1>Judge, <1>AskSheet, <1>InsertPress, <1>WriteInPlay,
     <1>CompleteOnEnd, <1>EndLostTo, <1>TakeBackRow, <1>FinishSaved, <1>FinishEnd,
     <1>FinishPlay, <1>CountAtStart, <1>VerifyCount, <1>FlipHit, <1>GiveBack,
     <1>VoidSheet, <1>DeskSeq, <1>DeskRow, <1>DeskWrite, <1>Answer
     DEF Serve

LEMMA NextUndecided ==
  ASSUME Cap > Cardinality(Hits)
  PROVE  Typed /\ NoneRedecides /\ NoWinnerInPlay /\ [Next]_vars
           => NoneRedecides' /\ NoWinnerInPlay'
<1> SUFFICES ASSUME Typed, NoneRedecides, NoWinnerInPlay, [Next]_vars
             PROVE  NoneRedecides' /\ NoWinnerInPlay'
  OBVIOUS
<1>0. Undecided(NoJob) /\ job \in [Slots -> Jobs]
  BY BoutConstants, FS_CardinalityType DEF Undecided, NoJob, NoPlan, Typed, BoutTypeOK
<1>1. ASSUME NEW s \in Slots, Serve(s) PROVE NoneRedecides' /\ NoWinnerInPlay'
  <2>1. NoneRedecides'
    BY <1>1, ServesOne, ServeUndecided DEF NoneRedecides
  <2>2. NoWinnerInPlay'
    BY <1>1, WinnerStep DEF NoneRedecides, Undecided
  <2> QED BY <2>1, <2>2
<1>2. CASE ~(\E s \in Slots : Serve(s))
  <2>1. NoWinnerInPlay'
    BY <1>2, RowStill DEF NoWinnerInPlay
  <2>2. CASE job' = job
    BY <2>1, <2>2 DEF NoneRedecides
  <2>3. ASSUME NEW s \in Slots,
               Sends(s) \/ Crash(s) \/ (\E h \in Hits : VoidExchange(s, h) \/ RevertVoid(s, h))
                        \/ Reopen(s) \/ ResetMatch(s)
        PROVE  NoneRedecides'
    <3>1. job'[s].plan = NoPlan
      <4>1. CASE Sends(s)
        BY <4>1, <1>0, SendSets
      <4>2. CASE Crash(s)
        BY <4>2, <1>0 DEF Crash, NoJob
      <4>3. CASE \E h \in Hits : VoidExchange(s, h) \/ RevertVoid(s, h)
        BY <4>3, <1>0, CorrectSets
      <4>4. CASE Reopen(s) \/ ResetMatch(s)
        BY <4>4, <1>0 DEF Reopen, ResetMatch, AsksBack, NoJob
      <4> QED BY <2>3, <4>1, <4>2, <4>3, <4>4
    <3>2. Undecided(job'[s])
      BY <1>0, <3>1 DEF Undecided, NoJob
    <3> QED BY <2>3, <3>2, AsksOne DEF NoneRedecides
  <2> QED BY <1>2, <2>1, <2>2, <2>3 DEF Next, Make, FightNext, vars
<1> QED BY <1>1, <1>2

(* A bout no cap can end never holds a winner while it is in play, for any *)
(* number of requests at once, whatever dies (ruling 331,                  *)
(* reopen-match-columns.ts:17): only the redecide of recomputeFromSheet,   *)
(* which needs a cap reached, can write one over a Reopen.                 *)
THEOREM NoWinnerWithoutCap == Cap > Cardinality(Hits) => (Spec => []NoWinnerInPlay)
<1> SUFFICES ASSUME Cap > Cardinality(Hits) PROVE Spec => []NoWinnerInPlay
  OBVIOUS
<1>1. Init => NoneRedecides /\ NoWinnerInPlay
  BY BoutConstants, FS_CardinalityType
     DEF Init, NoneRedecides, Undecided, NoJob, NoPlan, NoWinnerInPlay, Unplayed
<1>2. Spec => []Typed
  BY InitTyped, NextTyped, PTL DEF Spec
<1>3. Typed /\ NoneRedecides /\ NoWinnerInPlay /\ [Next]_vars => NoneRedecides' /\ NoWinnerInPlay'
  BY NextUndecided
<1> QED BY <1>1, <1>2, <1>3, PTL DEF Spec

-----------------------------------------------------------------------------
(* One request in hand at a time: the row a recompute read is the row it   *)
(* writes, and what takes a bout out of `completed` has had its side given *)
(* back.                                                                   *)
DeskSteps == {"voidSheet", "deskSeq", "deskRow", "deskWrite"}

Alone(j) ==
  /\ j.pc \in {"sheet", "context", "undo", "write"} => j.row = bout
  /\ j.pc = "context" => bout.status = "completed"
  /\ j.pc = "undo" => j.plan.does = "reopen"
  /\ j.pc = "write" /\ j.plan.does = "redecide" => bout.status = "completed"
  /\ j.pc = "write" /\ j.plan.does = "reopen" => fed.side = "none"
  /\ j.pc \in DeskSteps => fed.side = "none"

OneKept == NoWinnerInPlay /\ FedFromCompleted /\ \A s \in Slots : Alone(job[s])

LEMMA ServeFed ==
  ASSUME Typed, NoWinnerInPlay, FedFromCompleted, NEW s \in Slots, Alone(job[s]), Serve(s)
  PROVE  FedFromCompleted'
<1>r. bout \in Rows /\ fed \in [side : Sides \cup {"none"}, fought : BOOLEAN]
  BY DEF Typed, BoutTypeOK, StoreOK
<1>ReplayHit. CASE ReplayHit(s)
  BY <1>ReplayHit DEF ReplayHit, FedFromCompleted
<1>OpenRound. CASE OpenRound(s)
  BY <1>OpenRound DEF OpenRound, FedFromCompleted
<1>InsertHit. CASE InsertHit(s)
  BY <1>InsertHit DEF InsertHit, FedFromCompleted
<1>LoadRow. CASE LoadRow(s)
  BY <1>LoadRow DEF LoadRow, FedFromCompleted
<1>LoadSheet. CASE LoadSheet(s)
  BY <1>LoadSheet DEF LoadSheet, FedFromCompleted
<1>Context. CASE Context(s)
  BY <1>Context DEF Context, FedFromCompleted
<1>UncompleteBestEffort. CASE UncompleteBestEffort(s)
  BY <1>UncompleteBestEffort, <1>r DEF UncompleteBestEffort, FedFromCompleted, Rows, NotFed
<1>WriteScore. CASE WriteScore(s)
  BY <1>WriteScore, <1>r DEF WriteScore, FedFromCompleted, Rows, Scored, Alone, At
<1>ResultChanged. CASE ResultChanged(s)
  BY <1>ResultChanged, <1>r DEF ResultChanged, FedFromCompleted, Rows, At
<1>Tell. CASE Tell(s)
  BY <1>Tell, <1>r DEF Tell, FedFromCompleted, Rows, NoWinnerInPlay
<1>AutoEnd. CASE AutoEnd(s)
  BY <1>AutoEnd DEF AutoEnd, FedFromCompleted
<1>TakePress. CASE TakePress(s)
  BY <1>TakePress DEF TakePress, FedFromCompleted
<1>PressRow. CASE PressRow(s)
  BY <1>PressRow DEF PressRow, FedFromCompleted
<1>Judge. CASE Judge(s)
  BY <1>Judge DEF Judge, FedFromCompleted
<1>AskSheet. CASE AskSheet(s)
  BY <1>AskSheet DEF AskSheet, FedFromCompleted
<1>InsertPress. CASE InsertPress(s)
  BY <1>InsertPress DEF InsertPress, FedFromCompleted
<1>WriteInPlay. CASE WriteInPlay(s)
  BY <1>WriteInPlay, <1>r DEF WriteInPlay, FedFromCompleted, Rows, StatusOf
<1>CompleteOnEnd. CASE CompleteOnEnd(s)
  BY <1>CompleteOnEnd, <1>r DEF CompleteOnEnd, FedFromCompleted, Rows, Ended
<1>EndLostTo. CASE EndLostTo(s)
  BY <1>EndLostTo DEF EndLostTo, FedFromCompleted
<1>TakeBackRow. CASE TakeBackRow(s)
  BY <1>TakeBackRow DEF TakeBackRow, FedFromCompleted
<1>FinishSaved. CASE FinishSaved(s)
  BY <1>FinishSaved DEF FinishSaved, FedFromCompleted
<1>FinishEnd. CASE FinishEnd(s)
  BY <1>FinishEnd, <1>r DEF FinishEnd, FedFromCompleted, Rows, Ended
<1>FinishPlay. CASE FinishPlay(s)
  BY <1>FinishPlay, <1>r DEF FinishPlay, FedFromCompleted, Rows, StatusOf
<1>CountAtStart. CASE CountAtStart(s)
  BY <1>CountAtStart DEF CountAtStart, FedFromCompleted
<1>VerifyCount. CASE VerifyCount(s)
  BY <1>VerifyCount DEF VerifyCount, FedFromCompleted
<1>FlipHit. CASE FlipHit(s)
  BY <1>FlipHit DEF FlipHit, FedFromCompleted
<1>GiveBack. CASE GiveBack(s)
  BY <1>GiveBack, <1>r DEF GiveBack, FedFromCompleted, Rows, NotFed
<1>VoidSheet. CASE VoidSheet(s)
  BY <1>VoidSheet DEF VoidSheet, FedFromCompleted
<1>DeskSeq. CASE DeskSeq(s)
  BY <1>DeskSeq DEF DeskSeq, FedFromCompleted
<1>DeskRow. CASE DeskRow(s)
  BY <1>DeskRow DEF DeskRow, FedFromCompleted
<1>DeskWrite. CASE DeskWrite(s)
  BY <1>DeskWrite, <1>r DEF DeskWrite, FedFromCompleted, Rows, Alone, At, DeskSteps
<1>Answer. CASE Answer(s)
  BY <1>Answer DEF Answer, FedFromCompleted
<1> QED
  BY <1>ReplayHit, <1>OpenRound, <1>InsertHit, <1>LoadRow, <1>LoadSheet, <1>Context,
     <1>UncompleteBestEffort, <1>WriteScore, <1>ResultChanged, <1>Tell, <1>AutoEnd,
     <1>TakePress, <1>PressRow, <1>Judge, <1>AskSheet, <1>InsertPress, <1>WriteInPlay,
     <1>CompleteOnEnd, <1>EndLostTo, <1>TakeBackRow, <1>FinishSaved, <1>FinishEnd,
     <1>FinishPlay, <1>CountAtStart, <1>VerifyCount, <1>FlipHit, <1>GiveBack,
     <1>VoidSheet, <1>DeskSeq, <1>DeskRow, <1>DeskWrite, <1>Answer
     DEF Serve

LEMMA ServeAlone ==
  ASSUME Typed, NoWinnerInPlay, FedFromCompleted, NEW s \in Slots, Alone(job[s]), Serve(s)
  PROVE  Alone(job[s])'
<1>j. job \in [Slots -> Jobs] /\ job[s] \in Jobs
  BY DEF Typed, BoutTypeOK
<1>q. ASSUME job'[s].pc \notin {"sheet", "context", "undo", "write"} \cup DeskSteps
      PROVE  Alone(job[s])'
  BY <1>q DEF Alone, DeskSteps
<1>ReplayHit. CASE ReplayHit(s)
  BY <1>ReplayHit, <1>j, <1>q DEF ReplayHit, Goes, Jobs, DeskSteps
<1>OpenRound. CASE OpenRound(s)
  BY <1>OpenRound, <1>j, <1>q DEF OpenRound, Goes, Jobs, DeskSteps
<1>InsertHit. CASE InsertHit(s)
  BY <1>InsertHit, <1>j, <1>q DEF InsertHit, Goes, Jobs, DeskSteps
<1>LoadRow. CASE LoadRow(s)
  <2>1. job'[s].pc = "sheet" /\ job'[s].row = bout /\ bout' = bout
    BY <1>LoadRow, <1>j DEF LoadRow, Jobs
  <2> QED BY <2>1 DEF Alone, DeskSteps
<1>LoadSheet. CASE LoadSheet(s)
  <2>1. /\ job'[s].plan.does \in {"complete", "score"}
        /\ job'[s].pc = IF job[s].row.status = "completed" THEN "context" ELSE "write"
        /\ job'[s].row = job[s].row /\ bout' = bout
    BY <1>LoadSheet, <1>j DEF LoadSheet, Jobs
  <2>2. job[s].row = bout
    BY <1>LoadSheet DEF LoadSheet, At, Alone
  <2> QED BY <2>1, <2>2 DEF Alone, DeskSteps
<1>Context. CASE Context(s)
  <2> DEFINE out == Correction(job[s].row, job[s].plan.red, job[s].plan.blue, fed.fought)
             does == IF out = "refuse" THEN "score" ELSE out
  <2>1. job' = [job EXCEPT ![s].plan.does = does, ![s].pc = IF out = "reopen" THEN "undo" ELSE "write"]
    BY <1>Context DEF Context
  <2>2. job[s].row = bout /\ bout.status = "completed" /\ bout' = bout
    BY <1>Context DEF Context, At, Alone
  <2>3. (out = "reopen") <=> (does = "reopen")
    OBVIOUS
  <2> HIDE DEF out, does
  <2>4. /\ job'[s].plan.does = does /\ job'[s].row = job[s].row
        /\ job'[s].pc = IF out = "reopen" THEN "undo" ELSE "write"
    BY <2>1, <1>j DEF Jobs, Plans
  <2> QED BY <2>2, <2>3, <2>4 DEF Alone, DeskSteps
<1>UncompleteBestEffort. CASE UncompleteBestEffort(s)
  <2>1. job[s].row = bout /\ bout' = bout
    BY <1>UncompleteBestEffort DEF UncompleteBestEffort, At, Alone
  <2>2. CASE fed.fought
    <3>1. job'[s].plan.does = "score" /\ job'[s].row = job[s].row /\ job'[s].pc = "write"
      BY <1>UncompleteBestEffort, <2>2, <1>j DEF UncompleteBestEffort, Jobs, Plans
    <3> QED BY <2>1, <3>1 DEF Alone, DeskSteps
  <2>3. CASE ~fed.fought
    <3>1. /\ fed'.side = "none" /\ job'[s].row = job[s].row /\ job'[s].pc = "write"
          /\ job'[s].plan = job[s].plan
      BY <1>UncompleteBestEffort, <2>3, <1>j DEF UncompleteBestEffort, Goes, NotFed, Jobs
    <3>2. job[s].plan.does = "reopen"
      BY <1>UncompleteBestEffort DEF UncompleteBestEffort, At, Alone
    <3> QED BY <2>1, <3>1, <3>2 DEF Alone, DeskSteps
  <2> QED BY <2>2, <2>3
<1>WriteScore. CASE WriteScore(s)
  BY <1>WriteScore, <1>j, <1>q DEF WriteScore, Goes, Jobs, DeskSteps, Counted
<1>ResultChanged. CASE ResultChanged(s)
  BY <1>ResultChanged, <1>j, <1>q DEF ResultChanged, Goes, Jobs, DeskSteps
<1>Tell. CASE Tell(s)
  BY <1>Tell, <1>j, <1>q DEF Tell, Goes, Jobs, DeskSteps, Counted
<1>AutoEnd. CASE AutoEnd(s)
  <2> DEFINE end(timeUp) == EndResult(bout, timeUp)
             pc(timeUp) == IF end(timeUp).does = "refuse" THEN "tell" ELSE "insert"
             j(timeUp) == [job[s] EXCEPT !.own = TRUE, !.row = bout, !.seq = NextSeq,
                   !.at = Later(IF job[s].at = 0 THEN now ELSE job[s].at, LastAt),
                   !.plan = [@ EXCEPT !.does = end(timeUp).does, !.winner = end(timeUp).winner],
                   !.pc = pc(timeUp)]
  <2>1. Goes(s, "tell") \/ \E timeUp \in BOOLEAN : job' = [job EXCEPT ![s] = j(timeUp)]
    BY <1>AutoEnd DEF AutoEnd
  <2>2. CASE Goes(s, "tell")
    BY <2>2, <1>j, <1>q DEF Goes, Jobs, DeskSteps
  <2>3. ASSUME NEW timeUp \in BOOLEAN, job' = [job EXCEPT ![s] = j(timeUp)] PROVE Alone(job[s])'
    <3>1. pc(timeUp) \in {"tell", "insert"}
      OBVIOUS
    <3> HIDE DEF pc, end
    <3>2. job'[s].pc = pc(timeUp)
      BY <2>3, <1>j DEF Jobs
    <3> QED BY <3>1, <3>2, <1>q DEF DeskSteps
  <2> QED BY <2>1, <2>2, <2>3
<1>TakePress. CASE TakePress(s)
  BY <1>TakePress, <1>j, <1>q DEF TakePress, Goes, Jobs, DeskSteps
<1>PressRow. CASE PressRow(s)
  BY <1>PressRow, <1>j, <1>q DEF PressRow, Goes, Jobs, DeskSteps
<1>Judge. CASE Judge(s)
  BY <1>Judge, <1>j, <1>q DEF Judge, Goes, Jobs, DeskSteps, Taken
<1>AskSheet. CASE AskSheet(s)
  <2>1. Goes(s, "row") \/ \E p : \E c \in {"answer", "insert"} :
          job' = [job EXCEPT ![s].plan = p, ![s].pc = c]
    BY <1>AskSheet, Zenon DEF AskSheet
  <2>2. CASE Goes(s, "row")
    BY <2>2, <1>j, <1>q DEF Goes, Jobs, DeskSteps
  <2>3. CASE ~Goes(s, "row")
    <3>1. PICK p : \E c \in {"answer", "insert"} : job' = [job EXCEPT ![s].plan = p, ![s].pc = c]
      BY <2>1, <2>3
    <3> QED BY <3>1, <1>j, <1>q DEF Jobs, DeskSteps
  <2> QED BY <2>2, <2>3
<1>InsertPress. CASE InsertPress(s)
  BY <1>InsertPress, <1>j, <1>q DEF InsertPress, Goes, Jobs, DeskSteps
<1>WriteInPlay. CASE WriteInPlay(s)
  BY <1>WriteInPlay, <1>j, <1>q DEF WriteInPlay, Goes, Jobs, DeskSteps, Taken
<1>CompleteOnEnd. CASE CompleteOnEnd(s)
  BY <1>CompleteOnEnd, <1>j, <1>q DEF CompleteOnEnd, Goes, Jobs, DeskSteps
<1>EndLostTo. CASE EndLostTo(s)
  BY <1>EndLostTo, <1>j, <1>q DEF EndLostTo, Goes, Jobs, DeskSteps
<1>TakeBackRow. CASE TakeBackRow(s)
  BY <1>TakeBackRow, <1>j, <1>q DEF TakeBackRow, Goes, Jobs, DeskSteps
<1>FinishSaved. CASE FinishSaved(s)
  <2>1. \/ Goes(s, Taken(job[s])) \/ Goes(s, "finishPlay")
        \/ \E p : \E c \in {"answer", "finishEnd"} :
              job' = [job EXCEPT ![s].row = bout, ![s].plan = p, ![s].pc = c]
    BY <1>FinishSaved, Zenon DEF FinishSaved
  <2>2. CASE Goes(s, Taken(job[s])) \/ Goes(s, "finishPlay")
    BY <2>2, <1>j, <1>q DEF Goes, Jobs, DeskSteps, Taken
  <2>3. CASE ~(Goes(s, Taken(job[s])) \/ Goes(s, "finishPlay"))
    <3>1. PICK p : \E c \in {"answer", "finishEnd"} :
            job' = [job EXCEPT ![s].row = bout, ![s].plan = p, ![s].pc = c]
      BY <2>1, <2>3
    <3> QED BY <3>1, <1>j, <1>q DEF Jobs, DeskSteps
  <2> QED BY <2>2, <2>3
<1>FinishEnd. CASE FinishEnd(s)
  BY <1>FinishEnd, <1>j, <1>q DEF FinishEnd, Goes, Jobs, DeskSteps
<1>FinishPlay. CASE FinishPlay(s)
  BY <1>FinishPlay, <1>j, <1>q DEF FinishPlay, Goes, Jobs, DeskSteps, Taken
<1>CountAtStart. CASE CountAtStart(s)
  BY <1>CountAtStart, <1>j, <1>q DEF CountAtStart, Goes, Jobs, DeskSteps
<1>VerifyCount. CASE VerifyCount(s)
  BY <1>VerifyCount, <1>j, <1>q DEF VerifyCount, Goes, Jobs, DeskSteps, NoJob
<1>FlipHit. CASE FlipHit(s)
  BY <1>FlipHit, <1>j, <1>q DEF FlipHit, Goes, Jobs, DeskSteps
<1>GiveBack. CASE GiveBack(s)
  <2>1. CASE Goes(s, "answer")
    BY <2>1, <1>j, <1>q DEF Goes, Jobs, DeskSteps
  <2>2. CASE ~Goes(s, "answer")
    <3>1. fed'.side = "none" /\ job'[s].pc \in {"voidSheet", "deskSeq"}
      BY <1>GiveBack, <2>2, <1>j DEF GiveBack, Goes, NotFed, Jobs
    <3> QED BY <3>1 DEF Alone, DeskSteps
  <2> QED BY <2>1, <2>2
<1>VoidSheet. CASE VoidSheet(s)
  <2>1. fed' = fed /\ job'[s].pc \in {"answer", "deskSeq", "deskRow", "deskWrite"}
    BY <1>VoidSheet, <1>j DEF VoidSheet, Goes, Jobs
  <2>2. fed.side = "none"
    BY <1>VoidSheet DEF VoidSheet, At, Alone, DeskSteps
  <2> QED BY <2>1, <2>2 DEF Alone
<1>DeskSeq. CASE DeskSeq(s)
  <2>1. fed' = fed /\ job'[s].pc \in {"answer", "deskSeq", "deskRow", "deskWrite"}
    BY <1>DeskSeq, <1>j DEF DeskSeq, Goes, Jobs
  <2>2. fed.side = "none"
    BY <1>DeskSeq DEF DeskSeq, At, Alone, DeskSteps
  <2> QED BY <2>1, <2>2 DEF Alone
<1>DeskRow. CASE DeskRow(s)
  <2>1. fed' = fed /\ job'[s].pc \in {"answer", "deskSeq", "deskRow", "deskWrite"}
    BY <1>DeskRow, <1>j DEF DeskRow, Goes, Jobs
  <2>2. fed.side = "none"
    BY <1>DeskRow DEF DeskRow, At, Alone, DeskSteps
  <2> QED BY <2>1, <2>2 DEF Alone
<1>DeskWrite. CASE DeskWrite(s)
  BY <1>DeskWrite, <1>j, <1>q DEF DeskWrite, Goes, Jobs, DeskSteps
<1>Answer. CASE Answer(s)
  BY <1>Answer, <1>j, <1>q DEF Answer, Goes, Jobs, DeskSteps, NoJob
<1> QED
  BY <1>ReplayHit, <1>OpenRound, <1>InsertHit, <1>LoadRow, <1>LoadSheet, <1>Context,
     <1>UncompleteBestEffort, <1>WriteScore, <1>ResultChanged, <1>Tell, <1>AutoEnd,
     <1>TakePress, <1>PressRow, <1>Judge, <1>AskSheet, <1>InsertPress, <1>WriteInPlay,
     <1>CompleteOnEnd, <1>EndLostTo, <1>TakeBackRow, <1>FinishSaved, <1>FinishEnd,
     <1>FinishPlay, <1>CountAtStart, <1>VerifyCount, <1>FlipHit, <1>GiveBack,
     <1>VoidSheet, <1>DeskSeq, <1>DeskRow, <1>DeskWrite, <1>Answer
     DEF Serve

LEMMA NextAlone ==
  ASSUME NEW one, Slots = {one}
  PROVE  Typed /\ OneKept /\ [Next]_vars => OneKept'
<1> SUFFICES ASSUME Typed, OneKept, [Next]_vars PROVE OneKept'
  OBVIOUS
<1>a. NoWinnerInPlay /\ FedFromCompleted /\ one \in Slots /\ Alone(job[one])
  BY DEF OneKept
<1>q. ASSUME NoWinnerInPlay', FedFromCompleted', Alone(job[one])' PROVE OneKept'
  BY <1>q DEF OneKept
<1>1. CASE Serve(one)
  <2>1. NoWinnerInPlay'
    BY <1>1, <1>a, WinnerStep DEF Alone, At
  <2>2. FedFromCompleted'
    BY <1>1, <1>a, ServeFed
  <2>3. Alone(job[one])'
    BY <1>1, <1>a, ServeAlone
  <2> QED BY <1>q, <2>1, <2>2, <2>3
<1>2. CASE Sends(one) \/ Crash(one) \/ (\E h \in Hits : VoidExchange(one, h) \/ RevertVoid(one, h))
  <2>1. bout' = bout /\ fed' = fed
    BY <1>2, AsksOne
  <2>2. job'[one].pc \in {"idle", "open", "replay", "press", "flip", "answer"}
    <3>j. job \in [Slots -> Jobs]
      BY DEF Typed, BoutTypeOK
    <3>1. CASE Sends(one)
      BY <3>1, <3>j, SendSets
    <3>2. CASE Crash(one)
      BY <3>2, <3>j DEF Crash, NoJob
    <3>3. CASE \E h \in Hits : VoidExchange(one, h) \/ RevertVoid(one, h)
      BY <3>3, <3>j, CorrectSets
    <3> QED BY <1>2, <3>1, <3>2, <3>3
  <2> QED BY <1>a, <1>q, <2>1, <2>2 DEF NoWinnerInPlay, FedFromCompleted, Alone, DeskSteps
<1>3. CASE Reopen(one) \/ ResetMatch(one)
  <2>1. bout' = bout /\ fed' = fed
    BY <1>3, AsksOne
  <2>2. job'[one].pc = "giveBack" \/ (job'[one].pc \in {"deskSeq", "voidSheet"} /\ bout.status # "completed")
    <3>j. job \in [Slots -> Jobs]
      BY DEF Typed, BoutTypeOK
    <3> QED BY <1>3, <3>j DEF Reopen, ResetMatch, AsksBack, NoJob
  <2> QED BY <1>a, <1>q, <2>1, <2>2 DEF NoWinnerInPlay, FedFromCompleted, Alone, DeskSteps
<1>4. CASE FightNext
  <2>1. bout' = bout /\ job' = job /\ fed'.side = fed.side
    <3>1. fed \in [side : Sides \cup {"none"}, fought : BOOLEAN]
      BY DEF Typed, BoutTypeOK, StoreOK
    <3> QED BY <1>4, <3>1 DEF FightNext
  <2> QED BY <1>a, <1>q, <2>1 DEF NoWinnerInPlay, FedFromCompleted, Alone
<1>5. CASE (\E i \in Items : Make(i)) \/ UNCHANGED vars
  <2>1. bout' = bout /\ job' = job /\ fed' = fed
    BY <1>5 DEF Make, vars
  <2> QED BY <1>a, <1>q, <2>1 DEF NoWinnerInPlay, FedFromCompleted, Alone
<1> QED BY <1>1, <1>2, <1>3, <1>4, <1>5 DEF Next

(* A server with one request in hand at a time never leaves a winner on a  *)
(* bout in play, nor a side in the bracket of a bout that is not completed:*)
(* for every set of hits, presses and desk requests, whatever dies between *)
(* two writes (recomputeFromSheet, clockAction, resetMatch, uncomplete).   *)
THEOREM OneAtATime ==
  (\E one : Slots = {one}) => (Spec => [](NoWinnerInPlay /\ FedFromCompleted))
<1> SUFFICES ASSUME NEW one, Slots = {one} PROVE Spec => [](NoWinnerInPlay /\ FedFromCompleted)
  OBVIOUS
<1>1. Init => OneKept
  BY DEF Init, OneKept, NoWinnerInPlay, FedFromCompleted, Alone, NoJob, Unplayed, NotFed, DeskSteps
<1>2. Spec => []Typed
  BY InitTyped, NextTyped, PTL DEF Spec
<1>3. Typed /\ OneKept /\ [Next]_vars => OneKept'
  BY NextAlone
<1>4. OneKept => NoWinnerInPlay /\ FedFromCompleted
  BY DEF OneKept
<1> QED BY <1>1, <1>2, <1>3, <1>4, PTL DEF Spec


-----------------------------------------------------------------------------
(* The rows of the clock are numbered without a gap, and a request that    *)
(* has read the next number still has the next one.                        *)
Numbered(n) ==
  /\ \A r \in timeline : r.seq \in 1..n
  /\ \A k \in 1..n : \E r \in timeline : r.seq = k

Unbroken ==
  /\ \A q, r \in timeline : q.seq = r.seq => q = r
  /\ \E n \in Nat : Numbered(n)

(* The row a request may take back is the last by number, and only a Reset *)
(* has a reset_match row, which it never takes back.                       *)
RowSteps == {"playWrite", "endWrite", "lost", "takeBack", "deskWrite"}

InLine(j) ==
  /\ j.pc \in {"pressRow", "judge", "askSheet", "insert", "deskRow"} => j.seq = NextSeq
  /\ j.pc \in RowSteps =>
       /\ j.seq + 1 = NextSeq
       /\ \A r \in timeline : r.seq = j.seq /\ r.type = "reset_match" =>
            j.pc = "deskWrite" /\ j.op = "reset"

ClockKept == Unbroken /\ \A s \in Slots : InLine(job[s])

(* A hit that counts was made, and saved, after the last reset.            *)
SheetTimes ==
  \A h \in Hits :
    /\ sheet[h] = "live" => madeAt[h] > ResetAt /\ savedAt[h] > 0
    /\ savedAt[h] > ResetAt => madeAt[h] > ResetAt
    /\ savedAt[h] <= now /\ madeAt[h] <= now

NoneLive == \A h \in Hits : sheet[h] # "live"

(* What a request that writes the sheet knows of its hit.                  *)
HitInHand(j) ==
  /\ j.pc \in {"open", "replay", "insertHit"} => j.op = "hit"
  /\ j.pc = "open" => sheet[j.item] = "unsaved"
  /\ j.pc = "insertHit" => madeAt[j.item] > ResetAt
  /\ j.pc = "flip" => j.item \in Hits /\ j.op \in {"void", "restore"}
  /\ j.pc = "flip" /\ j.op = "restore" => savedAt[j.item] > ResetAt
  /\ j.pc = "voidSheet" => j.op = "reset"
  /\ j.pc \in DeskSteps \cup {"giveBack"} => j.op \in {"reset", "reopen"}
  /\ j.pc \in {"deskSeq", "deskRow", "deskWrite"} /\ j.op = "reset" => NoneLive

SheetKept == SheetTimes /\ \A s \in Slots : HitInHand(job[s])

(* The score on the row is the sheet's, or something is known to make it   *)
(* so: a live hit whose tablet sends it again, a request of the desk that  *)
(* is to write the score, or a hit that a door put out of the count.       *)
Fresh == bout.red = PointsOn(sheet, "red") /\ bout.blue = PointsOn(sheet, "blue")

Mends(j) ==
  \/ j.op \in {"void", "restore"} /\ j.pc \in {"row", "sheet", "context", "undo", "write"}
  \/ j.op = "reset" /\ j.pc \in {"deskSeq", "deskRow", "deskWrite"}

Unanswered(h) == sheet[h] = "live" /\ h \notin answered
Outdated(h)   == sheet[h] = "live" /\ bout.mark >= savedAt[h]

Explained ==
  \/ Fresh
  \/ \E h \in Hits : Unanswered(h) \/ Outdated(h)
  \/ \E s \in Slots : Mends(job[s])

\* The steps of a hit after its score is written.
AfterScore == {"answer", "changed", "tell", "autoEnd", "insert", "endWrite", "lost", "takeBack"}

Scores(j) ==
  /\ j.pc \in {"context", "undo", "write"} =>
       j.plan.red = PointsOn(sheet, "red") /\ j.plan.blue = PointsOn(sheet, "blue")
  /\ j.op = "hit" => j.item \notin answered
  /\ j.pc = "verify" => j.op = "press"
  /\ j.op = "hit" /\ j.pc \in AfterScore /\ sheet[j.item] = "live" => Fresh \/ Outdated(j.item)
  /\ j.op = "reopen" /\ j.pc \in DeskSteps \cup {"giveBack"} => j.row = bout

ScoreKept == Explained /\ \A s \in Slots : Scores(job[s])

(* A bout that is open and was never put back in play has no board that    *)
(* ends it, and no request is about to write one.                          *)
OpenBoard == bout.status # "completed" /\ bout.mark = 0 => ~Over(bout.red, bout.blue)

Decides(j) ==
  /\ j.pc = "undo" => bout.status = "completed" /\ ~Over(j.plan.red, j.plan.blue)
  /\ j.pc = "write" /\ j.plan.does \in {"score", "reopen"} =>
       ~Over(j.plan.red, j.plan.blue) \/ (bout.status = "completed" /\ j.plan.does = "score")
  /\ j.pc = "deskWrite" => j.at > 0

CapKept == OpenBoard /\ \A s \in Slots : Decides(job[s])

-----------------------------------------------------------------------------
(* The clock's rows.                                                       *)
NextAfter == \A n \in Nat : BoutTypeOK /\ Numbered(n) => NextSeq = n + 1

LEMMA NextIs == NextAfter
<1> SUFFICES ASSUME NEW n \in Nat, BoutTypeOK, Numbered(n) PROVE NextSeq = n + 1
  BY DEF NextAfter
<1>t. \A r \in timeline : r.seq \in Nat /\ r.seq \in 1..n
  BY DEF Numbered, BoutTypeOK, StoreOK
<1>1. CASE n = 0
  <2>1. timeline = {}
    BY <1>1, <1>t
  <2> QED BY <1>1, <2>1 DEF NextSeq, Newest
<1>2. CASE n # 0
  <2>1. PICK r \in timeline : r.seq = n
    BY <1>2 DEF Numbered
  <2>2. r \in Newest(timeline)
    BY <2>1, <1>t DEF Newest
  <2>3. \A q \in Newest(timeline) : q.seq = n
    BY <2>1, <1>t DEF Newest
  <2> QED BY <2>2, <2>3 DEF NextSeq
<1> QED BY <1>1, <1>2

LEMMA NextIsFree ==
  ASSUME BoutTypeOK, Unbroken
  PROVE  ~SeqTaken(NextSeq) /\ Numbered(NextSeq - 1) /\ NextSeq \in Nat \ {0}
<1>1. PICK n \in Nat : Numbered(n)
  BY DEF Unbroken
<1>2. NextSeq = n + 1 /\ NextSeq - 1 = n
  BY <1>1, NextIs DEF NextAfter
<1> QED BY <1>1, <1>2 DEF SeqTaken, Numbered

\* A row at the next number: it is the last one.
LEMMA RowAdded ==
  ASSUME BoutTypeOK, BoutTypeOK', Unbroken, NEW r, r.seq = NextSeq, timeline' = timeline \cup {r}
  PROVE  Unbroken' /\ NextSeq' = r.seq + 1
<1>1. PICK n \in Nat : Numbered(n)
  BY DEF Unbroken
<1>2. NextSeq = n + 1
  BY <1>1, NextIs DEF NextAfter
<1>3. \A q \in timeline : q.seq \in 1..n
  BY <1>1 DEF Numbered
<1>4. Numbered(n + 1)'
  BY <1>1, <1>2, <1>3 DEF Numbered
<1>5. \A p, q \in timeline' : p.seq = q.seq => p = q
  BY <1>2, <1>3 DEF Unbroken
<1>6. NextSeq' = n + 2
  <2>1. NextAfter'
    BY NextIs, PTL
  <2> QED BY <2>1, <1>4 DEF NextAfter
<1> QED BY <1>2, <1>4, <1>5, <1>6 DEF Unbroken

\* The last row taken back.
LEMMA RowRemoved ==
  ASSUME BoutTypeOK, Unbroken, NEW n \in Nat, n + 1 = NextSeq, n # 0,
         timeline' = {r \in timeline : r.seq # n}
  PROVE  Unbroken'
<1>1. Numbered(n)
  BY NextIsFree
<1>2. Numbered(n - 1)'
  BY <1>1 DEF Numbered
<1> QED BY <1>2 DEF Unbroken

LEMMA TimelineStays ==
  ASSUME timeline' = timeline
  PROVE  (Unbroken => Unbroken') /\ NextSeq' = NextSeq /\ ResetAt' = ResetAt
  BY DEF Unbroken, Numbered, NextSeq, ResetAt, Newest

(* Where the steps that look at the clock or at a result go, and what they *)
(* leave of the request.                                                   *)
LEMMA AutoEndGoes ==
  ASSUME Typed, NEW s \in Slots, AutoEnd(s)
  PROVE  /\ job'[s].pc \in {"tell", "insert"}
         /\ job'[s].pc = "insert" => job'[s].seq = NextSeq
         /\ job'[s].op = job[s].op /\ job'[s].item = job[s].item /\ job[s].pc = "autoEnd"
         /\ UNCHANGED <<bout, sheet, savedAt, timeline, now, madeAt, answered, fed>>
<1>j. job \in [Slots -> Jobs] /\ job[s] \in Jobs
  BY DEF Typed, BoutTypeOK
<1> DEFINE end(timeUp) == EndResult(bout, timeUp)
           pc(timeUp) == IF end(timeUp).does = "refuse" THEN "tell" ELSE "insert"
           j(timeUp) == [job[s] EXCEPT !.own = TRUE, !.row = bout, !.seq = NextSeq,
                 !.at = Later(IF job[s].at = 0 THEN now ELSE job[s].at, LastAt),
                 !.plan = [@ EXCEPT !.does = end(timeUp).does, !.winner = end(timeUp).winner],
                 !.pc = pc(timeUp)]
<1>1. Goes(s, "tell") \/ \E timeUp \in BOOLEAN : job' = [job EXCEPT ![s] = j(timeUp)]
  BY DEF AutoEnd
<1>2. job[s].pc = "autoEnd" /\ UNCHANGED <<bout, sheet, savedAt, timeline, now, madeAt, answered, fed>>
  BY DEF AutoEnd, At, world, pad
<1>3. CASE Goes(s, "tell")
  BY <1>2, <1>3, <1>j DEF Goes, Jobs
<1>4. ASSUME NEW timeUp \in BOOLEAN, job' = [job EXCEPT ![s] = j(timeUp)]
      PROVE  /\ job'[s].pc \in {"tell", "insert"} /\ job'[s].seq = NextSeq
             /\ job'[s].op = job[s].op /\ job'[s].item = job[s].item
  <2>1. pc(timeUp) \in {"tell", "insert"}
    OBVIOUS
  <2> HIDE DEF pc, end
  <2> QED BY <1>4, <2>1, <1>j DEF Jobs
<1> QED BY <1>1, <1>2, <1>3, <1>4

LEMMA AskSheetGoes ==
  ASSUME Typed, NEW s \in Slots, AskSheet(s)
  PROVE  /\ job'[s].pc \in {"row", "answer", "insert"} /\ job'[s].seq = job[s].seq
         /\ job'[s].op = job[s].op /\ job'[s].item = job[s].item /\ job[s].pc = "askSheet"
         /\ UNCHANGED <<bout, sheet, savedAt, timeline, now, madeAt, answered, fed>>
<1>j. job \in [Slots -> Jobs] /\ job[s] \in Jobs
  BY DEF Typed, BoutTypeOK
<1>1. Goes(s, "row") \/ \E p : \E c \in {"answer", "insert"} :
        job' = [job EXCEPT ![s].plan = p, ![s].pc = c]
  BY Zenon DEF AskSheet
<1>2. job[s].pc = "askSheet" /\ UNCHANGED <<bout, sheet, savedAt, timeline, now, madeAt, answered, fed>>
  BY DEF AskSheet, At, world, pad
<1>3. CASE Goes(s, "row")
  BY <1>2, <1>3, <1>j DEF Goes, Jobs
<1>4. ASSUME NEW p, NEW c \in {"answer", "insert"}, job' = [job EXCEPT ![s].plan = p, ![s].pc = c]
      PROVE  /\ job'[s].pc = c /\ job'[s].seq = job[s].seq
             /\ job'[s].op = job[s].op /\ job'[s].item = job[s].item
  BY <1>4, <1>j DEF Jobs
<1> QED BY <1>1, <1>2, <1>3, <1>4

LEMMA FinishSavedGoes ==
  ASSUME Typed, NEW s \in Slots, FinishSaved(s)
  PROVE  /\ job'[s].pc \in {"answer", "finishEnd", "finishPlay", "count"}
         /\ job'[s].op = job[s].op /\ job'[s].item = job[s].item /\ job[s].pc = "finish"
         /\ UNCHANGED <<bout, sheet, savedAt, timeline, now, madeAt, answered, fed>>
<1>j. job \in [Slots -> Jobs] /\ job[s] \in Jobs
  BY DEF Typed, BoutTypeOK
<1>1. \/ Goes(s, Taken(job[s])) \/ Goes(s, "finishPlay")
      \/ \E p : \E c \in {"answer", "finishEnd"} :
            job' = [job EXCEPT ![s].row = bout, ![s].plan = p, ![s].pc = c]
  BY Zenon DEF FinishSaved
<1>2. job[s].pc = "finish" /\ UNCHANGED <<bout, sheet, savedAt, timeline, now, madeAt, answered, fed>>
  BY DEF FinishSaved, At, world, pad
<1>3. CASE Goes(s, Taken(job[s])) \/ Goes(s, "finishPlay")
  BY <1>2, <1>3, <1>j DEF Goes, Jobs, Taken
<1>4. ASSUME NEW p, NEW c \in {"answer", "finishEnd"},
             job' = [job EXCEPT ![s].row = bout, ![s].plan = p, ![s].pc = c]
      PROVE  job'[s].pc = c /\ job'[s].op = job[s].op /\ job'[s].item = job[s].item
  BY <1>4, <1>j DEF Jobs
<1> QED BY <1>1, <1>2, <1>3, <1>4

LEMMA ContextGoes ==
  ASSUME Typed, NEW s \in Slots, Context(s)
  PROVE  /\ job'[s].pc \in {"undo", "write"} /\ job'[s].row = job[s].row
         /\ job'[s].plan.red = job[s].plan.red /\ job'[s].plan.blue = job[s].plan.blue
         /\ job'[s].op = job[s].op /\ job'[s].item = job[s].item /\ job[s].pc = "context"
         /\ UNCHANGED <<bout, sheet, savedAt, timeline, now, madeAt, answered, fed>>
<1>j. job \in [Slots -> Jobs] /\ job[s] \in Jobs
  BY DEF Typed, BoutTypeOK
<1>1. \E d : \E c \in {"undo", "write"} : job' = [job EXCEPT ![s].plan.does = d, ![s].pc = c]
  BY DEF Context
<1>2. job[s].pc = "context" /\ UNCHANGED <<bout, sheet, savedAt, timeline, now, madeAt, answered, fed>>
  BY DEF Context, At, world, pad
<1> QED BY <1>1, <1>2, <1>j DEF Jobs, Plans

(* Most steps leave the timeline, and where the request stands in it.      *)
LEMMA ServeClock ==
  ASSUME Typed, Typed', NEW s \in Slots, Unbroken, InLine(job[s]), Serve(s)
  PROVE  Unbroken' /\ InLine(job[s])'
<1>j. /\ job \in [Slots -> Jobs] /\ job[s] \in Jobs /\ job[s].seq \in Nat
      /\ BoutTypeOK /\ BoutTypeOK' /\ Carries(job[s])
  BY DEF Typed, BoutTypeOK, Jobs, ItemOK
<1>n. ~SeqTaken(NextSeq) /\ NextSeq \in Nat \ {0}
  BY <1>j, NextIsFree
<1>q. ASSUME timeline' = timeline,
             job'[s].pc \notin {"pressRow", "judge", "askSheet", "insert", "deskRow"} \cup RowSteps
      PROVE  Unbroken' /\ InLine(job[s])'
  BY <1>q, TimelineStays DEF InLine
<1>k. ASSUME timeline' = timeline,
             job'[s].pc \in {"pressRow", "judge", "askSheet", "insert", "deskRow"},
             job'[s].seq = NextSeq
      PROVE  Unbroken' /\ InLine(job[s])'
  BY <1>k, TimelineStays DEF InLine, RowSteps
<1>r. ASSUME timeline' = timeline, job[s].pc \in RowSteps, job'[s].pc \in RowSteps \ {"deskWrite"},
             job[s].pc = "deskWrite" => job[s].op # "reset",
             job'[s].seq = job[s].seq
      PROVE  Unbroken' /\ InLine(job[s])'
  <2>1. /\ job[s].seq + 1 = NextSeq
        /\ \A r \in timeline : r.seq = job[s].seq => r.type # "reset_match"
    BY <1>r DEF InLine
  <2> QED BY <1>r, <2>1, TimelineStays DEF InLine, RowSteps
<1>1. CASE \/ ReplayHit(s) \/ OpenRound(s) \/ InsertHit(s) \/ LoadRow(s) \/ LoadSheet(s)
           \/ ResultChanged(s) \/ Tell(s) \/ CountAtStart(s) \/ VerifyCount(s) \/ Answer(s)
  BY <1>1, <1>j, <1>q DEF ReplayHit, OpenRound, InsertHit, LoadRow, LoadSheet, ResultChanged, Tell,
     CountAtStart, VerifyCount, Answer, Goes, world, Jobs, RowSteps, Counted, NoJob
<1>2. CASE \/ UncompleteBestEffort(s) \/ WriteScore(s) \/ FlipHit(s) \/ GiveBack(s)
           \/ VoidSheet(s) \/ FinishEnd(s) \/ FinishPlay(s)
  BY <1>2, <1>j, <1>q DEF UncompleteBestEffort, WriteScore, FlipHit, GiveBack, VoidSheet,
     FinishEnd, FinishPlay, Goes, world, Jobs, RowSteps, Counted, Taken
<1>Context. CASE Context(s)
  BY <1>Context, <1>q, ContextGoes DEF RowSteps
<1>AutoEnd. CASE AutoEnd(s)
  BY <1>AutoEnd, <1>q, <1>k, AutoEndGoes DEF RowSteps
<1>TakePress. CASE TakePress(s)
  <2>1. /\ timeline' = timeline /\ job'[s].seq = NextSeq
        /\ job'[s].pc \in {"finish", "pressRow"}
    BY <1>TakePress, <1>j DEF TakePress, world, Jobs
  <2> QED BY <2>1, <1>q, <1>k DEF RowSteps
<1>PressRow. CASE PressRow(s)
  <2>1. timeline' = timeline /\ job'[s].seq = job[s].seq /\ job'[s].pc = "judge" /\ job[s].pc = "pressRow"
    BY <1>PressRow, <1>j DEF PressRow, world, Jobs, At
  <2> QED BY <2>1, <1>k DEF InLine
<1>Judge. CASE Judge(s)
  <2>1. /\ timeline' = timeline /\ job'[s].seq = job[s].seq /\ job[s].pc = "judge"
        /\ job'[s].pc \in {"askSheet", "insert", "answer", "count"}
    BY <1>Judge, <1>j DEF Judge, Goes, world, Jobs, At, Taken
  <2> QED BY <2>1, <1>k, <1>q DEF InLine, RowSteps
<1>AskSheet. CASE AskSheet(s)
  BY <1>AskSheet, <1>q, <1>k, AskSheetGoes DEF RowSteps, InLine
<1>InsertPress. CASE InsertPress(s)
  <2> DEFINE type == IF job[s].own THEN "end" ELSE ActionOf[job[s].item]
             r == [type |-> type, seq |-> job[s].seq, at |-> job[s].at,
                   press |-> IF job[s].own THEN NoItem ELSE job[s].item]
  <2>1. job[s].pc = "insert" /\ job[s].seq = NextSeq
    BY <1>InsertPress DEF InsertPress, At, InLine
  <2>2. CASE timeline' = timeline /\ (Goes(s, "tell") \/ Goes(s, "press"))
    BY <2>2, <1>j, <1>q DEF Goes, Jobs, RowSteps
  <2>3. CASE ~(timeline' = timeline /\ (Goes(s, "tell") \/ Goes(s, "press")))
    <3>1. timeline' = timeline \cup {r} /\ (Goes(s, "endWrite") \/ Goes(s, "playWrite"))
      BY <1>InsertPress, <2>3 DEF InsertPress
    <3>2. r.seq = job[s].seq /\ r.type # "reset_match"
      BY <2>1, <1>j, BoutConstants DEF Carries
    <3> HIDE DEF r
    <3>3. Unbroken' /\ NextSeq' = r.seq + 1
      BY <3>1, <3>2, <2>1, <1>j, RowAdded
    <3>4. job'[s].seq = job[s].seq /\ job'[s].pc \in {"endWrite", "playWrite"}
      BY <3>1, <1>j DEF Goes, Jobs
    <3>5. \A q \in timeline : q.seq # job[s].seq
      BY <2>1, <1>n DEF SeqTaken
    <3> QED BY <3>1, <3>2, <3>3, <3>4, <3>5 DEF InLine, RowSteps
  <2> QED BY <2>2, <2>3
<1>WriteInPlay. CASE WriteInPlay(s)
  <2>1. /\ timeline' = timeline /\ job'[s].seq = job[s].seq /\ job[s].pc = "playWrite"
        /\ job'[s].pc \in {"takeBack", "answer", "count"}
    BY <1>WriteInPlay, <1>j DEF WriteInPlay, Goes, world, Jobs, At, Taken
  <2> QED BY <2>1, <1>r, <1>q DEF RowSteps
<1>CompleteOnEnd. CASE CompleteOnEnd(s)
  <2>1. /\ timeline' = timeline /\ job'[s].seq = job[s].seq /\ job[s].pc = "endWrite"
        /\ job'[s].pc \in {"tell", "lost"}
    BY <1>CompleteOnEnd, <1>j DEF CompleteOnEnd, Goes, world, Jobs, At
  <2> QED BY <2>1, <1>r, <1>q DEF RowSteps
<1>EndLostTo. CASE EndLostTo(s)
  <2>1. /\ timeline' = timeline /\ job'[s].seq = job[s].seq /\ job[s].pc = "lost"
        /\ job'[s].pc \in {"tell", "takeBack", "answer"}
    BY <1>EndLostTo, <1>j DEF EndLostTo, Goes, world, Jobs, At
  <2> QED BY <2>1, <1>r, <1>q DEF RowSteps
<1>TakeBackRow. CASE TakeBackRow(s)
  <2>1. /\ timeline' = {r \in timeline : r.seq # job[s].seq} /\ job[s].pc = "takeBack"
        /\ job'[s].pc \in {"tell", "answer"}
    BY <1>TakeBackRow, <1>j DEF TakeBackRow, Goes, Jobs, At
  <2>2. job[s].seq + 1 = NextSeq
    BY <2>1 DEF InLine, RowSteps
  <2>3. CASE job[s].seq # 0
    <3>1. Unbroken'
      BY <2>1, <2>2, <2>3, <1>j, RowRemoved
    <3> QED BY <3>1, <2>1 DEF InLine, RowSteps
  <2>4. CASE job[s].seq = 0
    <3>1. \A r \in timeline : r.seq # 0
      BY DEF Unbroken, Numbered
    <3>2. timeline' = timeline
      BY <2>1, <2>4, <3>1
    <3> QED BY <3>2, <2>1, <1>q DEF RowSteps
  <2> QED BY <2>3, <2>4
<1>FinishSaved. CASE FinishSaved(s)
  BY <1>FinishSaved, <1>q, FinishSavedGoes DEF RowSteps
<1>DeskSeq. CASE DeskSeq(s)
  <2>1. timeline' = timeline /\ job'[s].seq = NextSeq /\ job'[s].pc = "deskRow"
    BY <1>DeskSeq, <1>j DEF DeskSeq, world, Jobs
  <2> QED BY <2>1, <1>k
<1>DeskRow. CASE DeskRow(s)
  <2> DEFINE r == [type |-> IF job[s].op = "reset" THEN "reset_match" ELSE "reopen",
                   seq |-> job[s].seq, at |-> now + 1, press |-> NoItem]
  <2>1. job[s].pc = "deskRow" /\ job[s].seq = NextSeq
    BY <1>DeskRow DEF DeskRow, At, InLine
  <2>2. /\ timeline' = timeline \cup {r}
        /\ job' = [job EXCEPT ![s].at = now + 1, ![s].pc = "deskWrite"]
    BY <1>DeskRow, <2>1, <1>n DEF DeskRow
  <2>3. r.seq = job[s].seq /\ (r.type = "reset_match" => job[s].op = "reset")
    OBVIOUS
  <2> HIDE DEF r
  <2>4. Unbroken' /\ NextSeq' = r.seq + 1
    BY <2>1, <2>2, <2>3, <1>j, RowAdded
  <2>5. job'[s].seq = job[s].seq /\ job'[s].pc = "deskWrite" /\ job'[s].op = job[s].op
    BY <2>2, <1>j DEF Jobs
  <2>6. \A q \in timeline : q.seq # job[s].seq
    BY <2>1, <1>n DEF SeqTaken
  <2> QED BY <2>2, <2>3, <2>4, <2>5, <2>6 DEF InLine
<1>DeskWrite. CASE DeskWrite(s)
  <2>1. /\ timeline' = timeline /\ job'[s].seq = job[s].seq /\ job[s].pc = "deskWrite"
        /\ job'[s].pc = "answer" \/ (job'[s].pc = "takeBack" /\ job[s].op = "reopen")
    BY <1>DeskWrite, <1>j DEF DeskWrite, Goes, world, Jobs, At
  <2> QED BY <2>1, <1>r, <1>q DEF RowSteps
<1> QED BY <1>1, <1>2, <1>Context, <1>AutoEnd, <1>TakePress, <1>PressRow, <1>Judge, <1>AskSheet,
           <1>InsertPress, <1>WriteInPlay, <1>CompleteOnEnd, <1>EndLostTo, <1>TakeBackRow,
           <1>FinishSaved, <1>DeskSeq, <1>DeskRow, <1>DeskWrite DEF Serve

\* A request that is made, or dies, writes nothing of the bout.
LEMMA AsksWriteNothing ==
  ASSUME Typed, NEW s \in Slots,
         Sends(s) \/ Crash(s) \/ (\E h \in Hits : VoidExchange(s, h) \/ RevertVoid(s, h))
                  \/ Reopen(s) \/ ResetMatch(s)
  PROVE  UNCHANGED <<bout, sheet, savedAt, timeline, now, madeAt, answered, fed>>
<1>1. CASE Sends(s)
  <2>1. PICK i, op, pc : Send(s, i, op, pc)
    BY <1>1, Zenon DEF Sends, SendHit, SendPress
  <2> QED BY <2>1 DEF Send, world, pad
<1>2. CASE Crash(s)
  BY <1>2 DEF Crash, world, pad
<1>3. CASE \E h \in Hits : VoidExchange(s, h) \/ RevertVoid(s, h)
  <2>1. PICK op, h, v : Corrects(s, op, h, v)
    BY <1>3, Zenon DEF VoidExchange, RevertVoid
  <2> QED BY <2>1 DEF Corrects, world, pad
<1>4. CASE Reopen(s) \/ ResetMatch(s)
  BY <1>4 DEF Reopen, ResetMatch, AsksBack, world, pad
<1> QED BY <1>1, <1>2, <1>3, <1>4

LEMMA NextClock ==
  ASSUME NEW one, Slots = {one}
  PROVE  Typed /\ ClockKept /\ [Next]_vars => ClockKept'
<1> SUFFICES ASSUME Typed, ClockKept, [Next]_vars PROVE ClockKept'
  OBVIOUS
<1>a. one \in Slots /\ Unbroken /\ InLine(job[one]) /\ Typed'
  BY NextTyped DEF ClockKept
<1>q. ASSUME Unbroken', InLine(job[one])' PROVE ClockKept'
  BY <1>q DEF ClockKept
<1>1. CASE Serve(one)
  BY <1>1, <1>a, <1>q, ServeClock
<1>2. CASE Sends(one) \/ Crash(one) \/ (\E h \in Hits : VoidExchange(one, h) \/ RevertVoid(one, h))
           \/ Reopen(one) \/ ResetMatch(one)
  <2>1. timeline' = timeline
    BY <1>2, <1>a, AsksWriteNothing
  <2>2. job'[one].pc \in {"idle", "open", "replay", "press", "flip", "answer", "giveBack",
                          "deskSeq", "voidSheet"}
    BY <1>2, <1>a, AsksOne
  <2> QED BY <2>1, <2>2, <1>a, <1>q, TimelineStays DEF InLine, RowSteps
<1>3. CASE FightNext \/ (\E i \in Items : Make(i)) \/ UNCHANGED vars
  <2>1. timeline' = timeline /\ job' = job
    BY <1>3 DEF FightNext, Make, vars, world
  <2> QED BY <2>1, <1>a, <1>q, TimelineStays DEF InLine
<1> QED BY <1>1, <1>2, <1>3 DEF Next

-----------------------------------------------------------------------------
(* The last reset.                                                         *)
LEMMA ResetStays ==
  ASSUME {r \in timeline' : r.type = "reset_match"} = {r \in timeline : r.type = "reset_match"}
  PROVE  ResetAt' = ResetAt
<1> DEFINE old == {r \in timeline : r.type = "reset_match"}
           new == {r \in timeline' : r.type = "reset_match"}
<1>1. ResetAt = IF Newest(old) = {} THEN 0 ELSE (CHOOSE r \in Newest(old) : TRUE).at
  BY DEF ResetAt
<1>2. ResetAt' = IF Newest(new) = {} THEN 0 ELSE (CHOOSE r \in Newest(new) : TRUE).at
  BY DEF ResetAt
<1>3. old = new
  OBVIOUS
<1> HIDE DEF old, new
<1> QED BY <1>1, <1>2, <1>3

\* A reset row at the next number is the newest reset.
LEMMA ResetIsNow ==
  ASSUME BoutTypeOK, Unbroken, NEW r, r.seq = NextSeq, r.type = "reset_match",
         timeline' = timeline \cup {r}
  PROVE  ResetAt' = r.at
<1> DEFINE resets == {q \in timeline' : q.type = "reset_match"}
<1>1. \A q \in timeline : q.seq \in Nat /\ q.seq < r.seq
  BY NextIsFree DEF Numbered
<1>2. r.seq \in Nat
  BY NextIsFree
<1>3. Newest(resets) = {r}
  BY <1>1, <1>2 DEF Newest
<1> QED BY <1>3 DEF ResetAt

SheetSteps == {"open", "replay", "insertHit", "flip", "giveBack"} \cup DeskSteps

\* A step that leaves the sheet, the last reset and the clock of the server.
LEMMA SheetStill ==
  ASSUME SheetTimes, UNCHANGED <<sheet, savedAt, madeAt, now>>, ResetAt' = ResetAt
  PROVE  SheetTimes'
  BY DEF SheetTimes

\* The steps that start, sync or end a press.
LEMMA PressKeepsSheet ==
  ASSUME Typed, Typed', NEW s \in Slots, Unbroken, InLine(job[s]), SheetTimes,
         \/ InsertPress(s) \/ TakeBackRow(s)
  PROVE  /\ job'[s].pc \notin SheetSteps /\ ResetAt' = ResetAt
         /\ UNCHANGED <<sheet, savedAt, madeAt, now>>
<1>j. job \in [Slots -> Jobs] /\ job[s] \in Jobs /\ Carries(job[s])
  BY DEF Typed, BoutTypeOK, ItemOK
<1>1. CASE InsertPress(s)
  <2> DEFINE type == IF job[s].own THEN "end" ELSE ActionOf[job[s].item]
             r == [type |-> type, seq |-> job[s].seq, at |-> job[s].at,
                   press |-> IF job[s].own THEN NoItem ELSE job[s].item]
  <2>1. timeline' = timeline \/ timeline' = timeline \cup {r}
    BY <1>1 DEF InsertPress
  <2>2. r.type # "reset_match"
    BY <1>1, <1>j, BoutConstants DEF Carries, InsertPress, At
  <2> HIDE DEF r
  <2>3. ResetAt' = ResetAt
    BY <2>1, <2>2, ResetStays
  <2>4. job'[s].pc \in {"tell", "press", "endWrite", "playWrite"}
    BY <1>1, <1>j DEF InsertPress, Goes, Jobs
  <2> QED BY <1>1, <2>3, <2>4 DEF InsertPress, SheetSteps, DeskSteps, pad
<1>2. CASE TakeBackRow(s)
  <2>1. timeline' = {r \in timeline : r.seq # job[s].seq} /\ job[s].pc = "takeBack"
    BY <1>2 DEF TakeBackRow, At
  <2>2. \A r \in timeline : r.seq = job[s].seq => r.type # "reset_match"
    BY <2>1 DEF InLine, RowSteps
  <2>3. ResetAt' = ResetAt
    BY <2>1, <2>2, ResetStays
  <2>4. job'[s].pc \in {"tell", "answer"}
    BY <1>2, <1>j DEF TakeBackRow, Goes, Jobs
  <2> QED BY <1>2, <2>3, <2>4 DEF TakeBackRow, SheetSteps, DeskSteps, pad
<1> QED BY <1>1, <1>2

LEMMA ServeSheet ==
  ASSUME Typed, Typed', NEW s \in Slots, Unbroken, InLine(job[s]), SheetTimes, HitInHand(job[s]), Serve(s)
  PROVE  SheetTimes' /\ HitInHand(job[s])'
<1>j. /\ job \in [Slots -> Jobs] /\ job[s] \in Jobs /\ Carries(job[s])
      /\ sheet \in [Hits -> {"unsaved", "live", "voided"}] /\ savedAt \in [Hits -> Nat]
      /\ now \in Nat /\ madeAt \in [Items -> Nat] /\ BoutTypeOK /\ Hits \subseteq Items
  BY DEF Typed, BoutTypeOK, ItemOK, StoreOK, Items
<1>r. ResetAt \in Nat
  BY <1>j, ClockType
<1>q. ASSUME UNCHANGED <<sheet, savedAt, madeAt, now>>, ResetAt' = ResetAt, job'[s].pc \notin SheetSteps
      PROVE  SheetTimes' /\ HitInHand(job[s])'
  <2>1. HitInHand(job[s])'
    BY <1>q DEF HitInHand, SheetSteps, DeskSteps
  <2> QED BY <1>q, <2>1, SheetStill
<1>t. ASSUME timeline' = timeline PROVE ResetAt' = ResetAt
  BY <1>t, TimelineStays
<1>1. CASE \/ ReplayHit(s) \/ LoadRow(s) \/ LoadSheet(s)
           \/ ResultChanged(s) \/ Tell(s) \/ CountAtStart(s) \/ VerifyCount(s) \/ Answer(s)
  BY <1>1, <1>j, <1>q, <1>t DEF ReplayHit, LoadRow, LoadSheet, ResultChanged, Tell,
     CountAtStart, VerifyCount, Answer, Goes, world, pad, Jobs, SheetSteps, DeskSteps, Counted, NoJob
<1>2. CASE \/ UncompleteBestEffort(s) \/ WriteScore(s) \/ FinishEnd(s) \/ FinishPlay(s)
           \/ DeskWrite(s) \/ TakePress(s) \/ PressRow(s)
  BY <1>2, <1>j, <1>q, <1>t DEF UncompleteBestEffort, WriteScore, FinishEnd, FinishPlay, DeskWrite,
     TakePress, PressRow, Goes, world, pad, Jobs, SheetSteps, DeskSteps, Counted, Taken
<1>3. CASE Judge(s) \/ WriteInPlay(s) \/ CompleteOnEnd(s) \/ EndLostTo(s)
  BY <1>3, <1>j, <1>q, <1>t DEF Judge, WriteInPlay, CompleteOnEnd, EndLostTo,
     Goes, world, pad, Jobs, SheetSteps, DeskSteps, Taken
<1>4. CASE Context(s) \/ AutoEnd(s) \/ AskSheet(s) \/ FinishSaved(s)
  BY <1>4, <1>q, <1>t, ContextGoes, AutoEndGoes, AskSheetGoes, FinishSavedGoes DEF SheetSteps, DeskSteps
<1>5. CASE InsertPress(s) \/ TakeBackRow(s)
  BY <1>5, <1>q, PressKeepsSheet
<1>OpenRound. CASE OpenRound(s)
  <2>1. /\ job[s].pc = "open" /\ UNCHANGED <<sheet, savedAt, madeAt, now, timeline>>
        /\ Goes(s, IF madeAt[job[s].item] <= ResetAt \/ bout.status = "scheduled"
                   THEN "answer" ELSE "insertHit")
    BY <1>OpenRound DEF OpenRound, world, pad, At
  <2>2. job[s].op = "hit" /\ job[s].item \in Hits
    BY <2>1, <1>j DEF HitInHand, Carries
  <2>3. /\ job'[s].op = job[s].op /\ job'[s].item = job[s].item
        /\ job'[s].pc \in {"answer", "insertHit"}
        /\ job'[s].pc = "insertHit" => madeAt[job[s].item] > ResetAt
    BY <2>1, <2>2, <1>j, <1>r DEF Goes, Jobs
  <2>4. HitInHand(job[s])'
    BY <2>1, <2>2, <2>3, <1>t DEF HitInHand, DeskSteps
  <2> QED BY <2>1, <2>4, <1>t, SheetStill
<1>InsertHit. CASE InsertHit(s)
  <2>1. job[s].pc = "insertHit" /\ madeAt' = madeAt /\ ResetAt' = ResetAt
    BY <1>InsertHit, <1>t DEF InsertHit, pad, At
  <2>2. job[s].op = "hit" /\ job[s].item \in Hits /\ madeAt[job[s].item] > ResetAt
    BY <2>1, <1>j DEF HitInHand, Carries
  <2>3. job'[s].op = job[s].op /\ job'[s].pc \in {"replay", "row"}
    BY <1>InsertHit, <1>j DEF InsertHit, Goes, Jobs
  <2>4. HitInHand(job[s])'
    BY <2>2, <2>3 DEF HitInHand, DeskSteps
  <2>5. CASE UNCHANGED <<sheet, savedAt, now>>
    BY <2>1, <2>4, <2>5, SheetStill
  <2>6. CASE ~UNCHANGED <<sheet, savedAt, now>>
    <3>1. /\ sheet' = [sheet EXCEPT ![job[s].item] = "live"] /\ now' = now + 1
          /\ savedAt' = [savedAt EXCEPT ![job[s].item] = now + 1]
      BY <1>InsertHit, <2>6 DEF InsertHit
    <3> QED BY <2>1, <2>2, <2>4, <3>1, <1>j, <1>r DEF SheetTimes
  <2> QED BY <2>5, <2>6
<1>FlipHit. CASE FlipHit(s)
  <2>1. /\ job[s].pc = "flip" /\ UNCHANGED <<savedAt, madeAt, now>> /\ ResetAt' = ResetAt
        /\ sheet' = [sheet EXCEPT ![job[s].item] = IF job[s].op = "void" THEN "voided" ELSE "live"]
    BY <1>FlipHit, <1>t DEF FlipHit, pad, At
  <2>2. /\ job[s].item \in Hits /\ job[s].op \in {"void", "restore"}
        /\ job[s].op = "restore" => savedAt[job[s].item] > ResetAt
    BY <2>1 DEF HitInHand
  <2>3. job'[s].pc = "row"
    BY <1>FlipHit, <1>j DEF FlipHit, Goes, Jobs
  <2>4. HitInHand(job[s])'
    BY <2>3 DEF HitInHand, DeskSteps
  <2> QED BY <2>1, <2>2, <2>4, <1>j, <1>r DEF SheetTimes
<1>GiveBack. CASE GiveBack(s)
  <2>1. UNCHANGED <<sheet, savedAt, madeAt, now, timeline>> /\ job[s].pc = "giveBack"
    BY <1>GiveBack DEF GiveBack, world, pad, At
  <2>2. job[s].op \in {"reset", "reopen"}
    BY <2>1 DEF HitInHand
  <2>3. /\ job'[s].op = job[s].op
        /\ job'[s].pc \in {"answer", IF job[s].op = "reset" THEN "voidSheet" ELSE "deskSeq"}
    BY <1>GiveBack, <1>j DEF GiveBack, Goes, Jobs
  <2>4. HitInHand(job[s])'
    BY <2>2, <2>3 DEF HitInHand, DeskSteps
  <2> QED BY <2>1, <2>4, <1>t, SheetStill
<1>VoidSheet. CASE VoidSheet(s)
  <2>1. /\ job[s].pc = "voidSheet" /\ UNCHANGED <<savedAt, madeAt, now>> /\ ResetAt' = ResetAt
        /\ sheet' = [h \in Hits |-> IF sheet[h] = "live" THEN "voided" ELSE sheet[h]]
    BY <1>VoidSheet, <1>t DEF VoidSheet, pad, At
  <2>2. job[s].op = "reset" /\ NoneLive'
    BY <2>1 DEF HitInHand, NoneLive
  <2>3. job'[s].pc = "deskSeq" /\ job'[s].op = job[s].op
    BY <1>VoidSheet, <1>j DEF VoidSheet, Goes, Jobs
  <2>4. HitInHand(job[s])'
    BY <2>2, <2>3 DEF HitInHand, DeskSteps
  <2> QED BY <2>1, <2>4, <1>j DEF SheetTimes
<1>DeskSeq. CASE DeskSeq(s)
  <2>1. UNCHANGED <<sheet, savedAt, madeAt, now, timeline>> /\ job[s].pc = "deskSeq"
    BY <1>DeskSeq DEF DeskSeq, world, pad, At
  <2>2. job[s].op \in {"reset", "reopen"} /\ (job[s].op = "reset" => NoneLive')
    BY <2>1 DEF HitInHand, DeskSteps, NoneLive
  <2>3. job'[s].op = job[s].op /\ job'[s].pc = "deskRow"
    BY <1>DeskSeq, <1>j DEF DeskSeq, Jobs
  <2>4. HitInHand(job[s])'
    BY <2>2, <2>3 DEF HitInHand, DeskSteps
  <2> QED BY <2>1, <2>4, <1>t, SheetStill
<1>DeskRow. CASE DeskRow(s)
  <2> DEFINE r == [type |-> IF job[s].op = "reset" THEN "reset_match" ELSE "reopen",
                   seq |-> job[s].seq, at |-> now + 1, press |-> NoItem]
  <2>1. job[s].pc = "deskRow" /\ job[s].seq = NextSeq /\ UNCHANGED <<sheet, savedAt, madeAt>>
    BY <1>DeskRow DEF DeskRow, At, InLine, pad
  <2>2. /\ timeline' = timeline \cup {r} /\ now' = now + 1
        /\ job' = [job EXCEPT ![s].at = now + 1, ![s].pc = "deskWrite"]
    BY <1>DeskRow, <2>1, <1>j, NextIsFree DEF DeskRow
  <2>3. /\ r.seq = NextSeq /\ r.at = now + 1 
        /\ r.type = IF job[s].op = "reset" THEN "reset_match" ELSE "reopen"
    BY <2>1
  <2> HIDE DEF r
  <2>4. job[s].op \in {"reset", "reopen"} /\ (job[s].op = "reset" => NoneLive /\ NoneLive')
    BY <2>1 DEF HitInHand, DeskSteps, NoneLive
  <2>5. job'[s].op = job[s].op /\ job'[s].pc = "deskWrite"
    BY <2>2, <1>j DEF Jobs
  <2>6. HitInHand(job[s])'
    BY <2>4, <2>5 DEF HitInHand, DeskSteps
  <2>7. CASE job[s].op = "reset"
    <3>1. ResetAt' = now + 1
      BY <2>2, <2>3, <2>7, <1>j, ResetIsNow
    <3> QED BY <2>1, <2>2, <2>4, <2>6, <2>7, <3>1, <1>j DEF SheetTimes, NoneLive
  <2>8. CASE job[s].op # "reset"
    <3>1. ResetAt' = ResetAt
      BY <2>2, <2>3, <2>8, ResetStays
    <3> QED BY <2>1, <2>2, <2>6, <3>1, <1>j DEF SheetTimes
  <2> QED BY <2>7, <2>8
<1> QED BY <1>1, <1>2, <1>3, <1>4, <1>5, <1>OpenRound, <1>InsertHit, <1>FlipHit, <1>GiveBack,
           <1>VoidSheet, <1>DeskSeq, <1>DeskRow DEF Serve

\* What a request that is made holds.
LEMMA AsksHold ==
  ASSUME Typed, NEW s \in Slots,
         Sends(s) \/ Crash(s) \/ (\E h \in Hits : VoidExchange(s, h) \/ RevertVoid(s, h))
                  \/ Reopen(s) \/ ResetMatch(s)
  PROVE  \/ /\ job'[s].op = "hit" /\ job'[s].item \in Hits \ answered
            /\ job'[s].pc = IF sheet[job'[s].item] = "unsaved" THEN "open" ELSE "replay"
         \/ job'[s].op = "press" /\ job'[s].item \in Presses /\ job'[s].pc = "press"
         \/ job'[s] = NoJob /\ job[s].op \in Mortal
         \/ /\ job'[s].op \in {"void", "restore"} /\ job'[s].item \in Hits
            /\ job'[s].pc \in {"flip", "answer"}
            /\ job'[s].op = "restore" => savedAt[job'[s].item] > ResetAt
         \/ /\ job'[s].op \in {"reopen", "reset"} /\ job'[s].row = bout
            /\ job'[s].pc \in {"giveBack", IF job'[s].op = "reset" THEN "voidSheet" ELSE "deskSeq"}
<1>j. job \in [Slots -> Jobs]
  BY DEF Typed, BoutTypeOK
<1>1. ASSUME NEW h \in Hits, SendHit(s, h)
      PROVE  /\ job'[s].op = "hit" /\ job'[s].item = h /\ h \notin answered
             /\ job'[s].pc = IF sheet[h] = "unsaved" THEN "open" ELSE "replay"
  BY <1>1, <1>j DEF SendHit, Send, NoJob
<1>2. ASSUME NEW p \in Presses, SendPress(s, p)
      PROVE  job'[s].op = "press" /\ job'[s].item = p /\ job'[s].pc = "press"
  BY <1>2, <1>j DEF SendPress, Send, NoJob
<1>3. CASE Crash(s)
  BY <1>3, <1>j DEF Crash
<1>4. ASSUME NEW h \in Hits, VoidExchange(s, h)
      PROVE  job'[s].op = "void" /\ job'[s].item = h /\ job'[s].pc \in {"flip", "answer"}
  <2>1. PICK pc \in {"flip", "answer"} :
          job' = [job EXCEPT ![s] = [NoJob EXCEPT !.op = "void", !.item = h, !.pc = pc]]
    BY <1>4 DEF VoidExchange, Corrects
  <2> QED BY <2>1, <1>j DEF NoJob
<1>5. ASSUME NEW h \in Hits, RevertVoid(s, h)
      PROVE  /\ job'[s].op = "restore" /\ job'[s].item = h /\ job'[s].pc \in {"flip", "answer"}
             /\ savedAt[h] > ResetAt
  <2>1. PICK pc \in {"flip", "answer"} :
          job' = [job EXCEPT ![s] = [NoJob EXCEPT !.op = "restore", !.item = h, !.pc = pc]]
    BY <1>5 DEF RevertVoid, Corrects
  <2> QED BY <1>5, <2>1, <1>j DEF NoJob, RevertVoid
<1>6. ASSUME NEW op, NEW then, AsksBack(s, op, then)
      PROVE  job'[s].op = op /\ job'[s].row = bout /\ job'[s].pc \in {"giveBack", then}
  BY <1>6, <1>j DEF AsksBack, NoJob
<1>7. CASE Reopen(s)
  BY <1>7, <1>6 DEF Reopen
<1>8. CASE ResetMatch(s)
  BY <1>8, <1>6 DEF ResetMatch
<1> QED BY <1>1, <1>2, <1>3, <1>4, <1>5, <1>7, <1>8 DEF Sends

LEMMA NextSheet ==
  ASSUME NEW one, Slots = {one}
  PROVE  Typed /\ ClockKept /\ SheetKept /\ [Next]_vars => SheetKept'
<1> SUFFICES ASSUME Typed, ClockKept, SheetKept, [Next]_vars PROVE SheetKept'
  OBVIOUS
<1>a. /\ one \in Slots /\ Unbroken /\ InLine(job[one]) /\ Typed'
      /\ SheetTimes /\ HitInHand(job[one])
  BY NextTyped DEF ClockKept, SheetKept
<1>q. ASSUME SheetTimes', HitInHand(job[one])' PROVE SheetKept'
  BY <1>q DEF SheetKept
<1>1. CASE Serve(one)
  BY <1>1, <1>a, <1>q, ServeSheet
<1>2. CASE Sends(one) \/ Crash(one) \/ (\E h \in Hits : VoidExchange(one, h) \/ RevertVoid(one, h))
           \/ Reopen(one) \/ ResetMatch(one)
  <2>1. UNCHANGED <<sheet, savedAt, madeAt, now, timeline>> /\ ResetAt' = ResetAt
    BY <1>2, <1>a, AsksWriteNothing, TimelineStays
  <2>2. HitInHand(job[one])'
    BY <1>2, <1>a, <2>1, AsksHold DEF HitInHand, DeskSteps, NoJob
  <2> QED BY <2>1, <2>2, <1>a, <1>q, SheetStill
<1>3. CASE FightNext \/ UNCHANGED vars
  <2>1. UNCHANGED <<sheet, savedAt, madeAt, now, timeline, job>> /\ ResetAt' = ResetAt
    BY <1>3, TimelineStays DEF FightNext, vars, world, pad
  <2> QED BY <2>1, <1>a, <1>q, SheetStill DEF HitInHand, NoneLive
<1>4. ASSUME NEW i \in Items, Make(i) PROVE SheetKept'
  <2>1. /\ UNCHANGED <<sheet, savedAt, timeline, job>> /\ ResetAt' = ResetAt /\ now' = now + 1
        /\ madeAt[i] = 0 /\ madeAt' = [madeAt EXCEPT ![i] = now + 1]
    BY <1>4, TimelineStays DEF Make
  <2>2. /\ ResetAt \in Nat /\ now \in Nat /\ madeAt \in [Items -> Nat] /\ savedAt \in [Hits -> Nat]
        /\ Hits \subseteq Items /\ Carries(job[one])
    BY <1>a, ClockType DEF Typed, BoutTypeOK, StoreOK, Items, ItemOK
  <2>3. \A k \in Items : madeAt'[k] >= madeAt[k] /\ (madeAt[k] <= now => madeAt'[k] <= now + 1)
    BY <2>1, <2>2
  <2>4. SheetTimes'
    BY <2>1, <2>2, <2>3, <1>a DEF SheetTimes
  <2>5. job[one].pc = "insertHit" => job[one].item \in Items
    BY <2>2, <1>a DEF HitInHand, Carries
  <2>6. madeAt' \in [Items -> Nat]
    BY <2>1, <2>2
  <2>7. job[one].pc = "insertHit" => madeAt'[job[one].item] > ResetAt
    BY <2>2, <2>3, <2>5, <2>6, <1>a DEF HitInHand
  <2>8. HitInHand(job[one])'
    BY <2>1, <2>7, <1>a DEF HitInHand, NoneLive
  <2> QED BY <2>4, <2>8, <1>q
<1> QED BY <1>1, <1>2, <1>3, <1>4 DEF Next

LEMMA SheetAlways ==
  ASSUME NEW one, Slots = {one}
  PROVE  Spec => [](Typed /\ ClockKept /\ SheetKept)
<1>1. Init => Typed /\ ClockKept /\ SheetKept
  <2> SUFFICES ASSUME Init PROVE ClockKept /\ SheetKept
    BY InitTyped
  <2>1. Numbered(0)
    BY DEF Init, Numbered
  <2>2. ClockKept
    BY <2>1 DEF Init, ClockKept, Unbroken, InLine, NoJob, RowSteps
  <2>3. ResetAt \in Nat
    BY InitTyped, ClockType DEF Typed
  <2>4. SheetTimes
    BY <2>3 DEF Init, SheetTimes, Items
  <2>5. SheetKept
    BY <2>4 DEF Init, SheetKept, HitInHand, NoJob, DeskSteps
  <2> QED BY <2>2, <2>5
<1>2. (Typed /\ ClockKept /\ SheetKept) /\ [Next]_vars => (Typed /\ ClockKept /\ SheetKept)'
  BY NextTyped, NextClock, NextSheet
<1> QED BY <1>1, <1>2, PTL DEF Spec

(* A server with one request in hand at a time never counts a hit of an    *)
(* old fight: whatever is reset, restored, sent again or dies, a live hit  *)
(* was made after the last reset (createExchange, revertVoid, resetMatch). *)
THEOREM OldHitsAreOut == (\E one : Slots = {one}) => (Spec => []NoHitOfAnOldFight)
<1> SUFFICES ASSUME NEW one, Slots = {one} PROVE Spec => []NoHitOfAnOldFight
  OBVIOUS
<1>1. SheetKept => NoHitOfAnOldFight
  BY DEF SheetKept, SheetTimes, NoHitOfAnOldFight
<1> QED BY <1>1, SheetAlways, PTL

-----------------------------------------------------------------------------
(* The score.                                                              *)
LEMMA NonePoints == NoneLive => \A x \in Sides : PointsOn(sheet, x) = 0
<1> SUFFICES ASSUME NoneLive, NEW x \in Sides PROVE PointsOn(sheet, x) = 0
  OBVIOUS
<1>1. {h \in Hits : sheet[h] = "live" /\ SideOf[h] = x} = {}
  BY DEF NoneLive
<1> QED BY <1>1, FS_EmptySet DEF PointsOn

\* A step that leaves the sheet, the answers and the board, and never lowers the mark.
LEMMA StillExplained ==
  ASSUME NEW s, Slots = {s}, Explained, UNCHANGED <<sheet, savedAt, answered>>,
         bout'.red = bout.red, bout'.blue = bout.blue,
         bout.mark \in Nat, bout'.mark \in Nat, savedAt \in [Hits -> Nat], bout'.mark >= bout.mark,
         Mends(job[s]) => Mends(job'[s])
  PROVE  Explained'
<1>1. Fresh => Fresh'
  BY DEF Fresh, PointsOn
<1>2. \A h \in Hits : (Unanswered(h) => Unanswered(h)') /\ (Outdated(h) => Outdated(h)')
  BY DEF Unanswered, Outdated
<1>3. Mends(job[s]) => Mends(job[s])'
  BY DEF Mends
<1> QED BY <1>1, <1>2, <1>3 DEF Explained

\* The request keeps its hit and its plan, and does not come to a step that asks more.
LEMMA StillScores ==
  ASSUME NEW s \in Slots, Scores(job[s]), UNCHANGED <<sheet, savedAt, answered>>,
         bout'.red = bout.red, bout'.blue = bout.blue, bout'.mark = bout.mark,
         job'[s].op = job[s].op, job'[s].item = job[s].item,
         job'[s].pc \notin {"context", "undo", "write", "verify", "giveBack"} \cup DeskSteps,
         job'[s].op # "hit" \/ job'[s].pc \notin AfterScore \/ job[s].pc \in AfterScore
  PROVE  Scores(job[s])'
  BY DEF Scores, Fresh, Outdated, PointsOn

\* Once the board is the sheet's, and the request has its hit, it may go on.
LEMMA FreshScores ==
  ASSUME NEW s \in Slots, Fresh', answered' = answered, Scores(job[s]),
         job'[s].op = job[s].op, job'[s].item = job[s].item,
         job'[s].pc \notin {"context", "undo", "write", "giveBack"} \cup DeskSteps,
         job'[s].pc = "verify" => job[s].op = "press"
  PROVE  Explained' /\ Scores(job[s])'
<1>1. Explained'
  BY DEF Explained
<1>2. Scores(job[s])'
  BY DEF Scores
<1> QED BY <1>1, <1>2

LEMMA HitScores ==
  ASSUME Typed, NEW s \in Slots, Slots = {s}, SheetTimes, HitInHand(job[s]), Explained, Scores(job[s]),
         ReplayHit(s) \/ OpenRound(s) \/ InsertHit(s)
  PROVE  Explained' /\ Scores(job[s])'
<1>j. /\ job \in [Slots -> Jobs] /\ job[s] \in Jobs /\ Carries(job[s])
      /\ sheet \in [Hits -> {"unsaved", "live", "voided"}] /\ savedAt \in [Hits -> Nat]
      /\ bout \in Rows /\ bout.mark \in Nat
  BY DEF Typed, BoutTypeOK, ItemOK, StoreOK, Rows
<1>o. job[s].pc \in {"replay", "open", "insertHit"} /\ job[s].op = "hit" /\ job[s].item \in Hits
  BY <1>j DEF ReplayHit, OpenRound, InsertHit, At, HitInHand, Carries
<1>m. ~Mends(job[s])
  BY <1>o DEF Mends
<1>n. job[s].item \notin answered
  BY <1>o DEF Scores
<1>g. /\ bout' = bout /\ answered' = answered /\ job'[s].op = job[s].op /\ job'[s].item = job[s].item
      /\ job'[s].pc \in {"answer", "row", "insertHit", "replay"}
  BY <1>j DEF ReplayHit, OpenRound, InsertHit, Goes, Jobs, pad
<1>1. CASE ReplayHit(s)
  <2>1. /\ UNCHANGED <<sheet, savedAt>>
        /\ job'[s].pc = "answer" => bout.mark >= savedAt[job[s].item]
    BY <1>1, <1>j DEF ReplayHit, Goes, Jobs, world
  <2>2. Explained'
    BY <2>1, <1>g, <1>j, <1>m, StillExplained
  <2>3. Scores(job[s])'
    BY <2>1, <1>g, <1>n, <1>1, <1>j DEF Scores, AfterScore, Outdated, DeskSteps, ReplayHit, Goes, Jobs
  <2> QED BY <2>2, <2>3
<1>2. CASE OpenRound(s)
  <2>1. UNCHANGED <<sheet, savedAt>> /\ sheet[job[s].item] = "unsaved" /\ job'[s].pc \in {"answer", "insertHit"}
    BY <1>2, <1>j DEF OpenRound, world, HitInHand, At, Goes, Jobs
  <2>2. Explained'
    BY <2>1, <1>g, <1>j, <1>m, StillExplained
  <2>3. Scores(job[s])'
    BY <2>1, <1>g, <1>n DEF Scores, DeskSteps
  <2> QED BY <2>2, <2>3
<1>3. CASE InsertHit(s)
  <2>0. job'[s].pc \in {"replay", "row"}
    BY <1>3, <1>j DEF InsertHit, Goes, Jobs
  <2>1. Scores(job[s])'
    BY <2>0, <1>g, <1>o, <1>n DEF Scores, AfterScore, DeskSteps
  <2>2. CASE UNCHANGED <<sheet, savedAt, now>>
    <3>1. Explained'
      BY <2>2, <1>g, <1>j, <1>m, StillExplained
    <3> QED BY <2>1, <3>1
  <2>3. CASE ~UNCHANGED <<sheet, savedAt, now>>
    <3>1. sheet' = [sheet EXCEPT ![job[s].item] = "live"]
      BY <1>3, <2>3 DEF InsertHit
    <3>2. sheet'[job[s].item] = "live" /\ job[s].item \notin answered'
      BY <3>1, <1>j, <1>o, <1>g, <1>n
    <3>3. Explained'
      BY <1>o, <3>2 DEF Explained, Unanswered
    <3> QED BY <2>1, <3>3
  <2> QED BY <2>2, <2>3
<1> QED BY <1>1, <1>2, <1>3

LEMMA RecomputeScores ==
  ASSUME Typed, NEW s \in Slots, Slots = {s}, Explained, Scores(job[s]),
         LoadRow(s) \/ LoadSheet(s) \/ Context(s) \/ UncompleteBestEffort(s) \/ WriteScore(s)
  PROVE  Explained' /\ Scores(job[s])'
<1>j. /\ job \in [Slots -> Jobs] /\ job[s] \in Jobs /\ Carries(job[s])
      /\ savedAt \in [Hits -> Nat] /\ bout \in Rows /\ bout.mark \in Nat
  BY DEF Typed, BoutTypeOK, ItemOK, StoreOK, Rows
<1>q. ASSUME UNCHANGED <<bout, sheet, savedAt, answered>>, job'[s].op = job[s].op,
             job[s].pc \in {"row", "sheet", "context", "undo", "write"},
             job'[s].pc \in {"row", "sheet", "context", "undo", "write"}
      PROVE  Explained'
  BY <1>q, <1>j, StillExplained DEF Mends
<1>1. CASE LoadRow(s)
  <2>1. /\ UNCHANGED <<bout, sheet, savedAt, answered>> /\ job'[s].op = job[s].op /\ job[s].pc = "row"
        /\ job'[s].item = job[s].item /\ job'[s].pc = "sheet"
    BY <1>1, <1>j DEF LoadRow, world, pad, At, Jobs
  <2>2. Scores(job[s])'
    BY <2>1, StillScores DEF AfterScore, DeskSteps
  <2> QED BY <2>1, <2>2, <1>q
<1>2. CASE LoadSheet(s)
  <2>1. /\ UNCHANGED <<bout, sheet, savedAt, answered>> /\ job'[s].op = job[s].op /\ job[s].pc = "sheet"
        /\ job'[s].item = job[s].item /\ job'[s].pc \in {"context", "write"}
        /\ job'[s].plan.red = PointsOn(sheet, "red") /\ job'[s].plan.blue = PointsOn(sheet, "blue")
    BY <1>2, <1>j DEF LoadSheet, world, pad, At, Jobs
  <2>2. \A x : PointsOn(sheet, x)' = PointsOn(sheet, x)
    BY <2>1 DEF PointsOn
  <2>3. Scores(job[s])'
    BY <2>1, <2>2 DEF Scores, AfterScore, DeskSteps
  <2> QED BY <2>1, <2>3, <1>q
<1>3. CASE Context(s)
  <2>1. /\ UNCHANGED <<bout, sheet, savedAt, answered>> /\ job'[s].op = job[s].op /\ job[s].pc = "context"
        /\ job'[s].item = job[s].item /\ job'[s].pc \in {"undo", "write"}
        /\ job'[s].plan.red = job[s].plan.red /\ job'[s].plan.blue = job[s].plan.blue
    BY <1>3, ContextGoes
  <2>2. \A x : PointsOn(sheet, x)' = PointsOn(sheet, x)
    BY <2>1 DEF PointsOn
  <2>3. Scores(job[s])'
    BY <2>1, <2>2 DEF Scores, AfterScore, DeskSteps
  <2> QED BY <2>1, <2>3, <1>q
<1>4. CASE UncompleteBestEffort(s)
  <2>1. /\ UNCHANGED <<bout, sheet, savedAt, answered>> /\ job'[s].op = job[s].op /\ job[s].pc = "undo"
        /\ job'[s].item = job[s].item /\ job'[s].pc = "write"
        /\ job'[s].plan.red = job[s].plan.red /\ job'[s].plan.blue = job[s].plan.blue
    BY <1>4, <1>j DEF UncompleteBestEffort, world, pad, At, Goes, Jobs, Plans
  <2>2. \A x : PointsOn(sheet, x)' = PointsOn(sheet, x)
    BY <2>1 DEF PointsOn
  <2>3. Scores(job[s])'
    BY <2>1, <2>2 DEF Scores, AfterScore, DeskSteps
  <2> QED BY <2>1, <2>3, <1>q
<1>5. CASE WriteScore(s)
  <2>1. /\ sheet' = sheet /\ answered' = answered /\ job'[s].op = job[s].op /\ job[s].pc = "write"
        /\ job'[s].item = job[s].item
        /\ job'[s].pc \in {Counted(job[s]), "autoEnd", "changed"}
    BY <1>5, <1>j DEF WriteScore, world, pad, At, Goes, Jobs
  <2>2. bout'.red = job[s].plan.red /\ bout'.blue = job[s].plan.blue
    BY <1>5, <1>j DEF WriteScore, Scored, Rows
  <2>3. \A x : PointsOn(sheet, x)' = PointsOn(sheet, x)
    BY <2>1 DEF PointsOn
  <2>4. Fresh'
    BY <2>1, <2>2, <2>3 DEF Scores, Fresh
  <2>5. /\ job'[s].pc \notin {"context", "undo", "write", "giveBack"} \cup DeskSteps
        /\ job'[s].pc = "verify" => job[s].op = "press"
    BY <2>1 DEF Counted, IsStart, DeskSteps
  <2> QED BY <2>1, <2>4, <2>5, FreshScores
<1> QED BY <1>1, <1>2, <1>3, <1>4, <1>5

\* The steps that end a request, with the bracket or the clock.
LEMMA TellScores ==
  ASSUME Typed, NEW s \in Slots, Slots = {s}, Explained, Scores(job[s]),
         \/ ResultChanged(s) \/ Tell(s) \/ AutoEnd(s) \/ InsertPress(s) \/ CompleteOnEnd(s)
         \/ EndLostTo(s) \/ TakeBackRow(s)
  PROVE  Explained' /\ Scores(job[s])'
<1>j. /\ job \in [Slots -> Jobs] /\ job[s] \in Jobs /\ Carries(job[s])
      /\ savedAt \in [Hits -> Nat] /\ bout \in Rows /\ bout.mark \in Nat
  BY DEF Typed, BoutTypeOK, ItemOK, StoreOK, Rows
<1>o. job[s].pc \in AfterScore \ {"answer"} /\ ~Mends(job[s])
  BY DEF ResultChanged, Tell, AutoEnd, InsertPress, CompleteOnEnd, EndLostTo, TakeBackRow, At,
         AfterScore, Mends
<1>w. /\ UNCHANGED <<sheet, savedAt, answered>>
      /\ bout'.red = bout.red /\ bout'.blue = bout.blue /\ bout'.mark = bout.mark
  <2>1. CASE CompleteOnEnd(s)
    BY <2>1, <1>j DEF CompleteOnEnd, Ended, Rows, world, pad
  <2>2. CASE ~CompleteOnEnd(s)
    BY <2>2 DEF ResultChanged, Tell, AutoEnd, InsertPress, EndLostTo, TakeBackRow, world, pad
  <2> QED BY <2>1, <2>2
<1>p. /\ job'[s].op = job[s].op /\ job'[s].item = job[s].item
      /\ job'[s].pc \in AfterScore \cup {"press", "playWrite", "verify"}
      /\ job'[s].pc = "verify" => job[s].op = "press"
  <2>1. CASE AutoEnd(s)
    BY <2>1, AutoEndGoes DEF AfterScore
  <2>2. CASE InsertPress(s)
    BY <2>2, <1>j DEF InsertPress, Goes, Jobs, AfterScore
  <2>3. CASE ~AutoEnd(s) /\ ~InsertPress(s)
    BY <2>3, <1>j DEF ResultChanged, Tell, CompleteOnEnd, EndLostTo, TakeBackRow, Goes, Jobs,
       AfterScore, Counted, IsStart
  <2> QED BY <2>1, <2>2, <2>3
<1>1. Explained'
  BY <1>j, <1>o, <1>w, StillExplained
<1>2. CASE job'[s].pc # "verify"
  <2>1. Scores(job[s])'
    BY <1>2, <1>o, <1>w, <1>p, StillScores DEF AfterScore, DeskSteps
  <2> QED BY <1>1, <2>1
<1>3. CASE job'[s].pc = "verify"
  BY <1>1, <1>3, <1>p DEF Scores, DeskSteps, AfterScore
<1> QED BY <1>2, <1>3

\* The steps of a press before and after its row.
LEMMA PressScores ==
  ASSUME Typed, NEW s \in Slots, Slots = {s}, Explained, Scores(job[s]),
         \/ TakePress(s) \/ PressRow(s) \/ Judge(s) \/ AskSheet(s) \/ WriteInPlay(s) \/ FinishSaved(s)
         \/ FinishEnd(s) \/ FinishPlay(s) \/ CountAtStart(s) \/ VerifyCount(s)
  PROVE  Explained' /\ Scores(job[s])'
<1>j. /\ job \in [Slots -> Jobs] /\ job[s] \in Jobs /\ Carries(job[s])
      /\ savedAt \in [Hits -> Nat] /\ bout \in Rows /\ bout.mark \in Nat
  BY DEF Typed, BoutTypeOK, ItemOK, StoreOK, Rows
<1>o. job[s].pc \in PressSteps \cup {"verify"}
  BY DEF TakePress, PressRow, Judge, AskSheet, WriteInPlay, FinishSaved, FinishEnd, FinishPlay,
         CountAtStart, VerifyCount, At, PressSteps
<1>p. job[s].op = "press" /\ ~Mends(job[s])
  BY <1>o, <1>j DEF Carries, Scores, Mends
<1>w. /\ UNCHANGED <<sheet, savedAt, answered>>
      /\ bout'.red = bout.red /\ bout'.blue = bout.blue /\ bout'.mark = bout.mark
  <2>1. CASE WriteInPlay(s) \/ FinishEnd(s) \/ FinishPlay(s)
    BY <2>1, <1>j DEF WriteInPlay, FinishEnd, FinishPlay, Ended, Rows, world, pad
  <2>2. CASE ~(WriteInPlay(s) \/ FinishEnd(s) \/ FinishPlay(s))
    BY <2>2 DEF TakePress, PressRow, Judge, AskSheet, FinishSaved, CountAtStart, VerifyCount, world, pad
  <2> QED BY <2>1, <2>2
<1>1. Explained'
  BY <1>j, <1>p, <1>w, StillExplained
<1>2. /\ job'[s].op \in {"press", "none"}
      /\ job'[s].pc \notin {"context", "undo", "write", "verify", "giveBack"} \cup DeskSteps
  <2>1. CASE AskSheet(s) \/ FinishSaved(s)
    BY <2>1, <1>p, AskSheetGoes, FinishSavedGoes DEF DeskSteps
  <2>2. CASE TakePress(s) \/ PressRow(s) \/ Judge(s) \/ CountAtStart(s)
    BY <2>2, <1>p, <1>j DEF TakePress, PressRow, Judge, CountAtStart, Goes, Taken, Jobs, DeskSteps
  <2>3. CASE WriteInPlay(s) \/ FinishEnd(s) \/ FinishPlay(s)
    BY <2>3, <1>p, <1>j DEF WriteInPlay, FinishEnd, FinishPlay, Goes, Taken, Jobs, DeskSteps
  <2>4. CASE VerifyCount(s)
    BY <2>4, <1>p, <1>j DEF VerifyCount, NoJob, Jobs, DeskSteps
  <2> QED BY <2>1, <2>2, <2>3, <2>4
<1>3. Scores(job[s])'
  BY <1>2 DEF Scores
<1> QED BY <1>1, <1>3

LEMMA DeskScores ==
  ASSUME Typed, NEW s \in Slots, Slots = {s}, Unbroken, InLine(job[s]), HitInHand(job[s]),
         Explained, Scores(job[s]),
         FlipHit(s) \/ GiveBack(s) \/ VoidSheet(s) \/ DeskSeq(s) \/ DeskRow(s) \/ DeskWrite(s)
  PROVE  Explained' /\ Scores(job[s])'
<1>j. /\ job \in [Slots -> Jobs] /\ job[s] \in Jobs /\ Carries(job[s]) /\ BoutTypeOK
      /\ savedAt \in [Hits -> Nat] /\ bout \in Rows /\ bout.mark \in Nat
      /\ now \in Nat /\ job[s].at \in Nat
  BY DEF Typed, BoutTypeOK, ItemOK, StoreOK, Rows, Jobs
<1>m. ASSUME Mends(job'[s]) PROVE Explained'
  BY <1>m DEF Explained, Mends
<1>1. CASE FlipHit(s)
  <2>1. job[s].op \in {"void", "restore"} /\ job'[s].op = job[s].op /\ job'[s].pc = "row"
    BY <1>1, <1>j DEF FlipHit, At, HitInHand, Goes, Jobs
  <2> QED BY <2>1, <1>m DEF Mends, Scores, DeskSteps
<1>2. CASE GiveBack(s)
  <2>1. /\ job[s].pc = "giveBack" /\ job'[s].op = job[s].op /\ job'[s].row = job[s].row
        /\ job'[s].pc \in {"answer", "voidSheet", "deskSeq"}
        /\ UNCHANGED <<bout, sheet, savedAt, answered>>
    BY <1>2, <1>j DEF GiveBack, At, Goes, Jobs, world, pad
  <2>2. job[s].op \in {"reset", "reopen"} /\ ~Mends(job[s])
    BY <2>1 DEF HitInHand, Mends
  <2>3. Explained'
    BY <2>1, <2>2, <1>j, StillExplained
  <2>4. Scores(job[s])'
    BY <2>1, <2>2 DEF Scores
  <2> QED BY <2>3, <2>4
<1>3. CASE VoidSheet(s)
  <2>1. job[s].op = "reset" /\ job'[s].op = job[s].op /\ job'[s].pc = "deskSeq"
    BY <1>3, <1>j DEF VoidSheet, At, HitInHand, Goes, Jobs
  <2> QED BY <2>1, <1>m DEF Mends, Scores
<1>4. CASE DeskSeq(s) \/ DeskRow(s)
  <2>1. /\ job[s].pc \in {"deskSeq", "deskRow"} /\ job'[s].op = job[s].op /\ job'[s].row = job[s].row
        /\ job'[s].pc \in {"deskRow", "deskWrite"}
        /\ UNCHANGED <<bout, sheet, savedAt, answered>>
    <3>1. CASE DeskSeq(s)
      BY <3>1, <1>j DEF DeskSeq, At, Jobs, world, pad
    <3>2. CASE DeskRow(s)
      <4>1. ~SeqTaken(job[s].seq)
        BY <3>2, <1>j, NextIsFree DEF DeskRow, At, InLine
      <4> QED BY <3>2, <4>1, <1>j DEF DeskRow, At, Jobs, pad
    <3> QED BY <1>4, <3>1, <3>2
  <2>2. job[s].op \in {"reset", "reopen"}
    BY <2>1 DEF HitInHand, DeskSteps
  <2>3. Explained'
    BY <2>1, <1>j, StillExplained DEF Mends
  <2>4. Scores(job[s])'
    BY <2>1, <2>2 DEF Scores, DeskSteps
  <2> QED BY <2>3, <2>4
<1>5. CASE DeskWrite(s)
  <2>1. /\ job[s].pc = "deskWrite" /\ job'[s].op = job[s].op /\ job'[s].item = job[s].item
        /\ job'[s].pc \in {"answer", "takeBack"} /\ UNCHANGED <<sheet, savedAt, answered>>
    BY <1>5, <1>j DEF DeskWrite, At, Goes, Jobs, world, pad
  <2>2. job[s].op \in {"reset", "reopen"}
    BY <2>1 DEF HitInHand, DeskSteps
  <2>3. Scores(job[s])'
    BY <2>1, <2>2 DEF Scores, DeskSteps
  <2>4. CASE job[s].op = "reset"
    <3>1. NoneLive /\ bout' = Unplayed
      BY <1>5, <2>1, <2>4 DEF HitInHand, DeskWrite
    <3>2. \A x \in Sides : PointsOn(sheet, x)' = 0
      BY <2>1, <3>1, NonePoints DEF PointsOn
    <3>3. Fresh'
      BY <3>1, <3>2 DEF Fresh, Unplayed, Sides
    <3> QED BY <2>3, <3>3 DEF Explained
  <2>5. CASE job[s].op = "reopen"
    <3>1. job[s].row = bout
      BY <2>1, <2>5 DEF Scores, DeskSteps
    <3>2. MarkOf(job[s]) \in Nat /\ MarkOf(job[s]) >= bout.mark
      BY <3>1, <1>j, LaterType DEF MarkOf
    <3>3. /\ bout'.red = bout.red /\ bout'.blue = bout.blue
          /\ bout'.mark \in {bout.mark, MarkOf(job[s])}
      BY <1>5, <2>5, <1>j DEF DeskWrite, Reopened, Rows
    <3>4. Explained'
      BY <2>1, <2>5, <3>2, <3>3, <1>j, StillExplained DEF Mends
    <3> QED BY <2>3, <3>4
  <2> QED BY <2>2, <2>4, <2>5
<1> QED BY <1>1, <1>2, <1>3, <1>4, <1>5

LEMMA AnswerScores ==
  ASSUME Typed, NEW s \in Slots, Slots = {s}, Explained, Scores(job[s]), Answer(s)
  PROVE  Explained' /\ Scores(job[s])'
<1>j. /\ job \in [Slots -> Jobs] /\ job[s] \in Jobs /\ Carries(job[s]) /\ Hits \cap Presses = {}
  BY BoutConstants DEF Typed, BoutTypeOK, ItemOK
<1>1. /\ job[s].pc = "answer" /\ job'[s] = NoJob /\ UNCHANGED <<bout, sheet, savedAt>>
      /\ answered' = IF job[s].op \in {"hit", "press"} THEN answered \cup {job[s].item} ELSE answered
  BY <1>j DEF Answer, At, world
<1>2. Scores(job[s])'
  BY <1>1 DEF Scores, NoJob, DeskSteps
<1>3. ~Mends(job[s])
  BY <1>1 DEF Mends
<1>4. Fresh => Fresh'
  BY <1>1 DEF Fresh, PointsOn
<1>5. \A h \in Hits : Outdated(h) => Outdated(h)'
  BY <1>1 DEF Outdated
<1>6. \A h \in Hits : Unanswered(h) => Unanswered(h)' \/ (job[s].op = "hit" /\ job[s].item = h)
  BY <1>1, <1>j DEF Unanswered, Carries
<1>7. \A h \in Hits : Unanswered(h) /\ job[s].op = "hit" /\ job[s].item = h => Fresh \/ Outdated(h)
  BY <1>1 DEF Unanswered, Scores, AfterScore
<1>8. Explained'
  BY <1>3, <1>4, <1>5, <1>6, <1>7 DEF Explained
<1> QED BY <1>2, <1>8

LEMMA NextScore ==
  ASSUME NEW one, Slots = {one}, Mortal \subseteq {"hit", "press"}
  PROVE  Typed /\ ClockKept /\ SheetKept /\ ScoreKept /\ [Next]_vars => ScoreKept'
<1> SUFFICES ASSUME Typed, ClockKept, SheetKept, ScoreKept, [Next]_vars PROVE ScoreKept'
  OBVIOUS
<1>a. /\ one \in Slots /\ Unbroken /\ InLine(job[one]) /\ SheetTimes /\ HitInHand(job[one])
      /\ Explained /\ Scores(job[one])
  BY DEF ClockKept, SheetKept, ScoreKept
<1>q. ASSUME Explained', Scores(job[one])' PROVE ScoreKept'
  BY <1>q DEF ScoreKept
<1>t. savedAt \in [Hits -> Nat] /\ bout.mark \in Nat
  BY DEF Typed, BoutTypeOK, StoreOK, Rows
<1>1. CASE Serve(one)
  BY <1>1, <1>a, <1>q, HitScores, RecomputeScores, TellScores, PressScores, DeskScores, AnswerScores
     DEF Serve
<1>2. CASE Sends(one) \/ Crash(one) \/ (\E h \in Hits : VoidExchange(one, h) \/ RevertVoid(one, h))
           \/ Reopen(one) \/ ResetMatch(one)
  <2>1. UNCHANGED <<bout, sheet, savedAt, answered>>
    BY <1>2, <1>a, AsksWriteNothing
  <2>2. ~Mends(job[one])
    <3>1. CASE Crash(one)
      BY <3>1 DEF Crash, Mends
    <3>2. CASE ~Crash(one)
      <4>1. At(one, "idle")
        BY <1>2, <3>2 DEF Sends, SendHit, SendPress, Send, VoidExchange, RevertVoid, Corrects,
           Reopen, ResetMatch, AsksBack, Asks
      <4> QED BY <4>1 DEF At, Mends
    <3> QED BY <3>1, <3>2
  <2>3. Explained'
    BY <2>1, <2>2, <1>a, <1>t, StillExplained
  <2>4. Scores(job[one])'
    BY <1>2, <1>a, <2>1, AsksHold DEF Scores, AfterScore, DeskSteps, NoJob
  <2> QED BY <2>3, <2>4, <1>q
<1>3. CASE FightNext \/ (\E i \in Items : Make(i)) \/ UNCHANGED vars
  <2>1. UNCHANGED <<bout, sheet, savedAt, answered, job>>
    BY <1>3 DEF FightNext, Make, vars, world, pad
  <2>2. Explained'
    BY <2>1, <1>a, <1>t, StillExplained
  <2>3. Scores(job[one])'
    BY <2>1, <1>a DEF Scores, Fresh, Outdated, PointsOn
  <2> QED BY <2>2, <2>3, <1>q
<1> QED BY <1>1, <1>2, <1>3 DEF Next

-----------------------------------------------------------------------------
(* The cap.                                                                *)
LEMMA ReopenIsOpen ==
  ASSUME NEW row, NEW r, NEW b, NEW f, Correction(row, r, b, f) = "reopen"
  PROVE  ~Over(r, b)
  BY DEF Correction

LEMMA NoughtIsOpen == ~Over(0, 0)
  BY BoutConstants DEF Over

LEMMA ServeCap ==
  ASSUME Typed, NEW s \in Slots, Alone(job[s]), HitInHand(job[s]), OpenBoard, Decides(job[s]), Serve(s)
  PROVE  OpenBoard' /\ Decides(job[s])'
<1>j. /\ job \in [Slots -> Jobs] /\ job[s] \in Jobs /\ Carries(job[s])
      /\ bout \in Rows /\ bout.mark \in Nat /\ now \in Nat /\ job[s].at \in Nat /\ job[s].row \in Rows
  BY DEF Typed, BoutTypeOK, ItemOK, StoreOK, Rows, Jobs
<1>d. ASSUME job'[s].pc \notin {"undo", "write", "deskWrite"} PROVE Decides(job[s])'
  BY <1>d DEF Decides
<1>b. ASSUME bout'.red = bout.red, bout'.blue = bout.blue, bout'.mark = bout.mark,
             bout'.status = "completed" \/ bout.status # "completed"
      PROVE  OpenBoard'
  BY <1>b DEF OpenBoard
<1>c. ASSUME bout' = bout PROVE OpenBoard'
  BY <1>c DEF OpenBoard
<1>1. CASE \/ ReplayHit(s) \/ OpenRound(s) \/ InsertHit(s) \/ LoadRow(s)
           \/ ResultChanged(s) \/ Tell(s) \/ CountAtStart(s) \/ VerifyCount(s) \/ Answer(s)
  BY <1>1, <1>j, <1>c, <1>d DEF ReplayHit, OpenRound, InsertHit, LoadRow, ResultChanged, Tell,
     CountAtStart, VerifyCount, Answer, Goes, Jobs, Counted, NoJob
<1>2. CASE TakePress(s) \/ PressRow(s) \/ Judge(s) \/ InsertPress(s) \/ EndLostTo(s) \/ TakeBackRow(s)
  BY <1>2, <1>j, <1>c, <1>d DEF TakePress, PressRow, Judge, InsertPress, EndLostTo, TakeBackRow,
     Goes, Jobs, Taken
<1>3. CASE FlipHit(s) \/ GiveBack(s) \/ VoidSheet(s) \/ DeskSeq(s)
  BY <1>3, <1>j, <1>c, <1>d DEF FlipHit, GiveBack, VoidSheet, DeskSeq, Goes, Jobs
<1>4. CASE AutoEnd(s) \/ AskSheet(s) \/ FinishSaved(s)
  BY <1>4, <1>c, <1>d, AutoEndGoes, AskSheetGoes, FinishSavedGoes
<1>5. CASE WriteInPlay(s) \/ FinishPlay(s) \/ CompleteOnEnd(s) \/ FinishEnd(s)
  <2>1. /\ bout'.red = bout.red /\ bout'.blue = bout.blue /\ bout'.mark = bout.mark
        /\ bout' = bout \/ bout'.status = "completed" \/ bout.status # "completed"
    BY <1>5, <1>j DEF WriteInPlay, FinishPlay, CompleteOnEnd, FinishEnd, Ended, Rows
  <2>2. job'[s].pc \notin {"undo", "write", "deskWrite"}
    BY <1>5, <1>j DEF WriteInPlay, FinishPlay, CompleteOnEnd, FinishEnd, Goes, Jobs, Taken
  <2> QED BY <2>1, <2>2, <1>b, <1>c, <1>d
<1>LoadSheet. CASE LoadSheet(s)
  <2> DEFINE red == PointsOn(sheet, "red")
             blue == PointsOn(sheet, "blue")
  <2>1. job[s].row = bout /\ bout' = bout
    BY <1>LoadSheet DEF LoadSheet, At, Alone
  <2>2. /\ job'[s].plan.red = red /\ job'[s].plan.blue = blue
        /\ job'[s].plan.does = IF Over(red, blue) /\ bout.status # "completed" THEN "complete" ELSE "score"
        /\ job'[s].pc = IF bout.status = "completed" THEN "context" ELSE "write"
    BY <1>LoadSheet, <2>1, <1>j DEF LoadSheet, Jobs
  <2> HIDE DEF red, blue
  <2>3. Decides(job[s])'
    BY <2>1, <2>2 DEF Decides
  <2> QED BY <2>1, <2>3, <1>c
<1>Context. CASE Context(s)
  <2> DEFINE out == Correction(job[s].row, job[s].plan.red, job[s].plan.blue, fed.fought)
             does == IF out = "refuse" THEN "score" ELSE out
             pc == IF out = "reopen" THEN "undo" ELSE "write"
  <2>1. job' = [job EXCEPT ![s].plan.does = does, ![s].pc = pc]
    BY <1>Context DEF Context
  <2>2. bout.status = "completed" /\ bout' = bout
    BY <1>Context DEF Context, At, Alone
  <2>3. /\ pc = "undo" => ~Over(job[s].plan.red, job[s].plan.blue)
        /\ pc \in {"undo", "write"} /\ (pc = "write" => does # "reopen")
    BY ReopenIsOpen
  <2> HIDE DEF out, does, pc
  <2>4. /\ job'[s].plan.does = does /\ job'[s].pc = pc
        /\ job'[s].plan.red = job[s].plan.red /\ job'[s].plan.blue = job[s].plan.blue
    BY <2>1, <1>j DEF Jobs, Plans
  <2>5. Decides(job[s])'
    BY <2>2, <2>3, <2>4 DEF Decides
  <2> QED BY <2>2, <2>5, <1>c
<1>UncompleteBestEffort. CASE UncompleteBestEffort(s)
  <2>1. job[s].pc = "undo" /\ bout' = bout
    BY <1>UncompleteBestEffort DEF UncompleteBestEffort, At
  <2>2. bout.status = "completed" /\ ~Over(job[s].plan.red, job[s].plan.blue)
    BY <2>1 DEF Decides
  <2>3. /\ job'[s].pc = "write"
        /\ job'[s].plan.red = job[s].plan.red /\ job'[s].plan.blue = job[s].plan.blue
    BY <1>UncompleteBestEffort, <1>j DEF UncompleteBestEffort, Goes, Jobs, Plans
  <2>4. Decides(job[s])'
    BY <2>1, <2>2, <2>3 DEF Decides
  <2> QED BY <2>1, <2>4, <1>c
<1>WriteScore. CASE WriteScore(s)
  <2>1. job[s].pc = "write"
    BY <1>WriteScore DEF WriteScore, At
  <2>2. Decides(job[s])'
    BY <1>WriteScore, <1>j, <1>d DEF WriteScore, Goes, Jobs, Counted
  <2>3. CASE job[s].plan.does = "score"
    <3>1. bout' = Scored(bout, job[s].plan)
      BY <1>WriteScore, <2>3 DEF WriteScore
    <3>2. /\ bout'.red = job[s].plan.red /\ bout'.blue = job[s].plan.blue
          /\ bout'.status = bout.status
      BY <3>1, <1>j DEF Scored, Rows
    <3>3. bout.status = "completed" \/ ~Over(job[s].plan.red, job[s].plan.blue)
      BY <2>1, <2>3 DEF Decides
    <3> QED BY <2>2, <3>2, <3>3 DEF OpenBoard
  <2>4. CASE job[s].plan.does = "reopen"
    <3>1. bout'.red = job[s].plan.red /\ bout'.blue = job[s].plan.blue
      BY <1>WriteScore, <2>4, <1>j DEF WriteScore, Scored, Rows
    <3>2. ~Over(job[s].plan.red, job[s].plan.blue)
      BY <2>1, <2>4 DEF Decides
    <3> QED BY <2>2, <3>1, <3>2 DEF OpenBoard
  <2>5. CASE job[s].plan.does \notin {"score", "reopen"}
    <3>1. bout'.status = "completed"
      BY <1>WriteScore, <2>1, <2>5, <1>j DEF WriteScore, Scored, Rows, Alone
    <3> QED BY <2>2, <3>1 DEF OpenBoard
  <2> QED BY <2>3, <2>4, <2>5
<1>DeskRow. CASE DeskRow(s)
  <2>1. /\ bout' = bout /\ job'[s].pc \in {"answer", "deskWrite"}
        /\ job'[s].pc = "deskWrite" => job'[s].at = now + 1
    BY <1>DeskRow, <1>j DEF DeskRow, Goes, Jobs
  <2>2. Decides(job[s])'
    BY <2>1, <1>j DEF Decides
  <2> QED BY <2>1, <2>2, <1>c
<1>DeskWrite. CASE DeskWrite(s)
  <2>1. Decides(job[s])'
    BY <1>DeskWrite, <1>j, <1>d DEF DeskWrite, Goes, Jobs
  <2>2. CASE job[s].op = "reset"
    <3>1. bout' = Unplayed
      BY <1>DeskWrite, <2>2 DEF DeskWrite
    <3> QED BY <2>1, <3>1, NoughtIsOpen DEF OpenBoard, Unplayed
  <2>3. CASE job[s].op # "reset" /\ job[s].row.status = "completed"
    <3>1. bout' = [Reopened EXCEPT !.mark = MarkOf(job[s])]
      BY <1>DeskWrite, <2>3 DEF DeskWrite
    <3>2. MarkOf(job[s]) \in Nat /\ MarkOf(job[s]) # 0
      <4>1. job[s].at > 0
        BY <1>DeskWrite DEF DeskWrite, At, Decides
      <4>2. job[s].row.mark \in Nat
        BY <1>j DEF Rows
      <4>3. /\ Later(job[s].at, job[s].row.mark) \in Nat
            /\ Later(job[s].at, job[s].row.mark) >= job[s].at
        BY <4>2, <1>j, LaterType
      <4>4. MarkOf(job[s]) = Later(job[s].at, job[s].row.mark)
        BY <4>1 DEF MarkOf
      <4> QED BY <4>1, <4>3, <4>4, <1>j
    <3>3. bout'.mark = MarkOf(job[s])
      BY <3>1, <1>j DEF Reopened, Rows
    <3> QED BY <2>1, <3>2, <3>3 DEF OpenBoard
  <2>4. CASE job[s].op # "reset" /\ job[s].row.status # "completed"
    <3>1. bout' = bout \/ (bout' = Reopened /\ bout.status # "completed")
      BY <1>DeskWrite, <2>4 DEF DeskWrite
    <3>2. /\ Reopened.red = bout.red /\ Reopened.blue = bout.blue /\ Reopened.mark = bout.mark
      BY <1>j DEF Reopened, Rows
    <3> QED BY <2>1, <3>1, <3>2, <1>b, <1>c
  <2> QED BY <2>2, <2>3, <2>4
<1> QED BY <1>1, <1>2, <1>3, <1>4, <1>5, <1>LoadSheet, <1>Context, <1>UncompleteBestEffort,
           <1>WriteScore, <1>DeskRow, <1>DeskWrite DEF Serve

LEMMA NextCap ==
  ASSUME NEW one, Slots = {one}
  PROVE  Typed /\ OneKept /\ SheetKept /\ CapKept /\ [Next]_vars => CapKept'
<1> SUFFICES ASSUME Typed, OneKept, SheetKept, CapKept, [Next]_vars PROVE CapKept'
  OBVIOUS
<1>a. /\ one \in Slots /\ Alone(job[one]) /\ HitInHand(job[one]) /\ OpenBoard /\ Decides(job[one])
  BY DEF OneKept, SheetKept, CapKept
<1>q. ASSUME OpenBoard', Decides(job[one])' PROVE CapKept'
  BY <1>q DEF CapKept
<1>1. CASE Serve(one)
  BY <1>1, <1>a, <1>q, ServeCap
<1>2. CASE Sends(one) \/ Crash(one) \/ (\E h \in Hits : VoidExchange(one, h) \/ RevertVoid(one, h))
           \/ Reopen(one) \/ ResetMatch(one)
  <2>1. bout' = bout /\ job'[one].pc \notin {"undo", "write", "deskWrite"}
    BY <1>2, <1>a, AsksOne
  <2> QED BY <2>1, <1>a, <1>q DEF OpenBoard, Decides
<1>3. CASE FightNext \/ (\E i \in Items : Make(i)) \/ UNCHANGED vars
  <2>1. bout' = bout /\ job' = job
    BY <1>3 DEF FightNext, Make, vars
  <2> QED BY <2>1, <1>a, <1>q DEF OpenBoard, Decides
<1> QED BY <1>1, <1>2, <1>3 DEF Next

LEMMA InitScore ==
  ASSUME Init
  PROVE  ScoreKept /\ CapKept /\ OneKept
<1>1. NoneLive
  BY DEF Init, NoneLive
<1>2. Fresh
  BY <1>1, NonePoints DEF Init, Fresh, Unplayed, Sides
<1>3. ScoreKept
  BY <1>2 DEF Init, ScoreKept, Explained, Scores, NoJob, DeskSteps
<1>4. CapKept
  BY NoughtIsOpen DEF Init, CapKept, OpenBoard, Decides, NoJob, Unplayed
<1>5. OneKept
  BY DEF Init, OneKept, NoWinnerInPlay, FedFromCompleted, Alone, NoJob, Unplayed, NotFed, DeskSteps
<1> QED BY <1>3, <1>4, <1>5

\* A settled bout whose live hits all count has their score.
LEMMA SettledIsFresh ==
  ASSUME Typed, ScoreKept, Settled, \A h \in Hits : sheet[h] = "live" => bout.mark < savedAt[h]
  PROVE  Fresh
<1>1. \A s \in Slots : ~Mends(job[s])
  BY DEF Settled, At, Mends
<1>2. bout.mark \in Nat /\ savedAt \in [Hits -> Nat]
  BY DEF Typed, BoutTypeOK, StoreOK, Rows
<1>3. \A h \in Hits : ~Unanswered(h) /\ ~Outdated(h)
  BY <1>2 DEF Settled, Unanswered, Outdated
<1> QED BY <1>1, <1>3 DEF ScoreKept, Explained

(* What both theorems rest on: the clock, the sheet, the score and the cap *)
(* are kept together.                                                      *)
LEMMA BoardAlways ==
  (\E one : Slots = {one}) /\ Mortal \subseteq {"hit", "press"} =>
    (Spec => [](ScoreIsTheSheet /\ CapIsCounted))
<1> SUFFICES ASSUME NEW one, Slots = {one}, Mortal \subseteq {"hit", "press"}
             PROVE  Spec => [](ScoreIsTheSheet /\ CapIsCounted)
  OBVIOUS
<1> DEFINE Kept == OneKept /\ ScoreKept /\ CapKept
<1>1. Init => Kept
  BY InitScore
<1>2. Typed /\ ClockKept /\ SheetKept /\ Kept /\ [Next]_vars => Kept'
  BY NextAlone, NextScore, NextCap
<1>3. Typed /\ SheetKept /\ Kept => ScoreIsTheSheet /\ CapIsCounted
  <2> SUFFICES ASSUME Typed, SheetKept, Kept PROVE ScoreIsTheSheet /\ CapIsCounted
    OBVIOUS
  <2>1. ScoreIsTheSheet
    BY SettledIsFresh DEF ScoreIsTheSheet, Fresh
  <2>2. ASSUME Settled, InPlay, bout.mark = 0
        PROVE  ~Over(PointsOn(sheet, "red"), PointsOn(sheet, "blue"))
    <3>1. \A h \in Hits : sheet[h] = "live" => bout.mark < savedAt[h]
      BY <2>2 DEF SheetKept, SheetTimes
    <3>2. Fresh
      BY <2>2, <3>1, SettledIsFresh
    <3>3. OpenBoard
      BY DEF CapKept
    <3> QED BY <2>2, <3>2, <3>3 DEF OpenBoard, InPlay, Fresh
  <2> QED BY <2>1, <2>2 DEF CapIsCounted
<1> HIDE DEF Kept
<1> QED BY <1>1, <1>2, <1>3, SheetAlways, PTL DEF Spec

(* A server with one request in hand at a time, whose tablets send again   *)
(* what was not answered, has no hit left out: when all is answered the    *)
(* score on the row is the sheet's, wherever a hit or a press died         *)
(* (createExchange, scoreReplayedHit, recomputeMatchScore).  A request of  *)
(* the desk that dies is not sent again, and is left out.                  *)
THEOREM ScoreIsKept ==
  (\E one : Slots = {one}) /\ Mortal \subseteq {"hit", "press"} => (Spec => []ScoreIsTheSheet)
  BY BoardAlways, PTL

(* Nor is, on that server, a bout that no door put back in play open over  *)
(* a sheet that ends it (recomputeFromSheet, scoreReplayedHit).            *)
THEOREM CapIsKept ==
  (\E one : Slots = {one}) /\ Mortal \subseteq {"hit", "press"} => (Spec => []CapIsCounted)
  BY BoardAlways, PTL
=============================================================================
