------------------------------ MODULE Bracket -------------------------------
(***************************************************************************)
(* A bracket on the server: who is in each slot, what the row of its bout  *)
(* says, and the requests that carry results from bout to bout or take     *)
(* them back (apps/api/src/modules/phases: bracket-advance.service.ts,     *)
(* bracket-match-sync.ts, bracket-downstream.ts, bracket-dependents.ts,    *)
(* match-completion.service.ts).                                           *)
(*                                                                         *)
(* A slot is fed by matching references: a side that takes the winner or   *)
(* the loser of a reference belongs to the slot whose own reference it is. *)
(* There is no transaction: each write is a step, reads that follow one    *)
(* another with no write between are one step, and other requests step in  *)
(* between.  A request may die after any step.  How a bout is fought is    *)
(* the module Bout; here it starts, and ends with a winner or without one. *)
(***************************************************************************)
EXTENDS Integers, FiniteSets

CONSTANTS
  Slots,       \* the slots of the phase
  Round,       \* the round each slot is of
  SelfRef,     \* the reference each slot goes by
  Source,      \* what each side of each slot takes: a seed, a winner or a loser
  SeedOn,      \* the fighter on each seeded side
  GrandFinal,  \* the grand final that has a second one behind it, or NoSlot
  Fighters,
  Requests,    \* the requests the server can have in hand at once
  Asked,       \* beside completions that name a winner: "draw", and what may be
               \* asked of a completed bout: "again", "undo", "discard", "change"
  MaxAsked,    \* bound: requests asked of completed bouts
  Mortal,      \* the requests that may die
  MaxCrashes,  \* bound: requests that die
  Nobody,
  NoSlot

Sides  == {"a", "b"}
People == Fighters \cup {Nobody}

\* A reference names one slot, and a seeded side has its fighter.
ASSUME BracketConstants ==
  /\ Nobody \notin Fighters /\ NoSlot \notin Slots
  /\ GrandFinal \in Slots \cup {NoSlot}
  /\ Round \in [Slots -> Nat]
  /\ \A s, t \in Slots : SelfRef[s] = SelfRef[t] => s = t
  /\ \A s \in Slots : \A x \in Sides :
       /\ Source[s][x].takes \in {"seed", "winner", "loser"}
       /\ Source[s][x].takes = "seed" => SeedOn[s][x] \in Fighters
  /\ Asked \subseteq {"draw", "again", "undo", "discard", "change"}
  /\ Mortal \subseteq {"complete", "undo", "discard", "change"}
  /\ MaxAsked \in Nat /\ MaxCrashes \in Nat

VARIABLES
  side,     \* registration_a_id and registration_b_id of each slot
  row,      \* the row of `matches` of each slot
  job,      \* the request in hand
  asked,    \* requests made of completed bouts so far
  crashes   \* requests that died so far

vars  == <<side, row, job, asked, crashes>>
count == <<asked, crashes>>

-----------------------------------------------------------------------------
(* The references.                                                         *)

Takes(d, x, s) == Source[d][x].takes # "seed" /\ Source[d][x].ref = SelfRef[s]

\* The slots a bout feeds directly.
Fed(s) == {d \in Slots : \E x \in Sides : Takes(d, x, s)}

\* A bout feeds bouts of later rounds.
ASSUME RoundsGoOn ==
  /\ IsFiniteSet(Slots)
  /\ \A s \in Slots : \A d \in Fed(s) : Round[s] < Round[d]

(* dependentClosure: the slots a bout feeds, and the ones they feed.  A    *)
(* hop of the walk that finds no other slot ends it, so it is over after   *)
(* as many hops as there are slots.                                        *)
Closure(s) ==
  LET hop[n \in Nat] ==
        IF n = 0 THEN {s}
        ELSE LET seen == hop[n - 1] IN seen \cup UNION {Fed(d) : d \in seen}
  IN  (Slots \ {s}) \cap hop[Cardinality(Slots)]

\* The second grand final has both its fighters from the first.
ASSUME SecondFinal ==
  GrandFinal # NoSlot =>
    \A d \in Fed(GrandFinal) : \A x \in Sides : Takes(d, x, GrandFinal)

NoPair == [x \in Sides |-> Nobody]

NoRow == [status |-> "none", pair |-> NoPair, winner |-> Nobody]

Placeholder(pair) == [status |-> "scheduled", pair |-> pair, winner |-> Nobody]

Fought(r) == r.status \in {"running", "completed"}

Idle == [op |-> "none", slot |-> NoSlot, pc |-> "idle", winner |-> Nobody, loser |-> Nobody,
         copy |-> [s \in Slots |-> NoPair], at |-> NoSlot, todo |-> {}, later |-> {},
         fought |-> {}, clears |-> {}, to |-> "none"]

(* Seeds are placed, and every slot has its row but the second grand final *)
(* (createInitialBracketMatches).                                          *)
Init ==
  /\ side = [s \in Slots |-> [x \in Sides |->
               IF Source[s][x].takes = "seed" THEN SeedOn[s][x] ELSE Nobody]]
  /\ row = [s \in Slots |->
              IF GrandFinal # NoSlot /\ s \in Fed(GrandFinal) THEN NoRow
              ELSE Placeholder(side[s])]
  /\ job = [r \in Requests |-> Idle]
  /\ asked = 0 /\ crashes = 0

-----------------------------------------------------------------------------
At(r, pc) == job[r].pc = pc

Done(r) == job' = [job EXCEPT ![r] = Idle]

\* A step for each slot of a list, and what comes after the last.
NextOf(j, pc, rest, then) ==
  IF rest = {} /\ then = "idle" THEN Idle
  ELSE [j EXCEPT !.todo = rest, !.pc = IF rest = {} THEN then ELSE pc]

(* A bout whose row names two fighters starts.  Nothing checks it against  *)
(* its slot.                                                               *)
Start(r, s) ==
  /\ At(r, "idle")
  /\ row[s].status = "scheduled" /\ \A x \in Sides : row[s].pair[x] # Nobody
  /\ row' = [row EXCEPT ![s].status = "running"]
  /\ UNCHANGED <<side, job, count>>

\* A fighter of the row, or nobody.
MayWin(s, w) ==
  IF w = Nobody THEN "draw" \in Asked ELSE \E x \in Sides : w = row[s].pair[x]

(* A bout completes, for a winner or for nobody, and its request runs      *)
(* onMatchCompleted.                                                       *)
Complete(r, s, w) ==
  /\ At(r, "idle") /\ row[s].status = "running"
  /\ MayWin(s, w)
  /\ row' = [row EXCEPT ![s].status = "completed", ![s].winner = w]
  /\ job' = [job EXCEPT ![r] = [Idle EXCEPT !.op = "complete", !.slot = s, !.pc = "load"]]
  /\ UNCHANGED <<side, count>>

Asks(r, s, what) ==
  /\ At(r, "idle") /\ row[s].status = "completed"
  /\ what \in Asked /\ asked < MaxAsked /\ asked' = asked + 1

(* An End sent again, or a status written again, completes it once more.   *)
CompleteAgain(r, s) ==
  /\ Asks(r, s, "again")
  /\ job' = [job EXCEPT ![r] = [Idle EXCEPT !.op = "complete", !.slot = s, !.pc = "load"]]
  /\ UNCHANGED <<side, row, crashes>>

-----------------------------------------------------------------------------
(* onMatchCompleted.                                                       *)

\* resolveLoser, over the pairing of the slot and then of the row.
LoserOf(s, w) ==
  LET of == [x \in Sides |-> IF side[s][x] # Nobody THEN side[s][x] ELSE row[s].pair[x]]
  IN  IF w = of["a"] THEN of["b"] ELSE IF w = of["b"] THEN of["a"] ELSE Nobody

\* grandFinalEndsBracket
EndsBracket(s, w) == s = GrandFinal /\ w = side[s]["a"]

\* Mutant: the advance is skipped, and what the old result made stays.
Load_SkipsReset(r) ==
  LET s == job[r].slot
      w == row[s].winner
  IN
  /\ At(r, "load")
  /\ \/ /\ w = Nobody \/ EndsBracket(s, w)
        /\ Done(r)
     \/ /\ w # Nobody /\ ~EndsBracket(s, w)
        /\ job' = [job EXCEPT ![r].winner = w, ![r].loser = LoserOf(s, w), ![r].pc = "read"]
  /\ UNCHANGED <<side, row, count>>

Load(r) ==
  LET s == job[r].slot
      w == row[s].winner
  IN
  /\ At(r, "load")
  /\ \/ /\ w = Nobody /\ Done(r)
     \/ /\ w # Nobody /\ EndsBracket(s, w)
        /\ job' = [job EXCEPT ![r].pc = "retract", ![r].todo = Fed(s)]
     \/ /\ w # Nobody /\ ~EndsBracket(s, w)
        /\ job' = [job EXCEPT ![r].winner = w, ![r].loser = LoserOf(s, w), ![r].pc = "read"]
  /\ UNCHANGED <<side, row, count>>

\* advanceFromSlot reads the slots it feeds, once, with the sides they have.
ReadDownstream(r) ==
  LET fed == Fed(job[r].slot) IN
  /\ At(r, "read")
  /\ job' = [job EXCEPT ![r] = IF fed = {} THEN Idle
       ELSE [@ EXCEPT !.copy = [d \in Slots |-> IF d \in fed THEN side[d] ELSE NoPair], !.todo = fed, !.pc = "sideA"]]
  /\ UNCHANGED <<side, row, count>>

\* Mutant: one side for each slot, so a slot that takes both gets one.
Writes_OneSide(j, d, x) ==
  IF ~Takes(d, x, j.slot) \/ j.copy[d][x] # Nobody THEN Nobody
  ELSE IF x = "b" /\ Takes(d, "a", j.slot) THEN Nobody
  ELSE IF Source[d][x].takes = "winner" THEN j.winner ELSE j.loser

\* Mutant: the first empty side, whatever it takes.
Writes_FirstEmpty(j, d, x) ==
  IF j.copy[d][x] # Nobody \/ (x = "b" /\ Takes(d, "a", j.slot)) THEN Nobody
  ELSE IF \E y \in Sides : Takes(d, y, j.slot) /\ Source[d][y].takes = "winner"
  THEN j.winner ELSE j.loser

\* What a request writes on this side: nothing on one it read as taken.
Writes(j, d, x) ==
  IF ~Takes(d, x, j.slot) \/ j.copy[d][x] # Nobody THEN Nobody
  ELSE IF Source[d][x].takes = "winner" THEN j.winner ELSE j.loser

\* Mutant: the write is not checked, and only the copy has it.
WriteSlotSide_Lost(r, d, x, pc) ==
  LET p == Writes(job[r], d, x) IN
  /\ job' = [job EXCEPT ![r].copy = IF p = Nobody THEN @ ELSE [@ EXCEPT ![d][x] = p],
                        ![r].at = d, ![r].pc = pc]
  /\ UNCHANGED <<side, row, count>>

\* Mutant: both columns are written, as they were read.
WriteSlotSide_WholeSlot(r, d, x, pc) ==
  LET p    == Writes(job[r], d, x)
      copy == IF p = Nobody THEN job[r].copy ELSE [job[r].copy EXCEPT ![d][x] = p]
  IN
  /\ side' = [side EXCEPT ![d] = copy[d]]
  /\ job' = [job EXCEPT ![r].copy = copy, ![r].at = d, ![r].pc = pc]
  /\ UNCHANGED <<row, count>>

\* writeSlotSide, and the copy keeps what was written.
WriteSlotSide(r, d, x, pc) ==
  LET p == Writes(job[r], d, x) IN
  /\ side' = IF p = Nobody THEN side ELSE [side EXCEPT ![d][x] = p]
  /\ job' = [job EXCEPT ![r].copy = IF p = Nobody THEN @ ELSE [@ EXCEPT ![d][x] = p],
                        ![r].at = d, ![r].pc = pc]
  /\ UNCHANGED <<row, count>>

WriteSideA(r) == At(r, "sideA") /\ \E d \in job[r].todo : WriteSlotSide(r, d, "a", "sideB")

WriteSideB(r) == At(r, "sideB") /\ WriteSlotSide(r, job[r].at, "b", "sync")

-----------------------------------------------------------------------------
(* syncMatchToSlot, with the copy the request holds.                       *)

Synced(j) == NextOf(j, "sideA", j.todo \ {j.at}, "idle")

\* Mutant: a row that exists is left as it is.
SyncRead_CreateOnly(r) ==
  LET j == job[r]
      known == \A x \in Sides : j.copy[j.at][x] # Nobody
  IN
  /\ At(r, "sync")
  /\ job' = [job EXCEPT ![r] = IF row[j.at].status = "none" /\ known
                               THEN [j EXCEPT !.pc = "insert"] ELSE Synced(j)]
  /\ UNCHANGED <<side, row, count>>

SyncRead(r) ==
  LET j == job[r]
      e == row[j.at]
      known == \A x \in Sides : j.copy[j.at][x] # Nobody
  IN
  /\ At(r, "sync")
  /\ job' = [job EXCEPT ![r] =
       IF e.status = "scheduled" THEN [j EXCEPT !.pc = "update"]
       ELSE IF e.status = "none" /\ known THEN [j EXCEPT !.pc = "insert"]
       ELSE Synced(j)]
  /\ UNCHANGED <<side, row, count>>

\* The row is written by its id: whatever it has become, unless it is gone.
SyncUpdate(r) ==
  LET j == job[r] IN
  /\ At(r, "update")
  /\ row' = IF row[j.at].status = "none" THEN row
            ELSE [row EXCEPT ![j.at].pair = j.copy[j.at]]
  /\ job' = [job EXCEPT ![r] = Synced(j)]
  /\ UNCHANGED <<side, count>>

\* Another request that made the row first is found, and synced to.
InsertMatchForSlot(r) ==
  LET j == job[r] IN
  /\ At(r, "insert")
  /\ \/ /\ row[j.at].status = "none"
        /\ row' = [row EXCEPT ![j.at] = Placeholder(j.copy[j.at])]
        /\ job' = [job EXCEPT ![r] = Synced(j)]
     \/ /\ row[j.at].status # "none"
        /\ job' = [job EXCEPT ![r].pc = "sync"]
        /\ UNCHANGED row
  /\ UNCHANGED <<side, count>>

-----------------------------------------------------------------------------
(* clearFedSides (bracket-downstream.ts): one write for each slot fed.     *)

\* Mutant: the sides that take the loser are left.
Cleared_WinnerOnly(d, s) ==
  [x \in Sides |-> IF Takes(d, x, s) /\ Source[d][x].takes = "winner" THEN Nobody
                   ELSE side[d][x]]

Cleared(d, s) == [x \in Sides |-> IF Takes(d, x, s) THEN Nobody ELSE side[d][x]]

(* retractGrandFinalReset: the sides are cleared, and the row of a second  *)
(* grand final that nobody started is deleted, by its id.                  *)
RetractClear(r) ==
  LET j == job[r] IN
  /\ At(r, "retract")
  /\ \E d \in j.todo :
       /\ side' = [side EXCEPT ![d] = Cleared(d, j.slot)]
       /\ job' = [job EXCEPT ![r] = [NextOf(j, "retract", j.todo \ {d}, "unmake")
                                       EXCEPT !.later = @ \cup {d}]]
  /\ UNCHANGED <<row, count>>

FindUnplayed(r) ==
  LET j == job[r]
      unplayed == {d \in j.later : row[d].status = "scheduled"}
  IN
  /\ At(r, "unmake")
  /\ job' = [job EXCEPT ![r] = NextOf(j, "delete", unplayed, "idle")]
  /\ UNCHANGED <<side, row, count>>

\* Mutant: the row is voided, and stays.
DeleteUnplayed_Voids(r) ==
  LET j == job[r] IN
  /\ At(r, "delete")
  /\ \E d \in j.todo :
       /\ row' = [row EXCEPT ![d].status = "voided"]
       /\ job' = [job EXCEPT ![r] = NextOf(j, "delete", j.todo \ {d}, "idle")]
  /\ UNCHANGED <<side, count>>

DeleteUnplayed(r) ==
  LET j == job[r] IN
  /\ At(r, "delete")
  /\ \E d \in j.todo :
       /\ row' = [row EXCEPT ![d] = NoRow]
       /\ job' = [job EXCEPT ![r] = NextOf(j, "delete", j.todo \ {d}, "idle")]
  /\ UNCHANGED <<side, count>>

-----------------------------------------------------------------------------
(* A completed bout is undone: onMatchUncompleted, then the door's own     *)
(* write of the row.  A later bout that was fought refuses it, unless an   *)
(* organiser said to discard.                                              *)

Undo(r, s, discard, to) ==
  LET later  == {d \in Closure(s) : row[d].status # "none"}
      fought == {d \in later : Fought(row[d])}
  IN
  /\ Asks(r, s, IF discard THEN "discard" ELSE "undo")
  /\ fought # {} <=> discard
  /\ job' = [job EXCEPT ![r] =
       [Idle EXCEPT !.op = IF discard THEN "discard" ELSE "undo", !.slot = s, !.to = to,
                    !.later = later, !.fought = fought, !.todo = fought,
                    !.pc = IF discard THEN "revert" ELSE "sources"]]
  /\ UNCHANGED <<side, row, crashes>>

\* Of these slots, the ones of the deepest round.
Deepest(ds) == {d \in ds : \A e \in ds : Round[e] <= Round[d]}

\* Mutant: a fought bout is left as it was.
RevertFought_LeavesBout(r) ==
  LET j == job[r] IN
  /\ At(r, "revert")
  /\ \E d \in Deepest(j.todo) :
       job' = [job EXCEPT ![r] = NextOf(j, "revert", j.todo \ {d}, "sources")]
  /\ UNCHANGED <<side, row, count>>

\* revertMatchToUnplayed leaves the fighters on the row.
RevertFought(r) ==
  LET j == job[r] IN
  /\ At(r, "revert")
  /\ \E d \in Deepest(j.todo) :
       /\ row' = [row EXCEPT ![d].status = IF @ = "none" THEN @ ELSE "scheduled",
                             ![d].winner = Nobody]
       /\ job' = [job EXCEPT ![r] = NextOf(j, "revert", j.todo \ {d}, "sources")]
  /\ UNCHANGED <<side, count>>

\* Mutant: only what the root fed is cleared.
ClearSources_RootOnly(j) == {j.slot}

(* The bouts whose sides are cleared: the root, then the ones reverted.    *)
ClearSources(j) == {j.slot} \cup j.fought

ClearFrom(r) ==
  LET clears == {p \in ClearSources(job[r]) \X Slots : p[2] \in Fed(p[1])} IN
  /\ At(r, "sources")
  /\ job' = [job EXCEPT ![r].clears = clears, ![r].pc = IF clears = {} THEN "pairings" ELSE "clear"]
  /\ UNCHANGED <<side, row, count>>

\* What the root fed first, then deepest round first.
NextClears(j) ==
  LET roots == {p \in j.clears : p[1] = j.slot}
  IN  IF roots # {} THEN roots
      ELSE {p \in j.clears : \A q \in j.clears : Round[q[1]] <= Round[p[1]]}

ClearFedSides(r) ==
  LET j == job[r] IN
  /\ At(r, "clear")
  /\ \E p \in NextClears(j) :
       /\ side' = [side EXCEPT ![p[2]] = Cleared(p[2], p[1])]
       /\ job' = [job EXCEPT ![r].clears = @ \ {p},
                             ![r].pc = IF j.clears = {p} THEN "pairings" ELSE "clear"]
  /\ UNCHANGED <<row, count>>

\* Mutant: the slots are cleared and the rows are not.
FindPairings_None(r) ==
  /\ At(r, "pairings")
  /\ job' = [job EXCEPT ![r].pc = IF job[r].op = "change" THEN "load" ELSE "root"]
  /\ UNCHANGED <<side, row, count>>

\* Every dependent of an undo; the rows directly fed, of a change.
FindPairings(r) ==
  LET j    == job[r]
      rows == IF j.op = "change" THEN {d \in Fed(j.slot) : row[d].status # "none"} ELSE j.later
  IN
  /\ At(r, "pairings")
  /\ job' = [job EXCEPT ![r] = NextOf(j, "unpair", rows, IF j.op = "change" THEN "load"
                                                         ELSE "root")]
  /\ UNCHANGED <<side, row, count>>

ClearDependentPairing(r) ==
  LET j == job[r] IN
  /\ At(r, "unpair")
  /\ \E d \in Deepest(j.todo) :
       /\ row' = [row EXCEPT ![d].pair = NoPair]
       /\ job' = [job EXCEPT ![r] = NextOf(j, "unpair", j.todo \ {d},
                                           IF j.op = "change" THEN "load" ELSE "root")]
  /\ UNCHANGED <<side, count>>

\* The reopen or the reset that asked writes its own bout.
WriteRoot(r) ==
  LET j == job[r] IN
  /\ At(r, "root")
  /\ row' = [row EXCEPT ![j.slot].status = j.to, ![j.slot].winner = Nobody]
  /\ Done(r)
  /\ UNCHANGED <<side, count>>

-----------------------------------------------------------------------------
(* A correction gives a completed bout another winner, with no later bout  *)
(* fought: the row is written, and onResultChanged clears what it fed and  *)
(* advances it again.                                                      *)
ChangeResult(r, s, w) ==
  /\ Asks(r, s, "change") /\ row[s].winner # w
  /\ MayWin(s, w)
  /\ ~ \E d \in Closure(s) : Fought(row[d])
  /\ job' = [job EXCEPT ![r] = [Idle EXCEPT !.op = "change", !.slot = s, !.winner = w,
                                            !.pc = "redecide"]]
  /\ UNCHANGED <<side, row, crashes>>

Redecide(r) ==
  /\ At(r, "redecide")
  /\ row' = [row EXCEPT ![job[r].slot].winner = job[r].winner]
  /\ job' = [job EXCEPT ![r].pc = "sources"]
  /\ UNCHANGED <<side, count>>

-----------------------------------------------------------------------------
Crash(r) ==
  /\ job[r].op \in Mortal /\ crashes < MaxCrashes
  /\ crashes' = crashes + 1
  /\ Done(r)
  /\ UNCHANGED <<side, row, asked>>

Advance(r) ==
  \/ Load(r) \/ ReadDownstream(r) \/ WriteSideA(r) \/ WriteSideB(r)
  \/ SyncRead(r) \/ SyncUpdate(r) \/ InsertMatchForSlot(r)
  \/ RetractClear(r) \/ FindUnplayed(r) \/ DeleteUnplayed(r)

TakeBack(r) ==
  \/ RevertFought(r) \/ ClearFrom(r) \/ ClearFedSides(r) \/ FindPairings(r)
  \/ ClearDependentPairing(r) \/ WriteRoot(r) \/ Redecide(r)

Next ==
  \/ \E r \in Requests, s \in Slots :
       \/ Start(r, s) \/ CompleteAgain(r, s)
       \/ \E w \in People : Complete(r, s, w) \/ ChangeResult(r, s, w)
       \/ \E discard \in BOOLEAN, to \in {"running", "scheduled"} : Undo(r, s, discard, to)
  \/ \E r \in Requests : Advance(r) \/ TakeBack(r) \/ Crash(r)

Spec == Init /\ [][Next]_vars

-----------------------------------------------------------------------------
Quiet == \A r \in Requests : At(r, "idle")

\* A result is being taken back or changed.
Disturbed == \E r \in Requests : job[r].op \in {"undo", "discard", "change"}

Won(s) == row[s].status = "completed" /\ row[s].winner # Nobody

\* The fighter a completed bout sends to a side that takes this from it.
Result(s, what) ==
  IF what = "winner" THEN row[s].winner
  ELSE IF row[s].winner = side[s]["a"] THEN side[s]["b"] ELSE side[s]["a"]

Pairs == [Sides -> People]

Rows == [status : {"none", "scheduled", "running", "completed"}, pair : Pairs, winner : People]

Steps == {"idle", "load", "read", "sideA", "sideB", "sync", "update", "insert", "retract",
          "unmake", "delete", "revert", "sources", "clear", "pairings", "unpair", "root",
          "redecide"}

Jobs == [op : {"none", "complete", "undo", "discard", "change"},
         slot : Slots \cup {NoSlot}, pc : Steps, winner : People, loser : People,
         copy : [Slots -> Pairs], at : Slots \cup {NoSlot}, todo : SUBSET Slots,
         later : SUBSET Slots, fought : SUBSET Slots, clears : SUBSET (Slots \X Slots),
         to : {"none", "running", "scheduled"}]

(* The slots, the rows and what each request carries are of their types.   *)
BracketTypeOK ==
  /\ side \in [Slots -> Pairs]
  /\ row \in [Slots -> Rows]
  /\ job \in [Requests -> Jobs]
  /\ asked \in 0..MaxAsked /\ crashes \in 0..MaxCrashes

(* Nobody is in a slot who did not earn it: a side that takes a result     *)
(* holds nobody, or the fighter its feeder's standing result sends.  A     *)
(* side is written only while it is empty, so a wrong one would stay for   *)
(* the rest of the event (onMatchUncompleted).                             *)
SidesAreEarned ==
  ~Disturbed =>
    \A s, d \in Slots : \A x \in Sides :
      Takes(d, x, s) /\ side[d][x] # Nobody =>
        Won(s) /\ side[d][x] = Result(s, Source[d][x].takes)

(* A row names nobody its slot does not: a bout waiting to be fought shows *)
(* each fighter of its slot, or an empty side (clearDependentPairing).     *)
RowsFollowSlots ==
  ~Disturbed =>
    \A s \in Slots : \A x \in Sides :
      row[s].pair[x] # Nobody => row[s].pair[x] = side[s][x]

(* Once every request is over, a result has reached all it feeds, whatever *)
(* other bout ended beside it: no side is lost to a write of the other.    *)
ResultsAreFed ==
  Quiet /\ crashes = 0 =>
    \A s, d \in Slots : \A x \in Sides :
      Takes(d, x, s) /\ Won(s) /\ ~EndsBracket(s, row[s].winner) =>
        side[d][x] = Result(s, Source[d][x].takes)

(* And a bout whose two fighters are known can be called: its row names    *)
(* them (syncMatchToSlot: "Make the matches row describe the slot as it is *)
(* NOW").                                                                  *)
PairIsCalled ==
  Quiet /\ crashes = 0 =>
    \A s \in Slots :
      (\A x \in Sides : side[s][x] # Nobody) => row[s].pair = side[s]

(* A grand final that ends the bracket leaves no second one behind it: a   *)
(* row there could never be played and would leave the ranking empty       *)
(* (grandFinalEndsBracket, retractGrandFinalReset).                        *)
NoPhantomReset ==
  Quiet /\ crashes = 0 =>
    \A s \in Slots : Won(s) /\ EndsBracket(s, row[s].winner) =>
      \A d \in Fed(s) : row[d] = NoRow /\ side[d] = NoPair

(* When an undo is about to write its own bout, nothing that followed from *)
(* it is left in any slot behind it, however deep.                         *)
UndoTakesAllBack ==
  \A r \in Requests : At(r, "root") =>
    \A s \in Closure(job[r].slot) \cup {job[r].slot} : \A d \in Fed(s) : \A x \in Sides :
      Takes(d, x, s) => side[d][x] = Nobody

(* A bout in play or decided keeps its fighters until it is put back to    *)
(* unplayed (hasStarted: "its pairing is no longer ours").                 *)
FoughtPairStays ==
  [][\A s \in Slots : Fought(row[s]) /\ Fought(row'[s]) => row'[s].pair = row[s].pair]_vars
=============================================================================
