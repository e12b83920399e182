# MyClash: a verification project

MyClash runs HEMA tournaments. Referees score bouts on a tablet, the *pad*
(`apps/web-staff`), in halls where the wifi comes and goes; a NestJS API
(`apps/api`) over Supabase keeps the sheet of each bout and derives its score,
its result, the bracket and the Swiss rounds from it; admin and public sites
read it. What a referee pressed must reach the server once, in an order that
makes sense, and what he took back must stay taken back. On the server every
request is a chain of reads and writes with no transaction around them, and
the chains of two requests interleave: the score must still be the sheet's,
the bracket must hold only fighters who earned their place, and a Swiss round
must pair exactly its field.

## Inventory

| Part | State | Operations | Talks to |
|---|---|---|---|
| Pad queue (`offline/outbox.ts`, `press-queue.ts`) | IndexedDB tables `outbox`, `rejected`, `synced` | enqueue a hit, card, clock press, round press, level step; claim; file as taken; hold; Retry; Discard | the engine, the inbox screen |
| Sync engine (`offline/sync.ts`, `press-send.ts`) | the pass under way, `BoutOrder`, `sendingId`, `askedAgain`, what the bar says | drain, one pass, second try, stop, end of pass | the queue, the API |
| Undo (`lib/clear-last.ts`, `take-back.ts`, `lib/settle-undone.ts`, `lib/watch-undone.ts`) | tables `undone`, `undoNotices`; `attended`, `turn` | tap, reads, removal, void, settle run | queue, engine, API |
| Bout scoring (`modules/matches/matches.service.ts`, `scoring.service.ts`) | `exchanges`, the bout's row in `matches` | create (idempotent on `client_uuid`), replay, void, restore, recompute, reset | clock, completion owner |
| Bout clock (`clock.service.ts`, `late-press.ts`) | `match_events`, the bout's row | Start, Halt, Resume, End, Reopen; replay of a press | scoring, completion owner |
| Completion owner and bracket (`phases/match-completion.service.ts`, `bracket-advance.service.ts`, `bracket-match-sync.ts`, `bracket-downstream.ts`) | `bracket_slots`, rows of `matches` | completed, un-completed, result changed, retract the second final | scoring, clock, Swiss |
| Bracket generator (`packages/rules/src/scheduling`) | none | the slots and references of a double elimination | phases |
| Swiss (`modules/swiss`, migrations 0164, 0243, 0244) | `swiss_rounds`, `swiss_entrants`, bouts, the phase's settings | draw, refresh, withdraw, put back, delete a round, finalise | completion owner, fighter status |
| Fighter status (`matches/fighter-status.service.ts`, `fighter-reconcile.ts`, `fighter-swiss.ts`) | `registrations`, `match_forfeits` | out, back in, reconcile, hand on | Swiss, bouts |
| Pad clock, rounds, series; forfeits by hand; penalties; pools; placement; rules; schedule; sign-in; events, registrations, people, mail, AI, exports; sites; shared packages; operations | rows of their own, or none | derive, escalate, rank, place, CRUD, I/O | API |

What is hard, and where it bites, is the `hazards` list of `PROJECT.json`:
steps of the engine, the operator and the server in an order nobody wrote a
test for; a row read early and written late; a lost or late answer; a tab
killed with a POST out, a request that dies between two writes; a send, an
answer or a next round that must come although nobody asks again; long
sequences of legal operations of the desk.

What makes each part correct:

- queue: no row is lost, a row is in one table, a filed row is on the server;
- engine: the order of a bout, the row that is out is not deleted, the bar
  tells the truth, every row goes in the end;
- undo: what the referee was told is undone is not live without a word, it is
  not sent again, each tap takes one entry, each tap is answered;
- bout: the score is the sheet's once requests are quiet, a reached cap is
  completed, no winner stays on a bout in play, an old End completes nothing;
- bracket: a side is earned, a result is fed, an undo takes all of it back;
- Swiss: a standing round pairs exactly its field, a fighter out is followed,
  a closed round draws the next and only the next.

## Modules

| Module | Models |
|---|---|
| `PadQueue` | the three tables, the engine of each tab, the inbox, the server as the queue meets it |
| `Delivery` | what the queue promises, in two variables; `PadQueue` implements it |
| `PadUndo` | extends `PadQueue` with the undo tap, the settle and the server's voids |
| `Bout` | one bout on the server: sheet, clock rows, its row, requests in hand |
| `Bracket` | the slots of a bracket, the rows of their bouts, completion and undo |
| `DoubleElim` | the generator of a double elimination, and the reference `Wired` |
| `Swiss` | a Swiss phase: rounds, entrants, and the fighters' status it follows |
| `PadQueueProofs`, `DeliveryProofs`, `PadUndoProofs`, `BoutProofs`, `BracketProofs`, `DoubleElimProofs`, `SwissProofs` | the theorems |
| `Recursion` | lemmas for them: induction over the numbers, functions by recursion |
| `MC_PadQueue`, `MC_PadUndo`, `MC_Bout`, `MC_Bracket`, `MC_Swiss` | instances for TLC; `MC_Bracket` builds its bracket with `DoubleElim` |

### PadQueue

A *row* is a hit or card (`Entries`) or a tap of the clock, of a round or of a
level step (`Taps`). A row keeps its outbox id for life (`backInQueue` gives a
held row its old id), so a table is a set of rows and the queue's order is the
order of `place`. Each action is one IndexedDB transaction or the code between
two awaits; that is the granularity at which the browser interleaves a press,
the engine, the inbox and another tab. Ids and passes need no bound: each row
is pressed once.

`Ask` is `drain`: start a send, or note `askedAgain`. A pass is
`ListPending` and `ReadHeld` (two reads of the store, in that order), then for
each row in order `SkipBehindHeld`, `WaitBehindUnsent` or `Claim`; a claimed
row is posted, answered (`ServerTakes`, `ServerRefuses`), filed (`FileSent`,
`FileHeld`, `FileFailed`, `FileStopped`, or `TrySecond` for the one retry of a
400) and let go (`Release`). `WalkedAll`, `EmitWalked`, `EndPass` and
`EndStopped` end it. The inbox is `RetryAll`, `RetryOne`, `AskDiscard` and
`Discard` (two steps, as in the code), `DiscardBout`, `RefreshState`. `Reload`
kills a tab at any moment and opens it again.

The answers of a POST are grouped by what the code does with them: `ok`,
`bad` (400), `refused` (a refusal about the bout), `fault` (5xx), `offline`,
`stop` (signed out, read-only mode). A dead network or a fault can lose the
answer of a row the server saved. A saved row is answered as saved and never
judged again (`createExchange` looks it up first), but who may score is asked
before, so a saved row can still meet a refusal.

### Delivery

To a referee a row is unmade, waiting, sent, held or gone. `Delivery` says how
it may move: the server gets a row only while it waits, a row is sent for good
only when the server has it, and only a person throws one away. `PadQueue`
implements it under the mapping `Where` (the table a row is in) and
`saved <- landed`; the engine's own steps are stutters.

### PadUndo

`TapUndo` reads the queue, `ReadTakenBack` what earlier undos wrote down,
`AskServer` the server, and picks the newest. On the server it is voided
(`VoidTaken`, `VoidFails`) and its copy taken off; on the tablet `TakeOff`
waits while the row is out, removes it and writes it down, `TakenAlready` goes
to the void. The settle (`Watch`, `UndoSettles`, `Expire`, `SettleRead`,
`SettleAbsent`, `LookEnded`, `SettleEnded`, `SettleVoid`, ...) is one run at a
time in a tab. `QueueStep` is any step of `PadQueue`. History variables
(`gone`, `off`, `review`) hold what the referee was told and what an
undo did; `notices` keeps every notice ever written. The order of presses
stands for the order of `occurredAt`, so a tablet clock set back in a bout is
not modelled. `LateRows` are the rows whose POST, ended without an answer, may
reach the server after the pad gave up on it.

### Bout

A single fight. A request sits in one of `Slots` as a record: its operation,
where it is, and the copies it read (the row, the next sequence, the plan it
computed). Each read or write of the code is a step; reads that follow one
another are one step where the last carries the guard of the next write. So a
hit goes `SendHit`, `OpenRound`, `InsertHit`, `LoadRow`, `LoadSheet`,
`Context` (a completed bout is corrected), `UncompleteBestEffort`,
`WriteScore`, `Tell` and `AutoEnd`; a press goes `SendPress`, `TakePress`,
`PressRow`, the judging, `insertRow`, and the write of the bout guarded in the
update itself; a press already saved is finished instead. The desk voids,
restores, reopens and resets. A request of a kind in `Mortal` may die after
any step, up to `MaxCrashes`; a tablet sends an item again until it is
answered. A tick of `now` is one press, one hit saved or one row of the desk;
only the order of times is used. The bracket is met as the bout meets it: the
side it sent on, and whether the bout it feeds was fought.

### Bracket and DoubleElim

A slot has two sides, each a seed or the winner or loser of the slot whose
reference it names; a row of `matches` per slot; requests as in `Bout`.
`Complete` then `Load`, `ReadDownstream`, and for each slot fed `WriteSideA`,
`WriteSideB` (each if the side is null on the copy read; the update itself is by
id only) and the sync of the row from the same copy; a grand final that ends the bracket retracts the
second one. `Undo` finds the closure of later bouts, refuses or discards,
reverts the fought ones deepest first, clears sides, unpairs rows, and writes
its own row last. `ChangeResult` clears what changed, then `Redecide`.

`DoubleElim` translates the generator: sizes, rounds, the sources of each
slot, the closed count, and the refused options. `Wired` is the reference: all
seeds drawn once, every reference met by one earlier slot, every winner and
every loser with a second chance sent to exactly one side.

### Swiss

The SQL functions lock the phase's row, so each is one step: `Commit`,
`CommitExists` and `CommitStale` are `swiss_commit_round`; `SwissWithdraw`,
`SwissPutBack` and `DeleteRound` the others. A draw is `LoadEntrants` and
`PlanRound`, the two reads of a plan in their order, then the write; which of
the complete pairings is made is left open. A completed bout goes `Refresh`,
`MarkRound`, `IsFinalised`, `HasLaterRound`, then a draw. A fighter's status
goes out or back (`Settle`), and is followed: out of the pairings, then each
scheduled bout forfeited (`RecordForfeit`, `LoseBout`), or back: each record
taken back (`RestoreBout`, `VoidRecord`) and the entry put back; then the
status is read again, opponents who are out are followed, and the rounds
touched are handed on.

An un-completion (`UndoBout`, `AssertUncompletable`, `VoidForfeitRecords`, then
the round refreshed as if the row were back, and `PutBout`) reads the live
forfeit of the bout with its guards. One that the status wrote does not refuse
it (`assertForfeitsVoidableHere` exempts `auto_created`): it is voided before
the row is written, which is the organiser's put-back. The reconcile leaves
such a bout alone for the rest of the fighter's spell out (`boutsToTakeOut`:
`voided_at` against `out_since`, and not `voided_by_return`). `undone` keeps
the forfeits voided that way, each with the `spell` out its fighter was then
in, which is what the two times are compared for; a return that voids a record
takes it off (`VoidRecord`, `voided_by_return`). The settle of a status reads
its clock and commits as one step. Whether a bout taken back had moved off
the result its forfeit recorded (`recordedResultDiverged`) is left open where
it may have (`MayDiverge`).

A round has an id of its own, so a request that holds a
deleted round's id does not touch the one drawn again under its number.

`stalled`, `redrawn` and `unfollowed` are history: they name the cases the
properties leave out, each of which the code accepts or does not see (below).

## Runs

| Run | Shows |
|---|---|
| `queue_one_tab` | one tab, two hits and a press of one bout, all answers: no row lost or filed wrongly, the row out is safe, one table, order within a pass, a true green bar, and `KeepsPromise`: the queue implements `Delivery` |
| `queue_liveness` | `EveryRowIsSent`: two hits and a press in two bouts, a network that fails and comes back |
| `undo_two_hits` | `UndoHolds`, `NotTakenTwice`: two hits, a bad network, no late POST |
| `undo_one_hit` | `UndoTypeOK`, `TakenOffStaysOff`: a hit and a press of the clock, every answer (a row is held by a 400 sent twice), late POSTs of the hit |
| `undo_liveness` | `UndoIsAnswered`, `UndoIsSettled`: a hit and a round press |
| `bout_serial` | one request at a time, two hits, Start, End, two of the desk, one death and every resend: score, cap, winner, old hits and the side in the bracket |
| `bout_answers` | two at once, Start and End against a Reopen or a Reset, one death: `EndSpeaksForBout`, `EveryItemIsAnswered` |
| `bracket_serial` | a double elimination of four with a second final, one request at a time, one of draw, again, undo, discard, change: sides earned, rows follow slots, results fed, pair called, no phantom final, undo complete, fought pairs stay; every bracket up to 17 fighters is wired |
| `bracket_race` | two completions at once, one death: sides earned, rows follow, results fed |
| `swiss_race` | three fighters, two rounds, two requests at once, four of the desk out of nine operations (`FourAsked`): rounds legal, missed rounds exist, a fighter out is followed, a closed round advances |
| `queue_press_order`, `swiss_double_draw` | what a comment says and the code does not keep (below) |

Bounds. Queue: two entries and one tap are the least in which a press has a
row before it and a row of its own kind beside it, one is held while another
waits, and one is requeued into a pass. A bout order has no third role.
`MaxFailures` is 2 (1 in `undo_two_hits` and `undo_liveness`, 3 in
`queue_press_order`), so that a pass both goes on after a failure and stops at
the limit with so few rows. The undo runs have one tab and one bout: a tap
concerns one bout. In `undo_one_hit` a press of the clock stands among the rows
of the queue, which the undo may never take; only the POST of the hit may land
late, and `refused` is left out, as a 400 sent twice holds a row too. Bout: a
cap of 1 with a hit of each side gives a bout that is level, led, won, corrected and level again; two requests of the desk
reopen what was ended and correct it, or reset and fight again. `Halt` and
`Resume` are in the model and under its theorems, in no run. Bracket: four
fighters have every kind of slot and wiring there is (seed, winner, loser, both finals).
One operation of the desk each run: what it leaves is what the invariants are
checked on, in every later completion. Swiss: a round of three has a bye. The
desk asks for four things (`FourAsked`): any two of the nine, then a status or a
delete, each beside what is in hand; the third is what meets a status that
moved at every try, and what deletes a round after a withdrawal and a put-back.
The fourth comes when the others are done (`MaxMet`) and is a fighter going out:
out, his bout reset and so put back by hand, in again and out again is the
shortest story in which `OutIsFollowed` could ask too much or too little of a
bout put back. Two rounds have a last
round, so a phase that is over, and one before it.
`CommitTries` and `ReconcileRounds` are 2 instead of 3, so that both limits
are met. Bouts, brackets and Swiss phases come to an end: those runs do not
ask for deadlock.

Symmetry is of the requests in `bracket_race`, and of the fighters and the
requests in the Swiss runs, which check invariants only.

Fairness. Pad: the engine's steps and the end of a request are the browser's
own progress (weak). The 5 s interval of `useSendWhileOffline` and the 15 s
interval of the watcher fire (weak). A network that answers again and again
takes a row in the end (strong, per row), and so for the reads and voids of
the settle. The undo's removal is asked for at the moment an answer is filed,
before any later pass can claim the row, so it is not passed for ever
(strong). Nothing is assumed of the operator. The liveness properties speak of
behaviours in which the tab is not reloaded for ever. Bout: a request in hand
goes on (weak, per slot), and a tablet sends each item until it is answered
(weak, per item), which `queue_liveness` shows of the pad. A refusal is an
answer: the pad then holds the row.

### What the code does not keep

Two are violation runs and entries of `findings`:

1. `queue_press_order`: a press passes an earlier hit. The pass lists the queue
   before it reads which bouts are held, and a Retry falls between. Reading
   the held bouts first restores it.
2. `swiss_double_draw`: two bouts that close a round at once both see no later
   round (`swiss-advance.service.ts:73`). The first draws round 2. The second
   reads the rounds after that, plans round 3, and the commit takes it: its
   number is the next one and its field is right. Round 3 stands over a round 2
   nobody fought. `commitNextRound` would have to be told the number of the
   round it is to follow.

Two more break a property of a passing run once its bound is lifted:

3. `ScoreIsTheSheet` with two slots. A Start counts the sheet as a hit lands:
   the Start's recompute reads the empty sheet, the hit is saved and counted
   1-0, and the Start writes 0-0 last (`scoring.service.ts:264`, no guard).
   `start-count.ts:24-25`: "Both counts are derived from the sheet; the last
   one wins and both are right".
4. `PairIsCalled` with two requests. Both feeders of a slot complete at once,
   each reads it with the other's side empty, and syncs the row from its own
   copy (`bracket-advance.service.ts:258-262`): the slot has two fighters, the
   row one. `bracket-match-sync.ts:86`: "Make the matches row describe the slot
   as it is NOW."

The model reaches these too; they are told here and kept out of the properties
by their conditions:

- Pad. A held row may be on the server (lost answer, then a refusal before the
  replay is recognised). With two tabs a row that is out can be discarded. A
  row pressed between `holdsBack` and the discard is freed and not sent until
  the next send. A hit pressed while the undo asks the server can be the one
  undone; a round press made then waits behind an entry that is taken back. A
  press is dropped when a stopped pass ends just as an undo set the bar idle;
  the interval sends it. `UndoHolds` needs `LateRows = {}`: the settle reads
  "no live entry of that id" as "the server never had it"
  (`settle-undone.ts:114`).
- Bout and bracket: `NoWinnerInPlay`, `ScoreIsTheSheet`, `NoHitOfAnOldFight`,
  `PairIsCalled` and `FoughtPairStays` are checked with one request at a time,
  so no copy a request acts on is stale there. They say nothing of two at once,
  where the last four fail as told here, and `NoWinnerInPlay` too, by a
  correction. A Start, Halt or Resume judged on an old row is stopped by its own
  write, which asks that the bout is not completed (`clock.service.ts:539`). No
  run would fail without that guard (`EndSpeaksForBout` speaks of an End only);
  it is the theorem `NoWinnerWithoutCap` that rests on it.
- Bout, two requests at once. A stale correction written over a Reopen leaves a
  winner in play. A hit past `openRoundOf` is inserted after a whole Reset
  (`matches.service.ts:597`). A Reopen between a completion's write and its
  `Tell` leaves a side fed. An automatic End that loses its sequence is
  swallowed. A late Halt can put a reset bout in `paused`. An End whose door
  read `scheduled` passes after a Reset.
- Bout, requests that die. A void that dies is not recomputed. A Reopen's mark
  makes the replay that would heal a stale score leave it alone. A correction
  that dies after its write leaves the old side in the bracket.
- Bracket. A sync that read a row before its bout started can rewrite its
  fighters. The retract deletes by id after a read. An undo with discard that
  dies after `revertFought` leaves a side its re-run does not clear.
- Swiss. A fighter withdrawn after round N+1 was drawn (from N+2 on) is paired
  again if N+1 is deleted and redrawn. "Next round" by hand asks neither
  whether the last round was fought nor whether the phase is finalised, and a
  finalise between `isFinalised` and the commit draws a round in a frozen
  phase. A round's status can stay stale after two refreshes at once, and is
  not refreshed by a Start. Fighters who went out while the phase was over are
  not followed when an un-completion opens it again. A request that fails
  drops the opponents it still had to follow. `reconcile` leaves what the loop
  of an opponent puts back to that opponent's own settle
  (`fighter-status.service.ts:310-311`), which may find nothing left to put
  back: G, H and K are out; G comes back and its request goes on to H; H comes
  back before that request reads H, so it is G's request that puts the bout of
  H and K back; H's own settle finds no record and follows nobody; K stays out
  with a bout that waits (`Theirs`). A bout undone while a forfeit is
  being written ends scheduled with a live record. An un-completion follows
  nobody: a fighter out whose fought bout, or whose bout the other forfeited,
  is undone keeps a bout that waits until his status is settled again. (Whose
  own forfeit is undone keeps it by design, for that spell out; of two out, only
  he.) A
  bring-back that voids a record between its insert and the bout's completion
  leaves a lost bout without one. A commit whose field changed at every try
  leaves a closed round with no next one until somebody asks.

## Proofs

Each for every value of the constants, from the `ASSUME`s of the module and
the restriction the theorem names. A restriction is there where the code does
not keep the property without it; the section above tells how it breaks.

`PadQueueProofs`, any number of tabs:

- `TypeCorrect` (`TypeOK`). `Typed` adds that a claimed row is a row and a
  filed answer one of the four outcomes; without it `Release` is not typed.
- `RowsAreKept` (`NoRowLost`) and `SyncedIsSound` (`SyncedIsLanded`), from
  `Kept`, which adds `OkIsLanded`: an "ok" still on its way means the server
  has the row. It is what makes `FileSent` safe although another tab may have
  changed every table since.

and with one tab (`OneTabOnly`; two tabs break these):

- `OutRowStays` (`OutRowIsSafe`), `TablesAreDisjoint` (`OneTable`),
  `PassKeepsOrder` (`OrderWithinPass`), from `Ordered`: the row that is out
  heads what is left of the list; `BoutOrder.held` covers every held row but
  the one being filed; the row that is out is queued and waits for nothing;
  every listed row the walk passed and that still waits is on record. Operator
  steps are handled together (`TablesChange`).
- `GreenIsTrue` (`GreenMeansSent`), from `Shown`: a fault or a failure on
  record stands for a row the pass left behind, a stopped pass stopped on a row
  it may send, and a pass that ended green over a row was asked to look again.

`DeliveryProofs`, one tab: `QueueDelivers` (`KeepsPromise`). The initial state
maps to the initial state and, under `Typed` and `Ordered`, each action to a
step of `Delivery` or a stutter. `Ordered` is needed for `Reach`: the row that
is out is still in the queue when the server takes it.

`PadUndoProofs`, over the queue's own invariants, which every step of the undo
and of the settle keeps (but `Shown`, since an undo may say "idle" during a
send):

- `UndoTypeCorrect` (`UndoTypeOK`), any number of tabs. `UndoTyped` adds what
  each stage of a tap and of a settle has in hand.
- `TakenOffIsOff` (`TakenOffStaysOff`), one tab, late POSTs included.
  `StaysOff` says it of all that was ever taken off, written down or not, and
  that a tap only has pressed rows in hand: no step brings a pressed row back.
- `UndoIsKept` (`UndoHolds`) and `TapIsNotWasted` (`NotTakenTwice`), one tab
  and no late POST (`LateRows = {}`). `Told` follows an entry through the tap
  and through the settle: what a tap read of the queue, of the taken back and
  of the server still covers every entry that may be live, and a settle that
  is to judge a bout has read every live entry of it.
- `UndoLosesNoRow`, any number of tabs: a row that was pressed is where
  `NoRowLost` says, or is an entry an undo took off; nothing else goes missing.
- `QueueStandsBesideUndo`, one tab, late POSTs included: `OutRowIsSafe`,
  `OneTable`, `OrderWithinPass` and `SyncedIsLanded` of the composition.
- `UndoDelivers`, one tab and no late POST: the queue with its undo implements
  `Delivery` and one move more, `TakeBack`, in which an undo throws away an
  entry that waits or is held. The mapping is `WhereNow`: an entry taken off is
  "gone" at once. A step of `Delivery` under `Where` is one under `WhereNow`
  since the queue has nothing of what was taken off (`StaysOff`), and a removal
  that finds no row takes nothing a person had not already thrown away
  (`UndoLosesNoRow`).

`BoutProofs`: `BoutTypeCorrect` (`BoutTypeOK`), and

- `EndSpeaks` (`EndSpeaksForBout`), any number of requests and deaths: the
  write itself compares the mark the door read with the row's, and the
  invariant says that a press that got that far was made after the mark it
  carries.
- `NoWinnerWithoutCap` (`NoWinnerInPlay`), any number of requests, where no
  sheet can reach the cap: then no correction redecides, and every other write
  of a winner completes the bout.
- `OneAtATime` (`FedFromCompleted` and `NoWinnerInPlay`), one slot, any deaths
  and resends: what the request in hand read is still what the row says.
- `OldHitsAreOut` (`NoHitOfAnOldFight`), one slot, any deaths. `ClockKept`
  says that the rows of the clock are numbered without a gap, so that the last
  reset is known; `SheetKept` that a live hit was made and saved after it, and
  that between the void of the sheet and the reset's own row none is live.
- `ScoreIsKept` (`ScoreIsTheSheet`) and `CapIsKept` (`CapIsCounted`), one slot,
  where only hits and presses die (`Mortal`): a void that dies is not sent
  again. `ScoreKept` says that a score that is not the sheet's has an
  explanation: a live hit whose tablet will send it again, a request of the
  desk that is to write it, or a hit a door put out of the count. `CapKept`
  adds that a bout never put back in play has no board that ends it, and that
  no request is about to write one.

`BracketProofs`. `Bracket` assumes of a wiring that its slots are finitely many
and a bout feeds later rounds only (`RoundsGoOn`), and that the second grand
final takes both its fighters from the first (`SecondFinal`), as the generator
makes it: TLC evaluates both on the bracket that `DoubleElim` builds, and
`GeneratedBracketsFit` proves them of every bracket it builds. That a walk of
what a bout feeds ends (`WalkEnds`), so that the closure of an undo is whole,
follows from `RoundsGoOn`: after k hops the walk is k rounds further on, and the
rounds are finitely many.

- `BracketTypeCorrect` (`BracketTypeOK`), any wiring; its invariant `Typed`
  adds where each step's working slots may be.
- `CompletionsEarn` (`SidesAreEarned`), `CompletionsFollow` (`RowsFollowSlots`)
  and `CompletionsFeed` (`ResultsAreFed`) while results are completed, again or
  as a draw (`Completions`), any number at once, any of them dying. `Earn` adds
  that what a request carries is still true of the slots and the rows
  (`CarriesIn`: its copies, its winner and its loser), that a bout in play or
  decided has both sides of its slot known (`FoughtKnown`), and that the grand
  final that ends the bracket feeds nobody (`SidesStand`). A side, once known,
  never changes, and a completed bout keeps its winner, so this is preserved by
  the steps of the other requests. `Owed` says that a result still missing from
  a side is in the hands of a request that has yet to write it.
- One request at a time, undos, discards and changed results included, where
  only completions die (`OneAtATime`): `OneRequestEarns` (the same three),
  `OneRequestCalls` (`PairIsCalled`), `OneRequestRetracts` (`NoPhantomReset`),
  `UndoIsComplete` (`UndoTakesAllBack`), `OneRequestKeepsPairs`
  (`FoughtPairStays`). Between the first and the last write of an undo the
  slots hold what no result stands for, so none of the above is invariant
  there: `Serial` asks them only of a bracket at rest or moving forward, and of
  an undo under way says (`Back`) what it has taken back, what it has still to
  take back, and that nothing outside its closure was touched.

`DoubleElimProofs`, with no assumption but that `TopShape` is a number:

- `Wiring`: every bracket the generator can make, of any size and with every
  option, is `Wired`; `BracketsAreWired` (`EveryBracketIsWired`) is the same as
  an invariant. `Shaped` restates the resolved options by the exponents of the
  two sizes, so that every round has a power of two of slots (`Pow2`). The slots are
  counted by rounds, and their sum is the closed form of `TotalMatches`. The
  order of seeds is a bijection by induction (`SeedOrder` doubles: each seed and
  its complement), so each seed stands once, in the first round or in a play-in.
  A reference is then followed by section and round: each names one slot of an
  earlier round, and each winner, and each loser with a second chance, is named
  once, which in the losers' bracket is the alternation of rounds fed from above
  and rounds among themselves.
- `GeneratedBracketsFit`: what `Bracket` assumes of its constants holds of what
  `DoubleElim` generates: references of their own, a seeded side has its
  fighter, feeds go to later rounds, both sides of a second grand final are fed
  by the first. The theorems of `BracketProofs` so speak of every bracket the
  generator makes.

The recursion of the generator is over numbers, and induction over them is
proved in `Recursion` in terms of sets: a claim is the set of numbers it holds
for, a recursive definition the function that makes its next value from the one
before. Its only source is that finite subsets of the numbers are well founded.

`SwissProofs`, any fighters, rounds, requests at once and operations of the
desk, with no restriction:

- `SwissTypeCorrect` (`SwissTypeOK`), `MissedRoundsStand`
  (`MissedRoundsExist`), `RoundsStayLegal` (`RoundsAreLegal`). The invariant
  `Inv` adds that a request about to write holds a complete pairing of the
  field it read. A withdrawal takes effect after the last round, so it changes
  no standing one; a put-back by hand turns "withdrawn from k" into the missed
  rounds k to last, which leaves every field as it was; a delete forgets the
  round it removes. So missed rounds always stand, none is the round being
  drawn, and the field the commit compares, which reads no missed rounds, is
  the field of the round.
- `ClosedRoundIsFollowed` (`ClosedRoundAdvances`), from `Carried`: while the
  last round is closed, some request still has it to refresh, to advance, to
  draw over or to hand on. Two requests may close it together; the one that
  completes the last bout is the one that carries it.
- `FighterOutIsFollowed` (`OutIsFollowed`), from `Followed`: a fighter who is
  out and still in the pairings, or in a bout that waits, has a request that
  is yet to read or write what settles it, his own, one that follows him as an
  opponent, or one still to list its opponents; and no fighter was drawn after
  his withdrawal, but into a round drawn again. A bout put back by hand
  (`HandedBack`) is out of it for the spell it was put back in, no longer: the
  next time out begins with a reconcile that reads it again. Between the void
  of a record and the write of the row the undo has the bout in hand, and
  answers for the fighters it will leave waiting. This proof is what showed the
  two cases of `Theirs` and of the failed request above; the first takes five
  requests of the desk, more than the run has.

Only model-checked: the liveness properties (fairness is beyond the prover:
`EveryRowIsSent`, `UndoIsAnswered`, `UndoIsSettled`, `EveryItemIsAnswered`).
Every invariant and every other property of a passing run is proved. The
violation runs are TLC's.

The theorems rest on the named assumptions of the modules: `PadConstants`,
`UndoConstants`, `BoutConstants`, `BracketConstants`, `RoundsGoOn`,
`SecondFinal`, `TopShapeAssumption` and `SwissConstants`, each evaluated by TLC
in the runs of its module.

What is left to prove: the bracket with an undo beside completions of bouts
outside its closure; the score with two slots of which one only holds presses
that count nothing.

## Not modelled

- Pad: the sequence numbers of rows, the age of presses, the judging of
  Starts, store failures (a transaction that throws), the removal of notices
  once read, wording, the offline drill.
- Bout: an Event that is over, locks, forfeits by hand, cards, best-of series
  and rounds, level steps, the reset of the clock, the desk's own Start, Halt,
  Resume and End, edits of a hit and swaps, reads that fail.
- Bracket: the operator's override of a slot, byes and single elimination,
  populating from pools, forfeits, an Event that is over, auto-advance off.
- Swiss: hand edits of a pairing, Resume and the edit of the settings with the
  settle of everybody that follows, a bout voided or paused, forfeits by hand
  and the void of a record by its own door (`PATCH match-forfeits/:id/void`),
  the cause of a status and rules changes, requests that die, generation and
  seeding, standings and which pairing the plan prefers. From reading the code
  only: two hand swaps at once can break "everyone appears exactly once", and
  the settings and the finalise each write the whole configuration from an
  earlier read.
- Every part marked `not_modelled` in `PROJECT.json`, each with its reason.

Most of the repository's lines are screens, texts in several languages, the
generated client and schema, CRUD of single rows, and scripts: they keep no
protocol state, and a module of them would say nothing. What is left that a
model could reach is, in the order of what it would add: forfeits by hand and
best-of series on top of `Bout`; the hand edits and Resume of a Swiss phase;
pools populating a bracket; `PadQueue` composed over `Bout`, with hits of
several tablets.
