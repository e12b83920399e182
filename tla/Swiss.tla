-------------------------------- MODULE Swiss -------------------------------
(***************************************************************************)
(* A Swiss phase on the server: the rounds that stand, who takes part in   *)
(* each, and the requests that draw the next round, take a fighter out of  *)
(* the pairings or put him back (apps/api/src/modules/swiss,               *)
(* modules/matches/fighter-status.service.ts with fighter-swiss.ts and     *)
(* fighter-reconcile.ts, and the SQL functions of migrations 0243, 0244).  *)
(*                                                                         *)
(* The SQL functions lock the phase's row: each is one step.  Everything   *)
(* else is reads and writes of their own: each write is a step, with the   *)
(* read that decides it where one comes just before it, and reads that     *)
(* follow one another are one step, but for the two reads a plan is made   *)
(* of, which are the ones a draw can fall between.  How a bout is fought   *)
(* is the module Bout; here it is scheduled, started, and fought or lost   *)
(* by forfeit.                                                             *)
(***************************************************************************)
EXTENDS Integers, FiniteSets

CONSTANTS
  Fighters,         \* the entrants of the phase
  RoundCount,       \* the rounds it is configured for
  Slots,            \* the requests the server can have in hand at once
  CommitTries,      \* COMMIT_TRIES
  ReconcileRounds,  \* RECONCILE_ROUNDS
  MaxAsked,         \* bound: requests of the desk
  MaxMet,           \* bound: those of them that may meet a request in hand
  Asked,            \* bound: what the desk may ask for first, second, ..., see Ops
  NoFighter

Ops == {"next", "again", "undo", "withdraw", "putBack", "delete", "finalise", "out", "in"}

ASSUME SwissConstants ==
  /\ RoundCount \in Nat \ {0}
  /\ NoFighter \notin Fighters
  /\ CommitTries \in Nat \ {0} /\ ReconcileRounds \in Nat \ {0}
  /\ MaxAsked \in Nat /\ MaxMet \in Nat
  /\ Asked \in [1..MaxAsked -> SUBSET Ops]

Nums == 1..RoundCount
Pair == {{a, b} : a \in Fighters, b \in Fighters} \ {{a} : a \in Fighters}
Anyone == Fighters \cup {NoFighter}

VARIABLES
  last,       \* the rounds drawn: 1..last stand
  roundId,    \* the id of each standing round; a round drawn again has a new one
  drawn,      \* the rounds ever drawn
  pairs, bye, \* who meets whom in each round, and who sits it out
  mark,       \* swiss_rounds.status
  bout,       \* the state of each bout
  record,     \* the live forfeits the status wrote, each with its fighter and bout
  filed,      \* the forfeits ever written
  undone,     \* those the organiser voided, each with its fighter's spell out of then
  wd, by,     \* swiss_entrants.withdrawn_at_round (0 for none) and withdrawn_by
  missed,     \* swiss_entrants.missed_rounds
  out,        \* the fighters out of the Tournament
  spell,      \* out_since: the spell out each is in, or was last, counted
  frozen,     \* the phase is finalised
  job,        \* the request in hand in each slot
  asked,      \* what the desk asked for so far
  stalled,    \* history: something kept a closed round from drawing the next one
  redrawn,    \* history: the numbers of rounds deleted
  unfollowed  \* history: fighters whose change of status was not followed

rounds   == <<last, roundId, drawn, pairs, bye>>
bouts    == <<bout, record, filed, undone>>
entrants == <<wd, by, missed>>
history  == <<stalled, redrawn, unfollowed>>
vars == <<rounds, mark, bouts, entrants, out, spell, frozen, job, asked, history>>

-----------------------------------------------------------------------------
(* Reading the phase.                                                      *)

Done == {"fought", "lost"}
Busy == {"running"} \cup Done        \* FOUGHT_STATUSES

\* activeEntrants
Active(f, n) == (wd[f] = 0 \/ wd[f] > n) /\ n \notin missed[f]
Field(n) == {f \in Fighters : Active(f, n)}

\* The field as swiss_commit_round reads it: it reads no missed_rounds.
StoredField(n) == {f \in Fighters : wd[f] = 0 \/ wd[f] > n}

\* validateSwissRound: everyone of the field once, and nobody else.
Covers(ps, b, field) ==
  /\ UNION ps \cup ({b} \ {NoFighter}) = field
  /\ b \notin UNION ps
  /\ \A p, q \in ps : p # q => p \cap q = {}

\* planSwissRound: which of the complete pairings it makes is left open.
Plans(field) == {pl \in [pairs : SUBSET Pair, bye : Anyone] : Covers(pl.pairs, pl.bye, field)}

\* deriveRoundStatus, with the bouts `unplayed` read as scheduled.
Derive(n, unplayed) ==
  LET state(p) == IF p \in unplayed THEN "scheduled" ELSE bout[n][p]
  IN  IF pairs[n] # {} /\ \A p \in pairs[n] : state(p) \in Done THEN "completed"
      ELSE IF \A p \in pairs[n] : state(p) = "scheduled" THEN "pending" ELSE "running"

\* swiss_phase_over
Over ==
  \/ frozen
  \/ last = RoundCount /\ pairs[last] # {} /\ \A p \in pairs[last] : bout[last][p] \in Done

\* The round a request knows by its id still stands.
Stands(r) == r.no \in 1..last /\ roundId[r.no] = r.id

-----------------------------------------------------------------------------
(* Requests.                                                               *)

Round == [no : Nums, id : Nat]
Refs  == [no : Nums, id : Nat, pair : Pair, who : Anyone, rec : Nat]
Forfeits == {r \in Refs : r.who \in Fighters}
Ref(n, p, f) == [no |-> n, id |-> roundId[n], pair |-> p, who |-> f, rec |-> 0]
Of(r) == [no |-> r.no, id |-> r.id]
SameBout(q, r) == Of(q) = Of(r) /\ q.pair = r.pair

\* The live forfeit of a bout: the index match_forfeits_one_active_per_match allows one.
Holder(r) == {q \in record : SameBout(q, r)}

\* The organiser voided his forfeit of the bout in that spell out of his, or after.
Voids == [ref : Forfeits, spell : Nat]
HandedBack(r, since) ==
  \E v \in undone : SameBout(v.ref, r) /\ v.ref.who = r.who /\ v.spell >= since

Marks == {"pending", "running", "completed"}
Steps == {"free", "assert", "unforfeit", "refresh", "mark", "put", "frozen", "later", "entrants", "rounds",
          "write", "follow", "withdraw", "bouts", "forfeit", "lose", "records", "restore",
          "void", "entries", "putBack", "recheck", "others", "next"}
Goals == {"none", "advance", "reopen", "undo", "draw", "settle", "opponent"}

Jobs == [step : Steps, goal : Goals,
         round : Round \cup {[no |-> 0, id |-> 0]},  \* the round refreshed
         derived : Marks,
         fields : [Nums -> SUBSET Fighters],         \* the entrants read, as the fields they give
         planned : Nat, pairs : SUBSET Pair, bye : Anyone, field : SUBSET Fighters,
         tries : Nat,
         who : Anyone, seen : BOOLEAN, since : Nat,  \* the fighter followed, as last read
         loops : Nat,
         rest : SUBSET Fighters,                     \* the opponents to follow after him
         todo : SUBSET Forfeits, at : SUBSET Refs,   \* bouts to go through, and the one in hand
         back : SUBSET Refs,                         \* bouts put back
         units : SUBSET Round]                       \* rounds to hand to the completion owner

Free == [step |-> "free", goal |-> "none", round |-> [no |-> 0, id |-> 0],
         derived |-> "pending", fields |-> [n \in Nums |-> {}], planned |-> 0, pairs |-> {},
         bye |-> NoFighter, field |-> {}, tries |-> 0, who |-> NoFighter, seen |-> FALSE,
         since |-> 0, loops |-> 0, rest |-> {}, todo |-> {}, at |-> {}, back |-> {}, units |-> {}]

At(s, step) == job[s].step = step
Quiet == \A s \in Slots : At(s, "free")
Go(s, j)    == job' = [job EXCEPT ![s] = j]
On(j, step) == [j EXCEPT !.step = step]

\* A round dealt with: the next one the request has to hand on, or the answer.
Onward(j) ==
  IF j.back = {} /\ j.units = {} THEN Free
  ELSE [Free EXCEPT !.step = "next", !.back = j.back, !.units = j.units]

\* A bout completed: its round is refreshed, and advanced if it closed.
Advance(r) == [Free EXCEPT !.step = "refresh", !.goal = "advance", !.round = r]

-----------------------------------------------------------------------------
(* SwissRoundStateService.refresh and SwissAdvanceService.                 *)

\* What a refresh is followed by.
Refreshed(j) ==
  CASE j.goal = "undo" -> On(j, "put")
    [] j.goal = "advance" /\ j.derived = "completed" -> On(j, "frozen")
    [] OTHER -> Onward(j)

Refresh(s) ==
  /\ At(s, "refresh")
  /\ LET j == job[s]
         unplayed == IF j.goal = "undo" THEN {r.pair : r \in j.at} ELSE {}
         d == IF Stands(j.round) THEN Derive(j.round.no, unplayed) ELSE "pending"
         k == [j EXCEPT !.derived = d]
     IN  Go(s, IF Stands(j.round) /\ d # mark[j.round.no] THEN On(k, "mark") ELSE Refreshed(k))
  /\ UNCHANGED <<rounds, mark, bouts, entrants, out, spell, frozen, asked, history>>

MarkRound(s) ==
  /\ At(s, "mark")
  /\ LET j == job[s] IN
       /\ mark' = IF Stands(j.round) THEN [mark EXCEPT ![j.round.no] = j.derived] ELSE mark
       /\ Go(s, Refreshed(j))
  /\ UNCHANGED <<rounds, bouts, entrants, out, spell, frozen, asked, history>>

IsFinalised(s) ==
  /\ At(s, "frozen")
  /\ Go(s, IF frozen THEN Onward(job[s]) ELSE On(job[s], "later"))
  /\ UNCHANGED <<rounds, mark, bouts, entrants, out, spell, frozen, asked, history>>

\* Only the last round advances.
HasLaterRound(s) ==
  /\ At(s, "later")
  /\ Go(s, IF last > job[s].round.no THEN Onward(job[s]) ELSE On(job[s], "entrants"))
  /\ UNCHANGED <<rounds, mark, bouts, entrants, out, spell, frozen, asked, history>>

-----------------------------------------------------------------------------
(* SwissPairingService.commitNextRound.                                    *)

LoadEntrants(s) ==
  /\ At(s, "entrants")
  /\ Go(s, [job[s] EXCEPT !.step = "rounds", !.fields = [n \in Nums |-> Field(n)]])
  /\ UNCHANGED <<rounds, mark, bouts, entrants, out, spell, frozen, asked, history>>

\* The last round as the entrants read say it should be (assertPreviousRoundValid).
PreviousValid(j) == last > 0 => Covers(pairs[last], bye[last], j.fields[last])

PlanRound(s) ==
  /\ At(s, "rounds")
  /\ last < RoundCount /\ PreviousValid(job[s])
  /\ \E pl \in Plans(job[s].fields[last + 1]) :
       Go(s, [job[s] EXCEPT !.step = "write", !.planned = last + 1, !.pairs = pl.pairs,
                            !.bye = pl.bye, !.field = job[s].fields[last + 1]])
  /\ UNCHANGED <<rounds, mark, bouts, entrants, out, spell, frozen, asked, history>>

NoMoreRounds(s) ==
  /\ At(s, "rounds") /\ last = RoundCount
  /\ Go(s, Onward(job[s]))
  /\ UNCHANGED <<rounds, mark, bouts, entrants, out, spell, frozen, asked, history>>

PreviousInvalid(s) ==
  /\ At(s, "rounds") /\ last < RoundCount /\ ~PreviousValid(job[s])
  /\ Go(s, Onward(job[s]))
  /\ stalled' = TRUE
  /\ UNCHANGED <<rounds, mark, bouts, entrants, out, spell, frozen, asked, redrawn, unfollowed>>

Stale_RoundOnly(j) == last + 1 # j.planned

\* swiss_commit_round answers 'stale': a round or the field changed since the plan.
Stale(j) == last + 1 # j.planned \/ StoredField(j.planned) # j.field

Commit(s) ==
  /\ At(s, "write") /\ job[s].planned > last /\ ~Stale(job[s])
  /\ LET j == job[s]  n == last + 1 IN
       /\ last' = n /\ drawn' = drawn + 1
       /\ roundId' = [roundId EXCEPT ![n] = drawn + 1]
       /\ pairs' = [pairs EXCEPT ![n] = j.pairs]
       /\ bye' = [bye EXCEPT ![n] = j.bye]
       /\ mark' = [mark EXCEPT ![n] = "pending"]
       /\ bout' = [bout EXCEPT ![n] = [p \in Pair |-> IF p \in j.pairs THEN "scheduled" ELSE "none"]]
       /\ Go(s, Onward(j))
  /\ UNCHANGED <<record, filed, undone, entrants, out, spell, frozen, asked, history>>

CommitExists(s) ==
  /\ At(s, "write") /\ job[s].planned <= last
  /\ Go(s, Onward(job[s]))
  /\ UNCHANGED <<rounds, mark, bouts, entrants, out, spell, frozen, asked, history>>

CommitStale(s) ==
  /\ At(s, "write") /\ job[s].planned > last /\ Stale(job[s])
  /\ IF job[s].tries + 1 < CommitTries
     THEN /\ Go(s, [job[s] EXCEPT !.step = "entrants", !.tries = @ + 1])
          /\ UNCHANGED stalled
     ELSE /\ Go(s, Onward(job[s])) /\ stalled' = TRUE
  /\ UNCHANGED <<rounds, mark, bouts, entrants, out, spell, frozen, asked, redrawn, unfollowed>>

-----------------------------------------------------------------------------
(* The bouts of a round.                                                   *)

StartBout(n, p) ==
  /\ n <= last /\ p \in pairs[n] /\ bout[n][p] = "scheduled"
  /\ bout' = [bout EXCEPT ![n][p] = "running"]
  /\ UNCHANGED <<rounds, mark, record, filed, undone, entrants, out, spell, frozen, job, asked, history>>

FinishBout(s, n, p) ==
  /\ n <= last /\ p \in pairs[n] /\ bout[n][p] = "running" /\ At(s, "free")
  /\ bout' = [bout EXCEPT ![n][p] = "fought"]
  /\ Go(s, Advance([no |-> n, id |-> roundId[n]]))
  /\ UNCHANGED <<rounds, mark, record, filed, undone, entrants, out, spell, frozen, asked, history>>

Ask(op) ==
  /\ asked < MaxAsked /\ op \in Asked[asked + 1]
  /\ asked' = asked + 1
  /\ asked < MaxMet \/ Quiet

\* A status PATCH of a bout already completed.
CompleteAgain(s, n, p) ==
  /\ Ask("again") /\ At(s, "free")
  /\ n <= last /\ p \in pairs[n] /\ bout[n][p] \in Done
  /\ Go(s, Advance([no |-> n, id |-> roundId[n]]))
  /\ UNCHANGED <<rounds, mark, bouts, entrants, out, spell, frozen, history>>

\* An un-completion (onMatchUncompleted) reads the live forfeit of the bout.  One that
\* the status wrote does not refuse it (assertForfeitsVoidableHere).
UndoBout(s, n, p) ==
  /\ Ask("undo") /\ At(s, "free")
  /\ n <= last /\ p \in pairs[n] /\ bout[n][p] \in Done
  /\ LET r == Ref(n, p, NoFighter) IN
       Go(s, [Free EXCEPT !.step = "assert", !.goal = "undo", !.at = {r}, !.round = Of(r),
                          !.todo = Holder(r)])
  /\ UNCHANGED <<rounds, mark, bouts, entrants, out, spell, frozen, history>>

\* assertUncompletable: a later round refuses it, or the organiser says it stands as drawn.
AssertUncompletable(s) ==
  /\ At(s, "assert")
  /\ \/ Go(s, On(job[s], IF job[s].todo = {} THEN "refresh" ELSE "unforfeit"))
     \/ last > job[s].round.no /\ Go(s, Free)
  /\ UNCHANGED <<rounds, mark, bouts, entrants, out, spell, frozen, asked, history>>

\* The organiser's put-back: the forfeit read is voided, and not by a return
\* (voided_by_return is left as it is), before the round and the row are written.  A
\* forfeit gone with its round fails the request.
VoidForfeitRecords(s) ==
  /\ At(s, "unforfeit")
  /\ LET held == job[s].todo
         byHand == held \cap (record \cup {v.ref : v \in undone})
     IN  IF Stands(job[s].round)
         THEN /\ record' = record \ held
              /\ undone' = {v \in undone : v.ref \notin held}
                             \cup {[ref |-> q, spell |-> spell[q.who]] : q \in byHand}
              /\ Go(s, [job[s] EXCEPT !.step = "refresh", !.todo = {}])
         ELSE Go(s, Free) /\ UNCHANGED <<record, undone>>
  /\ UNCHANGED <<rounds, mark, bout, filed, entrants, out, spell, frozen, asked, history>>

\* The fighters of a bout who are out, whose forfeit the organiser did not void, and
\* whom no request is about to read the bouts of.
LeftWaiting(r) ==
  {f \in r.pair \cap out :
     /\ ~HandedBack([r EXCEPT !.who = f], spell[f])
     /\ ~\E t \in Slots : job[t].who = f /\ job[t].since = spell[f]
                            /\ job[t].step \in {"withdraw", "bouts"}}

\* The row, written after its round was refreshed as if it were.
PutBout(s) ==
  /\ At(s, "put")
  /\ \E r \in job[s].at, st \in {"scheduled", "running"} :
       /\ bout' = IF Stands(r) THEN [bout EXCEPT ![r.no][r.pair] = st] ELSE bout
       /\ unfollowed' = IF Stands(r) /\ st = "scheduled" THEN unfollowed \cup LeftWaiting(r)
                        ELSE unfollowed
  /\ Go(s, Free)
  /\ UNCHANGED <<rounds, mark, record, filed, undone, entrants, out, spell, frozen, asked,
                 stalled, redrawn>>

-----------------------------------------------------------------------------
(* The SQL functions that change who is in the pairings, and the delete.   *)

\* swiss_withdraw
SwissWithdraw(f, how) ==
  IF wd[f] # 0 \/ (how = "status" /\ Over) THEN UNCHANGED entrants
  ELSE /\ wd' = [wd EXCEPT ![f] = last + 1]
       /\ by' = [by EXCEPT ![f] = how]
       /\ UNCHANGED missed

\* swiss_put_back: a put-back by status leaves alone a hand withdrawal, a phase
\* that is over, and a fighter a round was drawn without.
MayPutBack(f, how) ==
  /\ wd[f] # 0 /\ f \notin out
  /\ how = "status" => by[f] # "hand" /\ ~Over /\ last < wd[f]

SwissPutBack_KeepsBy(f, how) ==
  IF ~MayPutBack(f, how) THEN UNCHANGED entrants
  ELSE /\ wd' = [wd EXCEPT ![f] = 0]
       /\ missed' = IF how = "hand" THEN [missed EXCEPT ![f] = @ \cup wd[f]..last] ELSE missed
       /\ UNCHANGED by

SwissPutBack(f, how) ==
  IF ~MayPutBack(f, how) THEN UNCHANGED entrants
  ELSE /\ wd' = [wd EXCEPT ![f] = 0]
       /\ by' = [by EXCEPT ![f] = "none"]
       /\ missed' = IF how = "hand" THEN [missed EXCEPT ![f] = @ \cup wd[f]..last] ELSE missed

Withdraw(f) ==
  /\ Ask("withdraw")
  /\ SwissWithdraw(f, "hand")
  /\ UNCHANGED <<rounds, mark, bouts, out, spell, frozen, job, history>>

Reinstate(f) ==
  /\ Ask("putBack")
  /\ SwissPutBack(f, "hand")
  /\ UNCHANGED <<rounds, mark, bouts, out, spell, frozen, job, history>>

DeleteRound_KeepsMissed ==
  /\ Ask("delete") /\ last > 0
  /\ \A p \in pairs[last] : bout[last][p] \notin Busy
  /\ ~\E r \in record : Stands(r) /\ r.no = last
  /\ last' = last - 1
  /\ pairs' = [pairs EXCEPT ![last] = {}]
  /\ bye' = [bye EXCEPT ![last] = NoFighter]
  /\ bout' = [bout EXCEPT ![last] = [p \in Pair |-> "none"]]
  /\ stalled' = TRUE /\ redrawn' = redrawn \cup {last}
  /\ UNCHANGED <<roundId, drawn, mark, record, filed, undone, entrants, out, spell, frozen, job,
                 unfollowed>>

\* swiss_delete_last_round: nothing started in it, and no live forfeit on it.
DeleteRound ==
  /\ Ask("delete") /\ last > 0
  /\ \A p \in pairs[last] : bout[last][p] \notin Busy
  /\ ~\E r \in record : Stands(r) /\ r.no = last
  /\ last' = last - 1
  /\ pairs' = [pairs EXCEPT ![last] = {}]
  /\ bye' = [bye EXCEPT ![last] = NoFighter]
  /\ bout' = [bout EXCEPT ![last] = [p \in Pair |-> "none"]]
  /\ missed' = [f \in Fighters |-> missed[f] \ {last}]
  /\ stalled' = TRUE /\ redrawn' = redrawn \cup {last}
  /\ UNCHANGED <<roundId, drawn, mark, record, filed, undone, wd, by, out, spell, frozen, job,
                 unfollowed>>

Finalise ==
  /\ Ask("finalise") /\ ~frozen
  /\ frozen' = TRUE
  /\ UNCHANGED <<rounds, mark, bouts, entrants, out, spell, job, history>>

CommitNextRound(s) ==
  /\ Ask("next") /\ At(s, "free")
  /\ Go(s, [Free EXCEPT !.step = "entrants", !.goal = "draw"])
  /\ UNCHANGED <<rounds, mark, bouts, entrants, out, spell, frozen, history>>

-----------------------------------------------------------------------------
(* A fighter's pairings and bouts follow his status (FighterStatusService).*)

Following(j, f) == [j EXCEPT !.step = "follow", !.who = f, !.loops = 0]

\* settle: settle_fighter_status, then the reconcile.
Settle(s, f) ==
  /\ At(s, "free")
  /\ \/ /\ Ask("out") /\ f \notin out
        /\ out' = out \cup {f} /\ spell' = [spell EXCEPT ![f] = @ + 1]
     \/ /\ Ask("in") /\ f \in out
        /\ out' = out \ {f} /\ UNCHANGED spell
  /\ Go(s, Following([Free EXCEPT !.goal = "settle"], f))
  /\ unfollowed' = unfollowed \ {f}
  /\ UNCHANGED <<rounds, mark, bouts, entrants, frozen, stalled, redrawn>>

\* One round of followStatus, for the status and the spell as just read.
FollowRound(j) == [j EXCEPT !.seen = j.who \in out, !.since = spell[j.who],
                            !.step = IF j.who \in out THEN "withdraw" ELSE "records"]

ReadFighter(s) ==
  /\ At(s, "follow")
  /\ Go(s, FollowRound(job[s]))
  /\ UNCHANGED <<rounds, mark, bouts, entrants, out, spell, frozen, asked, history>>

\* swissOut
SwissOut(s) ==
  /\ At(s, "withdraw")
  /\ SwissWithdraw(job[s].who, "status")
  /\ Go(s, On(job[s], "bouts"))
  /\ unfollowed' = IF Over THEN unfollowed \cup {job[s].who} ELSE unfollowed
  /\ UNCHANGED <<rounds, mark, bouts, out, spell, frozen, asked, stalled, redrawn>>

\* unfoughtBoutsOf: his scheduled bouts.
Unfought(f) == {Ref(x[1], x[2], f) : x \in {y \in (1..last) \X Pair :
                  f \in y[2] /\ y[2] \in pairs[y[1]] /\ bout[y[1]][y[2]] = "scheduled"}}

BoutsToTakeOut_AnySpell(j) ==
  IF Over THEN {} ELSE {r \in Unfought(j.who) : ~HandedBack(r, 0)}

\* boutsToTakeOut: but for those the organiser put back in the spell out he was read
\* in; none in a phase that is over.
BoutsToTakeOut(j) ==
  IF Over THEN {} ELSE {r \in Unfought(j.who) : ~HandedBack(r, j.since)}

ReadBouts(s) ==
  /\ At(s, "bouts")
  /\ Go(s, [job[s] EXCEPT !.step = "forfeit", !.todo = BoutsToTakeOut(job[s])])
  /\ unfollowed' = IF Over THEN unfollowed \cup {job[s].who} ELSE unfollowed
  /\ UNCHANGED <<rounds, mark, bouts, entrants, out, spell, frozen, asked, stalled, redrawn>>

\* The request fails: what it did stays, and nothing is handed on.  Nor are the
\* opponents followed that it still had to.
Fail(s) ==
  /\ Go(s, Free)
  /\ stalled' = TRUE
  /\ unfollowed' = unfollowed \cup {job[s].who} \cup job[s].rest
                     \cup UNION {r.pair : r \in job[s].back}
  /\ UNCHANGED redrawn

\* forfeitBout: one live record on a bout; his own, cut short, is finished.
RecordForfeit(s) ==
  /\ At(s, "forfeit")
  /\ \E r \in job[s].todo :
       LET j == [job[s] EXCEPT !.todo = @ \ {r}] IN
       \/ /\ Stands(r) /\ Holder(r) = {}
          /\ filed' = filed + 1
          /\ record' = record \cup {[r EXCEPT !.rec = filed + 1]}
          /\ Go(s, [j EXCEPT !.step = "lose", !.at = {r}])
          /\ UNCHANGED history
       \/ /\ Stands(r) /\ Holder(r) # {}
          /\ Go(s, IF \E q \in Holder(r) : q.who = r.who
                   THEN [j EXCEPT !.step = "lose", !.at = {r}] ELSE j)
          /\ UNCHANGED <<record, filed, history>>
       \/ /\ ~Stands(r) /\ Fail(s)
          /\ UNCHANGED <<record, filed>>
  /\ UNCHANGED <<rounds, mark, bout, undone, entrants, out, spell, frozen, asked>>

LoseBout_NotHandedOn(s) ==
  /\ At(s, "lose")
  /\ \E r \in job[s].at :
       bout' = IF Stands(r) THEN [bout EXCEPT ![r.no][r.pair] = "lost"] ELSE bout
  /\ Go(s, [job[s] EXCEPT !.step = "forfeit", !.at = {}])
  /\ UNCHANGED <<rounds, mark, record, filed, undone, entrants, out, spell, frozen, asked, history>>

LoseBout(s) ==
  /\ At(s, "lose")
  /\ \E r \in job[s].at :
       /\ bout' = IF Stands(r) THEN [bout EXCEPT ![r.no][r.pair] = "lost"] ELSE bout
       /\ Go(s, [job[s] EXCEPT !.step = "forfeit", !.at = {}, !.units = @ \cup {Of(r)}])
  /\ UNCHANGED <<rounds, mark, record, filed, undone, entrants, out, spell, frozen, asked, history>>

TookOut(s) ==
  /\ At(s, "forfeit") /\ job[s].todo = {}
  /\ Go(s, On(job[s], "recheck"))
  /\ UNCHANGED <<rounds, mark, bouts, entrants, out, spell, frozen, asked, history>>

\* bringBack: the live records the status wrote, in a phase that is not over.
ReadRecords(s) ==
  /\ At(s, "records")
  /\ LET mine == IF Over THEN {} ELSE {r \in record : r.who = job[s].who} IN
       Go(s, [job[s] EXCEPT !.step = IF mine = {} THEN "entries" ELSE "restore", !.todo = mine])
  /\ unfollowed' = IF Over THEN unfollowed \cup {job[s].who} ELSE unfollowed
  /\ UNCHANGED <<rounds, mark, bouts, entrants, out, spell, frozen, asked, stalled, redrawn>>

\* recordedResultDiverged: the bout is no longer as its forfeit left it.  A record that
\* has not kept that result yet compares nothing, so this may be true, or not.
MayDiverge(r) ==
  Stands(r) /\ (bout[r.no][r.pair] # "lost" \/ \E q \in Holder(r) : q.who # r.who)

\* putBack: a bout in play, or that diverged, is left alone; the record goes either way.
RestoreBout(s) ==
  /\ At(s, "restore")
  /\ \E r \in job[s].todo, diverged \in BOOLEAN :
       LET leave == Stands(r) /\ (bout[r.no][r.pair] = "running" \/ diverged) IN
       /\ diverged => MayDiverge(r)
       /\ bout' = IF Stands(r) /\ ~leave THEN [bout EXCEPT ![r.no][r.pair] = "scheduled"] ELSE bout
       /\ Go(s, [job[s] EXCEPT !.step = "void", !.at = {r}, !.todo = @ \ {r},
                               !.back = IF leave THEN @ ELSE @ \cup {r}])
  /\ UNCHANGED <<rounds, mark, record, filed, undone, entrants, out, spell, frozen, asked, history>>

\* The opponent in a bout put back who is left to his own settle: the request
\* follows those of its own fighter's bouts, not of the bouts their loop puts back.
Theirs(j) == {f \in Fighters \ {j.who} : \E r \in j.at :
                /\ f \in r.pair /\ Stands(r) /\ bout[r.no][r.pair] = "scheduled"
                /\ j.goal = "opponent" \/ r \notin j.back}

\* voided_by_return: a void of the organiser meanwhile no longer counts as one.  A
\* record gone with its round fails the request.
VoidRecord(s) ==
  /\ At(s, "void")
  /\ IF \A r \in job[s].at : Stands(r)
     THEN /\ record' = record \ job[s].at
          /\ undone' = {v \in undone : v.ref \notin job[s].at}
          /\ Go(s, [job[s] EXCEPT !.at = {},
                                  !.step = IF job[s].todo = {} THEN "entries" ELSE "restore"])
          /\ unfollowed' = unfollowed \cup Theirs(job[s])
          /\ UNCHANGED <<stalled, redrawn>>
     ELSE Fail(s) /\ UNCHANGED <<record, undone>>
  /\ UNCHANGED <<rounds, mark, bout, filed, entrants, out, spell, frozen, asked>>

\* swissBackIn asks for the put-back only of an entry the status withdrew.
ReadEntries(s) ==
  /\ At(s, "entries")
  /\ Go(s, On(job[s], IF by[job[s].who] = "status" THEN "putBack" ELSE "recheck"))
  /\ UNCHANGED <<rounds, mark, bouts, entrants, out, spell, frozen, asked, history>>

SwissBackIn(s) ==
  /\ At(s, "putBack")
  /\ SwissPutBack(job[s].who, "status")
  /\ Go(s, On(job[s], "recheck"))
  /\ UNCHANGED <<rounds, mark, bouts, out, spell, frozen, asked, history>>

\* The status is read again: where it was, the fighter is followed.
StatusHeld(s) ==
  /\ At(s, "recheck") /\ (job[s].who \in out) = job[s].seen
  /\ Go(s, On(job[s], "others"))
  /\ UNCHANGED <<rounds, mark, bouts, entrants, out, spell, frozen, asked, history>>

StatusMoved(s) ==
  /\ At(s, "recheck") /\ (job[s].who \in out) # job[s].seen
  /\ IF job[s].loops + 1 < ReconcileRounds
     THEN Go(s, FollowRound([job[s] EXCEPT !.loops = @ + 1])) /\ UNCHANGED history
     ELSE Fail(s)
  /\ UNCHANGED <<rounds, mark, bouts, entrants, out, spell, frozen, asked>>

\* reconcile: a bout put back faces two fighters; the other one, out, is followed.
FollowOthers(s) ==
  /\ At(s, "others")
  /\ LET j == job[s]
         rest == IF j.goal = "opponent" THEN j.rest
                 ELSE {f \in out \ {j.who} : \E r \in j.back : Stands(r) /\ f \in r.pair}
         k == [j EXCEPT !.goal = "opponent", !.rest = rest]
     IN  IF rest = {} THEN Go(s, Onward(j))
         ELSE \E f \in rest : Go(s, Following([k EXCEPT !.rest = @ \ {f}], f))
  /\ UNCHANGED <<rounds, mark, bouts, entrants, out, spell, frozen, asked, history>>

\* handOn: the rounds of the bouts put back, then those the forfeits completed bouts in.
HandOn(s) ==
  /\ At(s, "next")
  /\ LET j == job[s] IN
       \/ \E r \in j.back :
            Go(s, [j EXCEPT !.step = "refresh", !.goal = "reopen", !.round = Of(r), !.back = @ \ {r}])
       \/ j.back = {} /\ \E u \in j.units :
            Go(s, [Advance(u) EXCEPT !.units = j.units \ {u}])
  /\ UNCHANGED <<rounds, mark, bouts, entrants, out, spell, frozen, asked, history>>

-----------------------------------------------------------------------------
\* generateSwiss has inserted the phase and its entrants, and draws round 1.
Init ==
  /\ last = 0 /\ drawn = 0 /\ roundId = [n \in Nums |-> 0]
  /\ pairs = [n \in Nums |-> {}] /\ bye = [n \in Nums |-> NoFighter]
  /\ mark = [n \in Nums |-> "pending"]
  /\ bout = [n \in Nums |-> [p \in Pair |-> "none"]] /\ record = {} /\ filed = 0
  /\ undone = {} /\ spell = [f \in Fighters |-> 0]
  /\ wd = [f \in Fighters |-> 0] /\ by = [f \in Fighters |-> "none"]
  /\ missed = [f \in Fighters |-> {}]
  /\ out = {} /\ frozen = FALSE
  /\ \E s \in Slots : job = [t \in Slots |-> IF t = s
       THEN [Free EXCEPT !.step = "entrants", !.goal = "draw"] ELSE Free]
  /\ asked = 0
  /\ stalled = FALSE /\ redrawn = {} /\ unfollowed = {}

Pairing(s) ==
  \/ Refresh(s) \/ MarkRound(s) \/ IsFinalised(s) \/ HasLaterRound(s)
  \/ LoadEntrants(s) \/ PlanRound(s) \/ NoMoreRounds(s) \/ PreviousInvalid(s)
  \/ Commit(s) \/ CommitExists(s) \/ CommitStale(s)
  \/ AssertUncompletable(s) \/ VoidForfeitRecords(s) \/ PutBout(s)

Reconcile(s) ==
  \/ ReadFighter(s) \/ SwissOut(s) \/ ReadBouts(s) \/ RecordForfeit(s) \/ LoseBout(s)
  \/ TookOut(s) \/ ReadRecords(s) \/ RestoreBout(s) \/ VoidRecord(s) \/ ReadEntries(s)
  \/ SwissBackIn(s) \/ StatusHeld(s) \/ StatusMoved(s) \/ FollowOthers(s) \/ HandOn(s)

Bouts ==
  \E n \in Nums, p \in Pair :
    \/ StartBout(n, p)
    \/ \E s \in Slots : FinishBout(s, n, p) \/ CompleteAgain(s, n, p) \/ UndoBout(s, n, p)

Desk ==
  \/ \E f \in Fighters : Withdraw(f) \/ Reinstate(f) \/ \E s \in Slots : Settle(s, f)
  \/ DeleteRound \/ Finalise
  \/ \E s \in Slots : CommitNextRound(s)

Next == Bouts \/ Desk \/ \E s \in Slots : Pairing(s) \/ Reconcile(s)

Spec == Init /\ [][Next]_vars

-----------------------------------------------------------------------------
SwissTypeOK ==
  /\ last \in 0..RoundCount /\ drawn \in Nat /\ roundId \in [Nums -> Nat]
  /\ pairs \in [Nums -> SUBSET Pair] /\ bye \in [Nums -> Anyone]
  /\ mark \in [Nums -> Marks]
  /\ bout \in [Nums -> [Pair -> {"none", "scheduled"} \cup Busy]]
  /\ record \in SUBSET Forfeits /\ filed \in Nat /\ undone \in SUBSET Voids
  /\ wd \in [Fighters -> Nat] /\ by \in [Fighters -> {"none", "hand", "status"}]
  /\ \A f \in Fighters : (by[f] = "none") = (wd[f] = 0)
  /\ missed \in [Fighters -> SUBSET Nat]
  /\ out \in SUBSET Fighters /\ spell \in [Fighters -> Nat] /\ frozen \in BOOLEAN
  /\ job \in [Slots -> Jobs]
  /\ asked \in 0..MaxAsked
  /\ stalled \in BOOLEAN /\ redrawn \in SUBSET Nums /\ unfollowed \in SUBSET Fighters

(* Every round that stands is a legal round of the entrants as they are    *)
(* now: everyone who takes part in it is in it once, and nobody else, also *)
(* after fighters were withdrawn, put back and rounds deleted.  A round    *)
(* that is not one blocks every later round (assertPreviousRoundValid).    *)
RoundsAreLegal == \A n \in 1..last : Covers(pairs[n], bye[n], Field(n))

(* missed_rounds holds only rounds that exist, which is why the commit     *)
(* does not read it (migration 0244).                                      *)
MissedRoundsExist == \A f \in Fighters : missed[f] \subseteq 1..last

(* Once no request is in hand, a fighter out of the Tournament is out of   *)
(* the pairings and has no bout waiting, whatever draw, put-back or other  *)
(* change of status his own met (followStatus, swiss_put_back); but for a  *)
(* bout whose forfeit the organiser voided since he went out, which stays  *)
(* back until his next spell out, and no longer (boutsToTakeOut).  Left    *)
(* out: what was not followed as the request failed or the phase was over; *)
(* a bout undone that waits for a fighter whose forfeit it did not void,   *)
(* as an un-completion follows nobody; a bout put back for his opponent by *)
(* a request that followed a third fighter, which leaves it to the         *)
(* opponent's own settle (reconcile, `theirs`), where that one may find it *)
(* put back; a round drawn again after a delete, which pairs a fighter     *)
(* withdrawn from the round after it; and a bout undone while his          *)
(* opponent's forfeit was being written, which keeps that one.             *)
OutIsFollowed ==
  Quiet /\ ~Over => \A f \in out \ unfollowed :
    /\ wd[f] # 0
    /\ \A n \in (1..last) \ redrawn : \A p \in pairs[n] :
         f \in p /\ bout[n][p] = "scheduled" =>
           \/ HandedBack(Ref(n, p, f), spell[f])
           \/ \E q \in Holder(Ref(n, p, f)) : q.who # f

(* Once no request is in hand, the last round is not closed with nothing   *)
(* drawn after it, while the phase goes on (onMatchCompleted): unless the  *)
(* desk deleted a round, a request failed, or a draw met an invalid round  *)
(* or a field that changed at every try.                                   *)
ClosedRoundAdvances ==
  Quiet /\ ~stalled /\ ~frozen /\ last \in 1..(RoundCount - 1) /\ pairs[last] # {} =>
    \E p \in pairs[last] : bout[last][p] \notin Done

(* A round cannot be paired until the one before it is scored              *)
(* (swiss-advance.service.ts); with no hand on the pairings it never is.   *)
DrawnOverFought == \A n \in 1..(last - 1) : \A p \in pairs[n] : bout[n][p] \in Done
=============================================================================
