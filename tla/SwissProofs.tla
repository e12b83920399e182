---------------------------- MODULE SwissProofs ----------------------------
(***************************************************************************)
(* Proofs about Swiss: its types; that every round that stands is a legal  *)
(* round of the entrants as they are; that a closed round is handed on to  *)
(* the next; and that a fighter who is out is followed, for any fighters,  *)
(* any number of rounds and of requests at once, and everything the desk   *)
(* may ask.                                                                *)
(***************************************************************************)
EXTENDS Swiss, TLAPS

-----------------------------------------------------------------------------
(* The inductive invariant.                                                *)

FollowSteps == {"follow", "withdraw", "bouts", "forfeit", "lose", "records", "restore",
                "void", "entries", "putBack", "recheck", "others"}

\* A request about to write a round holds a complete pairing of the field it
\* read, and one that follows a status is about a fighter.
Sound(j) ==
  /\ j.step = "write" => j.planned \in Nums /\ Covers(j.pairs, j.bye, j.field)
  /\ j.step \in FollowSteps => j.who \in Fighters
SoundJobs == {j \in Jobs : Sound(j)}

RoundsOK ==
  /\ last \in 0..RoundCount /\ drawn \in Nat /\ roundId \in [Nums -> Nat]
  /\ pairs \in [Nums -> SUBSET Pair] /\ bye \in [Nums -> Anyone]
MarkOK == mark \in [Nums -> Marks]
BoutsOK ==
  /\ bout \in [Nums -> [Pair -> {"none", "scheduled"} \cup Busy]]
  /\ record \in SUBSET Forfeits /\ filed \in Nat /\ undone \in SUBSET Voids
EntrantsOK ==
  /\ wd \in [Fighters -> Nat] /\ by \in [Fighters -> {"none", "hand", "status"}]
  /\ \A f \in Fighters : (by[f] = "none") = (wd[f] = 0)
  /\ missed \in [Fighters -> SUBSET Nat]
OthersOK ==
  /\ out \in SUBSET Fighters /\ spell \in [Fighters -> Nat]
  /\ frozen \in BOOLEAN /\ asked \in 0..MaxAsked
  /\ stalled \in BOOLEAN /\ redrawn \in SUBSET Nums /\ unfollowed \in SUBSET Fighters
JobsOK == job \in [Slots -> SoundJobs]

Inv ==
  /\ RoundsOK /\ MarkOK /\ BoutsOK /\ EntrantsOK /\ OthersOK /\ JobsOK
  /\ MissedRoundsExist /\ RoundsAreLegal

\* The invariant holds the type invariant.
LEMMA InvTyped == Inv => SwissTypeOK
BY DEF Inv, SwissTypeOK, RoundsOK, MarkOK, BoutsOK, EntrantsOK, OthersOK, JobsOK, SoundJobs

-----------------------------------------------------------------------------
(* Requests stay sound.                                                    *)

\* An idle slot.
LEMMA FreeSound == Free \in SoundJobs /\ Free.step = "free"
BY DEF Free, SoundJobs, Jobs, Sound, FollowSteps, Steps, Goals, Marks, Anyone

\* A step that is not the write of a round.
LEMMA OnSound ==
  ASSUME NEW j \in SoundJobs, NEW st \in Steps, st # "write",
         st \in FollowSteps => j.who \in Fighters
  PROVE  On(j, st) \in SoundJobs
<1>1. [j EXCEPT !.step = st] \in Jobs
  BY DEF SoundJobs, Jobs
<1> QED
  BY <1>1 DEF SoundJobs, Jobs, Sound, FollowSteps, On

\* The request goes on to its next round.
LEMMA OnwardSound ==
  ASSUME NEW j \in SoundJobs
  PROVE  Onward(j) \in SoundJobs
<1>1. [Free EXCEPT !.step = "next", !.back = j.back, !.units = j.units] \in Jobs
  BY FreeSound DEF SoundJobs, Jobs, Steps
<1>2. [Free EXCEPT !.step = "next", !.back = j.back, !.units = j.units].step = "next"
  BY FreeSound DEF SoundJobs, Jobs
<1> QED
  BY <1>1, <1>2, FreeSound DEF SoundJobs, Sound, FollowSteps, Onward

\* A bout completed.
LEMMA AdvanceSound ==
  ASSUME NEW r \in Round
  PROVE  Advance(r) \in SoundJobs /\ Advance(r).units = {}
<1>1. [Free EXCEPT !.step = "refresh", !.goal = "advance", !.round = r] \in Jobs
  BY FreeSound DEF SoundJobs, Jobs, Steps, Goals
<1> QED
  BY <1>1, FreeSound DEF SoundJobs, Jobs, Sound, FollowSteps, Advance, Free

\* What follows a refresh.
LEMMA RefreshedSound ==
  ASSUME NEW j \in SoundJobs
  PROVE  Refreshed(j) \in SoundJobs
<1>1. {"put", "frozen"} \subseteq Steps \ (FollowSteps \cup {"write"})
  BY DEF Steps, FollowSteps
<1>2. On(j, "put") \in SoundJobs /\ On(j, "frozen") \in SoundJobs
  BY <1>1, OnSound
<1> QED
  BY <1>2, OnwardSound DEF Refreshed

\* A fighter to follow.
LEMMA FollowingSound ==
  ASSUME NEW j \in SoundJobs, NEW f \in Fighters
  PROVE  Following(j, f) \in SoundJobs
<1>1. [j EXCEPT !.step = "follow", !.who = f, !.loops = 0] \in Jobs
  BY DEF SoundJobs, Jobs, Steps, Anyone
<1> QED
  BY <1>1 DEF SoundJobs, Jobs, Sound, FollowSteps, Following

\* One round of following him.
LEMMA FollowRoundSound ==
  ASSUME OthersOK, NEW j \in SoundJobs, j.who \in Fighters
  PROVE  FollowRound(j) \in SoundJobs
<1> DEFINE b  == j.who \in out
           sp == spell[j.who]
           st == IF j.who \in out THEN "withdraw" ELSE "records"
           k  == [j EXCEPT !.seen = b, !.since = sp, !.step = st]
<1>1. st \in Steps /\ st # "write"
  BY DEF Steps
<1>2. b \in BOOLEAN /\ sp \in Nat
  BY DEF OthersOK
<1> HIDE DEF b, sp, st
<1>3. k \in Jobs /\ k.step = st /\ k.who = j.who
  BY <1>1, <1>2 DEF SoundJobs, Jobs
<1>4. k \in SoundJobs
  BY <1>1, <1>3 DEF SoundJobs, Sound, FollowSteps
<1> QED
  BY <1>4 DEF FollowRound, b, sp, st

\* A slot takes a sound request.
LEMMA GoSound ==
  ASSUME JobsOK, NEW s \in Slots, NEW j \in SoundJobs, Go(s, j)
  PROVE  JobsOK'
BY DEF JobsOK, Go

\* What leaves the rounds and the entrants alone keeps them legal.
LEMMA Frame ==
  ASSUME Inv, UNCHANGED <<rounds, entrants>>, MarkOK', BoutsOK', OthersOK', JobsOK'
  PROVE  Inv'
BY DEF Inv, rounds, entrants, RoundsOK, EntrantsOK, MissedRoundsExist, RoundsAreLegal,
       Field, Active

\* A step of a request that writes nothing of the phase.
LEMMA RequestOnly ==
  ASSUME Inv, NEW s \in Slots, NEW j \in SoundJobs, Go(s, j), OthersOK',
         UNCHANGED <<rounds, mark, bouts, entrants>>
  PROVE  Inv'
<1>1. JobsOK'
  BY GoSound DEF Inv
<1>2. MarkOK' /\ BoutsOK'
  BY DEF Inv, MarkOK, BoutsOK, bouts
<1> QED
  BY <1>1, <1>2, Frame

\* As RequestOnly, where the rest is unchanged too.
LEMMA ReadOnly ==
  ASSUME Inv, NEW s \in Slots, NEW j \in SoundJobs, Go(s, j),
         UNCHANGED <<rounds, mark, bouts, entrants, out, spell, frozen, asked, history>>
  PROVE  Inv'
<1>1. OthersOK'
  BY DEF Inv, OthersOK, history
<1>2. UNCHANGED <<rounds, mark, bouts, entrants>>
  OBVIOUS
<1> QED
  BY <1>1, <1>2, RequestOnly

\* A request of the desk, counted.
LEMMA AskedOK ==
  ASSUME Inv, NEW op, Ask(op), UNCHANGED <<out, spell, frozen, history>>
  PROVE  OthersOK'
BY SwissConstants DEF Inv, OthersOK, Ask, history

-----------------------------------------------------------------------------
(* One lemma for each group of actions.                                    *)

LEMMA RefreshKeeps ==
  ASSUME Inv, NEW s \in Slots, Refresh(s)
  PROVE  Inv'
<1> DEFINE j == job[s]
           unplayed == IF j.goal = "undo" THEN {r.pair : r \in j.at} ELSE {}
           d == IF Stands(j.round) THEN Derive(j.round.no, unplayed) ELSE "pending"
           k == [j EXCEPT !.derived = d]
           n == IF Stands(j.round) /\ d # mark[j.round.no] THEN On(k, "mark") ELSE Refreshed(k)
<1>1. j \in SoundJobs
  BY DEF Inv, JobsOK
<1>2. d \in Marks
  BY DEF Derive, Marks
<1>3. Go(s, n) /\ UNCHANGED <<rounds, mark, bouts, entrants, out, spell, frozen, asked, history>>
  BY DEF Refresh
<1>4. j.step = "refresh"
  BY DEF Refresh, At
<1> HIDE DEF d, j
<1>5. k \in Jobs /\ k.step = "refresh"
  BY <1>1, <1>2, <1>4 DEF SoundJobs, Jobs
<1>6. k \in SoundJobs
  BY <1>5 DEF SoundJobs, Sound, FollowSteps
<1>7. {"mark"} \subseteq Steps \ (FollowSteps \cup {"write"})
  BY DEF Steps, FollowSteps
<1>8. n \in SoundJobs
  BY <1>6, <1>7, OnSound, RefreshedSound
<1> HIDE DEF n
<1> QED
  BY <1>3, <1>8, ReadOnly

LEMMA MarkKeeps ==
  ASSUME Inv, NEW s \in Slots, MarkRound(s)
  PROVE  Inv'
<1>1. job[s] \in SoundJobs
  BY DEF Inv, JobsOK
<1>2. Refreshed(job[s]) \in SoundJobs
  BY <1>1, RefreshedSound
<1>3. JobsOK'
  BY <1>2, GoSound DEF Inv, MarkRound
<1>4. MarkOK'
  BY <1>1 DEF Inv, MarkRound, MarkOK, SoundJobs, Jobs, Stands
<1>5. BoutsOK' /\ OthersOK' /\ UNCHANGED <<rounds, entrants>>
  BY DEF Inv, MarkRound, BoutsOK, OthersOK, bouts, history
<1> QED
  BY <1>3, <1>4, <1>5, Frame

LEMMA AdvanceKeeps ==
  ASSUME Inv, NEW s \in Slots,
         IsFinalised(s) \/ HasLaterRound(s) \/ LoadEntrants(s) \/ NoMoreRounds(s)
           \/ CommitExists(s) \/ AssertUncompletable(s)
  PROVE  Inv'
<1>1. job[s] \in SoundJobs
  BY DEF Inv, JobsOK
<1>2. {"later", "entrants", "refresh", "unforfeit"} \subseteq Steps \ (FollowSteps \cup {"write"})
  BY DEF Steps, FollowSteps
<1>3. /\ Onward(job[s]) \in SoundJobs /\ Free \in SoundJobs
      /\ On(job[s], "later") \in SoundJobs /\ On(job[s], "entrants") \in SoundJobs
      /\ On(job[s], "refresh") \in SoundJobs /\ On(job[s], "unforfeit") \in SoundJobs
  BY <1>1, <1>2, OnSound, OnwardSound, FreeSound
<1>4. CASE LoadEntrants(s)
  <2> DEFINE k == [job[s] EXCEPT !.step = "rounds", !.fields = [n \in Nums |-> Field(n)]]
  <2>1. [n \in Nums |-> Field(n)] \in [Nums -> SUBSET Fighters]
    BY DEF Field
  <2>2. k \in Jobs /\ k.step = "rounds"
    BY <1>1, <2>1 DEF SoundJobs, Jobs, Steps
  <2>3. k \in SoundJobs
    BY <2>2 DEF SoundJobs, Sound, FollowSteps
  <2> QED
    BY <1>4, <2>3, ReadOnly DEF LoadEntrants
<1>5. CASE IsFinalised(s)
  BY <1>3, <1>5, ReadOnly DEF IsFinalised
<1>6. CASE HasLaterRound(s)
  BY <1>3, <1>6, ReadOnly DEF HasLaterRound
<1>7. CASE NoMoreRounds(s)
  BY <1>3, <1>7, ReadOnly DEF NoMoreRounds
<1>8. CASE CommitExists(s)
  BY <1>3, <1>8, ReadOnly DEF CommitExists
<1>9. CASE AssertUncompletable(s)
  BY <1>3, <1>9, ReadOnly DEF AssertUncompletable
<1> QED
  BY <1>4, <1>5, <1>6, <1>7, <1>8, <1>9

LEMMA PlanKeeps ==
  ASSUME Inv, NEW s \in Slots, PlanRound(s)
  PROVE  Inv'
<1>1. job[s] \in SoundJobs
  BY DEF Inv, JobsOK
<1>2. PICK pl \in Plans(job[s].fields[last + 1]) :
        Go(s, [job[s] EXCEPT !.step = "write", !.planned = last + 1, !.pairs = pl.pairs,
                             !.bye = pl.bye, !.field = job[s].fields[last + 1]])
  BY DEF PlanRound
<1> DEFINE field == job[s].fields[last + 1]
           k == [job[s] EXCEPT !.step = "write", !.planned = last + 1, !.pairs = pl.pairs,
                               !.bye = pl.bye, !.field = field]
<1>3. last + 1 \in Nums
  BY SwissConstants DEF PlanRound, Inv, RoundsOK, Nums
<1>4. field \in SUBSET Fighters
  BY <1>1, <1>3 DEF SoundJobs, Jobs
<1>5. pl.pairs \in SUBSET Pair /\ pl.bye \in Anyone /\ Covers(pl.pairs, pl.bye, field)
  BY DEF Plans
<1>6. last + 1 \in Nat
  BY <1>3, SwissConstants DEF Nums
<1> HIDE DEF field
<1>7. k \in Jobs
  BY <1>1, <1>4, <1>5, <1>6 DEF SoundJobs, Jobs, Steps
<1>8. /\ k.planned = last + 1 /\ k.pairs = pl.pairs /\ k.bye = pl.bye /\ k.field = field
      /\ k.step = "write"
  BY <1>1 DEF SoundJobs, Jobs
<1>9. k \in SoundJobs
  BY <1>3, <1>5, <1>7, <1>8 DEF SoundJobs, Sound, FollowSteps
<1>10. Go(s, k)
  BY <1>2 DEF field
<1> HIDE DEF k
<1> QED
  BY <1>9, <1>10, ReadOnly DEF PlanRound

LEMMA GiveUpKeeps ==
  ASSUME Inv, NEW s \in Slots, PreviousInvalid(s) \/ CommitStale(s)
  PROVE  Inv'
<1>1. job[s] \in SoundJobs
  BY DEF Inv, JobsOK
<1>2. OthersOK'
  BY DEF Inv, OthersOK, PreviousInvalid, CommitStale
<1>3. UNCHANGED <<rounds, mark, bouts, entrants>>
  BY DEF PreviousInvalid, CommitStale
<1> DEFINE k == [job[s] EXCEPT !.step = "entrants", !.tries = @ + 1]
<1>4. k \in Jobs /\ k.step = "entrants"
  <2>1. job[s].tries + 1 \in Nat /\ {"entrants"} \subseteq Steps
    BY <1>1 DEF SoundJobs, Jobs, Steps
  <2>2. k = [job[s] EXCEPT !.step = "entrants", !.tries = job[s].tries + 1]
    BY <1>1 DEF SoundJobs, Jobs
  <2> QED
    BY <1>1, <2>1, <2>2 DEF SoundJobs, Jobs
<1>5. k \in SoundJobs
  BY <1>4 DEF SoundJobs, Sound, FollowSteps
<1>6. Onward(job[s]) \in SoundJobs
  BY <1>1, OnwardSound
<1>7. Go(s, k) \/ Go(s, Onward(job[s]))
  BY DEF PreviousInvalid, CommitStale
<1> HIDE DEF k
<1> QED
  BY <1>2, <1>3, <1>5, <1>6, <1>7, RequestOnly

LEMMA CommitKeeps ==
  ASSUME Inv, NEW s \in Slots, Commit(s)
  PROVE  Inv'
<1> DEFINE j == job[s]  n == last + 1
<1>1. j \in SoundJobs
  BY DEF Inv, JobsOK
<1>2. /\ j.planned = n /\ n \in Nums /\ Covers(j.pairs, j.bye, j.field)
      /\ StoredField(n) = j.field
  BY <1>1 DEF Commit, At, Stale, SoundJobs, Sound, FollowSteps
<1>3. Field(n) = j.field
  <2>1. \A f \in Fighters : n \notin missed[f]
    BY DEF Inv, MissedRoundsExist, RoundsOK
  <2> QED
    BY <1>2, <2>1 DEF Field, Active, StoredField
<1>4. j.pairs \in SUBSET Pair /\ j.bye \in Anyone
  BY <1>1 DEF SoundJobs, Jobs
<1>5. /\ last' = n /\ drawn' = drawn + 1 /\ roundId' = [roundId EXCEPT ![n] = drawn + 1]
      /\ pairs' = [pairs EXCEPT ![n] = j.pairs] /\ bye' = [bye EXCEPT ![n] = j.bye]
      /\ mark' = [mark EXCEPT ![n] = "pending"]
      /\ bout' = [bout EXCEPT ![n] = [p \in Pair |-> IF p \in j.pairs THEN "scheduled" ELSE "none"]]
      /\ Go(s, Onward(j))
      /\ UNCHANGED <<record, filed, undone, entrants, out, spell, frozen, asked, history>>
  BY DEF Commit
<1>6. JobsOK'
  <2>1. Onward(j) \in SoundJobs
    BY <1>1, OnwardSound
  <2> HIDE DEF j
  <2> QED
    BY <1>5, <2>1, GoSound DEF Inv
<1> HIDE DEF j
<1>7. RoundsOK'
  BY <1>2, <1>4, <1>5, SwissConstants DEF Inv, RoundsOK, Nums
<1>8. MarkOK' /\ BoutsOK' /\ EntrantsOK' /\ OthersOK'
  <2>1. [p \in Pair |-> IF p \in j.pairs THEN "scheduled" ELSE "none"]
          \in [Pair -> {"none", "scheduled"} \cup Busy]
    OBVIOUS
  <2>2. MarkOK'
    BY <1>2, <1>5 DEF Inv, MarkOK, Marks
  <2>3. BoutsOK'
    BY <1>2, <1>5, <2>1 DEF Inv, BoutsOK
  <2>4. EntrantsOK' /\ OthersOK'
    BY <1>5 DEF Inv, EntrantsOK, OthersOK, entrants, history
  <2> QED
    BY <2>2, <2>3, <2>4
<1>9. \A m \in Nums : Field(m)' = Field(m)
  BY <1>5 DEF Field, Active, entrants
<1>10. MissedRoundsExist'
  BY <1>5 DEF Inv, MissedRoundsExist, RoundsOK, entrants
<1>11. RoundsAreLegal'
  <2> SUFFICES ASSUME NEW m \in 1..(last + 1)
               PROVE  Covers(pairs[m], bye[m], Field(m))'
    BY <1>5 DEF RoundsAreLegal
  <2>1. m \in Nums
    BY <1>2, SwissConstants DEF Nums, Inv, RoundsOK
  <2>2. Field(m)' = Field(m)
    BY <1>9, <2>1
  <2>3. CASE m = n
    <3>1. pairs'[m] = j.pairs /\ bye'[m] = j.bye
      BY <1>5, <2>1, <2>3 DEF Inv, RoundsOK
    <3> QED
      BY <1>2, <1>3, <2>2, <2>3, <3>1 DEF Covers
  <2>4. CASE m # n
    <3>1. pairs'[m] = pairs[m] /\ bye'[m] = bye[m] /\ m \in 1..last
      BY <1>5, <2>1, <2>4 DEF Inv, RoundsOK
    <3> QED
      BY <2>2, <3>1 DEF Inv, RoundsAreLegal, Covers
  <2> QED
    BY <2>3, <2>4
<1> QED
  BY <1>6, <1>7, <1>8, <1>10, <1>11 DEF Inv

LEMMA BoutKeeps ==
  ASSUME Inv, NEW n \in Nums, NEW p \in Pair,
         StartBout(n, p) \/ \E s \in Slots :
           FinishBout(s, n, p) \/ CompleteAgain(s, n, p) \/ UndoBout(s, n, p)
  PROVE  Inv'
<1>1. roundId[n] \in Nat /\ [no |-> n, id |-> roundId[n]] \in Round
  BY DEF Inv, RoundsOK, Round
<1>2. Advance([no |-> n, id |-> roundId[n]]) \in SoundJobs
  BY <1>1, AdvanceSound
<1>3. CASE StartBout(n, p)
  <2>1. MarkOK' /\ OthersOK' /\ JobsOK' /\ UNCHANGED <<rounds, entrants>>
    BY <1>3 DEF Inv, StartBout, MarkOK, OthersOK, JobsOK, history
  <2>2. BoutsOK'
    BY <1>3 DEF Inv, StartBout, BoutsOK, Busy
  <2> QED
    BY <2>1, <2>2, Frame
<1>4. ASSUME NEW s \in Slots, FinishBout(s, n, p)
      PROVE  Inv'
  <2>1. MarkOK' /\ OthersOK' /\ UNCHANGED <<rounds, entrants>>
    BY <1>4 DEF Inv, FinishBout, MarkOK, OthersOK, history
  <2>2. BoutsOK'
    BY <1>4 DEF Inv, FinishBout, BoutsOK, Busy, Done
  <2>3. JobsOK'
    BY <1>2, <1>4, GoSound DEF Inv, FinishBout
  <2> QED
    BY <2>1, <2>2, <2>3, Frame
<1>5. ASSUME NEW s \in Slots, CompleteAgain(s, n, p)
      PROVE  Inv'
  <2>1. OthersOK'
    BY <1>5, AskedOK DEF CompleteAgain
  <2> QED
    BY <1>2, <1>5, <2>1, RequestOnly DEF CompleteAgain
<1>6. ASSUME NEW s \in Slots, UndoBout(s, n, p)
      PROVE  Inv'
  <2> DEFINE r == Ref(n, p, NoFighter)
             held == Holder(r)
             k == [Free EXCEPT !.step = "assert", !.goal = "undo", !.at = {r}, !.round = Of(r),
                               !.todo = held]
  <2>1. OthersOK'
    BY <1>6, AskedOK DEF UndoBout
  <2>2. {r} \in SUBSET Refs /\ Of(r) \in Round /\ held \in SUBSET Forfeits
    BY <1>1 DEF Ref, Refs, Of, Anyone, Holder, Inv, BoutsOK
  <2>3. {"assert"} \subseteq Steps /\ {"undo"} \subseteq Goals
    BY DEF Steps, Goals
  <2>6. Go(s, k) /\ UNCHANGED <<rounds, mark, bouts, entrants>>
    BY <1>6 DEF UndoBout
  <2> HIDE DEF held, r
  <2>4. k \in Jobs /\ k.step = "assert"
    BY <2>2, <2>3, FreeSound DEF SoundJobs, Jobs
  <2>5. k \in SoundJobs
    BY <2>4 DEF SoundJobs, Sound, FollowSteps
  <2> HIDE DEF k
  <2> QED
    BY <2>1, <2>5, <2>6, RequestOnly
<1> QED
  BY <1>3, <1>4, <1>5, <1>6

LEMMA PutBoutKeeps ==
  ASSUME Inv, NEW s \in Slots, PutBout(s)
  PROVE  Inv'
<1>1. PICK r \in job[s].at, st \in {"scheduled", "running"} :
        /\ bout' = IF Stands(r) THEN [bout EXCEPT ![r.no][r.pair] = st] ELSE bout
        /\ unfollowed' = unfollowed \cup LeftWaiting(r) \/ unfollowed' = unfollowed
  BY DEF PutBout
<1>2. r \in Refs
  BY DEF Inv, JobsOK, SoundJobs, Jobs
<1>3. BoutsOK'
  BY <1>1, <1>2 DEF Inv, PutBout, BoutsOK, Busy, Refs
<1>4. OthersOK'
  <2>1. LeftWaiting(r) \in SUBSET Fighters
    BY DEF LeftWaiting, Inv, OthersOK
  <2> QED
    BY <1>1, <2>1 DEF Inv, PutBout, OthersOK
<1>5. MarkOK' /\ UNCHANGED <<rounds, entrants>>
  BY DEF Inv, PutBout, MarkOK
<1>6. JobsOK'
  BY FreeSound, GoSound DEF Inv, PutBout
<1> QED
  BY <1>3, <1>4, <1>5, <1>6, Frame

LEMMA VoidHeldKeeps ==
  ASSUME Inv, NEW s \in Slots, VoidForfeitRecords(s)
  PROVE  Inv'
<1> DEFINE j == job[s]
           k == [j EXCEPT !.step = "refresh", !.todo = {}]
           byHand == j.todo \cap (record \cup {v.ref : v \in undone})
           stamps == {[ref |-> q, spell |-> spell[q.who]] : q \in byHand}
<1>1. j \in SoundJobs
  BY DEF Inv, JobsOK
<1>2. stamps \in SUBSET Voids
  BY DEF Inv, BoutsOK, OthersOK, Voids, Forfeits
<1>3. /\ record' \in SUBSET record
      /\ undone' \in SUBSET (undone \cup stamps)
      /\ Go(s, k) \/ Go(s, Free)
      /\ UNCHANGED <<rounds, mark, bout, filed, entrants, out, spell, frozen, asked, history>>
  BY DEF VoidForfeitRecords
<1>4. {"refresh"} \subseteq Steps \ FollowSteps
  BY DEF Steps, FollowSteps
<1> HIDE DEF j, stamps
<1>5. k \in Jobs /\ k.step = "refresh"
  BY <1>1, <1>4 DEF SoundJobs, Jobs
<1>6. k \in SoundJobs
  BY <1>4, <1>5 DEF SoundJobs, Sound
<1> HIDE DEF k
<1>7. JobsOK'
  BY <1>3, <1>6, FreeSound, GoSound DEF Inv
<1>8. BoutsOK' /\ MarkOK' /\ OthersOK'
  BY <1>2, <1>3 DEF Inv, BoutsOK, MarkOK, OthersOK, history
<1> QED
  BY <1>3, <1>7, <1>8, Frame

-----------------------------------------------------------------------------
(* Who is in the pairings.                                                 *)

\* A withdrawal takes effect after the last round.
LEMMA WithdrawKeeps ==
  ASSUME Inv, NEW f \in Fighters, NEW how \in {"hand", "status"},
         SwissWithdraw(f, how), UNCHANGED rounds
  PROVE  EntrantsOK' /\ MissedRoundsExist' /\ RoundsAreLegal' /\ RoundsOK'
<1>1. RoundsOK' /\ last' = last /\ pairs' = pairs /\ bye' = bye /\ last \in Nat
  BY SwissConstants DEF Inv, rounds, RoundsOK
<1>2. EntrantsOK'
  BY <1>1 DEF Inv, SwissWithdraw, EntrantsOK, entrants
<1>3. missed' = missed
  BY DEF SwissWithdraw, entrants
<1>4. MissedRoundsExist'
  BY <1>1, <1>3 DEF Inv, MissedRoundsExist
<1>5. \A n \in 1..last : Field(n)' = Field(n)
  <2> SUFFICES ASSUME NEW n \in 1..last, NEW g \in Fighters
               PROVE  Active(g, n)' <=> Active(g, n)
    BY DEF Field
  <2> QED
    BY <1>1, <1>3 DEF Inv, SwissWithdraw, EntrantsOK, Active, entrants
<1>6. RoundsAreLegal'
  BY <1>1, <1>5 DEF Inv, RoundsAreLegal
<1> QED
  BY <1>1, <1>2, <1>4, <1>6

\* A put-back leaves him out of the rounds drawn without him.
LEMMA PutBackKeeps ==
  ASSUME Inv, NEW f \in Fighters, NEW how \in {"hand", "status"},
         SwissPutBack(f, how), UNCHANGED rounds
  PROVE  EntrantsOK' /\ MissedRoundsExist' /\ RoundsAreLegal' /\ RoundsOK'
<1>1. RoundsOK' /\ last' = last /\ pairs' = pairs /\ bye' = bye /\ last \in Nat
  BY SwissConstants DEF Inv, rounds, RoundsOK
<1>2. CASE ~MayPutBack(f, how)
  BY <1>1, <1>2 DEF Inv, SwissPutBack, EntrantsOK, MissedRoundsExist, RoundsAreLegal,
                    Field, Active, entrants
<1>3. CASE MayPutBack(f, how)
  <2>1. /\ wd' = [wd EXCEPT ![f] = 0] /\ by' = [by EXCEPT ![f] = "none"]
        /\ missed' = IF how = "hand" THEN [missed EXCEPT ![f] = missed[f] \cup wd[f]..last] ELSE missed
        /\ wd[f] \in Nat \ {0}
        /\ how = "status" => last < wd[f]
    BY <1>3 DEF Inv, EntrantsOK, SwissPutBack, MayPutBack
  <2>2. wd[f]..last \subseteq 1..last
    BY <1>1, <2>1
  <2>3. MissedRoundsExist'
    BY <1>1, <2>1, <2>2 DEF Inv, MissedRoundsExist, EntrantsOK
  <2>4. EntrantsOK'
    <3>1. missed' \in [Fighters -> SUBSET Nat]
      BY <1>1, <2>1, <2>2 DEF Inv, EntrantsOK
    <3> QED
      BY <2>1, <3>1 DEF Inv, EntrantsOK
  <2>5. \A n \in 1..last : Field(n)' = Field(n)
    <3> SUFFICES ASSUME NEW n \in 1..last, NEW g \in Fighters
                 PROVE  Active(g, n)' <=> Active(g, n)
      BY DEF Field
    <3>1. CASE g # f
      BY <2>1, <3>1 DEF Inv, EntrantsOK, Active
    <3>2. CASE g = f
      <4>1. wd'[g] = 0 /\ wd[g] \in Nat \ {0}
        BY <2>1, <3>2 DEF Inv, EntrantsOK
      <4>2. CASE how = "hand"
        <5>1. missed'[g] = missed[g] \cup wd[g]..last
          BY <2>1, <3>2, <4>2 DEF Inv, EntrantsOK
        <5> QED
          BY <1>1, <4>1, <5>1 DEF Active
      <4>3. CASE how = "status"
        <5>1. missed'[g] = missed[g] /\ last < wd[g]
          BY <2>1, <3>2, <4>3
        <5> QED
          BY <1>1, <4>1, <5>1 DEF Active
      <4> QED
        BY <4>2, <4>3
    <3> QED
      BY <3>1, <3>2
  <2>6. RoundsAreLegal'
    BY <1>1, <2>5 DEF Inv, RoundsAreLegal
  <2> QED
    BY <1>1, <2>3, <2>4, <2>6
<1> QED
  BY <1>2, <1>3

\* A delete takes the last round away, and its number from the missed rounds.
LEMMA DeleteKeeps ==
  ASSUME Inv, DeleteRound
  PROVE  Inv'
<1>1. /\ last \in Nums /\ last' = last - 1
      /\ pairs' = [pairs EXCEPT ![last] = {}] /\ bye' = [bye EXCEPT ![last] = NoFighter]
      /\ bout' = [bout EXCEPT ![last] = [p \in Pair |-> "none"]]
      /\ missed' = [f \in Fighters |-> missed[f] \ {last}]
      /\ wd' = wd /\ by' = by
  BY SwissConstants DEF Inv, RoundsOK, Nums, DeleteRound
<1>2. RoundsOK'
  BY <1>1, SwissConstants DEF Inv, RoundsOK, DeleteRound, Anyone, Nums
<1>3. MarkOK' /\ JobsOK'
  BY DEF Inv, MarkOK, JobsOK, DeleteRound
<1>4. BoutsOK'
  <2>1. [p \in Pair |-> "none"] \in [Pair -> {"none", "scheduled"} \cup Busy]
    OBVIOUS
  <2> QED
    BY <1>1, <2>1 DEF Inv, BoutsOK, DeleteRound
<1>5. EntrantsOK'
  BY <1>1 DEF Inv, EntrantsOK
<1>6. OthersOK'
  BY <1>1, SwissConstants DEF Inv, OthersOK, DeleteRound, Ask
<1>7. MissedRoundsExist'
  <2> SUFFICES ASSUME NEW f \in Fighters, NEW m \in missed[f] \ {last}
               PROVE  m \in 1..(last - 1)
    BY <1>1 DEF MissedRoundsExist
  <2> QED
    BY SwissConstants DEF Inv, MissedRoundsExist, RoundsOK
<1>8. \A n \in 1..(last - 1) : Field(n)' = Field(n)
  <2> SUFFICES ASSUME NEW n \in 1..(last - 1), NEW g \in Fighters
               PROVE  Active(g, n)' <=> Active(g, n)
    BY DEF Field
  <2>1. n # last
    BY <1>1, SwissConstants DEF Nums
  <2> QED
    BY <1>1, <2>1 DEF Active
<1>9. RoundsAreLegal'
  <2> SUFFICES ASSUME NEW n \in 1..(last - 1)
               PROVE  Covers(pairs'[n], bye'[n], Field(n)')
    BY <1>1 DEF RoundsAreLegal
  <2>1. n \in 1..last /\ n \in Nums /\ n # last
    BY <1>1, SwissConstants DEF Nums, Inv, RoundsOK
  <2>2. pairs'[n] = pairs[n] /\ bye'[n] = bye[n] /\ Field(n)' = Field(n)
    BY <1>1, <1>8, <2>1 DEF Inv, RoundsOK
  <2> QED
    BY <2>1, <2>2 DEF Inv, RoundsAreLegal
<1> QED
  BY <1>2, <1>3, <1>4, <1>5, <1>6, <1>7, <1>9 DEF Inv

LEMMA DeskKeeps ==
  ASSUME Inv, Desk
  PROVE  Inv'
<1>1. ASSUME NEW f \in Fighters, Withdraw(f) \/ Reinstate(f)
      PROVE  Inv'
  <2>1. UNCHANGED <<rounds, mark, bouts, out, spell, frozen, job, history>>
    BY <1>1 DEF Withdraw, Reinstate
  <2>2. MarkOK' /\ BoutsOK' /\ JobsOK'
    BY <2>1 DEF Inv, MarkOK, BoutsOK, JobsOK, bouts
  <2>3. OthersOK'
    BY <1>1, <2>1, AskedOK DEF Withdraw, Reinstate
  <2>4. EntrantsOK' /\ MissedRoundsExist' /\ RoundsAreLegal' /\ RoundsOK'
    <3>1. CASE Withdraw(f)
      BY <2>1, <3>1, WithdrawKeeps DEF Withdraw
    <3>2. CASE Reinstate(f)
      BY <2>1, <3>2, PutBackKeeps DEF Reinstate
    <3> QED
      BY <1>1, <3>1, <3>2
  <2> QED
    BY <2>2, <2>3, <2>4 DEF Inv
<1>2. ASSUME NEW f \in Fighters, NEW s \in Slots, Settle(s, f)
      PROVE  Inv'
  <2>1. OthersOK'
    <3>1. spell' \in [Fighters -> Nat]
      BY <1>2 DEF Inv, OthersOK, Settle
    <3> QED
      BY <1>2, <3>1, SwissConstants DEF Inv, OthersOK, Settle, Ask
  <2> DEFINE k == [Free EXCEPT !.goal = "settle"]
  <2>2. k \in Jobs /\ k.step = "free"
    BY FreeSound DEF SoundJobs, Jobs, Goals
  <2>3. k \in SoundJobs
    BY <2>2 DEF SoundJobs, Sound, FollowSteps
  <2>4. Following(k, f) \in SoundJobs
    BY <2>3, FollowingSound
  <2>5. Go(s, Following(k, f)) /\ UNCHANGED <<rounds, mark, bouts, entrants>>
    BY <1>2 DEF Settle
  <2> HIDE DEF k
  <2> QED
    BY <2>1, <2>4, <2>5, RequestOnly
<1>3. CASE Finalise
  <2>1. OthersOK'
    BY <1>3, SwissConstants DEF Inv, OthersOK, Finalise, Ask, history
  <2>2. MarkOK' /\ BoutsOK' /\ JobsOK' /\ UNCHANGED <<rounds, entrants>>
    BY <1>3 DEF Inv, MarkOK, BoutsOK, JobsOK, bouts, Finalise
  <2> QED
    BY <2>1, <2>2, Frame
<1>4. ASSUME NEW s \in Slots, CommitNextRound(s)
      PROVE  Inv'
  <2> DEFINE k == [Free EXCEPT !.step = "entrants", !.goal = "draw"]
  <2>1. k \in Jobs /\ k.step = "entrants"
    BY FreeSound DEF SoundJobs, Jobs, Goals, Steps
  <2>2. k \in SoundJobs
    BY <2>1 DEF SoundJobs, Sound, FollowSteps
  <2>3. OthersOK'
    BY <1>4, AskedOK DEF CommitNextRound
  <2>4. Go(s, k) /\ UNCHANGED <<rounds, mark, bouts, entrants>>
    BY <1>4 DEF CommitNextRound
  <2> HIDE DEF k
  <2> QED
    BY <2>2, <2>3, <2>4, RequestOnly
<1> QED
  BY <1>1, <1>2, <1>3, <1>4, DeleteKeeps DEF Desk

-----------------------------------------------------------------------------
(* Following a fighter's status.                                           *)

\* A request that fails leaves those it had still to follow.
LEMMA FailOK ==
  ASSUME Inv, NEW s \in Slots, job[s].who \in Fighters, Fail(s), UNCHANGED <<out, spell, frozen, asked>>
  PROVE  OthersOK'
<1>1. job[s] \in Jobs
  BY DEF Inv, JobsOK, SoundJobs
<1>2. job[s].rest \in SUBSET Fighters /\ job[s].back \in SUBSET Refs
  BY <1>1 DEF Jobs
<1>3. UNION {r.pair : r \in job[s].back} \subseteq Fighters
  BY <1>2 DEF Refs, Pair
<1> HIDE DEF Fail
<1>4. unfollowed' \in SUBSET Fighters
  BY <1>2, <1>3 DEF Fail, Inv, OthersOK
<1>5. stalled' \in BOOLEAN /\ redrawn' \in SUBSET Nums
  BY DEF Fail, Inv, OthersOK
<1> QED
  BY <1>4, <1>5 DEF Inv, OthersOK

LEMMA FollowKeeps ==
  ASSUME Inv, NEW s \in Slots,
         ReadFighter(s) \/ TookOut(s) \/ ReadEntries(s) \/ StatusHeld(s) \/ StatusMoved(s)
  PROVE  Inv'
<1>1. job[s] \in SoundJobs /\ job[s].who \in Fighters
  <2>1. job[s] \in SoundJobs
    BY DEF Inv, JobsOK
  <2>2. job[s].step \in FollowSteps
    BY DEF FollowSteps, At, ReadFighter, TookOut, ReadEntries, StatusHeld, StatusMoved
  <2> QED
    BY <2>1, <2>2 DEF SoundJobs, Sound
<1>2. {"recheck", "putBack", "others"} \subseteq Steps \ {"write"}
  BY DEF Steps
<1>3. /\ On(job[s], "recheck") \in SoundJobs /\ On(job[s], "putBack") \in SoundJobs
      /\ On(job[s], "others") \in SoundJobs
  BY <1>1, <1>2, OnSound
<1>4. CASE ReadFighter(s)
  BY <1>1, <1>4, FollowRoundSound, ReadOnly DEF ReadFighter, Inv
<1>5. CASE TookOut(s)
  BY <1>3, <1>5, ReadOnly DEF TookOut
<1>6. CASE ReadEntries(s)
  BY <1>3, <1>6, ReadOnly DEF ReadEntries
<1>7. CASE StatusHeld(s)
  BY <1>3, <1>7, ReadOnly DEF StatusHeld
<1>8. CASE StatusMoved(s)
  <2> DEFINE k == [job[s] EXCEPT !.loops = @ + 1]
  <2>1. k \in SoundJobs /\ k.who \in Fighters
    <3>1. job[s].loops + 1 \in Nat
      BY <1>1 DEF SoundJobs, Jobs
    <3>2. k \in Jobs /\ k.step = "recheck" /\ k.who = job[s].who
      BY <1>1, <1>8, <3>1 DEF SoundJobs, Jobs, StatusMoved, At
    <3> QED
      BY <1>1, <3>2 DEF SoundJobs, Sound
  <2>2. FollowRound(k) \in SoundJobs
    BY <2>1, FollowRoundSound DEF Inv
  <2>3. UNCHANGED <<rounds, mark, bouts, entrants>> /\ (Go(s, FollowRound(k)) \/ Go(s, Free))
    BY <1>8 DEF StatusMoved, Fail
  <2>4. OthersOK'
    <3>1. CASE Fail(s)
      BY <1>1, <1>8, <3>1, FailOK DEF StatusMoved
    <3>2. CASE UNCHANGED history
      BY <1>8, <3>2 DEF Inv, OthersOK, StatusMoved, history
    <3> QED
      BY <1>8, <3>1, <3>2 DEF StatusMoved
  <2> HIDE DEF k
  <2> QED
    BY <2>2, <2>3, <2>4, FreeSound, RequestOnly
<1> QED
  BY <1>4, <1>5, <1>6, <1>7, <1>8

LEMMA ReadBoutsKeeps ==
  ASSUME Inv, NEW s \in Slots, ReadBouts(s) \/ ReadRecords(s)
  PROVE  Inv'
<1>1. job[s] \in SoundJobs /\ job[s].who \in Fighters
  <2>1. job[s] \in SoundJobs
    BY DEF Inv, JobsOK
  <2>2. job[s].step \in FollowSteps
    BY DEF FollowSteps, At, ReadBouts, ReadRecords
  <2> QED
    BY <2>1, <2>2 DEF SoundJobs, Sound
<1>2. OthersOK' /\ UNCHANGED <<rounds, mark, bouts, entrants>>
  BY <1>1 DEF Inv, OthersOK, ReadBouts, ReadRecords
<1>3. ASSUME NEW todo \in SUBSET Forfeits, NEW st \in {"forfeit", "entries", "restore"}
      PROVE  [job[s] EXCEPT !.step = st, !.todo = todo] \in SoundJobs
  <2> DEFINE k == [job[s] EXCEPT !.step = st, !.todo = todo]
  <2>1. {"forfeit", "entries", "restore"} \subseteq Steps
    BY DEF Steps
  <2>2. k \in Jobs /\ k.step = st /\ k.who = job[s].who
    BY <1>1, <2>1 DEF SoundJobs, Jobs
  <2> QED
    BY <1>1, <2>2 DEF SoundJobs, Sound
<1>4. CASE ReadBouts(s)
  <2>1. Unfought(job[s].who) \in SUBSET Forfeits
    <3> SUFFICES ASSUME NEW x \in (1..last) \X Pair
                 PROVE  Ref(x[1], x[2], job[s].who) \in Forfeits
      BY DEF Unfought
    <3>1. x[1] \in Nums /\ x[2] \in Pair
      BY SwissConstants DEF Inv, RoundsOK, Nums
    <3> QED
      BY <1>1, <3>1 DEF Ref, Refs, Forfeits, Anyone, Inv, RoundsOK
  <2> DEFINE todo == BoutsToTakeOut(job[s])
  <2>2. todo \in SUBSET Forfeits
    BY <2>1 DEF BoutsToTakeOut
  <2>3. Go(s, [job[s] EXCEPT !.step = "forfeit", !.todo = todo])
    BY <1>4 DEF ReadBouts
  <2> HIDE DEF todo
  <2> QED
    BY <1>2, <1>3, <2>2, <2>3, RequestOnly
<1>5. CASE ReadRecords(s)
  <2> DEFINE mine == IF Over THEN {} ELSE {r \in record : r.who = job[s].who}
             st == IF mine = {} THEN "entries" ELSE "restore"
  <2>1. mine \in SUBSET Forfeits
    BY DEF Inv, BoutsOK
  <2>2. Go(s, [job[s] EXCEPT !.step = st, !.todo = mine])
    BY <1>5 DEF ReadRecords
  <2>3. st \in {"forfeit", "entries", "restore"}
    OBVIOUS
  <2> HIDE DEF mine, st
  <2> QED
    BY <1>2, <1>3, <2>1, <2>2, <2>3, RequestOnly
<1> QED
  BY <1>4, <1>5

LEMMA ForfeitKeeps ==
  ASSUME Inv, NEW s \in Slots, RecordForfeit(s)
  PROVE  Inv'
<1>1. job[s] \in SoundJobs /\ job[s].who \in Fighters /\ job[s].step = "forfeit"
  <2>1. job[s] \in SoundJobs
    BY DEF Inv, JobsOK
  <2>2. job[s].step = "forfeit" /\ job[s].step \in FollowSteps
    BY DEF FollowSteps, At, RecordForfeit
  <2> QED
    BY <2>1, <2>2 DEF SoundJobs, Sound
<1>2. PICK r \in job[s].todo :
        LET j == [job[s] EXCEPT !.todo = @ \ {r}] IN
        \/ /\ filed' = filed + 1
           /\ record' = record \cup {[r EXCEPT !.rec = filed + 1]}
           /\ Go(s, [j EXCEPT !.step = "lose", !.at = {r}])
           /\ UNCHANGED history
        \/ /\ Go(s, IF \E q \in Holder(r) : q.who = r.who
                    THEN [j EXCEPT !.step = "lose", !.at = {r}] ELSE j)
           /\ UNCHANGED <<record, filed, history>>
        \/ /\ Fail(s)
           /\ UNCHANGED <<record, filed>>
  BY DEF RecordForfeit
<1> DEFINE j == [job[s] EXCEPT !.todo = @ \ {r}]
           k == [j EXCEPT !.step = "lose", !.at = {r}]
<1>3. r \in Forfeits /\ r \in Refs
  BY <1>1 DEF SoundJobs, Jobs, Forfeits
<1>4. job[s].todo \ {r} \in SUBSET Forfeits /\ {r} \in SUBSET Refs /\ {"lose"} \subseteq Steps
  BY <1>1, <1>3 DEF SoundJobs, Jobs, Steps
<1>5. j \in Jobs /\ j.step = "forfeit" /\ j.who = job[s].who
  BY <1>1, <1>4 DEF SoundJobs, Jobs
<1>6. j \in SoundJobs
  BY <1>1, <1>5 DEF SoundJobs, Sound
<1>7. \/ Go(s, k) /\ UNCHANGED history
      \/ Go(s, j) /\ UNCHANGED history
      \/ Fail(s)
  BY <1>2
<1>8. BoutsOK'
  <2>1. filed \in Nat /\ [r EXCEPT !.rec = filed + 1] \in Forfeits
    BY <1>3 DEF Inv, BoutsOK, Refs, Forfeits
  <2>2. record' \in SUBSET Forfeits /\ filed' \in Nat
    BY <1>2, <2>1 DEF Inv, BoutsOK
  <2> QED
    BY <2>2 DEF Inv, BoutsOK, RecordForfeit
<1> HIDE DEF j
<1>9. k \in Jobs /\ k.step = "lose" /\ k.who = job[s].who
  BY <1>4, <1>5 DEF Jobs
<1>10. k \in SoundJobs
  BY <1>1, <1>9 DEF SoundJobs, Sound
<1> HIDE DEF k
<1>11. JobsOK'
  BY <1>6, <1>7, <1>10, FreeSound, GoSound DEF Inv, Fail
<1>12. OthersOK'
  <2>1. CASE Fail(s)
    BY <1>1, <2>1, FailOK DEF RecordForfeit
  <2>2. CASE UNCHANGED history
    BY <2>2 DEF Inv, OthersOK, RecordForfeit, history
  <2> QED
    BY <1>7, <2>1, <2>2
<1>13. MarkOK' /\ UNCHANGED <<rounds, entrants>>
  BY DEF Inv, MarkOK, RecordForfeit
<1> QED
  BY <1>8, <1>11, <1>12, <1>13, Frame

LEMMA LoseKeeps ==
  ASSUME Inv, NEW s \in Slots, LoseBout(s)
  PROVE  Inv'
<1>1. job[s] \in SoundJobs /\ job[s].who \in Fighters
  <2>1. job[s] \in SoundJobs
    BY DEF Inv, JobsOK
  <2>2. job[s].step \in FollowSteps
    BY DEF FollowSteps, At, LoseBout
  <2> QED
    BY <2>1, <2>2 DEF SoundJobs, Sound
<1>2. PICK r \in job[s].at :
        /\ bout' = IF Stands(r) THEN [bout EXCEPT ![r.no][r.pair] = "lost"] ELSE bout
        /\ Go(s, [job[s] EXCEPT !.step = "forfeit", !.at = {}, !.units = @ \cup {Of(r)}])
  BY DEF LoseBout
<1> DEFINE k == [job[s] EXCEPT !.step = "forfeit", !.at = {}, !.units = @ \cup {Of(r)}]
<1>3. r \in Refs /\ Of(r) \in Round
  BY <1>1 DEF SoundJobs, Jobs, Refs, Of, Round
<1>4. job[s].units \cup {Of(r)} \in SUBSET Round /\ {"forfeit"} \subseteq Steps
  BY <1>1, <1>3 DEF SoundJobs, Jobs, Steps
<1>5. k \in Jobs /\ k.step = "forfeit" /\ k.who = job[s].who
  BY <1>1, <1>4 DEF SoundJobs, Jobs
<1>6. k \in SoundJobs
  BY <1>1, <1>5 DEF SoundJobs, Sound
<1>7. BoutsOK'
  BY <1>2, <1>3 DEF Inv, BoutsOK, LoseBout, Refs, Busy, Done
<1> HIDE DEF k
<1>8. JobsOK'
  BY <1>2, <1>6, GoSound DEF Inv, k
<1>9. MarkOK' /\ OthersOK' /\ UNCHANGED <<rounds, entrants>>
  BY DEF Inv, MarkOK, OthersOK, LoseBout, history
<1> QED
  BY <1>7, <1>8, <1>9, Frame

LEMMA RestoreKeeps ==
  ASSUME Inv, NEW s \in Slots, RestoreBout(s)
  PROVE  Inv'
<1>1. job[s] \in SoundJobs /\ job[s].who \in Fighters
  <2>1. job[s] \in SoundJobs
    BY DEF Inv, JobsOK
  <2>2. job[s].step \in FollowSteps
    BY DEF FollowSteps, At, RestoreBout
  <2> QED
    BY <2>1, <2>2 DEF SoundJobs, Sound
<1>2. PICK r \in job[s].todo, diverged \in BOOLEAN :
        LET leave == Stands(r) /\ (bout[r.no][r.pair] = "running" \/ diverged) IN
        /\ bout' = IF Stands(r) /\ ~leave THEN [bout EXCEPT ![r.no][r.pair] = "scheduled"] ELSE bout
        /\ Go(s, [job[s] EXCEPT !.step = "void", !.at = {r}, !.todo = @ \ {r},
                                !.back = IF leave THEN @ ELSE @ \cup {r}])
  BY DEF RestoreBout
<1> DEFINE leave == Stands(r) /\ (bout[r.no][r.pair] = "running" \/ diverged)
           back == IF leave THEN job[s].back ELSE job[s].back \cup {r}
           k == [job[s] EXCEPT !.step = "void", !.at = {r}, !.todo = job[s].todo \ {r},
                               !.back = back]
<1>3. r \in Refs
  BY <1>1 DEF SoundJobs, Jobs, Forfeits
<1>4. back \in SUBSET Refs /\ job[s].todo \ {r} \in SUBSET Forfeits /\ {"void"} \subseteq Steps
  BY <1>1, <1>3 DEF SoundJobs, Jobs, Steps
<1>5. BoutsOK'
  BY <1>2, <1>3 DEF Inv, BoutsOK, RestoreBout, Refs
<1>6. Go(s, k)
  BY <1>1, <1>2 DEF SoundJobs, Jobs
<1> HIDE DEF back
<1>7. k \in Jobs /\ k.step = "void" /\ k.who = job[s].who
  BY <1>1, <1>3, <1>4 DEF SoundJobs, Jobs
<1>8. k \in SoundJobs
  BY <1>1, <1>7 DEF SoundJobs, Sound
<1> HIDE DEF k
<1>9. JobsOK'
  BY <1>6, <1>8, GoSound DEF Inv
<1>10. MarkOK' /\ OthersOK' /\ UNCHANGED <<rounds, entrants>>
  BY DEF Inv, MarkOK, OthersOK, RestoreBout, history
<1> QED
  BY <1>5, <1>9, <1>10, Frame

LEMMA VoidKeeps ==
  ASSUME Inv, NEW s \in Slots, VoidRecord(s)
  PROVE  Inv'
<1>1. job[s] \in SoundJobs /\ job[s].who \in Fighters
  <2>1. job[s] \in SoundJobs
    BY DEF Inv, JobsOK
  <2>2. job[s].step \in FollowSteps
    BY DEF FollowSteps, At, VoidRecord
  <2> QED
    BY <2>1, <2>2 DEF SoundJobs, Sound
<1> DEFINE st == IF job[s].todo = {} THEN "entries" ELSE "restore"
           k == [job[s] EXCEPT !.at = {}, !.step = st]
<1>2. st \in Steps /\ st # "write"
  BY DEF Steps
<1>3. Go(s, k) \/ Fail(s)
  BY DEF VoidRecord
<1> HIDE DEF st
<1>4. k \in Jobs /\ k.step = st /\ k.who = job[s].who
  BY <1>1, <1>2 DEF SoundJobs, Jobs
<1>5. k \in SoundJobs
  BY <1>1, <1>2, <1>4 DEF SoundJobs, Sound
<1> HIDE DEF k
<1>6. JobsOK'
  BY <1>3, <1>5, FreeSound, GoSound DEF Inv, Fail
<1>7. BoutsOK' /\ MarkOK' /\ UNCHANGED <<rounds, entrants>>
  BY DEF Inv, BoutsOK, MarkOK, VoidRecord
<1>8. OthersOK'
  <2>1. Theirs(job[s]) \subseteq Fighters
    BY DEF Theirs
  <2>2. CASE Fail(s)
    BY <1>1, <2>2, FailOK DEF VoidRecord
  <2>3. CASE unfollowed' = unfollowed \cup Theirs(job[s]) /\ UNCHANGED <<stalled, redrawn>>
    BY <2>1, <2>3 DEF Inv, OthersOK, VoidRecord
  <2> QED
    BY <2>2, <2>3 DEF VoidRecord
<1> QED
  BY <1>6, <1>7, <1>8, Frame

LEMMA SwissFollowKeeps ==
  ASSUME Inv, NEW s \in Slots, SwissOut(s) \/ SwissBackIn(s)
  PROVE  Inv'
<1>1. job[s] \in SoundJobs /\ job[s].who \in Fighters
  <2>1. job[s] \in SoundJobs
    BY DEF Inv, JobsOK
  <2>2. job[s].step \in FollowSteps
    BY DEF FollowSteps, At, SwissOut, SwissBackIn
  <2> QED
    BY <2>1, <2>2 DEF SoundJobs, Sound
<1>2. {"bouts", "recheck"} \subseteq Steps \ {"write"}
  BY DEF Steps
<1>3. On(job[s], "bouts") \in SoundJobs /\ On(job[s], "recheck") \in SoundJobs
  BY <1>1, <1>2, OnSound
<1>4. JobsOK'
  BY <1>3, GoSound DEF Inv, SwissOut, SwissBackIn
<1>5. UNCHANGED <<rounds, mark, bouts>>
  BY DEF SwissOut, SwissBackIn
<1>6. MarkOK' /\ BoutsOK'
  BY <1>5 DEF Inv, MarkOK, BoutsOK, bouts
<1>7. OthersOK'
  BY <1>1 DEF Inv, OthersOK, SwissOut, SwissBackIn, history
<1>8. EntrantsOK' /\ MissedRoundsExist' /\ RoundsAreLegal' /\ RoundsOK'
  <2>1. CASE SwissOut(s)
    BY <1>1, <1>5, <2>1, WithdrawKeeps DEF SwissOut
  <2>2. CASE SwissBackIn(s)
    BY <1>1, <1>5, <2>2, PutBackKeeps DEF SwissBackIn
  <2> QED
    BY <2>1, <2>2
<1> QED
  BY <1>4, <1>6, <1>7, <1>8 DEF Inv

LEMMA OthersKeeps ==
  ASSUME Inv, NEW s \in Slots, FollowOthers(s)
  PROVE  Inv'
<1> DEFINE j == job[s]
           rest == IF j.goal = "opponent" THEN j.rest
                   ELSE {f \in out \ {j.who} : \E r \in j.back : Stands(r) /\ f \in r.pair}
           m(f) == [[j EXCEPT !.goal = "opponent", !.rest = rest] EXCEPT !.rest = @ \ {f}]
           l(f) == [j EXCEPT !.goal = "opponent", !.rest = rest \ {f}]
<1>1. j \in SoundJobs /\ j.step = "others"
  BY DEF Inv, JobsOK, FollowOthers, At
<1>2. rest \in SUBSET Fighters
  BY <1>1 DEF SoundJobs, Jobs, Inv, OthersOK
<1>3. \/ Go(s, Onward(j))
      \/ \E f \in rest : Go(s, Following(m(f), f))
  BY DEF FollowOthers
<1>4. UNCHANGED <<rounds, mark, bouts, entrants, out, spell, frozen, asked, history>>
  BY DEF FollowOthers
<1> HIDE DEF j, rest
<1>5. ASSUME NEW f \in rest
      PROVE  m(f) \in SoundJobs
  <2>1. m(f) = l(f)
    BY <1>1 DEF SoundJobs, Jobs
  <2>2. l(f) \in Jobs /\ l(f).step = "others" /\ l(f).who = j.who
    BY <1>1, <1>2 DEF SoundJobs, Jobs, Goals
  <2>3. j.who \in Fighters
    BY <1>1 DEF SoundJobs, Sound, FollowSteps
  <2> QED
    BY <2>1, <2>2, <2>3 DEF SoundJobs, Sound
<1>6. ASSUME NEW f \in rest
      PROVE  Following(m(f), f) \in SoundJobs
  <2>1. f \in Fighters
    BY <1>2
  <2> HIDE DEF m
  <2> QED
    BY <1>5, <2>1, FollowingSound
<1>7. Onward(j) \in SoundJobs
  BY <1>1, OnwardSound
<1> HIDE DEF m
<1>8. PICK k \in SoundJobs : Go(s, k)
  BY <1>3, <1>6, <1>7
<1> QED
  BY <1>4, <1>8, ReadOnly

LEMMA HandOnKeeps ==
  ASSUME Inv, NEW s \in Slots, HandOn(s)
  PROVE  Inv'
<1> DEFINE j == job[s]
<1>1. j \in SoundJobs
  BY DEF Inv, JobsOK
<1>2. UNCHANGED <<rounds, mark, bouts, entrants, out, spell, frozen, asked, history>>
  BY DEF HandOn
<1>3. \/ \E r \in j.back :
          Go(s, [j EXCEPT !.step = "refresh", !.goal = "reopen", !.round = Of(r), !.back = j.back \ {r}])
      \/ \E u \in j.units : Go(s, [Advance(u) EXCEPT !.units = j.units \ {u}])
  <2>1. j \in Jobs
    BY <1>1 DEF SoundJobs
  <2> QED
    BY <2>1 DEF HandOn, Jobs
<1> HIDE DEF j
<1>4. ASSUME NEW r \in j.back
      PROVE  [j EXCEPT !.step = "refresh", !.goal = "reopen", !.round = Of(r), !.back = j.back \ {r}]
               \in SoundJobs
  <2> DEFINE k == [j EXCEPT !.step = "refresh", !.goal = "reopen", !.round = Of(r),
                            !.back = j.back \ {r}]
  <2>1. Of(r) \in Round /\ j.back \ {r} \in SUBSET Refs
    BY <1>1 DEF SoundJobs, Jobs, Of, Refs, Round
  <2>2. {"refresh"} \subseteq Steps \ FollowSteps /\ {"reopen"} \subseteq Goals
    BY DEF Steps, Goals, FollowSteps
  <2>3. k \in Jobs /\ k.step = "refresh"
    BY <1>1, <2>1, <2>2 DEF SoundJobs, Jobs
  <2> QED
    BY <2>2, <2>3 DEF SoundJobs, Sound
<1>5. ASSUME NEW u \in j.units
      PROVE  [Advance(u) EXCEPT !.units = j.units \ {u}] \in SoundJobs
  <2> DEFINE a == Advance(u)
             k == [a EXCEPT !.units = j.units \ {u}]
  <2>1. u \in Round /\ j.units \ {u} \in SUBSET Round
    BY <1>1 DEF SoundJobs, Jobs
  <2>2. a \in SoundJobs
    BY <2>1, AdvanceSound
  <2> HIDE DEF a
  <2>3. /\ k \in Jobs /\ k.step = a.step /\ k.who = a.who /\ k.planned = a.planned
        /\ k.pairs = a.pairs /\ k.bye = a.bye /\ k.field = a.field
    BY <2>1, <2>2 DEF SoundJobs, Jobs
  <2>4. k \in SoundJobs
    BY <2>2, <2>3 DEF SoundJobs, Sound
  <2> QED
    BY <2>4 DEF a
<1>6. PICK k \in SoundJobs : Go(s, k)
  BY <1>3, <1>4, <1>5
<1> QED
  BY <1>2, <1>6, ReadOnly

-----------------------------------------------------------------------------
LEMMA InitInv == Init => Inv
<1> SUFFICES ASSUME Init PROVE Inv
  OBVIOUS
<1> DEFINE k == [Free EXCEPT !.step = "entrants", !.goal = "draw"]
<1>1. k \in Jobs /\ k.step = "entrants"
  BY FreeSound DEF SoundJobs, Jobs, Goals, Steps
<1>2. k \in SoundJobs
  BY <1>1 DEF SoundJobs, Sound, FollowSteps
<1>3. PICK s \in Slots : job = [t \in Slots |-> IF t = s THEN k ELSE Free]
  BY DEF Init
<1> HIDE DEF k
<1>4. JobsOK
  BY <1>2, <1>3, FreeSound DEF JobsOK
<1>5. RoundsOK /\ MarkOK /\ OthersOK
  <2>1. RoundsOK
    BY SwissConstants DEF Init, RoundsOK, Anyone
  <2>2. MarkOK
    BY DEF Init, MarkOK, Marks
  <2>3. OthersOK
    <3>1. asked \in 0..MaxAsked
      BY SwissConstants DEF Init
    <3>2. frozen \in BOOLEAN /\ stalled \in BOOLEAN
      BY Zenon DEF Init
    <3>3. /\ out \in SUBSET Fighters /\ spell \in [Fighters -> Nat]
          /\ redrawn \in SUBSET Nums /\ unfollowed \in SUBSET Fighters
      BY DEF Init
    <3> QED
      BY <3>1, <3>2, <3>3 DEF OthersOK
  <2> QED
    BY <2>1, <2>2, <2>3
<1>6. BoutsOK
  BY DEF Init, BoutsOK
<1>7. EntrantsOK
  BY DEF Init, EntrantsOK
<1>8. MissedRoundsExist /\ RoundsAreLegal
  BY DEF Init, MissedRoundsExist, RoundsAreLegal
<1> QED
  BY <1>4, <1>5, <1>6, <1>7, <1>8 DEF Inv

LEMMA StepKeeps == Inv /\ [Next]_vars => Inv'
<1> SUFFICES ASSUME Inv, [Next]_vars PROVE Inv'
  OBVIOUS
<1>1. CASE UNCHANGED vars
  <2>1. UNCHANGED <<rounds, entrants>> /\ MarkOK' /\ BoutsOK' /\ OthersOK' /\ JobsOK'
    BY <1>1 DEF vars, bouts, history, Inv, MarkOK, BoutsOK, OthersOK, JobsOK
  <2> QED
    BY <2>1, Frame
<1>2. CASE Bouts
  BY <1>2, BoutKeeps DEF Bouts
<1>3. CASE Desk
  BY <1>3, DeskKeeps
<1>4. ASSUME NEW s \in Slots, Pairing(s)
      PROVE  Inv'
  BY <1>4, RefreshKeeps, MarkKeeps, AdvanceKeeps, PlanKeeps, GiveUpKeeps, CommitKeeps,
     VoidHeldKeeps, PutBoutKeeps DEF Pairing
<1>5. ASSUME NEW s \in Slots, Reconcile(s)
      PROVE  Inv'
  BY <1>5, FollowKeeps, ReadBoutsKeeps, ForfeitKeeps, LoseKeeps, RestoreKeeps, VoidKeeps,
     SwissFollowKeeps, OthersKeeps, HandOnKeeps DEF Reconcile
<1> QED
  BY <1>1, <1>2, <1>3, <1>4, <1>5 DEF Next

(* The types of a Swiss phase, and withdrawn_by there exactly when         *)
(* withdrawn_at_round is (the CHECK of migration 0243).                    *)
THEOREM SwissTypeCorrect == Spec => []SwissTypeOK
<1>1. Spec => []Inv
  BY InitInv, StepKeeps, PTL DEF Spec
<1> QED
  BY <1>1, InvTyped, PTL

(* missed_rounds holds only rounds that stand (migration 0244), whatever   *)
(* the desk asks for and however its requests meet.                        *)
THEOREM MissedRoundsStand == Spec => []MissedRoundsExist
<1>1. Spec => []Inv
  BY InitInv, StepKeeps, PTL DEF Spec
<1>2. Inv => MissedRoundsExist
  BY DEF Inv
<1> QED
  BY <1>1, <1>2, PTL

(* Every round that stands is a legal round of its field: no withdrawal,   *)
(* put-back, delete or draw, in whatever order they land, leaves a round   *)
(* that assertPreviousRoundValid refuses to build on.                      *)
THEOREM RoundsStayLegal == Spec => []RoundsAreLegal
<1>1. Spec => []Inv
  BY InitInv, StepKeeps, PTL DEF Spec
<1>2. Inv => RoundsAreLegal
  BY DEF Inv
<1> QED
  BY <1>1, <1>2, PTL

-----------------------------------------------------------------------------
(* A closed round draws the next one: while the last round is closed and   *)
(* nothing is drawn after it, some request carries the news of it.         *)

UndoSteps == {"assert", "unforfeit", "refresh", "mark", "put"}

\* An undo hands on no round, and an idle slot has none left to hand on.
Tidy(j) ==
  /\ j.goal = "undo" => j.step \in UndoSteps
  /\ j.step \in {"assert", "unforfeit", "put"} => j.goal = "undo"
  /\ j.goal = "undo" \/ j.step = "free" => j.units = {}

LastRound == [no |-> last, id |-> roundId[last]]

\* The request still has the last round to refresh, to advance or to draw over.
Carries(j) ==
  \/ j.goal = "advance" /\ j.step = "refresh" /\ j.round = LastRound
  \/ j.goal = "advance" /\ j.step = "mark" /\ j.derived = "completed" /\ j.round = LastRound
  \/ j.step \in {"frozen", "later"} /\ j.round.no = last
  \/ j.step \in {"entrants", "rounds"}
  \/ j.step = "write" /\ j.planned > last
  \/ LastRound \in j.units

Closed ==
  /\ ~stalled /\ ~frozen /\ last \in 1..(RoundCount - 1) /\ pairs[last] # {}
  /\ \A p \in pairs[last] : bout[last][p] \in Done

Tidied  == \A s \in Slots : Tidy(job[s])
Carried == Tidied /\ (Closed => \E s \in Slots : Carries(job[s]))

\* A slot takes a request, and carries on with what it carried.
LEMMA CarryOn ==
  ASSUME Inv, Carried, NEW s \in Slots, NEW k, Go(s, k), Tidy(k), UNCHANGED rounds,
         Closed' => Closed \/ Carries(k), Closed' /\ Carries(job[s]) => Carries(k)
  PROVE  Carried'
<1>1. job \in [Slots -> SoundJobs] /\ job' = [job EXCEPT ![s] = k]
  BY DEF Inv, JobsOK, Go
<1>2. Tidied'
  BY <1>1 DEF Carried, Tidied
<1>3. last' = last /\ roundId' = roundId
  BY DEF rounds
<1>4. ASSUME NEW j, Carries(j)
      PROVE  Carries(j)'
  BY <1>3, <1>4 DEF Carries, LastRound
<1>5. ASSUME Closed'
      PROVE  \E t \in Slots : Carries(job[t])'
  <2>1. job'[s] = k
    BY <1>1
  <2>2. CASE Carries(k)
    <3>1. Carries(job[s])'
      BY <1>3, <2>1, <2>2 DEF Carries, LastRound
    <3> QED
      BY <3>1
  <2>3. CASE Closed /\ ~Carries(k)
    <3>1. PICK t \in Slots : Carries(job[t])
      BY <2>3 DEF Carried
    <3>2. t # s
      BY <1>5, <2>3, <3>1
    <3>3. job'[t] = job[t]
      BY <1>1, <3>2
    <3>4. Carries(job[t])'
      BY <1>3, <3>1, <3>3 DEF Carries, LastRound
    <3> QED
      BY <3>4
  <2> QED
    BY <1>5, <2>2, <2>3
<1> QED
  BY <1>2, <1>5 DEF Carried

\* What changes no request, and neither closes the last round nor moves it.
LEMMA CarryStill ==
  ASSUME Carried, UNCHANGED <<rounds, job>>, Closed' => Closed
  PROVE  Carried'
<1>1. last' = last /\ roundId' = roundId /\ job' = job
  BY DEF rounds
<1> QED
  BY <1>1 DEF Carried, Tidied, Tidy, Carries, LastRound

\* What leaves the rounds, the bouts and the history alone closes nothing.
LEMMA ClosedStill ==
  ASSUME UNCHANGED <<rounds, bout, frozen, stalled>>
  PROVE  Closed' = Closed
<1>1. last' = last /\ pairs' = pairs /\ bout' = bout /\ frozen' = frozen /\ stalled' = stalled
  BY DEF rounds
<1> QED
  BY <1>1 DEF Closed

\* A write that makes no bout fought or lost closes nothing.
LEMMA ClosedNoMore ==
  ASSUME Inv, UNCHANGED <<rounds, frozen, stalled>>, NEW n \in Nums, NEW p \in Pair,
         NEW st, st \notin Done, bout' = [bout EXCEPT ![n][p] = st] \/ bout' = bout
  PROVE  Closed' => Closed
<1>1. last' = last /\ pairs' = pairs /\ frozen' = frozen /\ stalled' = stalled
  BY DEF rounds
<1>2. bout \in [Nums -> [Pair -> {"none", "scheduled"} \cup Busy]]
  BY DEF Inv, BoutsOK
<1>3. SUFFICES ASSUME Closed', NEW q \in pairs[last]
               PROVE  bout[last][q] \in Done
  BY <1>1 DEF Closed
<1>4. last \in Nums /\ q \in Pair
  BY <1>1, <1>3, SwissConstants DEF Closed, Nums, Inv, RoundsOK
<1>5. bout'[last][q] \in Done
  BY <1>1, <1>3 DEF Closed
<1> QED
  BY <1>2, <1>4, <1>5

LEMMA FreeTidy == Tidy(Free) /\ Free.units = {} /\ Free.goal = "none"
BY DEF Free, Tidy

LEMMA OnwardFields ==
  ASSUME NEW j \in Jobs
  PROVE  /\ Onward(j).units = j.units /\ Onward(j).goal = "none"
         /\ Tidy(Onward(j))
<1> DEFINE k == [Free EXCEPT !.step = "next", !.back = j.back, !.units = j.units]
<1>1. k.units = j.units /\ k.goal = "none" /\ k.step = "next"
  BY DEF Free
<1>2. Onward(j) = IF j.back = {} /\ j.units = {} THEN Free ELSE k
  BY DEF Onward
<1> HIDE DEF k
<1> QED
  BY <1>1, <1>2, FreeTidy DEF Tidy

LEMMA RefreshedFields ==
  ASSUME NEW j \in Jobs, Tidy(j), j.step \in {"refresh", "mark"}
  PROVE  /\ Refreshed(j).units = j.units /\ Tidy(Refreshed(j))
         /\ j.goal = "advance" /\ j.derived = "completed" =>
              Refreshed(j).step = "frozen" /\ Refreshed(j).round = j.round
<1> DEFINE p == On(j, "put")  f == On(j, "frozen")  o == Onward(j)
<1>1. /\ p.units = j.units /\ p.goal = j.goal /\ p.step = "put"
      /\ f.units = j.units /\ f.goal = j.goal /\ f.step = "frozen" /\ f.round = j.round
  BY DEF Jobs, On
<1>2. o.units = j.units /\ Tidy(o)
  BY OnwardFields
<1>3. /\ j.goal = "undo" => Refreshed(j) = p
      /\ j.goal = "advance" /\ j.derived = "completed" => Refreshed(j) = f
      /\ j.goal # "undo" /\ ~(j.goal = "advance" /\ j.derived = "completed") => Refreshed(j) = o
  BY Zenon DEF Refreshed
<1> HIDE DEF p, f, o
<1>4. j.goal = "undo" => Tidy(p)
  BY <1>1 DEF Tidy, UndoSteps
<1>5. j.goal = "advance" => Tidy(f)
  BY <1>1 DEF Tidy
<1> QED
  BY <1>1, <1>2, <1>3, <1>4, <1>5

LEMMA RefreshCarries ==
  ASSUME Inv, Carried, NEW s \in Slots, Refresh(s)
  PROVE  Carried'
<1> DEFINE j == job[s]
           unplayed == IF j.goal = "undo" THEN {r.pair : r \in j.at} ELSE {}
           d == IF Stands(j.round) THEN Derive(j.round.no, unplayed) ELSE "pending"
           k == [j EXCEPT !.derived = d]
           m == On(k, "mark")
           n == IF Stands(j.round) /\ d # mark[j.round.no] THEN m ELSE Refreshed(k)
<1>1. j \in Jobs /\ Tidy(j)
  BY DEF Inv, JobsOK, SoundJobs, Carried, Tidied
<1>2. d \in Marks
  BY DEF Derive, Marks
<1>3. Go(s, n) /\ UNCHANGED <<rounds, bout, frozen, stalled>>
  BY DEF Refresh, bouts, history
<1>4. j.step = "refresh"
  BY DEF Refresh, At
<1>5. Closed' = Closed
  BY <1>3, ClosedStill
<1>6. Closed /\ j.goal = "advance" /\ j.round = LastRound => d = "completed"
  <2> SUFFICES ASSUME Closed, j.goal = "advance", j.round = LastRound
               PROVE  d = "completed"
    OBVIOUS
  <2>1. unplayed = {} /\ j.round.no = last /\ j.round.id = roundId[last]
    BY DEF LastRound
  <2>2. Stands(j.round)
    BY <2>1 DEF Stands, Closed
  <2>3. Derive(last, {}) = "completed"
    BY DEF Derive, Closed
  <2> QED
    BY <2>1, <2>2, <2>3
<1> HIDE DEF d, j
<1>7. /\ k \in Jobs /\ k.step = "refresh" /\ k.goal = j.goal /\ k.units = j.units
      /\ k.round = j.round /\ k.derived = d
  BY <1>1, <1>2, <1>4 DEF Jobs
<1>8. Tidy(k)
  BY <1>1, <1>4, <1>7 DEF Tidy
<1>9. /\ m.step = "mark" /\ m.goal = j.goal /\ m.units = j.units /\ m.round = j.round
      /\ m.derived = d
  BY <1>1, <1>2 DEF Jobs, On
<1> HIDE DEF k, m
<1>10. /\ Refreshed(k).units = k.units /\ Tidy(Refreshed(k))
       /\ k.goal = "advance" /\ k.derived = "completed" =>
            Refreshed(k).step = "frozen" /\ Refreshed(k).round = k.round
  BY <1>7, <1>8, RefreshedFields
<1>11. Tidy(m)
  BY <1>1, <1>4, <1>9 DEF Tidy, UndoSteps
<1>12. Tidy(n)
  BY <1>10, <1>11
<1>13. Closed /\ Carries(j) => Carries(n)
  <2>1. CASE n = m
    BY <1>4, <1>6, <1>9, <2>1 DEF Carries
  <2>2. CASE n = Refreshed(k)
    <3> DEFINE e == Refreshed(k)
    <3>1. CASE j.goal = "advance" /\ j.round = LastRound
      BY <1>6, <1>7, <1>10, <2>2, <3>1 DEF Carries, LastRound
    <3>2. CASE ~(j.goal = "advance" /\ j.round = LastRound)
      BY <1>4, <1>7, <1>10, <2>2, <3>2 DEF Carries
    <3> QED
      BY <3>1, <3>2
  <2> QED
    BY <2>1, <2>2
<1> HIDE DEF n
<1> QED
  BY <1>3, <1>5, <1>12, <1>13, CarryOn DEF j

LEMMA MarkCarries ==
  ASSUME Inv, Carried, NEW s \in Slots, MarkRound(s)
  PROVE  Carried'
<1> DEFINE j == job[s]  k == Refreshed(j)
<1>1. j \in Jobs /\ Tidy(j)
  BY DEF Inv, JobsOK, SoundJobs, Carried, Tidied
<1>2. Go(s, k) /\ UNCHANGED <<rounds, bout, frozen, stalled>> /\ j.step = "mark"
  BY DEF MarkRound, bouts, history, At
<1>3. Closed' = Closed
  BY <1>2, ClosedStill
<1>4. /\ k.units = j.units /\ Tidy(k)
      /\ j.goal = "advance" /\ j.derived = "completed" => k.step = "frozen" /\ k.round = j.round
  BY <1>1, <1>2, RefreshedFields
<1> HIDE DEF k
<1>5. Carries(j) => Carries(k)
  BY <1>2, <1>4 DEF Carries, LastRound
<1> QED
  BY <1>2, <1>3, <1>4, <1>5, CarryOn

LEMMA AdvanceCarries ==
  ASSUME Inv, Carried, NEW s \in Slots,
         IsFinalised(s) \/ HasLaterRound(s) \/ LoadEntrants(s) \/ NoMoreRounds(s)
           \/ CommitExists(s)
  PROVE  Carried'
<1> DEFINE j == job[s]
           o == Onward(j)
           l == On(j, "later")
           e == On(j, "entrants")
           r == [j EXCEPT !.step = "rounds", !.fields = [n \in Nums |-> Field(n)]]
<1>1. j \in Jobs /\ Tidy(j)
  BY DEF Inv, JobsOK, SoundJobs, Carried, Tidied
<1>2. UNCHANGED <<rounds, bout, frozen, stalled>>
  BY DEF IsFinalised, HasLaterRound, LoadEntrants, NoMoreRounds, CommitExists, bouts, history
<1>3. Closed' = Closed
  BY <1>2, ClosedStill
<1>4. o.units = j.units /\ Tidy(o)
  BY <1>1, OnwardFields
<1>5. /\ l.step = "later" /\ l.goal = j.goal /\ l.units = j.units /\ l.round = j.round
      /\ e.step = "entrants" /\ e.goal = j.goal /\ e.units = j.units
      /\ r.step = "rounds" /\ r.goal = j.goal /\ r.units = j.units
  BY <1>1 DEF Jobs, On
<1>6. last \in Int
  BY SwissConstants DEF Inv, RoundsOK
<1>7. j.step \in {"frozen", "later", "entrants", "rounds", "write"}
  BY DEF IsFinalised, HasLaterRound, LoadEntrants, NoMoreRounds, CommitExists, At
<1>8. CASE IsFinalised(s)
  <2>1. j.step = "frozen" /\ ((Go(s, o) /\ frozen) \/ Go(s, l))
    BY <1>8 DEF IsFinalised, At
  <2> HIDE DEF o, l, j
  <2>2. Tidy(l) /\ (Carries(j) => Carries(l))
    BY <1>1, <1>5, <2>1 DEF Tidy, UndoSteps, Carries
  <2>3. CASE Go(s, o) /\ frozen
    <3>1. ~Closed
      BY <2>3 DEF Closed
    <3> QED
      BY <1>2, <1>3, <1>4, <2>3, <3>1, CarryOn
  <2>4. CASE Go(s, l)
    BY <1>2, <1>3, <2>2, <2>4, CarryOn DEF j
  <2> QED
    BY <2>1, <2>3, <2>4
<1>9. CASE HasLaterRound(s)
  <2>1. j.step = "later" /\ ((Go(s, o) /\ last > j.round.no) \/ Go(s, e))
    BY <1>9 DEF HasLaterRound, At
  <2> HIDE DEF o, e, j
  <2>2. Tidy(e) /\ Carries(e)
    BY <1>1, <1>5, <2>1 DEF Tidy, UndoSteps, Carries
  <2>3. CASE Go(s, o) /\ last > j.round.no
    <3>1. j.round.no # last
      BY <1>6, <2>3
    <3>2. Carries(j) => Carries(o)
      BY <1>4, <2>1, <3>1 DEF Carries
    <3> QED
      BY <1>2, <1>3, <1>4, <2>3, <3>2, CarryOn DEF j
  <2>4. CASE Go(s, e)
    BY <1>2, <1>3, <2>2, <2>4, CarryOn
  <2> QED
    BY <2>1, <2>3, <2>4
<1>10. CASE LoadEntrants(s)
  <2>1. j.step = "entrants" /\ Go(s, r)
    BY <1>10 DEF LoadEntrants, At
  <2> HIDE DEF r, j
  <2>2. Tidy(r) /\ Carries(r)
    BY <1>1, <1>5, <2>1 DEF Tidy, UndoSteps, Carries
  <2> QED
    BY <1>2, <1>3, <2>1, <2>2, CarryOn
<1>11. CASE NoMoreRounds(s)
  <2>1. Go(s, o) /\ last = RoundCount
    BY <1>11 DEF NoMoreRounds
  <2>2. ~Closed
    BY <2>1, SwissConstants DEF Closed
  <2> HIDE DEF o
  <2> QED
    BY <1>2, <1>3, <1>4, <2>1, <2>2, CarryOn
<1>12. CASE CommitExists(s)
  <2>1. j.step = "write" /\ j.planned <= last /\ Go(s, o)
    BY <1>12 DEF CommitExists, At
  <2>2. j.planned \in Int
    BY <1>1 DEF Jobs
  <2> HIDE DEF o, j
  <2>3. Carries(j) => Carries(o)
    BY <1>4, <1>6, <2>1, <2>2 DEF Carries
  <2> QED
    BY <1>2, <1>3, <1>4, <2>1, <2>3, CarryOn DEF j
<1> QED
  BY <1>8, <1>9, <1>10, <1>11, <1>12

LEMMA PlanCarries ==
  ASSUME Inv, Carried, NEW s \in Slots, PlanRound(s)
  PROVE  Carried'
<1> DEFINE j == job[s]
<1>1. j \in Jobs /\ Tidy(j) /\ j.step = "rounds"
  BY DEF Inv, JobsOK, SoundJobs, Carried, Tidied, PlanRound, At
<1>2. PICK pl : Go(s, [j EXCEPT !.step = "write", !.planned = last + 1, !.pairs = pl.pairs,
                                !.bye = pl.bye, !.field = j.fields[last + 1]])
  BY DEF PlanRound
<1> DEFINE k == [j EXCEPT !.step = "write", !.planned = last + 1, !.pairs = pl.pairs,
                          !.bye = pl.bye, !.field = j.fields[last + 1]]
<1>3. k.step = "write" /\ k.planned = last + 1 /\ k.goal = j.goal /\ k.units = j.units
  BY <1>1 DEF Jobs
<1>4. UNCHANGED <<rounds, bout, frozen, stalled>>
  BY DEF PlanRound, bouts, history
<1>5. Closed' = Closed
  BY <1>4, ClosedStill
<1>6. last + 1 > last
  BY SwissConstants DEF Inv, RoundsOK
<1>7. Go(s, k)
  BY <1>2
<1> HIDE DEF k
<1>8. Tidy(k) /\ Carries(k)
  BY <1>1, <1>3, <1>6 DEF Tidy, UndoSteps, Carries
<1> QED
  BY <1>4, <1>5, <1>7, <1>8, CarryOn

\* A draw that gives up says so.
LEMMA GiveUpCarries ==
  ASSUME Inv, Carried, NEW s \in Slots, PreviousInvalid(s) \/ CommitStale(s)
  PROVE  Carried'
<1> DEFINE j == job[s]
           e == [j EXCEPT !.step = "entrants", !.tries = @ + 1]
           o == Onward(j)
<1>1. j \in Jobs /\ Tidy(j) /\ j.step \in {"rounds", "write"}
  BY DEF Inv, JobsOK, SoundJobs, Carried, Tidied, PreviousInvalid, CommitStale, At
<1>2. UNCHANGED <<rounds, bout, frozen>>
  BY DEF PreviousInvalid, CommitStale, bouts
<1>3. \/ Go(s, o) /\ stalled' = TRUE
      \/ Go(s, e) /\ UNCHANGED stalled
  BY DEF PreviousInvalid, CommitStale
<1>4. e.step = "entrants" /\ e.goal = j.goal /\ e.units = j.units
  BY <1>1 DEF Jobs
<1>5. Tidy(o)
  BY <1>1, OnwardFields
<1> HIDE DEF e, o
<1>6. Tidy(e) /\ Carries(e)
  BY <1>1, <1>4 DEF Tidy, UndoSteps, Carries
<1>7. CASE Go(s, o) /\ stalled' = TRUE
  <2>1. ~Closed'
    BY <1>7 DEF Closed
  <2> QED
    BY <1>2, <1>5, <1>7, <2>1, CarryOn
<1>8. CASE Go(s, e) /\ UNCHANGED stalled
  <2>1. Closed' = Closed
    BY <1>2, <1>8, ClosedStill
  <2> QED
    BY <1>2, <1>6, <1>8, <2>1, CarryOn
<1> QED
  BY <1>3, <1>7, <1>8

\* A slot left free of the round, where the phase is not closed after the step.
LEMMA Reopened ==
  ASSUME Inv, Carried, NEW s \in Slots, NEW k, Go(s, k), Tidy(k), ~Closed'
  PROVE  Carried'
<1>1. job \in [Slots -> SoundJobs] /\ job' = [job EXCEPT ![s] = k]
  BY DEF Inv, JobsOK, Go
<1>2. Tidied'
  BY <1>1 DEF Carried, Tidied
<1> QED
  BY <1>2 DEF Carried

\* A round just drawn is not closed.
LEMMA CommitCarries ==
  ASSUME Inv, Carried, NEW s \in Slots, Commit(s)
  PROVE  Carried'
<1> DEFINE j == job[s]  n == last + 1
<1>1. j \in SoundJobs /\ j \in Jobs
  BY DEF Inv, JobsOK, SoundJobs
<1>2. j.planned = n /\ n \in Nums
  BY <1>1 DEF Commit, At, Stale, SoundJobs, Sound, FollowSteps
<1>3. j.pairs \in SUBSET Pair
  BY <1>1 DEF Jobs
<1>4. /\ last' = n /\ pairs' = [pairs EXCEPT ![n] = j.pairs]
      /\ bout' = [bout EXCEPT ![n] = [p \in Pair |-> IF p \in j.pairs THEN "scheduled" ELSE "none"]]
      /\ Go(s, Onward(j))
  BY DEF Commit
<1>5. Tidy(Onward(j))
  BY <1>1, OnwardFields
<1>6. ~Closed'
  <2>1. pairs'[n] = j.pairs
    BY <1>2, <1>4 DEF Inv, RoundsOK
  <2>2. \A p \in j.pairs : bout'[n][p] = "scheduled"
    BY <1>2, <1>3, <1>4 DEF Inv, BoutsOK
  <2> QED
    BY <1>4, <2>1, <2>2 DEF Closed, Done
<1> QED
  BY <1>4, <1>5, <1>6, Reopened

LEMMA UndoCarries ==
  ASSUME Inv, Carried, NEW s \in Slots,
         AssertUncompletable(s) \/ VoidForfeitRecords(s) \/ PutBout(s)
  PROVE  Carried'
<1> DEFINE j == job[s]
           f == On(j, "refresh")
           u == On(j, "unforfeit")
           v == [j EXCEPT !.step = "refresh", !.todo = {}]
<1>1. j \in Jobs /\ Tidy(j) /\ j.step \in {"assert", "unforfeit", "put"}
  BY DEF Inv, JobsOK, SoundJobs, Carried, Tidied, AssertUncompletable, VoidForfeitRecords, PutBout,
         At
<1>2. j.goal = "undo" /\ j.units = {}
  BY <1>1 DEF Tidy
<1>3. ~Carries(j)
  BY <1>1, <1>2 DEF Carries
<1>4. /\ f.step = "refresh" /\ f.goal = "undo" /\ f.units = {}
      /\ u.step = "unforfeit" /\ u.goal = "undo" /\ u.units = {}
      /\ v.step = "refresh" /\ v.goal = "undo" /\ v.units = {}
  BY <1>1, <1>2 DEF Jobs, On
<1>5. UNCHANGED <<rounds, frozen, stalled>>
  BY DEF AssertUncompletable, VoidForfeitRecords, PutBout, history
<1>6. Go(s, f) \/ Go(s, u) \/ Go(s, v) \/ Go(s, Free)
  BY Zenon DEF AssertUncompletable, VoidForfeitRecords, PutBout
<1>7. Closed' => Closed
  <2>1. CASE AssertUncompletable(s) \/ VoidForfeitRecords(s)
    <3>1. UNCHANGED bout
      BY <2>1 DEF AssertUncompletable, VoidForfeitRecords, bouts
    <3> QED
      BY <1>5, <3>1, ClosedStill
  <2>2. CASE PutBout(s)
    <3>1. PICK r \in j.at, st \in {"scheduled", "running"} :
            bout' = IF Stands(r) THEN [bout EXCEPT ![r.no][r.pair] = st] ELSE bout
      BY <2>2 DEF PutBout
    <3>2. r.no \in Nums /\ r.pair \in Pair /\ st \notin Done
      BY <1>1 DEF Jobs, Refs, Done
    <3>3. bout' = [bout EXCEPT ![r.no][r.pair] = st] \/ bout' = bout
      BY <3>1
    <3> QED
      BY <1>5, <3>2, <3>3, ClosedNoMore
  <2> QED
    BY <2>1, <2>2
<1> HIDE DEF f, u, v
<1>8. Tidy(f) /\ Tidy(u) /\ Tidy(v)
  BY <1>4 DEF Tidy, UndoSteps
<1> QED
  BY <1>3, <1>5, <1>6, <1>7, <1>8, FreeTidy, CarryOn

\* A slot that was free carried nothing.
LEMMA FreeCarries ==
  ASSUME Inv, Carried, NEW s \in Slots, At(s, "free")
  PROVE  ~Carries(job[s])
BY DEF Carried, Tidied, Tidy, Carries, At

LEMMA BoutCarries ==
  ASSUME Inv, Carried, NEW n \in Nums, NEW p \in Pair,
         StartBout(n, p) \/ \E s \in Slots :
           FinishBout(s, n, p) \/ CompleteAgain(s, n, p) \/ UndoBout(s, n, p)
  PROVE  Carried'
<1> DEFINE r == [no |-> n, id |-> roundId[n]]
           a == Advance(r)
<1>1. a.step = "refresh" /\ a.goal = "advance" /\ a.units = {} /\ a.round = r
  BY DEF Advance, Free
<1>2. Tidy(a)
  BY <1>1 DEF Tidy
<1>3. CASE StartBout(n, p)
  <2>1. UNCHANGED <<rounds, frozen, stalled, job>> /\ bout' = [bout EXCEPT ![n][p] = "running"]
    BY <1>3 DEF StartBout, history
  <2>2. \A st : st = "running" => st \notin Done
    BY DEF Done
  <2>3. Closed' => Closed
    BY <2>1, <2>2, ClosedNoMore
  <2> QED
    BY <2>1, <2>3, CarryStill
<1>4. ASSUME NEW s \in Slots, FinishBout(s, n, p)
      PROVE  Carried'
  <2>1. /\ Go(s, a) /\ UNCHANGED <<rounds, frozen, stalled>>
        /\ bout' = [bout EXCEPT ![n][p] = "fought"] /\ At(s, "free")
    BY <1>4 DEF FinishBout, history
  <2>2. ~Carries(job[s])
    BY <2>1, FreeCarries
  <2>3. n = last => Carries(a)
    BY <1>1 DEF Carries, LastRound
  <2>4. n # last /\ Closed' => Closed
    <3>1. last' = last /\ pairs' = pairs /\ frozen' = frozen /\ stalled' = stalled
      BY <2>1 DEF rounds
    <3>2. n # last => bout'[last] = bout[last] \/ last \notin Nums
      BY <2>1 DEF Inv, BoutsOK
    <3>3. Closed' => last \in Nums
      BY <3>1, SwissConstants DEF Closed, Nums, Inv, RoundsOK
    <3> QED
      BY <3>1, <3>2, <3>3 DEF Closed
  <2> HIDE DEF a
  <2> QED
    BY <1>2, <2>1, <2>2, <2>3, <2>4, CarryOn
<1>5. ASSUME NEW s \in Slots, CompleteAgain(s, n, p)
      PROVE  Carried'
  <2>1. Go(s, a) /\ UNCHANGED <<rounds, bout, frozen, stalled>> /\ At(s, "free")
    BY <1>5 DEF CompleteAgain, bouts, history
  <2>2. ~Carries(job[s]) /\ Closed' = Closed
    BY <2>1, FreeCarries, ClosedStill
  <2> HIDE DEF a
  <2> QED
    BY <1>2, <2>1, <2>2, CarryOn
<1>6. ASSUME NEW s \in Slots, UndoBout(s, n, p)
      PROVE  Carried'
  <2> DEFINE b == Ref(n, p, NoFighter)
             k == [Free EXCEPT !.step = "assert", !.goal = "undo", !.at = {b}, !.round = Of(b),
                               !.todo = Holder(b)]
  <2>1. Go(s, k) /\ UNCHANGED <<rounds, bout, frozen, stalled>> /\ At(s, "free")
    BY <1>6 DEF UndoBout, bouts, history
  <2>2. ~Carries(job[s]) /\ Closed' = Closed
    BY <2>1, FreeCarries, ClosedStill
  <2>3. k.step = "assert" /\ k.goal = "undo" /\ k.units = {}
    BY DEF Free
  <2> HIDE DEF k
  <2>4. Tidy(k)
    BY <2>3 DEF Tidy, UndoSteps
  <2> QED
    BY <2>1, <2>2, <2>4, CarryOn
<1> QED
  BY <1>3, <1>4, <1>5, <1>6

LEMMA DeskCarries ==
  ASSUME Inv, Carried, Desk
  PROVE  Carried'
<1>1. ASSUME NEW f \in Fighters, Withdraw(f) \/ Reinstate(f)
      PROVE  Carried'
  <2>1. UNCHANGED <<rounds, bout, frozen, stalled, job>>
    BY <1>1 DEF Withdraw, Reinstate, bouts, history
  <2>2. Closed' = Closed
    BY <2>1, ClosedStill
  <2> QED
    BY <2>1, <2>2, CarryStill
<1>2. ASSUME NEW f \in Fighters, NEW s \in Slots, Settle(s, f)
      PROVE  Carried'
  <2> DEFINE k == Following([Free EXCEPT !.goal = "settle"], f)
  <2>1. Go(s, k) /\ UNCHANGED <<rounds, bout, frozen, stalled>> /\ At(s, "free")
    BY <1>2 DEF Settle, bouts
  <2>2. ~Carries(job[s]) /\ Closed' = Closed
    BY <2>1, FreeCarries, ClosedStill
  <2>3. k.step = "follow" /\ k.goal = "settle"
    BY DEF Free, Following
  <2> HIDE DEF k
  <2>4. Tidy(k)
    BY <2>3 DEF Tidy
  <2> QED
    BY <2>1, <2>2, <2>4, CarryOn
<1>3. CASE Finalise
  <2>1. UNCHANGED <<rounds, job>> /\ ~Closed'
    BY <1>3 DEF Finalise, Closed
  <2> QED
    BY <2>1, CarryStill
<1>4. ASSUME NEW s \in Slots, CommitNextRound(s)
      PROVE  Carried'
  <2> DEFINE k == [Free EXCEPT !.step = "entrants", !.goal = "draw"]
  <2>1. Go(s, k) /\ UNCHANGED <<rounds, bout, frozen, stalled>> /\ At(s, "free")
    BY <1>4 DEF CommitNextRound, bouts, history
  <2>2. ~Carries(job[s]) /\ Closed' = Closed
    BY <2>1, FreeCarries, ClosedStill
  <2>3. k.step = "entrants" /\ k.goal = "draw"
    BY DEF Free
  <2> HIDE DEF k
  <2>4. Tidy(k)
    BY <2>3 DEF Tidy
  <2> QED
    BY <2>1, <2>2, <2>4, CarryOn
<1>5. CASE DeleteRound
  <2>1. stalled' = TRUE /\ job' = job
    BY <1>5 DEF DeleteRound
  <2> QED
    BY <2>1 DEF Carried, Tidied, Tidy, Closed
<1> QED
  BY <1>1, <1>2, <1>3, <1>4, <1>5 DEF Desk

\* A request that follows a status keeps the rounds it has to hand on.
LEMMA FollowCarries ==
  ASSUME Inv, Carried, NEW s \in Slots, job[s].step \in FollowSteps,
         NEW k, Go(s, k), k.step \in FollowSteps,
         k.goal = job[s].goal \/ k.goal = "opponent", job[s].units \subseteq k.units,
         UNCHANGED rounds, Closed' => Closed \/ Carries(k)
  PROVE  Carried'
<1>1. Tidy(job[s])
  BY DEF Carried, Tidied
<1>2. Tidy(k)
  BY <1>1 DEF Tidy, FollowSteps, UndoSteps
<1>3. Carries(job[s]) => Carries(k)
  BY DEF Carries, FollowSteps
<1> QED
  BY <1>2, <1>3, CarryOn

\* A request that fails says so.
LEMMA FailCarries ==
  ASSUME Inv, Carried, NEW s \in Slots, Fail(s)
  PROVE  Carried'
<1>1. Go(s, Free) /\ ~Closed'
  BY DEF Fail, Closed
<1> QED
  BY <1>1, FreeTidy, Reopened

\* The steps of a reconcile that write no bout.
LEMMA ReadCarries ==
  ASSUME Inv, Carried, NEW s \in Slots,
         ReadFighter(s) \/ SwissOut(s) \/ ReadBouts(s) \/ RecordForfeit(s) \/ TookOut(s)
           \/ ReadRecords(s) \/ VoidRecord(s) \/ ReadEntries(s) \/ SwissBackIn(s)
           \/ StatusHeld(s) \/ StatusMoved(s)
  PROVE  Carried'
<1> DEFINE j == job[s]
<1>1. j \in Jobs /\ j.step \in FollowSteps
  BY DEF Inv, JobsOK, SoundJobs, FollowSteps, At, ReadFighter, SwissOut, ReadBouts,
         RecordForfeit, TookOut, ReadRecords, VoidRecord, ReadEntries, SwissBackIn, StatusHeld,
         StatusMoved
<1>2. UNCHANGED <<rounds, bout, frozen>>
  BY DEF ReadFighter, SwissOut, ReadBouts, RecordForfeit, TookOut, ReadRecords, VoidRecord,
         ReadEntries, SwissBackIn, StatusHeld, StatusMoved, bouts
<1>3. Fail(s) \/ UNCHANGED stalled
  BY DEF ReadFighter, SwissOut, ReadBouts, RecordForfeit, TookOut, ReadRecords, VoidRecord,
         ReadEntries, SwissBackIn, StatusHeld, StatusMoved, history
<1>4. SUFFICES ASSUME UNCHANGED stalled, ~Fail(s)
               PROVE  Carried'
  BY <1>3, FailCarries
<1>5. Closed' = Closed
  BY <1>2, <1>4, ClosedStill
<1>6. \E k : /\ Go(s, k) /\ k.step \in FollowSteps
             /\ k.goal = j.goal /\ k.units = j.units
  <2>1. ASSUME NEW st \in FollowSteps
        PROVE  On(j, st).step = st /\ On(j, st).goal = j.goal /\ On(j, st).units = j.units
    BY <1>1 DEF Jobs, On
  <2>2. ASSUME NEW st \in FollowSteps, NEW t, Go(s, [j EXCEPT !.step = st, !.todo = t])
        PROVE  \E k : Go(s, k) /\ k.step \in FollowSteps /\ k.goal = j.goal /\ k.units = j.units
    <3> DEFINE k == [j EXCEPT !.step = st, !.todo = t]
    <3>1. k.step = st /\ k.goal = j.goal /\ k.units = j.units /\ Go(s, k)
      BY <1>1, <2>2 DEF Jobs
    <3> HIDE DEF k
    <3> QED
      BY <3>1
  <2>3. CASE ReadFighter(s)
    <3>1. LET k == FollowRound(j) IN k.step \in FollowSteps /\ k.goal = j.goal /\ k.units = j.units
      BY <1>1 DEF Jobs, FollowRound, FollowSteps
    <3> QED
      BY <2>3, <3>1 DEF ReadFighter
  <2>4. CASE SwissOut(s)
    <3>1. {"bouts"} \subseteq FollowSteps
      BY DEF FollowSteps
    <3> QED
      BY <2>1, <2>4, <3>1 DEF SwissOut
  <2>5. CASE ReadBouts(s)
    <3>1. PICK st, t : st = "forfeit" /\ Go(s, [j EXCEPT !.step = st, !.todo = t])
      BY <2>5 DEF ReadBouts
    <3>2. st \in FollowSteps
      BY <3>1 DEF FollowSteps
    <3> QED
      BY <2>2, <3>1, <3>2
  <2>6. CASE RecordForfeit(s)
    <3>1. PICK r \in j.todo :
            LET i == [j EXCEPT !.todo = @ \ {r}] IN
            Go(s, i) \/ Go(s, [i EXCEPT !.step = "lose", !.at = {r}])
      BY <1>4, <2>6 DEF RecordForfeit
    <3> DEFINE i == [j EXCEPT !.todo = @ \ {r}]
               k == [i EXCEPT !.step = "lose", !.at = {r}]
    <3>2. /\ i.step = j.step /\ i.goal = j.goal /\ i.units = j.units
          /\ k.step = "lose" /\ k.goal = j.goal /\ k.units = j.units
      BY <1>1 DEF Jobs
    <3>3. Go(s, i) \/ Go(s, k)
      BY <3>1
    <3>4. {"lose"} \subseteq FollowSteps
      BY DEF FollowSteps
    <3> HIDE DEF i, k
    <3> QED
      BY <1>1, <3>2, <3>3, <3>4
  <2>7. CASE TookOut(s)
    <3>1. {"recheck"} \subseteq FollowSteps
      BY DEF FollowSteps
    <3> QED
      BY <2>1, <2>7, <3>1 DEF TookOut
  <2>8. CASE ReadRecords(s)
    <3> DEFINE mine == IF Over THEN {} ELSE {r \in record : r.who = j.who}
               to == IF mine = {} THEN "entries" ELSE "restore"
    <3>1. Go(s, [j EXCEPT !.step = to, !.todo = mine])
      BY <2>8 DEF ReadRecords
    <3>2. to \in FollowSteps
      BY DEF FollowSteps
    <3> HIDE DEF mine, to
    <3> QED
      BY <2>2, <3>1, <3>2
  <2>9. CASE VoidRecord(s)
    <3>1. PICK st \in {"entries", "restore"} : Go(s, [j EXCEPT !.at = {}, !.step = st])
      BY <1>4, <2>9 DEF VoidRecord
    <3>2. st \in FollowSteps
      BY DEF FollowSteps
    <3>3. LET k == [j EXCEPT !.at = {}, !.step = st]
          IN  k.step = st /\ k.goal = j.goal /\ k.units = j.units
      BY <1>1 DEF Jobs
    <3> QED
      BY <3>1, <3>2, <3>3
  <2>10. CASE ReadEntries(s)
    <3>1. PICK st \in {"putBack", "recheck"} : Go(s, On(j, st))
      BY <2>10 DEF ReadEntries
    <3>2. st \in FollowSteps
      BY DEF FollowSteps
    <3> QED
      BY <2>1, <3>1, <3>2
  <2>11. CASE SwissBackIn(s)
    <3>1. {"recheck"} \subseteq FollowSteps
      BY DEF FollowSteps
    <3> QED
      BY <2>1, <2>11, <3>1 DEF SwissBackIn
  <2>12. CASE StatusHeld(s)
    <3>1. {"others"} \subseteq FollowSteps
      BY DEF FollowSteps
    <3> QED
      BY <2>1, <2>12, <3>1 DEF StatusHeld
  <2>13. CASE StatusMoved(s)
    <3> DEFINE i == [j EXCEPT !.loops = @ + 1]  k == FollowRound(i)
    <3>1. Go(s, k)
      BY <1>4, <2>13 DEF StatusMoved
    <3>2. k.step \in FollowSteps /\ k.goal = j.goal /\ k.units = j.units
      BY <1>1 DEF Jobs, FollowRound, FollowSteps
    <3> HIDE DEF k
    <3> QED
      BY <3>1, <3>2
  <2> QED
    BY <2>3, <2>4, <2>5, <2>6, <2>7, <2>8, <2>9, <2>10, <2>11, <2>12, <2>13
<1>7. PICK k : Go(s, k) /\ k.step \in FollowSteps /\ k.goal = j.goal /\ k.units = j.units
  BY <1>6
<1> QED
  BY <1>1, <1>2, <1>5, <1>7, FollowCarries

\* A forfeit that may close the round: the request has the round to hand on.
LEMMA LoseCarries ==
  ASSUME Inv, Carried, NEW s \in Slots, LoseBout(s) \/ RestoreBout(s)
  PROVE  Carried'
<1> DEFINE j == job[s]
<1>1. j \in Jobs /\ j.step \in FollowSteps
  BY DEF Inv, JobsOK, SoundJobs, FollowSteps, At, LoseBout, RestoreBout
<1>2. UNCHANGED <<rounds, frozen, stalled>>
  BY DEF LoseBout, RestoreBout, history
<1>3. CASE LoseBout(s)
  <2>1. PICK r \in j.at :
          /\ bout' = IF Stands(r) THEN [bout EXCEPT ![r.no][r.pair] = "lost"] ELSE bout
          /\ Go(s, [j EXCEPT !.step = "forfeit", !.at = {}, !.units = @ \cup {Of(r)}])
    BY <1>3 DEF LoseBout
  <2> DEFINE k == [j EXCEPT !.step = "forfeit", !.at = {}, !.units = @ \cup {Of(r)}]
  <2>2. k.step = "forfeit" /\ k.goal = j.goal /\ k.units = j.units \cup {Of(r)}
    BY <1>1 DEF Jobs
  <2>3. k.step \in FollowSteps
    BY <2>2 DEF FollowSteps
  <2>4. Closed' => Closed \/ Carries(k)
    <3>1. CASE Stands(r) /\ r.no = last
      <4>1. Of(r) = LastRound
        BY <3>1 DEF Stands, Of, LastRound
      <4> QED
        BY <2>2, <4>1 DEF Carries
    <3>2. CASE ~(Stands(r) /\ r.no = last)
      <4>1. last' = last /\ pairs' = pairs /\ frozen' = frozen /\ stalled' = stalled
        BY <1>2 DEF rounds
      <4>2. bout'[last] = bout[last] \/ last \notin Nums
        BY <2>1, <3>2 DEF Inv, BoutsOK
      <4>3. Closed' => last \in Nums
        BY <4>1, SwissConstants DEF Closed, Nums, Inv, RoundsOK
      <4> QED
        BY <4>1, <4>2, <4>3 DEF Closed
    <3> QED
      BY <3>1, <3>2
  <2>5. Go(s, k)
    BY <2>1
  <2> HIDE DEF k
  <2> QED
    BY <1>1, <1>2, <2>2, <2>3, <2>4, <2>5, FollowCarries
<1>4. CASE RestoreBout(s)
  <2>1. PICK r, b :
          /\ r \in j.todo
          /\ bout' = [bout EXCEPT ![r.no][r.pair] = "scheduled"] \/ bout' = bout
          /\ Go(s, [j EXCEPT !.step = "void", !.at = {r}, !.todo = j.todo \ {r}, !.back = b])
    <3>1. PICK r \in j.todo, diverged \in BOOLEAN :
            LET leave == Stands(r) /\ (bout[r.no][r.pair] = "running" \/ diverged) IN
            /\ bout' = IF Stands(r) /\ ~leave THEN [bout EXCEPT ![r.no][r.pair] = "scheduled"] ELSE bout
            /\ Go(s, [j EXCEPT !.step = "void", !.at = {r}, !.todo = @ \ {r},
                               !.back = IF leave THEN @ ELSE @ \cup {r}])
      BY <1>4 DEF RestoreBout
    <3> DEFINE leave == Stands(r) /\ (bout[r.no][r.pair] = "running" \/ diverged)
               b == IF leave THEN j.back ELSE j.back \cup {r}
    <3>2. Go(s, [j EXCEPT !.step = "void", !.at = {r}, !.todo = j.todo \ {r}, !.back = b])
      BY <1>1, <3>1 DEF Jobs
    <3>3. bout' = [bout EXCEPT ![r.no][r.pair] = "scheduled"] \/ bout' = bout
      BY <3>1
    <3> HIDE DEF b
    <3> QED
      BY <3>2, <3>3
  <2> DEFINE k == [j EXCEPT !.step = "void", !.at = {r}, !.todo = j.todo \ {r}, !.back = b]
  <2>2. k.step = "void" /\ k.goal = j.goal /\ k.units = j.units
    BY <1>1 DEF Jobs
  <2>3. k.step \in FollowSteps
    BY <2>2 DEF FollowSteps
  <2>4. r.no \in Nums /\ r.pair \in Pair
    BY <1>1, <2>1 DEF Jobs, Refs, Forfeits
  <2>5. \A st : st = "scheduled" => st \notin Done
    BY DEF Done
  <2>6. Closed' => Closed
    BY <1>2, <2>1, <2>4, <2>5, ClosedNoMore
  <2>7. Go(s, k)
    BY <2>1
  <2> HIDE DEF k
  <2> QED
    BY <1>1, <1>2, <2>2, <2>3, <2>6, <2>7, FollowCarries
<1> QED
  BY <1>3, <1>4

LEMMA HandOnCarries ==
  ASSUME Inv, Carried, NEW s \in Slots, FollowOthers(s) \/ HandOn(s)
  PROVE  Carried'
<1> DEFINE j == job[s]
<1>1. j \in Jobs /\ Tidy(j)
  BY DEF Inv, JobsOK, SoundJobs, Carried, Tidied
<1>2. UNCHANGED <<rounds, bout, frozen, stalled>>
  BY DEF FollowOthers, HandOn, bouts, history
<1>3. Closed' = Closed
  BY <1>2, ClosedStill
<1>4. CASE FollowOthers(s)
  <2>1. j.step = "others"
    BY <1>4 DEF FollowOthers, At
  <2>2. \/ Go(s, Onward(j))
        \/ \E f, rest : Go(s, Following([[j EXCEPT !.goal = "opponent", !.rest = rest]
                                          EXCEPT !.rest = @ \ {f}], f))
    BY <1>4 DEF FollowOthers
  <2>3. CASE Go(s, Onward(j))
    <3> DEFINE o == Onward(j)
    <3>1. o.units = j.units /\ Tidy(o)
      BY <1>1, OnwardFields
    <3> HIDE DEF o, j
    <3>2. Carries(j) => Carries(o)
      BY <2>1, <3>1 DEF Carries
    <3> QED
      BY <1>2, <1>3, <2>3, <3>1, <3>2, CarryOn DEF o, j
  <2>4. ASSUME NEW f, NEW rest,
               Go(s, Following([[j EXCEPT !.goal = "opponent", !.rest = rest]
                                EXCEPT !.rest = @ \ {f}], f))
        PROVE  Carried'
    <3> DEFINE k == Following([[j EXCEPT !.goal = "opponent", !.rest = rest]
                               EXCEPT !.rest = @ \ {f}], f)
    <3>1. k.step = "follow" /\ k.goal = "opponent" /\ k.units = j.units
      BY <1>1 DEF Jobs, Following
    <3>2. k.step \in FollowSteps /\ j.step \in FollowSteps
      BY <2>1, <3>1 DEF FollowSteps
    <3>3. Go(s, k)
      BY <2>4
    <3> HIDE DEF k
    <3> QED
      BY <1>2, <1>3, <3>1, <3>2, <3>3, FollowCarries
  <2> QED
    BY <2>2, <2>3, <2>4
<1>5. CASE HandOn(s)
  <2>1. j.step = "next"
    BY <1>5 DEF HandOn, At
  <2>2. \/ \E r \in j.back :
            Go(s, [j EXCEPT !.step = "refresh", !.goal = "reopen", !.round = Of(r), !.back = @ \ {r}])
        \/ \E u \in j.units : Go(s, [Advance(u) EXCEPT !.units = j.units \ {u}])
    BY <1>5 DEF HandOn
  <2>3. ASSUME NEW r \in j.back,
               Go(s, [j EXCEPT !.step = "refresh", !.goal = "reopen", !.round = Of(r), !.back = @ \ {r}])
        PROVE  Carried'
    <3> DEFINE k == [j EXCEPT !.step = "refresh", !.goal = "reopen", !.round = Of(r), !.back = @ \ {r}]
    <3>1. k.step = "refresh" /\ k.goal = "reopen" /\ k.units = j.units /\ Go(s, k)
      BY <1>1, <2>3 DEF Jobs
    <3> HIDE DEF k
    <3>2. Tidy(k) /\ (Carries(j) => Carries(k))
      BY <2>1, <3>1 DEF Tidy, Carries
    <3> QED
      BY <1>2, <1>3, <3>1, <3>2, CarryOn
  <2>4. ASSUME NEW u \in j.units, Go(s, [Advance(u) EXCEPT !.units = j.units \ {u}])
        PROVE  Carried'
    <3> DEFINE k == [Advance(u) EXCEPT !.units = j.units \ {u}]
    <3>1. /\ k.step = "refresh" /\ k.goal = "advance" /\ k.units = j.units \ {u}
          /\ k.round = u /\ Go(s, k)
      BY <2>4 DEF Advance, Free
    <3> HIDE DEF k
    <3>2. Tidy(k) /\ (Carries(j) => Carries(k))
      BY <2>1, <3>1 DEF Tidy, Carries
    <3> QED
      BY <1>2, <1>3, <3>1, <3>2, CarryOn
  <2> QED
    BY <2>2, <2>3, <2>4
<1> QED
  BY <1>4, <1>5

LEMMA InitCarried == Init => Carried
<1> SUFFICES ASSUME Init PROVE Carried
  OBVIOUS
<1> DEFINE k == [Free EXCEPT !.step = "entrants", !.goal = "draw"]
<1>1. k.step = "entrants" /\ k.goal = "draw"
  BY DEF Free
<1>2. PICK s \in Slots : job = [t \in Slots |-> IF t = s THEN k ELSE Free]
  BY DEF Init
<1> HIDE DEF k
<1>3. Tidy(k)
  BY <1>1 DEF Tidy
<1>4. Tidied
  BY <1>2, <1>3, FreeTidy DEF Tidied
<1>5. ~Closed
  BY DEF Init, Closed
<1> QED
  BY <1>4, <1>5 DEF Carried

LEMMA CarriedKeeps == Inv /\ Carried /\ [Next]_vars => Carried'
<1> SUFFICES ASSUME Inv, Carried, [Next]_vars PROVE Carried'
  OBVIOUS
<1>1. CASE UNCHANGED vars
  <2>1. UNCHANGED <<rounds, bout, frozen, stalled, job>>
    BY <1>1 DEF vars, bouts, history
  <2> QED
    BY <2>1, ClosedStill, CarryStill
<1>2. CASE Bouts
  BY <1>2, BoutCarries DEF Bouts
<1>3. CASE Desk
  BY <1>3, DeskCarries
<1>4. ASSUME NEW s \in Slots, Pairing(s)
      PROVE  Carried'
  BY <1>4, RefreshCarries, MarkCarries, AdvanceCarries, PlanCarries, GiveUpCarries,
     CommitCarries, UndoCarries DEF Pairing
<1>5. ASSUME NEW s \in Slots, Reconcile(s)
      PROVE  Carried'
  BY <1>5, ReadCarries, LoseCarries, HandOnCarries DEF Reconcile
<1> QED
  BY <1>1, <1>2, <1>3, <1>4, <1>5 DEF Next

(* Once no request is in hand, the last round is not closed with nothing   *)
(* drawn after it, unless the desk deleted a round, a request failed or a  *)
(* draw gave up: however the bouts that close it, the forfeits, undos and  *)
(* put-backs on it and the draws meet (onMatchCompleted, handOn).          *)
THEOREM ClosedRoundIsFollowed == Spec => []ClosedRoundAdvances
<1>1. Spec => []Inv
  BY InitInv, StepKeeps, PTL DEF Spec
<1>2. Spec => []Carried
  BY <1>1, InitCarried, CarriedKeeps, PTL DEF Spec
<1>3. Carried => ClosedRoundAdvances
  <2> SUFFICES ASSUME Carried, Quiet, Closed
               PROVE  FALSE
    BY DEF ClosedRoundAdvances, Closed
  <2>1. PICK s \in Slots : Carries(job[s])
    BY DEF Carried
  <2>2. Tidy(job[s]) /\ job[s].step = "free"
    BY DEF Carried, Tidied, Quiet, At
  <2> QED
    BY <2>1, <2>2 DEF Tidy, Carries
<1> QED
  BY <1>2, <1>3, PTL

-----------------------------------------------------------------------------
(* A fighter out is followed: for each one still in the pairings, and for  *)
(* each bout of his still waiting, some request has yet to see to it; but  *)
(* for the bouts put back by hand since he went out.                       *)

BackSteps == {"records", "restore", "void", "entries", "putBack"}

\* A request that brings a fighter back saw him in; the bouts it goes through are
\* his, and it has one in hand; an undo has one in hand, and the forfeit of that one.
Orderly(j) ==
  /\ j.step \in BackSteps => ~j.seen
  /\ j.step \in {"lose", "void"} => \E r \in Refs : j.at = {r} /\ r.who = j.who
  /\ j.step \in {"forfeit", "lose", "restore", "void"} => \A r \in j.todo : r.who = j.who
  /\ j.step \in {"assert", "unforfeit"} => j.goal = "undo"
  /\ j.goal = "undo" /\ j.step \in UndoSteps =>
       \E r \in Refs : j.at = {r} /\ \A q \in j.todo : SameBout(q, r)

\* The request follows f, and will see him out, in the spell he is in, before it
\* reads his bouts.
Early(j, f) ==
  /\ j.who = f
  /\ \/ j.step = "follow"
     \/ j.step = "withdraw" /\ j.since = spell[f]
     \/ j.step \in BackSteps \cup {"recheck"} /\ ~j.seen

Same(r, n, p) == Of(r) = [no |-> n, id |-> roundId[n]] /\ r.pair = p

\* The request has yet to forfeit the bout of f, or to follow f for having put it
\* back; in the last two cases it leaves f to his own settle.
Answers(j, f, n, p) ==
  \/ Early(j, f)
  \/ j.who = f /\ j.step = "bouts" /\ j.since = spell[f]
  \/ j.who = f /\ j.step \in {"forfeit", "lose"} /\ Ref(n, p, f) \in j.todo
  \/ j.who = f /\ j.step = "lose" /\ Ref(n, p, f) \in j.at
  \/ j.step \in FollowSteps /\ j.goal # "opponent" /\ j.who # f /\ \E r \in j.back : Same(r, n, p)
  \/ j.step \in FollowSteps /\ j.goal = "opponent" /\ f \in j.rest
  \/ j.step = "void" /\ j.goal = "opponent" /\ j.who # f /\ \E r \in j.at : Same(r, n, p)
  \/ j.step \in {"refresh", "mark", "put"} /\ j.goal = "undo" /\ \E r \in j.at : Same(r, n, p)

\* The other one's forfeit is live on the bout, or his own was voided by hand.
Held(f, n, p) == \E q \in record : Same(q, n, p) /\ q.who # f
Excused(f, n, p) == Held(f, n, p) \/ HandedBack(Ref(n, p, f), spell[f])

AllOrderly == \A s \in Slots : Orderly(job[s])

\* A round later than the last, which a withdrawn fighter is still in, was deleted.
DrawnWithout ==
  \A f \in Fighters : wd[f] # 0 => \A n \in Nums : last < n /\ n < wd[f] => n \in redrawn

OutMinded == \A f \in out \ unfollowed : wd[f] = 0 => \E s \in Slots : Early(job[s], f)

BoutsMinded ==
  \A f \in out \ unfollowed : \A n \in (1..last) \ redrawn : \A p \in pairs[n] :
    f \in p /\ bout[n][p] = "scheduled" /\ ~Excused(f, n, p) =>
      \E s \in Slots : Answers(job[s], f, n, p)

Followed == AllOrderly /\ DrawnWithout /\ OutMinded /\ BoutsMinded

\* What a step that gives slot s the request k must leave minded: the fighters in
\* the pairings, and the bouts that wait.
MindsOut(s, k) ==
  \A f \in out' \ unfollowed' : wd'[f] = 0 =>
    Early(k, f) \/ (f \in out \ unfollowed /\ wd[f] = 0 /\ ~Early(job[s], f))

MindsBouts(s, k) ==
  \A f \in out' \ unfollowed' : \A n \in (1..last) \ redrawn : \A p \in pairs[n] :
    f \in p /\ bout'[n][p] = "scheduled" /\ ~Excused(f, n, p)' =>
      \/ Answers(k, f, n, p)
      \/ \E t \in Slots \ {s} : Answers(job[t], f, n, p)
      \/ /\ f \in out \ unfollowed /\ bout[n][p] = "scheduled" /\ ~Excused(f, n, p)
         /\ ~Answers(job[s], f, n, p)

LEMMA MindOn ==
  ASSUME Inv, Followed, NEW s \in Slots, NEW k, Go(s, k), Orderly(k),
         UNCHANGED <<rounds, redrawn>>, DrawnWithout', MindsOut(s, k), MindsBouts(s, k),
         \A f \in out' : spell'[f] = spell[f] \/ (k.step = "follow" /\ k.who = f)
  PROVE  Followed'
<1>1. job \in [Slots -> SoundJobs] /\ job' = [job EXCEPT ![s] = k]
  BY DEF Inv, JobsOK, Go
<1>2. job'[s] = k /\ \A t \in Slots : t # s => job'[t] = job[t]
  BY <1>1
<1>3. last' = last /\ roundId' = roundId /\ pairs' = pairs /\ redrawn' = redrawn
  BY DEF rounds
<1>4. AllOrderly'
  BY <1>2 DEF Followed, AllOrderly, Orderly
<1>5. ASSUME NEW f \in out', NEW t \in Slots, Early(job'[t], f)
      PROVE  \E u \in Slots : Early(job[u], f)'
  <2>1. CASE spell'[f] = spell[f]
    BY <1>5, <2>1 DEF Early
  <2>2. CASE k.step = "follow" /\ k.who = f
    <3>1. Early(job[s], f)'
      BY <1>2, <2>2 DEF Early
    <3> QED
      BY <3>1
  <2> QED
    BY <2>1, <2>2
<1>6. ASSUME NEW f \in out', NEW n, NEW p, NEW t \in Slots, Answers(job'[t], f, n, p)
      PROVE  \E u \in Slots : Answers(job[u], f, n, p)'
  <2>1. CASE spell'[f] = spell[f]
    <3>1. Answers(job[t], f, n, p)'
      BY <1>3, <1>6, <2>1 DEF Answers, Early, Same, Ref
    <3> QED
      BY <3>1
  <2>2. CASE k.step = "follow" /\ k.who = f
    <3>1. Answers(job[s], f, n, p)'
      BY <1>2, <2>2 DEF Answers, Early
    <3> QED
      BY <3>1
  <2> QED
    BY <2>1, <2>2
<1>7. OutMinded'
  <2> SUFFICES ASSUME NEW f \in out' \ unfollowed', wd'[f] = 0
               PROVE  \E t \in Slots : Early(job'[t], f)
    BY <1>5 DEF OutMinded
  <2>1. CASE Early(k, f)
    BY <1>2, <2>1
  <2>2. CASE ~Early(k, f)
    <3>1. f \in out \ unfollowed /\ wd[f] = 0 /\ ~Early(job[s], f)
      BY <2>2 DEF MindsOut
    <3>2. PICK t \in Slots : Early(job[t], f)
      BY <3>1 DEF Followed, OutMinded
    <3> QED
      BY <1>2, <3>1, <3>2
  <2> QED
    BY <2>1, <2>2
<1>8. BoutsMinded'
  <2> SUFFICES ASSUME NEW f \in out' \ unfollowed', NEW n \in (1..last) \ redrawn,
                      NEW p \in pairs[n], f \in p, bout'[n][p] = "scheduled", ~Excused(f, n, p)'
               PROVE  \E t \in Slots : Answers(job'[t], f, n, p)
    BY <1>3, <1>6 DEF BoutsMinded
  <2>1. CASE Answers(k, f, n, p)
    BY <1>2, <2>1
  <2>2. CASE \E t \in Slots \ {s} : Answers(job[t], f, n, p)
    BY <1>2, <2>2
  <2>3. CASE /\ f \in out \ unfollowed /\ bout[n][p] = "scheduled" /\ ~Excused(f, n, p)
             /\ ~Answers(job[s], f, n, p)
    <3>1. PICK t \in Slots : Answers(job[t], f, n, p)
      BY <2>3 DEF Followed, BoutsMinded
    <3>2. job'[t] = job[t]
      BY <1>2, <2>3, <3>1
    <3> QED
      BY <3>1, <3>2
  <2> QED
    BY <2>1, <2>2, <2>3 DEF MindsBouts
<1> QED
  BY <1>4, <1>7, <1>8 DEF Followed

\* A request that follows nobody, and undoes no bout.
Apart(j) ==
  /\ j.step \notin FollowSteps \cup {"assert", "unforfeit"}
  /\ j.step \in {"refresh", "mark", "put"} => j.goal # "undo"

\* It has nothing to answer for.
LEMMA Elsewhere ==
  ASSUME NEW j, Apart(j)
  PROVE  /\ Orderly(j) /\ \A f : ~Early(j, f)
         /\ \A f, n, p : ~Answers(j, f, n, p)
BY DEF Apart, FollowSteps, BackSteps, UndoSteps, Orderly, Early, Answers

\* Nor has an undo before it voids the forfeit.
LEMMA Unanswered ==
  ASSUME NEW j, j.step \in {"assert", "unforfeit"}
  PROVE  (\A f : ~Early(j, f)) /\ \A f, n, p : ~Answers(j, f, n, p)
BY DEF FollowSteps, BackSteps, Early, Answers

LEMMA ExcusedStill ==
  ASSUME UNCHANGED <<rounds, record, undone, spell>>
  PROVE  \A f, n, p : Excused(f, n, p)' <=> Excused(f, n, p)
<1>1. UNCHANGED roundId
  BY DEF rounds
<1>2. \A f, n, p : Held(f, n, p)' <=> Held(f, n, p)
  BY <1>1 DEF Held, Same
<1>3. \A f, n, p : HandedBack(Ref(n, p, f), spell[f])' <=> HandedBack(Ref(n, p, f), spell[f])
  BY <1>1 DEF HandedBack, SameBout, Ref, Of
<1> QED
  BY <1>2, <1>3 DEF Excused

\* What leaves the bouts, the records and the entrants alone.
LEMMA MindStill ==
  ASSUME Inv, Followed, NEW s \in Slots, NEW k, Go(s, k), Orderly(k),
         UNCHANGED <<rounds, redrawn, bout, record, undone, out, spell, wd>>,
         unfollowed \subseteq unfollowed',
         \A f \in out \ unfollowed' : Early(job[s], f) => Early(k, f),
         \A f \in out \ unfollowed' : \A n \in (1..last) \ redrawn : \A p \in pairs[n] :
           f \in p /\ bout[n][p] = "scheduled" /\ ~Excused(f, n, p) /\ Answers(job[s], f, n, p)
             => Answers(k, f, n, p)
  PROVE  Followed'
<1>1. DrawnWithout'
  BY DEF rounds, Followed, DrawnWithout
<1>2. MindsOut(s, k)
  BY DEF MindsOut
<1>3. \A f, n, p : Excused(f, n, p)' <=> Excused(f, n, p)
  BY ExcusedStill
<1>4. MindsBouts(s, k)
  BY <1>3 DEF MindsBouts
<1> QED
  BY <1>1, <1>2, <1>4, MindOn

\* A step of a request that follows nobody, to one that follows nobody.
LEMMA MindElsewhere ==
  ASSUME Inv, Followed, NEW s \in Slots, NEW k, Go(s, k), Apart(job[s]), Apart(k),
         UNCHANGED <<rounds, redrawn, bout, record, undone, out, spell, wd>>,
         unfollowed \subseteq unfollowed'
  PROVE  Followed'
BY Elsewhere, MindStill

LEMMA OnwardStep ==
  ASSUME NEW j
  PROVE  Apart(Onward(j))
<1> DEFINE k == [Free EXCEPT !.step = "next", !.back = j.back, !.units = j.units]
<1>1. k.step = "next" /\ Free.step = "free"
  BY DEF Free
<1>2. Onward(j) = IF j.back = {} /\ j.units = {} THEN Free ELSE k
  BY DEF Onward
<1> HIDE DEF k
<1> QED
  BY <1>1, <1>2 DEF Apart, FollowSteps

LEMMA RefreshedStep ==
  ASSUME NEW j \in Jobs
  PROVE  /\ j.goal # "undo" => Apart(Refreshed(j))
         /\ j.goal = "undo" => Refreshed(j) = On(j, "put")
<1> DEFINE p == On(j, "put")  f == On(j, "frozen")  o == Onward(j)
<1>1. f.step = "frozen"
  BY DEF Jobs, On
<1>2. Apart(o)
  BY OnwardStep
<1>3. /\ j.goal = "undo" => Refreshed(j) = p
      /\ j.goal # "undo" => Refreshed(j) \in {f, o}
  BY Zenon DEF Refreshed
<1> HIDE DEF f, o
<1> QED
  BY <1>1, <1>2, <1>3 DEF Apart, FollowSteps

\* An undo goes on, and answers for its bout from the time the forfeit is voided.
LEMMA UndoMinds ==
  ASSUME Inv, Followed, NEW s \in Slots, NEW k, Go(s, k), job[s].goal = "undo",
         \/ job[s].step = "assert" /\ k.step \in {"unforfeit", "refresh"}
         \/ job[s].step \in {"refresh", "mark"} /\ k.step \in {"mark", "put"},
         k.goal = "undo", k.at = job[s].at, k.todo = job[s].todo,
         UNCHANGED <<rounds, redrawn, bout, record, undone, out, spell, wd>>,
         UNCHANGED unfollowed
  PROVE  Followed'
<1>1. Orderly(job[s])
  BY DEF Followed, AllOrderly
<1>2. Orderly(k)
  BY <1>1 DEF Orderly, UndoSteps, BackSteps
<1>3. \A f : ~Early(job[s], f)
  BY DEF Early, BackSteps
<1>4. \A f, n, p : Answers(job[s], f, n, p) => Answers(k, f, n, p)
  BY DEF Answers, Early, BackSteps, FollowSteps
<1> QED
  BY <1>2, <1>3, <1>4, MindStill

\* The steps of a pairing that change no round and no bout.
LEMMA PairingMinds ==
  ASSUME Inv, Followed, NEW s \in Slots,
         Refresh(s) \/ MarkRound(s) \/ IsFinalised(s) \/ HasLaterRound(s) \/ LoadEntrants(s)
           \/ PlanRound(s) \/ NoMoreRounds(s) \/ PreviousInvalid(s) \/ CommitExists(s)
           \/ CommitStale(s) \/ AssertUncompletable(s)
  PROVE  Followed'
<1> DEFINE j == job[s]
<1>1. /\ j \in Jobs /\ Orderly(j)
      /\ j.step \in {"refresh", "mark", "frozen", "later", "entrants", "rounds", "write", "assert"}
  BY DEF Inv, JobsOK, SoundJobs, Followed, AllOrderly, At, Refresh, MarkRound, IsFinalised,
         HasLaterRound, LoadEntrants, PlanRound, NoMoreRounds, PreviousInvalid, CommitExists,
         CommitStale, AssertUncompletable
<1>2. /\ UNCHANGED <<rounds, redrawn, bout, record, undone, out, spell, wd>>
      /\ UNCHANGED unfollowed
  BY DEF Refresh, MarkRound, IsFinalised, HasLaterRound, LoadEntrants, PlanRound, NoMoreRounds,
         PreviousInvalid, CommitExists, CommitStale, AssertUncompletable, bouts, entrants, history
<1>3. ASSUME NEW i \in Jobs, NEW st \in Steps
      PROVE  On(i, st).step = st /\ On(i, st).goal = i.goal /\ On(i, st).at = i.at
             /\ On(i, st).todo = i.todo
  BY DEF Jobs, On
<1>4. {"mark", "later", "entrants", "refresh", "unforfeit", "put", "rounds", "write"} \subseteq Steps
  BY DEF Steps
<1>5. Apart(Free) /\ Orderly(Free) /\ Apart(Onward(j))
  BY OnwardStep, FreeSound, Elsewhere DEF Apart, FollowSteps
<1>6. CASE Refresh(s)
  <2> DEFINE d == IF Stands(j.round)
                  THEN Derive(j.round.no, IF j.goal = "undo" THEN {r.pair : r \in j.at} ELSE {})
                  ELSE "pending"
             i == [j EXCEPT !.derived = d]
  <2>1. Go(s, On(i, "mark")) \/ Go(s, Refreshed(i))
    BY <1>6 DEF Refresh
  <2>2. d \in Marks /\ j.step = "refresh"
    BY <1>6 DEF Derive, Marks, Refresh, At
  <2> HIDE DEF d
  <2>3. i \in Jobs /\ i.goal = j.goal /\ i.at = j.at /\ i.todo = j.todo
    BY <1>1, <2>2 DEF Jobs
  <2> HIDE DEF i
  <2>4. CASE j.goal = "undo"
    <3>1. Go(s, On(i, "mark")) \/ Go(s, On(i, "put"))
      BY <2>1, <2>3, <2>4, RefreshedStep
    <3>2. PICK st \in {"mark", "put"} : Go(s, On(i, st))
      BY <3>1
    <3>3. /\ On(i, st).step = st /\ On(i, st).goal = "undo" /\ On(i, st).at = j.at
          /\ On(i, st).todo = j.todo
      BY <1>3, <1>4, <2>3, <2>4, <3>2
    <3> QED
      BY <1>2, <2>2, <2>4, <3>2, <3>3, UndoMinds
  <2>5. CASE j.goal # "undo"
    <3>1. Apart(On(i, "mark")) /\ Apart(Refreshed(i))
      BY <1>3, <1>4, <2>3, <2>5, RefreshedStep DEF Apart, FollowSteps
    <3>2. Apart(j)
      BY <2>2, <2>5 DEF Apart, FollowSteps
    <3> QED
      BY <1>2, <2>1, <3>1, <3>2, MindElsewhere
  <2> QED
    BY <2>4, <2>5
<1>7. CASE MarkRound(s)
  <2>1. Go(s, Refreshed(j)) /\ j.step = "mark"
    BY <1>7 DEF MarkRound, At
  <2>2. CASE j.goal = "undo"
    <3>1. Refreshed(j) = On(j, "put")
      BY <1>1, <2>2, RefreshedStep
    <3>2. /\ On(j, "put").step = "put" /\ On(j, "put").goal = "undo" /\ On(j, "put").at = j.at
          /\ On(j, "put").todo = j.todo
      BY <1>1, <1>3, <1>4, <2>2
    <3> QED
      BY <1>2, <2>1, <2>2, <3>1, <3>2, UndoMinds
  <2>3. CASE j.goal # "undo"
    <3>1. Apart(j) /\ Apart(Refreshed(j))
      BY <1>1, <2>1, <2>3, RefreshedStep DEF Apart, FollowSteps
    <3> QED
      BY <1>2, <2>1, <3>1, MindElsewhere
  <2> QED
    BY <2>2, <2>3
<1>8. CASE AssertUncompletable(s)
  <2>1. j.step = "assert" /\ j.goal = "undo"
    BY <1>1, <1>8 DEF AssertUncompletable, At, Orderly
  <2>2. (\E st \in {"refresh", "unforfeit"} : Go(s, On(j, st))) \/ Go(s, Free)
    BY <1>8 DEF AssertUncompletable
  <2>3. CASE Go(s, Free)
    <3>1. (\A f : ~Early(j, f)) /\ \A f, n, p : ~Answers(j, f, n, p)
      BY <2>1, Unanswered
    <3> QED
      BY <1>2, <1>5, <2>3, <3>1, MindStill
  <2>4. ASSUME NEW st \in {"refresh", "unforfeit"}, Go(s, On(j, st))
        PROVE  Followed'
    <3>1. /\ On(j, st).step = st /\ On(j, st).goal = "undo" /\ On(j, st).at = j.at
          /\ On(j, st).todo = j.todo
      BY <1>1, <1>3, <1>4, <2>1
    <3> QED
      BY <1>2, <2>1, <2>4, <3>1, UndoMinds
  <2> QED
    BY <2>2, <2>3, <2>4
<1>9. CASE \/ IsFinalised(s) \/ HasLaterRound(s) \/ NoMoreRounds(s) \/ PreviousInvalid(s)
           \/ CommitExists(s) \/ LoadEntrants(s) \/ PlanRound(s) \/ CommitStale(s)
  <2>1. j.step \in {"frozen", "later", "entrants", "rounds", "write"}
    BY <1>9 DEF IsFinalised, HasLaterRound, NoMoreRounds, PreviousInvalid, CommitExists,
                LoadEntrants, PlanRound, CommitStale, At
  <2>2. \E k : Go(s, k) /\ Apart(k)
    <3>1. CASE IsFinalised(s) \/ HasLaterRound(s) \/ NoMoreRounds(s) \/ PreviousInvalid(s)
               \/ CommitExists(s)
      <4>1. Go(s, Onward(j)) \/ Go(s, On(j, "later")) \/ Go(s, On(j, "entrants"))
        BY <3>1 DEF IsFinalised, HasLaterRound, NoMoreRounds, PreviousInvalid, CommitExists
      <4>2. Apart(On(j, "later")) /\ Apart(On(j, "entrants"))
        BY <1>1, <1>3, <1>4 DEF Apart, FollowSteps
      <4> QED
        BY <1>5, <4>1, <4>2
    <3>2. CASE LoadEntrants(s)
      <4> DEFINE k == [j EXCEPT !.step = "rounds", !.fields = [n \in Nums |-> Field(n)]]
      <4>1. k.step = "rounds" /\ Go(s, k)
        BY <1>1, <3>2 DEF LoadEntrants, Jobs
      <4> HIDE DEF k
      <4> QED
        BY <4>1 DEF Apart, FollowSteps
    <3>3. CASE PlanRound(s)
      <4>1. PICK pl : Go(s, [j EXCEPT !.step = "write", !.planned = last + 1, !.pairs = pl.pairs,
                                      !.bye = pl.bye, !.field = j.fields[last + 1]])
        BY <3>3 DEF PlanRound
      <4> DEFINE k == [j EXCEPT !.step = "write", !.planned = last + 1, !.pairs = pl.pairs,
                                !.bye = pl.bye, !.field = j.fields[last + 1]]
      <4>2. k.step = "write" /\ Go(s, k)
        BY <1>1, <4>1 DEF Jobs
      <4> HIDE DEF k
      <4> QED
        BY <4>2 DEF Apart, FollowSteps
    <3>4. CASE CommitStale(s)
      <4> DEFINE k == [j EXCEPT !.step = "entrants", !.tries = @ + 1]
      <4>1. k.step = "entrants" /\ (Go(s, k) \/ Go(s, Onward(j)))
        BY <1>1, <3>4 DEF CommitStale, Jobs
      <4> HIDE DEF k
      <4> QED
        BY <1>5, <4>1 DEF Apart, FollowSteps
    <3> QED
      BY <1>9, <3>1, <3>2, <3>3, <3>4
  <2>3. Apart(j)
    BY <2>1 DEF Apart, FollowSteps
  <2> QED
    BY <1>2, <2>2, <2>3, MindElsewhere
<1> QED
  BY <1>6, <1>7, <1>8, <1>9

\* The forfeit of a bout undone is voided: the undo answers for the bout, which it
\* has yet to write, and the other bouts keep their records.
LEMMA VoidHeldMinds ==
  ASSUME Inv, Followed, NEW s \in Slots, VoidForfeitRecords(s)
  PROVE  Followed'
<1> DEFINE j == job[s]
           k == [j EXCEPT !.step = "refresh", !.todo = {}]
<1>1. j \in Jobs /\ j.step = "unforfeit" /\ Orderly(j)
  BY DEF Inv, JobsOK, SoundJobs, VoidForfeitRecords, At, Followed, AllOrderly
<1>2. j.goal = "undo"
  BY <1>1 DEF Orderly
<1>3. PICK r \in Refs : j.at = {r} /\ \A q \in j.todo : SameBout(q, r)
  BY <1>1, <1>2 DEF Orderly, UndoSteps
<1>4. /\ UNCHANGED <<rounds, redrawn, bout, out, spell, wd>> /\ UNCHANGED unfollowed
      /\ roundId' = roundId /\ spell' = spell
  BY DEF VoidForfeitRecords, rounds, entrants, history
<1>5. (\A f : ~Early(j, f)) /\ \A f, n, p : ~Answers(j, f, n, p)
  BY <1>1, Unanswered
<1>6. CASE ~Stands(j.round)
  <2>1. Go(s, Free) /\ UNCHANGED <<record, undone>>
    BY <1>6 DEF VoidForfeitRecords
  <2>2. Orderly(Free)
    BY FreeSound, Elsewhere DEF Apart, FollowSteps
  <2> QED
    BY <1>4, <1>5, <2>1, <2>2, MindStill
<1>7. CASE Stands(j.round)
  <2>1. /\ Go(s, k) /\ record' = record \ j.todo
        /\ \A v \in undone : v.ref \notin j.todo => v \in undone'
    BY <1>7 DEF VoidForfeitRecords
  <2>2. k.step = "refresh" /\ k.goal = "undo" /\ k.at = {r} /\ k.todo = {}
    BY <1>1, <1>2, <1>3 DEF Jobs
  <2> HIDE DEF k
  <2>3. Orderly(k)
    BY <2>2 DEF Orderly, UndoSteps, BackSteps
  <2>4. DrawnWithout'
    BY <1>4 DEF rounds, Followed, DrawnWithout
  <2>5. MindsOut(s, k)
    BY <1>4, <1>5 DEF MindsOut
  <2>6. ASSUME NEW f, NEW n, NEW p, ~Same(r, n, p), Excused(f, n, p)
        PROVE  Excused(f, n, p)'
    <3>1. ASSUME NEW q, Same(q, n, p)
          PROVE  q \notin j.todo
      BY <1>3, <2>6, <3>1 DEF Same, SameBout
    <3>2. CASE Held(f, n, p)
      <4>1. PICK q \in record : Same(q, n, p) /\ q.who # f
        BY <3>2 DEF Held
      <4>2. q \in record' /\ Same(q, n, p)'
        BY <1>4, <2>1, <3>1, <4>1 DEF Same
      <4> QED
        BY <4>1, <4>2 DEF Held, Excused
    <3>3. CASE HandedBack(Ref(n, p, f), spell[f])
      <4>1. PICK v \in undone : /\ SameBout(v.ref, Ref(n, p, f)) /\ v.ref.who = Ref(n, p, f).who
                                /\ v.spell >= spell[f]
        BY <3>3 DEF HandedBack
      <4>2. Same(v.ref, n, p)
        BY <4>1 DEF SameBout, Same, Of, Ref
      <4>3. v \in undone'
        BY <2>1, <3>1, <4>2
      <4>4. Ref(n, p, f)' = Ref(n, p, f)
        BY <1>4 DEF Ref
      <4> QED
        BY <1>4, <4>1, <4>3, <4>4 DEF HandedBack, Excused
    <3> QED
      BY <2>6, <3>2, <3>3 DEF Excused
  <2>7. MindsBouts(s, k)
    <3> SUFFICES ASSUME NEW f \in out \ unfollowed, NEW n \in (1..last) \ redrawn, NEW p \in pairs[n],
                        bout[n][p] = "scheduled", ~Excused(f, n, p)'
                 PROVE  Answers(k, f, n, p) \/ ~Excused(f, n, p)
      BY <1>4, <1>5 DEF MindsBouts
    <3>1. CASE Same(r, n, p)
      BY <2>2, <3>1 DEF Answers
    <3> QED
      BY <2>6, <3>1
  <2> QED
    BY <1>4, <2>1, <2>3, <2>4, <2>5, <2>7, MindOn
<1> QED
  BY <1>6, <1>7

\* A round is drawn: a fighter out who is in it is minded by who takes him out.
LEMMA CommitMinds ==
  ASSUME Inv, Followed, NEW s \in Slots, Commit(s)
  PROVE  Followed'
<1> DEFINE j == job[s]  n == last + 1
<1>1. j \in SoundJobs /\ j.step = "write" /\ job \in [Slots -> SoundJobs]
  BY DEF Inv, JobsOK, Commit, At
<1>2. /\ j.planned = n /\ n \in Nums /\ Covers(j.pairs, j.bye, j.field)
      /\ StoredField(n) = j.field
  BY <1>1 DEF Commit, Stale, SoundJobs, Sound, FollowSteps
<1>3. /\ last' = n /\ roundId' = [roundId EXCEPT ![n] = drawn + 1]
      /\ pairs' = [pairs EXCEPT ![n] = j.pairs]
      /\ bout' = [bout EXCEPT ![n] = [p \in Pair |-> IF p \in j.pairs THEN "scheduled" ELSE "none"]]
      /\ job' = [job EXCEPT ![s] = Onward(j)]
      /\ UNCHANGED <<record, undone, wd, out, spell, redrawn, unfollowed>>
  BY DEF Commit, Go, entrants, history
<1>4. Apart(Onward(j)) /\ Apart(j)
  BY <1>1, OnwardStep DEF Apart, FollowSteps
<1>5. job'[s] = Onward(j) /\ \A t \in Slots : t # s => job'[t] = job[t]
  BY <1>1, <1>3
<1>6. last \in 0..RoundCount /\ pairs \in [Nums -> SUBSET Pair] /\ roundId \in [Nums -> Nat]
      /\ bout \in [Nums -> [Pair -> {"none", "scheduled"} \cup Busy]]
  BY DEF Inv, RoundsOK, BoutsOK
<1> HIDE DEF j
<1>7. AllOrderly'
  <2>1. Orderly(job'[s])
    BY <1>4, <1>5, Elsewhere
  <2> QED
    BY <1>5, <2>1 DEF Followed, AllOrderly
<1>8. DrawnWithout'
  <2> SUFFICES ASSUME NEW f \in Fighters, wd[f] # 0, NEW m \in Nums, n < m, m < wd[f]
               PROVE  m \in redrawn
    BY <1>3 DEF DrawnWithout
  <2>1. last < m
    BY <1>6, SwissConstants DEF Nums
  <2> QED
    BY <2>1 DEF Followed, DrawnWithout
<1>9. \A t \in Slots : \A f : Early(job[t], f) => Early(job'[t], f) /\ t # s
  BY <1>4, <1>5, Elsewhere DEF j
<1>10. OutMinded'
  BY <1>3, <1>9 DEF Followed, OutMinded, Early
<1>11. BoutsMinded'
  <2> SUFFICES ASSUME NEW f \in out \ unfollowed, NEW m \in (1..n) \ redrawn, NEW p \in pairs'[m],
                      f \in p, bout'[m][p] = "scheduled", ~Excused(f, m, p)'
               PROVE  \E t \in Slots : Answers(job[t], f, m, p)'
    BY <1>3 DEF BoutsMinded
  <2>1. CASE m = n
    <3>1. pairs'[m] = j.pairs
      BY <1>2, <1>3, <1>6, <2>1
    <3>2. f \in StoredField(n) /\ f \in Fighters
      BY <1>2, <3>1 DEF Covers, StoredField
    <3>3. wd[f] = 0
      <4>1. wd[f] = 0 \/ wd[f] > n
        BY <3>2 DEF StoredField
      <4>2. wd[f] \in Nat
        BY <3>2 DEF Inv, EntrantsOK
      <4>3. last < n
        BY <1>6
      <4>4. wd[f] > n => n \in redrawn
        BY <1>2, <1>6, <3>2, <4>2, <4>3 DEF Followed, DrawnWithout, Nums
      <4> QED
        BY <2>1, <4>1, <4>4
    <3>4. PICK t \in Slots : Early(job[t], f)
      BY <3>3 DEF Followed, OutMinded
    <3>5. Early(job'[t], f)
      BY <1>9, <3>4
    <3> QED
      BY <1>3, <3>5 DEF Answers, Early
  <2>2. CASE m # n
    <3>1. m \in 1..last /\ m \in Nums
      BY <1>6, <2>2, SwissConstants DEF Nums
    <3>2. pairs'[m] = pairs[m] /\ bout'[m] = bout[m] /\ roundId'[m] = roundId[m]
      BY <1>2, <1>3, <1>6, <2>2, <3>1
    <3>3. ~Excused(f, m, p)
      <4>1. Ref(m, p, f)' = Ref(m, p, f) /\ undone' = undone /\ spell' = spell /\ record' = record
        BY <1>3, <3>2 DEF Ref
      <4> QED
        BY <3>2, <4>1 DEF Excused, Held, Same, HandedBack
    <3>4. PICK t \in Slots : Answers(job[t], f, m, p)
      BY <3>1, <3>2, <3>3 DEF Followed, BoutsMinded
    <3>5. t # s
      BY <1>4, <3>4, Elsewhere DEF j
    <3>6. job'[t] = job[t]
      BY <1>5, <3>5
    <3>7. Answers(job[t], f, m, p)'
      BY <1>3, <3>2, <3>4, <3>6 DEF Answers, Early, Same, Ref
    <3> QED
      BY <3>7
  <2> QED
    BY <2>1, <2>2
<1> QED
  BY <1>7, <1>8, <1>10, <1>11 DEF Followed

\* What changes no request and no round, sets no bout waiting, and puts nobody
\* who is out back in the pairings.
LEMMA MindNone ==
  ASSUME Inv, Followed, UNCHANGED <<rounds, redrawn, record, undone, out, spell, job>>,
         UNCHANGED unfollowed, DrawnWithout',
         \A f \in out : wd'[f] = 0 => wd[f] = 0,
         \A n \in (1..last) : \A p \in pairs[n] : bout'[n][p] = "scheduled" => bout[n][p] = "scheduled"
  PROVE  Followed'
<1>1. /\ last' = last /\ roundId' = roundId /\ pairs' = pairs /\ redrawn' = redrawn
      /\ record' = record /\ out' = out /\ spell' = spell /\ job' = job /\ unfollowed' = unfollowed
  BY DEF rounds
<1>2. AllOrderly' /\ OutMinded'
  BY <1>1 DEF Followed, AllOrderly, OutMinded, Early
<1>3. BoutsMinded'
  <2> SUFFICES ASSUME NEW f \in out \ unfollowed, NEW n \in (1..last) \ redrawn, NEW p \in pairs[n],
                      f \in p, bout'[n][p] = "scheduled", ~Excused(f, n, p)'
               PROVE  \E t \in Slots : Answers(job[t], f, n, p)'
    BY <1>1 DEF BoutsMinded
  <2>1. ~Excused(f, n, p) /\ bout[n][p] = "scheduled"
    BY <1>1, ExcusedStill
  <2>2. PICK t \in Slots : Answers(job[t], f, n, p)
    BY <2>1 DEF Followed, BoutsMinded
  <2>3. Answers(job[t], f, n, p)'
    BY <1>1, <2>2 DEF Answers, Early, Same, Ref
  <2> QED
    BY <2>3
<1> QED
  BY <1>2, <1>3 DEF Followed

\* A slot that follows nobody takes a request that follows nobody, and a bout is
\* written that does not wait.
LEMMA MindWrite ==
  ASSUME Inv, Followed, NEW s \in Slots, NEW k, Go(s, k),
         Apart(job[s]), Apart(k),
         UNCHANGED <<rounds, redrawn, record, undone, out, spell, wd>>, UNCHANGED unfollowed,
         NEW m \in Nums, NEW q \in Pair, NEW st, st # "scheduled",
         bout' = [bout EXCEPT ![m][q] = st]
  PROVE  Followed'
<1>1. /\ Orderly(k) /\ \A f : ~Early(job[s], f)
      /\ \A f, n, p : ~Answers(job[s], f, n, p)
  BY Elsewhere
<1>2. DrawnWithout'
  BY DEF rounds, Followed, DrawnWithout
<1>3. MindsOut(s, k)
  BY <1>1 DEF MindsOut
<1>4. \A f, n, p : Excused(f, n, p)' <=> Excused(f, n, p)
  BY ExcusedStill
<1>5. ASSUME NEW f \in out \ unfollowed', NEW n \in (1..last) \ redrawn, NEW p \in pairs[n],
             f \in p, bout'[n][p] = "scheduled"
      PROVE  bout[n][p] = "scheduled"
  <2>1. n \in Nums /\ p \in Pair
    BY SwissConstants DEF Inv, RoundsOK, Nums
  <2>2. bout \in [Nums -> [Pair -> {"none", "scheduled"} \cup Busy]]
    BY DEF Inv, BoutsOK
  <2> QED
    BY <1>5, <2>1, <2>2
<1>6. MindsBouts(s, k)
  BY <1>1, <1>4, <1>5 DEF MindsBouts
<1> QED
  BY <1>1, <1>2, <1>3, <1>6, MindOn

\* A bout undone waits again: whom it leaves waiting is not followed, the others the
\* organiser put back, or a request is about to read their bouts.
LEMMA PutBoutMinds ==
  ASSUME Inv, Followed, NEW s \in Slots, PutBout(s)
  PROVE  Followed'
<1> DEFINE j == job[s]
<1>1. j \in Jobs /\ j.step = "put" /\ Orderly(j) /\ job \in [Slots -> Jobs]
  BY DEF Inv, JobsOK, SoundJobs, PutBout, At, Followed, AllOrderly
<1>2. PICK r \in Refs, st \in {"scheduled", "running"} :
        /\ r \in j.at
        /\ bout' = IF Stands(r) THEN [bout EXCEPT ![r.no][r.pair] = st] ELSE bout
        /\ unfollowed' = IF Stands(r) /\ st = "scheduled" THEN unfollowed \cup LeftWaiting(r)
                         ELSE unfollowed
  BY <1>1 DEF PutBout, Jobs
<1>3. r.no \in Nums /\ r.pair \in Pair /\ (j.goal = "undo" => j.at = {r})
  BY <1>1, <1>2 DEF Refs, Orderly, UndoSteps
<1>4. UNCHANGED <<rounds, redrawn, record, undone, out, spell, wd>> /\ Go(s, Free)
      /\ unfollowed \subseteq unfollowed' /\ out' = out
  BY <1>2 DEF PutBout, entrants
<1>5. Orderly(Free) /\ \A f : ~Early(j, f)
  BY <1>1, FreeSound, Elsewhere DEF Apart, FollowSteps, Early, BackSteps
<1>6. DrawnWithout'
  BY <1>4 DEF rounds, Followed, DrawnWithout
<1>7. MindsOut(s, Free)
  BY <1>4, <1>5 DEF MindsOut
<1>8. \A f, n, p : Excused(f, n, p)' <=> Excused(f, n, p)
  BY <1>4, ExcusedStill
<1>9. bout \in [Nums -> [Pair -> {"none", "scheduled"} \cup Busy]]
  BY DEF Inv, BoutsOK
<1>10. MindsBouts(s, Free)
  <2> SUFFICES ASSUME NEW f \in out \ unfollowed', NEW n \in (1..last) \ redrawn, NEW p \in pairs[n],
                      f \in p, bout'[n][p] = "scheduled", ~Excused(f, n, p)
               PROVE  \/ \E t \in Slots \ {s} : Answers(job[t], f, n, p)
                      \/ bout[n][p] = "scheduled" /\ ~Answers(j, f, n, p)
    BY <1>4, <1>8 DEF MindsBouts
  <2>1. n \in Nums /\ p \in Pair
    BY SwissConstants DEF Inv, RoundsOK, Nums
  <2>2. CASE ~Same(r, n, p)
    <3>1. ~(Stands(r) /\ r.no = n /\ r.pair = p)
      BY <2>2 DEF Same, Stands, Of
    <3>2. bout[n][p] = "scheduled"
      BY <1>2, <1>3, <1>9, <2>1, <3>1
    <3>3. ~Answers(j, f, n, p)
      BY <1>1, <1>3, <1>5, <2>2 DEF Answers, FollowSteps
    <3> QED
      BY <3>2, <3>3
  <2>3. CASE Same(r, n, p)
    <3>1. r.no = n /\ r.id = roundId[n] /\ r.pair = p
      <4>1. Of(r).no = r.no /\ Of(r).id = r.id
        BY DEF Of
      <4> QED
        BY <2>3, <4>1 DEF Same
    <3>2. Stands(r)
      BY <3>1 DEF Stands
    <3>3. st = "scheduled"
      BY <1>2, <1>3, <1>9, <2>1, <3>1, <3>2
    <3>4. f \notin LeftWaiting(r)
      BY <1>2, <3>2, <3>3
    <3>5. ~HandedBack([r EXCEPT !.who = f], spell[f])
      <4>1. LET q == [r EXCEPT !.who = f] IN q.no = r.no /\ q.id = r.id /\ q.pair = r.pair /\ q.who = f
        BY DEF Refs
      <4>2. LET q == Ref(n, p, f) IN q.no = n /\ q.id = roundId[n] /\ q.pair = p /\ q.who = f
        BY DEF Ref
      <4> QED
        BY <3>1, <4>1, <4>2 DEF Excused, HandedBack, SameBout, Of
    <3>6. PICK t \in Slots : /\ job[t].who = f /\ job[t].since = spell[f]
                             /\ job[t].step \in {"withdraw", "bouts"}
      BY <3>1, <3>4, <3>5 DEF LeftWaiting
    <3>7. t # s
      BY <1>1, <3>6
    <3>8. Answers(job[t], f, n, p)
      BY <3>6 DEF Answers, Early
    <3> QED
      BY <3>7, <3>8
  <2> QED
    BY <2>2, <2>3
<1> QED
  BY <1>4, <1>5, <1>6, <1>7, <1>10, MindOn

LEMMA BoutMinds ==
  ASSUME Inv, Followed, NEW n \in Nums, NEW p \in Pair,
         StartBout(n, p) \/ \E s \in Slots :
           FinishBout(s, n, p) \/ CompleteAgain(s, n, p) \/ UndoBout(s, n, p)
  PROVE  Followed'
<1> DEFINE r == [no |-> n, id |-> roundId[n]]
           b == Ref(n, p, NoFighter)
           a == Advance(r)
           u == [Free EXCEPT !.step = "assert", !.goal = "undo", !.at = {b}, !.round = Of(b),
                             !.todo = Holder(b)]
<1>1. Apart(a) /\ Apart(Free)
  <2>1. a.step = "refresh" /\ a.goal = "advance" /\ Free.step = "free"
    BY DEF Advance, Free
  <2> QED
    BY <2>1 DEF Apart, FollowSteps
<1>2. Orderly(u)
  <2>1. u.step = "assert" /\ u.goal = "undo" /\ u.at = {b} /\ u.todo = Holder(b)
    BY DEF Free
  <2>2. b \in Refs
    BY DEF Inv, RoundsOK, Refs, Ref, Anyone
  <2> HIDE DEF u, b
  <2>3. \A q \in Holder(b) : SameBout(q, b)
    BY DEF Holder
  <2> QED
    BY <2>1, <2>2, <2>3 DEF Orderly, BackSteps, UndoSteps
<1> HIDE DEF a, u
<1>3. CASE StartBout(n, p)
  <2>1. /\ UNCHANGED <<rounds, redrawn, record, undone, out, spell, job>> /\ UNCHANGED unfollowed
        /\ UNCHANGED wd /\ bout' = [bout EXCEPT ![n][p] = "running"]
    BY <1>3 DEF StartBout, entrants, history
  <2>2. DrawnWithout'
    BY <2>1 DEF Followed, DrawnWithout, rounds
  <2>3. \A m \in (1..last) : \A q \in pairs[m] : bout'[m][q] = "scheduled" => bout[m][q] = "scheduled"
    <3> SUFFICES ASSUME NEW m \in 1..last, NEW q \in pairs[m], bout'[m][q] = "scheduled"
                 PROVE  bout[m][q] = "scheduled"
      OBVIOUS
    <3>1. m \in Nums /\ q \in Pair
      BY SwissConstants DEF Inv, RoundsOK, Nums
    <3> QED
      BY <2>1, <3>1 DEF Inv, BoutsOK
  <2> QED
    BY <2>1, <2>2, <2>3, MindNone
<1>4. ASSUME NEW s \in Slots, FinishBout(s, n, p)
      PROVE  Followed'
  <2>1. /\ UNCHANGED <<rounds, redrawn, record, undone, out, spell, wd>> /\ UNCHANGED unfollowed
        /\ Go(s, a) /\ At(s, "free")
    BY <1>4 DEF FinishBout, entrants, history, a
  <2>2. PICK st : st # "scheduled" /\ bout' = [bout EXCEPT ![n][p] = st]
    BY <1>4 DEF FinishBout
  <2>3. Apart(job[s])
    BY <2>1 DEF At, Apart, FollowSteps
  <2> QED
    BY <1>1, <2>1, <2>2, <2>3, MindWrite
<1>5. ASSUME NEW s \in Slots, CompleteAgain(s, n, p) \/ UndoBout(s, n, p)
      PROVE  Followed'
  <2>1. /\ UNCHANGED <<rounds, redrawn, bout, record, undone, out, spell, wd>> /\ UNCHANGED unfollowed
        /\ Go(s, a) \/ Go(s, u)
    BY <1>5 DEF CompleteAgain, UndoBout, bouts, entrants, history, a, u
  <2>2. At(s, "free")
    BY <1>5 DEF CompleteAgain, UndoBout
  <2>3. Apart(job[s])
    BY <2>2 DEF At, Apart, FollowSteps
  <2>4. Orderly(a) /\ (\A f : ~Early(job[s], f)) /\ \A f, m, q : ~Answers(job[s], f, m, q)
    BY <1>1, <2>3, Elsewhere
  <2> QED
    BY <1>2, <2>1, <2>4, MindStill
<1> QED
  BY <1>3, <1>4, <1>5

\* A round deleted is one that a fighter withdrawn after it may be paired in again.
LEMMA DeleteMinds ==
  ASSUME Inv, Followed, DeleteRound
  PROVE  Followed'
<1>1. /\ last' = last - 1 /\ pairs' = [pairs EXCEPT ![last] = {}]
      /\ bout' = [bout EXCEPT ![last] = [p \in Pair |-> "none"]]
      /\ redrawn' = redrawn \cup {last}
      /\ UNCHANGED <<roundId, record, undone, wd, out, spell, job, unfollowed>>
  BY DEF DeleteRound
<1>2. last \in Nums /\ pairs \in [Nums -> SUBSET Pair]
      /\ bout \in [Nums -> [Pair -> {"none", "scheduled"} \cup Busy]]
  BY SwissConstants DEF DeleteRound, Inv, RoundsOK, BoutsOK, Nums
<1>3. AllOrderly' /\ OutMinded'
  BY <1>1 DEF Followed, AllOrderly, OutMinded, Early
<1>4. DrawnWithout'
  <2> SUFFICES ASSUME NEW f \in Fighters, wd[f] # 0, NEW m \in Nums, last - 1 < m, m < wd[f]
               PROVE  m \in redrawn \cup {last}
    BY <1>1 DEF DrawnWithout
  <2>1. m = last \/ last < m
    BY <1>2, SwissConstants DEF Nums
  <2> QED
    BY <2>1 DEF Followed, DrawnWithout
<1>5. BoutsMinded'
  <2> SUFFICES ASSUME NEW f \in out \ unfollowed, NEW n \in (1..(last - 1)) \ redrawn, NEW p \in pairs'[n],
                      f \in p, bout'[n][p] = "scheduled", ~Excused(f, n, p)'
               PROVE  \E t \in Slots : Answers(job[t], f, n, p)'
    BY <1>1 DEF BoutsMinded
  <2>1. n \in (1..last) \ redrawn /\ n \in Nums /\ n # last
    BY <1>2, SwissConstants DEF Nums
  <2>2. pairs'[n] = pairs[n] /\ bout'[n] = bout[n]
    BY <1>1, <1>2, <2>1
  <2>3. ~Excused(f, n, p)
    <3>1. Ref(n, p, f)' = Ref(n, p, f)
      BY <1>1 DEF Ref
    <3> QED
      BY <1>1, <3>1 DEF Excused, Held, Same, HandedBack
  <2>4. PICK t \in Slots : Answers(job[t], f, n, p)
    BY <2>1, <2>2, <2>3 DEF Followed, BoutsMinded
  <2>5. Answers(job[t], f, n, p)'
    BY <1>1, <2>4 DEF Answers, Early, Same, Ref
  <2> QED
    BY <2>5
<1> QED
  BY <1>3, <1>4, <1>5 DEF Followed

\* A withdrawal is from the round after the last.
LEMMA WithdrawnAfter ==
  ASSUME Inv, Followed, UNCHANGED <<rounds, redrawn>>, NEW f \in Fighters,
         UNCHANGED wd \/ wd' = [wd EXCEPT ![f] = last + 1] \/ wd' = [wd EXCEPT ![f] = 0]
  PROVE  DrawnWithout'
<1>1. last' = last /\ redrawn' = redrawn /\ last \in Nat /\ wd \in [Fighters -> Nat]
  BY SwissConstants DEF rounds, Inv, RoundsOK, EntrantsOK
<1> SUFFICES ASSUME NEW g \in Fighters, wd'[g] # 0, NEW n \in Nums, last < n, n < wd'[g]
             PROVE  n \in redrawn
  BY <1>1 DEF DrawnWithout
<1>2. CASE wd'[g] = wd[g]
  BY <1>1, <1>2 DEF Followed, DrawnWithout
<1>3. CASE wd'[g] = last + 1
  BY <1>1, <1>3, SwissConstants DEF Nums
<1> QED
  BY <1>1, <1>2, <1>3

LEMMA DeskMinds ==
  ASSUME Inv, Followed, Desk
  PROVE  Followed'
<1>1. ASSUME NEW f \in Fighters, Withdraw(f) \/ Reinstate(f)
      PROVE  Followed'
  <2>1. UNCHANGED <<rounds, redrawn, record, undone, out, spell, job>> /\ UNCHANGED unfollowed /\ UNCHANGED bout
    BY <1>1 DEF Withdraw, Reinstate, bouts, history
  <2>2. \/ UNCHANGED wd \/ wd' = [wd EXCEPT ![f] = last + 1]
        \/ (wd' = [wd EXCEPT ![f] = 0] /\ f \notin out)
    BY <1>1 DEF Withdraw, Reinstate, SwissWithdraw, SwissPutBack, MayPutBack, entrants
  <2>3. DrawnWithout'
    BY <2>1, <2>2, WithdrawnAfter
  <2>4. \A g \in out : wd'[g] = 0 => wd[g] = 0
    BY <2>2, SwissConstants DEF Inv, EntrantsOK, OthersOK, RoundsOK
  <2> QED
    BY <2>1, <2>3, <2>4, MindNone
<1>2. ASSUME NEW f \in Fighters, NEW s \in Slots, Settle(s, f)
      PROVE  Followed'
  <2> DEFINE k == Following([Free EXCEPT !.goal = "settle"], f)
  <2>1. /\ Go(s, k) /\ At(s, "free") /\ out' \in {out \cup {f}, out \ {f}}
        /\ unfollowed' = unfollowed \ {f} /\ UNCHANGED roundId
        /\ UNCHANGED <<rounds, redrawn>> /\ UNCHANGED <<bout, record, undone, wd>>
    BY <1>2 DEF Settle, rounds, bouts, entrants
  <2>2. k.step = "follow" /\ k.who = f
    BY DEF Following, Free
  <2>3. Apart(job[s])
    BY <2>1 DEF At, Apart, FollowSteps
  <2> HIDE DEF k
  <2>4. Orderly(k) /\ Early(k, f)
    BY <2>2 DEF Orderly, Early, BackSteps, UndoSteps
  <2>5. DrawnWithout'
    BY <2>1 DEF Followed, DrawnWithout, rounds
  <2>6. \A g : g \in out' \ unfollowed' => g = f \/ g \in out \ unfollowed
    BY <2>1
  <2>7. MindsOut(s, k)
    BY <2>1, <2>3, <2>4, <2>6, Elsewhere DEF MindsOut
  <2>8. \A g \in out' \ {f} : \A n, p : spell'[g] = spell[g] /\ (Excused(g, n, p)' <=> Excused(g, n, p))
    <3> SUFFICES ASSUME NEW g \in out' \ {f}, NEW n, NEW p
                 PROVE  spell'[g] = spell[g] /\ (Excused(g, n, p)' <=> Excused(g, n, p))
      OBVIOUS
    <3>1. spell' = [spell EXCEPT ![f] = @ + 1] \/ spell' = spell
      BY <1>2 DEF Settle
    <3>2. g \in Fighters /\ spell \in [Fighters -> Nat]
      BY <2>1 DEF Inv, OthersOK
    <3>3. spell'[g] = spell[g] /\ Ref(n, p, g)' = Ref(n, p, g)
      BY <2>1, <3>1, <3>2 DEF Ref
    <3>4. HandedBack(Ref(n, p, g), spell[g])' <=> HandedBack(Ref(n, p, g), spell[g])
      BY <2>1, <3>3 DEF HandedBack
    <3>5. Held(g, n, p)' <=> Held(g, n, p)
      BY <2>1 DEF Held, Same
    <3> QED
      BY <3>3, <3>4, <3>5 DEF Excused
  <2>9. \A n, p : Answers(k, f, n, p)
    BY <2>4 DEF Answers
  <2>10. MindsBouts(s, k)
    BY <2>1, <2>3, <2>6, <2>8, <2>9, Elsewhere DEF MindsBouts
  <2> QED
    BY <2>1, <2>2, <2>4, <2>5, <2>7, <2>8, <2>10, MindOn
<1>3. CASE Finalise
  <2>1. /\ UNCHANGED <<rounds, redrawn, record, undone, out, spell, job>> /\ UNCHANGED unfollowed
        /\ UNCHANGED <<wd, bout>>
    BY <1>3 DEF Finalise, bouts, entrants, history
  <2>2. DrawnWithout'
    BY <2>1 DEF Followed, DrawnWithout, rounds
  <2> QED
    BY <2>1, <2>2, MindNone
<1>4. ASSUME NEW s \in Slots, CommitNextRound(s)
      PROVE  Followed'
  <2> DEFINE k == [Free EXCEPT !.step = "entrants", !.goal = "draw"]
  <2>1. /\ Go(s, k) /\ At(s, "free")
        /\ UNCHANGED <<rounds, redrawn, bout, record, undone, out, spell, wd>> /\ UNCHANGED unfollowed
    BY <1>4 DEF CommitNextRound, bouts, entrants, history
  <2>2. k.step = "entrants"
    BY DEF Free
  <2> HIDE DEF k
  <2>3. Apart(job[s]) /\ Apart(k)
    BY <2>1, <2>2 DEF At, Apart, FollowSteps
  <2> QED
    BY <2>1, <2>3, MindElsewhere
<1> QED
  BY <1>1, <1>2, <1>3, <1>4, DeleteMinds DEF Desk

\* The request follows the same fighter, for the same others.
Alike(j, k) ==
  /\ k.who = j.who /\ k.goal = j.goal /\ k.rest = j.rest /\ j.back \subseteq k.back
  /\ k.step \in FollowSteps

\* It still answers to the others it had to follow.
LEMMA StillOthers ==
  ASSUME NEW j, NEW k, Alike(j, k), j.step \notin {"void", "refresh", "mark", "put"}, NEW f, NEW n, NEW p, Answers(j, f, n, p)
  PROVE  Answers(k, f, n, p) \/ j.who = f
BY DEF Alike, Answers, Early

\* A fighter out who is read again is taken out.
LEMMA FollowRoundMinds ==
  ASSUME NEW j \in Jobs, j.who \in Fighters
  PROVE  LET k == FollowRound(j)
         IN  Alike(j, k) /\ Orderly(k) /\ (j.who \in out => Early(k, j.who))
<1> DEFINE k == FollowRound(j)
<1>1. /\ k.who = j.who /\ k.goal = j.goal /\ k.rest = j.rest /\ k.back = j.back
      /\ k.seen = (j.who \in out) /\ k.since = spell[j.who]
      /\ k.step = IF j.who \in out THEN "withdraw" ELSE "records"
  BY DEF FollowRound, Jobs
<1> HIDE DEF k
<1>2. Alike(j, k)
  BY <1>1 DEF Alike, FollowSteps
<1>3. Orderly(k)
  BY <1>1 DEF Orderly, BackSteps, UndoSteps
<1>4. j.who \in out => Early(k, j.who)
  BY <1>1 DEF Early
<1> QED
  BY <1>2, <1>3, <1>4 DEF k

\* A request that fails leaves whom it had to answer to, and says so.
LEMMA FailMinds ==
  ASSUME Inv, Followed, NEW s \in Slots, Fail(s), job[s].step \notin {"refresh", "mark", "put"},
         job[s].step = "void" => \E r \in job[s].at : ~Stands(r),
         UNCHANGED <<rounds, bout, record, undone, out, spell, wd>>
  PROVE  Followed'
<1>1. /\ Go(s, Free) /\ UNCHANGED redrawn
      /\ unfollowed' = unfollowed \cup {job[s].who} \cup job[s].rest
                         \cup UNION {r.pair : r \in job[s].back}
  BY DEF Fail
<1>2. Orderly(Free)
  BY FreeSound, Elsewhere DEF Apart, FollowSteps
<1>3. ASSUME NEW f \in out \ unfollowed'
      PROVE  ~Early(job[s], f)
  BY <1>1 DEF Early
<1>4. ASSUME NEW f \in out \ unfollowed', NEW n \in 1..last, NEW p, f \in p
      PROVE  ~Answers(job[s], f, n, p)
  <2>1. job[s].who # f /\ f \notin job[s].rest /\ \A r \in job[s].back : f \notin r.pair
    BY <1>1
  <2>2. \A r \in job[s].back : ~Same(r, n, p)
    BY <1>4, <2>1 DEF Same
  <2>3. job[s].step = "void" => \A r \in job[s].at : ~Same(r, n, p)
    <3> SUFFICES ASSUME job[s].step = "void", NEW r \in job[s].at, Same(r, n, p)
                 PROVE  FALSE
      OBVIOUS
    <3>1. ~Stands(r)
      BY DEF Followed, AllOrderly, Orderly
    <3>2. Of(r).no = r.no /\ Of(r).id = r.id
      BY DEF Of
    <3> QED
      BY <3>1, <3>2 DEF Same, Stands
  <2> QED
    BY <2>1, <2>2, <2>3 DEF Answers, Early
<1> QED
  BY <1>1, <1>2, <1>3, <1>4, MindStill

\* The reads of the status.
LEMMA StatusMinds ==
  ASSUME Inv, Followed, NEW s \in Slots,
         ReadFighter(s) \/ StatusHeld(s) \/ StatusMoved(s) \/ TookOut(s)
  PROVE  Followed'
<1> DEFINE j == job[s]
<1>1. j \in Jobs /\ j.who \in Fighters
  <2>1. j \in SoundJobs
    BY DEF Inv, JobsOK
  <2>2. j.step \in FollowSteps
    BY DEF FollowSteps, At, ReadFighter, StatusHeld, StatusMoved, TookOut
  <2> QED
    BY <2>1, <2>2 DEF SoundJobs, Sound
<1>2. UNCHANGED <<rounds, bout, record, undone, out, spell, wd>>
  BY DEF ReadFighter, StatusHeld, StatusMoved, TookOut, bouts, entrants
<1>3. CASE ReadFighter(s)
  <2> DEFINE k == FollowRound(j)
  <2>1. Go(s, k) /\ UNCHANGED <<redrawn, unfollowed>> /\ j.step = "follow"
    BY <1>3 DEF ReadFighter, history, At
  <2>2. Alike(j, k) /\ Orderly(k) /\ (j.who \in out => Early(k, j.who))
    BY <1>1, FollowRoundMinds
  <2> HIDE DEF k
  <2>3. \A f \in out : Early(j, f) => Early(k, f)
    BY <2>2 DEF Early
  <2>4. ASSUME NEW f \in out, NEW n, NEW p, Answers(j, f, n, p)
        PROVE  Answers(k, f, n, p)
    <3>1. CASE j.who # f
      BY <2>1, <2>2, <2>4, <3>1, StillOthers
    <3>2. CASE j.who = f
      BY <2>2, <3>2 DEF Answers
    <3> QED
      BY <3>1, <3>2
  <2> QED
    BY <1>2, <2>1, <2>2, <2>3, <2>4, MindStill
<1>4. CASE StatusHeld(s)
  <2> DEFINE k == On(j, "others")
  <2>1. Go(s, k) /\ UNCHANGED <<redrawn, unfollowed>> /\ j.step = "recheck"
        /\ (j.who \in out) = j.seen
    BY <1>4 DEF StatusHeld, history, At
  <2>2. k.step = "others" /\ k.who = j.who /\ k.goal = j.goal /\ k.rest = j.rest /\ k.back = j.back
    BY <1>1 DEF On, Jobs
  <2> HIDE DEF k
  <2>3. Alike(j, k) /\ Orderly(k)
    BY <2>2 DEF Alike, Orderly, FollowSteps, BackSteps, UndoSteps
  <2>4. \A f \in out : ~Early(j, f)
    BY <2>1 DEF Early
  <2>5. ASSUME NEW f \in out, NEW n, NEW p, Answers(j, f, n, p)
        PROVE  Answers(k, f, n, p)
    <3>1. j.step \notin {"void", "refresh", "mark", "put"} /\ Alike(j, k)
      BY <2>1, <2>3
    <3>2. CASE j.who # f
      BY <2>5, <3>1, <3>2, StillOthers
    <3>3. CASE j.who = f
      BY <2>1, <2>2, <2>3, <2>4, <2>5, <3>3 DEF Answers, Alike
    <3> QED
      BY <3>2, <3>3
  <2> QED
    BY <1>2, <2>1, <2>3, <2>4, <2>5, MindStill
<1>5. CASE StatusMoved(s)
  <2>1. j.step = "recheck"
    BY <1>5 DEF StatusMoved, At
  <2>2. CASE Fail(s)
    BY <1>2, <2>1, <2>2, FailMinds
  <2>3. CASE ~Fail(s)
    <3> DEFINE i == [j EXCEPT !.loops = @ + 1]
               k == FollowRound(i)
    <3>1. Go(s, k) /\ UNCHANGED <<redrawn, unfollowed>>
      BY <1>5, <2>3 DEF StatusMoved, history
    <3>2. /\ i \in Jobs /\ i.who = j.who /\ i.goal = j.goal /\ i.rest = j.rest
          /\ i.back = j.back
      <4>1. j.loops + 1 \in Nat
        BY <1>1 DEF Jobs
      <4> QED
        BY <1>1, <4>1 DEF Jobs
    <3> HIDE DEF i
    <3>3. Alike(i, k) /\ Orderly(k) /\ (i.who \in out => Early(k, i.who))
      BY <1>1, <3>2, FollowRoundMinds
    <3> HIDE DEF k
    <3>4. Alike(j, k) /\ Orderly(k) /\ (j.who \in out => Early(k, j.who))
      BY <3>2, <3>3 DEF Alike
    <3>5. \A f \in out : Early(j, f) => Early(k, f)
      BY <3>4 DEF Early
    <3>6. ASSUME NEW f \in out, NEW n, NEW p, Answers(j, f, n, p)
          PROVE  Answers(k, f, n, p)
      <4>1. j.step \notin {"void", "refresh", "mark", "put"} /\ Alike(j, k)
        BY <2>1, <3>4
      <4>2. CASE j.who # f
        BY <3>6, <4>1, <4>2, StillOthers
      <4>3. CASE j.who = f
        BY <3>4, <4>3 DEF Answers
      <4> QED
        BY <4>2, <4>3
    <3> QED
      BY <1>2, <3>1, <3>4, <3>5, <3>6, MindStill
  <2> QED
    BY <2>2, <2>3
<1>6. CASE TookOut(s)
  <2> DEFINE k == On(j, "recheck")
  <2>1. Go(s, k) /\ UNCHANGED <<redrawn, unfollowed>> /\ j.step = "forfeit" /\ j.todo = {}
    BY <1>6 DEF TookOut, history, At
  <2>2. k.step = "recheck" /\ k.who = j.who /\ k.goal = j.goal /\ k.rest = j.rest /\ k.back = j.back
    BY <1>1 DEF On, Jobs
  <2> HIDE DEF k
  <2>3. Alike(j, k) /\ Orderly(k)
    BY <2>2 DEF Alike, Orderly, FollowSteps, BackSteps, UndoSteps
  <2>4. \A f : ~Early(j, f)
    BY <2>1 DEF Early, BackSteps
  <2>5. ASSUME NEW f, NEW n, NEW p, Answers(j, f, n, p)
        PROVE  Answers(k, f, n, p)
    <3>1. j.step \notin {"void", "refresh", "mark", "put"} /\ Alike(j, k)
      BY <2>1, <2>3
    <3>2. CASE j.who # f
      BY <2>5, <3>1, <3>2, StillOthers
    <3>3. CASE j.who = f
      BY <2>1, <2>2, <2>3, <2>4, <2>5, <3>3 DEF Answers, Alike
    <3> QED
      BY <3>2, <3>3
  <2> QED
    BY <1>2, <2>1, <2>3, <2>4, <2>5, MindStill
<1> QED
  BY <1>3, <1>4, <1>5, <1>6

\* The request's fighter leaves the pairings, then his bouts are read.
LEMMA OutMinds ==
  ASSUME Inv, Followed, NEW s \in Slots, SwissOut(s) \/ ReadBouts(s)
  PROVE  Followed'
<1> DEFINE j == job[s]
<1>1. j \in Jobs /\ j.who \in Fighters
  <2>1. j \in SoundJobs
    BY DEF Inv, JobsOK
  <2>2. j.step \in FollowSteps
    BY DEF FollowSteps, At, SwissOut, ReadBouts
  <2> QED
    BY <2>1, <2>2 DEF SoundJobs, Sound
<1>2. /\ UNCHANGED <<rounds, redrawn>> /\ UNCHANGED <<bout, record, undone, out, spell>>
      /\ unfollowed' = IF Over THEN unfollowed \cup {j.who} ELSE unfollowed
  BY DEF SwissOut, ReadBouts, bouts
<1>3. CASE SwissOut(s)
  <2> DEFINE k == On(j, "bouts")
  <2>1. Go(s, k) /\ j.step = "withdraw" /\ SwissWithdraw(j.who, "status")
    BY <1>3 DEF SwissOut, At
  <2>2. /\ k.step = "bouts" /\ k.who = j.who /\ k.goal = j.goal /\ k.rest = j.rest
        /\ k.back = j.back /\ k.since = j.since
    BY <1>1 DEF On, Jobs
  <2> HIDE DEF k
  <2>3. Alike(j, k) /\ Orderly(k)
    BY <2>2 DEF Alike, Orderly, FollowSteps, BackSteps, UndoSteps
  <2>4. wd' = IF wd[j.who] # 0 \/ Over THEN wd ELSE [wd EXCEPT ![j.who] = last + 1]
    BY <2>1 DEF SwissWithdraw, entrants
  <2>5. DrawnWithout'
    BY <1>1, <1>2, <2>4, WithdrawnAfter
  <2>6. MindsOut(s, k)
    <3> SUFFICES ASSUME NEW f \in out \ unfollowed', wd'[f] = 0
                 PROVE  f \in out \ unfollowed /\ wd[f] = 0 /\ ~Early(j, f)
      BY <1>2 DEF MindsOut
    <3>1. f # j.who
      BY <1>1, <1>2, <2>4, SwissConstants DEF Inv, EntrantsOK, RoundsOK
    <3> QED
      BY <1>1, <1>2, <2>4, <3>1 DEF Inv, EntrantsOK, Early
  <2>7. ASSUME NEW f, NEW n, NEW p, Answers(j, f, n, p)
        PROVE  Answers(k, f, n, p)
    <3>1. CASE f # j.who
      BY <2>1, <2>3, <2>7, <3>1, StillOthers
    <3>2. CASE f = j.who
      BY <2>1, <2>2, <2>3, <2>7, <3>2 DEF Answers, Early, BackSteps, Alike
    <3> QED
      BY <3>1, <3>2
  <2>8. \A f, n, p : Excused(f, n, p)' <=> Excused(f, n, p)
    BY <1>2, ExcusedStill
  <2>9. MindsBouts(s, k)
    BY <1>2, <2>7, <2>8 DEF MindsBouts
  <2> QED
    BY <1>2, <2>1, <2>3, <2>5, <2>6, <2>9, MindOn
<1>4. CASE ReadBouts(s)
  <2> DEFINE todo == BoutsToTakeOut(j)
             k == [j EXCEPT !.step = "forfeit", !.todo = todo]
  <2>1. Go(s, k) /\ j.step = "bouts" /\ UNCHANGED wd
    BY <1>4 DEF ReadBouts, At, entrants
  <2>2. /\ k.step = "forfeit" /\ k.who = j.who /\ k.goal = j.goal /\ k.rest = j.rest
        /\ k.back = j.back /\ k.todo = todo
    BY <1>1 DEF Jobs
  <2>3. \A r \in todo : r.who = j.who
    BY DEF BoutsToTakeOut, Unfought, Ref
  <2>4. ASSUME NEW n \in (1..last) \ redrawn, NEW p \in pairs[n], j.who \in p,
               bout[n][p] = "scheduled", ~Over,
               ~HandedBack(Ref(n, p, j.who), j.since)
        PROVE  Ref(n, p, j.who) \in todo
    <3>1. p \in Pair
      BY SwissConstants DEF Inv, RoundsOK, Nums
    <3>2. <<n, p>> \in (1..last) \X Pair
      BY <3>1
    <3> QED
      BY <2>4, <3>2 DEF BoutsToTakeOut, Unfought
  <2> HIDE DEF k, todo
  <2>5. Alike(j, k) /\ Orderly(k)
    BY <2>2, <2>3 DEF Alike, Orderly, FollowSteps, BackSteps, UndoSteps
  <2>6. \A f : ~Early(j, f)
    BY <2>1 DEF Early, BackSteps
  <2>7. ASSUME NEW f \in out \ unfollowed', NEW n \in (1..last) \ redrawn, NEW p \in pairs[n],
               f \in p, bout[n][p] = "scheduled", ~Excused(f, n, p), Answers(j, f, n, p)
        PROVE  Answers(k, f, n, p)
    <3>1. CASE f = j.who
      <4>1. ~Over
        BY <1>2, <3>1
      <4>2. CASE j.since = spell[f]
        <5>1. ~HandedBack(Ref(n, p, j.who), j.since)
          BY <2>7, <3>1, <4>2 DEF Excused
        <5>2. Ref(n, p, f) \in todo
          BY <2>4, <2>7, <3>1, <4>1, <5>1
        <5> QED
          BY <2>2, <3>1, <5>2 DEF Answers
      <4>3. CASE j.since # spell[f]
        BY <2>1, <2>5, <2>6, <2>7, <3>1, <4>3 DEF Answers, Alike
      <4> QED
        BY <4>2, <4>3
    <3>2. CASE f # j.who
      <4>1. j.step \notin {"void", "refresh", "mark", "put"}
        BY <2>1
      <4> QED
        BY <2>5, <2>7, <3>2, <4>1, StillOthers
    <3> QED
      BY <3>1, <3>2
  <2>8. unfollowed \subseteq unfollowed'
    BY <1>2
  <2> QED
    BY <1>2, <2>1, <2>5, <2>6, <2>7, <2>8, MindStill
<1> QED
  BY <1>3, <1>4

\* A step that keeps the bouts, the entrants and the history, and no record goes:
\* what the request answered for is answered for, or held.
LEMMA RecordMinds ==
  ASSUME Inv, Followed, NEW s \in Slots, NEW k, Go(s, k), Orderly(k),
         UNCHANGED <<rounds, redrawn, bout, undone, out, spell, wd>>, UNCHANGED unfollowed,
         record \subseteq record',
         \A f : ~Early(job[s], f),
         \A f \in out \ unfollowed : \A n \in (1..last) \ redrawn : \A p \in pairs[n] :
           Answers(job[s], f, n, p) => Answers(k, f, n, p) \/ Excused(f, n, p)'
  PROVE  Followed'
<1>1. DrawnWithout'
  BY DEF rounds, Followed, DrawnWithout
<1>2. MindsOut(s, k)
  BY DEF MindsOut
<1>3. \A f, n, p : Excused(f, n, p) => Excused(f, n, p)'
  <2>1. UNCHANGED <<roundId, undone, spell>>
    BY DEF rounds
  <2>2. \A f, n, p : Held(f, n, p) => Held(f, n, p)'
    BY <2>1 DEF Held, Same
  <2>3. \A f, n, p : HandedBack(Ref(n, p, f), spell[f]) => HandedBack(Ref(n, p, f), spell[f])'
    BY <2>1 DEF HandedBack, SameBout, Ref, Of
  <2> QED
    BY <2>2, <2>3 DEF Excused
<1>4. MindsBouts(s, k)
  BY <1>3 DEF MindsBouts
<1> QED
  BY <1>1, <1>2, <1>4, MindOn

LEMMA ForfeitMinds ==
  ASSUME Inv, Followed, NEW s \in Slots, RecordForfeit(s)
  PROVE  Followed'
<1> DEFINE j == job[s]
<1>1. j \in Jobs /\ j.step = "forfeit" /\ Orderly(j)
  BY DEF Inv, JobsOK, SoundJobs, RecordForfeit, At, Followed, AllOrderly
<1>2. UNCHANGED <<rounds, bout, undone, out, spell, wd>>
  BY DEF RecordForfeit, entrants
<1>3. PICK r \in j.todo :
        LET i == [j EXCEPT !.todo = @ \ {r}] IN
        \/ /\ record' = record \cup {[r EXCEPT !.rec = filed + 1]}
           /\ Go(s, [i EXCEPT !.step = "lose", !.at = {r}])
           /\ UNCHANGED history
        \/ /\ Holder(r) # {}
           /\ Go(s, IF \E q \in Holder(r) : q.who = r.who
                    THEN [i EXCEPT !.step = "lose", !.at = {r}] ELSE i)
           /\ UNCHANGED <<record, filed, history>>
        \/ /\ Fail(s)
           /\ UNCHANGED <<record, filed>>
  BY DEF RecordForfeit
<1> DEFINE i == [j EXCEPT !.todo = @ \ {r}]
           k == [i EXCEPT !.step = "lose", !.at = {r}]
<1>4. /\ i.step = "forfeit" /\ i.who = j.who /\ i.goal = j.goal /\ i.rest = j.rest
      /\ i.back = j.back /\ i.todo = j.todo \ {r}
  BY <1>1 DEF Jobs
<1>5. /\ k.step = "lose" /\ k.who = j.who /\ k.goal = j.goal /\ k.rest = j.rest
      /\ k.back = j.back /\ k.todo = j.todo \ {r} /\ k.at = {r}
  BY <1>1 DEF Jobs
<1>6. r \in Refs /\ r.who = j.who /\ \A q \in j.todo : q.who = j.who
  BY <1>1 DEF Jobs, Forfeits, Orderly
<1>7. CASE Fail(s) /\ UNCHANGED <<record, filed>>
  BY <1>1, <1>2, <1>7, FailMinds
<1>8. SUFFICES ASSUME ~(Fail(s) /\ UNCHANGED <<record, filed>>)
               PROVE  Followed'
  BY <1>7
<1>9. /\ record \subseteq record' /\ UNCHANGED <<redrawn, unfollowed>>
      /\ \/ Go(s, k)
         \/ Go(s, i) /\ Holder(r) # {} /\ (\A q \in Holder(r) : q.who # r.who) /\ record' = record
  BY <1>3, <1>8 DEF history
<1> HIDE DEF i, k
<1>10. Orderly(i) /\ Orderly(k) /\ Alike(j, i) /\ Alike(j, k)
  BY <1>4, <1>5, <1>6 DEF Orderly, Alike, FollowSteps, BackSteps, UndoSteps
<1>11. \A f : ~Early(j, f)
  BY <1>1 DEF Early, BackSteps
<1>12. CASE Go(s, k)
  <2>1. ASSUME NEW f, NEW n, NEW p, Answers(j, f, n, p)
        PROVE  Answers(k, f, n, p)
    <3>1. CASE f # j.who
      BY <1>1, <1>10, <2>1, <3>1, StillOthers
    <3>2. CASE f = j.who
      BY <1>1, <1>5, <1>10, <1>11, <2>1, <3>2 DEF Answers, Alike
    <3> QED
      BY <3>1, <3>2
  <2> QED
    BY <1>2, <1>9, <1>10, <1>11, <1>12, <2>1, RecordMinds
<1>13. CASE Go(s, i) /\ Holder(r) # {} /\ (\A q \in Holder(r) : q.who # r.who) /\ record' = record
  <2>1. ASSUME NEW f, NEW n, NEW p, Answers(j, f, n, p)
        PROVE  Answers(i, f, n, p) \/ Excused(f, n, p)'
    <3>1. CASE f # j.who
      BY <1>1, <1>10, <2>1, <3>1, StillOthers
    <3>2. CASE f = j.who /\ Ref(n, p, f) # r
      BY <1>1, <1>4, <1>10, <1>11, <2>1, <3>2 DEF Answers, Alike
    <3>3. CASE f = j.who /\ Ref(n, p, f) = r
      <4>1. PICK q \in record : Of(q) = Of(r) /\ q.pair = r.pair /\ q.who # r.who
        BY <1>13 DEF Holder, SameBout
      <4>2. Of(r) = [no |-> n, id |-> roundId[n]] /\ r.pair = p /\ r.who = f
        BY <3>3 DEF Ref, Of
      <4>3. roundId' = roundId /\ record' = record
        BY <1>2, <1>13 DEF rounds
      <4> QED
        BY <4>1, <4>2, <4>3 DEF Held, Same, Excused
    <3> QED
      BY <3>1, <3>2, <3>3
  <2> QED
    BY <1>2, <1>9, <1>10, <1>11, <1>13, <2>1, RecordMinds
<1> QED
  BY <1>9, <1>12, <1>13

LEMMA LoseMinds ==
  ASSUME Inv, Followed, NEW s \in Slots, LoseBout(s)
  PROVE  Followed'
<1> DEFINE j == job[s]
<1>1. j \in Jobs /\ j.step = "lose" /\ Orderly(j)
  BY DEF Inv, JobsOK, SoundJobs, LoseBout, At, Followed, AllOrderly
<1>2. PICK r \in Refs : j.at = {r}
  BY <1>1 DEF Orderly
<1> DEFINE k == [j EXCEPT !.step = "forfeit", !.at = {}, !.units = @ \cup {Of(r)}]
<1>3. /\ bout' = IF Stands(r) THEN [bout EXCEPT ![r.no][r.pair] = "lost"] ELSE bout
      /\ Go(s, k) /\ UNCHANGED <<rounds, redrawn>> /\ UNCHANGED <<record, undone, out, spell, wd, unfollowed>>
  BY <1>2 DEF LoseBout, entrants, history
<1>4. /\ k.step = "forfeit" /\ k.who = j.who /\ k.goal = j.goal /\ k.rest = j.rest
      /\ k.back = j.back /\ k.todo = j.todo
  BY <1>1 DEF Jobs
<1> HIDE DEF k
<1>5. Orderly(k) /\ Alike(j, k) /\ \A f : ~Early(j, f)
  BY <1>1, <1>4 DEF Orderly, Alike, Early, FollowSteps, BackSteps, UndoSteps
<1>6. DrawnWithout'
  BY <1>3 DEF rounds, Followed, DrawnWithout
<1>7. MindsOut(s, k)
  BY <1>3, <1>5 DEF MindsOut
<1>8. \A f, n, p : Excused(f, n, p)' <=> Excused(f, n, p)
  BY <1>3, ExcusedStill
<1>9. ASSUME NEW f \in out \ unfollowed, NEW n \in (1..last) \ redrawn, NEW p \in pairs[n],
             bout'[n][p] = "scheduled"
      PROVE  bout[n][p] = "scheduled" /\ (Answers(j, f, n, p) => Answers(k, f, n, p))
  <2>1. n \in Nums /\ p \in Pair
    BY SwissConstants DEF Inv, RoundsOK, Nums
  <2>2. bout \in [Nums -> [Pair -> {"none", "scheduled"} \cup Busy]]
    BY DEF Inv, BoutsOK
  <2>3. bout[n][p] = "scheduled"
    BY <1>2, <1>3, <1>9, <2>1, <2>2 DEF Refs
  <2>4. Ref(n, p, f) # r
    <3> SUFFICES ASSUME Ref(n, p, f) = r
                 PROVE  FALSE
      OBVIOUS
    <3>1. r.no = n /\ r.id = roundId[n] /\ r.pair = p
      BY DEF Ref
    <3>2. Stands(r)
      BY <3>1 DEF Stands
    <3> QED
      BY <1>3, <1>9, <2>1, <2>2, <3>1, <3>2
  <2>5. CASE f # j.who
    BY <1>1, <1>5, <2>3, <2>5, StillOthers
  <2>6. CASE f = j.who
    <3>1. Answers(j, f, n, p) => Answers(k, f, n, p)
      BY <1>1, <1>2, <1>4, <1>5, <2>4, <2>6 DEF Answers, Alike
    <3> QED
      BY <2>3, <3>1
  <2> QED
    BY <2>5, <2>6
<1>10. MindsBouts(s, k)
  BY <1>3, <1>8, <1>9 DEF MindsBouts
<1> QED
  BY <1>3, <1>5, <1>6, <1>7, <1>10, MindOn

\* The steps that bring a fighter back, but for the bouts and their records.
LEMMA BackMinds ==
  ASSUME Inv, Followed, NEW s \in Slots, ReadRecords(s) \/ ReadEntries(s) \/ SwissBackIn(s)
  PROVE  Followed'
<1> DEFINE j == job[s]
<1>1. j \in Jobs /\ j.who \in Fighters /\ Orderly(j) /\ j.step \in {"records", "entries", "putBack"}
  <2>1. j \in SoundJobs /\ Orderly(j)
    BY DEF Inv, JobsOK, Followed, AllOrderly
  <2>2. j.step \in {"records", "entries", "putBack"}
    BY DEF At, ReadRecords, ReadEntries, SwissBackIn
  <2> QED
    BY <2>1, <2>2 DEF SoundJobs, Sound, FollowSteps
<1>2. ~j.seen
  BY <1>1 DEF Orderly, BackSteps, UndoSteps
<1>3. UNCHANGED <<rounds, redrawn>> /\ UNCHANGED <<bout, record, undone, out, spell>> /\ unfollowed \subseteq unfollowed'
  BY DEF ReadRecords, ReadEntries, SwissBackIn, bouts, history
<1>4. PICK k : /\ Go(s, k) /\ k.who = j.who /\ k.goal = j.goal /\ k.rest = j.rest /\ k.back = j.back
               /\ k.seen = j.seen /\ k.step \in {"restore", "entries", "putBack", "recheck"}
               /\ k.step = "restore" => \A r \in k.todo : r.who = j.who
  <2>1. CASE ReadRecords(s)
    <3> DEFINE mine == IF Over THEN {} ELSE {r \in record : r.who = j.who}
               to == IF mine = {} THEN "entries" ELSE "restore"
               k == [j EXCEPT !.step = to, !.todo = mine]
    <3>1. Go(s, k)
      BY <2>1 DEF ReadRecords
    <3>2. to \in {"entries", "restore"} /\ \A r \in mine : r.who = j.who
      OBVIOUS
    <3> HIDE DEF mine, to
    <3>3. /\ k.step = to /\ k.who = j.who /\ k.goal = j.goal /\ k.rest = j.rest
          /\ k.back = j.back /\ k.seen = j.seen /\ k.todo = mine
      BY <1>1 DEF Jobs
    <3> HIDE DEF k
    <3> QED
      BY <3>1, <3>2, <3>3
  <2>2. CASE ReadEntries(s) \/ SwissBackIn(s)
    <3>1. PICK st \in {"putBack", "recheck"} : Go(s, On(j, st))
      BY <2>2 DEF ReadEntries, SwissBackIn
    <3> DEFINE k == On(j, st)
    <3>2. /\ k.step = st /\ k.who = j.who /\ k.goal = j.goal /\ k.rest = j.rest
          /\ k.back = j.back /\ k.seen = j.seen /\ Go(s, k)
      BY <1>1, <3>1 DEF Jobs, On
    <3> HIDE DEF k
    <3> QED
      BY <3>1, <3>2
  <2> QED
    BY <2>1, <2>2
<1>5. Alike(j, k) /\ Orderly(k) /\ Early(k, j.who)
  BY <1>2, <1>4 DEF Alike, Orderly, Early, FollowSteps, BackSteps, UndoSteps
<1>6. ASSUME NEW f, NEW n, NEW p, Answers(j, f, n, p)
      PROVE  Answers(k, f, n, p)
  <2>1. CASE f # j.who
    BY <1>1, <1>5, <1>6, <2>1, StillOthers
  <2>2. CASE f = j.who
    BY <1>5, <2>2 DEF Answers
  <2> QED
    BY <2>1, <2>2
<1>7. \/ UNCHANGED wd
      \/ wd' = [wd EXCEPT ![j.who] = 0] /\ j.who \notin out
  BY DEF ReadRecords, ReadEntries, SwissBackIn, SwissPutBack, MayPutBack, entrants
<1>8. DrawnWithout'
  BY <1>1, <1>3, <1>7, WithdrawnAfter
<1>9. MindsOut(s, k)
  <2> SUFFICES ASSUME NEW f \in out \ unfollowed', wd'[f] = 0, ~Early(k, f)
               PROVE  f \in out \ unfollowed /\ wd[f] = 0 /\ ~Early(j, f)
    BY <1>3 DEF MindsOut
  <2>1. f # j.who
    BY <1>5
  <2> QED
    BY <1>3, <1>7, <2>1 DEF Inv, EntrantsOK, OthersOK, Early
<1>10. \A f, n, p : Excused(f, n, p)' <=> Excused(f, n, p)
  BY <1>3, ExcusedStill
<1>11. MindsBouts(s, k)
  BY <1>3, <1>6, <1>10 DEF MindsBouts
<1> QED
  BY <1>3, <1>4, <1>5, <1>8, <1>9, <1>11, MindOn

\* A bout put back waits again: for its own fighter the status is read again, and
\* the other one is to be followed, or left to his own settle once the record goes.
LEMMA RestoreMinds ==
  ASSUME Inv, Followed, NEW s \in Slots, RestoreBout(s)
  PROVE  Followed'
<1> DEFINE j == job[s]
<1>1. j \in Jobs /\ Orderly(j) /\ j.step = "restore"
  BY DEF Inv, JobsOK, SoundJobs, RestoreBout, At, Followed, AllOrderly
<1>2. PICK r \in j.todo, diverged \in BOOLEAN :
        LET leave == Stands(r) /\ (bout[r.no][r.pair] = "running" \/ diverged) IN
        /\ bout' = IF Stands(r) /\ ~leave THEN [bout EXCEPT ![r.no][r.pair] = "scheduled"] ELSE bout
        /\ Go(s, [j EXCEPT !.step = "void", !.at = {r}, !.todo = @ \ {r},
                           !.back = IF leave THEN @ ELSE @ \cup {r}])
  BY DEF RestoreBout
<1> DEFINE leave == Stands(r) /\ (bout[r.no][r.pair] = "running" \/ diverged)
           back == IF leave THEN j.back ELSE j.back \cup {r}
           k == [j EXCEPT !.step = "void", !.at = {r}, !.todo = j.todo \ {r}, !.back = back]
<1>3. /\ k.step = "void" /\ k.who = j.who /\ k.goal = j.goal /\ k.rest = j.rest
      /\ k.back = back /\ k.seen = j.seen /\ k.at = {r} /\ k.todo = j.todo \ {r}
  BY <1>1 DEF Jobs
<1>4. Go(s, k)
  BY <1>1, <1>2 DEF Jobs
<1>5. UNCHANGED <<rounds, redrawn>> /\ UNCHANGED <<record, undone, out, spell, wd, unfollowed>>
  BY DEF RestoreBout, entrants, history
<1>6. r \in Refs /\ r.who = j.who /\ ~j.seen
  BY <1>1 DEF Jobs, Forfeits, Orderly, BackSteps
<1>7. j.back \subseteq back /\ (leave \/ r \in back)
  OBVIOUS
<1>8. bout' = IF Stands(r) /\ ~leave THEN [bout EXCEPT ![r.no][r.pair] = "scheduled"] ELSE bout
  BY <1>2
<1> HIDE DEF back, k, leave
<1>9. Alike(j, k) /\ Orderly(k) /\ Early(k, j.who)
  BY <1>1, <1>3, <1>6, <1>7 DEF Alike, Orderly, Early, FollowSteps, BackSteps, UndoSteps
<1>10. DrawnWithout'
  BY <1>5 DEF rounds, Followed, DrawnWithout
<1>11. \A f : Early(j, f) => Early(k, f)
  BY <1>9 DEF Early
<1>12. MindsOut(s, k)
  BY <1>5, <1>11 DEF MindsOut
<1>13. \A f, n, p : Excused(f, n, p)' <=> Excused(f, n, p)
  BY <1>5, ExcusedStill
<1>14. ASSUME NEW f, NEW n, NEW p, Answers(j, f, n, p)
       PROVE  Answers(k, f, n, p)
  <2>1. CASE f # j.who
    BY <1>1, <1>9, <1>14, <2>1, StillOthers
  <2>2. CASE f = j.who
    BY <1>9, <2>2 DEF Answers
  <2> QED
    BY <2>1, <2>2
<1>15. ASSUME NEW f, NEW n \in (1..last) \ redrawn, NEW p \in pairs[n],
              bout'[n][p] = "scheduled", bout[n][p] # "scheduled"
       PROVE  Answers(k, f, n, p)
  <2>1. n \in Nums /\ p \in Pair
    BY SwissConstants DEF Inv, RoundsOK, Nums
  <2>2. bout \in [Nums -> [Pair -> {"none", "scheduled"} \cup Busy]]
    BY DEF Inv, BoutsOK
  <2>3. Stands(r) /\ ~leave /\ r.no = n /\ r.pair = p
    BY <1>6, <1>8, <1>15, <2>1, <2>2 DEF Refs
  <2>4. Same(r, n, p)
    BY <2>3 DEF Stands, Same, Of
  <2>5. r \in k.back /\ r \in k.at
    BY <1>3, <1>7, <2>3
  <2>6. CASE f = j.who
    BY <1>9, <2>6 DEF Answers
  <2>7. CASE f # j.who
    BY <1>3, <1>9, <2>4, <2>5, <2>7 DEF Answers, Alike
  <2> QED
    BY <2>6, <2>7
<1>16. MindsBouts(s, k)
  BY <1>5, <1>13, <1>14, <1>15 DEF MindsBouts
<1> QED
  BY <1>4, <1>5, <1>9, <1>10, <1>12, <1>16, MindOn

\* A record goes: a bout it held either is to be followed, or its other fighter is
\* left to his own settle.
LEMMA VoidMinds ==
  ASSUME Inv, Followed, NEW s \in Slots, VoidRecord(s)
  PROVE  Followed'
<1> DEFINE j == job[s]
           st == IF j.todo = {} THEN "entries" ELSE "restore"
           k == [j EXCEPT !.at = {}, !.step = st]
<1>1. j \in Jobs /\ Orderly(j) /\ j.step = "void"
  BY DEF Inv, JobsOK, SoundJobs, VoidRecord, At, Followed, AllOrderly
<1>2. PICK r \in Refs : j.at = {r} /\ r.who = j.who
  BY <1>1 DEF Orderly
<1>3. UNCHANGED <<rounds, bout, out, spell, wd>>
  BY DEF VoidRecord, entrants
<1>4. CASE ~Stands(r)
  <2>1. Fail(s) /\ UNCHANGED <<record, undone>>
    BY <1>2, <1>4 DEF VoidRecord
  <2> QED
    BY <1>1, <1>2, <1>3, <1>4, <2>1, FailMinds
<1>5. SUFFICES ASSUME Stands(r)
                PROVE  Followed'
  BY <1>4
<1>6. /\ Go(s, k) /\ record' = record \ {r} /\ unfollowed' = unfollowed \cup Theirs(j)
      /\ undone' = {v \in undone : v.ref # r}
      /\ UNCHANGED <<rounds, redrawn>> /\ UNCHANGED <<roundId, bout, out, spell, wd>>
  BY <1>2, <1>3, <1>5 DEF VoidRecord, rounds
<1>7. /\ k.step = st /\ k.who = j.who /\ k.goal = j.goal /\ k.rest = j.rest
      /\ k.back = j.back /\ k.seen = j.seen /\ k.todo = j.todo
  BY <1>1 DEF Jobs
<1>8. st \in {"entries", "restore"}
  OBVIOUS
<1> HIDE DEF k, st
<1>9. Alike(j, k) /\ Orderly(k) /\ Early(k, j.who)
  BY <1>1, <1>7, <1>8 DEF Alike, Orderly, Early, FollowSteps, BackSteps, UndoSteps
<1>10. DrawnWithout'
  BY <1>6 DEF rounds, Followed, DrawnWithout
<1>11. \A f : Early(j, f) => Early(k, f)
  BY <1>9 DEF Early
<1>12. MindsOut(s, k)
  BY <1>6, <1>11 DEF MindsOut
<1>13. MindsBouts(s, k)
  <2> SUFFICES ASSUME NEW f \in out \ unfollowed', NEW n \in (1..last) \ redrawn, NEW p \in pairs[n],
                      f \in p, bout[n][p] = "scheduled", ~Excused(f, n, p)', ~Answers(k, f, n, p)
               PROVE  ~Excused(f, n, p) /\ ~Answers(j, f, n, p)
    BY <1>6 DEF MindsBouts
  <2>1. f # j.who
    BY <1>9 DEF Answers
  <2>2. f \in Fighters
    BY DEF Inv, OthersOK
  <2>3. ~Same(r, n, p)
    <3> SUFFICES ASSUME Same(r, n, p)
                 PROVE  FALSE
      OBVIOUS
    <3>1. r.no = n /\ r.id = roundId[n] /\ r.pair = p
      BY DEF Same, Of
    <3>2. Stands(r)
      BY <3>1 DEF Stands
    <3>3. f \notin Theirs(j)
      BY <1>6
    <3>4. j.goal # "opponent" /\ r \in j.back
      BY <1>2, <2>1, <2>2, <3>1, <3>2, <3>3 DEF Theirs
    <3> QED
      BY <1>7, <1>9, <2>1, <3>4 DEF Answers, Alike
  <2>4. ~Excused(f, n, p)
    <3>1. ~Held(f, n, p)
      <4> SUFFICES ASSUME NEW q \in record, Same(q, n, p), q.who # f
                   PROVE  FALSE
        BY DEF Held
      <4>1. q \in record' /\ Same(q, n, p)'
        BY <1>6, <2>3 DEF Same
      <4> QED
        BY <4>1 DEF Excused, Held
    <3>2. ~HandedBack(Ref(n, p, f), spell[f])
      <4> SUFFICES ASSUME NEW v \in undone, SameBout(v.ref, Ref(n, p, f)),
                          v.ref.who = Ref(n, p, f).who, v.spell >= spell[f]
                   PROVE  FALSE
        BY DEF HandedBack
      <4>1. Ref(n, p, f).who = f /\ Ref(n, p, f)' = Ref(n, p, f)
        BY <1>6 DEF Ref
      <4>2. v \in undone'
        BY <1>2, <1>6, <2>1, <4>1
      <4> QED
        BY <1>6, <4>1, <4>2 DEF Excused, HandedBack
    <3> QED
      BY <3>1, <3>2 DEF Excused
  <2>5. ~Answers(j, f, n, p)
    <3>1. ~\E q \in j.at : Same(q, n, p)
      BY <1>2, <2>3
    <3>2. ~Early(j, f)
      BY <2>1 DEF Early
    <3> QED
      BY <1>7, <1>9, <2>1, <3>1, <3>2 DEF Answers, Alike
  <2> QED
    BY <2>4, <2>5
<1> QED
  BY <1>6, <1>9, <1>10, <1>12, <1>13, MindOn

\* The opponents of the bouts put back are followed one by one; with nobody left
\* the rounds are handed on.
LEMMA OthersMinds ==
  ASSUME Inv, Followed, NEW s \in Slots, FollowOthers(s) \/ HandOn(s)
  PROVE  Followed'
<1> DEFINE j == job[s]
           rest == IF j.goal = "opponent" THEN j.rest
                   ELSE {f \in out \ {j.who} : \E r \in j.back : Stands(r) /\ f \in r.pair}
<1>1. j \in Jobs
  BY DEF Inv, JobsOK, SoundJobs
<1>2. UNCHANGED <<rounds, redrawn, bout, record, undone, out, spell, wd>> /\ UNCHANGED unfollowed
  BY DEF FollowOthers, HandOn, bouts, entrants, history
<1>3. CASE FollowOthers(s)
  <2>1. j.step = "others"
    BY <1>3 DEF FollowOthers, At
  <2>2. \/ rest = {} /\ Go(s, Onward(j))
        \/ \E g \in rest : Go(s, Following([[j EXCEPT !.goal = "opponent", !.rest = rest]
                                            EXCEPT !.rest = @ \ {g}], g))
    BY <1>3 DEF FollowOthers
  <2>3. \A f : ~Early(j, f)
    BY <2>1 DEF Early, BackSteps
  <2>4. ASSUME NEW f \in out, NEW n \in (1..last) \ redrawn, NEW p \in pairs[n], f \in p,
               Answers(j, f, n, p)
        PROVE  f \in rest
    <3>1. CASE j.goal = "opponent"
      BY <2>1, <2>3, <2>4, <3>1 DEF Answers
    <3>2. CASE j.goal # "opponent"
      <4>1. PICK r \in j.back : Same(r, n, p) /\ j.who # f
        BY <2>1, <2>3, <2>4, <3>2 DEF Answers
      <4>2. Of(r).no = r.no /\ Of(r).id = r.id
        BY DEF Of
      <4>3. r.no = n /\ r.id = roundId[n] /\ r.pair = p
        BY <4>1, <4>2 DEF Same
      <4>4. Stands(r)
        BY <4>3 DEF Stands
      <4> QED
        BY <2>4, <3>2, <4>1, <4>3, <4>4
    <3> QED
      BY <3>1, <3>2
  <2> HIDE DEF rest
  <2>5. CASE rest = {} /\ Go(s, Onward(j))
    <3> DEFINE k == Onward(j)
    <3>1. Apart(k)
      BY OnwardStep
    <3>2. Orderly(k) /\ Go(s, k)
      BY <2>5, <3>1, Elsewhere
    <3> HIDE DEF k
    <3> QED
      BY <1>2, <2>3, <2>4, <2>5, <3>2, MindStill
  <2>6. ASSUME NEW g \in rest,
               Go(s, Following([[j EXCEPT !.goal = "opponent", !.rest = rest]
                                EXCEPT !.rest = @ \ {g}], g))
        PROVE  Followed'
    <3> DEFINE k == Following([[j EXCEPT !.goal = "opponent", !.rest = rest]
                               EXCEPT !.rest = @ \ {g}], g)
    <3>1. k.step = "follow" /\ k.goal = "opponent" /\ k.who = g /\ k.rest = rest \ {g} /\ Go(s, k)
      BY <1>1, <2>6 DEF Jobs, Following
    <3> HIDE DEF k
    <3>2. Orderly(k)
      BY <3>1 DEF Orderly, BackSteps, UndoSteps
    <3>3. \A f \in rest : \A n, p : Answers(k, f, n, p)
      BY <3>1 DEF Answers, Early, FollowSteps
    <3> QED
      BY <1>2, <2>3, <2>4, <3>1, <3>2, <3>3, MindStill
  <2> QED
    BY <2>2, <2>5, <2>6
<1>4. CASE HandOn(s)
  <2>1. Apart(j)
    BY <1>4 DEF HandOn, At, Apart, FollowSteps
  <2>2. PICK k : Go(s, k) /\ k.step = "refresh" /\ k.goal # "undo"
    <3>1. ASSUME NEW r \in j.back,
                 Go(s, [j EXCEPT !.step = "refresh", !.goal = "reopen", !.round = Of(r), !.back = @ \ {r}])
          PROVE  \E k : Go(s, k) /\ k.step = "refresh" /\ k.goal # "undo"
      <4> DEFINE k == [j EXCEPT !.step = "refresh", !.goal = "reopen", !.round = Of(r), !.back = @ \ {r}]
      <4>1. k.step = "refresh" /\ k.goal # "undo" /\ Go(s, k)
        BY <1>1, <3>1 DEF Jobs
      <4> HIDE DEF k
      <4> QED
        BY <4>1
    <3>2. ASSUME NEW u \in j.units, Go(s, [Advance(u) EXCEPT !.units = j.units \ {u}])
          PROVE  \E k : Go(s, k) /\ k.step = "refresh" /\ k.goal # "undo"
      <4> DEFINE k == [Advance(u) EXCEPT !.units = j.units \ {u}]
      <4>1. k.step = "refresh" /\ k.goal # "undo" /\ Go(s, k)
        BY <3>2 DEF Advance, Free
      <4> HIDE DEF k
      <4> QED
        BY <4>1
    <3> QED
      BY <1>4, <3>1, <3>2 DEF HandOn
  <2>3. Apart(k)
    BY <2>2 DEF Apart, FollowSteps
  <2> QED
    BY <1>2, <2>1, <2>2, <2>3, MindElsewhere
<1> QED
  BY <1>3, <1>4

LEMMA InitFollowed == Init => Followed
<1> SUFFICES ASSUME Init PROVE Followed
  OBVIOUS
<1> DEFINE k == [Free EXCEPT !.step = "entrants", !.goal = "draw"]
<1>1. k.step = "entrants" /\ Free.step = "free"
  BY DEF Free
<1>2. PICK s \in Slots : job = [t \in Slots |-> IF t = s THEN k ELSE Free]
  BY DEF Init
<1> HIDE DEF k
<1>3. Apart(k) /\ Apart(Free)
  BY <1>1 DEF Apart, FollowSteps
<1>4. AllOrderly
  BY <1>2, <1>3, Elsewhere DEF AllOrderly
<1>5. DrawnWithout /\ OutMinded /\ BoutsMinded
  BY DEF Init, DrawnWithout, OutMinded, BoutsMinded
<1> QED
  BY <1>4, <1>5 DEF Followed

LEMMA FollowedKeeps == Inv /\ Followed /\ [Next]_vars => Followed'
<1> SUFFICES ASSUME Inv, Followed, [Next]_vars PROVE Followed'
  OBVIOUS
<1>1. CASE UNCHANGED vars
  <2>1. /\ UNCHANGED <<rounds, redrawn, record, undone, out, spell, job>> /\ UNCHANGED unfollowed
        /\ UNCHANGED <<wd, bout>>
    BY <1>1 DEF vars, bouts, entrants, history
  <2>2. DrawnWithout'
    BY <2>1 DEF Followed, DrawnWithout, rounds
  <2> QED
    BY <2>1, <2>2, MindNone
<1>2. CASE Bouts
  BY <1>2, BoutMinds DEF Bouts
<1>3. CASE Desk
  BY <1>3, DeskMinds
<1>4. ASSUME NEW s \in Slots, Pairing(s)
      PROVE  Followed'
  BY <1>4, PairingMinds, VoidHeldMinds, CommitMinds, PutBoutMinds DEF Pairing
<1>5. ASSUME NEW s \in Slots, Reconcile(s)
      PROVE  Followed'
  BY <1>5, StatusMinds, OutMinds, ForfeitMinds, LoseMinds, BackMinds, RestoreMinds, VoidMinds,
     OthersMinds DEF Reconcile
<1> QED
  BY <1>1, <1>2, <1>3, <1>4, <1>5 DEF Next

(* Once no request is in hand, a fighter out of the Tournament is out of   *)
(* the pairings and has no bout waiting, however the requests that take    *)
(* him out, put him or his opponents back, draw, undo, void a forfeit and  *)
(* delete met: but for a bout whose forfeit the organiser voided since he  *)
(* went out, and what else OutIsFollowed leaves out.                       *)
THEOREM FighterOutIsFollowed == Spec => []OutIsFollowed
<1>1. Spec => []Inv
  BY InitInv, StepKeeps, PTL DEF Spec
<1>2. Spec => []Followed
  BY <1>1, InitFollowed, FollowedKeeps, PTL DEF Spec
<1>3. Followed => OutIsFollowed
  <2> SUFFICES ASSUME Followed, Quiet, NEW f \in out \ unfollowed
               PROVE  /\ wd[f] # 0
                      /\ \A n \in (1..last) \ redrawn : \A p \in pairs[n] :
                           f \in p /\ bout[n][p] = "scheduled" =>
                             \/ HandedBack(Ref(n, p, f), spell[f])
                             \/ \E q \in Holder(Ref(n, p, f)) : q.who # f
    BY DEF OutIsFollowed
  <2>1. \A s \in Slots : Apart(job[s])
    BY DEF Quiet, At, Apart, FollowSteps
  <2>2. wd[f] # 0
    BY <2>1, Elsewhere DEF Followed, OutMinded
  <2>3. ASSUME NEW n \in (1..last) \ redrawn, NEW p \in pairs[n], f \in p, bout[n][p] = "scheduled"
        PROVE  \/ HandedBack(Ref(n, p, f), spell[f])
               \/ \E q \in Holder(Ref(n, p, f)) : q.who # f
    <3>1. Excused(f, n, p)
      BY <2>1, <2>3, Elsewhere DEF Followed, BoutsMinded
    <3>2. Of(Ref(n, p, f)) = [no |-> n, id |-> roundId[n]] /\ Ref(n, p, f).pair = p
      BY DEF Of, Ref
    <3> QED
      BY <3>1, <3>2 DEF Excused, Held, Same, SameBout, Holder
  <2> QED
    BY <2>2, <2>3
<1> QED
  BY <1>2, <1>3, PTL
=============================================================================
