---------------------------- MODULE BracketProofs ----------------------------
(***************************************************************************)
(* For every bracket and every number of requests at once: the types, that *)
(* completions alone put nobody into a slot who did not earn it, and that  *)
(* they lose no result.  For one request at a time, undos, discards and    *)
(* changed results included: the same, that the rows name the pairs, and   *)
(* that an undo leaves nothing of the result behind.                       *)
(***************************************************************************)
EXTENDS Bracket, Recursion

\* The request knows its bout, and the slot it is at.
Placed(j) ==
  /\ j.pc # "idle" => j.slot \in Slots
  /\ j.pc \in {"sideB", "sync", "update", "insert"} => j.at \in Slots

Typed == BracketTypeOK /\ \A r \in Requests : Placed(job[r])

LEMMA PeopleFacts == Nobody \in People /\ NoPair \in Pairs
  BY DEF People, NoPair, Pairs

LEMMA NoRowIsARow == NoRow \in Rows /\ \A p \in Pairs : Placeholder(p) \in Rows
  BY PeopleFacts DEF NoRow, Placeholder, Rows

LEMMA IdleIsAJob == Idle \in Jobs /\ Idle.pc = "idle" /\ Idle.op = "none" /\ Placed(Idle)
  <1>1. [s \in Slots |-> NoPair] \in [Slots -> Pairs]
    BY PeopleFacts
  <1>2. "idle" \in Steps
    BY DEF Steps
  <1> QED BY <1>1, <1>2, PeopleFacts DEF Idle, Jobs, Placed

LEMMA FedAreSlots == \A s : Fed(s) \subseteq Slots
  BY DEF Fed

LEMMA ClosureAreSlots == \A s : Closure(s) \subseteq Slots
  BY DEF Closure

\* The steps that name no slot of their own.
LEMMA NextOfIsAJob ==
  ASSUME NEW j \in Jobs, Placed(j), j.pc # "idle",
         NEW pc \in Steps \ {"sideB", "sync", "update", "insert"},
         NEW rest \in SUBSET Slots,
         NEW then \in Steps \ {"sideB", "sync", "update", "insert"}
  PROVE  NextOf(j, pc, rest, then) \in Jobs /\ Placed(NextOf(j, pc, rest, then))
  <1> DEFINE n == [j EXCEPT !.todo = rest, !.pc = IF rest = {} THEN then ELSE pc]
  <1>1. n \in Jobs
    BY DEF Jobs
  <1>2. Placed(n)
    BY DEF Jobs, Placed
  <1> QED BY <1>1, <1>2, IdleIsAJob DEF NextOf

LEMMA SyncedIsAJob ==
  ASSUME NEW j \in Jobs, Placed(j), j.pc # "idle"
  PROVE  Synced(j) \in Jobs /\ Placed(Synced(j))
  <1>1. j.todo \ {j.at} \in SUBSET Slots
    BY DEF Jobs
  <1>2. {"sideA", "idle"} \subseteq Steps
    BY DEF Steps
  <1> QED BY <1>1, <1>2, NextOfIsAJob DEF Synced

\* A step that gives one request a sound job keeps the jobs sound.
LEMMA OneJob ==
  ASSUME Typed, NEW r \in Requests, NEW j \in Jobs, Placed(j),
         job' = [job EXCEPT ![r] = j],
         side' \in [Slots -> Pairs], row' \in [Slots -> Rows],
         asked' \in 0..MaxAsked, crashes' \in 0..MaxCrashes
  PROVE  Typed'
  <1>1. job' \in [Requests -> Jobs]
    BY DEF Typed, BracketTypeOK
  <1>2. \A q \in Requests : Placed(job'[q])
    BY DEF Typed, BracketTypeOK
  <1>3. \A q \in Requests : Placed(job[q])'
    BY <1>2 DEF Placed
  <1> QED BY <1>1, <1>3 DEF Typed, BracketTypeOK

LEMMA ClearedIsAPair ==
  ASSUME Typed, NEW d \in Slots, NEW s
  PROVE  [side EXCEPT ![d] = Cleared(d, s)] \in [Slots -> Pairs]
  BY PeopleFacts DEF Typed, BracketTypeOK, Cleared, Pairs

LEMMA UndoIsAJob ==
  ASSUME NEW s \in Slots, NEW op \in {"undo", "discard"}, NEW to \in {"running", "scheduled"},
         NEW later \in SUBSET Slots, NEW fought \in SUBSET Slots, NEW pc \in {"revert", "sources"}
  PROVE  LET n == [Idle EXCEPT !.op = op, !.slot = s, !.to = to, !.later = later,
                               !.fought = fought, !.todo = fought, !.pc = pc]
         IN  n \in Jobs /\ Placed(n)
  <1>1. {"revert", "sources"} \subseteq Steps
    BY DEF Steps
  <1> QED BY <1>1, IdleIsAJob DEF Jobs, Placed

LEMMA StartTypes ==
  ASSUME Typed, NEW r \in Requests, NEW s \in Slots, Start(r, s)
  PROVE  Typed'
  <1>1. job[r] \in Jobs /\ Placed(job[r])
    BY DEF Typed, BracketTypeOK
  <1> DEFINE n == job[r]
  <1>2. n \in Jobs /\ Placed(n)
    BY <1>1
  <1>3. job' = [job EXCEPT ![r] = n]
    BY <1>1 DEF Start, Done, Asks, Typed, BracketTypeOK
  <1>4. side' \in [Slots -> Pairs]
    BY <1>1 DEF Start, Typed, BracketTypeOK, count
  <1>5. row' \in [Slots -> Rows]
    BY <1>1 DEF Rows, Start, Typed, BracketTypeOK, count
  <1>6. asked' \in 0..MaxAsked /\ crashes' \in 0..MaxCrashes
    BY BracketConstants DEF Start, Asks, Typed, BracketTypeOK, count, count
  <1> HIDE DEF n
  <1> QED BY <1>2, <1>3, <1>4, <1>5, <1>6, OneJob

LEMMA CompleteTypes ==
  ASSUME Typed, NEW r \in Requests, NEW s \in Slots, NEW w \in People, Complete(r, s, w)
  PROVE  Typed'
  <1>1. job[r] \in Jobs /\ Placed(job[r])
    BY DEF Typed, BracketTypeOK
  <1>2. {"load"} \subseteq Steps
    BY DEF Steps
  <1> DEFINE n == [Idle EXCEPT !.op = "complete", !.slot = s, !.pc = "load"]
  <1>3. n \in Jobs /\ Placed(n)
    BY <1>1, <1>2, IdleIsAJob DEF Jobs, Placed
  <1>4. job' = [job EXCEPT ![r] = n]
    BY <1>1, <1>2 DEF Complete, Done, Asks, Typed, BracketTypeOK
  <1>5. side' \in [Slots -> Pairs]
    BY <1>1, <1>2 DEF Complete, Typed, BracketTypeOK, count
  <1>6. row' \in [Slots -> Rows]
    BY <1>1, <1>2 DEF Rows, Complete, Typed, BracketTypeOK, count
  <1>7. asked' \in 0..MaxAsked /\ crashes' \in 0..MaxCrashes
    BY BracketConstants DEF Complete, Asks, Typed, BracketTypeOK, count, count
  <1> HIDE DEF n
  <1> QED BY <1>3, <1>4, <1>5, <1>6, <1>7, OneJob

LEMMA CompleteAgainTypes ==
  ASSUME Typed, NEW r \in Requests, NEW s \in Slots, CompleteAgain(r, s)
  PROVE  Typed'
  <1>1. job[r] \in Jobs /\ Placed(job[r])
    BY DEF Typed, BracketTypeOK
  <1>2. {"load"} \subseteq Steps
    BY DEF Steps
  <1> DEFINE n == [Idle EXCEPT !.op = "complete", !.slot = s, !.pc = "load"]
  <1>3. n \in Jobs /\ Placed(n)
    BY <1>1, <1>2, IdleIsAJob DEF Jobs, Placed
  <1>4. job' = [job EXCEPT ![r] = n]
    BY <1>1, <1>2 DEF CompleteAgain, Done, Asks, Typed, BracketTypeOK
  <1>5. side' \in [Slots -> Pairs]
    BY <1>1, <1>2 DEF CompleteAgain, Typed, BracketTypeOK, count
  <1>6. row' \in [Slots -> Rows]
    BY <1>1, <1>2 DEF CompleteAgain, Typed, BracketTypeOK, count
  <1>7. asked' \in 0..MaxAsked /\ crashes' \in 0..MaxCrashes
    BY BracketConstants DEF CompleteAgain, Asks, Typed, BracketTypeOK, count, count
  <1> HIDE DEF n
  <1> QED BY <1>3, <1>4, <1>5, <1>6, <1>7, OneJob

LEMMA UndoTypes ==
  ASSUME Typed, NEW r \in Requests, NEW s \in Slots, NEW discard \in BOOLEAN, NEW to \in {"running", "scheduled"}, Undo(r, s, discard, to)
  PROVE  Typed'
  <1>1. job[r] \in Jobs /\ Placed(job[r])
    BY DEF Typed, BracketTypeOK
  <1>2. {"revert", "sources"} \subseteq Steps
    BY DEF Steps
  <1>3. {d \in Closure(s) : row[d].status # "none"} \in SUBSET Slots
    BY <1>1, <1>2, ClosureAreSlots
  <1>4. {d \in {d \in Closure(s) : row[d].status # "none"} : Fought(row[d])} \in SUBSET Slots
    BY <1>1, <1>2, <1>3, ClosureAreSlots
  <1> DEFINE n == [Idle EXCEPT !.op = IF discard THEN "discard" ELSE "undo", !.slot = s, !.to = to,
         !.later = {d \in Closure(s) : row[d].status # "none"},
         !.fought = {d \in {d \in Closure(s) : row[d].status # "none"} : Fought(row[d])},
         !.todo = {d \in {d \in Closure(s) : row[d].status # "none"} : Fought(row[d])},
         !.pc = IF discard THEN "revert" ELSE "sources"]
  <1>5. n \in Jobs /\ Placed(n)
    <2> DEFINE later  == {d \in Closure(s) : row[d].status # "none"}
               fought == {d \in {d \in Closure(s) : row[d].status # "none"} : Fought(row[d])}
               op == IF discard THEN "discard" ELSE "undo"
               pc == IF discard THEN "revert" ELSE "sources"
    <2>1. /\ later \in SUBSET Slots /\ fought \in SUBSET Slots
          /\ op \in {"undo", "discard"} /\ pc \in {"revert", "sources"}
      BY <1>3, <1>4
    <2> HIDE DEF later, fought, op, pc
    <2>2. LET m == [Idle EXCEPT !.op = op, !.slot = s, !.to = to, !.later = later,
                                !.fought = fought, !.todo = fought, !.pc = pc]
          IN  m \in Jobs /\ Placed(m)
      BY <2>1, UndoIsAJob
    <2> QED BY <2>2 DEF later, fought, op, pc
  <1>6. job' = [job EXCEPT ![r] = n]
    BY <1>1, <1>2, <1>3, <1>4 DEF Undo, Done, Asks, Typed, BracketTypeOK
  <1>7. side' \in [Slots -> Pairs]
    BY <1>1, <1>2, <1>3, <1>4 DEF Undo, Typed, BracketTypeOK, count
  <1>8. row' \in [Slots -> Rows]
    BY <1>1, <1>2, <1>3, <1>4 DEF Undo, Typed, BracketTypeOK, count
  <1>9. asked' \in 0..MaxAsked /\ crashes' \in 0..MaxCrashes
    BY BracketConstants DEF Undo, Asks, Typed, BracketTypeOK, count, count
  <1> HIDE DEF n
  <1> QED BY <1>5, <1>6, <1>7, <1>8, <1>9, OneJob

LEMMA ChangeResultTypes ==
  ASSUME Typed, NEW r \in Requests, NEW s \in Slots, NEW w \in People, ChangeResult(r, s, w)
  PROVE  Typed'
  <1>1. job[r] \in Jobs /\ Placed(job[r])
    BY DEF Typed, BracketTypeOK
  <1>2. {"redecide"} \subseteq Steps
    BY DEF Steps
  <1> DEFINE n == [Idle EXCEPT !.op = "change", !.slot = s, !.winner = w, !.pc = "redecide"]
  <1>3. n \in Jobs /\ Placed(n)
    BY <1>1, <1>2, IdleIsAJob DEF Jobs, Placed
  <1>4. job' = [job EXCEPT ![r] = n]
    BY <1>1, <1>2 DEF ChangeResult, Done, Asks, Typed, BracketTypeOK
  <1>5. side' \in [Slots -> Pairs]
    BY <1>1, <1>2 DEF ChangeResult, Typed, BracketTypeOK, count
  <1>6. row' \in [Slots -> Rows]
    BY <1>1, <1>2 DEF ChangeResult, Typed, BracketTypeOK, count
  <1>7. asked' \in 0..MaxAsked /\ crashes' \in 0..MaxCrashes
    BY BracketConstants DEF ChangeResult, Asks, Typed, BracketTypeOK, count, count
  <1> HIDE DEF n
  <1> QED BY <1>3, <1>4, <1>5, <1>6, <1>7, OneJob

LEMMA LoadTypes ==
  ASSUME Typed, NEW r \in Requests, Load(r)
  PROVE  Typed'
  <1>1. job[r] \in Jobs /\ Placed(job[r])
    BY DEF Typed, BracketTypeOK
  <1>2. {"retract", "read"} \subseteq Steps
    BY DEF Steps
  <1>3. job[r].slot \in Slots
    BY <1>1, <1>2 DEF Load, At, Placed
  <1>4. row[job[r].slot].winner \in People
    BY <1>1, <1>2, <1>3 DEF Typed, BracketTypeOK, Rows
  <1>5. LoserOf(job[r].slot, row[job[r].slot].winner) \in People
    BY <1>1, <1>2, <1>3, <1>4, PeopleFacts DEF LoserOf, Typed, BracketTypeOK, Rows, Pairs, Sides
  <1> DEFINE n == IF row[job[r].slot].winner = Nobody THEN Idle
       ELSE IF EndsBracket(job[r].slot, row[job[r].slot].winner)
       THEN [job[r] EXCEPT !.pc = "retract", !.todo = Fed(job[r].slot)]
       ELSE [job[r] EXCEPT !.winner = row[job[r].slot].winner,
                           !.loser = LoserOf(job[r].slot, row[job[r].slot].winner), !.pc = "read"]
  <1>6. n \in Jobs /\ Placed(n)
    <2> DEFINE retracts == [job[r] EXCEPT !.pc = "retract", !.todo = Fed(job[r].slot)]
               advances == [job[r] EXCEPT !.winner = row[job[r].slot].winner,
                              !.loser = LoserOf(job[r].slot, row[job[r].slot].winner), !.pc = "read"]
    <2>1. retracts \in Jobs /\ Placed(retracts)
      BY <1>1, <1>2, <1>3, FedAreSlots DEF Jobs, Placed
    <2>2. advances \in Jobs /\ Placed(advances)
      BY <1>1, <1>2, <1>3, <1>4, <1>5 DEF Jobs, Placed
    <2> HIDE DEF retracts, advances
    <2>3. n \in {Idle, retracts, advances}
      BY DEF retracts, advances
    <2> HIDE DEF n
    <2> QED BY <2>1, <2>2, <2>3, IdleIsAJob
  <1>7. job' = [job EXCEPT ![r] = n]
    BY <1>1, <1>2, <1>3, <1>4, <1>5 DEF Load, Done, Asks, Typed, BracketTypeOK
  <1>8. side' \in [Slots -> Pairs]
    BY <1>1, <1>2, <1>3, <1>4, <1>5 DEF Load, Typed, BracketTypeOK, count
  <1>9. row' \in [Slots -> Rows]
    BY <1>1, <1>2, <1>3, <1>4, <1>5 DEF Load, Typed, BracketTypeOK, count
  <1>10. asked' \in 0..MaxAsked /\ crashes' \in 0..MaxCrashes
    BY BracketConstants DEF Load, Asks, Typed, BracketTypeOK, count, count
  <1> HIDE DEF n
  <1> QED BY <1>6, <1>7, <1>8, <1>9, <1>10, OneJob

LEMMA ReadDownstreamTypes ==
  ASSUME Typed, NEW r \in Requests, ReadDownstream(r)
  PROVE  Typed'
  <1>1. job[r] \in Jobs /\ Placed(job[r])
    BY DEF Typed, BracketTypeOK
  <1>2. {"sideA"} \subseteq Steps
    BY DEF Steps
  <1>3. job[r].slot \in Slots
    BY <1>1, <1>2 DEF ReadDownstream, At, Placed
  <1>4. [d \in Slots |-> IF d \in Fed(job[r].slot) THEN side[d] ELSE NoPair] \in [Slots -> Pairs]
    BY <1>1, <1>2, <1>3, PeopleFacts DEF Typed, BracketTypeOK
  <1> DEFINE n == IF Fed(job[r].slot) = {} THEN Idle
       ELSE [job[r] EXCEPT !.copy = [d \in Slots |-> IF d \in Fed(job[r].slot) THEN side[d] ELSE NoPair],
                           !.todo = Fed(job[r].slot), !.pc = "sideA"]
  <1>5. n \in Jobs /\ Placed(n)
    BY <1>1, <1>2, <1>3, <1>4, IdleIsAJob, FedAreSlots DEF Jobs, Placed
  <1>6. job' = [job EXCEPT ![r] = n]
    BY <1>1, <1>2, <1>3, <1>4 DEF ReadDownstream, Done, Asks, Typed, BracketTypeOK
  <1>7. side' \in [Slots -> Pairs]
    BY <1>1, <1>2, <1>3, <1>4 DEF ReadDownstream, Typed, BracketTypeOK, count
  <1>8. row' \in [Slots -> Rows]
    BY <1>1, <1>2, <1>3, <1>4 DEF ReadDownstream, Typed, BracketTypeOK, count
  <1>9. asked' \in 0..MaxAsked /\ crashes' \in 0..MaxCrashes
    BY BracketConstants DEF ReadDownstream, Asks, Typed, BracketTypeOK, count, count
  <1> HIDE DEF n
  <1> QED BY <1>5, <1>6, <1>7, <1>8, <1>9, OneJob

\* One side of one slot, and the copy.
LEMMA WriteSlotSideTypes ==
  ASSUME Typed, NEW r \in Requests, NEW d \in Slots, NEW x \in Sides,
         NEW pc \in {"sideB", "sync"}, job[r].slot \in Slots, WriteSlotSide(r, d, x, pc)
  PROVE  Typed'
  <1> DEFINE p == Writes(job[r], d, x)
             c == IF p = Nobody THEN job[r].copy ELSE [job[r].copy EXCEPT ![d][x] = p]
             n == [job[r] EXCEPT !.copy = c, !.at = d, !.pc = pc]
  <1>1. job[r] \in Jobs
    BY DEF Typed, BracketTypeOK
  <1>2. p \in People
    BY <1>1, PeopleFacts DEF Writes, Jobs
  <1>3. c \in [Slots -> Pairs]
    BY <1>1, <1>2 DEF Jobs, Pairs
  <1>4. pc \in Steps
    BY DEF Steps
  <1>5. n \in Jobs /\ Placed(n)
    BY <1>1, <1>3, <1>4 DEF Jobs, Placed
  <1>6. job' = [job EXCEPT ![r] = n]
    BY <1>1 DEF WriteSlotSide, Jobs, Typed, BracketTypeOK
  <1>7. side' \in [Slots -> Pairs]
    BY <1>2 DEF WriteSlotSide, Typed, BracketTypeOK, Pairs
  <1>8. row' \in [Slots -> Rows] /\ asked' \in 0..MaxAsked /\ crashes' \in 0..MaxCrashes
    BY DEF WriteSlotSide, Typed, BracketTypeOK, count
  <1> HIDE DEF n
  <1> QED BY <1>5, <1>6, <1>7, <1>8, OneJob

LEMMA WriteSidesTypes ==
  ASSUME Typed, NEW r \in Requests, WriteSideA(r) \/ WriteSideB(r)
  PROVE  Typed'
  <1>1. job[r] \in Jobs /\ Placed(job[r])
    BY DEF Typed, BracketTypeOK
  <1>2. CASE WriteSideA(r)
    <2>1. PICK d \in job[r].todo : WriteSlotSide(r, d, "a", "sideB")
      BY <1>2 DEF WriteSideA
    <2>2. d \in Slots /\ job[r].slot \in Slots /\ "a" \in Sides
      BY <1>1, <1>2 DEF WriteSideA, At, Placed, Jobs, Sides
    <2> QED BY <2>1, <2>2, WriteSlotSideTypes
  <1>3. CASE WriteSideB(r)
    <2>1. job[r].at \in Slots /\ job[r].slot \in Slots /\ "b" \in Sides
      BY <1>1, <1>3 DEF WriteSideB, At, Placed, Sides
    <2> QED BY <1>3, <2>1, WriteSlotSideTypes DEF WriteSideB
  <1> QED BY <1>2, <1>3

LEMMA SyncReadTypes ==
  ASSUME Typed, NEW r \in Requests, SyncRead(r)
  PROVE  Typed'
  <1>1. job[r] \in Jobs /\ Placed(job[r])
    BY DEF Typed, BracketTypeOK
  <1>2. {"update", "insert"} \subseteq Steps
    BY DEF Steps
  <1>3. Synced(job[r]) \in Jobs /\ Placed(Synced(job[r]))
    BY <1>1, <1>2, SyncedIsAJob DEF SyncRead, At
  <1>4. job[r].at \in Slots /\ job[r].slot \in Slots
    BY <1>1, <1>2, <1>3 DEF SyncRead, At, Placed
  <1> DEFINE n == IF row[job[r].at].status = "scheduled" THEN [job[r] EXCEPT !.pc = "update"]
       ELSE IF row[job[r].at].status = "none" /\ (\A x \in Sides : job[r].copy[job[r].at][x] # Nobody)
       THEN [job[r] EXCEPT !.pc = "insert"] ELSE Synced(job[r])
  <1>5. n \in Jobs /\ Placed(n)
    BY <1>1, <1>2, <1>3, <1>4 DEF Jobs, Placed
  <1>6. job' = [job EXCEPT ![r] = n]
    BY <1>1, <1>2, <1>3, <1>4 DEF SyncRead, Done, Asks, Typed, BracketTypeOK
  <1>7. side' \in [Slots -> Pairs]
    BY <1>1, <1>2, <1>3, <1>4 DEF SyncRead, Typed, BracketTypeOK, count
  <1>8. row' \in [Slots -> Rows]
    BY <1>1, <1>2, <1>3, <1>4 DEF SyncRead, Typed, BracketTypeOK, count
  <1>9. asked' \in 0..MaxAsked /\ crashes' \in 0..MaxCrashes
    BY BracketConstants DEF SyncRead, Asks, Typed, BracketTypeOK, count, count
  <1> HIDE DEF n
  <1> QED BY <1>5, <1>6, <1>7, <1>8, <1>9, OneJob

LEMMA SyncUpdateTypes ==
  ASSUME Typed, NEW r \in Requests, SyncUpdate(r)
  PROVE  Typed'
  <1>1. job[r] \in Jobs /\ Placed(job[r])
    BY DEF Typed, BracketTypeOK
  <1>2. Synced(job[r]) \in Jobs /\ Placed(Synced(job[r]))
    BY <1>1, SyncedIsAJob DEF SyncUpdate, At
  <1>3. job[r].at \in Slots /\ job[r].slot \in Slots
    BY <1>1, <1>2 DEF SyncUpdate, At, Placed
  <1>4. job[r].copy[job[r].at] \in Pairs
    BY <1>1, <1>2, <1>3 DEF Jobs
  <1> DEFINE n == Synced(job[r])
  <1>5. n \in Jobs /\ Placed(n)
    BY <1>1, <1>2, <1>3, <1>4
  <1>6. job' = [job EXCEPT ![r] = n]
    BY <1>1, <1>2, <1>3, <1>4 DEF SyncUpdate, Done, Asks, Typed, BracketTypeOK
  <1>7. side' \in [Slots -> Pairs]
    BY <1>1, <1>2, <1>3, <1>4 DEF SyncUpdate, Typed, BracketTypeOK, count
  <1>8. row' \in [Slots -> Rows]
    BY <1>1, <1>2, <1>3, <1>4 DEF Rows, SyncUpdate, Typed, BracketTypeOK, count
  <1>9. asked' \in 0..MaxAsked /\ crashes' \in 0..MaxCrashes
    BY BracketConstants DEF SyncUpdate, Asks, Typed, BracketTypeOK, count, count
  <1> HIDE DEF n
  <1> QED BY <1>5, <1>6, <1>7, <1>8, <1>9, OneJob

LEMMA InsertMatchForSlotTypes ==
  ASSUME Typed, NEW r \in Requests, InsertMatchForSlot(r)
  PROVE  Typed'
  <1>1. job[r] \in Jobs /\ Placed(job[r])
    BY DEF Typed, BracketTypeOK
  <1>2. {"sync"} \subseteq Steps
    BY DEF Steps
  <1>3. Synced(job[r]) \in Jobs /\ Placed(Synced(job[r]))
    BY <1>1, <1>2, SyncedIsAJob DEF InsertMatchForSlot, At
  <1>4. job[r].at \in Slots /\ job[r].slot \in Slots
    BY <1>1, <1>2, <1>3 DEF InsertMatchForSlot, At, Placed
  <1>5. job[r].copy[job[r].at] \in Pairs
    BY <1>1, <1>2, <1>3, <1>4 DEF Jobs
  <1> DEFINE n == IF row[job[r].at].status = "none" THEN Synced(job[r])
       ELSE [job[r] EXCEPT !.pc = "sync"]
  <1>6. n \in Jobs /\ Placed(n)
    BY <1>1, <1>2, <1>3, <1>4, <1>5 DEF Jobs, Placed
  <1>7. job' = [job EXCEPT ![r] = n]
    BY <1>1, <1>2, <1>3, <1>4, <1>5 DEF InsertMatchForSlot, Done, Asks, Typed, BracketTypeOK
  <1>8. side' \in [Slots -> Pairs]
    BY <1>1, <1>2, <1>3, <1>4, <1>5 DEF InsertMatchForSlot, Typed, BracketTypeOK, count
  <1>9. row' \in [Slots -> Rows]
    BY <1>1, <1>2, <1>3, <1>4, <1>5, NoRowIsARow DEF Rows, InsertMatchForSlot, Typed, BracketTypeOK, count
  <1>10. asked' \in 0..MaxAsked /\ crashes' \in 0..MaxCrashes
    BY BracketConstants DEF InsertMatchForSlot, Asks, Typed, BracketTypeOK, count, count
  <1> HIDE DEF n
  <1> QED BY <1>6, <1>7, <1>8, <1>9, <1>10, OneJob

LEMMA FindUnplayedTypes ==
  ASSUME Typed, NEW r \in Requests, FindUnplayed(r)
  PROVE  Typed'
  <1>1. job[r] \in Jobs /\ Placed(job[r])
    BY DEF Typed, BracketTypeOK
  <1>2. {"delete", "idle"} \subseteq Steps
    BY DEF Steps
  <1>3. {d \in job[r].later : row[d].status = "scheduled"} \in SUBSET Slots
    BY <1>1, <1>2 DEF Jobs
  <1>4. job[r].pc # "idle"
    BY <1>1, <1>2, <1>3 DEF FindUnplayed, At
  <1> DEFINE n == NextOf(job[r], "delete", {d \in job[r].later : row[d].status = "scheduled"}, "idle")
  <1>5. n \in Jobs /\ Placed(n)
    BY <1>1, <1>2, <1>3, <1>4, NextOfIsAJob
  <1>6. job' = [job EXCEPT ![r] = n]
    BY <1>1, <1>2, <1>3, <1>4 DEF FindUnplayed, Done, Asks, Typed, BracketTypeOK
  <1>7. side' \in [Slots -> Pairs]
    BY <1>1, <1>2, <1>3, <1>4 DEF FindUnplayed, Typed, BracketTypeOK, count
  <1>8. row' \in [Slots -> Rows]
    BY <1>1, <1>2, <1>3, <1>4 DEF FindUnplayed, Typed, BracketTypeOK, count
  <1>9. asked' \in 0..MaxAsked /\ crashes' \in 0..MaxCrashes
    BY BracketConstants DEF FindUnplayed, Asks, Typed, BracketTypeOK, count, count
  <1> HIDE DEF n
  <1> QED BY <1>5, <1>6, <1>7, <1>8, <1>9, OneJob

LEMMA ClearFromTypes ==
  ASSUME Typed, NEW r \in Requests, ClearFrom(r)
  PROVE  Typed'
  <1>1. job[r] \in Jobs /\ Placed(job[r])
    BY DEF Typed, BracketTypeOK
  <1>2. {"pairings", "clear"} \subseteq Steps
    BY DEF Steps
  <1>3. job[r].slot \in Slots
    BY <1>1, <1>2 DEF ClearFrom, At, Placed
  <1>4. {p \in ClearSources(job[r]) \X Slots : p[2] \in Fed(p[1])} \in SUBSET (Slots \X Slots)
    BY <1>1, <1>2, <1>3 DEF Jobs, ClearSources
  <1> DEFINE n == [job[r] EXCEPT
         !.clears = {p \in ClearSources(job[r]) \X Slots : p[2] \in Fed(p[1])},
         !.pc = IF {p \in ClearSources(job[r]) \X Slots : p[2] \in Fed(p[1])} = {}
                THEN "pairings" ELSE "clear"]
  <1>5. n \in Jobs /\ Placed(n)
    BY <1>1, <1>2, <1>3, <1>4 DEF Jobs, Placed
  <1>6. job' = [job EXCEPT ![r] = n]
    BY <1>1, <1>2, <1>3, <1>4 DEF ClearFrom, Done, Asks, Typed, BracketTypeOK
  <1>7. side' \in [Slots -> Pairs]
    BY <1>1, <1>2, <1>3, <1>4 DEF ClearFrom, Typed, BracketTypeOK, count
  <1>8. row' \in [Slots -> Rows]
    BY <1>1, <1>2, <1>3, <1>4 DEF ClearFrom, Typed, BracketTypeOK, count
  <1>9. asked' \in 0..MaxAsked /\ crashes' \in 0..MaxCrashes
    BY BracketConstants DEF ClearFrom, Asks, Typed, BracketTypeOK, count, count
  <1> HIDE DEF n
  <1> QED BY <1>5, <1>6, <1>7, <1>8, <1>9, OneJob

LEMMA FindPairingsTypes ==
  ASSUME Typed, NEW r \in Requests, FindPairings(r)
  PROVE  Typed'
  <1>1. job[r] \in Jobs /\ Placed(job[r])
    BY DEF Typed, BracketTypeOK
  <1>2. {"unpair", "load", "root"} \subseteq Steps
    BY DEF Steps
  <1>3. (IF job[r].op = "change" THEN {d \in Fed(job[r].slot) : row[d].status # "none"} ELSE job[r].later) \in SUBSET Slots
    BY <1>1, <1>2, FedAreSlots DEF Jobs
  <1>4. job[r].pc # "idle"
    BY <1>1, <1>2, <1>3 DEF FindPairings, At
  <1> DEFINE n == NextOf(job[r], "unpair",
         IF job[r].op = "change" THEN {d \in Fed(job[r].slot) : row[d].status # "none"} ELSE job[r].later,
         IF job[r].op = "change" THEN "load" ELSE "root")
  <1>5. n \in Jobs /\ Placed(n)
    BY <1>1, <1>2, <1>3, <1>4, NextOfIsAJob
  <1>6. job' = [job EXCEPT ![r] = n]
    BY <1>1, <1>2, <1>3, <1>4 DEF FindPairings, Done, Asks, Typed, BracketTypeOK
  <1>7. side' \in [Slots -> Pairs]
    BY <1>1, <1>2, <1>3, <1>4 DEF FindPairings, Typed, BracketTypeOK, count
  <1>8. row' \in [Slots -> Rows]
    BY <1>1, <1>2, <1>3, <1>4 DEF FindPairings, Typed, BracketTypeOK, count
  <1>9. asked' \in 0..MaxAsked /\ crashes' \in 0..MaxCrashes
    BY BracketConstants DEF FindPairings, Asks, Typed, BracketTypeOK, count, count
  <1> HIDE DEF n
  <1> QED BY <1>5, <1>6, <1>7, <1>8, <1>9, OneJob

LEMMA WriteRootTypes ==
  ASSUME Typed, NEW r \in Requests, WriteRoot(r)
  PROVE  Typed'
  <1>1. job[r] \in Jobs /\ Placed(job[r])
    BY DEF Typed, BracketTypeOK
  <1>2. job[r].slot \in Slots
    BY <1>1 DEF WriteRoot, At, Placed
  <1>3. job[r].to \in {"none", "scheduled", "running", "completed"}
    BY <1>1, <1>2 DEF Jobs
  <1> DEFINE n == Idle
  <1>4. n \in Jobs /\ Placed(n)
    BY <1>1, <1>2, <1>3, IdleIsAJob
  <1>5. job' = [job EXCEPT ![r] = n]
    BY <1>1, <1>2, <1>3 DEF WriteRoot, Done, Asks, Typed, BracketTypeOK
  <1>6. side' \in [Slots -> Pairs]
    BY <1>1, <1>2, <1>3 DEF WriteRoot, Typed, BracketTypeOK, count
  <1>7. row' \in [Slots -> Rows]
    BY <1>1, <1>2, <1>3, PeopleFacts DEF Rows, WriteRoot, Typed, BracketTypeOK, count
  <1>8. asked' \in 0..MaxAsked /\ crashes' \in 0..MaxCrashes
    BY BracketConstants DEF WriteRoot, Asks, Typed, BracketTypeOK, count, count
  <1> HIDE DEF n
  <1> QED BY <1>4, <1>5, <1>6, <1>7, <1>8, OneJob

LEMMA RedecideTypes ==
  ASSUME Typed, NEW r \in Requests, Redecide(r)
  PROVE  Typed'
  <1>1. job[r] \in Jobs /\ Placed(job[r])
    BY DEF Typed, BracketTypeOK
  <1>2. {"sources"} \subseteq Steps
    BY DEF Steps
  <1>3. job[r].slot \in Slots
    BY <1>1, <1>2 DEF Redecide, At, Placed
  <1>4. job[r].winner \in People
    BY <1>1, <1>2, <1>3 DEF Jobs
  <1> DEFINE n == [job[r] EXCEPT !.pc = "sources"]
  <1>5. n \in Jobs /\ Placed(n)
    BY <1>1, <1>2, <1>3, <1>4 DEF Jobs, Placed
  <1>6. job' = [job EXCEPT ![r] = n]
    BY <1>1, <1>2, <1>3, <1>4 DEF Redecide, Done, Asks, Typed, BracketTypeOK
  <1>7. side' \in [Slots -> Pairs]
    BY <1>1, <1>2, <1>3, <1>4 DEF Redecide, Typed, BracketTypeOK, count
  <1>8. row' \in [Slots -> Rows]
    BY <1>1, <1>2, <1>3, <1>4 DEF Rows, Redecide, Typed, BracketTypeOK, count
  <1>9. asked' \in 0..MaxAsked /\ crashes' \in 0..MaxCrashes
    BY BracketConstants DEF Redecide, Asks, Typed, BracketTypeOK, count, count
  <1> HIDE DEF n
  <1> QED BY <1>5, <1>6, <1>7, <1>8, <1>9, OneJob

LEMMA CrashTypes ==
  ASSUME Typed, NEW r \in Requests, Crash(r)
  PROVE  Typed'
  <1>1. job[r] \in Jobs /\ Placed(job[r])
    BY DEF Typed, BracketTypeOK
  <1> DEFINE n == Idle
  <1>2. n \in Jobs /\ Placed(n)
    BY <1>1, IdleIsAJob
  <1>3. job' = [job EXCEPT ![r] = n]
    BY <1>1 DEF Crash, Done, Asks, Typed, BracketTypeOK
  <1>4. side' \in [Slots -> Pairs]
    BY <1>1 DEF Crash, Typed, BracketTypeOK, count
  <1>5. row' \in [Slots -> Rows]
    BY <1>1 DEF Crash, Typed, BracketTypeOK, count
  <1>6. asked' \in 0..MaxAsked /\ crashes' \in 0..MaxCrashes
    BY BracketConstants DEF Crash, Asks, Typed, BracketTypeOK, count, count
  <1> HIDE DEF n
  <1> QED BY <1>2, <1>3, <1>4, <1>5, <1>6, OneJob

LEMMA RetractClearTypes ==
  ASSUME Typed, NEW r \in Requests, RetractClear(r)
  PROVE  Typed'
  <1>1. job[r] \in Jobs /\ Placed(job[r]) /\ job[r].pc # "idle" /\ job[r].slot \in Slots
    BY DEF RetractClear, At, Typed, BracketTypeOK, Placed
  <1>2. PICK d \in job[r].todo :
           /\ side' = [side EXCEPT ![d] = Cleared(d, job[r].slot)]
           /\ row' = row
           /\ job' = [job EXCEPT ![r] = [NextOf(job[r], "retract", job[r].todo \ {d}, "unmake")
                                            EXCEPT !.later = @ \cup {d}]]
    BY DEF RetractClear, count
  <1>3. d \in Slots
    BY <1>1, <1>2 DEF Jobs
  <1>4. {"retract", "unmake"} \subseteq Steps
    BY DEF Steps
  <1>5. job[r].todo \ {d} \in SUBSET Slots
    BY <1>1 DEF Jobs
  <1> DEFINE n == [NextOf(job[r], "retract", job[r].todo \ {d}, "unmake")
                                            EXCEPT !.later = @ \cup {d}]
  <1>6. n \in Jobs /\ Placed(n)
    <2> DEFINE m == NextOf(job[r], "retract", job[r].todo \ {d}, "unmake")
    <2>1. m \in Jobs /\ Placed(m)
      BY <1>1, <1>4, <1>5, NextOfIsAJob
    <2> HIDE DEF m
    <2>2. [m EXCEPT !.later = @ \cup {d}] \in Jobs
      BY <2>1, <1>3 DEF Jobs
    <2>3. Placed([m EXCEPT !.later = @ \cup {d}])
      BY <2>1 DEF Jobs, Placed
    <2> QED BY <2>2, <2>3 DEF m
  <1>7. side' \in [Slots -> Pairs]
    BY <1>2, <1>3, ClearedIsAPair DEF Typed, BracketTypeOK
  <1>8. row' \in [Slots -> Rows]
    BY <1>2, <1>3, PeopleFacts, NoRowIsARow DEF Typed, BracketTypeOK, Rows
  <1>9. asked' \in 0..MaxAsked /\ crashes' \in 0..MaxCrashes
    BY DEF RetractClear, Typed, BracketTypeOK, count
  <1>10. job' = [job EXCEPT ![r] = n]
    BY <1>2
  <1> HIDE DEF n
  <1> QED BY <1>6, <1>7, <1>8, <1>9, <1>10, OneJob

LEMMA DeleteUnplayedTypes ==
  ASSUME Typed, NEW r \in Requests, DeleteUnplayed(r)
  PROVE  Typed'
  <1>1. job[r] \in Jobs /\ Placed(job[r]) /\ job[r].pc # "idle" /\ job[r].slot \in Slots
    BY DEF DeleteUnplayed, At, Typed, BracketTypeOK, Placed
  <1>2. PICK d \in job[r].todo :
           /\ side' = side
           /\ row' = [row EXCEPT ![d] = NoRow]
           /\ job' = [job EXCEPT ![r] = NextOf(job[r], "delete", job[r].todo \ {d}, "idle")]
    BY DEF DeleteUnplayed, count
  <1>3. d \in Slots
    BY <1>1, <1>2 DEF Jobs
  <1>4. {"delete", "idle"} \subseteq Steps
    BY DEF Steps
  <1>5. job[r].todo \ {d} \in SUBSET Slots
    BY <1>1 DEF Jobs
  <1> DEFINE n == NextOf(job[r], "delete", job[r].todo \ {d}, "idle")
  <1>6. n \in Jobs /\ Placed(n)
    BY <1>1, <1>4, <1>5, NextOfIsAJob
  <1>7. side' \in [Slots -> Pairs]
    BY <1>2, <1>3, ClearedIsAPair DEF Typed, BracketTypeOK
  <1>8. row' \in [Slots -> Rows]
    BY <1>2, <1>3, PeopleFacts, NoRowIsARow DEF Typed, BracketTypeOK, Rows
  <1>9. asked' \in 0..MaxAsked /\ crashes' \in 0..MaxCrashes
    BY DEF DeleteUnplayed, Typed, BracketTypeOK, count
  <1>10. job' = [job EXCEPT ![r] = n]
    BY <1>2
  <1> HIDE DEF n
  <1> QED BY <1>6, <1>7, <1>8, <1>9, <1>10, OneJob

LEMMA RevertFoughtTypes ==
  ASSUME Typed, NEW r \in Requests, RevertFought(r)
  PROVE  Typed'
  <1>1. job[r] \in Jobs /\ Placed(job[r]) /\ job[r].pc # "idle" /\ job[r].slot \in Slots
    BY DEF RevertFought, At, Typed, BracketTypeOK, Placed
  <1>2. PICK d \in Deepest(job[r].todo) :
           /\ side' = side
           /\ row' = [row EXCEPT ![d].status = IF @ = "none" THEN @ ELSE "scheduled",
                                 ![d].winner = Nobody]
           /\ job' = [job EXCEPT ![r] = NextOf(job[r], "revert", job[r].todo \ {d}, "sources")]
    BY DEF RevertFought, count
  <1>3. d \in Slots
    BY <1>1, <1>2 DEF Jobs, Deepest
  <1>4. {"revert", "sources"} \subseteq Steps
    BY DEF Steps
  <1>5. job[r].todo \ {d} \in SUBSET Slots
    BY <1>1 DEF Jobs
  <1> DEFINE n == NextOf(job[r], "revert", job[r].todo \ {d}, "sources")
  <1>6. n \in Jobs /\ Placed(n)
    BY <1>1, <1>4, <1>5, NextOfIsAJob
  <1>7. side' \in [Slots -> Pairs]
    BY <1>2, <1>3, ClearedIsAPair DEF Typed, BracketTypeOK
  <1>8. row' \in [Slots -> Rows]
    BY <1>2, <1>3, PeopleFacts, NoRowIsARow DEF Typed, BracketTypeOK, Rows
  <1>9. asked' \in 0..MaxAsked /\ crashes' \in 0..MaxCrashes
    BY DEF RevertFought, Typed, BracketTypeOK, count
  <1>10. job' = [job EXCEPT ![r] = n]
    BY <1>2
  <1> HIDE DEF n
  <1> QED BY <1>6, <1>7, <1>8, <1>9, <1>10, OneJob

LEMMA ClearDependentPairingTypes ==
  ASSUME Typed, NEW r \in Requests, ClearDependentPairing(r)
  PROVE  Typed'
  <1>1. job[r] \in Jobs /\ Placed(job[r]) /\ job[r].pc # "idle" /\ job[r].slot \in Slots
    BY DEF ClearDependentPairing, At, Typed, BracketTypeOK, Placed
  <1>2. PICK d \in Deepest(job[r].todo) :
           /\ side' = side
           /\ row' = [row EXCEPT ![d].pair = NoPair]
           /\ job' = [job EXCEPT ![r] = NextOf(job[r], "unpair", job[r].todo \ {d},
                                             IF job[r].op = "change" THEN "load" ELSE "root")]
    BY DEF ClearDependentPairing, count
  <1>3. d \in Slots
    BY <1>1, <1>2 DEF Jobs, Deepest
  <1>4. {"unpair", "load", "root"} \subseteq Steps
    BY DEF Steps
  <1>5. job[r].todo \ {d} \in SUBSET Slots
    BY <1>1 DEF Jobs
  <1> DEFINE n == NextOf(job[r], "unpair", job[r].todo \ {d},
                                             IF job[r].op = "change" THEN "load" ELSE "root")
  <1>6. n \in Jobs /\ Placed(n)
    BY <1>1, <1>4, <1>5, NextOfIsAJob
  <1>7. side' \in [Slots -> Pairs]
    BY <1>2, <1>3, ClearedIsAPair DEF Typed, BracketTypeOK
  <1>8. row' \in [Slots -> Rows]
    BY <1>2, <1>3, PeopleFacts, NoRowIsARow DEF Typed, BracketTypeOK, Rows
  <1>9. asked' \in 0..MaxAsked /\ crashes' \in 0..MaxCrashes
    BY DEF ClearDependentPairing, Typed, BracketTypeOK, count
  <1>10. job' = [job EXCEPT ![r] = n]
    BY <1>2
  <1> HIDE DEF n
  <1> QED BY <1>6, <1>7, <1>8, <1>9, <1>10, OneJob

LEMMA ClearFedSidesTypes ==
  ASSUME Typed, NEW r \in Requests, ClearFedSides(r)
  PROVE  Typed'
  <1>1. job[r] \in Jobs /\ Placed(job[r]) /\ job[r].slot \in Slots
    BY DEF ClearFedSides, At, Typed, BracketTypeOK, Placed
  <1>2. PICK p \in NextClears(job[r]) :
           /\ side' = [side EXCEPT ![p[2]] = Cleared(p[2], p[1])]
           /\ job' = [job EXCEPT ![r].clears = @ \ {p},
                                 ![r].pc = IF job[r].clears = {p} THEN "pairings" ELSE "clear"]
    BY DEF ClearFedSides
  <1>3. p \in Slots \X Slots
    BY <1>1, <1>2 DEF Jobs, NextClears
  <1>4. {"pairings", "clear"} \subseteq Steps
    BY DEF Steps
  <1> DEFINE n == [job[r] EXCEPT !.clears = @ \ {p},
                     !.pc = IF job[r].clears = {p} THEN "pairings" ELSE "clear"]
  <1>5. n \in Jobs /\ Placed(n)
    BY <1>1, <1>4 DEF Jobs, Placed
  <1>6. job' = [job EXCEPT ![r] = n]
    BY <1>1, <1>2 DEF Typed, BracketTypeOK, Jobs
  <1>7. side' \in [Slots -> Pairs]
    BY <1>2, <1>3, ClearedIsAPair
  <1>8. row' \in [Slots -> Rows] /\ asked' \in 0..MaxAsked /\ crashes' \in 0..MaxCrashes
    BY DEF ClearFedSides, Typed, BracketTypeOK, count
  <1> HIDE DEF n
  <1> QED BY <1>5, <1>6, <1>7, <1>8, OneJob

LEMMA InitTypes == Init => Typed
  <1> SUFFICES ASSUME Init PROVE Typed
    OBVIOUS
  <1>1. side \in [Slots -> Pairs]
    BY BracketConstants DEF Init, Pairs, People
  <1>2. row \in [Slots -> Rows]
    BY <1>1, NoRowIsARow DEF Init
  <1>3. job \in [Requests -> Jobs] /\ \A r \in Requests : Placed(job[r])
    BY IdleIsAJob DEF Init
  <1>4. asked \in 0..MaxAsked /\ crashes \in 0..MaxCrashes
    BY BracketConstants DEF Init
  <1> QED BY <1>1, <1>2, <1>3, <1>4 DEF Typed, BracketTypeOK

LEMMA StepTypes == Typed /\ [Next]_vars => Typed'
  <1> SUFFICES ASSUME Typed, [Next]_vars PROVE Typed'
    OBVIOUS
  <1>1. CASE UNCHANGED vars
    BY <1>1 DEF Typed, BracketTypeOK, Placed, vars
  <1>2. ASSUME NEW r \in Requests, NEW s \in Slots,
               \/ Start(r, s) \/ CompleteAgain(r, s)
               \/ \E w \in People : Complete(r, s, w) \/ ChangeResult(r, s, w)
               \/ \E discard \in BOOLEAN, to \in {"running", "scheduled"} : Undo(r, s, discard, to)
        PROVE  Typed'
    BY <1>2, StartTypes, CompleteAgainTypes, CompleteTypes, ChangeResultTypes, UndoTypes
  <1>3. ASSUME NEW r \in Requests, Advance(r) PROVE Typed'
    BY <1>3, LoadTypes, ReadDownstreamTypes, WriteSidesTypes, SyncReadTypes, SyncUpdateTypes,
       InsertMatchForSlotTypes, RetractClearTypes, FindUnplayedTypes, DeleteUnplayedTypes DEF Advance
  <1>4. ASSUME NEW r \in Requests, TakeBack(r) PROVE Typed'
    BY <1>4, RevertFoughtTypes, ClearFromTypes, ClearFedSidesTypes, FindPairingsTypes,
       ClearDependentPairingTypes, WriteRootTypes, RedecideTypes DEF TakeBack
  <1> QED BY <1>1, <1>2, <1>3, <1>4, CrashTypes DEF Next

(* The slots, the rows and the jobs keep their types whatever is asked, in *)
(* any bracket, with any number of requests and crashes.                   *)
THEOREM BracketTypeCorrect == Spec => []BracketTypeOK
  <1>1. Typed => BracketTypeOK
    BY DEF Typed
  <1> QED BY <1>1, InitTypes, StepTypes, PTL DEF Spec

-----------------------------------------------------------------------------
(* Completions only.  What each request carries is true of the slots and   *)
(* the rows, a side that is known never changes, and a completed bout      *)
(* keeps its winner.                                                       *)

Advancing  == {"read", "sideA", "sideB", "sync", "update", "insert"}
Retracting == {"retract", "unmake", "delete"}

CarriesIn(j, sd, rw) ==
  LET s == j.slot IN
  /\ j.pc \in {"idle", "load"} \cup Advancing \cup Retracting
  /\ \A d \in Slots : \A x \in Sides : j.copy[d][x] # Nobody => j.copy[d][x] = sd[d][x]
  /\ j.pc # "idle" => rw[s].status = "completed"
  /\ j.pc = "load" => j.later = {}
  /\ j.pc \in Advancing =>
       /\ rw[s].winner # Nobody /\ j.winner = rw[s].winner
       /\ ~(s = GrandFinal /\ rw[s].winner = sd[s]["a"])
       /\ j.loser = IF rw[s].winner = sd[s]["a"] THEN sd[s]["b"] ELSE sd[s]["a"]
  /\ j.pc \in Retracting =>
       /\ rw[s].winner # Nobody /\ s = GrandFinal /\ rw[s].winner = sd[s]["a"]
       /\ j.todo \subseteq Fed(s) /\ j.later \subseteq Fed(s)

PairsStand == \A s \in Slots : \A x \in Sides :
                row[s].pair[x] # Nobody => row[s].pair[x] = side[s][x]

SidesStand ==
  \A s, d \in Slots : \A x \in Sides :
    Takes(d, x, s) /\ side[d][x] # Nobody =>
      /\ Won(s) /\ ~EndsBracket(s, row[s].winner)
      /\ side[d][x] = Result(s, Source[d][x].takes)

FoughtKnown ==
  \A s \in Slots :
    /\ Fought(row[s]) => \A x \in Sides : side[s][x] # Nobody
    /\ row[s].winner # Nobody =>
         row[s].status = "completed" /\ \E x \in Sides : row[s].winner = side[s][x]

Earn ==
  /\ PairsStand /\ SidesStand /\ FoughtKnown
  /\ \A r \in Requests : CarriesIn(job[r], side, row)

Grows ==
  /\ \A d \in Slots : \A x \in Sides : side[d][x] # Nobody => side'[d][x] = side[d][x]
  /\ \A s \in Slots : row[s].status = "completed" =>
       row'[s].status = "completed" /\ row'[s].winner = row[s].winner

LEMMA CarriesOn ==
  ASSUME Typed, Earn, Grows, NEW j \in Jobs, Placed(j), CarriesIn(j, side, row)
  PROVE  CarriesIn(j, side', row')
  <1> DEFINE s == j.slot
  <1>1. j.copy \in [Slots -> Pairs]
    BY DEF Jobs
  <1>2. \A d \in Slots : \A x \in Sides : j.copy[d][x] # Nobody => j.copy[d][x] = side'[d][x]
    BY <1>1 DEF CarriesIn, Grows
  <1>3. CASE j.pc = "idle"
    BY <1>2, <1>3 DEF CarriesIn, Advancing, Retracting
  <1>4. CASE j.pc # "idle"
    <2>1. s \in Slots /\ row[s].status = "completed"
      BY <1>4 DEF Placed, CarriesIn
    <2>2. row'[s].status = "completed" /\ row'[s].winner = row[s].winner
      BY <2>1 DEF Grows
    <2>3. \A x \in Sides : side[s][x] # Nobody
      BY <2>1 DEF Earn, FoughtKnown, Fought
    <2>4. side'[s]["a"] = side[s]["a"] /\ side'[s]["b"] = side[s]["b"]
      BY <2>1, <2>3 DEF Grows, Sides
    <2> QED BY <1>2, <1>4, <2>2, <2>4 DEF CarriesIn
  <1> QED BY <1>3, <1>4

\* What a side held stays earned when everything only grows.
LEMMA StaysEarned ==
  ASSUME Typed, Earn, Grows,
         NEW s \in Slots, NEW d \in Slots, NEW x \in Sides,
         Takes(d, x, s), side[d][x] # Nobody
  PROVE  /\ row'[s].status = "completed" /\ row'[s].winner # Nobody
         /\ ~(s = GrandFinal /\ row'[s].winner = side'[s]["a"])
         /\ side'[d][x] = IF Source[d][x].takes = "winner" THEN row'[s].winner
                          ELSE IF row'[s].winner = side'[s]["a"] THEN side'[s]["b"] ELSE side'[s]["a"]
  <1>1. /\ Won(s) /\ ~EndsBracket(s, row[s].winner)
        /\ side[d][x] = Result(s, Source[d][x].takes)
    BY DEF Earn, SidesStand
  <1>2. row'[s].status = "completed" /\ row'[s].winner = row[s].winner
    BY <1>1 DEF Grows, Won
  <1>3. \A y \in Sides : side[s][y] # Nobody
    BY <1>1 DEF Earn, FoughtKnown, Fought, Won
  <1>4. side'[s]["a"] = side[s]["a"] /\ side'[s]["b"] = side[s]["b"]
    BY <1>3 DEF Grows, Sides
  <1>5. side'[d][x] = side[d][x]
    BY DEF Grows
  <1> QED BY <1>1, <1>2, <1>4, <1>5 DEF Won, EndsBracket, Result

\* A step that only adds, and adds what was earned.
LEMMA Adds ==
  ASSUME Typed, Earn, Grows, NEW r \in Requests, NEW j,
         job' = [job EXCEPT ![r] = j], CarriesIn(j, side', row'),
         \A s \in Slots : \A x \in Sides : row'[s].pair[x] # Nobody => row'[s].pair[x] = side'[s][x],
         \A s \in Slots :
            /\ Fought(row'[s]) => \A x \in Sides : side'[s][x] # Nobody
            /\ row'[s].winner # Nobody => row'[s].status = "completed"
                                          /\ \E x \in Sides : row'[s].winner = side'[s][x],
         \A s, d \in Slots : \A x \in Sides :
            Takes(d, x, s) /\ side[d][x] = Nobody /\ side'[d][x] # Nobody =>
              /\ row'[s].status = "completed" /\ row'[s].winner # Nobody
              /\ ~(s = GrandFinal /\ row'[s].winner = side'[s]["a"])
              /\ side'[d][x] = IF Source[d][x].takes = "winner" THEN row'[s].winner
                               ELSE IF row'[s].winner = side'[s]["a"] THEN side'[s]["b"]
                               ELSE side'[s]["a"]
  PROVE  Earn'
  <1>1. PairsStand'
    BY DEF PairsStand
  <1>2. FoughtKnown'
    BY DEF FoughtKnown, Fought
  <1>3. SidesStand'
    <2> SUFFICES ASSUME NEW s \in Slots, NEW d \in Slots, NEW x \in Sides,
                        Takes(d, x, s), side'[d][x] # Nobody
                 PROVE  /\ row'[s].status = "completed" /\ row'[s].winner # Nobody
                        /\ ~(s = GrandFinal /\ row'[s].winner = side'[s]["a"])
                        /\ side'[d][x] = IF Source[d][x].takes = "winner" THEN row'[s].winner
                             ELSE IF row'[s].winner = side'[s]["a"] THEN side'[s]["b"]
                             ELSE side'[s]["a"]
      BY DEF SidesStand, Won, EndsBracket, Result, Takes
    <2>1. CASE side[d][x] # Nobody
      BY <2>1, StaysEarned
    <2>2. CASE side[d][x] = Nobody
      BY <2>2
    <2> QED BY <2>1, <2>2
  <1>4. \A q \in Requests : CarriesIn(job'[q], side', row')
    <2> TAKE q \in Requests
    <2>1. CASE q = r
      BY <2>1 DEF Typed, BracketTypeOK
    <2>2. CASE q # r
      <3>1. job'[q] = job[q] /\ job[q] \in Jobs /\ Placed(job[q]) /\ CarriesIn(job[q], side, row)
        BY <2>2 DEF Typed, BracketTypeOK, Earn
      <3> QED BY <3>1, CarriesOn
    <2> QED BY <2>1, <2>2
  <1>5. \A q \in Requests : CarriesIn(job[q], side, row)'
    BY <1>4 DEF CarriesIn, Fed, Takes
  <1> QED BY <1>1, <1>2, <1>3, <1>5 DEF Earn

\* A step that writes no side and no row.
LEMMA OnlyItsJob ==
  ASSUME Typed, Earn, NEW r \in Requests, NEW j,
         job' = [job EXCEPT ![r] = j], CarriesIn(j, side, row), UNCHANGED <<side, row>>
  PROVE  Earn'
  <1>1. Grows
    BY DEF Grows
  <1>2. \A s \in Slots : \A x \in Sides : row'[s].pair[x] # Nobody => row'[s].pair[x] = side'[s][x]
    BY DEF Earn, PairsStand
  <1>3. \A s \in Slots :
            /\ Fought(row'[s]) => \A x \in Sides : side'[s][x] # Nobody
            /\ row'[s].winner # Nobody => row'[s].status = "completed"
                                          /\ \E x \in Sides : row'[s].winner = side'[s][x]
    BY DEF Earn, FoughtKnown
  <1>4. CarriesIn(j, side', row')
    OBVIOUS
  <1> QED BY <1>1, <1>2, <1>3, <1>4, Adds

LEMMA IdleCarries == \A sd, rw : CarriesIn(Idle, sd, rw)
  BY DEF CarriesIn, Idle, NoPair, Advancing, Retracting

\* The rest of a list: the request carries what it carried.
LEMMA NextOfCarries ==
  ASSUME NEW j \in Jobs, NEW sd, NEW rw, CarriesIn(j, sd, rw),
         NEW pc, NEW then, NEW rest,
         \/ j.pc \in Retracting /\ pc \in Retracting /\ then \in Retracting \cup {"idle"}
            /\ rest \subseteq Fed(j.slot)
         \/ j.pc \in Advancing /\ pc \in Advancing /\ then = "idle"
  PROVE  CarriesIn(NextOf(j, pc, rest, then), sd, rw)
  <1> DEFINE n == [j EXCEPT !.todo = rest, !.pc = IF rest = {} THEN then ELSE pc]
  <1>1. CASE rest = {} /\ then = "idle"
    BY <1>1, IdleCarries DEF NextOf
  <1>2. CASE ~(rest = {} /\ then = "idle")
    <2>1. /\ n.op = j.op /\ n.slot = j.slot /\ n.copy = j.copy /\ n.winner = j.winner
          /\ n.loser = j.loser /\ n.later = j.later /\ n.todo = rest
          /\ n.pc = IF rest = {} THEN then ELSE pc
      BY DEF Jobs
    <2>2. NextOf(j, pc, rest, then) = n
      BY <1>2 DEF NextOf
    <2>3. j.pc # "idle" /\ n.pc # "idle" /\ n.pc # "load"
      BY <1>2, <2>1 DEF Advancing, Retracting
    <2>4. n.pc \in Advancing => j.pc \in Advancing
      BY <1>2, <2>1 DEF Advancing, Retracting
    <2>5. n.pc \in Retracting => j.pc \in Retracting /\ rest \subseteq Fed(j.slot)
      BY <1>2, <2>1 DEF Advancing, Retracting
    <2>6. n.pc \in {"idle", "load"} \cup Advancing \cup Retracting
      BY <1>2, <2>1 DEF Advancing, Retracting
    <2> HIDE DEF n
    <2>7. CarriesIn(n, sd, rw)
      BY <2>1, <2>3, <2>4, <2>5, <2>6 DEF CarriesIn
    <2> QED BY <2>2, <2>7
  <1> QED BY <1>1, <1>2

LEMMA SyncedCarries ==
  ASSUME NEW j \in Jobs, NEW sd, NEW rw, CarriesIn(j, sd, rw), j.pc \in Advancing
  PROVE  CarriesIn(Synced(j), sd, rw)
  BY NextOfCarries DEF Synced, Advancing

\* What completions need: nothing is undone or changed.
Completions == Asked \subseteq {"again", "draw"}

LEMMA MyJob ==
  ASSUME Typed, Earn, NEW r \in Requests
  PROVE  job[r] \in Jobs /\ Placed(job[r]) /\ CarriesIn(job[r], side, row)
  BY DEF Typed, BracketTypeOK, Earn

LEMMA StartEarns ==
  ASSUME Typed, Earn, NEW r \in Requests, NEW s \in Slots, Start(r, s)
  PROVE  Earn'
  <1>1. /\ row[s].status = "scheduled" /\ \A x \in Sides : row[s].pair[x] # Nobody
        /\ row' = [row EXCEPT ![s].status = "running"] /\ side' = side /\ job' = job
    BY DEF Start, count
  <1>2. row \in [Slots -> Rows] /\ side \in [Slots -> Pairs]
    BY DEF Typed, BracketTypeOK
  <1>3. Grows
    BY <1>1, <1>2 DEF Grows, Rows
  <1>4. \A t \in Slots : row'[t].pair = row[t].pair /\ row'[t].winner = row[t].winner
    BY <1>1, <1>2 DEF Rows
  <1>5. \A t \in Slots : \A x \in Sides : row'[t].pair[x] # Nobody => row'[t].pair[x] = side'[t][x]
    BY <1>1, <1>4 DEF Earn, PairsStand
  <1>6. \A x \in Sides : side[s][x] # Nobody
    BY <1>1 DEF Earn, PairsStand
  <1>7. ASSUME NEW t \in Slots
        PROVE  /\ Fought(row'[t]) => \A x \in Sides : side'[t][x] # Nobody
               /\ row'[t].winner # Nobody => row'[t].status = "completed"
                                             /\ \E x \in Sides : row'[t].winner = side'[t][x]
    <2>1. CASE t # s
      BY <1>1, <1>2, <2>1 DEF Earn, FoughtKnown
    <2>2. CASE t = s
      <3>1. row[s].winner = Nobody
        BY <1>1 DEF Earn, FoughtKnown
      <3> QED BY <1>1, <1>4, <1>6, <2>2, <3>1
    <2> QED BY <2>1, <2>2
  <1>8. job' = [job EXCEPT ![r] = job[r]] /\ CarriesIn(job[r], side', row')
    BY <1>1, <1>3, MyJob, CarriesOn DEF Typed, BracketTypeOK
  <1> QED BY <1>1, <1>3, <1>5, <1>7, <1>8, Adds

LEMMA NewCompletion ==
  ASSUME NEW s \in Slots, NEW sd, NEW rw, rw[s].status = "completed"
  PROVE  CarriesIn([Idle EXCEPT !.op = "complete", !.slot = s, !.pc = "load"], sd, rw)
  <1> DEFINE n == [Idle EXCEPT !.op = "complete", !.slot = s, !.pc = "load"]
  <1>1. /\ n.op = "complete" /\ n.slot = s /\ n.pc = "load" /\ n.later = {}
        /\ n.copy = [d \in Slots |-> NoPair]
    BY DEF Idle
  <1> HIDE DEF n
  <1>2. CarriesIn(n, sd, rw)
    BY <1>1 DEF CarriesIn, NoPair, Advancing, Retracting
  <1> QED BY <1>2 DEF n

LEMMA CompleteEarns ==
  ASSUME Typed, Earn, NEW r \in Requests, NEW s \in Slots, NEW w \in People, Complete(r, s, w)
  PROVE  Earn'
  <1>1. /\ row[s].status = "running" /\ side' = side
        /\ row' = [row EXCEPT ![s].status = "completed", ![s].winner = w]
        /\ job' = [job EXCEPT ![r] = [Idle EXCEPT !.op = "complete", !.slot = s, !.pc = "load"]]
    BY DEF Complete, count
  <1>2. row \in [Slots -> Rows] /\ side \in [Slots -> Pairs]
    BY DEF Typed, BracketTypeOK
  <1>3. Grows
    BY <1>1, <1>2 DEF Grows, Rows
  <1>4. \A t \in Slots : row'[t].pair = row[t].pair
    BY <1>1, <1>2 DEF Rows
  <1>5. ASSUME NEW t \in Slots, NEW x \in Sides, row'[t].pair[x] # Nobody
        PROVE  row'[t].pair[x] = side'[t][x]
    <2>1. row'[t].pair = row[t].pair /\ side'[t] = side[t]
      BY <1>1, <1>4
    <2> QED BY <1>5, <2>1 DEF Earn, PairsStand
  <1>6. row'[s].status = "completed" /\ row'[s].winner = w
    BY <1>1, <1>2 DEF Rows
  <1>7. w # Nobody => \E x \in Sides : w = side[s][x]
    BY DEF Complete, MayWin, Earn, PairsStand
  <1>8. ASSUME NEW t \in Slots
        PROVE  /\ Fought(row'[t]) => \A x \in Sides : side'[t][x] # Nobody
               /\ row'[t].winner # Nobody => row'[t].status = "completed"
                                             /\ \E x \in Sides : row'[t].winner = side'[t][x]
    <2>1. CASE t # s
      BY <1>1, <1>2, <2>1 DEF Earn, FoughtKnown
    <2>2. CASE t = s
      BY <1>1, <1>6, <1>7, <2>2 DEF Earn, FoughtKnown, Fought
    <2> QED BY <2>1, <2>2
  <1>9. CarriesIn([Idle EXCEPT !.op = "complete", !.slot = s, !.pc = "load"], side', row')
    BY <1>6, NewCompletion
  <1> QED BY <1>1, <1>3, <1>5, <1>8, <1>9, Adds

LEMMA CompleteAgainEarns ==
  ASSUME Typed, Earn, NEW r \in Requests, NEW s \in Slots, CompleteAgain(r, s)
  PROVE  Earn'
  <1>1. CarriesIn([Idle EXCEPT !.op = "complete", !.slot = s, !.pc = "load"], side, row)
    BY NewCompletion DEF CompleteAgain, Asks
  <1> QED BY <1>1, OnlyItsJob DEF CompleteAgain

LEMMA CrashEarns ==
  ASSUME Typed, Earn, NEW r \in Requests, Crash(r)
  PROVE  Earn'
  BY IdleCarries, OnlyItsJob DEF Crash, Done

LEMMA LoadEarns ==
  ASSUME Typed, Earn, NEW r \in Requests, Load(r)
  PROVE  Earn'
  <1> DEFINE j == job[r]
             s == j.slot
             w == row[s].winner
  <1>1. j \in Jobs /\ Placed(j) /\ CarriesIn(j, side, row) /\ j.pc = "load"
    BY MyJob DEF Load, At
  <1>2. s \in Slots /\ row[s].status = "completed"
    BY <1>1 DEF Placed, CarriesIn
  <1>3. \A x \in Sides : side[s][x] # Nobody
    BY <1>2 DEF Earn, FoughtKnown, Fought
  <1>4. w # Nobody => w = side[s]["a"] \/ w = side[s]["b"]
    BY <1>2 DEF Earn, FoughtKnown, Sides
  <1>5. CASE w = Nobody
    BY <1>5, IdleCarries, OnlyItsJob DEF Load, Done
  <1>6. CASE w # Nobody /\ EndsBracket(s, w)
    <2> DEFINE n == [j EXCEPT !.pc = "retract", !.todo = Fed(s)]
    <2>1. /\ n.op = j.op /\ n.pc = "retract" /\ n.slot = s /\ n.copy = j.copy
          /\ n.todo = Fed(s) /\ n.later = j.later
      BY <1>1 DEF Jobs
    <2>2. j.later \subseteq Fed(s)
      BY <1>1 DEF CarriesIn
    <2> HIDE DEF n
    <2>3. CarriesIn(n, side, row)
      BY <1>1, <1>2, <1>6, <2>1, <2>2 DEF CarriesIn, Advancing, Retracting, EndsBracket
    <2>4. job' = [job EXCEPT ![r] = n]
      BY <1>6 DEF Load, n, Typed, BracketTypeOK
    <2> QED BY <2>3, <2>4, OnlyItsJob DEF Load
  <1>7. CASE w # Nobody /\ ~EndsBracket(s, w)
    <2> DEFINE n == [j EXCEPT !.winner = w, !.loser = LoserOf(s, w), !.pc = "read"]
    <2>1. /\ n.op = j.op /\ n.pc = "read" /\ n.slot = s /\ n.copy = j.copy
          /\ n.winner = w /\ n.loser = LoserOf(s, w)
      BY <1>1 DEF Jobs
    <2>2. LoserOf(s, w) = IF w = side[s]["a"] THEN side[s]["b"] ELSE side[s]["a"]
      BY <1>3, <1>4, <1>7 DEF LoserOf, Sides
    <2> HIDE DEF n
    <2>3. CarriesIn(n, side, row)
      BY <1>1, <1>2, <1>7, <2>1, <2>2 DEF CarriesIn, Advancing, Retracting, EndsBracket
    <2>4. job' = [job EXCEPT ![r] = n]
      BY <1>7 DEF Load, n, Typed, BracketTypeOK
    <2> QED BY <2>3, <2>4, OnlyItsJob DEF Load
  <1> QED BY <1>5, <1>6, <1>7

LEMMA ReadDownstreamEarns ==
  ASSUME Typed, Earn, NEW r \in Requests, ReadDownstream(r)
  PROVE  Earn'
  <1> DEFINE j == job[r]
             copy == [d \in Slots |-> IF d \in Fed(j.slot) THEN side[d] ELSE NoPair]
             n == [j EXCEPT !.copy = copy, !.todo = Fed(j.slot), !.pc = "sideA"]
  <1>1. j \in Jobs /\ Placed(j) /\ CarriesIn(j, side, row) /\ j.pc = "read"
    BY MyJob DEF ReadDownstream, At
  <1>2. CASE Fed(j.slot) = {}
    BY <1>2, IdleCarries, OnlyItsJob DEF ReadDownstream
  <1>3. CASE Fed(j.slot) # {}
    <2>1. /\ n.op = j.op /\ n.pc = "sideA" /\ n.slot = j.slot /\ n.copy = copy
          /\ n.winner = j.winner /\ n.loser = j.loser
      BY <1>1 DEF Jobs
    <2>2. \A d \in Slots : \A x \in Sides : copy[d][x] # Nobody => copy[d][x] = side[d][x]
      BY DEF NoPair
    <2> HIDE DEF n, copy
    <2>3. CarriesIn(n, side, row)
      BY <1>1, <2>1, <2>2 DEF CarriesIn, Advancing, Retracting
    <2>4. job' = [job EXCEPT ![r] = n]
      BY <1>3 DEF ReadDownstream, n, copy
    <2> QED BY <2>3, <2>4, OnlyItsJob DEF ReadDownstream
  <1> QED BY <1>2, <1>3

\* The heart: what is written was earned, and is what an earlier write put there.
LEMMA WriteSlotSideEarns ==
  ASSUME Typed, Earn, NEW r \in Requests, NEW d \in Slots, NEW x \in Sides,
         NEW pc \in {"sideB", "sync"}, job[r].pc \in Advancing,
         WriteSlotSide(r, d, x, pc)
  PROVE  Earn'
  <1> DEFINE j == job[r]
             s == j.slot
             p == Writes(j, d, x)
             c == IF p = Nobody THEN j.copy ELSE [j.copy EXCEPT ![d][x] = p]
             n == [j EXCEPT !.copy = c, !.at = d, !.pc = pc]
  <1>1. j \in Jobs /\ Placed(j) /\ CarriesIn(j, side, row) /\ j.pc # "idle"
    BY MyJob DEF Advancing
  <1>2. row \in [Slots -> Rows] /\ side \in [Slots -> Pairs]
    BY DEF Typed, BracketTypeOK
  <1>3. s \in Slots /\ row[s].status = "completed"
    BY <1>1 DEF Placed, CarriesIn
  <1>4. /\ row[s].winner # Nobody /\ j.winner = row[s].winner
        /\ ~(s = GrandFinal /\ row[s].winner = side[s]["a"])
        /\ j.loser = IF row[s].winner = side[s]["a"] THEN side[s]["b"] ELSE side[s]["a"]
    BY <1>1 DEF CarriesIn
  <1>5. side[s]["a"] # Nobody /\ side[s]["b"] # Nobody
    BY <1>3 DEF Earn, FoughtKnown, Fought, Sides
  <1>6. /\ side' = IF p = Nobody THEN side ELSE [side EXCEPT ![d][x] = p]
        /\ row' = row
    BY DEF WriteSlotSide
  <1>7. job' = [job EXCEPT ![r] = n]
    BY <1>1 DEF WriteSlotSide, Jobs, Typed, BracketTypeOK
  <1>8. p # Nobody => Takes(d, x, s) /\ p = Result(s, Source[d][x].takes)
    BY <1>4 DEF Writes, Result
  <1>9. p # Nobody /\ side[d][x] # Nobody => side[d][x] = p
    BY <1>3, <1>8 DEF Earn, SidesStand
  <1>10. \A e \in Slots : \A y \in Sides :
           side'[e][y] = IF p # Nobody /\ e = d /\ y = x THEN p ELSE side[e][y]
    BY <1>2, <1>6 DEF Pairs
  <1>11. Grows
    BY <1>6, <1>9, <1>10 DEF Grows
  <1>12. side'[s]["a"] = side[s]["a"] /\ side'[s]["b"] = side[s]["b"]
    BY <1>3, <1>5, <1>11 DEF Grows, Sides
  <1>13. \A t \in Slots : \A y \in Sides : row'[t].pair[y] # Nobody => row'[t].pair[y] = side'[t][y]
    BY <1>6, <1>11 DEF Earn, PairsStand, Grows
  <1>14. ASSUME NEW t \in Slots
         PROVE  /\ Fought(row'[t]) => \A y \in Sides : side'[t][y] # Nobody
                /\ row'[t].winner # Nobody => row'[t].status = "completed"
                                              /\ \E y \in Sides : row'[t].winner = side'[t][y]
    BY <1>6, <1>11 DEF Earn, FoughtKnown, Grows
  <1>15. ASSUME NEW t \in Slots, NEW e \in Slots, NEW y \in Sides,
                Takes(e, y, t), side[e][y] = Nobody, side'[e][y] # Nobody
         PROVE  /\ row'[t].status = "completed" /\ row'[t].winner # Nobody
                /\ ~(t = GrandFinal /\ row'[t].winner = side'[t]["a"])
                /\ side'[e][y] = IF Source[e][y].takes = "winner" THEN row'[t].winner
                                 ELSE IF row'[t].winner = side'[t]["a"] THEN side'[t]["b"]
                                 ELSE side'[t]["a"]
    <2>1. p # Nobody /\ e = d /\ y = x
      BY <1>10, <1>15
    <2>2. t = s
      BY <1>3, <1>8, <1>15, <2>1, BracketConstants DEF Takes
    <2>3. side'[e][y] = Result(s, Source[d][x].takes)
      BY <1>8, <1>10, <2>1
    <2> QED BY <1>3, <1>4, <1>6, <1>12, <2>1, <2>2, <2>3 DEF Result
  <1>16. CarriesIn(n, side', row')
    <2>1. CarriesIn(j, side', row')
      BY <1>1, <1>11, CarriesOn
    <2>2. /\ n.op = j.op /\ n.pc = pc /\ n.slot = s /\ n.copy = c
          /\ n.winner = j.winner /\ n.loser = j.loser
      BY <1>1 DEF Jobs
    <2>3. j.copy \in [Slots -> Pairs]
      BY <1>1 DEF Jobs
    <2>4. \A e \in Slots : \A y \in Sides :
            c[e][y] = IF p # Nobody /\ e = d /\ y = x THEN p ELSE j.copy[e][y]
      BY <2>3 DEF Pairs
    <2> HIDE DEF c, p, n
    <2>5. \A e \in Slots : \A y \in Sides : c[e][y] # Nobody => c[e][y] = side'[e][y]
      BY <1>10, <2>1, <2>4 DEF CarriesIn
    <2> QED BY <1>1, <2>1, <2>2, <2>5 DEF CarriesIn, Advancing, Retracting
  <1> HIDE DEF n
  <1> QED BY <1>7, <1>11, <1>13, <1>14, <1>15, <1>16, Adds, ZenonT(60)

LEMMA WriteSidesEarn ==
  ASSUME Typed, Earn, NEW r \in Requests, WriteSideA(r) \/ WriteSideB(r)
  PROVE  Earn'
  <1>1. job[r] \in Jobs /\ Placed(job[r])
    BY MyJob
  <1>2. CASE WriteSideA(r)
    <2>1. PICK d \in job[r].todo : WriteSlotSide(r, d, "a", "sideB")
      BY <1>2 DEF WriteSideA
    <2>2. d \in Slots /\ "a" \in Sides /\ job[r].pc \in Advancing
      BY <1>1, <1>2 DEF WriteSideA, At, Jobs, Sides, Advancing
    <2> QED BY <2>1, <2>2, WriteSlotSideEarns
  <1>3. CASE WriteSideB(r)
    <2>1. job[r].at \in Slots /\ "b" \in Sides /\ job[r].pc \in Advancing
      BY <1>1, <1>3 DEF WriteSideB, At, Placed, Sides, Advancing
    <2> QED BY <1>3, <2>1, WriteSlotSideEarns DEF WriteSideB
  <1> QED BY <1>2, <1>3

LEMMA MovedOn ==
  ASSUME NEW j \in Jobs, NEW sd, NEW rw, CarriesIn(j, sd, rw), j.pc \in Advancing,
         NEW pc \in Advancing
  PROVE  CarriesIn([j EXCEPT !.pc = pc], sd, rw)
  <1> DEFINE n == [j EXCEPT !.pc = pc]
  <1>1. /\ n.op = j.op /\ n.slot = j.slot /\ n.copy = j.copy /\ n.winner = j.winner
        /\ n.loser = j.loser /\ n.pc = pc
    BY DEF Jobs
  <1> HIDE DEF n
  <1>2. CarriesIn(n, sd, rw)
    BY <1>1 DEF CarriesIn, Advancing, Retracting
  <1> QED BY <1>2 DEF n

LEMMA SyncReadEarns ==
  ASSUME Typed, Earn, NEW r \in Requests, SyncRead(r)
  PROVE  Earn'
  <1> DEFINE j == job[r]
  <1>1. j \in Jobs /\ CarriesIn(j, side, row) /\ j.pc \in Advancing
    BY MyJob DEF SyncRead, At, Advancing
  <1>2. CarriesIn(Synced(j), side, row)
    BY <1>1, SyncedCarries
  <1>3. /\ CarriesIn([j EXCEPT !.pc = "update"], side, row)
        /\ CarriesIn([j EXCEPT !.pc = "insert"], side, row)
    BY <1>1, MovedOn DEF Advancing
  <1>4. PICK n \in {Synced(j), [j EXCEPT !.pc = "update"], [j EXCEPT !.pc = "insert"]} :
          job' = [job EXCEPT ![r] = n]
    BY DEF SyncRead
  <1>5. CarriesIn(n, side, row)
    BY <1>2, <1>3, <1>4
  <1> QED BY <1>4, <1>5, OnlyItsJob DEF SyncRead

\* A row is given a pair the request's copy vouches for.
LEMMA PairWritten ==
  ASSUME Typed, Earn, NEW r \in Requests, NEW j, NEW t \in Slots, NEW e \in Rows,
         side' = side, row' = [row EXCEPT ![t] = e], job' = [job EXCEPT ![r] = j],
         CarriesIn(j, side, row),
         \A x \in Sides : e.pair[x] # Nobody => e.pair[x] = side[t][x],
         \/ e.status = row[t].status /\ e.winner = row[t].winner
         \/ ~Fought(row[t]) /\ ~Fought(e) /\ e.winner = Nobody,
         j \in Jobs, Placed(j)
  PROVE  Earn'
  <1>1. row \in [Slots -> Rows]
    BY DEF Typed, BracketTypeOK
  <1>2. row'[t] = e /\ \A u \in Slots : u # t => row'[u] = row[u]
    BY <1>1
  <1>3. Grows
    BY <1>2 DEF Grows, Fought
  <1>4. \A u \in Slots : \A x \in Sides : row'[u].pair[x] # Nobody => row'[u].pair[x] = side'[u][x]
    BY <1>2 DEF Earn, PairsStand
  <1>5. ASSUME NEW u \in Slots
        PROVE  /\ Fought(row'[u]) => \A x \in Sides : side'[u][x] # Nobody
               /\ row'[u].winner # Nobody => row'[u].status = "completed"
                                             /\ \E x \in Sides : row'[u].winner = side'[u][x]
    BY <1>2 DEF Earn, FoughtKnown, Fought
  <1>6. CarriesIn(j, side', row')
    BY <1>3, CarriesOn
  <1> QED BY <1>3, <1>4, <1>5, <1>6, Adds

LEMMA SyncUpdateEarns ==
  ASSUME Typed, Earn, NEW r \in Requests, SyncUpdate(r)
  PROVE  Earn'
  <1> DEFINE j == job[r]
             e == [row[j.at] EXCEPT !.pair = j.copy[j.at]]
  <1>1. j \in Jobs /\ Placed(j) /\ CarriesIn(j, side, row) /\ j.pc = "update"
    BY MyJob DEF SyncUpdate, At
  <1>2. CarriesIn(Synced(j), side, row) /\ Synced(j) \in Jobs /\ Placed(Synced(j))
    BY <1>1, SyncedCarries, SyncedIsAJob DEF Advancing
  <1>3. j.at \in Slots /\ row \in [Slots -> Rows] /\ j.copy[j.at] \in Pairs
    BY <1>1 DEF Placed, Typed, BracketTypeOK, Jobs
  <1>4. CASE row[j.at].status = "none"
    BY <1>2, <1>4, OnlyItsJob DEF SyncUpdate
  <1>5. CASE row[j.at].status # "none"
    <2>1. /\ e \in Rows /\ e.pair = j.copy[j.at] /\ e.status = row[j.at].status
          /\ e.winner = row[j.at].winner
      BY <1>3 DEF Rows
    <2>2. row' = [row EXCEPT ![j.at] = e] /\ side' = side /\ job' = [job EXCEPT ![r] = Synced(j)]
      BY <1>5 DEF SyncUpdate, Rows
    <2>3. \A x \in Sides : e.pair[x] # Nobody => e.pair[x] = side[j.at][x]
      BY <1>1, <1>3, <2>1 DEF CarriesIn
    <2> HIDE DEF e
    <2> QED BY <1>2, <1>3, <2>1, <2>2, <2>3, PairWritten
  <1> QED BY <1>4, <1>5

LEMMA InsertEarns ==
  ASSUME Typed, Earn, NEW r \in Requests, InsertMatchForSlot(r)
  PROVE  Earn'
  <1> DEFINE j == job[r]
             e == Placeholder(j.copy[j.at])
  <1>1. j \in Jobs /\ Placed(j) /\ CarriesIn(j, side, row) /\ j.pc = "insert"
    BY MyJob DEF InsertMatchForSlot, At
  <1>2. CarriesIn(Synced(j), side, row) /\ Synced(j) \in Jobs /\ Placed(Synced(j))
    BY <1>1, SyncedCarries, SyncedIsAJob DEF Advancing
  <1>3. j.at \in Slots /\ row \in [Slots -> Rows] /\ j.copy[j.at] \in Pairs
    BY <1>1 DEF Placed, Typed, BracketTypeOK, Jobs
  <1>4. CASE row[j.at].status = "none"
    <2>1. e \in Rows /\ e.pair = j.copy[j.at] /\ e.status = "scheduled" /\ e.winner = Nobody
      BY <1>3, NoRowIsARow DEF Placeholder
    <2>2. row' = [row EXCEPT ![j.at] = e] /\ side' = side /\ job' = [job EXCEPT ![r] = Synced(j)]
      BY <1>4 DEF InsertMatchForSlot
    <2>3. \A x \in Sides : e.pair[x] # Nobody => e.pair[x] = side[j.at][x]
      BY <1>1, <1>3, <2>1 DEF CarriesIn
    <2>4. ~Fought(row[j.at]) /\ ~Fought(e)
      BY <1>4, <2>1 DEF Fought
    <2> HIDE DEF e
    <2> QED BY <1>2, <1>3, <2>1, <2>2, <2>3, <2>4, PairWritten
  <1>5. CASE row[j.at].status # "none"
    <2>1. job' = [job EXCEPT ![r] = [j EXCEPT !.pc = "sync"]]
      BY <1>5 DEF InsertMatchForSlot, Typed, BracketTypeOK
    <2>2. CarriesIn([j EXCEPT !.pc = "sync"], side, row)
      BY <1>1, MovedOn DEF Advancing
    <2> QED BY <1>5, <2>1, <2>2, OnlyItsJob DEF InsertMatchForSlot
  <1> QED BY <1>4, <1>5

\* A bout that ends the bracket has fed nobody, so there is nobody to clear.
LEMMA NobodyToClear ==
  ASSUME Typed, Earn, NEW r \in Requests, job[r].pc \in Retracting
  PROVE  /\ job[r].slot \in Slots
         /\ \A d \in Slots : \A x \in Sides : Takes(d, x, job[r].slot) => side[d][x] = Nobody
  <1>1. Placed(job[r]) /\ CarriesIn(job[r], side, row)
    BY MyJob
  <1>2. job[r].slot \in Slots
    BY <1>1 DEF Placed, Retracting
  <1>3. EndsBracket(job[r].slot, row[job[r].slot].winner)
    BY <1>1 DEF CarriesIn, EndsBracket
  <1> QED BY <1>2, <1>3 DEF Earn, SidesStand

LEMMA RetractClearEarns ==
  ASSUME Typed, Earn, NEW r \in Requests, RetractClear(r)
  PROVE  Earn'
  <1> DEFINE j == job[r]
             m(d) == NextOf(j, "retract", j.todo \ {d}, "unmake")
  <1>1. j \in Jobs /\ Placed(j) /\ CarriesIn(j, side, row) /\ j.pc = "retract"
    BY MyJob DEF RetractClear, At
  <1>2. PICK d \in j.todo : /\ side' = [side EXCEPT ![d] = Cleared(d, j.slot)]
                            /\ job' = [job EXCEPT ![r] = [m(d) EXCEPT !.later = @ \cup {d}]]
    BY DEF RetractClear
  <1>3. d \in Fed(j.slot) /\ d \in Slots /\ j.todo \ {d} \subseteq Fed(j.slot)
    BY <1>1, <1>2 DEF CarriesIn, Retracting, Jobs
  <1>4. side \in [Slots -> Pairs]
    BY DEF Typed, BracketTypeOK
  <1>5. Cleared(d, j.slot) = side[d]
    BY <1>1, <1>3, <1>4, NobodyToClear DEF Cleared, Pairs, Retracting
  <1>6. side' = side /\ row' = row
    BY <1>2, <1>4, <1>5 DEF RetractClear
  <1>7. CarriesIn(m(d), side, row)
    BY <1>1, <1>3, NextOfCarries DEF Retracting
  <1>8. m(d) \in Jobs /\ m(d).slot = j.slot /\ m(d).pc \in {"retract", "unmake"}
    <2>1. m(d) = [j EXCEPT !.todo = j.todo \ {d}, !.pc = IF j.todo \ {d} = {} THEN "unmake" ELSE "retract"]
      BY DEF NextOf
    <2>2. {"retract", "unmake"} \subseteq Steps
      BY DEF Steps
    <2>3. j.todo \ {d} \in SUBSET Slots
      BY <1>1 DEF Jobs
    <2> QED BY <1>1, <2>1, <2>2, <2>3 DEF Jobs
  <1> DEFINE n == [m(d) EXCEPT !.later = @ \cup {d}]
  <1> HIDE DEF m
  <1>9. /\ n.op = m(d).op /\ n.pc = m(d).pc /\ n.slot = j.slot /\ n.copy = m(d).copy
        /\ n.todo = m(d).todo /\ n.later = m(d).later \cup {d}
    BY <1>8 DEF Jobs
  <1> HIDE DEF n
  <1>10. CarriesIn(n, side, row)
    BY <1>3, <1>7, <1>8, <1>9 DEF CarriesIn, Advancing, Retracting
  <1>11. job' = [job EXCEPT ![r] = n]
    BY <1>2 DEF n
  <1> QED BY <1>6, <1>10, <1>11, OnlyItsJob

LEMMA FindUnplayedEarns ==
  ASSUME Typed, Earn, NEW r \in Requests, FindUnplayed(r)
  PROVE  Earn'
  <1> DEFINE j == job[r]
             rest == {d \in j.later : row[d].status = "scheduled"}
  <1>1. j \in Jobs /\ CarriesIn(j, side, row) /\ j.pc = "unmake"
    BY MyJob DEF FindUnplayed, At
  <1>2. rest \subseteq Fed(j.slot)
    BY <1>1 DEF CarriesIn, Retracting
  <1> HIDE DEF rest
  <1>3. CarriesIn(NextOf(j, "delete", rest, "idle"), side, row)
    BY <1>1, <1>2, NextOfCarries DEF Retracting
  <1>4. job' = [job EXCEPT ![r] = NextOf(j, "delete", rest, "idle")]
    BY DEF FindUnplayed, rest
  <1> QED BY <1>3, <1>4, OnlyItsJob DEF FindUnplayed

\* A slot the grand final feeds has an empty side, so its bout was not started.
LEMMA DeleteUnplayedEarns ==
  ASSUME Typed, Earn, NEW r \in Requests, DeleteUnplayed(r)
  PROVE  Earn'
  <1> DEFINE j == job[r]
             n(d) == NextOf(j, "delete", j.todo \ {d}, "idle")
  <1>1. j \in Jobs /\ Placed(j) /\ CarriesIn(j, side, row) /\ j.pc = "delete"
    BY MyJob DEF DeleteUnplayed, At
  <1>2. PICK d \in j.todo : row' = [row EXCEPT ![d] = NoRow] /\ job' = [job EXCEPT ![r] = n(d)]
    BY DEF DeleteUnplayed
  <1>3. d \in Fed(j.slot) /\ d \in Slots /\ j.todo \ {d} \subseteq Fed(j.slot)
    BY <1>1, <1>2 DEF CarriesIn, Retracting, Jobs
  <1>4. CarriesIn(n(d), side, row)
    BY <1>1, <1>3, NextOfCarries DEF Retracting
  <1>5. n(d) \in Jobs /\ Placed(n(d))
    <2>1. {"delete", "idle"} \subseteq Steps
      BY DEF Steps
    <2>2. j.todo \ {d} \in SUBSET Slots
      BY <1>1 DEF Jobs
    <2> QED BY <1>1, <2>1, <2>2, NextOfIsAJob
  <1>6. \E x \in Sides : side[d][x] = Nobody
    BY <1>1, <1>3, NobodyToClear DEF Fed, Retracting
  <1>7. ~Fought(row[d])
    BY <1>3, <1>6 DEF Earn, FoughtKnown
  <1>8. /\ NoRow \in Rows /\ NoRow.winner = Nobody /\ ~Fought(NoRow)
        /\ \A x \in Sides : NoRow.pair[x] = Nobody
    BY NoRowIsARow DEF NoRow, NoPair, Fought
  <1> HIDE DEF n
  <1>9. side' = side
    BY DEF DeleteUnplayed
  <1> QED BY <1>2, <1>3, <1>4, <1>5, <1>7, <1>8, <1>9, PairWritten

LEMMA InitEarns == Init => Earn
  <1> SUFFICES ASSUME Init PROVE Earn
    OBVIOUS
  <1>1. PairsStand
    BY DEF Init, PairsStand, NoRow, Placeholder, NoPair
  <1>2. SidesStand
    BY DEF Init, SidesStand, Takes
  <1>3. FoughtKnown
    BY DEF Init, FoughtKnown, Fought, NoRow, Placeholder
  <1> QED BY <1>1, <1>2, <1>3, IdleCarries DEF Earn, Init

LEMMA StepEarns == Completions /\ Typed /\ Earn /\ [Next]_vars => Earn'
  <1> SUFFICES ASSUME Completions, Typed, Earn, [Next]_vars PROVE Earn'
    OBVIOUS
  <1>1. CASE UNCHANGED vars
    <2>1. side' = side /\ row' = row /\ job' = job
      BY <1>1 DEF vars
    <2> QED BY <2>1 DEF Earn, PairsStand, SidesStand, FoughtKnown, CarriesIn, Won, EndsBracket,
                        Result, Takes, Fought, Fed
  <1>2. ASSUME NEW r \in Requests, NEW s \in Slots,
               \/ Start(r, s) \/ CompleteAgain(r, s)
               \/ \E w \in People : Complete(r, s, w) \/ ChangeResult(r, s, w)
               \/ \E discard \in BOOLEAN, to \in {"running", "scheduled"} : Undo(r, s, discard, to)
        PROVE  Earn'
    <2>1. \A w : ~ChangeResult(r, s, w)
      BY DEF ChangeResult, Asks, Completions
    <2>2. \A discard, to : ~Undo(r, s, discard, to)
      BY DEF Undo, Asks, Completions
    <2> QED BY <1>2, <2>1, <2>2, StartEarns, CompleteAgainEarns, CompleteEarns
  <1>3. ASSUME NEW r \in Requests, Advance(r) PROVE Earn'
    BY <1>3, LoadEarns, ReadDownstreamEarns, WriteSidesEarn, SyncReadEarns, SyncUpdateEarns,
       InsertEarns, RetractClearEarns, FindUnplayedEarns, DeleteUnplayedEarns DEF Advance
  <1>4. ASSUME NEW r \in Requests, TakeBack(r) PROVE FALSE
    <2>1. job[r].pc \in {"idle", "load"} \cup Advancing \cup Retracting
      BY MyJob DEF CarriesIn
    <2> QED BY <1>4, <2>1 DEF TakeBack, RevertFought, ClearFrom, ClearFedSides, FindPairings,
                ClearDependentPairing, WriteRoot, Redecide, At, Advancing, Retracting
  <1> QED BY <1>1, <1>2, <1>3, <1>4, CrashEarns DEF Next

(* When bouts complete, again or for nobody too, and nothing is undone,    *)
(* every side of every slot holds nobody or the fighter its feeder's       *)
(* result sends: in any bracket, with any number of completions at once    *)
(* and a request dying after any step.                                     *)
THEOREM CompletionsEarn ==
  ASSUME Completions
  PROVE  Spec => []SidesAreEarned
  <1>1. Earn => SidesAreEarned
    BY DEF Earn, SidesStand, SidesAreEarned
  <1>2. Init => Typed /\ Earn
    BY InitTypes, InitEarns
  <1>3. Typed /\ Earn /\ [Next]_vars => (Typed /\ Earn)'
    BY StepTypes, StepEarns
  <1> QED BY <1>1, <1>2, <1>3, PTL DEF Spec

(* Nor does the row of a bout name a fighter its slot does not hold, in    *)
(* the same brackets and histories: what a request writes on a row it read *)
(* from the slot, and a known side never changes (syncMatchToSlot).        *)
THEOREM CompletionsFollow ==
  ASSUME Completions
  PROVE  Spec => []RowsFollowSlots
  <1>1. Earn => RowsFollowSlots
    BY DEF Earn, PairsStand, RowsFollowSlots
  <1>2. Init => Typed /\ Earn
    BY InitTypes, InitEarns
  <1>3. Typed /\ Earn /\ [Next]_vars => (Typed /\ Earn)'
    BY StepTypes, StepEarns
  <1> QED BY <1>1, <1>2, <1>3, PTL DEF Spec

-----------------------------------------------------------------------------
(* A result that is still missing from a side it feeds is in the hands of  *)
(* a request that has yet to write it, as long as no request died.         *)

Owes(j, s, d, x) ==
  /\ j.slot = s
  /\ \/ j.pc \in {"load", "read"}
     \/ j.pc = "sideA" /\ d \in j.todo
     \/ j.pc = "sideB" /\ (d \in j.todo \ {j.at} \/ (d = j.at /\ x = "b"))
     \/ j.pc \in {"sync", "update", "insert"} /\ d \in j.todo \ {j.at}

Owed ==
  crashes = 0 =>
    \A s, d \in Slots : \A x \in Sides :
      Takes(d, x, s) /\ Won(s) /\ ~EndsBracket(s, row[s].winner) /\ side[d][x] = Nobody =>
        \E r \in Requests : Owes(job[r], s, d, x)

\* The bout sends its winner and its loser on, in the state after the step.
Sends(s, rw, sd) ==
  /\ rw[s].status = "completed" /\ rw[s].winner # Nobody
  /\ ~(s = GrandFinal /\ rw[s].winner = sd[s]["a"])

\* A step that gives one request a job that owes what the old one still owed.
LEMMA StillOwed ==
  ASSUME Typed, Earn, Owed, Grows, NEW r \in Requests, NEW j,
         job' = [job EXCEPT ![r] = j], crashes' = crashes,
         \A s, d \in Slots : \A x \in Sides :
            Takes(d, x, s) /\ Sends(s, row', side') /\ side'[d][x] = Nobody
            /\ (Owes(job[r], s, d, x) \/ row[s].status # "completed") => Owes(j, s, d, x)
  PROVE  Owed'
  <1> SUFFICES ASSUME crashes = 0, NEW s \in Slots, NEW d \in Slots, NEW x \in Sides,
                      Takes(d, x, s), Sends(s, row', side'), side'[d][x] = Nobody
               PROVE  \E q \in Requests : Owes(job'[q], s, d, x)
    BY DEF Owed, Owes, Sends, Takes, Won, EndsBracket
  <1>1. job'[r] = j /\ \A q \in Requests : q # r => job'[q] = job[q]
    BY DEF Typed, BracketTypeOK
  <1>2. CASE row[s].status # "completed"
    BY <1>1, <1>2
  <1>3. CASE row[s].status = "completed"
    <2>1. row'[s].winner = row[s].winner
      BY <1>3 DEF Grows
    <2>2. side'[s]["a"] = side[s]["a"]
      BY <1>3 DEF Grows, Earn, FoughtKnown, Fought, Sides
    <2>3. side[d][x] = Nobody
      BY DEF Grows
    <2>4. PICK q \in Requests : Owes(job[q], s, d, x)
      BY <1>3, <2>1, <2>2, <2>3 DEF Owed, Sends, Won, EndsBracket
    <2>5. CASE q = r
      BY <1>1, <2>4, <2>5
    <2>6. CASE q # r
      BY <1>1, <2>4, <2>6
    <2> QED BY <2>5, <2>6
  <1> QED BY <1>2, <1>3

\* The same, for a step that ends no bout.
LEMMA OwesTheSame ==
  ASSUME Typed, Earn, Owed, Grows, NEW r \in Requests, NEW j,
         job' = [job EXCEPT ![r] = j], crashes' = crashes,
         \A s \in Slots : row'[s].status = "completed" => row[s].status = "completed",
         \A s, d \in Slots : \A x \in Sides :
            Takes(d, x, s) /\ Sends(s, row', side') /\ side'[d][x] = Nobody
            /\ Owes(job[r], s, d, x) => Owes(j, s, d, x)
  PROVE  Owed'
  BY StillOwed DEF Sends

LEMMA NothingWritten ==
  ASSUME UNCHANGED <<side, row>>
  PROVE  Grows /\ \A s \in Slots : row'[s].status = "completed" => row[s].status = "completed"
  BY DEF Grows

LEMMA IdleOwesNothing ==
  ASSUME NEW r \in Requests, At(r, "idle"), NEW s, NEW d, NEW x
  PROVE  ~Owes(job[r], s, d, x)
  BY DEF At, Owes

LEMMA NewCompletionOwes ==
  ASSUME NEW s, NEW d, NEW x
  PROVE  Owes([Idle EXCEPT !.op = "complete", !.slot = s, !.pc = "load"], s, d, x)
  BY DEF Owes, Idle

LEMMA StartOwes ==
  ASSUME Typed, Earn, Owed, NEW r \in Requests, NEW s \in Slots, Start(r, s)
  PROVE  Owed'
  <1>1. row \in [Slots -> Rows] /\ job' = [job EXCEPT ![r] = job[r]]
    BY DEF Start, Typed, BracketTypeOK
  <1>2. Grows
    BY <1>1 DEF Start, Grows, Rows
  <1>3. \A t \in Slots : row'[t].status = "completed" => row[t].status = "completed"
    BY <1>1 DEF Start, Rows
  <1> QED BY <1>1, <1>2, <1>3, OwesTheSame DEF Start, count

LEMMA CompleteOwes ==
  ASSUME Typed, Earn, Owed, NEW r \in Requests, NEW s \in Slots, NEW w \in People, Complete(r, s, w)
  PROVE  Owed'
  <1> DEFINE n == [Idle EXCEPT !.op = "complete", !.slot = s, !.pc = "load"]
  <1>1. row \in [Slots -> Rows]
    BY DEF Typed, BracketTypeOK
  <1>2. Grows
    BY <1>1 DEF Complete, Grows, Rows
  <1>3. \A t \in Slots : row'[t].status = "completed" /\ row[t].status # "completed" => t = s
    BY <1>1 DEF Complete, Rows
  <1>4. \A t, d \in Slots : \A x \in Sides :
           Takes(d, x, t) /\ Sends(t, row', side') /\ side'[d][x] = Nobody
           /\ (Owes(job[r], t, d, x) \/ row[t].status # "completed") => Owes(n, t, d, x)
    BY <1>3, IdleOwesNothing, NewCompletionOwes DEF Complete, Sends
  <1> HIDE DEF n
  <1>5. job' = [job EXCEPT ![r] = n] /\ crashes' = crashes
    BY DEF Complete, count, n
  <1> QED BY <1>2, <1>4, <1>5, StillOwed

LEMMA CompleteAgainOwes ==
  ASSUME Typed, Earn, Owed, NEW r \in Requests, NEW s \in Slots, CompleteAgain(r, s)
  PROVE  Owed'
  <1> DEFINE n == [Idle EXCEPT !.op = "complete", !.slot = s, !.pc = "load"]
  <1>1. job' = [job EXCEPT ![r] = n] /\ crashes' = crashes /\ UNCHANGED <<side, row>>
    BY DEF CompleteAgain
  <1>2. \A t, d, x : ~Owes(job[r], t, d, x)
    BY IdleOwesNothing DEF CompleteAgain, Asks
  <1> HIDE DEF n
  <1>3. Grows /\ \A t \in Slots : row'[t].status = "completed" => row[t].status = "completed"
    BY <1>1, NothingWritten
  <1> QED BY <1>1, <1>2, <1>3, OwesTheSame

LEMMA CrashOwes ==
  ASSUME Typed, NEW r \in Requests, Crash(r)
  PROVE  Owed'
  BY DEF Crash, Owed, Typed, BracketTypeOK

LEMMA LoadOwes ==
  ASSUME Typed, Earn, Owed, NEW r \in Requests, Load(r)
  PROVE  Owed'
  <1> DEFINE j == job[r]
             s == j.slot
             w == row[s].winner
  <1>1. j \in Jobs /\ j.pc = "load" /\ UNCHANGED <<side, row>> /\ crashes' = crashes
    BY MyJob DEF Load, At, count
  <1>2. CASE w = Nobody \/ EndsBracket(s, w)
    <2>1. PICK n : job' = [job EXCEPT ![r] = n]
      BY <1>2 DEF Load, Done, Typed, BracketTypeOK
    <2>2. \A t, d, x : Owes(j, t, d, x) => t = s
      BY DEF Owes
    <2>3. ~Sends(s, row', side')
      BY <1>1, <1>2 DEF Sends, EndsBracket
    <2> QED BY <1>1, <2>1, <2>2, <2>3, NothingWritten, OwesTheSame
  <1>3. CASE w # Nobody /\ ~EndsBracket(s, w)
    <2> DEFINE n == [j EXCEPT !.winner = w, !.loser = LoserOf(s, w), !.pc = "read"]
    <2>1. n.slot = s /\ n.pc = "read"
      BY <1>1 DEF Jobs
    <2>2. job' = [job EXCEPT ![r] = n]
      BY <1>3 DEF Load, Typed, BracketTypeOK
    <2> HIDE DEF n
    <2>3. \A t, d, x : Owes(j, t, d, x) => Owes(n, t, d, x)
      BY <2>1 DEF Owes
    <2> QED BY <1>1, <2>2, <2>3, NothingWritten, OwesTheSame
  <1> QED BY <1>2, <1>3

LEMMA ReadDownstreamOwes ==
  ASSUME Typed, Earn, Owed, NEW r \in Requests, ReadDownstream(r)
  PROVE  Owed'
  <1> DEFINE j == job[r]
             copy == [d \in Slots |-> IF d \in Fed(j.slot) THEN side[d] ELSE NoPair]
             n == IF Fed(j.slot) = {} THEN Idle
                  ELSE [j EXCEPT !.copy = copy, !.todo = Fed(j.slot), !.pc = "sideA"]
  <1>1. j \in Jobs /\ UNCHANGED <<side, row>> /\ crashes' = crashes
    BY MyJob DEF ReadDownstream, count
  <1>2. job' = [job EXCEPT ![r] = n]
    BY DEF ReadDownstream
  <1>3. Fed(j.slot) # {} => n.slot = j.slot /\ n.pc = "sideA" /\ n.todo = Fed(j.slot)
    BY <1>1 DEF Jobs
  <1> HIDE DEF n
  <1>4. ASSUME NEW t \in Slots, NEW d \in Slots, NEW x \in Sides, Takes(d, x, t), Owes(j, t, d, x)
        PROVE  Owes(n, t, d, x)
    <2>1. t = j.slot /\ d \in Fed(j.slot)
      BY <1>4 DEF Owes, Fed
    <2> QED BY <1>3, <2>1 DEF Owes
  <1> QED BY <1>1, <1>2, <1>4, NothingWritten, OwesTheSame

\* What is owed on the side that is written is paid.
LEMMA WriteSlotSideOwes ==
  ASSUME Typed, Earn, Owed, NEW r \in Requests, NEW d \in Slots, NEW x \in Sides,
         NEW pc \in {"sideB", "sync"}, WriteSlotSide(r, d, x, pc),
         \/ job[r].pc = "sideA" /\ x = "a" /\ pc = "sideB"
         \/ job[r].pc = "sideB" /\ x = "b" /\ pc = "sync" /\ d = job[r].at
  PROVE  Owed'
  <1> DEFINE j == job[r]
             s == j.slot
             p == Writes(j, d, x)
             c == IF p = Nobody THEN j.copy ELSE [j.copy EXCEPT ![d][x] = p]
             n == [j EXCEPT !.copy = c, !.at = d, !.pc = pc]
  <1>1. j \in Jobs /\ Placed(j) /\ CarriesIn(j, side, row) /\ j.pc # "idle" /\ j.pc \in Advancing
    BY MyJob DEF Advancing
  <1>2. row \in [Slots -> Rows] /\ side \in [Slots -> Pairs]
    BY DEF Typed, BracketTypeOK
  <1>3. s \in Slots /\ row[s].status = "completed"
    BY <1>1 DEF Placed, CarriesIn
  <1>4. /\ row[s].winner # Nobody /\ j.winner = row[s].winner
        /\ j.loser = IF row[s].winner = side[s]["a"] THEN side[s]["b"] ELSE side[s]["a"]
    BY <1>1 DEF CarriesIn
  <1>5. side[s]["a"] # Nobody /\ side[s]["b"] # Nobody
    BY <1>3 DEF Earn, FoughtKnown, Fought, Sides
  <1>6. /\ side' = IF p = Nobody THEN side ELSE [side EXCEPT ![d][x] = p]
        /\ row' = row /\ crashes' = crashes
    BY DEF WriteSlotSide, count
  <1>7. job' = [job EXCEPT ![r] = n]
    BY <1>1 DEF WriteSlotSide, Jobs, Typed, BracketTypeOK
  <1>8. p # Nobody => Takes(d, x, s) /\ p = Result(s, Source[d][x].takes)
    BY <1>4 DEF Writes, Result
  <1>9. p # Nobody /\ side[d][x] # Nobody => side[d][x] = p
    BY <1>3, <1>8 DEF Earn, SidesStand
  <1>10. \A e \in Slots : \A y \in Sides :
           side'[e][y] = IF p # Nobody /\ e = d /\ y = x THEN p ELSE side[e][y]
    BY <1>2, <1>6 DEF Pairs
  <1>11. Grows
    BY <1>6, <1>9, <1>10 DEF Grows
  <1>12. Takes(d, x, s) /\ side[d][x] = Nobody => p # Nobody
    BY <1>1, <1>4, <1>5 DEF Writes, CarriesIn
  <1>13. n.slot = s /\ n.pc = pc /\ n.at = d /\ n.todo = j.todo
    BY <1>1 DEF Jobs
  <1> HIDE DEF n, p
  <1>14. ASSUME NEW t \in Slots, NEW e \in Slots, NEW y \in Sides,
                Takes(e, y, t), side'[e][y] = Nobody, Owes(j, t, e, y)
         PROVE  Owes(n, t, e, y)
    <2>1. t = s
      BY <1>14 DEF Owes
    <2>2. ~(e = d /\ y = x)
      BY <1>10, <1>12, <1>14, <2>1
    <2> QED BY <1>13, <1>14, <2>1, <2>2 DEF Owes, Sides
  <1> QED BY <1>6, <1>7, <1>11, <1>14, OwesTheSame

LEMMA WriteSidesOwe ==
  ASSUME Typed, Earn, Owed, NEW r \in Requests, WriteSideA(r) \/ WriteSideB(r)
  PROVE  Owed'
  <1>1. job[r] \in Jobs /\ Placed(job[r])
    BY MyJob
  <1>2. CASE WriteSideA(r)
    <2>1. PICK d \in job[r].todo : WriteSlotSide(r, d, "a", "sideB")
      BY <1>2 DEF WriteSideA
    <2>2. d \in Slots /\ "a" \in Sides /\ job[r].pc = "sideA"
      BY <1>1, <1>2 DEF WriteSideA, At, Jobs, Sides
    <2> QED BY <2>1, <2>2, WriteSlotSideOwes
  <1>3. CASE WriteSideB(r)
    <2>1. job[r].at \in Slots /\ "b" \in Sides /\ job[r].pc = "sideB"
      BY <1>1, <1>3 DEF WriteSideB, At, Placed, Sides
    <2> QED BY <1>3, <2>1, WriteSlotSideOwes DEF WriteSideB
  <1> QED BY <1>2, <1>3

LEMMA SyncedOwes ==
  ASSUME NEW j \in Jobs, j.pc \in {"sync", "update", "insert"}, NEW s, NEW d, NEW x, Owes(j, s, d, x)
  PROVE  Owes(Synced(j), s, d, x)
  <1> DEFINE rest == j.todo \ {j.at}
             n == [j EXCEPT !.todo = rest, !.pc = IF rest = {} THEN "idle" ELSE "sideA"]
  <1>1. d \in rest /\ j.slot = s
    BY DEF Owes
  <1>2. Synced(j) = n
    BY <1>1 DEF Synced, NextOf
  <1>3. n.slot = j.slot /\ n.todo = rest /\ n.pc = "sideA"
    BY <1>1 DEF Jobs
  <1> HIDE DEF n
  <1> QED BY <1>1, <1>2, <1>3 DEF Owes

LEMMA MovedOnOwes ==
  ASSUME NEW j \in Jobs, j.pc \in {"sync", "update", "insert"}, NEW pc \in {"sync", "update", "insert"},
         NEW s, NEW d, NEW x, Owes(j, s, d, x)
  PROVE  Owes([j EXCEPT !.pc = pc], s, d, x)
  <1> DEFINE n == [j EXCEPT !.pc = pc]
  <1>1. n.slot = j.slot /\ n.todo = j.todo /\ n.at = j.at /\ n.pc = pc
    BY DEF Jobs
  <1> HIDE DEF n
  <1>2. Owes(n, s, d, x)
    BY <1>1 DEF Owes
  <1> QED BY <1>2 DEF n

LEMMA SyncReadOwes ==
  ASSUME Typed, Earn, Owed, NEW r \in Requests, SyncRead(r)
  PROVE  Owed'
  <1> DEFINE j == job[r]
  <1>1. j \in Jobs /\ j.pc = "sync" /\ UNCHANGED <<side, row>> /\ crashes' = crashes
    BY MyJob DEF SyncRead, At, count
  <1>2. PICK n \in {Synced(j), [j EXCEPT !.pc = "update"], [j EXCEPT !.pc = "insert"]} :
          job' = [job EXCEPT ![r] = n]
    BY DEF SyncRead
  <1>3. \A s, d, x : Owes(j, s, d, x) =>
          /\ Owes(Synced(j), s, d, x)
          /\ Owes([j EXCEPT !.pc = "update"], s, d, x) /\ Owes([j EXCEPT !.pc = "insert"], s, d, x)
    BY <1>1, SyncedOwes, MovedOnOwes
  <1> QED BY <1>1, <1>2, <1>3, NothingWritten, OwesTheSame

\* A row is written, and a completed one keeps its status and its winner.
LEMMA RowWritten ==
  ASSUME Typed, NEW t \in Slots, NEW e, side' = side, row' = [row EXCEPT ![t] = e],
         \/ e.status = row[t].status /\ e.winner = row[t].winner
         \/ row[t].status # "completed" /\ e.status # "completed"
  PROVE  Grows /\ \A s \in Slots : row'[s].status = "completed" => row[s].status = "completed"
  BY DEF Grows, Typed, BracketTypeOK

LEMMA SyncUpdateOwes ==
  ASSUME Typed, Earn, Owed, NEW r \in Requests, SyncUpdate(r)
  PROVE  Owed'
  <1> DEFINE j == job[r]
             e == [row[j.at] EXCEPT !.pair = j.copy[j.at]]
  <1>1. j \in Jobs /\ Placed(j) /\ j.pc = "update" /\ crashes' = crashes /\ side' = side
    BY MyJob DEF SyncUpdate, At, count
  <1>2. j.at \in Slots /\ row \in [Slots -> Rows]
    BY <1>1 DEF Placed, Typed, BracketTypeOK
  <1>3. Grows /\ \A s \in Slots : row'[s].status = "completed" => row[s].status = "completed"
    <2>1. CASE row[j.at].status = "none"
      BY <2>1, NothingWritten DEF SyncUpdate
    <2>2. CASE row[j.at].status # "none"
      <3>1. row' = [row EXCEPT ![j.at] = e]
        BY <2>2, <1>2 DEF SyncUpdate, Rows
      <3>2. e.status = row[j.at].status /\ e.winner = row[j.at].winner
        BY <1>2 DEF Rows
      <3> HIDE DEF e
      <3> QED BY <1>1, <1>2, <3>1, <3>2, RowWritten
    <2> QED BY <2>1, <2>2
  <1>4. \A s, d, x : Owes(j, s, d, x) => Owes(Synced(j), s, d, x)
    BY <1>1, SyncedOwes
  <1>5. job' = [job EXCEPT ![r] = Synced(j)]
    BY DEF SyncUpdate
  <1> QED BY <1>1, <1>3, <1>4, <1>5, OwesTheSame

LEMMA InsertOwes ==
  ASSUME Typed, Earn, Owed, NEW r \in Requests, InsertMatchForSlot(r)
  PROVE  Owed'
  <1> DEFINE j == job[r]
             e == Placeholder(j.copy[j.at])
  <1>1. j \in Jobs /\ Placed(j) /\ j.pc = "insert" /\ crashes' = crashes /\ side' = side
    BY MyJob DEF InsertMatchForSlot, At, count
  <1>2. j.at \in Slots
    BY <1>1 DEF Placed
  <1>3. CASE row[j.at].status = "none"
    <2>1. row' = [row EXCEPT ![j.at] = e] /\ job' = [job EXCEPT ![r] = Synced(j)]
      BY <1>3 DEF InsertMatchForSlot
    <2>2. row[j.at].status # "completed" /\ e.status # "completed"
      BY <1>3 DEF Placeholder
    <2> HIDE DEF e
    <2>3. Grows /\ \A s \in Slots : row'[s].status = "completed" => row[s].status = "completed"
      BY <1>1, <1>2, <2>1, <2>2, RowWritten
    <2>4. \A s, d, x : Owes(j, s, d, x) => Owes(Synced(j), s, d, x)
      BY <1>1, SyncedOwes
    <2> QED BY <1>1, <2>1, <2>3, <2>4, OwesTheSame
  <1>4. CASE row[j.at].status # "none"
    <2>1. job' = [job EXCEPT ![r] = [j EXCEPT !.pc = "sync"]] /\ row' = row
      BY <1>4 DEF InsertMatchForSlot, Typed, BracketTypeOK
    <2>2. \A s, d, x : Owes(j, s, d, x) => Owes([j EXCEPT !.pc = "sync"], s, d, x)
      BY <1>1, MovedOnOwes
    <2> QED BY <1>1, <2>1, <2>2, NothingWritten, OwesTheSame
  <1> QED BY <1>3, <1>4

\* A request that takes a second final back owes nothing, and what it clears
\* and deletes was empty and not started.
LEMMA RetractingOwes ==
  ASSUME Typed, Earn, Owed, NEW r \in Requests,
         RetractClear(r) \/ FindUnplayed(r) \/ DeleteUnplayed(r)
  PROVE  Owed'
  <1> DEFINE j == job[r]
  <1>1. j \in Jobs /\ Placed(j) /\ CarriesIn(j, side, row) /\ j.pc \in Retracting
    BY MyJob DEF RetractClear, FindUnplayed, DeleteUnplayed, At, Retracting
  <1>2. \A s, d, x : ~Owes(j, s, d, x)
    BY <1>1 DEF Owes, Retracting
  <1>3. crashes' = crashes /\ \E n : job' = [job EXCEPT ![r] = n]
    BY DEF RetractClear, FindUnplayed, DeleteUnplayed, count
  <1>4. Grows /\ \A s \in Slots : row'[s].status = "completed" => row[s].status = "completed"
    <2>1. CASE RetractClear(r)
      <3>1. PICK d \in j.todo : side' = [side EXCEPT ![d] = Cleared(d, j.slot)]
        BY <2>1 DEF RetractClear
      <3>2. side \in [Slots -> Pairs] /\ d \in Slots
        BY <1>1, <3>1 DEF Typed, BracketTypeOK, Jobs
      <3>3. Cleared(d, j.slot) = side[d]
        BY <1>1, <3>2, NobodyToClear DEF Cleared, Pairs
      <3> QED BY <2>1, <3>1, <3>2, <3>3, NothingWritten DEF RetractClear
    <2>2. CASE FindUnplayed(r)
      BY <2>2, NothingWritten DEF FindUnplayed
    <2>3. CASE DeleteUnplayed(r)
      <3>1. PICK d \in j.todo : row' = [row EXCEPT ![d] = NoRow]
        BY <2>3 DEF DeleteUnplayed
      <3>2. d \in Fed(j.slot) /\ d \in Slots /\ side' = side
        BY <1>1, <2>3, <3>1 DEF CarriesIn, Jobs, DeleteUnplayed
      <3>3. \E x \in Sides : side[d][x] = Nobody
        BY <1>1, <3>2, NobodyToClear DEF Fed
      <3>4. row[d].status # "completed" /\ NoRow.status # "completed"
        BY <3>2, <3>3 DEF Earn, FoughtKnown, Fought, NoRow
      <3> QED BY <3>1, <3>2, <3>4, RowWritten
    <2> QED BY <2>1, <2>2, <2>3
  <1> QED BY <1>2, <1>3, <1>4, OwesTheSame

LEMMA StepOwes == Completions /\ Typed /\ Earn /\ Owed /\ [Next]_vars => Owed'
  <1> SUFFICES ASSUME Completions, Typed, Earn, Owed, [Next]_vars PROVE Owed'
    OBVIOUS
  <1>1. CASE UNCHANGED vars
    BY <1>1 DEF vars, Owed, Owes, Won, EndsBracket, Takes
  <1>2. ASSUME NEW r \in Requests, NEW s \in Slots,
               \/ Start(r, s) \/ CompleteAgain(r, s)
               \/ \E w \in People : Complete(r, s, w) \/ ChangeResult(r, s, w)
               \/ \E discard \in BOOLEAN, to \in {"running", "scheduled"} : Undo(r, s, discard, to)
        PROVE  Owed'
    <2>1. \A w : ~ChangeResult(r, s, w)
      BY DEF ChangeResult, Asks, Completions
    <2>2. \A discard, to : ~Undo(r, s, discard, to)
      BY DEF Undo, Asks, Completions
    <2> QED BY <1>2, <2>1, <2>2, StartOwes, CompleteAgainOwes, CompleteOwes
  <1>3. ASSUME NEW r \in Requests, Advance(r) PROVE Owed'
    BY <1>3, LoadOwes, ReadDownstreamOwes, WriteSidesOwe, SyncReadOwes, SyncUpdateOwes,
       InsertOwes, RetractingOwes DEF Advance
  <1>4. ASSUME NEW r \in Requests, TakeBack(r) PROVE FALSE
    <2>1. job[r].pc \in {"idle", "load"} \cup Advancing \cup Retracting
      BY MyJob DEF CarriesIn
    <2> QED BY <1>4, <2>1 DEF TakeBack, RevertFought, ClearFrom, ClearFedSides, FindPairings,
                ClearDependentPairing, WriteRoot, Redecide, At, Advancing, Retracting
  <1> QED BY <1>1, <1>2, <1>3, <1>4, CrashOwes DEF Next

(* When bouts complete and nothing is undone, a result reaches every side  *)
(* it feeds by the time all requests are over, in any bracket and with any *)
(* number of completions at once (advanceFromSlot): a write of one side    *)
(* never loses the other.  A request that dies is the only way to miss.    *)
THEOREM CompletionsFeed ==
  ASSUME Completions
  PROVE  Spec => []ResultsAreFed
  <1>1. Earn /\ Owed => ResultsAreFed
    <2> SUFFICES ASSUME Earn, Owed, Quiet, crashes = 0,
                        NEW s \in Slots, NEW d \in Slots, NEW x \in Sides,
                        Takes(d, x, s), Won(s), ~EndsBracket(s, row[s].winner)
                 PROVE  side[d][x] = Result(s, Source[d][x].takes)
      BY DEF ResultsAreFed
    <2>1. \A r \in Requests : ~Owes(job[r], s, d, x)
      BY IdleOwesNothing DEF Quiet
    <2>2. side[d][x] # Nobody
      BY <2>1 DEF Owed
    <2> QED BY <2>2 DEF Earn, SidesStand
  <1>2. Init => Typed /\ Earn /\ Owed
    BY InitTypes, InitEarns DEF Init, Owed, Won, NoRow, Placeholder
  <1>3. Typed /\ Earn /\ Owed /\ [Next]_vars => (Typed /\ Earn /\ Owed)'
    BY StepTypes, StepEarns, StepOwes
  <1> QED BY <1>1, <1>2, <1>3, PTL DEF Spec

-----------------------------------------------------------------------------
(* One request at a time, whatever it asks: completions that may die after *)
(* any step, undos, discards and changes that do not.  Between the first   *)
(* and the last write of a request that takes results back the slots hold  *)
(* what no result stands for: Back says what is left to do, and Earn,      *)
(* Owed and Settled hold again when it is done.                            *)

OneAtATime == (\A q, r \in Requests : q = r) /\ Mortal \subseteq {"complete"}

TakingBack == {"revert", "sources", "clear", "pairings", "unpair", "root", "redecide"}

Still == \A r \in Requests : job[r].pc \notin TakingBack

Blank == \A s \in Slots : row[s].status = "none" => row[s] = NoRow

Known(s) == \A x \in Sides : side[s][x] # Nobody

\* What the request read of the slots it feeds, and of the row it is at, holds.
ReadsIn(j, sd, rw) ==
  /\ j.pc \in {"sideA", "sideB", "sync", "update", "insert"} =>
       /\ j.todo \subseteq Fed(j.slot)
       /\ \A d \in Fed(j.slot) : j.copy[d] = sd[d]
  /\ j.pc \in {"sideB", "sync", "update", "insert"} => j.at \in Fed(j.slot)
  /\ j.pc = "update" => rw[j.at].status = "scheduled"
  /\ j.pc = "insert" => rw[j.at].status = "none" /\ \A x \in Sides : sd[j.at][x] # Nobody

\* The row of this slot is still to be given its pair.
Syncs(j, s) == j.pc \in {"sideB", "sync", "update", "insert"} /\ j.at = s

\* The row of this second final is still to be deleted.
Unmakes(j, s, d) ==
  /\ j.slot = s
  /\ \/ j.pc = "load"
     \/ j.pc = "retract" /\ d \in j.todo \cup j.later
     \/ j.pc = "unmake" /\ d \in j.later
     \/ j.pc = "delete" /\ d \in j.todo

FoughtPaired == \A s \in Slots : Fought(row[s]) => row[s].pair = side[s]

PairOwed ==
  crashes = 0 =>
    \A s \in Slots : Known(s) /\ row[s].pair # side[s] => \E r \in Requests : Syncs(job[r], s)

ResetOwed ==
  crashes = 0 =>
    \A s, d \in Slots :
      Won(s) /\ EndsBracket(s, row[s].winner) /\ d \in Fed(s) /\ row[d].status # "none" =>
        \E r \in Requests : Unmakes(job[r], s, d)

Settled ==
  /\ FoughtPaired /\ PairOwed /\ ResetOwed
  /\ \A r \in Requests : ReadsIn(job[r], side, row)

\* The bouts whose results are taken back, and the slots whose rows are emptied.
Undone(j) == {j.slot} \cup j.fought
Stale(j)  == IF j.op = "change" THEN Fed(j.slot) ELSE Closure(j.slot)

\* What the request knows of its own work.
BackJob(j) ==
  /\ j.op \in {"undo", "discard", "change"} /\ j.pc \in TakingBack
  /\ row[j.slot].status = "completed"
  /\ j.copy = [s \in Slots |-> NoPair]
  /\ j.fought \subseteq Closure(j.slot)
  /\ j.op = "change" => j.fought = {} /\ j.later = {} /\ j.pc \notin {"revert", "root"}
  /\ j.op # "change" => /\ j.later = {d \in Closure(j.slot) : row[d].status # "none"}
                        /\ j.to # "none" /\ j.pc # "redecide"
  /\ j.pc = "redecide" /\ j.winner # Nobody => \E x \in Sides : j.winner = side[j.slot][x]
  /\ j.pc = "revert" => j.todo \subseteq j.fought
  /\ j.pc = "clear" => \A p \in j.clears : p[1] \in Undone(j) /\ p[2] \in Fed(p[1])
  /\ j.pc = "unpair" => j.todo \subseteq Stale(j)

\* Outside what is behind the bout, all is as it was.
BackOutside(j) ==
  /\ \A s \in Slots \ Closure(j.slot) :
       /\ Fought(row[s]) => Known(s) /\ row[s].pair = side[s]
       /\ row[s].winner # Nobody =>
            row[s].status = "completed" /\ \E x \in Sides : row[s].winner = side[s][x]
  /\ \A s \in Slots \ Stale(j) :
       /\ \A x \in Sides : row[s].pair[x] # Nobody => row[s].pair[x] = side[s][x]
       /\ crashes = 0 /\ Known(s) => row[s].pair = side[s]
  /\ crashes = 0 =>
       \A s \in Slots \ (Closure(j.slot) \cup {j.slot}) :
         Won(s) /\ EndsBracket(s, row[s].winner) => \A d \in Fed(s) : row[d].status = "none"

\* A bout behind it is not fought, or is still to be reverted.
BackBehind(j) ==
  \A s \in Closure(j.slot) :
    (j.pc = "revert" /\ s \in j.todo) \/ (~Fought(row[s]) /\ row[s].winner = Nobody)

\* What other bouts sent stands, and what these sent is still to be cleared.
BackSides(j) ==
  /\ \A s \in Slots \ Undone(j), d \in Slots : \A x \in Sides : Takes(d, x, s) =>
       /\ side[d][x] # Nobody =>
            /\ s \notin Closure(j.slot) /\ Won(s) /\ ~EndsBracket(s, row[s].winner)
            /\ side[d][x] = Result(s, Source[d][x].takes)
       /\ crashes = 0 /\ Won(s) /\ ~EndsBracket(s, row[s].winner) => side[d][x] # Nobody
  /\ j.pc \notin {"redecide", "revert", "sources"} =>
       \A s \in Undone(j), d \in Slots : \A x \in Sides : Takes(d, x, s) /\ side[d][x] # Nobody =>
         j.pc = "clear" /\ <<s, d>> \in j.clears

\* The rows are emptied, or still to be.
BackRows(j) ==
  j.pc \in {"unpair", "root", "load"} =>
    \A s \in Stale(j) : row[s].pair = NoPair \/ (j.pc = "unpair" /\ s \in j.todo)

Back(j) == BackJob(j) /\ BackOutside(j) /\ BackBehind(j) /\ BackSides(j) /\ BackRows(j)

Serial ==
  /\ Blank
  /\ Still => Earn /\ Owed /\ Settled
  /\ \A r \in Requests : job[r].pc \in TakingBack => Back(job[r])

\* A pair is missing from this row, though its slot has both fighters.
Lacks(s, sd, rw) == (\A x \in Sides : sd[s][x] # Nobody) /\ rw[s].pair # sd[s]

\* This second final has a row, though the bracket has ended.
Phantom(s, d, sd, rw) ==
  /\ rw[s].status = "completed" /\ rw[s].winner # Nobody
  /\ s = GrandFinal /\ rw[s].winner = sd[s]["a"]
  /\ d \in Fed(s) /\ rw[d].status # "none"

LEMMA SettledIs ==
  ASSUME Settled
  PROVE  /\ \A s \in Slots : Fought(row[s]) => row[s].pair = side[s]
         /\ \A r \in Requests : ReadsIn(job[r], side, row)
         /\ crashes = 0 => \A s \in Slots : Lacks(s, side, row) => \E r \in Requests : Syncs(job[r], s)
         /\ crashes = 0 => \A s, d \in Slots : Phantom(s, d, side, row) => \E r \in Requests : Unmakes(job[r], s, d)
  BY DEF Settled, FoughtPaired, PairOwed, ResetOwed, Lacks, Phantom, Known, Won, EndsBracket

\* After a step, the only request has this job.
LEMMA SettledAfter ==
  ASSUME OneAtATime, Typed, NEW r \in Requests, NEW j, job' = [job EXCEPT ![r] = j],
         \A s \in Slots : Fought(row'[s]) => row'[s].pair = side'[s],
         ReadsIn(j, side', row'),
         crashes' = 0 => \A s \in Slots : Lacks(s, side', row') => Syncs(j, s),
         crashes' = 0 => \A s, d \in Slots : Phantom(s, d, side', row') => Unmakes(j, s, d)
  PROVE  Settled'
  <1>1. job'[r] = j
    BY DEF Typed, BracketTypeOK
  <1>2. FoughtPaired'
    BY DEF FoughtPaired, Fought
  <1>3. PairOwed'
    BY <1>1 DEF PairOwed, Known, Lacks, Syncs
  <1>4. ResetOwed'
    <2> SUFFICES ASSUME crashes' = 0, NEW s \in Slots, NEW d \in Slots, Phantom(s, d, side', row')
                 PROVE  \E q \in Requests : Unmakes(job'[q], s, d)
      BY DEF ResetOwed, Won, EndsBracket, Phantom, Fed, Takes, Unmakes
    <2> QED BY <1>1
  <1>5. \A q \in Requests : ReadsIn(job'[q], side', row')
    BY <1>1 DEF OneAtATime
  <1>6. \A q \in Requests : ReadsIn(job[q], side, row)'
    BY <1>5 DEF ReadsIn, Fed, Takes
  <1> QED BY <1>2, <1>3, <1>4, <1>6 DEF Settled

\* What the only request had in hand is what was owed.
LEMMA OnlyOne ==
  ASSUME OneAtATime, Settled, NEW r \in Requests
  PROVE  /\ ReadsIn(job[r], side, row)
         /\ \A s \in Slots : Fought(row[s]) => row[s].pair = side[s]
         /\ crashes = 0 => \A s \in Slots : Lacks(s, side, row) => Syncs(job[r], s)
         /\ crashes = 0 => \A s, d \in Slots : Phantom(s, d, side, row) => Unmakes(job[r], s, d)
  BY SettledIs DEF OneAtATime

\* A step that writes no side and no row.
LEMMA SettledOnly ==
  ASSUME OneAtATime, Typed, Settled, NEW r \in Requests, NEW j, job' = [job EXCEPT ![r] = j],
         UNCHANGED <<side, row>>, crashes' = crashes,
         ReadsIn(j, side, row),
         \A s \in Slots : Lacks(s, side, row) /\ Syncs(job[r], s) => Syncs(j, s),
         \A s, d \in Slots : Phantom(s, d, side, row) /\ Unmakes(job[r], s, d) => Unmakes(j, s, d)
  PROVE  Settled'
  <1>1. /\ \A s \in Slots : Fought(row'[s]) => row'[s].pair = side'[s]
        /\ ReadsIn(j, side', row')
    BY OnlyOne
  <1>2. crashes' = 0 => \A s \in Slots : Lacks(s, side', row') => Syncs(j, s)
    BY OnlyOne
  <1>3. crashes' = 0 => \A s, d \in Slots : Phantom(s, d, side', row') => Unmakes(j, s, d)
    BY OnlyOne
  <1> QED BY <1>1, <1>2, <1>3, SettledAfter

LEMMA IdleReads == \A sd, rw : ReadsIn(Idle, sd, rw)
  BY DEF ReadsIn, Idle

LEMMA LoadReads ==
  ASSUME NEW s, NEW sd, NEW rw
  PROVE  /\ ReadsIn([Idle EXCEPT !.op = "complete", !.slot = s, !.pc = "load"], sd, rw)
         /\ \A d : Unmakes([Idle EXCEPT !.op = "complete", !.slot = s, !.pc = "load"], s, d)
  <1> DEFINE n == [Idle EXCEPT !.op = "complete", !.slot = s, !.pc = "load"]
  <1>1. n.pc = "load" /\ n.slot = s
    BY DEF Idle
  <1> HIDE DEF n
  <1>2. ReadsIn(n, sd, rw) /\ \A d : Unmakes(n, s, d)
    BY <1>1 DEF ReadsIn, Unmakes
  <1> QED BY <1>2 DEF n

LEMMA StartSettles ==
  ASSUME OneAtATime, Typed, Earn, Settled, NEW r \in Requests, NEW s \in Slots, Start(r, s)
  PROVE  Settled'
  <1>1. row \in [Slots -> Rows] /\ side \in [Slots -> Pairs]
    BY DEF Typed, BracketTypeOK
  <1>2. /\ job' = [job EXCEPT ![r] = job[r]] /\ side' = side /\ crashes' = crashes
        /\ row' = [row EXCEPT ![s].status = "running"]
        /\ job[r].pc = "idle" /\ row[s].status = "scheduled"
        /\ \A x \in Sides : row[s].pair[x] # Nobody
    BY DEF Start, count, At, Typed, BracketTypeOK
  <1>3. /\ \A t \in Slots : row'[t].pair = row[t].pair /\ row'[t].winner = row[t].winner
        /\ \A t \in Slots : t # s => row'[t] = row[t]
        /\ row'[s].status = "running"
    BY <1>1, <1>2 DEF Rows
  <1>4. row[s].pair = side[s]
    <2>1. \A x \in Sides : row[s].pair[x] = side[s][x]
      BY <1>2 DEF Earn, PairsStand
    <2>2. row[s].pair \in Pairs /\ side[s] \in Pairs
      BY <1>1 DEF Rows
    <2> QED BY <2>1, <2>2 DEF Pairs
  <1>5. \A t \in Slots : Fought(row'[t]) => row'[t].pair = side'[t]
    BY <1>2, <1>3, <1>4, OnlyOne
  <1>6. ReadsIn(job[r], side', row')
    BY <1>2 DEF ReadsIn
  <1>7. ASSUME NEW t \in Slots, Lacks(t, side', row') PROVE Lacks(t, side, row)
    BY <1>2, <1>3, <1>7 DEF Lacks
  <1>8. ASSUME NEW t \in Slots, NEW d \in Slots, Phantom(t, d, side', row') PROVE Phantom(t, d, side, row)
    BY <1>2, <1>3, <1>8 DEF Phantom
  <1> QED BY <1>2, <1>5, <1>6, <1>7, <1>8, OnlyOne, SettledAfter

LEMMA CompleteSettles ==
  ASSUME OneAtATime, Typed, Earn, Settled,
         NEW r \in Requests, NEW s \in Slots, NEW w \in People, Complete(r, s, w)
  PROVE  Settled'
  <1> DEFINE n == [Idle EXCEPT !.op = "complete", !.slot = s, !.pc = "load"]
  <1>1. row \in [Slots -> Rows]
    BY DEF Typed, BracketTypeOK
  <1>2. /\ job' = [job EXCEPT ![r] = n] /\ side' = side /\ crashes' = crashes
        /\ row' = [row EXCEPT ![s].status = "completed", ![s].winner = w]
        /\ job[r].pc = "idle" /\ row[s].status = "running"
    BY DEF Complete, count, At
  <1>3. /\ \A t \in Slots : row'[t].pair = row[t].pair
        /\ \A t \in Slots : t # s => row'[t] = row[t]
    BY <1>1, <1>2 DEF Rows
  <1>4. \A t \in Slots : Fought(row'[t]) => row'[t].pair = side'[t]
    BY <1>2, <1>3, OnlyOne DEF Fought
  <1>5. ReadsIn(n, side', row') /\ \A d : Unmakes(n, s, d)
    BY LoadReads
  <1> HIDE DEF n
  <1>6. ASSUME NEW t \in Slots, Lacks(t, side', row') PROVE Lacks(t, side, row)
    BY <1>2, <1>3, <1>6 DEF Lacks
  <1>7. ASSUME NEW t \in Slots, NEW d \in Slots, Phantom(t, d, side', row'), t # s
        PROVE  Phantom(t, d, side, row)
    BY <1>2, <1>3, <1>7 DEF Phantom
  <1>8. \A t, d : ~Syncs(job[r], t) /\ ~Unmakes(job[r], t, d)
    BY <1>2 DEF Syncs, Unmakes
  <1>9. crashes' = 0 => \A t \in Slots : Lacks(t, side', row') => Syncs(n, t)
    BY <1>2, <1>6, <1>8, OnlyOne
  <1>10. crashes' = 0 => \A t, d \in Slots : Phantom(t, d, side', row') => Unmakes(n, t, d)
    BY <1>2, <1>5, <1>7, <1>8, OnlyOne
  <1> QED BY <1>2, <1>4, <1>5, <1>9, <1>10, SettledAfter

LEMMA CompleteAgainSettles ==
  ASSUME OneAtATime, Typed, Settled, NEW r \in Requests, NEW s \in Slots, CompleteAgain(r, s)
  PROVE  Settled'
  <1> DEFINE n == [Idle EXCEPT !.op = "complete", !.slot = s, !.pc = "load"]
  <1>1. /\ job' = [job EXCEPT ![r] = n] /\ UNCHANGED <<side, row>> /\ crashes' = crashes
        /\ job[r].pc = "idle"
    BY DEF CompleteAgain, Asks, At
  <1>2. ReadsIn(n, side, row)
    BY LoadReads
  <1>3. \A t, d : ~Syncs(job[r], t) /\ ~Unmakes(job[r], t, d)
    BY <1>1 DEF Syncs, Unmakes
  <1> HIDE DEF n
  <1> QED BY <1>1, <1>2, <1>3, SettledOnly

LEMMA CrashSettles ==
  ASSUME OneAtATime, Typed, Settled, NEW r \in Requests, Crash(r)
  PROVE  Settled'
  <1>1. job' = [job EXCEPT ![r] = Idle] /\ UNCHANGED <<side, row>> /\ crashes' # 0
    BY DEF Crash, Done, Typed, BracketTypeOK
  <1> QED BY <1>1, IdleReads, OnlyOne, SettledAfter

LEMMA LoadSettles ==
  ASSUME OneAtATime, Typed, Settled, NEW r \in Requests, Load(r)
  PROVE  Settled'
  <1> DEFINE j == job[r]
             s == j.slot
             w == row[s].winner
  <1>1. j \in Jobs /\ j.pc = "load" /\ UNCHANGED <<side, row>> /\ crashes' = crashes
    BY DEF Load, At, count, Typed, BracketTypeOK
  <1>2. \A t : ~Syncs(j, t)
    BY <1>1 DEF Syncs
  <1>3. \A t, d : Unmakes(j, t, d) => t = s
    BY DEF Unmakes
  <1>4. CASE w = Nobody
    <2>1. \A d : ~Phantom(s, d, side, row)
      BY <1>4 DEF Phantom
    <2>2. job' = [job EXCEPT ![r] = Idle]
      BY <1>4 DEF Load, Done
    <2> QED BY <1>1, <1>2, <1>3, <2>1, <2>2, IdleReads, SettledOnly
  <1>5. CASE w # Nobody /\ EndsBracket(s, w)
    <2> DEFINE n == [j EXCEPT !.pc = "retract", !.todo = Fed(s)]
    <2>1. n.pc = "retract" /\ n.slot = s /\ n.todo = Fed(s)
      BY <1>1 DEF Jobs
    <2>2. job' = [job EXCEPT ![r] = n]
      BY <1>5 DEF Load, Typed, BracketTypeOK
    <2> HIDE DEF n
    <2>3. ReadsIn(n, side, row)
      BY <2>1 DEF ReadsIn
    <2>4. \A d : Phantom(s, d, side, row) => Unmakes(n, s, d)
      BY <2>1 DEF Phantom, Unmakes
    <2> QED BY <1>1, <1>2, <1>3, <2>2, <2>3, <2>4, SettledOnly
  <1>6. CASE w # Nobody /\ ~EndsBracket(s, w)
    <2> DEFINE n == [j EXCEPT !.winner = w, !.loser = LoserOf(s, w), !.pc = "read"]
    <2>1. n.pc = "read"
      BY <1>1 DEF Jobs
    <2>2. job' = [job EXCEPT ![r] = n]
      BY <1>6 DEF Load, Typed, BracketTypeOK
    <2> HIDE DEF n
    <2>3. ReadsIn(n, side, row)
      BY <2>1 DEF ReadsIn
    <2>4. \A d : ~Phantom(s, d, side, row)
      BY <1>6 DEF Phantom, EndsBracket
    <2> QED BY <1>1, <1>2, <1>3, <2>2, <2>3, <2>4, SettledOnly
  <1> QED BY <1>4, <1>5, <1>6

LEMMA ReadDownstreamSettles ==
  ASSUME OneAtATime, Typed, Settled, NEW r \in Requests, ReadDownstream(r)
  PROVE  Settled'
  <1> DEFINE j == job[r]
             copy == [d \in Slots |-> IF d \in Fed(j.slot) THEN side[d] ELSE NoPair]
             m == [j EXCEPT !.copy = copy, !.todo = Fed(j.slot), !.pc = "sideA"]
             n == IF Fed(j.slot) = {} THEN Idle ELSE m
  <1>1. j \in Jobs /\ j.pc = "read" /\ UNCHANGED <<side, row>> /\ crashes' = crashes
    BY DEF ReadDownstream, At, count, Typed, BracketTypeOK
  <1>2. \A t, d : ~Syncs(j, t) /\ ~Unmakes(j, t, d)
    BY <1>1 DEF Syncs, Unmakes
  <1>3. m.slot = j.slot /\ m.copy = copy /\ m.todo = Fed(j.slot) /\ m.pc = "sideA"
    BY <1>1 DEF Jobs
  <1>4. \A d \in Fed(j.slot) : copy[d] = side[d]
    BY FedAreSlots
  <1>5. job' = [job EXCEPT ![r] = n]
    BY DEF ReadDownstream
  <1> HIDE DEF m, copy
  <1>6. ReadsIn(m, side, row)
    BY <1>3, <1>4 DEF ReadsIn
  <1>7. ReadsIn(n, side, row)
    BY <1>6, IdleReads
  <1> HIDE DEF n
  <1> QED BY <1>1, <1>2, <1>5, <1>7, SettledOnly

LEMMA WriteSlotSideSettles ==
  ASSUME OneAtATime, Typed, Earn, Settled, NEW r \in Requests, NEW d \in Slots, NEW x \in Sides,
         NEW pc \in {"sideB", "sync"}, WriteSlotSide(r, d, x, pc), d \in Fed(job[r].slot),
         \/ job[r].pc = "sideA"
         \/ job[r].pc = "sideB" /\ d = job[r].at
  PROVE  Settled'
  <1> DEFINE j == job[r]
             s == j.slot
             p == Writes(j, d, x)
             c == IF p = Nobody THEN j.copy ELSE [j.copy EXCEPT ![d][x] = p]
             n == [j EXCEPT !.copy = c, !.at = d, !.pc = pc]
  <1>1. /\ j \in Jobs /\ Placed(j) /\ CarriesIn(j, side, row) /\ j.pc # "idle"
        /\ j.pc \in Advancing /\ ReadsIn(j, side, row)
    BY MyJob, OnlyOne DEF Advancing
  <1>2. row \in [Slots -> Rows] /\ side \in [Slots -> Pairs] /\ j.copy \in [Slots -> Pairs]
    BY <1>1 DEF Typed, BracketTypeOK, Jobs
  <1>3. j.todo \subseteq Fed(s) /\ \A e \in Fed(s) : j.copy[e] = side[e]
    BY <1>1 DEF ReadsIn
  <1>4. /\ side' = IF p = Nobody THEN side ELSE [side EXCEPT ![d][x] = p]
        /\ row' = row /\ crashes' = crashes
    BY DEF WriteSlotSide, count
  <1>5. job' = [job EXCEPT ![r] = n]
    BY <1>1 DEF WriteSlotSide, Jobs, Typed, BracketTypeOK
  <1>6. p # Nobody => side[d][x] = Nobody
    BY <1>3 DEF Writes
  <1>7. \A e \in Slots : e # d => side'[e] = side[e] /\ c[e] = j.copy[e]
    BY <1>2, <1>4
  <1>8. c[d] = side'[d]
    <2>1. CASE p = Nobody
      BY <1>3, <1>4, <2>1
    <2>2. CASE p # Nobody
      <3>1. side'[d] = [side[d] EXCEPT ![x] = p] /\ c[d] = [j.copy[d] EXCEPT ![x] = p]
        BY <1>2, <1>4, <2>2
      <3> QED BY <1>3, <3>1
    <2> QED BY <2>1, <2>2
  <1>9. \A e \in Slots : (\A y \in Sides : side[e][y] # Nobody) => side'[e] = side[e]
    BY <1>4, <1>6, <1>7
  <1>10. n.slot = s /\ n.pc = pc /\ n.at = d /\ n.todo = j.todo /\ n.copy = c
    BY <1>1 DEF Jobs
  <1> HIDE DEF n, p, c
  <1>11. \A e \in Slots : Fought(row'[e]) => row'[e].pair = side'[e]
    BY <1>4, <1>9, OnlyOne DEF Earn, FoughtKnown
  <1>12. ReadsIn(n, side', row')
    <2>1. \A e \in Fed(s) : c[e] = side'[e]
      BY <1>3, <1>7, <1>8, FedAreSlots
    <2> QED BY <1>3, <1>10, <2>1 DEF ReadsIn
  <1>13. \A t, e : ~Unmakes(j, t, e)
    BY DEF Unmakes
  <1>14. crashes' = 0 => \A t \in Slots : Lacks(t, side', row') => Syncs(n, t)
    <2> SUFFICES ASSUME crashes = 0, NEW t \in Slots, Lacks(t, side', row'), t # d PROVE FALSE
      BY <1>4, <1>10 DEF Syncs
    <2>1. Lacks(t, side, row)
      BY <1>4, <1>7 DEF Lacks
    <2> QED BY <2>1, OnlyOne DEF Syncs
  <1>15. crashes' = 0 => \A t, e \in Slots : Phantom(t, e, side', row') => Unmakes(n, t, e)
    <2> SUFFICES ASSUME crashes = 0, NEW t \in Slots, NEW e \in Slots, Phantom(t, e, side', row')
                 PROVE  Phantom(t, e, side, row)
      BY <1>4, <1>13, OnlyOne
    <2>1. side'[t] = side[t]
      BY <1>4, <1>9 DEF Phantom, Earn, FoughtKnown, Fought
    <2> QED BY <1>4, <2>1 DEF Phantom
  <1> QED BY <1>5, <1>11, <1>12, <1>14, <1>15, SettledAfter

LEMMA WriteSidesSettle ==
  ASSUME OneAtATime, Typed, Earn, Settled, NEW r \in Requests, WriteSideA(r) \/ WriteSideB(r)
  PROVE  Settled'
  <1>1. job[r] \in Jobs /\ Placed(job[r]) /\ ReadsIn(job[r], side, row)
    BY MyJob, OnlyOne
  <1>2. CASE WriteSideA(r)
    <2>1. PICK d \in job[r].todo : WriteSlotSide(r, d, "a", "sideB")
      BY <1>2 DEF WriteSideA
    <2>2. d \in Slots /\ "a" \in Sides /\ job[r].pc = "sideA" /\ d \in Fed(job[r].slot)
      BY <1>1, <1>2 DEF WriteSideA, At, Jobs, Sides, ReadsIn
    <2> QED BY <2>1, <2>2, WriteSlotSideSettles
  <1>3. CASE WriteSideB(r)
    <2>1. job[r].at \in Slots /\ "b" \in Sides /\ job[r].pc = "sideB" /\ job[r].at \in Fed(job[r].slot)
      BY <1>1, <1>3 DEF WriteSideB, At, Placed, Sides, ReadsIn
    <2> QED BY <1>3, <2>1, WriteSlotSideSettles DEF WriteSideB
  <1> QED BY <1>2, <1>3

\* A request that moves to the next slot of its list reads as truly as before,
\* whatever was written on the rows.
LEMMA SyncedReads ==
  ASSUME NEW j \in Jobs, j.pc \in {"sync", "update", "insert"}, NEW sd, NEW rw, ReadsIn(j, sd, rw), NEW rw2
  PROVE  ReadsIn(Synced(j), sd, rw2)
  <1> DEFINE rest == j.todo \ {j.at}
             n == [j EXCEPT !.todo = rest, !.pc = IF rest = {} THEN "idle" ELSE "sideA"]
  <1>1. Synced(j) \in {Idle, n}
    BY DEF Synced, NextOf
  <1>2. n.slot = j.slot /\ n.todo = rest /\ n.pc \in {"idle", "sideA"} /\ n.copy = j.copy
    BY DEF Jobs
  <1> HIDE DEF n
  <1>3. ReadsIn(n, sd, rw2)
    BY <1>2 DEF ReadsIn
  <1> QED BY <1>1, <1>3, IdleReads

LEMMA SyncReadSettles ==
  ASSUME OneAtATime, Typed, Settled, NEW r \in Requests, SyncRead(r)
  PROVE  Settled'
  <1> DEFINE j == job[r]
             known == \A x \in Sides : j.copy[j.at][x] # Nobody
             u == [j EXCEPT !.pc = "update"]
             i == [j EXCEPT !.pc = "insert"]
  <1>1. /\ j \in Jobs /\ Placed(j) /\ j.pc = "sync" /\ ReadsIn(j, side, row)
        /\ UNCHANGED <<side, row>> /\ crashes' = crashes
    BY OnlyOne DEF SyncRead, At, count, Typed, BracketTypeOK
  <1>2. j.at \in Slots /\ row[j.at] \in Rows /\ j.copy[j.at] = side[j.at]
    BY <1>1 DEF Placed, ReadsIn, Typed, BracketTypeOK
  <1>3. \A t, d : ~Unmakes(j, t, d) /\ (Syncs(j, t) => t = j.at)
    BY <1>1 DEF Unmakes, Syncs
  <1>4. /\ u.pc = "update" /\ u.at = j.at /\ u.slot = j.slot /\ u.todo = j.todo /\ u.copy = j.copy
        /\ i.pc = "insert" /\ i.at = j.at /\ i.slot = j.slot /\ i.todo = j.todo /\ i.copy = j.copy
    BY <1>1 DEF Jobs
  <1>5. job' = [job EXCEPT ![r] = IF row[j.at].status = "scheduled" THEN u
                                  ELSE IF row[j.at].status = "none" /\ known THEN i ELSE Synced(j)]
    BY DEF SyncRead
  <1> HIDE DEF u, i
  <1>6. CASE row[j.at].status = "scheduled"
    <2>1. ReadsIn(u, side, row)
      BY <1>1, <1>4, <1>6 DEF ReadsIn
    <2>2. Syncs(u, j.at)
      BY <1>4 DEF Syncs
    <2> QED BY <1>1, <1>3, <1>5, <1>6, <2>1, <2>2, SettledOnly
  <1>7. CASE row[j.at].status = "none" /\ known
    <2>1. ReadsIn(i, side, row)
      BY <1>1, <1>2, <1>4, <1>7 DEF ReadsIn
    <2>2. Syncs(i, j.at)
      BY <1>4 DEF Syncs
    <2>3. job' = [job EXCEPT ![r] = i]
      BY <1>5, <1>7
    <2> QED BY <1>1, <1>3, <2>1, <2>2, <2>3, SettledOnly
  <1>8. CASE row[j.at].status # "scheduled" /\ ~(row[j.at].status = "none" /\ known)
    <2>1. ReadsIn(Synced(j), side, row)
      BY <1>1, SyncedReads
    <2>2. ~Lacks(j.at, side, row)
      <3>1. CASE Fought(row[j.at])
        BY <1>2, <3>1, OnlyOne DEF Lacks
      <3>2. CASE ~Fought(row[j.at])
        BY <1>2, <1>8, <3>2 DEF Lacks, Fought, Rows
      <3> QED BY <3>1, <3>2
    <2>3. job' = [job EXCEPT ![r] = Synced(j)]
      BY <1>5, <1>8
    <2> QED BY <1>1, <1>3, <2>1, <2>2, <2>3, SettledOnly
  <1> QED BY <1>6, <1>7, <1>8

\* A row that is not fought is given the pair of its slot.
LEMMA RowPaired ==
  ASSUME OneAtATime, Typed, Settled, NEW r \in Requests, NEW t \in Slots, NEW e,
         job[r] \in Jobs, job[r].pc \in {"update", "insert"}, job[r].at = t, crashes' = crashes,
         side' = side, row' = [row EXCEPT ![t] = e], job' = [job EXCEPT ![r] = Synced(job[r])],
         e.pair = side[t], e.status = "scheduled", ~Fought(row[t]),
         crashes = 0 => \A s \in Slots : ~Phantom(s, t, side, row')
  PROVE  Settled'
  <1> DEFINE j == job[r]
  <1>1. \A u \in Slots : row'[u] = IF u = t THEN e ELSE row[u]
    BY DEF Typed, BracketTypeOK
  <1>2. ReadsIn(j, side, row) /\ ReadsIn(Synced(j), side', row')
    BY OnlyOne, SyncedReads
  <1>3. \A u \in Slots : Fought(row'[u]) => row'[u].pair = side'[u]
    BY <1>1, OnlyOne
  <1>4. \A s, d : ~Unmakes(j, s, d) /\ (Syncs(j, s) => s = t)
    BY DEF Unmakes, Syncs
  <1>5. ASSUME crashes = 0, NEW s \in Slots, Lacks(s, side', row') PROVE FALSE
    <2>1. s # t /\ Lacks(s, side, row)
      BY <1>1, <1>5 DEF Lacks
    <2> QED BY <1>4, <1>5, <2>1, OnlyOne
  <1>6. ASSUME crashes = 0, NEW s \in Slots, NEW d \in Slots, Phantom(s, d, side', row') PROVE FALSE
    <2>1. d # t /\ s # t
      BY <1>1, <1>6 DEF Phantom
    <2>2. Phantom(s, d, side, row)
      BY <1>1, <1>6, <2>1 DEF Phantom
    <2> QED BY <1>4, <1>6, <2>2, OnlyOne
  <1> QED BY <1>2, <1>3, <1>5, <1>6, SettledAfter

LEMMA SyncUpdateSettles ==
  ASSUME OneAtATime, Typed, Settled, NEW r \in Requests, SyncUpdate(r)
  PROVE  Settled'
  <1> DEFINE j == job[r]
             e == [row[j.at] EXCEPT !.pair = j.copy[j.at]]
  <1>1. /\ j \in Jobs /\ Placed(j) /\ j.pc = "update" /\ ReadsIn(j, side, row)
        /\ side' = side /\ crashes' = crashes
    BY OnlyOne DEF SyncUpdate, At, count, Typed, BracketTypeOK
  <1>2. /\ j.at \in Slots /\ row[j.at] \in Rows /\ j.copy[j.at] = side[j.at]
        /\ row[j.at].status = "scheduled"
    BY <1>1 DEF Placed, ReadsIn, Typed, BracketTypeOK
  <1>3. row' = [row EXCEPT ![j.at] = e] /\ job' = [job EXCEPT ![r] = Synced(j)]
    BY <1>2 DEF SyncUpdate
  <1>4. e.pair = side[j.at] /\ e.status = "scheduled"
    BY <1>2 DEF Rows
  <1>5. ~Fought(row[j.at])
    BY <1>2 DEF Fought
  <1> HIDE DEF e
  <1>6. ASSUME NEW s \in Slots, Phantom(s, j.at, side, row') PROVE crashes # 0
    <2>1. \A u \in Slots : row'[u] = IF u = j.at THEN e ELSE row[u]
      BY <1>3 DEF Typed, BracketTypeOK
    <2>2. Phantom(s, j.at, side, row)
      BY <1>2, <1>4, <1>6, <2>1 DEF Phantom
    <2> QED BY <1>1, <1>2, <2>2, OnlyOne DEF Unmakes
  <1> QED BY <1>1, <1>2, <1>3, <1>4, <1>5, <1>6, RowPaired

\* A bout that feeds the slot and ended the bracket would have left it empty.
LEMMA InsertSettles ==
  ASSUME OneAtATime, Typed, Earn, Settled, NEW r \in Requests, InsertMatchForSlot(r)
  PROVE  Settled'
  <1> DEFINE j == job[r]
             e == Placeholder(j.copy[j.at])
  <1>1. /\ j \in Jobs /\ Placed(j) /\ j.pc = "insert" /\ ReadsIn(j, side, row)
        /\ side' = side /\ crashes' = crashes
    BY OnlyOne DEF InsertMatchForSlot, At, count, Typed, BracketTypeOK
  <1>2. /\ j.at \in Slots /\ row[j.at] \in Rows /\ j.copy[j.at] = side[j.at]
        /\ row[j.at].status = "none" /\ \A x \in Sides : side[j.at][x] # Nobody
    BY <1>1 DEF Placed, ReadsIn, Typed, BracketTypeOK
  <1>3. row' = [row EXCEPT ![j.at] = e] /\ job' = [job EXCEPT ![r] = Synced(j)]
    BY <1>2 DEF InsertMatchForSlot
  <1>4. e.pair = side[j.at] /\ e.status = "scheduled"
    BY <1>2 DEF Placeholder
  <1>5. ~Fought(row[j.at])
    BY <1>2 DEF Fought
  <1> HIDE DEF e
  <1>6. ASSUME NEW s \in Slots, Phantom(s, j.at, side, row') PROVE FALSE
    <2>1. \A u \in Slots : row'[u] = IF u = j.at THEN e ELSE row[u]
      BY <1>3 DEF Typed, BracketTypeOK
    <2>2. s # j.at /\ Won(s) /\ EndsBracket(s, row[s].winner)
      BY <1>4, <1>6, <2>1 DEF Phantom, Won, EndsBracket
    <2>3. PICK x \in Sides : Takes(j.at, x, s)
      BY <1>6 DEF Phantom, Fed
    <2> QED BY <1>2, <2>2, <2>3 DEF Earn, SidesStand
  <1> QED BY <1>1, <1>2, <1>3, <1>4, <1>5, <1>6, RowPaired

LEMMA RetractClearSettles ==
  ASSUME OneAtATime, Typed, Earn, Settled, NEW r \in Requests, RetractClear(r)
  PROVE  Settled'
  <1> DEFINE j == job[r]
             m(d) == NextOf(j, "retract", j.todo \ {d}, "unmake")
  <1>1. j \in Jobs /\ Placed(j) /\ CarriesIn(j, side, row) /\ j.pc = "retract" /\ crashes' = crashes
    BY MyJob DEF RetractClear, At, count
  <1>2. PICK d \in j.todo : /\ side' = [side EXCEPT ![d] = Cleared(d, j.slot)]
                            /\ job' = [job EXCEPT ![r] = [m(d) EXCEPT !.later = @ \cup {d}]]
    BY DEF RetractClear
  <1>3. d \in Slots /\ side \in [Slots -> Pairs]
    BY <1>1, <1>2 DEF Jobs, Typed, BracketTypeOK
  <1>4. Cleared(d, j.slot) = side[d]
    BY <1>1, <1>3, NobodyToClear DEF Cleared, Pairs, Retracting
  <1>5. side' = side /\ row' = row
    BY <1>2, <1>3, <1>4 DEF RetractClear
  <1> DEFINE n == [m(d) EXCEPT !.later = @ \cup {d}]
  <1>6. /\ n.slot = j.slot /\ n.todo = j.todo \ {d} /\ n.later = j.later \cup {d}
        /\ n.pc = IF j.todo \ {d} = {} THEN "unmake" ELSE "retract"
    <2>1. m(d) = [j EXCEPT !.todo = j.todo \ {d}, !.pc = IF j.todo \ {d} = {} THEN "unmake" ELSE "retract"]
      BY DEF NextOf
    <2> QED BY <1>1, <2>1 DEF Jobs
  <1> HIDE DEF n, m
  <1>7. ReadsIn(n, side, row)
    BY <1>6 DEF ReadsIn
  <1>8. \A s, e : Unmakes(j, s, e) => Unmakes(n, s, e)
    BY <1>1, <1>2, <1>6 DEF Unmakes
  <1>9. \A s : ~Syncs(j, s)
    BY <1>1 DEF Syncs
  <1>10. job' = [job EXCEPT ![r] = n]
    BY <1>2 DEF n
  <1> QED BY <1>1, <1>5, <1>7, <1>8, <1>9, <1>10, SettledOnly

\* The list of a request that deletes rows.
LEMMA DeletesNext ==
  ASSUME NEW j \in Jobs, NEW rest
  PROVE  LET n == NextOf(j, "delete", rest, "idle") IN
         /\ \A sd, rw : ReadsIn(n, sd, rw)
         /\ \A s, d : j.slot = s /\ d \in rest => Unmakes(n, s, d)
  <1> DEFINE m == [j EXCEPT !.todo = rest, !.pc = IF rest = {} THEN "idle" ELSE "delete"]
             n == NextOf(j, "delete", rest, "idle")
  <1>1. m.slot = j.slot /\ m.todo = rest /\ m.pc = IF rest = {} THEN "idle" ELSE "delete"
    BY DEF Jobs
  <1>2. n = IF rest = {} THEN Idle ELSE m
    BY DEF NextOf
  <1> HIDE DEF m, n
  <1>3. \A sd, rw : ReadsIn(m, sd, rw)
    BY <1>1 DEF ReadsIn
  <1>4. \A sd, rw : ReadsIn(n, sd, rw)
    BY <1>2, <1>3, IdleReads
  <1>5. ASSUME NEW s, NEW d, j.slot = s, d \in rest PROVE Unmakes(n, s, d)
    BY <1>1, <1>2, <1>5 DEF Unmakes
  <1> QED BY <1>4, <1>5 DEF n

LEMMA FindUnplayedSettles ==
  ASSUME OneAtATime, Typed, Earn, Settled, NEW r \in Requests, FindUnplayed(r)
  PROVE  Settled'
  <1> DEFINE j == job[r]
             rest == {d \in j.later : row[d].status = "scheduled"}
             n == NextOf(j, "delete", rest, "idle")
  <1>1. /\ j \in Jobs /\ Placed(j) /\ CarriesIn(j, side, row) /\ j.pc = "unmake"
        /\ crashes' = crashes /\ UNCHANGED <<side, row>>
    BY MyJob DEF FindUnplayed, At, count
  <1>2. job' = [job EXCEPT ![r] = n]
    BY DEF FindUnplayed
  <1>3. ASSUME NEW s \in Slots, NEW d \in Slots, Phantom(s, d, side, row), Unmakes(j, s, d)
        PROVE  j.slot = s /\ d \in rest
    <2>1. j.slot = s /\ d \in j.later
      BY <1>1, <1>3 DEF Unmakes
    <2>2. \E x \in Sides : side[d][x] = Nobody
      BY <1>1, <1>3, <2>1, NobodyToClear DEF Phantom, Fed, Retracting
    <2>3. ~Fought(row[d]) /\ row[d] \in Rows /\ row[d].status # "none"
      BY <1>3, <2>2 DEF Earn, FoughtKnown, Typed, BracketTypeOK, Phantom
    <2> QED BY <2>1, <2>3 DEF Fought, Rows
  <1> HIDE DEF rest
  <1>4. ReadsIn(n, side, row) /\ \A s, d : j.slot = s /\ d \in rest => Unmakes(n, s, d)
    BY <1>1, DeletesNext
  <1> HIDE DEF n
  <1>5. \A s : ~Syncs(j, s)
    BY <1>1 DEF Syncs
  <1>6. \A s, d \in Slots : Phantom(s, d, side, row) /\ Unmakes(j, s, d) => Unmakes(n, s, d)
    BY <1>3, <1>4
  <1> QED BY <1>1, <1>2, <1>4, <1>5, <1>6, SettledOnly

LEMMA DeleteUnplayedSettles ==
  ASSUME OneAtATime, Typed, Earn, Settled, NEW r \in Requests, DeleteUnplayed(r)
  PROVE  Settled'
  <1> DEFINE j == job[r]
             n(d) == NextOf(j, "delete", j.todo \ {d}, "idle")
  <1>1. j \in Jobs /\ Placed(j) /\ CarriesIn(j, side, row) /\ j.pc = "delete" /\ crashes' = crashes
    BY MyJob DEF DeleteUnplayed, At, count
  <1>2. PICK d \in j.todo : row' = [row EXCEPT ![d] = NoRow] /\ job' = [job EXCEPT ![r] = n(d)]
    BY DEF DeleteUnplayed
  <1>3. d \in Fed(j.slot) /\ d \in Slots /\ side' = side
    BY <1>1, <1>2 DEF CarriesIn, Retracting, Jobs, DeleteUnplayed
  <1>4. \E x \in Sides : side[d][x] = Nobody
    BY <1>1, <1>3, NobodyToClear DEF Fed, Retracting
  <1>5. \A u \in Slots : row'[u] = IF u = d THEN NoRow ELSE row[u]
    BY <1>2 DEF Typed, BracketTypeOK
  <1>6. NoRow.status = "none" /\ ~Fought(NoRow)
    BY DEF NoRow, Fought
  <1>7. /\ ReadsIn(n(d), side', row')
        /\ \A s, e : j.slot = s /\ e \in j.todo \ {d} => Unmakes(n(d), s, e)
    BY <1>1, DeletesNext
  <1> HIDE DEF n
  <1>8. \A u \in Slots : Fought(row'[u]) => row'[u].pair = side'[u]
    BY <1>3, <1>5, <1>6, OnlyOne
  <1>9. ASSUME crashes = 0, NEW s \in Slots, Lacks(s, side', row') PROVE FALSE
    <2>1. s # d /\ Lacks(s, side, row)
      BY <1>3, <1>4, <1>5, <1>9 DEF Lacks
    <2> QED BY <1>1, <1>9, <2>1, OnlyOne DEF Syncs
  <1>10. ASSUME crashes = 0, NEW s \in Slots, NEW e \in Slots, Phantom(s, e, side', row')
         PROVE  Unmakes(n(d), s, e)
    <2>1. e # d /\ s # d
      BY <1>5, <1>6, <1>10 DEF Phantom
    <2>2. Phantom(s, e, side, row)
      BY <1>3, <1>5, <1>10, <2>1 DEF Phantom
    <2>3. Unmakes(j, s, e)
      BY <1>10, <2>2, OnlyOne
    <2>4. j.slot = s /\ e \in j.todo
      BY <1>1, <2>3 DEF Unmakes
    <2> QED BY <1>7, <2>1, <2>4
  <1> QED BY <1>1, <1>2, <1>7, <1>8, <1>9, <1>10, SettledAfter

\* A row that is there, or is no row at all.
LEMMA BlankRow ==
  ASSUME Typed, Blank, NEW t \in Slots, NEW e, row' = [row EXCEPT ![t] = e],
         e.status # "none" \/ e = NoRow
  PROVE  Blank'
  <1>1. \A s \in Slots : row'[s] = IF s = t THEN e ELSE row[s]
    BY DEF Typed, BracketTypeOK
  <1> QED BY <1>1 DEF Blank, NoRow, NoPair

LEMMA BlankSame ==
  ASSUME Blank, row' = row
  PROVE  Blank'
  BY DEF Blank, NoRow, NoPair

\* Completions: the rows they write are there, and the ones they delete are none.
LEMMA CompletionBlanks ==
  ASSUME Typed, Blank, NEW r \in Requests,
         \/ \E s \in Slots : Start(r, s) \/ CompleteAgain(r, s) \/ \E w \in People : Complete(r, s, w)
         \/ Advance(r) \/ Crash(r)
  PROVE  Blank'
  <1>1. row \in [Slots -> Rows] /\ job[r] \in Jobs /\ Placed(job[r])
    BY DEF Typed, BracketTypeOK
  <1>2. ASSUME NEW s \in Slots, Start(r, s) PROVE Blank'
    <2> DEFINE e == [row[s] EXCEPT !.status = "running"]
    <2>1. row' = [row EXCEPT ![s] = e] /\ e.status # "none"
      BY <1>1, <1>2 DEF Start, Rows
    <2> QED BY <2>1, BlankRow
  <1>3. ASSUME NEW s \in Slots, NEW w \in People, Complete(r, s, w) PROVE Blank'
    <2> DEFINE e == [row[s] EXCEPT !.status = "completed", !.winner = w]
    <2>1. e.status # "none"
      BY <1>1 DEF Rows
    <2>2. row' = [row EXCEPT ![s] = e]
      BY <1>1, <1>3 DEF Complete, Rows
    <2> QED BY <2>1, <2>2, BlankRow
  <1>4. CASE SyncUpdate(r)
    <2> DEFINE t == job[r].at
               e == [row[t] EXCEPT !.pair = job[r].copy[t]]
    <2>1. t \in Slots
      BY <1>1, <1>4 DEF SyncUpdate, At, Placed
    <2>2. CASE row[t].status = "none"
      BY <1>4, <2>2, BlankSame DEF SyncUpdate
    <2>3. CASE row[t].status # "none"
      <3>1. row' = [row EXCEPT ![t] = e] /\ e.status # "none"
        BY <1>1, <1>4, <2>1, <2>3 DEF SyncUpdate, Rows
      <3> QED BY <2>1, <3>1, BlankRow
    <2> QED BY <2>2, <2>3
  <1>5. CASE InsertMatchForSlot(r)
    <2> DEFINE t == job[r].at
               e == Placeholder(job[r].copy[t])
    <2>1. t \in Slots /\ e.status # "none"
      BY <1>1, <1>5 DEF InsertMatchForSlot, At, Placed, Placeholder
    <2>2. row' = row \/ row' = [row EXCEPT ![t] = e]
      BY <1>5 DEF InsertMatchForSlot
    <2> QED BY <2>1, <2>2, BlankRow, BlankSame
  <1>6. CASE DeleteUnplayed(r)
    <2>1. PICK d \in job[r].todo : row' = [row EXCEPT ![d] = NoRow]
      BY <1>6 DEF DeleteUnplayed
    <2>2. d \in Slots
      BY <1>1 DEF Jobs
    <2> QED BY <2>1, <2>2, BlankRow
  <1>7. CASE \/ \E s \in Slots : CompleteAgain(r, s)
             \/ Load(r) \/ ReadDownstream(r) \/ WriteSideA(r) \/ WriteSideB(r) \/ SyncRead(r)
             \/ RetractClear(r) \/ FindUnplayed(r) \/ Crash(r)
    BY <1>7, BlankSame DEF CompleteAgain, Load, ReadDownstream, WriteSideA, WriteSideB,
       WriteSlotSide, SyncRead, RetractClear, FindUnplayed, Crash
  <1> QED BY <1>2, <1>3, <1>4, <1>5, <1>6, <1>7 DEF Advance

\* With no request in hand, nothing is owed.
LEMMA QuietOwesNothing ==
  ASSUME OneAtATime, Owed, Settled, NEW r \in Requests, At(r, "idle"), crashes = 0
  PROVE  /\ \A s \in Slots : Known(s) => row[s].pair = side[s]
         /\ \A s, d \in Slots : \A x \in Sides :
              Takes(d, x, s) /\ Won(s) /\ ~EndsBracket(s, row[s].winner) => side[d][x] # Nobody
         /\ \A s, d \in Slots :
              Won(s) /\ EndsBracket(s, row[s].winner) /\ d \in Fed(s) => row[d].status = "none"
  <1>1. \A q \in Requests : job[q].pc = "idle"
    BY DEF OneAtATime, At
  <1>2. \A q \in Requests, s \in Slots : ~Syncs(job[q], s)
    BY <1>1 DEF Syncs
  <1>3. \A q \in Requests : \A s, d \in Slots : ~Unmakes(job[q], s, d)
    BY <1>1 DEF Unmakes
  <1>4. \A q \in Requests : \A s, d, x : ~Owes(job[q], s, d, x)
    BY <1>1 DEF Owes
  <1> QED BY <1>2, <1>3, <1>4 DEF Owed, Settled, PairOwed, ResetOwed

\* A step that changes the job alone.
LEMMA BackPartsSame ==
  ASSUME UNCHANGED <<side, row, crashes>>, NEW r \in Requests, NEW n, job'[r] = n,
         BackOutside(n), BackBehind(n), BackSides(n), BackRows(n)
  PROVE  BackOutside(job[r])' /\ BackBehind(job[r])' /\ BackSides(job[r])' /\ BackRows(job[r])'
  <1>1. BackOutside(job[r])'
    BY DEF BackOutside, Known, Fought, Won, EndsBracket, Stale
  <1>2. BackBehind(job[r])'
    BY DEF BackBehind, Fought
  <1>3. BackSides(job[r])'
    BY DEF BackSides, Undone, Won, EndsBracket, Result
  <1>4. BackRows(job[r])'
    BY DEF BackRows, Stale
  <1> QED BY <1>1, <1>2, <1>3, <1>4

LEMMA BackSame ==
  ASSUME UNCHANGED <<side, row, crashes>>, NEW r \in Requests, NEW n, job'[r] = n, Back(n)
  PROVE  Back(job[r])'
  <1>1. BackJob(job[r])'
    BY DEF Back, BackJob, Undone, Stale
  <1> QED BY <1>1, BackPartsSame DEF Back

\* The walk of dependentClosure: each hop adds what the slots found feed.
Hops(s, hop) ==
  /\ hop \in [Nat -> SUBSET Slots] /\ hop[0] = {s}
  /\ \A n \in Nat : hop[n + 1] = hop[n] \cup UNION {Fed(d) : d \in hop[n]}

LEMMA WalkIs ==
  ASSUME NEW s \in Slots
  PROVE  \E hop : Hops(s, hop) /\ Closure(s) = (Slots \ {s}) \cap hop[Cardinality(Slots)]
<1> DEFINE V == SUBSET Slots
           step == [x \in Nat \X V |-> x[2] \cup UNION {Fed(d) : d \in x[2]}]
           Is(f) == f = [n \in Nat |-> IF n = 0 THEN {s}
                                       ELSE LET seen == f[n - 1] IN seen \cup UNION {Fed(d) : d \in seen}]
<1>1. \A n \in Nat, v \in V :
        step[<<n, v>>] = v \cup UNION {Fed(d) : d \in v} /\ step[<<n, v>>] \in V
  BY DEF Fed
<1>2. PICK f : Recursive(f, V, {s}, step)
  <2>1. {s} \in V /\ StaysIn(V, step)
    BY <1>1 DEF StaysIn
  <2> HIDE DEF V, step
  <2> QED BY <2>1, RecursionDefines
<1> HIDE DEF step
<1>3. \A n \in Nat : f[n + 1] = f[n] \cup UNION {Fed(d) : d \in f[n]}
  BY <1>1, <1>2 DEF Recursive
<1>4. Is(f)
  <2>1. ASSUME NEW n \in Nat, n # 0 PROVE f[n] = f[n - 1] \cup UNION {Fed(d) : d \in f[n - 1]}
    <3>1. n - 1 \in Nat /\ (n - 1) + 1 = n
      BY <2>1
    <3> QED BY <1>3, <3>1
  <2>2. f[0] = {s} /\ f = [n \in Nat |-> f[n]]
    BY <1>2 DEF Recursive
  <2> QED BY <2>1, <2>2
<1> DEFINE hop == CHOOSE g : Is(g)
<1>5. Is(hop)
  <2> HIDE DEF Is
  <2> QED BY <1>4
<1>6. Closure(s) = (Slots \ {s}) \cap hop[Cardinality(Slots)]
  BY DEF Closure
<1> HIDE DEF hop
<1>7. hop[0] = {s} /\ \A n \in Nat : hop[n + 1] = hop[n] \cup UNION {Fed(d) : d \in hop[n]}
  <2>1. hop[0] = {s}
    BY <1>5
  <2>2. ASSUME NEW n \in Nat PROVE hop[n + 1] = hop[n] \cup UNION {Fed(d) : d \in hop[n]}
    <3>1. n + 1 \in Nat /\ n + 1 # 0 /\ (n + 1) - 1 = n
      OBVIOUS
    <3> QED BY <1>5, <3>1
  <2> QED BY <2>1, <2>2
<1>8. hop \in [Nat -> SUBSET Slots]
  <2> DEFINE A == {n \in Nat : hop[n] \subseteq Slots}
  <2>1. 0 \in A
    BY <1>7
  <2>2. \A n \in Nat : n \in A => n + 1 \in A
    BY <1>7 DEF Fed
  <2>3. Nat \subseteq A
    <3> HIDE DEF A
    <3> QED BY <2>1, <2>2, Induct
  <2>4. hop = [n \in Nat |-> hop[n]]
    BY <1>5
  <2> QED BY <2>3, <2>4
<1> QED BY <1>6, <1>7, <1>8 DEF Hops

\* A walk that finds no other slot is over, and there are only so many to find.
LEMMA WalkStops ==
  ASSUME NEW s \in Slots, NEW hop, Hops(s, hop)
  PROVE  hop[Cardinality(Slots) + 1] = hop[Cardinality(Slots)]
<1> DEFINE N == Cardinality(Slots)
           A == {n \in Nat : hop[n + 1] = hop[n] \/ Cardinality(hop[n]) >= n + 1}
<1>1. \A n \in Nat : hop[n] \in SUBSET Slots /\ hop[n + 1] = hop[n] \cup UNION {Fed(d) : d \in hop[n]}
  BY DEF Hops
<1>2. \A n \in Nat : IsFiniteSet(hop[n]) /\ Cardinality(hop[n]) \in Nat /\ Cardinality(hop[n]) <= N /\ N \in Nat
  <2> TAKE n \in Nat
  <2>1. IsFiniteSet(hop[n]) /\ Cardinality(hop[n]) <= N
    BY <1>1, RoundsGoOn, FS_Subset
  <2> QED BY <2>1, RoundsGoOn, FS_CardinalityType
<1>3. 0 \in A
  <2>1. Cardinality(hop[0]) = 1
    BY FS_Singleton DEF Hops
  <2> QED BY <2>1
<1>4. ASSUME NEW n \in Nat, n \in A PROVE n + 1 \in A
  <2>1. hop[(n + 1) + 1] = hop[n + 1] \cup UNION {Fed(d) : d \in hop[n + 1]}
    BY <1>1
  <2>2. CASE hop[n + 1] = hop[n]
    <3>1. hop[n + 1] \cup UNION {Fed(d) : d \in hop[n + 1]} = hop[n] \cup UNION {Fed(d) : d \in hop[n]}
      BY <2>2
    <3>2. hop[(n + 1) + 1] = hop[n + 1]
      BY <1>1, <2>1, <3>1
    <3> QED BY <3>2
  <2>3. CASE hop[n + 1] # hop[n]
    <3>1. Cardinality(hop[n]) >= n + 1
      BY <1>4, <2>3
    <3>2. hop[n] \subseteq hop[n + 1]
      BY <1>1
    <3>3. Cardinality(hop[n]) < Cardinality(hop[n + 1])
      <4>1. IsFiniteSet(hop[n + 1]) /\ Cardinality(hop[n]) <= Cardinality(hop[n + 1])
            /\ Cardinality(hop[n]) # Cardinality(hop[n + 1])
        BY <1>2, <2>3, <3>2, FS_Subset
      <4> QED BY <1>2, <4>1
    <3>4. Cardinality(hop[n + 1]) \in Nat /\ Cardinality(hop[n]) \in Nat
      BY <1>2
    <3>5. Cardinality(hop[n + 1]) >= (n + 1) + 1
      BY <3>1, <3>3, <3>4
    <3> QED BY <3>5
  <2> QED BY <2>2, <2>3
<1>5. Nat \subseteq A
  <2> HIDE DEF A
  <2> QED BY <1>3, <1>4, Induct
<1>6. N \in Nat /\ N \in A
  BY <1>2, <1>5
<1> QED BY <1>2, <1>6

\* The walk has what the bout feeds, and what each bout it has feeds, and not
\* the bout it began with.
LEMMA WalkEnds ==
  ASSUME NEW s \in Slots
  PROVE  Closure(s) = Fed(s) \cup UNION {Fed(d) : d \in Closure(s)}
<1>1. PICK hop : Hops(s, hop) /\ Closure(s) = (Slots \ {s}) \cap hop[Cardinality(Slots)]
  BY WalkIs
<1> DEFINE A == {n \in Nat : \A x \in hop[n] : /\ Round[s] <= Round[x]
                                               /\ x = s \/ \E d \in hop[n] : x \in Fed(d)}
           N == Cardinality(Slots)
           H == hop[N]
<1>2. /\ \A n \in Nat : hop[n] \in SUBSET Slots
      /\ hop[0] = {s} /\ \A n \in Nat : hop[n + 1] = hop[n] \cup UNION {Fed(d) : d \in hop[n]}
  BY <1>1 DEF Hops
<1>3. Round \in [Slots -> Nat] /\ \A t \in Slots : \A d \in Fed(t) : Round[t] < Round[d] /\ d \in Slots
  BY BracketConstants, RoundsGoOn DEF Fed
<1>4. 0 \in A
  BY <1>2, <1>3
<1>5. ASSUME NEW n \in Nat, n \in A PROVE n + 1 \in A
  <2>1. ASSUME NEW x \in hop[n + 1]
        PROVE  Round[s] <= Round[x] /\ (x = s \/ \E d \in hop[n + 1] : x \in Fed(d))
    <3>1. CASE x \in hop[n]
      BY <1>2, <1>5, <3>1
    <3>2. CASE x \notin hop[n]
      <4>1. PICK d \in hop[n] : x \in Fed(d)
        BY <1>2, <3>2
      <4>2. d \in Slots /\ Round[s] <= Round[d] /\ Round[d] < Round[x] /\ x \in Slots
        BY <1>2, <1>3, <1>5, <4>1
      <4>3. Round[s] \in Nat /\ Round[d] \in Nat /\ Round[x] \in Nat
        BY <1>3, <4>2
      <4> QED BY <1>2, <4>1, <4>2, <4>3
    <3> QED BY <3>1, <3>2
  <2> QED BY <2>1
<1>6. Nat \subseteq A
  <2> HIDE DEF A
  <2> QED BY <1>4, <1>5, Induct
<1>7. N \in Nat
  BY RoundsGoOn, FS_CardinalityType
<1>8. /\ H \subseteq Slots
      /\ \A x \in H : Round[s] <= Round[x] /\ (x = s \/ \E d \in H : x \in Fed(d))
      /\ \A d \in H : Fed(d) \subseteq H
  <2>1. hop[N + 1] = hop[N]
    BY <1>1, WalkStops
  <2> QED BY <1>2, <1>6, <1>7, <2>1
<1>9. s \in H
  <2> DEFINE B == {n \in Nat : s \in hop[n]}
  <2>1. 0 \in B
    BY <1>2
  <2>2. \A n \in Nat : n \in B => n + 1 \in B
    BY <1>2
  <2>3. Nat \subseteq B
    <3> HIDE DEF B
    <3> QED BY <2>1, <2>2, Induct
  <2> QED BY <1>7, <2>3
<1>10. \A d \in H : s \notin Fed(d)
  <2> TAKE d \in H
  <2>1. d \in Slots /\ Round[s] <= Round[d] /\ Round[d] \in Nat /\ Round[s] \in Nat
    BY <1>3, <1>8
  <2> QED BY <1>3, <2>1
<1> HIDE DEF H
<1>11. Closure(s) = (Slots \ {s}) \cap H
  BY <1>1 DEF H
<1> QED BY <1>8, <1>9, <1>10, <1>11

\* Nothing behind a bout feeds it, and each of its dependents is fed by it or by
\* another of them.
LEMMA Walk ==
  ASSUME NEW s \in Slots
  PROVE  /\ s \notin Closure(s) /\ Closure(s) \subseteq Slots /\ Fed(s) \subseteq Closure(s)
         /\ \A d \in Closure(s) : Fed(d) \subseteq Closure(s)
         /\ \A d \in Closure(s) : \E u \in Closure(s) \cup {s} : d \in Fed(u)
  <1>1. s \notin Closure(s) /\ Closure(s) \subseteq Slots
    BY DEF Closure
  <1>2. Closure(s) = Fed(s) \cup UNION {Fed(d) : d \in Closure(s)}
    BY WalkEnds
  <1> QED BY <1>1, <1>2

\* All stands when a request to take a result back begins.
LEMMA BackBegins ==
  ASSUME OneAtATime, Typed, Earn, Owed, Settled, NEW r \in Requests, At(r, "idle"),
         NEW n, n.slot \in Slots, n.fought \subseteq Closure(n.slot), n.pc \in {"redecide", "revert", "sources"},
         \A d \in Closure(n.slot) : Fought(row[d]) => d \in n.fought,
         (n.pc = "revert" /\ n.todo = n.fought) \/ n.fought = {}
  PROVE  BackOutside(n) /\ BackBehind(n) /\ BackSides(n) /\ BackRows(n)
  <1> DEFINE s == n.slot
  <1>1. BackOutside(n)
    <2>1. ASSUME NEW t \in Slots
          PROVE  /\ Fought(row[t]) => Known(t) /\ row[t].pair = side[t]
                 /\ row[t].winner # Nobody =>
                      row[t].status = "completed" /\ \E x \in Sides : row[t].winner = side[t][x]
      BY <2>1 DEF Earn, FoughtKnown, Known, Settled, FoughtPaired
    <2>2. ASSUME NEW t \in Slots
          PROVE  /\ \A x \in Sides : row[t].pair[x] # Nobody => row[t].pair[x] = side[t][x]
                 /\ crashes = 0 /\ Known(t) => row[t].pair = side[t]
      BY <2>2, QuietOwesNothing DEF Earn, PairsStand
    <2>3. crashes = 0 => \A t \in Slots : Won(t) /\ EndsBracket(t, row[t].winner) =>
                           \A d \in Fed(t) : row[d].status = "none"
      BY QuietOwesNothing, FedAreSlots
    <2> QED BY <2>1, <2>2, <2>3 DEF BackOutside
  <1>2. BackBehind(n)
    <2> SUFFICES ASSUME NEW t \in Closure(s), ~(n.pc = "revert" /\ t \in n.todo)
                 PROVE  ~Fought(row[t]) /\ row[t].winner = Nobody
      BY DEF BackBehind
    <2>1. t \in Slots /\ ~Fought(row[t])
      BY Walk
    <2> QED BY <2>1 DEF Earn, FoughtKnown, Fought
  <1>3. BackSides(n)
    <2>1. ASSUME NEW t \in Slots \ Undone(n), NEW d \in Slots, NEW x \in Sides, Takes(d, x, t), side[d][x] # Nobody
          PROVE  /\ t \notin Closure(s) /\ Won(t) /\ ~EndsBracket(t, row[t].winner)
                 /\ side[d][x] = Result(t, Source[d][x].takes)
      <3>1. /\ Won(t) /\ ~EndsBracket(t, row[t].winner)
            /\ side[d][x] = Result(t, Source[d][x].takes)
        BY <2>1 DEF Earn, SidesStand
      <3>2. t \notin Closure(s)
        BY <3>1, <2>1 DEF Won, Fought, Undone
      <3> QED BY <3>1, <3>2
    <2>2. ASSUME NEW t \in Slots, NEW d \in Slots, NEW x \in Sides, Takes(d, x, t), crashes = 0,
                 Won(t), ~EndsBracket(t, row[t].winner)
          PROVE  side[d][x] # Nobody
      BY <2>2, QuietOwesNothing
    <2> QED BY <2>1, <2>2 DEF BackSides
  <1>4. BackRows(n)
    BY DEF BackRows
  <1> QED BY <1>1, <1>2, <1>3, <1>4

LEMMA UndoBacks ==
  ASSUME OneAtATime, Typed, Earn, Owed, Settled, NEW r \in Requests, NEW s \in Slots,
         NEW discard \in BOOLEAN, NEW to \in {"running", "scheduled"}, Undo(r, s, discard, to)
  PROVE  Back(job[r])'
  <1> DEFINE later  == {d \in Closure(s) : row[d].status # "none"}
             fought == {d \in later : Fought(row[d])}
             op == IF discard THEN "discard" ELSE "undo"
             pc == IF discard THEN "revert" ELSE "sources"
             n == [Idle EXCEPT !.op = op, !.slot = s, !.to = to, !.later = later,
                               !.fought = fought, !.todo = fought, !.pc = pc]
  <1>1. /\ At(r, "idle") /\ row[s].status = "completed" /\ (fought # {} <=> discard)
        /\ job' = [job EXCEPT ![r] = n] /\ UNCHANGED <<side, row, crashes>>
    BY DEF Undo, Asks
  <1>2. job'[r] = n
    BY <1>1 DEF Typed, BracketTypeOK
  <1> HIDE DEF op, pc, later, fought
  <1>3. /\ n.op = op /\ n.slot = s /\ n.to = to /\ n.later = later /\ n.fought = fought
        /\ n.todo = fought /\ n.pc = pc /\ n.copy = [t \in Slots |-> NoPair]
    BY DEF Idle
  <1> HIDE DEF n
  <1>4. op \in {"undo", "discard"} /\ pc \in {"revert", "sources"} /\ (discard <=> pc = "revert")
    BY DEF op, pc
  <1>5. fought \subseteq Closure(s) /\ \A d \in Closure(s) : Fought(row[d]) => d \in fought
    BY DEF later, fought, Fought
  <1>6. BackJob(n)
    BY <1>1, <1>3, <1>4, <1>5 DEF BackJob, TakingBack, later
  <1>7. BackOutside(n) /\ BackBehind(n) /\ BackSides(n) /\ BackRows(n)
    BY <1>1, <1>3, <1>4, <1>5, BackBegins
  <1> QED BY <1>1, <1>2, <1>6, <1>7, BackSame DEF Back

LEMMA ChangeResultBacks ==
  ASSUME OneAtATime, Typed, Earn, Owed, Settled, NEW r \in Requests, NEW s \in Slots,
         NEW w \in People, ChangeResult(r, s, w)
  PROVE  Back(job[r])'
  <1> DEFINE n == [Idle EXCEPT !.op = "change", !.slot = s, !.winner = w, !.pc = "redecide"]
  <1>1. /\ At(r, "idle") /\ row[s].status = "completed" /\ MayWin(s, w)
        /\ ~ \E d \in Closure(s) : Fought(row[d])
        /\ job' = [job EXCEPT ![r] = n] /\ UNCHANGED <<side, row, crashes>>
    BY DEF ChangeResult, Asks
  <1>2. job'[r] = n
    BY <1>1 DEF Typed, BracketTypeOK
  <1>3. /\ n.op = "change" /\ n.slot = s /\ n.winner = w /\ n.later = {} /\ n.fought = {}
        /\ n.pc = "redecide" /\ n.copy = [t \in Slots |-> NoPair]
    BY DEF Idle
  <1> HIDE DEF n
  <1>4. w # Nobody => \E x \in Sides : w = side[s][x]
    BY <1>1 DEF MayWin, Earn, PairsStand
  <1>5. BackJob(n)
    BY <1>1, <1>3, <1>4 DEF BackJob, TakingBack
  <1>6. BackOutside(n) /\ BackBehind(n) /\ BackSides(n) /\ BackRows(n)
    BY <1>1, <1>3, BackBegins
  <1> QED BY <1>1, <1>2, <1>5, <1>6, BackSame DEF Back

\* The job of a request that takes a result back.
LEMMA MyBack ==
  ASSUME Typed, NEW r \in Requests, Back(job[r])
  PROVE  /\ job[r] \in Jobs /\ job[r].slot \in Slots /\ job[r].pc \in TakingBack
         /\ job[r].slot \notin Closure(job[r].slot) /\ Closure(job[r].slot) \subseteq Slots
         /\ job[r].fought \subseteq Closure(job[r].slot) /\ Stale(job[r]) \subseteq Closure(job[r].slot)
  <1>1. job[r] \in Jobs /\ Placed(job[r]) /\ job[r].pc \in TakingBack
    BY DEF Typed, BracketTypeOK, Back, BackJob
  <1>2. job[r].slot \in Slots
    BY <1>1 DEF Placed, TakingBack
  <1> QED BY <1>1, <1>2, Walk DEF Back, BackJob, Stale

LEMMA RedecideBacks ==
  ASSUME Typed, NEW r \in Requests, Back(job[r]), Redecide(r)
  PROVE  Back(job[r])'
  <1> DEFINE j == job[r]
             s == j.slot
             n == [j EXCEPT !.pc = "sources"]
  <1>1. /\ j.pc = "redecide" /\ side' = side /\ crashes' = crashes
        /\ row' = [row EXCEPT ![s].winner = j.winner]
    BY DEF Redecide, At, count
  <1>2. j.op = "change" /\ row[s].status = "completed"
    BY <1>1 DEF Back, BackJob
  <1>3. s \in Slots /\ s \notin Closure(s) /\ Closure(s) \subseteq Slots /\ j \in Jobs /\ row \in [Slots -> Rows]
    BY MyBack DEF Typed, BracketTypeOK
  <1>4. /\ \A t \in Slots : t # s => row'[t] = row[t]
        /\ row'[s].winner = j.winner /\ row'[s].pair = row[s].pair /\ row'[s].status = row[s].status
    BY <1>1, <1>3 DEF Rows
  <1>5. job'[r] = n
    BY DEF Redecide, Typed, BracketTypeOK
  <1>6. /\ job'[r].op = "change" /\ job'[r].slot = s /\ job'[r].copy = j.copy /\ job'[r].fought = j.fought
        /\ job'[r].later = j.later /\ job'[r].pc = "sources" /\ job'[r].winner = j.winner
    BY <1>2, <1>3, <1>5 DEF Jobs
  <1> HIDE DEF n
  <1>7. BackJob(job[r])'
    BY <1>2, <1>4, <1>6 DEF Back, BackJob, TakingBack
  <1>8. BackOutside(job[r])'
    <2>1. ASSUME NEW t \in Slots \ Closure(s)
          PROVE  /\ Fought(row'[t]) => (\A x \in Sides : side'[t][x] # Nobody) /\ row'[t].pair = side'[t]
                 /\ row'[t].winner # Nobody =>
                      row'[t].status = "completed" /\ \E x \in Sides : row'[t].winner = side'[t][x]
      <3>1. CASE t = s
        BY <1>1, <1>2, <1>4, <3>1 DEF Back, BackOutside, BackJob, Known, Fought
      <3>2. CASE t # s
        BY <1>1, <1>4, <3>2 DEF Back, BackOutside, Known
      <3> QED BY <3>1, <3>2
    <2>2. ASSUME NEW t \in Slots \ Fed(s)
          PROVE  /\ \A x \in Sides : row'[t].pair[x] # Nobody => row'[t].pair[x] = side'[t][x]
                 /\ crashes' = 0 /\ (\A x \in Sides : side'[t][x] # Nobody) => row'[t].pair = side'[t]
      <3>1. row'[t].pair = row[t].pair
        BY <1>4
      <3> QED BY <1>1, <1>2, <3>1 DEF Back, BackOutside, Known, Stale
    <2>3. ASSUME crashes = 0, NEW t \in Slots \ (Closure(s) \cup {s}), NEW d \in Fed(t),
                 row'[t].status = "completed", row'[t].winner # Nobody, EndsBracket(t, row'[t].winner)
          PROVE  row'[d].status = "none"
      <3>1. row[d].status = "none"
        BY <1>4, <2>3 DEF Back, BackOutside, Won
      <3> QED BY <1>4, <3>1, FedAreSlots
    <2> QED BY <1>1, <1>6, <2>1, <2>2, <2>3 DEF BackOutside, Known, Stale, Won, Fought, EndsBracket
  <1>9. BackBehind(job[r])'
    BY <1>1, <1>3, <1>4, <1>6 DEF Back, BackBehind, Fought
  <1>10. BackSides(job[r])'
    BY <1>1, <1>4, <1>6 DEF Back, BackSides, Undone, Won, EndsBracket, Result
  <1>11. BackRows(job[r])'
    BY <1>6 DEF BackRows
  <1> QED BY <1>7, <1>8, <1>9, <1>10, <1>11 DEF Back

LEMMA RevertFoughtBacks ==
  ASSUME Typed, NEW r \in Requests, Back(job[r]), RevertFought(r)
  PROVE  Back(job[r])'
  <1> DEFINE j == job[r]
             s == j.slot
  <1>1. PICK d \in Deepest(j.todo) :
          /\ row' = [row EXCEPT ![d].status = IF @ = "none" THEN @ ELSE "scheduled",
                                ![d].winner = Nobody]
          /\ job' = [job EXCEPT ![r] = NextOf(j, "revert", j.todo \ {d}, "sources")]
    BY DEF RevertFought
  <1>2. j.pc = "revert" /\ side' = side /\ crashes' = crashes
    BY DEF RevertFought, At, count
  <1>3. /\ s \in Slots /\ s \notin Closure(s) /\ Closure(s) \subseteq Slots /\ j \in Jobs
        /\ j.op # "change" /\ j.todo \subseteq j.fought /\ j.fought \subseteq Closure(s)
        /\ row \in [Slots -> Rows] /\ Stale(j) = Closure(s)
    BY <1>2, MyBack DEF Typed, BracketTypeOK, Back, BackJob, Stale
  <1>4. d \in j.todo /\ d \in Closure(s) /\ d # s
    BY <1>1, <1>3 DEF Deepest
  <1>5. /\ \A t \in Slots : t # d => row'[t] = row[t]
        /\ row'[d].winner = Nobody /\ row'[d].pair = row[d].pair
        /\ row'[d].status = IF row[d].status = "none" THEN "none" ELSE "scheduled"
    BY <1>1, <1>3, <1>4 DEF Rows
  <1> DEFINE n == [j EXCEPT !.todo = j.todo \ {d}, !.pc = IF j.todo \ {d} = {} THEN "sources" ELSE "revert"]
  <1>6. job'[r] = n
    BY <1>1 DEF Typed, BracketTypeOK, NextOf
  <1>7. /\ job'[r].op = j.op /\ job'[r].slot = s /\ job'[r].copy = j.copy /\ job'[r].fought = j.fought
        /\ job'[r].later = j.later /\ job'[r].to = j.to /\ job'[r].todo = j.todo \ {d}
        /\ job'[r].pc = IF j.todo \ {d} = {} THEN "sources" ELSE "revert"
    BY <1>3, <1>6 DEF Jobs
  <1> HIDE DEF n
  <1>8. BackJob(job[r])'
    <2>1. \A t \in Closure(s) : row'[t].status # "none" <=> row[t].status # "none"
      BY <1>3, <1>5
    <2>2. j.later = {t \in Closure(s) : row'[t].status # "none"}
      BY <1>3, <2>1 DEF Back, BackJob
    <2>3. row'[s].status = "completed"
      BY <1>3, <1>4, <1>5 DEF Back, BackJob
    <2> QED BY <1>3, <1>7, <2>2, <2>3 DEF Back, BackJob, TakingBack
  <1>9. BackOutside(job[r])'
    <2>1. \A t \in Slots \ Closure(s) : row'[t] = row[t]
      BY <1>4, <1>5
    <2>2. \A t \in Slots : row[t].status = "none" => row'[t].status = "none"
      BY <1>5
    <2>3. \A t : \A e \in Fed(t) : row[e].status = "none" => row'[e].status = "none"
      BY <2>2, FedAreSlots
    <2> QED BY <1>2, <1>3, <1>7, <2>1, <2>3 DEF Back, BackOutside, Known, Stale, Won, Fought, EndsBracket
  <1>10. BackBehind(job[r])'
    BY <1>2, <1>3, <1>5, <1>7 DEF Back, BackBehind, Fought
  <1>11. BackSides(job[r])'
    <2>1. \A t \in Slots : row'[t].winner # Nobody => t # d
      BY <1>5
    <2>2. \A t \in Slots \ Closure(s) : row'[t] = row[t]
      BY <1>4, <1>5
    <2> QED BY <1>2, <1>3, <1>4, <1>5, <1>7, <2>1, <2>2 DEF Back, BackSides, Undone, Won, EndsBracket, Result
  <1>12. BackRows(job[r])'
    BY <1>7 DEF BackRows
  <1> QED BY <1>8, <1>9, <1>10, <1>11, <1>12 DEF Back

LEMMA ClearFromBacks ==
  ASSUME Typed, NEW r \in Requests, Back(job[r]), ClearFrom(r)
  PROVE  Back(job[r])'
  <1> DEFINE j == job[r]
             s == j.slot
             clears == {p \in ClearSources(j) \X Slots : p[2] \in Fed(p[1])}
             n == [j EXCEPT !.clears = clears, !.pc = IF clears = {} THEN "pairings" ELSE "clear"]
  <1>1. j.pc = "sources" /\ UNCHANGED <<side, row, crashes>> /\ j \in Jobs
    BY MyBack DEF ClearFrom, At, count
  <1>2. job'[r] = n
    BY DEF ClearFrom, Typed, BracketTypeOK
  <1> HIDE DEF clears
  <1>3. /\ n.op = j.op /\ n.slot = s /\ n.copy = j.copy /\ n.fought = j.fought
        /\ n.later = j.later /\ n.to = j.to /\ n.clears = clears
        /\ n.pc = IF clears = {} THEN "pairings" ELSE "clear"
    BY <1>1 DEF Jobs
  <1> HIDE DEF n
  <1>4. BackJob(n)
    BY <1>1, <1>3 DEF Back, BackJob, TakingBack, Undone, clears, ClearSources
  <1>5. BackOutside(n)
    BY <1>1, <1>3 DEF Back, BackOutside, Stale
  <1>6. BackBehind(n)
    BY <1>1, <1>3 DEF Back, BackBehind
  <1>7. BackSides(n)
    <2>1. \A t \in Undone(j), d \in Slots : \A x \in Sides : Takes(d, x, t) => <<t, d>> \in clears
      BY DEF clears, ClearSources, Undone, Fed
    <2> QED BY <1>1, <1>3, <2>1 DEF Back, BackSides, Undone
  <1>8. BackRows(n)
    BY <1>3 DEF BackRows
  <1> QED BY <1>1, <1>2, <1>4, <1>5, <1>6, <1>7, <1>8, BackSame DEF Back

LEMMA ClearFedSidesBacks ==
  ASSUME Typed, NEW r \in Requests, Back(job[r]), ClearFedSides(r)
  PROVE  Back(job[r])'
  <1> DEFINE j == job[r]
             s == j.slot
  <1>1. PICK p \in NextClears(j) :
          /\ side' = [side EXCEPT ![p[2]] = Cleared(p[2], p[1])]
          /\ job' = [job EXCEPT ![r].clears = @ \ {p},
                                ![r].pc = IF j.clears = {p} THEN "pairings" ELSE "clear"]
    BY DEF ClearFedSides
  <1>2. j.pc = "clear" /\ row' = row /\ crashes' = crashes
    BY DEF ClearFedSides, At, count
  <1>3. /\ s \in Slots /\ s \notin Closure(s) /\ Closure(s) \subseteq Slots /\ j \in Jobs
        /\ side \in [Slots -> Pairs] /\ j.fought \subseteq Closure(s)
    BY MyBack DEF Typed, BracketTypeOK
  <1>4. p \in j.clears
    BY <1>1 DEF NextClears
  <1> DEFINE u == p[1]
             d == p[2]
  <1>5. u \in Undone(j) /\ d \in Fed(u) /\ p = <<u, d>>
    BY <1>2, <1>3, <1>4 DEF Back, BackJob, Jobs
  <1>6. d \in Stale(j) /\ d \in Closure(s) /\ d \in Slots
    <2>1. d \in Closure(s)
      BY <1>3, <1>5, Walk DEF Undone
    <2>2. j.op = "change" => u = s
      BY <1>5 DEF Undone, Back, BackJob
    <2> QED BY <1>3, <1>5, <2>1, <2>2 DEF Stale
  <1> HIDE DEF u, d
  <1>7. /\ \A t \in Slots : t # d => side'[t] = side[t]
        /\ \A x \in Sides : side'[d][x] = IF Takes(d, x, u) THEN Nobody ELSE side[d][x]
    BY <1>1, <1>3, <1>6 DEF Cleared, u, d
  <1> DEFINE n == [j EXCEPT !.clears = j.clears \ {p}, !.pc = IF j.clears = {p} THEN "pairings" ELSE "clear"]
  <1>8. job'[r] = n
    BY <1>1 DEF Typed, BracketTypeOK
  <1>9. /\ job'[r].op = j.op /\ job'[r].slot = s /\ job'[r].copy = j.copy /\ job'[r].fought = j.fought
        /\ job'[r].later = j.later /\ job'[r].to = j.to /\ job'[r].clears = j.clears \ {p}
        /\ job'[r].pc = IF j.clears = {p} THEN "pairings" ELSE "clear"
    BY <1>3, <1>8 DEF Jobs
  <1> HIDE DEF n
  <1>10. BackJob(job[r])'
    BY <1>2, <1>9 DEF Back, BackJob, TakingBack, Undone
  <1>11. BackOutside(job[r])'
    <2>1. \A t \in Slots \ Closure(s) : side'[t] = side[t]
      BY <1>6, <1>7
    <2>2. \A t \in Slots \ Stale(j) : side'[t] = side[t]
      BY <1>6, <1>7
    <2> QED BY <1>2, <1>9, <2>1, <2>2 DEF Back, BackOutside, Known, Stale, Won, Fought, EndsBracket
  <1>12. BackBehind(job[r])'
    BY <1>2, <1>9 DEF Back, BackBehind, Fought
  <1>13. BackSides(job[r])'
    <2>1. ASSUME NEW t \in Slots \ Undone(j), NEW e \in Slots, NEW x \in Sides, Takes(e, x, t)
          PROVE  side'[e][x] = side[e][x]
      <3>1. CASE e # d
        BY <1>7, <3>1
      <3>2. CASE e = d
        <4>1. u \in Slots /\ u # t
          BY <1>3, <1>5 DEF Undone
        <4>2. ~Takes(d, x, u)
          BY <2>1, <3>2, <4>1, BracketConstants DEF Takes
        <4> QED BY <1>7, <3>2, <4>2
      <3> QED BY <3>1, <3>2
    <2>2. ASSUME NEW t \in Slots \ Undone(j), NEW e \in Slots, NEW x \in Sides, Takes(e, x, t)
          PROVE  /\ side'[e][x] # Nobody =>
                      /\ t \notin Closure(s) /\ row'[t].status = "completed" /\ row'[t].winner # Nobody
                      /\ ~(t = GrandFinal /\ row'[t].winner = side'[t]["a"])
                      /\ side'[e][x] = IF Source[e][x].takes = "winner" THEN row'[t].winner
                                       ELSE IF row'[t].winner = side'[t]["a"] THEN side'[t]["b"]
                                       ELSE side'[t]["a"]
                 /\ crashes' = 0 /\ row'[t].status = "completed" /\ row'[t].winner # Nobody
                    /\ ~(t = GrandFinal /\ row'[t].winner = side'[t]["a"]) => side'[e][x] # Nobody
      <3>1. side'[e][x] = side[e][x]
        BY <2>1, <2>2
      <3>2. CASE t # d
        <4>1. side'[t] = side[t]
          BY <1>7, <3>2
        <4> QED BY <1>2, <2>2, <3>1, <4>1 DEF Back, BackSides, Won, EndsBracket, Result
      <3>3. CASE t = d
        <4>1. row[t].winner = Nobody
          BY <1>2, <1>6, <3>3 DEF Back, BackBehind
        <4>2. side[e][x] = Nobody
          BY <1>6, <2>2, <3>3 DEF Back, BackSides
        <4> QED BY <1>2, <3>1, <4>1, <4>2
      <3> QED BY <3>2, <3>3
    <2>3. ASSUME NEW t \in Undone(j), NEW e \in Slots, NEW x \in Sides, Takes(e, x, t), side'[e][x] # Nobody
          PROVE  j.clears # {p} /\ <<t, e>> \in j.clears \ {p}
      <3>1. side[e][x] # Nobody
        BY <1>6, <1>7, <2>3
      <3>2. <<t, e>> \in j.clears
        BY <1>2, <2>3, <3>1 DEF Back, BackSides
      <3>3. ~(t = u /\ e = d)
        BY <1>7, <2>3
      <3> QED BY <1>5, <3>2, <3>3
    <2> QED BY <1>9, <2>2, <2>3 DEF BackSides, Undone, Won, EndsBracket, Result
  <1>14. BackRows(job[r])'
    BY <1>9 DEF BackRows
  <1> QED BY <1>10, <1>11, <1>12, <1>13, <1>14 DEF Back

\* Every slot behind the bout has lost a fighter once the sides are cleared.
LEMMA BehindIsOpen ==
  ASSUME NEW j, j.slot \in Slots, BackBehind(j), BackSides(j),
         j.fought \subseteq Closure(j.slot), j.pc \notin {"redecide", "revert", "sources", "clear"}
  PROVE  /\ \A s \in Closure(j.slot) \cup {j.slot}, d \in Slots : \A x \in Sides :
              Takes(d, x, s) => side[d][x] = Nobody
         /\ \A d \in Closure(j.slot) : ~Known(d)
  <1>1. ASSUME NEW s \in Closure(j.slot) \cup {j.slot}, NEW d \in Slots, NEW x \in Sides, Takes(d, x, s)
        PROVE  side[d][x] = Nobody
    <2>1. CASE s \in Undone(j)
      BY <1>1, <2>1 DEF BackSides
    <2>2. CASE s \notin Undone(j)
      <3>1. s \in Slots \ Undone(j) /\ s \in Closure(j.slot)
        BY <2>2, Walk DEF Undone
      <3> QED BY <1>1, <3>1 DEF BackSides
    <2> QED BY <2>1, <2>2
  <1>2. ASSUME NEW d \in Closure(j.slot) PROVE ~Known(d)
    <2>1. PICK u \in Closure(j.slot) \cup {j.slot} : d \in Fed(u)
      BY Walk
    <2>2. PICK x \in Sides : Takes(d, x, u)
      BY <2>1 DEF Fed
    <2> QED BY <1>1, <2>2, Walk DEF Known
  <1> QED BY <1>1, <1>2

\* A changed result has been taken back, and is about to be sent on again.
Resuming ==
  \E r \in Requests :
    LET j == job[r] IN
    /\ j.pc = "load" /\ j.op = "change" /\ j.slot \in Slots /\ row[j.slot].status = "completed"
    /\ j.copy = [s \in Slots |-> NoPair] /\ j.fought = {} /\ j.later = {}
    /\ BackOutside(j) /\ BackBehind(j) /\ BackSides(j) /\ BackRows(j)

LEMMA ResumesEarned == OneAtATime /\ Resuming => Earn /\ Owed /\ Settled
  <1> SUFFICES ASSUME OneAtATime, Resuming PROVE Earn /\ Owed /\ Settled
    OBVIOUS
  <1>1. PICK r \in Requests :
          /\ job[r].pc = "load" /\ job[r].op = "change" /\ job[r].slot \in Slots
          /\ row[job[r].slot].status = "completed"
          /\ job[r].copy = [s \in Slots |-> NoPair] /\ job[r].fought = {} /\ job[r].later = {}
          /\ BackOutside(job[r]) /\ BackBehind(job[r]) /\ BackSides(job[r]) /\ BackRows(job[r])
    BY DEF Resuming
  <1> DEFINE j == job[r]
             s == j.slot
  <1>2. /\ Stale(j) = Fed(s) /\ Undone(j) = {s} /\ Fed(s) \subseteq Closure(s)
        /\ s \notin Closure(s) /\ Closure(s) \subseteq Slots
    BY <1>1, Walk DEF Stale, Undone
  <1>3. /\ \A d \in Slots : \A x \in Sides : Takes(d, x, s) => side[d][x] = Nobody
        /\ \A d \in Closure(s) : ~Known(d)
    BY <1>1, BehindIsOpen
  <1>4. PairsStand
    <2> SUFFICES ASSUME NEW t \in Slots, NEW x \in Sides, row[t].pair[x] # Nobody
                 PROVE  row[t].pair[x] = side[t][x]
      BY DEF PairsStand
    <2>1. CASE t \in Fed(s)
      BY <1>1, <1>2, <2>1 DEF BackRows, NoPair
    <2>2. CASE t \notin Fed(s)
      BY <1>1, <1>2, <2>2 DEF BackOutside
    <2> QED BY <2>1, <2>2
  <1>5. SidesStand
    <2> SUFFICES ASSUME NEW t \in Slots, NEW d \in Slots, NEW x \in Sides, Takes(d, x, t), side[d][x] # Nobody
                 PROVE  /\ Won(t) /\ ~EndsBracket(t, row[t].winner)
                        /\ side[d][x] = Result(t, Source[d][x].takes)
      BY DEF SidesStand
    <2>1. t \in Slots \ Undone(j)
      BY <1>2, <1>3
    <2> QED BY <1>1, <2>1 DEF BackSides
  <1>6. FoughtKnown
    <2> SUFFICES ASSUME NEW t \in Slots
                 PROVE  /\ Fought(row[t]) => Known(t)
                        /\ row[t].winner # Nobody =>
                             row[t].status = "completed" /\ \E x \in Sides : row[t].winner = side[t][x]
      BY DEF FoughtKnown, Known
    <2>1. CASE t \in Closure(s)
      BY <1>1, <2>1 DEF BackBehind
    <2>2. CASE t \notin Closure(s)
      BY <1>1, <2>2 DEF BackOutside
    <2> QED BY <2>1, <2>2
  <1>7. \A q \in Requests : CarriesIn(job[q], side, row)
    <2>1. CarriesIn(j, side, row)
      BY <1>1 DEF CarriesIn, Advancing, Retracting, NoPair
    <2> QED BY <2>1 DEF OneAtATime
  <1>8. Owed
    <2> SUFFICES ASSUME crashes = 0, NEW t \in Slots, NEW d \in Slots, NEW x \in Sides, Takes(d, x, t),
                        Won(t), ~EndsBracket(t, row[t].winner), side[d][x] = Nobody
                 PROVE  Owes(j, t, d, x)
      BY DEF Owed
    <2>1. t = s
      BY <1>1, <1>2 DEF BackSides
    <2> QED BY <1>1, <2>1 DEF Owes
  <1>9. FoughtPaired
    BY <1>1 DEF FoughtPaired, BackBehind, BackOutside
  <1>10. PairOwed
    BY <1>1, <1>2, <1>3 DEF PairOwed, BackOutside
  <1>11. ResetOwed
    <2> SUFFICES ASSUME crashes = 0, NEW t \in Slots, NEW d \in Slots, Won(t), EndsBracket(t, row[t].winner),
                        d \in Fed(t), row[d].status # "none"
                 PROVE  Unmakes(j, t, d)
      BY DEF ResetOwed
    <2>1. t \notin Closure(s)
      BY <1>1 DEF BackBehind, Won
    <2>2. t = s
      BY <1>1, <2>1 DEF BackOutside
    <2> QED BY <1>1, <2>2 DEF Unmakes
  <1>12. \A q \in Requests : ReadsIn(job[q], side, row)
    <2>1. ReadsIn(j, side, row)
      BY <1>1 DEF ReadsIn
    <2> QED BY <2>1 DEF OneAtATime
  <1> QED BY <1>4, <1>5, <1>6, <1>7, <1>8, <1>9, <1>10, <1>11, <1>12 DEF Earn, Settled

\* The rows found are the ones of the stale slots that have one.
LEMMA FindPairingsBacks ==
  ASSUME Typed, Blank, NEW r \in Requests, Back(job[r]), FindPairings(r)
  PROVE  Back(job[r])' \/ Resuming'
  <1> DEFINE j == job[r]
             s == j.slot
             rows == IF j.op = "change" THEN {d \in Fed(s) : row[d].status # "none"} ELSE j.later
             then == IF j.op = "change" THEN "load" ELSE "root"
             n == [j EXCEPT !.todo = rows, !.pc = IF rows = {} THEN then ELSE "unpair"]
  <1>1. j.pc = "pairings" /\ UNCHANGED <<side, row, crashes>> /\ j \in Jobs /\ s \in Slots
    BY MyBack DEF FindPairings, At, count
  <1>2. job'[r] = n
    BY DEF FindPairings, NextOf, Typed, BracketTypeOK
  <1>3. rows = {d \in Stale(j) : row[d].status # "none"}
    BY DEF Back, BackJob, Stale
  <1> HIDE DEF rows, then
  <1>4. /\ n.op = j.op /\ n.slot = s /\ n.copy = j.copy /\ n.fought = j.fought
        /\ n.later = j.later /\ n.to = j.to /\ n.todo = rows
        /\ n.pc = IF rows = {} THEN then ELSE "unpair"
    BY <1>1 DEF Jobs
  <1> HIDE DEF n
  <1>5. BackOutside(n)
    BY <1>1, <1>4 DEF Back, BackOutside, Stale
  <1>6. BackBehind(n)
    BY <1>1, <1>4 DEF Back, BackBehind
  <1>7. BackSides(n)
    BY <1>1, <1>4 DEF Back, BackSides, Undone
  <1>8. BackRows(n)
    <2>1. Stale(n) = Stale(j) /\ Stale(j) \subseteq Slots
      BY <1>1, <1>4, Walk DEF Stale
    <2>2. \A t \in Stale(j) : t \notin rows => row[t].pair = NoPair
      BY <1>3, <2>1 DEF Blank, NoRow
    <2> QED BY <1>4, <2>1, <2>2 DEF BackRows
  <1>9. CASE n.pc # "load"
    <2>1. BackJob(n)
      <3>1. rows \subseteq Stale(n) /\ n.pc \in {"unpair", "root"} /\ (j.op = "change" => n.pc = "unpair")
        BY <1>3, <1>4, <1>9 DEF Stale, then
      <3> QED BY <1>1, <1>4, <3>1 DEF Back, BackJob, TakingBack
    <2> QED BY <1>1, <1>2, <1>5, <1>6, <1>7, <1>8, <2>1, BackSame DEF Back
  <1>10. CASE n.pc = "load"
    <2>1. n.op = "change" /\ n.fought = {} /\ n.later = {}
      BY <1>4, <1>10 DEF then, Back, BackJob
    <2>2. row[s].status = "completed" /\ n.copy = [t \in Slots |-> NoPair]
      BY <1>4 DEF Back, BackJob
    <2>3. BackOutside(job[r])' /\ BackBehind(job[r])' /\ BackSides(job[r])' /\ BackRows(job[r])'
      BY <1>1, <1>2, <1>5, <1>6, <1>7, <1>8, BackPartsSame
    <2> QED BY <1>1, <1>2, <1>4, <1>10, <2>1, <2>2, <2>3 DEF Resuming
  <1> QED BY <1>9, <1>10

\* The rows that are emptied were not fought.
LEMMA ClearDependentPairingBacks ==
  ASSUME Typed, NEW r \in Requests, Back(job[r]), ClearDependentPairing(r)
  PROVE  Back(job[r])' \/ Resuming'
  <1> DEFINE j == job[r]
             s == j.slot
             then == IF j.op = "change" THEN "load" ELSE "root"
  <1>1. PICK d \in Deepest(j.todo) :
          /\ row' = [row EXCEPT ![d].pair = NoPair]
          /\ job' = [job EXCEPT ![r] = NextOf(j, "unpair", j.todo \ {d}, then)]
    BY DEF ClearDependentPairing
  <1>2. j.pc = "unpair" /\ side' = side /\ crashes' = crashes
    BY DEF ClearDependentPairing, At, count
  <1>3. /\ s \in Slots /\ s \notin Closure(s) /\ Closure(s) \subseteq Slots /\ j \in Jobs
        /\ j.todo \subseteq Stale(j) /\ Stale(j) \subseteq Closure(s)
        /\ row \in [Slots -> Rows] /\ row[s].status = "completed"
    BY <1>2, MyBack DEF Typed, BracketTypeOK, Back, BackJob
  <1>4. d \in j.todo /\ d \in Stale(j) /\ d \in Closure(s) /\ d # s /\ d \in Slots
    BY <1>1, <1>3 DEF Deepest
  <1>5. /\ \A t \in Slots : t # d => row'[t] = row[t]
        /\ row'[d].winner = row[d].winner /\ row'[d].pair = NoPair /\ row'[d].status = row[d].status
    BY <1>1, <1>3, <1>4 DEF Rows
  <1>6. \A t \in Slots : row'[t].winner = row[t].winner /\ row'[t].status = row[t].status
    BY <1>5
  <1> DEFINE n == [j EXCEPT !.todo = j.todo \ {d}, !.pc = IF j.todo \ {d} = {} THEN then ELSE "unpair"]
  <1>7. job'[r] = n
    BY <1>1 DEF Typed, BracketTypeOK, NextOf
  <1> HIDE DEF then
  <1>8. /\ job'[r].op = j.op /\ job'[r].slot = s /\ job'[r].copy = j.copy /\ job'[r].fought = j.fought
        /\ job'[r].later = j.later /\ job'[r].to = j.to /\ job'[r].todo = j.todo \ {d}
        /\ job'[r].pc = IF j.todo \ {d} = {} THEN then ELSE "unpair"
    BY <1>3, <1>7 DEF Jobs
  <1> HIDE DEF n
  <1>9. then \in {"load", "root"} /\ (then = "load" <=> j.op = "change")
    BY DEF then
  <1>10. BackOutside(job[r])'
    <2>1. \A t \in Slots \ Closure(s) : row'[t] = row[t]
      BY <1>4, <1>5
    <2>2. \A t \in Slots \ Stale(j) : row'[t] = row[t]
      BY <1>4, <1>5
    <2>3. \A t : \A e \in Fed(t) : row[e].status = "none" => row'[e].status = "none"
      BY <1>6, FedAreSlots
    <2> QED BY <1>2, <1>8, <2>1, <2>2, <2>3 DEF Back, BackOutside, Known, Stale, Won, Fought, EndsBracket
  <1>11. BackBehind(job[r])'
    BY <1>2, <1>3, <1>6, <1>8, <1>9 DEF Back, BackBehind, Fought
  <1>12. BackSides(job[r])'
    BY <1>2, <1>6, <1>8, <1>9 DEF Back, BackSides, Undone, Won, EndsBracket, Result
  <1>13. BackRows(job[r])'
    <2>1. \A t \in Stale(j) : row'[t].pair = NoPair \/ t \in j.todo \ {d}
      BY <1>2, <1>3, <1>4, <1>5 DEF Back, BackRows
    <2> QED BY <1>8, <1>9, <2>1 DEF BackRows, Stale
  <1>14. row'[s].status = "completed"
    BY <1>3, <1>6
  <1>15. CASE job'[r].pc # "load"
    <2>1. j.later = {t \in Closure(s) : row[t].status # "none"} =>
          j.later = {t \in Closure(s) : row'[t].status # "none"}
      BY <1>3, <1>6
    <2>2. BackJob(job[r])'
      BY <1>2, <1>3, <1>8, <1>9, <1>14, <1>15, <2>1 DEF Back, BackJob, TakingBack, Stale
    <2> QED BY <1>10, <1>11, <1>12, <1>13, <2>2 DEF Back
  <1>16. CASE job'[r].pc = "load"
    <2>1. /\ job'[r].op = "change" /\ job'[r].fought = {} /\ job'[r].later = {}
          /\ job'[r].copy = [t \in Slots |-> NoPair]
      BY <1>8, <1>9, <1>16 DEF Back, BackJob
    <2> QED BY <1>3, <1>8, <1>10, <1>11, <1>12, <1>13, <1>14, <1>16, <2>1 DEF Resuming
  <1> QED BY <1>15, <1>16

\* The last write of an undo, and all stands again.
LEMMA WriteRootEarns ==
  ASSUME OneAtATime, Typed, NEW r \in Requests, Back(job[r]), WriteRoot(r)
  PROVE  Earn' /\ Owed' /\ Settled'
  <1> DEFINE j == job[r]
             s == j.slot
  <1>1. /\ j.pc = "root" /\ side' = side /\ crashes' = crashes
        /\ row' = [row EXCEPT ![s].status = j.to, ![s].winner = Nobody]
        /\ job' = [job EXCEPT ![r] = Idle]
    BY DEF WriteRoot, At, count, Done
  <1>2. /\ s \in Slots /\ s \notin Closure(s) /\ Closure(s) \subseteq Slots /\ j \in Jobs
        /\ j.fought \subseteq Closure(s) /\ row \in [Slots -> Rows] /\ row[s].status = "completed"
        /\ Stale(j) = Closure(s) /\ j.to \in {"running", "scheduled"}
    BY <1>1, MyBack DEF Typed, BracketTypeOK, Back, BackJob, Jobs, Stale
  <1>3. /\ \A t \in Slots : t # s => row'[t] = row[t]
        /\ row'[s].winner = Nobody /\ row'[s].pair = row[s].pair /\ row'[s].status = j.to
    BY <1>1, <1>2 DEF Rows
  <1>4. /\ \A t \in Closure(s) \cup {s}, d \in Slots : \A x \in Sides :
             Takes(d, x, t) => side[d][x] = Nobody
        /\ \A d \in Closure(s) : ~Known(d)
    BY <1>1, <1>2, BehindIsOpen DEF Back
  <1>5. \A t \in Closure(s) : row'[t].pair = NoPair /\ ~Fought(row'[t]) /\ row'[t].winner = Nobody
    BY <1>1, <1>2, <1>3 DEF Back, BackRows, BackBehind
  <1>6. \A t \in Slots : \A x \in Sides : row'[t].pair[x] # Nobody => row'[t].pair[x] = side'[t][x]
    <2> SUFFICES ASSUME NEW t \in Slots, NEW x \in Sides, row'[t].pair[x] # Nobody
                 PROVE  row'[t].pair[x] = side'[t][x]
      OBVIOUS
    <2>1. CASE t \in Closure(s)
      BY <1>5, <2>1 DEF NoPair
    <2>2. CASE t \notin Closure(s)
      <3>1. row'[t].pair = row[t].pair
        BY <1>3
      <3> QED BY <1>1, <1>2, <2>2, <3>1 DEF Back, BackOutside
    <2> QED BY <2>1, <2>2
  <1>7. ASSUME NEW t \in Slots
        PROVE  /\ Fought(row'[t]) => (\A x \in Sides : side'[t][x] # Nobody) /\ row'[t].pair = side'[t]
               /\ row'[t].winner # Nobody => row'[t].status = "completed"
                                             /\ \E x \in Sides : row'[t].winner = side'[t][x]
    <2>1. CASE t \in Closure(s)
      BY <1>5, <2>1
    <2>2. CASE t = s
      BY <1>1, <1>2, <1>3, <2>2 DEF Back, BackOutside, Fought, Known
    <2>3. CASE t \notin Closure(s) /\ t # s
      <3>1. /\ Fought(row[t]) => Known(t) /\ row[t].pair = side[t]
            /\ row[t].winner # Nobody =>
                 row[t].status = "completed" /\ \E x \in Sides : row[t].winner = side[t][x]
        BY <2>3 DEF Back, BackOutside
      <3>2. row'[t] = row[t] /\ side'[t] = side[t]
        BY <1>1, <1>3, <2>3
      <3> QED BY <3>1, <3>2 DEF Known
    <2> QED BY <2>1, <2>2, <2>3
  <1>8. ASSUME NEW t \in Slots, NEW d \in Slots, NEW x \in Sides, Takes(d, x, t), side'[d][x] # Nobody
        PROVE  /\ row'[t].status = "completed" /\ row'[t].winner # Nobody
               /\ ~(t = GrandFinal /\ row'[t].winner = side'[t]["a"])
               /\ side'[d][x] = IF Source[d][x].takes = "winner" THEN row'[t].winner
                                ELSE IF row'[t].winner = side'[t]["a"] THEN side'[t]["b"]
                                ELSE side'[t]["a"]
    <2>1. t \notin Closure(s) \cup {s}
      BY <1>1, <1>4, <1>8
    <2>2. t \in Slots \ Undone(j) /\ row'[t] = row[t]
      BY <1>2, <1>3, <2>1 DEF Undone
    <2> QED BY <1>1, <1>8, <2>2 DEF Back, BackSides, Won, EndsBracket, Result
  <1>9. Earn'
    <2>1. PairsStand' /\ FoughtKnown'
      BY <1>6, <1>7 DEF PairsStand, FoughtKnown, Fought
    <2>2. SidesStand'
      BY <1>8 DEF SidesStand, Won, EndsBracket, Result
    <2>3. \A q \in Requests : CarriesIn(job'[q], side', row')
      BY <1>1, IdleCarries DEF OneAtATime, Typed, BracketTypeOK
    <2>4. \A q \in Requests : CarriesIn(job[q], side, row)'
      BY <2>3 DEF CarriesIn
    <2> QED BY <2>1, <2>2, <2>4 DEF Earn
  <1>10. ASSUME NEW t \in Slots, row'[t].status = "completed", row'[t].winner # Nobody
         PROVE  t \notin Closure(s) /\ t # s /\ row'[t] = row[t] /\ t \in Slots \ Undone(j)
    BY <1>2, <1>3, <1>5, <1>10 DEF Undone
  <1>11. Owed'
    <2> SUFFICES ASSUME crashes' = 0, NEW t \in Slots, NEW d \in Slots, NEW x \in Sides, Takes(d, x, t),
                        row'[t].status = "completed", row'[t].winner # Nobody,
                        ~(t = GrandFinal /\ row'[t].winner = side'[t]["a"]), side'[d][x] = Nobody
                 PROVE  FALSE
      BY DEF Owed, Won, EndsBracket
    <2> QED BY <1>1, <1>10 DEF Back, BackSides, Won, EndsBracket
  <1>12. crashes' = 0 => \A t \in Slots : ~Lacks(t, side', row')
    <2> SUFFICES ASSUME crashes = 0, NEW t \in Slots, Lacks(t, side', row') PROVE FALSE
      BY <1>1
    <2>1. t \notin Closure(s) /\ row'[t].pair = row[t].pair
      BY <1>1, <1>3, <1>4 DEF Lacks, Known
    <2> QED BY <1>1, <1>2, <2>1 DEF Lacks, Known, Back, BackOutside
  <1>13. crashes' = 0 => \A t, d \in Slots : ~Phantom(t, d, side', row')
    <2> SUFFICES ASSUME crashes = 0, NEW t \in Slots, NEW d \in Slots, Phantom(t, d, side', row') PROVE FALSE
      BY <1>1
    <2>1. t \notin Closure(s) /\ t # s /\ row'[t] = row[t]
      BY <1>10 DEF Phantom
    <2>2. row[d].status = "none"
      BY <1>1, <2>1 DEF Phantom, Back, BackOutside, Won, EndsBracket
    <2> QED BY <1>2, <1>3, <2>2 DEF Phantom
  <1> QED BY <1>1, <1>7, <1>9, <1>11, <1>12, <1>13, IdleReads, SettledAfter

LEMMA InitSerial == Init => Serial
  <1> SUFFICES ASSUME Init PROVE Serial
    OBVIOUS
  <1>1. \A r \in Requests : job[r] = Idle /\ Idle.pc = "idle"
    BY DEF Init, Idle
  <1>2. Blank
    BY DEF Init, Blank, Placeholder
  <1>3. Earn
    BY InitEarns
  <1>4. Owed
    BY DEF Init, Owed, Won, NoRow, Placeholder
  <1>5. FoughtPaired
    BY DEF Init, FoughtPaired, Fought, NoRow, Placeholder
  <1>6. PairOwed
    <2> SUFFICES ASSUME NEW s \in Slots, Known(s) PROVE row[s].pair = side[s]
      BY DEF PairOwed
    <2>1. CASE GrandFinal # NoSlot /\ s \in Fed(GrandFinal)
      BY <2>1, BracketConstants DEF Init, Known, Fed, Takes
    <2>2. CASE ~(GrandFinal # NoSlot /\ s \in Fed(GrandFinal))
      BY <2>2 DEF Init, Placeholder
    <2> QED BY <2>1, <2>2
  <1>7. ResetOwed
    BY DEF Init, ResetOwed, Won, NoRow, Placeholder
  <1>8. \A r \in Requests : ReadsIn(job[r], side, row)
    BY <1>1, IdleReads
  <1> QED BY <1>1, <1>2, <1>3, <1>4, <1>5, <1>6, <1>7, <1>8 DEF Serial, Settled, TakingBack

LEMMA SerialStands ==
  ASSUME Blank', Earn', Owed', Settled'
  PROVE  Serial'
  <1>1. \A q \in Requests : job'[q].pc \in {"idle", "load"} \cup Advancing \cup Retracting
    BY DEF Earn, CarriesIn, Advancing, Retracting
  <1>2. \A q \in Requests : job'[q].pc \notin TakingBack
    BY <1>1 DEF Advancing, Retracting, TakingBack
  <1> QED BY <1>2 DEF Serial, TakingBack

LEMMA SerialBacks ==
  ASSUME OneAtATime, NEW r \in Requests, Blank', Back(job[r])'
  PROVE  Serial'
  <1>1. job'[r].pc \in TakingBack
    BY DEF Back, BackJob, TakingBack
  <1>2. ~Still'
    BY <1>1 DEF Still, TakingBack
  <1>3. \A q \in Requests : Back(job[q])'
    BY DEF OneAtATime
  <1> QED BY <1>2, <1>3 DEF Serial

LEMMA SerialResumes ==
  ASSUME OneAtATime, Blank', Resuming'
  PROVE  Serial'
  <1>1. OneAtATime'
    BY DEF OneAtATime
  <1>2. (OneAtATime /\ Resuming => Earn /\ Owed /\ Settled)'
    BY ResumesEarned, PTL
  <1>3. Earn' /\ Owed' /\ Settled'
    BY <1>1, <1>2
  <1> QED BY <1>3, SerialStands

\* A request that is not taking anything back finds everything standing.
LEMMA SerialStill ==
  ASSUME OneAtATime, Serial, NEW r \in Requests, job[r].pc \notin TakingBack
  PROVE  Blank /\ Earn /\ Owed /\ Settled
  BY DEF OneAtATime, Serial, Still

LEMMA AdvanceSerial ==
  ASSUME OneAtATime, Typed, Serial, NEW r \in Requests,
         Advance(r) \/ (Crash(r) /\ job[r].pc \notin TakingBack)
  PROVE  Serial'
  <1>1. job[r].pc \notin TakingBack
    BY DEF Advance, Load, ReadDownstream, WriteSideA, WriteSideB, SyncRead, SyncUpdate,
       InsertMatchForSlot, RetractClear, FindUnplayed, DeleteUnplayed, At, TakingBack
  <1>2. Blank /\ Earn /\ Owed /\ Settled
    BY <1>1, SerialStill
  <1>3. Blank'
    BY <1>2, CompletionBlanks
  <1>4. Earn'
    BY <1>2, LoadEarns, ReadDownstreamEarns, WriteSidesEarn, SyncReadEarns, SyncUpdateEarns,
       InsertEarns, RetractClearEarns, FindUnplayedEarns, DeleteUnplayedEarns, CrashEarns DEF Advance
  <1>5. Owed'
    BY <1>2, LoadOwes, ReadDownstreamOwes, WriteSidesOwe, SyncReadOwes, SyncUpdateOwes,
       InsertOwes, RetractingOwes, CrashOwes DEF Advance
  <1>6. Settled'
    BY <1>2, LoadSettles, ReadDownstreamSettles, WriteSidesSettle, SyncReadSettles, SyncUpdateSettles,
       InsertSettles, RetractClearSettles, FindUnplayedSettles, DeleteUnplayedSettles, CrashSettles
       DEF Advance
  <1> QED BY <1>3, <1>4, <1>5, <1>6, SerialStands

LEMMA BeginSerial ==
  ASSUME OneAtATime, Typed, Serial, NEW r \in Requests, NEW s \in Slots,
         \/ Start(r, s) \/ CompleteAgain(r, s)
         \/ \E w \in People : Complete(r, s, w) \/ ChangeResult(r, s, w)
         \/ \E discard \in BOOLEAN, to \in {"running", "scheduled"} : Undo(r, s, discard, to)
  PROVE  Serial'
  <1>1. job[r].pc \notin TakingBack
    BY DEF Start, CompleteAgain, Complete, ChangeResult, Undo, Asks, At, TakingBack
  <1>2. Blank /\ Earn /\ Owed /\ Settled
    BY <1>1, SerialStill
  <1>3. CASE Start(r, s) \/ CompleteAgain(r, s) \/ \E w \in People : Complete(r, s, w)
    <2>1. Blank'
      BY <1>2, <1>3, CompletionBlanks
    <2>2. Earn'
      BY <1>2, <1>3, StartEarns, CompleteAgainEarns, CompleteEarns
    <2>3. Owed'
      BY <1>2, <1>3, StartOwes, CompleteAgainOwes, CompleteOwes
    <2>4. Settled'
      BY <1>2, <1>3, StartSettles, CompleteAgainSettles, CompleteSettles
    <2> QED BY <2>1, <2>2, <2>3, <2>4, SerialStands
  <1>4. ASSUME NEW w \in People, ChangeResult(r, s, w) PROVE Serial'
    <2>1. Blank'
      BY <1>2, <1>4, BlankSame DEF ChangeResult
    <2>2. Back(job[r])'
      BY <1>2, <1>4, ChangeResultBacks
    <2> QED BY <2>1, <2>2, SerialBacks
  <1>5. ASSUME NEW discard \in BOOLEAN, NEW to \in {"running", "scheduled"}, Undo(r, s, discard, to)
        PROVE  Serial'
    <2>1. Blank'
      BY <1>2, <1>5, BlankSame DEF Undo
    <2>2. Back(job[r])'
      BY <1>2, <1>5, UndoBacks
    <2> QED BY <2>1, <2>2, SerialBacks
  <1> QED BY <1>3, <1>4, <1>5

LEMMA TakeBackBlanks ==
  ASSUME Typed, Blank, NEW r \in Requests, Back(job[r]), TakeBack(r)
  PROVE  Blank'
  <1>1. row \in [Slots -> Rows] /\ job[r] \in Jobs /\ job[r].slot \in Slots
    BY MyBack DEF Typed, BracketTypeOK
  <1>2. CASE RevertFought(r)
    <2>1. PICK d \in Deepest(job[r].todo) :
            row' = [row EXCEPT ![d].status = IF @ = "none" THEN @ ELSE "scheduled",
                               ![d].winner = Nobody]
      BY <1>2 DEF RevertFought
    <2> DEFINE e == [row[d] EXCEPT !.status = IF @ = "none" THEN @ ELSE "scheduled", !.winner = Nobody]
    <2>2. d \in Slots
      BY <1>1 DEF Deepest, Jobs
    <2>3. row' = [row EXCEPT ![d] = e]
      BY <1>1, <2>1, <2>2 DEF Rows
    <2>4. CASE row[d].status # "none"
      <3>1. e.status # "none"
        BY <1>1, <2>2, <2>4 DEF Rows
      <3> QED BY <2>2, <2>3, <3>1, BlankRow
    <2>5. CASE row[d].status = "none"
      <3>1. row[d] = NoRow
        BY <2>2, <2>5 DEF Blank
      <3>2. e = [row[d] EXCEPT !.status = "none", !.winner = Nobody]
        BY <2>5
      <3> HIDE DEF e
      <3>3. [NoRow EXCEPT !.status = "none"] = NoRow
        BY DEF NoRow
      <3>4. [NoRow EXCEPT !.winner = Nobody] = NoRow
        BY DEF NoRow
      <3>5. e = NoRow
        BY <3>1, <3>2, <3>3, <3>4
      <3> QED BY <2>2, <2>3, <3>5, BlankRow
    <2> QED BY <2>4, <2>5
  <1>3. CASE ClearDependentPairing(r)
    <2>1. PICK d \in Deepest(job[r].todo) : row' = [row EXCEPT ![d].pair = NoPair]
      BY <1>3 DEF ClearDependentPairing
    <2> DEFINE e == [row[d] EXCEPT !.pair = NoPair]
    <2>2. d \in Slots
      BY <1>1 DEF Deepest, Jobs
    <2>3. row' = [row EXCEPT ![d] = e]
      BY <2>1
    <2>4. CASE row[d].status # "none"
      <3>1. e.status # "none"
        BY <1>1, <2>2, <2>4 DEF Rows
      <3> QED BY <2>2, <2>3, <3>1, BlankRow
    <2>5. CASE row[d].status = "none"
      <3>1. row[d] = NoRow
        BY <2>2, <2>5 DEF Blank
      <3>2. e = NoRow
        BY <3>1 DEF NoRow
      <3> QED BY <2>2, <2>3, <3>2, BlankRow
    <2> QED BY <2>4, <2>5
  <1>4. CASE WriteRoot(r)
    <2> DEFINE e == [row[job[r].slot] EXCEPT !.status = job[r].to, !.winner = Nobody]
    <2>1. job[r].to # "none"
      BY <1>4 DEF Back, BackJob, WriteRoot, At
    <2>2. row' = [row EXCEPT ![job[r].slot] = e] /\ e.status # "none"
      BY <1>1, <1>4, <2>1 DEF WriteRoot, Rows
    <2> QED BY <1>1, <2>2, BlankRow
  <1>5. CASE Redecide(r)
    <2> DEFINE e == [row[job[r].slot] EXCEPT !.winner = job[r].winner]
    <2>1. row' = [row EXCEPT ![job[r].slot] = e] /\ e.status # "none"
      BY <1>1, <1>5 DEF Redecide, Rows, Back, BackJob
    <2> QED BY <1>1, <2>1, BlankRow
  <1>6. CASE ClearFrom(r) \/ ClearFedSides(r) \/ FindPairings(r)
    BY <1>6, BlankSame DEF ClearFrom, ClearFedSides, FindPairings
  <1> QED BY <1>2, <1>3, <1>4, <1>5, <1>6 DEF TakeBack

LEMMA TakeBackSerial ==
  ASSUME OneAtATime, Typed, Serial, NEW r \in Requests, TakeBack(r)
  PROVE  Serial'
  <1>1. job[r].pc \in TakingBack
    BY DEF TakeBack, RevertFought, ClearFrom, ClearFedSides, FindPairings, ClearDependentPairing,
       WriteRoot, Redecide, At, TakingBack
  <1>2. Blank /\ Back(job[r])
    BY <1>1 DEF Serial
  <1>3. Blank'
    BY <1>2, TakeBackBlanks
  <1>4. CASE RevertFought(r) \/ ClearFrom(r) \/ ClearFedSides(r) \/ Redecide(r)
    BY <1>2, <1>3, <1>4, RevertFoughtBacks, ClearFromBacks, ClearFedSidesBacks, RedecideBacks, SerialBacks
  <1>5. CASE FindPairings(r) \/ ClearDependentPairing(r)
    BY <1>2, <1>3, <1>5, FindPairingsBacks, ClearDependentPairingBacks, SerialBacks, SerialResumes
  <1>6. CASE WriteRoot(r)
    BY <1>2, <1>3, <1>6, WriteRootEarns, SerialStands
  <1> QED BY <1>4, <1>5, <1>6 DEF TakeBack

LEMMA StepSerial == OneAtATime /\ Typed /\ Serial /\ [Next]_vars => Serial'
  <1> SUFFICES ASSUME OneAtATime, Typed, Serial, [Next]_vars PROVE Serial'
    OBVIOUS
  <1>1. CASE UNCHANGED vars
    <2>1. side' = side /\ row' = row /\ job' = job /\ crashes' = crashes
      BY <1>1 DEF vars
    <2>2. Blank' /\ (Still' => Still)
      BY <2>1, BlankSame DEF Serial, Still
    <2>3. ASSUME NEW r \in Requests, job'[r].pc \in TakingBack PROVE Back(job[r])'
      BY <2>1, <2>3, BackSame DEF Serial
    <2>4. ASSUME Still PROVE Earn' /\ Owed' /\ Settled'
      <3>1. Earn /\ Owed /\ Settled
        BY <2>4 DEF Serial
      <3>2. Earn'
        BY <2>1, <3>1 DEF Earn, PairsStand, SidesStand, FoughtKnown, CarriesIn, Won, EndsBracket,
                          Result, Fought
      <3>3. Owed'
        BY <2>1, <3>1 DEF Owed, Owes, Won, EndsBracket
      <3>4. Settled'
        BY <2>1, <3>1 DEF Settled, FoughtPaired, PairOwed, ResetOwed, ReadsIn, Syncs, Unmakes, Known,
                          Won, EndsBracket, Fought
      <3> QED BY <3>2, <3>3, <3>4
    <2>5. \A r \in Requests : job'[r].pc \in TakingBack => Back(job[r])'
      BY <2>3
    <2> QED BY <2>2, <2>4, <2>5 DEF Serial, TakingBack
  <1>2. ASSUME NEW r \in Requests, Crash(r) PROVE Serial'
    <2>1. job[r].op = "complete"
      BY <1>2 DEF Crash, OneAtATime
    <2>2. job[r].pc \notin TakingBack
      BY <2>1 DEF Serial, Back, BackJob
    <2> QED BY <1>2, <2>2, AdvanceSerial
  <1> QED BY <1>1, <1>2, BeginSerial, AdvanceSerial, TakeBackSerial DEF Next

LEMMA SerialAlways ==
  ASSUME OneAtATime
  PROVE  Spec => [](Typed /\ Serial)
  <1>1. Init => Typed /\ Serial
    BY InitTypes, InitSerial
  <1>2. Typed /\ Serial /\ [Next]_vars => (Typed /\ Serial)'
    BY StepTypes, StepSerial
  <1> QED BY <1>1, <1>2, PTL DEF Spec

(* One request at a time, with undos, discards and changes too: nobody is  *)
(* in a slot who did not earn it, no row names another fighter than its    *)
(* slot, and every result reaches what it feeds, whenever nothing is being *)
(* taken back.  This is for any number of requests one after another, in   *)
(* any bracket, where a completion may die after any step.                 *)
THEOREM OneRequestEarns ==
  ASSUME OneAtATime
  PROVE  Spec => [](SidesAreEarned /\ RowsFollowSlots /\ ResultsAreFed)
  <1>1. Serial => SidesAreEarned /\ RowsFollowSlots
    <2> SUFFICES ASSUME Serial, ~Disturbed PROVE Earn
      BY DEF Earn, SidesStand, PairsStand, SidesAreEarned, RowsFollowSlots
    <2>1. Still
      BY DEF Still, Serial, Back, BackJob, Disturbed
    <2> QED BY <2>1 DEF Serial
  <1>2. Serial => ResultsAreFed
    <2> SUFFICES ASSUME Serial, Quiet, crashes = 0,
                        NEW s \in Slots, NEW d \in Slots, NEW x \in Sides,
                        Takes(d, x, s), Won(s), ~EndsBracket(s, row[s].winner)
                 PROVE  side[d][x] = Result(s, Source[d][x].takes)
      BY DEF ResultsAreFed
    <2>1. Earn /\ Owed
      BY DEF Quiet, At, Serial, Still, TakingBack
    <2>2. \A r \in Requests : ~Owes(job[r], s, d, x)
      BY IdleOwesNothing DEF Quiet
    <2>3. side[d][x] # Nobody
      BY <2>1, <2>2 DEF Owed
    <2> QED BY <2>1, <2>3 DEF Earn, SidesStand
  <1> QED BY <1>1, <1>2, SerialAlways, PTL

(* And a bout whose two fighters are known has a row that names them, once *)
(* the request is over: the sync read what the advance wrote, and an undo  *)
(* that empties a row has emptied a side of its slot (syncMatchToSlot,     *)
(* clearDependentPairing).                                                 *)
THEOREM OneRequestCalls ==
  ASSUME OneAtATime
  PROVE  Spec => []PairIsCalled
  <1>1. Serial => PairIsCalled
    <2> SUFFICES ASSUME Serial, Quiet, crashes = 0, NEW s \in Slots, Known(s)
                 PROVE  row[s].pair = side[s]
      BY DEF PairIsCalled, Known
    <2>1. Settled
      BY DEF Quiet, At, Serial, Still, TakingBack
    <2>2. \A r \in Requests : ~Syncs(job[r], s)
      BY DEF Quiet, At, Syncs
    <2> QED BY <2>1, <2>2 DEF Settled, PairOwed
  <1> QED BY <1>1, SerialAlways, PTL

(* A grand final that ends the bracket leaves no second one, though its    *)
(* result may have been another, taken back or changed, and a second final *)
(* made for it (retractGrandFinalReset).                                   *)
THEOREM OneRequestRetracts ==
  ASSUME OneAtATime
  PROVE  Spec => []NoPhantomReset
  <1>1. Typed /\ Serial => NoPhantomReset
    <2> SUFFICES ASSUME Typed, Serial, Quiet, crashes = 0,
                        NEW s \in Slots, Won(s), EndsBracket(s, row[s].winner), NEW d \in Fed(s)
                 PROVE  row[d] = NoRow /\ side[d] = NoPair
      BY DEF NoPhantomReset
    <2>1. Earn /\ Settled /\ Blank
      BY DEF Quiet, At, Serial, Still, TakingBack
    <2>2. d \in Slots
      BY FedAreSlots
    <2>3. \A r \in Requests : ~Unmakes(job[r], s, d)
      BY DEF Quiet, At, Unmakes
    <2>4. row[d] = NoRow
      BY <2>1, <2>2, <2>3 DEF Settled, ResetOwed, Blank
    <2>5. s = GrandFinal /\ GrandFinal # NoSlot
      BY BracketConstants DEF EndsBracket
    <2>6. \A x \in Sides : side[d][x] = Nobody
      BY <2>1, <2>2, <2>5, SecondFinal DEF Earn, SidesStand
    <2>7. side[d] = NoPair
      BY <2>2, <2>6 DEF NoPair, Typed, BracketTypeOK, Pairs
    <2> QED BY <2>4, <2>7
  <1> QED BY <1>1, SerialAlways, PTL

(* When an undo is about to write its own bout, nothing that followed from *)
(* it is left in any slot behind it: what a fought bout had sent on is     *)
(* cleared with it, and a bout that was not fought had sent nothing        *)
(* (onMatchUncompleted, discardDependents).                                *)
THEOREM UndoIsComplete ==
  ASSUME OneAtATime
  PROVE  Spec => []UndoTakesAllBack
  <1>1. Typed /\ Serial => UndoTakesAllBack
    <2> SUFFICES ASSUME Typed, Serial, NEW r \in Requests, At(r, "root"),
                        NEW s \in Closure(job[r].slot) \cup {job[r].slot}, NEW d \in Fed(s),
                        NEW x \in Sides, Takes(d, x, s)
                 PROVE  side[d][x] = Nobody
      BY DEF UndoTakesAllBack
    <2>1. Back(job[r])
      BY DEF At, Serial, TakingBack
    <2>2. d \in Slots /\ job[r].slot \in Slots /\ job[r].fought \subseteq Closure(job[r].slot)
      BY <2>1, FedAreSlots, MyBack
    <2> QED BY <2>1, <2>2, BehindIsOpen DEF Back, At
  <1> QED BY <1>1, SerialAlways, PTL

\* The steps that write the pair of a row find it not fought, or leave it so.
LEMMA StepKeepsPair ==
  OneAtATime /\ Typed /\ Serial /\ [Next]_vars =>
    [\A s \in Slots : Fought(row[s]) /\ Fought(row'[s]) => row'[s].pair = row[s].pair]_vars
  <1> SUFFICES ASSUME OneAtATime, Typed, Serial, Next, NEW s \in Slots, Fought(row[s]), Fought(row'[s])
               PROVE  row'[s].pair = row[s].pair
    BY DEF vars
  <1>1. row \in [Slots -> Rows] /\ row[s] \in Rows
    BY DEF Typed, BracketTypeOK
  <1>2. ASSUME NEW r \in Requests, NEW t \in Slots,
               \/ Start(r, t) \/ CompleteAgain(r, t)
               \/ \E w \in People : Complete(r, t, w) \/ ChangeResult(r, t, w)
               \/ \E discard \in BOOLEAN, to \in {"running", "scheduled"} : Undo(r, t, discard, to)
        PROVE  row'[s].pair = row[s].pair
    <2>1. CASE Start(r, t)
      BY <1>1, <2>1 DEF Start, Rows
    <2>2. CASE CompleteAgain(r, t)
      BY <2>2 DEF CompleteAgain
    <2>3. ASSUME NEW w \in People, Complete(r, t, w) PROVE row'[s].pair = row[s].pair
      BY <1>1, <2>3 DEF Complete, Rows
    <2>4. ASSUME NEW w \in People, ChangeResult(r, t, w) PROVE row'[s].pair = row[s].pair
      BY <1>1, <2>4 DEF ChangeResult, Rows
    <2>5. ASSUME NEW discard \in BOOLEAN, NEW to \in {"running", "scheduled"}, Undo(r, t, discard, to)
          PROVE  row'[s].pair = row[s].pair
      BY <2>5 DEF Undo
    <2> QED BY <1>2, <2>1, <2>2, <2>3, <2>4, <2>5
  <1>3. ASSUME NEW r \in Requests, SyncUpdate(r) PROVE row'[s].pair = row[s].pair
    <2>1. ReadsIn(job[r], side, row) /\ job[r].pc = "update"
      BY <1>3, SerialStill, OnlyOne DEF SyncUpdate, At, TakingBack
    <2>2. s # job[r].at
      BY <2>1 DEF ReadsIn, Fought
    <2> QED BY <1>1, <1>3, <2>2 DEF SyncUpdate
  <1>4. ASSUME NEW r \in Requests, InsertMatchForSlot(r) PROVE row'[s].pair = row[s].pair
    BY <1>1, <1>4 DEF InsertMatchForSlot, Fought
  <1>5. ASSUME NEW r \in Requests, DeleteUnplayed(r) PROVE row'[s].pair = row[s].pair
    BY <1>1, <1>5 DEF DeleteUnplayed, NoRow, Fought
  <1>6. ASSUME NEW r \in Requests, ClearDependentPairing(r) PROVE row'[s].pair = row[s].pair
    <2>1. Back(job[r]) /\ job[r].pc = "unpair"
      BY <1>6 DEF ClearDependentPairing, At, Serial, TakingBack
    <2>2. s \notin Closure(job[r].slot)
      BY <2>1 DEF Back, BackBehind
    <2>3. job[r].todo \subseteq Closure(job[r].slot)
      BY <2>1, MyBack DEF Back, BackJob
    <2>4. PICK d \in Deepest(job[r].todo) : row' = [row EXCEPT ![d].pair = NoPair]
      BY <1>6 DEF ClearDependentPairing
    <2>5. d # s
      BY <2>2, <2>3 DEF Deepest
    <2> QED BY <1>1, <2>4, <2>5
  <1>7. ASSUME NEW r \in Requests, RevertFought(r) \/ WriteRoot(r) \/ Redecide(r)
        PROVE  row'[s].pair = row[s].pair
    <2>1. CASE RevertFought(r)
      <3>1. PICK d \in Deepest(job[r].todo) :
              row' = [row EXCEPT ![d].status = IF @ = "none" THEN @ ELSE "scheduled",
                                 ![d].winner = Nobody]
        BY <2>1 DEF RevertFought
      <3> QED BY <1>1, <3>1 DEF Rows
    <2>2. CASE WriteRoot(r)
      BY <1>1, <2>2 DEF WriteRoot, Rows
    <2>3. CASE Redecide(r)
      BY <1>1, <2>3 DEF Redecide, Rows
    <2> QED BY <1>7, <2>1, <2>2, <2>3
  <1>8. ASSUME NEW r \in Requests,
               \/ Load(r) \/ ReadDownstream(r) \/ WriteSideA(r) \/ WriteSideB(r) \/ SyncRead(r)
               \/ RetractClear(r) \/ FindUnplayed(r) \/ ClearFrom(r) \/ ClearFedSides(r)
               \/ FindPairings(r) \/ Crash(r)
        PROVE  row'[s].pair = row[s].pair
    BY <1>8 DEF Load, ReadDownstream, WriteSideA, WriteSideB, WriteSlotSide, SyncRead, RetractClear,
       FindUnplayed, ClearFrom, ClearFedSides, FindPairings, Crash
  <1> QED BY <1>2, <1>3, <1>4, <1>5, <1>6, <1>7, <1>8 DEF Next, Advance, TakeBack

(* A bout in play or decided keeps its fighters until it is put back to    *)
(* unplayed, whatever is advanced, undone or changed around it             *)
(* (hasStarted).                                                           *)
THEOREM OneRequestKeepsPairs ==
  ASSUME OneAtATime
  PROVE  Spec => FoughtPairStays
  BY SerialAlways, StepKeepsPair, PTL DEF FoughtPairStays, Spec
=============================================================================
