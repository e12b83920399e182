----------------------------- MODULE DoubleElim -----------------------------
(***************************************************************************)
(* The slots of a double elimination, as the generator of packages/rules   *)
(* lays them out (scheduling/double-elim-shape.ts, double-elim-slots.ts),  *)
(* and the reference each slot goes by (phases/bracket-refs.ts).           *)
(*                                                                         *)
(* A slot is its round and its position.  A side of a slot is a seed, or   *)
(* takes the winner or the loser of the slot a reference names.  The text  *)
(* of a reference (`loser of LBR2P1`) is a tuple here, <<"LB", 2, 1>>: the *)
(* generator writes it, bracket-refs.ts writes it again for the slot it    *)
(* means, and the two are only ever compared.                              *)
(*                                                                         *)
(* The options: the fighters, the bracket's size and the size of the field *)
(* that gets a second chance, what that chance is for (gold or bronze), a  *)
(* bout for bronze, and a second grand final.                              *)
(***************************************************************************)
EXTENDS Integers, FiniteSets

Pow2[k \in Nat] == IF k = 0 THEN 1 ELSE 2 * Pow2[k - 1]

Powers(top) == {n \in 1..top : \E k \in 0..top : Pow2[k] = n}

Log2(n) == CHOOSE k \in 0..n : Pow2[k] = n

-----------------------------------------------------------------------------
(* resolveDoubleElimShape: the sizes, and the options it refuses.          *)

WbRounds(o) == Log2(o.size)

FullLb(o) == 2 * (Log2(o.entry) - 1)

LbRounds(o) ==
  IF o.target = "gold" THEN FullLb(o) ELSE FullLb(o) - (IF o.bronze THEN 1 ELSE 2)

PlayIns(o)    == o.fighters - o.size
ByeSeeds(o)   == IF PlayIns(o) > 0 THEN o.size - PlayIns(o) ELSE 0
EntryRound(o) == WbRounds(o) + 1 - Log2(o.entry)

\* The options of a bracket of at most `top` fighters that are not refused.
Options(top) ==
  {o \in [fighters : 2..top, size : Powers(top) \ {1}, entry : Powers(top) \ {1},
          target : {"gold", "bronze"}, bronze : BOOLEAN, reset : BOOLEAN] :
     /\ o.size <= o.fighters /\ o.fighters <= 2 * o.size
     /\ o.entry <= o.size
     /\ o.target = "gold" => ~o.bronze
     /\ o.target = "bronze" => ~o.reset /\ LbRounds(o) >= 1}

-----------------------------------------------------------------------------
(* The slots, section by section.                                          *)

PlayInSlots(o) == {0} \X (1..PlayIns(o))

WinnersSlots(o) == UNION {{r} \X (1..(o.size \div Pow2[r])) : r \in 1..WbRounds(o)}

LbSize(o, k) == o.entry \div (4 * Pow2[(k - 1) \div 2])

LosersSlots(o) ==
  UNION {{WbRounds(o) + k} \X (1..LbSize(o, k)) : k \in 1..LbRounds(o)}

FinalRound(o) == WbRounds(o) + LbRounds(o) + 1

FinalsSlots(o) ==
  IF o.target = "bronze" THEN {}
  ELSE {<<FinalRound(o), 1>>} \cup (IF o.reset THEN {<<FinalRound(o) + 1, 1>>} ELSE {})

SlotsOf(o) == PlayInSlots(o) \cup WinnersSlots(o) \cup LosersSlots(o) \cup FinalsSlots(o)

-----------------------------------------------------------------------------
(* What each side takes.                                                   *)

SeedSource(n)      == [takes |-> "seed", ref |-> <<"seed", n, 0>>]
WinnerRef(sec, r, p) == [takes |-> "winner", ref |-> <<sec, r, p>>]
LoserRef(sec, r, p)  == [takes |-> "loser", ref |-> <<sec, r, p>>]

\* buildSeedingOrder: each doubling pairs a seed with the one it adds up to.
SeedOrder[k \in Nat] ==
  IF k = 0 THEN [i \in {1} |-> 1]
  ELSE [i \in 1..Pow2[k] |->
          IF i % 2 = 1 THEN SeedOrder[k - 1][(i + 1) \div 2]
          ELSE Pow2[k] + 1 - SeedOrder[k - 1][i \div 2]]

\* A seat of round 1: a seed, or the winner of the play-in for that seat.
SeatSource(o, seat) ==
  LET seed == SeedOrder[WbRounds(o)][seat]
  IN  IF PlayIns(o) > 0 /\ seed > ByeSeeds(o)
      THEN WinnerRef("WB", 0, seed - ByeSeeds(o)) ELSE SeedSource(seed)

WinnersSource(o, r, p, ab) ==
  LET q == IF ab = "a" THEN 2 * p - 1 ELSE 2 * p
  IN  IF r = 0
      THEN SeedSource(IF ab = "a" THEN ByeSeeds(o) + p ELSE o.fighters - p + 1)
      ELSE IF r = 1 THEN SeatSource(o, q) ELSE WinnerRef("WB", r - 1, q)

\* Mutant: a mixed round takes the losers of the winners' round before its own.
LosersSource_RoundEarly(o, k, p, ab) ==
  LET q == IF ab = "a" THEN 2 * p - 1 ELSE 2 * p
  IN  IF k = 1 THEN LoserRef("WB", EntryRound(o), q)
      ELSE IF k % 2 = 1 THEN WinnerRef("LB", k - 1, q)
      ELSE IF ab = "a" THEN WinnerRef("LB", k - 1, p)
      ELSE LoserRef("WB", EntryRound(o) + (k \div 2) - 1, p)

\* The drop round pairs losers, a mixed round meets the losers of a deeper
\* round of the winners' bracket, and the others consolidate.
LosersSource(o, k, p, ab) ==
  LET q == IF ab = "a" THEN 2 * p - 1 ELSE 2 * p
  IN  IF k = 1 THEN LoserRef("WB", EntryRound(o), q)
      ELSE IF k % 2 = 1 THEN WinnerRef("LB", k - 1, q)
      ELSE IF ab = "a" THEN WinnerRef("LB", k - 1, p)
      ELSE LoserRef("WB", EntryRound(o) + (k \div 2), p)

FinalSource(o, ab) ==
  IF ab = "a" THEN WinnerRef("WB", WbRounds(o), 1)
  ELSE IF LbRounds(o) > 0 THEN WinnerRef("LB", LbRounds(o), 1)
  ELSE LoserRef("WB", WbRounds(o), 1)

ResetSource(ab) == IF ab = "a" THEN LoserRef("GF", 0, 0) ELSE WinnerRef("GF", 0, 0)

SourceOf(o, slot, ab) ==
  LET r == slot[1]
      p == slot[2]
  IN  IF r <= WbRounds(o) THEN WinnersSource(o, r, p, ab)
      ELSE IF r < FinalRound(o) THEN LosersSource(o, r - WbRounds(o), p, ab)
      ELSE IF r = FinalRound(o) THEN FinalSource(o, ab) ELSE ResetSource(ab)

(* buildSelfRef: the reference a slot goes by.                             *)
SelfRefOf(o, slot) ==
  LET r == slot[1]
      p == slot[2]
  IN  IF r <= WbRounds(o) THEN <<"WB", r, p>>
      ELSE IF r <= WbRounds(o) + LbRounds(o) THEN <<"LB", r - WbRounds(o), p>>
      ELSE IF r = FinalRound(o) THEN <<"GF", 0, 0>> ELSE <<"GFRESET", 0, 0>>

-----------------------------------------------------------------------------
(* totalDoubleElimMatches: the count, in closed form.                      *)
TotalMatches(o) ==
  LET truncation == IF o.target = "gold" THEN 0 ELSE IF o.bronze THEN 1 ELSE 2
      finals     == IF o.target = "bronze" THEN 0 ELSE IF o.reset THEN 2 ELSE 1
  IN  PlayIns(o) + (o.size - 1) + (o.entry - 2 - truncation) + finals

SidesOf(o) == SlotsOf(o) \X {"a", "b"}

\* The sides that take this from that slot.
Takers(o, slot, what) ==
  {x \in SidesOf(o) : SourceOf(o, x[1], x[2]) = [takes |-> what, ref |-> SelfRefOf(o, slot)]}

\* The sides a fighter who loses here may fight on from: the losers of the
\* winners' bracket from the entry round on, but not the final's for bronze.
SecondChance(o, slot) ==
  /\ slot[1] >= EntryRound(o) /\ slot[1] # 0
  /\ slot[1] <= (IF o.target = "gold" THEN WbRounds(o) ELSE WbRounds(o) - 1)

LastSlots(o) ==
  IF o.target = "gold" THEN FinalsSlots(o)
  ELSE {<<WbRounds(o), 1>>} \cup {s \in LosersSlots(o) : s[1] = WbRounds(o) + LbRounds(o)}

(* The wiring of one bracket.  Every seed is drawn once; every reference a *)
(* side names is the self-reference of exactly one slot, of an earlier     *)
(* round; a bout that does not end the bracket sends its winner to exactly *)
(* one side, a loser with a second chance to exactly one and every other   *)
(* loser nowhere; and the slots are as many as the closed form counts.     *)
Wired(o) ==
  /\ Cardinality(SlotsOf(o)) = TotalMatches(o)
  /\ \A n \in 1..o.fighters :
       Cardinality({x \in SidesOf(o) : SourceOf(o, x[1], x[2]) = SeedSource(n)}) = 1
  /\ \A x \in SidesOf(o) :
       LET src == SourceOf(o, x[1], x[2])
       IN  \/ src \in {SeedSource(n) : n \in 1..o.fighters}
           \/ Cardinality({s \in SlotsOf(o) : SelfRefOf(o, s) = src.ref /\ s[1] < x[1][1]}) = 1
  /\ \A s \in SlotsOf(o) \ LastSlots(o) :
       /\ Cardinality(Takers(o, s, "winner")) = 1
       /\ Cardinality(Takers(o, s, "loser")) = IF SecondChance(o, s) THEN 1 ELSE 0
=============================================================================
