-------------------------- MODULE DoubleElimProofs --------------------------
(***************************************************************************)
(* Every bracket the generator of a double elimination can make is wired,  *)
(* whatever its size and its options.                                      *)
(***************************************************************************)
EXTENDS MC_Bracket, Recursion

-----------------------------------------------------------------------------
(* Powers of two.                                                          *)

LEMMA PowIs ==
  /\ Pow2 \in [Nat -> Nat \ {0}]
  /\ Pow2[0] = 1
  /\ \A k \in Nat : Pow2[k + 1] = 2 * Pow2[k]
<1> DEFINE V == Nat \ {0}
           step == [x \in Nat \X V |-> 2 * x[2]]
<1>1. \A n \in Nat, v \in V : step[<<n, v>>] = 2 * v /\ 2 * v \in V
  OBVIOUS
<1>2. PICK f : Recursive(f, V, 1, step)
  <2>1. 1 \in V /\ StaysIn(V, step)
    BY <1>1 DEF StaysIn
  <2> HIDE DEF V, step
  <2> QED BY <2>1, RecursionDefines
<1> HIDE DEF step
<1>3. f = [k \in Nat |-> IF k = 0 THEN 1 ELSE 2 * f[k - 1]]
  <2>1. ASSUME NEW k \in Nat PROVE f[k] = IF k = 0 THEN 1 ELSE 2 * f[k - 1]
    <3>1. CASE k = 0
      BY <1>2, <3>1 DEF Recursive
    <3>2. CASE k # 0
      <4>1. k - 1 \in Nat /\ (k - 1) + 1 = k
        BY <3>2
      <4>2. f[(k - 1) + 1] = step[<<k - 1, f[k - 1]>>]
        BY <1>2, <4>1 DEF Recursive
      <4>3. step[<<k - 1, f[k - 1]>>] = 2 * f[k - 1]
        BY <1>1, <1>2, <4>1 DEF Recursive
      <4> QED BY <3>2, <4>1, <4>2, <4>3
    <3> QED BY <3>1, <3>2
  <2> QED BY <1>2, <2>1 DEF Recursive
<1>4. Pow2 = [k \in Nat |-> IF k = 0 THEN 1 ELSE 2 * Pow2[k - 1]]
  BY <1>3 DEF Pow2
<1>5. Pow2[0] = 1 /\ \A k \in Nat : Pow2[k + 1] = 2 * Pow2[k]
  BY <1>4
<1>6. Pow2 \in [Nat -> Nat \ {0}]
  <2> DEFINE A == {k \in Nat : Pow2[k] \in Nat \ {0}}
  <2>1. 0 \in A
    BY <1>5
  <2>2. \A n \in Nat : n \in A => n + 1 \in A
    BY <1>5
  <2>3. Nat \subseteq A
    <3> HIDE DEF A
    <3> QED BY <2>1, <2>2, Induct
  <2> QED BY <1>4, <2>3
<1> QED BY <1>5, <1>6

LEMMA PowGrows ==
  /\ \A k \in Nat : k < Pow2[k]
  /\ \A j, k \in Nat : j < k => Pow2[j] < Pow2[k]
<1>1. \A k \in Nat : k < Pow2[k]
  <2> DEFINE A == {k \in Nat : k < Pow2[k]}
  <2>1. 0 \in A
    BY PowIs
  <2>2. \A n \in Nat : n \in A => n + 1 \in A
    BY PowIs
  <2>3. Nat \subseteq A
    <3> HIDE DEF A
    <3> QED BY <2>1, <2>2, Induct
  <2> QED BY <2>3
<1>2. ASSUME NEW j \in Nat PROVE \A k \in Nat : j < k => Pow2[j] < Pow2[k]
  <2> DEFINE A == {k \in Nat : j < k => Pow2[j] < Pow2[k]}
  <2>1. 0 \in A
    OBVIOUS
  <2>2. ASSUME NEW n \in Nat, n \in A PROVE n + 1 \in A
    <3>1. CASE j = n
      BY <3>1, PowIs
    <3>2. CASE j # n
      BY <2>2, <3>2, PowIs
    <3> QED BY <3>1, <3>2
  <2>3. Nat \subseteq A
    <3> HIDE DEF A
    <3> QED BY <2>1, <2>2, Induct
  <2> QED BY <2>3
<1> QED BY <1>1, <1>2

LEMMA LogOfPow ==
  ASSUME NEW k \in Nat
  PROVE  Log2(Pow2[k]) = k
<1>1. Pow2[k] \in Nat /\ k \in 0..Pow2[k]
  BY PowIs, PowGrows
<1>2. ASSUME NEW j \in 0..Pow2[k], Pow2[j] = Pow2[k] PROVE j = k
  <2>1. j \in Nat /\ Pow2[k] \in Nat
    BY <1>1
  <2>2. ~(j < k) /\ ~(k < j)
    BY <1>2, <2>1, PowGrows
  <2> QED BY <2>1, <2>2
<1> QED BY <1>1, <1>2 DEF Log2

\* A product of powers.
LEMMA PowOfSum ==
  \A j, k \in Nat : Pow2[j + k] = Pow2[j] * Pow2[k]
<1> SUFFICES ASSUME NEW j \in Nat PROVE \A k \in Nat : Pow2[j + k] = Pow2[j] * Pow2[k]
  OBVIOUS
<1> DEFINE A == {k \in Nat : Pow2[j + k] = Pow2[j] * Pow2[k]}
<1>1. 0 \in A
  BY PowIs
<1>2. ASSUME NEW n \in Nat, n \in A PROVE n + 1 \in A
  <2>1. Pow2[j + (n + 1)] = 2 * Pow2[j + n]
    BY PowIs
  <2>2. Pow2[n + 1] = 2 * Pow2[n] /\ Pow2[n] \in Nat /\ Pow2[j] \in Nat
    BY PowIs
  <2>3. Pow2[j] * (2 * Pow2[n]) = 2 * (Pow2[j] * Pow2[n])
    BY <2>2
  <2> QED BY <1>2, <2>1, <2>2, <2>3
<1>3. Nat \subseteq A
  <2> HIDE DEF A
  <2> QED BY <1>1, <1>2, Induct
<1> QED BY <1>3

LEMMA DivOfProduct ==
  ASSUME NEW x \in Nat, NEW y \in Nat \ {0}
  PROVE  (x * y) \div y = x
  OBVIOUS

LEMMA PowDivided ==
  ASSUME NEW j \in Nat, NEW k \in Nat, k <= j
  PROVE  Pow2[j] \div Pow2[k] = Pow2[j - k]
<1>1. Pow2[(j - k) + k] = Pow2[j - k] * Pow2[k]
  <2>1. j - k \in Nat
    OBVIOUS
  <2> QED BY <2>1, PowOfSum
<1>2. (j - k) + k = j /\ j - k \in Nat
  OBVIOUS
<1>3. Pow2[j - k] \in Nat /\ Pow2[k] \in Nat \ {0}
  BY <1>2, PowIs
<1>4. (Pow2[j - k] * Pow2[k]) \div Pow2[k] = Pow2[j - k]
  BY <1>3, DivOfProduct
<1> QED BY <1>1, <1>2, <1>4

-----------------------------------------------------------------------------
(* The shape: a bracket of 2^w with a second chance for the last 2^e.      *)

Shaped(o, w, e) ==
  /\ w \in Nat /\ e \in 1..w
  /\ o.size = Pow2[w] /\ o.entry = Pow2[e]
  /\ WbRounds(o) = w /\ EntryRound(o) = w + 1 - e
  /\ PlayIns(o) \in 0..Pow2[w] /\ o.fighters = Pow2[w] + PlayIns(o)
  /\ o.reset \in BOOLEAN /\ o.bronze \in BOOLEAN
  /\ \/ o.target = "gold" /\ ~o.bronze /\ LbRounds(o) = 2 * (e - 1)
     \/ /\ o.target = "bronze" /\ ~o.reset /\ LbRounds(o) \in Nat \ {0}
        /\ LbRounds(o) = 2 * (e - 1) - (IF o.bronze THEN 1 ELSE 2)

LEMMA PowerIs ==
  ASSUME NEW top \in Nat, NEW n \in Powers(top) \ {1}
  PROVE  \E k \in Nat : k >= 1 /\ n = Pow2[k] /\ Log2(n) = k
<1>1. PICK k \in 0..top : Pow2[k] = n
  BY DEF Powers
<1>2. k \in Nat /\ k # 0
  BY <1>1, PowIs
<1> QED BY <1>1, <1>2, LogOfPow

LEMMA ShapeIs ==
  ASSUME NEW top \in Nat, NEW o \in Options(top)
  PROVE  \E w, e : Shaped(o, w, e)
<1>1. /\ o.fighters \in Nat /\ o.size \in Powers(top) \ {1} /\ o.entry \in Powers(top) \ {1}
      /\ o.target \in {"gold", "bronze"} /\ o.bronze \in BOOLEAN /\ o.reset \in BOOLEAN
      /\ o.size <= o.fighters /\ o.fighters <= 2 * o.size /\ o.entry <= o.size
      /\ o.target = "gold" => ~o.bronze
      /\ o.target = "bronze" => ~o.reset /\ LbRounds(o) >= 1
  BY DEF Options
<1>2. PICK w \in Nat : w >= 1 /\ o.size = Pow2[w] /\ Log2(o.size) = w
  BY <1>1, PowerIs
<1>3. PICK e \in Nat : e >= 1 /\ o.entry = Pow2[e] /\ Log2(o.entry) = e
  BY <1>1, PowerIs
<1>4. e <= w
  <2>1. Pow2[w] \in Nat /\ Pow2[e] \in Nat /\ Pow2[e] <= Pow2[w]
    BY <1>1, <1>2, <1>3, PowIs
  <2> QED BY <2>1, PowGrows
<1>5. WbRounds(o) = w /\ EntryRound(o) = w + 1 - e
  BY <1>2, <1>3 DEF WbRounds, EntryRound
<1>6. PlayIns(o) \in 0..Pow2[w] /\ o.fighters = Pow2[w] + PlayIns(o)
  <2>1. Pow2[w] \in Nat
    BY PowIs
  <2> QED BY <1>1, <1>2, <2>1 DEF PlayIns
<1>7. \/ o.target = "gold" /\ LbRounds(o) = 2 * (e - 1)
      \/ /\ o.target = "bronze" /\ LbRounds(o) \in Nat \ {0}
         /\ LbRounds(o) = 2 * (e - 1) - (IF o.bronze THEN 1 ELSE 2)
  <2>1. FullLb(o) = 2 * (e - 1)
    BY <1>3 DEF FullLb
  <2>2. CASE o.target = "gold"
    BY <2>1, <2>2 DEF LbRounds
  <2>3. CASE o.target = "bronze"
    <3>1. LbRounds(o) = 2 * (e - 1) - (IF o.bronze THEN 1 ELSE 2)
      BY <2>1, <2>3 DEF LbRounds
    <3>2. LbRounds(o) \in Int
      BY <3>1
    <3> QED BY <1>1, <2>3, <3>1, <3>2
  <2> QED BY <1>1, <2>2, <2>3
<1> QED BY <1>1, <1>2, <1>3, <1>4, <1>5, <1>6, <1>7 DEF Shaped

\* The bouts of a round of the winners' and of the losers' bracket.
Bouts(w, r) == Pow2[w - r]
Chances(e, k) == Pow2[e - 2 - ((k - 1) \div 2)]

LEMMA WinnersAre ==
  ASSUME NEW o, NEW w, NEW e, Shaped(o, w, e)
  PROVE  WinnersSlots(o) = UNION {{r} \X (1..Bouts(w, r)) : r \in 1..w}
<1>1. \A r \in 1..w : o.size \div Pow2[r] = Bouts(w, r)
  BY PowDivided DEF Shaped, Bouts
<1> QED BY <1>1 DEF WinnersSlots, Shaped

LEMMA ChancesAre ==
  ASSUME NEW o, NEW w, NEW e, Shaped(o, w, e), NEW k \in 1..LbRounds(o)
  PROVE  /\ LbSize(o, k) = Chances(e, k)
         /\ (k - 1) \div 2 \in 0..(e - 2)
         /\ Chances(e, k) \in Nat \ {0}
<1> DEFINE h == (k - 1) \div 2
<1>1. h \in 0..(e - 2) /\ e \in Nat
  BY DEF Shaped
<1>2. h \in Nat /\ e - 2 - h \in Nat /\ h + 2 \in Nat /\ h + 2 <= e /\ e - (h + 2) = e - 2 - h
  BY <1>1
<1>3. 4 * Pow2[h] = Pow2[h + 2]
  <2>1. Pow2[h + 1] = 2 * Pow2[h] /\ Pow2[(h + 1) + 1] = 2 * Pow2[h + 1] /\ Pow2[h] \in Nat
    BY <1>2, PowIs
  <2> QED BY <1>2, <2>1
<1>4. LbSize(o, k) = Pow2[e] \div Pow2[h + 2]
  BY <1>3 DEF LbSize, Shaped
<1>5. Pow2[e] \div Pow2[h + 2] = Pow2[e - (h + 2)]
  BY <1>1, <1>2, PowDivided
<1> QED BY <1>1, <1>2, <1>4, <1>5, PowIs DEF Chances

\* A mixed round meets as many losers as it has bouts, and the others halve.
LEMMA ChancesMeet ==
  ASSUME NEW o, NEW w, NEW e, Shaped(o, w, e), NEW k \in 1..LbRounds(o)
  PROVE  /\ k = 1 => 2 * Chances(e, k) = Bouts(w, w + 1 - e)
         /\ k % 2 = 0 => /\ Chances(e, k) = Chances(e, k - 1)
                         /\ Chances(e, k) = Bouts(w, (w + 1 - e) + (k \div 2))
         /\ k # 1 /\ k % 2 = 1 => 2 * Chances(e, k) = Chances(e, k - 1)
         /\ k = LbRounds(o) /\ o.target = "gold" => Chances(e, k) = 1
<1>0. w \in Nat /\ e \in 1..w /\ k \in Nat /\ (k - 1) \div 2 \in 0..(e - 2)
  BY ChancesAre DEF Shaped
<1>1. ASSUME k = 1 PROVE 2 * Chances(e, k) = Bouts(w, w + 1 - e)
  <2>1. (k - 1) \div 2 = 0 /\ e - 2 \in Nat /\ (e - 2) + 1 = w - (w + 1 - e)
    BY <1>0, <1>1
  <2>2. Pow2[(e - 2) + 1] = 2 * Pow2[e - 2]
    BY <2>1, PowIs
  <2> QED BY <2>1, <2>2 DEF Chances, Bouts
<1>2. ASSUME k % 2 = 0
      PROVE  /\ Chances(e, k) = Chances(e, k - 1)
             /\ Chances(e, k) = Bouts(w, (w + 1 - e) + (k \div 2))
  <2>1. PICK j \in Nat : k = 2 * j
    BY <1>0, <1>2
  <2>2. (k - 1) \div 2 = j - 1 /\ (k - 2) \div 2 = j - 1 /\ k \div 2 = j
    BY <1>0, <2>1
  <2>3. e - 2 - (j - 1) = w - ((w + 1 - e) + j) /\ (k - 1) - 1 = k - 2
    BY <1>0, <2>1
  <2> QED BY <2>2, <2>3 DEF Chances, Bouts
<1>3. ASSUME k # 1, k % 2 = 1 PROVE 2 * Chances(e, k) = Chances(e, k - 1)
  <2>1. PICK j \in Nat : k = 2 * j + 1
    BY <1>0, <1>3
  <2>2. (k - 1) \div 2 = j /\ ((k - 1) - 1) \div 2 = j - 1 /\ j >= 1
    BY <1>0, <1>3, <2>1
  <2>3. e - 2 - j \in Nat /\ e - 2 - (j - 1) = (e - 2 - j) + 1
    BY <1>0, <2>2
  <2>4. Pow2[(e - 2 - j) + 1] = 2 * Pow2[e - 2 - j]
    BY <2>3, PowIs
  <2> QED BY <2>2, <2>3, <2>4 DEF Chances
<1>4. ASSUME k = LbRounds(o), o.target = "gold" PROVE Chances(e, k) = 1
  <2>1. k = 2 * (e - 1)
    BY <1>4 DEF Shaped
  <2>2. (k - 1) \div 2 = e - 2
    BY <1>0, <2>1
  <2>3. e - 2 - (e - 2) = 0
    BY <1>0
  <2> QED BY <2>2, <2>3, PowIs DEF Chances
<1> QED BY <1>1, <1>2, <1>3, <1>4

\* How many bouts a round has, and the last round.
Size(o, w, e, r) ==
  IF r = 0 THEN PlayIns(o) ELSE IF r <= w THEN Bouts(w, r)
  ELSE IF r <= w + LbRounds(o) THEN Chances(e, r - w) ELSE 1

Final(o, w) == w + LbRounds(o) + (IF o.target = "bronze" THEN 0 ELSE IF o.reset THEN 2 ELSE 1)

LEMMA RoundsAre ==
  ASSUME NEW o, NEW w, NEW e, Shaped(o, w, e)
  PROVE  /\ w \in Nat /\ w >= 1 /\ LbRounds(o) \in Nat /\ FinalRound(o) = w + LbRounds(o) + 1
         /\ Final(o, w) \in Nat
         /\ \A r \in 0..Final(o, w) : Size(o, w, e, r) \in Nat
<1>1. w \in Nat /\ e \in 1..w /\ LbRounds(o) \in Nat /\ FinalRound(o) = w + LbRounds(o) + 1
  BY DEF Shaped, FinalRound
<1>2. Final(o, w) \in Nat
  BY <1>1 DEF Final
<1>3. ASSUME NEW r \in 0..Final(o, w) PROVE Size(o, w, e, r) \in Nat
  <2>1. CASE r = 0
    <3>1. PlayIns(o) \in 0..Pow2[w] /\ Pow2[w] \in Nat
      BY <1>1, PowIs DEF Shaped
    <3> QED BY <2>1, <3>1 DEF Size
  <2>2. CASE r # 0 /\ r <= w
    <3>1. w - r \in Nat
      BY <1>1, <2>2
    <3> QED BY <2>2, <3>1, PowIs DEF Size, Bouts
  <2>3. CASE w < r /\ r <= w + LbRounds(o)
    <3>1. r - w \in 1..LbRounds(o)
      BY <1>1, <1>2, <2>3
    <3> QED BY <1>1, <2>3, <3>1, ChancesAre DEF Size
  <2>4. CASE w + LbRounds(o) < r
    BY <1>1, <2>4 DEF Size
  <2> QED BY <1>1, <1>2, <2>1, <2>2, <2>3, <2>4
<1> QED BY <1>1, <1>2, <1>3

LEMMA SlotsAre ==
  ASSUME NEW o, NEW w, NEW e, Shaped(o, w, e)
  PROVE  SlotsOf(o) = UNION {{r} \X (1..Size(o, w, e, r)) : r \in 0..Final(o, w)}
<1> DEFINE L == LbRounds(o)
           All == UNION {{r} \X (1..Size(o, w, e, r)) : r \in 0..Final(o, w)}
<1>1. w \in Nat /\ w >= 1 /\ L \in Nat /\ FinalRound(o) = w + L + 1 /\ Final(o, w) \in Nat
      /\ WbRounds(o) = w
  BY RoundsAre DEF Shaped
<1>2. PlayInSlots(o) = {0} \X (1..Size(o, w, e, 0))
  BY DEF PlayInSlots, Size
<1>3. WinnersSlots(o) = UNION {{r} \X (1..Size(o, w, e, r)) : r \in 1..w}
  <2>1. \A r \in 1..w : Size(o, w, e, r) = Bouts(w, r)
    BY <1>1 DEF Size
  <2> QED BY <2>1, WinnersAre
<1>4. LosersSlots(o) = UNION {{r} \X (1..Size(o, w, e, r)) : r \in (w + 1)..(w + L)}
  <2>1. \A k \in 1..L : LbSize(o, k) = Size(o, w, e, w + k)
    <3> TAKE k \in 1..L
    <3>1. LbSize(o, k) = Chances(e, k)
      BY ChancesAre
    <3>2. ~(w + k = 0) /\ ~(w + k <= w) /\ w + k <= w + L /\ (w + k) - w = k
      BY <1>1
    <3> QED BY <3>1, <3>2 DEF Size
  <2>2. LosersSlots(o) = UNION {{w + k} \X (1..Size(o, w, e, w + k)) : k \in 1..L}
    BY <1>1, <2>1 DEF LosersSlots
  <2>3. \A r \in (w + 1)..(w + L) : r - w \in 1..L /\ w + (r - w) = r
    BY <1>1
  <2>4. \A k \in 1..L : w + k \in (w + 1)..(w + L)
    BY <1>1
  <2> QED BY <2>2, <2>3, <2>4
<1>5. FinalsSlots(o) = UNION {{r} \X (1..Size(o, w, e, r)) : r \in (w + L + 1)..Final(o, w)}
  <2>1. \A r \in (w + L + 1)..Final(o, w) : Size(o, w, e, r) = 1
    BY <1>1 DEF Size
  <2>2. 1..1 = {1} /\ \A r : {r} \X {1} = {<<r, 1>>}
    OBVIOUS
  <2>3. UNION {{r} \X (1..Size(o, w, e, r)) : r \in (w + L + 1)..Final(o, w)}
          = {<<r, 1>> : r \in (w + L + 1)..Final(o, w)}
    BY <2>1, <2>2
  <2>4. CASE o.target = "bronze"
    <3>1. (w + L + 1)..Final(o, w) = {}
      BY <1>1, <2>4 DEF Final
    <3> QED BY <2>3, <2>4, <3>1 DEF FinalsSlots
  <2>5. CASE o.target # "bronze" /\ o.reset
    <3>1. (w + L + 1)..Final(o, w) = {w + L + 1, w + L + 2}
      BY <1>1, <2>5 DEF Final
    <3> QED BY <1>1, <2>3, <2>5, <3>1 DEF FinalsSlots
  <2>6. CASE o.target # "bronze" /\ ~o.reset
    <3>1. (w + L + 1)..Final(o, w) = {w + L + 1}
      BY <1>1, <2>6 DEF Final
    <3> QED BY <1>1, <2>3, <2>6, <3>1 DEF FinalsSlots
  <2> QED BY <2>4, <2>5, <2>6
<1>6. 0..Final(o, w) = {0} \cup (1..w) \cup ((w + 1)..(w + L)) \cup ((w + L + 1)..Final(o, w))
  BY <1>1 DEF Final
<1> QED BY <1>2, <1>3, <1>4, <1>5, <1>6 DEF SlotsOf

-----------------------------------------------------------------------------
(* The slots are as many as the closed form counts.                        *)

Upto(o, w, e, n) == UNION {{r} \X (1..Size(o, w, e, r)) : r \in 0..n}

LEMMA RoundCounted ==
  ASSUME NEW r, NEW c \in Nat
  PROVE  IsFiniteSet({r} \X (1..c)) /\ Cardinality({r} \X (1..c)) = c
<1> DEFINE S == {r}
           T == 1..c
<1>1. IsFiniteSet(S) /\ Cardinality(S) = 1
  BY FS_Singleton
<1>2. IsFiniteSet(T) /\ Cardinality(T) = c
  BY FS_Interval
<1>3. IsFiniteSet(S \X T) /\ Cardinality(S \X T) = Cardinality(S) * Cardinality(T)
  <2> HIDE DEF S, T
  <2> QED BY <1>1, <1>2, FS_Product
<1> HIDE DEF S, T
<1>4. IsFiniteSet(S \X T) /\ Cardinality(S \X T) = c
  BY <1>1, <1>2, <1>3
<1> QED BY <1>4 DEF S, T

LEMMA OneMoreRound ==
  ASSUME NEW o, NEW w, NEW e, Shaped(o, w, e), NEW n \in Nat, n < Final(o, w),
         IsFiniteSet(Upto(o, w, e, n))
  PROVE  /\ IsFiniteSet(Upto(o, w, e, n + 1))
         /\ Cardinality(Upto(o, w, e, n + 1)) = Cardinality(Upto(o, w, e, n)) + Size(o, w, e, n + 1)
<1> DEFINE S == Upto(o, w, e, n)
           c == Size(o, w, e, n + 1)
           T == {n + 1} \X (1..c)
<1>1. c \in Nat
  BY RoundsAre
<1>2. IsFiniteSet(T) /\ Cardinality(T) = c
  BY <1>1, RoundCounted
<1>3. Upto(o, w, e, n + 1) = S \cup T
  <2>1. 0..(n + 1) = (0..n) \cup {n + 1}
    OBVIOUS
  <2> QED BY <2>1 DEF Upto
<1>4. S \cap T = {}
  BY DEF Upto
<1>5. Cardinality(S) \in Nat /\ Cardinality({}) = 0
  BY FS_CardinalityType, FS_EmptySet
<1>6. IsFiniteSet(S \cup T) /\ Cardinality(S \cup T) = Cardinality(S) + Cardinality(T) - Cardinality(S \cap T)
  <2> HIDE DEF S, T, c
  <2>1. IsFiniteSet(S)
    BY DEF S
  <2> QED BY <1>2, <2>1, FS_Union
<1>7. IsFiniteSet(S \cup T) /\ Cardinality(S \cup T) = Cardinality(S) + c
  <2> HIDE DEF S, T, c
  <2>1. Cardinality(S \cap T) = 0
    BY <1>4, <1>5
  <2>2. Cardinality(S) + c - 0 = Cardinality(S) + c
    BY <1>1, <1>5
  <2> QED BY <1>2, <1>6, <2>1, <2>2
<1> QED BY <1>3, <1>7

\* What is left of the second chance after its round k.
Left(e, k) == (IF k % 2 = 0 THEN 2 ELSE 3) * Chances(e, k)

Counted(o, w, e, n) ==
  LET L == LbRounds(o)
      wb == PlayIns(o) + Pow2[w]
  IN  IF n <= w THEN wb - Pow2[w - n]
      ELSE IF n <= w + L THEN wb - 1 + (Pow2[e] - Left(e, n - w))
      ELSE wb - 1 + (IF L = 0 THEN 0 ELSE Pow2[e] - Left(e, L)) + (n - w - L)

LEMMA CountedSteps ==
  ASSUME NEW o, NEW w, NEW e, Shaped(o, w, e), NEW n \in Nat, n < Final(o, w)
  PROVE  Counted(o, w, e, n + 1) = Counted(o, w, e, n) + Size(o, w, e, n + 1)
<1> DEFINE L == LbRounds(o)
           wb == PlayIns(o) + Pow2[w]
<1>1. w \in Nat /\ w >= 1 /\ L \in Nat /\ e \in 1..w /\ wb \in Nat /\ Pow2[e] \in Nat
  BY RoundsAre, PowIs DEF Shaped
<1>2. CASE n + 1 <= w
  <2>1. w - (n + 1) \in Nat /\ w - n = (w - (n + 1)) + 1
    BY <1>1, <1>2
  <2>2. Pow2[w - n] = 2 * Pow2[w - (n + 1)] /\ Pow2[w - (n + 1)] \in Nat
    BY <2>1, PowIs
  <2>3. Size(o, w, e, n + 1) = Pow2[w - (n + 1)]
    BY <1>2 DEF Size, Bouts
  <2>4. Counted(o, w, e, n + 1) = wb - Pow2[w - (n + 1)] /\ Counted(o, w, e, n) = wb - Pow2[w - n]
    BY <1>1, <1>2 DEF Counted
  <2> QED BY <1>1, <2>2, <2>3, <2>4
<1>3. CASE n = w /\ L > 0
  <2>1. 1 \in 1..L /\ Chances(e, 1) \in Nat /\ 2 * Chances(e, 1) = Bouts(w, w + 1 - e)
    <3>1. 1 \in 1..L
      BY <1>1, <1>3
    <3> QED BY <3>1, ChancesAre, ChancesMeet
  <2>2. Bouts(w, w + 1 - e) = Pow2[e - 1] /\ Pow2[e] = 2 * Pow2[e - 1] /\ Pow2[e - 1] \in Nat
    <3>1. e - 1 \in Nat /\ w - (w + 1 - e) = e - 1 /\ (e - 1) + 1 = e
      BY <1>1
    <3>2. Pow2[(e - 1) + 1] = 2 * Pow2[e - 1] /\ Pow2[e - 1] \in Nat
      BY <3>1, PowIs
    <3> QED BY <3>1, <3>2 DEF Bouts
  <2>3. Size(o, w, e, n + 1) = Chances(e, 1)
    <3>1. (n + 1) - w = 1 /\ ~(n + 1 = 0) /\ ~(n + 1 <= w) /\ n + 1 <= w + L
      BY <1>1, <1>3
    <3> QED BY <3>1 DEF Size
  <2>4. Counted(o, w, e, n + 1) = wb - 1 + (Pow2[e] - 3 * Chances(e, 1))
    <3>1. (n + 1) - w = 1 /\ ~(n + 1 <= w) /\ n + 1 <= w + L /\ 1 % 2 = 1
      BY <1>1, <1>3
    <3> QED BY <3>1 DEF Counted, Left
  <2>5. Counted(o, w, e, n) = wb - 1
    <3>1. n <= w /\ w - n = 0
      BY <1>1, <1>3
    <3> QED BY <3>1, PowIs DEF Counted
  <2> QED BY <1>1, <2>1, <2>2, <2>3, <2>4, <2>5
<1>4. CASE n > w /\ n + 1 <= w + L
  <2> DEFINE k == n - w
  <2>1. k \in 1..L /\ k + 1 \in 1..L /\ k \in Nat /\ (n + 1) - w = k + 1
    BY <1>1, <1>4
  <2>2. Chances(e, k) \in Nat /\ Chances(e, k + 1) \in Nat
    BY <2>1, ChancesAre
  <2>3. Size(o, w, e, n + 1) = Chances(e, k + 1)
    <3>1. ~(n + 1 = 0) /\ ~(n + 1 <= w)
      BY <1>1, <1>4
    <3> QED BY <1>4, <2>1, <3>1 DEF Size
  <2>4. /\ Counted(o, w, e, n + 1) = wb - 1 + (Pow2[e] - Left(e, k + 1))
        /\ Counted(o, w, e, n) = wb - 1 + (Pow2[e] - Left(e, k))
    <3>1. ~(n + 1 <= w) /\ ~(n <= w) /\ n <= w + L
      BY <1>1, <1>4
    <3> QED BY <1>4, <2>1, <3>1 DEF Counted
  <2>5. Left(e, k) = Left(e, k + 1) + Chances(e, k + 1) /\ Left(e, k + 1) \in Nat
    <3>1. (k + 1) - 1 = k /\ k + 1 # 1
      BY <2>1
    <3>2. CASE k % 2 = 0
      <4>1. (k + 1) % 2 = 1
        BY <2>1, <3>2
      <4>2. 2 * Chances(e, k + 1) = Chances(e, k)
        BY <2>1, <3>1, <4>1, ChancesMeet
      <4>3. Left(e, k) = 2 * Chances(e, k) /\ Left(e, k + 1) = 3 * Chances(e, k + 1)
        BY <3>2, <4>1 DEF Left
      <4> QED BY <2>2, <4>2, <4>3
    <3>3. CASE k % 2 # 0
      <4>1. (k + 1) % 2 = 0
        BY <2>1, <3>3
      <4>2. Chances(e, k + 1) = Chances(e, k)
        BY <2>1, <3>1, <4>1, ChancesMeet
      <4>3. Left(e, k) = 3 * Chances(e, k) /\ Left(e, k + 1) = 2 * Chances(e, k + 1)
        BY <3>3, <4>1 DEF Left
      <4> QED BY <2>2, <4>2, <4>3
    <3> QED BY <3>2, <3>3
  <2> HIDE DEF k
  <2> QED BY <1>1, <2>2, <2>3, <2>4, <2>5
<1>5. CASE n >= w + L /\ L > 0
  <2>1. Chances(e, L) \in Nat
    <3>1. L \in 1..L
      BY <1>1, <1>5
    <3> QED BY <3>1, ChancesAre
  <2>2. Left(e, L) \in Nat
    BY <2>1 DEF Left
  <2>3. Size(o, w, e, n + 1) = 1
    BY <1>1, <1>5 DEF Size
  <2>4. Counted(o, w, e, n + 1) = wb - 1 + (Pow2[e] - Left(e, L)) + (n + 1 - w - L)
    BY <1>1, <1>5 DEF Counted
  <2>5. Counted(o, w, e, n) = wb - 1 + (Pow2[e] - Left(e, L)) + (n - w - L)
    <3>1. CASE n = w + L
      <4>1. n - w = L /\ n - w - L = 0 /\ ~(n <= w) /\ n <= w + L
        BY <1>1, <1>5, <3>1
      <4>2. Counted(o, w, e, n) = wb - 1 + (Pow2[e] - Left(e, L))
        BY <4>1 DEF Counted
      <4> QED BY <1>1, <2>2, <4>1, <4>2
    <3>2. CASE n # w + L
      BY <1>1, <1>5, <3>2 DEF Counted
    <3> QED BY <3>1, <3>2
  <2> QED BY <1>1, <2>2, <2>3, <2>4, <2>5
<1>6. CASE n >= w /\ L = 0
  <2>1. Size(o, w, e, n + 1) = 1
    BY <1>1, <1>6 DEF Size
  <2>2. Counted(o, w, e, n + 1) = wb - 1 + 0 + (n + 1 - w - 0)
    BY <1>1, <1>6 DEF Counted
  <2>3. Counted(o, w, e, n) = wb - 1 + 0 + (n - w - 0)
    <3>1. CASE n = w
      <4>1. w - n = 0 /\ n <= w
        BY <1>1, <3>1
      <4>2. Counted(o, w, e, n) = wb - 1
        BY <4>1, PowIs DEF Counted
      <4> QED BY <1>1, <3>1, <4>2
    <3>2. CASE n # w
      BY <1>1, <1>6, <3>2 DEF Counted
    <3> QED BY <3>1, <3>2
  <2> QED BY <1>1, <2>1, <2>2, <2>3
<1> QED BY <1>1, <1>2, <1>3, <1>4, <1>5, <1>6

LEMMA SlotsCounted ==
  ASSUME NEW o, NEW w, NEW e, Shaped(o, w, e)
  PROVE  IsFiniteSet(SlotsOf(o)) /\ Cardinality(SlotsOf(o)) = TotalMatches(o)
<1> DEFINE A == {n \in Nat : n <= Final(o, w) =>
                   /\ IsFiniteSet(Upto(o, w, e, n))
                   /\ Cardinality(Upto(o, w, e, n)) = Counted(o, w, e, n)}
           L == LbRounds(o)
<1>1. w \in Nat /\ w >= 1 /\ L \in Nat /\ e \in 1..w /\ PlayIns(o) \in Nat /\ Pow2[w] \in Nat
      /\ Pow2[e] \in Nat /\ Final(o, w) \in Nat
  <2>1. w \in Nat /\ w >= 1 /\ L \in Nat /\ e \in 1..w /\ Final(o, w) \in Nat
        /\ PlayIns(o) \in 0..Pow2[w]
    BY RoundsAre DEF Shaped
  <2>2. Pow2[w] \in Nat /\ Pow2[e] \in Nat
    BY <2>1, PowIs
  <2> QED BY <2>1, <2>2
<1>2. 0 \in A
  <2>1. Upto(o, w, e, 0) = {0} \X (1..PlayIns(o))
    <3>1. 0..0 = {0}
      OBVIOUS
    <3> QED BY <3>1 DEF Upto, Size
  <2>4. IsFiniteSet(Upto(o, w, e, 0)) /\ Cardinality(Upto(o, w, e, 0)) = PlayIns(o)
    BY <1>1, <2>1, RoundCounted
  <2>5. Counted(o, w, e, 0) = PlayIns(o)
    <3>1. 0 <= w /\ w - 0 = w
      BY <1>1
    <3>2. Counted(o, w, e, 0) = PlayIns(o) + Pow2[w] - Pow2[w]
      BY <1>1, <3>1 DEF Counted
    <3> QED BY <1>1, <3>2
  <2> QED BY <1>1, <2>4, <2>5
<1>3. ASSUME NEW n \in Nat, n \in A PROVE n + 1 \in A
  <2>1. ASSUME n + 1 <= Final(o, w)
        PROVE  /\ IsFiniteSet(Upto(o, w, e, n + 1))
               /\ Cardinality(Upto(o, w, e, n + 1)) = Counted(o, w, e, n + 1)
    <3>1. n < Final(o, w) /\ IsFiniteSet(Upto(o, w, e, n))
          /\ Cardinality(Upto(o, w, e, n)) = Counted(o, w, e, n)
      BY <1>1, <1>3, <2>1
    <3> QED BY <3>1, OneMoreRound, CountedSteps
  <2> QED BY <2>1
<1>4. Nat \subseteq A
  <2> HIDE DEF A
  <2> QED BY <1>2, <1>3, Induct
<1>5. IsFiniteSet(SlotsOf(o)) /\ Cardinality(SlotsOf(o)) = Counted(o, w, e, Final(o, w))
  <2>1. /\ IsFiniteSet(Upto(o, w, e, Final(o, w)))
        /\ Cardinality(Upto(o, w, e, Final(o, w))) = Counted(o, w, e, Final(o, w))
    BY <1>1, <1>4
  <2> QED BY <2>1, SlotsAre DEF Upto
<1>6. Counted(o, w, e, Final(o, w)) = TotalMatches(o)
  <2>1. L > 0 => L \in 1..L /\ Chances(e, L) \in Nat /\ (L - 1) \div 2 \in 0..(e - 2)
    <3>1. L > 0 => L \in 1..L
      BY <1>1
    <3> QED BY <3>1, ChancesAre
  <2>2. o.size = Pow2[w] /\ o.entry = Pow2[e]
    BY DEF Shaped
  <2>3. CASE o.target = "gold"
    <3>1. L = 2 * (e - 1) /\ L % 2 = 0 /\ o.reset \in BOOLEAN /\ ~(o.target = "bronze")
      BY <1>1, <2>3 DEF Shaped
    <3>2. Final(o, w) = w + L + (IF o.reset THEN 2 ELSE 1)
      BY <3>1 DEF Final
    <3>3. L > 0 => Left(e, L) = 2
      BY <2>1, <2>3, <3>1, ChancesMeet DEF Left
    <3>4. L = 0 => Pow2[e] = 2
      <4>1. L = 0 => e = 0 + 1
        BY <1>1, <3>1
      <4> QED BY <4>1, PowIs
    <3>5. Counted(o, w, e, Final(o, w))
            = (PlayIns(o) + Pow2[w]) - 1 + (IF L = 0 THEN 0 ELSE Pow2[e] - Left(e, L))
                + (Final(o, w) - w - L)
      <4>1. ~(Final(o, w) <= w) /\ ~(Final(o, w) <= w + L)
        BY <1>1, <3>2
      <4>2. \/ L = 0
            \/ L > 0 /\ Left(e, L) \in Nat
        BY <1>1, <3>3
      <4> QED BY <1>1, <4>1, <4>2 DEF Counted
    <3>6. TotalMatches(o) = PlayIns(o) + (Pow2[w] - 1) + (Pow2[e] - 2 - 0) + (IF o.reset THEN 2 ELSE 1)
      BY <2>2, <2>3 DEF TotalMatches
    <3> QED BY <1>1, <3>2, <3>3, <3>4, <3>5, <3>6
  <2>4. CASE o.target = "bronze"
    <3>1. L > 0 /\ L = 2 * (e - 1) - (IF o.bronze THEN 1 ELSE 2) /\ o.bronze \in BOOLEAN
          /\ ~(o.target = "gold")
      BY <2>4 DEF Shaped
    <3>2. Final(o, w) = w + L
      BY <1>1, <2>4 DEF Final
    <3>3. Left(e, L) = IF o.bronze THEN 3 ELSE 4
      <4>1. CASE o.bronze
        <5>1. L = 2 * (e - 2) + 1
          BY <1>1, <3>1, <4>1
        <5>2. L % 2 = 1 /\ (L - 1) \div 2 = e - 2 /\ e - 2 - (e - 2) = 0
          BY <1>1, <5>1
        <5> QED BY <4>1, <5>2, PowIs DEF Left, Chances
      <4>2. CASE ~o.bronze
        <5>1. L = 2 * (e - 2)
          BY <1>1, <3>1, <4>2
        <5>2. L % 2 = 0 /\ (L - 1) \div 2 = e - 3 /\ e - 2 - (e - 3) = 0 + 1
          BY <1>1, <5>1
        <5>3. Pow2[0 + 1] = 2
          BY PowIs
        <5> QED BY <4>2, <5>2, <5>3 DEF Left, Chances
      <4> QED BY <3>1, <4>1, <4>2
    <3>4. Counted(o, w, e, Final(o, w)) = (PlayIns(o) + Pow2[w]) - 1 + (Pow2[e] - Left(e, L))
      <4>1. ~(Final(o, w) <= w) /\ Final(o, w) <= w + L /\ Final(o, w) - w = L
        BY <1>1, <3>1, <3>2
      <4>2. Left(e, L) \in Nat
        BY <3>1, <3>3
      <4> QED BY <1>1, <4>1, <4>2 DEF Counted
    <3>5. TotalMatches(o)
            = PlayIns(o) + (Pow2[w] - 1) + (Pow2[e] - 2 - (IF o.bronze THEN 1 ELSE 2)) + 0
      BY <2>2, <2>4, <3>1 DEF TotalMatches
    <3> QED BY <1>1, <3>1, <3>3, <3>4, <3>5
  <2> QED BY <2>3, <2>4 DEF Shaped
<1> QED BY <1>5, <1>6
-----------------------------------------------------------------------------
(* The seeding order gives every seed one seat.                            *)

Doubled(k, f) ==
  [i \in 1..Pow2[k + 1] |-> IF i % 2 = 1 THEN f[(i + 1) \div 2] ELSE Pow2[k + 1] + 1 - f[i \div 2]]

OneSeat(k, f) ==
  /\ f \in [1..Pow2[k] -> 1..Pow2[k]]
  /\ \A n \in 1..Pow2[k] : \E i \in 1..Pow2[k] : f[i] = n /\ \A j \in 1..Pow2[k] : f[j] = n => j = i

LEMMA DoubledIs ==
  ASSUME NEW k \in Nat, NEW f \in [1..Pow2[k] -> 1..Pow2[k]]
  PROVE  /\ Doubled(k, f) \in [1..Pow2[k + 1] -> 1..Pow2[k + 1]]
         /\ \A j \in 1..Pow2[k] : /\ 2 * j - 1 \in 1..Pow2[k + 1] /\ Doubled(k, f)[2 * j - 1] = f[j]
                                  /\ 2 * j \in 1..Pow2[k + 1]
                                  /\ Doubled(k, f)[2 * j] = Pow2[k + 1] + 1 - f[j]
         /\ \A i \in 1..Pow2[k + 1] : \E j \in 1..Pow2[k] : i = 2 * j - 1 \/ i = 2 * j
<1> DEFINE P == Pow2[k]
           Q == Pow2[k + 1]
           d == Doubled(k, f)
<1>1. P \in Nat /\ Q = 2 * P
  BY PowIs
<1>2. \A i \in 1..Q : \E j \in 1..P : i = 2 * j - 1 \/ i = 2 * j
  <2> TAKE i \in 1..Q
  <2>1. CASE i % 2 = 1
    <3> DEFINE j == (i + 1) \div 2
    <3>1. j \in 1..P /\ i = 2 * j - 1
      BY <1>1, <2>1
    <3> QED BY <3>1
  <2>2. CASE i % 2 # 1
    <3> DEFINE j == i \div 2
    <3>1. j \in 1..P /\ i = 2 * j
      BY <1>1, <2>2
    <3> QED BY <3>1
  <2> QED BY <2>1, <2>2
<1>3. ASSUME NEW j \in 1..P
      PROVE  2 * j - 1 \in 1..Q /\ d[2 * j - 1] = f[j] /\ 2 * j \in 1..Q /\ d[2 * j] = Q + 1 - f[j]
  <2>1. 2 * j - 1 \in 1..Q /\ 2 * j \in 1..Q
    BY <1>1
  <2>2. (2 * j - 1) % 2 = 1 /\ ((2 * j - 1) + 1) \div 2 = j /\ (2 * j) % 2 = 0 /\ (2 * j) \div 2 = j
    BY <1>1
  <2> QED BY <2>1, <2>2 DEF Doubled
<1>4. d \in [1..Q -> 1..Q]
  <2>1. ASSUME NEW i \in 1..Q PROVE d[i] \in 1..Q
    <3>1. PICK j \in 1..P : i = 2 * j - 1 \/ i = 2 * j
      BY <1>2
    <3>2. f[j] \in 1..P /\ d[i] \in {f[j], Q + 1 - f[j]}
      BY <1>3, <3>1
    <3> QED BY <1>1, <3>2
  <2>2. d = [i \in 1..Q |-> d[i]]
    BY DEF Doubled
  <2> HIDE DEF d
  <2> QED BY <2>1, <2>2
<1> QED BY <1>2, <1>3, <1>4

LEMMA DoubledSeats ==
  ASSUME NEW k \in Nat, NEW f, OneSeat(k, f)
  PROVE  OneSeat(k + 1, Doubled(k, f))
<1> DEFINE P == Pow2[k]
           Q == Pow2[k + 1]
           d == Doubled(k, f)
<1>1. P \in Nat /\ Q = 2 * P
  BY PowIs
<1>2. f \in [1..P -> 1..P]
      /\ \A n \in 1..P : \E i \in 1..P : f[i] = n /\ \A j \in 1..P : f[j] = n => j = i
  BY DEF OneSeat
<1>3. d \in [1..Q -> 1..Q]
  BY <1>2, DoubledIs
<1>4. \A j \in 1..P : 2 * j - 1 \in 1..Q /\ d[2 * j - 1] = f[j] /\ 2 * j \in 1..Q
                      /\ d[2 * j] = Q + 1 - f[j] /\ f[j] \in 1..P
  <2>1. \A j \in 1..P : 2 * j - 1 \in 1..Q /\ d[2 * j - 1] = f[j] /\ 2 * j \in 1..Q
                         /\ d[2 * j] = Q + 1 - f[j]
    <3>1. \A j \in 1..Pow2[k] :
            /\ 2 * j - 1 \in 1..Pow2[k + 1] /\ Doubled(k, f)[2 * j - 1] = f[j]
            /\ 2 * j \in 1..Pow2[k + 1]
            /\ Doubled(k, f)[2 * j] = Pow2[k + 1] + 1 - f[j]
      BY <1>2, DoubledIs
    <3> QED BY <3>1
  <2> HIDE DEF d, P, Q
  <2> QED BY <1>2, <2>1
<1>5. \A i \in 1..Q : \E j \in 1..P : i = 2 * j - 1 \/ i = 2 * j
  BY <1>2, DoubledIs
<1> HIDE DEF d, P, Q
<1>6. ASSUME NEW n \in 1..Q
      PROVE  \E i \in 1..Q : d[i] = n /\ \A j \in 1..Q : d[j] = n => j = i
  <2>1. CASE n <= P
    <3>1. n \in 1..P
      BY <1>1, <2>1
    <3>2. PICK i \in 1..P : f[i] = n /\ \A j \in 1..P : f[j] = n => j = i
      BY <1>2, <3>1
    <3>3. ASSUME NEW x \in 1..Q, d[x] = n PROVE x = 2 * i - 1
      <4>1. PICK j \in 1..P : x = 2 * j - 1 \/ x = 2 * j
        BY <1>5
      <4>2. CASE x = 2 * j - 1
        BY <1>4, <3>2, <3>3, <4>2
      <4>3. CASE x = 2 * j
        <5>1. d[x] = Q + 1 - f[j] /\ f[j] \in 1..P
          BY <1>4, <4>3
        <5> QED BY <1>1, <2>1, <3>3, <5>1
      <4> QED BY <4>1, <4>2, <4>3
    <3>4. 2 * i - 1 \in 1..Q /\ d[2 * i - 1] = n
      BY <1>4, <3>2
    <3> QED BY <3>3, <3>4
  <2>2. CASE n > P
    <3>1. Q + 1 - n \in 1..P
      BY <1>1, <2>2
    <3>2. PICK i \in 1..P : f[i] = Q + 1 - n /\ \A j \in 1..P : f[j] = Q + 1 - n => j = i
      BY <1>2, <3>1
    <3>3. ASSUME NEW x \in 1..Q, d[x] = n PROVE x = 2 * i
      <4>1. PICK j \in 1..P : x = 2 * j - 1 \/ x = 2 * j
        BY <1>5
      <4>2. CASE x = 2 * j - 1
        <5>1. d[x] = f[j] /\ f[j] \in 1..P
          BY <1>4, <4>2
        <5> QED BY <1>1, <2>2, <3>3, <5>1
      <4>3. CASE x = 2 * j
        <5>1. d[x] = Q + 1 - f[j] /\ f[j] \in 1..P
          BY <1>4, <4>3
        <5>2. f[j] = Q + 1 - n
          BY <1>1, <3>3, <5>1
        <5> QED BY <3>2, <4>3, <5>2
      <4> QED BY <4>1, <4>2, <4>3
    <3>4. 2 * i \in 1..Q /\ d[2 * i] = n
      <4>1. 2 * i \in 1..Q /\ d[2 * i] = Q + 1 - f[i] /\ f[i] = Q + 1 - n
        BY <1>4, <3>2
      <4> QED BY <1>1, <4>1
    <3> QED BY <3>3, <3>4
  <2> QED BY <1>1, <2>1, <2>2
<1> QED BY <1>3, <1>6 DEF OneSeat, d, Q

LEMMA EverySeedHasASeat ==
  \A k \in Nat : OneSeat(k, SeedOrder[k])
<1> DEFINE V == UNION {[1..Pow2[k] -> 1..Pow2[k]] : k \in Nat}
           base == [i \in {1} |-> 1]
           step == [x \in Nat \X V |->
                      IF x[2] \in [1..Pow2[x[1]] -> 1..Pow2[x[1]]] THEN Doubled(x[1], x[2]) ELSE x[2]]
<1>1. base \in V /\ OneSeat(0, base)
  <2>1. Pow2[0] = 1 /\ 1..1 = {1}
    BY PowIs
  <2>2. base \in [1..Pow2[0] -> 1..Pow2[0]]
    BY <2>1
  <2> QED BY <2>1, <2>2 DEF OneSeat
<1>2. ASSUME NEW n \in Nat, NEW v \in V PROVE step[<<n, v>>] \in V
  <2>1. CASE v \in [1..Pow2[n] -> 1..Pow2[n]]
    <3>1. Doubled(n, v) \in [1..Pow2[n + 1] -> 1..Pow2[n + 1]]
      BY <2>1, DoubledIs
    <3>2. step[<<n, v>>] = Doubled(n, v)
      BY <2>1
    <3> HIDE DEF step
    <3> QED BY <3>1, <3>2
  <2>2. CASE v \notin [1..Pow2[n] -> 1..Pow2[n]]
    BY <2>2
  <2> QED BY <2>1, <2>2
<1>3. \A n \in Nat, v \in V : v \in [1..Pow2[n] -> 1..Pow2[n]] => step[<<n, v>>] = Doubled(n, v)
  OBVIOUS
<1>4. PICK f : Recursive(f, V, base, step)
  <2>1. StaysIn(V, step)
    <3> HIDE DEF V, step
    <3> QED BY <1>2 DEF StaysIn
  <2> HIDE DEF V, step, base
  <2> QED BY <1>1, <2>1, RecursionDefines
<1> HIDE DEF step, V
<1>5. \A n \in Nat : OneSeat(n, f[n])
  <2> DEFINE A == {n \in Nat : OneSeat(n, f[n])}
  <2>1. 0 \in A
    BY <1>1, <1>4 DEF Recursive
  <2>2. ASSUME NEW n \in Nat, n \in A PROVE n + 1 \in A
    <3>1. OneSeat(n, f[n]) /\ f[n] \in V /\ f[n] \in [1..Pow2[n] -> 1..Pow2[n]]
      BY <1>4, <2>2 DEF Recursive, OneSeat
    <3>2. f[n + 1] = Doubled(n, f[n])
      BY <1>3, <1>4, <3>1 DEF Recursive
    <3> QED BY <3>1, <3>2, DoubledSeats
  <2>3. Nat \subseteq A
    <3> HIDE DEF A
    <3> QED BY <2>1, <2>2, Induct
  <2> QED BY <2>3
<1>6. \A n \in Nat : f[n + 1] = Doubled(n, f[n])
  <2> TAKE n \in Nat
  <2>1. f[n] \in V /\ f[n] \in [1..Pow2[n] -> 1..Pow2[n]]
    BY <1>4, <1>5 DEF Recursive, OneSeat
  <2> QED BY <1>3, <1>4, <2>1 DEF Recursive
<1>7. f = [k \in Nat |->
             IF k = 0 THEN [i \in {1} |-> 1]
             ELSE [i \in 1..Pow2[k] |->
                     IF i % 2 = 1 THEN f[k - 1][(i + 1) \div 2] ELSE Pow2[k] + 1 - f[k - 1][i \div 2]]]
  <2>1. f[0] = [i \in {1} |-> 1]
    BY <1>4 DEF Recursive
  <2>2. ASSUME NEW k \in Nat, k # 0
        PROVE  f[k] = [i \in 1..Pow2[k] |-> IF i % 2 = 1 THEN f[k - 1][(i + 1) \div 2]
                                            ELSE Pow2[k] + 1 - f[k - 1][i \div 2]]
    <3>1. k - 1 \in Nat /\ (k - 1) + 1 = k
      BY <2>2
    <3> QED BY <1>6, <3>1 DEF Doubled
  <2>3. f = [k \in Nat |-> f[k]]
    BY <1>4 DEF Recursive
  <2> QED BY <2>1, <2>2, <2>3
<1>8. SeedOrder = [k \in Nat |->
             IF k = 0 THEN [i \in {1} |-> 1]
             ELSE [i \in 1..Pow2[k] |-> IF i % 2 = 1 THEN SeedOrder[k - 1][(i + 1) \div 2]
                                        ELSE Pow2[k] + 1 - SeedOrder[k - 1][i \div 2]]]
  BY <1>7, Zenon DEF SeedOrder
<1>9. \A n \in Nat : SeedOrder[n] = f[n]
  <2> DEFINE A == {n \in Nat : SeedOrder[n] = f[n]}
  <2>1. 0 \in A
    BY <1>4, <1>8 DEF Recursive
  <2>2. ASSUME NEW n \in Nat, n \in A PROVE n + 1 \in A
    <3>1. n + 1 \in Nat /\ n + 1 # 0 /\ (n + 1) - 1 = n
      OBVIOUS
    <3>2. SeedOrder[n + 1] = Doubled(n, SeedOrder[n])
      BY <1>8, <3>1 DEF Doubled
    <3> QED BY <1>6, <2>2, <3>2
  <2>3. Nat \subseteq A
    <3> HIDE DEF A
    <3> QED BY <2>1, <2>2, Induct
  <2> QED BY <2>3
<1> QED BY <1>5, <1>9

-----------------------------------------------------------------------------
(* The sides, what each takes, and the reference each slot goes by.        *)

Seat(p, ab) == IF ab = "a" THEN 2 * p - 1 ELSE 2 * p

LEMMA Seats ==
  ASSUME NEW m \in Nat
  PROVE  /\ \A p \in 1..m, ab \in {"a", "b"} : Seat(p, ab) \in 1..(2 * m)
         /\ \A q \in 1..(2 * m) : \E p \in 1..m, ab \in {"a", "b"} : Seat(p, ab) = q
<1>1. ASSUME NEW q \in 1..(2 * m) PROVE \E p \in 1..m, ab \in {"a", "b"} : Seat(p, ab) = q
  <2>1. CASE q % 2 = 1
    <3> DEFINE p == (q + 1) \div 2
    <3>1. p \in 1..m /\ 2 * p - 1 = q
      BY <2>1
    <3> HIDE DEF p
    <3>2. Seat(p, "a") = q
      BY <3>1 DEF Seat
    <3> QED BY <3>1, <3>2
  <2>2. CASE q % 2 # 1
    <3> DEFINE p == q \div 2
    <3>1. p \in 1..m /\ 2 * p = q
      BY <2>2
    <3> HIDE DEF p
    <3>2. Seat(p, "b") = q
      BY <3>1 DEF Seat
    <3> QED BY <3>1, <3>2
  <2> QED BY <2>1, <2>2
<1>2. \A p \in 1..m, ab \in {"a", "b"} : Seat(p, ab) \in 1..(2 * m)
  BY DEF Seat
<1> QED BY <1>1, <1>2

LEMMA SeatsDiffer ==
  ASSUME NEW p \in Nat, NEW q \in Nat, NEW ab \in {"a", "b"}, NEW cd \in {"a", "b"},
         Seat(p, ab) = Seat(q, cd)
  PROVE  p = q /\ ab = cd
  BY DEF Seat

Slot(o, w, e, r, p) == r \in 0..Final(o, w) /\ p \in 1..Size(o, w, e, r)

LEMMA SlotIs ==
  ASSUME NEW o, NEW w, NEW e, Shaped(o, w, e)
  PROVE  /\ \A r, p : Slot(o, w, e, r, p) => <<r, p>> \in SlotsOf(o)
         /\ \A s \in SlotsOf(o) : \E r, p : Slot(o, w, e, r, p) /\ s = <<r, p>>
  BY SlotsAre DEF Slot

LEMMA SideIs ==
  ASSUME NEW o, NEW w, NEW e, Shaped(o, w, e)
  PROVE  /\ \A r, p : \A ab \in {"a", "b"} :
              Slot(o, w, e, r, p) => <<<<r, p>>, ab>> \in SidesOf(o)
         /\ \A x \in SidesOf(o) : \E r, p : \E ab \in {"a", "b"} :
              Slot(o, w, e, r, p) /\ x = <<<<r, p>>, ab>>
<1>1. ASSUME NEW x \in SidesOf(o)
      PROVE  \E r, p : \E ab \in {"a", "b"} : Slot(o, w, e, r, p) /\ x = <<<<r, p>>, ab>>
  <2>1. PICK s \in SlotsOf(o), ab \in {"a", "b"} : x = <<s, ab>>
    BY DEF SidesOf
  <2>2. PICK r, p : Slot(o, w, e, r, p) /\ s = <<r, p>>
    BY SlotIs
  <2> QED BY <2>1, <2>2
<1> QED BY <1>1, SlotIs DEF SidesOf

LEMMA SizeIs ==
  ASSUME NEW o, NEW w, NEW e, Shaped(o, w, e), NEW r, NEW p, Slot(o, w, e, r, p)
  PROVE  /\ r \in Nat /\ p \in Nat /\ p >= 1
         /\ r = 0 => p \in 1..PlayIns(o)
         /\ r > 0 /\ r <= w => p \in 1..Bouts(w, r)
         /\ r > w /\ r <= w + LbRounds(o) => p \in 1..Chances(e, r - w) /\ r - w \in 1..LbRounds(o)
         /\ r > w + LbRounds(o) => /\ p = 1 /\ o.target = "gold"
                                   /\ \/ r = w + LbRounds(o) + 1
                                      \/ o.reset /\ r = w + LbRounds(o) + 2
<1>1. w \in Nat /\ w >= 1 /\ LbRounds(o) \in Nat /\ Final(o, w) \in Nat /\ r \in 0..Final(o, w)
      /\ Size(o, w, e, r) \in Nat /\ p \in 1..Size(o, w, e, r)
  BY RoundsAre DEF Slot
<1>2. r > w + LbRounds(o) => /\ p = 1 /\ o.target = "gold"
                             /\ \/ r = w + LbRounds(o) + 1
                                \/ o.reset /\ r = w + LbRounds(o) + 2
  <2>1. ASSUME r > w + LbRounds(o)
        PROVE  /\ p = 1 /\ o.target = "gold"
               /\ \/ r = w + LbRounds(o) + 1
                  \/ o.reset /\ r = w + LbRounds(o) + 2
    <3>1. Size(o, w, e, r) = 1
      BY <1>1, <2>1 DEF Size
    <3>2. o.target \in {"gold", "bronze"}
      BY DEF Shaped
    <3>3. o.target = "gold" /\ r \in 0..(w + LbRounds(o) + (IF o.reset THEN 2 ELSE 1))
      BY <1>1, <2>1, <3>2 DEF Final
    <3> QED BY <1>1, <2>1, <3>1, <3>3
  <2> QED BY <2>1
<1>3. r = 0 => p \in 1..PlayIns(o)
  BY <1>1 DEF Size
<1>4. r > 0 /\ r <= w => p \in 1..Bouts(w, r)
  BY <1>1 DEF Size
<1>5. r > w /\ r <= w + LbRounds(o) => p \in 1..Chances(e, r - w) /\ r - w \in 1..LbRounds(o)
  BY <1>1 DEF Size
<1> QED BY <1>1, <1>2, <1>3, <1>4, <1>5

LEMMA SlotOf ==
  ASSUME NEW o, NEW w, NEW e, Shaped(o, w, e), NEW p \in Nat, p >= 1
  PROVE  /\ p <= PlayIns(o) => Slot(o, w, e, 0, p)
         /\ \A r \in 1..w : p <= Bouts(w, r) => Slot(o, w, e, r, p)
         /\ \A k \in 1..LbRounds(o) : p <= Chances(e, k) => Slot(o, w, e, w + k, p)
         /\ o.target = "gold" => Slot(o, w, e, w + LbRounds(o) + 1, 1)
<1>1. w \in Nat /\ w >= 1 /\ LbRounds(o) \in Nat /\ Final(o, w) \in Nat
      /\ \A r \in 0..Final(o, w) : Size(o, w, e, r) \in Nat
  BY RoundsAre
<1>2. Final(o, w) >= w + LbRounds(o) /\ (o.target = "gold" => Final(o, w) >= w + LbRounds(o) + 1)
  BY <1>1 DEF Final
<1>3. p <= PlayIns(o) => Slot(o, w, e, 0, p)
  <2>1. Size(o, w, e, 0) = PlayIns(o) /\ PlayIns(o) \in Int /\ 0 \in 0..Final(o, w)
    BY <1>1 DEF Size, Shaped
  <2> QED BY <2>1 DEF Slot
<1>4. ASSUME NEW r \in 1..w, p <= Bouts(w, r) PROVE Slot(o, w, e, r, p)
  <2>1. Size(o, w, e, r) = Bouts(w, r) /\ r \in 0..Final(o, w) /\ Size(o, w, e, r) \in Nat
    BY <1>1, <1>2 DEF Size
  <2> QED BY <1>4, <2>1 DEF Slot
<1>5. ASSUME NEW k \in 1..LbRounds(o), p <= Chances(e, k) PROVE Slot(o, w, e, w + k, p)
  <2>1. w + k # 0 /\ ~(w + k <= w) /\ w + k <= w + LbRounds(o) /\ (w + k) - w = k /\ w + k \in 0..Final(o, w)
    BY <1>1, <1>2
  <2>2. Size(o, w, e, w + k) = Chances(e, k) /\ Size(o, w, e, w + k) \in Nat
    BY <1>1, <2>1 DEF Size
  <2> QED BY <1>5, <2>1, <2>2 DEF Slot
<1>6. ASSUME o.target = "gold" PROVE Slot(o, w, e, w + LbRounds(o) + 1, 1)
  <2> DEFINE r == w + LbRounds(o) + 1
  <2>1. r # 0 /\ ~(r <= w) /\ ~(r <= w + LbRounds(o)) /\ r \in 0..Final(o, w)
    BY <1>1, <1>2, <1>6
  <2>2. Size(o, w, e, r) = 1
    BY <2>1 DEF Size
  <2> QED BY <2>1, <2>2 DEF Slot
<1> QED BY <1>3, <1>4, <1>5, <1>6

LEMMA SourceIs ==
  ASSUME NEW o, NEW w, NEW e, Shaped(o, w, e), NEW r, NEW p, Slot(o, w, e, r, p),
         NEW ab \in {"a", "b"}
  PROVE  LET src == SourceOf(o, <<r, p>>, ab)
             k   == r - w
             L   == LbRounds(o)
         IN  /\ r = 0 => src = SeedSource(IF ab = "a" THEN ByeSeeds(o) + p ELSE o.fighters - p + 1)
             /\ r = 1 => src = SeatSource(o, Seat(p, ab))
             /\ r > 1 /\ r <= w => src = WinnerRef("WB", r - 1, Seat(p, ab))
             /\ r > w /\ r <= w + L =>
                  /\ k = 1 => src = LoserRef("WB", w + 1 - e, Seat(p, ab))
                  /\ k # 1 /\ k % 2 = 1 => src = WinnerRef("LB", k - 1, Seat(p, ab))
                  /\ k % 2 = 0 /\ ab = "a" => src = WinnerRef("LB", k - 1, p)
                  /\ k % 2 = 0 /\ ab = "b" => src = LoserRef("WB", (w + 1 - e) + (k \div 2), p)
             /\ r = w + L + 1 =>
                  /\ ab = "a" => src = WinnerRef("WB", w, 1)
                  /\ ab = "b" /\ L > 0 => src = WinnerRef("LB", L, 1)
                  /\ ab = "b" /\ L = 0 => src = LoserRef("WB", w, 1)
             /\ r = w + L + 2 =>
                  /\ ab = "a" => src = LoserRef("GF", 0, 0)
                  /\ ab = "b" => src = WinnerRef("GF", 0, 0)
<1> DEFINE src == SourceOf(o, <<r, p>>, ab)
           k   == r - w
           L   == LbRounds(o)
<1>1. w \in Nat /\ w >= 1 /\ L \in Nat /\ r \in Nat /\ FinalRound(o) = w + L + 1
      /\ WbRounds(o) = w /\ EntryRound(o) = w + 1 - e /\ e \in 1..w
  BY RoundsAre, SizeIs DEF Shaped
<1>2. <<r, p>>[1] = r /\ <<r, p>>[2] = p
  OBVIOUS
<1>3. src = IF r <= w THEN WinnersSource(o, r, p, ab)
            ELSE IF r < w + L + 1 THEN LosersSource(o, r - w, p, ab)
            ELSE IF r = w + L + 1 THEN FinalSource(o, ab) ELSE ResetSource(ab)
  BY <1>1, <1>2 DEF SourceOf
<1> HIDE DEF src
<1>4. r = 0 => src = SeedSource(IF ab = "a" THEN ByeSeeds(o) + p ELSE o.fighters - p + 1)
  BY <1>1, <1>3 DEF WinnersSource
<1>5. r = 1 => src = SeatSource(o, Seat(p, ab))
  BY <1>1, <1>3 DEF WinnersSource, Seat
<1>6. r > 1 /\ r <= w => src = WinnerRef("WB", r - 1, Seat(p, ab))
  BY <1>1, <1>3 DEF WinnersSource, Seat
<1>7. ASSUME r > w, r <= w + L
      PROVE  /\ k = 1 => src = LoserRef("WB", w + 1 - e, Seat(p, ab))
             /\ k # 1 /\ k % 2 = 1 => src = WinnerRef("LB", k - 1, Seat(p, ab))
             /\ k % 2 = 0 /\ ab = "a" => src = WinnerRef("LB", k - 1, p)
             /\ k % 2 = 0 /\ ab = "b" => src = LoserRef("WB", (w + 1 - e) + (k \div 2), p)
  <2>1. src = LosersSource(o, k, p, ab) /\ k \in Nat
    BY <1>1, <1>3, <1>7
  <2> HIDE DEF k
  <2>2. k = 1 => src = LoserRef("WB", w + 1 - e, Seat(p, ab))
    BY <1>1, <2>1 DEF LosersSource, Seat
  <2>3. k # 1 /\ k % 2 = 1 => src = WinnerRef("LB", k - 1, Seat(p, ab))
    BY <1>1, <2>1 DEF LosersSource, Seat
  <2>4. k % 2 = 0 /\ ab = "a" => src = WinnerRef("LB", k - 1, p)
    BY <1>1, <2>1 DEF LosersSource
  <2>5. k % 2 = 0 /\ ab = "b" => src = LoserRef("WB", (w + 1 - e) + (k \div 2), p)
    <3>1. ASSUME k % 2 = 0, ab = "b" PROVE src = LoserRef("WB", EntryRound(o) + (k \div 2), p)
      BY <2>1, <3>1 DEF LosersSource
    <3> QED BY <1>1, <3>1
  <2> QED BY <2>2, <2>3, <2>4, <2>5
<1>8. r = w + L + 1 =>
        /\ ab = "a" => src = WinnerRef("WB", w, 1)
        /\ ab = "b" /\ L > 0 => src = WinnerRef("LB", L, 1)
        /\ ab = "b" /\ L = 0 => src = LoserRef("WB", w, 1)
  BY <1>1, <1>3 DEF FinalSource
<1>9. r = w + L + 2 =>
        /\ ab = "a" => src = LoserRef("GF", 0, 0)
        /\ ab = "b" => src = WinnerRef("GF", 0, 0)
  BY <1>1, <1>3 DEF ResetSource
<1> QED BY <1>4, <1>5, <1>6, <1>7, <1>8, <1>9 DEF src

LEMMA RefIs ==
  ASSUME NEW o, NEW w, NEW e, Shaped(o, w, e), NEW r, NEW p, Slot(o, w, e, r, p)
  PROVE  LET ref == SelfRefOf(o, <<r, p>>)
             L   == LbRounds(o)
         IN  /\ r <= w => ref = <<"WB", r, p>>
             /\ r > w /\ r <= w + L => ref = <<"LB", r - w, p>>
             /\ r = w + L + 1 => ref = <<"GF", 0, 0>>
             /\ r = w + L + 2 => ref = <<"GFRESET", 0, 0>>
<1>1. w \in Nat /\ LbRounds(o) \in Nat /\ r \in Nat /\ FinalRound(o) = w + LbRounds(o) + 1
      /\ WbRounds(o) = w
  BY RoundsAre, SizeIs DEF Shaped
<1>2. <<r, p>>[1] = r /\ <<r, p>>[2] = p
  OBVIOUS
<1> QED BY <1>1, <1>2 DEF SelfRefOf

\* No two slots go by the same reference.
LEMMA RefsDiffer ==
  ASSUME NEW o, NEW w, NEW e, Shaped(o, w, e), NEW s \in SlotsOf(o), NEW t \in SlotsOf(o),
         SelfRefOf(o, s) = SelfRefOf(o, t)
  PROVE  s = t
<1> DEFINE L == LbRounds(o)
<1>1. PICK r, p : Slot(o, w, e, r, p) /\ s = <<r, p>>
  BY SlotIs
<1>2. PICK i, q : Slot(o, w, e, i, q) /\ t = <<i, q>>
  BY SlotIs
<1> DEFINE R == SelfRefOf(o, <<r, p>>)
           I == SelfRefOf(o, <<i, q>>)
<1>3. w \in Nat /\ L \in Nat
  BY RoundsAre
<1>4. /\ r \in Nat
      /\ r > w + L => p = 1 /\ (r = w + L + 1 \/ r = w + L + 2)
  BY <1>1, SizeIs
<1>5. /\ i \in Nat
      /\ i > w + L => q = 1 /\ (i = w + L + 1 \/ i = w + L + 2)
  BY <1>2, SizeIs
<1>6. /\ r <= w => R = <<"WB", r, p>>
      /\ r > w /\ r <= w + L => R = <<"LB", r - w, p>>
      /\ r = w + L + 1 => R = <<"GF", 0, 0>>
      /\ r = w + L + 2 => R = <<"GFRESET", 0, 0>>
  BY <1>1, RefIs
<1>7. /\ i <= w => I = <<"WB", i, q>>
      /\ i > w /\ i <= w + L => I = <<"LB", i - w, q>>
      /\ i = w + L + 1 => I = <<"GF", 0, 0>>
      /\ i = w + L + 2 => I = <<"GFRESET", 0, 0>>
  BY <1>2, RefIs
<1>8. R = I
  BY <1>1, <1>2
<1> HIDE DEF R, I, L
<1>9. r = i /\ p = q
  <2>1. CASE r <= w
    BY <1>3, <1>4, <1>5, <1>6, <1>7, <1>8, <2>1
  <2>2. CASE r > w /\ r <= w + L
    BY <1>3, <1>4, <1>5, <1>6, <1>7, <1>8, <2>2
  <2>3. CASE r > w + L
    BY <1>3, <1>4, <1>5, <1>6, <1>7, <1>8, <2>3
  <2> QED BY <1>3, <1>4, <2>1, <2>2, <2>3
<1> QED BY <1>1, <1>2, <1>9

LEMMA SourceParts ==
  /\ \A x1, x2, x3 : WinnerRef(x1, x2, x3).takes = "winner" /\ WinnerRef(x1, x2, x3).ref = <<x1, x2, x3>>
  /\ \A x1, x2, x3 : LoserRef(x1, x2, x3).takes = "loser" /\ LoserRef(x1, x2, x3).ref = <<x1, x2, x3>>
  /\ \A n : SeedSource(n).takes = "seed" /\ SeedSource(n).ref = <<"seed", n, 0>>
  BY DEF WinnerRef, LoserRef, SeedSource

-----------------------------------------------------------------------------
(* Who takes what.                                                         *)

Drawn(w, p, ab) == SeedOrder[w][Seat(p, ab)]

LEMMA SeatIs ==
  ASSUME NEW o, NEW w, NEW e, Shaped(o, w, e), NEW p, NEW ab \in {"a", "b"}
  PROVE  LET n == Drawn(w, p, ab)
         IN  SeatSource(o, Seat(p, ab)) = IF PlayIns(o) > 0 /\ n > ByeSeeds(o)
                                          THEN WinnerRef("WB", 0, n - ByeSeeds(o)) ELSE SeedSource(n)
<1>1. WbRounds(o) = w
  BY DEF Shaped
<1> QED BY <1>1 DEF SeatSource, Drawn

\* The rounds of a slot, one by one.
LEMMA RoundOfSlot ==
  ASSUME NEW o, NEW w, NEW e, Shaped(o, w, e), NEW r, NEW p, Slot(o, w, e, r, p)
  PROVE  \/ r = 0
         \/ r = 1
         \/ r > 1 /\ r <= w
         \/ r > w /\ r <= w + LbRounds(o) /\ r - w = 1
         \/ r > w /\ r <= w + LbRounds(o) /\ r - w # 1 /\ (r - w) % 2 = 1
         \/ r > w /\ r <= w + LbRounds(o) /\ r - w # 1 /\ (r - w) % 2 = 0
         \/ r = w + LbRounds(o) + 1
         \/ r = w + LbRounds(o) + 2
<1>1. w \in Nat /\ LbRounds(o) \in Nat /\ r \in Nat
      /\ (r > w + LbRounds(o) => r = w + LbRounds(o) + 1 \/ r = w + LbRounds(o) + 2)
  BY RoundsAre, SizeIs
<1> QED BY <1>1

LEMMA TakesWinner ==
  ASSUME NEW o, NEW w, NEW e, Shaped(o, w, e), NEW r, NEW p, Slot(o, w, e, r, p),
         NEW ab \in {"a", "b"}, NEW sec, NEW j, NEW m,
         SourceOf(o, <<r, p>>, ab) = WinnerRef(sec, j, m)
  PROVE  \/ /\ sec = "WB" /\ j = 0 /\ r = 1
            /\ PlayIns(o) > 0 /\ Drawn(w, p, ab) > ByeSeeds(o) /\ m = Drawn(w, p, ab) - ByeSeeds(o)
         \/ sec = "WB" /\ j = r - 1 /\ r > 1 /\ r <= w /\ m = Seat(p, ab)
         \/ sec = "WB" /\ j = w /\ r = w + LbRounds(o) + 1 /\ ab = "a" /\ m = 1
         \/ /\ sec = "LB" /\ j = r - w - 1 /\ r > w /\ r <= w + LbRounds(o)
            /\ r - w # 1 /\ (r - w) % 2 = 1 /\ m = Seat(p, ab)
         \/ /\ sec = "LB" /\ j = r - w - 1 /\ r > w /\ r <= w + LbRounds(o)
            /\ (r - w) % 2 = 0 /\ ab = "a" /\ m = p
         \/ sec = "LB" /\ j = LbRounds(o) /\ LbRounds(o) > 0 /\ r = w + LbRounds(o) + 1 /\ ab = "b" /\ m = 1
         \/ sec = "GF" /\ r = w + LbRounds(o) + 2
<1> DEFINE L == LbRounds(o)
           src == SourceOf(o, <<r, p>>, ab)
<1>0. w \in Nat /\ w >= 1 /\ L \in Nat /\ r \in Nat
  BY RoundsAre, SizeIs
<1>9. src = WinnerRef(sec, j, m)
  OBVIOUS
<1>1. CASE r = 0
  <2>1. src = SeedSource(IF ab = "a" THEN ByeSeeds(o) + p ELSE o.fighters - p + 1)
    BY <1>1, SourceIs
  <2> HIDE DEF src
  <2> QED BY <2>1, <1>9, SourceParts
<1>2. CASE r = 1
  <2>1. src = SeatSource(o, Seat(p, ab))
    BY <1>2, SourceIs
  <2>2. src = IF PlayIns(o) > 0 /\ Drawn(w, p, ab) > ByeSeeds(o)
              THEN WinnerRef("WB", 0, Drawn(w, p, ab) - ByeSeeds(o)) ELSE SeedSource(Drawn(w, p, ab))
    BY <2>1, SeatIs
  <2>3. CASE PlayIns(o) > 0 /\ Drawn(w, p, ab) > ByeSeeds(o)
    <3>1. src = WinnerRef("WB", 0, Drawn(w, p, ab) - ByeSeeds(o))
      BY <2>2, <2>3
    <3> HIDE DEF src
    <3> QED BY <1>2, <2>3, <3>1, <1>9, SourceParts
  <2>4. CASE ~(PlayIns(o) > 0 /\ Drawn(w, p, ab) > ByeSeeds(o))
    BY <2>2, <2>4, <1>9, SourceParts
  <2> HIDE DEF src
  <2> QED BY <2>3, <2>4
<1>3. CASE r > 1 /\ r <= w
  <2>1. src = WinnerRef("WB", r - 1, Seat(p, ab))
    BY <1>3, SourceIs
  <2> HIDE DEF src
  <2> QED BY <1>3, <2>1, <1>9, SourceParts
<1>4. CASE r > w /\ r <= w + L /\ r - w = 1
  <2>1. src = LoserRef("WB", w + 1 - e, Seat(p, ab))
    BY <1>4, SourceIs
  <2> HIDE DEF src
  <2> QED BY <2>1, <1>9, SourceParts
<1>5. CASE r > w /\ r <= w + L /\ r - w # 1 /\ (r - w) % 2 = 1
  <2>1. src = WinnerRef("LB", (r - w) - 1, Seat(p, ab))
    BY <1>5, SourceIs
  <2> HIDE DEF src
  <2> QED BY <1>5, <2>1, <1>9, SourceParts
<1>6. CASE r > w /\ r <= w + L /\ r - w # 1 /\ (r - w) % 2 = 0
  <2>1. ab = "a" => src = WinnerRef("LB", (r - w) - 1, p)
    BY <1>6, SourceIs
  <2>2. ab = "b" => src = LoserRef("WB", (w + 1 - e) + ((r - w) \div 2), p)
    BY <1>6, SourceIs
  <2> HIDE DEF src
  <2> QED BY <1>6, <2>1, <2>2, <1>9, SourceParts
<1>7. CASE r = w + L + 1
  <2>1. ab = "a" => src = WinnerRef("WB", w, 1)
    BY <1>7, SourceIs
  <2>2. ab = "b" /\ L > 0 => src = WinnerRef("LB", L, 1)
    BY <1>7, SourceIs
  <2>3. ab = "b" /\ L = 0 => src = LoserRef("WB", w, 1)
    BY <1>7, SourceIs
  <2> HIDE DEF src
  <2> QED BY <1>0, <1>7, <2>1, <2>2, <2>3, <1>9, SourceParts
<1>8. CASE r = w + L + 2
  <2>1. ab = "a" => src = LoserRef("GF", 0, 0)
    BY <1>8, SourceIs
  <2>2. ab = "b" => src = WinnerRef("GF", 0, 0)
    BY <1>8, SourceIs
  <2> HIDE DEF src
  <2> QED BY <1>8, <2>1, <2>2, <1>9, SourceParts
<1> QED BY <1>1, <1>2, <1>3, <1>4, <1>5, <1>6, <1>7, <1>8, RoundOfSlot

LEMMA TakesLoser ==
  ASSUME NEW o, NEW w, NEW e, Shaped(o, w, e), NEW r, NEW p, Slot(o, w, e, r, p),
         NEW ab \in {"a", "b"}, NEW sec, NEW j, NEW m,
         SourceOf(o, <<r, p>>, ab) = LoserRef(sec, j, m)
  PROVE  \/ /\ sec = "WB" /\ j = w + 1 - e /\ r = w + 1 /\ r <= w + LbRounds(o) /\ m = Seat(p, ab)
         \/ /\ sec = "WB" /\ j = (w + 1 - e) + ((r - w) \div 2) /\ r > w /\ r <= w + LbRounds(o)
            /\ (r - w) % 2 = 0 /\ ab = "b" /\ m = p
         \/ sec = "WB" /\ j = w /\ LbRounds(o) = 0 /\ r = w + 1 /\ ab = "b" /\ m = 1
         \/ sec = "GF" /\ r = w + LbRounds(o) + 2
<1> DEFINE L == LbRounds(o)
           src == SourceOf(o, <<r, p>>, ab)
<1>0. w \in Nat /\ w >= 1 /\ L \in Nat /\ r \in Nat
  BY RoundsAre, SizeIs
<1>9. src = LoserRef(sec, j, m)
  OBVIOUS
<1>1. CASE r = 0
  <2>1. src = SeedSource(IF ab = "a" THEN ByeSeeds(o) + p ELSE o.fighters - p + 1)
    BY <1>1, SourceIs
  <2> HIDE DEF src
  <2> QED BY <2>1, <1>9, SourceParts
<1>2. CASE r = 1
  <2>1. src = SeatSource(o, Seat(p, ab))
    BY <1>2, SourceIs
  <2>2. src = IF PlayIns(o) > 0 /\ Drawn(w, p, ab) > ByeSeeds(o)
              THEN WinnerRef("WB", 0, Drawn(w, p, ab) - ByeSeeds(o)) ELSE SeedSource(Drawn(w, p, ab))
    BY <2>1, SeatIs
  <2> HIDE DEF src
  <2> QED BY <2>2, <1>9, SourceParts
<1>3. CASE r > 1 /\ r <= w
  <2>1. src = WinnerRef("WB", r - 1, Seat(p, ab))
    BY <1>3, SourceIs
  <2> HIDE DEF src
  <2> QED BY <2>1, <1>9, SourceParts
<1>4. CASE r > w /\ r <= w + L /\ r - w = 1
  <2>1. src = LoserRef("WB", w + 1 - e, Seat(p, ab))
    BY <1>4, SourceIs
  <2>2. r = w + 1
    BY <1>0, <1>4
  <2> HIDE DEF src
  <2> QED BY <1>4, <2>1, <2>2, <1>9, SourceParts
<1>5. CASE r > w /\ r <= w + L /\ r - w # 1 /\ (r - w) % 2 = 1
  <2>1. src = WinnerRef("LB", (r - w) - 1, Seat(p, ab))
    BY <1>5, SourceIs
  <2> HIDE DEF src
  <2> QED BY <2>1, <1>9, SourceParts
<1>6. CASE r > w /\ r <= w + L /\ r - w # 1 /\ (r - w) % 2 = 0
  <2>1. ab = "a" => src = WinnerRef("LB", (r - w) - 1, p)
    BY <1>6, SourceIs
  <2>2. ab = "b" => src = LoserRef("WB", (w + 1 - e) + ((r - w) \div 2), p)
    BY <1>6, SourceIs
  <2> HIDE DEF src
  <2> QED BY <1>6, <2>1, <2>2, <1>9, SourceParts
<1>7. CASE r = w + L + 1
  <2>1. ab = "a" => src = WinnerRef("WB", w, 1)
    BY <1>7, SourceIs
  <2>2. ab = "b" /\ L > 0 => src = WinnerRef("LB", L, 1)
    BY <1>7, SourceIs
  <2>3. ab = "b" /\ L = 0 => src = LoserRef("WB", w, 1)
    BY <1>7, SourceIs
  <2>4. L > 0 \/ L = 0
    BY <1>0
  <2>5. L = 0 => r = w + 1
    BY <1>0, <1>7
  <2> HIDE DEF src
  <2> QED BY <1>7, <2>1, <2>2, <2>3, <2>4, <2>5, <1>9, SourceParts
<1>8. CASE r = w + L + 2
  <2>1. ab = "a" => src = LoserRef("GF", 0, 0)
    BY <1>8, SourceIs
  <2>2. ab = "b" => src = WinnerRef("GF", 0, 0)
    BY <1>8, SourceIs
  <2> HIDE DEF src
  <2> QED BY <1>8, <2>1, <2>2, <1>9, SourceParts
<1> QED BY <1>1, <1>2, <1>3, <1>4, <1>5, <1>6, <1>7, <1>8, RoundOfSlot

LEMMA TakesSeed ==
  ASSUME NEW o, NEW w, NEW e, Shaped(o, w, e), NEW r, NEW p, Slot(o, w, e, r, p),
         NEW ab \in {"a", "b"}, NEW n, SourceOf(o, <<r, p>>, ab) = SeedSource(n)
  PROVE  \/ r = 0 /\ n = IF ab = "a" THEN ByeSeeds(o) + p ELSE o.fighters - p + 1
         \/ r = 1 /\ n = Drawn(w, p, ab) /\ ~(PlayIns(o) > 0 /\ n > ByeSeeds(o))
<1> DEFINE L == LbRounds(o)
           src == SourceOf(o, <<r, p>>, ab)
<1>0. w \in Nat /\ w >= 1 /\ L \in Nat /\ r \in Nat
  BY RoundsAre, SizeIs
<1>9. src = SeedSource(n)
  OBVIOUS
<1>1. CASE r = 0
  <2>1. src = SeedSource(IF ab = "a" THEN ByeSeeds(o) + p ELSE o.fighters - p + 1)
    BY <1>1, SourceIs
  <2> HIDE DEF src
  <2> QED BY <1>1, <2>1, <1>9, SourceParts
<1>2. CASE r = 1
  <2>1. src = SeatSource(o, Seat(p, ab))
    BY <1>2, SourceIs
  <2>2. src = IF PlayIns(o) > 0 /\ Drawn(w, p, ab) > ByeSeeds(o)
              THEN WinnerRef("WB", 0, Drawn(w, p, ab) - ByeSeeds(o)) ELSE SeedSource(Drawn(w, p, ab))
    BY <2>1, SeatIs
  <2> HIDE DEF src
  <2> QED BY <1>2, <2>2, <1>9, SourceParts
<1>3. CASE r > 1 /\ r <= w
  <2>1. src = WinnerRef("WB", r - 1, Seat(p, ab))
    BY <1>3, SourceIs
  <2> HIDE DEF src
  <2> QED BY <2>1, <1>9, SourceParts
<1>4. CASE r > w /\ r <= w + L /\ r - w = 1
  <2>1. src = LoserRef("WB", w + 1 - e, Seat(p, ab))
    BY <1>4, SourceIs
  <2> HIDE DEF src
  <2> QED BY <2>1, <1>9, SourceParts
<1>5. CASE r > w /\ r <= w + L /\ r - w # 1 /\ (r - w) % 2 = 1
  <2>1. src = WinnerRef("LB", (r - w) - 1, Seat(p, ab))
    BY <1>5, SourceIs
  <2> HIDE DEF src
  <2> QED BY <2>1, <1>9, SourceParts
<1>6. CASE r > w /\ r <= w + L /\ r - w # 1 /\ (r - w) % 2 = 0
  <2>1. ab = "a" => src = WinnerRef("LB", (r - w) - 1, p)
    BY <1>6, SourceIs
  <2>2. ab = "b" => src = LoserRef("WB", (w + 1 - e) + ((r - w) \div 2), p)
    BY <1>6, SourceIs
  <2> HIDE DEF src
  <2> QED BY <2>1, <2>2, <1>9, SourceParts
<1>7. CASE r = w + L + 1
  <2>1. ab = "a" => src = WinnerRef("WB", w, 1)
    BY <1>7, SourceIs
  <2>2. ab = "b" /\ L > 0 => src = WinnerRef("LB", L, 1)
    BY <1>7, SourceIs
  <2>3. ab = "b" /\ L = 0 => src = LoserRef("WB", w, 1)
    BY <1>7, SourceIs
  <2>4. L > 0 \/ L = 0
    BY <1>0
  <2> HIDE DEF src
  <2> QED BY <2>1, <2>2, <2>3, <2>4, <1>9, SourceParts
<1>8. CASE r = w + L + 2
  <2>1. ab = "a" => src = LoserRef("GF", 0, 0)
    BY <1>8, SourceIs
  <2>2. ab = "b" => src = WinnerRef("GF", 0, 0)
    BY <1>8, SourceIs
  <2> HIDE DEF src
  <2> QED BY <2>1, <2>2, <1>9, SourceParts
<1> QED BY <1>1, <1>2, <1>3, <1>4, <1>5, <1>6, <1>7, <1>8, RoundOfSlot

-----------------------------------------------------------------------------
(* Every winner but the last, every loser with a second chance and every   *)
(* seed has one side to go to.                                             *)

TakenOnce(o, src) ==
  \E x \in SidesOf(o) : /\ SourceOf(o, x[1], x[2]) = src
                        /\ \A y \in SidesOf(o) : SourceOf(o, y[1], y[2]) = src => y = x

Untaken(o, src) == \A y \in SidesOf(o) : SourceOf(o, y[1], y[2]) # src

LEMMA TakenBy ==
  ASSUME NEW o, NEW w, NEW e, Shaped(o, w, e), NEW src, NEW r, NEW p, NEW ab \in {"a", "b"},
         Slot(o, w, e, r, p), SourceOf(o, <<r, p>>, ab) = src,
         ASSUME NEW i, NEW q, NEW cd \in {"a", "b"}, Slot(o, w, e, i, q),
                SourceOf(o, <<i, q>>, cd) = src
         PROVE  i = r /\ q = p /\ cd = ab
  PROVE  TakenOnce(o, src)
<1> DEFINE x == <<<<r, p>>, ab>>
<1>1. x \in SidesOf(o) /\ SourceOf(o, x[1], x[2]) = src
  BY SideIs
<1>2. ASSUME NEW y \in SidesOf(o), SourceOf(o, y[1], y[2]) = src PROVE y = x
  <2>1. PICK i, q : \E cd \in {"a", "b"} : Slot(o, w, e, i, q) /\ y = <<<<i, q>>, cd>>
    BY SideIs
  <2>2. PICK cd \in {"a", "b"} : Slot(o, w, e, i, q) /\ y = <<<<i, q>>, cd>>
    BY <2>1
  <2>3. SourceOf(o, <<i, q>>, cd) = src
    BY <1>2, <2>2
  <2>4. i = r /\ q = p /\ cd = ab
    BY <2>2, <2>3
  <2> QED BY <2>2, <2>4
<1> QED BY <1>1, <1>2 DEF TakenOnce

LEMMA UntakenBy ==
  ASSUME NEW o, NEW w, NEW e, Shaped(o, w, e), NEW src,
         ASSUME NEW i, NEW q, NEW cd \in {"a", "b"}, Slot(o, w, e, i, q),
                SourceOf(o, <<i, q>>, cd) = src
         PROVE  FALSE
  PROVE  Untaken(o, src)
<1>1. ASSUME NEW y \in SidesOf(o), SourceOf(o, y[1], y[2]) = src PROVE FALSE
  <2>1. PICK i, q : \E cd \in {"a", "b"} : Slot(o, w, e, i, q) /\ y = <<<<i, q>>, cd>>
    BY SideIs
  <2>2. PICK cd \in {"a", "b"} : Slot(o, w, e, i, q) /\ y = <<<<i, q>>, cd>>
    BY <2>1
  <2>3. SourceOf(o, <<i, q>>, cd) = src
    BY <1>1, <2>2
  <2> QED BY <2>2, <2>3
<1> QED BY <1>1 DEF Untaken

\* A round of the winners' bracket has two seats for each bout of the next.
LEMMA BoutsHalve ==
  ASSUME NEW w \in Nat, NEW r \in Nat, r < w
  PROVE  Bouts(w, r) = 2 * Bouts(w, r + 1) /\ Bouts(w, r + 1) \in Nat
<1>1. w - (r + 1) \in Nat /\ (w - (r + 1)) + 1 = w - r
  OBVIOUS
<1>2. Pow2[(w - (r + 1)) + 1] = 2 * Pow2[w - (r + 1)] /\ Pow2[w - (r + 1)] \in Nat
  BY <1>1, PowIs
<1> QED BY <1>1, <1>2 DEF Bouts

LEMMA DrawnIs ==
  ASSUME NEW w \in Nat, w >= 1
  PROVE  /\ Bouts(w, 1) \in Nat /\ Pow2[w] = 2 * Bouts(w, 1) /\ Pow2[w] \in Nat
         /\ \A q \in 1..Bouts(w, 1), cd \in {"a", "b"} :
              Seat(q, cd) \in 1..Pow2[w] /\ Drawn(w, q, cd) \in 1..Pow2[w]
<1>1. Bouts(w, 1) \in Nat /\ Pow2[w] = 2 * Bouts(w, 1)
  <2>1. Bouts(w, 0) = 2 * Bouts(w, 0 + 1) /\ Bouts(w, 0 + 1) \in Nat
    BY BoutsHalve
  <2>2. w - 0 = w /\ 0 + 1 = 1
    OBVIOUS
  <2>3. Bouts(w, 0) = Pow2[w]
    BY <2>2 DEF Bouts
  <2> QED BY <2>1, <2>2, <2>3
<1>2. SeedOrder[w] \in [1..Pow2[w] -> 1..Pow2[w]]
  BY EverySeedHasASeat DEF OneSeat
<1>3. \A q \in 1..Bouts(w, 1), cd \in {"a", "b"} : Seat(q, cd) \in 1..Pow2[w]
  BY <1>1, Seats
<1> QED BY <1>1, <1>2, <1>3 DEF Drawn

\* The seat of round 1 a seed has.
LEMMA SeatOfSeed ==
  ASSUME NEW o, NEW w, NEW e, Shaped(o, w, e), NEW n \in 1..Pow2[w]
  PROVE  \E p \in 1..Bouts(w, 1), ab \in {"a", "b"} :
           /\ Slot(o, w, e, 1, p) /\ Drawn(w, p, ab) = n
           /\ \A q \in 1..Bouts(w, 1), cd \in {"a", "b"} : Drawn(w, q, cd) = n => q = p /\ cd = ab
<1>1. w \in Nat /\ w >= 1
  BY RoundsAre
<1>2. Bouts(w, 1) \in Nat /\ Pow2[w] = 2 * Bouts(w, 1)
  BY <1>1, DrawnIs
<1>3. PICK i \in 1..Pow2[w] : SeedOrder[w][i] = n /\ \A j \in 1..Pow2[w] : SeedOrder[w][j] = n => j = i
  <2>1. OneSeat(w, SeedOrder[w])
    BY <1>1, EverySeedHasASeat
  <2> QED BY <2>1 DEF OneSeat
<1>4. PICK p \in 1..Bouts(w, 1), ab \in {"a", "b"} : Seat(p, ab) = i
  BY <1>2, Seats
<1>5. ASSUME NEW q \in 1..Bouts(w, 1), NEW cd \in {"a", "b"}, Drawn(w, q, cd) = n
      PROVE  q = p /\ cd = ab
  <2>1. Seat(q, cd) \in 1..Pow2[w]
    BY <1>2, Seats
  <2>2. Seat(q, cd) = Seat(p, ab)
    BY <1>3, <1>4, <1>5, <2>1 DEF Drawn
  <2>3. q \in Nat /\ p \in Nat
    BY <1>2
  <2> QED BY <2>2, <2>3, SeatsDiffer
<1>6. Slot(o, w, e, 1, p)
  <2>1. 1 \in 1..w /\ p \in Nat /\ p >= 1 /\ p <= Bouts(w, 1)
    BY <1>1, <1>2
  <2> QED BY <2>1, SlotOf
<1> QED BY <1>3, <1>4, <1>5, <1>6 DEF Drawn

LEMMA PlayInsAre ==
  ASSUME NEW o, NEW w, NEW e, Shaped(o, w, e)
  PROVE  /\ w \in Nat /\ w >= 1 /\ PlayIns(o) \in Nat /\ Pow2[w] \in Nat /\ PlayIns(o) <= Pow2[w]
         /\ ByeSeeds(o) \in Nat /\ o.fighters = Pow2[w] + PlayIns(o)
         /\ PlayIns(o) > 0 => ByeSeeds(o) = Pow2[w] - PlayIns(o)
         /\ PlayIns(o) = 0 => ByeSeeds(o) = 0
<1>1. w \in Nat /\ w >= 1
  BY RoundsAre
<1>2. Pow2[w] \in Nat
  BY <1>1, PowIs
<1>3. PlayIns(o) \in 0..Pow2[w] /\ o.fighters = Pow2[w] + PlayIns(o) /\ o.size = Pow2[w]
  BY DEF Shaped
<1>4. ByeSeeds(o) = IF PlayIns(o) > 0 THEN Pow2[w] - PlayIns(o) ELSE 0
  BY <1>3 DEF ByeSeeds
<1> QED BY <1>1, <1>2, <1>3, <1>4

LEMMA PlayInWinner ==
  ASSUME NEW o, NEW w, NEW e, Shaped(o, w, e), NEW m \in 1..PlayIns(o)
  PROVE  TakenOnce(o, WinnerRef("WB", 0, m))
<1> DEFINE src == WinnerRef("WB", 0, m)
           n == ByeSeeds(o) + m
<1>1. w \in Nat /\ w >= 1 /\ PlayIns(o) > 0 /\ ByeSeeds(o) \in Nat /\ n \in 1..Pow2[w]
      /\ n > ByeSeeds(o) /\ n - ByeSeeds(o) = m /\ m \in Nat /\ m >= 1
  BY PlayInsAre
<1>2. PICK p \in 1..Bouts(w, 1), ab \in {"a", "b"} :
        /\ Slot(o, w, e, 1, p) /\ Drawn(w, p, ab) = n
        /\ \A q \in 1..Bouts(w, 1), cd \in {"a", "b"} : Drawn(w, q, cd) = n => q = p /\ cd = ab
  BY <1>1, SeatOfSeed
<1>3. SourceOf(o, <<1, p>>, ab) = src
  <2>1. SourceOf(o, <<1, p>>, ab) = SeatSource(o, Seat(p, ab))
    BY <1>2, SourceIs
  <2>2. SeatSource(o, Seat(p, ab)) = IF PlayIns(o) > 0 /\ n > ByeSeeds(o)
                                     THEN WinnerRef("WB", 0, n - ByeSeeds(o)) ELSE SeedSource(n)
    <3> HIDE DEF n
    <3> QED BY <1>2, SeatIs
  <2> HIDE DEF n
  <2> QED BY <1>1, <2>1, <2>2
<1>4. ASSUME NEW i, NEW q, NEW cd \in {"a", "b"}, Slot(o, w, e, i, q), SourceOf(o, <<i, q>>, cd) = src
      PROVE  i = 1 /\ q = p /\ cd = ab
  <2>1. i = 1 /\ Drawn(w, q, cd) > ByeSeeds(o) /\ m = Drawn(w, q, cd) - ByeSeeds(o)
    <3>1. i \in Nat
      BY <1>4, SizeIs
    <3>2. "WB" # "LB" /\ "WB" # "GF"
      OBVIOUS
    <3>0. SourceOf(o, <<i, q>>, cd) = WinnerRef("WB", 0, m)
      BY <1>4
    <3>3. \/ i = 1 /\ Drawn(w, q, cd) > ByeSeeds(o) /\ m = Drawn(w, q, cd) - ByeSeeds(o)
          \/ 0 = i - 1 /\ i > 1
          \/ 0 = w
      <4> HIDE DEF src, n
      <4> DEFINE j == 0
      <4>1. SourceOf(o, <<i, q>>, cd) = WinnerRef("WB", j, m)
        BY <3>0
      <4> HIDE DEF j
      <4>2. \/ j = 0 /\ i = 1 /\ Drawn(w, q, cd) > ByeSeeds(o) /\ m = Drawn(w, q, cd) - ByeSeeds(o)
            \/ j = i - 1 /\ i > 1
            \/ j = w
        BY <1>4, <3>2, <4>1, TakesWinner
      <4> QED BY <4>2 DEF j
    <3> QED BY <1>1, <3>1, <3>3
  <2>2. q \in 1..Bouts(w, 1)
    BY <1>1, <1>4, <2>1, SizeIs
  <2>3. Drawn(w, q, cd) \in Nat
    <3>1. Drawn(w, q, cd) \in 1..Pow2[w] /\ Pow2[w] \in Nat
      BY <1>1, <2>2, DrawnIs
    <3> QED BY <3>1
  <2>4. Drawn(w, q, cd) = n
    BY <1>1, <2>1, <2>3
  <2> HIDE DEF n
  <2> QED BY <1>2, <2>1, <2>2, <2>4
<1> HIDE DEF src
<1> QED BY <1>2, <1>3, <1>4, TakenBy DEF src

LEMMA WinnersWinner ==
  ASSUME NEW o, NEW w, NEW e, Shaped(o, w, e), NEW r \in 1..w, r < w, NEW m \in 1..Bouts(w, r)
  PROVE  TakenOnce(o, WinnerRef("WB", r, m))
<1> DEFINE src == WinnerRef("WB", r, m)
           z   == r + 1
<1>1. w \in Nat /\ w >= 1 /\ r \in Nat /\ r + 1 \in 1..w /\ r + 1 > 1 /\ (r + 1) - 1 = r /\ r # 0 /\ r # w
  BY RoundsAre
<1>2. Bouts(w, r) = 2 * Bouts(w, r + 1) /\ Bouts(w, r + 1) \in Nat
  BY <1>1, BoutsHalve
<1>3. PICK p \in 1..Bouts(w, r + 1), ab \in {"a", "b"} : Seat(p, ab) = m
  BY <1>2, Seats
<1>4. Slot(o, w, e, z, p) /\ p \in Nat
  <2>1. p \in Nat /\ p >= 1 /\ p <= Bouts(w, r + 1)
    BY <1>2
  <2> QED BY <1>1, <2>1, SlotOf
<1>5. SourceOf(o, <<z, p>>, ab) = src
  <2>1. SourceOf(o, <<r + 1, p>>, ab) = WinnerRef("WB", (r + 1) - 1, Seat(p, ab))
    BY <1>1, <1>4, SourceIs
  <2> QED BY <1>1, <1>3, <2>1
<1>6. ASSUME NEW i, NEW q, NEW cd \in {"a", "b"}, Slot(o, w, e, i, q), SourceOf(o, <<i, q>>, cd) = src
      PROVE  i = z /\ q = p /\ cd = ab
  <2>1. i \in Nat /\ q \in Nat
    BY <1>6, SizeIs
  <2>2. "WB" # "LB" /\ "WB" # "GF"
    OBVIOUS
  <2>3. r = i - 1 /\ m = Seat(q, cd)
    BY <1>1, <1>6, <2>2, TakesWinner
  <2> QED BY <1>1, <1>3, <1>4, <2>1, <2>3, SeatsDiffer
<1> HIDE DEF src, z
<1> QED BY <1>4, <1>5, <1>6, TakenBy DEF src

LEMMA WinnersLast ==
  ASSUME NEW o, NEW w, NEW e, Shaped(o, w, e), o.target = "gold"
  PROVE  TakenOnce(o, WinnerRef("WB", w, 1))
<1> DEFINE src == WinnerRef("WB", w, 1)
           r   == w + LbRounds(o) + 1
<1>1. w \in Nat /\ w >= 1 /\ LbRounds(o) \in Nat
  BY RoundsAre
<1>2. Slot(o, w, e, r, 1)
  <2>1. 1 \in Nat /\ 1 >= 1
    OBVIOUS
  <2> QED BY <2>1, SlotOf
<1>3. SourceOf(o, <<r, 1>>, "a") = src
  BY <1>2, SourceIs
<1>4. ASSUME NEW i, NEW q, NEW cd \in {"a", "b"}, Slot(o, w, e, i, q), SourceOf(o, <<i, q>>, cd) = src
      PROVE  i = r /\ q = 1 /\ cd = "a"
  <2>1. i \in Nat /\ (i > w + LbRounds(o) => q = 1)
    BY <1>4, SizeIs
  <2>2. "WB" # "LB" /\ "WB" # "GF"
    OBVIOUS
  <2>3. i = r /\ cd = "a"
    BY <1>1, <1>4, <2>1, <2>2, TakesWinner
  <2> QED BY <1>1, <2>1, <2>3
<1> HIDE DEF src, r
<1>5. "a" \in {"a", "b"}
  OBVIOUS
<1> QED BY <1>2, <1>3, <1>4, <1>5, TakenBy DEF src

LEMMA LosersWinner ==
  ASSUME NEW o, NEW w, NEW e, Shaped(o, w, e), NEW k \in 1..LbRounds(o), k < LbRounds(o),
         NEW m \in 1..Chances(e, k)
  PROVE  TakenOnce(o, WinnerRef("LB", k, m))
<1> DEFINE src == WinnerRef("LB", k, m)
           L   == LbRounds(o)
           r   == w + (k + 1)
<1>1. w \in Nat /\ w >= 1 /\ L \in Nat /\ k \in Nat /\ k + 1 \in 1..L /\ k + 1 # 1 /\ (k + 1) - 1 = k
      /\ r - w = k + 1 /\ r > w /\ r <= w + L
  BY RoundsAre
<1>2. Chances(e, k) \in Nat /\ Chances(e, k + 1) \in Nat
  BY <1>1, ChancesAre
<1>3. "WB" # "LB" /\ "LB" # "GF"
  OBVIOUS
<1>4. CASE k % 2 = 0
  <2>1. (k + 1) % 2 = 1
    BY <1>1, <1>4
  <2>2. Chances(e, k) = 2 * Chances(e, k + 1)
    BY <1>1, <2>1, ChancesMeet
  <2>3. PICK p \in 1..Chances(e, k + 1), ab \in {"a", "b"} : Seat(p, ab) = m
    BY <1>2, <2>2, Seats
  <2>4. Slot(o, w, e, r, p) /\ p \in Nat
    <3>1. p \in Nat /\ p >= 1 /\ p <= Chances(e, k + 1)
      BY <1>2
    <3> QED BY <1>1, <3>1, SlotOf
  <2>5. SourceOf(o, <<r, p>>, ab) = src
    <3>1. r - w # 1 /\ (r - w) % 2 = 1
      BY <1>1, <2>1
    <3>2. SourceOf(o, <<r, p>>, ab) = WinnerRef("LB", (r - w) - 1, Seat(p, ab))
      <4> HIDE DEF r
      <4> QED BY <1>1, <2>4, <3>1, SourceIs
    <3>3. (r - w) - 1 = k
      BY <1>1
    <3> HIDE DEF r
    <3> QED BY <2>3, <3>2, <3>3
  <2>6. ASSUME NEW i, NEW q, NEW cd \in {"a", "b"}, Slot(o, w, e, i, q), SourceOf(o, <<i, q>>, cd) = src
        PROVE  i = r /\ q = p /\ cd = ab
    <3>1. i \in Nat /\ q \in Nat
      BY <2>6, SizeIs
    <3>2. k = i - w - 1 /\ m = Seat(q, cd)
      <4>1. /\ k = i - w - 1
            /\ m = Seat(q, cd) \/ (i - w) % 2 = 0
        BY <1>1, <1>3, <2>6, TakesWinner
      <4>2. i - w = k + 1
        BY <1>1, <3>1, <4>1
      <4> QED BY <2>1, <4>1, <4>2
    <3> QED BY <1>1, <2>3, <2>4, <3>1, <3>2, SeatsDiffer
  <2> HIDE DEF src, r
  <2> QED BY <2>4, <2>5, <2>6, TakenBy DEF src
<1>5. CASE k % 2 # 0
  <2>1. (k + 1) % 2 = 0
    BY <1>1, <1>5
  <2>2. Chances(e, k) = Chances(e, k + 1)
    BY <1>1, <2>1, ChancesMeet
  <2>4. Slot(o, w, e, r, m)
    <3>1. m \in Nat /\ m >= 1 /\ m <= Chances(e, k + 1)
      BY <1>2, <2>2
    <3> QED BY <1>1, <3>1, SlotOf
  <2>5. SourceOf(o, <<r, m>>, "a") = src
    <3>1. (r - w) % 2 = 0
      BY <1>1, <2>1
    <3>2. SourceOf(o, <<r, m>>, "a") = WinnerRef("LB", (r - w) - 1, m)
      <4> HIDE DEF r
      <4> QED BY <1>1, <2>4, <3>1, SourceIs
    <3>3. (r - w) - 1 = k
      BY <1>1
    <3> HIDE DEF r
    <3> QED BY <3>2, <3>3
  <2>6. ASSUME NEW i, NEW q, NEW cd \in {"a", "b"}, Slot(o, w, e, i, q), SourceOf(o, <<i, q>>, cd) = src
        PROVE  i = r /\ q = m /\ cd = "a"
    <3>1. i \in Nat /\ q \in Nat
      BY <2>6, SizeIs
    <3>2. k = i - w - 1 /\ m = q /\ cd = "a"
      <4>1. /\ k = i - w - 1
            /\ (m = q /\ cd = "a") \/ (i - w) % 2 = 1
        BY <1>1, <1>3, <2>6, TakesWinner
      <4>2. i - w = k + 1
        BY <1>1, <3>1, <4>1
      <4> QED BY <2>1, <4>1, <4>2
    <3> QED BY <1>1, <3>1, <3>2
  <2>7. "a" \in {"a", "b"}
    OBVIOUS
  <2> HIDE DEF src, r
  <2> QED BY <2>4, <2>5, <2>6, <2>7, TakenBy DEF src
<1> QED BY <1>4, <1>5

LEMMA LosersLast ==
  ASSUME NEW o, NEW w, NEW e, Shaped(o, w, e), o.target = "gold", LbRounds(o) > 0
  PROVE  TakenOnce(o, WinnerRef("LB", LbRounds(o), 1))
<1> DEFINE L   == LbRounds(o)
           src == WinnerRef("LB", L, 1)
           r   == w + L + 1
<1>1. w \in Nat /\ w >= 1 /\ L \in Nat
  BY RoundsAre
<1>2. Slot(o, w, e, r, 1)
  <2>1. 1 \in Nat /\ 1 >= 1
    OBVIOUS
  <2> QED BY <2>1, SlotOf
<1>3. SourceOf(o, <<r, 1>>, "b") = src
  BY <1>2, SourceIs
<1>4. ASSUME NEW i, NEW q, NEW cd \in {"a", "b"}, Slot(o, w, e, i, q), SourceOf(o, <<i, q>>, cd) = src
      PROVE  i = r /\ q = 1 /\ cd = "b"
  <2>1. i \in Nat /\ (i > w + L => q = 1)
    BY <1>4, SizeIs
  <2>2. "WB" # "LB" /\ "LB" # "GF"
    OBVIOUS
  <2>3. i = r /\ cd = "b"
    <3>1. (L = i - w - 1 /\ i <= w + L) \/ (i = r /\ cd = "b")
      BY <1>4, <2>2, TakesWinner
    <3> QED BY <1>1, <2>1, <3>1
  <2> QED BY <1>1, <2>1, <2>3
<1> HIDE DEF src, r
<1>5. "b" \in {"a", "b"}
  OBVIOUS
<1> QED BY <1>2, <1>3, <1>4, <1>5, TakenBy DEF src

\* A loser from the entry round on, unless it is the final's for bronze.
Again(o, w, e, r) == r >= w + 1 - e /\ r # 0 /\ r <= (IF o.target = "gold" THEN w ELSE w - 1)

LEMMA WinnersLoser ==
  ASSUME NEW o, NEW w, NEW e, Shaped(o, w, e), NEW r \in 1..w, Again(o, w, e, r),
         NEW m \in 1..Bouts(w, r)
  PROVE  TakenOnce(o, LoserRef("WB", r, m))
<1> DEFINE src == LoserRef("WB", r, m)
           L   == LbRounds(o)
           d   == r - (w + 1 - e)
<1>1. w \in Nat /\ w >= 1 /\ L \in Nat /\ e \in 1..w /\ d \in Nat /\ r = (w + 1 - e) + d /\ r \in Nat
  BY RoundsAre DEF Shaped, Again
<1>2. "WB" # "GF"
  OBVIOUS
<1>3. CASE d = 0 /\ L > 0
  <2> DEFINE z == w + 1
  <2>1. z > w /\ z <= w + L /\ z - w = 1 /\ 1 \in 1..L /\ r = w + 1 - e
    BY <1>1, <1>3
  <2>2. Bouts(w, r) = 2 * Chances(e, 1) /\ Chances(e, 1) \in Nat
    BY <2>1, ChancesAre, ChancesMeet
  <2>3. PICK p \in 1..Chances(e, 1), ab \in {"a", "b"} : Seat(p, ab) = m
    BY <2>2, Seats
  <2>4. Slot(o, w, e, z, p) /\ p \in Nat
    <3>1. p \in Nat /\ p >= 1 /\ p <= Chances(e, 1)
      BY <2>2
    <3> QED BY <2>1, <3>1, SlotOf
  <2>5. SourceOf(o, <<z, p>>, ab) = src
    <3>1. SourceOf(o, <<z, p>>, ab) = LoserRef("WB", w + 1 - e, Seat(p, ab))
      <4> HIDE DEF z
      <4> QED BY <2>1, <2>4, SourceIs
    <3> HIDE DEF z
    <3> QED BY <2>1, <2>3, <3>1
  <2>6. ASSUME NEW i, NEW q, NEW cd \in {"a", "b"}, Slot(o, w, e, i, q), SourceOf(o, <<i, q>>, cd) = src
        PROVE  i = z /\ q = p /\ cd = ab
    <3>1. i \in Nat /\ q \in Nat
      BY <2>6, SizeIs
    <3>2. \/ i = w + 1 /\ m = Seat(q, cd)
          \/ r = (w + 1 - e) + ((i - w) \div 2) /\ (i - w) % 2 = 0 /\ i > w
          \/ L = 0
      BY <1>2, <2>6, TakesLoser
    <3>3. i = w + 1 /\ m = Seat(q, cd)
      BY <1>1, <1>3, <3>1, <3>2
    <3> QED BY <2>3, <2>4, <3>1, <3>3, SeatsDiffer
  <2> HIDE DEF src, z
  <2> QED BY <2>4, <2>5, <2>6, TakenBy DEF src
<1>4. CASE d > 0
  <2> DEFINE k == 2 * d
             z == w + k
  <2>1. k \in 1..L /\ k % 2 = 0 /\ k \div 2 = d /\ k # 1
    <3>1. o.target = "gold" => L = 2 * (e - 1)
      BY DEF Shaped
    <3>2. o.target # "gold" => L >= 2 * (e - 1) - 2
      <4>1. o.target # "gold" => L = 2 * (e - 1) - (IF o.bronze THEN 1 ELSE 2)
        BY DEF Shaped
      <4> QED BY <1>1, <4>1
    <3>3. r <= (IF o.target = "gold" THEN w ELSE w - 1)
      BY DEF Again
    <3>4. CASE o.target = "gold"
      BY <1>1, <1>4, <3>1, <3>3, <3>4
    <3>5. CASE o.target # "gold"
      BY <1>1, <1>4, <3>2, <3>3, <3>5
    <3> QED BY <3>4, <3>5
  <2>2. z > w /\ z <= w + L /\ z - w = k
    BY <1>1, <2>1
  <2>3. Bouts(w, r) = Chances(e, k) /\ Chances(e, k) \in Nat
    <3>1. Chances(e, k) = Bouts(w, (w + 1 - e) + (k \div 2))
      <4> HIDE DEF k, d
      <4> QED BY <2>1, ChancesMeet
    <3>2. Chances(e, k) \in Nat
      <4> HIDE DEF k
      <4> QED BY <2>1, ChancesAre
    <3> QED BY <1>1, <2>1, <3>1, <3>2
  <2>4. Slot(o, w, e, z, m) /\ m \in Nat
    <3>1. m \in Nat /\ m >= 1 /\ m <= Chances(e, k)
      BY <2>3
    <3> HIDE DEF k
    <3> QED BY <2>1, <3>1, SlotOf
  <2>5. SourceOf(o, <<z, m>>, "b") = src
    <3>1. SourceOf(o, <<z, m>>, "b") = LoserRef("WB", (w + 1 - e) + ((z - w) \div 2), m)
      <4>1. (z - w) % 2 = 0
        BY <2>1, <2>2
      <4> HIDE DEF z
      <4> QED BY <2>2, <2>4, <4>1, SourceIs
    <3>2. (w + 1 - e) + ((z - w) \div 2) = r
      BY <1>1, <2>1, <2>2
    <3> HIDE DEF z
    <3> QED BY <3>1, <3>2
  <2>6. ASSUME NEW i, NEW q, NEW cd \in {"a", "b"}, Slot(o, w, e, i, q), SourceOf(o, <<i, q>>, cd) = src
        PROVE  i = z /\ q = m /\ cd = "b"
    <3>1. i \in Nat /\ q \in Nat
      BY <2>6, SizeIs
    <3>2. \/ r = w + 1 - e
          \/ /\ r = (w + 1 - e) + ((i - w) \div 2) /\ (i - w) % 2 = 0 /\ i > w
             /\ cd = "b" /\ m = q
          \/ L = 0
      BY <1>2, <2>6, TakesLoser
    <3>3. /\ r = (w + 1 - e) + ((i - w) \div 2) /\ (i - w) % 2 = 0 /\ i > w
          /\ cd = "b" /\ m = q
      BY <1>1, <1>4, <2>1, <3>2
    <3> QED BY <1>1, <3>1, <3>3
  <2>7. "b" \in {"a", "b"}
    OBVIOUS
  <2> HIDE DEF src, z
  <2> QED BY <2>4, <2>5, <2>6, <2>7, TakenBy DEF src
<1>5. CASE d = 0 /\ L = 0
  <2> DEFINE z == w + 1
  <2>1. o.target = "gold" /\ e = 1 /\ r = w
    BY <1>1, <1>5 DEF Shaped
  <2>2. m = 1
    <3>1. Bouts(w, r) = 1
      <4>1. w - w = 0
        BY <1>1
      <4> QED BY <2>1, <4>1, PowIs DEF Bouts
    <3> QED BY <3>1
  <2>3. Slot(o, w, e, z, 1)
    <3>1. w + L + 1 = w + 1 /\ 1 \in Nat /\ 1 >= 1
      BY <1>1, <1>5
    <3>2. Slot(o, w, e, w + L + 1, 1)
      BY <2>1, <3>1, SlotOf
    <3> QED BY <3>1, <3>2
  <2>4. SourceOf(o, <<z, 1>>, "b") = src
    <3>1. z = w + L + 1
      BY <1>1, <1>5
    <3>2. SourceOf(o, <<z, 1>>, "b") = LoserRef("WB", w, 1)
      <4> HIDE DEF z
      <4> QED BY <1>5, <2>3, <3>1, SourceIs
    <3> HIDE DEF z
    <3> QED BY <2>1, <2>2, <3>2
  <2>5. ASSUME NEW i, NEW q, NEW cd \in {"a", "b"}, Slot(o, w, e, i, q), SourceOf(o, <<i, q>>, cd) = src
        PROVE  i = z /\ q = 1 /\ cd = "b"
    <3>1. i \in Nat /\ (i > w + L => q = 1)
      BY <2>5, SizeIs
    <3>2. \/ i = w + 1 /\ cd = "b"
          \/ i > w /\ i <= w + L
          \/ i = w + 1 /\ i <= w + L
      BY <1>2, <2>5, TakesLoser
    <3> QED BY <1>1, <1>5, <3>1, <3>2
  <2>6. "b" \in {"a", "b"}
    OBVIOUS
  <2> HIDE DEF src, z
  <2> QED BY <2>3, <2>4, <2>5, <2>6, TakenBy DEF src
<1> QED BY <1>1, <1>3, <1>4, <1>5

LEMMA NoSecondChance ==
  ASSUME NEW o, NEW w, NEW e, Shaped(o, w, e), NEW r \in 0..w, ~Again(o, w, e, r), NEW m
  PROVE  Untaken(o, LoserRef("WB", r, m))
<1> DEFINE src == LoserRef("WB", r, m)
           L   == LbRounds(o)
<1>1. w \in Nat /\ w >= 1 /\ L \in Nat /\ e \in 1..w /\ r \in Nat
  BY RoundsAre DEF Shaped
<1>2. \/ r < w + 1 - e
      \/ r = 0
      \/ r = w /\ o.target = "bronze"
  <2>1. o.target \in {"gold", "bronze"}
    BY DEF Shaped
  <2> QED BY <1>1, <2>1 DEF Again
<1>3. ASSUME NEW i, NEW q, NEW cd \in {"a", "b"}, Slot(o, w, e, i, q), SourceOf(o, <<i, q>>, cd) = src
      PROVE  FALSE
  <2>1. i \in Nat
    BY <1>3, SizeIs
  <2>2. "WB" # "GF"
    OBVIOUS
  <2>3. \/ r = w + 1 - e /\ i = w + 1 /\ i <= w + L
        \/ r = (w + 1 - e) + ((i - w) \div 2) /\ (i - w) % 2 = 0 /\ i > w /\ i <= w + L
        \/ r = w /\ L = 0
    BY <1>3, <2>2, TakesLoser
  <2>4. r >= w + 1 - e /\ r # 0
    <3>1. CASE r = w + 1 - e
      BY <1>1, <3>1
    <3>2. CASE r = (w + 1 - e) + ((i - w) \div 2) /\ i > w
      <4>1. (i - w) \div 2 \in Nat
        BY <1>1, <2>1, <3>2
      <4> QED BY <1>1, <3>2, <4>1
    <3>3. CASE r = w
      BY <1>1, <3>3
    <3> QED BY <2>3, <3>1, <3>2, <3>3
  <2>5. r = w /\ o.target = "bronze"
    BY <1>1, <1>2, <2>4
  <2>6. L > 0 /\ L <= 2 * (e - 1) - 1
    <3>1. L \in Nat \ {0} /\ L = 2 * (e - 1) - (IF o.bronze THEN 1 ELSE 2)
      BY <2>5 DEF Shaped
    <3> QED BY <1>1, <3>1
  <2>7. \/ w = w + 1 - e
        \/ w = (w + 1 - e) + ((i - w) \div 2) /\ (i - w) % 2 = 0 /\ i > w /\ i <= w + L
    BY <2>3, <2>5, <2>6
  <2> QED BY <1>1, <2>1, <2>6, <2>7
<1> HIDE DEF src
<1> QED BY <1>3, UntakenBy DEF src

LEMMA LosersLoser ==
  ASSUME NEW o, NEW w, NEW e, Shaped(o, w, e), NEW k, NEW m
  PROVE  Untaken(o, LoserRef("LB", k, m))
<1> DEFINE src == LoserRef("LB", k, m)
<1>1. ASSUME NEW i, NEW q, NEW cd \in {"a", "b"}, Slot(o, w, e, i, q), SourceOf(o, <<i, q>>, cd) = src
      PROVE  FALSE
  <2>1. "LB" # "WB" /\ "LB" # "GF"
    OBVIOUS
  <2> QED BY <1>1, <2>1, TakesLoser
<1> HIDE DEF src
<1> QED BY <1>1, UntakenBy DEF src

LEMMA SeedOnce ==
  ASSUME NEW o, NEW w, NEW e, Shaped(o, w, e), NEW n \in 1..o.fighters
  PROVE  TakenOnce(o, SeedSource(n))
<1> DEFINE src == SeedSource(n)
           P   == PlayIns(o)
           B   == ByeSeeds(o)
<1>1. /\ w \in Nat /\ w >= 1 /\ P \in Nat /\ Pow2[w] \in Nat /\ P <= Pow2[w] /\ B \in Nat
      /\ o.fighters = Pow2[w] + P /\ n \in Nat /\ n >= 1 /\ n <= Pow2[w] + P
      /\ P > 0 => B = Pow2[w] - P
      /\ P = 0 => B = 0
  BY PlayInsAre
<1>2. CASE ~(P > 0 /\ n > B)
  <2>1. n \in 1..Pow2[w]
    BY <1>1, <1>2
  <2>2. PICK p \in 1..Bouts(w, 1), ab \in {"a", "b"} :
          /\ Slot(o, w, e, 1, p) /\ Drawn(w, p, ab) = n
          /\ \A q \in 1..Bouts(w, 1), cd \in {"a", "b"} : Drawn(w, q, cd) = n => q = p /\ cd = ab
    BY <2>1, SeatOfSeed
  <2>3. SourceOf(o, <<1, p>>, ab) = src
    <3>1. SourceOf(o, <<1, p>>, ab) = SeatSource(o, Seat(p, ab))
      BY <2>2, SourceIs
    <3>2. SeatSource(o, Seat(p, ab)) = IF PlayIns(o) > 0 /\ n > ByeSeeds(o)
                                       THEN WinnerRef("WB", 0, n - ByeSeeds(o)) ELSE SeedSource(n)
      BY <2>2, SeatIs
    <3> QED BY <1>2, <3>1, <3>2
  <2>4. ASSUME NEW i, NEW q, NEW cd \in {"a", "b"}, Slot(o, w, e, i, q), SourceOf(o, <<i, q>>, cd) = src
        PROVE  i = 1 /\ q = p /\ cd = ab
    <3>1. \/ i = 0 /\ n = IF cd = "a" THEN B + q ELSE o.fighters - q + 1
          \/ i = 1 /\ n = Drawn(w, q, cd)
      BY <2>4, TakesSeed
    <3>2. i # 0
      <4>1. ASSUME i = 0 PROVE FALSE
        <5>1. q \in 1..P /\ n = IF cd = "a" THEN B + q ELSE o.fighters - q + 1
          BY <2>4, <3>1, <4>1, SizeIs
        <5>2. P > 0 /\ n > B
          BY <1>1, <5>1
        <5> QED BY <1>2, <5>2
      <4> QED BY <4>1
    <3>3. i = 1 /\ n = Drawn(w, q, cd)
      BY <3>1, <3>2
    <3>4. q \in 1..Bouts(w, 1)
      BY <1>1, <2>4, <3>3, SizeIs
    <3> QED BY <2>2, <3>3, <3>4
  <2> HIDE DEF src
  <2> QED BY <2>2, <2>3, <2>4, TakenBy DEF src
<1>3. CASE P > 0 /\ n > B
  <2> DEFINE ab == IF n <= Pow2[w] THEN "a" ELSE "b"
             p  == IF n <= Pow2[w] THEN n - B ELSE o.fighters - n + 1
  <2>1. ab \in {"a", "b"} /\ p \in 1..P
    BY <1>1, <1>3
  <2>2. (IF ab = "a" THEN B + p ELSE o.fighters - p + 1) = n
    BY <1>1, <1>3
  <2>3. \A q \in 1..P, cd \in {"a", "b"} :
          (IF cd = "a" THEN B + q ELSE o.fighters - q + 1) = n => q = p /\ cd = ab
    BY <1>1, <1>3
  <2> HIDE DEF ab, p
  <2>4. Slot(o, w, e, 0, p)
    <3>1. p \in Nat /\ p >= 1 /\ p <= PlayIns(o)
      BY <1>1, <2>1
    <3> QED BY <3>1, SlotOf
  <2>5. SourceOf(o, <<0, p>>, ab) = src
    <3>1. SourceOf(o, <<0, p>>, ab) = SeedSource(IF ab = "a" THEN ByeSeeds(o) + p ELSE o.fighters - p + 1)
      BY <2>1, <2>4, SourceIs
    <3> QED BY <2>2, <3>1
  <2>6. ASSUME NEW i, NEW q, NEW cd \in {"a", "b"}, Slot(o, w, e, i, q), SourceOf(o, <<i, q>>, cd) = src
        PROVE  i = 0 /\ q = p /\ cd = ab
    <3>1. i = 0 /\ n = IF cd = "a" THEN B + q ELSE o.fighters - q + 1
      BY <1>3, <2>6, TakesSeed
    <3>2. q \in 1..P
      BY <2>6, <3>1, SizeIs
    <3> QED BY <2>3, <3>1, <3>2
  <2> HIDE DEF src
  <2> QED BY <2>1, <2>4, <2>5, <2>6, TakenBy DEF src
<1> QED BY <1>2, <1>3

\* The slot a side takes from, of an earlier round.
Before(o, r, ref) == \E s \in SlotsOf(o) : SelfRefOf(o, s) = ref /\ s[1] < r

LEMMA BeforeBy ==
  ASSUME NEW o, NEW w, NEW e, Shaped(o, w, e), NEW r, NEW j, NEW q, Slot(o, w, e, j, q), j < r
  PROVE  Before(o, r, SelfRefOf(o, <<j, q>>))
<1>1. <<j, q>> \in SlotsOf(o) /\ <<j, q>>[1] = j
  BY SlotIs
<1> QED BY <1>1 DEF Before

LEMMA WinnersBefore ==
  ASSUME NEW o, NEW w, NEW e, Shaped(o, w, e), NEW r, NEW j \in 1..w, NEW q \in 1..Bouts(w, j),
         Bouts(w, j) \in Nat, j < r
  PROVE  Before(o, r, <<"WB", j, q>>)
<1>1. q \in Nat /\ q >= 1 /\ q <= Bouts(w, j) /\ w \in Nat
  BY RoundsAre
<1>2. Slot(o, w, e, j, q)
  BY <1>1, SlotOf
<1>3. SelfRefOf(o, <<j, q>>) = <<"WB", j, q>>
  BY <1>1, <1>2, RefIs
<1> QED BY <1>2, <1>3, BeforeBy

LEMMA LosersBefore ==
  ASSUME NEW o, NEW w, NEW e, Shaped(o, w, e), NEW r, NEW k \in 1..LbRounds(o), NEW q \in 1..Chances(e, k),
         w + k < r
  PROVE  Before(o, r, <<"LB", k, q>>)
<1> DEFINE j == w + k
<1>1. w \in Nat /\ LbRounds(o) \in Nat /\ Chances(e, k) \in Nat
  BY RoundsAre, ChancesAre
<1>2. q \in Nat /\ q >= 1 /\ q <= Chances(e, k) /\ j > w /\ j <= w + LbRounds(o) /\ j - w = k /\ j < r
  BY <1>1
<1>3. Slot(o, w, e, j, q)
  BY <1>2, SlotOf
<1> HIDE DEF j
<1>4. SelfRefOf(o, <<j, q>>) = <<"LB", k, q>>
  BY <1>2, <1>3, RefIs
<1> QED BY <1>2, <1>3, <1>4, BeforeBy

LEMMA BoutsAre ==
  ASSUME NEW w \in Nat, NEW r \in 1..w
  PROVE  Bouts(w, r) \in Nat \ {0} /\ Bouts(w, w) = 1
<1>1. w - r \in Nat /\ w - w = 0
  OBVIOUS
<1> QED BY <1>1, PowIs DEF Bouts

LEMMA FromBefore ==
  ASSUME NEW o, NEW w, NEW e, Shaped(o, w, e), NEW r, NEW p, Slot(o, w, e, r, p), NEW ab \in {"a", "b"}
  PROVE  LET src == SourceOf(o, <<r, p>>, ab)
         IN  (\E n \in 1..o.fighters : src = SeedSource(n)) \/ Before(o, r, src.ref)
<1> DEFINE src == SourceOf(o, <<r, p>>, ab)
           L   == LbRounds(o)
           k   == r - w
<1>0. w \in Nat /\ w >= 1 /\ L \in Nat /\ e \in 1..w /\ r \in Nat /\ p \in Nat /\ p >= 1
  BY RoundsAre, SizeIs DEF Shaped
<1>1. CASE r = 0
  <2>1. p \in 1..PlayIns(o)
    BY <1>1, SizeIs
  <2>2. src = SeedSource(IF ab = "a" THEN ByeSeeds(o) + p ELSE o.fighters - p + 1)
    BY <1>1, SourceIs
  <2>3. (IF ab = "a" THEN ByeSeeds(o) + p ELSE o.fighters - p + 1) \in 1..o.fighters
    BY <2>1, PlayInsAre
  <2> QED BY <2>2, <2>3
<1>2. CASE r = 1
  <2> DEFINE n == Drawn(w, p, ab)
  <2>1. src = IF PlayIns(o) > 0 /\ n > ByeSeeds(o) THEN WinnerRef("WB", 0, n - ByeSeeds(o)) ELSE SeedSource(n)
    <3>1. src = SeatSource(o, Seat(p, ab))
      BY <1>2, SourceIs
    <3> HIDE DEF src
    <3> QED BY <3>1, SeatIs
  <2>2. n \in 1..Pow2[w] /\ Pow2[w] \in Nat
    <3>1. p \in 1..Bouts(w, 1)
      BY <1>0, <1>2, SizeIs
    <3> QED BY <1>0, <3>1, DrawnIs
  <2> HIDE DEF n, src
  <2>3. CASE PlayIns(o) > 0 /\ n > ByeSeeds(o)
    <3> DEFINE m == n - ByeSeeds(o)
    <3>1. m \in Nat /\ m >= 1 /\ m <= PlayIns(o)
      BY <2>2, <2>3, PlayInsAre
    <3>2. src.ref = <<"WB", 0, m>>
      BY <2>1, <2>3, SourceParts
    <3> HIDE DEF m
    <3>3. Slot(o, w, e, 0, m)
      BY <3>1, SlotOf
    <3>4. SelfRefOf(o, <<0, m>>) = <<"WB", 0, m>>
      BY <1>0, <3>3, RefIs
    <3>5. 0 < r
      BY <1>2
    <3>6. Before(o, r, SelfRefOf(o, <<0, m>>))
      BY <3>3, <3>5, BeforeBy
    <3>7. Before(o, r, src.ref)
      BY <3>2, <3>4, <3>6
    <3> QED BY <3>7 DEF src
  <2>4. CASE ~(PlayIns(o) > 0 /\ n > ByeSeeds(o))
    <3>1. src = SeedSource(n)
      BY <2>1, <2>4
    <3>2. n \in 1..o.fighters
      BY <2>2, PlayInsAre
    <3> QED BY <3>1, <3>2 DEF src
  <2> QED BY <2>3, <2>4
<1>3. CASE r > 1 /\ r <= w
  <2>1. src = WinnerRef("WB", r - 1, Seat(p, ab))
    BY <1>3, SourceIs
  <2>2. r - 1 \in Nat /\ r - 1 < w /\ (r - 1) + 1 = r /\ r - 1 \in 1..w /\ r - 1 < r
    BY <1>0, <1>3
  <2>3. Bouts(w, r - 1) = 2 * Bouts(w, r) /\ Bouts(w, r) \in Nat
    BY <1>0, <2>2, BoutsHalve
  <2>4. p \in 1..Bouts(w, r)
    BY <1>0, <1>3, SizeIs
  <2>5. Seat(p, ab) \in 1..Bouts(w, r - 1) /\ Bouts(w, r - 1) \in Nat
    BY <2>3, <2>4, Seats
  <2>6. Before(o, r, <<"WB", r - 1, Seat(p, ab)>>)
    BY <2>2, <2>5, WinnersBefore
  <2> HIDE DEF src
  <2>7. Before(o, r, src.ref)
    BY <2>1, <2>6, SourceParts
  <2> QED BY <2>7 DEF src
<1>4. CASE r > w /\ r <= w + L /\ k = 1
  <2>1. src = LoserRef("WB", w + 1 - e, Seat(p, ab))
    BY <1>4, SourceIs
  <2>2. p \in 1..Chances(e, k) /\ k \in 1..L
    BY <1>4, SizeIs
  <2>3. 2 * Chances(e, k) = Bouts(w, w + 1 - e) /\ Chances(e, k) \in Nat
    <3> HIDE DEF k
    <3> QED BY <1>4, <2>2, ChancesAre, ChancesMeet
  <2>4. Seat(p, ab) \in 1..Bouts(w, w + 1 - e) /\ Bouts(w, w + 1 - e) \in Nat
    <3> HIDE DEF k
    <3> QED BY <2>2, <2>3, Seats
  <2>5. w + 1 - e \in 1..w /\ w + 1 - e < r
    BY <1>0, <1>4
  <2>6. Before(o, r, <<"WB", w + 1 - e, Seat(p, ab)>>)
    BY <2>4, <2>5, WinnersBefore
  <2> HIDE DEF src
  <2>7. Before(o, r, src.ref)
    BY <2>1, <2>6, SourceParts
  <2> QED BY <2>7 DEF src
<1>5. CASE r > w /\ r <= w + L /\ k # 1 /\ k % 2 = 1
  <2>1. src = WinnerRef("LB", k - 1, Seat(p, ab))
    BY <1>5, SourceIs
  <2>2. p \in 1..Chances(e, k) /\ k \in 1..L
    BY <1>5, SizeIs
  <2>3. 2 * Chances(e, k) = Chances(e, k - 1) /\ Chances(e, k) \in Nat
    <3> HIDE DEF k
    <3> QED BY <1>5, <2>2, ChancesAre, ChancesMeet
  <2>4. Seat(p, ab) \in 1..Chances(e, k - 1)
    <3> HIDE DEF k
    <3> QED BY <2>2, <2>3, Seats
  <2>5. k - 1 \in 1..L /\ w + (k - 1) < r
    BY <1>0, <1>5, <2>2
  <2>6. Before(o, r, <<"LB", k - 1, Seat(p, ab)>>)
    <3> HIDE DEF k
    <3> QED BY <2>4, <2>5, LosersBefore
  <2> HIDE DEF src
  <2>7. Before(o, r, src.ref)
    BY <2>1, <2>6, SourceParts
  <2> QED BY <2>7 DEF src
<1>6. CASE r > w /\ r <= w + L /\ k # 1 /\ k % 2 = 0
  <2>2. p \in 1..Chances(e, k) /\ k \in 1..L
    BY <1>6, SizeIs
  <2>3. Chances(e, k) = Chances(e, k - 1) /\ Chances(e, k) = Bouts(w, (w + 1 - e) + (k \div 2))
        /\ Chances(e, k) \in Nat
    <3> HIDE DEF k
    <3> QED BY <1>6, <2>2, ChancesAre, ChancesMeet
  <2>4. CASE ab = "a"
    <3>1. src = WinnerRef("LB", k - 1, p)
      BY <1>6, <2>4, SourceIs
    <3>2. k - 1 \in 1..L /\ w + (k - 1) < r
      BY <1>0, <1>6, <2>2
    <3>3. Before(o, r, <<"LB", k - 1, p>>)
      <4> HIDE DEF k
      <4> QED BY <2>2, <2>3, <3>2, LosersBefore
    <3> HIDE DEF src
    <3>4. Before(o, r, src.ref)
      BY <3>1, <3>3, SourceParts
    <3> QED BY <3>4 DEF src
  <2>5. CASE ab = "b"
    <3> DEFINE j == (w + 1 - e) + (k \div 2)
    <3>1. src = LoserRef("WB", j, p)
      BY <1>6, <2>5, SourceIs
    <3>2. L <= 2 * (e - 1)
      BY <1>0 DEF Shaped
    <3>3. j \in 1..w /\ j < r
      BY <1>0, <1>6, <2>2, <3>2
    <3> HIDE DEF j, k
    <3>4. p \in 1..Bouts(w, j) /\ Bouts(w, j) \in Nat
      BY <2>2, <2>3 DEF j
    <3>5. Before(o, r, <<"WB", j, p>>)
      BY <3>3, <3>4, WinnersBefore
    <3> HIDE DEF src
    <3>6. Before(o, r, src.ref)
      BY <3>1, <3>5, SourceParts
    <3> QED BY <3>6 DEF src
  <2> QED BY <2>4, <2>5
<1>7. CASE r = w + L + 1
  <2>1. ab = "a" => src = WinnerRef("WB", w, 1)
    BY <1>7, SourceIs
  <2>2. ab = "b" /\ L > 0 => src = WinnerRef("LB", L, 1)
    BY <1>7, SourceIs
  <2>3. ab = "b" /\ L = 0 => src = LoserRef("WB", w, 1)
    BY <1>7, SourceIs
  <2>4. Before(o, r, <<"WB", w, 1>>)
    <3>1. w \in 1..w /\ w < r
      BY <1>0, <1>7
    <3>2. 1 \in 1..Bouts(w, w) /\ Bouts(w, w) \in Nat
      BY <1>0, <3>1, BoutsAre
    <3> QED BY <3>1, <3>2, WinnersBefore
  <2>5. L > 0 => Before(o, r, <<"LB", L, 1>>)
    <3>1. ASSUME L > 0 PROVE Before(o, r, <<"LB", L, 1>>)
      <4>1. L \in 1..L /\ w + L < r
        BY <1>0, <1>7, <3>1
      <4>2. Chances(e, L) \in Nat \ {0}
        BY <4>1, ChancesAre
      <4>3. 1 \in 1..Chances(e, L)
        BY <4>2
      <4> QED BY <4>1, <4>3, LosersBefore
    <3> QED BY <3>1
  <2> HIDE DEF src
  <2>6. Before(o, r, src.ref)
    BY <1>0, <2>1, <2>2, <2>3, <2>4, <2>5, SourceParts
  <2> QED BY <2>6 DEF src
<1>8. CASE r = w + L + 2
  <2>1. src.ref = <<"GF", 0, 0>>
    <3>1. ab = "a" => src = LoserRef("GF", 0, 0)
      BY <1>8, SourceIs
    <3>2. ab = "b" => src = WinnerRef("GF", 0, 0)
      BY <1>8, SourceIs
    <3> HIDE DEF src
    <3> QED BY <3>1, <3>2, SourceParts
  <2> DEFINE j == w + L + 1
  <2>2. Slot(o, w, e, j, 1)
    <3>1. o.target = "gold"
      BY <1>0, <1>8, SizeIs
    <3>2. 1 \in Nat /\ 1 >= 1
      OBVIOUS
    <3> QED BY <3>1, <3>2, SlotOf
  <2>3. SelfRefOf(o, <<j, 1>>) = <<"GF", 0, 0>>
    BY <2>2, RefIs
  <2>4. j < r
    BY <1>0, <1>8
  <2> HIDE DEF j
  <2>5. Before(o, r, SelfRefOf(o, <<j, 1>>))
    BY <2>2, <2>4, BeforeBy
  <2> QED BY <2>1, <2>3, <2>5
<1> QED BY <1>1, <1>2, <1>3, <1>4, <1>5, <1>6, <1>7, <1>8, RoundOfSlot

-----------------------------------------------------------------------------
(* The wiring.                                                             *)

LEMMA TakenIsOne ==
  ASSUME NEW o, NEW src
  PROVE  /\ TakenOnce(o, src) => Cardinality({x \in SidesOf(o) : SourceOf(o, x[1], x[2]) = src}) = 1
         /\ Untaken(o, src) => Cardinality({x \in SidesOf(o) : SourceOf(o, x[1], x[2]) = src}) = 0
<1> DEFINE T == {x \in SidesOf(o) : SourceOf(o, x[1], x[2]) = src}
<1>1. ASSUME TakenOnce(o, src) PROVE Cardinality(T) = 1
  <2>1. PICK x \in SidesOf(o) :
          /\ SourceOf(o, x[1], x[2]) = src
          /\ \A y \in SidesOf(o) : SourceOf(o, y[1], y[2]) = src => y = x
    BY <1>1 DEF TakenOnce
  <2>2. T = {x}
    BY <2>1
  <2> QED BY <2>2, FS_Singleton
<1>2. ASSUME Untaken(o, src) PROVE Cardinality(T) = 0
  <2>1. T = {}
    BY <1>2 DEF Untaken
  <2> QED BY <2>1, FS_EmptySet
<1> QED BY <1>1, <1>2

LEMMA SeedsAreDrawn ==
  ASSUME NEW o, NEW w, NEW e, Shaped(o, w, e), NEW n \in 1..o.fighters
  PROVE  Cardinality({x \in SidesOf(o) : SourceOf(o, x[1], x[2]) = SeedSource(n)}) = 1
  BY SeedOnce, TakenIsOne

LEMMA RefsAreMet ==
  ASSUME NEW o, NEW w, NEW e, Shaped(o, w, e), NEW x \in SidesOf(o)
  PROVE  LET src == SourceOf(o, x[1], x[2])
         IN  \/ src \in {SeedSource(n) : n \in 1..o.fighters}
             \/ Cardinality({s \in SlotsOf(o) : SelfRefOf(o, s) = src.ref /\ s[1] < x[1][1]}) = 1
<1> DEFINE src == SourceOf(o, x[1], x[2])
           T   == {s \in SlotsOf(o) : SelfRefOf(o, s) = src.ref /\ s[1] < x[1][1]}
<1>1. PICK r, p : \E ab \in {"a", "b"} : Slot(o, w, e, r, p) /\ x = <<<<r, p>>, ab>>
  BY SideIs
<1>2. PICK ab \in {"a", "b"} : Slot(o, w, e, r, p) /\ x = <<<<r, p>>, ab>>
  BY <1>1
<1>3. (\E n \in 1..o.fighters : src = SeedSource(n)) \/ Before(o, r, src.ref)
  <2>1. src = SourceOf(o, <<r, p>>, ab)
    BY <1>2
  <2> HIDE DEF src
  <2> QED BY <1>2, <2>1, FromBefore
<1>4. ASSUME Before(o, r, src.ref) PROVE Cardinality(T) = 1
  <2>1. PICK s \in SlotsOf(o) : SelfRefOf(o, s) = src.ref /\ s[1] < r
    BY <1>4 DEF Before
  <2>2. x[1][1] = r
    BY <1>2
  <2>3. T = {s}
    <3> HIDE DEF src
    <3>1. ASSUME NEW t \in T PROVE t = s
      BY <2>1, RefsDiffer
    <3> QED BY <2>1, <2>2, <3>1
  <2> HIDE DEF T
  <2> QED BY <2>3, FS_Singleton
<1> QED BY <1>3, <1>4

LEMMA WinnersGoOn ==
  ASSUME NEW o, NEW w, NEW e, Shaped(o, w, e), NEW s \in SlotsOf(o) \ LastSlots(o)
  PROVE  /\ Cardinality(Takers(o, s, "winner")) = 1
         /\ Cardinality(Takers(o, s, "loser")) = IF SecondChance(o, s) THEN 1 ELSE 0
<1> DEFINE L == LbRounds(o)
<1>0. w \in Nat /\ w >= 1 /\ L \in Nat /\ e \in 1..w /\ WbRounds(o) = w /\ EntryRound(o) = w + 1 - e
      /\ FinalRound(o) = w + L + 1
  BY RoundsAre DEF Shaped
<1>1. PICK r, p : Slot(o, w, e, r, p) /\ s = <<r, p>>
  BY SlotIs
<1>2. r \in Nat /\ p \in Nat /\ p >= 1 /\ s[1] = r
  BY <1>1, SizeIs
<1>3. SUFFICES ASSUME NEW won, NEW lost,
                      won = [takes |-> "winner", ref |-> SelfRefOf(o, s)],
                      lost = [takes |-> "loser", ref |-> SelfRefOf(o, s)]
               PROVE  TakenOnce(o, won) /\ IF SecondChance(o, s) THEN TakenOnce(o, lost) ELSE Untaken(o, lost)
  BY TakenIsOne DEF Takers
<1>4. SecondChance(o, s) <=> r <= w /\ Again(o, w, e, r)
  BY <1>0, <1>2 DEF SecondChance, Again
<1>5. r \in 0..w \/ (r > w /\ r <= w + L) \/ (r > w + L)
  BY <1>0, <1>2
<1>6. CASE r \in 0..w
  <2>1. SelfRefOf(o, <<r, p>>) = <<"WB", r, p>>
    BY <1>0, <1>1, <1>6, RefIs
  <2>2. won = WinnerRef("WB", r, p) /\ lost = LoserRef("WB", r, p)
    BY <1>1, <1>3, <2>1 DEF WinnerRef, LoserRef
  <2>3. r # 0 => r \in 1..w /\ p \in 1..Bouts(w, r)
    BY <1>0, <1>1, <1>6, SizeIs
  <2>4. TakenOnce(o, won)
    <3>1. CASE r = 0
      <4>1. p \in 1..PlayIns(o)
        BY <1>1, <3>1, SizeIs
      <4> QED BY <2>2, <3>1, <4>1, PlayInWinner
    <3>2. CASE r # 0 /\ r < w
      BY <2>2, <2>3, <3>2, WinnersWinner
    <3>3. CASE r # 0 /\ r = w
      <4>1. p = 1
        <5>1. p \in 1..Bouts(w, w) /\ Bouts(w, w) = 1
          BY <1>0, <2>3, <3>3, BoutsAre
        <5> QED BY <5>1
      <4>2. o.target = "gold"
        <5>1. o.target \in {"gold", "bronze"}
          BY DEF Shaped
        <5>2. o.target # "gold" => s \in LastSlots(o)
          BY <1>0, <1>1, <3>3, <4>1 DEF LastSlots
        <5> QED BY <5>1, <5>2
      <4> QED BY <2>2, <3>3, <4>1, <4>2, WinnersLast
    <3> QED BY <1>0, <1>6, <3>1, <3>2, <3>3
  <2>5. CASE Again(o, w, e, r)
    <3>1. r # 0
      BY <2>5 DEF Again
    <3>2. TakenOnce(o, lost)
      BY <2>2, <2>3, <2>5, <3>1, WinnersLoser
    <3> QED BY <1>0, <1>4, <1>6, <2>4, <2>5, <3>2
  <2>6. CASE ~Again(o, w, e, r)
    <3>1. Untaken(o, lost)
      BY <1>6, <2>2, <2>6, NoSecondChance
    <3> QED BY <1>4, <2>4, <2>6, <3>1
  <2> QED BY <2>5, <2>6
<1>7. CASE r > w /\ r <= w + L
  <2> DEFINE k == r - w
  <2>1. SelfRefOf(o, <<r, p>>) = <<"LB", k, p>>
    BY <1>1, <1>7, RefIs
  <2>2. won = WinnerRef("LB", k, p) /\ lost = LoserRef("LB", k, p)
    BY <1>1, <1>3, <2>1 DEF WinnerRef, LoserRef
  <2>3. k \in 1..L /\ p \in 1..Chances(e, k) /\ r = w + k /\ k \in Nat
    <3>1. k \in 1..L /\ p \in 1..Chances(e, k)
      BY <1>1, <1>7, SizeIs
    <3> QED BY <1>0, <1>2, <3>1
  <2> HIDE DEF k
  <2>4. TakenOnce(o, won)
    <3>1. CASE k < L
      BY <2>2, <2>3, <3>1, LosersWinner
    <3>2. CASE k = L
      <4>1. o.target = "gold"
        <5>1. o.target \in {"gold", "bronze"}
          BY DEF Shaped
        <5>2. ASSUME o.target # "gold" PROVE s \in LastSlots(o)
          <6>1. LbSize(o, k) = Chances(e, k)
            BY <2>3, ChancesAre
          <6>2. s \in LosersSlots(o)
            BY <1>0, <1>1, <2>3, <6>1 DEF LosersSlots
          <6> QED BY <1>0, <1>2, <2>3, <3>2, <5>2, <6>2 DEF LastSlots
        <5> QED BY <5>1, <5>2
      <4>2. p = 1
        <5>1. Chances(e, k) = 1
          BY <2>3, <3>2, <4>1, ChancesMeet
        <5> QED BY <2>3, <5>1
      <4>3. L > 0
        BY <1>0, <2>3
      <4> QED BY <2>2, <3>2, <4>1, <4>2, <4>3, LosersLast
    <3> QED BY <1>0, <2>3, <3>1, <3>2
  <2>5. Untaken(o, lost)
    BY <2>2, LosersLoser
  <2>6. ~SecondChance(o, s)
    BY <1>0, <1>2, <1>4, <1>7
  <2> QED BY <2>4, <2>5, <2>6
<1>8. CASE r > w + L
  <2>1. p = 1 /\ o.target = "gold" /\ (r = w + L + 1 \/ (o.reset /\ r = w + L + 2))
    BY <1>1, <1>8, SizeIs
  <2>2. r = FinalRound(o) \/ (o.reset /\ r = FinalRound(o) + 1)
    BY <1>0, <2>1
  <2>3. s \in FinalsSlots(o)
    BY <1>1, <2>1, <2>2 DEF FinalsSlots
  <2> QED BY <2>1, <2>3 DEF LastSlots
<1> QED BY <1>5, <1>6, <1>7, <1>8

(* Every bracket the generator can make is wired: each seed is drawn once, *)
(* each reference meets one slot, of an earlier round, each winner but the *)
(* last and each loser with a second chance has one side to go to and no   *)
(* other loser has any, and the slots are as many as                       *)
(* totalDoubleElimMatches counts.                                          *)
THEOREM Wiring ==
  \A top \in Nat : \A o \in Options(top) : Wired(o)
<1> TAKE top \in Nat
<1> TAKE o \in Options(top)
<1>1. PICK w, e : Shaped(o, w, e)
  BY ShapeIs
<1>2. Cardinality(SlotsOf(o)) = TotalMatches(o)
  BY <1>1, SlotsCounted
<1>3. \A n \in 1..o.fighters :
        Cardinality({x \in SidesOf(o) : SourceOf(o, x[1], x[2]) = SeedSource(n)}) = 1
  BY <1>1, SeedsAreDrawn
<1>4. \A x \in SidesOf(o) :
        LET src == SourceOf(o, x[1], x[2])
        IN  \/ src \in {SeedSource(n) : n \in 1..o.fighters}
            \/ Cardinality({s \in SlotsOf(o) : SelfRefOf(o, s) = src.ref /\ s[1] < x[1][1]}) = 1
  BY <1>1, RefsAreMet
<1>5. \A s \in SlotsOf(o) \ LastSlots(o) :
        /\ Cardinality(Takers(o, s, "winner")) = 1
        /\ Cardinality(Takers(o, s, "loser")) = IF SecondChance(o, s) THEN 1 ELSE 0
  BY <1>1, WinnersGoOn
<1> QED BY <1>2, <1>3, <1>4, <1>5 DEF Wired

(* The same as an invariant of the bracket's specification.                *)
THEOREM BracketsAreWired == Spec => []EveryBracketIsWired
<1>1. Init => \A o \in Options(TopShape) : Wired(o)
  BY Wiring, TopShapeAssumption
<1>2. EveryBracketIsWired
  BY <1>1 DEF EveryBracketIsWired
<1> QED BY <1>2, PTL DEF Spec

-----------------------------------------------------------------------------
(* What Bracket asks of its slots, of the slots the generator makes.       *)

LEMMA SourceKinds ==
  ASSUME NEW o, NEW s, NEW ab
  PROVE  LET src == SourceOf(o, s, ab)
         IN  \/ \E n : src = SeedSource(n)
             \/ \E sec, j, m : src = WinnerRef(sec, j, m)
             \/ \E sec, j, m : src = LoserRef(sec, j, m)
<1> DEFINE Kind(src) == \/ \E n : src = SeedSource(n)
                        \/ \E sec, j, m : src = WinnerRef(sec, j, m)
                        \/ \E sec, j, m : src = LoserRef(sec, j, m)
<1>1. /\ \A n : Kind(SeedSource(n))
      /\ \A sec, j, m : Kind(WinnerRef(sec, j, m))
      /\ \A sec, j, m : Kind(LoserRef(sec, j, m))
  OBVIOUS
<1> HIDE DEF Kind
<1>2. \A seat : Kind(SeatSource(o, seat))
  BY <1>1 DEF SeatSource
<1>3. \A r, p : Kind(WinnersSource(o, r, p, ab))
  BY <1>1, <1>2 DEF WinnersSource
<1>4. \A k, p : Kind(LosersSource(o, k, p, ab))
  BY <1>1 DEF LosersSource
<1>5. Kind(FinalSource(o, ab)) /\ Kind(ResetSource(ab))
  BY <1>1 DEF FinalSource, ResetSource
<1>6. Kind(SourceOf(o, s, ab))
  BY <1>3, <1>4, <1>5 DEF SourceOf
<1> QED BY <1>6 DEF Kind

\* The side of d takes from s.
Feeds(o, s, d, x) == SourceOf(o, d, x).takes # "seed" /\ SourceOf(o, d, x).ref = SelfRefOf(o, s)

\* What Bracket assumes: BracketConstants, RoundsGoOn and SecondFinal.
Fit(o) ==
  /\ IsFiniteSet(SlotsOf(o)) /\ \A s \in SlotsOf(o) : s[1] \in Nat
  /\ \A s, t \in SlotsOf(o) : SelfRefOf(o, s) = SelfRefOf(o, t) => s = t
  /\ \A d \in SlotsOf(o), x \in {"a", "b"} :
       /\ SourceOf(o, d, x).takes \in {"seed", "winner", "loser"}
       /\ SourceOf(o, d, x).takes = "seed" => SourceOf(o, d, x).ref[2] \in 1..o.fighters
  /\ \A s, d \in SlotsOf(o), x \in {"a", "b"} : Feeds(o, s, d, x) => s[1] < d[1]
  /\ o.target = "gold" =>
       /\ <<FinalRound(o), 1>> \in SlotsOf(o)
       /\ \A d \in SlotsOf(o), x, y \in {"a", "b"} :
            Feeds(o, <<FinalRound(o), 1>>, d, x) => Feeds(o, <<FinalRound(o), 1>>, d, y)

LEMMA NoSlotIsASeed ==
  ASSUME NEW o, NEW w, NEW e, Shaped(o, w, e), NEW s \in SlotsOf(o), NEW n
  PROVE  SelfRefOf(o, s) # <<"seed", n, 0>>
<1>1. PICK r, p : Slot(o, w, e, r, p) /\ s = <<r, p>>
  BY SlotIs
<1>2. SelfRefOf(o, <<r, p>>)[1] \in {"WB", "LB", "GF", "GFRESET"}
  BY DEF SelfRefOf
<1>3. "seed" \notin {"WB", "LB", "GF", "GFRESET"} /\ <<"seed", n, 0>>[1] = "seed"
  OBVIOUS
<1> QED BY <1>1, <1>2, <1>3

LEMMA SidesFit ==
  ASSUME NEW o, NEW w, NEW e, Shaped(o, w, e), NEW d \in SlotsOf(o), NEW x \in {"a", "b"}
  PROVE  LET src == SourceOf(o, d, x)
         IN  /\ src.takes \in {"seed", "winner", "loser"}
             /\ src.takes = "seed" => src.ref[2] \in 1..o.fighters
             /\ \A s \in SlotsOf(o) : Feeds(o, s, d, x) => s[1] < d[1]
<1> DEFINE src == SourceOf(o, d, x)
<1>1. PICK r, p : Slot(o, w, e, r, p) /\ d = <<r, p>>
  BY SlotIs
<1>2. d[1] = r
  BY <1>1
<1>3. (\E n \in 1..o.fighters : src = SeedSource(n)) \/ Before(o, r, src.ref)
  <2>1. src = SourceOf(o, <<r, p>>, x)
    BY <1>1
  <2> HIDE DEF src
  <2> QED BY <1>1, <2>1, FromBefore
<1>4. \/ \E n : src = SeedSource(n)
      \/ \E sec, j, m : src = WinnerRef(sec, j, m)
      \/ \E sec, j, m : src = LoserRef(sec, j, m)
  BY SourceKinds
<1> HIDE DEF src
<1>5. src.takes \in {"seed", "winner", "loser"}
  BY <1>4, SourceParts
<1>6. ASSUME src.takes = "seed" PROVE \E n \in 1..o.fighters : src = SeedSource(n)
  <2>1. PICK n : src = SeedSource(n)
    BY <1>4, <1>6, SourceParts
  <2>2. src.ref = <<"seed", n, 0>>
    BY <2>1, SourceParts
  <2>3. ~Before(o, r, src.ref)
    BY <2>2, NoSlotIsASeed DEF Before
  <2> QED BY <1>3, <2>3
<1>7. src.takes = "seed" => src.ref[2] \in 1..o.fighters
  <2>1. \A n : SeedSource(n).ref[2] = n
    BY SourceParts
  <2> QED BY <1>6, <2>1
<1>8. ASSUME NEW s \in SlotsOf(o), Feeds(o, s, d, x) PROVE s[1] < d[1]
  <2>1. src.takes # "seed" /\ src.ref = SelfRefOf(o, s)
    BY <1>8 DEF Feeds, src
  <2>2. Before(o, r, src.ref)
    BY <1>3, <2>1, SourceParts
  <2>3. PICK t \in SlotsOf(o) : SelfRefOf(o, t) = src.ref /\ t[1] < r
    BY <2>2 DEF Before
  <2>4. t = s
    BY <2>1, <2>3, RefsDiffer
  <2> QED BY <1>2, <2>3, <2>4
<1> QED BY <1>5, <1>7, <1>8 DEF src

LEMMA SecondFinalFits ==
  ASSUME NEW o, NEW w, NEW e, Shaped(o, w, e), o.target = "gold"
  PROVE  LET f == <<FinalRound(o), 1>>
         IN  /\ f \in SlotsOf(o)
             /\ \A d \in SlotsOf(o), x, y \in {"a", "b"} : Feeds(o, f, d, x) => Feeds(o, f, d, y)
<1> DEFINE L == LbRounds(o)
           z == w + L + 1
<1>1. w \in Nat /\ L \in Nat /\ FinalRound(o) = z
  BY RoundsAre
<1>2. Slot(o, w, e, z, 1)
  <2>1. 1 \in Nat /\ 1 >= 1
    OBVIOUS
  <2> QED BY <2>1, SlotOf
<1>3. SelfRefOf(o, <<z, 1>>) = <<"GF", 0, 0>>
  BY <1>2, RefIs
<1> HIDE DEF z
<1>4. ASSUME NEW d \in SlotsOf(o), NEW x \in {"a", "b"}, Feeds(o, <<z, 1>>, d, x), NEW y \in {"a", "b"}
      PROVE  Feeds(o, <<z, 1>>, d, y)
  <2>1. PICK r, p : Slot(o, w, e, r, p) /\ d = <<r, p>>
    BY SlotIs
  <2>2. SourceOf(o, <<r, p>>, x).takes # "seed" /\ SourceOf(o, <<r, p>>, x).ref = <<"GF", 0, 0>>
    BY <1>3, <1>4, <2>1 DEF Feeds
  <2>3. r = w + L + 2
    <3>1. \/ \E n : SourceOf(o, <<r, p>>, x) = SeedSource(n)
          \/ \E sec, j, m : SourceOf(o, <<r, p>>, x) = WinnerRef(sec, j, m)
          \/ \E sec, j, m : SourceOf(o, <<r, p>>, x) = LoserRef(sec, j, m)
      BY SourceKinds
    <3>2. SourceOf(o, <<r, p>>, x) = WinnerRef("GF", 0, 0) \/ SourceOf(o, <<r, p>>, x) = LoserRef("GF", 0, 0)
      BY <2>2, <3>1, SourceParts
    <3>3. "GF" # "WB" /\ "GF" # "LB"
      OBVIOUS
    <3>4. CASE SourceOf(o, <<r, p>>, x) = WinnerRef("GF", 0, 0)
      BY <2>1, <3>3, <3>4, TakesWinner
    <3>5. CASE SourceOf(o, <<r, p>>, x) = LoserRef("GF", 0, 0)
      BY <2>1, <3>3, <3>5, TakesLoser
    <3> QED BY <3>2, <3>4, <3>5
  <2>4. SourceOf(o, <<r, p>>, y) = LoserRef("GF", 0, 0) \/ SourceOf(o, <<r, p>>, y) = WinnerRef("GF", 0, 0)
    <3>1. y = "a" => SourceOf(o, <<r, p>>, y) = LoserRef("GF", 0, 0)
      BY <2>1, <2>3, SourceIs
    <3>2. y = "b" => SourceOf(o, <<r, p>>, y) = WinnerRef("GF", 0, 0)
      BY <2>1, <2>3, SourceIs
    <3> QED BY <3>1, <3>2
  <2>5. SourceOf(o, <<r, p>>, y).takes # "seed" /\ SourceOf(o, <<r, p>>, y).ref = <<"GF", 0, 0>>
    BY <2>4, SourceParts
  <2> QED BY <1>3, <2>1, <2>5 DEF Feeds
<1>5. <<z, 1>> \in SlotsOf(o)
  BY <1>2, SlotIs
<1> QED BY <1>1, <1>4, <1>5

(* Every bracket the generator can make is one Bracket is about: its slots *)
(* go by references of their own, a seeded side has its fighter, a bout    *)
(* feeds later rounds only, and a second grand final has both its sides    *)
(* from the first (bracket-refs.ts reads the references the generator of   *)
(* double-elim-slots.ts wrote).                                            *)
THEOREM GeneratedBracketsFit ==
  \A top \in Nat : \A o \in Options(top) : Fit(o)
<1> TAKE top \in Nat
<1> TAKE o \in Options(top)
<1>1. PICK w, e : Shaped(o, w, e)
  BY ShapeIs
<1>2. IsFiniteSet(SlotsOf(o))
  BY <1>1, SlotsCounted
<1>3. \A s \in SlotsOf(o) : s[1] \in Nat
  <2> TAKE s \in SlotsOf(o)
  <2>1. PICK r, p : Slot(o, w, e, r, p) /\ s = <<r, p>>
    BY <1>1, SlotIs
  <2> QED BY <1>1, <2>1, SizeIs
<1>4. \A s, t \in SlotsOf(o) : SelfRefOf(o, s) = SelfRefOf(o, t) => s = t
  BY <1>1, RefsDiffer
<1>5. \A d \in SlotsOf(o), x \in {"a", "b"} :
        /\ SourceOf(o, d, x).takes \in {"seed", "winner", "loser"}
        /\ SourceOf(o, d, x).takes = "seed" => SourceOf(o, d, x).ref[2] \in 1..o.fighters
        /\ \A s \in SlotsOf(o) : Feeds(o, s, d, x) => s[1] < d[1]
  BY <1>1, SidesFit
<1>6. o.target = "gold" =>
        /\ <<FinalRound(o), 1>> \in SlotsOf(o)
        /\ \A d \in SlotsOf(o), x, y \in {"a", "b"} :
             Feeds(o, <<FinalRound(o), 1>>, d, x) => Feeds(o, <<FinalRound(o), 1>>, d, y)
  BY <1>1, SecondFinalFits
<1> QED BY <1>2, <1>3, <1>4, <1>5, <1>6 DEF Fit

=============================================================================
