----------------------------- MODULE MC_Bracket -----------------------------
(***************************************************************************)
(* The bracket the generator makes for a few fighters, gold and with a     *)
(* second grand final, as an instance of Bracket for TLC.  Fighters are    *)
(* their seeds.                                                            *)
(***************************************************************************)
EXTENDS Bracket, DoubleElim, TLC

CONSTANTS
  Entered,    \* the fighters entered
  TopShape    \* bound: the fighters of the brackets whose wiring is checked

ASSUME TopShapeAssumption == TopShape \in Nat

Chosen ==
  LET size == CHOOSE n \in Powers(Entered) : \A m \in Powers(Entered) : m <= n
  IN  [fighters |-> Entered, size |-> size, entry |-> size, target |-> "gold",
       bronze |-> FALSE, reset |-> TRUE]

\* Computed once: TLC keeps the value of a definition, tabulated by `@@`, and
\* evaluates the one a constant is replaced by at each use.
Table(f) == f @@ <<>>

ChosenSlots  == SlotsOf(Chosen)
ChosenRound  == Table([s \in ChosenSlots |-> s[1]])
ChosenRef    == Table([s \in ChosenSlots |-> SelfRefOf(Chosen, s)])
ChosenSource == Table([s \in ChosenSlots |->
                         [a |-> SourceOf(Chosen, s, "a"), b |-> SourceOf(Chosen, s, "b")]])
ChosenSeedOn == Table([s \in ChosenSlots |->
                         [a |-> ChosenSource[s].a.ref[2], b |-> ChosenSource[s].b.ref[2]]])
ChosenFinal  == <<FinalRound(Chosen), 1>>

TheFighters == 1..Entered
TheSlots    == ChosenSlots
TheRound    == ChosenRound
TheSelfRef  == ChosenRef
TheSource   == ChosenSource
TheSeedOn   == ChosenSeedOn
TheFinal    == ChosenFinal

RequestSymmetry == Permutations(Requests)

(* Every bracket the generator can make, of up to so many fighters, is     *)
(* wired: a reference that met no slot would stall the bracket without an  *)
(* error (bracket-refs.ts).                                                *)
EveryBracketIsWired == Init => \A o \in Options(TopShape) : Wired(o)
=============================================================================
