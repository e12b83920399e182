------------------------------ MODULE MC_Bout ------------------------------
(***************************************************************************)
(* Instances of Bout for TLC: hits of two sides, and the presses of one    *)
(* clock.                                                                  *)
(***************************************************************************)
EXTENDS Bout, TLC

CONSTANTS
  RedHits, BlueHits,
  Starts, Halts, Resumes, Ends   \* the presses by what they ask for

TheHits    == RedHits \cup BlueHits
ThePresses == Starts \cup Halts \cup Resumes \cup Ends

TheSideOf == [h \in TheHits |-> IF h \in RedHits THEN "red" ELSE "blue"]

TheActionOf == [p \in ThePresses |->
  CASE p \in Starts  -> "start"  [] p \in Halts -> "halt"
    [] p \in Resumes -> "resume" [] OTHER       -> "end"]

=============================================================================
