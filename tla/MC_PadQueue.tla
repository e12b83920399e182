---------------------------- MODULE MC_PadQueue ----------------------------
(***************************************************************************)
(* Instances of PadQueue for TLC: rows of one bout, and rows of a second.  *)
(***************************************************************************)
EXTENDS PadQueue, TLC

CONSTANTS
  FirstBout, SecondBout,
  RowsOfSecond   \* the rows of the second bout; the others are the first's

TheBouts == {FirstBout, SecondBout}

TheBoutOf == [r \in Rows |-> IF r \in RowsOfSecond THEN SecondBout ELSE FirstBout]

=============================================================================
