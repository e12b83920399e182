----------------------------- MODULE MC_PadUndo -----------------------------
(***************************************************************************)
(* Instances of PadUndo for TLC.                                           *)
(***************************************************************************)
EXTENDS PadUndo

CONSTANT TheBout   \* the one bout scored

TheBouts == {TheBout}

TheBoutOf == [r \in Rows |-> TheBout]

=============================================================================
