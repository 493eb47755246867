-------------------------- MODULE MCSessionProjector --------------------------
(***************************************************************************)
(* Prompt cells with texts of their own, which are also what people type   *)
(* into the terminal: a cell stands for its text, so that cells can be     *)
(* exchanged.                                                              *)
(***************************************************************************)
EXTENDS SessionProjector, TLC

SourceOf == [c \in Cell |-> c]

Exchange == Permutations(Cell)

==============================================================================
