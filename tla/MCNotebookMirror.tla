--------------------------- MODULE MCNotebookMirror ---------------------------
(* A small instance of NotebookMirror: one busy cell among others. *)
EXTENDS NotebookMirror

CONSTANTS c1, c2, c3

\* Cells that only move differ in nothing but their names, and so do runs.
Symmetry == Permutations({c2, c3}) \cup Permutations(Run)

==============================================================================
