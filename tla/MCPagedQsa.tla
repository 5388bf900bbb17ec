----------------------------- MODULE MCPagedQsa -----------------------------
(* Groups of two, pages and rings of four, sequences of up to two pages: a ring
   that wraps within one prefill, and a boundary that two sequences share.    *)
EXTENDS PagedQsa
Shape(rows, pad, surplus, prefilling) ==
  [rows |-> rows, pad |-> pad, surplus |-> surplus, prefilling |-> prefilling]
MCShapes == {Shape(3, 0, 0, FALSE), Shape(2, 1, 0, FALSE), Shape(1, 0, 1, FALSE), Shape(5, 0, 0, TRUE)}
Symmetric == Permutations(Slots)
MCCompanions == {Shape(2, 1, 0, FALSE)}
=============================================================================
