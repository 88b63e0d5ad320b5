---------------------------- MODULE MCSearchWindow ----------------------------
(* Model checking of SearchWindow: user threads are interchangeable.         *)
EXTENDS SearchWindow, TLC

\* For the safety runs only.
Symmetry == Permutations(Users)
=============================================================================
