---------------------------- MODULE MCBoardRegs -----------------------------
(* Two selections, and threads that are interchangeable.                   *)
EXTENDS BoardRegs, TLC

TwoSelections == {<<1, 2, 3, 4, 5, 6, 7, 8>>, <<8, 7, 6, 5, 4, 3, 2, 100>>}

Symmetry == Permutations(Threads)
=============================================================================
