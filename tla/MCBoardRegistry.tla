--------------------------- MODULE MCBoardRegistry ---------------------------
(* Boards 1 and 2 of instances 0 and 9: the driver lists both, one, two    *)
(* with the same id, or one whose id switches are all off beside another.  *)
(* The other machine has an instance of two digits.                        *)
EXTENDS BoardRegistry, TLC

B(inst, id) == [board_inst |-> inst, board_id |-> id]
TwoBoards == {<<B(0, 1)>>, <<B(0, 1), B(9, 2)>>, <<B(0, 2), B(9, 2)>>, <<B(0, 1), B(9, 0)>>}
EleventhBoard == {<<B(9, 1), B(10, 2)>>}

(* After a race the library may follow a list that is NULL; indices that  *)
(* were taken by overtaken calls are no longer told apart.                 *)
Undisturbed == breach \intersect {"raced", "overtaken"} = {}

Symmetry == Permutations(Threads)
=============================================================================
