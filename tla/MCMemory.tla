------------------------------ MODULE MCMemory ------------------------------
(* Instances of Memory for TLC. *)
EXTENDS Memory, TLC

\* Frame 0 is reserved, frame 2 is a hole, and the first region is not aligned.
McAvailable == {[start |-> 1, length |-> 3], [start |-> 6, length |-> 10]}
McReserved == {[start |-> 0, length |-> 2]}

Symmetry == Permutations(Client)
=============================================================================
