------------------------------- MODULE DirMap -------------------------------
(***************************************************************************)
(* What a directory promises its callers: a map from names to record       *)
(* numbers.  whole becomes FALSE when an operation ran out of disk blocks; *)
(* the code does not undo what it did up to there and promises nothing     *)
(* from then on.                                                           *)
(***************************************************************************)
EXTENDS Integers

CONSTANTS Key, Val

Absent == 0

VARIABLES
    dir,        \* name -> record, Absent where there is no entry
    whole

Init == dir = [k \in Key |-> Absent] /\ whole = TRUE

Insert(k, v) == whole = TRUE /\ dir' = [dir EXCEPT ![k] = v] /\ whole' = whole
Delete(k) == whole = TRUE /\ dir[k] # Absent /\ dir' = [dir EXCEPT ![k] = Absent] /\ whole' = whole
OutOfSpace == whole' = FALSE /\ dir' \in [Key -> Val \cup {Absent}]

Next == OutOfSpace \/ \E k \in Key : Delete(k) \/ \E v \in Val : Insert(k, v)

Spec == Init /\ [][Next]_<<dir, whole>>
=============================================================================
