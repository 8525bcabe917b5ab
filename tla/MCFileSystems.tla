--------------------------- MODULE MCFileSystems ---------------------------
(***************************************************************************)
(* Bitmap, BTree, Files and Amfs in one run.  They do not share state, so  *)
(* focus says which of them moves: the state spaces add up instead of      *)
(* multiplying.  Files is explored three times: names without a bound on   *)
(* the number of calls, descriptors and file data up to CallMax calls.     *)
(* The bitmap has a full region and a shorter last one.                    *)
(***************************************************************************)
EXTENDS Bitmap, BTree, Files, Amfs

CONSTANT CallMax
VARIABLES focus, calls

MCPath == {<<"a">>, <<"b">>, <<"a", "b">>, <<"b", "">>}
MCAPath == {<<"a">>, <<"b">>, <<"c">>, <<"a", "b">>}

AllInit ==
    /\ Init /\ BtInit /\ FilesInit /\ AmInit /\ calls = 0
    /\ focus \in {"bitmap", "tree", "names", "descriptors", "data", "amfs"}
    /\ focus # "tree" => root = 0

CountedCall == calls < CallMax /\ calls' = calls + 1
AllNext ==
    /\ UNCHANGED focus
    /\ \/ focus = "bitmap" /\ Next /\ UNCHANGED (<<btVars, fVars, amVars, calls>>)
       \/ focus = "tree" /\ BtNext /\ UNCHANGED (<<vars, fVars, amVars, calls>>)
       \/ focus = "names" /\ Names /\ UNCHANGED (<<vars, btVars, amVars, calls>>)
       \/ focus = "descriptors" /\ Descriptors /\ CountedCall /\ UNCHANGED (<<vars, btVars, amVars>>)
       \/ focus = "data" /\ RecordCalls /\ CountedCall /\ UNCHANGED (<<vars, btVars, amVars>>)
       \/ focus \in {"descriptors", "data"} /\ Remove_(<<"a">>) /\ CountedCall /\ UNCHANGED (<<vars, btVars, amVars>>)
       \/ focus = "data" /\ CreateFile(<<"a">>, TRUE) /\ CountedCall /\ UNCHANGED (<<vars, btVars, amVars>>)
       \/ focus = "amfs" /\ AmNext /\ UNCHANGED (<<vars, btVars, fVars, calls>>)

AllSpec == AllInit /\ [][AllNext]_<<vars, btVars, fVars, amVars, focus, calls>>
=============================================================================
