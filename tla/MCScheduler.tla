---------------------------- MODULE MCScheduler ----------------------------
(***************************************************************************)
(* The scheduler, the kernel heap and the window manager in one run.  They *)
(* do not share state, so focus says which of them moves: the state spaces *)
(* add up instead of multiplying.                                          *)
(***************************************************************************)
EXTENDS Scheduler, Heap, Windows

VARIABLE focus

\* Windows that fit on the screen, that leave it on one side and that are
\* wider than it.
MCWinX == {-1, 1}

AllInit ==
    /\ focus \in {"scheduler", "heap", "windows"}
    /\ Init /\ HeapInit /\ WinInit

AllNext ==
    /\ UNCHANGED focus
    /\ \/ focus = "scheduler" /\ Next /\ UNCHANGED <<heapVars, winVars>>
       \/ focus = "heap" /\ HeapNext /\ UNCHANGED <<vars, winVars>>
       \/ focus = "windows" /\ WinNext /\ UNCHANGED <<vars, heapVars>>

AllSpec == AllInit /\ [][AllNext]_<<focus, vars, heapVars, winVars>>

\* Exploration stops where schedule() met a task that was not waiting to run.
UntilAstray == ~s.astray
=============================================================================
