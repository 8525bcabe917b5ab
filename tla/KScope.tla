------------------------------- MODULE KScope -------------------------------
(***************************************************************************)
(* The registry of kernel subsystems (kernel/kscope.c): nodes are          *)
(* registered one after the other, sorted by their dependencies, brought   *)
(* up in that order and shut down in the opposite one.                     *)
(*                                                                         *)
(* A node is a number; requires[n] is traversed in ascending order.  Names *)
(* and classes only appear in listings and are left out.  A node's init    *)
(* callback is a step of its own, with any result.                         *)
(***************************************************************************)
EXTENDS Naturals, Sequences, SequencesExt, FiniteSets

CONSTANTS KNode,        \* the nodes, registered in ascending order
          KsMaxNodes,   \* KSCOPE_MAX_NODES
          RequireMax    \* the most dependencies a node has

VARIABLES ksId,         \* node -> its id
          requires,     \* node -> the nodes it depends on
          registry,     \* the registered nodes, in order
          state,        \* node -> registered (0, the static value) | probing | ok | failed
          ksPhase,      \* registering | probing | up | stopping | halted
          ksTodo        \* nodes the current pass has still to visit

ksVars == <<ksId, requires, registry, state, ksPhase, ksTodo>>

Registered == Range(registry)
-----------------------------------------------------------------------------
RECURSIVE kscope_mark_failed(_, _)
kscope_mark_failed(st, n) ==
    FoldLeft(LAMBDA s, d : IF s[d] = "registered" /\ n \in requires[d]
                           THEN kscope_mark_failed(s, d) ELSE s,
             [st EXCEPT ![n] = "failed"], registry)

kscope_check_deps(n) == \A r \in requires[n] : state[r] = "ok"

(* One turn of the loop over the DFS stack.  A node is entered once; when  *)
(* it comes to the top again and is still being visited, the code takes    *)
(* that for a cycle and gives up.                                          *)
Enter(c, n) ==
    LET deps    == SetToSortSeq(requires[n], <)
        strange == SelectInSeq(deps, LAMBDA d : d \notin Registered)
        known   == IF strange = 0 THEN deps ELSE SubSeq(deps, 1, strange - 1)
        seen    == [c.visited EXCEPT ![n] = 1]
        pushed  == SelectSeq(known, LAMBDA d : seen[d] = 0)
    IN  IF strange = 0 /\ pushed # <<>>
        THEN [c EXCEPT !.visited = seen, !.stack = @ \o pushed]
        ELSE [c EXCEPT !.visited = [seen EXCEPT ![n] = 2],
                       !.stack   = Front(@ \o pushed),
                       !.order   = Append(@, n),
                       !.state   = IF strange = 0 THEN @ ELSE kscope_mark_failed(@, n)]

RECURSIVE Dfs(_)
Dfs(c) ==
    IF c.stack = <<>> \/ c.cycle THEN c
    ELSE LET n == Last(c.stack)
         IN  CASE c.visited[n] = 2 -> Dfs([c EXCEPT !.stack = Front(@)])
               [] c.visited[n] = 1 ->
                    [c EXCEPT !.cycle = TRUE,
                              !.state = [m \in KNode |->
                                  IF m \in Range(c.stack) THEN "failed" ELSE @[m]]]
               [] OTHER -> Dfs(Enter(c, n))

kscope_topo_sort ==
    FoldLeft(LAMBDA c, n : IF c.cycle \/ c.visited[n] = 2 THEN c
                           ELSE Dfs([c EXCEPT !.stack = <<n>>]),
             [visited |-> [n \in KNode |-> 0], stack |-> <<>>, order |-> <<>>,
              state |-> state, cycle |-> FALSE],
             registry)
-----------------------------------------------------------------------------
KsInit ==
    /\ ksId \in {[n \in KNode |-> n], [n \in KNode |-> IF n = 3 THEN 1 ELSE n]}
    /\ requires \in [KNode -> {R \in SUBSET KNode : Cardinality(R) <= RequireMax}]
    /\ registry = <<>> /\ state = [n \in KNode |-> "registered"]
    /\ ksPhase = "registering" /\ ksTodo = SetToSortSeq(KNode, <)

(* kscope_register refuses a node when the registry is full or its id is   *)
(* taken.                                                                  *)
kscope_register ==
    /\ ksPhase = "registering" /\ ksTodo # <<>>
    /\ LET n == Head(ksTodo)
       IN  registry' = IF \/ Len(registry) >= KsMaxNodes
                          \/ \E r \in Registered : ksId[r] = ksId[n]
                       THEN registry ELSE Append(registry, n)
    /\ ksTodo' = Tail(ksTodo)
    /\ UNCHANGED <<ksId, requires, state, ksPhase>>

kscope_probe_all ==
    /\ ksPhase = "registering" /\ ksTodo = <<>>
    /\ \E c \in {kscope_topo_sort} :
          /\ state' = c.state
          /\ ksTodo' = IF c.cycle THEN <<>> ELSE c.order
    /\ ksPhase' = "probing"
    /\ UNCHANGED <<ksId, requires, registry>>

(* The next node of the order: passed over, refused, or asked to start.    *)
Probe ==
    /\ ksPhase = "probing" /\ ksTodo # <<>>
    /\ state[Head(ksTodo)] # "probing"
    /\ LET n == Head(ksTodo)
       IN  IF state[n] # "registered" THEN state' = state /\ ksTodo' = Tail(ksTodo)
           ELSE IF ~kscope_check_deps(n)
           THEN state' = kscope_mark_failed(state, n) /\ ksTodo' = Tail(ksTodo)
           ELSE state' = [state EXCEPT ![n] = "probing"] /\ ksTodo' = ksTodo
    /\ UNCHANGED <<ksId, requires, registry, ksPhase>>

(* node->init() returns.                                                   *)
InitReturns(err) ==
    /\ ksPhase = "probing" /\ ksTodo # <<>> /\ state[Head(ksTodo)] = "probing"
    /\ state' = IF err THEN kscope_mark_failed(state, Head(ksTodo))
                ELSE [state EXCEPT ![Head(ksTodo)] = "ok"]
    /\ ksTodo' = Tail(ksTodo)
    /\ UNCHANGED <<ksId, requires, registry, ksPhase>>

ProbeEnds ==
    /\ ksPhase = "probing" /\ ksTodo = <<>> /\ ksPhase' = "up"
    /\ UNCHANGED <<ksId, requires, registry, state, ksTodo>>

ShutdownOrder_Forward(order) == order
ShutdownOrder(order) == Reverse(order)

kscope_shutdown_all ==
    /\ ksPhase = "up"
    /\ \E c \in {kscope_topo_sort} :
          /\ state' = c.state
          /\ ksTodo' = IF c.cycle THEN <<>> ELSE ShutdownOrder(c.order)
    /\ ksPhase' = "stopping"
    /\ UNCHANGED <<ksId, requires, registry>>

ShutdownNext ==
    /\ ksPhase = "stopping"
    /\ \/ /\ ksTodo # <<>>
          /\ state' = IF state[Head(ksTodo)] = "ok"
                      THEN [state EXCEPT ![Head(ksTodo)] = "registered"] ELSE state
          /\ ksTodo' = Tail(ksTodo) /\ UNCHANGED ksPhase
       \/ ksTodo = <<>> /\ ksPhase' = "halted" /\ UNCHANGED <<state, ksTodo>>
    /\ UNCHANGED <<ksId, requires, registry>>

KsNext ==
    \/ kscope_register \/ kscope_probe_all \/ Probe \/ ProbeEnds
    \/ \E err \in BOOLEAN : InitReturns(err)
    \/ kscope_shutdown_all \/ ShutdownNext
-----------------------------------------------------------------------------
(* Whatever the dependency graph, the order of registration and the nodes  *)
(* that fail: a subsystem that is starting or up rests only on subsystems  *)
(* that are up, while the kernel starts and while it shuts down            *)
(* (kscope_topo_sort, kscope_check_deps and kscope_mark_failed together).  *)
OkRestsOnOk ==
    \A n \in Registered : state[n] \in {"probing", "ok"} =>
        \A r \in requires[n] : state[r] = "ok"
=============================================================================
