----------------------------- MODULE Scheduler -----------------------------
(***************************************************************************)
(* Tasks, ready queues and timer wheel (arch/x86/common/scheduler.c,       *)
(* arch/x86/64/task.c) with the mutex and the semaphore of sync/ on top.   *)
(*                                                                         *)
(* There is one processor.  s is the memory that the list operations work  *)
(* on, link by link, so that an operation on the wrong list has the effect *)
(* that it has in the code.  A task is its slot of task_table: 0 is the    *)
(* idle task, 1 the reaper.  Operations of tasks run with interrupts on    *)
(* and may be cut by a timer tick between the calls that they make (a list *)
(* operation is one step); those of locks hold a spinlock with interrupts  *)
(* off.                                                                    *)
(***************************************************************************)
EXTENDS Integers, Sequences, FiniteSets, SequencesExt

CONSTANTS
    Slots,          \* TASK_MAX_TASKS
    Normal, RealTime, Critical, \* priorities; 0 is TASK_PRIO_IDLE
    UserPrio,       \* bound: priorities that tasks are created with
    WheelSize,      \* TIMER_WHEEL_SIZE
    Sleeps,         \* bound: timeouts in ticks
    ReapTicks,      \* the reaper's pause
    AboveNorm,      \* TASK_PRIO_ABOVE_NORM
    MaxUnits,       \* max_units of the semaphore, which starts with as many
    Locking,        \* whether tasks use the mutex and the semaphore
    MaxTick         \* bound: ticks

Task == 0 .. Slots - 1
Idle == 0
Reaper == 1
Nil == -1
Never == -1
Lost == -2           \* irq: the task was destroyed
Prio == 0 .. Critical

ASSUME SchedulerAssumption ==
    /\ {Slots, WheelSize, Normal, AboveNorm, RealTime, Critical} \subseteq Nat \ {0} /\ Slots > 2
    /\ 0 < Normal /\ Normal < AboveNorm /\ AboveNorm < RealTime /\ RealTime <= Critical
    /\ UserPrio \subseteq Prio /\ Sleeps \subseteq Nat \ {0}
    /\ {ReapTicks, MaxUnits, MaxTick} \subseteq Nat /\ Locking \in BOOLEAN

VARIABLES
    s,          \* the tasks, lists and tick counter, see Boot
    at,         \* where each task is in its own code
    wait,       \* the timeout of the call that a task is in
    irq,        \* the task whose timer interrupt has not been acknowledged
    mutex,      \* spin, locked, owner, orig
    sem,        \* spin, units
    held,       \* history: tasks whose mutex_lock succeeded
    taken,      \* history: semaphore units that each task has
    pit         \* history: timer interrupts that the processor took

vars == <<s, at, wait, irq, mutex, sem, held, taken, pit>>

-----------------------------------------------------------------------------
(***************************************************************************)
(* scheduler.c: ready lists.                                               *)
(***************************************************************************)
Set(S, t, f, v) == [S EXCEPT !.task[t][f] = v]
Link(S, t, f, v) == IF t = Nil THEN S ELSE Set(S, t, f, v)

scheduler_add(S, t) ==
    LET p == S.task[t].prio
        l == S.tail[p]
        T == Set(Set(Set(S, t, "state", "ready"), t, "next", Nil), t, "prev", l)
    IN  IF l # Nil THEN [Set(T, l, "next", t) EXCEPT !.tail[p] = t]
        ELSE [T EXCEPT !.head[p] = t, !.tail[p] = t, !.bits = @ \cup {p}]

\* With the list of the task's present priority, whichever list it is on.
scheduler_remove(S, t) ==
    LET p == S.task[t].prio
        n == S.task[t].next
        v == S.task[t].prev
        A == IF v # Nil THEN Set(S, v, "next", n) ELSE [S EXCEPT !.head[p] = n]
        B == IF n # Nil THEN Set(A, n, "prev", v) ELSE [A EXCEPT !.tail[p] = v]
        C == Set(Set(B, t, "next", Nil), t, "prev", Nil)
    IN  IF S.task[t].state # "ready" THEN S
        ELSE IF C.head[p] = Nil THEN [C EXCEPT !.bits = @ \ {p}] ELSE C

\* scheduler_next: bits of empty lists are cleared on the way down.
Highest(S) == {p \in S.bits : S.head[p] # Nil /\ \A q \in S.bits : q > p => S.head[q] = Nil}
NextReady(S) ==
    IF Highest(S) = {} THEN [task |-> S.head[0], bits |-> {}]
    ELSE LET p == CHOOSE p \in Highest(S) : TRUE
         IN  [task |-> S.head[p], bits |-> {q \in S.bits : q <= p}]

\* Mutation: the task that ran keeps its state.
Schedule_Forgets(S) ==
    LET n == NextReady(S).task
        A == [S EXCEPT !.bits = NextReady(S).bits]
        B == IF S.cur # Nil /\ S.task[S.cur].state = "running"
             THEN Set(scheduler_add(A, S.cur), S.cur, "state", "running") ELSE A
    IN  IF n = Nil THEN [A EXCEPT !.astray = @ \/ (S.cur # Nil /\ S.task[S.cur].state # "running")]
        ELSE IF n = S.cur THEN [A EXCEPT !.astray = TRUE]
        ELSE [Set(scheduler_remove(B, n), n, "state", "running") EXCEPT !.cur = n]

\* schedule and context_switch.  astray records that the ready lists had a
\* task that was not waiting to run, or had lost even the idle task when the
\* caller could not go on.
Schedule(S) ==
    LET n == NextReady(S).task
        A == [S EXCEPT !.bits = NextReady(S).bits]
        B == IF S.cur # Nil /\ S.task[S.cur].state = "running" THEN scheduler_add(A, S.cur) ELSE A
    IN  IF n = Nil THEN [A EXCEPT !.astray = @ \/ (S.cur # Nil /\ S.task[S.cur].state # "running")]
        ELSE IF n = S.cur THEN [A EXCEPT !.astray = TRUE]
        ELSE [Set(scheduler_remove(B, n), n, "state", "running") EXCEPT
                !.cur = n, !.astray = @ \/ S.task[n].state # "ready"]

-----------------------------------------------------------------------------
(***************************************************************************)
(* The timer wheel.  A new task's bucket is 0 (from memset) and no bucket  *)
(* is Never (0xFFFFFFFF).                                                  *)
(***************************************************************************)
WheelRemove(S, t) ==
    LET b == S.task[t].bucket
        n == S.task[t].tnext
        v == S.task[t].tprev
        A == IF v # Nil THEN Set(S, v, "tnext", n) ELSE [S EXCEPT !.wheel[b] = n]
        B == Link(A, n, "tprev", v)
    IN  IF b = Never THEN S
        ELSE Set(Set(Set(B, t, "tnext", Nil), t, "tprev", Nil), t, "bucket", Never)

WheelInsert(S, t, ticks) ==
    LET A == WheelRemove(S, t)
        b == (A.tick + ticks) % WheelSize
        B == Link(Set(Set(Set(A, t, "bucket", b), t, "tnext", A.wheel[b]), t, "tprev", Nil),
                  A.wheel[b], "tprev", t)
    IN  [B EXCEPT !.wheel[b] = t]

Chain(S, b) ==
    LET walk[k \in 0 .. Slots] ==
            IF k = 0 THEN <<>>
            ELSE LET c == walk[k - 1]
                     n == IF c = <<>> THEN S.wheel[b] ELSE S.task[Last(c)].tnext
                 IN  IF n = Nil \/ Len(c) < k - 1 THEN c ELSE Append(c, n)
    IN  walk[Slots]

-----------------------------------------------------------------------------
(***************************************************************************)
(* task_queue_push, task_queue_remove: wait queues.                        *)
(***************************************************************************)
Push(S, q, t) ==
    LET l == S.qtail[q]
        A == Set(Set(Set(S, t, "wnext", Nil), t, "wprev", l), t, "queue", q)
        B == IF l # Nil THEN Set(A, l, "wnext", t) ELSE [A EXCEPT !.qhead[q] = t]
    IN  [B EXCEPT !.qtail[q] = t]

Unqueue(S, t) ==
    LET q == S.task[t].queue
        n == S.task[t].wnext
        v == S.task[t].wprev
        A == IF v # Nil THEN Set(S, v, "wnext", n) ELSE [S EXCEPT !.qhead[q] = n]
        B == IF n # Nil THEN Set(A, n, "wprev", v) ELSE [A EXCEPT !.qtail[q] = v]
    IN  IF q = "none" THEN S
        ELSE Set(Set(Set(B, t, "wnext", Nil), t, "wprev", Nil), t, "queue", "none")

-----------------------------------------------------------------------------
\* Mutation: a waiter that times out stays on its wait queue.
Expire_StaysQueued(S, t) ==
    LET A == Set(WheelRemove(S, t), t, "until", 0)
    IN  CASE S.task[t].until > S.tick -> S
          [] S.task[t].state = "sleeping" -> scheduler_add(A, t)
          [] S.task[t].state = "blocked" -> scheduler_add(Set(A, t, "reason", "timeout"), t)
          [] OTHER -> WheelRemove(S, t)

\* A task of the bucket of this tick.
Expire(S, t) ==
    LET A == Set(WheelRemove(S, t), t, "until", 0)
    IN  CASE S.task[t].until > S.tick -> S
          [] S.task[t].state = "sleeping" -> scheduler_add(A, t)
          [] S.task[t].state = "blocked" -> scheduler_add(Set(Unqueue(A, t), t, "reason", "timeout"), t)
          [] OTHER -> WheelRemove(S, t)

\* scheduler_timer_wheel_tick, after tick_count was advanced.
WheelTick(S) ==
    LET T == [S EXCEPT !.tick = @ + 1]
    IN  FoldLeft(Expire, T, Chain(T, T.tick % WheelSize))

-----------------------------------------------------------------------------
(***************************************************************************)
(* task.c                                                                  *)
(***************************************************************************)
Blank == [state |-> "free", prio |-> 0, base |-> 0, next |-> Nil, prev |-> Nil,
          until |-> 0, tnext |-> Nil, tprev |-> Nil, bucket |-> 0, reason |-> "none",
          queue |-> "none", wnext |-> Nil, wprev |-> Nil, quantum |-> 0, full |-> 0]

prio_to_quantum(p) ==
    CASE p >= RealTime -> 6 [] p >= AboveNorm /\ p < RealTime -> 2
      [] p >= Normal /\ p < AboveNorm -> 4 [] OTHER -> 8

\* task_create_arg_prio in slot t.
Created(S, t, p) ==
    scheduler_add([S EXCEPT !.task[t] = [Blank EXCEPT !.prio = p, !.base = p,
                               !.quantum = prio_to_quantum(p), !.full = prio_to_quantum(p)]], t)

\* Idle's quantum of 2^32 - 1 does not end within the bound.
Forever == MaxTick + 1

\* scheduler_init and task_init: idle's priority is lowered after it was put
\* on a ready list.
Boot ==
    LET empty == [task |-> [t \in Task |-> Blank],
                  head |-> [p \in Prio |-> Nil], tail |-> [p \in Prio |-> Nil], bits |-> {},
                  wheel |-> [b \in 0 .. WheelSize - 1 |-> Nil],
                  qhead |-> [q \in {"mutex", "sem"} |-> Nil],
                  qtail |-> [q \in {"mutex", "sem"} |-> Nil], cur |-> Nil, tick |-> 0, astray |-> FALSE]
        idle == [Created(empty, Idle, Normal) EXCEPT
                   !.task[Idle].prio = 0, !.task[Idle].base = 0,
                   !.task[Idle].quantum = Forever, !.task[Idle].full = Forever]
    IN  Created(idle, Reaper, Critical)

\* task_destroy: the memory goes back to the heap.
Destroyed(S, t) ==
    [Unqueue(WheelRemove(scheduler_remove(S, t), t), t) EXCEPT !.task[t] = Blank]

\* scheduler_reap.
Reaped(S) ==
    FoldLeft(LAMBDA A, t : IF /\ A.task[t].state = "zombie"
                              /\ t # A.cur /\ t # A.head[0]
                           THEN Destroyed(A, t) ELSE A,
             S, [i \in 1 .. Slots |-> i - 1])

\* task_wake of one task.
Woken(S, t) ==
    IF S.task[t].state = "sleeping" THEN scheduler_add(Set(WheelRemove(S, t), t, "until", 0), t) ELSE S

\* A change of priority takes the task off the list of its new priority.
Reprio(S, t, p) ==
    LET A == Set(S, t, "prio", p)
    IN  IF S.task[t].state = "ready" THEN scheduler_add(scheduler_remove(A, t), t) ELSE A

\* task_boost_priority and task_unboost_priority.
Boosted(S, t, p) ==
    IF S.task[t].base >= RealTime \/ p <= S.task[t].base THEN S ELSE Reprio(S, t, p)
Unboosted(S, t) ==
    IF S.task[t].prio = S.task[t].base THEN S ELSE Reprio(S, t, S.task[t].base)

\* task_block_on up to its call of schedule; 0 is TASK_NO_TIMEOUT.
Blocked(S, t, q, n) ==
    LET A == Set(Set(S, t, "state", "blocked"), t, "reason", "none")
        B == Push(Set(A, t, "until", IF n > 0 THEN S.tick + n ELSE 0), q, t)
    IN  IF n > 0 THEN WheelInsert(B, t, n) ELSE B

\* task_wake_one.
WakeOne(S, q) ==
    LET t == S.qhead[q]
        A == WheelRemove(Unqueue(S, t), t)
    IN  IF t = Nil THEN S
        ELSE scheduler_add(Set(Set(A, t, "reason", "signaled"), t, "until", 0), t)

-----------------------------------------------------------------------------
(***************************************************************************)
(* Steps.  The processor is in the code of task s.cur, or still in the     *)
(* boot code (Nil).  When a task that was preempted by the timer runs      *)
(* again, isr_handler gets to pic_eoi; until then the controller holds     *)
(* back further ticks.                                                     *)
(***************************************************************************)
me == s.cur
Calls(c) == me = c /\ c \notin {Nil, Idle} /\ at[c] = "task"

\* Memory becomes S and the processor goes on in S.cur.
Switch(S) ==
    /\ s' = S
    /\ irq' = IF irq = S.cur THEN Nil ELSE irq

Init ==
    /\ s = Boot
    /\ at = [t \in Task |-> "task"]
    /\ wait = [t \in Task |-> 0]
    /\ irq = Nil
    /\ mutex = [spin |-> 0, locked |-> FALSE, owner |-> Nil, orig |-> 0]
    /\ sem = [spin |-> 0, units |-> MaxUnits]
    /\ held = {}
    /\ taken = [t \in Task |-> 0]
    /\ pit = 0

locks == <<mutex, sem, held, taken>>

\* The boot code yields (task_yield) with no task current: the first schedule().
Start == me = Nil /\ Switch(Schedule(s)) /\ UNCHANGED <<at, wait, locks>>

\* task_create_prio in the first free slot, by a task or by the boot code.
Create(t, p) ==
    /\ me = Nil \/ (Calls(me) /\ me # Reaper)
    /\ s.task[t].state = "free" /\ \A u \in Task : u < t => s.task[u].state # "free"
    /\ s' = Created(s, t, p)
    /\ at' = [at EXCEPT ![t] = "task"]
    /\ UNCHANGED <<wait, irq, locks>>

task_yield(c) ==
    /\ Calls(c) /\ c # Reaper
    /\ Switch(Schedule(Set(s, c, "quantum", s.task[c].full)))
    /\ UNCHANGED <<at, wait, locks>>

\* task_sleep up to the change of state, the insertion, and schedule().
SleepIn(S, c, n) == Set(Set(S, c, "until", S.tick + n), c, "state", "sleeping")
task_sleep(c, n) ==
    /\ Calls(c) /\ c # Reaper /\ s.tick + n <= MaxTick
    /\ s' = SleepIn(s, c, n)
    /\ at' = [at EXCEPT ![c] = "sleep1"] /\ wait' = [wait EXCEPT ![c] = n]
    /\ UNCHANGED <<irq, locks>>

\* A pass of the reaper's loop.
reaper_entry ==
    /\ Calls(Reaper) /\ s.tick + ReapTicks <= MaxTick
    /\ s' = SleepIn(Reaped(s), Reaper, ReapTicks)
    /\ irq' = IF irq \in Task /\ Reaped(s).task[irq].state = "free" THEN Lost ELSE irq
    /\ at' = [at EXCEPT ![Reaper] = "sleep1"] /\ wait' = [wait EXCEPT ![Reaper] = ReapTicks]
    /\ UNCHANGED locks

SleepInsert(c) ==
    /\ me = c /\ c # Nil /\ at[c] = "sleep1"
    /\ s' = WheelInsert(s, c, wait[c])
    /\ at' = [at EXCEPT ![c] = "sleep2"]
    /\ UNCHANGED <<wait, irq, locks>>

SleepSwitch(c) ==
    /\ me = c /\ c # Nil /\ at[c] = "sleep2"
    /\ Switch(Schedule(s))
    /\ at' = [at EXCEPT ![c] = "task"] /\ wait' = [wait EXCEPT ![c] = 0]
    /\ UNCHANGED locks

task_wake(c, t) ==
    Calls(c) /\ c # Reaper /\ s.task[t].state = "sleeping"
    /\ s' = Woken(s, t) /\ UNCHANGED <<at, wait, irq, locks>>

task_wake_all(c) ==
    /\ Calls(c) /\ c # Reaper
    /\ s' = FoldLeft(Woken, s, [i \in 1 .. Slots |-> i - 1])
    /\ UNCHANGED <<at, wait, irq, locks>>

\* task_exit up to its printk, and schedule().
task_exit(c) ==
    /\ Calls(c) /\ c # Reaper /\ c \notin held /\ taken[c] = 0
    /\ s' = Set(s, c, "state", "zombie")
    /\ at' = [at EXCEPT ![c] = "exit"]
    /\ UNCHANGED <<wait, irq, locks>>

ExitSwitch(c) ==
    /\ me = c /\ c # Nil /\ at[c] = "exit"
    /\ Switch(Schedule(s))
    /\ at' = [at EXCEPT ![c] = "dead"]
    /\ UNCHANGED <<wait, locks>>

\* scheduler_tick once the wheel was advanced.
Quantum(S) ==
    LET c == S.cur
        q == S.task[c].quantum
        l == IF q > 0 THEN q - 1 ELSE 0
    IN  IF c = Nil THEN S
        ELSE IF l > 0 THEN Set(S, c, "quantum", l)
        ELSE Schedule(Set(S, c, "quantum", S.task[c].full))

\* Interrupts are off where a task spins and where it is back
\* from schedule() inside a lock's call.
TickDue ==
    /\ s.tick < MaxTick /\ irq = Nil
    /\ me # Nil => at[me] \notin {"spin", "mutex", "sem"}

timer_callback ==
    /\ TickDue
    /\ LET S == Quantum(WheelTick(s))
       IN  s' = S /\ irq' = IF S.cur = me THEN Nil ELSE me
    /\ UNCHANGED <<at, wait, locks>>

-----------------------------------------------------------------------------
(***************************************************************************)
(* sync/mutex.c and sync/semaphore.c.  Both enter schedule() with their    *)
(* spinlock held; whoever then asks for it spins with interrupts off.      *)
(***************************************************************************)
Asks(c) == Locking /\ Calls(c) /\ c # Reaper
Spin(c) == at' = [at EXCEPT ![c] = "spin"] /\ UNCHANGED <<s, irq, wait, locks>>

TakeMutex(c) ==
    /\ mutex' = [spin |-> 0, locked |-> TRUE, owner |-> c, orig |-> s.task[c].base]
    /\ held' = held \cup {c}

\* A pass of mutex_lock's loop from where the spinlock is acquired, with n
\* ticks of patience (0: for ever).
MutexPass(c, n) ==
    IF ~mutex.locked
    THEN TakeMutex(c) /\ at' = [at EXCEPT ![c] = "task"] /\ wait' = wait /\ UNCHANGED <<s, irq>>
    ELSE LET p == s.task[c].prio
             S == IF s.task[mutex.owner].prio < p THEN Boosted(s, mutex.owner, p) ELSE s
         IN  /\ Switch(Schedule(Blocked(S, c, "mutex", n)))
             /\ mutex' = [mutex EXCEPT !.spin = 1]
             /\ at' = [at EXCEPT ![c] = "mutex"] /\ wait' = [wait EXCEPT ![c] = n]
             /\ held' = held

mutex_lock(c, n) ==
    /\ Asks(c) /\ mutex.owner # c /\ s.tick + n <= MaxTick
    /\ IF mutex.spin = 1 THEN Spin(c) ELSE MutexPass(c, n) /\ UNCHANGED <<sem, taken>>

\* Mutation: a wait that timed out counts as success.
MutexReturn_Owns(c) ==
    /\ me = c /\ c # Nil /\ at[c] = "mutex"
    /\ at' = [at EXCEPT ![c] = "task"] /\ wait' = [wait EXCEPT ![c] = 0]
    /\ mutex' = [mutex EXCEPT !.spin = 0] /\ held' = held \cup {c}
    /\ UNCHANGED <<s, irq, sem, taken>>

\* task_block_on returns into mutex_lock: the spinlock is released, a timeout
\* returns 0 and anything else tries again.
MutexReturn(c) ==
    /\ me = c /\ c # Nil /\ at[c] = "mutex"
    /\ IF s.task[c].reason = "timeout"
       THEN /\ at' = [at EXCEPT ![c] = "task"] /\ wait' = [wait EXCEPT ![c] = 0]
            /\ mutex' = [mutex EXCEPT !.spin = 0]
            /\ UNCHANGED <<s, irq, held>>
       ELSE MutexPass(c, wait[c])
    /\ UNCHANGED <<sem, taken>>

mutex_trylock(c) ==
    /\ Asks(c)
    /\ IF mutex.spin = 1 THEN Spin(c)
       ELSE /\ ~mutex.locked /\ TakeMutex(c)
            /\ UNCHANGED <<s, at, wait, irq, sem, taken>>

mutex_unlock(c) ==
    /\ Asks(c) /\ mutex.owner = c
    /\ IF mutex.spin = 1 THEN Spin(c)
       ELSE /\ s' = WakeOne(IF s.task[c].prio # mutex.orig THEN Unboosted(s, c) ELSE s, "mutex")
            /\ mutex' = [spin |-> 0, locked |-> FALSE, owner |-> Nil, orig |-> 0]
            /\ held' = held \ {c}
            /\ UNCHANGED <<at, wait, irq, sem, taken>>

\* A pass of sem_wait's loop for one unit.
SemPass(c, n) ==
    IF sem.units >= 1
    THEN /\ sem' = [spin |-> 0, units |-> sem.units - 1]
         /\ taken' = [taken EXCEPT ![c] = @ + 1]
         /\ at' = [at EXCEPT ![c] = "task"] /\ wait' = wait /\ UNCHANGED <<s, irq>>
    ELSE /\ Switch(Schedule(Blocked(s, c, "sem", n)))
         /\ sem' = [sem EXCEPT !.spin = 1]
         /\ at' = [at EXCEPT ![c] = "sem"] /\ wait' = [wait EXCEPT ![c] = n]
         /\ taken' = taken

sem_wait(c, n) ==
    /\ Asks(c) /\ s.tick + n <= MaxTick
    /\ IF sem.spin = 1 THEN Spin(c) ELSE SemPass(c, n) /\ UNCHANGED <<mutex, held>>

\* Mutation: a wait that timed out counts as success.
SemReturn_Owns(c) ==
    /\ me = c /\ c # Nil /\ at[c] = "sem"
    /\ at' = [at EXCEPT ![c] = "task"] /\ wait' = [wait EXCEPT ![c] = 0]
    /\ sem' = [sem EXCEPT !.spin = 0] /\ taken' = [taken EXCEPT ![c] = @ + 1]
    /\ UNCHANGED <<s, irq, mutex, held>>

SemReturn(c) ==
    /\ me = c /\ c # Nil /\ at[c] = "sem"
    /\ IF s.task[c].reason = "timeout"
       THEN /\ at' = [at EXCEPT ![c] = "task"] /\ wait' = [wait EXCEPT ![c] = 0]
            /\ sem' = [sem EXCEPT !.spin = 0]
            /\ UNCHANGED <<s, irq, taken>>
       ELSE SemPass(c, wait[c])
    /\ UNCHANGED <<mutex, held>>

sem_trywait(c) ==
    /\ Asks(c)
    /\ IF sem.spin = 1 THEN Spin(c)
       ELSE /\ sem.units >= 1
            /\ sem' = [sem EXCEPT !.units = @ - 1]
            /\ taken' = [taken EXCEPT ![c] = @ + 1]
            /\ UNCHANGED <<s, at, wait, irq, mutex, held>>

\* sem_signal wakes every waiter while there are units.
WakeAllOf(S, q) == FoldLeft(LAMBDA A, i : WakeOne(A, q), S, [i \in 1 .. Slots |-> i])
sem_signal(c) ==
    /\ Asks(c) /\ taken[c] > 0
    /\ IF sem.spin = 1 THEN Spin(c)
       ELSE /\ sem' = [sem EXCEPT !.units = IF @ + 1 > MaxUnits THEN MaxUnits ELSE @ + 1]
            /\ taken' = [taken EXCEPT ![c] = @ - 1]
            /\ s' = WakeAllOf(s, "sem")
            /\ UNCHANGED <<at, wait, irq, mutex, held>>

TaskStep(c) ==
    \/ task_yield(c) \/ SleepInsert(c) \/ SleepSwitch(c) \/ task_wake_all(c) \/ task_exit(c) \/ ExitSwitch(c)
    \/ \E n \in Sleeps : task_sleep(c, n) \/ mutex_lock(c, n) \/ sem_wait(c, n)
    \/ \E t \in Task : task_wake(c, t)
    \/ mutex_lock(c, 0) \/ sem_wait(c, 0)
    \/ MutexReturn(c) \/ mutex_trylock(c) \/ mutex_unlock(c)
    \/ SemReturn(c) \/ sem_trywait(c) \/ sem_signal(c)

Next ==
    \/ timer_callback /\ pit' = pit + 1
    \/ Start /\ UNCHANGED pit
    \/ reaper_entry /\ UNCHANGED pit
    \/ \E t \in Task, p \in UserPrio : Create(t, p) /\ UNCHANGED pit
    \/ \E c \in Task : TaskStep(c) /\ UNCHANGED pit

Spec == Init /\ [][Next]_vars

\* The timer chip keeps ticking, and a task that is inside task_sleep or
\* task_exit gets on.  Only timer_callback counts an interrupt, and at[me]
\* moves on from sleep1, sleep2 and exit only in SleepInsert, SleepSwitch and
\* ExitSwitch: this is weak fairness of those four actions, each of them
\* enabled whenever its own guard holds.
Fairness ==
    /\ WF_pit(TickDue /\ pit' = pit + 1)
    /\ WF_at(/\ me # Nil /\ at[me] \in {"sleep1", "sleep2", "exit"}
             /\ at' \in {[at EXCEPT ![me] = x] : x \in {"sleep2", "task", "dead"}})
FairSpec == Spec /\ Fairness

-----------------------------------------------------------------------------
\* schedule() never leaves two tasks marked as running: whatever ticks, sleeps
\* and wake-ups came between, a task in state TASK_RUNNING is current_task.
RunningIsCurrent == \A t \in Task : s.task[t].state = "running" => t = s.cur

Waiters(q) ==
    LET next(t) == s.task[t].wnext
        upto[k \in 0 .. Slots] ==
            IF k = 0 THEN {s.qhead[q]} \ {Nil}
            ELSE upto[k - 1] \cup ({next(t) : t \in upto[k - 1]} \ {Nil})
    IN  upto[Slots]

\* A task is on the wait queue of the mutex or of the semaphore exactly while
\* it is blocked in that lock's call: a timeout takes it off, a tick in between
\* does not lose it.  Only after schedule() met a task on a ready list that was
\* running, asleep or blocked, or found none and let a blocked task go on, can a
\* waiter be queued twice.
WaitersBlocked ==
    ~s.astray => \A q \in {"mutex", "sem"} :
        Waiters(q) = {t \in Task : s.task[t].state = "blocked" /\ at[t] = q}

\* mutex_lock and mutex_trylock succeed for one task at a time, and it is the
\* recorded owner until it unlocks.
MutexExclusive == held = {mutex.owner} \ {Nil} /\ (mutex.locked <=> mutex.owner # Nil)

\* The units that tasks took and those left in the semaphore add up.
SemConserved ==
    sem.units + FoldLeft(LAMBDA a, t : a + taken[t], 0, [i \in 1 .. Slots |-> i - 1]) = MaxUnits

\* "Timer wheel: insert a task to fire after 'timeout_ticks'" (scheduler.c:211):
\* a task that task_sleep put on the wheel, with that many ticks left before the
\* bound, is woken.
SleepersWake ==
    \A t \in Task :
        s.task[t].state = "sleeping" /\ at[t] = "sleep2" /\ s.tick + wait[t] <= MaxTick
            ~> s.task[t].state # "sleeping"
=============================================================================
