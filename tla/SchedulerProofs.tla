-------------------------- MODULE SchedulerProofs --------------------------
(***************************************************************************)
(* Proofs about Scheduler, for any number of tasks, priorities, timeouts   *)
(* and units.                                                              *)
(*                                                                         *)
(* The list operations are shown to stay inside SchedState: whatever the   *)
(* links say, also after a task was taken off a list it was not on, every  *)
(* link, head and bucket is a task of task_table or NULL.  Beyond that,    *)
(* every operation but schedule() is calm: it makes no task run and leaves *)
(* current_task alone.                                                     *)
(*                                                                         *)
(* The wait queues are followed link by link: WaitInv says that, until     *)
(* schedule() goes astray, each queue is a doubly linked list without      *)
(* repetition of the tasks that are blocked on it.                         *)
(***************************************************************************)
EXTENDS Scheduler, TLAPS, FiniteSetTheorems

Exp == INSTANCE FoldLemmas WITH op <- Expire
Wk == INSTANCE FoldLemmas WITH op <- Woken
Rp == INSTANCE FoldLemmas WITH op <- LAMBDA A, t : IF A.task[t].state = "zombie" /\ t # A.cur /\ t # A.head[0]
                                                   THEN Destroyed(A, t) ELSE A
Sg == INSTANCE FoldLemmas WITH op <- LAMBDA A, i : WakeOne(A, "sem")

TaskN == Task \cup {Nil}
Quiet == {"free", "ready", "sleeping", "blocked", "zombie"}
Bucket == 0 .. WheelSize - 1
Queue == {"mutex", "sem"}
TaskRec ==
    [state : Quiet \cup {"running"}, prio : Prio, base : Prio, next : TaskN, prev : TaskN,
     until : Nat, tnext : TaskN, tprev : TaskN, bucket : Bucket \cup {Never},
     reason : {"none", "timeout", "signaled"}, queue : Queue \cup {"none"},
     wnext : TaskN, wprev : TaskN, quantum : Nat, full : Nat]
SchedState ==
    [task : [Task -> TaskRec], head : [Prio -> TaskN], tail : [Prio -> TaskN], bits : SUBSET Prio,
     wheel : [Bucket -> TaskN], qhead : [Queue -> TaskN], qtail : [Queue -> TaskN],
     cur : TaskN, tick : Nat, astray : BOOLEAN]

Calm(S, T) ==
    /\ T \in SchedState /\ T.cur = S.cur /\ T.astray = S.astray
    /\ \A u \in Task : T.task[u].state = "running" => S.task[u].state = "running"
CalmSet(S) == {T \in SchedState : Calm(S, T)}

-----------------------------------------------------------------------------
\* Calm steps add up: an operation made of calm ones is calm.
LEMMA CalmTrans ==
    ASSUME NEW S, NEW T, NEW U, Calm(S, T), Calm(T, U)
    PROVE  Calm(S, U)
BY DEF Calm

\* An operation that does nothing is calm.
LEMMA CalmRefl ==
    ASSUME NEW S \in SchedState
    PROVE  Calm(S, S)
BY DEF Calm

\* A write to one field of a task_t is calm when the record stays a task_t
\* and the write is not the one that makes the task run.
LEMMA SetCalm ==
    ASSUME NEW S \in SchedState, NEW t \in Task, NEW f, NEW v,
           [S.task[t] EXCEPT ![f] = v] \in TaskRec, f = "state" => v # "running"
    PROVE  Calm(S, Set(S, t, f, v)) /\ Set(S, t, f, v) \in SchedState
<1>1. Calm(S, Set(S, t, f, v))
  BY SMTT(40) DEF Calm, Set, SchedState
<1> QED BY <1>1 DEF Calm

Links == {"next", "prev", "tnext", "tprev", "wnext", "wprev"}

\* Writing a link of a task_t: next, prev and the links of the wheel and of the queues.
LEMMA SetLink ==
    ASSUME NEW S \in SchedState, NEW t \in Task, NEW f \in Links, NEW v \in TaskN
    PROVE  Calm(S, Set(S, t, f, v)) /\ Set(S, t, f, v) \in SchedState
<1>1. S.task[t] \in TaskRec
  BY DEF SchedState
<1>2. CASE f = "next"
  <2>1. [S.task[t] EXCEPT !["next"] = v] \in TaskRec
    BY <1>1 DEF TaskRec
  <2> QED BY SetCalm, <2>1, <1>2
<1>3. CASE f = "prev"
  <2>1. [S.task[t] EXCEPT !["prev"] = v] \in TaskRec
    BY <1>1 DEF TaskRec
  <2> QED BY SetCalm, <2>1, <1>3
<1>4. CASE f = "tnext"
  <2>1. [S.task[t] EXCEPT !["tnext"] = v] \in TaskRec
    BY <1>1 DEF TaskRec
  <2> QED BY SetCalm, <2>1, <1>4
<1>5. CASE f = "tprev"
  <2>1. [S.task[t] EXCEPT !["tprev"] = v] \in TaskRec
    BY <1>1 DEF TaskRec
  <2> QED BY SetCalm, <2>1, <1>5
<1>6. CASE f = "wnext"
  <2>1. [S.task[t] EXCEPT !["wnext"] = v] \in TaskRec
    BY <1>1 DEF TaskRec
  <2> QED BY SetCalm, <2>1, <1>6
<1>7. CASE f = "wprev"
  <2>1. [S.task[t] EXCEPT !["wprev"] = v] \in TaskRec
    BY <1>1 DEF TaskRec
  <2> QED BY SetCalm, <2>1, <1>7
<1> QED BY <1>2, <1>3, <1>4, <1>5, <1>6, <1>7 DEF Links

\* Writing the other fields: the state (but not to running), timeout, bucket,
\* reason, queue, priority and quantum.
LEMMA SetField ==
    ASSUME NEW S \in SchedState, NEW t \in Task
    PROVE  /\ \A v \in Quiet : Calm(S, Set(S, t, "state", v)) /\ Set(S, t, "state", v) \in SchedState
           /\ \A v \in Nat : Calm(S, Set(S, t, "until", v)) /\ Set(S, t, "until", v) \in SchedState
           /\ \A v \in Bucket \cup {Never} : Calm(S, Set(S, t, "bucket", v)) /\ Set(S, t, "bucket", v) \in SchedState
           /\ \A v \in {"none", "timeout", "signaled"} :
                 Calm(S, Set(S, t, "reason", v)) /\ Set(S, t, "reason", v) \in SchedState
           /\ \A v \in Queue \cup {"none"} : Calm(S, Set(S, t, "queue", v)) /\ Set(S, t, "queue", v) \in SchedState
           /\ \A v \in Prio : Calm(S, Set(S, t, "prio", v)) /\ Set(S, t, "prio", v) \in SchedState
           /\ \A v \in Nat : Calm(S, Set(S, t, "quantum", v)) /\ Set(S, t, "quantum", v) \in SchedState
<1>1. S.task[t] \in TaskRec
  BY DEF SchedState
<1>2. ASSUME NEW v \in Quiet PROVE Calm(S, Set(S, t, "state", v)) /\ Set(S, t, "state", v) \in SchedState
  <2>1. [S.task[t] EXCEPT !["state"] = v] \in TaskRec /\ v # "running"
    BY <1>1 DEF TaskRec, Quiet
  <2> QED BY SetCalm, <2>1
<1>3. ASSUME NEW v \in Nat PROVE Calm(S, Set(S, t, "until", v)) /\ Set(S, t, "until", v) \in SchedState
  <2>1. [S.task[t] EXCEPT !["until"] = v] \in TaskRec
    BY <1>1 DEF TaskRec
  <2> QED BY SetCalm, <2>1
<1>4. ASSUME NEW v \in Bucket \cup {Never}
      PROVE  Calm(S, Set(S, t, "bucket", v)) /\ Set(S, t, "bucket", v) \in SchedState
  <2>1. [S.task[t] EXCEPT !["bucket"] = v] \in TaskRec
    BY <1>1 DEF TaskRec
  <2> QED BY SetCalm, <2>1
<1>5. ASSUME NEW v \in {"none", "timeout", "signaled"}
      PROVE  Calm(S, Set(S, t, "reason", v)) /\ Set(S, t, "reason", v) \in SchedState
  <2>1. [S.task[t] EXCEPT !["reason"] = v] \in TaskRec
    BY <1>1 DEF TaskRec
  <2> QED BY SetCalm, <2>1
<1>6. ASSUME NEW v \in Queue \cup {"none"}
      PROVE  Calm(S, Set(S, t, "queue", v)) /\ Set(S, t, "queue", v) \in SchedState
  <2>1. [S.task[t] EXCEPT !["queue"] = v] \in TaskRec
    BY <1>1 DEF TaskRec
  <2> QED BY SetCalm, <2>1
<1>7. ASSUME NEW v \in Prio PROVE Calm(S, Set(S, t, "prio", v)) /\ Set(S, t, "prio", v) \in SchedState
  <2>1. [S.task[t] EXCEPT !["prio"] = v] \in TaskRec
    BY <1>1 DEF TaskRec
  <2> QED BY SetCalm, <2>1
<1>8. ASSUME NEW v \in Nat PROVE Calm(S, Set(S, t, "quantum", v)) /\ Set(S, t, "quantum", v) \in SchedState
  <2>1. [S.task[t] EXCEPT !["quantum"] = v] \in TaskRec
    BY <1>1 DEF TaskRec
  <2> QED BY SetCalm, <2>1
<1> QED BY <1>2, <1>3, <1>4, <1>5, <1>6, <1>7, <1>8

\* Writing the heads and tails of the ready lists, wheel and wait queues is calm.
LEMMA SetHeads ==
    ASSUME NEW S \in SchedState, NEW v \in TaskN
    PROVE  /\ \A p \in Prio : Calm(S, [S EXCEPT !.head[p] = v]) /\ [S EXCEPT !.head[p] = v] \in SchedState
           /\ \A p \in Prio : Calm(S, [S EXCEPT !.tail[p] = v]) /\ [S EXCEPT !.tail[p] = v] \in SchedState
           /\ \A b \in Bucket : Calm(S, [S EXCEPT !.wheel[b] = v]) /\ [S EXCEPT !.wheel[b] = v] \in SchedState
           /\ \A q \in Queue : Calm(S, [S EXCEPT !.qhead[q] = v]) /\ [S EXCEPT !.qhead[q] = v] \in SchedState
           /\ \A q \in Queue : Calm(S, [S EXCEPT !.qtail[q] = v]) /\ [S EXCEPT !.qtail[q] = v] \in SchedState
BY DEF Calm, SchedState

\* Changing the bitmap of priorities is calm.
LEMMA SetBits ==
    ASSUME NEW S \in SchedState, NEW B \in SUBSET Prio
    PROVE  Calm(S, [S EXCEPT !.bits = B]) /\ [S EXCEPT !.bits = B] \in SchedState
BY DEF Calm, SchedState

\* Making a list of one task, as scheduler_add does on an empty list, is calm.
LEMMA SetList ==
    ASSUME NEW S \in SchedState, NEW p \in Prio, NEW v \in TaskN, NEW w \in TaskN
    PROVE  Calm(S, [S EXCEPT !.head[p] = v, !.tail[p] = w, !.bits = @ \cup {p}])
BY DEF Calm, SchedState
-----------------------------------------------------------------------------
\* scheduler_add puts any task at the end of the list of its priority, calmly,
\* and leaves it ready.
LEMMA AddCalm ==
    ASSUME NEW S \in SchedState, NEW t \in Task
    PROVE  /\ Calm(S, scheduler_add(S, t)) /\ scheduler_add(S, t) \in SchedState
           /\ scheduler_add(S, t).task[t].state = "ready"
<1> DEFINE p == S.task[t].prio
           l == S.tail[p]
           T1 == Set(S, t, "state", "ready")
           T2 == Set(T1, t, "next", Nil)
           T == Set(T2, t, "prev", l)
           U == Set(T, l, "next", t)
<1>1. p \in Prio /\ l \in TaskN /\ Nil \in TaskN /\ t \in TaskN
  BY DEF SchedState, TaskRec, TaskN
<1>2. Calm(S, T1) /\ T1 \in SchedState
  BY SetField DEF Quiet
<1>3. Calm(T1, T2) /\ T2 \in SchedState
  <2> HIDE DEF T1
  <2> QED BY <1>1, <1>2, SetLink DEF Links
<1>4. Calm(T2, T) /\ T \in SchedState
  <2> HIDE DEF T1, T2, l
  <2> QED BY <1>1, <1>3, SetLink DEF Links
<1>5. Calm(S, T)
  <2> HIDE DEF T1, T2, T
  <2> QED BY <1>2, <1>3, <1>4, CalmTrans
<1>6. T.task[t].state = "ready"
  BY DEF Set, SchedState, TaskRec
<1>7. CASE l # Nil
  <2>1. l \in Task
    BY <1>1, <1>7 DEF TaskN
  <2>2. Calm(T, U) /\ U \in SchedState
    <3> HIDE DEF T, l
    <3> QED BY <1>1, <1>4, <2>1, SetLink DEF Links
  <2>3. U.task[t].state = "ready"
    <3> HIDE DEF T, l
    <3> QED BY <1>4, <1>6 DEF Set, SchedState, TaskRec
  <2>4. Calm(U, [U EXCEPT !.tail[p] = t]) /\ [U EXCEPT !.tail[p] = t] \in SchedState
    <3> HIDE DEF U, p
    <3> QED BY <1>1, <2>2, SetHeads
  <2>5. [U EXCEPT !.tail[p] = t].task = U.task
    <3> HIDE DEF U, p
    <3> QED BY <2>2 DEF SchedState
  <2>6. scheduler_add(S, t) = [U EXCEPT !.tail[p] = t]
    BY <1>7 DEF scheduler_add
  <2>7. Calm(S, [U EXCEPT !.tail[p] = t])
    <3> HIDE DEF U, T, p
    <3> QED BY <1>5, <2>2, <2>4, CalmTrans
  <2> HIDE DEF U, p
  <2> QED BY <2>3, <2>4, <2>5, <2>6, <2>7
<1>8. CASE l = Nil
  <2> DEFINE W == [T EXCEPT !.head[p] = t, !.tail[p] = t, !.bits = @ \cup {p}]
  <2>1. Calm(T, W) /\ W.task = T.task
    <3> HIDE DEF T, p
    <3>1. Calm(T, W)
      BY <1>1, <1>4, SetList
    <3> QED BY <3>1, <1>4 DEF SchedState
  <2>2. scheduler_add(S, t) = W
    BY <1>8 DEF scheduler_add
  <2>3. Calm(S, W) /\ W \in SchedState
    <3> HIDE DEF W, T, p
    <3> QED BY <2>1, <1>5, CalmTrans DEF Calm
  <2> HIDE DEF W, T
  <2> QED BY <2>1, <2>2, <2>3, <1>6
<1> QED BY <1>7, <1>8

\* scheduler_remove writes only links, heads and bits, on whichever list the task is.
LEMMA RemoveCalm ==
    ASSUME NEW S \in SchedState, NEW t \in Task
    PROVE  Calm(S, scheduler_remove(S, t)) /\ scheduler_remove(S, t) \in SchedState
<1> DEFINE p == S.task[t].prio
           n == S.task[t].next
           v == S.task[t].prev
           A == IF v # Nil THEN Set(S, v, "next", n) ELSE [S EXCEPT !.head[p] = n]
           B == IF n # Nil THEN Set(A, n, "prev", v) ELSE [A EXCEPT !.tail[p] = v]
           C1 == Set(B, t, "next", Nil)
           C == Set(C1, t, "prev", Nil)
           D == [C EXCEPT !.bits = @ \ {p}]
<1>1. p \in Prio /\ n \in TaskN /\ v \in TaskN /\ Nil \in TaskN
  BY DEF SchedState, TaskRec, TaskN
<1> HIDE DEF p, n, v
<1>2. Calm(S, A) /\ A \in SchedState
  <2>1. v # Nil => v \in Task
    BY <1>1 DEF TaskN
  <2> QED BY <1>1, <2>1, SetLink, SetHeads DEF Links
<1>3. Calm(A, B) /\ B \in SchedState
  <2> HIDE DEF A
  <2>1. n # Nil => n \in Task
    BY <1>1 DEF TaskN
  <2> QED BY <1>1, <1>2, <2>1, SetLink, SetHeads DEF Links
<1>4. Calm(B, C1) /\ C1 \in SchedState
  <2> HIDE DEF B
  <2> QED BY <1>1, <1>3, SetLink DEF Links
<1>5. Calm(C1, C) /\ C \in SchedState
  <2> HIDE DEF C1
  <2> QED BY <1>1, <1>4, SetLink DEF Links
<1>6. Calm(C, D) /\ D \in SchedState
  <2> HIDE DEF C
  <2>1. C.bits \ {p} \in SUBSET Prio
    BY <1>5 DEF SchedState
  <2> QED BY <1>5, <2>1, SetBits
<1>7. scheduler_remove(S, t) \in {S, C, D}
  BY DEF scheduler_remove, p, n, v
<1> HIDE DEF A, B, C1, C, D
<1>8. Calm(S, C) /\ Calm(S, D)
  BY <1>2, <1>3, <1>4, <1>5, <1>6, CalmTrans
<1> QED BY <1>5, <1>6, <1>7, <1>8, CalmRefl

\* The wheel's links are written only within the wheel.
LEMMA WheelRemoveCalm ==
    ASSUME NEW S \in SchedState, NEW t \in Task
    PROVE  Calm(S, WheelRemove(S, t)) /\ WheelRemove(S, t) \in SchedState
<1> DEFINE b == S.task[t].bucket
           n == S.task[t].tnext
           v == S.task[t].tprev
           A == IF v # Nil THEN Set(S, v, "tnext", n) ELSE [S EXCEPT !.wheel[b] = n]
           B == IF n = Nil THEN A ELSE Set(A, n, "tprev", v)
           C == Set(B, t, "tnext", Nil)
           D == Set(C, t, "tprev", Nil)
           E == Set(D, t, "bucket", Never)
<1>1. b \in Bucket \cup {Never} /\ n \in TaskN /\ v \in TaskN /\ Nil \in TaskN
  BY DEF SchedState, TaskRec, TaskN
<1>2. WheelRemove(S, t) = IF b = Never THEN S ELSE E
  BY DEF WheelRemove, Link
<1> HIDE DEF b, n, v
<1>3. CASE b # Never
  <2>1. Calm(S, A) /\ A \in SchedState
    <3>1. b \in Bucket /\ (v # Nil => v \in Task)
      BY <1>1, <1>3 DEF TaskN
    <3> QED BY <1>1, <3>1, SetLink, SetHeads DEF Links
  <2> HIDE DEF A
  <2>2. Calm(A, B) /\ B \in SchedState
    <3>1. n # Nil => n \in Task
      BY <1>1 DEF TaskN
    <3> QED BY <1>1, <2>1, <3>1, SetLink, CalmRefl DEF Links
  <2> HIDE DEF B
  <2>3. Calm(B, C) /\ C \in SchedState
    BY <1>1, <2>2, SetLink DEF Links
  <2> HIDE DEF C
  <2>4. Calm(C, D) /\ D \in SchedState
    BY <1>1, <2>3, SetLink DEF Links
  <2> HIDE DEF D
  <2>5. Calm(D, E) /\ E \in SchedState
    BY <2>4, SetField
  <2> HIDE DEF E
  <2>6. Calm(S, E)
    BY <2>1, <2>2, <2>3, <2>4, <2>5, CalmTrans
  <2> QED BY <1>2, <1>3, <2>5, <2>6
<1>4. CASE b = Never
  BY <1>2, <1>4, CalmRefl
<1> QED BY <1>3, <1>4

\* wheel_insert takes the task out of its bucket, puts it into another, and is calm.
LEMMA WheelInsertCalm ==
    ASSUME NEW S \in SchedState, NEW t \in Task, NEW ticks \in Nat
    PROVE  Calm(S, WheelInsert(S, t, ticks)) /\ WheelInsert(S, t, ticks) \in SchedState
<1> DEFINE A == WheelRemove(S, t)
           b == (A.tick + ticks) % WheelSize
           h == A.wheel[b]
           B1 == Set(A, t, "bucket", b)
           B2 == Set(B1, t, "tnext", h)
           B3 == Set(B2, t, "tprev", Nil)
           B == IF h = Nil THEN B3 ELSE Set(B3, h, "tprev", t)
           C == [B EXCEPT !.wheel[b] = t]
<1>1. WheelInsert(S, t, ticks) = C
  BY DEF WheelInsert, Link
<1>2. Calm(S, A) /\ A \in SchedState
  BY WheelRemoveCalm
<1> HIDE DEF A
<1>3. b \in Bucket /\ h \in TaskN /\ Nil \in TaskN /\ t \in TaskN
  <2>1. A.tick \in Nat /\ A.wheel \in [Bucket -> TaskN]
    BY <1>2 DEF SchedState
  <2>2. b \in Bucket
    <3>1. WheelSize \in Nat /\ WheelSize > 0
      BY SchedulerAssumption
    <3>2. A.tick + ticks \in Nat
      BY <2>1
    <3> QED BY <3>1, <3>2 DEF Bucket
  <2> QED BY <2>1, <2>2 DEF TaskN
<1> HIDE DEF b, h
<1>4. Calm(A, B1) /\ B1 \in SchedState
  BY <1>2, <1>3, SetField
<1> HIDE DEF B1
<1>5. Calm(B1, B2) /\ B2 \in SchedState
  BY <1>3, <1>4, SetLink DEF Links
<1> HIDE DEF B2
<1>6. Calm(B2, B3) /\ B3 \in SchedState
  BY <1>3, <1>5, SetLink DEF Links
<1> HIDE DEF B3
<1>7. Calm(B3, B) /\ B \in SchedState
  <2>1. h # Nil => h \in Task
    BY <1>3 DEF TaskN
  <2> QED BY <1>3, <1>6, <2>1, SetLink, CalmRefl DEF Links
<1> HIDE DEF B
<1>8. Calm(B, C) /\ C \in SchedState
  BY <1>3, <1>7, SetHeads
<1> HIDE DEF C
<1> QED BY <1>1, <1>2, <1>4, <1>5, <1>6, <1>7, <1>8, CalmTrans

\* The tasks that scheduler_timer_wheel_tick goes through are slots of task_table.
Walk(S, b, c, k) ==
    LET n == IF c = <<>> THEN S.wheel[b] ELSE S.task[Last(c)].tnext
    IN  IF n = Nil \/ Len(c) < k - 1 THEN c ELSE Append(c, n)

\* A step along a bucket's links finds tasks of task_table only.
LEMMA WalkType ==
    ASSUME NEW S \in SchedState, NEW b \in Bucket, NEW c \in Seq(Task), NEW k
    PROVE  Walk(S, b, c, k) \in Seq(Task)
<1>1. CASE c = <<>>
  <2>1. S.wheel[b] \in TaskN
    BY DEF SchedState
  <2> QED BY <1>1, <2>1 DEF Walk, TaskN
<1>2. CASE c # <<>>
  <2>1. Last(c) \in Task
    BY <1>2 DEF Last
  <2>2. S.task[Last(c)].tnext \in TaskN
    BY <2>1 DEF SchedState, TaskRec
  <2> QED BY <1>2, <2>2 DEF Walk, TaskN
<1> QED BY <1>1, <1>2

\* wheel_tick walks along tasks of task_table.
LEMMA ChainType ==
    ASSUME NEW S \in SchedState, NEW b \in Bucket
    PROVE  Chain(S, b) \in Seq(Task)
<1> DEFINE Eqn(w) == w = [k \in 0 .. Slots |-> IF k = 0 THEN <<>> ELSE Walk(S, b, w[k - 1], k)]
           w == CHOOSE w : Eqn(w)
           V == Seq(Task)
           G == [x \in V \X (1 .. Slots) |-> Walk(S, b, x[1], x[2])]
<1>1. Chain(S, b) = w[Slots]
  BY DEF Chain, Walk
<1>2. Slots \in Nat /\ <<>> \in V
  BY SchedulerAssumption
<1>3. G \in [V \X (1 .. Slots) -> V]
  BY WalkType
<1>4. PICK d \in [0 .. Slots -> V] : Exp!RecEqn(d, <<>>, Slots, G)
  <2> HIDE DEF V, G
  <2> QED BY <1>2, <1>3, Exp!RecExists
<1>5. Eqn(d)
  <2>1. ASSUME NEW k \in 1 .. Slots PROVE d[k] = Walk(S, b, d[k - 1], k)
    <3>1. k - 1 \in 0 .. Slots
      BY <1>2
    <3>2. d[k - 1] \in V
      BY <3>1
    <3> HIDE DEF V
    <3> QED BY <1>4, <3>2 DEF Exp!RecEqn
  <2> QED BY <1>2, <1>4, <2>1 DEF Exp!RecEqn
<1>6. Eqn(w)
  <2> HIDE DEF Eqn
  <2> QED BY <1>5, Zenon
<1> HIDE DEF w
<1>7. \A k \in 1 .. Slots : w[k] = Walk(S, b, w[k - 1], k)
  BY <1>2, <1>6
<1>8. w[0] = <<>>
  BY <1>2, <1>6
<1> DEFINE P(k) == k <= Slots => w[k] \in Seq(Task)
           I == {k \in Nat : P(k)}
<1>9. P(0)
  BY <1>8
<1>10. ASSUME NEW k \in Nat, P(k) PROVE P(k + 1)
  <2> SUFFICES ASSUME k + 1 <= Slots PROVE w[k + 1] \in Seq(Task)
    OBVIOUS
  <2>1. k + 1 \in 1 .. Slots /\ (k + 1) - 1 = k /\ k <= Slots
    BY <1>2
  <2>2. w[k + 1] = Walk(S, b, w[k], k + 1)
    BY <1>7, <2>1
  <2> QED BY <1>10, <2>1, <2>2, WalkType
<1>11. P(Slots)
  <2> HIDE DEF P
  <2>1. 0 \in I /\ \A k \in Nat : k \in I => k + 1 \in I
    BY <1>9, <1>10
  <2> HIDE DEF I
  <2>2. Slots \in I
    BY <1>2, <2>1, Exp!SetInduction
  <2> QED BY <2>2 DEF I
<1> QED BY <1>1, <1>2, <1>11

\* The wait queues' links are written only within the queues.
LEMMA PushCalm ==
    ASSUME NEW S \in SchedState, NEW q \in Queue, NEW t \in Task
    PROVE  Calm(S, Push(S, q, t)) /\ Push(S, q, t) \in SchedState
<1> DEFINE l == S.qtail[q]
           A1 == Set(S, t, "wnext", Nil)
           A2 == Set(A1, t, "wprev", l)
           A == Set(A2, t, "queue", q)
           B == IF l # Nil THEN Set(A, l, "wnext", t) ELSE [A EXCEPT !.qhead[q] = t]
           C == [B EXCEPT !.qtail[q] = t]
<1>1. Push(S, q, t) = C
  BY DEF Push
<1>2. l \in TaskN /\ Nil \in TaskN /\ t \in TaskN /\ (l # Nil => l \in Task)
  BY DEF SchedState, TaskN
<1> HIDE DEF l
<1>3. Calm(S, A1) /\ A1 \in SchedState
  BY <1>2, SetLink DEF Links
<1> HIDE DEF A1
<1>4. Calm(A1, A2) /\ A2 \in SchedState
  BY <1>2, <1>3, SetLink DEF Links
<1> HIDE DEF A2
<1>5. Calm(A2, A) /\ A \in SchedState
  BY <1>4, SetField
<1> HIDE DEF A
<1>6. Calm(A, B) /\ B \in SchedState
  BY <1>2, <1>5, SetLink, SetHeads DEF Links
<1> HIDE DEF B
<1>7. Calm(B, C) /\ C \in SchedState
  BY <1>2, <1>6, SetHeads
<1> HIDE DEF C
<1> QED BY <1>1, <1>3, <1>4, <1>5, <1>6, <1>7, CalmTrans

\* Taking a task out of its wait queue is calm, whatever its links say.
LEMMA UnqueueCalm ==
    ASSUME NEW S \in SchedState, NEW t \in Task
    PROVE  Calm(S, Unqueue(S, t)) /\ Unqueue(S, t) \in SchedState
<1> DEFINE q == S.task[t].queue
           n == S.task[t].wnext
           v == S.task[t].wprev
           A == IF v # Nil THEN Set(S, v, "wnext", n) ELSE [S EXCEPT !.qhead[q] = n]
           B == IF n # Nil THEN Set(A, n, "wprev", v) ELSE [A EXCEPT !.qtail[q] = v]
           C == Set(B, t, "wnext", Nil)
           D == Set(C, t, "wprev", Nil)
           E == Set(D, t, "queue", "none")
<1>1. q \in Queue \cup {"none"} /\ n \in TaskN /\ v \in TaskN /\ Nil \in TaskN
  BY DEF SchedState, TaskRec, TaskN
<1>2. Unqueue(S, t) = IF q = "none" THEN S ELSE E
  BY DEF Unqueue
<1> HIDE DEF q, n, v
<1>3. (v # Nil => v \in Task) /\ (n # Nil => n \in Task)
  BY <1>1 DEF TaskN
<1>4. CASE q # "none"
  <2>1. Calm(S, A) /\ A \in SchedState
    BY <1>1, <1>3, <1>4, SetLink, SetHeads DEF Links
  <2> HIDE DEF A
  <2>2. Calm(A, B) /\ B \in SchedState
    BY <1>1, <1>3, <1>4, <2>1, SetLink, SetHeads DEF Links
  <2> HIDE DEF B
  <2>3. Calm(B, C) /\ C \in SchedState
    BY <1>1, <2>2, SetLink DEF Links
  <2> HIDE DEF C
  <2>4. Calm(C, D) /\ D \in SchedState
    BY <1>1, <2>3, SetLink DEF Links
  <2> HIDE DEF D
  <2>5. Calm(D, E) /\ E \in SchedState
    BY <2>4, SetField
  <2> HIDE DEF E
  <2> QED BY <1>2, <1>4, <2>1, <2>2, <2>3, <2>4, <2>5, CalmTrans
<1>5. CASE q = "none"
  BY <1>2, <1>5, CalmRefl
<1> QED BY <1>4, <1>5

-----------------------------------------------------------------------------
\* A task whose timeout is over becomes ready, from the wheel and from its wait queue.
LEMMA ExpireCalm ==
    ASSUME NEW S \in SchedState, NEW t \in Task
    PROVE  Calm(S, Expire(S, t)) /\ Expire(S, t) \in SchedState
<1> DEFINE W == WheelRemove(S, t)
           A == Set(W, t, "until", 0)
           B == scheduler_add(A, t)
           U == Unqueue(A, t)
           R == Set(U, t, "reason", "timeout")
           C == scheduler_add(R, t)
<1>1. Expire(S, t) \in {S, B, C, W}
  BY DEF Expire
<1>2. Calm(S, W) /\ W \in SchedState
  BY WheelRemoveCalm
<1> HIDE DEF W
<1>3. Calm(W, A) /\ A \in SchedState
  BY <1>2, SetField
<1> HIDE DEF A
<1>4. Calm(A, B) /\ B \in SchedState
  BY <1>3, AddCalm
<1>5. Calm(A, U) /\ U \in SchedState
  BY <1>3, UnqueueCalm
<1> HIDE DEF U
<1>6. Calm(U, R) /\ R \in SchedState
  BY <1>5, SetField
<1> HIDE DEF R
<1>7. Calm(R, C) /\ C \in SchedState
  BY <1>6, AddCalm
<1> HIDE DEF B, C
<1>8. Calm(S, A)
  BY <1>2, <1>3, CalmTrans
<1>9. Calm(S, B)
  BY <1>4, <1>8, CalmTrans
<1>10. Calm(S, C)
  BY <1>5, <1>6, <1>7, <1>8, CalmTrans
<1> QED BY <1>1, <1>2, <1>4, <1>7, <1>9, <1>10, CalmRefl

\* A whole tick of the wheel makes no task run.
LEMMA WheelTickCalm ==
    ASSUME NEW S \in SchedState
    PROVE  Calm(S, WheelTick(S)) /\ WheelTick(S) \in SchedState
<1> DEFINE T == [S EXCEPT !.tick = @ + 1]
           b == T.tick % WheelSize
           q == Chain(T, b)
           V == CalmSet(T)
<1>1. Calm(S, T) /\ T \in SchedState
  BY DEF Calm, SchedState
<1>2. WheelTick(S) = Exp!Folded(T, q)
  BY DEF WheelTick, Exp!Folded, FoldLeft, MapThenFoldSet, Exp!FoldLeft, Exp!MapThenFoldSet, Exp!Max, Max
<1> HIDE DEF T
<1>3. b \in Bucket
  <2>1. T.tick \in Nat
    BY <1>1 DEF SchedState
  <2>2. WheelSize \in Nat /\ WheelSize > 0
    BY SchedulerAssumption
  <2> QED BY <2>1, <2>2 DEF Bucket
<1>4. q \in Seq(Task)
  <2> HIDE DEF b
  <2> QED BY <1>1, <1>3, ChainType
<1>5. \A A \in V, t \in Task : Expire(A, t) \in V
  <2> SUFFICES ASSUME NEW A \in V, NEW t \in Task PROVE Expire(A, t) \in V
    OBVIOUS
  <2>1. A \in SchedState /\ Calm(T, A)
    BY DEF CalmSet
  <2>2. Calm(A, Expire(A, t)) /\ Expire(A, t) \in SchedState
    BY <2>1, ExpireCalm
  <2> QED BY <2>1, <2>2, CalmTrans DEF CalmSet
<1>6. T \in V
  BY <1>1, CalmRefl DEF CalmSet
<1>7. Exp!Folded(T, q) \in V
  <2> HIDE DEF V, q
  <2> QED BY <1>4, <1>5, <1>6, Exp!FoldLeftIn
<1> QED BY <1>1, <1>2, <1>7, CalmTrans DEF CalmSet

-----------------------------------------------------------------------------
\* A zeroed task_t is a task_t.
LEMMA BlankType == Blank \in TaskRec
<1>1. 0 \in Prio /\ 0 \in Bucket
  BY SchedulerAssumption DEF Prio, Bucket
<1> QED BY <1>1 DEF Blank, TaskRec, TaskN, Quiet

\* Replacing a task_t by another one that does not run is calm.
LEMMA ReplaceCalm ==
    ASSUME NEW S \in SchedState, NEW t \in Task, NEW r \in TaskRec, r.state # "running"
    PROVE  Calm(S, [S EXCEPT !.task[t] = r]) /\ [S EXCEPT !.task[t] = r] \in SchedState
BY DEF Calm, SchedState

\* task_create is calm: the new task is ready, not running.
LEMMA CreatedCalm ==
    ASSUME NEW S \in SchedState, NEW t \in Task, NEW p \in Prio
    PROVE  Calm(S, Created(S, t, p)) /\ Created(S, t, p) \in SchedState
<1> DEFINE r == [Blank EXCEPT !.prio = p, !.base = p,
                              !.quantum = prio_to_quantum(p), !.full = prio_to_quantum(p)]
           A == [S EXCEPT !.task[t] = r]
<1>1. prio_to_quantum(p) \in Nat
  BY DEF prio_to_quantum
<1>2. r \in TaskRec
  <2>1. Blank \in TaskRec
    BY BlankType
  <2> QED BY <1>1, <2>1 DEF TaskRec
<1>3. r.state # "running"
  BY DEF Blank
<1>4. Created(S, t, p) = scheduler_add(A, t)
  BY DEF Created
<1>5. Calm(S, A) /\ A \in SchedState
  <2> HIDE DEF r
  <2> QED BY <1>2, <1>3, ReplaceCalm
<1> HIDE DEF A
<1> QED BY <1>4, <1>5, AddCalm, CalmTrans

\* task_destroy is calm: a zeroed slot does not run.
LEMMA DestroyedCalm ==
    ASSUME NEW S \in SchedState, NEW t \in Task
    PROVE  Calm(S, Destroyed(S, t)) /\ Destroyed(S, t) \in SchedState
<1> DEFINE A == scheduler_remove(S, t)
           B == WheelRemove(A, t)
           C == Unqueue(B, t)
           D == [C EXCEPT !.task[t] = Blank]
<1>1. Destroyed(S, t) = D
  BY DEF Destroyed
<1>2. Calm(S, A) /\ A \in SchedState
  BY RemoveCalm
<1> HIDE DEF A
<1>3. Calm(A, B) /\ B \in SchedState
  BY <1>2, WheelRemoveCalm
<1> HIDE DEF B
<1>4. Calm(B, C) /\ C \in SchedState
  BY <1>3, UnqueueCalm
<1> HIDE DEF C
<1>5. Calm(C, D) /\ D \in SchedState
  <2>1. Blank.state # "running"
    BY DEF Blank
  <2> QED BY <1>4, <2>1, BlankType, ReplaceCalm
<1> HIDE DEF D
<1> QED BY <1>1, <1>2, <1>3, <1>4, <1>5, CalmTrans

\* The slots of task_table in order, over which the loops go.
LEMMA SlotsSeq == [i \in 1 .. Slots |-> i - 1] \in Seq(Task)
<1>1. Slots \in Nat
  BY SchedulerAssumption
<1> QED BY <1>1 DEF Task

\* scheduler_reap destroys what it likes and makes no task run.
LEMMA ReapedCalm ==
    ASSUME NEW S \in SchedState
    PROVE  Calm(S, Reaped(S)) /\ Reaped(S) \in SchedState
<1> DEFINE q == [i \in 1 .. Slots |-> i - 1]
           V == CalmSet(S)
<1>1. Reaped(S) = Rp!Folded(S, q)
  BY DEF Reaped, Rp!Folded, FoldLeft, MapThenFoldSet, Rp!FoldLeft, Rp!MapThenFoldSet, Rp!Max, Max
<1>2. q \in Seq(Task)
  BY SlotsSeq
<1>3. \A A \in V, t \in Task :
          (IF A.task[t].state = "zombie" /\ t # A.cur /\ t # A.head[0] THEN Destroyed(A, t) ELSE A) \in V
  <2> SUFFICES ASSUME NEW A \in V, NEW t \in Task PROVE Destroyed(A, t) \in V
    OBVIOUS
  <2>1. A \in SchedState /\ Calm(S, A)
    BY DEF CalmSet
  <2>2. Calm(A, Destroyed(A, t)) /\ Destroyed(A, t) \in SchedState
    BY <2>1, DestroyedCalm
  <2> QED BY <2>1, <2>2, CalmTrans DEF CalmSet
<1>4. S \in V
  BY CalmRefl DEF CalmSet
<1>5. Rp!Folded(S, q) \in V
  <2> HIDE DEF V, q
  <2> QED BY <1>2, <1>3, <1>4, Rp!FoldLeftIn
<1> QED BY <1>1, <1>5 DEF CalmSet

\* Waking one sleeper is calm.
LEMMA WokenCalm ==
    ASSUME NEW S \in SchedState, NEW t \in Task
    PROVE  Calm(S, Woken(S, t)) /\ Woken(S, t) \in SchedState
<1> DEFINE A == WheelRemove(S, t)
           B == Set(A, t, "until", 0)
           C == scheduler_add(B, t)
<1>1. Woken(S, t) \in {S, C}
  BY DEF Woken
<1>2. Calm(S, A) /\ A \in SchedState
  BY WheelRemoveCalm
<1> HIDE DEF A
<1>3. Calm(A, B) /\ B \in SchedState
  BY <1>2, SetField
<1> HIDE DEF B
<1>4. Calm(B, C) /\ C \in SchedState
  BY <1>3, AddCalm
<1> HIDE DEF C
<1> QED BY <1>1, <1>2, <1>3, <1>4, CalmTrans, CalmRefl

\* task_wake_all's loop over task_table is calm.
LEMMA WokenAllCalm ==
    ASSUME NEW S \in SchedState
    PROVE  /\ Calm(S, FoldLeft(Woken, S, [i \in 1 .. Slots |-> i - 1]))
           /\ FoldLeft(Woken, S, [i \in 1 .. Slots |-> i - 1]) \in SchedState
<1> DEFINE q == [i \in 1 .. Slots |-> i - 1]
           V == CalmSet(S)
<1>1. FoldLeft(Woken, S, q) = Wk!Folded(S, q)
  BY DEF Wk!Folded, FoldLeft, MapThenFoldSet, Wk!FoldLeft, Wk!MapThenFoldSet, Wk!Max, Max
<1>2. q \in Seq(Task)
  BY SlotsSeq
<1>3. \A A \in V, t \in Task : Woken(A, t) \in V
  <2> SUFFICES ASSUME NEW A \in V, NEW t \in Task PROVE Woken(A, t) \in V
    OBVIOUS
  <2>1. A \in SchedState /\ Calm(S, A)
    BY DEF CalmSet
  <2>2. Calm(A, Woken(A, t)) /\ Woken(A, t) \in SchedState
    BY <2>1, WokenCalm
  <2> QED BY <2>1, <2>2, CalmTrans DEF CalmSet
<1>4. S \in V
  BY CalmRefl DEF CalmSet
<1>5. Wk!Folded(S, q) \in V
  <2> HIDE DEF V, q
  <2> QED BY <1>2, <1>3, <1>4, Wk!FoldLeftIn
<1>6. FoldLeft(Woken, S, q) \in CalmSet(S)
  BY <1>1, <1>5
<1> QED BY <1>6 DEF CalmSet, FoldLeft, MapThenFoldSet

\* A change of priority, boosts included.
LEMMA ReprioCalm ==
    ASSUME NEW S \in SchedState, NEW t \in Task, NEW p \in Prio
    PROVE  Calm(S, Reprio(S, t, p)) /\ Reprio(S, t, p) \in SchedState
<1> DEFINE A == Set(S, t, "prio", p)
           B == scheduler_remove(A, t)
           C == scheduler_add(B, t)
<1>1. Reprio(S, t, p) \in {A, C}
  BY DEF Reprio
<1>2. Calm(S, A) /\ A \in SchedState
  BY SetField
<1> HIDE DEF A
<1>3. Calm(A, B) /\ B \in SchedState
  BY <1>2, RemoveCalm
<1> HIDE DEF B
<1>4. Calm(B, C) /\ C \in SchedState
  BY <1>3, AddCalm
<1> HIDE DEF C
<1> QED BY <1>1, <1>2, <1>3, <1>4, CalmTrans

\* Priority inheritance and its end are calm.
LEMMA BoostCalm ==
    ASSUME NEW S \in SchedState, NEW t \in Task, NEW p \in Prio
    PROVE  /\ Calm(S, Boosted(S, t, p)) /\ Boosted(S, t, p) \in SchedState
           /\ Calm(S, Unboosted(S, t)) /\ Unboosted(S, t) \in SchedState
<1>1. S.task[t].base \in Prio
  BY DEF SchedState, TaskRec
<1> QED BY <1>1, ReprioCalm, CalmRefl DEF Boosted, Unboosted

\* task_block_on up to schedule(), and task_wake_one.
LEMMA BlockedCalm ==
    ASSUME NEW S \in SchedState, NEW t \in Task, NEW q \in Queue, NEW n \in Nat
    PROVE  Calm(S, Blocked(S, t, q, n)) /\ Blocked(S, t, q, n) \in SchedState
<1> DEFINE A1 == Set(S, t, "state", "blocked")
           A == Set(A1, t, "reason", "none")
           u == IF n > 0 THEN S.tick + n ELSE 0
           B1 == Set(A, t, "until", u)
           B == Push(B1, q, t)
           C == WheelInsert(B, t, n)
<1>1. Blocked(S, t, q, n) \in {B, C}
  BY DEF Blocked
<1>2. u \in Nat
  BY DEF SchedState
<1> HIDE DEF u
<1>3. Calm(S, A1) /\ A1 \in SchedState
  BY SetField DEF Quiet
<1> HIDE DEF A1
<1>4. Calm(A1, A) /\ A \in SchedState
  BY <1>3, SetField
<1> HIDE DEF A
<1>5. Calm(A, B1) /\ B1 \in SchedState
  BY <1>2, <1>4, SetField
<1> HIDE DEF B1
<1>6. Calm(B1, B) /\ B \in SchedState
  BY <1>5, PushCalm
<1> HIDE DEF B
<1>7. Calm(B, C) /\ C \in SchedState
  BY <1>6, WheelInsertCalm
<1> HIDE DEF C
<1>8. Calm(S, B)
  BY <1>3, <1>4, <1>5, <1>6, CalmTrans
<1> QED BY <1>1, <1>6, <1>7, <1>8, CalmTrans

\* task_wake_one is calm, on an empty queue too.
LEMMA WakeOneCalm ==
    ASSUME NEW S \in SchedState, NEW q \in Queue
    PROVE  Calm(S, WakeOne(S, q)) /\ WakeOne(S, q) \in SchedState
<1> DEFINE t == S.qhead[q]
           U == Unqueue(S, t)
           A == WheelRemove(U, t)
           B == Set(A, t, "reason", "signaled")
           C == Set(B, t, "until", 0)
           D == scheduler_add(C, t)
<1>1. WakeOne(S, q) = IF t = Nil THEN S ELSE D
  BY DEF WakeOne
<1>2. t # Nil => t \in Task
  BY DEF SchedState, TaskN
<1> HIDE DEF t
<1>3. CASE t # Nil
  <2>1. Calm(S, U) /\ U \in SchedState
    BY <1>2, <1>3, UnqueueCalm
  <2> HIDE DEF U
  <2>2. Calm(U, A) /\ A \in SchedState
    BY <1>2, <1>3, <2>1, WheelRemoveCalm
  <2> HIDE DEF A
  <2>3. Calm(A, B) /\ B \in SchedState
    BY <1>2, <1>3, <2>2, SetField
  <2> HIDE DEF B
  <2>4. Calm(B, C) /\ C \in SchedState
    BY <1>2, <1>3, <2>3, SetField
  <2> HIDE DEF C
  <2>5. Calm(C, D) /\ D \in SchedState
    BY <1>2, <1>3, <2>4, AddCalm
  <2> HIDE DEF D
  <2> QED BY <1>1, <1>3, <2>1, <2>2, <2>3, <2>4, <2>5, CalmTrans
<1>4. CASE t = Nil
  BY <1>1, <1>4, CalmRefl
<1> QED BY <1>3, <1>4

\* Waking a whole wait queue is calm.
LEMMA WakeAllOfCalm ==
    ASSUME NEW S \in SchedState
    PROVE  Calm(S, WakeAllOf(S, "sem")) /\ WakeAllOf(S, "sem") \in SchedState
<1> DEFINE q == [i \in 1 .. Slots |-> i]
           V == CalmSet(S)
<1>1. WakeAllOf(S, "sem") = Sg!Folded(S, q)
  BY DEF WakeAllOf, Sg!Folded, FoldLeft, MapThenFoldSet, Sg!FoldLeft, Sg!MapThenFoldSet, Sg!Max, Max
<1>2. q \in Seq(Nat)
  <2>1. Slots \in Nat
    BY SchedulerAssumption
  <2> QED BY <2>1
<1>3. \A A \in V, i \in Nat : WakeOne(A, "sem") \in V
  <2> SUFFICES ASSUME NEW A \in V PROVE WakeOne(A, "sem") \in V
    OBVIOUS
  <2>1. A \in SchedState /\ Calm(S, A)
    BY DEF CalmSet
  <2>2. Calm(A, WakeOne(A, "sem")) /\ WakeOne(A, "sem") \in SchedState
    BY <2>1, WakeOneCalm DEF Queue
  <2> QED BY <2>1, <2>2, CalmTrans DEF CalmSet
<1>4. S \in V
  BY CalmRefl DEF CalmSet
<1>5. Sg!Folded(S, q) \in V
  <2> DEFINE N == Nat
  <2>1. q \in Seq(N) /\ \A A \in V, i \in N : WakeOne(A, "sem") \in V
    BY <1>2, <1>3
  <2> HIDE DEF V, q, N
  <2> QED BY <2>1, <1>4, Sg!FoldLeftIn
<1> QED BY <1>1, <1>5 DEF CalmSet

-----------------------------------------------------------------------------
\* The only running task of S is its current one.
OneRuns(S) == \A u \in Task : S.task[u].state = "running" => u = S.cur

\* A calm operation makes no second task run.
LEMMA CalmOneRuns ==
    ASSUME NEW S, NEW T, Calm(S, T), OneRuns(S)
    PROVE  OneRuns(T)
BY DEF Calm, OneRuns

\* scheduler_pick_next finds a task of task_table, the idle task, or none.
LEMMA NextReadyType ==
    ASSUME NEW S \in SchedState
    PROVE  NextReady(S).task \in TaskN /\ NextReady(S).bits \in SUBSET Prio
<1>1. 0 \in Prio
  BY SchedulerAssumption DEF Prio
<1>2. CASE Highest(S) = {}
  BY <1>1, <1>2 DEF NextReady, SchedState
<1>3. CASE Highest(S) # {}
  <2> DEFINE p == CHOOSE p \in Highest(S) : TRUE
  <2>1. p \in Highest(S)
    BY <1>3
  <2>2. p \in Prio
    BY <2>1 DEF Highest, SchedState
  <2>3. NextReady(S) = [task |-> S.head[p], bits |-> {q \in S.bits : q <= p}]
    BY <1>3 DEF NextReady
  <2> HIDE DEF p
  <2> QED BY <2>2, <2>3 DEF SchedState
<1> QED BY <1>2, <1>3

\* schedule(): the task that ran is put back before the next one is marked as
\* running, so that one task at most runs, and it is the current one.
LEMMA ScheduleOneRuns ==
    ASSUME NEW S \in SchedState, OneRuns(S)
    PROVE  Schedule(S) \in SchedState /\ OneRuns(Schedule(S))
<1> DEFINE n == NextReady(S).task
           N == NextReady(S).bits
           A == [S EXCEPT !.bits = N]
           B == IF S.cur # Nil /\ S.task[S.cur].state = "running" THEN scheduler_add(A, S.cur) ELSE A
           C == scheduler_remove(B, n)
           D == Set(C, n, "state", "running")
           E == [D EXCEPT !.cur = n, !.astray = @ \/ S.task[n].state # "ready"]
<1>1. n \in TaskN
  BY NextReadyType
<1>2. Calm(S, A) /\ A \in SchedState /\ A.task = S.task /\ A.cur = S.cur
  <2>1. N \in SUBSET Prio
    BY NextReadyType
  <2> HIDE DEF N
  <2>2. Calm(S, A) /\ A \in SchedState
    BY <2>1, SetBits
  <2> QED BY <2>2 DEF SchedState
<1>3. OneRuns(A)
  <2> HIDE DEF A
  <2> QED BY <1>2, CalmOneRuns
<1> DEFINE F == [A EXCEPT !.astray = @ \/ (S.cur # Nil /\ S.task[S.cur].state # "running")]
<1>4. Schedule(S) = IF n = Nil THEN F ELSE IF n = S.cur THEN [A EXCEPT !.astray = TRUE] ELSE E
  BY DEF Schedule
<1>5. CASE n = Nil
  <2>1. F \in SchedState /\ OneRuns(F)
    <3> HIDE DEF A
    <3> QED BY <1>2, <1>3 DEF SchedState, OneRuns
  <2> HIDE DEF A, n, E, F
  <2> QED BY <1>4, <1>5, <2>1
<1>6. CASE n # Nil /\ n = S.cur
  <2>1. [A EXCEPT !.astray = TRUE] \in SchedState /\ OneRuns([A EXCEPT !.astray = TRUE])
    <3> HIDE DEF A, n
    <3> QED BY <1>2, <1>3 DEF SchedState, OneRuns
  <2> HIDE DEF A, n, E, F
  <2> QED BY <1>4, <1>6, <2>1
<1>7. CASE n # Nil /\ n # S.cur
  <2>1. n \in Task
    <3> HIDE DEF n
    <3> QED BY <1>1, <1>7 DEF TaskN
  <2>2. B \in SchedState /\ \A u \in Task : B.task[u].state # "running"
    <3> HIDE DEF A
    <3>1. CASE S.cur # Nil /\ S.task[S.cur].state = "running"
      <4>1. S.cur \in Task
        BY <3>1 DEF SchedState, TaskN
      <4>2. /\ Calm(A, scheduler_add(A, S.cur)) /\ scheduler_add(A, S.cur) \in SchedState
            /\ scheduler_add(A, S.cur).task[S.cur].state = "ready"
        BY <1>2, <4>1, AddCalm
      <4>3. OneRuns(scheduler_add(A, S.cur)) /\ scheduler_add(A, S.cur).cur = S.cur
        BY <1>2, <1>3, <4>2, CalmOneRuns DEF Calm
      <4>4. B = scheduler_add(A, S.cur)
        BY <3>1
      <4> HIDE DEF B
      <4> QED BY <4>2, <4>3, <4>4 DEF OneRuns
    <3>2. CASE ~(S.cur # Nil /\ S.task[S.cur].state = "running")
      <4>1. B = A
        BY <3>2
      <4>2. \A u \in Task : u # Nil
        BY SchedulerAssumption DEF Task, Nil
      <4>3. \A u \in Task : A.task[u].state # "running"
        BY <1>2, <1>3, <3>2, <4>2 DEF OneRuns
      <4> HIDE DEF B
      <4> QED BY <1>2, <4>1, <4>3
    <3> QED BY <3>1, <3>2
  <2> HIDE DEF B, n
  <2>3. C \in SchedState /\ \A u \in Task : C.task[u].state # "running"
    BY <2>1, <2>2, RemoveCalm DEF Calm
  <2> HIDE DEF C
  <2>4. D \in SchedState /\ \A u \in Task : D.task[u].state = "running" => u = n
    <3>1. [C.task[n] EXCEPT !["state"] = "running"] \in TaskRec
      <4>1. C.task[n] \in TaskRec
        BY <2>1, <2>3 DEF SchedState
      <4> QED BY <4>1 DEF TaskRec
    <3> QED BY <2>1, <2>3, <3>1 DEF Set, SchedState
  <2> HIDE DEF D
  <2>5. E \in SchedState /\ OneRuns(E)
    BY <1>1, <2>1, <2>4 DEF SchedState, OneRuns
  <2> HIDE DEF E, F
  <2> QED BY <1>4, <1>7, <2>5
<1> QED BY <1>5, <1>6, <1>7

-----------------------------------------------------------------------------
MutexRec == [spin : {0, 1}, locked : BOOLEAN, owner : TaskN, orig : Prio]

\* The inductive invariant.  RunningIsCurrent needs the types, because a head
\* of a ready list becomes the current task; MutexExclusive is needed for them,
\* because the owner's priority is boosted whenever the mutex is locked.
SchedInv ==
    /\ s \in SchedState
    /\ RunningIsCurrent
    /\ wait \in [Task -> Nat]
    /\ mutex \in MutexRec
    /\ MutexExclusive

\* A task record put in place of one in the same state.
LEMMA PutTask ==
    ASSUME NEW S \in SchedState, OneRuns(S), NEW t \in Task, NEW r \in TaskRec, r.state = S.task[t].state
    PROVE  [S EXCEPT !.task[t] = r] \in SchedState /\ OneRuns([S EXCEPT !.task[t] = r])
BY DEF SchedState, OneRuns

\* scheduler_init and task_init leave no task running.
LEMMA BootInv == Boot \in SchedState /\ OneRuns(Boot)
<1> DEFINE e == [task |-> [t \in Task |-> Blank],
                 head |-> [p \in Prio |-> Nil], tail |-> [p \in Prio |-> Nil], bits |-> {},
                 wheel |-> [b \in 0 .. WheelSize - 1 |-> Nil],
                 qhead |-> [q \in {"mutex", "sem"} |-> Nil],
                 qtail |-> [q \in {"mutex", "sem"} |-> Nil], cur |-> Nil, tick |-> 0, astray |-> FALSE]
           C == Created(e, Idle, Normal)
           I == [C EXCEPT !.task[Idle].prio = 0, !.task[Idle].base = 0,
                          !.task[Idle].quantum = Forever, !.task[Idle].full = Forever]
           D == Created(I, Reaper, Critical)
<1>1. Boot = D
  BY DEF Boot
<1>2. Idle \in Task /\ Reaper \in Task /\ 0 \in Prio /\ Normal \in Prio /\ Critical \in Prio /\ Forever \in Nat
  BY SchedulerAssumption DEF Task, Idle, Reaper, Prio, Forever
<1>3. e \in SchedState
  BY BlankType DEF SchedState, TaskN, Bucket, Queue
<1>4. OneRuns(e)
  BY DEF OneRuns, Blank
<1> HIDE DEF e
<1>5. C \in SchedState /\ OneRuns(C)
  BY <1>2, <1>3, <1>4, CreatedCalm, CalmOneRuns
<1> HIDE DEF C
<1>6. I \in SchedState /\ OneRuns(I)
  <2> DEFINE I1 == [C EXCEPT !.task[Idle].prio = 0]
             I2 == [I1 EXCEPT !.task[Idle].base = 0]
             I3 == [I2 EXCEPT !.task[Idle].quantum = Forever]
             I4 == [I3 EXCEPT !.task[Idle].full = Forever]
  <2>1. I = I4
    OBVIOUS
  <2> HIDE DEF I
  <2>2. I1 \in SchedState /\ OneRuns(I1)
    <3> DEFINE r == [C.task[Idle] EXCEPT !.prio = 0]
    <3>1. C.task[Idle] \in TaskRec
      BY <1>2, <1>5 DEF SchedState
    <3>2. r \in TaskRec /\ r.state = C.task[Idle].state
      BY <1>2, <3>1 DEF TaskRec
    <3>3. I1 = [C EXCEPT !.task[Idle] = r]
      OBVIOUS
    <3> HIDE DEF r, I1
    <3> QED BY <1>2, <1>5, <3>2, <3>3, PutTask
  <2> HIDE DEF I1
  <2>3. I2 \in SchedState /\ OneRuns(I2)
    <3> DEFINE r == [I1.task[Idle] EXCEPT !.base = 0]
    <3>1. I1.task[Idle] \in TaskRec
      BY <1>2, <2>2 DEF SchedState
    <3>2. r \in TaskRec /\ r.state = I1.task[Idle].state
      BY <1>2, <3>1 DEF TaskRec
    <3>3. I2 = [I1 EXCEPT !.task[Idle] = r]
      OBVIOUS
    <3> HIDE DEF r, I2
    <3> QED BY <1>2, <2>2, <3>2, <3>3, PutTask
  <2> HIDE DEF I2
  <2>4. I3 \in SchedState /\ OneRuns(I3)
    <3> DEFINE r == [I2.task[Idle] EXCEPT !.quantum = Forever]
    <3>1. I2.task[Idle] \in TaskRec
      BY <1>2, <2>3 DEF SchedState
    <3>2. r \in TaskRec /\ r.state = I2.task[Idle].state
      BY <1>2, <3>1 DEF TaskRec
    <3>3. I3 = [I2 EXCEPT !.task[Idle] = r]
      OBVIOUS
    <3> HIDE DEF r, I3
    <3> QED BY <1>2, <2>3, <3>2, <3>3, PutTask
  <2> HIDE DEF I3
  <2>5. I4 \in SchedState /\ OneRuns(I4)
    <3> DEFINE r == [I3.task[Idle] EXCEPT !.full = Forever]
    <3>1. I3.task[Idle] \in TaskRec
      BY <1>2, <2>4 DEF SchedState
    <3>2. r \in TaskRec /\ r.state = I3.task[Idle].state
      BY <1>2, <3>1 DEF TaskRec
    <3>3. I4 = [I3 EXCEPT !.task[Idle] = r]
      OBVIOUS
    <3> HIDE DEF r, I4
    <3> QED BY <1>2, <2>4, <3>2, <3>3, PutTask
  <2> QED BY <2>1, <2>5
<1> HIDE DEF I
<1>7. D \in SchedState /\ OneRuns(D)
  BY <1>2, <1>6, CreatedCalm, CalmOneRuns
<1> QED BY <1>1, <1>7

\* scheduler_init establishes the invariant.
LEMMA SchedInit == Init => SchedInv
<1> SUFFICES ASSUME Init PROVE SchedInv
  OBVIOUS
<1>1. s \in SchedState /\ RunningIsCurrent
  BY BootInv DEF Init, RunningIsCurrent, OneRuns
<1>2. wait \in [Task -> Nat]
  BY DEF Init
<1>3. 0 \in Prio
  BY SchedulerAssumption DEF Prio
<1>4. mutex \in MutexRec /\ MutexExclusive
  BY <1>3 DEF Init, MutexRec, MutexExclusive, TaskN
<1> QED BY <1>1, <1>2, <1>4 DEF SchedInv

\* What a step that does not touch the mutex has to show.
Good(S) == S \in SchedState /\ OneRuns(S)

\* A calm operation keeps a good state good.
LEMMA GoodCalm ==
    ASSUME NEW S, NEW T, Good(S), Calm(S, T)
    PROVE  Good(T)
BY CalmOneRuns DEF Good, Calm

\* schedule() keeps a good state good.
LEMMA GoodSchedule ==
    ASSUME NEW S, Good(S)
    PROVE  Good(Schedule(S))
BY ScheduleOneRuns DEF Good

\* The invariant in terms of Good.
LEMMA InvGood == SchedInv <=> /\ Good(s) /\ wait \in [Task -> Nat]
                              /\ mutex \in MutexRec /\ MutexExclusive
BY DEF SchedInv, Good, OneRuns, RunningIsCurrent

\* A task is not NULL.
LEMMA TaskNotNil == \A t \in Task : t # Nil /\ t \in TaskN
BY SchedulerAssumption DEF Task, Nil, TaskN

\* task_sleep and the reaper's pause change a task's state to sleeping.
LEMMA SleepInGood ==
    ASSUME NEW S, Good(S), NEW c \in Task, NEW n \in Nat
    PROVE  Good(SleepIn(S, c, n))
<1> DEFINE A == Set(S, c, "until", S.tick + n)
<1>1. S \in SchedState /\ S.tick + n \in Nat
  BY DEF Good, SchedState
<1>2. Calm(S, A) /\ A \in SchedState
  BY <1>1, SetField
<1>3. SleepIn(S, c, n) = Set(A, c, "state", "sleeping")
  BY DEF SleepIn
<1> HIDE DEF A
<1>4. Calm(A, Set(A, c, "state", "sleeping"))
  BY <1>2, SetField DEF Quiet
<1> QED BY <1>2, <1>3, <1>4, GoodCalm

\* The tick's part that may preempt keeps a good state good.
LEMMA QuantumGood ==
    ASSUME NEW S, Good(S)
    PROVE  Good(Quantum(S))
<1> DEFINE c == S.cur
           q == S.task[c].quantum
           l == IF q > 0 THEN q - 1 ELSE 0
<1>1. S \in SchedState
  BY DEF Good
<1>2. CASE c = Nil
  BY <1>2 DEF Quantum
<1>3. CASE c # Nil
  <2>1. c \in Task
    BY <1>1, <1>3 DEF SchedState, TaskN
  <2>2. q \in Nat /\ S.task[c].full \in Nat
    BY <1>1, <2>1 DEF SchedState, TaskRec
  <2>3. l \in Nat
    BY <2>2
  <2> DEFINE A == Set(S, c, "quantum", l)
             B == Set(S, c, "quantum", S.task[c].full)
  <2>4. Good(A) /\ Good(B)
    <3> DEFINE f == S.task[c].full
    <3>1. l \in Nat /\ f \in Nat /\ c \in Task
      BY <2>1, <2>2, <2>3
    <3> HIDE DEF l, c, f
    <3>2. \A v \in Nat : Calm(S, Set(S, c, "quantum", v))
      BY <1>1, <3>1, SetField
    <3>3. \A v \in Nat : Good(Set(S, c, "quantum", v))
      BY <3>2, GoodCalm
    <3>4. Good(A) /\ Good(Set(S, c, "quantum", f))
      BY <3>1, <3>3
    <3> QED BY <3>4 DEF f
  <2>5. Quantum(S) \in {A, Schedule(B)}
    BY <1>3 DEF Quantum
  <2> HIDE DEF A, B
  <2> QED BY <2>4, <2>5, GoodSchedule
<1> QED BY <1>2, <1>3

-----------------------------------------------------------------------------
\* Steps that leave the locks alone.
LEMMA QuietStep ==
    ASSUME SchedInv, UNCHANGED locks, Good(s'), wait' \in [Task -> Nat]
    PROVE  SchedInv'
<1>1. Good(s)' /\ (wait \in [Task -> Nat])' /\ (mutex \in MutexRec)' /\ MutexExclusive'
  BY DEF SchedInv, locks, Good, MutexExclusive
<1> QED BY <1>1 DEF SchedInv, Good, OneRuns, RunningIsCurrent

\* The calls of a task that touch neither mutex nor semaphore keep the invariant.
LEMMA TaskSteps ==
    ASSUME SchedInv, NEW c \in Task,
           \/ task_yield(c) \/ SleepInsert(c) \/ SleepSwitch(c) \/ task_wake_all(c) \/ task_exit(c) \/ ExitSwitch(c)
           \/ \E n \in Sleeps : task_sleep(c, n)
           \/ \E t \in Task : task_wake(c, t)
    PROVE  SchedInv'
<1>1. Good(s) /\ s \in SchedState /\ wait \in [Task -> Nat]
  BY InvGood DEF Good
<1>2. CASE task_yield(c)
  <2> DEFINE A == Set(s, c, "quantum", s.task[c].full)
  <2>1. s.task[c].full \in Nat
    BY <1>1 DEF SchedState, TaskRec
  <2>2. Good(A)
    <3> DEFINE v == s.task[c].full
    <3>1. v \in Nat
      BY <2>1
    <3> HIDE DEF v
    <3>2. Calm(s, Set(s, c, "quantum", v))
      BY <1>1, <3>1, SetField
    <3>3. Good(Set(s, c, "quantum", v))
      BY <1>1, <3>2, GoodCalm
    <3> QED BY <3>3 DEF v
  <2>3. s' = Schedule(A) /\ UNCHANGED <<at, wait, locks>>
    BY <1>2 DEF task_yield, Switch
  <2> HIDE DEF A
  <2>4. Good(s')
    BY <2>2, <2>3, GoodSchedule
  <2> QED BY <1>1, <2>3, <2>4, QuietStep
<1>3. CASE SleepInsert(c)
  <2>1. s' = WheelInsert(s, c, wait[c]) /\ UNCHANGED <<wait, irq, locks>> /\ wait[c] \in Nat
    BY <1>1, <1>3 DEF SleepInsert
  <2>2. Good(s')
    BY <1>1, <2>1, WheelInsertCalm, GoodCalm
  <2> QED BY <1>1, <2>1, <2>2, QuietStep
<1>4. CASE SleepSwitch(c)
  <2>1. s' = Schedule(s) /\ wait' = [wait EXCEPT ![c] = 0] /\ UNCHANGED locks
    BY <1>4 DEF SleepSwitch, Switch
  <2>2. Good(s') /\ wait' \in [Task -> Nat]
    BY <1>1, <2>1, GoodSchedule
  <2> QED BY <2>1, <2>2, QuietStep
<1>5. CASE task_wake_all(c)
  <2> DEFINE F == FoldLeft(Woken, s, [i \in 1 .. Slots |-> i - 1])
  <2>1. s' = F /\ UNCHANGED <<wait, locks>>
    BY <1>5 DEF task_wake_all, FoldLeft, MapThenFoldSet
  <2>2. Calm(s, F)
    BY <1>1, WokenAllCalm DEF FoldLeft, MapThenFoldSet
  <2> HIDE DEF F
  <2>3. Good(s')
    BY <1>1, <2>1, <2>2, GoodCalm
  <2> QED BY <1>1, <2>1, <2>3, QuietStep
<1>6. CASE task_exit(c)
  <2>1. s' = Set(s, c, "state", "zombie") /\ UNCHANGED <<wait, irq, locks>>
    BY <1>6 DEF task_exit
  <2>2. Good(s')
    BY <1>1, <2>1, SetField, GoodCalm DEF Quiet
  <2> QED BY <1>1, <2>1, <2>2, QuietStep
<1>7. CASE ExitSwitch(c)
  <2>1. s' = Schedule(s) /\ UNCHANGED <<wait, locks>>
    BY <1>7 DEF ExitSwitch, Switch
  <2>2. Good(s')
    BY <1>1, <2>1, GoodSchedule
  <2> QED BY <1>1, <2>1, <2>2, QuietStep
<1>8. ASSUME NEW n \in Sleeps, task_sleep(c, n) PROVE SchedInv'
  <2>1. n \in Nat
    BY SchedulerAssumption
  <2>2. s' = SleepIn(s, c, n) /\ wait' = [wait EXCEPT ![c] = n] /\ UNCHANGED locks
    BY <1>8 DEF task_sleep
  <2>3. Good(s') /\ wait' \in [Task -> Nat]
    BY <1>1, <2>1, <2>2, SleepInGood
  <2> QED BY <2>2, <2>3, QuietStep
<1>9. ASSUME NEW t \in Task, task_wake(c, t) PROVE SchedInv'
  <2>1. s' = Woken(s, t) /\ UNCHANGED <<wait, locks>>
    BY <1>9 DEF task_wake
  <2>2. Good(s')
    BY <1>1, <2>1, WokenCalm, GoodCalm
  <2> QED BY <1>1, <2>1, <2>2, QuietStep
<1> QED BY <1>2, <1>3, <1>4, <1>5, <1>6, <1>7, <1>8, <1>9

\* The timer, start-up, the reaper and task_create keep the invariant.
LEMMA KernelSteps ==
    ASSUME SchedInv, timer_callback \/ Start \/ reaper_entry \/ \E t \in Task, p \in UserPrio : Create(t, p)
    PROVE  SchedInv'
<1>1. Good(s) /\ s \in SchedState /\ wait \in [Task -> Nat]
  BY InvGood DEF Good
<1>2. CASE timer_callback
  <2>1. s' = Quantum(WheelTick(s)) /\ UNCHANGED <<wait, locks>>
    BY <1>2 DEF timer_callback
  <2>2. Good(WheelTick(s))
    BY <1>1, WheelTickCalm, GoodCalm
  <2>3. Good(s')
    BY <2>1, <2>2, QuantumGood
  <2> QED BY <1>1, <2>1, <2>3, QuietStep
<1>3. CASE Start
  <2>1. s' = Schedule(s) /\ UNCHANGED <<wait, locks>>
    BY <1>3 DEF Start, Switch
  <2>2. Good(s')
    BY <1>1, <2>1, GoodSchedule
  <2> QED BY <1>1, <2>1, <2>2, QuietStep
<1>4. CASE reaper_entry
  <2>1. s' = SleepIn(Reaped(s), Reaper, ReapTicks) /\ wait' = [wait EXCEPT ![Reaper] = ReapTicks] /\ UNCHANGED locks
    BY <1>4 DEF reaper_entry
  <2>2. ReapTicks \in Nat /\ Reaper \in Task
    BY SchedulerAssumption DEF Reaper, Task
  <2>3. Good(Reaped(s))
    BY <1>1, ReapedCalm, GoodCalm
  <2>4. Good(s') /\ wait' \in [Task -> Nat]
    BY <1>1, <2>1, <2>2, <2>3, SleepInGood
  <2> QED BY <2>1, <2>4, QuietStep
<1>5. ASSUME NEW t \in Task, NEW p \in UserPrio, Create(t, p) PROVE SchedInv'
  <2>1. p \in Prio
    BY SchedulerAssumption
  <2>2. s' = Created(s, t, p) /\ UNCHANGED <<wait, locks>>
    BY <1>5 DEF Create
  <2>3. Good(s')
    BY <1>1, <2>1, <2>2, CreatedCalm, GoodCalm
  <2> QED BY <1>1, <2>2, <2>3, QuietStep
<1> QED BY <1>2, <1>3, <1>4, <1>5

-----------------------------------------------------------------------------
(***************************************************************************)
(* Steps of the mutex and of the semaphore.                                *)
(***************************************************************************)
\* What a step has to show of the mutex.
MutexInv == mutex \in MutexRec /\ MutexExclusive

\* Every invariant part after a step, from the parts.
LEMMA InvParts ==
    ASSUME Good(s'), wait' \in [Task -> Nat], MutexInv'
    PROVE  SchedInv'
<1>1. Good(s)' /\ (wait \in [Task -> Nat])' /\ (mutex \in MutexRec)' /\ MutexExclusive'
  BY DEF MutexInv, MutexExclusive, Good
<1> QED BY <1>1 DEF SchedInv, Good, OneRuns, RunningIsCurrent

\* A task that takes an unlocked mutex becomes its one holder: held was empty.
LEMMA TakeMutexInv ==
    ASSUME SchedInv, NEW c \in Task, ~mutex.locked, TakeMutex(c)
    PROVE  MutexInv'
<1>1. s.task[c].base \in Prio
  BY DEF SchedInv, SchedState, TaskRec
<1>2. mutex' = [spin |-> 0, locked |-> TRUE, owner |-> c, orig |-> s.task[c].base] /\ held' = held \cup {c}
  BY DEF TakeMutex
<1>3. held = {}
  BY DEF SchedInv, MutexExclusive
<1>4. mutex' \in MutexRec
  BY <1>1, <1>2, TaskNotNil DEF MutexRec
<1>5. MutexExclusive'
  BY <1>2, <1>3, TaskNotNil DEF MutexExclusive
<1> QED BY <1>4, <1>5 DEF MutexInv

\* A step that only writes the mutex's spinlock keeps owner and holders.
LEMMA SpinMutexInv ==
    ASSUME SchedInv, NEW v \in {0, 1}, mutex' = [mutex EXCEPT !.spin = v], held' = held
    PROVE  MutexInv'
BY DEF SchedInv, MutexInv, MutexRec, MutexExclusive

\* A step that leaves the mutex and its holder alone keeps their part.
LEMMA SameMutexInv ==
    ASSUME SchedInv, mutex' = mutex, held' = held
    PROVE  MutexInv'
BY DEF SchedInv, MutexInv, MutexExclusive

\* Blocking and switching away, with the owner boosted first or not.
LEMMA BlockGood ==
    ASSUME NEW S, Good(S), NEW c \in Task, NEW q \in Queue, NEW n \in Nat
    PROVE  Good(Schedule(Blocked(S, c, q, n)))
<1>1. S \in SchedState
  BY DEF Good
<1>2. Calm(S, Blocked(S, c, q, n))
  BY <1>1, BlockedCalm
<1>3. Good(Blocked(S, c, q, n))
  BY <1>2, GoodCalm
<1> QED BY <1>3, GoodSchedule

\* A pass of mutex_lock's loop.
LEMMA MutexPassInv ==
    ASSUME SchedInv, NEW c \in Task, NEW n \in Nat, MutexPass(c, n)
    PROVE  SchedInv'
<1>1. Good(s) /\ s \in SchedState /\ wait \in [Task -> Nat]
  BY InvGood DEF Good
<1>2. CASE ~mutex.locked
  <2>1. TakeMutex(c) /\ wait' = wait /\ s' = s
    BY <1>2 DEF MutexPass
  <2>2. MutexInv'
    BY <1>2, <2>1, TakeMutexInv
  <2> QED BY <1>1, <2>1, <2>2, InvParts
<1>3. CASE mutex.locked
  <2> DEFINE p == s.task[c].prio
             o == mutex.owner
             S == IF s.task[o].prio < p THEN Boosted(s, o, p) ELSE s
  <2>1. s' = Schedule(Blocked(S, c, "mutex", n)) /\ mutex' = [mutex EXCEPT !.spin = 1]
        /\ wait' = [wait EXCEPT ![c] = n] /\ held' = held
    BY <1>3 DEF MutexPass, Switch
  <2>2. p \in Prio /\ o \in Task
    BY <1>1, <1>3 DEF SchedInv, SchedState, TaskRec, MutexExclusive, MutexRec, TaskN
  <2>3. Calm(s, S)
    <3> HIDE DEF o, p
    <3>1. Calm(s, Boosted(s, o, p)) /\ Calm(s, s)
      BY <1>1, <2>2, BoostCalm, CalmRefl
    <3> QED BY <3>1
  <2>4. Good(S)
    <3> HIDE DEF S
    <3> QED BY <1>1, <2>3, GoodCalm
  <2> HIDE DEF S
  <2>5. Good(s')
    BY <2>1, <2>4, BlockGood DEF Queue
  <2>6. wait' \in [Task -> Nat]
    BY <1>1, <2>1
  <2>7. MutexInv'
    BY <2>1, SpinMutexInv
  <2> QED BY <2>5, <2>6, <2>7, InvParts
<1> QED BY <1>2, <1>3

\* A pass of sem_wait's loop.
LEMMA SemPassInv ==
    ASSUME SchedInv, NEW c \in Task, NEW n \in Nat, SemPass(c, n), mutex' = mutex, held' = held
    PROVE  SchedInv'
<1>1. Good(s) /\ wait \in [Task -> Nat]
  BY InvGood
<1>2. MutexInv'
  BY SameMutexInv
<1>3. CASE sem.units >= 1
  <2>1. s' = s /\ wait' = wait
    BY <1>3 DEF SemPass
  <2> QED BY <1>1, <1>2, <2>1, InvParts
<1>4. CASE ~(sem.units >= 1)
  <2>1. s' = Schedule(Blocked(s, c, "sem", n)) /\ wait' = [wait EXCEPT ![c] = n]
    BY <1>4 DEF SemPass, Switch
  <2>2. Good(s') /\ wait' \in [Task -> Nat]
    BY <1>1, <2>1, BlockGood DEF Queue
  <2> QED BY <1>2, <2>2, InvParts
<1> QED BY <1>3, <1>4

\* A task that spins changes nothing but its place in the code.
LEMMA SpinInv ==
    ASSUME SchedInv, NEW c \in Task, Spin(c)
    PROVE  SchedInv'
<1>1. s' = s /\ wait' = wait /\ mutex' = mutex /\ held' = held
  BY DEF Spin, locks
<1>2. Good(s) /\ wait \in [Task -> Nat]
  BY InvGood
<1> QED BY <1>1, <1>2, SameMutexInv, InvParts

LockStep(c) ==
    \/ \E n \in Sleeps \cup {0} : mutex_lock(c, n) \/ sem_wait(c, n)
    \/ MutexReturn(c) \/ mutex_trylock(c) \/ mutex_unlock(c)
    \/ SemReturn(c) \/ sem_trywait(c) \/ sem_signal(c)

\* The operations of sync/mutex.c and sync/semaphore.c.
LEMMA LockSteps ==
    ASSUME SchedInv, NEW c \in Task, LockStep(c)
    PROVE  SchedInv'
<1>1. Good(s) /\ s \in SchedState /\ wait \in [Task -> Nat] /\ wait[c] \in Nat
  BY InvGood DEF Good
<1>2. ASSUME NEW n \in Sleeps \cup {0}, mutex_lock(c, n) PROVE SchedInv'
  <2>1. n \in Nat
    BY SchedulerAssumption
  <2>2. Spin(c) \/ MutexPass(c, n)
    BY <1>2 DEF mutex_lock
  <2> QED BY <2>1, <2>2, SpinInv, MutexPassInv
<1>3. ASSUME NEW n \in Sleeps \cup {0}, sem_wait(c, n) PROVE SchedInv'
  <2>1. n \in Nat
    BY SchedulerAssumption
  <2>2. Spin(c) \/ (SemPass(c, n) /\ mutex' = mutex /\ held' = held)
    BY <1>3 DEF sem_wait
  <2> QED BY <2>1, <2>2, SpinInv, SemPassInv
<1>4. CASE MutexReturn(c)
  <2>1. CASE s.task[c].reason = "timeout"
    <3>1. wait' = [wait EXCEPT ![c] = 0] /\ mutex' = [mutex EXCEPT !.spin = 0] /\ s' = s /\ held' = held
      BY <1>4, <2>1 DEF MutexReturn
    <3>2. MutexInv'
      BY <3>1, SpinMutexInv
    <3>3. Good(s') /\ wait' \in [Task -> Nat]
      BY <1>1, <3>1
    <3> QED BY <3>2, <3>3, InvParts
  <2>2. CASE s.task[c].reason # "timeout"
    <3>1. MutexPass(c, wait[c])
      BY <1>4, <2>2 DEF MutexReturn
    <3> QED BY <1>1, <3>1, MutexPassInv
  <2> QED BY <2>1, <2>2
<1>5. CASE mutex_trylock(c)
  <2>1. CASE mutex.spin = 1
    BY <1>5, <2>1, SpinInv DEF mutex_trylock
  <2>2. CASE mutex.spin # 1
    <3>1. ~mutex.locked /\ TakeMutex(c) /\ s' = s /\ wait' = wait
      BY <1>5, <2>2 DEF mutex_trylock
    <3>2. MutexInv'
      BY <3>1, TakeMutexInv
    <3> QED BY <1>1, <3>1, <3>2, InvParts
  <2> QED BY <2>1, <2>2
<1>6. CASE mutex_unlock(c)
  <2>1. CASE mutex.spin = 1
    BY <1>6, <2>1, SpinInv DEF mutex_unlock
  <2>2. CASE mutex.spin # 1
    <3> DEFINE U == IF s.task[c].prio # mutex.orig THEN Unboosted(s, c) ELSE s
    <3>1. s' = WakeOne(U, "mutex") /\ wait' = wait /\ held' = held \ {c} /\ mutex.owner = c
          /\ mutex' = [spin |-> 0, locked |-> FALSE, owner |-> Nil, orig |-> 0]
      BY <1>6, <2>2 DEF mutex_unlock
    <3>2. Good(U)
      <4>1. 0 \in Prio
        BY SchedulerAssumption DEF Prio
      <4>2. Calm(s, Unboosted(s, c))
        BY <1>1, <4>1, BoostCalm
      <4>3. Good(Unboosted(s, c))
        BY <1>1, <4>2, GoodCalm
      <4> QED BY <1>1, <4>3
    <3> HIDE DEF U
    <3>3. U \in SchedState
      BY <3>2 DEF Good
    <3>4. Calm(U, WakeOne(U, "mutex"))
      BY <3>3, WakeOneCalm DEF Queue
    <3>5. Good(s')
      BY <3>1, <3>2, <3>4, GoodCalm
    <3>6. MutexInv'
      <4>1. 0 \in Prio
        BY SchedulerAssumption DEF Prio
      <4>2. held' = {}
        BY <3>1 DEF SchedInv, MutexExclusive
      <4> QED BY <3>1, <4>1, <4>2 DEF MutexInv, MutexRec, MutexExclusive, TaskN
    <3> QED BY <1>1, <3>1, <3>5, <3>6, InvParts
  <2> QED BY <2>1, <2>2
<1>7. CASE SemReturn(c)
  <2>0. mutex' = mutex /\ held' = held
    BY <1>7 DEF SemReturn
  <2>1. CASE s.task[c].reason = "timeout"
    <3>1. wait' = [wait EXCEPT ![c] = 0] /\ s' = s
      BY <1>7, <2>1 DEF SemReturn
    <3>2. Good(s') /\ wait' \in [Task -> Nat]
      BY <1>1, <3>1
    <3> QED BY <2>0, <3>2, SameMutexInv, InvParts
  <2>2. CASE s.task[c].reason # "timeout"
    <3>1. SemPass(c, wait[c])
      BY <1>7, <2>2 DEF SemReturn
    <3> QED BY <1>1, <2>0, <3>1, SemPassInv
  <2> QED BY <2>1, <2>2
<1>8. CASE sem_trywait(c)
  <2>1. CASE sem.spin = 1
    BY <1>8, <2>1, SpinInv DEF sem_trywait
  <2>2. CASE sem.spin # 1
    <3>1. s' = s /\ wait' = wait /\ mutex' = mutex /\ held' = held
      BY <1>8, <2>2 DEF sem_trywait
    <3> QED BY <1>1, <3>1, SameMutexInv, InvParts
  <2> QED BY <2>1, <2>2
<1>9. CASE sem_signal(c)
  <2>1. CASE sem.spin = 1
    BY <1>9, <2>1, SpinInv DEF sem_signal
  <2>2. CASE sem.spin # 1
    <3> DEFINE W == WakeAllOf(s, "sem")
    <3>1. s' = W /\ wait' = wait /\ mutex' = mutex /\ held' = held
      BY <1>9, <2>2 DEF sem_signal
    <3>2. Calm(s, W)
      BY <1>1, WakeAllOfCalm
    <3> HIDE DEF W
    <3>3. Good(s')
      BY <1>1, <3>1, <3>2, GoodCalm
    <3> QED BY <1>1, <3>1, <3>3, SameMutexInv, InvParts
  <2> QED BY <2>1, <2>2
<1> QED BY <1>2, <1>3, <1>4, <1>5, <1>6, <1>7, <1>8, <1>9 DEF LockStep

\* Every step keeps the invariant.
LEMMA SchedNext == SchedInv /\ [Next]_vars => SchedInv'
<1> SUFFICES ASSUME SchedInv, [Next]_vars PROVE SchedInv'
  OBVIOUS
<1>1. CASE timer_callback \/ Start \/ reaper_entry \/ \E t \in Task, p \in UserPrio : Create(t, p)
  BY <1>1, KernelSteps
<1>2. ASSUME NEW c \in Task, TaskStep(c) PROVE SchedInv'
  <2>1. CASE LockStep(c)
    BY <2>1, LockSteps
  <2>2. CASE \/ task_yield(c) \/ SleepInsert(c) \/ SleepSwitch(c) \/ task_wake_all(c) \/ task_exit(c) \/ ExitSwitch(c)
             \/ \E n \in Sleeps : task_sleep(c, n)
             \/ \E t \in Task : task_wake(c, t)
    BY <2>2, TaskSteps
  <2> QED BY <1>2, <2>1, <2>2 DEF TaskStep, LockStep
<1>3. CASE UNCHANGED vars
  <2>1. s' = s /\ wait' = wait /\ mutex' = mutex /\ held' = held
    BY <1>3 DEF vars
  <2> QED BY <2>1, InvGood, SameMutexInv, InvParts
<1> QED BY <1>1, <1>2, <1>3 DEF Next

\* Whatever the interleaving of ticks, sleeps, wake-ups, boosts and locks, and
\* also once a task was taken off a list it was not on, no task but
\* current_task is in state TASK_RUNNING.
THEOREM RunningIsCurrentHolds == Spec => []RunningIsCurrent
<1>1. SchedInv => RunningIsCurrent
  BY DEF SchedInv
<1> QED BY <1>1, SchedInit, SchedNext, PTL DEF Spec

\* One task at a time has got through mutex_lock or mutex_trylock, and it is
\* the recorded owner until it unlocks: a waiter that times out, or is woken
\* while another task takes the mutex, never counts as a holder.
THEOREM MutexExclusiveHolds == Spec => []MutexExclusive
<1>1. SchedInv => MutexExclusive
  BY DEF SchedInv
<1> QED BY <1>1, SchedInit, SchedNext, PTL DEF Spec

-----------------------------------------------------------------------------
(***************************************************************************)
(* The semaphore's units.  sem_signal caps units at max_units, which must  *)
(* never cut off a unit that a task really gave back.                      *)
(***************************************************************************)
AllTaken == Exp!SumOver(taken, Exp!UpTo(Slots))

SemInv ==
    /\ taken \in [Task -> Nat]
    /\ sem \in [spin : {0, 1}, units : Nat]
    /\ sem.units + AllTaken = MaxUnits

\* SemConserved in the words of the sum.
LEMMA SemConservedSum == SemConserved <=> sem.units + AllTaken = MaxUnits
BY DEF SemConserved, AllTaken, Exp!SumOver, Exp!UpTo, FoldLeft, MapThenFoldSet,
       Exp!FoldLeft, Exp!MapThenFoldSet, Exp!Max, Max

\* No task has a unit at the start.
LEMMA SemInit == Init => SemInv
<1> SUFFICES ASSUME Init PROVE SemInv
  OBVIOUS
<1> DEFINE E == 0 .. Slots - 1
           q == Exp!UpTo(Slots)
<1>1. taken = [t \in Task |-> 0] /\ sem = [spin |-> 0, units |-> MaxUnits] /\ Slots \in Nat /\ MaxUnits \in Nat
  BY SchedulerAssumption DEF Init
<1>2. q \in Seq(E) /\ Len(q) = Slots /\ \A k \in 1 .. Slots : q[k] = k - 1
  BY <1>1 DEF Exp!UpTo
<1> HIDE DEF q
<1>3. PICK h \in [0 .. Len(q) -> Int] : Exp!PartialSums(h, taken, q)
  <2>1. taken \in [E -> Int]
    BY <1>1 DEF Task
  <2> HIDE DEF E
  <2> QED BY <1>2, <2>1, Exp!SumSteps
<1>4. h[0] = 0 /\ h[Slots] = Exp!SumOver(taken, q) /\ \A k \in 1 .. Slots : h[k] = h[k - 1] + taken[k - 1]
  BY <1>2, <1>3 DEF Exp!PartialSums
<1> DEFINE P(k) == k <= Slots => h[k] = 0
           T == {k \in Nat : P(k)}
<1>5. P(0)
  BY <1>4
<1>6. ASSUME NEW k \in Nat, P(k) PROVE P(k + 1)
  <2> SUFFICES ASSUME k + 1 <= Slots PROVE h[k + 1] = 0
    OBVIOUS
  <2>1. k + 1 \in 1 .. Slots /\ (k + 1) - 1 = k /\ k \in Task /\ k <= Slots
    BY <1>1 DEF Task
  <2>2. h[k + 1] = h[k] + taken[k] /\ taken[k] = 0 /\ h[k] = 0
    BY <1>1, <1>4, <1>6, <2>1
  <2> QED BY <2>2
<1>7. P(Slots)
  <2> HIDE DEF P
  <2>1. 0 \in T /\ \A k \in Nat : k \in T => k + 1 \in T
    BY <1>5, <1>6
  <2> HIDE DEF T
  <2>2. Slots \in T
    BY <1>1, <2>1, Exp!SetInduction
  <2> QED BY <2>2 DEF T
<1>8. AllTaken = 0
  BY <1>1, <1>4, <1>7 DEF AllTaken, q
<1> QED BY <1>1, <1>8 DEF SemInv

\* One unit more or less with task c is one unit more or less with all of them.
LEMMA TakenBy ==
    ASSUME SemInv, NEW c \in Task, NEW d \in {-1, 1}, taken' = [taken EXCEPT ![c] = @ + d]
    PROVE  AllTaken' = AllTaken + d /\ AllTaken \in Nat /\ AllTaken >= taken[c]
<1>1. Slots \in Nat /\ taken \in [0 .. Slots - 1 -> Nat] /\ c \in 0 .. Slots - 1
  BY SchedulerAssumption DEF Task, SemInv
<1>2. AllTaken \in Nat /\ AllTaken >= taken[c]
  BY <1>1, Exp!SumAtLeast DEF AllTaken
<1> DEFINE f == taken
           g == [taken EXCEPT ![c] = @ + d]
<1>3. f \in [0 .. Slots - 1 -> Int] /\ g \in [0 .. Slots - 1 -> Int] /\ g[c] - f[c] = d
      /\ \A i \in 0 .. Slots - 1 : i # c => g[i] = f[i]
  BY <1>1
<1>4. Exp!SumOver(g, Exp!UpTo(Slots)) = Exp!SumOver(f, Exp!UpTo(Slots)) + (g[c] - f[c])
  <2> HIDE DEF f, g
  <2> QED BY <1>1, <1>3, Exp!SumChange
<1>5. AllTaken' = Exp!SumOver(g, Exp!UpTo(Slots))
  BY DEF AllTaken
<1> QED BY <1>2, <1>3, <1>4, <1>5 DEF AllTaken

\* A step that takes a unit out of the semaphore gives it to one task.
LEMMA TakeUnit ==
    ASSUME SemInv, NEW c \in Task, sem.units >= 1, sem'.units = sem.units - 1, sem'.spin \in {0, 1},
           sem' = [spin |-> sem'.spin, units |-> sem'.units], taken' = [taken EXCEPT ![c] = @ + 1]
    PROVE  SemInv'
<1>1. AllTaken' = AllTaken + 1 /\ AllTaken \in Nat
  BY TakenBy
<1>2. taken' \in [Task -> Nat]
  BY DEF SemInv
<1>3. sem.units \in Nat /\ sem.units + AllTaken = MaxUnits
  BY DEF SemInv
<1>4. sem'.units \in Nat /\ sem'.units + AllTaken' = MaxUnits
  BY <1>1, <1>3
<1>5. sem' \in [spin : {0, 1}, units : Nat]
  BY <1>4
<1> QED BY <1>2, <1>4, <1>5 DEF SemInv

\* A step that only writes the semaphore's spinlock, or nothing.
LEMMA SpinSem ==
    ASSUME SemInv, NEW v \in {0, 1}, sem' = [sem EXCEPT !.spin = v] \/ sem' = sem, taken' = taken
    PROVE  SemInv'
<1>1. AllTaken' = AllTaken
  BY DEF AllTaken
<1> QED BY <1>1 DEF SemInv

\* A pass of sem_wait's loop.
LEMMA SemPassUnits ==
    ASSUME SemInv, NEW c \in Task, NEW n, SemPass(c, n)
    PROVE  SemInv'
<1>1. CASE sem.units >= 1
  <2>1. sem' = [spin |-> 0, units |-> sem.units - 1] /\ taken' = [taken EXCEPT ![c] = @ + 1]
    BY <1>1 DEF SemPass
  <2> QED BY <1>1, <2>1, TakeUnit
<1>2. CASE ~(sem.units >= 1)
  <2>1. sem' = [sem EXCEPT !.spin = 1] /\ taken' = taken
    BY <1>2 DEF SemPass
  <2> QED BY <2>1, SpinSem
<1> QED BY <1>1, <1>2

\* Every step keeps the sum.
LEMMA SemNext == SemInv /\ [Next]_vars => SemInv'
<1> SUFFICES ASSUME SemInv, [Next]_vars PROVE SemInv'
  OBVIOUS
<1>0. ASSUME sem' = sem, taken' = taken PROVE SemInv'
  BY <1>0, SpinSem
<1>1. CASE UNCHANGED vars
  BY <1>0, <1>1 DEF vars
<1>2. CASE timer_callback \/ Start \/ reaper_entry \/ \E t \in Task, p \in UserPrio : Create(t, p)
  BY <1>0, <1>2 DEF timer_callback, Start, reaper_entry, Create, locks
<1>3. ASSUME NEW c \in Task, TaskStep(c) PROVE SemInv'
  <2>1. ASSUME NEW n, sem_wait(c, n) PROVE SemInv'
    <3>1. CASE Spin(c)
      BY <1>0, <3>1 DEF Spin, locks
    <3>2. CASE SemPass(c, n)
      BY <3>2, SemPassUnits
    <3> QED BY <2>1, <3>1, <3>2 DEF sem_wait
  <2>2. CASE SemReturn(c)
    <3>1. CASE s.task[c].reason = "timeout"
      <4>1. sem' = [sem EXCEPT !.spin = 0] /\ taken' = taken
        BY <2>2, <3>1 DEF SemReturn
      <4> QED BY <4>1, SpinSem
    <3>2. CASE s.task[c].reason # "timeout"
      <4>1. SemPass(c, wait[c])
        BY <2>2, <3>2 DEF SemReturn
      <4> QED BY <4>1, SemPassUnits
    <3> QED BY <3>1, <3>2
  <2>3. CASE sem_trywait(c)
    <3>1. CASE sem.spin = 1
      BY <1>0, <2>3, <3>1 DEF sem_trywait, Spin, locks
    <3>2. CASE sem.spin # 1
      <4>1. sem.units >= 1 /\ sem' = [sem EXCEPT !.units = @ - 1] /\ taken' = [taken EXCEPT ![c] = @ + 1]
        BY <2>3, <3>2 DEF sem_trywait
      <4>2. sem'.units = sem.units - 1 /\ sem'.spin \in {0, 1} /\ sem' = [spin |-> sem'.spin, units |-> sem'.units]
        BY <4>1 DEF SemInv
      <4> QED BY <4>1, <4>2, TakeUnit
    <3> QED BY <3>1, <3>2
  <2>4. CASE sem_signal(c)
    <3>1. CASE sem.spin = 1
      BY <1>0, <2>4, <3>1 DEF sem_signal, Spin, locks
    <3>2. CASE sem.spin # 1
      <4>1. /\ taken[c] > 0 /\ taken' = [taken EXCEPT ![c] = @ - 1]
            /\ sem' = [sem EXCEPT !.units = IF @ + 1 > MaxUnits THEN MaxUnits ELSE @ + 1]
        BY <2>4, <3>2 DEF sem_signal
      <4>2. taken[c] \in Nat /\ sem.units \in Nat /\ sem.units + AllTaken = MaxUnits
        BY DEF SemInv
      <4>3. taken' = [taken EXCEPT ![c] = @ + (-1)] /\ taken' \in [Task -> Nat]
        <5>1. taken[c] - 1 = taken[c] + (-1) /\ taken[c] - 1 \in Nat
          BY <4>1, <4>2
        <5>2. taken' = [taken EXCEPT ![c] = taken[c] - 1] /\ taken' = [taken EXCEPT ![c] = taken[c] + (-1)]
          BY <4>1, <5>1
        <5> QED BY <5>1, <5>2 DEF SemInv
      <4>4. AllTaken' = AllTaken + (-1) /\ AllTaken \in Nat /\ AllTaken >= taken[c]
        BY <4>3, TakenBy
      <4>5. ~(sem.units + 1 > MaxUnits)
        BY <4>1, <4>2, <4>4
      <4>6. sem' = [sem EXCEPT !.units = sem.units + 1]
        BY <4>1, <4>5
      <4>7. sem' \in [spin : {0, 1}, units : Nat] /\ sem'.units = sem.units + 1
        BY <4>2, <4>6 DEF SemInv
      <4>8. sem'.units + AllTaken' = MaxUnits
        BY <4>2, <4>4, <4>7
      <4> QED BY <4>3, <4>7, <4>8 DEF SemInv
    <3> QED BY <3>1, <3>2
  <2>5. ASSUME NEW n, mutex_lock(c, n) PROVE SemInv'
    BY <1>0, <2>5 DEF mutex_lock, Spin, locks
  <2>6. CASE MutexReturn(c) \/ mutex_trylock(c) \/ mutex_unlock(c)
    BY <1>0, <2>6 DEF MutexReturn, mutex_trylock, mutex_unlock, Spin, locks
  <2>7. CASE task_yield(c) \/ SleepInsert(c) \/ SleepSwitch(c) \/ task_exit(c) \/ ExitSwitch(c) \/ task_wake_all(c)
    BY <1>0, <2>7 DEF task_yield, SleepInsert, SleepSwitch, task_exit, ExitSwitch, task_wake_all, locks
  <2>8. ASSUME NEW n, task_sleep(c, n) PROVE SemInv'
    BY <1>0, <2>8 DEF task_sleep, locks
  <2>9. ASSUME NEW t, task_wake(c, t) PROVE SemInv'
    BY <1>0, <2>9 DEF task_wake, locks
  <2> QED BY <1>3, <2>1, <2>2, <2>3, <2>4, <2>5, <2>6, <2>7, <2>8, <2>9 DEF TaskStep
<1> QED BY <1>1, <1>2, <1>3 DEF Next

\* The units that tasks hold and those left add up to max_units, whatever waits
\* time out, retry or are woken in between; so sem_signal's cap never drops a unit.
THEOREM SemConservedHolds == Spec => []SemConserved
<1>1. SemInv => SemConserved
  BY SemConservedSum DEF SemInv
<1> QED BY <1>1, SemInit, SemNext, PTL DEF Spec
-----------------------------------------------------------------------------
(***************************************************************************)
(* The wait queues.  A queue is a doubly linked list of the tasks whose    *)
(* queue field names it; w lists them in order.                            *)
(***************************************************************************)
Lane(S, q, w) ==
    /\ w \in Seq(Task)
    /\ \A i, j \in 1 .. Len(w) : w[i] = w[j] => i = j
    /\ \A u \in Task : S.task[u].queue = q <=> \E i \in 1 .. Len(w) : w[i] = u
    /\ S.qhead[q] = IF Len(w) = 0 THEN Nil ELSE w[1]
    /\ S.qtail[q] = IF Len(w) = 0 THEN Nil ELSE w[Len(w)]
    /\ \A i \in 1 .. Len(w) : S.task[w[i]].wnext = IF i = Len(w) THEN Nil ELSE w[i + 1]
    /\ \A i \in 1 .. Len(w) : S.task[w[i]].wprev = IF i = 1 THEN Nil ELSE w[i - 1]
Lined(S) == \A q \in Queue : \E w : Lane(S, q, w)

\* A task is blocked exactly while it is on a queue; but for one task, which is
\* on none, while it is being woken.
Waiting(S) == Lined(S) /\ \A u \in Task : S.task[u].state = "blocked" <=> S.task[u].queue # "none"
Waking(S, t) ==
    /\ Lined(S) /\ S.task[t].queue = "none"
    /\ \A u \in Task \ {t} : S.task[u].state = "blocked" <=> S.task[u].queue # "none"

\* An operation that leaves queues and queued tasks alone.
SameQueues(S, T) ==
    /\ T \in SchedState /\ T.qhead = S.qhead /\ T.qtail = S.qtail /\ T.astray = S.astray /\ T.cur = S.cur
    /\ \A u \in Task : /\ T.task[u].queue = S.task[u].queue
                       /\ S.task[u].queue # "none" => /\ T.task[u].wnext = S.task[u].wnext
                                                      /\ T.task[u].wprev = S.task[u].wprev
Aside(S, T) ==
    SameQueues(S, T) /\ \A u \in Task : T.task[u].state = "blocked" <=> S.task[u].state = "blocked"

\* An operation that at most takes tasks off their queues.
Settles(S, T) ==
    /\ T \in SchedState /\ Waiting(T) /\ T.astray = S.astray /\ T.cur = S.cur
    /\ \A u \in Task : T.task[u].state = "blocked" =>
           S.task[u].state = "blocked" /\ T.task[u].queue = S.task[u].queue

\* Changes aside of the wait queues add up.
LEMMA AsideTrans ==
    ASSUME NEW S, NEW T, NEW U, Aside(S, T), Aside(T, U)
    PROVE  Aside(S, U)
BY DEF Aside, SameQueues

\* No change is one of them.
LEMMA AsideRefl ==
    ASSUME NEW S \in SchedState
    PROVE  Aside(S, S)
BY DEF Aside, SameQueues

\* Operations that only let tasks leave the queues add up too.
LEMMA SettlesTrans ==
    ASSUME NEW S, NEW T, NEW U, Settles(S, T), Settles(T, U)
    PROVE  Settles(S, U)
BY DEF Settles

\* The queues are as long and as linked as before.
LEMMA SameLined ==
    ASSUME NEW S, NEW T, SameQueues(S, T), Lined(S)
    PROVE  Lined(T)
<1> SUFFICES ASSUME NEW q \in Queue PROVE \E w : Lane(T, q, w)
  BY DEF Lined
<1>1. PICK w : Lane(S, q, w)
  BY DEF Lined
<1>2. \A i \in 1 .. Len(w) : w[i] \in Task /\ S.task[w[i]].queue = q /\ q # "none"
  BY <1>1 DEF Lane, Queue
<1>3. \A i \in 1 .. Len(w) : T.task[w[i]].wnext = S.task[w[i]].wnext /\ T.task[w[i]].wprev = S.task[w[i]].wprev
  BY <1>2 DEF SameQueues
<1>4. T.qhead = S.qhead /\ T.qtail = S.qtail /\ \A u \in Task : T.task[u].queue = S.task[u].queue
  BY DEF SameQueues
<1>5. Lane(T, q, w)
  BY <1>1, <1>3, <1>4, SMTT(40) DEF Lane
<1> QED BY <1>5

\* A change aside of the queues lets nobody join one.
LEMMA AsideSettles ==
    ASSUME NEW S, NEW T, Aside(S, T), Waiting(S)
    PROVE  Settles(S, T)
<1>1. Lined(T)
  BY SameLined DEF Aside, Waiting
<1>2. Waiting(T)
  BY <1>1 DEF Aside, SameQueues, Waiting
<1> QED BY <1>2 DEF Aside, SameQueues, Settles

\* Neither does no change.
LEMMA SettlesRefl ==
    ASSUME NEW S \in SchedState, Waiting(S)
    PROVE  Settles(S, S)
BY DEF Settles

-----------------------------------------------------------------------------
Plain == {"prio", "next", "prev", "until", "tnext", "tprev", "bucket", "reason", "quantum"}

\* Writes of other fields than state, queue and the queue's links.
LEMMA SetAside ==
    ASSUME NEW S \in SchedState, NEW t \in Task, NEW f \in Plain, NEW v, Set(S, t, f, v) \in SchedState
    PROVE  Aside(S, Set(S, t, f, v))
<1> DEFINE T == Set(S, t, f, v)
<1>1. T.qhead = S.qhead /\ T.qtail = S.qtail /\ T.astray = S.astray /\ T.cur = S.cur
  BY DEF Set, SchedState
<1>2. \A u \in Task : /\ T.task[u].queue = S.task[u].queue /\ T.task[u].wnext = S.task[u].wnext
                      /\ T.task[u].wprev = S.task[u].wprev /\ T.task[u].state = S.task[u].state
  BY DEF Set, SchedState, TaskRec, Plain
<1> QED BY <1>1, <1>2 DEF Aside, SameQueues

\* Links of the ready lists and of the wheel.
LEMMA LinkAside ==
    ASSUME NEW S \in SchedState, NEW t \in Task, NEW v \in TaskN, NEW f \in {"next", "prev", "tnext", "tprev"}
    PROVE  Aside(S, Set(S, t, f, v)) /\ Set(S, t, f, v) \in SchedState
<1>1. Set(S, t, f, v) \in SchedState
  BY SetLink DEF Links
<1>2. f \in Plain
  BY DEF Plain
<1> QED BY <1>1, <1>2, SetAside

\* Fields that are no links.
LEMMA FieldAside ==
    ASSUME NEW S \in SchedState, NEW t \in Task
    PROVE  /\ \A v \in Nat : Aside(S, Set(S, t, "until", v)) /\ Set(S, t, "until", v) \in SchedState
           /\ \A v \in Bucket \cup {Never} : Aside(S, Set(S, t, "bucket", v)) /\ Set(S, t, "bucket", v) \in SchedState
           /\ \A v \in {"none", "timeout", "signaled"} :
                 Aside(S, Set(S, t, "reason", v)) /\ Set(S, t, "reason", v) \in SchedState
           /\ \A v \in Prio : Aside(S, Set(S, t, "prio", v)) /\ Set(S, t, "prio", v) \in SchedState
           /\ \A v \in Nat : Aside(S, Set(S, t, "quantum", v)) /\ Set(S, t, "quantum", v) \in SchedState
<1>1. "until" \in Plain /\ "bucket" \in Plain /\ "reason" \in Plain /\ "prio" \in Plain /\ "quantum" \in Plain
  BY DEF Plain
<1> QED BY <1>1, SetField, SetAside

\* Heads, tails and bits.
LEMMA HeadAside ==
    ASSUME NEW S \in SchedState, NEW v \in TaskN
    PROVE  /\ \A p \in Prio : Aside(S, [S EXCEPT !.head[p] = v]) /\ [S EXCEPT !.head[p] = v] \in SchedState
           /\ \A p \in Prio : Aside(S, [S EXCEPT !.tail[p] = v]) /\ [S EXCEPT !.tail[p] = v] \in SchedState
           /\ \A b \in Bucket : Aside(S, [S EXCEPT !.wheel[b] = v]) /\ [S EXCEPT !.wheel[b] = v] \in SchedState
           /\ \A p \in Prio, w \in TaskN : Aside(S, [S EXCEPT !.head[p] = v, !.tail[p] = w, !.bits = @ \cup {p}])
           /\ \A B \in SUBSET Prio : Aside(S, [S EXCEPT !.bits = B]) /\ [S EXCEPT !.bits = B] \in SchedState
<1>1. \A p \in Prio : Aside(S, [S EXCEPT !.head[p] = v]) /\ [S EXCEPT !.head[p] = v] \in SchedState
  BY DEF Aside, SameQueues, SchedState
<1>2. \A p \in Prio : Aside(S, [S EXCEPT !.tail[p] = v]) /\ [S EXCEPT !.tail[p] = v] \in SchedState
  BY DEF Aside, SameQueues, SchedState
<1>3. \A b \in Bucket : Aside(S, [S EXCEPT !.wheel[b] = v]) /\ [S EXCEPT !.wheel[b] = v] \in SchedState
  BY DEF Aside, SameQueues, SchedState
<1>4. ASSUME NEW p \in Prio, NEW w \in TaskN PROVE Aside(S, [S EXCEPT !.head[p] = v, !.tail[p] = w, !.bits = @ \cup {p}])
  <2> DEFINE T == [S EXCEPT !.head[p] = v, !.tail[p] = w, !.bits = @ \cup {p}]
  <2>1. T.task = S.task /\ T.qhead = S.qhead /\ T.qtail = S.qtail /\ T.astray = S.astray /\ T.cur = S.cur
    BY DEF SchedState
  <2>2. T \in SchedState
    BY SetList DEF Calm
  <2> HIDE DEF T
  <2>3. Aside(S, T)
    BY <2>1, <2>2 DEF Aside, SameQueues
  <2> QED BY <2>3 DEF T
<1>5. \A B \in SUBSET Prio : Aside(S, [S EXCEPT !.bits = B]) /\ [S EXCEPT !.bits = B] \in SchedState
  BY DEF Aside, SameQueues, SchedState
<1> QED BY <1>1, <1>2, <1>3, <1>4, <1>5
-----------------------------------------------------------------------------
\* scheduler_add, but for the state that it writes first.
LEMMA AddAside ==
    ASSUME NEW S \in SchedState, NEW t \in Task
    PROVE  Aside(Set(S, t, "state", "ready"), scheduler_add(S, t)) /\ Set(S, t, "state", "ready") \in SchedState
<1> DEFINE p == S.task[t].prio
           l == S.tail[p]
           T1 == Set(S, t, "state", "ready")
           T2 == Set(T1, t, "next", Nil)
           T == Set(T2, t, "prev", l)
           U == Set(T, l, "next", t)
           V == [U EXCEPT !.tail[p] = t]
           W == [T EXCEPT !.head[p] = t, !.tail[p] = t, !.bits = @ \cup {p}]
<1>1. p \in Prio /\ l \in TaskN /\ Nil \in TaskN /\ t \in TaskN
  BY DEF SchedState, TaskRec, TaskN
<1>2. T1 \in SchedState
  BY SetField DEF Quiet
<1>3. scheduler_add(S, t) = IF l # Nil THEN V ELSE W
  BY DEF scheduler_add
<1> HIDE DEF T1, p, l
<1>4. Aside(T1, T2) /\ T2 \in SchedState
  BY <1>1, <1>2, LinkAside
<1> HIDE DEF T2
<1>5. Aside(T2, T) /\ T \in SchedState
  BY <1>1, <1>4, LinkAside
<1> HIDE DEF T
<1>6. Aside(T1, T)
  BY <1>4, <1>5, AsideTrans
<1>7. CASE l # Nil
  <2>1. l \in Task
    BY <1>1, <1>7 DEF TaskN
  <2>2. Aside(T, U) /\ U \in SchedState
    BY <1>1, <1>5, <2>1, LinkAside
  <2> HIDE DEF U
  <2>3. Aside(U, V)
    BY <1>1, <2>2, HeadAside
  <2> HIDE DEF V
  <2>4. Aside(T1, V)
    BY <1>6, <2>2, <2>3, AsideTrans
  <2> QED BY <1>2, <1>3, <1>7, <2>4 DEF T1
<1>8. CASE l = Nil
  <2>1. Aside(T, W)
    BY <1>1, <1>5, HeadAside
  <2> HIDE DEF W
  <2>2. Aside(T1, W)
    BY <1>6, <2>1, AsideTrans
  <2> QED BY <1>2, <1>3, <1>8, <2>2 DEF T1
<1> QED BY <1>7, <1>8

\* Writing the state of a task that is not blocked, other than to blocked.
LEMMA StateAside ==
    ASSUME NEW S \in SchedState, NEW t \in Task, NEW v, Set(S, t, "state", v) \in SchedState,
           v # "blocked", S.task[t].state # "blocked"
    PROVE  Aside(S, Set(S, t, "state", v))
<1> DEFINE T == Set(S, t, "state", v)
<1>1. T.qhead = S.qhead /\ T.qtail = S.qtail /\ T.astray = S.astray /\ T.cur = S.cur
  BY DEF Set, SchedState
<1>2. \A u \in Task : /\ T.task[u].queue = S.task[u].queue /\ T.task[u].wnext = S.task[u].wnext
                      /\ T.task[u].wprev = S.task[u].wprev
                      /\ T.task[u].state = IF u = t THEN v ELSE S.task[u].state
  BY DEF Set, SchedState, TaskRec
<1> HIDE DEF T
<1>3. T \in SchedState
  BY DEF T
<1> QED BY <1>1, <1>2, <1>3 DEF Aside, SameQueues, T

\* Adding a task that was not blocked.
LEMMA AddQuiet ==
    ASSUME NEW S \in SchedState, NEW t \in Task, S.task[t].state # "blocked"
    PROVE  Aside(S, scheduler_add(S, t)) /\ scheduler_add(S, t) \in SchedState
<1>1. Aside(S, Set(S, t, "state", "ready"))
  BY AddAside, StateAside
<1> QED BY <1>1, AddAside, AddCalm, AsideTrans

\* Adding a task that was taken off its queue ends its wait.
LEMMA AddWakes ==
    ASSUME NEW S \in SchedState, NEW t \in Task, Waking(S, t)
    PROVE  /\ Waiting(scheduler_add(S, t)) /\ scheduler_add(S, t) \in SchedState
           /\ scheduler_add(S, t).astray = S.astray /\ scheduler_add(S, t).cur = S.cur
           /\ \A u \in Task : scheduler_add(S, t).task[u].state = "blocked" =>
                  /\ u # t /\ S.task[u].state = "blocked"
                  /\ scheduler_add(S, t).task[u].queue = S.task[u].queue
<1> DEFINE T == Set(S, t, "state", "ready")
           U == scheduler_add(S, t)
<1>1. Aside(T, U) /\ T \in SchedState
  BY AddAside
<1>2. T.qhead = S.qhead /\ T.qtail = S.qtail /\ T.astray = S.astray /\ T.cur = S.cur
  BY DEF Set, SchedState
<1>3. \A u \in Task : /\ T.task[u].queue = S.task[u].queue /\ T.task[u].wnext = S.task[u].wnext
                      /\ T.task[u].wprev = S.task[u].wprev
                      /\ T.task[u].state = IF u = t THEN "ready" ELSE S.task[u].state
  BY DEF Set, SchedState, TaskRec
<1> HIDE DEF T, U
<1>4. SameQueues(S, T)
  BY <1>1, <1>2, <1>3 DEF SameQueues
<1>5. Lined(T)
  BY <1>4, SameLined DEF Waking
<1>6. Waiting(T)
  BY <1>3, <1>5 DEF Waiting, Waking
<1>7. Settles(T, U)
  BY <1>1, <1>6, AsideSettles
<1> QED BY <1>2, <1>3, <1>7 DEF Settles, U

\* scheduler_remove works on the ready lists only.
LEMMA RemoveAside ==
    ASSUME NEW S \in SchedState, NEW t \in Task
    PROVE  Aside(S, scheduler_remove(S, t)) /\ scheduler_remove(S, t) \in SchedState
<1> DEFINE p == S.task[t].prio
           n == S.task[t].next
           v == S.task[t].prev
           A == IF v # Nil THEN Set(S, v, "next", n) ELSE [S EXCEPT !.head[p] = n]
           B == IF n # Nil THEN Set(A, n, "prev", v) ELSE [A EXCEPT !.tail[p] = v]
           C1 == Set(B, t, "next", Nil)
           C == Set(C1, t, "prev", Nil)
           D == [C EXCEPT !.bits = @ \ {p}]
<1>1. p \in Prio /\ n \in TaskN /\ v \in TaskN /\ Nil \in TaskN
  BY DEF SchedState, TaskRec, TaskN
<1>2. (n # Nil => n \in Task) /\ (v # Nil => v \in Task)
  BY <1>1 DEF TaskN
<1>3. scheduler_remove(S, t) \in {S, C, D}
  BY DEF scheduler_remove
<1> HIDE DEF p, n, v
<1>4. Aside(S, A) /\ A \in SchedState
  BY <1>1, <1>2, LinkAside, HeadAside
<1> HIDE DEF A
<1>5. Aside(A, B) /\ B \in SchedState
  BY <1>1, <1>2, <1>4, LinkAside, HeadAside
<1> HIDE DEF B
<1>6. Aside(B, C1) /\ C1 \in SchedState
  BY <1>1, <1>5, LinkAside
<1> HIDE DEF C1
<1>7. Aside(C1, C) /\ C \in SchedState
  BY <1>1, <1>6, LinkAside
<1> HIDE DEF C
<1>8. Aside(C, D) /\ D \in SchedState
  <2>1. C.bits \ {p} \in SUBSET Prio
    BY <1>7 DEF SchedState
  <2> QED BY <1>1, <1>7, <2>1, HeadAside
<1> HIDE DEF D
<1>9. Aside(S, C) /\ Aside(S, D)
  BY <1>4, <1>5, <1>6, <1>7, <1>8, AsideTrans
<1> QED BY <1>3, <1>7, <1>8, <1>9, AsideRefl

\* Taking a task off the timer wheel leaves the wait queues alone.
LEMMA WheelRemoveAside ==
    ASSUME NEW S \in SchedState, NEW t \in Task
    PROVE  Aside(S, WheelRemove(S, t)) /\ WheelRemove(S, t) \in SchedState
<1> DEFINE b == S.task[t].bucket
           n == S.task[t].tnext
           v == S.task[t].tprev
           A == IF v # Nil THEN Set(S, v, "tnext", n) ELSE [S EXCEPT !.wheel[b] = n]
           B == IF n = Nil THEN A ELSE Set(A, n, "tprev", v)
           C == Set(B, t, "tnext", Nil)
           D == Set(C, t, "tprev", Nil)
           E == Set(D, t, "bucket", Never)
<1>1. b \in Bucket \cup {Never} /\ n \in TaskN /\ v \in TaskN /\ Nil \in TaskN
  BY DEF SchedState, TaskRec, TaskN
<1>2. WheelRemove(S, t) = IF b = Never THEN S ELSE E
  BY DEF WheelRemove, Link
<1>3. (n # Nil => n \in Task) /\ (v # Nil => v \in Task)
  BY <1>1 DEF TaskN
<1> HIDE DEF b, n, v
<1>4. CASE b # Never
  <2>1. Aside(S, A) /\ A \in SchedState
    BY <1>1, <1>3, <1>4, LinkAside, HeadAside
  <2> HIDE DEF A
  <2>2. Aside(A, B) /\ B \in SchedState
    BY <1>1, <1>3, <2>1, LinkAside, AsideRefl
  <2> HIDE DEF B
  <2>3. Aside(B, C) /\ C \in SchedState
    BY <1>1, <2>2, LinkAside
  <2> HIDE DEF C
  <2>4. Aside(C, D) /\ D \in SchedState
    BY <1>1, <2>3, LinkAside
  <2> HIDE DEF D
  <2>5. Aside(D, E) /\ E \in SchedState
    BY <2>4, FieldAside
  <2> HIDE DEF E
  <2>6. Aside(S, E)
    BY <2>1, <2>2, <2>3, <2>4, <2>5, AsideTrans
  <2> QED BY <1>2, <1>4, <2>5, <2>6
<1>5. CASE b = Never
  BY <1>2, <1>5, AsideRefl
<1> QED BY <1>4, <1>5

\* So does putting it on the wheel.
LEMMA WheelInsertAside ==
    ASSUME NEW S \in SchedState, NEW t \in Task, NEW ticks \in Nat
    PROVE  Aside(S, WheelInsert(S, t, ticks)) /\ WheelInsert(S, t, ticks) \in SchedState
<1> DEFINE A == WheelRemove(S, t)
           b == (A.tick + ticks) % WheelSize
           h == A.wheel[b]
           B1 == Set(A, t, "bucket", b)
           B2 == Set(B1, t, "tnext", h)
           B3 == Set(B2, t, "tprev", Nil)
           B == IF h = Nil THEN B3 ELSE Set(B3, h, "tprev", t)
           C == [B EXCEPT !.wheel[b] = t]
<1>1. WheelInsert(S, t, ticks) = C
  BY DEF WheelInsert, Link
<1>2. Aside(S, A) /\ A \in SchedState
  BY WheelRemoveAside
<1> HIDE DEF A
<1>3. b \in Bucket
  <2>1. A.tick \in Nat /\ A.tick + ticks \in Nat
    BY <1>2 DEF SchedState
  <2>2. WheelSize \in Nat /\ WheelSize > 0
    BY SchedulerAssumption
  <2> QED BY <2>1, <2>2 DEF Bucket
<1>4. h \in TaskN /\ Nil \in TaskN /\ t \in TaskN /\ (h # Nil => h \in Task)
  <2> HIDE DEF b
  <2> QED BY <1>2, <1>3 DEF TaskN, SchedState
<1> HIDE DEF b, h
<1>5. Aside(A, B1) /\ B1 \in SchedState
  BY <1>2, <1>3, FieldAside
<1> HIDE DEF B1
<1>6. Aside(B1, B2) /\ B2 \in SchedState
  BY <1>4, <1>5, LinkAside
<1> HIDE DEF B2
<1>7. Aside(B2, B3) /\ B3 \in SchedState
  BY <1>4, <1>6, LinkAside
<1> HIDE DEF B3
<1>8. Aside(B3, B) /\ B \in SchedState
  BY <1>4, <1>7, LinkAside, AsideRefl
<1> HIDE DEF B
<1>9. Aside(B, C) /\ C \in SchedState
  BY <1>3, <1>4, <1>8, HeadAside
<1> HIDE DEF C
<1> QED BY <1>1, <1>2, <1>5, <1>6, <1>7, <1>8, <1>9, AsideTrans
-----------------------------------------------------------------------------
QueueFields == {"wnext", "wprev", "queue"}

\* What a write of a queue field changes.
LEMMA SetQueueField ==
    ASSUME NEW S \in SchedState, NEW t \in Task, NEW f \in QueueFields, NEW v
    PROVE  LET T == Set(S, t, f, v) IN
           /\ T.qhead = S.qhead /\ T.qtail = S.qtail /\ T.astray = S.astray /\ T.cur = S.cur
           /\ \A u \in Task :
                  /\ T.task[u].state = S.task[u].state
                  /\ T.task[u].queue = IF u = t /\ f = "queue" THEN v ELSE S.task[u].queue
                  /\ T.task[u].wnext = IF u = t /\ f = "wnext" THEN v ELSE S.task[u].wnext
                  /\ T.task[u].wprev = IF u = t /\ f = "wprev" THEN v ELSE S.task[u].wprev
<1> DEFINE T == Set(S, t, f, v)
<1>1. T.qhead = S.qhead /\ T.qtail = S.qtail /\ T.astray = S.astray /\ T.cur = S.cur
  BY DEF Set, SchedState
<1>2. T.task = [S.task EXCEPT ![t] = [S.task[t] EXCEPT ![f] = v]]
  BY DEF Set, SchedState
<1>3. ASSUME NEW u \in Task
      PROVE  /\ T.task[u].state = S.task[u].state
             /\ T.task[u].queue = IF u = t /\ f = "queue" THEN v ELSE S.task[u].queue
             /\ T.task[u].wnext = IF u = t /\ f = "wnext" THEN v ELSE S.task[u].wnext
             /\ T.task[u].wprev = IF u = t /\ f = "wprev" THEN v ELSE S.task[u].wprev
  <2>1. S.task \in [Task -> TaskRec] /\ S.task[t] \in TaskRec
    BY DEF SchedState
  <2>2. CASE u # t
    <3>1. T.task[u] = S.task[u]
      BY <1>2, <2>1, <2>2
    <3> QED BY <2>2, <3>1
  <2>3. CASE u = t
    <3>1. T.task[u] = [S.task[t] EXCEPT ![f] = v]
      BY <1>2, <2>1, <2>3
    <3> HIDE DEF T
    <3> QED BY <2>1, <2>3, <3>1 DEF TaskRec, QueueFields
  <2> QED BY <2>2, <2>3
<1> HIDE DEF T
<1> QED BY <1>1, <1>3 DEF T

\* T is S without t in the queue q, with n after and v before it.
Without(S, T, t, q, n, v) ==
    /\ T.qhead = IF v # Nil THEN S.qhead ELSE [S.qhead EXCEPT ![q] = n]
    /\ T.qtail = IF n # Nil THEN S.qtail ELSE [S.qtail EXCEPT ![q] = v]
    /\ T.astray = S.astray /\ T.cur = S.cur
    /\ \A u \in Task :
         /\ T.task[u].state = S.task[u].state
         /\ T.task[u].queue = IF u = t THEN "none" ELSE S.task[u].queue
         /\ T.task[u].wnext = IF u = t THEN Nil ELSE IF u = v THEN n ELSE S.task[u].wnext
         /\ T.task[u].wprev = IF u = t THEN Nil ELSE IF u = n THEN v ELSE S.task[u].wprev

\* What task_queue_remove changes.
LEMMA UnqueueFields ==
    ASSUME NEW S \in SchedState, NEW t \in Task, S.task[t].queue # "none"
    PROVE  Without(S, Unqueue(S, t), t, S.task[t].queue, S.task[t].wnext, S.task[t].wprev)
<1> DEFINE q == S.task[t].queue
           n == S.task[t].wnext
           v == S.task[t].wprev
           A == IF v # Nil THEN Set(S, v, "wnext", n) ELSE [S EXCEPT !.qhead[q] = n]
           B == IF n # Nil THEN Set(A, n, "wprev", v) ELSE [A EXCEPT !.qtail[q] = v]
           C == Set(B, t, "wnext", Nil)
           D == Set(C, t, "wprev", Nil)
           E == Set(D, t, "queue", "none")
<1>1. q \in Queue /\ n \in TaskN /\ v \in TaskN /\ Nil \in TaskN
  BY DEF SchedState, TaskRec, TaskN
<1>2. Unqueue(S, t) = E
  BY DEF Unqueue
<1>3. (v # Nil => v \in Task) /\ (n # Nil => n \in Task) /\ Nil \notin Task
  BY <1>1, TaskNotNil DEF TaskN
<1>4. {"wnext", "wprev", "queue"} = QueueFields
  BY DEF QueueFields
<1> HIDE DEF q, n, v
<1>5. A \in SchedState
  BY <1>1, <1>3, SetLink, SetHeads DEF Links
<1>6. /\ A.qhead = IF v # Nil THEN S.qhead ELSE [S.qhead EXCEPT ![q] = n]
      /\ A.qtail = S.qtail /\ A.astray = S.astray /\ A.cur = S.cur
      /\ \A u \in Task : /\ A.task[u].state = S.task[u].state /\ A.task[u].queue = S.task[u].queue
                         /\ A.task[u].wnext = IF u = v THEN n ELSE S.task[u].wnext
                         /\ A.task[u].wprev = S.task[u].wprev
  <2>1. CASE v # Nil
    <3>1. A = Set(S, v, "wnext", n) /\ v \in Task /\ "wnext" \in QueueFields
      BY <1>3, <1>4, <2>1
    <3> HIDE DEF A
    <3> QED BY <2>1, <3>1, SetQueueField
  <2>2. CASE v = Nil
    <3>1. A = [S EXCEPT !.qhead[q] = n]
      BY <2>2
    <3>2. A.qhead = [S.qhead EXCEPT ![q] = n] /\ A.qtail = S.qtail /\ A.astray = S.astray /\ A.cur = S.cur /\ A.task = S.task
      BY <3>1 DEF SchedState
    <3> HIDE DEF A
    <3> QED BY <1>3, <2>2, <3>2
  <2> QED BY <2>1, <2>2
<1> HIDE DEF A
<1>7. B \in SchedState
  BY <1>1, <1>3, <1>5, SetLink, SetHeads DEF Links
<1>8. /\ B.qtail = IF n # Nil THEN A.qtail ELSE [A.qtail EXCEPT ![q] = v]
      /\ B.qhead = A.qhead /\ B.astray = A.astray /\ B.cur = A.cur
      /\ \A u \in Task : /\ B.task[u].state = A.task[u].state /\ B.task[u].queue = A.task[u].queue
                         /\ B.task[u].wprev = IF u = n THEN v ELSE A.task[u].wprev
                         /\ B.task[u].wnext = A.task[u].wnext
  <2>1. CASE n # Nil
    <3>1. B = Set(A, n, "wprev", v) /\ n \in Task /\ "wprev" \in QueueFields
      BY <1>3, <1>4, <2>1
    <3> HIDE DEF B
    <3> QED BY <1>5, <2>1, <3>1, SetQueueField
  <2>2. CASE n = Nil
    <3>1. B = [A EXCEPT !.qtail[q] = v]
      BY <2>2
    <3>2. B.qtail = [A.qtail EXCEPT ![q] = v] /\ B.qhead = A.qhead /\ B.astray = A.astray /\ B.cur = A.cur /\ B.task = A.task
      BY <1>5, <3>1 DEF SchedState
    <3> HIDE DEF B
    <3> QED BY <1>3, <2>2, <3>2
  <2> QED BY <2>1, <2>2
<1> HIDE DEF B
<1>9. /\ C \in SchedState /\ C.qhead = B.qhead /\ C.qtail = B.qtail /\ C.astray = B.astray /\ C.cur = B.cur
      /\ \A u \in Task : /\ C.task[u].state = B.task[u].state /\ C.task[u].queue = B.task[u].queue
                         /\ C.task[u].wnext = IF u = t THEN Nil ELSE B.task[u].wnext
                         /\ C.task[u].wprev = B.task[u].wprev
  <2>1. C \in SchedState
    BY <1>1, <1>7, SetLink DEF Links
  <2>2. "wnext" \in QueueFields
    BY <1>4
  <2> QED BY <1>7, <2>1, <2>2, SetQueueField
<1> HIDE DEF C
<1>10. /\ D \in SchedState /\ D.qhead = C.qhead /\ D.qtail = C.qtail /\ D.astray = C.astray /\ D.cur = C.cur
       /\ \A u \in Task : /\ D.task[u].state = C.task[u].state /\ D.task[u].queue = C.task[u].queue
                          /\ D.task[u].wprev = IF u = t THEN Nil ELSE C.task[u].wprev
                          /\ D.task[u].wnext = C.task[u].wnext
  <2>1. D \in SchedState
    BY <1>1, <1>9, SetLink DEF Links
  <2>2. "wprev" \in QueueFields
    BY <1>4
  <2> QED BY <1>9, <2>1, <2>2, SetQueueField
<1> HIDE DEF D
<1>11. /\ E.qhead = D.qhead /\ E.qtail = D.qtail /\ E.astray = D.astray /\ E.cur = D.cur
       /\ \A u \in Task : /\ E.task[u].state = D.task[u].state
                          /\ E.task[u].queue = IF u = t THEN "none" ELSE D.task[u].queue
                          /\ E.task[u].wprev = D.task[u].wprev /\ E.task[u].wnext = D.task[u].wnext
  <2>1. "queue" \in QueueFields
    BY <1>4
  <2> QED BY <1>10, <2>1, SetQueueField
<1> HIDE DEF E
<1>12. /\ E.qhead = IF v # Nil THEN S.qhead ELSE [S.qhead EXCEPT ![q] = n]
       /\ E.qtail = IF n # Nil THEN S.qtail ELSE [S.qtail EXCEPT ![q] = v]
       /\ E.astray = S.astray /\ E.cur = S.cur
  BY <1>6, <1>8, <1>9, <1>10, <1>11
<1>13. \A u \in Task :
          /\ E.task[u].state = S.task[u].state
          /\ E.task[u].queue = IF u = t THEN "none" ELSE S.task[u].queue
          /\ E.task[u].wnext = IF u = t THEN Nil ELSE IF u = v THEN n ELSE S.task[u].wnext
          /\ E.task[u].wprev = IF u = t THEN Nil ELSE IF u = n THEN v ELSE S.task[u].wprev
  BY <1>6, <1>8, <1>9, <1>10, <1>11
<1>14. Without(S, E, t, q, n, v)
  BY <1>12, <1>13 DEF Without
<1> QED BY <1>2, <1>14 DEF q, n, v

\* T is S with t in the queue q behind the last one, l.
WithLast(S, T, t, q, l) ==
    /\ T.qhead = IF l # Nil THEN S.qhead ELSE [S.qhead EXCEPT ![q] = t]
    /\ T.qtail = [S.qtail EXCEPT ![q] = t]
    /\ T.astray = S.astray /\ T.cur = S.cur
    /\ \A u \in Task :
         /\ T.task[u].state = S.task[u].state
         /\ T.task[u].queue = IF u = t THEN q ELSE S.task[u].queue
         /\ T.task[u].wnext = IF u = t THEN Nil ELSE IF u = l THEN t ELSE S.task[u].wnext
         /\ T.task[u].wprev = IF u = t THEN l ELSE S.task[u].wprev

\* What task_queue_push changes for a task that is not the last one already.
LEMMA PushFields ==
    ASSUME NEW S \in SchedState, NEW q \in Queue, NEW t \in Task, S.qtail[q] # t
    PROVE  WithLast(S, Push(S, q, t), t, q, S.qtail[q])
<1> DEFINE l == S.qtail[q]
           A1 == Set(S, t, "wnext", Nil)
           A2 == Set(A1, t, "wprev", l)
           A == Set(A2, t, "queue", q)
           B == IF l # Nil THEN Set(A, l, "wnext", t) ELSE [A EXCEPT !.qhead[q] = t]
           C == [B EXCEPT !.qtail[q] = t]
<1>1. Push(S, q, t) = C
  BY DEF Push
<1>2. l \in TaskN /\ Nil \in TaskN /\ t \in TaskN /\ (l # Nil => l \in Task) /\ Nil \notin Task
  BY TaskNotNil DEF SchedState, TaskN
<1>3. "wnext" \in QueueFields /\ "wprev" \in QueueFields /\ "queue" \in QueueFields
  BY DEF QueueFields
<1>4. l # t
  OBVIOUS
<1> HIDE DEF l
<1>5. /\ A1 \in SchedState /\ A1.qhead = S.qhead /\ A1.qtail = S.qtail /\ A1.astray = S.astray /\ A1.cur = S.cur
      /\ \A u \in Task : /\ A1.task[u].state = S.task[u].state /\ A1.task[u].queue = S.task[u].queue
                         /\ A1.task[u].wnext = IF u = t THEN Nil ELSE S.task[u].wnext
                         /\ A1.task[u].wprev = S.task[u].wprev
  <2>1. A1 \in SchedState
    BY <1>2, SetLink DEF Links
  <2> QED BY <1>3, <2>1, SetQueueField
<1> HIDE DEF A1
<1>6. /\ A2 \in SchedState /\ A2.qhead = A1.qhead /\ A2.qtail = A1.qtail /\ A2.astray = A1.astray /\ A2.cur = A1.cur
      /\ \A u \in Task : /\ A2.task[u].state = A1.task[u].state /\ A2.task[u].queue = A1.task[u].queue
                         /\ A2.task[u].wprev = IF u = t THEN l ELSE A1.task[u].wprev
                         /\ A2.task[u].wnext = A1.task[u].wnext
  <2>1. A2 \in SchedState
    BY <1>2, <1>5, SetLink DEF Links
  <2> QED BY <1>3, <1>5, <2>1, SetQueueField
<1> HIDE DEF A2
<1>7. /\ A \in SchedState /\ A.qhead = A2.qhead /\ A.qtail = A2.qtail /\ A.astray = A2.astray /\ A.cur = A2.cur
      /\ \A u \in Task : /\ A.task[u].state = A2.task[u].state
                         /\ A.task[u].queue = IF u = t THEN q ELSE A2.task[u].queue
                         /\ A.task[u].wprev = A2.task[u].wprev /\ A.task[u].wnext = A2.task[u].wnext
  <2>1. A \in SchedState
    BY <1>6, SetField
  <2> QED BY <1>3, <1>6, <2>1, SetQueueField
<1> HIDE DEF A
<1>8. /\ B.qhead = IF l # Nil THEN A.qhead ELSE [A.qhead EXCEPT ![q] = t]
      /\ B.qtail = A.qtail /\ B.astray = A.astray /\ B.cur = A.cur
      /\ \A u \in Task : /\ B.task[u].state = A.task[u].state /\ B.task[u].queue = A.task[u].queue
                         /\ B.task[u].wnext = IF u = l THEN t ELSE A.task[u].wnext
                         /\ B.task[u].wprev = A.task[u].wprev
  <2>1. CASE l # Nil
    <3>1. B = Set(A, l, "wnext", t) /\ l \in Task
      BY <1>2, <2>1
    <3> HIDE DEF B
    <3> QED BY <1>3, <1>7, <2>1, <3>1, SetQueueField
  <2>2. CASE l = Nil
    <3>1. B = [A EXCEPT !.qhead[q] = t]
      BY <2>2
    <3>2. B.qhead = [A.qhead EXCEPT ![q] = t] /\ B.qtail = A.qtail /\ B.astray = A.astray /\ B.cur = A.cur /\ B.task = A.task
      BY <1>7, <3>1 DEF SchedState
    <3> HIDE DEF B
    <3> QED BY <1>2, <2>2, <3>2
  <2> QED BY <2>1, <2>2
<1>9. B \in SchedState
  BY <1>2, <1>7, SetLink, SetHeads DEF Links
<1> HIDE DEF B
<1>10. C.qtail = [B.qtail EXCEPT ![q] = t] /\ C.qhead = B.qhead /\ C.astray = B.astray /\ C.cur = B.cur /\ C.task = B.task
  BY <1>9 DEF SchedState
<1> HIDE DEF C
<1>11. /\ C.qhead = IF l # Nil THEN S.qhead ELSE [S.qhead EXCEPT ![q] = t]
       /\ C.qtail = [S.qtail EXCEPT ![q] = t]
       /\ C.astray = S.astray /\ C.cur = S.cur
  BY <1>5, <1>6, <1>7, <1>8, <1>10
<1>12. \A u \in Task :
          /\ C.task[u].state = S.task[u].state
          /\ C.task[u].queue = IF u = t THEN q ELSE S.task[u].queue
          /\ C.task[u].wnext = IF u = t THEN Nil ELSE IF u = l THEN t ELSE S.task[u].wnext
          /\ C.task[u].wprev = IF u = t THEN l ELSE S.task[u].wprev
  BY <1>4, <1>5, <1>6, <1>7, <1>8, <1>10
<1>13. WithLast(S, C, t, q, l)
  BY <1>11, <1>12 DEF WithLast
<1> QED BY <1>1, <1>13 DEF l
-----------------------------------------------------------------------------
\* Taking a task off its queue closes the gap, also at the ends, and leaves the
\* other queue alone.
LEMMA UnqueueWaking ==
    ASSUME NEW S \in SchedState, NEW t \in Task, Waiting(S)
    PROVE  /\ Waking(Unqueue(S, t), t) /\ Unqueue(S, t) \in SchedState
           /\ Unqueue(S, t).astray = S.astray /\ Unqueue(S, t).cur = S.cur
           /\ \A u \in Task : Unqueue(S, t).task[u].state = S.task[u].state
           /\ \A u \in Task \ {t} : Unqueue(S, t).task[u].queue = S.task[u].queue
<1> DEFINE q == S.task[t].queue
           n == S.task[t].wnext
           v == S.task[t].wprev
           T == Unqueue(S, t)
<1>1. T \in SchedState
  BY UnqueueCalm
<1>2. CASE q = "none"
  <2>1. T = S
    BY <1>2 DEF Unqueue
  <2> QED BY <1>2, <2>1 DEF Waking, Waiting
<1>3. CASE q # "none"
  <2>0. Without(S, T, t, q, n, v)
    BY <1>3, UnqueueFields
  <2> HIDE DEF T
  <2>1. /\ T.qhead = IF v # Nil THEN S.qhead ELSE [S.qhead EXCEPT ![q] = n]
        /\ T.qtail = IF n # Nil THEN S.qtail ELSE [S.qtail EXCEPT ![q] = v]
        /\ T.astray = S.astray /\ T.cur = S.cur
    BY <2>0 DEF Without
  <2>2. \A u \in Task :
           /\ T.task[u].state = S.task[u].state
           /\ T.task[u].queue = IF u = t THEN "none" ELSE S.task[u].queue
           /\ T.task[u].wnext = IF u = t THEN Nil ELSE IF u = v THEN n ELSE S.task[u].wnext
           /\ T.task[u].wprev = IF u = t THEN Nil ELSE IF u = n THEN v ELSE S.task[u].wprev
    BY <2>0 DEF Without
  <2>3. q \in Queue /\ S.qhead \in [Queue -> TaskN] /\ S.qtail \in [Queue -> TaskN]
    BY <1>3 DEF SchedState, TaskRec
  <2>4. PICK w : Lane(S, q, w)
    BY <2>3 DEF Waiting, Lined
  <2>5. PICK i \in 1 .. Len(w) : w[i] = t
    BY <2>4 DEF Lane
  <2>6. /\ Len(w) \in Nat /\ w \in Seq(Task)
        /\ \A k \in 1 .. Len(w) : w[k] \in Task /\ S.task[w[k]].queue = q
    BY <2>3, <2>4 DEF Lane, Queue
  <2>7. n = (IF i = Len(w) THEN Nil ELSE w[i + 1]) /\ v = (IF i = 1 THEN Nil ELSE w[i - 1])
    BY <2>4, <2>5 DEF Lane
  <2>8. Nil \notin Task
    BY TaskNotNil
  <2> HIDE DEF T
  <2>9. ASSUME NEW r \in Queue, r # q PROVE \E x : Lane(T, r, x)
    <3>1. PICK x : Lane(S, r, x)
      BY DEF Waiting, Lined
    <3>2. /\ Len(x) \in Nat /\ x \in Seq(Task) /\ r # "none"
          /\ \A k \in 1 .. Len(x) : x[k] \in Task /\ S.task[x[k]].queue = r
      BY <3>1 DEF Lane, Queue
    <3>3. \A k \in 1 .. Len(x) : x[k] # t /\ x[k] # v /\ x[k] # n
      <4>1. \A k \in 1 .. Len(x) : x[k] # t
        BY <2>9, <3>2
      <4>2. v = Nil \/ S.task[v].queue = q
        BY <2>6, <2>7
      <4>3. n = Nil \/ S.task[n].queue = q
        BY <2>6, <2>7
      <4> QED BY <2>8, <2>9, <3>2, <4>1, <4>2, <4>3
    <3>4. \A k \in 1 .. Len(x) : T.task[x[k]].wnext = S.task[x[k]].wnext /\ T.task[x[k]].wprev = S.task[x[k]].wprev
      BY <2>2, <3>2, <3>3
    <3>5. T.qhead[r] = S.qhead[r] /\ T.qtail[r] = S.qtail[r]
      BY <2>1, <2>3, <2>9
    <3>6. \A u \in Task : T.task[u].queue = r <=> S.task[u].queue = r
      BY <2>2, <2>9, <3>2
    <3> HIDE DEF q, n, v
    <3>7. Lane(T, r, x)
      BY <3>1, <3>4, <3>5, <3>6 DEF Lane
    <3> QED BY <3>7
  <2>10. \E x : Lane(T, q, x)
    <3> DEFINE m == Len(w) - 1
               From(j) == IF j < i THEN j ELSE j + 1
               x == [j \in 1 .. m |-> w[From(j)]]
    <3>1. m \in Nat /\ \A j \in 1 .. m : From(j) \in 1 .. Len(w) /\ From(j) # i
      BY <2>6
    <3>2. x \in Seq(Task) /\ Len(x) = m /\ \A j \in 1 .. m : x[j] = w[From(j)] /\ x[j] \in Task
      BY <2>6, <3>1
    <3>3. \A j, k \in 1 .. m : x[j] = x[k] => j = k
      <4> SUFFICES ASSUME NEW j \in 1 .. m, NEW k \in 1 .. m, x[j] = x[k] PROVE j = k
        OBVIOUS
      <4>1. w[From(j)] = w[From(k)]
        BY <3>2
      <4>2. From(j) = From(k)
        BY <2>4, <3>1, <4>1 DEF Lane
      <4> QED BY <2>6, <4>2
    <3>4. \A j \in 1 .. m : x[j] # t
      <4> SUFFICES ASSUME NEW j \in 1 .. m, x[j] = t PROVE FALSE
        OBVIOUS
      <4>1. w[From(j)] = w[i]
        BY <2>5, <3>2
      <4> QED BY <2>4, <3>1, <4>1 DEF Lane
    <3>5. \A u \in Task : T.task[u].queue = q <=> \E j \in 1 .. m : x[j] = u
      <4> SUFFICES ASSUME NEW u \in Task PROVE T.task[u].queue = q <=> \E j \in 1 .. m : x[j] = u
        OBVIOUS
      <4>1. CASE u = t
        BY <1>3, <2>2, <3>4, <4>1
      <4>2. CASE u # t
        <5>1. T.task[u].queue = q <=> \E k \in 1 .. Len(w) : w[k] = u
          BY <2>2, <2>4, <4>2 DEF Lane
        <5>2. ASSUME NEW k \in 1 .. Len(w), w[k] = u PROVE \E j \in 1 .. m : x[j] = u
          <6>1. k # i
            BY <2>5, <4>2, <5>2
          <6> DEFINE j == IF k < i THEN k ELSE k - 1
          <6>2. j \in 1 .. m /\ From(j) = k
            BY <2>6, <6>1
          <6> QED BY <3>2, <5>2, <6>2
        <5>3. ASSUME NEW j \in 1 .. m, x[j] = u PROVE \E k \in 1 .. Len(w) : w[k] = u
          BY <3>1, <3>2, <5>3
        <5> QED BY <5>1, <5>2, <5>3
      <4> QED BY <4>1, <4>2
    <3>6. T.qhead[q] = IF m = 0 THEN Nil ELSE x[1]
      <4>1. S.qhead[q] = w[1]
        BY <2>4, <2>6 DEF Lane
      <4>2. CASE i = 1
        <5>1. v = Nil
          BY <2>7, <4>2
        <5>2. T.qhead[q] = n
          BY <2>1, <2>3, <5>1
        <5>3. m # 0 => 1 \in 1 .. m /\ From(1) = i + 1 /\ i # Len(w)
          <6>1. From(1) = i + 1
            BY <4>2
          <6>2. Len(w) \in Nat
            BY <2>6
          <6> DEFINE k == Len(w)
          <6>3. k \in Nat /\ m = k - 1 /\ i \in 1 .. k
            BY <6>2
          <6> HIDE DEF From, k, m
          <6>4. m # 0 => 1 \in 1 .. m /\ i # k
            BY <4>2, <6>3
          <6> QED BY <6>1, <6>4 DEF k
        <5>4. m = 0 => i = Len(w)
          BY <2>6, <4>2
        <5> QED BY <2>7, <3>2, <5>2, <5>3, <5>4
      <4>3. CASE i # 1
        <5>1. v = w[i - 1] /\ i - 1 \in 1 .. Len(w)
          BY <2>6, <2>7, <4>3
        <5>2. v # Nil
          BY <2>6, <2>8, <5>1
        <5>3. m # 0 /\ 1 \in 1 .. m /\ From(1) = 1
          BY <2>6, <4>3
        <5> QED BY <2>1, <3>2, <4>1, <5>2, <5>3
      <4> QED BY <4>2, <4>3
    <3>7. T.qtail[q] = IF m = 0 THEN Nil ELSE x[m]
      <4>1. S.qtail[q] = w[Len(w)]
        BY <2>4, <2>6 DEF Lane
      <4>2. CASE i = Len(w)
        <5>1. n = Nil
          BY <2>7, <4>2
        <5>2. T.qtail[q] = v
          BY <2>1, <2>3, <5>1
        <5>3. m # 0 => m \in 1 .. m /\ From(m) = i - 1 /\ i # 1
          <6>1. Len(w) \in Nat
            BY <2>6
          <6> DEFINE k == Len(w)
          <6>2. k \in Nat /\ m = k - 1 /\ i \in 1 .. k /\ i = k
            BY <4>2, <6>1
          <6> HIDE DEF k, m
          <6>3. From(m) = i - 1
            BY <6>2
          <6> HIDE DEF From
          <6>4. m # 0 => m \in 1 .. m /\ i # 1
            BY <6>2
          <6> QED BY <6>3, <6>4
        <5>4. m = 0 => i = 1
          <6>1. Len(w) \in Nat
            BY <2>6
          <6> DEFINE k == Len(w)
          <6>2. k \in Nat /\ m = k - 1 /\ i = k
            BY <4>2, <6>1
          <6> HIDE DEF k, m
          <6> QED BY <6>2
        <5> QED BY <2>7, <3>2, <5>2, <5>3, <5>4
      <4>3. CASE i # Len(w)
        <5>1. n = w[i + 1] /\ i + 1 \in 1 .. Len(w)
          BY <2>6, <2>7, <4>3
        <5>2. n # Nil
          BY <2>6, <2>8, <5>1
        <5>3. m # 0 /\ m \in 1 .. m /\ From(m) = Len(w)
          BY <2>6, <4>3
        <5> QED BY <2>1, <3>2, <4>1, <5>2, <5>3
      <4> QED BY <4>2, <4>3
    <3>8. \A j \in 1 .. m : T.task[x[j]].wnext = IF j = m THEN Nil ELSE x[j + 1]
      <4> SUFFICES ASSUME NEW j \in 1 .. m PROVE T.task[x[j]].wnext = IF j = m THEN Nil ELSE x[j + 1]
        OBVIOUS
      <4>1. x[j] \in Task /\ x[j] # t /\ x[j] = w[From(j)] /\ From(j) \in 1 .. Len(w)
        BY <3>1, <3>2, <3>4
      <4>2. S.task[w[From(j)]].wnext = IF From(j) = Len(w) THEN Nil ELSE w[From(j) + 1]
        BY <2>4, <4>1 DEF Lane
      <4>3. T.task[x[j]].wnext = IF x[j] = v THEN n ELSE S.task[x[j]].wnext
        BY <2>2, <4>1
      <4>4. CASE From(j) = i - 1
        <5>1. i - 1 \in 1 .. Len(w) /\ v = w[i - 1]
          BY <2>6, <2>7, <4>1, <4>4
        <5>2. T.task[x[j]].wnext = n
          BY <4>1, <4>3, <4>4, <5>1
        <5>3. j = i - 1 /\ (j = m <=> i = Len(w)) /\ (j # m => j + 1 \in 1 .. m /\ From(j + 1) = i + 1)
          BY <2>6, <4>4
        <5> QED BY <2>7, <3>2, <5>2, <5>3
      <4>5. CASE From(j) # i - 1
        <5>1. x[j] # v
          <6>1. CASE i = 1
            BY <2>7, <2>8, <4>1, <6>1
          <6>2. CASE i # 1
            <7>1. i - 1 \in 1 .. Len(w) /\ v = w[i - 1]
              BY <2>6, <2>7, <6>2
            <7>2. w[From(j)] = w[i - 1] => From(j) = i - 1
              BY <2>4, <4>1, <7>1 DEF Lane
            <7> QED BY <4>1, <4>5, <7>1, <7>2
          <6> QED BY <6>1, <6>2
        <5>2. T.task[x[j]].wnext = IF From(j) = Len(w) THEN Nil ELSE w[From(j) + 1]
          BY <4>1, <4>2, <4>3, <5>1
        <5>3. (j = m <=> From(j) = Len(w)) /\ (j # m => j + 1 \in 1 .. m /\ From(j + 1) = From(j) + 1)
          BY <2>6, <3>1, <4>5
        <5> QED BY <3>2, <5>2, <5>3
      <4> QED BY <4>4, <4>5
    <3>9. \A j \in 1 .. m : T.task[x[j]].wprev = IF j = 1 THEN Nil ELSE x[j - 1]
      <4> SUFFICES ASSUME NEW j \in 1 .. m PROVE T.task[x[j]].wprev = IF j = 1 THEN Nil ELSE x[j - 1]
        OBVIOUS
      <4>1. x[j] \in Task /\ x[j] # t /\ x[j] = w[From(j)] /\ From(j) \in 1 .. Len(w)
        BY <3>1, <3>2, <3>4
      <4>2. S.task[w[From(j)]].wprev = IF From(j) = 1 THEN Nil ELSE w[From(j) - 1]
        BY <2>4, <4>1 DEF Lane
      <4>3. T.task[x[j]].wprev = IF x[j] = n THEN v ELSE S.task[x[j]].wprev
        BY <2>2, <4>1
      <4>4. CASE From(j) = i + 1
        <5>1. i + 1 \in 1 .. Len(w) /\ n = w[i + 1]
          BY <2>6, <2>7, <4>1, <4>4
        <5>2. T.task[x[j]].wprev = v
          BY <4>1, <4>3, <4>4, <5>1
        <5>3. j = i /\ (j # 1 => j - 1 \in 1 .. m /\ From(j - 1) = i - 1)
          BY <2>6, <4>4
        <5> QED BY <2>7, <3>2, <5>2, <5>3
      <4>5. CASE From(j) # i + 1
        <5>1. x[j] # n
          <6>1. CASE i = Len(w)
            BY <2>7, <2>8, <4>1, <6>1
          <6>2. CASE i # Len(w)
            <7>1. i + 1 \in 1 .. Len(w) /\ n = w[i + 1]
              BY <2>6, <2>7, <6>2
            <7>2. w[From(j)] = w[i + 1] => From(j) = i + 1
              BY <2>4, <4>1, <7>1 DEF Lane
            <7> QED BY <4>1, <4>5, <7>1, <7>2
          <6> QED BY <6>1, <6>2
        <5>2. T.task[x[j]].wprev = IF From(j) = 1 THEN Nil ELSE w[From(j) - 1]
          BY <4>1, <4>2, <4>3, <5>1
        <5>3. (j = 1 <=> From(j) = 1) /\ (j # 1 => j - 1 \in 1 .. m /\ From(j - 1) = From(j) - 1)
          BY <2>6, <3>1, <4>5
        <5> QED BY <3>2, <5>2, <5>3
      <4> QED BY <4>4, <4>5
    <3> HIDE DEF x, m, q
    <3>10. Lane(T, q, x)
      BY <3>2, <3>3, <3>5, <3>6, <3>7, <3>8, <3>9 DEF Lane
    <3> QED BY <3>10
  <2>11. Lined(T)
    BY <2>9, <2>10 DEF Lined
  <2>12. Waking(T, t)
    BY <2>2, <2>11 DEF Waking, Waiting
  <2> QED BY <1>1, <2>1, <2>2, <2>12 DEF T
<1> QED BY <1>2, <1>3

\* Pushing a task that is on no queue puts it at the end of one.
LEMMA PushLined ==
    ASSUME NEW S \in SchedState, NEW q \in Queue, NEW t \in Task, Lined(S), S.task[t].queue = "none"
    PROVE  /\ Lined(Push(S, q, t)) /\ Push(S, q, t) \in SchedState
           /\ Push(S, q, t).astray = S.astray /\ Push(S, q, t).cur = S.cur
           /\ \A u \in Task : /\ Push(S, q, t).task[u].state = S.task[u].state
                              /\ Push(S, q, t).task[u].queue = IF u = t THEN q ELSE S.task[u].queue
<1> DEFINE l == S.qtail[q]
           T == Push(S, q, t)
<1>1. T \in SchedState
  BY PushCalm
<1>2. PICK w : Lane(S, q, w)
  BY DEF Lined
<1>3. /\ Len(w) \in Nat /\ w \in Seq(Task) /\ q # "none" /\ Nil \notin Task
      /\ \A k \in 1 .. Len(w) : w[k] \in Task /\ S.task[w[k]].queue = q
  BY <1>2, TaskNotNil DEF Lane, Queue
<1>4. \A k \in 1 .. Len(w) : w[k] # t
  BY <1>3
<1>5. l = (IF Len(w) = 0 THEN Nil ELSE w[Len(w)]) /\ l # t
  <2>1. l = (IF Len(w) = 0 THEN Nil ELSE w[Len(w)])
    BY <1>2 DEF Lane
  <2> QED BY <1>3, <1>4, <2>1
<1>0. WithLast(S, T, t, q, l)
  BY <1>5, PushFields
<1> HIDE DEF T
<1>6. /\ T.qhead = IF l # Nil THEN S.qhead ELSE [S.qhead EXCEPT ![q] = t]
      /\ T.qtail = [S.qtail EXCEPT ![q] = t]
      /\ T.astray = S.astray /\ T.cur = S.cur
  BY <1>0 DEF WithLast
<1>7. \A u \in Task :
         /\ T.task[u].state = S.task[u].state
         /\ T.task[u].queue = IF u = t THEN q ELSE S.task[u].queue
         /\ T.task[u].wnext = IF u = t THEN Nil ELSE IF u = l THEN t ELSE S.task[u].wnext
         /\ T.task[u].wprev = IF u = t THEN l ELSE S.task[u].wprev
  BY <1>0 DEF WithLast
<1>8. S.qhead \in [Queue -> TaskN] /\ S.qtail \in [Queue -> TaskN]
  BY DEF SchedState
<1> HIDE DEF T, l
<1>9. ASSUME NEW r \in Queue, r # q PROVE \E x : Lane(T, r, x)
  <2>1. PICK x : Lane(S, r, x)
    BY DEF Lined
  <2>2. /\ Len(x) \in Nat /\ x \in Seq(Task) /\ r # "none"
        /\ \A k \in 1 .. Len(x) : x[k] \in Task /\ S.task[x[k]].queue = r
    BY <2>1 DEF Lane, Queue
  <2>3. l = Nil \/ S.task[l].queue = q
    BY <1>3, <1>5
  <2>4. \A k \in 1 .. Len(x) : x[k] # t /\ x[k] # l
    BY <1>3, <1>9, <2>2, <2>3
  <2>5. \A k \in 1 .. Len(x) : T.task[x[k]].wnext = S.task[x[k]].wnext /\ T.task[x[k]].wprev = S.task[x[k]].wprev
    BY <1>7, <2>2, <2>4
  <2>6. T.qhead[r] = S.qhead[r] /\ T.qtail[r] = S.qtail[r]
    BY <1>6, <1>8, <1>9
  <2>7. \A u \in Task : T.task[u].queue = r <=> S.task[u].queue = r
    BY <1>7, <1>9, <2>2
  <2>8. Lane(T, r, x)
    BY <2>1, <2>5, <2>6, <2>7 DEF Lane
  <2> QED BY <2>8
<1>10. \E x : Lane(T, q, x)
  <2> DEFINE m == Len(w) + 1
             x == Append(w, t)
  <2>1. m \in Nat /\ x \in Seq(Task) /\ Len(x) = m /\ x[m] = t /\ \A j \in 1 .. Len(w) : x[j] = w[j]
    BY <1>3
  <2> HIDE DEF x
  <2>2. \A j, k \in 1 .. m : x[j] = x[k] => j = k
    <3> SUFFICES ASSUME NEW j \in 1 .. m, NEW k \in 1 .. m, x[j] = x[k] PROVE j = k
      OBVIOUS
    <3>1. CASE j = m \/ k = m
      BY <1>3, <1>4, <2>1, <3>1
    <3>2. CASE j # m /\ k # m
      <4>1. j \in 1 .. Len(w) /\ k \in 1 .. Len(w)
        BY <1>3, <3>2
      <4> QED BY <1>2, <2>1, <4>1 DEF Lane
    <3> QED BY <3>1, <3>2
  <2>3. \A u \in Task : T.task[u].queue = q <=> \E j \in 1 .. m : x[j] = u
    <3> SUFFICES ASSUME NEW u \in Task PROVE T.task[u].queue = q <=> \E j \in 1 .. m : x[j] = u
      OBVIOUS
    <3>1. m \in 1 .. m /\ \A j \in 1 .. m : j = m \/ j \in 1 .. Len(w)
      BY <1>3
    <3>2. \A j \in 1 .. Len(w) : j \in 1 .. m
      BY <1>3
    <3>3. S.task[u].queue = q <=> \E j \in 1 .. Len(w) : w[j] = u
      BY <1>2 DEF Lane
    <3>4. CASE u = t
      BY <1>7, <2>1, <3>1, <3>4
    <3>5. CASE u # t
      <4>1. T.task[u].queue = S.task[u].queue
        BY <1>7, <3>5
      <4> HIDE DEF m
      <4> QED BY <2>1, <3>1, <3>2, <3>3, <3>5, <4>1
    <3> QED BY <3>4, <3>5
  <2>4. T.qhead[q] = IF m = 0 THEN Nil ELSE x[1]
    <3>1. S.qhead[q] = IF Len(w) = 0 THEN Nil ELSE w[1]
      BY <1>2 DEF Lane
    <3>2. CASE Len(w) = 0
      <4>1. l = Nil /\ m = 1
        BY <1>5, <3>2
      <4> QED BY <1>6, <1>8, <2>1, <3>2, <4>1
    <3>3. CASE Len(w) # 0
      <4>1. l # Nil /\ m # 0 /\ 1 \in 1 .. Len(w)
        BY <1>3, <1>5, <3>3
      <4> QED BY <1>6, <2>1, <3>1, <3>3, <4>1
    <3> QED BY <3>2, <3>3
  <2>5. T.qtail[q] = IF m = 0 THEN Nil ELSE x[m]
    BY <1>3, <1>6, <1>8, <2>1
  <2>6. \A j \in 1 .. m : T.task[x[j]].wnext = IF j = m THEN Nil ELSE x[j + 1]
    <3> SUFFICES ASSUME NEW j \in 1 .. m PROVE T.task[x[j]].wnext = IF j = m THEN Nil ELSE x[j + 1]
      OBVIOUS
    <3>1. CASE j = m
      BY <1>7, <2>1, <3>1
    <3>2. CASE j # m
      <4>1. j \in 1 .. Len(w) /\ x[j] = w[j] /\ w[j] \in Task /\ w[j] # t
        BY <1>3, <1>4, <2>1, <3>2
      <4>2. S.task[w[j]].wnext = IF j = Len(w) THEN Nil ELSE w[j + 1]
        BY <1>2, <4>1 DEF Lane
      <4>3. CASE j = Len(w)
        <5>1. w[j] = l /\ x[j + 1] = t
          BY <1>3, <1>5, <2>1, <4>1, <4>3
        <5> QED BY <1>7, <3>2, <4>1, <5>1
      <4>4. CASE j # Len(w)
        <5>1. j + 1 \in 1 .. Len(w) /\ Len(w) \in 1 .. Len(w)
          BY <1>3, <4>1, <4>4
        <5>2. w[j] # l
          BY <1>2, <1>3, <1>5, <4>1, <4>4, <5>1 DEF Lane
        <5> QED BY <1>7, <2>1, <3>2, <4>1, <4>2, <4>4, <5>1, <5>2
      <4> QED BY <4>3, <4>4
    <3> QED BY <3>1, <3>2
  <2>7. \A j \in 1 .. m : T.task[x[j]].wprev = IF j = 1 THEN Nil ELSE x[j - 1]
    <3> SUFFICES ASSUME NEW j \in 1 .. m PROVE T.task[x[j]].wprev = IF j = 1 THEN Nil ELSE x[j - 1]
      OBVIOUS
    <3>1. CASE j = m
      <4>1. T.task[x[j]].wprev = l
        BY <1>7, <2>1, <3>1
      <4>2. j # 1 => Len(w) # 0 /\ j - 1 = Len(w) /\ Len(w) \in 1 .. Len(w)
        BY <1>3, <3>1
      <4>3. j = 1 => Len(w) = 0
        BY <1>3, <3>1
      <4> QED BY <1>5, <2>1, <4>1, <4>2, <4>3
    <3>2. CASE j # m
      <4>1. j \in 1 .. Len(w) /\ x[j] = w[j] /\ w[j] \in Task /\ w[j] # t
        BY <1>3, <1>4, <2>1, <3>2
      <4>2. S.task[w[j]].wprev = IF j = 1 THEN Nil ELSE w[j - 1]
        BY <1>2, <4>1 DEF Lane
      <4>3. j # 1 => j - 1 \in 1 .. Len(w)
        BY <1>3, <4>1
      <4> QED BY <1>7, <2>1, <4>1, <4>2, <4>3
    <3> QED BY <3>1, <3>2
  <2> HIDE DEF m
  <2>8. Lane(T, q, x)
    BY <2>1, <2>2, <2>3, <2>4, <2>5, <2>6, <2>7 DEF Lane
  <2> QED BY <2>8
<1>11. Lined(T)
  BY <1>9, <1>10 DEF Lined
<1> QED BY <1>1, <1>6, <1>7, <1>11 DEF T
-----------------------------------------------------------------------------
(***************************************************************************)
(* The operations of scheduler.c and task.c on the queues.                 *)
(***************************************************************************)
\* Leaving the queues alone while a task is being woken.
LEMMA AsideWaking ==
    ASSUME NEW S, NEW T, NEW t \in Task, Aside(S, T), Waking(S, t)
    PROVE  Waking(T, t)
<1>1. Lined(T)
  BY SameLined DEF Aside, Waking
<1> QED BY <1>1 DEF Aside, SameQueues, Waking

\* A waiter whose timeout is over is taken off its queue and becomes ready; a
\* sleeper, or a task that is no longer waiting, was on no queue.
LEMMA ExpireSettles ==
    ASSUME NEW S \in SchedState, NEW t \in Task, Waiting(S)
    PROVE  Settles(S, Expire(S, t)) /\ Expire(S, t) \in SchedState
<1> DEFINE W == WheelRemove(S, t)
           A == Set(W, t, "until", 0)
           B == scheduler_add(A, t)
           U == Unqueue(A, t)
           R == Set(U, t, "reason", "timeout")
           C == scheduler_add(R, t)
<1>1. /\ Expire(S, t) \in {S, B, C, W}
      /\ Expire(S, t) = B \/ Expire(S, t) \in {S, C, W}
      /\ Expire(S, t) = B => S.task[t].state = "sleeping" \/ B \in {S, C, W}
  BY DEF Expire
<1>2. Aside(S, W) /\ W \in SchedState
  BY WheelRemoveAside
<1> HIDE DEF W
<1>3. Aside(W, A) /\ A \in SchedState
  BY <1>2, FieldAside
<1> HIDE DEF A
<1>4. Aside(S, A)
  BY <1>2, <1>3, AsideTrans
<1>5. Settles(S, S) /\ Settles(S, W) /\ Settles(S, A)
  BY <1>2, <1>4, AsideSettles, SettlesRefl
<1>6. Waiting(A)
  BY <1>5 DEF Settles
<1>7. S.task[t].state = "sleeping" => Settles(S, B)
  <2> SUFFICES ASSUME S.task[t].state = "sleeping" PROVE Settles(S, B)
    OBVIOUS
  <2>1. A.task[t].state # "blocked"
    BY <1>4 DEF Aside
  <2>2. Aside(A, B)
    BY <1>3, <2>1, AddQuiet
  <2> HIDE DEF B
  <2> QED BY <1>4, <2>2, AsideTrans, AsideSettles
<1>8. Settles(S, C)
  <2>1. /\ Waking(U, t) /\ U \in SchedState /\ U.astray = A.astray /\ U.cur = A.cur
        /\ \A u \in Task : U.task[u].state = A.task[u].state
        /\ \A u \in Task \ {t} : U.task[u].queue = A.task[u].queue
    BY <1>3, <1>6, UnqueueWaking
  <2> HIDE DEF U
  <2>2. Aside(U, R) /\ R \in SchedState
    BY <2>1, FieldAside
  <2> HIDE DEF R
  <2>3. Waking(R, t)
    BY <2>1, <2>2, AsideWaking
  <2>4. /\ Waiting(C) /\ C \in SchedState /\ C.astray = R.astray /\ C.cur = R.cur
        /\ \A u \in Task : C.task[u].state = "blocked" =>
               u # t /\ R.task[u].state = "blocked" /\ C.task[u].queue = R.task[u].queue
    BY <2>2, <2>3, AddWakes
  <2> HIDE DEF C
  <2>5. Settles(A, C)
    BY <2>1, <2>2, <2>4 DEF Settles, Aside, SameQueues
  <2> QED BY <1>5, <2>5, SettlesTrans
<1> HIDE DEF B, C
<1>9. Settles(S, Expire(S, t))
  BY <1>1, <1>5, <1>7, <1>8
<1> QED BY <1>9 DEF Settles

SettlesSet(S) == {T \in SchedState : Settles(S, T)}

\* A tick of the wheel.
LEMMA WheelTickSettles ==
    ASSUME NEW S \in SchedState, Waiting(S)
    PROVE  Settles(S, WheelTick(S)) /\ WheelTick(S) \in SchedState
<1> DEFINE T == [S EXCEPT !.tick = @ + 1]
           b == T.tick % WheelSize
           q == Chain(T, b)
           V == SettlesSet(T)
<1>1. Aside(S, T) /\ T \in SchedState
  BY DEF Aside, SameQueues, SchedState
<1>2. WheelTick(S) = Exp!Folded(T, q)
  BY DEF WheelTick, Exp!Folded, FoldLeft, MapThenFoldSet, Exp!FoldLeft, Exp!MapThenFoldSet, Exp!Max, Max
<1> HIDE DEF T
<1>3. b \in Bucket
  <2>1. T.tick \in Nat
    BY <1>1 DEF SchedState
  <2>2. WheelSize \in Nat /\ WheelSize > 0
    BY SchedulerAssumption
  <2> QED BY <2>1, <2>2 DEF Bucket
<1>4. q \in Seq(Task)
  <2> HIDE DEF b
  <2> QED BY <1>1, <1>3, ChainType
<1>5. \A A \in V, t \in Task : Expire(A, t) \in V
  <2> SUFFICES ASSUME NEW A \in V, NEW t \in Task PROVE Expire(A, t) \in V
    OBVIOUS
  <2>1. A \in SchedState /\ Settles(T, A) /\ Waiting(A)
    BY DEF SettlesSet, Settles
  <2>2. Settles(A, Expire(A, t)) /\ Expire(A, t) \in SchedState
    BY <2>1, ExpireSettles
  <2> QED BY <2>1, <2>2, SettlesTrans DEF SettlesSet
<1>6. Settles(S, T)
  BY <1>1, AsideSettles
<1>7. T \in V
  BY <1>1, <1>6, SettlesRefl DEF SettlesSet, Settles
<1>8. Exp!Folded(T, q) \in V
  <2> HIDE DEF V, q
  <2> QED BY <1>4, <1>5, <1>7, Exp!FoldLeftIn
<1>9. Settles(T, WheelTick(S)) /\ WheelTick(S) \in SchedState
  BY <1>2, <1>8 DEF SettlesSet
<1> QED BY <1>6, <1>9, SettlesTrans

\* Replacing the task_t of a slot that is not blocked by one on no queue.
LEMMA ReplaceAside ==
    ASSUME NEW S \in SchedState, NEW t \in Task, NEW r \in TaskRec, Waiting(S),
           S.task[t].state # "blocked", r.state # "blocked", r.queue = "none"
    PROVE  Aside(S, [S EXCEPT !.task[t] = r]) /\ [S EXCEPT !.task[t] = r] \in SchedState
<1> DEFINE T == [S EXCEPT !.task[t] = r]
<1>1. T \in SchedState
  BY DEF SchedState
<1>2. T.qhead = S.qhead /\ T.qtail = S.qtail /\ T.astray = S.astray /\ T.cur = S.cur
  BY DEF SchedState
<1>3. \A u \in Task : T.task[u] = IF u = t THEN r ELSE S.task[u]
  BY DEF SchedState
<1>4. S.task[t].queue = "none"
  BY DEF Waiting
<1> HIDE DEF T
<1>5. Aside(S, T)
  BY <1>1, <1>2, <1>3, <1>4 DEF Aside, SameQueues
<1> QED BY <1>1, <1>5 DEF T

\* task_create in a free slot.
LEMMA CreatedSettles ==
    ASSUME NEW S \in SchedState, NEW t \in Task, NEW p \in Prio, Waiting(S), S.task[t].state # "blocked"
    PROVE  Settles(S, Created(S, t, p)) /\ Created(S, t, p) \in SchedState
<1> DEFINE r == [Blank EXCEPT !.prio = p, !.base = p,
                              !.quantum = prio_to_quantum(p), !.full = prio_to_quantum(p)]
           A == [S EXCEPT !.task[t] = r]
<1>1. prio_to_quantum(p) \in Nat
  BY DEF prio_to_quantum
<1>2. r \in TaskRec
  <2>1. Blank \in TaskRec
    BY BlankType
  <2> QED BY <1>1, <2>1 DEF TaskRec
<1>3. r.state # "blocked" /\ r.queue = "none"
  BY DEF Blank
<1>4. Created(S, t, p) = scheduler_add(A, t)
  BY DEF Created
<1> HIDE DEF r
<1>5. Aside(S, A) /\ A \in SchedState
  BY <1>2, <1>3, ReplaceAside
<1> HIDE DEF A
<1>6. A.task[t].state # "blocked"
  BY <1>5 DEF Aside
<1>7. Aside(A, scheduler_add(A, t)) /\ scheduler_add(A, t) \in SchedState
  BY <1>5, <1>6, AddQuiet
<1> QED BY <1>4, <1>5, <1>7, AsideTrans, AsideSettles

\* task_destroy of a task that is not blocked.
LEMMA DestroyedSettles ==
    ASSUME NEW S \in SchedState, NEW t \in Task, Waiting(S), S.task[t].state # "blocked"
    PROVE  Settles(S, Destroyed(S, t)) /\ Destroyed(S, t) \in SchedState
<1> DEFINE A == scheduler_remove(S, t)
           B == WheelRemove(A, t)
           C == Unqueue(B, t)
           D == [C EXCEPT !.task[t] = Blank]
<1>1. Destroyed(S, t) = D
  BY DEF Destroyed
<1>2. Aside(S, A) /\ A \in SchedState
  BY RemoveAside
<1> HIDE DEF A
<1>3. Aside(A, B) /\ B \in SchedState
  BY <1>2, WheelRemoveAside
<1> HIDE DEF B
<1>4. Aside(S, B)
  BY <1>2, <1>3, AsideTrans
<1>5. Settles(S, B) /\ Waiting(B) /\ B.task[t].state # "blocked"
  BY <1>4, AsideSettles DEF Settles, Aside
<1>6. C = B
  BY <1>5 DEF Unqueue, Waiting
<1> HIDE DEF C
<1>7. Blank.state # "blocked" /\ Blank.queue = "none" /\ Blank \in TaskRec
  BY BlankType DEF Blank
<1>8. Aside(B, D) /\ D \in SchedState
  BY <1>3, <1>5, <1>6, <1>7, ReplaceAside
<1> HIDE DEF D
<1> QED BY <1>1, <1>4, <1>8, AsideTrans, AsideSettles

\* scheduler_reap.
LEMMA ReapedSettles ==
    ASSUME NEW S \in SchedState, Waiting(S)
    PROVE  Settles(S, Reaped(S)) /\ Reaped(S) \in SchedState
<1> DEFINE q == [i \in 1 .. Slots |-> i - 1]
           V == SettlesSet(S)
<1>1. Reaped(S) = Rp!Folded(S, q)
  BY DEF Reaped, Rp!Folded, FoldLeft, MapThenFoldSet, Rp!FoldLeft, Rp!MapThenFoldSet, Rp!Max, Max
<1>2. q \in Seq(Task)
  BY SlotsSeq
<1>3. \A A \in V, t \in Task :
          (IF A.task[t].state = "zombie" /\ t # A.cur /\ t # A.head[0] THEN Destroyed(A, t) ELSE A) \in V
  <2> SUFFICES ASSUME NEW A \in V, NEW t \in Task, A.task[t].state = "zombie" PROVE Destroyed(A, t) \in V
    OBVIOUS
  <2>1. A \in SchedState /\ Settles(S, A) /\ Waiting(A)
    BY DEF SettlesSet, Settles
  <2>2. Settles(A, Destroyed(A, t)) /\ Destroyed(A, t) \in SchedState
    BY <2>1, DestroyedSettles
  <2> QED BY <2>1, <2>2, SettlesTrans DEF SettlesSet
<1>4. S \in V
  BY SettlesRefl DEF SettlesSet
<1>5. Rp!Folded(S, q) \in V
  <2> HIDE DEF V, q
  <2> QED BY <1>2, <1>3, <1>4, Rp!FoldLeftIn
<1> QED BY <1>1, <1>5 DEF SettlesSet

\* task_wake.
LEMMA WokenSettles ==
    ASSUME NEW S \in SchedState, NEW t \in Task, Waiting(S)
    PROVE  Settles(S, Woken(S, t)) /\ Woken(S, t) \in SchedState
<1> DEFINE A == WheelRemove(S, t)
           B == Set(A, t, "until", 0)
           C == scheduler_add(B, t)
<1>1. Woken(S, t) = IF S.task[t].state = "sleeping" THEN C ELSE S
  BY DEF Woken
<1>2. Aside(S, A) /\ A \in SchedState
  BY WheelRemoveAside
<1> HIDE DEF A
<1>3. Aside(A, B) /\ B \in SchedState
  BY <1>2, FieldAside
<1> HIDE DEF B
<1>4. Aside(S, B)
  BY <1>2, <1>3, AsideTrans
<1>5. CASE S.task[t].state = "sleeping"
  <2>1. B.task[t].state # "blocked"
    BY <1>4, <1>5 DEF Aside
  <2>2. Aside(B, C) /\ C \in SchedState
    BY <1>3, <2>1, AddQuiet
  <2> HIDE DEF C
  <2> QED BY <1>1, <1>4, <1>5, <2>2, AsideTrans, AsideSettles
<1>6. CASE S.task[t].state # "sleeping"
  BY <1>1, <1>6, SettlesRefl
<1> QED BY <1>5, <1>6

\* task_wake_all.
LEMMA WokenAllSettles ==
    ASSUME NEW S \in SchedState, Waiting(S)
    PROVE  Settles(S, FoldLeft(Woken, S, [i \in 1 .. Slots |-> i - 1]))
<1> DEFINE q == [i \in 1 .. Slots |-> i - 1]
           V == SettlesSet(S)
<1>1. FoldLeft(Woken, S, q) = Wk!Folded(S, q)
  BY DEF Wk!Folded, FoldLeft, MapThenFoldSet, Wk!FoldLeft, Wk!MapThenFoldSet, Wk!Max, Max
<1>2. q \in Seq(Task)
  BY SlotsSeq
<1>3. \A A \in V, t \in Task : Woken(A, t) \in V
  <2> SUFFICES ASSUME NEW A \in V, NEW t \in Task PROVE Woken(A, t) \in V
    OBVIOUS
  <2>1. A \in SchedState /\ Settles(S, A) /\ Waiting(A)
    BY DEF SettlesSet, Settles
  <2>2. Settles(A, Woken(A, t)) /\ Woken(A, t) \in SchedState
    BY <2>1, WokenSettles
  <2> QED BY <2>1, <2>2, SettlesTrans DEF SettlesSet
<1>4. S \in V
  BY SettlesRefl DEF SettlesSet
<1>5. Wk!Folded(S, q) \in V
  <2> HIDE DEF V, q
  <2> QED BY <1>2, <1>3, <1>4, Wk!FoldLeftIn
<1>6. FoldLeft(Woken, S, q) \in SettlesSet(S)
  BY <1>1, <1>5
<1> QED BY <1>6 DEF SettlesSet, FoldLeft, MapThenFoldSet

\* A change of priority leaves the wait queues alone.
LEMMA ReprioAside ==
    ASSUME NEW S \in SchedState, NEW t \in Task, NEW p \in Prio
    PROVE  Aside(S, Reprio(S, t, p)) /\ Reprio(S, t, p) \in SchedState
<1> DEFINE A == Set(S, t, "prio", p)
           B == scheduler_remove(A, t)
           C == scheduler_add(B, t)
<1>1. Reprio(S, t, p) = IF S.task[t].state = "ready" THEN C ELSE A
  BY DEF Reprio
<1>2. Aside(S, A) /\ A \in SchedState
  BY FieldAside
<1> HIDE DEF A
<1>3. Aside(A, B) /\ B \in SchedState
  BY <1>2, RemoveAside
<1> HIDE DEF B
<1>4. Aside(S, B)
  BY <1>2, <1>3, AsideTrans
<1>5. CASE S.task[t].state = "ready"
  <2>1. B.task[t].state # "blocked"
    BY <1>4, <1>5 DEF Aside
  <2>2. Aside(B, C) /\ C \in SchedState
    BY <1>3, <2>1, AddQuiet
  <2> HIDE DEF C
  <2> QED BY <1>1, <1>4, <1>5, <2>2, AsideTrans
<1>6. CASE S.task[t].state # "ready"
  BY <1>1, <1>2, <1>6
<1> QED BY <1>5, <1>6

\* So do the boost of a mutex owner and its end.
LEMMA BoostAside ==
    ASSUME NEW S \in SchedState, NEW t \in Task, NEW p \in Prio
    PROVE  /\ Aside(S, Boosted(S, t, p)) /\ Boosted(S, t, p) \in SchedState
           /\ Aside(S, Unboosted(S, t)) /\ Unboosted(S, t) \in SchedState
<1>1. S.task[t].base \in Prio
  BY DEF SchedState, TaskRec
<1>2. Aside(S, S)
  BY AsideRefl
<1>3. Aside(S, Reprio(S, t, p)) /\ Reprio(S, t, p) \in SchedState
  BY ReprioAside
<1>4. Aside(S, Reprio(S, t, S.task[t].base)) /\ Reprio(S, t, S.task[t].base) \in SchedState
  BY <1>1, ReprioAside
<1>5. Boosted(S, t, p) \in {S, Reprio(S, t, p)} /\ Unboosted(S, t) \in {S, Reprio(S, t, S.task[t].base)}
  BY DEF Boosted, Unboosted
<1> QED BY <1>2, <1>3, <1>4, <1>5

\* task_block_on puts a task that was not blocked on the queue, and disturbs
\* nobody else.
Joins(S, T, t, q) ==
    /\ Waiting(T) /\ T.astray = S.astray /\ T.cur = S.cur
    /\ \A u \in Task : T.task[u].state = "blocked" <=> u = t \/ S.task[u].state = "blocked"
    /\ \A u \in Task : T.task[u].queue = IF u = t THEN q ELSE S.task[u].queue
\* task_block_on joins the queue it is given, whatever the timeout.
LEMMA BlockedJoins ==
    ASSUME NEW S \in SchedState, NEW t \in Task, NEW q \in Queue, NEW n \in Nat,
           Waiting(S), S.task[t].state # "blocked"
    PROVE  Joins(S, Blocked(S, t, q, n), t, q)
<1> DEFINE A1 == Set(S, t, "state", "blocked")
           A == Set(A1, t, "reason", "none")
           d == IF n > 0 THEN S.tick + n ELSE 0
           B1 == Set(A, t, "until", d)
           B == Push(B1, q, t)
           C == WheelInsert(B, t, n)
<1>1. Blocked(S, t, q, n) \in {B, C}
  BY DEF Blocked
<1>2. d \in Nat
  BY DEF SchedState
<1> HIDE DEF d
<1>3. /\ A1 \in SchedState /\ SameQueues(S, A1)
      /\ \A u \in Task : A1.task[u].state = IF u = t THEN "blocked" ELSE S.task[u].state
  <2>1. A1 \in SchedState
    BY SetField DEF Quiet
  <2>2. /\ A1.qhead = S.qhead /\ A1.qtail = S.qtail /\ A1.astray = S.astray /\ A1.cur = S.cur
        /\ A1.task = [S.task EXCEPT ![t] = [S.task[t] EXCEPT !["state"] = "blocked"]]
    BY DEF Set, SchedState
  <2>3. \A u \in Task : /\ A1.task[u].state = IF u = t THEN "blocked" ELSE S.task[u].state
                        /\ A1.task[u].queue = S.task[u].queue
                        /\ A1.task[u].wnext = S.task[u].wnext
                        /\ A1.task[u].wprev = S.task[u].wprev
    BY <2>2 DEF SchedState, TaskRec
  <2> HIDE DEF A1
  <2> QED BY <2>1, <2>2, <2>3 DEF SameQueues
<1> HIDE DEF A1
<1>4. Lined(A1) /\ A1.task[t].queue = "none"
  BY <1>3, SameLined DEF Waiting, SameQueues
<1>5. Aside(A1, A) /\ A \in SchedState
  BY <1>3, FieldAside
<1> HIDE DEF A
<1>6. Aside(A, B1) /\ B1 \in SchedState
  BY <1>2, <1>5, FieldAside
<1> HIDE DEF B1
<1>7. Aside(A1, B1)
  BY <1>5, <1>6, AsideTrans
<1>8. Lined(B1) /\ B1.task[t].queue = "none"
  BY <1>4, <1>7, SameLined DEF Aside, SameQueues
<1>9. /\ Lined(B) /\ B \in SchedState
      /\ B.astray = B1.astray /\ B.cur = B1.cur
      /\ \A u \in Task : /\ B.task[u].state = B1.task[u].state
                         /\ B.task[u].queue = IF u = t THEN q ELSE B1.task[u].queue
  BY <1>6, <1>8, PushLined
<1> HIDE DEF B
<1>10. Joins(S, B, t, q)
  <2>1. B.astray = S.astray /\ B.cur = S.cur
    BY <1>3, <1>7, <1>9 DEF Aside, SameQueues
  <2>2. \A u \in Task : B.task[u].state = "blocked" <=> u = t \/ S.task[u].state = "blocked"
    BY <1>3, <1>7, <1>9 DEF Aside
  <2>3. \A u \in Task : B.task[u].queue = IF u = t THEN q ELSE S.task[u].queue
    BY <1>3, <1>7, <1>9 DEF Aside, SameQueues
  <2>4. q # "none"
    BY DEF Queue
  <2>5. Waiting(B)
    BY <1>9, <2>2, <2>3, <2>4 DEF Waiting
  <2> QED BY <2>1, <2>2, <2>3, <2>5 DEF Joins
<1>11. Aside(B, C) /\ C \in SchedState
  BY <1>9, WheelInsertAside
<1> HIDE DEF C
<1>12. Settles(B, C)
  BY <1>10, <1>11, AsideSettles DEF Joins
<1>13. Joins(S, C, t, q)
  BY <1>10, <1>11, <1>12 DEF Joins, Settles, Aside, SameQueues
<1> QED BY <1>1, <1>10, <1>13

\* task_wake_one takes the first waiter off the queue and makes it ready.
LEMMA WakeOneSettles ==
    ASSUME NEW S \in SchedState, NEW q \in Queue, Waiting(S)
    PROVE  Settles(S, WakeOne(S, q)) /\ WakeOne(S, q) \in SchedState
<1> DEFINE t == S.qhead[q]
           U == Unqueue(S, t)
           A == WheelRemove(U, t)
           B == Set(A, t, "reason", "signaled")
           C == Set(B, t, "until", 0)
           D == scheduler_add(C, t)
<1>1. WakeOne(S, q) = IF t = Nil THEN S ELSE D
  BY DEF WakeOne
<1>2. t # Nil => t \in Task
  BY DEF SchedState, TaskN
<1> HIDE DEF t
<1>3. CASE t # Nil
  <2>1. /\ Waking(U, t) /\ U \in SchedState /\ U.astray = S.astray /\ U.cur = S.cur
        /\ \A u \in Task : U.task[u].state = S.task[u].state
        /\ \A u \in Task \ {t} : U.task[u].queue = S.task[u].queue
    BY <1>2, <1>3, UnqueueWaking
  <2> HIDE DEF U
  <2>2. Aside(U, A) /\ A \in SchedState
    BY <1>2, <1>3, <2>1, WheelRemoveAside
  <2> HIDE DEF A
  <2>3. Aside(A, B) /\ B \in SchedState
    BY <1>2, <1>3, <2>2, FieldAside
  <2> HIDE DEF B
  <2>4. Aside(B, C) /\ C \in SchedState
    BY <1>2, <1>3, <2>3, FieldAside
  <2> HIDE DEF C
  <2>5. Aside(U, C)
    BY <2>2, <2>3, <2>4, AsideTrans
  <2>6. Waking(C, t)
    BY <1>2, <1>3, <2>1, <2>5, AsideWaking
  <2>7. /\ Waiting(D) /\ D \in SchedState /\ D.astray = C.astray /\ D.cur = C.cur
        /\ \A u \in Task : D.task[u].state = "blocked" =>
               u # t /\ C.task[u].state = "blocked" /\ D.task[u].queue = C.task[u].queue
    BY <1>2, <1>3, <2>4, <2>6, AddWakes
  <2> HIDE DEF D
  <2>8. Settles(S, D)
    BY <2>1, <2>5, <2>7 DEF Settles, Aside, SameQueues
  <2> QED BY <1>1, <1>3, <2>7, <2>8
<1>4. CASE t = Nil
  BY <1>1, <1>4, SettlesRefl
<1> QED BY <1>3, <1>4

\* sem_signal wakes the waiters one by one.
LEMMA WakeAllOfSettles ==
    ASSUME NEW S \in SchedState, Waiting(S)
    PROVE  Settles(S, WakeAllOf(S, "sem"))
<1> DEFINE q == [i \in 1 .. Slots |-> i]
           V == SettlesSet(S)
<1>1. WakeAllOf(S, "sem") = Sg!Folded(S, q)
  BY DEF WakeAllOf, Sg!Folded, FoldLeft, MapThenFoldSet, Sg!FoldLeft, Sg!MapThenFoldSet, Sg!Max, Max
<1>2. q \in Seq(Nat)
  <2>1. Slots \in Nat
    BY SchedulerAssumption
  <2> QED BY <2>1
<1>3. \A A \in V, i \in Nat : WakeOne(A, "sem") \in V
  <2> SUFFICES ASSUME NEW A \in V PROVE WakeOne(A, "sem") \in V
    OBVIOUS
  <2>1. A \in SchedState /\ Settles(S, A) /\ Waiting(A)
    BY DEF SettlesSet, Settles
  <2>2. Settles(A, WakeOne(A, "sem")) /\ WakeOne(A, "sem") \in SchedState
    BY <2>1, WakeOneSettles DEF Queue
  <2> QED BY <2>1, <2>2, SettlesTrans DEF SettlesSet
<1>4. S \in V
  BY SettlesRefl DEF SettlesSet
<1>5. Sg!Folded(S, q) \in V
  <2> DEFINE N == Nat
  <2>1. q \in Seq(N) /\ \A A \in V, i \in N : WakeOne(A, "sem") \in V
    BY <1>2, <1>3
  <2> HIDE DEF V, q, N
  <2> QED BY <2>1, <1>4, Sg!FoldLeftIn
<1> QED BY <1>1, <1>5 DEF SettlesSet

\* The wait queues are in order and the task that runs is on none of them.
Awake(S) == Waiting(S) /\ (S.cur # Nil => S.task[S.cur].state # "blocked")

\* A step that did not make the ready lists go astray kept that, and put no
\* task on a wait queue.
Passes(S, T) ==
    ~T.astray =>
        /\ ~S.astray
        /\ Awake(S) => /\ Awake(T)
                       /\ \A u \in Task : T.task[u].state = "blocked" =>
                              S.task[u].state = "blocked" /\ T.task[u].queue = S.task[u].queue

\* Two such steps in a row are one.
LEMMA PassesTrans ==
    ASSUME NEW S, NEW T, NEW U, Passes(S, T), Passes(T, U)
    PROVE  Passes(S, U)
BY DEF Passes

\* Whatever keeps astray and the current task, and lets tasks leave the queues.
LEMMA SettlesPasses ==
    ASSUME NEW S \in SchedState, NEW T, Calm(S, T), Waiting(S) => Settles(S, T)
    PROVE  Passes(S, T)
<1>1. T.astray = S.astray
  BY DEF Calm
<1>2. S.cur # Nil => S.cur \in Task
  BY DEF SchedState, TaskN
<1>3. Awake(S) => Awake(T)
  BY <1>2 DEF Awake, Settles
<1>4. Awake(S) => \A u \in Task : T.task[u].state = "blocked" =>
                              S.task[u].state = "blocked" /\ T.task[u].queue = S.task[u].queue
  BY DEF Awake, Settles
<1> QED BY <1>1, <1>3, <1>4 DEF Passes

\* schedule() asks less of its caller, who may just have queued itself.
Hands(S, T) ==
    ~T.astray =>
        /\ ~S.astray
        /\ Waiting(S) => /\ Awake(T)
                         /\ \A u \in Task : T.task[u].state = "blocked" =>
                                S.task[u].state = "blocked" /\ T.task[u].queue = S.task[u].queue

\* The three outcomes of schedule() that keep the lists in order: nothing is
\* ready and the caller goes on, or a ready task runs and the caller, if it was
\* running, becomes ready.
LEMMA ScheduleHands ==
    ASSUME NEW S \in SchedState
    PROVE  Hands(S, Schedule(S))
<1> DEFINE n == NextReady(S).task
           N == NextReady(S).bits
           A == [S EXCEPT !.bits = N]
           B == IF S.cur # Nil /\ S.task[S.cur].state = "running" THEN scheduler_add(A, S.cur) ELSE A
           C == scheduler_remove(B, n)
           D == Set(C, n, "state", "running")
           E == [D EXCEPT !.cur = n, !.astray = @ \/ S.task[n].state # "ready"]
           F == [A EXCEPT !.astray = @ \/ (S.cur # Nil /\ S.task[S.cur].state # "running")]
<1>1. n \in TaskN
  BY NextReadyType
<1>2. Aside(S, A) /\ A \in SchedState /\ A.task = S.task /\ A.cur = S.cur /\ A.astray = S.astray
  <2>1. N \in SUBSET Prio
    BY NextReadyType
  <2> HIDE DEF N
  <2>2. Nil \in TaskN
    BY DEF TaskN
  <2>3. \A K \in SUBSET Prio : Aside(S, [S EXCEPT !.bits = K]) /\ [S EXCEPT !.bits = K] \in SchedState
    BY <2>2, HeadAside
  <2>4. Aside(S, A) /\ A \in SchedState
    BY <2>1, <2>3
  <2> QED BY <2>4 DEF SchedState
<1>3. Schedule(S) = IF n = Nil THEN F ELSE IF n = S.cur THEN [A EXCEPT !.astray = TRUE] ELSE E
  BY DEF Schedule
<1>4. Aside(S, A) /\ (Waiting(S) => Waiting(A))
  <2> HIDE DEF A
  <2> QED BY <1>2, AsideSettles DEF Settles
<1> HIDE DEF N
<1>5. CASE n = Nil
  <2>1. /\ F.task = A.task /\ F.cur = A.cur /\ F.qhead = A.qhead /\ F.qtail = A.qtail
        /\ F.astray = (A.astray \/ (S.cur # Nil /\ S.task[S.cur].state # "running"))
    <3> HIDE DEF A
    <3> QED BY <1>2 DEF SchedState
  <2> HIDE DEF F, A
  <2>2. Waiting(A) => Waiting(F)
    <3>1. Lined(A) => Lined(F)
      BY <2>1 DEF Lined, Lane
    <3> QED BY <2>1, <3>1 DEF Waiting
  <2>3. Hands(S, F)
    BY <1>2, <1>4, <2>1, <2>2 DEF Hands, Awake
  <2> HIDE DEF E, n
  <2> QED BY <1>3, <1>5, <2>3
<1>6. CASE n # Nil /\ n = S.cur
  <2>1. [A EXCEPT !.astray = TRUE].astray = TRUE
    <3> HIDE DEF A
    <3> QED BY <1>2 DEF SchedState
  <2> HIDE DEF A, n, E, F
  <2>2. Schedule(S).astray
    BY <1>3, <1>6, <2>1
  <2> QED BY <2>2 DEF Hands
<1>7. CASE n # Nil /\ n # S.cur
  <2>1. n \in Task
    <3> HIDE DEF n
    <3> QED BY <1>1, <1>7 DEF TaskN
  <2>2. Aside(A, B) /\ B \in SchedState
    <3> HIDE DEF A
    <3>1. CASE S.cur # Nil /\ S.task[S.cur].state = "running"
      <4>1. S.cur \in Task
        BY <3>1 DEF SchedState, TaskN
      <4>2. A.task[S.cur].state # "blocked"
        BY <1>2, <3>1
      <4>3. Aside(A, scheduler_add(A, S.cur)) /\ scheduler_add(A, S.cur) \in SchedState
        BY <1>2, <4>1, <4>2, AddQuiet
      <4>4. B = scheduler_add(A, S.cur)
        BY <3>1
      <4> HIDE DEF B
      <4> QED BY <4>3, <4>4
    <3>2. CASE ~(S.cur # Nil /\ S.task[S.cur].state = "running")
      <4>1. B = A
        BY <3>2
      <4> HIDE DEF B
      <4> QED BY <1>2, <4>1, AsideRefl
    <3> QED BY <3>1, <3>2
  <2> HIDE DEF B, n, A
  <2>3. Aside(B, C) /\ C \in SchedState
    BY <2>1, <2>2, RemoveAside
  <2> HIDE DEF C
  <2>4. Aside(S, C)
    BY <1>4, <2>2, <2>3, AsideTrans
  <2>5. D \in SchedState /\ D.task[n].state = "running"
    <3>1. [C.task[n] EXCEPT !["state"] = "running"] \in TaskRec
      <4>1. C.task[n] \in TaskRec
        BY <2>1, <2>3 DEF SchedState
      <4> QED BY <4>1 DEF TaskRec
    <3>2. D \in SchedState
      BY <2>1, <2>3, <3>1 DEF Set, SchedState
    <3>3. D.task[n] = [C.task[n] EXCEPT !["state"] = "running"] /\ C.task[n] \in TaskRec
      BY <2>1, <2>3 DEF Set, SchedState
    <3> HIDE DEF D
    <3> QED BY <3>2, <3>3 DEF TaskRec
  <2>6. S.task[n].state = "ready" => Aside(C, D)
    <3>1. S.task[n].state = "ready" => C.task[n].state # "blocked"
      BY <2>1, <2>4 DEF Aside
    <3> QED BY <2>1, <2>3, <2>5, <3>1, StateAside
  <2>7. C.astray = S.astray /\ D.astray = C.astray
    <3>1. C.astray = S.astray
      BY <2>4 DEF Aside, SameQueues
    <3>2. D.astray = C.astray
      BY <2>3 DEF Set, SchedState
    <3> QED BY <3>1, <3>2
  <2> HIDE DEF D
  <2>8. /\ E.task = D.task /\ E.cur = n /\ E.qhead = D.qhead /\ E.qtail = D.qtail
        /\ E.astray = (D.astray \/ S.task[n].state # "ready")
    BY <2>5 DEF SchedState
  <2> HIDE DEF E
  <2>9. Hands(S, E)
    <3> SUFFICES ASSUME ~E.astray
                 PROVE  /\ ~S.astray
                        /\ Waiting(S) => /\ Awake(E)
                                         /\ \A u \in Task : E.task[u].state = "blocked" =>
                                              S.task[u].state = "blocked" /\ E.task[u].queue = S.task[u].queue
      BY DEF Hands
    <3>1. ~S.astray /\ S.task[n].state = "ready"
      BY <2>7, <2>8
    <3>2. Aside(S, D)
      BY <2>4, <2>6, <3>1, AsideTrans
    <3>3. Waiting(S) => Settles(S, D)
      BY <3>2, AsideSettles
    <3>4. Waiting(D) => Waiting(E)
      <4>1. Lined(D) => Lined(E)
        BY <2>8 DEF Lined, Lane
      <4> QED BY <2>8, <4>1 DEF Waiting
    <3>5. E.task[E.cur].state # "blocked"
      BY <2>5, <2>8
    <3> QED BY <2>8, <3>1, <3>3, <3>4, <3>5 DEF Awake, Settles
  <2> HIDE DEF F
  <2> QED BY <1>3, <1>7, <2>9
<1> QED BY <1>5, <1>6, <1>7

\* So schedule() keeps what a step has to keep.
LEMMA SchedulePasses ==
    ASSUME NEW S \in SchedState
    PROVE  Passes(S, Schedule(S))
<1>1. Hands(S, Schedule(S))
  BY ScheduleHands
<1> QED BY <1>1 DEF Hands, Passes, Awake

\* task_sleep marks its caller, who is not blocked.
LEMMA SleepInPasses ==
    ASSUME NEW S \in SchedState, NEW c \in Task, NEW n \in Nat, S.cur = c
    PROVE  Passes(S, SleepIn(S, c, n))
<1> DEFINE A == Set(S, c, "until", S.tick + n)
           B == Set(A, c, "state", "sleeping")
<1>1. S.tick + n \in Nat
  BY DEF SchedState
<1>2. Calm(S, A) /\ Aside(S, A) /\ A \in SchedState
  BY <1>1, SetField, FieldAside
<1>3. SleepIn(S, c, n) = B
  BY DEF SleepIn
<1> HIDE DEF A
<1>4. Calm(A, B) /\ B \in SchedState
  BY <1>2, SetField DEF Quiet
<1>5. S.task[c].state # "blocked" => Aside(A, B)
  BY <1>2, <1>4, StateAside DEF Aside
<1> HIDE DEF B
<1>6. S.task[c].state # "blocked" => (Waiting(S) => Settles(S, B))
  BY <1>2, <1>5, AsideTrans, AsideSettles
<1>7. Calm(S, B)
  BY <1>2, <1>4, CalmTrans
<1>8. S.task[c].state # "blocked" => Passes(S, B)
  BY <1>6, <1>7, SettlesPasses
<1>9. S.task[c].state = "blocked" => Passes(S, B)
  BY <1>7, TaskNotNil DEF Passes, Awake, Calm
<1> QED BY <1>3, <1>8, <1>9

\* scheduler_tick after the wheel.
LEMMA QuantumPasses ==
    ASSUME NEW S \in SchedState
    PROVE  Passes(S, Quantum(S))
<1> DEFINE c == S.cur
           q == S.task[c].quantum
           l == IF q > 0 THEN q - 1 ELSE 0
<1>1. Passes(S, S)
  BY CalmRefl, SettlesRefl, SettlesPasses
<1>2. CASE c = Nil
  BY <1>1, <1>2 DEF Quantum
<1>3. CASE c # Nil
  <2>1. c \in Task
    BY <1>3 DEF SchedState, TaskN
  <2>2. q \in Nat /\ S.task[c].full \in Nat
    BY <2>1 DEF SchedState, TaskRec
  <2>3. l \in Nat
    BY <2>2
  <2> DEFINE A == Set(S, c, "quantum", l)
             B == Set(S, c, "quantum", S.task[c].full)
  <2>4. Passes(S, A) /\ Passes(S, B) /\ B \in SchedState
    <3> HIDE DEF l, c
    <3>1. Calm(S, A) /\ Calm(S, B) /\ Aside(S, A) /\ Aside(S, B) /\ B \in SchedState
      BY <2>1, <2>2, <2>3, SetField, FieldAside
    <3> HIDE DEF A, B
    <3> QED BY <3>1, AsideSettles, SettlesPasses
  <2>5. Quantum(S) \in {A, Schedule(B)}
    BY <1>3 DEF Quantum
  <2> HIDE DEF A, B
  <2> QED BY <2>4, <2>5, SchedulePasses, PassesTrans
<1> QED BY <1>2, <1>3

\* At boot nobody waits.
LEMMA BootWaits == Awake(Boot) /\ \A u \in Task : Boot.task[u].state # "blocked"
<1> DEFINE e == [task |-> [t \in Task |-> Blank],
                 head |-> [p \in Prio |-> Nil], tail |-> [p \in Prio |-> Nil], bits |-> {},
                 wheel |-> [b \in 0 .. WheelSize - 1 |-> Nil],
                 qhead |-> [q \in {"mutex", "sem"} |-> Nil],
                 qtail |-> [q \in {"mutex", "sem"} |-> Nil], cur |-> Nil, tick |-> 0, astray |-> FALSE]
           C == Created(e, Idle, Normal)
           I == [C EXCEPT !.task[Idle].prio = 0, !.task[Idle].base = 0,
                          !.task[Idle].quantum = Forever, !.task[Idle].full = Forever]
           r == [C.task[Idle] EXCEPT !.prio = 0, !.base = 0, !.quantum = Forever, !.full = Forever]
           D == Created(I, Reaper, Critical)
<1>1. Boot = D
  BY DEF Boot
<1>2. Idle \in Task /\ Reaper \in Task /\ 0 \in Prio /\ Normal \in Prio /\ Critical \in Prio /\ Forever \in Nat
  BY SchedulerAssumption DEF Task, Idle, Reaper, Prio, Forever
<1>3. e \in SchedState
  BY BlankType DEF SchedState, TaskN, Bucket, Queue
<1>4. /\ \A u \in Task : e.task[u].state = "free" /\ e.task[u].queue = "none"
      /\ \A q \in Queue : e.qhead[q] = Nil /\ e.qtail[q] = Nil
      /\ e.cur = Nil
  BY DEF Blank, Queue
<1> HIDE DEF e
<1>5. Waiting(e)
  <2>1. \A q \in Queue : Lane(e, q, <<>>)
    <3>1. <<>> \in Seq(Task) /\ Len(<<>>) = 0 /\ 1 .. 0 = {}
      OBVIOUS
    <3>2. \A q \in Queue : q # "none"
      BY DEF Queue
    <3> QED BY <1>4, <3>1, <3>2 DEF Lane
  <2>2. Lined(e)
    BY <2>1, Zenon DEF Lined
  <2> QED BY <1>4, <2>2 DEF Waiting
<1>6. Settles(e, C) /\ C \in SchedState
  BY <1>2, <1>3, <1>4, <1>5, CreatedSettles
<1>7. Waiting(C) /\ C.task[Idle].state # "blocked" /\ C.task[Idle].queue = "none" /\ C.task[Idle] \in TaskRec
  BY <1>2, <1>4, <1>6 DEF Settles, Waiting, SchedState
<1> HIDE DEF C
<1>8. r \in TaskRec
  BY <1>2, <1>7 DEF TaskRec
<1>9. r.state # "blocked" /\ r.queue = "none"
  BY <1>7 DEF TaskRec
<1>10. I = [C EXCEPT !.task[Idle] = r]
  OBVIOUS
<1> HIDE DEF r, I
<1>11. Aside(C, I) /\ I \in SchedState
  BY <1>2, <1>6, <1>7, <1>8, <1>9, <1>10, ReplaceAside
<1>12. Settles(C, I)
  BY <1>7, <1>11, AsideSettles
<1>13. Settles(e, I)
  BY <1>6, <1>12, SettlesTrans
<1>14. Waiting(I) /\ I.task[Reaper].state # "blocked"
  BY <1>2, <1>4, <1>13 DEF Settles
<1>15. Settles(I, D)
  BY <1>2, <1>11, <1>14, CreatedSettles
<1> HIDE DEF D
<1>16. Settles(e, D)
  BY <1>13, <1>15, SettlesTrans
<1> QED BY <1>1, <1>4, <1>16 DEF Settles, Awake

\* Where a task can be in its own code.
Place == {"task", "sleep1", "sleep2", "exit", "dead", "spin", "mutex", "sem"}

\* Until schedule() went astray, the wait queues are in order, the task that
\* runs is on none, and a blocked task is inside the call of the lock on whose
\* queue it is.
WaitInv ==
    /\ at \in [Task -> Place]
    /\ ~s.astray => /\ Awake(s)
                    /\ \A u \in Task : s.task[u].state = "blocked" => at[u] = s.task[u].queue

\* WaitInv holds initially.
LEMMA WaitInit == Init => WaitInv
BY BootWaits DEF Init, WaitInv, Place

\* A step that puts nobody on a queue, and moves only tasks that are not blocked.
LEMMA PassStep ==
    ASSUME WaitInv, Passes(s, s'), at' \in [Task -> Place],
           ~s.astray /\ Awake(s) => \A u \in Task : s.task[u].state = "blocked" => at'[u] = at[u]
    PROVE  WaitInv'
<1> SUFFICES ASSUME ~s'.astray
             PROVE  Awake(s') /\ \A u \in Task : s'.task[u].state = "blocked" => at'[u] = s'.task[u].queue
  BY DEF WaitInv, Awake, Waiting, Lined, Lane
<1>1. ~s.astray /\ Awake(s) /\ \A u \in Task : s.task[u].state = "blocked" => at[u] = s.task[u].queue
  BY DEF Passes, WaitInv
<1> QED BY <1>1 DEF Passes

\* The task that runs moves on in its code.
LEMMA CurrentStep ==
    ASSUME WaitInv, NEW c \in Task, s.cur = c, Passes(s, s'),
           NEW x \in Place, at' = at \/ at' = [at EXCEPT ![c] = x]
    PROVE  WaitInv'
<1>1. at' \in [Task -> Place]
  BY DEF WaitInv
<1>2. Awake(s) => s.task[c].state # "blocked"
  BY TaskNotNil DEF Awake
<1>3. Awake(s) => \A u \in Task : s.task[u].state = "blocked" => at'[u] = at[u]
  BY <1>2 DEF WaitInv
<1> QED BY <1>1, <1>3, PassStep

\* What leaves the memory alone passes.
LEMMA SamePasses ==
    ASSUME NEW S \in SchedState
    PROVE  Passes(S, S)
BY CalmRefl, SettlesRefl, SettlesPasses

\* task_block_on and the switch inside it.
LEMMA BlockStep ==
    ASSUME Good(s), WaitInv, NEW c \in Task, s.cur = c, NEW S \in SchedState, Calm(s, S), Aside(s, S),
           NEW q \in Queue, NEW n \in Nat, s' = Schedule(Blocked(S, c, q, n)), at' = [at EXCEPT ![c] = q]
    PROVE  WaitInv'
<1> DEFINE B == Blocked(S, c, q, n)
<1>0. q \in Place
  BY DEF Queue, Place
<1>1. at' \in [Task -> Place]
  BY <1>0 DEF WaitInv
<1>2. Good(S) /\ S.cur = c /\ S.astray = s.astray
  BY GoodCalm DEF Calm
<1>3. Calm(S, B) /\ B \in SchedState
  BY BlockedCalm
<1>4. Hands(B, s')
  BY <1>3, ScheduleHands
<1>5. s'.astray \/ (~B.astray /\ ~s.astray)
  BY <1>2, <1>3, <1>4 DEF Hands, Calm
<1> SUFFICES ASSUME ~s'.astray
             PROVE  Awake(s') /\ \A u \in Task : s'.task[u].state = "blocked" => at'[u] = s'.task[u].queue
  BY <1>1 DEF WaitInv, Awake, Waiting, Lined, Lane
<1>6. Awake(s) /\ \A u \in Task : s.task[u].state = "blocked" => at[u] = s.task[u].queue
  BY <1>5 DEF WaitInv
<1>7. s.task[c].state # "blocked"
  BY <1>6, TaskNotNil DEF Awake
<1>8. Waiting(S) /\ S.task[c].state # "blocked"
  BY <1>6, <1>7, AsideSettles DEF Settles, Awake, Aside
<1>9. Joins(S, B, c, q)
  BY <1>8, BlockedJoins
<1> HIDE DEF B
<1>10. Awake(s') /\ \A u \in Task : s'.task[u].state = "blocked" =>
                       B.task[u].state = "blocked" /\ s'.task[u].queue = B.task[u].queue
  BY <1>4, <1>9 DEF Hands, Joins
<1>11. \A u \in Task : B.task[u].state = "blocked" => at'[u] = B.task[u].queue
  <2> SUFFICES ASSUME NEW u \in Task, B.task[u].state = "blocked" PROVE at'[u] = B.task[u].queue
    OBVIOUS
  <2>1. CASE u = c
    BY <1>9, <2>1 DEF Joins, WaitInv
  <2>2. CASE u # c
    <3>1. S.task[u].state = "blocked" /\ B.task[u].queue = S.task[u].queue
      BY <1>9, <2>2 DEF Joins
    <3>2. s.task[u].state = "blocked" /\ S.task[u].queue = s.task[u].queue
      BY <3>1 DEF Aside, SameQueues
    <3> QED BY <1>6, <2>2, <3>1, <3>2 DEF WaitInv
  <2> QED BY <2>1, <2>2
<1> QED BY <1>10, <1>11

\* WaitInv and the calls of task.c and scheduler.c: none of them queues a task.
LEMMA WaitTaskSteps ==
    ASSUME SchedInv, WaitInv, NEW c \in Task,
           \/ task_yield(c) \/ SleepInsert(c) \/ SleepSwitch(c) \/ task_wake_all(c) \/ task_exit(c) \/ ExitSwitch(c)
           \/ \E n \in Sleeps : task_sleep(c, n)
           \/ \E t \in Task : task_wake(c, t)
    PROVE  WaitInv'
<1>1. s \in SchedState /\ wait \in [Task -> Nat] /\ wait[c] \in Nat
  BY DEF SchedInv
<1>2. CASE task_yield(c)
  <2> DEFINE v == s.task[c].full
             A == Set(s, c, "quantum", v)
  <2>1. v \in Nat
    BY <1>1 DEF SchedState, TaskRec
  <2>2. s' = Schedule(A) /\ at' = at /\ s.cur = c
    BY <1>2 DEF task_yield, Switch, Calls, me
  <2> HIDE DEF v
  <2>3. Calm(s, A) /\ Aside(s, A) /\ A \in SchedState
    BY <1>1, <2>1, SetField, FieldAside
  <2> HIDE DEF A
  <2>4. Passes(s, A)
    BY <1>1, <2>3, AsideSettles, SettlesPasses
  <2>5. Passes(s, s')
    BY <2>2, <2>3, <2>4, SchedulePasses, PassesTrans
  <2> QED BY <2>2, <2>5, CurrentStep DEF Place
<1>3. CASE SleepInsert(c)
  <2>1. s' = WheelInsert(s, c, wait[c]) /\ at' = [at EXCEPT ![c] = "sleep2"] /\ s.cur = c
    BY <1>3 DEF SleepInsert, me
  <2>2. Passes(s, s')
    BY <1>1, <2>1, WheelInsertCalm, WheelInsertAside, AsideSettles, SettlesPasses
  <2> QED BY <2>1, <2>2, CurrentStep DEF Place
<1>4. CASE SleepSwitch(c)
  <2>1. s' = Schedule(s) /\ at' = [at EXCEPT ![c] = "task"] /\ s.cur = c
    BY <1>4 DEF SleepSwitch, Switch, me
  <2> QED BY <1>1, <2>1, SchedulePasses, CurrentStep DEF Place
<1>5. CASE task_wake_all(c)
  <2> DEFINE F == FoldLeft(Woken, s, [i \in 1 .. Slots |-> i - 1])
  <2>1. s' = F /\ at' = at /\ s.cur = c
    BY <1>5 DEF task_wake_all, Calls, me, FoldLeft, MapThenFoldSet
  <2>2. Calm(s, F)
    BY <1>1, WokenAllCalm DEF FoldLeft, MapThenFoldSet
  <2>3. Waiting(s) => Settles(s, F)
    BY <1>1, WokenAllSettles DEF FoldLeft, MapThenFoldSet
  <2> HIDE DEF F
  <2>4. Passes(s, s')
    BY <1>1, <2>1, <2>2, <2>3, SettlesPasses
  <2> QED BY <2>1, <2>4, CurrentStep DEF Place
<1>6. CASE task_exit(c)
  <2> DEFINE A == Set(s, c, "state", "zombie")
  <2>1. s' = A /\ at' = [at EXCEPT ![c] = "exit"] /\ s.cur = c
    BY <1>6 DEF task_exit, Calls, me
  <2>2. Calm(s, A) /\ A \in SchedState
    BY <1>1, SetField DEF Quiet
  <2>3. s.task[c].state # "blocked" => Aside(s, A)
    BY <1>1, <2>2, StateAside
  <2> HIDE DEF A
  <2>4. s.task[c].state # "blocked" => Passes(s, A)
    BY <1>1, <2>2, <2>3, AsideSettles, SettlesPasses
  <2>5. s.task[c].state = "blocked" => Passes(s, A)
    BY <2>1, <2>2, TaskNotNil DEF Passes, Awake, Calm
  <2> QED BY <2>1, <2>4, <2>5, CurrentStep DEF Place
<1>7. CASE ExitSwitch(c)
  <2>1. s' = Schedule(s) /\ at' = [at EXCEPT ![c] = "dead"] /\ s.cur = c
    BY <1>7 DEF ExitSwitch, Switch, me
  <2> QED BY <1>1, <2>1, SchedulePasses, CurrentStep DEF Place
<1>8. ASSUME NEW n \in Sleeps, task_sleep(c, n) PROVE WaitInv'
  <2>1. n \in Nat
    BY SchedulerAssumption
  <2>2. s' = SleepIn(s, c, n) /\ at' = [at EXCEPT ![c] = "sleep1"] /\ s.cur = c
    BY <1>8 DEF task_sleep, Calls, me
  <2> QED BY <1>1, <2>1, <2>2, SleepInPasses, CurrentStep DEF Place
<1>9. ASSUME NEW t \in Task, task_wake(c, t) PROVE WaitInv'
  <2>1. s' = Woken(s, t) /\ at' = at /\ s.cur = c
    BY <1>9 DEF task_wake, Calls, me
  <2>2. Passes(s, s')
    BY <1>1, <2>1, WokenCalm, WokenSettles, SettlesPasses
  <2> QED BY <2>1, <2>2, CurrentStep DEF Place
<1> QED BY <1>2, <1>3, <1>4, <1>5, <1>6, <1>7, <1>8, <1>9

\* WaitInv and the timer, the first schedule(), the reaper and new tasks.
LEMMA WaitKernelSteps ==
    ASSUME SchedInv, WaitInv,
           timer_callback \/ Start \/ reaper_entry \/ \E t \in Task, p \in UserPrio : Create(t, p)
    PROVE  WaitInv'
<1>1. s \in SchedState /\ at \in [Task -> Place]
  BY DEF SchedInv, WaitInv
<1>2. CASE timer_callback
  <2>1. s' = Quantum(WheelTick(s)) /\ at' = at
    BY <1>2 DEF timer_callback
  <2>2. Passes(s, WheelTick(s)) /\ WheelTick(s) \in SchedState
    BY <1>1, WheelTickCalm, WheelTickSettles, SettlesPasses
  <2>3. Passes(s, s')
    BY <2>1, <2>2, QuantumPasses, PassesTrans
  <2> QED BY <1>1, <2>1, <2>3, PassStep
<1>3. CASE Start
  <2>1. s' = Schedule(s) /\ at' = at
    BY <1>3 DEF Start, Switch
  <2> QED BY <1>1, <2>1, SchedulePasses, PassStep
<1>4. CASE reaper_entry
  <2>1. s' = SleepIn(Reaped(s), Reaper, ReapTicks) /\ at' = [at EXCEPT ![Reaper] = "sleep1"] /\ s.cur = Reaper
    BY <1>4 DEF reaper_entry, Calls, me
  <2>2. ReapTicks \in Nat /\ Reaper \in Task
    BY SchedulerAssumption DEF Reaper, Task
  <2>3. Passes(s, Reaped(s)) /\ Reaped(s) \in SchedState /\ Reaped(s).cur = Reaper
    BY <1>1, <2>1, ReapedCalm, ReapedSettles, SettlesPasses DEF Calm
  <2>4. Passes(s, s')
    BY <2>1, <2>2, <2>3, SleepInPasses, PassesTrans
  <2> QED BY <2>1, <2>2, <2>4, CurrentStep DEF Place
<1>5. ASSUME NEW t \in Task, NEW p \in UserPrio, Create(t, p) PROVE WaitInv'
  <2>1. p \in Prio
    BY SchedulerAssumption
  <2>2. s' = Created(s, t, p) /\ at' = [at EXCEPT ![t] = "task"] /\ s.task[t].state = "free"
    BY <1>5 DEF Create
  <2>3. Passes(s, s')
    BY <1>1, <2>1, <2>2, CreatedCalm, CreatedSettles, SettlesPasses
  <2>4. at' \in [Task -> Place] /\ \A u \in Task : s.task[u].state = "blocked" => at'[u] = at[u]
    BY <1>1, <2>2 DEF Place
  <2> QED BY <2>3, <2>4, PassStep
<1> QED BY <1>2, <1>3, <1>4, <1>5

\* A pass of mutex_lock: the task has the mutex, or boosts the owner and blocks.
LEMMA WaitMutexPass ==
    ASSUME SchedInv, WaitInv, NEW c \in Task, s.cur = c, NEW n \in Nat, MutexPass(c, n)
    PROVE  WaitInv'
<1>1. Good(s) /\ s \in SchedState
  BY InvGood DEF Good
<1>2. CASE ~mutex.locked
  <2>1. at' = [at EXCEPT ![c] = "task"] /\ s' = s
    BY <1>2 DEF MutexPass
  <2> QED BY <1>1, <2>1, SamePasses, CurrentStep DEF Place
<1>3. CASE mutex.locked
  <2> DEFINE p == s.task[c].prio
             o == mutex.owner
             S == IF s.task[o].prio < p THEN Boosted(s, o, p) ELSE s
  <2>1. s' = Schedule(Blocked(S, c, "mutex", n)) /\ at' = [at EXCEPT ![c] = "mutex"]
    BY <1>3 DEF MutexPass, Switch
  <2>2. p \in Prio /\ o \in Task
    BY <1>1, <1>3 DEF SchedInv, SchedState, TaskRec, MutexExclusive, MutexRec, TaskN
  <2>3. Calm(s, S) /\ Aside(s, S) /\ S \in SchedState
    <3> HIDE DEF o, p
    <3>1. /\ Calm(s, Boosted(s, o, p)) /\ Calm(s, s) /\ Boosted(s, o, p) \in SchedState
          /\ Aside(s, Boosted(s, o, p)) /\ Aside(s, s)
      BY <1>1, <2>2, BoostCalm, CalmRefl, BoostAside, AsideRefl
    <3> QED BY <1>1, <3>1
  <2> HIDE DEF S
  <2> QED BY <1>1, <2>1, <2>3, BlockStep DEF Queue
<1> QED BY <1>2, <1>3

\* A pass of sem_wait.
LEMMA WaitSemPass ==
    ASSUME SchedInv, WaitInv, NEW c \in Task, s.cur = c, NEW n \in Nat, SemPass(c, n)
    PROVE  WaitInv'
<1>1. Good(s) /\ s \in SchedState
  BY InvGood DEF Good
<1>2. CASE sem.units >= 1
  <2>1. s' = s /\ at' = [at EXCEPT ![c] = "task"]
    BY <1>2 DEF SemPass
  <2> QED BY <1>1, <2>1, SamePasses, CurrentStep DEF Place
<1>3. CASE ~(sem.units >= 1)
  <2>1. s' = Schedule(Blocked(s, c, "sem", n)) /\ at' = [at EXCEPT ![c] = "sem"]
    BY <1>3 DEF SemPass, Switch
  <2>2. Calm(s, s) /\ Aside(s, s)
    BY <1>1, CalmRefl, AsideRefl
  <2> QED BY <1>1, <2>1, <2>2, BlockStep DEF Queue
<1> QED BY <1>2, <1>3

\* Whoever finds the spinlock taken only moves in its own code.
LEMMA WaitSpin ==
    ASSUME SchedInv, WaitInv, NEW c \in Task, s.cur = c, Spin(c)
    PROVE  WaitInv'
<1>1. s \in SchedState /\ s' = s /\ at' = [at EXCEPT ![c] = "spin"]
  BY DEF SchedInv, Spin
<1> QED BY <1>1, SamePasses, CurrentStep DEF Place

\* WaitInv and the calls of mutex.c and semaphore.c.
LEMMA WaitLockSteps ==
    ASSUME SchedInv, WaitInv, NEW c \in Task, LockStep(c)
    PROVE  WaitInv'
<1>1. s \in SchedState /\ wait[c] \in Nat
  BY DEF SchedInv
<1>2. ASSUME NEW n \in Sleeps \cup {0}, mutex_lock(c, n) PROVE WaitInv'
  <2>1. n \in Nat /\ s.cur = c
    BY <1>2, SchedulerAssumption DEF mutex_lock, Asks, Calls, me
  <2>2. Spin(c) \/ MutexPass(c, n)
    BY <1>2 DEF mutex_lock
  <2> QED BY <2>1, <2>2, WaitSpin, WaitMutexPass
<1>3. ASSUME NEW n \in Sleeps \cup {0}, sem_wait(c, n) PROVE WaitInv'
  <2>1. n \in Nat /\ s.cur = c
    BY <1>3, SchedulerAssumption DEF sem_wait, Asks, Calls, me
  <2>2. Spin(c) \/ SemPass(c, n)
    BY <1>3 DEF sem_wait
  <2> QED BY <2>1, <2>2, WaitSpin, WaitSemPass
<1>4. CASE MutexReturn(c)
  <2>1. s.cur = c
    BY <1>4 DEF MutexReturn, me
  <2>2. CASE s.task[c].reason = "timeout"
    <3>1. s' = s /\ at' = [at EXCEPT ![c] = "task"]
      BY <1>4, <2>2 DEF MutexReturn
    <3> QED BY <1>1, <2>1, <3>1, SamePasses, CurrentStep DEF Place
  <2>3. CASE s.task[c].reason # "timeout"
    BY <1>1, <1>4, <2>1, <2>3, WaitMutexPass DEF MutexReturn
  <2> QED BY <2>2, <2>3
<1>5. CASE mutex_trylock(c)
  <2>1. s.cur = c /\ (Spin(c) \/ (s' = s /\ at' = at))
    BY <1>5 DEF mutex_trylock, Asks, Calls, me
  <2> QED BY <1>1, <2>1, WaitSpin, SamePasses, CurrentStep DEF Place
<1>6. CASE mutex_unlock(c)
  <2>0. s.cur = c
    BY <1>6 DEF mutex_unlock, Asks, Calls, me
  <2>1. CASE mutex.spin = 1
    BY <1>6, <2>0, <2>1, WaitSpin DEF mutex_unlock
  <2>2. CASE mutex.spin # 1
    <3> DEFINE U == IF s.task[c].prio # mutex.orig THEN Unboosted(s, c) ELSE s
    <3>1. s' = WakeOne(U, "mutex") /\ at' = at
      BY <1>6, <2>2 DEF mutex_unlock
    <3>2. Passes(s, U) /\ U \in SchedState
      <4>1. 0 \in Prio
        BY SchedulerAssumption DEF Prio
      <4>2. Calm(s, Unboosted(s, c)) /\ Aside(s, Unboosted(s, c)) /\ Unboosted(s, c) \in SchedState
        BY <1>1, <4>1, BoostCalm, BoostAside
      <4>3. Passes(s, Unboosted(s, c))
        BY <1>1, <4>2, AsideSettles, SettlesPasses
      <4> QED BY <1>1, <4>2, <4>3, SamePasses
    <3> HIDE DEF U
    <3>3. Passes(U, WakeOne(U, "mutex"))
      BY <3>2, WakeOneCalm, WakeOneSettles, SettlesPasses DEF Queue
    <3>4. Passes(s, s')
      BY <3>1, <3>2, <3>3, PassesTrans
    <3> QED BY <2>0, <3>1, <3>4, CurrentStep DEF Place
  <2> QED BY <2>1, <2>2
<1>7. CASE SemReturn(c)
  <2>1. s.cur = c
    BY <1>7 DEF SemReturn, me
  <2>2. CASE s.task[c].reason = "timeout"
    <3>1. s' = s /\ at' = [at EXCEPT ![c] = "task"]
      BY <1>7, <2>2 DEF SemReturn
    <3> QED BY <1>1, <2>1, <3>1, SamePasses, CurrentStep DEF Place
  <2>3. CASE s.task[c].reason # "timeout"
    BY <1>1, <1>7, <2>1, <2>3, WaitSemPass DEF SemReturn
  <2> QED BY <2>2, <2>3
<1>8. CASE sem_trywait(c)
  <2>1. s.cur = c /\ (Spin(c) \/ (s' = s /\ at' = at))
    BY <1>8 DEF sem_trywait, Asks, Calls, me
  <2> QED BY <1>1, <2>1, WaitSpin, SamePasses, CurrentStep DEF Place
<1>9. CASE sem_signal(c)
  <2>0. s.cur = c
    BY <1>9 DEF sem_signal, Asks, Calls, me
  <2>1. CASE sem.spin = 1
    BY <1>9, <2>0, <2>1, WaitSpin DEF sem_signal
  <2>2. CASE sem.spin # 1
    <3> DEFINE W == WakeAllOf(s, "sem")
    <3>1. s' = W /\ at' = at
      BY <1>9, <2>2 DEF sem_signal
    <3>2. Calm(s, W) /\ (Waiting(s) => Settles(s, W))
      BY <1>1, WakeAllOfCalm, WakeAllOfSettles
    <3> HIDE DEF W
    <3>3. Passes(s, s')
      BY <1>1, <3>1, <3>2, SettlesPasses
    <3> QED BY <2>0, <3>1, <3>3, CurrentStep DEF Place
  <2> QED BY <2>1, <2>2
<1> QED BY <1>2, <1>3, <1>4, <1>5, <1>6, <1>7, <1>8, <1>9 DEF LockStep

\* Every step keeps WaitInv.
LEMMA WaitNext == SchedInv /\ WaitInv /\ [Next]_vars => WaitInv'
<1> SUFFICES ASSUME SchedInv, WaitInv, [Next]_vars PROVE WaitInv'
  OBVIOUS
<1>1. CASE timer_callback \/ Start \/ reaper_entry \/ \E t \in Task, p \in UserPrio : Create(t, p)
  BY <1>1, WaitKernelSteps
<1>2. ASSUME NEW c \in Task, TaskStep(c) PROVE WaitInv'
  <2>1. CASE LockStep(c)
    BY <2>1, WaitLockSteps
  <2>2. CASE \/ task_yield(c) \/ SleepInsert(c) \/ SleepSwitch(c) \/ task_wake_all(c) \/ task_exit(c) \/ ExitSwitch(c)
             \/ \E n \in Sleeps : task_sleep(c, n)
             \/ \E t \in Task : task_wake(c, t)
    BY <2>2, WaitTaskSteps
  <2> QED BY <1>2, <2>1, <2>2 DEF TaskStep, LockStep
<1>3. CASE UNCHANGED vars
  <2>1. s' = s /\ at' = at /\ s \in SchedState
    BY <1>3 DEF vars, SchedInv
  <2> QED BY <2>1, SamePasses, PassStep DEF WaitInv
<1> QED BY <1>1, <1>2, <1>3 DEF Next

\* A queue without repetition is no longer than task_table.
LEMMA LaneShort ==
    ASSUME NEW w \in Seq(Task), \A i, j \in 1 .. Len(w) : w[i] = w[j] => i = j
    PROVE  Len(w) <= Slots
<1> DEFINE k == Len(w)
<1>1. k \in Nat /\ Slots \in Nat /\ w \in [1 .. k -> Task]
  BY SchedulerAssumption
<1>2. IsFiniteSet(1 .. k) /\ Cardinality(1 .. k) = k
  <2> HIDE DEF k
  <2>1. k \in Int /\ 1 \in Int
    BY <1>1
  <2>2. IsFiniteSet(1 .. k) /\ Cardinality(1 .. k) = IF 1 > k THEN 0 ELSE k - 1 + 1
    BY <2>1, FS_Interval
  <2> QED BY <1>1, <2>2
<1>3. IsFiniteSet(Task) /\ Cardinality(Task) = Slots
  <2>1. Slots - 1 \in Int /\ 0 \in Int /\ Slots > 2
    BY SchedulerAssumption
  <2>2. IsFiniteSet(Task) /\ Cardinality(Task) = IF 0 > Slots - 1 THEN 0 ELSE (Slots - 1) - 0 + 1
    BY <2>1, FS_Interval DEF Task
  <2> QED BY <1>1, <2>1, <2>2
<1>4. \A i, j \in 1 .. k : w[i] = w[j] => i = j
  OBVIOUS
<1> HIDE DEF k
<1>5. ~ (Slots < k)
  <2> SUFFICES ASSUME Slots < k PROVE FALSE
    OBVIOUS
  <2>1. Cardinality(Task) < Cardinality(1 .. k)
    BY <1>2, <1>3
  <2>2. \E x, y \in 1 .. k : x # y /\ w[x] = w[y]
    BY <1>1, <1>2, <1>3, <2>1, FS_PigeonHole
  <2> QED BY <1>4, <2>2
<1>6. k <= Slots
  BY <1>1, <1>5
<1> QED BY <1>6 DEF k

\* The first k + 1 tasks of a queue, and how following wnext adds the next one.
FirstOf(w, k) == {w[i] : i \in {j \in 1 .. Len(w) : j <= k + 1}}
After(S, X) == {S.task[t].wnext : t \in X} \ {Nil}
\* The walk of Waiters meets the tasks of the queue in order.
LEMMA FirstOfGrows ==
    ASSUME NEW S, NEW q, NEW w, Lane(S, q, w)
    PROVE  /\ FirstOf(w, 0) = {S.qhead[q]} \ {Nil}
           /\ \A k \in Nat \ {0} : FirstOf(w, k) = FirstOf(w, k - 1) \cup After(S, FirstOf(w, k - 1))
<1> DEFINE n == Len(w)
<1>1. /\ n \in Nat /\ \A i \in 1 .. n : w[i] \in Task /\ w[i] # Nil
      /\ S.qhead[q] = IF n = 0 THEN Nil ELSE w[1]
      /\ \A i \in 1 .. n : S.task[w[i]].wnext = IF i = n THEN Nil ELSE w[i + 1]
  <2>1. w \in Seq(Task)
    BY DEF Lane
  <2>2. n \in Nat /\ \A i \in 1 .. n : w[i] \in Task
    BY <2>1
  <2> QED BY <2>2, TaskNotNil DEF Lane
<1>2. \A k : FirstOf(w, k) = {w[i] : i \in {j \in 1 .. n : j <= k + 1}}
  BY DEF FirstOf
<1> HIDE DEF n
<1>3. FirstOf(w, 0) = {S.qhead[q]} \ {Nil}
  <2>1. {j \in 1 .. n : j <= 0 + 1} = IF n = 0 THEN {} ELSE {1}
    BY <1>1
  <2>2. CASE n = 0
    BY <1>1, <1>2, <2>1, <2>2
  <2>3. CASE n # 0
    <3>1. 1 \in 1 .. n
      BY <1>1, <2>3
    <3> QED BY <1>1, <1>2, <2>1, <2>3, <3>1
  <2> QED BY <2>2, <2>3
<1>4. ASSUME NEW k \in Nat \ {0}
      PROVE  FirstOf(w, k) = FirstOf(w, k - 1) \cup After(S, FirstOf(w, k - 1))
  <2>1. FirstOf(w, k - 1) = {w[i] : i \in {j \in 1 .. n : j <= k}}
    <3>1. \A j \in 1 .. n : j <= (k - 1) + 1 <=> j <= k
      BY <1>1
    <3> QED BY <1>2, <3>1
  <2>2. ASSUME NEW u \in FirstOf(w, k) PROVE u \in FirstOf(w, k - 1) \cup After(S, FirstOf(w, k - 1))
    <3>1. PICK i \in 1 .. n : i <= k + 1 /\ u = w[i]
      BY <1>2
    <3>2. CASE i <= k
      BY <2>1, <3>1, <3>2
    <3>3. CASE ~(i <= k)
      <4>1. i - 1 \in 1 .. n /\ i - 1 <= k /\ i - 1 # n /\ (i - 1) + 1 = i
        BY <1>1, <3>1, <3>3
      <4>2. S.task[w[i - 1]].wnext = w[i] /\ w[i] # Nil
        BY <1>1, <4>1
      <4>3. w[i - 1] \in FirstOf(w, k - 1)
        BY <2>1, <4>1
      <4> QED BY <3>1, <4>2, <4>3 DEF After
    <3> QED BY <3>2, <3>3
  <2>3. FirstOf(w, k - 1) \subseteq FirstOf(w, k)
    <3>1. \A j \in 1 .. n : j <= k => j <= k + 1
      BY <1>1
    <3> QED BY <1>2, <2>1, <3>1
  <2>4. ASSUME NEW u \in After(S, FirstOf(w, k - 1)) PROVE u \in FirstOf(w, k)
    <3>1. PICK t \in FirstOf(w, k - 1) : u = S.task[t].wnext
      BY DEF After
    <3>2. u # Nil
      BY DEF After
    <3>3. PICK i \in 1 .. n : i <= k /\ t = w[i]
      BY <2>1
    <3>4. i # n /\ u = w[i + 1]
      BY <1>1, <3>1, <3>2, <3>3
    <3>5. i + 1 \in 1 .. n /\ i + 1 <= k + 1
      BY <1>1, <3>3, <3>4
    <3> QED BY <1>2, <3>4, <3>5
  <2> QED BY <2>2, <2>3, <2>4
<1> QED BY <1>3, <1>4

\* Waiters walks the queue to its end.
LEMMA WaitersAre ==
    ASSUME NEW q \in Queue, NEW w, Lane(s, q, w)
    PROVE  Waiters(q) = {u \in Task : s.task[u].queue = q}
<1> DEFINE Eqn(f) == f = [k \in 0 .. Slots |->
                IF k = 0 THEN {s.qhead[q]} \ {Nil}
                ELSE f[k - 1] \cup ({s.task[t].wnext : t \in f[k - 1]} \ {Nil})]
           f == CHOOSE f : Eqn(f)
           d == [k \in 0 .. Slots |-> FirstOf(w, k)]
<1>1. Waiters(q) = f[Slots]
  BY DEF Waiters
<1>2. Slots \in Nat
  BY SchedulerAssumption
<1>3. /\ FirstOf(w, 0) = {s.qhead[q]} \ {Nil}
      /\ \A k \in Nat \ {0} : FirstOf(w, k) = FirstOf(w, k - 1) \cup ({s.task[t].wnext : t \in FirstOf(w, k - 1)} \ {Nil})
  BY FirstOfGrows DEF After
<1>4. Eqn(d)
  <2>1. ASSUME NEW k \in 0 .. Slots
        PROVE  d[k] = IF k = 0 THEN {s.qhead[q]} \ {Nil}
                      ELSE d[k - 1] \cup ({s.task[t].wnext : t \in d[k - 1]} \ {Nil})
    <3>1. CASE k = 0
      BY <1>3, <3>1
    <3>2. CASE k # 0
      <4>1. k \in Nat \ {0} /\ k - 1 \in 0 .. Slots
        BY <1>2, <3>2
      <4>2. d[k] = FirstOf(w, k) /\ d[k - 1] = FirstOf(w, k - 1)
        BY <4>1
      <4> HIDE DEF d
      <4> QED BY <1>3, <3>2, <4>1, <4>2
    <3> QED BY <3>1, <3>2
  <2> QED BY <2>1
<1>5. Eqn(f)
  <2> HIDE DEF Eqn
  <2> QED BY <1>4, Zenon
<1> HIDE DEF f
<1>6. f[0] = FirstOf(w, 0)
  BY <1>2, <1>3, <1>5
<1>7. ASSUME NEW k \in 1 .. Slots
      PROVE  f[k] = f[k - 1] \cup ({s.task[t].wnext : t \in f[k - 1]} \ {Nil})
  <2>1. k \in 0 .. Slots /\ k # 0
    BY <1>2
  <2> DEFINE b == [j \in 0 .. Slots |-> IF j = 0 THEN {s.qhead[q]} \ {Nil}
                    ELSE f[j - 1] \cup ({s.task[t].wnext : t \in f[j - 1]} \ {Nil})]
  <2>2. f[k] = b[k]
    <3>1. f = b
      BY <1>5
    <3> HIDE DEF b
    <3> QED BY <3>1
  <2>3. b[k] = IF k = 0 THEN {s.qhead[q]} \ {Nil}
               ELSE f[k - 1] \cup ({s.task[t].wnext : t \in f[k - 1]} \ {Nil})
    BY <2>1, Zenon
  <2> QED BY <2>1, <2>2, <2>3
<1> DEFINE P(k) == k <= Slots => f[k] = FirstOf(w, k)
           I == {k \in Nat : P(k)}
<1>8. P(0)
  BY <1>6
<1>9. ASSUME NEW k \in Nat, P(k) PROVE P(k + 1)
  <2> SUFFICES ASSUME k + 1 <= Slots PROVE f[k + 1] = FirstOf(w, k + 1)
    OBVIOUS
  <2>1. k + 1 \in 1 .. Slots /\ (k + 1) - 1 = k /\ k <= Slots /\ k + 1 \in Nat \ {0}
    BY <1>2
  <2>2. f[k + 1] = f[k] \cup ({s.task[t].wnext : t \in f[k]} \ {Nil})
    BY <1>7, <2>1
  <2>3. f[k] = FirstOf(w, k)
    BY <1>9, <2>1
  <2>4. FirstOf(w, k + 1) = FirstOf(w, k) \cup ({s.task[t].wnext : t \in FirstOf(w, k)} \ {Nil})
    BY <1>3, <2>1
  <2> QED BY <2>2, <2>3, <2>4
<1>10. f[Slots] = FirstOf(w, Slots)
  <2> HIDE DEF P
  <2>1. 0 \in I /\ \A k \in Nat : k \in I => k + 1 \in I
    BY <1>8, <1>9
  <2> HIDE DEF I
  <2>2. Slots \in I
    BY <1>2, <2>1, Exp!SetInduction
  <2>3. P(Slots)
    BY <2>2 DEF I
  <2> QED BY <1>2, <2>3 DEF P
<1>11. Len(w) <= Slots /\ w \in Seq(Task)
  BY LaneShort DEF Lane
<1>12. FirstOf(w, Slots) = {w[i] : i \in 1 .. Len(w)}
  <2>1. \A j \in 1 .. Len(w) : j <= Slots + 1
    <3> DEFINE m == Len(w)
    <3>1. m \in Nat /\ m <= Slots
      BY <1>11
    <3> HIDE DEF m
    <3>2. \A j \in 1 .. m : j <= Slots + 1
      BY <1>2, <3>1
    <3> QED BY <3>2 DEF m
  <2> QED BY <2>1 DEF FirstOf
<1>13. {w[i] : i \in 1 .. Len(w)} = {u \in Task : s.task[u].queue = q}
  <2>1. \A i \in 1 .. Len(w) : w[i] \in Task
    BY <1>11
  <2>2. \A u \in Task : s.task[u].queue = q <=> \E i \in 1 .. Len(w) : w[i] = u
    BY DEF Lane
  <2> QED BY <2>1, <2>2
<1> QED BY <1>1, <1>10, <1>12, <1>13

\* In a state of the invariant the queues hold exactly the blocked tasks.
LEMMA WaitMeans == WaitInv => WaitersBlocked
<1> SUFFICES ASSUME WaitInv, ~s.astray, NEW q \in Queue
             PROVE  Waiters(q) = {t \in Task : s.task[t].state = "blocked" /\ at[t] = q}
  BY DEF WaitersBlocked, Queue
<1>1. Waiting(s) /\ \A u \in Task : s.task[u].state = "blocked" => at[u] = s.task[u].queue
  BY DEF WaitInv, Awake
<1>2. \E w : Lane(s, q, w)
  BY <1>1 DEF Waiting, Lined
<1>3. Waiters(q) = {u \in Task : s.task[u].queue = q}
  BY <1>2, WaitersAre
<1>4. q # "none"
  BY DEF Queue
<1>5. \A u \in Task : s.task[u].queue = q <=> s.task[u].state = "blocked" /\ at[u] = q
  BY <1>1, <1>4 DEF Waiting
<1> QED BY <1>3, <1>5

\* The wait queues of mutex and semaphore hold exactly the tasks that are
\* blocked in that lock's call, as long as schedule() did not go astray: no
\* timeout, tick, wake-up or reaping loses a waiter or leaves one behind.
THEOREM WaitersBlockedHolds == Spec => []WaitersBlocked
<1>1. Init => SchedInv /\ WaitInv
  BY SchedInit, WaitInit
<1>2. SchedInv /\ WaitInv /\ [Next]_vars => (SchedInv /\ WaitInv)'
  BY SchedNext, WaitNext
<1> QED BY <1>1, <1>2, WaitMeans, PTL DEF Spec
=============================================================================
