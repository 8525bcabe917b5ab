----------------------------- MODULE FoldLemmas -----------------------------
(***************************************************************************)
(* What FoldLeft and a recursion over 0..n compute, for any operator op.   *)
(*                                                                         *)
(* The provers take no operator for a theorem's parameter, so the          *)
(* operator is a CONSTANT here: a proof about FoldLeft(Expire, ...) takes  *)
(* these facts with INSTANCE ... WITH op <- Expire.  Induction is over a   *)
(* set of numbers, from the fact that < is well founded on Nat.            *)
(***************************************************************************)
EXTENDS Integers, Sequences, SequencesExt, WellFoundedInduction, TLAPS

CONSTANT op(_, _)

\* Induction: a set with 0 in it and closed under +1 has every natural number.
\* Facts about the loops over task_table, relocation tables and queues rest on it.
LEMMA SetInduction ==
    ASSUME NEW T, 0 \in T, \A n \in Nat : n \in T => n + 1 \in T
    PROVE  Nat \subseteq T
<1> DEFINE B == Nat \ T
           R == OpToRel(<, Nat)
<1>1. SUFFICES ASSUME B # {} PROVE FALSE
  OBVIOUS
<1>2. IsWellFoundedOn(R, Nat)
  BY NatLessThanWellFounded
<1>3. PICK x \in B : \A y \in B : ~ (<<y, x>> \in R)
  <2> HIDE DEF R
  <2> QED BY <1>1, <1>2, WFMin
<1>4. x \in Nat /\ x # 0 /\ x - 1 \in Nat /\ x - 1 \in B
  <2> HIDE DEF R
  <2>1. x \in Nat /\ x \notin T
    OBVIOUS
  <2>2. x # 0
    BY <2>1
  <2>3. x - 1 \in Nat /\ (x - 1) + 1 = x
    BY <2>1, <2>2
  <2> QED BY <2>1, <2>2, <2>3
<1>5. <<x - 1, x>> \in R
  BY <1>4 DEF OpToRel
<1> QED BY <1>3, <1>4, <1>5

\* Max, by which FoldLeft picks the position to take next, is the largest element.
LEMMA MaxOf ==
    ASSUME NEW s, NEW m \in s, s \subseteq Int, \A y \in s : m >= y
    PROVE  Max(s) = m
<1>1. \A x \in s : (\A y \in s : x >= y) => x = m
  <2> SUFFICES ASSUME NEW x \in s, \A y \in s : x >= y PROVE x = m
    OBVIOUS
  <2>1. x >= m /\ m >= x /\ x \in Int /\ m \in Int
    OBVIOUS
  <2> QED BY <2>1
<1>2. \E x \in s : \A y \in s : x >= y
  OBVIOUS
<1> DEFINE x == CHOOSE x \in s : \A y \in s : x >= y
<1>3. x \in s /\ \A y \in s : x >= y
  BY <1>2, Zenon
<1>4. x = m
  <2> HIDE DEF x
  <2> QED BY <1>1, <1>3
<1> QED BY <1>4 DEF Max

\* c is the function that FoldLeft builds over sets of positions, with G for its step.
FoldEqn(c, b, n, G) ==
    \A s \in SUBSET (1 .. n) : c[s] = IF s = {} THEN b ELSE G[<<c[s \ {Max(s)}], Max(s)>>]

\* Such a function exists whenever the step stays inside V: one position at a time.
LEMMA FoldExists ==
    ASSUME NEW V, NEW b \in V, NEW n \in Nat, NEW G \in [V \X (1 .. n) -> V]
    PROVE  \E c \in [SUBSET (1 .. n) -> V] : FoldEqn(c, b, n, G)
<1> DEFINE OK(k, c) == \A s \in SUBSET (1 .. k) :
               c[s] = IF s = {} THEN b ELSE G[<<c[s \ {Max(s)}], Max(s)>>]
           Q(k) == \E c \in [SUBSET (1 .. k) -> V] :
                   /\ OK(k, c)
                   /\ \A s \in SUBSET (1 .. k) : s # {} => Max(s) \in s
           P(k) == k <= n => Q(k)
           T == {k \in Nat : P(k)}
<1>1. P(0)
  <2> DEFINE c == [s \in SUBSET (1 .. 0) |-> b]
  <2>1. SUBSET (1 .. 0) = {{}}
    OBVIOUS
  <2>2. c \in [SUBSET (1 .. 0) -> V] /\ OK(0, c)
    BY <2>1
  <2>3. \A s \in SUBSET (1 .. 0) : s # {} => Max(s) \in s
    BY <2>1
  <2> QED BY <2>2, <2>3
<1>2. ASSUME NEW k \in Nat, P(k) PROVE P(k + 1)
  <2>1. SUFFICES ASSUME k + 1 <= n
                 PROVE  \E c \in [SUBSET (1 .. k + 1) -> V] :
                            /\ OK(k + 1, c)
                            /\ \A s \in SUBSET (1 .. k + 1) : s # {} => Max(s) \in s
    OBVIOUS
  <2>2. PICK c \in [SUBSET (1 .. k) -> V] :
                   /\ OK(k, c)
                   /\ \A s \in SUBSET (1 .. k) : s # {} => Max(s) \in s
    <3>1. Q(k)
      <4> HIDE DEF Q
      <4> QED BY <1>2, <2>1
    <3> QED BY <3>1, Zenon
  <2> DEFINE d == [s \in SUBSET (1 .. k + 1) |->
                      IF k + 1 \in s THEN G[<<c[s \ {k + 1}], k + 1>>] ELSE c[s]]
  <2>3. k + 1 \in 1 .. n /\ 1 .. k \subseteq 1 .. k + 1
    BY <2>1
  <2>4. ASSUME NEW s \in SUBSET (1 .. k + 1), k + 1 \in s
        PROVE  Max(s) = k + 1 /\ s \ {k + 1} \in SUBSET (1 .. k)
    <3>1. s \subseteq Int /\ \A y \in s : k + 1 >= y
      OBVIOUS
    <3>2. Max(s) = k + 1
      BY <2>4, <3>1, MaxOf
    <3> QED BY <3>2
  <2>5. ASSUME NEW s \in SUBSET (1 .. k + 1), k + 1 \notin s
        PROVE  s \in SUBSET (1 .. k)
    BY <2>5
  <2>6. d \in [SUBSET (1 .. k + 1) -> V]
    BY <2>3, <2>4, <2>5
  <2>7. \A s \in SUBSET (1 .. k + 1) : s # {} => Max(s) \in s
    BY <2>2, <2>4, <2>5
  <2>8. ASSUME NEW s \in SUBSET (1 .. k + 1)
        PROVE  d[s] = IF s = {} THEN b ELSE G[<<d[s \ {Max(s)}], Max(s)>>]
    <3>1. CASE k + 1 \in s
      <4>1. d[s \ {k + 1}] = c[s \ {k + 1}]
        BY <2>4, <3>1
      <4> QED BY <2>4, <3>1, <4>1
    <3>2. CASE k + 1 \notin s /\ s = {}
      BY <2>2, <2>5, <3>2
    <3>3. CASE k + 1 \notin s /\ s # {}
      <4>1. s \in SUBSET (1 .. k) /\ d[s] = c[s]
        BY <2>5, <3>3
      <4>2. s \ {Max(s)} \in SUBSET (1 .. k + 1) /\ k + 1 \notin s \ {Max(s)}
        BY <3>3
      <4>3. d[s \ {Max(s)}] = c[s \ {Max(s)}]
        BY <4>2
      <4> QED BY <2>2, <4>1, <4>3, <3>3
    <3> QED BY <3>1, <3>2, <3>3
  <2> QED
    <3> HIDE DEF d
    <3> QED BY <2>6, <2>7, <2>8
<1>3. P(n)
  <2> HIDE DEF P
  <2>1. 0 \in T /\ \A k \in Nat : k \in T => k + 1 \in T
    BY <1>1, <1>2
  <2> HIDE DEF T
  <2>2. n \in T
    BY <2>1, SetInduction
  <2> QED BY <2>2 DEF T
<1>4. Q(n)
  <2> HIDE DEF Q
  <2> QED BY <1>3
<1> QED BY <1>4, Zenon DEF FoldEqn

\* Taking the last position from 1..k leaves 1..k - 1.
LEMMA MaxInterval ==
    ASSUME NEW k \in Nat, k > 0
    PROVE  Max(1 .. k) = k /\ (1 .. k) \ {Max(1 .. k)} = 1 .. k - 1 /\ 1 .. k # {}
<1>1. k \in 1 .. k /\ 1 .. k \subseteq Int /\ \A y \in 1 .. k : k >= y
  OBVIOUS
<1>2. Max(1 .. k) = k
  BY <1>1, MaxOf
<1>3. (1 .. k) \ {k} = 1 .. k - 1
  OBVIOUS
<1> QED BY <1>1, <1>2, <1>3

RecEqn(h, b, n, G) == h[0] = b /\ \A k \in 1 .. n : h[k] = G[<<h[k - 1], k>>]

\* A recursion over 0..n whose step stays inside V defines a function into V.
LEMMA RecExists ==
    ASSUME NEW V, NEW b \in V, NEW n \in Nat, NEW G \in [V \X (1 .. n) -> V]
    PROVE  \E h \in [0 .. n -> V] : RecEqn(h, b, n, G)
<1>1. PICK c \in [SUBSET (1 .. n) -> V] : FoldEqn(c, b, n, G)
  BY FoldExists
<1> DEFINE h == [k \in 0 .. n |-> c[1 .. k]]
<1>2. \A k \in 0 .. n : 1 .. k \in SUBSET (1 .. n)
  OBVIOUS
<1>3. h \in [0 .. n -> V]
  BY <1>2
<1>4. h[0] = b
  <2>1. 1 .. 0 = {} /\ 0 \in 0 .. n
    OBVIOUS
  <2> QED BY <1>1, <2>1, <1>2 DEF FoldEqn
<1>5. ASSUME NEW k \in 1 .. n PROVE h[k] = G[<<h[k - 1], k>>]
  <2>1. k \in Nat /\ k > 0 /\ k \in 0 .. n /\ k - 1 \in 0 .. n
    OBVIOUS
  <2>2. Max(1 .. k) = k /\ (1 .. k) \ {Max(1 .. k)} = 1 .. k - 1 /\ 1 .. k # {}
    BY <2>1, MaxInterval
  <2>3. c[1 .. k] = G[<<c[1 .. k - 1], k>>]
    BY <1>1, <1>2, <2>1, <2>2 DEF FoldEqn
  <2> QED BY <2>1, <2>3
<1> QED
  <2> HIDE DEF h
  <2> QED BY <1>3, <1>4, <1>5 DEF RecEqn

\* A nonempty set of positions has its maximum among them.
LEMMA MaxIn ==
    ASSUME NEW n \in Nat, NEW s \in SUBSET (1 .. n), s # {}
    PROVE  Max(s) \in s /\ Max(s) \in 1 .. n
<1> DEFINE P(k) == \A t \in SUBSET (1 .. k) : t # {} => Max(t) \in t
           T == {k \in Nat : P(k)}
<1>1. P(0)
  <2>1. 1 .. 0 = {}
    OBVIOUS
  <2> QED BY <2>1
<1>2. ASSUME NEW k \in Nat, P(k) PROVE P(k + 1)
  <2> SUFFICES ASSUME NEW t \in SUBSET (1 .. k + 1), t # {} PROVE Max(t) \in t
    OBVIOUS
  <2>1. CASE k + 1 \in t
    <3>1. t \subseteq Int /\ \A y \in t : k + 1 >= y
      OBVIOUS
    <3> QED BY <2>1, <3>1, MaxOf
  <2>2. CASE k + 1 \notin t
    <3>1. t \in SUBSET (1 .. k)
      BY <2>2
    <3> QED BY <1>2, <3>1
  <2> QED BY <2>1, <2>2
<1>3. P(n)
  <2> HIDE DEF P
  <2>1. 0 \in T /\ \A k \in Nat : k \in T => k + 1 \in T
    BY <1>1, <1>2
  <2> HIDE DEF T
  <2>2. n \in T
    BY <2>1, SetInduction
  <2> QED BY <2>2 DEF T
<1> QED BY <1>3


\* FoldLeft under a name of its own, which the provers can take as a term.
Folded(b, q) == FoldLeft(op, b, q)

\* FoldLeft goes through the sequence from left to right, and stays inside V
\* when op does: h[k] is the value after k elements.
LEMMA FoldLeftSteps ==
    ASSUME NEW V, NEW b \in V, NEW E, NEW q \in Seq(E), \A v \in V, e \in E : op(v, e) \in V
    PROVE  \E h \in [0 .. Len(q) -> V] :
               /\ h[0] = b /\ h[Len(q)] = Folded(b, q)
               /\ \A k \in 1 .. Len(q) : h[k] = op(h[k - 1], q[k])
<1> DEFINE n == Len(q)
           Eqn(c) == c = [s \in SUBSET DOMAIN q |-> IF s = {} THEN b ELSE op(c[s \ {Max(s)}], q[Max(s)])]
           c == CHOOSE c : Eqn(c)
           G == [x \in V \X (1 .. n) |-> op(x[1], q[x[2]])]
           h == [k \in 0 .. n |-> c[1 .. k]]
<1>1. Folded(b, q) = c[DOMAIN q]
  BY DEF Folded, FoldLeft, MapThenFoldSet
<1>2. n \in Nat /\ DOMAIN q = 1 .. n /\ \A i \in 1 .. n : q[i] \in E
  OBVIOUS
<1>3. G \in [V \X (1 .. n) -> V]
  BY <1>2
<1>4. PICK d \in [SUBSET (1 .. n) -> V] : FoldEqn(d, b, n, G)
  <2> HIDE DEF G, n
  <2> QED BY <1>2, <1>3, FoldExists
<1>5. Eqn(d)
  <2>1. ASSUME NEW s \in SUBSET (1 .. n), s # {}
        PROVE  d[s] = op(d[s \ {Max(s)}], q[Max(s)])
    <3> HIDE DEF n
    <3>1. Max(s) \in 1 .. n
      BY <1>2, <2>1, MaxIn
    <3>2. d[s \ {Max(s)}] \in V
      OBVIOUS
    <3>3. G[<<d[s \ {Max(s)}], Max(s)>>] = op(d[s \ {Max(s)}], q[Max(s)])
      BY <3>1, <3>2
    <3> QED BY <1>4, <2>1, <3>3 DEF FoldEqn
  <2>2. d[{}] = b
    BY <1>4 DEF FoldEqn
  <2> HIDE DEF n
  <2> QED BY <1>2, <2>1, <2>2
<1>6. Eqn(c)
  <2> HIDE DEF Eqn
  <2> QED BY <1>5, Zenon
<1> HIDE DEF c, n
<1>7. c[{}] = b
  BY <1>6
<1>8. ASSUME NEW s \in SUBSET (1 .. n), s # {} PROVE c[s] = op(c[s \ {Max(s)}], q[Max(s)])
  BY <1>2, <1>6, <1>8
<1>9. \A k \in 1 .. n : h[k] = op(h[k - 1], q[k])
  <2> SUFFICES ASSUME NEW k \in 1 .. n PROVE c[1 .. k] = op(c[1 .. k - 1], q[k])
    BY <1>2
  <2>1. k \in Nat /\ k > 0 /\ 1 .. k \in SUBSET (1 .. n)
    BY <1>2
  <2> QED BY <2>1, <1>8, MaxInterval
<1>10. h[0] = b
  <2>1. 1 .. 0 = {} /\ 0 \in 0 .. n
    BY <1>2
  <2> QED BY <2>1, <1>7
<1>11. \A k \in 0 .. n : h[k] \in V
  <2> DEFINE P(k) == k <= n => h[k] \in V
             T == {k \in Nat : P(k)}
  <2>1. P(0)
    BY <1>10
  <2>2. ASSUME NEW k \in Nat, P(k) PROVE P(k + 1)
    <3> HIDE DEF h
    <3> SUFFICES ASSUME k + 1 <= n PROVE h[k + 1] \in V
      OBVIOUS
    <3>1. k + 1 \in 1 .. n /\ k <= n /\ (k + 1) - 1 = k
      BY <1>2
    <3> QED BY <1>2, <1>9, <2>2, <3>1
  <2>3. ASSUME NEW k \in 0 .. n PROVE h[k] \in V
    <3>1. k \in Nat /\ k <= n
      BY <1>2
    <3>2. P(k)
      <4> HIDE DEF P
      <4>1. 0 \in T /\ \A i \in Nat : i \in T => i + 1 \in T
        BY <2>1, <2>2
      <4> HIDE DEF T
      <4>2. k \in T
        BY <4>1, <3>1, SetInduction
      <4> QED BY <4>2 DEF T
    <3> QED BY <3>1, <3>2
  <2> QED BY <2>3
<1>12. h \in [0 .. n -> V] /\ h[n] = Folded(b, q)
  <2>1. n \in 0 .. n
    BY <1>2
  <2> QED BY <1>1, <1>2, <1>11, <2>1
<1> QED
  <2> HIDE DEF h
  <2> QED BY <1>9, <1>10, <1>12 DEF n

\* h is the loop of FoldLeft, step by step, and Closed says that no step leaves V.
FoldRun(h, b, q) ==
    /\ h[0] = b /\ h[Len(q)] = Folded(b, q)
    /\ \A k \in 1 .. Len(q) : h[k] = op(h[k - 1], q[k])
Closed(V, E) == \A v \in V, e \in E : op(v, e) \in V

\* FoldLeftSteps with its parts under names, for an op that is a LAMBDA.
LEMMA FoldRuns ==
    ASSUME NEW V, NEW b \in V, NEW E, NEW q \in Seq(E), Closed(V, E)
    PROVE  \E h \in [0 .. Len(q) -> V] : FoldRun(h, b, q)
<1>1. \A v \in V, e \in E : op(v, e) \in V
  BY DEF Closed
<1> QED BY <1>1, FoldLeftSteps DEF FoldRun

\* The result of a loop is in V when it starts there and no step leaves V.
LEMMA FoldLeftIn ==
    ASSUME NEW V, NEW b \in V, NEW E, NEW q \in Seq(E), \A v \in V, e \in E : op(v, e) \in V
    PROVE  Folded(b, q) \in V
<1>1. Len(q) \in 0 .. Len(q)
  OBVIOUS
<1> QED BY <1>1, FoldLeftSteps

\* The sum of f over the elements of q, as a fold.
SumOver(f, q) == FoldLeft(LAMBDA a, e : a + f[e], 0, q)

\* h[k] is the sum over the first k elements of q.
PartialSums(h, f, q) ==
    /\ h[0] = 0 /\ h[Len(q)] = SumOver(f, q)
    /\ \A k \in 1 .. Len(q) : h[k] = h[k - 1] + f[q[k]]

\* The sum goes through the sequence from left to right: h[k] is the sum of
\* the first k elements.
LEMMA SumSteps ==
    ASSUME NEW E, NEW q \in Seq(E), NEW f \in [E -> Int]
    PROVE  \E h \in [0 .. Len(q) -> Int] : PartialSums(h, f, q)
<1> DEFINE n == Len(q)
           Eqn(c) == c = [s \in SUBSET DOMAIN q |-> IF s = {} THEN 0 ELSE c[s \ {Max(s)}] + f[q[Max(s)]]]
           c == CHOOSE c : Eqn(c)
           V == Int
           b == 0
           G == [x \in V \X (1 .. n) |-> x[1] + f[q[x[2]]]]
           h == [k \in 0 .. n |-> c[1 .. k]]
<1>1. SumOver(f, q) = c[DOMAIN q]
  BY DEF SumOver, FoldLeft, MapThenFoldSet
<1>2. n \in Nat /\ DOMAIN q = 1 .. n /\ \A i \in 1 .. n : f[q[i]] \in Int
  OBVIOUS
<1>3. G \in [V \X (1 .. n) -> V] /\ b \in V
  BY <1>2
<1>4. PICK d \in [SUBSET (1 .. n) -> V] : FoldEqn(d, b, n, G)
  <2> HIDE DEF G, n, V, b
  <2> QED BY <1>2, <1>3, FoldExists
<1>5. Eqn(d)
  <2>1. ASSUME NEW s \in SUBSET (1 .. n), s # {}
        PROVE  d[s] = d[s \ {Max(s)}] + f[q[Max(s)]]
    <3> HIDE DEF n
    <3>1. Max(s) \in 1 .. n
      BY <1>2, <2>1, MaxIn
    <3>2. d[s \ {Max(s)}] \in Int
      OBVIOUS
    <3>3. G[<<d[s \ {Max(s)}], Max(s)>>] = d[s \ {Max(s)}] + f[q[Max(s)]]
      BY <3>1, <3>2
    <3> QED BY <1>4, <2>1, <3>3 DEF FoldEqn
  <2>2. d[{}] = 0
    BY <1>4 DEF FoldEqn
  <2> HIDE DEF n
  <2> QED BY <1>2, <2>1, <2>2
<1>6. Eqn(c)
  <2> HIDE DEF Eqn
  <2> QED BY <1>5, Zenon
<1> HIDE DEF c, n
<1>7. c[{}] = 0
  BY <1>6
<1>8. ASSUME NEW s \in SUBSET (1 .. n), s # {} PROVE c[s] = c[s \ {Max(s)}] + f[q[Max(s)]]
  BY <1>2, <1>6, <1>8
<1>9. \A k \in 1 .. n : h[k] = h[k - 1] + f[q[k]]
  <2> SUFFICES ASSUME NEW k \in 1 .. n PROVE c[1 .. k] = c[1 .. k - 1] + f[q[k]]
    BY <1>2
  <2>1. k \in Nat /\ k > 0 /\ 1 .. k \in SUBSET (1 .. n)
    BY <1>2
  <2> QED BY <2>1, <1>8, MaxInterval
<1>10. h[0] = 0
  <2>1. 1 .. 0 = {} /\ 0 \in 0 .. n
    BY <1>2
  <2> QED BY <2>1, <1>7
<1>11. \A k \in 0 .. n : h[k] \in Int
  <2> DEFINE P(k) == k <= n => h[k] \in Int
             T == {k \in Nat : P(k)}
  <2>1. P(0)
    BY <1>10
  <2>2. ASSUME NEW k \in Nat, P(k) PROVE P(k + 1)
    <3> HIDE DEF h
    <3> SUFFICES ASSUME k + 1 <= n PROVE h[k + 1] \in Int
      OBVIOUS
    <3>1. k + 1 \in 1 .. n /\ k <= n /\ (k + 1) - 1 = k
      BY <1>2
    <3> QED BY <1>2, <1>9, <2>2, <3>1
  <2>3. ASSUME NEW k \in 0 .. n PROVE h[k] \in Int
    <3>1. k \in Nat /\ k <= n
      BY <1>2
    <3>2. P(k)
      <4> HIDE DEF P
      <4>1. 0 \in T /\ \A i \in Nat : i \in T => i + 1 \in T
        BY <2>1, <2>2
      <4> HIDE DEF T
      <4>2. k \in T
        BY <4>1, <3>1, SetInduction
      <4> QED BY <4>2 DEF T
    <3> QED BY <3>1, <3>2
  <2> QED BY <2>3
<1>12. h \in [0 .. n -> Int] /\ h[n] = SumOver(f, q)
  <2>1. n \in 0 .. n
    BY <1>2
  <2> QED BY <1>1, <1>2, <1>11, <2>1
<1> QED
  <2> HIDE DEF h
  <2> QED BY <1>9, <1>10, <1>12 DEF n, PartialSums

\* q lists every number below n once.
UpTo(n) == [i \in 1 .. n |-> i - 1]

\* Changing f at one point changes the sum by the difference.
LEMMA SumChange ==
    ASSUME NEW n \in Nat, NEW f \in [0 .. n - 1 -> Int], NEW g \in [0 .. n - 1 -> Int],
           NEW c \in 0 .. n - 1, \A i \in 0 .. n - 1 : i # c => g[i] = f[i]
    PROVE  SumOver(g, UpTo(n)) = SumOver(f, UpTo(n)) + (g[c] - f[c])
<1> DEFINE q == UpTo(n)
           E == 0 .. n - 1
<1>1. q \in Seq(E) /\ Len(q) = n /\ \A k \in 1 .. n : q[k] = k - 1
  BY DEF UpTo
<1> HIDE DEF q
<1>2. PICK h \in [0 .. n -> Int] : PartialSums(h, f, q)
  <2> HIDE DEF E
  <2>1. f \in [E -> Int]
    BY DEF E
  <2>2. \E d \in [0 .. Len(q) -> Int] : PartialSums(d, f, q)
    BY <1>1, <2>1, SumSteps
  <2> QED BY <1>1, <2>2
<1>3. PICK j \in [0 .. n -> Int] : PartialSums(j, g, q)
  <2> HIDE DEF E
  <2>1. g \in [E -> Int]
    BY DEF E
  <2>2. \E d \in [0 .. Len(q) -> Int] : PartialSums(d, g, q)
    BY <1>1, <2>1, SumSteps
  <2> QED BY <1>1, <2>2
<1>7. h[0] = 0 /\ h[n] = SumOver(f, q) /\ \A k \in 1 .. n : h[k] = h[k - 1] + f[q[k]]
  BY <1>1, <1>2 DEF PartialSums
<1>8. j[0] = 0 /\ j[n] = SumOver(g, q) /\ \A k \in 1 .. n : j[k] = j[k - 1] + g[q[k]]
  BY <1>1, <1>3 DEF PartialSums
<1> DEFINE P(k) == k <= n => j[k] = h[k] + (IF k > c THEN g[c] - f[c] ELSE 0)
           T == {k \in Nat : P(k)}
<1>4. P(0)
  BY <1>7, <1>8
<1>5. ASSUME NEW k \in Nat, P(k) PROVE P(k + 1)
  <2> SUFFICES ASSUME k + 1 <= n PROVE j[k + 1] = h[k + 1] + (IF k + 1 > c THEN g[c] - f[c] ELSE 0)
    OBVIOUS
  <2>1. k + 1 \in 1 .. n /\ (k + 1) - 1 = k /\ k \in 0 .. n - 1 /\ k \in 0 .. n /\ q[k + 1] = k
    BY <1>1
  <2>2. h[k + 1] = h[k] + f[k] /\ j[k + 1] = j[k] + g[k]
    BY <1>7, <1>8, <2>1
  <2>3. j[k] = h[k] + (IF k > c THEN g[c] - f[c] ELSE 0)
    BY <1>5, <2>1
  <2>4. h[k] \in Int /\ j[k] \in Int /\ f[k] \in Int /\ g[k] \in Int /\ f[c] \in Int /\ g[c] \in Int
    BY <2>1
  <2>5. CASE k = c
    BY <2>2, <2>3, <2>4, <2>5
  <2>6. CASE k # c
    <3>1. g[k] = f[k]
      BY <2>1, <2>6
    <3>2. CASE k > c
      <4>1. k + 1 > c
        BY <3>2
      <4>2. j[k] = h[k] + (g[c] - f[c])
        BY <2>3, <3>2
      <4>3. j[k + 1] = h[k + 1] + (g[c] - f[c])
        <5> DEFINE d == g[c] - f[c]
        <5>1. d \in Int /\ j[k] = h[k] + d
          BY <2>4, <4>2
        <5> HIDE DEF d
        <5>2. j[k + 1] = j[k] + f[k]
          BY <2>2, <3>1
        <5>3. j[k + 1] = h[k + 1] + d
          BY <2>2, <2>4, <5>1, <5>2
        <5> QED BY <5>3 DEF d
      <4> QED BY <4>1, <4>3
    <3>3. CASE ~(k > c)
      <4>1. ~(k + 1 > c)
        BY <2>6, <3>3
      <4> QED BY <2>2, <2>3, <2>4, <3>1, <3>3, <4>1
    <3> QED BY <3>2, <3>3
  <2> QED BY <2>5, <2>6
<1>6. P(n)
  <2> HIDE DEF P
  <2>1. 0 \in T /\ \A k \in Nat : k \in T => k + 1 \in T
    BY <1>4, <1>5
  <2> HIDE DEF T
  <2>2. n \in T
    BY <2>1, SetInduction
  <2> QED BY <2>2 DEF T
<1> QED BY <1>6, <1>7, <1>8 DEF q

\* A sum of natural numbers is at least each of them.
LEMMA SumAtLeast ==
    ASSUME NEW n \in Nat, NEW f \in [0 .. n - 1 -> Nat], NEW c \in 0 .. n - 1
    PROVE  SumOver(f, UpTo(n)) \in Nat /\ SumOver(f, UpTo(n)) >= f[c]
<1> DEFINE q == UpTo(n)
           E == 0 .. n - 1
<1>1. q \in Seq(E) /\ Len(q) = n /\ \A k \in 1 .. n : q[k] = k - 1
  BY DEF UpTo
<1> HIDE DEF q
<1>2. PICK h \in [0 .. n -> Int] : PartialSums(h, f, q)
  <2> HIDE DEF E
  <2>1. f \in [E -> Int]
    BY DEF E
  <2>2. \E h \in [0 .. Len(q) -> Int] : PartialSums(h, f, q)
    BY <1>1, <2>1, SumSteps
  <2> QED BY <1>1, <2>2
<1>7. h[0] = 0 /\ h[n] = SumOver(f, q) /\ \A k \in 1 .. n : h[k] = h[k - 1] + f[q[k]]
  BY <1>1, <1>2 DEF PartialSums
<1> DEFINE P(k) == k <= n => h[k] \in Nat /\ (k > c => h[k] >= f[c])
           T == {k \in Nat : P(k)}
<1>4. P(0)
  BY <1>7
<1>5. ASSUME NEW k \in Nat, P(k) PROVE P(k + 1)
  <2> SUFFICES ASSUME k + 1 <= n PROVE h[k + 1] \in Nat /\ (k + 1 > c => h[k + 1] >= f[c])
    OBVIOUS
  <2>1. k + 1 \in 1 .. n /\ (k + 1) - 1 = k /\ k \in 0 .. n - 1 /\ k \in 0 .. n /\ q[k + 1] = k
    BY <1>1
  <2>2. h[k + 1] = h[k] + f[k]
    BY <1>7, <2>1
  <2>3. h[k] \in Nat /\ (k > c => h[k] >= f[c])
    BY <1>5, <2>1
  <2>4. f[k] \in Nat /\ f[c] \in Nat
    BY <2>1
  <2>5. CASE k = c
    BY <2>2, <2>3, <2>4, <2>5
  <2>6. CASE k # c
    <3>2. k + 1 > c <=> k > c
      BY <2>6
    <3> QED BY <2>2, <2>3, <2>4, <3>2
  <2> QED BY <2>5, <2>6
<1>6. P(n)
  <2> HIDE DEF P
  <2>1. 0 \in T /\ \A k \in Nat : k \in T => k + 1 \in T
    BY <1>4, <1>5
  <2> HIDE DEF T
  <2>2. n \in T
    BY <2>1, SetInduction
  <2> QED BY <2>2 DEF T
<1> QED BY <1>6, <1>7 DEF q

\* The last round of a loop is taken from where the rounds before it led.
LEMMA FoldLeftLast ==
    ASSUME NEW V, NEW b \in V, NEW E, NEW q \in Seq(E), q # <<>>,
           \A v \in V, e \in E : op(v, e) \in V
    PROVE  Folded(b, q) = op(Folded(b, Front(q)), Last(q))
<1> DEFINE n == Len(q)
           p == Front(q)
<1>1. n \in Nat /\ n >= 1 /\ Last(q) = q[n]
  BY DEF Last
<1>2. p \in Seq(E) /\ Len(p) = n - 1 /\ \A k \in 1 .. n - 1 : p[k] = q[k]
  <2> DEFINE j == n - 1
  <2>1. j \in Nat /\ j <= Len(q)
    BY <1>1
  <2>2. p = SubSeq(q, 1, j)
    BY DEF Front
  <2> HIDE DEF j, p
  <2>3. SubSeq(q, 1, j) \in Seq(E) /\ Len(SubSeq(q, 1, j)) = j /\ \A k \in 1 .. j : SubSeq(q, 1, j)[k] = q[k]
    BY <2>1
  <2> QED BY <2>2, <2>3 DEF j
<1>3. PICK h \in [0 .. n -> V] :
         h[0] = b /\ h[n] = Folded(b, q) /\ \A k \in 1 .. n : h[k] = op(h[k - 1], q[k])
  BY FoldLeftSteps
<1> HIDE DEF p
<1>4. \E g \in [0 .. Len(p) -> V] :
         g[0] = b /\ g[Len(p)] = Folded(b, p) /\ \A k \in 1 .. Len(p) : g[k] = op(g[k - 1], p[k])
  <2>1. p \in Seq(E) /\ Closed(V, E)
    BY <1>2 DEF Closed
  <2>2. \E g \in [0 .. Len(p) -> V] : FoldRun(g, b, p)
    BY <2>1, FoldRuns
  <2> QED BY <2>2 DEF FoldRun
<1> HIDE DEF n
<1>5. PICK g : g[0] = b /\ g[n - 1] = Folded(b, p) /\ \A k \in 1 .. n - 1 : g[k] = op(g[k - 1], p[k])
  BY <1>2, <1>4
<1> DEFINE S == {k \in Nat : k <= n - 1 => g[k] = h[k]}
<1>6. 0 \in S /\ \A k \in Nat : k \in S => k + 1 \in S
  <2>1. 0 \in S
    BY <1>3, <1>5
  <2>2. ASSUME NEW k \in Nat, k \in S, k + 1 <= n - 1 PROVE g[k + 1] = h[k + 1]
    <3>1. k + 1 \in 1 .. n - 1 /\ k + 1 \in 1 .. n /\ (k + 1) - 1 = k /\ k <= n - 1
      BY <1>1, <2>2
    <3>2. g[k] = h[k] /\ p[k + 1] = q[k + 1]
      BY <1>2, <2>2, <3>1
    <3> QED BY <1>3, <1>5, <3>1, <3>2
  <2> QED BY <2>1, <2>2
<1> HIDE DEF S
<1>7. n - 1 \in S
  BY <1>1, <1>6, SetInduction
<1>8. g[n - 1] = h[n - 1]
  BY <1>1, <1>7 DEF S
<1>9. h[n] = op(h[n - 1], q[n])
  BY <1>1, <1>3
<1> QED BY <1>1, <1>3, <1>5, <1>8, <1>9 DEF p
=============================================================================
