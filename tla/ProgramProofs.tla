---------------------------- MODULE ProgramProofs ----------------------------
(***************************************************************************)
(* Proofs about what the kernel gives its programs: Heap, for every size   *)
(* of header, page, arena and request and any number of clients; the       *)
(* window handles, the loader of AMX executables and the screen, for every *)
(* number of slots, file, mode and device considered.  They share no       *)
(* state, and each has its inductive invariant and its own theorems.       *)
(*                                                                         *)
(* The first part is about a list f of headers that tiles the arena up to  *)
(* k: what splitting, merging, flagging and extending it preserve.  The    *)
(* second lifts this to the calls of the heap.                             *)
(***************************************************************************)
EXTENDS Integers, Heap, Exec, Windows, Svga, FiniteSetTheorems, SequenceTheorems, TLAPS


HeaderType == [size : Nat \ {0}, next : Nat \cup {NoBlock}, free : BOOLEAN]

\* A well-formed list that tiles the arena up to k.
ListOK(f, k) ==
    /\ DOMAIN f \subseteq Nat
    /\ f \in [DOMAIN f -> HeaderType]
    /\ TiledList(f, k)

InUse(f) == {a \in DOMAIN f : ~f[a].free}

-----------------------------------------------------------------------------
(***************************************************************************)
(* Lists.                                                                  *)
(***************************************************************************)

LEMMA Consts == H \in Nat \ {0} /\ Page \in Nat \ {0} /\ MaxReq \in Nat /\ Arena \in Nat
  BY HeapAssumption

\* What a block knows of its successor.
LEMMA NextFacts ==
    ASSUME NEW f, NEW k \in Nat, ListOK(f, k), NEW a \in DOMAIN f, f[a].next # NoBlock
    PROVE  /\ f[a].next \in DOMAIN f
           /\ f[a].next = a + H + f[a].size
           /\ f[a].next > a
           /\ f[a].next \in Nat
<1>1. a \in Nat /\ f[a].size \in Nat \ {0}
  BY DEF ListOK, HeaderType
<1>2. f[a].next = Behind(f, a) /\ Behind(f, a) \in DOMAIN f
  BY DEF ListOK, TiledList
<1>3. QED
  BY <1>1, <1>2, Consts DEF Behind

\* Two blocks with the same successor are one.
LEMMA OnePrev ==
    ASSUME NEW f, NEW k \in Nat, ListOK(f, k), NEW a \in DOMAIN f, NEW b \in DOMAIN f,
           f[a].next = f[b].next, f[a].next # NoBlock
    PROVE  a = b
<1>1. a \in Nat /\ b \in Nat /\ f[a].size \in Nat \ {0} /\ f[b].size \in Nat \ {0}
  BY DEF ListOK, HeaderType
<1>2. a + H + f[a].size = b + H + f[b].size
  BY NextFacts
<1>3. (a < b => a + H + f[a].size <= b) /\ (b < a => b + H + f[b].size <= a)
  BY DEF ListOK, TiledList, Behind
<1>4. QED
  BY <1>1, <1>2, <1>3, Consts

Absorbed(f, a, b, g) ==
    /\ \A v : v \in DOMAIN g <=> v \in DOMAIN f /\ v # b
    /\ \A x \in DOMAIN f \ {a, b} : g[x] = f[x]
    /\ g[a].size = f[a].size + H + f[b].size
    /\ g[a].next = f[b].next /\ g[a].free = f[a].free

\* A block that takes over its successor leaves a list that tiles the same
\* part of the arena.
LEMMA AbsorbFacts ==
    ASSUME NEW f, NEW k \in Nat, ListOK(f, k), NEW a \in DOMAIN f,
           NEW b, b = f[a].next, b # NoBlock, NEW g, g = Absorb(f, a)
    PROVE  ListOK(g, k) /\ Absorbed(f, a, b, g)
<1>1. b \in DOMAIN f /\ b = a + H + f[a].size /\ b > a /\ b \in Nat
  BY NextFacts
<1>2. (\A v : v \in DOMAIN g <=> v \in DOMAIN f /\ v # b)
  BY <1>1 DEF Absorb, Without, Replace
<1>3. \A x \in DOMAIN f \ {a, b} : g[x] = f[x]
  BY <1>1 DEF Absorb, Without, Replace
<1>4. g[a] = Header(f[a].size + H + f[b].size, f[b].next, f[a].free)
  <2>1. PICK h : h = Header(f[a].size + H + f[b].size, f[b].next, f[a].free)
    OBVIOUS
  <2>2. g = Without(Replace(f, a, h), b)
    BY <2>1 DEF Absorb
  <2>3. g[a] = h
    BY <1>1, <2>2 DEF Without, Replace
  <2>4. QED
    BY <2>1, <2>3
<1>5. \A x \in DOMAIN f : /\ x \in Nat /\ f[x].size \in Nat \ {0}
                          /\ f[x].next \in Nat \cup {NoBlock} /\ f[x].free \in BOOLEAN
  BY DEF ListOK, HeaderType
<1>6. g \in [DOMAIN g -> HeaderType] /\ DOMAIN g \subseteq Nat
  <2>1. g = [x \in DOMAIN g |-> g[x]]
    BY DEF Absorb, Without
  <2>2. \A x \in DOMAIN g : g[x] \in HeaderType
    <3>1. TAKE x \in DOMAIN g
    <3>2. CASE x = a
      BY <1>1, <1>4, <1>5, <3>2, Consts DEF Header, HeaderType
    <3>3. CASE x # a
      BY <1>2, <1>3, <3>3 DEF ListOK
    <3>4. QED
      BY <3>2, <3>3
  <2>3. QED
    BY <1>2, <1>5, <2>1, <2>2
<1>7. \A x \in DOMAIN g : x # a => Behind(g, x) = Behind(f, x)
  BY <1>2, <1>3 DEF Behind
<1>8. Behind(g, a) = Behind(f, b) /\ g[a].next = f[b].next
  BY <1>1, <1>4, <1>5, Consts DEF Behind, Header
<1>9. TiledList(g, k)
  <2>1. 0 \in DOMAIN g
    BY <1>1, <1>2, <1>5, Consts DEF ListOK, TiledList
  <2>2. ASSUME NEW x \in DOMAIN g
        PROVE  /\ Behind(g, x) <= k
               /\ \/ g[x].next = NoBlock /\ Behind(g, x) = k
                  \/ g[x].next = Behind(g, x) /\ Behind(g, x) \in DOMAIN g
    <3>1. CASE x = a
      <4>1. f[b].next # b
        BY <1>1, NextFacts DEF NoBlock
      <4>2. QED
        BY <1>1, <1>2, <1>8, <3>1, <4>1 DEF ListOK, TiledList
    <3>2. CASE x # a
      <4>1. f[x].next # b
        BY <1>1, <1>2, <3>2, OnePrev
      <4>2. QED
        BY <1>2, <1>3, <1>7, <3>2, <4>1 DEF ListOK, TiledList
    <3>3. QED
      BY <3>1, <3>2
  <2>3. ASSUME NEW x \in DOMAIN g, NEW y \in DOMAIN g, x < y
        PROVE  Behind(g, x) <= y
    <3>1. CASE x = a
      <4>1. Behind(f, a) <= y /\ Behind(f, a) = b
        BY <1>1, <1>2, <2>3, <3>1 DEF ListOK, TiledList, Behind
      <4>2. b < y
        BY <1>1, <1>2, <1>5, <4>1
      <4>3. QED
        BY <1>1, <1>2, <1>8, <3>1, <4>2 DEF ListOK, TiledList
    <3>2. CASE x # a
      BY <1>2, <1>7, <2>3, <3>2 DEF ListOK, TiledList
    <3>3. QED
      BY <3>1, <3>2
  <2>4. QED
    BY <2>1, <2>2, <2>3 DEF TiledList
<1>10. QED
  BY <1>2, <1>3, <1>4, <1>6, <1>9 DEF ListOK, Absorbed, Header

Flagged(f, a, b, g) ==
    /\ DOMAIN g = DOMAIN f
    /\ \A x \in DOMAIN f \ {a} : g[x] = f[x]
    /\ g[a].size = f[a].size /\ g[a].next = f[a].next /\ g[a].free = b

\* Marking a block free or in use changes nothing else.
LEMMA FlagFacts ==
    ASSUME NEW f, NEW k \in Nat, ListOK(f, k), NEW a \in DOMAIN f, NEW b \in BOOLEAN,
           NEW g, g = Flag(f, a, b)
    PROVE  ListOK(g, k) /\ Flagged(f, a, b, g)
<1>1. PICK h : h = Header(f[a].size, f[a].next, b)
  OBVIOUS
<1>3. g = [x \in DOMAIN f |-> IF x = a THEN h ELSE f[x]]
  BY <1>1 DEF Flag, Replace
<1>4. h \in HeaderType /\ h.size = f[a].size /\ h.next = f[a].next /\ h.free = b
  BY <1>1 DEF ListOK, HeaderType, Header
<1>5. g \in [DOMAIN g -> HeaderType] /\ DOMAIN g \subseteq Nat
  BY <1>3, <1>4 DEF ListOK
<1>6. \A x \in DOMAIN f : g[x].next = f[x].next /\ Behind(g, x) = Behind(f, x)
  BY <1>3, <1>4 DEF Behind
<1>7. TiledList(g, k)
  BY <1>3, <1>6 DEF ListOK, TiledList
<1>8. QED
  BY <1>3, <1>4, <1>5, <1>7 DEF ListOK, Flagged

\* A block that is large enough is cut in two.
LEMMA SplitFacts ==
    ASSUME NEW f, NEW k \in Nat, ListOK(f, k), NEW a \in DOMAIN f,
           NEW n \in Nat \ {0}, f[a].size - n > H,
           NEW b, b = a + H + n, NEW g, g = Split(f, a, n)
    PROVE  /\ ListOK(g, k)
           /\ b \notin DOMAIN f
           /\ (\A v : v \in DOMAIN g <=> v \in DOMAIN f \/ v = b)
           /\ \A x \in DOMAIN f \ {a} : g[x] = f[x]
           /\ g[a].size = n /\ g[a].next = b /\ ~g[a].free
           /\ g[b].size = f[a].size - n - H /\ g[b].next = f[a].next /\ g[b].free
<1>2. PICK h, i : h = Header(n, b, FALSE) /\ i = Header(f[a].size - n - H, f[a].next, TRUE)
  OBVIOUS
<1>3. \A x \in DOMAIN f : x \in Nat /\ f[x].size \in Nat \ {0}
  BY DEF ListOK, HeaderType
<1>4. b \in Nat /\ a < b /\ b < Behind(f, a)
  BY <1>3, Consts DEF Behind
<1>5. b \notin DOMAIN f
  <2>1. SUFFICES ASSUME b \in DOMAIN f PROVE FALSE
    OBVIOUS
  <2>2. Behind(f, a) <= b
    BY <1>4, <2>1 DEF ListOK, TiledList
  <2>3. Behind(f, a) \in Nat
    BY <1>3, Consts DEF Behind
  <2>4. QED
    BY <1>4, <2>2, <2>3
<1>6. g = [x \in DOMAIN f \cup {b} |-> IF x = b THEN i ELSE IF x = a THEN h ELSE f[x]]
  BY <1>2 DEF Split, Replace
<1>7. (\A v : v \in DOMAIN g <=> v \in DOMAIN f \/ v = b) /\ g[a] = h /\ g[b] = i
      /\ \A x \in DOMAIN f \ {a} : g[x] = f[x]
  BY <1>4, <1>5, <1>6
<1>8. h \in HeaderType /\ i \in HeaderType
  <2>1. f[a].size - n - H \in Nat \ {0}
    BY <1>3, Consts
  <2>2. f[a].next \in Nat \cup {NoBlock}
    BY DEF ListOK, HeaderType
  <2>3. QED
    BY <1>2, <1>4, <2>1, <2>2 DEF Header, HeaderType
<1>9. g \in [DOMAIN g -> HeaderType] /\ DOMAIN g \subseteq Nat
  BY <1>3, <1>4, <1>6, <1>7, <1>8 DEF ListOK
<1>10. /\ Behind(g, a) = b /\ g[a].next = b
       /\ Behind(g, b) = Behind(f, a) /\ g[b].next = f[a].next
       /\ \A x \in DOMAIN f \ {a} : Behind(g, x) = Behind(f, x) /\ g[x].next = f[x].next
  BY <1>2, <1>3, <1>7, Consts DEF Behind, Header
<1>11. TiledList(g, k)
  <2>1. 0 \in DOMAIN g
    BY <1>7 DEF ListOK, TiledList
  <2>2. ASSUME NEW x \in DOMAIN g
        PROVE  /\ Behind(g, x) <= k
               /\ \/ g[x].next = NoBlock /\ Behind(g, x) = k
                  \/ g[x].next = Behind(g, x) /\ Behind(g, x) \in DOMAIN g
    <3>1. CASE x = a
      <4>1. Behind(f, a) <= k /\ Behind(f, a) \in Nat
        BY <1>3, Consts DEF ListOK, TiledList, Behind
      <4>2. b <= k
        BY <1>4, <4>1
      <4>3. QED
        BY <1>7, <1>10, <3>1, <4>2
    <3>2. CASE x = b
      BY <1>7, <1>10, <3>2 DEF ListOK, TiledList
    <3>3. CASE x \in DOMAIN f \ {a}
      BY <1>7, <1>10, <3>3 DEF ListOK, TiledList
    <3>4. QED
      BY <1>7, <3>1, <3>2, <3>3
  <2>3. ASSUME NEW x \in DOMAIN g, NEW y \in DOMAIN g, x < y
        PROVE  Behind(g, x) <= y
    <3>0. \A z \in DOMAIN f : Behind(f, z) \in Nat /\ z \in Nat
      BY <1>3, Consts DEF Behind
    <3>t. \A u, v \in DOMAIN f : u < v => Behind(f, u) <= v
      BY DEF ListOK, TiledList
    <3>1. CASE x = a
      <4>1. y = b \/ Behind(f, a) <= y
        BY <1>7, <2>3, <3>1, <3>t
      <4>2. QED
        BY <1>4, <1>7, <1>10, <3>0, <3>1, <4>1
    <3>2. CASE x = b
      <4>1. y \in DOMAIN f /\ a < y
        BY <1>3, <1>4, <1>7, <2>3, <3>2
      <4>2. QED
        BY <1>10, <3>2, <4>1, <3>t
    <3>3. CASE x \in DOMAIN f \ {a} /\ y = b
      <4>1. x < a
        <5>1. SUFFICES ASSUME a < x PROVE FALSE
          BY <1>3, <3>3
        <5>2. Behind(f, a) <= x
          BY <3>3, <3>t, <5>1
        <5>3. QED
          BY <1>3, <1>4, <2>3, <3>0, <3>3, <5>2
      <4>2. Behind(f, x) <= a
        BY <3>3, <3>t, <4>1
      <4>3. QED
        BY <1>3, <1>4, <1>10, <3>0, <3>3, <4>2
    <3>4. CASE x \in DOMAIN f \ {a} /\ y \in DOMAIN f
      BY <1>10, <2>3, <3>4, <3>t
    <3>5. QED
      BY <1>7, <3>1, <3>2, <3>3, <3>4
  <2>4. QED
    BY <2>1, <2>2, <2>3 DEF TiledList
<1>12. QED
  BY <1>2, <1>5, <1>7, <1>9, <1>11 DEF ListOK, Header

\* A new block behind the last one.
AppendBlock(f, z, k, n) ==
    Replace(Replace(f, z, Header(f[z].size, k, f[z].free)), k, Header(n, NoBlock, FALSE))

LEMMA AppendFacts ==
    ASSUME NEW f, NEW k \in Nat, ListOK(f, k), NEW n \in Nat \ {0},
           NEW z \in DOMAIN f, f[z].next = NoBlock, Behind(f, z) = k,
           NEW g, g = AppendBlock(f, z, k, n), NEW e, e = k + H + n
    PROVE  /\ ListOK(g, e)
           /\ k \notin DOMAIN f
           /\ (\A v : v \in DOMAIN g <=> v \in DOMAIN f \/ v = k)
           /\ \A x \in DOMAIN f \ {z} : g[x] = f[x]
           /\ g[z].size = f[z].size /\ g[z].next = k /\ g[z].free = f[z].free
           /\ g[k].size = n /\ g[k].next = NoBlock /\ ~g[k].free
<1>10. k < e /\ e \in Nat
  BY Consts
<1>2. PICK h, i : h = Header(f[z].size, k, f[z].free) /\ i = Header(n, NoBlock, FALSE)
  OBVIOUS
<1>3. \A x \in DOMAIN f : /\ x \in Nat /\ f[x].size \in Nat \ {0}
                          /\ Behind(f, x) \in Nat /\ x < Behind(f, x) /\ Behind(f, x) <= k
  <2>1. \A x \in DOMAIN f : x \in Nat /\ f[x].size \in Nat \ {0} /\ Behind(f, x) <= k
    BY DEF ListOK, HeaderType, TiledList
  <2>2. \A x \in DOMAIN f : Behind(f, x) \in Nat /\ x < Behind(f, x)
    <3>1. TAKE x \in DOMAIN f
    <3>2. x \in Nat /\ f[x].size \in Nat
      BY <2>1
    <3>3. QED
      BY <3>2, Consts DEF Behind
  <2>3. QED
    BY <2>1, <2>2
<1>4. k \notin DOMAIN f
  BY <1>3
<1>5. g = [x \in DOMAIN f \cup {k} |-> IF x = k THEN i ELSE IF x = z THEN h ELSE f[x]]
  BY <1>2 DEF AppendBlock, Replace
<1>6. (\A v : v \in DOMAIN g <=> v \in DOMAIN f \/ v = k) /\ g[z] = h /\ g[k] = i
      /\ \A x \in DOMAIN f \ {z} : g[x] = f[x]
  BY <1>4, <1>5
<1>7. h \in HeaderType /\ i \in HeaderType
  <2>1. f[z].size \in Nat \ {0} /\ f[z].free \in BOOLEAN
    BY DEF ListOK, HeaderType
  <2>2. QED
    BY <1>2, <2>1 DEF Header, HeaderType
<1>8. g \in [DOMAIN g -> HeaderType] /\ DOMAIN g \subseteq Nat
  BY <1>3, <1>5, <1>6, <1>7 DEF ListOK
<1>9. /\ Behind(g, z) = k /\ g[z].next = k
      /\ Behind(g, k) = e /\ g[k].next = NoBlock
      /\ \A x \in DOMAIN f \ {z} : Behind(g, x) = Behind(f, x) /\ g[x].next = f[x].next
  <2>1. h.size = f[z].size /\ h.next = k /\ i.size = n /\ i.next = NoBlock
    BY <1>2 DEF Header
  <2>2. Behind(g, k) = e /\ g[k].next = NoBlock
    BY <1>6, <2>1 DEF Behind
  <2>3. Behind(g, z) = k /\ g[z].next = k
    BY <1>6, <2>1 DEF Behind
  <2>4. \A x \in DOMAIN f \ {z} : Behind(g, x) = Behind(f, x) /\ g[x].next = f[x].next
    BY <1>6 DEF Behind
  <2>5. QED
    BY <2>2, <2>3, <2>4
<1>11. \A x \in DOMAIN f \ {z} : f[x].next = Behind(f, x) /\ Behind(f, x) \in DOMAIN f
  <2>1. TAKE x \in DOMAIN f \ {z}
  <2>2. f[x].next # NoBlock
    <3>1. SUFFICES ASSUME f[x].next = NoBlock PROVE FALSE
      OBVIOUS
    <3>2. Behind(f, x) = k
      BY <3>1, <1>3 DEF ListOK, TiledList, NoBlock
    <3>3. (x < z => Behind(f, x) <= z) /\ (z < x => Behind(f, z) <= x)
      BY DEF ListOK, TiledList
    <3>4. QED
      BY <1>3, <3>2, <3>3
  <2>3. QED
    BY <2>2 DEF ListOK, TiledList
<1>12. TiledList(g, e)
  <2>1. 0 \in DOMAIN g
    BY <1>6 DEF ListOK, TiledList
  <2>2. ASSUME NEW x \in DOMAIN g
        PROVE  /\ Behind(g, x) <= e
               /\ \/ g[x].next = NoBlock /\ Behind(g, x) = e
                  \/ g[x].next = Behind(g, x) /\ Behind(g, x) \in DOMAIN g
    <3>1. CASE x = k
      BY <1>9, <1>10, <3>1
    <3>2. CASE x = z
      BY <1>6, <1>9, <1>10, <3>2
    <3>3. CASE x \in DOMAIN f \ {z}
      <4>1. Behind(g, x) <= e
        BY <1>3, <1>9, <1>10, <3>3
      <4>2. QED
        BY <1>6, <1>9, <1>11, <3>3, <4>1
    <3>4. QED
      BY <1>6, <3>1, <3>2, <3>3
  <2>3. ASSUME NEW x \in DOMAIN g, NEW y \in DOMAIN g, x < y
        PROVE  Behind(g, x) <= y
    <3>1. \A u, v \in DOMAIN f : u < v => Behind(f, u) <= v
      BY DEF ListOK, TiledList
    <3>2. \A u \in DOMAIN f : Behind(g, u) = Behind(f, u)
      BY <1>9
    <3>3. x # k
      <4>1. y \in DOMAIN f => y < k
        BY <1>3
      <4>2. y \in DOMAIN f \cup {k}
        BY <1>6
      <4>3. QED
        BY <1>3, <2>3, <4>1, <4>2
    <3>4. QED
      BY <1>3, <1>6, <2>3, <3>1, <3>2, <3>3
  <2>4. QED
    BY <2>1, <2>2, <2>3 DEF TiledList
<1>13. QED
  BY <1>2, <1>4, <1>6, <1>8, <1>12 DEF ListOK, Header

\* The first block.
Single(f, n) == Replace(f, 0, Header(n, NoBlock, FALSE))

LEMMA FirstFacts ==
    ASSUME NEW f, DOMAIN f = {}, NEW n \in Nat \ {0}, NEW g, g = Single(f, n)
    PROVE  ListOK(g, H + n) /\ DOMAIN g = {0} /\ g[0].size = n /\ ~g[0].free
<1>1. PICK h : h = Header(n, NoBlock, FALSE)
  OBVIOUS
<1>2. g = [x \in {0} |-> h]
  BY <1>1 DEF Single, Replace
<1>3. h \in HeaderType /\ h.size = n /\ h.next = NoBlock /\ ~h.free
  BY <1>1 DEF Header, HeaderType
<1>4. TiledList(g, H + n)
  <2>1. DOMAIN g = {0} /\ g[0].next = NoBlock /\ g[0].size = n
    BY <1>2, <1>3
  <2>2. Behind(g, 0) = H + n /\ H + n \in Nat
    BY <2>1, Consts DEF Behind
  <2>3. QED
    BY <2>1, <2>2 DEF TiledList
<1>5. DOMAIN g = {0} /\ g[0] = h /\ g \in [DOMAIN g -> HeaderType]
  BY <1>2, <1>3
<1>6. ListOK(g, H + n)
  BY <1>4, <1>5 DEF ListOK
<1>7. QED
  BY <1>3, <1>5, <1>6

-----------------------------------------------------------------------------
(***************************************************************************)
(* Free neighbours.                                                        *)
(***************************************************************************)

\* The successor as a question has a truth value.
LEMMA FreeNextBool ==
    ASSUME NEW f, NEW k \in Nat, ListOK(f, k), NEW a \in DOMAIN f
    PROVE  /\ FreeNext(f, a) \in BOOLEAN
           /\ FreeNext(f, a) => f[a].next \in DOMAIN f /\ f[f[a].next].free
<1>1. CASE f[a].next = NoBlock
  BY <1>1 DEF FreeNext
<1>2. CASE f[a].next # NoBlock
  <2>1. f[a].next \in DOMAIN f
    BY <1>2, NextFacts
  <2>2. f[f[a].next].free \in BOOLEAN
    BY <2>1 DEF ListOK, HeaderType
  <2>3. QED
    BY <1>2, <2>1, <2>2 DEF FreeNext
<1>3. QED
  BY <1>1, <1>2

AbsorbedNext(f, a, b, g) ==
    /\ \A x \in DOMAIN f : x # a /\ x # b /\ FreeNext(g, x) => FreeNext(f, x)
    /\ FreeNext(g, a) => FreeNext(f, b)

\* Who has a free successor after a block took over its own.
LEMMA AbsorbNext ==
    ASSUME NEW f, NEW k \in Nat, ListOK(f, k), NEW a \in DOMAIN f,
           NEW b, b = f[a].next, b # NoBlock, NEW g, g = Absorb(f, a)
    PROVE  AbsorbedNext(f, a, b, g)
<1>2. /\ (\A v : v \in DOMAIN g <=> v \in DOMAIN f /\ v # b)
      /\ \A x \in DOMAIN f \ {a, b} : g[x] = f[x]
      /\ g[a].next = f[b].next /\ g[a].free = f[a].free
  BY AbsorbFacts DEF Absorbed
<1>3. g[a].next = f[b].next /\ g[a].free = f[a].free
  BY <1>2
<1>4. b \in DOMAIN f /\ b # a /\ a \in DOMAIN f
  BY NextFacts DEF ListOK
<1>5. \A x \in DOMAIN f \ {b} : g[x].free = f[x].free
  BY <1>2, <1>3
<1>6. ASSUME NEW x \in DOMAIN f \ {a, b}, FreeNext(g, x) PROVE FreeNext(f, x)
  <2>1. f[x].next # NoBlock /\ g[f[x].next].free
    BY <1>2, <1>6 DEF FreeNext
  <2>2. f[x].next \in DOMAIN f
    BY <2>1, NextFacts
  <2>3. f[x].next # b
    BY <1>6, <2>1, OnePrev
  <2>4. QED
    BY <1>5, <2>1, <2>2, <2>3 DEF FreeNext
<1>7. ASSUME FreeNext(g, a) PROVE FreeNext(f, b)
  <2>1. f[b].next # NoBlock /\ g[f[b].next].free
    BY <1>3, <1>7 DEF FreeNext
  <2>2. f[b].next \in DOMAIN f /\ f[b].next > b /\ b \in Nat
    BY <1>4, <2>1, NextFacts DEF ListOK
  <2>3. QED
    BY <1>5, <2>1, <2>2 DEF FreeNext
<1>8. QED
  BY <1>6, <1>7 DEF AbsorbedNext

\* malloc and realloc: cutting a block.
LEMMA SplitNext ==
    ASSUME NEW f, NEW k \in Nat, ListOK(f, k), NEW a \in DOMAIN f,
           NEW n \in Nat \ {0}, f[a].size - n > H,
           NEW b, b = a + H + n, NEW g, g = Split(f, a, n)
    PROVE  /\ \A x \in DOMAIN f \ {a} :
                FreeNext(g, x) => FreeNext(f, x)
           /\ FreeNext(g, b) => FreeNext(f, a)
           /\ ~g[a].free
           /\ g[b].free
           /\ g[b].next = f[a].next
<1>2. /\ b \notin DOMAIN f
      /\ (\A v : v \in DOMAIN g <=> v \in DOMAIN f \/ v = b)
      /\ \A x \in DOMAIN f \ {a} : g[x] = f[x]
      /\ g[a].size = n /\ g[a].next = b /\ ~g[a].free
      /\ g[b].size = f[a].size - n - H /\ g[b].next = f[a].next /\ g[b].free
  BY SplitFacts
<1>3. ~g[a].free /\ g[b].free /\ g[b].next = f[a].next
  BY <1>2
<1>4. ASSUME NEW y \in DOMAIN f, f[y].next # NoBlock, g[f[y].next].free
      PROVE  FreeNext(f, y)
  <2>1. f[y].next \in DOMAIN f
    BY <1>4, NextFacts
  <2>2. f[y].next # a
    BY <1>3, <1>4
  <2>3. QED
    BY <1>2, <1>4, <2>1, <2>2 DEF FreeNext
<1>5. ASSUME NEW x \in DOMAIN f \ {a}, FreeNext(g, x) PROVE FreeNext(f, x)
  BY <1>2, <1>4, <1>5 DEF FreeNext
<1>6. ASSUME FreeNext(g, b) PROVE FreeNext(f, a)
  BY <1>3, <1>4, <1>6 DEF FreeNext
<1>7. QED
  BY <1>3, <1>5, <1>6

-----------------------------------------------------------------------------
(***************************************************************************)
(* What each call makes of the list: it stays well formed and merged, the  *)
(* blocks in use change by the one the call is about, and the others keep  *)
(* their sizes.                                                            *)
(***************************************************************************)
GoodList(f, k) == ListOK(f, k) /\ Merged(f)
SameSizes(f, g, a) == \A x \in InUse(f) : x # a => g[x].size = f[x].size

\* malloc, from a free block.
Taken(f, a, n) == IF f[a].size - n > H THEN Split(f, a, n) ELSE Flag(f, a, FALSE)

LEMMA TakenFacts ==
    ASSUME NEW f, NEW k \in Nat, GoodList(f, k), NEW a \in DOMAIN f, f[a].free,
           NEW n \in Nat \ {0}, f[a].size >= n, NEW g, g = Taken(f, a, n)
    PROVE  /\ GoodList(g, k)
           /\ (\A v : v \in InUse(g) <=> v \in InUse(f) \/ v = a)
           /\ g[a].size >= n
           /\ SameSizes(f, g, NoBlock)
<1>0. ListOK(f, k) /\ Merged(f)
  BY DEF GoodList
<1>t. f[a].size \in Nat /\ ~FreeNext(f, a)
  BY <1>0 DEF ListOK, HeaderType, Merged
<1>1. CASE f[a].size - n > H
  <2>1. PICK b : b = a + H + n
    OBVIOUS
  <2>2. g = Split(f, a, n)
    BY <1>1 DEF Taken
  <2>3. /\ ListOK(g, k)
        /\ b \notin DOMAIN f
        /\ (\A v : v \in DOMAIN g <=> v \in DOMAIN f \/ v = b)
        /\ \A x \in DOMAIN f \ {a} : g[x] = f[x]
        /\ g[a].size = n /\ ~g[a].free /\ g[b].free
    BY <1>0, <1>1, <2>1, <2>2, SplitFacts
  <2>4. /\ \A x \in DOMAIN f \ {a} : FreeNext(g, x) => FreeNext(f, x)
        /\ FreeNext(g, b) => FreeNext(f, a)
    BY <1>0, <1>1, <2>1, <2>2, SplitNext
  <2>5. Merged(g)
    BY <1>0, <1>t, <2>3, <2>4 DEF Merged
  <2>6. (\A v : v \in InUse(g) <=> v \in InUse(f) \/ v = a)
    BY <2>3 DEF InUse
  <2>7. SameSizes(f, g, NoBlock)
    BY <2>3 DEF InUse, SameSizes
  <2>8. QED
    BY <2>3, <2>5, <2>6, <2>7 DEF GoodList
<1>2. CASE ~(f[a].size - n > H)
  <2>1. PICK u \in BOOLEAN : u = FALSE
    OBVIOUS
  <2>2. g = Flag(f, a, u)
    BY <1>2, <2>1 DEF Taken
  <2>3. /\ ListOK(g, k)
        /\ DOMAIN g = DOMAIN f
        /\ \A x \in DOMAIN f \ {a} : g[x] = f[x]
        /\ g[a].size = f[a].size /\ g[a].next = f[a].next /\ ~g[a].free
    BY <1>0, <2>1, <2>2, FlagFacts DEF Flagged
  <2>4. \A x \in DOMAIN f : FreeNext(g, x) => FreeNext(f, x)
    <3>1. TAKE x \in DOMAIN f
    <3>2. HAVE FreeNext(g, x)
    <3>3. f[x].next # NoBlock /\ g[f[x].next].free
      BY <2>3, <3>2 DEF FreeNext
    <3>4. f[x].next \in DOMAIN f
      BY <1>0, <3>3, NextFacts
    <3>5. QED
      BY <2>3, <3>3, <3>4 DEF FreeNext
  <2>5. Merged(g)
    BY <1>0, <2>3, <2>4 DEF Merged
  <2>6. (\A v : v \in InUse(g) <=> v \in InUse(f) \/ v = a) /\ SameSizes(f, g, NoBlock)
    BY <2>3 DEF InUse, SameSizes
  <2>7. QED
    BY <2>3, <2>5, <2>6 DEF GoodList
<1>3. QED
  BY <1>1, <1>2

Appended(f, k, n, g) ==
    /\ k \notin DOMAIN f
    /\ \A v : v \in InUse(g) <=> v \in InUse(f) \/ v = k
    /\ g[k].size = n
    /\ SameSizes(f, g, NoBlock)

\* malloc, behind the last block.
LEMMA AppendedFacts ==
    ASSUME NEW f, NEW k \in Nat, GoodList(f, k), NEW n \in Nat \ {0},
           NEW z \in DOMAIN f, f[z].next = NoBlock, Behind(f, z) = k,
           NEW g, g = AppendBlock(f, z, k, n), NEW e, e = k + H + n
    PROVE  GoodList(g, e) /\ Appended(f, k, n, g)
<1>0. ListOK(f, k) /\ Merged(f)
  BY DEF GoodList
<1>1. /\ ListOK(g, e)
      /\ k \notin DOMAIN f
      /\ (\A v : v \in DOMAIN g <=> v \in DOMAIN f \/ v = k)
      /\ \A x \in DOMAIN f \ {z} : g[x] = f[x]
      /\ g[z].size = f[z].size /\ g[z].next = k /\ g[z].free = f[z].free
      /\ g[k].size = n /\ g[k].next = NoBlock /\ ~g[k].free
  BY <1>0, AppendFacts
<1>2. \A x \in DOMAIN g : FreeNext(g, x) => x \in DOMAIN f /\ FreeNext(f, x)
  <2>1. TAKE x \in DOMAIN g
  <2>2. HAVE FreeNext(g, x)
  <2>3. x # k /\ x # z
    BY <1>1, <2>2 DEF FreeNext
  <2>4. x \in DOMAIN f /\ f[x].next # NoBlock /\ g[f[x].next].free
    BY <1>1, <2>2, <2>3 DEF FreeNext
  <2>5. f[x].next \in DOMAIN f
    BY <1>0, <2>4, NextFacts
  <2>6. QED
    BY <1>1, <2>4, <2>5 DEF FreeNext
<1>3. Merged(g)
  BY <1>0, <1>1, <1>2 DEF Merged
<1>4. (\A v : v \in InUse(g) <=> v \in InUse(f) \/ v = k) /\ SameSizes(f, g, NoBlock)
  BY <1>1 DEF InUse, SameSizes
<1>5. QED
  BY <1>1, <1>3, <1>4 DEF GoodList, Appended

\* realloc, into the free block behind.
LEMMA GrownFacts ==
    ASSUME NEW f, NEW k \in Nat, GoodList(f, k), NEW a \in InUse(f), FreeNext(f, a),
           NEW g, g = Absorb(f, a)
    PROVE  /\ GoodList(g, k)
           /\ InUse(g) = InUse(f)
           /\ g[a].size = f[a].size + H + f[f[a].next].size
           /\ SameSizes(f, g, a)
<1>0. ListOK(f, k) /\ Merged(f) /\ a \in DOMAIN f /\ ~f[a].free
  BY DEF GoodList, InUse
<1>1. PICK b : b = f[a].next
  OBVIOUS
<1>2. b # NoBlock /\ f[b].free
  BY <1>1 DEF FreeNext
<1>3. /\ ListOK(g, k)
      /\ (\A v : v \in DOMAIN g <=> v \in DOMAIN f /\ v # b)
      /\ \A x \in DOMAIN f \ {a, b} : g[x] = f[x]
      /\ g[a].free = f[a].free /\ g[a].size = f[a].size + H + f[b].size
  BY <1>0, <1>1, <1>2, AbsorbFacts DEF Absorbed
<1>4. g[a].free = f[a].free /\ g[a].size = f[a].size + H + f[b].size
  BY <1>3
<1>5. \A x \in DOMAIN f \ {a, b} : FreeNext(g, x) => FreeNext(f, x)
  BY <1>0, <1>1, <1>2, AbsorbNext DEF AbsorbedNext
<1>6. Merged(g)
  BY <1>0, <1>3, <1>4, <1>5 DEF Merged
<1>7. InUse(g) = InUse(f)
  BY <1>0, <1>2, <1>3, <1>4 DEF InUse
<1>8. SameSizes(f, g, a)
  BY <1>2, <1>3 DEF InUse, SameSizes
<1>9. QED
  BY <1>1, <1>3, <1>4, <1>6, <1>7, <1>8 DEF GoodList

\* realloc, cutting a block in use: the rest merges with a free block behind.
LEMMA ShrunkFacts ==
    ASSUME NEW f, NEW k \in Nat, GoodList(f, k), NEW a \in InUse(f),
           NEW n \in Nat \ {0}, f[a].size - n > H, NEW b, b = a + H + n,
           NEW s, s = Split(f, a, n), NEW g, g = MergeNext(s, b)
    PROVE  /\ GoodList(g, k)
           /\ InUse(g) = InUse(f)
           /\ g[a].size = n
           /\ SameSizes(f, g, a)
<1>0. ListOK(f, k) /\ Merged(f) /\ a \in DOMAIN f /\ ~f[a].free
  BY DEF GoodList, InUse
<1>1. /\ ListOK(s, k)
      /\ b \notin DOMAIN f
      /\ (\A v : v \in DOMAIN s <=> v \in DOMAIN f \/ v = b)
      /\ \A x \in DOMAIN f \ {a} : s[x] = f[x]
      /\ s[a].size = n /\ s[a].next = b /\ ~s[a].free
      /\ s[b].next = f[a].next /\ s[b].free
  BY <1>0, SplitFacts
<1>2. /\ \A x \in DOMAIN f \ {a} : FreeNext(s, x) => FreeNext(f, x)
      /\ FreeNext(s, b) => FreeNext(f, a)
  BY <1>0, SplitNext
<1>3. InUse(s) = InUse(f) /\ SameSizes(f, s, a)
  BY <1>0, <1>1 DEF InUse, SameSizes
<1>4. CASE ~FreeNext(s, b)
  <2>1. g = s
    BY <1>4 DEF MergeNext
  <2>2. Merged(s)
    BY <1>0, <1>1, <1>2, <1>4 DEF Merged
  <2>3. QED
    BY <1>1, <1>3, <2>1, <2>2 DEF GoodList
<1>5. CASE FreeNext(s, b)
  <2>1. PICK c : c = s[b].next
    OBVIOUS
  <2>2. c # NoBlock /\ s[c].free
    BY <1>5, <2>1 DEF FreeNext
  <2>3. g = Absorb(s, b)
    BY <1>5 DEF MergeNext
  <2>4. b \in DOMAIN s
    BY <1>1
  <2>5. c \in DOMAIN s /\ c > b /\ c \in Nat /\ b \in Nat
    BY <1>1, <2>1, <2>2, <2>4, NextFacts DEF ListOK
  <2>6. c # a /\ c \in DOMAIN f /\ f[c].free
    BY <1>1, <2>2, <2>5
  <2>7. /\ ListOK(g, k)
        /\ (\A v : v \in DOMAIN g <=> v \in DOMAIN s /\ v # c)
        /\ \A x \in DOMAIN s \ {b, c} : g[x] = s[x]
        /\ g[b].free = s[b].free
    <3>1. ListOK(g, k) /\ Absorbed(s, b, c, g)
      BY <1>1, <2>1, <2>2, <2>3, <2>4, AbsorbFacts
    <3>2. QED
      BY <3>1 DEF Absorbed
  <2>8. /\ \A x \in DOMAIN s : x # b /\ x # c /\ FreeNext(g, x) => FreeNext(s, x)
        /\ FreeNext(g, b) => FreeNext(s, c)
    BY <1>1, <2>1, <2>2, <2>3, <2>4, AbsorbNext DEF AbsorbedNext
  <2>9. ~FreeNext(f, c)
    BY <1>0, <2>6 DEF Merged
  <2>10. Merged(g)
    BY <1>0, <1>1, <1>2, <2>6, <2>7, <2>8, <2>9 DEF Merged
  <2>11. InUse(g) = InUse(s)
    BY <1>1, <2>2, <2>4, <2>7, <2>8 DEF InUse
  <2>12. \A x \in InUse(s) : g[x] = s[x]
    BY <1>1, <2>2, <2>7 DEF InUse
  <2>13. QED
    BY <1>0, <1>1, <1>3, <2>7, <2>10, <2>11, <2>12 DEF GoodList, SameSizes, InUse
<1>6. QED
  BY <1>4, <1>5

HalfFreed(f, a, g) ==
    /\ a \in DOMAIN g /\ g[a].free /\ ~FreeNext(g, a)
    /\ \A x \in DOMAIN g : g[x].free /\ FreeNext(g, x) => g[x].next = a
    /\ (\A v : v \in InUse(g) <=> v \in InUse(f) /\ v # a)
    /\ SameSizes(f, g, a)

\* free, before it looks for a free block in front.
LEMMA FlaggedFacts ==
    ASSUME NEW f, NEW k \in Nat, GoodList(f, k), NEW a \in InUse(f),
           NEW u \in BOOLEAN, u, NEW h, h = Flag(f, a, u),
           NEW g, g = MergeNext(h, a)
    PROVE  ListOK(g, k) /\ HalfFreed(f, a, g)
<1>0. ListOK(f, k) /\ Merged(f) /\ a \in DOMAIN f /\ ~f[a].free /\ a \in Nat
  BY DEF GoodList, InUse, ListOK
<1>1. /\ ListOK(h, k)
      /\ DOMAIN h = DOMAIN f
      /\ \A x \in DOMAIN f \ {a} : h[x] = f[x]
      /\ h[a].size = f[a].size /\ h[a].next = f[a].next /\ h[a].free = u
  <2>1. ListOK(h, k) /\ Flagged(f, a, u, h)
    BY <1>0, FlagFacts
  <2>2. QED
    BY <2>1 DEF Flagged
<1>u. h[a].free
  BY <1>1
<1>2. ASSUME NEW x \in DOMAIN f, FreeNext(h, x), h[x].next # a PROVE FreeNext(f, x)
  <2>1. f[x].next # NoBlock /\ h[f[x].next].free /\ f[x].next # a
    BY <1>1, <1>2 DEF FreeNext
  <2>2. f[x].next \in DOMAIN f
    BY <1>0, <2>1, NextFacts
  <2>3. QED
    BY <1>1, <2>1, <2>2 DEF FreeNext
<1>3. (\A v : v \in InUse(h) <=> v \in InUse(f) /\ v # a) /\ SameSizes(f, h, a)
  BY <1>0, <1>1, <1>u DEF InUse, SameSizes
<1>4. CASE ~FreeNext(h, a)
  <2>1. g = h
    BY <1>4 DEF MergeNext
  <2>2. \A x \in DOMAIN h : h[x].free /\ FreeNext(h, x) => h[x].next = a
    <3>1. TAKE x \in DOMAIN h
    <3>2. SUFFICES ASSUME h[x].free, FreeNext(h, x), h[x].next # a PROVE FALSE
      OBVIOUS
    <3>3. x # a
      BY <1>4, <3>2
    <3>4. FreeNext(f, x) /\ f[x].free
      BY <1>1, <1>2, <3>2, <3>3
    <3>5. QED
      BY <1>0, <1>1, <3>4 DEF Merged
  <2>3. QED
    BY <1>0, <1>1, <1>u, <1>3, <1>4, <2>1, <2>2 DEF HalfFreed
<1>5. CASE FreeNext(h, a)
  <2>1. PICK c : c = h[a].next
    OBVIOUS
  <2>2. c # NoBlock /\ h[c].free
    BY <1>5, <2>1 DEF FreeNext
  <2>3. g = Absorb(h, a)
    BY <1>5 DEF MergeNext
  <2>4. a \in DOMAIN h
    BY <1>0, <1>1
  <2>5. c \in DOMAIN h /\ c > a /\ c \in Nat
    BY <1>1, <2>1, <2>2, <2>4, NextFacts
  <2>6. /\ ListOK(g, k)
        /\ (\A v : v \in DOMAIN g <=> v \in DOMAIN h /\ v # c)
        /\ \A x \in DOMAIN h \ {a, c} : g[x] = h[x]
        /\ g[a].free = h[a].free
    <3>1. ListOK(g, k) /\ Absorbed(h, a, c, g)
      BY <1>1, <2>1, <2>2, <2>3, <2>4, AbsorbFacts
    <3>2. QED
      BY <3>1 DEF Absorbed
  <2>7. /\ \A x \in DOMAIN h : x # a /\ x # c /\ FreeNext(g, x) => FreeNext(h, x)
        /\ FreeNext(g, a) => FreeNext(h, c)
    <3>1. AbsorbedNext(h, a, c, g)
      BY <1>1, <2>1, <2>2, <2>3, <2>4, AbsorbNext
    <3>2. QED
      BY <3>1 DEF AbsorbedNext
  <2>8. ~FreeNext(h, c)
    <3>1. SUFFICES ASSUME FreeNext(h, c) PROVE FALSE
      OBVIOUS
    <3>2. h[c].next # NoBlock
      BY <3>1 DEF FreeNext
    <3>3. h[c].next > c /\ h[c].next \in Nat
      BY <1>1, <2>5, <3>2, NextFacts
    <3>4. h[c].next # a
      <4>1. PICK y : y = h[c].next
        OBVIOUS
      <4>2. y > c /\ y \in Nat
        BY <3>3, <4>1
      <4>3. y # a
        BY <1>0, <2>5, <4>2
      <4>4. QED
        BY <4>1, <4>3
    <3>n. c # a
      BY <1>0, <2>5
    <3>5. FreeNext(f, c) /\ f[c].free
      <4>1. c \in DOMAIN f
        BY <1>1, <2>5
      <4>2. FreeNext(f, c)
        BY <1>2, <3>1, <3>4, <4>1
      <4>3. QED
        BY <1>1, <2>2, <3>n, <4>1, <4>2
    <3>6. QED
      BY <1>0, <1>1, <2>5, <3>5 DEF Merged
  <2>9. \A x \in DOMAIN g : g[x].free /\ FreeNext(g, x) => g[x].next = a
    <3>1. TAKE x \in DOMAIN g
    <3>2. SUFFICES ASSUME g[x].free, FreeNext(g, x), g[x].next # a PROVE FALSE
      OBVIOUS
    <3>3. x # a /\ x # c /\ x \in DOMAIN f
      BY <1>1, <2>6, <2>7, <2>8, <3>2
    <3>4. g[x] = h[x] /\ h[x] = f[x] /\ FreeNext(h, x)
      BY <1>1, <2>6, <2>7, <3>2, <3>3
    <3>5. FreeNext(f, x) /\ f[x].free
      BY <1>2, <3>2, <3>3, <3>4
    <3>6. QED
      BY <1>0, <3>3, <3>5 DEF Merged
  <2>f. g[a].free
    BY <1>u, <2>6
  <2>10. \A x : x \in InUse(g) <=> x \in InUse(h)
    <3>1. TAKE x
    <3>2. CASE x = a \/ x = c
      BY <1>u, <2>2, <2>6, <2>f, <3>2 DEF InUse
    <3>3. CASE x # a /\ x # c
      BY <2>6, <3>3 DEF InUse
    <3>4. QED
      BY <3>2, <3>3
  <2>11. \A x \in InUse(h) : g[x] = h[x]
    BY <1>u, <2>2, <2>6 DEF InUse
  <2>12. a \in DOMAIN g /\ g[a].free /\ ~FreeNext(g, a)
    <3>1. c # a
      BY <1>0, <2>5
    <3>2. a \in DOMAIN g
      BY <2>4, <2>6, <3>1
    <3>3. QED
      BY <2>7, <2>8, <2>f, <3>2
  <2>13. SameSizes(f, g, a)
    BY <1>3, <2>10, <2>11 DEF SameSizes
  <2>14. QED
    BY <1>3, <2>6, <2>9, <2>10, <2>12, <2>13 DEF HalfFreed
<1>6. QED
  BY <1>4, <1>5

\* free as a whole.
LEMMA FreedFacts ==
    ASSUME NEW f, NEW k \in Nat, GoodList(f, k), NEW a \in InUse(f), NEW r, r = Freed(f, a)
    PROVE  /\ GoodList(r, k)
           /\ (\A v : v \in InUse(r) <=> v \in InUse(f) /\ v # a)
           /\ SameSizes(f, r, a)
<1>1. PICK u \in BOOLEAN : u = TRUE
  OBVIOUS
<1>2. PICK h : h = Flag(f, a, u)
  OBVIOUS
<1>3. PICK g : g = MergeNext(h, a)
  OBVIOUS
<1>4. /\ ListOK(g, k)
      /\ a \in DOMAIN g /\ g[a].free /\ ~FreeNext(g, a)
      /\ \A x \in DOMAIN g : g[x].free /\ FreeNext(g, x) => g[x].next = a
      /\ (\A v : v \in InUse(g) <=> v \in InUse(f) /\ v # a)
      /\ SameSizes(f, g, a)
  <2>1. ListOK(g, k) /\ HalfFreed(f, a, g)
    BY <1>1, <1>2, <1>3, FlaggedFacts
  <2>2. QED
    BY <2>1 DEF HalfFreed
<1>5. r = IF FreePrev(g, a) = {} THEN g
          ELSE Absorb(g, CHOOSE p \in FreePrev(g, a) : TRUE)
  BY <1>1, <1>2, <1>3 DEF Freed
<1>6. CASE FreePrev(g, a) = {}
  <2>1. Merged(g)
    BY <1>4, <1>6 DEF Merged, FreePrev
  <2>2. QED
    BY <1>4, <1>5, <1>6, <2>1 DEF GoodList
<1>7. CASE FreePrev(g, a) # {}
  <2>1. PICK p \in FreePrev(g, a) : r = Absorb(g, p)
    BY <1>5, <1>7
  <2>2. p \in DOMAIN g /\ g[p].next = a /\ g[p].free
    BY <2>1 DEF FreePrev
  <2>3. a # NoBlock /\ a \in Nat
    BY <1>4 DEF ListOK, NoBlock
  <2>4. /\ ListOK(r, k)
        /\ (\A v : v \in DOMAIN r <=> v \in DOMAIN g /\ v # a)
        /\ \A x \in DOMAIN g \ {p, a} : r[x] = g[x]
        /\ r[p].free = g[p].free
    <3>1. ListOK(r, k) /\ Absorbed(g, p, a, r)
      BY <1>4, <2>1, <2>2, <2>3, AbsorbFacts
    <3>2. QED
      BY <3>1 DEF Absorbed
  <2>5. /\ \A x \in DOMAIN g : x # p /\ x # a /\ FreeNext(r, x) => FreeNext(g, x)
        /\ FreeNext(r, p) => FreeNext(g, a)
    BY <1>4, <2>1, <2>2, <2>3, AbsorbNext DEF AbsorbedNext
  <2>6. \A x \in DOMAIN g : g[x].next = a => x = p
    BY <1>4, <2>2, <2>3, OnePrev
  <2>7. Merged(r)
    BY <1>4, <2>4, <2>5, <2>6 DEF Merged
  <2>8. /\ \A x : x \in InUse(r) <=> x \in InUse(g)
        /\ \A x \in InUse(g) : r[x] = g[x]
    BY <1>4, <2>2, <2>4 DEF InUse
  <2>9. QED
    BY <1>4, <2>4, <2>7, <2>8 DEF GoodList, SameSizes
<1>8. QED
  BY <1>6, <1>7

-----------------------------------------------------------------------------
(***************************************************************************)
(* Pages.                                                                  *)
(***************************************************************************)
\* Division with remainder.
LEMMA DivFacts ==
    ASSUME NEW p \in Nat \ {0}, NEW m \in Nat
    PROVE  /\ m \div p \in Nat /\ m % p \in 0 .. p - 1
           /\ m = p * (m \div p) + (m % p)
<1>1. m \div p \in Int
  OBVIOUS
<1>2. m % p \in 0 .. p - 1
  OBVIOUS
<1>3. m = p * (m \div p) + (m % p)
  BY SMTT(30)
<1>4. m \div p >= 0
  BY <1>1, <1>2, <1>3
<1>5. QED
  BY <1>1, <1>2, <1>3, <1>4

\* Multiples of p less than p apart.
LEMMA Mono ==
  ASSUME NEW p \in Nat \ {0}, NEW q \in Int, NEW k \in Int, p * q < p * k + p
  PROVE  p * q <= p * k
<1>1. CASE q <= k
  <2>1. PICK d \in Nat : k = q + d
    <3>1. k - q \in Nat /\ k = q + (k - q)
      BY <1>1
    <3>2. QED
      BY <3>1
  <2>2. p * k = p * q + p * d /\ p * d \in Nat /\ p * q \in Int
    BY <2>1
  <2>3. QED
    BY <2>2
<1>2. CASE q > k
  <2>1. PICK d \in Nat : q = k + 1 + d
    <3>1. q - k - 1 \in Nat /\ q = k + 1 + (q - k - 1)
      BY <1>2
    <3>2. QED
      BY <3>1
  <2>2. p * q = p * k + p + p * d /\ p * d \in Nat /\ p * q \in Int /\ p * k \in Int
    BY <2>1
  <2>3. QED
    BY <2>2
<1>3. QED
  BY <1>1, <1>2

\* Rounding up to a page stays within an arena of whole pages.
LEMMA TargetFacts ==
    ASSUME NEW p \in Nat \ {0}, NEW A \in Nat, A % p = 0, NEW b \in Nat, b <= A
    PROVE  /\ ((b + p - 1) \div p) * p \in Nat
           /\ b <= ((b + p - 1) \div p) * p
           /\ ((b + p - 1) \div p) * p <= A
<1>1. PICK m \in Nat : m = b + p - 1
  <2>1. b + p - 1 \in Nat
    OBVIOUS
  <2>2. QED
    BY <2>1
<1>2. PICK q \in Nat, r \in 0 .. p - 1 : q = m \div p /\ m = p * q + r
  BY DivFacts
<1>3. PICK k \in Nat : A = p * k
  <2>1. A \div p \in Nat /\ A = p * (A \div p) + 0
    BY DivFacts
  <2>2. A = p * (A \div p)
    BY <2>1
  <2>3. QED
    BY <2>1, <2>2
<1>4. p * q \in Nat /\ q * p = p * q /\ p * k \in Nat
  OBVIOUS
<1>5. b <= p * q
  BY <1>1, <1>2, <1>4
<1>6. p * q < p * k + p
  BY <1>1, <1>2, <1>3, <1>4
<1>7. p * q <= A
  BY <1>3, <1>6, Mono
<1>8. QED
  BY <1>1, <1>2, <1>4, <1>5, <1>7

-----------------------------------------------------------------------------
(***************************************************************************)
(* The inductive invariant.  Beyond the properties it says that the blocks *)
(* a realloc has in hand are in use and its own, and that it copies less   *)
(* than it asked for.                                                      *)
(***************************************************************************)
Committed == brk \in Nat /\ end \in Nat /\ brk <= end /\ end <= Arena

LiveOK ==
    /\ live \in [DOMAIN live -> Request]
    /\ \A x : x \in DOMAIN live <=> x \in InUse(blk)
    /\ \A x \in DOMAIN live : blk[x].size >= live[x]

MoveRec == [old : Nat \cup {NoBlock}, copy : Nat, want : 0 .. MaxReq, new : Nat \cup {NoBlock}]

\* The realloc m has its blocks in hand.
InHand(m) ==
    \/ m = NoMove
    \/ /\ m.old \in DOMAIN live
       /\ m.copy <= blk[m.old].size
       /\ m.copy < m.want /\ m.want \in Request
       /\ m.new # m.old
       /\ m.new # NoBlock => m.new \in DOMAIN live /\ live[m.new] = m.want

Apart(m, n) ==
    /\ m.old # NoBlock => m.old # n.old /\ m.old # n.new
    /\ m.new # NoBlock => m.new # n.new

MoveOK ==
    /\ move \in [Client -> MoveRec]
    /\ \A c \in Client : InHand(move[c])
    /\ \A c, d \in Client : c # d => Apart(move[c], move[d])

Inv == GoodList(blk, brk) /\ Committed /\ LiveOK /\ MoveOK

LEMMA NatReq == Request \subseteq Nat \ {0}
  BY Consts DEF Request

LEMMA InitInv == HeapInit => Inv
<1> SUFFICES ASSUME HeapInit PROVE Inv
  OBVIOUS
<1>1. DOMAIN blk = {} /\ brk = 0
  BY DEF HeapInit
<1>2. blk \in [DOMAIN blk -> HeaderType]
  BY DEF HeapInit
<1>3. GoodList(blk, brk)
  BY <1>1, <1>2 DEF GoodList, ListOK, TiledList, Merged
<1>4. Committed
  BY HeapAssumption DEF HeapInit, Committed
<1>5. LiveOK
  BY DEF HeapInit, LiveOK, InUse
<1>6. NoMove \in MoveRec
  BY Consts DEF NoMove, MoveRec, NoBlock
<1>7. \A c \in Client : move[c] = NoMove
  BY DEF HeapInit
<1>8. NoMove.old = NoBlock /\ NoMove.new = NoBlock
  BY DEF NoMove
<1>9. MoveOK
  BY <1>6, <1>7, <1>8 DEF HeapInit, MoveOK, InHand, Apart
<1>10. QED
  BY <1>3, <1>4, <1>5, <1>9 DEF Inv

\* sbrk_locked that succeeds.
LEMMA GrowKeeps ==
    ASSUME Committed, NEW b \in Nat, Grow(b)
    PROVE  brk' = b /\ Committed'
<1>1. b <= Arena /\ brk' = b /\ end' = IF b > end THEN Target(b) ELSE end
  BY DEF Grow
<1>2. Target(b) \in Nat /\ b <= Target(b) /\ Target(b) <= Arena
  BY <1>1, HeapAssumption, Consts, TargetFacts DEF Target
<1>3. end' \in Nat /\ b <= end' /\ end' <= Arena
  BY <1>1, <1>2 DEF Committed
<1>4. QED
  BY <1>1, <1>3 DEF Committed

\* sbrk_locked that fails.
LEMMA GrowFailsKeeps ==
    ASSUME Committed, NEW b \in Nat, GrowFails(b)
    PROVE  brk' = brk /\ Committed'
<1>1. CASE b > Arena
  BY <1>1, Consts DEF GrowFails, Committed
<1>2. CASE b <= Arena
  <2>1. Target(b) \in Nat /\ Target(b) <= Arena
    BY <1>2, HeapAssumption, Consts, TargetFacts DEF Target
  <2>2. brk' = brk /\ end' \in end .. Target(b) - 1
    BY <1>2, Consts DEF GrowFails
  <2>3. QED
    BY <2>1, <2>2, Consts DEF Committed
<1>3. QED
  BY <1>1, <1>2, Consts

\* What malloc does for its caller.
MallocDoes(n, a) ==
    /\ GoodList(blk, brk)' /\ Committed'
    /\ a \notin InUse(blk)
    /\ \A v : v \in InUse(blk)' <=> v \in InUse(blk) \/ v = a
    /\ a \in Nat /\ blk'[a].size >= n
    /\ SameSizes(blk, blk', NoBlock)

LEMMA MallocKeeps ==
    ASSUME Inv, NEW n \in Request, NEW a, Malloc(n, a)
    PROVE  MallocDoes(n, a)
<1>1. n \in Nat \ {0}
  BY NatReq
<1>2. GoodList(blk, brk) /\ Committed /\ brk \in Nat
  BY DEF Inv, Committed
<1>3. ListOK(blk, brk)
  BY <1>2 DEF GoodList
<1>4. PICK f, g, k : f = blk /\ g = blk' /\ k = brk
  OBVIOUS
<1>5. CASE MallocFit(n, a)
  <2>1. a \in DOMAIN f /\ f[a].free /\ f[a].size >= n
    BY <1>4, <1>5 DEF MallocFit, FirstFit, Fits, Blocks
  <2>2. g = Taken(f, a, n) /\ brk' = brk /\ end' = end
    BY <1>4, <1>5 DEF MallocFit, Taken
  <2>3. /\ GoodList(g, k)
        /\ (\A v : v \in InUse(g) <=> v \in InUse(f) \/ v = a)
        /\ g[a].size >= n
        /\ SameSizes(f, g, NoBlock)
    BY <1>1, <1>2, <1>4, <2>1, <2>2, TakenFacts
  <2>4. Committed'
    BY <1>2, <2>2 DEF Committed
  <2>5. a \notin InUse(f) /\ a \in Nat
    BY <1>3, <1>4, <2>1 DEF InUse, ListOK
  <2>6. QED
    BY <1>4, <2>2, <2>3, <2>4, <2>5 DEF MallocDoes
<1>6. CASE MallocFirst(n, a)
  <2>1. DOMAIN f = {} /\ a = 0 /\ Grow(brk + H + n) /\ g = Single(f, n)
    BY <1>4, <1>6 DEF MallocFirst, Blocks, Single
  <2>2. k = 0
    BY <1>3, <1>4, <2>1 DEF ListOK, TiledList
  <2>3. ListOK(g, H + n) /\ DOMAIN g = {0} /\ g[0].size = n /\ ~g[0].free
    BY <1>1, <2>1, FirstFacts
  <2>4. brk + H + n \in Nat /\ brk + H + n = H + n
    BY <1>1, <1>4, <2>2, Consts
  <2>5. brk' = H + n /\ Committed'
    BY <1>2, <2>1, <2>4, GrowKeeps
  <2>6. GoodList(g, H + n)
    BY <2>3 DEF GoodList, Merged
  <2>7. \A v : v \in InUse(g) <=> v = 0
    BY <2>3 DEF InUse
  <2>8. InUse(f) = {}
    BY <2>1 DEF InUse
  <2>9. SameSizes(f, g, NoBlock)
    BY <2>8 DEF SameSizes
  <2>10. n >= n
    BY <1>1
  <2>11. QED
    BY <1>4, <2>1, <2>3, <2>5, <2>6, <2>7, <2>8, <2>9, <2>10 DEF MallocDoes
<1>7. CASE MallocGrow(n, a)
  <2>1. PICK z \in DOMAIN f : /\ f[z].next = NoBlock
                              /\ a = Behind(f, z) /\ a = k
                              /\ Grow(k + H + n) /\ g = AppendBlock(f, z, a, n)
    BY <1>4, <1>7 DEF MallocGrow, Blocks, LastBlock, AppendBlock
  <2>2. PICK e : e = k + H + n
    OBVIOUS
  <2>3. /\ GoodList(g, e)
        /\ k \notin DOMAIN f
        /\ (\A v : v \in InUse(g) <=> v \in InUse(f) \/ v = k)
        /\ g[k].size = n
        /\ SameSizes(f, g, NoBlock)
    <3>1. GoodList(g, e) /\ Appended(f, k, n, g)
      BY <1>1, <1>2, <1>4, <2>1, <2>2, AppendedFacts
    <3>2. QED
      BY <3>1 DEF Appended
  <2>4. e \in Nat
    BY <1>1, <1>2, <1>4, <2>2, Consts
  <2>5. brk' = e /\ Committed'
    BY <1>2, <2>1, <2>2, <2>4, GrowKeeps
  <2>6. k \notin InUse(f)
    BY <2>3 DEF InUse
  <2>7. n >= n
    BY <1>1
  <2>8. QED
    BY <1>2, <1>4, <2>1, <2>3, <2>5, <2>6, <2>7 DEF MallocDoes
<1>8. QED
  BY <1>5, <1>6, <1>7 DEF Malloc

\* The block x, its caller's claim and its size are as before.
Kept(x) == x \in DOMAIN live' /\ live'[x] = live[x] /\ blk'[x].size = blk[x].size

HeapOK == GoodList(blk, brk) /\ Committed /\ LiveOK

\* malloc and the caller that holds what it returns.
LEMMA AllocDoes ==
    ASSUME Inv, NEW n \in Request, NEW a, Malloc(n, a), live' = Replace(live, a, n)
    PROVE  /\ HeapOK'
           /\ a \notin DOMAIN live /\ a \in Nat
           /\ a \in DOMAIN live' /\ live'[a] = n
           /\ \A x \in DOMAIN live : Kept(x)
<1>1. MallocDoes(n, a)
  BY MallocKeeps
<1>2. LiveOK /\ ListOK(blk, brk)
  BY DEF Inv, GoodList
<1>3. \A x \in InUse(blk) : x \in DOMAIN live /\ x # a /\ x # NoBlock
  BY <1>1, <1>2 DEF MallocDoes, LiveOK, InUse, ListOK, NoBlock
<1>4. live' = [x \in DOMAIN live \cup {a} |-> IF x = a THEN n ELSE live[x]]
  BY DEF Replace
<1>5. /\ a \notin DOMAIN live
      /\ a \in DOMAIN live' /\ live'[a] = n
      /\ \A x \in DOMAIN live : x \in DOMAIN live' /\ live'[x] = live[x]
      /\ \A x \in DOMAIN live' : x = a \/ x \in DOMAIN live
  BY <1>1, <1>2, <1>4 DEF MallocDoes, LiveOK
<1>6. \A x \in DOMAIN live : blk'[x].size = blk[x].size
  BY <1>1, <1>2, <1>3 DEF MallocDoes, LiveOK, SameSizes
<1>7. LiveOK'
  <2>1. live' \in [DOMAIN live' -> Request]
    BY <1>2, <1>4 DEF LiveOK
  <2>2. \A x : x \in DOMAIN live' <=> x \in InUse(blk)'
    BY <1>1, <1>2, <1>5 DEF MallocDoes, LiveOK
  <2>3. \A x \in DOMAIN live' : blk'[x].size >= live'[x]
    BY <1>1, <1>2, <1>5, <1>6 DEF MallocDoes, LiveOK
  <2>4. QED
    BY <2>1, <2>2, <2>3 DEF LiveOK
<1>8. QED
  BY <1>1, <1>5, <1>6, <1>7 DEF HeapOK, Kept, MallocDoes

\* free of a block that somebody holds.
LEMMA FreeDoes ==
    ASSUME Inv, NEW a \in DOMAIN live, FreeBlock(a), live' = Without(live, a)
    PROVE  /\ HeapOK'
           /\ \A x \in DOMAIN live : x # a => Kept(x)
<1>1. GoodList(blk, brk) /\ Committed /\ LiveOK /\ brk \in Nat
  BY DEF Inv, Committed
<1>2. PICK f, g, k : f = blk /\ g = blk' /\ k = brk
  OBVIOUS
<1>3. g = Freed(f, a) /\ brk' = brk /\ end' = end
  BY <1>2 DEF FreeBlock
<1>4. a \in InUse(f)
  BY <1>1, <1>2 DEF LiveOK
<1>5. /\ GoodList(g, k)
      /\ (\A v : v \in InUse(g) <=> v \in InUse(f) /\ v # a)
      /\ SameSizes(f, g, a)
  BY <1>1, <1>2, <1>3, <1>4, FreedFacts
<1>6. live' = [x \in DOMAIN live \ {a} |-> live[x]]
  BY DEF Without
<1>7. \A x \in DOMAIN live : x # a => Kept(x)
  BY <1>1, <1>2, <1>5, <1>6 DEF Kept, LiveOK, SameSizes
<1>8. LiveOK'
  <2>1. live' \in [DOMAIN live' -> Request]
    BY <1>1, <1>6 DEF LiveOK
  <2>2. \A x : x \in DOMAIN live' <=> x \in InUse(g)
    BY <1>1, <1>2, <1>5, <1>6 DEF LiveOK
  <2>3. \A x \in DOMAIN live' : blk'[x].size >= live'[x]
    BY <1>1, <1>6, <1>7 DEF LiveOK, Kept
  <2>4. QED
    BY <1>2, <2>1, <2>2, <2>3 DEF LiveOK
<1>9. GoodList(blk, brk)' /\ Committed'
  BY <1>1, <1>2, <1>3, <1>5 DEF Committed
<1>10. QED
  BY <1>7, <1>8, <1>9 DEF HeapOK

\* realloc in place.
LEMMA ResizeDoes ==
    ASSUME Inv, NEW a \in DOMAIN live, NEW n \in Request,
           ReallocShrink(a, n) \/ ReallocGrow(a, n)
    PROVE  /\ HeapOK'
           /\ \A x \in DOMAIN live : x # a => Kept(x)
<1>0. n \in Nat \ {0}
  BY NatReq
<1>1. GoodList(blk, brk) /\ Committed /\ LiveOK /\ brk \in Nat
  BY DEF Inv, Committed
<1>2. PICK f, g, k : f = blk /\ g = blk' /\ k = brk
  OBVIOUS
<1>3. brk' = brk /\ end' = end /\ live' = Replace(live, a, n)
  BY DEF ReallocShrink, ReallocGrow
<1>4. a \in InUse(f)
  BY <1>1, <1>2 DEF LiveOK
<1>t. a \in DOMAIN f /\ f[a].size \in Nat
  BY <1>1, <1>2, <1>4 DEF GoodList, ListOK, HeaderType, InUse
<1>5. /\ GoodList(g, k)
      /\ \A v : v \in InUse(g) <=> v \in InUse(f)
      /\ SameSizes(f, g, a)
      /\ g[a].size >= n
  <2>1. CASE ReallocShrink(a, n) /\ f[a].size - n > H + 1
    <3>1. PICK b, s : b = a + H + n /\ s = Split(f, a, n)
      OBVIOUS
    <3>2. g = MergeNext(s, b)
      BY <1>2, <2>1, <3>1 DEF ReallocShrink
    <3>3. f[a].size - n > H
      BY <1>0, <1>t, <2>1, Consts
    <3>4. /\ GoodList(g, k) /\ InUse(g) = InUse(f) /\ g[a].size = n /\ SameSizes(f, g, a)
      BY <1>0, <1>1, <1>2, <1>4, <3>1, <3>2, <3>3, ShrunkFacts
    <3>5. QED
      BY <1>0, <3>4
  <2>2. CASE ReallocShrink(a, n) /\ ~(f[a].size - n > H + 1)
    <3>1. g = f /\ f[a].size >= n
      BY <1>2, <2>2 DEF ReallocShrink
    <3>2. QED
      BY <1>1, <1>2, <3>1 DEF SameSizes
  <2>3. CASE ReallocGrow(a, n)
    <3>1. g = Absorb(f, a) /\ FreeNext(f, a) /\ f[a].size + H + f[f[a].next].size >= n
      BY <1>2, <2>3 DEF ReallocGrow, Roomy
    <3>2. /\ GoodList(g, k) /\ InUse(g) = InUse(f)
          /\ g[a].size = f[a].size + H + f[f[a].next].size /\ SameSizes(f, g, a)
      BY <1>1, <1>2, <1>4, <3>1, GrownFacts
    <3>3. QED
      BY <3>1, <3>2
  <2>4. QED
    BY <2>1, <2>2, <2>3
<1>6. live' = [x \in DOMAIN live |-> IF x = a THEN n ELSE live[x]]
  BY <1>3 DEF Replace
<1>7. \A x \in DOMAIN live : x # a => Kept(x)
  BY <1>1, <1>2, <1>5, <1>6 DEF Kept, LiveOK, SameSizes
<1>8. LiveOK'
  <2>1. live' \in [DOMAIN live' -> Request]
    BY <1>1, <1>6 DEF LiveOK
  <2>2. \A x : x \in DOMAIN live' <=> x \in InUse(g)
    BY <1>1, <1>2, <1>5, <1>6 DEF LiveOK
  <2>3. \A x \in DOMAIN live' : blk'[x].size >= live'[x]
    BY <1>1, <1>2, <1>5, <1>6, <1>7 DEF LiveOK, Kept
  <2>4. QED
    BY <1>2, <2>1, <2>2, <2>3 DEF LiveOK
<1>9. GoodList(blk, brk)' /\ Committed'
  BY <1>1, <1>2, <1>3, <1>5 DEF Committed
<1>10. QED
  BY <1>7, <1>8, <1>9 DEF HeapOK

-----------------------------------------------------------------------------
(***************************************************************************)
(* The reallocs that are under way.                                        *)
(***************************************************************************)
\* A realloc keeps its blocks in hand while they are kept.
LEMMA HandKept ==
    ASSUME NEW m, InHand(m),
           m # NoMove /\ m.old \in DOMAIN live => Kept(m.old),
           m # NoMove /\ m.new \in DOMAIN live => Kept(m.new)
    PROVE  InHand(m)'
  BY DEF InHand, Kept

\* A step that no realloc takes.
LEMMA MovesKept ==
    ASSUME Inv, move' = move, \A x \in DOMAIN live : x \in Moving => Kept(x)
    PROVE  MoveOK'
<1>1. MoveOK
  BY DEF Inv
<1>2. ASSUME NEW c \in Client PROVE InHand(move[c])'
  <2>1. PICK m : m = move[c]
    OBVIOUS
  <2>2. m.old \in Moving /\ m.new \in Moving
    BY <2>1 DEF Moving
  <2>3. InHand(m)
    BY <1>1, <2>1 DEF MoveOK
  <2>4. InHand(m)'
    BY <2>2, <2>3, HandKept
  <2>5. QED
    BY <2>1, <2>4
<1>3. QED
  BY <1>1, <1>2 DEF MoveOK

\* A step of the realloc of client c, which leaves it as the record r.
LEMMA MovesStep ==
    ASSUME Inv, NEW c \in Client, NEW r \in MoveRec, move' = [move EXCEPT ![c] = r],
           InHand(r)',
           \A d \in Client \ {c} : Apart(r, move[d]) /\ Apart(move[d], r),
           \A d \in Client \ {c} :
               /\ move[d].old \in DOMAIN live => Kept(move[d].old)
               /\ move[d].new \in DOMAIN live => Kept(move[d].new)
    PROVE  MoveOK'
<1>1. MoveOK
  BY DEF Inv
<1>2. move' \in [Client -> MoveRec] /\ move'[c] = r
      /\ \A d \in Client \ {c} : move'[d] = move[d]
  BY <1>1 DEF MoveOK
<1>3. ASSUME NEW d \in Client PROVE InHand(move[d])'
  <2>1. CASE d = c
    BY <1>2, <2>1 DEF InHand
  <2>2. CASE d # c
    <3>1. PICK m : m = move[d]
      OBVIOUS
    <3>2. InHand(m)
      BY <1>1, <3>1 DEF MoveOK
    <3>3. InHand(m)'
      BY <2>2, <3>1, <3>2, HandKept
    <3>4. m = move'[d]
      BY <1>2, <2>2, <3>1
    <3>5. QED
      BY <3>3, <3>4 DEF InHand
  <2>3. QED
    BY <2>1, <2>2
<1>4. ASSUME NEW d \in Client, NEW e \in Client, d # e PROVE Apart(move'[d], move'[e])
  BY <1>1, <1>2, <1>4 DEF MoveOK
<1>5. QED
  BY <1>2, <1>3, <1>4 DEF MoveOK

\* The blocks of a realloc that is under way are in use.
LEMMA HandBusy ==
    ASSUME Inv, NEW c \in Client
    PROVE  /\ move[c].old \in DOMAIN live \cup {NoBlock}
           /\ move[c].new \in DOMAIN live \cup {NoBlock}
  BY DEF Inv, MoveOK, InHand, NoMove

\* No block has the address of the null pointer.
LEMMA LiveNat == ASSUME Inv PROVE NoBlock \notin DOMAIN live /\ DOMAIN live \subseteq Nat
<1>1. DOMAIN live \subseteq Nat
  BY DEF Inv, GoodList, ListOK, LiveOK, InUse
<1>2. QED
  BY <1>1 DEF NoBlock

LEMMA NextInv == Inv /\ [HeapNext]_heapVars => Inv'
<1> SUFFICES ASSUME Inv, [HeapNext]_heapVars PROVE Inv'
  OBVIOUS
<1>0. GoodList(blk, brk) /\ Committed /\ LiveOK /\ MoveOK /\ brk \in Nat
  BY DEF Inv, Committed
<1>1. CASE UNCHANGED heapVars
  BY <1>0, <1>1 DEF heapVars, Inv, Committed, LiveOK, MoveOK, InHand
<1>2. ASSUME NEW n \in Request, AllocCall(n) PROVE Inv'
  <2>1. PICK a : Malloc(n, a) /\ live' = Replace(live, a, n) /\ move' = move
    BY <1>2 DEF AllocCall
  <2>2. HeapOK' /\ \A x \in DOMAIN live : Kept(x)
    BY <2>1, AllocDoes
  <2>3. MoveOK'
    BY <2>1, <2>2, MovesKept
  <2>4. QED
    BY <2>2, <2>3 DEF HeapOK, Inv
<1>3. ASSUME NEW n \in Request, AllocFails(n) PROVE Inv'
  <2>1. brk + H + n \in Nat
    BY <1>0, NatReq, Consts
  <2>2. GrowFails(brk + H + n) /\ blk' = blk /\ live' = live /\ move' = move
    BY <1>3 DEF AllocFails, MallocNull, rest
  <2>3. brk' = brk /\ Committed'
    BY <1>0, <2>1, <2>2, GrowFailsKeeps
  <2>4. LiveOK' /\ MoveOK' /\ GoodList(blk, brk)'
    BY <1>0, <2>2, <2>3 DEF LiveOK, MoveOK, InHand
  <2>5. QED
    BY <2>3, <2>4 DEF Inv
<1>4. ASSUME NEW a \in Blocks, FreeCall(a) PROVE Inv'
  <2>1. a \in DOMAIN live /\ a \notin Moving /\ move' = move
    BY <1>4 DEF FreeCall, Held
  <2>2. HeapOK' /\ \A x \in DOMAIN live : x # a => Kept(x)
    BY <1>4, <2>1, FreeDoes DEF FreeCall
  <2>3. MoveOK'
    BY <2>1, <2>2, MovesKept
  <2>4. QED
    BY <2>2, <2>3 DEF HeapOK, Inv
<1>5. ASSUME NEW a \in Blocks, NEW n \in Request, ReallocShrink(a, n) \/ ReallocGrow(a, n)
      PROVE  Inv'
  <2>1. a \in DOMAIN live /\ a \notin Moving /\ move' = move
    BY <1>5 DEF ReallocShrink, ReallocGrow, Held
  <2>2. HeapOK' /\ \A x \in DOMAIN live : x # a => Kept(x)
    BY <1>5, <2>1, ResizeDoes
  <2>3. MoveOK'
    BY <2>1, <2>2, MovesKept
  <2>4. QED
    BY <2>2, <2>3 DEF HeapOK, Inv
<1>6. ASSUME NEW c \in Client, NEW a \in Blocks, NEW n \in Request, ReallocMove(c, a, n)
      PROVE  Inv'
  <2>1. PICK r : r = [old |-> a, copy |-> blk[a].size, want |-> n, new |-> NoBlock]
    OBVIOUS
  <2>2. /\ a \in DOMAIN live /\ a \notin Moving /\ blk[a].size < n
        /\ move' = [move EXCEPT ![c] = r]
        /\ blk' = blk /\ brk' = brk /\ end' = end /\ live' = live
    BY <1>6, <2>1 DEF ReallocMove, Held
  <2>3. blk[a].size \in Nat /\ a \in Nat
    BY <1>0, <1>6 DEF GoodList, ListOK, HeaderType, Blocks
  <2>4. r.old = a /\ r.copy = blk[a].size /\ r.want = n /\ r.new = NoBlock
    BY <2>1
  <2>5. r \in MoveRec
    BY <2>1, <2>3, NatReq DEF MoveRec, Request
  <2>6. a # NoBlock
    BY <2>3 DEF NoBlock
  <2>7. InHand(r)'
    BY <2>2, <2>3, <2>4, <2>6 DEF InHand
  <2>8. \A d \in Client \ {c} : Apart(r, move[d]) /\ Apart(move[d], r)
    BY <2>2, <2>4 DEF Apart, Moving
  <2>9. \A x \in DOMAIN live : Kept(x)
    BY <2>2 DEF Kept
  <2>10. MoveOK'
    BY <2>2, <2>5, <2>7, <2>8, <2>9, MovesStep
  <2>11. QED
    BY <1>0, <2>2, <2>10 DEF Inv, Committed, LiveOK
<1>7. ASSUME NEW c \in Client, MoveAlloc(c) PROVE Inv'
  <2>1. PICK m : m = move[c]
    OBVIOUS
  <2>2. m # NoMove /\ m.new = NoBlock /\ m \in MoveRec /\ InHand(m)
    BY <1>0, <1>7, <2>1 DEF MoveAlloc, MoveOK
  <2>3. m.want \in Request /\ m.old \in DOMAIN live /\ m.copy <= blk[m.old].size /\ m.copy < m.want
    BY <2>2 DEF InHand
  <2>4. PICK a : /\ Malloc(m.want, a)
                 /\ live' = Replace(live, a, m.want)
                 /\ move' = [move EXCEPT ![c].new = a]
    BY <1>7, <2>1 DEF MoveAlloc
  <2>5. /\ HeapOK'
        /\ a \notin DOMAIN live /\ a \in Nat
        /\ a \in DOMAIN live' /\ live'[a] = m.want
        /\ \A x \in DOMAIN live : Kept(x)
    BY <2>3, <2>4, AllocDoes
  <2>6. PICK r : r = [m EXCEPT !.new = a]
    OBVIOUS
  <2>7. r \in MoveRec /\ r.old = m.old /\ r.copy = m.copy /\ r.want = m.want /\ r.new = a
    BY <2>2, <2>5, <2>6 DEF MoveRec
  <2>8. move' = [move EXCEPT ![c] = r]
    BY <1>0, <2>1, <2>4, <2>6 DEF MoveOK
  <2>9. InHand(r)'
    BY <2>3, <2>5, <2>7 DEF InHand, Kept
  <2>10. \A d \in Client \ {c} : Apart(m, move[d]) /\ Apart(move[d], m)
    BY <1>0, <2>1 DEF MoveOK
  <2>11. a # NoBlock
    BY <2>5 DEF NoBlock
  <2>12. \A d \in Client : move[d].old # a /\ move[d].new # a
    BY <2>5, <2>11, HandBusy
  <2>13. \A d \in Client \ {c} : Apart(r, move[d]) /\ Apart(move[d], r)
    BY <2>7, <2>10, <2>11, <2>12 DEF Apart
  <2>14. MoveOK'
    BY <2>5, <2>7, <2>8, <2>9, <2>13, MovesStep
  <2>15. QED
    BY <2>5, <2>14 DEF HeapOK, Inv
<1>8. ASSUME NEW c \in Client, MoveFails(c) PROVE Inv'
  <2>1. PICK m : m = move[c]
    OBVIOUS
  <2>2. m # NoMove /\ InHand(m)
    BY <1>0, <1>8, <2>1 DEF MoveFails, MoveOK
  <2>3. m.want \in Request
    BY <2>2 DEF InHand
  <2>4. brk + H + m.want \in Nat
    <3>1. PICK n \in Request : n = m.want
      BY <2>3
    <3>2. brk + H + n \in Nat
      BY <1>0, NatReq, Consts
    <3>3. QED
      BY <3>1, <3>2
  <2>5. /\ GrowFails(brk + H + m.want) /\ blk' = blk /\ live' = live
        /\ move' = [move EXCEPT ![c] = NoMove]
    BY <1>8, <2>1 DEF MoveFails, MallocNull
  <2>6. brk' = brk /\ Committed'
    BY <1>0, <2>4, <2>5, GrowFailsKeeps
  <2>7. NoMove \in MoveRec /\ NoMove.old = NoBlock /\ NoMove.new = NoBlock
    BY Consts DEF NoMove, MoveRec, NoBlock
  <2>8. \A d \in Client \ {c} : Apart(NoMove, move[d]) /\ Apart(move[d], NoMove)
    BY <2>7 DEF Apart
  <2>9. InHand(NoMove)'
    BY DEF InHand
  <2>10. \A x \in DOMAIN live : Kept(x)
    BY <2>5 DEF Kept
  <2>11. MoveOK'
    BY <2>5, <2>7, <2>8, <2>9, <2>10, MovesStep
  <2>12. QED
    BY <1>0, <2>5, <2>6, <2>11 DEF Inv, LiveOK
<1>9. ASSUME NEW c \in Client, MoveFree(c) PROVE Inv'
  <2>1. PICK m : m = move[c]
    OBVIOUS
  <2>2. m.new # NoBlock /\ FreeBlock(m.old) /\ live' = Without(live, m.old)
        /\ move' = [move EXCEPT ![c] = NoMove]
    BY <1>9, <2>1 DEF MoveFree
  <2>3. m # NoMove
    BY <2>2 DEF NoMove
  <2>4. m.old \in DOMAIN live
    BY <1>0, <2>1, <2>3 DEF MoveOK, InHand
  <2>5. HeapOK' /\ \A x \in DOMAIN live : x # m.old => Kept(x)
    BY <2>2, <2>4, FreeDoes
  <2>6. m.old # NoBlock
    BY <2>4, LiveNat
  <2>7. \A d \in Client \ {c} : move[d].old # m.old /\ move[d].new # m.old
    BY <1>0, <2>1, <2>6 DEF MoveOK, Apart
  <2>8. NoMove \in MoveRec /\ NoMove.old = NoBlock /\ NoMove.new = NoBlock
    BY Consts DEF NoMove, MoveRec, NoBlock
  <2>9. \A d \in Client \ {c} : Apart(NoMove, move[d]) /\ Apart(move[d], NoMove)
    BY <2>8 DEF Apart
  <2>10. InHand(NoMove)'
    BY DEF InHand
  <2>11. MoveOK'
    BY <2>2, <2>5, <2>7, <2>8, <2>9, <2>10, MovesStep
  <2>12. QED
    BY <2>5, <2>11 DEF HeapOK, Inv
<1>10. QED
  BY <1>1, <1>2, <1>3, <1>4, <1>5, <1>6, <1>7, <1>8, <1>9 DEF HeapNext

-----------------------------------------------------------------------------
(***************************************************************************)
(* Theorems.                                                               *)
(***************************************************************************)

LEMMA InvInvariant == HeapSpec => []Inv
  BY InitInv, NextInv, PTL DEF HeapSpec

\* The type invariant: no header, break or committed page outside the arena.
THEOREM HeapTypeCorrect == HeapSpec => []TypeOK
<1>1. Inv => TypeOK
  <2> SUFFICES ASSUME Inv PROVE TypeOK
    OBVIOUS
  <2>1. ListOK(blk, brk) /\ Committed /\ LiveOK /\ MoveOK
    BY DEF Inv, GoodList
  <2>2. brk \in 0 .. Arena /\ end \in 0 .. Arena
    BY <2>1, Consts DEF Committed
  <2>3. \A a \in DOMAIN blk : a \in Addr
    <3>1. TAKE a \in DOMAIN blk
    <3>2. a \in Nat /\ blk[a].size \in Nat /\ a + H + blk[a].size <= brk
      BY <2>1 DEF ListOK, TiledList, HeaderType, Behind
    <3>3. QED
      BY <2>2, <3>2, Consts DEF Addr
  <2>4. blk \in [Blocks -> [size : Nat \ {0}, next : Addr \cup {NoBlock}, free : BOOLEAN]]
    <3>1. \A a \in DOMAIN blk : blk[a].next \in Addr \cup {NoBlock}
      BY <2>1, <2>3, NextFacts DEF Committed
    <3>2. QED
      BY <2>1, <3>1 DEF ListOK, HeaderType, Blocks
  <2>5. DOMAIN live \subseteq Addr /\ live \in [DOMAIN live -> Request]
    BY <2>1, <2>3 DEF LiveOK, InUse
  <2>6. move \in [Client -> MoveType]
    <3>1. \A c \in Client : move[c] \in MoveRec
                            /\ move[c].old \in Addr \cup {NoBlock}
                            /\ move[c].new \in Addr \cup {NoBlock}
      BY <2>1, <2>5, HandBusy DEF MoveOK
    <3>2. \A c \in Client : move[c] \in MoveType
      BY <3>1 DEF MoveRec, MoveType
    <3>3. QED
      BY <2>1, <3>2 DEF MoveOK
  <2>7. QED
    BY <2>2, <2>3, <2>4, <2>5, <2>6 DEF TypeOK, Blocks
<1>2. QED
  BY <1>1, InvInvariant, PTL

\* The list always tiles the arena up to a committed break.
THEOREM HeapTiled == HeapSpec => []Tiled
<1>1. Inv => Tiled
  BY DEF Inv, GoodList, ListOK, Committed, Tiled
<1>2. QED
  BY <1>1, InvInvariant, PTL

\* Free blocks are always merged.
THEOREM HeapCoalesced == HeapSpec => []Coalesced
<1>1. Inv => Coalesced
  BY DEF Inv, GoodList, Coalesced
<1>2. QED
  BY <1>1, InvInvariant, PTL

\* What callers hold is in use, is theirs and is as large as they asked.
THEOREM HeapHeldIntact == HeapSpec => []HeldIntact
<1>1. Inv => HeldIntact
  <2> SUFFICES ASSUME Inv PROVE HeldIntact
    OBVIOUS
  <2>1. LiveOK
    BY DEF Inv
  <2>2. DOMAIN live = {a \in Blocks : ~blk[a].free}
    BY <2>1 DEF LiveOK, InUse, Blocks
  <2>3. QED
    BY <2>1, <2>2 DEF HeldIntact, LiveOK
<1>2. QED
  BY <1>1, InvInvariant, PTL

\* What realloc copies fits both blocks, though it let go of the lock.
THEOREM HeapCopyFits == HeapSpec => []CopyFits
<1>1. Inv => CopyFits
  <2> SUFFICES ASSUME Inv, NEW c \in Client, move[c].new # NoBlock
               PROVE  /\ {move[c].old, move[c].new} \subseteq DOMAIN live
                      /\ move[c].copy <= blk[move[c].old].size
                      /\ move[c].copy <= blk[move[c].new].size
    BY DEF CopyFits
  <2>1. LiveOK /\ MoveOK
    BY DEF Inv
  <2>2. PICK m : m = move[c]
    OBVIOUS
  <2>3. m # NoMove /\ m \in MoveRec /\ InHand(m)
    BY <2>1, <2>2 DEF NoMove, MoveOK
  <2>4. /\ m.old \in DOMAIN live /\ m.new \in DOMAIN live
        /\ m.copy <= blk[m.old].size
        /\ m.copy < m.want /\ live[m.new] = m.want
    BY <2>2, <2>3 DEF InHand
  <2>5. blk[m.new].size >= m.want /\ blk[m.new].size \in Nat
    BY <2>1, <2>4 DEF LiveOK, Inv, GoodList, ListOK, HeaderType, InUse
  <2>6. m.copy \in Nat /\ m.want \in Nat
    BY <2>3, Consts DEF MoveRec
  <2>7. m.copy <= blk[m.new].size
    BY <2>4, <2>5, <2>6
  <2>8. QED
    BY <2>2, <2>4, <2>7
<1>2. QED
  BY <1>1, InvInvariant, PTL
-----------------------------------------------------------------------------
(***************************************************************************)
(* Windows.  A live window's handle is determined by its slot as long as   *)
(* the generations fit in a handle; so z_order, which lists live handles   *)
(* once each, never fills up before a window that is not on it is pushed.  *)
(***************************************************************************)
WinRec == [valid : BOOLEAN, generation : Nat, state : 0 .. 3, focused : BOOLEAN, x : Int, width : Int,
           pixels : BOOLEAN, by : {"kernel", "program"}]
HandleRec == [id : Slot, gen : Nat]

\* The window is to be found in z_order: it is visible and only window_* set its state.
Shown(w) == w.by = "kernel" /\ w.state = VISIBLE
Listed(W, z) ==
    \A s \in Slot : W[s].valid /\ Shown(W[s]) => Contains(z, [id |-> s, gen |-> W[s].generation])
AnswersIn(W, h) == W[h.id].valid /\ W[h.id].generation = h.gen
FocusOne(W) ==
    \A s \in Slot : W[s].valid /\ W[s].focused =>
        /\ W[s].by = "kernel" => W[s].state = VISIBLE
        /\ \A t \in Slot : W[t].valid /\ W[t].focused => s = t
GensBelow(W, n) == \A s \in Slot : W[s].valid => W[s].generation \in 1 .. n - 1
DeadGone(W, D, n) == \A h \in D : h \in HandleRec /\ h.gen < n /\ ~AnswersIn(W, h)
ZSound(W, z) ==
    /\ z \in Seq(HandleRec) /\ IsInjective(z)
    /\ \A i \in DOMAIN z : AnswersIn(W, z[i])

WinBody ==
    /\ ZSound(windows, z_order) /\ Listed(windows, z_order)
    /\ FocusOne(windows) /\ GensBelow(windows, next_generation)
    /\ DeadGone(windows, dead, next_generation)
WinInv ==
    /\ windows \in [Slot -> WinRec] /\ next_generation \in Nat \ {0}
    /\ next_generation <= GenMod => WinBody

\* z_order_remove takes one handle off and keeps the rest, each once.
LEMMA RemoveSound ==
    ASSUME NEW z \in Seq(HandleRec), IsInjective(z), NEW h
    PROVE  LET Z == z_order_remove(z, h)
           IN  /\ Z \in Seq(HandleRec) /\ IsInjective(Z)
               /\ \A i \in DOMAIN Z : Z[i] # h /\ Contains(z, Z[i])
               /\ \A e : Contains(z, e) /\ e # h => Contains(Z, e)
<1> DEFINE Z == z_order_remove(z, h)
           k == z_order_index(z, h)
           n == Len(z)
<1>1. n \in Nat /\ DOMAIN z = 1 .. n /\ \A i \in 1 .. n : z[i] \in HandleRec
  OBVIOUS
<1>2. CASE ~Contains(z, h)
  <2>1. k = 0
    BY <1>2 DEF z_order_index
  <2>2. Z = z
    BY <2>1 DEF z_order_remove
  <2>3. \A i \in DOMAIN z : z[i] # h /\ Contains(z, z[i])
    BY <1>1, <1>2 DEF Contains
  <2> HIDE DEF Z
  <2> QED BY <2>2, <2>3 DEF Z
<1>3. CASE Contains(z, h)
  <2>1. PICK j \in 1 .. n : z[j] = h
    BY <1>3 DEF Contains
  <2>2. k = CHOOSE i \in DOMAIN z : z[i] = h /\ \A l \in DOMAIN z : z[l] = h => i <= l
    BY <1>3 DEF z_order_index
  <2>3. \E i \in DOMAIN z : z[i] = h /\ \A l \in DOMAIN z : z[l] = h => i <= l
    BY <1>1, <2>1 DEF IsInjective
  <2>4. k \in 1 .. n /\ z[k] = h
    <3> HIDE DEF k
    <3> QED BY <1>1, <2>2, <2>3
  <2> HIDE DEF k, n
  <2>5. k # 0 /\ n - 1 \in Nat
    BY <1>1, <2>4
  <2>6. Z = [i \in 1 .. n - 1 |-> IF i < k THEN z[i] ELSE z[i + 1]]
    BY <2>5 DEF z_order_remove, k, n
  <2> HIDE DEF Z
  <2> DEFINE o(i) == IF i < k THEN i ELSE i + 1
  <2>7. \A i \in 1 .. n - 1 : o(i) \in 1 .. n /\ o(i) # k /\ Z[i] = z[o(i)]
    BY <1>1, <2>4, <2>6
  <2>8. DOMAIN Z = 1 .. n - 1 /\ Z \in Seq(HandleRec) /\ Len(Z) = n - 1
    <3>1. Z \in [1 .. n - 1 -> HandleRec]
      BY <1>1, <2>6, <2>7
    <3> QED BY <2>5, <3>1
  <2>9. \A i \in DOMAIN Z : Z[i] # h /\ Contains(z, Z[i])
    BY <1>1, <2>4, <2>7, <2>8 DEF IsInjective, Contains, n
  <2>10. IsInjective(Z)
    <3> SUFFICES ASSUME NEW a \in 1 .. n - 1, NEW b \in 1 .. n - 1, Z[a] = Z[b] PROVE a = b
      BY <2>8 DEF IsInjective
    <3>1. o(a) = o(b)
      BY <1>1, <2>7 DEF IsInjective
    <3> QED BY <1>1, <2>4, <3>1
  <2>11. ASSUME NEW e, Contains(z, e), e # h PROVE Contains(Z, e)
    <3>1. PICK i \in 1 .. n : z[i] = e
      BY <2>11 DEF Contains, n
    <3>2. i # k
      BY <2>4, <2>11, <3>1
    <3> DEFINE y == IF i < k THEN i ELSE i - 1
    <3>3. y \in 1 .. n - 1 /\ o(y) = i
      BY <1>1, <2>4, <3>2
    <3>4. Z[y] = e
      BY <2>7, <3>1, <3>3
    <3> HIDE DEF y
    <3> QED BY <2>8, <3>3, <3>4 DEF Contains
  <2> QED BY <2>8, <2>9, <2>10, <2>11 DEF Z
<1> QED BY <1>2, <1>3

\* Handles that answer are told apart by their slots, so there is room for one more.
LEMMA RoomOnTop ==
    ASSUME NEW W \in [Slot -> WinRec], NEW z, ZSound(W, z), NEW h \in HandleRec, AnswersIn(W, h), ~Contains(z, h)
    PROVE  Len(z) < Cardinality(Slot)
<1> DEFINE n == Len(z)
           g == [i \in 1 .. n + 1 |-> IF i <= n THEN z[i].id ELSE h.id]
<1>1. n \in Nat /\ DOMAIN z = 1 .. n /\ \A i \in 1 .. n : z[i] \in HandleRec /\ AnswersIn(W, z[i]) /\ z[i] # h
  BY DEF ZSound, Contains
<1>2. \A a, b \in HandleRec : AnswersIn(W, a) /\ AnswersIn(W, b) /\ a.id = b.id => a = b
  BY DEF AnswersIn, HandleRec
<1>3. g \in [1 .. n + 1 -> Slot]
  BY <1>1 DEF HandleRec
<1>4. ASSUME NEW a \in 1 .. n + 1, NEW b \in 1 .. n + 1, g[a] = g[b] PROVE a = b
  <2>1. CASE a <= n /\ b <= n
    <3>1. a \in 1 .. n /\ b \in 1 .. n /\ z[a].id = z[b].id
      BY <1>1, <1>4, <2>1
    <3>2. z[a] = z[b]
      BY <1>1, <1>2, <3>1
    <3> QED BY <1>1, <3>1, <3>2 DEF ZSound, IsInjective
  <2>2. CASE a <= n /\ ~(b <= n)
    <3>1. a \in 1 .. n /\ z[a].id = h.id
      BY <1>1, <1>4, <2>2
    <3> QED BY <1>1, <1>2, <3>1
  <2>3. CASE ~(a <= n) /\ b <= n
    <3>1. b \in 1 .. n /\ z[b].id = h.id
      BY <1>1, <1>4, <2>3
    <3> QED BY <1>1, <1>2, <3>1
  <2>4. CASE ~(a <= n) /\ ~(b <= n)
    BY <1>1, <2>4
  <2> QED BY <2>1, <2>2, <2>3, <2>4
<1>5. g \in Injection(1 .. n + 1, Slot)
  <2> HIDE DEF g
  <2> QED BY <1>3, <1>4 DEF Injection, IsInjective
<1> HIDE DEF g, n
<1>6. Cardinality(1 .. n + 1) <= Cardinality(Slot) /\ IsFiniteSet(1 .. n + 1)
  BY <1>5, WinAssumption, FS_Injection
<1>7. Cardinality(1 .. n + 1) = n + 1
  <2> DEFINE a == 1
             b == n + 1
  <2>1. a \in Int /\ b \in Int /\ ~(a > b) /\ b - a + 1 = n + 1
    BY <1>1
  <2> HIDE DEF a, b
  <2>2. Cardinality(a .. b) = n + 1
    BY <2>1, FS_Interval
  <2> QED BY <2>2 DEF a, b
<1>8. Cardinality(Slot) \in Nat
  BY WinAssumption, FS_CardinalityType
<1> QED BY <1>1, <1>6, <1>7, <1>8 DEF n

\* A live handle pushed on z_order, which did not have it.
LEMMA PushSound ==
    ASSUME NEW W \in [Slot -> WinRec], NEW z, ZSound(W, z), NEW h \in HandleRec, AnswersIn(W, h), ~Contains(z, h)
    PROVE  LET Z == z_order_push_top(z, h)
           IN  ZSound(W, Z) /\ Contains(Z, h) /\ \A e : Contains(z, e) => Contains(Z, e)
<1> DEFINE n == Len(z)
           Z == Append(z, h)
<1>1. n \in Nat /\ DOMAIN z = 1 .. n /\ z \in Seq(HandleRec)
  BY DEF ZSound
<1>2. z_order_push_top(z, h) = Z
  <2>1. n < Cardinality(Slot) /\ Cardinality(Slot) \in Nat
    BY RoomOnTop, WinAssumption, FS_CardinalityType
  <2>2. ~(Len(z) >= Cardinality(Slot))
    BY <1>1, <2>1
  <2> QED BY <2>2 DEF z_order_push_top
<1>3. Z \in Seq(HandleRec) /\ Len(Z) = n + 1 /\ DOMAIN Z = 1 .. n + 1 /\ Z[n + 1] = h /\ \A i \in 1 .. n : Z[i] = z[i]
  BY <1>1
<1> HIDE DEF Z, n
<1>4. IsInjective(Z)
  <2> SUFFICES ASSUME NEW a \in 1 .. n + 1, NEW b \in 1 .. n + 1, Z[a] = Z[b] PROVE a = b
    BY <1>3 DEF IsInjective
  <2>1. \A i \in 1 .. n : z[i] # h
    BY DEF Contains, n
  <2>2. CASE a \in 1 .. n /\ b \in 1 .. n
    BY <1>1, <1>3, <2>2 DEF ZSound, IsInjective
  <2>3. CASE a \notin 1 .. n \/ b \notin 1 .. n
    BY <1>1, <1>3, <2>1, <2>3
  <2> QED BY <2>2, <2>3
<1>5. \A i \in DOMAIN Z : AnswersIn(W, Z[i])
  <2> SUFFICES ASSUME NEW i \in 1 .. n + 1 PROVE AnswersIn(W, Z[i])
    BY <1>3
  <2>1. CASE i = n + 1
    BY <1>3, <2>1
  <2>2. CASE i # n + 1
    <3>1. i \in 1 .. n
      BY <1>1, <2>2
    <3> QED BY <1>1, <1>3, <3>1 DEF ZSound
  <2> QED BY <2>1, <2>2
<1>6. Contains(Z, h)
  BY <1>1, <1>3 DEF Contains
<1>7. ASSUME NEW e, Contains(z, e) PROVE Contains(Z, e)
  <2>1. PICK i \in 1 .. n : z[i] = e
    BY <1>7 DEF Contains, n
  <2>2. i \in 1 .. n + 1 /\ Z[i] = e
    BY <1>1, <1>3, <2>1
  <2> QED BY <1>3, <2>2 DEF Contains
<1> QED BY <1>2, <1>3, <1>4, <1>5, <1>6, <1>7 DEF ZSound

\* window_raise: off and on top.
LEMMA RaiseSound ==
    ASSUME NEW W \in [Slot -> WinRec], NEW z, ZSound(W, z), NEW h \in HandleRec, AnswersIn(W, h)
    PROVE  LET Z == z_order_push_top(z_order_remove(z, h), h)
           IN  ZSound(W, Z) /\ \A e : Contains(z, e) => Contains(Z, e)
<1> DEFINE Y == z_order_remove(z, h)
           Z == z_order_push_top(Y, h)
<1>1. /\ Y \in Seq(HandleRec) /\ IsInjective(Y)
      /\ \A i \in DOMAIN Y : Y[i] # h /\ Contains(z, Y[i])
      /\ \A e : Contains(z, e) /\ e # h => Contains(Y, e)
  BY RemoveSound DEF ZSound
<1> HIDE DEF Y
<1>2. ZSound(W, Y)
  BY <1>1 DEF ZSound, Contains
<1>3. ~Contains(Y, h)
  BY <1>1 DEF Contains
<1>4. ZSound(W, Z) /\ Contains(Z, h) /\ \A e : Contains(Y, e) => Contains(Z, e)
  BY <1>2, <1>3, PushSound
<1> HIDE DEF Z
<1> QED BY <1>1, <1>4 DEF Z, Y

-----------------------------------------------------------------------------
\* A live window's handle names its slot and its whole generation.
LEMMA LiveHandle ==
    ASSUME WinInv, next_generation <= GenMod, NEW h \in Live
    PROVE  h \in HandleRec /\ AnswersIn(windows, h) /\ window_get(h)
<1>1. PICK s \in Slot : h = Handle(s, windows[s].generation) /\ window_get(h)
  BY DEF Live
<1>2. windows[s].generation \in Nat /\ GenMod \in Nat /\ GenMod > 0
  BY WinAssumption DEF WinInv, WinRec
<1>3. windows[s].generation % GenMod \in Nat
  BY <1>2
<1> QED BY <1>1, <1>3 DEF Handle, HandleRec, AnswersIn, window_get

\* What a step on one live window may write: anything but valid and generation.
\* z_order, dead handles and generations then keep their part.
Touch(W, V) ==
    /\ V \in [Slot -> WinRec]
    /\ \A s \in Slot : V[s].valid = W[s].valid /\ V[s].generation = W[s].generation

\* After such a write the handles, z_order and the generations are as sound as before.
LEMMA TouchKeeps ==
    ASSUME WinInv, NEW V, Touch(windows, V)
    PROVE  /\ \A h \in HandleRec : AnswersIn(V, h) = AnswersIn(windows, h)
           /\ \A z : ZSound(windows, z) => ZSound(V, z)
           /\ \A n : GensBelow(windows, n) => GensBelow(V, n)
           /\ \A n, D : DeadGone(windows, D, n) => DeadGone(V, D, n)
<1>1. \A h \in HandleRec : AnswersIn(V, h) = AnswersIn(windows, h)
  BY DEF Touch, AnswersIn, HandleRec
<1>2. ASSUME NEW z, ZSound(windows, z) PROVE ZSound(V, z)
  <2>1. \A i \in DOMAIN z : z[i] \in HandleRec
    BY <1>2 DEF ZSound
  <2> QED BY <1>1, <1>2, <2>1 DEF ZSound
<1>3. \A n : GensBelow(windows, n) => GensBelow(V, n)
  BY DEF GensBelow, Touch
<1>4. \A n, D : DeadGone(windows, D, n) => DeadGone(V, D, n)
  BY <1>1 DEF DeadGone
<1> QED BY <1>1, <1>2, <1>3, <1>4

\* A step that touches windows and leaves a sound z_order with every shown one.
LEMMA TouchStep ==
    ASSUME WinInv, Touch(windows, windows'), next_generation' = next_generation, dead' = dead,
           next_generation <= GenMod =>
               FocusOne(windows') /\ ZSound(windows', z_order') /\ Listed(windows', z_order')
    PROVE  WinInv'
<1>1. windows' \in [Slot -> WinRec] /\ next_generation' \in Nat \ {0}
  BY DEF WinInv, Touch
<1>2. ASSUME next_generation <= GenMod PROVE WinBody'
  <2>1. GensBelow(windows, next_generation) /\ DeadGone(windows, dead, next_generation)
    BY <1>2 DEF WinInv, WinBody
  <2>2. GensBelow(windows', next_generation) /\ DeadGone(windows', dead, next_generation)
    BY <2>1, TouchKeeps
  <2> QED BY <1>2, <2>2 DEF WinBody
<1> QED BY <1>1, <1>2 DEF WinInv

\* A record written over one window of the table.
LEMMA TouchOne ==
    ASSUME WinInv, NEW s \in Slot, NEW r \in WinRec, r.valid = windows[s].valid,
           r.generation = windows[s].generation
    PROVE  Touch(windows, [windows EXCEPT ![s] = r])
BY DEF WinInv, Touch

\* window_move and window_resize, and what any write that keeps state and
\* focus does.
LEMMA PlainStep ==
    ASSUME WinInv, NEW s \in Slot, NEW r \in WinRec, r.valid = windows[s].valid,
           r.generation = windows[s].generation, r.by = windows[s].by,
           r.state = windows[s].state, r.focused = windows[s].focused,
           windows' = [windows EXCEPT ![s] = r], UNCHANGED <<z_order, next_generation, dead>>
    PROVE  WinInv'
<1>1. Touch(windows, windows')
  BY TouchOne
<1>2. \A t \in Slot : windows'[t].state = windows[t].state /\ windows'[t].focused = windows[t].focused
      /\ windows'[t].by = windows[t].by
  BY DEF WinInv
<1>3. ASSUME next_generation <= GenMod
      PROVE  FocusOne(windows') /\ ZSound(windows', z_order') /\ Listed(windows', z_order')
  <2>1. FocusOne(windows) /\ ZSound(windows, z_order) /\ Listed(windows, z_order)
    BY <1>3 DEF WinInv, WinBody
  <2>2. FocusOne(windows')
    BY <1>1, <1>2, <2>1 DEF FocusOne, Touch
  <2>3. ZSound(windows', z_order)
    BY <1>1, <2>1, TouchKeeps
  <2>4. Listed(windows', z_order)
    BY <1>1, <1>2, <2>1 DEF Listed, Touch, Shown
  <2> QED BY <2>2, <2>3, <2>4
<1> QED BY <1>1, <1>3, TouchStep

\* The handle of a window is [id, gen] with the window's generation.
LEMMA HandleOf ==
    ASSUME NEW h \in HandleRec, AnswersIn(windows, h)
    PROVE  h = [id |-> h.id, gen |-> windows[h.id].generation] /\ h.id \in Slot
BY DEF HandleRec, AnswersIn

\* window_show: back on the list if it is not there.
LEMMA ShowStep ==
    ASSUME WinInv, NEW h \in Live, window_show(h)
    PROVE  WinInv'
<1> DEFINE s == h.id
           r == [windows[s] EXCEPT !.state = VISIBLE]
<1>0. h.id \in Slot
  BY DEF Live, Handle
<1>1. windows[s] \in WinRec /\ r \in WinRec /\ r.state = VISIBLE /\ r.valid = windows[s].valid
      /\ r.generation = windows[s].generation /\ r.by = windows[s].by /\ r.focused = windows[s].focused
  BY <1>0 DEF WinInv, WinRec, VISIBLE
<1>2. windows' = [windows EXCEPT ![s] = r] /\ next_generation' = next_generation /\ dead' = dead
      /\ z_order' = (IF Contains(z_order, h) THEN z_order ELSE z_order_push_top(z_order, h))
      /\ windows[s].state # VISIBLE
  BY DEF window_show
<1> HIDE DEF r
<1>3. Touch(windows, windows')
  BY <1>0, <1>1, <1>2, TouchOne
<1>4. windows'[s] = r /\ \A t \in Slot : t # s => windows'[t] = windows[t]
  BY <1>0, <1>2 DEF WinInv
<1>5. ASSUME next_generation <= GenMod
      PROVE  FocusOne(windows') /\ ZSound(windows', z_order') /\ Listed(windows', z_order')
  <2>1. FocusOne(windows) /\ ZSound(windows, z_order) /\ Listed(windows, z_order)
    BY <1>5 DEF WinInv, WinBody
  <2>2. h \in HandleRec /\ AnswersIn(windows, h)
    BY <1>5, LiveHandle
  <2>3. FocusOne(windows')
    BY <1>0, <1>1, <1>2, <1>4, <2>1 DEF FocusOne
  <2>4. ZSound(windows', z_order) /\ AnswersIn(windows', h) /\ windows' \in [Slot -> WinRec]
    BY <1>3, <2>1, <2>2, TouchKeeps DEF Touch
  <2>5. ZSound(windows', z_order') /\ Contains(z_order', h) /\ \A e : Contains(z_order, e) => Contains(z_order', e)
    <3>1. CASE Contains(z_order, h)
      BY <1>2, <2>4, <3>1
    <3>2. CASE ~Contains(z_order, h)
      BY <1>2, <2>2, <2>4, <3>2, PushSound
    <3> QED BY <3>1, <3>2
  <2>6. Listed(windows', z_order')
    <3>1. h = [id |-> s, gen |-> windows'[s].generation]
      BY <1>1, <1>4, <2>2, HandleOf
    <3> QED BY <1>4, <2>1, <2>5, <3>1 DEF Listed
  <2> QED BY <2>3, <2>5, <2>6
<1> QED BY <1>2, <1>3, <1>5, TouchStep

\* window_hide: off the list, and without the focus.
LEMMA HideStep ==
    ASSUME WinInv, NEW h \in Live, window_hide(h)
    PROVE  WinInv'
<1> DEFINE s == h.id
           r == [windows[s] EXCEPT !.state = HIDDEN, !.focused = FALSE]
<1>0. h.id \in Slot
  BY DEF Live, Handle
<1>1. windows[s] \in WinRec /\ r \in WinRec /\ r.state = HIDDEN /\ r.valid = windows[s].valid
      /\ r.generation = windows[s].generation /\ r.by = windows[s].by /\ r.focused = FALSE
  <2> DEFINE v == windows[s]
             a == [v EXCEPT !.state = 0]
  <2>1. v \in WinRec
    BY <1>0 DEF WinInv
  <2> HIDE DEF v
  <2>2. a \in WinRec /\ a.state = 0 /\ a.valid = v.valid /\ a.generation = v.generation /\ a.by = v.by
    BY <2>1 DEF WinRec
  <2>3. r = [a EXCEPT !.focused = FALSE]
    BY DEF HIDDEN, v
  <2> HIDE DEF a, r
  <2>4. r \in WinRec /\ r.state = 0 /\ r.valid = v.valid /\ r.generation = v.generation /\ r.by = v.by
        /\ r.focused = FALSE
    BY <2>2, <2>3 DEF WinRec
  <2> QED BY <2>1, <2>4 DEF HIDDEN, v
<1>2. windows' = [windows EXCEPT ![s] = r] /\ next_generation' = next_generation /\ dead' = dead
      /\ z_order' = z_order_remove(z_order, h)
  <2>1. windows' = [windows EXCEPT ![s].state = HIDDEN, ![s].focused = FALSE]
    BY DEF window_hide
  <2>2. [windows EXCEPT ![s].state = HIDDEN, ![s].focused = FALSE] = [windows EXCEPT ![s] = r]
    BY <1>0 DEF WinInv
  <2> QED BY <2>1, <2>2 DEF window_hide
<1> HIDE DEF r
<1>3. Touch(windows, windows')
  BY <1>0, <1>1, <1>2, TouchOne
<1>4. windows'[s] = r /\ \A t \in Slot : t # s => windows'[t] = windows[t]
  BY <1>0, <1>2 DEF WinInv
<1>5. ASSUME next_generation <= GenMod
      PROVE  FocusOne(windows') /\ ZSound(windows', z_order') /\ Listed(windows', z_order')
  <2>1. FocusOne(windows) /\ ZSound(windows, z_order) /\ Listed(windows, z_order)
    BY <1>5 DEF WinInv, WinBody
  <2>2. h \in HandleRec /\ AnswersIn(windows, h)
    BY <1>5, LiveHandle
  <2>3. FocusOne(windows')
    BY <1>0, <1>1, <1>4, <2>1 DEF FocusOne
  <2>4. /\ z_order' \in Seq(HandleRec) /\ IsInjective(z_order')
        /\ \A i \in DOMAIN z_order' : z_order'[i] # h /\ Contains(z_order, z_order'[i])
        /\ \A e : Contains(z_order, e) /\ e # h => Contains(z_order', e)
    BY <1>2, <2>1, RemoveSound DEF ZSound
  <2>5. ZSound(windows, z_order')
    BY <2>1, <2>4 DEF ZSound, Contains
  <2>6. ZSound(windows', z_order')
    BY <1>3, <2>5, TouchKeeps
  <2>7. Listed(windows', z_order')
    <3> SUFFICES ASSUME NEW t \in Slot, windows'[t].valid, Shown(windows'[t])
                 PROVE  Contains(z_order', [id |-> t, gen |-> windows'[t].generation])
      BY DEF Listed
    <3>1. t # s
      BY <1>1, <1>4, <2>2 DEF Shown, HIDDEN, VISIBLE
    <3>2. Contains(z_order, [id |-> t, gen |-> windows'[t].generation])
      BY <1>4, <2>1, <3>1 DEF Listed
    <3> QED BY <2>4, <3>1, <3>2
  <2> QED BY <2>3, <2>6, <2>7
<1> QED BY <1>2, <1>3, <1>5, TouchStep

\* window_raise moves the window to the top and changes no window.
LEMMA RaiseStep ==
    ASSUME WinInv, NEW h \in Live, window_raise(h)
    PROVE  WinInv'
<1>1. windows' = windows /\ next_generation' = next_generation /\ dead' = dead
      /\ z_order' = z_order_push_top(z_order_remove(z_order, h), h)
  BY DEF window_raise
<1>2. Touch(windows, windows')
  BY <1>1 DEF Touch, WinInv
<1>3. ASSUME next_generation <= GenMod
      PROVE  FocusOne(windows') /\ ZSound(windows', z_order') /\ Listed(windows', z_order')
  <2>1. FocusOne(windows) /\ ZSound(windows, z_order) /\ Listed(windows, z_order) /\ windows \in [Slot -> WinRec]
    BY <1>3 DEF WinInv, WinBody
  <2>2. h \in HandleRec /\ AnswersIn(windows, h)
    BY <1>3, LiveHandle
  <2>3. ZSound(windows, z_order') /\ \A e : Contains(z_order, e) => Contains(z_order', e)
    BY <1>1, <2>1, <2>2, RaiseSound
  <2> QED BY <1>1, <2>1, <2>3 DEF Listed
<1> QED BY <1>1, <1>2, <1>3, TouchStep

\* window_focus: one window gets the focus, all others lose it.
LEMMA FocusStep ==
    ASSUME WinInv, NEW h \in Live, window_focus(h)
    PROVE  WinInv'
<1> DEFINE F(t) == IF windows[t].valid THEN t = h.id ELSE windows[t].focused
<1>1. windows' = [t \in Slot |-> [windows[t] EXCEPT !.focused = F(t)]]
      /\ next_generation' = next_generation /\ dead' = dead
      /\ z_order' = z_order_push_top(z_order_remove(z_order, h), h) /\ windows[h.id].state = VISIBLE
  BY DEF window_focus
<1>2. ASSUME NEW t \in Slot
      PROVE  /\ windows'[t] \in WinRec /\ windows'[t].valid = windows[t].valid
             /\ windows'[t].generation = windows[t].generation /\ windows'[t].by = windows[t].by
             /\ windows'[t].state = windows[t].state /\ windows'[t].focused = F(t)
  <2>1. windows[t] \in WinRec /\ F(t) \in BOOLEAN
    BY DEF WinInv, WinRec
  <2>2. windows'[t] = [windows[t] EXCEPT !.focused = F(t)]
    BY <1>1
  <2> HIDE DEF F
  <2> QED BY <2>1, <2>2 DEF WinRec
<1>3. Touch(windows, windows')
  <2>1. windows' \in [Slot -> WinRec]
    <3> HIDE DEF F
    <3> QED BY <1>1, <1>2
  <2> QED BY <1>2, <2>1 DEF Touch
<1>4. ASSUME next_generation <= GenMod
      PROVE  FocusOne(windows') /\ ZSound(windows', z_order') /\ Listed(windows', z_order')
  <2>1. FocusOne(windows) /\ ZSound(windows, z_order) /\ Listed(windows, z_order)
    BY <1>4 DEF WinInv, WinBody
  <2>2. h \in HandleRec /\ AnswersIn(windows, h) /\ h.id \in Slot
    BY <1>4, LiveHandle DEF HandleRec
  <2>3. FocusOne(windows')
    <3>1. \A t \in Slot : windows'[t].valid /\ windows'[t].focused => t = h.id
      BY <1>2
    <3>2. windows'[h.id].state = VISIBLE
      BY <1>1, <1>2, <2>2
    <3> QED BY <3>1, <3>2 DEF FocusOne
  <2>4. ZSound(windows', z_order) /\ AnswersIn(windows', h) /\ windows' \in [Slot -> WinRec]
    BY <1>3, <2>1, <2>2, TouchKeeps DEF Touch
  <2>5. ZSound(windows', z_order') /\ \A e : Contains(z_order, e) => Contains(z_order', e)
    BY <1>1, <2>2, <2>4, RaiseSound
  <2>6. Listed(windows', z_order')
    BY <1>2, <2>1, <2>5 DEF Listed, Shown
  <2> QED BY <2>3, <2>5, <2>6
<1> QED BY <1>1, <1>3, <1>4, TouchStep

\* _win_show, _win_hide and _win_set_active write the state of a window and
\* leave z_order and the focus as they are.
LEMMA StateStep ==
    ASSUME WinInv, NEW h \in Live, NEW st \in 0 .. 3, SetState(h, st)
    PROVE  WinInv'
<1> DEFINE s == h.id
           q == [windows[s] EXCEPT !.state = st]
           r == [q EXCEPT !.by = "program"]
<1>0. h.id \in Slot /\ window_get(h)
  BY DEF Live, Handle
<1>1. r \in WinRec /\ r.valid = windows[s].valid /\ r.generation = windows[s].generation
      /\ r.focused = windows[s].focused /\ r.by = "program"
  <2>1. windows[s] \in WinRec
    BY <1>0 DEF WinInv
  <2>2. q \in WinRec /\ q.valid = windows[s].valid /\ q.generation = windows[s].generation
        /\ q.focused = windows[s].focused
    BY <2>1 DEF WinRec
  <2> HIDE DEF q
  <2> QED BY <2>2 DEF WinRec
<1>2. windows' = [windows EXCEPT ![s] = r] /\ UNCHANGED <<z_order, next_generation, dead>>
  <2>1. windows' = [windows EXCEPT ![s].state = st, ![s].by = "program"]
    BY DEF SetState
  <2>2. [windows EXCEPT ![s].state = st, ![s].by = "program"] = [windows EXCEPT ![s] = r]
    BY <1>0 DEF WinInv
  <2> QED BY <2>1, <2>2 DEF SetState
<1> HIDE DEF q, r
<1>3. Touch(windows, windows')
  BY <1>0, <1>1, <1>2, TouchOne
<1>4. windows'[s] = r /\ \A t \in Slot : t # s => windows'[t] = windows[t]
  BY <1>0, <1>2 DEF WinInv
<1>5. ASSUME next_generation <= GenMod
      PROVE  FocusOne(windows') /\ ZSound(windows', z_order') /\ Listed(windows', z_order')
  <2>1. FocusOne(windows) /\ ZSound(windows, z_order) /\ Listed(windows, z_order)
    BY <1>5 DEF WinInv, WinBody
  <2>2. FocusOne(windows')
    <3>1. \A t \in Slot : windows'[t].valid = windows[t].valid /\ windows'[t].focused = windows[t].focused
      BY <1>1, <1>4
    <3> QED BY <1>1, <1>4, <2>1, <3>1 DEF FocusOne
  <2>3. Listed(windows', z_order)
    BY <1>0, <1>1, <1>4, <2>1 DEF Listed, Shown
  <2>4. ZSound(windows', z_order)
    BY <1>3, <2>1, TouchKeeps
  <2> QED BY <1>2, <2>2, <2>3, <2>4
<1> QED BY <1>2, <1>3, <1>5, TouchStep

\* window_destroy: the slot is free, the handle is off the list and dead.
LEMMA DestroyStep ==
    ASSUME WinInv, NEW h \in Live, window_destroy(h)
    PROVE  WinInv'
<1> DEFINE s == h.id
           r == [windows[s] EXCEPT !.valid = FALSE, !.generation = 0, !.pixels = FALSE]
<1>0. h.id \in Slot
  BY DEF Live, Handle
<1>1. windows[s] \in WinRec /\ r \in WinRec /\ r.valid = FALSE
  <2> DEFINE v == windows[s]
             a == [v EXCEPT !.valid = FALSE]
             b == [a EXCEPT !.generation = 0]
  <2>1. v \in WinRec
    BY <1>0 DEF WinInv
  <2>2. r = [b EXCEPT !.pixels = FALSE]
    OBVIOUS
  <2> HIDE DEF v, r
  <2>3. a \in WinRec /\ a.valid = FALSE
    BY <2>1 DEF WinRec
  <2> HIDE DEF a
  <2>4. b \in WinRec /\ b.valid = FALSE
    BY <2>3 DEF WinRec
  <2> HIDE DEF b
  <2>5. r \in WinRec /\ r.valid = FALSE
    BY <2>2, <2>4 DEF WinRec
  <2> QED BY <2>1, <2>5 DEF v
<1>2. windows' = [windows EXCEPT ![s] = r] /\ next_generation' = next_generation
      /\ z_order' = z_order_remove(z_order, h) /\ dead' = dead \cup {h}
  <2>1. windows' = [windows EXCEPT ![s].valid = FALSE, ![s].generation = 0, ![s].pixels = FALSE]
    BY DEF window_destroy
  <2>2. [windows EXCEPT ![s].valid = FALSE, ![s].generation = 0, ![s].pixels = FALSE] = [windows EXCEPT ![s] = r]
    BY <1>0 DEF WinInv
  <2> QED BY <2>1, <2>2 DEF window_destroy, Unlisted
<1> HIDE DEF r
<1>4. windows'[s] = r /\ (\A t \in Slot : t # s => windows'[t] = windows[t]) /\ windows' \in [Slot -> WinRec]
  BY <1>0, <1>1, <1>2 DEF WinInv
<1>5. ASSUME next_generation <= GenMod PROVE WinBody'
  <2>1. /\ FocusOne(windows) /\ ZSound(windows, z_order) /\ Listed(windows, z_order)
        /\ GensBelow(windows, next_generation) /\ DeadGone(windows, dead, next_generation)
    BY <1>5 DEF WinInv, WinBody
  <2>2. h \in HandleRec /\ AnswersIn(windows, h)
    BY <1>5, LiveHandle
  <2>3. FocusOne(windows') /\ GensBelow(windows', next_generation')
    BY <1>1, <1>2, <1>4, <2>1 DEF FocusOne, GensBelow
  <2>4. \A e \in HandleRec : e # h /\ AnswersIn(windows, e) => AnswersIn(windows', e) /\ e.id # s
    BY <1>4, <2>2 DEF AnswersIn, HandleRec
  <2>5. \A e \in HandleRec : AnswersIn(windows', e) => AnswersIn(windows, e) /\ e.id # s
    BY <1>1, <1>4 DEF AnswersIn, HandleRec
  <2>6. /\ z_order' \in Seq(HandleRec) /\ IsInjective(z_order')
        /\ \A i \in DOMAIN z_order' : z_order'[i] # h /\ Contains(z_order, z_order'[i])
        /\ \A e : Contains(z_order, e) /\ e # h => Contains(z_order', e)
    BY <1>2, <2>1, RemoveSound DEF ZSound
  <2>7. ZSound(windows', z_order')
    <3> SUFFICES ASSUME NEW i \in DOMAIN z_order' PROVE AnswersIn(windows', z_order'[i])
      BY <2>6 DEF ZSound
    <3>1. z_order'[i] \in HandleRec /\ AnswersIn(windows, z_order'[i]) /\ z_order'[i] # h
      BY <2>1, <2>6 DEF ZSound, Contains
    <3> QED BY <2>4, <3>1
  <2>8. Listed(windows', z_order')
    <3> SUFFICES ASSUME NEW t \in Slot, windows'[t].valid, Shown(windows'[t])
                 PROVE  Contains(z_order', [id |-> t, gen |-> windows'[t].generation])
      BY DEF Listed
    <3>1. t # s
      BY <1>1, <1>4
    <3>2. Contains(z_order, [id |-> t, gen |-> windows'[t].generation])
      BY <1>4, <2>1, <3>1 DEF Listed
    <3> QED BY <2>6, <3>1, <3>2
  <2>9. DeadGone(windows', dead', next_generation')
    <3> SUFFICES ASSUME NEW e \in dead \cup {h}
                 PROVE  e \in HandleRec /\ e.gen < next_generation /\ ~AnswersIn(windows', e)
      BY <1>2 DEF DeadGone
    <3>1. CASE e = h
      <4>1. h.gen < next_generation
        BY <1>0, <2>1, <2>2 DEF GensBelow, AnswersIn, HandleRec, WinInv
      <4> QED BY <2>2, <2>5, <3>1, <4>1
    <3>2. CASE e \in dead
      BY <2>1, <2>5, <3>2 DEF DeadGone
    <3> QED BY <3>1, <3>2
  <2> QED BY <2>3, <2>7, <2>8, <2>9 DEF WinBody
<1>6. next_generation' \in Nat \ {0}
  BY <1>2 DEF WinInv
<1> QED BY <1>2, <1>4, <1>5, <1>6 DEF WinInv

\* window_create: the new handle has a generation that no window or dead handle
\* of the slot had.
LEMMA CreateStep ==
    ASSUME WinInv, NEW x \in Int, NEW w \in Int, NEW ok \in BOOLEAN, window_create(x, w, ok)
    PROVE  WinInv'
<1> DEFINE n == next_generation
           r == [valid |-> ok, generation |-> n, state |-> VISIBLE, focused |-> FALSE,
                 x |-> x, width |-> w, pixels |-> ok, by |-> "kernel"]
<1>1. PICK s \in Slot : /\ ~windows[s].valid /\ windows' = [windows EXCEPT ![s] = r]
                        /\ z_order' = IF ok THEN z_order_push_top(z_order, Handle(s, n)) ELSE z_order
  BY DEF window_create
<1>2. n' = n + 1 /\ dead' = dead /\ n \in Nat \ {0}
  BY DEF window_create, WinInv
<1>3. r \in WinRec /\ r.valid = ok /\ r.generation = n /\ r.focused = FALSE
  BY <1>2 DEF WinRec, VISIBLE
<1> HIDE DEF r
<1>4. windows'[s] = r /\ (\A t \in Slot : t # s => windows'[t] = windows[t]) /\ windows' \in [Slot -> WinRec]
  BY <1>1, <1>3 DEF WinInv
<1>5. ASSUME n' <= GenMod PROVE WinBody'
  <2>0. GenMod \in Nat /\ n <= GenMod /\ n < GenMod
    BY <1>2, <1>5, WinAssumption
  <2>1. /\ FocusOne(windows) /\ ZSound(windows, z_order) /\ Listed(windows, z_order)
        /\ GensBelow(windows, n) /\ DeadGone(windows, dead, n)
    BY <2>0 DEF WinInv, WinBody
  <2>2. FocusOne(windows')
    BY <1>3, <1>4, <2>1 DEF FocusOne
  <2>3. GensBelow(windows', n')
    BY <1>2, <1>3, <1>4, <2>1 DEF GensBelow
  <2>4. DeadGone(windows', dead', n')
    <3> SUFFICES ASSUME NEW e \in dead PROVE e \in HandleRec /\ e.gen < n + 1 /\ ~AnswersIn(windows', e)
      BY <1>2 DEF DeadGone
    <3>1. e \in HandleRec /\ e.gen < n /\ ~AnswersIn(windows, e) /\ e.gen \in Nat /\ e.id \in Slot
      BY <2>1 DEF DeadGone, HandleRec
    <3> QED BY <1>2, <1>3, <1>4, <3>1 DEF AnswersIn
  <2>5. ZSound(windows', z_order)
    <3> SUFFICES ASSUME NEW i \in DOMAIN z_order PROVE AnswersIn(windows', z_order[i])
      BY <2>1 DEF ZSound
    <3>1. z_order[i] \in HandleRec /\ AnswersIn(windows, z_order[i])
      BY <2>1 DEF ZSound
    <3> QED BY <1>1, <1>4, <3>1 DEF AnswersIn, HandleRec
  <2>6. CASE ~ok
    BY <1>1, <1>3, <1>4, <2>1, <2>2, <2>3, <2>4, <2>5, <2>6 DEF WinBody, Listed
  <2>7. CASE ok
    <3> DEFINE h == [id |-> s, gen |-> n]
    <3>1. n % GenMod = n
      BY <1>2, <2>0
    <3>2. Handle(s, n) = h
      BY <3>1 DEF Handle
    <3>3. h \in HandleRec /\ AnswersIn(windows', h) /\ ~AnswersIn(windows, h)
      BY <1>1, <1>2, <1>3, <1>4, <2>7 DEF HandleRec, AnswersIn
    <3>4. z_order' = z_order_push_top(z_order, h)
      BY <1>1, <2>7, <3>2
    <3>5. [id |-> s, gen |-> windows'[s].generation] = h
      BY <1>3, <1>4
    <3> HIDE DEF h
    <3>6. ~Contains(z_order, h)
      BY <2>1, <3>3 DEF ZSound, Contains
    <3>7. ZSound(windows', z_order') /\ Contains(z_order', h) /\ \A e : Contains(z_order, e) => Contains(z_order', e)
      BY <1>4, <2>5, <3>3, <3>4, <3>6, PushSound
    <3>8. Listed(windows', z_order')
      BY <1>4, <2>1, <3>5, <3>7 DEF Listed
    <3> QED BY <2>2, <2>3, <2>4, <3>7, <3>8 DEF WinBody
  <2> QED BY <2>6, <2>7
<1> QED BY <1>2, <1>4, <1>5 DEF WinInv

\* The bits of win_state_t stay in 0..3.
LEMMA BitsIn ==
    ASSUME NEW n \in 0 .. 3
    PROVE  SetBit(n, VISIBLE) \in 0 .. 3 /\ ClearBit(n, VISIBLE) \in 0 .. 3 /\ SetBit(n, FOCUSED) \in 0 .. 3
<1>1. n = 0 \/ n = 1 \/ n = 2 \/ n = 3
  OBVIOUS
<1> QED BY <1>1 DEF SetBit, ClearBit, VISIBLE, FOCUSED

\* Every call keeps the invariant.
LEMMA WinNextInv == WinInv /\ [WinNext]_winVars => WinInv'
<1> SUFFICES ASSUME WinInv, [WinNext]_winVars PROVE WinInv'
  OBVIOUS
<1>1. CASE UNCHANGED winVars
  BY <1>1 DEF winVars, WinInv, WinBody
<1>2. ASSUME NEW x \in WinX, NEW w \in WinW, NEW ok \in BOOLEAN, window_create(x, w, ok) PROVE WinInv'
  BY <1>2, WinAssumption, CreateStep
<1>3. ASSUME NEW w \in WinW, NEW ok \in BOOLEAN, _win_create(w, ok) PROVE WinInv'
  <2>1. w \in Int /\ ScreenWidth \in Nat
    BY WinAssumption
  <2>2. Centred(w) \in Int
    BY <2>1 DEF Centred
  <2>3. window_create(Centred(w), w, ok)
    BY <1>3 DEF _win_create
  <2> QED BY <2>1, <2>2, <2>3, CreateStep
<1>4. ASSUME NEW h \in Live, window_show(h) \/ window_hide(h) \/ window_raise(h) \/ window_focus(h)
      PROVE  WinInv'
  BY <1>4, ShowStep, HideStep, RaiseStep, FocusStep
<1>5. ASSUME NEW h \in Live, NEW x \in WinX, window_move(h, x) PROVE WinInv'
  <2> DEFINE s == h.id
             r == [windows[s] EXCEPT !.x = x]
  <2>1. s \in Slot /\ x \in Int
    BY WinAssumption DEF Live, Handle
  <2>2. windows[s] \in WinRec
    BY <2>1 DEF WinInv
  <2>3. /\ r \in WinRec /\ r.valid = windows[s].valid /\ r.generation = windows[s].generation
        /\ r.by = windows[s].by /\ r.state = windows[s].state /\ r.focused = windows[s].focused
    BY <2>1, <2>2 DEF WinRec
  <2>4. windows' = [windows EXCEPT ![s] = r] /\ UNCHANGED <<z_order, next_generation, dead>>
    BY <1>5 DEF window_move
  <2> HIDE DEF r
  <2> QED BY <2>1, <2>3, <2>4, PlainStep
<1>6. ASSUME NEW h \in Live, NEW w \in WinW, NEW ok \in BOOLEAN, window_resize(h, w, ok) PROVE WinInv'
  <2> DEFINE s == h.id
             q == [windows[s] EXCEPT !.width = w]
             r == [q EXCEPT !.pixels = ok]
  <2>1. s \in Slot /\ w \in Int
    BY WinAssumption DEF Live, Handle
  <2>2. windows[s] \in WinRec
    BY <2>1 DEF WinInv
  <2>3. /\ q \in WinRec /\ q.valid = windows[s].valid /\ q.generation = windows[s].generation
        /\ q.by = windows[s].by /\ q.state = windows[s].state /\ q.focused = windows[s].focused
    BY <2>1, <2>2 DEF WinRec
  <2>4. windows' = [windows EXCEPT ![s] = r] /\ UNCHANGED <<z_order, next_generation, dead>>
    <3>1. windows' = [windows EXCEPT ![s].width = w, ![s].pixels = ok]
      BY <1>6 DEF window_resize
    <3>2. [windows EXCEPT ![s].width = w, ![s].pixels = ok] = [windows EXCEPT ![s] = r]
      BY <2>1 DEF WinInv
    <3> QED BY <1>6, <3>1, <3>2 DEF window_resize
  <2> HIDE DEF q
  <2>5. /\ r \in WinRec /\ r.valid = windows[s].valid /\ r.generation = windows[s].generation
        /\ r.by = windows[s].by /\ r.state = windows[s].state /\ r.focused = windows[s].focused
    BY <2>3 DEF WinRec
  <2> HIDE DEF r
  <2> QED BY <2>1, <2>4, <2>5, PlainStep
<1>7. ASSUME NEW h \in Live, _win_show(h) \/ _win_hide(h) \/ _win_set_active(h) PROVE WinInv'
  <2> DEFINE n == windows[h.id].state
  <2>1. n \in 0 .. 3
    BY DEF Live, Handle, WinInv, WinRec
  <2>2. PICK st \in {SetBit(n, VISIBLE), ClearBit(n, VISIBLE), SetBit(n, FOCUSED)} : SetState(h, st)
    BY <1>7 DEF _win_show, _win_hide, _win_set_active
  <2>3. st \in 0 .. 3
    BY <2>1, BitsIn
  <2> QED BY <2>2, <2>3, StateStep
<1>8. ASSUME NEW h \in Live, window_destroy(h) PROVE WinInv'
  BY <1>8, DestroyStep
<1> QED BY <1>1, <1>2, <1>3, <1>4, <1>5, <1>6, <1>7, <1>8 DEF WinNext

\* An empty table.
LEMMA WinInitInv == WinInit => WinInv
<1> SUFFICES ASSUME WinInit PROVE WinInv
  OBVIOUS
<1>1. windows \in [Slot -> WinRec] /\ \A s \in Slot : ~windows[s].valid
  BY DEF WinInit, WinRec, HIDDEN
<1>2. next_generation = 1 /\ z_order = <<>> /\ dead = {}
  BY DEF WinInit
<1>3. ZSound(windows, z_order)
  BY <1>2 DEF ZSound, IsInjective
<1>4. Listed(windows, z_order) /\ FocusOne(windows) /\ GensBelow(windows, next_generation)
      /\ DeadGone(windows, dead, next_generation)
  BY <1>1, <1>2 DEF Listed, FocusOne, GensBelow, DeadGone
<1> QED BY <1>1, <1>2, <1>3, <1>4 DEF WinInv, WinBody

\* A window that does not overhang both sides is clipped to the row, to what
\* window_at takes for the window.
LEMMA BlitIsHit ==
    ASSUME NEW v \in WinRec, v.pixels, ~Overhangs(v)
    PROVE  /\ compositor_blit_window(v) \subseteq 0 .. ScreenWidth - 1
           /\ \A p \in 0 .. ScreenWidth - 1 :
                 p \in compositor_blit_window(v) <=> (v.state = VISIBLE /\ p >= v.x /\ p < v.x + v.width)
<1> DEFINE skip == IF v.x < 0 THEN -v.x ELSE 0
           copy == v.width - skip
           copyw == IF v.x + copy > ScreenWidth THEN ScreenWidth - v.x ELSE copy
           B == compositor_blit_window(v)
<1>1. v.x \in Int /\ v.width \in Int /\ ScreenWidth \in Nat
  BY WinAssumption DEF WinRec
<1>2. B = IF v.state # VISIBLE \/ copyw <= 0 THEN {} ELSE (v.x + skip) .. (v.x + skip + copyw - 1)
  BY DEF compositor_blit_window
<1>3. CASE v.x < 0
  <2>1. skip = -v.x /\ v.x + skip = 0 /\ copy = v.width + v.x /\ copyw = v.width + v.x /\ v.width + v.x <= ScreenWidth
    BY <1>1, <1>3 DEF Overhangs
  <2>0. v.x + skip + copyw - 1 = v.width + v.x - 1
    BY <1>1, <2>1
  <2> HIDE DEF skip, copy, copyw, B
  <2>2. B = IF v.state # VISIBLE \/ v.width + v.x <= 0 THEN {} ELSE 0 .. v.width + v.x - 1
    BY <1>2, <2>0, <2>1
  <2> QED BY <1>1, <1>3, <2>1, <2>2, SMTT(40) DEF B
<1>4. CASE ~(v.x < 0)
  <2>1. skip = 0 /\ v.x + skip = v.x /\ copy = v.width
    BY <1>1, <1>4
  <2> HIDE DEF skip, copy
  <2>2. copyw = IF v.x + v.width > ScreenWidth THEN ScreenWidth - v.x ELSE v.width
    BY <2>1
  <2> HIDE DEF copyw, B
  <2>3. B = IF v.state # VISIBLE \/ copyw <= 0 THEN {} ELSE v.x .. v.x + copyw - 1
    BY <1>2, <2>1
  <2> QED BY <1>1, <1>4, <2>2, <2>3, SMTT(40) DEF B
<1> QED BY <1>3, <1>4

\* Until the generations of handles wrap, whatever windows come and go and
\* whoever calls: z_order has live windows only, each once, and every visible
\* window whose state no system call set; one window at most has the focus; a
\* stale handle never answers; and where no window lost its pixels or overhangs
\* both sides of the screen, painting stays in the row and a click finds what is
\* painted.
THEOREM WindowsSoundHolds == WinSpec => []WindowsSound
<1>1. WinInv => WindowsSound
  <2> SUFFICES ASSUME WinInv, next_generation <= GenMod PROVE WindowsSound
    BY DEF WindowsSound
  <2>1. /\ FocusOne(windows) /\ ZSound(windows, z_order) /\ Listed(windows, z_order)
        /\ GensBelow(windows, next_generation) /\ DeadGone(windows, dead, next_generation)
        /\ windows \in [Slot -> WinRec] /\ next_generation \in Nat /\ GenMod \in Nat
    BY WinAssumption DEF WinInv, WinBody
  <2>2. \A h : window_get(h) = AnswersIn(windows, h)
    BY DEF window_get, AnswersIn
  <2>3. ASSUME NEW s \in Slot, windows[s].valid, windows[s].by = "kernel", windows[s].state = VISIBLE
        PROVE  Contains(z_order, Handle(s, windows[s].generation))
    <3> DEFINE g == windows[s].generation
    <3>1. g \in Nat /\ g < GenMod
      BY <2>1, <2>3 DEF GensBelow
    <3>2. g % GenMod = g
      BY <2>1, <3>1
    <3>3. Handle(s, g) = [id |-> s, gen |-> g]
      BY <3>2 DEF Handle
    <3>4. Contains(z_order, [id |-> s, gen |-> g])
      BY <2>1, <2>3 DEF Listed, Shown
    <3> HIDE DEF g
    <3>5. Contains(z_order, Handle(s, g))
      BY <3>3, <3>4
    <3> QED BY <3>5 DEF g
  <2>4. ASSUME \A s \in Slot : windows[s].valid => windows[s].pixels /\ ~Overhangs(windows[s]),
               NEW i \in DOMAIN z_order
        PROVE  LET win == windows[z_order[i].id]
               IN  /\ compositor_blit_window(win) \subseteq 0 .. ScreenWidth - 1
                   /\ \A p \in 0 .. ScreenWidth - 1 :
                         p \in compositor_blit_window(win)
                         <=> window_get(z_order[i]) /\ win.state = VISIBLE /\ p >= win.x /\ p < win.x + win.width
    <3> DEFINE v == windows[z_order[i].id]
    <3>1. window_get(z_order[i]) /\ z_order[i].id \in Slot
      <4>1. z_order[i] \in HandleRec /\ AnswersIn(windows, z_order[i])
        BY <2>1 DEF ZSound
      <4>2. z_order[i].id \in Slot
        BY <4>1 DEF HandleRec
      <4> QED BY <2>2, <4>1, <4>2
    <3>2. v \in WinRec /\ v.pixels /\ ~Overhangs(v)
      BY <2>1, <2>4, <3>1 DEF window_get
    <3> HIDE DEF v
    <3>3. /\ compositor_blit_window(v) \subseteq 0 .. ScreenWidth - 1
          /\ \A p \in 0 .. ScreenWidth - 1 :
                p \in compositor_blit_window(v) <=> (v.state = VISIBLE /\ p >= v.x /\ p < v.x + v.width)
      BY <3>2, BlitIsHit
    <3> QED BY <3>1, <3>3 DEF v
  <2>5. ASSUME \A s \in Slot : windows[s].valid => windows[s].pixels /\ ~Overhangs(windows[s]),
               NEW p \in 0 .. ScreenWidth - 1
        PROVE  compositor_render(p) = window_at(p)
    BY <2>4, <2>5 DEF compositor_render, window_at
  <2>6. IsInjective(z_order) /\ \A i \in DOMAIN z_order : window_get(z_order[i])
    BY <2>1, <2>2 DEF ZSound
  <2>7. \A s \in Slot : windows[s].valid /\ windows[s].focused =>
           /\ windows[s].by = "kernel" => windows[s].state = VISIBLE
           /\ \A t \in Slot : windows[t].valid /\ windows[t].focused => s = t
    BY <2>1 DEF FocusOne
  <2>8. \A h \in dead : ~window_get(h)
    BY <2>1, <2>2 DEF DeadGone
  <2> QED BY <2>3, <2>4, <2>5, <2>6, <2>7, <2>8 DEF WindowsSound
<1> QED BY <1>1, WinInitInv, WinNextInv, PTL DEF WinSpec
-----------------------------------------------------------------------------
(***************************************************************************)
(* Exec.                                                                   *)
(***************************************************************************)
ExBlocks == {"file", "image", "stack"}
NoCtx == [file_image |-> 0, image_base |-> 0, stack |-> 0]
Mapped == /\ heap = ExBlocks /\ ctx.image_base \in Nat \ {0}
          /\ ctx = [file_image |-> 1, image_base |-> ctx.image_base, stack |-> 1]
FileOnly == heap = {"file"} /\ ctx = [file_image |-> 1, image_base |-> 0, stack |-> 0]

\* mem is the image and the BSS, with the first k relocations applied if the file
\* holds image and table.
ImageWords == exFile.image_size + exFile.bss_size
Base(i) == exFile.words[exFile.image_offset + i - 1]
Hits(k, i) == {j \in 1 .. k : exFile.words[exFile.reloc_offset + 2 * j - 2] = i - 1}
Patched(b, m, k) ==
    /\ m \in [1 .. ImageWords -> Nat]
    /\ \A i \in (exFile.image_size + 1) .. ImageWords : m[i] = 0
    /\ InFile(exFile) => \A i \in 1 .. exFile.image_size : m[i] = (Base(i) + b * Cardinality(Hits(k, i))) % WordMod

ExInv ==
    /\ exFile \in AmxFile /\ freedTwice = FALSE
    /\ exPc \in {"idle", "loaded", "mapped", "relocated", "running", "returned", "fail"}
    /\ exPc = "idle" => heap = {} /\ ctx = NoCtx
    /\ exPc \in {"loaded", "mapped", "relocated", "running"} => exFile.entry < exFile.image_size
    /\ exPc = "loaded" => FileOnly
    /\ exPc = "mapped" => Mapped /\ exDone \in 0 .. exFile.reloc_count /\ Patched(ctx.image_base, mem, exDone)
    /\ exPc \in {"relocated", "running"} => Mapped /\ Patched(ctx.image_base, mem, exFile.reloc_count)
    /\ exPc = "returned" => Mapped
    /\ exPc = "fail" => Mapped \/ FileOnly

\* What the header and the words of a file are made of.
LEMMA AmxTypes ==
    ASSUME ExInv
    PROVE  /\ exFile.image_size \in Nat /\ exFile.bss_size \in Nat /\ exFile.image_offset \in Nat
           /\ exFile.reloc_offset \in Nat /\ exFile.reloc_count \in Nat /\ exFile.len \in Nat
           /\ exFile.image_size < SizeMod /\ exFile.image_offset < SizeMod
           /\ exFile.reloc_offset < SizeMod /\ exFile.reloc_count < SizeMod
           /\ SizeMod \in Nat \ {0} /\ WordMod \in Nat \ {0} /\ TypeMod \in Nat \ {0}
           /\ exFile.words \in [0 .. exFile.len - 1 -> 0 .. WordMod - 1]
<1> DEFINE f == exFile
<1>1. f \in AmxFile /\ SizeMod \in Nat \ {0} /\ WordMod \in Nat \ {0} /\ TypeMod \in Nat \ {0}
  BY AmxAssumption DEF ExInv
<1>2. /\ f.len \in Nat /\ f.words \in [0 .. f.len - 1 -> 0 .. WordMod - 1]
      /\ {f.image_offset, f.image_size, f.entry, f.bss_size, f.reloc_offset, f.reloc_count} \subseteq 0 .. SizeMod - 1
  BY <1>1, AmxAssumption
<1>3. /\ f.image_offset \in 0 .. SizeMod - 1 /\ f.image_size \in 0 .. SizeMod - 1 /\ f.bss_size \in 0 .. SizeMod - 1
      /\ f.reloc_offset \in 0 .. SizeMod - 1 /\ f.reloc_count \in 0 .. SizeMod - 1
  BY <1>2
<1> HIDE DEF f
<1>4. \A x \in 0 .. SizeMod - 1 : x \in Nat /\ x < SizeMod
  BY <1>1
<1> QED BY <1>1, <1>2, <1>3, <1>4 DEF f

\* What was read is no more than the file.
LEMMA ReadInIs == ASSUME ExInv PROVE ReadIn(exFile) \in Int /\ ReadIn(exFile) <= exFile.len
<1> DEFINE n == exFile.image_offset + exFile.image_size + 2 * exFile.reloc_count
           t == n % SizeMod
<1>1. n \in Nat /\ SizeMod \in Nat \ {0} /\ exFile.len \in Nat
  <2>1. /\ exFile.image_offset \in Nat /\ exFile.image_size \in Nat /\ exFile.reloc_count \in Nat
        /\ SizeMod \in Nat \ {0} /\ exFile.len \in Nat
    BY AmxTypes
  <2> QED BY <2>1
<1>2. t \in Int
  <2> HIDE DEF n
  <2> QED BY <1>1
<1>3. Total(exFile) = t
  BY DEF Total
<1> HIDE DEF t
<1> QED BY <1>1, <1>2, <1>3 DEF ReadIn

\* A word of file_image is a word of the file, or whatever lies past it.
LEMMA WordIs ==
    ASSUME ExInv, NEW past \in PastBlock, NEW i \in 0 .. 4 * SizeMod
    PROVE  /\ Word(exFile, past, i) \in 0 .. WordMod - 1
           /\ i < ReadIn(exFile) => Word(exFile, past, i) = exFile.words[i]
<1>1. past \in [0 .. 4 * SizeMod -> 0 .. WordMod - 1]
  BY AmxAssumption
<1>2. past[i] \in 0 .. WordMod - 1
  BY <1>1
<1>4. ASSUME i < ReadIn(exFile) PROVE exFile.words[i] \in 0 .. WordMod - 1
  <2>1. exFile.len \in Nat /\ SizeMod \in Nat
    BY AmxTypes
  <2>2. i \in 0 .. exFile.len - 1
    BY <1>4, <2>1, ReadInIs
  <2> QED BY <2>2, AmxTypes
<1> QED BY <1>2, <1>4 DEF Word

\* Remainders are unique.
LEMMA RemainderIs ==
    ASSUME NEW m \in Nat \ {0}, NEW q \in Int, NEW r \in 0 .. m - 1, NEW x \in Nat, x = m * q + r
    PROVE  x % m = r
<1> DEFINE p == x \div m
           s == x % m
<1>0. x \div m \in Nat /\ x % m \in 0 .. m - 1 /\ x = m * (x \div m) + (x % m)
  BY DivFacts, Zenon
<1>1. p \in Nat /\ s \in 0 .. m - 1 /\ x = m * p + s
  BY <1>0, Zenon
<1> HIDE DEF p, s
<1>2. m * p \in Int /\ m * q \in Int /\ m * p < m * q + m /\ m * q < m * p + m
  BY <1>1
<1>3. m * p <= m * q /\ m * q <= m * p
  BY <1>1, <1>2, Mono
<1> QED BY <1>1, <1>2, <1>3 DEF s

\* Adding to a word modulo 2^32 is adding before the remainder is taken.
LEMMA AddWraps ==
    ASSUME NEW m \in Nat \ {0}, NEW x \in Nat, NEW b \in Nat
    PROVE  ((x % m) + b) % m = (x + b) % m
<1> DEFINE q == x \div m
           r == x % m
           p == (r + b) \div m
           s == (r + b) % m
<1>1. q \in Int /\ r \in 0 .. m - 1 /\ x = m * q + r
  BY DivFacts
<1>2. r + b \in Nat
  BY <1>1
<1>3. p \in Int /\ s \in 0 .. m - 1 /\ r + b = m * p + s
  BY <1>2, DivFacts
<1>4. x + b = m * (q + p) + s /\ q + p \in Int /\ x + b \in Nat
  <2> HIDE DEF q, r, p, s
  <2>1. m * (q + p) = m * q + m * p /\ m * q \in Int /\ m * p \in Int
    BY <1>1, <1>3
  <2> QED BY <1>1, <1>3, <2>1
<1>5. (x + b) % m = s
  <2> DEFINE y == x + b
             z == q + p
  <2>1. y \in Nat /\ z \in Int /\ s \in 0 .. m - 1 /\ y = m * z + s
    BY <1>3, <1>4, Zenon
  <2> HIDE DEF q, r, p, s, y, z
  <2>2. y % m = s
    BY <2>1, RemainderIs
  <2> QED BY <2>2 DEF y
<1> QED BY <1>5

\* The image as exec_map leaves it: no relocation applied yet.
LEMMA FreshImage ==
    ASSUME ExInv, NEW b \in Nat, NEW past \in PastBlock
    PROVE  Patched(b, [i \in 1 .. ImageWords |->
                         IF i > exFile.image_size THEN 0
                         ELSE Word(exFile, past, exFile.image_offset + i - 1)], 0)
<1> DEFINE m == [i \in 1 .. ImageWords |-> IF i > exFile.image_size THEN 0
                                           ELSE Word(exFile, past, exFile.image_offset + i - 1)]
<1>1. ImageWords \in Nat /\ exFile.image_size <= ImageWords /\ exFile.image_size \in Nat
  BY AmxTypes DEF ImageWords
<1>2. ASSUME NEW i \in 1 .. ImageWords, ~(i > exFile.image_size)
      PROVE  exFile.image_offset + i - 1 \in 0 .. 4 * SizeMod
  BY <1>1, <1>2, AmxTypes
<1>3. \A i \in 1 .. ImageWords : m[i] \in Nat
  <2>1. ASSUME NEW i \in 1 .. ImageWords, ~(i > exFile.image_size)
        PROVE  Word(exFile, past, exFile.image_offset + i - 1) \in Nat
    <3>1. Word(exFile, past, exFile.image_offset + i - 1) \in 0 .. WordMod - 1
      BY <1>2, <2>1, WordIs
    <3> QED BY <3>1
  <2> QED BY <2>1
<1>4. m \in [1 .. ImageWords -> Nat]
  BY <1>3
<1>5. \A i \in (exFile.image_size + 1) .. ImageWords : m[i] = 0
  BY <1>1
<1>6. ASSUME InFile(exFile), NEW i \in 1 .. exFile.image_size
      PROVE  m[i] = (Base(i) + b * Cardinality(Hits(0, i))) % WordMod
  <2>1. Hits(0, i) = {} /\ Cardinality(Hits(0, i)) = 0
    BY FS_EmptySet DEF Hits
  <2>2. i \in 1 .. ImageWords /\ ~(i > exFile.image_size)
    BY <1>1
  <2>3. exFile.image_offset + i - 1 < ReadIn(exFile) /\ exFile.image_offset + i - 1 \in 0 .. 4 * SizeMod
    <3>1. exFile.image_offset + exFile.image_size <= ReadIn(exFile)
      BY <1>6 DEF InFile
    <3>2. exFile.image_offset \in Nat
      BY AmxTypes
    <3> QED BY <1>1, <1>2, <2>2, <3>1, <3>2, ReadInIs
  <2>4. Base(i) \in 0 .. WordMod - 1 /\ m[i] = Base(i)
    BY <2>2, <2>3, WordIs DEF Base
  <2> HIDE DEF m
  <2>5. Base(i) % WordMod = Base(i)
    <3> DEFINE y == Base(i)
               z == 0
    <3>1. WordMod \in Nat \ {0}
      BY AmxTypes
    <3>2. y \in 0 .. WordMod - 1 /\ y \in Nat /\ z \in Int /\ y = WordMod * z + y
      BY <2>4, <3>1
    <3> HIDE DEF y, z
    <3>3. y % WordMod = y
      BY <3>1, <3>2, RemainderIs, Zenon
    <3> QED BY <3>3 DEF y
  <2>6. Base(i) + b * 0 = Base(i)
    BY <2>4, AmxTypes
  <2> QED BY <2>1, <2>4, <2>5, <2>6
<1> HIDE DEF m
<1>7. QED
  BY <1>4, <1>5, <1>6 DEF Patched, m

\* One more entry of the table applied.
LEMMA OnePatch ==
    ASSUME ExInv, NEW b \in Nat, NEW k \in Nat, k < exFile.reloc_count, Patched(b, mem, k), NEW past \in PastBlock,
           Entry(exFile, past, k + 1).offset < exFile.image_size
    PROVE  Patched(b, [mem EXCEPT ![Entry(exFile, past, k + 1).offset + 1] = (@ + b) % WordMod], k + 1)
<1> DEFINE at == exFile.reloc_offset + 2 * (k + 1) - 2
           o == Entry(exFile, past, k + 1).offset
           m == [mem EXCEPT ![o + 1] = (@ + b) % WordMod]
<1>1. at \in 0 .. 4 * SizeMod /\ at < exFile.reloc_offset + 2 * exFile.reloc_count
  <2>1. /\ exFile.reloc_offset \in Nat /\ exFile.reloc_count \in Nat /\ SizeMod \in Nat
        /\ exFile.reloc_offset < SizeMod /\ exFile.reloc_count < SizeMod
    BY AmxTypes
  <2> QED BY <2>1
<1>2. o = Word(exFile, past, at)
  BY DEF Entry
<1>3. o \in 0 .. WordMod - 1 /\ (at < ReadIn(exFile) => o = exFile.words[at])
  BY <1>1, <1>2, WordIs
<1>4. o \in Nat /\ o < exFile.image_size
  BY <1>3
<1> HIDE DEF o, at
<1>5. /\ ImageWords \in Nat /\ exFile.image_size <= ImageWords /\ exFile.image_size \in Nat /\ WordMod \in Nat \ {0}
      /\ mem \in [1 .. ImageWords -> Nat] /\ o + 1 \in 1 .. exFile.image_size /\ o + 1 \in 1 .. ImageWords
  <2>1. exFile.image_size \in Nat /\ exFile.bss_size \in Nat /\ WordMod \in Nat \ {0}
    BY AmxTypes
  <2>2. ImageWords \in Nat /\ exFile.image_size <= ImageWords
    BY <2>1 DEF ImageWords
  <2> QED BY <1>4, <2>1, <2>2 DEF Patched
<1>6. (mem[o + 1] + b) % WordMod \in Nat
  <2>1. mem[o + 1] + b \in Nat
    BY <1>5
  <2> DEFINE y == mem[o + 1] + b
  <2>2. y \in Nat /\ WordMod \in Nat \ {0}
    BY <1>5, <2>1
  <2> HIDE DEF y
  <2>3. y % WordMod \in Nat
    BY <2>2
  <2> QED BY <2>3 DEF y
<1>7. m \in [1 .. ImageWords -> Nat] /\ m[o + 1] = (mem[o + 1] + b) % WordMod
      /\ \A i \in 1 .. ImageWords : i # o + 1 => m[i] = mem[i]
  BY <1>5, <1>6
<1> HIDE DEF m
<1>8. \A i \in (exFile.image_size + 1) .. ImageWords : m[i] = 0
  <2> TAKE i \in (exFile.image_size + 1) .. ImageWords
  <2>1. i \in 1 .. ImageWords /\ i # o + 1
    BY <1>5
  <2> QED BY <1>7, <2>1 DEF Patched
<1>9. ASSUME InFile(exFile), NEW i \in 1 .. exFile.image_size
      PROVE  m[i] = (Base(i) + b * Cardinality(Hits(k + 1, i))) % WordMod
  <2> DEFINE c == Cardinality(Hits(k, i))
  <2>1. mem[i] = (Base(i) + b * c) % WordMod /\ i \in 1 .. ImageWords
    BY <1>5, <1>9 DEF Patched
  <2>2. o = exFile.words[at]
    <3>1. at < ReadIn(exFile)
      <4>1. exFile.reloc_offset + 2 * exFile.reloc_count <= ReadIn(exFile)
        BY <1>9 DEF InFile
      <4>2. exFile.reloc_offset + 2 * exFile.reloc_count \in Nat
        BY AmxTypes
      <4> QED BY <1>1, <4>1, <4>2, ReadInIs
    <3> QED BY <1>3, <3>1
  <2>3. IsFiniteSet(Hits(k, i)) /\ c \in Nat
    <3>1. IsFiniteSet(1 .. k)
      <4> DEFINE x == 1
      <4>1. x \in Int /\ k \in Int
        OBVIOUS
      <4> HIDE DEF x
      <4>2. IsFiniteSet(x .. k)
        BY <4>1, FS_Interval
      <4> QED BY <4>2 DEF x
    <3>2. Hits(k, i) \in SUBSET (1 .. k)
      BY DEF Hits
    <3>3. IsFiniteSet(Hits(k, i))
      BY <3>1, <3>2, FS_Subset
    <3> QED BY <3>3, FS_CardinalityType
  <2>4. Base(i) \in Nat
    <3>1. exFile.image_offset + i - 1 \in 0 .. exFile.len - 1
      <4>1. exFile.image_offset + exFile.image_size <= ReadIn(exFile)
        BY <1>9 DEF InFile
      <4>2. exFile.image_offset \in Nat /\ exFile.image_size \in Nat /\ exFile.len \in Nat
        BY AmxTypes
      <4> QED BY <4>1, <4>2, ReadInIs
    <3>2. Base(i) \in 0 .. WordMod - 1
      BY <3>1, AmxTypes DEF Base
    <3> QED BY <3>2
  <2>5. CASE i = o + 1
    <3>1. Hits(k + 1, i) = Hits(k, i) \cup {k + 1} /\ k + 1 \notin Hits(k, i)
      <4>1. exFile.words[exFile.reloc_offset + 2 * (k + 1) - 2] = i - 1
        BY <1>4, <2>2, <2>5 DEF at
      <4> QED BY <4>1 DEF Hits
    <3>2. Cardinality(Hits(k + 1, i)) = c + 1
      BY <2>3, <3>1, FS_AddElement
    <3> HIDE DEF c
    <3>3. b * (c + 1) = b * c + b /\ b * c \in Nat
      BY <2>3
    <3> DEFINE d == b * c
               y == Base(i)
    <3>4. d \in Nat /\ y \in Nat /\ b * (c + 1) = d + b /\ mem[i] = (y + d) % WordMod
      BY <2>1, <2>4, <3>3
    <3>5. m[i] = (((y + d) % WordMod) + b) % WordMod
      BY <1>7, <2>5, <3>4
    <3> HIDE DEF d, y
    <3>6. y + d \in Nat
      BY <3>4
    <3>7. (((y + d) % WordMod) + b) % WordMod = (y + d + b) % WordMod
      BY <1>5, <3>6, AddWraps
    <3>8. y + d + b = y + (d + b)
      BY <3>4
    <3>9. m[i] = (y + b * (c + 1)) % WordMod
      BY <3>4, <3>5, <3>7, <3>8
    <3> QED BY <3>2, <3>9 DEF y
  <2>6. CASE i # o + 1
    <3>1. Hits(k + 1, i) = Hits(k, i)
      <4>1. exFile.words[exFile.reloc_offset + 2 * (k + 1) - 2] # i - 1
        <5>1. o # i - 1
          BY <1>4, <2>6
        <5> QED BY <2>2, <5>1 DEF at
      <4> QED BY <4>1 DEF Hits
    <3> QED BY <1>7, <2>1, <2>6, <3>1
  <2> QED BY <2>5, <2>6
<1>10. QED
  BY <1>7, <1>8, <1>9 DEF Patched, m, o

\* A freshly started exec_run holds nothing.
LEMMA ExecStarts == ExecInit => ExInv
BY DEF ExecInit, ExInv, NoCtx

\* exec_load: either the file alone is held, or nothing is.
LEMMA LoadKeeps ==
    ASSUME ExInv, NEW f \in AmxFile, NEW ok \in BOOLEAN, exec_load(f, ok)
    PROVE  ExInv'
<1> DEFINE good == f.len >= AmxHeader /\ verify_header(f) /\ ok /\ Had(Total(f)) /\ Whole(f)
<1>1. exPc = "idle" /\ heap = {} /\ ctx = NoCtx /\ exFile' = f /\ freedTwice' = FALSE
  BY DEF exec_load, ExInv
<1>2. CASE good
  <2>1. exPc' = "loaded" /\ FileOnly' /\ f.entry < f.image_size
    BY <1>1, <1>2 DEF exec_load, FileOnly, verify_header
  <2> QED BY <1>1, <2>1 DEF ExInv
<1>3. CASE ~good
  <2>1. exPc' = "idle" /\ heap' = {} /\ ctx' = NoCtx
    BY <1>1, <1>3 DEF exec_load
  <2> QED BY <1>1, <2>1 DEF ExInv
<1> QED BY <1>2, <1>3

\* exec_map: both blocks are taken, or neither stays in ctx.
LEMMA MapKeeps ==
    ASSUME ExInv, NEW a \in Address, NEW i \in BOOLEAN, NEW s \in BOOLEAN, NEW past \in PastBlock,
           exec_map(a, i, s, past)
    PROVE  ExInv'
<1> DEFINE had == i /\ Had(Mapping(exFile))
<1>1. /\ exPc = "loaded" /\ FileOnly /\ exFile' = exFile /\ freedTwice' = FALSE /\ exFile \in AmxFile
      /\ exFile.entry < exFile.image_size /\ a \in Nat \ {0} /\ exDone' = 0
  <2>1. a \in Nat \ {0}
    BY AmxAssumption
  <2> QED BY <2>1 DEF exec_map, ExInv
<1>2. CASE had /\ s
  <2> DEFINE m == [j \in 1 .. ImageWords |-> IF j > exFile.image_size THEN 0
                                             ELSE Word(exFile, past, exFile.image_offset + j - 1)]
  <2>1. /\ exPc' = "mapped" /\ heap' = ExBlocks /\ ctx' = [file_image |-> 1, image_base |-> a, stack |-> 1]
        /\ mem' = m
    BY <1>1, <1>2 DEF exec_map, FileOnly, ExBlocks, ImageWords
  <2>2. Mapped'
    BY <1>1, <2>1 DEF Mapped
  <2>3. Patched(ctx.image_base, mem, 0)'
    <3>1. Patched(a, m, 0)
      BY <1>1, FreshImage
    <3>2. mem' = m /\ ctx'.image_base = a
      BY <2>1
    <3> HIDE DEF m
    <3>3. ImageWords' = ImageWords /\ \A x : Base(x)' = Base(x) /\ Hits(0, x)' = Hits(0, x)
      BY <1>1 DEF ImageWords, Base, Hits
    <3> QED BY <1>1, <3>1, <3>2, <3>3 DEF Patched
  <2>4. exDone' \in 0 .. exFile'.reloc_count
    BY <1>1, AmxTypes
  <2>5. Patched(ctx.image_base, mem, exDone)'
    BY <1>1, <2>3
  <2> HIDE DEF m
  <2> QED BY <1>1, <2>1, <2>2, <2>4, <2>5 DEF ExInv
<1>3. CASE ~(had /\ s)
  <2>1. exPc' = "fail" /\ FileOnly'
    BY <1>1, <1>3 DEF exec_map, FileOnly, StackFailed
  <2> QED BY <1>1, <2>1 DEF ExInv
<1> QED BY <1>2, <1>3

\* exec_relocate: one more entry is applied, the table is at its end, or the run
\* fails with all blocks held.
LEMMA RelocateKeeps ==
    ASSUME ExInv, NEW past \in PastBlock, exec_relocate(past)
    PROVE  ExInv'
<1> DEFINE r == Entry(exFile, past, exDone + 1)
           b == ctx.image_base
<1>1. /\ exPc = "mapped" /\ Mapped /\ Patched(b, mem, exDone) /\ exFile' = exFile /\ ctx' = ctx
      /\ heap' = heap /\ freedTwice' = FALSE /\ exFile \in AmxFile /\ exFile.entry < exFile.image_size
      /\ exDone \in 0 .. exFile.reloc_count /\ b \in Nat
  BY DEF exec_relocate, ExInv, Mapped
<1>2. Mapped'
  BY <1>1 DEF Mapped
<1>3. ASSUME NEW m, NEW k, Patched(b, m, k), mem' = m PROVE Patched(ctx.image_base, mem, k)'
  <2>1. ImageWords' = ImageWords /\ \A x : Base(x)' = Base(x) /\ Hits(k, x)' = Hits(k, x)
    BY <1>1 DEF ImageWords, Base, Hits
  <2> QED BY <1>1, <1>3, <2>1 DEF Patched
<1>4. CASE exDone < exFile.reloc_count /\ r.offset < exFile.image_size /\ r.type = 0
  <2> DEFINE m == [mem EXCEPT ![r.offset + 1] = (@ + b) % WordMod]
  <2>1. exPc' = "mapped" /\ exDone' = exDone + 1 /\ mem' = m
    BY <1>1, <1>4 DEF exec_relocate
  <2>2. Patched(b, m, exDone + 1)
    <3>1. exDone \in Nat
      BY <1>1, AmxTypes
    <3> QED BY <1>1, <1>4, <3>1, OnePatch
  <2> HIDE DEF m
  <2>3. Patched(ctx.image_base, mem, exDone)'
    <3> DEFINE k == exDone + 1
    <3>1. Patched(b, m, k)
      BY <2>2
    <3>2. exDone' = k /\ mem' = m /\ ctx'.image_base = b /\ exFile' = exFile
      BY <1>1, <2>1
    <3> HIDE DEF k, b
    <3>3. ImageWords' = ImageWords /\ \A x : Base(x)' = Base(x) /\ Hits(exDone, x)' = Hits(k, x)
      BY <3>2 DEF ImageWords, Base, Hits
    <3> QED BY <3>1, <3>2, <3>3 DEF Patched
  <2>4. exDone' \in 0 .. exFile'.reloc_count
    BY <1>1, <1>4, <2>1, AmxTypes
  <2> QED BY <1>1, <1>2, <2>1, <2>3, <2>4 DEF ExInv
<1>5. CASE exDone < exFile.reloc_count /\ ~(r.offset < exFile.image_size /\ r.type = 0)
  <2>1. exPc' = "fail"
    BY <1>1, <1>5 DEF exec_relocate
  <2> QED BY <1>1, <1>2, <2>1 DEF ExInv
<1>6. CASE exDone = exFile.reloc_count
  <2>1. exPc' = "relocated" /\ mem' = mem /\ exDone' = exDone
    BY <1>1, <1>6, AmxTypes DEF exec_relocate
  <2>2. Patched(ctx.image_base, mem, exFile.reloc_count)'
    <3>1. ImageWords' = ImageWords /\ \A x, j : Base(x)' = Base(x) /\ Hits(j, x)' = Hits(j, x)
      BY <1>1 DEF ImageWords, Base, Hits
    <3> QED BY <1>1, <1>6, <2>1, <3>1 DEF Patched
  <2> QED BY <1>1, <1>2, <2>1, <2>2 DEF ExInv
<1> QED BY <1>1, <1>4, <1>5, <1>6, AmxTypes

\* exec_cleanup frees what ctx names, which is what is held.
LEMMA CleanupKeeps ==
    ASSUME ExInv, exec_cleanup
    PROVE  ExInv'
<1>1. /\ exPc' = "idle" /\ exFile' = exFile /\ ctx' = NoCtx /\ exFile \in AmxFile
      /\ Mapped \/ FileOnly
  BY DEF exec_cleanup, ExInv, NoCtx
<1> DEFINE freed == (IF ctx.stack # 0 THEN {"stack"} ELSE {}) \cup (IF ctx.image_base # 0 THEN {"image"} ELSE {})
                    \cup (IF ctx.file_image # 0 THEN {"file"} ELSE {})
<1>3. freed = heap
  <2>1. CASE Mapped
    <3>1. ctx.stack = 1 /\ ctx.image_base # 0 /\ ctx.file_image = 1 /\ heap = {"file", "image", "stack"}
      BY <2>1 DEF Mapped, ExBlocks
    <3> QED BY <3>1
  <2>2. CASE FileOnly
    <3>1. ctx.stack = 0 /\ ctx.image_base = 0 /\ ctx.file_image = 1 /\ heap = {"file"}
      BY <2>2 DEF FileOnly
    <3> QED BY <3>1
  <2> QED BY <1>1, <2>1, <2>2
<1>4. heap' = heap \ freed /\ freedTwice' = (freedTwice \/ ~(freed \subseteq heap)) /\ freedTwice = FALSE
  BY DEF exec_cleanup, ExInv
<1>2. heap' = {} /\ freedTwice' = FALSE
  <2> HIDE DEF freed
  <2>1. heap' = {}
    BY <1>3, <1>4
  <2>2. freed \subseteq heap
    BY <1>3
  <2> QED BY <1>4, <2>1, <2>2
<1> QED BY <1>1, <1>2 DEF ExInv

\* Starting the program, its return and a stuttering step leave all but exPc alone.
LEMMA RestKeeps ==
    ASSUME ExInv, exec_start \/ ProgramReturns \/ UNCHANGED execVars
    PROVE  ExInv'
<1>1. /\ exFile' = exFile /\ ctx' = ctx /\ mem' = mem /\ heap' = heap /\ freedTwice' = freedTwice
      /\ exDone' = exDone
  BY DEF exec_start, ProgramReturns, execVars
<1>2. /\ Mapped' <=> Mapped
      /\ FileOnly' <=> FileOnly
      /\ \A k : Patched(ctx.image_base, mem, k)' <=> Patched(ctx.image_base, mem, k)
  <2>1. ImageWords' = ImageWords /\ \A x, k : Base(x)' = Base(x) /\ Hits(k, x)' = Hits(k, x)
    BY <1>1 DEF ImageWords, Base, Hits
  <2>2. \A k : Patched(ctx.image_base, mem, k)' <=> Patched(ctx.image_base, mem, k)
    BY <1>1, <2>1 DEF Patched
  <2> QED BY <1>1, <2>2 DEF Mapped, FileOnly
<1>3. CASE exec_start
  BY <1>1, <1>2, <1>3 DEF exec_start, ExInv
<1>4. CASE ProgramReturns
  BY <1>1, <1>2, <1>4 DEF ProgramReturns, ExInv
<1>5. CASE UNCHANGED execVars
  BY <1>1, <1>2, <1>5 DEF execVars, ExInv
<1> QED BY <1>3, <1>4, <1>5

\* What the invariant says of a started program is what ExecSound asks.
LEMMA ExecInvSound == ExInv => ExecSound
<1> SUFFICES ASSUME ExInv PROVE ExecSound
  OBVIOUS
<1>1. ~freedTwice /\ (exPc = "idle" => heap = {})
  BY DEF ExInv
<1>2. ASSUME exPc = "running"
      PROVE  /\ heap = {"file", "image", "stack"} /\ exFile.entry < exFile.image_size
             /\ \A i \in (exFile.image_size + 1) .. (exFile.image_size + exFile.bss_size) : mem[i] = 0
             /\ InFile(exFile) => \A i \in 1 .. exFile.image_size :
                   mem[i] = (exFile.words[exFile.image_offset + i - 1] + ctx.image_base *
                               Cardinality({k \in 1 .. exFile.reloc_count :
                                   exFile.words[exFile.reloc_offset + 2 * k - 2] = i - 1})) % WordMod
  <2>1. Mapped /\ Patched(ctx.image_base, mem, exFile.reloc_count) /\ exFile.entry < exFile.image_size
    BY <1>2 DEF ExInv
  <2>2. heap = {"file", "image", "stack"}
    BY <2>1 DEF Mapped, ExBlocks
  <2> QED BY <2>1, <2>2 DEF Patched, Base, Hits, ImageWords
<1> QED BY <1>1, <1>2 DEF ExecSound

\* Whichever allocation, header check or relocation fails, exec_run gives back every
\* block once, and a program that starts finds its BSS zero and, if the file holds
\* image and table, its image relocated.
THEOREM ExecSoundHolds == ExecSpec => []ExecSound
<1>1. ExInv /\ [ExecNext]_execVars => ExInv'
  <2> SUFFICES ASSUME ExInv, [ExecNext]_execVars PROVE ExInv'
    OBVIOUS
  <2>1. CASE \E f \in AmxFile, ok \in BOOLEAN : exec_load(f, ok)
    BY <2>1, LoadKeeps
  <2>2. CASE \E a \in Address, i, s \in BOOLEAN, past \in PastBlock : exec_map(a, i, s, past)
    BY <2>2, MapKeeps
  <2>3. CASE \E past \in PastBlock : exec_relocate(past)
    BY <2>3, RelocateKeeps
  <2>4. CASE exec_cleanup
    BY <2>4, CleanupKeeps
  <2>5. CASE exec_start \/ ProgramReturns \/ UNCHANGED execVars
    BY <2>5, RestKeeps
  <2> QED BY <2>1, <2>2, <2>3, <2>4, <2>5 DEF ExecNext
<1> QED BY <1>1, ExecStarts, ExecInvSound, PTL DEF ExecSpec
-----------------------------------------------------------------------------
(***************************************************************************)
(* Svga: one command at a time in the FIFO.  Until the mouse interrupts a  *)
(* command of the task, the FIFO holds the words of at most one command:   *)
(* those that the context at work has written of it, or all of them from   *)
(* its last word until the svga_sync that follows it.                      *)
(***************************************************************************)
Past(s, k) == IF s + k < Ring THEN s + k ELSE s + k - Ring
Holds(id, k) == /\ NEXT = Past(STOP, k)
                /\ \A i \in 0..(k - 1) : svFifo[Past(STOP, i)] = <<id, i + 1>>
Working == IF svCpu["mouse"].op = "idle" THEN svCpu["task"] ELSE svCpu["mouse"]

\* A command is partly written: the device has the words before c.word.
Partial(c) ==
    /\ c.word \in 1..Words /\ c.id = svSent /\ svSent = Len(svDone) + 1
    /\ c.op \in {"store", "advance"} => c.next = NEXT
    /\ c.op = "advance" => svFifo[NEXT] = <<svSent, c.word>>
    /\ Holds(svSent, c.word - 1)

\* No command is: the FIFO is empty, or holds one that somebody will wait for.
Between ==
    \/ NEXT = STOP /\ svSent = Len(svDone)
    \/ /\ Holds(svSent, Words) /\ svSent = Len(svDone) + 1
       /\ Working.op = "end" \/ (svCpu["mouse"].op = "start" /\ svCpu["task"].op = "end")

CpuTypes(c) ==
    /\ c = [todo |-> c.todo, op |-> c.op, word |-> c.word, next |-> c.next, id |-> c.id]
    /\ c.op \in {"idle", "start", "load", "store", "advance", "end"} /\ c.op = "idle" => c = Idle
    /\ c.op = "load" => c.word \in 1..Words

FifoTypes ==
    /\ STOP \in 0..(Ring - 1) /\ NEXT \in 0..(Ring - 1) /\ svSent \in Nat /\ Len(svDone) \in Nat
    /\ svFifo = [i \in 0..(Ring - 1) |-> svFifo[i]]
    /\ svCpu = [who \in {"task", "mouse"} |-> svCpu[who]]
    /\ CpuTypes(svCpu["task"]) /\ CpuTypes(svCpu["mouse"])

Untorn ==
    /\ FifoTypes
    /\ svDone = [i \in 1..Len(svDone) |-> CommandWords(i)]
    /\ InCommand(svCpu["task"]) => svCpu["mouse"].op = "idle"
    /\ IF InCommand(Working) THEN Partial(Working) ELSE Between

FifoInv == svTorn \in BOOLEAN /\ (~svTorn => Untorn)

\* What is mapped and shown, by the stage of the start-up.
Boots ==
    /\ svPages = <<>> /\ svScene = 0
    /\ svga = [w |-> 0, h |-> 0, pitch |-> 0, bpp |-> 0, fb_virt |-> FALSE, fifo_virt |-> FALSE, initialized |-> FALSE]
ShowInv ==
    /\ svDev \in SvDevices /\ svPc \in {"boot", "svga", "switch", "run"} /\ (svPc \in {"boot", "svga"} => Boots)
    /\ svPc = "switch" => svScene = 0 /\ svga.initialized = TRUE /\ svga.fb_virt /\ svga.bpp # 0
    /\ InSpace => \A p \in DOMAIN svPages : svPages[p][1] = "fb" => p < RecursivePage
    /\ svga.initialized /\ InSpace /\ PagesOf(FbSize(svga)) <= FifoPage =>
          \A p \in 0..(PagesOf(FbSize(svga)) - 1) : svPages[p] = <<"fb", p>>
    /\ fbuf.front = "svga" => svga.initialized /\ svga.fb_virt
    /\ fbuf.initialized => fbuf.front # "none" /\ (svPc # "switch" => (fbuf.front = "boot" <=> ~svga.initialized))
    /\ ~fbuf.initialized => fbuf.front = "none"
    /\ fbuf.own => fbuf.pitch = fbuf.hw.w
    /\ svScene = 2 /\ fbuf.own /\ (fbuf.hw.bpp = 24 \/ (fbuf.hw.bpp = 32 /\ fbuf.hw.w = fbuf.hw.pitch)) /\ ~Outdated
          => svScreen = "scene"

ScreenInv == FifoInv /\ ShowInv

LEMMA Mod ==
    ASSUME NEW r \in Nat \ {0}, NEW x \in 0..(r - 1)
    PROVE  x % r = x /\ (x + r) % r = x /\ (x - r) % r = x
<1>1. x % r = x
  BY SMTT(30)
<1>2. (x + r) % r = x
  BY SMTT(30)
<1>3. (x - r) % r = x
  BY SMTT(30)
<1> QED BY <1>1, <1>2, <1>3

\* The ring, with its wrap-around written out.
LEMMA PastIs ==
    ASSUME NEW s \in 0..(Ring - 1), NEW k \in 0..Words
    PROVE  /\ Past(s, k) \in 0..(Ring - 1) /\ (s + k) % Ring = Past(s, k) /\ (Past(s, k) - s) % Ring = k
           /\ \A j \in 0..Words : Past(s, j) = Past(s, k) => j = k
           /\ k < Words => Past(s, k + 1) = NextNext(Past(s, k))
<1> DEFINE p == Past(s, k)
<1>1. Ring \in Nat \ {0} /\ Ring > Words /\ Words = 5
  BY SvgaAssumption DEF Words
<1>2. p \in 0..(Ring - 1) /\ p = (IF s + k < Ring THEN s + k ELSE s + k - Ring) /\ k \in 0..(Ring - 1)
  BY <1>1 DEF Past
<1>3. (s + k) % Ring = p
  <2>1. s + k = p \/ s + k = p + Ring
    BY <1>1, <1>2
  <2> HIDE DEF p
  <2> QED BY <1>1, <1>2, <2>1, Mod
<1>4. (p - s) % Ring = k
  <2>1. p - s = k \/ p - s = k - Ring
    BY <1>1, <1>2
  <2> HIDE DEF p
  <2> QED BY <1>1, <1>2, <2>1, Mod
<1>5. \A j \in 0..Words : Past(s, j) = p => j = k
  BY <1>1, <1>2 DEF Past
<1>6. k < Words => Past(s, k + 1) = NextNext(p)
  BY <1>1, <1>2 DEF Past, NextNext
<1> QED BY <1>2, <1>3, <1>4, <1>5, <1>6

\* How many words wait, and whether the device has something to do.
LEMMA FilledIs ==
    ASSUME FifoTypes, NEW k \in 0..Words, NEW id, Holds(id, k)
    PROVE  Filled = k /\ (Busy <=> k = Words) /\ (k > 0 => svFifo[STOP] = <<id, 1>>)
<1>1. STOP \in 0..(Ring - 1) /\ NEXT = Past(STOP, k)
  BY DEF FifoTypes, Holds
<1>2. Filled = k
  BY <1>1, PastIs DEF Filled
<1>3. k > 0 => svFifo[STOP] = <<id, 1>>
  <2>1. Past(STOP, 0) = STOP
    BY <1>1, SvgaAssumption DEF Past
  <2>2. k > 0 => 0 \in 0..(k - 1)
    OBVIOUS
  <2> QED BY <2>1, <2>2 DEF Holds
<1>4. Busy <=> k = Words
  <2>1. k > 0 => svFifo[STOP][2] = 1
    BY <1>3
  <2>2. Words = 5
    BY DEF Words
  <2> QED BY <1>2, <2>1, <2>2 DEF Busy
<1> QED BY <1>2, <1>3, <1>4

LEMMA CpuSet ==
    ASSUME FifoTypes, NEW who \in {"task", "mouse"}, NEW x, svCpu' = [svCpu EXCEPT ![who] = x]
    PROVE  /\ svCpu' = [w \in {"task", "mouse"} |-> svCpu'[w]] /\ svCpu'[who] = x
           /\ \A o \in {"task", "mouse"} \ {who} : svCpu'[o] = svCpu[o]
BY DEF FifoTypes

\* Between two commands an idle device has an empty FIFO.
LEMMA BetweenEmpty ==
    ASSUME FifoTypes, Between, ~Busy
    PROVE  NEXT = STOP /\ svSent = Len(svDone)
<1>1. SUFFICES ASSUME Holds(svSent, Words) PROVE FALSE
  BY DEF Between
<1>2. Words \in 0..Words
  BY DEF Words
<1> QED BY <1>1, <1>2, FilledIs

\* The running context and the other one.
LEMMA RunsIs ==
    ASSUME Untorn, NEW who \in {"task", "mouse"}, Runs(who)
    PROVE  /\ Working = svCpu[who] /\ svCpu[who].op # "idle" /\ CpuTypes(svCpu[who])
           /\ who = "task" => svCpu["mouse"].op = "idle" /\ svCpu["mouse"] = Idle
           /\ who = "mouse" => ~InCommand(svCpu["task"])
BY DEF Untorn, FifoTypes, CpuTypes, Runs, Working, Idle

LEMMA SyncKeeps ==
    ASSUME FifoInv, NEW who \in {"task", "mouse"}, svga_sync(who)
    PROVE  FifoInv'
<1>1. UNCHANGED <<NEXT, STOP, svFifo, svSent, svDone, svTorn>>
  BY DEF svga_sync
<1> SUFFICES ASSUME ~svTorn PROVE Untorn'
  BY <1>1 DEF FifoInv
<1>2. Untorn /\ FifoTypes
  BY DEF FifoInv, Untorn
<1> DEFINE c == svCpu[who]
           x == IF c.op = "start" THEN [c EXCEPT !.op = "load", !.word = 1]
                ELSE IF c.todo = 1 THEN Idle ELSE [c EXCEPT !.todo = c.todo - 1, !.op = "start"]
<1>3. Runs(who) /\ c.op \in {"start", "end"} /\ ~Busy /\ svCpu' = [svCpu EXCEPT ![who] = x]
  <2>1. Runs(who) /\ c.op \in {"start", "end"} /\ ~Busy
    BY DEF svga_sync
  <2>2. svCpu' = [svCpu EXCEPT ![who] = x]
    BY Zenon DEF svga_sync
  <2> QED BY <2>1, <2>2
<1>4. /\ Working = c /\ CpuTypes(c) /\ (who = "task" => svCpu["mouse"].op = "idle" /\ svCpu["mouse"] = Idle)
      /\ who = "mouse" => ~InCommand(svCpu["task"])
  BY <1>2, <1>3, RunsIs
<1>5. NEXT = STOP /\ svSent = Len(svDone)
  <2>1. ~InCommand(c)
    BY <1>3 DEF InCommand
  <2> QED BY <1>2, <1>3, <1>4, <2>1, BetweenEmpty DEF Untorn
<1>6. CpuTypes(x) /\ ~InCommand(x)
  <2>1. c = [todo |-> c.todo, op |-> c.op, word |-> c.word, next |-> c.next, id |-> c.id]
    BY <1>4 DEF CpuTypes
  <2>2. 1 \in 1..Words
    BY DEF Words
  <2> HIDE DEF c
  <2>3. CASE c.op = "start"
    <3>1. x = [todo |-> c.todo, op |-> "load", word |-> 1, next |-> c.next, id |-> c.id]
      BY <2>1, <2>3
    <3> HIDE DEF x
    <3> QED BY <2>2, <3>1 DEF CpuTypes, InCommand
  <2>4. CASE c.op # "start" /\ c.todo = 1
    <3>1. x = Idle
      BY <2>4
    <3> HIDE DEF x
    <3> QED BY <3>1 DEF CpuTypes, InCommand, Idle
  <2>5. CASE c.op # "start" /\ c.todo # 1
    <3>1. x = [todo |-> c.todo - 1, op |-> "start", word |-> c.word, next |-> c.next, id |-> c.id]
      BY <2>1, <2>5
    <3> HIDE DEF x
    <3> QED BY <2>2, <3>1 DEF CpuTypes, InCommand
  <2> QED BY <2>3, <2>4, <2>5
<1> HIDE DEF c, x
<1>7. /\ svCpu' = [w \in {"task", "mouse"} |-> svCpu'[w]] /\ svCpu'[who] = x
      /\ \A o \in {"task", "mouse"} \ {who} : svCpu'[o] = svCpu[o]
  BY <1>2, <1>3, CpuSet
<1>8. ~InCommand(svCpu'["task"]) /\ ~InCommand(svCpu'["mouse"])
  <2>1. CASE who = "task"
    BY <1>4, <1>6, <1>7, <2>1 DEF InCommand
  <2>2. CASE who = "mouse"
    BY <1>4, <1>6, <1>7, <2>2 DEF InCommand
  <2> QED BY <2>1, <2>2
<1>9. CpuTypes(svCpu'["task"]) /\ CpuTypes(svCpu'["mouse"])
  <2>1. CpuTypes(svCpu["task"]) /\ CpuTypes(svCpu["mouse"])
    BY <1>2 DEF FifoTypes
  <2> QED BY <1>6, <1>7, <2>1
<1>10. FifoTypes'
  BY <1>1, <1>2, <1>7, <1>9 DEF FifoTypes, CpuTypes
<1>11. Between' /\ ~InCommand(Working)'
  BY <1>1, <1>5, <1>8 DEF Between, Working, InCommand
<1> QED BY <1>1, <1>2, <1>8, <1>10, <1>11 DEF Untorn, InCommand, CommandWords

LEMMA LoadKeepsFifo ==
    ASSUME FifoInv, NEW who \in {"task", "mouse"}, FifoLoad(who)
    PROVE  FifoInv'
<1>1. UNCHANGED <<NEXT, STOP, svFifo, svDone, svTorn>>
  BY DEF FifoLoad
<1> SUFFICES ASSUME ~svTorn PROVE Untorn'
  BY <1>1 DEF FifoInv
<1>2. Untorn /\ FifoTypes
  BY DEF FifoInv, Untorn
<1>0. PICK c : c = svCpu[who]
  OBVIOUS
<1>00. PICK n : n = (IF c.word = 1 THEN svSent + 1 ELSE svSent)
  OBVIOUS
<1>01. PICK d : d = (IF c.word = 1 THEN svSent + 1 ELSE c.id)
  OBVIOUS
<1> DEFINE x == [c EXCEPT !.op = "store", !.next = NEXT, !.id = d]
<1>3. Runs(who) /\ c.op = "load" /\ svSent' = n /\ svCpu' = [svCpu EXCEPT ![who] = x]
  BY <1>0, <1>00, <1>01 DEF FifoLoad
<1>4. /\ Working = c /\ CpuTypes(c) /\ (who = "task" => svCpu["mouse"].op = "idle" /\ svCpu["mouse"] = Idle)
      /\ who = "mouse" => ~InCommand(svCpu["task"])
  BY <1>0, <1>2, <1>3, RunsIs
<1>5. x = [todo |-> c.todo, op |-> "store", word |-> c.word, next |-> NEXT, id |-> d]
      /\ c.word \in 1..Words
  <2>1. c = [todo |-> c.todo, op |-> c.op, word |-> c.word, next |-> c.next, id |-> c.id] /\ c.word \in 1..Words
    BY <1>3, <1>4 DEF CpuTypes
  <2>2. PICK m : m = NEXT
    OBVIOUS
  <2>3. x = [todo |-> c.todo, op |-> "store", word |-> c.word, next |-> m, id |-> d]
    <3>1. x = [c EXCEPT !.op = "store", !.next = m, !.id = d]
      BY <2>2
    <3> HIDE DEF x
    <3> QED BY <2>1, <3>1
  <2> HIDE DEF x
  <2> QED BY <2>1, <2>2, <2>3
<1>a. PICK X : X = x
  OBVIOUS
<1> HIDE DEF x
<1>6. /\ svCpu' = [w \in {"task", "mouse"} |-> svCpu'[w]] /\ svCpu'[who] = X
      /\ \A o \in {"task", "mouse"} \ {who} : svCpu'[o] = svCpu[o]
  BY <1>2, <1>3, <1>a, CpuSet
<1>7. n = Len(svDone) + 1 /\ X.id = n /\ Holds(n, c.word - 1)
  <2>1. CASE c.word = 1
    <3>1. ~InCommand(c)
      BY <1>3, <2>1 DEF InCommand
    <3>2. NEXT = STOP /\ svSent = Len(svDone)
      <4>1. Working.op # "end" /\ (svCpu["mouse"].op = "start" => svCpu["task"].op # "end")
        BY <1>0, <1>3, <1>4
      <4> QED BY <1>2, <1>4, <3>1, <4>1 DEF Untorn, Between
    <3>3. Holds(n, 0)
      <4>1. Past(STOP, 0) = STOP
        BY <1>2, SvgaAssumption DEF FifoTypes, Past
      <4>2. 0..(0 - 1) = {}
        OBVIOUS
      <4> QED BY <3>2, <4>1, <4>2 DEF Holds
    <3>4. X.id = svSent + 1 /\ c.word - 1 = 0
      BY <1>01, <1>5, <1>a, <2>1
    <3> QED BY <1>00, <2>1, <3>2, <3>3, <3>4
  <2>2. CASE c.word # 1
    <3>1. InCommand(c)
      BY <1>3, <1>5, <2>2 DEF InCommand, Words
    <3>2. Partial(c)
      BY <1>2, <1>4, <3>1 DEF Untorn
    <3>3. X.id = c.id
      BY <1>01, <1>5, <1>a, <2>2
    <3> QED BY <1>00, <2>2, <3>2, <3>3 DEF Partial
  <2> QED BY <2>1, <2>2
<1>8. X.op = "store" /\ X.word = c.word /\ X.next = NEXT /\ CpuTypes(X)
  BY <1>5, <1>a DEF CpuTypes
<1>9. CpuTypes(svCpu'["task"]) /\ CpuTypes(svCpu'["mouse"])
  <2>1. CpuTypes(svCpu["task"]) /\ CpuTypes(svCpu["mouse"])
    BY <1>2 DEF FifoTypes
  <2> QED BY <1>6, <1>8, <2>1
<1>10. n \in Nat
  BY <1>2, <1>7 DEF FifoTypes
<1>11. FifoTypes'
  BY <1>1, <1>2, <1>3, <1>6, <1>9, <1>10 DEF FifoTypes, CpuTypes
<1>12. Working' = X /\ InCommand(X) /\ (InCommand(svCpu'["task"]) => svCpu'["mouse"].op = "idle")
  <2>1. CASE who = "task"
    BY <1>4, <1>6, <1>8, <2>1 DEF Working, InCommand
  <2>2. CASE who = "mouse"
    BY <1>4, <1>6, <1>8, <2>2 DEF Working, InCommand
  <2> QED BY <2>1, <2>2
<1>13. Holds(n, X.word - 1)'
  <2>1. Holds(n, c.word - 1)'
    BY <1>1, <1>7 DEF Holds, Past
  <2> QED BY <1>8, <2>1 DEF Holds
<1>14. Partial(X)'
  BY <1>1, <1>3, <1>5, <1>7, <1>8, <1>13 DEF Partial, Holds, Past
<1>15. InCommand(Working)' /\ Partial(Working)'
  BY <1>1, <1>3, <1>12, <1>14 DEF Partial, Holds, InCommand, Past
<1> QED BY <1>1, <1>2, <1>11, <1>12, <1>15 DEF Untorn, InCommand, CommandWords

LEMMA StoreKeepsFifo ==
    ASSUME FifoInv, NEW who \in {"task", "mouse"}, FifoStore(who)
    PROVE  FifoInv'
<1>1. UNCHANGED <<NEXT, STOP, svSent, svDone, svTorn>>
  BY DEF FifoStore
<1> SUFFICES ASSUME ~svTorn PROVE Untorn'
  BY <1>1 DEF FifoInv
<1>2. Untorn /\ FifoTypes
  BY DEF FifoInv, Untorn
<1>0. PICK c : c = svCpu[who]
  OBVIOUS
<1> DEFINE x == [c EXCEPT !.op = "advance"]
<1>3. Runs(who) /\ c.op = "store" /\ svFifo' = [svFifo EXCEPT ![c.next] = <<c.id, c.word>>]
      /\ svCpu' = [svCpu EXCEPT ![who] = x]
  BY <1>0, <1>2 DEF FifoStore, FifoTypes
<1>4. /\ Working = c /\ CpuTypes(c) /\ (who = "task" => svCpu["mouse"].op = "idle" /\ svCpu["mouse"] = Idle)
      /\ who = "mouse" => ~InCommand(svCpu["task"])
  BY <1>0, <1>2, <1>3, RunsIs
<1>5. x = [todo |-> c.todo, op |-> "advance", word |-> c.word, next |-> c.next, id |-> c.id]
  BY <1>3, <1>4 DEF CpuTypes
<1>a. PICK X : X = x
  OBVIOUS
<1> HIDE DEF x
<1>6. /\ svCpu' = [w \in {"task", "mouse"} |-> svCpu'[w]] /\ svCpu'[who] = X
      /\ \A o \in {"task", "mouse"} \ {who} : svCpu'[o] = svCpu[o]
  BY <1>2, <1>3, <1>a, CpuSet
<1>7. Partial(c) /\ c.word \in 1..Words /\ c.id = svSent /\ c.next = NEXT
  <2>1. InCommand(c)
    BY <1>3 DEF InCommand
  <2> QED BY <1>2, <1>3, <1>4, <2>1 DEF Untorn, Partial
<1>8. X.op = "advance" /\ X.word = c.word /\ X.next = NEXT /\ X.id = svSent /\ CpuTypes(X)
  BY <1>5, <1>7, <1>a DEF CpuTypes
<1>9. CpuTypes(svCpu'["task"]) /\ CpuTypes(svCpu'["mouse"])
  <2>1. CpuTypes(svCpu["task"]) /\ CpuTypes(svCpu["mouse"])
    BY <1>2 DEF FifoTypes
  <2> QED BY <1>6, <1>8, <2>1
<1>10. /\ svFifo' = [i \in 0..(Ring - 1) |-> svFifo'[i]] /\ svFifo'[NEXT] = <<svSent, c.word>>
       /\ \A i \in 0..(Ring - 1) : i # NEXT => svFifo'[i] = svFifo[i]
  BY <1>2, <1>3, <1>7 DEF FifoTypes
<1>11. FifoTypes'
  BY <1>1, <1>2, <1>6, <1>9, <1>10 DEF FifoTypes, CpuTypes
<1>12. Working' = X /\ InCommand(X) /\ (InCommand(svCpu'["task"]) => svCpu'["mouse"].op = "idle")
  <2>1. CASE who = "task"
    BY <1>4, <1>6, <1>8, <2>1 DEF Working, InCommand
  <2>2. CASE who = "mouse"
    BY <1>4, <1>6, <1>8, <2>2 DEF Working, InCommand
  <2> QED BY <2>1, <2>2
<1>13. Holds(svSent, c.word - 1)'
  <2> DEFINE k == c.word - 1
  <2>1. k \in 0..Words /\ k <= Words /\ k \in Nat
    BY <1>7 DEF Words
  <2> HIDE DEF k
  <2>2. NEXT = Past(STOP, k) /\ \A i \in 0..(k - 1) : svFifo[Past(STOP, i)] = <<svSent, i + 1>>
    BY <1>7 DEF Partial, Holds, k
  <2> SUFFICES ASSUME NEW i \in 0..(k - 1) PROVE svFifo'[Past(STOP, i)] = <<svSent, i + 1>>
    BY <1>1, <2>2 DEF Holds, Past, k
  <2>3. Past(STOP, i) \in 0..(Ring - 1) /\ Past(STOP, i) # NEXT
    <3>1. i \in 0..Words /\ i # k /\ STOP \in 0..(Ring - 1)
      BY <1>2, <2>1 DEF Words, FifoTypes
    <3> QED BY <2>1, <2>2, <3>1, PastIs
  <2> QED BY <1>10, <2>2, <2>3
<1>14. Partial(X)'
  BY <1>1, <1>7, <1>8, <1>10, <1>13 DEF Partial, Holds, Past
<1>15. InCommand(Working)' /\ Partial(Working)'
  BY <1>1, <1>12, <1>14 DEF Partial, Holds, InCommand, Past
<1> QED BY <1>1, <1>2, <1>11, <1>12, <1>15 DEF Untorn, InCommand, CommandWords

LEMMA AdvanceKeepsFifo ==
    ASSUME FifoInv, NEW who \in {"task", "mouse"}, FifoAdvance(who)
    PROVE  FifoInv'
<1>1. UNCHANGED <<STOP, svFifo, svSent, svDone, svTorn>>
  BY DEF FifoAdvance
<1> SUFFICES ASSUME ~svTorn PROVE Untorn'
  BY <1>1 DEF FifoInv
<1>2. Untorn /\ FifoTypes
  BY DEF FifoInv, Untorn
<1>0. PICK c : c = svCpu[who]
  OBVIOUS
<1> DEFINE x == IF c.word = Words THEN [c EXCEPT !.op = "end"] ELSE [c EXCEPT !.op = "load", !.word = c.word + 1]
<1>3. Runs(who) /\ c.op = "advance" /\ NEXT' = NextNext(c.next) /\ svCpu' = [svCpu EXCEPT ![who] = x]
  BY <1>0 DEF FifoAdvance
<1>4. /\ Working = c /\ CpuTypes(c) /\ (who = "task" => svCpu["mouse"].op = "idle" /\ svCpu["mouse"] = Idle)
      /\ who = "mouse" => ~InCommand(svCpu["task"])
  BY <1>0, <1>2, <1>3, RunsIs
<1>7. Partial(c) /\ c.word \in 1..Words /\ c.id = svSent /\ c.next = NEXT
  <2>1. InCommand(c)
    BY <1>3 DEF InCommand
  <2> QED BY <1>2, <1>3, <1>4, <2>1 DEF Untorn, Partial
<1>5. /\ c.word = Words => x = [todo |-> c.todo, op |-> "end", word |-> c.word, next |-> c.next, id |-> c.id]
      /\ c.word # Words => x = [todo |-> c.todo, op |-> "load", word |-> c.word + 1, next |-> c.next, id |-> c.id]
  BY <1>3, <1>4 DEF CpuTypes
<1>a. PICK X : X = x
  OBVIOUS
<1> HIDE DEF x
<1>6. /\ svCpu' = [w \in {"task", "mouse"} |-> svCpu'[w]] /\ svCpu'[who] = X
      /\ \A o \in {"task", "mouse"} \ {who} : svCpu'[o] = svCpu[o]
  BY <1>2, <1>3, <1>a, CpuSet
<1>8. /\ CpuTypes(X) /\ X.id = svSent /\ X.op \in {"end", "load"}
      /\ c.word = Words => X.op = "end"
      /\ c.word # Words => X.op = "load" /\ X.word = c.word + 1 /\ X.word \in 1..Words /\ X.word > 1
  BY <1>5, <1>7, <1>a DEF CpuTypes, Words
<1>9. CpuTypes(svCpu'["task"]) /\ CpuTypes(svCpu'["mouse"])
  <2>1. CpuTypes(svCpu["task"]) /\ CpuTypes(svCpu["mouse"])
    BY <1>2 DEF FifoTypes
  <2> QED BY <1>6, <1>8, <2>1
<1>13. Holds(svSent, c.word)' /\ NEXT' \in 0..(Ring - 1)
  <2> DEFINE k == c.word - 1
  <2>1. k \in 0..Words /\ k < Words /\ k \in Nat /\ c.word = k + 1 /\ k + 1 \in 0..Words /\ STOP \in 0..(Ring - 1)
    BY <1>2, <1>7 DEF Words, FifoTypes
  <2>2. NEXT = Past(STOP, k) /\ \A i \in 0..(k - 1) : svFifo[Past(STOP, i)] = <<svSent, i + 1>>
    BY <1>7 DEF Partial, Holds
  <2>3. svFifo[NEXT] = <<svSent, k + 1>>
    BY <1>3, <1>7, <2>1 DEF Partial
  <2> HIDE DEF k
  <2>4. NEXT' = Past(STOP, k + 1) /\ Past(STOP, k + 1) \in 0..(Ring - 1)
    BY <1>3, <1>7, <2>1, <2>2, PastIs
  <2> SUFFICES ASSUME NEW i \in 0..k PROVE svFifo[Past(STOP, i)] = <<svSent, i + 1>>
    <3>1. c.word - 1 = k
      BY <2>1
    <3> QED BY <1>1, <2>1, <2>4, <3>1 DEF Holds, Past
  <2>5. CASE i = k
    BY <2>2, <2>3, <2>5
  <2>6. CASE i # k
    <3>1. i \in 0..(k - 1)
      BY <2>1, <2>6
    <3> QED BY <2>2, <3>1
  <2> QED BY <2>5, <2>6
<1>11. FifoTypes'
  BY <1>1, <1>2, <1>6, <1>9, <1>13 DEF FifoTypes, CpuTypes
<1>12. Working' = X /\ (InCommand(svCpu'["task"]) => svCpu'["mouse"].op = "idle")
  <2>1. CASE who = "task"
    BY <1>4, <1>6, <1>8, <2>1 DEF Working, InCommand
  <2>2. CASE who = "mouse"
    BY <1>4, <1>6, <1>8, <2>2 DEF Working, InCommand
  <2> QED BY <2>1, <2>2
<1>14. svSent = Len(svDone) + 1
  BY <1>7 DEF Partial
<1>15. CASE c.word = Words
  <2>1. Between' /\ ~InCommand(X)
    <3>1. Holds(svSent, Words)' /\ Working'.op = "end"
      BY <1>8, <1>12, <1>13, <1>15
    <3>2. (svSent = Len(svDone) + 1)'
      BY <1>1, <1>14
    <3>3. Between'
      BY <1>1, <3>1, <3>2 DEF Between
    <3> QED BY <1>8, <1>15, <3>3 DEF InCommand
  <2>2. ~InCommand(Working)'
    BY <1>12, <2>1 DEF InCommand
  <2> QED BY <1>1, <1>2, <1>11, <1>12, <2>1, <2>2 DEF Untorn, InCommand, CommandWords
<1>16. CASE c.word # Words
  <2>1. InCommand(Working)'
    BY <1>8, <1>12, <1>16 DEF InCommand
  <2>2. Holds(svSent, X.word - 1)'
    <3>1. X.word - 1 = c.word
      BY <1>7, <1>8, <1>16 DEF Words
    <3> QED BY <1>1, <1>13, <3>1 DEF Holds, Past
  <2>3. Partial(Working)'
    BY <1>1, <1>8, <1>12, <1>14, <1>16, <2>2 DEF Partial, Holds, Past
  <2> QED BY <1>1, <1>2, <1>11, <1>12, <2>1, <2>3 DEF Untorn, InCommand, CommandWords
<1> QED BY <1>15, <1>16

LEMMA DeviceKeepsFifo ==
    ASSUME FifoInv, DeviceExecutes
    PROVE  FifoInv'
<1>1. UNCHANGED <<NEXT, svFifo, svCpu, svSent, svTorn>> /\ Busy
  BY DEF DeviceExecutes
<1> SUFFICES ASSUME ~svTorn PROVE Untorn'
  BY <1>1 DEF FifoInv
<1>2. Untorn /\ FifoTypes
  BY DEF FifoInv, Untorn
<1>3. Words \in 0..Words /\ 0 \in 0..Words /\ Words = 5 /\ Words > 0
  BY DEF Words
<1>4. ~InCommand(Working)
  <2> SUFFICES ASSUME Partial(Working) PROVE FALSE
    BY <1>2 DEF Untorn
  <2>1. PICK k : k = Working.word - 1
    OBVIOUS
  <2>2. k \in 0..Words /\ k # Words /\ Holds(svSent, k)
    BY <2>1 DEF Partial, Words
  <2> QED BY <1>1, <1>2, <2>2, FilledIs
<1>5. Holds(svSent, Words) /\ svSent = Len(svDone) + 1
  <2>1. ASSUME NEXT = STOP PROVE FALSE
    <3>1. Holds(svSent, 0)
      <4>1. Past(STOP, 0) = STOP
        BY <1>2, SvgaAssumption DEF FifoTypes, Past
      <4>2. 0..(0 - 1) = {}
        OBVIOUS
      <4> QED BY <2>1, <4>1, <4>2 DEF Holds
    <3> QED BY <1>1, <1>2, <1>3, <3>1, FilledIs
  <2> QED BY <1>2, <1>4, <2>1 DEF Untorn, Between
<1>6. svFifo[STOP][2] = 1
  <2>1. svFifo[STOP] = <<svSent, 1>>
    BY <1>2, <1>3, <1>5, FilledIs
  <2> QED BY <2>1
<1> DEFINE w == [i \in 1..Words |-> svFifo[(STOP + i - 1) % Ring]]
<1>7. STOP' = (STOP + Words) % Ring /\ svDone' = Append(svDone, w)
  BY <1>6 DEF DeviceExecutes
<1>8. STOP' = NEXT
  <2>1. (STOP + Words) % Ring = Past(STOP, Words)
    BY <1>2, <1>3, PastIs DEF FifoTypes
  <2> QED BY <1>5, <1>7, <2>1 DEF Holds
<1>9. w = CommandWords(svSent)
  <2>1. ASSUME NEW i \in 1..Words PROVE svFifo[(STOP + i - 1) % Ring] = <<svSent, i>>
    <3>1. PICK j : j = i - 1
      OBVIOUS
    <3>2. j \in 0..Words /\ j \in 0..(Words - 1) /\ i = j + 1 /\ STOP \in 0..(Ring - 1) /\ STOP + i - 1 = STOP + j
      BY SMTT(60), <1>2, <1>3, <3>1, SvgaAssumption DEF FifoTypes
    <3>3. (STOP + j) % Ring = Past(STOP, j)
      BY <3>2, PastIs
    <3>4. svFifo[Past(STOP, j)] = <<svSent, j + 1>>
      BY <1>5, <3>2 DEF Holds
    <3> QED BY <3>2, <3>3, <3>4
  <2> QED BY <2>1 DEF CommandWords
<1> HIDE DEF w
<1>10. /\ Len(svDone') = svSent /\ Len(svDone') \in Nat
       /\ svDone' = [i \in 1..Len(svDone') |-> CommandWords(i)]
  <2>1. PICK n : n = Len(svDone) /\ n \in Nat /\ svSent = n + 1
    BY <1>2, <1>5 DEF FifoTypes
  <2>2. svDone = [i \in 1..n |-> CommandWords(i)]
    BY <1>2, <2>1 DEF Untorn
  <2>3. PICK S : S = {CommandWords(i) : i \in 1..(n + 1)}
    OBVIOUS
  <2>a. w \in S /\ svDone \in Seq(S)
    <3>1. w = CommandWords(n + 1)
      BY <1>9, <2>1
    <3>2. \A i \in 1..(n + 1) : CommandWords(i) \in S
      BY <2>3
    <3>3. n + 1 \in 1..(n + 1) /\ \A i \in 1..n : i \in 1..(n + 1)
      BY <2>1
    <3> QED BY <2>1, <2>2, <3>1, <3>2, <3>3
  <2>4. svDone' = [i \in 1..(n + 1) |-> CommandWords(i)]
    <3>1. svDone' = [i \in 1..(n + 1) |-> IF i = n + 1 THEN w ELSE svDone[i]]
      <4>1. PICK D : D = svDone
        OBVIOUS
      <4>2. PICK z : z = w
        OBVIOUS
      <4>3. D \in Seq(S) /\ z \in S /\ Len(D) = n
        BY <2>1, <2>a, <4>1, <4>2
      <4>4. /\ Append(D, z) \in Seq(S) /\ Len(Append(D, z)) = n + 1
            /\ \A i \in 1..(n + 1) : Append(D, z)[i] = IF i = n + 1 THEN z ELSE D[i]
        BY <2>1, <4>3
      <4>5. Append(D, z) = [i \in 1..(n + 1) |-> Append(D, z)[i]]
        <5>1. PICK A : A = Append(D, z)
          OBVIOUS
        <5>2. A \in Seq(S) /\ Len(A) = n + 1
          BY <4>4, <5>1
        <5>3. A = [i \in 1..Len(A) |-> A[i]]
          BY <5>2
        <5> QED BY <5>1, <5>2, <5>3
      <4> QED BY <1>7, <4>1, <4>2, <4>4, <4>5
    <3>2. ASSUME NEW i \in 1..(n + 1) PROVE (IF i = n + 1 THEN w ELSE svDone[i]) = CommandWords(i)
      BY <1>9, <2>1, <2>2
    <3> QED BY <3>1, <3>2
  <2>5. Len(svDone') = n + 1
    BY <2>1, <2>4
  <2> QED BY <2>1, <2>4, <2>5
<1>11. FifoTypes'
  <2>1. STOP' \in 0..(Ring - 1)
    BY <1>2, <1>8 DEF FifoTypes
  <2> QED BY <1>1, <1>2, <1>10, <2>1 DEF FifoTypes, CpuTypes
<1>12. Between' /\ ~InCommand(Working)'
  BY <1>1, <1>4, <1>8, <1>10 DEF Between, Working, InCommand
<1> QED BY <1>1, <1>2, <1>10, <1>11, <1>12 DEF Untorn, InCommand, CommandWords

\* A context that was idle starts to send.
LEMMA BeginKeepsFifo ==
    ASSUME FifoInv, NEW who \in {"task", "mouse"}, svCpu[who] = Idle, who = "task" => svCpu["mouse"] = Idle,
           ~svTorn' => ~svTorn /\ (who = "mouse" => ~InCommand(svCpu["task"])), svTorn' \in BOOLEAN,
           svCpu' = [svCpu EXCEPT ![who] = [todo |-> 2, op |-> "start", word |-> 0, next |-> 0, id |-> 0]],
           UNCHANGED <<NEXT, STOP, svFifo, svSent, svDone>>
    PROVE  FifoInv'
<1> SUFFICES ASSUME ~svTorn' PROVE Untorn'
  BY DEF FifoInv
<1>2. Untorn /\ FifoTypes
  BY DEF FifoInv, Untorn
<1>3. PICK x : x = [todo |-> 2, op |-> "start", word |-> 0, next |-> 0, id |-> 0]
  OBVIOUS
<1>4. /\ svCpu' = [w \in {"task", "mouse"} |-> svCpu'[w]] /\ svCpu'[who] = x
      /\ \A o \in {"task", "mouse"} \ {who} : svCpu'[o] = svCpu[o]
  BY <1>2, <1>3, CpuSet
<1>5. x.op = "start" /\ CpuTypes(x)
  BY <1>3 DEF CpuTypes
<1>6. svCpu[who].op = "idle" /\ (who = "task" => svCpu["mouse"].op = "idle")
  BY DEF Idle
<1>7. ~InCommand(Working) /\ Between
  BY <1>2, <1>6 DEF Untorn, Working, InCommand
<1>8. ~InCommand(svCpu'["task"]) /\ ~InCommand(Working)'
  BY <1>4, <1>5, <1>6 DEF InCommand, Working
<1>9. CpuTypes(svCpu'["task"]) /\ CpuTypes(svCpu'["mouse"])
  <2>1. CpuTypes(svCpu["task"]) /\ CpuTypes(svCpu["mouse"])
    BY <1>2 DEF FifoTypes
  <2> QED BY <1>4, <1>5, <2>1
<1>10. FifoTypes'
  BY <1>2, <1>4, <1>9 DEF FifoTypes, CpuTypes
<1>11. Between'
  <2>1. CASE NEXT = STOP /\ svSent = Len(svDone)
    BY <2>1 DEF Between
  <2>2. CASE ~(NEXT = STOP /\ svSent = Len(svDone))
    <3>1. /\ Holds(svSent, Words) /\ svSent = Len(svDone) + 1
          /\ Working.op = "end" \/ (svCpu["mouse"].op = "start" /\ svCpu["task"].op = "end")
      BY <1>7, <2>2 DEF Between
    <3>2. who = "mouse" /\ svCpu["task"].op = "end"
      BY <1>6, <3>1 DEF Working
    <3>3. svCpu'["mouse"].op = "start" /\ svCpu'["task"].op = "end"
      BY <1>4, <1>5, <3>2
    <3>4. Holds(svSent, Words)'
      BY <3>1 DEF Holds, Past, Words
    <3> QED BY <3>1, <3>3, <3>4 DEF Between
  <2> QED BY <2>1, <2>2
<1> QED BY <1>2, <1>8, <1>10, <1>11 DEF Untorn, InCommand, CommandWords

LEMMA RestKeepsFifo ==
    ASSUME FifoInv, UNCHANGED fifoVars
    PROVE  FifoInv'
BY DEF FifoInv, fifoVars, Untorn, FifoTypes, CpuTypes, InCommand, Working, Partial, Between, Holds, Past

LEMMA FifoStep == FifoInv /\ [SvNext]_svVars => FifoInv'
<1> SUFFICES ASSUME FifoInv, [SvNext]_svVars PROVE FifoInv'
  OBVIOUS
<1> DEFINE y == [Idle EXCEPT !.todo = 2, !.op = "start"]
<1>1. y = [todo |-> 2, op |-> "start", word |-> 0, next |-> 0, id |-> 0]
  <2>1. PICK z : z = [todo |-> 0, op |-> "idle", word |-> 0, next |-> 0, id |-> 0]
    OBVIOUS
  <2>2. y = [z EXCEPT !.todo = 2, !.op = "start"]
    BY <2>1 DEF Idle
  <2> HIDE DEF y
  <2> QED BY <2>1, <2>2
<1> HIDE DEF y
<1>2. CASE Present
  <2>1. UNCHANGED <<NEXT, STOP, svFifo, svSent, svDone, svTorn>> /\ svCpu["task"] = Idle /\ svCpu["mouse"] = Idle
    BY <1>2 DEF Present
  <2>2. CASE svga.initialized
    <3>1. svCpu' = [svCpu EXCEPT !["task"] = y]
      BY <1>2, <2>1, <2>2 DEF Present, y
    <3> QED BY <1>1, <2>1, <3>1, BeginKeepsFifo DEF FifoInv
  <2>3. CASE ~svga.initialized
    BY <1>2, <2>1, <2>3, RestKeepsFifo DEF Present, fifoVars
  <2> QED BY <2>2, <2>3
<1>3. CASE MouseInterrupt
  <2>1. UNCHANGED <<NEXT, STOP, svFifo, svSent, svDone>> /\ svCpu["mouse"] = Idle
        /\ svTorn' = (svTorn \/ InCommand(svCpu["task"]))
    BY <1>3 DEF MouseInterrupt
  <2>2. svCpu' = [svCpu EXCEPT !["mouse"] = y]
    BY <1>3, <2>1 DEF MouseInterrupt, y
  <2>3. svTorn' \in BOOLEAN /\ (~svTorn' => ~svTorn /\ ~InCommand(svCpu["task"]))
    BY <2>1, Zenon DEF FifoInv, InCommand
  <2> QED BY <1>1, <2>1, <2>2, <2>3, BeginKeepsFifo
<1>4. ASSUME NEW who \in {"task", "mouse"}, svga_sync(who) \/ FifoLoad(who) \/ FifoStore(who) \/ FifoAdvance(who)
      PROVE  FifoInv'
  BY <1>4, SyncKeeps, LoadKeepsFifo, StoreKeepsFifo, AdvanceKeepsFifo
<1>5. CASE DeviceExecutes
  BY <1>5, DeviceKeepsFifo
<1>6. CASE UNCHANGED fifoVars
  BY <1>6, RestKeepsFifo
<1>7. \/ UNCHANGED fifoVars \/ Present \/ MouseInterrupt \/ DeviceExecutes
      \/ \E who \in {"task", "mouse"} : svga_sync(who) \/ FifoLoad(who) \/ FifoStore(who) \/ FifoAdvance(who)
  <2>1. ASSUME NEW ok \in BOOLEAN, BootFramebuffer(ok) PROVE UNCHANGED fifoVars
    BY <2>1 DEF BootFramebuffer
  <2>2. ASSUME NEW m, NEW n, svga_init(m, n) PROVE UNCHANGED fifoVars
    BY <2>2 DEF svga_init
  <2>5. ASSUME NEW ok \in BOOLEAN, SwitchesBuffer(ok) PROVE UNCHANGED fifoVars
    BY <2>5 DEF SwitchesBuffer
  <2>3. CASE Draws
    BY <2>3 DEF Draws
  <2>4. CASE UNCHANGED svVars
    BY <2>4 DEF svVars, fifoVars
  <2> QED BY <2>1, <2>2, <2>3, <2>4, <2>5 DEF SvNext
<1> QED BY <1>2, <1>3, <1>4, <1>5, <1>6, <1>7

\* As many pages as the pixels need, and no more than the window has.
LEMMA PagesFit ==
    ASSUME NEW a \in Nat, NEW k \in Nat \ {0}, NEW r \in Nat, a <= r * k
    PROVE  (a + k - 1) \div k \in 0..r
<1>1. PICK m \in Nat : m = a + k - 1
  OBVIOUS
<1>2. m \div k \in Int /\ m % k \in 0..(k - 1)
  OBVIOUS
<1>3. m = k * (m \div k) + (m % k)
  BY SMTT(30)
<1>4. PICK q \in Int, s \in 0..(k - 1) : q = m \div k /\ m = k * q + s
  BY <1>2, <1>3
<1>5. q >= 0
  <2> SUFFICES ASSUME q <= -1 PROVE FALSE
    BY <1>4
  <2>1. k * q <= -k
    BY <1>4, SMTT(30)
  <2>2. k * q \in Int
    BY <1>4
  <2> QED BY <1>4, <2>1, <2>2
<1>6. q <= r
  <2> SUFFICES ASSUME q >= r + 1 PROVE FALSE
    BY <1>4
  <2>1. k * q >= k * (r + 1)
    BY <1>4, SMTT(30)
  <2>2. k * (r + 1) = r * k + k
    BY SMTT(30)
  <2>3. k * q \in Int /\ k * (r + 1) \in Int /\ r * k \in Int
    BY <1>4
  <2>4. k * q <= m
    BY <1>4, <2>3
  <2> QED BY <1>1, <2>1, <2>2, <2>3, <2>4
<1> QED BY <1>1, <1>4, <1>5, <1>6

\* A surface that ends below 2^32 and passes svga_map_fb's check has its pages below
\* the page tables.
LEMMA FitsBelow ==
    ASSUME NEW px \in Nat, FbPage * PagePx + px < SpacePage * PagePx,
           Bits32(FbPage * PagePx + px) <= (FbPage + RecursivePage) * PagePx
    PROVE  PagesOf(px) \in 0..RecursivePage
<1>1. PagePx \in Nat \ {0} /\ FbPage \in Nat \ {0} /\ RecursivePage \in Nat /\ SpacePage \in Nat
  BY SvgaAssumption
<1>2. PICK f \in Nat : f = FbPage * PagePx
  BY <1>1
<1>3. PICK t \in Nat : t = SpacePage * PagePx
  BY <1>1
<1>4. f >= PagePx
  BY <1>1, <1>2, SMTT(30)
<1>5. PICK l \in Nat : l = RecursivePage * PagePx
  BY <1>1
<1>6. (FbPage + RecursivePage) * PagePx = f + l
  BY <1>1, <1>2, <1>5, SMTT(30)
<1>7. f + px < t /\ f + px \in 0..(t - 1) /\ px + PagePx - 1 \in 0..(t - 1) /\ t \in Nat \ {0}
  BY <1>1, <1>2, <1>3, <1>4
<1>8. (f + px) % t = f + px /\ (px + PagePx - 1) % t = px + PagePx - 1
  BY <1>7, Mod
<1>9. px <= RecursivePage * PagePx
  BY <1>2, <1>3, <1>5, <1>6, <1>8 DEF Bits32
<1>10. PagesOf(px) = (px + PagePx - 1) \div PagePx
  BY <1>3, <1>8 DEF PagesOf, Bits32
<1> QED BY <1>1, <1>9, <1>10, PagesFit

LEMMA ScreenInit == SvInit => ScreenInv
<1> SUFFICES ASSUME SvInit PROVE ScreenInv
  OBVIOUS
<1>1. FifoTypes /\ Len(svDone) = 0
  <2>1. STOP \in 0..(Ring - 1) /\ NEXT \in 0..(Ring - 1) /\ svSent \in Nat
    BY SvgaAssumption DEF SvInit, Words
  <2>2. Len(svDone) = 0
    BY DEF SvInit
  <2>3. svFifo = [i \in 0..(Ring - 1) |-> svFifo[i]] /\ svCpu = [who \in {"task", "mouse"} |-> svCpu[who]]
    BY DEF SvInit
  <2>4. CpuTypes(Idle)
    BY DEF CpuTypes, Idle
  <2>5. svCpu["task"] = Idle /\ svCpu["mouse"] = Idle
    BY DEF SvInit
  <2> QED BY <2>1, <2>2, <2>3, <2>4, <2>5 DEF FifoTypes
<1>2. svDone = [i \in 1..Len(svDone) |-> CommandWords(i)]
  BY <1>1 DEF SvInit
<1>3. svCpu["task"].op = "idle" /\ svCpu["mouse"].op = "idle" /\ NEXT = STOP /\ svSent = 0 /\ svTorn = FALSE
  BY DEF SvInit, Idle
<1>4. FifoInv
  BY <1>1, <1>2, <1>3 DEF FifoInv, Untorn, InCommand, Working, Between
<1>5. ShowInv
  <2>1. fbuf.front = "none" /\ fbuf.initialized = FALSE /\ fbuf.own = FALSE
    BY DEF SvInit
  <2>2. svDev \in SvDevices /\ svPc = "boot" /\ Boots /\ svScene = 0 /\ DOMAIN svPages = {}
    BY DEF SvInit, Boots
  <2>3. svga.initialized = FALSE
    BY <2>2 DEF Boots
  <2> QED BY <2>1, <2>2, <2>3 DEF ShowInv
<1> QED BY <1>4, <1>5 DEF ScreenInv

\* What fb_init makes of the boot loader's framebuffer or of SVGA-II's.
LEMMA FbInit ==
    ASSUME NEW s, NEW ok \in BOOLEAN, fb_init(s, ok), s.initialized \in BOOLEAN
    PROVE  \/ UNCHANGED fbuf /\ (s.initialized => s.bpp = 0)
           \/ /\ fbuf'.front = (IF s.initialized THEN "svga" ELSE "boot") /\ fbuf'.initialized
              /\ fbuf'.own => fbuf'.pitch = fbuf'.hw.w
<1> DEFINE hw == IF s.initialized THEN [w |-> s.w, h |-> s.h, pitch |-> s.pitch, bpp |-> s.bpp] ELSE svBoot
<1>1. CASE hw = NoMode
  <2>1. fbuf' = fbuf
    BY <1>1 DEF fb_init
  <2>2. s.initialized => s.bpp = 0
    BY <1>1 DEF NoMode
  <2> QED BY <2>1, <2>2
<1>2. CASE hw # NoMode
  <2>1. fbuf' = [front |-> IF s.initialized THEN "svga" ELSE "boot", hw |-> hw, own |-> ok,
                 pitch |-> IF ok THEN hw.w ELSE hw.pitch, initialized |-> TRUE]
    BY <1>2 DEF fb_init
  <2> HIDE DEF hw
  <2>2. fbuf'.front = (IF s.initialized THEN "svga" ELSE "boot")
    BY <2>1
  <2>3. fbuf'.initialized
    BY <2>1
  <2>4. fbuf'.own => fbuf'.pitch = fbuf'.hw.w
    <3>1. fbuf'.own = ok /\ fbuf'.hw = hw /\ fbuf'.pitch = IF ok THEN hw.w ELSE hw.pitch
      BY <2>1, Zenon
    <3> QED BY <3>1, Zenon
  <2> QED BY <2>2, <2>3, <2>4
<1> QED BY <1>1, <1>2

\* svga_init maps the surface, page for page, before the FIFO; a surface that ends
\* below 2^32 stays in the window.  SVGA-II is in use only when all of it succeeded.
LEMMA InitKeepsShow ==
    ASSUME ShowInv, NEW m, NEW n, svga_init(m, n)
    PROVE  ShowInv'
<1>1. /\ svDev \in SvDevices /\ svDev' = svDev /\ svPc = "svga" /\ fbuf' = fbuf /\ Boots /\ svScene = 0 /\ svScene' = 0
  BY DEF ShowInv, svga_init, Boots
<1>2. svga.initialized = FALSE /\ fbuf.front # "svga" /\ DOMAIN svPages = {}
  BY <1>1 DEF Boots, ShowInv
<1> DEFINE found == svga_find_device /\ svDev.known
           fits == TargetW <= svDev.max[1] /\ TargetH <= svDev.max[2]
           w == IF fits THEN TargetW ELSE svDev.max[1]
           h == IF fits THEN TargetH ELSE svDev.max[2]
           px == Bits32((w + svDev.pad) * h)
           pages == PagesOf(px)
           sizeOk == /\ found /\ w # 0 /\ h # 0 /\ px > 0
                     /\ Bits32(FbPage * PagePx + px) <= (FbPage + RecursivePage) * PagePx
           fbOk == sizeOk /\ m = pages
           fifoOk == fbOk /\ svDev.fifoPages > 0 /\ n = svDev.fifoPages
           new == [w |-> w, h |-> h, pitch |-> w + svDev.pad, bpp |-> 32, fb_virt |-> fbOk, fifo_virt |-> fifoOk,
                   initialized |-> fifoOk]
           mapped == IF sizeOk THEN MapPages(svPages, 0, "fb", m) ELSE svPages
<1>3. /\ svga' = IF found THEN new ELSE svga
      /\ svPages' = IF fbOk THEN MapPages(mapped, FifoPage, "fifo", n) ELSE mapped
      /\ svPc' = IF fifoOk THEN "switch" ELSE "run"
      /\ m \in 0..pages /\ n \in 0..svDev.fifoPages
  <2>1. PICK S : S = svga_set_resolution
    OBVIOUS
  <2>2. S.w = w /\ S.h = h /\ S.pitch = w + svDev.pad /\ S.bpp = 32
    BY <2>1 DEF svga_set_resolution
  <2> HIDE DEF w, h, found
  <2>3. FbSize(S) = px
    BY <2>2 DEF FbSize
  <2> HIDE DEF px
  <2>4. (found /\ S.w # 0 /\ S.h # 0 /\ FbFits(S)) <=> sizeOk
    BY <2>2, <2>3 DEF FbFits
  <2>5. PagesOf(FbSize(S)) = pages
    BY <2>3 DEF pages
  <2> HIDE DEF sizeOk, pages
  <2>6. [w |-> S.w, h |-> S.h, pitch |-> S.pitch, bpp |-> S.bpp, fb_virt |-> fbOk, fifo_virt |-> fifoOk,
         initialized |-> fifoOk] = new
    BY <2>2
  <2> HIDE DEF new
  <2>7. svga' = IF found THEN new ELSE svga
    BY <2>1, <2>4, <2>5, <2>6 DEF svga_init, found
  <2>8. svPages' = IF fbOk THEN MapPages(mapped, FifoPage, "fifo", n) ELSE mapped
    BY <2>1, <2>4, <2>5, <2>6 DEF svga_init, found
  <2>9. svPc' = IF fifoOk THEN "switch" ELSE "run"
    BY <2>1, <2>4, <2>5, <2>6 DEF svga_init, found
  <2>10. m \in 0..pages /\ n \in 0..svDev.fifoPages
    BY <2>1, <2>5 DEF svga_init
  <2> QED BY <2>7, <2>8, <2>9, <2>10
<1>4. px \in Nat
  <2>1. w \in Nat /\ h \in Nat /\ svDev.pad \in Nat /\ PagePx \in Nat \ {0} /\ SpacePage \in Nat \ {0}
    BY <1>1, SvgaAssumption
  <2> HIDE DEF w, h
  <2>2. PICK a \in Nat : a = (w + svDev.pad) * h
    <3>1. PICK b \in Nat : b = w + svDev.pad
      BY <2>1
    <3>2. b * h \in Nat
      BY <2>1
    <3> QED BY <3>1, <3>2
  <2>3. PICK t \in Nat \ {0} : t = SpacePage * PagePx
    <3>1. SpacePage * PagePx \in Nat /\ SpacePage * PagePx # 0
      BY <2>1, SMTT(30)
    <3> QED BY <3>1
  <2>4. a % t \in 0..(t - 1)
    OBVIOUS
  <2> QED BY <2>2, <2>3, <2>4 DEF Bits32
<1> DEFINE below == FbPage * PagePx + px < SpacePage * PagePx
<1>5. ASSUME sizeOk, below PROVE pages \in 0..RecursivePage
  <2> HIDE DEF w, h, found, px
  <2>1. Bits32(FbPage * PagePx + px) <= (FbPage + RecursivePage) * PagePx /\ FbPage * PagePx + px < SpacePage * PagePx
    BY <1>5
  <2> HIDE DEF sizeOk
  <2> QED BY <1>4, <2>1, FitsBelow
<1>6. FifoPage \in Nat /\ RecursivePage \in Nat /\ svDev.fifoPages \in Nat
  BY <1>1, SvgaAssumption
<1>7. (fbOk => sizeOk) /\ (fifoOk => fbOk) /\ (sizeOk => found) /\ (fbOk => m = pages)
  OBVIOUS
<1>8. new.initialized = fifoOk /\ new.fb_virt = fbOk /\ new.bpp = 32 /\ FbSize(new) = px
  <2> HIDE DEF w, h, fbOk, fifoOk
  <2>1. new.initialized = fifoOk /\ new.fb_virt = fbOk
    BY Zenon
  <2>2. new.bpp = 32 /\ new.pitch = w + svDev.pad /\ new.h = h
    OBVIOUS
  <2> QED BY <2>1, <2>2 DEF FbSize
<1> HIDE DEF new
<1>9. found => svga' = new /\ (FbSize(svga))' = px /\ InSpace' = below
  <2>1. found => svga' = new
    BY <1>3
  <2>2. svga' = new => (FbSize(svga))' = px
    BY <1>8 DEF FbSize
  <2> HIDE DEF found, px
  <2>3. (FbSize(svga))' = px => InSpace' = below
    BY DEF InSpace, FbSize
  <2> QED BY <2>1, <2>2, <2>3
<1>10. ~fifoOk => svga'.initialized = FALSE
  <2> HIDE DEF fifoOk, found
  <2> QED BY <1>2, <1>3, <1>8
<1> HIDE DEF w, h, px, pages, found, fits
<1>11. mapped = IF sizeOk THEN [p \in 0..(m - 1) |-> <<"fb", p>>] ELSE svPages
  <2>1. ASSUME sizeOk PROVE MapPages(svPages, 0, "fb", m) = [p \in 0..(m - 1) |-> <<"fb", p>>]
    <3>1. m \in Int /\ 0 + m - 1 = m - 1
      BY <1>3
    <3>2. DOMAIN svPages \union (0..(0 + m - 1)) = 0..(m - 1)
      BY <1>2, <3>1
    <3>3. \A p \in 0..(m - 1) : p - 0 = p
      BY <3>1
    <3> QED BY <3>1, <3>2, <3>3 DEF MapPages
  <2> QED BY <2>1
<1> HIDE DEF sizeOk, below
<1>12. PICK M : M = mapped
  OBVIOUS
<1> HIDE DEF mapped
<1>13. fbOk => svPages' = [p \in DOMAIN M \union (FifoPage..(FifoPage + n - 1)) |->
                 IF p \in FifoPage..(FifoPage + n - 1) THEN <<"fifo", p - FifoPage>> ELSE M[p]]
  BY <1>3, <1>12 DEF MapPages
<1>14. ASSUME InSpace', NEW p \in DOMAIN svPages', svPages'[p][1] = "fb" PROVE p < RecursivePage
  <2>1. CASE ~sizeOk
    BY <1>2, <1>3, <1>7, <1>11, <1>12, <2>1
  <2>2. CASE sizeOk
    <3>1. M = [x \in 0..(m - 1) |-> <<"fb", x>>]
      BY <1>11, <1>12, <2>2
    <3>2. p \in DOMAIN M
      <4>1. CASE ~fbOk
        BY <1>3, <1>12, <4>1
      <4>2. CASE fbOk
        <5>1. ASSUME p \in FifoPage..(FifoPage + n - 1) PROVE FALSE
          <6>1. svPages'[p] = <<"fifo", p - FifoPage>>
            BY <1>13, <4>2, <5>1
          <6>2. svPages'[p][1] = "fifo"
            BY <6>1
          <6> QED BY <1>14, <6>2
        <5> QED BY <1>13, <4>2, <5>1
      <4> QED BY <4>1, <4>2
    <3>3. below /\ m \in 0..pages
      BY <1>3, <1>7, <1>9, <1>14, <2>2
    <3>4. pages \in 0..RecursivePage
      BY <1>5, <2>2, <3>3
    <3> QED BY <1>6, <3>1, <3>2, <3>3, <3>4
  <2> QED BY <2>1, <2>2
<1>15. CASE ~fifoOk
  <2>1. svga'.initialized = FALSE /\ svPc' = "run"
    BY <1>3, <1>10, <1>15
  <2> QED BY <1>1, <1>2, <1>14, <2>1 DEF ShowInv
<1>16. CASE fifoOk
  <2>1. svga' = new /\ new.initialized = TRUE /\ new.fb_virt = TRUE /\ new.bpp = 32 /\ svPc' = "switch"
    BY <1>3, <1>7, <1>8, <1>9, <1>16
  <2>2. ASSUME InSpace', pages <= FifoPage, NEW p \in 0..(pages - 1) PROVE svPages'[p] = <<"fb", p>>
    <3>1. below
      BY <1>7, <1>9, <1>16, <2>2
    <3>2. M = [x \in 0..(pages - 1) |-> <<"fb", x>>] /\ pages \in 0..RecursivePage
      BY <1>5, <1>7, <1>11, <1>12, <1>16, <3>1
    <3>3. p \in DOMAIN M /\ M[p] = <<"fb", p>>
      BY <3>2
    <3>4. n \in Int /\ p \notin FifoPage..(FifoPage + n - 1)
      BY <1>3, <1>6, <2>2, <3>2
    <3> QED BY <1>7, <1>13, <1>16, <3>3, <3>4
  <2>3. PICK k : k = pages
    OBVIOUS
  <2>4. InSpace' /\ k <= FifoPage => \A p \in 0..(k - 1) : svPages'[p] = <<"fb", p>>
    BY <2>2, <2>3
  <2>5. (PagesOf(FbSize(svga)))' = k
    <3>1. (FbSize(svga))' = px
      BY <1>7, <1>9, <1>16
    <3>2. pages = PagesOf(px)
      BY DEF pages
    <3> QED BY <2>3, <3>1, <3>2 DEF PagesOf, Bits32
  <2> QED BY <1>1, <1>2, <1>14, <2>1, <2>4, <2>5 DEF ShowInv
<1> QED BY <1>15, <1>16

\* Then fb_init turns to the surface that was mapped.
LEMMA SwitchKeepsShow ==
    ASSUME ShowInv, NEW ok \in BOOLEAN, SwitchesBuffer(ok)
    PROVE  ShowInv'
<1>1. /\ svPc = "switch" /\ svPc' = "run" /\ fb_init(svga, ok) /\ UNCHANGED <<svDev, svBoot, svga, svPages, svScene, svScreen>>
  BY DEF SwitchesBuffer
<1>2. svScene = 0 /\ svga.initialized = TRUE /\ svga.fb_virt /\ svga.bpp # 0
  BY <1>1 DEF ShowInv
<1>3. fbuf'.front = "svga" /\ fbuf'.initialized /\ (fbuf'.own => fbuf'.pitch = fbuf'.hw.w)
  <2>1. svga.initialized \in BOOLEAN
    BY <1>2
  <2>2. \/ UNCHANGED fbuf /\ (svga.initialized => svga.bpp = 0)
        \/ /\ fbuf'.front = (IF svga.initialized THEN "svga" ELSE "boot") /\ fbuf'.initialized
           /\ fbuf'.own => fbuf'.pitch = fbuf'.hw.w
    BY <1>1, <2>1, FbInit
  <2> QED BY <1>2, <2>2
<1> QED BY <1>1, <1>2, <1>3 DEF ShowInv, InSpace, PagesOf, FbSize, Bits32

\* Drawing and presenting, and what leaves the screen alone.
LEMMA RestKeepsShow ==
    ASSUME ShowInv, UNCHANGED <<svDev, svBoot, svga, svPages, fbuf, svPc, svScene, svScreen>>
    PROVE  ShowInv'
BY DEF ShowInv, Boots, InSpace, Outdated, PagesOf, FbSize, Bits32

LEMMA BootKeepsShow ==
    ASSUME ShowInv, NEW ok \in BOOLEAN, BootFramebuffer(ok)
    PROVE  ShowInv'
<1>1. /\ svPc = "boot" /\ svPc' = "svga" /\ fb_init(svga, ok)
      /\ UNCHANGED <<svDev, svBoot, svga, svPages, svScene, svScreen>>
  BY DEF BootFramebuffer
<1>2. Boots /\ Boots' /\ svga.initialized = FALSE /\ svScene = 0
  BY <1>1 DEF ShowInv, Boots
<1>3. CASE UNCHANGED fbuf
  BY <1>1, <1>2, <1>3 DEF ShowInv, InSpace, PagesOf, FbSize, Bits32
<1>4. CASE fbuf'.front = "boot" /\ fbuf'.initialized /\ (fbuf'.own => fbuf'.pitch = fbuf'.hw.w)
  BY <1>1, <1>2, <1>4 DEF ShowInv, InSpace, PagesOf, FbSize, Bits32
<1>5. \/ UNCHANGED fbuf /\ (svga.initialized => svga.bpp = 0)
      \/ /\ fbuf'.front = (IF svga.initialized THEN "svga" ELSE "boot") /\ fbuf'.initialized
         /\ fbuf'.own => fbuf'.pitch = fbuf'.hw.w
  BY <1>1, <1>2, FbInit
<1> QED BY <1>2, <1>3, <1>4, <1>5

LEMMA DrawsKeepsShow ==
    ASSUME ShowInv, Draws
    PROVE  ShowInv'
<1>1. svPc = "run" /\ svScene' = 1 /\ UNCHANGED <<svDev, svga, svPages, fbuf, svPc>>
  BY DEF Draws
<1> QED BY <1>1 DEF ShowInv, InSpace, PagesOf, FbSize, Bits32

LEMMA PresentKeepsShow ==
    ASSUME ShowInv, Present
    PROVE  ShowInv'
<1>1. svPc = "run" /\ svScene' = 2 /\ svScreen' = Copied /\ UNCHANGED <<svDev, svga, svPages, fbuf, svPc>>
  BY DEF Present
<1>2. fbuf.own /\ (fbuf.hw.bpp = 24 \/ (fbuf.hw.bpp = 32 /\ fbuf.hw.w = fbuf.hw.pitch)) /\ ~Outdated => Copied = "scene"
  BY DEF Copied, ShowInv
<1>3. Outdated' = Outdated
  BY <1>1 DEF Outdated
<1> QED BY <1>1, <1>2, <1>3 DEF ShowInv, InSpace, PagesOf, FbSize, Bits32

LEMMA ScreenShowStep == ShowInv /\ [SvNext]_svVars => ShowInv'
<1> SUFFICES ASSUME ShowInv, [SvNext]_svVars PROVE ShowInv'
  OBVIOUS
<1> DEFINE same == UNCHANGED <<svDev, svBoot, svga, svPages, fbuf, svPc, svScene, svScreen>>
<1>1. ASSUME NEW who \in {"task", "mouse"}, svga_sync(who) \/ FifoLoad(who) \/ FifoStore(who) \/ FifoAdvance(who)
      PROVE  same
  BY <1>1 DEF svga_sync, FifoLoad, FifoStore, FifoAdvance
<1>2. MouseInterrupt \/ DeviceExecutes => same
  BY DEF MouseInterrupt, DeviceExecutes
<1>3. UNCHANGED svVars => same
  BY DEF svVars
<1>4. same => ShowInv'
  BY RestKeepsShow
<1> HIDE DEF same
<1> QED BY <1>1, <1>2, <1>3, <1>4, BootKeepsShow, InitKeepsShow, SwitchKeepsShow, DrawsKeepsShow,
          PresentKeepsShow DEF SvNext

\* The invariant is what was claimed.
LEMMA ScreenInvSound == ScreenInv => ScreenSound
<1> SUFFICES ASSUME ScreenInv PROVE ScreenSound
  OBVIOUS
<1>1. ASSUME ~svTorn
      PROVE  /\ svDone = [i \in 1..Len(svDone) |-> CommandWords(i)] /\ Len(svDone) <= svSent
             /\ svCpu["task"] = Idle /\ svCpu["mouse"] = Idle => Len(svDone) = svSent
  <2>1. Untorn /\ FifoTypes /\ Len(svDone) \in Nat
    BY <1>1 DEF ScreenInv, FifoInv, Untorn, FifoTypes
  <2>2. svSent = Len(svDone) \/ svSent = Len(svDone) + 1
    BY <2>1 DEF Untorn, Partial, Between
  <2>3. ASSUME svCpu["task"] = Idle, svCpu["mouse"] = Idle PROVE Len(svDone) = svSent
    <3>1. svCpu["task"].op = "idle" /\ svCpu["mouse"].op = "idle"
      BY <2>3 DEF Idle
    <3>2. ~InCommand(Working) /\ Working.op = "idle"
      BY <3>1 DEF InCommand, Working
    <3> QED BY <2>1, <3>1, <3>2 DEF Untorn, Between
  <2> QED BY <2>1, <2>2, <2>3 DEF Untorn
<1> QED BY <1>1 DEF ScreenInv, ShowInv, ScreenSound

\* However the mouse interrupt, the task and the device interleave: the commands
\* issued are executed whole and in order unless the mouse fell into one of the
\* task's; a surface that ends below 2^32 is mapped clear of the page tables, page for
\* page; and the framebuffer in use is the one that was set up, with the presented
\* scene on it while it has the mode of the device.
THEOREM ScreenSoundHolds == SvSpec => []ScreenSound
<1>1. ScreenInv /\ [SvNext]_svVars => ScreenInv'
  BY FifoStep, ScreenShowStep DEF ScreenInv
<1> QED BY <1>1, ScreenInit, ScreenInvSound, PTL DEF SvSpec
==============================================================================
