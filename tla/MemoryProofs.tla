---------------------------- MODULE MemoryProofs ----------------------------
(***************************************************************************)
(* Page frames have one use each, the mapping window keeps what its        *)
(* callers hold, and the search for an aligned run finds the first one, for *)
(* every number of frames, levels of page tables, pages and clients.  The   *)
(* second half is about the other owner of addresses, the PCI bus: every    *)
(* function is listed once and no two BARs share an address.                *)
(***************************************************************************)
EXTENDS Integers, Memory, Pci, FiniteSetTheorems, SequenceTheorems, TLAPS

\* Division with remainder.
LEMMA DivFacts ==
    ASSUME NEW p \in Nat \ {0}, NEW m \in Nat
    PROVE  /\ m \div p \in Nat /\ m % p \in 0 .. p - 1
           /\ m = p * (m \div p) + (m % p)
<1>1. m \div p \in Int
  OBVIOUS
<1>2. m % p \in 0 .. p - 1
  OBVIOUS
<1>3. m = p * (m \div p) + (m % p)
  BY SMTT(30)
<1>4. m \div p >= 0
  BY <1>1, <1>2, <1>3
<1>5. QED
  BY <1>1, <1>2, <1>3, <1>4

\* Frame 0 is never free.
LEMMA ZeroAtBoot == 0 \in AtBoot
<1>1. PICK r \in Reserved : r.start = 0 /\ r.length > 0
  BY FrameZero
<1>2. r.length \in Nat \ {0} /\ FrameSize \in Nat \ {0} /\ 0 \in Frame
  BY <1>1, MemoryAssumption DEF Region, Frame
<1>3. PICK n \in Nat \ {0}, d \in Nat \ {0} : n = r.length /\ d = FrameSize
  BY <1>2
<1>4. 0 \div d = 0
  BY <1>3
<1>5. (n + d - 1) \div d >= 1
  <2>1. PICK m \in Nat : m = n + d - 1
    BY <1>3
  <2>2. m \div d \in Nat /\ m % d \in 0 .. d - 1 /\ m = d * (m \div d) + (m % d)
    BY DivFacts, Zenon
  <2>3. PICK q \in Nat, s \in 0 .. d - 1 : q = m \div d /\ m = d * q + s
    BY <2>2
  <2>4. q >= 1
    <3>1. m >= d
      BY <1>3, <2>1
    <3>2. ASSUME q <= 0 PROVE FALSE
      <4>1. d * q <= 0
        BY <1>3, <2>3, <3>2, Z3
      <4>2. QED
        BY <1>3, <2>3, <3>1, <4>1, Z3
    <3>3. QED
      BY <3>2, <2>3
  <2>5. QED
    BY <2>1, <2>3, <2>4
<1>6. 0 \in Touched(r)
  <2>1. r.start + r.length + FrameSize - 1 = n + d - 1
    BY <1>1, <1>3
  <2>2. r.start \div FrameSize <= 0
    BY <1>1, <1>3, <1>4
  <2>3. 0 < (r.start + r.length + FrameSize - 1) \div FrameSize
    BY <1>5, <2>1, <1>3
  <2>4. QED
    BY <1>1, <1>2, <2>2, <2>3 DEF Touched
<1>7. QED
  BY <1>6, Zenon DEF AtBoot

LEMMA AtBootFrames == AtBoot \subseteq Frame /\ IsFiniteSet(Frame) /\ Frame \subseteq Nat
<1>1. IsFiniteSet(Frame) /\ Frame \subseteq Nat
  <2>1. 0 \in Int /\ Total - 1 \in Int
    BY MemoryAssumption
  <2>2. IsFiniteSet(0 .. Total - 1)
    BY <2>1, FS_Interval
  <2>3. QED
    BY <2>2 DEF Frame
<1>2. \A r : Touched(r) \subseteq Frame
  BY DEF Touched
<1>3. QED
  BY <1>1, <1>2 DEF AtBoot

-----------------------------------------------------------------------------
(***************************************************************************)
(* Frames.                                                                 *)
(***************************************************************************)
FrameType ==
    /\ used \subseteq Frame
    /\ count = Cardinality(used)
    /\ table \in [Table -> Frame]
    /\ heap \in [DOMAIN heap -> Frame]
    /\ given \subseteq Frame

\* FramesExclusive, frame by frame.
OneUse ==
    /\ \A f \in AtBoot : f \in used /\ f \notin given
    /\ \A f \in given : f \in used
    /\ \A t \in Table : table[t] # 0 =>
        table[t] \in used /\ table[t] \notin AtBoot /\ table[t] \notin given
    /\ \A t, u \in Table : table[t] = table[u] /\ table[t] # 0 => t = u
    /\ \A v \in DOMAIN heap :
        /\ heap[v] \in used /\ heap[v] \notin AtBoot /\ heap[v] \notin given
        /\ \A t \in Table : table[t] # heap[v]
    /\ \A v, w \in DOMAIN heap : heap[v] = heap[w] => v = w

FInv == FrameType /\ OneUse

LEMMA OneUseExclusive == OneUse => FramesExclusive
BY DEF OneUse, FramesExclusive, TableFrames, HeapFrames

\* The count follows the set.
LEMMA TakeCounts ==
    ASSUME FrameType, NEW B \in SUBSET Free, Take(B)
    PROVE  used' \subseteq Frame /\ used' = used \cup B /\ count' = Cardinality(used')
<1>1. IsFiniteSet(used) /\ IsFiniteSet(B) /\ used \cap B = {}
  BY AtBootFrames, FS_Subset DEF FrameType, Free
<1>2. Cardinality(used \cup B) = Cardinality(used) + Cardinality(B) - Cardinality(used \cap B)
  BY <1>1, FS_Union
<1>3. Cardinality(used \cap B) = 0
  BY <1>1, FS_EmptySet
<1>4. Cardinality(used) \in Nat /\ Cardinality(B) \in Nat
  BY <1>1, FS_CardinalityType
<1>5. QED
  BY <1>2, <1>3, <1>4 DEF FrameType, Take, Free

LEMMA GiveKeeps ==
    ASSUME FInv, NEW B \in SUBSET Free, Take(B), given' = given \cup B,
           UNCHANGED <<table, heap>>
    PROVE  FInv'
<1>1. used' \subseteq Frame /\ used' = used \cup B /\ count' = Cardinality(used')
  BY TakeCounts DEF FInv
<1>2. FrameType'
  BY <1>1 DEF FInv, FrameType, Free
<1>3. OneUse'
  BY <1>1 DEF FInv, FrameType, OneUse, Free
<1>4. QED
  BY <1>2, <1>3 DEF FInv

LEMMA FreeKeeps ==
    ASSUME FInv, NEW B \in SUBSET (given \cup Free),
           used' = used \ B, count' = count - Cardinality(B \cap used),
           given' = given \ B, UNCHANGED <<table, heap>>
    PROVE  FInv'
<1>1. IsFiniteSet(used)
  BY AtBootFrames, FS_Subset DEF FInv, FrameType
<1>2. Cardinality(used \ B) = Cardinality(used) - Cardinality(used \cap B)
  BY <1>1, FS_Difference
<1>3. used \cap B = B \cap used
  OBVIOUS
<1>4. FrameType'
  BY <1>2, <1>3 DEF FInv, FrameType
<1>5. OneUse'
  BY DEF FInv, FrameType, OneUse, Free
<1>6. QED
  BY <1>4, <1>5 DEF FInv

-----------------------------------------------------------------------------
\* What ensure_table does to the tables, whether it gets to the end or not.
LEMMA CoversLevel ==
    ASSUME NEW l, NEW v
    PROVE  Covers(l, v)[1] = l
BY DEF Covers

LEMMA CoversTable ==
    ASSUME NEW l \in Level, NEW v \in Page
    PROVE  Covers(l, v) \in Table
BY DEF Table

\* A table is new in one of the frames g, or as it was.
NewTables(v, D, g) ==
    /\ \A t \in Table :
        \/ table'[t] = table[t]
        \/ table[t] = 0 /\ \E l \in D : t = Covers(l, v) /\ table'[t] = g[l]
    /\ \A l \in D : table'[Covers(l, v)] = g[l]

LEMMA WithTablesFacts ==
    ASSUME FInv, NEW v \in Page, NEW F \in SUBSET Free, NEW D \in SUBSET Missing(v),
           NEW g \in [D -> F], WithTables(v, D, g)
    PROVE  table' \in [Table -> Frame] /\ NewTables(v, D, g)
<1>1. \A l \in D : l \in Level /\ table[Covers(l, v)] = 0 /\ Covers(l, v) \in Table
  BY CoversTable DEF Missing
<1>2. \A l \in D : Covers(l, v)[1] = l
  BY CoversLevel
<1>3. \A t \in Table : table'[t] = IF \E l \in D : t = Covers(l, v) THEN g[t[1]] ELSE table[t]
  BY DEF WithTables
<1>4. \A l \in D : table'[Covers(l, v)] = g[l]
  <2>1. TAKE l \in D
  <2>2. PICK t \in Table : t = Covers(l, v)
    BY <1>1
  <2>3. t[1] = l
    BY <1>2, <2>2
  <2>4. table'[t] = g[t[1]]
    BY <1>3, <2>2
  <2>5. QED
    BY <2>2, <2>3, <2>4
<1>5. \A t \in Table : \/ table'[t] = table[t]
                       \/ \E l \in D : t = Covers(l, v) /\ table'[t] = g[l]
  BY <1>3, <1>4
<1>6. \A t \in Table : \/ table'[t] = table[t]
                       \/ table[t] = 0 /\ \E l \in D : t = Covers(l, v) /\ table'[t] = g[l]
  BY <1>5, <1>1
<1>7. \A t \in Table : table'[t] \in Frame
  <2>1. F \subseteq Frame
    BY DEF Free
  <2>2. \A t \in Table : table[t] \in Frame
    BY DEF FInv, FrameType
  <2>3. QED
    BY <1>6, <2>1, <2>2
<1>8. table' \in [Table -> Frame]
  <2>1. table' = [t \in Table |-> table'[t]]
    BY DEF WithTables
  <2>2. QED
    BY <2>1, <1>7
<1>9. QED
  BY <1>4, <1>6, <1>8 DEF NewTables

\* New tables in free frames of their own keep frames apart; E are further
\* frames taken in the same step.
LEMMA TablesKeep ==
    ASSUME FInv, NEW v \in Page, NEW F \in SUBSET Free, NEW D \in SUBSET Missing(v),
           NEW g \in [D -> F], \A l, m \in D : g[m] = g[l] => m = l,
           WithTables(v, D, g),
           NEW B \in SUBSET Free, \A l \in D : g[l] \in B, Take(B),
           given' = given,
           \/ heap' = heap
           \/ \E w, f : /\ f \in B /\ w \notin DOMAIN heap
                        /\ \A l \in D : g[l] # f
                        /\ heap' = [x \in DOMAIN heap \cup {w} |-> IF x = w THEN f ELSE heap[x]]
    PROVE  FInv'
<1>1. used' \subseteq Frame /\ used' = used \cup B /\ count' = Cardinality(used')
  BY TakeCounts DEF FInv
<1>2. table' \in [Table -> Frame] /\ NewTables(v, D, g)
  BY WithTablesFacts
<1>3. 0 \in used /\ \A b \in B : b \notin used /\ b # 0 /\ b \in Frame
  BY ZeroAtBoot DEF FInv, OneUse, Free
<1>4. \A t \in Table : table'[t] # 0 =>
        table'[t] \in used' /\ table'[t] \notin AtBoot /\ table'[t] \notin given
  <2>1. \A t \in Table : table'[t] = table[t] \/ table'[t] \in B
    BY <1>2 DEF NewTables
  <2>2. \A b \in B : b \notin AtBoot /\ b \notin given
    BY <1>3 DEF FInv, OneUse
  <2>3. QED
    BY <1>1, <2>1, <2>2 DEF FInv, OneUse
<1>5. \A t, u \in Table : table'[t] = table'[u] /\ table'[t] # 0 => t = u
  <2>1. SUFFICES ASSUME NEW t \in Table, NEW u \in Table, table'[t] = table'[u], table'[t] # 0
                 PROVE  t = u
    OBVIOUS
  <2>2. CASE table'[t] = table[t] /\ table'[u] = table[u]
    BY <2>1, <2>2 DEF FInv, OneUse
  <2>3. CASE table'[t] = table[t] /\ table'[u] # table[u]
    <3>1. table'[u] \in B
      BY <1>2, <2>3 DEF NewTables
    <3>2. table[t] \in used
      BY <2>1, <2>3 DEF FInv, OneUse
    <3>3. QED
      BY <2>1, <2>3, <3>1, <3>2, <1>3
  <2>4. CASE table'[t] # table[t] /\ table'[u] = table[u]
    <3>1. table'[t] \in B
      BY <1>2, <2>4 DEF NewTables
    <3>2. table[u] \in used
      BY <2>1, <2>4 DEF FInv, OneUse
    <3>3. QED
      BY <2>1, <2>4, <3>1, <3>2, <1>3
  <2>5. CASE table'[t] # table[t] /\ table'[u] # table[u]
    <3>1. PICK l \in D : t = Covers(l, v) /\ table'[t] = g[l]
      BY <1>2, <2>5 DEF NewTables
    <3>2. PICK m \in D : u = Covers(m, v) /\ table'[u] = g[m]
      BY <1>2, <2>5 DEF NewTables
    <3>3. l = m
      BY <2>1, <3>1, <3>2
    <3>4. QED
      BY <3>1, <3>2, <3>3
  <2>6. QED
    BY <2>2, <2>3, <2>4, <2>5
<1>6. CASE heap' = heap
  <2>1. FrameType'
    BY <1>1, <1>2, <1>6 DEF FInv, FrameType
  <2>2. \A w \in DOMAIN heap : \A t \in Table : table'[t] # heap[w]
    <3>1. \A w \in DOMAIN heap : heap[w] \in used
      BY DEF FInv, OneUse
    <3>2. \A t \in Table : table'[t] = table[t] \/ table'[t] \in B
      BY <1>2 DEF NewTables
    <3>3. QED
      BY <3>1, <3>2, <1>3 DEF FInv, OneUse
  <2>3. OneUse'
    BY <1>1, <1>4, <1>5, <1>6, <2>2 DEF FInv, OneUse
  <2>4. QED
    BY <2>1, <2>3 DEF FInv
<1>7. CASE heap' # heap
  <2>1. PICK w, f : /\ f \in B /\ w \notin DOMAIN heap
                    /\ \A l \in D : g[l] # f
                    /\ heap' = [x \in DOMAIN heap \cup {w} |-> IF x = w THEN f ELSE heap[x]]
    BY <1>7
  <2>2. /\ \A x : x \in DOMAIN heap' <=> x \in DOMAIN heap \/ x = w
        /\ heap'[w] = f
        /\ \A x \in DOMAIN heap : heap'[x] = heap[x]
    BY <2>1
  <2>3. heap' \in [DOMAIN heap' -> Frame]
    <3>1. \A x \in DOMAIN heap' : heap'[x] \in Frame
      BY <2>1, <2>2, <1>3 DEF FInv, FrameType
    <3>2. heap' = [x \in DOMAIN heap' |-> heap'[x]]
      BY <2>1
    <3>3. QED
      BY <3>1, <3>2
  <2>4. FrameType'
    BY <1>1, <1>2, <2>3 DEF FInv, FrameType
  <2>5. \A x \in DOMAIN heap : heap[x] \in used /\ heap[x] # f
    BY <2>1, <1>3 DEF FInv, OneUse
  <2>6. \A x \in DOMAIN heap' : /\ heap'[x] \in used' /\ heap'[x] \notin AtBoot /\ heap'[x] \notin given'
                                /\ \A t \in Table : table'[t] # heap'[x]
    <3>1. TAKE x \in DOMAIN heap'
    <3>2. CASE x = w
      <4>1. f \in used' /\ f \notin used /\ f # 0
        BY <2>1, <1>1, <1>3
      <4>2. f \notin AtBoot /\ f \notin given
        BY <4>1 DEF FInv, OneUse
      <4>3. \A t \in Table : table[t] # f
        BY <4>1 DEF FInv, OneUse
      <4>4. \A t \in Table : table'[t] # f
        BY <4>3, <1>2, <2>1 DEF NewTables
      <4>5. QED
        BY <3>2, <2>2, <4>1, <4>2, <4>4
    <3>3. CASE x \in DOMAIN heap
      <4>1. heap'[x] = heap[x] /\ heap[x] \in used
        BY <3>3, <2>2, <2>5
      <4>2. \A t \in Table : table[t] # heap[x]
        BY <3>3 DEF FInv, OneUse
      <4>3. \A t \in Table : table'[t] = table[t] \/ table'[t] \in B
        BY <1>2 DEF NewTables
      <4>4. \A t \in Table : table'[t] # heap[x]
        BY <4>1, <4>2, <4>3, <1>3
      <4>5. QED
        BY <3>3, <4>1, <4>4, <1>1 DEF FInv, OneUse
    <3>4. QED
      BY <2>2, <3>2, <3>3
  <2>7. \A x, y \in DOMAIN heap' : heap'[x] = heap'[y] => x = y
    BY <2>2, <2>5 DEF FInv, OneUse
  <2>8. OneUse'
    BY <1>1, <1>4, <1>5, <2>6, <2>7 DEF FInv, OneUse
  <2>9. QED
    BY <2>4, <2>8 DEF FInv
<1>8. QED
  BY <1>6, <1>7

-----------------------------------------------------------------------------
\* The frames of map_page.
LEMMA MapKeeps ==
    ASSUME FInv, NEW v \in Page, NEW p, NEW T \in SUBSET Free,
           MapPage(Free, v, p, T), Take(T), given' = given, heap' = heap
    PROVE  FInv'
<1>1. PICK g \in [Missing(v) -> Free] :
        /\ Ensured(Free, v, Missing(v), g)
        /\ T = {g[l] : l \in Missing(v)}
        /\ WithTables(v, Missing(v), g)
  BY DEF MapPage
<1>2. \A l, m \in Missing(v) : g[m] = g[l] => m = l
  BY <1>1 DEF Ensured
<1>3. \A l \in Missing(v) : g[l] \in T
  BY <1>1
<1>4. QED
  BY <1>1, <1>2, <1>3, TablesKeep

LEMMA MapFailsKeeps ==
    ASSUME FInv, NEW v \in Page, NEW D, NEW F \in SUBSET Free,
           MapFails(F, v, D), Take(F), given' = given, heap' = heap
    PROVE  FInv'
<1>1. PICK g \in [D -> F] : Ensured(F, v, D, g) /\ WithTables(v, D, g)
  BY DEF MapFails
<1>2. \A l, m \in D : g[m] = g[l] => m = l
  BY <1>1 DEF Ensured
<1>3. D \in SUBSET Missing(v)
  BY DEF MapFails
<1>4. \A l \in D : g[l] \in F
  BY <1>1
<1>5. QED
  BY <1>1, <1>2, <1>3, <1>4, TablesKeep

\* The heap's next page is not one that it has.
HeapDense == \E k \in Nat : DOMAIN heap = WindowPages .. WindowPages + k - 1

LEMMA NextPageNew ==
    ASSUME HeapDense
    PROVE  /\ WindowPages + Cardinality(DOMAIN heap) \notin DOMAIN heap
           /\ WindowPages + Cardinality(DOMAIN heap) \in Nat
           /\ \E k \in Nat : DOMAIN heap \cup {WindowPages + Cardinality(DOMAIN heap)}
                                = WindowPages .. WindowPages + k - 1
<1>1. PICK k \in Nat : DOMAIN heap = WindowPages .. WindowPages + k - 1
  BY DEF HeapDense
<1>2. WindowPages \in Nat
  BY MemoryAssumption
<1>3. Cardinality(DOMAIN heap) = k
  <2>1. WindowPages \in Int /\ WindowPages + k - 1 \in Int
    BY <1>1, <1>2
  <2>2. Cardinality(WindowPages .. WindowPages + k - 1)
            = IF WindowPages > WindowPages + k - 1 THEN 0
              ELSE (WindowPages + k - 1) - WindowPages + 1
    BY <2>1, FS_Interval
  <2>3. QED
    BY <1>1, <1>2, <2>2
<1>4. k + 1 \in Nat
      /\ (WindowPages .. WindowPages + k - 1) \cup {WindowPages + k}
            = WindowPages .. WindowPages + (k + 1) - 1
  BY <1>1, <1>2
<1>5. \E j \in Nat : DOMAIN heap \cup {WindowPages + Cardinality(DOMAIN heap)}
                    = WindowPages .. WindowPages + j - 1
  <2>1. DOMAIN heap \cup {WindowPages + Cardinality(DOMAIN heap)}
            = WindowPages .. WindowPages + (k + 1) - 1
    BY <1>1, <1>3, <1>4, Zenon
  <2>2. QED
    BY <2>1, <1>4, Zenon
<1>6. WindowPages + k \notin WindowPages .. WindowPages + k - 1 /\ WindowPages + k \in Nat
  BY <1>1, <1>2
<1>7. QED
  BY <1>1, <1>3, <1>5, <1>6, Zenon

LEMMA CommitKeeps ==
    ASSUME FInv, HeapDense, CommitPage
    PROVE  FInv'
<1>1. PICK f \in Free, T \in SUBSET Free, v \in Page :
        /\ v = WindowPages + Cardinality(DOMAIN heap)
        /\ MapPage(Free \ {f}, v, f, T)
        /\ Take(T \cup {f})
        /\ heap' = [w \in DOMAIN heap \cup {v} |-> IF w = v THEN f ELSE heap[w]]
  BY DEF CommitPage
<1>2. given' = given
  BY DEF CommitPage
<1>3. PICK g \in [Missing(v) -> Free \ {f}] :
        /\ Ensured(Free \ {f}, v, Missing(v), g)
        /\ T = {g[l] : l \in Missing(v)}
        /\ WithTables(v, Missing(v), g)
  BY <1>1 DEF MapPage
<1>4. \A l, m \in Missing(v) : g[m] = g[l] => m = l
  BY <1>3 DEF Ensured
<1>5. PICK F \in SUBSET Free : F = Free \ {f}
  OBVIOUS
<1>6. g \in [Missing(v) -> F]
  BY <1>3, <1>5
<1>7. PICK B \in SUBSET Free : B = T \cup {f}
  BY <1>1
<1>8. /\ \A l \in Missing(v) : g[l] \in B
      /\ Take(B)
      /\ Missing(v) \in SUBSET Missing(v)
  BY <1>1, <1>3, <1>7
<1>9. \E w, e : /\ e \in B /\ w \notin DOMAIN heap
                /\ \A l \in Missing(v) : g[l] # e
                /\ heap' = [x \in DOMAIN heap \cup {w} |-> IF x = w THEN e ELSE heap[x]]
  <2>1. f \in B /\ v \notin DOMAIN heap
    BY <1>1, <1>7, NextPageNew
  <2>2. \A l \in Missing(v) : g[l] # f
    BY <1>3
  <2>3. QED
    BY <1>1, <2>1, <2>2
<1>10. QED
  BY <1>2, <1>3, <1>4, <1>6, <1>8, <1>9, TablesKeep

-----------------------------------------------------------------------------
(***************************************************************************)
(* The window.                                                             *)
(***************************************************************************)
CallOK(c) ==
    \/ c = NoCall
    \/ /\ c.op \in {"map", "undo", "unmap"} /\ c.n > 0
       /\ c.start + c.n <= WindowPages
       /\ c.at <= c.n /\ (c.op = "map" => c.at < c.n)

WindowType ==
    /\ pte \in [Page -> Nat \cup {Unmapped}]
    /\ bits \subseteq Window
    /\ calls \in [Client -> Call] /\ \A c \in Client : CallOK(calls[c])
    /\ maps \subseteq [start : Window, n : 1 .. MaxCount]
    /\ \A m \in maps : m.start + m.n <= WindowPages
    /\ lost \subseteq Window
    /\ HeapDense /\ DOMAIN heap \subseteq Page \ Window

\* Mappings and calls are apart, and their bits are set.
Apart ==
    /\ \A m, k \in maps : Pages(m) \cap Pages(k) # {} => m = k
    /\ \A c \in Client : \A m \in maps : Pages(m) \cap Pages(calls[c]) = {}
    /\ \A c, d \in Client : Pages(calls[c]) \cap Pages(calls[d]) # {} => c = d
    /\ \A m \in maps : Pages(m) \subseteq bits
    /\ \A c \in Client : Pages(calls[c]) \subseteq bits

\* Pages lead where they should, those of a call that maps so far.
Leading ==
    /\ \A m \in maps : \A i \in 0 .. m.n - 1 : Leads(m.start + i, Device + i)
    /\ \A c \in Client : calls[c].op = "map" =>
        \A i \in 0 .. calls[c].at - 1 : Leads(calls[c].start + i, Device + i)
    /\ \A v \in DOMAIN heap : Leads(v, heap[v])

WInv == WindowType /\ Apart /\ Leading /\ WindowAccounted

Inv == FInv /\ WInv

LEMMA InvImplies ==
    ASSUME Inv
    PROVE  TypeOK /\ CountExact /\ FramesExclusive /\ WindowIntact /\ WindowAccounted
<1>1. CountExact /\ FramesExclusive /\ WindowAccounted
  BY OneUseExclusive DEF Inv, FInv, FrameType, CountExact, WInv
<1>2. WindowIntact
  BY DEF Inv, WInv, Apart, Leading, WindowIntact
<1>3. TypeOK
  <2>1. IsFiniteSet(Frame) /\ Cardinality(Frame) = Total
    <3>1. 0 \in Int /\ Total - 1 \in Int /\ Total \in Nat \ {0}
      BY MemoryAssumption
    <3>2. IsFiniteSet(0 .. Total - 1)
          /\ Cardinality(0 .. Total - 1) = IF 0 > Total - 1 THEN 0 ELSE (Total - 1) - 0 + 1
      BY <3>1, FS_Interval
    <3>3. QED
      BY <3>1, <3>2 DEF Frame
  <2>2. used \in SUBSET Frame
    BY DEF Inv, FInv, FrameType
  <2>3. Cardinality(used) <= Cardinality(Frame) /\ IsFiniteSet(used)
    BY <2>1, <2>2, FS_Subset
  <2>4. Cardinality(used) \in Nat
    BY <2>3, FS_CardinalityType
  <2>5. count \in 0 .. Total
    BY <2>1, <2>3, <2>4, MemoryAssumption DEF Inv, FInv, FrameType
  <2>6. QED
    BY <2>5 DEF Inv, FInv, FrameType, WInv, WindowType, TypeOK
<1>4. QED
  BY <1>1, <1>2, <1>3

\* Pages that lead somewhere keep doing so when tables are added.
LEMMA LeadsKept ==
    ASSUME FInv, NEW v \in Page, NEW F \in SUBSET Free, NEW D \in SUBSET Missing(v),
           NEW g \in [D -> F], WithTables(v, D, g),
           NEW w \in Page, NEW p, Leads(w, p)
    PROVE  /\ \A l \in Level : table'[Covers(l, w)] # 0
           /\ Cleared(v, D)[w] = p
<1>1. NewTables(v, D, g)
  BY WithTablesFacts
<1>2. \A l \in Level : Covers(l, w) \in Table
  BY CoversTable
<1>3. \A l \in Level : table'[Covers(l, w)] # 0
  <2>1. \A t \in Table : table[t] # 0 => table'[t] = table[t]
    BY <1>1 DEF NewTables
  <2>2. QED
    BY <1>2, <2>1 DEF Leads
<1>4. ~(1 \in D /\ Covers(1, w) = Covers(1, v))
  <2>1. SUFFICES ASSUME 1 \in D, Covers(1, w) = Covers(1, v) PROVE FALSE
    OBVIOUS
  <2>2. 1 \in Level /\ table[Covers(1, v)] = 0
    BY <2>1 DEF Missing
  <2>3. QED
    BY <2>1, <2>2 DEF Leads
<1>5. QED
  BY <1>3, <1>4 DEF Cleared, Leads

\* The page that is mapped leads to its frame once its tables are there.
LEMMA LeadsNow ==
    ASSUME FInv, NEW v \in Page, NEW F \in SUBSET Free,
           NEW g \in [Missing(v) -> F], WithTables(v, Missing(v), g),
           NEW p, pte \in [Page -> Nat \cup {Unmapped}],
           pte' = [Cleared(v, Missing(v)) EXCEPT ![v] = p]
    PROVE  Leads(v, p)'
<1>1. NewTables(v, Missing(v), g) /\ Missing(v) \in SUBSET Missing(v)
  BY WithTablesFacts
<1>2. pte'[v] = p
  BY DEF Cleared
<1>3. 0 \notin F
  BY ZeroAtBoot DEF FInv, OneUse, Free
<1>4. \A l \in Level : table'[Covers(l, v)] # 0
  <2>1. TAKE l \in Level
  <2>2. CASE l \in Missing(v)
    BY <1>1, <1>3, <2>2 DEF NewTables
  <2>3. CASE l \notin Missing(v)
    <3>1. table[Covers(l, v)] # 0
      BY <2>3 DEF Missing
    <3>2. Covers(l, v) \in Table
      BY CoversTable
    <3>3. QED
      BY <1>1, <3>1, <3>2 DEF NewTables
  <2>4. QED
    BY <2>2, <2>3
<1>5. QED
  BY <1>2, <1>4 DEF Leads

LEMMA PagesFacts ==
    ASSUME WindowType
    PROVE  /\ Pages(NoCall) = {}
           /\ Window \subseteq Page /\ Window \subseteq Nat
           /\ \A m \in maps : Pages(m) \subseteq Window
           /\ \A c \in Client : Pages(calls[c]) \subseteq Window
           /\ \A v \in DOMAIN heap : v \in Page /\ v \notin Window
<1>0. WindowPages \in Nat /\ HeapPages \in Nat
  BY MemoryAssumption
<1>1. Pages(NoCall) = {}
  BY DEF Pages, NoCall
<1>2. Window \subseteq Page /\ Window \subseteq Nat
  BY <1>0 DEF Window, Page
<1>3. ASSUME NEW m \in maps PROVE Pages(m) \subseteq Window
  <2>1. m.start \in Window /\ m.n \in Nat /\ m.start + m.n <= WindowPages
    BY MemoryAssumption DEF WindowType
  <2>2. QED
    BY <2>1, <1>0 DEF Pages, Window
<1>4. ASSUME NEW c \in Client PROVE Pages(calls[c]) \subseteq Window
  <2>1. CASE calls[c] = NoCall
    BY <1>1, <2>1
  <2>2. CASE calls[c] # NoCall
    <3>1. calls[c].start \in Window /\ calls[c].n \in Nat
          /\ calls[c].start + calls[c].n <= WindowPages
      BY <2>2, MemoryAssumption DEF WindowType, CallOK, Call
    <3>2. QED
      BY <3>1, <1>0 DEF Pages, Window
  <2>3. QED
    BY <2>1, <2>2
<1>5. QED
  BY <1>1, <1>2, <1>3, <1>4 DEF WindowType

\* The running call of a client.
LEMMA CallFacts ==
    ASSUME WindowType, NEW c \in Client, calls[c] # NoCall
    PROVE  /\ calls[c].start \in Nat /\ calls[c].n \in Nat /\ calls[c].at \in Nat
           /\ calls[c].n > 0 /\ calls[c].at <= calls[c].n /\ calls[c].n <= MaxCount
           /\ calls[c].op \in {"map", "undo", "unmap"}
           /\ calls[c].op = "map" => calls[c].at < calls[c].n
           /\ calls[c].start \in Window
           /\ calls[c].start + calls[c].n <= WindowPages
BY MemoryAssumption DEF WindowType, CallOK, Call, Window

\* A step that leaves calls and mappings alone and only adds to what leads.
LEMMA LeadingKept ==
    ASSUME WInv, NEW X, X \cap Window = {},
           \A w \in Page : \A p : w \notin X /\ Leads(w, p) => Leads(w, p)',
           UNCHANGED <<calls, maps>>,
           \A v \in DOMAIN heap' : Leads(v, heap[v])'
    PROVE  Leading'
<1>1. WindowType /\ Leading
  BY DEF WInv
<1>2. /\ Window \subseteq Page
      /\ \A m \in maps : Pages(m) \subseteq Window
      /\ \A c \in Client : Pages(calls[c]) \subseteq Window
  BY <1>1, PagesFacts
<1>3. \A m \in maps : \A i \in 0 .. m.n - 1 : Leads(m.start + i, Device + i)'
  <2>1. TAKE m \in maps
  <2>2. TAKE i \in 0 .. m.n - 1
  <2>3. m.start \in Nat /\ m.n \in Nat
    BY <1>1, MemoryAssumption DEF WindowType, Window
  <2>4. m.start + i \in Pages(m)
    BY <2>3 DEF Pages
  <2>5. QED
    BY <2>4, <1>1, <1>2 DEF Leading
<1>4. ASSUME NEW c \in Client, calls[c].op = "map", NEW i \in 0 .. calls[c].at - 1
      PROVE  Leads(calls[c].start + i, Device + i)'
  <2>1. calls[c] # NoCall
    BY <1>4 DEF NoCall
  <2>2. calls[c].start + i \in Pages(calls[c])
    BY <1>1, <2>1, CallFacts DEF Pages
  <2>3. Leads(calls[c].start + i, Device + i)
    BY <1>1, <1>4 DEF Leading
  <2>4. QED
    BY <2>2, <2>3, <1>2
<1>5. QED
  BY <1>3, <1>4 DEF Leading

-----------------------------------------------------------------------------
\* New tables and no page mapped: pte stays well-typed and what led leads.
LEMMA ClearedType ==
    ASSUME pte \in [Page -> Nat \cup {Unmapped}], NEW v, NEW D
    PROVE  Cleared(v, D) \in [Page -> Nat \cup {Unmapped}]
BY DEF Cleared

LEMMA CommitPageWindow ==
    ASSUME Inv, CommitPage
    PROVE  WInv'
<1>1. PICK f \in Free, T \in SUBSET Free, v \in Page :
        /\ v = WindowPages + Cardinality(DOMAIN heap)
        /\ MapPage(Free \ {f}, v, f, T)
        /\ heap' = [w \in DOMAIN heap \cup {v} |-> IF w = v THEN f ELSE heap[w]]
  BY DEF CommitPage
<1>2. UNCHANGED <<bits, calls, maps, lost>>
  BY DEF CommitPage, window
<1>3. PICK F \in SUBSET Free : F = Free \ {f}
  OBVIOUS
<1>4. PICK g \in [Missing(v) -> F] :
        /\ WithTables(v, Missing(v), g)
        /\ pte' = [Cleared(v, Missing(v)) EXCEPT ![v] = f]
  BY <1>1, <1>3 DEF MapPage
<1>5. WindowType /\ FInv /\ WInv /\ Missing(v) \in SUBSET Missing(v)
  BY DEF Inv, WInv
<1>6. v \notin DOMAIN heap /\ v \notin Window /\ f \in Nat
      /\ \E k \in Nat : DOMAIN heap \cup {v} = WindowPages .. WindowPages + k - 1
  <2>1. HeapDense
    BY <1>5 DEF WindowType
  <2>2. Cardinality(DOMAIN heap) \in Nat
    <3>1. PICK k \in Nat : DOMAIN heap = WindowPages .. WindowPages + k - 1
      BY <2>1 DEF HeapDense
    <3>2. IsFiniteSet(DOMAIN heap)
      <4>1. WindowPages \in Int /\ WindowPages + k - 1 \in Int
        BY MemoryAssumption, <3>1
      <4>2. QED
        BY <3>1, <4>1, FS_Interval
    <3>3. QED
      BY <3>2, FS_CardinalityType
  <2>3. v \notin Window
    BY <1>1, <2>2, MemoryAssumption DEF Window
  <2>4. QED
    BY <1>1, <2>1, <2>3, NextPageNew, AtBootFrames DEF Free
<1>7. pte' \in [Page -> Nat \cup {Unmapped}]
  <2>1. Cleared(v, Missing(v)) \in [Page -> Nat \cup {Unmapped}]
    BY <1>5, ClearedType DEF WindowType
  <2>2. QED
    BY <1>4, <1>6, <2>1
<1>8. DOMAIN heap' = DOMAIN heap \cup {v}
  BY <1>1
<1>9. WindowType'
  <2>1. HeapDense'
    BY <1>6, <1>8 DEF HeapDense
  <2>2. QED
    BY <1>2, <1>5, <1>6, <1>7, <1>8, <2>1 DEF WindowType
<1>10. \A w \in Page : \A p : w \notin {v} /\ Leads(w, p) => Leads(w, p)'
  <2>1. TAKE w \in Page
  <2>2. TAKE p
  <2>3. SUFFICES ASSUME w # v, Leads(w, p) PROVE Leads(w, p)'
    OBVIOUS
  <2>4. (\A l \in Level : table'[Covers(l, w)] # 0) /\ Cleared(v, Missing(v))[w] = p
    BY <1>4, <1>5, <2>3, LeadsKept
  <2>5. pte'[w] = p
    BY <1>4, <2>3, <2>4 DEF Cleared
  <2>6. QED
    BY <2>4, <2>5 DEF Leads
<1>11. Leads(v, f)'
  BY <1>4, <1>5, LeadsNow DEF WindowType
<1>12. \A w \in DOMAIN heap' : Leads(w, heap[w])'
  <2>1. TAKE w \in DOMAIN heap'
  <2>2. CASE w = v
    <3>1. heap'[w] = f
      BY <1>1, <2>2
    <3>2. QED
      BY <1>11, <2>2, <3>1 DEF Leads
  <2>3. CASE w # v
    <3>1. w \in DOMAIN heap /\ heap'[w] = heap[w] /\ w \in Page
      BY <1>1, <1>5, <1>8, <2>1, <2>3 DEF WindowType
    <3>2. Leads(w, heap[w])
      BY <3>1, <1>5 DEF WInv, Leading
    <3>3. PICK p : p = heap[w]
      OBVIOUS
    <3>4. Leads(w, p)'
      BY <1>10, <2>3, <3>1, <3>2, <3>3
    <3>5. QED
      BY <3>1, <3>3, <3>4 DEF Leads
  <2>4. QED
    BY <2>2, <2>3
<1>13. Leading'
  <2>1. PICK X : X = {v}
    OBVIOUS
  <2>2. X \cap Window = {}
    BY <1>6, <2>1
  <2>3. QED
    BY <1>2, <1>5, <1>10, <1>12, <2>1, <2>2, LeadingKept
<1>14. Apart' /\ WindowAccounted'
  BY <1>2, <1>5 DEF WInv, Apart, WindowAccounted
<1>15. QED
  BY <1>9, <1>13, <1>14 DEF WInv

LEMMA CommitFailsWindow ==
    ASSUME Inv, CommitFails
    PROVE  WInv'
<1>1. PICK f \in Free, v \in Page, D \in SUBSET Level :
        MapFails(Free \ {f}, v, D) /\ pte' = Cleared(v, D)
  BY DEF CommitFails
<1>2. UNCHANGED <<heap, bits, calls, maps, lost>>
  BY DEF CommitFails, window
<1>3. PICK F \in SUBSET Free : F = Free \ {f}
  OBVIOUS
<1>4. PICK g \in [D -> F] : WithTables(v, D, g)
  BY <1>1, <1>3 DEF MapFails
<1>5. WindowType /\ FInv /\ WInv /\ D \in SUBSET Missing(v)
  BY <1>1 DEF Inv, WInv, MapFails
<1>6. WindowType'
  <2>1. pte' \in [Page -> Nat \cup {Unmapped}]
    BY <1>1, <1>5, ClearedType DEF WindowType
  <2>2. HeapDense'
    BY <1>2, <1>5 DEF HeapDense, WindowType
  <2>3. QED
    BY <1>2, <1>5, <2>1, <2>2 DEF WindowType
<1>7. \A w \in Page : \A p : w \notin {} /\ Leads(w, p) => Leads(w, p)'
  <2>1. TAKE w \in Page
  <2>2. TAKE p
  <2>3. SUFFICES ASSUME Leads(w, p) PROVE Leads(w, p)'
    OBVIOUS
  <2>4. (\A l \in Level : table'[Covers(l, w)] # 0) /\ Cleared(v, D)[w] = p
    BY <1>4, <1>5, <2>3, LeadsKept
  <2>5. QED
    BY <1>1, <2>4 DEF Leads
<1>8. \A w \in DOMAIN heap' : Leads(w, heap[w])'
  <2>1. TAKE w \in DOMAIN heap'
  <2>2. w \in DOMAIN heap /\ w \in Page
    BY <1>2, <1>5 DEF WindowType
  <2>3. PICK p : p = heap[w] /\ Leads(w, p)
    BY <1>5, <2>2 DEF WInv, Leading
  <2>4. Leads(w, p)'
    BY <1>7, <2>2, <2>3
  <2>5. QED
    BY <1>2, <2>3, <2>4 DEF Leads
<1>9. Leading'
  <2>1. PICK X : X = {}
    OBVIOUS
  <2>2. QED
    BY <1>2, <1>5, <1>7, <1>8, <2>1, LeadingKept
<1>10. Apart' /\ WindowAccounted'
  BY <1>2, <1>5 DEF WInv, Apart, WindowAccounted
<1>11. QED
  BY <1>6, <1>9, <1>10 DEF WInv

-----------------------------------------------------------------------------
\* WindowAccounted, page by page.
Each(b, M, K, L) ==
    \A x \in b : \/ \E m \in M : x \in Pages(m)
                 \/ \E c \in Client : x \in Pages(K[c])
                 \/ x \in L

LEMMA UnionEach ==
    ASSUME NEW b, NEW M, NEW K, NEW L
    PROVE  b \subseteq (UNION {Pages(m) : m \in M}) \cup (UNION {Pages(K[c]) : c \in Client}) \cup L
                <=> Each(b, M, K, L)
<1>1. \A x : x \in UNION {Pages(m) : m \in M} <=> \E m \in M : x \in Pages(m)
  BY Zenon
<1>2. \A x : x \in UNION {Pages(K[c]) : c \in Client} <=> \E c \in Client : x \in Pages(K[c])
  BY Zenon
<1>3. ASSUME b \subseteq (UNION {Pages(m) : m \in M}) \cup (UNION {Pages(K[c]) : c \in Client}) \cup L
      PROVE  Each(b, M, K, L)
  <2> USE DEF Each
  <2>1. TAKE x \in b
  <2>2. \/ x \in UNION {Pages(m) : m \in M}
        \/ x \in UNION {Pages(K[c]) : c \in Client}
        \/ x \in L
    BY <1>3, Zenon
  <2>3. QED
    BY <1>1, <1>2, <2>2, Zenon
<1>4. ASSUME Each(b, M, K, L), NEW x \in b
      PROVE  x \in (UNION {Pages(m) : m \in M}) \cup (UNION {Pages(K[c]) : c \in Client}) \cup L
  <2>1. \/ \E m \in M : x \in Pages(m)
        \/ \E c \in Client : x \in Pages(K[c])
        \/ x \in L
    BY <1>4, Zenon DEF Each
  <2>2. \/ x \in UNION {Pages(m) : m \in M}
        \/ x \in UNION {Pages(K[c]) : c \in Client}
        \/ x \in L
    BY <1>1, <1>2, <2>1, Zenon
  <2>3. QED
    BY <2>2, Zenon
<1>5. ASSUME Each(b, M, K, L)
      PROVE  b \subseteq (UNION {Pages(m) : m \in M}) \cup (UNION {Pages(K[c]) : c \in Client}) \cup L
  BY <1>4, <1>5, Zenon
<1>6. QED
  BY <1>3, <1>5, Zenon

LEMMA AccountedEach == WindowAccounted <=> Each(bits, maps, calls, lost)
BY UnionEach DEF WindowAccounted

LEMMA AccountedNext == WindowAccounted' <=> Each(bits', maps', calls', lost')
BY UnionEach DEF WindowAccounted

\* vmm_map_physical takes pages that nobody holds.
LEMMA MapCallWindow ==
    ASSUME Inv, NEW c \in Client, NEW n \in 1 .. MaxCount, MapCall(c, n)
    PROVE  WInv'
<1>1. PICK s \in WindowRuns(n) :
        /\ bits' = bits \cup s .. s + n - 1
        /\ calls' = [calls EXCEPT ![c] = [op |-> "map", start |-> s, n |-> n, at |-> 0]]
  BY DEF MapCall
<1>2. calls[c] = NoCall /\ UNCHANGED <<pte, table, heap, maps, lost>>
  BY DEF MapCall, paging
<1>3. WindowType /\ Apart /\ Leading /\ WindowAccounted
  BY DEF Inv, WInv
<1>4. PICK k : k = [op |-> "map", start |-> s, n |-> n, at |-> 0]
  OBVIOUS
<1>5. k.op = "map" /\ k.start = s /\ k.n = n /\ k.at = 0 /\ n \in Nat /\ MaxCount \in Nat /\ n >= 1
  BY <1>4, MemoryAssumption
<1>6. s \in Window /\ s .. s + n - 1 \subseteq Window \ bits /\ s \in Nat /\ s + n <= WindowPages
  <2>1. s \in Window /\ s .. s + n - 1 \subseteq Window \ bits
    BY <1>1 DEF WindowRuns
  <2>2. s \in Nat /\ WindowPages \in Nat
    BY <2>1, MemoryAssumption DEF Window
  <2>3. s + n - 1 \in s .. s + n - 1
    BY <1>5, <2>2
  <2>4. s + n - 1 \in Window
    BY <2>1, <2>3
  <2>5. QED
    BY <1>5, <2>1, <2>2, <2>4 DEF Window
<1>7. Pages(k) = s .. s + n - 1
  BY <1>5 DEF Pages
<1>8. calls'[c] = k /\ \A d \in Client : d # c => calls'[d] = calls[d]
  BY <1>1, <1>3, <1>4 DEF WindowType
<1>9. WindowType'
  <2>1. k \in Call
    BY <1>4, <1>5, <1>6, MemoryAssumption DEF Call
  <2>2. calls' \in [Client -> Call]
    BY <1>1, <1>3, <1>4, <2>1 DEF WindowType
  <2>3. CallOK(k)
    BY <1>5, <1>6 DEF CallOK
  <2>4. \A d \in Client : CallOK(calls'[d])
    BY <1>3, <1>8, <2>3 DEF WindowType
  <2>5. HeapDense'
    BY <1>2, <1>3 DEF WindowType, HeapDense
  <2>6. QED
    BY <1>1, <1>2, <1>3, <1>6, <2>2, <2>4, <2>5 DEF WindowType
<1>10. Apart'
  <2>1. \A m \in maps : Pages(m) \cap Pages(k) = {}
    BY <1>3, <1>6, <1>7 DEF Apart
  <2>2. \A d \in Client : d # c => Pages(calls[d]) \cap Pages(k) = {}
    BY <1>3, <1>6, <1>7 DEF Apart
  <2>3. \A d \in Client : \A m \in maps' : Pages(m) \cap Pages(calls'[d]) = {}
    BY <1>2, <1>3, <1>8, <2>1 DEF Apart
  <2>4. \A d, e \in Client : Pages(calls'[d]) \cap Pages(calls'[e]) # {} => d = e
    <3>1. TAKE d, e \in Client
    <3>2. CASE d = c /\ e # c
      BY <1>8, <2>2, <3>2
    <3>3. CASE d # c /\ e = c
      BY <1>8, <2>2, <3>3
    <3>4. CASE d # c /\ e # c
      BY <1>3, <1>8, <3>4 DEF Apart
    <3>5. QED
      BY <3>2, <3>3, <3>4
  <2>5. \A d \in Client : Pages(calls'[d]) \subseteq bits'
    BY <1>1, <1>3, <1>7, <1>8 DEF Apart
  <2>6. QED
    BY <1>1, <1>2, <1>3, <2>3, <2>4, <2>5 DEF Apart
<1>11. Leading'
  <2>1. \A v, p : Leads(v, p) => Leads(v, p)'
    BY <1>2 DEF Leads
  <2>2. ASSUME NEW d \in Client, calls'[d].op = "map", NEW i \in 0 .. calls'[d].at - 1
        PROVE  Leads(calls[d].start + i, Device + i)'
    <3>1. d # c
      BY <1>5, <1>8, <2>2
    <3>2. calls'[d] = calls[d]
      BY <1>8, <3>1
    <3>3. Leads(calls[d].start + i, Device + i)
      BY <1>3, <2>2, <3>2 DEF Leading
    <3>4. QED
      BY <1>2, <3>2, <3>3 DEF Leads
  <2>3. \A m \in maps' : \A i \in 0 .. m.n - 1 : Leads(m.start + i, Device + i)'
    BY <1>2, <1>3, <2>1 DEF Leading
  <2>4. \A v \in DOMAIN heap' : Leads(v, heap[v])'
    BY <1>2, <1>3 DEF Leading, Leads
  <2>5. QED
    BY <2>2, <2>3, <2>4 DEF Leading
<1>12. WindowAccounted'
  <2>1. Pages(NoCall) = {}
    BY DEF Pages, NoCall
  <2>2. \A x \in bits' : \/ \E m \in maps : x \in Pages(m)
                         \/ \E d \in Client : x \in Pages(calls'[d])
                         \/ x \in lost
    <3>1. TAKE x \in bits'
    <3>2. CASE x \in bits
      <4>1. \/ \E m \in maps : x \in Pages(m)
            \/ \E d \in Client : x \in Pages(calls[d])
            \/ x \in lost
        BY <1>3, <3>2, AccountedEach DEF Each
      <4>2. QED
        BY <4>1, <1>2, <1>8, <2>1
    <3>3. CASE x \notin bits
      BY <1>1, <1>7, <1>8, <3>1, <3>3
    <3>4. QED
      BY <3>2, <3>3
  <2>3. QED
    BY <1>2, <2>2, AccountedNext DEF Each
<1>13. QED
  BY <1>9, <1>10, <1>11, <1>12 DEF WInv

\* Mapping a page of a call disturbs nobody else's pages.
LEMMA OthersLead ==
    ASSUME WInv, NEW c \in Client, calls[c] # NoCall, NEW X \in SUBSET Pages(calls[c]),
           \A w \in Page : \A p : w \notin X /\ Leads(w, p) => Leads(w, p)',
           heap' = heap
    PROVE  /\ \A m \in maps : \A i \in 0 .. m.n - 1 : Leads(m.start + i, Device + i)'
           /\ \A d \in Client : d # c /\ calls[d].op = "map" =>
                \A i \in 0 .. calls[d].at - 1 :
                    \A w : w = calls[d].start + i => Leads(w, Device + i)'
           /\ \A v \in DOMAIN heap' : Leads(v, heap[v])'
<1>1. WindowType /\ Apart /\ Leading
  BY DEF WInv
<1>2. /\ Window \subseteq Page
      /\ \A m \in maps : Pages(m) \subseteq Window
      /\ \A d \in Client : Pages(calls[d]) \subseteq Window
      /\ \A v \in DOMAIN heap : v \in Page /\ v \notin Window
  BY <1>1, PagesFacts
<1>3. \A m \in maps : \A i \in 0 .. m.n - 1 : Leads(m.start + i, Device + i)'
  <2>1. TAKE m \in maps
  <2>2. TAKE i \in 0 .. m.n - 1
  <2>3. m.start \in Nat /\ m.n \in Nat
    BY <1>1, MemoryAssumption DEF WindowType, Window
  <2>4. m.start + i \in Pages(m)
    BY <2>3 DEF Pages
  <2>5. m.start + i \notin X /\ m.start + i \in Page
    BY <2>4, <1>1, <1>2 DEF Apart
  <2>6. QED
    BY <2>5, <1>1 DEF Leading
<1>4. ASSUME NEW d \in Client, d # c, calls[d].op = "map", NEW i \in 0 .. calls[d].at - 1,
             NEW w, w = calls[d].start + i
      PROVE  Leads(w, Device + i)'
  <2>1. calls[d] # NoCall
    BY <1>4 DEF NoCall
  <2>2. calls[d].start + i \in Pages(calls[d])
    BY <1>1, <2>1, CallFacts DEF Pages
  <2>3. Pages(calls[d]) \cap Pages(calls[c]) = {}
    BY <1>1, <1>4 DEF Apart
  <2>4. w \notin X /\ w \in Page
    BY <2>2, <2>3, <1>2, <1>4
  <2>5. Leads(w, Device + i)
    BY <1>1, <1>4 DEF Leading
  <2>6. QED
    BY <2>4, <2>5
<1>5. \A v \in DOMAIN heap' : Leads(v, heap[v])'
  <2>1. TAKE v \in DOMAIN heap'
  <2>2. v \in DOMAIN heap /\ v \in Page /\ v \notin X
    BY <1>2
  <2>3. PICK p : p = heap[v] /\ Leads(v, p)
    BY <1>1, <2>2 DEF Leading
  <2>4. Leads(v, p)'
    BY <2>2, <2>3
  <2>5. QED
    BY <2>3, <2>4 DEF Leads
<1>6. QED
  BY <1>3, <1>4, <1>5

\* One page more of a mapping.
LEMMA MapStepWindow ==
    ASSUME Inv, NEW c \in Client, MapStep(c)
    PROVE  WInv'
<1>1. WindowType /\ Apart /\ Leading /\ WindowAccounted /\ FInv /\ WInv
  BY DEF Inv, WInv
<1>2. PICK k \in Call : k = calls[c]
  BY <1>1 DEF WindowType
<1>3. k.op = "map" /\ k.at < k.n /\ calls[c] # NoCall
  BY <1>2 DEF MapStep, Doing, NoCall
<1>4. /\ k.start \in Nat /\ k.n \in Nat /\ k.at \in Nat /\ k.n > 0 /\ k.n <= MaxCount
      /\ k.start \in Window /\ k.start + k.n <= WindowPages
  BY <1>1, <1>2, <1>3, CallFacts
<1>5. PICK v : v = k.start + k.at
  OBVIOUS
<1>6. v \in Pages(k) /\ v \in Page /\ v \in Window
  <2>1. v \in Pages(k)
    BY <1>3, <1>4, <1>5 DEF Pages
  <2>2. QED
    BY <2>1, <1>1, <1>2, PagesFacts
<1>7. PICK T \in SUBSET Free : MapPage(Free, v, Device + k.at, T)
  BY <1>2, <1>5 DEF MapStep, Here
<1>8. UNCHANGED <<heap, bits, lost>>
  BY DEF MapStep
<1>9. PICK g \in [Missing(v) -> Free] :
        /\ WithTables(v, Missing(v), g)
        /\ pte' = [Cleared(v, Missing(v)) EXCEPT ![v] = Device + k.at]
  BY <1>7 DEF MapPage
<1>10. Device \in Nat /\ Device + k.at \in Nat
  BY <1>4, MemoryAssumption
<1>11. Free \in SUBSET Free /\ Missing(v) \in SUBSET Missing(v)
  OBVIOUS
<1>12. \A w \in Page : \A p : w \notin {v} /\ Leads(w, p) => Leads(w, p)'
  <2>1. TAKE w \in Page
  <2>2. TAKE p
  <2>3. SUFFICES ASSUME w # v, Leads(w, p) PROVE Leads(w, p)'
    OBVIOUS
  <2>4. (\A l \in Level : table'[Covers(l, w)] # 0) /\ Cleared(v, Missing(v))[w] = p
    BY <1>1, <1>6, <1>9, <1>11, <2>3, LeadsKept
  <2>5. pte'[w] = p
    BY <1>9, <2>3, <2>4 DEF Cleared
  <2>6. QED
    BY <2>4, <2>5 DEF Leads
<1>13. \A p : p = Device + k.at => Leads(v, p)'
  BY <1>1, <1>6, <1>9, <1>11, LeadsNow DEF WindowType
<1>14. pte' \in [Page -> Nat \cup {Unmapped}]
  <2>1. Cleared(v, Missing(v)) \in [Page -> Nat \cup {Unmapped}]
    BY <1>1, ClearedType DEF WindowType
  <2>2. QED
    BY <1>9, <1>10, <2>1
<1>15. /\ \A m \in maps : \A i \in 0 .. m.n - 1 : Leads(m.start + i, Device + i)'
       /\ \A d \in Client : d # c /\ calls[d].op = "map" =>
            \A i \in 0 .. calls[d].at - 1 :
                \A w : w = calls[d].start + i => Leads(w, Device + i)'
       /\ \A w \in DOMAIN heap' : Leads(w, heap[w])'
  <2>1. PICK X \in SUBSET Pages(calls[c]) : X = {v}
    BY <1>2, <1>6
  <2>2. QED
    BY <1>1, <1>3, <1>8, <1>12, <2>1, OthersLead
<1>16. \A i \in 0 .. k.at : \A w : w = k.start + i => Leads(w, Device + i)'
  <2>1. TAKE i \in 0 .. k.at
  <2>2. TAKE w
  <2>3. HAVE w = k.start + i
  <2>4. CASE i = k.at
    BY <1>5, <1>13, <2>3, <2>4
  <2>5. CASE i # k.at
    <3>1. i \in 0 .. k.at - 1 /\ w # v
      BY <1>4, <1>5, <2>1, <2>3, <2>5
    <3>2. Leads(w, Device + i)
      BY <1>1, <1>2, <1>3, <2>3, <3>1 DEF Leading
    <3>3. w \in Pages(k)
      BY <1>3, <1>4, <2>3, <3>1 DEF Pages
    <3>4. w \in Page
      BY <3>3, <1>1, <1>2, PagesFacts
    <3>5. QED
      BY <1>12, <3>1, <3>2, <3>4
  <2>6. QED
    BY <2>4, <2>5
<1>17. HeapDense'
  BY <1>1, <1>8 DEF WindowType, HeapDense
<1>18. CASE k.at + 1 < k.n
  <2>1. calls' = [calls EXCEPT ![c].at = @ + 1] /\ maps' = maps
    BY <1>2, <1>18 DEF MapStep
  <2>2. PICK j : j = [k EXCEPT !.at = k.at + 1]
    OBVIOUS
  <2>3. j.op = "map" /\ j.start = k.start /\ j.n = k.n /\ j.at = k.at + 1 /\ j \in Call
    BY <1>2, <1>3, <1>4, <1>18, <2>2, MemoryAssumption DEF Call
  <2>4. calls'[c] = j /\ \A d \in Client : d # c => calls'[d] = calls[d]
    BY <1>1, <1>2, <2>1, <2>2 DEF WindowType
  <2>5. Pages(j) = Pages(k)
    BY <2>3 DEF Pages
  <2>6. \A d \in Client : Pages(calls'[d]) = Pages(calls[d])
    BY <1>2, <2>4, <2>5
  <2>7. WindowType'
    <3>1. calls' \in [Client -> Call]
      BY <1>1, <1>2, <2>1, <2>2, <2>3 DEF WindowType
    <3>2. CallOK(j)
      BY <1>4, <1>18, <2>3 DEF CallOK
    <3>3. \A d \in Client : CallOK(calls'[d])
      BY <1>1, <2>4, <3>2 DEF WindowType
    <3>4. QED
      BY <1>1, <1>8, <1>14, <1>17, <2>1, <3>1, <3>3 DEF WindowType
  <2>8. Apart'
    BY <1>1, <1>8, <2>1, <2>6 DEF Apart
  <2>9. WindowAccounted'
    BY <1>1, <1>8, <2>1, <2>6, AccountedEach, AccountedNext DEF Each
  <2>10. Leading'
    <3>1. ASSUME NEW d \in Client, calls'[d].op = "map", NEW i \in 0 .. calls'[d].at - 1
          PROVE  Leads(calls[d].start + i, Device + i)'
      <4>1. CASE d = c
        <5>1. i \in 0 .. k.at /\ calls'[d].start = k.start
          BY <1>4, <2>3, <2>4, <3>1, <4>1
        <5>2. PICK w : w = k.start + i
          OBVIOUS
        <5>3. Leads(w, Device + i)'
          BY <1>16, <5>1, <5>2
        <5>4. QED
          BY <5>1, <5>2, <5>3 DEF Leads
      <4>2. CASE d # c
        <5>1. calls'[d] = calls[d]
          BY <2>4, <4>2
        <5>2. PICK w : w = calls[d].start + i
          OBVIOUS
        <5>3. Leads(w, Device + i)'
          BY <1>15, <3>1, <4>2, <5>1, <5>2
        <5>4. QED
          BY <5>1, <5>2, <5>3 DEF Leads
      <4>3. QED
        BY <4>1, <4>2
    <3>2. QED
      BY <1>15, <2>1, <3>1 DEF Leading
  <2>11. QED
    BY <2>7, <2>8, <2>9, <2>10 DEF WInv
<1>19. CASE ~(k.at + 1 < k.n)
  <2>1. /\ calls' = [calls EXCEPT ![c] = NoCall]
        /\ maps' = maps \cup {Mapping(k.start, k.n)}
    BY <1>2, <1>19 DEF MapStep
  <2>2. calls'[c] = NoCall /\ \A d \in Client : d # c => calls'[d] = calls[d]
    BY <1>1, <2>1 DEF WindowType
  <2>3. PICK q : q = Mapping(k.start, k.n)
    OBVIOUS
  <2>4. q.start = k.start /\ q.n = k.n /\ q \in [start : Window, n : 1 .. MaxCount]
    BY <1>4, <2>3, MemoryAssumption DEF Mapping
  <2>5. Pages(q) = Pages(k) /\ Pages(NoCall) = {}
    BY <2>4 DEF Pages, NoCall
  <2>6. WindowType'
    <3>1. NoCall \in Call /\ CallOK(NoCall)
      BY MemoryAssumption DEF NoCall, Call, CallOK, Window
    <3>2. calls' \in [Client -> Call]
      BY <1>1, <2>1, <3>1 DEF WindowType
    <3>3. \A d \in Client : CallOK(calls'[d])
      BY <1>1, <2>2, <3>1 DEF WindowType
    <3>4. \A m \in maps' : m \in [start : Window, n : 1 .. MaxCount] /\ m.start + m.n <= WindowPages
      BY <1>1, <1>4, <2>1, <2>3, <2>4 DEF WindowType
    <3>5. QED
      BY <1>1, <1>8, <1>14, <1>17, <3>2, <3>3, <3>4 DEF WindowType
  <2>7. Apart'
    <3>1. \A m \in maps : Pages(m) \cap Pages(q) = {}
      BY <1>1, <1>2, <2>5 DEF Apart
    <3>2. \A m, n \in maps' : Pages(m) \cap Pages(n) # {} => m = n
      BY <1>1, <2>1, <2>3, <3>1 DEF Apart
    <3>3. \A d \in Client : \A m \in maps' : Pages(m) \cap Pages(calls'[d]) = {}
      <4>1. TAKE d \in Client
      <4>2. TAKE m \in maps'
      <4>3. CASE d = c
        BY <2>2, <2>5, <4>3
      <4>4. CASE d # c
        BY <1>1, <1>2, <2>1, <2>2, <2>3, <2>5, <4>4 DEF Apart
      <4>5. QED
        BY <4>3, <4>4
    <3>4. \A d, e \in Client : Pages(calls'[d]) \cap Pages(calls'[e]) # {} => d = e
      BY <1>1, <2>2, <2>5 DEF Apart
    <3>5. \A m \in maps' : Pages(m) \subseteq bits'
      BY <1>1, <1>2, <1>8, <2>1, <2>3, <2>5 DEF Apart
    <3>6. \A d \in Client : Pages(calls'[d]) \subseteq bits'
      BY <1>1, <1>8, <2>2, <2>5 DEF Apart
    <3>7. QED
      BY <3>2, <3>3, <3>4, <3>5, <3>6 DEF Apart
  <2>8. WindowAccounted'
    <3>1. Each(bits', maps', calls', lost')
      <4>1. SUFFICES ASSUME NEW x \in bits'
                     PROVE  \/ \E m \in maps' : x \in Pages(m)
                            \/ \E d \in Client : x \in Pages(calls'[d])
                            \/ x \in lost'
        BY Zenon DEF Each
      <4>2. \/ \E m \in maps : x \in Pages(m)
            \/ \E d \in Client : x \in Pages(calls[d])
            \/ x \in lost
        BY <1>1, <1>8, <4>1, AccountedEach DEF Each
      <4>3. q \in maps' /\ maps \subseteq maps'
        BY <2>1, <2>3
      <4>4. ASSUME NEW d \in Client, x \in Pages(calls[d])
            PROVE  x \in Pages(q) \/ x \in Pages(calls'[d])
        BY <1>2, <2>2, <2>5, <4>4
      <4>5. QED
        BY <1>8, <4>2, <4>3, <4>4
    <3>2. QED
      BY <3>1, AccountedNext
  <2>9. Leading'
    <3>1. ASSUME NEW d \in Client, calls'[d].op = "map", NEW i \in 0 .. calls'[d].at - 1
          PROVE  Leads(calls[d].start + i, Device + i)'
      <4>1. d # c
        BY <2>2, <3>1 DEF NoCall
      <4>2. calls'[d] = calls[d]
        BY <2>2, <4>1
      <4>3. PICK w : w = calls[d].start + i
        OBVIOUS
      <4>4. Leads(w, Device + i)'
        BY <1>15, <3>1, <4>1, <4>2, <4>3
      <4>5. QED
        BY <4>2, <4>3, <4>4 DEF Leads
    <3>2. ASSUME NEW m \in maps', NEW i \in 0 .. m.n - 1
          PROVE  Leads(m.start + i, Device + i)'
      <4>1. CASE m = q
        <5>1. i \in 0 .. k.at /\ m.start + i = k.start + i
          BY <1>3, <1>4, <1>19, <2>4, <3>2, <4>1
        <5>2. PICK w : w = k.start + i
          OBVIOUS
        <5>3. Leads(w, Device + i)'
          BY <1>16, <5>1, <5>2
        <5>4. QED
          BY <5>1, <5>2, <5>3
      <4>2. CASE m \in maps
        BY <1>15, <3>2, <4>2
      <4>3. QED
        BY <2>1, <2>3, <4>1, <4>2
    <3>3. QED
      BY <1>15, <3>1, <3>2 DEF Leading
  <2>10. QED
    BY <2>6, <2>7, <2>8, <2>9 DEF WInv
<1>20. QED
  BY <1>18, <1>19

\* A call that ends, having cleared some of its own bits; its pages may have
\* been unmapped.
LEMMA CallEnds ==
    ASSUME WInv, NEW c \in Client, calls[c] # NoCall,
           calls' = [calls EXCEPT ![c] = NoCall],
           UNCHANGED <<heap, maps>>,
           pte' \in [Page -> Nat \cup {Unmapped}],
           NEW S \in SUBSET Pages(calls[c]),
           \A w \in Page : \A p : w \notin S /\ Leads(w, p) => Leads(w, p)',
           NEW B \in SUBSET Pages(calls[c]), bits' = bits \ B,
           lost' = lost \cup (Pages(calls[c]) \ B)
    PROVE  WInv'
<1>1. WindowType /\ Apart /\ Leading /\ WindowAccounted
  BY DEF WInv
<1>2. calls'[c] = NoCall /\ \A d \in Client : d # c => calls'[d] = calls[d]
  BY <1>1 DEF WindowType
<1>3. /\ Pages(NoCall) = {}
      /\ Pages(calls[c]) \subseteq Window
  BY <1>1, PagesFacts
<1>4. WindowType'
  <2>1. NoCall \in Call /\ CallOK(NoCall)
    BY MemoryAssumption DEF NoCall, Call, CallOK, Window
  <2>2. calls' \in [Client -> Call]
    BY <1>1, <2>1 DEF WindowType
  <2>3. \A d \in Client : CallOK(calls'[d])
    BY <1>1, <1>2, <2>1 DEF WindowType
  <2>4. HeapDense'
    BY <1>1 DEF WindowType, HeapDense
  <2>5. QED
    BY <1>1, <1>3, <2>2, <2>3, <2>4 DEF WindowType
<1>5. Apart'
  <2>1. \A m \in maps : Pages(m) \subseteq bits'
    BY <1>1 DEF Apart
  <2>2. \A d \in Client : Pages(calls'[d]) \subseteq bits'
    <3>1. TAKE d \in Client
    <3>2. CASE d = c
      BY <1>2, <1>3, <3>2
    <3>3. CASE d # c
      BY <1>1, <1>2, <3>3 DEF Apart
    <3>4. QED
      BY <3>2, <3>3
  <2>3. \A d \in Client : \A m \in maps : Pages(m) \cap Pages(calls'[d]) = {}
    BY <1>1, <1>2, <1>3 DEF Apart
  <2>4. \A d, e \in Client : Pages(calls'[d]) \cap Pages(calls'[e]) # {} => d = e
    BY <1>1, <1>2, <1>3 DEF Apart
  <2>5. QED
    BY <1>1, <2>1, <2>2, <2>3, <2>4 DEF Apart
<1>6. WindowAccounted'
  <2>1. Each(bits', maps', calls', lost')
    <3>1. SUFFICES ASSUME NEW x \in bits'
                   PROVE  \/ \E m \in maps' : x \in Pages(m)
                          \/ \E d \in Client : x \in Pages(calls'[d])
                          \/ x \in lost'
      BY Zenon DEF Each
    <3>2. x \in bits /\ x \notin B
      BY <3>1
    <3>3. \/ \E m \in maps : x \in Pages(m)
          \/ \E d \in Client : x \in Pages(calls[d])
          \/ x \in lost
      BY <1>1, <3>2, AccountedEach DEF Each
    <3>4. ASSUME NEW d \in Client, x \in Pages(calls[d])
          PROVE  x \in lost' \/ x \in Pages(calls'[d])
      BY <1>2, <3>2, <3>4
    <3>5. QED
      BY <3>3, <3>4
  <2>2. QED
    BY <2>1, AccountedNext
<1>7. Leading'
  <2>1. /\ \A m \in maps : \A i \in 0 .. m.n - 1 : Leads(m.start + i, Device + i)'
        /\ \A d \in Client : d # c /\ calls[d].op = "map" =>
             \A i \in 0 .. calls[d].at - 1 :
                 \A w : w = calls[d].start + i => Leads(w, Device + i)'
        /\ \A w \in DOMAIN heap' : Leads(w, heap[w])'
    BY OthersLead
  <2>2. ASSUME NEW d \in Client, calls'[d].op = "map", NEW i \in 0 .. calls'[d].at - 1
        PROVE  Leads(calls[d].start + i, Device + i)'
    <3>1. d # c
      BY <1>2, <2>2 DEF NoCall
    <3>2. calls'[d] = calls[d]
      BY <1>2, <3>1
    <3>3. PICK w : w = calls[d].start + i
      OBVIOUS
    <3>4. Leads(w, Device + i)'
      BY <2>1, <2>2, <3>1, <3>2, <3>3
    <3>5. QED
      BY <3>2, <3>3, <3>4 DEF Leads
  <2>3. QED
    BY <2>1, <2>2 DEF Leading
<1>8. QED
  BY <1>4, <1>5, <1>6, <1>7 DEF WInv

\* The page that a call has come to is one of the window.
LEMMA HereInPage ==
    ASSUME WindowType, NEW c \in Client, Doing(c, "map")
    PROVE  Here(c) \in Page
<1>1. calls[c] # NoCall
  BY DEF Doing, NoCall
<1>2. PICK k : k = calls[c]
  OBVIOUS
<1>3. k.start \in Nat /\ k.n \in Nat /\ k.at \in Nat /\ k.start + k.n <= WindowPages
  BY <1>1, <1>2, CallFacts
<1>4. k.at < k.n /\ Here(c) = k.start + k.at
  BY <1>2 DEF Doing, Here
<1>5. QED
  BY <1>3, <1>4, MemoryAssumption DEF Page

\* A step within a call that maps no further page of it.
LEMMA CallGoesOn ==
    ASSUME WInv, NEW c \in Client, calls[c] # NoCall,
           NEW j \in Call, j.op # "map", CallOK(j), Pages(j) = Pages(calls[c]),
           calls' = [calls EXCEPT ![c] = j],
           UNCHANGED <<heap, bits, maps, lost>>,
           pte' \in [Page -> Nat \cup {Unmapped}],
           NEW X \in SUBSET Pages(calls[c]),
           \A w \in Page : \A p : w \notin X /\ Leads(w, p) => Leads(w, p)'
    PROVE  WInv'
<1>1. WindowType /\ Apart /\ Leading /\ WindowAccounted
  BY DEF WInv
<1>2. calls'[c] = j /\ \A d \in Client : d # c => calls'[d] = calls[d]
  BY <1>1 DEF WindowType
<1>3. \A d \in Client : Pages(calls'[d]) = Pages(calls[d])
  BY <1>2
<1>4. WindowType'
  <2>1. calls' \in [Client -> Call]
    BY <1>1 DEF WindowType
  <2>2. \A d \in Client : CallOK(calls'[d])
    BY <1>1, <1>2 DEF WindowType
  <2>3. HeapDense'
    BY <1>1 DEF WindowType, HeapDense
  <2>4. QED
    BY <1>1, <2>1, <2>2, <2>3 DEF WindowType
<1>5. Apart'
  BY <1>1, <1>3 DEF Apart
<1>6. WindowAccounted'
  BY <1>1, <1>3, AccountedEach, AccountedNext DEF Each
<1>7. /\ \A m \in maps : \A i \in 0 .. m.n - 1 : Leads(m.start + i, Device + i)'
      /\ \A d \in Client : d # c /\ calls[d].op = "map" =>
           \A i \in 0 .. calls[d].at - 1 :
               \A w : w = calls[d].start + i => Leads(w, Device + i)'
      /\ \A w \in DOMAIN heap' : Leads(w, heap[w])'
  BY OthersLead
<1>8. Leading'
  <2>1. ASSUME NEW d \in Client, calls'[d].op = "map", NEW i \in 0 .. calls'[d].at - 1
        PROVE  Leads(calls[d].start + i, Device + i)'
    <3>1. d # c
      BY <1>2, <2>1
    <3>2. calls'[d] = calls[d]
      BY <1>2, <3>1
    <3>3. PICK w : w = calls[d].start + i
      OBVIOUS
    <3>4. Leads(w, Device + i)'
      BY <1>7, <2>1, <3>1, <3>2, <3>3
    <3>5. QED
      BY <3>2, <3>3, <3>4 DEF Leads
  <2>2. QED
    BY <1>7, <2>1 DEF Leading
<1>9. QED
  BY <1>4, <1>5, <1>6, <1>8 DEF WInv

\* A mapping that fails.
LEMMA MapFailedWindow ==
    ASSUME Inv, NEW c \in Client, MapFailed(c)
    PROVE  WInv'
<1>1. WindowType /\ WInv /\ FInv
  BY DEF Inv, WInv
<1>2. PICK k \in Call : k = calls[c]
  BY <1>1 DEF WindowType
<1>3. k.op = "map" /\ k.at < k.n /\ calls[c] # NoCall
  BY <1>2 DEF MapFailed, Doing, NoCall
<1>4. /\ k.start \in Nat /\ k.n \in Nat /\ k.at \in Nat /\ k.n > 0
      /\ k.start + k.n <= WindowPages
  BY <1>1, <1>2, <1>3, CallFacts
<1>5. PICK v \in Page : v = Here(c)
  BY <1>1, HereInPage DEF MapFailed
<1>6. PICK D \in SUBSET Level : MapFails(Free, v, D) /\ pte' = Cleared(v, D)
  BY <1>5 DEF MapFailed
<1>7. PICK g \in [D -> Free] : WithTables(v, D, g)
  BY <1>6 DEF MapFails
<1>8. D \in SUBSET Missing(v) /\ Free \in SUBSET Free
  BY <1>6 DEF MapFails
<1>9. PICK X \in SUBSET Pages(calls[c]) : X = {}
  OBVIOUS
<1>10. \A w \in Page : \A p : w \notin X /\ Leads(w, p) => Leads(w, p)'
  <2>1. TAKE w \in Page
  <2>2. TAKE p
  <2>3. SUFFICES ASSUME Leads(w, p) PROVE Leads(w, p)'
    OBVIOUS
  <2>4. (\A l \in Level : table'[Covers(l, w)] # 0) /\ Cleared(v, D)[w] = p
    BY <1>1, <1>7, <1>8, <2>3, LeadsKept
  <2>5. QED
    BY <1>6, <2>4 DEF Leads
<1>11. pte' \in [Page -> Nat \cup {Unmapped}]
  BY <1>1, <1>6, ClearedType DEF WindowType
<1>12. PICK j : j = [k EXCEPT !.op = "undo"]
  OBVIOUS
<1>13. j \in Call /\ j.op = "undo" /\ j.start = k.start /\ j.n = k.n /\ j.at = k.at
  BY <1>12 DEF Call
<1>14. CallOK(j) /\ Pages(j) = Pages(calls[c])
  BY <1>2, <1>3, <1>4, <1>13 DEF CallOK, Pages
<1>15. calls' = [calls EXCEPT ![c] = j] /\ UNCHANGED <<heap, bits, maps, lost>>
  BY <1>2, <1>12 DEF MapFailed
<1>16. j.op # "map"
  BY <1>13
<1>17. QED
  BY <1>1, <1>3, <1>10, <1>11, <1>13, <1>14, <1>15, <1>16, CallGoesOn

\* What it has mapped is unmapped.
LEMMA MapUndoWindow ==
    ASSUME Inv, NEW c \in Client, MapUndo(c)
    PROVE  WInv'
<1>1. WindowType /\ WInv
  BY DEF Inv, WInv
<1>2. PICK k \in Call : k = calls[c]
  BY <1>1 DEF WindowType
<1>3. k.op = "undo" /\ k.at < k.n /\ calls[c] # NoCall
  BY <1>2 DEF MapUndo, Doing, NoCall
<1>4. k.start \in Nat /\ k.n \in Nat /\ k.at \in Nat
  BY <1>1, <1>2, <1>3, CallFacts
<1>5. PICK v : v = k.start + k.at
  OBVIOUS
<1>6. PICK S : S = k.start .. v - 1
  OBVIOUS
<1>7. v \in Pages(k) /\ S \subseteq Pages(k)
  BY <1>3, <1>4, <1>5, <1>6 DEF Pages
<1>8. Here(c) = v /\ Done(c) = S
  BY <1>2, <1>5, <1>6 DEF Here, Done
<1>9. /\ pte' = [w \in Page |-> IF w \in S THEN Unmapped ELSE pte[w]]
      /\ calls' = [calls EXCEPT ![c] = NoCall]
      /\ UNCHANGED <<table, heap, maps>>
      /\ bits' = bits \ (S \cup {v})
      /\ lost' = lost \cup (Pages(k) \ (S \cup {v}))
  BY <1>2, <1>8 DEF MapUndo
<1>10. \A w \in Page : \A p : w \notin S /\ Leads(w, p) => Leads(w, p)'
  BY <1>9 DEF Leads
<1>11. pte' \in [Page -> Nat \cup {Unmapped}]
  BY <1>1, <1>9 DEF WindowType
<1>12. PICK B \in SUBSET Pages(calls[c]) : B = S \cup {v}
  BY <1>2, <1>7
<1>13. /\ S \in SUBSET Pages(calls[c]) /\ bits' = bits \ B
       /\ lost' = lost \cup (Pages(calls[c]) \ B)
  BY <1>2, <1>7, <1>9, <1>12
<1>14. QED
  BY <1>1, <1>3, <1>9, <1>10, <1>11, <1>13, CallEnds

\* The end of vmm_unmap_physical.
LEMMA UnmapReturnsWindow ==
    ASSUME Inv, NEW c \in Client, UnmapReturns(c)
    PROVE  WInv'
<1>1. WInv /\ WindowType
  BY DEF Inv, WInv
<1>2. /\ calls' = [calls EXCEPT ![c] = NoCall] /\ calls[c] # NoCall
      /\ UNCHANGED <<heap, maps, pte, table, lost>>
      /\ bits' = bits \ Pages(calls[c])
  BY DEF UnmapReturns, paging, NoCall
<1>3. \A w \in Page : \A p : w \notin {} /\ Leads(w, p) => Leads(w, p)'
  BY <1>2 DEF Leads
<1>4. pte' \in [Page -> Nat \cup {Unmapped}]
  BY <1>1, <1>2 DEF WindowType
<1>5. PICK B \in SUBSET Pages(calls[c]), S \in SUBSET Pages(calls[c]) :
        B = Pages(calls[c]) /\ S = {}
  OBVIOUS
<1>6. lost' = lost \cup (Pages(calls[c]) \ B) /\ bits' = bits \ B
  BY <1>2, <1>5
<1>7. QED
  BY <1>1, <1>2, <1>3, <1>4, <1>5, <1>6, CallEnds

\* A call of vmm_unmap_physical takes over the pages of a mapping.
LEMMA UnmapCallWindow ==
    ASSUME Inv, NEW c \in Client, NEW m \in maps, UnmapCall(c, m)
    PROVE  WInv'
<1>1. WindowType /\ Apart /\ Leading /\ WindowAccounted
  BY DEF Inv, WInv
<1>2. PICK k : k = [op |-> "unmap", start |-> m.start, n |-> m.n, at |-> 0]
  OBVIOUS
<1>3. /\ calls[c] = NoCall /\ calls' = [calls EXCEPT ![c] = k] /\ maps' = maps \ {m}
      /\ UNCHANGED <<pte, table, heap, bits, lost>>
  BY <1>2 DEF UnmapCall, paging
<1>4. /\ m.start \in Window /\ m.start \in Nat /\ m.n \in 1 .. MaxCount /\ m.n \in Nat
      /\ m.start + m.n <= WindowPages
  BY <1>1, MemoryAssumption DEF WindowType, Window
<1>5. k.op = "unmap" /\ k.start = m.start /\ k.n = m.n /\ k.at = 0
  BY <1>2
<1>6. Pages(k) = Pages(m) /\ Pages(NoCall) = {}
  BY <1>5 DEF Pages, NoCall
<1>7. calls'[c] = k /\ \A d \in Client : d # c => calls'[d] = calls[d]
  BY <1>1, <1>3 DEF WindowType
<1>8. WindowType'
  <2>1. k \in Call
    BY <1>2, <1>4, MemoryAssumption DEF Call
  <2>2. calls' \in [Client -> Call]
    BY <1>1, <1>3, <2>1 DEF WindowType
  <2>3. CallOK(k)
    BY <1>4, <1>5 DEF CallOK
  <2>4. \A d \in Client : CallOK(calls'[d])
    BY <1>1, <1>7, <2>3 DEF WindowType
  <2>5. HeapDense'
    BY <1>1, <1>3 DEF WindowType, HeapDense
  <2>6. QED
    BY <1>1, <1>3, <2>2, <2>4, <2>5 DEF WindowType
<1>9. Apart'
  <2>1. \A j \in maps' : j \in maps /\ Pages(j) \cap Pages(k) = {}
    BY <1>1, <1>3, <1>6 DEF Apart
  <2>2. \A d \in Client : d # c => Pages(calls[d]) \cap Pages(k) = {}
    BY <1>1, <1>6 DEF Apart
  <2>3. \A d \in Client : \A j \in maps' : Pages(j) \cap Pages(calls'[d]) = {}
    BY <1>1, <1>7, <2>1 DEF Apart
  <2>4. \A d, e \in Client : Pages(calls'[d]) \cap Pages(calls'[e]) # {} => d = e
    <3>1. TAKE d, e \in Client
    <3>2. CASE d = c /\ e # c
      BY <1>7, <2>2, <3>2
    <3>3. CASE d # c /\ e = c
      BY <1>7, <2>2, <3>3
    <3>4. CASE d # c /\ e # c
      BY <1>1, <1>7, <3>4 DEF Apart
    <3>5. QED
      BY <3>2, <3>3, <3>4
  <2>5. \A d \in Client : Pages(calls'[d]) \subseteq bits'
    BY <1>1, <1>3, <1>6, <1>7 DEF Apart
  <2>6. QED
    BY <1>1, <1>3, <2>1, <2>3, <2>4, <2>5 DEF Apart
<1>10. WindowAccounted'
  <2>1. Each(bits', maps', calls', lost')
    <3>1. SUFFICES ASSUME NEW x \in bits'
                   PROVE  \/ \E j \in maps' : x \in Pages(j)
                          \/ \E d \in Client : x \in Pages(calls'[d])
                          \/ x \in lost'
      BY Zenon DEF Each
    <3>2. \/ \E j \in maps : x \in Pages(j)
          \/ \E d \in Client : x \in Pages(calls[d])
          \/ x \in lost
      BY <1>1, <1>3, <3>1, AccountedEach DEF Each
    <3>3. ASSUME NEW j \in maps, x \in Pages(j)
          PROVE  j \in maps' \/ x \in Pages(calls'[c])
      BY <1>3, <1>6, <1>7, <3>3
    <3>4. ASSUME NEW d \in Client, x \in Pages(calls[d])
          PROVE  x \in Pages(calls'[d])
      BY <1>3, <1>6, <1>7, <3>4
    <3>5. QED
      BY <1>3, <3>2, <3>3, <3>4
  <2>2. QED
    BY <2>1, AccountedNext
<1>11. Leading'
  <2>1. \A v, p : Leads(v, p) => Leads(v, p)'
    BY <1>3 DEF Leads
  <2>2. ASSUME NEW d \in Client, calls'[d].op = "map", NEW i \in 0 .. calls'[d].at - 1
        PROVE  Leads(calls[d].start + i, Device + i)'
    <3>1. d # c
      BY <1>5, <1>7, <2>2
    <3>2. calls'[d] = calls[d]
      BY <1>7, <3>1
    <3>3. Leads(calls[d].start + i, Device + i)
      BY <1>1, <2>2, <3>2 DEF Leading
    <3>4. QED
      BY <1>3, <3>2, <3>3 DEF Leads
  <2>3. \A j \in maps' : \A i \in 0 .. j.n - 1 : Leads(j.start + i, Device + i)'
    BY <1>1, <1>3, <2>1 DEF Leading
  <2>4. \A v \in DOMAIN heap' : Leads(v, heap[v])'
    BY <1>1, <1>3 DEF Leading, Leads
  <2>5. QED
    BY <2>2, <2>3, <2>4 DEF Leading
<1>12. QED
  BY <1>8, <1>9, <1>10, <1>11 DEF WInv

\* It unmaps its own pages only.
LEMMA UnmapStepWindow ==
    ASSUME Inv, NEW c \in Client, UnmapStep(c)
    PROVE  WInv'
<1>1. WindowType /\ Apart /\ Leading /\ WindowAccounted /\ WInv
  BY DEF Inv, WInv
<1>2. PICK k \in Call : k = calls[c]
  BY <1>1 DEF WindowType
<1>3. k.op = "unmap" /\ k.at < k.n /\ calls[c] # NoCall
  BY <1>2 DEF UnmapStep, Doing, NoCall
<1>4. /\ k.start \in Nat /\ k.n \in Nat /\ k.at \in Nat /\ k.n > 0 /\ k.n <= MaxCount
      /\ k.start + k.n <= WindowPages
  BY <1>1, <1>2, <1>3, CallFacts
<1>5. PICK v : v = k.start + k.at
  OBVIOUS
<1>6. v \in Pages(k)
  BY <1>3, <1>4, <1>5 DEF Pages
<1>7. /\ pte' = [pte EXCEPT ![v] = Unmapped]
      /\ calls' = [calls EXCEPT ![c].at = @ + 1]
      /\ UNCHANGED <<table, heap, bits, maps, lost>>
  BY <1>2, <1>5 DEF UnmapStep, Here
<1>8. PICK j : j = [k EXCEPT !.at = k.at + 1]
  OBVIOUS
<1>9. j.op = "unmap" /\ j.start = k.start /\ j.n = k.n /\ j.at = k.at + 1 /\ j \in Call
  BY <1>2, <1>3, <1>4, <1>8, MemoryAssumption DEF Call
<1>10. CallOK(j) /\ Pages(j) = Pages(calls[c]) /\ j.op # "map"
  BY <1>2, <1>3, <1>4, <1>9 DEF CallOK, Pages
<1>11. calls' = [calls EXCEPT ![c] = j]
  BY <1>2, <1>7, <1>8
<1>12. PICK X \in SUBSET Pages(calls[c]) : X = {v}
  BY <1>2, <1>6
<1>13. \A w \in Page : \A p : w \notin X /\ Leads(w, p) => Leads(w, p)'
  BY <1>1, <1>7, <1>12 DEF Leads, WindowType
<1>14. pte' \in [Page -> Nat \cup {Unmapped}]
  BY <1>1, <1>7 DEF WindowType
<1>15. QED
  BY <1>1, <1>3, <1>7, <1>9, <1>10, <1>11, <1>13, <1>14, CallGoesOn

-----------------------------------------------------------------------------
(***************************************************************************)
(* Inv is inductive.                                                       *)
(***************************************************************************)
LEMMA InitInv == Init => Inv
<1>1. SUFFICES ASSUME Init PROVE Inv
  OBVIOUS
<1>2. WindowPages \in Nat \ {0} /\ MaxCount \in Nat \ {0}
  BY MemoryAssumption
<1>3. NoCall \in Call /\ Pages(NoCall) = {}
  BY <1>2 DEF NoCall, Call, Pages, Window
<1>4. FInv
  <2>1. FrameType
    BY <1>1, AtBootFrames, ZeroAtBoot DEF Init, FrameType
  <2>2. \A t \in Table : table[t] = 0
    BY <1>1 DEF Init
  <2>3. DOMAIN heap = {} /\ given = {} /\ used = AtBoot
    BY <1>1 DEF Init
  <2>4. OneUse
    BY <2>2, <2>3 DEF OneUse
  <2>5. QED
    BY <2>1, <2>4 DEF FInv
<1>5. /\ \A c \in Client : calls[c] = NoCall
      /\ calls \in [Client -> Call]
      /\ maps = {} /\ bits = {} /\ lost = {} /\ DOMAIN heap = {}
      /\ pte \in [Page -> Nat \cup {Unmapped}]
  BY <1>1, <1>3 DEF Init, Unmapped
<1>6. HeapDense
  <2>1. 0 \in Nat /\ WindowPages .. WindowPages + 0 - 1 = {}
    BY <1>2
  <2>2. QED
    BY <1>5, <2>1 DEF HeapDense
<1>7. WindowType
  BY <1>5, <1>6 DEF WindowType, CallOK
<1>8. Apart
  BY <1>3, <1>5 DEF Apart
<1>9. Leading
  <2>1. \A c \in Client : calls[c].op # "map"
    BY <1>5 DEF NoCall
  <2>2. QED
    BY <1>5, <2>1 DEF Leading
<1>10. WindowAccounted
  BY <1>5 DEF WindowAccounted
<1>11. QED
  BY <1>4, <1>7, <1>8, <1>9, <1>10 DEF Inv, WInv

\* Steps of pmm.c leave the window alone, and steps of the window that map
\* nothing leave the frames alone.
LEMMA WindowUntouched ==
    ASSUME WInv, UNCHANGED <<paging, heap, window>>
    PROVE  WInv'
<1>1. /\ table' = table /\ pte' = pte /\ heap' = heap
      /\ bits' = bits /\ calls' = calls /\ maps' = maps /\ lost' = lost
  BY DEF paging, window
<1>2. WindowType' /\ Apart' /\ WindowAccounted'
  BY <1>1 DEF WInv, WindowType, HeapDense, Apart, WindowAccounted
<1>3. Leading'
  BY <1>1 DEF WInv, Leading, Leads
<1>4. QED
  BY <1>2, <1>3 DEF WInv

LEMMA FramesUntouched ==
    ASSUME FInv, UNCHANGED <<pmm, table, heap>>
    PROVE  FInv'
BY DEF pmm, FInv, FrameType, OneUse

LEMMA NextInv == Inv /\ [Next]_vars => Inv'
<1>1. SUFFICES ASSUME Inv, [Next]_vars PROVE Inv'
  OBVIOUS
<1>2. FInv /\ WInv /\ WindowType
  BY <1>1 DEF Inv, WInv
<1>3. CASE UNCHANGED vars
  <2>1. UNCHANGED <<pmm, table, heap>> /\ UNCHANGED <<paging, heap, window>>
    BY <1>3 DEF vars, pmm, paging, window
  <2>2. QED
    BY <1>2, <2>1, WindowUntouched, FramesUntouched DEF Inv
<1>4. ASSUME NEW n \in 1 .. MaxCount, NEW a \in Align, AllocFrames(n, a) PROVE Inv'
  <2>1. PICK f \in Frame : /\ FirstRun(n, a, f) /\ Take(f .. f + n - 1)
                           /\ given' = given \cup f .. f + n - 1
    BY <1>4 DEF AllocFrames
  <2>2. UNCHANGED <<paging, heap, window>>
    BY <1>4 DEF AllocFrames
  <2>3. PICK B \in SUBSET Free : B = f .. f + n - 1
    BY <2>1 DEF FirstRun, Runs
  <2>4. Take(B) /\ given' = given \cup B /\ UNCHANGED <<table, heap>>
    BY <2>1, <2>2, <2>3 DEF paging
  <2>5. FInv'
    BY <1>2, <2>4, GiveKeeps
  <2>6. QED
    BY <1>2, <2>2, <2>5, WindowUntouched DEF Inv
<1>5. ASSUME NEW f \in Frame, NEW n \in 1 .. MaxCount, AllocAt(f, n) PROVE Inv'
  <2>1. PICK B \in SUBSET Free : B = f .. f + n - 1
    BY <1>5 DEF AllocAt
  <2>2. UNCHANGED <<paging, heap, window>>
    BY <1>5 DEF AllocAt
  <2>3. Take(B) /\ given' = given \cup B /\ UNCHANGED <<table, heap>>
    BY <1>5, <2>1 DEF AllocAt, paging
  <2>4. FInv'
    BY <1>2, <2>3, GiveKeeps
  <2>5. QED
    BY <1>2, <2>2, <2>4, WindowUntouched DEF Inv
<1>6. ASSUME NEW f \in Frame, NEW n \in 1 .. MaxCount, FreeFrames(f, n) PROVE Inv'
  <2>1. PICK B \in SUBSET (given \cup Free) : B = f .. f + n - 1
    BY <1>6 DEF FreeFrames
  <2>2. UNCHANGED <<paging, heap, window>>
    BY <1>6 DEF FreeFrames
  <2>3. /\ used' = used \ B /\ count' = count - Cardinality(B \cap used)
        /\ given' = given \ B /\ UNCHANGED <<table, heap>>
    BY <1>6, <2>1 DEF FreeFrames, paging
  <2>4. FInv'
    BY <1>2, <2>3, FreeKeeps
  <2>5. QED
    BY <1>2, <2>2, <2>4, WindowUntouched DEF Inv
<1>7. CASE CommitPage
  <2>1. FInv'
    BY <1>2, <1>7, CommitKeeps DEF WindowType
  <2>2. QED
    BY <1>1, <1>7, <2>1, CommitPageWindow DEF Inv
<1>8. CASE CommitFails
  <2>1. PICK f \in Free, v \in Page, D \in SUBSET Level :
          MapFails(Free \ {f}, v, D) /\ Take(Free \ {f})
    BY <1>8 DEF CommitFails
  <2>2. given' = given /\ heap' = heap
    BY <1>8 DEF CommitFails
  <2>3. PICK F \in SUBSET Free : F = Free \ {f}
    OBVIOUS
  <2>4. MapFails(F, v, D) /\ Take(F)
    BY <2>1, <2>3
  <2>5. FInv'
    BY <1>2, <2>2, <2>4, MapFailsKeeps
  <2>6. QED
    BY <1>1, <1>8, <2>5, CommitFailsWindow DEF Inv
<1>9. ASSUME NEW c \in Client, NEW n \in 1 .. MaxCount, MapCall(c, n) PROVE Inv'
  <2>1. UNCHANGED <<pmm, table, heap>>
    BY <1>9 DEF MapCall, paging
  <2>2. QED
    BY <1>1, <1>2, <1>9, <2>1, FramesUntouched, MapCallWindow DEF Inv
<1>10. ASSUME NEW c \in Client, MapStep(c) PROVE Inv'
  <2>1. PICK T \in SUBSET Free : MapPage(Free, Here(c), Device + calls[c].at, T) /\ Take(T)
    BY <1>10 DEF MapStep
  <2>2. PICK v \in Page : v = Here(c)
    BY <1>2, <1>10, HereInPage DEF MapStep
  <2>3. PICK p : p = Device + calls[c].at
    OBVIOUS
  <2>4. MapPage(Free, v, p, T)
    BY <2>1, <2>2, <2>3
  <2>5. given' = given /\ heap' = heap
    BY <1>10 DEF MapStep
  <2>6. FInv'
    BY <1>2, <2>1, <2>4, <2>5, MapKeeps
  <2>7. QED
    BY <1>1, <1>10, <2>6, MapStepWindow DEF Inv
<1>11. ASSUME NEW c \in Client, MapFailed(c) PROVE Inv'
  <2>1. PICK D \in SUBSET Level : MapFails(Free, Here(c), D) /\ Take(Free)
    BY <1>11 DEF MapFailed
  <2>2. PICK v \in Page : v = Here(c)
    BY <1>2, <1>11, HereInPage DEF MapFailed
  <2>3. PICK F \in SUBSET Free : F = Free
    OBVIOUS
  <2>4. MapFails(F, v, D) /\ Take(F)
    BY <2>1, <2>2, <2>3
  <2>5. given' = given /\ heap' = heap
    BY <1>11 DEF MapFailed
  <2>6. FInv'
    BY <1>2, <2>4, <2>5, MapFailsKeeps
  <2>7. QED
    BY <1>1, <1>11, <2>6, MapFailedWindow DEF Inv
<1>12. ASSUME NEW c \in Client, MapUndo(c) PROVE Inv'
  <2>1. UNCHANGED <<pmm, table, heap>>
    BY <1>12 DEF MapUndo
  <2>2. QED
    BY <1>1, <1>2, <1>12, <2>1, FramesUntouched, MapUndoWindow DEF Inv
<1>13. ASSUME NEW c \in Client, NEW m \in maps, UnmapCall(c, m) PROVE Inv'
  <2>1. UNCHANGED <<pmm, table, heap>>
    BY <1>13 DEF UnmapCall, paging
  <2>2. QED
    BY <1>1, <1>2, <1>13, <2>1, FramesUntouched, UnmapCallWindow DEF Inv
<1>14. ASSUME NEW c \in Client, UnmapStep(c) PROVE Inv'
  <2>1. UNCHANGED <<pmm, table, heap>>
    BY <1>14 DEF UnmapStep
  <2>2. QED
    BY <1>1, <1>2, <1>14, <2>1, FramesUntouched, UnmapStepWindow DEF Inv
<1>15. ASSUME NEW c \in Client, UnmapReturns(c) PROVE Inv'
  <2>1. UNCHANGED <<pmm, table, heap>>
    BY <1>15 DEF UnmapReturns, paging
  <2>2. QED
    BY <1>1, <1>2, <1>15, <2>1, FramesUntouched, UnmapReturnsWindow DEF Inv
<1>16. QED
  BY <1>1, <1>3, <1>4, <1>5, <1>6, <1>7, <1>8, <1>9, <1>10, <1>11, <1>12, <1>13, <1>14,
     <1>15
  DEF Next

LEMMA InvAlways == Spec => []Inv
BY InitInv, NextInv, PTL DEF Spec

-----------------------------------------------------------------------------
\* The state of the frame allocator, the page tables and the window has its
\* types: the search of find_free_run never leaves the window.
THEOREM MemoryTypeCorrect == Spec => []TypeOK
<1>1. Inv => TypeOK
  BY InvImplies
<1>2. QED
  BY <1>1, InvAlways, PTL

\* used_frames is the number of set bits of the bitmap, whatever is
\* allocated, freed twice or half mapped.
THEOREM MemoryCount == Spec => []CountExact
<1>1. Inv => CountExact
  BY InvImplies
<1>2. QED
  BY <1>1, InvAlways, PTL

\* No frame has two uses among boot reservations, page tables, heap pages and
\* allocations, also after map_page ran out of frames half way.
THEOREM MemoryExclusive == Spec => []FramesExclusive
<1>1. Inv => FramesExclusive
  BY InvImplies
<1>2. QED
  BY <1>1, InvAlways, PTL

\* Mappings of the window keep leading to what they were made for while other
\* clients map and unmap between the pages of a call.
THEOREM MemoryWindow == Spec => []WindowIntact
<1>1. Inv => WindowIntact
  BY InvImplies
<1>2. QED
  BY <1>1, InvAlways, PTL

\* Window pages are lost by failed calls of vmm_map_physical only.
THEOREM MemoryAccounted == Spec => []WindowAccounted
<1>1. Inv => WindowAccounted
  BY InvImplies
<1>2. QED
  BY <1>1, InvAlways, PTL

-----------------------------------------------------------------------------
(***************************************************************************)
(* The search of pmm_alloc_aligned.  It is a loop written as a recursion   *)
(* on the frame it has come to, and that frame only grows: the recursion   *)
(* is well founded, and behind a used frame no run that contains it is     *)
(* passed over.                                                            *)
(***************************************************************************)
Ind == INSTANCE FoldLemmas WITH op <- LAMBDA x, y : x

FreesFrom(i) == {f \in Free : f >= i}
Lowest(S) == CHOOSE x \in S : \A y \in S : x <= y
AlignUp(f, a) == ((f + a - 1) \div a) * a
At(i, a) == AlignUp(Lowest(FreesFrom(i)), a)
Bad(i, n, a) == {j \in 0 .. n - 1 : At(i, a) + j \in used}
Over(i, n, a) == FreesFrom(i) = {} \/ At(i, a) + n > Total
Behind(i, n, a) == At(i, a) + Lowest(Bad(i, n, a)) + 1

\* One round of the loop, with g for the rounds that follow.
Round(g, n, a, i) ==
    IF Over(i, n, a) THEN 0
    ELSE IF Bad(i, n, a) = {} THEN At(i, a) ELSE g[Behind(i, n, a)]

\* The search is the function that the rounds define, from frame 0.
LEMMA SearchIs ==
    ASSUME NEW n, NEW a
    PROVE  AlignedSearch(n, a) = (CHOOSE g : g = [i \in Nat |-> Round(g, n, a, i)])[0]
BY DEF AlignedSearch, Round, Over, Bad, Behind, At, AlignUp, Lowest, FreesFrom

\* A nonempty set of natural numbers has a lowest element.
LEMMA LowestIn ==
    ASSUME NEW S \in SUBSET Nat, S # {}
    PROVE  Lowest(S) \in S /\ \A y \in S : Lowest(S) <= y
<1> DEFINE P(k) == \A x \in S : x <= k => \E z \in S : \A y \in S : z <= y
           T == {k \in Nat : P(k)}
<1>1. P(0)
  <2> SUFFICES ASSUME NEW x \in S, x <= 0 PROVE \E z \in S : \A y \in S : z <= y
    OBVIOUS
  <2>1. \A y \in S : x <= y
    OBVIOUS
  <2> QED BY <2>1
<1>2. ASSUME NEW k \in Nat, P(k) PROVE P(k + 1)
  <2> SUFFICES ASSUME NEW x \in S, x <= k + 1 PROVE \E z \in S : \A y \in S : z <= y
    OBVIOUS
  <2>1. CASE \E w \in S : w <= k
    BY <1>2, <2>1
  <2>2. CASE \A w \in S : ~(w <= k)
    <3>1. \A y \in S : x <= y
      BY <2>2
    <3> QED BY <3>1
  <2> QED BY <2>1, <2>2
<1>3. ASSUME NEW k \in Nat PROVE P(k)
  <2> HIDE DEF P
  <2>1. 0 \in T /\ \A i \in Nat : i \in T => i + 1 \in T
    BY <1>1, <1>2
  <2> HIDE DEF T
  <2>2. k \in T
    BY <2>1, Ind!SetInduction
  <2> QED BY <2>2 DEF T
<1>4. \E z \in S : \A y \in S : z <= y
  <2>1. PICK x \in S : TRUE
    OBVIOUS
  <2>2. x \in Nat /\ x <= x
    OBVIOUS
  <2>3. P(x)
    BY <1>3, <2>2
  <2> QED BY <2>2, <2>3
<1> QED BY <1>4, Zenon DEF Lowest

\* Products grow with their factors.
LEMMA TimesMonotone ==
    ASSUME NEW a \in Nat \ {0}, NEW p \in Nat, NEW q \in Nat, a * q < a * (p + 1)
    PROVE  q <= p
<1> SUFFICES ASSUME q >= p + 1 PROVE FALSE
  OBVIOUS
<1>1. PICK d \in Nat : q = p + 1 + d
  <2>1. q - (p + 1) \in Nat /\ q = p + 1 + (q - (p + 1))
    OBVIOUS
  <2> QED BY <2>1
<1>2. a * q = a * (p + 1) + a * d
  BY <1>1
<1>3. a * d >= 0 /\ a * d \in Int /\ a * (p + 1) \in Int
  OBVIOUS
<1> DEFINE u == a * (p + 1)
           v == a * d
<1>4. a * q = u + v /\ v >= 0 /\ v \in Int /\ u \in Int /\ a * q < u
  BY <1>2, <1>3
<1> HIDE DEF u, v
<1> QED BY <1>4

\* AlignUp is the first multiple of a that is not below f.
LEMMA AlignUpIs ==
    ASSUME NEW a \in Nat \ {0}, NEW f \in Nat
    PROVE  /\ AlignUp(f, a) \in Nat /\ f <= AlignUp(f, a) /\ AlignUp(f, a) % a = 0
           /\ \A g \in Nat : g % a = 0 /\ f <= g => AlignUp(f, a) <= g
<1> DEFINE m == f + a - 1
           q == m \div a
           r == m % a
           u == a * q
<1>1. m \in Nat
  OBVIOUS
<1> HIDE DEF m
<1>2. q \in Nat /\ r \in 0 .. a - 1 /\ m = u + r
  BY <1>1, DivFacts
<1> HIDE DEF q, r
<1>3. u \in Nat /\ AlignUp(f, a) = u
  <2>1. u \in Nat /\ u = q * a
    BY <1>2
  <2>2. AlignUp(f, a) = q * a
    BY DEF AlignUp, q, m
  <2> QED BY <2>1, <2>2
<1>4. f <= u /\ u < f + a
  <2> HIDE DEF u
  <2> QED BY <1>2, <1>3 DEF m
<1>5. u % a = 0
  <2>1. u \div a \in Nat /\ u % a \in 0 .. a - 1 /\ u = a * (u \div a) + (u % a)
    <3> HIDE DEF u
    <3> QED BY <1>3, DivFacts
  <2> DEFINE p == u \div a
             s == u % a
  <2>2. p \in Nat /\ s \in 0 .. a - 1 /\ a * q = a * p + s
    BY <2>1
  <2> HIDE DEF p, s
  <2>3. a * q < a * (p + 1)
    <3>1. a * (p + 1) = a * p + a /\ a * p \in Int
      BY <2>2
    <3> DEFINE v == a * p
    <3>2. a * q = v + s /\ a * (p + 1) = v + a /\ v \in Int
      BY <2>2, <3>1
    <3> HIDE DEF v
    <3> QED BY <2>2, <3>2
  <2>4. q <= p
    BY <1>2, <2>2, <2>3, TimesMonotone
  <2>5. a * p < a * (q + 1)
    <3>1. a * (q + 1) = a * q + a /\ a * q \in Int /\ a * p \in Int
      BY <1>2, <2>2
    <3> DEFINE v == a * p
               w == a * q
    <3>2. w = v + s /\ a * (q + 1) = w + a /\ v \in Int /\ w \in Int
      BY <2>2, <3>1
    <3> HIDE DEF v, w
    <3>3. v < a * (q + 1)
      BY <2>2, <3>2
    <3> QED BY <3>3 DEF v
  <2>6. p <= q
    BY <1>2, <2>2, <2>5, TimesMonotone
  <2>7. p = q
    BY <1>2, <2>2, <2>4, <2>6
  <2>8. s = 0
    <3>1. a * q = a * q + s /\ a * q \in Int
      BY <1>2, <2>2, <2>7
    <3> DEFINE w == a * q
    <3>2. w = w + s /\ w \in Int
      BY <3>1
    <3> HIDE DEF w
    <3> QED BY <2>2, <3>2
  <2> QED BY <2>8 DEF s
<1>6. ASSUME NEW g \in Nat, g % a = 0, f <= g PROVE u <= g
  <2> DEFINE p == g \div a
  <2>1. p \in Nat /\ g = a * p + (g % a)
    BY DivFacts
  <2> HIDE DEF p
  <2>2. g = a * p /\ a * p \in Int
    BY <1>6, <2>1
  <2>3. a * q < a * (p + 1)
    <3>1. a * (p + 1) = a * p + a
      BY <2>1
    <3>2. u < g + a
      <4> HIDE DEF u
      <4> QED BY <1>3, <1>4, <1>6
    <3> QED BY <2>2, <3>1, <3>2
  <2>4. q <= p
    BY <1>2, <2>1, <2>3, TimesMonotone
  <2>5. PICK d \in Nat : p = q + d
    <3>1. p - q \in Nat /\ p = q + (p - q)
      BY <1>2, <2>1, <2>4
    <3> QED BY <3>1
  <2>6. a * p = a * q + a * d /\ a * d >= 0 /\ a * d \in Int
    BY <1>2, <2>5
  <2> DEFINE v == a * d
  <2>7. g = u + v /\ v >= 0 /\ v \in Int
    BY <2>2, <2>6
  <2> HIDE DEF u, v
  <2> QED BY <1>3, <2>7
<1> HIDE DEF u
<1> QED BY <1>3, <1>4, <1>5, <1>6

\* A round that is not the last moves forward and stays below Total.
LEMMA RoundForward ==
    ASSUME NEW i \in Nat, NEW n \in Nat \ {0}, NEW a \in Nat \ {0}, ~Over(i, n, a)
    PROVE  /\ At(i, a) \in Nat /\ i <= At(i, a) /\ At(i, a) % a = 0 /\ At(i, a) + n <= Total /\ i < Total
           /\ \A f \in Free : f >= i /\ f % a = 0 => At(i, a) <= f
           /\ Bad(i, n, a) # {} =>
                /\ Lowest(Bad(i, n, a)) \in Bad(i, n, a)
                /\ Behind(i, n, a) \in Nat /\ Behind(i, n, a) > i
<1> DEFINE S == FreesFrom(i)
           low == Lowest(S)
<1>1. Free \subseteq Nat /\ Total \in Nat /\ \A f \in Free : f < Total
  BY MemoryAssumption DEF Free, Frame
<1>2. S \in SUBSET Nat /\ S # {} /\ At(i, a) + n <= Total /\ S \subseteq Free /\ \A f \in S : f >= i
  <2>1. S \in SUBSET Nat /\ S # {} /\ ~(At(i, a) + n > Total) /\ S \subseteq Free /\ \A f \in S : f >= i
    BY <1>1 DEF Over, FreesFrom
  <2>2. At(i, a) \in Nat
    <3> HIDE DEF S
    <3>1. low \in Nat
      BY <2>1, LowestIn
    <3> HIDE DEF low
    <3>2. AlignUp(low, a) \in Nat
      BY <3>1, AlignUpIs
    <3> QED BY <3>2 DEF At, low, S
  <2> QED BY <1>1, <2>1, <2>2
<1>3. low \in S /\ \A y \in S : low <= y
  <2> HIDE DEF S
  <2> QED BY <1>2, LowestIn
<1>4. At(i, a) = AlignUp(low, a)
  BY DEF At
<1>5. low \in Nat /\ low >= i /\ low < Total
  BY <1>1, <1>2, <1>3
<1>6. \A f \in Free : f >= i => low <= f
  BY <1>3 DEF FreesFrom
<1> HIDE DEF low
<1>7. /\ At(i, a) \in Nat /\ low <= At(i, a) /\ At(i, a) % a = 0
      /\ \A g \in Nat : g % a = 0 /\ low <= g => At(i, a) <= g
  BY <1>4, <1>5, AlignUpIs
<1>8. i <= At(i, a) /\ i < Total
  BY <1>1, <1>5, <1>7
<1>9. \A f \in Free : f >= i /\ f % a = 0 => At(i, a) <= f
  BY <1>1, <1>6, <1>7
<1>10. ASSUME Bad(i, n, a) # {}
       PROVE  Lowest(Bad(i, n, a)) \in Bad(i, n, a) /\ Behind(i, n, a) \in Nat /\ Behind(i, n, a) > i
  <2> DEFINE B == Bad(i, n, a)
  <2>1. B \in SUBSET Nat /\ B # {}
    BY <1>10 DEF Bad
  <2> HIDE DEF B
  <2>2. Lowest(B) \in B /\ Lowest(B) \in Nat
    BY <2>1, LowestIn
  <2>3. Behind(i, n, a) = At(i, a) + Lowest(B) + 1
    BY DEF Behind, B
  <2> QED BY <1>7, <1>8, <2>2, <2>3 DEF B
<1> QED BY <1>2, <1>7, <1>8, <1>9, <1>10

\* g is what the rounds define.
Solves(g, n, a) == g = [i \in Nat |-> Round(g, n, a, i)]

\* There is such a function: from the last frame backwards.
LEMMA SearchExists ==
    ASSUME NEW n \in Nat \ {0}, NEW a \in Nat \ {0}
    PROVE  \E g \in [Nat -> Nat] : Solves(g, n, a)
<1> DEFINE Upto(g, k) == \A i \in Nat : i + k >= Total => g[i] = Round(g, n, a, i)
           Q(k) == \E g \in [Nat -> Nat] : Upto(g, k)
           T == {k \in Nat : Q(k)}
<1>0. Total \in Nat
  BY MemoryAssumption
<1>1. Q(0)
  <2> DEFINE g == [i \in Nat |-> 0]
  <2>1. g \in [Nat -> Nat] /\ \A i \in Nat : g[i] = 0
    OBVIOUS
  <2> HIDE DEF g
  <2>2. ASSUME NEW i \in Nat, i + 0 >= Total PROVE g[i] = Round(g, n, a, i)
    <3>1. Over(i, n, a)
      <4>1. ASSUME ~Over(i, n, a) PROVE FALSE
        <5>1. i < Total
          BY <4>1, RoundForward
        <5> QED BY <1>0, <2>2, <5>1
      <4> QED BY <4>1
    <3> QED BY <2>1, <3>1 DEF Round
  <2>3. Upto(g, 0)
    BY <2>2
  <2> QED BY <2>1, <2>3
<1>2. ASSUME NEW k \in Nat, Q(k) PROVE Q(k + 1)
  <2>1. PICK g \in [Nat -> Nat] : Upto(g, k)
    BY <1>2
  <2>2. CASE k + 1 > Total
    <3>1. Upto(g, k + 1)
      <4> SUFFICES ASSUME NEW i \in Nat PROVE g[i] = Round(g, n, a, i)
        OBVIOUS
      <4>1. i + k >= Total
        BY <1>0, <2>2
      <4> QED BY <2>1, <4>1
    <3> QED BY <3>1
  <2>3. CASE k + 1 <= Total
    <3> DEFINE c == Total - (k + 1)
               e == [i \in Nat |-> IF i = c THEN Round(g, n, a, c) ELSE g[i]]
    <3>1. c \in Nat /\ \A i \in Nat : i + (k + 1) >= Total => i = c \/ (i > c /\ i + k >= Total)
      BY <1>0, <2>3
    <3> HIDE DEF c
    <3>2. Round(g, n, a, c) \in Nat
      <4>1. CASE Over(c, n, a)
        BY <4>1 DEF Round
      <4>2. CASE ~Over(c, n, a)
        <5>1. At(c, a) \in Nat /\ (Bad(c, n, a) # {} => Behind(c, n, a) \in Nat)
          BY <3>1, <4>2, RoundForward
        <5>2. Bad(c, n, a) # {} => g[Behind(c, n, a)] \in Nat
          BY <5>1
        <5> QED BY <4>2, <5>1, <5>2 DEF Round
      <4> QED BY <4>1, <4>2
    <3>3. e \in [Nat -> Nat] /\ e[c] = Round(g, n, a, c) /\ \A i \in Nat : i # c => e[i] = g[i]
      BY <3>1, <3>2
    <3> HIDE DEF e
    <3>4. ASSUME NEW i \in Nat, i >= c PROVE Round(e, n, a, i) = Round(g, n, a, i)
      <4>1. CASE Over(i, n, a) \/ Bad(i, n, a) = {}
        BY <4>1 DEF Round
      <4>2. CASE ~Over(i, n, a) /\ Bad(i, n, a) # {}
        <5>1. Behind(i, n, a) \in Nat /\ Behind(i, n, a) > i
          BY <4>2, RoundForward
        <5>2. e[Behind(i, n, a)] = g[Behind(i, n, a)]
          BY <3>1, <3>3, <3>4, <5>1
        <5> QED BY <4>2, <5>2 DEF Round
      <4> QED BY <4>1, <4>2
    <3>5. ASSUME NEW i \in Nat, i + (k + 1) >= Total PROVE e[i] = Round(e, n, a, i)
      <4>1. CASE i = c
        BY <3>1, <3>3, <3>4, <4>1
      <4>2. CASE i > c /\ i + k >= Total
        <5>1. e[i] = g[i] /\ g[i] = Round(g, n, a, i)
          BY <2>1, <3>1, <3>3, <4>2
        <5>2. Round(e, n, a, i) = Round(g, n, a, i)
          BY <3>1, <3>4, <4>2
        <5> QED BY <5>1, <5>2
      <4> QED BY <3>1, <3>5, <4>1, <4>2
    <3>6. Upto(e, k + 1)
      BY <3>5
    <3> QED BY <3>3, <3>6
  <2> QED BY <1>0, <2>2, <2>3
<1>3. Q(Total)
  <2> HIDE DEF Q
  <2>1. 0 \in T /\ \A i \in Nat : i \in T => i + 1 \in T
    BY <1>1, <1>2
  <2> HIDE DEF T
  <2>2. Total \in T
    BY <1>0, <2>1, Ind!SetInduction
  <2> QED BY <2>2 DEF T
<1>4. PICK g \in [Nat -> Nat] : Upto(g, Total)
  BY <1>3
<1>5. \A i \in Nat : g[i] = Round(g, n, a, i)
  BY <1>0, <1>4
<1>6. g = [i \in Nat |-> Round(g, n, a, i)]
  BY <1>5
<1> QED BY <1>6 DEF Solves

\* r is the first run at or behind i, or 0 if there is none.
RunsFrom(i, n, a) == {f \in Runs(n, a) : f >= i}
IsFirst(i, n, a, r) ==
    IF RunsFrom(i, n, a) = {} THEN r = 0
    ELSE r \in RunsFrom(i, n, a) /\ \A f \in RunsFrom(i, n, a) : r <= f

\* One round is right if the rounds that follow are.
LEMMA RoundRight ==
    ASSUME NEW i \in Nat, NEW n \in Nat \ {0}, NEW a \in Nat \ {0}, NEW g,
           ~Over(i, n, a) /\ Bad(i, n, a) # {} => IsFirst(Behind(i, n, a), n, a, g[Behind(i, n, a)])
    PROVE  IsFirst(i, n, a, Round(g, n, a, i))
<1> DEFINE at == At(i, a)
<1>0. /\ Total \in Nat /\ Frame \subseteq Nat /\ \A f \in Frame : f < Total
      /\ \A f \in Nat : f < Total => f \in Frame
  BY MemoryAssumption DEF Frame
<1>1. ASSUME NEW f \in RunsFrom(i, n, a)
      PROVE  f \in Frame /\ f >= i /\ f % a = 0 /\ (\A j \in 0 .. n - 1 : f + j \in Free) /\ f \in Free /\ f + n <= Total
  <2>1. f \in Frame /\ f >= i /\ f % a = 0 /\ f .. f + n - 1 \subseteq Free
    BY DEF RunsFrom, Runs
  <2>2. \A j \in 0 .. n - 1 : f + j \in f .. f + n - 1
    BY <1>0, <2>1
  <2>3. f + 0 = f /\ 0 \in 0 .. n - 1 /\ n - 1 \in 0 .. n - 1
    BY <1>0, <2>1
  <2>4. f + (n - 1) \in Free /\ f + (n - 1) < Total
    BY <1>0, <2>1, <2>2, <2>3 DEF Free
  <2> QED BY <1>0, <2>1, <2>2, <2>3, <2>4
<1>2. CASE Over(i, n, a)
  <2>1. RunsFrom(i, n, a) = {}
    <3> SUFFICES ASSUME NEW f \in RunsFrom(i, n, a) PROVE FALSE
      OBVIOUS
    <3>1. f \in Frame /\ f >= i /\ f % a = 0 /\ f \in Free /\ f + n <= Total
      BY <1>1
    <3>2. f \in FreesFrom(i)
      BY <3>1 DEF FreesFrom
    <3>3. at + n > Total
      BY <1>2, <3>2 DEF Over
    <3> DEFINE S == FreesFrom(i)
               low == Lowest(S)
    <3>4. S \in SUBSET Nat /\ S # {}
      BY <1>0, <3>2 DEF FreesFrom, Free
    <3>5. low \in Nat /\ low <= f
      <4>1. f \in S
        BY <3>2
      <4> HIDE DEF S
      <4> QED BY <3>4, <4>1, LowestIn
    <3>6. at = AlignUp(low, a)
      BY DEF At
    <3> HIDE DEF low
    <3>7. at \in Nat /\ at <= f
      <4>1. f \in Nat
        BY <1>0, <3>1
      <4> QED BY <3>1, <3>5, <3>6, <4>1, AlignUpIs
    <3> HIDE DEF at
    <3> QED BY <1>0, <3>1, <3>3, <3>7
  <2> QED BY <1>2, <2>1 DEF IsFirst, Round
<1>3. ASSUME ~Over(i, n, a)
      PROVE  /\ at \in Nat /\ i <= at /\ at % a = 0 /\ at + n <= Total
             /\ \A f \in RunsFrom(i, n, a) : at <= f
  <2>1. /\ at \in Nat /\ i <= at /\ at % a = 0 /\ at + n <= Total
        /\ \A f \in Free : f >= i /\ f % a = 0 => at <= f
    BY <1>3, RoundForward
  <2> QED BY <1>1, <2>1
<1>4. CASE ~Over(i, n, a) /\ Bad(i, n, a) = {}
  <2>1. at \in Runs(n, a)
    <3>1. at \in Frame
      BY <1>0, <1>3, <1>4
    <3>2. ASSUME NEW x \in at .. at + n - 1 PROVE x \in Free
      <4>1. x - at \in 0 .. n - 1 /\ at + (x - at) = x /\ x \in Nat /\ x < Total
        BY <1>0, <1>3, <1>4, <3>2
      <4>2. x \notin used
        BY <1>4, <4>1 DEF Bad
      <4> QED BY <1>0, <4>1, <4>2 DEF Free
    <3> QED BY <1>3, <1>4, <3>1, <3>2 DEF Runs
  <2>2. at \in RunsFrom(i, n, a)
    BY <1>3, <1>4, <2>1 DEF RunsFrom
  <2>3. Round(g, n, a, i) = at
    BY <1>4 DEF Round
  <2> QED BY <1>3, <1>4, <2>2, <2>3 DEF IsFirst
<1>5. CASE ~Over(i, n, a) /\ Bad(i, n, a) # {}
  <2> DEFINE j == Lowest(Bad(i, n, a))
             b == Behind(i, n, a)
  <2>1. j \in Bad(i, n, a) /\ b \in Nat /\ b > i /\ b = at + j + 1
    BY <1>5, RoundForward DEF Behind
  <2>2. j \in 0 .. n - 1 /\ at + j \in used
    BY <2>1 DEF Bad
  <2> HIDE DEF j, at
  <2>3. \A f \in RunsFrom(i, n, a) : f >= b
    <3> SUFFICES ASSUME NEW f \in RunsFrom(i, n, a), ~(f >= b) PROVE FALSE
      OBVIOUS
    <3>1. f \in Nat /\ at <= f /\ at \in Nat
      BY <1>0, <1>1, <1>3, <1>5
    <3>2. (at + j) - f \in 0 .. n - 1 /\ f + ((at + j) - f) = at + j
      BY <2>1, <2>2, <3>1
    <3>3. at + j \in Free
      <4>1. \A y \in 0 .. n - 1 : f + y \in Free
        BY <1>1
      <4>2. f + ((at + j) - f) \in Free
        BY <3>2, <4>1
      <4> QED BY <3>2, <4>2
    <3> QED BY <2>2, <3>3 DEF Free
  <2>4. RunsFrom(i, n, a) = RunsFrom(b, n, a)
    <3>1. Runs(n, a) \subseteq Nat
      BY <1>0 DEF Runs
    <3>2. \A f \in Nat : f >= b => f >= i
      BY <2>1
    <3> HIDE DEF b
    <3> QED BY <2>3, <3>1, <3>2 DEF RunsFrom
  <2>5. Round(g, n, a, i) = g[b]
    BY <1>5 DEF Round
  <2> QED BY <1>5, <2>4, <2>5 DEF IsFirst
<1> QED BY <1>2, <1>4, <1>5

\* Any function that the rounds define returns first runs.
LEMMA SearchRight ==
    ASSUME NEW n \in Nat \ {0}, NEW a \in Nat \ {0}, NEW g, Solves(g, n, a)
    PROVE  IsFirst(0, n, a, g[0])
<1> DEFINE Q(k) == \A i \in Nat : i + k >= Total => IsFirst(i, n, a, g[i])
           T == {k \in Nat : Q(k)}
<1>0. Total \in Nat
  BY MemoryAssumption
<1>1. \A i \in Nat : g[i] = Round(g, n, a, i)
  <2> DEFINE R(i) == Round(g, n, a, i)
  <2>1. g = [i \in Nat |-> R(i)]
    BY DEF Solves
  <2> HIDE DEF R
  <2>2. \A i \in Nat : g[i] = R(i)
    BY <2>1
  <2> QED BY <2>2 DEF R
<1>2. Q(0)
  <2> SUFFICES ASSUME NEW i \in Nat, i + 0 >= Total PROVE IsFirst(i, n, a, g[i])
    OBVIOUS
  <2>1. Over(i, n, a)
    <3>1. ASSUME ~Over(i, n, a) PROVE FALSE
      <4>1. i < Total
        BY <3>1, RoundForward
      <4> QED BY <1>0, <4>1
    <3> QED BY <3>1
  <2>2. IsFirst(i, n, a, Round(g, n, a, i))
    BY <2>1, RoundRight
  <2> QED BY <1>1, <2>2
<1>3. ASSUME NEW k \in Nat, Q(k) PROVE Q(k + 1)
  <2> SUFFICES ASSUME NEW i \in Nat, i + (k + 1) >= Total PROVE IsFirst(i, n, a, g[i])
    OBVIOUS
  <2>1. ASSUME ~Over(i, n, a), Bad(i, n, a) # {} PROVE IsFirst(Behind(i, n, a), n, a, g[Behind(i, n, a)])
    <3>1. Behind(i, n, a) \in Nat /\ Behind(i, n, a) > i
      BY <2>1, RoundForward
    <3>2. Behind(i, n, a) + k >= Total
      BY <1>0, <3>1
    <3> QED BY <1>3, <3>1, <3>2
  <2>2. IsFirst(i, n, a, Round(g, n, a, i))
    BY <2>1, RoundRight
  <2> QED BY <1>1, <2>2
<1>4. Q(Total)
  <2> HIDE DEF Q
  <2>1. 0 \in T /\ \A i \in Nat : i \in T => i + 1 \in T
    BY <1>2, <1>3
  <2> HIDE DEF T
  <2>2. Total \in T
    BY <1>0, <2>1, Ind!SetInduction
  <2> QED BY <2>2 DEF T
<1>5. 0 \in Nat /\ 0 + Total >= Total
  BY <1>0
<1> QED BY <1>4, <1>5

\* In every state, pmm_alloc_aligned finds the first aligned run if there is one.
LEMMA AlignedExactAlways == AlignedExact
<1> SUFFICES ASSUME NEW n \in 1 .. MaxCount, NEW a \in Align
             PROVE  IF Runs(n, a) = {} THEN AlignedSearch(n, a) = 0 ELSE FirstRun(n, a, AlignedSearch(n, a))
  BY DEF AlignedExact
<1>1. n \in Nat \ {0} /\ a \in Nat \ {0}
  BY MemoryAssumption DEF Align
<1> DEFINE g == CHOOSE g : Solves(g, n, a)
<1>2. Solves(g, n, a)
  BY <1>1, SearchExists, Zenon
<1>3. AlignedSearch(n, a) = g[0]
  BY SearchIs DEF Solves
<1> HIDE DEF g
<1>4. IsFirst(0, n, a, g[0])
  BY <1>1, <1>2, SearchRight
<1>5. RunsFrom(0, n, a) = Runs(n, a)
  BY MemoryAssumption DEF RunsFrom, Runs, Frame
<1> QED BY <1>3, <1>4, <1>5 DEF IsFirst, FirstRun

\* The search of pmm_alloc_aligned, which skips from a used frame to the next
\* candidate, never misses the first aligned run, whatever the frames in use.
THEOREM MemoryAligned == Spec => []AlignedExact
BY AlignedExactAlways, PTL

-----------------------------------------------------------------------------
(***************************************************************************)
(* The PCI bus (Pci).                                                      *)
(***************************************************************************)
PciWhere == Nat \X (0 .. Slots - 1) \X (0 .. Functions_ - 1)
PciFrame == [bus : Nat, dev : 0 .. Slots, func : 0 .. Functions_]
PciBar == [base : Nat, is_io : BOOLEAN, assigned : BOOLEAN, size : 0 .. MemMod - 1]
PciDevice == [id : PciWhere, bars : Seq(PciBar), caps : Seq(Nat)]
MachineOk ==
    /\ DOMAIN machine \subseteq PciWhere
    /\ machine \in [DOMAIN machine -> PciFunction]
    /\ \A id \in DOMAIN machine :
          /\ machine[id].header = "bridge" => Len(machine[id].bars) >= 2
          /\ \A i \in DOMAIN machine[id].bars : machine[id].bars[i].kind # "mem64" => machine[id].bars[i].size < MemMod
PciTypes ==
    /\ pciStack \in Seq(PciFrame) /\ visited_buses \subseteq Nat
    /\ pciScanned \in BOOLEAN /\ pciWrapped \in BOOLEAN
    /\ pci_device_list \in Seq(PciDevice)
    /\ pciDropped \in Seq(PciWhere \X {"caps", "device"})
    /\ pci_io_next \in Nat /\ pci_mem_next \in 0 .. MemMod - 1
    /\ pciAt \in (Nat \ {0}) \X (Nat \ {0})

\* The function the scan asks about first on a device.
Function0(id) == <<id[1], id[2], 0>>
ListedIds == {pci_device_list[d].id : d \in 1 .. Len(pci_device_list)}
GoneIds == {id \in DOMAIN machine : <<id, "device">> \in ToSet(pciDropped)}
QualifiedIds == {id \in DOMAIN machine \ GoneIds :
    id[3] # 0 => Function0(id) \in DOMAIN machine \ GoneIds /\ machine[Function0(id)].multi}
Single(id) == id[3] = 0 /\ Isbridge(machine[id]) /\ machine[id].secondary # 0
\* The scan has been at function id; it has also followed the bridge it may be.
PassedIds == {id \in DOMAIN machine :
    /\ id[1] \in visited_buses
    /\ \A k \in 1 .. Len(pciStack) : pciStack[k].bus = id[1] =>
          (id[2] < pciStack[k].dev \/ (id[2] = pciStack[k].dev /\ id[3] < pciStack[k].func))}
LeftIds == {id \in DOMAIN machine :
    /\ id[1] \in visited_buses
    /\ \A k \in 1 .. Len(pciStack) : pciStack[k].bus = id[1] => id[2] < pciStack[k].dev}

\* Where the scan is.
StackOk ==
    /\ 0 \in visited_buses
    /\ \A k \in 1 .. Len(pciStack) : pciStack[k].bus \in visited_buses
    /\ \A j, k \in 1 .. Len(pciStack) : pciStack[j].bus = pciStack[k].bus => j = k
    /\ \A k \in 1 .. Len(pciStack) : pciStack[k].func # 0 =>
          /\ k = Len(pciStack) /\ <<pciStack[k].bus, pciStack[k].dev, 0>> \in DOMAIN machine \ GoneIds
          /\ pciStack[k].func < Functions_ => machine[<<pciStack[k].bus, pciStack[k].dev, 0>>].multi
    /\ pciScanned <=> pciStack = <<>>
\* What it has done so far.
ScanOk ==
    /\ ListedIds = PassedIds \cap QualifiedIds
    /\ \A d, e \in 1 .. Len(pci_device_list) : pci_device_list[d].id = pci_device_list[e].id => d = e
    /\ GoneIds \subseteq PassedIds
    /\ \A id \in LeftIds \ GoneIds : Single(id) => machine[id].secondary \in visited_buses
Closed(bs) == \A id \in ListedIds : (id[1] \in bs /\ Single(id)) => machine[id].secondary \in bs
PciBuses == {0} \cup {machine[id].secondary : id \in DOMAIN machine}
LeastOk == /\ visited_buses \subseteq PciBuses
           /\ \A bs \in SUBSET PciBuses : (0 \in bs /\ Closed(bs)) => visited_buses \subseteq bs

\* What assigning has done so far.
BarsOk ==
    /\ ~pciScanned => pciAt = <<1, 1>>
    /\ \A d \in 1 .. Len(pci_device_list) :
          LET bars == pci_device_list[d].bars IN
          /\ Len(bars) <= Len(machine[pci_device_list[d].id].bars)
          /\ \A i \in 1 .. Len(bars) : bars[i].assigned =>
                bars[i].size > 0 /\ (d < pciAt[1] \/ (d = pciAt[1] /\ i < pciAt[2]))
BarKept(bar, reg, io, mem) ==
    /\ bar.base % bar.size = 0
    /\ reg.addr = bar.base
    /\ bar.is_io => IoFirst <= bar.base /\ bar.base + bar.size <= IoLimit /\ bar.base + bar.size <= io
    /\ ~bar.is_io => MemFirst <= bar.base /\ bar.base + bar.size <= mem
BarsApart(x, y) == x.base + x.size <= y.base \/ y.base + y.size <= x.base
PlacedOk ==
    /\ IoFirst <= pci_io_next
    /\ ~pciWrapped =>
          /\ MemFirst <= pci_mem_next
          /\ \A d \in 1 .. Len(pci_device_list) : \A i \in 1 .. Len(pci_device_list[d].bars) :
                pci_device_list[d].bars[i].assigned =>
                    BarKept(pci_device_list[d].bars[i], machine[pci_device_list[d].id].bars[i],
                            pci_io_next, pci_mem_next)
          /\ \A d, e \in 1 .. Len(pci_device_list) :
                \A i \in 1 .. Len(pci_device_list[d].bars) : \A j \in 1 .. Len(pci_device_list[e].bars) :
                (/\ pci_device_list[d].bars[i].assigned /\ pci_device_list[e].bars[j].assigned
                 /\ pci_device_list[d].bars[i].is_io = pci_device_list[e].bars[j].is_io /\ <<d, i>> # <<e, j>>)
                => BarsApart(pci_device_list[d].bars[i], pci_device_list[e].bars[j])
PciInv == MachineOk /\ PciTypes /\ StackOk /\ ScanOk /\ LeastOk /\ BarsOk /\ PlacedOk

-----------------------------------------------------------------------------
\* The constants' types (PciAssumption), one by one.
LEMMA PciConstants ==
    /\ Slots \in Nat /\ Functions_ \in Nat \ {0} /\ IoFirst \in Nat /\ IoLimit \in Nat
    /\ MemFirst \in Nat /\ MemMod \in Nat /\ PciFailures \in Nat /\ MemFirst < MemMod
BY PciAssumption

\* A place on the bus is its bus, device and function.
LEMMA Triple ==
    ASSUME NEW id \in PciWhere
    PROVE  /\ id = <<id[1], id[2], id[3]>> /\ id[1] \in Nat /\ id[2] \in 0 .. Slots - 1 /\ id[3] \in 0 .. Functions_ - 1
           /\ Function0(id) \in PciWhere /\ (id[3] = 0 => Function0(id) = id)
BY PciConstants DEF PciWhere, Function0

\* The machine a run starts with is one configuration space can show.
LEMMA PciInitMachine ==
    ASSUME PciInit
    PROVE  MachineOk
<1>1. PICK m \in Machines : Boot(m)
  BY DEF PciInit
<1>2. machine = m
  BY <1>1 DEF Boot
<1>3. DOMAIN m \subseteq Nat \X (0 .. Slots - 1) \X (0 .. Functions_ - 1) /\ m \in [DOMAIN m -> PciFunction]
  BY PciAssumption
<1>4. \A id \in DOMAIN m :
          /\ m[id].header = "bridge" => Len(m[id].bars) >= 2
          /\ \A i \in DOMAIN m[id].bars : m[id].bars[i].kind # "mem64" => m[id].bars[i].size < MemMod
  BY PciAssumption
<1>5. QED
  BY <1>2, <1>3, <1>4 DEF MachineOk, PciWhere

\* The state pci_init starts from.
LEMMA PciInitInv ==
    ASSUME PciInit
    PROVE  PciInv
<1>1. MachineOk
  BY PciInitMachine
<1> DEFINE f0 == [bus |-> 0, dev |-> 0, func |-> 0]
<1>2. /\ pciStack = <<f0>> /\ visited_buses = {0} /\ pciScanned = FALSE
      /\ pci_device_list = <<>> /\ pciAt = <<1, 1>>
      /\ pci_io_next = IoFirst /\ pci_mem_next = MemFirst
      /\ pciDropped = <<>> /\ pciWrapped = FALSE
  BY DEF PciInit, Boot
<1>3. f0 \in PciFrame /\ f0.bus = 0 /\ f0.dev = 0 /\ f0.func = 0
  BY PciConstants DEF PciFrame
<1> HIDE DEF f0
<1>4. Len(pciStack) = 1 /\ pciStack[1] = f0 /\ Len(pci_device_list) = 0
  BY <1>2
<1>5. PciTypes
  <2>1. pciStack \in Seq(PciFrame)
    BY <1>2, <1>3
  <2>2. pci_device_list \in Seq(PciDevice) /\ pciDropped \in Seq(PciWhere \X {"caps", "device"})
    BY <1>2
  <2>3. pci_mem_next \in 0 .. MemMod - 1 /\ pci_io_next \in Nat
    BY <1>2, PciConstants
  <2>4. pciAt \in (Nat \ {0}) \X (Nat \ {0})
    BY <1>2
  <2>5. pciScanned \in BOOLEAN /\ pciWrapped \in BOOLEAN
    BY <1>2, Zenon
  <2>6. visited_buses \subseteq Nat
    BY <1>2
  <2> QED BY <2>1, <2>2, <2>3, <2>4, <2>5, <2>6, Zenon DEF PciTypes
<1>6. StackOk
  BY <1>2, <1>3, <1>4 DEF StackOk
<1>7. GoneIds = {} /\ ListedIds = {}
  <2>1. ToSet(pciDropped) = {}
    BY <1>2 DEF ToSet
  <2> QED BY <2>1, <1>4 DEF GoneIds, ListedIds
<1>8. PassedIds = {} /\ LeftIds = {}
  <2>1. ASSUME NEW id \in DOMAIN machine, id[1] \in visited_buses PROVE pciStack[1].bus = id[1]
    BY <1>2, <1>3, <1>4, <2>1
  <2>2. \A id \in DOMAIN machine : id[2] >= 0 /\ id[3] >= 0 /\ id[2] \in Int /\ id[3] \in Int
    BY <1>1, Triple, PciConstants DEF MachineOk
  <2>3. 1 \in 1 .. Len(pciStack)
    BY <1>4
  <2> QED BY <2>1, <2>2, <2>3, <1>3, <1>4 DEF PassedIds, LeftIds
<1>9. ScanOk
  BY <1>4, <1>7, <1>8 DEF ScanOk
<1>10. LeastOk
  BY <1>2 DEF LeastOk, PciBuses
<1>11. BarsOk
  BY <1>2, <1>4 DEF BarsOk
<1>12. PlacedOk
  BY <1>2, <1>4, PciConstants DEF PlacedOk
<1>13. QED
  BY <1>1, <1>5, <1>6, <1>9, <1>10, <1>11, <1>12 DEF PciInv

\* The frame at work.
LEMMA TopFrame ==
    ASSUME PciTypes, pciStack # <<>>
    PROVE  /\ Len(pciStack) \in Nat \ {0} /\ Top_ = pciStack[Len(pciStack)] /\ Top_ \in PciFrame
           /\ Top_.bus \in Nat /\ Top_.dev \in 0 .. Slots /\ Top_.func \in 0 .. Functions_
           /\ \A k \in 1 .. Len(pciStack) : pciStack[k] \in PciFrame /\ pciStack[k].bus \in Nat
                   /\ pciStack[k].dev \in 0 .. Slots /\ pciStack[k].func \in 0 .. Functions_
<1>1. Len(pciStack) \in Nat \ {0}
  BY DEF PciTypes
<1>2. Top_ = pciStack[Len(pciStack)]
  BY DEF Top_, Last
<1>3. \A k \in 1 .. Len(pciStack) : pciStack[k] \in PciFrame
  BY DEF PciTypes
<1>4. \A f \in PciFrame : f.bus \in Nat /\ f.dev \in 0 .. Slots /\ f.func \in 0 .. Functions_
  BY DEF PciFrame
<1>5. QED
  BY <1>1, <1>2, <1>3, <1>4

\* What pci_parse_bars makes of a function's registers.
LEMMA ParsedBars ==
    ASSUME MachineOk, NEW id \in DOMAIN machine
    PROVE  LET bars == pci_parse_bars(machine[id]) IN
           /\ bars \in Seq(PciBar) /\ Len(bars) <= Len(machine[id].bars)
           /\ \A i \in 1 .. Len(bars) : ~bars[i].assigned
<1> DEFINE f == machine[id]
           n == IF Isbridge(f) THEN 2 ELSE Len(f.bars)
           bars == [i \in 1 .. n |-> BarOf(f.bars[i])]
<1>1. f \in PciFunction /\ (f.header = "bridge" => Len(f.bars) >= 2)
      /\ \A i \in DOMAIN f.bars : f.bars[i].kind # "mem64" => f.bars[i].size < MemMod
  BY DEF MachineOk
<1> HIDE DEF f
<1>2. f.bars \in Seq(PciRegister)
  BY <1>1 DEF PciFunction
<1>3. Len(f.bars) \in Nat /\ DOMAIN f.bars = 1 .. Len(f.bars)
  BY <1>2
<1>4. n \in Nat /\ n <= Len(f.bars)
  BY <1>1, <1>3 DEF Isbridge
<1> HIDE DEF n
<1>5. ASSUME NEW r \in PciRegister, r.kind # "mem64" => r.size < MemMod
      PROVE  BarOf(r) \in PciBar /\ ~BarOf(r).assigned
  <2>1. r.size \in Nat /\ r.addr \in Nat /\ r.typed \in BOOLEAN
    BY DEF PciRegister
  <2>2. pci_bar_get_size(r) \in 0 .. MemMod - 1
    BY <2>1, <1>5, PciConstants DEF pci_bar_get_size
  <2> DEFINE size == IF r.addr = 0 /\ ~r.typed /\ r.kind # "upper" THEN 0 ELSE pci_bar_get_size(r)
             base == IF r.kind = "upper" THEN 0 ELSE r.addr
  <2>3. size \in 0 .. MemMod - 1 /\ base \in Nat
    BY <2>1, <2>2, PciConstants
  <2>4. BarOf(r) = [base |-> base, is_io |-> (r.kind = "io"), assigned |-> FALSE, size |-> size]
    BY DEF BarOf
  <2>5. (r.kind = "io") \in BOOLEAN
    OBVIOUS
  <2> HIDE DEF size, base
  <2> QED BY <2>3, <2>4, <2>5 DEF PciBar
<1>6. \A i \in 1 .. n : BarOf(f.bars[i]) \in PciBar /\ ~BarOf(f.bars[i]).assigned
  <2> TAKE i \in 1 .. n
  <2>1. i \in DOMAIN f.bars /\ f.bars[i] \in PciRegister
    BY <1>2, <1>3, <1>4
  <2> QED BY <2>1, <1>1, <1>5
<1>7. bars \in [1 .. n -> PciBar] /\ \A i \in 1 .. n : ~bars[i].assigned
  BY <1>6
<1>8. bars = pci_parse_bars(machine[id])
  BY DEF pci_parse_bars, f, n
<1> HIDE DEF bars
<1>9. bars \in Seq(PciBar) /\ Len(bars) = n
  BY <1>4, <1>7
<1>10. f = machine[id]
  BY DEF f
<1>11. QED
  BY <1>4, <1>7, <1>8, <1>9, <1>10

\* The three outcomes of asking about a function.
Asked(id) ==
    \/ id \notin DOMAIN machine /\ pci_device_list' = pci_device_list /\ GoneIds' = GoneIds
    \/ /\ id \in DOMAIN machine /\ GoneIds' = GoneIds
       /\ \E new \in PciDevice :
             /\ new.id = id /\ Len(new.bars) <= Len(machine[id].bars)
             /\ \A i \in 1 .. Len(new.bars) : ~new.bars[i].assigned
             /\ pci_device_list' = <<new>> \o pci_device_list
    \/ id \in DOMAIN machine /\ pci_device_list' = pci_device_list /\ GoneIds' = GoneIds \cup {id}

\* What one more failed allocation adds to the functions that are gone.
LEMMA Dropping ==
    ASSUME NEW id, NEW s, machine' = machine, pciDropped' = Append(pciDropped, <<id, s>>),
           PciTypes, id \in PciWhere, s \in {"caps", "device"}
    PROVE  /\ pciDropped' \in Seq(PciWhere \X {"caps", "device"})
           /\ GoneIds' = GoneIds \cup (IF s = "device" THEN {id} \cap DOMAIN machine ELSE {})
<1>1. pciDropped \in Seq(PciWhere \X {"caps", "device"}) /\ <<id, s>> \in PciWhere \X {"caps", "device"}
  BY DEF PciTypes
<1>2. ToSet(Append(pciDropped, <<id, s>>)) = ToSet(pciDropped) \cup {<<id, s>>}
  <2> DEFINE q == pciDropped
             e == <<id, s>>
  <2>1. Len(q) \in Nat /\ Append(q, e)[Len(q) + 1] = e /\ Len(Append(q, e)) = Len(q) + 1
        /\ (\A i \in 1 .. Len(q) : Append(q, e)[i] = q[i])
        /\ DOMAIN q = 1 .. Len(q) /\ DOMAIN Append(q, e) = 1 .. Len(q) + 1
    BY <1>1
  <2> DEFINE r == Append(q, e)
  <2>2. r[Len(q) + 1] = e /\ DOMAIN r = 1 .. Len(q) + 1 /\ \A i \in 1 .. Len(q) : r[i] = q[i]
    BY <2>1
  <2> HIDE DEF q, e, r
  <2>3. ToSet(r) = ToSet(q) \cup {e}
    <3>1. ASSUME NEW x \in ToSet(r) PROVE x \in ToSet(q) \cup {e}
      <4>1. PICK i \in 1 .. Len(q) + 1 : x = r[i]
        BY <2>2, <3>1 DEF ToSet
      <4>2. CASE i = Len(q) + 1
        BY <2>2, <4>1, <4>2
      <4>3. CASE i \in 1 .. Len(q)
        BY <2>1, <2>2, <4>1, <4>3 DEF ToSet
      <4> QED BY <2>1, <4>1, <4>2, <4>3
    <3>2. ASSUME NEW x \in ToSet(q) PROVE x \in ToSet(r)
      <4>1. PICK i \in 1 .. Len(q) : x = q[i]
        BY <2>1, <3>2 DEF ToSet
      <4>2. i \in DOMAIN r /\ r[i] = x
        BY <2>1, <2>2, <4>1
      <4> QED BY <4>2 DEF ToSet
    <3>3. e \in ToSet(r)
      <4>1. Len(q) + 1 \in DOMAIN r
        BY <2>1, <2>2
      <4> QED BY <2>2, <4>1 DEF ToSet
    <3> QED BY <3>1, <3>2, <3>3
  <2> QED BY <2>3 DEF q, e, r
<1>3. \A x : <<x, "device">> = <<id, s>> <=> (x = id /\ s = "device")
  OBVIOUS
<1>4. GoneIds' = {x \in DOMAIN machine : <<x, "device">> \in ToSet(pciDropped) \cup {<<id, s>>}}
  BY <1>2 DEF GoneIds
<1>5. QED
  BY <1>1, <1>3, <1>4 DEF GoneIds

\* What asking about one function does to the list and to the functions that are gone.
LEMMA AskedOutcome ==
    ASSUME MachineOk, PciTypes, pciStack # <<>>, NEW id \in PciWhere, NEW next \in PciFrame, Function(id, next)
    PROVE  /\ Asked(id)
           /\ pciDropped' \in Seq(PciWhere \X {"caps", "device"})
           /\ pciStack' \in Seq(PciFrame) /\ Len(pciStack') = Len(pciStack) /\ pciStack' # <<>>
           /\ \A k \in 1 .. Len(pciStack) : pciStack'[k] = IF k = Len(pciStack) THEN next ELSE pciStack[k]
           /\ UNCHANGED <<machine, visited_buses, pciScanned, pci_io_next, pci_mem_next, pciAt, pciWrapped>>
<1>1. UNCHANGED <<machine, visited_buses, pciScanned, pci_io_next, pci_mem_next, pciAt, pciWrapped>>
  BY DEF Function
<1>2. pciStack' = [pciStack EXCEPT ![Len(pciStack)] = next] /\ pciStack \in Seq(PciFrame)
  BY DEF Function, PciTypes
<1>3. /\ pciStack' \in Seq(PciFrame) /\ Len(pciStack') = Len(pciStack) /\ pciStack' # <<>>
      /\ \A k \in 1 .. Len(pciStack) : pciStack'[k] = IF k = Len(pciStack) THEN next ELSE pciStack[k]
  BY <1>2
<1>4. CASE id \notin DOMAIN machine
  <2>1. UNCHANGED <<pci_device_list, pciDropped>>
    BY <1>4 DEF Function
  <2>2. GoneIds' = GoneIds /\ pciDropped' \in Seq(PciWhere \X {"caps", "device"})
    BY <1>1, <2>1 DEF GoneIds, PciTypes
  <2> QED BY <1>1, <1>3, <1>4, <2>1, <2>2 DEF Asked
<1>5. CASE /\ id \in DOMAIN machine
           /\ \E got \in 0..Len(machine[id].caps) :
                /\ got < Len(machine[id].caps) => Len(pciDropped) < PciFailures
                /\ pci_device_list' = <<Described(id, got)>> \o pci_device_list
                /\ pciDropped' = IF got < Len(machine[id].caps) THEN Append(pciDropped, <<id, "caps">>)
                                 ELSE pciDropped
  <2>1. PICK got \in 0..Len(machine[id].caps) :
                /\ pci_device_list' = <<Described(id, got)>> \o pci_device_list
                /\ pciDropped' = IF got < Len(machine[id].caps) THEN Append(pciDropped, <<id, "caps">>)
                                 ELSE pciDropped
    BY <1>5
  <2>2. GoneIds' = GoneIds /\ pciDropped' \in Seq(PciWhere \X {"caps", "device"})
    <3>1. CASE pciDropped' = pciDropped
      BY <1>1, <3>1 DEF GoneIds, PciTypes
    <3>2. CASE pciDropped' = Append(pciDropped, <<id, "caps">>)
      <4>1. "caps" \in {"caps", "device"} /\ "caps" # "device"
        OBVIOUS
      <4>2. /\ pciDropped' \in Seq(PciWhere \X {"caps", "device"})
            /\ GoneIds' = GoneIds \cup (IF "caps" = "device" THEN {id} \cap DOMAIN machine ELSE {})
        BY <1>1, <3>2, <4>1, Dropping
      <4> QED BY <4>1, <4>2
    <3> QED BY <2>1, <3>1, <3>2
  <2> DEFINE new == Described(id, got)
             caps == machine[id].caps
             bars == pci_parse_bars(machine[id])
  <2>3. caps \in Seq(Nat) /\ got \in 0 .. Len(caps)
    <3>1. machine[id] \in PciFunction
      BY <1>5 DEF MachineOk
    <3> QED BY <2>1, <3>1 DEF PciFunction
  <2>4. SubSeq(caps, 1, got) \in Seq(Nat)
    <3> HIDE DEF caps
    <3> QED BY <2>3
  <2>5. /\ bars \in Seq(PciBar) /\ Len(bars) <= Len(machine[id].bars)
        /\ \A i \in 1 .. Len(bars) : ~bars[i].assigned
    BY <1>5, ParsedBars
  <2>6. new = [id |-> id, bars |-> bars, caps |-> SubSeq(caps, 1, got)]
    BY DEF Described
  <2> HIDE DEF new, bars, caps
  <2>7. new \in PciDevice /\ new.id = id /\ new.bars = bars
    BY <2>4, <2>5, <2>6 DEF PciDevice
  <2>8. pci_device_list' = <<new>> \o pci_device_list
    BY <2>1 DEF new
  <2>9. Asked(id)
    BY <1>5, <2>2, <2>5, <2>7, <2>8 DEF Asked
  <2> QED BY <1>1, <1>3, <2>2, <2>9
<1>6. CASE /\ id \in DOMAIN machine
           /\ pciDropped' = Append(pciDropped, <<id, "device">>)
           /\ UNCHANGED pci_device_list
  <2>1. "device" \in {"caps", "device"}
    OBVIOUS
  <2>2. pciDropped' \in Seq(PciWhere \X {"caps", "device"}) /\ GoneIds' = GoneIds \cup {id}
    <3>1. /\ GoneIds' = GoneIds \cup (IF "device" = "device" THEN {id} \cap DOMAIN machine ELSE {})
          /\ pciDropped' \in Seq(PciWhere \X {"caps", "device"})
      BY <1>1, <1>6, <2>1, Dropping
    <3> QED BY <1>6, <3>1
  <2> QED BY <1>1, <1>3, <1>6, <2>2 DEF Asked
<1>7. QED
  BY <1>4, <1>5, <1>6 DEF Function

\* Function 0 of a device comes first.
LEMMA PassedFirst ==
    ASSUME MachineOk, PciTypes, NEW x \in PassedIds, Function0(x) \in DOMAIN machine
    PROVE  Function0(x) \in PassedIds
<1>1. x \in PciWhere
  BY DEF MachineOk, PassedIds
<1>2. x[2] \in Int /\ x[3] \in Nat /\ Function0(x)[1] = x[1] /\ Function0(x)[2] = x[2] /\ Function0(x)[3] = 0
  BY <1>1, Triple, PciConstants DEF Function0
<1>3. \A k \in 1 .. Len(pciStack) : pciStack[k].dev \in Int /\ pciStack[k].func \in Nat
  <2>1. \A k \in 1 .. Len(pciStack) : pciStack[k] \in PciFrame
    BY DEF PciTypes
  <2>2. \A f \in PciFrame : f.dev \in Int /\ f.func \in Nat
    BY PciConstants DEF PciFrame
  <2> QED BY <2>1, <2>2
<1>4. QED
  BY <1>2, <1>3 DEF PassedIds

\* Asking about one function keeps the list, while the scan passes that function and no other.
LEMMA ScanKept ==
    ASSUME MachineOk, ScanOk, LeastOk, PciTypes, NEW id \in PciWhere, Asked(id),
           machine' = machine, visited_buses' = visited_buses,
           id \notin PassedIds, id \in DOMAIN machine => id \in PassedIds', PassedIds \subseteq PassedIds',
           id[3] # 0 => Function0(id) \in DOMAIN machine \ GoneIds /\ machine[Function0(id)].multi,
           \A x \in PassedIds' : \/ x \in PassedIds \/ x = id
                                 \/ /\ x[3] # 0 /\ Function0(x) = id
                                    /\ (id \in DOMAIN machine \ GoneIds' => ~machine[id].multi),
           \A x \in LeftIds' : x \in LeftIds \/ (Function0(x) = id /\ id \notin DOMAIN machine \ GoneIds')
    PROVE  ScanOk' /\ LeastOk'
<1> DEFINE got == id \in DOMAIN machine \ GoneIds'
<1>1. ListedIds \subseteq PassedIds /\ GoneIds \subseteq PassedIds /\ PassedIds \subseteq DOMAIN machine
  BY DEF ScanOk, PassedIds
<1>2. id \notin ListedIds /\ id \notin GoneIds
  BY <1>1
<1>3. \A x \in DOMAIN machine : /\ x \in PciWhere /\ (x[3] = 0 => Function0(x) = x)
                                 /\ (x[3] # 0 => Function0(x) # x)
  <2>1. \A x \in DOMAIN machine : x \in PciWhere
    BY DEF MachineOk
  <2>2. \A x : Function0(x)[3] = 0
    BY DEF Function0
  <2> QED BY <2>1, <2>2, Triple
<1>4. GoneIds' = GoneIds \/ GoneIds' = GoneIds \cup {id}
  BY DEF Asked
<1>5. /\ ListedIds' = ListedIds \cup (IF got THEN {id} ELSE {})
      /\ \A d, e \in 1 .. Len(pci_device_list') : pci_device_list'[d].id = pci_device_list'[e].id => d = e
  <2>0. \A d, e \in 1 .. Len(pci_device_list) : pci_device_list[d].id = pci_device_list[e].id => d = e
    BY DEF ScanOk
  <2>1. CASE ~got
    <3>1. pci_device_list' = pci_device_list
      <4>1. ASSUME id \in DOMAIN machine, GoneIds' = GoneIds PROVE FALSE
        BY <1>2, <2>1, <4>1
      <4> QED BY <4>1 DEF Asked
    <3> QED BY <2>0, <2>1, <3>1 DEF ListedIds
  <2>2. CASE got
    <3>1. PICK new \in PciDevice : new.id = id /\ pci_device_list' = <<new>> \o pci_device_list
      BY <2>2 DEF Asked
    <3> DEFINE l == pci_device_list
               m == pci_device_list'
    <3>2. /\ l \in Seq(PciDevice) /\ Len(l) \in Nat /\ Len(m) = Len(l) + 1
          /\ m[1] = new /\ \A d \in 2 .. Len(l) + 1 : m[d] = l[d - 1]
      BY <3>1 DEF PciTypes
    <3>3. \A d \in 1 .. Len(l) : l[d].id # id
      BY <1>2 DEF ListedIds
    <3>4. ListedIds = {l[d].id : d \in 1 .. Len(l)} /\ ListedIds' = {m[d].id : d \in 1 .. Len(m)}
      BY DEF ListedIds
    <3>5. \A d, e \in 1 .. Len(l) : l[d].id = l[e].id => d = e
      BY <2>0
    <3> HIDE DEF l, m
    <3>6. ListedIds' = ListedIds \cup {id}
      <4>1. ASSUME NEW x \in ListedIds' PROVE x \in ListedIds \cup {id}
        <5>1. PICK d \in 1 .. Len(m) : x = m[d].id
          BY <3>4, <4>1
        <5>2. CASE d = 1
          BY <3>1, <3>2, <5>1, <5>2
        <5>3. CASE d # 1
          <6>1. d \in 2 .. Len(l) + 1 /\ d - 1 \in 1 .. Len(l)
            BY <3>2, <5>3
          <6>2. x = l[d - 1].id
            BY <3>2, <5>1, <6>1
          <6> QED BY <3>4, <6>1, <6>2
        <5> QED BY <5>2, <5>3
      <4>2. ASSUME NEW x \in ListedIds PROVE x \in ListedIds'
        <5>1. PICK d \in 1 .. Len(l) : x = l[d].id
          BY <3>4, <4>2
        <5>2. d + 1 \in 2 .. Len(l) + 1 /\ d + 1 \in 1 .. Len(m) /\ (d + 1) - 1 = d
          BY <3>2
        <5>3. m[d + 1] = l[d]
          BY <3>2, <5>2
        <5> QED BY <3>4, <5>1, <5>2, <5>3
      <4>3. id \in ListedIds'
        <5>1. 1 \in 1 .. Len(m) /\ m[1].id = id
          BY <3>1, <3>2
        <5> QED BY <3>4, <5>1
      <4> QED BY <4>1, <4>2, <4>3
    <3>7. ASSUME NEW d \in 1 .. Len(m), NEW e \in 1 .. Len(m), m[d].id = m[e].id PROVE d = e
      <4>1. \A c \in 1 .. Len(m) : c = 1 \/ (c - 1 \in 1 .. Len(l) /\ m[c] = l[c - 1])
        BY <3>2
      <4>2. CASE d = 1 /\ e # 1
        BY <3>1, <3>2, <3>3, <3>7, <4>1, <4>2
      <4>3. CASE d # 1 /\ e = 1
        BY <3>1, <3>2, <3>3, <3>7, <4>1, <4>3
      <4>4. CASE d # 1 /\ e # 1
        <5>1. d - 1 \in 1 .. Len(l) /\ e - 1 \in 1 .. Len(l) /\ l[d - 1].id = l[e - 1].id
          BY <3>7, <4>1, <4>4
        <5>2. d - 1 = e - 1
          BY <3>5, <5>1
        <5> QED BY <3>2, <5>2
      <4> QED BY <4>2, <4>3, <4>4
    <3> QED BY <2>2, <3>6, <3>7 DEF m
  <2> QED BY <2>1, <2>2
<1>6. QualifiedIds' = {x \in DOMAIN machine \ GoneIds' :
                          x[3] # 0 => Function0(x) \in DOMAIN machine \ GoneIds' /\ machine[Function0(x)].multi}
  BY DEF QualifiedIds
<1> HIDE DEF got
<1>7. ListedIds' = PassedIds' \cap QualifiedIds'
  <2>1. ASSUME NEW x \in PassedIds, x # id PROVE x \in ListedIds' <=> x \in QualifiedIds'
    <3>1. x \in ListedIds' <=> x \in ListedIds
      BY <1>5, <2>1
    <3>2. x \in ListedIds <=> x \in QualifiedIds
      BY <2>1 DEF ScanOk
    <3>3. x \in GoneIds' <=> x \in GoneIds
      BY <1>4, <2>1
    <3>4. Function0(x) \in DOMAIN machine => Function0(x) # id
      BY PassedFirst
    <3>5. Function0(x) \in DOMAIN machine \ GoneIds' <=> Function0(x) \in DOMAIN machine \ GoneIds
      BY <1>4, <3>4
    <3> QED BY <1>6, <3>1, <3>2, <3>3, <3>5 DEF QualifiedIds
  <2>2. ASSUME NEW x \in PassedIds', x # id, x \notin PassedIds PROVE x \notin ListedIds' /\ x \notin QualifiedIds'
    <3>1. x \notin ListedIds'
      BY <1>1, <1>5, <2>2
    <3>2. x[3] # 0 /\ Function0(x) = id /\ (id \in DOMAIN machine \ GoneIds' => ~machine[id].multi)
      BY <2>2
    <3> QED BY <1>6, <3>1, <3>2
  <2>3. id \in DOMAIN machine => (id \in ListedIds' <=> id \in QualifiedIds')
    <3>1. id \in DOMAIN machine => (id \in ListedIds' <=> id \notin GoneIds')
      BY <1>2, <1>5 DEF got
    <3>2. id[3] # 0 => Function0(id) # id
      BY DEF Function0
    <3>3. id[3] # 0 => Function0(id) \in DOMAIN machine \ GoneIds' /\ machine[Function0(id)].multi
      BY <1>4, <3>2
    <3> QED BY <1>6, <3>1, <3>3
  <2>4. PassedIds' \subseteq DOMAIN machine /\ ListedIds' \subseteq PassedIds'
    <3>1. PassedIds' \subseteq DOMAIN machine
      BY DEF PassedIds
    <3>2. got => id \in PassedIds'
      BY DEF got
    <3> QED BY <1>1, <1>5, <3>1, <3>2
  <2> QED BY <2>1, <2>2, <2>3, <2>4
<1>8. GoneIds' \subseteq PassedIds'
  <2>1. GoneIds' \subseteq DOMAIN machine
    BY DEF GoneIds
  <2> QED BY <1>1, <1>4, <2>1
<1>9. ASSUME NEW x \in LeftIds' \ GoneIds', Single(x)' PROVE machine'[x].secondary \in visited_buses'
  <2>1. Single(x)
    BY <1>9 DEF Single, Isbridge
  <2>2. x \in DOMAIN machine
    BY DEF LeftIds
  <2>3. x \in LeftIds
    <3>1. x[3] = 0 /\ Function0(x) = x
      BY <1>3, <2>1, <2>2 DEF Single
    <3> QED BY <2>2, <3>1
  <2>4. x \notin GoneIds
    BY <1>4
  <2> QED BY <2>1, <2>3, <2>4 DEF ScanOk
<1>10. ScanOk'
  BY <1>5, <1>7, <1>8, <1>9 DEF ScanOk
<1>11. LeastOk'
  <2>1. PciBuses' = PciBuses
    BY DEF PciBuses
  <2>2. ASSUME NEW bs \in SUBSET PciBuses, 0 \in bs, Closed(bs)' PROVE visited_buses \subseteq bs
    <3>1. ListedIds \subseteq ListedIds'
      BY <1>5
    <3>2. Closed(bs)
      BY <2>2, <3>1 DEF Closed, Single, Isbridge
    <3> QED BY <2>2, <3>2 DEF LeastOk
  <2>3. visited_buses \subseteq PciBuses
    BY DEF LeastOk
  <2> QED BY <2>1, <2>2, <2>3 DEF LeastOk
<1>12. QED
  BY <1>10, <1>11

\* While the scan lasts no BAR has been given an address.
LEMMA ScanAssignsNothing ==
    ASSUME MachineOk, PciTypes, BarsOk, PlacedOk, ~pciScanned, NEW id \in PciWhere, Asked(id),
           UNCHANGED <<machine, pciScanned, pci_io_next, pci_mem_next, pciAt, pciWrapped>>
    PROVE  BarsOk' /\ PlacedOk' /\ pci_device_list' \in Seq(PciDevice)
<1> DEFINE Bare(l) == \A d \in 1 .. Len(l) : /\ Len(l[d].bars) <= Len(machine[l[d].id].bars)
                                             /\ \A i \in 1 .. Len(l[d].bars) : ~l[d].bars[i].assigned
<1>1. Bare(pci_device_list) /\ pci_device_list \in Seq(PciDevice) /\ pciAt = <<1, 1>>
  <2>1. pciAt[1] = 1 /\ pciAt[2] = 1 /\ pciAt = <<1, 1>>
    BY DEF BarsOk
  <2>2. \A d \in 1 .. Len(pci_device_list) : \A i \in 1 .. Len(pci_device_list[d].bars) : i >= 1 /\ d >= 1
    OBVIOUS
  <2>3. \A d \in 1 .. Len(pci_device_list) : \A i \in 1 .. Len(pci_device_list[d].bars) :
          ~pci_device_list[d].bars[i].assigned
    BY <2>1, <2>2 DEF BarsOk
  <2> QED BY <2>1, <2>3 DEF BarsOk, PciTypes
<1>2. Bare(pci_device_list') /\ pci_device_list' \in Seq(PciDevice)
  <2>1. CASE pci_device_list' = pci_device_list
    BY <1>1, <2>1
  <2>2. ASSUME NEW new \in PciDevice, new.id = id, Len(new.bars) <= Len(machine[id].bars),
               \A i \in 1 .. Len(new.bars) : ~new.bars[i].assigned,
               pci_device_list' = <<new>> \o pci_device_list
        PROVE  Bare(pci_device_list') /\ pci_device_list' \in Seq(PciDevice)
    <3> DEFINE l == pci_device_list
               m == pci_device_list'
    <3>1. /\ m \in Seq(PciDevice) /\ Len(l) \in Nat /\ Len(m) = Len(l) + 1
          /\ m[1] = new /\ \A d \in 2 .. Len(l) + 1 : m[d] = l[d - 1]
      BY <1>1, <2>2
    <3>2. Bare(l)
      BY <1>1
    <3> HIDE DEF l, m
    <3>3. ASSUME NEW d \in 1 .. Len(m)
          PROVE  Len(m[d].bars) <= Len(machine[m[d].id].bars) /\ \A i \in 1 .. Len(m[d].bars) : ~m[d].bars[i].assigned
      <4>1. CASE d = 1
        BY <2>2, <3>1, <4>1
      <4>2. CASE d # 1
        <5>1. m[d] = l[d - 1] /\ d - 1 \in 1 .. Len(l)
          BY <3>1, <4>2
        <5> QED BY <3>2, <5>1
      <4> QED BY <4>1, <4>2
    <3> QED BY <3>1, <3>3 DEF m
  <2> QED BY <2>1, <2>2 DEF Asked
<1>3. BarsOk'
  BY <1>1, <1>2 DEF BarsOk
<1>4. PlacedOk'
  BY <1>2 DEF PlacedOk
<1>5. QED
  BY <1>2, <1>3, <1>4

\* The frame at work decides about its own bus only.
LEMMA PassedOnBus ==
    ASSUME MachineOk, PciTypes, StackOk, pciStack # <<>>, NEW x \in DOMAIN machine, x[1] = Top_.bus
    PROVE  /\ x \in PassedIds <=> (x[2] < Top_.dev \/ (x[2] = Top_.dev /\ x[3] < Top_.func))
           /\ x \in LeftIds <=> x[2] < Top_.dev
<1>1. Len(pciStack) \in 1 .. Len(pciStack) /\ Top_ = pciStack[Len(pciStack)]
  BY TopFrame
<1>2. \A k \in 1 .. Len(pciStack) : pciStack[k].bus = Top_.bus <=> k = Len(pciStack)
  BY <1>1 DEF StackOk
<1>3. x[1] \in visited_buses
  BY <1>1 DEF StackOk
<1>4. QED
  BY <1>1, <1>2, <1>3 DEF PassedIds, LeftIds

\* The top of the stack after it moved on.
LEMMA FrameMoved ==
    ASSUME MachineOk, PciTypes, StackOk, pciStack # <<>>, NEW next \in PciFrame, next.bus = Top_.bus,
           machine' = machine, visited_buses' = visited_buses, Len(pciStack') = Len(pciStack),
           \A k \in 1 .. Len(pciStack) : pciStack'[k] = IF k = Len(pciStack) THEN next ELSE pciStack[k],
           NEW x \in DOMAIN machine
    PROVE  /\ x[1] = Top_.bus => /\ x \in PassedIds' <=> (x[2] < next.dev \/ (x[2] = next.dev /\ x[3] < next.func))
                                 /\ x \in LeftIds' <=> x[2] < next.dev
           /\ x[1] # Top_.bus => (x \in PassedIds' <=> x \in PassedIds) /\ (x \in LeftIds' <=> x \in LeftIds)
<1>1. Len(pciStack) \in 1 .. Len(pciStack) /\ Top_ = pciStack[Len(pciStack)]
  BY TopFrame
<1>2. \A k \in 1 .. Len(pciStack) : pciStack[k].bus = Top_.bus <=> k = Len(pciStack)
  BY <1>1 DEF StackOk
<1>3. \A k \in 1 .. Len(pciStack') : pciStack'[k].bus = pciStack[k].bus
  BY <1>1
<1>4. CASE x[1] = Top_.bus
  <2>1. x[1] \in visited_buses
    BY <1>1, <1>4 DEF StackOk
  <2>2. \A k \in 1 .. Len(pciStack') : pciStack'[k].bus = x[1] <=> k = Len(pciStack)
    BY <1>2, <1>3, <1>4
  <2> QED BY <1>1, <1>4, <2>1, <2>2 DEF PassedIds, LeftIds
<1>5. CASE x[1] # Top_.bus
  <2>1. \A k \in 1 .. Len(pciStack) : pciStack'[k].bus = x[1] <=> pciStack[k].bus = x[1]
    BY <1>3
  <2>2. \A k \in 1 .. Len(pciStack) : pciStack[k].bus = x[1] => pciStack'[k] = pciStack[k]
    BY <1>1, <1>2, <1>5
  <2>3. \A k \in 1 .. Len(pciStack) : pciStack'[k].bus = x[1] => pciStack'[k] = pciStack[k]
    BY <2>1, <2>2
  <2> QED BY <1>5, <2>1, <2>2, <2>3 DEF PassedIds, LeftIds
<1>6. QED
  BY <1>4, <1>5

\* The fields of a frame of the stack.
LEMMA FrameFields ==
    ASSUME NEW f \in PciFrame
    PROVE  /\ f = [bus |-> f.bus, dev |-> f.dev, func |-> f.func]
           /\ f.bus \in Nat /\ f.dev \in 0 .. Slots /\ f.func \in 0 .. Functions_
BY DEF PciFrame

\* A frame that moves to another function.
LEMMA FrameFunc ==
    ASSUME NEW f \in PciFrame, NEW n \in 0 .. Functions_
    PROVE  /\ [f EXCEPT !.func = n] = [bus |-> f.bus, dev |-> f.dev, func |-> n]
           /\ [bus |-> f.bus, dev |-> f.dev, func |-> n] \in PciFrame
<1>1. [f EXCEPT !.func = n] = [bus |-> f.bus, dev |-> f.dev, func |-> n]
  BY FrameFields
<1>2. [bus |-> f.bus, dev |-> f.dev, func |-> n] \in PciFrame
  BY FrameFields DEF PciFrame
<1>3. QED
  BY <1>1, <1>2

\* A frame that moves to another device.
LEMMA FrameDev ==
    ASSUME NEW f \in PciFrame, NEW d \in 0 .. Slots
    PROVE  /\ [f EXCEPT !.dev = d] = [bus |-> f.bus, dev |-> d, func |-> f.func]
           /\ [bus |-> f.bus, dev |-> d, func |-> f.func] \in PciFrame
           /\ [bus |-> f.bus, dev |-> d, func |-> 0] \in PciFrame
<1>1. [f EXCEPT !.dev = d] = [bus |-> f.bus, dev |-> d, func |-> f.func]
  BY FrameFields
<1>3. [bus |-> f.bus, dev |-> d, func |-> f.func] \in PciFrame
  BY FrameFields DEF PciFrame
<1>4. [bus |-> f.bus, dev |-> d, func |-> 0] \in PciFrame
  <2>1. 0 \in 0 .. Functions_
    BY PciConstants
  <2> QED BY <2>1, FrameFields DEF PciFrame
<1>5. QED
  BY <1>1, <1>3, <1>4

\* The stack after its top moved on: the same buses, the frames below untouched.
LEMMA StackMoved ==
    ASSUME MachineOk, PciTypes, StackOk, pciStack # <<>>, NEW next \in PciFrame, next.bus = Top_.bus,
           machine' = machine, visited_buses' = visited_buses, pciScanned' = pciScanned,
           pciStack' # <<>>, Len(pciStack') = Len(pciStack),
           \A k \in 1 .. Len(pciStack) : pciStack'[k] = IF k = Len(pciStack) THEN next ELSE pciStack[k],
           next.func # 0 => /\ <<next.bus, next.dev, 0>> \in DOMAIN machine \ GoneIds'
                            /\ next.func < Functions_ => machine[<<next.bus, next.dev, 0>>].multi
    PROVE  StackOk'
<1>1. Len(pciStack) \in 1 .. Len(pciStack) /\ Top_ = pciStack[Len(pciStack)]
  BY TopFrame
<1>2. \A k \in 1 .. Len(pciStack') : pciStack'[k].bus = pciStack[k].bus
  BY <1>1
<1>3. \A k \in 1 .. Len(pciStack') : pciStack'[k].bus \in visited_buses'
  BY <1>2 DEF StackOk
<1>4. \A j, k \in 1 .. Len(pciStack') : pciStack'[j].bus = pciStack'[k].bus => j = k
  BY <1>2 DEF StackOk
<1>5. ASSUME NEW k \in 1 .. Len(pciStack'), pciStack'[k].func # 0 PROVE k = Len(pciStack) /\ pciStack'[k] = next
  <2>1. k # Len(pciStack) => pciStack'[k] = pciStack[k]
    OBVIOUS
  <2> QED BY <1>5, <2>1 DEF StackOk
<1>6. ASSUME NEW k \in 1 .. Len(pciStack'), pciStack'[k].func # 0
      PROVE  /\ k = Len(pciStack') /\ <<pciStack'[k].bus, pciStack'[k].dev, 0>> \in DOMAIN machine' \ GoneIds'
             /\ pciStack'[k].func < Functions_ => machine'[<<pciStack'[k].bus, pciStack'[k].dev, 0>>].multi
  BY <1>5, <1>6
<1>7. pciScanned' <=> pciStack' = <<>>
  BY DEF StackOk
<1>8. 0 \in visited_buses'
  BY DEF StackOk
<1>9. QED
  BY <1>3, <1>4, <1>6, <1>7, <1>8 DEF StackOk

\* What is left of an action that asks about a function.
LEMMA AskedInv ==
    ASSUME PciInv, NEW id \in PciWhere, Asked(id), ~pciScanned, ScanOk', LeastOk', StackOk',
           pciStack' \in Seq(PciFrame),
           pciDropped' \in Seq(PciWhere \X {"caps", "device"}),
           UNCHANGED <<machine, visited_buses, pciScanned, pci_io_next, pci_mem_next, pciAt, pciWrapped>>
    PROVE  PciInv'
<1>1. BarsOk' /\ PlacedOk' /\ pci_device_list' \in Seq(PciDevice)
  BY ScanAssignsNothing DEF PciInv
<1>2. MachineOk'
  BY DEF PciInv, MachineOk
<1>3. PciTypes'
  BY <1>1 DEF PciInv, PciTypes
<1>4. QED
  BY <1>1, <1>2, <1>3 DEF PciInv

\* pci_scan_bus, another function of a multi-function device.
LEMMA ScanFunctionInv ==
    ASSUME PciInv, ScanFunction
    PROVE  PciInv'
<1>0. MachineOk /\ PciTypes /\ StackOk /\ ScanOk /\ LeastOk /\ BarsOk /\ PlacedOk
  BY DEF PciInv
<1> DEFINE id == <<Top_.bus, Top_.dev, Top_.func>>
           next == [Top_ EXCEPT !.func = Top_.func + 1]
<1>1. pciStack # <<>> /\ Top_.func \in 1..(Functions_ - 1) /\ Function(id, next)
  BY DEF ScanFunction
<1>2. Len(pciStack) \in 1 .. Len(pciStack) /\ Top_ = pciStack[Len(pciStack)] /\ Top_ \in PciFrame /\ ~pciScanned
      /\ Top_.bus \in Nat /\ Top_.dev \in 0 .. Slots
  BY <1>0, <1>1, TopFrame DEF StackOk
<1>3. next \in PciFrame /\ next.bus = Top_.bus /\ next.dev = Top_.dev /\ next.func = Top_.func + 1
  <2>1. Top_.func + 1 \in 0 .. Functions_
    BY <1>1, PciConstants, SMTT(30)
  <2> DEFINE n == Top_.func + 1
  <2>2. next = [bus |-> Top_.bus, dev |-> Top_.dev, func |-> n] /\ next \in PciFrame
    <3>1. n \in 0 .. Functions_
      BY <2>1
    <3>2. next = [Top_ EXCEPT !.func = n]
      OBVIOUS
    <3> HIDE DEF n
    <3> QED BY <1>2, <3>1, <3>2, FrameFunc
  <2> QED BY <2>2
<1>4. /\ Function0(id) \in DOMAIN machine \ GoneIds /\ machine[Function0(id)].multi
      /\ Function0(id) = <<Top_.bus, Top_.dev, 0>>
  <2>1. Function0(id) = <<Top_.bus, Top_.dev, 0>>
    BY DEF Function0
  <2>2. Top_.func # 0 /\ Top_.func < Functions_
    BY <1>1, PciConstants, SMTT(30)
  <2> HIDE DEF id
  <2>3. <<Top_.bus, Top_.dev, 0>> \in DOMAIN machine \ GoneIds /\ machine[<<Top_.bus, Top_.dev, 0>>].multi
    BY <1>0, <1>2, <2>2 DEF StackOk
  <2> QED BY <2>1, <2>3
<1>5. id \in PciWhere /\ id[1] = Top_.bus /\ id[2] = Top_.dev /\ id[3] = Top_.func /\ id[3] # 0
  <2>1. Function0(id) \in PciWhere
    BY <1>0, <1>4 DEF MachineOk
  <2>2. Top_.dev \in 0 .. Slots - 1
    BY <1>4, <2>1 DEF PciWhere
  <2> QED BY <1>1, <1>2, <2>2 DEF PciWhere
<1> HIDE DEF id, next
<1>6. /\ Asked(id) /\ pciDropped' \in Seq(PciWhere \X {"caps", "device"})
      /\ pciStack' \in Seq(PciFrame) /\ Len(pciStack') = Len(pciStack) /\ pciStack' # <<>>
      /\ \A k \in 1 .. Len(pciStack) : pciStack'[k] = IF k = Len(pciStack) THEN next ELSE pciStack[k]
      /\ UNCHANGED <<machine, visited_buses, pciScanned, pci_io_next, pci_mem_next, pciAt, pciWrapped>>
  BY <1>0, <1>1, <1>3, <1>5, AskedOutcome
<1>7. GoneIds' \subseteq GoneIds \cup {id} /\ Function0(id) # id
  <2>1. Function0(id)[3] = 0
    BY DEF Function0
  <2> QED BY <1>5, <1>6, <2>1 DEF Asked
<1>8. StackOk'
  BY <1>0, <1>1, <1>3, <1>4, <1>6, <1>7, StackMoved
<1>9. ASSUME NEW x \in DOMAIN machine
      PROVE  /\ x \in PassedIds' <=> x \in PassedIds \/ x = id
             /\ x \in LeftIds' <=> x \in LeftIds
             /\ x = id => x \notin PassedIds
  <2>1. x \in PciWhere
    BY <1>0 DEF MachineOk
  <2>2. x = <<x[1], x[2], x[3]>> /\ x[1] \in Nat /\ x[2] \in Int /\ x[3] \in Int
    BY <2>1, Triple, PciConstants
  <2>3. /\ x[1] = Top_.bus => /\ x \in PassedIds' <=> (x[2] < next.dev \/ (x[2] = next.dev /\ x[3] < next.func))
                              /\ x \in LeftIds' <=> x[2] < next.dev
        /\ x[1] # Top_.bus => (x \in PassedIds' <=> x \in PassedIds) /\ (x \in LeftIds' <=> x \in LeftIds)
    BY <1>0, <1>1, <1>3, <1>6, FrameMoved
  <2>4. x[1] = Top_.bus => /\ x \in PassedIds <=> (x[2] < Top_.dev \/ (x[2] = Top_.dev /\ x[3] < Top_.func))
                           /\ x \in LeftIds <=> x[2] < Top_.dev
    BY <1>0, <1>1, PassedOnBus
  <2>5. x = id <=> x[1] = Top_.bus /\ x[2] = Top_.dev /\ x[3] = Top_.func
    BY <2>2, <1>5 DEF id
  <2>6. Top_.dev \in Int /\ Top_.func \in Int
    BY <1>1, <1>2, PciConstants
  <2> QED BY <1>3, <2>2, <2>3, <2>4, <2>5, <2>6
<1>10. PassedIds \subseteq DOMAIN machine /\ PassedIds' \subseteq DOMAIN machine /\ LeftIds' \subseteq DOMAIN machine
  BY <1>6 DEF PassedIds, LeftIds
<1>11. ScanOk' /\ LeastOk'
  <2>1. id \notin PassedIds /\ (id \in DOMAIN machine => id \in PassedIds') /\ PassedIds \subseteq PassedIds'
    BY <1>9, <1>10
  <2>2. \A x \in PassedIds' : x \in PassedIds \/ x = id
    BY <1>9, <1>10
  <2>3. \A x \in LeftIds' : x \in LeftIds
    BY <1>9, <1>10
  <2> QED BY <1>0, <1>4, <1>5, <1>6, <2>1, <2>2, <2>3, ScanKept
<1>12. QED
  BY <1>2, <1>5, <1>6, <1>8, <1>11, AskedInv

\* pci_scan_bus, function 0 of a device.
LEMMA ScanDeviceInv ==
    ASSUME PciInv, ScanDevice
    PROVE  PciInv'
<1>0. MachineOk /\ PciTypes /\ StackOk /\ ScanOk /\ LeastOk /\ BarsOk /\ PlacedOk
  BY DEF PciInv
<1> DEFINE id == <<Top_.bus, Top_.dev, 0>>
           skip == [Top_ EXCEPT !.dev = Top_.dev + 1]
           func == IF id \in DOMAIN machine /\ machine[id].multi THEN 1 ELSE Functions_
           on == [Top_ EXCEPT !.func = func]
<1>1. /\ pciStack # <<>> /\ Top_.dev < Slots /\ Top_.func = 0
      /\ \E next \in {skip, on} :
              /\ Function(id, next)
              /\ next = on <=> Len(pci_device_list') > Len(pci_device_list)
  BY DEF ScanDevice
<1>2. PICK next \in {skip, on} : /\ Function(id, next)
                                 /\ next = on <=> Len(pci_device_list') > Len(pci_device_list)
  BY <1>1
<1>3. Len(pciStack) \in 1 .. Len(pciStack) /\ Top_ = pciStack[Len(pciStack)] /\ Top_ \in PciFrame /\ ~pciScanned
      /\ Top_.bus \in Nat /\ Top_.dev \in 0 .. Slots
  BY <1>0, <1>1, TopFrame DEF StackOk
<1>4. func \in 1 .. Functions_
  BY PciConstants
<1>5. /\ skip \in PciFrame /\ skip.bus = Top_.bus /\ skip.dev = Top_.dev + 1 /\ skip.func = 0
      /\ on \in PciFrame /\ on.bus = Top_.bus /\ on.dev = Top_.dev /\ on.func = func
  <2> HIDE DEF func
  <2> DEFINE d == Top_.dev + 1
  <2>1. d \in 0 .. Slots /\ func \in 0 .. Functions_
    <3>1. d \in 0 .. Slots
      <4>1. Top_.dev < Slots /\ Top_.dev \in 0 .. Slots
        BY <1>1, <1>3, Zenon
      <4>2. \A n \in 0 .. Slots : n < Slots => n + 1 \in 0 .. Slots
        BY PciConstants
      <4> QED BY <4>1, <4>2
    <3>2. func \in 0 .. Functions_
      BY <1>4, PciConstants
    <3> QED BY <3>1, <3>2
  <2>2. skip = [Top_ EXCEPT !.dev = d]
    OBVIOUS
  <2> HIDE DEF d, skip
  <2>3. skip = [bus |-> Top_.bus, dev |-> d, func |-> Top_.func] /\ skip \in PciFrame
    <3>1. Top_ \in PciFrame /\ d \in 0 .. Slots
      BY <1>3, <2>1, Zenon
    <3>2. /\ [Top_ EXCEPT !.dev = d] = [bus |-> Top_.bus, dev |-> d, func |-> Top_.func]
          /\ [bus |-> Top_.bus, dev |-> d, func |-> Top_.func] \in PciFrame
      BY <3>1, FrameDev, Zenon
    <3> QED BY <2>2, <3>2, Zenon
  <2>4. on = [bus |-> Top_.bus, dev |-> Top_.dev, func |-> func] /\ on \in PciFrame
    BY <1>3, <2>1, FrameFunc
  <2> HIDE DEF on
  <2> QED BY <1>1, <2>3, <2>4 DEF d
<1>6. id \in PciWhere /\ id[1] = Top_.bus /\ id[2] = Top_.dev /\ id[3] = 0 /\ Function0(id) = id
  <2>1. Top_.dev \in 0 .. Slots - 1 /\ 0 \in 0 .. Functions_ - 1
    <3>1. Top_.dev < Slots /\ Top_.dev \in 0 .. Slots
      BY <1>1, <1>3, Zenon
    <3>2. /\ \A n \in 0 .. Slots : n < Slots => n \in 0 .. Slots - 1
          /\ 0 \in 0 .. Functions_ - 1
      BY PciConstants
    <3> QED BY <3>1, <3>2, Zenon
  <2>2. id \in PciWhere
    BY <1>3, <2>1 DEF PciWhere
  <2> QED BY <2>2 DEF Function0
<1> HIDE DEF id, skip, on
<1>7. /\ Asked(id) /\ pciDropped' \in Seq(PciWhere \X {"caps", "device"})
      /\ pciStack' \in Seq(PciFrame) /\ Len(pciStack') = Len(pciStack) /\ pciStack' # <<>>
      /\ \A k \in 1 .. Len(pciStack) : pciStack'[k] = IF k = Len(pciStack) THEN next ELSE pciStack[k]
      /\ UNCHANGED <<machine, visited_buses, pciScanned, pci_io_next, pci_mem_next, pciAt, pciWrapped>>
  <2>1. next \in PciFrame
    BY <1>2, <1>5
  <2> QED BY <1>0, <1>1, <1>2, <1>6, <2>1, AskedOutcome
\* The scan stays on the device exactly when function 0 was added.
<1>8. next = on <=> id \in DOMAIN machine \ GoneIds'
  <2>1. Len(pci_device_list) \in Nat
    BY <1>0 DEF PciTypes
  <2>2. GoneIds \subseteq PassedIds /\ (id \in DOMAIN machine => id \notin PassedIds)
    <3>1. id \in DOMAIN machine => id \notin PassedIds
      BY <1>0, <1>1, <1>3, <1>6, PassedOnBus
    <3> QED BY <1>0, <3>1 DEF ScanOk
  <2>3. CASE id \notin DOMAIN machine \ GoneIds'
    <3>1. pci_device_list' = pci_device_list
      <4>1. ASSUME id \in DOMAIN machine, GoneIds' = GoneIds PROVE FALSE
        BY <2>2, <2>3, <4>1
      <4> QED BY <1>7, <4>1 DEF Asked
    <3> QED BY <1>2, <2>1, <2>3, <3>1
  <2>4. CASE id \in DOMAIN machine \ GoneIds'
    <3>1. PICK new \in PciDevice : pci_device_list' = <<new>> \o pci_device_list
      BY <1>7, <2>4 DEF Asked
    <3>2. pci_device_list \in Seq(PciDevice)
      BY <1>0 DEF PciTypes
    <3>3. Len(pci_device_list') = Len(pci_device_list) + 1
      BY <3>1, <3>2
    <3> QED BY <1>2, <2>1, <2>4, <3>3
  <2> QED BY <2>3, <2>4
<1>9. next.bus = Top_.bus /\ next \in PciFrame
  BY <1>2, <1>5
<1>10. StackOk'
  <2>1. next.func # 0 => /\ <<next.bus, next.dev, 0>> \in DOMAIN machine \ GoneIds'
                         /\ next.func < Functions_ => machine[<<next.bus, next.dev, 0>>].multi
    <3>1. CASE next = skip
      BY <1>5, <3>1
    <3>2. CASE next = on
      <4>1. <<next.bus, next.dev, 0>> = id /\ next.func = func
        BY <1>5, <3>2 DEF id
      <4>2. func < Functions_ => machine[id].multi
        BY PciConstants
      <4> HIDE DEF func
      <4> QED BY <1>8, <3>2, <4>1, <4>2
    <3> QED BY <1>2, <3>1, <3>2
  <2> QED BY <1>0, <1>1, <1>7, <1>9, <2>1, StackMoved
<1>11. ASSUME NEW x \in DOMAIN machine
       PROVE  /\ x \in PassedIds => x \in PassedIds'
              /\ x = id => x \in PassedIds' /\ x \notin PassedIds
              /\ x \in PassedIds' => \/ x \in PassedIds \/ x = id
                                     \/ /\ x[3] # 0 /\ Function0(x) = id
                                        /\ (id \in DOMAIN machine \ GoneIds' => ~machine[id].multi)
              /\ x \in LeftIds' => x \in LeftIds \/ (Function0(x) = id /\ id \notin DOMAIN machine \ GoneIds')
  <2>1. x \in PciWhere
    BY <1>0 DEF MachineOk
  <2>2. x = <<x[1], x[2], x[3]>> /\ x[1] \in Nat /\ x[2] \in Int /\ x[3] \in Nat /\ x[3] < Functions_
    BY <2>1, Triple, PciConstants
  <2>3. /\ x[1] = Top_.bus => /\ x \in PassedIds' <=> (x[2] < next.dev \/ (x[2] = next.dev /\ x[3] < next.func))
                              /\ x \in LeftIds' <=> x[2] < next.dev
        /\ x[1] # Top_.bus => (x \in PassedIds' <=> x \in PassedIds) /\ (x \in LeftIds' <=> x \in LeftIds)
    BY <1>0, <1>1, <1>9, <1>7, FrameMoved
  <2>4. x[1] = Top_.bus => /\ x \in PassedIds <=> (x[2] < Top_.dev \/ (x[2] = Top_.dev /\ x[3] < Top_.func))
                           /\ x \in LeftIds <=> x[2] < Top_.dev
    BY <1>0, <1>1, PassedOnBus
  <2>5. x = id <=> x[1] = Top_.bus /\ x[2] = Top_.dev /\ x[3] = 0
    BY <2>2, <1>6 DEF id
  <2>6. Function0(x) = id <=> x[1] = Top_.bus /\ x[2] = Top_.dev
    BY <2>2, <1>6 DEF id, Function0
  <2>7. Top_.dev \in Int /\ Top_.func = 0
    BY <1>1, <1>3, PciConstants
  <2>8. CASE x[1] # Top_.bus
    BY <2>3, <2>5, <2>8
  <2>9. CASE x[1] = Top_.bus /\ next = skip
    <3>1. /\ x \in PassedIds' <=> x[2] <= Top_.dev
          /\ x \in LeftIds' <=> x[2] <= Top_.dev
          /\ x \in PassedIds <=> x[2] < Top_.dev
          /\ x \in LeftIds <=> x[2] < Top_.dev
      BY <1>5, <2>2, <2>3, <2>4, <2>7, <2>9
    <3>2. CASE next = on
      BY <1>5, <2>7, <2>9, <3>2
    <3>3. CASE next # on
      <4>1. id \notin DOMAIN machine \ GoneIds'
        BY <1>8, <3>3
      <4> QED BY <2>2, <2>5, <2>6, <2>7, <2>9, <3>1, <4>1
    <3> QED BY <3>2, <3>3
  <2>10. CASE x[1] = Top_.bus /\ next = on
    <3>1. /\ x \in PassedIds' <=> (x[2] < Top_.dev \/ (x[2] = Top_.dev /\ x[3] < func))
          /\ x \in LeftIds' <=> x[2] < Top_.dev
          /\ x \in PassedIds <=> x[2] < Top_.dev
          /\ x \in LeftIds <=> x[2] < Top_.dev
      <4> HIDE DEF func
      <4> QED BY <1>5, <2>2, <2>3, <2>4, <2>7, <2>10
    <3>2. id \in DOMAIN machine /\ machine[id].multi => func = 1
      OBVIOUS
    <3> HIDE DEF func
    <3> QED BY <1>4, <2>2, <2>5, <2>6, <2>7, <2>10, <3>1, <3>2, PciConstants
  <2> QED BY <1>2, <2>8, <2>9, <2>10
<1>12. PassedIds \subseteq DOMAIN machine /\ PassedIds' \subseteq DOMAIN machine /\ LeftIds' \subseteq DOMAIN machine
  BY <1>7 DEF PassedIds, LeftIds
<1>13. ScanOk' /\ LeastOk'
  <2>1. id \notin PassedIds /\ (id \in DOMAIN machine => id \in PassedIds') /\ PassedIds \subseteq PassedIds'
    BY <1>11, <1>12
  <2>2. \A x \in PassedIds' : \/ x \in PassedIds \/ x = id
                              \/ /\ x[3] # 0 /\ Function0(x) = id
                                 /\ (id \in DOMAIN machine \ GoneIds' => ~machine[id].multi)
    BY <1>11, <1>12
  <2>3. \A x \in LeftIds' : x \in LeftIds \/ (Function0(x) = id /\ id \notin DOMAIN machine \ GoneIds')
    BY <1>11, <1>12
  <2> QED BY <1>0, <1>6, <1>7, <2>1, <2>2, <2>3, ScanKept
<1>14. QED
  BY <1>3, <1>6, <1>7, <1>10, <1>13, AskedInv

\* What is left of an action that moves the scan without asking about a function.
LEMMA MovedInv ==
    ASSUME PciInv, ~pciScanned, StackOk',
           pciStack' \in Seq(PciFrame), visited_buses' \subseteq Nat, pciScanned' \in BOOLEAN,
           PassedIds' = PassedIds,
           \A x \in LeftIds' \ GoneIds : Single(x) => machine[x].secondary \in visited_buses',
           LeastOk',
           UNCHANGED <<machine, pci_device_list, pci_io_next, pci_mem_next, pciAt, pciDropped, pciWrapped>>
    PROVE  PciInv'
<1>1. MachineOk'
  BY DEF PciInv, MachineOk
<1>2. PciTypes'
  BY DEF PciInv, PciTypes
<1>3. ListedIds' = ListedIds /\ GoneIds' = GoneIds /\ QualifiedIds' = QualifiedIds
  <2>1. GoneIds' = GoneIds
    BY DEF GoneIds
  <2>2. ListedIds' = ListedIds
    BY DEF ListedIds
  <2> QED BY <2>1, <2>2 DEF QualifiedIds
<1>4. ScanOk'
  <2>1. ListedIds' = PassedIds' \cap QualifiedIds' /\ GoneIds' \subseteq PassedIds'
    BY <1>3 DEF PciInv, ScanOk
  <2>2. \A d, e \in 1 .. Len(pci_device_list') : pci_device_list'[d].id = pci_device_list'[e].id => d = e
    BY DEF PciInv, ScanOk
  <2>3. ASSUME NEW x \in LeftIds' \ GoneIds', Single(x)' PROVE machine'[x].secondary \in visited_buses'
    <3>1. Single(x)
      BY <2>3 DEF Single, Isbridge
    <3> QED BY <1>3, <2>3, <3>1
  <2> QED BY <2>1, <2>2, <2>3 DEF ScanOk
<1>5. BarsOk'
  <2>1. BarsOk
    BY DEF PciInv
  <2> QED BY <2>1 DEF BarsOk
<1>6. PlacedOk'
  <2>1. PlacedOk
    BY DEF PciInv
  <2> QED BY <2>1, SMTT(30) DEF PlacedOk, BarKept
<1>7. QED
  BY <1>1, <1>2, <1>4, <1>5, <1>6 DEF PciInv

\* pci_scan_bus returns to the bus above, or to pci_init.
LEMMA ScanReturnsInv ==
    ASSUME PciInv, ScanReturns
    PROVE  PciInv'
<1>0. MachineOk /\ PciTypes /\ StackOk /\ ScanOk /\ LeastOk
  BY DEF PciInv
<1>1. /\ pciStack # <<>> /\ Top_.dev = Slots /\ pciStack' = Front(pciStack) /\ pciScanned' = (Len(pciStack) = 1)
      /\ UNCHANGED <<machine, visited_buses, pci_device_list, pci_io_next, pci_mem_next, pciAt, pciDropped, pciWrapped>>
  BY DEF ScanReturns
<1> DEFINE n == Len(pciStack)
<1>2. n \in Nat \ {0} /\ Top_ = pciStack[n] /\ ~pciScanned
  BY <1>0, <1>1, TopFrame DEF StackOk
<1>3. pciStack' \in Seq(PciFrame) /\ Len(pciStack') = n - 1 /\ \A k \in 1 .. n - 1 : pciStack'[k] = pciStack[k]
  <2>1. pciStack \in Seq(PciFrame)
    BY <1>0 DEF PciTypes
  <2>2. pciStack' = SubSeq(pciStack, 1, n - 1)
    BY <1>1 DEF Front
  <2>3. n - 1 \in 0 .. Len(pciStack) /\ Len(pciStack) \in Nat
    BY <1>2
  <2> DEFINE q == n - 1
  <2>4. /\ SubSeq(pciStack, 1, q) \in Seq(PciFrame) /\ Len(SubSeq(pciStack, 1, q)) = q
        /\ \A k \in 1 .. q : SubSeq(pciStack, 1, q)[k] = pciStack[k]
    <3>1. q \in 0 .. Len(pciStack)
      BY <2>3
    <3> HIDE DEF q
    <3> QED BY <2>1, <2>3, <3>1
  <2> QED BY <2>2, <2>4
<1>4. GoneIds' = GoneIds
  BY <1>1 DEF GoneIds
<1>5. StackOk'
  <2>1. \A k \in 1 .. Len(pciStack') : k \in 1 .. n - 1 /\ k \in 1 .. n /\ k # n /\ pciStack'[k] = pciStack[k]
    BY <1>2, <1>3
  <2>2. \A k \in 1 .. Len(pciStack') : pciStack'[k].func = 0 /\ pciStack'[k].bus \in visited_buses'
    BY <1>0, <1>1, <2>1 DEF StackOk
  <2>3. \A j, k \in 1 .. Len(pciStack') : pciStack'[j].bus = pciStack'[k].bus => j = k
    BY <1>0, <2>1 DEF StackOk
  <2>4. pciScanned' <=> pciStack' = <<>>
    <3>1. pciStack' = <<>> <=> n = 1
      BY <1>2, <1>3
    <3>2. pciScanned' <=> n = 1
      BY <1>1
    <3> QED BY <3>1, <3>2
  <2>5. 0 \in visited_buses'
    BY <1>0, <1>1 DEF StackOk
  <2> QED BY <2>2, <2>3, <2>4, <2>5 DEF StackOk
<1>6. \A k \in 1 .. n : pciStack[k].bus = Top_.bus <=> k = n
  BY <1>0, <1>2 DEF StackOk
<1>7. ASSUME NEW x \in DOMAIN machine
      PROVE  (x \in PassedIds' <=> x \in PassedIds) /\ (x \in LeftIds' <=> x \in LeftIds)
  <2>1. CASE x[1] = Top_.bus
    <3>1. x \in PciWhere
      BY <1>0 DEF MachineOk
    <3>2. x[2] < Top_.dev
      BY <1>1, <3>1, Triple, PciConstants
    <3>3. x \in PassedIds /\ x \in LeftIds
      BY <1>0, <1>1, <2>1, <3>2, PassedOnBus
    <3>4. \A k \in 1 .. Len(pciStack') : pciStack'[k].bus # x[1]
      BY <1>2, <1>3, <1>6, <2>1
    <3>5. x[1] \in visited_buses
      BY <3>3 DEF PassedIds
    <3> QED BY <1>1, <3>3, <3>4, <3>5 DEF PassedIds, LeftIds
  <2>2. CASE x[1] # Top_.bus
    <3>1. \A k \in 1 .. n : pciStack[k].bus = x[1] => k \in 1 .. n - 1
      BY <1>2, <2>2
    <3> HIDE DEF n
    <3>2. \A k \in 1 .. n - 1 : k \in 1 .. n /\ pciStack'[k] = pciStack[k]
      BY <1>2, <1>3
    <3>3. Len(pciStack) = n
      BY DEF n
    <3> QED BY <1>1, <1>3, <3>1, <3>2, <3>3, SMTT(30) DEF PassedIds, LeftIds
  <2> QED BY <2>1, <2>2
<1>8. PassedIds' = PassedIds /\ LeftIds' = LeftIds
  <2>1. PassedIds \subseteq DOMAIN machine /\ PassedIds' \subseteq DOMAIN machine
        /\ LeftIds \subseteq DOMAIN machine /\ LeftIds' \subseteq DOMAIN machine
    BY <1>1 DEF PassedIds, LeftIds
  <2> QED BY <1>7, <2>1
<1>9. \A x \in LeftIds' \ GoneIds : Single(x) => machine[x].secondary \in visited_buses'
  BY <1>0, <1>1, <1>8 DEF ScanOk
<1>10. LeastOk'
  <2>1. ListedIds' = ListedIds
    BY <1>1 DEF ListedIds
  <2>2. PciBuses' = PciBuses
    BY <1>1 DEF PciBuses
  <2>3. ASSUME NEW bs \in SUBSET PciBuses, 0 \in bs, Closed(bs)' PROVE visited_buses' \subseteq bs
    <3>1. Closed(bs)
      BY <1>1, <2>1, <2>3 DEF Closed, Single, Isbridge
    <3> QED BY <1>0, <1>1, <2>3, <3>1 DEF LeastOk
  <2>4. visited_buses' \subseteq PciBuses
    BY <1>0, <1>1 DEF LeastOk
  <2> QED BY <2>2, <2>3, <2>4 DEF LeastOk
<1>11. visited_buses' \subseteq Nat /\ pciScanned' \in BOOLEAN
  BY <1>0, <1>1 DEF PciTypes
<1>12. QED
  BY <1>1, <1>2, <1>3, <1>5, <1>8, <1>9, <1>10, <1>11, MovedInv

\* pci_scan_bus recurs behind a bridge; a bus visited before is not entered again.
LEMMA ScanBehindInv ==
    ASSUME PciInv, ScanBehind
    PROVE  PciInv'
<1>0. MachineOk /\ PciTypes /\ StackOk /\ ScanOk /\ LeastOk
  BY DEF PciInv
<1> DEFINE id == <<Top_.bus, Top_.dev, 0>>
           n == Len(pciStack)
           next == [bus |-> Top_.bus, dev |-> Top_.dev + 1, func |-> 0]
           on == [pciStack EXCEPT ![Len(pciStack)] = next]
           s == machine[id].secondary
           new == [bus |-> s, dev |-> 0, func |-> 0]
           pushed == Isbridge(machine[id]) /\ s # 0 /\ s \notin visited_buses
<1>1. /\ pciStack # <<>> /\ Top_.func = Functions_
      /\ UNCHANGED <<machine, pciScanned, pci_device_list, pci_io_next, pci_mem_next, pciAt, pciDropped, pciWrapped>>
      /\ IF Isbridge(machine[id]) /\ s # 0
         THEN pciStack' = pci_scan_bus(on, s) /\ visited_buses' = visited_buses \cup {s}
         ELSE pciStack' = on /\ UNCHANGED visited_buses
  BY DEF ScanBehind
<1>2. /\ pciStack' = IF pushed THEN Append(on, new) ELSE on
      /\ visited_buses' = IF pushed THEN visited_buses \cup {s} ELSE visited_buses
      /\ (Isbridge(machine[id]) /\ s # 0) => s \in visited_buses'
  BY <1>1 DEF pci_scan_bus
<1>3. /\ n \in 1 .. n /\ n \in Nat \ {0} /\ Top_ = pciStack[n] /\ ~pciScanned /\ Top_ \in PciFrame
      /\ Top_.bus \in Nat /\ Top_.dev \in 0 .. Slots
  BY <1>0, <1>1, TopFrame DEF StackOk
<1>4. id \in DOMAIN machine \ GoneIds
  <2>1. Top_.func # 0
    BY <1>1, PciConstants
  <2> HIDE DEF next, on, s, new, pushed
  <2> QED BY <1>0, <1>3, <2>1 DEF StackOk
<1>5. id \in PciWhere /\ id[1] = Top_.bus /\ id[2] = Top_.dev /\ id[3] = 0 /\ Top_.dev < Slots
  <2>1. id \in PciWhere
    BY <1>0, <1>4 DEF MachineOk
  <2>2. id[1] = Top_.bus /\ id[2] = Top_.dev /\ id[3] = 0
    OBVIOUS
  <2>3. id[2] \in 0 .. Slots - 1
    <3> HIDE DEF id
    <3> QED BY <2>1, Triple
  <2> QED BY <1>3, <2>1, <2>2, <2>3, PciConstants
<1>6. next \in PciFrame /\ next.bus = Top_.bus /\ next.dev = Top_.dev + 1 /\ next.func = 0
  <2>1. Top_.dev + 1 \in 0 .. Slots /\ 0 \in 0 .. Functions_
    BY <1>3, <1>5, PciConstants, SMTT(30)
  <2> QED BY <1>3, <2>1 DEF PciFrame
<1>7. s \in Nat /\ new \in PciFrame /\ new.bus = s /\ new.dev = 0 /\ new.func = 0
  <2>1. machine[id] \in PciFunction
    BY <1>0, <1>4 DEF MachineOk
  <2>2. s \in Nat
    <3> HIDE DEF id
    <3> QED BY <2>1 DEF PciFunction
  <2>3. 0 \in 0 .. Slots /\ 0 \in 0 .. Functions_
    BY PciConstants
  <2> HIDE DEF s
  <2> QED BY <2>2, <2>3 DEF PciFrame
<1>8. on \in Seq(PciFrame) /\ Len(on) = n /\ \A k \in 1 .. n : on[k] = IF k = n THEN next ELSE pciStack[k]
  <2> HIDE DEF next
  <2> QED BY <1>0, <1>3, <1>6 DEF PciTypes
<1> HIDE DEF next, on, new
<1>9. /\ pciStack' \in Seq(PciFrame) /\ Len(pciStack') = (IF pushed THEN n + 1 ELSE n)
      /\ \A k \in 1 .. n : pciStack'[k] = IF k = n THEN next ELSE pciStack[k]
      /\ pushed => pciStack'[n + 1] = new
  <2> HIDE DEF pushed, n
  <2>1. CASE pushed
    <3>1. pciStack' = Append(on, new)
      BY <1>2, <2>1
    <3> QED BY <1>3, <1>7, <1>8, <2>1, <3>1
  <2>2. CASE ~pushed
    BY <1>2, <1>8, <2>2
  <2> QED BY <2>1, <2>2
<1> HIDE DEF n
<1>10. GoneIds' = GoneIds
  BY <1>1 DEF GoneIds
<1>11. \A k \in 1 .. n : /\ pciStack'[k].bus = pciStack[k].bus /\ pciStack[k].bus \in visited_buses
                         /\ pciStack'[k].func = 0
                         /\ pciStack[k].bus = Top_.bus <=> k = n
  <2>1. \A k \in 1 .. n : pciStack'[k].bus = pciStack[k].bus
    BY <1>3, <1>6, <1>9
  <2>2. \A k \in 1 .. n : k # n => pciStack[k].func = 0
    BY <1>0 DEF StackOk, n
  <2>3. \A k \in 1 .. n : pciStack'[k].func = 0
    BY <1>6, <1>9, <2>2
  <2>4. \A k \in 1 .. n : pciStack[k].bus \in visited_buses /\ (pciStack[k].bus = Top_.bus <=> k = n)
    BY <1>0, <1>3 DEF StackOk, n
  <2> QED BY <2>1, <2>3, <2>4
<1>12. \A k \in 1 .. Len(pciStack') : k \in 1 .. n \/ (pushed /\ k = n + 1 /\ pciStack'[k] = new)
  <2> HIDE DEF pushed
  <2> QED BY <1>3, <1>9
<1>13. StackOk'
  <2>1. \A k \in 1 .. Len(pciStack') : pciStack'[k].func = 0 /\ pciStack'[k].bus \in visited_buses'
    BY <1>2, <1>7, <1>11, <1>12
  <2>2. ASSUME NEW j \in 1 .. Len(pciStack'), NEW k \in 1 .. Len(pciStack'), pciStack'[j].bus = pciStack'[k].bus
        PROVE  j = k
    <3>1. CASE j \in 1 .. n /\ k \in 1 .. n
      BY <1>0, <1>11, <2>2, <3>1 DEF StackOk, n
    <3>2. CASE j \in 1 .. n /\ k \notin 1 .. n
      BY <1>7, <1>11, <1>12, <2>2, <3>2
    <3>3. CASE j \notin 1 .. n /\ k \in 1 .. n
      BY <1>7, <1>11, <1>12, <2>2, <3>3
    <3>4. CASE j \notin 1 .. n /\ k \notin 1 .. n
      BY <1>12, <3>4
    <3> QED BY <3>1, <3>2, <3>3, <3>4
  <2>3. pciScanned' <=> pciStack' = <<>>
    <3>1. Len(pciStack') # 0
      BY <1>3, <1>9
    <3> QED BY <1>1, <1>3, <3>1
  <2>4. 0 \in visited_buses'
    BY <1>0, <1>2 DEF StackOk
  <2> QED BY <2>1, <2>2, <2>3, <2>4 DEF StackOk
<1>14. ASSUME NEW x \in DOMAIN machine
       PROVE  /\ x \in PassedIds' <=> x \in PassedIds
              /\ x \in LeftIds' => x \in LeftIds \/ (x[1] = Top_.bus /\ x[2] = Top_.dev)
  <2>1. x \in PciWhere
    BY <1>0 DEF MachineOk
  <2>2. x[1] \in Nat /\ x[2] \in Nat /\ x[3] \in Nat /\ x[3] < Functions_
    BY <2>1, Triple, PciConstants
  <2>3. CASE x[1] = Top_.bus
    <3>1. x[1] \in visited_buses /\ x[1] \in visited_buses'
      BY <1>2, <1>3, <1>11, <2>3
    <3>2. \A k \in 1 .. Len(pciStack') : pciStack'[k].bus = x[1] <=> k = n
      BY <1>3, <1>7, <1>11, <1>12, <2>3, <3>1
    <3>3. n \in 1 .. Len(pciStack') /\ pciStack'[n] = next
      BY <1>3, <1>9
    <3>4. x \in PassedIds' <=> (x[2] < next.dev \/ (x[2] = next.dev /\ x[3] < next.func))
      BY <1>1, <3>1, <3>2, <3>3 DEF PassedIds
    <3>5. x \in LeftIds' <=> x[2] < next.dev
      BY <1>1, <3>1, <3>2, <3>3 DEF LeftIds
    <3>6. /\ x \in PassedIds <=> (x[2] < Top_.dev \/ (x[2] = Top_.dev /\ x[3] < Top_.func))
          /\ x \in LeftIds <=> x[2] < Top_.dev
      BY <1>0, <1>1, <2>3, PassedOnBus
    <3>7. Top_.dev \in Int /\ Top_.func = Functions_ /\ next.dev = Top_.dev + 1 /\ next.func = 0
      BY <1>1, <1>3, <1>6, PciConstants
    <3> QED BY <2>2, <2>3, <3>4, <3>5, <3>6, <3>7
  <2>4. CASE pushed /\ x[1] = s
    <3>1. x \notin PassedIds
      BY <2>4 DEF PassedIds
    <3>2. n + 1 \in 1 .. Len(pciStack') /\ pciStack'[n + 1] = new
      BY <1>3, <1>9, <2>4
    <3>3. x \notin PassedIds'
      BY <1>7, <2>2, <2>4, <3>2 DEF PassedIds
    <3>4. x \notin LeftIds'
      BY <1>7, <2>2, <2>4, <3>2, SMTT(30) DEF LeftIds
    <3> QED BY <3>1, <3>3, <3>4
  <2>5. CASE x[1] # Top_.bus /\ ~(pushed /\ x[1] = s)
    <3>1. x[1] \in visited_buses' <=> x[1] \in visited_buses
      BY <1>2, <2>5
    <3>2. \A k \in 1 .. Len(pciStack') : pciStack'[k].bus = x[1] => k \in 1 .. n /\ pciStack'[k] = pciStack[k]
      BY <1>7, <1>9, <1>11, <1>12, <2>5
    <3>3. \A k \in 1 .. n : pciStack[k].bus = x[1] => k \in 1 .. Len(pciStack') /\ pciStack'[k] = pciStack[k]
      <4>1. \A k \in 1 .. n : k \in 1 .. Len(pciStack')
        BY <1>3, <1>9
      <4> QED BY <1>9, <1>11, <2>5, <4>1
    <3> QED BY <1>1, <3>1, <3>2, <3>3, SMTT(30) DEF PassedIds, LeftIds, n
  <2> QED BY <2>3, <2>4, <2>5
<1>15. PassedIds' = PassedIds
  <2>1. PassedIds \subseteq DOMAIN machine /\ PassedIds' \subseteq DOMAIN machine
    BY <1>1 DEF PassedIds
  <2> QED BY <1>14, <2>1
<1>16. ASSUME NEW x \in LeftIds' \ GoneIds, Single(x) PROVE machine[x].secondary \in visited_buses'
  <2>1. x \in DOMAIN machine
    BY <1>1 DEF LeftIds
  <2>2. CASE x \in LeftIds
    BY <1>0, <1>2, <1>16, <2>2 DEF ScanOk
  <2>3. CASE x[1] = Top_.bus /\ x[2] = Top_.dev
    <3>1. x[3] = 0 /\ Isbridge(machine[x]) /\ machine[x].secondary # 0
      BY <1>16 DEF Single
    <3>2. x \in PciWhere
      BY <1>0, <2>1 DEF MachineOk
    <3>3. x = <<x[1], x[2], x[3]>>
      BY <3>2, Triple
    <3>4. x = id
      BY <2>3, <3>1, <3>3
    <3> QED BY <1>2, <3>1, <3>4
  <2> QED BY <1>14, <2>1, <2>2, <2>3
<1>17. LeastOk'
  <2>1. ListedIds' = ListedIds /\ id \in ListedIds
    <3>1. ListedIds' = ListedIds
      BY <1>1 DEF ListedIds
    <3>2. id \in QualifiedIds
      BY <1>4, <1>5 DEF QualifiedIds
    <3>3. id \in PassedIds
      <4>1. id[2] = Top_.dev /\ id[3] < Top_.func /\ id[1] = Top_.bus
        BY <1>1, <1>5, PciConstants
      <4> HIDE DEF id
      <4> QED BY <1>0, <1>1, <1>4, <4>1, PassedOnBus
    <3> QED BY <1>0, <3>1, <3>2, <3>3 DEF ScanOk
  <2>2. PciBuses' = PciBuses /\ s \in PciBuses
    BY <1>1, <1>4 DEF PciBuses
  <2>3. ASSUME NEW bs \in SUBSET PciBuses, 0 \in bs, Closed(bs)' PROVE visited_buses' \subseteq bs
    <3>1. Closed(bs)
      BY <1>1, <2>1, <2>3 DEF Closed, Single, Isbridge
    <3>2. visited_buses \subseteq bs
      BY <1>0, <2>3, <3>1 DEF LeastOk
    <3>3. CASE pushed
      <4>1. Single(id)
        BY <1>5, <3>3 DEF Single
      <4>2. id[1] \in bs
        BY <1>3, <1>5, <1>11, <3>2
      <4>3. s \in bs
        <5> HIDE DEF id, pushed
        <5> QED BY <2>1, <3>1, <4>1, <4>2 DEF Closed
      <4> QED BY <1>2, <3>2, <4>3
    <3>4. CASE ~pushed
      BY <1>2, <3>2, <3>4
    <3> QED BY <3>3, <3>4
  <2>4. visited_buses' \subseteq PciBuses
    <3>1. visited_buses \subseteq PciBuses
      BY <1>0 DEF LeastOk
    <3> QED BY <1>2, <2>2, <3>1
  <2> QED BY <2>2, <2>3, <2>4 DEF LeastOk
<1>18. visited_buses' \subseteq Nat /\ pciScanned' \in BOOLEAN
  <2>1. visited_buses \subseteq Nat /\ pciScanned \in BOOLEAN
    BY <1>0 DEF PciTypes
  <2> QED BY <1>1, <1>2, <1>7, <2>1
<1>19. QED
  BY <1>1, <1>3, <1>9, <1>13, <1>15, <1>16, <1>17, <1>18, MovedInv

\* Giving addresses leaves what the scan found as it is.
LEMMA AssignKeepsScan ==
    ASSUME PciInv, DOMAIN machine' = DOMAIN machine,
           \A x \in DOMAIN machine : /\ machine'[x].header = machine[x].header /\ machine'[x].multi = machine[x].multi
                                     /\ machine'[x].secondary = machine[x].secondary,
           Len(pci_device_list') = Len(pci_device_list),
           \A e \in 1 .. Len(pci_device_list) : pci_device_list'[e].id = pci_device_list[e].id,
           UNCHANGED <<pciStack, visited_buses, pciScanned, pciDropped>>
    PROVE  StackOk' /\ ScanOk' /\ LeastOk'
<1>0. StackOk /\ ScanOk /\ LeastOk /\ MachineOk
  BY DEF PciInv
<1>1. GoneIds' = GoneIds
  BY DEF GoneIds
<1>2. ListedIds' = ListedIds
  BY DEF ListedIds
<1>3. PassedIds' = PassedIds /\ LeftIds' = LeftIds
  BY DEF PassedIds, LeftIds
<1>4. QualifiedIds' = QualifiedIds
  BY <1>1 DEF QualifiedIds
<1>5. StackOk'
  BY <1>0, <1>1 DEF StackOk
<1>6. \A x \in DOMAIN machine : Isbridge(machine'[x]) <=> Isbridge(machine[x])
  BY DEF Isbridge
<1>7. \A x \in DOMAIN machine : (x[3] = 0 /\ Isbridge(machine'[x]) /\ machine'[x].secondary # 0) <=> Single(x)
  BY <1>6 DEF Single
<1>8. ScanOk'
  <2>1. ListedIds' = PassedIds' \cap QualifiedIds' /\ GoneIds' \subseteq PassedIds'
    BY <1>0, <1>1, <1>2, <1>3, <1>4 DEF ScanOk
  <2>2. \A c, e \in 1 .. Len(pci_device_list') : pci_device_list'[c].id = pci_device_list'[e].id => c = e
    BY <1>0 DEF ScanOk
  <2>3. ASSUME NEW x \in LeftIds' \ GoneIds', x[3] = 0 /\ Isbridge(machine'[x]) /\ machine'[x].secondary # 0
        PROVE  machine'[x].secondary \in visited_buses'
    <3>1. x \in DOMAIN machine
      BY <1>3 DEF LeftIds
    <3> QED BY <1>0, <1>1, <1>3, <1>7, <2>3, <3>1 DEF ScanOk
  <2> QED BY <2>1, <2>2, <2>3 DEF ScanOk, Single
<1>9. LeastOk'
  <2>1. PciBuses' = PciBuses
    BY DEF PciBuses
  <2>2. ASSUME NEW bs \in SUBSET PciBuses, 0 \in bs,
               \A x \in ListedIds' : (x[1] \in bs /\ x[3] = 0 /\ Isbridge(machine'[x]) /\ machine'[x].secondary # 0)
                   => machine'[x].secondary \in bs
        PROVE  visited_buses' \subseteq bs
    <3>1. ListedIds \subseteq DOMAIN machine
      BY <1>0 DEF ScanOk, PassedIds
    <3>2. Closed(bs)
      BY <1>2, <1>7, <2>2, <3>1 DEF Closed
    <3> QED BY <1>0, <2>2, <3>2 DEF LeastOk
  <2>3. visited_buses' \subseteq PciBuses
    BY <1>0 DEF LeastOk
  <2> QED BY <2>1, <2>2, <2>3 DEF LeastOk, Closed, Single
<1>10. QED
  BY <1>5, <1>8, <1>9

\* One field of a function changes.
LEMMA FunctionUpdates ==
    ASSUME NEW f \in PciFunction, NEW regs \in Seq(PciRegister), NEW b \in BOOLEAN
    PROVE  /\ [f EXCEPT !.bars = regs] \in PciFunction /\ [f EXCEPT !.bars = regs].header = f.header
           /\ [f EXCEPT !.bars = regs].multi = f.multi /\ [f EXCEPT !.bars = regs].secondary = f.secondary
           /\ [f EXCEPT !.bars = regs].bars = regs
           /\ [f EXCEPT !.command = b] \in PciFunction /\ [f EXCEPT !.command = b].header = f.header
           /\ [f EXCEPT !.command = b].multi = f.multi /\ [f EXCEPT !.command = b].secondary = f.secondary
           /\ [f EXCEPT !.command = b].bars = f.bars
BY DEF PciFunction

\* The address of a register changes.
LEMMA RegisterUpdates ==
    ASSUME NEW r \in PciRegister, NEW n \in Nat
    PROVE  /\ [r EXCEPT !.addr = n] \in PciRegister /\ [r EXCEPT !.addr = n].addr = n
           /\ [r EXCEPT !.addr = n].kind = r.kind /\ [r EXCEPT !.addr = n].size = r.size
BY DEF PciRegister

\* The BARs of a listed device change.
LEMMA DeviceUpdates ==
    ASSUME NEW dev \in PciDevice, NEW bars \in Seq(PciBar)
    PROVE  /\ [dev EXCEPT !.bars = bars] \in PciDevice /\ [dev EXCEPT !.bars = bars].id = dev.id
           /\ [dev EXCEPT !.bars = bars].bars = bars
BY DEF PciDevice

\* Another record for one function of the machine.
LEMMA MachineUpdates ==
    ASSUME MachineOk, NEW id \in DOMAIN machine, NEW f \in PciFunction, machine' = [machine EXCEPT ![id] = f],
           f.header = machine[id].header, f.multi = machine[id].multi, f.secondary = machine[id].secondary,
           Len(f.bars) = Len(machine[id].bars),
           \A i \in 1 .. Len(f.bars) : /\ f.bars[i].kind = machine[id].bars[i].kind
                                       /\ f.bars[i].size = machine[id].bars[i].size
    PROVE  /\ MachineOk' /\ DOMAIN machine' = DOMAIN machine
           /\ machine'[id] = f /\ \A x \in DOMAIN machine : x # id => machine'[x] = machine[x]
           /\ \A x \in DOMAIN machine : /\ machine'[x].header = machine[x].header
                                        /\ machine'[x].multi = machine[x].multi
                                        /\ machine'[x].secondary = machine[x].secondary
                                        /\ Len(machine'[x].bars) = Len(machine[x].bars)
<1>1. machine \in [DOMAIN machine -> PciFunction]
  BY DEF MachineOk
<1>2. /\ DOMAIN machine' = DOMAIN machine /\ machine'[id] = f
      /\ \A x \in DOMAIN machine : x # id => machine'[x] = machine[x]
  BY <1>1
<1>3. machine' \in [DOMAIN machine' -> PciFunction]
  BY <1>1
<1>4. f.bars \in Seq(PciRegister) /\ machine[id].bars \in Seq(PciRegister)
  BY <1>1 DEF PciFunction
<1>5. ASSUME NEW x \in DOMAIN machine
      PROVE  /\ machine'[x].header = "bridge" => Len(machine'[x].bars) >= 2
             /\ \A i \in DOMAIN machine'[x].bars : machine'[x].bars[i].kind # "mem64" =>
                      machine'[x].bars[i].size < MemMod
  <2>1. /\ machine[x].header = "bridge" => Len(machine[x].bars) >= 2
        /\ \A i \in DOMAIN machine[x].bars : machine[x].bars[i].kind # "mem64" => machine[x].bars[i].size < MemMod
    BY DEF MachineOk
  <2>2. CASE x # id
    BY <1>2, <2>1, <2>2
  <2>3. CASE x = id
    <3>1. DOMAIN f.bars = 1 .. Len(f.bars) /\ DOMAIN machine[id].bars = 1 .. Len(f.bars)
      BY <1>4
    <3> QED BY <1>2, <2>1, <2>3, <3>1
  <2> QED BY <2>2, <2>3
<1>6. MachineOk'
  BY <1>2, <1>3, <1>5 DEF MachineOk
<1>7. QED
  BY <1>2, <1>6

\* pci_assign_bar's arithmetic, before the BAR and its register are written.
LEMMA RoundUpIs ==
    ASSUME NEW n \in Nat, NEW align \in Nat \ {0}
    PROVE  /\ RoundUp(n, align) \in Nat /\ n <= RoundUp(n, align) /\ RoundUp(n, align) < n + align
           /\ RoundUp(n, align) % align = 0
<1>1. RoundUp(n, align) = AlignUp(n, align)
  BY DEF RoundUp, AlignUp
<1>2. AlignUp(n, align) \in Nat /\ n <= AlignUp(n, align) /\ AlignUp(n, align) % align = 0
  BY AlignUpIs
<1> DEFINE m == n + align - 1
           q == m \div align
           r == m % align
<1>3. AlignUp(n, align) <= m
  <2>1. m \in Nat
    OBVIOUS
  <2> HIDE DEF m
  <2>2. q \in Nat /\ r \in 0 .. align - 1 /\ m = align * q + r
    BY <2>1, DivFacts
  <2> HIDE DEF q, r
  <2>3. AlignUp(n, align) = q * align
    BY DEF AlignUp, q, m
  <2>4. q * align = align * q /\ align * q \in Int
    BY <2>2
  <2> DEFINE v == align * q
  <2>5. m = v + r /\ AlignUp(n, align) = v /\ v \in Int
    BY <2>2, <2>3, <2>4
  <2> HIDE DEF v
  <2> QED BY <2>1, <2>2, <2>5
<1>4. QED
  BY <1>1, <1>2, <1>3

\* A sum that wraps at most once.
LEMMA SmallMod ==
    ASSUME NEW a \in Nat, NEW m \in Nat \ {0}
    PROVE  /\ a % m \in 0 .. m - 1
           /\ a < m => a % m = a
           /\ m <= a /\ a < 2 * m => a % m = a - m
<1>1. a % m \in 0 .. m - 1 /\ a \div m \in Nat /\ a = m * (a \div m) + (a % m)
  BY DivFacts
<1> DEFINE q == a \div m
           r == a % m
<1>2. q \in Nat /\ r \in 0 .. m - 1 /\ a = m * q + r
  BY <1>1
<1> HIDE DEF q, r
<1>3. q = 0 \/ q = 1 \/ (q >= 2 /\ m * q >= 2 * m)
  <2>1. ASSUME q >= 2 PROVE m * q >= 2 * m
    <3>1. PICK c \in Nat : q = 2 + c
      <4>1. q - 2 \in Nat /\ q = 2 + (q - 2)
        BY <1>2, <2>1
      <4> QED BY <4>1
    <3>2. m * q = 2 * m + m * c /\ m * c \in Nat
      BY <3>1
    <3> DEFINE v == m * c
               w == m * q
    <3>3. w = 2 * m + v /\ v \in Nat
      BY <3>2
    <3> HIDE DEF v, w
    <3>4. w >= 2 * m
      BY <3>3
    <3> QED BY <3>4 DEF w
  <2> QED BY <1>2, <2>1
<1>4. CASE q = 0
  BY <1>2, <1>4 DEF r
<1>5. CASE q = 1
  BY <1>2, <1>5 DEF r
<1>6. CASE q >= 2 /\ m * q >= 2 * m
  <2> DEFINE w == m * q
  <2>1. a = w + r /\ w >= 2 * m /\ w \in Int
    BY <1>2, <1>6
  <2> HIDE DEF w
  <2>2. a >= 2 * m
    BY <1>2, <2>1
  <2> QED BY <1>1, <2>2
<1>7. QED
  BY <1>3, <1>4, <1>5, <1>6

\* Where a BAR of a given size lands in memory space: unless rounding wraps, above
\* all that was handed out; and if it fits, below the end of the space.
LEMMA MemoryPlace ==
    ASSUME NEW n \in 0 .. MemMod - 1, NEW size \in 1 .. MemMod - 1
    PROVE  LET mem == RoundUp(n, size) % MemMod IN
           /\ mem \in 0 .. MemMod - 1
           /\ mem >= n => mem % size = 0
           /\ (mem + size) % MemMod >= mem => mem + size \in 0 .. MemMod - 1
<1> DEFINE u == RoundUp(n, size)
           mem == u % MemMod
<1>0. MemMod \in Nat \ {0} /\ n \in Nat /\ size \in Nat \ {0} /\ n < MemMod /\ size < MemMod
  BY PciConstants
<1>1. u \in Nat /\ n <= u /\ u < n + size /\ u % size = 0
  BY <1>0, RoundUpIs
<1> HIDE DEF u
<1>2. /\ mem \in 0 .. MemMod - 1
      /\ u < MemMod => mem = u
      /\ MemMod <= u /\ u < 2 * MemMod => mem = u - MemMod
  BY <1>0, <1>1, SmallMod
<1> HIDE DEF mem
<1>3. mem >= n => mem = u
  BY <1>0, <1>1, <1>2
<1> DEFINE w == mem + size
<1>4. w \in Nat
  BY <1>0, <1>2
<1>5. /\ w < MemMod => w % MemMod = w
      /\ MemMod <= w /\ w < 2 * MemMod => w % MemMod = w - MemMod
  <2> HIDE DEF w
  <2> QED BY <1>0, <1>4, SmallMod
<1>6. w % MemMod >= mem => w < MemMod
  BY <1>0, <1>2, <1>5
<1>7. mem = RoundUp(n, size) % MemMod
  BY DEF mem, u
<1>8. mem \in 0 .. MemMod - 1
  BY <1>2
<1>9. mem >= n => mem % size = 0
  BY <1>1, <1>3
<1>10. (mem + size) % MemMod >= mem => mem + size \in 0 .. MemMod - 1
  <2>1. w = mem + size
    OBVIOUS
  <2> HIDE DEF w
  <2>2. w % MemMod >= mem => w \in 0 .. MemMod - 1
    BY <1>0, <1>4, <1>6
  <2> QED BY <2>1, <2>2
<1>11. QED
  BY <1>7, <1>8, <1>9, <1>10

\* A BAR stays within what was handed out as the next free addresses grow.
LEMMA KeptLater ==
    ASSUME NEW bar \in PciBar, NEW reg, NEW io \in Nat, NEW mem \in Nat, NEW io1 \in Nat, NEW mem1 \in Nat,
           io <= io1, mem <= mem1, BarKept(bar, reg, io, mem)
    PROVE  BarKept(bar, reg, io1, mem1)
<1>1. bar.base \in Nat /\ bar.size \in Nat
  BY PciConstants DEF PciBar
<1> DEFINE top == bar.base + bar.size
<1>2. top \in Nat
  BY <1>1
<1>3. /\ bar.base % bar.size = 0 /\ reg.addr = bar.base
      /\ bar.is_io => IoFirst <= bar.base /\ top <= IoLimit /\ top <= io
      /\ ~bar.is_io => MemFirst <= bar.base /\ top <= mem
  BY DEF BarKept
<1> HIDE DEF top
<1>4. (top <= io => top <= io1) /\ (top <= mem => top <= mem1)
  BY <1>2
<1>5. QED
  BY <1>3, <1>4 DEF BarKept, top

\* BAR i of function d, whose turn it is, becomes new; it lies above what was handed
\* out before, and the next free address above it.
NewBar(d, i, new) ==
    /\ d \in 1 .. Len(pci_device_list) /\ i \in 1 .. Len(pci_device_list[d].bars) /\ pciAt = <<d, i>>
    /\ new \in PciBar /\ new.is_io = pci_device_list[d].bars[i].is_io /\ new.size > 0 /\ new.assigned
    /\ Len(pci_device_list') = Len(pci_device_list)
    /\ \A e \in 1 .. Len(pci_device_list) : /\ pci_device_list'[e].id = pci_device_list[e].id
                                            /\ Len(pci_device_list'[e].bars) = Len(pci_device_list[e].bars)
    /\ \A e \in 1 .. Len(pci_device_list) : \A j \in 1 .. Len(pci_device_list[e].bars) :
          pci_device_list'[e].bars[j] = IF e = d /\ j = i THEN new ELSE pci_device_list[e].bars[j]
    /\ \A e \in 1 .. Len(pci_device_list) : \A j \in 1 .. Len(pci_device_list[e].bars) :
          (e # d \/ j < i) => machine'[pci_device_list[e].id].bars[j] = machine[pci_device_list[e].id].bars[j]
    /\ machine'[pci_device_list[d].id].bars[i].addr = new.base
    /\ pci_io_next' \in Nat /\ pci_mem_next' \in Nat /\ pci_io_next <= pci_io_next'
    /\ ~pciWrapped' => /\ ~pciWrapped /\ pci_mem_next <= pci_mem_next' /\ new.base % new.size = 0
                       /\ new.is_io => /\ pci_io_next <= new.base /\ new.base + new.size <= IoLimit
                                       /\ new.base + new.size <= pci_io_next'
                       /\ ~new.is_io => /\ pci_mem_next <= new.base /\ new.base + new.size <= pci_mem_next'

\* A BAR placed above all others keeps the addresses aligned, apart and in the registers.
LEMMA PlacedKept ==
    ASSUME PciInv, NEW d, NEW i, NEW new, NewBar(d, i, new)
    PROVE  PlacedOk'
<1>0. PciTypes /\ BarsOk /\ PlacedOk /\ IoFirst <= pci_io_next /\ pci_io_next \in Nat /\ pci_mem_next \in Nat
  <2>1. PciTypes /\ BarsOk /\ PlacedOk
    BY DEF PciInv
  <2>2. pci_io_next \in Nat /\ pci_mem_next \in 0 .. MemMod - 1
    BY <2>1 DEF PciTypes
  <2>3. pci_mem_next \in Nat
    BY <2>2, PciConstants
  <2>4. IoFirst <= pci_io_next
    BY <2>1 DEF PlacedOk
  <2> QED BY <2>1, <2>2, <2>3, <2>4
<1>1. IoFirst <= pci_io_next'
  <2>1. pci_io_next <= pci_io_next' /\ pci_io_next' \in Nat
    BY DEF NewBar
  <2> HIDE DEF NewBar
  <2> QED BY <1>0, <2>1, PciConstants
<1> DEFINE l == pci_device_list
           m == pci_device_list'
<1>2. /\ \A e \in 1 .. Len(l) : l[e] \in PciDevice /\ l[e].bars \in Seq(PciBar) /\ Len(l[e].bars) \in Nat
      /\ \A e \in 1 .. Len(l) : \A j \in 1 .. Len(l[e].bars) : l[e].bars[j] \in PciBar
  <2>1. \A e \in 1 .. Len(l) : l[e] \in PciDevice
    BY <1>0 DEF PciTypes
  <2>2. \A dev \in PciDevice : dev.bars \in Seq(PciBar)
    BY DEF PciDevice
  <2>3. \A e \in 1 .. Len(l) : l[e].bars \in Seq(PciBar)
    BY <2>1, <2>2
  <2> HIDE DEF l
  <2> QED BY <2>1, <2>3
<1>3. \A bar \in PciBar : bar.base \in Nat /\ bar.size \in Nat /\ bar.is_io \in BOOLEAN
  BY PciConstants DEF PciBar
<1> USE DEF NewBar
<1>4. /\ d \in 1 .. Len(l) /\ i \in 1 .. Len(l[d].bars) /\ Len(m) = Len(l)
      /\ \A e \in 1 .. Len(l) : m[e].id = l[e].id /\ Len(m[e].bars) = Len(l[e].bars)
      /\ \A e \in 1 .. Len(l) : \A j \in 1 .. Len(l[e].bars) :
            m[e].bars[j] = IF e = d /\ j = i THEN new ELSE l[e].bars[j]
  OBVIOUS
\* What was given an address before comes before this BAR.
<1>5. \A e \in 1 .. Len(l) : \A j \in 1 .. Len(l[e].bars) :
          l[e].bars[j].assigned => (e < d \/ (e = d /\ j < i)) /\ l[e].bars[j].size > 0
  <2>1. pciAt[1] = d /\ pciAt[2] = i
    OBVIOUS
  <2> QED BY <1>0, <2>1 DEF BarsOk
<1>6. ASSUME ~pciWrapped'
      PROVE  /\ ~pciWrapped /\ MemFirst <= pci_mem_next /\ MemFirst <= pci_mem_next' /\ pci_mem_next <= pci_mem_next'
             /\ new.base % new.size = 0
             /\ new.is_io => /\ pci_io_next <= new.base /\ new.base + new.size <= IoLimit
                             /\ new.base + new.size <= pci_io_next'
             /\ ~new.is_io => /\ pci_mem_next <= new.base /\ new.base + new.size <= pci_mem_next'
  <2>1. ~pciWrapped /\ pci_mem_next <= pci_mem_next'
    BY <1>6
  <2>2. MemFirst <= pci_mem_next
    BY <1>0, <2>1 DEF PlacedOk
  <2>3. MemFirst <= pci_mem_next'
    BY <1>0, <2>1, <2>2, PciConstants
  <2> QED BY <1>6, <2>1, <2>2, <2>3
<1>7. ASSUME ~pciWrapped', NEW e \in 1 .. Len(l), NEW j \in 1 .. Len(l[e].bars), l[e].bars[j].assigned
      PROVE  BarKept(l[e].bars[j], machine[l[e].id].bars[j], pci_io_next, pci_mem_next)
  BY <1>0, <1>6, <1>7 DEF PlacedOk
<1> HIDE DEF l, m
<1>8. ASSUME ~pciWrapped', NEW e \in 1 .. Len(l), NEW j \in 1 .. Len(l[e].bars), m[e].bars[j].assigned
      PROVE  BarKept(m[e].bars[j], machine'[l[e].id].bars[j], pci_io_next', pci_mem_next')
  <2>1. CASE e = d /\ j = i
    <3>1. m[e].bars[j] = new
      BY <1>4, <2>1
    <3>2. machine'[l[e].id].bars[j].addr = new.base
      BY <2>1 DEF l
    <3>3. new.base \in Nat /\ new.size \in Nat /\ new.is_io \in BOOLEAN
      BY <1>3
    <3>4. /\ new.is_io => IoFirst <= new.base
          /\ ~new.is_io => MemFirst <= new.base
      BY <1>0, <1>6, <1>8, <3>3, PciConstants, SMTT(30)
    <3> QED BY <1>6, <1>8, <3>1, <3>2, <3>4 DEF BarKept
  <2>2. CASE ~(e = d /\ j = i)
    <3>1. m[e].bars[j] = l[e].bars[j] /\ l[e].bars[j].assigned
      BY <1>4, <1>8, <2>2
    <3>2. machine'[l[e].id].bars[j] = machine[l[e].id].bars[j]
      <4>1. e # d \/ j < i
        BY <1>5, <3>1
      <4> QED BY <4>1 DEF l
    <3>3. l[e].bars[j].base \in Nat /\ l[e].bars[j].size \in Nat
      BY <1>2, <1>3
    <3>4. BarKept(l[e].bars[j], machine[l[e].id].bars[j], pci_io_next, pci_mem_next)
      BY <1>7, <1>8, <3>1
    <3>5. pci_io_next <= pci_io_next' /\ pci_mem_next <= pci_mem_next' /\ pci_io_next' \in Nat /\ pci_mem_next' \in Nat
      BY <1>6, <1>8
    <3>6. BarKept(l[e].bars[j], machine[l[e].id].bars[j], pci_io_next', pci_mem_next')
      BY <1>0, <1>2, <3>4, <3>5, KeptLater
    <3> QED BY <3>1, <3>2, <3>6
  <2> QED BY <2>1, <2>2
\* The new BAR is clear of every earlier one in its space.
<1>9. ASSUME ~pciWrapped', NEW e \in 1 .. Len(l), NEW j \in 1 .. Len(l[e].bars), l[e].bars[j].assigned,
             l[e].bars[j].is_io = new.is_io
      PROVE  l[e].bars[j].base + l[e].bars[j].size <= new.base
  <2>1. BarKept(l[e].bars[j], machine[l[e].id].bars[j], pci_io_next, pci_mem_next)
    BY <1>7, <1>9
  <2> DEFINE x == l[e].bars[j]
  <2>2. x.base \in Nat /\ x.size \in Nat /\ new.base \in Nat /\ new.is_io \in BOOLEAN
    BY <1>2, <1>3
  <2> HIDE DEF x
  <2>3. /\ x.is_io => x.base + x.size <= pci_io_next
        /\ ~x.is_io => x.base + x.size <= pci_mem_next
    BY <2>1 DEF BarKept, x
  <2>4. x.is_io = new.is_io
    BY <1>9 DEF x
  <2>5. x.base + x.size <= new.base
    <3> HIDE DEF NewBar
    <3>1. CASE new.is_io
      <4>1. pci_io_next <= new.base /\ x.base + x.size <= pci_io_next
        BY <1>6, <1>9, <2>3, <2>4, <3>1
      <4> QED BY <1>0, <2>2, <4>1
    <3>2. CASE ~new.is_io
      <4>1. pci_mem_next <= new.base /\ x.base + x.size <= pci_mem_next
        BY <1>6, <1>9, <2>3, <2>4, <3>2
      <4> QED BY <1>0, <2>2, <4>1
    <3> QED BY <3>1, <3>2
  <2> QED BY <2>5 DEF x
<1>10. ASSUME ~pciWrapped', NEW e \in 1 .. Len(l), NEW f \in 1 .. Len(l),
              NEW j \in 1 .. Len(l[e].bars), NEW k \in 1 .. Len(l[f].bars),
              m[e].bars[j].assigned, m[f].bars[k].assigned, m[e].bars[j].is_io = m[f].bars[k].is_io, <<e, j>> # <<f, k>>
       PROVE  BarsApart(m[e].bars[j], m[f].bars[k])
  <2>1. CASE e = d /\ j = i
    <3>1. ~(f = d /\ k = i)
      BY <1>10, <2>1
    <3>2. m[e].bars[j] = new /\ m[f].bars[k] = l[f].bars[k]
      BY <1>4, <2>1, <3>1
    <3> QED BY <1>9, <1>10, <3>2 DEF BarsApart
  <2>2. CASE ~(e = d /\ j = i) /\ f = d /\ k = i
    <3>1. m[e].bars[j] = l[e].bars[j] /\ m[f].bars[k] = new
      BY <1>4, <2>2
    <3> QED BY <1>9, <1>10, <3>1 DEF BarsApart
  <2>3. CASE ~(e = d /\ j = i) /\ ~(f = d /\ k = i)
    <3>1. m[e].bars[j] = l[e].bars[j] /\ m[f].bars[k] = l[f].bars[k]
      BY <1>4, <2>3
    <3>2. ~pciWrapped
      BY <1>6, <1>10
    <3> QED BY <1>0, <1>10, <3>1, <3>2, SMTT(30) DEF PlacedOk, l
  <2> QED BY <2>1, <2>2, <2>3
<1>11. PlacedOk'
  <2>1. /\ Len(pci_device_list') = Len(l) /\ \A e \in 1 .. Len(l) : pci_device_list'[e] = m[e]
        /\ \A e \in 1 .. Len(l) : pci_device_list'[e].id = l[e].id /\ Len(pci_device_list'[e].bars) = Len(l[e].bars)
    BY <1>4 DEF m
  <2>2. ASSUME ~pciWrapped'
        PROVE  \A e \in 1 .. Len(pci_device_list') : \A j \in 1 .. Len(pci_device_list'[e].bars) :
                  pci_device_list'[e].bars[j].assigned =>
                    BarKept(pci_device_list'[e].bars[j], machine'[pci_device_list'[e].id].bars[j],
                            pci_io_next', pci_mem_next')
    BY <1>8, <2>1, <2>2
  <2>3. ASSUME ~pciWrapped'
        PROVE  \A e, f \in 1 .. Len(pci_device_list') :
                \A j \in 1 .. Len(pci_device_list'[e].bars) : \A k \in 1 .. Len(pci_device_list'[f].bars) :
                (/\ pci_device_list'[e].bars[j].assigned /\ pci_device_list'[f].bars[k].assigned
                 /\ pci_device_list'[e].bars[j].is_io = pci_device_list'[f].bars[k].is_io /\ <<e, j>> # <<f, k>>)
                => BarsApart(pci_device_list'[e].bars[j], pci_device_list'[f].bars[k])
    <3>1. ASSUME NEW e \in 1 .. Len(pci_device_list'), NEW f \in 1 .. Len(pci_device_list'),
                 NEW j \in 1 .. Len(pci_device_list'[e].bars), NEW k \in 1 .. Len(pci_device_list'[f].bars),
                 pci_device_list'[e].bars[j].assigned, pci_device_list'[f].bars[k].assigned,
                 pci_device_list'[e].bars[j].is_io = pci_device_list'[f].bars[k].is_io, <<e, j>> # <<f, k>>
          PROVE  BarsApart(pci_device_list'[e].bars[j], pci_device_list'[f].bars[k])
      <4>1. e \in 1 .. Len(l) /\ f \in 1 .. Len(l) /\ j \in 1 .. Len(l[e].bars) /\ k \in 1 .. Len(l[f].bars)
        BY <2>1
      <4>2. m[e].bars[j].assigned /\ m[f].bars[k].assigned /\ m[e].bars[j].is_io = m[f].bars[k].is_io
        BY <2>1, <3>1, <4>1
      <4>3. BarsApart(m[e].bars[j], m[f].bars[k])
        BY <1>10, <2>3, <3>1, <4>1, <4>2
      <4> QED BY <4>3 DEF m
    <3> QED BY <3>1
  <2>4. ~pciWrapped' => MemFirst <= pci_mem_next'
    BY <1>6
  <2> QED BY <1>1, <2>2, <2>3, <2>4 DEF PlacedOk, BarKept, BarsApart
<1>12. QED
  BY <1>11

\* pci_init's loop gives the next BAR an address, or enables the device.
LEMMA AssignNextInv ==
    ASSUME PciInv, AssignNext
    PROVE  PciInv'
<1>0. MachineOk /\ PciTypes /\ StackOk /\ ScanOk /\ LeastOk /\ BarsOk /\ PlacedOk
  BY DEF PciInv
<1> DEFINE l == pci_device_list
           d == pciAt[1]
           i == pciAt[2]
           id == l[d].id
           bars == l[d].bars
<1>1. /\ pciScanned /\ d <= Len(l) /\ UNCHANGED <<pciStack, visited_buses, pciScanned, pciDropped>>
      /\ IF i > Len(bars)
         THEN /\ pciAt' = <<d + 1, 1>> /\ machine' = [machine EXCEPT ![id].command = TRUE]
              /\ UNCHANGED <<pci_device_list, pci_io_next, pci_mem_next, pciWrapped>>
         ELSE /\ pciAt' = <<d, i + 1>>
              /\ IF bars[i].size > 0 /\ bars[i].base = 0 THEN pci_assign_bar(d, i)
                 ELSE UNCHANGED <<machine, pci_device_list, pci_io_next, pci_mem_next, pciWrapped>>
  BY DEF AssignNext
<1>2. /\ l \in Seq(PciDevice) /\ Len(l) \in Nat /\ d \in 1 .. Len(l) /\ i \in Nat \ {0} /\ pciAt = <<d, i>>
      /\ d \in Nat \ {0}
  <2>1. l \in Seq(PciDevice) /\ d \in Nat \ {0} /\ i \in Nat \ {0} /\ pciAt = <<d, i>>
    BY <1>0 DEF PciTypes
  <2>2. d \in 1 .. Len(l)
    <3> HIDE DEF l, d, i
    <3> QED BY <1>1, <2>1
  <2> QED BY <2>1, <2>2
<1>3. l[d] \in PciDevice /\ bars \in Seq(PciBar) /\ Len(bars) \in Nat /\ id \in DOMAIN machine /\ id \in PciWhere
      /\ \A e \in 1 .. Len(l) : l[e] \in PciDevice /\ l[e].bars \in Seq(PciBar) /\ l[e].id \in DOMAIN machine
  <2>1. \A dev \in PciDevice : dev.bars \in Seq(PciBar)
    BY DEF PciDevice
  <2>2. \A e \in 1 .. Len(l) : l[e] \in PciDevice
    BY <1>2
  <2>3. \A e \in 1 .. Len(l) : l[e].id \in ListedIds
    BY DEF ListedIds
  <2>4. ListedIds \subseteq DOMAIN machine
    BY <1>0 DEF ScanOk, PassedIds
  <2>5. DOMAIN machine \subseteq PciWhere
    BY <1>0 DEF MachineOk
  <2> HIDE DEF l, d
  <2> QED BY <1>2, <2>1, <2>2, <2>3, <2>4, <2>5
<1>4. /\ machine[id] \in PciFunction /\ machine[id].bars \in Seq(PciRegister) /\ Len(machine[id].bars) \in Nat
      /\ Len(bars) <= Len(machine[id].bars)
  <2>1. machine[id] \in PciFunction
    BY <1>0, <1>3 DEF MachineOk
  <2>2. machine[id].bars \in Seq(PciRegister)
    <3> HIDE DEF id
    <3> QED BY <2>1 DEF PciFunction
  <2>3. Len(bars) <= Len(machine[id].bars)
    BY <1>0, <1>2 DEF BarsOk
  <2> QED BY <2>1, <2>2, <2>3
<1>5. /\ \A e \in 1 .. Len(l) : Len(l[e].bars) <= Len(machine[l[e].id].bars)
      /\ \A e \in 1 .. Len(l) : \A j \in 1 .. Len(l[e].bars) :
            l[e].bars[j].assigned => l[e].bars[j].size > 0 /\ (e < d \/ (e = d /\ j < i))
  BY <1>0 DEF BarsOk
<1>6. \A c, e \in 1 .. Len(l) : l[c].id = l[e].id => c = e
  BY <1>0 DEF ScanOk
<1>7. pci_io_next \in Nat /\ pci_mem_next \in 0 .. MemMod - 1 /\ pciWrapped \in BOOLEAN
  BY <1>0 DEF PciTypes
<1>8. CASE i > Len(bars)
  <2>1. /\ pciAt' = <<d + 1, 1>> /\ machine' = [machine EXCEPT ![id].command = TRUE]
        /\ UNCHANGED <<pci_device_list, pci_io_next, pci_mem_next, pciWrapped>>
    BY <1>1, <1>8
  <2> DEFINE f == [machine[id] EXCEPT !.command = TRUE]
  <2>2. machine' = [machine EXCEPT ![id] = f]
    BY <2>1
  <2>3. /\ f \in PciFunction /\ f.header = machine[id].header /\ f.multi = machine[id].multi
        /\ f.secondary = machine[id].secondary /\ f.bars = machine[id].bars
    <3>1. TRUE \in BOOLEAN
      OBVIOUS
    <3>2. machine[id] \in PciFunction
      BY <1>4
    <3>3. machine[id].bars \in Seq(PciRegister)
      BY <1>4
    <3> HIDE DEF id
    <3> QED BY <3>1, <3>2, <3>3, FunctionUpdates
  <2> HIDE DEF f, l, d, i, id, bars
  <2>4. /\ MachineOk' /\ DOMAIN machine' = DOMAIN machine
        /\ machine'[id] = f /\ \A x \in DOMAIN machine : x # id => machine'[x] = machine[x]
        /\ \A x \in DOMAIN machine : /\ machine'[x].header = machine[x].header /\ machine'[x].multi = machine[x].multi
                                     /\ machine'[x].secondary = machine[x].secondary
    BY <1>0, <1>3, <2>2, <2>3, MachineUpdates
  <2>5. \A x \in DOMAIN machine : machine'[x].bars = machine[x].bars
    BY <2>3, <2>4
  <2>6. StackOk' /\ ScanOk' /\ LeastOk'
    BY <1>1, <2>1, <2>4, AssignKeepsScan
  <2>7. PciTypes'
    <3>1. pciAt' \in (Nat \ {0}) \X (Nat \ {0})
      BY <1>2, <2>1
    <3> QED BY <1>0, <1>1, <2>1, <3>1 DEF PciTypes
  <2>8. BarsOk'
    <3>1. pciAt'[1] = d + 1 /\ pciAt'[2] = 1
      BY <2>1
    <3>2. pciScanned'
      BY <1>1
    <3>3. ASSUME NEW e \in 1 .. Len(l), NEW j \in 1 .. Len(l[e].bars), l[e].bars[j].assigned
          PROVE  l[e].bars[j].size > 0 /\ e < d + 1
      BY <1>2, <1>5, <3>3
    <3>4. \A e \in 1 .. Len(l) : Len(l[e].bars) <= Len(machine'[l[e].id].bars)
      BY <1>3, <1>5, <2>5
    <3> QED BY <2>1, <3>1, <3>2, <3>3, <3>4 DEF BarsOk, l
  <2>9. PlacedOk'
    <3>1. \A e \in 1 .. Len(pci_device_list) :
            machine'[pci_device_list[e].id].bars = machine[pci_device_list[e].id].bars
      BY <1>3, <2>5 DEF l
    <3> QED BY <1>0, <2>1, <3>1 DEF PlacedOk
  <2> QED BY <2>4, <2>6, <2>7, <2>8, <2>9 DEF PciInv
<1>9. CASE /\ ~(i > Len(bars)) /\ pciAt' = <<d, i + 1>>
           /\ UNCHANGED <<machine, pci_device_list, pci_io_next, pci_mem_next, pciWrapped>>
  <2> HIDE DEF l, d, i, id, bars
  <2>1. StackOk' /\ ScanOk' /\ LeastOk'
    BY <1>1, <1>9, AssignKeepsScan
  <2>2. PciTypes'
    <3>1. pciAt' \in (Nat \ {0}) \X (Nat \ {0})
      BY <1>2, <1>9
    <3> QED BY <1>0, <1>1, <1>9, <3>1 DEF PciTypes
  <2>3. BarsOk'
    <3>1. pciAt'[1] = d /\ pciAt'[2] = i + 1
      BY <1>9
    <3>2. pciScanned'
      BY <1>1
    <3>3. ASSUME NEW e \in 1 .. Len(l), NEW j \in 1 .. Len(l[e].bars), l[e].bars[j].assigned
          PROVE  l[e].bars[j].size > 0 /\ (e < d \/ (e = d /\ j < i + 1))
      <4>1. Len(l[e].bars) \in Nat
        BY <1>3
      <4>2. l[e].bars[j].size > 0 /\ (e < d \/ (e = d /\ j < i))
        BY <1>5, <3>3
      <4>3. j \in Int /\ i \in Int
        BY <1>2, <4>1
      <4>4. j < i => j < i + 1
        BY <4>3
      <4> QED BY <4>2, <4>4
    <3> QED BY <1>5, <1>9, <3>1, <3>2, <3>3 DEF BarsOk, l
  <2>4. PlacedOk'
    BY <1>0, <1>9 DEF PlacedOk
  <2>5. MachineOk'
    BY <1>0, <1>9 DEF MachineOk
  <2> QED BY <2>1, <2>2, <2>3, <2>4, <2>5 DEF PciInv
<1>10. CASE /\ ~(i > Len(bars)) /\ pciAt' = <<d, i + 1>> /\ bars[i].size > 0 /\ bars[i].base = 0 /\ pci_assign_bar(d, i)
  <2> DEFINE bar == bars[i]
             registers == machine[id].bars
             io == RoundUp(pci_io_next, bar.size)
             mem == RoundUp(pci_mem_next, bar.size) % MemMod
             base == IF bar.is_io THEN io ELSE mem
             fits == IF bar.is_io THEN io + bar.size <= IoLimit ELSE (mem + bar.size) % MemMod >= mem
             new == [bar EXCEPT !.base = base, !.assigned = TRUE]
             regs == [j \in DOMAIN registers |->
                       IF j = i THEN [registers[j] EXCEPT !.addr = base]
                       ELSE IF j = i + 1 /\ registers[i].kind = "mem64" THEN [registers[j] EXCEPT !.addr = 0]
                       ELSE registers[j]]
  <2>1. /\ pci_io_next' = IF bar.is_io THEN io + (IF fits THEN bar.size ELSE 0) ELSE pci_io_next
        /\ pci_mem_next' = IF bar.is_io THEN pci_mem_next ELSE mem + (IF fits THEN bar.size ELSE 0)
        /\ pciWrapped' = (pciWrapped \/ (~bar.is_io /\ mem < pci_mem_next))
        /\ IF fits THEN /\ pci_device_list' = [pci_device_list EXCEPT ![d].bars[i] = new]
                        /\ machine' = [machine EXCEPT ![id].bars = regs]
           ELSE UNCHANGED <<pci_device_list, machine>>
    BY <1>10 DEF pci_assign_bar
  <2>2. i \in 1 .. Len(bars) /\ bar \in PciBar
    <3>1. i \in 1 .. Len(bars)
      <4> HIDE DEF bars, i
      <4> QED BY <1>2, <1>3, <1>10
    <3> HIDE DEF bars, i
    <3> QED BY <1>3, <3>1
  <2>3. bar.size \in 1 .. MemMod - 1 /\ bar.size \in Nat \ {0} /\ bar.is_io \in BOOLEAN /\ bar.base \in Nat
    <3> HIDE DEF bar
    <3>1. bar.size \in 0 .. MemMod - 1 /\ bar.is_io \in BOOLEAN /\ bar.base \in Nat
      BY <2>2 DEF PciBar
    <3>2. bar.size > 0
      BY <1>10 DEF bar
    <3> QED BY <3>1, <3>2, PciConstants
  <2> HIDE DEF l, d, i, id, bars, bar, regs, new, registers
  <2>4. io \in Nat /\ pci_io_next <= io /\ io % bar.size = 0
    BY <1>7, <2>3, RoundUpIs
  <2>5. /\ mem \in 0 .. MemMod - 1
        /\ mem >= pci_mem_next => mem % bar.size = 0
        /\ (mem + bar.size) % MemMod >= mem => mem + bar.size \in 0 .. MemMod - 1
    BY <1>7, <2>3, MemoryPlace
  <2> HIDE DEF io, mem
  <2>11. /\ pciWrapped' \in BOOLEAN
         /\ pciWrapped' <=> (pciWrapped \/ (~bar.is_io /\ mem < pci_mem_next))
    <3>1. pciWrapped' = (pciWrapped \/ (~bar.is_io /\ mem < pci_mem_next))
      BY <2>1
    <3> QED BY <3>1, Zenon
  <2>14. /\ bar.is_io => base = io /\ (fits <=> io + bar.size <= IoLimit)
         /\ ~bar.is_io => base = mem /\ (fits <=> (mem + bar.size) % MemMod >= mem)
    <3>1. ASSUME bar.is_io PROVE base = io /\ (fits <=> io + bar.size <= IoLimit)
      BY <3>1, Zenon
    <3>2. ASSUME ~bar.is_io PROVE base = mem /\ (fits <=> (mem + bar.size) % MemMod >= mem)
      BY <3>2, Zenon
    <3> QED BY <3>1, <3>2, Zenon
  <2>15. /\ pci_io_next' = IF bar.is_io THEN io + (IF fits THEN bar.size ELSE 0) ELSE pci_io_next
         /\ pci_mem_next' = IF bar.is_io THEN pci_mem_next ELSE mem + (IF fits THEN bar.size ELSE 0)
    BY <2>1, Zenon
  <2> HIDE DEF fits, base
  <2>12. bar.is_io => /\ pci_mem_next' = pci_mem_next
                      /\ fits => pci_io_next' = io + bar.size
                      /\ ~fits => pci_io_next' = io
    BY <2>15, <2>3, <2>4
  <2>13. ~bar.is_io => /\ pci_io_next' = pci_io_next
                       /\ fits => pci_mem_next' = mem + bar.size
                       /\ ~fits => pci_mem_next' = mem
    <3>1. mem + 0 = mem
      BY <2>5, PciConstants
    <3> QED BY <2>15, <3>1
  <2>6. /\ pci_io_next' \in Nat /\ pci_io_next <= pci_io_next'
        /\ pci_mem_next' \in 0 .. MemMod - 1 /\ pci_mem_next' \in Nat /\ pciWrapped' \in BOOLEAN
        /\ ~pciWrapped' => ~pciWrapped /\ pci_mem_next <= pci_mem_next'
    <3>1. CASE bar.is_io
      <4>1. pci_io_next' \in Nat /\ pci_io_next <= pci_io_next'
        BY <1>7, <2>3, <2>4, <2>12, <3>1
      <4> QED BY <1>7, <2>11, <2>12, <3>1, <4>1, PciConstants
    <3>2. CASE ~bar.is_io
      <4>1. pci_mem_next' \in 0 .. MemMod - 1 /\ mem <= pci_mem_next'
        BY <2>3, <2>5, <2>13, <2>14, <3>2, PciConstants
      <4>2. pci_mem_next \in Int /\ mem \in Int /\ pci_mem_next' \in Int /\ pci_mem_next' \in Nat
        BY <1>7, <2>5, <4>1, PciConstants
      <4>3. ~pciWrapped' => ~pciWrapped /\ pci_mem_next <= mem
        BY <2>11, <3>2, <4>2
      <4> QED BY <1>7, <2>11, <2>13, <3>2, <4>1, <4>2, <4>3
    <3> QED BY <3>1, <3>2
  <2>7. base \in Nat
    BY <2>4, <2>5, <2>14, PciConstants
  <2>8. (~pciWrapped' /\ fits) =>
           /\ base % bar.size = 0
           /\ bar.is_io => pci_io_next <= base /\ base + bar.size <= IoLimit /\ base + bar.size <= pci_io_next'
           /\ ~bar.is_io => pci_mem_next <= base /\ base + bar.size <= pci_mem_next'
    <3>1. CASE bar.is_io
      BY <2>3, <2>4, <2>12, <2>14, <3>1
    <3>2. CASE ~bar.is_io
      <4>1. ~pciWrapped' => mem >= pci_mem_next
        <5>1. pci_mem_next \in Int /\ mem \in Int
          BY <1>7, <2>5, PciConstants
        <5> QED BY <2>11, <3>2, <5>1
      <4>2. pci_mem_next \in Int /\ mem \in Int
        BY <1>7, <2>5, PciConstants
      <4>3. fits => mem + bar.size <= pci_mem_next'
        BY <2>3, <2>13, <3>2, <4>2
      <4> QED BY <2>5, <2>14, <3>2, <4>1, <4>2, <4>3
    <3> QED BY <3>1, <3>2
  <2>9. CASE ~fits
    <3>1. UNCHANGED <<pci_device_list, machine>>
      BY <2>1, <2>9
    <3>2. StackOk' /\ ScanOk' /\ LeastOk'
      BY <1>1, <3>1, AssignKeepsScan
    <3>3. PciTypes'
      <4>1. pciAt' \in (Nat \ {0}) \X (Nat \ {0})
        BY <1>2, <1>10
      <4> QED BY <1>0, <1>1, <2>6, <3>1, <4>1 DEF PciTypes
    <3>4. BarsOk'
      <4>1. pciAt'[1] = d /\ pciAt'[2] = i + 1
        BY <1>10
      <4>2. pciScanned'
        BY <1>1
      <4>3. ASSUME NEW e \in 1 .. Len(l), NEW j \in 1 .. Len(l[e].bars), l[e].bars[j].assigned
            PROVE  l[e].bars[j].size > 0 /\ (e < d \/ (e = d /\ j < i + 1))
        <5>1. Len(l[e].bars) \in Nat
          BY <1>3
        <5>2. l[e].bars[j].size > 0 /\ (e < d \/ (e = d /\ j < i))
          BY <1>5, <4>3
        <5>3. j \in Int /\ i \in Int
          BY <1>2, <5>1
        <5>4. j < i => j < i + 1
          BY <5>3
        <5> QED BY <5>2, <5>4
      <4> QED BY <1>5, <3>1, <4>1, <4>2, <4>3 DEF BarsOk, l
    <3>5. PlacedOk'
      <4>1. IoFirst <= pci_io_next'
        BY <1>0, <1>7, <2>6, PciConstants DEF PlacedOk
      <4>2. ASSUME ~pciWrapped' PROVE MemFirst <= pci_mem_next'
        BY <1>0, <1>7, <2>6, <4>2, PciConstants DEF PlacedOk
      <4>3. ASSUME ~pciWrapped', NEW e \in 1 .. Len(l), NEW j \in 1 .. Len(l[e].bars), l[e].bars[j].assigned
            PROVE  BarKept(l[e].bars[j], machine[l[e].id].bars[j], pci_io_next', pci_mem_next')
        <5>1. BarKept(l[e].bars[j], machine[l[e].id].bars[j], pci_io_next, pci_mem_next)
          BY <1>0, <2>6, <4>3 DEF PlacedOk, l
        <5>2. l[e].bars[j] \in PciBar
          BY <1>3
        <5> QED BY <1>7, <2>6, <4>3, <5>1, <5>2, KeptLater, PciConstants, SMTT(30)
      <4> QED BY <1>0, <2>6, <3>1, <4>1, <4>2, <4>3 DEF PlacedOk, l
    <3>6. MachineOk'
      BY <1>0, <3>1 DEF MachineOk
    <3> QED BY <3>2, <3>3, <3>4, <3>5, <3>6 DEF PciInv
  <2>10. CASE fits
    <3>1. /\ pci_device_list' = [pci_device_list EXCEPT ![d].bars[i] = new]
          /\ machine' = [machine EXCEPT ![id].bars = regs]
      BY <2>1, <2>10
    <3>2. /\ new \in PciBar /\ new.base = base /\ new.is_io = bar.is_io /\ new.size = bar.size /\ new.assigned
      <4>1. TRUE \in BOOLEAN
        OBVIOUS
      <4> DEFINE b == TRUE
      <4>2. new = [bar EXCEPT !.base = base, !.assigned = b] /\ b \in BOOLEAN /\ b
        BY DEF new
      <4> HIDE DEF b
      <4>3. /\ new \in PciBar /\ new.base = base /\ new.is_io = bar.is_io /\ new.size = bar.size
            /\ new.assigned = b
        <5>1. /\ [bar EXCEPT !.base = base, !.assigned = b] \in PciBar
              /\ [bar EXCEPT !.base = base, !.assigned = b].base = base
              /\ [bar EXCEPT !.base = base, !.assigned = b].is_io = bar.is_io
              /\ [bar EXCEPT !.base = base, !.assigned = b].size = bar.size
              /\ [bar EXCEPT !.base = base, !.assigned = b].assigned = b
          BY <2>2, <2>7, <4>2 DEF PciBar
        <5> QED BY <4>2, <5>1, Zenon
      <4> QED BY <4>2, <4>3, Zenon
    <3>3. /\ registers \in Seq(PciRegister) /\ DOMAIN registers = 1 .. Len(registers) /\ Len(registers) \in Nat
          /\ i \in 1 .. Len(registers)
      BY <1>4, <2>2, <1>3, <1>2 DEF registers
    <3>4. ASSUME NEW j \in 1 .. Len(registers)
          PROVE  /\ regs[j] \in PciRegister /\ regs[j].kind = registers[j].kind /\ regs[j].size = registers[j].size
                 /\ j = i => regs[j].addr = base
                 /\ j < i => regs[j] = registers[j]
      <4>1. registers[j] \in PciRegister
        BY <3>3
      <4>2. j \in Int /\ i \in Int /\ 0 \in Nat
        BY <1>2
      <4>3. CASE j = i
        <5>1. regs[j] = [registers[j] EXCEPT !.addr = base]
          BY <3>3, <4>3 DEF regs
        <5> QED BY <2>7, <4>1, <4>3, <5>1, RegisterUpdates
      <4>4. CASE j = i + 1 /\ registers[i].kind = "mem64"
        <5>1. regs[j] = [registers[j] EXCEPT !.addr = 0]
          BY <3>3, <4>2, <4>4 DEF regs
        <5> QED BY <4>1, <4>2, <4>4, <5>1, RegisterUpdates
      <4>5. CASE j # i /\ ~(j = i + 1 /\ registers[i].kind = "mem64")
        <5>1. regs[j] = registers[j]
          BY <3>3, <4>5 DEF regs
        <5> QED BY <4>1, <4>5, <5>1
      <4> QED BY <4>3, <4>4, <4>5
    <3>5. regs \in Seq(PciRegister) /\ Len(regs) = Len(registers)
      <4>1. regs = [j \in 1 .. Len(registers) |-> regs[j]]
        BY <3>3 DEF regs
      <4> QED BY <3>3, <3>4, <4>1
    <3> DEFINE f == [machine[id] EXCEPT !.bars = regs]
    <3>6. /\ machine' = [machine EXCEPT ![id] = f]
          /\ f \in PciFunction /\ f.header = machine[id].header /\ f.multi = machine[id].multi
          /\ f.secondary = machine[id].secondary /\ f.bars = regs
      <4>1. machine' = [machine EXCEPT ![id] = f]
        BY <3>1
      <4>2. TRUE \in BOOLEAN
        OBVIOUS
      <4>3. machine[id] \in PciFunction
        BY <1>4
      <4> QED BY <3>5, <4>1, <4>2, <4>3, FunctionUpdates
    <3> HIDE DEF f
    <3>7. /\ MachineOk' /\ DOMAIN machine' = DOMAIN machine
          /\ machine'[id] = f /\ \A x \in DOMAIN machine : x # id => machine'[x] = machine[x]
          /\ \A x \in DOMAIN machine : /\ machine'[x].header = machine[x].header /\ machine'[x].multi = machine[x].multi
                                       /\ machine'[x].secondary = machine[x].secondary
                                       /\ Len(machine'[x].bars) = Len(machine[x].bars)
      <4>1. /\ Len(f.bars) = Len(machine[id].bars)
            /\ \A j \in 1 .. Len(f.bars) : /\ f.bars[j].kind = machine[id].bars[j].kind
                                           /\ f.bars[j].size = machine[id].bars[j].size
        BY <3>4, <3>5, <3>6 DEF registers
      <4> QED BY <1>0, <1>3, <3>6, <4>1, MachineUpdates
    <3> DEFINE m == pci_device_list'
               more == [bars EXCEPT ![i] = new]
               dev == [l[d] EXCEPT !.bars = more]
    <3>8. /\ more \in Seq(PciBar) /\ Len(more) = Len(bars)
          /\ \A j \in 1 .. Len(bars) : more[j] = IF j = i THEN new ELSE bars[j]
      BY <1>3, <2>2, <3>2
    <3>9. m = [l EXCEPT ![d] = dev]
      BY <3>1 DEF l, bars
    <3> HIDE DEF more
    <3>10. dev \in PciDevice /\ dev.id = l[d].id /\ dev.bars = more
      BY <1>3, <3>8, DeviceUpdates
    <3> HIDE DEF dev, m
    <3>11. /\ m \in Seq(PciDevice) /\ Len(m) = Len(l)
           /\ \A e \in 1 .. Len(l) : m[e] = IF e = d THEN dev ELSE l[e]
      BY <1>2, <3>9, <3>10
    <3>12. /\ \A e \in 1 .. Len(l) : m[e].id = l[e].id /\ Len(m[e].bars) = Len(l[e].bars)
           /\ \A e \in 1 .. Len(l) : \A j \in 1 .. Len(l[e].bars) :
                 m[e].bars[j] = IF e = d /\ j = i THEN new ELSE l[e].bars[j]
      BY <3>8, <3>10, <3>11 DEF bars
    <3>13. StackOk' /\ ScanOk' /\ LeastOk'
      BY <1>1, <3>7, <3>11, <3>12, AssignKeepsScan DEF l, m
    <3>14. PciTypes'
      <4>1. pciAt' \in (Nat \ {0}) \X (Nat \ {0})
        BY <1>2, <1>10
      <4>2. pci_device_list' \in Seq(PciDevice)
        BY <3>11 DEF m
      <4> QED BY <1>0, <1>1, <2>6, <4>1, <4>2 DEF PciTypes
    <3>15. BarsOk'
      <4>1. pciAt'[1] = d /\ pciAt'[2] = i + 1
        BY <1>10
      <4>2. pciScanned'
        BY <1>1
      <4>3. ASSUME NEW e \in 1 .. Len(l), NEW j \in 1 .. Len(l[e].bars), m[e].bars[j].assigned
            PROVE  m[e].bars[j].size > 0 /\ (e < d \/ (e = d /\ j < i + 1))
        <5>1. Len(l[e].bars) \in Nat
          BY <1>3
        <5>2. CASE e = d /\ j = i
          BY <1>2, <2>3, <3>2, <3>12, <5>2
        <5>3. CASE ~(e = d /\ j = i)
          <6>1. l[e].bars[j].assigned /\ m[e].bars[j] = l[e].bars[j]
            BY <3>12, <4>3, <5>3
          <6> QED BY <1>2, <1>5, <5>1, <6>1
        <5> QED BY <5>2, <5>3
      <4>4. \A e \in 1 .. Len(l) : Len(m[e].bars) <= Len(machine'[m[e].id].bars)
        BY <1>3, <1>5, <3>7, <3>12, SMTT(30)
      <4>5. \A e \in 1 .. Len(l) : \A j \in 1 .. Len(m[e].bars) : m[e].bars[j].assigned =>
                m[e].bars[j].size > 0 /\ (e < pciAt'[1] \/ (e = pciAt'[1] /\ j < pciAt'[2]))
        BY <3>12, <4>1, <4>3
      <4> QED BY <3>11, <4>2, <4>4, <4>5 DEF BarsOk, m
    <3>16. PlacedOk'
      <4>1. \A e \in 1 .. Len(l) : \A j \in 1 .. Len(l[e].bars) :
               (e # d \/ j < i) => machine'[l[e].id].bars[j] = machine[l[e].id].bars[j]
        <5>1. ASSUME NEW e \in 1 .. Len(l), NEW j \in 1 .. Len(l[e].bars), e # d
              PROVE  machine'[l[e].id].bars[j] = machine[l[e].id].bars[j]
          <6>1. l[e].id # id
            BY <1>2, <1>6, <5>1 DEF id
          <6> QED BY <1>3, <3>7, <6>1
        <5>2. ASSUME NEW j \in 1 .. Len(l[d].bars), j < i
              PROVE  machine'[l[d].id].bars[j] = machine[l[d].id].bars[j]
          <6>1. j \in 1 .. Len(registers)
            BY <1>3, <1>4 DEF registers, bars
          <6>2. regs[j] = registers[j]
            BY <3>4, <5>2, <6>1
          <6> QED BY <3>6, <3>7, <6>2 DEF registers, id
        <5> QED BY <5>1, <5>2
      <4>2. machine'[l[d].id].bars[i].addr = new.base
        BY <3>2, <3>3, <3>4, <3>6, <3>7 DEF id
      <4>3. new.is_io = l[d].bars[i].is_io /\ new.size > 0 /\ new.assigned /\ i \in 1 .. Len(l[d].bars)
        BY <2>2, <2>3, <3>2 DEF bar, bars
      <4>4. ~pciWrapped' =>
              /\ ~pciWrapped /\ pci_mem_next <= pci_mem_next' /\ new.base % new.size = 0
              /\ new.is_io => /\ pci_io_next <= new.base /\ new.base + new.size <= IoLimit
                              /\ new.base + new.size <= pci_io_next'
              /\ ~new.is_io => /\ pci_mem_next <= new.base /\ new.base + new.size <= pci_mem_next'
        BY <2>6, <2>8, <2>10, <3>2
      <4>5. /\ d \in 1 .. Len(pci_device_list) /\ i \in 1 .. Len(pci_device_list[d].bars) /\ pciAt = <<d, i>>
            /\ Len(pci_device_list') = Len(pci_device_list)
            /\ \A e \in 1 .. Len(pci_device_list) : /\ pci_device_list'[e].id = pci_device_list[e].id
                                                    /\ Len(pci_device_list'[e].bars) = Len(pci_device_list[e].bars)
        BY <1>2, <3>11, <3>12, <4>3 DEF l, m
      <4>6. \A e \in 1 .. Len(pci_device_list) : \A j \in 1 .. Len(pci_device_list[e].bars) :
              pci_device_list'[e].bars[j] = IF e = d /\ j = i THEN new ELSE pci_device_list[e].bars[j]
        BY <3>12 DEF l, m
      <4>7. \A e \in 1 .. Len(pci_device_list) : \A j \in 1 .. Len(pci_device_list[e].bars) :
              (e # d \/ j < i) => machine'[pci_device_list[e].id].bars[j] = machine[pci_device_list[e].id].bars[j]
        BY <4>1 DEF l
      <4>8. machine'[pci_device_list[d].id].bars[i].addr = new.base /\ new.is_io = pci_device_list[d].bars[i].is_io
            /\ new.size > 0 /\ new.assigned
        BY <4>2, <4>3 DEF l
      <4>9. NewBar(d, i, new)
        <5>1. new \in PciBar
          BY <3>2
        <5>2. pci_io_next' \in Nat /\ pci_mem_next' \in Nat /\ pci_io_next <= pci_io_next'
          BY <2>6
        <5> QED BY <4>4, <4>5, <4>6, <4>7, <4>8, <5>1, <5>2 DEF NewBar
      <4> QED BY <4>9, PlacedKept, Zenon
    <3> QED BY <3>7, <3>13, <3>14, <3>15, <3>16 DEF PciInv
  <2> QED BY <2>9, <2>10
<1>11. QED
  BY <1>1, <1>8, <1>9, <1>10

\* The bridges a bus lies behind.
LEMMA BehindIs ==
    ASSUME NEW bs
    PROVE  \A n : n \in BusesBehind(bs) <=>
              \E id \in DOMAIN machine \ GoneIds : id[1] \in bs /\ Single(id) /\ n = machine[id].secondary
  BY DEF BusesBehind, GoneIds, Single

\* In the end the buses visited are the least fixed point that PciSound speaks of.
LEMMA VisitedReachable ==
    ASSUME PciInv, pciScanned
    PROVE  visited_buses = Reachable
<1> DEFINE V == visited_buses
           Fixed(bs) == {0} \cup BusesBehind(bs) = bs
           Least(bs) == Fixed(bs) /\ \A cs \in SUBSET bs : Fixed(cs) => cs = bs
<1>1. /\ 0 \in V /\ PassedIds = {id \in DOMAIN machine : id[1] \in V}
      /\ LeftIds = {id \in DOMAIN machine : id[1] \in V}
  <2>1. pciStack = <<>> /\ 0 \in V
    BY DEF PciInv, StackOk
  <2>2. Len(pciStack) = 0
    BY <2>1
  <2>3. 1 .. Len(pciStack) = {}
    BY <2>2
  <2> QED BY <2>1, <2>3 DEF PassedIds, LeftIds
<1>2. /\ ListedIds = PassedIds \cap QualifiedIds
      /\ \A id \in LeftIds \ GoneIds : Single(id) => machine[id].secondary \in V
      /\ V \subseteq PciBuses
      /\ \A bs \in SUBSET PciBuses : (0 \in bs /\ Closed(bs)) => V \subseteq bs
  BY DEF PciInv, ScanOk, LeastOk
<1>3. \A id \in ListedIds : id \in DOMAIN machine \ GoneIds /\ id[1] \in V
  BY <1>1, <1>2 DEF QualifiedIds
<1>4. ASSUME NEW bs PROVE BusesBehind(bs) \subseteq PciBuses /\ {0} \subseteq PciBuses
  BY BehindIs DEF PciBuses
<1>5. ASSUME NEW bs, Fixed(bs) PROVE bs \subseteq PciBuses /\ 0 \in bs /\ Closed(bs)
  <2>1. Closed(bs)
    BY <1>3, <1>5, BehindIs DEF Closed
  <2> QED BY <1>4, <1>5, <2>1
<1>6. Fixed(V)
  <2>1. BusesBehind(V) \subseteq V
    BY <1>1, <1>2, BehindIs
  <2>2. Closed({0} \cup BusesBehind(V))
    BY <1>3, BehindIs DEF Closed
  <2>3. V \subseteq {0} \cup BusesBehind(V)
    BY <1>2, <1>4, <2>2
  <2> QED BY <1>1, <2>1, <2>3
<1>7. ASSUME NEW bs, Fixed(bs) PROVE V \subseteq bs
  BY <1>2, <1>5, <1>7
<1>8. Least(V) /\ V \in SUBSET PciBuses
  BY <1>2, <1>6, <1>7
<1>9. ASSUME NEW bs \in SUBSET PciBuses, Least(bs) PROVE bs = V
  BY <1>6, <1>7, <1>9
<1>10. Reachable = CHOOSE bs \in SUBSET PciBuses : Least(bs)
  BY DEF Reachable, PciBuses
<1>11. (CHOOSE bs \in SUBSET PciBuses : Least(bs)) = V
  <2> HIDE DEF Least, V
  <2> QED BY <1>8, <1>9
<1>12. QED
  BY <1>10, <1>11

\* The invariant says what drivers rely on.
LEMMA PciInvSound ==
    ASSUME PciInv
    PROVE  PciSound
<1>0. MachineOk /\ PciTypes /\ StackOk /\ ScanOk /\ LeastOk /\ BarsOk /\ PlacedOk
  BY DEF PciInv
<1>1. \A d, e \in 1 .. Len(pci_device_list) : pci_device_list[d].id = pci_device_list[e].id => d = e
  BY <1>0 DEF ScanOk
<1>2. ASSUME pciScanned PROVE ListedIds = Expected
  <2>1. visited_buses = Reachable
    BY <1>2, VisitedReachable
  <2>2. pciStack = <<>>
    BY <1>0, <1>2 DEF StackOk
  <2>3. Len(pciStack) = 0
    BY <2>2
  <2>4. 1 .. Len(pciStack) = {}
    BY <2>3
  <2>5. PassedIds = {id \in DOMAIN machine : id[1] \in Reachable}
    BY <2>1, <2>4 DEF PassedIds
  <2>6. \A id \in DOMAIN machine : id[2] < Slots
    <3>1. \A id \in PciWhere : id[2] \in 0 .. Slots - 1
      BY DEF PciWhere
    <3> QED BY <1>0, <3>1, PciConstants DEF MachineOk
  <2>7. \A id \in DOMAIN machine : id \in Expected <=> id \in PassedIds \cap QualifiedIds
    BY <2>5, <2>6 DEF Expected, QualifiedIds, GoneIds, Function0
  <2>8. Expected \subseteq DOMAIN machine /\ PassedIds \subseteq DOMAIN machine
    BY DEF Expected, PassedIds
  <2>9. ListedIds = PassedIds \cap QualifiedIds
    BY <1>0 DEF ScanOk
  <2> QED BY <2>7, <2>8, <2>9
<1>3. ASSUME NEW a \in Assigned
      PROVE  /\ a = <<a[1], a[2]>> /\ a[1] \in 1 .. Len(pci_device_list)
             /\ a[2] \in 1 .. Len(pci_device_list[a[1]].bars)
             /\ Bar(a) = pci_device_list[a[1]].bars[a[2]] /\ Bar(a).assigned /\ Bar(a) \in PciBar
  <2>1. /\ a \in (1 .. Len(pci_device_list)) \X (1 .. 8)
        /\ a[2] <= Len(pci_device_list[a[1]].bars) /\ Bar(a).assigned
    BY DEF Assigned
  <2>2. a = <<a[1], a[2]>> /\ a[1] \in 1 .. Len(pci_device_list) /\ a[2] \in 1 .. 8
    BY <2>1
  <2>3. pci_device_list[a[1]] \in PciDevice
    BY <1>0, <2>2 DEF PciTypes
  <2>4. pci_device_list[a[1]].bars \in Seq(PciBar)
    BY <2>3 DEF PciDevice
  <2>5. a[2] \in 1 .. Len(pci_device_list[a[1]].bars)
    BY <2>1, <2>2, <2>4
  <2>6. Bar(a) \in PciBar
    BY <2>4, <2>5 DEF Bar
  <2> QED BY <2>1, <2>2, <2>5, <2>6 DEF Bar
<1>4. ASSUME ~pciWrapped, NEW a \in Assigned
      PROVE  /\ Bar(a).base % Bar(a).size = 0
             /\ machine[pci_device_list[a[1]].id].bars[a[2]].addr = Bar(a).base
             /\ IF Bar(a).is_io THEN Bar(a).base \in IoFirst .. (IoLimit - Bar(a).size)
                ELSE Bar(a).base \in MemFirst .. (MemMod - Bar(a).size)
  <2> DEFINE x == Bar(a)
             r == machine[pci_device_list[a[1]].id].bars[a[2]]
  <2>1. BarKept(x, r, pci_io_next, pci_mem_next)
    BY <1>0, <1>3, <1>4 DEF PlacedOk
  <2>2. x.base \in Nat /\ x.size \in Nat /\ x.is_io \in BOOLEAN
    BY <1>3, PciConstants DEF PciBar
  <2> HIDE DEF x, r
  <2>3. /\ x.base % x.size = 0 /\ r.addr = x.base
        /\ x.is_io => IoFirst <= x.base /\ x.base + x.size <= IoLimit
        /\ ~x.is_io => MemFirst <= x.base /\ x.base + x.size <= pci_mem_next
    BY <2>1 DEF BarKept
  <2>4. pci_mem_next \in 0 .. MemMod - 1
    BY <1>0 DEF PciTypes
  <2>5. x.is_io => x.base \in IoFirst .. (IoLimit - x.size)
    BY <2>2, <2>3, PciConstants
  <2>6. ~x.is_io => x.base \in MemFirst .. (MemMod - x.size)
    BY <2>2, <2>3, <2>4, PciConstants
  <2> QED BY <2>3, <2>5, <2>6 DEF x, r
<1>5. ASSUME ~pciWrapped, NEW a \in Assigned, NEW b \in Assigned, a # b, Bar(a).is_io = Bar(b).is_io
      PROVE  Bar(a).base + Bar(a).size <= Bar(b).base \/ Bar(b).base + Bar(b).size <= Bar(a).base
  <2>1. <<a[1], a[2]>> # <<b[1], b[2]>>
    BY <1>3, <1>5
  <2>2. BarsApart(Bar(a), Bar(b))
    BY <1>0, <1>3, <1>5, <2>1, SMTT(30) DEF PlacedOk
  <2> QED BY <2>2 DEF BarsApart
<1>6. Listed \subseteq DOMAIN machine
  <2>1. ListedIds = PassedIds \cap QualifiedIds
    BY <1>0 DEF ScanOk
  <2> QED BY <2>1 DEF Listed, ListedIds, PassedIds
<1>7. pciScanned => Expected \subseteq Listed
  BY <1>2 DEF ListedIds, Listed
<1>8. QED
  BY <1>1, <1>4, <1>5, <1>6, <1>7 DEF PciSound

\* A step that leaves the BARs and their registers alone keeps what was placed.
LEMMA PlacedSame ==
    ASSUME PlacedOk, machine' = machine, pci_device_list' = pci_device_list, pci_io_next' = pci_io_next,
           pci_mem_next' = pci_mem_next, pciWrapped' = pciWrapped
    PROVE  PlacedOk'
<1>1. IoFirst <= pci_io_next' /\ (~pciWrapped' => MemFirst <= pci_mem_next')
  BY DEF PlacedOk
<1>2. ASSUME ~pciWrapped'
      PROVE  \A d \in 1 .. Len(pci_device_list') : \A i \in 1 .. Len(pci_device_list'[d].bars) :
                pci_device_list'[d].bars[i].assigned =>
                  BarKept(pci_device_list'[d].bars[i], machine'[pci_device_list'[d].id].bars[i],
                          pci_io_next', pci_mem_next')
  BY <1>2 DEF PlacedOk
<1>3. ASSUME ~pciWrapped'
      PROVE  \A d, e \in 1 .. Len(pci_device_list') :
              \A i \in 1 .. Len(pci_device_list'[d].bars) : \A j \in 1 .. Len(pci_device_list'[e].bars) :
              (/\ pci_device_list'[d].bars[i].assigned /\ pci_device_list'[e].bars[j].assigned
               /\ pci_device_list'[d].bars[i].is_io = pci_device_list'[e].bars[j].is_io /\ <<d, i>> # <<e, j>>)
              => BarsApart(pci_device_list'[d].bars[i], pci_device_list'[e].bars[j])
  BY <1>3 DEF PlacedOk
<1>4. QED
  BY <1>1, <1>2, <1>3 DEF PlacedOk, BarKept, BarsApart

\* Every step keeps the invariant.
LEMMA PciNextInv ==
    ASSUME PciInv, [PciNext]_pciVars
    PROVE  PciInv'
<1>1. CASE ScanDevice
  BY <1>1, ScanDeviceInv
<1>2. CASE ScanFunction
  BY <1>2, ScanFunctionInv
<1>3. CASE ScanBehind
  BY <1>3, ScanBehindInv
<1>4. CASE ScanReturns
  BY <1>4, ScanReturnsInv
<1>5. CASE AssignNext
  BY <1>5, AssignNextInv
<1>6. CASE UNCHANGED pciVars
  <2>1. /\ machine' = machine /\ pciStack' = pciStack /\ visited_buses' = visited_buses /\ pciScanned' = pciScanned
        /\ pci_device_list' = pci_device_list /\ pci_io_next' = pci_io_next /\ pci_mem_next' = pci_mem_next
        /\ pciAt' = pciAt /\ pciDropped' = pciDropped /\ pciWrapped' = pciWrapped
    BY <1>6 DEF pciVars
  <2>2. MachineOk /\ PciTypes /\ StackOk /\ ScanOk /\ LeastOk /\ BarsOk /\ PlacedOk
    BY DEF PciInv
  <2>3. /\ ListedIds' = ListedIds /\ GoneIds' = GoneIds /\ QualifiedIds' = QualifiedIds /\ PciBuses' = PciBuses
        /\ PassedIds' = PassedIds /\ LeftIds' = LeftIds /\ \A bs : Closed(bs)' <=> Closed(bs)
        /\ \A id : Single(id)' <=> Single(id)
    BY <2>1 DEF ListedIds, GoneIds, QualifiedIds, PciBuses, PassedIds, LeftIds, Closed, Single, Isbridge
  <2>4. StackOk' /\ ScanOk' /\ LeastOk'
    BY <2>1, <2>2, <2>3 DEF StackOk, ScanOk, LeastOk
  <2>5. MachineOk' /\ PciTypes'
    BY <2>1, <2>2 DEF MachineOk, PciTypes
  <2>6. BarsOk' /\ PlacedOk'
    <3>1. BarsOk'
      BY <2>1, <2>2 DEF BarsOk
    <3>2. PlacedOk'
      BY <2>1, <2>2, PlacedSame
    <3> QED BY <3>1, <3>2
  <2> QED BY <2>4, <2>5, <2>6 DEF PciInv
<1>7. QED
  BY <1>1, <1>2, <1>3, <1>4, <1>5, <1>6 DEF PciNext

\* Nothing is listed twice and at least every function that bridges of a single function
\* lead to is listed, whatever the wiring of the bridges and whichever allocations fail;
\* the addresses handed out are aligned, apart,
\* within their space and in the registers until rounding wraps (src/hw/pci.c,
\* pci_scan_bus, pci_init, pci_assign_bar), for every machine and number of slots.
THEOREM PciSoundHolds == PciSpec => []PciSound
<1>1. PciInit => PciInv
  BY PciInitInv
<1>2. PciInv /\ [PciNext]_pciVars => PciInv'
  BY PciNextInv
<1>3. PciInv => PciSound
  BY PciInvSound
<1>4. QED
  BY <1>1, <1>2, <1>3, PTL DEF PciSpec
=============================================================================
