---------------------------- MODULE SmkfsProofs ----------------------------
(***************************************************************************)
(* Proofs about SmKFS.  The block cache, for any number of blocks, slots,  *)
(* sectors and sector contents: it stays coherent, and it implements the   *)
(* block store.  Records, directories and files, for any volume, names and *)
(* lengths: no disk block ever has two owners, or one and a clear bit.     *)
(***************************************************************************)
EXTENDS BlockCache, Files, TLAPS, FiniteSetTheorems, WellFoundedInduction

-----------------------------------------------------------------------------
(***************************************************************************)
(* The search loops.                                                       *)
(***************************************************************************)

\* First returns an element of the set it searches (the loops of
\* block_cache_read stop at a slot that satisfies their test).
LEMMA FirstIn ==
    ASSUME NEW S \in SUBSET Slot, S # {}
    PROVE  First(S) \in S
<1>1. S \subseteq Nat
  BY SizesAssumption DEF Slot
<1>2. PICK x \in S : \A y \in S : ~(<<y, x>> \in OpToRel(<, Nat))
  BY <1>1, WFMin, NatLessThanWellFounded
<1>3. \A y \in S : x <= y
  <2>1. \A a, b \in Nat : a < b => <<a, b>> \in OpToRel(<, Nat)
    BY Zenon DEF OpToRel
  <2>2. \A y \in S : ~(y < x)
    BY <1>1, <1>2, <2>1, Zenon
  <2> QED
    BY <1>1, <2>2
<1>4. QED
  BY <1>3 DEF First

\* What a transfer that stops after n sectors leaves behind.
LEMMA TornData ==
    ASSUME NEW n \in 0 .. NSectors, NEW new \in Data, NEW old \in Data
    PROVE  /\ Torn(n, new, old) \in Data
           /\ n = NSectors => Torn(n, new, old) = new
           /\ \A s \in Sector : Torn(n, new, old)[s] \in {old[s], new[s]}
<1>1. new = [s \in Sector |-> new[s]]
  BY DEF Data
<1>2. Torn(n, new, old) \in Data
  BY DEF Torn, Data
<1>3. ASSUME n = NSectors PROVE Torn(n, new, old) = new
  <2>1. \A s \in Sector : s < n
    BY <1>3, SizesAssumption DEF Sector
  <2>2. Torn(n, new, old) = [s \in Sector |-> new[s]]
    BY <2>1 DEF Torn
  <2> QED
    BY <2>2, <1>1
<1>4. QED
  BY <1>2, <1>3 DEF Torn

\* The slot a miss fills exists, and unless it was written back before, it
\* holds nothing that is not on the drive.
LEMMA VictimSlot ==
    ASSUME TypeOK, InvalidIsClean
    PROVE  /\ Victim \in Slot
           /\ MustEvict => /\ Victim = 0
                           /\ \A i \in Slot : cache[i].valid /\ cache[i].dirty
           /\ ~MustEvict => ~cache[Victim].dirty
<1>1. 0 \in Slot
  BY SizesAssumption DEF Slot
<1>2. CASE Invalid # {}
  <2>1. Victim = First(Invalid)
    BY <1>2 DEF Victim
  <2>2. Victim \in Invalid
    BY <2>1, <1>2, FirstIn DEF Invalid
  <2> QED
    BY <2>2, <1>2 DEF Invalid, InvalidIsClean, MustEvict
<1>3. CASE Invalid = {} /\ Clean # {}
  <2>1. Victim = First(Clean)
    BY <1>3 DEF Victim
  <2>2. Victim \in Clean
    BY <2>1, <1>3, FirstIn DEF Clean
  <2> QED
    BY <2>2, <1>3 DEF Clean, MustEvict
<1>4. CASE Invalid = {} /\ Clean = {}
  <2>1. Victim = 0
    BY <1>4 DEF Victim
  <2>2. \A i \in Slot : cache[i].valid /\ cache[i].dirty
    BY <1>4 DEF Invalid, Clean
  <2> QED
    BY <2>1, <2>2, <1>1, <1>4 DEF MustEvict
<1>5. QED
  BY <1>2, <1>3, <1>4
\* The block a valid slot holds is held by that slot alone.
LEMMA HolderUnique ==
    ASSUME TypeOK, OneSlotPerBlock,
           NEW i \in Slot, cache[i].valid
    PROVE  Holding(cache[i].block) = {i}
BY DEF TypeOK, OneSlotPerBlock, Holding, BlockBuf

\* What a flush (complete, failed or cut off) does to the drive.
LEMMA WrittenBlocks ==
    ASSUME TypeOK, OneSlotPerBlock, NEW n \in Progress
    PROVE  /\ Written(n) \in [Block -> Data]
           /\ \A i \in Dirty : Written(n)[cache[i].block] =
                    Torn(n[i], cache[i].data, disk[cache[i].block])
           /\ \A b \in Block :
                    Holding(b) \cap Dirty = {} => Written(n)[b] = disk[b]
<1>1. \A i \in Slot : n[i] \in 0 .. NSectors /\ cache[i].data \in Data
                      /\ cache[i].block \in Block
  BY DEF Progress, TypeOK, BlockBuf
<1>2. ASSUME NEW b \in Block, Holding(b) \cap Dirty # {}
      PROVE  First(Holding(b) \cap Dirty) \in Holding(b) \cap Dirty
  <2>1. Holding(b) \cap Dirty \in SUBSET Slot
    BY DEF Holding
  <2> QED
    BY <2>1, <1>2, FirstIn
<1>3. ASSUME NEW b \in Block PROVE Written(n)[b] \in Data
  <2>1. CASE Holding(b) \cap Dirty = {}
    BY <2>1 DEF Written, TypeOK
  <2>2. CASE Holding(b) \cap Dirty # {}
    <3> DEFINE i == First(Holding(b) \cap Dirty)
    <3>1. i \in Slot
      BY <1>2, <2>2 DEF Holding
    <3>2. disk[b] \in Data
      BY DEF TypeOK
    <3>3. Written(n)[b] = Torn(n[i], cache[i].data, disk[b])
      BY <2>2 DEF Written
    <3> QED
      BY <3>1, <3>2, <3>3, <1>1, TornData
  <2> QED
    BY <2>1, <2>2
<1>4. Written(n) \in [Block -> Data]
  BY <1>3 DEF Written
<1>5. ASSUME NEW i \in Dirty
      PROVE  Written(n)[cache[i].block] =
                Torn(n[i], cache[i].data, disk[cache[i].block])
  <2> DEFINE b == cache[i].block
  <2>1. i \in Slot /\ cache[i].valid /\ b \in Block
    BY <1>1 DEF Dirty
  <2>2. Holding(b) = {i}
    BY <2>1, HolderUnique
  <2>3. Holding(b) \cap Dirty = {i}
    BY <2>2
  <2>4. First(Holding(b) \cap Dirty) = i
    BY <2>3, <2>1, <1>2
  <2> QED
    BY <2>1, <2>3, <2>4 DEF Written
<1>6. QED
  BY <1>4, <1>5 DEF Written

-----------------------------------------------------------------------------
(***************************************************************************)
(* The inductive invariant: coherence needs the types of the slots.        *)
(***************************************************************************)
IInv == TypeOK /\ Coherent

\* The drive after the write-back of the victim.
LEMMA EvictedDisk ==
    ASSUME IInv
    PROVE  /\ Evicted \in [Block -> Data]
           /\ \A i \in Slot \ {Victim} :
                 cache[i].valid => Evicted[cache[i].block] = disk[cache[i].block]
           /\ \A b \in Block : \/ Evicted[b] = disk[b]
                               \/ /\ MustEvict
                                  /\ b = cache[Victim].block
                                  /\ Evicted[b] = cache[Victim].data
           /\ cache[Victim].valid =>
                    Evicted[cache[Victim].block] = cache[Victim].data
<1>1. /\ Victim \in Slot
      /\ MustEvict => Victim = 0 /\ \A i \in Slot : cache[i].valid /\ cache[i].dirty
      /\ ~MustEvict => ~cache[Victim].dirty
  BY VictimSlot DEF IInv, Coherent
<1>2. CASE MustEvict
  <2>1. Evicted = [disk EXCEPT ![cache[Victim].block] = cache[Victim].data]
    BY <1>1, <1>2 DEF Evicted
  <2> QED
    BY <1>1, <1>2, <2>1 DEF IInv, TypeOK, Coherent, OneSlotPerBlock, BlockBuf
<1>3. CASE ~MustEvict
  <2>1. Evicted = disk
    BY <1>3 DEF Evicted
  <2> QED
    BY <1>1, <1>3, <2>1 DEF IInv, TypeOK, Coherent, CleanIsStable, BlockBuf
<1>4. QED
  BY <1>2, <1>3

\* A miss that succeeds keeps the cache coherent.
LEMMA FillCoherent ==
    ASSUME IInv, up, NEW b \in Block, NEW w \in Data, NEW dirty \in BOOLEAN,
           Holding(b) = {}, Fill(b, w, dirty),
           dirty \/ w = Evicted[b],
           up' = up, status' \in {"ok", "flushed", "io"}, buf' \in Data
    PROVE  IInv'
<1> DEFINE r == [valid |-> TRUE, dirty |-> dirty, block |-> b, data |-> w]
<1>1. Victim \in Slot
  BY VictimSlot DEF IInv, Coherent
<1>2. /\ cache' = [cache EXCEPT ![Victim] = r]
      /\ disk' = Evicted
      /\ r \in BlockBuf
  BY DEF Fill, BlockBuf
<1>3. TypeOK'
  BY <1>1, <1>2, EvictedDisk DEF IInv, TypeOK
<1>4. \A i \in Slot : cache[i].valid => cache[i].block # b
  BY DEF Holding
<1>5. \A i \in Slot : cache'[i] = IF i = Victim THEN r ELSE cache[i]
  BY <1>2 DEF IInv, TypeOK
<1>6. OneSlotPerBlock'
  BY <1>4, <1>5 DEF IInv, Coherent, OneSlotPerBlock
<1>7. CleanIsStable'
  <2> SUFFICES ASSUME NEW i \in Slot, cache'[i].valid, ~cache'[i].dirty
               PROVE  cache'[i].data = disk'[cache'[i].block]
    BY DEF CleanIsStable
  <2>1. CASE i = Victim
    BY <1>5, <1>2, <2>1
  <2>2. CASE i # Victim
    <3>1. cache'[i] = cache[i]
      BY <1>5, <2>2
    <3>2. cache[i].data = disk[cache[i].block]
      BY <3>1 DEF IInv, Coherent, CleanIsStable
    <3> QED
      BY <1>2, <2>2, <3>1, <3>2, EvictedDisk
  <2> QED
    BY <2>1, <2>2
<1>8. InvalidIsClean'
  BY <1>5 DEF IInv, Coherent, InvalidIsClean
<1>9. QED
  BY <1>3, <1>6, <1>7, <1>8 DEF IInv, Coherent

\* A miss that fails keeps the cache coherent: a write-back that failed
\* leaves the slot dirty, a read that failed leaves it invalid.
LEMMA LookupFailsCoherent ==
    ASSUME IInv, up, NEW b \in Block, LookupFails(b), UNCHANGED <<up, buf>>
    PROVE  IInv'
<1>1. /\ Victim \in Slot
      /\ MustEvict => Victim = 0 /\ \A i \in Slot : cache[i].valid /\ cache[i].dirty
      /\ ~MustEvict => ~cache[Victim].dirty
  BY VictimSlot DEF IInv, Coherent
<1>2. status' = "io" /\ up' = up /\ buf' = buf
  BY DEF LookupFails
<1>3. ASSUME NEW n \in 0 .. NSectors, EvictFails(n) PROVE IInv'
  <2> DEFINE t == Torn(n, cache[0].data, disk[cache[0].block])
  <2>1. /\ 0 \in Slot
        /\ \A i \in Slot : cache[i].valid /\ cache[i].dirty
        /\ cache' = cache
        /\ disk' = [disk EXCEPT ![cache[0].block] = t]
    BY <1>1, <1>3 DEF EvictFails
  <2>2. cache[0].data \in Data /\ disk[cache[0].block] \in Data
    BY <2>1 DEF IInv, TypeOK, BlockBuf
  <2>3. t \in Data
    BY <2>2, TornData
  <2>4. TypeOK'
    BY <1>2, <2>1, <2>3 DEF IInv, TypeOK
  <2>5. Coherent'
    BY <1>2, <2>1 DEF IInv, Coherent, OneSlotPerBlock, CleanIsStable,
                      InvalidIsClean
  <2> QED
    BY <2>4, <2>5 DEF IInv
<1>4. ASSUME NEW n \in 0 .. NSectors - 1, FillFails(b, n) PROVE IInv'
  <2> DEFINE r == [valid |-> FALSE,
                   dirty |-> cache[Victim].dirty /\ ~MustEvict,
                   block |-> cache[Victim].block,
                   data  |-> Torn(n, Evicted[b], cache[Victim].data)]
  <2>1. cache' = [cache EXCEPT ![Victim] = r] /\ disk' = Evicted
    BY <1>4 DEF FillFails
  <2>2. cache[Victim] \in BlockBuf
    BY <1>1 DEF IInv, TypeOK
  <2>3. Evicted \in [Block -> Data]
    BY EvictedDisk
  <2>4. Torn(n, Evicted[b], cache[Victim].data) \in Data
    BY <2>2, <2>3, TornData, SizesAssumption DEF BlockBuf
  <2>5. r \in BlockBuf /\ ~r.valid /\ ~r.dirty
    BY <1>1, <2>2, <2>4 DEF BlockBuf
  <2>6. TypeOK'
    BY <1>1, <1>2, <2>1, <2>3, <2>5 DEF IInv, TypeOK
  <2>7. \A i \in Slot : cache'[i] = IF i = Victim THEN r ELSE cache[i]
    BY <2>1 DEF IInv, TypeOK
  <2>8. OneSlotPerBlock'
    BY <2>5, <2>7 DEF IInv, Coherent, OneSlotPerBlock
  <2>9. CleanIsStable'
    BY <2>1, <2>5, <2>7, EvictedDisk DEF IInv, Coherent, CleanIsStable
  <2>10. InvalidIsClean'
    BY <2>5, <2>7, SMTT(40) DEF IInv, Coherent, InvalidIsClean
  <2> QED
    BY <1>2, <2>6, <2>8, <2>9, <2>10 DEF IInv, Coherent
<1>5. QED
  BY <1>3, <1>4 DEF LookupFails

\* A cache all of whose slots are invalid and clean is coherent.
LEMMA EmptyCoherent ==
    ASSUME IInv,
           cache' = [i \in Slot |->
                        [cache[i] EXCEPT !.valid = FALSE, !.dirty = FALSE]],
           disk' \in [Block -> Data], up' \in BOOLEAN,
           UNCHANGED <<status, buf>>
    PROVE  IInv'
<1>1. \A i \in Slot : /\ cache'[i] \in BlockBuf
                      /\ ~cache'[i].valid
                      /\ ~cache'[i].dirty
  BY DEF IInv, TypeOK, BlockBuf
<1>2. TypeOK'
  BY <1>1 DEF IInv, TypeOK
<1>3. Invalid' = Slot
  BY <1>1 DEF Invalid
<1>4. QED
  BY <1>1, <1>2, <1>3
  DEF IInv, Coherent, OneSlotPerBlock, CleanIsStable, InvalidIsClean

\* A flush keeps the cache coherent, whichever slots it succeeds for.
LEMMA FlushCoherent ==
    ASSUME IInv, NEW n \in Progress, NEW done \in SUBSET Slot, Flush(n, done)
    PROVE  IInv'
<1>1. /\ done \subseteq Dirty
      /\ \A i \in done : n[i] = NSectors
      /\ disk' = Written(n)
      /\ up /\ up' /\ buf' = buf /\ status' \in {"ok", "flushed", "io"}
  BY DEF Flush, Flushes, IInv, TypeOK
<1>2. cache' = [i \in Slot |-> [cache[i] EXCEPT !.dirty = @ /\ i \notin done]]
  BY DEF Flush
<1>3. \A i \in Slot :
          /\ cache'[i] \in BlockBuf
          /\ cache'[i].valid = cache[i].valid
          /\ cache'[i].block = cache[i].block
          /\ cache'[i].data = cache[i].data
          /\ cache'[i].dirty = (cache[i].dirty /\ i \notin done)
  BY <1>2 DEF IInv, TypeOK, BlockBuf
<1>4. /\ Written(n) \in [Block -> Data]
      /\ \A i \in Dirty : Written(n)[cache[i].block] =
              Torn(n[i], cache[i].data, disk[cache[i].block])
      /\ \A b \in Block : Holding(b) \cap Dirty = {} => Written(n)[b] = disk[b]
  BY WrittenBlocks DEF IInv, Coherent
<1>5. TypeOK'
  BY <1>1, <1>2, <1>3, <1>4 DEF IInv, TypeOK
<1>6. OneSlotPerBlock' /\ InvalidIsClean'
  BY <1>3 DEF IInv, Coherent, OneSlotPerBlock, InvalidIsClean
<1>7. CleanIsStable'
  <2> SUFFICES ASSUME NEW i \in Slot, cache'[i].valid, ~cache'[i].dirty
               PROVE  cache'[i].data = disk'[cache'[i].block]
    BY DEF CleanIsStable
  <2> DEFINE b == cache[i].block
  <2>1. cache[i].valid /\ b \in Block /\ cache[i].data \in Data /\ disk[b] \in Data
    BY <1>3 DEF IInv, TypeOK, BlockBuf
  <2>2. CASE i \in done
    BY <1>1, <1>3, <1>4, <2>1, <2>2, TornData DEF Progress
  <2>3. CASE i \notin done
    <3>1. ~cache[i].dirty
      BY <1>3, <2>3
    <3>2. Holding(b) = {i}
      BY <2>1, HolderUnique DEF IInv, Coherent
    <3>3. Holding(b) \cap Dirty = {}
      BY <3>1, <3>2 DEF Dirty
    <3>4. cache[i].data = disk[b]
      BY <2>1, <3>1 DEF IInv, Coherent, CleanIsStable
    <3> QED
      BY <1>1, <1>3, <1>4, <2>1, <3>3, <3>4
  <2> QED
    BY <2>2, <2>3
<1>8. QED
  BY <1>1, <1>5, <1>6, <1>7 DEF IInv, Coherent

\* A hit that overwrites the buffer keeps the cache coherent.
LEMMA WriteHitCoherent ==
    ASSUME IInv, NEW b \in Block, NEW d \in Data, WriteHit(b, d)
    PROVE  IInv'
<1> DEFINE h == First(Holding(b))
<1>1. h \in Slot /\ cache[h].valid
  BY FirstIn DEF WriteHit, Holding
<1>2. /\ cache' = [cache EXCEPT ![h] = [@ EXCEPT !.data = d, !.dirty = TRUE]]
      /\ UNCHANGED <<disk, up, buf>> /\ up /\ status' = "ok"
  BY DEF WriteHit
<1>3. \A i \in Slot :
          /\ cache'[i] \in BlockBuf
          /\ cache'[i].valid = cache[i].valid
          /\ cache'[i].block = cache[i].block
          /\ i # h => cache'[i] = cache[i]
          /\ cache'[h].dirty
          /\ cache'[h].data = d
  BY <1>1, <1>2 DEF IInv, TypeOK, BlockBuf
<1>4. TypeOK'
  BY <1>2, <1>3 DEF IInv, TypeOK
<1>5. OneSlotPerBlock' /\ CleanIsStable' /\ InvalidIsClean'
  BY <1>1, <1>2, <1>3
  DEF IInv, Coherent, OneSlotPerBlock, CleanIsStable, InvalidIsClean
<1>6. QED
  BY <1>2, <1>4, <1>5 DEF IInv, Coherent

-----------------------------------------------------------------------------
\* Every call, failed or not, and every crash keep the cache coherent.
LEMMA NextCoherent == IInv /\ [Next]_vars => IInv'
<1> SUFFICES ASSUME IInv, [Next]_vars PROVE IInv'
  OBVIOUS
<1> USE DEF Next
<1>1. CASE CacheInit
  BY <1>1, EmptyCoherent DEF CacheInit, IInv, TypeOK
<1>2. ASSUME NEW b \in Block, ReadHit(b) PROVE IInv'
  <2> DEFINE h == First(Holding(b))
  <2>1. h \in Slot
    BY <1>2, FirstIn DEF ReadHit, Holding
  <2>2. buf' \in Data
    BY <1>2, <2>1 DEF ReadHit, IInv, TypeOK, BlockBuf
  <2> QED
    BY <1>2, <2>2 DEF ReadHit, IInv, TypeOK, Coherent, OneSlotPerBlock,
                      CleanIsStable, InvalidIsClean, Invalid
<1>3. ASSUME NEW b \in Block, ReadMiss(b) PROVE IInv'
  <2>1. Evicted[b] \in Data
    BY EvictedDisk
  <2> QED
    BY <1>3, <2>1, FillCoherent DEF ReadMiss
<1>4. ASSUME NEW b \in Block, AccessFails(b) PROVE IInv'
  BY <1>4, LookupFailsCoherent DEF AccessFails
<1>5. ASSUME NEW b \in Block, NEW d \in Data, WriteHit(b, d) PROVE IInv'
  BY <1>5, WriteHitCoherent
<1>6. ASSUME NEW b \in Block, NEW d \in Data, WriteMiss(b, d) PROVE IInv'
  <2>1. buf' \in Data
    BY <1>6 DEF WriteMiss, IInv, TypeOK
  <2> QED
    BY <1>6, <2>1, FillCoherent DEF WriteMiss
<1>7. ASSUME NEW n \in Progress, NEW done \in SUBSET Slot, Flush(n, done)
      PROVE  IInv'
  BY <1>7, FlushCoherent
<1>8. ASSUME NEW n \in Progress, NEW done \in SUBSET Slot, Shutdown(n, done)
      PROVE  IInv'
  <2>1. Written(n) \in [Block -> Data]
    BY WrittenBlocks DEF IInv, Coherent
  <2> QED
    BY <1>8, <2>1, EmptyCoherent DEF Shutdown, Flushes
<1>9. ASSUME NEW n \in Progress, Crash(n) PROVE IInv'
  <2>1. Written(n) \in [Block -> Data]
    BY WrittenBlocks DEF IInv, Coherent
  <2> QED
    BY <1>9, <2>1, EmptyCoherent DEF Crash
<1>10. CASE UNCHANGED vars
  BY <1>10 DEF vars, IInv, TypeOK, Coherent, OneSlotPerBlock, CleanIsStable,
               InvalidIsClean, Invalid
<1>11. QED
  BY <1>1, <1>2, <1>3, <1>4, <1>5, <1>6, <1>7, <1>8, <1>9, <1>10

\* A cache in its initial state is coherent.
LEMMA InitCoherent == Init => IInv
<1> SUFFICES ASSUME Init PROVE IInv
  OBVIOUS
<1>1. TypeOK
  BY DEF Init, TypeOK
<1>2. QED
  BY <1>1 DEF Init, IInv, Coherent, OneSlotPerBlock, CleanIsStable,
              InvalidIsClean, Invalid

\* The slots of the cache, the drive and the results always have their
\* types (_SMKFS_BLOCK_BUF, whole blocks of sectors).
THEOREM CacheTypeCorrect == Spec => []TypeOK
<1>1. IInv => TypeOK
  BY DEF IInv
<1>2. QED
  BY <1>1, InitCoherent, NextCoherent, PTL DEF Spec

\* The cache is coherent after any sequence of calls, failed transfers and
\* crashes: one buffer per block, clean buffers equal to the drive, nothing
\* dirty in a slot that is free.
THEOREM CacheCoherent == Spec => []Coherent
<1>1. IInv => Coherent
  BY DEF IInv
<1>2. QED
  BY <1>1, InitCoherent, NextCoherent, PTL DEF Spec

-----------------------------------------------------------------------------
(***************************************************************************)
(* The cache implements the block store.                                   *)
(***************************************************************************)

\* How the image the file system sees follows from slots and drive.
MemFacts ==
    /\ Mem \in [Block -> Data]
    /\ \A i \in Slot : cache[i].valid => Mem[cache[i].block] = cache[i].data
    /\ \A b \in Block : Holding(b) = {} => Mem[b] = disk[b]

\* They hold in every coherent state.
LEMMA MemLemma == IInv => MemFacts
<1> SUFFICES ASSUME IInv PROVE MemFacts
  OBVIOUS
<1>1. ASSUME NEW i \in Slot, cache[i].valid
      PROVE  Mem[cache[i].block] = cache[i].data
  <2>1. cache[i].block \in Block
    BY DEF IInv, TypeOK, BlockBuf
  <2>2. Holding(cache[i].block) = {i}
    BY <1>1, HolderUnique DEF IInv, Coherent
  <2>3. First({i}) = i
    BY FirstIn
  <2> QED
    BY <2>1, <2>2, <2>3 DEF Mem
<1>2. ASSUME NEW b \in Block PROVE Mem[b] \in Data
  <2>1. CASE Holding(b) = {}
    BY <2>1 DEF Mem, IInv, TypeOK
  <2>2. CASE Holding(b) # {}
    <3>1. First(Holding(b)) \in Slot
      BY <2>2, FirstIn DEF Holding
    <3> QED
      BY <2>2, <3>1 DEF Mem, IInv, TypeOK, BlockBuf
  <2> QED
    BY <2>1, <2>2
<1>3. \A b \in Block : Holding(b) = {} => Mem[b] = disk[b]
  BY DEF Mem
<1>4. Mem \in [Block -> Data]
  BY <1>2 DEF Mem
<1>5. QED
  BY <1>1, <1>3, <1>4 DEF MemFacts

\* A miss changes the visible image in the block it fills only, to what the
\* caller leaves in the buffer; the evicted block is on the drive by then.
LEMMA FillMem ==
    ASSUME IInv, MemFacts, MemFacts', NEW b \in Block, NEW w \in Data,
           NEW dirty \in BOOLEAN, Holding(b) = {}, Fill(b, w, dirty)
    PROVE  /\ Mem' = [Mem EXCEPT ![b] = w]
           /\ Store!WriteBack
           /\ Evicted[b] = Mem[b]
<1> DEFINE r == [valid |-> TRUE, dirty |-> dirty, block |-> b, data |-> w]
<1>1. /\ Victim \in Slot
      /\ MustEvict => Victim = 0 /\ \A i \in Slot : cache[i].valid /\ cache[i].dirty
  BY VictimSlot DEF IInv, Coherent
<1>2. /\ \A i \in Slot : cache'[i] = IF i = Victim THEN r ELSE cache[i]
      /\ disk' = Evicted
  BY <1>1 DEF Fill, IInv, TypeOK
<1>3. /\ Evicted \in [Block -> Data]
      /\ \A c \in Block : \/ Evicted[c] = disk[c]
                          \/ /\ MustEvict
                             /\ c = cache[Victim].block
                             /\ Evicted[c] = cache[Victim].data
      /\ cache[Victim].valid => Evicted[cache[Victim].block] = cache[Victim].data
      /\ \A i \in Slot \ {Victim} :
              cache[i].valid => Evicted[cache[i].block] = disk[cache[i].block]
  BY EvictedDisk
<1>4. \A i \in Slot : cache[i].valid => cache[i].block # b
  BY DEF Holding
<1>5. Evicted[b] = Mem[b]
  BY <1>1, <1>3, <1>4 DEF MemFacts
<1>6. ASSUME NEW c \in Block, c # b PROVE Mem'[c] = Mem[c]
  <2>1. CASE \E i \in Slot \ {Victim} : cache[i].valid /\ cache[i].block = c
    BY <1>2, <2>1 DEF MemFacts
  <2>2. CASE cache[Victim].valid /\ cache[Victim].block = c
    <3>1. \A i \in Slot \ {Victim} : ~(cache[i].valid /\ cache[i].block = c)
      BY <1>1, <2>2 DEF IInv, Coherent, OneSlotPerBlock
    <3>2. Holding(c)' = {}
      BY <1>2, <1>6, <3>1 DEF Holding
    <3> QED
      BY <1>1, <1>2, <1>3, <2>2, <3>2 DEF MemFacts
  <2>3. CASE \A i \in Slot : ~(cache[i].valid /\ cache[i].block = c)
    <3>1. Holding(c) = {}
      BY <2>3 DEF Holding
    <3>2. Holding(c)' = {}
      BY <1>2, <1>6, <2>3 DEF Holding
    <3>3. Evicted[c] = disk[c]
      BY <1>1, <1>3, <2>3
    <3> QED
      BY <1>2, <3>1, <3>2, <3>3 DEF MemFacts
  <2> QED
    BY <1>1, <2>1, <2>2, <2>3
<1>7. Mem'[b] = w
  BY <1>1, <1>2 DEF MemFacts
<1>8. Mem' = [Mem EXCEPT ![b] = w]
  BY <1>6, <1>7 DEF MemFacts
<1>9. Store!WriteBack
  <2>1. \A c \in Block : disk'[c] = disk[c] \/ disk'[c] = Mem[c]
    BY <1>1, <1>2, <1>3 DEF MemFacts
  <2>2. disk' \in Store!Image
    BY <1>2, <1>3 DEF Store!Image, Store!Data, Data
  <2> QED
    BY <2>1, <2>2 DEF Store!WriteBack, Store!Mixture
<1>10. QED
  BY <1>5, <1>8, <1>9

\* A lookup that fails leaves the visible image alone: the failed write-back
\* tears a block on the drive that the cache still holds, the failed read
\* drops a slot whose block is on the drive.
LEMMA LookupFailsMem ==
    ASSUME IInv, MemFacts, MemFacts', NEW b \in Block, LookupFails(b)
    PROVE  Mem' = Mem /\ Store!WriteBack
<1>1. /\ Victim \in Slot
      /\ MustEvict => Victim = 0 /\ \A i \in Slot : cache[i].valid /\ cache[i].dirty
  BY VictimSlot DEF IInv, Coherent
<1>2. Holding(b) = {}
  BY DEF LookupFails
<1>3. ASSUME NEW n \in 0 .. NSectors, EvictFails(n)
      PROVE  Mem' = Mem /\ Store!WriteBack
  <2> DEFINE v == cache[0].block
             t == Torn(n, cache[0].data, disk[v])
  <2>1. /\ 0 \in Slot /\ cache[0].valid /\ cache' = cache
        /\ disk' = [disk EXCEPT ![v] = t]
    BY <1>1, <1>3 DEF EvictFails
  <2>2. v \in Block /\ cache[0].data \in Data /\ disk[v] \in Data
    BY <2>1 DEF IInv, TypeOK, BlockBuf
  <2>3. t \in Data /\ \A s \in Sector : t[s] \in {disk[v][s], cache[0].data[s]}
    BY <2>2, TornData
  <2>4. \A c \in Block : Mem'[c] = Mem[c]
    <3> TAKE c \in Block
    <3>1. CASE \E i \in Slot : cache[i].valid /\ cache[i].block = c
      BY <2>1, <3>1 DEF MemFacts
    <3>2. CASE \A i \in Slot : ~(cache[i].valid /\ cache[i].block = c)
      <4>1. Holding(c) = {} /\ Holding(c)' = {} /\ c # v
        BY <2>1, <3>2 DEF Holding
      <4> QED
        BY <2>1, <4>1 DEF MemFacts, IInv, TypeOK
    <3> QED
      BY <3>1, <3>2
  <2>5. Mem' = Mem
    BY <2>4 DEF MemFacts
  <2>6. disk' \in Store!Image
    BY <2>1, <2>2, <2>3 DEF Store!Image, Store!Data, Data, IInv, TypeOK
  <2>7. \A c \in Block, s \in Sector : disk'[c][s] \in {disk[c][s], Mem[c][s]}
    BY <2>1, <2>2, <2>3 DEF MemFacts, IInv, TypeOK
  <2> QED
    BY <2>5, <2>6, <2>7 DEF Store!WriteBack, Store!Mixture
<1>4. ASSUME NEW n \in 0 .. NSectors - 1, FillFails(b, n)
      PROVE  Mem' = Mem /\ Store!WriteBack
  <2>1. /\ \A i \in Slot : i # Victim => cache'[i] = cache[i]
        /\ ~cache'[Victim].valid
        /\ disk' = Evicted
    BY <1>1, <1>4 DEF FillFails, IInv, TypeOK
  <2>2. /\ Evicted \in [Block -> Data]
        /\ \A c \in Block : \/ Evicted[c] = disk[c]
                            \/ /\ MustEvict
                               /\ c = cache[Victim].block
                               /\ Evicted[c] = cache[Victim].data
        /\ cache[Victim].valid => Evicted[cache[Victim].block] = cache[Victim].data
        /\ \A i \in Slot \ {Victim} :
              cache[i].valid => Evicted[cache[i].block] = disk[cache[i].block]
    BY EvictedDisk
  <2>3. ASSUME NEW c \in Block PROVE Mem'[c] = Mem[c]
    <3>1. CASE \E i \in Slot \ {Victim} : cache[i].valid /\ cache[i].block = c
      BY <2>1, <3>1 DEF MemFacts
    <3>2. CASE \A i \in Slot \ {Victim} : ~(cache[i].valid /\ cache[i].block = c)
      <4>1. Holding(c)' = {}
        BY <2>1, <3>2 DEF Holding
      <4>2. CASE cache[Victim].valid /\ cache[Victim].block = c
        BY <1>1, <2>1, <2>2, <4>1, <4>2 DEF MemFacts
      <4>3. CASE ~(cache[Victim].valid /\ cache[Victim].block = c)
        <5>1. Holding(c) = {}
          BY <1>1, <3>2, <4>3 DEF Holding
        <5>2. Evicted[c] = disk[c]
          BY <1>1, <2>2, <4>3
        <5> QED
          BY <2>1, <4>1, <5>1, <5>2 DEF MemFacts
      <4> QED
        BY <4>2, <4>3
    <3> QED
      BY <3>1, <3>2
  <2>4. Mem' = Mem
    BY <2>3 DEF MemFacts
  <2>5. \A c \in Block : disk'[c] = disk[c] \/ disk'[c] = Mem[c]
    BY <1>1, <2>1, <2>2 DEF MemFacts
  <2>6. disk' \in Store!Image
    BY <2>1, <2>2 DEF Store!Image, Store!Data, Data
  <2> QED
    BY <2>4, <2>5, <2>6 DEF Store!WriteBack, Store!Mixture
<1>5. QED
  BY <1>3, <1>4 DEF LookupFails

\* What a flush that got as far as n makes of the drive: every sector is the
\* old one or the cached one, and blocks whose slots were all written are
\* the cached ones.
LEMMA WrittenMem ==
    ASSUME IInv, MemFacts, NEW n \in Progress, disk' = Written(n)
    PROVE  /\ Store!WriteBack
           /\ (\A i \in Dirty : n[i] = NSectors) => disk' = Mem
<1>1. /\ Written(n) \in [Block -> Data]
      /\ \A i \in Dirty : Written(n)[cache[i].block] =
              Torn(n[i], cache[i].data, disk[cache[i].block])
      /\ \A b \in Block : Holding(b) \cap Dirty = {} => Written(n)[b] = disk[b]
  BY WrittenBlocks DEF IInv, Coherent
<1>2. ASSUME NEW b \in Block
      PROVE  /\ \A s \in Sector : disk'[b][s] \in {disk[b][s], Mem[b][s]}
             /\ (\A i \in Dirty : n[i] = NSectors) => disk'[b] = Mem[b]
  <2>1. CASE Holding(b) \cap Dirty = {}
    <3>1. disk'[b] = disk[b]
      BY <1>1, <2>1
    <3>2. disk[b] = Mem[b]
      <4>1. CASE Holding(b) = {}
        BY <4>1 DEF MemFacts
      <4>2. CASE Holding(b) # {}
        <5>1. PICK i \in Slot : cache[i].valid /\ cache[i].block = b
          BY <4>2 DEF Holding
        <5>2. ~cache[i].dirty
          BY <2>1, <5>1 DEF Holding, Dirty
        <5> QED
          BY <5>1, <5>2 DEF MemFacts, IInv, Coherent, CleanIsStable
      <4> QED
        BY <4>1, <4>2
    <3> QED
      BY <3>1, <3>2
  <2>2. CASE Holding(b) \cap Dirty # {}
    <3>1. PICK i \in Dirty : i \in Slot /\ cache[i].valid /\ cache[i].block = b
      BY <2>2 DEF Holding
    <3>2. disk'[b] = Torn(n[i], cache[i].data, disk[b])
      BY <1>1, <3>1
    <3>3. Mem[b] = cache[i].data
      BY <3>1 DEF MemFacts
    <3>4. n[i] \in 0 .. NSectors /\ cache[i].data \in Data /\ disk[b] \in Data
      BY <3>1 DEF Progress, IInv, TypeOK, BlockBuf
    <3> QED
      BY <3>1, <3>2, <3>3, <3>4, TornData
  <2> QED
    BY <2>1, <2>2
<1>3. disk' \in Store!Image
  BY <1>1 DEF Store!Image, Store!Data, Data
<1>4. Store!WriteBack
  BY <1>2, <1>3 DEF Store!WriteBack, Store!Mixture
<1>5. (\A i \in Dirty : n[i] = NSectors) => disk' = Mem
  BY <1>1, <1>2 DEF MemFacts
<1>6. QED
  BY <1>4, <1>5

\* An empty cache shows the drive.
LEMMA EmptyMem ==
    ASSUME MemFacts', disk' \in [Block -> Data],
           \A i \in Slot : ~cache'[i].valid
    PROVE  Mem' = disk'
<1>1. \A b \in Block : Holding(b)' = {}
  BY DEF Holding
<1>2. \A b \in Block : Mem'[b] = disk'[b]
  BY <1>1 DEF MemFacts
<1>3. Mem' \in [Block -> Data]
  BY DEF MemFacts
<1>4. QED
  BY <1>2, <1>3

\* Slots that keep their validity, block and data show the same image.
LEMMA SameMem ==
    ASSUME MemFacts, MemFacts',
           \A i \in Slot : /\ cache'[i].valid = cache[i].valid
                           /\ cache'[i].block = cache[i].block
                           /\ cache'[i].data = cache[i].data,
           \A b \in Block : Holding(b) = {} => disk'[b] = disk[b]
    PROVE  Mem' = Mem
<1>1. ASSUME NEW b \in Block PROVE Mem'[b] = Mem[b]
  <2>1. CASE \E i \in Slot : cache[i].valid /\ cache[i].block = b
    BY <2>1 DEF MemFacts
  <2>2. CASE \A i \in Slot : ~(cache[i].valid /\ cache[i].block = b)
    <3>1. Holding(b) = {} /\ Holding(b)' = {}
      BY <2>2 DEF Holding
    <3> QED
      BY <3>1 DEF MemFacts
  <2> QED
    BY <2>1, <2>2
<1>2. QED
  BY <1>1 DEF MemFacts

-----------------------------------------------------------------------------
\* Every step of the cache is a step of the block store.
LEMMA NextRefines ==
    IInv /\ MemFacts /\ MemFacts' /\ [Next]_vars => [Store!Next]_(Store!vars)
<1> SUFFICES ASSUME IInv, MemFacts, MemFacts', [Next]_vars
             PROVE  Store!Next \/ UNCHANGED Store!vars
  OBVIOUS
<1> USE DEF Next
<1>0. TypeOK /\ disk \in [Block -> Data]
  BY DEF IInv, TypeOK
<1>1. CASE CacheInit
  <2>0. \A i \in Slot : ~cache'[i].valid
    BY <1>0, <1>1 DEF CacheInit, TypeOK, BlockBuf
  <2>1. Mem' = disk'
    BY <1>0, <1>1, <2>0, EmptyMem DEF CacheInit
  <2> QED
    BY <1>1, <2>1 DEF CacheInit, Store!Start, Store!Next
<1>2. ASSUME NEW b \in Block, ReadHit(b) PROVE Store!Next
  <2> DEFINE h == First(Holding(b))
  <2>1. h \in Slot /\ cache[h].valid /\ cache[h].block = b
    BY <1>2, FirstIn DEF ReadHit, Holding
  <2>2. buf' = Mem[b]
    BY <1>2, <2>1 DEF ReadHit, MemFacts
  <2>3. Mem' = Mem
    BY <1>2, SameMem DEF ReadHit
  <2>4. Store!WriteBack
    BY <1>0, <1>2 DEF ReadHit, Store!WriteBack, Store!Image, Store!Data,
                      Store!Mixture, Data
  <2> QED
    BY <1>2, <2>2, <2>3, <2>4 DEF ReadHit, Store!Read, Store!Next
<1>3. ASSUME NEW b \in Block, ReadMiss(b) PROVE Store!Next
  <2>1. Evicted[b] \in Data
    BY EvictedDisk
  <2>2. /\ Mem' = [Mem EXCEPT ![b] = Evicted[b]]
        /\ Store!WriteBack
        /\ Evicted[b] = Mem[b]
    BY <1>3, <2>1, FillMem DEF ReadMiss
  <2>3. Mem' = Mem
    BY <2>2 DEF MemFacts
  <2> QED
    BY <1>3, <2>2, <2>3 DEF ReadMiss, Store!Read, Store!Next
<1>4. ASSUME NEW b \in Block, AccessFails(b) PROVE Store!Next
  <2>1. Mem' = Mem /\ Store!WriteBack
    BY <1>4, LookupFailsMem DEF AccessFails
  <2> QED
    BY <1>4, <2>1 DEF AccessFails, LookupFails, Store!Fail, Store!Next
<1>5. ASSUME NEW b \in Block, NEW d \in Data, WriteHit(b, d) PROVE Store!Next
  <2> DEFINE h == First(Holding(b))
  <2>1. h \in Slot /\ cache[h].valid /\ cache[h].block = b
    BY <1>5, FirstIn DEF WriteHit, Holding
  <2>2. \A i \in Slot :
            /\ cache'[i].valid = cache[i].valid
            /\ cache'[i].block = cache[i].block
            /\ i # h => cache'[i] = cache[i]
            /\ cache'[h].data = d
    BY <1>0, <1>5, <2>1 DEF WriteHit, TypeOK, BlockBuf
  <2>3. \A c \in Block : c # b => Mem'[c] = Mem[c]
    <3> TAKE c \in Block
    <3> HAVE c # b
    <3>1. CASE \E i \in Slot : cache[i].valid /\ cache[i].block = c
      BY <2>1, <2>2, <3>1 DEF MemFacts
    <3>2. CASE \A i \in Slot : ~(cache[i].valid /\ cache[i].block = c)
      <4>1. Holding(c) = {} /\ Holding(c)' = {}
        BY <2>2, <3>2 DEF Holding
      <4> QED
        BY <1>5, <4>1 DEF MemFacts, WriteHit
    <3> QED
      BY <3>1, <3>2
  <2>4. Mem'[b] = d
    BY <2>1, <2>2 DEF MemFacts
  <2>5. Mem' = [Mem EXCEPT ![b] = d]
    BY <2>3, <2>4 DEF MemFacts
  <2>6. Store!WriteBack
    BY <1>0, <1>5 DEF WriteHit, Store!WriteBack, Store!Image, Store!Data,
                      Store!Mixture, Data
  <2>7. Store!Write(b, d)
    BY <1>5, <2>5, <2>6 DEF WriteHit, Store!Write
  <2> QED
    BY <2>7, SMTT(40) DEF Store!Next, Store!Data, Data
<1>6. ASSUME NEW b \in Block, NEW d \in Data, WriteMiss(b, d) PROVE Store!Next
  <2>1. Mem' = [Mem EXCEPT ![b] = d] /\ Store!WriteBack
    BY <1>6, FillMem DEF WriteMiss
  <2>2. Store!Write(b, d)
    BY <1>6, <2>1 DEF WriteMiss, Store!Write
  <2> QED
    BY <2>2 DEF Store!Next, Store!Data, Data
<1>7. ASSUME NEW n \in Progress, NEW done \in SUBSET Slot, Flush(n, done)
      PROVE  Store!Next
  <2>1. /\ disk' = Written(n)
        /\ \A i \in done : n[i] = NSectors
    BY <1>7 DEF Flush, Flushes
  <2>2. Store!WriteBack /\ (done = Dirty => disk' = Mem)
    BY <2>1, WrittenMem
  <2>3. \A i \in Slot : /\ cache'[i].valid = cache[i].valid
                        /\ cache'[i].block = cache[i].block
                        /\ cache'[i].data = cache[i].data
    BY <1>0, <1>7 DEF Flush, TypeOK, BlockBuf
  <2>4. \A b \in Block : Holding(b) = {} => disk'[b] = disk[b]
    BY <2>1 DEF Written
  <2>5. Mem' = Mem
    BY <2>3, <2>4, SameMem
  <2> QED
    BY <1>7, <2>2, <2>5 DEF Flush, Store!Flush, Store!Next
<1>8. ASSUME NEW n \in Progress, NEW done \in SUBSET Slot, Shutdown(n, done)
      PROVE  Store!Next
  <2>1. disk' = Written(n)
    BY <1>8 DEF Shutdown, Flushes
  <2>2. Store!WriteBack /\ disk' \in [Block -> Data]
    BY <2>1, WrittenMem, WrittenBlocks DEF IInv, Coherent
  <2>3. \A i \in Slot : ~cache'[i].valid
    BY <1>0, <1>8 DEF Shutdown, TypeOK, BlockBuf
  <2>4. Mem' = disk'
    BY <2>2, <2>3, EmptyMem
  <2> QED
    BY <1>8, <2>2, <2>4 DEF Shutdown, Store!Stop, Store!Next
<1>9. ASSUME NEW n \in Progress, Crash(n) PROVE Store!Next
  <2>1. disk' = Written(n)
    BY <1>9 DEF Crash
  <2>2. Store!WriteBack /\ disk' \in [Block -> Data]
    BY <2>1, WrittenMem, WrittenBlocks DEF IInv, Coherent
  <2>3. \A i \in Slot : ~cache'[i].valid
    BY <1>0, <1>9 DEF Crash, TypeOK, BlockBuf
  <2>4. Mem' = disk'
    BY <2>2, <2>3, EmptyMem
  <2> QED
    BY <1>9, <2>2, <2>4 DEF Crash, Store!Stop, Store!Next
<1>10. CASE UNCHANGED vars
  <2>1. Mem' = Mem
    BY <1>10, SameMem DEF vars
  <2> QED
    BY <1>10, <2>1 DEF vars, Store!vars
<1>11. QED
  BY <1>1, <1>2, <1>3, <1>4, <1>5, <1>6, <1>7, <1>8, <1>9, <1>10

\* The initial states of the cache are initial states of the block store.
LEMMA InitRefines == Init /\ MemFacts => Store!Init
<1> SUFFICES ASSUME Init, MemFacts PROVE Store!Init
  OBVIOUS
<1>1. \A b \in Block : Holding(b) = {}
  BY DEF Init, Holding
<1>2. Mem = disk
  BY <1>1 DEF MemFacts, Init
<1>3. QED
  BY <1>2 DEF Init, Store!Init, Store!Image, Store!Data, Data

\* The write-back cache implements the block store: reads see the last
\* write, failed calls change nothing visible, a successful flush makes the
\* image stable, a crash leaves each sector old or new.
THEOREM CacheImplementsStore == Spec => StoreSpec
<1>1. Spec => []IInv
  BY InitCoherent, NextCoherent, PTL DEF Spec
<1>2. IInv => MemFacts
  BY MemLemma
<1>3. Init => IInv
  BY InitCoherent
<1>4. QED
  BY <1>1, <1>2, <1>3, InitRefines, NextRefines, PTL
  DEF Spec, StoreSpec, Store!Spec

-----------------------------------------------------------------------------
(***************************************************************************)
(* The volume: who has which block.                                        *)
(***************************************************************************)

\* Induction over the numbers, and what a fold gives.
Ind == INSTANCE FoldLemmas WITH op <- LAMBDA x, y : x

\* An extent of a record's list and the disk blocks behind it; an empty one has
\* none.
Extent == [log : Int, phys : Nat \ {0}, cnt : Nat]
Blk(e) == e.phys .. e.phys + e.cnt - 1
XBlocks(x) == UNION {Blk(x[i]) : i \in 1 .. Len(x)}
\* No two extents of a list meet.
Apart(x) == \A i, j \in 1 .. Len(x) : i # j => Blk(x[i]) \cap Blk(x[j]) = {}

\* The parts of the volume that the argument reads, and what they hold.
RecordOk(x) ==
    /\ x = [f \in {"type", "links", "gen", "parent", "data", "size", "attrs", "ext"} |-> x[f]]
    /\ x.data \in Nat /\ x.size \in Nat /\ x.ext \in Seq(Extent)
MrtRec == [alloc : BOOLEAN, block : Nat, gen : Nat]
Shape(s) == s = [f \in {"mrt", "rec", "dir", "free", "data", "count", "mrtFree"} |-> s[f]]
VolumeOk(s) ==
    /\ Shape(s)
    /\ s.mrt \in [Rec -> MrtRec] /\ s.rec = [r \in Rec |-> s.rec[r]]
    /\ \A r \in Rec : RecordOk(s.rec[r])
    /\ s.free \subseteq Nat \ {0}

\* The blocks that record x with MRT entry m has.
Claims(m, x) ==
    IF m.alloc /\ m.block # 0 THEN {m.block} \cup ({x.data} \ {0}) \cup XBlocks(x.ext) ELSE {}

\* It has none of them twice.
Tidy(m, x) ==
    m.alloc /\ m.block # 0 =>
        /\ Apart(x.ext) /\ m.block \notin XBlocks(x.ext)
        /\ x.data # 0 => x.data # m.block /\ x.data \notin XBlocks(x.ext)

\* No block has two owners, or one and a clear bit in the bitmap.
Sole(s) ==
    \A r \in Rec :
        /\ Tidy(s.mrt[r], s.rec[r]) /\ Claims(s.mrt[r], s.rec[r]) \cap s.free = {}
        /\ \A q \in Rec \ {r} : Claims(s.mrt[r], s.rec[r]) \cap Claims(s.mrt[q], s.rec[q]) = {}

\* The superblock's counters agree with the table.
Counted(s) ==
    s.count = Cardinality(Rec \ FreeSlots(s)) /\ s.mrtFree = Cardinality(FreeSlots(s))

\* The inductive invariant of the volume.  BlocksOwnedOnce alone says nothing of
\* the extents of a list that is about to be cut or joined; Apart does.
Good(s) == VolumeOk(s) /\ Sole(s) /\ Counted(s)

\* The names that lead to record r: a directory's record and a name in it.
Entries(s, r) == {x \in Rec \X NameOf : IsDir(s, x[1]) /\ s.dir[x[1]][x[2]] = r}

\* What the argument about names needs of the tables: only a directory has a tree.
DirTyped(s) ==
    /\ s.dir = [p \in Rec |-> [n \in NameOf |-> s.dir[p][n]]]
    /\ \A r \in Rec : /\ s.rec[r].links \in Nat
                      /\ "DATA" \in s.rec[r].attrs => s.rec[r].type = "dir"

\* Every name leads to a record with a link for it, except to the root, which
\* no link counts.
Leads(s, r) == Entries(s, r) # {} => record_read(s, r) /\ Cardinality(Entries(s, r)) <= s.rec[r].links
DirOk(s) == DirTyped(s) /\ \A r \in Rec \ {root_record_id} : Leads(s, r)

\* Names, and the records they lead to, stay as they are.
SameRecord(x, y) ==
    /\ y.type = x.type /\ y.links = x.links /\ y.gen = x.gen
    /\ "DATA" \in y.attrs <=> "DATA" \in x.attrs
SameNames(s, T) ==
    /\ T.dir = s.dir
    /\ \A q \in Rec : /\ record_read(T, q) <=> record_read(s, q)
                      /\ SameRecord(s.rec[q], T.rec[q])

\* r and what it names are gone; nothing else is.
Freed(s, T, r) ==
    /\ T.dir = s.dir /\ ~mrt_resolve(T, r)
    /\ r \in Rec => T.rec[r] \in {Blank, s.rec[r]}
    /\ \A q \in Rec \ {r} : T.mrt[q] = s.mrt[q] /\ T.rec[q] = s.rec[q]

\* A nonempty set of numbers has a smallest element.
LEMMA MinIn ==
    ASSUME NEW S \in SUBSET Nat, S # {}
    PROVE  Min(S) \in S /\ \A y \in S : Min(S) <= y
<1> DEFINE R == OpToRel(<, Nat)
<1>1. IsWellFoundedOn(R, Nat)
  BY NatLessThanWellFounded
<1>2. PICK x \in S : \A y \in S : ~ (<<y, x>> \in R)
  <2> HIDE DEF R
  <2> QED BY <1>1, WFMin
<1>3. \A y \in S : x <= y
  <2> SUFFICES ASSUME NEW y \in S PROVE x <= y
    OBVIOUS
  <2>1. ~(y < x)
    BY <1>2 DEF OpToRel
  <2> QED BY <2>1
<1>4. \E m \in S : \A y \in S : m <= y
  BY <1>3
<1> QED BY <1>4, Zenon DEF Min

\* The allocator hands out a free block, and 0 stands for none.
LEMMA AllocFree ==
    ASSUME NEW s, VolumeOk(s)
    PROVE  /\ bitmap_alloc_(s) = 0 <=> s.free = {}
           /\ bitmap_alloc_(s) # 0 => bitmap_alloc_(s) \in s.free /\ bitmap_alloc_(s) \in Nat \ {0}
<1>1. s.free \subseteq Nat /\ 0 \notin s.free
  BY DEF VolumeOk
<1>2. s.free # {} => Min(s.free) \in s.free
  BY <1>1, MinIn
<1> QED BY <1>1, <1>2 DEF bitmap_alloc_

\* A record rewritten with the same type, links and tree keeps all names.
LEMMA NamesSame ==
    ASSUME NEW s, VolumeOk(s), NEW T, NEW r, NEW x, T.mrt = s.mrt, T.dir = s.dir,
           T.rec = [s.rec EXCEPT ![r] = x], r \in Rec => SameRecord(s.rec[r], x)
    PROVE  SameNames(s, T)
<1>1. \A q \in Rec : T.rec[q] = IF q = r THEN x ELSE s.rec[q]
  BY DEF VolumeOk
<1>2. \A q \in Rec : SameRecord(s.rec[q], T.rec[q])
  BY <1>1 DEF SameRecord
<1>3. \A q \in Rec : record_read(T, q) <=> record_read(s, q)
  BY <1>2 DEF record_read, mrt_resolve, SameRecord
<1> QED BY <1>2, <1>3 DEF SameNames

\* One such change after another.
LEMMA SameTwice ==
    ASSUME NEW s, NEW T, NEW U, SameNames(s, T), SameNames(T, U)
    PROVE  SameNames(s, U)
BY DEF SameNames, SameRecord

\* A call that does nothing.
LEMMA SameSelf == \A s : SameNames(s, s)
BY DEF SameNames, SameRecord

-----------------------------------------------------------------------------
(***************************************************************************)
(* One record changes hands with the free blocks.                          *)
(***************************************************************************)

\* A change to one record, whose blocks come from its own and the free ones and
\* go to its own and the free ones, leaves every block with one owner.
LEMMA ChangeOne ==
    ASSUME NEW s, NEW T, Sole(s), NEW r \in Rec,
           \A q \in Rec \ {r} : T.mrt[q] = s.mrt[q] /\ T.rec[q] = s.rec[q],
           Tidy(T.mrt[r], T.rec[r]),
           Claims(T.mrt[r], T.rec[r]) \subseteq Claims(s.mrt[r], s.rec[r]) \cup s.free,
           T.free \subseteq s.free \cup Claims(s.mrt[r], s.rec[r]),
           Claims(T.mrt[r], T.rec[r]) \cap T.free = {}
    PROVE  Sole(T)
<1> DEFINE A(q) == Claims(s.mrt[q], s.rec[q])
           B(q) == Claims(T.mrt[q], T.rec[q])
           t(q) == Tidy(T.mrt[q], T.rec[q])
<1>1. \A q \in Rec \ {r} : B(q) = A(q) /\ t(q)
  BY DEF Sole
<1>2. t(r) /\ B(r) \subseteq A(r) \cup s.free /\ T.free \subseteq s.free \cup A(r) /\ B(r) \cap T.free = {}
  OBVIOUS
<1>3. \A q \in Rec : A(q) \cap s.free = {} /\ \A p \in Rec \ {q} : A(q) \cap A(p) = {}
  BY DEF Sole
<1>4. (\A q \in Rec : t(q) /\ B(q) \cap T.free = {} /\ \A p \in Rec \ {q} : B(q) \cap B(p) = {}) => Sole(T)
  BY DEF Sole
<1> HIDE DEF A, B, t
<1>5. \A q \in Rec : t(q) /\ B(q) \cap T.free = {}
  BY <1>1, <1>2, <1>3
<1>6. ASSUME NEW q \in Rec, NEW p \in Rec \ {q} PROVE B(q) \cap B(p) = {}
  <2>1. CASE q # r /\ p # r
    BY <1>1, <1>3, <2>1
  <2>2. CASE q = r
    BY <1>1, <1>2, <1>3, <2>2
  <2>3. CASE p = r
    BY <1>1, <1>2, <1>3, <2>3
  <2> QED BY <2>1, <2>2, <2>3
<1> QED BY <1>4, <1>5, <1>6

\* A change that touches neither table, extents nor tree roots.
SameBlocks(s, T) ==
    /\ T.mrt = s.mrt /\ T.free = s.free /\ T.count = s.count /\ T.mrtFree = s.mrtFree
    /\ \A q \in Rec : T.rec[q].data = s.rec[q].data /\ T.rec[q].ext = s.rec[q].ext

\* It leaves a good volume good.
LEMMA SameGood ==
    ASSUME NEW s, NEW T, Good(s), VolumeOk(T), SameBlocks(s, T)
    PROVE  Good(T)
<1>1. Sole(T)
  BY DEF Good, Sole, SameBlocks, Tidy, Claims
<1>2. Counted(T)
  BY DEF Good, Counted, SameBlocks, FreeSlots
<1> QED BY <1>1, <1>2 DEF Good

\* The numbers of free and taken slots when one slot changes.
LEMMA SlotTaken ==
    ASSUME NEW s, NEW T, NEW r \in Rec, Counted(s), ~s.mrt[r].alloc, T.mrt[r].alloc,
           \A q \in Rec \ {r} : T.mrt[q] = s.mrt[q]
    PROVE  /\ Cardinality(Rec \ FreeSlots(T)) = s.count + 1
           /\ Cardinality(FreeSlots(T)) = s.mrtFree - 1
<1> DEFINE F == FreeSlots(s)
           U == Rec \ FreeSlots(s)
<1>1. IsFiniteSet(Rec) /\ F \subseteq Rec /\ U \subseteq Rec
  BY FilesAssumption DEF FreeSlots
<1>2. IsFiniteSet(F) /\ IsFiniteSet(U)
  BY <1>1, FS_Subset
<1>3. FreeSlots(T) = F \ {r} /\ Rec \ FreeSlots(T) = U \cup {r} /\ r \in F /\ r \notin U
  BY DEF FreeSlots
<1>4. s.count = Cardinality(U) /\ s.mrtFree = Cardinality(F)
  BY DEF Counted
<1> HIDE DEF F, U
<1>5. Cardinality(F \ {r}) = Cardinality(F) - 1
  BY <1>2, <1>3, FS_RemoveElement
<1>6. Cardinality(U \cup {r}) = Cardinality(U) + 1
  BY <1>2, <1>3, FS_AddElement
<1> QED BY <1>3, <1>4, <1>5, <1>6

\* And back.
LEMMA SlotFreed ==
    ASSUME NEW s, NEW T, NEW r \in Rec, Counted(s), s.mrt[r].alloc, ~T.mrt[r].alloc,
           \A q \in Rec \ {r} : T.mrt[q] = s.mrt[q]
    PROVE  /\ Cardinality(Rec \ FreeSlots(T)) = s.count - 1
           /\ Cardinality(FreeSlots(T)) = s.mrtFree + 1
           /\ s.count \in Nat /\ s.count > 0
<1> DEFINE F == FreeSlots(s)
           U == Rec \ FreeSlots(s)
<1>1. IsFiniteSet(Rec) /\ F \subseteq Rec /\ U \subseteq Rec
  BY FilesAssumption DEF FreeSlots
<1>2. IsFiniteSet(F) /\ IsFiniteSet(U)
  BY <1>1, FS_Subset
<1>3. FreeSlots(T) = F \cup {r} /\ Rec \ FreeSlots(T) = U \ {r} /\ r \in U /\ r \notin F
  BY DEF FreeSlots
<1>4. s.count = Cardinality(U) /\ s.mrtFree = Cardinality(F)
  BY DEF Counted
<1> HIDE DEF F, U
<1>5. Cardinality(F \cup {r}) = Cardinality(F) + 1
  BY <1>2, <1>3, FS_AddElement
<1>6. Cardinality(U \ {r}) = Cardinality(U) - 1
  BY <1>2, <1>3, FS_RemoveElement
<1>7. Cardinality(U) \in Nat /\ Cardinality(U \ {r}) \in Nat /\ Cardinality(U) # 0
  BY <1>2, <1>3, FS_CardinalityType, FS_EmptySet, FS_RemoveElement
<1>8. s.count \in Nat /\ s.count # 0 /\ s.count > 0
  BY <1>4, <1>7
<1> QED BY <1>3, <1>4, <1>5, <1>6, <1>8

\* The numbers of slots are numbers.
LEMMA CountsNat ==
    ASSUME NEW s, Counted(s)
    PROVE  s.count \in Nat /\ s.mrtFree \in Nat
<1>1. IsFiniteSet(Rec) /\ FreeSlots(s) \subseteq Rec /\ Rec \ FreeSlots(s) \subseteq Rec
  BY FilesAssumption DEF FreeSlots
<1>2. IsFiniteSet(FreeSlots(s)) /\ IsFiniteSet(Rec \ FreeSlots(s))
  BY <1>1, FS_Subset
<1> QED BY <1>2, FS_CardinalityType DEF Counted

\* A record without extents or tree.
LEMMA BareRecord ==
    ASSUME NEW m, NEW x, x.ext = <<>>, x.data = 0
    PROVE  Tidy(m, x) /\ Claims(m, x) = IF m.alloc /\ m.block # 0 THEN {m.block} ELSE {}
<1>1. Len(x.ext) = 0 /\ 1 .. 0 = {}
  OBVIOUS
<1>2. Apart(x.ext) /\ XBlocks(x.ext) = {}
  BY <1>1 DEF Apart, XBlocks
<1> QED BY <1>2 DEF Tidy, Claims

\* The image of a record that record_alloc writes.
LEMMA BlankOk ==
    ASSUME NEW t, NEW g
    PROVE  LET x == [Blank EXCEPT !.type = t, !.links = 1, !.gen = g]
           IN  RecordOk(x) /\ x.ext = <<>> /\ x.data = 0
<1>1. RecordOk(Blank) /\ Blank.ext = <<>> /\ Blank.data = 0
  <2>1. <<>> \in Seq(Extent)
    OBVIOUS
  <2> QED BY <2>1 DEF RecordOk, Blank
<1> QED BY <1>1 DEF RecordOk

\* R.fs is s with a bare record R.id in block b, which was free.
Allocated(s, R, b) ==
    /\ R.id \in Rec /\ b \in s.free /\ b # 0 /\ mrt_resolve(R.fs, R.id) /\ R.fs.free = s.free \ {b}
    /\ R.fs.mrt[R.id].alloc /\ R.fs.mrt[R.id].block = b
    /\ R.fs.rec[R.id].ext = <<>> /\ R.fs.rec[R.id].data = 0
    /\ ~s.mrt[R.id].alloc /\ record_read(R.fs, R.id) /\ R.fs.dir = s.dir
    /\ R.fs.rec[R.id].links = 1 /\ R.fs.rec[R.id].attrs = {}
    /\ \A q \in Rec \ {R.id} : R.fs.mrt[q] = s.mrt[q] /\ R.fs.rec[q] = s.rec[q]

\* record_alloc, whether it finds a slot, a block, both or none.
LEMMA RecordAlloc ==
    ASSUME NEW s, Good(s), NEW type
    PROVE  /\ Good(record_alloc(s, type).fs)
           /\ record_alloc(s, type).id # 0 => \E b : Allocated(s, record_alloc(s, type), b)
           /\ record_alloc(s, type).id = 0 => SameNames(s, record_alloc(s, type).fs)
           /\ record_alloc(s, type).id # 0 =>
                record_alloc(s, type).fs.rec[record_alloc(s, type).id].type = type
           /\ FreeSlots(s) # {} /\ s.free # {} => record_alloc(s, type).id # 0
<1> DEFINE r == Min(FreeSlots(s))
           b == bitmap_alloc_(s)
           a == mrt_alloc_entry(s, r)
           image == [Blank EXCEPT !.type = type, !.links = 1, !.gen = a.mrt[r].gen]
           n == mrt_free_entry(a, r)
           T == [record_write(mrt_update_entry(Take(a, b), r, b), r, image) EXCEPT !.count = @ + 1]
<1>1. CASE FreeSlots(s) = {}
  <2>1. record_alloc(s, type) = [fs |-> s, id |-> 0]
    BY <1>1 DEF record_alloc
  <2>2. SameNames(s, s)
    BY DEF SameNames, SameRecord
  <2> QED BY <1>1, <2>1, <2>2
<1> SUFFICES ASSUME FreeSlots(s) # {}
             PROVE  /\ Good(record_alloc(s, type).fs)
                    /\ record_alloc(s, type).id # 0 => \E c : Allocated(s, record_alloc(s, type), c)
                    /\ record_alloc(s, type).id = 0 => SameNames(s, record_alloc(s, type).fs)
                    /\ record_alloc(s, type).id # 0 =>
                         record_alloc(s, type).fs.rec[record_alloc(s, type).id].type = type
                    /\ s.free # {} => record_alloc(s, type).id # 0
  BY <1>1
<1>2. r \in Rec /\ ~s.mrt[r].alloc
  <2>1. FreeSlots(s) \in SUBSET Nat
    BY FilesAssumption DEF FreeSlots
  <2>2. r \in FreeSlots(s)
    BY <2>1, MinIn
  <2> QED BY <2>2 DEF FreeSlots
<1>3. VolumeOk(s) /\ Sole(s) /\ Counted(s) /\ s.count \in Nat /\ s.mrtFree \in Nat
  BY CountsNat DEF Good
<1>4. record_alloc(s, type) = IF b = 0 THEN [fs |-> n, id |-> 0] ELSE [fs |-> T, id |-> r]
  BY DEF record_alloc
<1>5. (b # 0 => b \in s.free /\ b \in Nat \ {0}) /\ (b = 0 => s.free = {})
  BY <1>3, AllocFree
<1> HIDE DEF r, b
<1>6. s.mrt[r] \in MrtRec
  BY <1>2, <1>3 DEF VolumeOk
<1>9. /\ a.mrt = [s.mrt EXCEPT ![r] = [alloc |-> TRUE, block |-> 0, gen |-> s.mrt[r].gen + 1]]
      /\ a.rec = s.rec /\ a.free = s.free /\ a.count = s.count /\ a.mrtFree = s.mrtFree - 1 /\ Shape(a)
      /\ a.dir = s.dir
  BY <1>2, <1>3 DEF mrt_alloc_entry, VolumeOk, Shape
<1>10. /\ a.mrt \in [Rec -> MrtRec] /\ a.mrt[r].alloc
       /\ \A q \in Rec \ {r} : a.mrt[q] = s.mrt[q]
  <2>1. [alloc |-> TRUE, block |-> 0, gen |-> s.mrt[r].gen + 1] \in MrtRec
    BY <1>6 DEF MrtRec
  <2> QED BY <1>2, <1>3, <1>9, <2>1 DEF VolumeOk
<1>7. CASE b = 0
  <2> HIDE DEF a
  <2>1. /\ n.mrt = [a.mrt EXCEPT ![r] = [a.mrt[r] EXCEPT !.alloc = FALSE, !.block = 0]]
        /\ n.rec = s.rec /\ n.free = s.free /\ n.count = s.count /\ n.mrtFree = (s.mrtFree - 1) + 1 /\ Shape(n)
        /\ n.dir = a.dir
    BY <1>2, <1>9 DEF mrt_free_entry, Shape
  <2> HIDE DEF n
  <2>2. /\ n.mrt \in [Rec -> MrtRec] /\ ~n.mrt[r].alloc
        /\ \A q \in Rec \ {r} : n.mrt[q] = s.mrt[q] /\ n.rec[q] = s.rec[q]
    <3>1. [a.mrt[r] EXCEPT !.alloc = FALSE, !.block = 0] \in MrtRec /\ ~[a.mrt[r] EXCEPT !.alloc = FALSE, !.block = 0].alloc
      BY <1>2, <1>10 DEF MrtRec
    <3> QED BY <1>2, <1>10, <2>1, <3>1
  <2>3. VolumeOk(n)
    BY <1>3, <2>1, <2>2 DEF VolumeOk
  <2>4. Tidy(n.mrt[r], n.rec[r]) /\ Claims(n.mrt[r], n.rec[r]) = {}
    BY <2>2 DEF Tidy, Claims
  <2>5. Sole(n)
    BY <1>2, <1>3, <2>1, <2>2, <2>4, ChangeOne
  <2>6. FreeSlots(n) = FreeSlots(s)
    BY <1>2, <2>2 DEF FreeSlots
  <2>7. Counted(n)
    <3>1. n.mrtFree = s.mrtFree
      BY <1>3, <2>1
    <3> QED BY <1>3, <2>1, <2>6, <3>1 DEF Counted
  <2>8. SameNames(s, n)
    <3>1. n.dir = s.dir
      BY <1>9, <2>1
    <3>2. \A q \in Rec : record_read(n, q) <=> record_read(s, q)
      BY <1>2, <2>2 DEF record_read, mrt_resolve
    <3> QED BY <2>1, <3>1, <3>2 DEF SameNames, SameRecord
  <2> QED BY <1>4, <1>5, <1>7, <2>3, <2>5, <2>7, <2>8 DEF Good
<1>8. CASE b # 0
  <2>2. RecordOk(image) /\ image.ext = <<>> /\ image.data = 0
    BY BlankOk
  <2>14. image.type = type /\ image.links = 1 /\ image.attrs = {} /\ image.gen = a.mrt[r].gen
    BY DEF Blank
  <2> HIDE DEF a, image
  <2> DEFINE v == mrt_update_entry(Take(a, b), r, b)
  <2>3. /\ v.mrt = [a.mrt EXCEPT ![r] = [a.mrt[r] EXCEPT !.block = b]]
        /\ v.rec = s.rec /\ v.free = s.free \ {b} /\ v.count = s.count /\ v.mrtFree = s.mrtFree - 1 /\ Shape(v)
        /\ v.dir = s.dir
    BY <1>2, <1>9 DEF mrt_update_entry, Take, Shape
  <2>4. T = [record_write(v, r, image) EXCEPT !.count = @ + 1]
    OBVIOUS
  <2> HIDE DEF v, T
  <2>1. /\ T.mrt = v.mrt /\ T.rec = [s.rec EXCEPT ![r] = image] /\ T.free = s.free \ {b}
        /\ T.count = s.count + 1 /\ T.mrtFree = s.mrtFree - 1 /\ Shape(T) /\ T.dir = s.dir
    BY <2>3, <2>4 DEF record_write, Shape
  <2>5. /\ T.mrt \in [Rec -> MrtRec] /\ T.mrt[r].alloc /\ T.mrt[r].block = b /\ T.mrt[r].gen = a.mrt[r].gen
        /\ \A q \in Rec \ {r} : T.mrt[q] = s.mrt[q]
    <3>1. [a.mrt[r] EXCEPT !.block = b] \in MrtRec /\ [a.mrt[r] EXCEPT !.block = b].alloc = a.mrt[r].alloc
          /\ [a.mrt[r] EXCEPT !.block = b].block = b /\ [a.mrt[r] EXCEPT !.block = b].gen = a.mrt[r].gen
      BY <1>2, <1>5, <1>8, <1>10 DEF MrtRec
    <3> QED BY <1>2, <1>10, <2>1, <2>3, <3>1
  <2>6. T.rec[r] = image /\ T.rec = [q \in Rec |-> T.rec[q]] /\ \A q \in Rec \ {r} : T.rec[q] = s.rec[q]
    BY <1>2, <1>3, <2>1 DEF VolumeOk
  <2>7. VolumeOk(T)
    <3>1. \A q \in Rec : RecordOk(T.rec[q])
      BY <1>3, <2>2, <2>6 DEF VolumeOk
    <3>2. T.free \subseteq Nat \ {0}
      BY <1>3, <2>1 DEF VolumeOk
    <3> QED BY <2>1, <2>5, <2>6, <3>1, <3>2 DEF VolumeOk
  <2>8. Tidy(T.mrt[r], T.rec[r]) /\ Claims(T.mrt[r], T.rec[r]) = {b}
    BY <1>8, <2>2, <2>5, <2>6, BareRecord
  <2>9. Sole(T)
    <3>1. Claims(T.mrt[r], T.rec[r]) \subseteq Claims(s.mrt[r], s.rec[r]) \cup s.free
      BY <1>5, <1>8, <2>8
    <3>2. T.free \subseteq s.free \cup Claims(s.mrt[r], s.rec[r]) /\ Claims(T.mrt[r], T.rec[r]) \cap T.free = {}
      BY <2>1, <2>8
    <3>3. \A q \in Rec \ {r} : T.mrt[q] = s.mrt[q] /\ T.rec[q] = s.rec[q]
      BY <2>5, <2>6
    <3> QED BY <1>2, <1>3, <2>8, <3>1, <3>2, <3>3, ChangeOne
  <2>10. Counted(T)
    <3>1. /\ Cardinality(Rec \ FreeSlots(T)) = s.count + 1
          /\ Cardinality(FreeSlots(T)) = s.mrtFree - 1
      BY <1>2, <1>3, <2>5, SlotTaken
    <3> QED BY <2>1, <3>1 DEF Counted
  <2>11. r # 0
    BY <1>2, FilesAssumption
  <2> DEFINE A == record_alloc(s, type)
  <2>12. A.fs = T /\ A.id = r
    BY <1>4, <1>8
  <2> HIDE DEF A
  <2>13. Allocated(s, A, b)
    BY <1>2, <1>5, <1>8, <2>1, <2>2, <2>5, <2>6, <2>12, <2>14 DEF Allocated, mrt_resolve, record_read
  <2>15. A.fs.rec[A.id].type = type
    BY <2>6, <2>12, <2>14
  <2> QED BY <2>7, <2>9, <2>10, <2>11, <2>12, <2>13, <2>15 DEF Good, A
<1> QED BY <1>7, <1>8

\* The first extents of a record, as many as are gathered.
LEMMA CollectedFirst ==
    ASSUME NEW x \in Seq(Extent)
    PROVE  /\ Collected(x) \in Seq(Extent) /\ Len(Collected(x)) <= Len(x)
           /\ \A i \in 1 .. Len(Collected(x)) : Collected(x)[i] = x[i]
           /\ XBlocks(Collected(x)) \subseteq XBlocks(x)
           /\ Apart(x) => Apart(Collected(x))
<1> DEFINE n == IF Len(x) < CollectMax THEN Len(x) ELSE CollectMax
           c == Collected(x)
<1>1. n \in Nat /\ n <= Len(x) /\ Len(x) \in Nat
  BY FilesAssumption
<1>2. c = SubSeq(x, 1, n)
  BY DEF Collected
<1>3. c \in Seq(Extent) /\ Len(c) = n /\ \A i \in 1 .. n : c[i] = x[i]
  <2> HIDE DEF n, c
  <2> QED BY <1>1, <1>2
<1> HIDE DEF n, c
<1>4. \A i \in 1 .. n : i \in 1 .. Len(x)
  BY <1>1
<1>5. XBlocks(c) \subseteq XBlocks(x)
  BY <1>3, <1>4 DEF XBlocks
<1>6. Apart(x) => Apart(c)
  BY <1>3, <1>4 DEF Apart
<1> QED BY <1>1, <1>3, <1>5, <1>6 DEF c

\* Extents have numbers from 1 up for blocks.
LEMMA XBlocksNat ==
    ASSUME NEW x \in Seq(Extent)
    PROVE  XBlocks(x) \subseteq Nat \ {0}
<1>1. \A i \in 1 .. Len(x) : x[i] \in Extent
  OBVIOUS
<1>2. ASSUME NEW e \in Extent PROVE Blk(e) \subseteq Nat \ {0}
  <2>1. e.phys \in Nat \ {0} /\ e.cnt \in Nat
    BY DEF Extent
  <2> QED BY <2>1 DEF Blk
<1> QED BY <1>1, <1>2 DEF XBlocks

\* record_free gives back the record's block and the extents that it gathers.
LEMMA RecordFree ==
    ASSUME NEW s, Good(s), NEW r
    PROVE  Good(record_free(s, r)) /\ Freed(s, record_free(s, r), r)
<1> DEFINE x == s.rec[r].ext
           G == UNION {e.phys .. e.phys + e.cnt - 1 : e \in Range(Collected(x))}
           b == s.mrt[r].block
           u == bitmap_free_range(extent_remove_all(s, r), s.mrt[r].block, 1)
           T == [mrt_free_entry([u EXCEPT !.rec[r] = Blank], r) EXCEPT !.count = IF @ > 0 THEN @ - 1 ELSE @]
<1>1. CASE ~mrt_resolve(s, r)
  BY <1>1 DEF record_free, Freed
<1> SUFFICES ASSUME mrt_resolve(s, r) PROVE Good(T) /\ Freed(s, T, r)
  BY <1>1 DEF record_free
<1>2. r \in Rec /\ s.mrt[r].alloc /\ b # 0
  BY DEF mrt_resolve
<1>3. VolumeOk(s) /\ Sole(s) /\ Counted(s) /\ s.count \in Nat /\ s.mrtFree \in Nat
  BY CountsNat DEF Good
<1>4. x \in Seq(Extent) /\ b \in Nat /\ s.mrt[r] \in MrtRec
  BY <1>2, <1>3 DEF VolumeOk, RecordOk, MrtRec
<1>5. G \subseteq XBlocks(x)
  <2> DEFINE c == Collected(x)
  <2>1. c \in Seq(Extent) /\ XBlocks(c) \subseteq XBlocks(x)
    BY <1>4, CollectedFirst
  <2>2. G = XBlocks(c)
    <3> HIDE DEF c, x
    <3>1. Range(c) = {c[i] : i \in 1 .. Len(c)}
      BY <2>1 DEF Range
    <3> QED BY <3>1 DEF XBlocks, Blk, c
  <2> QED BY <2>1, <2>2
<1>6. extent_remove_all(s, r) = [s EXCEPT !.free = @ \cup G]
  BY DEF extent_remove_all
<1> HIDE DEF G
<1>7. /\ T.mrt = [s.mrt EXCEPT ![r] = [s.mrt[r] EXCEPT !.alloc = FALSE, !.block = 0]]
      /\ T.rec = [s.rec EXCEPT ![r] = Blank] /\ T.free = s.free \cup G \cup b .. b + 1 - 1
      /\ T.count = (IF s.count > 0 THEN s.count - 1 ELSE s.count) /\ T.mrtFree = s.mrtFree + 1
      /\ Shape(T) /\ T.dir = s.dir
  <2>1. /\ u.mrt = s.mrt /\ u.rec = s.rec /\ u.free = s.free \cup G \cup b .. b + 1 - 1
        /\ u.count = s.count /\ u.mrtFree = s.mrtFree /\ Shape(u) /\ u.dir = s.dir
    BY <1>3, <1>6 DEF bitmap_free_range, VolumeOk, Shape
  <2> HIDE DEF u
  <2> DEFINE v == [u EXCEPT !.rec[r] = Blank]
  <2>2. /\ v.mrt = u.mrt /\ v.rec = [u.rec EXCEPT ![r] = Blank] /\ v.free = u.free
        /\ v.count = u.count /\ v.mrtFree = u.mrtFree /\ Shape(v) /\ v.dir = u.dir
    BY <1>2, <1>3, <2>1 DEF Shape
  <2> HIDE DEF v
  <2> DEFINE w == mrt_free_entry(v, r)
  <2>3. /\ w.mrt = [v.mrt EXCEPT ![r] = [v.mrt[r] EXCEPT !.alloc = FALSE, !.block = 0]] /\ w.rec = v.rec
        /\ w.free = v.free /\ w.count = v.count /\ w.mrtFree = v.mrtFree + 1 /\ Shape(w)
        /\ w.dir = v.dir
    BY <1>2, <2>2 DEF mrt_free_entry, Shape
  <2>4. T = [w EXCEPT !.count = IF @ > 0 THEN @ - 1 ELSE @]
    BY DEF v
  <2> HIDE DEF w, T
  <2>5. /\ T.mrt = w.mrt /\ T.rec = w.rec /\ T.free = w.free
        /\ T.count = (IF w.count > 0 THEN w.count - 1 ELSE w.count) /\ T.mrtFree = w.mrtFree /\ Shape(T)
        /\ T.dir = w.dir
    BY <2>3, <2>4 DEF Shape
  <2> QED BY <2>1, <2>2, <2>3, <2>5
<1>8. b .. b + 1 - 1 = {b}
  BY <1>4
<1> HIDE DEF T
<1>9. /\ ~T.mrt[r].alloc
      /\ \A q \in Rec \ {r} : T.mrt[q] = s.mrt[q] /\ T.rec[q] = s.rec[q]
      /\ T.rec[r] = Blank /\ T.rec = [q \in Rec |-> T.rec[q]]
  <2>1. ~[s.mrt[r] EXCEPT !.alloc = FALSE, !.block = 0].alloc
    BY <1>4 DEF MrtRec
  <2>2. T.mrt[r] = [s.mrt[r] EXCEPT !.alloc = FALSE, !.block = 0] /\ \A q \in Rec \ {r} : T.mrt[q] = s.mrt[q]
    BY <1>2, <1>3, <1>7 DEF VolumeOk
  <2>3. T.rec[r] = Blank /\ T.rec = [q \in Rec |-> T.rec[q]] /\ \A q \in Rec \ {r} : T.rec[q] = s.rec[q]
    BY <1>2, <1>3, <1>7 DEF VolumeOk
  <2> QED BY <2>1, <2>2, <2>3
<1>10. Claims(s.mrt[r], s.rec[r]) = {b} \cup ({s.rec[r].data} \ {0}) \cup XBlocks(x)
  BY <1>2 DEF Claims
<1>11. VolumeOk(T)
  <2>1. T.mrt \in [Rec -> MrtRec]
    <3>1. [s.mrt[r] EXCEPT !.alloc = FALSE, !.block = 0] \in MrtRec
      BY <1>4 DEF MrtRec
    <3> QED BY <1>2, <1>3, <1>7, <3>1 DEF VolumeOk
  <2>2. RecordOk(Blank)
    BY DEF RecordOk, Blank
  <2>3. \A q \in Rec : RecordOk(T.rec[q])
    BY <1>3, <1>9, <2>2 DEF VolumeOk
  <2>4. T.free \subseteq Nat \ {0}
    <3>1. s.free \subseteq Nat \ {0}
      BY <1>3 DEF VolumeOk
    <3> QED BY <1>2, <1>4, <1>5, <1>7, <1>8, <3>1, XBlocksNat
  <2> QED BY <1>7, <1>9, <2>1, <2>3, <2>4 DEF VolumeOk
<1>12. Tidy(T.mrt[r], T.rec[r]) /\ Claims(T.mrt[r], T.rec[r]) = {}
  BY <1>9 DEF Tidy, Claims
<1>13. Sole(T)
  <2>1. T.free \subseteq s.free \cup Claims(s.mrt[r], s.rec[r])
    BY <1>5, <1>7, <1>8, <1>10
  <2>2. /\ Claims(T.mrt[r], T.rec[r]) \subseteq Claims(s.mrt[r], s.rec[r]) \cup s.free
        /\ Claims(T.mrt[r], T.rec[r]) \cap T.free = {}
    BY <1>12
  <2> QED BY <1>2, <1>3, <1>9, <1>12, <2>1, <2>2, ChangeOne
<1>14. Counted(T)
  <2>1. ~T.mrt[r].alloc
    BY <1>9
  <2>2. \A q \in Rec \ {r} : T.mrt[q] = s.mrt[q]
    BY <1>9
  <2>3. /\ Cardinality(Rec \ FreeSlots(T)) = s.count - 1
        /\ Cardinality(FreeSlots(T)) = s.mrtFree + 1 /\ s.count > 0
    BY <1>2, <1>3, <2>1, <2>2, SlotFreed
  <2> QED BY <1>7, <2>3 DEF Counted
<1>15. Freed(s, T, r)
  BY <1>7, <1>9 DEF Freed, mrt_resolve
<1> QED BY <1>11, <1>13, <1>14, <1>15 DEF Good

-----------------------------------------------------------------------------
(***************************************************************************)
(* Names.                                                                  *)
(***************************************************************************)

\* A record rewritten with its blocks unchanged: link counts, attributes, sizes.
LEMMA PutRecord ==
    ASSUME NEW s, Good(s), NEW T, NEW r, NEW x, r \in Rec => RecordOk(x),
           r \in Rec => x.data = s.rec[r].data /\ x.ext = s.rec[r].ext, Shape(T),
           T.rec = [s.rec EXCEPT ![r] = x],
           T.mrt = s.mrt /\ T.free = s.free /\ T.count = s.count /\ T.mrtFree = s.mrtFree
    PROVE  Good(T)
<1>1. VolumeOk(s)
  BY DEF Good
<1>2. /\ T.rec = [q \in Rec |-> T.rec[q]]
      /\ \A q \in Rec : T.rec[q] = IF q = r THEN x ELSE s.rec[q]
  BY <1>1 DEF VolumeOk
<1>3. \A q \in Rec : RecordOk(T.rec[q])
  BY <1>1, <1>2 DEF VolumeOk
<1>4. VolumeOk(T)
  BY <1>1, <1>2, <1>3 DEF VolumeOk
<1>5. SameBlocks(s, T)
  BY <1>2 DEF SameBlocks
<1> QED BY <1>4, <1>5, SameGood

\* A directory entry, or a whole directory, is changed.
LEMMA DirGood ==
    ASSUME NEW s, Good(s), NEW p, NEW n, NEW v
    PROVE  Good([s EXCEPT !.dir[p][n] = v])
<1> DEFINE T == [s EXCEPT !.dir[p][n] = v]
<1>1. Shape(s)
  BY DEF Good, VolumeOk
<1>2. /\ Shape(T) /\ T.mrt = s.mrt /\ T.rec = s.rec /\ T.free = s.free
      /\ T.count = s.count /\ T.mrtFree = s.mrtFree
  BY <1>1 DEF Shape
<1> HIDE DEF T
<1>3. VolumeOk(T) /\ SameBlocks(s, T)
  BY <1>2 DEF Good, VolumeOk, SameBlocks
<1>4. Good(T)
  BY <1>3, SameGood
<1> QED BY <1>4 DEF T

\* smkfs_create_record from the new record on, whether it succeeds or not.
LEMMA NamedGood ==
    ASSUME NEW a, Good(a.fs), a.id # 0 => mrt_resolve(a.fs, a.id), NEW type, NEW parent, NEW n, NEW room
    PROVE  Good(Named(a, type, parent, n, room).fs)
<1> DEFINE s == a.fs
           r == a.id
           b == IF type = "dir" THEN bitmap_alloc_(s) ELSE 0
           u == IF b = 0 THEN s ELSE [Take(s, b) EXCEPT !.dir[r] = [m \in NameOf |-> 0]]
           w == IF b = 0 THEN u ELSE bitmap_free_range(u, b, 1)
           x == Fresh(u, r, type, parent, b)
           T == record_write([u EXCEPT !.dir[parent][n] = r], r, x)
<1>1. CASE r = 0
  BY <1>1 DEF Named
<1> SUFFICES ASSUME r # 0 PROVE Good(Named(a, type, parent, n, room).fs)
  BY <1>1
<1>2. r \in Rec /\ s.mrt[r].alloc /\ s.mrt[r].block # 0
  BY DEF mrt_resolve
<1>3. Named(a, type, parent, n, room).fs = record_free(w, r) \/ Named(a, type, parent, n, room).fs = T
  BY DEF Named
<1>4. VolumeOk(s) /\ Sole(s) /\ Counted(s) /\ Good(s)
  BY DEF Good
<1>5. b # 0 => b \in s.free /\ b \in Nat \ {0}
  BY <1>4, AllocFree
<1> HIDE DEF s, r, b
<1>6. /\ Shape(u) /\ u.mrt = s.mrt /\ u.rec = s.rec /\ u.free = s.free \ {b}
      /\ u.count = s.count /\ u.mrtFree = s.mrtFree
  <2>1. CASE b = 0
    BY <1>4, <2>1 DEF VolumeOk
  <2>2. CASE b # 0
    BY <1>4, <2>2 DEF VolumeOk, Shape, Take
  <2> QED BY <2>1, <2>2
<1>7. Good(w)
  <2>1. CASE b = 0
    BY <1>4, <2>1
  <2>2. CASE b # 0
    <3>1. w = bitmap_free_range(u, b, 1)
      BY <2>2
    <3> HIDE DEF u, w
    <3>2. b .. b + 1 - 1 = {b}
      BY <1>5, <2>2
    <3>3. /\ Shape(w) /\ w.mrt = s.mrt /\ w.rec = s.rec /\ w.free = s.free
          /\ w.count = s.count /\ w.mrtFree = s.mrtFree
      BY <1>5, <1>6, <2>2, <3>1, <3>2 DEF bitmap_free_range, Shape
    <3>4. VolumeOk(w) /\ SameBlocks(s, w)
      BY <1>4, <3>3 DEF VolumeOk, SameBlocks
    <3> QED BY <1>4, <3>4, SameGood
  <2> QED BY <2>1, <2>2
<1>8. Good(record_free(w, r))
  BY <1>7, RecordFree
<1>9. RecordOk(x) /\ x.ext = <<>> /\ x.data = b
  <2>1. RecordOk(Blank) /\ Blank.ext = <<>> /\ b \in Nat
    <3>1. <<>> \in Seq(Extent)
      OBVIOUS
    <3>2. b \in Nat
      BY <1>5
    <3> QED BY <3>1, <3>2 DEF RecordOk, Blank
  <2> HIDE DEF u
  <2> QED BY <2>1 DEF RecordOk, Fresh
<1> HIDE DEF u, x
<1>10. /\ Shape(T) /\ T.mrt = s.mrt /\ T.rec = [s.rec EXCEPT ![r] = x] /\ T.free = s.free \ {b}
       /\ T.count = s.count /\ T.mrtFree = s.mrtFree
  BY <1>6 DEF record_write, Shape
<1> HIDE DEF T
<1>11. T.rec[r] = x /\ T.rec = [q \in Rec |-> T.rec[q]] /\ \A q \in Rec \ {r} : T.rec[q] = s.rec[q]
  BY <1>2, <1>4, <1>10 DEF VolumeOk
<1>12. VolumeOk(T)
  <2>1. \A q \in Rec : RecordOk(T.rec[q])
    BY <1>4, <1>9, <1>11 DEF VolumeOk
  <2> QED BY <1>4, <1>10, <1>11, <2>1 DEF VolumeOk
<1>13. Sole(T)
  <2> DEFINE B == Claims(T.mrt[r], T.rec[r])
             A == Claims(s.mrt[r], s.rec[r])
             m == s.mrt[r].block
  <2>1. XBlocks(x.ext) = {} /\ Apart(x.ext)
    <3>1. Len(x.ext) = 0 /\ 1 .. 0 = {}
      BY <1>9
    <3> QED BY <3>1 DEF XBlocks, Apart
  <2>2. B = {m} \cup ({b} \ {0}) /\ m \in A
    BY <1>2, <1>9, <1>10, <1>11, <2>1 DEF Claims
  <2>3. A \cap s.free = {}
    BY <1>2, <1>4 DEF Sole
  <2>4. Tidy(T.mrt[r], T.rec[r])
    <3>1. b # 0 => b # m
      BY <1>5, <2>2, <2>3
    <3> QED BY <1>9, <1>10, <1>11, <2>1, <3>1 DEF Tidy
  <2>5. B \subseteq A \cup s.free /\ T.free \subseteq s.free \cup A /\ B \cap T.free = {}
    <3> HIDE DEF A, B, m
    <3> QED BY <1>5, <1>10, <2>2, <2>3
  <2>6. \A q \in Rec \ {r} : T.mrt[q] = s.mrt[q] /\ T.rec[q] = s.rec[q]
    BY <1>10, <1>11
  <2> QED BY <1>2, <1>4, <2>4, <2>5, <2>6, ChangeOne
<1>14. Counted(T)
  BY <1>4, <1>10 DEF Counted, FreeSlots
<1>15. Good(T)
  BY <1>12, <1>13, <1>14 DEF Good
<1> QED BY <1>3, <1>8, <1>15

\* smkfs_create_record.
LEMMA CreateGood ==
    ASSUME NEW s, Good(s), NEW type, NEW parent, NEW n, NEW room
    PROVE  Good(smkfs_create_record(s, type, parent, n, room).fs)
<1> DEFINE a == record_alloc(s, type)
<1>1. Good(a.fs) /\ (a.id # 0 => mrt_resolve(a.fs, a.id))
  BY RecordAlloc DEF Allocated
<1> HIDE DEF a
<1>2. Good(Named(a, type, parent, n, room).fs)
  BY <1>1, NamedGood
<1> QED BY <1>2 DEF smkfs_create_record, a

\* smkfs_setattr.
LEMMA SetattrGood ==
    ASSUME NEW s, Good(s), NEW r, NEW a
    PROVE  Good(smkfs_setattr(s, r, a)) /\ (a # "DATA" => SameNames(s, smkfs_setattr(s, r, a)))
<1> DEFINE x == record_add_attr(s.rec[r], a)
           T == record_write(s, r, x)
<1>1. CASE ~(record_read(s, r) /\ AddFits(s.rec[r], a))
  BY <1>1, SameSelf DEF smkfs_setattr
<1>2. CASE record_read(s, r) /\ AddFits(s.rec[r], a)
  <2>1. r \in Rec /\ RecordOk(s.rec[r]) /\ Shape(s)
    BY <1>2 DEF record_read, mrt_resolve, Good, VolumeOk
  <2>2. RecordOk(x) /\ x.data = s.rec[r].data /\ x.ext = s.rec[r].ext
    BY <2>1 DEF record_add_attr, RecordOk
  <2>5. a # "DATA" => SameRecord(s.rec[r], x)
    BY <2>1 DEF record_add_attr, RecordOk, SameRecord
  <2> HIDE DEF x
  <2>3. /\ Shape(T) /\ T.rec = [s.rec EXCEPT ![r] = x]
        /\ T.mrt = s.mrt /\ T.free = s.free /\ T.count = s.count /\ T.mrtFree = s.mrtFree
        /\ T.dir = s.dir
    BY <2>1 DEF record_write, Shape
  <2> HIDE DEF T
  <2>4. Good(T)
    BY <2>1, <2>2, <2>3, PutRecord
  <2>6. a # "DATA" => SameNames(s, T)
    <3>1. VolumeOk(s)
      BY DEF Good
    <3> QED BY <2>3, <2>5, <3>1, NamesSame
  <2> QED BY <1>2, <2>4, <2>6 DEF smkfs_setattr, T, x
<1> QED BY <1>1, <1>2

\* smkfs_create_file and smkfs_mkdir.
LEMMA CreateFileGood ==
    ASSUME NEW s, Good(s), NEW p, NEW room
    PROVE  Good(smkfs_create_file(s, p, room)) /\ Good(smkfs_mkdir(s, p, room))
<1> DEFINE c == smkfs_create_record(s, "file", SplitDir(s, p), SplitName(p), room)
           d == smkfs_create_record(s, "dir", SplitDir(s, p), SplitName(p), room)
           f == "file"
           g == "dir"
           sd == SplitDir(s, p)
           sn == SplitName(p)
<1>1. Good(smkfs_create_record(s, f, sd, sn, room).fs) /\ Good(smkfs_create_record(s, g, sd, sn, room).fs)
  <2> HIDE DEF f, g, sd, sn
  <2> QED BY CreateGood
<1>2. Good(c.fs) /\ Good(d.fs)
  BY <1>1
<1> HIDE DEF c, d
<1>3. Good(Permitted(c))
  <2> DEFINE e == "PERMISSIONS"
             k == c.fs
             i == c.id
  <2>1. Good(smkfs_setattr(k, i, e))
    <3> HIDE DEF e, k, i
    <3>1. Good(k)
      BY <1>2 DEF k
    <3> QED BY <3>1, SetattrGood
  <2> QED BY <1>2, <2>1 DEF Permitted
<1> QED BY <1>2, <1>3 DEF smkfs_create_file, smkfs_mkdir, c, d

\* smkfs_delete_record, the last name or not, and the calls that lead to it.
LEMMA DeleteGood ==
    ASSUME NEW s, Good(s), NEW parent, NEW n, NEW r
    PROVE  Good(smkfs_delete_record(s, parent, n, r))
<1> DEFINE u == [s EXCEPT !.dir[parent][n] = 0]
           z == 0
           links == IF u.rec[r].links = 0 THEN 0 ELSE u.rec[r].links - 1
           T == [u EXCEPT !.rec[r].links = links]
           x == [u.rec[r] EXCEPT !.links = links]
<1>1. Good([s EXCEPT !.dir[parent][n] = z])
  <2> HIDE DEF z
  <2> QED BY DirGood
<1>2. Good(u)
  BY <1>1
<1>3. smkfs_delete_record(s, parent, n, r) = s \/ smkfs_delete_record(s, parent, n, r) = Unlinked(u, r)
  BY DEF smkfs_delete_record
<1>4. Unlinked(u, r) = record_free(u, r) \/ Unlinked(u, r) = T
  BY DEF Unlinked
<1> HIDE DEF u
<1>5. Good(record_free(u, r))
  BY <1>2, RecordFree
<1> HIDE DEF links
<1>6. Shape(u) /\ (r \in Rec => RecordOk(u.rec[r]))
  BY <1>2 DEF Good, VolumeOk
<1>7. r \in Rec => RecordOk(x) /\ x.data = u.rec[r].data /\ x.ext = u.rec[r].ext
  BY <1>6 DEF RecordOk
<1>8. /\ Shape(T) /\ T.rec = [u.rec EXCEPT ![r] = x]
      /\ T.mrt = u.mrt /\ T.free = u.free /\ T.count = u.count /\ T.mrtFree = u.mrtFree
  BY <1>6 DEF Shape
<1> HIDE DEF T, x
<1>9. Good(T)
  BY <1>2, <1>7, <1>8, PutRecord
<1> QED BY <1>3, <1>4, <1>5, <1>9

\* smkfs_delete_file, smkfs_rmdir and smkfs_unlink.
LEMMA RemoveGood ==
    ASSUME NEW s, Good(s), NEW p
    PROVE  Good(RemovePath(s, p)) /\ Good(smkfs_unlink(s, p))
<1> DEFINE r == path_lookup(s, p)
           d == SplitDir(s, p)
           n == SplitName(p)
<1>1. Good(smkfs_delete_record(s, d, n, r))
  <2> HIDE DEF r, d, n
  <2> QED BY DeleteGood
<1>2. Good(RemovePath(s, p))
  BY <1>1 DEF RemovePath
<1> QED BY <1>2 DEF smkfs_unlink

\* smkfs_rename, wherever it stops.
LEMMA RenameGood ==
    ASSUME NEW s, Good(s), NEW p, NEW n, NEW q, NEW m, NEW r, NEW room
    PROVE  Good(smkfs_rename(s, p, n, q, m, r, room))
<1> DEFINE z == 0
           u == [s EXCEPT !.dir[p][n] = 0]
           v == [u EXCEPT !.dir[q][m] = r]
           x == [record_add_attr(s.rec[r], "PARENT") EXCEPT !.parent = q]
           T == record_write(v, r, x)
<1>1. Good([s EXCEPT !.dir[p][n] = z])
  <2> HIDE DEF z
  <2> QED BY DirGood
<1>2. Good(u) /\ u.rec = s.rec
  BY <1>1 DEF Good, VolumeOk, Shape
<1>3. Good(v) /\ v.rec = s.rec
  <2> HIDE DEF u
  <2>1. Good(v)
    BY <1>2, DirGood
  <2> QED BY <1>2, <2>1 DEF Good, VolumeOk, Shape
<1>4. \/ smkfs_rename(s, p, n, q, m, r, room) \in {s, u, v}
      \/ smkfs_rename(s, p, n, q, m, r, room) = T /\ record_read(s, r)
  BY DEF smkfs_rename
<1> HIDE DEF u, v
<1>5. CASE record_read(s, r)
  <2>1. r \in Rec /\ RecordOk(s.rec[r]) /\ Shape(v)
    BY <1>3, <1>5 DEF record_read, mrt_resolve, Good, VolumeOk
  <2>2. RecordOk(x) /\ x.data = v.rec[r].data /\ x.ext = v.rec[r].ext
    BY <1>3, <2>1 DEF record_add_attr, RecordOk
  <2> HIDE DEF x
  <2>3. /\ Shape(T) /\ T.rec = [v.rec EXCEPT ![r] = x]
        /\ T.mrt = v.mrt /\ T.free = v.free /\ T.count = v.count /\ T.mrtFree = v.mrtFree
    BY <2>1 DEF record_write, Shape
  <2> HIDE DEF T
  <2>4. Good(T)
    BY <1>3, <2>2, <2>3, PutRecord
  <2> QED BY <1>2, <1>3, <1>4, <2>4
<1>6. CASE ~record_read(s, r)
  BY <1>2, <1>3, <1>4, <1>6
<1> QED BY <1>5, <1>6

\* smkfs_link.
LEMMA LinkGood ==
    ASSUME NEW s, Good(s), NEW from, NEW to, NEW room
    PROVE  Good(smkfs_link(s, from, to, room))
<1> DEFINE r == path_lookup(s, from)
           d == SplitDir(s, to)
           n == SplitName(to)
           u == [s EXCEPT !.dir[d][n] = r]
           x == [s.rec[r] EXCEPT !.links = @ + 1]
           T == [s EXCEPT !.dir[d][n] = r, !.rec[r].links = @ + 1]
<1>1. smkfs_link(s, from, to, room) = s \/ (smkfs_link(s, from, to, room) = T /\ record_read(s, r))
  BY DEF smkfs_link
<1> HIDE DEF r, d, n
<1>2. CASE record_read(s, r)
  <2>1. r \in Rec /\ RecordOk(s.rec[r]) /\ Shape(s)
    BY <1>2 DEF record_read, mrt_resolve, Good, VolumeOk
  <2>2. RecordOk(x) /\ x.data = s.rec[r].data /\ x.ext = s.rec[r].ext
    BY <2>1 DEF RecordOk
  <2>3. /\ Shape(T) /\ T.rec = [s.rec EXCEPT ![r] = x]
        /\ T.mrt = s.mrt /\ T.free = s.free /\ T.count = s.count /\ T.mrtFree = s.mrtFree
    BY <2>1 DEF Shape
  <2> HIDE DEF T, x
  <2>4. Good(T)
    BY <2>2, <2>3, PutRecord
  <2> QED BY <1>1, <2>4
<1>3. CASE ~record_read(s, r)
  BY <1>1, <1>3
<1> QED BY <1>2, <1>3

-----------------------------------------------------------------------------
(***************************************************************************)
(* Lists of extents.                                                       *)
(***************************************************************************)

\* Two sequences, one behind the other.
LEMMA Joined ==
    ASSUME NEW E, NEW u \in Seq(E), NEW v \in Seq(E)
    PROVE  /\ u \o v \in Seq(E) /\ Len(u \o v) = Len(u) + Len(v)
           /\ \A p \in 1 .. Len(u) + Len(v) : (u \o v)[p] = IF p <= Len(u) THEN u[p] ELSE v[p - Len(u)]
OBVIOUS

\* Every element of F is one of a row of ss, and no two are the same one.
Placed(ss, F, k, f, g) ==
    /\ \A p \in 1 .. Len(F) : /\ f[p] \in 1 .. k /\ g[p] \in 1 .. Len(ss[f[p]])
                              /\ F[p] = ss[f[p]][g[p]]
    /\ \A p, q \in 1 .. Len(F) : f[p] = f[q] /\ g[p] = g[q] => p = q
Rows(ss, F, k) == \E f, g : Placed(ss, F, k, f, g)

\* One more row.
LEMMA RowsGrow ==
    ASSUME NEW E, NEW ss \in Seq(Seq(E)), NEW k \in Nat, k + 1 <= Len(ss), NEW F \in Seq(E), Rows(ss, F, k)
    PROVE  F \o ss[k + 1] \in Seq(E) /\ Rows(ss, F \o ss[k + 1], k + 1)
<1> DEFINE t == ss[k + 1]
           H == F \o t
           m == Len(F)
<1>1. PICK f, g : Placed(ss, F, k, f, g)
  BY DEF Rows
<1>2. t \in Seq(E) /\ m \in Nat /\ Len(t) \in Nat
  OBVIOUS
<1>3. H \in Seq(E) /\ Len(H) = m + Len(t)
      /\ \A p \in 1 .. m + Len(t) : H[p] = IF p <= m THEN F[p] ELSE t[p - m]
  <2> HIDE DEF t
  <2> QED BY <1>2
<1> DEFINE a == [p \in 1 .. Len(H) |-> IF p <= m THEN f[p] ELSE k + 1]
           b == [p \in 1 .. Len(H) |-> IF p <= m THEN g[p] ELSE p - m]
<1>4. \A p \in 1 .. m : /\ f[p] \in 1 .. k /\ g[p] \in 1 .. Len(ss[f[p]]) /\ F[p] = ss[f[p]][g[p]]
  BY <1>1 DEF Placed
<1>5. \A p, q \in 1 .. m : f[p] = f[q] /\ g[p] = g[q] => p = q
  BY <1>1 DEF Placed
<1> HIDE DEF H, m
<1>6. ASSUME NEW p \in 1 .. Len(H)
      PROVE  /\ a[p] \in 1 .. k + 1 /\ b[p] \in 1 .. Len(ss[a[p]]) /\ H[p] = ss[a[p]][b[p]]
  <2>1. CASE p <= m
    <3>1. p \in 1 .. m /\ a[p] = f[p] /\ b[p] = g[p] /\ H[p] = F[p]
      BY <1>2, <1>3, <2>1
    <3> HIDE DEF a, b
    <3>2. /\ f[p] \in 1 .. k /\ g[p] \in 1 .. Len(ss[f[p]]) /\ F[p] = ss[f[p]][g[p]]
      BY <1>4, <3>1
    <3>3. f[p] \in 1 .. k + 1
      BY <3>2
    <3> QED BY <3>1, <3>2, <3>3
  <2>2. CASE ~(p <= m)
    <3>1. a[p] = k + 1 /\ b[p] = p - m
      BY <2>2
    <3> HIDE DEF a, b, t
    <3>2. H[p] = t[p - m]
      BY <1>3, <2>2
    <3>3. p - m \in 1 .. Len(t)
      BY <1>2, <1>3, <2>2
    <3> QED BY <3>1, <3>2, <3>3 DEF t
  <2> QED BY <2>1, <2>2
<1>7. ASSUME NEW p \in 1 .. Len(H), NEW q \in 1 .. Len(H), a[p] = a[q], b[p] = b[q]
      PROVE  p = q
  <2>1. CASE p <= m /\ q <= m
    <3>1. p \in 1 .. m /\ q \in 1 .. m
      BY <1>2, <1>3, <2>1
    <3> QED BY <1>5, <1>7, <2>1, <3>1
  <2>2. CASE ~(p <= m) /\ ~(q <= m)
    <3>1. p - m = q - m
      BY <1>7, <2>2
    <3> QED BY <1>2, <1>3, <3>1
  <2>3. CASE p <= m /\ ~(q <= m)
    <3>1. f[p] = k + 1 /\ f[p] \in 1 .. k
      BY <1>2, <1>3, <1>4, <1>7, <2>3
    <3> QED BY <3>1
  <2>4. CASE ~(p <= m) /\ q <= m
    <3>1. f[q] = k + 1 /\ f[q] \in 1 .. k
      BY <1>2, <1>3, <1>4, <1>7, <2>4
    <3> QED BY <3>1
  <2> QED BY <2>1, <2>2, <2>3, <2>4
<1>8. Placed(ss, H, k + 1, a, b)
  <2> HIDE DEF a, b
  <2> QED BY <1>6, <1>7 DEF Placed
<1> QED BY <1>3, <1>8 DEF Rows, H

\* FlattenSeq puts the rows one behind the other.
LEMMA FlatRows ==
    ASSUME NEW E, NEW ss \in Seq(Seq(E))
    PROVE  FlattenSeq(ss) \in Seq(E) /\ Rows(ss, FlattenSeq(ss), Len(ss))
<1> DEFINE n == Len(ss)
           Eqn(h) == h = [i \in 1 .. n |-> IF i = 1 THEN ss[i] ELSE h[i - 1] \o ss[i]]
           h == CHOOSE h : Eqn(h)
           V == Seq(E)
           b == <<>>
           G == [x \in V \X (1 .. n) |-> x[1] \o ss[x[2]]]
<1>1. n \in Nat /\ \A i \in 1 .. n : ss[i] \in V
  OBVIOUS
<1>2. CASE n = 0
  <2>1. FlattenSeq(ss) = ss /\ ss = <<>>
    BY <1>2 DEF FlattenSeq
  <2>2. Placed(ss, <<>>, Len(ss), <<>>, <<>>)
    <3>1. Len(<<>>) = 0 /\ 1 .. 0 = {}
      OBVIOUS
    <3> QED BY <3>1 DEF Placed
  <2> QED BY <2>1, <2>2 DEF Rows
<1> SUFFICES ASSUME n # 0 PROVE FlattenSeq(ss) \in Seq(E) /\ Rows(ss, FlattenSeq(ss), n)
  BY <1>2
<1>3. FlattenSeq(ss) = h[n]
  BY DEF FlattenSeq
<1>4. PICK d \in [0 .. n -> V] : Ind!RecEqn(d, b, n, G)
  <2>1. b \in V /\ G \in [V \X (1 .. n) -> V]
    BY <1>1
  <2> HIDE DEF b, V, G, n
  <2> QED BY <1>1, <2>1, Ind!RecExists
<1>5. d[0] = <<>> /\ \A k \in 1 .. n : d[k] = d[k - 1] \o ss[k]
  <2>1. d[0] = b /\ \A k \in 1 .. n : d[k] = G[<<d[k - 1], k>>]
    BY <1>4 DEF Ind!RecEqn
  <2> HIDE DEF n, V
  <2>2. ASSUME NEW k \in 1 .. n PROVE d[k] = d[k - 1] \o ss[k]
    <3>1. k - 1 \in 0 .. n
      BY <1>1
    <3>2. <<d[k - 1], k>> \in V \X (1 .. n)
      BY <3>1
    <3> QED BY <2>1, <3>2
  <2> QED BY <2>1, <2>2
<1> DEFINE e == [i \in 1 .. n |-> d[i]]
<1>6. Eqn(e)
  <2> HIDE DEF n
  <2>1. ASSUME NEW i \in 1 .. n PROVE e[i] = IF i = 1 THEN ss[i] ELSE e[i - 1] \o ss[i]
    <3>1. CASE i = 1
      <4>3. 1 \in 1 .. n /\ 1 - 1 = 0
        BY <3>1
      <4>4. d[1] = d[1 - 1] \o ss[1]
        BY <1>5, <4>3
      <4>1. d[1] = <<>> \o ss[1] /\ ss[1] \in V
        BY <1>1, <1>5, <4>3, <4>4
      <4>2. <<>> \o ss[1] = ss[1]
        BY <4>1
      <4> QED BY <3>1, <4>1, <4>2
    <3>2. CASE i # 1
      <4>1. i - 1 \in 1 .. n
        BY <1>1, <3>2
      <4> QED BY <1>5, <3>2, <4>1
    <3> QED BY <3>1, <3>2
  <2> QED BY <2>1
<1>7. Eqn(h)
  <2> HIDE DEF Eqn
  <2> QED BY <1>6, Zenon
<1> HIDE DEF h
<1>8. /\ h[1] = ss[1]
      /\ \A i \in 1 .. n : i # 1 => h[i] = h[i - 1] \o ss[i]
  <2> HIDE DEF n
  <2>1. 1 \in 1 .. n
    BY <1>1
  <2> QED BY <1>7, <2>1
<1> HIDE DEF n
<1> DEFINE P(k) == k + 1 <= n => h[k + 1] \in V /\ Rows(ss, h[k + 1], k + 1)
           I == {k \in Nat : P(k)}
<1>9. P(0)
  <2>1. Rows(ss, b, 0)
    <3>1. Len(b) = 0 /\ 1 .. 0 = {}
      OBVIOUS
    <3>2. Placed(ss, b, 0, b, b)
      BY <3>1 DEF Placed
    <3> QED BY <3>2 DEF Rows
  <2>2. b \in V
    OBVIOUS
  <2>3. 0 + 1 <= Len(ss)
    BY <1>1 DEF n
  <2>4. b \o ss[0 + 1] \in V /\ Rows(ss, b \o ss[0 + 1], 0 + 1)
    <3> HIDE DEF b
    <3> QED BY <2>1, <2>2, <2>3, RowsGrow
  <2>5. b \o ss[1] = ss[1]
    <3>1. ss[1] \in V
      BY <1>1
    <3> QED BY <3>1
  <2> QED BY <1>8, <2>4, <2>5
<1>10. ASSUME NEW k \in Nat, P(k) PROVE P(k + 1)
  <2> SUFFICES ASSUME (k + 1) + 1 <= n
               PROVE  h[(k + 1) + 1] \in V /\ Rows(ss, h[(k + 1) + 1], (k + 1) + 1)
    OBVIOUS
  <2> DEFINE j == k + 1
             F == h[j]
  <2>1. j \in Nat /\ j + 1 \in 1 .. n /\ j + 1 # 1 /\ (j + 1) - 1 = j /\ j <= n
    BY <1>1
  <2>2. F \in V /\ Rows(ss, F, j)
    BY <1>10, <2>1
  <2>3. h[j + 1] = F \o ss[j + 1]
    BY <1>8, <2>1
  <2>4. j + 1 <= Len(ss)
    BY <1>1, <2>1 DEF n
  <2> HIDE DEF j, F
  <2>5. F \o ss[j + 1] \in V /\ Rows(ss, F \o ss[j + 1], j + 1)
    BY <2>1, <2>2, <2>4, RowsGrow
  <2> QED BY <2>3, <2>5 DEF j
<1>11. P(n - 1)
  <2> HIDE DEF P
  <2>1. 0 \in I /\ \A k \in Nat : k \in I => k + 1 \in I
    BY <1>9, <1>10
  <2> HIDE DEF I
  <2>2. n - 1 \in Nat
    BY <1>1
  <2>3. n - 1 \in I
    BY <2>1, <2>2, Ind!SetInduction
  <2> QED BY <2>3 DEF I
<1>12. (n - 1) + 1 = n /\ n <= n
  BY <1>1
<1>13. h[n] \in V /\ Rows(ss, h[n], n)
  BY <1>11, <1>12
<1> QED BY <1>3, <1>13

\* What is left of an extent is part of it, outside lo .. hi - 1, and in at
\* most two parts that have no block in common.
LEMMA CutParts ==
    ASSUME NEW e \in Extent, NEW lo \in Int, NEW hi \in Int, lo <= hi
    PROVE  LET c == Cut(e, lo, hi)
           IN  /\ c \in Seq(Extent) /\ Apart(c)
               /\ \A k \in 1 .. Len(c) : \A b \in Blk(c[k]) :
                      b \in Blk(e) /\ ~(e.log + (b - e.phys) >= lo /\ e.log + (b - e.phys) < hi)
<1> DEFINE c == Cut(e, lo, hi)
           a == e.log
           p == e.phys
           n == e.cnt
           left == [e EXCEPT !.cnt = lo - e.log]
           right == [log |-> hi, phys |-> e.phys + (hi - e.log), cnt |-> (e.log + e.cnt) - hi]
<1>1. a \in Int /\ p \in Nat \ {0} /\ n \in Nat
  BY DEF Extent
<1>2. CASE a + n <= lo \/ a >= hi
  <2>1. c = <<e>>
    BY <1>2 DEF Cut
  <2>2. ASSUME NEW b \in Blk(e)
        PROVE  ~(a + (b - p) >= lo /\ a + (b - p) < hi)
    <3>1. b \in p .. p + n - 1
      BY DEF Blk
    <3> HIDE DEF a, p, n
    <3> QED BY <1>1, <1>2, <3>1
  <2>3. Len(c) = 1 /\ c[1] = e /\ c \in Seq(Extent)
    BY <2>1
  <2> HIDE DEF c
  <2> QED BY <2>2, <2>3 DEF Apart, c
<1>3. CASE ~(a + n <= lo \/ a >= hi)
  <2>1. c = (IF a < lo THEN <<left>> ELSE <<>>) \o (IF a + n > hi THEN <<right>> ELSE <<>>)
    BY <1>3 DEF Cut
  <2>2. a < lo => left \in Extent /\ left.phys = p /\ left.cnt = lo - a
    BY <1>1 DEF Extent
  <2>3. right.phys = p + (hi - a) /\ right.cnt = (a + n) - hi
    OBVIOUS
  <2>4. a + n > hi => right \in Extent
    <3>1. a + n > hi => p + (hi - a) \in Nat \ {0} /\ (a + n) - hi \in Nat
      <4> HIDE DEF a, p, n
      <4> QED BY <1>1, <1>3
    <3> QED BY <3>1 DEF Extent
  <2> HIDE DEF left, right
  <2>5. a < lo => Blk(left) = p .. p + (lo - a) - 1
    BY <2>2 DEF Blk
  <2>6. Blk(right) = p + (hi - a) .. (p + (hi - a)) + ((a + n) - hi) - 1
    BY <2>3 DEF Blk
  <2>7. Blk(e) = p .. p + n - 1
    BY DEF Blk
  <2> HIDE DEF a, p, n
  <2>8. a < lo => \A b \in Blk(left) : b \in Blk(e) /\ ~(a + (b - p) >= lo /\ a + (b - p) < hi)
    BY <1>1, <1>3, <2>5, <2>7
  <2>9. a + n > hi => \A b \in Blk(right) : b \in Blk(e) /\ ~(a + (b - p) >= lo /\ a + (b - p) < hi)
    BY <1>1, <1>3, <2>6, <2>7
  <2>10. a < lo /\ a + n > hi => Blk(left) \cap Blk(right) = {}
    BY <1>1, <1>3, <2>5, <2>6
  <2>11. CASE a < lo /\ a + n > hi
    <3>0. c = <<left>> \o <<right>>
      BY <2>1, <2>11
    <3> DEFINE u == <<left>>
               v == <<right>>
    <3>1. u \in Seq(Extent) /\ v \in Seq(Extent) /\ Len(u) = 1 /\ Len(v) = 1 /\ u[1] = left /\ v[1] = right
      BY <2>2, <2>4, <2>11
    <3> HIDE DEF u, v
    <3>2. Len(c) = 2 /\ c[1] = left /\ c[2] = right /\ c \in Seq(Extent)
      <4>1. c = u \o v
        BY <3>0 DEF u, v
      <4> HIDE DEF c
      <4>2. /\ c \in Seq(Extent) /\ Len(c) = 1 + 1
            /\ \A i \in 1 .. 1 + 1 : c[i] = IF i <= 1 THEN u[i] ELSE v[i - 1]
        BY <3>1, <4>1, Joined
      <4> QED BY <3>1, <4>2
    <3> HIDE DEF c
    <3>3. 1 .. Len(c) = {1, 2}
      BY <3>2
    <3> QED BY <2>8, <2>9, <2>10, <2>11, <3>2, <3>3 DEF Apart, c, a, p
  <2>12. CASE a < lo /\ ~(a + n > hi)
    <3>1. c = <<left>>
      BY <2>1, <2>12
    <3>2. Len(c) = 1 /\ c[1] = left /\ c \in Seq(Extent)
      BY <2>2, <2>12, <3>1
    <3> HIDE DEF c
    <3> QED BY <2>8, <2>12, <3>2 DEF Apart, c, a, p
  <2>13. CASE ~(a < lo) /\ a + n > hi
    <3>1. c = <<right>>
      BY <2>1, <2>13
    <3>2. Len(c) = 1 /\ c[1] = right /\ c \in Seq(Extent)
      BY <2>4, <2>13, <3>1
    <3> HIDE DEF c
    <3> QED BY <2>9, <2>13, <3>2 DEF Apart, c, a, p
  <2>14. CASE ~(a < lo) /\ ~(a + n > hi)
    <3>1. c = <<>>
      BY <2>1, <2>14
    <3>2. Len(c) = 0 /\ c \in Seq(Extent) /\ 1 .. 0 = {}
      BY <3>1
    <3> HIDE DEF c
    <3> QED BY <3>2 DEF Apart, c
  <2> QED BY <2>11, <2>12, <2>13, <2>14
<1> QED BY <1>2, <1>3

\* The rebuilt list.
LEMMA RebuiltApart ==
    ASSUME NEW x \in Seq(Extent), Apart(x), NEW lo \in Int, NEW hi \in Int, lo <= hi
    PROVE  /\ Rebuilt(x, lo, hi) \in Seq(Extent) /\ Apart(Rebuilt(x, lo, hi))
           /\ \A b \in XBlocks(Rebuilt(x, lo, hi)) : \E i \in 1 .. Len(x) :
                  b \in Blk(x[i]) /\ ~(x[i].log + (b - x[i].phys) >= lo /\ x[i].log + (b - x[i].phys) < hi)
<1> DEFINE ss == [i \in DOMAIN x |-> Cut(x[i], lo, hi)]
           F == Rebuilt(x, lo, hi)
           n == Len(x)
           Keeps(i, b) == b \in Blk(x[i]) /\ ~(x[i].log + (b - x[i].phys) >= lo /\ x[i].log + (b - x[i].phys) < hi)
<1>1. n \in Nat /\ DOMAIN x = 1 .. n /\ \A i \in 1 .. n : x[i] \in Extent
  OBVIOUS
<1>2. \A i \in 1 .. n : /\ Cut(x[i], lo, hi) \in Seq(Extent) /\ Apart(Cut(x[i], lo, hi))
                        /\ \A k \in 1 .. Len(Cut(x[i], lo, hi)) : \A b \in Blk(Cut(x[i], lo, hi)[k]) : Keeps(i, b)
  BY <1>1, CutParts
<1> HIDE DEF Keeps
<1>3. ss \in Seq(Seq(Extent)) /\ Len(ss) = n /\ \A i \in 1 .. n : ss[i] = Cut(x[i], lo, hi)
  <2> HIDE DEF n
  <2>1. ss = [i \in 1 .. n |-> Cut(x[i], lo, hi)]
    BY <1>1
  <2> HIDE DEF ss
  <2> QED BY <1>1, <1>2, <2>1
<1> HIDE DEF ss
<1>4. F \in Seq(Extent) /\ Rows(ss, F, n)
  <2>1. F = FlattenSeq(ss)
    BY DEF Rebuilt, ss
  <2> HIDE DEF F, n
  <2>2. FlattenSeq(ss) \in Seq(Extent) /\ Rows(ss, FlattenSeq(ss), Len(ss))
    BY <1>3, FlatRows
  <2> QED BY <1>3, <2>1, <2>2
<1> HIDE DEF F, n
<1>5. PICK f, g : Placed(ss, F, n, f, g)
  BY <1>4 DEF Rows
<1>6. \A p \in 1 .. Len(F) : /\ f[p] \in 1 .. n /\ g[p] \in 1 .. Len(ss[f[p]]) /\ F[p] = ss[f[p]][g[p]]
  BY <1>5 DEF Placed
<1>7. ASSUME NEW p \in 1 .. Len(F), NEW b \in Blk(F[p]) PROVE Keeps(f[p], b)
  <2> DEFINE i == f[p]
             k == g[p]
             c == ss[i]
  <2>1. i \in 1 .. n /\ k \in 1 .. Len(c) /\ F[p] = c[k]
    BY <1>6
  <2>2. c = Cut(x[i], lo, hi)
    BY <1>3, <2>1
  <2> HIDE DEF i, k, c
  <2>3. \A m \in 1 .. Len(c) : \A a \in Blk(c[m]) : Keeps(i, a)
    BY <1>2, <2>1, <2>2
  <2> QED BY <2>1, <2>3 DEF i
<1>8. ASSUME NEW p \in 1 .. Len(F), NEW q \in 1 .. Len(F), p # q
      PROVE  Blk(F[p]) \cap Blk(F[q]) = {}
  <2>1. CASE f[p] # f[q]
    <3>1. Blk(x[f[p]]) \cap Blk(x[f[q]]) = {}
      BY <1>6, <2>1 DEF Apart, n
    <3>2. Blk(F[p]) \subseteq Blk(x[f[p]]) /\ Blk(F[q]) \subseteq Blk(x[f[q]])
      BY <1>7 DEF Keeps
    <3> QED BY <3>1, <3>2
  <2>2. CASE f[p] = f[q]
    <3>1. g[p] # g[q]
      BY <1>5, <1>8, <2>2 DEF Placed
    <3>2. Apart(ss[f[p]])
      BY <1>2, <1>3, <1>6
    <3> QED BY <1>6, <2>2, <3>1, <3>2 DEF Apart
  <2> QED BY <2>1, <2>2
<1>9. Apart(F)
  BY <1>8 DEF Apart
<1>10. \A b \in XBlocks(F) : \E i \in 1 .. n : Keeps(i, b)
  BY <1>6, <1>7 DEF XBlocks
<1> QED BY <1>4, <1>9, <1>10 DEF F, n, Keeps

\* One extent behind the others.
LEMMA AppendApart ==
    ASSUME NEW x \in Seq(Extent), Apart(x), NEW e \in Extent, Blk(e) \cap XBlocks(x) = {}
    PROVE  /\ Append(x, e) \in Seq(Extent) /\ Apart(Append(x, e))
           /\ XBlocks(Append(x, e)) = XBlocks(x) \cup Blk(e)
<1> DEFINE y == Append(x, e)
           n == Len(x)
<1>1. /\ n \in Nat /\ y \in Seq(Extent) /\ Len(y) = n + 1 /\ y[n + 1] = e
      /\ \A i \in 1 .. n : y[i] = x[i]
  OBVIOUS
<1> HIDE DEF y
<1>2. \A i \in 1 .. n : Blk(x[i]) \subseteq XBlocks(x)
  BY DEF XBlocks
<1>3. \A i, j \in 1 .. n : i # j => Blk(x[i]) \cap Blk(x[j]) = {}
  BY DEF Apart
<1>4. XBlocks(x) = UNION {Blk(x[i]) : i \in 1 .. n}
  BY DEF XBlocks
<1> HIDE DEF n
<1>5. \A i \in 1 .. n + 1 : i = n + 1 \/ i \in 1 .. n
  BY <1>1
<1>6. Apart(y)
  <2> SUFFICES ASSUME NEW i \in 1 .. n + 1, NEW j \in 1 .. n + 1, i # j
               PROVE  Blk(y[i]) \cap Blk(y[j]) = {}
    BY <1>1 DEF Apart
  <2>1. CASE i \in 1 .. n /\ j \in 1 .. n
    BY <1>1, <1>3, <2>1
  <2>2. CASE i = n + 1
    BY <1>1, <1>2, <1>5, <2>2
  <2>3. CASE j = n + 1
    BY <1>1, <1>2, <1>5, <2>3
  <2> QED BY <1>5, <2>1, <2>2, <2>3
<1>7. XBlocks(y) = XBlocks(x) \cup Blk(e)
  <2>1. 1 .. n + 1 = 1 .. n \cup {n + 1}
    BY <1>1
  <2>2. XBlocks(y) = UNION {Blk(y[i]) : i \in 1 .. n + 1}
    BY <1>1 DEF XBlocks
  <2>3. \A b : b \in XBlocks(y) <=> \E i \in 1 .. n + 1 : b \in Blk(y[i])
    BY <2>2
  <2>4. \A b : b \in XBlocks(x) <=> \E i \in 1 .. n : b \in Blk(x[i])
    BY <1>4
  <2> QED BY <1>1, <2>1, <2>3, <2>4
<1> QED BY <1>1, <1>6, <1>7 DEF y

\* One extent taken from the list.
LEMMA RemoveApart ==
    ASSUME NEW x \in Seq(Extent), Apart(x), NEW m \in 1 .. Len(x)
    PROVE  /\ RemoveAt(x, m) \in Seq(Extent) /\ Apart(RemoveAt(x, m))
           /\ XBlocks(RemoveAt(x, m)) \subseteq XBlocks(x) \ Blk(x[m])
<1> DEFINE n == Len(x)
           u == SubSeq(x, 1, m - 1)
           v == SubSeq(x, m + 1, n)
           y == u \o v
           k(i) == IF i < m THEN i ELSE i + 1
<1>1. n \in Nat /\ m \in 1 .. n /\ RemoveAt(x, m) = y
  BY DEF RemoveAt
<1>2. u \in Seq(Extent) /\ Len(u) = m - 1 /\ \A i \in 1 .. m - 1 : u[i] = x[i]
  <2> DEFINE j == m - 1
  <2>1. j \in Nat /\ j <= Len(x)
    BY <1>1
  <2> HIDE DEF j
  <2>2. SubSeq(x, 1, j) \in Seq(Extent) /\ Len(SubSeq(x, 1, j)) = j /\ \A i \in 1 .. j : SubSeq(x, 1, j)[i] = x[i]
    BY <2>1
  <2> QED BY <2>2 DEF j
<1>3. v \in Seq(Extent) /\ Len(v) = n - m /\ \A i \in 1 .. n - m : v[i] = x[i + m]
  BY <1>1
<1> HIDE DEF u, v
<1>4. y \in Seq(Extent) /\ Len(y) = n - 1 /\ \A i \in 1 .. n - 1 : y[i] = x[k(i)]
  <2>1. y \in Seq(Extent) /\ Len(y) = (m - 1) + (n - m)
        /\ \A i \in 1 .. (m - 1) + (n - m) : y[i] = IF i <= m - 1 THEN u[i] ELSE v[i - (m - 1)]
    <3>1. /\ y \in Seq(Extent) /\ Len(y) = Len(u) + Len(v)
          /\ \A i \in 1 .. Len(u) + Len(v) : y[i] = IF i <= Len(u) THEN u[i] ELSE v[i - Len(u)]
      BY <1>2, <1>3, Joined
    <3>2. Len(u) = m - 1 /\ Len(v) = n - m
      BY <1>2, <1>3
    <3> HIDE DEF y, n
    <3> QED BY <3>1, <3>2
  <2>2. (m - 1) + (n - m) = n - 1
    BY <1>1
  <2> HIDE DEF y, n
  <2>3. ASSUME NEW i \in 1 .. n - 1 PROVE y[i] = x[k(i)]
    <3>1. CASE i < m
      <4>1. i \in 1 .. m - 1 /\ i <= m - 1
        BY <1>1, <3>1
      <4> QED BY <1>2, <2>1, <2>2, <3>1, <4>1
    <3>2. CASE ~(i < m)
      <4>1. i - (m - 1) \in 1 .. n - m /\ ~(i <= m - 1) /\ (i - (m - 1)) + m = i + 1
        BY <1>1, <3>2
      <4>2. y[i] = v[i - (m - 1)]
        BY <2>1, <2>2, <4>1
      <4>3. v[i - (m - 1)] = x[(i - (m - 1)) + m]
        BY <1>3, <4>1
      <4> QED BY <3>2, <4>1, <4>2, <4>3
    <3> QED BY <3>1, <3>2
  <2> QED BY <2>1, <2>2, <2>3
<1> HIDE DEF y
<1>5. \A i \in 1 .. n - 1 : k(i) \in 1 .. n /\ k(i) # m
  BY <1>1
<1>6. \A i, j \in 1 .. n - 1 : i # j => k(i) # k(j)
  BY <1>1
<1> HIDE DEF k
<1>7. Apart(y)
  BY <1>4, <1>5, <1>6, ZenonT(60) DEF Apart, n
<1>8. XBlocks(y) \subseteq XBlocks(x) \ Blk(x[m])
  <2> SUFFICES ASSUME NEW i \in 1 .. n - 1, NEW b \in Blk(y[i])
               PROVE  b \in XBlocks(x) /\ b \notin Blk(x[m])
    BY <1>4 DEF XBlocks
  <2>1. b \in Blk(x[k(i)]) /\ k(i) \in 1 .. n /\ k(i) # m
    BY <1>4, <1>5
  <2>2. b \in XBlocks(x)
    BY <2>1 DEF XBlocks, n
  <2>3. Blk(x[k(i)]) \cap Blk(x[m]) = {}
    BY <1>1, <2>1 DEF Apart, n
  <2> QED BY <2>1, <2>2, <2>3
<1> QED BY <1>1, <1>4, <1>7, <1>8

\* extent_add puts the new block behind, before or beside what is there.
LEMMA MergedApart ==
    ASSUME NEW x \in Seq(Extent), Apart(x), NEW l \in Int, NEW b \in Nat \ {0}, b \notin XBlocks(x)
    PROVE  /\ Merged(x, l, b) \in Seq(Extent) /\ Apart(Merged(x, l, b))
           /\ XBlocks(Merged(x, l, b)) \subseteq XBlocks(x) \cup {b}
<1> DEFINE near == {i \in DOMAIN x : Follows(x[i], l, b) \/ Precedes(x[i], l, b)}
           m == Min(near)
           e == x[m]
           new == [log |-> l, phys |-> b, cnt |-> 1]
           grown == IF Follows(e, l, b) THEN [e EXCEPT !.cnt = @ + 1]
                    ELSE [log |-> l, phys |-> b, cnt |-> e.cnt + 1]
<1>1. Merged(x, l, b) = IF near = {} THEN Append(x, new) ELSE Append(RemoveAt(x, m), grown)
  BY DEF Merged
<1>2. CASE near = {}
  <2>1. new \in Extent /\ Blk(new) = {b}
    <3>1. new \in Extent /\ new.phys = b /\ new.cnt = 1
      BY DEF Extent
    <3> HIDE DEF new
    <3>2. b .. b + 1 - 1 = {b}
      OBVIOUS
    <3> QED BY <3>1, <3>2 DEF Blk
  <2> HIDE DEF new
  <2>2. Blk(new) \cap XBlocks(x) = {}
    BY <2>1
  <2>3. /\ Append(x, new) \in Seq(Extent) /\ Apart(Append(x, new))
        /\ XBlocks(Append(x, new)) = XBlocks(x) \cup Blk(new)
    BY <2>1, <2>2, AppendApart
  <2> QED BY <1>1, <1>2, <2>1, <2>3
<1>3. CASE near # {}
  <2>1. near \in SUBSET Nat
    OBVIOUS
  <2>2. m \in near
    <3> HIDE DEF near
    <3> QED BY <1>3, <2>1, MinIn
  <2>3. m \in 1 .. Len(x) /\ (Follows(e, l, b) \/ Precedes(e, l, b))
    BY <2>2
  <2>4. e \in Extent
    <3> HIDE DEF m
    <3> QED BY <2>3
  <2> HIDE DEF m, e
  <2>5. e.log \in Int /\ e.phys \in Nat \ {0} /\ e.cnt \in Nat
    BY <2>4 DEF Extent
  <2>6. grown \in Extent /\ Blk(grown) = Blk(e) \cup {b}
    <3>1. CASE Follows(e, l, b)
      <4>1. grown = [e EXCEPT !.cnt = @ + 1]
        BY <3>1
      <4> HIDE DEF grown
      <4>2. grown \in Extent /\ grown.phys = e.phys /\ grown.cnt = e.cnt + 1
        BY <2>4, <2>5, <4>1 DEF Extent
      <4>3. e.phys + e.cnt = b
        BY <3>1 DEF Follows
      <4>4. e.phys .. e.phys + (e.cnt + 1) - 1 = e.phys .. e.phys + e.cnt - 1 \cup {b}
        BY <2>5, <4>3
      <4> QED BY <4>2, <4>4 DEF Blk
    <3>2. CASE ~Follows(e, l, b)
      <4>1. grown = [log |-> l, phys |-> b, cnt |-> e.cnt + 1]
        BY <3>2
      <4> HIDE DEF grown
      <4>2. grown \in Extent /\ grown.phys = b /\ grown.cnt = e.cnt + 1
        BY <2>5, <4>1 DEF Extent
      <4>3. b + 1 = e.phys
        BY <2>3, <3>2 DEF Precedes
      <4>4. b .. b + (e.cnt + 1) - 1 = e.phys .. e.phys + e.cnt - 1 \cup {b}
        BY <2>5, <4>3
      <4> QED BY <4>2, <4>4 DEF Blk
    <3> QED BY <3>1, <3>2
  <2> HIDE DEF grown
  <2> DEFINE y == RemoveAt(x, m)
  <2>7. y \in Seq(Extent) /\ Apart(y) /\ XBlocks(y) \subseteq XBlocks(x) \ Blk(e)
    BY <2>3, RemoveApart DEF e
  <2> HIDE DEF y
  <2>8. Blk(grown) \cap XBlocks(y) = {}
    BY <2>6, <2>7
  <2>9. /\ Append(y, grown) \in Seq(Extent) /\ Apart(Append(y, grown))
        /\ XBlocks(Append(y, grown)) = XBlocks(y) \cup Blk(grown)
    BY <2>6, <2>7, <2>8, AppendApart
  <2>10. Blk(e) \subseteq XBlocks(x)
    BY <2>3 DEF XBlocks, e
  <2>11. Merged(x, l, b) = Append(y, grown)
    BY <1>1, <1>3 DEF y
  <2> QED BY <2>6, <2>7, <2>9, <2>10, <2>11
<1> QED BY <1>2, <1>3

-----------------------------------------------------------------------------
(***************************************************************************)
(* File data.                                                              *)
(***************************************************************************)

\* A change of one record in place of its table entry.
LEMMA RecordChange ==
    ASSUME NEW s, Good(s), NEW r, mrt_resolve(s, r), NEW T, NEW x, Shape(T), RecordOk(x),
           T.mrt = s.mrt, T.rec = [s.rec EXCEPT ![r] = x], T.count = s.count, T.mrtFree = s.mrtFree,
           Tidy(s.mrt[r], x),
           Claims(s.mrt[r], x) \subseteq Claims(s.mrt[r], s.rec[r]) \cup s.free,
           T.free \subseteq s.free \cup Claims(s.mrt[r], s.rec[r]),
           Claims(s.mrt[r], x) \cap T.free = {}
    PROVE  Good(T)
<1>1. r \in Rec /\ VolumeOk(s) /\ Sole(s) /\ Counted(s)
  BY DEF Good, mrt_resolve
<1>2. T.rec[r] = x /\ T.rec = [q \in Rec |-> T.rec[q]] /\ \A q \in Rec \ {r} : T.rec[q] = s.rec[q]
  BY <1>1 DEF VolumeOk
<1>3. Claims(s.mrt[r], s.rec[r]) \subseteq Nat \ {0}
  <2>1. s.mrt[r].block \in Nat /\ s.rec[r].data \in Nat /\ s.rec[r].ext \in Seq(Extent)
    BY <1>1 DEF VolumeOk, RecordOk, MrtRec
  <2>2. XBlocks(s.rec[r].ext) \subseteq Nat \ {0}
    BY <2>1, XBlocksNat
  <2> QED BY <2>1, <2>2 DEF Claims
<1>4. VolumeOk(T)
  <2>1. \A q \in Rec : RecordOk(T.rec[q])
    BY <1>1, <1>2 DEF VolumeOk
  <2>2. s.free \subseteq Nat \ {0} /\ s.mrt \in [Rec -> MrtRec]
    BY <1>1 DEF VolumeOk
  <2>3. T.free \subseteq Nat \ {0}
    BY <1>3, <2>2
  <2> QED BY <1>2, <2>1, <2>2, <2>3 DEF VolumeOk
<1>5. Sole(T)
  <2>1. \A q \in Rec \ {r} : T.mrt[q] = s.mrt[q] /\ T.rec[q] = s.rec[q]
    BY <1>2
  <2> QED BY <1>1, <1>2, <2>1, ChangeOne
<1>6. Counted(T)
  BY <1>1 DEF Counted, FreeSlots
<1> QED BY <1>4, <1>5, <1>6 DEF Good

\* Bytes of a block are written.
LEMMA DataGood ==
    ASSUME NEW s, Good(s), NEW b, NEW v
    PROVE  /\ Good([s EXCEPT !.data[b] = v]) /\ [s EXCEPT !.data[b] = v].mrt = s.mrt
           /\ SameNames(s, [s EXCEPT !.data[b] = v])
<1> DEFINE T == [s EXCEPT !.data[b] = v]
<1>1. Shape(s)
  BY DEF Good, VolumeOk
<1>2. /\ Shape(T) /\ T.mrt = s.mrt /\ T.rec = s.rec /\ T.free = s.free
      /\ T.count = s.count /\ T.mrtFree = s.mrtFree /\ T.dir = s.dir
  BY <1>1 DEF Shape
<1> HIDE DEF T
<1>3. VolumeOk(T) /\ SameBlocks(s, T)
  BY <1>2 DEF Good, VolumeOk, SameBlocks
<1>4. Good(T)
  BY <1>3, SameGood
<1>5. SameNames(s, T)
  BY <1>2 DEF SameNames, SameRecord, record_read, mrt_resolve
<1> QED BY <1>2, <1>4, <1>5 DEF T

\* A free block is put behind logical block l of a record.
LEMMA ExtentAddGood ==
    ASSUME NEW s, Good(s), NEW r, mrt_resolve(s, r), NEW l \in Int, NEW b \in Nat \ {0}, b \in s.free
    PROVE  LET T == extent_add(Take(s, b), r, l, b)
           IN  Good(T) /\ T.mrt = s.mrt /\ SameNames(s, T)
<1> DEFINE e == s.rec[r].ext
           M == Merged(e, l, b)
           x == [s.rec[r] EXCEPT !.ext = Merged(@, l, b)]
           T == extent_add(Take(s, b), r, l, b)
           A == Claims(s.mrt[r], s.rec[r])
           B == Claims(s.mrt[r], x)
           m == s.mrt[r].block
           d == s.rec[r].data
<1>1. r \in Rec /\ Shape(s) /\ RecordOk(s.rec[r]) /\ Tidy(s.mrt[r], s.rec[r]) /\ A \cap s.free = {}
  BY DEF mrt_resolve, Good, VolumeOk, Sole
<1>2. s.mrt[r].alloc /\ m # 0
  BY DEF mrt_resolve
<1>3. e \in Seq(Extent)
  BY <1>1 DEF RecordOk
<1>4. A = {m} \cup ({d} \ {0}) \cup XBlocks(e)
  BY <1>2 DEF Claims
<1>5. /\ Apart(e) /\ m \notin XBlocks(e) /\ (d # 0 => d # m /\ d \notin XBlocks(e))
  BY <1>1, <1>2 DEF Tidy
<1>6. b \notin A /\ b \notin XBlocks(e)
  <2> HIDE DEF A, e
  <2> QED BY <1>1, <1>4
<1>7. M \in Seq(Extent) /\ Apart(M) /\ XBlocks(M) \subseteq XBlocks(e) \cup {b}
  <2> HIDE DEF e
  <2> QED BY <1>3, <1>5, <1>6, MergedApart
<1>8. /\ Shape(T) /\ T.mrt = s.mrt /\ T.rec = [s.rec EXCEPT ![r] = x] /\ T.free = s.free \ {b}
      /\ T.count = s.count /\ T.mrtFree = s.mrtFree /\ T.dir = s.dir
  BY <1>1 DEF extent_add, record_write, Take, Shape
<1>9. x = [s.rec[r] EXCEPT !.ext = M]
  OBVIOUS
<1> HIDE DEF M, T, x
<1>10. RecordOk(x) /\ x.ext = M /\ x.data = d /\ SameRecord(s.rec[r], x)
  BY <1>1, <1>7, <1>9 DEF RecordOk, SameRecord
<1>11. B = {m} \cup ({d} \ {0}) \cup XBlocks(M)
  BY <1>2, <1>10 DEF Claims
<1> HIDE DEF e, A, B
<1>12. Tidy(s.mrt[r], x)
  <2>1. m \notin XBlocks(M) /\ (d # 0 => d # m /\ d \notin XBlocks(M))
    BY <1>4, <1>5, <1>6, <1>7
  <2> QED BY <1>7, <1>10, <2>1 DEF Tidy
<1>13. B \subseteq A \cup s.free /\ T.free \subseteq s.free \cup A /\ B \cap T.free = {}
  BY <1>1, <1>4, <1>7, <1>8, <1>11
<1>14. Good(T)
  BY <1>8, <1>10, <1>12, <1>13, RecordChange DEF A, B
<1>15. SameNames(s, T)
  <2>1. VolumeOk(s)
    BY DEF Good
  <2> QED BY <1>8, <1>10, <2>1, NamesSame
<1> QED BY <1>8, <1>14, <1>15 DEF T

\* What block_write_byte works on.
CallOk(c) == c = [f \in {"fs", "want", "ok"} |-> c[f]]

\* One block of a write.
LEMMA BlockWriteGood ==
    ASSUME NEW c, CallOk(c), Good(c.fs), NEW r, mrt_resolve(c.fs, r), NEW l \in Int, NEW lo, NEW hi
    PROVE  LET d == block_write_byte(c, r, l, lo, hi)
           IN  CallOk(d) /\ Good(d.fs) /\ d.fs.mrt = c.fs.mrt /\ SameNames(c.fs, d.fs)
<1> DEFINE s == c.fs
           rec == s.rec[r]
           b == bitmap_alloc_(s)
           got == Mapped(rec, l) \/ (b # 0 /\ ExtentFits(rec, l, b))
           v == extent_add(Take(s, b), r, l, b)
           u == IF Mapped(rec, l) THEN s ELSE ZeroFilled(v, b)
           phys == extent_resolve(u.rec[r], l)
           hit(i) == lo <= l * BlockSize + i /\ l * BlockSize + i < hi
           d == block_write_byte(c, r, l, lo, hi)
           bytes == [i \in 0 .. BlockSize - 1 |-> IF hit(i) THEN 1 ELSE u.data[phys][i]]
<1>1. CASE ~c.ok \/ ~got
  <2>1. d = [c EXCEPT !.ok = FALSE]
    BY <1>1 DEF block_write_byte
  <2> HIDE DEF d
  <2>2. d.fs = c.fs /\ CallOk(d)
    BY <2>1 DEF CallOk
  <2> QED BY <2>2, SameSelf, SMTT(40) DEF d
<1>2. CASE ~(~c.ok \/ ~got)
  <2>1. /\ d.fs = [u EXCEPT !.data[phys] = bytes] /\ CallOk(d)
    BY <1>2 DEF block_write_byte, CallOk
  <2>2. Good(u) /\ u.mrt = s.mrt /\ SameNames(s, u)
    <3>1. CASE Mapped(rec, l)
      BY <3>1, SameSelf
    <3>2. CASE ~Mapped(rec, l)
      <4>1. b # 0
        BY <1>2, <3>2
      <4>2. VolumeOk(s)
        BY DEF Good
      <4>3. b \in s.free /\ b \in Nat \ {0}
        BY <4>1, <4>2, AllocFree
      <4> HIDE DEF s, b
      <4>4. Good(v) /\ v.mrt = s.mrt /\ SameNames(s, v)
        BY <4>3, ExtentAddGood DEF s
      <4> HIDE DEF v
      <4> DEFINE z == [i \in 0 .. BlockSize - 1 |-> 0]
      <4>5. u = [v EXCEPT !.data[b] = z]
        BY <3>2 DEF ZeroFilled
      <4> HIDE DEF z, u
      <4>6. /\ Good([v EXCEPT !.data[b] = z]) /\ [v EXCEPT !.data[b] = z].mrt = v.mrt
            /\ SameNames(v, [v EXCEPT !.data[b] = z])
        BY <4>4, DataGood
      <4> QED BY <4>4, <4>5, <4>6, SameTwice
    <3> QED BY <3>1, <3>2
  <2> HIDE DEF u, phys, bytes, d
  <2>3. /\ Good([u EXCEPT !.data[phys] = bytes]) /\ [u EXCEPT !.data[phys] = bytes].mrt = u.mrt
        /\ SameNames(u, [u EXCEPT !.data[phys] = bytes])
    BY <2>2, DataGood
  <2>4. SameNames(s, [u EXCEPT !.data[phys] = bytes])
    <3> HIDE DEF s
    <3> QED BY <2>2, <2>3, SameTwice
  <2> QED BY <2>1, <2>2, <2>3, <2>4 DEF d
<1> QED BY <1>1, <1>2

\* Division with remainder, and that it grows with what is divided.
LEMMA DivMono ==
    ASSUME NEW p \in Nat \ {0}, NEW a \in Nat, NEW b \in Nat, a <= b
    PROVE  a \div p \in Nat /\ b \div p \in Nat /\ a \div p <= b \div p
<1>1. \A m \in Nat : m \div p \in Int /\ m % p \in 0 .. p - 1
  OBVIOUS
<1>2. ASSUME NEW m \in Nat PROVE m = p * (m \div p) + (m % p)
  BY SMTT(30)
<1>3. ASSUME NEW m \in Nat PROVE m \div p >= 0
  <2>1. m \div p \in Int /\ m % p \in 0 .. p - 1 /\ m = p * (m \div p) + (m % p)
    BY <1>1, <1>2
  <2> QED BY <2>1
<1>4. PICK q \in Int, r \in 0 .. p - 1 : q = a \div p /\ a = p * q + r
  BY <1>1, <1>2
<1>5. PICK u \in Int, t \in 0 .. p - 1 : u = b \div p /\ b = p * u + t
  BY <1>1, <1>2
<1>6. q <= u
  <2> SUFFICES ASSUME ~(q <= u) PROVE FALSE
    OBVIOUS
  <2>1. q >= u + 1
    OBVIOUS
  <2>2. p * q >= p * (u + 1)
    BY <2>1
  <2>3. p * (u + 1) = p * u + p
    OBVIOUS
  <2>4. p * q \in Int /\ p * u \in Int
    OBVIOUS
  <2> QED BY <1>4, <1>5, <2>2, <2>3, <2>4
<1> QED BY <1>1, <1>3, <1>4, <1>5, <1>6

\* smkfs_write, one block after the other.
LEMMA WriteGood ==
    ASSUME NEW s, Good(s), NEW w, NEW r, NEW o \in Nat, NEW n \in Nat
    PROVE  Good(smkfs_write(s, w, r, o, n).fs) /\ SameNames(s, smkfs_write(s, w, r, o, n).fs)
<1> DEFINE B == BlockOf(o)
           blocks == IF n = 0 THEN 0 ELSE BlockOf(o + n - 1) - BlockOf(o) + 1
           base == [fs |-> s, want |-> w, ok |-> TRUE]
           Step(v, k) == block_write_byte(v, r, B + k - 1, o, o + n)
           Eqn(h) == h = [k \in 0 .. blocks |-> IF k = 0 THEN base ELSE Step(h[k - 1], k)]
           h == CHOOSE h : Eqn(h)
           c == h[blocks]
           rec == c.fs.rec[r]
           x == [record_add_attr(rec, "FSIZE") EXCEPT !.size = o + n]
           full == c.ok /\ o + n > s.rec[r].size /\ AddFits(rec, "FSIZE")
<1>1. smkfs_write(s, w, r, o, n) = IF ~IsFile(s, r) THEN [fs |-> s, want |-> w, ok |-> FALSE]
        ELSE IF full THEN [c EXCEPT !.fs = record_write(@, r, x)] ELSE c
  BY DEF smkfs_write
<1>2. CASE ~IsFile(s, r)
  BY <1>1, <1>2, SameSelf, SMTT(40)
<1> SUFFICES ASSUME IsFile(s, r)
             PROVE  LET e == IF full THEN [c EXCEPT !.fs = record_write(@, r, x)] ELSE c
                    IN  Good(e.fs) /\ SameNames(s, e.fs)
  BY <1>1, <1>2
<1>3. mrt_resolve(s, r)
  BY DEF IsFile, record_read
<1>4. B \in Int /\ blocks \in Nat
  <2>1. BlockSize \in Nat \ {0}
    BY FilesAssumption
  <2>2. B \in Int
    BY <2>1, DivMono DEF BlockOf
  <2>3. CASE n = 0
    BY <2>2, <2>3
  <2>4. CASE n # 0
    <3> DEFINE y == o + n - 1
    <3>1. y \in Nat /\ o <= y
      BY <2>4
    <3> HIDE DEF y
    <3>2. o \div BlockSize \in Nat /\ y \div BlockSize \in Nat /\ o \div BlockSize <= y \div BlockSize
      BY <2>1, <3>1, DivMono
    <3>3. blocks = y \div BlockSize - o \div BlockSize + 1
      BY <2>4 DEF BlockOf, y
    <3> HIDE DEF blocks
    <3> QED BY <2>2, <3>2, <3>3
  <2> QED BY <2>3, <2>4
<1> HIDE DEF B, blocks, base, Step
<1> DEFINE Run(f, m) == \A k \in 0 .. m : f[k] = IF k = 0 THEN base ELSE Step(f[k - 1], k)
           E(m) == \E f : Run(f, m)
           J == {m \in Nat : E(m)}
<1>5. E(0)
  <2> DEFINE f == [k \in 0 .. 0 |-> base]
  <2>1. Run(f, 0)
    OBVIOUS
  <2> HIDE DEF f, Run
  <2> QED BY <2>1
<1>6. ASSUME NEW m \in Nat, E(m) PROVE E(m + 1)
  <2>1. PICK f : Run(f, m)
    <3> HIDE DEF Run
    <3> QED BY <1>6
  <2> DEFINE g == [k \in 0 .. m + 1 |-> IF k = m + 1 THEN Step(f[m], m + 1) ELSE f[k]]
  <2>2. ASSUME NEW k \in 0 .. m + 1 PROVE g[k] = IF k = 0 THEN base ELSE Step(g[k - 1], k)
    <3>1. CASE k = m + 1
      <4>1. k # 0 /\ k - 1 = m /\ m \in 0 .. m + 1 /\ m # m + 1
        BY <3>1
      <4>2. g[m] = f[m]
        BY <4>1
      <4> QED BY <3>1, <4>1, <4>2
    <3>2. CASE k # m + 1 /\ k # 0
      <4>1. k \in 0 .. m /\ k - 1 \in 0 .. m + 1 /\ k - 1 # m + 1
        BY <3>2
      <4>2. g[k] = f[k] /\ g[k - 1] = f[k - 1]
        BY <3>2, <4>1
      <4> HIDE DEF g
      <4> QED BY <2>1, <3>2, <4>1, <4>2
    <3>3. CASE k = 0
      <4>1. 0 \in 0 .. m /\ 0 \in 0 .. m + 1 /\ 0 # m + 1
        OBVIOUS
      <4>2. g[0] = f[0]
        BY <4>1
      <4> HIDE DEF g
      <4> QED BY <2>1, <3>3, <4>1, <4>2
    <3> QED BY <3>1, <3>2, <3>3
  <2>3. Run(g, m + 1)
    <3> HIDE DEF g
    <3> QED BY <2>2
  <2> HIDE DEF g, Run
  <2> QED BY <2>3
<1>7. E(blocks)
  <2> HIDE DEF E
  <2>1. 0 \in J /\ \A m \in Nat : m \in J => m + 1 \in J
    BY <1>5, <1>6
  <2> HIDE DEF J
  <2>2. blocks \in J
    BY <1>4, <2>1, Ind!SetInduction
  <2> QED BY <2>2 DEF J
<1>8. PICK f : Run(f, blocks)
  <2> HIDE DEF Run
  <2> QED BY <1>7
<1> DEFINE g == [k \in 0 .. blocks |-> f[k]]
<1>9. Eqn(g)
  <2>1. ASSUME NEW k \in 0 .. blocks PROVE g[k] = IF k = 0 THEN base ELSE Step(g[k - 1], k)
    <3>1. CASE k = 0
      BY <1>8, <3>1
    <3>2. CASE k # 0
      <4>1. k - 1 \in 0 .. blocks
        BY <1>4, <3>2
      <4>2. g[k - 1] = f[k - 1] /\ g[k] = f[k]
        BY <4>1
      <4> HIDE DEF g
      <4> QED BY <1>8, <3>2, <4>2
    <3> QED BY <3>1, <3>2
  <2> QED BY <2>1
<1>10. Eqn(h)
  <2> HIDE DEF Eqn, g
  <2> QED BY <1>9, Zenon
<1> HIDE DEF h
<1>11. Run(h, blocks)
  <2>1. ASSUME NEW k \in 0 .. blocks PROVE h[k] = IF k = 0 THEN base ELSE Step(h[k - 1], k)
    <3> DEFINE j == [i \in 0 .. blocks |-> IF i = 0 THEN base ELSE Step(h[i - 1], i)]
    <3>1. h = j
      BY <1>10
    <3>2. j[k] = IF k = 0 THEN base ELSE Step(h[k - 1], k)
      OBVIOUS
    <3> HIDE DEF j
    <3> QED BY <3>1, <3>2
  <2> QED BY <2>1
<1> DEFINE P(k) == k <= blocks => CallOk(h[k]) /\ Good(h[k].fs) /\ h[k].fs.mrt = s.mrt /\ SameNames(s, h[k].fs)
           I == {k \in Nat : P(k)}
<1>12. P(0)
  <2>1. h[0] = base
    BY <1>4, <1>11
  <2>2. CallOk(base) /\ base.fs = s
    BY DEF base, CallOk
  <2> QED BY <2>1, <2>2, SameSelf
<1>13. ASSUME NEW k \in Nat, P(k) PROVE P(k + 1)
  <2> SUFFICES ASSUME k + 1 <= blocks
               PROVE  CallOk(h[k + 1]) /\ Good(h[k + 1].fs) /\ h[k + 1].fs.mrt = s.mrt
                      /\ SameNames(s, h[k + 1].fs)
    OBVIOUS
  <2>1. k + 1 \in 0 .. blocks /\ k + 1 # 0 /\ (k + 1) - 1 = k /\ k <= blocks
    BY <1>4
  <2> DEFINE y == h[k]
             l == B + (k + 1) - 1
             hi == o + n
  <2>2. h[k + 1] = Step(h[k], k + 1)
    BY <1>11, <2>1
  <2>3. CallOk(y) /\ Good(y.fs) /\ y.fs.mrt = s.mrt /\ SameNames(s, y.fs)
    BY <1>13, <2>1
  <2>4. l \in Int
    BY <1>4
  <2>5. h[k + 1] = block_write_byte(y, r, l, o, hi)
    BY <2>2 DEF Step
  <2> HIDE DEF y, l, hi
  <2>6. mrt_resolve(y.fs, r)
    BY <1>3, <2>3 DEF mrt_resolve
  <2>7. CallOk(h[k + 1]) /\ Good(h[k + 1].fs) /\ h[k + 1].fs.mrt = y.fs.mrt /\ SameNames(y.fs, h[k + 1].fs)
    BY <2>3, <2>4, <2>5, <2>6, BlockWriteGood
  <2> QED BY <2>3, <2>7, SameTwice
<1>14. P(blocks)
  <2> HIDE DEF P
  <2>1. 0 \in I /\ \A k \in Nat : k \in I => k + 1 \in I
    BY <1>12, <1>13
  <2> HIDE DEF I
  <2>2. blocks \in I
    BY <1>4, <2>1, Ind!SetInduction
  <2> QED BY <2>2 DEF I
<1>15. CallOk(c) /\ Good(c.fs) /\ c.fs.mrt = s.mrt /\ SameNames(s, c.fs)
  BY <1>4, <1>14
<1> HIDE DEF c
<1>16. CASE ~full
  BY <1>15, <1>16
<1>17. CASE full
  <2> DEFINE u == c.fs
             T == record_write(u, r, x)
  <2>1. r \in Rec /\ Good(u) /\ RecordOk(u.rec[r]) /\ Shape(u)
    BY <1>3, <1>15 DEF mrt_resolve, Good, VolumeOk
  <2>2. [c EXCEPT !.fs = record_write(@, r, x)].fs = T
    BY <1>15 DEF CallOk
  <2>3. RecordOk(x) /\ x.data = u.rec[r].data /\ x.ext = u.rec[r].ext /\ SameRecord(u.rec[r], x)
    <3>1. o + n \in Nat
      OBVIOUS
    <3> QED BY <2>1, <3>1 DEF record_add_attr, RecordOk, SameRecord
  <2> HIDE DEF u, x
  <2>4. /\ Shape(T) /\ T.rec = [u.rec EXCEPT ![r] = x]
        /\ T.mrt = u.mrt /\ T.free = u.free /\ T.count = u.count /\ T.mrtFree = u.mrtFree
        /\ T.dir = u.dir
    BY <2>1 DEF record_write, Shape
  <2> HIDE DEF T
  <2>5. Good(T)
    BY <2>1, <2>3, <2>4, PutRecord
  <2>6. SameNames(s, T)
    <3>1. VolumeOk(u)
      BY <2>1 DEF Good
    <3>2. SameNames(u, T)
      BY <2>3, <2>4, <3>1, NamesSame
    <3> QED BY <1>15, <3>2, SameTwice DEF u
  <2> QED BY <1>17, <2>2, <2>5, <2>6
<1> QED BY <1>16, <1>17

\* Blocks lo .. hi - 1 of a record are given back.
LEMMA DroppedGood ==
    ASSUME NEW s, Good(s), NEW r, mrt_resolve(s, r), NEW lo \in Int, NEW hi \in Int, lo <= hi
    PROVE  /\ Good(Dropped(s, r, lo, hi))
           /\ Dropped(s, r, lo, hi).mrt = s.mrt /\ SameNames(s, Dropped(s, r, lo, hi))
<1> DEFINE e == s.rec[r].ext
           kept == Collected(e)
           M == Rebuilt(kept, lo, hi)
           inside(c) == \E y \in Range(kept) : c >= y.phys /\ c < y.phys + y.cnt
                          /\ y.log + (c - y.phys) >= lo /\ y.log + (c - y.phys) < hi
           gone == {y.phys + k : y \in Range(kept), k \in Offset}
           G == {c \in gone : inside(c)}
           x == [s.rec[r] EXCEPT !.ext = M]
           T == Dropped(s, r, lo, hi)
           A == Claims(s.mrt[r], s.rec[r])
           B == Claims(s.mrt[r], x)
           m == s.mrt[r].block
           d == s.rec[r].data
<1>1. r \in Rec /\ Shape(s) /\ RecordOk(s.rec[r]) /\ Tidy(s.mrt[r], s.rec[r]) /\ A \cap s.free = {}
  BY DEF mrt_resolve, Good, VolumeOk, Sole
<1>2. s.mrt[r].alloc /\ m # 0
  BY DEF mrt_resolve
<1>3. e \in Seq(Extent)
  BY <1>1 DEF RecordOk
<1>4. A = {m} \cup ({d} \ {0}) \cup XBlocks(e)
  BY <1>2 DEF Claims
<1>5. /\ Apart(e) /\ m \notin XBlocks(e) /\ (d # 0 => d # m /\ d \notin XBlocks(e))
  BY <1>1, <1>2 DEF Tidy
<1>6. /\ Shape(T) /\ T.mrt = s.mrt /\ T.rec = [s.rec EXCEPT ![r] = x] /\ T.free = s.free \cup G
      /\ T.count = s.count /\ T.mrtFree = s.mrtFree /\ T.dir = s.dir
  <2>1. T = [s EXCEPT !.free = @ \cup G, !.rec[r].ext = M]
    BY DEF Dropped
  <2> HIDE DEF T, G, M
  <2> QED BY <1>1, <2>1 DEF Shape
<1> HIDE DEF e
<1>7. kept \in Seq(Extent) /\ Apart(kept) /\ XBlocks(kept) \subseteq XBlocks(e)
  BY <1>3, <1>5, CollectedFirst
<1> HIDE DEF kept, T
<1>8. /\ M \in Seq(Extent) /\ Apart(M)
      /\ \A b \in XBlocks(M) : \E i \in 1 .. Len(kept) :
             b \in Blk(kept[i]) /\ ~(kept[i].log + (b - kept[i].phys) >= lo /\ kept[i].log + (b - kept[i].phys) < hi)
  BY <1>7, RebuiltApart
<1> HIDE DEF M
<1>9. ASSUME NEW c \in G
      PROVE  \E j \in 1 .. Len(kept) :
               c \in Blk(kept[j]) /\ kept[j].log + (c - kept[j].phys) >= lo /\ kept[j].log + (c - kept[j].phys) < hi
  <2>0. \A j \in 1 .. Len(kept) : kept[j] \in Extent
    BY <1>7
  <2>1. \A j \in 1 .. Len(kept) : kept[j].phys \in Nat /\ kept[j].cnt \in Nat
    BY <2>0 DEF Extent
  <2>2. Range(kept) = {kept[j] : j \in 1 .. Len(kept)}
    BY <1>7 DEF Range
  <2>3. c \in gone /\ inside(c)
    OBVIOUS
  <2>4. c \in Int
    <3>1. \A k \in Offset : k \in Int
      BY DEF Offset
    <3> QED BY <2>1, <2>2, <2>3, <3>1, SMTT(40)
  <2>5. PICK j \in 1 .. Len(kept) : c >= kept[j].phys /\ c < kept[j].phys + kept[j].cnt
                          /\ kept[j].log + (c - kept[j].phys) >= lo /\ kept[j].log + (c - kept[j].phys) < hi
    BY <2>2, <2>3
  <2>6. c \in Blk(kept[j])
    BY <2>1, <2>4, <2>5 DEF Blk
  <2> QED BY <2>5, <2>6
<1> HIDE DEF G
<1>10. G \subseteq XBlocks(kept) /\ XBlocks(M) \subseteq XBlocks(kept)
  BY <1>8, <1>9 DEF XBlocks
<1>11. XBlocks(M) \cap G = {}
  <2> SUFFICES ASSUME NEW b \in XBlocks(M), b \in G PROVE FALSE
    OBVIOUS
  <2>1. PICK i \in 1 .. Len(kept) :
             b \in Blk(kept[i]) /\ ~(kept[i].log + (b - kept[i].phys) >= lo /\ kept[i].log + (b - kept[i].phys) < hi)
    BY <1>8
  <2>2. PICK j \in 1 .. Len(kept) :
             b \in Blk(kept[j]) /\ kept[j].log + (b - kept[j].phys) >= lo /\ kept[j].log + (b - kept[j].phys) < hi
    BY <1>9
  <2>3. i = j
    BY <1>7, <2>1, <2>2 DEF Apart
  <2> QED BY <2>1, <2>2, <2>3
<1>12. RecordOk(x) /\ x.ext = M /\ x.data = d /\ SameRecord(s.rec[r], x)
  BY <1>1, <1>8 DEF RecordOk, SameRecord
<1> HIDE DEF x
<1>13. B = {m} \cup ({d} \ {0}) \cup XBlocks(M)
  BY <1>2, <1>12 DEF Claims
<1> HIDE DEF A, B
<1>14. Tidy(s.mrt[r], x)
  <2>1. m \notin XBlocks(M) /\ (d # 0 => d # m /\ d \notin XBlocks(M))
    BY <1>5, <1>7, <1>10
  <2> QED BY <1>8, <1>12, <2>1 DEF Tidy
<1>15. B \subseteq A \cup s.free /\ T.free \subseteq s.free \cup A
  BY <1>4, <1>6, <1>7, <1>10, <1>13
<1>16. B \cap T.free = {}
  <2>1. B \cap s.free = {}
    BY <1>1, <1>4, <1>7, <1>10, <1>13
  <2>2. B \cap G = {}
    BY <1>5, <1>7, <1>10, <1>11, <1>13
  <2> QED BY <1>6, <2>1, <2>2
<1>17. Good(T)
  BY <1>6, <1>12, <1>14, <1>15, <1>16, RecordChange DEF A, B
<1>18. SameNames(s, T)
  <2>1. VolumeOk(s)
    BY DEF Good
  <2> QED BY <1>6, <1>12, <2>1, NamesSame
<1> QED BY <1>6, <1>17, <1>18 DEF T

\* The size is set.
LEMMA SizeGood ==
    ASSUME NEW s, Good(s), NEW r, mrt_resolve(s, r), NEW n \in Nat
    PROVE  LET T == record_write(s, r, [record_add_attr(s.rec[r], "FSIZE") EXCEPT !.size = n])
           IN  Good(T) /\ SameNames(s, T)
<1> DEFINE x == [record_add_attr(s.rec[r], "FSIZE") EXCEPT !.size = n]
           T == record_write(s, r, x)
<1>1. r \in Rec /\ RecordOk(s.rec[r]) /\ Shape(s)
  BY DEF mrt_resolve, Good, VolumeOk
<1>2. RecordOk(x) /\ x.data = s.rec[r].data /\ x.ext = s.rec[r].ext /\ SameRecord(s.rec[r], x)
  BY <1>1 DEF record_add_attr, RecordOk, SameRecord
<1> HIDE DEF x
<1>3. /\ Shape(T) /\ T.rec = [s.rec EXCEPT ![r] = x]
      /\ T.mrt = s.mrt /\ T.free = s.free /\ T.count = s.count /\ T.mrtFree = s.mrtFree
      /\ T.dir = s.dir
  BY <1>1 DEF record_write, Shape
<1> HIDE DEF T
<1>4. Good(T)
  BY <1>1, <1>2, <1>3, PutRecord
<1>5. SameNames(s, T)
  <2>1. VolumeOk(s)
    BY DEF Good
  <2> QED BY <1>2, <1>3, <2>1, NamesSame
<1> QED BY <1>4, <1>5 DEF T, x

\* The blocks that n bytes of a file of the largest size take.
LEMMA BlocksWithin ==
    ASSUME NEW n \in Nat, n <= FileBlocks * BlockSize
    PROVE  Blocks(n) \in Nat /\ Blocks(n) <= FileBlocks
<1> DEFINE p == BlockSize
           F == FileBlocks
           t == n + p - 1
           q == t \div p
           m == t % p
<1>1. p \in Nat \ {0} /\ F \in Nat
  BY FilesAssumption
<1>2. t \in Nat
  BY <1>1
<1>3. q \in Nat
  <2> HIDE DEF t
  <2> QED BY <1>1, <1>2, DivMono
<1>4. m \in 0 .. p - 1 /\ t = p * q + m
  <2> HIDE DEF t, p
  <2> QED BY <1>1, <1>2, SMTT(30)
<1>5. n <= F * p /\ n + p - 1 = p * q + m
  BY <1>4
<1>6. Blocks(n) = q
  BY DEF Blocks
<1> HIDE DEF q, m, p, F, t
<1>7. q <= F
  <2> SUFFICES ASSUME ~(q <= F) PROVE FALSE
    OBVIOUS
  <2>1. q >= F + 1
    BY <1>1, <1>3
  <2>2. p * q >= p * (F + 1)
    BY <1>1, <1>3, <2>1
  <2>3. p * (F + 1) = F * p + p
    BY <1>1
  <2>4. p * q \in Int /\ F * p \in Int /\ m >= 0
    BY <1>1, <1>3, <1>4
  <2> DEFINE a == p * q
             z == F * p
  <2>5. a >= z + p /\ n <= z /\ n + p - 1 = a + m /\ a \in Int /\ z \in Int /\ m >= 0 /\ m \in Int
    BY <1>4, <1>5, <2>2, <2>3, <2>4
  <2> HIDE DEF a, z
  <2> QED BY <1>1, <2>5
<1> QED BY <1>3, <1>6, <1>7 DEF F

\* smkfs_truncate.
LEMMA TruncateGood ==
    ASSUME NEW s, Good(s), NEW w, NEW r, NEW n \in Offset
    PROVE  Good(smkfs_truncate(s, w, r, n).fs) /\ SameNames(s, smkfs_truncate(s, w, r, n).fs)
<1> DEFINE size == s.rec[r].size
           cut == Blocks(n) < Blocks(size)
           u == IF cut THEN Dropped(s, r, Blocks(n), FileBlocks) ELSE s
           T == record_write(u, r, [record_add_attr(u.rec[r], "FSIZE") EXCEPT !.size = n])
           c == smkfs_truncate(s, w, r, n)
<1>1. CASE ~IsFile(s, r) \/ n = size \/ ~AddFits(u.rec[r], "FSIZE")
  <2>1. c.fs = s
    BY <1>1 DEF smkfs_truncate
  <2> QED BY <2>1, SameSelf
<1>2. CASE ~(~IsFile(s, r) \/ n = size \/ ~AddFits(u.rec[r], "FSIZE"))
  <2>1. c.fs = T
    BY <1>2 DEF smkfs_truncate
  <2>2. mrt_resolve(s, r)
    BY <1>2 DEF IsFile, record_read
  <2>3. n \in Nat /\ n <= FileBlocks * BlockSize /\ FileBlocks \in Int
    BY FilesAssumption DEF Offset
  <2>4. Blocks(n) \in Int /\ Blocks(n) <= FileBlocks
    BY <2>3, BlocksWithin
  <2>5. Good(u) /\ u.mrt = s.mrt /\ SameNames(s, u)
    <3>1. CASE cut
      <4> DEFINE lo == Blocks(n)
                 hi == FileBlocks
      <4>1. lo \in Int /\ hi \in Int /\ lo <= hi
        BY <2>3, <2>4
      <4>2. u = Dropped(s, r, lo, hi)
        BY <3>1
      <4> HIDE DEF lo, hi, u
      <4> QED BY <2>2, <4>1, <4>2, DroppedGood
    <3>2. CASE ~cut
      BY <3>2, SameSelf
    <3> QED BY <3>1, <3>2
  <2> HIDE DEF u, c
  <2>6. mrt_resolve(u, r)
    BY <2>2, <2>5 DEF mrt_resolve
  <2>7. Good(T) /\ SameNames(u, T)
    BY <2>3, <2>5, <2>6, SizeGood
  <2> HIDE DEF T
  <2>8. SameNames(s, T)
    BY <2>5, <2>7, SameTwice
  <2> QED BY <2>1, <2>7, <2>8 DEF c
<1> QED BY <1>1, <1>2

\* smkfs_punc_hole.
LEMMA PunchGood ==
    ASSUME NEW s, Good(s), NEW w, NEW r, NEW o \in Nat, NEW n \in Nat
    PROVE  Good(smkfs_punc_hole(s, w, r, o, n).fs) /\ SameNames(s, smkfs_punc_hole(s, w, r, o, n).fs)
<1> DEFINE size == s.rec[r].size
           e == IF o + n > size THEN size ELSE o + n
           lo == BlockOf(o)
           hi == Blocks(e)
           c == smkfs_punc_hole(s, w, r, o, n)
<1>1. CASE ~IsFile(s, r) \/ n = 0 \/ o >= size
  <2>1. c.fs = s
    BY <1>1 DEF smkfs_punc_hole
  <2> QED BY <2>1, SameSelf
<1>2. CASE ~(~IsFile(s, r) \/ n = 0 \/ o >= size)
  <2>1. c.fs = Dropped(s, r, lo, hi)
    BY <1>2 DEF smkfs_punc_hole
  <2>2. mrt_resolve(s, r)
    BY <1>2 DEF IsFile, record_read
  <2>3. size \in Nat
    BY <2>2 DEF mrt_resolve, Good, VolumeOk, RecordOk
  <2> HIDE DEF size
  <2>4. e \in Nat /\ o <= e
    BY <1>2, <2>3
  <2> HIDE DEF e
  <2> DEFINE t == e + BlockSize - 1
  <2>5. BlockSize \in Nat \ {0} /\ t \in Nat /\ o <= t
    BY <2>4, FilesAssumption
  <2> HIDE DEF t
  <2>6. o \div BlockSize \in Nat /\ t \div BlockSize \in Nat /\ o \div BlockSize <= t \div BlockSize
    BY <2>5, DivMono
  <2>7. lo \in Int /\ hi \in Int /\ lo <= hi
    BY <2>6 DEF BlockOf, Blocks, t
  <2> HIDE DEF lo, hi, c
  <2>8. Good(Dropped(s, r, lo, hi)) /\ SameNames(s, Dropped(s, r, lo, hi))
    BY <2>2, <2>7, DroppedGood
  <2> QED BY <2>1, <2>8 DEF c
<1> QED BY <1>1, <1>2

-----------------------------------------------------------------------------
(***************************************************************************)
(* The invariant.                                                          *)
(***************************************************************************)

\* What smkfs_mkfs leaves is good: the root has its record's block and its
\* tree's.
LEMMA FormattedGood == Good(FormattedFs) /\ DirOk(FormattedFs)
<1> DEFINE none == [alloc |-> FALSE, block |-> 0, gen |-> 0]
           blank == [mrt |-> [r \in Rec |-> [alloc |-> FALSE, block |-> 0, gen |-> 0]],
                     rec |-> [r \in Rec |-> Blank], dir |-> [r \in Rec |-> [n \in NameOf |-> 0]],
                     free |-> DiskBlock, data |-> [b \in DiskBlock |-> [i \in 0 .. BlockSize - 1 |-> 0]],
                     count |-> 0, mrtFree |-> Cardinality(Rec)]
           tree == Min(DiskBlock)
           s == Take(blank, tree)
           a == record_alloc(s, "dir")
           x == [a.fs.rec[a.id] EXCEPT !.data = tree, !.attrs = {"DATA"}]
           T == record_write(a.fs, a.id, x)
<1>1. DiskBlock \in SUBSET Nat /\ 0 \notin DiskBlock /\ DiskBlock # {} /\ IsFiniteSet(Rec) /\ 1 \in Rec
  BY FilesAssumption
<1>2. tree \in DiskBlock /\ tree # 0 /\ tree \in Nat
  BY <1>1, MinIn
<1>3. DiskBlock \ {tree} # {}
  <2>1. PICK b, c \in DiskBlock : b # c
    BY FilesAssumption
  <2> HIDE DEF tree
  <2> QED BY <2>1
<1>4. RecordOk(Blank) /\ Blank.ext = <<>> /\ Blank.data = 0
  <2>1. <<>> \in Seq(Extent)
    OBVIOUS
  <2> QED BY <2>1 DEF RecordOk, Blank
<1>5. none \in MrtRec /\ ~none.alloc
  BY DEF MrtRec
<1>6. /\ Shape(blank) /\ blank.mrt = [r \in Rec |-> none] /\ blank.rec = [r \in Rec |-> Blank]
      /\ blank.free = DiskBlock /\ blank.count = 0 /\ blank.mrtFree = Cardinality(Rec)
      /\ blank.dir = [r \in Rec |-> [n \in NameOf |-> 0]]
  <2> HIDE DEF tree
  <2> QED BY DEF Shape
<1> HIDE DEF none, tree, blank
<1>7. /\ Shape(s) /\ s.mrt = blank.mrt /\ s.rec = blank.rec /\ s.free = DiskBlock \ {tree}
      /\ s.count = 0 /\ s.mrtFree = Cardinality(Rec) /\ s.dir = blank.dir
  BY <1>6 DEF Take, Shape
<1> HIDE DEF s
<1>8. ASSUME NEW v, Shape(v), v.mrt = blank.mrt, v.rec = blank.rec, v.free \subseteq DiskBlock,
             v.count = 0, v.mrtFree = Cardinality(Rec)
      PROVE  Good(v)
  <2>1. VolumeOk(v)
    <3>1. v.mrt \in [Rec -> MrtRec]
      BY <1>5, <1>6, <1>8
    <3>2. v.rec = [r \in Rec |-> v.rec[r]] /\ \A r \in Rec : RecordOk(v.rec[r])
      BY <1>4, <1>6, <1>8
    <3>3. v.free \subseteq Nat \ {0}
      BY <1>1, <1>8
    <3> QED BY <1>8, <3>1, <3>2, <3>3 DEF VolumeOk
  <2>2. \A r \in Rec : v.mrt[r] = none /\ v.rec[r] = Blank
    BY <1>6, <1>8
  <2>3. Tidy(none, Blank) /\ Claims(none, Blank) = {}
    BY <1>4, <1>5, BareRecord
  <2>4. Sole(v)
    BY <2>2, <2>3 DEF Sole
  <2>5. FreeSlots(v) = Rec
    BY <1>5, <2>2 DEF FreeSlots
  <2>6. Rec \ Rec = {} /\ Cardinality({}) = 0
    BY FS_EmptySet
  <2>7. Counted(v)
    BY <1>8, <2>5, <2>6 DEF Counted
  <2> QED BY <2>1, <2>4, <2>7 DEF Good
<1>9. Good(blank) /\ Good(s)
  BY <1>6, <1>7, <1>8
<1>10. FreeSlots(s) # {} /\ s.free # {}
  BY <1>1, <1>3, <1>5, <1>6, <1>7 DEF FreeSlots
<1>11. Good(a.fs) /\ a.id # 0 /\ (\E b : Allocated(s, a, b)) /\ a.fs.rec[a.id].type = "dir"
  <2> DEFINE t == "dir"
  <2> HIDE DEF t
  <2>1. LET R == record_alloc(s, t)
        IN  Good(R.fs) /\ R.id # 0 /\ (\E b : Allocated(s, R, b)) /\ R.fs.rec[R.id].type = t
    BY <1>9, <1>10, RecordAlloc
  <2> QED BY <2>1 DEF t
<1> HIDE DEF a
<1>12. PICK b : Allocated(s, a, b)
  BY <1>11
<1> DEFINE v == a.fs
           r == a.id
<1>13. /\ r \in Rec /\ b \in DiskBlock \ {tree} /\ v.free = (DiskBlock \ {tree}) \ {b}
       /\ v.mrt[r].alloc /\ v.mrt[r].block = b /\ b # 0 /\ v.rec[r].ext = <<>>
       /\ v.dir = s.dir /\ v.rec[r].links = 1 /\ v.rec[r].type = "dir"
       /\ \A q \in Rec \ {r} : v.mrt[q] = blank.mrt[q] /\ v.rec[q] = blank.rec[q]
  BY <1>7, <1>11, <1>12 DEF Allocated
<1>14. VolumeOk(v) /\ Counted(v) /\ Shape(v)
  BY <1>11 DEF Good, VolumeOk
<1>15. RecordOk(x) /\ x.data = tree /\ x.ext = <<>> /\ x.links = 1 /\ x.type = "dir"
  <2> DEFINE y == v.rec[r]
             z == {"DATA"}
  <2>1. RecordOk(y) /\ y.ext = <<>> /\ y.links = 1 /\ y.type = "dir"
    BY <1>13, <1>14 DEF VolumeOk
  <2>2. x = [y EXCEPT !.data = tree, !.attrs = z]
    OBVIOUS
  <2> HIDE DEF y, x, z
  <2> QED BY <1>2, <2>1, <2>2 DEF RecordOk
<1> HIDE DEF x
<1>16. /\ Shape(T) /\ T.rec = [v.rec EXCEPT ![r] = x]
       /\ T.mrt = v.mrt /\ T.free = v.free /\ T.count = v.count /\ T.mrtFree = v.mrtFree
      /\ T.dir = v.dir
  BY <1>14 DEF record_write, Shape
<1>17. FormattedFs = T
  BY DEF FormattedFs, T, x, a, s, tree, blank
<1> HIDE DEF T, v, r
<1>18. /\ T.rec[r] = x /\ T.rec = [q \in Rec |-> T.rec[q]]
       /\ \A q \in Rec \ {r} : T.rec[q] = v.rec[q]
  BY <1>13, <1>14, <1>16 DEF VolumeOk
<1>19. VolumeOk(T)
  <2>1. \A q \in Rec : RecordOk(T.rec[q])
    BY <1>14, <1>15, <1>18 DEF VolumeOk
  <2> QED BY <1>14, <1>16, <1>18, <2>1 DEF VolumeOk
<1>20. Counted(T)
  BY <1>14, <1>16 DEF Counted, FreeSlots
<1>21. XBlocks(x.ext) = {} /\ Apart(x.ext)
  <2>1. Len(x.ext) = 0 /\ 1 .. 0 = {}
    BY <1>15
  <2> QED BY <2>1 DEF XBlocks, Apart
<1>22. Claims(T.mrt[r], T.rec[r]) = {b, tree} /\ Tidy(T.mrt[r], T.rec[r])
  <2>1. T.mrt[r] = v.mrt[r]
    BY <1>16
  <2>2. Claims(T.mrt[r], T.rec[r]) = {b} \cup ({tree} \ {0}) \cup {}
    BY <1>13, <1>15, <1>18, <1>21, <2>1 DEF Claims
  <2>3. Tidy(T.mrt[r], T.rec[r])
    BY <1>13, <1>15, <1>18, <1>21, <2>1 DEF Tidy
  <2> QED BY <1>2, <2>2, <2>3
<1>23. Sole(T)
  <2>1. \A q \in Rec \ {r} : T.mrt[q] = blank.mrt[q] /\ T.rec[q] = blank.rec[q]
    BY <1>13, <1>16, <1>18
  <2>2. /\ Claims(T.mrt[r], T.rec[r]) \subseteq Claims(blank.mrt[r], blank.rec[r]) \cup blank.free
        /\ T.free \subseteq blank.free \cup Claims(blank.mrt[r], blank.rec[r])
        /\ Claims(T.mrt[r], T.rec[r]) \cap T.free = {}
    BY <1>2, <1>6, <1>13, <1>16, <1>22
  <2>3. Sole(blank)
    BY <1>9 DEF Good
  <2> QED BY <1>13, <1>22, <2>1, <2>2, <2>3, ChangeOne
<1>24. DirOk(T)
  <2>1. T.dir = [p \in Rec |-> [n \in NameOf |-> 0]]
    BY <1>6, <1>7, <1>13, <1>16
  <2>2. Blank.links \in Nat /\ Blank.attrs = {}
    BY DEF Blank
  <2>3. ASSUME NEW q \in Rec
        PROVE  T.rec[q].links \in Nat /\ ("DATA" \in T.rec[q].attrs => T.rec[q].type = "dir")
    <3>1. CASE q = r
      BY <1>15, <1>18, <3>1
    <3>2. CASE q # r
      <4>1. T.rec[q] = Blank
        BY <1>6, <1>13, <1>18, <3>2
      <4> QED BY <2>2, <4>1
    <3> QED BY <3>1, <3>2
  <2>4. DirTyped(T)
    BY <2>1, <2>3 DEF DirTyped
  <2>5. 0 \notin Rec
    BY FilesAssumption
  <2>6. \A q \in Rec : Entries(T, q) = {}
    BY <2>1, <2>5 DEF Entries
  <2> QED BY <2>4, <2>6 DEF DirOk, Leads
<1> QED BY <1>17, <1>19, <1>20, <1>23, <1>24 DEF Good

\* A descriptor's offset is a number.
FdOk(d) == d = [g \in {"used", "rec", "off"} |-> d[g]] /\ d.off \in Nat
TableOk == fd_table = [f \in Fd |-> fd_table[f]] /\ \A f \in Fd : FdOk(fd_table[f])

\* The inductive invariant of the calls.
FilesInv == Good(fs) /\ TableOk

\* The initial state.
LEMMA FilesInitInv == FilesInit => FilesInv
<1> SUFFICES ASSUME FilesInit PROVE FilesInv
  OBVIOUS
<1>1. Good(fs)
  BY FormattedGood DEF FilesInit
<1>2. FdOk(Closed)
  BY DEF FdOk, Closed
<1>3. TableOk
  BY <1>2 DEF FilesInit, TableOk
<1> QED BY <1>1, <1>3 DEF FilesInv

\* One descriptor is replaced.
LEMMA TableChange ==
    ASSUME TableOk, NEW f, NEW d, f \in Fd => FdOk(d), fd_table' = [fd_table EXCEPT ![f] = d]
    PROVE  TableOk'
<1>1. fd_table' = [g \in Fd |-> fd_table'[g]]
  BY DEF TableOk
<1>2. \A g \in Fd : fd_table'[g] = IF g = f THEN d ELSE fd_table[g]
  BY DEF TableOk
<1>3. \A g \in Fd : FdOk(fd_table[g])
  BY DEF TableOk
<1> QED BY <1>1, <1>2, <1>3 DEF TableOk, FdOk

\* A descriptor moves.
LEMMA TableMove ==
    ASSUME TableOk, NEW f \in Fd, NEW o \in Nat, fd_table' = [fd_table EXCEPT ![f].off = o]
    PROVE  TableOk'
<1> DEFINE d == [fd_table[f] EXCEPT !.off = o]
<1>1. fd_table' = [fd_table EXCEPT ![f] = d]
  OBVIOUS
<1>2. FdOk(fd_table[f])
  BY DEF TableOk
<1>3. FdOk(d)
  BY <1>2 DEF FdOk
<1> HIDE DEF d
<1> QED BY <1>1, <1>3, TableChange

\* The calls by name.
LEMMA NamesInv == FilesInv /\ Names => FilesInv'
<1> SUFFICES ASSUME FilesInv, NEW p \in Path, NEW room \in BOOLEAN,
                    \/ Remove_(p) \/ Unlink(p) \/ ChangeAttr(p)
                    \/ CreateFile(p, room) \/ MakeDir(p, room)
                    \/ \E q \in Path : Link(p, q, room) \/ Rename(p, q, room)
             PROVE  FilesInv'
  BY DEF Names
<1>0. Good(fs) /\ TableOk
  BY DEF FilesInv
<1>1. ASSUME NEW s, Good(s), Call(s), UNCHANGED fd_table PROVE FilesInv'
  <2>1. fs' = s
    BY <1>1 DEF Call
  <2>2. Good(fs')
    BY <1>1, <2>1
  <2>3. TableOk'
    BY <1>0, <1>1 DEF TableOk
  <2> QED BY <2>2, <2>3 DEF FilesInv
<1>2. CASE CreateFile(p, room)
  <2>1. Good(smkfs_create_file(fs, p, room))
    BY <1>0, CreateFileGood
  <2> QED BY <1>1, <1>2, <2>1 DEF CreateFile
<1>3. CASE MakeDir(p, room)
  <2>1. Good(smkfs_mkdir(fs, p, room))
    BY <1>0, CreateFileGood
  <2> QED BY <1>1, <1>3, <2>1 DEF MakeDir
<1>4. CASE Remove_(p)
  <2>1. Good(RemovePath(fs, p))
    BY <1>0, RemoveGood
  <2> QED BY <1>1, <1>4, <2>1 DEF Remove_
<1>5. CASE Unlink(p)
  <2>1. Good(smkfs_unlink(fs, p))
    BY <1>0, RemoveGood
  <2> QED BY <1>1, <1>5, <2>1 DEF Unlink
<1>6. CASE ChangeAttr(p)
  <2>1. PICK b : Call(smkfs_setattr(fs, path_lookup(fs, p), b)) /\ UNCHANGED fd_table
    BY <1>6 DEF ChangeAttr
  <2> DEFINE r == path_lookup(fs, p)
  <2> HIDE DEF r
  <2>2. Good(smkfs_setattr(fs, r, b))
    BY <1>0, SetattrGood
  <2>3. Call(smkfs_setattr(fs, r, b)) /\ UNCHANGED fd_table
    BY <2>1 DEF r
  <2> QED BY <1>1, <2>2, <2>3
<1>7. ASSUME NEW q \in Path, Link(p, q, room) PROVE FilesInv'
  <2>1. Good(smkfs_link(fs, p, q, room))
    BY <1>0, LinkGood
  <2> QED BY <1>1, <1>7, <2>1 DEF Link
<1>8. ASSUME NEW q \in Path, Rename(p, q, room) PROVE FilesInv'
  <2> DEFINE a == SplitDir(fs, p)
             n == SplitName(p)
             b == SplitDir(fs, q)
             m == SplitName(q)
             r == path_lookup(fs, p)
  <2>1. Call(smkfs_rename(fs, a, n, b, m, r, room)) /\ UNCHANGED fd_table
    BY <1>8 DEF Rename
  <2> HIDE DEF a, n, b, m, r
  <2>2. Good(smkfs_rename(fs, a, n, b, m, r, room))
    BY <1>0, RenameGood
  <2> QED BY <1>1, <2>1, <2>2
<1> QED BY <1>2, <1>3, <1>4, <1>5, <1>6, <1>7, <1>8

\* The calls with a record.
LEMMA RecordCallsInv == FilesInv /\ RecordCalls => FilesInv'
<1> SUFFICES ASSUME FilesInv, RecordCalls PROVE FilesInv'
  OBVIOUS
<1>0. Good(fs) /\ TableOk
  BY DEF FilesInv
<1>1. ASSUME NEW c, Good(c.fs), OnRecord(c) PROVE FilesInv'
  <2>1. fs' = c.fs /\ UNCHANGED fd_table
    BY <1>1 DEF OnRecord
  <2> QED BY <1>0, <1>1, <2>1 DEF FilesInv, TableOk
<1>2. Length \subseteq Nat /\ \A o \in Offset : o \in Nat
  BY FilesAssumption DEF Offset
<1>3. PICK r \in Rec : \/ \E n \in Offset : Truncate(r, n)
                       \/ \E o \in Offset, n \in Length : Write(r, o, n) \/ Punch(r, o, n)
  BY DEF RecordCalls
<1>4. ASSUME NEW n \in Offset, Truncate(r, n) PROVE FilesInv'
  <2>1. Good(smkfs_truncate(fs, want, r, n).fs)
    BY <1>0, TruncateGood
  <2> QED BY <1>1, <1>4, <2>1 DEF Truncate
<1>5. ASSUME NEW o \in Offset, NEW n \in Length, Write(r, o, n) PROVE FilesInv'
  <2>1. Good(smkfs_write(fs, want, r, o, n).fs)
    BY <1>0, <1>2, WriteGood
  <2> QED BY <1>1, <1>5, <2>1 DEF Write
<1>6. ASSUME NEW o \in Offset, NEW n \in Length, Punch(r, o, n) PROVE FilesInv'
  <2>1. Good(smkfs_punc_hole(fs, want, r, o, n).fs)
    BY <1>0, <1>2, PunchGood
  <2> QED BY <1>1, <1>6, <2>1 DEF Punch
<1> QED BY <1>3, <1>4, <1>5, <1>6

\* The calls with a descriptor.
LEMMA DescriptorsInv == FilesInv /\ Descriptors => FilesInv'
<1> SUFFICES ASSUME FilesInv, Descriptors PROVE FilesInv'
  OBVIOUS
<1>0. Good(fs) /\ TableOk
  BY DEF FilesInv
<1>1. Length \subseteq Nat /\ \A o \in Offset : o \in Nat
  BY FilesAssumption DEF Offset
<1>2. PICK f \in Fd :
        \/ Close(f)
        \/ \E p \in Path, create, append, room \in BOOLEAN : Open(p, create, append, room)
        \/ \E n \in Length : ReadFile(f, n) \/ WriteFile(f, n)
        \/ \E w \in {"SET", "CUR", "END"}, o \in {-1, 0, BlockSize + 1} : Seek(f, w, o)
        \/ \E n \in Offset : FTruncate(f, n)
  BY DEF Descriptors
<1>3. FdOk(fd_table[f])
  BY <1>0 DEF TableOk
<1>4. \A r : mrt_resolve(fs, r) => fs.rec[r].size \in Nat
  BY <1>0 DEF mrt_resolve, Good, VolumeOk, RecordOk
<1>5. CASE Close(f)
  <2>1. FdOk(Closed)
    BY DEF FdOk, Closed
  <2>2. fd_table' = [fd_table EXCEPT ![f] = Closed] /\ fs' = fs
    BY <1>5 DEF Close
  <2> DEFINE d == Closed
  <2> HIDE DEF d
  <2>3. TableOk'
    BY <1>0, <2>1, <2>2, TableChange DEF d
  <2> QED BY <1>0, <2>2, <2>3 DEF FilesInv
<1>6. ASSUME NEW p \in Path, NEW create \in BOOLEAN, NEW append \in BOOLEAN, NEW room \in BOOLEAN,
             Open(p, create, append, room)
      PROVE  FilesInv'
  <2> DEFINE s == IF path_lookup(fs, p) = 0 /\ create THEN smkfs_create_file(fs, p, room) ELSE fs
             r == path_lookup(s, p)
             free == {g \in Fd : ~fd_table[g].used}
             off == IF append /\ record_read(s, r) THEN s.rec[r].size ELSE 0
             d == [used |-> TRUE, rec |-> r, off |-> off]
             k == Min(free)
  <2>1. /\ Call(s)
        /\ fd_table' = IF r = 0 \/ free = {} THEN fd_table ELSE [fd_table EXCEPT ![k] = d]
    BY <1>6 DEF Open
  <2>2. Good(s)
    BY <1>0, CreateFileGood
  <2> HIDE DEF s
  <2>3. fs' = s
    BY <2>1 DEF Call
  <2>4. off \in Nat
    BY <2>2 DEF record_read, mrt_resolve, Good, VolumeOk, RecordOk
  <2> HIDE DEF off, r, free, k
  <2>5. FdOk(d)
    BY <2>4 DEF FdOk
  <2> HIDE DEF d
  <2>6. TableOk'
    <3>1. CASE fd_table' = fd_table
      BY <1>0, <3>1 DEF TableOk
    <3>2. CASE fd_table' = [fd_table EXCEPT ![k] = d]
      BY <1>0, <2>5, <3>2, TableChange
    <3> QED BY <2>1, <3>1, <3>2
  <2> QED BY <2>2, <2>3, <2>6 DEF FilesInv
<1>7. ASSUME NEW n \in Length, ReadFile(f, n) PROVE FilesInv'
  <2> DEFINE d == fd_table[f]
             left == fs.rec[d.rec].size - d.off
             got == IF left <= 0 THEN 0 ELSE IF n > left THEN left ELSE n
             o == d.off + got
  <2>1. IsFile(fs, d.rec) /\ fd_table' = [fd_table EXCEPT ![f].off = @ + got] /\ fs' = fs
    BY <1>7 DEF ReadFile
  <2>2. fs.rec[d.rec].size \in Nat /\ d.off \in Nat /\ n \in Nat
    BY <1>1, <1>3, <1>4, <2>1 DEF IsFile, record_read, FdOk
  <2>3. got \in Nat
    BY <2>2
  <2> HIDE DEF got
  <2>4. o \in Nat
    BY <2>2, <2>3
  <2>5. fd_table' = [fd_table EXCEPT ![f].off = o]
    BY <2>1
  <2> HIDE DEF o, d
  <2>6. TableOk'
    BY <1>0, <2>4, <2>5, TableMove
  <2> QED BY <1>0, <2>1, <2>6 DEF FilesInv
<1>8. ASSUME NEW n \in Length, WriteFile(f, n) PROVE FilesInv'
  <2> DEFINE d == fd_table[f]
             r == d.rec
             off == d.off
             c == smkfs_write(fs, want, r, off, n)
             o == off + n
  <2>1. /\ fs' = c.fs
        /\ fd_table' = IF c.ok THEN [fd_table EXCEPT ![f].off = @ + n] ELSE fd_table
    BY <1>8 DEF WriteFile
  <2>2. off \in Nat /\ n \in Nat
    BY <1>1, <1>3 DEF FdOk
  <2>3. o \in Nat
    BY <2>2
  <2>4. fd_table' = [fd_table EXCEPT ![f].off = o] \/ fd_table' = fd_table
    BY <2>1
  <2> HIDE DEF o, r, off, d
  <2>5. Good(c.fs)
    BY <1>0, <2>2, WriteGood
  <2>6. TableOk'
    <3>1. CASE fd_table' = fd_table
      BY <1>0, <3>1 DEF TableOk
    <3>2. CASE fd_table' = [fd_table EXCEPT ![f].off = o]
      BY <1>0, <2>3, <3>2, TableMove
    <3> QED BY <2>4, <3>1, <3>2
  <2> HIDE DEF c
  <2> QED BY <2>1, <2>5, <2>6 DEF FilesInv
<1>9. ASSUME NEW w, NEW i, Seek(f, w, i) PROVE FilesInv'
  <2>1. PICK o \in Offset : fd_table' = [fd_table EXCEPT ![f].off = o] /\ fs' = fs
    BY <1>9 DEF Seek
  <2>2. o \in Nat
    BY <1>1
  <2>3. TableOk'
    BY <1>0, <2>1, <2>2, TableMove
  <2> QED BY <1>0, <2>1, <2>3 DEF FilesInv
<1>10. ASSUME NEW n \in Offset, FTruncate(f, n) PROVE FilesInv'
  <2> DEFINE r == fd_table[f].rec
             c == smkfs_truncate(fs, want, r, n)
  <2>1. fs' = c.fs /\ fd_table' = fd_table
    BY <1>10 DEF FTruncate
  <2> HIDE DEF r
  <2>2. Good(c.fs)
    BY <1>0, TruncateGood
  <2> HIDE DEF c
  <2> QED BY <1>0, <2>1, <2>2 DEF FilesInv, TableOk
<1> QED BY <1>2, <1>5, <1>6, <1>7, <1>8, <1>9, <1>10

-----------------------------------------------------------------------------
(***************************************************************************)
(* From the invariant to the property.                                     *)
(***************************************************************************)

\* The list of a file's blocks has every block of its extents once.
LEMMA BlockList ==
    ASSUME NEW x \in Seq(Extent), Apart(x)
    PROVE  LET F == FlattenSeq([i \in DOMAIN x |-> [k \in 1 .. x[i].cnt |-> x[i].phys + k - 1]])
           IN  /\ F \in Seq(Nat)
               /\ \A p \in 1 .. Len(F) : F[p] \in XBlocks(x)
               /\ \A p, q \in 1 .. Len(F) : F[p] = F[q] => p = q
<1> DEFINE row(i) == [k \in 1 .. x[i].cnt |-> x[i].phys + k - 1]
           ss == [i \in DOMAIN x |-> row(i)]
           F == FlattenSeq(ss)
           n == Len(x)
<1>1. n \in Nat /\ DOMAIN x = 1 .. n /\ \A i \in 1 .. n : x[i] \in Extent
  OBVIOUS
<1>2. ASSUME NEW i \in 1 .. n
      PROVE  /\ row(i) \in Seq(Nat) /\ Len(row(i)) = x[i].cnt
             /\ x[i].phys \in Nat /\ x[i].cnt \in Nat
             /\ \A k \in 1 .. x[i].cnt : row(i)[k] = x[i].phys + k - 1 /\ row(i)[k] \in Blk(x[i])
  <2> DEFINE a == x[i].phys
             c == x[i].cnt
             t == [k \in 1 .. c |-> a + k - 1]
  <2>1. a \in Nat /\ c \in Nat
    BY <1>1 DEF Extent
  <2>2. Blk(x[i]) = a .. a + c - 1
    BY DEF Blk
  <2> HIDE DEF a, c
  <2>3. t \in Seq(Nat) /\ Len(t) = c
    <3>1. \A k \in 1 .. c : a + k - 1 \in Nat
      BY <2>1
    <3> QED BY <2>1, <3>1
  <2>4. \A k \in 1 .. c : t[k] = a + k - 1 /\ t[k] \in a .. a + c - 1
    BY <2>1
  <2> QED BY <2>1, <2>2, <2>3, <2>4 DEF a, c
<1> HIDE DEF row
<1>3. ss \in Seq(Seq(Nat)) /\ Len(ss) = n /\ \A i \in 1 .. n : ss[i] = row(i)
  <2> HIDE DEF n
  <2>1. ss = [i \in 1 .. n |-> row(i)]
    BY <1>1
  <2> HIDE DEF ss
  <2> QED BY <1>1, <1>2, <2>1
<1>0. F = FlattenSeq([i \in DOMAIN x |-> [k \in 1 .. x[i].cnt |-> x[i].phys + k - 1]])
  BY DEF row
<1> HIDE DEF ss
<1>4. F \in Seq(Nat) /\ Rows(ss, F, n)
  <2> HIDE DEF n
  <2>1. FlattenSeq(ss) \in Seq(Nat) /\ Rows(ss, FlattenSeq(ss), Len(ss))
    BY <1>3, FlatRows
  <2> QED BY <1>3, <2>1
<1> HIDE DEF F, n
<1>5. PICK f, g : Placed(ss, F, n, f, g)
  BY <1>4 DEF Rows
<1>6. ASSUME NEW p \in 1 .. Len(F)
      PROVE  /\ f[p] \in 1 .. n /\ F[p] \in Blk(x[f[p]])
             /\ F[p] = x[f[p]].phys + g[p] - 1 /\ g[p] \in Int /\ x[f[p]].phys \in Int
  <2>1. f[p] \in 1 .. n /\ g[p] \in 1 .. Len(ss[f[p]]) /\ F[p] = ss[f[p]][g[p]]
    BY <1>5 DEF Placed
  <2>2. ss[f[p]] = row(f[p])
    BY <1>3, <2>1
  <2>3. g[p] \in 1 .. x[f[p]].cnt
    BY <1>2, <2>1, <2>2
  <2> DEFINE i == f[p]
             k == g[p]
  <2>4. i \in 1 .. n /\ k \in 1 .. x[i].cnt /\ F[p] = row(i)[k]
    BY <2>1, <2>2, <2>3
  <2> HIDE DEF i, k
  <2>5. /\ x[i].phys \in Nat /\ x[i].cnt \in Nat
        /\ row(i)[k] = x[i].phys + k - 1 /\ row(i)[k] \in Blk(x[i])
    BY <1>2, <2>4
  <2>6. k \in Int
    BY <2>4, <2>5
  <2> QED BY <2>4, <2>5, <2>6 DEF i, k
<1>7. \A p \in 1 .. Len(F) : F[p] \in XBlocks(x)
  BY <1>6 DEF XBlocks, n
<1>8. ASSUME NEW p \in 1 .. Len(F), NEW q \in 1 .. Len(F), F[p] = F[q] PROVE p = q
  <2>1. f[p] = f[q]
    BY <1>6, <1>8 DEF Apart, n
  <2> DEFINE a == x[f[p]].phys
  <2>2. a \in Int /\ g[p] \in Int /\ g[q] \in Int /\ a + g[p] - 1 = a + g[q] - 1
    BY <1>6, <1>8, <2>1
  <2> HIDE DEF a
  <2>3. g[p] = g[q]
    BY <2>2
  <2> QED BY <1>5, <2>1, <2>3 DEF Placed
<1> QED BY <1>0, <1>4, <1>7, <1>8

\* Two lists without repetition and with nothing in common.
LEMMA JoinedApart ==
    ASSUME NEW u \in Seq(Nat), NEW v \in Seq(Nat), NEW A, NEW B, A \cap B = {},
           \A p \in 1 .. Len(u) : u[p] \in A, \A p \in 1 .. Len(v) : v[p] \in B,
           \A p, q \in 1 .. Len(u) : u[p] = u[q] => p = q,
           \A p, q \in 1 .. Len(v) : v[p] = v[q] => p = q
    PROVE  /\ u \o v \in Seq(Nat)
           /\ \A p \in 1 .. Len(u \o v) : (u \o v)[p] \in A \cup B
           /\ \A p, q \in 1 .. Len(u \o v) : (u \o v)[p] = (u \o v)[q] => p = q
<1> DEFINE w == u \o v
           m == Len(u)
           n == Len(v)
<1>1. /\ w \in Seq(Nat) /\ Len(w) = m + n
      /\ \A p \in 1 .. m + n : w[p] = IF p <= m THEN u[p] ELSE v[p - m]
  BY Joined
<1>2. m \in Nat /\ n \in Nat
  OBVIOUS
<1> HIDE DEF w
<1>3. ASSUME NEW p \in 1 .. m + n
      PROVE  \/ p <= m /\ p \in 1 .. m /\ w[p] = u[p] /\ w[p] \in A
             \/ p > m /\ p - m \in 1 .. n /\ w[p] = v[p - m] /\ w[p] \in B
  <2>1. CASE p <= m
    <3>1. p \in 1 .. m
      BY <1>2, <2>1
    <3> QED BY <1>1, <2>1, <3>1
  <2>2. CASE ~(p <= m)
    <3>1. p - m \in 1 .. n /\ p > m
      BY <1>2, <2>2
    <3> QED BY <1>1, <2>2, <3>1
  <2> QED BY <2>1, <2>2
<1>4. ASSUME NEW p \in 1 .. m + n, NEW q \in 1 .. m + n, w[p] = w[q] PROVE p = q
  <2>1. CASE p <= m /\ q <= m
    <3>1. p \in 1 .. m /\ q \in 1 .. m
      BY <1>2, <2>1
    <3>2. w[p] = u[p] /\ w[q] = u[q]
      BY <1>1, <2>1
    <3> QED BY <1>4, <3>1, <3>2
  <2>2. CASE p > m /\ q > m
    <3>1. p - m \in 1 .. n /\ q - m \in 1 .. n /\ v[p - m] = v[q - m]
      BY <1>2, <1>3, <1>4, <2>2
    <3>2. p - m = q - m
      BY <3>1
    <3> QED BY <1>2, <3>2
  <2>3. CASE p <= m /\ q > m
    <3>1. w[p] \in A /\ w[q] \in B
      BY <1>2, <1>3, <2>3
    <3> QED BY <1>4, <3>1
  <2>4. CASE p > m /\ q <= m
    <3>1. w[p] \in B /\ w[q] \in A
      BY <1>2, <1>3, <2>4
    <3> QED BY <1>4, <3>1
  <2>5. (p <= m \/ p > m) /\ (q <= m \/ q > m)
    BY <1>2
  <2> QED BY <2>1, <2>2, <2>3, <2>4, <2>5
<1> QED BY <1>1, <1>3, <1>4 DEF w

\* What a record owns is what it claims, each block once.
LEMMA OwnedClaims ==
    ASSUME Good(fs), NEW r \in Rec
    PROVE  IsInjective(Owned(r)) /\ Range(Owned(r)) \subseteq Claims(fs.mrt[r], fs.rec[r])
<1> DEFINE m == fs.mrt[r].block
           d == fs.rec[r].data
           x == fs.rec[r].ext
           F == FlattenSeq([i \in DOMAIN x |-> [k \in 1 .. x[i].cnt |-> x[i].phys + k - 1]])
           u == <<m>>
           v == IF d = 0 THEN <<>> ELSE <<d>>
           D == {d} \ {0}
<1>1. CASE ~mrt_resolve(fs, r)
  <2>1. Owned(r) = <<>>
    BY <1>1 DEF Owned
  <2>2. DOMAIN Owned(r) = {}
    BY <2>1
  <2> QED BY <2>2 DEF IsInjective, Range
<1>2. CASE mrt_resolve(fs, r)
  <2>1. fs.mrt[r].alloc /\ m # 0
    BY <1>2 DEF mrt_resolve
  <2>2. Tidy(fs.mrt[r], fs.rec[r]) /\ RecordOk(fs.rec[r]) /\ fs.mrt[r] \in MrtRec
    BY DEF Good, Sole, VolumeOk
  <2>3. m \in Nat /\ d \in Nat /\ x \in Seq(Extent)
    BY <2>2 DEF RecordOk, MrtRec
  <2>4. Apart(x) /\ m \notin XBlocks(x) /\ (d # 0 => d # m /\ d \notin XBlocks(x))
    BY <2>1, <2>2 DEF Tidy
  <2>5. Claims(fs.mrt[r], fs.rec[r]) = {m} \cup D \cup XBlocks(x)
    BY <2>1 DEF Claims
  <2>6. Owned(r) = u \o v \o F
    BY <1>2 DEF Owned
  <2> HIDE DEF x
  <2>7. F \in Seq(Nat) /\ (\A p \in 1 .. Len(F) : F[p] \in XBlocks(x)) /\ \A p, q \in 1 .. Len(F) : F[p] = F[q] => p = q
    BY <2>3, <2>4, BlockList
  <2> HIDE DEF F, m, d
  <2>8. /\ u \in Seq(Nat) /\ (\A p \in 1 .. Len(u) : u[p] \in {m})
        /\ \A p, q \in 1 .. Len(u) : u[p] = u[q] => p = q
    <3>1. u \in Seq(Nat) /\ Len(u) = 1 /\ u[1] = m
      BY <2>3
    <3> QED BY <3>1
  <2>9. /\ v \in Seq(Nat) /\ (\A p \in 1 .. Len(v) : v[p] \in D)
        /\ \A p, q \in 1 .. Len(v) : v[p] = v[q] => p = q
    <3>1. CASE d = 0
      <4>1. v = <<>>
        BY <3>1
      <4>2. v \in Seq(Nat) /\ Len(v) = 0
        BY <4>1
      <4> HIDE DEF v
      <4> QED BY <4>2
    <3>2. CASE d # 0
      <4>1. v = <<d>>
        BY <3>2
      <4>2. v \in Seq(Nat) /\ Len(v) = 1 /\ v[1] = d
        BY <2>3, <4>1
      <4> HIDE DEF v
      <4> QED BY <3>2, <4>2
    <3> QED BY <3>1, <3>2
  <2>10. {m} \cap D = {} /\ ({m} \cup D) \cap XBlocks(x) = {}
    BY <2>4
  <2> DEFINE M == {m}
             t == u \o v
  <2> HIDE DEF u, v, D, M
  <2>11. /\ t \in Seq(Nat) /\ (\A p \in 1 .. Len(t) : t[p] \in M \cup D)
         /\ \A p, q \in 1 .. Len(t) : t[p] = t[q] => p = q
    <3>1. M \cap D = {} /\ \A p \in 1 .. Len(u) : u[p] \in M
      BY <2>8, <2>10 DEF M
    <3> QED BY <2>8, <2>9, <3>1, JoinedApart
  <2> DEFINE w == t \o F
             N == M \cup D
             X == XBlocks(x)
  <2>12. N \cap X = {}
    BY <2>10 DEF M
  <2>13. /\ w \in Seq(Nat) /\ (\A p \in 1 .. Len(w) : w[p] \in N \cup X)
         /\ \A p, q \in 1 .. Len(w) : w[p] = w[q] => p = q
    <3> HIDE DEF t, N, X
    <3>1. /\ \A p \in 1 .. Len(t) : t[p] \in N
          /\ \A p \in 1 .. Len(F) : F[p] \in X
      BY <2>7, <2>11 DEF N, X
    <3> QED BY <2>7, <2>11, <2>12, <3>1, JoinedApart
  <2>14. Owned(r) = w
    BY <2>6
  <2>15. Claims(fs.mrt[r], fs.rec[r]) = N \cup X
    BY <2>5 DEF M
  <2> HIDE DEF w, N, X
  <2>16. DOMAIN w = 1 .. Len(w)
    BY <2>13
  <2> QED BY <2>13, <2>14, <2>15, <2>16 DEF IsInjective, Range
<1> QED BY <1>1, <1>2

\* The invariant implies the property.
LEMMA GoodOwned == FilesInv => BlocksOwnedOnce
<1> SUFFICES ASSUME FilesInv PROVE BlocksOwnedOnce
  OBVIOUS
<1>1. Good(fs)
  BY DEF FilesInv
<1>2. \A r \in Rec : IsInjective(Owned(r)) /\ Range(Owned(r)) \subseteq Claims(fs.mrt[r], fs.rec[r])
  BY <1>1, OwnedClaims
<1>3. \A r \in Rec : /\ Claims(fs.mrt[r], fs.rec[r]) \cap fs.free = {}
        /\ \A q \in Rec \ {r} : Claims(fs.mrt[r], fs.rec[r]) \cap Claims(fs.mrt[q], fs.rec[q]) = {}
  BY <1>1 DEF Good, Sole
<1>4. ASSUME NEW r \in Rec
      PROVE  /\ IsInjective(Owned(r)) /\ Range(Owned(r)) \cap fs.free = {}
             /\ \A q \in Rec \ {r} : Range(Owned(r)) \cap Range(Owned(q)) = {}
  BY <1>2, <1>3
<1>5. Counted(fs)
  BY <1>1 DEF Good
<1> QED BY <1>4, <1>5, Zenon DEF BlocksOwnedOnce, Counted

\* No disk block has two owners, or one that the bitmap calls free, after any
\* sequence of SmKFS calls, on a volume of any size.
THEOREM BlocksOwnedOnceHolds == FilesSpec => []BlocksOwnedOnce
<1>1. FilesInit => FilesInv
  BY FilesInitInv
<1>2. FilesInv /\ [Names \/ Descriptors \/ RecordCalls]_fVars => FilesInv'
  <2>1. FilesInv /\ UNCHANGED fVars => FilesInv'
    BY DEF fVars, FilesInv, TableOk
  <2> QED BY <2>1, NamesInv, DescriptorsInv, RecordCallsInv
<1>3. FilesInv => BlocksOwnedOnce
  BY GoodOwned
<1> QED BY <1>1, <1>2, <1>3, PTL DEF FilesSpec

-----------------------------------------------------------------------------
(***************************************************************************)
(* Names, and a link for each.                                             *)
(***************************************************************************)

\* A record has finitely many names.
LEMMA EntriesFinite ==
    ASSUME NEW s, NEW r
    PROVE  IsFiniteSet(Entries(s, r)) /\ Cardinality(Entries(s, r)) \in Nat
<1>1. IsFiniteSet(Rec) /\ IsFiniteSet(NameOf)
  BY FilesAssumption DEF NameOf
<1>2. IsFiniteSet(Rec \X NameOf)
  BY <1>1, FS_Product
<1>3. Entries(s, r) \subseteq Rec \X NameOf
  BY DEF Entries
<1> QED BY <1>2, <1>3, FS_Subset, FS_CardinalityType

\* A record that keeps its links and gets no name still has a link for each.
LEMMA NameKept ==
    ASSUME NEW s, NEW T, NEW r, Leads(s, r), Entries(T, r) \subseteq Entries(s, r),
           record_read(s, r) => record_read(T, r), T.rec[r].links = s.rec[r].links, s.rec[r].links \in Nat
    PROVE  Leads(T, r)
<1> SUFFICES ASSUME Entries(T, r) # {}
             PROVE  record_read(T, r) /\ Cardinality(Entries(T, r)) <= T.rec[r].links
  BY DEF Leads
<1>1. record_read(s, r) /\ Cardinality(Entries(s, r)) <= s.rec[r].links
  BY DEF Leads
<1>2. Cardinality(Entries(T, r)) <= Cardinality(Entries(s, r))
  BY EntriesFinite, FS_Subset
<1>3. Cardinality(Entries(T, r)) \in Nat /\ Cardinality(Entries(s, r)) \in Nat
  BY EntriesFinite
<1> QED BY <1>1, <1>2, <1>3

\* Calls that leave names and links alone.
LEMMA DirSame ==
    ASSUME NEW s, DirOk(s), NEW T, SameNames(s, T)
    PROVE  DirOk(T)
<1>1. DirTyped(T)
  BY DEF DirOk, DirTyped, SameNames, SameRecord
<1>2. ASSUME NEW r \in Rec PROVE Entries(T, r) = Entries(s, r)
  <2>1. \A q \in Rec : IsDir(T, q) <=> IsDir(s, q)
    BY DEF IsDir, SameNames, SameRecord
  <2> QED BY <2>1 DEF Entries, SameNames
<1>3. ASSUME NEW r \in Rec \ {root_record_id} PROVE Leads(T, r)
  <2>1. Leads(s, r) /\ s.rec[r].links \in Nat
    BY DEF DirOk, DirTyped
  <2>2. record_read(T, r) <=> record_read(s, r)
    BY DEF SameNames
  <2>3. T.rec[r].links = s.rec[r].links
    BY DEF SameNames, SameRecord
  <2> QED BY <1>2, <2>1, <2>2, <2>3, NameKept
<1> QED BY <1>1, <1>3 DEF DirOk

\* A record without names, or the root, is freed.
LEMMA DirFreed ==
    ASSUME NEW s, DirOk(s), NEW T, NEW r, Freed(s, T, r),
           r \in Rec \ {root_record_id} => Entries(s, r) = {}
    PROVE  DirOk(T)
<1>1. DirTyped(T)
  <2>1. Blank.links \in Nat /\ "DATA" \notin Blank.attrs
    BY DEF Blank
  <2>2. T.dir = [p \in Rec |-> [n \in NameOf |-> T.dir[p][n]]]
    BY DEF DirOk, DirTyped, Freed
  <2>3. ASSUME NEW q \in Rec
        PROVE  T.rec[q].links \in Nat /\ ("DATA" \in T.rec[q].attrs => T.rec[q].type = "dir")
    <3>1. T.rec[q] = s.rec[q] \/ T.rec[q] = Blank
      BY DEF Freed
    <3>2. s.rec[q].links \in Nat /\ ("DATA" \in s.rec[q].attrs => s.rec[q].type = "dir")
      BY DEF DirOk, DirTyped
    <3> QED BY <2>1, <3>1, <3>2
  <2> QED BY <2>2, <2>3 DEF DirTyped
<1>2. \A q \in Rec : IsDir(T, q) => IsDir(s, q)
  BY DEF IsDir, record_read, mrt_resolve, Freed
<1>3. \A q \in Rec : Entries(T, q) \subseteq Entries(s, q)
  BY <1>2 DEF Entries, Freed
<1>4. ASSUME NEW q \in Rec \ {root_record_id} PROVE Leads(T, q)
  <2>1. CASE q = r
    BY <1>3, <2>1 DEF Leads
  <2>2. CASE q # r
    <3>1. Leads(s, q) /\ s.rec[q].links \in Nat
      BY DEF DirOk, DirTyped
    <3>2. (record_read(s, q) => record_read(T, q)) /\ T.rec[q].links = s.rec[q].links
      BY <2>2 DEF record_read, mrt_resolve, Freed
    <3> QED BY <1>3, <3>1, <3>2, NameKept
  <2> QED BY <2>1, <2>2
<1> QED BY <1>1, <1>4 DEF DirOk

\* One entry of a directory is replaced: v has at most that name more, and
\* whoever had it has it no longer.
LEMMA EntryChange ==
    ASSUME NEW s, Shape(s), DirTyped(s), NEW p, NEW n, NEW v
    PROVE  LET T == [s EXCEPT !.dir[p][n] = v]
           IN  /\ Shape(T) /\ T.mrt = s.mrt /\ T.rec = s.rec /\ DirTyped(T)
               /\ \A q : q # v => Entries(T, q) = Entries(s, q) \ {<<p, n>>}
               /\ \A q : Entries(T, q) \subseteq Entries(s, q) \cup {<<p, n>>}
<1> DEFINE T == [s EXCEPT !.dir[p][n] = v]
<1>1. Shape(T) /\ T.mrt = s.mrt /\ T.rec = s.rec /\ T.dir = [s.dir EXCEPT ![p][n] = v]
  BY DEF Shape
<1>2. s.dir = [a \in Rec |-> [m \in NameOf |-> s.dir[a][m]]]
  BY DEF DirTyped
<1> HIDE DEF T
<1>3. \A a \in Rec : \A m \in NameOf : T.dir[a][m] = IF a = p /\ m = n THEN v ELSE s.dir[a][m]
  BY <1>1, <1>2
<1>4. T.dir = [a \in Rec |-> [m \in NameOf |-> T.dir[a][m]]]
  <2> DEFINE F == s.dir
  <2>1. \A a \in Rec : F[a] = [m \in NameOf |-> F[a][m]]
    BY <1>2
  <2>2. F = [a \in Rec |-> F[a]]
    BY <1>2
  <2>3. T.dir = [F EXCEPT ![p] = [F[p] EXCEPT ![n] = v]]
    BY <1>1
  <2> HIDE DEF F
  <2>4. \A a \in Rec : T.dir[a] = IF a = p THEN [F[p] EXCEPT ![n] = v] ELSE F[a]
    BY <2>2, <2>3
  <2>5. \A a \in Rec : T.dir[a] = [m \in NameOf |-> T.dir[a][m]]
    BY <2>1, <2>4
  <2>6. T.dir = [a \in Rec |-> T.dir[a]]
    BY <2>2, <2>3
  <2> QED BY <2>5, <2>6
<1>5. DirTyped(T)
  BY <1>1, <1>4 DEF DirTyped
<1>6. \A a : IsDir(T, a) <=> IsDir(s, a)
  BY <1>1 DEF IsDir, record_read, mrt_resolve
<1>7. ASSUME NEW q, q # v PROVE Entries(T, q) = Entries(s, q) \ {<<p, n>>}
  BY <1>3, <1>6, <1>7 DEF Entries
<1>8. ASSUME NEW q PROVE Entries(T, q) \subseteq Entries(s, q) \cup {<<p, n>>}
  BY <1>3, <1>6 DEF Entries
<1> QED BY <1>1, <1>5, <1>7, <1>8 DEF T

\* One name of a path leads from a directory to the next.
Walk == INSTANCE FoldLemmas WITH op <- LAMBDA d, n : IF n = "" THEN d ELSE smkfs_lookup_by_name(fs, d, n)

\* path_lookup ends where the last name leads from the directory before it, and
\* the two calls of smkfs_delete_file, the lookup and path_split, agree on it.
LEMMA PathStep ==
    ASSUME NEW p \in Path
    PROVE  /\ SplitName(p) \in NameOf
           /\ path_lookup(fs, p) = IF SplitName(p) = "" THEN SplitDir(fs, p)
                                   ELSE smkfs_lookup_by_name(fs, SplitDir(fs, p), SplitName(p))
<1> DEFINE E == Range(p)
           step(d, n) == IF n = "" THEN d ELSE smkfs_lookup_by_name(fs, d, n)
           V == {0, root_record_id} \cup {fs.dir[d][n] : d \in Rec, n \in E}
<1>1. p # <<>> /\ p \in Seq(E) /\ E \subseteq NameOf
  BY FilesAssumption DEF NameOf
<1>2. Last(p) \in E
  <2>1. Len(p) \in 1 .. Len(p)
    BY <1>1
  <2> QED BY <1>1, <2>1 DEF Last, Range
<1>3. root_record_id \in V
  OBVIOUS
<1>4. ASSUME NEW v \in V, NEW n \in E PROVE step(v, n) \in V
  <2> DEFINE w == smkfs_lookup_by_name(fs, v, n)
  <2>1. step(v, n) = v \/ step(v, n) = w
    OBVIOUS
  <2>2. w = 0 \/ (v \in Rec /\ w = fs.dir[v][n])
    BY DEF smkfs_lookup_by_name, IsDir, record_read, mrt_resolve
  <2> HIDE DEF w, E, step
  <2> QED BY <2>1, <2>2
<1>5. path_lookup(fs, p) = Walk!Folded(root_record_id, p)
  BY DEF path_lookup, Walk!Folded, FoldLeft, MapThenFoldSet, Walk!FoldLeft, Walk!MapThenFoldSet, Walk!Max, Max
<1>6. SplitDir(fs, p) = Walk!Folded(root_record_id, Walk!Front(p))
  BY DEF SplitDir, path_lookup, Walk!Folded, FoldLeft, MapThenFoldSet, Walk!FoldLeft, Walk!MapThenFoldSet, Walk!Max, Max,
         Front, Walk!Front
<1> HIDE DEF E, V
<1>7. Walk!Folded(root_record_id, p) = step(Walk!Folded(root_record_id, Walk!Front(p)), Walk!Last(p))
  BY <1>1, <1>3, <1>4, Walk!FoldLeftLast
<1>8. SplitName(p) = Walk!Last(p)
  BY DEF SplitName, Last, Walk!Last
<1> QED BY <1>1, <1>2, <1>5, <1>6, <1>7, <1>8 DEF SplitName

\* A new record has no name and nothing in it; the others are as they were.
LEMMA AllocDir ==
    ASSUME NEW s, DirOk(s), NEW a, NEW b, Allocated(s, a, b)
    PROVE  /\ DirOk(a.fs) /\ ~IsDir(a.fs, a.id)
           /\ a.id # root_record_id => Entries(a.fs, a.id) = {}
<1> DEFINE v == a.fs
           r == a.id
<1>1. /\ r \in Rec /\ ~s.mrt[r].alloc /\ record_read(v, r) /\ v.dir = s.dir
      /\ v.rec[r].links = 1 /\ v.rec[r].attrs = {}
      /\ \A q \in Rec \ {r} : v.mrt[q] = s.mrt[q] /\ v.rec[q] = s.rec[q]
  BY DEF Allocated
<1> HIDE DEF v, r
<1>2. ~IsDir(v, r) /\ ~IsDir(s, r) /\ ~record_read(s, r)
  BY <1>1 DEF IsDir, record_read, mrt_resolve
<1>3. \A q \in Rec : IsDir(v, q) <=> IsDir(s, q)
  BY <1>1, <1>2 DEF IsDir, record_read, mrt_resolve
<1>4. \A q : Entries(v, q) = Entries(s, q)
  BY <1>1, <1>3 DEF Entries
<1>5. r # root_record_id => Entries(v, r) = {}
  BY <1>1, <1>2, <1>4 DEF DirOk, Leads
<1>6. DirTyped(v)
  <2>1. v.dir = [p \in Rec |-> [n \in NameOf |-> v.dir[p][n]]]
    BY <1>1 DEF DirOk, DirTyped
  <2>2. ASSUME NEW q \in Rec
        PROVE  v.rec[q].links \in Nat /\ ("DATA" \in v.rec[q].attrs => v.rec[q].type = "dir")
    <3>1. CASE q = r
      BY <1>1, <3>1
    <3>2. CASE q # r
      BY <1>1, <3>2 DEF DirOk, DirTyped
    <3> QED BY <3>1, <3>2
  <2> QED BY <2>1, <2>2 DEF DirTyped
<1>7. ASSUME NEW q \in Rec \ {root_record_id} PROVE Leads(v, q)
  <2>1. CASE q = r
    BY <1>5, <2>1 DEF Leads
  <2>2. CASE q # r
    <3>1. Leads(s, q) /\ s.rec[q].links \in Nat
      BY DEF DirOk, DirTyped
    <3>2. (record_read(s, q) => record_read(v, q)) /\ v.rec[q].links = s.rec[q].links
      BY <1>1, <2>2 DEF record_read, mrt_resolve
    <3> QED BY <1>4, <3>1, <3>2, NameKept
  <2> QED BY <2>1, <2>2
<1> QED BY <1>2, <1>5, <1>6, <1>7 DEF DirOk, v, r

\* smkfs_create_record from the new record on: it gets one name, for its one
\* link, and a directory starts empty; on failure it goes without a name.
LEMMA NamedDir ==
    ASSUME NEW a, Good(a.fs), DirOk(a.fs), ~IsDir(a.fs, a.id),
           a.id # root_record_id => Entries(a.fs, a.id) = {},
           a.id # 0 => mrt_resolve(a.fs, a.id),
           NEW type, NEW parent, NEW n, NEW room
    PROVE  DirOk(Named(a, type, parent, n, room).fs)
<1> DEFINE s == a.fs
           r == a.id
           b == IF type = "dir" THEN bitmap_alloc_(s) ELSE 0
           u == IF b = 0 THEN s ELSE [Take(s, b) EXCEPT !.dir[r] = [m \in NameOf |-> 0]]
           w == IF b = 0 THEN u ELSE bitmap_free_range(u, b, 1)
           x == Fresh(u, r, type, parent, b)
           T == record_write([u EXCEPT !.dir[parent][n] = r], r, x)
<1>1. CASE r = 0
  BY <1>1 DEF Named
<1> SUFFICES ASSUME r # 0 PROVE DirOk(Named(a, type, parent, n, room).fs)
  BY <1>1
<1>2. r \in Rec /\ s.mrt[r].alloc /\ s.mrt[r].block # 0
  BY DEF mrt_resolve
<1>3. \/ Named(a, type, parent, n, room).fs = record_free(w, r)
      \/ Named(a, type, parent, n, room).fs = T /\ IsDir(u, parent)
  BY DEF Named
<1>4. VolumeOk(s) /\ Good(s) /\ DirOk(s) /\ DirTyped(s) /\ Shape(s)
  BY DEF Good, VolumeOk, DirOk
<1>5. /\ b # 0 => b \in s.free /\ b \in Nat \ {0}
      /\ b # 0 => type = "dir"
  BY <1>4, AllocFree
<1>6. ~IsDir(s, r) /\ (r # root_record_id => Entries(s, r) = {})
  OBVIOUS
<1> HIDE DEF s, r, b
<1>7. /\ Shape(u) /\ u.mrt = s.mrt /\ u.rec = s.rec /\ u.free = s.free \ {b}
      /\ u.count = s.count /\ u.mrtFree = s.mrtFree
      /\ u.dir = IF b = 0 THEN s.dir ELSE [s.dir EXCEPT ![r] = [m \in NameOf |-> 0]]
  <2>1. CASE b = 0
    BY <1>4, <1>5, <2>1 DEF VolumeOk
  <2>2. CASE b # 0
    BY <1>4, <2>2 DEF VolumeOk, Shape, Take
  <2> QED BY <2>1, <2>2
<1>8. /\ Shape(w) /\ w.mrt = s.mrt /\ w.rec = s.rec /\ w.dir = u.dir /\ w.free = s.free
      /\ w.count = s.count /\ w.mrtFree = s.mrtFree
  <2>1. CASE b = 0
    BY <1>4, <2>1
  <2>2. CASE b # 0
    <3>1. w = bitmap_free_range(u, b, 1)
      BY <2>2
    <3> HIDE DEF u, w
    <3>2. b .. b + 1 - 1 = {b}
      BY <1>5, <2>2
    <3> QED BY <1>5, <1>7, <2>2, <3>1, <3>2 DEF bitmap_free_range, Shape
  <2> QED BY <2>1, <2>2
<1>9. /\ x.type = type /\ x.links = 1 /\ x.gen = s.mrt[r].gen
      /\ "DATA" \in x.attrs <=> b # 0
  <2> HIDE DEF u
  <2> QED BY <1>7 DEF Fresh, Blank
<1> HIDE DEF u, w, x
<1>10. \A p \in Rec \ {r} : u.dir[p] = s.dir[p]
  BY <1>4, <1>7 DEF DirTyped
<1>11. b # 0 => \A m \in NameOf : u.dir[r][m] = 0
  <2>1. s.dir = [p \in Rec |-> s.dir[p]]
    BY <1>4 DEF DirTyped
  <2> QED BY <1>2, <1>7, <2>1
<1>12. u.dir = [p \in Rec |-> [m \in NameOf |-> u.dir[p][m]]]
  <2>1. CASE b = 0
    BY <1>4, <1>7, <2>1 DEF DirTyped
  <2>2. CASE b # 0
    <3> DEFINE F == s.dir
               Z == [m \in NameOf |-> 0]
    <3>1. F = [p \in Rec |-> F[p]] /\ \A p \in Rec : F[p] = [m \in NameOf |-> F[p][m]]
      BY <1>4 DEF DirTyped
    <3>2. u.dir = [F EXCEPT ![r] = Z] /\ Z = [m \in NameOf |-> Z[m]]
      BY <1>7, <2>2
    <3> HIDE DEF F, Z
    <3>3. \A p \in Rec : u.dir[p] = IF p = r THEN Z ELSE F[p]
      BY <3>1, <3>2
    <3>4. \A p \in Rec : u.dir[p] = [m \in NameOf |-> u.dir[p][m]]
      BY <3>1, <3>2, <3>3
    <3>5. u.dir = [p \in Rec |-> u.dir[p]]
      BY <3>1, <3>2
    <3> QED BY <3>4, <3>5
  <2> QED BY <2>1, <2>2
<1>13. \A v : v.mrt = s.mrt /\ v.rec = s.rec => \A p : IsDir(v, p) <=> IsDir(s, p)
  BY DEF IsDir, record_read, mrt_resolve
<1>14. ASSUME NEW v, v.mrt = s.mrt, v.rec = s.rec, v.dir = u.dir
       PROVE  DirOk(v) /\ \A q : Entries(v, q) = Entries(s, q)
  <2>1. \A p : IsDir(v, p) <=> IsDir(s, p)
    BY <1>13, <1>14
  <2>2. \A q : Entries(v, q) = Entries(s, q)
    BY <1>6, <1>10, <1>14, <2>1 DEF Entries
  <2>3. DirTyped(v)
    BY <1>4, <1>12, <1>14 DEF DirTyped
  <2>4. ASSUME NEW q \in Rec \ {root_record_id} PROVE Leads(v, q)
    <3>1. Leads(s, q) /\ s.rec[q].links \in Nat
      BY <1>4 DEF DirOk, DirTyped
    <3>2. (record_read(s, q) => record_read(v, q)) /\ v.rec[q].links = s.rec[q].links
      BY <1>14 DEF record_read, mrt_resolve
    <3> QED BY <2>2, <3>1, <3>2, NameKept
  <2> QED BY <2>2, <2>3, <2>4 DEF DirOk
<1>15. DirOk(u) /\ DirOk(w) /\ \A q : Entries(u, q) = Entries(s, q) /\ Entries(w, q) = Entries(s, q)
  BY <1>7, <1>8, <1>14
<1>16. DirOk(record_free(w, r))
  <2>1. Good(w)
    <3>1. VolumeOk(w) /\ SameBlocks(s, w)
      BY <1>4, <1>8 DEF VolumeOk, SameBlocks
    <3> QED BY <1>4, <3>1, SameGood
  <2>2. Freed(w, record_free(w, r), r)
    BY <2>1, RecordFree
  <2> QED BY <1>6, <1>15, <2>2, DirFreed
<1>17. ASSUME IsDir(u, parent) PROVE DirOk(T)
  <2> DEFINE y == [u EXCEPT !.dir[parent][n] = r]
  <2>1. DirTyped(u) /\ Shape(u)
    BY <1>7, <1>15 DEF DirOk
  <2>2. /\ Shape(y) /\ y.mrt = u.mrt /\ y.rec = u.rec /\ DirTyped(y)
        /\ \A q : q # r => Entries(y, q) = Entries(u, q) \ {<<parent, n>>}
        /\ \A q : Entries(y, q) \subseteq Entries(u, q) \cup {<<parent, n>>}
    BY <2>1, EntryChange
  <2>3. parent # r
    BY <1>6, <1>7, <1>13, <1>17
  <2>4. b # 0 => \A m \in NameOf : y.dir[r][m] = 0
    <3>1. y.dir = [u.dir EXCEPT ![parent][n] = r]
      BY <2>1 DEF Shape
    <3>2. y.dir[r] = u.dir[r]
      BY <1>2, <1>12, <2>3, <3>1
    <3> QED BY <1>11, <3>2
  <2>5. T = record_write(y, r, x)
    OBVIOUS
  <2> HIDE DEF y, T
  <2>6. T.dir = y.dir /\ T.mrt = s.mrt /\ T.rec = [s.rec EXCEPT ![r] = x]
    BY <1>7, <2>2, <2>5 DEF record_write, Shape
  <2>7. T.rec[r] = x /\ \A q \in Rec \ {r} : T.rec[q] = s.rec[q]
    BY <1>2, <1>4, <2>6 DEF VolumeOk
  <2>8. \A p \in Rec \ {r} : IsDir(T, p) <=> IsDir(y, p)
    BY <1>7, <2>2, <2>6, <2>7 DEF IsDir, record_read, mrt_resolve
  <2>9. IsDir(T, r) => b # 0
    BY <1>9, <2>7 DEF IsDir
  <2>10. record_read(T, r)
    BY <1>2, <1>9, <2>6, <2>7 DEF record_read, mrt_resolve
  <2>11. 0 \notin Rec
    BY FilesAssumption
  <2>12. ASSUME NEW q \in Rec PROVE Entries(T, q) \subseteq Entries(y, q)
    BY <2>4, <2>6, <2>8, <2>9, <2>11 DEF Entries
  <2>13. DirTyped(T)
    <3>1. T.dir = [p \in Rec |-> [m \in NameOf |-> T.dir[p][m]]]
      BY <2>2, <2>6 DEF DirTyped
    <3>2. ASSUME NEW q \in Rec
          PROVE  T.rec[q].links \in Nat /\ ("DATA" \in T.rec[q].attrs => T.rec[q].type = "dir")
      <4>1. CASE q = r
        BY <1>5, <1>9, <2>7, <4>1
      <4>2. CASE q # r
        BY <1>4, <2>7, <4>2 DEF DirTyped
      <4> QED BY <4>1, <4>2
    <3> QED BY <3>1, <3>2 DEF DirTyped
  <2>14. ASSUME NEW q \in Rec \ {root_record_id} PROVE Leads(T, q)
    <3>1. CASE q = r
      <4>1. Entries(T, r) \subseteq {<<parent, n>>}
        BY <1>2, <1>6, <1>15, <2>2, <2>12, <3>1
      <4>2. Cardinality({<<parent, n>>}) = 1 /\ IsFiniteSet({<<parent, n>>})
        BY FS_Singleton
      <4>3. Cardinality(Entries(T, r)) <= 1
        BY <4>1, <4>2, FS_Subset
      <4> QED BY <1>9, <2>7, <2>10, <3>1, <4>3 DEF Leads
    <3>2. CASE q # r
      <4>1. Leads(s, q) /\ s.rec[q].links \in Nat
        BY <1>4 DEF DirOk, DirTyped
      <4>2. (record_read(s, q) => record_read(T, q)) /\ T.rec[q].links = s.rec[q].links
        BY <2>6, <2>7, <3>2 DEF record_read, mrt_resolve
      <4>3. Entries(T, q) \subseteq Entries(s, q)
        BY <1>15, <2>2, <2>12, <3>2
      <4> QED BY <4>1, <4>2, <4>3, NameKept
    <3> QED BY <3>1, <3>2
  <2> QED BY <2>13, <2>14 DEF DirOk
<1> QED BY <1>3, <1>16, <1>17

\* smkfs_create_record.
LEMMA CreateDir ==
    ASSUME NEW s, Good(s), DirOk(s), NEW type, NEW parent, NEW n, NEW room
    PROVE  DirOk(smkfs_create_record(s, type, parent, n, room).fs)
<1> DEFINE a == record_alloc(s, type)
<1>1. /\ Good(a.fs) /\ (a.id # 0 => \E b : Allocated(s, a, b))
      /\ a.id = 0 => SameNames(s, a.fs)
  BY RecordAlloc
<1>2. smkfs_create_record(s, type, parent, n, room) = Named(a, type, parent, n, room)
  BY DEF smkfs_create_record
<1> HIDE DEF a
<1>3. CASE a.id = 0
  <2>1. Named(a, type, parent, n, room).fs = a.fs
    BY <1>3 DEF Named
  <2> QED BY <1>1, <1>2, <1>3, <2>1, DirSame
<1>4. CASE a.id # 0
  <2>1. PICK b : Allocated(s, a, b)
    BY <1>1, <1>4
  <2>2. mrt_resolve(a.fs, a.id)
    BY <2>1 DEF Allocated
  <2>3. /\ DirOk(a.fs) /\ ~IsDir(a.fs, a.id)
        /\ a.id # root_record_id => Entries(a.fs, a.id) = {}
    BY <2>1, AllocDir
  <2> QED BY <1>1, <1>2, <2>2, <2>3, NamedDir
<1> QED BY <1>3, <1>4

\* smkfs_create_file and smkfs_mkdir.
LEMMA CreateFileDir ==
    ASSUME NEW s, Good(s), DirOk(s), NEW p, NEW room
    PROVE  DirOk(smkfs_create_file(s, p, room)) /\ DirOk(smkfs_mkdir(s, p, room))
<1> DEFINE f == "file"
           g == "dir"
           e == "PERMISSIONS"
           sd == SplitDir(s, p)
           sn == SplitName(p)
           c == smkfs_create_record(s, f, sd, sn, room)
           d == smkfs_create_record(s, g, sd, sn, room)
           k == c.fs
           i == c.id
<1>0. e # "DATA"
  OBVIOUS
<1>1. smkfs_create_file(s, p, room) \in {s, Permitted(c)} /\ smkfs_mkdir(s, p, room) \in {s, d.fs}
  BY DEF smkfs_create_file, smkfs_mkdir
<1>2. Permitted(c) \in {k, smkfs_setattr(k, i, e)}
  BY DEF Permitted
<1> HIDE DEF f, g, sd, sn, e
<1>3. DirOk(c.fs) /\ DirOk(d.fs) /\ Good(c.fs)
  BY CreateDir, CreateGood
<1> HIDE DEF c, d
<1>4. DirOk(k) /\ Good(k)
  BY <1>3
<1> HIDE DEF k, i
<1>5. DirOk(smkfs_setattr(k, i, e))
  BY <1>0, <1>4, SetattrGood, DirSame
<1> QED BY <1>1, <1>2, <1>3, <1>4, <1>5

\* smkfs_delete_record with a name that leads to the record: the name and its
\* link go together, and the record with the last of them.
LEMMA DeleteDir ==
    ASSUME NEW s, Good(s), DirOk(s), NEW parent, NEW n \in NameOf, NEW r,
           IsDir(s, parent) => s.dir[parent][n] = r
    PROVE  DirOk(smkfs_delete_record(s, parent, n, r))
<1> DEFINE u == [s EXCEPT !.dir[parent][n] = 0]
           z == 0
           links == IF u.rec[r].links = 0 THEN 0 ELSE u.rec[r].links - 1
           T == [u EXCEPT !.rec[r].links = links]
           x == [u.rec[r] EXCEPT !.links = links]
           e == <<parent, n>>
<1>1. \/ smkfs_delete_record(s, parent, n, r) = s
      \/ record_read(s, r) /\ IsDir(s, parent) /\ smkfs_delete_record(s, parent, n, r) = Unlinked(u, r)
  BY DEF smkfs_delete_record
<1> SUFFICES ASSUME record_read(s, r), IsDir(s, parent) PROVE DirOk(Unlinked(u, r))
  BY <1>1
<1>2. /\ r \in Rec /\ parent \in Rec /\ s.mrt[r].alloc /\ s.mrt[r].block # 0 /\ s.dir[parent][n] = r
      /\ Shape(s) /\ DirTyped(s) /\ VolumeOk(s) /\ r # 0
  BY FilesAssumption DEF IsDir, record_read, mrt_resolve, Good, VolumeOk, DirOk
<1>3. e \in Entries(s, r)
  BY <1>2 DEF Entries
<1>4. /\ Shape(u) /\ u.mrt = s.mrt /\ u.rec = s.rec /\ DirTyped(u)
      /\ \A q : q # 0 => Entries(u, q) = Entries(s, q) \ {e}
  <2> DEFINE w == [s EXCEPT !.dir[parent][n] = z]
  <2>1. /\ Shape(w) /\ w.mrt = s.mrt /\ w.rec = s.rec /\ DirTyped(w)
        /\ \A q : q # z => Entries(w, q) = Entries(s, q) \ {<<parent, n>>}
        /\ \A q : Entries(w, q) \subseteq Entries(s, q) \cup {<<parent, n>>}
    <3> HIDE DEF z
    <3> QED BY <1>2, EntryChange
  <2> QED BY <2>1
<1>5. Good(u)
  <2>1. VolumeOk(u) /\ SameBlocks(s, u)
    <3>1. Good([s EXCEPT !.dir[parent][n] = z])
      <4> HIDE DEF z
      <4> QED BY DirGood
    <3>2. u.free = s.free /\ u.count = s.count /\ u.mrtFree = s.mrtFree
      BY <1>2 DEF Shape
    <3> QED BY <1>4, <3>1, <3>2 DEF Good, SameBlocks
  <2> QED BY <2>1, SameGood
<1>6. Unlinked(u, r) = IF links = 0 THEN record_free(u, r) ELSE T
  BY DEF Unlinked
<1> HIDE DEF u
<1>7. DirOk(u)
  <2>1. ASSUME NEW q \in Rec \ {root_record_id} PROVE Leads(u, q)
    <3>1. Leads(s, q) /\ s.rec[q].links \in Nat
      BY DEF DirOk, DirTyped
    <3>2. (record_read(s, q) => record_read(u, q)) /\ u.rec[q].links = s.rec[q].links
      BY <1>4 DEF record_read, mrt_resolve
    <3>3. Entries(u, q) \subseteq Entries(s, q)
      BY <1>4, FilesAssumption
    <3> QED BY <3>1, <3>2, <3>3, NameKept
  <2> QED BY <1>4, <2>1 DEF DirOk
<1>8. r # root_record_id =>
        /\ Cardinality(Entries(u, r)) <= s.rec[r].links - 1 /\ s.rec[r].links >= 1
  <2> SUFFICES ASSUME r # root_record_id
               PROVE  Cardinality(Entries(u, r)) <= s.rec[r].links - 1 /\ s.rec[r].links >= 1
    OBVIOUS
  <2>1. Cardinality(Entries(s, r)) <= s.rec[r].links /\ s.rec[r].links \in Nat
    BY <1>2, <1>3 DEF DirOk, DirTyped, Leads
  <2>2. Cardinality(Entries(u, r)) = Cardinality(Entries(s, r)) - 1
    BY <1>2, <1>3, <1>4, EntriesFinite, FS_RemoveElement
  <2>3. Cardinality(Entries(u, r)) \in Nat /\ Cardinality(Entries(s, r)) \in Nat
    BY EntriesFinite
  <2> QED BY <2>1, <2>2, <2>3
<1>9. s.rec[r].links \in Nat /\ links = IF s.rec[r].links = 0 THEN 0 ELSE s.rec[r].links - 1
  BY <1>2, <1>4 DEF DirTyped
<1> HIDE DEF links
<1>10. CASE links = 0
  <2>1. ASSUME r # root_record_id PROVE Entries(u, r) = {}
    <3>1. Cardinality(Entries(u, r)) <= 0 /\ Cardinality(Entries(u, r)) \in Nat
      <4>1. s.rec[r].links - 1 = 0
        BY <1>8, <1>9, <1>10, <2>1
      <4> QED BY <1>8, <2>1, <4>1, EntriesFinite
    <3>2. Cardinality(Entries(u, r)) = 0
      BY <3>1
    <3> QED BY <3>2, EntriesFinite, FS_EmptySet
  <2>2. Freed(u, record_free(u, r), r)
    BY <1>5, RecordFree
  <2>3. DirOk(record_free(u, r))
    BY <1>7, <2>1, <2>2, DirFreed
  <2> QED BY <1>6, <1>10, <2>3
<1>11. CASE links # 0
  <2>1. /\ x.links = links /\ x.type = s.rec[r].type /\ x.gen = s.rec[r].gen /\ x.attrs = s.rec[r].attrs
    <3>1. RecordOk(s.rec[r])
      BY <1>2 DEF VolumeOk
    <3> QED BY <1>4, <3>1 DEF RecordOk
  <2>2. T.dir = u.dir /\ T.mrt = u.mrt /\ T.rec = [s.rec EXCEPT ![r] = x]
    BY <1>4 DEF Shape
  <2> HIDE DEF T, x
  <2>3. T.rec[r] = x /\ \A q \in Rec \ {r} : T.rec[q] = s.rec[q]
    BY <1>2, <2>2 DEF VolumeOk
  <2>4. \A q \in Rec : record_read(T, q) <=> record_read(u, q)
    BY <1>4, <2>1, <2>2, <2>3 DEF record_read, mrt_resolve
  <2>5. \A q \in Rec : "DATA" \in T.rec[q].attrs <=> "DATA" \in u.rec[q].attrs
    BY <1>4, <2>1, <2>3
  <2>6. \A q \in Rec : IsDir(T, q) <=> IsDir(u, q)
    BY <2>4, <2>5 DEF IsDir
  <2>7. \A q : Entries(T, q) = Entries(u, q)
    BY <2>2, <2>6 DEF Entries
  <2>8. DirTyped(T)
    <3>1. T.dir = [p \in Rec |-> [m \in NameOf |-> T.dir[p][m]]]
      BY <1>4, <2>2 DEF DirTyped
    <3>2. ASSUME NEW q \in Rec
          PROVE  T.rec[q].links \in Nat /\ ("DATA" \in T.rec[q].attrs => T.rec[q].type = "dir")
      <4>1. s.rec[q].links \in Nat /\ ("DATA" \in s.rec[q].attrs => s.rec[q].type = "dir")
        BY <1>2 DEF DirTyped
      <4>2. links \in Nat
        BY <1>9, <1>11
      <4> QED BY <2>1, <2>3, <4>1, <4>2
    <3> QED BY <3>1, <3>2 DEF DirTyped
  <2>9. ASSUME NEW q \in Rec \ {root_record_id} PROVE Leads(T, q)
    <3>1. Leads(u, q) /\ u.rec[q].links \in Nat
      BY <1>7 DEF DirOk, DirTyped
    <3>2. CASE q # r
      <4>1. T.rec[q].links = u.rec[q].links
        BY <1>4, <2>3, <3>2
      <4> QED BY <2>4, <2>7, <3>1, <4>1, NameKept
    <3>3. CASE q = r
      <4>1. Cardinality(Entries(T, r)) <= T.rec[r].links
        <5>1. links = s.rec[r].links - 1
          BY <1>9, <1>11
        <5> QED BY <1>8, <2>1, <2>3, <2>7, <3>3, <5>1
      <4>2. record_read(T, r)
        BY <1>2, <1>4, <2>4 DEF record_read, mrt_resolve
      <4> QED BY <3>3, <4>1, <4>2 DEF Leads
    <3> QED BY <3>2, <3>3
  <2>10. DirOk(T)
    BY <2>8, <2>9 DEF DirOk
  <2> QED BY <1>6, <1>11, <2>10
<1> QED BY <1>10, <1>11

\* smkfs_delete_file, smkfs_rmdir and smkfs_unlink.  A path that ends with a
\* slash leads to the directory before it, which has an entry and stays.
LEMMA RemoveDir ==
    ASSUME Good(fs), DirOk(fs), NEW p \in Path
    PROVE  DirOk(RemovePath(fs, p)) /\ DirOk(smkfs_unlink(fs, p))
<1> DEFINE r == path_lookup(fs, p)
           d == SplitDir(fs, p)
           n == SplitName(p)
<1>1. RemovePath(fs, p) = fs \/ (r # 0 /\ RemovePath(fs, p) = smkfs_delete_record(fs, d, n, r))
  BY DEF RemovePath
<1>2. n \in NameOf /\ r = IF n = "" THEN d ELSE smkfs_lookup_by_name(fs, d, n)
  BY PathStep
<1> HIDE DEF r, d, n
<1>3. CASE n # "" /\ r # 0
  <2>1. fs.dir[d][n] = r
    BY <1>2, <1>3 DEF smkfs_lookup_by_name
  <2> QED BY <1>1, <1>2, <2>1, DeleteDir DEF smkfs_unlink
<1>4. CASE n = "" /\ r # 0
  <2>1. r = d
    BY <1>2, <1>4
  <2>2. IsDir(fs, d) => fs.rec[d].type = "dir"
    BY DEF IsDir, record_read, mrt_resolve, DirOk, DirTyped
  <2>3. smkfs_delete_record(fs, d, n, r) = fs
    BY <1>2, <2>1, <2>2 DEF smkfs_delete_record
  <2> QED BY <1>1, <2>3 DEF smkfs_unlink
<1>5. DirOk(RemovePath(fs, p))
  BY <1>1, <1>3, <1>4
<1>6. smkfs_unlink(fs, p) \in {fs, RemovePath(fs, p)}
  BY DEF smkfs_unlink
<1> QED BY <1>5, <1>6

\* smkfs_rename of the record that the first name leads to: a name for a name,
\* whatever the second name led to before.
LEMMA RenameDir ==
    ASSUME NEW s, Good(s), DirOk(s), NEW p, NEW n \in NameOf, NEW q, NEW m, NEW r,
           IsDir(s, p) => s.dir[p][n] = r, NEW room
    PROVE  DirOk(smkfs_rename(s, p, n, q, m, r, room))
<1> DEFINE z == 0
           u == [s EXCEPT !.dir[p][n] = 0]
           v == [u EXCEPT !.dir[q][m] = r]
           x == [record_add_attr(s.rec[r], "PARENT") EXCEPT !.parent = q]
           T == record_write(v, r, x)
           e == <<p, n>>
           f == <<q, m>>
<1>1. \/ smkfs_rename(s, p, n, q, m, r, room) = s
      \/ record_read(s, r) /\ IsDir(s, p) /\ smkfs_rename(s, p, n, q, m, r, room) \in {u, v, T}
  BY DEF smkfs_rename
<1> SUFFICES ASSUME record_read(s, r), IsDir(s, p) PROVE DirOk(u) /\ DirOk(v) /\ DirOk(T)
  BY <1>1
<1>2. r \in Rec /\ p \in Rec /\ Shape(s) /\ DirTyped(s) /\ VolumeOk(s) /\ s.dir[p][n] = r
      /\ r # 0
  BY FilesAssumption DEF IsDir, record_read, mrt_resolve, Good, VolumeOk, DirOk
<1>3. e \in Entries(s, r)
  BY <1>2 DEF Entries
<1>4. /\ Shape(u) /\ u.mrt = s.mrt /\ u.rec = s.rec /\ DirTyped(u)
      /\ \A a : a # 0 => Entries(u, a) = Entries(s, a) \ {e}
  <2> DEFINE w == [s EXCEPT !.dir[p][n] = z]
  <2>1. /\ Shape(w) /\ w.mrt = s.mrt /\ w.rec = s.rec /\ DirTyped(w)
        /\ \A a : a # z => Entries(w, a) = Entries(s, a) \ {<<p, n>>}
        /\ \A a : Entries(w, a) \subseteq Entries(s, a) \cup {<<p, n>>}
    <3> HIDE DEF z
    <3> QED BY <1>2, EntryChange
  <2> QED BY <2>1
<1> HIDE DEF u
<1>5. /\ Shape(v) /\ v.mrt = s.mrt /\ v.rec = s.rec /\ DirTyped(v)
      /\ \A a : a # r => Entries(v, a) = Entries(u, a) \ {f}
      /\ \A a : Entries(v, a) \subseteq Entries(u, a) \cup {f}
  <2>1. Shape(u) /\ DirTyped(u)
    BY <1>4
  <2>2. /\ Shape(v) /\ v.mrt = u.mrt /\ v.rec = u.rec /\ DirTyped(v)
        /\ \A a : a # r => Entries(v, a) = Entries(u, a) \ {<<q, m>>}
        /\ \A a : Entries(v, a) \subseteq Entries(u, a) \cup {<<q, m>>}
    BY <2>1, EntryChange
  <2> QED BY <1>4, <2>2
<1> HIDE DEF v
<1>6. 0 \notin Rec
  BY FilesAssumption
<1>7. Cardinality(Entries(v, r)) <= Cardinality(Entries(s, r))
  <2>1. Cardinality(Entries(u, r)) = Cardinality(Entries(s, r)) - 1
    BY <1>2, <1>3, <1>4, EntriesFinite, FS_RemoveElement
  <2> DEFINE B == Entries(u, r) \cup {f}
  <2>2. IsFiniteSet(Entries(u, r)) /\ IsFiniteSet(B) /\ Cardinality(B) <= Cardinality(Entries(u, r)) + 1
    <3>1. IsFiniteSet(Entries(u, r)) /\ Cardinality(Entries(u, r)) \in Nat
      BY EntriesFinite
    <3>2. IsFiniteSet(B) /\ Cardinality(B) = IF f \in Entries(u, r) THEN Cardinality(Entries(u, r))
                                            ELSE Cardinality(Entries(u, r)) + 1
      BY <3>1, FS_AddElement
    <3> QED BY <3>1, <3>2
  <2>3. Cardinality(Entries(v, r)) <= Cardinality(B)
    BY <1>5, <2>2, FS_Subset
  <2>4. /\ Cardinality(Entries(u, r)) \in Nat /\ Cardinality(Entries(s, r)) \in Nat
        /\ Cardinality(Entries(v, r)) \in Nat /\ Cardinality(B) \in Nat
    BY <2>2, EntriesFinite, FS_CardinalityType
  <2> QED BY <2>1, <2>2, <2>3, <2>4
<1>8. ASSUME NEW w, w \in {u, v} PROVE DirOk(w)
  <2>1. DirTyped(w) /\ w.mrt = s.mrt /\ w.rec = s.rec
    BY <1>4, <1>5, <1>8
  <2>2. ASSUME NEW a \in Rec \ {root_record_id} PROVE Leads(w, a)
    <3>1. Leads(s, a) /\ s.rec[a].links \in Nat
      BY DEF DirOk, DirTyped
    <3>2. (record_read(s, a) => record_read(w, a)) /\ w.rec[a].links = s.rec[a].links
      BY <2>1 DEF record_read, mrt_resolve
    <3>3. CASE w = u \/ a # r
      <4>1. a # 0
        BY <1>6
      <4>2. Entries(w, a) \subseteq Entries(s, a)
        BY <1>4, <1>5, <1>8, <3>3, <4>1
      <4> QED BY <3>1, <3>2, <4>2, NameKept
    <3>4. CASE w = v /\ a = r
      <4>1. Cardinality(Entries(s, r)) <= s.rec[r].links
        BY <1>3, <3>1, <3>4 DEF Leads
      <4>2. Cardinality(Entries(v, r)) \in Nat /\ Cardinality(Entries(s, r)) \in Nat
        BY EntriesFinite
      <4>3. Cardinality(Entries(v, r)) <= s.rec[r].links
        BY <1>7, <3>1, <3>4, <4>1, <4>2
      <4>4. record_read(w, r)
        BY <3>2, <3>4
      <4> QED BY <3>2, <3>4, <4>3, <4>4 DEF Leads
    <3> QED BY <1>8, <3>3, <3>4
  <2> QED BY <2>1, <2>2 DEF DirOk
<1>9. DirOk(u) /\ DirOk(v)
  BY <1>8
<1>10. DirOk(T)
  <2>1. SameRecord(s.rec[r], x)
    <3>1. RecordOk(s.rec[r])
      BY <1>2 DEF VolumeOk
    <3> QED BY <3>1 DEF RecordOk, record_add_attr, SameRecord
  <2> HIDE DEF x
  <2>2. T.mrt = v.mrt /\ T.dir = v.dir /\ T.rec = [v.rec EXCEPT ![r] = x]
    BY <1>5 DEF record_write, Shape
  <2> HIDE DEF T
  <2>3. \A a \in Rec : T.rec[a] = IF a = r THEN x ELSE v.rec[a]
    BY <1>2, <1>5, <2>2 DEF VolumeOk
  <2>4. \A a \in Rec : SameRecord(v.rec[a], T.rec[a])
    BY <1>5, <2>1, <2>3 DEF SameRecord
  <2>5. SameNames(v, T)
    BY <2>2, <2>4 DEF SameNames, SameRecord, record_read, mrt_resolve
  <2> QED BY <1>9, <2>5, DirSame
<1> QED BY <1>9, <1>10

\* smkfs_link: a link for the new name.
LEMMA LinkDir ==
    ASSUME NEW s, Good(s), DirOk(s), NEW from, NEW to, NEW room
    PROVE  DirOk(smkfs_link(s, from, to, room))
<1> DEFINE r == path_lookup(s, from)
           d == SplitDir(s, to)
           n == SplitName(to)
           u == [s EXCEPT !.dir[d][n] = r]
           x == [s.rec[r] EXCEPT !.links = @ + 1]
           T == [s EXCEPT !.dir[d][n] = r, !.rec[r].links = @ + 1]
<1>1. smkfs_link(s, from, to, room) = s \/ (smkfs_link(s, from, to, room) = T /\ record_read(s, r))
  BY DEF smkfs_link
<1> HIDE DEF r, d, n
<1> SUFFICES ASSUME record_read(s, r) PROVE DirOk(T)
  BY <1>1
<1>2. r \in Rec /\ Shape(s) /\ DirTyped(s) /\ VolumeOk(s) /\ s.rec[r].links \in Nat
  BY DEF record_read, mrt_resolve, Good, VolumeOk, DirOk, DirTyped
<1>3. /\ Shape(u) /\ u.mrt = s.mrt /\ u.rec = s.rec /\ DirTyped(u)
      /\ \A q : q # r => Entries(u, q) = Entries(s, q) \ {<<d, n>>}
      /\ \A q : Entries(u, q) \subseteq Entries(s, q) \cup {<<d, n>>}
  BY <1>2, EntryChange
<1>4. T.dir = u.dir /\ T.mrt = s.mrt /\ T.rec = [s.rec EXCEPT ![r] = x]
  BY <1>2 DEF Shape
<1>5. /\ x.links = s.rec[r].links + 1 /\ x.type = s.rec[r].type /\ x.gen = s.rec[r].gen
      /\ x.attrs = s.rec[r].attrs
  <2>1. RecordOk(s.rec[r])
    BY <1>2 DEF VolumeOk
  <2> QED BY <2>1 DEF RecordOk
<1> HIDE DEF u, T, x
<1>6. T.rec[r] = x /\ \A q \in Rec \ {r} : T.rec[q] = s.rec[q]
  BY <1>2, <1>4 DEF VolumeOk
<1>7. \A q \in Rec : (record_read(T, q) <=> record_read(s, q)) /\ T.rec[q].attrs = s.rec[q].attrs
                      /\ T.rec[q].type = s.rec[q].type
  BY <1>4, <1>5, <1>6 DEF record_read, mrt_resolve
<1>8. \A q \in Rec : IsDir(T, q) <=> IsDir(u, q)
  BY <1>3, <1>7 DEF IsDir, record_read, mrt_resolve
<1>9. \A q : Entries(T, q) = Entries(u, q)
  BY <1>4, <1>8 DEF Entries
<1>10. DirTyped(T)
  <2>1. T.dir = [p \in Rec |-> [m \in NameOf |-> T.dir[p][m]]]
    BY <1>3, <1>4 DEF DirTyped
  <2>2. ASSUME NEW q \in Rec PROVE T.rec[q].links \in Nat
    <3>1. CASE q = r
      BY <1>2, <1>5, <1>6, <3>1
    <3>2. CASE q # r
      BY <1>2, <1>6, <3>2 DEF DirTyped
    <3> QED BY <3>1, <3>2
  <2>3. \A q \in Rec : "DATA" \in T.rec[q].attrs => T.rec[q].type = "dir"
    BY <1>2, <1>7 DEF DirTyped
  <2> QED BY <2>1, <2>2, <2>3 DEF DirTyped
<1>11. ASSUME NEW q \in Rec \ {root_record_id} PROVE Leads(T, q)
  <2>1. Leads(s, q) /\ s.rec[q].links \in Nat
    BY DEF DirOk, DirTyped
  <2>2. CASE q # r
    <3>1. Entries(T, q) \subseteq Entries(s, q)
      BY <1>3, <1>9, <2>2
    <3>2. T.rec[q].links = s.rec[q].links
      BY <1>6, <2>2
    <3> QED BY <1>7, <2>1, <3>1, <3>2, NameKept
  <2>3. CASE q = r
    <3> DEFINE B == Entries(s, r) \cup {<<d, n>>}
    <3>1. IsFiniteSet(Entries(s, r)) /\ Cardinality(Entries(s, r)) \in Nat
      BY EntriesFinite
    <3>2. IsFiniteSet(B) /\ (Cardinality(B) = Cardinality(Entries(s, r)) \/ Cardinality(B) = Cardinality(Entries(s, r)) + 1)
      BY <3>1, FS_AddElement
    <3>3. Cardinality(Entries(T, r)) <= Cardinality(B) /\ Cardinality(Entries(T, r)) \in Nat
      BY <1>3, <1>9, <3>2, FS_Subset, EntriesFinite
    <3>4. Cardinality(Entries(s, r)) <= s.rec[r].links
      BY <2>1, <2>3, <3>1, FS_EmptySet DEF Leads
    <3> HIDE DEF B
    <3>5. Cardinality(Entries(T, r)) <= T.rec[r].links
      BY <1>2, <1>5, <1>6, <3>1, <3>2, <3>3, <3>4
    <3>6. record_read(T, r)
      BY <1>2, <1>7
    <3> QED BY <2>3, <3>5, <3>6 DEF Leads
  <2> QED BY <2>2, <2>3
<1> QED BY <1>10, <1>11 DEF DirOk

\* The inductive invariant for names.
LinksInv == FilesInv /\ DirOk(fs)

\* Every call keeps a link for each name.
LEMMA NamesStep == LinksInv /\ (Names \/ Descriptors \/ RecordCalls) => DirOk(fs')
<1> SUFFICES ASSUME LinksInv, Names \/ Descriptors \/ RecordCalls PROVE DirOk(fs')
  OBVIOUS
<1>1. Good(fs) /\ TableOk /\ DirOk(fs)
  BY DEF LinksInv, FilesInv
<1>2. ASSUME NEW s, Call(s), DirOk(s) PROVE DirOk(fs')
  <2>1. fs' = s
    BY <1>2 DEF Call
  <2> QED BY <1>2, <2>1
<1>3. ASSUME NEW s, SameNames(fs, s), fs' = s PROVE DirOk(fs')
  <2>1. DirOk(s)
    BY <1>1, <1>3, DirSame
  <2> QED BY <1>3, <2>1
<1>4. Length \subseteq Nat /\ \A o \in Offset : o \in Nat
  BY FilesAssumption DEF Offset
<1>5. CASE Names
  <2>1. PICK p \in Path, room \in BOOLEAN :
          \/ Remove_(p) \/ Unlink(p) \/ ChangeAttr(p)
          \/ CreateFile(p, room) \/ MakeDir(p, room)
          \/ \E q \in Path : Link(p, q, room) \/ Rename(p, q, room)
    BY <1>5 DEF Names
  <2>2. DirOk(smkfs_create_file(fs, p, room)) /\ DirOk(smkfs_mkdir(fs, p, room))
    BY <1>1, CreateFileDir
  <2>3. DirOk(RemovePath(fs, p)) /\ DirOk(smkfs_unlink(fs, p))
    BY <1>1, RemoveDir
  <2>4. CASE CreateFile(p, room) \/ MakeDir(p, room)
    BY <1>2, <2>2, <2>4 DEF CreateFile, MakeDir
  <2>5. CASE Remove_(p) \/ Unlink(p)
    BY <1>2, <2>3, <2>5 DEF Remove_, Unlink
  <2>6. CASE ChangeAttr(p)
    <3>1. PICK a \in {"PERMISSIONS", "OWNER"} : Call(smkfs_setattr(fs, path_lookup(fs, p), a))
      BY <2>6 DEF ChangeAttr
    <3>2. a # "DATA"
      OBVIOUS
    <3> DEFINE r == path_lookup(fs, p)
    <3>3. fs' = smkfs_setattr(fs, r, a)
      BY <3>1 DEF Call
    <3> HIDE DEF r
    <3>4. SameNames(fs, smkfs_setattr(fs, r, a))
      BY <1>1, <3>2, SetattrGood
    <3> QED BY <1>3, <3>3, <3>4
  <2>7. ASSUME NEW q \in Path, Link(p, q, room) PROVE DirOk(fs')
    <3>1. DirOk(smkfs_link(fs, p, q, room))
      BY <1>1, LinkDir
    <3> QED BY <1>2, <2>7, <3>1 DEF Link
  <2>8. ASSUME NEW q \in Path, Rename(p, q, room) PROVE DirOk(fs')
    <3> DEFINE a == SplitDir(fs, p)
               n == SplitName(p)
               b == SplitDir(fs, q)
               m == SplitName(q)
               r == path_lookup(fs, p)
    <3>1. /\ Call(smkfs_rename(fs, a, n, b, m, r, room))
          /\ r # 0 /\ smkfs_lookup_by_name(fs, a, n) = r
      BY <2>8 DEF Rename
    <3>2. n \in NameOf
      BY PathStep
    <3> HIDE DEF a, n, b, m, r
    <3>3. fs.dir[a][n] = r
      BY <3>1 DEF smkfs_lookup_by_name
    <3>4. DirOk(smkfs_rename(fs, a, n, b, m, r, room))
      BY <1>1, <3>1, <3>2, <3>3, RenameDir
    <3> QED BY <1>2, <3>1, <3>4
  <2> QED BY <2>1, <2>4, <2>5, <2>6, <2>7, <2>8
<1>6. CASE RecordCalls
  <2>1. PICK r \in Rec : \/ \E n \in Offset : Truncate(r, n)
                         \/ \E o \in Offset, n \in Length : Write(r, o, n) \/ Punch(r, o, n)
    BY <1>6 DEF RecordCalls
  <2>2. ASSUME NEW n \in Offset, Truncate(r, n) PROVE DirOk(fs')
    <3>1. SameNames(fs, smkfs_truncate(fs, want, r, n).fs)
      BY <1>1, TruncateGood
    <3> QED BY <1>3, <2>2, <3>1 DEF Truncate, OnRecord
  <2>3. ASSUME NEW o \in Offset, NEW n \in Length, Write(r, o, n) PROVE DirOk(fs')
    <3>1. SameNames(fs, smkfs_write(fs, want, r, o, n).fs)
      BY <1>1, <1>4, WriteGood
    <3> QED BY <1>3, <2>3, <3>1 DEF Write, OnRecord
  <2>4. ASSUME NEW o \in Offset, NEW n \in Length, Punch(r, o, n) PROVE DirOk(fs')
    <3>1. SameNames(fs, smkfs_punc_hole(fs, want, r, o, n).fs)
      BY <1>1, <1>4, PunchGood
    <3> QED BY <1>3, <2>4, <3>1 DEF Punch, OnRecord
  <2> QED BY <2>1, <2>2, <2>3, <2>4
<1>7. CASE Descriptors
  <2>1. PICK f \in Fd :
          \/ Close(f)
          \/ \E p \in Path, create, append, room \in BOOLEAN : Open(p, create, append, room)
          \/ \E n \in Length : ReadFile(f, n) \/ WriteFile(f, n)
          \/ \E w \in {"SET", "CUR", "END"}, o \in {-1, 0, BlockSize + 1} : Seek(f, w, o)
          \/ \E n \in Offset : FTruncate(f, n)
    BY <1>7 DEF Descriptors
  <2>2. CASE fs' = fs
    BY <1>1, <2>2
  <2>3. ASSUME NEW p \in Path, NEW create \in BOOLEAN, NEW append \in BOOLEAN, NEW room \in BOOLEAN,
               Open(p, create, append, room)
        PROVE  DirOk(fs')
    <3> DEFINE s == IF path_lookup(fs, p) = 0 /\ create THEN smkfs_create_file(fs, p, room) ELSE fs
    <3>1. Call(s)
      BY <2>3 DEF Open
    <3>2. DirOk(s)
      BY <1>1, CreateFileDir
    <3> HIDE DEF s
    <3> QED BY <1>2, <3>1, <3>2
  <2>4. ASSUME NEW n \in Length, WriteFile(f, n) PROVE DirOk(fs')
    <3> DEFINE r == fd_table[f].rec
               off == fd_table[f].off
               c == smkfs_write(fs, want, r, off, n)
    <3>1. fs' = c.fs
      BY <2>4 DEF WriteFile
    <3>2. off \in Nat /\ n \in Nat
      BY <1>1, <1>4 DEF TableOk, FdOk
    <3> HIDE DEF r, off
    <3>3. SameNames(fs, c.fs)
      BY <1>1, <3>2, WriteGood
    <3> HIDE DEF c
    <3> QED BY <1>3, <3>1, <3>3
  <2>5. ASSUME NEW n \in Offset, FTruncate(f, n) PROVE DirOk(fs')
    <3> DEFINE r == fd_table[f].rec
               c == smkfs_truncate(fs, want, r, n)
    <3>1. fs' = c.fs
      BY <2>5 DEF FTruncate
    <3> HIDE DEF r
    <3>2. SameNames(fs, c.fs)
      BY <1>1, TruncateGood
    <3> HIDE DEF c
    <3> QED BY <1>3, <3>1, <3>2
  <2>6. Close(f) => fs' = fs
    BY DEF Close
  <2>7. ASSUME NEW n, ReadFile(f, n) PROVE fs' = fs
    BY <2>7 DEF ReadFile
  <2>8. ASSUME NEW w, NEW o, Seek(f, w, o) PROVE fs' = fs
    BY <2>8 DEF Seek
  <2> QED BY <2>1, <2>2, <2>3, <2>4, <2>5, <2>6, <2>7, <2>8
<1> QED BY <1>5, <1>6, <1>7

\* Every name leads to a record with a link for it, so that removing a name never
\* takes the record from another, on a volume of any size.
THEOREM NamesLeadHolds == FilesSpec => []NamesLead
<1> DEFINE Step == Names \/ Descriptors \/ RecordCalls
<1>1. FilesInit => LinksInv
  <2> SUFFICES ASSUME FilesInit PROVE LinksInv
    OBVIOUS
  <2>1. fs = FormattedFs
    BY DEF FilesInit
  <2> QED BY <2>1, FilesInitInv, FormattedGood DEF LinksInv
<1>2. LinksInv /\ [Step]_fVars => LinksInv'
  <2>1. LinksInv /\ UNCHANGED fVars => LinksInv'
    BY DEF fVars, LinksInv, FilesInv, TableOk
  <2>2. LinksInv /\ Step => FilesInv'
    BY NamesInv, DescriptorsInv, RecordCallsInv DEF LinksInv
  <2>3. LinksInv /\ Step => DirOk(fs')
    BY NamesStep
  <2> QED BY <2>1, <2>2, <2>3 DEF LinksInv
<1>3. LinksInv => NamesLead
  BY DEF LinksInv, DirOk, Leads, Entries, NamesLead
<1> QED BY <1>1, <1>2, <1>3, PTL DEF FilesSpec
=============================================================================
