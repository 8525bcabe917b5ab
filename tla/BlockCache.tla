----------------------------- MODULE BlockCache -----------------------------
(***************************************************************************)
(* The per-mount write-back cache of SmKFS (fs/smkfs/bcache.c) and the     *)
(* block primitives above and below it (fs/smkfs/block.c).                 *)
(*                                                                         *)
(* The drive is an image of blocks, a block a row of NSectors sectors.     *)
(* disk_write_block writes sector after sector and stops at the first      *)
(* error; a sector whose command failed may have been written (the cache   *)
(* flush that follows the transfer can be what failed).  Nothing in SmKFS  *)
(* runs concurrently, so each call is one step; what a power failure can   *)
(* interrupt is the writing of sectors, which Crash leaves half done.      *)
(***************************************************************************)
EXTENDS Integers

CONSTANTS
    Block,      \* block numbers
    Val,        \* contents of one sector
    NSlots,     \* SMKFS_CACHE_SLOTS
    NSectors    \* SMKFS_BLOCK_SIZE / sector_size

ASSUME SizesAssumption == NSlots \in Nat \ {0} /\ NSectors \in Nat \ {0}

VARIABLES
    cache,      \* mnt->block_cache, indexed by slot
    disk,       \* the drive
    up,         \* mnt->block_cache is allocated
    status,     \* what the last call returned; "flushed" for a flush that is OK
    buf         \* the caller's buffer of the last read_block

vars == <<cache, disk, up, status, buf>>

Slot == 0 .. NSlots - 1
Sector == 0 .. NSectors - 1
Data == [Sector -> Val]

\* _SMKFS_BLOCK_BUF.
BlockBuf == [valid : BOOLEAN, dirty : BOOLEAN, block : Block, data : Data]

\* Mutation: a transfer that is cut short also cuts the buffer short.
Torn_Short(n, new, old) == [s \in 0 .. n - 1 |-> new[s]]

\* The first n sectors of new over the rest of old.
Torn(n, new, old) == [s \in Sector |-> IF s < n THEN new[s] ELSE old[s]]

\* The least slot of a non-empty set: what the search loops find first.
First(S) == CHOOSE i \in S : \A j \in S : i <= j

\* The slots that hold block b.
Holding(b) == {i \in Slot : cache[i].valid /\ cache[i].block = b}

Invalid == {i \in Slot : ~cache[i].valid}
Clean == {i \in Slot : ~cache[i].dirty}
Dirty == {i \in Slot : cache[i].valid /\ cache[i].dirty}

\* The slot a miss fills: a free one, else a clean one, else slot 0.
Victim == CASE Invalid # {} -> First(Invalid)
            [] Invalid = {} /\ Clean # {} -> First(Clean)
            [] OTHER -> 0

\* The victim has to be written back before it is reused.
MustEvict == Invalid = {} /\ Clean = {}

-----------------------------------------------------------------------------
Init ==
    /\ disk \in [Block -> Data]
    /\ cache \in [Slot -> BlockBuf]
    /\ \A i \in Slot : ~cache[i].valid /\ ~cache[i].dirty
    /\ up = FALSE
    /\ status = "ok"
    /\ buf \in Data

\* block_cache_init: every slot invalid, whatever an earlier attempt to
\* mount left in it.  (The buffers' contents are not cleared.)
CacheInit ==
    /\ up' = TRUE
    /\ cache' = [i \in Slot |->
                    [cache[i] EXCEPT !.valid = FALSE, !.dirty = FALSE]]
    /\ UNCHANGED <<disk, status, buf>>

\* Mutation: the failed write-back still clears the dirty flag.
EvictFails_Clean(n) ==
    /\ MustEvict
    /\ disk' = [disk EXCEPT ![cache[0].block] =
                    Torn(n, cache[0].data, disk[cache[0].block])]
    /\ cache' = [cache EXCEPT ![0].dirty = FALSE]

\* The write-back of the victim fails after n sectors: the slot keeps its
\* block and stays dirty, and the lookup is given up.
EvictFails(n) ==
    /\ MustEvict
    /\ disk' = [disk EXCEPT ![cache[0].block] =
                    Torn(n, cache[0].data, disk[cache[0].block])]
    /\ cache' = cache

\* The drive after the victim, if dirty, has been written back.
Evicted ==
    IF MustEvict
    THEN [disk EXCEPT ![cache[0].block] = cache[0].data]
    ELSE disk

\* The read into the victim fails after n sectors: the slot is lost.
FillFails(b, n) ==
    /\ disk' = Evicted
    /\ cache' = [cache EXCEPT ![Victim] =
                    [valid |-> FALSE,
                     dirty |-> cache[Victim].dirty /\ ~MustEvict,
                     block |-> cache[Victim].block,
                     data  |-> Torn(n, Evicted[b], cache[Victim].data)]]

\* block_cache_read on a miss, when the drive does not fail; w is what the
\* caller then leaves in the buffer, dirty says whether it marks it.
Fill(b, w, dirty) ==
    /\ disk' = Evicted
    /\ cache' = [cache EXCEPT ![Victim] =
                    [valid |-> TRUE, dirty |-> dirty, block |-> b, data |-> w]]

\* block_cache_read fails: only a miss touches the drive.
LookupFails(b) ==
    /\ Holding(b) = {}
    /\ \/ \E n \in 0 .. NSectors : EvictFails(n)
       \/ \E n \in 0 .. NSectors - 1 : FillFails(b, n)
    /\ status' = "io"

\* read_block, the block being in the cache.
ReadHit(b) ==
    /\ up
    /\ Holding(b) # {}
    /\ buf' = cache[First(Holding(b))].data
    /\ status' = "ok"
    /\ UNCHANGED <<cache, disk, up>>

\* read_block, the block being fetched from the drive.
ReadMiss(b) ==
    /\ up
    /\ Holding(b) = {}
    /\ Fill(b, Evicted[b], FALSE)
    /\ buf' = Evicted[b]
    /\ status' = "ok"
    /\ up' = up

\* read_block or write_block gives up before it copies anything.
AccessFails(b) ==
    /\ up
    /\ LookupFails(b)
    /\ UNCHANGED <<up, buf>>

\* write_block, the block being in the cache: overwritten and marked dirty.
WriteHit(b, d) ==
    /\ up
    /\ Holding(b) # {}
    /\ cache' = [cache EXCEPT ![First(Holding(b))] =
                    [@ EXCEPT !.data = d, !.dirty = TRUE]]
    /\ status' = "ok"
    /\ UNCHANGED <<disk, up, buf>>

\* write_block on a miss: the block is fetched first, then overwritten.
WriteMiss(b, d) ==
    /\ up
    /\ Holding(b) = {}
    /\ Fill(b, d, TRUE)
    /\ status' = "ok"
    /\ UNCHANGED <<up, buf>>

\* The drive after n[i] sectors of every dirty slot i have been written.
\* The slot that holds a dirty block is unique (OneSlotPerBlock).
Written(n) ==
    [b \in Block |->
        IF Holding(b) \cap Dirty = {} THEN disk[b]
        ELSE LET i == First(Holding(b) \cap Dirty)
             IN  Torn(n[i], cache[i].data, disk[b])]

\* The slots whose write-back reports success: all their sectors are written.
Flushes(n, done) ==
    /\ done \subseteq Dirty
    /\ \A i \in done : n[i] = NSectors
    /\ disk' = Written(n)

\* Mutation: the loop forgets that a slot could not be written.
Flush_ForgetsError(n, done) ==
    /\ up
    /\ Flushes(n, done)
    /\ cache' = [i \in Slot |-> [cache[i] EXCEPT !.dirty = @ /\ i \notin done]]
    /\ status' = "flushed"
    /\ UNCHANGED <<up, buf>>

\* block_cache_flush: every dirty slot is tried; the ones that fail stay
\* dirty, the others are clean.
Flush(n, done) ==
    /\ up
    /\ Flushes(n, done)
    /\ cache' = [i \in Slot |-> [cache[i] EXCEPT !.dirty = @ /\ i \notin done]]
    /\ status' = IF done = Dirty THEN "flushed" ELSE "io"
    /\ UNCHANGED <<up, buf>>

\* block_cache_shutdown: a flush whose result nobody looks at, then the
\* cache is freed with whatever is still dirty in it.  The slots of a cache
\* allocated later hold anything; CacheInit invalidates them.
Shutdown(n, done) ==
    /\ up
    /\ Flushes(n, done)
    /\ up' = FALSE
    /\ cache' = [i \in Slot |->
                    [cache[i] EXCEPT !.valid = FALSE, !.dirty = FALSE]]
    /\ UNCHANGED <<status, buf>>

\* Power failure, possibly in the middle of a flush.
Crash(n) ==
    /\ up
    /\ disk' = Written(n)
    /\ up' = FALSE
    /\ cache' = [i \in Slot |->
                    [cache[i] EXCEPT !.valid = FALSE, !.dirty = FALSE]]
    /\ UNCHANGED <<status, buf>>

Progress == [Slot -> 0 .. NSectors]

Next ==
    \/ CacheInit
    \/ \E b \in Block : ReadHit(b) \/ ReadMiss(b) \/ AccessFails(b)
    \/ \E b \in Block, d \in Data : WriteHit(b, d) \/ WriteMiss(b, d)
    \/ \E n \in Progress, done \in SUBSET Slot :
            Flush(n, done) \/ Shutdown(n, done)
    \/ \E n \in Progress : Crash(n)

Spec == Init /\ [][Next]_vars

-----------------------------------------------------------------------------
(***************************************************************************)
(* Properties.                                                             *)
(***************************************************************************)

\* Type invariant of the cache and the drive.
TypeOK ==
    /\ cache \in [Slot -> BlockBuf]
    /\ disk \in [Block -> Data]
    /\ up \in BOOLEAN
    /\ status \in {"ok", "flushed", "io"}
    /\ buf \in Data

\* The lookup loop of block_cache_read and the fill at its end together
\* never give one block two buffers.
OneSlotPerBlock ==
    \A i, j \in Slot :
        cache[i].valid /\ cache[j].valid /\ cache[i].block = cache[j].block
            => i = j

\* A buffer that may be dropped without being written (valid, not dirty)
\* equals the drive, through failed reads, failed write-backs and flushes
\* of which only some slots succeeded.
CleanIsStable ==
    \A i \in Slot :
        cache[i].valid /\ ~cache[i].dirty => cache[i].data = disk[cache[i].block]

\* An invalid slot never carries a dirty flag: the eviction loop of
\* block_cache_read would otherwise skip it for ever.
InvalidIsClean == \A i \in Slot : ~cache[i].valid => ~cache[i].dirty

\* What every caller of the cache relies on after any sequence of calls,
\* failed ones included: buffers are unique per block, clean ones mirror the
\* drive, and a cache that has been freed holds nothing.
Coherent ==
    /\ OneSlotPerBlock
    /\ CleanIsStable
    /\ InvalidIsClean
    /\ ~up => Invalid = Slot

\* The image the file system sees: the buffer of a cached block, else the
\* drive.
Mem == [b \in Block |-> IF Holding(b) = {} THEN disk[b]
                        ELSE cache[First(Holding(b))].data]

Store == INSTANCE BlockStore WITH mem <- Mem, stable <- disk

\* The cache implements the block store: reads return the last write, a
\* failed call changes nothing the file system can see, a flush that reports
\* success has made everything stable, and a crash leaves every sector old
\* or new.
StoreSpec == Store!Spec
=============================================================================
