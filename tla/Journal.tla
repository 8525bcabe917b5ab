------------------------------- MODULE Journal -------------------------------
(***************************************************************************)
(* The redo journal of SmKFS (fs/smkfs/journal.c) with the mount, sync and *)
(* unmount that drive it (fs/smkfs/super.c) and the two ways its callers   *)
(* log a change: records and B+ tree nodes are logged and then written     *)
(* (record_write), MRT entries and bitmap bits are written and then logged *)
(* (mrt_update_entry, bitmap_alloc_range).                                 *)
(*                                                                         *)
(* Below it lies a block store (module BlockStore), which may make a block *)
(* stable at any time: what the drive holds of a block is any content the  *)
(* block has had since the last flush, and a power failure shows which.    *)
(* A block that spans sectors may be torn; the superblock (320 bytes), MRT *)
(* entries, bitmap bits and journal entries other than WRITE lie within    *)
(* one sector and are not.                                                 *)
(*                                                                         *)
(* A metadata cell's content is abstracted to the number of the            *)
(* transaction that wrote it.                                              *)
(***************************************************************************)
EXTENDS Integers, FiniteSets

CONSTANTS
    Rec,        \* cells logged as WRITE: record blocks, B+ tree nodes
    Mrt,        \* cells logged as MRT_UPDATE: MRT entries
    Bit,        \* cells logged as ALLOC or FREE: bitmap bits
    L,          \* sb.journal_length
    MaxFaults,  \* bound: failures of the drive and the allocator
    MaxCrashes, \* bound: power failures
    MaxTx,      \* bound: transactions started
    MaxSeq      \* bound: journal sequence numbers

ASSUME LengthAssumption == L \in Nat /\ L >= 2
ASSUME CellAssumption == 0 \notin Rec \cup Mrt \cup Bit
ASSUME BoundAssumption ==
    {MaxFaults, MaxCrashes, MaxTx, MaxSeq} \subseteq Nat /\ MaxSeq >= 1

VARIABLES
    cell,       \* the metadata cells: mem, their contents, and may, the
                \* contents the drive may hold
    slot,       \* the journal blocks, likewise
    sblk,       \* the superblock's journal fields in block 0, likewise
    sb,         \* mnt->sb: head, tail, seq
    nextSeq,    \* mnt->journal_next_sequence
    inTx,       \* mnt->journal_in_transaction
    orphan,     \* the caller that opened the transaction has returned
    up,         \* mnt->mounted
    pc,         \* where the running call is, "idle" between calls
    arg,        \* the cell the running call changes, with its old content
    why,        \* who called journal_checkpoint
    tx,         \* number of the last transaction started
    faults,     \* faults so far
    crashes,    \* power failures so far
    forced,     \* history: an unmount carried on after its checkpoint failed
    acked,      \* history: the cells as of the last commit that returned OK
    unsettled,  \* history: cells changed since
    logged      \* history: transactions whose COMMIT entry was written

vars == <<cell, slot, sblk, sb, nextSeq, inTx, orphan, up, pc, arg, why, tx,
          faults, crashes, forced, acked, unsettled, logged>>
history == <<forced, acked, unsettled, logged>>

Cell == Rec \cup Mrt \cup Bit
Slot == 0 .. L - 1
Torn == -1
Val == 0 .. MaxTx
CellVal == Val \cup {Torn}

NoArg == [cell |-> 0, old |-> 0]

Blank == [op |-> "BLANK", cell |-> 0, val |-> 0, seq |-> 0]
TornEntry == [Blank EXCEPT !.op = "TORN"]
Marker(op, s) == [op |-> op, cell |-> 0, val |-> 0, seq |-> s]
Update(c, s) == [op |-> IF c \in Rec THEN "WRITE" ELSE "UPDATE",
                 cell |-> c, val |-> tx, seq |-> s]

\* Whether a call of the drive or the allocator fails in a step.
Fine == faults' = faults
Fault == faults < MaxFaults /\ faults' = faults + 1

\* Mutation: the position does not wrap around.
NextPos_NoWrap(p) == p + 1

\* journal_next_pos.
NextPos(p) == (p + 1) % L

\* journal_is_full.
Full == NextPos(sb.head) = sb.tail

-----------------------------------------------------------------------------
(***************************************************************************)
(* The block store below.                                                  *)
(***************************************************************************)

\* write_block.
WriteCell(c, v) ==
    [mem |-> [cell.mem EXCEPT ![c] = v],
     may |-> [cell.may EXCEPT ![c] = @ \cup {v} \cup (IF c \in Rec THEN {Torn} ELSE {})]]
WriteSlot(i, e) ==
    [mem |-> [slot.mem EXCEPT ![i] = e],
     may |-> [slot.may EXCEPT ![i] =
                @ \cup {e} \cup (IF e.op = "WRITE" THEN {TornEntry} ELSE {})]]
WriteSuper(s) == [mem |-> s, may |-> sblk.may \cup {s}]

\* block_cache_flush succeeds: the drive holds what the cache holds.  (One
\* that fails leaves what the drive holds open.)
Flushed(img) == [mem |-> img.mem, may |-> [i \in DOMAIN img.mem |-> {img.mem[i]}]]
FlushedSuper == [mem |-> sblk.mem, may |-> {sblk.mem}]

\* What a power failure, or an end of the mount without a flush, leaves.
Choices(may) ==
    {f \in [DOMAIN may -> UNION {may[i] : i \in DOMAIN may}] :
        \A i \in DOMAIN may : f[i] \in may[i]}
Fallen(img) ==
    {[mem |-> f, may |-> [i \in DOMAIN img.may |-> {f[i]}]] : f \in Choices(img.may)}
FallenSuper == {[mem |-> s, may |-> {s}] : s \in sblk.may}

\* No call is running any more and the next mount sets the other fields.
Down ==
    /\ up' = FALSE
    /\ pc' = "idle"
    /\ sb' = sblk'.mem
    /\ nextSeq' = sblk'.mem.seq
    /\ arg' = NoArg
    /\ why' = "sync"

-----------------------------------------------------------------------------
(***************************************************************************)
(* Journal entries.                                                        *)
(***************************************************************************)

\* Mutation: the sequence number is not advanced.
Append_SameSeq(e) ==
    /\ ~Full
    /\ slot' = WriteSlot(sb.head, e)
    /\ nextSeq' = nextSeq

\* journal_write_entry: the entry goes to the head, unless the journal is
\* full.  The caller advances sb.head in the same step.
Append(e) ==
    /\ ~Full
    /\ nextSeq < MaxSeq
    /\ slot' = WriteSlot(sb.head, e)
    /\ nextSeq' = nextSeq + 1

\* journal_write_entry fails: the journal is full, there is no memory, or the
\* block cannot be written, when a sequence number has already been used up.
AppendFails ==
    /\ slot' = slot
    /\ \/ Full /\ Fine /\ nextSeq' = nextSeq
       \/ Fault /\ nextSeq' = nextSeq
       \/ Fault /\ ~Full /\ nextSeq < MaxSeq /\ nextSeq' = nextSeq + 1

Advanced == [sb EXCEPT !.head = NextPos(@)]

-----------------------------------------------------------------------------
(***************************************************************************)
(* Changing metadata inside a transaction.                                 *)
(***************************************************************************)

\* The running operation has a transaction open.
InCall == up /\ pc = "idle" /\ inTx /\ ~orphan

\* No call is running.
NoCall == up /\ pc = "idle" /\ (~inTx \/ orphan)

\* record_write (and btree_store): journal_log_write first ...
LogWrite(c) ==
    /\ InCall
    /\ Append(Update(c, nextSeq))
    /\ sb' = Advanced
    /\ pc' = "place"
    /\ arg' = [cell |-> c, old |-> cell.mem[c]]
    /\ unsettled' = unsettled \cup {c}
    /\ UNCHANGED <<cell, sblk, inTx, orphan, up, why, tx, faults, crashes,
                   forced, acked, logged>>

\* ... and on failure the record is not touched ...
LogWriteFails ==
    /\ InCall
    /\ AppendFails
    /\ UNCHANGED <<cell, sblk, sb, inTx, orphan, up, pc, arg, why, tx, crashes,
                   history>>

\* ... then write_block in place, which may fail with the entry logged.
PlaceWrite ==
    /\ up /\ pc = "place"
    /\ \/ Fine /\ cell' = WriteCell(arg.cell, tx)
       \/ Fault /\ cell' = cell
    /\ pc' = "idle"
    /\ arg' = NoArg
    /\ UNCHANGED <<slot, sblk, sb, nextSeq, inTx, orphan, up, why, tx, crashes,
                   history>>

\* mrt_alloc_entry, mrt_update_entry, mrt_free_entry, bitmap_alloc_range and
\* bitmap_free_range: write_block in place first ...
PlaceUpdate(c) ==
    /\ InCall
    /\ cell' = WriteCell(c, tx)
    /\ pc' = "log"
    /\ arg' = [cell |-> c, old |-> cell.mem[c]]
    /\ unsettled' = unsettled \cup {c}
    /\ UNCHANGED <<slot, sblk, sb, nextSeq, inTx, orphan, up, why, tx, faults,
                   crashes, forced, acked, logged>>

\* ... then the log entry ...
LogUpdate ==
    /\ up /\ pc = "log"
    /\ Append(Update(arg.cell, nextSeq))
    /\ sb' = Advanced
    /\ pc' = "idle"
    /\ arg' = NoArg
    /\ UNCHANGED <<cell, sblk, inTx, orphan, up, why, tx, faults, crashes,
                   history>>

\* ... and if that fails the old content is written back; nobody looks at
\* whether that write succeeds.
UndoUpdate ==
    /\ up /\ pc = "log"
    /\ AppendFails
    /\ \/ cell' = WriteCell(arg.cell, arg.old)
       \/ faults' # faults /\ cell' = cell
    /\ pc' = "idle"
    /\ arg' = NoArg
    /\ UNCHANGED <<sblk, sb, inTx, orphan, up, why, tx, crashes, history>>

-----------------------------------------------------------------------------
(***************************************************************************)
(* Transactions.                                                           *)
(***************************************************************************)

\* journal_start_transaction, the journal being empty.
Start ==
    /\ NoCall /\ ~inTx
    /\ sb.head = sb.tail
    /\ tx < MaxTx
    /\ inTx' = TRUE
    /\ tx' = tx + 1
    /\ UNCHANGED <<cell, slot, sblk, sb, nextSeq, orphan, up, pc, arg, why,
                   faults, crashes, history>>

\* journal_commit: the COMMIT entry.  From here the transaction is closed,
\* whatever becomes of the flushes below.
Commit ==
    /\ InCall
    /\ Append(Marker("COMMIT", nextSeq))
    /\ sb' = [Advanced EXCEPT !.seq = nextSeq + 1]
    /\ inTx' = FALSE
    /\ pc' = "c_flush"
    /\ logged' = logged \cup {tx}
    /\ UNCHANGED <<cell, sblk, orphan, up, arg, why, tx, faults, crashes,
                   forced, acked, unsettled>>

\* The COMMIT entry cannot be written: journal_commit returns an error with
\* the transaction still open, and no caller of it calls journal_abort.
CommitRefused ==
    /\ InCall
    /\ AppendFails
    /\ orphan' = TRUE
    /\ UNCHANGED <<cell, sblk, sb, inTx, up, pc, arg, why, tx, crashes,
                   history>>

\* Mutation: the new head is published without the flush before it.
CommitFlush_Skip ==
    /\ up /\ pc = "c_flush"
    /\ Fine
    /\ sblk' = WriteSuper(sb)
    /\ pc' = "c_publish"
    /\ UNCHANGED <<cell, slot, sb, nextSeq, inTx, orphan, up, arg, why, tx,
                   crashes, history>>

\* The flush that must precede the new head, then the superblock with the
\* new head is written to the cache (that may fail: the call is over).
CommitFlush ==
    /\ up /\ pc = "c_flush"
    /\ cell' = Flushed(cell)
    /\ slot' = Flushed(slot)
    /\ \/ Fine /\ sblk' = [mem |-> sb, may |-> {sblk.mem, sb}] /\ pc' = "c_publish"
       \/ Fault /\ sblk' = FlushedSuper /\ pc' = "idle"
    /\ UNCHANGED <<sb, nextSeq, inTx, orphan, up, arg, why, tx, crashes,
                   history>>

\* The head is stable.  The tail follows and is written to the cache.
CommitPublish ==
    /\ up /\ pc = "c_publish"
    /\ cell' = Flushed(cell)
    /\ slot' = Flushed(slot)
    /\ sb' = [sb EXCEPT !.tail = sb.head]
    /\ \/ Fine /\ sblk' = [mem |-> sb', may |-> {sblk.mem, sb'}] /\ pc' = "c_retire"
       \/ Fault /\ sblk' = FlushedSuper /\ pc' = "idle"
    /\ UNCHANGED <<nextSeq, inTx, orphan, up, arg, why, tx, crashes, history>>

\* The tail is stable: journal_commit returns SMKFS_OK.
CommitRetire ==
    /\ up /\ pc = "c_retire"
    /\ cell' = Flushed(cell)
    /\ slot' = Flushed(slot)
    /\ sblk' = FlushedSuper
    /\ pc' = "idle"
    /\ acked' = cell.mem
    /\ unsettled' = {}
    /\ UNCHANGED <<sb, nextSeq, inTx, orphan, up, arg, why, tx, faults,
                   crashes, forced, logged>>

\* A flush of journal_commit fails and the call returns an error.
CommitFails ==
    /\ Fault
    /\ up /\ pc \in {"c_flush", "c_publish", "c_retire"}
    /\ pc' = "idle"
    /\ UNCHANGED <<cell, slot, sblk, sb, nextSeq, inTx, orphan, up, arg, why,
                   tx, crashes, history>>

\* journal_abort, by the operation that failed.
Abort ==
    /\ InCall
    /\ inTx' = FALSE
    /\ UNCHANGED <<cell, slot, sblk, sb, nextSeq, orphan, up, pc, arg, why, tx,
                   faults, crashes, history>>

\* smkfs_link calls journal_abort whenever it gives up, its own transaction
\* open or not: that also closes one that a failed commit left open.
AbortOrphan ==
    /\ NoCall /\ orphan
    /\ inTx' = FALSE
    /\ orphan' = FALSE
    /\ UNCHANGED <<cell, slot, sblk, sb, nextSeq, up, pc, arg, why, tx, faults,
                   crashes, history>>

-----------------------------------------------------------------------------
(***************************************************************************)
(* Checkpoints.                                                            *)
(***************************************************************************)

\* journal_checkpoint is called by journal_start_transaction when entries
\* are left in the journal, by smkfs_sync and by smkfs_unmount.
Checkpoint(w) ==
    /\ NoCall /\ ~inTx
    /\ w = "start" => sb.head # sb.tail /\ tx < MaxTx
    /\ pc' = "k_flush"
    /\ why' = w
    /\ UNCHANGED <<cell, slot, sblk, sb, nextSeq, inTx, orphan, up, arg, tx,
                   faults, crashes, history>>

\* The CHECKPOINT marker, at the head of a journal just emptied.
Mark ==
    /\ nextSeq < MaxSeq
    /\ LET e == Marker("CHECKPOINT", nextSeq)
       IN  slot' = [mem |-> [slot.mem EXCEPT ![sb.head] = e],
                    may |-> [i \in Slot |-> {slot.mem[i]} \cup
                                IF i = sb.head THEN {e} ELSE {}]]
    /\ nextSeq' = nextSeq + 1
    /\ sb' = [head |-> NextPos(sb.head), tail |-> NextPos(sb.head), seq |-> nextSeq + 1]

MarkFails ==
    /\ slot' = Flushed(slot)
    /\ nextSeq' \in {nextSeq, nextSeq + 1} /\ nextSeq' <= MaxSeq
    /\ sb' = [sb EXCEPT !.tail = sb.head]

\* The flush; leftover entries are dropped; the marker, if it can be written,
\* is dropped too; the superblock is written to the cache.
CheckpointFlush ==
    /\ up /\ pc = "k_flush"
    /\ cell' = Flushed(cell)
    /\ \/ Mark /\ Fine /\ pc' = "k_publish"
       \/ Mark /\ Fault /\ pc' = "k_failed"
       \/ MarkFails /\ Fault /\ pc' \in {"k_publish", "k_failed"}
    /\ sblk' = IF pc' = "k_publish" THEN [mem |-> sb', may |-> {sblk.mem, sb'}]
               ELSE FlushedSuper
    /\ UNCHANGED <<inTx, orphan, up, arg, why, tx, crashes, history>>

\* The superblock is stable: the checkpoint succeeds and its caller goes on.
CheckpointPublish ==
    /\ up /\ pc = "k_publish"
    /\ cell' = Flushed(cell)
    /\ slot' = Flushed(slot)
    /\ sblk' = FlushedSuper
    /\ acked' = cell.mem
    /\ unsettled' = {}
    /\ inTx' = (why = "start")
    /\ tx' = IF why = "start" THEN tx + 1 ELSE tx
    /\ pc' = IF why = "unmount" THEN "u_write" ELSE "idle"
    /\ why' = "sync"
    /\ UNCHANGED <<sb, nextSeq, orphan, up, arg, faults, crashes, forced,
                   logged>>

\* A flush of the checkpoint fails, or its write of the superblock to the
\* cache has: only smkfs_unmount carries on.
CheckpointFails ==
    /\ up
    /\ \/ pc \in {"k_flush", "k_publish"} /\ Fault
       \/ pc = "k_failed" /\ Fine
    /\ pc' = IF why = "unmount" THEN "u_write" ELSE "idle"
    /\ forced' = (forced \/ why = "unmount")
    /\ why' = "sync"
    /\ UNCHANGED <<cell, slot, sblk, sb, nextSeq, inTx, orphan, up, arg, tx,
                   crashes, acked, unsettled, logged>>

\* smkfs_unmount after a commit that left its transaction open: the
\* checkpoint refuses, the unmount carries on.
UnmountInTx ==
    /\ NoCall /\ orphan
    /\ pc' = "u_write"
    /\ forced' = TRUE
    /\ UNCHANGED <<cell, slot, sblk, sb, nextSeq, inTx, orphan, up, arg, why,
                   tx, faults, crashes, acked, unsettled, logged>>

\* The superblock with the CLEAN flag.
UnmountWrite ==
    /\ up /\ pc = "u_write"
    /\ \/ Fine /\ sblk' = WriteSuper(sb)
       \/ Fault /\ sblk' = sblk
    /\ pc' = "u_down"
    /\ UNCHANGED <<cell, slot, sb, nextSeq, inTx, orphan, up, arg, why, tx,
                   crashes, history>>

\* The end of a mount: the last flush is not looked at, the cache is freed.
\* (journal_in_transaction keeps its value in the mount structure, which the
\* next mount takes up again.)
UnmountDown ==
    /\ up /\ pc = "u_down"
    /\ \/ /\ Fine
          /\ cell' = Flushed(cell)
          /\ slot' = Flushed(slot)
          /\ sblk' = FlushedSuper
       \/ /\ Fault
          /\ cell' \in Fallen(cell)
          /\ slot' \in Fallen(slot)
          /\ sblk' \in FallenSuper
    /\ Down
    /\ UNCHANGED <<inTx, orphan, tx, crashes, history>>

-----------------------------------------------------------------------------
(***************************************************************************)
(* Crash and recovery.                                                     *)
(***************************************************************************)

\* Power failure: only what is stable remains.
Crash ==
    /\ up
    /\ crashes < MaxCrashes
    /\ crashes' = crashes + 1
    /\ cell' \in Fallen(cell)
    /\ slot' \in Fallen(slot)
    /\ sblk' \in FallenSuper
    /\ Down
    /\ inTx' = FALSE
    /\ orphan' = FALSE
    /\ UNCHANGED <<tx, faults, history>>

\* The journal positions from tail to head, counted from the tail, and the
\* entry at such a position, in the superblock s and the journal j.
Span(s) == 0 .. ((s.head - s.tail) % L) - 1
EntryAt(s, j, k) == j[(s.tail + k) % L]

Readable(s, j) ==
    \A k \in Span(s) : EntryAt(s, j, k).op \notin {"BLANK", "TORN"}

\* Pass 1 of journal_replay: the sequence numbers of the COMMIT entries.
CommitSeqs(s, j) ==
    {EntryAt(s, j, k).seq :
        k \in {i \in Span(s) : EntryAt(s, j, i).op = "COMMIT"}}

\* Pass 2: the positions of the entries for cell c that are redone.
RedoneAt(s, j, c) ==
    {k \in Span(s) :
        /\ EntryAt(s, j, k).op \in {"WRITE", "UPDATE"}
        /\ EntryAt(s, j, k).cell = c
        /\ \E q \in CommitSeqs(s, j) : EntryAt(s, j, k).seq <= q}

\* journal_redo_entry in journal order for the first n entries: what cell c
\* then holds, the last entry for it winning, if it held old before.
Redone(s, j, c, n, old) ==
    LET redone == {k \in RedoneAt(s, j, c) : k < n}
        last == {k \in redone : \A i \in redone : i <= k}
    IN  IF redone = {} THEN {old} ELSE {EntryAt(s, j, k).val : k \in last}

\* A cell whose block has been rewritten by the replay may also be torn.
MaybeTorn(s, j, c) ==
    IF c \in Rec /\ RedoneAt(s, j, c) # {} THEN {Torn} ELSE {}

\* A replay that a power failure or the drive cuts short: the volume stays
\* down, with every cell as it was, or as some entry already redone left it.
ReplayCut ==
    /\ ~up
    /\ Readable(sb, slot.mem)
    /\ cell' \in Fallen([may |-> [c \in Cell |->
                            MaybeTorn(sb, slot.mem, c) \cup
                            UNION {Redone(sb, slot.mem, c, n, cell.mem[c]) : n \in 0 .. L}]])
    /\ UNCHANGED <<slot, sblk, sb, nextSeq, inTx, orphan, up, pc, arg, why, tx,
                   faults, crashes, history>>

\* smkfs_mount: the superblock is read and the journal replayed.  A journal
\* with a corrupt entry makes the mount fail, and the volume stays down.  A
\* bit whose bitmap block cannot be read or written is passed over.  The tail
\* moves in memory only.
Mount ==
    /\ ~up
    /\ Readable(sb, slot.mem)
    /\ \E lost \in SUBSET Bit, img \in [Cell -> CellVal] :
        /\ IF lost = {} THEN Fine ELSE Fault
        /\ \A c \in Cell : img[c] \in IF c \in lost THEN {cell.mem[c]}
                                ELSE Redone(sb, slot.mem, c, L, cell.mem[c])
        /\ cell' = [mem |-> img,
                    may |-> [c \in Cell |-> cell.may[c] \cup {img[c]} \cup
                                MaybeTorn(sb, slot.mem, c)]]
    /\ sb' = [sb EXCEPT !.tail = sb.head]
    /\ up' = TRUE
    /\ pc' = IF Span(sb) = {} THEN "idle" ELSE "m_flush"
    /\ UNCHANGED <<slot, sblk, nextSeq, inTx, orphan, arg, why, tx, crashes,
                   history>>

\* The flush after a replay, whose outcome nobody looks at.
MountFlush ==
    /\ up /\ pc = "m_flush"
    /\ \/ Fine /\ cell' = Flushed(cell)
       \/ Fault /\ cell' = cell
    /\ pc' = "idle"
    /\ UNCHANGED <<slot, sblk, sb, nextSeq, inTx, orphan, up, arg, why, tx,
                   crashes, history>>

-----------------------------------------------------------------------------
\* A freshly made file system.
Init ==
    LET zero == [c \in Cell |-> 0]
        blank == [i \in Slot |-> Blank]
        s0 == [head |-> 0, tail |-> 0, seq |-> 1]
    IN  /\ cell = [mem |-> zero, may |-> [c \in Cell |-> {0}]]
        /\ slot = [mem |-> blank, may |-> [i \in Slot |-> {Blank}]]
        /\ sblk = [mem |-> s0, may |-> {s0}]
        /\ sb = s0
        /\ nextSeq = 1
        /\ inTx = FALSE
        /\ orphan = FALSE
        /\ up = FALSE
        /\ pc = "idle"
        /\ arg = NoArg
        /\ why = "sync"
        /\ tx = 0
        /\ faults = 0
        /\ crashes = 0
        /\ forced = FALSE
        /\ acked = zero
        /\ unsettled = {}
        /\ logged = {}

Next ==
    \/ \E c \in Rec : LogWrite(c)
    \/ LogWriteFails
    \/ PlaceWrite
    \/ \E c \in Mrt \cup Bit : PlaceUpdate(c)
    \/ LogUpdate
    \/ UndoUpdate
    \/ Start
    \/ Commit
    \/ CommitRefused
    \/ CommitFlush
    \/ CommitPublish
    \/ CommitRetire
    \/ CommitFails
    \/ Abort
    \/ AbortOrphan
    \/ \E w \in {"start", "sync", "unmount"} : Checkpoint(w)
    \/ CheckpointFlush
    \/ CheckpointPublish
    \/ CheckpointFails
    \/ UnmountInTx
    \/ UnmountWrite
    \/ UnmountDown
    \/ Crash
    \/ ReplayCut
    \/ Mount
    \/ MountFlush

Spec == Init /\ [][Next]_vars

-----------------------------------------------------------------------------
(***************************************************************************)
(* Properties.                                                             *)
(***************************************************************************)
Entry == [op : {"BLANK", "TORN", "WRITE", "UPDATE", "COMMIT", "CHECKPOINT"},
          cell : Cell \cup {0}, val : Val, seq : 0 .. MaxSeq]
Super == [head : Slot, tail : Slot, seq : 1 .. MaxSeq]

\* Type invariant of the journal, its blocks and the mount structure.
TypeOK ==
    /\ cell \in [mem : [Cell -> CellVal], may : [Cell -> SUBSET CellVal]]
    /\ slot \in [mem : [Slot -> Entry], may : [Slot -> SUBSET Entry]]
    /\ sblk \in [mem : Super, may : SUBSET Super]
    /\ sb \in Super
    /\ nextSeq \in 1 .. MaxSeq
    /\ inTx \in BOOLEAN
    /\ orphan \in BOOLEAN
    /\ up \in BOOLEAN
    /\ pc \in {"idle", "place", "log", "c_flush", "c_publish", "c_retire",
               "k_flush", "k_publish", "k_failed", "u_write", "u_down", "m_flush"}
    /\ arg \in [cell : Cell \cup {0}, old : CellVal]
    /\ faults \in 0 .. MaxFaults
    /\ crashes \in 0 .. MaxCrashes
    /\ forced \in BOOLEAN
    /\ why \in {"start", "sync", "unmount"}
    /\ tx \in Val
    /\ acked \in [Cell -> CellVal]
    /\ unsettled \subseteq Cell
    /\ logged \subseteq Val

\* Durability: what a commit (or checkpoint) that returned SMKFS_OK left in a
\* cell is what the drive holds and what the file system reads, until the
\* cell is changed again: through later transactions, aborted or failed
\* ones, wrap-around of the journal, crashes at any point and replays, cut
\* short or not.  Only an unmount that goes on after its checkpoint failed
\* ends this: it publishes a head whose entries may not be on the drive.
Durable ==
    ~forced =>
        \A c \in Cell \ unsettled :
            cell.mem[c] = acked[c] /\ cell.may[c] = {acked[c]}

\* The live part of the journal (tail to head) carries strictly increasing
\* sequence numbers that have all been used up: what lets journal_replay
\* tell entries before the last COMMIT from entries after it.
SeqOrdered ==
    up => \A k \in Span(sb) :
            /\ EntryAt(sb, slot.mem, k).seq < nextSeq
            /\ \A i \in 0 .. k - 1 :
                    EntryAt(sb, slot.mem, i).seq < EntryAt(sb, slot.mem, k).seq

\* "Metadata changes are atomic via journaling": after recovery no cell shows
\* a change of a transaction that did not get as far as its COMMIT entry.
AtomicRecovery ==
    [][~up /\ up' => \A c \in Cell : cell'.mem[c] = acked[c]
                                     \/ cell'.mem[c] \in logged]_vars

\* "Recover cleanly after unexpected shutdown": the journal a crash leaves
\* behind can be replayed, no slot between the tail and the head of the
\* superblock on the drive being blank or torn (unmounts of a volume that
\* cannot be checkpointed apart).
Recoverable == ~up /\ ~forced => Readable(sb, slot.mem)
=============================================================================
