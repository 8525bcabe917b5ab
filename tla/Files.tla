------------------------------- MODULE Files -------------------------------
(***************************************************************************)
(* SmKFS records, directories, files and descriptors: the metadata record  *)
(* table (mrt.c), records and their attributes (record.c, attr.c), extents *)
(* (extent.c), names and paths (dir.c, link.c, path.c), attributes by path *)
(* (inode.c) and file data (file.c).                                       *)
(*                                                                         *)
(* Operators take and return the whole file system fs, so that what an     *)
(* operation did before it failed stays done: journal_abort undoes         *)
(* nothing in memory.  A directory is the map that BTree implements.       *)
(* Calls run one at a time; disk errors are left out, and so is running    *)
(* out of memory except in btree_insert.  Running out of records, blocks   *)
(* or attribute space is not.                                              *)
(***************************************************************************)
EXTENDS Integers, Sequences, FiniteSets, SequencesExt

CONSTANTS
    Rec,            \* MRT slots that can be allocated (slot 0 is not one)
    DiskBlock,      \* data blocks
    Path,           \* paths: sequences of names; "" ends one with a slash
    FileBlocks,     \* logical blocks of the largest file
    BlockSize,      \* SMKFS_BLOCK_SIZE, in bytes
    AttrMax,        \* attributes that fit a record's block
    CollectMax,     \* extents that are gathered at a time (32 in the code)
    GenMax,         \* bound on the generation of an MRT slot
    LinkMax,        \* bound on a record's link count
    Length,         \* lengths of reads, writes and punches
    Fd              \* descriptors, 0 .. SMKFS_FD_MAX - 1

\* smkfs_mkfs has a slot and two blocks for the root, and 32 extents fit a
\* 4096-byte block with the other attributes.  path_split gives every path a
\* last name, which may be empty; names have a bounded length.
ASSUME FilesAssumption ==
    /\ Rec \subseteq Nat \ {0} /\ IsFiniteSet(Rec) /\ 1 \in Rec
    /\ DiskBlock \subseteq Nat \ {0} /\ \E b, c \in DiskBlock : b # c
    /\ {FileBlocks, BlockSize} \subseteq Nat \ {0} /\ {AttrMax, CollectMax, GenMax} \subseteq Nat
    /\ Length \subseteq Nat /\ CollectMax + 4 <= AttrMax
    /\ \A p \in Path : p # <<>> /\ p \in Seq(Range(p))
    /\ IsFiniteSet(UNION {Range(p) : p \in Path})

VARIABLES
    fs,             \* the file system
    fd_table,
    want            \* record -> bytes its file should have (history)

fVars == <<fs, fd_table, want>>

Byte == {0, 1}
Unknown == 2        \* a byte the code promises nothing about
Edge == 3           \* a 1 outside a punched range but in a block the range only touches
Offset == 0 .. FileBlocks * BlockSize - 1
NameOf == UNION {Range(p) : p \in Path}
root_record_id == 1

-----------------------------------------------------------------------------
(***************************************************************************)
(* The metadata record table.  block is 0 until the entry is bound.        *)
(***************************************************************************)
FreeSlots(s) == {r \in Rec : ~s.mrt[r].alloc}
mrt_free_entry(s, r) ==
    [s EXCEPT !.mrt[r] = [@ EXCEPT !.alloc = FALSE, !.block = 0], !.mrtFree = @ + 1]
mrt_alloc_entry(s, r) ==
    [s EXCEPT !.mrt[r] = [alloc |-> TRUE, block |-> 0, gen |-> @.gen + 1], !.mrtFree = @ - 1]
mrt_update_entry(s, r, b) == [s EXCEPT !.mrt[r].block = b]
mrt_resolve(s, r) == r \in Rec /\ s.mrt[r].alloc /\ s.mrt[r].block # 0

bitmap_alloc_(s) == IF s.free = {} THEN 0 ELSE Min(s.free)
Take(s, b) == [s EXCEPT !.free = @ \ {b}]
bitmap_free_range(s, b, n) == [s EXCEPT !.free = @ \cup b .. b + n - 1]

-----------------------------------------------------------------------------
(***************************************************************************)
(* Records.  attrs are the UNIQUE attributes present, ext the EXTENTS      *)
(* instances in buffer order.                                              *)
(***************************************************************************)
Blank == [type |-> "none", links |-> 0, gen |-> 0, parent |-> 0, data |-> 0,
          size |-> 0, attrs |-> {}, ext |-> <<>>]
Fits(rec) == Cardinality(rec.attrs) + Len(rec.ext) < AttrMax

\* record_add_attr of a UNIQUE attribute: the old instance goes first.
record_add_attr(rec, a) == [rec EXCEPT !.attrs = @ \cup {a}]
AddFits(rec, a) == Fits([rec EXCEPT !.attrs = @ \ {a}])

record_read(s, r) == mrt_resolve(s, r) /\ s.rec[r].gen = s.mrt[r].gen
record_write(s, r, rec) == [s EXCEPT !.rec[r] = rec]

\* record_alloc: id is 0 when there is no slot or no block for it.
record_alloc(s, type) ==
    LET r == Min(FreeSlots(s))
        b == bitmap_alloc_(s)
        a == mrt_alloc_entry(s, r)
        image == [Blank EXCEPT !.type = type, !.links = 1, !.gen = a.mrt[r].gen]
    IN  IF FreeSlots(s) = {} THEN [fs |-> s, id |-> 0]
        ELSE IF b = 0 THEN [fs |-> mrt_free_entry(a, r), id |-> 0]
        ELSE [fs |-> [record_write(mrt_update_entry(Take(a, b), r, b), r, image)
                        EXCEPT !.count = @ + 1],
              id |-> r]

Collected(ext) == SubSeq(ext, 1, IF Len(ext) < CollectMax THEN Len(ext) ELSE CollectMax)

extent_remove_all(s, r) ==
    [s EXCEPT !.free = @ \cup UNION {e.phys .. e.phys + e.cnt - 1 : e \in Range(Collected(s.rec[r].ext))}]

record_free(s, r) ==
    IF ~mrt_resolve(s, r) THEN s
    ELSE LET u == bitmap_free_range(extent_remove_all(s, r), s.mrt[r].block, 1)
         IN  [mrt_free_entry([u EXCEPT !.rec[r] = Blank], r) EXCEPT
                !.count = IF @ > 0 THEN @ - 1 ELSE @]

-----------------------------------------------------------------------------
(***************************************************************************)
(* Extents.                                                                *)
(***************************************************************************)
Covers(e, l) == l >= e.log /\ l < e.log + e.cnt
Mapped(rec, l) == \E i \in DOMAIN rec.ext : Covers(rec.ext[i], l)

\* extent_resolve: the block behind logical block l, the first match counts.
extent_resolve(rec, l) ==
    LET i == Min({j \in DOMAIN rec.ext : Covers(rec.ext[j], l)})
    IN  rec.ext[i].phys + (l - rec.ext[i].log)

\* Mutation: an extent that ends where the new block starts is grown whatever
\* its disk blocks are.
Follows_LogicalOnly(e, l, b) == e.log + e.cnt = l
Follows(e, l, b) == e.log + e.cnt = l /\ e.phys + e.cnt = b
Precedes(e, l, b) == l + 1 = e.log /\ b + 1 = e.phys

\* extent_add for one block: the first neighbour is replaced by the merged
\* extent, which goes to the end of the buffer.
Merged(ext, l, b) ==
    LET near == {i \in DOMAIN ext : Follows(ext[i], l, b) \/ Precedes(ext[i], l, b)}
        e == ext[Min(near)]
        grown == IF Follows(e, l, b) THEN [e EXCEPT !.cnt = @ + 1]
                 ELSE [log |-> l, phys |-> b, cnt |-> e.cnt + 1]
    IN  IF near = {} THEN Append(ext, [log |-> l, phys |-> b, cnt |-> 1])
        ELSE Append(RemoveAt(ext, Min(near)), grown)

ExtentFits(rec, l, b) == Cardinality(rec.attrs) + Len(Merged(rec.ext, l, b)) <= AttrMax
extent_add(s, r, l, b) == record_write(s, r, [s.rec[r] EXCEPT !.ext = Merged(@, l, b)])

-----------------------------------------------------------------------------
(***************************************************************************)
(* Names and paths.  0 stands for no record.                               *)
(***************************************************************************)
IsDir(s, r) == record_read(s, r) /\ "DATA" \in s.rec[r].attrs

smkfs_lookup_by_name(s, d, n) ==
    IF IsDir(s, d) /\ s.rec[d].type = "dir" THEN s.dir[d][n] ELSE 0

path_lookup(s, p) ==
    FoldLeft(LAMBDA d, n : IF n = "" THEN d ELSE smkfs_lookup_by_name(s, d, n), root_record_id, p)

\* path_split: everything before the last slash, and the name after it.
SplitDir(s, p) == path_lookup(s, Front(p))
SplitName(p) == Last(p)

\* btree_insert takes no empty name; room says that it has the memory and the
\* blocks it needs.  The tree is the old one when it refuses.
btree_insert_refuses(n, room) == n = "" \/ ~room

\* The image smkfs_create_record writes.
Fresh(s, r, type, parent, block) ==
    [Blank EXCEPT !.type = type, !.links = 1, !.gen = s.mrt[r].gen,
       !.parent = parent, !.data = block,
       !.attrs = {"PARENT"} \cup IF block = 0 THEN {} ELSE {"DATA"}]

\* smkfs_create_record from the new record on: an existing name is given to it.
Named(a, type, parent, n, room) ==
    LET b == IF type = "dir" THEN bitmap_alloc_(a.fs) ELSE 0
        u == IF b = 0 THEN a.fs ELSE [Take(a.fs, b) EXCEPT !.dir[a.id] = [m \in NameOf |-> 0]]
        back == record_free(IF b = 0 THEN u ELSE bitmap_free_range(u, b, 1), a.id)
    IN  IF a.id = 0 THEN [fs |-> a.fs, id |-> 0]
        ELSE IF (type = "dir" /\ b = 0) \/ ~IsDir(u, parent) \/ btree_insert_refuses(n, room)
        THEN [fs |-> back, id |-> 0]
        ELSE [fs |-> record_write([u EXCEPT !.dir[parent][n] = a.id], a.id,
                                  Fresh(u, a.id, type, parent, b)),
              id |-> a.id]

smkfs_create_record(s, type, parent, n, room) == Named(record_alloc(s, type), type, parent, n, room)

\* Mutation: the record goes with its first name.
Unlinked_Always(s, r) == record_free(s, r)

\* Steps 4 and 5 of smkfs_delete_record.
Unlinked(s, r) ==
    LET links == IF s.rec[r].links = 0 THEN 0 ELSE s.rec[r].links - 1
    IN  IF links = 0 THEN record_free(s, r) ELSE [s EXCEPT !.rec[r].links = links]

smkfs_delete_record(s, parent, n, r) ==
    IF \/ ~record_read(s, r)
       \/ s.rec[r].type = "dir" /\ IsDir(s, r) /\ \E m \in NameOf : s.dir[r][m] # 0
       \/ ~IsDir(s, parent) \/ s.dir[parent][n] = 0
    THEN s
    ELSE Unlinked([s EXCEPT !.dir[parent][n] = 0], r)

\* smkfs_rename: the old entry is gone before the new parent is looked at and
\* the new name is refused.
smkfs_rename(s, p, n, q, m, r, room) ==
    LET u == [s EXCEPT !.dir[p][n] = 0]
        v == [u EXCEPT !.dir[q][m] = r]
        rec == [record_add_attr(s.rec[r], "PARENT") EXCEPT !.parent = q]
    IN  IF ~record_read(s, r) \/ ~IsDir(s, p) \/ s.dir[p][n] = 0 THEN s
        ELSE IF ~IsDir(u, q) \/ btree_insert_refuses(m, room) THEN u
        ELSE IF ~AddFits(s.rec[r], "PARENT") THEN v
        ELSE record_write(v, r, rec)

smkfs_link(s, from, to, room) ==
    LET r == path_lookup(s, from)
        d == SplitDir(s, to)
    IN  IF \/ ~record_read(s, r) \/ s.rec[r].type = "dir"
           \/ path_lookup(s, to) # 0 \/ d = 0 \/ ~IsDir(s, d)
           \/ btree_insert_refuses(SplitName(to), room)
        THEN s
        ELSE [s EXCEPT !.dir[d][SplitName(to)] = r, !.rec[r].links = @ + 1]

\* smkfs_setattr.
smkfs_setattr(s, r, a) ==
    IF record_read(s, r) /\ AddFits(s.rec[r], a)
    THEN record_write(s, r, record_add_attr(s.rec[r], a)) ELSE s

\* smkfs_create_file: the permissions follow in a transaction of their own.
Permitted(c) == IF c.id = 0 THEN c.fs ELSE smkfs_setattr(c.fs, c.id, "PERMISSIONS")
smkfs_create_file(s, p, room) ==
    IF SplitDir(s, p) = 0 THEN s
    ELSE Permitted(smkfs_create_record(s, "file", SplitDir(s, p), SplitName(p), room))

smkfs_mkdir(s, p, room) ==
    IF SplitDir(s, p) = 0 THEN s
    ELSE smkfs_create_record(s, "dir", SplitDir(s, p), SplitName(p), room).fs

\* smkfs_delete_file and smkfs_rmdir.
RemovePath(s, p) ==
    LET r == path_lookup(s, p)
    IN  IF r = 0 \/ SplitDir(s, p) = 0 THEN s
        ELSE smkfs_delete_record(s, SplitDir(s, p), SplitName(p), r)

smkfs_unlink(s, p) ==
    LET r == path_lookup(s, p)
    IN  IF r # 0 /\ record_read(s, r) /\ s.rec[r].type # "dir" THEN RemovePath(s, p) ELSE s

-----------------------------------------------------------------------------
(***************************************************************************)
(* File data.  A call works on c = [fs, want, ok].                         *)
(***************************************************************************)
BlockOf(i) == i \div BlockSize
Blocks(n) == (n + BlockSize - 1) \div BlockSize
IsFile(s, r) == record_read(s, r) /\ s.rec[r].type = "file"

\* block_read_byte: holes read as zero.
ByteAt(s, r, i) ==
    IF Mapped(s.rec[r], BlockOf(i))
    THEN s.data[extent_resolve(s.rec[r], BlockOf(i))][i % BlockSize] ELSE 0

\* Mutation: a new block is not cleared first.
ZeroFilled_Not(s, b) == s
ZeroFilled(s, b) == [s EXCEPT !.data[b] = [i \in 0 .. BlockSize - 1 |-> 0]]

\* block_write_byte: bytes lo .. hi - 1 of the file, all in block l.
block_write_byte(c, r, l, lo, hi) ==
    LET rec == c.fs.rec[r]
        b == bitmap_alloc_(c.fs)
        got == Mapped(rec, l) \/ (b # 0 /\ ExtentFits(rec, l, b))
        u == IF Mapped(rec, l) THEN c.fs ELSE ZeroFilled(extent_add(Take(c.fs, b), r, l, b), b)
        phys == extent_resolve(u.rec[r], l)
        hit(i) == lo <= l * BlockSize + i /\ l * BlockSize + i < hi
    IN  IF ~c.ok \/ ~got THEN [c EXCEPT !.ok = FALSE]
        ELSE [fs |-> [u EXCEPT !.data[phys] =
                       [i \in 0 .. BlockSize - 1 |-> IF hit(i) THEN 1 ELSE @[i]]],
              want |-> [c.want EXCEPT ![r] = [i \in Offset |->
                          IF i >= lo /\ i < hi /\ BlockOf(i) = l THEN 1 ELSE @[i]]],
              ok |-> TRUE]

\* smkfs_write: n ones at offset o.  The size is set last, and a write
\* succeeds even when there is no room for the size.
smkfs_write(s, w, r, o, n) ==
    LET blocks == IF n = 0 THEN 0 ELSE BlockOf(o + n - 1) - BlockOf(o) + 1
        written[k \in 0 .. blocks] ==
            IF k = 0 THEN [fs |-> s, want |-> w, ok |-> TRUE]
            ELSE block_write_byte(written[k - 1], r, BlockOf(o) + k - 1, o, o + n)
        c == written[blocks]
        rec == c.fs.rec[r]
    IN  IF ~IsFile(s, r) THEN [fs |-> s, want |-> w, ok |-> FALSE]
        ELSE IF c.ok /\ o + n > s.rec[r].size /\ AddFits(rec, "FSIZE")
        THEN [c EXCEPT !.fs = record_write(@, r, [record_add_attr(rec, "FSIZE") EXCEPT !.size = o + n])]
        ELSE c

\* What is left of extent e without blocks lo .. hi - 1 of the file.
Cut(e, lo, hi) ==
    LET end == e.log + e.cnt
    IN  IF end <= lo \/ e.log >= hi THEN <<e>>
        ELSE (IF e.log < lo THEN <<[e EXCEPT !.cnt = lo - e.log]>> ELSE <<>>)
             \o (IF end > hi THEN <<[log |-> hi, phys |-> e.phys + (hi - e.log), cnt |-> end - hi]>>
                 ELSE <<>>)

Rebuilt(ext, lo, hi) == FlattenSeq([i \in DOMAIN ext |-> Cut(ext[i], lo, hi)])

\* The extents are gathered, stripped and rebuilt without blocks lo .. hi - 1,
\* which are freed; extents past the first CollectMax are dropped.
Dropped(s, r, lo, hi) ==
    LET rec == s.rec[r]
        kept == Collected(rec.ext)
        gone == {e.phys + k : e \in Range(kept), k \in Offset}
        inside(b) == \E e \in Range(kept) : b >= e.phys /\ b < e.phys + e.cnt
                        /\ e.log + (b - e.phys) >= lo /\ e.log + (b - e.phys) < hi
    IN  [s EXCEPT !.free = @ \cup {b \in gone : inside(b)},
                  !.rec[r].ext = Rebuilt(kept, lo, hi)]

\* What is promised of the file after bytes o .. e - 1 of it were cut out (the
\* Design Plan's "Partial-block punch": whole blocks go, blocks that the range
\* only touches stay): nothing of extents that were not gathered, zeros in the
\* whole blocks, and in the blocks at the edges what lies outside the range.
AfterCut(s, w, r, o, e) ==
    LET rec == s.rec[r]
        lost(i) == Mapped([rec EXCEPT !.ext = SubSeq(@, Len(Collected(@)) + 1, Len(@))], BlockOf(i))
        whole(l) == o <= l * BlockSize /\ (l + 1) * BlockSize <= e
        touched(l) == BlockOf(o) <= l /\ l < Blocks(e)
        after(i, old) ==
            IF lost(i) \/ (o <= i /\ i < e /\ ~whole(BlockOf(i))) THEN Unknown
            ELSE IF whole(BlockOf(i)) THEN 0
            ELSE IF touched(BlockOf(i)) /\ old = 1 THEN Edge ELSE old
    IN  [w EXCEPT ![r] = [i \in Offset |-> after(i, @[i])]]

\* smkfs_truncate: the tail of the last block that is kept keeps its bytes.
smkfs_truncate(s, w, r, n) ==
    LET size == s.rec[r].size
        cut == Blocks(n) < Blocks(size)
        u == IF cut THEN Dropped(s, r, Blocks(n), FileBlocks) ELSE s
        v == IF cut THEN AfterCut(s, w, r, Blocks(n) * BlockSize, FileBlocks * BlockSize) ELSE w
        tail(i) == n < size /\ i >= n /\ i < Blocks(n) * BlockSize
    IN  IF ~IsFile(s, r) \/ n = size \/ ~AddFits(u.rec[r], "FSIZE")
        THEN [fs |-> s, want |-> w, ok |-> FALSE]
        ELSE [fs |-> record_write(u, r, [record_add_attr(u.rec[r], "FSIZE") EXCEPT !.size = n]),
              want |-> [v EXCEPT ![r] = [i \in Offset |-> IF tail(i) THEN Unknown ELSE @[i]]],
              ok |-> TRUE]

\* smkfs_punc_hole: the hole is rounded outwards to whole blocks.
smkfs_punc_hole(s, w, r, o, n) ==
    LET size == s.rec[r].size
        end == IF o + n > size THEN size ELSE o + n
    IN  IF ~IsFile(s, r) \/ n = 0 \/ o >= size THEN [fs |-> s, want |-> w, ok |-> FALSE]
        ELSE [fs |-> Dropped(s, r, BlockOf(o), Blocks(end)),
              want |-> AfterCut(s, w, r, o, end), ok |-> TRUE]

-----------------------------------------------------------------------------
(***************************************************************************)
(* The calls.                                                              *)
(***************************************************************************)
Closed == [used |-> FALSE, rec |-> 0, off |-> 0]

\* The file system smkfs_mkfs leaves: the root's tree and its record.
FormattedFs ==
    LET blank == [mrt |-> [r \in Rec |-> [alloc |-> FALSE, block |-> 0, gen |-> 0]],
                  rec |-> [r \in Rec |-> Blank], dir |-> [r \in Rec |-> [n \in NameOf |-> 0]],
                  free |-> DiskBlock, data |-> [b \in DiskBlock |-> [i \in 0 .. BlockSize - 1 |-> 0]],
                  count |-> 0, mrtFree |-> Cardinality(Rec)]
        tree == Min(DiskBlock)
        a == record_alloc(Take(blank, tree), "dir")
    IN  record_write(a.fs, a.id, [a.fs.rec[a.id] EXCEPT !.data = tree, !.attrs = {"DATA"}])

FilesInit ==
    /\ fs = FormattedFs
    /\ fd_table = [f \in Fd |-> Closed]
    /\ want = [r \in Rec |-> [i \in Offset |-> 0]]

\* A new record's file is empty, whatever the slot held before.
Call(s) ==
    /\ fs' = s
    /\ want' = [r \in Rec |-> IF s.mrt[r].gen # fs.mrt[r].gen THEN [i \in Offset |-> 0] ELSE want[r]]
CanAlloc == \A r \in Rec : fs.mrt[r].gen < GenMax

CreateFile(p, room) == CanAlloc /\ Call(smkfs_create_file(fs, p, room)) /\ UNCHANGED fd_table
MakeDir(p, room) == CanAlloc /\ Call(smkfs_mkdir(fs, p, room)) /\ UNCHANGED fd_table
Remove_(p) == Call(RemovePath(fs, p)) /\ UNCHANGED fd_table
Unlink(p) == Call(smkfs_unlink(fs, p)) /\ UNCHANGED fd_table
Link(p, q, room) ==
    /\ \A r \in Rec : fs.rec[r].links < LinkMax
    /\ Call(smkfs_link(fs, p, q, room)) /\ UNCHANGED fd_table
ChangeAttr(p) ==
    /\ path_lookup(fs, p) # 0 /\ UNCHANGED fd_table
    /\ \E a \in {"PERMISSIONS", "OWNER"} : Call(smkfs_setattr(fs, path_lookup(fs, p), a))

\* smkfs_rename is given the record its first parent and name lead to (it does
\* not check), and any second parent.
Rename(p, q, room) ==
    /\ path_lookup(fs, p) # 0 /\ SplitDir(fs, q) # 0 /\ UNCHANGED fd_table
    /\ smkfs_lookup_by_name(fs, SplitDir(fs, p), SplitName(p)) = path_lookup(fs, p)
    /\ Call(smkfs_rename(fs, SplitDir(fs, p), SplitName(p), SplitDir(fs, q), SplitName(q),
                         path_lookup(fs, p), room))

\* smkfs_open: the lowest free descriptor; O_APPEND starts at the end.
Open(p, create, append, room) ==
    \E s \in {IF path_lookup(fs, p) = 0 /\ create THEN smkfs_create_file(fs, p, room) ELSE fs} :
    LET r == path_lookup(s, p)
        free == {f \in Fd : ~fd_table[f].used}
        off == IF append /\ record_read(s, r) THEN s.rec[r].size ELSE 0
    IN  /\ CanAlloc /\ Call(s)
        /\ fd_table' = IF r = 0 \/ free = {} THEN fd_table
                       ELSE [fd_table EXCEPT ![Min(free)] = [used |-> TRUE, rec |-> r, off |-> off]]

Close(f) == fd_table[f].used /\ fd_table' = [fd_table EXCEPT ![f] = Closed] /\ UNCHANGED <<fs, want>>

\* smkfs_read_file: smkfs_read stops at the end of the file.
ReadFile(f, n) ==
    LET d == fd_table[f]
        left == fs.rec[d.rec].size - d.off
        got == IF left <= 0 THEN 0 ELSE IF n > left THEN left ELSE n
    IN  /\ d.used /\ IsFile(fs, d.rec)
        /\ fd_table' = [fd_table EXCEPT ![f].off = @ + got] /\ UNCHANGED <<fs, want>>

WriteFile(f, n) ==
    LET d == fd_table[f]
    IN  /\ d.used /\ d.off + n - 1 \in Offset \cup {-1}
        /\ \E c \in {smkfs_write(fs, want, d.rec, d.off, n)} :
            /\ fs' = c.fs /\ want' = c.want
            /\ fd_table' = IF c.ok THEN [fd_table EXCEPT ![f].off = @ + n] ELSE fd_table

Seek(f, whence, o) ==
    LET d == fd_table[f]
        base == CASE whence = "SET" -> 0 [] whence = "CUR" -> d.off
                  [] whence = "END" -> IF record_read(fs, d.rec) THEN fs.rec[d.rec].size ELSE 0
    IN  /\ d.used /\ base + o \in Offset
        /\ fd_table' = [fd_table EXCEPT ![f].off = base + o] /\ UNCHANGED <<fs, want>>

FTruncate(f, n) ==
    /\ fd_table[f].used /\ UNCHANGED fd_table
    /\ \E c \in {smkfs_truncate(fs, want, fd_table[f].rec, n)} : fs' = c.fs /\ want' = c.want

\* smkfs_write, smkfs_truncate and smkfs_punc_hole called with a record.
OnRecord(c) == fs' = c.fs /\ want' = c.want /\ UNCHANGED fd_table
Write(r, o, n) == o + n - 1 \in Offset /\ OnRecord(smkfs_write(fs, want, r, o, n))
Truncate(r, n) == OnRecord(smkfs_truncate(fs, want, r, n))
Punch(r, o, n) == OnRecord(smkfs_punc_hole(fs, want, r, o, n))

Names ==
    \E p \in Path :
        \/ Remove_(p) \/ Unlink(p) \/ ChangeAttr(p)
        \/ \E room \in BOOLEAN :
              \/ CreateFile(p, room) \/ MakeDir(p, room)
              \/ \E q \in Path : Link(p, q, room) \/ Rename(p, q, room)

Descriptors ==
    \E f \in Fd :
        \/ Close(f)
        \/ \E p \in Path, create, append, room \in BOOLEAN : Open(p, create, append, room)
        \/ \E n \in Length : ReadFile(f, n) \/ WriteFile(f, n)
        \/ \E w \in {"SET", "CUR", "END"}, o \in {-1, 0, BlockSize + 1} : Seek(f, w, o)
        \/ \E n \in Offset : FTruncate(f, n)

RecordCalls ==
    \E r \in Rec : \/ \E n \in Offset : Truncate(r, n)
                   \/ \E o \in Offset, n \in Length : Write(r, o, n) \/ Punch(r, o, n)

FilesSpec == FilesInit /\ [][Names \/ Descriptors \/ RecordCalls]_fVars

-----------------------------------------------------------------------------
Owned(r) ==
    IF ~mrt_resolve(fs, r) THEN <<>>
    ELSE <<fs.mrt[r].block>> \o (IF fs.rec[r].data = 0 THEN <<>> ELSE <<fs.rec[r].data>>)
         \o FlattenSeq([i \in DOMAIN fs.rec[r].ext |->
                          [k \in 1 .. fs.rec[r].ext[i].cnt |-> fs.rec[r].ext[i].phys + k - 1]])

\* No disk block is used by two records or twice by one, and none of them is
\* free, whatever was created over, renamed, truncated, punched or failed half
\* way; the counters of the superblock agree with the table.
BlocksOwnedOnce ==
    /\ \A r \in Rec : \A own \in {Owned(r)} :
        /\ IsInjective(own) /\ Range(own) \cap fs.free = {}
        /\ \A q \in Rec \ {r} : Range(own) \cap Range(Owned(q)) = {}
    /\ fs.count = Cardinality(Rec \ FreeSlots(fs))
    /\ fs.mrtFree = Cardinality(FreeSlots(fs))

\* Every name leads to a record that record_read accepts, and a record has at
\* least as many links as names, so that removing one name never takes the
\* record from another.
NamesLead ==
    \A r \in Rec \ {root_record_id} :
        LET names == {x \in Rec \X NameOf : IsDir(fs, x[1]) /\ fs.dir[x[1]][x[2]] = r}
        IN  names # {} => record_read(fs, r) /\ Cardinality(names) <= fs.rec[r].links

\* A file holds the bytes written to it and zeros elsewhere, except the tail of
\* a block that a truncation cut, blocks that a punched range only touches and
\* extents past the first CollectMax when the list was rebuilt.
FileContents ==
    \A r \in Rec : IsFile(fs, r) =>
        \A i \in Offset : want[r][i] \in Byte => ByteAt(fs, r, i) = want[r][i]

\* What the Design Plan says of a punch that does not end at block boundaries
\* ("keeps partial edge blocks"): bytes outside the range that was punched are
\* still there.
EdgesKept ==
    \A r \in Rec : IsFile(fs, r) => \A i \in Offset : want[r][i] = Edge => ByteAt(fs, r, i) = 1
=============================================================================
