-------------------------------- MODULE Amfs --------------------------------
(***************************************************************************)
(* The older file system (fs/amfs.c): inodes with direct blocks and one    *)
(* indirect block, a block bitmap, directories of fixed slots.             *)
(*                                                                         *)
(* A directory entry takes 36 bytes (struct amfs_dirent_t) in a slot of 32 *)
(* (AMFS_DIRENT_SIZE): writing a slot clears the inode number of the next  *)
(* slot of the same sector.  Sectors are written directly; disk errors and *)
(* the contents of file sectors are left out.                              *)
(***************************************************************************)
EXTENDS Integers, Sequences, FiniteSets, SequencesExt

CONSTANTS
    Inode,          \* inode numbers above 0, the root directory's
    AData,          \* data blocks (numbered from 1, 0 is none)
    APath,          \* paths: non-empty sequences of names
    Direct,         \* AMFS_DIRECT_BLOCKS
    Indirect,       \* entries of an indirect block
    PerSector,      \* AMFS_DIRENTS_PER_BLOCK
    DirMax          \* bound on the slots of a directory

ASSUME AmfsAssumption ==
    /\ Inode \subseteq Nat \ {0} /\ AData \subseteq Nat \ {0}
    /\ {Direct, Indirect} \subseteq Nat /\ PerSector \in Nat \ {0}
    /\ \A p \in APath : p # <<>> /\ p \in Seq(Range(p))

VARIABLES
    am              \* [mounted, formatted, used (the bitmap), ino]

amVars == am

-----------------------------------------------------------------------------
(***************************************************************************)
(* Blocks.  blk has the direct and then the indirect table's entries, ind  *)
(* the indirect block itself.                                              *)
(***************************************************************************)
Index == 0 .. Direct + Indirect - 1
FreeInode == [type |-> "free", size |-> 0, blk |-> [i \in Index |-> 0], ind |-> 0, ent |-> <<>>]

ABitmapAlloc(a) == IF AData = a.used THEN 0 ELSE Min(AData \ a.used)
BlocksOf(n) == ({n.blk[i] : i \in Index} \cup {n.ind}) \ {0}

\* block_for_offset with alloc set: the result has the block, 0 on failure.
\* An indirect block allocated just before a failure is not recorded.
block_for_offset(a, n, i) ==
    LET node == a.ino[n]
        needInd == i >= Direct /\ node.ind = 0
        b1 == ABitmapAlloc(a)
        a1 == IF needInd /\ b1 # 0
              THEN [a EXCEPT !.used = @ \cup {b1},
                             !.ino[n] = [node EXCEPT !.ind = b1, !.blk = [j \in Index |-> IF j < Direct THEN node.blk[j] ELSE 0]]]
              ELSE a
        b2 == ABitmapAlloc(a1)
    IN  IF i \notin Index \/ (needInd /\ b1 = 0) THEN [a |-> a, block |-> 0]
        ELSE IF a1.ino[n].blk[i] # 0 THEN [a |-> a1, block |-> a1.ino[n].blk[i]]
        ELSE IF b2 = 0 THEN [a |-> [a EXCEPT !.used = a1.used], block |-> 0]
        ELSE [a |-> [a1 EXCEPT !.used = @ \cup {b2}, !.ino[n].blk[i] = b2], block |-> b2]

\* Mutation: the freed indirect block stays in the inode.
Truncated_KeepsIndirect(a, n) ==
    [a EXCEPT !.used = @ \ BlocksOf(a.ino[n]),
              !.ino[n] = [a.ino[n] EXCEPT !.blk = [i \in Index |-> 0], !.size = 0]]

\* The truncation at the head of amfs_write, and the loops of inode_free.
Truncated(a, n) ==
    [a EXCEPT !.used = @ \ BlocksOf(a.ino[n]),
              !.ino[n] = [a.ino[n] EXCEPT !.blk = [i \in Index |-> 0], !.ind = 0, !.size = 0]]

inode_alloc(a) ==
    LET none == {n \in Inode : a.ino[n].type = "free"}
    IN  IF none = {} THEN 0 ELSE Min(none)
inode_free(a, n) == [Truncated(a, n) EXCEPT !.ino[n] = FreeInode]

-----------------------------------------------------------------------------
(***************************************************************************)
(* Directories: ent is the sequence of slots <<name, inode>>, inode 0 in a *)
(* slot that is free.                                                      *)
(***************************************************************************)
ANone == -1
dir_find_entry(a, d, name) ==
    LET at == {i \in DOMAIN a.ino[d].ent : a.ino[d].ent[i][2] # 0 /\ a.ino[d].ent[i][1] = name}
    IN  IF a.ino[d].type # "dir" \/ at = {} THEN 0 ELSE Min(at)

\* One component of a path: u has the file system and the inode reached so far.
Walked(u, name) ==
    LET i == IF u.at = ANone THEN 0 ELSE dir_find_entry(u.a, u.at, name)
    IN  [u EXCEPT !.at = IF i = 0 THEN ANone ELSE u.a.ino[u.at].ent[i][2]]
PathLookup(a, p) == FoldLeft(Walked, [a |-> a, at |-> 0], p).at
ParentOf(a, p) == PathLookup(a, Front(p))

\* The slot after i in the same sector loses its inode.
Spill(ent, i) ==
    IF i % PerSector # 0 /\ i + 1 \in DOMAIN ent
    THEN [ent EXCEPT ![i + 1] = <<@[1], 0>>] ELSE ent

\* dir_add_entry: the first free slot, or one more.
dir_add_entry(a, d, name, n) ==
    LET ent == a.ino[d].ent
        gaps == {i \in DOMAIN ent : ent[i][2] = 0}
        slot == IF gaps = {} THEN Len(ent) + 1 ELSE Min(gaps)
        b == block_for_offset(a, d, (slot - 1) \div PerSector)
        dir == b.a.ino[d]
        put == IF gaps = {} THEN Append(ent, <<name, n>>) ELSE [ent EXCEPT ![slot] = <<name, n>>]
    IN  IF a.ino[d].type # "dir" \/ dir_find_entry(a, d, name) # 0 THEN [a |-> a, ok |-> FALSE]
        ELSE IF b.block = 0 THEN [a |-> b.a, ok |-> FALSE]
        ELSE [a |-> [b.a EXCEPT !.ino[d] = [dir EXCEPT !.ent = Spill(put, slot),
                                                       !.size = dir.size + (IF gaps = {} THEN 1 ELSE 0)]],
              ok |-> TRUE]

dir_remove_entry(a, d, name) ==
    LET i == dir_find_entry(a, d, name)
    IN  IF i = 0 THEN a ELSE [a EXCEPT !.ino[d].ent[i] = <<"", 0>>]

\* An inode that could not be entered in its directory is freed again.
Entered(r, n) == IF r.ok THEN r.a ELSE inode_free(r.a, n)

\* amfs_mkdir and amfs_create.
Create_(a, p, type) ==
    LET d == ParentOf(a, p)
        n == inode_alloc(a)
        r == dir_add_entry([a EXCEPT !.ino[n] = [FreeInode EXCEPT !.type = type]], d, Last(p), n)
    IN  IF PathLookup(a, p) # ANone \/ d = ANone \/ n = 0 THEN a ELSE Entered(r, n)

\* The loop of amfs_write: sector i of file n gets its block.
Grown(u, i) ==
    LET b == block_for_offset(u.a, u.n, i - 1)
    IN  IF u.ok THEN [u EXCEPT !.a = b.a, !.ok = b.block # 0] ELSE u

\* amfs_write of size sectors to a file that is there, if it could be created:
\* what was allocated before a failure stays.
Rewritten(c, p, size) ==
    LET n == PathLookup(c, p)
        r == FoldLeft(Grown, [a |-> Truncated(c, n), n |-> n, ok |-> TRUE], [i \in 1 .. size |-> i])
    IN  IF n = ANone \/ c.ino[n].type # "file" THEN c
        ELSE IF r.ok THEN [r.a EXCEPT !.ino[n].size = size] ELSE r.a

amfs_write(a, p, size) ==
    Rewritten(IF PathLookup(a, p) = ANone THEN Create_(a, p, "file") ELSE a, p, size)

amfs_delete(a, p) ==
    LET n == PathLookup(a, p)
        full == a.ino[n].type = "dir" /\ \E i \in DOMAIN a.ino[n].ent : a.ino[n].ent[i][2] # 0
    IN  IF ParentOf(a, p) = ANone \/ n = ANone THEN a
        ELSE IF full THEN a
        ELSE dir_remove_entry(inode_free(a, n), ParentOf(a, p), Last(p))

-----------------------------------------------------------------------------
AmInit ==
    am = [mounted |-> FALSE, formatted |-> FALSE, used |-> {},
          ino |-> [n \in Inode \cup {0} |-> FreeInode]]

amfs_mkfs ==
    am' = [am EXCEPT !.formatted = TRUE, !.used = {},
             !.ino = [n \in Inode \cup {0} |->
                        IF n = 0 THEN [FreeInode EXCEPT !.type = "dir"] ELSE FreeInode]]
amfs_mount == am.formatted /\ am' = [am EXCEPT !.mounted = TRUE]

AmCall(a) == am.mounted /\ am' = a
AmNext ==
    \/ amfs_mkfs \/ amfs_mount
    \/ \E p \in APath :
        \/ \E t \in {"file", "dir"} : Len(am.ino[0].ent) < DirMax /\ AmCall(Create_(am, p, t))
        \/ \E size \in 1 .. Direct + Indirect + 1 :
             Len(am.ino[0].ent) < DirMax /\ AmCall(amfs_write(am, p, size))
        \/ AmCall(amfs_delete(am, p))

AmSpec == AmInit /\ [][AmNext]_amVars

-----------------------------------------------------------------------------
\* A data block belongs to one inode and is marked in the bitmap; a directory's
\* slots and a file's sectors have their blocks; every name leads to an inode
\* in use and an inode has at most one name, also after an entry was lost to
\* its neighbour.
AmfsSound ==
    LET live == {n \in Inode \cup {0} : am.ino[n].type # "free"}
        slots == UNION {{d} \X DOMAIN am.ino[d].ent : d \in live}
        names(n) == {s \in slots : am.ino[s[1]].ent[s[2]][2] = n}
    IN  /\ \A n \in live :
            /\ BlocksOf(am.ino[n]) \subseteq am.used
            /\ \A m \in live \ {n} : BlocksOf(am.ino[n]) \cap BlocksOf(am.ino[m]) = {}
            /\ \A i, j \in Index : i # j /\ am.ino[n].blk[i] # 0 => am.ino[n].blk[i] # am.ino[n].blk[j]
            /\ am.ino[n].ind \notin {am.ino[n].blk[i] : i \in Index} \ {0}
            /\ \A i \in Index :
                 i < (IF am.ino[n].type = "file" THEN am.ino[n].size
                      ELSE (Len(am.ino[n].ent) + PerSector - 1) \div PerSector)
                   => am.ino[n].blk[i] # 0
        /\ \A n \in Inode : names(n) # {} => n \in live /\ Cardinality(names(n)) = 1
=============================================================================
