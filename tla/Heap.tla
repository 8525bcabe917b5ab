-------------------------------- MODULE Heap --------------------------------
(***************************************************************************)
(* The kernel heap (mm/heap.c): a list of blocks, each a header and its    *)
(* payload, that tiles the arena from heap_base to heap_break; above the   *)
(* break, pages are committed one by one up to heap_end.                   *)
(*                                                                         *)
(* Addresses and sizes are counted from heap_base in units of 16 bytes,    *)
(* to which malloc rounds every request.  malloc and free run under        *)
(* heap_lock with interrupts off: one step each.  realloc lets go of the   *)
(* lock when it has to move a block, and then calls malloc and free.       *)
(***************************************************************************)
EXTENDS Integers

CONSTANTS
    H,          \* sizeof(Block): 2 units (1 in the 32-bit kernel)
    Page,       \* PAGE_SIZE
    Arena,      \* HEAP_SIZE
    Initial,    \* HEAP_INITIAL_PAGES * PAGE_SIZE
    MaxReq,     \* bound: size of a request
    Client      \* who may be inside realloc at the same time

ASSUME HeapAssumption ==
    /\ {H, Page, MaxReq} \subseteq Nat \ {0}
    /\ {Arena, Initial} \subseteq Nat
    /\ Initial % Page = 0 /\ Arena % Page = 0 /\ Initial <= Arena

VARIABLES
    blk,        \* the headers on the list: size, next, free, by address
    brk,        \* heap_break
    end,        \* heap_end
    live,       \* what the callers hold: size asked for, by header address
    move        \* the realloc that each client is in the middle of

heapVars == <<blk, brk, end, live, move>>
rest == <<live, move>>

NoBlock == -1
NoMove == [old |-> NoBlock, copy |-> 0, want |-> 0, new |-> NoBlock]

\* head is heap_base once there is a list.
Blocks == DOMAIN blk
Header(s, n, f) == [size |-> s, next |-> n, free |-> f]

\* The function f without b and with h at a.
Replace(f, a, h) == [x \in DOMAIN f \cup {a} |-> IF x = a THEN h ELSE f[x]]
Without(f, b) == [x \in DOMAIN f \ {b} |-> f[x]]
Flag(f, a, b) == Replace(f, a, Header(f[a].size, f[a].next, b))

\* The address behind the block at a.
Behind(f, a) == a + H + f[a].size

-----------------------------------------------------------------------------
(***************************************************************************)
(* sbrk_locked and heap_commit_to.                                         *)
(***************************************************************************)

\* The end of the committed pages that a break needs.
Target(b) == ((b + Page - 1) \div Page) * Page

Grow(b) ==
    /\ b <= Arena
    /\ brk' = b
    /\ end' = IF b > end THEN Target(b) ELSE end

\* The arena is used up, or a page cannot be had or mapped: the pages
\* committed so far stay.
GrowFails(b) ==
    /\ brk' = brk
    /\ \/ b > Arena /\ end' = end
       \/ b <= Arena /\ b > end /\ end' \in {e \in end .. Target(b) - 1 : e % Page = 0}

-----------------------------------------------------------------------------
(***************************************************************************)
(* malloc.                                                                 *)
(***************************************************************************)
Fits(n) == {a \in Blocks : blk[a].free /\ blk[a].size >= n}

\* The list is in order of addresses: the first that fits is the lowest.
FirstFit(n, a) == a \in Fits(n) /\ \A b \in Fits(n) : a <= b
LastBlock(a) == a \in Blocks /\ blk[a].next = NoBlock

\* The block at a, in use from now on, is cut after n; the rest is free.
Split(f, a, n) ==
    Replace(Replace(f, a, Header(n, a + H + n, FALSE)),
            a + H + n, Header(f[a].size - n - H, f[a].next, TRUE))

\* A free block is taken, and split if the rest can hold a header and more.
MallocFit(n, a) ==
    /\ FirstFit(n, a)
    /\ blk' = IF blk[a].size - n > H THEN Split(blk, a, n) ELSE Flag(blk, a, FALSE)
    /\ UNCHANGED <<brk, end>>

\* The first block of all.
MallocFirst(n, a) ==
    /\ Blocks = {} /\ a = 0
    /\ Grow(brk + H + n)
    /\ blk' = Replace(blk, 0, Header(n, NoBlock, FALSE))

\* A new block behind the last one.  (If the break is not where the last
\* block ends, malloc returns NULL; Tiled says that it always is.)
MallocGrow(n, a) ==
    /\ Fits(n) = {}
    /\ \E z \in Blocks :
        /\ LastBlock(z)
        /\ a = Behind(blk, z) /\ a = brk
        /\ Grow(brk + H + n)
        /\ blk' = Replace(Replace(blk, z, Header(blk[z].size, a, blk[z].free)),
                          a, Header(n, NoBlock, FALSE))

\* malloc(n) returns the block at a, or NULL.
Malloc(n, a) == MallocFit(n, a) \/ MallocFirst(n, a) \/ MallocGrow(n, a)
MallocNull(n) == Fits(n) = {} /\ GrowFails(brk + H + n) /\ blk' = blk

-----------------------------------------------------------------------------
(***************************************************************************)
(* free.                                                                   *)
(***************************************************************************)
\* Mutation: the header of the block that is absorbed is not counted.
Absorb_NoHeader(f, a) ==
    LET b == f[a].next
    IN  Without(Replace(f, a, Header(f[a].size + f[b].size, f[b].next, f[a].free)), b)

\* The block at a takes over its successor, header included.
Absorb(f, a) ==
    LET b == f[a].next
    IN  Without(Replace(f, a, Header(f[a].size + H + f[b].size, f[b].next, f[a].free)), b)

FreeNext(f, a) == f[a].next # NoBlock /\ f[f[a].next].free

\* The block at a is merged with the one behind it, if that is free.
MergeNext(f, a) == IF FreeNext(f, a) THEN Absorb(f, a) ELSE f

FreePrev(f, a) == {p \in DOMAIN f : f[p].next = a /\ f[p].free}

\* Mutation: the block is not merged with a free block before it.
Freed_NoPrev(f, a) == MergeNext(Flag(f, a, TRUE), a)

\* free: merged with the block behind it, then with the one before it.
Freed(f, a) ==
    LET g == MergeNext(Flag(f, a, TRUE), a)
    IN  IF FreePrev(g, a) = {} THEN g
        ELSE Absorb(g, CHOOSE p \in FreePrev(g, a) : TRUE)

\* The list after free.
FreeBlock(a) == blk' = Freed(blk, a) /\ UNCHANGED <<brk, end>>

-----------------------------------------------------------------------------
(***************************************************************************)
(* The calls.                                                              *)
(***************************************************************************)
Moving == {move[c].old : c \in Client} \cup {move[c].new : c \in Client}
Held == DOMAIN live \ Moving

\* malloc (and calloc, which also clears the block).
AllocCall(n) ==
    /\ \E a \in 0 .. Arena : Malloc(n, a) /\ live' = Replace(live, a, n)
    /\ UNCHANGED move

AllocFails(n) == MallocNull(n) /\ UNCHANGED rest

FreeCall(a) ==
    /\ a \in Held
    /\ FreeBlock(a)
    /\ live' = Without(live, a)
    /\ UNCHANGED move

\* realloc to a size that the block already has: the rest is split off if it
\* is worth it, and merged with a free block behind it.
ReallocShrink(a, n) ==
    /\ a \in Held
    /\ blk[a].size >= n
    /\ blk' = IF blk[a].size - n > H + 1
              THEN MergeNext(Split(blk, a, n), a + H + n) ELSE blk
    /\ live' = Replace(live, a, n)
    /\ UNCHANGED <<brk, end, move>>

\* Mutation: any free block behind is taken for room enough.
Roomy_AnySize(a, n) == FreeNext(blk, a)

\* Room for realloc in the free block behind.
Roomy(a, n) ==
    FreeNext(blk, a) /\ blk[a].size + H + blk[blk[a].next].size >= n

\* The free block behind is taken over as a whole.
ReallocGrow(a, n) ==
    /\ a \in Held
    /\ blk[a].size < n /\ Roomy(a, n)
    /\ blk' = Absorb(blk, a)
    /\ live' = Replace(live, a, n)
    /\ UNCHANGED <<brk, end, move>>

\* Mutation: as much is copied as was asked for.
ReallocMove_CopiesWant(c, a, n) ==
    /\ a \in Held /\ move[c] = NoMove
    /\ blk[a].size < n /\ ~Roomy(a, n)
    /\ move' = [move EXCEPT ![c] = [old |-> a, copy |-> n, want |-> n, new |-> NoBlock]]
    /\ UNCHANGED <<blk, brk, end, live>>

\* The block has to move: the old size is read and the lock released ...
ReallocMove(c, a, n) ==
    /\ a \in Held /\ move[c] = NoMove
    /\ blk[a].size < n /\ ~Roomy(a, n)
    /\ move' = [move EXCEPT ![c] =
                    [old |-> a, copy |-> blk[a].size, want |-> n, new |-> NoBlock]]
    /\ UNCHANGED <<blk, brk, end, live>>

\* ... malloc; on failure realloc returns NULL and the old block stays ...
MoveAlloc(c) ==
    /\ move[c] # NoMove /\ move[c].new = NoBlock
    /\ \E a \in 0 .. Arena :
        /\ Malloc(move[c].want, a)
        /\ live' = Replace(live, a, move[c].want)
        /\ move' = [move EXCEPT ![c].new = a]

MoveFails(c) ==
    /\ move[c] # NoMove /\ move[c].new = NoBlock
    /\ MallocNull(move[c].want)
    /\ move' = [move EXCEPT ![c] = NoMove]
    /\ UNCHANGED live

\* ... the contents are copied and the old block is freed.
MoveFree(c) ==
    /\ move[c].new # NoBlock
    /\ FreeBlock(move[c].old)
    /\ live' = Without(live, move[c].old)
    /\ move' = [move EXCEPT ![c] = NoMove]

-----------------------------------------------------------------------------
\* heap_init.
HeapInit ==
    /\ blk = [a \in {} |-> NoMove]
    /\ brk = 0
    /\ end = Initial
    /\ live = [a \in {} |-> 0]
    /\ move = [c \in Client |-> NoMove]

Request == 1 .. MaxReq

HeapNext ==
    \/ \E n \in Request : AllocCall(n) \/ AllocFails(n)
    \/ \E a \in Blocks : FreeCall(a)
    \/ \E a \in Blocks, n \in Request : ReallocShrink(a, n) \/ ReallocGrow(a, n)
    \/ \E c \in Client, a \in Blocks, n \in Request : ReallocMove(c, a, n)
    \/ \E c \in Client : MoveAlloc(c) \/ MoveFails(c) \/ MoveFree(c)

HeapSpec == HeapInit /\ [][HeapNext]_heapVars

-----------------------------------------------------------------------------
(***************************************************************************)
(* Properties.                                                             *)
(***************************************************************************)
Addr == 0 .. Arena - 1
MoveType == [old : Addr \cup {NoBlock}, copy : Nat, want : 0 .. MaxReq, new : Addr \cup {NoBlock}]

\* Type invariant of the list and of what the callers hold.
TypeOK ==
    /\ Blocks \subseteq Addr
    /\ blk \in [Blocks -> [size : Nat \ {0}, next : Addr \cup {NoBlock}, free : BOOLEAN]]
    /\ brk \in 0 .. Arena
    /\ end \in 0 .. Arena
    /\ DOMAIN live \subseteq Addr
    /\ live \in [DOMAIN live -> Request]
    /\ move \in [Client -> MoveType]

\* The blocks of the list f fill the arena from its base to k in order.
TiledList(f, k) ==
    /\ IF DOMAIN f = {} THEN k = 0 ELSE 0 \in DOMAIN f
    /\ \A a \in DOMAIN f :
        /\ Behind(f, a) <= k
        /\ \/ f[a].next = NoBlock /\ Behind(f, a) = k
           \/ f[a].next = Behind(f, a) /\ Behind(f, a) \in DOMAIN f
    /\ \A a, b \in DOMAIN f : a < b => Behind(f, a) <= b

\* The list tiles the arena up to the break, which is committed: every next
\* pointer leads to the address right behind the block, the last block ends
\* at the break (what malloc tests before it extends the list), and no two
\* blocks overlap: through splits, merges and growth that fails half way.
Tiled == TiledList(blk, brk) /\ brk <= end

Merged(f) == \A a \in DOMAIN f : f[a].free => ~FreeNext(f, a)

\* free and realloc leave no two free blocks side by side, so that memory
\* does not stay fragmented.
Coalesced == Merged(blk)

\* The blocks in use are exactly those that some caller holds, and each is at
\* least as long as its caller asked: nothing is lost, nothing is given
\* twice, while merges and splits go on around them.
HeldIntact ==
    /\ DOMAIN live = {a \in Blocks : ~blk[a].free}
    /\ \A a \in DOMAIN live : blk[a].size >= live[a]

\* When realloc copies, the size it read before it let go of the lock is
\* still within both the old block and the new one.
CopyFits ==
    \A c \in Client :
        move[c].new # NoBlock =>
            /\ {move[c].old, move[c].new} \subseteq DOMAIN live
            /\ move[c].copy <= blk[move[c].old].size
            /\ move[c].copy <= blk[move[c].new].size
=============================================================================
