------------------------------- MODULE Memory -------------------------------
(***************************************************************************)
(* Page frames, page tables and the mapping window: mm/pmm.c, mm/paging.c  *)
(* and mm/vmm.c, with heap_commit_to of mm/heap.c as their other client.   *)
(*                                                                         *)
(* Every operation of pmm.c and every map_page and unmap_page runs under a *)
(* spinlock with interrupts off and is one step (a map_page allocates the  *)
(* tables that it misses within that step).  vmm_map_physical and          *)
(* vmm_unmap_physical let go of vmm_lock around their loops over pages, so *)
(* that calls of several clients interleave page by page.                  *)
(***************************************************************************)
EXTENDS Integers, FiniteSets

CONSTANTS
    FrameSize,      \* FRAME_SIZE
    Total,          \* total_frames, from the RAM that kernel_early_init adds up
    Available,      \* the available regions of the memory map
    Reserved,       \* what pmm_init reserves: low memory, the image, VGA
    Fan, Depth,     \* entries of a table, levels of tables below the root
    WindowPages,    \* VMM_WINDOW_PAGES
    HeapPages,      \* pages of the heap arena
    Device,         \* first page of the device memory that is mapped
    MaxCount,       \* bound: frames or pages asked for at once
    Client          \* who may be inside the mapping window's calls

Region == [start : Nat, length : Nat]

ASSUME MemoryAssumption ==
    /\ {FrameSize, Total, Fan, WindowPages, MaxCount} \subseteq Nat \ {0}
    /\ {Depth, HeapPages, Device} \subseteq Nat
    /\ Available \subseteq Region /\ Reserved \subseteq Region

\* Frame 0 is within what pmm_init reserves: 0 is PHYS_ADDR_INVALID.
ASSUME FrameZero == \E r \in Reserved : r.start = 0 /\ r.length > 0

VARIABLES
    used,       \* the frames whose bit is set in bitmap
    count,      \* used_frames
    table,      \* the frame of each page table, 0 if there is none
    pte,        \* the page mapped at each virtual page, Unmapped if none
    bits,       \* the pages set in window_bitmap
    heap,       \* the frame below each committed page of the heap
    given,      \* history: the frames that callers were given and keep
    calls,      \* the window calls under way
    maps,       \* history: the mappings that callers were given and keep
    lost        \* history: window pages that nobody holds and nobody frees

pmm == <<used, count, given>>
paging == <<table, pte>>
window == <<bits, calls, maps, lost>>
vars == <<used, count, table, pte, bits, heap, given, calls, maps, lost>>

Frame == 0 .. Total - 1
Free == Frame \ used
Page == 0 .. WindowPages + HeapPages - 1
Window == 0 .. WindowPages - 1
Unmapped == -1

-----------------------------------------------------------------------------
(***************************************************************************)
(* pmm.c                                                                   *)
(***************************************************************************)

\* The frames that a region touches, cut at total_frames.
Touched(r) ==
    IF r.length = 0 THEN {}
    ELSE {f \in Frame : /\ r.start \div FrameSize <= f
                        /\ f < (r.start + r.length + FrameSize - 1) \div FrameSize}

\* pmm_init: all frames are used, the available ones are not, and low memory,
\* the kernel with the bitmap and the VGA page are again.
AtBoot == (Frame \ (UNION {Touched(r) : r \in Available}))
              \cup (UNION {Touched(r) : r \in Reserved})

\* The runs of n free frames, by their first frame; frames are the multiples
\* of a.
Runs(n, a) == {f \in Frame : f % a = 0 /\ f .. f + n - 1 \subseteq Free}
Align == {a \in 1 .. MaxCount : \E k \in 0 .. a : a = 2 ^ k}
FirstRun(n, a, f) == f \in Runs(n, a) /\ \A g \in Runs(n, a) : f <= g

\* Mutation: after a used frame the search goes on behind the whole run.
AlignedSearch_Skips(n, a) ==
    LET Next[i \in Nat] ==
            LET frees == {f \in Free : f >= i}
                first == CHOOSE f \in frees : \A g \in frees : f <= g
                at == ((first + a - 1) \div a) * a
                bad == {j \in 0 .. n - 1 : at + j \in used}
            IN  IF frees = {} \/ at + n > Total THEN 0
                ELSE IF bad = {} THEN at ELSE Next[at + n + 1]
    IN  Next[0]

\* The search of pmm_alloc_aligned: to the next free frame, up to a multiple
\* of a, and on behind the first used frame of the run.  0 is failure.
AlignedSearch(n, a) ==
    LET Next[i \in Nat] ==
            LET frees == {f \in Free : f >= i}
                first == CHOOSE f \in frees : \A g \in frees : f <= g
                at == ((first + a - 1) \div a) * a
                bad == {j \in 0 .. n - 1 : at + j \in used}
            IN  IF frees = {} \/ at + n > Total THEN 0
                ELSE IF bad = {} THEN at
                ELSE Next[at + (CHOOSE j \in bad : \A k \in bad : j <= k) + 1]
    IN  Next[0]

\* Frames change hands.
Take(B) == used' = used \cup B /\ count' = count + Cardinality(B)

\* pmm_alloc_frame, pmm_alloc_frames and pmm_alloc_aligned, whose searches
\* find the first run (AlignedExact says so of the last).
AllocFrames(n, a) ==
    /\ \E f \in Frame :
        /\ FirstRun(n, a, f)
        /\ Take(f .. f + n - 1)
        /\ given' = given \cup f .. f + n - 1
    /\ UNCHANGED <<paging, heap, window>>

\* pmm_alloc_at.
AllocAt(f, n) ==
    /\ f .. f + n - 1 \subseteq Free
    /\ Take(f .. f + n - 1)
    /\ given' = given \cup f .. f + n - 1
    /\ UNCHANGED <<paging, heap, window>>

\* Mutation: frames are counted without a look at their bits.
FreeFrames_NoTest(f, n) ==
    /\ f # 0 /\ f .. f + n - 1 \subseteq given \cup Free
    /\ used' = used \ (f .. f + n - 1)
    /\ count' = count - n
    /\ given' = given \ (f .. f + n - 1)
    /\ UNCHANGED <<paging, heap, window>>

\* Mutation: one frame too many.
FreeFrames_OneMore(f, n) ==
    /\ f # 0 /\ f .. f + n - 1 \subseteq given \cup Free
    /\ used' = used \ (f .. f + n)
    /\ count' = count - Cardinality((f .. f + n) \cap used)
    /\ given' = given \ (f .. f + n - 1)
    /\ UNCHANGED <<paging, heap, window>>

\* pmm_free_frame and pmm_free_frames, of frames that the caller holds or that
\* are free already.
FreeFrames(f, n) ==
    /\ f # 0 /\ f .. f + n - 1 \subseteq given \cup Free
    /\ used' = used \ (f .. f + n - 1)
    /\ count' = count - Cardinality((f .. f + n - 1) \cap used)
    /\ given' = given \ (f .. f + n - 1)
    /\ UNCHANGED <<paging, heap, window>>

-----------------------------------------------------------------------------
(***************************************************************************)
(* paging.c: tables are named by their level (1 is the lowest) and the     *)
(* part of the address space that they cover.                              *)
(***************************************************************************)
Level == 1 .. Depth
Covers(l, v) == <<l, v \div Fan ^ l>>
Table == {Covers(l, v) : l \in Level, v \in Page}
Missing(v) == {l \in Level : table[Covers(l, v)] = 0}

\* ensure_table, from the highest level down: the missing tables of the
\* levels D are allocated, in this order, each in the first free frame.
Ensured(F, v, D, g) ==
    /\ g \in [D -> F]
    /\ \A l \in D : /\ \A m \in Missing(v) : m > l => m \in D
                    /\ \A m \in D : g[m] = g[l] => m = l
                    /\ \A f \in F : f < g[l] => \E m \in D : m > l /\ g[m] = f

\* The tables and the entries below them once they are there.
WithTables(v, D, g) ==
    table' = [t \in Table |->
                IF \E l \in D : t = Covers(l, v) THEN g[t[1]] ELSE table[t]]

\* A new lowest table is cleared.
Cleared(v, D) ==
    [w \in Page |-> IF 1 \in D /\ Covers(1, w) = Covers(1, v) THEN Unmapped ELSE pte[w]]

\* map_page, with the free frames F; it takes the frames T.
MapPage(F, v, p, T) ==
    \E g \in [Missing(v) -> F] :
        /\ Ensured(F, v, Missing(v), g)
        /\ T = {g[l] : l \in Missing(v)}
        /\ WithTables(v, Missing(v), g)
        /\ pte' = [Cleared(v, Missing(v)) EXCEPT ![v] = p]

\* The frames run out half way: the tables that were made stay.
MapFails(F, v, D) ==
    /\ D \subseteq Missing(v) /\ D # Missing(v)
    /\ \E g \in [D -> F] :
        /\ Ensured(F, v, D, g)
        /\ F = {g[l] : l \in D}
        /\ WithTables(v, D, g)

\* heap_commit_to: a frame for the next page of the heap.
CommitPage ==
    /\ \E f \in Free, T \in SUBSET Free, v \in Page :
        /\ FirstRun(1, 1, f)
        /\ v = WindowPages + Cardinality(DOMAIN heap)
        /\ MapPage(Free \ {f}, v, f, T)
        /\ Take(T \cup {f})
        /\ heap' = [w \in DOMAIN heap \cup {v} |-> IF w = v THEN f ELSE heap[w]]
    /\ UNCHANGED <<given, window>>

\* Its frame goes back when the page cannot be mapped.
CommitFails ==
    /\ \E f \in Free, v \in Page, D \in SUBSET Level :
        /\ FirstRun(1, 1, f)
        /\ v = WindowPages + Cardinality(DOMAIN heap)
        /\ MapFails(Free \ {f}, v, D)
        /\ Take(Free \ {f})
        /\ pte' = Cleared(v, D)
    /\ UNCHANGED <<heap, given, window>>

-----------------------------------------------------------------------------
(***************************************************************************)
(* vmm.c: the calls of a client.  A call is about the n window pages from  *)
(* start, and has done the first at of them.                               *)
(***************************************************************************)
NoCall == [op |-> "none", start |-> 0, n |-> 0, at |-> 0]
Pages(c) == c.start .. c.start + c.n - 1
Mapping(s, n) == [start |-> s, n |-> n]

\* Mutation: the run may end one page behind the window.
WindowRuns_Long(n) ==
    {s \in Window : s .. s + n - 1 \subseteq (Window \cup {WindowPages}) \ bits}

\* find_free_run.
WindowRuns(n) == {s \in Window : s .. s + n - 1 \subseteq Window \ bits}

\* vmm_map_physical reserves the run, and lets go of the lock.
MapCall(c, n) ==
    /\ calls[c] = NoCall
    /\ \E s \in WindowRuns(n) :
        /\ \A t \in WindowRuns(n) : s <= t
        /\ bits' = bits \cup s .. s + n - 1
        /\ calls' = [calls EXCEPT ![c] = [op |-> "map", start |-> s, n |-> n, at |-> 0]]
    /\ UNCHANGED <<pmm, paging, heap, maps, lost>>

Doing(c, op) == calls[c].op = op /\ calls[c].at < calls[c].n
Here(c) == calls[c].start + calls[c].at
Done(c) == calls[c].start .. Here(c) - 1

\* One page is mapped; with the last one the call returns.
MapStep(c) ==
    /\ Doing(c, "map")
    /\ \E T \in SUBSET Free : MapPage(Free, Here(c), Device + calls[c].at, T) /\ Take(T)
    /\ IF calls[c].at + 1 < calls[c].n
       THEN /\ calls' = [calls EXCEPT ![c].at = @ + 1]
            /\ maps' = maps
       ELSE /\ calls' = [calls EXCEPT ![c] = NoCall]
            /\ maps' = maps \cup {Mapping(calls[c].start, calls[c].n)}
    /\ UNCHANGED <<heap, given, bits, lost>>

\* A page cannot be mapped.  vmm_lock is not held yet.
MapFailed(c) ==
    /\ Doing(c, "map")
    /\ \E D \in SUBSET Level :
        MapFails(Free, Here(c), D) /\ Take(Free) /\ pte' = Cleared(Here(c), D)
    /\ calls' = [calls EXCEPT ![c].op = "undo"]
    /\ UNCHANGED <<heap, given, bits, maps, lost>>

\* Under vmm_lock, the pages before it are unmapped, and their bits and its
\* own are cleared.  Those behind it stay set.
MapUndo(c) ==
    /\ Doing(c, "undo")
    /\ pte' = [w \in Page |-> IF w \in Done(c) THEN Unmapped ELSE pte[w]]
    /\ bits' = bits \ (Done(c) \cup {Here(c)})
    /\ lost' = lost \cup (Pages(calls[c]) \ (Done(c) \cup {Here(c)}))
    /\ calls' = [calls EXCEPT ![c] = NoCall]
    /\ UNCHANGED <<pmm, table, heap, maps>>

\* Mutation: the bits are cleared before the pages are unmapped.
UnmapCall_BitsFirst(c, m) ==
    /\ calls[c] = NoCall
    /\ calls' = [calls EXCEPT ![c] = [op |-> "unmap", start |-> m.start, n |-> m.n, at |-> 0]]
    /\ maps' = maps \ {m}
    /\ bits' = bits \ (m.start .. m.start + m.n - 1)
    /\ UNCHANGED <<pmm, paging, heap, lost>>

\* vmm_unmap_physical of a mapping that the caller holds.
UnmapCall(c, m) ==
    /\ calls[c] = NoCall
    /\ calls' = [calls EXCEPT ![c] = [op |-> "unmap", start |-> m.start, n |-> m.n, at |-> 0]]
    /\ maps' = maps \ {m}
    /\ UNCHANGED <<pmm, paging, heap, bits, lost>>

\* unmap_page leaves the tables where they are.
UnmapStep(c) ==
    /\ Doing(c, "unmap")
    /\ pte' = [pte EXCEPT ![Here(c)] = Unmapped]
    /\ calls' = [calls EXCEPT ![c].at = @ + 1]
    /\ UNCHANGED <<pmm, table, heap, bits, maps, lost>>

\* Mutation: the bit of the last page stays.
UnmapReturns_Short(c) ==
    /\ calls[c].op = "unmap" /\ calls[c].at = calls[c].n
    /\ bits' = bits \ (calls[c].start .. calls[c].start + calls[c].n - 2)
    /\ calls' = [calls EXCEPT ![c] = NoCall]
    /\ UNCHANGED <<pmm, paging, heap, maps, lost>>

\* The bits are cleared after the last page was unmapped.
UnmapReturns(c) ==
    /\ calls[c].op = "unmap" /\ calls[c].at = calls[c].n
    /\ bits' = bits \ Pages(calls[c])
    /\ calls' = [calls EXCEPT ![c] = NoCall]
    /\ UNCHANGED <<pmm, paging, heap, maps, lost>>

-----------------------------------------------------------------------------
Init ==
    /\ used = AtBoot
    /\ count = Cardinality(AtBoot)
    /\ table = [t \in Table |-> 0]
    /\ pte = [v \in Page |-> Unmapped]
    /\ bits = {}
    /\ heap = [v \in {} |-> 0]
    /\ given = {}
    /\ calls = [c \in Client |-> NoCall]
    /\ maps = {}
    /\ lost = {}

Next ==
    \/ \E n \in 1 .. MaxCount, a \in Align : AllocFrames(n, a)
    \/ \E f \in Frame, n \in 1 .. MaxCount : AllocAt(f, n) \/ FreeFrames(f, n)
    \/ CommitPage \/ CommitFails
    \/ \E c \in Client :
        \/ \E n \in 1 .. MaxCount : MapCall(c, n)
        \/ MapStep(c) \/ MapFailed(c) \/ MapUndo(c)
        \/ \E m \in maps : UnmapCall(c, m)
        \/ UnmapStep(c) \/ UnmapReturns(c)

Spec == Init /\ [][Next]_vars

-----------------------------------------------------------------------------
(***************************************************************************)
(* Properties.                                                             *)
(***************************************************************************)
Call == [op : {"none", "map", "undo", "unmap"}, start : Window, n : 0 .. MaxCount, at : 0 .. MaxCount]

\* Type invariant.
TypeOK ==
    /\ used \subseteq Frame
    /\ count \in 0 .. Total
    /\ table \in [Table -> Frame]
    /\ pte \in [Page -> Nat \cup {Unmapped}]
    /\ bits \subseteq Window
    /\ DOMAIN heap \subseteq Page \ Window
    /\ heap \in [DOMAIN heap -> Frame]
    /\ given \subseteq Frame
    /\ calls \in [Client -> Call]
    /\ maps \subseteq [start : Window, n : 1 .. MaxCount]
    /\ lost \subseteq Window

\* used_frames, from which pmm_get_free_frames and the statistics are
\* computed, is the number of bits that are set: also when frames are freed
\* twice and when a mapping fails half way.
CountExact == count = Cardinality(used)

TableFrames == {table[t] : t \in Table} \ {0}
HeapFrames == {heap[v] : v \in DOMAIN heap}

\* No frame has two uses: what was reserved at boot, page tables (each its
\* own frame), pages of the heap and what callers were given are disjoint,
\* and all of it is marked as used.
FramesExclusive ==
    /\ AtBoot \cup TableFrames \cup HeapFrames \cup given \subseteq used
    /\ \A t, u \in Table : table[t] = table[u] /\ table[t] # 0 => t = u
    /\ \A v, w \in DOMAIN heap : heap[v] = heap[w] => v = w
    /\ AtBoot \cap (TableFrames \cup HeapFrames \cup given) = {}
    /\ TableFrames \cap (HeapFrames \cup given) = {}
    /\ HeapFrames \cap given = {}

\* The page tables lead from v to the page p.
Leads(v, p) == pte[v] = p /\ \A l \in Level : table[Covers(l, v)] # 0

\* What callers hold of the window stays theirs, however their calls and
\* those of others interleave: mappings and calls under way are disjoint,
\* the pages of a mapping lead to the device memory that was asked for, and
\* so do the pages of the heap to its frames.
WindowIntact ==
    /\ \A m, k \in maps : Pages(m) \cap Pages(k) # {} => m = k
    /\ \A c \in Client : \A m \in maps : Pages(m) \cap Pages(calls[c]) = {}
    /\ \A c, d \in Client : Pages(calls[c]) \cap Pages(calls[d]) # {} => c = d
    /\ \A m \in maps : \A i \in 0 .. m.n - 1 : Leads(m.start + i, Device + i)
    /\ \A v \in DOMAIN heap : Leads(v, heap[v])

\* A set bit of the window belongs to a mapping, to a call under way or to a
\* run that a failed mapping left behind: window space is lost in no other
\* way.
WindowAccounted ==
    bits \subseteq (UNION {Pages(m) : m \in maps})
                  \cup (UNION {Pages(calls[c]) : c \in Client}) \cup lost

\* The search of pmm_alloc_aligned, which skips from a used frame to the next
\* candidate, finds the first aligned run whenever there is one.
AlignedExact ==
    \A n \in 1 .. MaxCount, a \in Align :
        LET f == AlignedSearch(n, a)
        IN  IF Runs(n, a) = {} THEN f = 0 ELSE FirstRun(n, a, f)
=============================================================================
