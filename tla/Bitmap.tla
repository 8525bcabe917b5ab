------------------------------- MODULE Bitmap -------------------------------
(***************************************************************************)
(* The block allocator of SmKFS (fs/smkfs/bitmap.c): one bit per data      *)
(* block, the count of free blocks in the superblock, and a cache of free  *)
(* counts per region that steers the search.                               *)
(*                                                                         *)
(* Every read or write of a bitmap block may fail, and the journal may     *)
(* refuse an entry (it is full): the calls then undo what they did with    *)
(* bitmap_set and bitmap_clear, which touch bits and both counts and may   *)
(* fail in turn.  Data blocks are numbered from 0 (data_start subtracted). *)
(***************************************************************************)
EXTENDS Integers, FiniteSets

CONSTANTS
    N,          \* data blocks: sb.total_blocks - sb.data_start
    R,          \* SMKFS_REGION_BLOCKS
    W,          \* sb.free_blocks is counted modulo W (2^64 in the code)
    MaxCount,   \* bound: blocks asked for at once
    MaxFaults   \* bound: failures of the drive and the allocator

ASSUME SizeAssumption ==
    {N, R, MaxCount} \subseteq Nat \ {0} /\ MaxFaults \in Nat /\ W \in Nat /\ W > N

VARIABLES
    used,       \* the blocks whose bit is set
    free,       \* sb.free_blocks
    rfree,      \* mnt->regions[].free_count
    hint,       \* mnt->alloc_hint_region
    mounted,    \* mnt->regions is loaded
    call,       \* the running allocation: blocks wanted, regions left to try
    owners,     \* history: how many callers were given a block and keep it
    refused,    \* history: the journal has refused an entry
    faults      \* history: drive and memory failures so far

vars == <<used, free, rfree, hint, mounted, call, owners, refused, faults>>

Block == 0 .. N - 1
RegionCount == (N + R - 1) \div R
Region == 0 .. RegionCount - 1
In(r) == {b \in Block : b \div R = r}

Idle == [want |-> 0, tried |-> 0]

Fine == faults' = faults
Fault == faults < MaxFaults /\ faults' = faults + 1

\* Mutation: the run is one block short.
Runs_Short(S, n) == {b \in S : b .. b + n - 2 \subseteq S \ used}

\* The runs of n free blocks within S, by their first block.
Runs(S, n) == {b \in S : b .. b + n - 1 \subseteq S \ used}

\* The run that the search loops find.
FirstRun(S, n) ==
    LET b == CHOOSE b \in Runs(S, n) : \A c \in Runs(S, n) : b <= c
    IN  b .. b + n - 1

Least(a, b) == IF a < b THEN a ELSE b
Most(a, b) == IF a > b THEN a ELSE b

-----------------------------------------------------------------------------
(***************************************************************************)
(* bitmap_set and bitmap_clear, used to undo.  They are called for each of *)
(* the blocks B; the ones whose bitmap block can be read are counted, the  *)
(* ones whose bitmap block can be written too are done.                    *)
(***************************************************************************)
State == [used |-> used, free |-> free, rfree |-> rfree]

Cleared(s, counted, done) ==
    [used |-> s.used \ done,
     free |-> (s.free + Cardinality(counted \cap s.used)) % W,
     rfree |-> [r \in Region |->
                    Least(Cardinality(In(r)),
                          s.rfree[r] + Cardinality(counted \cap s.used \cap In(r)))]]

Set(s, counted, done) ==
    [used |-> s.used \cup done,
     free |-> (s.free - Cardinality(counted \ s.used)) % W,
     rfree |-> [r \in Region |->
                    Most(0, s.rfree[r] - Cardinality((counted \ s.used) \cap In(r)))]]

\* The ways to go through the blocks B: nothing fails, or something does.
Passes(B, counted, done) ==
    /\ done \subseteq counted /\ counted \subseteq B
    /\ IF done = B THEN Fine ELSE Fault

Becomes(s) ==
    /\ used' = s.used
    /\ free' = s.free
    /\ rfree' = s.rfree

-----------------------------------------------------------------------------
(***************************************************************************)
(* Allocation.                                                             *)
(***************************************************************************)

\* bitmap_alloc and bitmap_alloc_range.
AllocCall(n) ==
    /\ mounted /\ call = Idle
    /\ call' = [want |-> n, tried |-> IF n <= R THEN 0 ELSE RegionCount]
    /\ UNCHANGED <<used, free, rfree, hint, mounted, owners, refused, faults>>

\* The region the loop has come to, and that it has come to one at all.
Here == (hint + call.tried) % RegionCount
Trying == mounted /\ call # Idle /\ call.tried < RegionCount
NextRegion == call' = [call EXCEPT !.tried = @ + 1]

\* The caller is given the blocks B.
Give(B) == owners' = [b \in Block |-> IF b \in B THEN owners[b] + 1 ELSE owners[b]]

\* bitmap_alloc_in_region finds no room, or fails before it sets a bit.
RegionSkipped ==
    /\ Trying
    /\ \/ Fine /\ (rfree[Here] < call.want \/ Runs(In(Here), call.want) = {})
       \/ Fault /\ rfree[Here] >= call.want
    /\ NextRegion
    /\ UNCHANGED <<used, free, rfree, hint, mounted, owners, refused>>

\* bitmap_alloc_in_region sets the bits, and the journal takes the entry.
RegionGiven ==
    /\ Trying
    /\ rfree[Here] >= call.want
    /\ Runs(In(Here), call.want) # {}
    /\ LET B == FirstRun(In(Here), call.want) IN
        /\ used' = used \cup B
        /\ Give(B)
    /\ free' = (free - call.want) % W
    /\ rfree' = [rfree EXCEPT ![Here] = @ - call.want]
    /\ hint' = IF call.want = 1 THEN Here ELSE (Here + 1) % RegionCount
    /\ call' = Idle
    /\ UNCHANGED <<mounted, refused, faults>>

\* The journal refuses the entry: the bits are cleared again and the region
\* is passed over, but its count is taken down all the same.
RegionRefused ==
    /\ Trying
    /\ rfree[Here] >= call.want
    /\ Runs(In(Here), call.want) # {}
    /\ LET B == FirstRun(In(Here), call.want)
           s == [State EXCEPT !.used = used \cup B, !.free = (free - call.want) % W]
       IN  \E counted, done \in SUBSET B :
            /\ Passes(B, counted, done)
            /\ used' = Cleared(s, counted, done).used
            /\ free' = Cleared(s, counted, done).free
            /\ rfree' = [Cleared(s, counted, done).rfree EXCEPT ![Here] = @ - call.want]
    /\ refused' = TRUE
    /\ NextRegion
    /\ UNCHANGED <<hint, mounted, owners>>

\* No region could serve: bitmap_alloc_range_linear.
Linear == mounted /\ call # Idle /\ call.tried = RegionCount

\* The counts after the linear search has taken B.
Counted(s, B) ==
    [s EXCEPT !.rfree = [r \in Region |->
                            Most(0, s.rfree[r] - Cardinality(B \cap In(r)))]]

\* It finds nothing, or cannot read a bitmap block.
LinearFails ==
    /\ Linear
    /\ \/ Fine /\ Runs(Block, call.want) = {}
       \/ Fault
    /\ call' = Idle
    /\ UNCHANGED <<used, free, rfree, hint, mounted, owners, refused>>

\* It fails with some of the bits set already: they stay.
LinearLeaks ==
    /\ Linear
    /\ Fault
    /\ Runs(Block, call.want) # {}
    /\ LET B == FirstRun(Block, call.want)
       IN  \E b \in B : used' = used \cup {c \in B : c < b}
    /\ call' = Idle
    /\ UNCHANGED <<free, rfree, hint, mounted, owners, refused>>

LinearGiven ==
    /\ Linear
    /\ Runs(Block, call.want) # {}
    /\ LET B == FirstRun(Block, call.want) IN
        /\ Becomes(Counted([State EXCEPT !.used = used \cup B,
                                         !.free = (free - call.want) % W], B))
        /\ Give(B)
    /\ call' = Idle
    /\ UNCHANGED <<hint, mounted, refused, faults>>

\* The journal refuses the entry: the bits are cleared again.
LinearRefused ==
    /\ Linear
    /\ Runs(Block, call.want) # {}
    /\ LET B == FirstRun(Block, call.want)
           s == [State EXCEPT !.used = used \cup B, !.free = (free - call.want) % W]
       IN  \E counted, done \in SUBSET B :
            /\ Passes(B, counted, done)
            /\ Becomes(Counted(Cleared(s, counted, done), B))
    /\ refused' = TRUE
    /\ call' = Idle
    /\ UNCHANGED <<hint, mounted, owners>>

-----------------------------------------------------------------------------
(***************************************************************************)
(* Freeing.  The callers free what they were given and drop it whatever    *)
(* the call returns: none of them looks.                                   *)
(***************************************************************************)
Ready == mounted /\ call = Idle
Drop(B) == owners' = [b \in Block |-> IF b \in B THEN owners[b] - 1 ELSE owners[b]]
AllOwned(B) == \A b \in B : owners[b] > 0

\* The state after the loop of bitmap_free_range over the blocks B, of which
\* the last one may have been counted and not written.
Released(B, written) ==
    [used |-> used \ written,
     free |-> free,
     rfree |-> [r \in Region |->
                    Least(Cardinality(In(r)),
                          rfree[r] + Cardinality(B \cap used \cap In(r)))]]

\* Mutation: sb.free_blocks is not raised.
Free_NoCount(B) ==
    /\ Ready /\ AllOwned(B)
    /\ Becomes(Released(B, B))
    /\ Drop(B)
    /\ UNCHANGED <<hint, mounted, call, refused, faults>>

\* bitmap_free_range, the journal taking the entry.
Free(B) ==
    /\ Ready /\ AllOwned(B)
    /\ LET s == Released(B, B)
       IN  Becomes([s EXCEPT !.free = (free + Cardinality(B \cap used)) % W])
    /\ Drop(B)
    /\ UNCHANGED <<hint, mounted, call, refused, faults>>

\* The drive fails at a block of the range: the ones before it are free.
FreeCut(B) ==
    /\ Ready /\ AllOwned(B)
    /\ Fault
    /\ \E b \in B, counted \in BOOLEAN :
        LET before == {c \in B : c < b}
        IN  Becomes(Released(IF counted THEN before \cup {b} ELSE before, before))
    /\ Drop(B)
    /\ UNCHANGED <<hint, mounted, call, refused>>

\* The journal refuses the entry: as many bits as were cleared are set
\* again, from the start of the range; bitmap_set takes sb.free_blocks down,
\* which has not been raised.
FreeRefused(B) ==
    /\ Ready /\ AllOwned(B)
    /\ B \cap used # {}
    /\ LET again == {b \in B : Cardinality({c \in B : c < b}) < Cardinality(B \cap used)}
       IN  \E counted, done \in SUBSET again :
            /\ Passes(again, counted, done)
            /\ Becomes(Set(Released(B, B), counted, done))
    /\ Drop(B)
    /\ refused' = TRUE
    /\ UNCHANGED <<hint, mounted, call>>

\* A caller that cannot go on takes its allocation back with bitmap_clear.
GiveBack(b) ==
    /\ Ready /\ AllOwned({b})
    /\ \E counted, done \in SUBSET {b} :
        /\ Passes({b}, counted, done)
        /\ Becomes(Cleared(State, counted, done))
    /\ Drop({b})
    /\ UNCHANGED <<hint, mounted, call, refused>>

-----------------------------------------------------------------------------
\* Mutation: the count of a region starts from a full region of R blocks.
InitRegions_Full ==
    /\ ~mounted
    /\ rfree' = [r \in Region |-> R - Cardinality(In(r) \cap used)]
    /\ hint' = 0
    /\ mounted' = TRUE
    /\ UNCHANGED <<used, free, call, owners, refused, faults>>

\* bitmap_init_regions, at mount.  (If it fails the mount fails.)
InitRegions ==
    /\ ~mounted
    /\ rfree' = [r \in Region |-> Cardinality(In(r)) - Cardinality(In(r) \cap used)]
    /\ hint' = 0
    /\ mounted' = TRUE
    /\ UNCHANGED <<used, free, call, owners, refused, faults>>

\* bitmap_shutdown, at unmount.
Shutdown ==
    /\ Ready
    /\ mounted' = FALSE
    /\ hint' = 0
    /\ rfree' = [r \in Region |-> 0]
    /\ UNCHANGED <<used, free, call, owners, refused, faults>>

\* A freshly made file system, before it is mounted.
Init ==
    /\ used = {}
    /\ free = N
    /\ rfree = [r \in Region |-> 0]
    /\ hint = 0
    /\ mounted = FALSE
    /\ call = Idle
    /\ owners = [b \in Block |-> 0]
    /\ refused = FALSE
    /\ faults = 0

\* The ranges a caller may free.
Ranges == {a .. b : a, b \in Block} \ {{}}

Next ==
    \/ InitRegions
    \/ \E n \in 1 .. MaxCount : AllocCall(n)
    \/ RegionSkipped
    \/ RegionGiven
    \/ RegionRefused
    \/ LinearFails
    \/ LinearLeaks
    \/ LinearGiven
    \/ LinearRefused
    \/ \E B \in Ranges : Free(B) \/ FreeCut(B) \/ FreeRefused(B)
    \/ \E b \in Block : GiveBack(b)
    \/ Shutdown

Spec == Init /\ [][Next]_vars

-----------------------------------------------------------------------------
(***************************************************************************)
(* Properties.                                                             *)
(***************************************************************************)

\* No block is given to two callers, and a block that some caller keeps is
\* marked as used: through both searches, refusals of the journal with their
\* undo, and drive failures half way through a range.
Exclusive == \A b \in Block : owners[b] <= 1 /\ (owners[b] = 1 => b \in used)

\* As long as the drive has not failed, the count of a region never promises
\* more free blocks than the region has, whatever the journal refused: a
\* search that trusts it finds room if it has the right shape.
RegionHonest ==
    mounted /\ faults = 0 => \A r \in Region : rfree[r] <= Cardinality(In(r) \ used)

\* As long as neither the drive nor the journal has failed a call, both
\* counts are exact.
CountsExact ==
    faults = 0 /\ ~refused =>
        /\ free = Cardinality(Block \ used)
        /\ mounted => \A r \in Region : rfree[r] = Cardinality(In(r) \ used)

\* smkfs_fsck: a count of free blocks above the number of data blocks is a
\* "free_blocks mismatch".  Without drive failures it never arises.
FreeBlocksSane == faults = 0 => free <= N
=============================================================================
