---------------------------- MODULE VolumeProofs ----------------------------
(***************************************************************************)
(* Proofs about the allocation of a volume.  SmKFS: the block allocator    *)
(* never gives a block to two callers, the count of a region promises no   *)
(* block that the region does not have while the drive works, and both     *)
(* counts are exact while the journal refuses nothing either, for every    *)
(* number of blocks, size of a region, size of a request, and number of    *)
(* drive failures and refusals of the journal.  AMFS: no two inodes share  *)
(* a block, and every file's blocks are marked, for every number of        *)
(* inodes, blocks, names and paths.                                        *)
(***************************************************************************)
EXTENDS Bitmap, Amfs, TLAPS, WellFoundedInduction, FiniteSetTheorems

-----------------------------------------------------------------------------
\* A search returns the blocks from the start of some run of free blocks.
LEMMA FirstRunStarts ==
    ASSUME NEW S \in SUBSET Block, NEW n, Runs(S, n) # {}
    PROVE  \E b \in Runs(S, n) : FirstRun(S, n) = b .. b + n - 1
<1>1. Runs(S, n) \subseteq Nat
  <2>1. Block \subseteq Nat
    BY SizeAssumption DEF Block
  <2>2. Runs(S, n) \subseteq S
    BY Zenon DEF Runs
  <2>3. QED
    BY <2>1, <2>2
<1>2. PICK x \in Runs(S, n) : \A y \in Runs(S, n) : ~(<<y, x>> \in OpToRel(<, Nat))
  BY <1>1, WFMin, NatLessThanWellFounded
<1>3. \A y \in Runs(S, n) : x <= y
  <2>1. \A a, b \in Nat : a < b => <<a, b>> \in OpToRel(<, Nat)
    BY Zenon DEF OpToRel
  <2>2. \A y \in Runs(S, n) : ~(y < x)
    BY <1>1, <1>2, <2>1, Zenon
  <2>3. QED
    BY <1>1, <2>2
<1> QED BY <1>2, <1>3 DEF FirstRun

\* A search finds only free blocks.
LEMMA FirstRunIsFree ==
    ASSUME NEW S \in SUBSET Block, NEW n, Runs(S, n) # {}
    PROVE  FirstRun(S, n) \subseteq Block \ used
<1>1. PICK b \in Runs(S, n) : FirstRun(S, n) = b .. b + n - 1
  BY FirstRunStarts
<1>2. b .. b + n - 1 \subseteq S \ used
  BY <1>1 DEF Runs
<1> QED BY <1>1, <1>2

\* Exclusive with the types it needs; it does not depend on the counts.
Inv ==
    /\ used \subseteq Block
    /\ owners \in [Block -> Nat]
    /\ Exclusive

\* Giving blocks that were free and are now marked.
LEMMA GiveKeeps ==
    ASSUME Inv, NEW B \in SUBSET (Block \ used), Give(B), used' = used \cup B
    PROVE  Inv'
<1>1. owners' \in [Block -> Nat]
  BY DEF Inv, Give
<1>2. \A b \in Block : owners'[b] = IF b \in B THEN owners[b] + 1 ELSE owners[b]
  BY DEF Give
<1>3. \A b \in B : owners[b] = 0
  BY DEF Inv, Exclusive
<1>4. QED
  BY <1>1, <1>2, <1>3 DEF Inv, Exclusive

\* Giving blocks up, whatever becomes of their bits.
LEMMA DropKeeps ==
    ASSUME Inv, NEW B \in SUBSET Block, AllOwned(B), Drop(B),
           used' \subseteq Block, used \ B \subseteq used'
    PROVE  Inv'
<1>1. \A b \in B : owners[b] = 1
  BY DEF Inv, Exclusive, AllOwned
<1>2. \A b \in Block : owners'[b] = IF b \in B THEN owners[b] - 1 ELSE owners[b]
  BY DEF Drop
<1>3. owners' \in [Block -> Nat]
  BY <1>1 DEF Inv, Drop
<1>4. QED
  BY <1>1, <1>2, <1>3 DEF Inv, Exclusive

\* Setting bits nobody is given (leaks) and leaving the owners alone.
LEMMA MoreKeeps ==
    ASSUME Inv, owners' = owners, used \subseteq used', used' \subseteq Block
    PROVE  Inv'
  BY DEF Inv, Exclusive

LEMMA InitInv == Init => Inv
  BY DEF Init, Inv, Exclusive

\* One case per action.
LEMMA NextInv == Inv /\ [Next]_vars => Inv'
<1>1. SUFFICES ASSUME Inv, [Next]_vars PROVE Inv'
  OBVIOUS
<1>u. used \subseteq Block
  BY <1>1 DEF Inv
<1>2. CASE UNCHANGED vars
  BY <1>1, <1>2, <1>u, MoreKeeps DEF vars
<1>3. CASE InitRegions \/ Shutdown \/ RegionSkipped \/ LinearFails
           \/ \E n \in 1 .. MaxCount : AllocCall(n)
  BY <1>1, <1>3, <1>u, MoreKeeps
  DEF InitRegions, Shutdown, RegionSkipped, LinearFails, AllocCall
<1>4. CASE RegionGiven
  <2>1. In(Here) \subseteq Block
    BY DEF In
  <2>2. FirstRun(In(Here), call.want) \subseteq Block \ used
    BY <1>4, <2>1, FirstRunIsFree DEF RegionGiven
  <2>3. QED
    BY <1>1, <1>4, <2>2, GiveKeeps DEF RegionGiven
<1>5. CASE RegionRefused
  <2>1. In(Here) \subseteq Block
    BY DEF In
  <2>2. PICK B : B = FirstRun(In(Here), call.want)
    OBVIOUS
  <2>3. B \subseteq Block \ used
    BY <1>5, <2>1, <2>2, FirstRunIsFree DEF RegionRefused
  <2>4. PICK done \in SUBSET B : used' = (used \cup B) \ done
    BY <1>5, <2>2 DEF RegionRefused, Cleared, State
  <2>5. owners' = owners
    BY <1>5 DEF RegionRefused
  <2>6. QED
    BY <1>1, <1>u, <2>3, <2>4, <2>5, MoreKeeps
<1>6. CASE LinearLeaks
  <2>1. PICK B : B = FirstRun(Block, call.want)
    OBVIOUS
  <2>2. B \subseteq Block \ used
    BY <1>6, <2>1, FirstRunIsFree DEF LinearLeaks
  <2>3. PICK b \in B : used' = used \cup {c \in B : c < b}
    BY <1>6, <2>1 DEF LinearLeaks
  <2>4. owners' = owners
    BY <1>6 DEF LinearLeaks
  <2>5. QED
    BY <1>1, <1>u, <2>2, <2>3, <2>4, MoreKeeps
<1>7. CASE LinearGiven
  <2>1. PICK B : B = FirstRun(Block, call.want)
    OBVIOUS
  <2>2. B \subseteq Block \ used
    BY <1>7, <2>1, FirstRunIsFree DEF LinearGiven
  <2>3. used' = used \cup B /\ Give(B)
    BY <1>7, <2>1 DEF LinearGiven, Becomes, Counted, State
  <2>4. QED
    BY <1>1, <2>2, <2>3, GiveKeeps
<1>8. CASE LinearRefused
  <2>1. PICK B : B = FirstRun(Block, call.want)
    OBVIOUS
  <2>2. B \subseteq Block \ used
    BY <1>8, <2>1, FirstRunIsFree DEF LinearRefused
  <2>3. PICK done \in SUBSET B : used' = (used \cup B) \ done
    BY <1>8, <2>1 DEF LinearRefused, Becomes, Counted, Cleared, State
  <2>4. owners' = owners
    BY <1>8 DEF LinearRefused
  <2>5. QED
    BY <1>1, <1>u, <2>2, <2>3, <2>4, MoreKeeps
<1>9. ASSUME NEW B \in Ranges, Free(B) \/ FreeCut(B) \/ FreeRefused(B)
      PROVE  Inv'
  <2>1. B \subseteq Block
    BY SizeAssumption DEF Ranges, Block
  <2>2. AllOwned(B) /\ Drop(B)
    BY <1>9 DEF Free, FreeCut, FreeRefused
  <2>3. used' \subseteq Block /\ used \ B \subseteq used'
    <3>1. CASE Free(B)
      BY <1>u, <3>1 DEF Free, Becomes, Released
    <3>2. CASE FreeCut(B)
      <4>1. PICK b \in B : used' = used \ {c \in B : c < b}
        BY <3>2 DEF FreeCut, Becomes, Released
      <4>2. QED
        BY <1>u, <4>1
    <3>3. CASE FreeRefused(B)
      <4>1. PICK done \in SUBSET B : used' = (used \ B) \cup done
        BY <3>3 DEF FreeRefused, Becomes, Released, Set
      <4>2. QED
        BY <1>u, <2>1, <4>1
    <3>4. QED
      BY <1>9, <3>1, <3>2, <3>3
  <2>4. QED
    BY <1>1, <2>1, <2>2, <2>3, DropKeeps
<1>10. ASSUME NEW b \in Block, GiveBack(b) PROVE Inv'
  <2>1. AllOwned({b}) /\ Drop({b})
    BY <1>10 DEF GiveBack
  <2>2. PICK done \in SUBSET {b} : used' = used \ done
    BY <1>10 DEF GiveBack, Becomes, Cleared, State
  <2>3. QED
    BY <1>1, <1>u, <2>1, <2>2, DropKeeps
<1>11. QED
  BY <1>1, <1>2, <1>3, <1>4, <1>5, <1>6, <1>7, <1>8, <1>9, <1>10 DEF Next

\* No block is ever given to two callers, and what a caller keeps is marked.
THEOREM AllocationsExclusive == Spec => []Exclusive
<1>1. Inv => Exclusive
  BY DEF Inv
<1>2. QED
  BY <1>1, InitInv, NextInv, PTL DEF Spec

-----------------------------------------------------------------------------
(***************************************************************************)
(* The counts.  What a search is asked for is fixed while it goes through  *)
(* the regions, and both counts follow the bits step by step; owners say   *)
(* that the blocks a caller frees were marked, so none is counted twice.   *)
(***************************************************************************)
CallInv ==
    /\ faults \in Nat /\ hint \in Nat
    /\ call \in [want : Nat, tried : Nat]
    /\ call # Idle => call.want > 0

\* The cache of the regions never promises too much.
Honest(rf, us) == rf \in [Region -> Int] /\ (mounted => \A r \in Region : rf[r] <= Cardinality(In(r) \ us))

\* Both counts are those of the bits us.
Exact(fr, rf, us) ==
    fr = Cardinality(Block \ us) /\ (mounted => \A r \in Region : rf[r] = Cardinality(In(r) \ us))

CountInv ==
    /\ Inv /\ CallInv
    /\ faults = 0 => Honest(rfree, used)
    /\ faults = 0 /\ ~refused => Exact(free, rfree, used)

\* Sets of blocks are finite, and there are N blocks.
LEMMA BlocksFinite ==
    /\ \A S \in SUBSET Block : IsFiniteSet(S) /\ Cardinality(S) \in Nat /\ Cardinality(S) <= N
    /\ \A r : In(r) \in SUBSET Block
<1>1. IsFiniteSet(Block) /\ Cardinality(Block) = N
  <2> DEFINE a == 0
             b == N - 1
  <2>1. a \in Int /\ b \in Int /\ N \in Nat \ {0}
    BY SizeAssumption
  <2> HIDE DEF a, b
  <2>2. IsFiniteSet(a .. b) /\ Cardinality(a .. b) = IF a > b THEN 0 ELSE b - a + 1
    BY <2>1, FS_Interval
  <2>3. IsFiniteSet(Block)
    BY <2>2 DEF Block, a, b
  <2>4. Cardinality(Block) = IF 0 > N - 1 THEN 0 ELSE N - 1 - 0 + 1
    BY <2>2 DEF Block, a, b
  <2> QED BY <2>1, <2>3, <2>4
<1>2. ASSUME NEW S \in SUBSET Block PROVE IsFiniteSet(S) /\ Cardinality(S) \in Nat /\ Cardinality(S) <= N
  BY <1>1, FS_Subset, FS_CardinalityType
<1> QED BY <1>2 DEF In

\* Marking free blocks B takes them from the free blocks of S.
LEMMA CountTaken ==
    ASSUME NEW us \in SUBSET Block, NEW B \in SUBSET (Block \ us), NEW S \in SUBSET Block
    PROVE  /\ Cardinality(S \ (us \cup B)) = Cardinality(S \ us) - Cardinality(B \cap S)
           /\ Cardinality(B \cap S) <= Cardinality(S \ us)
           /\ Cardinality(S \ us) \in Nat /\ Cardinality(B \cap S) \in Nat /\ Cardinality(S \ (us \cup B)) \in Nat
<1> DEFINE X == S \ us
           T == B \cap S
<1>1. IsFiniteSet(X) /\ X \ T = S \ (us \cup B) /\ X \cap T = T /\ T \subseteq X
  BY BlocksFinite
<1>2. Cardinality(X \ T) = Cardinality(X) - Cardinality(X \cap T)
  BY <1>1, FS_Difference
<1>3. Cardinality(T) <= Cardinality(X)
  BY <1>1, FS_Subset
<1>4. Cardinality(X) \in Nat /\ Cardinality(T) \in Nat /\ Cardinality(S \ (us \cup B)) \in Nat
  BY BlocksFinite
<1> QED BY <1>1, <1>2, <1>3, <1>4

\* Clearing the bits of B adds those that were set to the free blocks of S.
LEMMA CountFreed ==
    ASSUME NEW us \in SUBSET Block, NEW B \in SUBSET Block, NEW S \in SUBSET Block
    PROVE  /\ Cardinality(S \ (us \ B)) = Cardinality(S \ us) + Cardinality(B \cap us \cap S)
           /\ Cardinality(S \ (us \ B)) <= Cardinality(S)
           /\ Cardinality(S \ us) \in Nat /\ Cardinality(B \cap us \cap S) \in Nat
           /\ Cardinality(S \ (us \ B)) \in Nat /\ Cardinality(S) \in Nat
<1> DEFINE X == S \ us
           T == B \cap us \cap S
<1>1. IsFiniteSet(X) /\ IsFiniteSet(T) /\ IsFiniteSet(S) /\ X \cup T = S \ (us \ B) /\ X \cap T = {}
  BY BlocksFinite
<1>2. Cardinality(X \cup T) = Cardinality(X) + Cardinality(T) - Cardinality(X \cap T)
  BY <1>1, FS_Union
<1>3. Cardinality(X \cap T) = 0
  BY <1>1, FS_EmptySet
<1>4. Cardinality(S \ (us \ B)) <= Cardinality(S)
  <2>1. S \ (us \ B) \in SUBSET S
    OBVIOUS
  <2> QED BY <1>1, <2>1, FS_Subset
<1>5. Cardinality(X) \in Nat /\ Cardinality(T) \in Nat /\ Cardinality(S \ (us \ B)) \in Nat /\ Cardinality(S) \in Nat
  BY BlocksFinite
<1>6. Cardinality(S \ (us \ B)) = Cardinality(X) + Cardinality(T) - 0
  BY <1>1, <1>2, <1>3
<1> HIDE DEF X, T
<1>7. Cardinality(S \ (us \ B)) = Cardinality(X) + Cardinality(T)
  BY <1>5, <1>6
<1> QED BY <1>4, <1>5, <1>7 DEF X, T

\* A count below W is stored as it is.
LEMMA ModSmall == \A x \in Nat : x <= N => x % W = x
  BY SizeAssumption

\* A search returns a run of the length it was asked for, of free blocks of S.
LEMMA FirstRunSize ==
    ASSUME NEW S \in SUBSET Block, NEW n \in Nat \ {0}, Runs(S, n) # {}
    PROVE  FirstRun(S, n) \subseteq S \ used /\ Cardinality(FirstRun(S, n)) = n
<1>1. PICK b \in Runs(S, n) : FirstRun(S, n) = b .. b + n - 1
  BY FirstRunStarts
<1>2. b .. b + n - 1 \subseteq S \ used /\ b \in Int
  BY <1>1, SizeAssumption DEF Runs, Block
<1>3. Cardinality(b .. b + n - 1) = n
  <2> DEFINE e == b + n - 1
  <2>1. b \in Int /\ e \in Int /\ b <= e /\ e - b + 1 = n
    BY <1>2
  <2> HIDE DEF e
  <2>2. Cardinality(b .. e) = n
    BY <2>1, FS_Interval
  <2> QED BY <2>2 DEF e
<1> QED BY <1>1, <1>2, <1>3

\* The request of the running call is well formed, and failures are only counted up.
LEMMA CallTypes ==
    ASSUME CallInv, [Next]_vars
    PROVE  CallInv' /\ (faults' = 0 => faults = 0 /\ ~Fault) /\ (refused => refused')
<1>1. /\ faults \in Nat /\ hint \in Nat /\ call \in [want : Nat, tried : Nat] /\ (call # Idle => call.want > 0)
      /\ RegionCount \in Int
  BY SizeAssumption DEF CallInv, RegionCount
<1>2. faults' = faults \/ Fault
  BY DEF Next, InitRegions, AllocCall, RegionSkipped, RegionGiven, RegionRefused, LinearFails, LinearLeaks,
         LinearGiven, LinearRefused, Free, FreeCut, FreeRefused, GiveBack, Shutdown, Passes, Fine, vars
<1>3. faults' \in Nat /\ (faults' = 0 => faults = 0 /\ ~Fault)
  BY <1>1, <1>2 DEF Fault
<1>4. refused => refused'
  BY DEF Next, InitRegions, AllocCall, RegionSkipped, RegionGiven, RegionRefused, LinearFails, LinearLeaks,
         LinearGiven, LinearRefused, Free, FreeCut, FreeRefused, GiveBack, Shutdown, vars
<1>5. ASSUME Trying PROVE Here \in Nat /\ (Here + 1) % RegionCount \in Nat
  <2>1. RegionCount > 0
    BY <1>1, <1>5 DEF Trying
  <2> QED BY <1>1, <2>1 DEF Here
<1>6. hint' \in Nat
  <2>1. CASE RegionGiven
    BY <1>5, <2>1 DEF RegionGiven
  <2>2. CASE hint' = hint \/ hint' = 0
    BY <1>1, <2>2
  <2> QED BY <2>1, <2>2 DEF Next, InitRegions, AllocCall, RegionSkipped, RegionRefused, LinearFails, LinearLeaks,
             LinearGiven, LinearRefused, Free, FreeCut, FreeRefused, GiveBack, Shutdown, vars
<1>7. call' \in [want : Nat, tried : Nat] /\ (call' # Idle => call'.want > 0)
  <2>1. CASE call' = call
    BY <1>1, <2>1
  <2>2. CASE call' = Idle
    BY <2>2 DEF Idle
  <2>3. CASE NextRegion /\ Trying
    <3>1. call'.want = call.want /\ call'.tried = call.tried + 1 /\ call' \in [want : Nat, tried : Nat] /\ call.want > 0
      BY <1>1, <2>3 DEF NextRegion, Trying
    <3> QED BY <3>1
  <2>4. ASSUME NEW n \in 1 .. MaxCount, AllocCall(n) PROVE call' \in [want : Nat, tried : Nat] /\ call'.want > 0
    <3>1. n \in Nat /\ n > 0
      BY SizeAssumption
    <3>2. RegionCount \in Nat
      BY SizeAssumption DEF RegionCount
    <3> QED BY <2>4, <3>1, <3>2 DEF AllocCall
  <2> QED BY <2>1, <2>2, <2>3, <2>4 DEF Next, InitRegions, RegionSkipped, RegionGiven, RegionRefused, LinearFails, LinearLeaks,
             LinearGiven, LinearRefused, Free, FreeCut, FreeRefused, GiveBack, Shutdown, vars
<1> QED BY <1>3, <1>4, <1>6, <1>7 DEF CallInv

\* Taking free blocks, each counted once, whether the count stops at 0 or not.
LEMMA TakeCounts ==
    ASSUME used \subseteq Block, mounted' = mounted, Honest(rfree, used),
           NEW B \in SUBSET (Block \ used), used' = used \cup B,
           rfree' \in [Region -> Int],
           \A r \in Region : \/ rfree'[r] = rfree[r] - Cardinality(B \cap In(r))
                             \/ rfree'[r] = Most(0, rfree[r] - Cardinality(B \cap In(r)))
    PROVE  /\ Honest(rfree, used)'
           /\ Exact(free, rfree, used) /\ free' = (free - Cardinality(B)) % W => Exact(free, rfree, used)'
<1> DEFINE c(r) == Cardinality(B \cap In(r))
           a(r) == Cardinality(In(r) \ used)
           z(r) == Cardinality(In(r) \ (used \cup B))
<1>0. used \in SUBSET Block
  OBVIOUS
<1>1. ASSUME NEW r \in Region
      PROVE  z(r) = a(r) - c(r) /\ c(r) <= a(r) /\ a(r) \in Nat /\ c(r) \in Nat /\ rfree[r] \in Int
  <2>1. In(r) \in SUBSET Block
    BY BlocksFinite
  <2>2. z(r) = a(r) - c(r) /\ c(r) <= a(r) /\ a(r) \in Nat /\ c(r) \in Nat
    BY <1>0, <2>1, CountTaken, ZenonT(60)
  <2> QED BY <2>2 DEF Honest
<1>4. \A r \in Region : rfree'[r] = rfree[r] - c(r) \/ rfree'[r] = Most(0, rfree[r] - c(r))
  OBVIOUS
<1>5. mounted => \A r \in Region : rfree[r] <= a(r)
  BY DEF Honest
<1>6. \A r \in Region : Cardinality(In(r) \ used)' = z(r)
  BY DEF In
<1>2. Honest(rfree, used)'
  <2> HIDE DEF a, c, z
  <2>1. mounted => \A r \in Region : rfree'[r] <= z(r)
    BY <1>1, <1>4, <1>5 DEF Most
  <2> QED BY <1>6, <2>1 DEF Honest
<1>3. ASSUME Exact(free, rfree, used), free' = (free - Cardinality(B)) % W
      PROVE  Exact(free, rfree, used)'
  <2>1. mounted => \A r \in Region : rfree'[r] = Cardinality(In(r) \ used')
    <3>1. mounted => \A r \in Region : rfree[r] = a(r)
      BY <1>3 DEF Exact
    <3> HIDE DEF a, c, z
    <3>2. mounted => \A r \in Region : rfree'[r] = z(r)
      BY <1>1, <1>4, <3>1 DEF Most
    <3> QED BY <3>2 DEF z
  <2>2. free' = Cardinality(Block \ used')
    <3>1. B \cap Block = B /\ Block \in SUBSET Block /\ Block \ (used \cup B) \in SUBSET Block
      OBVIOUS
    <3>2. /\ Cardinality(Block \ (used \cup B)) = Cardinality(Block \ used) - Cardinality(B)
          /\ Cardinality(Block \ (used \cup B)) \in Nat
      <4>1. /\ Cardinality(Block \ (used \cup B)) = Cardinality(Block \ used) - Cardinality(B \cap Block)
            /\ Cardinality(Block \ (used \cup B)) \in Nat
        <5> DEFINE S == Block
        <5>1. S \in SUBSET Block
          OBVIOUS
        <5> HIDE DEF S
        <5>2. /\ Cardinality(S \ (used \cup B)) = Cardinality(S \ used) - Cardinality(B \cap S)
              /\ Cardinality(S \ (used \cup B)) \in Nat
          BY <1>0, <5>1, CountTaken, ZenonT(60)
        <5> QED BY <5>2 DEF S
      <4> QED BY <3>1, <4>1
    <3>3. Cardinality(Block \ (used \cup B)) <= N
      BY <3>1, BlocksFinite
    <3>4. free - Cardinality(B) = Cardinality(Block \ (used \cup B))
      BY <1>3, <3>2 DEF Exact
    <3> QED BY <1>3, <3>2, <3>3, <3>4, ModSmall
  <2> QED BY <2>1, <2>2 DEF Exact
<1> QED BY <1>2, <1>3

\* Clearing bits, each block that was marked counted once.
LEMMA PutCounts ==
    ASSUME used \subseteq Block, mounted' = mounted, Honest(rfree, used),
           NEW B \in SUBSET Block, used' = used \ B,
           rfree' = [r \in Region |-> Least(Cardinality(In(r)), rfree[r] + Cardinality(B \cap used \cap In(r)))]
    PROVE  /\ Honest(rfree, used)'
           /\ Exact(free, rfree, used) /\ free' = (free + Cardinality(B \cap used)) % W => Exact(free, rfree, used)'
<1> DEFINE c(r) == Cardinality(B \cap used \cap In(r))
           a(r) == Cardinality(In(r) \ used)
           z(r) == Cardinality(In(r) \ (used \ B))
           m(r) == Cardinality(In(r))
<1>0. used \in SUBSET Block
  OBVIOUS
<1>1. ASSUME NEW r \in Region
      PROVE  z(r) = a(r) + c(r) /\ z(r) <= m(r) /\ a(r) \in Nat /\ c(r) \in Nat /\ m(r) \in Nat /\ rfree[r] \in Int
  <2>1. In(r) \in SUBSET Block
    BY BlocksFinite
  <2>2. z(r) = a(r) + c(r) /\ z(r) <= m(r) /\ a(r) \in Nat /\ c(r) \in Nat /\ m(r) \in Nat
    BY <1>0, <2>1, CountFreed, ZenonT(60)
  <2> QED BY <2>2 DEF Honest
<1>4. rfree' = [r \in Region |-> Least(m(r), rfree[r] + c(r))]
  OBVIOUS
<1>5. mounted => \A r \in Region : rfree[r] <= a(r)
  BY DEF Honest
<1>6. \A r \in Region : Cardinality(In(r) \ used)' = z(r)
  BY DEF In
<1>2. Honest(rfree, used)'
  <2> HIDE DEF a, c, z, m
  <2>1. rfree' \in [Region -> Int]
    BY <1>1, <1>4 DEF Least
  <2>2. mounted => \A r \in Region : rfree'[r] <= z(r)
    BY <1>1, <1>4, <1>5 DEF Least
  <2> QED BY <1>6, <2>1, <2>2 DEF Honest
<1>3. ASSUME Exact(free, rfree, used), free' = (free + Cardinality(B \cap used)) % W
      PROVE  Exact(free, rfree, used)'
  <2>1. mounted => \A r \in Region : rfree'[r] = Cardinality(In(r) \ used')
    <3>1. mounted => \A r \in Region : rfree[r] = a(r)
      BY <1>3 DEF Exact
    <3> HIDE DEF a, c, z, m
    <3>2. mounted => \A r \in Region : rfree'[r] = z(r)
      BY <1>1, <1>4, <3>1 DEF Least
    <3> QED BY <3>2 DEF z
  <2>2. free' = Cardinality(Block \ used')
    <3>1. (B \cap used) \cap Block = B \cap used /\ Block \in SUBSET Block /\ Block \ (used \ B) \in SUBSET Block
      OBVIOUS
    <3>2. /\ Cardinality(Block \ (used \ B)) = Cardinality(Block \ used) + Cardinality(B \cap used \cap Block)
          /\ Cardinality(Block \ (used \ B)) \in Nat
      <4> DEFINE S == Block
      <4>1. S \in SUBSET Block
        OBVIOUS
      <4> HIDE DEF S
      <4>2. /\ Cardinality(S \ (used \ B)) = Cardinality(S \ used) + Cardinality(B \cap used \cap S)
            /\ Cardinality(S \ (used \ B)) \in Nat
        BY <1>0, <4>1, CountFreed
      <4> QED BY <4>2 DEF S
    <3>3. Cardinality(Block \ (used \ B)) <= N
      BY <3>1, BlocksFinite
    <3>4. free + Cardinality(B \cap used) = Cardinality(Block \ (used \ B))
      BY <1>3, <3>1, <3>2 DEF Exact
    <3> QED BY <1>3, <3>2, <3>3, <3>4, ModSmall
  <2> QED BY <2>1, <2>2 DEF Exact
<1> QED BY <1>2, <1>3

\* A refused entry is undone: the bits are as before, and no count has gone up.
LEMMA UndoCounts ==
    ASSUME used \subseteq Block, mounted' = mounted, Honest(rfree, used), used' = used,
           rfree' \in [Region -> Int],
           \A r \in Region : rfree'[r] <= rfree[r] \/ rfree'[r] = 0
    PROVE  Honest(rfree, used)'
<1>1. ASSUME NEW r \in Region PROVE Cardinality(In(r) \ used) \in Nat /\ rfree[r] \in Int
  <2>1. In(r) \ used \in SUBSET Block
    BY BlocksFinite
  <2> QED BY <2>1, BlocksFinite DEF Honest
<1> QED BY <1>1 DEF Honest

\* Mounting counts the free blocks of each region.
LEMMA MountCounts ==
    ASSUME used \subseteq Block, InitRegions
    PROVE  /\ Honest(rfree, used)'
           /\ free = Cardinality(Block \ used) => Exact(free, rfree, used)'
<1>1. ASSUME NEW r \in Region
      PROVE  rfree'[r] = Cardinality(In(r) \ used) /\ Cardinality(In(r) \ used) \in Nat
  <2>1. In(r) \in SUBSET Block /\ IsFiniteSet(In(r)) /\ In(r) \ used \in SUBSET Block
    BY BlocksFinite
  <2>2. Cardinality(In(r) \ used) = Cardinality(In(r)) - Cardinality(In(r) \cap used)
    BY <2>1, FS_Difference
  <2>3. rfree'[r] = Cardinality(In(r)) - Cardinality(In(r) \cap used)
    BY DEF InitRegions
  <2> QED BY <2>1, <2>2, <2>3, BlocksFinite
<1>2. rfree' \in [Region -> Int]
  <2>1. \A r \in Region : rfree'[r] \in Int
    <3> DEFINE a(r) == Cardinality(In(r) \ used)
    <3>1. \A r \in Region : rfree'[r] = a(r) /\ a(r) \in Nat
      BY <1>1
    <3> HIDE DEF a
    <3> QED BY <3>1
  <2>2. rfree' = [r \in Region |-> rfree'[r]]
    <3> DEFINE n(r) == Cardinality(In(r)) - Cardinality(In(r) \cap used)
    <3>1. rfree' = [r \in Region |-> n(r)]
      BY DEF InitRegions
    <3> HIDE DEF n
    <3> QED BY <3>1
  <2> QED BY <2>1, <2>2
<1>3. used' = used /\ free' = free
  BY DEF InitRegions
<1> QED BY <1>1, <1>2, <1>3 DEF Honest, Exact

\* The run found in the region the search has come to: want blocks there, none elsewhere.
LEMMA RegionRun ==
    ASSUME CountInv, Trying, Runs(In(Here), call.want) # {},
           NEW B, B = FirstRun(In(Here), call.want)
    PROVE  /\ Here \in Region /\ call.want \in Nat \ {0}
           /\ B \in SUBSET (Block \ used) /\ Cardinality(B) = call.want
           /\ \A r \in Region : Cardinality(B \cap In(r)) = IF r = Here THEN call.want ELSE 0
<1>1. call.want \in Nat \ {0} /\ call.tried \in Nat /\ hint \in Nat
  BY DEF CountInv, CallInv, Trying
<1>2. Here \in Region
  <2>1. RegionCount \in Nat /\ RegionCount > 0
    BY <1>1, SizeAssumption DEF Trying, RegionCount
  <2> QED BY <1>1, <2>1 DEF Here, Region
<1>3. B \subseteq In(Here) \ used /\ Cardinality(B) = call.want
  <2>1. In(Here) \in SUBSET Block
    BY BlocksFinite
  <2> QED BY <1>1, <2>1, FirstRunSize
<1>4. B \cap In(Here) = B /\ \A r \in Region : r # Here => B \cap In(r) = {}
  BY <1>3 DEF In
<1>5. \A r \in Region : Cardinality(B \cap In(r)) = IF r = Here THEN call.want ELSE 0
  <2> SUFFICES ASSUME NEW r \in Region PROVE Cardinality(B \cap In(r)) = IF r = Here THEN call.want ELSE 0
    OBVIOUS
  <2>1. CASE r = Here
    BY <1>3, <1>4, <2>1
  <2>2. CASE r # Here
    <3>1. B \cap In(r) = {}
      BY <1>4, <2>2
    <3> QED BY <2>2, <3>1, FS_EmptySet
  <2> QED BY <2>1, <2>2
<1>6. B \in SUBSET (Block \ used)
  BY <1>3, BlocksFinite
<1> QED BY <1>1, <1>2, <1>3, <1>5, <1>6

\* The run found by the linear search.
LEMMA LinearRun ==
    ASSUME CountInv, Linear, Runs(Block, call.want) # {},
           NEW B, B = FirstRun(Block, call.want)
    PROVE  B \in SUBSET (Block \ used) /\ Cardinality(B) = call.want /\ call.want \in Nat
<1>1. call.want \in Nat \ {0}
  BY DEF CountInv, CallInv, Linear
<1> DEFINE S == Block
<1>2. S \in SUBSET Block
  OBVIOUS
<1> HIDE DEF S
<1>3. Runs(S, call.want) # {} => FirstRun(S, call.want) \subseteq S \ used /\ Cardinality(FirstRun(S, call.want)) = call.want
  BY <1>1, <1>2, FirstRunSize
<1> QED BY <1>1, <1>3 DEF S

\* The region's search gives its run: RegionGiven keeps both counts.
LEMMA RegionGivenCounts ==
    ASSUME CountInv, RegionGiven, faults = 0
    PROVE  Honest(rfree, used)' /\ (~refused' => Exact(free, rfree, used)')
<1> DEFINE B == FirstRun(In(Here), call.want)
<1>1. Trying /\ Runs(In(Here), call.want) # {}
  BY DEF RegionGiven
<1>2. /\ used' = used \cup B /\ mounted' = mounted /\ free' = (free - call.want) % W /\ refused' = refused
      /\ rfree' = [rfree EXCEPT ![Here] = @ - call.want]
  BY DEF RegionGiven
<1> HIDE DEF B
<1>3. /\ Here \in Region /\ call.want \in Nat \ {0}
      /\ B \in SUBSET (Block \ used) /\ Cardinality(B) = call.want
      /\ \A r \in Region : Cardinality(B \cap In(r)) = IF r = Here THEN call.want ELSE 0
  BY <1>1, RegionRun DEF B
<1>4. used \subseteq Block /\ Honest(rfree, used) /\ (~refused => Exact(free, rfree, used)) /\ rfree \in [Region -> Int]
  BY DEF CountInv, Inv, Honest
<1>5. rfree' \in [Region -> Int] /\ \A r \in Region : rfree'[r] = rfree[r] - Cardinality(B \cap In(r))
  <2>1. \A r \in Region : rfree'[r] = rfree[r] - (IF r = Here THEN call.want ELSE 0)
    BY <1>2, <1>3, <1>4
  <2>2. rfree' \in [Region -> Int]
    BY <1>2, <1>3, <1>4
  <2> QED BY <1>3, <2>1, <2>2
<1>6. free' = (free - Cardinality(B)) % W
  BY <1>2, <1>3
<1> QED BY <1>2, <1>3, <1>4, <1>5, <1>6, TakeCounts

\* The linear search gives its run.
LEMMA LinearGivenCounts ==
    ASSUME CountInv, LinearGiven, faults = 0
    PROVE  Honest(rfree, used)' /\ (~refused' => Exact(free, rfree, used)')
<1> DEFINE B == FirstRun(Block, call.want)
<1>1. Linear /\ Runs(Block, call.want) # {}
  BY DEF LinearGiven
<1>2. /\ used' = used \cup B /\ mounted' = mounted /\ free' = (free - call.want) % W /\ refused' = refused
      /\ rfree' = [r \in Region |-> Most(0, rfree[r] - Cardinality(B \cap In(r)))]
  BY DEF LinearGiven, Becomes, Counted, State
<1> HIDE DEF B
<1>3. B \in SUBSET (Block \ used) /\ Cardinality(B) = call.want
  BY <1>1, LinearRun DEF B
<1>4. used \subseteq Block /\ Honest(rfree, used) /\ (~refused => Exact(free, rfree, used)) /\ rfree \in [Region -> Int]
  BY DEF CountInv, Inv, Honest
<1>5. rfree' \in [Region -> Int] /\ \A r \in Region : rfree'[r] = Most(0, rfree[r] - Cardinality(B \cap In(r)))
  <2> DEFINE c(r) == Cardinality(B \cap In(r))
  <2>1. \A r \in Region : c(r) \in Nat
    <3>1. \A r \in Region : B \cap In(r) \in SUBSET Block
      BY BlocksFinite
    <3> QED BY <3>1, BlocksFinite
  <2>2. rfree' = [r \in Region |-> Most(0, rfree[r] - c(r))]
    BY <1>2
  <2> HIDE DEF c
  <2>3. rfree' \in [Region -> Int] /\ \A r \in Region : rfree'[r] = Most(0, rfree[r] - c(r))
    BY <1>4, <2>1, <2>2 DEF Most
  <2> QED BY <2>3 DEF c
<1>6. free' = (free - Cardinality(B)) % W
  BY <1>2, <1>3
<1> QED BY <1>2, <1>3, <1>4, <1>5, <1>6, TakeCounts

\* The journal refuses a region's entry and nothing fails: the bits are back.
LEMMA RegionRefusedCounts ==
    ASSUME CountInv, RegionRefused, faults = 0, ~Fault
    PROVE  Honest(rfree, used)'
<1> DEFINE B == FirstRun(In(Here), call.want)
           s == [State EXCEPT !.used = used \cup B, !.free = (free - call.want) % W]
           c(r) == Cardinality(B \cap In(r))
           m(r) == Cardinality(In(r))
<1>1. Trying /\ Runs(In(Here), call.want) # {} /\ mounted' = mounted /\ rfree[Here] >= call.want
  BY DEF RegionRefused
<1>2. /\ used' = Cleared(s, B, B).used
      /\ rfree' = [Cleared(s, B, B).rfree EXCEPT ![Here] = @ - call.want]
  <2>1. PICK counted, done \in SUBSET B :
            /\ Passes(B, counted, done)
            /\ used' = Cleared(s, counted, done).used
            /\ rfree' = [Cleared(s, counted, done).rfree EXCEPT ![Here] = @ - call.want]
    BY DEF RegionRefused
  <2>2. done = B /\ counted = B
    BY <2>1 DEF Passes
  <2> QED BY <2>1, <2>2
<1>3. s.used = used \cup B /\ s.rfree = rfree
  BY DEF State
<1> HIDE DEF B
<1>4. /\ Here \in Region /\ call.want \in Nat \ {0} /\ B \in SUBSET (Block \ used)
      /\ \A r \in Region : c(r) = IF r = Here THEN call.want ELSE 0
  BY <1>1, RegionRun DEF B
<1>5. used' = used
  <2> HIDE DEF s
  <2> QED BY <1>2, <1>3, <1>4 DEF Cleared
<1>6. Cleared(s, B, B).rfree = [r \in Region |-> Least(m(r), rfree[r] + c(r))]
  <2> HIDE DEF s
  <2>1. B \cap (used \cup B) = B
    OBVIOUS
  <2>2. \A r : B \cap s.used \cap In(r) = B \cap In(r)
    BY <1>3, <2>1
  <2> QED BY <1>3, <2>2 DEF Cleared
<1>7. used \subseteq Block /\ Honest(rfree, used) /\ rfree \in [Region -> Int]
  BY DEF CountInv, Inv, Honest
<1>8. \A r \in Region : m(r) \in Nat
  BY BlocksFinite
<1>9. rfree' \in [Region -> Int] /\ \A r \in Region : rfree'[r] <= rfree[r]
  <2> HIDE DEF c, m, s
  <2> DEFINE f == [r \in Region |-> Least(m(r), rfree[r] + c(r))]
  <2>1. f \in [Region -> Int] /\ \A r \in Region : f[r] = Least(m(r), rfree[r] + c(r))
    BY <1>4, <1>7, <1>8 DEF Least
  <2>2. rfree' = [f EXCEPT ![Here] = @ - call.want]
    BY <1>2, <1>6
  <2> HIDE DEF f
  <2>3. rfree' \in [Region -> Int] /\ \A r \in Region : rfree'[r] = IF r = Here THEN f[r] - call.want ELSE f[r]
    BY <1>4, <2>1, <2>2
  <2>4. ASSUME NEW r \in Region PROVE rfree'[r] <= rfree[r]
    <3>1. rfree[r] \in Int /\ m(r) \in Int /\ f[r] \in Int
      BY <1>7, <1>8, <2>1
    <3>2. f[r] <= rfree[r] + c(r)
      BY <1>4, <2>1, <3>1 DEF Least
    <3> QED BY <1>4, <2>3, <3>1, <3>2
  <2> QED BY <2>3, <2>4
<1> QED BY <1>1, <1>5, <1>7, <1>9, UndoCounts

\* Clearing and counting back, or marking and counting back, raises no region's count.
LEMMA ThereAndBack ==
    ASSUME Honest(rfree, used), used \subseteq Block, NEW B \in SUBSET Block,
           rfree' = [r \in Region |->
                        Most(0, Least(Cardinality(In(r)), rfree[r] + Cardinality(B \cap In(r))) - Cardinality(B \cap In(r)))]
    PROVE  rfree' \in [Region -> Int] /\ \A r \in Region : rfree'[r] <= rfree[r] \/ rfree'[r] = 0
<1> DEFINE c(r) == Cardinality(B \cap In(r))
           m(r) == Cardinality(In(r))
           f(r) == Most(0, Least(m(r), rfree[r] + c(r)) - c(r))
<1>1. ASSUME NEW r \in Region PROVE c(r) \in Nat /\ m(r) \in Nat /\ rfree[r] \in Int
  <2>1. B \cap In(r) \in SUBSET Block /\ In(r) \in SUBSET Block
    BY BlocksFinite
  <2> QED BY <2>1, BlocksFinite DEF Honest
<1>2. rfree' = [r \in Region |-> f(r)]
  OBVIOUS
<1>3. ASSUME NEW r \in Region PROVE f(r) \in Int /\ (f(r) <= rfree[r] \/ f(r) = 0)
  <2> HIDE DEF c, m
  <2> QED BY <1>1 DEF Most, Least
<1> HIDE DEF f
<1> QED BY <1>2, <1>3

\* The journal refuses the linear search's entry and nothing fails.
LEMMA LinearRefusedCounts ==
    ASSUME CountInv, LinearRefused, faults = 0, ~Fault
    PROVE  Honest(rfree, used)'
<1> DEFINE B == FirstRun(Block, call.want)
           s == [State EXCEPT !.used = used \cup B, !.free = (free - call.want) % W]
<1>1. Linear /\ Runs(Block, call.want) # {} /\ mounted' = mounted
  BY DEF LinearRefused
<1>2. Becomes(Counted(Cleared(s, B, B), B))
  <2>1. PICK counted, done \in SUBSET B : Passes(B, counted, done) /\ Becomes(Counted(Cleared(s, counted, done), B))
    BY DEF LinearRefused
  <2>2. done = B /\ counted = B
    BY <2>1 DEF Passes
  <2> QED BY <2>1, <2>2
<1>3. s.used = used \cup B /\ s.rfree = rfree
  BY DEF State
<1> HIDE DEF B
<1>4. B \in SUBSET (Block \ used)
  BY <1>1, LinearRun DEF B
<1> HIDE DEF s
<1>5. used' = used
  BY <1>2, <1>3, <1>4 DEF Cleared, Counted, Becomes
<1>6. rfree' = [r \in Region |->
                   Most(0, Least(Cardinality(In(r)), rfree[r] + Cardinality(B \cap In(r))) - Cardinality(B \cap In(r)))]
  <2> DEFINE k == Cleared(s, B, B)
             c(r) == Cardinality(B \cap In(r))
             m(r) == Cardinality(In(r))
  <2>1. \A r : B \cap s.used \cap In(r) = B \cap In(r)
    BY <1>3
  <2>2. k.rfree = [r \in Region |-> Least(m(r), rfree[r] + c(r))]
    BY <1>3, <2>1 DEF Cleared
  <2>3. rfree' = [r \in Region |-> Most(0, k.rfree[r] - c(r))]
    BY <1>2 DEF Becomes, Counted, Cleared
  <2> HIDE DEF k, c, m
  <2>4. rfree' = [r \in Region |-> Most(0, Least(m(r), rfree[r] + c(r)) - c(r))]
    BY <2>2, <2>3
  <2> QED BY <2>4 DEF c, m
<1>7. used \subseteq Block /\ Honest(rfree, used) /\ B \in SUBSET Block
  BY <1>4 DEF CountInv, Inv
<1>8. rfree' \in [Region -> Int] /\ \A r \in Region : rfree'[r] <= rfree[r] \/ rfree'[r] = 0
  BY <1>6, <1>7, ThereAndBack
<1> QED BY <1>1, <1>5, <1>7, <1>8, UndoCounts

\* The blocks a caller frees are marked.
LEMMA OwnedUsed ==
    ASSUME Inv, NEW B \in SUBSET Block, AllOwned(B)
    PROVE  B \subseteq used
<1>1. \A b \in B : owners[b] = 1
  BY DEF Inv, Exclusive, AllOwned
<1> QED BY <1>1 DEF Inv, Exclusive

\* A caller frees a range.
LEMMA FreeCounts ==
    ASSUME CountInv, faults = 0, NEW B \in SUBSET Block, Free(B)
    PROVE  Honest(rfree, used)' /\ (~refused' => Exact(free, rfree, used)')
<1>1. /\ used' = used \ B /\ mounted' = mounted /\ refused' = refused
      /\ free' = (free + Cardinality(B \cap used)) % W
      /\ rfree' = [r \in Region |-> Least(Cardinality(In(r)), rfree[r] + Cardinality(B \cap used \cap In(r)))]
  BY DEF Free, Becomes, Released
<1>2. used \subseteq Block /\ Honest(rfree, used) /\ (~refused => Exact(free, rfree, used))
  BY DEF CountInv, Inv
<1> QED BY <1>1, <1>2, PutCounts

\* A caller that cannot go on clears the bit again.
LEMMA GiveBackCounts ==
    ASSUME CountInv, faults = 0, ~Fault, NEW b \in Block, GiveBack(b)
    PROVE  Honest(rfree, used)' /\ (~refused' => Exact(free, rfree, used)')
<1> DEFINE B == {b}
<1>1. mounted' = mounted /\ refused' = refused
  BY DEF GiveBack
<1>2. Becomes(Cleared(State, B, B))
  <2>1. PICK counted, done \in SUBSET B : Passes(B, counted, done) /\ Becomes(Cleared(State, counted, done))
    BY DEF GiveBack
  <2>2. done = B /\ counted = B
    BY <2>1 DEF Passes
  <2> QED BY <2>1, <2>2
<1>0. B \in SUBSET Block
  OBVIOUS
<1> HIDE DEF B
<1>3. /\ used' = used \ B /\ free' = (free + Cardinality(B \cap used)) % W
      /\ rfree' = [r \in Region |-> Least(Cardinality(In(r)), rfree[r] + Cardinality(B \cap used \cap In(r)))]
  BY <1>2 DEF Becomes, Cleared, State
<1>4. used \subseteq Block /\ Honest(rfree, used) /\ (~refused => Exact(free, rfree, used))
  BY DEF CountInv, Inv
<1> QED BY <1>0, <1>1, <1>3, <1>4, PutCounts

\* The journal refuses the freeing of a range and nothing fails: every bit that
\* was cleared is set again, since all of the range was marked.
LEMMA FreeRefusedCounts ==
    ASSUME CountInv, faults = 0, ~Fault, NEW B \in SUBSET Block, FreeRefused(B)
    PROVE  Honest(rfree, used)'
<1> DEFINE again == {b \in B : Cardinality({c \in B : c < b}) < Cardinality(B \cap used)}
           s == Released(B, B)
<1>1. mounted' = mounted /\ AllOwned(B)
  BY DEF FreeRefused, Ready
<1>2. Inv /\ used \subseteq Block /\ Honest(rfree, used)
  BY DEF CountInv, Inv
<1>3. B \cap used = B /\ B \subseteq used
  BY <1>1, <1>2, OwnedUsed
<1>4. again = B
  <2>1. ASSUME NEW b \in B PROVE Cardinality({c \in B : c < b}) < Cardinality(B)
    <3> DEFINE T == {c \in B : c < b}
    <3>1. IsFiniteSet(B) /\ T \in SUBSET B /\ b \notin T /\ T # B /\ T \in SUBSET Block
      <4>1. b \in Int
        BY SizeAssumption DEF Block
      <4>2. b \notin T /\ T \in SUBSET B
        BY <4>1
      <4>3. IsFiniteSet(B)
        BY BlocksFinite
      <4> HIDE DEF T
      <4> QED BY <4>2, <4>3
    <3> HIDE DEF T
    <3>2. Cardinality(T) <= Cardinality(B) /\ (Cardinality(B) = Cardinality(T) => B = T)
      BY <3>1, FS_Subset
    <3>3. Cardinality(T) \in Nat /\ Cardinality(B) \in Nat
      BY <3>1, BlocksFinite
    <3>4. Cardinality(T) < Cardinality(B)
      BY <3>1, <3>2, <3>3
    <3> QED BY <3>4 DEF T
  <2> QED BY <1>3, <2>1
<1>5. Becomes(Set(s, B, B))
  <2>1. PICK counted, done \in SUBSET again : Passes(again, counted, done) /\ Becomes(Set(s, counted, done))
    BY DEF FreeRefused
  <2> HIDE DEF again, s
  <2>2. done = B /\ counted = B
    BY <1>4, <2>1 DEF Passes
  <2> QED BY <2>1, <2>2
<1> HIDE DEF again
<1>6. used' = used
  BY <1>3, <1>5 DEF Becomes, Set, Released
<1>7. rfree' = [r \in Region |->
                   Most(0, Least(Cardinality(In(r)), rfree[r] + Cardinality(B \cap In(r))) - Cardinality(B \cap In(r)))]
  <2> DEFINE c(r) == Cardinality(B \cap In(r))
             m(r) == Cardinality(In(r))
  <2>1. s.used = used \ B /\ s.rfree = [r \in Region |-> Least(m(r), rfree[r] + c(r))]
    BY <1>3 DEF Released
  <2> HIDE DEF s
  <2>2. \A r : (B \ s.used) \cap In(r) = B \cap In(r)
    BY <2>1
  <2>3. rfree' = [r \in Region |-> Most(0, s.rfree[r] - c(r))]
    BY <1>5, <2>2 DEF Becomes, Set
  <2> HIDE DEF c, m
  <2>4. rfree' = [r \in Region |-> Most(0, Least(m(r), rfree[r] + c(r)) - c(r))]
    BY <2>1, <2>3
  <2> QED BY <2>4 DEF c, m
<1>8. rfree' \in [Region -> Int] /\ \A r \in Region : rfree'[r] <= rfree[r] \/ rfree'[r] = 0
  BY <1>2, <1>7, ThereAndBack
<1> QED BY <1>1, <1>2, <1>6, <1>8, UndoCounts

\* A freshly made file system has N free blocks.
LEMMA CountStarts == Init => CountInv
<1> SUFFICES ASSUME Init PROVE CountInv
  OBVIOUS
<1>1. Inv
  BY InitInv
<1>2. CallInv
  BY DEF Init, CallInv, Idle
<1>3. Honest(rfree, used)
  BY DEF Init, Honest
<1>4. Exact(free, rfree, used)
  <2>1. Block \ used = Block
    BY DEF Init
  <2>2. Cardinality(Block) = N
    <3> DEFINE a == 0
               b == N - 1
    <3>1. a \in Int /\ b \in Int /\ N \in Nat \ {0}
      BY SizeAssumption
    <3> HIDE DEF a, b
    <3>2. Cardinality(a .. b) = IF a > b THEN 0 ELSE b - a + 1
      BY <3>1, FS_Interval
    <3>3. Cardinality(Block) = IF 0 > N - 1 THEN 0 ELSE N - 1 - 0 + 1
      BY <3>2 DEF Block, a, b
    <3> QED BY <3>1, <3>3
  <2> QED BY <2>1, <2>2 DEF Init, Exact
<1> QED BY <1>1, <1>2, <1>3, <1>4 DEF CountInv

\* One case per action: a step with no new failure keeps what the counts say.
LEMMA CountSteps == CountInv /\ [Next]_vars => CountInv'
<1> SUFFICES ASSUME CountInv, [Next]_vars PROVE CountInv'
  OBVIOUS
<1>1. Inv' /\ CallInv' /\ (faults' = 0 => faults = 0 /\ ~Fault) /\ (refused => refused')
  BY NextInv, CallTypes DEF CountInv
<1>2. ASSUME faults' = 0
      PROVE  Honest(rfree, used)' /\ (~refused' => Exact(free, rfree, used)')
  <2>1. faults = 0 /\ ~Fault /\ used \subseteq Block /\ Honest(rfree, used) /\ (~refused => Exact(free, rfree, used))
    BY <1>1, <1>2 DEF CountInv, Inv
  <2>2. CASE UNCHANGED <<used, free, rfree, mounted, refused>>
    BY <2>1, <2>2 DEF Honest, Exact, In
  <2>3. CASE InitRegions
    <3>1. refused' = refused
      BY <2>3 DEF InitRegions
    <3> QED BY <2>1, <2>3, <3>1, MountCounts DEF Exact
  <2>4. CASE Shutdown
    BY <2>1, <2>4 DEF Shutdown, Honest, Exact
  <2>5. CASE RegionGiven
    BY <2>1, <2>5, RegionGivenCounts
  <2>6. CASE RegionRefused
    <3>1. refused'
      BY <2>6 DEF RegionRefused
    <3> QED BY <2>1, <2>6, <3>1, RegionRefusedCounts
  <2>7. CASE LinearGiven
    BY <2>1, <2>7, LinearGivenCounts
  <2>8. CASE LinearRefused
    <3>1. refused'
      BY <2>8 DEF LinearRefused
    <3> QED BY <2>1, <2>8, <3>1, LinearRefusedCounts
  <2>9. ASSUME NEW B \in Ranges, Free(B) \/ FreeCut(B) \/ FreeRefused(B)
        PROVE  Honest(rfree, used)' /\ (~refused' => Exact(free, rfree, used)')
    <3>1. B \in SUBSET Block
      BY SizeAssumption DEF Ranges, Block
    <3>2. CASE Free(B)
      BY <2>1, <3>1, <3>2, FreeCounts
    <3>3. CASE FreeCut(B)
      BY <2>1, <3>3 DEF FreeCut
    <3>4. CASE FreeRefused(B)
      <4>1. refused'
        BY <3>4 DEF FreeRefused
      <4> QED BY <2>1, <3>1, <3>4, <4>1, FreeRefusedCounts
    <3> QED BY <2>9, <3>2, <3>3, <3>4
  <2>10. ASSUME NEW b \in Block, GiveBack(b)
         PROVE  Honest(rfree, used)' /\ (~refused' => Exact(free, rfree, used)')
    BY <2>1, <2>10, GiveBackCounts
  <2>11. CASE LinearLeaks
    BY <2>1, <2>11 DEF LinearLeaks
  <2>12. CASE RegionSkipped \/ LinearFails \/ \E n \in 1 .. MaxCount : AllocCall(n)
    BY <2>2, <2>12 DEF RegionSkipped, LinearFails, AllocCall
  <2>13. CASE UNCHANGED vars
    BY <2>2, <2>13 DEF vars
  <2> QED BY <2>3, <2>4, <2>5, <2>6, <2>7, <2>8, <2>9, <2>10, <2>11, <2>12, <2>13 DEF Next
<1> QED BY <1>1, <1>2 DEF CountInv

\* As long as the drive has not failed, no region's count promises more free blocks
\* than the region has, whatever the journal refused and the undo did.
THEOREM RegionHonestHolds == Spec => []RegionHonest
<1>1. CountInv => RegionHonest
  BY DEF CountInv, Honest, RegionHonest
<1> QED BY <1>1, CountStarts, CountSteps, PTL DEF Spec

\* As long as neither the drive nor the journal has failed a call, the free count of
\* the superblock and of every region is exact, for all sizes and all requests.
THEOREM CountsExactHolds == Spec => []CountsExact
<1>1. CountInv => CountsExact
  BY DEF CountInv, Exact, CountsExact
<1> QED BY <1>1, CountStarts, CountSteps, PTL DEF Spec

-----------------------------------------------------------------------------
(***************************************************************************)
(* AMFS.  A place of an inode holds a block: its tables' entries, and the  *)
(* indirect block, at -1.  AmfsInv says of the whole volume what AmfsSound *)
(* says of its live part, that no table has an entry past the direct ones  *)
(* without an indirect block, and that an inode that is free is empty.     *)
(***************************************************************************)
ANode == Inode \cup {0}
AName == (UNION {Range(p) : p \in APath}) \cup {""}
APlace == Index \cup {-1}
ABlock == AData \cup {0}
AInode == [type : {"free", "file", "dir"}, size : Nat, blk : [Index -> ABlock], ind : ABlock,
           ent : Seq(AName \X ANode)]
AState == [mounted : BOOLEAN, formatted : BOOLEAN, used : SUBSET AData, ino : [ANode -> AInode]]

At(node, i) == IF i = -1 THEN node.ind ELSE node.blk[i]
OneOwner(a) ==
    \A n, m \in ANode, i, j \in APlace :
        At(a.ino[n], i) = At(a.ino[m], j) /\ At(a.ino[n], i) # 0 => n = m /\ i = j
AllMarked(a) == \A n \in ANode, i \in APlace : At(a.ino[n], i) \in a.used \cup {0}
IndFirst(a) == \A n \in ANode, i \in Index : i >= Direct /\ a.ino[n].blk[i] # 0 => a.ino[n].ind # 0
BlocksOk(a) == a \in AState /\ OneOwner(a) /\ AllMarked(a) /\ IndFirst(a)

ASectors(node) == IF node.type = "file" THEN node.size ELSE (Len(node.ent) + PerSector - 1) \div PerSector
Covered(node) == \A i \in Index : i < ASectors(node) => node.blk[i] # 0
AShaped(node) == (node.type # "dir" => node.ent = <<>>) /\ (node.type = "free" => node = FreeInode)
NodesOk(a) == \A n \in ANode : Covered(a.ino[n]) /\ AShaped(a.ino[n])

\* The inode that slot i of directory d leads to, 0 for none.
Leads(a, d, i) == IF i \in DOMAIN a.ino[d].ent THEN a.ino[d].ent[i][2] ELSE 0
NamesOk(a) ==
    /\ \A d \in ANode, i \in Nat : Leads(a, d, i) # 0 => a.ino[Leads(a, d, i)].type # "free"
    /\ \A d, e \in ANode, i, j \in Nat :
          Leads(a, d, i) = Leads(a, e, j) /\ Leads(a, d, i) # 0 => d = e /\ i = j
AmfsOk(a) == BlocksOk(a) /\ NodesOk(a) /\ NamesOk(a)
AmfsInv == AmfsOk(am)

\* Min, by which the bitmap and the inode table are searched, is in the set.
LEMMA AMinIn ==
    ASSUME NEW S \in SUBSET Nat, S # {}
    PROVE  Min(S) \in S /\ \A y \in S : Min(S) <= y
<1>1. PICK x \in S : \A y \in S : ~(<<y, x>> \in OpToRel(<, Nat))
  BY WFMin, NatLessThanWellFounded
<1>2. \A y \in S : x <= y
  <2>1. \A m, n \in Nat : m < n => <<m, n>> \in OpToRel(<, Nat)
    BY Zenon DEF OpToRel
  <2>2. \A y \in S : ~(y < x)
    BY <1>1, <2>1, Zenon
  <2> QED BY <2>2
<1> QED BY <1>2 DEF Min

LEMMA AmfsSizes ==
    /\ Index \subseteq Nat /\ -1 \notin Index /\ 0 \notin AData /\ 0 \notin Inode
    /\ Direct \in Nat /\ PerSector \in Nat /\ PerSector > 0 /\ AData \subseteq Nat /\ Inode \subseteq Nat
BY AmfsAssumption DEF Index

\* A block that the bitmap gives was not marked.
LEMMA BitmapGives ==
    ASSUME NEW a \in AState, ABitmapAlloc(a) # 0
    PROVE  ABitmapAlloc(a) \in AData \ a.used
<1>1. AData # a.used /\ ABitmapAlloc(a) = Min(AData \ a.used)
  BY DEF ABitmapAlloc
<1>2. AData \ a.used \in SUBSET Nat /\ AData \ a.used # {}
  BY <1>1, AmfsSizes DEF AState
<1> QED BY <1>1, <1>2, AMinIn

LEMMA BitmapAllocType == ASSUME NEW a \in AState PROVE ABitmapAlloc(a) \in ABlock
BY BitmapGives DEF ABlock

\* Block b gets into place i of inode n.
PlacedNode(node, i, b) ==
    IF i = -1 THEN [node EXCEPT !.ind = b] ELSE [node EXCEPT !.blk = [node.blk EXCEPT ![i] = b]]
APlaced(a, n, i, b) ==
    [a EXCEPT !.used = @ \cup {b}, !.ino = [a.ino EXCEPT ![n] = PlacedNode(a.ino[n], i, b)]]

LEMMA PlacedAt ==
    ASSUME NEW node \in AInode, NEW i \in APlace, NEW b \in ABlock
    PROVE  /\ PlacedNode(node, i, b) \in AInode
           /\ \A j \in APlace : At(PlacedNode(node, i, b), j) = IF j = i THEN b ELSE At(node, j)
           /\ PlacedNode(node, i, b).type = node.type /\ PlacedNode(node, i, b).size = node.size
           /\ PlacedNode(node, i, b).ent = node.ent
<1>1. CASE i = -1
  BY <1>1, AmfsSizes DEF PlacedNode, AInode, At, APlace
<1>2. CASE i # -1
  <2>1. i \in Index /\ [node.blk EXCEPT ![i] = b] \in [Index -> ABlock]
    BY <1>2 DEF APlace, AInode
  <2>2. PlacedNode(node, i, b) = [node EXCEPT !.blk = [node.blk EXCEPT ![i] = b]]
    BY <1>2 DEF PlacedNode
  <2>3. PlacedNode(node, i, b) \in AInode
    BY <2>1, <2>2 DEF AInode
  <2>4. ASSUME NEW j \in APlace PROVE At(PlacedNode(node, i, b), j) = IF j = i THEN b ELSE At(node, j)
    BY <1>2, <2>1, <2>2 DEF At, APlace, AInode
  <2> QED BY <2>2, <2>3, <2>4 DEF AInode
<1> QED BY <1>1, <1>2

\* What allocating blocks for inode n leaves as it was.
KeepsNode(old, new) ==
    /\ new.type = old.type /\ new.size = old.size /\ new.ent = old.ent
    /\ \A j \in Index : old.blk[j] # 0 => new.blk[j] # 0
KeepsVolume(a, c, n) ==
    /\ BlocksOk(c) /\ a.used \subseteq c.used /\ KeepsNode(a.ino[n], c.ino[n])
    /\ \A m \in ANode \ {n} : c.ino[m] = a.ino[m]

LEMMA StateParts ==
    ASSUME NEW a \in AState, NEW n \in ANode
    PROVE  /\ a.ino[n] \in AInode /\ a.used \subseteq AData /\ a.ino \in [ANode -> AInode]
           /\ \A i \in APlace : At(a.ino[n], i) \in ABlock
<1>1. a.ino[n] \in AInode /\ a.used \subseteq AData /\ a.ino \in [ANode -> AInode]
  BY DEF AState
<1> QED BY <1>1 DEF At, APlace, AInode

\* A block that was free gets its only owner.
LEMMA PlacedOk ==
    ASSUME NEW a, BlocksOk(a), NEW n \in ANode, NEW i \in APlace, NEW b \in AData \ a.used,
           At(a.ino[n], i) = 0, i >= Direct => a.ino[n].ind # 0
    PROVE  KeepsVolume(a, APlaced(a, n, i, b), n) /\ At(APlaced(a, n, i, b).ino[n], i) = b
<1> DEFINE c == APlaced(a, n, i, b)
           new == PlacedNode(a.ino[n], i, b)
<1>0. a \in AState /\ b \in ABlock /\ b # 0 /\ b \in AData
  BY AmfsSizes DEF BlocksOk, ABlock
<1>1. a.ino[n] \in AInode /\ a.used \subseteq AData /\ a.ino \in [ANode -> AInode]
  BY <1>0, StateParts
<1>2. /\ new \in AInode /\ new.type = a.ino[n].type /\ new.size = a.ino[n].size /\ new.ent = a.ino[n].ent
      /\ \A j \in APlace : At(new, j) = IF j = i THEN b ELSE At(a.ino[n], j)
  BY <1>0, <1>1, PlacedAt
<1> HIDE DEF new
<1>3. /\ c \in AState /\ c.used = a.used \cup {b} /\ c.ino[n] = new
      /\ \A m \in ANode \ {n} : c.ino[m] = a.ino[m]
  <2>1. c.ino = [a.ino EXCEPT ![n] = new] /\ c.used = a.used \cup {b}
    BY <1>0, <1>1 DEF APlaced, AState, new
  <2>2. [a.ino EXCEPT ![n] = new] \in [ANode -> AInode]
    BY <1>1, <1>2
  <2>3. c \in AState
    BY <1>0, <1>1, <2>2 DEF APlaced, AState, new
  <2> QED BY <1>1, <2>1, <2>3
<1> HIDE DEF c
<1>4. \A m \in ANode, j \in APlace : At(c.ino[m], j) = IF m = n /\ j = i THEN b ELSE At(a.ino[m], j)
  BY <1>2, <1>3
<1>5. \A m \in ANode, j \in APlace : At(a.ino[m], j) # b
  <2>1. \A m \in ANode, j \in APlace : At(a.ino[m], j) \in a.used \cup {0}
    BY DEF BlocksOk, AllMarked
  <2> QED BY <1>0, <2>1
<1>6. OneOwner(c)
  BY <1>4, <1>5 DEF OneOwner, BlocksOk
<1>7. AllMarked(c)
  BY <1>3, <1>4 DEF AllMarked, BlocksOk
<1>8. IndFirst(c)
  <2> SUFFICES ASSUME NEW m \in ANode, NEW j \in Index, j >= Direct, c.ino[m].blk[j] # 0
                  PROVE  c.ino[m].ind # 0
    BY DEF IndFirst
  <2>1. j \in APlace /\ -1 \in APlace /\ j # -1 /\ At(c.ino[m], j) = c.ino[m].blk[j]
        /\ At(c.ino[m], -1) = c.ino[m].ind
    BY AmfsSizes DEF At, APlace
  <2>2. At(a.ino[m], j) = a.ino[m].blk[j] /\ At(a.ino[m], -1) = a.ino[m].ind
    BY <2>1 DEF At
  <2>3. CASE m = n /\ j = i
    <3>1. a.ino[n].ind # 0
      BY <2>3
    <3> QED BY <1>0, <1>4, <2>1, <2>2, <2>3, <3>1
  <2>4. CASE ~(m = n /\ j = i)
    <3>1. a.ino[m].ind # 0
      BY <1>4, <2>1, <2>2, <2>4 DEF BlocksOk, IndFirst
    <3> QED BY <1>0, <1>4, <2>1, <2>2, <3>1
  <2> QED BY <2>3, <2>4
<1>9. \A j \in Index : a.ino[n].blk[j] # 0 => c.ino[n].blk[j] # 0
  <2>1. \A j \in Index : j \in APlace /\ j # -1
    BY AmfsSizes DEF APlace
  <2> QED BY <1>0, <1>4, <2>1 DEF At
<1>10. At(c.ino[n], i) = b
  BY <1>4
<1>11. BlocksOk(c)
  BY <1>3, <1>6, <1>7, <1>8 DEF BlocksOk
<1>12. KeepsNode(a.ino[n], c.ino[n])
  BY <1>2, <1>3, <1>9 DEF KeepsNode
<1>13. KeepsVolume(a, c, n)
  BY <1>3, <1>11, <1>12 DEF KeepsVolume
<1> QED BY <1>10, <1>13 DEF c

LEMMA KeepsAll == ASSUME NEW a, BlocksOk(a), NEW n PROVE KeepsVolume(a, a, n)
BY DEF KeepsVolume, KeepsNode

LEMMA KeepsOn ==
    ASSUME NEW a, NEW b, NEW c, NEW n, KeepsVolume(a, b, n), KeepsVolume(b, c, n)
    PROVE  KeepsVolume(a, c, n)
<1>1. a.used \subseteq b.used /\ b.used \subseteq c.used /\ BlocksOk(c)
  BY DEF KeepsVolume
<1>2. \A m \in ANode \ {n} : c.ino[m] = a.ino[m]
  BY DEF KeepsVolume
<1>3. KeepsNode(a.ino[n], c.ino[n])
  BY DEF KeepsVolume, KeepsNode
<1> QED BY <1>1, <1>2, <1>3 DEF KeepsVolume

\* A block that is marked and never recorded harms nothing.
LEMMA LeakedOk ==
    ASSUME NEW a, BlocksOk(a), NEW n, NEW U \in SUBSET AData, a.used \subseteq U
    PROVE  KeepsVolume(a, [a EXCEPT !.used = U], n)
<1> DEFINE c == [a EXCEPT !.used = U]
<1>1. c \in AState /\ c.used = U /\ c.ino = a.ino
  BY DEF BlocksOk, AState
<1> HIDE DEF c
<1>2. OneOwner(c) /\ IndFirst(c)
  BY <1>1 DEF OneOwner, IndFirst, BlocksOk
<1>3. AllMarked(c)
  BY <1>1 DEF AllMarked, BlocksOk
<1>4. KeepsVolume(a, c, n)
  BY <1>1, <1>2, <1>3 DEF KeepsVolume, KeepsNode, BlocksOk
<1> QED BY <1>4 DEF c

\* The tables of an inode that has no indirect block have nothing to clear.
LEMMA IndPlaced ==
    ASSUME NEW a, BlocksOk(a), NEW n \in ANode, a.ino[n].ind = 0, NEW b \in AData
    PROVE  [a EXCEPT !.used = @ \cup {b},
                     !.ino[n] = [a.ino[n] EXCEPT !.ind = b,
                                    !.blk = [j \in Index |-> IF j < Direct THEN a.ino[n].blk[j] ELSE 0]]]
             = APlaced(a, n, -1, b)
<1> DEFINE node == a.ino[n]
           blk == [j \in Index |-> IF j < Direct THEN node.blk[j] ELSE 0]
           new == [node EXCEPT !.ind = b, !.blk = blk]
<1>1. a \in AState /\ node \in AInode
  BY StateParts DEF BlocksOk
<1>2. \A j \in Index : ~(j < Direct) => node.blk[j] = 0
  BY AmfsSizes DEF BlocksOk, IndFirst
<1>3. node.blk = blk
  <2>1. \A j \in Index : node.blk[j] = blk[j]
    BY <1>2
  <2>2. node.blk \in [Index -> ABlock]
    BY <1>1 DEF AInode
  <2> HIDE DEF node
  <2> QED BY <2>1, <2>2
<1> HIDE DEF blk
<1>4. new = [node EXCEPT !.ind = b]
  <2> HIDE DEF node
  <2> QED BY <1>1, <1>3 DEF AInode
<1> HIDE DEF new
<1> QED BY <1>4 DEF APlaced, PlacedNode, blk, new

\* block_for_offset changes nothing but the tables of inode n and the bitmap, and
\* what it returns without failing is the block of place i.
LEMMA BlockForOffset ==
    ASSUME NEW a, BlocksOk(a), NEW n \in ANode, NEW i \in Int
    PROVE  /\ KeepsVolume(a, block_for_offset(a, n, i).a, n)
           /\ block_for_offset(a, n, i).block # 0 =>
                 i \in Index /\ block_for_offset(a, n, i).a.ino[n].blk[i] # 0
<1> DEFINE node == a.ino[n]
           needInd == i >= Direct /\ node.ind = 0
           b1 == ABitmapAlloc(a)
           a1 == IF needInd /\ b1 # 0 THEN APlaced(a, n, -1, b1) ELSE a
           b2 == ABitmapAlloc(a1)
           r == block_for_offset(a, n, i)
<1>1. a \in AState /\ node \in AInode /\ a.used \subseteq AData
  BY StateParts DEF BlocksOk
<1>2. b1 # 0 => b1 \in AData \ a.used
  BY <1>1, BitmapGives
<1>3. r = IF i \notin Index \/ (needInd /\ b1 = 0) THEN [a |-> a, block |-> 0]
          ELSE IF a1.ino[n].blk[i] # 0 THEN [a |-> a1, block |-> a1.ino[n].blk[i]]
          ELSE IF b2 = 0 THEN [a |-> [a EXCEPT !.used = a1.used], block |-> 0]
          ELSE [a |-> [a1 EXCEPT !.used = @ \cup {b2}, !.ino[n].blk[i] = b2], block |-> b2]
  <2> DEFINE placed == [a EXCEPT !.used = @ \cup {b1},
                           !.ino[n] = [a.ino[n] EXCEPT !.ind = b1,
                                !.blk = [j \in Index |-> IF j < Direct THEN a.ino[n].blk[j] ELSE 0]]]
             a2 == IF needInd /\ b1 # 0 THEN placed ELSE a
  <2>1. a1 = a2
    <3> HIDE DEF b1
    <3> QED BY <1>2, IndPlaced
  <2>2. r = IF i \notin Index \/ (needInd /\ b1 = 0) THEN [a |-> a, block |-> 0]
          ELSE IF a2.ino[n].blk[i] # 0 THEN [a |-> a2, block |-> a2.ino[n].blk[i]]
          ELSE IF ABitmapAlloc(a2) = 0 THEN [a |-> [a EXCEPT !.used = a2.used], block |-> 0]
          ELSE [a |-> [a2 EXCEPT !.used = @ \cup {ABitmapAlloc(a2)}, !.ino[n].blk[i] = ABitmapAlloc(a2)],
                block |-> ABitmapAlloc(a2)]
    BY Zenon DEF block_for_offset
  <2> HIDE DEF a1, a2
  <2> QED BY <2>1, <2>2
<1> HIDE DEF r
<1>4. CASE i \notin Index \/ (needInd /\ b1 = 0)
  <2>1. r = [a |-> a, block |-> 0]
    BY <1>3, <1>4
  <2> QED BY <2>1, KeepsAll DEF r
<1>5. CASE ~(i \notin Index \/ (needInd /\ b1 = 0))
  <2>1. i \in Index /\ i # -1 /\ i \in APlace /\ -1 \in APlace
    BY <1>5, AmfsSizes DEF APlace
  <2>2. KeepsVolume(a, a1, n) /\ (i >= Direct => a1.ino[n].ind # 0)
    <3>1. CASE needInd
      <4>1. b1 # 0 /\ a1 = APlaced(a, n, -1, b1) /\ b1 \in AData \ a.used /\ At(a.ino[n], -1) = 0
        BY <1>2, <1>5, <3>1 DEF At
      <4>2. KeepsVolume(a, APlaced(a, n, -1, b1), n) /\ At(APlaced(a, n, -1, b1).ino[n], -1) = b1
        <5>1. ~(-1 >= Direct)
          BY AmfsSizes
        <5> HIDE DEF b1
        <5> QED BY <4>1, <5>1, <2>1, PlacedOk
      <4> HIDE DEF b1, a1
      <4> QED BY <4>1, <4>2 DEF At
    <3>2. CASE ~needInd
      <4>1. a1 = a
        BY <3>2
      <4> QED BY <3>2, <4>1, KeepsAll
    <3> QED BY <3>1, <3>2
  <2> HIDE DEF a1
  <2>3. BlocksOk(a1) /\ a1 \in AState /\ a1.used \subseteq AData /\ a.used \subseteq a1.used
    BY <2>2, StateParts DEF KeepsVolume, BlocksOk
  <2>4. CASE a1.ino[n].blk[i] # 0
    <3>1. r = [a |-> a1, block |-> a1.ino[n].blk[i]]
      BY <1>3, <1>5, <2>4
    <3> QED BY <2>1, <2>2, <2>4, <3>1 DEF r
  <2>5. CASE a1.ino[n].blk[i] = 0 /\ b2 = 0
    <3>1. r = [a |-> [a EXCEPT !.used = a1.used], block |-> 0]
      BY <1>3, <1>5, <2>5
    <3> QED BY <2>3, <3>1, LeakedOk DEF r
  <2>6. CASE a1.ino[n].blk[i] = 0 /\ b2 # 0
    <3>1. r = [a |-> [a1 EXCEPT !.used = @ \cup {b2}, !.ino[n].blk[i] = b2], block |-> b2]
      BY <1>3, <1>5, <2>6
    <3>2. b2 \in AData \ a1.used
      BY <2>3, <2>6, BitmapGives
    <3> HIDE DEF b2
    <3>3. r.a = APlaced(a1, n, i, b2) /\ r.block = b2
      BY <2>1, <3>1 DEF APlaced, PlacedNode
    <3>4. At(a1.ino[n], i) = 0
      BY <2>1, <2>6 DEF At
    <3>5. KeepsVolume(a1, r.a, n) /\ At(r.a.ino[n], i) = b2
      BY <2>1, <2>2, <2>3, <3>2, <3>3, <3>4, PlacedOk
    <3>6. r.a.ino[n].blk[i] # 0
      BY <2>1, <2>6, <3>5 DEF At
    <3>7. KeepsVolume(a, r.a, n)
      BY <2>2, <3>5, KeepsOn
    <3> QED BY <2>1, <3>6, <3>7 DEF r
  <2> QED BY <2>4, <2>5, <2>6
<1> QED BY <1>4, <1>5

\* Allocating blocks for an inode in use keeps the volume right.
LEMMA KeepsOk ==
    ASSUME NEW a, AmfsOk(a), NEW c, NEW n \in ANode, KeepsVolume(a, c, n), a.ino[n].type # "free"
    PROVE  AmfsOk(c)
<1>1. \A m \in ANode : c.ino[m].type = a.ino[m].type /\ c.ino[m].ent = a.ino[m].ent
  BY DEF KeepsVolume, KeepsNode
<1>2. \A d \in ANode, i \in Nat : Leads(c, d, i) = Leads(a, d, i) /\ Leads(a, d, i) \in ANode
  <2> SUFFICES ASSUME NEW d \in ANode, NEW i \in Nat
               PROVE  Leads(c, d, i) = Leads(a, d, i) /\ Leads(a, d, i) \in ANode
    OBVIOUS
  <2>1. a.ino[d].ent \in Seq(AName \X ANode)
    BY StateParts DEF AmfsOk, BlocksOk, AInode
  <2>2. i \in DOMAIN a.ino[d].ent => a.ino[d].ent[i] \in AName \X ANode
    BY <2>1
  <2> QED BY <1>1, <2>2 DEF Leads, ANode
<1>3. NamesOk(c)
  <2>1. \A d \in ANode, i \in Nat : Leads(c, d, i) # 0 => c.ino[Leads(c, d, i)].type # "free"
    BY <1>1, <1>2 DEF AmfsOk, NamesOk
  <2>2. \A d, e \in ANode, i, j \in Nat :
          Leads(c, d, i) = Leads(c, e, j) /\ Leads(c, d, i) # 0 => d = e /\ i = j
    BY <1>2 DEF AmfsOk, NamesOk
  <2> QED BY <2>1, <2>2 DEF NamesOk
<1>4. ASSUME NEW m \in ANode PROVE Covered(c.ino[m]) /\ AShaped(c.ino[m])
  <2>1. Covered(a.ino[m]) /\ AShaped(a.ino[m])
    BY DEF AmfsOk, NodesOk
  <2>2. CASE m # n
    BY <2>1, <2>2 DEF KeepsVolume
  <2>3. CASE m = n
    <3>1. KeepsNode(a.ino[n], c.ino[n])
      BY DEF KeepsVolume
    <3>2. AShaped(c.ino[n])
      BY <2>1, <2>3, <3>1 DEF AShaped, KeepsNode
    <3>3. ASectors(c.ino[n]) = ASectors(a.ino[n])
      BY <3>1 DEF ASectors, KeepsNode
    <3>4. Covered(c.ino[n])
      BY <2>1, <2>3, <3>1, <3>3 DEF Covered, KeepsNode
    <3> QED BY <2>3, <3>2, <3>4
  <2> QED BY <2>2, <2>3
<1> QED BY <1>3, <1>4 DEF AmfsOk, NodesOk, KeepsVolume

LEMMA LeadsNode ==
    ASSUME NEW a \in AState, NEW d \in ANode, NEW i
    PROVE  Leads(a, d, i) \in ANode
<1>1. a.ino[d].ent \in Seq(AName \X ANode)
  BY StateParts DEF AInode
<1>2. i \in DOMAIN a.ino[d].ent => a.ino[d].ent[i] \in AName \X ANode
  BY <1>1
<1> QED BY <1>2 DEF Leads, ANode

LEMMA EmptySectors == (0 + PerSector - 1) \div PerSector = 0
<1>1. PerSector \in Nat /\ PerSector > 0
  BY AmfsSizes
<1> QED BY <1>1

LEMMA FreeFacts ==
    ASSUME NEW t \in {"free", "file", "dir"}
    PROVE  /\ [FreeInode EXCEPT !.type = t] \in AInode
           /\ Covered([FreeInode EXCEPT !.type = t]) /\ AShaped([FreeInode EXCEPT !.type = t])
           /\ [FreeInode EXCEPT !.type = t].type = t /\ [FreeInode EXCEPT !.type = t].ent = <<>>
           /\ \A i \in APlace : At([FreeInode EXCEPT !.type = t], i) = 0
<1> DEFINE node == [FreeInode EXCEPT !.type = t]
<1>1. /\ node = [type |-> t, size |-> 0, blk |-> [i \in Index |-> 0], ind |-> 0, ent |-> <<>>]
      /\ (t = "free" => node = FreeInode)
  BY DEF FreeInode
<1> HIDE DEF node
<1>2. [i \in Index |-> 0] \in [Index -> ABlock] /\ 0 \in ABlock /\ <<>> \in Seq(AName \X ANode) /\ 0 \in Nat
  BY DEF ABlock
<1>3. node \in AInode
  BY <1>1, <1>2 DEF AInode
<1>4. ASectors(node) = 0
  BY <1>1, EmptySectors DEF ASectors
<1>5. Covered(node)
  <2>1. \A i \in Index : ~(i < 0)
    BY AmfsSizes
  <2> QED BY <1>4, <2>1 DEF Covered
<1>6. AShaped(node) /\ node.type = t /\ node.ent = <<>>
  BY <1>1 DEF AShaped
<1>7. \A i \in APlace : At(node, i) = 0
  BY <1>1 DEF At, APlace
<1> QED BY <1>3, <1>5, <1>6, <1>7 DEF node

\* The blocks that BlocksOf collects are those in the places.
LEMMA BlocksOfIs ==
    ASSUME NEW node \in AInode
    PROVE  BlocksOf(node) = {At(node, i) : i \in APlace} \ {0}
BY AmfsSizes DEF BlocksOf, At, APlace

\* Inode n is left with no block, and its blocks are free: Truncated and inode_free.
Emptied(a, n, node) ==
    [a EXCEPT !.used = @ \ BlocksOf(a.ino[n]), !.ino = [a.ino EXCEPT ![n] = node]]
LEMMA EmptiedOk ==
    ASSUME NEW a, BlocksOk(a), NEW n \in ANode, NEW node \in AInode, \A i \in APlace : At(node, i) = 0
    PROVE  /\ BlocksOk(Emptied(a, n, node)) /\ Emptied(a, n, node).ino[n] = node
           /\ \A m \in ANode \ {n} : Emptied(a, n, node).ino[m] = a.ino[m]
<1> DEFINE c == Emptied(a, n, node)
<1>1. a \in AState /\ a.ino[n] \in AInode /\ a.ino \in [ANode -> AInode] /\ a.used \subseteq AData
  BY StateParts DEF BlocksOk
<1>2. /\ c \in AState /\ c.used = a.used \ BlocksOf(a.ino[n]) /\ c.ino[n] = node
      /\ \A m \in ANode \ {n} : c.ino[m] = a.ino[m]
  BY <1>1 DEF Emptied, AState
<1> HIDE DEF c
<1>3. \A m \in ANode, j \in APlace : At(c.ino[m], j) = IF m = n THEN 0 ELSE At(a.ino[m], j)
  BY <1>2
<1>4. OneOwner(c)
  BY <1>3 DEF OneOwner, BlocksOk
<1>5. AllMarked(c)
  <2> SUFFICES ASSUME NEW m \in ANode, NEW j \in APlace, At(c.ino[m], j) # 0 PROVE At(c.ino[m], j) \in c.used
    BY DEF AllMarked
  <2>1. m # n /\ At(c.ino[m], j) = At(a.ino[m], j)
    BY <1>3
  <2>2. At(a.ino[m], j) \in a.used
    BY <2>1 DEF BlocksOk, AllMarked
  <2>3. At(a.ino[m], j) \notin BlocksOf(a.ino[n])
    BY <1>1, <2>1, BlocksOfIs DEF BlocksOk, OneOwner
  <2> QED BY <1>2, <2>1, <2>2, <2>3
<1>6. IndFirst(c)
  <2> SUFFICES ASSUME NEW m \in ANode, NEW j \in Index, j >= Direct, c.ino[m].blk[j] # 0
                  PROVE  c.ino[m].ind # 0
    BY DEF IndFirst
  <2>1. m # n
    <3>1. j \in APlace /\ j # -1
      BY AmfsSizes DEF APlace
    <3> QED BY <1>3, <3>1 DEF At
  <2> QED BY <1>2, <2>1 DEF BlocksOk, IndFirst
<1>7. BlocksOk(c)
  BY <1>2, <1>4, <1>5, <1>6 DEF BlocksOk
<1> QED BY <1>2, <1>7 DEF c

LEMMA TruncatedIs ==
    ASSUME NEW a, BlocksOk(a), NEW n \in ANode
    PROVE  Truncated(a, n) = Emptied(a, n, [a.ino[n] EXCEPT !.blk = [i \in Index |-> 0], !.ind = 0, !.size = 0])
BY DEF Truncated, Emptied

LEMMA TwoFields ==
    ASSUME NEW a \in AState, NEW u, NEW t
    PROVE  [a EXCEPT !.used = u, !.ino = t] =
              [mounted |-> a.mounted, formatted |-> a.formatted, used |-> u, ino |-> t]
<1> DEFINE old == [mounted |-> a.mounted, formatted |-> a.formatted, used |-> a.used, ino |-> a.ino]
           mid == [mounted |-> a.mounted, formatted |-> a.formatted, used |-> u, ino |-> a.ino]
<1>1. a = old
  BY DEF AState
<1>2. [a EXCEPT !.used = u, !.ino = t] = [[a EXCEPT !.used = u] EXCEPT !.ino = t]
  OBVIOUS
<1>3. [old EXCEPT !.used = u] = mid
  OBVIOUS
<1>4. [mid EXCEPT !.ino = t] = [mounted |-> a.mounted, formatted |-> a.formatted, used |-> u, ino |-> t]
  OBVIOUS
<1> HIDE DEF old, mid
<1> QED BY <1>1, <1>2, <1>3, <1>4

LEMMA FreedIs ==
    ASSUME NEW a, BlocksOk(a), NEW n \in ANode
    PROVE  inode_free(a, n) = Emptied(a, n, FreeInode)
<1> DEFINE node == [a.ino[n] EXCEPT !.blk = [i \in Index |-> 0], !.ind = 0, !.size = 0]
           u == a.used \ BlocksOf(a.ino[n])
<1>1. a \in AState /\ a.ino \in [ANode -> AInode]
  BY StateParts DEF BlocksOk
<1>2. inode_free(a, n) = [[a EXCEPT !.used = u, !.ino = [a.ino EXCEPT ![n] = node]] EXCEPT !.ino[n] = FreeInode]
  BY DEF inode_free, Truncated
<1> HIDE DEF node, u
<1>3. [a EXCEPT !.used = u, !.ino = [a.ino EXCEPT ![n] = node]].ino = [a.ino EXCEPT ![n] = node]
  BY <1>1 DEF AState
<1>4. [[a.ino EXCEPT ![n] = node] EXCEPT ![n] = FreeInode] = [a.ino EXCEPT ![n] = FreeInode]
  BY <1>1
<1> DEFINE b == [a EXCEPT !.used = u, !.ino = [a.ino EXCEPT ![n] = node]]
<1>5. b = [mounted |-> a.mounted, formatted |-> a.formatted, used |-> u, ino |-> [a.ino EXCEPT ![n] = node]]
  BY <1>1, TwoFields
<1>6. inode_free(a, n) = [b EXCEPT !.ino = [b.ino EXCEPT ![n] = FreeInode]]
  BY <1>2
<1> HIDE DEF b
<1>7. inode_free(a, n) = [mounted |-> a.mounted, formatted |-> a.formatted, used |-> u,
                              ino |-> [a.ino EXCEPT ![n] = FreeInode]]
  BY <1>4, <1>5, <1>6
<1>8. Emptied(a, n, FreeInode) = [mounted |-> a.mounted, formatted |-> a.formatted, used |-> u,
                              ino |-> [a.ino EXCEPT ![n] = FreeInode]]
  <2>1. Emptied(a, n, FreeInode) = [a EXCEPT !.used = u, !.ino = [a.ino EXCEPT ![n] = FreeInode]]
    BY DEF Emptied, u
  <2> QED BY <1>1, <2>1, TwoFields
<1> QED BY <1>7, <1>8

\* One component of a path leads on from a directory in use.
WalkTo == INSTANCE FoldLemmas WITH op <- Walked
Live(a) == {n \in ANode : n = 0 \/ a.ino[n].type # "free"}

LEMMA EntryFound ==
    ASSUME NEW a \in AState, NEW d \in ANode, NEW name, dir_find_entry(a, d, name) # 0
    PROVE  /\ dir_find_entry(a, d, name) \in DOMAIN a.ino[d].ent /\ dir_find_entry(a, d, name) \in Nat
           /\ a.ino[d].type = "dir" /\ a.ino[d].ent[dir_find_entry(a, d, name)][2] # 0
<1> DEFINE at == {i \in DOMAIN a.ino[d].ent : a.ino[d].ent[i][2] # 0 /\ a.ino[d].ent[i][1] = name}
<1>1. a.ino[d].type = "dir" /\ at # {} /\ dir_find_entry(a, d, name) = Min(at)
  BY DEF dir_find_entry
<1>2. a.ino[d].ent \in Seq(AName \X ANode)
  BY StateParts DEF AInode
<1>3. at \in SUBSET Nat
  BY <1>2
<1>4. Min(at) \in at
  <2> HIDE DEF at
  <2> QED BY <1>1, <1>3, AMinIn
<1> QED BY <1>1, <1>3, <1>4

LEMMA EntryLeads ==
    ASSUME NEW a, AmfsOk(a), NEW d \in ANode, NEW name, dir_find_entry(a, d, name) # 0
    PROVE  LET i == dir_find_entry(a, d, name)
           IN  /\ i \in Nat /\ a.ino[d].ent[i][2] = Leads(a, d, i) /\ Leads(a, d, i) \in Inode
               /\ a.ino[Leads(a, d, i)].type # "free" /\ a.ino[d].type = "dir"
<1> DEFINE i == dir_find_entry(a, d, name)
<1>0. a \in AState
  BY DEF AmfsOk, BlocksOk
<1>1. i \in DOMAIN a.ino[d].ent /\ i \in Nat /\ a.ino[d].type = "dir" /\ a.ino[d].ent[i][2] # 0
  BY <1>0, EntryFound
<1> HIDE DEF i
<1>2. a.ino[d].ent[i][2] = Leads(a, d, i) /\ Leads(a, d, i) # 0
  BY <1>1 DEF Leads
<1>3. Leads(a, d, i) \in Inode
  BY <1>0, <1>2, LeadsNode DEF ANode
<1>4. a.ino[Leads(a, d, i)].type # "free"
  BY <1>1, <1>2 DEF AmfsOk, NamesOk
<1> QED BY <1>1, <1>2, <1>3, <1>4 DEF i

LEMMA PathTyped == ASSUME NEW p \in APath PROVE p # <<>> /\ p \in Seq(AName)
<1>1. p # <<>> /\ p \in Seq(Range(p))
  BY AmfsAssumption
<1> DEFINE S == Range(p)
<1>2. S \subseteq AName
  BY DEF AName
<1> HIDE DEF S
<1>3. p # <<>> /\ p \in Seq(S)
  BY <1>1 DEF S
<1>4. p \in Seq(AName)
  BY <1>2, <1>3
<1> QED BY <1>1, <1>4

At_(a) == {[a |-> a, at |-> n] : n \in Live(a) \cup {ANone}}
LEMMA WalkClosed ==
    ASSUME NEW a, AmfsOk(a)
    PROVE  \A u \in At_(a), name \in AName : Walked(u, name) \in At_(a)
<1> SUFFICES ASSUME NEW n \in Live(a) \cup {ANone}, NEW name \in AName
             PROVE  Walked([a |-> a, at |-> n], name) \in At_(a)
  BY DEF At_
<1> DEFINE u == [a |-> a, at |-> n]
           i == IF n = ANone THEN 0 ELSE dir_find_entry(a, n, name)
<1>1. Walked(u, name) = [a |-> a, at |-> IF i = 0 THEN ANone ELSE a.ino[n].ent[i][2]]
  BY DEF Walked
<1>2. CASE i = 0
  BY <1>1, <1>2 DEF At_
<1>3. CASE i # 0
  <2>1. n # ANone /\ n \in ANode /\ i = dir_find_entry(a, n, name)
    BY <1>3 DEF Live
  <2>2. a.ino[n].ent[i][2] \in Inode /\ a.ino[a.ino[n].ent[i][2]].type # "free"
    <3> HIDE DEF i
    <3> QED BY <1>3, <2>1, EntryLeads
  <2>3. a.ino[n].ent[i][2] \in Live(a)
    BY <2>2 DEF Live, ANode
  <2> QED BY <1>1, <1>3, <2>3 DEF At_
<1> QED BY <1>2, <1>3

LEMMA LookupIs == ASSUME NEW a, NEW p PROVE PathLookup(a, p) = WalkTo!Folded([a |-> a, at |-> 0], p).at
BY DEF PathLookup, WalkTo!Folded, FoldLeft, MapThenFoldSet,
       WalkTo!FoldLeft, WalkTo!MapThenFoldSet, WalkTo!Max, Max

LEMMA LookupLive ==
    ASSUME NEW a, AmfsOk(a), NEW p \in Seq(AName)
    PROVE  /\ WalkTo!Folded([a |-> a, at |-> 0], p) \in At_(a)
           /\ WalkTo!Folded([a |-> a, at |-> 0], p) = [a |-> a, at |-> PathLookup(a, p)]
           /\ PathLookup(a, p) \in Live(a) \cup {ANone}
<1>1. [a |-> a, at |-> 0] \in At_(a)
  BY DEF At_, Live, ANode
<1>2. WalkTo!Folded([a |-> a, at |-> 0], p) \in At_(a)
  BY <1>1, WalkClosed, WalkTo!FoldLeftIn
<1>3. PICK n \in Live(a) \cup {ANone} : WalkTo!Folded([a |-> a, at |-> 0], p) = [a |-> a, at |-> n]
  BY <1>2 DEF At_
<1>4. PathLookup(a, p) = n
  BY <1>3, LookupIs
<1> QED BY <1>2, <1>3, <1>4

\* The last component of a path is looked up in the directory of the others.
LEMMA LookupLast ==
    ASSUME NEW a, AmfsOk(a), NEW p \in APath
    PROVE  /\ ParentOf(a, p) \in Live(a) \cup {ANone} /\ Last(p) \in AName
           /\ PathLookup(a, p) = LET i == IF ParentOf(a, p) = ANone THEN 0
                                           ELSE dir_find_entry(a, ParentOf(a, p), Last(p))
                                 IN  IF i = 0 THEN ANone ELSE a.ino[ParentOf(a, p)].ent[i][2]
<1>1. p # <<>> /\ p \in Seq(AName)
  BY PathTyped
<1>2. Front(p) \in Seq(AName) /\ Last(p) \in AName
  <2>1. Len(p) \in Nat /\ Len(p) \in 1 .. Len(p) /\ Len(p) - 1 \in Nat /\ Len(p) - 1 <= Len(p)
    BY <1>1
  <2>2. Front(p) = SubSeq(p, 1, Len(p) - 1)
    BY DEF Front
  <2>3. \A j \in Nat : j <= Len(p) => SubSeq(p, 1, j) \in Seq(AName)
    BY <1>1
  <2>4. Front(p) \in Seq(AName)
    BY <2>1, <2>2, <2>3
  <2> QED BY <1>1, <2>1, <2>4 DEF Last
<1> DEFINE b == [a |-> a, at |-> 0]
           u == [a |-> a, at |-> ParentOf(a, p)]
<1>3. b \in At_(a)
  BY DEF At_, Live, ANode
<1>4. WalkTo!Folded(b, p) = Walked(WalkTo!Folded(b, WalkTo!Front(p)), WalkTo!Last(p))
  <2> HIDE DEF b
  <2> QED BY <1>1, <1>3, WalkClosed, WalkTo!FoldLeftLast
<1>5. WalkTo!Front(p) = Front(p) /\ WalkTo!Last(p) = Last(p)
  BY DEF Front, Last, WalkTo!Front, WalkTo!Last
<1>6. WalkTo!Folded(b, Front(p)) = u /\ ParentOf(a, p) \in Live(a) \cup {ANone}
  BY <1>2, LookupLive DEF ParentOf
<1>7. PathLookup(a, p) = Walked(u, Last(p)).at
  BY <1>4, <1>5, <1>6, LookupIs
<1>8. Walked(u, Last(p)) = [u EXCEPT !.at = LET i == IF ParentOf(a, p) = ANone THEN 0
                                           ELSE dir_find_entry(a, ParentOf(a, p), Last(p))
                                 IN  IF i = 0 THEN ANone ELSE a.ino[ParentOf(a, p)].ent[i][2]]
  BY DEF Walked
<1> QED BY <1>2, <1>6, <1>7, <1>8

LEMMA QuotientBounds ==
    ASSUME NEW m \in Nat, NEW k \in Nat, k > 0
    PROVE  /\ m \div k \in Nat /\ k * (m \div k) <= m /\ m < k * ((m \div k) + 1)
OBVIOUS

\* One more slot needs at most one more sector, the one it is in.
LEMMA NextSector ==
    ASSUME NEW len \in Nat, NEW i \in Nat, i < (len + 1 + PerSector - 1) \div PerSector, i # len \div PerSector
    PROVE  i < (len + PerSector - 1) \div PerSector
<1> DEFINE k == PerSector
           x == len \div k
           y == (len + k - 1) \div k
           z == (len + 1 + k - 1) \div k
<1>0. k \in Nat /\ k > 0
  BY AmfsSizes
<1>1. x \in Nat /\ k * x <= len /\ len < k * (x + 1)
  BY <1>0, QuotientBounds
<1>2. y \in Nat /\ k * y <= len + k - 1 /\ len + k - 1 < k * (y + 1)
  <2>1. len + k - 1 \in Nat
    BY <1>0
  <2> QED BY <1>0, <2>1, QuotientBounds
<1>3. z \in Nat /\ k * z <= len + k
  <2>1. len + 1 + k - 1 \in Nat /\ len + 1 + k - 1 = len + k
    BY <1>0
  <2> QED BY <1>0, <2>1, QuotientBounds
<1> HIDE DEF x, y, z
<1>4. z <= x + 1
  <2>1. k * z < k * (x + 2)
    <3>1. k * (x + 2) = k * (x + 1) + k
      BY <1>0, <1>1
    <3>2. k * z \in Nat /\ k * (x + 1) \in Nat
      BY <1>0, <1>1, <1>3
    <3> QED BY <1>0, <1>1, <1>3, <3>1, <3>2
  <2>2. ~(z >= x + 2)
    <3> SUFFICES ASSUME z >= x + 2 PROVE FALSE
      OBVIOUS
    <3>1. k * z >= k * (x + 2)
      BY <1>0, <1>1, <1>3
    <3>2. k * z \in Nat /\ k * (x + 2) \in Nat
      BY <1>0, <1>1, <1>3
    <3> QED BY <2>1, <3>1, <3>2
  <2> QED BY <1>1, <1>3, <2>2
<1>5. x <= y
  <2> SUFFICES ASSUME y + 1 <= x PROVE FALSE
    BY <1>1, <1>2
  <2>1. k * (y + 1) <= k * x
    BY <1>0, <1>1, <1>2
  <2>2. k * (y + 1) \in Nat /\ k * x \in Nat
    BY <1>0, <1>1, <1>2
  <2> QED BY <1>0, <1>1, <1>2, <2>1, <2>2
<1>6. i < z /\ i # x
  BY DEF x, z
<1>7. i < y
  BY <1>1, <1>2, <1>3, <1>4, <1>5, <1>6
<1> QED BY <1>7 DEF y

\* No slot leads to inode n.
Unnamed(a, n) == \A d \in ANode, i \in Nat : Leads(a, d, i) # n

\* The slots after <<name, n>> was written to slot k: the next one may have lost its inode.
Written(old, new, k, name, n) ==
    /\ new \in Seq(AName \X ANode) /\ k \in DOMAIN new /\ new[k][2] = n
    /\ \A i \in DOMAIN new : i # k => i \in DOMAIN old /\ (new[i][2] = old[i][2] \/ new[i][2] = 0)

LEMMA SlotAppended ==
    ASSUME NEW S, NEW q \in Seq(S), NEW x \in S
    PROVE  /\ Append(q, x) \in Seq(S) /\ Len(Append(q, x)) = Len(q) + 1 /\ DOMAIN Append(q, x) = 1 .. Len(q) + 1
           /\ Append(q, x)[Len(q) + 1] = x /\ \A i \in 1 .. Len(q) : Append(q, x)[i] = q[i]
OBVIOUS
LEMMA SlotReplaced ==
    ASSUME NEW S, NEW q \in Seq(S), NEW k \in DOMAIN q, NEW x \in S
    PROVE  /\ [q EXCEPT ![k] = x] \in Seq(S) /\ Len([q EXCEPT ![k] = x]) = Len(q) /\ DOMAIN [q EXCEPT ![k] = x] = DOMAIN q
           /\ [q EXCEPT ![k] = x][k] = x /\ \A i \in DOMAIN q : i # k => [q EXCEPT ![k] = x][i] = q[i]
OBVIOUS

LEMMA SlotWritten ==
    ASSUME NEW ent \in Seq(AName \X ANode), NEW name \in AName, NEW n \in ANode
    PROVE  LET gaps == {i \in DOMAIN ent : ent[i][2] = 0}
               slot == IF gaps = {} THEN Len(ent) + 1 ELSE Min(gaps)
               put == IF gaps = {} THEN Append(ent, <<name, n>>) ELSE [ent EXCEPT ![slot] = <<name, n>>]
           IN  /\ slot \in Nat /\ slot > 0 /\ Len(Spill(put, slot)) = IF gaps = {} THEN Len(ent) + 1 ELSE Len(ent)
               /\ Written(ent, Spill(put, slot), slot, name, n)
               /\ gaps # {} => slot \in DOMAIN ent
<1> DEFINE gaps == {i \in DOMAIN ent : ent[i][2] = 0}
           slot == IF gaps = {} THEN Len(ent) + 1 ELSE Min(gaps)
           put == IF gaps = {} THEN Append(ent, <<name, n>>) ELSE [ent EXCEPT ![slot] = <<name, n>>]
           new == Spill(put, slot)
<1>1. gaps # {} => slot \in DOMAIN ent
  <2>1. gaps \in SUBSET Nat
    OBVIOUS
  <2>2. gaps # {} => Min(gaps) \in gaps
    <3> HIDE DEF gaps
    <3> QED BY <2>1, AMinIn
  <2> QED BY <2>2
<1>2. /\ put \in Seq(AName \X ANode) /\ slot \in DOMAIN put /\ put[slot] = <<name, n>>
      /\ Len(put) = (IF gaps = {} THEN Len(ent) + 1 ELSE Len(ent))
      /\ \A i \in DOMAIN put : i # slot => i \in DOMAIN ent /\ put[i] = ent[i]
  <2>1. <<name, n>> \in AName \X ANode
    OBVIOUS
  <2>2. CASE gaps = {}
    <3>1. put = Append(ent, <<name, n>>) /\ slot = Len(ent) + 1
      BY <2>2
    <3> HIDE DEF put, slot, gaps
    <3>2. Len(ent) \in Nat /\ DOMAIN ent = 1 .. Len(ent)
      OBVIOUS
    <3>3. \A i \in 1 .. Len(ent) + 1 : i # Len(ent) + 1 => i \in 1 .. Len(ent)
      BY <3>2
    <3> DEFINE x == <<name, n>>
               S == AName \X ANode
    <3>4. x \in S /\ ent \in Seq(S) /\ put = Append(ent, x)
      BY <2>1, <3>1
    <3> HIDE DEF x, S
    <3>5. /\ put \in Seq(S) /\ Len(put) = Len(ent) + 1 /\ DOMAIN put = 1 .. Len(ent) + 1
           /\ put[Len(ent) + 1] = x
          /\ \A i \in 1 .. Len(ent) : put[i] = ent[i]
      BY <3>4, SlotAppended
    <3>6. \A i \in DOMAIN put : i # slot => i \in DOMAIN ent /\ put[i] = ent[i]
      BY <3>1, <3>2, <3>3, <3>5
    <3>7. slot \in DOMAIN put /\ put[slot] = x
      <4>1. Len(ent) + 1 \in 1 .. Len(ent) + 1
        BY <3>2
      <4>2. Len(ent) + 1 \in DOMAIN put /\ put[Len(ent) + 1] = x
        BY <3>5, <4>1
      <4> QED BY <3>1, <4>2, Zenon
    <3> QED BY <2>2, <3>5, <3>6, <3>7 DEF x, S
  <2>3. CASE gaps # {}
    <3>1. put = [ent EXCEPT ![slot] = <<name, n>>]
      BY <2>3
    <3> HIDE DEF put, slot, gaps
    <3> QED BY <1>1, <2>1, <2>3, <3>1, SlotReplaced
  <2> QED BY <2>2, <2>3
<1>3. slot \in Nat /\ slot > 0
  <2> HIDE DEF put, slot, gaps
  <2> QED BY <1>2
<1>4. /\ new \in Seq(AName \X ANode) /\ Len(new) = Len(put)
      /\ \A i \in DOMAIN put : new[i] = put[i] \/ (i = slot + 1 /\ new[i][2] = 0)
  <2> HIDE DEF put, slot, gaps
  <2>1. CASE slot % PerSector # 0 /\ slot + 1 \in DOMAIN put
    <3>1. new = [put EXCEPT ![slot + 1] = <<put[slot + 1][1], 0>>]
      BY <2>1 DEF Spill
    <3>2. put[slot + 1] \in AName \X ANode
      BY <1>2, <2>1
    <3>3. <<put[slot + 1][1], 0>> \in AName \X ANode
      BY <3>2 DEF ANode
    <3> HIDE DEF new
    <3> QED BY <1>2, <2>1, <3>1, <3>3
  <2>2. CASE ~(slot % PerSector # 0 /\ slot + 1 \in DOMAIN put)
    <3>1. new = put
      BY <2>2 DEF Spill
    <3> QED BY <1>2, <3>1
  <2> QED BY <2>1, <2>2
<1>5. Written(ent, new, slot, name, n)
  <2> HIDE DEF new, put, slot, gaps
  <2>1. DOMAIN new = DOMAIN put
    BY <1>2, <1>4
  <2>2. new[slot][2] = n
    <3>1. slot # slot + 1
      BY <1>3
    <3> QED BY <1>2, <1>4, <3>1
  <2>3. ASSUME NEW i \in DOMAIN new, i # slot
        PROVE  i \in DOMAIN ent /\ (new[i][2] = ent[i][2] \/ new[i][2] = 0)
    BY <1>2, <1>4, <2>1, <2>3
  <2> QED BY <1>2, <1>4, <2>1, <2>2, <2>3 DEF Written
<1> HIDE DEF new
<1>6. Len(new) = IF gaps = {} THEN Len(ent) + 1 ELSE Len(ent)
  BY <1>2, <1>4
<1> QED BY <1>1, <1>3, <1>5, <1>6 DEF new

\* Writing slot k of directory d: entries may be lost, and one is new.
Entering(c, d, node, k, name, n) ==
    /\ AmfsOk(c) /\ d \in ANode /\ n \in Inode /\ node \in AInode /\ c.ino[n].type # "free" /\ Unnamed(c, n)
    /\ node.type = "dir" /\ c.ino[d].type = "dir" /\ node.blk = c.ino[d].blk /\ node.ind = c.ino[d].ind
    /\ Covered(node) /\ Written(c.ino[d].ent, node.ent, k, name, n)

LEMMA EnteredOk ==
    ASSUME NEW c, NEW d, NEW node, NEW k, NEW name, NEW n, Entering(c, d, node, k, name, n)
    PROVE  AmfsOk([c EXCEPT !.ino = [c.ino EXCEPT ![d] = node]])
<1> DEFINE e == [c EXCEPT !.ino = [c.ino EXCEPT ![d] = node]]
<1>1. /\ AmfsOk(c) /\ d \in ANode /\ n \in Inode /\ n \in ANode /\ n # 0 /\ node \in AInode
      /\ c.ino[n].type # "free" /\ Unnamed(c, n)
      /\ node.type = "dir" /\ c.ino[d].type = "dir" /\ node.blk = c.ino[d].blk /\ node.ind = c.ino[d].ind
      /\ Covered(node) /\ Written(c.ino[d].ent, node.ent, k, name, n)
  BY AmfsSizes DEF Entering, ANode
<1>2. c \in AState /\ c.ino \in [ANode -> AInode] /\ c.used \subseteq AData
  BY <1>1, StateParts DEF AmfsOk, BlocksOk
<1>3. /\ e \in AState /\ e.used = c.used /\ e.ino[d] = node /\ \A m \in ANode \ {d} : e.ino[m] = c.ino[m]
  BY <1>1, <1>2 DEF AState
<1> HIDE DEF e
<1>4. \A m \in ANode : /\ e.ino[m].blk = c.ino[m].blk /\ e.ino[m].ind = c.ino[m].ind
                          /\ e.ino[m].type = c.ino[m].type
  BY <1>1, <1>3
<1>5. BlocksOk(e)
  <2>1. \A m \in ANode, i \in APlace : At(e.ino[m], i) = At(c.ino[m], i)
    BY <1>4 DEF At
  <2>2. OneOwner(e) /\ AllMarked(e)
    BY <1>1, <1>3, <2>1 DEF OneOwner, AllMarked, AmfsOk, BlocksOk
  <2>3. IndFirst(e)
    BY <1>1, <1>4 DEF IndFirst, AmfsOk, BlocksOk
  <2> QED BY <1>3, <2>2, <2>3 DEF BlocksOk
<1>6. NodesOk(e)
  <2>1. AShaped(node)
    BY <1>1 DEF AShaped
  <2>2. \A m \in ANode : m = d \/ (Covered(c.ino[m]) /\ AShaped(c.ino[m]))
    BY <1>1 DEF AmfsOk, NodesOk
  <2> QED BY <1>1, <1>3, <2>1, <2>2 DEF NodesOk
<1>7. k \in DOMAIN node.ent /\ Leads(e, d, k) = n
  BY <1>1, <1>3 DEF Leads, Written
<1>8. ASSUME NEW m \in ANode, NEW i \in Nat, ~(m = d /\ i = k), Leads(e, m, i) # 0
      PROVE  Leads(e, m, i) = Leads(c, m, i)
  <2>1. CASE m # d
    BY <1>3, <2>1 DEF Leads
  <2>2. CASE m = d
    <3>1. i \in DOMAIN node.ent /\ Leads(e, m, i) = node.ent[i][2] /\ i # k
      BY <1>3, <1>8, <2>2 DEF Leads
    <3>2. i \in DOMAIN c.ino[d].ent /\ node.ent[i][2] = c.ino[d].ent[i][2]
      BY <1>1, <1>8, <3>1 DEF Written
    <3> QED BY <2>2, <3>1, <3>2 DEF Leads
  <2> QED BY <2>1, <2>2
<1>9. NamesOk(e)
  <2>1. ASSUME NEW m \in ANode, NEW i \in Nat, Leads(e, m, i) # 0
        PROVE  e.ino[Leads(e, m, i)].type # "free"
    <3>1. CASE m = d /\ i = k
      BY <1>1, <1>4, <1>7, <3>1
    <3>2. CASE ~(m = d /\ i = k)
      <4>1. Leads(e, m, i) = Leads(c, m, i) /\ Leads(c, m, i) \in ANode
        BY <1>2, <1>8, <2>1, <3>2, LeadsNode
      <4>2. c.ino[Leads(c, m, i)].type # "free"
        BY <1>1, <2>1, <4>1 DEF AmfsOk, NamesOk
      <4> QED BY <1>4, <4>1, <4>2
    <3> QED BY <3>1, <3>2
  <2>2. ASSUME NEW m1 \in ANode, NEW m2 \in ANode, NEW i \in Nat, NEW j \in Nat,
               Leads(e, m1, i) = Leads(e, m2, j), Leads(e, m1, i) # 0
        PROVE  m1 = m2 /\ i = j
    <3>1. \A m \in ANode, x \in Nat : Leads(c, m, x) # n
      BY <1>1 DEF Unnamed
    <3>2. CASE (m1 = d /\ i = k) \/ (m2 = d /\ j = k)
      BY <1>7, <1>8, <2>2, <3>1, <3>2
    <3>3. CASE ~((m1 = d /\ i = k) \/ (m2 = d /\ j = k))
      <4>1. Leads(e, m1, i) = Leads(c, m1, i) /\ Leads(e, m2, j) = Leads(c, m2, j)
        BY <1>8, <2>2, <3>3
      <4>2. Leads(c, m1, i) = Leads(c, m2, j) /\ Leads(c, m1, i) # 0
        BY <2>2, <4>1
      <4>3. NamesOk(c)
        BY <1>1 DEF AmfsOk
      <4> QED BY <4>2, <4>3 DEF NamesOk
    <3> QED BY <3>2, <3>3
  <2> QED BY <2>1, <2>2 DEF NamesOk
<1> QED BY <1>5, <1>6, <1>9 DEF AmfsOk, e

\* A directory with other slots.
Relisted(node, x, z) == [node EXCEPT !.ent = x, !.size = z]
LEMMA NodeFields ==
    ASSUME NEW node \in AInode, NEW x \in Seq(AName \X ANode), NEW z \in Nat
    PROVE  /\ Relisted(node, x, z) \in AInode /\ Relisted(node, x, z).type = node.type
           /\ Relisted(node, x, z).blk = node.blk /\ Relisted(node, x, z).ind = node.ind
           /\ Relisted(node, x, z).ent = x
<1> DEFINE old == [type |-> node.type, size |-> node.size, blk |-> node.blk, ind |-> node.ind, ent |-> node.ent]
           mid == [type |-> node.type, size |-> node.size, blk |-> node.blk, ind |-> node.ind, ent |-> x]
           end == [type |-> node.type, size |-> z, blk |-> node.blk, ind |-> node.ind, ent |-> x]
<1>1. node = old
  BY DEF AInode
<1>2. [old EXCEPT !.ent = x] = mid
  OBVIOUS
<1>3. [mid EXCEPT !.size = z] = end
  OBVIOUS
<1>4. end \in AInode
  BY DEF AInode
<1>5. Relisted(node, x, z) = end
  <2>0. Relisted(node, x, z) = [node EXCEPT !.ent = x, !.size = z]
    BY DEF Relisted
  <2>1. [node EXCEPT !.ent = x, !.size = z] = [[node EXCEPT !.ent = x] EXCEPT !.size = z]
    OBVIOUS
  <2> HIDE DEF old, mid, end
  <2> QED BY <1>1, <1>2, <1>3, <2>0, <2>1
<1> QED BY <1>4, <1>5

\* dir_add_entry names inode n, or leaves it without a name.
LEMMA AddEntry ==
    ASSUME NEW a, AmfsOk(a), NEW d \in ANode, NEW n \in Inode, NEW name \in AName, d # n,
           a.ino[n].type # "free", Unnamed(a, n)
    PROVE  LET r == dir_add_entry(a, d, name, n)
           IN  /\ AmfsOk(r.a) /\ r.ok \in BOOLEAN /\ r.a.ino[n].type = a.ino[n].type
               /\ ~r.ok => Unnamed(r.a, n)
<1> DEFINE ent == a.ino[d].ent
           gaps == {i \in DOMAIN ent : ent[i][2] = 0}
           slot == IF gaps = {} THEN Len(ent) + 1 ELSE Min(gaps)
           b == block_for_offset(a, d, (slot - 1) \div PerSector)
           dir == b.a.ino[d]
           put == IF gaps = {} THEN Append(ent, <<name, n>>) ELSE [ent EXCEPT ![slot] = <<name, n>>]
           node == [dir EXCEPT !.ent = Spill(put, slot), !.size = dir.size + (IF gaps = {} THEN 1 ELSE 0)]
           r == dir_add_entry(a, d, name, n)
<1>0. BlocksOk(a) /\ a \in AState /\ a.ino[d] \in AInode /\ ent \in Seq(AName \X ANode) /\ n \in ANode /\ n # 0
  BY StateParts, AmfsSizes DEF AmfsOk, BlocksOk, AInode, ANode
<1>1. \/ r.a = a /\ r.ok = FALSE
      \/ a.ino[d].type = "dir" /\ b.block = 0 /\ r.a = b.a /\ r.ok = FALSE
      \/ a.ino[d].type = "dir" /\ b.block # 0 /\ r.a = [b.a EXCEPT !.ino[d] = node] /\ r.ok = TRUE
  BY DEF dir_add_entry
<1>2. /\ slot \in Nat /\ slot > 0 /\ Len(Spill(put, slot)) = IF gaps = {} THEN Len(ent) + 1 ELSE Len(ent)
      /\ Written(ent, Spill(put, slot), slot, name, n)
      /\ gaps # {} => slot \in DOMAIN ent
  BY <1>0, SlotWritten
<1> DEFINE i == (slot - 1) \div PerSector
<1>3. i \in Nat
  <2>1. slot - 1 \in Nat
    <3> HIDE DEF slot
    <3> QED BY <1>2
  <2> HIDE DEF slot
  <2> QED BY <2>1, AmfsSizes, QuotientBounds
<1>4. KeepsVolume(a, b.a, d) /\ (b.block # 0 => i \in Index /\ b.a.ino[d].blk[i] # 0)
  <2> HIDE DEF i
  <2>1. b = block_for_offset(a, d, i) /\ i \in Int
    BY <1>3 DEF i
  <2> HIDE DEF b
  <2> QED BY <1>0, <2>1, BlockForOffset
<1> HIDE DEF r, node, b
<1>5. CASE r.a = a /\ r.ok = FALSE
  BY <1>5 DEF r
<1>6. ASSUME a.ino[d].type = "dir"
      PROVE  /\ AmfsOk(b.a) /\ Unnamed(b.a, n) /\ b.a.ino[n].type = a.ino[n].type
             /\ dir.type = "dir" /\ dir.ent = ent
  <2>1. AmfsOk(b.a)
    BY <1>4, <1>6, KeepsOk
  <2>2. \A m \in ANode : b.a.ino[m].ent = a.ino[m].ent /\ b.a.ino[m].type = a.ino[m].type
    BY <1>4 DEF KeepsVolume, KeepsNode
  <2>3. Unnamed(b.a, n)
    BY <2>2 DEF Unnamed, Leads
  <2> QED BY <1>0, <1>6, <2>1, <2>2, <2>3
<1>7. CASE a.ino[d].type = "dir" /\ b.block = 0 /\ r.a = b.a /\ r.ok = FALSE
  BY <1>6, <1>7 DEF r
<1>8. CASE a.ino[d].type = "dir" /\ b.block # 0 /\ r.a = [b.a EXCEPT !.ino[d] = node] /\ r.ok = TRUE
  <2>1. AmfsOk(b.a) /\ Unnamed(b.a, n) /\ b.a.ino[n].type = a.ino[n].type /\ dir.type = "dir" /\ dir.ent = ent
    BY <1>6, <1>8
  <2>2. dir \in AInode
    BY <2>1, StateParts DEF AmfsOk, BlocksOk
  <2>3. /\ node \in AInode /\ node.type = dir.type /\ node.blk = dir.blk /\ node.ind = dir.ind
        /\ node.ent = Spill(put, slot)
    <3>1. Spill(put, slot) \in Seq(AName \X ANode)
      BY <1>2 DEF Written
    <3> DEFINE X == Spill(put, slot)
               g == IF gaps = {} THEN 1 ELSE 0
    <3>2. g \in Nat /\ node = [dir EXCEPT !.ent = X, !.size = dir.size + g] /\ X \in Seq(AName \X ANode)
      BY <3>1 DEF node
    <3>3. X = Spill(put, slot)
      OBVIOUS
    <3> HIDE DEF X, g, dir
    <3>4. dir.size + g \in Nat
      BY <2>2, <3>2 DEF AInode
    <3> DEFINE z == dir.size + g
    <3>5. z \in Nat /\ node = [dir EXCEPT !.ent = X, !.size = z]
      BY <3>2, <3>4
    <3> HIDE DEF z
    <3>6. node = Relisted(dir, X, z)
      BY <3>5 DEF Relisted
    <3>7. node \in AInode /\ node.type = dir.type /\ node.blk = dir.blk /\ node.ind = dir.ind /\ node.ent = X
      <4>1. X \in Seq(AName \X ANode) /\ z \in Nat
        BY <3>2, <3>5
      <4> HIDE DEF node
      <4>2. Relisted(dir, X, z) \in AInode /\ Relisted(dir, X, z).type = dir.type /\ Relisted(dir, X, z).blk = dir.blk
            /\ Relisted(dir, X, z).ind = dir.ind /\ Relisted(dir, X, z).ent = X
        BY <2>2, <4>1, NodeFields, ZenonT(60)
      <4> QED BY <3>6, <4>2, Zenon
    <3> QED BY <3>3, <3>7
  <2>4. Covered(node)
    <3> SUFFICES ASSUME NEW j \in Index, j < ASectors(node) PROVE node.blk[j] # 0
      BY DEF Covered
    <3>1. Covered(dir) /\ j \in Nat
      BY <2>1, AmfsSizes DEF AmfsOk, NodesOk
    <3>2. /\ ASectors(node) = (Len(node.ent) + PerSector - 1) \div PerSector
          /\ ASectors(dir) = (Len(ent) + PerSector - 1) \div PerSector
      BY <2>1, <2>3 DEF ASectors
    <3>3. CASE gaps # {}
      <4>1. Len(node.ent) = Len(ent)
        BY <1>2, <2>3, <3>3
      <4> QED BY <2>3, <3>1, <3>2, <4>1 DEF Covered
    <3>4. CASE gaps = {}
      <4>1. Len(node.ent) = Len(ent) + 1 /\ Len(ent) \in Nat /\ slot = Len(ent) + 1
        BY <1>0, <1>2, <2>3, <3>4
      <4>2. i = Len(ent) \div PerSector
        <5>1. slot - 1 = Len(ent)
          BY <4>1
        <5> QED BY <5>1
      <4>3. CASE j = i
        BY <1>4, <1>8, <2>3, <4>3
      <4>4. CASE j # i
        <5> HIDE DEF i, ent
        <5>1. j < (Len(ent) + PerSector - 1) \div PerSector
          BY <3>1, <3>2, <4>1, <4>2, <4>4, NextSector
        <5> QED BY <2>3, <3>1, <3>2, <5>1 DEF Covered
      <4> QED BY <4>3, <4>4
    <3> QED BY <3>3, <3>4
  <2>5. Entering(b.a, d, node, slot, name, n)
    <3> HIDE DEF slot, put, gaps, i
    <3> QED BY <1>0, <1>2, <2>1, <2>3, <2>4 DEF Entering
  <2>6. AmfsOk([b.a EXCEPT !.ino = [b.a.ino EXCEPT ![d] = node]])
    <3> HIDE DEF slot
    <3> QED BY <2>5, EnteredOk
  <2>7. r.a.ino[n] = b.a.ino[n]
    <3>1. b.a \in AState /\ b.a.ino \in [ANode -> AInode]
      BY <2>1, StateParts DEF AmfsOk, BlocksOk
    <3> QED BY <1>0, <1>8, <3>1 DEF AState
  <2> QED BY <1>8, <2>1, <2>6, <2>7 DEF r
<1> QED BY <1>1, <1>5, <1>7, <1>8 DEF r, node

LEMMA NodeSet ==
    ASSUME NEW a \in AState, NEW n \in ANode, NEW node \in AInode
    PROVE  LET c == [a EXCEPT !.ino = [a.ino EXCEPT ![n] = node]]
           IN  /\ c \in AState /\ c.used = a.used /\ c.ino[n] = node
               /\ \A m \in ANode \ {n} : c.ino[m] = a.ino[m]
<1>1. a.ino \in [ANode -> AInode]
  BY StateParts
<1> QED BY <1>1 DEF AState

LEMMA SameBlocks ==
    ASSUME NEW a, BlocksOk(a), NEW c \in AState, c.used = a.used,
           \A m \in ANode : c.ino[m].blk = a.ino[m].blk /\ c.ino[m].ind = a.ino[m].ind
    PROVE  BlocksOk(c)
<1>1. \A m \in ANode, i \in APlace : At(c.ino[m], i) = At(a.ino[m], i)
  BY DEF At
<1>2. OneOwner(c) /\ AllMarked(c)
  BY <1>1 DEF OneOwner, AllMarked, BlocksOk
<1>3. IndFirst(c)
  BY DEF IndFirst, BlocksOk
<1> QED BY <1>2, <1>3 DEF BlocksOk

\* Slots may lose their inode, and an inode without a slot may become free.
FewerNames(a, c, n) ==
    /\ \A m \in ANode \ {n} : c.ino[m].type = a.ino[m].type
    /\ \A m \in ANode, i \in Nat : Leads(c, m, i) # 0 => Leads(c, m, i) = Leads(a, m, i) /\ Leads(c, m, i) # n

LEMMA FewerNamesOk ==
    ASSUME NEW a, AmfsOk(a), NEW n, NEW c \in AState, FewerNames(a, c, n)
    PROVE  NamesOk(c)
<1>1. ASSUME NEW m \in ANode, NEW i \in Nat, Leads(c, m, i) # 0
      PROVE  c.ino[Leads(c, m, i)].type # "free"
  <2>1. Leads(c, m, i) = Leads(a, m, i) /\ Leads(c, m, i) # n /\ Leads(c, m, i) \in ANode
    BY <1>1, LeadsNode DEF FewerNames
  <2>2. a.ino[Leads(a, m, i)].type # "free"
    BY <1>1, <2>1 DEF AmfsOk, NamesOk
  <2> QED BY <2>1, <2>2 DEF FewerNames
<1>2. ASSUME NEW d \in ANode, NEW e \in ANode, NEW i \in Nat, NEW j \in Nat,
             Leads(c, d, i) = Leads(c, e, j), Leads(c, d, i) # 0
      PROVE  d = e /\ i = j
  <2>1. Leads(a, d, i) = Leads(a, e, j) /\ Leads(a, d, i) # 0
    BY <1>2 DEF FewerNames
  <2>2. NamesOk(a)
    BY DEF AmfsOk
  <2> QED BY <2>1, <2>2 DEF NamesOk
<1> QED BY <1>1, <1>2 DEF NamesOk

LEMMA FreeInodeIs ==
    /\ FreeInode \in AInode /\ Covered(FreeInode) /\ AShaped(FreeInode) /\ FreeInode.ent = <<>>
    /\ FreeInode.type = "free" /\ \A i \in APlace : At(FreeInode, i) = 0
<1>1. [FreeInode EXCEPT !.type = "free"] = FreeInode
  BY DEF FreeInode
<1> QED BY <1>1, FreeFacts

\* An inode that has no name can be freed.
LEMMA FreeUnnamed ==
    ASSUME NEW a, AmfsOk(a), NEW n \in ANode, Unnamed(a, n)
    PROVE  AmfsOk(inode_free(a, n))
<1> DEFINE c == inode_free(a, n)
<1>1. BlocksOk(c) /\ c.ino[n] = FreeInode /\ \A m \in ANode \ {n} : c.ino[m] = a.ino[m]
  BY FreedIs, EmptiedOk, FreeInodeIs DEF AmfsOk
<1> HIDE DEF c
<1>2. NodesOk(c)
  BY <1>1, FreeInodeIs DEF NodesOk, AmfsOk
<1>3. FewerNames(a, c, n)
  <2>1. \A m \in ANode, i \in Nat : Leads(c, m, i) # 0 => Leads(c, m, i) = Leads(a, m, i)
    BY <1>1, FreeInodeIs DEF Leads
  <2> QED BY <1>1, <2>1 DEF FewerNames, Unnamed
<1>4. NamesOk(c)
  BY <1>1, <1>3, FewerNamesOk DEF BlocksOk
<1> QED BY <1>1, <1>2, <1>4 DEF AmfsOk, c

\* The inode that inode_alloc finds is empty and has no name; it gets its type.
LEMMA InodeGiven ==
    ASSUME NEW a, AmfsOk(a), inode_alloc(a) # 0, NEW t \in {"file", "dir"}
    PROVE  LET n == inode_alloc(a)
               c == [a EXCEPT !.ino[n] = [FreeInode EXCEPT !.type = t]]
           IN  /\ n \in Inode /\ a.ino[n].type = "free" /\ AmfsOk(c) /\ Unnamed(c, n) /\ c.ino[n].type # "free"
<1> DEFINE n == inode_alloc(a)
           none == {m \in Inode : a.ino[m].type = "free"}
           node == [FreeInode EXCEPT !.type = t]
           c == [a EXCEPT !.ino[n] = node]
<1>1. n \in none
  <2>1. none # {} /\ n = Min(none)
    BY DEF inode_alloc
  <2>2. none \in SUBSET Nat
    BY AmfsSizes
  <2> HIDE DEF none, n
  <2> QED BY <2>1, <2>2, AMinIn
<1> HIDE DEF n
<1>2. n \in ANode /\ n \in Inode /\ a.ino[n].type = "free" /\ n # 0 /\ a \in AState /\ BlocksOk(a)
  BY <1>1, AmfsSizes DEF ANode, AmfsOk, BlocksOk
<1>3. a.ino[n] = FreeInode
  BY <1>2 DEF AmfsOk, NodesOk, AShaped
<1>4. node \in AInode /\ Covered(node) /\ AShaped(node) /\ node.type = t /\ node.ent = <<>> /\ node.blk = FreeInode.blk
      /\ node.ind = FreeInode.ind
  <2>1. t \in {"free", "file", "dir"}
    OBVIOUS
  <2> QED BY <2>1, FreeFacts DEF FreeInode
<1> HIDE DEF node
<1>5. c \in AState /\ c.used = a.used /\ c.ino[n] = node /\ \A m \in ANode \ {n} : c.ino[m] = a.ino[m]
  BY <1>2, <1>4, NodeSet
<1> HIDE DEF c
<1>6. BlocksOk(c)
  <2>1. \A m \in ANode : c.ino[m].blk = a.ino[m].blk /\ c.ino[m].ind = a.ino[m].ind
    BY <1>3, <1>4, <1>5
  <2> QED BY <1>2, <1>5, <2>1, SameBlocks
<1>7. NodesOk(c)
  BY <1>4, <1>5 DEF NodesOk, AmfsOk
<1>8. \A m \in ANode, i \in Nat : Leads(c, m, i) = Leads(a, m, i)
  BY <1>3, <1>4, <1>5, FreeInodeIs DEF Leads
<1>9. Unnamed(a, n)
  BY <1>2 DEF Unnamed, AmfsOk, NamesOk
<1>10. FewerNames(a, c, n) /\ Unnamed(c, n)
  BY <1>5, <1>8, <1>9 DEF FewerNames, Unnamed
<1>11. NamesOk(c)
  BY <1>5, <1>10, FewerNamesOk
<1> QED BY <1>2, <1>4, <1>5, <1>6, <1>7, <1>10, <1>11 DEF AmfsOk, c, n, node

\* amfs_mkdir and amfs_create.
LEMMA CreateOk ==
    ASSUME NEW a, AmfsOk(a), NEW p \in APath, NEW t \in {"file", "dir"}
    PROVE  AmfsOk(Create_(a, p, t))
<1> DEFINE d == ParentOf(a, p)
           n == inode_alloc(a)
           c == [a EXCEPT !.ino[n] = [FreeInode EXCEPT !.type = t]]
           r == dir_add_entry(c, d, Last(p), n)
<1>1. Create_(a, p, t) = a \/ (d # ANone /\ n # 0 /\ Create_(a, p, t) = Entered(r, n))
  BY DEF Create_
<1>2. CASE d # ANone /\ n # 0 /\ Create_(a, p, t) = Entered(r, n)
  <2>1. n \in Inode /\ a.ino[n].type = "free" /\ AmfsOk(c) /\ Unnamed(c, n) /\ c.ino[n].type # "free"
    BY <1>2, InodeGiven
  <2>2. d \in Live(a) /\ Last(p) \in AName
    BY <1>2, LookupLast
  <2>3. d \in ANode /\ d # n
    BY <2>1, <2>2, AmfsSizes DEF Live
  <2> HIDE DEF n, c, d
  <2>4. AmfsOk(r.a) /\ r.ok \in BOOLEAN /\ (~r.ok => Unnamed(r.a, n))
    BY <2>1, <2>2, <2>3, AddEntry
  <2> HIDE DEF r
  <2>5. CASE r.ok
    BY <1>2, <2>4, <2>5 DEF Entered
  <2>6. CASE ~r.ok
    <3>1. Create_(a, p, t) = inode_free(r.a, n) /\ n \in ANode
      BY <1>2, <2>1, <2>6 DEF Entered, ANode
    <3> QED BY <2>4, <2>6, <3>1, FreeUnnamed
  <2> QED BY <2>5, <2>6
<1> QED BY <1>1, <1>2

\* A file whose tables are emptied has size 0.
LEMMA TruncatedOk ==
    ASSUME NEW a, AmfsOk(a), NEW n \in ANode, a.ino[n].type = "file"
    PROVE  AmfsOk(Truncated(a, n)) /\ Truncated(a, n).ino[n].type = "file"
<1> DEFINE old == a.ino[n]
           none == [i \in Index |-> 0]
           node == [old EXCEPT !.blk = none, !.ind = 0, !.size = 0]
           c == Truncated(a, n)
<1>1. old \in AInode /\ none \in [Index -> ABlock] /\ 0 \in ABlock /\ BlocksOk(a) /\ AShaped(old)
  BY StateParts DEF AmfsOk, BlocksOk, ABlock, NodesOk
<1>2. node = [type |-> old.type, size |-> 0, blk |-> none, ind |-> 0, ent |-> old.ent]
  <2> DEFINE e0 == [type |-> old.type, size |-> old.size, blk |-> old.blk, ind |-> old.ind, ent |-> old.ent]
             e1 == [type |-> old.type, size |-> old.size, blk |-> none, ind |-> old.ind, ent |-> old.ent]
             e2 == [type |-> old.type, size |-> old.size, blk |-> none, ind |-> 0, ent |-> old.ent]
  <2>1. old = e0
    <3> HIDE DEF old
    <3> QED BY <1>1 DEF AInode
  <2> HIDE DEF old, none
  <2>2. [e0 EXCEPT !.blk = none] = e1
    OBVIOUS
  <2>3. [e1 EXCEPT !.ind = 0] = e2
    OBVIOUS
  <2>4. [e2 EXCEPT !.size = 0] = [type |-> old.type, size |-> 0, blk |-> none, ind |-> 0, ent |-> old.ent]
    OBVIOUS
  <2>5. node = [[[old EXCEPT !.blk = none] EXCEPT !.ind = 0] EXCEPT !.size = 0]
    OBVIOUS
  <2> HIDE DEF e0, e1, e2
  <2> QED BY <2>1, <2>2, <2>3, <2>4, <2>5
<1>3. node \in AInode /\ node.type = old.type /\ node.ent = old.ent /\ node.size = 0
  <2> HIDE DEF none, old, node
  <2> QED BY <1>1, <1>2 DEF AInode
<1>4. \A i \in APlace : At(node, i) = 0
  <2> HIDE DEF old, node
  <2> QED BY <1>2 DEF At, APlace
<1>5. c = Emptied(a, n, node)
  BY <1>1, TruncatedIs
<1> HIDE DEF node
<1>6. BlocksOk(c) /\ c.ino[n] = node /\ \A m \in ANode \ {n} : c.ino[m] = a.ino[m]
  BY <1>1, <1>3, <1>4, <1>5, EmptiedOk
<1> HIDE DEF c
<1>7. Covered(node) /\ AShaped(node)
  <2>1. node.type = "file" /\ ASectors(node) = 0
    BY <1>3 DEF ASectors
  <2>2. \A i \in Index : ~(i < 0)
    BY AmfsSizes
  <2> QED BY <1>1, <1>3, <2>1, <2>2 DEF Covered, AShaped
<1>8. NodesOk(c)
  BY <1>6, <1>7 DEF NodesOk, AmfsOk
<1>9. \A m \in ANode, i \in Nat : Leads(c, m, i) = Leads(a, m, i)
  BY <1>3, <1>6 DEF Leads
<1>10. \A m \in ANode : c.ino[m].type = a.ino[m].type
  BY <1>3, <1>6
<1>11. FewerNames(a, c, -2)
  <2>1. \A m \in ANode, i \in Nat : Leads(a, m, i) # -2
    BY <1>1, LeadsNode, AmfsSizes DEF BlocksOk, ANode
  <2> QED BY <1>9, <1>10, <2>1 DEF FewerNames
<1>12. NamesOk(c)
  BY <1>6, <1>11, FewerNamesOk DEF BlocksOk
<1> QED BY <1>3, <1>6, <1>8, <1>12 DEF AmfsOk, c

\* The loop of amfs_write.
GrowBy == INSTANCE FoldLemmas WITH op <- Grown
Growing(t, n) == {u \in [a : AState, n : {n}, ok : BOOLEAN] : KeepsVolume(t, u.a, n)}

LEMMA GrownOn ==
    ASSUME NEW t, BlocksOk(t), NEW n \in ANode, NEW u \in Growing(t, n), NEW i \in Nat
    PROVE  /\ Grown(u, i) \in Growing(t, n)
           /\ Grown(u, i).ok => u.ok /\ i - 1 \in Index /\ Grown(u, i).a.ino[n].blk[i - 1] # 0
           /\ \A j \in Index : u.a.ino[n].blk[j] # 0 => Grown(u, i).a.ino[n].blk[j] # 0
<1> DEFINE b == block_for_offset(u.a, n, i - 1)
           w == Grown(u, i)
<1>1. /\ u.n = n /\ u.a \in AState /\ KeepsVolume(t, u.a, n) /\ BlocksOk(u.a) /\ i - 1 \in Int
      /\ u = [a |-> u.a, n |-> n, ok |-> u.ok] /\ u.ok \in BOOLEAN
  BY DEF Growing, KeepsVolume, BlocksOk
<1>2. w = IF u.ok THEN [u EXCEPT !.a = b.a, !.ok = b.block # 0] ELSE u
  BY <1>1 DEF Grown
<1> HIDE DEF w
<1>3. CASE ~u.ok
  BY <1>2, <1>3 DEF w
<1>4. CASE u.ok
  <2>1. KeepsVolume(u.a, b.a, n) /\ (b.block # 0 => i - 1 \in Index /\ b.a.ino[n].blk[i - 1] # 0)
    BY <1>1, BlockForOffset
  <2> HIDE DEF b
  <2>2. w = [a |-> b.a, n |-> n, ok |-> b.block # 0]
    BY <1>1, <1>2, <1>4
  <2>3. KeepsVolume(t, b.a, n) /\ b.a \in AState
    BY <1>1, <2>1, KeepsOn DEF KeepsVolume, BlocksOk
  <2>4. w \in Growing(t, n)
    BY <2>2, <2>3 DEF Growing
  <2>5. \A j \in Index : u.a.ino[n].blk[j] # 0 => w.a.ino[n].blk[j] # 0
    BY <2>1, <2>2 DEF KeepsVolume, KeepsNode
  <2>6. w.ok => i - 1 \in Index /\ w.a.ino[n].blk[i - 1] # 0
    BY <2>1, <2>2
  <2> QED BY <1>4, <2>4, <2>5, <2>6 DEF w
<1> QED BY <1>3, <1>4 DEF w

LEMMA GrowthOk ==
    ASSUME NEW t, AmfsOk(t), NEW n \in ANode, NEW size \in Nat
    PROVE  LET r == FoldLeft(Grown, [a |-> t, n |-> n, ok |-> TRUE], [i \in 1 .. size |-> i])
           IN  /\ KeepsVolume(t, r.a, n)
               /\ r.ok => \A j \in Nat : j < size => j \in Index /\ r.a.ino[n].blk[j] # 0
<1> DEFINE q == [i \in 1 .. size |-> i]
           b == [a |-> t, n |-> n, ok |-> TRUE]
           r == FoldLeft(Grown, b, q)
           V == Growing(t, n)
<1>1. r = GrowBy!Folded(b, q)
  BY DEF GrowBy!Folded, FoldLeft, MapThenFoldSet, GrowBy!FoldLeft, GrowBy!MapThenFoldSet, GrowBy!Max, Max
<1>2. q \in Seq(Nat) /\ Len(q) = size /\ \A i \in 1 .. size : q[i] = i
  OBVIOUS
<1>3. BlocksOk(t) /\ b \in V
  <2>1. BlocksOk(t) /\ t \in AState /\ KeepsVolume(t, t, n)
    BY KeepsAll DEF AmfsOk, BlocksOk
  <2> QED BY <2>1 DEF Growing
<1> HIDE DEF r, q, b, V
<1>4. \A v \in V, i \in Nat : Grown(v, i) \in V
  BY <1>3, GrownOn DEF V
<1>5. PICK h \in [0 .. Len(q) -> V] : h[0] = b /\ h[Len(q)] = GrowBy!Folded(b, q) /\ \A k \in 1 .. Len(q) :
                h[k] = Grown(h[k - 1], q[k])
  <2>1. GrowBy!Closed(V, Nat)
    BY <1>4 DEF GrowBy!Closed
  <2>2. \E h \in [0 .. Len(q) -> V] : GrowBy!FoldRun(h, b, q)
    BY <1>2, <1>3, <2>1, GrowBy!FoldRuns
  <2> QED BY <2>2 DEF GrowBy!FoldRun
<1>6. h \in [0 .. size -> V] /\ h[size] = r /\ \A k \in 1 .. size : h[k] = Grown(h[k - 1], k)
  BY <1>1, <1>2, <1>5
<1> DEFINE P(k) == k <= size => (h[k].ok => \A j \in Nat : j < k => j \in Index /\ h[k].a.ino[n].blk[j] # 0)
           T == {k \in Nat : P(k)}
<1>7. P(0)
  OBVIOUS
<1>8. ASSUME NEW k \in Nat, P(k) PROVE P(k + 1)
  <2> SUFFICES ASSUME k + 1 <= size, h[k + 1].ok, NEW j \in Nat, j < k + 1
               PROVE  j \in Index /\ h[k + 1].a.ino[n].blk[j] # 0
    OBVIOUS
  <2>1. k \in 0 .. size /\ k + 1 \in 1 .. size /\ (k + 1) - 1 = k /\ k + 1 \in Nat
    OBVIOUS
  <2>2. h[k] \in V /\ h[k + 1] = Grown(h[k], k + 1)
    BY <1>6, <2>1
  <2>3. /\ h[k].ok /\ k \in Index /\ h[k + 1].a.ino[n].blk[k] # 0
        /\ \A x \in Index : h[k].a.ino[n].blk[x] # 0 => h[k + 1].a.ino[n].blk[x] # 0
    <3>1. h[k] \in Growing(t, n)
      BY <2>2 DEF V
    <3> HIDE DEF V
    <3> DEFINE u == h[k]
               i == k + 1
    <3>2. u \in Growing(t, n) /\ i \in Nat /\ i - 1 = k
      BY <2>1, <3>1
    <3> HIDE DEF u, i
    <3>3. /\ Grown(u, i).ok => u.ok /\ i - 1 \in Index /\ Grown(u, i).a.ino[n].blk[i - 1] # 0
          /\ \A j_ \in Index : u.a.ino[n].blk[j_] # 0 => Grown(u, i).a.ino[n].blk[j_] # 0
      BY <1>3, <3>2, GrownOn
    <3>4. h[k + 1] = Grown(u, i) /\ h[k] = u
      BY <2>2 DEF u, i
    <3> QED BY <3>2, <3>3, <3>4
  <2>4. CASE j = k
    BY <2>3, <2>4
  <2>5. CASE j # k
    <3>1. j < k /\ k <= size
      BY <2>1, <2>5
    <3>2. j \in Index /\ h[k].a.ino[n].blk[j] # 0
      BY <1>8, <2>3, <3>1
    <3> QED BY <2>3, <3>2
  <2> QED BY <2>4, <2>5
<1>9. P(size)
  <2> HIDE DEF P
  <2>1. 0 \in T /\ \A k \in Nat : k \in T => k + 1 \in T
    BY <1>7, <1>8
  <2> HIDE DEF T
  <2>2. size \in T
    BY <2>1, GrowBy!SetInduction
  <2> QED BY <2>2 DEF T
<1>10. r \in V
  BY <1>6
<1>11. KeepsVolume(t, r.a, n)
  BY <1>10 DEF V, Growing
<1>12. r.ok => \A j \in Nat : j < size => j \in Index /\ r.a.ino[n].blk[j] # 0
  BY <1>6, <1>9
<1> QED BY <1>11, <1>12 DEF r, q, b

\* The file gets its size when all its sectors have their blocks.
LEMMA ResizedOk ==
    ASSUME NEW a, AmfsOk(a), NEW n \in ANode, a.ino[n].type = "file", NEW size \in Nat,
           \A j \in Nat : j < size => j \in Index /\ a.ino[n].blk[j] # 0
    PROVE  AmfsOk([a EXCEPT !.ino[n].size = size])
<1> DEFINE old == a.ino[n]
           node == [old EXCEPT !.size = size]
           c == [a EXCEPT !.ino[n].size = size]
<1>1. a \in AState /\ old \in AInode /\ BlocksOk(a) /\ AShaped(old)
  BY StateParts DEF AmfsOk, BlocksOk, NodesOk
<1>2. /\ node \in AInode /\ node.type = old.type /\ node.ent = old.ent /\ node.size = size
      /\ node.blk = old.blk /\ node.ind = old.ind
  <2> HIDE DEF old
  <2> QED BY <1>1 DEF AInode
<1>3. c = [a EXCEPT !.ino = [a.ino EXCEPT ![n] = node]]
  OBVIOUS
<1> HIDE DEF node, c
<1>4. c \in AState /\ c.used = a.used /\ c.ino[n] = node /\ \A m \in ANode \ {n} : c.ino[m] = a.ino[m]
  BY <1>1, <1>2, <1>3, NodeSet
<1>5. \A m \in ANode : /\ c.ino[m].blk = a.ino[m].blk /\ c.ino[m].ind = a.ino[m].ind
                       /\ c.ino[m].type = a.ino[m].type /\ c.ino[m].ent = a.ino[m].ent
  BY <1>2, <1>4
<1>6. BlocksOk(c)
  BY <1>1, <1>4, <1>5, SameBlocks
<1>7. Covered(node) /\ AShaped(node)
  <2>1. ASectors(node) = size /\ \A i \in Index : i \in Nat
    BY <1>2, AmfsSizes DEF ASectors
  <2> QED BY <1>1, <1>2, <2>1 DEF Covered, AShaped
<1>8. NodesOk(c)
  BY <1>4, <1>7 DEF NodesOk, AmfsOk
<1>9. FewerNames(a, c, -2)
  <2>1. \A m \in ANode, i \in Nat : Leads(a, m, i) # -2 /\ Leads(c, m, i) = Leads(a, m, i)
    BY <1>1, <1>5, LeadsNode, AmfsSizes DEF Leads, ANode
  <2> QED BY <1>5, <2>1 DEF FewerNames
<1>10. NamesOk(c)
  BY <1>4, <1>9, FewerNamesOk
<1> QED BY <1>6, <1>8, <1>10 DEF AmfsOk, c

LEMMA RewrittenOk ==
    ASSUME NEW c, AmfsOk(c), NEW p \in APath, NEW size \in Nat
    PROVE  AmfsOk(Rewritten(c, p, size))
<1> DEFINE n == PathLookup(c, p)
           t == Truncated(c, n)
           r == FoldLeft(Grown, [a |-> t, n |-> n, ok |-> TRUE], [i \in 1 .. size |-> i])
<1>1. Rewritten(c, p, size) = c \/ (/\ n # ANone /\ c.ino[n].type = "file"
                                   /\ Rewritten(c, p, size) = IF r.ok THEN [r.a EXCEPT !.ino[n].size = size] ELSE r.a)
  BY DEF Rewritten, FoldLeft, MapThenFoldSet
<1>2. CASE /\ n # ANone /\ c.ino[n].type = "file"
           /\ Rewritten(c, p, size) = IF r.ok THEN [r.a EXCEPT !.ino[n].size = size] ELSE r.a
  <2>1. n \in ANode
    BY <1>2, LookupLive, PathTyped DEF Live
  <2>2. AmfsOk(t) /\ t.ino[n].type = "file"
    <3> HIDE DEF n
    <3> QED BY <1>2, <2>1, TruncatedOk
  <2>3. /\ KeepsVolume(t, r.a, n)
        /\ r.ok => \A j \in Nat : j < size => j \in Index /\ r.a.ino[n].blk[j] # 0
    <3> HIDE DEF n, t
    <3> QED BY <2>1, <2>2, GrowthOk
  <2> HIDE DEF r, t, n
  <2>4. AmfsOk(r.a) /\ r.a.ino[n].type = "file"
    BY <2>1, <2>2, <2>3, KeepsOk DEF KeepsVolume, KeepsNode
  <2>5. CASE r.ok
    BY <1>2, <2>1, <2>3, <2>4, <2>5, ResizedOk
  <2>6. CASE ~r.ok
    BY <1>2, <2>4, <2>6
  <2> QED BY <2>5, <2>6
<1> QED BY <1>1, <1>2

\* dir_remove_entry clears a slot and nothing else.
LEMMA SlotCleared ==
    ASSUME NEW old \in AInode, NEW i \in DOMAIN old.ent
    PROVE  LET node == [old EXCEPT !.ent[i] = <<"", 0>>]
           IN  /\ node \in AInode /\ node.type = old.type /\ node.size = old.size
               /\ node.blk = old.blk /\ node.ind = old.ind
               /\ Len(node.ent) = Len(old.ent) /\ DOMAIN node.ent = DOMAIN old.ent
               /\ node.ent[i][2] = 0 /\ \A j \in DOMAIN old.ent : j # i => node.ent[j] = old.ent[j]
<1> DEFINE x == <<"", 0>>
           ent == [old.ent EXCEPT ![i] = x]
           node == [old EXCEPT !.ent[i] = x]
<1>1. x \in AName \X ANode /\ x[2] = 0 /\ old.ent \in Seq(AName \X ANode)
  <2>1. old.ent \in Seq(AName \X ANode)
    BY DEF AInode
  <2>2. "" \in AName
    BY DEF AName
  <2>3. 0 \in ANode
    BY DEF ANode
  <2> QED BY <2>1, <2>2, <2>3
<1> HIDE DEF x
<1>2. /\ ent \in Seq(AName \X ANode) /\ Len(ent) = Len(old.ent) /\ DOMAIN ent = DOMAIN old.ent
      /\ ent[i] = x /\ \A j \in DOMAIN old.ent : j # i => ent[j] = old.ent[j]
  BY <1>1, SlotReplaced
<1>3. node = [old EXCEPT !.ent = ent]
  OBVIOUS
<1> HIDE DEF ent
<1>4. /\ node \in AInode /\ node.type = old.type /\ node.size = old.size
      /\ node.blk = old.blk /\ node.ind = old.ind /\ node.ent = ent
  <2> HIDE DEF node
  <2> QED BY <1>2, <1>3 DEF AInode
<1> HIDE DEF node
<1> QED BY <1>1, <1>2, <1>4 DEF node, x

\* amfs_delete frees an inode that its only slot led to, and the slot.
LEMMA DeleteOk ==
    ASSUME NEW a, AmfsOk(a), NEW p \in APath
    PROVE  AmfsOk(amfs_delete(a, p))
<1> DEFINE d == ParentOf(a, p)
           n == PathLookup(a, p)
           i == dir_find_entry(a, d, Last(p))
           x == inode_free(a, n)
           full == a.ino[n].type = "dir" /\ \E j \in DOMAIN a.ino[n].ent : a.ino[n].ent[j][2] # 0
<1>1. amfs_delete(a, p) = a \/ (/\ d # ANone /\ n # ANone /\ ~full
                               /\ amfs_delete(a, p) = dir_remove_entry(x, d, Last(p)))
  BY DEF amfs_delete
<1>2. ASSUME d # ANone, n # ANone, ~full PROVE AmfsOk(dir_remove_entry(x, d, Last(p)))
  <2>1. a \in AState /\ BlocksOk(a) /\ NodesOk(a) /\ NamesOk(a)
    BY DEF AmfsOk, BlocksOk
  <2>2. d \in ANode /\ i # 0 /\ n = a.ino[d].ent[i][2]
    <3>1. d \in Live(a) \cup {ANone} /\ n = IF (IF d = ANone THEN 0 ELSE i) = 0 THEN ANone ELSE a.ino[d].ent[IF d = ANone THEN 0 ELSE i][2]
      BY LookupLast
    <3> HIDE DEF i, n, d
    <3> QED BY <1>2, <3>1 DEF Live
  <2>3. /\ i \in Nat /\ i \in DOMAIN a.ino[d].ent /\ n = Leads(a, d, i) /\ n \in Inode /\ n \in ANode /\ n # 0
        /\ a.ino[d].type = "dir"
    <3>1. i \in Nat /\ a.ino[d].ent[i][2] = Leads(a, d, i) /\ Leads(a, d, i) \in Inode /\ a.ino[d].type = "dir"
      <4> HIDE DEF d
      <4> QED BY <2>2, EntryLeads
    <3>2. i \in DOMAIN a.ino[d].ent
      <4> HIDE DEF d
      <4> QED BY <2>1, <2>2, EntryFound
    <3> HIDE DEF i, n, d
    <3> QED BY <2>2, <3>1, <3>2, AmfsSizes DEF ANode
  <2>4. d # n
    <3> HIDE DEF i, d, n
    <3> QED BY <1>2, <2>2, <2>3
  <2> HIDE DEF i, d, n, full
  <2>5. BlocksOk(x) /\ x.ino[n] = FreeInode /\ \A m \in ANode \ {n} : x.ino[m] = a.ino[m]
    BY <2>1, <2>3, FreedIs, EmptiedOk, FreeInodeIs
  <2> HIDE DEF x
  <2> DEFINE old == x.ino[d]
             node == [old EXCEPT !.ent[i] = <<"", 0>>]
             e == dir_remove_entry(x, d, Last(p))
  <2>6. old = a.ino[d] /\ old \in AInode /\ x \in AState /\ i \in DOMAIN old.ent
    BY <2>2, <2>3, <2>4, <2>5, StateParts DEF BlocksOk
  <2>7. dir_find_entry(x, d, Last(p)) = i
    <3>1. dir_find_entry(x, d, Last(p)) = dir_find_entry(a, d, Last(p))
      BY <2>6 DEF dir_find_entry
    <3> QED BY <3>1 DEF i
  <2>8. e = [x EXCEPT !.ino = [x.ino EXCEPT ![d] = node]]
    BY <2>2, <2>7 DEF dir_remove_entry
  <2>9. /\ node \in AInode /\ node.type = old.type /\ node.size = old.size
        /\ node.blk = old.blk /\ node.ind = old.ind
        /\ Len(node.ent) = Len(old.ent) /\ DOMAIN node.ent = DOMAIN old.ent
        /\ node.ent[i][2] = 0 /\ \A j \in DOMAIN old.ent : j # i => node.ent[j] = old.ent[j]
    <3> HIDE DEF old
    <3> QED BY <2>6, SlotCleared
  <2> HIDE DEF e, node
  <2>10. e \in AState /\ e.used = x.used /\ e.ino[d] = node /\ \A m \in ANode \ {d} : e.ino[m] = x.ino[m]
    BY <2>2, <2>6, <2>8, <2>9, NodeSet
  <2>11. BlocksOk(e)
    <3>1. \A m \in ANode : e.ino[m].blk = x.ino[m].blk /\ e.ino[m].ind = x.ino[m].ind
      BY <2>9, <2>10
    <3> QED BY <2>5, <2>10, <3>1, SameBlocks
  <2>12. NodesOk(e)
    <3>1. Covered(node) /\ AShaped(node)
      <4>1. Covered(old) /\ old.type = "dir"
        BY <2>1, <2>2, <2>3, <2>6 DEF NodesOk
      <4>2. ASectors(node) = ASectors(old)
        BY <2>9 DEF ASectors
      <4> QED BY <2>9, <4>1, <4>2 DEF Covered, AShaped
    <3> QED BY <2>1, <2>5, <2>10, <3>1, FreeInodeIs DEF NodesOk
  <2>13. FewerNames(a, e, n)
    <3>1. \A m \in ANode \ {n} : e.ino[m].type = a.ino[m].type
      BY <2>5, <2>6, <2>9, <2>10
    <3>2. ASSUME NEW m \in ANode, NEW j \in Nat, Leads(e, m, j) # 0
          PROVE  Leads(e, m, j) = Leads(a, m, j) /\ Leads(e, m, j) # n
      <4>1. CASE m = n
        BY <2>4, <2>5, <2>10, <3>2, <4>1, FreeInodeIs DEF Leads
      <4>2. CASE m # n /\ m # d
        <5>1. Leads(e, m, j) = Leads(a, m, j)
          BY <2>5, <2>10, <4>2 DEF Leads
        <5>2. Leads(a, m, j) # Leads(a, d, i)
          BY <2>1, <2>2, <2>3, <4>2 DEF NamesOk
        <5> QED BY <2>3, <5>1, <5>2
      <4>3. CASE m = d
        <5>1. j # i /\ j \in DOMAIN old.ent /\ Leads(e, m, j) = old.ent[j][2]
          BY <2>9, <2>10, <3>2, <4>3 DEF Leads
        <5>2. Leads(e, m, j) = Leads(a, m, j)
          BY <2>6, <4>3, <5>1 DEF Leads
        <5>3. Leads(a, d, j) # Leads(a, d, i)
          BY <2>1, <2>2, <2>3, <5>1 DEF NamesOk
        <5> QED BY <2>3, <4>3, <5>2, <5>3
      <4> QED BY <4>1, <4>2, <4>3
    <3> QED BY <3>1, <3>2 DEF FewerNames
  <2>14. NamesOk(e)
    BY <2>10, <2>13, FewerNamesOk
  <2> QED BY <2>11, <2>12, <2>14 DEF AmfsOk, e
<1> QED BY <1>1, <1>2

\* The empty volume, before and after amfs_mkfs.
LEMMA EmptyOk ==
    ASSUME NEW c \in AState, NEW t \in {"free", "dir"}, c.used = {},
           c.ino = [n \in ANode |-> IF n = 0 THEN [FreeInode EXCEPT !.type = t] ELSE FreeInode]
    PROVE  AmfsOk(c)
<1> DEFINE root == [FreeInode EXCEPT !.type = t]
<1>1. root \in AInode /\ Covered(root) /\ AShaped(root) /\ root.ent = <<>> /\ \A i \in APlace : At(root, i) = 0
  BY FreeFacts
<1> HIDE DEF root
<1>2. \A n \in ANode : /\ c.ino[n] \in AInode /\ Covered(c.ino[n]) /\ AShaped(c.ino[n]) /\ c.ino[n].ent = <<>>
                        /\ \A i \in APlace : At(c.ino[n], i) = 0
  <2>1. c.ino = [n \in ANode |-> IF n = 0 THEN root ELSE FreeInode]
    BY DEF root
  <2> QED BY <1>1, <2>1, FreeInodeIs
<1>3. OneOwner(c) /\ AllMarked(c)
  BY <1>2 DEF OneOwner, AllMarked
<1>4. IndFirst(c)
  <2>1. \A i \in Index : i \in APlace /\ i # -1
    BY AmfsSizes DEF APlace
  <2> QED BY <1>2, <2>1 DEF IndFirst, At
<1>5. NamesOk(c)
  <2>1. \A d \in ANode, i \in Nat : Leads(c, d, i) = 0
    BY <1>2 DEF Leads
  <2> QED BY <2>1 DEF NamesOk
<1> QED BY <1>2, <1>3, <1>4, <1>5 DEF AmfsOk, BlocksOk, NodesOk

LEMMA AmInitOk == ASSUME AmInit PROVE AmfsInv
<1> DEFINE ino == [n \in ANode |-> FreeInode]
<1>1. am = [mounted |-> FALSE, formatted |-> FALSE, used |-> {}, ino |-> ino]
  BY DEF AmInit, ANode
<1>2. ino \in [ANode -> AInode]
  BY FreeInodeIs
<1>3. ino = [n \in ANode |-> IF n = 0 THEN [FreeInode EXCEPT !.type = "free"] ELSE FreeInode]
  <2>1. [FreeInode EXCEPT !.type = "free"] = FreeInode
    BY DEF FreeInode
  <2> QED BY <2>1
<1> HIDE DEF ino
<1>4. am \in AState /\ am.used = {} /\ am.ino = ino
  BY <1>1, <1>2 DEF AState
<1> QED BY <1>3, <1>4, EmptyOk DEF AmfsInv

LEMMA AmNextOk == ASSUME AmfsInv, [AmNext]_amVars PROVE AmfsInv'
<1>0. AmfsOk(am) /\ am \in AState
  BY DEF AmfsInv, AmfsOk, BlocksOk
<1>1. CASE amfs_mkfs
  <2> DEFINE ino == [n \in ANode |-> IF n = 0 THEN [FreeInode EXCEPT !.type = "dir"] ELSE FreeInode]
             b == [am EXCEPT !.formatted = TRUE]
  <2>1. b \in AState
    BY <1>0 DEF AState
  <2>2. am' = [[am EXCEPT !.formatted = TRUE] EXCEPT !.used = {}, !.ino = ino]
    BY <1>1 DEF amfs_mkfs, ANode
  <2>3. ino \in [ANode -> AInode]
    BY FreeFacts, FreeInodeIs
  <2>4. am' = [b EXCEPT !.used = {}, !.ino = ino]
    BY <2>2
  <2> HIDE DEF ino, b
  <2>5. am' = [mounted |-> b.mounted, formatted |-> b.formatted, used |-> {}, ino |-> ino]
    BY <2>1, <2>4, TwoFields
  <2>6. am' \in AState /\ am'.used = {} /\ am'.ino = ino
    BY <2>1, <2>3, <2>5 DEF AState
  <2>7. AmfsOk(am')
    BY <2>6, EmptyOk DEF ino
  <2> QED BY <2>7 DEF AmfsInv
<1>2. CASE amfs_mount
  <2> DEFINE c == [am EXCEPT !.mounted = TRUE]
  <2>1. c \in AState /\ c.used = am.used /\ c.ino = am.ino
    BY <1>0 DEF AState
  <2>2. am' = c
    BY <1>2 DEF amfs_mount
  <2> HIDE DEF c
  <2>3. BlocksOk(c)
    BY <1>0, <2>1, SameBlocks DEF AmfsOk
  <2>4. NodesOk(c) /\ NamesOk(c)
    BY <1>0, <2>1 DEF AmfsOk, NodesOk, NamesOk, Leads
  <2>5. AmfsOk(am')
    BY <2>2, <2>3, <2>4 DEF AmfsOk
  <2> QED BY <2>5 DEF AmfsInv
<1>3. ASSUME NEW p \in APath, NEW t \in {"file", "dir"}, AmCall(Create_(am, p, t)) PROVE AmfsInv'
  <2>1. AmfsOk(am')
    BY <1>0, <1>3, CreateOk DEF AmCall
  <2> QED BY <2>1 DEF AmfsInv
<1>4. ASSUME NEW p \in APath, NEW size \in 1 .. Direct + Indirect + 1, AmCall(amfs_write(am, p, size))
      PROVE  AmfsInv'
  <2> DEFINE c == IF PathLookup(am, p) = ANone THEN Create_(am, p, "file") ELSE am
  <2>1. AmfsOk(c)
    BY <1>0, CreateOk
  <2>2. am' = Rewritten(c, p, size) /\ size \in Nat
    BY <1>4, AmfsAssumption DEF AmCall, amfs_write
  <2> HIDE DEF c
  <2>3. AmfsOk(am')
    BY <2>1, <2>2, RewrittenOk
  <2> QED BY <2>3 DEF AmfsInv
<1>5. ASSUME NEW p \in APath, AmCall(amfs_delete(am, p)) PROVE AmfsInv'
  <2>1. AmfsOk(am')
    BY <1>0, <1>5, DeleteOk DEF AmCall
  <2> QED BY <2>1 DEF AmfsInv
<1>6. CASE UNCHANGED amVars
  BY <1>6 DEF amVars, AmfsInv
<1> QED BY <1>1, <1>2, <1>3, <1>4, <1>5, <1>6 DEF AmNext

LEMMA AmfsInvShows == ASSUME AmfsInv PROVE AmfsSound
<1> DEFINE live == {n \in Inode \cup {0} : am.ino[n].type # "free"}
           slots == UNION {{d} \X DOMAIN am.ino[d].ent : d \in live}
           names(n) == {s \in slots : am.ino[s[1]].ent[s[2]][2] = n}
<1>0. /\ am \in AState /\ OneOwner(am) /\ AllMarked(am) /\ NodesOk(am) /\ NamesOk(am)
      /\ live \subseteq ANode
  BY DEF AmfsInv, AmfsOk, BlocksOk, ANode
<1>1. \A n \in ANode : am.ino[n] \in AInode /\ BlocksOf(am.ino[n]) = {At(am.ino[n], i) : i \in APlace} \ {0}
  BY <1>0, StateParts, BlocksOfIs
<1>2. ASSUME NEW n \in live PROVE BlocksOf(am.ino[n]) \subseteq am.used
  BY <1>0, <1>1 DEF AllMarked
<1>3. ASSUME NEW n \in live, NEW m \in live \ {n} PROVE BlocksOf(am.ino[n]) \cap BlocksOf(am.ino[m]) = {}
  BY <1>0, <1>1 DEF OneOwner
<1>4. ASSUME NEW n \in live
      PROVE  /\ \A i, j \in Index : i # j /\ am.ino[n].blk[i] # 0 => am.ino[n].blk[i] # am.ino[n].blk[j]
             /\ am.ino[n].ind \notin {am.ino[n].blk[i] : i \in Index} \ {0}
  <2>1. \A i \in Index : i \in APlace /\ i # -1 /\ At(am.ino[n], i) = am.ino[n].blk[i]
    BY AmfsSizes DEF APlace, At
  <2>2. -1 \in APlace /\ At(am.ino[n], -1) = am.ino[n].ind
    BY DEF APlace, At
  <2> HIDE DEF live
  <2> QED BY <1>0, <2>1, <2>2 DEF OneOwner
<1>5. ASSUME NEW n \in live, NEW i \in Index,
             i < (IF am.ino[n].type = "file" THEN am.ino[n].size
                  ELSE (Len(am.ino[n].ent) + PerSector - 1) \div PerSector)
      PROVE  am.ino[n].blk[i] # 0
  BY <1>0, <1>5 DEF NodesOk, Covered, ASectors
<1>6. ASSUME NEW n \in Inode, names(n) # {}
      PROVE  n \in live /\ Cardinality(names(n)) = 1
  <2>1. \A s \in names(n) : /\ s = <<s[1], s[2]>> /\ s[1] \in ANode /\ s[2] \in Nat
                            /\ Leads(am, s[1], s[2]) = n
    <3> SUFFICES ASSUME NEW s \in names(n)
                 PROVE  s = <<s[1], s[2]>> /\ s[1] \in ANode /\ s[2] \in Nat /\ Leads(am, s[1], s[2]) = n
      OBVIOUS
    <3>1. PICK d \in live : s \in {d} \X DOMAIN am.ino[d].ent
      OBVIOUS
    <3>2. s = <<s[1], s[2]>> /\ s[1] = d /\ s[2] \in DOMAIN am.ino[d].ent /\ am.ino[d].ent[s[2]][2] = n
      BY <3>1
    <3>3. am.ino[d].ent \in Seq(AName \X ANode) /\ d \in ANode
      BY <1>0, <1>1 DEF AInode
    <3> HIDE DEF names, live
    <3> QED BY <3>2, <3>3 DEF Leads
  <2>2. n # 0 /\ n \in ANode
    BY AmfsSizes DEF ANode
  <2>3. \A s, u \in names(n) : s = u
    <3> HIDE DEF names
    <3> SUFFICES ASSUME NEW s \in names(n), NEW u \in names(n) PROVE s[1] = u[1] /\ s[2] = u[2]
      BY <2>1
    <3> QED BY <1>0, <2>1, <2>2 DEF NamesOk
  <2>4. PICK s : s \in names(n)
    BY <1>6
  <2>5. names(n) = {s}
    <3> HIDE DEF names
    <3> QED BY <2>3, <2>4
  <2>6. Cardinality(names(n)) = 1
    <3> HIDE DEF names
    <3> QED BY <2>5, FS_Singleton
  <2>7. am.ino[n].type # "free"
    <3> HIDE DEF names
    <3> QED BY <1>0, <2>1, <2>2, <2>4 DEF NamesOk
  <2> QED BY <2>2, <2>6, <2>7 DEF ANode
<1> HIDE DEF live
<1> QED BY <1>2, <1>3, <1>4, <1>5, <1>6 DEF AmfsSound, live

\* Whatever is created, written, made a directory or deleted in AMFS, on any number
\* of inodes and blocks, with tables and directories of any size: every block in
\* use has one owner and is marked, a directory's slots and a file's sectors have
\* their blocks, and a name leads to an inode in use that has no other name, also
\* after writing a slot cleared its neighbour (fs/amfs.c).
THEOREM AmfsSoundHolds == AmSpec => []AmfsSound
<1>1. AmInit => AmfsInv
  BY AmInitOk
<1>2. AmfsInv /\ [AmNext]_amVars => AmfsInv'
  BY AmNextOk
<1>3. AmfsInv => AmfsSound
  BY AmfsInvShows
<1> QED BY <1>1, <1>2, <1>3, PTL DEF AmSpec
=============================================================================
