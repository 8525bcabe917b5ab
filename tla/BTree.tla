------------------------------- MODULE BTree -------------------------------
(***************************************************************************)
(* The directory B+ tree (fs/smkfs/btree.c).                               *)
(*                                                                         *)
(* A node is one disk block; an entry is a pair of a key and, in a leaf, a *)
(* record number or, in an index node, a child's block.  Operators take    *)
(* and return the whole tree t = [node, free], so that what an operation   *)
(* did before it fails stays done, as in the code.  Names are numbers in   *)
(* strcmp's order.  Blocks come from bitmap_alloc; running out of them is  *)
(* the failure that is modelled.                                           *)
(***************************************************************************)
EXTENDS Integers, Sequences, FiniteSets, SequencesExt

CONSTANTS
    Key, Val,       \* names and record numbers, positive
    LeafMax,        \* SMKFS_BTR_LEAF_MAX
    IndexMax,       \* SMKFS_BTR_INDEX_MAX
    NodeBlock       \* blocks that directories may use, positive

ASSUME BTreeAssumption ==
    /\ Key \cup Val \cup NodeBlock \subseteq Nat \ {0}
    /\ LeafMax \in Nat \ {0, 1} /\ IndexMax \in Nat \ {0, 1, 2}

VARIABLES
    bt,             \* the tree
    root,           \* its root block, 0 before the first insertion
    btOk            \* no operation has run out of blocks

btVars == <<bt, root, btOk>>

-----------------------------------------------------------------------------
(***************************************************************************)
(* Nodes.                                                                  *)
(***************************************************************************)
btree_format(leaf, isRoot, parent) ==
    [leaf |-> leaf, root |-> isRoot, parent |-> parent, right |-> 0, ent |-> <<>>]
Unused == btree_format(TRUE, FALSE, 0)

Min_(n) == (IF n.leaf THEN LeafMax ELSE IndexMax) \div 2
KeyAt(n, i) == n.ent[i][1]
RefAt(n, i) == n.ent[i][2]

btree_store(t, b, n) == [t EXCEPT !.node[b] = n]
btree_set_parent(t, b, p) == [t EXCEPT !.node[b].parent = p]
Adopt(t, ents, p) == FoldLeft(LAMBDA u, e : btree_set_parent(u, e[2], p), t, ents)

bitmap_alloc(t) == IF t.free = {} THEN 0 ELSE Min(t.free)
Taken(t, b) == [t EXCEPT !.free = @ \ {b}]
Freed(t, b) == [t EXCEPT !.free = @ \cup {b}, !.node[b] = Unused]

\* First slot of a leaf whose key is not below k.
LowerBound(n, k) ==
    Min({i \in 1 .. Len(n.ent) + 1 : i > Len(n.ent) \/ KeyAt(n, i) >= k})

\* Mutation: the child before the one whose fence is the key.
btree_index_child_Before(n, k) ==
    Min({i \in 1 .. Len(n.ent) : i = Len(n.ent) \/ KeyAt(n, i + 1) >= k})

\* The child with the largest fence not above k, the first one if there is none.
btree_index_child(n, k) ==
    Min({i \in 1 .. Len(n.ent) : i = Len(n.ent) \/ KeyAt(n, i + 1) > k})

btree_search(t, from, k) ==
    LET s[b \in NodeBlock] ==
          LET n == t.node[b]
              i == LowerBound(n, k)
          IN  IF ~n.leaf THEN s[RefAt(n, btree_index_child(n, k))]
              ELSE IF i <= Len(n.ent) /\ KeyAt(n, i) = k THEN RefAt(n, i) ELSE 0
    IN  s[from]

-----------------------------------------------------------------------------
(***************************************************************************)
(* Insertion.  A result has the tree, whether it succeeded, and the new    *)
(* right neighbour (0: no split) with its separator.                       *)
(***************************************************************************)
Done(t) == [t |-> t, ok |-> TRUE, right |-> 0, sep |-> 0]
NoSpace(t) == [t |-> t, ok |-> FALSE, right |-> 0, sep |-> 0]

\* Mutation: the left half of a split keeps its old neighbour.
SplitNode_Unlinked(t, b, n, ents) ==
    LET r == bitmap_alloc(t)
        left == Len(ents) \div 2
        new == [btree_format(n.leaf, FALSE, n.parent) EXCEPT
                  !.ent = SubSeq(ents, left + 1, Len(ents)), !.right = n.right]
        old == [n EXCEPT !.ent = SubSeq(ents, 1, left)]
        u == IF n.leaf THEN Taken(t, r) ELSE Adopt(Taken(t, r), new.ent, r)
    IN  IF r = 0 THEN NoSpace(t)
        ELSE [t |-> btree_store(btree_store(u, b, old), r, new), ok |-> TRUE,
              right |-> r, sep |-> new.ent[1][1]]

\* btree_leaf_split_insert and btree_index_split_insert: ents are the entries
\* with the new one.  Children that move to the right node get a new parent.
SplitNode(t, b, n, ents) ==
    LET r == bitmap_alloc(t)
        left == Len(ents) \div 2
        new == [btree_format(n.leaf, FALSE, n.parent) EXCEPT
                  !.ent = SubSeq(ents, left + 1, Len(ents)),
                  !.right = IF n.leaf THEN n.right ELSE 0]
        old == [n EXCEPT !.ent = SubSeq(ents, 1, left), !.right = IF n.leaf THEN r ELSE @]
        u == IF n.leaf THEN Taken(t, r) ELSE Adopt(Taken(t, r), new.ent, r)
    IN  IF r = 0 THEN NoSpace(t)
        ELSE [t |-> btree_store(btree_store(u, b, old), r, new), ok |-> TRUE,
              right |-> r, sep |-> new.ent[1][1]]

btree_leaf_insert(t, b, k, v) ==
    LET n == t.node[b]
        i == LowerBound(n, k)
        ents == InsertAt(n.ent, i, <<k, v>>)
    IN  IF i <= Len(n.ent) /\ KeyAt(n, i) = k
        THEN Done(btree_store(t, b, [n EXCEPT !.ent[i] = <<k, v>>]))
        ELSE IF Len(n.ent) >= LeafMax THEN SplitNode(t, b, n, ents)
        ELSE Done(btree_store(t, b, [n EXCEPT !.ent = ents]))

RECURSIVE btree_insert_rec(_, _, _, _)
btree_insert_rec(t, b, k, v) ==
    LET n == t.node[b]
        c == btree_index_child(n, k)
        r == btree_insert_rec(t, RefAt(n, c), k, v)
        fixed == IF k < KeyAt(n, c) THEN [n EXCEPT !.ent[c] = <<k, @[2]>>] ELSE n
        ents == InsertAt(fixed.ent, LowerBound(fixed, r.sep), <<r.sep, r.right>>)
    IN  IF n.leaf THEN btree_leaf_insert(t, b, k, v)
        ELSE IF ~r.ok THEN NoSpace(r.t)
        ELSE IF r.right = 0 THEN Done(btree_store(r.t, b, fixed))
        ELSE IF Len(n.ent) >= IndexMax THEN SplitNode(r.t, b, fixed, ents)
        ELSE Done(btree_store(r.t, b, [fixed EXCEPT !.ent = ents]))

\* btree_insert where the root split: the tree grows one level.
Grow(t, b, right, sep) ==
    LET r == bitmap_alloc(t)
        n == t.node[b]
        u == btree_store(Taken(t, r), b, [n EXCEPT !.root = FALSE, !.parent = r])
        top == [btree_format(FALSE, TRUE, 0) EXCEPT !.ent = <<<<KeyAt(n, 1), b>>, <<sep, right>>>>]
    IN  IF r = 0 THEN [NoSpace(t) EXCEPT !.right = b]
        ELSE [Done(btree_store(btree_set_parent(u, right, r), r, top)) EXCEPT !.right = r]

\* btree_insert; right is the new root.
btree_insert(t, b, k, v) ==
    LET new == bitmap_alloc(t)
        r == btree_insert_rec(t, b, k, v)
    IN  IF b = 0
        THEN IF new = 0 THEN NoSpace(t)
             ELSE [Done(btree_store(Taken(t, new), new,
                          [btree_format(TRUE, TRUE, 0) EXCEPT !.ent = <<<<k, v>>>>]))
                     EXCEPT !.right = new]
        ELSE IF ~r.ok \/ r.right = 0 THEN [r EXCEPT !.right = b]
        ELSE Grow(r.t, b, r.right, r.sep)

-----------------------------------------------------------------------------
(***************************************************************************)
(* Deletion.                                                               *)
(***************************************************************************)
\* The entries moved to node b get it as their parent.
Moved(t, n, ents, b) == IF n.leaf THEN t ELSE Adopt(t, ents, b)

\* Blocks a and b, neighbours at i and i + 1 of parent p, become the one block a.
Merge(t, p, i) ==
    LET a == RefAt(p, i)
        b == RefAt(p, i + 1)
        l == t.node[a]
        r == t.node[b]
        n == [l EXCEPT !.ent = @ \o r.ent, !.right = IF l.leaf THEN r.right ELSE @]
    IN  [t |-> btree_store(Freed(Moved(t, r, r.ent, a), b), a, n),
         p |-> [p EXCEPT !.ent = RemoveAt(@, i + 1)]]

\* btree_fix_underflow for child i of p, whose new image is the result's p.
btree_fix_underflow(t, p, i) ==
    LET b == RefAt(p, i)
        n == t.node[b]
        lb == IF i > 1 THEN RefAt(p, i - 1) ELSE 0
        rb == IF i < Len(p.ent) THEN RefAt(p, i + 1) ELSE 0
        l == t.node[lb]
        r == t.node[rb]
        fromLeft == <<Last(l.ent)>>
        fromRight == <<Head(r.ent)>>
    IN  IF lb # 0 /\ Len(l.ent) > Min_(n)
        THEN [t |-> btree_store(btree_store(Moved(t, n, fromLeft, b),
                                            lb, [l EXCEPT !.ent = Front(@)]),
                                b, [n EXCEPT !.ent = fromLeft \o @]),
              p |-> [p EXCEPT !.ent[i] = <<fromLeft[1][1], b>>]]
        ELSE IF rb # 0 /\ Len(r.ent) > Min_(n)
        THEN [t |-> btree_store(btree_store(Moved(t, n, fromRight, b),
                                            b, [n EXCEPT !.ent = @ \o fromRight]),
                                rb, [r EXCEPT !.ent = Tail(@)]),
              p |-> [p EXCEPT !.ent[i + 1] = <<r.ent[2][1], rb>>]]
        ELSE IF lb # 0 THEN Merge(t, p, i - 1) ELSE Merge(t, p, i)

\* btree_refresh_fence where the deleted key was child i's fence.
RefreshFence(t, p, i, b, k) ==
    IF /\ i <= Len(p.ent) /\ RefAt(p, i) = b /\ KeyAt(p, i) = k
       /\ t.node[b].ent # <<>>
    THEN [p EXCEPT !.ent[i] = <<KeyAt(t.node[b], 1), b>>] ELSE p

RECURSIVE btree_delete_rec(_, _, _, _)
btree_delete_rec(t, b, k, isRoot) ==
    LET n == t.node[b]
        i == LowerBound(n, k)
        c == btree_index_child(n, k)
        d == btree_delete_rec(t, RefAt(n, c), k, FALSE)
        f == IF d.under THEN btree_fix_underflow(d.t, n, c) ELSE [t |-> d.t, p |-> n]
        leaf == [n EXCEPT !.ent = RemoveAt(@, i)]
        index == RefreshFence(f.t, f.p, c, RefAt(n, c), k)
        out == IF n.leaf THEN leaf ELSE index
        found == IF n.leaf THEN i <= Len(n.ent) /\ KeyAt(n, i) = k ELSE d.found
    IN  IF ~found THEN [t |-> t, found |-> FALSE, under |-> FALSE]
        ELSE [t |-> btree_store(IF n.leaf THEN t ELSE f.t, b, out), found |-> TRUE,
              under |-> ~isRoot /\ Len(out.ent) < Min_(n)]

\* After the deletion, a root with a single child gives way to it.
Lowered(d, b) ==
    LET n == d.t.node[b]
        c == RefAt(n, 1)
    IN  IF d.found /\ ~n.leaf /\ Len(n.ent) = 1
        THEN [t |-> Freed([d.t EXCEPT !.node[c].root = TRUE, !.node[c].parent = 0], b), root |-> c]
        ELSE [t |-> d.t, root |-> b]

btree_delete(t, b, k) == Lowered(btree_delete_rec(t, b, k, TRUE), b)

-----------------------------------------------------------------------------
\* btree_iterate: leftmost descent, then along the leaves, at most one pass.
btree_iterate(t, from) ==
    LET first[b \in NodeBlock] == IF t.node[b].leaf THEN b ELSE first[RefAt(t.node[b], 1)]
        walk[b \in NodeBlock \cup {0}, steps \in 0 .. Cardinality(NodeBlock)] ==
          IF b = 0 \/ steps = 0 THEN <<>>
          ELSE t.node[b].ent \o walk[t.node[b].right, steps - 1]
    IN  walk[first[from], Cardinality(NodeBlock)]

-----------------------------------------------------------------------------
\* A directory starts with no tree, or with the empty leaf that
\* smkfs_create_record formats and does not flag as a root.
BtInit ==
    /\ btOk = TRUE
    /\ \E first \in {0, Min(NodeBlock)} :
        /\ root = first
        /\ bt = [node |-> [b \in NodeBlock |-> Unused], free |-> NodeBlock \ {first}]

BtInsert(k, v) ==
    /\ btOk
    /\ \E r \in {btree_insert(bt, root, k, v)} :
        /\ bt' = r.t /\ root' = IF r.ok THEN r.right ELSE root
        /\ btOk' = r.ok

BtDelete(k) ==
    /\ btOk /\ root # 0 /\ btree_search(bt, root, k) # 0
    /\ \E r \in {btree_delete(bt, root, k)} : bt' = r.t /\ root' = r.root
    /\ UNCHANGED btOk

BtNext == \E k \in Key : BtDelete(k) \/ \E v \in Val : BtInsert(k, v)

BtSpec == BtInit /\ [][BtNext]_btVars

-----------------------------------------------------------------------------
Contents ==
    IF root = 0 THEN [k \in Key |-> 0] ELSE [k \in Key |-> btree_search(bt, root, k)]

Directory == INSTANCE DirMap WITH dir <- Contents, whole <- btOk

\* The tree is a map: btree_insert changes what btree_search finds for one key,
\* btree_delete removes one key, splits, borrowings and merges change nothing.
DirectorySpec == Directory!Spec

\* What the head of btree.c promises after every operation: sorted unique keys,
\* nodes between minimum and maximum, parents and fences exact, leaves linked
\* in key order, and no block lost or used twice.
TreeSound ==
    LET n(b) == bt.node[b]
        kids(b) == IF n(b).leaf THEN {} ELSE {RefAt(n(b), i) : i \in DOMAIN n(b).ent}
    IN  btOk /\ root # 0 =>
        /\ n(root).parent = 0
        /\ \A used \in {NodeBlock \ bt.free} : used = {root} \cup UNION {kids(b) : b \in used}
        /\ \A b \in NodeBlock \ bt.free :
            /\ n(b).root => b = root
            /\ Len(n(b).ent) <= IF n(b).leaf THEN LeafMax ELSE IndexMax
            /\ b # root => Len(n(b).ent) >= Min_(n(b))
            /\ ~n(b).leaf => \A i \in DOMAIN n(b).ent :
                /\ n(RefAt(n(b), i)).parent = b
                /\ KeyAt(n(b), i) = KeyAt(n(RefAt(n(b), i)), 1)
        /\ \A all \in {btree_iterate(bt, root)} :
            /\ \A i \in 1 .. Len(all) - 1 : all[i][1] < all[i + 1][1]
            /\ {all[i][1] : i \in DOMAIN all} = {k \in Key : Contents[k] # 0}
=============================================================================
