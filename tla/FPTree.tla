------------------------------- MODULE FPTree -------------------------------
(***************************************************************************)
(* The prefix tree of FPNode.h / FPNode.cpp, with the list of its leaves   *)
(* (List.h) and its frequency table, and the operations on them.           *)
(*                                                                         *)
(* A node is named by the items on the path from the root down to it; the  *)
(* root is the empty path and is not in the tree's functions.  A tree is a *)
(* record:                                                                 *)
(*    count   node -> how many inserted transactions pass through it       *)
(*    leaves  the leaf list, its head first                                *)
(*    next    the position in the leaf list of the node the live iterator  *)
(*            returns next: Len(leaves) + 1 is its null pointer, and 0     *)
(*            says that no iterator is registered with the list            *)
(*    freq    item -> its count; an item whose count falls back to 0 stays *)
(*            in the table                                                 *)
(* Items are their ids: 1, 2, ... in the order of first appearance.        *)
(***************************************************************************)
EXTENDS Integers, Sequences, FiniteSets, FiniteSetsExt

NoTable == << >>

Empty == [count |-> << >>, leaves |-> << >>, next |-> 0, freq |-> NoTable]

Nodes(t) == DOMAIN t.count

(* The first k items of a path: the ancestor of the node at depth k.       *)
Upto(path, k) == SubSeq(path, 1, k)

(* The nodes at depth k + 1 and below on the way to path.                  *)
Below(path, k) == {Upto(path, j) : j \in (k + 1) .. Len(path)}

ParentOf(p) == Upto(p, Len(p) - 1)
ItemOf(p) == p[Len(p)]

Children(nodes, p) == {q \in nodes : ParentOf(q) = p}

(* The nodes at and below p.                                               *)
Subtree(t, p) == {q \in Nodes(t) : Len(q) >= Len(p) /\ Upto(q, Len(p)) = p}
-----------------------------------------------------------------------------
(***************************************************************************)
(* Orders on items.                                                        *)
(***************************************************************************)

(* Mutant: of equally frequent items the latest goes first.                *)
ItemMapCmpLatestFirst(table, a, b) ==
  IF a \in DOMAIN table
  THEN b \in DOMAIN table =>
         table[a] > table[b] \/ (table[a] = table[b] /\ a > b)
  ELSE b \notin DOMAIN table /\ a < b

(* Non-increasing in the table's count, ties by id; items that are not in  *)
(* the table go last.  With an empty table this is the order of first      *)
(* appearance (AppearanceCmp).                                             *)
ItemMapCmp(table, a, b) ==
  IF a \in DOMAIN table
  THEN b \in DOMAIN table =>
         table[a] > table[b] \/ (table[a] = table[b] /\ a < b)
  ELSE b \notin DOMAIN table /\ a < b

SortItems(S, table) ==
  [k \in 1 .. Cardinality(S) |->
     CHOOSE a \in S : Cardinality({b \in S : ItemMapCmp(table, b, a)}) = k - 1]

Ordered(path, table) ==
  \A j \in 1 .. (Len(path) - 1) : ItemMapCmp(table, path[j], path[j + 1])
-----------------------------------------------------------------------------
(***************************************************************************)
(* The leaf list.  Its iterator survives changes of the list: an erased    *)
(* node under the iterator makes it step on, and an iterator that had run  *)
(* off the end comes back for an appended node.                            *)
(***************************************************************************)

(* Mutant: an iterator that has reached the end stays there.               *)
AppendLeafUnnoticed(t, p) ==
  [t EXCEPT !.leaves = Append(@, p),
            !.next = IF @ = Len(t.leaves) + 1 THEN @ + 1 ELSE @]

AppendLeaf(t, p) == [t EXCEPT !.leaves = Append(@, p)]

PrependLeaf(t, p) ==
  [t EXCEPT !.leaves = <<p>> \o @,
            !.next = IF @ = 0 THEN 0 ELSE @ + 1]

EraseLeaves(t, S) ==
  LET kept       == {j \in DOMAIN t.leaves : t.leaves[j] \notin S}
      earlier(j) == Cardinality({i \in kept : i < j})
      place(k)   == CHOOSE j \in kept : earlier(j) = k - 1
  IN [t EXCEPT !.leaves = [k \in 1 .. Cardinality(kept) |-> @[place(k)]],
               !.next = IF @ = 0 THEN 0 ELSE earlier(@) + 1]
-----------------------------------------------------------------------------
(* Mutant: the parent of the first new node stays on the leaf list.        *)
NewLeafBesideParent(t, path, made) == PrependLeaf(t, path)

(* The last made nodes of path are new.  Each is a leaf when it is made    *)
(* and takes its parent off the leaf list, so the last one is left on it.  *)
NewLeaf(t, path, made) ==
  EraseLeaves(PrependLeaf(t, path), {Upto(path, Len(path) - made)})

(***************************************************************************)
(* Insert, called on the ancestor of path at depth k: the rest of the path *)
(* gains c, and nodes it lacks are made.                                   *)
(***************************************************************************)
InsertPath(t, path, k, c) ==
  LET walked == Below(path, k)
      made   == walked \ Nodes(t)
      gains  == {path[j] : j \in (k + 1) .. Len(path)}
      count  == [p \in Nodes(t) \cup walked |->
                   (IF p \in Nodes(t) THEN t.count[p] ELSE 0)
                   + (IF p \in walked THEN c ELSE 0)]
      freq   == [i \in DOMAIN t.freq \cup gains |->
                   (IF i \in DOMAIN t.freq THEN t.freq[i] ELSE 0)
                   + (IF i \in gains THEN c ELSE 0)]
      grown  == [t EXCEPT !.count = count, !.freq = freq]
  IN IF made = {} THEN grown ELSE NewLeaf(grown, path, Cardinality(made))

(***************************************************************************)
(* Remove, called on the ancestor of path at depth k: nodes on the rest of *)
(* the path lose c each, down to the first one that is left with 0.  That  *)
(* node leaves its parent, which becomes a leaf (at the list's end) if it  *)
(* has no other child, and its whole subtree is deleted; a deleted node    *)
(* takes what is left of its count out of the frequency table.             *)
(***************************************************************************)
RemovePath(t, path, k, c) ==
  LET zero    == {j \in (k + 1) .. Len(path) : t.count[Upto(path, j)] = c}
      last    == IF zero = {} THEN Len(path) ELSE Min(zero)
      walked  == Below(Upto(path, last), k)
      dead    == IF zero = {} THEN {}
                 ELSE Subtree(t, Upto(path, last))
      parent  == Upto(path, last - 1)
      count   == [p \in Nodes(t) \ dead |->
                    t.count[p] - (IF p \in walked THEN c ELSE 0)]
      Loss(i) == MapThenSumSet(LAMBDA p : IF p \in walked THEN c ELSE t.count[p],
                               {p \in walked \cup dead : ItemOf(p) = i})
      freq    == [i \in DOMAIN t.freq |-> t.freq[i] - Loss(i)]
      shrunk  == [t EXCEPT !.count = count, !.freq = freq]
      bare    == dead # {} /\ parent # << >> /\ Children(DOMAIN count, parent) = {}
  IN EraseLeaves(IF bare THEN AppendLeaf(shrunk, parent) ELSE shrunk, dead)

(* The length of what two paths have in common at their start.             *)
CommonDepth(from, to) ==
  Max({k \in 0 .. Len(from) : Upto(from, k) = Upto(to, k)})

(* Mutant: Replace inserts once instead of count times.                    *)
ReplaceOnce(t, from, to, c) ==
  LET k == CommonDepth(from, to)
  IN InsertPath(RemovePath(t, from, k, c), to, k, 1)

(* Move c transactions from one path to another, from where they part.     *)
Replace(t, from, to, c) ==
  LET k == CommonDepth(from, to)
  IN InsertPath(RemovePath(t, from, k, c), to, k, c)

Insert(t, path) == InsertPath(t, path, 0, 1)
Remove(t, path) == RemovePath(t, path, 0, 1)
-----------------------------------------------------------------------------
(***************************************************************************)
(* FPNode::Sort: an iterator over the leaves, and what its loop does.      *)
(***************************************************************************)
StartSort(t) == [t EXCEPT !.next = 1]
HasNext(t) == t.next <= Len(t.leaves)
NextLeaf(t) == t.leaves[t.next]

(* Mutant: the iterator stays on the leaf it returned.                     *)
AdvanceNowhere(t) == t

Advance(t) == [t EXCEPT !.next = @ + 1]
EndSort(t) == [t EXCEPT !.next = 0]

(* A path that is not in the order of the table moves, with its count, to  *)
(* where it is.                                                            *)
SortPath(t, path, table) ==
  LET spath == SortItems({path[j] : j \in DOMAIN path}, table)
  IN IF spath = path THEN t ELSE Replace(t, path, spath, t.count[path])

(* FPNode::IsSorted: down every path, the items are in the order of the    *)
(* frequency table.                                                        *)
IsSorted(t) ==
  \A p \in Nodes(t) : Len(p) > 1 =>
    LET f  == t.freq[ItemOf(ParentOf(p))]
        cf == t.freq[ItemOf(p)]
    IN cf < f \/ (cf = f /\ ItemOf(ParentOf(p)) < ItemOf(p))

(* Of the transactions that pass through p, those that end there.          *)
EndingAt(t, p) ==
  t.count[p] - MapThenSumSet(LAMBDA q : t.count[q], Children(Nodes(t), p))

(* How many transactions of the tree have exactly the items S.             *)
Holds(t, S) ==
  MapThenSumSet(LAMBDA p : EndingAt(t, p),
                {p \in Nodes(t) : {p[j] : j \in DOMAIN p} = S})
=============================================================================
