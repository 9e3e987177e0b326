------------------------------ MODULE FPGrowth ------------------------------
(***************************************************************************)
(* Mining a prefix tree: at the end of a file (FPTreeMiner), or for the    *)
(* disc tree when a window is full.  The load functor has the tree built   *)
(* one sorted transaction at a time, and FPGrowth walks it.  Each          *)
(* activation of the recursive FPGrowth is a frame of a stack; an action   *)
(* is one turn of its loop over the header table, the short cut for a      *)
(* single path, or the return.                                             *)
(*                                                                         *)
(* The algorithm rests on one order of the items in all paths of a tree.   *)
(* A CanTree, a CP-tree and a disc tree have one.  In fptree mode, and in  *)
(* every conditional tree, items of equal frequency stay in the order they *)
(* had, if std::sort leaves them there, which it need not.                 *)
(***************************************************************************)
EXTENDS FPTree

CONSTANTS
  NumItems,   (* Bound: the number of different items.                     *)
  MaxTxns,    (* Bound: the number of lines of the file, or the window.    *)
  Setups,     (* The settings to consider: records                         *)
              (*   mode        one of AllModes                             *)
              (*   pruneDepth  -tree-prune-depth, Unpruned if not given    *)
              (*   scores      disctree: discriminativeness, as computed   *)
              (*               at the last sort; NoTable before the first  *)
              (*   min_disc    disctree: -min-disc, -1 if not given (NaN)  *)
              (*   stable      up to so many items, this build's std::sort *)
              (*               leaves equal ones in the order they had: 16 *)
              (*               with libstdc++, by an insertion sort        *)
  StdSort(_)  (* The places of a longer sequence as std::sort orders them, *)
              (* given the frequency of the item at each place.            *)

AllModes == {"fptree", "cantree", "cptree", "disctree"}
Ids == 1 .. NumItems
Unpruned == NumItems + 1

ASSUME MiningAssumption ==
  /\ NumItems \in Nat \ {0} /\ MaxTxns \in Nat \ {0}
  /\ \A s \in Setups :
       /\ s.mode \in AllModes /\ s.pruneDepth \in 1 .. Unpruned
       /\ \A i \in DOMAIN s.scores : i \in Ids /\ s.scores[i] \in Nat
       /\ s.min_disc \in Int /\ s.stable \in Nat

(* All that std::sort promises: equal items come in any order.             *)
ASSUME SortAssumption ==
  \A kept \in SUBSET Ids : \A freq \in [kept -> 0 .. MaxTxns] :
    LET places == StdSort(freq)
    IN /\ places \in [1 .. Cardinality(kept) -> kept]
       /\ \A j, k \in DOMAIN places :
            j < k => /\ places[j] # places[k]
                     /\ freq[places[j]] >= freq[places[k]]

VARIABLES
  pc,         (* "load", "mine" or "done".                                 *)
  setup,      (* Never changes; nor do the next three.                     *)
  file,       (* The lines: sequences of items without repetition.  For a  *)
              (* disc tree, the window.                                    *)
  order,      (* The table by which lines are sorted into the tree.        *)
  minCount,   (* minSup times the number of transactions.                  *)
  loaded,     (* How many lines OnLoad has been called for.                *)
  tree,       (* The prefix tree.                                          *)
  frames,     (* The activations of FPGrowth, the innermost last.          *)
  emitted     (* Pattern -> how often it was written to the output.        *)

vars == <<pc, setup, file, order, minCount, loaded, tree, frames, emitted>>

Patterns == (SUBSET Ids) \ {{}}
ItemsOf(line) == {line[j] : j \in DOMAIN line}
Lines == {line \in UNION {[1 .. n -> Ids] : n \in Ids} :
            \A j, k \in DOMAIN line : line[j] = line[k] => j = k}
Files == UNION {[1 .. n -> Lines] : n \in 1 .. MaxTxns}

(* Ids are handed out in the order of first appearance.                    *)
NumberedByAppearance(f) ==
  \A k \in DOMAIN f :
    LET seen == UNION {ItemsOf(f[j]) : j \in 1 .. (k - 1)}
        new  == SelectSeq(f[k], LAMBDA i : i \notin seen)
    IN \A j \in DOMAIN new : new[j] = Cardinality(seen) + j

(* How many of the first k lines contain all of S.                         *)
CountUpTo(k, S) == Cardinality({j \in 1 .. k : S \subseteq ItemsOf(file[j])})

(* Count of the index, InvertedDataSetIndex or WindowIndex.                *)
Count(S) == CountUpTo(Len(file), S)

(* The frequency table after k lines.                                      *)
TableAfter(k) ==
  [i \in UNION {ItemsOf(file[j]) : j \in 1 .. k} |-> CountUpTo(k, {i})]

(* After which line a CP-tree was last sorted, for any sort interval: at   *)
(* the last multiple of it.  At the end of the file an SPO-tree is always  *)
(* sorted, which makes it the CP-tree of one interval.                     *)
LastSorts ==
  {i * (Len(file) \div i) : i \in 1 .. (Len(file) + 1)}

(* OnStartLoad's pass over the file; AppearanceCmp; mFreqAtLastSort;       *)
(* discriminativeness.                                                     *)
Orders ==
  CASE setup.mode = "fptree"   -> {TableAfter(Len(file))}
    [] setup.mode = "cantree"  -> {NoTable}
    [] setup.mode = "cptree"   -> {TableAfter(k) : k \in LastSorts}
    [] setup.mode = "disctree" -> {setup.scores}

(* The items of a path that are kept, sorted by frequency only (FreqCmp,   *)
(* Comparator): as they were, if equally frequent, when there are few.     *)
SortByFreq(path, items, freq) ==
  LET kept   == {j \in DOMAIN path : path[j] \in items}
      table  == [j \in kept |-> freq[path[j]]]
      places == IF Cardinality(kept) <= setup.stable THEN SortItems(kept, table)
                                                     ELSE StdSort(table)
  IN [k \in DOMAIN places |-> path[places[k]]]

(* The order in which a line is inserted.                                  *)
Sorted(line) ==
  IF setup.mode = "fptree" THEN SortByFreq(line, ItemsOf(line), order)
                           ELSE SortItems(ItemsOf(line), order)

(* The disc tree is its own ItemFilter, from its first sort on.            *)
ShouldKeep(item) ==
  setup.mode = "disctree" /\ order # NoTable =>
    (IF item \in DOMAIN order THEN order[item] ELSE 0) > setup.min_disc

(* A root, then a single node below another: a tree of one node is not     *)
(* counted as a path.                                                      *)
HasSinglePath(t) ==
  /\ Cardinality(Nodes(t)) > 1
  /\ \A p, q \in Nodes(t) : Len(p) = Len(q) => p = q
-----------------------------------------------------------------------------
(* Mutant: an item must exceed the minimum to stay in the projection.      *)
FrequentInExceeds(freq) == {i \in DOMAIN freq : freq[i] > minCount}

(* The items a conditional tree keeps.                                     *)
FrequentIn(freq) == {i \in DOMAIN freq : freq[i] >= minCount}

(* The item's nodes, without those that are too deep.                      *)
InstancesOf(t, item) ==
  {p \in Nodes(t) : ItemOf(p) = item /\ Len(p) < setup.pruneDepth}

(* Mutant: each node counts as one transaction.                            *)
ConditionalTreeUnweighted(t, item) ==
  LET base == InstancesOf(t, item)
      freq == [i \in UNION {ItemsOf(ParentOf(p)) : p \in base} |->
                 Cardinality({p \in base : i \in ItemsOf(ParentOf(p))})]
      path(p) == SortByFreq(ParentOf(p), FrequentIn(freq), freq)
  IN FoldSet(LAMBDA p, sub : InsertPath(sub, path(p), 0, 1),
             Empty, base)

(* Mutant: the walk up starts at the node itself, not at its parent.       *)
ConditionalTreeFromNode(t, item) ==
  LET base    == InstancesOf(t, item)
      freq    == [i \in UNION {ItemsOf(p) : p \in base} |->
                    MapThenSumSet(LAMBDA p : t.count[p],
                                  {p \in base : i \in ItemsOf(p)})]
      path(p) == SortByFreq(p, FrequentIn(freq), freq)
  IN FoldSet(LAMBDA p, sub : InsertPath(sub, path(p), 0, t.count[p]),
             Empty, base)

(* The projection of a tree on an item: the paths above the item's nodes,  *)
(* with the counts of these nodes, without the items that are infrequent   *)
(* among them, sorted anew by their frequency among them.                  *)
ConditionalTree(t, item) ==
  LET base    == InstancesOf(t, item)
      above   == UNION {ItemsOf(ParentOf(p)) : p \in base}
      freq    == [i \in above |->
                    MapThenSumSet(LAMBDA p : t.count[p],
                                  {p \in base : i \in ItemsOf(ParentOf(p))})]
      path(p) == SortByFreq(ParentOf(p), FrequentIn(freq), freq)
  IN FoldSet(LAMBDA p, sub : InsertPath(sub, path(p), 0, t.count[p]),
             Empty, base)

(* A call of FPGrowth: its tree, its pattern, the header's items to come.  *)
Frame(t, pattern) ==
  [tree |-> t, pattern |-> pattern, rest |-> {ItemOf(p) : p \in Nodes(t)}]

Top == frames[Len(frames)]
Caller == SubSeq(frames, 1, Len(frames) - 1)
-----------------------------------------------------------------------------
Init ==
  /\ pc = "load"
  /\ setup \in Setups
  /\ file \in Files
  /\ setup.mode # "fptree" => \A k \in DOMAIN file : Ordered(file[k], NoTable)
  /\ setup.mode # "disctree" => NumberedByAppearance(file)
  /\ order \in Orders
  /\ minCount \in 1 .. Len(file)
  /\ loaded = 0
  /\ tree = Empty
  /\ frames = << >>
  /\ emitted = [pattern \in Patterns |-> 0]

(* The functor's OnLoad for the next line.                                 *)
OnLoad ==
  /\ pc = "load" /\ loaded < Len(file)
  /\ loaded' = loaded + 1
  /\ tree' = Insert(tree, Sorted(file[loaded + 1]))
  /\ UNCHANGED <<pc, setup, file, order, minCount, frames, emitted>>

(* The file is at its end: MineFPTree calls FPGrowth on the tree.          *)
MineFPTree ==
  /\ pc = "load" /\ loaded = Len(file)
  /\ pc' = "mine"
  /\ frames' = <<Frame(tree, {})>>
  /\ UNCHANGED <<setup, file, order, minCount, loaded, tree, emitted>>

(* Mutant: the check against minCount is missing.                          *)
MineItemUnchecked ==
  /\ pc = "mine" /\ frames # << >>
  /\ ~HasSinglePath(Top.tree) /\ Top.rest # {}
  /\ LET item    == Min(Top.rest)
         pattern == Top.pattern \cup {item}
         sub     == ConditionalTree(Top.tree, item)
         here    == Append(Caller, [Top EXCEPT !.rest = @ \ {item}])
     IN IF ~ShouldKeep(item)
        THEN /\ frames' = here
             /\ UNCHANGED emitted
        ELSE /\ emitted' = [emitted EXCEPT ![pattern] = @ + 1]
             /\ frames' = IF Nodes(sub) = {} THEN here
                          ELSE Append(here, Frame(sub, pattern))
  /\ UNCHANGED <<pc, setup, file, order, minCount, loaded, tree>>

(* A turn of the loop over the header table: an item that is kept and      *)
(* frequent extends the pattern, and its conditional tree is mined in      *)
(* turn.                                                                   *)
MineItem ==
  /\ pc = "mine" /\ frames # << >>
  /\ ~HasSinglePath(Top.tree) /\ Top.rest # {}
  /\ LET item    == Min(Top.rest)
         pattern == Top.pattern \cup {item}
         sub     == ConditionalTree(Top.tree, item)
         here    == Append(Caller, [Top EXCEPT !.rest = @ \ {item}])
     IN IF ~ShouldKeep(item) \/ Count({item}) < minCount
        THEN /\ frames' = here
             /\ UNCHANGED emitted
        ELSE /\ emitted' = [emitted EXCEPT ![pattern] = @ + 1]
             /\ frames' = IF Nodes(sub) = {} THEN here
                          ELSE Append(here, Frame(sub, pattern))
  /\ UNCHANGED <<pc, setup, file, order, minCount, loaded, tree>>

(* The items of a single path that are neither too deep nor filtered out.  *)
KeptInPath(t) ==
  {i \in {ItemOf(p) : p \in {q \in Nodes(t) : Len(q) < setup.pruneDepth}} :
     ShouldKeep(i)}

(* Mutant: the short cut does not return.                                  *)
AddPatternsInPathAgain ==
  /\ pc = "mine" /\ frames # << >> /\ HasSinglePath(Top.tree)
  /\ LET items == KeptInPath(Top.tree)
         found == {Top.pattern \cup S : S \in (SUBSET items) \ {{}}}
     IN emitted' = [pattern \in Patterns |->
                      emitted[pattern] + (IF pattern \in found THEN 1 ELSE 0)]
  /\ UNCHANGED <<pc, setup, file, order, minCount, loaded, tree, frames>>

(* AddPatternsInPath: on a single path every choice of nodes is a pattern. *)
AddPatternsInPath ==
  /\ pc = "mine" /\ frames # << >> /\ HasSinglePath(Top.tree)
  /\ LET items == KeptInPath(Top.tree)
         found == {Top.pattern \cup S : S \in (SUBSET items) \ {{}}}
     IN emitted' = [pattern \in Patterns |->
                      emitted[pattern] + (IF pattern \in found THEN 1 ELSE 0)]
  /\ frames' = Caller
  /\ UNCHANGED <<pc, setup, file, order, minCount, loaded, tree>>

(* The loop is over: back to the caller.                                   *)
Return ==
  /\ pc = "mine" /\ frames # << >>
  /\ ~HasSinglePath(Top.tree) /\ Top.rest = {}
  /\ frames' = Caller
  /\ UNCHANGED <<pc, setup, file, order, minCount, loaded, tree, emitted>>

(* The outermost call has returned, the output is closed.                  *)
Close ==
  /\ pc = "mine" /\ frames = << >>
  /\ pc' = "done"
  /\ UNCHANGED <<setup, file, order, minCount, loaded, tree, frames, emitted>>

Terminated == pc = "done" /\ UNCHANGED vars

Next ==
  \/ OnLoad
  \/ MineFPTree
  \/ MineItem
  \/ AddPatternsInPath
  \/ Return
  \/ Close
  \/ Terminated

Spec == Init /\ [][Next]_vars
-----------------------------------------------------------------------------
(* Every variable has its type, and the recursion is never deeper than     *)
(* there are items.                                                        *)
TypeOK ==
  /\ pc \in {"load", "mine", "done"}
  /\ setup \in Setups /\ order \in Orders
  /\ file \in Files /\ minCount \in 1 .. Len(file) /\ loaded \in 0 .. Len(file)
  /\ Nodes(tree) \subseteq Lines
  /\ Len(frames) <= NumItems
  /\ \A k \in DOMAIN frames :
       /\ Nodes(frames[k].tree) \subseteq Lines
       /\ frames[k].pattern \cup frames[k].rest \subseteq Ids
       /\ frames[k].pattern \cap frames[k].rest = {}
  /\ emitted \in [Patterns -> Nat]

(* No two lines have equally frequent items in opposite orders.  The other *)
(* trees do not depend on the order in a line.                             *)
TiesAgree ==
  setup.mode = "fptree" =>
    \A k, l \in DOMAIN file : \A a, b \in ItemsOf(file[k]) \cap ItemsOf(file[l]) :
      a # b /\ Count({a}) = Count({b}) =>
        \A i, j \in DOMAIN file[k], m, n \in DOMAIN file[l] :
          file[k][i] = a /\ file[k][j] = b /\ file[l][m] = a /\ file[l][n] = b
            => (i < j <=> m < n)

(* No sequence is too long for std::sort to leave equal items in order:    *)
(* neither a line, where lines are sorted by it, nor what is left of one   *)
(* above an item when only frequent items are.                             *)
ShortLines ==
  \A k \in DOMAIN file :
    /\ setup.mode = "fptree" => Cardinality(ItemsOf(file[k])) <= setup.stable
    /\ Cardinality({i \in ItemsOf(file[k]) : Count({i}) >= minCount})
         <= setup.stable + 1

(* Equally frequent items have one order in all paths.                     *)
OneOrder == TiesAgree /\ ShortLines

(* How many transactions of a tree contain all of S.                       *)
CountInTree(t, S) ==
  MapThenSumSet(LAMBDA p : t.count[p],
                {p \in Nodes(t) : ItemOf(p) \in S /\ S \subseteq ItemsOf(p)})

(* The tree of every activation is the projection of the file on its       *)
(* pattern.  Whatever items it still holds occur together in it at most as *)
(* often as in the file together with the pattern; and just as often, if   *)
(* no node is pruned and equal items have one order, however the orders of *)
(* the trees above it differ from its own (ConstructConditionalTree).  And *)
(* it holds no item that is filtered out, though the projection asks no    *)
(* filter: "we assume that anything above |item| in the tree also will be  *)
(* signalled to be kept by the filter", which depends on the order of the  *)
(* tree.                                                                   *)
FramesAreProjections ==
  \A k \in DOMAIN frames :
    LET f     == frames[k]
        items == {ItemOf(p) : p \in Nodes(f.tree)}
    IN /\ \A S \in (SUBSET items) \ {{}} :
            /\ CountInTree(f.tree, S) <= Count(f.pattern \cup S)
            /\ OneOrder /\ setup.pruneDepth = Unpruned =>
                 CountInTree(f.tree, S) = Count(f.pattern \cup S)
       /\ f.pattern # {} => \A i \in items : ShouldKeep(i)

(* No pattern is written twice, by whatever way the recursion gets to it.  *)
EmittedOnce == OneOrder => \A pattern \in Patterns : emitted[pattern] <= 1

(* When FPGrowth is done, every frequent itemset of items that are kept    *)
(* has been written, unless nodes are pruned.                              *)
MinedComplete ==
  pc = "done" /\ OneOrder /\ setup.pruneDepth = Unpruned =>
    \A S \in Patterns :
      Count(S) >= minCount /\ (\A i \in S : ShouldKeep(i)) => emitted[S] > 0

(* No pattern with an item that is filtered out is written; and, unless    *)
(* the whole tree is one path, only frequent itemsets are, though counts   *)
(* are compared in conditional trees and in the index, never for the       *)
(* pattern itself.                                                         *)
EmittedAreWanted ==
  \A S \in Patterns : emitted[S] > 0 =>
    /\ \A i \in S : ShouldKeep(i)
    /\ ~HasSinglePath(tree) => Count(S) >= minCount
-----------------------------------------------------------------------------
(* What test.sh compares the modes for: the frequent itemsets, no more and *)
(* no less, for every file.                                                *)
AllFrequentAreMined ==
  pc = "done" => \A S \in Patterns : Count(S) >= minCount => emitted[S] > 0

OnlyFrequentAreMined ==
  \A S \in Patterns : emitted[S] > 0 => Count(S) >= minCount
=============================================================================
