------------------------------- MODULE Apriori -------------------------------
(***************************************************************************)
(* Mining with Apriori (src/Apriori.cpp).  The file is loaded into the     *)
(* inverted index, one tid list per item.  Then, level by level, as many   *)
(* tasks as there are threads are started; task t takes the candidates     *)
(* number t, t + threads, t + 2 * threads..., unites each with all others  *)
(* and keeps what passes; main collects the results in the order of the    *)
(* tasks.  Rules are generated at the end.                                 *)
(***************************************************************************)
EXTENDS Integers, Sequences, FiniteSets, FiniteSetsExt

CONSTANTS
  NumItems,   (* Bound: the number of different items.                     *)
  MaxTxns,    (* Bound: the number of lines of the file.                   *)
  MaxThreads, (* Bound: the number of threads.                             *)
  MinConf,    (* In hundredths, as MinLift: 90 in the code,                *)
  MinLift     (* and 100.                                                  *)

ASSUME FileAssumption == NumItems \in Nat \ {0} /\ MaxTxns \in Nat \ {0}
ASSUME ThreadsAssumption == MaxThreads \in Nat \ {0}
ASSUME RulesAssumption == MinConf \in Nat /\ MinLift \in Nat

VARIABLES
  pc,         (* Main: "load", "launch", "collect", "rules" or "done".     *)
  file,       (* The lines, as sets of items.  Does not change,            *)
  minCount,   (* nor does minSup times the number of lines,                *)
  numThreads, (* nor options.numThreads.                                   *)
  mTxnId,     (* The number of transactions loaded.                        *)
  mInvertedIndex, (* Item -> its tid list.                                 *)
  k,          (* The size of the itemsets of this level.                   *)
  candidates, (* The itemsets of the last level.                           *)
  tasks,      (* The tasks started for this level, in order.               *)
  joined,     (* How many of these main has waited for.                    *)
  results,    (* What they found.                                          *)
  result,     (* All itemsets found so far.                                *)
  rules       (* The rules written.                                        *)

input == <<file, minCount, numThreads>>
index == <<mTxnId, mInvertedIndex>>
level == <<k, candidates, tasks, joined, results>>
vars == <<pc, input, index, level, result, rules>>

Ids == 1 .. NumItems
Patterns == (SUBSET Ids) \ {{}}
Threads == 1 .. MaxThreads

(* Item::Init numbers the items in the order of their first appearance.    *)
Interned(lines) ==
  \A n \in DOMAIN lines : \A i \in lines[n] : \A j \in 1 .. i :
    \E m \in 1 .. n : j \in lines[m]

Files ==
  {lines \in UNION {[1 .. n -> Patterns] : n \in 1 .. MaxTxns} : Interned(lines)}
-----------------------------------------------------------------------------
(* The inverted index.                                                     *)

(* The items of a transaction get its tid; an item's list starts with the  *)
(* first one.  Chunks a list has not grown to read as zero.                *)
SetTid(lists, items, tid) ==
  [i \in (DOMAIN lists) \cup items |->
     (IF i \in DOMAIN lists THEN lists[i] ELSE {}) \cup
     (IF i \in items THEN {tid} ELSE {})]

(* The tid lists of those items of S that have one.                        *)
GetTidLists(S) == {mInvertedIndex[i] : i \in S \cap DOMAIN mInvertedIndex}

(* The lists are ANDed.  An item without a list is passed over.            *)
Count(S) ==
  LET tidLists == GetTidLists(S)
  IN Cardinality({tid \in UNION tidLists : \A t \in tidLists : tid \in t})

(* MinSupportFilter.                                                       *)
Filter(S) == Count(S) >= minCount
-----------------------------------------------------------------------------
(* A task.                                                                 *)

(* ItemSet::operator< for itemsets of one size: the first item that is not *)
(* in both decides.                                                        *)
Before(S, T) == S # T /\ Min((S \ T) \cup (T \ S)) \in S

(* The candidate an iterator is at that has advanced pos times.            *)
CandidateAt(pos) ==
  CHOOSE S \in candidates :
    pos = Cardinality({T \in candidates : Before(T, S)})

(* Mutant: the end is reached one step late in the stride.                 *)
safeAdvanceFurther(pos, step) == Min({pos + step + 1, Cardinality(candidates)})

(* Mutant: the iterator stays where it is.                                 *)
safeAdvanceNever(pos, step) == pos

safeAdvance(pos, step) == Min({pos + step, Cardinality(candidates)})

ContainsAllSubSets(S) == \A i \in S : S \ {i} \in candidates

(* Mutant: any two candidates are united.                                  *)
UnionsOfAny(x) == {S \in {x \cup y : y \in candidates} : Filter(S)}

(* What candidate x gives with all candidates that differ in one item.     *)
Unions(x) ==
  LET partners == {y \in candidates : Cardinality(x \cap y) = k - 2}
  IN {S \in {x \cup y : y \in partners} : Filter(S) /\ ContainsAllSubSets(S)}

Ended(t) == tasks[t].pos = Cardinality(candidates)
-----------------------------------------------------------------------------
Init ==
  /\ pc = "load"
  /\ file \in Files
  /\ minCount \in 1 .. (Len(file) + 1)
  /\ numThreads \in Threads
  /\ mTxnId = 0 /\ mInvertedIndex = << >>
  /\ k = 1 /\ candidates = {} /\ tasks = << >> /\ joined = 0 /\ results = {}
  /\ result = {}
  /\ rules = {}

(* InvertedDataSetIndex::Load reads a line.                                *)
LoadTransaction ==
  /\ pc = "load" /\ mTxnId < Len(file)
  /\ mTxnId' = mTxnId + 1
  /\ mInvertedIndex' = SetTid(mInvertedIndex, file[mTxnId + 1], mTxnId + 1)
  /\ UNCHANGED <<pc, input, level, result, rules>>

(* The loop over the levels goes on with these candidates, if there are    *)
(* any; if not, k keeps its value.                                         *)
NextLevel(found) ==
  /\ candidates' = found
  /\ result' = result \cup found
  /\ tasks' = << >> /\ joined' = 0 /\ results' = {}
  /\ IF found # {}
     THEN pc' = "launch" /\ k' = k + 1
     ELSE pc' = "rules"  /\ k' = k

GenerateInitialCandidates ==
  /\ pc = "load" /\ mTxnId = Len(file)
  /\ NextLevel({{i} : i \in {j \in DOMAIN mInvertedIndex : Filter({j})}})
  /\ UNCHANGED <<input, index, rules>>

(* std::async starts the next task.                                        *)
Launch ==
  /\ pc = "launch"
  /\ tasks' = Append(tasks, [pos |-> safeAdvance(0, Len(tasks)), found |-> {}])
  /\ pc' = IF Len(tasks') = numThreads THEN "collect" ELSE "launch"
  /\ UNCHANGED <<input, index, k, candidates, joined, results,
                 result, rules>>

(* A task takes its next candidate.  Tasks share nothing that changes: the *)
(* candidates were copied for each, index and filter are only read.        *)
GenerateSubCandidates(t) ==
  /\ t \in DOMAIN tasks /\ ~Ended(t)
  /\ tasks' = [tasks EXCEPT ![t].found = @ \cup Unions(CandidateAt(tasks[t].pos)),
                            ![t].pos = safeAdvance(@, numThreads)]
  /\ UNCHANGED <<pc, input, index, k, candidates, joined, results,
                 result, rules>>

(* Mutant: only the last task's results are kept.                          *)
CollectLast ==
  /\ pc = "collect" /\ joined < Len(tasks)
  /\ Ended(joined + 1)
  /\ joined' = joined + 1
  /\ results' = tasks[joined + 1].found
  /\ UNCHANGED <<pc, input, index, k, candidates, tasks, result, rules>>

(* future.get(): main waits for the next task in order.                    *)
Collect ==
  /\ pc = "collect" /\ joined < Len(tasks)
  /\ Ended(joined + 1)
  /\ joined' = joined + 1
  /\ results' = results \cup tasks[joined + 1].found
  /\ UNCHANGED <<pc, input, index, k, candidates, tasks, result, rules>>

LevelDone ==
  /\ pc = "collect" /\ joined = Len(tasks)
  /\ NextLevel(results)
  /\ UNCHANGED <<input, index, rules>>

(* Mutant: a side of a rule may be empty.                                  *)
SplitsWithEmpty(S) ==
  {[antecedent |-> A, consequent |-> S \ A] : A \in SUBSET S}

(* GenerateRulesRecursize puts every item of S on one of two sides.        *)
Splits(S) ==
  {[antecedent |-> A, consequent |-> S \ A] : A \in (SUBSET S) \ {{}, S}}

(* Confidence and lift of a rule exceed their minima, in exact arithmetic. *)
Interesting(r) ==
  LET both == Count(r.antecedent \cup r.consequent)
  IN /\ 100 * both > MinConf * Count(r.antecedent)
     /\ 100 * both * mTxnId > MinLift * Count(r.antecedent) * Count(r.consequent)

GenerateRules ==
  /\ pc = "rules"
  /\ rules' = {r \in UNION {Splits(S) : S \in result} : Interesting(r)}
  /\ pc' = "done"
  /\ UNCHANGED <<input, index, level, result>>

Terminated == pc = "done" /\ UNCHANGED vars

Main ==
  \/ LoadTransaction
  \/ GenerateInitialCandidates
  \/ Launch
  \/ Collect
  \/ LevelDone
  \/ GenerateRules

Next ==
  \/ Main
  \/ \E t \in Threads : GenerateSubCandidates(t)
  \/ Terminated

(* std::launch::async gives each task a thread; the system schedules all.  *)
Fairness ==
  /\ WF_vars(Main)
  /\ \A t \in Threads : WF_vars(GenerateSubCandidates(t))

Spec == Init /\ [][Next]_vars /\ Fairness
-----------------------------------------------------------------------------
(* How often an itemset occurs in the file.                                *)
Occurrences(S) == Cardinality({n \in DOMAIN file : S \subseteq file[n]})
Frequent == {S \in Patterns : Occurrences(S) >= minCount}

(* The size of the itemsets in candidates.                                 *)
LevelReached ==
  CASE pc = "load" -> 0
    [] pc \in {"launch", "collect"} -> k - 1
    [] OTHER -> k

(* Every variable has its type: in particular a task only finds itemsets   *)
(* of this level's size (GenerateSubCandidates), and no iterator is beyond *)
(* the end, whatever number of threads shares the candidates.              *)
TypeOK ==
  /\ pc \in {"load", "launch", "collect", "rules", "done"}
  /\ file \in Files /\ minCount \in 1 .. (Len(file) + 1)
  /\ numThreads \in Threads
  /\ mTxnId \in 0 .. Len(file)
  /\ DOMAIN mInvertedIndex \subseteq Ids
  /\ \A i \in DOMAIN mInvertedIndex : mInvertedIndex[i] \subseteq 1 .. mTxnId
  /\ k \in 1 .. (NumItems + 1)
  /\ \A S \in candidates : S \in Patterns /\ Cardinality(S) = LevelReached
  /\ Len(tasks) <= numThreads /\ joined \in 0 .. Len(tasks)
  /\ \A t \in DOMAIN tasks :
       /\ tasks[t].pos \in 0 .. Cardinality(candidates)
       /\ \A S \in tasks[t].found : S \in Patterns /\ Cardinality(S) = k
  /\ \A S \in results : S \in Patterns /\ Cardinality(S) = k
  /\ result \subseteq Patterns

(* At every level, with whatever threads, the itemsets found are exactly   *)
(* the frequent ones of up to this size; when there is no further level,   *)
(* they are all frequent itemsets (Apriori, InvertedDataSetIndex::Count).  *)
ResultExact ==
  /\ result = {S \in Frequent : Cardinality(S) <= LevelReached}
  /\ pc \in {"rules", "done"} => result = Frequent

(* Both sides of every rule are itemsets that were found and occur, so no  *)
(* confidence or lift is a division by zero (GenerateRules).               *)
RulesFromResult ==
  \A r \in rules :
    /\ {r.antecedent, r.consequent, r.antecedent \cup r.consequent} \subseteq result
    /\ Occurrences(r.antecedent) > 0 /\ Occurrences(r.consequent) > 0

(* The levels are those of a search without threads: the strided shares of *)
(* the tasks, in any order of their steps, cover every pair of candidates. *)
Abstract == INSTANCE LevelwiseSearch
              WITH accepted <- Frequent, level <- LevelReached, family <- candidates

ImplementsLevelwiseSearch == Abstract!Spec

(* Apriori ends: every level's tasks end, main gets past every future, and *)
(* there are only as many levels as items.                                 *)
AprioriEnds == <>(pc = "done")
=============================================================================
