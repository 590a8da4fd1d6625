------------------------------- MODULE Search -------------------------------
(***************************************************************************)
(* search_software as a function: which items are found, from the items    *)
(* that match in the order of their keys in software_db and the number of  *)
(* downloads of each.  (What its reading does to the counts is in          *)
(* Download.)  Keys are little-endian: their order is not that of the ids. *)
(***************************************************************************)
EXTENDS Integers, Sequences, FiniteSets, SequencesExt

CONSTANTS
  Stock,            \* the ids of software_db
  Tallies,          \* how often an item may have been downloaded
  Limits            \* what num_results may be: with 0 the unwrap panics

ASSUME SearchAssumption ==
  /\ Stock \subseteq Int /\ IsFiniteSet(Stock)
  /\ Tallies \subseteq Int
  /\ Limits \subseteq Nat \ {0}

(* The others are todo!() once a result has to give way to another.        *)
SearchAlgs == {"Newest", "Oldest", "MostDownloaded", "LeastDownloaded"}

(* i comes before j: Ordering::Less.                                       *)
Before(alg, downloads, i, j) ==
  CASE alg = "Newest"          -> j < i
    [] alg = "Oldest"          -> i < j
    [] alg = "MostDownloaded"  -> downloads[j] < downloads[i]
    [] alg = "LeastDownloaded" -> downloads[i] < downloads[j]

(* Mutant: the arms of the match in reduce are swapped.                    *)
WorstSwapped(alg, downloads, results) ==
  LET worst[k \in 1..Len(results)] ==
        IF k = 1 THEN 1
        ELSE IF Before(alg, downloads, results[k], results[worst[k - 1]]) THEN k
        ELSE worst[k - 1]
  IN  worst[Len(results)]

(* The place of the worst result, of the first one among equals: worst[k]  *)
(* is what reduce has after the first k.                                   *)
Worst(alg, downloads, results) ==
  LET worst[k \in 1..Len(results)] ==
        IF k = 1 THEN 1
        ELSE IF Before(alg, downloads, results[worst[k - 1]], results[k]) THEN k
        ELSE worst[k - 1]
  IN  worst[Len(results)]

(* A matching item is kept while there is room, later if it is better than *)
(* the worst result, whose place it takes.                                 *)
Visit(alg, downloads, capacity, results, i) ==
  LET w == Worst(alg, downloads, results)
  IN  IF Len(results) < capacity THEN Append(results, i)
      ELSE IF Before(alg, downloads, i, results[w]) THEN [results EXCEPT ![w] = i]
      ELSE results

(* matching: the items that are created and whose title has the term, as   *)
(* the iterator yields them; stored: how many items there are in all.      *)
(* found[k]: the results after the first k of those that match.            *)
SearchSoftware(alg, downloads, stored, matching, numResults) ==
  LET capacity == IF stored < numResults THEN stored ELSE numResults
      found[k \in 0..Len(matching)] ==
        IF k = 0 THEN <<>> ELSE Visit(alg, downloads, capacity, found[k - 1], matching[k])
  IN  found[Len(matching)]

(* The items found match, no item is found twice, there are as many as     *)
(* asked for or all, and none that is left out comes before one found.     *)
IsBest(alg, downloads, matching, numResults, results) ==
  LET found == ToSet(results)
      left  == ToSet(matching) \ found
  IN  /\ found \subseteq ToSet(matching)
      /\ Cardinality(found) = Len(results)
      /\ Len(results) <= numResults
      /\ left # {} => Len(results) = numResults
      /\ \A i \in left, j \in found : ~ Before(alg, downloads, i, j)

(* Any of the items match, in any order of their keys.                     *)
Matches == UNION {SetToSeqs(S) : S \in SUBSET Stock}
=============================================================================
