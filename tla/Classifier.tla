----------------------------- MODULE Classifier -----------------------------
(***************************************************************************)
(* labelAndOrder of the task classifier (package def, in                   *)
(* src/rapl-daemon/main.go): order the k-means clusters by heaviness.      *)
(*                                                                         *)
(* A cluster is abstracted to its clusterSize, the sum of the watts        *)
(* observations of its tasks (a cluster k-means left empty has size 0).    *)
(* Watts are integers, so the float sums are exact.  `sizes` is the        *)
(* sequence of the sizes of clusters 0 .. k-1; the result is the sequence *)
(* of ClusterIndex values in the order labelAndOrder returns them.         *)
(***************************************************************************)
EXTENDS Integers, Sequences, FiniteSets

(* Size of cluster c (0-based).                                            *)
SizeOf(sizes, c) == sizes[c + 1]

(* Mutant: the outer loop stops one cluster early.                         *)
PairsOffByOne(k) == {<<i, j>> \in (0..k - 3) \X (0..k - 1) : i < j}

(* The iterations of `for i := 0; i < k-1; i++ { for j := i+1; j < k; j++`. *)
Pairs(k) == {<<i, j>> \in (0..k - 2) \X (0..k - 1) : i < j}

(* SizeScore of cluster c: a point for each pair it wins, where i wins    *)
(* when sizeI > sizeJ and j wins otherwise.                               *)
SizeScore(sizes, c) ==
  LET k == Len(sizes)
  IN Cardinality({pr \in Pairs(k) :
                    IF SizeOf(sizes, pr[1]) > SizeOf(sizes, pr[2])
                    THEN pr[1] = c ELSE pr[2] = c})

(* sort.SliceStable for fewer than 20 elements is Go's insertion sort:     *)
(* element i moves left while less(j, j-1), i.e. score[j] <= score[j-1].  *)
RECURSIVE SinkLeft(_, _, _)
SinkLeft(s, score, j) ==
  IF j > 1 /\ score[s[j]] <= score[s[j - 1]]
  THEN SinkLeft([s EXCEPT ![j] = s[j - 1], ![j - 1] = s[j]], score, j - 1)
  ELSE s

RECURSIVE InsertionSort(_, _, _)
InsertionSort(s, score, i) ==
  IF i > Len(s) THEN s ELSE InsertionSort(SinkLeft(s, score, i), score, i + 1)

(* labelAndOrder: cluster indices 0..k-1 in order, scored, then sorted.    *)
LabelAndOrder(sizes) ==
  LET k     == Len(sizes)
      score == [c \in 0..k - 1 |-> SizeScore(sizes, c)]
  IN InsertionSort([p \in 1..k |-> p - 1], score, 2)

====
