----------------------------- MODULE NextPolicy -----------------------------
(***************************************************************************)
(* The choice of the next scheduling policy from the distribution of the   *)
(* tasks in the window (baseSchedPolicyState.nextPolicy,                   *)
(* schedulers/schedPolicy.go).                                             *)
(*                                                                         *)
(* The registry schedPoliciesToSwitch is abstracted to the sequence of its *)
(* declared task distributions, sorted ascending; a policy is its index.   *)
(* Distributions (float64 ratios in the code) are integers on a common     *)
(* scale: the comparisons and the two differences of the tie-break are     *)
(* then exact, as they are in the code for the values the registry holds. *)
(* Indices are 0-based as in the code.                                     *)
(***************************************************************************)
EXTENDS Integers, Sequences, FiniteSets

(* The declared distribution of the policy at 0-based index i.            *)
DistAt(reg, i) == reg[i + 1]

(* Mutant: the two neighbours swapped in the comparison.                 *)
CloserNeighbourSwapped(reg, d, low, high) ==
  LET lowDiff  == DistAt(reg, low) - d
      highDiff == d - DistAt(reg, high)
  IN IF lowDiff > highDiff THEN low
     ELSE IF highDiff > lowDiff THEN high
     ELSE high

(* Once low = high + 1 and no exact match was found: the closer of the two *)
(* neighbours, and on equal differences the one at high.                  *)
CloserNeighbour(reg, d, low, high) ==
  LET lowDiff  == DistAt(reg, low) - d
      highDiff == d - DistAt(reg, high)
  IN IF lowDiff > highDiff THEN high
     ELSE IF highDiff > lowDiff THEN low
     ELSE high

(* The loop `for low <= high`: halve the range until the middle entry is   *)
(* d, or the range is empty.                                               *)
RECURSIVE Search(_, _, _, _)
Search(reg, d, low, high) ==
  IF low > high THEN CloserNeighbour(reg, d, low, high)
  ELSE LET mid == (low + high) \div 2
       IN IF d < DistAt(reg, mid) THEN Search(reg, d, low, mid - 1)
          ELSE IF d > DistAt(reg, mid) THEN Search(reg, d, mid + 1, high)
          ELSE mid

(* The index nextPolicy switches to for the distribution d (the classifier *)
(* found two clusters): clamp below the first and above the last entry,    *)
(* else search.                                                            *)
NextIndex(reg, d) ==
  IF d < DistAt(reg, 0) THEN 0
  ELSE IF d > DistAt(reg, Len(reg) - 1) THEN Len(reg) - 1
  ELSE Search(reg, d, 0, Len(reg) - 1)

(***************************************************************************)
(* Reference definition, from spec section 4.4: the entries whose         *)
(* declared distribution is closest to d.                                  *)
(***************************************************************************)
Distance(a, b) == IF a >= b THEN a - b ELSE b - a

Closest(reg, d) ==
  {i \in 0..Len(reg) - 1 :
     \A j \in 0..Len(reg) - 1 :
       Distance(DistAt(reg, i), d) <= Distance(DistAt(reg, j), d)}

(* Registries of 1..n entries over the values V, sorted ascending.        *)
SortedRegistries(n, V) ==
  {reg \in UNION {[1..k -> V] : k \in 1..n} :
     \A i \in 1..Len(reg) - 1 : reg[i] <= reg[i + 1]}

====
