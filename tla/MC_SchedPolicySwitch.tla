------------------------- MODULE MC_SchedPolicySwitch -------------------------
(***************************************************************************)
(* The policy-switching path in one model: the controller's state machine *)
(* (SchedPolicySwitch) and, as separate initial states that make one call *)
(* each, the two pure functions it relies on.                              *)
(*  - call = "switch": the controller from its start.                     *)
(*  - call = "nextPolicy": nextPolicy's search over every sorted registry  *)
(*    of up to MaxEntries declared distributions from DistValues,          *)
(*    duplicates included, and every window distribution from CallDists    *)
(*    (below, on, between and above the entries).                          *)
(*  - call = "labelAndOrder": labelAndOrder over every sequence of         *)
(*    2..MaxClusters cluster sizes from SizeValues, ties included.         *)
(* A call state has no step but stuttering: the function has returned.    *)
(***************************************************************************)
EXTENDS SchedPolicySwitch, Classifier, TLC

CONSTANTS p1, p2, p3, mg, MaxEntries, DistValues, MaxClusters, SizeValues

VARIABLES call, reg, d, sizes

callVars == <<call, reg, d, sizes>>

(* Four policies declared at distributions 1, 2, 3 and 4: bin-packing      *)
(* lowest (it suits a window of mostly light tasks); mg is MaxGreedyMins.  *)
MC_Dist == (p1 :> 1) @@ (p2 :> 2) @@ (mg :> 3) @@ (p3 :> 4)

(* schedPoliciesToSwitch without and with MaxGreedyMins.                   *)
MC_Registry   == <<p1, p2, p3>>
MC_RegistryMG == <<p1, p2, mg, p3>>

(* Window distributions for the controller: below the registry, on an      *)
(* entry, halfway between two entries, above it.                           *)
MC_TaskDists == {0, 2, 3, 5}

(* Window distributions for the nextPolicy calls.                          *)
CallDists == -1..7

CallInit ==
  \/ /\ call = "switch"
     /\ reg = <<>> /\ d = 0 /\ sizes = <<>>
  \/ /\ call = "nextPolicy"
     /\ reg \in SortedRegistries(MaxEntries, DistValues)
     /\ d \in CallDists
     /\ sizes = <<>>
  \/ /\ call = "labelAndOrder"
     /\ reg = <<>> /\ d = 0
     /\ sizes \in UNION {[1..k -> SizeValues] : k \in 2..MaxClusters}

MC_Next ==
  \/ call = "switch" /\ Next /\ UNCHANGED callVars
  \/ call # "switch" /\ UNCHANGED <<vars, callVars>>

MC_Init == Init /\ CallInit

MC_Spec == MC_Init /\ [][MC_Next]_<<vars, callVars>>

(* nextPolicy (schedPolicy.go 64-98) returns a policy whose declared       *)
(* distribution is as close to the window's as any in the registry: the    *)
(* clamping, the binary search and the neighbour comparison after the loop *)
(* together find a nearest entry, whatever duplicates the registry holds.  *)
NextIndexClosest == call = "nextPolicy" => NextIndex(reg, d) \in Closest(reg, d)

(* labelAndOrder returns every cluster once, ordered by clusterSize        *)
(* ascending (spec 4.2: cluster 0 is the light one), although the scores  *)
(* come from a tournament in which ties go to the later cluster and the   *)
(* stable sort is given the non-strict comparator `<=`.                    *)
ClustersOrderedBySize ==
  call = "labelAndOrder" =>
    LET out == LabelAndOrder(sizes)
    IN /\ Len(out) = Len(sizes)
       /\ {out[p] : p \in DOMAIN out} = 0..Len(sizes) - 1
       /\ \A p \in 1..Len(out) - 1 : SizeOf(sizes, out[p]) <= SizeOf(sizes, out[p + 1])

====
