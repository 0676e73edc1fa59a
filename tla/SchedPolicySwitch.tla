-------------------------- MODULE SchedPolicySwitch --------------------------
(***************************************************************************)
(* The policy-switching controller: baseSchedPolicyState.SwitchIfNecessary *)
(* (schedulers/schedPolicy.go) and the counter of tasks each policy has   *)
(* scheduled in its window.                                                *)
(*                                                                         *)
(* The framework adapter (BaseScheduler.ResourceOffers, not in this        *)
(* repository) is modelled from spec section 4.6: before the first offer   *)
(* batch and after every batch the active policy's SwitchIfNecessary runs; *)
(* in between, the active policy consumes a batch and launches some tasks, *)
(* each counted in its numTasksScheduled (spec section 4.4).  The window   *)
(* sizing strategy and the classifier (def package, not in this            *)
(* repository) are inputs: a size from WindowSizes, a distribution from    *)
(* TaskDists or SingleCluster.                                             *)
(*                                                                         *)
(* MaxGreedyMins.ConsumeOffers (schedulers/MaxGreedyMins.go) ends, when    *)
(* switching is enabled, by deploying a random policy of SchedPolicies     *)
(* with SwitchSchedPol, outside SwitchIfNecessary and without resetting    *)
(* any counter.  RandomSwitch is the set of policies whose ConsumeOffers   *)
(* does so; the other policies' ConsumeOffers are not in this repository  *)
(* and are modelled from spec section 4.4, which has no such switch.       *)
(***************************************************************************)
EXTENDS Integers, Sequences, FiniteSets, NextPolicy

CONSTANTS
  Policies,      \* the names of SchedPolicies
  Registry,      \* schedPoliciesToSwitch: names sorted by declared distribution
  Dist,          \* Policies -> declared task distribution (integer scale)
  BinPack,       \* bp: the policy for a window of a single cluster
  Initial,       \* the policy the scheduler is constructed with
  FstPolicy,     \* nameOfFstSchedPolToDeploy, or NoPolicy when not given
  NoPolicy,      \* the empty name ""
  SwitchEnabled, \* schedPolSwitchEnabled
  FixedWindow,   \* toFixSchedWindow
  FixedSize,     \* the window size given on the command line
  WindowSizes,   \* sizes schedWindowResStrategy.Apply can return
  TaskDists,     \* distributions GetTaskDistributionInWindow can return
  SingleCluster, \* its error: the window is one cluster
  RandomSwitch,  \* policies whose ConsumeOffers ends with a random switch
  MaxLaunches,   \* most tasks launched from one offer batch
  MaxScheduled   \* bound on a policy's counter

ASSUME /\ \A i \in 1..Len(Registry) - 1 : Dist[Registry[i]] <= Dist[Registry[i + 1]]
       /\ {BinPack, Initial} \subseteq Policies
       /\ FstPolicy \in Policies \cup {NoPolicy}
       /\ RandomSwitch \subseteq Policies

VARIABLES
  active,            \* curSchedPolicy
  numTasksScheduled, \* Policies -> tasks scheduled since the counter's reset
  hasReceivedResourceOffers,
  schedWindowSize,
  pc,                \* "switch": SwitchIfNecessary is due; "consume": a batch
  sinceDeploy        \* history: tasks the active policy launched since deployed

vars == <<active, numTasksScheduled, hasReceivedResourceOffers,
          schedWindowSize, pc, sinceDeploy>>

(* The registry as nextPolicy reads it: the declared distributions.       *)
RegistryDists == [i \in DOMAIN Registry |-> Dist[Registry[i]]]

(* nextPolicy: bin-packing on a single cluster, else the search.          *)
NextPolicyName(d) ==
  IF d = SingleCluster THEN BinPack
  ELSE Registry[NextIndex(RegistryDists, d) + 1]

(* Mutant: the first policy's name used without checking it is set.      *)
FirstTargetUnchecked(d) == FstPolicy

(* Before any offer: the configured first policy, or nextPolicy.          *)
FirstTarget(d) == IF FstPolicy # NoPolicy THEN FstPolicy ELSE NextPolicyName(d)

(* Mutant: the old policy's counter is not reset.                         *)
DeployNoReset(p) ==
  /\ active' = p
  /\ numTasksScheduled' = numTasksScheduled
  /\ sinceDeploy' = 0

(* SwitchSchedPol, then the reset of the counter of the policy whose       *)
(* SwitchIfNecessary is running: the one being replaced.                   *)
Deploy(p) ==
  /\ active' = p
  /\ numTasksScheduled' = [numTasksScheduled EXCEPT ![active] = 0]
  /\ sinceDeploy' = 0

Init ==
  /\ active = Initial
  /\ numTasksScheduled = [p \in Policies |-> 0]
  /\ hasReceivedResourceOffers = FALSE
  /\ schedWindowSize = IF FixedWindow THEN FixedSize ELSE 0
  /\ pc = "switch"
  /\ sinceDeploy = 0

(* SwitchIfNecessary with the strategy's size w and the classifier's       *)
(* result d.                                                               *)
SwitchIfNecessary(w, d) ==
  /\ pc = "switch"
  /\ pc' = "consume"
  /\ IF ~SwitchEnabled
     THEN UNCHANGED <<active, numTasksScheduled, schedWindowSize, sinceDeploy>>
     ELSE LET size == IF FixedWindow THEN schedWindowSize ELSE w
          IN /\ schedWindowSize' = size
             /\ IF size <= 0
                THEN UNCHANGED <<active, numTasksScheduled, sinceDeploy>>
                ELSE IF ~hasReceivedResourceOffers
                THEN Deploy(FirstTarget(d))
                ELSE IF numTasksScheduled[active] >= size
                THEN Deploy(NextPolicyName(d))
                ELSE UNCHANGED <<active, numTasksScheduled, sinceDeploy>>
  /\ UNCHANGED hasReceivedResourceOffers

(* The policies the end of the active policy's ConsumeOffers may deploy:  *)
(* `index := rand.Intn(len(SchedPolicies))` picks any entry of the map     *)
(* (MaxGreedyMins.go 176-187); no other policy switches here.             *)
RandomSwitchTargets ==
  IF SwitchEnabled /\ active \in RandomSwitch THEN Policies ELSE {active}

(* The active policy consumes an offer batch and launches n tasks, each    *)
(* counted for it; then, for MaxGreedyMins, SwitchSchedPol(v) for a random *)
(* v, which resets no counter.  Redeploying itself changes nothing.        *)
ConsumeOffers(n) ==
  /\ pc = "consume"
  /\ numTasksScheduled[active] + n <= MaxScheduled
  /\ numTasksScheduled' = [numTasksScheduled EXCEPT ![active] = @ + n]
  /\ hasReceivedResourceOffers' = TRUE
  /\ pc' = "switch"
  /\ \E v \in RandomSwitchTargets :
       /\ active' = v
       /\ sinceDeploy' = IF v = active THEN sinceDeploy + n ELSE 0
  /\ UNCHANGED schedWindowSize

Next ==
  \/ \E w \in WindowSizes, d \in TaskDists \cup {SingleCluster} :
       SwitchIfNecessary(w, d)
  \/ \E n \in 0..MaxLaunches : ConsumeOffers(n)

Spec == Init /\ [][Next]_vars

TypeOK ==
  /\ active \in Policies
  /\ numTasksScheduled \in [Policies -> 0..MaxScheduled]
  /\ hasReceivedResourceOffers \in BOOLEAN
  /\ schedWindowSize \in WindowSizes \cup {0, FixedSize}
  /\ pc \in {"switch", "consume"}

(* The check at line 140 compares the window size with the tasks the       *)
(* active policy has launched since it was deployed: the counter of every *)
(* policy is reset when it is switched out (line 162 runs on the old       *)
(* policy's state), so one that comes back starts its window at zero.      *)
WindowCountsFromDeploy == numTasksScheduled[active] = sinceDeploy

====
