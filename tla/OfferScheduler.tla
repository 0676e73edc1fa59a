---------------------------- MODULE OfferScheduler ----------------------------
(***************************************************************************)
(* What an Elektron offer-consuming scheduler promises the cluster (spec   *)
(* sections 3 and 4.3), whichever policy packs the offers.                *)
(*                                                                         *)
(*  - It launches pending instances only: the instances of a task are     *)
(*    launched once each, counting its instance counter down, so the       *)
(*    instances launched so far are always remaining+1 .. Instances.       *)
(*  - An instance goes to a host its Host requirement allows.             *)
(*  - What one step launches on a host fits the offer of that host, i.e.  *)
(*    the host's resources not held by live tasks (spec section 3: the    *)
(*    sum of launched task resources on an offer is at most the offer's).  *)
(*  - It may stop for good (the process exits or dies); a stop may come in *)
(*    the middle of a batch, after some of its offers were launched and   *)
(*    with counters decremented for instances never launched.              *)
(*                                                                         *)
(* The agents run and end tasks and the driver delivers their updates as   *)
(* in MesosCluster, whether or not the scheduler is alive.                 *)
(***************************************************************************)
EXTENDS MesosCluster

CONSTANT TaskHost   \* TaskDefs -> Hosts \cup {NoHost}

VARIABLES
  remaining, \* TaskDefs -> instances not yet launched
  alive      \* the scheduler process runs

absVars == <<remaining, alive, envVars>>

Allowed(h, t) == TaskHost[t] \in {NoHost, h}

(* The instances the step launches, and those it launches on h.           *)
Launched       == {id \in Id : phase[id] = "none" /\ phase'[id] # "none"}
LaunchedOn(h)  == {id \in Launched : agent'[id] = h}

(* The agents' view after the step differs only by staging Launched, each  *)
(* on a host that allows it, and what lands on a host fits its offer.      *)
ValidLaunch ==
  /\ \A id \in Id \ Launched : phase'[id] = phase[id] /\ agent'[id] = agent[id]
  /\ \A id \in Launched : phase'[id] = "staging" /\ Allowed(agent'[id], id[1])
  /\ \A h \in Hosts : LET d == SumDemand(LaunchedOn(h))
                      IN /\ d.cpu <= Offer(h).cpu
                         /\ d.mem <= Offer(h).mem
                         /\ d.watts <= Offer(h).watts

AbsInit ==
  /\ remaining = Instances
  /\ alive = TRUE
  /\ EnvInit

(* A batch: the next instances of each task, counted down.                 *)
AbsLaunch ==
  /\ alive
  /\ ValidLaunch
  /\ remaining' \in [TaskDefs -> Nat]
  /\ \A t \in TaskDefs :
       {k \in 1..Instances[t] : <<t, k>> \in Launched} = remaining'[t] + 1..remaining[t]
  /\ UNCHANGED <<alive, updates>>

(* The scheduler stops, possibly after launching part of a batch, or while *)
(* it handles a status update.                                             *)
AbsStop ==
  /\ alive
  /\ alive' = FALSE
  /\ ValidLaunch
  /\ remaining' \in [TaskDefs -> Nat]
  /\ \A t \in TaskDefs :
       /\ remaining'[t] <= remaining[t]
       /\ \A k \in 1..Instances[t] : <<t, k>> \in Launched => k <= remaining[t]
  /\ updates' = updates \/ \E id \in Id : Deliver(id)

AbsEnv ==
  /\ \E id \in Id : StartTask(id) \/ EndTask(id) \/ Deliver(id)
  /\ UNCHANGED <<remaining, alive>>

AbsNext == AbsLaunch \/ AbsStop \/ AbsEnv

Spec == AbsInit /\ [][AbsNext]_absVars

====
