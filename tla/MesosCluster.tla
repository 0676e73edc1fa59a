---------------------------- MODULE MesosCluster ----------------------------
(***************************************************************************)
(* The Mesos master and agents as seen by one framework: the environment   *)
(* of the Elektron schedulers (Mesos itself is not part of this            *)
(* repository).                                                            *)
(*                                                                         *)
(* An agent offers its unused resources.  A task launched on it is staged, *)
(* may start running, and ends in a terminal state (FINISHED, FAILED,      *)
(* KILLED, LOST or ERROR), possibly straight from staging.  Every change   *)
(* produces a status update; the updates of one task are delivered in     *)
(* order, those of different tasks in any order.  StagingFailures says     *)
(* whether a task can fail before it runs (an image pull or a container   *)
(* that dies at start).                                                    *)
(***************************************************************************)
EXTENDS Integers, Sequences, FiniteSets

CONSTANTS
  TaskDefs,    \* the task definitions of the workload file
  Hosts,       \* agents; a host name also stands for its slave id
  NoHost,      \* "no host": an instance not launched yet
  CPU, RAM, Watts,  \* TaskDefs -> Nat: declared resources of a task
  Instances,   \* TaskDefs -> Nat \ {0}: instances declared in the file
  Capacity,    \* Hosts -> [cpu, mem, watts]: an agent's total resources
  IgnoreWatts, \* TRUE when launched tasks carry no watts resource
  StagingFailures \* TRUE when a task can end before it runs

VARIABLES
  agent,   \* Id -> host the instance was launched on, or NoHost
  phase,   \* Id -> state of the instance on its agent
  updates  \* Id -> status updates not yet delivered, oldest first

envVars == <<agent, phase, updates>>

(* One instance: the task and the value k of its instance counter when the *)
(* scheduler named it "Name-k".                                            *)
Id == UNION {{<<t, k>> : k \in 1..Instances[t]} : t \in TaskDefs}

Phases   == {"none", "staging", "running", "terminal"}
Statuses == {"RUNNING", "TERMINAL"}

NoUse == [cpu |-> 0, mem |-> 0, watts |-> 0]

(* What a launched instance holds on its agent.                            *)
Demand(t) == [cpu |-> CPU[t], mem |-> RAM[t],
              watts |-> IF IgnoreWatts THEN 0 ELSE Watts[t]]

Active(id) == phase[id] \in {"staging", "running"}

RECURSIVE SumDemand(_)
SumDemand(S) ==
  IF S = {} THEN NoUse
  ELSE LET id == CHOOSE x \in S : TRUE
           r  == SumDemand(S \ {id})
       IN [cpu   |-> r.cpu + Demand(id[1]).cpu,
           mem   |-> r.mem + Demand(id[1]).mem,
           watts |-> r.watts + Demand(id[1]).watts]

Used(h) == SumDemand({id \in Id : agent[id] = h /\ Active(id)})

(* An offer carries the agent's unused resources.                          *)
Offer(h) == [host  |-> h,
             cpu   |-> Capacity[h].cpu - Used(h).cpu,
             mem   |-> Capacity[h].mem - Used(h).mem,
             watts |-> Capacity[h].watts - Used(h).watts]

Offerable(h) == Offer(h).cpu > 0 \/ Offer(h).mem > 0

(* Batches of offers: distinct hosts with unused resources.                *)
Batches ==
  {b \in UNION {[1..k -> Hosts] : k \in 1..Cardinality(Hosts)} :
     /\ \A i, j \in DOMAIN b : i # j => b[i] # b[j]
     /\ \A i \in DOMAIN b : Offerable(b[i])}

(* The task has finished and the scheduler has received all its updates.   *)
Delivered(id) == phase[id] = "terminal" /\ updates[id] = <<>>

EnvInit ==
  /\ agent = [id \in Id |-> NoHost]
  /\ phase = [id \in Id |-> "none"]
  /\ updates = [id \in Id |-> <<>>]

(* LaunchTasks: the instances of `placed` (a set of <<id, host>>) are      *)
(* staged on their agents.                                                 *)
Launch(placed) ==
  LET new == {p[1] : p \in placed}
  IN /\ agent' = [id \in Id |-> IF id \in new
                                THEN CHOOSE h \in Hosts : <<id, h>> \in placed
                                ELSE agent[id]]
     /\ phase' = [id \in Id |-> IF id \in new THEN "staging" ELSE phase[id]]

StartTask(id) ==
  /\ phase[id] = "staging"
  /\ phase' = [phase EXCEPT ![id] = "running"]
  /\ updates' = [updates EXCEPT ![id] = Append(@, "RUNNING")]
  /\ UNCHANGED agent

EndTask(id) ==
  /\ phase[id] = "running" \/ (StagingFailures /\ phase[id] = "staging")
  /\ phase' = [phase EXCEPT ![id] = "terminal"]
  /\ updates' = [updates EXCEPT ![id] = Append(@, "TERMINAL")]
  /\ UNCHANGED agent

(* The driver hands the oldest update of id to the scheduler.              *)
Deliver(id) ==
  /\ updates[id] # <<>>
  /\ updates' = [updates EXCEPT ![id] = Tail(@)]
  /\ UNCHANGED <<agent, phase>>

EnvTypeOK ==
  /\ agent \in [Id -> Hosts \cup {NoHost}]
  /\ phase \in [Id -> Phases]
  /\ updates \in [Id -> Seq(Statuses)]

(* The live tasks of this framework on h fit in h's resources.            *)
WithinCapacity(h) ==
  /\ Used(h).cpu <= Capacity[h].cpu
  /\ Used(h).mem <= Capacity[h].mem
  /\ Used(h).watts <= Capacity[h].watts

====
