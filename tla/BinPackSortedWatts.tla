------------------------- MODULE BinPackSortedWatts -------------------------
(***************************************************************************)
(* The BinPackSortedWatts scheduler (src/schedulers/binpacksortedwatts.go) *)
(* and its class-map twin BPSWClassMapWatts (bpswClassMapWatts.go), driven *)
(* by a Mesos master and its agents.  The framework runs one scheduler,   *)
(* chosen at startup (`scheduler`).  The two files are the same code but  *)
(* for the watts a task is packed with: BPSWClassMapWatts looks them up in *)
(* the task's ClassToWatts by the offer's "class" attribute.               *)
(*                                                                         *)
(* The scheduler keeps the pending tasks in a Go slice `s.tasks`, sorted   *)
(* once by watts in NewBinPackSortedWatts.  ResourceOffers walks that      *)
(* slice with `for i, task := range s.tasks` and removes a task whose      *)
(* instances reach zero with `append(s.tasks[:i], s.tasks[i+1:]...)`.      *)
(* Go evaluates the range expression once, so the loop keeps reading the   *)
(* backing array that append shifts in place.  The model therefore keeps   *)
(* the backing array (`tasks`, of fixed length) and the slice length       *)
(* (`lenTasks`) apart, and a slice expression out of range is a panic.    *)
(*                                                                         *)
(* The environment: an agent (host) offers its unused resources; a task   *)
(* launched on it is staged, may start running and ends in a terminal     *)
(* state (it can fail while staging); each agent-side change produces a   *)
(* status update, delivered to StatusUpdate in order per task.            *)
(***************************************************************************)
EXTENDS Integers, Sequences, FiniteSets, SequencesExt, MesosCluster

CONSTANTS
  TaskHost,    \* TaskDefs -> Hosts \cup {NoHost}: the task's Host field
  Schedulers,  \* the schedulers the framework may be started with
  ClassOf,     \* Hosts -> the offer's "class" attribute, or NoClass
  NoClass,     \* an offer without a "class" attribute (nodeClass = "")
  ClassToWatts \* TaskDefs -> (classes -> watts): the task's ClassToWatts map

ASSUME NoHost \notin Hosts
ASSUME \A t \in TaskDefs : Instances[t] > 0

N == Cardinality(TaskDefs)

(* newTask stores the task name in s.running; the TaskID sent to Mesos,   *)
(* and echoed back in every status update, is "electron-" + name.        *)
TaskName(id)    == id
TaskIdValue(id) == <<"electron-", id>>

VARIABLES
  scheduler,    \* the scheduler the framework was started with
  tasks,        \* backing array of s.tasks
  lenTasks,     \* len(s.tasks)
  instances,    \* *task.Instances of each task definition
  tasksRunning, \* s.tasksRunning
  running,      \* s.running: slave id -> set of task names
  recordPCP,    \* s.RecordPCP
  shutdown,     \* s.Shutdown has been closed
  done,         \* s.Done has been closed
  panicked,     \* a Go runtime panic has ended the process
  exited        \* main has returned after receiving from s.Done

schedVars == <<scheduler, tasks, lenTasks, instances, tasksRunning, running, recordPCP,
               shutdown, done, panicked, exited>>
vars == <<schedVars, envVars>>

(* sort.Sort(def.WattsSorter(tasks)): ascending watts; sort.Sort is not    *)
(* stable, so any order of tasks with equal watts can result.             *)
WattsSorted(s) == IsSorted(s, LAMBDA a, b : Watts[a] <= Watts[b])
SortedOrders == {s \in [1..N -> TaskDefs] :
                   (\A i, j \in 1..N : i # j => s[i] # s[j]) /\ WattsSorted(s)}

-----------------------------------------------------------------------------
(* The offer-consumption loop of ResourceOffers, as a function of the      *)
(* scheduler state `st` (a record of the scheduler's variables plus the    *)
(* loop locals used, taken and launch) and one offer `o`.                  *)

(* Host requirement: `task.Host != "" && !strings.HasPrefix(...)`. A host  *)
(* requirement is modelled as the name of the host it is a prefix of.     *)
HostMismatch(h, t) == TaskHost[t] # NoHost /\ TaskHost[t] # h

(* The nodeClass loop over offer.GetAttributes(): the "class" attribute,  *)
(* "" when the offer has none.                                             *)
NodeClass(h) == ClassOf[h]

(* The watts a task is packed with: task.Watts, or for BPSWClassMapWatts  *)
(* task.ClassToWatts[nodeClass], which is 0 (Go's zero value) when the map *)
(* has no entry for the class.                                             *)
FitWatts(st, t, h) ==
  IF ~st.classMap THEN Watts[t]
  ELSE IF NodeClass(h) \in DOMAIN ClassToWatts[t] THEN ClassToWatts[t][NodeClass(h)]
  ELSE 0

(* Mutant: compare the task with the whole offer, forgetting what the     *)
(* offer already took (as the unused takeOffer helper does).               *)
FitsWholeOffer(st, t, o) ==
  /\ IgnoreWatts \/ o.watts >= FitWatts(st, t, o.host)
  /\ o.cpu >= CPU[t]
  /\ o.mem >= RAM[t]

(* "Does the task fit": the offer against what this offer already took.   *)
Fits(st, t, o) ==
  /\ IgnoreWatts \/ o.watts >= st.used.watts + FitWatts(st, t, o.host)
  /\ o.cpu >= st.used.cpu + CPU[t]
  /\ o.mem >= st.used.mem + RAM[t]

(* Mutants of the removal: drop the last element instead of element i;    *)
(* swap element i with the last one (as the Ranked scheduler does).      *)
RemoveTaskTruncate(st, p) ==
  IF p > st.lenTasks THEN [st EXCEPT !.panicked = TRUE]
  ELSE [st EXCEPT !.lenTasks = @ - 1, !.shutdown = IF st.lenTasks - 1 <= 0 THEN TRUE ELSE @]
RemoveTaskSwap(st, p) ==
  IF p > st.lenTasks THEN [st EXCEPT !.panicked = TRUE]
  ELSE [st EXCEPT !.tasks[p] = st.tasks[st.lenTasks], !.lenTasks = @ - 1,
                  !.shutdown = IF st.lenTasks - 1 <= 0 THEN TRUE ELSE @]

(* s.tasks = append(s.tasks[:i], s.tasks[i+1:]...) for i = p - 1, then     *)
(* close(s.Shutdown) if the slice is empty.  s.tasks[i+1:] panics when     *)
(* i + 1 > len(s.tasks).                                                   *)
RemoveTask(st, p) ==
  IF p > st.lenTasks
  THEN [st EXCEPT !.panicked = TRUE]
  ELSE LET n == st.lenTasks - 1
       IN [st EXCEPT
             !.tasks = [j \in 1..N |-> IF p <= j /\ j <= n THEN st.tasks[j + 1]
                                                         ELSE st.tasks[j]],
             !.lenTasks = n,
             !.shutdown = IF n <= 0 THEN TRUE ELSE @]

(* newTask(offer, task): turn on PCP recording and add the task name to   *)
(* s.running of the offer's slave (creating its map on first use).         *)
NewTask(st, id, o) ==
  [st EXCEPT !.recordPCP = TRUE,
             !.running[o.host] = @ \cup {TaskName(id)},
             !.launch = Append(@, id)]

(* Mutant: the instance is named after the counter is decremented.         *)
LaunchOneNameAfterDecrement(st, t, p, o) ==
  LET s0 == [st EXCEPT !.instances[t] = @ - 1]
      s1 == [NewTask(s0, <<t, s0.instances[t]>>, o) EXCEPT
               !.used = [cpu |-> @.cpu + CPU[t], mem |-> @.mem + RAM[t],
                         watts |-> @.watts + FitWatts(st, t, o.host)],
               !.taken = TRUE]
  IN IF s1.instances[t] <= 0 THEN RemoveTask(s1, p) ELSE s1

(* One fitting instance: account it, newTask, *task.Instances-- and remove *)
(* a task with no instances left.                                          *)
LaunchOne(st, t, p, o) ==
  LET id   == <<t, st.instances[t]>>
      s1 == [NewTask(st, id, o) EXCEPT
               !.used = [cpu |-> @.cpu + CPU[t], mem |-> @.mem + RAM[t],
                         watts |-> @.watts + FitWatts(st, t, o.host)],
               !.taken = TRUE,
               !.instances[t] = @ - 1]
  IN IF s1.instances[t] <= 0 THEN RemoveTask(s1, p) ELSE s1

(* Mutant: the instance loop runs while *task.Instances >= 0.              *)
RECURSIVE PackTaskOffByOne(_, _, _, _)
PackTaskOffByOne(st, t, p, o) ==
  IF st.panicked \/ st.instances[t] < 0 \/ ~Fits(st, t, o)
  THEN st
  ELSE PackTaskOffByOne(LaunchOne(st, t, p, o), t, p, o)

(* for *task.Instances > 0 { if fits {...} else { break } }               *)
RECURSIVE PackTask(_, _, _, _)
PackTask(st, t, p, o) ==
  IF st.panicked \/ st.instances[t] <= 0 \/ ~Fits(st, t, o)
  THEN st
  ELSE PackTask(LaunchOne(st, t, p, o), t, p, o)

(* Mutant: the loop stops before the last task of the slice.             *)
RECURSIVE ScanTasksSkipLast(_, _, _, _)
ScanTasksSkipLast(st, p, n0, o) ==
  IF p >= n0 \/ st.panicked THEN st
  ELSE LET t == st.tasks[p]
       IN ScanTasksSkipLast(IF HostMismatch(o.host, t) THEN st ELSE PackTask(st, t, p, o),
                            p + 1, n0, o)

(* for i, task := range s.tasks: n0 is the length when the range began;   *)
(* `task` is read from the backing array at the start of each iteration.  *)
RECURSIVE ScanTasks(_, _, _, _)
ScanTasks(st, p, n0, o) ==
  IF p > n0 \/ st.panicked THEN st
  ELSE LET t == st.tasks[p]
       IN ScanTasks(IF HostMismatch(o.host, t) THEN st ELSE PackTask(st, t, p, o),
                    p + 1, n0, o)

(* The body of `for _, offer := range offers`: decline when Shutdown is    *)
(* closed, else pack and LaunchTasks (or DeclineOffer when nothing fit).   *)
ConsumeOffer(st, o) ==
  IF st.shutdown THEN st
  ELSE LET r == ScanTasks([st EXCEPT !.used = NoUse, !.taken = FALSE,
                                     !.launch = <<>>], 1, st.lenTasks, o)
       IN IF r.panicked \/ ~r.taken THEN r
          ELSE [r EXCEPT !.launched = @ \cup {<<id, o.host>> : id \in ToSet(r.launch)}]

-----------------------------------------------------------------------------
(* Actions *)

Alive == ~panicked /\ ~exited

(* NewBinPackSortedWatts: tasks sorted by watts, empty running table.      *)
Init ==
  /\ scheduler \in Schedulers
  /\ tasks \in SortedOrders
  /\ lenTasks = N
  /\ instances = Instances
  /\ tasksRunning = 0
  /\ running = [h \in Hosts |-> {}]
  /\ recordPCP = FALSE
  /\ shutdown = FALSE
  /\ done = FALSE
  /\ panicked = FALSE
  /\ exited = FALSE
  /\ EnvInit

(* ResourceOffers(driver, offers): the whole batch in one callback.  The   *)
(* launched instances are staged on their agents; a panic ends the        *)
(* process after the launches of the offers completed before it.           *)
(* `for _, offer := range offers`: the scheduler state after the batch.    *)
BatchResult(classMap, batch) ==
  LET st0 == [classMap |-> classMap, tasks |-> tasks, lenTasks |-> lenTasks, instances |-> instances,
              running |-> running, recordPCP |-> recordPCP,
              shutdown |-> shutdown, panicked |-> FALSE, used |-> NoUse,
              taken |-> FALSE, launch |-> <<>>, launched |-> {}]
  IN FoldLeft(ConsumeOffer, st0, [i \in DOMAIN batch |-> Offer(batch[i])])

RunBatch(classMap, batch) ==
  /\ Alive
  /\ LET r == BatchResult(classMap, batch)
     IN /\ tasks' = r.tasks
        /\ lenTasks' = r.lenTasks
        /\ instances' = r.instances
        /\ running' = r.running
        /\ recordPCP' = r.recordPCP
        /\ shutdown' = r.shutdown
        /\ panicked' = r.panicked
        /\ Launch(r.launched)
  /\ UNCHANGED <<scheduler, tasksRunning, done, exited, updates>>

ResourceOffers(batch) == RunBatch(FALSE, batch)

(* BPSWClassMapWatts.ResourceOffers: the same loop, packing with the       *)
(* class-map watts; newTask still asks Mesos for task.Watts.               *)
BPSWResourceOffers(batch) == RunBatch(TRUE, batch)

(* The agent starts a staged task: TASK_RUNNING is sent.                   *)
TaskStarts(id) == Alive /\ StartTask(id) /\ UNCHANGED schedVars

(* The task finishes, fails, is killed or lost (from staging or running):  *)
(* one terminal update is sent and the agent frees its resources.          *)
TaskEnds(id) == Alive /\ EndTask(id) /\ UNCHANGED schedVars

(* StatusUpdate(driver, status) for the oldest undelivered update of id.   *)
(* TASK_RUNNING counts the task; a terminal state deletes TaskId.Value     *)
(* from s.running of the slave, uncounts it, and closes Done when nothing  *)
(* runs and Shutdown is closed (closing it again panics).                  *)
StatusUpdate(id) ==
  /\ Alive
  /\ Deliver(id)
  /\ IF Head(updates[id]) = "RUNNING"
     THEN /\ tasksRunning' = tasksRunning + 1
          /\ UNCHANGED <<running, done, panicked>>
     ELSE /\ running' = [running EXCEPT ![agent[id]] = @ \ {TaskIdValue(id)}]
          /\ tasksRunning' = tasksRunning - 1
          /\ IF tasksRunning' = 0 /\ shutdown
             THEN IF done THEN /\ panicked' = TRUE
                               /\ UNCHANGED done
                          ELSE /\ done' = TRUE
                               /\ UNCHANGED panicked
             ELSE UNCHANGED <<done, panicked>>
  /\ UNCHANGED <<scheduler, tasks, lenTasks, instances, recordPCP, shutdown, exited>>

(* BPSWClassMapWatts.StatusUpdate: the same handler.                       *)
BPSWStatusUpdate(id) == StatusUpdate(id)

(* main returns once it receives from s.Done, ending the framework.       *)
Exit ==
  /\ Alive
  /\ done
  /\ exited' = TRUE
  /\ UNCHANGED <<scheduler, tasks, lenTasks, instances, tasksRunning, running,
                 recordPCP, shutdown, done, panicked, envVars>>

(* The process is gone; nothing changes any more.                          *)
Halted == ~Alive /\ UNCHANGED vars

BP   == "BinPackSortedWatts"
BPSW == "BPSWClassMapWatts"

Next ==
  \/ \E b \in Batches : \/ scheduler = BP /\ ResourceOffers(b)
                        \/ scheduler = BPSW /\ BPSWResourceOffers(b)
  \/ \E id \in Id : TaskStarts(id) \/ TaskEnds(id)
  \/ \E id \in Id : \/ scheduler = BP /\ StatusUpdate(id)
                    \/ scheduler = BPSW /\ BPSWStatusUpdate(id)
  \/ Exit
  \/ Halted

(* The master keeps offering, agents finish their tasks, and updates are  *)
(* delivered (Mesos retries a status update until it is acknowledged).     *)
Fairness ==
  /\ WF_vars(\E b \in Batches : scheduler = BP /\ ResourceOffers(b))
  /\ \A id \in Id : WF_vars(TaskStarts(id) \/ TaskEnds(id))
  /\ \A id \in Id : WF_vars(StatusUpdate(id))
  /\ WF_vars(Exit)

Spec == Init /\ [][Next]_vars /\ Fairness

-----------------------------------------------------------------------------
(* Properties *)

(* Type invariant; it also states that the instance counter of a task     *)
(* never goes negative.                                                    *)
TypeOK ==
  /\ scheduler \in Schedulers
  /\ tasks \in [1..N -> TaskDefs]
  /\ lenTasks \in 0..N
  /\ \A t \in TaskDefs : instances[t] \in 0..Instances[t]
  /\ tasksRunning \in Int
  /\ running \in [Hosts -> SUBSET {TaskName(id) : id \in Id}]
  /\ {recordPCP, shutdown, done, panicked, exited} \subseteq BOOLEAN
  /\ EnvTypeOK

(* No agent is overcommitted: each offer packs against what it already    *)
(* took (totalCPU/totalRAM/totalWatts), so the live tasks of this         *)
(* framework on a host never exceed the host's resources, whatever the    *)
(* interleaving of offers, launches and task ends.                        *)
NoHostOvercommit == \A h \in Hosts : WithinCapacity(h)

(* While the process lives, the live part of s.tasks holds every task     *)
(* with instances left, exactly once, and nothing else: the in-place       *)
(* append removal under `range` neither loses nor duplicates a task.       *)
PendingQueueExact ==
  ~panicked =>
    /\ \A i, j \in 1..lenTasks : i # j => tasks[i] # tasks[j]
    /\ {tasks[i] : i \in 1..lenTasks} = {t \in TaskDefs : instances[t] > 0}

(* s.tasks is sorted by watts only once, at construction; removals must   *)
(* keep the live part in ascending watts order for bin packing to place   *)
(* the lightest tasks first.                                               *)
QueueStaysSorted == WattsSorted(SubSeq(tasks, 1, lenTasks))

(* Violated by the code.  The scheduler never dies of a runtime panic:     *)
(* removing a task from s.tasks inside `range` stays within the slice and  *)
(* s.Done is closed at most once.                                          *)
NoRuntimePanic == ~panicked

(* Violated by the code.  Once every task is scheduled (Shutdown closed),   *)
(* Done is eventually closed, unless the process has died.                 *)
ShutdownLeadsToDone == shutdown ~> (done \/ panicked)

====
