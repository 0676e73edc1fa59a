---------------------------- MODULE MaxGreedyMins ----------------------------
(***************************************************************************)
(* The MaxGreedyMins policy (src/schedulers/MaxGreedyMins.go) as a third  *)
(* scheduler the framework may be started with, beside the two of         *)
(* BinPackSortedWatts.  It shares their pending slice, instance counters,  *)
(* removal by append and newTask bookkeeping; it differs in the order it   *)
(* packs an offer: one instance of the heaviest task that fits (scanning   *)
(* back to front), then the light tasks front to back, each until it no   *)
(* longer fits.  Both loops re-read len(baseSchedRef.tasks), so unlike     *)
(* BinPack's range loop they never index past the slice.                   *)
(*                                                                         *)
(* The framework side of this policy (baseScheduler: its StatusUpdate,     *)
(* newTask and def.SortTasks/WattsToConsider) is not in this repository    *)
(* and is modelled from spec sections 4.1, 4.3 and 4.6.  Class-map mode   *)
(* is off, so WattsToConsider is task.Watts.  The random policy switch at  *)
(* the end of ConsumeOffers runs only with schedPolSwitchEnabled, and its  *)
(* targets are not in this repository; the framework keeps this policy.   *)
(***************************************************************************)
EXTENDS BinPackSortedWatts

VARIABLE
  skippedFit \* history: some offer was left with a pending task that fit it

mgVars == <<vars, skippedFit>>

MG == "MaxGreedyMins"

(* def.SortTasks(tasks, def.SortByWatts): a stable sort by watts, i.e.    *)
(* the tasks of each watts value, in their order, lowest value first.      *)
SortTasks(s) ==
  LET ws == SetToSortSeq({Watts[s[i]] : i \in DOMAIN s}, <)
  IN FlattenSeq([k \in DOMAIN ws |-> SelectSeq(s, LAMBDA t : Watts[t] = ws[k])])

(* takeOffer: the shared fit predicate, with WattsToConsider = task.Watts. *)
TakeOffer(st, t, o) == Fits(st, t, o)

(* CheckFit: when the task fits, account it, newTask, *task.Instances--,   *)
(* and remove the task at position p when no instances are left.          *)
CheckFit(st, t, p, o) == IF TakeOffer(st, t, o) THEN LaunchOne(st, t, p, o) ELSE st

(* The CheckFit that produced r from st took the offer.                    *)
Took(r, st) == Len(r.launch) > Len(st.launch)

(* Attempt one instance of the heaviest task first: `for i := len - 1;     *)
(* i >= 0; i--`, skipping host mismatches, until a CheckFit takes the      *)
(* offer; then break.  Positions are 1-based: p = i + 1.                   *)
RECURSIVE BackLoop(_, _, _)
BackLoop(st, p, o) ==
  IF p < 1 THEN st
  ELSE LET t == st.tasks[p]
           r == IF HostMismatch(o.host, t) THEN st ELSE CheckFit(st, t, p, o)
       IN IF Took(r, st) THEN r ELSE BackLoop(st, p - 1, o)

(* `for *task.Instances > 0`: CheckFit until it does not take the offer.  *)
RECURSIVE PackInstances(_, _, _, _)
PackInstances(st, t, p, o) ==
  IF st.instances[t] <= 0 THEN st
  ELSE LET r == CheckFit(st, t, p, o)
       IN IF Took(r, st) THEN PackInstances(r, t, p, o) ELSE st

(* Pack the rest with the smallest tasks: `for i := 0; i < len(tasks);    *)
(* i++`, the length re-read each time, packing each host-compatible task. *)
(* The index moves on even when CheckFit removed the task at i.           *)
RECURSIVE FrontLoop(_, _, _)
FrontLoop(st, p, o) ==
  IF p > st.lenTasks THEN st
  ELSE LET t == st.tasks[p]
       IN FrontLoop(IF HostMismatch(o.host, t) THEN st ELSE PackInstances(st, t, p, o),
                    p + 1, o)

(* A pending task, allowed on the host, that still fits what is left.     *)
FitLeft(st, o) ==
  \E p \in 1..st.lenTasks : ~HostMismatch(o.host, st.tasks[p]) /\ Fits(st, st.tasks[p], o)

(* The body of `for _, offer := range offers`: decline when Shutdown is    *)
(* closed; else the two loops, then LaunchTasks, or DeclineOffer when      *)
(* nothing was taken.  The history records an offer left with room.        *)
MGConsumeOffer(st, o) ==
  IF st.shutdown THEN st
  ELSE LET r0 == BackLoop([st EXCEPT !.used = NoUse, !.taken = FALSE,
                                     !.launch = <<>>], st.lenTasks, o)
           r  == FrontLoop(r0, 1, o)
       IN [r EXCEPT !.launched = IF r.taken
                                 THEN @ \cup {<<id, o.host>> : id \in ToSet(r.launch)}
                                 ELSE @,
                    !.skipped = @ \/ FitLeft(r, o)]

(* MaxGreedyMins.ConsumeOffers, called with the whole batch: sort the      *)
(* pending slice, then consume each offer.                                 *)
MGBatchResult(batch) ==
  LET live == SortTasks(SubSeq(tasks, 1, lenTasks))
      st0 == [classMap |-> FALSE,
              tasks |-> [p \in 1..N |-> IF p <= lenTasks THEN live[p] ELSE tasks[p]],
              lenTasks |-> lenTasks, instances |-> instances,
              running |-> running, recordPCP |-> recordPCP,
              shutdown |-> shutdown, panicked |-> FALSE, used |-> NoUse,
              taken |-> FALSE, launch |-> <<>>, launched |-> {},
              skipped |-> skippedFit]
  IN FoldLeft(MGConsumeOffer, st0, [i \in DOMAIN batch |-> Offer(batch[i])])

MGResourceOffers(batch) ==
  /\ Alive
  /\ LET r == MGBatchResult(batch)
     IN /\ tasks' = r.tasks
        /\ lenTasks' = r.lenTasks
        /\ instances' = r.instances
        /\ running' = r.running
        /\ recordPCP' = r.recordPCP
        /\ shutdown' = r.shutdown
        /\ skippedFit' = r.skipped
        /\ Launch(r.launched)
  /\ UNCHANGED <<scheduler, tasksRunning, done, panicked, exited, updates>>

(* The framework's StatusUpdate for this policy (spec section 4.6):        *)
(* TASK_RUNNING counts the task; a terminal state removes the task's id   *)
(* from the running table and uncounts it, and Done is closed once the    *)
(* queue is drained and nothing runs.                                      *)
BaseStatusUpdate(id) ==
  /\ Alive
  /\ Deliver(id)
  /\ IF Head(updates[id]) = "RUNNING"
     THEN /\ tasksRunning' = tasksRunning + 1
          /\ UNCHANGED <<running, done>>
     ELSE /\ running' = [running EXCEPT ![agent[id]] = @ \ {TaskName(id)}]
          /\ tasksRunning' = tasksRunning - 1
          /\ done' = (done \/ (tasksRunning' = 0 /\ shutdown))
  /\ UNCHANGED <<scheduler, tasks, lenTasks, instances, recordPCP, shutdown,
                 panicked, exited, skippedFit>>

MGInit == Init /\ skippedFit = FALSE

(* The framework runs the scheduler it was started with, one of the three. *)
MGNext ==
  \/ Next /\ UNCHANGED skippedFit
  \/ \E b \in Batches : scheduler = MG /\ MGResourceOffers(b)
  \/ \E id \in Id : scheduler = MG /\ BaseStatusUpdate(id)

MGSpec == MGInit /\ [][MGNext]_mgVars

(* With the fairness of the BinPackSortedWatts environment (offers keep    *)
(* coming, tasks end, updates are delivered).                              *)
MGFairSpec == MGSpec /\ Fairness

(* The offer callback of whichever scheduler the framework runs.          *)
SchedulerOffers(b) ==
  \/ scheduler = BP /\ ResourceOffers(b) /\ UNCHANGED skippedFit
  \/ scheduler = BPSW /\ BPSWResourceOffers(b) /\ UNCHANGED skippedFit
  \/ scheduler = MG /\ MGResourceOffers(b)

(* A batch with an offer of h, to the running scheduler.                  *)
OffersTo(h) == \E b \in Batches : (\E i \in DOMAIN b : b[i] = h) /\ SchedulerOffers(b)

(* Some batch with an offer of h would change the pending queue, the      *)
(* counters, Shutdown or the panic flag.  Each of these is assigned from  *)
(* the batch result, so this implies ENABLED <<OffersTo(h)>>_mgVars.       *)
OfferProgresses(h) ==
  /\ Alive
  /\ \E b \in Batches :
       /\ \E i \in DOMAIN b : b[i] = h
       /\ LET r == CASE scheduler = BP -> BatchResult(FALSE, b)
                      [] scheduler = BPSW -> BatchResult(TRUE, b)
                      [] scheduler = MG -> MGBatchResult(b)
          IN r.instances # instances \/ r.lenTasks # lenTasks
             \/ r.shutdown # shutdown \/ r.panicked

(* The master re-offers an agent's unused resources: the schedulers        *)
(* decline with mesosUtils.DefaultFilter (RefuseSeconds 1) and the master  *)
(* offers every agent with free resources again.  Weak fairness of the    *)
(* offers of each agent, with ENABLED replaced by the stronger            *)
(* OfferProgresses (so the assumption is no stronger than WF): an agent    *)
(* whose offer would keep making progress is eventually offered.  With    *)
(* the cluster fairness: agents start and end their tasks.                *)
OfferFairness ==
  /\ \A id \in Id : WF_vars(TaskStarts(id) \/ TaskEnds(id))
  /\ \A h \in Hosts : []<>~OfferProgresses(h) \/ []<><<OffersTo(h)>>_mgVars

OfferFairSpec == MGSpec /\ OfferFairness

(* The three schedulers as implementations of OfferScheduler: the pending  *)
(* instances are the instance counters, and the scheduler is alive until  *)
(* it panics or main returns.                                              *)
OS == INSTANCE OfferScheduler WITH remaining <- instances, alive <- Alive

-----------------------------------------------------------------------------
(* Properties *)

(* Spec 4.3: after the heavy instance, MaxGreedyMins keeps consuming each  *)
(* light task until it no longer fits before it advances, so no offer it  *)
(* packs is left with a pending task that would still fit on it.  The     *)
(* front loop moves i past the slot a removed task leaves (line 66), so    *)
(* the task shifted into it is never tried on this offer.                  *)
OfferPackedGreedily == ~skippedFit

(* Every one of the three schedulers implements OfferScheduler: each batch *)
(* launches the next instances of each task, counting *task.Instances      *)
(* down, on hosts their Host field allows and within each offer (whatever *)
(* the packing order, the in-place removals and the watts each policy     *)
(* packs with), and a panic or exit only stops it.                         *)
OfferSchedulerRefined == OS!Spec

(* Spec sections 3 and 4.3: every instance declared in the workload file  *)
(* is eventually launched on an agent, unless the process panics.  It     *)
(* needs the pending queue to keep every task with instances left (the   *)
(* in-place removals of RemoveTask and the range loop over a shrinking    *)
(* slice), every task in it to be tried on every offer, and an agent      *)
(* freed by ending tasks to be offered again.                             *)
EveryInstanceLaunched == <>(panicked \/ \A id \in Id : phase[id] # "none")

====
