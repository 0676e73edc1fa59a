-------------------- MODULE ProactiveClusterwideCapRanked --------------------
(***************************************************************************)
(* The Ranked cluster-wide capping scheduler                               *)
(* (src/schedulers/proactiveclusterwidecappingranked.go) with its two      *)
(* ticker goroutines, driven by the Mesos environment of MesosCluster.    *)
(*                                                                         *)
(* Three goroutines share the package globals rankedCurrentCapValue and   *)
(* rankedRecapValue and the flags isCapping / isRecapping:                 *)
(*  - the scheduler goroutine runs the driver callbacks one at a time;     *)
(*  - the cap goroutine (startCapping) pushes the current cap to every     *)
(*    host on each tick of s.ticker, holding rankedMutex;                  *)
(*  - the recap goroutine (startRecapping) pushes the recap value on each  *)
(*    tick of s.recapTicker while isRecapping, holding rankedMutex.        *)
(* A cap round is one step: nothing it reads can change while it holds the *)
(* mutex.  A recap round is one step per host, because StatusUpdate writes *)
(* rankedRecapValue without the mutex.  StatusUpdate is split where it     *)
(* takes and releases the mutex.                                           *)
(*                                                                         *)
(* Percentages are kept in tenths, so a cap value v stands for v/10 and    *)
(* int(math.Floor(v + 0.5)) is Round(v).  The capper (pcp, not in this     *)
(* repository) is modelled by what it returns: a value of CapValues, or an *)
(* error.  A ticker has a one-slot channel; Stop (Go 1.12, the version the *)
(* build uses) ends the ticks but leaves a tick already in the channel.    *)
(***************************************************************************)
EXTENDS Integers, Sequences, FiniteSets, SequencesExt, MesosCluster

CONSTANTS
  TaskHost,        \* TaskDefs -> Hosts \cup {NoHost}: the task's Host field
  HostOrder,       \* constants.Hosts: every host, in the order of the slice
  CapValues,       \* what FCFSDeterminedCap / CleverRecap may return (tenths)
  CapErr,          \* the capper returned an error
  NoCap,           \* a host that has not been sent a cap
  MaxDisconnects   \* bound on Disconnected callbacks

ASSUME CapValues \subseteq 1..1000 /\ CapErr \notin CapValues
ASSUME ToSet(HostOrder) = Hosts /\ Len(HostOrder) = Cardinality(Hosts)

NH == Len(HostOrder)

VARIABLES
  tasks,          \* s.tasks (its length is len(s.tasks))
  instances,      \* *task.Instances of each task definition
  tasksRunning,   \* s.tasksRunning
  shutdown,       \* s.Shutdown has been closed
  done,           \* s.Done has been closed
  panicked,       \* a runtime panic (close of a closed channel)
  exited,         \* main has returned after receiving from s.Done
  isCapping,      \* s.isCapping
  isRecapping,    \* s.isRecapping
  rankedCurrentCapValue, \* global; 0 until a cap is determined
  rankedRecapValue,      \* global; 0 until a recap is determined
  rankedMutex,    \* "free", or "recap" while a recap round holds it
  ticker,         \* s.ticker is ticking (not stopped)
  recapTicker,    \* s.recapTicker is ticking
  tick,           \* a tick waits in s.ticker.C
  recapTick,      \* a tick waits in s.recapTicker.C
  capLoop,        \* startCapping's goroutine exists
  recapLoop,      \* startRecapping's goroutine exists
  recapPc,        \* recap round: 0 idle, i the next host index, NH+1 end
  suPc,           \* StatusUpdate: "idle", "write" (line 391), "set"/"clear"
  tempCap,        \* StatusUpdate's local tempCap
  disconnects,    \* Disconnected callbacks so far
  posted,         \* Hosts -> last percentage POSTed to the host's daemon
  \* history variables, read only by properties
  pendingRecap,   \* a recap value was determined and not pushed since
  roundPct        \* percentage the current recap round pushed first

schedVars == <<tasks, instances, tasksRunning, shutdown, done, panicked,
               exited, isCapping, isRecapping, rankedCurrentCapValue,
               rankedRecapValue, rankedMutex, ticker, recapTicker, tick,
               recapTick, capLoop, recapLoop, recapPc, suPc, tempCap,
               disconnects, posted, pendingRecap,
               roundPct>>
vars == <<schedVars, envVars>>

(* int(math.Floor(v + 0.5)) for v tenths of a percent.                    *)
Round(v) == (v + 5) \div 10

(* sort.Sort(def.WattsSorter(s.tasks)): any ascending-watts permutation   *)
(* (sort.Sort is not stable).                                              *)
WattsSorted(s) == IsSorted(s, LAMBDA a, b : Watts[a] <= Watts[b])
SortsOf(s) == {q \in [1..Len(s) -> ToSet(s)] :
                 ToSet(q) = ToSet(s) /\ WattsSorted(q)}

(* !strings.HasPrefix(offer.Hostname, task.Host): "" is a prefix of       *)
(* every host name.                                                        *)
HostMismatch(h, t) == TaskHost[t] # NoHost /\ TaskHost[t] # h

(* takeOffer: the task against the whole offer, watts always compared.    *)
TakeOffer(o, t) ==
  o.cpu >= CPU[t] /\ o.mem >= RAM[t] /\ o.watts >= Watts[t]

Candidate(o, t) == ~HostMismatch(o.host, t) /\ TakeOffer(o, t)

-----------------------------------------------------------------------------
(* The offer loop of ResourceOffers over a record `st` of the scheduler   *)
(* state, with `launched` the <<id, host>> launched in this batch.        *)

(* stopCapping: only when capping; s.ticker.Stop() keeps a waiting tick.  *)
StopCapping(st) ==
  IF st.isCapping
  THEN [st EXCEPT !.ticker = FALSE, !.isCapping = FALSE, !.isRecapping = TRUE]
  ELSE st

(* Mutant: the task is removed only when its counter goes below zero.     *)
RemoveExhaustedOffByOne(st, p) ==
  LET t == st.tasks[p]
      n == Len(st.tasks)
      s1 == [st EXCEPT !.tasks = SubSeq([st.tasks EXCEPT ![p] = st.tasks[n]], 1, n - 1)]
  IN IF st.instances[t] >= 0 THEN st
     ELSE IF n - 1 <= 0
          THEN [StopCapping(s1) EXCEPT !.recapLoop = TRUE, !.shutdown = TRUE]
          ELSE s1

(* Mutant: the slice is shortened without moving the last task into i.    *)
RemoveExhaustedNoCopy(st, p) ==
  LET t == st.tasks[p]
      n == Len(st.tasks)
      s1 == [st EXCEPT !.tasks = SubSeq(@, 1, n - 1)]
  IN IF st.instances[t] > 0 THEN st
     ELSE IF n - 1 <= 0
          THEN [StopCapping(s1) EXCEPT !.recapLoop = TRUE, !.shutdown = TRUE]
          ELSE s1

(* if *task.Instances <= 0: s.tasks[i] = s.tasks[len-1], shorten; when    *)
(* empty, stopCapping(), startRecapping() and close(s.Shutdown).          *)
RemoveExhausted(st, p) ==
  LET t == st.tasks[p]
      n == Len(st.tasks)
      s1 == [st EXCEPT !.tasks = SubSeq([st.tasks EXCEPT ![p] = st.tasks[n]], 1, n - 1)]
  IN IF st.instances[t] > 0 THEN st
     ELSE IF n - 1 <= 0
          THEN [StopCapping(s1) EXCEPT !.recapLoop = TRUE, !.shutdown = TRUE]
          ELSE s1

(* Mutant: the instance is named after the decrement.                     *)
FitNameAfterDecrement(st, p, o, c) ==
  LET t  == st.tasks[p]
      s1 == [st EXCEPT !.isCapping = TRUE,
                       !.capLoop = IF st.isCapping THEN @ ELSE TRUE,
                       !.rankedCurrentCapValue = IF c = CapErr THEN @ ELSE c,
                       !.instances[t] = @ - 1]
  IN RemoveExhausted([s1 EXCEPT !.launched = @ \cup {<<<<t, s1.instances[t]>>, o.host>>}], p)

(* Mutant: a fit sets isCapping but never calls startCapping().          *)
FitNoStartCapping(st, p, o, c) ==
  LET t  == st.tasks[p]
      s1 == [st EXCEPT !.isCapping = TRUE,
                       !.rankedCurrentCapValue = IF c = CapErr THEN @ ELSE c,
                       !.launched = @ \cup {<<<<t, st.instances[t]>>, o.host>>},
                       !.instances[t] = @ - 1]
  IN RemoveExhausted(s1, p)

(* The task at index p fits: start capping if not capping, publish the    *)
(* capper's FCFSDeterminedCap result c unless it failed, launch           *)
(* "Name-k" (newTask, LaunchTasks), decrement and remove if exhausted.    *)
Fit(st, p, o, c) ==
  LET t  == st.tasks[p]
      s1 == [st EXCEPT !.isCapping = TRUE,
                       !.capLoop = IF st.isCapping THEN @ ELSE TRUE,
                       !.rankedCurrentCapValue = IF c = CapErr THEN @ ELSE c,
                       !.launched = @ \cup {<<<<t, st.instances[t]>>, o.host>>},
                       !.instances[t] = @ - 1]
  IN RemoveExhausted(s1, p)

(* Mutant: the range loop does not break after a launch; it goes on over *)
(* the tasks of the slice it started with.                                *)
RECURSIVE FitAll(_, _, _, _, _)
FitAll(st, snap, i, o, c) ==
  IF i > Len(snap) THEN st
  ELSE LET p == SelectInSeq(st.tasks, LAMBDA t : t = snap[i])
       IN FitAll(IF p # 0 /\ Candidate(o, snap[i]) THEN Fit(st, p, o, c) ELSE st,
                 snap, i + 1, o, c)
ConsumeOfferNoBreak(st, oc) ==
  IF st.shutdown THEN st ELSE FitAll(st, st.tasks, 1, oc[1], oc[2])

(* One offer oc = <<offer, capper result>>: decline after Shutdown; else  *)
(* the first task (range order) that matches the host and takeOffer,      *)
(* then break; decline when none does.                                    *)
ConsumeOffer(st, oc) ==
  LET o == oc[1]
      p == SelectInSeq(st.tasks, LAMBDA t : Candidate(o, t))
  IN IF st.shutdown \/ p = 0 THEN st
     ELSE Fit(st, p, o, oc[2])

-----------------------------------------------------------------------------
(* Actions.  The scheduler goroutine runs one callback at a time; a       *)
(* StatusUpdate in progress (suPc # "idle") holds off every other one.    *)

Alive == ~panicked /\ ~exited
SchedIdle == Alive /\ suPc = "idle"

(* NewProactiveClusterwideCapRanked: both tickers created (ticking), no   *)
(* goroutine yet, nothing capped.                                          *)
Init ==
  /\ tasks \in {q \in [1..Cardinality(TaskDefs) -> TaskDefs] : ToSet(q) = TaskDefs}
  /\ instances = Instances
  /\ tasksRunning = 0
  /\ shutdown = FALSE /\ done = FALSE /\ panicked = FALSE /\ exited = FALSE
  /\ isCapping = FALSE /\ isRecapping = FALSE
  /\ rankedCurrentCapValue = 0 /\ rankedRecapValue = 0
  /\ rankedMutex = "free"
  /\ ticker = TRUE /\ recapTicker = TRUE
  /\ tick = FALSE /\ recapTick = FALSE
  /\ capLoop = FALSE /\ recapLoop = FALSE
  /\ recapPc = 0 /\ suPc = "idle" /\ tempCap = 0
  /\ disconnects = 0
  /\ posted = [h \in Hosts |-> NoCap]
  /\ pendingRecap = FALSE
  /\ roundPct = NoCap
  /\ EnvInit

(* ResourceOffers(batch): sort s.tasks if non-empty, then one offer after *)
(* another; caps gives FCFSDeterminedCap's result for each offer.         *)
ResourceOffers(batch, caps) ==
  /\ SchedIdle
  /\ \E sorted \in SortsOf(tasks) :
     LET st0 == [tasks |-> sorted, instances |-> instances, shutdown |-> shutdown,
                 isCapping |-> isCapping, isRecapping |-> isRecapping,
                 rankedCurrentCapValue |-> rankedCurrentCapValue,
                 ticker |-> ticker, capLoop |-> capLoop, recapLoop |-> recapLoop,
                 launched |-> {}]
         r == FoldLeft(ConsumeOffer, st0,
                       [i \in DOMAIN batch |-> <<Offer(batch[i]), caps[i]>>])
     IN /\ tasks' = r.tasks
        /\ instances' = r.instances
        /\ shutdown' = r.shutdown
        /\ isCapping' = r.isCapping
        /\ isRecapping' = r.isRecapping
        /\ rankedCurrentCapValue' = r.rankedCurrentCapValue
        /\ ticker' = r.ticker
        /\ capLoop' = r.capLoop
        /\ recapLoop' = r.recapLoop
        /\ Launch(r.launched)
        /\ UNCHANGED updates
  /\ UNCHANGED <<tasksRunning, done, panicked, exited, rankedRecapValue,
                 rankedMutex, recapTicker, tick, recapTick, recapPc, suPc,
                 tempCap, disconnects, posted, pendingRecap, roundPct>>

(* Disconnected: stop both tickers, then clear isCapping under the mutex. *)
Disconnected ==
  /\ SchedIdle
  /\ disconnects < MaxDisconnects
  /\ rankedMutex = "free"
  /\ ticker' = FALSE /\ recapTicker' = FALSE
  /\ isCapping' = FALSE
  /\ disconnects' = disconnects + 1
  /\ UNCHANGED <<tasks, instances, tasksRunning, shutdown, done, panicked,
                 exited, isRecapping, rankedCurrentCapValue, rankedRecapValue,
                 rankedMutex, tick, recapTick, capLoop, recapLoop, recapPc,
                 suPc, tempCap, posted, pendingRecap, roundPct,
                 envVars>>

(* StatusUpdate up to the unlocked part: TASK_RUNNING increments under    *)
(* the mutex.  A terminal state decrements under the mutex; then at 0     *)
(* with Shutdown closed, stopRecapping() and close(s.Done) (a second      *)
(* close panics); at 0 before Shutdown, nothing; otherwise                *)
(* TaskFinished and CleverRecap, whose result c moves on to line 391.     *)
(* (delete(s.running, ...) only touches a table no property reads.)       *)
StatusUpdate(id) ==
  /\ SchedIdle
  /\ rankedMutex = "free"
  /\ Deliver(id)
  /\ IF Head(updates[id]) = "RUNNING"
     THEN /\ tasksRunning' = tasksRunning + 1
          /\ UNCHANGED <<done, panicked, isRecapping, recapTicker, suPc,
                         tempCap>>
     ELSE /\ tasksRunning' = tasksRunning - 1
          /\ IF tasksRunning' = 0
             THEN /\ IF shutdown
                     THEN /\ IF ~isCapping /\ isRecapping
                             THEN isRecapping' = FALSE /\ recapTicker' = FALSE
                             ELSE UNCHANGED <<isRecapping, recapTicker>>
                          /\ IF done THEN panicked' = TRUE /\ UNCHANGED done
                                     ELSE done' = TRUE /\ UNCHANGED panicked
                     ELSE UNCHANGED <<done, panicked, isRecapping, recapTicker>>
                  /\ UNCHANGED <<suPc, tempCap>>
             ELSE /\ \E c \in CapValues \cup {CapErr} :
                       IF c = CapErr
                       THEN UNCHANGED <<suPc, tempCap>>
                       ELSE suPc' = "write" /\ tempCap' = c
                  /\ UNCHANGED <<done, panicked, isRecapping, recapTicker>>
  /\ UNCHANGED <<tasks, instances, shutdown, exited, isCapping,
                 rankedCurrentCapValue, rankedRecapValue, rankedMutex, ticker,
                 tick, recapTick, capLoop, recapLoop, recapPc, disconnects,
                 posted, pendingRecap, roundPct>>

(* Line 391-392, without the mutex: a recap value whose rounding differs  *)
(* from the current one replaces rankedRecapValue.                         *)
RecapWrite ==
  /\ Alive /\ suPc = "write"
  /\ IF Round(tempCap) # Round(rankedRecapValue)
     THEN rankedRecapValue' = tempCap /\ pendingRecap' = TRUE /\ suPc' = "set"
     ELSE suPc' = "clear" /\ UNCHANGED <<rankedRecapValue, pendingRecap>>
  /\ UNCHANGED <<tasks, instances, tasksRunning, shutdown, done, panicked,
                 exited, isCapping, isRecapping, rankedCurrentCapValue,
                 rankedMutex, ticker, recapTicker, tick, recapTick, capLoop,
                 recapLoop, recapPc, tempCap, disconnects, posted,
                 roundPct, envVars>>

(* Lines 393-400: isRecapping = true (new value) or false (same rounding) *)
(* under the mutex; the callback returns (its local tempCap is gone).     *)
RecapFlag ==
  /\ Alive /\ suPc \in {"set", "clear"}
  /\ rankedMutex = "free"
  /\ isRecapping' = (suPc = "set")
  /\ suPc' = "idle"
  /\ tempCap' = 0
  /\ UNCHANGED <<tasks, instances, tasksRunning, shutdown, done, panicked,
                 exited, isCapping, rankedCurrentCapValue, rankedRecapValue,
                 rankedMutex, ticker, recapTicker, tick, recapTick, capLoop,
                 recapLoop, recapPc, disconnects, posted,
                 pendingRecap, roundPct, envVars>>

(* The Go runtime puts a tick into a ticker's channel (dropped if full).  *)
TickerFires ==
  /\ Alive /\ ticker /\ ~tick
  /\ tick' = TRUE
  /\ UNCHANGED <<tasks, instances, tasksRunning, shutdown, done, panicked,
                 exited, isCapping, isRecapping, rankedCurrentCapValue,
                 rankedRecapValue, rankedMutex, ticker, recapTicker, recapTick,
                 capLoop, recapLoop, recapPc, suPc, tempCap, disconnects,
                 posted, pendingRecap, roundPct,
                 envVars>>

RecapTickerFires ==
  /\ Alive /\ recapTicker /\ ~recapTick
  /\ recapTick' = TRUE
  /\ UNCHANGED <<tasks, instances, tasksRunning, shutdown, done, panicked,
                 exited, isCapping, isRecapping, rankedCurrentCapValue,
                 rankedRecapValue, rankedMutex, ticker, recapTicker, tick,
                 capLoop, recapLoop, recapPc, suPc, tempCap, disconnects,
                 posted, pendingRecap, roundPct,
                 envVars>>

(* startCapping's loop: on a tick, under rankedMutex, if                   *)
(* rankedCurrentCapValue > 0, rapl.Cap every host with its rounding.      *)
CapRound ==
  /\ Alive /\ capLoop /\ tick /\ rankedMutex = "free"
  /\ tick' = FALSE
  /\ posted' = IF rankedCurrentCapValue > 0
               THEN [h \in Hosts |-> Round(rankedCurrentCapValue)]
               ELSE posted
  /\ UNCHANGED <<tasks, instances, tasksRunning, shutdown, done, panicked,
                 exited, isCapping, isRecapping, rankedCurrentCapValue,
                 rankedRecapValue, rankedMutex, ticker, recapTicker, recapTick,
                 capLoop, recapLoop, recapPc, suPc, tempCap, disconnects,
                 pendingRecap, roundPct, envVars>>

(* startRecapping's loop takes a tick and rankedMutex; it pushes to the   *)
(* hosts only if isRecapping && rankedRecapValue > 0.                      *)
RecapRoundBegin ==
  /\ Alive /\ recapLoop /\ recapTick /\ rankedMutex = "free"
  /\ recapTick' = FALSE
  /\ rankedMutex' = "recap"
  /\ IF isRecapping /\ rankedRecapValue > 0
     THEN /\ recapPc' = 1
          /\ pendingRecap' = FALSE
          /\ roundPct' = Round(rankedRecapValue)
     ELSE /\ recapPc' = NH + 1
          /\ UNCHANGED <<pendingRecap, roundPct>>
  /\ UNCHANGED <<tasks, instances, tasksRunning, shutdown, done, panicked,
                 exited, isCapping, isRecapping, rankedCurrentCapValue,
                 rankedRecapValue, ticker, recapTicker, tick, capLoop,
                 recapLoop, suPc, tempCap, disconnects, posted, envVars>>

(* rapl.Cap(host, "rapl", int(math.Floor(rankedRecapValue+0.5))) for the  *)
(* next host of constants.Hosts; the global is read at this call.         *)
RecapPush ==
  /\ Alive /\ rankedMutex = "recap" /\ recapPc \in 1..NH
  /\ posted' = [posted EXCEPT ![HostOrder[recapPc]] = Round(rankedRecapValue)]
  /\ recapPc' = recapPc + 1
  /\ UNCHANGED <<tasks, instances, tasksRunning, shutdown, done, panicked,
                 exited, isCapping, isRecapping, rankedCurrentCapValue,
                 rankedRecapValue, rankedMutex, ticker, recapTicker, tick,
                 recapTick, capLoop, recapLoop, suPc, tempCap, disconnects,
                 pendingRecap, roundPct, envVars>>

(* s.isRecapping = false, whether or not anything was pushed; unlock.     *)
(* roundPct, a history of this round only, is cleared.                    *)
RecapRoundEnd ==
  /\ Alive /\ rankedMutex = "recap" /\ recapPc = NH + 1
  /\ isRecapping' = FALSE
  /\ rankedMutex' = "free"
  /\ recapPc' = 0
  /\ roundPct' = NoCap
  /\ UNCHANGED <<tasks, instances, tasksRunning, shutdown, done, panicked,
                 exited, isCapping, rankedCurrentCapValue, rankedRecapValue,
                 ticker, recapTicker, tick, recapTick, capLoop, recapLoop, suPc,
                 tempCap, disconnects, posted, pendingRecap, envVars>>

TaskStarts(id) == Alive /\ StartTask(id) /\ UNCHANGED schedVars
TaskEnds(id)   == Alive /\ EndTask(id) /\ UNCHANGED schedVars

(* main returns once it receives from s.Done.                             *)
Exit ==
  /\ Alive /\ done
  /\ exited' = TRUE
  /\ UNCHANGED <<tasks, instances, tasksRunning, shutdown, done, panicked,
                 isCapping, isRecapping, rankedCurrentCapValue,
                 rankedRecapValue, rankedMutex, ticker, recapTicker, tick,
                 recapTick, capLoop, recapLoop, recapPc, suPc, tempCap,
                 disconnects, posted, pendingRecap, roundPct,
                 envVars>>

Halted == ~Alive /\ UNCHANGED vars

Next ==
  \/ \E b \in Batches : \E caps \in [DOMAIN b -> CapValues \cup {CapErr}] :
       ResourceOffers(b, caps)
  \/ \E id \in Id : TaskStarts(id) \/ TaskEnds(id) \/ StatusUpdate(id)
  \/ RecapWrite \/ RecapFlag \/ Disconnected
  \/ TickerFires \/ CapRound
  \/ RecapTickerFires \/ RecapRoundBegin \/ RecapPush \/ RecapRoundEnd
  \/ Exit \/ Halted

Spec == Init /\ [][Next]_vars

(* What the Go runtime guarantees the cap goroutine: a running ticker     *)
(* keeps delivering ticks; a goroutine whose select has a ready channel   *)
(* runs; sync.Mutex (starvation mode) gives the mutex to a waiter that    *)
(* keeps waiting, although the recap goroutine keeps taking it, hence     *)
(* strong fairness for the cap round; a recap round holding the mutex     *)
(* finishes.  Nothing is assumed of Mesos or of the scheduler goroutine.  *)
CapFairness ==
  /\ WF_vars(TickerFires)
  /\ SF_vars(CapRound)
  /\ WF_vars(RecapPush)
  /\ WF_vars(RecapRoundEnd)

FairSpec == Spec /\ CapFairness

(* The Ranked scheduler seen as an OfferScheduler: the pending instances   *)
(* are the instance counters, alive until a panic or main's return.        *)
OS == INSTANCE OfferScheduler WITH remaining <- instances, alive <- Alive

-----------------------------------------------------------------------------
(* Properties *)

TypeOK ==
  /\ tasks \in Seq(TaskDefs)
  /\ \A t \in TaskDefs : instances[t] \in 0..Instances[t]
  /\ tasksRunning \in Int
  /\ {shutdown, done, panicked, exited, isCapping, isRecapping, ticker,
      recapTicker, tick, recapTick, capLoop, recapLoop, pendingRecap} \subseteq BOOLEAN
  /\ rankedCurrentCapValue \in CapValues \cup {0}
  /\ rankedRecapValue \in CapValues \cup {0}
  /\ rankedMutex \in {"free", "recap"}
  /\ recapPc \in 0..NH + 1
  /\ suPc \in {"idle", "write", "set", "clear"}
  /\ disconnects \in 0..MaxDisconnects
  /\ posted \in [Hosts -> Int \cup {NoCap}]
  /\ EnvTypeOK

(* No agent is overcommitted: each offer launches one task, compared with *)
(* the whole offer by takeOffer, and the loop breaks after the launch.    *)
NoHostOvercommit == \A h \in Hosts : WithinCapacity(h)

(* s.tasks holds each task with instances left exactly once: the swap    *)
(* removal (s.tasks[i] = last; shorten) neither loses nor duplicates one. *)
PendingQueueExact ==
  /\ \A i, j \in 1..Len(tasks) : i # j => tasks[i] # tasks[j]
  /\ ToSet(tasks) = {t \in TaskDefs : instances[t] > 0}

(* The Ranked scheduler implements OfferScheduler: each batch launches the *)
(* next instances of each task, counting *task.Instances down, on a host   *)
(* the task allows and within the offer, although the swap removal         *)
(* reorders the queue and the capping goroutines run in between; a         *)
(* panicking StatusUpdate or main's return only stops it.                  *)
OfferSchedulerRefined == OS!Spec

(* Spec 4.5, cap ticker: a cap determined while capping reaches every     *)
(* host.  Once a fit has set isCapping with s.ticker running and          *)
(* published v, every host is eventually sent Round(v), unless v is       *)
(* replaced, the ticker is stopped (drain, Disconnected) or the process   *)
(* ends; this needs the fit to have started the cap goroutine, and the    *)
(* recap round and StatusUpdate never to hold it off for good.            *)
CapReachesHosts ==
  \A v \in CapValues :
    (Alive /\ isCapping /\ ticker /\ rankedCurrentCapValue = v)
      ~> (\/ posted = [h \in Hosts |-> Round(v)]
          \/ rankedCurrentCapValue # v \/ ~ticker \/ ~Alive)

(* Violated by the code.  A recap value determined after a task finished  *)
(* is not dropped before the recap goroutine pushes it: while recapping  *)
(* and before Done, isRecapping stays set as long as such a value waits.  *)
(* StatusUpdate clears isRecapping when the next value rounds the same    *)
(* as rankedRecapValue, even if that value was never pushed.              *)
RecapNotDropped ==
  (recapLoop /\ ~done /\ suPc = "idle" /\ pendingRecap) => isRecapping

(* Violated by the code.  A recap round pushes to every host the value it *)
(* checked when it took rankedMutex (line 208): the round holds the mutex, *)
(* but StatusUpdate writes rankedRecapValue without it, so the value read *)
(* for a host (line 211) can be a newer one, and hosts of one round can   *)
(* get different caps.                                                    *)
RecapRoundUniform ==
  (rankedMutex = "recap" /\ roundPct # NoCap) =>
    \A i \in 1..recapPc - 1 : posted[HostOrder[i]] = roundPct

====
