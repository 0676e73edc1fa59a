----------------------- MODULE MC_BinPackSortedWatts -----------------------
(* Instance of BinPackSortedWatts for TLC: three task definitions on two  *)
(* agents.  tA and tC fit together on either agent, tB needs most of one  *)
(* agent and has two instances, tC may only run on h1.  The watts order   *)
(* tA = tC < tB gives two sorted orders (sort.Sort is not stable).        *)
EXTENDS MaxGreedyMins, TLC

CONSTANTS tA, tB, tC, h1, h2

MC_CPU       == [t \in TaskDefs |-> IF t = tB THEN 3 ELSE 1]
MC_RAM       == [t \in TaskDefs |-> 1]
MC_Watts     == [t \in TaskDefs |-> IF t = tB THEN 2 ELSE 1]
MC_Instances == [t \in TaskDefs |-> IF t = tB THEN 2 ELSE 1]
MC_TaskHost  == [t \in TaskDefs |-> IF t = tC THEN h1 ELSE NoHost]
MC_Capacity  == [h \in Hosts |-> [cpu |-> 4, mem |-> 4, watts |-> 4]]

(* h1 advertises class "light", h2 class "heavy"; every task has both     *)
(* classes in its ClassToWatts, "heavy" one watt above its Watts.          *)
MC_ClassOf      == [h \in Hosts |-> IF h = h1 THEN "light" ELSE "heavy"]
MC_ClassToWatts == [t \in TaskDefs |-> ("light" :> MC_Watts[t]) @@ ("heavy" :> MC_Watts[t] + 1)]
MC_SchedulersBP == {BP}
(* One more CPU per agent: room for a light task beside tB and another.   *)
MC_CapacityRoomy == [h \in Hosts |-> [cpu |-> 5, mem |-> 4, watts |-> 4]]
(* Only "light" in every ClassToWatts: h2's class has no entry.  Agents  *)
(* with 2 watts, so two tasks' watts exceed an agent.                      *)
MC_ClassToWattsLightOnly == [t \in TaskDefs |-> "light" :> MC_Watts[t]]
MC_CapacityLowWatts == [h \in Hosts |-> [cpu |-> 4, mem |-> 4, watts |-> 2]]
MC_SchedulersMG == {MG}
MC_SchedulersBPSW == {BPSW}
MC_SchedulersBPFamily == {BP, BPSW}
MC_SchedulersAll == {BP, BPSW, MG}
====
