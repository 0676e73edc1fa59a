----------------- MODULE MC_ProactiveClusterwideCapRanked -----------------
(* Instance of ProactiveClusterwideCapRanked for TLC: three task          *)
(* definitions on two agents of 3 CPUs.  tA and tC (1 CPU, 1 W) fit with *)
(* tB (2 CPUs, 2 W); every task has one instance; tC may only run on h1. *)
(* The capper returns 59.8 % or 60.2 % (same rounding) or fails.          *)
EXTENDS ProactiveClusterwideCapRanked

CONSTANTS tA, tB, tC, h1, h2

MC_CPU       == [t \in TaskDefs |-> IF t = tB THEN 2 ELSE 1]
MC_RAM       == [t \in TaskDefs |-> 1]
MC_Watts     == [t \in TaskDefs |-> IF t = tB THEN 2 ELSE 1]
MC_Instances == [t \in TaskDefs |-> 1]
MC_TaskHost  == [t \in TaskDefs |-> IF t = tC THEN h1 ELSE NoHost]
MC_Capacity  == [h \in Hosts |-> [cpu |-> 3, mem |-> 4, watts |-> 4]]
MC_HostOrder == IF h2 \in Hosts THEN <<h1, h2>> ELSE <<h1>>
MC_CapValues == {602}

(* State constraint for the recap-round race: the cap goroutine plays no *)
(* part in it, so no tick is left waiting in s.ticker.C.                 *)
MC_NoCapTicks == ~tick
====
