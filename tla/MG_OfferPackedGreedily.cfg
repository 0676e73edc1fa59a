CONSTANTS
  tA = tA
  tB = tB
  tC = tC
  h1 = h1
  h2 = h2
  TaskDefs = {tA, tB, tC}
  Hosts = {h1, h2}
  NoHost = NoHost
  CPU <- MC_CPU
  RAM <- MC_RAM
  Watts <- MC_Watts
  Instances <- MC_Instances
  TaskHost <- MC_TaskHost
  Capacity <- MC_CapacityRoomy
  IgnoreWatts = FALSE
  StagingFailures = TRUE
  Schedulers <- MC_SchedulersMG
  ClassOf <- MC_ClassOf
  NoClass = NoClass
  ClassToWatts <- MC_ClassToWatts

SPECIFICATION MGSpec
INVARIANT OfferPackedGreedily
