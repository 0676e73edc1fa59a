CONSTANTS
  tA = tA
  tB = tB
  tC = tC
  h1 = h1
  h2 = h2
  TaskDefs = {tA}
  Hosts = {h1}
  NoHost = NoHost
  CPU <- MC_CPU
  RAM <- MC_RAM
  Watts <- MC_Watts
  Instances <- MC_Instances
  TaskHost <- MC_TaskHost
  Capacity <- MC_Capacity
  IgnoreWatts = FALSE
  StagingFailures = TRUE
  Schedulers <- MC_SchedulersBP
  ClassOf <- MC_ClassOf
  NoClass = NoClass
  ClassToWatts <- MC_ClassToWatts

SPECIFICATION MGFairSpec
PROPERTY ShutdownLeadsToDone
