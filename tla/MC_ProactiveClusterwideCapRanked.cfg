CONSTANTS
  tA = tA  tB = tB  tC = tC  h1 = h1  h2 = h2
  TaskDefs = {tA, tB, tC}
  Hosts = {h1}
  NoHost = NoHost
  CapErr = CapErr
  NoCap = NoCap
  MaxDisconnects = 1
  IgnoreWatts = FALSE
  StagingFailures = TRUE
  CPU <- MC_CPU
  RAM <- MC_RAM
  Watts <- MC_Watts
  Instances <- MC_Instances
  TaskHost <- MC_TaskHost
  Capacity <- MC_Capacity
  HostOrder <- MC_HostOrder
  CapValues <- MC_CapValues
SPECIFICATION FairSpec
INVARIANTS
  TypeOK
  NoHostOvercommit
  PendingQueueExact
PROPERTY
  OfferSchedulerRefined
  CapReachesHosts
