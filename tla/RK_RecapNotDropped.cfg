CONSTANTS
  tA = tA  tB = tB  tC = tC  h1 = h1  h2 = h2
  TaskDefs = {tA, tB, tC}
  Hosts = {h1}
  NoHost = NoHost
  CapErr = CapErr
  NoCap = NoCap
  MaxDisconnects = 1
  IgnoreWatts = FALSE
  StagingFailures = FALSE
  CPU <- MC_CPU
  RAM <- MC_RAM
  Watts <- MC_Watts
  Instances <- MC_Instances
  TaskHost <- MC_TaskHost
  Capacity <- MC_Capacity
  HostOrder <- MC_HostOrder
  CapValues = {598, 602}
SPECIFICATION Spec
INVARIANT RecapNotDropped
