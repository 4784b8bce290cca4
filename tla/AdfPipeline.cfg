CONSTANTS
  x = x
  None = None
  Undeclared = Undeclared
  N = 3
  Channels = {x}
  Shapes <- AllShapes
  InitialChannels = {}
  Limit = 2
  Claims <- Mixed
  Overlap <- SamePath
  Graphs <- AllGraphs
  Policies = {"last", "namespace"}
  Initial = {1}
SPECIFICATION PipelineSpec
INVARIANTS
  AcyclicAccepted SimpleCyclesRejected
  ExclusiveClaims RunsAfterSuccess DeadlockOnlyOnCycle
  UpstreamOutputVisible
PROPERTY PipelineEnds
CHECK_DEADLOCK FALSE
