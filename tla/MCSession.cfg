CONSTANTS
    Calls <- MCCalls
    Pipeline <- MCPipeline
    MaxCalls = 2
    MaxConns = 2
    MaxKeys = 2
    Cap = 1
    MaxFaults = 1
SPECIFICATION FairSpec
CHECK_DEADLOCK FALSE
INVARIANTS DeliveredAnswersTheCall OnlyBlankIsSilent NoTornCommand
PROPERTIES CommandReturns PipelineServed
