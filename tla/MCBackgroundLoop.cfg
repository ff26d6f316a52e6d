SPECIFICATION FairLoopSpec
CONSTANTS
    Loops <- MCLoops
    Disabled <- MCDisabled
INVARIANTS
    RunningIsAlive
PROPERTIES
    StopReturns
