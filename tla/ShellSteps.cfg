\* Every command, a tick before any statement; one priority, so the processes
\* take turns.  runu ends the run.
SPECIFICATION StepSpec
CHECK_DEADLOCK FALSE
CONSTANTS
    MaxProcesses = 3
    Quantum = 2
    AgeLimit = 1
    TicksPerSecond = 1
    MaxPriority = 0
    DefaultPriority = 0
    KernelPriority = 0
    IntMax = 1
    Seconds = {1}
    MemSizes = {1}
    UserBase = 5
    KernelBase = 1
    KernelSize = 4
    Commands = {"exec", "kill", "sleep", "priority", "wait", "yield", "runu"}
    MaxPolls = 1
INVARIANTS
    ExecutesAsKernel
    OneRunsBetweenStores
    SleepersAreTimed
    ChildrenComplete
    WaitFreesTheEnded
