\* The kernel and two users: every operation, quanta and aging of two ticks,
\* sleeps of two ticks, two priorities; and a timer that keeps ticking.
SPECIFICATION FairSpec
CONSTANTS
    MaxProcesses = 3
    Quantum = 2
    AgeLimit = 2
    TicksPerSecond = 2
    MaxPriority = 1
    DefaultPriority = 1
    KernelPriority = 1
    IntMax = 3
    Seconds = {1}
    MemSizes = {1}
    UserBase = 5
    KernelBase = 1
    KernelSize = 4
INVARIANTS
    TypeOK
    OnlyCurrentRuns
    KernelAlive
    ParentIsOlder
PROPERTIES
    DispatchesBest
    SleepersWakeOnTime
    UsersEventuallyRun
    KernelSharesCPU
