\* Two user processes, the smallest timings, words of 12 values.
\* A SYS_WAIT or SYS_READ that hangs stops the machine.
SPECIFICATION KernelSpec
CHECK_DEADLOCK FALSE
CONSTANTS
    MaxProcesses = 3
    Quantum = 2
    AgeLimit = 1
    TicksPerSecond = 1
    MaxPriority = 1
    DefaultPriority = 1
    KernelPriority = 1
    IntMax = 1
    Seconds = {1}
    MemSizes = {2, 3}
    UserBase = 5
    KernelBase = 1
    KernelSize = 4
    NoRegs = noregs
    ForkSize = 3
    MaxWrite = 3
    WordSize = 12
INVARIANTS
    ShellRunsAsKernel
    CallsActOnCaller
    PointersInside
PROPERTIES
    ImplementsProcess
