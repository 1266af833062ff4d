\* The shell and SYS_READ read; a ring of four slots, so three keys fill it.
\* SYS_READ on an empty ring stops the machine.
SPECIFICATION FairSpec
CHECK_DEADLOCK FALSE
CONSTANTS
    Size = 4
    Chars = {a, b}
    Callers = {"shell", "syscall"}
    NoChar = nochar
    Waiting = waiting
INVARIANTS
    TakenKeySafe
PROPERTIES
    ImplementsQueue
    KeyIsDelivered
