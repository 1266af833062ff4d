------------------------------- MODULE Process -------------------------------
(***************************************************************************)
(* The process table and scheduler of Mi SO (src/process.c), together with *)
(* the writes other files make to the table (the shell's yield, wait and   *)
(* priority commands, run_user_process and the system calls).              *)
(*                                                                         *)
(* Every operation is one action: an IRQ handler or a system call runs     *)
(* with interrupts off, and here a shell command is not preempted either.  *)
(* Any operation may be called at any time, whoever is current; Kernel.tla *)
(* says which program issues which call.                                   *)
(***************************************************************************)
EXTENDS Integers, Functions

CONSTANTS
    MaxProcesses,     \* MAX_PROCESSES (10): slots of process_table
    Quantum,          \* 10: a dispatch every Quantum timer ticks
    AgeLimit,         \* 50: READY ticks after which a priority improves
    TicksPerSecond,   \* 100: factor from seconds to ticks in sleep_process
    MaxPriority,      \* 9: the worst priority; 0 is the best
    DefaultPriority,  \* 5: priority of a new process
    KernelPriority,   \* 1: priority of pid 0
    IntMax,           \* 2^31 - 1: largest C int
    Seconds,          \* the sleeping times callers ask for (positive ints)
    MemSizes,         \* the sizes callers ask for (4096 by exec, 0x2000 by fork)
    UserBase,         \* 0x10000: where the first user process is placed
    KernelBase,       \* 0x1000: memory_start of pid 0
    KernelSize        \* 0x7000: memory_size of pid 0

ASSUME ProcessAssumption ==
    /\ MaxProcesses \in Nat /\ MaxProcesses > 1
    /\ Quantum \in Nat /\ Quantum > 0
    /\ AgeLimit \in Nat /\ AgeLimit > 0
    /\ TicksPerSecond \in Nat /\ TicksPerSecond > 0
    /\ MaxPriority \in Nat
    /\ DefaultPriority \in 0..MaxPriority
    /\ KernelPriority \in 0..MaxPriority
    /\ IntMax \in Nat /\ IntMax > 0
    /\ Seconds \subseteq 1..IntMax
    /\ MemSizes \subseteq Nat \ {0}
    /\ UserBase \in Nat /\ KernelBase \in Nat /\ KernelSize \in Nat
    /\ KernelBase + KernelSize <= UserBase

VARIABLES
    state,          \* process_table[].state
    priority,       \* process_table[].priority
    sleep_ticks,    \* process_table[].sleep_ticks
    wait_ticks,     \* process_table[].wait_ticks
    parent_pid,     \* process_table[].parent_pid
    memory_start,   \* process_table[].memory_start
    memory_size,    \* process_table[].memory_size
    current_pid,
    next_pid,
    last_rr_pid,    \* where get_best_process ended its last round
    timer_ticks     \* timer_ticks modulo Quantum, all that process.c reads of it

table == <<state, priority, sleep_ticks, wait_ticks, parent_pid>>
memory == <<memory_start, memory_size>>
vars == <<table, memory, current_pid, next_pid, last_rr_pid, timer_ticks>>

PIDs == 0..(MaxProcesses - 1)
UserPIDs == 1..(MaxProcesses - 1)

EMPTY == "EMPTY"      \* PROC_EMPTY
RUNNING == "RUNNING"  \* PROC_RUNNING
READY == "READY"      \* PROC_READY
SLEEP == "SLEEP"      \* PROC_SLEEP
ZOMBIE == "ZOMBIE"    \* PROC_ZOMBIE
\* PROC_BLOCKED is never assigned by the code.
States == {EMPTY, RUNNING, READY, SLEEP, ZOMBIE}

Int32 == (-IntMax - 1)..IntMax
\* What a 32-bit int holds after an operation whose exact result is n.
WrapInt(n) == ((n + IntMax + 1) % (2 * IntMax + 2)) - IntMax - 1

(***************************************************************************)
(* init_process_table                                                      *)
(***************************************************************************)
Init ==
    /\ state = [p \in PIDs |-> IF p = 0 THEN RUNNING ELSE EMPTY]
    /\ priority = [p \in PIDs |-> IF p = 0 THEN KernelPriority ELSE 0]
    /\ sleep_ticks = [p \in PIDs |-> 0]
    /\ wait_ticks = [p \in PIDs |-> 0]
    /\ parent_pid = [p \in PIDs |-> -1]
    /\ memory_start = [p \in PIDs |-> IF p = 0 THEN KernelBase ELSE 0]
    /\ memory_size = [p \in PIDs |-> IF p = 0 THEN KernelSize ELSE 0]
    /\ current_pid = 0
    /\ next_pid = 1
    /\ last_rr_pid = 0
    /\ timer_ticks = 0

(***************************************************************************)
(* Operations on the table                                                 *)
(***************************************************************************)

\* The address create_process computes: after every slot below pid, reaped
\* slots included, since reaping leaves memory_size alone.
NextBase(pid) == UserBase + FoldFunctionOnSet(+, 0, memory_size, 1..(pid - 1))

\* create_process: called by the shell's exec and fork and by SYS_FORK.  With
\* no slot left it reports an error and changes nothing.
CreateProcess(size) ==
    /\ next_pid < MaxProcesses
    /\ state' = [state EXCEPT ![next_pid] = READY]
    /\ priority' = [priority EXCEPT ![next_pid] = DefaultPriority]
    /\ sleep_ticks' = [sleep_ticks EXCEPT ![next_pid] = 0]
    /\ wait_ticks' = [wait_ticks EXCEPT ![next_pid] = 0]
    /\ parent_pid' = [parent_pid EXCEPT ![next_pid] = current_pid]
    /\ memory_size' = [memory_size EXCEPT ![next_pid] = size]
    /\ memory_start' = [memory_start EXCEPT ![next_pid] = NextBase(next_pid)]
    /\ next_pid' = next_pid + 1
    /\ UNCHANGED <<current_pid, last_rr_pid, timer_ticks>>

\* Mutants: without the test of pid 0, without the test of PROC_EMPTY.
IsAnyProcess(pid) == pid \in PIDs /\ state[pid] # EMPTY
IsAnyUserSlot(pid) == pid \in UserPIDs

\* The guard kill_process, sleep_process and run_user_process share: a used
\* slot, not the kernel.
IsUserProcess(pid) == pid \in UserPIDs /\ state[pid] # EMPTY

\* kill_process: the kill command, and SYS_EXIT on current_pid.
KillProcess(pid) ==
    /\ IsUserProcess(pid)
    /\ state' = [state EXCEPT ![pid] = ZOMBIE]
    /\ UNCHANGED <<priority, sleep_ticks, wait_ticks, parent_pid, memory,
                   current_pid, next_pid, last_rr_pid, timer_ticks>>

\* Mutant: leaves sleep_ticks to whatever it was.
SleepProcessUntimed(pid, seconds) ==
    /\ IsUserProcess(pid)
    /\ state' = [state EXCEPT ![pid] = SLEEP]
    /\ UNCHANGED <<priority, sleep_ticks, wait_ticks, parent_pid, memory,
                   current_pid, next_pid, last_rr_pid, timer_ticks>>

\* sleep_process: the sleep command, and SYS_SLEEP on current_pid.
SleepProcess(pid, seconds) ==
    /\ IsUserProcess(pid)
    /\ state' = [state EXCEPT ![pid] = SLEEP]
    /\ sleep_ticks' = [sleep_ticks EXCEPT ![pid] = WrapInt(seconds * TicksPerSecond)]
    /\ UNCHANGED <<priority, wait_ticks, parent_pid, memory,
                   current_pid, next_pid, last_rr_pid, timer_ticks>>

\* The priority command and SYS_SETPRIO.
SetPriority(pid, prio) ==
    /\ state[pid] # EMPTY
    /\ priority' = [priority EXCEPT ![pid] = prio]
    /\ UNCHANGED <<state, sleep_ticks, wait_ticks, parent_pid, memory,
                   current_pid, next_pid, last_rr_pid, timer_ticks>>

\* The end of the wait command and of SYS_WAIT, once the child is a zombie.
ReapZombie(pid) ==
    /\ state[pid] = ZOMBIE
    /\ state' = [state EXCEPT ![pid] = EMPTY]
    /\ UNCHANGED <<priority, sleep_ticks, wait_ticks, parent_pid, memory,
                   current_pid, next_pid, last_rr_pid, timer_ticks>>

\* The yield command marks the current slot READY, whatever it was, and leaves
\* the dispatch to the timer.
ShellYield ==
    /\ state' = [state EXCEPT ![current_pid] = READY]
    /\ UNCHANGED <<priority, sleep_ticks, wait_ticks, parent_pid, memory,
                   current_pid, next_pid, last_rr_pid, timer_ticks>>

\* A running current process goes back to READY.
Preempted(st) ==
    [st EXCEPT ![current_pid] = IF @ = RUNNING THEN READY ELSE @]

\* Mutant: the process that was running stays RUNNING.
RunUserProcessBeside(pid) ==
    /\ IsUserProcess(pid)
    /\ state' = [state EXCEPT ![pid] = RUNNING]
    /\ current_pid' = pid
    /\ UNCHANGED <<priority, sleep_ticks, wait_ticks, parent_pid, memory,
                   next_pid, last_rr_pid, timer_ticks>>

\* run_user_process, up to the jump to user mode.
RunUserProcess(pid) ==
    /\ IsUserProcess(pid)
    /\ state' = [Preempted(state) EXCEPT ![pid] = RUNNING]
    /\ current_pid' = pid
    /\ UNCHANGED <<priority, sleep_ticks, wait_ticks, parent_pid, memory,
                   next_pid, last_rr_pid, timer_ticks>>

(***************************************************************************)
(* process_tick, on table states st                                        *)
(***************************************************************************)
SleepLeft(st) ==
    [p \in PIDs |-> IF st[p] = SLEEP THEN WrapInt(sleep_ticks[p] - 1) ELSE sleep_ticks[p]]

\* Sleepers whose time is over become READY; zombies free their slot.
WokenAndReaped(st) ==
    [p \in PIDs |-> IF st[p] = SLEEP /\ SleepLeft(st)[p] <= 0 THEN READY
                    ELSE IF st[p] = ZOMBIE /\ p # 0 THEN EMPTY
                    ELSE st[p]]

\* wait_ticks before aging: waking and reaping restart the count.
Restarted(st) ==
    [p \in PIDs |-> IF WokenAndReaped(st)[p] # st[p] THEN 0 ELSE wait_ticks[p]]

\* The kernel, pid 0, does not age.
Waits(st, p) == p # 0 /\ WokenAndReaped(st)[p] = READY
Ages(st, p) == Waits(st, p) /\ Restarted(st)[p] + 1 >= AgeLimit

AgedWait(st) ==
    [p \in PIDs |-> IF Ages(st, p) THEN 0
                    ELSE IF Waits(st, p) THEN Restarted(st)[p] + 1
                    ELSE Restarted(st)[p]]

\* Mutants: aging below 0, and no aging.
AgedPriorityUnbounded(st) ==
    [p \in PIDs |-> IF Ages(st, p) THEN priority[p] - 1 ELSE priority[p]]
UnagedPriority(st) == [p \in PIDs |-> priority[p]]

AgedPriority(st) ==
    [p \in PIDs |-> IF Ages(st, p) /\ priority[p] > 0 THEN priority[p] - 1
                    ELSE priority[p]]

\* Mutant: starts the round with the process that ended the last one.
DistanceFromLast(p) == (p + MaxProcesses - last_rr_pid) % MaxProcesses

\* Slots from the one after last_rr_pid to p, in the order of the round.
Distance(p) == (p + MaxProcesses - 1 - last_rr_pid) % MaxProcesses

\* Mutant: a round robin that ignores priorities.
FirstReady(st, prio) ==
    {p \in PIDs : /\ st[p] = READY
                  /\ \A q \in PIDs : st[q] = READY => Distance(p) <= Distance(q)}

\* get_best_process: READY slots of the best priority, first in the round.
\* A singleton, or empty when nothing is READY.
BestProcess(st, prio) ==
    LET ready == {p \in PIDs : st[p] = READY /\ prio[p] <= MaxPriority}
    IN {p \in ready : \A q \in ready :
            \/ prio[p] < prio[q]
            \/ prio[p] = prio[q] /\ Distance(p) <= Distance(q)}

\* The end of a quantum.
Dispatch(st, prio, wait) ==
    IF BestProcess(st, prio) = {}
    THEN /\ state' = st
         /\ wait_ticks' = wait
         /\ UNCHANGED <<current_pid, last_rr_pid>>
    ELSE \E p \in BestProcess(st, prio) :
            /\ last_rr_pid' = p
            /\ current_pid' = p
            /\ state' = [st EXCEPT ![p] = RUNNING]
            /\ wait_ticks' = [wait EXCEPT ![p] = 0]

EndOfQuantum == timer_ticks + 1 = Quantum

TickFrom(st) ==
    /\ timer_ticks' = IF EndOfQuantum THEN 0 ELSE timer_ticks + 1
    /\ sleep_ticks' = SleepLeft(st)
    /\ priority' = AgedPriority(st)
    /\ \/ /\ EndOfQuantum
          /\ Dispatch(Preempted(WokenAndReaped(st)), AgedPriority(st), AgedWait(st))
       \/ /\ ~EndOfQuantum
          /\ state' = WokenAndReaped(st)
          /\ wait_ticks' = AgedWait(st)
          /\ UNCHANGED <<current_pid, last_rr_pid>>
    /\ UNCHANGED <<parent_pid, memory, next_pid>>

\* process_tick, called by IRQ0.
ProcessTick == TickFrom(state)

\* SYS_YIELD: gives up the CPU, then runs a whole tick.
SysYield ==
    /\ current_pid # 0
    /\ TickFrom([state EXCEPT ![current_pid] = READY])

Command ==
    \/ \E size \in MemSizes : CreateProcess(size)
    \/ \E pid \in PIDs :
          \/ KillProcess(pid)
          \/ \E seconds \in Seconds : SleepProcess(pid, seconds)
          \/ RunUserProcess(pid)
    \/ \E pid \in UserPIDs : ReapZombie(pid)
    \/ \E pid \in PIDs, prio \in 0..MaxPriority : SetPriority(pid, prio)
    \/ ShellYield
    \/ SysYield

Next == ProcessTick \/ Command

Spec == Init /\ [][Next]_vars

\* IRQ0 keeps coming: the PIT is never stopped and handlers end with iret.
FairSpec == Spec /\ WF_vars(ProcessTick)

(***************************************************************************)
(* Properties                                                              *)
(***************************************************************************)

\* Every variable keeps the range the code gives it: priorities stay in the
\* range get_best_process searches, a waiting count below AgeLimit, and the
\* pids in use inside the table.
TypeOK ==
    /\ state \in [PIDs -> States]
    /\ priority \in [PIDs -> 0..MaxPriority]
    /\ sleep_ticks \in [PIDs -> Int32]
    /\ wait_ticks \in [PIDs -> 0..(AgeLimit - 1)]
    /\ parent_pid \in [PIDs -> -1..(MaxProcesses - 1)]
    /\ memory_size \in [PIDs -> Nat]
    /\ current_pid \in PIDs
    /\ next_pid \in 1..MaxProcesses
    /\ last_rr_pid \in PIDs
    /\ timer_ticks \in 0..(Quantum - 1)

\* There is one CPU: whatever mix of ticks, yields, kills and run_user_process
\* calls happened, the only slot that can be RUNNING is current_pid.
OnlyCurrentRuns == \A p \in PIDs : state[p] = RUNNING => p = current_pid

\* No sequence of calls kills, sleeps or frees the kernel: slot 0 is always
\* RUNNING or READY, so get_best_process always has a candidate.
KernelAlive == state[0] \in {RUNNING, READY}

\* Slots are handed out in order: those from next_pid on were never filled, so
\* neither current_pid nor a parent link can name one.
UncreatedSlotsUnused ==
    /\ current_pid < next_pid
    /\ \A p \in PIDs : p >= next_pid => state[p] = EMPTY /\ parent_pid[p] = -1

\* The parent links of created processes form a tree rooted at the kernel: a
\* parent has a smaller pid than its child, so SYS_GETPPID chains end at 0.
ParentIsOlder ==
    \A p \in 1..(next_pid - 1) : parent_pid[p] \in 0..(p - 1)

\* When a quantum ends, the process put on the CPU is RUNNING and no process
\* left READY has a better (smaller) priority, as aged by this same tick.
DispatchesBest ==
    [][(ProcessTick \/ SysYield) /\ EndOfQuantum
        => /\ state'[current_pid'] = RUNNING
           /\ \A p \in PIDs : state'[p] = READY => priority'[current_pid'] <= priority'[p]
      ]_vars

\* A sleeper that the tick wakes has counted down to its last tick: nobody
\* wakes early.  It holds as long as seconds * TicksPerSecond fits an int.
SleepersWakeOnTime ==
    [][\A p \in PIDs :
          state[p] = SLEEP /\ state'[p] = READY /\ sleep_ticks'[p] # sleep_ticks[p]
              => sleep_ticks[p] = 1]_vars

\* From some point on no command and no system call is issued.
Quiet == <>[][ProcessTick]_vars

\* Aging and the round robin do their work for user processes: once commands
\* stop, each of them is dispatched again and again, whatever its priority and
\* whether it sleeps (or was killed by the last of the commands).
UsersEventuallyRun ==
    Quiet => \A p \in UserPIDs : []<>(state[p] \in {RUNNING, ZOMBIE, EMPTY})

\* The kernel process, which runs the shell and does not age, takes its turns in
\* the round robin too, as long as no user process has a better priority in the
\* end.  (Users age past it, and then it starves.)
KernelSharesCPU ==
    Quiet /\ <>[](\A p \in UserPIDs : state[p] # EMPTY => priority[p] >= priority[0])
        => []<>(state[0] = RUNNING)
=============================================================================
