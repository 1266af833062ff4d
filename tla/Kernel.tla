------------------------------- MODULE Kernel -------------------------------
(***************************************************************************)
(* Who runs on the CPU of Mi SO (src/interrupts.c): the shell in ring 0, a *)
(* user program in ring 3, the int 0x80 system calls and IRQ0, over the    *)
(* process table of Process.tla.                                           *)
(*                                                                         *)
(* timer_irq_dispatch exchanges the general registers of the processes but *)
(* returns to the instruction it interrupted, so the program executing     *)
(* (stream) and the process whose registers it sees (regs) are separate    *)
(* pieces of state.  A program whose registers were exchanged does nothing *)
(* that is modelled until it gets them back: it waits in hlt, spins or     *)
(* crashes.  The ring-3 stack switch an interrupt needs is taken as given. *)
(***************************************************************************)
EXTENDS Process

CONSTANTS
    NoRegs,     \* the registers create_process writes for a new process
    ForkSize,   \* 0x2000: the memory SYS_FORK gives the child, a MemSizes
    MaxWrite,   \* 200: what SYS_WRITE cuts its length to
    WordSize    \* 2^32

ASSUME KernelAssumption ==
    /\ NoRegs \notin PIDs
    /\ ForkSize \in MemSizes
    /\ 1 \in Seconds    \* what SYS_WAIT sleeps
    /\ MaxWrite \in Nat
    /\ WordSize \in Nat /\ WordSize > 0

VARIABLES
    stream,      \* the program executing: 0 the shell, p what runu p started
    regs,        \* the program whose values the general registers hold
    context,     \* process_table[].context: whose register values are saved
    hung,        \* the system call that loops with interrupts off, if any
    relabelled   \* history: a fork copied, or a yield left behind, registers

cpu == <<stream, regs, context, hung, relabelled>>
kernelVars == <<vars, cpu>>

Words == 0..(WordSize - 1)

\* The calls that can keep the CPU for good.
Calls == {"none", "SYS_WAIT", "SYS_READ"}
InterruptsOn == hung = "none"

KernelInit ==
    /\ Init
    /\ stream = 0
    /\ regs = 0
    /\ context = [p \in PIDs |-> NoRegs]
    /\ hung = "none"
    /\ relabelled = FALSE

(***************************************************************************)
(* IRQ0                                                                    *)
(***************************************************************************)

\* save_context_from_regs of the interrupted process.
SavedContext ==
    IF state[current_pid] = EMPTY THEN context ELSE [context EXCEPT ![current_pid] = regs]

\* Mutants: saving after the tick, into the slot of the process that comes; and
\* not loading the registers of the process that comes.
TimerIRQSavingLate ==
    /\ InterruptsOn
    /\ ProcessTick
    /\ context' = [context EXCEPT ![current_pid'] = regs]
    /\ UNCHANGED <<stream, regs, hung, relabelled>>
TimerIRQNotLoading ==
    /\ InterruptsOn
    /\ ProcessTick
    /\ context' = SavedContext
    /\ UNCHANGED <<stream, regs, hung, relabelled>>

\* timer_irq_dispatch: the stream stays, its registers may go.
TimerIRQ ==
    /\ InterruptsOn
    /\ ProcessTick
    /\ context' = SavedContext
    /\ regs' = IF current_pid' # current_pid THEN SavedContext[current_pid'] ELSE regs
    /\ UNCHANGED <<stream, hung, relabelled>>

(***************************************************************************)
(* Shell commands (src/shell.c)                                            *)
(***************************************************************************)
InShell == stream = 0 /\ regs = 0

\* exec and fork.
ShellCreate(size) ==
    /\ InShell
    /\ CreateProcess(size)
    /\ context' = [context EXCEPT ![next_pid] = NoRegs]
    /\ UNCHANGED <<stream, regs, hung, relabelled>>

\* kill, sleep, priority, wait and yield.
ShellControl ==
    /\ InShell
    /\ \/ \E pid \in PIDs :
             \/ KillProcess(pid)
             \/ \E seconds \in Seconds : SleepProcess(pid, seconds)
       \/ \E pid \in UserPIDs : ReapZombie(pid)
       \/ \E pid \in PIDs, prio \in 0..MaxPriority : SetPriority(pid, prio)
       \/ ShellYield
    /\ UNCHANGED cpu

\* runu: run_user_process and enter_user_mode.  The shell is left for good.
RunU(pid) ==
    /\ InShell
    /\ RunUserProcess(pid)
    /\ stream' = pid
    /\ regs' = pid
    /\ UNCHANGED <<context, hung, relabelled>>

(***************************************************************************)
(* System calls of the user program: int80_stub, syscall_from_regs.  All   *)
(* slots but 0 are USER_MODE.                                              *)
(***************************************************************************)
InUserProgram == stream # 0 /\ regs = stream /\ InterruptsOn /\ current_pid # 0

\* SYS_EXIT, SYS_SLEEP and SYS_SETPRIO.  All three return to the caller.
SysControl ==
    /\ InUserProgram
    /\ \/ KillProcess(current_pid)
       \/ \E seconds \in Seconds : SleepProcess(current_pid, seconds)
       \/ \E pid \in PIDs, prio \in 0..MaxPriority : SetPriority(pid, prio)
    /\ UNCHANGED cpu

\* SYS_FORK: the child gets the registers last saved for the caller, which may
\* be those of create_process.
SysFork ==
    /\ InUserProgram
    /\ CreateProcess(ForkSize)
    /\ context' = [context EXCEPT ![next_pid] = context[current_pid]]
    /\ relabelled' = TRUE
    /\ UNCHANGED <<stream, regs, hung>>

\* Mutant: frees the child's slot without waiting for its end.
SysWaitNot(child) ==
    /\ InUserProgram
    /\ parent_pid[child] = current_pid
    /\ state' = [state EXCEPT ![child] = EMPTY]
    /\ UNCHANGED <<priority, sleep_ticks, wait_ticks, parent_pid, memory,
                   current_pid, next_pid, last_rr_pid, timer_ticks, cpu>>

\* SYS_WAIT for a child that has ended frees its slot; for one that has not it
\* puts the caller to sleep again and again, and no tick can come.
SysWait(child) ==
    /\ InUserProgram
    /\ parent_pid[child] = current_pid
    /\ IF state[child] \in {ZOMBIE, EMPTY}
       THEN /\ state' = [state EXCEPT ![child] = EMPTY]
            /\ UNCHANGED <<priority, sleep_ticks, wait_ticks, parent_pid, memory,
                           current_pid, next_pid, last_rr_pid, timer_ticks, cpu>>
       ELSE /\ IF state[current_pid] = EMPTY THEN UNCHANGED vars
               ELSE SleepProcess(current_pid, 1)
            /\ hung' = "SYS_WAIT"
            /\ UNCHANGED <<stream, regs, context, relabelled>>

\* SYS_YIELD: unlike IRQ0 it does not touch the registers.
SysYieldCall ==
    /\ InUserProgram
    /\ SysYield
    /\ relabelled' = (relabelled \/ current_pid' # current_pid)
    /\ UNCHANGED <<stream, regs, context, hung>>

\* Mutant: without the test for an address that wraps around.
UserPtrOkWrapping(addr, len) ==
    LET start == memory_start[current_pid]
        end == (start + memory_size[current_pid]) % WordSize
    IN /\ addr >= start
       /\ addr < end
       /\ len = 0 \/ (addr + len) % WordSize <= end

\* user_ptr_ok, in 32-bit arithmetic.
UserPtrOk(addr, len) ==
    LET start == memory_start[current_pid]
        end == (start + memory_size[current_pid]) % WordSize
    IN /\ addr >= start
       /\ addr < end
       /\ len = 0 \/ ( /\ (addr + len) % WordSize >= addr
                       /\ (addr + len) % WordSize <= end )

\* The bytes SYS_WRITE may read and SYS_READ writes when their test succeeds:
\* SYS_READ stores one key whatever the length.
WriteTouches(addr, len) ==
    LET max == IF len > MaxWrite THEN MaxWrite ELSE len
    IN IF UserPtrOk(addr, max) THEN addr..(addr + max - 1) ELSE {}
ReadTouches(addr, len) ==
    IF UserPtrOk(addr, len) THEN {addr} ELSE {}

\* SYS_READ with no key in the ring halts with interrupts off; Keyboard.tla.
SysRead(addr, len) ==
    /\ InUserProgram
    /\ ReadTouches(addr, len) # {}
    /\ hung' = "SYS_READ"
    /\ UNCHANGED <<vars, stream, regs, context, relabelled>>

Shell ==
    \/ \E size \in MemSizes : ShellCreate(size)
    \/ ShellControl
    \/ \E pid \in PIDs : RunU(pid)

Syscall ==
    \/ SysControl
    \/ SysFork
    \/ \E child \in UserPIDs : SysWait(child)
    \/ SysYieldCall
    \/ \E addr, len \in Words : SysRead(addr, len)

KernelNext == TimerIRQ \/ Shell \/ Syscall

KernelSpec == KernelInit /\ [][KernelNext]_kernelVars

(***************************************************************************)
(* Properties                                                              *)
(***************************************************************************)

\* Every variable of the CPU keeps its range.
CpuTypeOK ==
    /\ stream \in PIDs
    /\ regs \in PIDs \cup {NoRegs}
    /\ context \in [PIDs -> PIDs \cup {NoRegs}]
    /\ hung \in Calls
    /\ relabelled \in BOOLEAN

\* When the shell runs with its own registers, the table agrees that the kernel
\* process is the current one: exec makes children of pid 0, yield gives up pid
\* 0's turn.  No switch away and back, and no run of other slots, breaks it.
ShellRunsAsKernel == InShell => current_pid = 0

\* A system call acts on the process that issues it (the handlers only know
\* current_pid), as long as no fork copied a context and no yield renamed the
\* caller.
CallsActOnCaller == InUserProgram /\ ~relabelled => current_pid = stream

\* What SYS_WRITE and SYS_READ touch lies in the current process's region and
\* in no other's, for every pointer and length, wrap-around included.
PointersInside ==
    InUserProgram =>
        \A addr, len \in Words : \A byte \in WriteTouches(addr, len) \cup ReadTouches(addr, len) :
            \A p \in 0..(next_pid - 1) :
                byte \in memory_start[p]..(memory_start[p] + memory_size[p] - 1) <=> p = current_pid

\* Every step of the composed system is a step of the process table, or leaves
\* it alone.
ImplementsProcess == Spec

\* A context switch: the program executing sees its own registers.
RegistersBelong == regs = stream
=============================================================================
