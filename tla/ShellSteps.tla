----------------------------- MODULE ShellSteps ------------------------------
(***************************************************************************)
(* The shell's process commands (src/shell.c and the functions of          *)
(* process.c and interrupts.c they call) statement by statement: they run  *)
(* with interrupts on, so IRQ0 may come between any two of them.  The      *)
(* atomic commands of Process.tla are what they amount to when it does     *)
(* not.                                                                    *)
(*                                                                         *)
(* The build (-O0) keeps locals in the stack frame, so what a register     *)
(* exchange by IRQ0 takes from the shell is its frame pointer: a saved     *)
(* context is the frame it points to.  A shell with another frame than its *)
(* own does nothing that is modelled until it gets its own back.           *)
(***************************************************************************)
EXTENDS Process

CONSTANTS
    Commands,   \* the commands typed, a subset of AllCommands
    MaxPolls    \* 1000: how often wait looks before it gives up

AllCommands == {"exec", "kill", "sleep", "priority", "wait", "yield", "runu"}

ASSUME ShellAssumption ==
    /\ Commands \subseteq AllCommands
    /\ MaxPolls \in Nat

VARIABLES
    pc,        \* the statement the shell is about to execute
    pid,       \* the local of that name
    arg,       \* the second number of the command, or wait's count
    regs,      \* the frame the registers point to
    context,   \* process_table[].context: the frame saved, or one of the below
    hit        \* history: the windows of commands in which a tick came

shell == <<pc, pid, arg>>
stepVars == <<vars, shell, regs, context, hit>>

\* Frames: get_key's while the shell waits for a line, execute_command's, that
\* of a function it calls, the ring-3 program's, and none (a zero).
Frames == {"line", "execute", "callee", "user", "zero"}

\* A context never written (valid is 0), and the one create_process writes: zero
\* registers and a stack pointer into the process's own memory.  In a context
\* saved by a tick the stack pointer is that of the interrupted stack.
Invalid == "invalid"
Fresh == "fresh"

Creating == {"priority", "wait_ticks", "parent_pid", "context", "next_pid"}
Entering == {"runu", "stop", "current_pid", "RUNNING", "jump"}
Callee == Creating \cup Entering \cup
          {"create", "kill", "ZOMBIE", "sleep", "SLEEP", "sleep_ticks"}
Execute == {"setprio", "prio", "poll", "verdict", "ended", "timeout", "yield"}

Frame(at) ==
    CASE at = "line" -> "line"
      [] at \in Callee -> "callee"
      [] at \in Execute -> "execute"
      [] at = "user" -> "user"

StepInit ==
    /\ Init
    /\ pc = "line" /\ pid = 0 /\ arg = 0
    /\ regs = "line"
    /\ context = [p \in PIDs |-> Invalid]
    /\ hit = {}

\* A statement: the shell, with its own frame, goes from one place to the next.
\* The locals are gone when the command is.
Step(from, to) ==
    /\ pc = from /\ regs = Frame(from)
    /\ pc' = to /\ regs' = Frame(to)
    /\ IF to = "line" THEN pid' = 0 /\ arg' = 0 ELSE UNCHANGED <<pid, arg>>

\* What the statements that store into a slot leave alone.
Globals == <<current_pid, next_pid, last_rr_pid, timer_ticks, context, hit>>

(***************************************************************************)
(* The command line                                                        *)
(***************************************************************************)
First == [exec |-> "create", kill |-> "kill", sleep |-> "sleep", priority |-> "setprio",
          wait |-> "poll", yield |-> "yield", runu |-> "runu"]

\* The pid a command names, and its other number: exec's is the size it passes.
Named(c) ==
    CASE c \in {"exec", "yield"} -> {0}
      [] c = "wait" -> UserPIDs
      [] OTHER -> PIDs
Numbers(c) ==
    CASE c = "exec" -> MemSizes
      [] c = "sleep" -> Seconds
      [] c = "priority" -> 0..MaxPriority
      [] OTHER -> {0}

ReadCommand ==
    /\ pc = "line" /\ regs = "line"
    /\ \E c \in Commands :
          /\ pc' = First[c]
          /\ regs' = Frame(First[c])
          /\ pid' \in Named(c)
          /\ arg' \in Numbers(c)
    /\ UNCHANGED <<vars, context, hit>>

\* A test that ends in an error message and the next command line.
Test(from, holds, to) ==
    /\ Step(from, IF holds THEN to ELSE "line")
    /\ UNCHANGED <<vars, context, hit>>

\* A store of s into the state of slot p.
StoreState(from, p, s, to) ==
    /\ Step(from, to)
    /\ state' = [state EXCEPT ![p] = s]
    /\ UNCHANGED <<priority, sleep_ticks, wait_ticks, parent_pid, memory, Globals>>

(***************************************************************************)
(* exec and fork: create_process                                           *)
(***************************************************************************)
\* Mutant: counts the slot as handed out before it is filled in.
ClaimAndPublish ==
    /\ pc = "create" /\ regs = Frame(pc) /\ next_pid < MaxProcesses
    /\ pc' = "priority" /\ UNCHANGED regs
    /\ pid' = next_pid
    /\ state' = [state EXCEPT ![next_pid] = READY]
    /\ next_pid' = next_pid + 1
    /\ UNCHANGED <<priority, sleep_ticks, wait_ticks, parent_pid, memory, current_pid,
                   last_rr_pid, timer_ticks, context, hit, arg>>

Claim ==
    /\ pc = "create" /\ regs = Frame(pc) /\ next_pid < MaxProcesses
    /\ pc' = "priority" /\ UNCHANGED regs
    /\ pid' = next_pid
    /\ state' = [state EXCEPT ![next_pid] = READY]
    /\ UNCHANGED <<priority, sleep_ticks, wait_ticks, parent_pid, memory, Globals, arg>>

TableFull == next_pid = MaxProcesses /\ Test("create", FALSE, "line")

FillPriority ==
    /\ Step("priority", "wait_ticks")
    /\ priority' = [priority EXCEPT ![pid] = DefaultPriority]
    /\ memory_size' = [memory_size EXCEPT ![pid] = arg]
    /\ sleep_ticks' = [sleep_ticks EXCEPT ![pid] = 0]
    /\ UNCHANGED <<state, wait_ticks, parent_pid, memory_start, Globals>>

FillWait ==
    /\ Step("wait_ticks", "parent_pid")
    /\ wait_ticks' = [wait_ticks EXCEPT ![pid] = 0]
    /\ UNCHANGED <<state, priority, sleep_ticks, parent_pid, memory, Globals>>

FillParent ==
    /\ Step("parent_pid", "context")
    /\ parent_pid' = [parent_pid EXCEPT ![pid] = current_pid]
    /\ memory_start' = [memory_start EXCEPT ![pid] = NextBase(pid)]
    /\ UNCHANGED <<state, priority, sleep_ticks, wait_ticks, memory_size, Globals>>

FillContext ==
    /\ Step("context", "next_pid")
    /\ context' = [context EXCEPT ![pid] = Fresh]
    /\ UNCHANGED <<vars, hit>>

Publish ==
    /\ Step("next_pid", "line")
    /\ next_pid' = next_pid + 1
    /\ UNCHANGED <<table, memory, current_pid, last_rr_pid, timer_ticks, context, hit>>

CreateStep ==
    Claim \/ TableFull \/ FillPriority \/ FillWait \/ FillParent \/ FillContext \/ Publish

(***************************************************************************)
(* kill, sleep, priority, yield                                            *)
(***************************************************************************)
KillStep ==
    \/ Test("kill", IsUserProcess(pid), "ZOMBIE")
    \/ StoreState("ZOMBIE", pid, ZOMBIE, "line")

\* Mutant: stores the time into the slot of the process that asks.
StoreOwnSleepTicks ==
    /\ Step("sleep_ticks", "line")
    /\ sleep_ticks' = [sleep_ticks EXCEPT ![current_pid] = WrapInt(arg * TicksPerSecond)]
    /\ UNCHANGED <<state, priority, wait_ticks, parent_pid, memory, Globals>>

StoreSleepTicks ==
    /\ Step("sleep_ticks", "line")
    /\ sleep_ticks' = [sleep_ticks EXCEPT ![pid] = WrapInt(arg * TicksPerSecond)]
    /\ UNCHANGED <<state, priority, wait_ticks, parent_pid, memory, Globals>>

SleepStep ==
    \/ Test("sleep", IsUserProcess(pid), "SLEEP")
    \/ StoreState("SLEEP", pid, SLEEP, "sleep_ticks")
    \/ StoreSleepTicks

StorePriority ==
    /\ Step("prio", "line")
    /\ priority' = [priority EXCEPT ![pid] = arg]
    /\ UNCHANGED <<state, sleep_ticks, wait_ticks, parent_pid, memory, Globals>>

PriorityStep ==
    \/ Test("setprio", state[pid] # EMPTY, "prio")
    \/ StorePriority

YieldStep == StoreState("yield", current_pid, READY, "line")

(***************************************************************************)
(* wait                                                                    *)
(***************************************************************************)
Poll ==
    /\ pc = "poll" /\ arg < MaxPolls /\ state[pid] \notin {ZOMBIE, EMPTY}
    /\ regs = Frame(pc)
    /\ arg' = arg + 1
    /\ UNCHANGED <<vars, pc, pid, regs, context, hit>>

StopPolling ==
    /\ state[pid] \in {ZOMBIE, EMPTY} \/ arg = MaxPolls
    /\ Test("poll", TRUE, "verdict")

\* Mutant: takes a process that does not want the CPU for one that has ended.
WaitStepForIdle ==
    \/ Poll
    \/ StopPolling
    \/ Test("verdict", TRUE, IF state[pid] \notin {READY, RUNNING} THEN "ended" ELSE "timeout")
    \/ StoreState("ended", pid, EMPTY, "line")
    \/ Test("timeout", TRUE, "line")

\* The two messages: the process ended and its slot is about to be freed, or
\* "Timeout esperando proceso".
WaitStep ==
    \/ Poll
    \/ StopPolling
    \/ Test("verdict", TRUE, IF state[pid] = ZOMBIE THEN "ended" ELSE "timeout")
    \/ StoreState("ended", pid, EMPTY, "line")
    \/ Test("timeout", TRUE, "line")

(***************************************************************************)
(* runu: run_user_process                                                  *)
(***************************************************************************)
\* Mutant: the old current process stays RUNNING.
StopNobody == Test("stop", TRUE, "current_pid")

StopCurrent ==
    /\ Step("stop", "current_pid")
    /\ state' = Preempted(state)
    /\ UNCHANGED <<priority, sleep_ticks, wait_ticks, parent_pid, memory, Globals>>

SetCurrent ==
    /\ Step("current_pid", "RUNNING")
    /\ current_pid' = pid
    /\ UNCHANGED <<table, memory, next_pid, last_rr_pid, timer_ticks, context, hit>>

\* The last is enter_user_mode, on the stack the context names.  The shell is
\* left for good, and what follows is Kernel.tla's.
RunStep ==
    \/ Test("runu", IsUserProcess(pid) /\ context[pid] # Invalid, "stop")
    \/ StopCurrent
    \/ SetCurrent
    \/ StoreState("RUNNING", current_pid, RUNNING, "jump")
    \/ Test("jump", TRUE, "user")

(***************************************************************************)
(* IRQ0                                                                    *)
(***************************************************************************)
\* save_context_from_regs of the interrupted process.
Save ==
    IF state[current_pid] = EMPTY THEN context ELSE [context EXCEPT ![current_pid] = regs]

\* Mutant: the interrupted registers stay.
LoadNothing == regs

\* load_context_to_regs, of the process that comes if there is one.
Load ==
    IF current_pid' = current_pid \/ Save[current_pid'] = Invalid THEN regs
    ELSE IF Save[current_pid'] = Fresh THEN "zero" ELSE Save[current_pid']

\* The window a tick falls into.
Window ==
    CASE pc \in Creating -> {"create"}
      [] pc \in Entering -> {"run"}
      [] OTHER -> {}

\* timer_irq_dispatch, as long as the shell has not left.
TimerIRQ ==
    /\ pc # "user"
    /\ ProcessTick
    /\ context' = Save
    /\ regs' = Load
    /\ hit' = hit \cup Window
    /\ UNCHANGED <<pc, pid, arg>>

ShellStep ==
    ReadCommand \/ CreateStep \/ KillStep \/ SleepStep \/ PriorityStep \/ YieldStep
    \/ WaitStep \/ RunStep

StepNext == ShellStep \/ TimerIRQ

StepSpec == StepInit /\ [][StepNext]_stepVars

(***************************************************************************)
(* Properties                                                              *)
(***************************************************************************)
\* Unless a tick fell into run_user_process only the current process is RUNNING,
\* inside commands too: a command that was interrupted, its process dispatched,
\* killed or freed meanwhile, leaves no second one.
OneRunsBetweenStores ==
    "run" \notin hit => OnlyCurrentRuns

\* The instruction-level form of ShellRunsAsKernel: unless a tick saw a process
\* half created, a shell that can execute is process 0, so yield, exec and fork
\* act for the process that calls them.
ExecutesAsKernel ==
    "create" \notin hit /\ pc \notin {"RUNNING", "jump", "user"} /\ regs = Frame(pc)
        => current_pid = 0

\* The count of a sleeper is positive whenever a tick can see it, except
\* between sleep_process's two stores on its slot.
SleepersAreTimed ==
    \A p \in PIDs :
        state[p] = SLEEP => sleep_ticks[p] > 0 \/ (pc = "sleep_ticks" /\ pid = p)

\* exec and fork make children of older processes unless a tick saw the process
\* half created, and every process they have returned from has registers.
ChildrenComplete ==
    /\ "create" \notin hit => ParentIsOlder
    /\ \A p \in 1..(next_pid - 1) : context[p] # Invalid

\* wait frees only a process that has ended: what it saw when it left its loop
\* still holds when it stores PROC_EMPTY, whatever a tick between the two did.
WaitFreesTheEnded == pc = "ended" => state[pid] \in {ZOMBIE, EMPTY}
=============================================================================
