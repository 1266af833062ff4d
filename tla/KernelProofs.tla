---------------------------- MODULE KernelProofs -----------------------------
(***************************************************************************)
(* The composed system uses the process table only as Process.tla allows,  *)
(* so every theorem of ProcessProofs holds of it, and the registers keep   *)
(* the shell and the callers of system calls where the table says they     *)
(* are.                                                                    *)
(***************************************************************************)
EXTENDS Kernel, ProcessProofs

\* Where the values of pid 0 and of each process can be.  The second part needs
\* that no fork copied and no yield renamed.
ContextsInPlace ==
    /\ regs = 0 => current_pid = 0
    /\ \A p \in PIDs : context[p] = 0 => p = 0
    /\ ~relabelled => /\ regs \in {current_pid, NoRegs}
                      /\ \A p \in PIDs : context[p] \in {p, NoRegs}

\* The inductive invariant of the composition.
KInv == IInv /\ CpuTypeOK /\ ContextsInPlace

(***************************************************************************)
(* The composition implements the process table                            *)
(***************************************************************************)

\* Whatever the CPU does, the table makes one of its own steps.
LEMMA StepIsTableStep ==
  ASSUME KInv, [KernelNext]_kernelVars
  PROVE  [Next]_vars
<1>0. UserPIDs \subseteq PIDs
  BY ProcessAssumption DEF UserPIDs, PIDs
<1>1. CASE UNCHANGED kernelVars
  BY <1>1 DEF kernelVars
<1>2. CASE TimerIRQ
  BY <1>2 DEF TimerIRQ, Next
<1>3. CASE Shell
  <2>1. CASE \E size \in MemSizes : ShellCreate(size)
    BY <2>1 DEF ShellCreate, Next, Command
  <2>2. CASE ShellControl
    BY <2>2 DEF ShellControl, Next, Command
  <2>3. CASE \E pid \in PIDs : RunU(pid)
    BY <2>3 DEF RunU, Next, Command
  <2> QED
    BY <1>3, <2>1, <2>2, <2>3 DEF Shell
<1>4. CASE Syscall
  <2>1. CASE SysControl
    <3>1. CASE KillProcess(current_pid)
      BY <3>1, <1>0 DEF KillProcess, IsUserProcess, Next, Command
    <3>2. CASE \E seconds \in Seconds : SleepProcess(current_pid, seconds)
      BY <3>2, <1>0 DEF SleepProcess, IsUserProcess, Next, Command
    <3>3. CASE \E pid \in PIDs, prio \in 0..MaxPriority : SetPriority(pid, prio)
      BY <3>3 DEF Next, Command
    <3> QED
      BY <2>1, <3>1, <3>2, <3>3 DEF SysControl
  <2>2. CASE SysFork
    BY <2>2, KernelAssumption DEF SysFork, Next, Command
  <2>3. ASSUME NEW child \in UserPIDs, SysWait(child)
        PROVE  [Next]_vars
    <3>1. CASE state[child] = ZOMBIE
      BY <2>3, <3>1 DEF SysWait, ReapZombie, Next, Command
    <3>2. CASE state[child] = EMPTY
      <4>1. state' = state
        BY <2>3, <3>2 DEF SysWait, KInv, IInv, TypeOK
      <4> QED
        BY <2>3, <3>2, <4>1 DEF SysWait, vars, table
    <3>3. CASE state[child] \notin {ZOMBIE, EMPTY}
      <4>1. UNCHANGED vars \/ SleepProcess(current_pid, 1)
        BY <2>3, <3>3 DEF SysWait
      <4>2. SleepProcess(current_pid, 1) => Next
        BY <1>0, KernelAssumption DEF SleepProcess, IsUserProcess, Next, Command
      <4> QED
        BY <4>1, <4>2
    <3> QED
      BY <3>1, <3>2, <3>3
  <2>4. CASE SysYieldCall
    BY <2>4 DEF SysYieldCall, Next, Command
  <2>5. CASE \E addr, len \in Words : SysRead(addr, len)
    BY <2>5 DEF SysRead
  <2> QED
    BY <1>4, <2>1, <2>2, <2>3, <2>4, <2>5 DEF Syscall
<1> QED
  BY <1>1, <1>2, <1>3, <1>4 DEF KernelNext

(***************************************************************************)
(* Registers and contexts stay in place                                    *)
(***************************************************************************)

\* A step that touches neither the registers, the contexts nor current_pid, and
\* records no relabelling.
LEMMA QuietStep ==
  ASSUME CpuTypeOK, ContextsInPlace, stream' \in PIDs, hung' \in Calls,
         UNCHANGED <<regs, context, current_pid, relabelled>>
  PROVE  CpuTypeOK' /\ ContextsInPlace'
BY DEF CpuTypeOK, ContextsInPlace

\* IRQ0 saves the registers in the slot of the process they belong to.
LEMMA TimerKeepsPlace ==
  ASSUME KInv, TimerIRQ, IInv'
  PROVE  CpuTypeOK' /\ ContextsInPlace'
<1>1. current_pid \in PIDs /\ current_pid' \in PIDs
  BY DEF KInv, IInv, TypeOK
<1>2. /\ SavedContext \in [PIDs -> PIDs \cup {NoRegs}]
      /\ \A p \in PIDs : SavedContext[p] = 0 => p = 0
      /\ ~relabelled => \A p \in PIDs : SavedContext[p] \in {p, NoRegs}
  BY <1>1 DEF KInv, CpuTypeOK, ContextsInPlace, SavedContext
<1>3. /\ context' = SavedContext
      /\ UNCHANGED <<stream, hung, relabelled>>
      /\ regs' = IF current_pid' # current_pid THEN SavedContext[current_pid'] ELSE regs
  BY DEF TimerIRQ
<1> HIDE DEF SavedContext
<1>4. CpuTypeOK'
  BY <1>1, <1>2, <1>3 DEF KInv, CpuTypeOK
<1>5. ContextsInPlace'
  BY <1>1, <1>2, <1>3 DEF KInv, ContextsInPlace
<1> QED
  BY <1>4, <1>5

\* A new slot starts with fresh registers, or with those of a caller that is
\* not the kernel.
LEMMA CreateKeepsPlace ==
  ASSUME KInv, NEW size, CreateProcess(size),
         NEW r, context' = [context EXCEPT ![next_pid] = r],
         \/ r = NoRegs /\ UNCHANGED relabelled
         \/ r \in PIDs \cup {NoRegs} /\ r # 0 /\ relabelled',
         relabelled' \in BOOLEAN,
         UNCHANGED <<stream, regs, hung>>
  PROVE  CpuTypeOK' /\ ContextsInPlace'
<1>1. UNCHANGED current_pid
  BY DEF CreateProcess
<1>2. NoRegs # 0
  BY ProcessAssumption, KernelAssumption DEF PIDs
<1>3. CpuTypeOK'
  BY DEF KInv, CpuTypeOK
<1>4. ContextsInPlace'
  BY <1>1, <1>2 DEF KInv, CpuTypeOK, ContextsInPlace
<1> QED
  BY <1>3, <1>4

\* Shell commands.
LEMMA ShellKeepsPlace ==
  ASSUME KInv, Shell
  PROVE  CpuTypeOK' /\ ContextsInPlace'
<1>1. ASSUME NEW size \in MemSizes, ShellCreate(size)
      PROVE  CpuTypeOK' /\ ContextsInPlace'
  <2>1. relabelled' \in BOOLEAN
    BY <1>1 DEF ShellCreate, KInv, CpuTypeOK
  <2> QED
    BY <1>1, <2>1, CreateKeepsPlace DEF ShellCreate
<1>2. CASE ShellControl
  <2>1. UNCHANGED <<cpu, current_pid>>
    BY <1>2 DEF ShellControl, KillProcess, ReapZombie, SleepProcess, SetPriority, ShellYield
  <2> QED
    BY <2>1, QuietStep DEF cpu, KInv, CpuTypeOK
<1>3. ASSUME NEW pid \in PIDs, RunU(pid)
      PROVE  CpuTypeOK' /\ ContextsInPlace'
  <2>1. pid \in PIDs /\ pid # 0
    BY <1>3, ProcessAssumption DEF RunU, RunUserProcess, IsUserProcess, UserPIDs, PIDs
  <2>2. /\ current_pid' = pid /\ stream' = pid /\ regs' = pid
        /\ UNCHANGED <<context, hung, relabelled>>
    BY <1>3 DEF RunU, RunUserProcess
  <2> QED
    BY <2>1, <2>2 DEF KInv, CpuTypeOK, ContextsInPlace
<1> QED
  BY <1>1, <1>2, <1>3 DEF Shell

\* System calls.
LEMMA SyscallKeepsPlace ==
  ASSUME KInv, Syscall, IInv'
  PROVE  CpuTypeOK' /\ ContextsInPlace'
<1>1. CASE SysControl
  <2>1. UNCHANGED <<cpu, current_pid>>
    BY <1>1 DEF SysControl, KillProcess, SleepProcess, SetPriority
  <2> QED
    BY <2>1, QuietStep DEF cpu, KInv, CpuTypeOK
<1>2. CASE SysFork
  <2>1. context[current_pid] \in PIDs \cup {NoRegs} /\ context[current_pid] # 0
    BY <1>2 DEF SysFork, InUserProgram, KInv, IInv, TypeOK, CpuTypeOK, ContextsInPlace
  <2> QED
    BY <1>2, <2>1, CreateKeepsPlace DEF SysFork
<1>3. ASSUME NEW child \in UserPIDs, SysWait(child)
      PROVE  CpuTypeOK' /\ ContextsInPlace'
  <2>1. UNCHANGED <<stream, regs, context, current_pid, relabelled>> /\ hung' \in Calls
    BY <1>3 DEF SysWait, SleepProcess, vars, cpu, KInv, CpuTypeOK, Calls
  <2> QED
    BY <2>1, QuietStep DEF KInv, CpuTypeOK
<1>4. CASE SysYieldCall
  <2>1. regs \in PIDs /\ regs # 0
    BY <1>4 DEF SysYieldCall, InUserProgram, KInv, CpuTypeOK
  <2>2. /\ UNCHANGED <<stream, regs, context, hung>>
        /\ relabelled' = (relabelled \/ current_pid' # current_pid)
    BY <1>4 DEF SysYieldCall
  <2>3. CpuTypeOK'
    BY <2>2 DEF KInv, CpuTypeOK
  <2>4. ContextsInPlace'
    BY <2>1, <2>2 DEF KInv, ContextsInPlace
  <2> QED
    BY <2>3, <2>4
<1>5. CASE \E addr, len \in Words : SysRead(addr, len)
  <2>1. UNCHANGED <<stream, regs, context, current_pid, relabelled>> /\ hung' \in Calls
    BY <1>5 DEF SysRead, vars, Calls
  <2> QED
    BY <2>1, QuietStep DEF KInv, CpuTypeOK
<1> QED
  BY <1>1, <1>2, <1>3, <1>4, <1>5 DEF Syscall

\* The machine boot leaves (kernel_main) satisfies the inductive invariant.
LEMMA KernelInitEstablishes == KernelInit => KInv
<1> SUFFICES ASSUME KernelInit PROVE KInv
  OBVIOUS
<1>1. IInv
  BY InitEstablishes DEF KernelInit
<1>2. 0 \in PIDs /\ NoRegs # 0 /\ current_pid = 0
  BY ProcessAssumption, KernelAssumption DEF PIDs, KernelInit, Init
<1>3. CpuTypeOK /\ ContextsInPlace
  BY <1>2 DEF KernelInit, CpuTypeOK, ContextsInPlace, Calls
<1> QED
  BY <1>1, <1>3 DEF KInv

\* Every step, a tick, a shell command or a system call, preserves it.
LEMMA KernelStepPreserves == KInv /\ [KernelNext]_kernelVars => KInv'
<1> SUFFICES ASSUME KInv, [KernelNext]_kernelVars PROVE KInv'
  OBVIOUS
<1>1. IInv'
  BY StepIsTableStep, StepPreserves DEF KInv
<1>2. CASE UNCHANGED kernelVars
  <2>1. UNCHANGED <<stream, regs, context, hung, relabelled, current_pid>>
    BY <1>2 DEF kernelVars, cpu, vars
  <2>2. CpuTypeOK' /\ ContextsInPlace'
    BY <2>1, QuietStep DEF KInv, CpuTypeOK
  <2> QED
    BY <1>1, <2>2 DEF KInv
<1>3. CASE TimerIRQ
  BY <1>1, <1>3, TimerKeepsPlace DEF KInv
<1>4. CASE Shell
  BY <1>1, <1>4, ShellKeepsPlace DEF KInv
<1>5. CASE Syscall
  BY <1>1, <1>5, SyscallKeepsPlace DEF KInv
<1> QED
  BY <1>2, <1>3, <1>4, <1>5 DEF KernelNext

(***************************************************************************)
(* Theorems                                                                *)
(***************************************************************************)

\* The invariant holds in every reachable state of the composition.
THEOREM KernelInvariance == KernelSpec => []KInv
BY KernelInitEstablishes, KernelStepPreserves, PTL DEF KernelSpec

\* Shell, system calls and IRQ0 together only make steps of the process table,
\* so its theorems hold of the running system.
THEOREM TableImplemented == KernelSpec => ImplementsProcess
<1>1. KernelInit => Init
  BY DEF KernelInit
<1>2. KInv /\ [KernelNext]_kernelVars => [Next]_vars
  BY StepIsTableStep
<1> QED
  BY <1>1, <1>2, KernelInvariance, PTL DEF KernelSpec, ImplementsProcess, Spec

\* A shell that has its registers back is the current process.
THEOREM ShellIsCurrent == KernelSpec => []ShellRunsAsKernel
<1>1. KInv => ShellRunsAsKernel
  BY DEF KInv, ContextsInPlace, ShellRunsAsKernel, InShell
<1> QED
  BY <1>1, KernelInvariance, PTL

\* Without fork and yield a system call acts on its issuer, however often IRQ0
\* switched processes.
THEOREM CallerIsCurrent == KernelSpec => []CallsActOnCaller
<1>1. KInv => CallsActOnCaller
  BY KernelAssumption DEF KInv, CpuTypeOK, ContextsInPlace, CallsActOnCaller, InUserProgram
<1> QED
  BY <1>1, KernelInvariance, PTL

(***************************************************************************)
(* The pointers of SYS_WRITE and SYS_READ                                  *)
(***************************************************************************)

\* A remainder is no greater than what it is of, and that itself if small.
LEMMA Remainders ==
  ASSUME NEW a \in Nat, NEW b \in Nat, b > 0
  PROVE  /\ a % b \in Nat /\ a % b < b /\ a % b <= a
         /\ a < b => a % b = a
         /\ a >= b /\ a < 2 * b => a % b = a - b
<1>1. a % b \in 0..(b - 1)
  OBVIOUS
<1>2. a \div b \in Nat /\ a = b * (a \div b) + (a % b)
  OBVIOUS
<1> DEFINE q == a \div b
           r == a % b
<1>3. q \in Nat /\ r \in 0..(b - 1) /\ a = b * q + r
  BY <1>1, <1>2
<1> HIDE DEF q, r
<1>4. b * q \in Nat
  BY <1>3
<1>5. r <= a
  BY <1>3, <1>4
<1>6. a < b => q = 0
  <2>1. q >= 1 => b * q >= b
    BY <1>3
  <2> QED
    BY <1>3, <2>1
<1>7. a >= b /\ a < 2 * b => q = 1
  <2>1. q >= 2 => b * q >= 2 * b
    BY <1>3
  <2>2. q = 0 => a < b
    BY <1>3
  <2> QED
    BY <1>3, <2>1, <2>2
<1> QED
  BY <1>3, <1>5, <1>6, <1>7 DEF q, r

\* What the tests of user_ptr_ok let through: len bytes of the current process,
\* or an address of its own and no byte.
LEMMA PointerOk ==
  ASSUME KInv, RegionsPlaced, NEW addr \in Words, NEW len \in Words, UserPtrOk(addr, len)
  PROVE  /\ addr \in Region(current_pid)
         /\ addr..(addr + len - 1) \subseteq Region(current_pid)
<1> DEFINE start == memory_start[current_pid]
           size == memory_size[current_pid]
           end == (start + size) % WordSize
<1>1. start \in Nat /\ size \in Nat /\ start + size \in Nat
  BY DEF KInv, IInv, TypeOK, RegionsPlaced
<1>2. /\ WordSize \in Nat /\ WordSize > 0
      /\ addr \in Nat /\ addr < WordSize /\ len \in Nat /\ len < WordSize
      /\ addr + len \in Nat /\ addr + len < 2 * WordSize
  BY KernelAssumption DEF Words
<1>3. /\ addr >= start /\ addr < end
      /\ len = 0 \/ ((addr + len) % WordSize >= addr /\ (addr + len) % WordSize <= end)
  BY Zenon DEF UserPtrOk
<1>4. end \in Nat /\ end <= start + size
  BY <1>1, <1>2, Remainders
<1> HIDE DEF start, size, end
<1>5. /\ addr + len < WordSize => (addr + len) % WordSize = addr + len
      /\ addr + len >= WordSize => (addr + len) % WordSize = addr + len - WordSize
  BY <1>2, Remainders
<1>6. len = 0 \/ addr + len <= end
  BY <1>2, <1>3, <1>4, <1>5
<1>7. addr \in start..(start + size - 1) /\ addr..(addr + len - 1) \subseteq start..(start + size - 1)
  BY <1>1, <1>2, <1>3, <1>4, <1>6
<1> QED
  BY <1>7 DEF Region, start, size

\* What a system call touches is the current process's own.
LEMMA TouchesOwn ==
  ASSUME KInv, RegionsPlaced, NEW addr \in Words, NEW len \in Words
  PROVE  WriteTouches(addr, len) \cup ReadTouches(addr, len) \subseteq Region(current_pid)
<1> DEFINE max == IF len > MaxWrite THEN MaxWrite ELSE len
<1>1. max \in Words
  BY KernelAssumption DEF Words
<1>2. WriteTouches(addr, len) = IF UserPtrOk(addr, max) THEN addr..(addr + max - 1) ELSE {}
  BY Zenon DEF WriteTouches
<1> HIDE DEF max
<1>3. WriteTouches(addr, len) \subseteq Region(current_pid)
  BY <1>1, <1>2, PointerOk
<1>4. ReadTouches(addr, len) \subseteq Region(current_pid)
  BY PointerOk DEF ReadTouches
<1> QED
  BY <1>3, <1>4

\* SYS_WRITE and SYS_READ touch nothing but the memory of the current process,
\* for every pointer and length, every size of a word and of the processes.
THEOREM PointersStayInside == KernelSpec => []PointersInside
<1>1. ASSUME KInv, RegionsPlaced, RegionsDisjoint PROVE PointersInside
  <2>1. current_pid \in 0..(next_pid - 1)
    BY <1>1 DEF KInv, IInv, TypeOK, UncreatedSlotsUnused, PIDs
  <2> SUFFICES ASSUME NEW addr \in Words, NEW len \in Words,
                      NEW byte \in WriteTouches(addr, len) \cup ReadTouches(addr, len),
                      NEW p \in 0..(next_pid - 1)
               PROVE  byte \in Region(p) <=> p = current_pid
    BY DEF PointersInside, Region
  <2>2. byte \in Region(current_pid)
    BY <1>1, TouchesOwn
  <2>3. p # current_pid => Region(p) \cap Region(current_pid) = {}
    BY <1>1, <2>1 DEF RegionsDisjoint
  <2> QED
    BY <2>2, <2>3
<1> QED
  BY <1>1, TableImplemented, KernelInvariance, RegionsStay, MemoryDisjoint, PTL
     DEF ImplementsProcess
=============================================================================
