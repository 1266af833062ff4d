---------------------------- MODULE ProcessProofs ----------------------------
(***************************************************************************)
(* What the process table guarantees for every number of slots, quantum,   *)
(* aging limit, priority range and integer width; and where create_process *)
(* puts their memory, for whatever sizes are asked.                        *)
(***************************************************************************)
EXTENDS Process, FiniteSetTheorems, WellFoundedInduction, TLAPS

\* The inductive invariant.  KernelAlive needs UncreatedSlotsUnused (a new slot
\* is never slot 0) and the others need TypeOK.
IInv ==
    /\ TypeOK
    /\ OnlyCurrentRuns
    /\ KernelAlive
    /\ UncreatedSlotsUnused
    /\ ParentIsOlder

(***************************************************************************)
(* Lemmas about the operators of a tick                                    *)
(***************************************************************************)

\* An int operation that wraps still yields an int.
LEMMA WrapIsInt32 == ASSUME NEW n \in Int PROVE WrapInt(n) \in Int32
<1>1. 2 * IntMax + 2 \in Nat /\ 2 * IntMax + 2 > 0
  BY ProcessAssumption
<1>2. \A a \in Int, b \in Nat : b > 0 => (a % b) \in 0..(b - 1)
  OBVIOUS
<1>3. (n + IntMax + 1) % (2 * IntMax + 2) \in 0..(2 * IntMax + 1)
  BY <1>1, <1>2, ProcessAssumption
<1> QED
  BY <1>3, ProcessAssumption DEF WrapInt, Int32

\* A tick computes a well-typed table, priorities and waiting counts included.
LEMMA TickTypes ==
  ASSUME TypeOK, NEW st \in [PIDs -> States]
  PROVE  /\ SleepLeft(st) \in [PIDs -> Int32]
         /\ WokenAndReaped(st) \in [PIDs -> States]
         /\ AgedWait(st) \in [PIDs -> 0..(AgeLimit - 1)]
         /\ AgedPriority(st) \in [PIDs -> 0..MaxPriority]
<1>1. \A p \in PIDs : sleep_ticks[p] - 1 \in Int
  BY ProcessAssumption DEF TypeOK, Int32
<1>2. SleepLeft(st) \in [PIDs -> Int32]
  BY <1>1, WrapIsInt32 DEF TypeOK, SleepLeft
<1>3. WokenAndReaped(st) \in [PIDs -> States]
  BY DEF WokenAndReaped, States
<1>4. Restarted(st) \in [PIDs -> 0..(AgeLimit - 1)]
  BY ProcessAssumption DEF TypeOK, Restarted
<1>5. AgedWait(st) \in [PIDs -> 0..(AgeLimit - 1)]
  <2> SUFFICES ASSUME NEW p \in PIDs
               PROVE  AgedWait(st)[p] \in 0..(AgeLimit - 1)
    BY DEF AgedWait
  <2> QED
    BY <1>4, ProcessAssumption DEF AgedWait, Ages
<1>6. AgedPriority(st) \in [PIDs -> 0..MaxPriority]
  <2> SUFFICES ASSUME NEW p \in PIDs
               PROVE  AgedPriority(st)[p] \in 0..MaxPriority
    BY DEF AgedPriority
  <2> QED
    BY ProcessAssumption DEF AgedPriority, TypeOK
<1> QED
  BY <1>2, <1>3, <1>5, <1>6

\* Waking and reaping put nothing on the CPU, leave the kernel and the empty
\* slots alone.
LEMMA TickStates ==
  ASSUME NEW st \in [PIDs -> States], NEW p \in PIDs
  PROVE  /\ WokenAndReaped(st)[p] = RUNNING => st[p] = RUNNING
         /\ st[p] = EMPTY => WokenAndReaped(st)[p] = EMPTY
         /\ st[p] \in {RUNNING, READY} => WokenAndReaped(st)[p] = st[p]
BY DEF WokenAndReaped, EMPTY, RUNNING, READY, SLEEP, ZOMBIE

\* After a preemption nobody is RUNNING and nothing else changed.
LEMMA PreemptedStates ==
  ASSUME current_pid \in PIDs, NEW st \in [PIDs -> States],
         \A p \in PIDs : st[p] = RUNNING => p = current_pid
  PROVE  /\ Preempted(st) \in [PIDs -> States]
         /\ \A p \in PIDs : Preempted(st)[p] # RUNNING
         /\ \A p \in PIDs : st[p] = EMPTY <=> Preempted(st)[p] = EMPTY
         /\ \A p \in PIDs : st[p] \in {RUNNING, READY} => Preempted(st)[p] = READY
BY DEF Preempted, States, EMPTY, RUNNING, READY, SLEEP, ZOMBIE

(***************************************************************************)
(* Every step preserves IInv                                               *)
(***************************************************************************)

\* The states a tick may start from: the table itself, or the table with the
\* current slot marked READY (SYS_YIELD).
TickInput(st) ==
    /\ st \in [PIDs -> States]
    /\ \A p \in PIDs : st[p] = RUNNING => p = current_pid
    /\ st[0] \in {RUNNING, READY}
    /\ \A p \in PIDs : p >= next_pid => st[p] = EMPTY

\* Whoever get_best_process picks is a READY slot of the table.
LEMMA BestIsReady ==
  ASSUME NEW st, NEW prio, NEW p \in BestProcess(st, prio)
  PROVE  p \in PIDs /\ st[p] = READY
BY DEF BestProcess

\* A whole tick of update_processes preserves the inductive invariant.
LEMMA TickPreserves ==
  ASSUME IInv, NEW st, TickInput(st), TickFrom(st)
  PROVE  IInv'
<1> DEFINE table1 == WokenAndReaped(st)
           table2 == Preempted(table1)
<1>1. /\ table1 \in [PIDs -> States]
      /\ AgedWait(st) \in [PIDs -> 0..(AgeLimit - 1)]
      /\ AgedPriority(st) \in [PIDs -> 0..MaxPriority]
      /\ SleepLeft(st) \in [PIDs -> Int32]
  BY TickTypes DEF IInv, TickInput
<1>2. /\ \A p \in PIDs : table1[p] = RUNNING => p = current_pid
      /\ table1[0] \in {RUNNING, READY}
      /\ \A p \in PIDs : p >= next_pid => table1[p] = EMPTY
  BY TickStates, ProcessAssumption DEF TickInput, PIDs
<1>3. /\ table2 \in [PIDs -> States]
      /\ \A p \in PIDs : table2[p] # RUNNING
      /\ table2[0] = READY
      /\ \A p \in PIDs : p >= next_pid => table2[p] = EMPTY
  <2>1. current_pid \in PIDs /\ 0 \in PIDs
    BY ProcessAssumption DEF IInv, TypeOK, PIDs
  <2> HIDE DEF table1
  <2> QED
    BY <1>1, <1>2, <2>1, PreemptedStates
<1>4. CASE EndOfQuantum
  <2>1. CASE BestProcess(table2, AgedPriority(st)) = {}
    <3>1. /\ state' = table2
          /\ wait_ticks' = AgedWait(st)
          /\ UNCHANGED <<current_pid, last_rr_pid, parent_pid, memory, next_pid>>
          /\ timer_ticks' = 0
          /\ sleep_ticks' = SleepLeft(st)
          /\ priority' = AgedPriority(st)
      BY <1>4, <2>1 DEF TickFrom, Dispatch
    <3>2. TypeOK'
      BY <1>1, <1>3, <3>1, ProcessAssumption DEF IInv, TypeOK, memory
    <3> QED
      BY <1>3, <3>1, <3>2 DEF IInv, OnlyCurrentRuns, KernelAlive,
         UncreatedSlotsUnused, ParentIsOlder
  <2>2. CASE BestProcess(table2, AgedPriority(st)) # {}
    <3>1. PICK p \in BestProcess(table2, AgedPriority(st)) :
             /\ last_rr_pid' = p
             /\ current_pid' = p
             /\ state' = [table2 EXCEPT ![p] = RUNNING]
             /\ wait_ticks' = [AgedWait(st) EXCEPT ![p] = 0]
      BY <1>4, <2>2 DEF TickFrom, Dispatch
    <3>2. /\ UNCHANGED <<parent_pid, memory, next_pid>>
          /\ timer_ticks' = 0
          /\ sleep_ticks' = SleepLeft(st)
          /\ priority' = AgedPriority(st)
      BY <1>4 DEF TickFrom
    <3>3. p \in PIDs /\ table2[p] = READY
      BY BestIsReady
    <3> HIDE DEF table1, table2
    <3>4. p < next_pid
      BY <1>3, <3>3, ProcessAssumption DEF IInv, TypeOK, PIDs, READY, EMPTY
    <3>5. TypeOK'
      BY <1>1, <1>3, <3>1, <3>2, <3>3, ProcessAssumption
         DEF IInv, TypeOK, memory, States
    <3>6. OnlyCurrentRuns'
      BY <1>3, <3>1, <3>3 DEF OnlyCurrentRuns
    <3>7. KernelAlive'
      BY <1>3, <3>1, <3>3 DEF KernelAlive
    <3>8. UncreatedSlotsUnused' /\ ParentIsOlder'
      BY <1>3, <3>1, <3>2, <3>3, <3>4, ProcessAssumption
         DEF IInv, TypeOK, UncreatedSlotsUnused, ParentIsOlder, PIDs
    <3> QED
      BY <3>5, <3>6, <3>7, <3>8 DEF IInv
  <2> QED
    BY <2>1, <2>2
<1>5. CASE ~EndOfQuantum
  <2>1. /\ state' = table1
        /\ wait_ticks' = AgedWait(st)
        /\ UNCHANGED <<current_pid, last_rr_pid, parent_pid, memory, next_pid>>
        /\ timer_ticks' = timer_ticks + 1
        /\ sleep_ticks' = SleepLeft(st)
        /\ priority' = AgedPriority(st)
    BY <1>5 DEF TickFrom
  <2>2. timer_ticks' \in 0..(Quantum - 1)
    BY <1>5, <2>1, ProcessAssumption DEF IInv, TypeOK, EndOfQuantum
  <2>3. TypeOK'
    BY <1>1, <2>1, <2>2 DEF IInv, TypeOK, memory
  <2> QED
    BY <1>2, <2>1, <2>3 DEF IInv, OnlyCurrentRuns, KernelAlive,
       UncreatedSlotsUnused, ParentIsOlder
<1> QED
  BY <1>4, <1>5

\* The table process_init leaves satisfies the inductive invariant.
LEMMA InitEstablishes == Init => IInv
<1> SUFFICES ASSUME Init PROVE IInv
  OBVIOUS
<1>1. 0 \in PIDs /\ \A p \in PIDs : p \in Int
  BY ProcessAssumption DEF PIDs
<1>2. TypeOK
  BY <1>1, ProcessAssumption DEF Init, TypeOK, States, Int32
<1>3. OnlyCurrentRuns /\ KernelAlive /\ UncreatedSlotsUnused /\ ParentIsOlder
  BY <1>1, ProcessAssumption DEF Init, OnlyCurrentRuns, KernelAlive,
     UncreatedSlotsUnused, ParentIsOlder, RUNNING, EMPTY
<1> QED
  BY <1>2, <1>3 DEF IInv

\* create_process preserves it, whichever of its ends is taken.
LEMMA CreatePreserves ==
  ASSUME IInv, NEW size \in MemSizes, CreateProcess(size)
  PROVE  IInv'
<1>1. /\ next_pid \in UserPIDs /\ next_pid \in PIDs /\ next_pid # 0
      /\ size \in Nat
      /\ current_pid < next_pid /\ current_pid \in 0..(next_pid - 1)
  BY ProcessAssumption DEF IInv, TypeOK, CreateProcess, UncreatedSlotsUnused,
     PIDs, UserPIDs
<1>2. /\ state' = [state EXCEPT ![next_pid] = READY]
      /\ priority' = [priority EXCEPT ![next_pid] = DefaultPriority]
      /\ sleep_ticks' = [sleep_ticks EXCEPT ![next_pid] = 0]
      /\ wait_ticks' = [wait_ticks EXCEPT ![next_pid] = 0]
      /\ parent_pid' = [parent_pid EXCEPT ![next_pid] = current_pid]
      /\ memory_size' = [memory_size EXCEPT ![next_pid] = size]
      /\ next_pid' = next_pid + 1
      /\ UNCHANGED <<current_pid, last_rr_pid, timer_ticks>>
  BY DEF CreateProcess
<1>3. TypeOK'
  <2>1. next_pid + 1 \in 1..MaxProcesses
    BY <1>1, ProcessAssumption DEF PIDs, UserPIDs
  <2>2. 0 \in Int32 /\ 0 \in 0..(AgeLimit - 1) /\ DefaultPriority \in 0..MaxPriority
    BY ProcessAssumption DEF Int32
  <2>3. current_pid \in -1..(MaxProcesses - 1)
    BY <1>1, ProcessAssumption DEF PIDs
  <2> QED
    BY <1>1, <1>2, <2>1, <2>2, <2>3 DEF IInv, TypeOK, States
<1>4. OnlyCurrentRuns' /\ KernelAlive'
  BY <1>1, <1>2, ProcessAssumption
     DEF IInv, TypeOK, OnlyCurrentRuns, KernelAlive, PIDs, READY, RUNNING
<1>5. UncreatedSlotsUnused'
  <2>1. current_pid' < next_pid'
    BY <1>1, <1>2 DEF IInv, TypeOK
  <2>2. ASSUME NEW p \in PIDs, p >= next_pid'
        PROVE  p >= next_pid /\ p # next_pid
    BY <1>1, <1>2, <2>2, ProcessAssumption DEF PIDs
  <2> QED
    BY <1>1, <1>2, <2>1, <2>2 DEF IInv, TypeOK, UncreatedSlotsUnused
<1>6. ParentIsOlder'
  <2> SUFFICES ASSUME NEW p \in 1..(next_pid' - 1)
               PROVE  parent_pid'[p] \in 0..(p - 1)
    BY DEF ParentIsOlder
  <2>1. p \in PIDs /\ (p = next_pid \/ p \in 1..(next_pid - 1))
    BY <1>1, <1>2, ProcessAssumption DEF PIDs
  <2> QED
    BY <1>1, <1>2, <2>1 DEF IInv, TypeOK, ParentIsOlder
<1> QED
  BY <1>3, <1>4, <1>5, <1>6 DEF IInv

\* kill, sleep, wait, yield and priority change one slot in use, and put
\* nobody on the CPU.
LEMMA OneSlotPreserves ==
  ASSUME IInv, NEW pid \in PIDs, NEW s \in States, s # RUNNING,
         pid < next_pid,
         pid # 0 \/ s = READY,
         state' = [state EXCEPT ![pid] = s],
         UNCHANGED <<wait_ticks, parent_pid, memory,
                     current_pid, next_pid, last_rr_pid, timer_ticks>>,
         sleep_ticks' \in [PIDs -> Int32],
         priority' \in [PIDs -> 0..MaxPriority]
  PROVE  IInv'
<1>1. TypeOK'
  BY DEF IInv, TypeOK, memory
<1>2. OnlyCurrentRuns'
  BY DEF IInv, TypeOK, OnlyCurrentRuns
<1>3. KernelAlive'
  BY ProcessAssumption DEF IInv, TypeOK, KernelAlive, PIDs
<1>4. UncreatedSlotsUnused'
  <2>1. next_pid \in Int /\ \A p \in PIDs : p \in Int
    BY ProcessAssumption DEF IInv, TypeOK, PIDs
  <2>2. \A p \in PIDs : p >= next_pid => p # pid
    BY <2>1
  <2> QED
    BY <2>1, <2>2 DEF IInv, TypeOK, UncreatedSlotsUnused
<1>5. ParentIsOlder'
  BY DEF IInv, ParentIsOlder
<1> QED
  BY <1>1, <1>2, <1>3, <1>4, <1>5 DEF IInv

\* A slot in use is a created one.
LEMMA UsedIsCreated ==
  ASSUME IInv, NEW pid \in PIDs, state[pid] # EMPTY
  PROVE  pid < next_pid
BY ProcessAssumption DEF IInv, TypeOK, UncreatedSlotsUnused, PIDs

\* A tick starts from the table as it is, or with the current slot READY.
LEMMA TableIsTickInput == IInv => TickInput(state)
BY ProcessAssumption DEF IInv, TypeOK, OnlyCurrentRuns, KernelAlive,
   UncreatedSlotsUnused, TickInput

\* A running process yielding is a table the tick may start from, too.
LEMMA YieldIsTickInput == IInv => TickInput([state EXCEPT ![current_pid] = READY])
BY ProcessAssumption DEF IInv, TypeOK, OnlyCurrentRuns, KernelAlive,
   UncreatedSlotsUnused, TickInput, PIDs, States, READY, RUNNING

\* Every shell command on the table preserves the inductive invariant.
LEMMA CommandPreserves ==
  ASSUME IInv, Command
  PROVE  IInv'
<1> USE DEF States
<1>0. \A p \in UserPIDs : p \in PIDs /\ p # 0
  BY ProcessAssumption DEF UserPIDs, PIDs
<1>1. ASSUME NEW size \in MemSizes, CreateProcess(size) PROVE IInv'
  BY <1>1, CreatePreserves
<1>2. ASSUME NEW pid \in UserPIDs, KillProcess(pid) PROVE IInv'
  <2>1. pid < next_pid
    BY <1>0, <1>2, UsedIsCreated DEF KillProcess, IsUserProcess
  <2>2. sleep_ticks' \in [PIDs -> Int32] /\ priority' \in [PIDs -> 0..MaxPriority]
    BY <1>2 DEF KillProcess, IInv, TypeOK
  <2> QED
    BY <1>0, <1>2, <2>1, <2>2, OneSlotPreserves DEF KillProcess, ZOMBIE, RUNNING
<1>3. ASSUME NEW pid \in UserPIDs, NEW seconds \in Seconds, SleepProcess(pid, seconds)
      PROVE  IInv'
  <2>1. pid < next_pid
    BY <1>0, <1>3, UsedIsCreated DEF SleepProcess, IsUserProcess
  <2>2. seconds * TicksPerSecond \in Int
    BY ProcessAssumption
  <2>3. sleep_ticks' \in [PIDs -> Int32] /\ priority' \in [PIDs -> 0..MaxPriority]
    BY <1>0, <1>3, <2>2, WrapIsInt32 DEF SleepProcess, IInv, TypeOK
  <2> QED
    BY <1>0, <1>3, <2>1, <2>3, OneSlotPreserves DEF SleepProcess, SLEEP, RUNNING
<1>4. ASSUME NEW pid \in UserPIDs, ReapZombie(pid) PROVE IInv'
  <2>1. pid < next_pid
    BY <1>0, <1>4, UsedIsCreated DEF ReapZombie, ZOMBIE, EMPTY
  <2>2. sleep_ticks' \in [PIDs -> Int32] /\ priority' \in [PIDs -> 0..MaxPriority]
    BY <1>4 DEF ReapZombie, IInv, TypeOK
  <2> QED
    BY <1>0, <1>4, <2>1, <2>2, OneSlotPreserves DEF ReapZombie, EMPTY, RUNNING
<1>5. ASSUME NEW pid \in UserPIDs, RunUserProcess(pid) PROVE IInv'
  <2>1. pid < next_pid /\ pid \in PIDs /\ pid # 0
    BY <1>0, <1>5, UsedIsCreated DEF RunUserProcess, IsUserProcess
  <2>2. /\ Preempted(state) \in [PIDs -> States]
        /\ \A p \in PIDs : Preempted(state)[p] # RUNNING
        /\ \A p \in PIDs : state[p] = EMPTY <=> Preempted(state)[p] = EMPTY
        /\ \A p \in PIDs : state[p] \in {RUNNING, READY} => Preempted(state)[p] = READY
    BY PreemptedStates DEF IInv, TypeOK, OnlyCurrentRuns
  <2>3. /\ state' = [Preempted(state) EXCEPT ![pid] = RUNNING]
        /\ current_pid' = pid
        /\ UNCHANGED <<priority, sleep_ticks, wait_ticks, parent_pid, memory,
                       next_pid, last_rr_pid, timer_ticks>>
    BY <1>5 DEF RunUserProcess
  <2>4. TypeOK'
    BY <2>1, <2>2, <2>3 DEF IInv, TypeOK, memory
  <2>5. OnlyCurrentRuns'
    BY <2>1, <2>2, <2>3 DEF OnlyCurrentRuns
  <2>6. KernelAlive'
    BY <2>1, <2>2, <2>3, ProcessAssumption DEF IInv, KernelAlive, PIDs
  <2>7. UncreatedSlotsUnused'
    BY <2>1, <2>2, <2>3, ProcessAssumption
       DEF IInv, TypeOK, UncreatedSlotsUnused, PIDs
  <2>8. ParentIsOlder'
    BY <2>3 DEF IInv, ParentIsOlder
  <2> QED
    BY <2>4, <2>5, <2>6, <2>7, <2>8 DEF IInv
<1>6. ASSUME NEW pid \in PIDs, NEW prio \in 0..MaxPriority, SetPriority(pid, prio)
      PROVE  IInv'
  <2>1. TypeOK'
    BY <1>6 DEF SetPriority, IInv, TypeOK, memory
  <2> QED
    BY <1>6, <2>1 DEF SetPriority, IInv, OnlyCurrentRuns, KernelAlive,
       UncreatedSlotsUnused, ParentIsOlder
<1>7. CASE ShellYield
  <2>1. current_pid \in PIDs /\ current_pid < next_pid
    BY DEF IInv, TypeOK, UncreatedSlotsUnused
  <2>2. sleep_ticks' \in [PIDs -> Int32] /\ priority' \in [PIDs -> 0..MaxPriority]
    BY <1>7 DEF ShellYield, IInv, TypeOK
  <2> QED
    BY <1>7, <2>1, <2>2, OneSlotPreserves DEF ShellYield, READY, RUNNING
<1>8. CASE SysYield
  BY <1>8, YieldIsTickInput, TickPreserves DEF SysYield
<1>9. ASSUME NEW pid \in PIDs,
             KillProcess(pid) \/ RunUserProcess(pid) \/ \E seconds \in Seconds : SleepProcess(pid, seconds)
      PROVE  pid \in UserPIDs
  BY <1>9 DEF KillProcess, RunUserProcess, SleepProcess, IsUserProcess
<1> QED
  BY <1>1, <1>2, <1>3, <1>4, <1>5, <1>6, <1>7, <1>8, <1>9 DEF Command

\* Every step of the process table preserves the inductive invariant.
LEMMA StepPreserves == IInv /\ [Next]_vars => IInv'
<1> SUFFICES ASSUME IInv, [Next]_vars PROVE IInv'
  OBVIOUS
<1>1. CASE ProcessTick
  BY <1>1, TableIsTickInput, TickPreserves DEF ProcessTick
<1>2. CASE Command
  BY <1>2, CommandPreserves
<1>3. CASE UNCHANGED vars
  BY <1>3 DEF vars, table, memory, IInv, TypeOK, OnlyCurrentRuns, KernelAlive,
     UncreatedSlotsUnused, ParentIsOlder
<1> QED
  BY <1>1, <1>2, <1>3 DEF Next

(***************************************************************************)
(* Theorems                                                                *)
(***************************************************************************)

\* The inductive invariant holds in every reachable state.
THEOREM Invariance == Spec => []IInv
BY InitEstablishes, StepPreserves, PTL DEF Spec

\* The process table stays well typed: priorities within the range searched by
\* get_best_process, waiting counts below the aging limit, pids in the table.
THEOREM TypeCorrect == Spec => []TypeOK
BY Invariance, PTL DEF IInv

\* Only current_pid is ever RUNNING.
THEOREM OneRunning == Spec => []OnlyCurrentRuns
BY Invariance, PTL DEF IInv

\* No command, system call or tick takes the kernel out of RUNNING or READY.
THEOREM KernelSurvives == Spec => []KernelAlive
BY Invariance, PTL DEF IInv

\* Slots beyond next_pid are never used, so current_pid names a created slot.
THEOREM CreatedInOrder == Spec => []UncreatedSlotsUnused
BY Invariance, PTL DEF IInv

\* The parent links form a tree rooted at the kernel.
THEOREM ParentsPrecede == Spec => []ParentIsOlder
BY Invariance, PTL DEF IInv

\* Best candidates are minimal: nothing READY has a better priority.
LEMMA BestIsBest ==
  ASSUME NEW st, NEW prio \in [PIDs -> 0..MaxPriority],
         NEW p \in BestProcess(st, prio), NEW q \in PIDs, st[q] = READY
  PROVE  prio[p] <= prio[q]
BY ProcessAssumption DEF BestProcess

\* Every non-empty set of naturals has a least element.
LEMMA LeastNatural ==
  ASSUME NEW T \in SUBSET Nat, T # {}
  PROVE  \E x \in T : \A y \in T : x <= y
<1> DEFINE R == {ss \in Nat \X Nat : ss[1] < ss[2]}
<1>1. IsWellFoundedOn(R, Nat)
  BY NatLessThanWellFounded DEF OpToRel
<1>2. \A x, y \in Nat : y < x => <<y, x>> \in R
  OBVIOUS
<1> HIDE DEF R
<1>3. PICK x \in T : \A y \in T : ~(<<y, x>> \in R)
  BY <1>1, WFMin
<1>4. ASSUME NEW y \in T PROVE x <= y
  <2>1. x \in Nat /\ y \in Nat
    OBVIOUS
  <2>2. ~(y < x)
    BY <1>2, <1>3, <2>1
  <2> QED
    BY <2>1, <2>2
<1> QED
  BY <1>4

\* If any slot of a searched priority is READY, get_best_process finds one.
LEMMA SomebodyIsBest ==
  ASSUME NEW st, NEW prio \in [PIDs -> 0..MaxPriority], last_rr_pid \in PIDs,
         NEW r \in PIDs, st[r] = READY
  PROVE  BestProcess(st, prio) # {}
<1> DEFINE ready == {p \in PIDs : st[p] = READY /\ prio[p] <= MaxPriority}
<1>1. r \in ready /\ \A p \in ready : p \in PIDs /\ prio[p] \in Nat
  BY ProcessAssumption
<1>2. PICK m \in {prio[p] : p \in ready} : \A n \in {prio[p] : p \in ready} : m <= n
  <2>1. {prio[p] : p \in ready} \in SUBSET Nat /\ {prio[p] : p \in ready} # {}
    BY <1>1
  <2> QED
    BY <2>1, LeastNatural
<1> DEFINE tied == {p \in ready : prio[p] = m}
<1>3. tied # {} /\ tied \subseteq PIDs
  BY <1>2
<1>4. \A p \in PIDs : Distance(p) \in Nat
  <2>1. \A a \in Int, b \in Nat : b > 0 => (a % b) \in Nat
    OBVIOUS
  <2> QED
    BY <2>1, ProcessAssumption DEF Distance, PIDs
<1>5. PICK d \in {Distance(p) : p \in tied} : \A n \in {Distance(p) : p \in tied} : d <= n
  <2>1. {Distance(p) : p \in tied} \in SUBSET Nat /\ {Distance(p) : p \in tied} # {}
    BY <1>3, <1>4
  <2> QED
    BY <2>1, LeastNatural
<1>6. PICK p \in tied : Distance(p) = d
  BY <1>5
<1>7. ASSUME NEW q \in ready
      PROVE  prio[p] < prio[q] \/ (prio[p] = prio[q] /\ Distance(p) <= Distance(q))
  <2>1. m <= prio[q] /\ prio[p] = m /\ m \in Nat /\ prio[q] \in Nat
    BY <1>1, <1>2, <1>6
  <2>2. CASE prio[q] = m
    BY <1>5, <1>6, <2>1, <2>2
  <2> QED
    BY <2>1, <2>2
<1> QED
  BY <1>6, <1>7 DEF BestProcess

\* A tick that ends a quantum leaves a RUNNING current process, and nothing
\* READY beats its priority.  The kernel, always alive, is a candidate if
\* nobody else is.
LEMMA TickDispatchesBest ==
  ASSUME IInv, NEW st, TickInput(st), TickFrom(st), EndOfQuantum
  PROVE  /\ state'[current_pid'] = RUNNING
         /\ \A q \in PIDs : state'[q] = READY => priority'[current_pid'] <= priority'[q]
<1> DEFINE table1 == WokenAndReaped(st)
           table2 == Preempted(table1)
<1>1. /\ priority' = AgedPriority(st)
      /\ priority' \in [PIDs -> 0..MaxPriority]
      /\ table1 \in [PIDs -> States]
  BY TickTypes DEF IInv, TickInput, TickFrom
<1>2. 0 \in PIDs /\ current_pid \in PIDs
  BY ProcessAssumption DEF IInv, TypeOK, PIDs
<1>3. /\ \A p \in PIDs : table1[p] = RUNNING => p = current_pid
      /\ table1[0] \in {RUNNING, READY}
  BY <1>2, TickStates DEF TickInput
<1>4. table2 \in [PIDs -> States] /\ table2[0] = READY
  <2> HIDE DEF table1
  <2> QED
    BY <1>1, <1>2, <1>3, PreemptedStates
<1> HIDE DEF table1, table2
<1>5. BestProcess(table2, AgedPriority(st)) # {}
  BY <1>1, <1>2, <1>4, SomebodyIsBest DEF IInv, TypeOK
<1>6. PICK p \in BestProcess(table2, AgedPriority(st)) :
         /\ current_pid' = p
         /\ state' = [table2 EXCEPT ![p] = RUNNING]
  BY <1>5 DEF TickFrom, Dispatch, table1, table2
<1>7. p \in PIDs
  BY BestIsReady
<1>8. state'[p] = RUNNING
  BY <1>4, <1>6, <1>7
<1>9. ASSUME NEW q \in PIDs, state'[q] = READY
      PROVE  priority'[p] <= priority'[q]
  <2>1. table2[q] = READY
    BY <1>4, <1>6, <1>7, <1>9 DEF READY, RUNNING
  <2> QED
    BY <1>1, <2>1, BestIsBest
<1> QED
  BY <1>6, <1>8, <1>9

\* Every end of a quantum dispatches the best candidate, for every number of
\* processes and every history of commands.
THEOREM BestDispatched == Spec => DispatchesBest
<1>1. ASSUME IInv, [Next]_vars, ProcessTick \/ SysYield, EndOfQuantum
      PROVE  /\ state'[current_pid'] = RUNNING
             /\ \A p \in PIDs : state'[p] = READY => priority'[current_pid'] <= priority'[p]
  <2>1. CASE ProcessTick
    BY <1>1, <2>1, TableIsTickInput, TickDispatchesBest DEF ProcessTick
  <2>2. CASE SysYield
    BY <1>1, <2>2, YieldIsTickInput, TickDispatchesBest DEF SysYield
  <2> QED
    BY <1>1, <2>1, <2>2
<1>2. IInv /\ [Next]_vars
      => [(ProcessTick \/ SysYield) /\ EndOfQuantum
            => /\ state'[current_pid'] = RUNNING
               /\ \A p \in PIDs : state'[p] = READY => priority'[current_pid'] <= priority'[p]]_vars
  BY <1>1
<1> QED
  BY <1>2, Invariance, PTL DEF Spec, DispatchesBest

(***************************************************************************)
(* Sleepers, as long as the times asked for fit an int                     *)
(***************************************************************************)

\* Every sleeper has time left.
SleepersHaveTime == \A p \in PIDs : state[p] = SLEEP => sleep_ticks[p] > 0

\* A count above 0 goes down by one and does not wrap.
LEMMA OneTickLess ==
  ASSUME NEW n \in Int32, n > 0
  PROVE  WrapInt(n - 1) = n - 1
<1>1. \A a \in Int, b \in Int : 0 <= a /\ a < b => a % b = a
  OBVIOUS
<1>2. /\ n - 1 + IntMax + 1 \in Int /\ 2 * IntMax + 2 \in Int
      /\ 0 <= n - 1 + IntMax + 1 /\ n - 1 + IntMax + 1 < 2 * IntMax + 2
  BY ProcessAssumption DEF Int32
<1> QED
  BY <1>1, <1>2, ProcessAssumption DEF WrapInt, Int32

\* After a tick a sleeper was one before it and has time left, and a sleeper
\* woken by it had a single tick left.
LEMMA TickSleepers ==
  ASSUME IInv, NEW st, TickInput(st), TickFrom(st), NEW p \in PIDs,
         st[p] = SLEEP => state[p] = SLEEP /\ sleep_ticks[p] > 0
  PROVE  /\ state'[p] = SLEEP => sleep_ticks'[p] > 0
         /\ state'[p] = READY /\ sleep_ticks'[p] # sleep_ticks[p] => sleep_ticks[p] = 1
<1> DEFINE table1 == WokenAndReaped(st)
           table2 == Preempted(table1)
<1>1. /\ sleep_ticks' = SleepLeft(st)
      /\ sleep_ticks'[p] = IF st[p] = SLEEP THEN WrapInt(sleep_ticks[p] - 1)
                           ELSE sleep_ticks[p]
  BY DEF TickFrom, SleepLeft
<1>2. st[p] = SLEEP => sleep_ticks'[p] = sleep_ticks[p] - 1 /\ sleep_ticks[p] \in Int
  BY <1>1, OneTickLess DEF IInv, TypeOK, Int32
<1>3. table1 \in [PIDs -> States]
  BY TickTypes DEF IInv, TickInput
<1>4. /\ table1[p] = SLEEP => st[p] = SLEEP /\ sleep_ticks'[p] > 0
      /\ st[p] = SLEEP => table1[p] = SLEEP \/ (table1[p] = READY /\ sleep_ticks'[p] <= 0)
  <2>1. table1[p] = IF st[p] = SLEEP /\ sleep_ticks'[p] <= 0 THEN READY
                    ELSE IF st[p] = ZOMBIE /\ p # 0 THEN EMPTY
                    ELSE st[p]
    BY <1>1 DEF WokenAndReaped
  <2> QED
    BY <1>2, <2>1 DEF READY, SLEEP, EMPTY, ZOMBIE
<1> HIDE DEF table1
<1>5. /\ state'[p] = SLEEP => table1[p] = SLEEP
      /\ state'[p] = READY => table1[p] # SLEEP
  <2>1. table2 \in [PIDs -> States] /\ (table2[p] = SLEEP <=> table1[p] = SLEEP)
    BY <1>3 DEF Preempted, States, RUNNING, READY, SLEEP
  <2> HIDE DEF table2
  <2>2. \/ state' = table1
        \/ state' = table2
        \/ \E q \in BestProcess(table2, AgedPriority(st)) : state' = [table2 EXCEPT ![q] = RUNNING]
    BY DEF TickFrom, Dispatch, table1, table2
  <2> QED
    BY <1>3, <2>1, <2>2, BestIsReady DEF RUNNING, READY, SLEEP
<1> QED
  BY <1>1, <1>2, <1>4, <1>5 DEF READY, SLEEP

\* sleep and SYS_SLEEP are kept: a process that sleeps becomes READY by the tick
\* that takes its last one off (process_tick), never earlier.
THEOREM SleepersWake ==
  ASSUME \A seconds \in Seconds : WrapInt(seconds * TicksPerSecond) > 0
  PROVE  Spec => SleepersWakeOnTime
<1> DEFINE WakesOnTime(p) ==
      state[p] = SLEEP /\ state'[p] = READY /\ sleep_ticks'[p] # sleep_ticks[p]
          => sleep_ticks[p] = 1
<1>1. Init => SleepersHaveTime
  BY DEF Init, SleepersHaveTime, RUNNING, EMPTY, SLEEP
<1>2. ASSUME IInv, SleepersHaveTime, Next
      PROVE  SleepersHaveTime' /\ \A p \in PIDs : WakesOnTime(p)
  <2>1. state \in [PIDs -> States] /\ sleep_ticks \in [PIDs -> Int32] /\ current_pid \in PIDs
    BY <1>2 DEF IInv, TypeOK
  <2>2. CASE ProcessTick
    <3>1. TickInput(state) /\ TickFrom(state)
      BY <1>2, <2>2, TableIsTickInput DEF ProcessTick
    <3> QED
      BY <1>2, <3>1, TickSleepers DEF SleepersHaveTime
  <2>3. CASE SysYield
    <3> DEFINE st == [state EXCEPT ![current_pid] = READY]
    <3>1. TickInput(st) /\ TickFrom(st)
      BY <1>2, <2>3, YieldIsTickInput DEF SysYield
    <3>2. \A p \in PIDs : st[p] = SLEEP => state[p] = SLEEP
      BY <2>1 DEF READY, SLEEP
    <3> HIDE DEF st
    <3> QED
      BY <1>2, <3>1, <3>2, TickSleepers DEF SleepersHaveTime
  <2>4. ASSUME NEW size \in MemSizes, CreateProcess(size)
        PROVE  SleepersHaveTime' /\ \A p \in PIDs : WakesOnTime(p)
    <3>1. /\ next_pid \in PIDs /\ state[next_pid] = EMPTY
          /\ state' = [state EXCEPT ![next_pid] = READY]
          /\ sleep_ticks' = [sleep_ticks EXCEPT ![next_pid] = 0]
      BY <1>2, <2>4, ProcessAssumption
         DEF IInv, TypeOK, UncreatedSlotsUnused, CreateProcess, PIDs
    <3> QED
      BY <1>2, <2>1, <3>1 DEF SleepersHaveTime, READY, SLEEP, EMPTY
  <2>5. ASSUME NEW pid \in PIDs, NEW seconds \in Seconds, SleepProcess(pid, seconds)
        PROVE  SleepersHaveTime' /\ \A p \in PIDs : WakesOnTime(p)
    <3>1. /\ state' = [state EXCEPT ![pid] = SLEEP]
          /\ sleep_ticks' = [sleep_ticks EXCEPT ![pid] = WrapInt(seconds * TicksPerSecond)]
          /\ WrapInt(seconds * TicksPerSecond) > 0
      BY <2>5 DEF SleepProcess
    <3> QED
      BY <1>2, <2>1, <3>1 DEF SleepersHaveTime, READY, SLEEP
  <2>6. CASE \/ \E pid \in PIDs : KillProcess(pid) \/ RunUserProcess(pid)
             \/ \E pid \in UserPIDs : ReapZombie(pid)
             \/ \E pid \in PIDs, prio \in 0..MaxPriority : SetPriority(pid, prio)
             \/ ShellYield
    <3>1. UNCHANGED sleep_ticks
      BY <2>6 DEF KillProcess, RunUserProcess, ReapZombie, SetPriority, ShellYield
    <3>2. \A p \in PIDs : state'[p] = SLEEP => state[p] = SLEEP
      BY <2>1, <2>6 DEF KillProcess, RunUserProcess, Preempted, ReapZombie, SetPriority,
         ShellYield, EMPTY, RUNNING, READY, SLEEP, ZOMBIE
    <3> QED
      BY <1>2, <3>1, <3>2 DEF SleepersHaveTime
  <2> QED
    BY <1>2, <2>2, <2>3, <2>4, <2>5, <2>6 DEF Next, Command
<1>3. IInv /\ SleepersHaveTime /\ [Next]_vars
      => SleepersHaveTime' /\ [\A p \in PIDs : WakesOnTime(p)]_vars
  BY <1>2 DEF vars, table, SleepersHaveTime
<1> QED
  BY <1>1, <1>3, Invariance, PTL DEF Spec, SleepersWakeOnTime

(***************************************************************************)
(* Sums over a finite set, as FoldFunctionOnSet computes them              *)
(***************************************************************************)

\* A set of naturals that starts at 0 and never ends holds them all.
LEMMA Counting ==
  ASSUME NEW T, 0 \in T, \A n \in Nat : n \in T => n + 1 \in T
  PROVE  \A n \in Nat : n \in T
<1> SUFFICES ASSUME Nat \ T # {} PROVE FALSE
  OBVIOUS
<1>1. PICK n \in Nat \ T : \A m \in Nat \ T : n <= m
  BY LeastNatural
<1>2. n - 1 \in Nat /\ n - 1 < n
  BY <1>1
<1>3. n - 1 \in T
  BY <1>1, <1>2
<1> QED
  BY <1>1, <1>2, <1>3

\* Taking an element away makes a subset smaller.
LEMMA Smaller ==
  ASSUME NEW S, IsFiniteSet(S), NEW u \in SUBSET S, NEW x \in u
  PROVE  /\ Cardinality(u) \in Nat /\ Cardinality(u \ {x}) \in Nat
         /\ Cardinality(u \ {x}) = Cardinality(u) - 1
         /\ u \ {x} \in SUBSET S
<1>1. IsFiniteSet(u)
  BY FS_Subset
<1>2. IsFiniteSet(u \ {x}) /\ Cardinality(u \ {x}) = Cardinality(u) - 1
  BY <1>1, FS_RemoveElement
<1> QED
  BY <1>1, <1>2, FS_CardinalityType

\* A subset of at most no element is empty.
LEMMA NoneLeft ==
  ASSUME NEW S, IsFiniteSet(S), NEW u \in SUBSET S, Cardinality(u) <= 0
  PROVE  u = {}
<1>1. IsFiniteSet(u)
  BY FS_Subset
<1>2. Cardinality(u) = 0
  BY <1>1, FS_CardinalityType
<1> QED
  BY <1>1, <1>2, FS_EmptySet

\* The element a fold takes first.
Picked(u) == CHOOSE x \in u : TRUE

\* g adds up the sizes of each set in D, as the fold does: one element after
\* the other.
Sums(g, size, D) ==
  g = [u \in D |-> IF u = {} THEN 0 ELSE size[Picked(u)] + g[u \ {Picked(u)}]]

\* There is such a g for the subsets of a finite set: by the number of their
\* elements.
LEMMA SumsExist ==
  ASSUME NEW S, IsFiniteSet(S), NEW size
  PROVE  \E g : Sums(g, size, SUBSET S)
<1> DEFINE Upto(k) == {u \in SUBSET S : Cardinality(u) <= k}
           T == {k \in Nat : \E g : Sums(g, size, Upto(k))}
<1>1. 0 \in T
  <2> DEFINE g == [u \in Upto(0) |-> 0]
  <2>1. \A u \in Upto(0) : u = {}
    BY NoneLeft
  <2>2. Sums(g, size, Upto(0))
    BY <2>1 DEF Sums
  <2> QED
    BY <2>2
<1>2. ASSUME NEW k \in Nat, k \in T PROVE k + 1 \in T
  <2>1. PICK g : Sums(g, size, Upto(k))
    BY <1>2
  <2> DEFINE h == [u \in Upto(k + 1) |->
                      IF u = {} THEN 0 ELSE size[Picked(u)] + g[u \ {Picked(u)}]]
             h2 == [u \in Upto(k + 1) |->
                      IF u = {} THEN 0 ELSE size[Picked(u)] + h[u \ {Picked(u)}]]
  <2>2. ASSUME NEW v \in Upto(k) PROVE g[v] = h[v]
    <3>1. v \in Upto(k + 1)
      <4>1. IsFiniteSet(v) /\ Cardinality(v) \in Nat
        BY FS_Subset, FS_CardinalityType
      <4> QED
        BY <4>1
    <3>2. g[v] = IF v = {} THEN 0 ELSE size[Picked(v)] + g[v \ {Picked(v)}]
      BY <2>1, Zenon DEF Sums
    <3> QED
      BY <3>1, <3>2, Zenon
  <2>3. ASSUME NEW u \in Upto(k + 1), u # {} PROVE u \ {Picked(u)} \in Upto(k)
    <3>1. Picked(u) \in u
      BY <2>3, Zenon DEF Picked
    <3> QED
      BY <3>1, Smaller
  <2>4. ASSUME NEW u \in Upto(k + 1) PROVE h[u] = h2[u]
    <3>1. CASE u = {}
      BY <3>1
    <3>2. CASE u # {}
      <4>1. g[u \ {Picked(u)}] = h[u \ {Picked(u)}]
        BY <2>2, <2>3, <3>2, Zenon
      <4>2. h[u] = size[Picked(u)] + g[u \ {Picked(u)}] /\ h2[u] = size[Picked(u)] + h[u \ {Picked(u)}]
        BY <3>2, Zenon
      <4> QED
        BY <4>1, <4>2, Zenon
    <3> QED
      BY <3>1, <3>2
  <2>5. h = h2
    BY <2>4, Zenon
  <2>6. Sums(h, size, Upto(k + 1))
    <3> HIDE DEF h
    <3> QED
      BY <2>5, Zenon DEF Sums
  <2>7. k + 1 \in Nat
    OBVIOUS
  <2> HIDE DEF h, Upto
  <2> QED
    BY <2>6, <2>7, Zenon
<1>3. PICK g : Sums(g, size, Upto(Cardinality(S)))
  <2>1. Cardinality(S) \in Nat
    BY FS_CardinalityType
  <2>2. Cardinality(S) \in T
    <3> HIDE DEF T
    <3> QED
      BY <1>1, <1>2, <2>1, Counting
  <2> QED
    BY <2>2
<1>4. Upto(Cardinality(S)) = SUBSET S
  BY FS_Subset
<1> QED
  BY <1>3, <1>4

\* What FoldFunctionOnSet adds up.
Total(size, S) == FoldFunctionOnSet(+, 0, size, S)

\* The fold is the value of such a g.
LEMMA FoldIsSum ==
  ASSUME NEW S, IsFiniteSet(S), NEW size
  PROVE  \E g : Sums(g, size, SUBSET S) /\ Total(size, S) = g[S]
<1> DEFINE h == CHOOSE g : Sums(g, size, SUBSET S)
<1>1. Sums(h, size, SUBSET S)
  BY SumsExist, Zenon
<1>2. Total(size, S) = h[S]
  BY Zenon DEF Total, FoldFunctionOnSet, MapThenFoldSet, Sums, Picked
<1> QED
  BY <1>1, <1>2

\* The sum over a set depends only on the values at its elements.
LEMMA SumsAgree ==
  ASSUME NEW S, IsFiniteSet(S), NEW size, NEW g, Sums(g, size, SUBSET S),
         NEW D \in SUBSET S, NEW size2, \A x \in D : size2[x] = size[x]
  PROVE  Total(size2, D) = g[D]
<1>1. IsFiniteSet(D)
  BY FS_Subset
<1>2. PICK g2 : Sums(g2, size2, SUBSET D) /\ Total(size2, D) = g2[D]
  BY <1>1, FoldIsSum
<1> DEFINE T == {k \in Nat : \A u \in SUBSET D : Cardinality(u) <= k => g2[u] = g[u]}
<1>3. ASSUME NEW u \in SUBSET D
      PROVE  /\ u = {} => g[u] = 0 /\ g2[u] = 0
             /\ u # {} => \E x \in u : /\ g[u] = size[x] + g[u \ {x}]
                                       /\ g2[u] = size2[x] + g2[u \ {x}]
  <2>1. u \in SUBSET S /\ u \in SUBSET D
    OBVIOUS
  <2>2. u # {} => Picked(u) \in u
    BY Zenon DEF Picked
  <2>3. g[u] = IF u = {} THEN 0 ELSE size[Picked(u)] + g[u \ {Picked(u)}]
    BY <2>1, Zenon DEF Sums
  <2>4. g2[u] = IF u = {} THEN 0 ELSE size2[Picked(u)] + g2[u \ {Picked(u)}]
    BY <1>2, <2>1, Zenon DEF Sums
  <2> QED
    BY <2>2, <2>3, <2>4, Zenon
<1>4. 0 \in T
  <2>1. \A u \in SUBSET D : Cardinality(u) <= 0 => u = {}
    BY <1>1, NoneLeft
  <2>2. \A u \in SUBSET D : Cardinality(u) <= 0 => g[u] = 0 /\ g2[u] = 0
    BY <1>3, <2>1, Zenon
  <2> QED
    BY <2>2
<1>5. ASSUME NEW k \in Nat, k \in T PROVE k + 1 \in T
  <2>1. ASSUME NEW u \in SUBSET D, Cardinality(u) <= k + 1 PROVE g2[u] = g[u]
    <3>1. CASE u = {}
      <4>1. g[u] = 0 /\ g2[u] = 0
        BY <1>3, <3>1, Zenon
      <4> QED
        BY <4>1
    <3>2. CASE u # {}
      <4>1. PICK x \in u : g[u] = size[x] + g[u \ {x}] /\ g2[u] = size2[x] + g2[u \ {x}]
        BY <1>3, <3>2, Zenon
      <4>2. u \ {x} \in SUBSET D /\ Cardinality(u \ {x}) <= k
        BY <1>1, <2>1, Smaller
      <4>3. g2[u \ {x}] = g[u \ {x}]
        BY <1>5, <4>2
      <4>4. size2[x] = size[x]
        OBVIOUS
      <4> QED
        BY <4>1, <4>3, <4>4
    <3> QED
      BY <3>1, <3>2
  <2> QED
    BY <2>1
<1>6. Cardinality(D) \in Nat
  BY <1>1, FS_CardinalityType
<1>7. Cardinality(D) \in T
  <2> HIDE DEF T
  <2> QED
    BY <1>4, <1>5, <1>6, Counting
<1> QED
  BY <1>2, <1>6, <1>7

\* Any element can be the last one added.
LEMMA SumsSplit ==
  ASSUME NEW S, IsFiniteSet(S), NEW size, \A x \in S : size[x] \in Nat,
         NEW g, Sums(g, size, SUBSET S)
  PROVE  g[S] \in Nat /\ \A y \in S : g[S] = size[y] + g[S \ {y}]
<1> DEFINE T == {k \in Nat : \A u \in SUBSET S : Cardinality(u) <= k =>
                     g[u] \in Nat /\ \A y \in u : g[u] = size[y] + g[u \ {y}]}
<1>1. ASSUME NEW u \in SUBSET S
      PROVE  /\ u = {} => g[u] = 0
             /\ u # {} => \E x \in u : g[u] = size[x] + g[u \ {x}]
  <2>1. u # {} => Picked(u) \in u
    BY Zenon DEF Picked
  <2>2. g[u] = IF u = {} THEN 0 ELSE size[Picked(u)] + g[u \ {Picked(u)}]
    BY Zenon DEF Sums
  <2> QED
    BY <2>1, <2>2, Zenon
<1>2. 0 \in T
  <2>1. \A u \in SUBSET S : Cardinality(u) <= 0 => u = {}
    BY NoneLeft
  <2>2. \A u \in SUBSET S : Cardinality(u) <= 0 => g[u] = 0 /\ u = {}
    BY <1>1, <2>1, Zenon
  <2> QED
    BY <2>2
<1>3. ASSUME NEW k \in Nat, k \in T PROVE k + 1 \in T
  <2>1. ASSUME NEW u \in SUBSET S, Cardinality(u) <= k + 1, NEW y \in u
        PROVE  g[u] \in Nat /\ g[u] = size[y] + g[u \ {y}]
    <3>1. PICK x \in u : g[u] = size[x] + g[u \ {x}]
      BY <1>1, Zenon
    <3>2. /\ u \ {x} \in SUBSET S /\ Cardinality(u \ {x}) <= k
          /\ u \ {y} \in SUBSET S /\ Cardinality(u \ {y}) <= k
      BY <2>1, Smaller
    <3>3. size[x] \in Nat /\ size[y] \in Nat /\ g[u \ {x}] \in Nat /\ g[u \ {y}] \in Nat
      BY <1>3, <3>2
    <3>4. CASE x = y
      BY <3>1, <3>3, <3>4
    <3>5. CASE x # y
      <4>1. y \in u \ {x} /\ x \in u \ {y} /\ (u \ {x}) \ {y} = (u \ {y}) \ {x}
        BY <3>5
      <4>2. g[u \ {x}] = size[y] + g[(u \ {x}) \ {y}]
        BY <1>3, <3>2, <4>1
      <4>3. g[u \ {y}] = size[x] + g[(u \ {x}) \ {y}]
        BY <1>3, <3>2, <4>1
      <4>4. g[(u \ {x}) \ {y}] \in Nat
        <5>1. /\ (u \ {x}) \ {y} \in SUBSET S
              /\ Cardinality((u \ {x}) \ {y}) <= k
          BY <3>2, <4>1, Smaller
        <5> QED
          BY <1>3, <5>1
      <4> QED
        BY <3>1, <3>3, <4>2, <4>3, <4>4
    <3> QED
      BY <3>4, <3>5
  <2>2. ASSUME NEW u \in SUBSET S, u = {} PROVE g[u] \in Nat
    <3>1. g[u] = 0
      BY <1>1, <2>2, Zenon
    <3> QED
      BY <3>1
  <2>3. ASSUME NEW u \in SUBSET S, Cardinality(u) <= k + 1
        PROVE  g[u] \in Nat /\ \A y \in u : g[u] = size[y] + g[u \ {y}]
    <3>1. CASE u = {}
      BY <2>2, <3>1
    <3>2. CASE u # {}
      BY <2>1, <2>3, <3>2
    <3> QED
      BY <3>1, <3>2
  <2>4. k + 1 \in Nat
    OBVIOUS
  <2> QED
    BY <2>3, <2>4, Zenon
<1>4. Cardinality(S) \in Nat
  BY FS_CardinalityType
<1>5. Cardinality(S) \in T
  <2> HIDE DEF T
  <2> QED
    BY <1>2, <1>3, <1>4, Counting
<1> QED
  BY <1>4, <1>5

\* A total depends only on the values it adds up,
LEMMA TotalAgrees ==
  ASSUME NEW S, IsFiniteSet(S), NEW size, NEW size2, \A x \in S : size2[x] = size[x]
  PROVE  Total(size2, S) = Total(size, S)
<1>1. PICK g : Sums(g, size, SUBSET S) /\ Total(size, S) = g[S]
  BY FoldIsSum
<1>2. S \in SUBSET S
  OBVIOUS
<1>3. Total(size2, S) = g[S]
  BY <1>1, <1>2, SumsAgree
<1> QED
  BY <1>1, <1>3

\* and each of them can be the last one added.
LEMMA TotalSplits ==
  ASSUME NEW S, IsFiniteSet(S), NEW size, \A x \in S : size[x] \in Nat, NEW y \in S
  PROVE  /\ Total(size, S) \in Nat /\ Total(size, {}) = 0
         /\ Total(size, S) = size[y] + Total(size, S \ {y})
<1>1. PICK g : Sums(g, size, SUBSET S) /\ Total(size, S) = g[S]
  BY FoldIsSum
<1>2. g[S] \in Nat /\ g[S] = size[y] + g[S \ {y}]
  BY <1>1, SumsSplit
<1>3. Total(size, S \ {y}) = g[S \ {y}]
  <2>1. S \ {y} \in SUBSET S /\ \A x \in S \ {y} : size[x] = size[x]
    OBVIOUS
  <2> QED
    BY <1>1, <2>1, SumsAgree
<1>4. Total(size, {}) = 0
  <2>1. IsFiniteSet({})
    BY FS_EmptySet
  <2>2. PICK f : Sums(f, size, SUBSET {}) /\ Total(size, {}) = f[{}]
    BY <2>1, FoldIsSum
  <2>3. {} \in SUBSET {}
    OBVIOUS
  <2>4. f[{}] = 0
    BY <2>2, <2>3, Zenon DEF Sums
  <2> QED
    BY <2>2, <2>4
<1> QED
  BY <1>1, <1>2, <1>3, <1>4

\* Where the next process goes: first at UserBase, then behind the last one.
LEMMA NextBaseSteps ==
  ASSUME memory_size \in [PIDs -> Nat]
  PROVE  /\ NextBase(1) = UserBase
         /\ \A p \in UserPIDs : /\ NextBase(p) \in Nat
                                /\ NextBase(p + 1) = NextBase(p) + memory_size[p]
<1>1. ASSUME NEW p PROVE NextBase(p) = UserBase + Total(memory_size, 1..(p - 1))
  BY Zenon DEF NextBase, Total
<1>2. ASSUME NEW p \in UserPIDs
      PROVE  /\ Total(memory_size, 1..p) \in Nat /\ Total(memory_size, {}) = 0
             /\ Total(memory_size, 1..p) = memory_size[p] + Total(memory_size, 1..(p - 1))
  <2>1. p \in 1..p /\ (1..p) \ {p} = 1..(p - 1) /\ \A x \in 1..p : memory_size[x] \in Nat
    BY ProcessAssumption DEF UserPIDs, PIDs
  <2>2. IsFiniteSet(1..p)
    BY FS_Interval DEF UserPIDs
  <2>3. PICK S : S = 1..p
    OBVIOUS
  <2>4. /\ Total(memory_size, S) \in Nat /\ Total(memory_size, {}) = 0
        /\ Total(memory_size, S) = memory_size[p] + Total(memory_size, S \ {p})
    <3>1. IsFiniteSet(S) /\ p \in S /\ \A x \in S : memory_size[x] \in Nat
      BY <2>1, <2>2, <2>3, Zenon
    <3> QED
      BY <3>1, TotalSplits
  <2> QED
    BY <2>1, <2>3, <2>4, Zenon
<1>3. 1 \in UserPIDs /\ UserBase \in Nat
  BY ProcessAssumption DEF UserPIDs
<1>4. Total(memory_size, 1..0) = 0
  <2>1. 1..0 = {}
    OBVIOUS
  <2> QED
    BY <1>2, <1>3, <2>1
<1>5. NextBase(1) = UserBase
  BY <1>1, <1>3, <1>4
<1>6. ASSUME NEW p \in UserPIDs
      PROVE  NextBase(p) \in Nat /\ NextBase(p + 1) = NextBase(p) + memory_size[p]
  <2>1. p \in Nat /\ p >= 1 /\ p + 1 - 1 = p /\ memory_size[p] \in Nat
    BY ProcessAssumption DEF UserPIDs, PIDs
  <2>2. Total(memory_size, 1..(p - 1)) \in Nat
    <3>1. CASE p = 1
      BY <1>4, <3>1
    <3>2. CASE p # 1
      <4>1. p - 1 \in UserPIDs
        BY <2>1, <3>2, ProcessAssumption DEF UserPIDs
      <4> QED
        BY <1>2, <4>1
    <3> QED
      BY <3>1, <3>2
  <2> QED
    BY <1>1, <1>2, <1>3, <2>1, <2>2
<1> QED
  BY <1>5, <1>6

\* create_process reads the sizes of the slots below only.
LEMMA NextBaseKept ==
  ASSUME NEW p \in UserPIDs, \A q \in 1..(p - 1) : memory_size'[q] = memory_size[q]
  PROVE  NextBase(p)' = NextBase(p)
<1>1. NextBase(p) = UserBase + Total(memory_size, 1..(p - 1))
  BY Zenon DEF NextBase, Total
<1>2. NextBase(p)' = UserBase + Total(memory_size', 1..(p - 1))
  BY Zenon DEF NextBase, Total, FoldFunctionOnSet, MapThenFoldSet
<1>3. IsFiniteSet(1..(p - 1))
  BY FS_Interval DEF UserPIDs
<1>4. Total(memory_size', 1..(p - 1)) = Total(memory_size, 1..(p - 1))
  BY <1>3, TotalAgrees
<1> QED
  BY <1>1, <1>2, <1>4

(***************************************************************************)
(* Where create_process puts a process                                     *)
(***************************************************************************)

\* The regions of memory: the kernel's where process_init puts it, a created
\* process's where create_process did, still (no later creation moves it), and
\* nothing for the slots to come.
RegionsPlaced ==
    /\ memory_start \in [PIDs -> Nat]
    /\ memory_start[0] = KernelBase /\ memory_size[0] = KernelSize
    /\ \A p \in 1..(next_pid - 1) : memory_start[p] = NextBase(p)
    /\ \A p \in PIDs : p >= next_pid => memory_start[p] = 0 /\ memory_size[p] = 0

\* create_process writes the slot next_pid only, behind the slots below.
LEMMA CreatePlaces ==
  ASSUME IInv, RegionsPlaced, NEW size \in MemSizes, CreateProcess(size)
  PROVE  RegionsPlaced'
<1>1. /\ next_pid \in UserPIDs /\ next_pid \in PIDs /\ next_pid \in Nat /\ next_pid # 0
      /\ \A p \in PIDs : p \in Nat
      /\ \A p \in 1..next_pid : p \in UserPIDs /\ p \in PIDs
  <2>1. next_pid \in 1..MaxProcesses /\ next_pid < MaxProcesses
    BY DEF IInv, TypeOK, CreateProcess
  <2> QED
    BY <2>1, ProcessAssumption DEF PIDs, UserPIDs
<1>2. /\ memory_size' = [memory_size EXCEPT ![next_pid] = size]
      /\ memory_start' = [memory_start EXCEPT ![next_pid] = NextBase(next_pid)]
      /\ next_pid' = next_pid + 1
  BY DEF CreateProcess
<1>3. ASSUME NEW p \in 1..next_pid
      PROVE  NextBase(p)' = NextBase(p)
  <2>1. \A q \in 1..(p - 1) : memory_size'[q] = memory_size[q]
    BY <1>1, <1>2 DEF IInv, TypeOK
  <2> QED
    BY <1>1, <2>1, NextBaseKept
<1>4. NextBase(next_pid) \in Nat
  BY <1>1, NextBaseSteps DEF IInv, TypeOK
<1>5. memory_start' \in [PIDs -> Nat]
  BY <1>2, <1>4 DEF RegionsPlaced
<1>6. memory_start'[0] = KernelBase /\ memory_size'[0] = KernelSize
  BY <1>1, <1>2, ProcessAssumption DEF RegionsPlaced, IInv, TypeOK, PIDs
<1>7. ASSUME NEW p \in 1..(next_pid' - 1)
      PROVE  memory_start'[p] = NextBase(p)'
  <2>1. p \in 1..next_pid /\ p \in PIDs
    BY <1>1, <1>2
  <2>2. memory_start'[p] = NextBase(p)
    BY <1>1, <1>2, <2>1 DEF RegionsPlaced
  <2> QED
    BY <1>3, <2>1, <2>2
<1>8. ASSUME NEW p \in PIDs, p >= next_pid'
      PROVE  memory_start'[p] = 0 /\ memory_size'[p] = 0
  BY <1>1, <1>2, <1>8 DEF RegionsPlaced, IInv, TypeOK
<1> QED
  BY <1>5, <1>6, <1>7, <1>8 DEF RegionsPlaced

\* The other operations leave the regions alone.
LEMMA StepPlaces == IInv /\ RegionsPlaced /\ [Next]_vars => RegionsPlaced'
<1> SUFFICES ASSUME IInv, RegionsPlaced, [Next]_vars PROVE RegionsPlaced'
  OBVIOUS
<1>1. ASSUME UNCHANGED <<memory, next_pid>> PROVE RegionsPlaced'
  <2>1. memory_size' = memory_size /\ memory_start' = memory_start /\ next_pid' = next_pid
    BY <1>1 DEF memory
  <2>2. ASSUME NEW p \in 1..(next_pid - 1) PROVE NextBase(p)' = NextBase(p)
    <3>1. p \in UserPIDs
      BY ProcessAssumption DEF IInv, TypeOK, UserPIDs
    <3> QED
      BY <2>1, <3>1, NextBaseKept
  <2> QED
    BY <2>1, <2>2 DEF RegionsPlaced
<1>2. CASE \E size \in MemSizes : CreateProcess(size)
  BY <1>2, CreatePlaces
<1>3. CASE ~ \E size \in MemSizes : CreateProcess(size)
  <2>1. UNCHANGED <<memory, next_pid>>
    BY <1>3 DEF Next, Command, ProcessTick, SysYield, TickFrom, KillProcess, SleepProcess,
       RunUserProcess, ReapZombie, SetPriority, ShellYield, vars
  <2> QED
    BY <1>1, <2>1
<1> QED
  BY <1>2, <1>3

\* Created processes lie one behind the other.
LEMMA RegionsInOrder ==
  ASSUME IInv, RegionsPlaced, NEW p \in 0..(next_pid - 1), NEW q \in 0..(next_pid - 1), p < q
  PROVE  memory_start[p] + memory_size[p] <= memory_start[q]
<1>1. /\ next_pid \in Nat /\ next_pid <= MaxProcesses /\ memory_size \in [PIDs -> Nat]
      /\ \A r \in 1..(next_pid - 1) : r \in UserPIDs /\ r \in PIDs
      /\ 1 \in UserPIDs /\ 0 \in PIDs
  BY ProcessAssumption DEF IInv, TypeOK, UserPIDs, PIDs
<1>2. \A r \in UserPIDs : /\ NextBase(r) \in Nat
                          /\ NextBase(r + 1) = NextBase(r) + memory_size[r]
  BY <1>1, NextBaseSteps
<1>3. ASSUME NEW r \in UserPIDs
      PROVE  \A n \in Nat : r + n < next_pid => NextBase(r) <= NextBase(r + n)
  <2> DEFINE U == {n \in Nat : r + n < next_pid => NextBase(r) <= NextBase(r + n)}
  <2>1. r \in Nat /\ NextBase(r) \in Nat /\ r + 0 = r
    BY <1>2 DEF UserPIDs
  <2>2. 0 \in U
    BY <2>1
  <2>3. ASSUME NEW n \in Nat, n \in U PROVE n + 1 \in U
    <3>1. SUFFICES ASSUME r + (n + 1) < next_pid PROVE NextBase(r) <= NextBase(r + (n + 1))
      OBVIOUS
    <3>2. NextBase(r) <= NextBase(r + n) /\ r + n \in UserPIDs /\ r + n \in PIDs
      BY <1>1, <2>1, <2>3, <3>1, ProcessAssumption DEF UserPIDs, PIDs
    <3>3. (r + n) + 1 = r + (n + 1)
      BY <2>1
    <3>4. /\ NextBase(r + n) \in Nat /\ memory_size[r + n] \in Nat
          /\ NextBase(r + (n + 1)) = NextBase(r + n) + memory_size[r + n]
      BY <1>1, <1>2, <3>2, <3>3
    <3> QED
      BY <2>1, <3>2, <3>4
  <2> HIDE DEF U
  <2>4. \A n \in Nat : n \in U
    BY <2>2, <2>3, Counting
  <2> QED
    BY <2>4 DEF U
<1>4. memory_start[p] + memory_size[p] <= NextBase(p + 1)
  <2>1. CASE p = 0
    BY <1>1, <2>1, NextBaseSteps, ProcessAssumption DEF RegionsPlaced
  <2>2. CASE p # 0
    <3>1. p \in 1..(next_pid - 1)
      BY <1>1, <2>2
    <3>2. NextBase(p + 1) = NextBase(p) + memory_size[p] /\ NextBase(p) = memory_start[p]
          /\ memory_start[p] \in Nat /\ memory_size[p] \in Nat
      BY <1>1, <1>2, <3>1 DEF RegionsPlaced
    <3> QED
      BY <3>2
  <2> QED
    BY <2>1, <2>2
<1>5. /\ p + 1 \in UserPIDs /\ q \in 1..(next_pid - 1) /\ q \in PIDs /\ p \in PIDs
      /\ q - (p + 1) \in Nat /\ (p + 1) + (q - (p + 1)) = q
  BY <1>1, ProcessAssumption DEF UserPIDs, PIDs
<1>6. NextBase(p + 1) <= NextBase(q)
  <2>1. q < next_pid
    BY <1>1
  <2> QED
    BY <1>3, <1>5, <2>1
<1>7. NextBase(q) = memory_start[q] /\ memory_start[q] \in Nat /\ memory_start[p] \in Nat
      /\ memory_size[p] \in Nat /\ NextBase(p + 1) \in Nat
  BY <1>1, <1>2, <1>5 DEF RegionsPlaced
<1> QED
  BY <1>4, <1>6, <1>7

\* The bytes of a process.
Region(p) == memory_start[p]..(memory_start[p] + memory_size[p] - 1)

\* No byte belongs to two processes, ended and reaped ones included.
RegionsDisjoint ==
    \A p, q \in 0..(next_pid - 1) : p # q => Region(p) \cap Region(q) = {}

\* Regions one behind the other do not overlap.
LEMMA PlacedIsDisjoint == IInv /\ RegionsPlaced => RegionsDisjoint
<1> SUFFICES ASSUME IInv, RegionsPlaced PROVE RegionsDisjoint
  OBVIOUS
<1>1. \A p \in 0..(next_pid - 1) : /\ p \in Nat
                                   /\ memory_start[p] \in Nat /\ memory_size[p] \in Nat
  BY ProcessAssumption DEF IInv, TypeOK, RegionsPlaced, PIDs
<1>2. ASSUME NEW p \in 0..(next_pid - 1), NEW q \in 0..(next_pid - 1), p < q
      PROVE  Region(p) \cap Region(q) = {}
  BY <1>1, <1>2, RegionsInOrder DEF Region
<1>3. ASSUME NEW p \in 0..(next_pid - 1), NEW q \in 0..(next_pid - 1), p # q
      PROVE  Region(p) \cap Region(q) = {}
  <2>1. CASE p < q
    BY <1>2, <2>1
  <2>2. CASE q < p
    BY <1>2, <2>2
  <2> QED
    BY <1>1, <1>3, <2>1, <2>2
<1> QED
  BY <1>3 DEF RegionsDisjoint

\* Every region stays where create_process put it.
THEOREM RegionsStay == Spec => []RegionsPlaced
<1>1. Init => RegionsPlaced
  BY ProcessAssumption DEF Init, RegionsPlaced, PIDs
<1> QED
  BY <1>1, StepPlaces, Invariance, PTL DEF Spec

\* create_process never gives out a byte twice, whatever sizes exec and fork ask
\* for and in whatever order processes end.
THEOREM MemoryDisjoint == Spec => []RegionsDisjoint
BY Invariance, RegionsStay, PlacedIsDisjoint, PTL
=============================================================================
