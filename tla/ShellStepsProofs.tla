-------------------------- MODULE ShellStepsProofs ---------------------------
(***************************************************************************)
(* What the shell's commands can rely on while IRQ0 comes between any two  *)
(* of their statements, for every number of slots, quantum and priority    *)
(* range.                                                                  *)
(***************************************************************************)
EXTENDS ShellSteps, ProcessProofs

PCs == {"line", "user"} \cup Callee \cup Execute

StepTypes ==
    /\ TypeOK
    /\ pc \in PCs
    /\ pid \in PIDs
    /\ regs \in Frames
    /\ context \in [PIDs -> Frames \cup {Invalid, Fresh}]

\* What a statement finds in the shell's locals: a slot being filled in is the
\* next one, and a command that passed its test works on a created user process.
Locals ==
    /\ pc \in Creating => pid = next_pid /\ next_pid < MaxProcesses
    /\ pc \in Creating \cup {"create"} => arg \in MemSizes
    /\ pc \in {"sleep", "SLEEP", "sleep_ticks"} => arg \in Seconds
    /\ pc \in {"setprio", "prio"} => arg \in 0..MaxPriority
    /\ pc \in {"poll", "verdict", "ended"} => pid # 0
    /\ pc \in {"ZOMBIE", "SLEEP", "sleep_ticks", "stop", "current_pid"} =>
          pid \in 1..(next_pid - 1)

\* Only the slot being filled in is used before next_pid counts it, and only a
\* tick in create_process can make it the current one.
Occupied ==
    /\ state[0] # EMPTY
    /\ \A p \in PIDs : p >= next_pid /\ state[p] # EMPTY => p = next_pid /\ pc \in Creating
    /\ \/ current_pid < next_pid
       \/ current_pid = next_pid /\ pc \in Creating /\ "create" \in hit

Parents ==
    "create" \notin hit => /\ ParentIsOlder
                           /\ pc \in {"context", "next_pid"} =>
                                parent_pid[next_pid] \in 0..(next_pid - 1)

Registered ==
    /\ \A p \in 1..(next_pid - 1) : context[p] # Invalid
    /\ pc = "next_pid" => context[next_pid] # Invalid

\* Until runu gives the CPU away, the shell's frame is in the registers when
\* process 0 is current and in its context when not; the others have zeros.
Placed ==
    "create" \notin hit /\ pc \notin {"RUNNING", "jump", "user"} =>
        /\ current_pid = 0 => regs = Frame(pc)
        /\ current_pid # 0 => regs = "zero" /\ context[0] = Frame(pc)
        /\ \A p \in PIDs \ {0} : context[p] \in {Invalid, Fresh, "zero"}

\* runu stops the current process before it starts the other.
RunsOne ==
    "run" \notin hit => /\ OnlyCurrentRuns
                        /\ pc \in {"current_pid", "RUNNING"} =>
                              \A p \in PIDs : state[p] # RUNNING

Timed ==
    /\ SleepersAreTimed
    /\ pc = "priority" => state[pid] # SLEEP

SInv == /\ StepTypes /\ Locals /\ Occupied /\ Parents /\ Registered /\ Placed
        /\ RunsOne /\ WaitFreesTheEnded

(***************************************************************************)
(* A tick                                                                  *)
(***************************************************************************)

\* What process_tick does to a table, whoever is current.
LEMMA TickEffect ==
    ASSUME TypeOK, ProcessTick
    PROVE  /\ TypeOK'
           /\ UNCHANGED <<next_pid, parent_pid>>
           /\ \A p \in PIDs : state'[p] = SLEEP => state[p] = SLEEP /\ sleep_ticks'[p] > 0
           /\ \A p \in PIDs : state[p] = EMPTY => state'[p] = EMPTY
           /\ \A p \in PIDs : state[p] = ZOMBIE /\ p # 0 => state'[p] = EMPTY
           /\ state[0] # EMPTY => state'[0] # EMPTY
           /\ current_pid' # current_pid => state[current_pid'] # EMPTY
           /\ OnlyCurrentRuns => OnlyCurrentRuns'
<1> USE ProcessAssumption
<1> DEFINE t1 == WokenAndReaped(state)
           t2 == Preempted(t1)
<1>1. /\ t1 \in [PIDs -> States]
      /\ AgedWait(state) \in [PIDs -> 0..(AgeLimit - 1)]
      /\ AgedPriority(state) \in [PIDs -> 0..MaxPriority]
      /\ SleepLeft(state) \in [PIDs -> Int32]
  BY TickTypes DEF TypeOK
<1>2. /\ TickFrom(state) /\ UNCHANGED <<next_pid, parent_pid, memory>>
      /\ sleep_ticks' = SleepLeft(state) /\ priority' = AgedPriority(state)
  BY DEF ProcessTick, TickFrom
<1>3. \A p \in PIDs :
         /\ t1[p] = SLEEP => state[p] = SLEEP /\ SleepLeft(state)[p] > 0
         /\ state[p] = EMPTY => t1[p] = EMPTY
         /\ state[p] = ZOMBIE /\ p # 0 => t1[p] = EMPTY
         /\ t1[p] = EMPTY => state[p] = EMPTY \/ p # 0
         /\ t1[p] = RUNNING => state[p] = RUNNING
  <2> SUFFICES ASSUME NEW p \in PIDs
               PROVE  /\ t1[p] = SLEEP => state[p] = SLEEP /\ SleepLeft(state)[p] > 0
                      /\ state[p] = EMPTY => t1[p] = EMPTY
                      /\ state[p] = ZOMBIE /\ p # 0 => t1[p] = EMPTY
                      /\ t1[p] = EMPTY => state[p] = EMPTY \/ p # 0
                      /\ t1[p] = RUNNING => state[p] = RUNNING
    OBVIOUS
  <2>1. SleepLeft(state)[p] \in Int
    BY <1>1 DEF Int32
  <2>2. t1[p] = IF state[p] = SLEEP /\ SleepLeft(state)[p] <= 0 THEN READY
                ELSE IF state[p] = ZOMBIE /\ p # 0 THEN EMPTY
                ELSE state[p]
    BY DEF WokenAndReaped
  <2> HIDE DEF t1
  <2> QED
    BY <2>1, <2>2 DEF EMPTY, RUNNING, READY, SLEEP, ZOMBIE
<1>4. /\ t2 \in [PIDs -> States]
      /\ \A p \in PIDs : t2[p] = t1[p] \/ (t1[p] = RUNNING /\ t2[p] = READY)
      /\ OnlyCurrentRuns => \A p \in PIDs : t2[p] # RUNNING
  <2> HIDE DEF t1
  <2> QED
    BY <1>1, <1>3 DEF TypeOK, OnlyCurrentRuns, Preempted, States, EMPTY, RUNNING,
       READY, SLEEP, ZOMBIE
<1> DEFINE best == BestProcess(t2, AgedPriority(state))
<1>5. CASE EndOfQuantum /\ best # {}
  <2>1. PICK p \in best : /\ last_rr_pid' = p /\ current_pid' = p
                          /\ state' = [t2 EXCEPT ![p] = RUNNING]
                          /\ wait_ticks' = [AgedWait(state) EXCEPT ![p] = 0]
    BY <1>2, <1>5 DEF TickFrom, Dispatch
  <2>2. p \in PIDs /\ t2[p] = READY
    BY BestIsReady
  <2>3. timer_ticks' = 0
    BY <1>2, <1>5 DEF TickFrom
  <2> HIDE DEF t1, t2, best
  <2>4. TypeOK'
    BY <1>1, <1>2, <1>4, <2>1, <2>2, <2>3 DEF TypeOK, memory, States
  <2>5. \A q \in PIDs : state'[q] = IF q = p THEN RUNNING ELSE t2[q]
    BY <1>4, <2>1
  <2>6. 0 \in PIDs
    BY DEF PIDs
  <2> QED
    BY <1>2, <1>3, <1>4, <2>1, <2>2, <2>4, <2>5, <2>6
       DEF OnlyCurrentRuns, EMPTY, RUNNING, READY, SLEEP, ZOMBIE
<1>6. CASE ~(EndOfQuantum /\ best # {})
  <2>1. /\ UNCHANGED <<current_pid, last_rr_pid>>
        /\ wait_ticks' = AgedWait(state)
        /\ \/ state' = t2 \/ state' = t1
    BY <1>2, <1>6 DEF TickFrom, Dispatch
  <2>2. timer_ticks' \in 0..(Quantum - 1)
    BY <1>2 DEF TickFrom, TypeOK, EndOfQuantum
  <2> HIDE DEF t1, t2, best
  <2>3. TypeOK'
    BY <1>1, <1>2, <1>4, <2>1, <2>2 DEF TypeOK, memory
  <2>4. 0 \in PIDs
    BY DEF PIDs
  <2> QED
    BY <1>2, <1>3, <1>4, <2>1, <2>3, <2>4
       DEF OnlyCurrentRuns, EMPTY, RUNNING, READY, SLEEP, ZOMBIE
<1> QED
  BY <1>5, <1>6

\* Every place of the shell has a frame of its own, which no dispatch makes up.
LEMMA FrameIsOwn == ASSUME NEW at \in PCs PROVE Frame(at) \in {"line", "execute", "callee", "user"}
BY DEF PCs, Frame, Callee, Creating, Entering, Execute

LEMMA WindowOf ==
    /\ pc \in Creating => Window = {"create"}
    /\ pc \in Entering => Window = {"run"}
BY DEF Window, Creating, Entering

\* What timer_irq_dispatch does to the registers and the saved contexts.
LEMMA TickRegisters ==
    ASSUME SInv, TimerIRQ
    PROVE  /\ regs' \in Frames
           /\ context' \in [PIDs -> Frames \cup {Invalid, Fresh}]
           /\ Registered'
           /\ Placed'
<1> USE ProcessAssumption
<1>1. /\ current_pid \in PIDs /\ current_pid' \in PIDs /\ 0 \in PIDs
      /\ next_pid \in Nat /\ next_pid' = next_pid /\ pid \in PIDs
      /\ current_pid' # current_pid => state[current_pid'] # EMPTY
  <2>1. TypeOK /\ ProcessTick /\ pid \in PIDs
    BY DEF SInv, StepTypes, TimerIRQ
  <2>2. /\ TypeOK' /\ next_pid' = next_pid
        /\ current_pid' # current_pid => state[current_pid'] # EMPTY
    BY <2>1, TickEffect
  <2> QED
    BY <2>1, <2>2 DEF TypeOK, PIDs
<1>2. /\ context' = Save /\ regs' = Load /\ hit' = hit \cup Window
      /\ UNCHANGED <<pc, pid, arg>>
  BY DEF TimerIRQ
<1>3. /\ context \in [PIDs -> Frames \cup {Invalid, Fresh}] /\ regs \in Frames
      /\ Frame(pc) \in {"line", "execute", "callee", "user"}
  BY FrameIsOwn DEF SInv, StepTypes
<1>4. /\ context' \in [PIDs -> Frames \cup {Invalid, Fresh}]
      /\ \A p \in PIDs : context'[p] = context[p] \/ (p = current_pid /\ context'[p] = regs)
      /\ state[current_pid] # EMPTY => context'[current_pid] = regs
  BY <1>1, <1>2, <1>3 DEF Save
<1>5. /\ current_pid' = current_pid => regs' = regs
      /\ current_pid' # current_pid /\ context'[current_pid'] = Invalid => regs' = regs
      /\ current_pid' # current_pid /\ context'[current_pid'] = Fresh => regs' = "zero"
      /\ current_pid' # current_pid /\ context'[current_pid'] \notin {Invalid, Fresh}
            => regs' = context'[current_pid']
  BY <1>2 DEF Load, Invalid, Fresh
<1>6. regs' \in Frames
  BY <1>1, <1>3, <1>4, <1>5 DEF Frames
<1>7. Registered'
  <2>1. Invalid \notin Frames
    BY DEF Invalid, Frames
  <2>2. ASSUME NEW p \in PIDs, context[p] # Invalid
        PROVE  context'[p] # Invalid
    BY <1>3, <1>4, <2>1, <2>2
  <2>3. \A p \in 1..(next_pid - 1) : p \in PIDs
    BY DEF SInv, StepTypes, TypeOK, PIDs
  <2>4. pc = "next_pid" => next_pid \in PIDs
    BY <1>1 DEF SInv, Locals, Creating
  <2> QED
    BY <1>1, <1>2, <2>2, <2>3, <2>4 DEF SInv, Registered
<1>8. Placed'
  <2> SUFFICES ASSUME "create" \notin hit', pc \notin {"RUNNING", "jump", "user"}
               PROVE  /\ current_pid' = 0 => regs' = Frame(pc)
                      /\ current_pid' # 0 => regs' = "zero" /\ context'[0] = Frame(pc)
                      /\ \A p \in PIDs \ {0} : context'[p] \in {Invalid, Fresh, "zero"}
    BY <1>2 DEF Placed
  <2>1. "create" \notin hit /\ pc \notin Creating
    BY <1>2, WindowOf
  <2>2. /\ current_pid = 0 => regs = Frame(pc)
        /\ current_pid # 0 => regs = "zero" /\ context[0] = Frame(pc)
        /\ \A p \in PIDs \ {0} : context[p] \in {Invalid, Fresh, "zero"}
    BY <2>1 DEF SInv, Placed
  <2>3. state[0] # EMPTY
    BY DEF SInv, Occupied
  <2>4. \A p \in PIDs \ {0} : context'[p] \in {Invalid, Fresh, "zero"}
    BY <1>1, <1>4, <2>2
  <2>5. current_pid' # 0 => context'[0] = Frame(pc)
    BY <1>1, <1>3, <1>4, <2>2, <2>3
  <2>6. ASSUME current_pid' # current_pid, current_pid' # 0
        PROVE  regs' = "zero"
    <3>1. current_pid' \in 1..(next_pid - 1)
      BY <1>1, <2>1, <2>6 DEF SInv, Occupied, PIDs
    <3>2. context'[current_pid'] # Invalid
      BY <1>1, <1>7, <3>1 DEF Registered
    <3> QED
      BY <1>1, <1>5, <2>4, <2>6, <3>2
  <2>7. ASSUME current_pid' # current_pid, current_pid' = 0
        PROVE  regs' = Frame(pc)
    <3>1. context'[0] = Frame(pc)
      BY <1>1, <1>4, <2>2, <2>7
    <3> QED
      BY <1>3, <1>5, <2>7, <3>1 DEF Invalid, Fresh
  <2> QED
    BY <1>5, <2>2, <2>4, <2>5, <2>6, <2>7
<1> QED
  BY <1>4, <1>6, <1>7, <1>8

\* A tick between two statements keeps the invariant.
LEMMA TickKeeps ==
    ASSUME SInv, TimerIRQ
    PROVE  SInv'
<1> USE ProcessAssumption
<1>1. /\ TypeOK' /\ UNCHANGED <<next_pid, parent_pid, pc, pid, arg>>
      /\ \A p \in PIDs : state[p] = EMPTY => state'[p] = EMPTY
      /\ \A p \in PIDs : state[p] = ZOMBIE /\ p # 0 => state'[p] = EMPTY
      /\ state[0] # EMPTY => state'[0] # EMPTY
      /\ current_pid' # current_pid => state[current_pid'] # EMPTY
      /\ OnlyCurrentRuns => OnlyCurrentRuns'
  BY TickEffect DEF SInv, StepTypes, TimerIRQ
<1>2. hit' = hit \cup Window
  BY DEF TimerIRQ
<1>3. StepTypes' /\ Registered' /\ Placed'
  BY <1>1, TickRegisters DEF SInv, StepTypes
<1>4. Locals'
  BY <1>1 DEF SInv, Locals
<1>5. Occupied'
  <2>1. current_pid' \in PIDs /\ current_pid \in PIDs /\ next_pid \in Nat
    BY <1>1 DEF SInv, StepTypes, TypeOK
  <2>2. pc \in Creating => "create" \in hit'
    BY <1>2, WindowOf
  <2>3. current_pid' # current_pid /\ current_pid' >= next_pid
           => current_pid' = next_pid /\ pc \in Creating
    BY <1>1, <2>1 DEF SInv, Occupied
  <2>4. \/ current_pid' < next_pid
        \/ current_pid' = next_pid /\ pc \in Creating /\ "create" \in hit'
    BY <1>1, <2>1, <2>2, <2>3 DEF SInv, Occupied, PIDs
  <2> QED
    BY <1>1, <2>4 DEF SInv, Occupied
<1>6. Parents'
  BY <1>1, <1>2 DEF SInv, Parents, ParentIsOlder
<1>7. RunsOne'
  <2>1. "run" \notin hit' => "run" \notin hit /\ pc \notin Entering
    BY <1>2, WindowOf
  <2> QED
    BY <1>1, <2>1 DEF SInv, RunsOne, Entering
<1>8. WaitFreesTheEnded'
  BY <1>1 DEF SInv, StepTypes, Locals, WaitFreesTheEnded
<1> QED
  BY <1>3, <1>4, <1>5, <1>6, <1>7, <1>8 DEF SInv

(***************************************************************************)
(* The shell's statements                                                  *)
(***************************************************************************)

\* A statement takes the shell, with its own frame, to another place; none but
\* the stores of run_user_process changes who is current.
LEMMA MoveKeepsPlaced ==
    ASSUME SInv, pc \in PCs, pc' \in PCs,
           regs = Frame(pc), regs' = Frame(pc'), hit' = hit,
           current_pid' = current_pid \/ pc' = "RUNNING",
           pc \in {"RUNNING", "jump"} => pc' \in {"jump", "user"}, pc # "user",
           \A p \in PIDs : context'[p] = context[p] \/ (p # 0 /\ context'[p] = Fresh)
    PROVE  regs' \in Frames /\ Placed'
<1>1. /\ Frame(pc) \in {"line", "execute", "callee", "user"}
      /\ Frame(pc') \in {"line", "execute", "callee", "user"}
  BY FrameIsOwn
<1>2. current_pid \in PIDs /\ 0 \in PIDs
  BY ProcessAssumption DEF SInv, StepTypes, TypeOK, PIDs
<1>3. ASSUME "create" \notin hit', pc' \notin {"RUNNING", "jump", "user"}
      PROVE  /\ current_pid' = 0 /\ regs' = Frame(pc')
             /\ \A p \in PIDs \ {0} : context'[p] \in {Invalid, Fresh, "zero"}
  <2>1. "create" \notin hit /\ pc \notin {"RUNNING", "jump", "user"}
    BY <1>3
  <2>2. current_pid = 0 /\ \A p \in PIDs \ {0} : context[p] \in {Invalid, Fresh, "zero"}
    BY <1>1, <2>1 DEF SInv, Placed
  <2> QED
    BY <1>3, <2>2
<1> QED
  BY <1>1, <1>3 DEF Placed, Frames

\* What is left of the invariant when the registers are accounted for.
Rest ==
    /\ TypeOK /\ pc \in PCs /\ pid \in PIDs
    /\ context \in [PIDs -> Frames \cup {Invalid, Fresh}]
    /\ Locals /\ Occupied /\ Parents /\ Registered /\ RunsOne /\ WaitFreesTheEnded

\* A statement that only moves on, for a test that holds or fails.
LEMMA QuietKeeps ==
    ASSUME SInv, pc' \in PCs, pid' \in PIDs, Locals', UNCHANGED <<vars, context, hit>>,
           pc \notin Creating, pc' \notin Creating \cup {"current_pid", "RUNNING"},
           pc' = "ended" => state[pid'] \in {ZOMBIE, EMPTY}
    PROVE  Rest'
<1>1. UNCHANGED <<state, priority, sleep_ticks, wait_ticks, parent_pid, memory, current_pid,
                  next_pid, last_rr_pid, timer_ticks, context, hit>>
  BY DEF vars, table
<1>2. TypeOK' /\ (ParentIsOlder => ParentIsOlder') /\ (OnlyCurrentRuns => OnlyCurrentRuns')
  BY <1>1 DEF SInv, StepTypes, TypeOK, ParentIsOlder, OnlyCurrentRuns, memory
<1> QED
  BY <1>1, <1>2 DEF SInv, StepTypes, Rest, Occupied, Parents, Registered, RunsOne,
     WaitFreesTheEnded, Creating

LEMMA ClaimKeeps == ASSUME SInv, Claim PROVE Rest'
<1> USE ProcessAssumption
<1>1. /\ pc = "create" /\ pc' = "priority" /\ pid' = next_pid /\ next_pid < MaxProcesses
      /\ state' = [state EXCEPT ![next_pid] = READY]
      /\ UNCHANGED <<priority, sleep_ticks, wait_ticks, parent_pid, memory, current_pid,
                     next_pid, last_rr_pid, timer_ticks, context, hit, arg>>
  BY DEF Claim, Globals
<1>2. next_pid \in PIDs /\ next_pid # 0 /\ next_pid \in Nat
  BY <1>1 DEF SInv, StepTypes, TypeOK, PIDs
<1>3. TypeOK' /\ pc' \in PCs
  BY <1>1, <1>2 DEF SInv, StepTypes, TypeOK, memory, States, PCs, Callee, Creating
<1>4. Locals'
  BY <1>1, <1>2 DEF SInv, Locals, Creating
<1>5. Occupied'
  BY <1>1, <1>2 DEF SInv, StepTypes, TypeOK, Occupied, Creating
<1>6. Parents' /\ Registered' /\ WaitFreesTheEnded'
  BY <1>1 DEF SInv, Parents, ParentIsOlder, Registered, WaitFreesTheEnded
<1>7. RunsOne'
  BY <1>1, <1>2 DEF SInv, StepTypes, TypeOK, RunsOne, OnlyCurrentRuns, READY, RUNNING
<1> QED
  BY <1>1, <1>2, <1>3, <1>4, <1>5, <1>6, <1>7 DEF Rest, SInv, StepTypes

\* The four statements that fill in the slot that is not counted yet.
LEMMA FillKeeps ==
    ASSUME SInv, FillPriority \/ FillWait \/ FillParent \/ FillContext
    PROVE  Rest'
<1> USE ProcessAssumption
<1>1. /\ pc \in {"priority", "wait_ticks", "parent_pid", "context"}
      /\ pc' \in {"wait_ticks", "parent_pid", "context", "next_pid"}
      /\ pc = "context" <=> pc' = "next_pid"
      /\ pc = "parent_pid" <=> pc' = "context"
      /\ UNCHANGED <<state, current_pid, next_pid, last_rr_pid, timer_ticks, hit, pid, arg>>
      /\ pc # "context" => UNCHANGED context
      /\ pc = "context" => context' = [context EXCEPT ![pid] = Fresh]
      /\ pc # "parent_pid" => UNCHANGED parent_pid
      /\ pc = "parent_pid" => parent_pid' = [parent_pid EXCEPT ![pid] = current_pid]
  BY DEF FillPriority, FillWait, FillParent, FillContext, Step, Globals, vars, table, memory
<1>2. /\ pid = next_pid /\ next_pid \in PIDs /\ next_pid \in Nat /\ current_pid \in PIDs
      /\ arg \in Nat
  <2>1. pid = next_pid /\ next_pid < MaxProcesses /\ arg \in MemSizes
    BY <1>1 DEF SInv, Locals, Creating
  <2>2. next_pid \in 1..MaxProcesses /\ current_pid \in PIDs
    BY DEF SInv, StepTypes, TypeOK
  <2> QED
    BY <2>1, <2>2 DEF PIDs
<1>3. /\ priority' \in [PIDs -> 0..MaxPriority] /\ sleep_ticks' \in [PIDs -> Int32]
      /\ wait_ticks' \in [PIDs -> 0..(AgeLimit - 1)]
      /\ parent_pid' \in [PIDs -> -1..(MaxProcesses - 1)]
      /\ memory_size' \in [PIDs -> Nat]
  <2>1. 0 \in Int32 /\ 0 \in 0..(AgeLimit - 1) /\ current_pid \in -1..(MaxProcesses - 1)
    BY <1>2 DEF Int32, PIDs
  <2>2. CASE FillPriority
    BY <1>2, <2>1, <2>2 DEF FillPriority, SInv, StepTypes, TypeOK
  <2>3. CASE FillWait
    BY <1>2, <2>1, <2>3 DEF FillWait, SInv, StepTypes, TypeOK, memory
  <2>4. CASE FillParent
    BY <1>2, <2>1, <2>4 DEF FillParent, SInv, StepTypes, TypeOK, memory
  <2>5. CASE FillContext
    BY <1>2, <2>1, <2>5 DEF FillContext, SInv, StepTypes, TypeOK, vars, table, memory
  <2> QED
    BY <2>2, <2>3, <2>4, <2>5
<1>4. TypeOK' /\ pc' \in PCs
  BY <1>1, <1>2, <1>3 DEF SInv, StepTypes, TypeOK, PCs, Callee, Creating
<1>5. Locals' /\ Occupied'
  BY <1>1, <1>2 DEF SInv, Locals, Occupied, Creating
<1>6. Parents'
  <2>1. "create" \notin hit => current_pid \in 0..(next_pid - 1)
    <3>1. "create" \notin hit => current_pid < next_pid
      BY DEF SInv, Occupied
    <3> QED
      BY <1>2, <3>1 DEF PIDs
  <2>2. \A p \in 1..(next_pid - 1) : parent_pid'[p] = parent_pid[p]
    BY <1>1, <1>2 DEF SInv, StepTypes, TypeOK, PIDs
  <2>3. pc = "parent_pid" => parent_pid'[next_pid] = current_pid
    BY <1>1, <1>2 DEF SInv, StepTypes, TypeOK
  <2> QED
    BY <1>1, <1>2, <2>1, <2>2, <2>3 DEF SInv, Parents, ParentIsOlder
<1>7. Registered' /\ context' \in [PIDs -> Frames \cup {Invalid, Fresh}]
  BY <1>1, <1>2 DEF SInv, StepTypes, Registered, Invalid, Fresh, Frames, PIDs
<1>8. RunsOne' /\ WaitFreesTheEnded'
  BY <1>1 DEF SInv, RunsOne, OnlyCurrentRuns, WaitFreesTheEnded
<1> QED
  BY <1>1, <1>2, <1>4, <1>5, <1>6, <1>7, <1>8 DEF Rest

LEMMA PublishKeeps == ASSUME SInv, Publish PROVE Rest'
<1> USE ProcessAssumption
<1>1. /\ pc = "next_pid" /\ pc' = "line" /\ pid' = 0 /\ next_pid' = next_pid + 1
      /\ UNCHANGED <<state, priority, sleep_ticks, wait_ticks, parent_pid, memory, current_pid,
                     last_rr_pid, timer_ticks, context, hit>>
  BY DEF Publish, Step, table
<1>2. next_pid \in 1..(MaxProcesses - 1) /\ current_pid \in PIDs /\ 0 \in PIDs
  BY <1>1 DEF SInv, StepTypes, TypeOK, Locals, Creating, PIDs
<1>3. TypeOK' /\ pc' \in PCs
  BY <1>1, <1>2 DEF SInv, StepTypes, TypeOK, memory, PCs
<1>4. Locals'
  BY <1>1 DEF Locals, Creating
<1>5. Occupied'
  BY <1>1, <1>2 DEF SInv, Occupied, PIDs, Creating
<1>6. Parents' /\ Registered'
  BY <1>1, <1>2 DEF SInv, Parents, ParentIsOlder, Registered
<1>7. RunsOne' /\ WaitFreesTheEnded'
  BY <1>1 DEF SInv, RunsOne, OnlyCurrentRuns, WaitFreesTheEnded
<1> QED
  BY <1>1, <1>2, <1>3, <1>4, <1>5, <1>6, <1>7 DEF Rest, SInv, StepTypes

\* A store into the state of a created slot.
LEMMA OneStateKeeps ==
    ASSUME SInv, NEW p \in PIDs, NEW s \in States, p < next_pid \/ s = EMPTY,
           p = 0 => s # EMPTY, state' = [state EXCEPT ![p] = s],
           UNCHANGED <<priority, sleep_ticks, wait_ticks, parent_pid, memory, Globals>>,
           pc \notin Creating, pc' \notin Creating \cup {"ended"},
           pc' \in PCs, pid' \in PIDs, Locals', RunsOne'
    PROVE  Rest'
<1>1. UNCHANGED <<parent_pid, memory, current_pid, next_pid, context, hit>>
  BY DEF Globals
<1>2. TypeOK'
  BY DEF SInv, StepTypes, TypeOK, memory, Globals
<1>3. Occupied'
  BY <1>1 DEF SInv, StepTypes, TypeOK, Occupied, PIDs
<1>4. Parents' /\ Registered' /\ WaitFreesTheEnded'
  BY <1>1 DEF SInv, Parents, ParentIsOlder, Registered, WaitFreesTheEnded, Creating
<1> QED
  BY <1>1, <1>2, <1>3, <1>4 DEF Rest, SInv, StepTypes

\* The stores of kill, sleep, wait, yield and run_user_process.
LEMMA StateStoresKeep ==
    ASSUME SInv,
           \/ StoreState("ZOMBIE", pid, ZOMBIE, "line")
           \/ StoreState("SLEEP", pid, SLEEP, "sleep_ticks")
           \/ StoreState("ended", pid, EMPTY, "line")
           \/ StoreState("yield", current_pid, READY, "line")
           \/ StopCurrent
           \/ StoreState("RUNNING", current_pid, RUNNING, "jump")
    PROVE  Rest'
<1> USE ProcessAssumption
<1>1. /\ pid \in PIDs /\ current_pid \in PIDs /\ next_pid \in 1..MaxProcesses
      /\ 0 \in PIDs /\ state \in [PIDs -> States]
  BY DEF SInv, StepTypes, TypeOK, PIDs
<1>2. {ZOMBIE, SLEEP, EMPTY, READY, RUNNING} \subseteq States
  BY DEF States
<1>3. pc \notin Creating => current_pid < next_pid
  BY DEF SInv, Occupied
<1>4. CASE StoreState("ZOMBIE", pid, ZOMBIE, "line")
  <2>1. /\ pc = "ZOMBIE" /\ pc' = "line" /\ pid' = 0 /\ state' = [state EXCEPT ![pid] = ZOMBIE]
        /\ UNCHANGED <<priority, sleep_ticks, wait_ticks, parent_pid, memory, Globals>>
    BY <1>4 DEF StoreState, Step
  <2>2. pid < next_pid /\ pid # 0
    BY <1>1, <2>1 DEF SInv, Locals
  <2>3. Locals' /\ pc' \in PCs /\ pc \notin Creating /\ pc' \notin Creating \cup {"ended"}
    BY <2>1 DEF Locals, PCs, Creating
  <2>4. RunsOne'
    BY <1>1, <2>1 DEF SInv, RunsOne, OnlyCurrentRuns, Globals, ZOMBIE, RUNNING
  <2> QED
    BY <1>1, <1>2, <2>1, <2>2, <2>3, <2>4, OneStateKeeps
<1>5. CASE StoreState("SLEEP", pid, SLEEP, "sleep_ticks")
  <2>1. /\ pc = "SLEEP" /\ pc' = "sleep_ticks" /\ pid' = pid /\ arg' = arg
        /\ state' = [state EXCEPT ![pid] = SLEEP]
        /\ UNCHANGED <<priority, sleep_ticks, wait_ticks, parent_pid, memory, Globals>>
    BY <1>5 DEF StoreState, Step
  <2>2. pid < next_pid /\ pid # 0
    BY <1>1, <2>1 DEF SInv, Locals
  <2>3. Locals' /\ pc' \in PCs /\ pc \notin Creating /\ pc' \notin Creating \cup {"ended"}
    BY <2>1 DEF SInv, Locals, PCs, Callee, Creating, Globals
  <2>4. RunsOne'
    BY <1>1, <2>1 DEF SInv, RunsOne, OnlyCurrentRuns, Globals, SLEEP, RUNNING
  <2> QED
    BY <1>1, <1>2, <2>1, <2>2, <2>3, <2>4, OneStateKeeps
<1>6. CASE StoreState("ended", pid, EMPTY, "line")
  <2>1. /\ pc = "ended" /\ pc' = "line" /\ pid' = 0 /\ state' = [state EXCEPT ![pid] = EMPTY]
        /\ UNCHANGED <<priority, sleep_ticks, wait_ticks, parent_pid, memory, Globals>>
    BY <1>6 DEF StoreState, Step
  <2>2. pid # 0
    BY <2>1 DEF SInv, Locals
  <2>3. Locals' /\ pc' \in PCs /\ pc \notin Creating /\ pc' \notin Creating \cup {"ended"}
    BY <2>1 DEF Locals, PCs, Creating
  <2>4. RunsOne'
    BY <1>1, <2>1 DEF SInv, RunsOne, OnlyCurrentRuns, Globals, EMPTY, RUNNING
  <2> QED
    BY <1>1, <1>2, <2>1, <2>2, <2>3, <2>4, OneStateKeeps
<1>7. CASE StoreState("yield", current_pid, READY, "line")
  <2>1. /\ pc = "yield" /\ pc' = "line" /\ pid' = 0
        /\ state' = [state EXCEPT ![current_pid] = READY]
        /\ UNCHANGED <<priority, sleep_ticks, wait_ticks, parent_pid, memory, Globals>>
    BY <1>7 DEF StoreState, Step
  <2>2. Locals' /\ pc' \in PCs /\ pc \notin Creating /\ pc' \notin Creating \cup {"ended"}
    BY <2>1 DEF Locals, PCs, Creating
  <2>3. RunsOne'
    BY <1>1, <2>1 DEF SInv, RunsOne, OnlyCurrentRuns, Globals, READY, RUNNING
  <2>4. READY # EMPTY
    BY DEF READY, EMPTY
  <2> QED
    BY <1>1, <1>2, <1>3, <2>1, <2>2, <2>3, <2>4, OneStateKeeps
<1>8. CASE StopCurrent
  <2> DEFINE s == IF state[current_pid] = RUNNING THEN READY ELSE state[current_pid]
  <2>1. /\ pc = "stop" /\ pc' = "current_pid" /\ pid' = pid /\ arg' = arg
        /\ state' = [state EXCEPT ![current_pid] = s]
        /\ UNCHANGED <<priority, sleep_ticks, wait_ticks, parent_pid, memory, Globals>>
    BY <1>8 DEF StopCurrent, Step, Preempted
  <2>2. s \in States /\ s # RUNNING /\ (current_pid = 0 => s # EMPTY)
    BY <1>1, <1>2 DEF SInv, Occupied, READY, RUNNING, EMPTY
  <2> HIDE DEF s
  <2>3. Locals' /\ pc' \in PCs /\ pc \notin Creating /\ pc' \notin Creating \cup {"ended"}
    BY <2>1 DEF SInv, Locals, PCs, Callee, Creating, Entering, Globals
  <2>4. RunsOne'
    BY <1>1, <2>1, <2>2 DEF SInv, RunsOne, OnlyCurrentRuns, Globals
  <2> QED
    BY <1>1, <1>3, <2>1, <2>2, <2>3, <2>4, OneStateKeeps
<1>9. CASE StoreState("RUNNING", current_pid, RUNNING, "jump")
  <2>1. /\ pc = "RUNNING" /\ pc' = "jump" /\ pid' = pid /\ arg' = arg
        /\ state' = [state EXCEPT ![current_pid] = RUNNING]
        /\ UNCHANGED <<priority, sleep_ticks, wait_ticks, parent_pid, memory, Globals>>
    BY <1>9 DEF StoreState, Step
  <2>2. Locals' /\ pc' \in PCs /\ pc \notin Creating /\ pc' \notin Creating \cup {"ended"}
    BY <2>1 DEF SInv, Locals, PCs, Callee, Creating, Entering
  <2>3. RunsOne'
    BY <1>1, <2>1 DEF SInv, RunsOne, OnlyCurrentRuns, Globals
  <2>4. RUNNING # EMPTY
    BY DEF RUNNING, EMPTY
  <2> QED
    BY <1>1, <1>2, <1>3, <2>1, <2>2, <2>3, <2>4, OneStateKeeps
<1> QED
  BY <1>4, <1>5, <1>6, <1>7, <1>8, <1>9

\* The stores into other fields, and the change of the current process.
LEMMA FieldStoresKeep ==
    ASSUME SInv, StoreSleepTicks \/ StorePriority \/ SetCurrent
    PROVE  Rest'
<1> USE ProcessAssumption
<1>1. /\ pc \in {"sleep_ticks", "prio", "current_pid"}
      /\ pc' \in {"line", "RUNNING"} /\ (pc = "current_pid" <=> pc' = "RUNNING")
      /\ pid' \in {0, pid} /\ pc \notin Creating
      /\ UNCHANGED <<state, parent_pid, next_pid, context, hit>>
      /\ pc' = "line" => UNCHANGED current_pid
      /\ pc' = "RUNNING" => current_pid' = pid
  BY DEF StoreSleepTicks, StorePriority, SetCurrent, Step, Globals, table, Creating
<1>2. pid \in PIDs /\ 0 \in PIDs
  BY DEF SInv, StepTypes, PIDs
<1>3. TypeOK'
  <2>1. CASE StoreSleepTicks
    <3>1. arg \in Seconds
      BY <2>1 DEF StoreSleepTicks, Step, SInv, Locals
    <3>2. arg \in Int /\ TicksPerSecond \in Int
      BY <3>1
    <3>3. arg * TicksPerSecond \in Int
      BY <3>2
    <3>4. WrapInt(arg * TicksPerSecond) \in Int32
      BY <3>3, WrapIsInt32
    <3> QED
      BY <1>2, <2>1, <3>4 DEF StoreSleepTicks, SInv, StepTypes, TypeOK, memory, Globals
  <2>2. CASE StorePriority
    <3>1. arg \in 0..MaxPriority
      BY <2>2 DEF StorePriority, Step, SInv, Locals
    <3> QED
      BY <1>2, <2>2, <3>1 DEF StorePriority, SInv, StepTypes, TypeOK, memory, Globals
  <2>3. CASE SetCurrent
    BY <1>2, <2>3 DEF SetCurrent, SInv, StepTypes, TypeOK, memory, table
  <2> QED
    BY <2>1, <2>2, <2>3
<1>4. pc' \in PCs /\ Locals' /\ pc' \notin Creating
  BY <1>1 DEF PCs, Callee, Entering, Creating, Locals
<1>5. Occupied'
  <2>1. pc = "current_pid" => pid < next_pid
    BY DEF SInv, StepTypes, TypeOK, Locals
  <2> QED
    BY <1>1, <2>1 DEF SInv, Occupied
<1>6. Parents' /\ Registered' /\ WaitFreesTheEnded'
  BY <1>1 DEF SInv, Parents, ParentIsOlder, Registered, WaitFreesTheEnded
<1>7. RunsOne'
  BY <1>1 DEF SInv, RunsOne, OnlyCurrentRuns
<1> QED
  BY <1>1, <1>2, <1>3, <1>4, <1>5, <1>6, <1>7 DEF Rest, SInv, StepTypes

\* The tests, the polls of wait, the jump, and a command that is read.
LEMMA TestsKeep ==
    ASSUME SInv,
           \/ ReadCommand \/ TableFull \/ Poll \/ StopPolling
           \/ Test("kill", IsUserProcess(pid), "ZOMBIE")
           \/ Test("sleep", IsUserProcess(pid), "SLEEP")
           \/ Test("setprio", state[pid] # EMPTY, "prio")
           \/ Test("verdict", TRUE, IF state[pid] = ZOMBIE THEN "ended" ELSE "timeout")
           \/ Test("timeout", TRUE, "line")
           \/ Test("runu", IsUserProcess(pid) /\ context[pid] # Invalid, "stop")
           \/ Test("jump", TRUE, "user")
    PROVE  Rest'
<1> USE ProcessAssumption
<1>1. UNCHANGED <<vars, context, hit>>
  BY DEF ReadCommand, TableFull, Poll, StopPolling, Test
<1>2. /\ pid \in PIDs /\ 0 \in PIDs /\ next_pid \in 1..MaxProcesses /\ next_pid' = next_pid
      /\ UserPIDs = PIDs \ {0}
  BY <1>1 DEF SInv, StepTypes, TypeOK, vars, PIDs, UserPIDs
<1>3. CASE ReadCommand
  <2>1. PICK c \in Commands : /\ pc = "line" /\ pc' = First[c]
                              /\ pid' \in Named(c) /\ arg' \in Numbers(c)
    BY <1>3 DEF ReadCommand
  <2>2. /\ pc' \in {"create", "kill", "sleep", "setprio", "poll", "yield", "runu"}
        /\ pid' \in PIDs
        /\ pc' = "create" => arg' \in MemSizes
        /\ pc' = "sleep" => arg' \in Seconds
        /\ pc' = "setprio" => arg' \in 0..MaxPriority
        /\ pc' = "poll" => pid' # 0
    <3>1. c \in AllCommands
      BY ShellAssumption
    <3>2. CASE c = "exec"
      BY <1>2, <2>1, <3>2 DEF First, Named, Numbers
    <3>3. CASE c = "kill"
      BY <1>2, <2>1, <3>3 DEF First, Named, Numbers
    <3>4. CASE c = "sleep"
      BY <1>2, <2>1, <3>4 DEF First, Named, Numbers
    <3>5. CASE c = "priority"
      BY <1>2, <2>1, <3>5 DEF First, Named, Numbers
    <3>6. CASE c = "wait"
      BY <1>2, <2>1, <3>6 DEF First, Named, Numbers
    <3>7. CASE c = "yield"
      BY <1>2, <2>1, <3>7 DEF First, Named, Numbers
    <3>8. CASE c = "runu"
      BY <1>2, <2>1, <3>8 DEF First, Named, Numbers
    <3> QED
      BY <3>1, <3>2, <3>3, <3>4, <3>5, <3>6, <3>7, <3>8 DEF AllCommands
  <2>3. Locals'
    BY <2>2 DEF Locals, Creating
  <2>4. pc' \in PCs
    BY <2>2 DEF PCs, Callee, Entering, Execute
  <2> QED
    BY <1>1, <2>1, <2>2, <2>3, <2>4, QuietKeeps DEF Creating
<1>4. CASE \/ TableFull \/ Test("timeout", TRUE, "line") \/ Test("jump", TRUE, "user")
  <2>1. /\ pc \in {"create", "timeout", "jump"} /\ pc' \in {"line", "user"}
        /\ pid' \in {0, pid}
    BY <1>4 DEF TableFull, Test, Step
  <2>2. Locals' /\ pc' \in PCs
    BY <2>1 DEF Locals, PCs, Creating
  <2> QED
    BY <1>1, <1>2, <2>1, <2>2, QuietKeeps DEF Creating
<1>5. CASE Poll \/ StopPolling
  <2>1. /\ pc = "poll" /\ pc' \in {"poll", "verdict"} /\ pid' = pid
    BY <1>5 DEF Poll, StopPolling, Test, Step
  <2>2. Locals' /\ pc' \in PCs
    BY <2>1 DEF SInv, Locals, PCs, Execute, Creating
  <2> QED
    BY <1>1, <1>2, <2>1, <2>2, QuietKeeps DEF Creating
<1>6. CASE \/ Test("kill", IsUserProcess(pid), "ZOMBIE")
           \/ Test("sleep", IsUserProcess(pid), "SLEEP")
           \/ Test("runu", IsUserProcess(pid) /\ context[pid] # Invalid, "stop")
  <2>1. /\ pc \in {"kill", "sleep", "runu"} /\ pc' \in {"ZOMBIE", "SLEEP", "stop", "line"}
        /\ pc' # "line" => IsUserProcess(pid) /\ pid' = pid /\ arg' = arg
        /\ pc' = "line" => pid' = 0
        /\ pc' = "SLEEP" => pc = "sleep"
    BY <1>6 DEF Test, Step
  <2>2. pc' # "line" => pid \in 1..(next_pid - 1)
    <3>1. \A p \in PIDs : state[p] # EMPTY => ~(p >= next_pid)
      BY <2>1 DEF SInv, Occupied, Creating
    <3> QED
      BY <1>2, <2>1, <3>1 DEF IsUserProcess, PIDs
  <2>3. Locals' /\ pc' \in PCs
    BY <1>2, <2>1, <2>2 DEF SInv, Locals, PCs, Callee, Entering, Creating
  <2> QED
    BY <1>1, <1>2, <2>1, <2>3, QuietKeeps DEF Creating
<1>7. CASE Test("setprio", state[pid] # EMPTY, "prio")
  <2>1. /\ pc = "setprio" /\ pc' \in {"prio", "line"} /\ pid' \in {0, pid}
        /\ pc' = "prio" => arg' = arg
    BY <1>7 DEF Test, Step
  <2>2. Locals' /\ pc' \in PCs
    BY <2>1 DEF SInv, Locals, PCs, Execute, Creating
  <2> QED
    BY <1>1, <1>2, <2>1, <2>2, QuietKeeps DEF Creating
<1>8. CASE Test("verdict", TRUE, IF state[pid] = ZOMBIE THEN "ended" ELSE "timeout")
  <2>1. /\ pc = "verdict" /\ pc' \in {"ended", "timeout"} /\ pid' = pid
        /\ pc' = "ended" => state[pid] = ZOMBIE
    BY <1>8 DEF Test, Step
  <2>2. Locals' /\ pc' \in PCs
    BY <2>1 DEF SInv, Locals, PCs, Execute, Creating
  <2> QED
    BY <1>1, <1>2, <2>1, <2>2, QuietKeeps DEF Creating
<1> QED
  BY <1>3, <1>4, <1>5, <1>6, <1>7, <1>8

\* Every statement of the shell keeps the invariant.
LEMMA ShellKeeps == ASSUME SInv, ShellStep PROVE SInv'
<1>1. Rest'
  BY ClaimKeeps, FillKeeps, PublishKeeps, StateStoresKeep, FieldStoresKeep, TestsKeep
     DEF ShellStep, CreateStep, KillStep, SleepStep, PriorityStep, YieldStep, WaitStep, RunStep
<1>2. /\ regs = Frame(pc) /\ pc # "user"
      /\ hit' = hit
      /\ current_pid' = current_pid \/ pc' = "RUNNING"
      /\ pc \in {"RUNNING", "jump"} => pc' \in {"jump", "user"}
      /\ regs' = Frame(pc')
      /\ \A p \in PIDs : context'[p] = context[p] \/ (p # 0 /\ context'[p] = Fresh)
  <2>1. CASE ReadCommand
    <3>1. pc = "line" /\ regs = "line" /\ (\E c \in Commands : pc' = First[c] /\ regs' = Frame(First[c]))
          /\ UNCHANGED <<vars, context, hit>>
      BY <2>1 DEF ReadCommand
    <3>2. Frame("line") = "line"
      BY DEF Frame, Callee, Execute, Creating, Entering
    <3> QED
      BY <3>1, <3>2 DEF vars
  <2>2. CASE Claim \/ Poll
    <3>1. Frame("priority") = Frame("create")
      BY DEF Frame, Callee, Creating
    <3> QED
      BY <2>2, <3>1 DEF Claim, Poll, Globals, vars
  <2>3. CASE FillContext
    <3>1. pid # 0
      BY <2>3 DEF FillContext, Step, SInv, StepTypes, TypeOK, Locals, Creating
    <3> QED
      BY <2>3, <3>1 DEF FillContext, Step, SInv, StepTypes, vars
  <2>4. CASE \/ TableFull \/ FillPriority \/ FillWait \/ FillParent \/ Publish
             \/ KillStep \/ SleepStep \/ PriorityStep \/ YieldStep
    BY <2>4 DEF TableFull, FillPriority, FillWait, FillParent, Publish, KillStep, SleepStep,
       StoreSleepTicks, PriorityStep, StorePriority, YieldStep, StoreState, Test, Step,
       Globals, vars
  <2>5. CASE StopPolling \/ (WaitStep /\ ~Poll) \/ RunStep
    BY <2>5 DEF StopPolling, WaitStep, RunStep, StopCurrent, SetCurrent, StoreState, Test,
       Step, Globals, vars
  <2> QED
    BY <2>1, <2>2, <2>3, <2>4, <2>5 DEF ShellStep, CreateStep, WaitStep
<1>3. regs' \in Frames /\ Placed'
  BY <1>1, <1>2, MoveKeepsPlaced DEF Rest, SInv, StepTypes
<1> QED
  BY <1>1, <1>3 DEF SInv, StepTypes, Rest

LEMMA StepInitEstablishes == StepInit => SInv
<1> SUFFICES ASSUME StepInit PROVE SInv
  OBVIOUS
<1>1. IInv /\ Init
  BY InitEstablishes DEF StepInit
<1>2. /\ pc = "line" /\ pid = 0 /\ regs = "line" /\ hit = {}
      /\ context = [p \in PIDs |-> Invalid] /\ current_pid = 0 /\ next_pid = 1
      /\ 0 \in PIDs /\ Frame("line") = "line"
  BY <1>1, ProcessAssumption
     DEF StepInit, Init, PIDs, Frame, Callee, Execute, Creating, Entering
<1>3. StepTypes /\ Locals
  BY <1>1, <1>2 DEF IInv, StepTypes, Locals, PCs, Frames, Creating
<1>4. Occupied
  BY <1>1, <1>2, ProcessAssumption
     DEF IInv, Occupied, UncreatedSlotsUnused, KernelAlive, RUNNING, READY, EMPTY
<1>5. Parents /\ RunsOne /\ Registered /\ Placed /\ WaitFreesTheEnded
  BY <1>1, <1>2 DEF IInv, Parents, RunsOne, Registered, Placed, WaitFreesTheEnded
<1> QED
  BY <1>3, <1>4, <1>5 DEF SInv

\* The invariant holds of the shell and IRQ0 together.
LEMMA StepInvariance == StepSpec => []SInv
<1>1. ASSUME SInv, [StepNext]_stepVars
      PROVE  SInv'
  <2>1. CASE UNCHANGED stepVars
    <3>1. UNCHANGED <<state, priority, sleep_ticks, wait_ticks, parent_pid, memory_start,
                      memory_size, current_pid, next_pid, last_rr_pid, timer_ticks,
                      pc, pid, arg, regs, context, hit>>
      BY <2>1 DEF stepVars, shell, vars, table, memory
    <3>2. StepTypes' /\ Locals' /\ Occupied' /\ Registered' /\ Placed' /\ WaitFreesTheEnded'
      BY <1>1, <3>1 DEF SInv, StepTypes, TypeOK, memory, Locals, Occupied, Registered, Placed,
         WaitFreesTheEnded
    <3>3. Parents' /\ RunsOne'
      BY <1>1, <3>1 DEF SInv, Parents, ParentIsOlder, RunsOne, OnlyCurrentRuns
    <3> QED
      BY <3>2, <3>3 DEF SInv
  <2> QED
    BY <1>1, <2>1, ShellKeeps, TickKeeps DEF StepNext
<1> QED
  BY <1>1, StepInitEstablishes, PTL DEF StepSpec

(***************************************************************************)
(* Theorems                                                                *)
(***************************************************************************)

\* A shell with its own frame is process 0, wherever in its commands IRQ0 came,
\* as long as no tick saw create_process half done.
THEOREM ShellActsForItself == StepSpec => []ExecutesAsKernel
<1>1. ASSUME SInv
      PROVE  ExecutesAsKernel
  <2>1. Frame(pc) \in {"line", "execute", "callee", "user"}
    BY <1>1, FrameIsOwn DEF SInv, StepTypes
  <2> QED
    BY <1>1, <2>1 DEF SInv, Placed, ExecutesAsKernel
<1> QED
  BY <1>1, StepInvariance, PTL

\* Only current_pid is RUNNING between any two statements, unless a tick came
\* inside run_user_process.
THEOREM OneRunsInCommands == StepSpec => []OneRunsBetweenStores
<1>1. SInv => OneRunsBetweenStores
  BY DEF SInv, RunsOne, OneRunsBetweenStores
<1> QED
  BY <1>1, StepInvariance, PTL

\* create_process counts a slot only when its context is written, and links it
\* to an older process when no tick came between its stores.
THEOREM CountedAreComplete == StepSpec => []ChildrenComplete
<1>1. SInv => ChildrenComplete
  BY DEF SInv, Parents, Registered, ChildrenComplete
<1> QED
  BY <1>1, StepInvariance, PTL

\* The wait command frees no slot of a living process.
THEOREM WaitIsSafe == StepSpec => []WaitFreesTheEnded
<1>1. SInv => WaitFreesTheEnded
  BY DEF SInv
<1> QED
  BY <1>1, StepInvariance, PTL

\* If the times asked for fit an int, a sleeper a tick can see has time left,
\* except inside sleep_process itself.
THEOREM SleepersTimed ==
    ASSUME \A seconds \in Seconds : WrapInt(seconds * TicksPerSecond) > 0
    PROVE  StepSpec => []SleepersAreTimed
<1>1. StepInit => Timed
  BY DEF StepInit, Init, Timed, SleepersAreTimed, RUNNING, EMPTY, SLEEP
<1>2. ASSUME SInv, Timed, [StepNext]_stepVars
      PROVE  Timed'
  <2> USE <1>2
  <2>1. /\ pid \in PIDs /\ state \in [PIDs -> States] /\ current_pid \in PIDs
        /\ sleep_ticks \in [PIDs -> Int32]
    BY DEF SInv, StepTypes, TypeOK
  <2>2. CASE TimerIRQ
    <3>1. \A p \in PIDs : state'[p] = SLEEP => state[p] = SLEEP /\ sleep_ticks'[p] > 0
      BY <2>2, TickEffect DEF SInv, StepTypes, TimerIRQ
    <3> QED
      BY <2>1, <2>2, <3>1 DEF TimerIRQ, Timed, SleepersAreTimed
  <2>3. CASE Claim
    <3>1. /\ pc' = "priority" /\ pid' = next_pid /\ next_pid \in PIDs
          /\ state' = [state EXCEPT ![next_pid] = READY] /\ UNCHANGED sleep_ticks
          /\ pc = "create"
      BY <2>3, ProcessAssumption DEF Claim, SInv, StepTypes, TypeOK, PIDs
    <3> QED
      BY <2>1, <3>1 DEF Timed, SleepersAreTimed, READY, SLEEP
  <2>4. CASE FillPriority
    <3>1. /\ pc = "priority" /\ pc' = "wait_ticks" /\ pid' = pid /\ UNCHANGED state
          /\ sleep_ticks' = [sleep_ticks EXCEPT ![pid] = 0]
      BY <2>4 DEF FillPriority, Step
    <3> QED
      BY <2>1, <3>1 DEF Timed, SleepersAreTimed
  <2>5. CASE StoreSleepTicks
    <3>1. /\ pc = "sleep_ticks" /\ pc' = "line" /\ UNCHANGED state
          /\ sleep_ticks' = [sleep_ticks EXCEPT ![pid] = WrapInt(arg * TicksPerSecond)]
      BY <2>5 DEF StoreSleepTicks, Step
    <3>2. WrapInt(arg * TicksPerSecond) > 0
      BY <3>1 DEF SInv, Locals
    <3> QED
      BY <2>1, <3>1, <3>2 DEF Timed, SleepersAreTimed
  <2>6. CASE StoreState("SLEEP", pid, SLEEP, "sleep_ticks")
    BY <2>1, <2>6 DEF StoreState, Step, Timed, SleepersAreTimed
  <2>7. CASE \/ StoreState("ZOMBIE", pid, ZOMBIE, "line")
             \/ StoreState("ended", pid, EMPTY, "line")
             \/ StoreState("yield", current_pid, READY, "line")
             \/ StopCurrent
             \/ StoreState("RUNNING", current_pid, RUNNING, "jump")
    <3>1. /\ pc \notin {"sleep_ticks", "priority"} /\ pc' # "priority"
          /\ UNCHANGED sleep_ticks
      BY <2>7 DEF StopCurrent, StoreState, Step
    <3>2. \A p \in PIDs : state'[p] = SLEEP => state[p] = SLEEP
      BY <2>1, <2>7 DEF StopCurrent, StoreState, Preempted, ZOMBIE, EMPTY, READY, RUNNING, SLEEP
    <3> QED
      BY <3>1, <3>2 DEF Timed, SleepersAreTimed
  <2>8. CASE \/ ReadCommand \/ TableFull \/ FillWait \/ FillParent \/ FillContext \/ Publish
             \/ StorePriority \/ SetCurrent \/ Poll \/ StopPolling
             \/ Test("kill", IsUserProcess(pid), "ZOMBIE")
             \/ Test("sleep", IsUserProcess(pid), "SLEEP")
             \/ Test("setprio", state[pid] # EMPTY, "prio")
             \/ Test("verdict", TRUE, IF state[pid] = ZOMBIE THEN "ended" ELSE "timeout")
             \/ Test("timeout", TRUE, "line")
             \/ Test("runu", IsUserProcess(pid) /\ context[pid] # Invalid, "stop")
             \/ Test("jump", TRUE, "user")
    <3>1. UNCHANGED <<state, sleep_ticks>>
      BY <2>8 DEF ReadCommand, TableFull, FillWait, FillParent, FillContext, Publish,
         StorePriority, SetCurrent, Poll, StopPolling, Test, vars, table
    <3>2. pc \notin {"sleep_ticks", "priority"}
      BY <2>8 DEF ReadCommand, TableFull, FillWait, FillParent, FillContext, Publish,
         StorePriority, SetCurrent, Poll, StopPolling, Test, Step
    <3>3. pc' # "priority"
      <4>1. CASE ReadCommand
        <5>1. PICK c \in AllCommands : pc' = First[c]
          BY <4>1, ShellAssumption DEF ReadCommand
        <5> QED
          BY <5>1 DEF AllCommands, First
      <4>2. CASE ~ReadCommand
        BY <2>8, <4>2 DEF TableFull, FillWait, FillParent, FillContext, Publish,
           StorePriority, SetCurrent, Poll, StopPolling, Test, Step
      <4> QED
        BY <4>1, <4>2
    <3> QED
      BY <3>1, <3>2, <3>3 DEF Timed, SleepersAreTimed
  <2>9. CASE UNCHANGED stepVars
    BY <2>9 DEF stepVars, shell, vars, table, Timed, SleepersAreTimed
  <2> QED
    BY <2>2, <2>3, <2>4, <2>5, <2>6, <2>7, <2>8, <2>9
       DEF StepNext, ShellStep, CreateStep, KillStep, SleepStep, PriorityStep, YieldStep,
           WaitStep, RunStep
<1>3. Timed => SleepersAreTimed
  BY DEF Timed
<1> QED
  BY <1>1, <1>2, <1>3, StepInvariance, PTL DEF StepSpec
=============================================================================
