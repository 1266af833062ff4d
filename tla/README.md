# A TLA+ model of Mi SO v3.3

Mi SO (`src/mi_so_completo`) is a 32-bit teaching kernel: a boot sector, a
process table with a priority scheduler, timer and keyboard interrupts, twelve
`int 0x80` system calls, a shell on a VGA console, and a simulated server manager
with roles, a small file system and an audit log. This directory models its core
logic in TLA+, checks it with TLC on small instances and proves the main
invariants with TLAPS for all sizes. Paths below are relative to
`src/mi_so_completo`.

## 1. Inventory

| Component | State | Operations | Modules |
|---|---|---|---|
| Process table, scheduler (`src/process.c`) | `process_table`, `current_pid`, `next_pid`, `last_rr_pid`, `timer_ticks` | create, kill, sleep, priority, reap, yield, run_user_process, process_tick | `Process` |
| System calls, IRQ0, user mode (`src/interrupts.c`) | CPU registers, saved contexts | timer_irq_dispatch, twelve system calls, user_ptr_ok, enter_user_mode | `Kernel` |
| Shell commands on processes (`src/shell.c`) | place in the command, its locals, saved frames | exec, kill, sleep, priority, wait, yield, runu, statement by statement | `ShellSteps` |
| Keyboard (`src/interrupts.c`) | ring buffer, head, tail | keyboard_irq_handler, keyboard_push, keyboard_pop, get_key | `Keyboard`, `KeyQueue` |
| Servers, sessions, file system (`src/servers.c`) | activity, directories, files, snapshots, role, session | login, logout, start, stop, restart, backup, restore, mkdir, touch, write, rm, rmdir, chmod, apache add and rm | `Servers`, `FileStore` |
| Audit log (`src/servers.c`) | `audit_logs`, `audit_count` | add_audit_log from the shell and from IRQ0; server audit, apache logs, apache tail | `AuditLog`, `AuditListing` |
| Line editor (`src/shell.c`) | `command`, `cmd_index`, read's `buf` and `i` | shell_read_line, the read command | `LineEditor`, `Line` |
| Parser and numbers (`src/utils.c`, `src/shell.c`) | cursor, buffers | skip_spaces, read_token, copy_string, the two-number scan, parse_number, int_to_str | `Tokens`, `Numbers` |
| Console (`src/vga.c`) | VGA memory, `vga_offset` | print_char, print_string, clear_screen, scrolling | `Console` |
| Boot sector (`boot.asm`, `linker.ld`) | tries left, memory read | int 0x13 with retries, the jump | `Boot` |
| Serial port, exceptions, IDT, PIC | output only, or set up once | | not modelled |

How they interact. There is one CPU. `kernel_main` initialises everything,
enables interrupts, and loops reading a line (`get_key`) and executing it.
IRQ0 calls `process_tick`, which calls `server_tick`; IRQ1 fills the keyboard
ring. `runu` enters ring 3, from where `int 0x80` calls the system calls.
Interrupt handlers and system calls run with interrupts off (all gates are
interrupt gates); shell commands run with interrupts on and share the process
table, the audit log and the ring with the handlers, without any lock.

What is hard here: the shell interleaves with IRQ0 and IRQ1 at every
instruction; `timer_irq_dispatch` exchanges general registers but not EIP and
the stack; system calls that wait do so with interrupts off; slots go through
orders of kill, yield, sleep and reaping nobody tests; aging interacts with
round robin; file system commands interleave with backup and restore; every
buffer, screen row and int has an edge. The hazards are listed line by line in
`PROJECT.json`.

What makes each component correct:

- Process table: one RUNNING slot, the kernel slot alive, the best candidate
  dispatched, no early wake-up, memory handed out without overlap, no starvation.
- Kernel: the current pid is the program that executes, pointers stay in the
  caller's region, the registers are the program's own.
- Shell commands: the same, between any two statements.
- Keyboard: a FIFO that neither loses nor repeats a key, and wakes its reader.
- Servers: no change beyond the role of who made it, names that find their files,
  no protected file rewritten; in all, a map from paths to files.
- Audit log: the last entries in order, within the array, printed as they are.
- Line editor and console: what is executed is what was typed and not erased, and
  what the user sees.
- Parser: arguments are the words of the line, sums are printed as they are.
- Boot: the retry loop is left only after a whole read, and it ends.

## 2. Modules

**Process** has one variable per field of `process_table` that the logic reads,
and one action per operation. `TickFrom(st)` is the whole of `process_tick`,
written as functions from the table before to the table after, in the order of
the code: wake (`SleepLeft`, `WokenAndReaped`), reap, age (`AgedWait`,
`AgedPriority`), and at the end of a quantum preempt and dispatch (`Preempted`,
`BestProcess`, `Dispatch`). `SYS_YIELD` runs the same tick after marking the
caller READY. `timer_ticks` is kept modulo the quantum, which is all the
scheduler reads of it. `sleep_ticks` is an int of bounded width. Any operation
may come at any time; this is more than the programs do, so the theorems hold
whoever calls. Left out: names, `cpu_time`, `exit_code` (always 0) and the pid
field.

**Kernel** extends Process and says who calls. `stream` is the program whose
instructions execute, `regs` the program whose values are in the general
registers, `context` the owner of the values saved in each slot. IRQ0 saves,
ticks, and loads if `current_pid` changed, and never changes `stream`. A program
whose registers were exchanged does nothing that is modelled until it gets them
back: in hlt or in a spin it is unaffected, otherwise its behaviour is
arbitrary. Every system call is modelled as to the table. `SYS_WAIT` for a live
child and `SYS_READ` without a key set `hung`, and nothing happens after.
No task state segment is loaded by the boot code; the model takes the ring-3
stack switch an interrupt needs as given, since without it no system call would
ever be handled. A user program may issue any call; the built-in `user_program`
uses two of them.

**ShellSteps** extends Process and takes the shell's commands apart: `pc` is the
statement about to execute, `pid` and `arg` its locals, and IRQ0 (`TimerIRQ`)
may come before any of them. The build is unoptimised, so locals live in the
stack frame and what a register exchange takes from the shell is its frame
pointer: a saved context is the frame it points to (`Frames`), or one never
written (`Invalid`), or the one `create_process` writes (`Fresh`). `hit` records
in which windows a tick came, since two of the windows really are harmful.

**Keyboard** follows `get_key` with `keyboard_pop` step by step: test, read the
slot, move the tail, hlt. IRQ1 and the other interrupts come between any two
steps when the shell reads, and never during a `SYS_READ`. `Fifo` maps it to
**KeyQueue**, an abstract bounded FIFO of `Size - 1` keys whose read takes effect
when the tail moves.

**Servers** has one action per command that changes state, with the checks of
the command as guards. The file system of each server is two functions from
slots; a free slot has the name `Free` but keeps its content and permissions, as
the code clears only `used`. `Store` maps each server to **FileStore**: a set of
directories, a map from paths to files and one saved copy, without slots. The
map leaves the web root out, where `apache add` stores one name twice.
**MCServers** gives the initial directories and the view (section 3).

**AuditLog** follows `add_audit_log` as the unoptimised build executes it:
`audit_count` is read for the test and read again for the increment. IRQ0's call
is atomic. `Interruptible` says whether IRQ0 may arrive inside the shell's call;
at most one arrives, since `server_tick` logs once a second. **AuditListing**
extends it with the three commands that print the log row by row, each row a head
and a tail, with a tick anywhere between.

**Console** is the screen as a pure module: `PrintChar` with its backspace, newline
and scroll. **LineEditor** extends it with one action per key that `get_key`
returns, for `shell_read_line` and for the `read` command. The command array is a
function from indices, NULs included; `Text` is the C string in it. Both the array
and the cells before the cursor are mapped to **Line**, the edited line a user
thinks of. **MCLineEditor** gives the texts that commands print.

**Tokens** reads a line's arguments the way the server and apache commands do
(`skip_spaces`, `read_token`, `copy_string`), a character per step, and the way
`sleep`, `priority` and `add` do. **Numbers** extends it with `parse_number` and
`int_to_str`, digit by digit, on an int of bounded width.

**Boot** is the disk read of the boot sector; the BIOS may fail at any sector and
leaves what it read in memory. What follows a whole read is a fixed sequence and two
steps: `Protect` (descriptor table and far jump) and `Jump` (segments and the jump to
0x1000). The model ends with the jump: its properties are about the retry loop and
its buffer at 0x10000, not about the code the jump finds (section 4).

Definitions marked `Mutant` are wrong versions of the definition that follows;
no specification uses them. `PROJECT.json` pairs each with the property that
must fail when it takes its original's place.

## 3. Runs

| Run | Question | Bounds | Distinct states |
|---|---|---|---|
| process | table consistency, dispatch, waking, no starvation | 3 slots, quantum 2, aging after 2, priorities 0..1, sleeps of 2 ticks | 125 thousand |
| kernel | shell, user program, IRQ0 together | 3 slots, words of 12 values, two sizes | 180 thousand |
| shell_steps | all seven commands, a tick at any statement | 3 slots, quantum 2, one priority, one poll | 2.8 million |
| keyboard | ring and reader | ring of 4 slots, two keys | 3 thousand |
| servers_tree | directories, backups, what each role may change | one server, 2 directory and 2 file slots, one text | 625 thousand |
| servers_files | contents, permissions, abstract store | one server, 1 directory and 2 file slots, two texts | 510 thousand |
| audit_log | order of the log and of what is printed of it | 3 entries, three texts, tails up to 2 | 110 thousand |
| line_editor | array and screen against the edited line | screen of 3 by 2, buffers of 4 bytes, five keys | 38 thousand |
| arguments | words, arguments, sums | lines up to 7 of 0, 1, minus and space, 3-bit ints in base 2, buffers of 3 bytes | 476 thousand |
| boot | is the retry loop left only after a whole read, and does it end? | the real 3 tries, 30 sectors, image of 73 | 3 thousand |
| kernel_switch | has the program its own registers? | as kernel | violated |
| audit_race | does the log stay in its array under IRQ0? | 2 entries | violated |

Why the bounds are enough. Two user processes beside the kernel are what
overtaking, a tie in the round robin, a hole in memory and a run of another
process's slot need. In *process* the kernel's priority is the worst of two, so
users start level with it and age past it. In *shell_steps* all priorities are
equal, so the round robin dispatches every process and every window is reached. A
ring of four slots fills, wraps and empties. Two file slots give a duplicate and a
reuse, two directory slots a directory that comes back by restore. Three log
entries shift twice. A screen of three rows of two wraps and scrolls inside a line
of three characters. A 3-bit int overflows in parsing and in adding. A wider int or
more slots repeat these cases; the theorems cover them.

The two server runs use the view `Unaudited`: the name of the last command is a
history that no guard reads, and only action properties, which TLC evaluates on
every step, ask for it.

What the refinement and reference checks compare with:

- *ImplementsProcess*: the composition of Kernel only makes steps of Process.
- *ImplementsQueue*: the ring is a bounded FIFO.
- *ImplementsStore*: the slots are a map from paths to files.
- *CommandImplementsLine*, *ScreenImplementsLine*: array and screen are one
  edited line.
- *ArgumentsAreWords*, *PairIsWords*: against the words of the line by definition.
- *ParsesModuloRange*, *PrintsSum*: against the value of a digit sequence, modulo
  the range of an int.

The two violations are disagreements of the code with its documentation:

- *kernel_switch*: after a switch the interrupted program goes on with another
  process's registers (`src/kernel.c:24` announces a context switch).
- *audit_race*: a tick inside `add_audit_log` takes the last entry twice, and the
  shell's text goes beyond the array (`DOCUMENTACION_TESIS.md:345` calls it a
  circular log).

Deadlock is not checked in `kernel`, `kernel_switch` and `keyboard` (a system call
that waits stops the machine), in `shell_steps` (its model ends when `runu` leaves
the shell) and in `boot` (it ends with the jump or in the error loop).

## 4. What the model shows the code to do

Behaviour met while modelling, which the properties therefore exclude by name or
allow:

- Aging starts at slot 1 (`src/process.c:203`): user processes aged to a better
  priority rotate among themselves and the kernel process with the shell starves.
  `KernelSharesCPU` states what is left: a kernel that no user process beats in the
  end takes its turns.
- `SYS_READ` on an empty ring and `SYS_WAIT` for a live child stop the machine:
  both wait with interrupts off.
- A tick inside `create_process` may dispatch a half-filled slot, one inside
  `run_user_process` may leave two slots RUNNING, and one inside `sleep_process`
  may wake the sleeper at once. The properties of ShellSteps bound the damage to
  these windows.
- A tick saves the interrupted stack pointer into the current process's slot, so a
  later `runu` starts the process on the shell's stack (`src/process.c:158`).
- `wait` reports a process that a tick reaped as a timeout, and a zombie is revived
  by `sleep`. `sleep` for more than 21474836 seconds overflows.
- `read` leaves its text unterminated after 79 keys without Enter.
- `read_token` cuts a word longer than its buffer into two arguments
  (`src/utils.c:38`), `apache add` stores a name of 31 characters cut to 15, and a
  space before the first of two numbers shifts both (`PairIsWords` says by how much).
- The smallest int prints as a lone minus.
- Ticks during a listing leave out or mix one row of the log.
- `apache logs` shows texts that begin with `apa`, which the requests that
  `server_tick` logs never do.
- The boot sector reads 30 of the image's 73 sectors to 0x10000 (`boot.asm:29`) and
  jumps to 0x1000 (`boot.asm:162`), where its comment, `linker.ld:3` and
  `COMPILAR.txt:283` place the kernel. No property covers this, and none of Boot's says
  that the kernel is entered.
- `touch` leaves a removed file's text in the slot it reuses, `apache add` its
  permissions, and `apache add` stores the same name twice in www. FileStore promises
  nothing of a new file's text, and `Consistent` leaves www out.
- After a fork, or a yield from ring 3, the system calls of a program act on another
  process. `CallsActOnCaller` states what holds before.

The hazards in `PROJECT.json` whose case is one of these name no property, or say in
their note what the property they name lets through.

## 5. Fairness

- Process: weak fairness of `ProcessTick`. The timer is never masked or stopped
  and IRQ0 ends with iret. No command is fair: the liveness properties assume they
  stop (`Quiet`), since a shell that keeps setting priorities can starve anyone.
- Keyboard: weak fairness of `get_key`'s instructions and of the other interrupts
  while interrupts are on, both properties of the CPU and the timer.
- Boot: weak fairness of `BootNext`. The processor goes on, and the BIOS ends every
  read in one way or the other; nothing is assumed of which.

## 6. Proofs

Eight modules hold theorems. The constants' assumptions are the named `ASSUME`s,
which TLC evaluates; the theorems speak of unbounded numbers of slots, quanta,
priorities, servers, names, buffer and ring sizes.

Where an operator goes through a set or a sequence (the size of the slots below
a new one, the printing of a string, the rows a listing selects) its value comes from a
recursive function. What it yields is proved by induction without the library's
induction theorems: if it failed somewhere, the places where it fails would have a
least element (`WFMin` on the naturals), which the step refutes.

*ProcessProofs.* `IInv` is the conjunction of `TypeOK`, `OnlyCurrentRuns`,
`KernelAlive`, `UncreatedSlotsUnused` and `ParentIsOlder`. `KernelAlive` alone is
not inductive: creating a process writes slot `next_pid`, which must not be 0;
yielding writes slot `current_pid`, which must be a created one. Lemmas say what
each part of a tick does to the table (`TickTypes`, `TickStates`,
`PreemptedStates`), one lemma covers all commands that change a single slot
(`OneSlotPreserves`), and `StepPreserves` puts the actions together. For
`DispatchesBest` a candidate must exist (the kernel, by `KernelAlive`) and a best
one among them (`SomebodyIsBest`, by the least element of a set of naturals).
`SleepersWake` assumes that no product of seconds and ticks becomes 0 or negative as
an int; then every sleeper has time left (`SleepersHaveTime`), and a count above 0 goes
down by one without wrapping. Without it a tick wakes a sleeper whose count is
negative or 0.
`RegionsStay` says where each created process lies: at the `NextBase` of its
slot, the sum of the sizes below it, and every slot not yet created is empty. It is an
invariant since creating writes only the slot next_pid, which no sum of an earlier slot
counts; `MemoryDisjoint` follows, as a later process starts where all earlier ones end.

*KernelProofs.* `StepIsTableStep` maps every step of the composition to a step of
the table or a stutter, which proves `TableImplemented` and carries `IInv` over.
`ContextsInPlace` strengthens the two register invariants: pid 0's values are in
the registers only when pid 0 is current, are saved only in slot 0, and, before
any fork or yield, each slot saves its own. `PointersStayInside` combines `CallerIsCurrent`'s
invariant with the regions: whatever pointer and length `user_ptr_ok` accepts,
wrapped sums included (`Remainders`), no byte touched is outside the caller's region,
and by `MemoryDisjoint` none is in another's.

*ShellStepsProofs* proves all five properties of the run. `SInv` adds to them what
each place of each command knows of the locals (`Locals`: a slot being created is
`next_pid`, a pid being killed is a user's), that slot 0 stays occupied
(`Occupied`), that the shell's frame is only saved in slot 0 (`Placed`), and
that every counted slot has a context (`Registered`). The tick's effect is that of
ProcessProofs, whose lemmas are cited. `SleepersTimed` assumes that the products of
seconds and ticks fit an int; without it a sleeper's count may be negative.

*DeviceProofs.* The keyboard: `TypeOK` and `TakenKeySafe`: a push never closes a non-empty
ring nor writes the slot at the tail. `RingIsQueue` is the refinement of KeyQueue: the
number of keys and the place of each are written without remainders (`RingModulo`,
`KeysInPlace`), and a push is an append, an advance of the tail a removal of the head. The
boot sector: the sectors read in this attempt are in their place in the buffer, which
gives `LoopLeftAfterWholeRead`, and the failed attempts and the tries left add up to
`Tries`.

*ServersProofs.* `StaysConsistent` needs the same four facts of the live tree
(`LiveGood`) and of the backup (`SavedGood`), since restore makes the one the other;
`Types` and `NoRoleWithoutSession` close it. `EveryChangeAuthorised` and
`ProtectionHolds` go through the commands one by one with that invariant: what an
operator may do to a file slot (`OperatorMay`) is new files, new text where it may be
written, and removal from Apache's web root (`FileChangesAuthorised`).
`StoreImplemented` is the refinement of FileStore: since a path outside www is in one
slot (`SlotOfPath`), writing a slot that is seen puts one path (`PutStep`), freeing it
removes one (`RemoveStep`), and writing one that is not changes nothing
(`UnseenStep`); the servers a command does not name keep their stores.

*AuditLogProofs.* `LogInOrder` assumes `~Interruptible`; `audit_race` shows why. Its
invariant says, for each place inside a call, how far the shift has moved `recent`.
`ListingsAreTheLog` is about the listings, on the same assumption: its invariant
(`Reading`) names a log the listing can come by (`Reachable`: a tick between two
rows may add an entry and push one out under the loop), says that what has been
printed is what the command selects of its first rows, and that the rows ahead are
still its rows. The selection is a function of the number of rows (`Shown`), row by
row as the loop prints it.

*LineEditorProofs.* `CommandIsTheLine` is a refinement: `EditedPart` says that no
NUL lies before `cmd_index`, so that the text of the array is the edited part once
Enter has ended it, whatever an earlier, longer command left behind.
`ScreenIsTheLine`, `PromptStays` and `ReadIsShown` are about the console, for every
screen and every text that commands print (`EditorAssumption`: made of printable
characters, newlines and the two control keys). `EInv` says where on the screen the prompt and the characters
of the line are: a character moves them up with the screen when it scrolls, a
backspace takes the last one, and a whole text printed is the fold of its characters.

*NumbersProofs.* The words of a line and its letters are recursive functions of how much
of it has been read, so each step of the cursor adds one term to them (`WordsStep`), and
no word shrinks as more is read (`WordsGrow`). `TInv` says that the arguments and the
token in hand are the letters behind the cursor, which no cut word and no space
disturbs; `TakesWords` that they are also its words, as long as these fit; `TakesPair`
says the same of the two numbers' scan, with an empty word ahead where the line begins
with a space (`Ahead`); its jumps over a word and over spaces are a
minimum of a set. For the text after the arguments, the words of two parts joined at a
space are those of the one and then those of the other. `ParseInv` says that `num` is
what an int holds of the value of the digits read so far: `WrapInt` is the same for
integers that differ by a multiple of the int's range (`WrapSame`), so wrapping after
every digit is wrapping once (`WrapDigit`), and negating last changes nothing of that
(`WrapMinus`). `Printing` says that `num` followed by the digits in `buffer`, last one
first, is still the number, and, while it is being reversed, which half has been
swapped. It needs the sum not to be the smallest int, whose negation wraps to itself and
prints no digits. `AddScans` carries the scan's theorems over to the add command.

Only model-checked: liveness (`UsersEventuallyRun`, `KernelSharesCPU`,
`KeyIsDelivered`, `BootEnds`), which is out of the prover's reach.

## 7. Not modelled

- Stack contents beyond the frame a register names; what ring 3 does on the
  shell's stack.
- Real time: the code counts 100 ticks a second but nothing programs the timer
  chip.
- Loads, health and restart counters of the servers, which only `server status`
  and `top` print, and the commands that only print (`ps`, `stats`, `help`...).
- The serial port: output only, never initialised nor read. Exceptions print and
  halt; descriptor tables and PIC are set up once.
- Colours and the layout of tables.

## 8. Plan

Done: all of the above. Left:

1. The health and restart counters of `server_tick`, with their limits.
2. The file system commands statement by statement against `server_tick`, as
   ShellSteps does for processes.
