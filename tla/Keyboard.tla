------------------------------ MODULE Keyboard ------------------------------
(***************************************************************************)
(* The keyboard of Mi SO (src/interrupts.c): IRQ1 puts characters into a   *)
(* ring buffer and get_key takes them out, sleeping in hlt while there is  *)
(* none.  IRQ handlers are atomic; get_key is interrupted between any two  *)
(* instructions when the shell calls it, and never when SYS_READ does,     *)
(* since the int 0x80 gate clears IF.  keyboard_pending is left out: the   *)
(* code writes it and never reads it.                                      *)
(***************************************************************************)
EXTENDS Naturals, Sequences

CONSTANTS
    Size,     \* KBD_BUFFER_SIZE (128)
    Chars,    \* the characters keyboard_map can produce
    NoChar,   \* the zero a slot holds before its first key
    Callers,  \* who calls get_key: "shell", "syscall" or both
    Waiting   \* what KeyQueue calls a read in progress

ASSUME KeyboardAssumption ==
    /\ Size \in Nat /\ Size > 1
    /\ NoChar \notin Chars /\ Waiting \notin Chars \cup {NoChar}
    /\ Callers \subseteq {"shell", "syscall"}

VARIABLES
    keyboard_buffer,
    keyboard_head,   \* written by IRQ1 only
    keyboard_tail,   \* written by get_key only
    buffered,        \* get_key's local: the character about to be returned
    pc,              \* where get_key is
    caller           \* who called it last

vars == <<keyboard_buffer, keyboard_head, keyboard_tail, buffered, pc, caller>>

Slots == 0..(Size - 1)

\* "idle": not called.  "test": at the emptiness test of keyboard_pop.  "take":
\* about to read the slot.  "advance": about to move the tail.  "sleep": about
\* to execute hlt.  "halted": in hlt, until an interrupt.
Places == {"idle", "test", "take", "advance", "sleep", "halted"}

Init ==
    /\ keyboard_buffer = [i \in Slots |-> NoChar]
    /\ keyboard_head = 0
    /\ keyboard_tail = 0
    /\ buffered = NoChar
    /\ pc = "idle"
    /\ caller \in Callers

\* IF is set: the CPU accepts IRQ0 and IRQ1.
InterruptsOn == pc = "idle" \/ caller = "shell"

\* Mutant: back to hlt without looking at the ring.
WakeToSleep == pc' = IF pc = "halted" THEN "sleep" ELSE pc

\* An interrupt ends hlt; the next instruction is the loop's keyboard_pop.
Wake == pc' = IF pc = "halted" THEN "test" ELSE pc

NextSlot(i) == (i + 1) % Size

\* Mutant: no test of a full buffer.
PushAlways(c) ==
    /\ keyboard_buffer' = [keyboard_buffer EXCEPT ![keyboard_head] = c]
    /\ keyboard_head' = NextSlot(keyboard_head)

\* keyboard_push, with its early return when the buffer is full.
Push(c) ==
    IF NextSlot(keyboard_head) = keyboard_tail
    THEN UNCHANGED <<keyboard_buffer, keyboard_head>>
    ELSE /\ keyboard_buffer' = [keyboard_buffer EXCEPT ![keyboard_head] = c]
         /\ keyboard_head' = NextSlot(keyboard_head)

\* keyboard_irq_handler for the press of a key with a character.
KeyIRQ(c) ==
    /\ InterruptsOn
    /\ Push(c)
    /\ Wake
    /\ UNCHANGED <<keyboard_tail, buffered, caller>>

\* Any other interrupt: IRQ0, a key release, a key without a character.
OtherIRQ ==
    /\ InterruptsOn
    /\ Wake
    /\ UNCHANGED <<keyboard_buffer, keyboard_head, keyboard_tail, buffered, caller>>

(***************************************************************************)
(* get_key, with keyboard_pop inlined                                      *)
(***************************************************************************)
Call ==
    /\ pc = "idle"
    /\ pc' = "test"
    /\ caller' \in Callers
    /\ UNCHANGED <<keyboard_buffer, keyboard_head, keyboard_tail, buffered>>

Test ==
    /\ pc = "test"
    /\ pc' = IF keyboard_tail = keyboard_head THEN "sleep" ELSE "take"
    /\ UNCHANGED <<keyboard_buffer, keyboard_head, keyboard_tail, buffered, caller>>

\* Mutant: moves the tail before it reads the slot.
TakeNext ==
    /\ pc = "take"
    /\ buffered' = keyboard_buffer[NextSlot(keyboard_tail)]
    /\ pc' = "advance"
    /\ UNCHANGED <<keyboard_buffer, keyboard_head, keyboard_tail, caller>>

Take ==
    /\ pc = "take"
    /\ buffered' = keyboard_buffer[keyboard_tail]
    /\ pc' = "advance"
    /\ UNCHANGED <<keyboard_buffer, keyboard_head, keyboard_tail, caller>>

Advance ==
    /\ pc = "advance"
    /\ keyboard_tail' = NextSlot(keyboard_tail)
    /\ pc' = "idle"
    /\ UNCHANGED <<keyboard_buffer, keyboard_head, buffered, caller>>

\* hlt: a key that arrived since the test does not prevent it.
Halt ==
    /\ pc = "sleep"
    /\ pc' = "halted"
    /\ UNCHANGED <<keyboard_buffer, keyboard_head, keyboard_tail, buffered, caller>>

GetKeyStep == Test \/ Take \/ Advance \/ Halt

Next == (\E c \in Chars : KeyIRQ(c)) \/ OtherIRQ \/ Call \/ GetKeyStep

Spec == Init /\ [][Next]_vars

\* The CPU executes instructions, and IRQ0 arrives again and again while
\* interrupts are on (the PIT ticks by itself).
FairSpec == Spec /\ WF_vars(GetKeyStep) /\ WF_vars(OtherIRQ)

(***************************************************************************)
(* Properties                                                              *)
(***************************************************************************)
\* The indices stay on the buffer, the slots hold characters, and each caller of
\* get_key is at one of its places.
TypeOK ==
    /\ keyboard_buffer \in [Slots -> Chars \cup {NoChar}]
    /\ keyboard_head \in Slots
    /\ keyboard_tail \in Slots
    /\ buffered \in Chars \cup {NoChar}
    /\ pc \in Places
    /\ caller \in Callers

Pending == (keyboard_head + Size - keyboard_tail) % Size

\* The keys in the ring, oldest first.
RingContents ==
    [i \in 1..Pending |-> keyboard_buffer[(keyboard_tail + i - 1) % Size]]

\* Once get_key found a key it never loses it: while it takes the character and
\* moves the tail the ring stays non-empty, and the slot it read is not
\* overwritten by keys typed meanwhile.
TakenKeySafe ==
    /\ pc \in {"take", "advance"} => keyboard_tail # keyboard_head
    /\ pc = "advance" => buffered = keyboard_buffer[keyboard_tail]

\* The ring and get_key together are a bounded FIFO of Size - 1 keys: no
\* interleaving with IRQ1 loses, repeats or reorders a key.  A read takes effect
\* when it moves the tail.
Fifo == INSTANCE KeyQueue WITH
    Capacity <- Size - 1,
    queue <- RingContents,
    result <- IF pc = "idle" THEN buffered ELSE Waiting
\* Every step of the ring and of get_key is a step, or a stutter, of that FIFO.
ImplementsQueue == Fifo!Spec

\* A get_key call with a key in the buffer returns, even when the key arrived
\* between the emptiness test and hlt: the next timer tick wakes it.  SYS_READ,
\* whose hlt no interrupt ends, returns too if the key was there when it looked.
KeyIsDelivered == (pc # "idle" /\ Pending > 0) ~> pc = "idle"
=============================================================================
