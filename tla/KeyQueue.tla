------------------------------ MODULE KeyQueue ------------------------------
(***************************************************************************)
(* What the keyboard promises its reader: a bounded first-in first-out     *)
(* queue of characters.  A key typed while the queue is full is dropped; a *)
(* read returns the oldest key, and waits for one when there is none.      *)
(***************************************************************************)
EXTENDS Naturals, Sequences

CONSTANTS
    Chars,     \* what a key can produce
    Capacity,  \* how many unread keys are kept
    NoChar,    \* what result is before the first read
    Waiting    \* what result is while a read is in progress

VARIABLES
    queue,    \* the keys typed and not yet read, oldest first
    result    \* what the last read returned, NoChar or Waiting

vars == <<queue, result>>

Init ==
    /\ queue = <<>>
    /\ result = NoChar

Type(c) ==
    /\ Len(queue) < Capacity
    /\ queue' = Append(queue, c)
    /\ UNCHANGED result

StartRead ==
    /\ result # Waiting
    /\ result' = Waiting
    /\ UNCHANGED queue

FinishRead ==
    /\ result = Waiting
    /\ queue # <<>>
    /\ result' = Head(queue)
    /\ queue' = Tail(queue)

Next == (\E c \in Chars : Type(c)) \/ StartRead \/ FinishRead

Spec == Init /\ [][Next]_vars
=============================================================================
