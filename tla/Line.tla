-------------------------------- MODULE Line ---------------------------------
(***************************************************************************)
(* What an edited line promises: characters join the end of the text,      *)
(* backspace takes the last one away, and Enter gives the text to whoever  *)
(* reads the line, until the next line begins.  Other keys do nothing.     *)
(***************************************************************************)
EXTENDS Naturals, Sequences

CONSTANTS
    Symbols,  \* the characters a line can hold
    Longest   \* how many of them

VARIABLES
    text,     \* the line
    given     \* it has been given to its reader

vars == <<text, given>>

\* The empty line the reader begins with.
Init == text = <<>> /\ given = TRUE

Begin ==
    /\ given
    /\ text' = <<>> /\ given' = FALSE

Type(c) ==
    /\ ~given /\ Len(text) < Longest
    /\ text' = Append(text, c)
    /\ UNCHANGED given

Erase ==
    /\ ~given /\ text # <<>>
    /\ text' = SubSeq(text, 1, Len(text) - 1)
    /\ UNCHANGED given

Give ==
    /\ ~given /\ given' = TRUE
    /\ UNCHANGED text

Next == Begin \/ (\E c \in Symbols : Type(c)) \/ Erase \/ Give

Spec == Init /\ [][Next]_vars
=============================================================================
