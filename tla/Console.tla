------------------------------ MODULE Console --------------------------------
(***************************************************************************)
(* The VGA text console (src/vga.c): what print_char, print_string,        *)
(* scroll_screen and clear_screen make of a screen.  Colours are left out: *)
(* a cell is its character, and at is vga_offset / 2.                      *)
(***************************************************************************)
EXTENDS Integers, SequencesExt

CONSTANTS
    Rows, Cols,   \* 25 and 80
    Printable,    \* the characters 32..126
    Space,        \* ' '
    NL,           \* '\n'
    BS            \* '\b'

ASSUME ConsoleAssumption ==
    /\ Rows \in Nat /\ Rows > 1
    /\ Cols \in Nat /\ Cols > 0
    /\ Space \in Printable
    /\ NL \notin Printable /\ BS \notin Printable /\ NL # BS

Size == Rows * Cols
Cells == 0..(Size - 1)

\* What a screen is between two calls.
Screens == [cells : [Cells -> Printable], at : Cells]

\* clear_screen.
Blank == [cells |-> [k \in Cells |-> Space], at |-> 0]

\* Mutant: keeps the cursor where it was.
ScrolledInPlace(s) ==
    IF s.at < Size THEN s
    ELSE [cells |-> [k \in Cells |-> IF k < Size - Cols THEN s.cells[k + Cols] ELSE Space],
          at |-> s.at]

\* The end of print_char: a cursor past the last cell scrolls the screen.
Scrolled(s) ==
    IF s.at < Size THEN s
    ELSE [cells |-> [k \in Cells |-> IF k < Size - Cols THEN s.cells[k + Cols] ELSE Space],
          at |-> Size - Cols]

\* print_char.  Other characters print nothing.
PrintChar(s, c) ==
    CASE c = NL -> Scrolled([s EXCEPT !.at = (@ \div Cols + 1) * Cols])
      [] c = BS -> IF s.at = 0 THEN s
                   ELSE [cells |-> [s.cells EXCEPT ![s.at - 1] = Space], at |-> s.at - 1]
      [] c \in Printable -> Scrolled([cells |-> [s.cells EXCEPT ![s.at] = c], at |-> s.at + 1])
      [] OTHER -> s

\* print_string.
PrintString(s, text) == FoldLeft(PrintChar, s, text)
=============================================================================
