-------------------------- MODULE LineEditorProofs ---------------------------
(***************************************************************************)
(* The command array and the cells before the cursor both implement the    *)
(* edited line of Line.tla, and the read command shows what it stores, for *)
(* every size of the arrays and of the screen.                             *)
(***************************************************************************)
EXTENDS LineEditor, SequenceTheorems, FiniteSetTheorems, WellFoundedInduction, TLAPS

(***************************************************************************)
(* Induction over indices, as statements about sets                        *)
(***************************************************************************)
\* A set of naturals that starts at 0 and never ends holds them all.
LEMMA Counting ==
    ASSUME NEW T, 0 \in T, \A n \in Nat : n \in T => n + 1 \in T
    PROVE  \A n \in Nat : n \in T
<1> SUFFICES ASSUME Nat \ T # {} PROVE FALSE
  OBVIOUS
<1> DEFINE R == {ss \in Nat \X Nat : ss[1] < ss[2]}
<1>1. IsWellFoundedOn(R, Nat)
  BY NatLessThanWellFounded DEF OpToRel
<1>2. \A x, y \in Nat : y < x => <<y, x>> \in R
  OBVIOUS
<1> HIDE DEF R
<1>3. PICK n \in Nat \ T : \A m \in Nat \ T : ~(<<m, n>> \in R)
  BY <1>1, WFMin
<1>4. n - 1 \in Nat /\ n - 1 < n
  BY <1>3
<1>5. n - 1 \in T
  BY <1>2, <1>3, <1>4
<1> QED
  BY <1>3, <1>4, <1>5

\* Every non-empty set of naturals has a least element.
LEMMA LeastIndex ==
    ASSUME NEW T \in SUBSET Nat, T # {}
    PROVE  \E x \in T : \A y \in T : x <= y
<1> SUFFICES ASSUME \A x \in T : \E y \in T : ~(x <= y) PROVE FALSE
  OBVIOUS
<1> DEFINE Below == {n \in Nat : \A m \in 0..n : m \notin T}
<1>1. 0 \in Below
  <2>1. 0 \notin T
    OBVIOUS
  <2> QED
    BY <2>1
<1>2. ASSUME NEW n \in Nat, n \in Below PROVE n + 1 \in Below
  <2>1. n + 1 \notin T
    BY <1>2
  <2>2. \A m \in 0..(n + 1) : m = n + 1 \/ m \in 0..n
    OBVIOUS
  <2> QED
    BY <1>2, <2>1, <2>2
<1>3. \A n \in Nat : n \in Below
  <2> HIDE DEF Below
  <2> QED
    BY <1>1, <1>2, Counting
<1>4. ASSUME NEW x \in T PROVE FALSE
  <2>1. x \in Nat /\ x \in 0..x
    OBVIOUS
  <2> QED
    BY <1>3, <2>1
<1> QED
  BY <1>4

\* A set of indices has a greatest one.
LEMMA LastIndex ==
    ASSUME NEW n \in Nat, NEW u \in SUBSET (1..n), u # {}
    PROVE  Max(u) \in u /\ \A k \in u : k <= Max(u)
<1> DEFINE T == {m \in Nat : \A v \in SUBSET (1..m) : v # {} => \E x \in v : \A y \in v : x >= y}
<1>1. 0 \in T
  <2>1. \A v \in SUBSET (1..0) : v = {}
    OBVIOUS
  <2> QED
    BY <2>1
<1>2. ASSUME NEW m \in Nat, m \in T PROVE m + 1 \in T
  <2> SUFFICES ASSUME NEW v \in SUBSET (1..(m + 1)), v # {}
               PROVE  \E x \in v : \A y \in v : x >= y
    OBVIOUS
  <2>1. CASE m + 1 \in v
    BY <2>1
  <2>2. CASE m + 1 \notin v
    <3>1. v \in SUBSET (1..m)
      BY <2>2
    <3> QED
      BY <1>2, <3>1
  <2> QED
    BY <2>1, <2>2
<1>3. n \in T
  <2> HIDE DEF T
  <2> QED
    BY <1>1, <1>2, Counting
<1>4. \E x \in u : \A y \in u : x >= y
  BY <1>3
<1>5. Max(u) \in u /\ \A y \in u : Max(u) >= y
  BY <1>4, Zenon DEF Max
<1> QED
  BY <1>5

\* Without it, the indices are smaller.
LEMMA WithoutLast ==
    ASSUME NEW n \in Nat, NEW u \in SUBSET (1..(n + 1)), u # {}
    PROVE  u \ {Max(u)} \in SUBSET (1..n)
<1>1. PICK x : x = Max(u)
  OBVIOUS
<1>2. n + 1 \in Nat
  OBVIOUS
<1>3. x \in u /\ \A k \in u : k <= x
  BY <1>1, <1>2, LastIndex
<1>4. \A k \in u \ {x} : k \in 1..n
  BY <1>3
<1> QED
  BY <1>1, <1>4, Zenon

(***************************************************************************)
(* C strings                                                               *)
(***************************************************************************)
Symbols == Printable \cup {NUL}
Array == [CmdSlots -> Symbols]

\* The first n characters are a sequence of that length.
LEMMA CharsAreSeq ==
    ASSUME NEW array \in Array, NEW n \in 0..MaxCmd
    PROVE  /\ Chars(array, n) \in Seq(Symbols) /\ Len(Chars(array, n)) = n
           /\ \A k \in 1..n : Chars(array, n)[k] = array[k - 1]
<1>1. n \in Nat /\ \A k \in 1..n : k - 1 \in CmdSlots
  BY EditorAssumption DEF CmdSlots
<1>2. \A k \in 1..n : array[k - 1] \in Symbols
  BY <1>1 DEF Array
<1> QED
  BY <1>1, <1>2 DEF Chars

\* No characters are the empty text.
LEMMA NoChars == ASSUME NEW array \in Array PROVE Chars(array, 0) = <<>>
BY CharsAreSeq, EditorAssumption, EmptySeq

\* The text of a C string is what comes before its first NUL.
LEMMA TextEnds ==
    ASSUME NEW array \in Array, NEW n \in CmdSlots, array[n] = NUL,
           \A k \in 0..(n - 1) : array[k] # NUL
    PROVE  Text(array) = Chars(array, n)
<1>1. DOMAIN array = CmdSlots
  BY DEF Array
<1>2. n \in Ends(array) /\ \A m \in Ends(array) : n <= m /\ m \in Int
  BY <1>1 DEF Ends, CmdSlots
<1>3. Min(Ends(array)) = n
  <2>1. \A m \in Ends(array) : (\A l \in Ends(array) : m <= l) => m = n
    BY <1>2
  <2> QED
    BY <1>2, <2>1 DEF Min
<1> QED
  BY <1>2, <1>3 DEF Text

\* So does the one of the read command's buffer.
LEMMA BufferEnds ==
    ASSUME NEW array \in [BufSlots -> Symbols], NEW n \in BufSlots, array[n] = NUL,
           \A k \in 0..(n - 1) : array[k] # NUL
    PROVE  Text(array) = Chars(array, n)
<1>1. n \in Ends(array) /\ \A m \in Ends(array) : n <= m /\ m \in Int
  BY DEF Ends, BufSlots
<1>2. Min(Ends(array)) = n
  <2>1. \A m \in Ends(array) : (\A l \in Ends(array) : m <= l) => m = n
    BY <1>1
  <2> QED
    BY <1>1, <2>1 DEF Min
<1> QED
  BY <1>1, <1>2 DEF Text

(***************************************************************************)
(* The line's part of the invariant                                        *)
(***************************************************************************)

\* The edited part of the command array holds no NUL.
EditedPart == mode = "line" => \A k \in 0..(cmd_index - 1) : command[k] # NUL

IInv ==
    /\ command \in Array
    /\ cmd_index \in CmdSlots
    /\ EditedPart

\* What the array stands for: CommandLine's text and given.
LineText == IF mode = "line" THEN Chars(command, cmd_index) ELSE Text(command)
Given == mode # "line"

LEMMA InvInit == Init => IInv /\ LineText = <<>> /\ Given
<1> SUFFICES ASSUME Init PROVE IInv /\ LineText = <<>> /\ Given
  OBVIOUS
<1>1. /\ command \in Array /\ cmd_index = 0 /\ mode = "prompt"
      /\ \A k \in CmdSlots : command[k] = NUL
      /\ 0 \in CmdSlots
  BY EditorAssumption DEF Init, Array, Symbols, CmdSlots
<1>2. Text(command) = Chars(command, 0)
  BY <1>1, TextEnds
<1> QED
  BY <1>1, <1>2, NoChars DEF IInv, EditedPart, LineText, Given

\* The steps outside of shell_read_line leave the line alone.
LEMMA ElsewhereStep ==
    ASSUME IInv, UNCHANGED <<command, cmd_index>>, (mode = "line") = (mode' = "line")
    PROVE  IInv' /\ UNCHANGED <<LineText, Given>>
BY DEF IInv, EditedPart, LineText, Given

\* A new prompt begins an empty line.
LEMMA PromptStep ==
    ASSUME IInv, ShowPrompt
    PROVE  IInv' /\ Given /\ LineText' = <<>> /\ ~Given'
<1>1. command' = command /\ cmd_index' = 0 /\ mode = "prompt" /\ mode' = "line"
  BY DEF ShowPrompt
<1>2. 0 \in CmdSlots
  BY EditorAssumption DEF CmdSlots
<1>3. LineText' = Chars(command, 0)
  BY <1>1 DEF LineText
<1> QED
  BY <1>1, <1>2, <1>3, NoChars DEF IInv, EditedPart, Given

\* Enter ends the text where the editing ended, whatever was behind it.
LEMMA EnterStep ==
    ASSUME IInv, EndLine
    PROVE  IInv' /\ ~Given /\ Given' /\ UNCHANGED LineText
<1>1. /\ command' = [command EXCEPT ![cmd_index] = NUL] /\ UNCHANGED cmd_index
      /\ mode = "line" /\ mode' = "execute"
  BY DEF EndLine
<1>2. command' \in Array /\ command'[cmd_index] = NUL
  BY <1>1 DEF IInv, Array, Symbols
<1>3. cmd_index \in 0..MaxCmd /\ \A k \in 0..(cmd_index - 1) : k \in CmdSlots /\ k # cmd_index
  BY EditorAssumption DEF IInv, CmdSlots
<1>4. \A k \in 0..(cmd_index - 1) : command'[k] = command[k]
  BY <1>1, <1>3 DEF IInv, Array
<1>5. Text(command') = Chars(command', cmd_index)
  BY <1>1, <1>2, <1>4, TextEnds DEF IInv, EditedPart
<1>6. Chars(command', cmd_index) = Chars(command, cmd_index)
  <2>1. \A k \in 1..cmd_index : command'[k - 1] = command[k - 1]
    BY <1>3, <1>4
  <2> QED
    BY <2>1 DEF Chars
<1> QED
  BY <1>1, <1>2, <1>5, <1>6 DEF IInv, EditedPart, LineText, Given

\* Backspace takes the last character away.
LEMMA BackspaceStep ==
    ASSUME IInv, EraseChar
    PROVE  /\ IInv' /\ ~Given /\ UNCHANGED Given /\ LineText # <<>>
           /\ LineText' = SubSeq(LineText, 1, Len(LineText) - 1)
<1>1. /\ command' = [command EXCEPT ![cmd_index - 1] = NUL] /\ cmd_index' = cmd_index - 1
      /\ mode = "line" /\ mode' = "line" /\ cmd_index > 0
  BY DEF EraseChar
<1>2. cmd_index \in 1..MaxCmd /\ cmd_index - 1 \in CmdSlots
  BY <1>1, EditorAssumption DEF IInv, CmdSlots
<1>3. command' \in Array /\ command \in Array
  BY <1>1 DEF IInv, Array, Symbols
<1>4. \A k \in 0..(cmd_index - 2) : command'[k] = command[k] /\ k \in 0..(cmd_index - 1)
  BY <1>1, <1>2 DEF IInv, Array, CmdSlots
<1>5. IInv'
  BY <1>1, <1>2, <1>3, <1>4 DEF IInv, EditedPart
<1>6. /\ LineText \in Seq(Symbols) /\ Len(LineText) = cmd_index
      /\ \A k \in 1..cmd_index : LineText[k] = command[k - 1]
  BY <1>1, <1>2, <1>3, CharsAreSeq DEF LineText
<1>7. /\ LineText' \in Seq(Symbols) /\ Len(LineText') = cmd_index - 1
      /\ \A k \in 1..(cmd_index - 1) : LineText'[k] = command'[k - 1]
  <2>1. LineText' = Chars(command', cmd_index')
    BY <1>1 DEF LineText
  <2>2. cmd_index' \in 0..MaxCmd
    BY <1>1, <1>2, EditorAssumption
  <2> QED
    BY <1>1, <1>3, <2>1, <2>2, CharsAreSeq
<1>8. \A k \in 1..(cmd_index - 1) : LineText'[k] = LineText[k]
  <2> SUFFICES ASSUME NEW k \in 1..(cmd_index - 1)
               PROVE  LineText'[k] = LineText[k]
    OBVIOUS
  <2>1. k \in 1..cmd_index /\ k - 1 \in 0..(cmd_index - 2)
    BY <1>2, EditorAssumption
  <2> QED
    BY <1>4, <1>6, <1>7, <2>1
<1>9. LineText' = SubSeq(LineText, 1, cmd_index - 1)
  <2> DEFINE front == SubSeq(LineText, 1, cmd_index - 1)
  <2>1. /\ front \in Seq(Symbols) /\ Len(front) = cmd_index - 1
        /\ \A k \in 1..(cmd_index - 1) : front[k] = LineText[k]
    BY <1>2, <1>6
  <2> HIDE DEF front
  <2> QED
    BY <1>7, <1>8, <2>1, SeqEqual
<1>10. LineText # <<>>
  BY <1>2, <1>6
<1> QED
  BY <1>1, <1>5, <1>6, <1>9, <1>10 DEF Given

\* A character joins the end.
LEMMA CharStep ==
    ASSUME IInv, NEW c \in Keys, AddChar(c)
    PROVE  /\ IInv' /\ ~Given /\ UNCHANGED Given /\ Len(LineText) < MaxCmd - 1
           /\ c \in Printable /\ LineText' = Append(LineText, c)
<1>1. /\ command' = [command EXCEPT ![cmd_index] = c, ![cmd_index + 1] = NUL]
      /\ cmd_index' = cmd_index + 1 /\ cmd_index < MaxCmd - 1
      /\ mode = "line" /\ mode' = "line" /\ c \in Printable
  BY DEF AddChar
<1>2. /\ cmd_index \in 0..(MaxCmd - 2) /\ cmd_index \in Nat /\ MaxCmd \in Nat
      /\ cmd_index \in CmdSlots /\ cmd_index + 1 \in CmdSlots
  BY <1>1, EditorAssumption DEF IInv, CmdSlots
<1>3. command' \in Array /\ command \in Array /\ c # NUL
  BY <1>1, EditorAssumption DEF IInv, Array, Symbols
<1>4. command'[cmd_index] = c /\ \A k \in 0..(cmd_index - 1) : command'[k] = command[k]
  BY <1>1, <1>2 DEF IInv, Array, CmdSlots
<1>5. IInv'
  <2>1. \A k \in 0..(cmd_index - 1) : command'[k] # NUL
    BY <1>1, <1>4 DEF IInv, EditedPart
  <2>2. \A k \in 0..(cmd_index' - 1) : k = cmd_index \/ k \in 0..(cmd_index - 1)
    BY <1>1, <1>2
  <2>3. \A k \in 0..(cmd_index' - 1) : command'[k] # NUL
    BY <1>3, <1>4, <2>1, <2>2
  <2> QED
    BY <1>1, <1>2, <1>3, <2>3 DEF IInv, EditedPart
<1>6. /\ LineText \in Seq(Symbols) /\ Len(LineText) = cmd_index
      /\ \A k \in 1..cmd_index : LineText[k] = command[k - 1]
  <2>1. LineText = Chars(command, cmd_index) /\ cmd_index \in 0..MaxCmd
    BY <1>1, <1>2 DEF LineText
  <2> QED
    BY <1>3, <2>1, CharsAreSeq
<1>7. /\ LineText' \in Seq(Symbols) /\ Len(LineText') = cmd_index + 1
      /\ \A k \in 1..(cmd_index + 1) : LineText'[k] = command'[k - 1]
  <2>1. LineText' = Chars(command', cmd_index')
    BY <1>1 DEF LineText
  <2>2. cmd_index' \in 0..MaxCmd
    BY <1>1, <1>2
  <2> QED
    BY <1>1, <1>3, <2>1, <2>2, CharsAreSeq
<1>8. LineText' = Append(LineText, c)
  <2> DEFINE longer == Append(LineText, c)
  <2>1. /\ longer \in Seq(Symbols) /\ Len(longer) = cmd_index + 1
        /\ \A k \in 1..cmd_index : longer[k] = LineText[k]
        /\ longer[cmd_index + 1] = c
    <3>1. c \in Symbols
      BY <1>1 DEF Symbols
    <3> QED
      BY <1>2, <1>6, <3>1
  <2> HIDE DEF longer
  <2>2. ASSUME NEW k \in 1..(cmd_index + 1) PROVE LineText'[k] = longer[k]
    <3>1. k = cmd_index + 1 \/ (k \in 1..cmd_index /\ k - 1 \in 0..(cmd_index - 1))
      BY <1>2
    <3>2. LineText'[cmd_index + 1] = command'[cmd_index]
      BY <1>2, <1>7
    <3> QED
      BY <1>4, <1>6, <1>7, <2>1, <3>1, <3>2
  <2>3. \A k \in 1..Len(LineText') : LineText'[k] = longer[k]
    BY <1>7, <2>2
  <2>4. LineText' = longer
    BY <1>7, <2>1, <2>3, SeqEqual
  <2> QED
    BY <2>4 DEF longer
<1> QED
  BY <1>1, <1>5, <1>6, <1>8 DEF Given

\* Every step of the editor is a step of the line, or none.
LEMMA LineStep ==
    ASSUME IInv, [Next]_vars
    PROVE  IInv' /\ [CommandLine!Next]_CommandLine!vars
<1>1. CASE UNCHANGED <<LineText, Given>> /\ IInv'
  BY <1>1 DEF CommandLine!vars, LineText, Given
<1>2. CASE ShowPrompt
  BY <1>2, PromptStep DEF CommandLine!Next, CommandLine!Begin, LineText, Given
<1>3. CASE EndLine
  BY <1>3, EnterStep DEF CommandLine!Next, CommandLine!Give, LineText, Given
<1>4. CASE EraseChar
  BY <1>4, BackspaceStep DEF CommandLine!Next, CommandLine!Erase, LineText, Given
<1>5. ASSUME NEW c \in Keys, AddChar(c)
      PROVE  IInv' /\ [CommandLine!Next]_CommandLine!vars
  BY <1>5, CharStep DEF CommandLine!Next, CommandLine!Type, LineText, Given
<1>6. CASE Execute \/ StartRead \/ Show \/ UNCHANGED vars \/ \E c \in Keys : ReadKey(c)
  <2>1. UNCHANGED <<command, cmd_index>> /\ (mode = "line") = (mode' = "line")
    BY <1>6 DEF Execute, StartRead, Show, ReadKey, EndRead, EraseRead, AddRead, vars
  <2> QED
    BY <1>1, <2>1, ElsewhereStep
<1> QED
  BY <1>2, <1>3, <1>4, <1>5, <1>6 DEF Next, ReadLine

\* shell_read_line hands execute_command the edited line: what was typed, less
\* what was erased, whatever the array held before.
THEOREM CommandIsTheLine == Spec => CommandImplementsLine
<1>1. Init => CommandLine!Init
  BY InvInit DEF CommandLine!Init, LineText, Given
<1>2. IInv /\ [Next]_vars => IInv' /\ [CommandLine!Next]_CommandLine!vars
  BY LineStep
<1> QED
  BY InvInit, <1>1, <1>2, PTL DEF Spec, CommandImplementsLine, CommandLine!Spec

(***************************************************************************)
(* print_string                                                            *)
(***************************************************************************)

\* What FoldLeft makes of a text: the screen after each set of its characters.
Iterates(g, s, text, D) ==
    g = [u \in D |-> IF u = {} THEN s ELSE PrintChar(g[u \ {Max(u)}], text[Max(u)])]

\* The recursion FoldLeft stands for has a solution.
LEMMA IterationExists ==
    ASSUME NEW s, NEW text, NEW n \in Nat
    PROVE  \E g : Iterates(g, s, text, SUBSET (1..n))
<1> DEFINE T == {m \in Nat : \E g : Iterates(g, s, text, SUBSET (1..m))}
<1>1. 0 \in T
  <2> DEFINE g == [u \in SUBSET (1..0) |-> s]
  <2>1. \A u \in SUBSET (1..0) : u = {}
    OBVIOUS
  <2>2. Iterates(g, s, text, SUBSET (1..0))
    BY <2>1 DEF Iterates
  <2> QED
    BY <2>2
<1>2. ASSUME NEW m \in Nat, m \in T PROVE m + 1 \in T
  <2>1. PICK g : Iterates(g, s, text, SUBSET (1..m))
    BY <1>2
  <2> DEFINE h == [u \in SUBSET (1..(m + 1)) |->
                      IF u = {} THEN s ELSE PrintChar(g[u \ {Max(u)}], text[Max(u)])]
  <2>2. ASSUME NEW v \in SUBSET (1..m) PROVE g[v] = h[v]
    <3>1. v \in SUBSET (1..(m + 1))
      OBVIOUS
    <3>2. g[v] = IF v = {} THEN s ELSE PrintChar(g[v \ {Max(v)}], text[Max(v)])
      BY <2>1, Zenon DEF Iterates
    <3> QED
      BY <3>1, <3>2, Zenon
  <2>3. ASSUME NEW u \in SUBSET (1..(m + 1)), u # {}
        PROVE  h[u] = PrintChar(h[u \ {Max(u)}], text[Max(u)])
    <3>1. u \ {Max(u)} \in SUBSET (1..m)
      BY <2>3, WithoutLast
    <3>2. h[u] = PrintChar(g[u \ {Max(u)}], text[Max(u)])
      BY <2>3, Zenon
    <3> QED
      BY <2>2, <3>1, <3>2, Zenon
  <2>4. ASSUME NEW u \in SUBSET (1..(m + 1)), u = {} PROVE h[u] = s
    BY <2>4
  <2>5. \A u \in SUBSET (1..(m + 1)) :
            h[u] = IF u = {} THEN s ELSE PrintChar(h[u \ {Max(u)}], text[Max(u)])
    <3> HIDE DEF h
    <3> QED
    BY <2>3, <2>4, Zenon
  <2>6. Iterates(h, s, text, SUBSET (1..(m + 1)))
    <3> DEFINE k == [u \in SUBSET (1..(m + 1)) |->
                        IF u = {} THEN s ELSE PrintChar(h[u \ {Max(u)}], text[Max(u)])]
    <3>1. h = [u \in SUBSET (1..(m + 1)) |-> h[u]]
      BY Zenon
    <3> HIDE DEF h
    <3>2. \A u \in SUBSET (1..(m + 1)) : h[u] = k[u]
      BY <2>5, Zenon
    <3>3. h = k
      BY <3>1, <3>2
    <3> QED
      BY <3>3, Zenon DEF Iterates
  <2> QED
    BY <2>6
<1> HIDE DEF T
<1>3. n \in T
  BY <1>1, <1>2, Counting
<1> QED
  BY <1>3 DEF T

\* print_string prints the characters of a text one after the other.
LEMMA Printing ==
    ASSUME NEW s, NEW text, NEW n \in Nat, DOMAIN text = 1..n
    PROVE  \E g : Iterates(g, s, text, SUBSET (1..n)) /\ PrintString(s, text) = g[1..n]
<1> DEFINE h == CHOOSE g : Iterates(g, s, text, SUBSET (1..n))
<1>1. Iterates(h, s, text, SUBSET (1..n))
  BY IterationExists, Zenon
<1>2. PrintString(s, text) = h[1..n]
  BY Zenon DEF PrintString, FoldLeft, MapThenFoldSet, Iterates
<1> QED
  BY <1>1, <1>2


(***************************************************************************)
(* The screen after a character                                            *)
(***************************************************************************)
\* The screen has a line to spare.
LEMMA ScreenSizes ==
    /\ Cols \in Nat /\ Cols > 0 /\ Size \in Nat
    /\ Size - Cols \in Nat /\ Size - Cols > 0
<1>1. Rows \in Nat /\ Cols \in Nat /\ Rows > 1 /\ Cols > 0
  BY ConsoleAssumption
<1>2. Rows * Cols = (Rows - 1) * Cols + Cols
  BY <1>1
<1>3. (Rows - 1) * Cols \in Nat /\ (Rows - 1) * Cols > 0
  BY <1>1
<1> QED
  BY <1>1, <1>2, <1>3 DEF Size

\* scroll_screen leaves a screen, its cells one line higher.
LEMMA Scrolling ==
    ASSUME NEW cells \in [Cells -> Printable], NEW at \in Nat
    PROVE  Scrolled([cells |-> cells, at |-> at]) \in Screens
<1> DEFINE s == [cells |-> cells, at |-> at]
           up == [k \in Cells |-> IF k < Size - Cols THEN s.cells[k + Cols] ELSE Space]
<1>1. up \in [Cells -> Printable]
  <2> SUFFICES ASSUME NEW k \in Cells, k < Size - Cols PROVE cells[k + Cols] \in Printable
    BY ConsoleAssumption
  <2>1. k + Cols \in Cells
    BY ScreenSizes DEF Cells
  <2> QED
    BY <2>1
<1>2. CASE at < Size
  BY <1>2, ScreenSizes DEF Scrolled, Screens, Cells
<1>3. CASE ~(at < Size)
  <2>1. Scrolled(s) = [cells |-> up, at |-> Size - Cols]
    BY <1>3 DEF Scrolled
  <2>2. Size - Cols \in Cells
    BY ScreenSizes DEF Cells
  <2> QED
    BY <1>1, <2>1, <2>2 DEF Screens
<1> QED
  BY <1>2, <1>3

\* print_char leaves the cursor on the screen.
LEMMA PrintCharOnScreen ==
    ASSUME NEW s \in Screens, NEW c PROVE PrintChar(s, c) \in Screens
<1>1. s.cells \in [Cells -> Printable] /\ s.at \in Cells /\ s.at \in Nat
      /\ s = [cells |-> s.cells, at |-> s.at]
  BY ScreenSizes DEF Screens, Cells
<1>2. CASE c = NL
  <2>1. (s.at \div Cols + 1) * Cols \in Nat
    <3>1. s.at \div Cols \in Nat
      BY <1>1, ScreenSizes
    <3> QED
      BY <3>1, ScreenSizes
  <2>2. [s EXCEPT !.at = (@ \div Cols + 1) * Cols]
          = [cells |-> s.cells, at |-> (s.at \div Cols + 1) * Cols]
    BY <1>1
  <2>3. PrintChar(s, c) = Scrolled([s EXCEPT !.at = (@ \div Cols + 1) * Cols])
    BY <1>2, ConsoleAssumption DEF PrintChar
  <2> QED
    BY <1>1, <2>1, <2>2, <2>3, Scrolling
<1>3. CASE c = BS
  BY <1>1, <1>3, ConsoleAssumption, ScreenSizes DEF PrintChar, Screens, Cells
<1>4. CASE c \in Printable
  <2>1. [s.cells EXCEPT ![s.at] = c] \in [Cells -> Printable] /\ s.at + 1 \in Nat
    BY <1>1, <1>4
  <2>2. PrintChar(s, c) = Scrolled([cells |-> [s.cells EXCEPT ![s.at] = c], at |-> s.at + 1])
    BY <1>4, ConsoleAssumption DEF PrintChar
  <2> QED
    BY <2>1, <2>2, Scrolling
<1>5. CASE c # NL /\ c # BS /\ c \notin Printable
  BY <1>5 DEF PrintChar
<1> QED
  BY <1>2, <1>3, <1>4, <1>5

\* A printed character is the last one before the cursor, the others before it
\* as they were, unless they left the screen.
LEMMA CharPrinted ==
    ASSUME NEW s \in Screens, NEW c \in Printable, NEW r, r = PrintChar(s, c)
    PROVE  /\ r \in Screens /\ r.at \in {s.at + 1, Size - Cols} /\ r.at > 0
           /\ r.cells[r.at - 1] = c
           /\ \A k \in 1..(r.at - 1) : r.cells[r.at - 1 - k] = s.cells[s.at - k]
<1>1. s.cells \in [Cells -> Printable] /\ s.at \in Cells /\ s.at \in Nat
  BY ScreenSizes DEF Screens, Cells
<1> DEFINE new == [s.cells EXCEPT ![s.at] = c]
           up == [k \in Cells |-> IF k < Size - Cols THEN new[k + Cols] ELSE Space]
<1>2. r = Scrolled([cells |-> new, at |-> s.at + 1])
  BY ConsoleAssumption DEF PrintChar
<1>3. new[s.at] = c /\ \A k \in Cells : k # s.at => new[k] = s.cells[k]
  BY <1>1
<1>4. CASE s.at + 1 < Size
  <2>1. r.cells = new /\ r.at = s.at + 1
    BY <1>2, <1>4 DEF Scrolled
  <2> HIDE DEF new
  <2>2. r.at - 1 = s.at /\ \A k \in 1..(r.at - 1) : s.at - k \in Cells /\ s.at - k # s.at
    BY <1>1, <2>1, ScreenSizes DEF Cells
  <2>3. \A k \in 1..(r.at - 1) : r.cells[r.at - 1 - k] = s.cells[s.at - k]
    BY <1>3, <2>1, <2>2
  <2> QED
    BY <1>1, <1>3, <2>1, <2>2, <2>3, PrintCharOnScreen
<1>5. CASE ~(s.at + 1 < Size)
  <2>1. r.cells = up /\ r.at = Size - Cols
    BY <1>2, <1>5 DEF Scrolled
  <2>2. s.at = Size - 1
    BY <1>1, <1>5, ScreenSizes DEF Cells
  <2>3. \A k \in 0..(Size - Cols - 1) : up[k] = new[k + Cols]
    BY ScreenSizes DEF Cells
  <2> HIDE DEF new, up
  <2>4. r.cells[r.at - 1] = new[s.at]
    <3>1. r.at - 1 \in 0..(Size - Cols - 1) /\ r.at - 1 + Cols = s.at
      BY <2>1, <2>2, ScreenSizes
    <3> QED
      BY <2>1, <2>2, <2>3, <3>1
  <2>5. ASSUME NEW k \in 1..(r.at - 1) PROVE r.cells[r.at - 1 - k] = s.cells[s.at - k]
    <3>1. /\ r.at - 1 - k \in 0..(Size - Cols - 1) /\ r.at - 1 - k + Cols = s.at - k
          /\ s.at - k \in Cells /\ s.at - k # s.at
      BY <2>1, <2>2, ScreenSizes DEF Cells
    <3> QED
      BY <1>3, <2>1, <2>2, <2>3, <3>1
  <2>6. r.at > 0 /\ r.cells[r.at - 1] = c
    BY <1>3, <2>1, <2>4, ScreenSizes
  <2> QED
    BY <2>1, <2>5, <2>6, PrintCharOnScreen
<1> QED
  BY <1>4, <1>5

\* A backspace takes the last one away.
LEMMA CharErased ==
    ASSUME NEW s \in Screens, s.at > 0, NEW r, r = PrintChar(s, BS)
    PROVE  /\ r \in Screens /\ r.at = s.at - 1
           /\ \A k \in 1..r.at : r.cells[r.at - k] = s.cells[s.at - 1 - k]
<1>1. s.cells \in [Cells -> Printable] /\ s.at \in Cells /\ s.at \in Nat
  BY ScreenSizes DEF Screens, Cells
<1>2. r = [cells |-> [s.cells EXCEPT ![s.at - 1] = Space], at |-> s.at - 1]
  BY <1>1, ConsoleAssumption DEF PrintChar
<1>3. r.cells = [s.cells EXCEPT ![s.at - 1] = Space] /\ r.at = s.at - 1
  BY <1>2
<1> QED
  BY <1>1, <1>3, PrintCharOnScreen DEF Cells

\* So does print_string, whatever the text.
LEMMA StringOnScreen ==
    ASSUME NEW s \in Screens, NEW text, NEW n \in Nat, DOMAIN text = 1..n
    PROVE  PrintString(s, text) \in Screens
<1>1. PICK g : Iterates(g, s, text, SUBSET (1..n)) /\ PrintString(s, text) = g[1..n]
  BY Printing
<1> DEFINE T == {m \in Nat : \A u \in SUBSET (1..n) : u \subseteq 1..m => g[u] \in Screens}
<1>2. ASSUME NEW u \in SUBSET (1..n)
      PROVE  g[u] = IF u = {} THEN s ELSE PrintChar(g[u \ {Max(u)}], text[Max(u)])
  BY <1>1, Zenon DEF Iterates
<1>3. 0 \in T
  <2>1. \A u \in SUBSET (1..n) : u \subseteq 1..0 => u = {}
    OBVIOUS
  <2> QED
    BY <1>2, <2>1
<1>4. ASSUME NEW m \in Nat, m \in T PROVE m + 1 \in T
  <2>1. ASSUME NEW u \in SUBSET (1..n), u \subseteq 1..(m + 1) PROVE g[u] \in Screens
    <3>1. CASE u = {}
      BY <1>2, <3>1
    <3>2. CASE u # {}
      <4>1. u \ {Max(u)} \in SUBSET (1..n)
        OBVIOUS
      <4>2. u \ {Max(u)} \in SUBSET (1..m)
        BY <2>1, <3>2, WithoutLast
      <4>3. g[u \ {Max(u)}] \in Screens
        BY <1>4, <4>1, <4>2
      <4> QED
        BY <1>2, <3>2, <4>3, PrintCharOnScreen
    <3> QED
      BY <3>1, <3>2
  <2> QED
    BY <2>1
<1> HIDE DEF T
<1>5. n \in T
  BY <1>3, <1>4, Counting
<1> QED
  BY <1>1, <1>5 DEF T

\* A C string is a sequence as long as its array at most.
LEMMA TextIsSeq ==
    ASSUME NEW array \in [BufSlots -> Symbols]
    PROVE  \E n \in 0..BufSize : DOMAIN Text(array) = 1..n
<1>1. CASE Ends(array) = {}
  <2>1. Cardinality(BufSlots) = BufSize
    BY FS_Interval, EditorAssumption DEF BufSlots
  <2>2. Text(array) = Chars(array, BufSize)
    BY <1>1, <2>1 DEF Text
  <2> QED
    BY <2>2, EditorAssumption DEF Chars
<1>2. CASE Ends(array) # {}
  <2>1. Ends(array) \in SUBSET BufSlots /\ BufSlots \in SUBSET Nat
    BY DEF Ends, BufSlots
  <2>2. PICK m \in Ends(array) : \A l \in Ends(array) : m <= l
    BY <1>2, <2>1, LeastIndex
  <2>3. Min(Ends(array)) \in Ends(array)
    BY <2>2, Zenon DEF Min
  <2>4. Min(Ends(array)) \in 0..BufSize
    BY <2>1, <2>3, EditorAssumption DEF BufSlots
  <2>5. Text(array) = Chars(array, Min(Ends(array)))
    BY <1>2 DEF Text
  <2> QED
    BY <2>4, <2>5 DEF Chars
<1> QED
  BY <1>1, <1>2

\* What a command prints leaves a screen, also behind an unended buffer.
LEMMA OutputOnScreen ==
    ASSUME NEW s \in Screens, NEW text \in Outputs
    PROVE  PrintString(s, text) \in Screens
<1>1. Len(text) \in Nat /\ DOMAIN text = 1..Len(text)
  BY EditorAssumption
<1> QED
  BY <1>1, StringOnScreen

\* So does what the read command prints, the bytes behind its buffer included.
LEMMA BufferOnScreen ==
    ASSUME NEW s \in Screens, NEW array \in [BufSlots -> Symbols], NEW beyond \in Outputs
    PROVE  PrintString(s, IF Ends(array) = {} THEN Text(array) \o beyond ELSE Text(array))
             \in Screens
<1>1. PICK n \in 0..BufSize : DOMAIN Text(array) = 1..n
  BY TextIsSeq
<1>2. n \in Nat /\ Len(beyond) \in Nat
  BY EditorAssumption
<1>3. CASE Ends(array) = {}
  <2>1. Len(Text(array)) = n
    BY <1>1, <1>2
  <2>2. DOMAIN (Text(array) \o beyond) = 1..(n + Len(beyond))
    BY <2>1
  <2> QED
    BY <1>2, <1>3, <2>2, n + Len(beyond) \in Nat, StringOnScreen
<1>4. CASE Ends(array) # {}
  BY <1>1, <1>2, <1>4, StringOnScreen
<1> QED
  BY <1>3, <1>4

(***************************************************************************)
(* The screen's part of the invariant                                      *)
(***************************************************************************)

\* Behind the cursor there are the line, and the prompt before it.
LineShown == mode = "line" =>
    /\ cmd_index < screen.at
    /\ screen.cells[screen.at - 1 - cmd_index] = Prompt
    /\ \A k \in 1..cmd_index : screen.cells[screen.at - k] = command[cmd_index - k]

\* The read command's line is behind the cursor, and not as long as the loop
\* allows.
ReadShown == mode = "read" =>
    /\ i <= screen.at /\ i < BufSize - 1
    /\ \A k \in 1..i : screen.cells[screen.at - k] = buf[i - k]
    /\ \A k \in 0..(i - 1) : buf[k] # NUL

\* Enter ended it where the editing did.
ReadEnded == mode = "show" /\ i < BufSize - 1 =>
    /\ buf[i] = NUL
    /\ \A k \in 0..(i - 1) : buf[k] # NUL

EInv == IInv /\ TypeOK /\ LineShown /\ ReadShown /\ ReadEnded

\* An index that stays below the last line of the screen.
LEMMA Bounds ==
    /\ MaxCmd \in Nat /\ BufSize \in Nat /\ MaxCmd > 1 /\ BufSize > 1
    /\ MaxCmd <= Size - Cols /\ BufSize <= Size - Cols
    /\ Size - Cols \in Nat /\ 0 \in BufSlots
BY EditorAssumption, ScreenSizes DEF BufSlots

\* kernel_main's banner leaves such a state.
LEMMA ScreenInit == Init => EInv
<1> SUFFICES ASSUME Init PROVE EInv
  OBVIOUS
<1>1. Blank \in Screens
  BY ConsoleAssumption, ScreenSizes DEF Blank, Screens, Cells
<1>2. screen \in Screens
  BY <1>1, OutputOnScreen DEF Init
<1>3. IInv
  BY InvInit
<1>4. i \in BufSlots /\ buf \in [BufSlots -> Printable \cup {NUL}] /\ mode = "prompt"
  BY Bounds DEF Init
<1> QED
  BY <1>2, <1>3, <1>4
     DEF EInv, IInv, Array, Symbols, TypeOK, Modes, LineShown, ReadShown, ReadEnded

\* A step to a mode that shows no line.
LEMMA ElsewhereShown ==
    ASSUME IInv', screen' \in Screens, buf' \in [BufSlots -> Symbols], i' \in BufSlots,
           mode' \in {"prompt", "execute"}
    PROVE  EInv'
BY DEF EInv, IInv, Array, Symbols, TypeOK, Modes, LineShown, ReadShown, ReadEnded

\* A step inside of shell_read_line.
LEMMA LineModeShown ==
    ASSUME EInv, IInv', screen' \in Screens, UNCHANGED reading, mode' = "line", LineShown'
    PROVE  EInv'
BY DEF EInv, IInv, Array, Symbols, TypeOK, Modes, reading, ReadShown, ReadEnded

\* The prompt is the last thing on the screen before an empty line.
LEMMA PromptShown == ASSUME EInv, ShowPrompt PROVE EInv'
<1>1. IInv'
  BY PromptStep DEF EInv
<1>2. /\ screen' = PrintChar(screen, Prompt) /\ cmd_index' = 0 /\ mode' = "line"
      /\ UNCHANGED reading
  BY DEF ShowPrompt
<1>3. screen \in Screens /\ Prompt \in Printable
  BY EditorAssumption DEF EInv, TypeOK
<1>4. /\ screen' \in Screens /\ screen'.at > 0
      /\ screen'.cells[screen'.at - 1] = Prompt
  BY <1>2, <1>3, CharPrinted
<1>5. screen'.at \in Nat
  BY <1>4, ScreenSizes DEF Screens, Cells
<1>6. LineShown'
  BY <1>2, <1>4, <1>5 DEF LineShown
<1> QED
  BY <1>1, <1>2, <1>4, <1>6, LineModeShown

\* Enter ends what there is to show.
LEMMA EnterShown == ASSUME EInv, EndLine PROVE EInv'
<1>1. IInv'
  BY EnterStep DEF EInv
<1>2. screen' \in Screens
  BY PrintCharOnScreen DEF EndLine, EInv, TypeOK
<1> QED
  BY <1>1, <1>2, ElsewhereShown DEF EndLine, EInv, TypeOK, reading, Symbols

\* Backspace takes the same character off the array and off the screen.
LEMMA BackspaceShown == ASSUME EInv, EraseChar PROVE EInv'
<1>1. IInv'
  BY BackspaceStep DEF EInv
<1>2. /\ screen' = PrintChar(screen, BS) /\ cmd_index' = cmd_index - 1 /\ cmd_index > 0
      /\ mode = "line" /\ mode' = "line" /\ UNCHANGED reading
      /\ command' = [command EXCEPT ![cmd_index - 1] = NUL]
  BY DEF EraseChar
<1>3. /\ screen \in Screens /\ screen.at \in Nat /\ cmd_index \in Nat
      /\ cmd_index < screen.at
      /\ screen.cells[screen.at - 1 - cmd_index] = Prompt
      /\ \A k \in 1..cmd_index : screen.cells[screen.at - k] = command[cmd_index - k]
  BY <1>2, Bounds, ScreenSizes DEF EInv, TypeOK, LineShown, Screens, Cells, CmdSlots
<1>4. /\ screen' \in Screens /\ screen'.at = screen.at - 1
      /\ \A k \in 1..(screen.at - 1) : screen'.cells[screen.at - 1 - k] = screen.cells[screen.at - 1 - k]
  <2>1. screen.at > 0
    BY <1>3
  <2> QED
    BY <1>2, <1>3, <2>1, CharErased
<1>5. screen'.cells[screen'.at - 1 - cmd_index'] = Prompt
  <2>1. cmd_index \in 1..(screen.at - 1) /\ screen.at - 1 - 1 - (cmd_index - 1) = screen.at - 1 - cmd_index
    BY <1>2, <1>3
  <2> QED
    BY <1>2, <1>3, <1>4, <2>1
<1>6. ASSUME NEW k \in 1..cmd_index'
      PROVE  screen'.cells[screen'.at - k] = command'[cmd_index' - k]
  <2>1. /\ k \in 1..(screen.at - 1) /\ k + 1 \in 1..cmd_index
        /\ screen.at - 1 - k = screen.at - (k + 1)
        /\ cmd_index - 1 - k = cmd_index - (k + 1)
        /\ cmd_index - 1 - k \in 0..(cmd_index - 1) /\ cmd_index - 1 - k # cmd_index - 1
    BY <1>2, <1>3
  <2>2. screen'.cells[screen'.at - k] = command[cmd_index - 1 - k]
    BY <1>3, <1>4, <2>1
  <2>3. cmd_index - 1 - k \in CmdSlots
    BY <2>1, Bounds DEF EInv, IInv, CmdSlots
  <2>4. command'[cmd_index - 1 - k] = command[cmd_index - 1 - k]
    BY <1>2, <2>1, <2>3 DEF EInv, IInv, Array
  <2> QED
    BY <1>2, <2>2, <2>4
<1>7. LineShown'
  BY <1>2, <1>3, <1>4, <1>5, <1>6 DEF LineShown
<1> QED
  BY <1>1, <1>2, <1>4, <1>7, LineModeShown

\* A character that fits joins both, also when it scrolls the screen: the prompt
\* stays, as the line is never longer than the screen without its last row.
LEMMA CharShown == ASSUME EInv, NEW c \in Keys, AddChar(c) PROVE EInv'
<1>1. IInv'
  BY CharStep DEF EInv
<1>2. /\ screen' = PrintChar(screen, c) /\ cmd_index' = cmd_index + 1 /\ c \in Printable
      /\ cmd_index < MaxCmd - 1 /\ mode = "line" /\ mode' = "line" /\ UNCHANGED reading
      /\ command' = [command EXCEPT ![cmd_index] = c, ![cmd_index + 1] = NUL]
  BY DEF AddChar
<1>3. /\ screen \in Screens /\ screen.at \in Nat /\ cmd_index \in Nat
      /\ cmd_index < screen.at
      /\ screen.cells[screen.at - 1 - cmd_index] = Prompt
      /\ \A k \in 1..cmd_index : screen.cells[screen.at - k] = command[cmd_index - k]
  BY <1>2, Bounds, ScreenSizes DEF EInv, TypeOK, LineShown, Screens, Cells, CmdSlots
<1>4. /\ screen' \in Screens /\ screen'.at \in {screen.at + 1, Size - Cols}
      /\ screen'.cells[screen'.at - 1] = c
      /\ \A k \in 1..(screen'.at - 1) : screen'.cells[screen'.at - 1 - k] = screen.cells[screen.at - k]
  BY <1>2, <1>3, CharPrinted
<1>5. screen'.at \in Nat /\ cmd_index + 1 < screen'.at
  BY <1>2, <1>3, <1>4, Bounds
<1>6. screen'.cells[screen'.at - 1 - cmd_index'] = Prompt
  <2>1. /\ cmd_index + 1 \in 1..(screen'.at - 1)
        /\ screen'.at - 1 - (cmd_index + 1) = screen'.at - 1 - cmd_index'
        /\ screen.at - (cmd_index + 1) = screen.at - 1 - cmd_index
    BY <1>2, <1>3, <1>5
  <2> QED
    BY <1>3, <1>4, <2>1
<1>7. ASSUME NEW k \in 1..cmd_index'
      PROVE  screen'.cells[screen'.at - k] = command'[cmd_index' - k]
  <2>1. cmd_index \in CmdSlots /\ cmd_index + 1 \in CmdSlots
    BY <1>2, <1>3, Bounds DEF CmdSlots
  <2>2. CASE k = 1
    <3>1. command'[cmd_index] = c
      BY <1>2, <1>3, <2>1 DEF EInv, IInv, Array
    <3> QED
      BY <1>2, <1>3, <1>4, <2>2, <3>1
  <2>3. CASE k # 1
    <3>1. /\ k - 1 \in 1..cmd_index /\ k - 1 \in 1..(screen'.at - 1)
          /\ screen'.at - 1 - (k - 1) = screen'.at - k
          /\ cmd_index - (k - 1) = cmd_index' - k
          /\ cmd_index' - k \in 0..(cmd_index - 1)
      BY <1>2, <1>3, <1>5, <2>3
    <3>2. screen'.cells[screen'.at - k] = command[cmd_index' - k]
      BY <1>3, <1>4, <3>1
    <3>3. cmd_index' - k \in CmdSlots /\ cmd_index' - k # cmd_index /\ cmd_index' - k # cmd_index + 1
      BY <1>3, <2>1, <3>1, Bounds DEF CmdSlots
    <3>4. command'[cmd_index' - k] = command[cmd_index' - k]
      BY <1>2, <3>3 DEF EInv, IInv, Array
    <3> QED
      BY <3>2, <3>4
  <2> QED
    BY <2>2, <2>3
<1>8. LineShown'
  BY <1>2, <1>5, <1>6, <1>7 DEF LineShown
<1> QED
  BY <1>1, <1>2, <1>4, <1>8, LineModeShown

(***************************************************************************)
(* The read command's own loop                                             *)
(***************************************************************************)

\* The editor's line is left alone outside of shell_read_line.
LEMMA ReadLeavesLine ==
    ASSUME IInv, UNCHANGED <<command, cmd_index>>, mode # "line", mode' # "line"
    PROVE  IInv'
BY ElsewhereStep

\* A step inside of the read command.
LEMMA ReadModeShown ==
    ASSUME EInv, UNCHANGED <<command, cmd_index>>, mode # "line",
           screen' \in Screens, buf' \in [BufSlots -> Symbols], i' \in BufSlots,
           mode' \in {"read", "show"}, ReadShown', ReadEnded'
    PROVE  EInv'
<1>1. IInv'
  BY ReadLeavesLine DEF EInv
<1> QED
  BY <1>1 DEF EInv, IInv, Array, Symbols, TypeOK, Modes, LineShown

\* The read command begins with an empty line, whatever the stack holds.
LEMMA ReadStarts == ASSUME EInv, StartRead PROVE EInv'
<1>1. screen' \in Screens
  BY OutputOnScreen DEF StartRead, EInv, TypeOK
<1>2. /\ buf' \in [BufSlots -> Symbols] /\ i' = 0 /\ mode = "execute" /\ mode' = "read"
      /\ UNCHANGED <<command, cmd_index>>
  BY DEF StartRead, Symbols
<1>3. ReadShown' /\ ReadEnded'
  BY <1>1, <1>2, Bounds, ScreenSizes DEF ReadShown, ReadEnded, Screens, Cells
<1> QED
  BY <1>1, <1>2, <1>3, Bounds, ReadModeShown

\* Enter stores the NUL behind what was typed.
LEMMA ReadEnds == ASSUME EInv, EndRead PROVE EInv'
<1>1. /\ screen' = PrintChar(screen, NL) /\ buf' = [buf EXCEPT ![i] = NUL] /\ UNCHANGED i
      /\ mode = "read" /\ mode' = "show" /\ UNCHANGED <<command, cmd_index>>
  BY DEF EndRead
<1>2. screen' \in Screens
  BY <1>1, PrintCharOnScreen DEF EInv, TypeOK
<1>3. buf \in [BufSlots -> Symbols] /\ i \in BufSlots /\ \A k \in 0..(i - 1) : buf[k] # NUL
  BY <1>1 DEF EInv, TypeOK, Symbols, ReadShown
<1>4. buf' \in [BufSlots -> Symbols] /\ buf'[i] = NUL
  BY <1>1, <1>3 DEF Symbols
<1>5. \A k \in 0..(i - 1) : k \in BufSlots /\ k # i
  BY <1>3, Bounds DEF BufSlots
<1>6. ReadShown' /\ ReadEnded'
  BY <1>1, <1>3, <1>4, <1>5 DEF ReadShown, ReadEnded
<1> QED
  BY <1>1, <1>2, <1>3, <1>4, <1>6, ReadModeShown

\* Backspace leaves the character in buf, but not before i.
LEMMA ReadErases == ASSUME EInv, EraseRead PROVE EInv'
<1>1. /\ screen' = PrintChar(screen, BS) /\ UNCHANGED buf /\ i' = i - 1 /\ i > 0
      /\ mode = "read" /\ mode' = "read" /\ UNCHANGED <<command, cmd_index>>
  BY DEF EraseRead
<1>2. /\ screen \in Screens /\ screen.at \in Nat /\ i \in Nat /\ i <= screen.at /\ i < BufSize - 1
      /\ \A k \in 1..i : screen.cells[screen.at - k] = buf[i - k]
      /\ \A k \in 0..(i - 1) : buf[k] # NUL
      /\ buf \in [BufSlots -> Symbols]
  BY <1>1, Bounds, ScreenSizes
     DEF EInv, TypeOK, ReadShown, Screens, Cells, BufSlots, Symbols
<1>3. /\ screen' \in Screens /\ screen'.at = screen.at - 1
      /\ \A k \in 1..(screen.at - 1) : screen'.cells[screen.at - 1 - k] = screen.cells[screen.at - 1 - k]
  <2>1. screen.at > 0
    BY <1>1, <1>2
  <2> QED
    BY <1>1, <1>2, <2>1, CharErased
<1>4. ASSUME NEW k \in 1..i' PROVE screen'.cells[screen'.at - k] = buf'[i' - k]
  <2>1. /\ k \in 1..(screen.at - 1) /\ k + 1 \in 1..i
        /\ screen.at - 1 - k = screen.at - (k + 1) /\ i - 1 - k = i - (k + 1)
    BY <1>1, <1>2
  <2> QED
    BY <1>1, <1>2, <1>3, <2>1
<1>5. i' \in BufSlots /\ i' <= screen'.at /\ i' < BufSize - 1
  BY <1>1, <1>2, <1>3, Bounds DEF BufSlots
<1>6. \A k \in 0..(i' - 1) : buf'[k] # NUL
  BY <1>1, <1>2
<1>7. ReadShown' /\ ReadEnded'
  BY <1>1, <1>4, <1>5, <1>6 DEF ReadShown, ReadEnded
<1> QED
  BY <1>1, <1>2, <1>3, <1>5, <1>7, ReadModeShown

\* A character joins buf and the screen; the loop may end with it.
LEMMA ReadAdds == ASSUME EInv, NEW c \in Keys, AddRead(c) PROVE EInv'
<1>1. /\ screen' = PrintChar(screen, c) /\ c \in Printable
      /\ buf' = [buf EXCEPT ![i] = c] /\ i' = i + 1
      /\ mode = "read" /\ mode' = (IF i + 1 < BufSize - 1 THEN "read" ELSE "show")
      /\ UNCHANGED <<command, cmd_index>>
  BY DEF AddRead
<1>2. /\ screen \in Screens /\ screen.at \in Nat /\ i \in Nat /\ i <= screen.at /\ i < BufSize - 1
      /\ \A k \in 1..i : screen.cells[screen.at - k] = buf[i - k]
      /\ \A k \in 0..(i - 1) : buf[k] # NUL
      /\ buf \in [BufSlots -> Symbols]
  BY <1>1, Bounds, ScreenSizes
     DEF EInv, TypeOK, ReadShown, Screens, Cells, BufSlots, Symbols
<1>3. /\ screen' \in Screens /\ screen'.at \in {screen.at + 1, Size - Cols}
      /\ screen'.cells[screen'.at - 1] = c
      /\ \A k \in 1..(screen'.at - 1) : screen'.cells[screen'.at - 1 - k] = screen.cells[screen.at - k]
  BY <1>1, <1>2, CharPrinted
<1>4. screen'.at \in Nat /\ i + 1 <= screen'.at /\ i \in BufSlots /\ i' \in BufSlots
  BY <1>1, <1>2, <1>3, Bounds DEF BufSlots
<1>5. /\ buf' \in [BufSlots -> Symbols] /\ buf'[i] = c /\ c # NUL
      /\ \A k \in 0..(i - 1) : buf'[k] = buf[k]
  <2>1. \A k \in 0..(i - 1) : k \in BufSlots /\ k # i
    BY <1>2, Bounds DEF BufSlots
  <2> QED
    BY <1>1, <1>2, <1>4, <2>1, EditorAssumption DEF Symbols
<1>6. ASSUME NEW k \in 1..i' PROVE screen'.cells[screen'.at - k] = buf'[i' - k]
  <2>1. CASE k = 1
    BY <1>1, <1>2, <1>3, <1>5, <2>1
  <2>2. CASE k # 1
    <3>1. /\ k - 1 \in 1..i /\ k - 1 \in 1..(screen'.at - 1)
          /\ screen'.at - 1 - (k - 1) = screen'.at - k
          /\ i - (k - 1) = i' - k /\ i' - k \in 0..(i - 1)
      BY <1>1, <1>2, <1>4, <2>2
    <3> QED
      BY <1>2, <1>3, <1>5, <3>1
  <2> QED
    BY <2>1, <2>2
<1>7. \A k \in 0..(i' - 1) : buf'[k] # NUL
  <2>1. \A k \in 0..(i' - 1) : k = i \/ k \in 0..(i - 1)
    BY <1>1, <1>2
  <2> QED
    BY <1>2, <1>5, <2>1
<1>8. CASE i + 1 < BufSize - 1
  BY <1>1, <1>3, <1>4, <1>5, <1>6, <1>7, <1>8, ReadModeShown DEF ReadShown, ReadEnded
<1>9. CASE ~(i + 1 < BufSize - 1)
  BY <1>1, <1>3, <1>4, <1>5, <1>9, ReadModeShown DEF ReadShown, ReadEnded
<1> QED
  BY <1>8, <1>9

(***************************************************************************)
(* Commands, and every step                                                *)
(***************************************************************************)
\* Commands print what they like.
LEMMA CommandShown == ASSUME EInv, Execute \/ Show PROVE EInv'
<1>1. /\ UNCHANGED <<command, cmd_index, reading>> /\ mode \in {"execute", "show"}
      /\ mode' = "prompt"
  BY DEF Execute, Show
<1>2. IInv'
  BY <1>1, ReadLeavesLine DEF EInv
<1>3. screen \in Screens /\ buf \in [BufSlots -> Symbols] /\ i \in BufSlots
  BY DEF EInv, TypeOK, Symbols
<1>4. CASE Execute
  <2>1. Blank \in Screens
    BY ConsoleAssumption, ScreenSizes DEF Blank, Screens, Cells
  <2>2. screen' \in Screens
    BY <1>3, <1>4, <2>1, OutputOnScreen DEF Execute
  <2> QED
    BY <1>1, <1>2, <1>3, <2>2, ElsewhereShown DEF reading
<1>5. CASE Show
  <2>1. screen' \in Screens
    BY <1>3, <1>5, BufferOnScreen DEF Show
  <2> QED
    BY <1>1, <1>2, <1>3, <2>1, ElsewhereShown DEF reading
<1> QED
  BY <1>4, <1>5

\* Every step keeps the invariant.
LEMMA ScreenStep == EInv /\ [Next]_vars => EInv'
<1> SUFFICES ASSUME EInv, [Next]_vars PROVE EInv'
  OBVIOUS
<1>1. CASE UNCHANGED vars
  BY <1>1 DEF vars, reading, EInv, IInv, EditedPart, TypeOK, LineShown, ReadShown, ReadEnded
<1>2. ASSUME NEW c \in Keys, ReadLine(c) PROVE EInv'
  BY <1>2, EnterShown, BackspaceShown, CharShown DEF ReadLine
<1>3. ASSUME NEW c \in Keys, ReadKey(c) PROVE EInv'
  BY <1>3, ReadEnds, ReadErases, ReadAdds DEF ReadKey
<1> QED
  BY <1>1, <1>2, <1>3, PromptShown, CommandShown, ReadStarts DEF Next

(***************************************************************************)
(* Theorems                                                                *)
(***************************************************************************)

\* The invariant holds in every reachable state.
THEOREM EditorInvariance == Spec => []EInv
BY ScreenInit, ScreenStep, PTL DEF Spec

\* Every index stays in its array and the cursor on the screen, for every size
\* of them.
THEOREM EditorTypes == Spec => []TypeOK
<1>1. EInv => TypeOK
  BY DEF EInv
<1> QED
  BY <1>1, EditorInvariance, PTL

\* The cells before the cursor are those of the invariant.
LEMMA ShownCells ==
    ASSUME NEW n \in Nat, NEW k \in 1..n
    PROVE  Shown(n)[k] = screen.cells[screen.at - n + k - 1]
BY DEF Shown

\* However often the line wraps, scrolls or is erased, the prompt stays in front
\* of it.
THEOREM PromptStays == Spec => []PromptKept
<1>1. EInv => PromptKept
  <2> SUFFICES ASSUME EInv, mode = "line" PROVE Shown(cmd_index + 1)[1] = Prompt
    BY DEF PromptKept
  <2>1. cmd_index \in Nat /\ screen.at \in Nat /\ screen.cells[screen.at - 1 - cmd_index] = Prompt
    BY Bounds, ScreenSizes DEF EInv, TypeOK, LineShown, CmdSlots, Screens, Cells
  <2>2. Shown(cmd_index + 1)[1] = screen.cells[screen.at - (cmd_index + 1) + 1 - 1]
    BY <2>1, ShownCells
  <2>3. screen.at - (cmd_index + 1) + 1 - 1 = screen.at - 1 - cmd_index
    BY <2>1
  <2> QED
    BY <2>1, <2>2, <2>3
<1> QED
  BY <1>1, EditorInvariance, PTL

\* The n cells before the cursor are the first n characters of an array.
LEMMA ShownChars ==
    ASSUME NEW array, NEW n \in Nat, screen.at \in Nat,
           \A k \in 1..n : screen.cells[screen.at - k] = array[n - k]
    PROVE  Shown(n) = Chars(array, n)
<1>1. ASSUME NEW k \in 1..n PROVE screen.cells[screen.at - n + k - 1] = array[k - 1]
  <2>1. /\ n - k + 1 \in 1..n /\ screen.at - (n - k + 1) = screen.at - n + k - 1
        /\ n - (n - k + 1) = k - 1
    OBVIOUS
  <2> QED
    BY <2>1
<1> QED
  BY <1>1 DEF Shown, Chars

\* The user sees the line the read command has stored, and gets it back.
THEOREM ReadIsShown == Spec => []ReadShowsLine
<1>1. EInv => ReadShowsLine
  <2> SUFFICES ASSUME EInv PROVE ReadShowsLine
    OBVIOUS
  <2>1. i \in Nat /\ screen.at \in Nat
    BY Bounds, ScreenSizes DEF EInv, TypeOK, BufSlots, Screens, Cells
  <2>2. mode = "read" => Shown(i) = Chars(buf, i)
    BY <2>1, ShownChars DEF EInv, ReadShown
  <2>3. ASSUME mode = "show", i < BufSize - 1 PROVE Text(buf) = Chars(buf, i)
    BY <2>3, BufferEnds DEF EInv, TypeOK, Symbols, ReadEnded
  <2> QED
    BY <2>2, <2>3 DEF ReadShowsLine
<1> QED
  BY <1>1, EditorInvariance, PTL

\* What the cells before the cursor stand for: ScreenLine's text.
ScreenText == IF mode = "line" THEN Shown(cmd_index) ELSE Text(command)

\* The user sees the line being edited.
SameText == ScreenText = LineText
LEMMA ScreenTextIsLine == EInv => SameText
<1> SUFFICES ASSUME EInv, mode = "line" PROVE Shown(cmd_index) = Chars(command, cmd_index)
  BY DEF SameText, ScreenText, LineText
<1>1. cmd_index \in Nat /\ screen.at \in Nat
  BY Bounds, ScreenSizes DEF EInv, TypeOK, CmdSlots, Screens, Cells
<1> QED
  BY <1>1, ShownChars DEF EInv, LineShown

\* What the user sees while typing is a line edited in the same way, and it is
\* the one execute_command gets.
THEOREM ScreenIsTheLine == Spec => ScreenImplementsLine
<1>1. Init => ScreenLine!Init
  <2>1. Init => EInv /\ LineText = <<>> /\ Given
    BY ScreenInit, InvInit
  <2> QED
    BY <2>1, ScreenTextIsLine DEF ScreenLine!Init, SameText, ScreenText, Given
<1>2. EInv /\ SameText /\ SameText' /\ [Next]_vars => [ScreenLine!Next]_ScreenLine!vars
  <2> SUFFICES ASSUME EInv, SameText, SameText', [Next]_vars
               PROVE  [ScreenLine!Next]_ScreenLine!vars
    OBVIOUS
  <2>1. [CommandLine!Next]_CommandLine!vars
    BY LineStep DEF EInv
  <2> QED
    BY <2>1
       DEF CommandLine!Next, CommandLine!Begin, CommandLine!Type, CommandLine!Erase,
           CommandLine!Give, CommandLine!vars, ScreenLine!Next, ScreenLine!Begin,
           ScreenLine!Type, ScreenLine!Erase, ScreenLine!Give, ScreenLine!vars,
           SameText, ScreenText, LineText
<1> QED
  BY EditorInvariance, ScreenTextIsLine, <1>1, <1>2, PTL
     DEF Spec, ScreenImplementsLine, ScreenLine!Spec
=============================================================================
