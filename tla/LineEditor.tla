----------------------------- MODULE LineEditor ------------------------------
(***************************************************************************)
(* Typing on the console: the main loop's prompt (src/kernel.c),           *)
(* shell_read_line and the read command's own input loop (src/shell.c),    *)
(* with what they echo.  One action per key that get_key returns.          *)
(***************************************************************************)
EXTENDS Console

CONSTANTS
    MaxCmd,     \* MAX_CMD (80): size of command
    BufSize,    \* 80: size of the read command's buf
    Keys,       \* the keys pressed
    Enter,      \* '\r'
    NUL,        \* '\0'
    Prompt,     \* the last character of the prompt
    Outputs     \* the texts commands print

ASSUME EditorAssumption ==
    /\ MaxCmd \in Nat /\ MaxCmd > 1 /\ MaxCmd <= Size - Cols
    /\ BufSize \in Nat /\ BufSize > 1 /\ BufSize <= Size - Cols
    /\ Enter \in Keys /\ BS \in Keys /\ Enter # BS
    /\ Enter \notin Printable /\ NUL \notin Printable
    /\ Prompt \in Printable
    /\ Outputs \subseteq Seq(Printable \cup {NL, BS, Enter})

VARIABLES
    screen,      \* the VGA memory and vga_offset
    command,
    cmd_index,
    mode,        \* what the shell is doing
    buf,         \* read's buffer, on the stack
    i            \* read's index

reading == <<buf, i>>
vars == <<screen, command, cmd_index, mode, reading>>

Modes == {"prompt", "line", "execute", "read", "show"}
CmdSlots == 0..(MaxCmd - 1)
BufSlots == 0..(BufSize - 1)

\* After kernel_main's banner.
Init ==
    /\ \E text \in Outputs : screen = PrintString(Blank, text)
    /\ command = [k \in CmdSlots |-> NUL]
    /\ cmd_index = 0
    /\ mode = "prompt"
    /\ buf = [k \in BufSlots |-> NUL]
    /\ i = 0

\* The first n characters of an array, and those before its NUL: the C string.
Chars(array, n) == [k \in 1..n |-> array[k - 1]]
Ends(array) == {n \in DOMAIN array : array[n] = NUL}
Text(array) ==
    IF Ends(array) = {} THEN Chars(array, Cardinality(DOMAIN array))
    ELSE Chars(array, Min(Ends(array)))

(***************************************************************************)
(* shell_read_line                                                         *)
(***************************************************************************)
ShowPrompt ==
    /\ mode = "prompt"
    /\ screen' = PrintChar(screen, Prompt)
    /\ cmd_index' = 0
    /\ mode' = "line"
    /\ UNCHANGED <<command, reading>>

\* Mutant: leaves the text as it is.
EndLineUnterminated ==
    /\ mode = "line"
    /\ screen' = PrintChar(screen, NL)
    /\ mode' = "execute"
    /\ UNCHANGED <<command, cmd_index, reading>>

\* Enter.
EndLine ==
    /\ mode = "line"
    /\ command' = [command EXCEPT ![cmd_index] = NUL]
    /\ screen' = PrintChar(screen, NL)
    /\ mode' = "execute"
    /\ UNCHANGED <<cmd_index, reading>>

\* Mutant: moves the cursor back whether or not there is something to erase.
EraseCharAlways ==
    /\ mode = "line"
    /\ cmd_index' = IF cmd_index = 0 THEN 0 ELSE cmd_index - 1
    /\ command' = [command EXCEPT ![cmd_index'] = NUL]
    /\ screen' = PrintChar(screen, BS)
    /\ UNCHANGED <<mode, reading>>

\* Backspace.
EraseChar ==
    /\ mode = "line" /\ cmd_index > 0
    /\ cmd_index' = cmd_index - 1
    /\ command' = [command EXCEPT ![cmd_index - 1] = NUL]
    /\ screen' = PrintChar(screen, BS)
    /\ UNCHANGED <<mode, reading>>

\* Mutant: echoes what does not fit.
AddCharEchoingAll(c) ==
    /\ mode = "line" /\ c \in Printable
    /\ screen' = PrintChar(screen, c)
    /\ IF cmd_index < MaxCmd - 1
       THEN /\ command' = [command EXCEPT ![cmd_index] = c, ![cmd_index + 1] = NUL]
            /\ cmd_index' = cmd_index + 1
       ELSE UNCHANGED <<command, cmd_index>>
    /\ UNCHANGED <<mode, reading>>

\* A character.  Any other key, and one that does not fit, is dropped.
AddChar(c) ==
    /\ mode = "line" /\ c \in Printable /\ cmd_index < MaxCmd - 1
    /\ command' = [command EXCEPT ![cmd_index] = c, ![cmd_index + 1] = NUL]
    /\ cmd_index' = cmd_index + 1
    /\ screen' = PrintChar(screen, c)
    /\ UNCHANGED <<mode, reading>>

ReadLine(c) ==
    \/ c = Enter /\ EndLine
    \/ c = BS /\ EraseChar
    \/ AddChar(c)

(***************************************************************************)
(* execute_command, as far as the screen sees it                           *)
(***************************************************************************)
\* An empty line does nothing; a command prints a text, or is clear.
Execute ==
    /\ mode = "execute"
    /\ \/ command[0] = NUL /\ UNCHANGED screen
       \/ command[0] # NUL /\ \E text \in Outputs : screen' = PrintString(screen, text)
       \/ command[0] # NUL /\ screen' = Blank
    /\ mode' = "prompt"
    /\ UNCHANGED <<command, cmd_index, reading>>

\* The read command: buf holds whatever the stack does.
StartRead ==
    /\ mode = "execute" /\ command[0] # NUL
    /\ \E text \in Outputs : screen' = PrintString(screen, text)
    /\ \E junk \in Printable \cup {NUL} : buf' = [k \in BufSlots |-> junk]
    /\ i' = 0
    /\ mode' = "read"
    /\ UNCHANGED <<command, cmd_index>>

EndRead ==
    /\ mode = "read"
    /\ buf' = [buf EXCEPT ![i] = NUL]
    /\ screen' = PrintChar(screen, NL)
    /\ mode' = "show"
    /\ UNCHANGED <<command, cmd_index, i>>

\* Mutant: goes back one place, which the loop's own i++ undoes.
EraseReadOnce ==
    /\ mode = "read" /\ i > 0
    /\ screen' = PrintChar(screen, BS)
    /\ UNCHANGED <<command, cmd_index, mode, buf, i>>

\* Backspace: i -= 2, then the loop's i++.
EraseRead ==
    /\ mode = "read" /\ i > 0
    /\ i' = i - 1
    /\ screen' = PrintChar(screen, BS)
    /\ UNCHANGED <<command, cmd_index, mode, buf>>

\* The loop also ends when all but one byte of buf is full.
AddRead(c) ==
    /\ mode = "read" /\ c \in Printable
    /\ buf' = [buf EXCEPT ![i] = c]
    /\ i' = i + 1
    /\ mode' = IF i + 1 < BufSize - 1 THEN "read" ELSE "show"
    /\ screen' = PrintChar(screen, c)
    /\ UNCHANGED <<command, cmd_index>>

ReadKey(c) ==
    \/ c = Enter /\ EndRead
    \/ c = BS /\ EraseRead
    \/ AddRead(c)

\* "Leido: " and buf.  Without a NUL the string goes on behind buf.
Show ==
    /\ mode = "show"
    /\ \E beyond \in Outputs :
          screen' = PrintString(screen,
                        IF Ends(buf) = {} THEN Text(buf) \o beyond ELSE Text(buf))
    /\ mode' = "prompt"
    /\ UNCHANGED <<command, cmd_index, reading>>

Next ==
    \/ ShowPrompt
    \/ \E c \in Keys : ReadLine(c) \/ ReadKey(c)
    \/ Execute
    \/ StartRead
    \/ Show

Spec == Init /\ [][Next]_vars

(***************************************************************************)
(* Properties                                                              *)
(***************************************************************************)

\* Indices stay inside their arrays and the cursor on the screen, through every
\* wrap, scroll and run of backspaces.
TypeOK ==
    /\ screen \in Screens
    /\ command \in [CmdSlots -> Printable \cup {NUL}]
    /\ cmd_index \in CmdSlots
    /\ mode \in Modes
    /\ buf \in [BufSlots -> Printable \cup {NUL}]
    /\ i \in BufSlots

\* The last n characters printed.
Shown(n) == [k \in 1..n |-> screen.cells[screen.at - n + k - 1]]

\* What execute_command gets is the edited line: the command array implements
\* an edited line of MaxCmd - 1 characters, whatever an earlier command left in
\* it.
CommandLine ==
    INSTANCE Line WITH
        Symbols <- Printable, Longest <- MaxCmd - 1,
        text <- IF mode = "line" THEN Chars(command, cmd_index) ELSE Text(command),
        given <- mode # "line"
CommandImplementsLine == CommandLine!Spec

\* So do the cells before the cursor: the user sees what the shell will get,
\* also when the line wraps and scrolls the screen.
ScreenLine ==
    INSTANCE Line WITH
        Symbols <- Printable, Longest <- MaxCmd - 1,
        text <- IF mode = "line" THEN Shown(cmd_index) ELSE Text(command),
        given <- mode # "line"
ScreenImplementsLine == ScreenLine!Spec

\* Backspace never erases the prompt.
PromptKept == mode = "line" => Shown(cmd_index + 1)[1] = Prompt

\* The read command: the user sees what it has stored, and what it prints is the
\* line as edited, nothing of what was erased or of what the stack held before.
\* (As long as Enter ended it, and not the last free byte of buf.)
ReadShowsLine ==
    /\ mode = "read" => Shown(i) = Chars(buf, i)
    /\ mode = "show" /\ i < BufSize - 1 => Text(buf) = Chars(buf, i)
=============================================================================
