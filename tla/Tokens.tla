------------------------------- MODULE Tokens --------------------------------
(***************************************************************************)
(* How the shell takes the arguments out of a command line: skip_spaces,   *)
(* read_token and copy_string (src/utils.c), as the server and apache      *)
(* commands call them, and the scan the two-number commands do themselves  *)
(* (src/shell.c).  A line is what follows the command's name; read_token's *)
(* loop is one action per character.                                       *)
(***************************************************************************)
EXTENDS Integers, SequencesExt

CONSTANTS
    Letters,     \* the characters of words
    Space,       \* ' '
    Longest,     \* bounds the lines typed
    Callers,     \* "tokens": server fs and apache; "pair": sleep, priority, add
    Wanted,      \* the arguments the command reads with read_token
    OutSize,     \* max_len of read_token: the size of the local it fills
    FieldSize    \* max_len of copy_string: the size of the field it is stored in

ASSUME TokensAssumption ==
    /\ Space \notin Letters
    /\ Longest \in Nat
    /\ Callers \subseteq {"tokens", "pair"}
    /\ Wanted \in Nat /\ Wanted > 0
    /\ OutSize \in Nat /\ OutSize > 1
    /\ FieldSize \in Nat /\ FieldSize > 1

VARIABLES
    caller,   \* which of them reads the line
    line,     \* the characters of the command after its name
    at,       \* cursor, or the index i of the pair's scan: 1 is the first
    out,      \* the token being copied
    args,     \* the arguments read
    stored,   \* what copy_string makes of each
    rest,     \* the text a write or an add takes after its arguments
    pc

vars == <<caller, line, at, out, args, stored, rest, pc>>

Lines == UNION {[1..n -> Letters \cup {Space}] : n \in 0..Longest}
Places == {"skip", "copy", "first", "second", "done", "usage"}

Init ==
    /\ line \in Lines
    /\ at = 1
    /\ out = <<>> /\ args = <<>> /\ stored = <<>> /\ rest = <<>>
    /\ caller \in Callers
    /\ pc = IF caller = "tokens" THEN "skip" ELSE "first"

AtEnd == at > Len(line)
AtSpace == ~AtEnd /\ line[at] = Space
AtLetter == ~AtEnd /\ line[at] # Space

(***************************************************************************)
(* utils.c                                                                 *)
(***************************************************************************)
\* copy_string, into a field of FieldSize bytes, the last one the terminator.
CopyString(text) ==
    SubSeq(text, 1, IF Len(text) < FieldSize - 1 THEN Len(text) ELSE FieldSize - 1)

\* skip_spaces, one step at a time.
SkipSpace ==
    /\ pc = "skip" /\ AtSpace
    /\ at' = at + 1
    /\ UNCHANGED <<caller, line, out, args, stored, rest, pc>>

\* read_token returns 0: the caller prints its usage.
NoToken ==
    /\ pc = "skip" /\ AtEnd /\ Len(args) < Wanted
    /\ pc' = "usage"
    /\ UNCHANGED <<caller, line, at, out, args, stored, rest>>

StartToken ==
    /\ pc = "skip" /\ AtLetter /\ Len(args) < Wanted
    /\ pc' = "copy"
    /\ UNCHANGED <<caller, line, at, out, args, stored, rest>>

\* Mutant: fills the last byte too.
CopyCharBeyond ==
    /\ pc = "copy" /\ AtLetter /\ Len(out) < OutSize
    /\ out' = Append(out, line[at])
    /\ at' = at + 1
    /\ UNCHANGED <<caller, line, args, stored, rest, pc>>

\* Mutant: goes on over spaces.
CopyAnyChar ==
    /\ pc = "copy" /\ ~AtEnd /\ Len(out) < OutSize - 1
    /\ out' = Append(out, line[at])
    /\ at' = at + 1
    /\ UNCHANGED <<caller, line, args, stored, rest, pc>>

CopyChar ==
    /\ pc = "copy" /\ AtLetter /\ Len(out) < OutSize - 1
    /\ out' = Append(out, line[at])
    /\ at' = at + 1
    /\ UNCHANGED <<caller, line, args, stored, rest, pc>>

\* Mutant: steps over the character the token ended at.
EndTokenBehind ==
    /\ pc = "copy" /\ (~AtLetter \/ Len(out) = OutSize - 1)
    /\ args' = Append(args, out)
    /\ stored' = Append(stored, CopyString(out))
    /\ out' = <<>>
    /\ at' = IF AtEnd THEN at ELSE at + 1
    /\ pc' = "skip"
    /\ UNCHANGED <<caller, line, rest>>

\* read_token returns 1, and the caller goes on to its next argument.
EndToken ==
    /\ pc = "copy" /\ (~AtLetter \/ Len(out) >= OutSize - 1)
    /\ args' = Append(args, out)
    /\ stored' = Append(stored, CopyString(out))
    /\ out' = <<>>
    /\ pc' = "skip"
    /\ UNCHANGED <<caller, line, at, rest>>

\* All arguments are there; what follows is the text to write, if any.
TakeRest ==
    /\ pc = "skip" /\ ~AtSpace /\ Len(args) = Wanted
    /\ rest' = SubSeq(line, at, Len(line))
    /\ pc' = "done"
    /\ UNCHANGED <<caller, line, at, out, args, stored>>

(***************************************************************************)
(* sleep, priority, add: a number, its end, spaces, a number.  What        *)
(* parse_number makes of the two words is in Numbers.tla.                  *)
(***************************************************************************)
\* What parse_number reads from a place, and where the word there ends.
WordEnd(p) == Min({q \in p..(Len(line) + 1) : q > Len(line) \/ line[q] = Space})
WordAt(p) == SubSeq(line, p, WordEnd(p) - 1)

\* Mutant: forgets the spaces.
ScanFirstOnly ==
    /\ pc = "first"
    /\ args' = <<WordAt(at)>>
    /\ at' = WordEnd(at)
    /\ pc' = "second"
    /\ UNCHANGED <<caller, line, out, stored, rest>>

ScanFirst ==
    /\ pc = "first"
    /\ args' = <<WordAt(at)>>
    /\ at' = Min({q \in WordEnd(at)..(Len(line) + 1) : q > Len(line) \/ line[q] # Space})
    /\ pc' = "second"
    /\ UNCHANGED <<caller, line, out, stored, rest>>

ScanSecond ==
    /\ pc = "second"
    /\ args' = Append(args, WordAt(at))
    /\ pc' = "done"
    /\ UNCHANGED <<caller, line, at, out, stored, rest>>

Done == pc \in {"done", "usage"} /\ UNCHANGED vars

Next ==
    \/ SkipSpace \/ NoToken \/ StartToken \/ CopyChar \/ EndToken \/ TakeRest
    \/ ScanFirst \/ ScanSecond
    \/ Done

Spec == Init /\ [][Next]_vars

(***************************************************************************)
(* Properties                                                              *)
(***************************************************************************)

\* Tokens and their terminators fit the buffers they are copied into.
TypeOK ==
    /\ pc \in Places
    /\ at \in 1..(Len(line) + 1)
    /\ Len(out) < OutSize
    /\ \A k \in DOMAIN stored : Len(stored[k]) < FieldSize

\* The words among the first k characters of a text, for each k: runs of letters.
WordsIn(text) ==
    LET words[k \in 0..Len(text)] ==
            IF k = 0 THEN <<>>
            ELSE IF text[k] = Space THEN words[k - 1]
            ELSE IF k = 1 \/ text[k - 1] = Space THEN Append(words[k - 1], <<text[k]>>)
            ELSE LET before == words[k - 1]
                 IN [before EXCEPT ![Len(before)] = Append(@, text[k])]
    IN words
Words(text) == WordsIn(text)[Len(text)]

\* The letters among them, in their order.
LettersIn(text) ==
    LET letters[k \in 0..Len(text)] ==
            IF k = 0 THEN <<>>
            ELSE IF text[k] = Space THEN letters[k - 1]
            ELSE Append(letters[k - 1], text[k])
    IN letters

\* No character is lost or read twice: the arguments and the token in hand are
\* the letters before the cursor in their order, through cut words and any number
\* of spaces.
NothingLost ==
    caller = "tokens" => FlattenSeq(args) \o out = LettersIn(line)[at - 1]

\* With words that fit, the arguments are the first words of the line, a missing
\* one is reported, and the text is the rest, however they are spaced.
ArgumentsAreWords ==
    caller = "tokens" /\ (\A k \in DOMAIN Words(line) : Len(Words(line)[k]) < OutSize) =>
        /\ pc = "usage" => args = Words(line) /\ Len(args) < Wanted
        /\ pc = "done" => /\ args = SubSeq(Words(line), 1, Wanted)
                          /\ Words(rest) = SubSeq(Words(line), Wanted + 1, Len(Words(line)))

\* The first two words, no word where there are fewer.  A line that does not
\* begin with a word counts as if an empty one came first.
StartsWithWord == Head(Append(line, Space)) # Space
Ahead == IF StartsWithWord THEN <<>> ELSE << <<>> >>
TwoWords == SubSeq((Ahead \o Words(line)) \o << <<>>, <<>> >>, 1, 2)

\* The scan for two numbers finds the first two words, however many spaces lie
\* between them; a space before them makes the first number empty and the first
\* word the second number.
PairIsWords == caller = "pair" /\ pc = "done" => args = TwoWords
=============================================================================
