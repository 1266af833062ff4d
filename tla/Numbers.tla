------------------------------- MODULE Numbers -------------------------------
(***************************************************************************)
(* The shell's arithmetic on top of its scan for two numbers: parse_number *)
(* and int_to_str (src/utils.c), loop by loop, as the add command calls    *)
(* them (src/shell.c).  Ints wrap as the build's do.  The code parses the  *)
(* first number before it scans for the second; the line does not change,  *)
(* so here both are parsed after the scan.                                 *)
(***************************************************************************)
EXTENDS Tokens

CONSTANTS
    Base,       \* 10; the digits are the letters 0..(Base - 1)
    Minus,      \* '-'
    IntMax      \* 2^31 - 1

Digits == 0..(Base - 1)

ASSUME NumbersAssumption ==
    /\ Base \in Nat /\ Base > 1
    /\ IntMax \in Nat /\ IntMax >= Base
    /\ Digits \cup {Minus} \subseteq Letters
    /\ Minus \notin Digits

VARIABLES
    which,      \* the argument being parsed
    str,        \* parse_number's: the next character of it
    num,        \* the local of parse_number, then of int_to_str
    parsed,     \* the values of the arguments parsed
    buffer,     \* int_to_str's, without its terminator
    j,          \* the index of the loop that reverses it
    stage       \* where add is after the scan

sum == <<which, str, num, parsed, buffer, j, stage>>
numbersVars == <<vars, sum>>

\* What a 32-bit int holds after an operation whose exact result is n.
WrapInt(n) == ((n + IntMax + 1) % (2 * IntMax + 2)) - IntMax - 1

NumbersInit ==
    /\ Init
    /\ which = 1 /\ str = 1 /\ num = 0
    /\ parsed = <<>> /\ buffer = <<>> /\ j = 0
    /\ stage = "parse"

At(place) == caller = "pair" /\ pc = "done" /\ stage = place

(***************************************************************************)
(* parse_number                                                            *)
(***************************************************************************)
Negative(word) == word # <<>> /\ Head(word) = Minus
Body(word) == IF Negative(word) THEN Tail(word) ELSE word
Word == Body(args[which])
AtDigit == str <= Len(Word) /\ Word[str] \in Digits

ParseDigit ==
    /\ At("parse") /\ AtDigit
    /\ num' = WrapInt(WrapInt(num * Base) + Word[str])
    /\ str' = str + 1
    /\ UNCHANGED <<vars, which, parsed, buffer, j, stage>>

\* Mutant: loses the sign.
EndParseUnsigned ==
    /\ At("parse") /\ ~AtDigit
    /\ parsed' = Append(parsed, num)
    /\ stage' = IF which = 1 THEN "parse" ELSE "add"
    /\ which' = 2 /\ str' = 1 /\ num' = 0
    /\ UNCHANGED <<vars, buffer, j>>

EndParse ==
    /\ At("parse") /\ ~AtDigit
    /\ parsed' = Append(parsed, IF Negative(args[which]) THEN WrapInt(-num) ELSE num)
    /\ stage' = IF which = 1 THEN "parse" ELSE "add"
    /\ which' = 2 /\ str' = 1 /\ num' = 0
    /\ UNCHANGED <<vars, buffer, j>>

(***************************************************************************)
(* int_to_str of the sum                                                   *)
(***************************************************************************)
Sum == WrapInt(parsed[1] + parsed[2])

StartPrint ==
    /\ At("add")
    /\ IF Sum = 0
       THEN buffer' = <<0>> /\ stage' = "printed" /\ UNCHANGED num
       ELSE num' = (IF Sum < 0 THEN WrapInt(-Sum) ELSE Sum) /\ stage' = "digits" /\ UNCHANGED buffer
    /\ UNCHANGED <<vars, which, str, parsed, j>>

PrintDigit ==
    /\ At("digits") /\ num > 0
    /\ buffer' = Append(buffer, num % Base)
    /\ num' = num \div Base
    /\ UNCHANGED <<vars, which, str, parsed, j, stage>>

PrintSign ==
    /\ At("digits") /\ num <= 0
    /\ buffer' = IF Sum < 0 THEN Append(buffer, Minus) ELSE buffer
    /\ stage' = "reverse"
    /\ UNCHANGED <<vars, which, str, num, parsed, j>>

\* Mutant: swaps every pair twice.
SwapAllDigits ==
    /\ At("reverse") /\ j < Len(buffer)
    /\ LET k == Len(buffer) - j
       IN buffer' = [buffer EXCEPT ![j + 1] = buffer[k], ![k] = buffer[j + 1]]
    /\ j' = j + 1
    /\ UNCHANGED <<vars, which, str, num, parsed, stage>>

SwapDigits ==
    /\ At("reverse") /\ j < Len(buffer) \div 2
    /\ LET k == Len(buffer) - j
       IN buffer' = [buffer EXCEPT ![j + 1] = buffer[k], ![k] = buffer[j + 1]]
    /\ j' = j + 1
    /\ UNCHANGED <<vars, which, str, num, parsed, stage>>

EndPrint ==
    /\ At("reverse") /\ j >= Len(buffer) \div 2
    /\ stage' = "printed"
    /\ UNCHANGED <<vars, which, str, num, parsed, buffer, j>>

NumbersNext ==
    \/ Next /\ UNCHANGED sum
    \/ ParseDigit \/ EndParse
    \/ StartPrint \/ PrintDigit \/ PrintSign \/ SwapDigits \/ EndPrint

NumbersSpec == NumbersInit /\ [][NumbersNext]_numbersVars

(***************************************************************************)
(* Properties                                                              *)
(***************************************************************************)

\* The number written by some digits, most significant first, behind n.
ValueBehind(n, digits) ==
    LET value[k \in 0..Len(digits)] == IF k = 0 THEN n ELSE value[k - 1] * Base + digits[k]
    IN value[Len(digits)]
Value(digits) == ValueBehind(0, digits)

\* The number at the beginning of a word, without the limits of an int: the
\* longest run of digits after at most one minus, or 0.
Meaning(word) ==
    LET ends == {n \in 0..Len(Body(word)) : \A k \in 1..n : Body(word)[k] \in Digits}
        value == Value(SubSeq(Body(word), 1, CHOOSE n \in ends : \A m \in ends : m <= n))
    IN IF Negative(word) THEN -value ELSE value

\* The number a printed text stands for, and whether it is one at all: digits
\* without superfluous zeros after at most one minus.
Printed(text) == IF Negative(text) THEN -Value(Body(text)) ELSE Value(Body(text))
IsNumeral(text) ==
    /\ Body(text) # <<>>
    /\ \A k \in DOMAIN Body(text) : Body(text)[k] \in Digits
    /\ Head(Body(text)) = 0 => text = <<0>>

\* However many digits are typed, parse_number keeps their value modulo the
\* int's range: overflowing digit by digit loses no more than that.
ParsesModuloRange ==
    \A k \in DOMAIN parsed : parsed[k] = WrapInt(Meaning(args[k]))

\* add prints the sum of what it parsed, every int but the smallest.
PrintsSum ==
    stage = "printed" /\ Sum # -IntMax - 1 => IsNumeral(buffer) /\ Printed(buffer) = Sum
=============================================================================
