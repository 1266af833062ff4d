\* Lines of up to seven of a 0, a 1, a minus and a space, arguments of up to two
\* characters; binary numbers on ints of three bits, so that 11 + 1 and 111 overflow.
SPECIFICATION NumbersSpec
CONSTANTS
    Letters = {0, 1, minus}
    Space = sp
    Longest = 7
    Callers = {"tokens", "pair"}
    Wanted = 2
    OutSize = 3
    FieldSize = 3
    Base = 2
    Minus = minus
    IntMax = 3
INVARIANTS
    TypeOK
    NothingLost
    ArgumentsAreWords
    PairIsWords
    ParsesModuloRange
    PrintsSum
