\* A screen of three rows of two, lines and a read buffer of three characters.
SPECIFICATION Spec
CONSTANTS
    a = a
    Rows = 3
    Cols = 2
    Printable = {a, gt, sp}
    Space = sp
    NL = nl
    BS = bs
    MaxCmd = 4
    BufSize = 4
    Keys = {a, sp, bs, cr, tab}
    Enter = cr
    NUL = nul
    Prompt = gt
    Outputs <- MCOutputs
INVARIANTS
    TypeOK
    PromptKept
    ReadShowsLine
PROPERTIES
    CommandImplementsLine
    ScreenImplementsLine
