\* A log of three entries written by commands and by ticks between them, and the
\* three listings with a tick anywhere inside.
SPECIFICATION ListingSpec
CONSTANTS
    MaxLogs = 3
    Texts = {login, get}
    ApacheTexts = {get}
    RequestText = request
    Blank = blank
    Interruptible = FALSE
    MaxTail = 2
INVARIANTS
    LogIsRecent
    
