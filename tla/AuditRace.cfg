\* A tick at any instruction of add_audit_log, the log one entry from full.
SPECIFICATION Spec
CONSTANTS
    MaxLogs = 2
    Texts = {mkdir}
    RequestText = request
    Blank = blank
    Interruptible = TRUE
INVARIANTS
    CountBounded
