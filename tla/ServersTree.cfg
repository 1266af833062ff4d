\* One server with two directory and two file slots: who can be created,
\* removed, backed up and restored in which order.  All texts count as one.
SPECIFICATION Spec
VIEW Unaudited
CONSTANTS
    Servers = {apache}
    Apache = apache
    MaxDirs = 2
    MaxFiles = 2
    DirNames = {www, etc}
    FileNames = {index}
    Contents = {notext}
    InitialActive = {apache}
    InitialDirs <- MCInitialDirs
    Www = www
    Index = index
    Free = free
    NoText = notext
INVARIANTS
    Consistent
PROPERTIES
    ChangesAuthorised
