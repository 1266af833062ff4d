\* One directory and two file slots: contents, permissions, the same name twice
\* in the web root, and slots against paths.
SPECIFICATION Spec
VIEW Unaudited
CONSTANTS
    Servers = {apache}
    Apache = apache
    MaxDirs = 1
    MaxFiles = 2
    DirNames = {www, etc}
    FileNames = {index}
    Contents = {text}
    InitialActive = {apache}
    InitialDirs <- MCInitialDirs
    Www = www
    Index = index
    Free = free
    NoText = notext
PROPERTIES
    ProtectedContentKept
    ImplementsStore
