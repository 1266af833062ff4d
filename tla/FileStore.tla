----------------------------- MODULE FileStore ------------------------------
(***************************************************************************)
(* What the file system of one server promises its users: a set of         *)
(* directories, a map from paths to files, and one saved copy of both.  A  *)
(* path names at most one file, and no slots are seen.  Any command may    *)
(* also refuse: for want of a role or of room, or with the server down.    *)
(***************************************************************************)
EXTENDS Integers

CONSTANTS
    DirNames,
    FileNames,
    Texts,     \* what a file may contain
    NoBackup   \* what saved is before the first backup

VARIABLES
    dirs,      \* the directories that exist
    files,     \* path -> file, for the paths that exist
    saved      \* the tree last saved, or NoBackup

vars == <<dirs, files, saved>>

Paths == DirNames \X FileNames

Init ==
    /\ dirs \in SUBSET DirNames
    /\ files = <<>>
    /\ saved = NoBackup

Exists(path) == path \in DOMAIN files

Put(path, file) ==
    files' = [p \in DOMAIN files \cup {path} |-> IF p = path THEN file ELSE files[p]]

Mkdir(dir) ==
    /\ dir \notin dirs
    /\ dirs' = dirs \cup {dir}
    /\ UNCHANGED <<files, saved>>

Rmdir(dir) ==
    /\ dir \in dirs
    /\ \A name \in FileNames : ~Exists(<<dir, name>>)
    /\ dirs' = dirs \ {dir}
    /\ UNCHANGED <<files, saved>>

\* A new file can be read and written; nothing is promised of what it contains.
Touch(path) ==
    /\ UNCHANGED <<dirs, saved>>
    /\ path[1] \in dirs /\ ~Exists(path)
    /\ \E text \in Texts :
          Put(path, [content |-> text, perm_read |-> TRUE, perm_write |-> TRUE])

Write(path, text) ==
    /\ UNCHANGED <<dirs, saved>>
    /\ Exists(path) /\ files[path].perm_write
    /\ Put(path, [files[path] EXCEPT !.content = text])

Chmod(path, read, write) ==
    /\ UNCHANGED <<dirs, saved>>
    /\ Exists(path)
    /\ Put(path, [files[path] EXCEPT !.perm_read = read, !.perm_write = write])

Rm(path) ==
    /\ UNCHANGED <<dirs, saved>>
    /\ Exists(path)
    /\ files' = [p \in DOMAIN files \ {path} |-> files[p]]

Backup ==
    /\ saved' = [dirs |-> dirs, files |-> files]
    /\ UNCHANGED <<dirs, files>>

Restore ==
    /\ UNCHANGED saved
    /\ saved # NoBackup
    /\ dirs' = saved.dirs
    /\ files' = saved.files

Next ==
    \/ Backup \/ Restore
    \/ \E dir \in DirNames : Mkdir(dir) \/ Rmdir(dir)
    \/ \E path \in Paths :
          \/ Touch(path)
          \/ Rm(path)
          \/ \E text \in Texts : Write(path, text)
          \/ \E read, write \in BOOLEAN : Chmod(path, read, write)

Spec == Init /\ [][Next]_vars
=============================================================================
