------------------------------- MODULE Servers -------------------------------
(***************************************************************************)
(* The server manager of Mi SO (src/servers.c): the session, the on/off    *)
(* state of each simulated server, and its little file system with a       *)
(* backup.  One action per shell command that changes state; a command     *)
(* that reports an error changes nothing and is not an action.             *)
(*                                                                         *)
(* The names are those the shell can hand over: read_token cuts a word to  *)
(* the 15 characters a slot holds.  A longer name given to apache add is   *)
(* stored cut to 15, which is such a name again.                           *)
(*                                                                         *)
(* Commands run to completion here: the timer interrupt shares only the    *)
(* audit log with them (AuditLog.tla).                                     *)
(***************************************************************************)
EXTENDS Integers

CONSTANTS
    Servers,      \* the registered servers
    Apache,       \* the one the apache commands work on
    MaxDirs,      \* MAX_SERVER_DIRS (6)
    MaxFiles,     \* MAX_SERVER_FILES (12)
    DirNames,
    FileNames,
    Contents,     \* the texts write and apache add store
    InitialActive, \* the servers registered as active
    InitialDirs,  \* per server, slot -> directory created at boot
    Www,          \* the web root "www"
    Index,        \* "index.html"
    Free,         \* the name of an unused slot
    NoText        \* the empty text, also the content of a slot never written

ASSUME ServersAssumption ==
    /\ Apache \in Servers
    /\ MaxDirs \in Nat \ {0} /\ MaxFiles \in Nat \ {0}
    /\ Www \in DirNames /\ Index \in FileNames
    /\ Free \notin DirNames \cup FileNames
    /\ InitialActive \subseteq Servers
    /\ InitialDirs \in [Servers -> [0..(MaxDirs - 1) -> DirNames \cup {Free}]]
    /\ Www \in {InitialDirs[Apache][d] : d \in 0..(MaxDirs - 1)}
    /\ \A s \in Servers : \A d, e \in 0..(MaxDirs - 1) :
          InitialDirs[s][d] = InitialDirs[s][e] /\ InitialDirs[s][d] # Free => d = e

VARIABLES
    active,           \* server_table[].active
    dirs,             \* server_dirs: slot -> name, or Free
    files,            \* server_files: slot -> record
    snapshots,        \* server_snapshots
    current_role,
    session_authenticated,
    audited           \* what the last command passed to add_audit_log

fs == <<dirs, files>>
session == <<current_role, session_authenticated>>
vars == <<active, dirs, files, snapshots, session, audited>>

VIEWER == 0
OPERATOR == 1
ADMIN == 2
Roles == VIEWER..ADMIN

DirSlots == 0..(MaxDirs - 1)
FileSlots == 0..(MaxFiles - 1)

\* An unused slot keeps its content and permissions: rm clears only "used".
\* Its dir and name are overwritten before they are read again.
File == [dir : DirNames \cup {Free}, name : FileNames \cup {Free},
         content : Contents \cup {NoText},
         perm_read : BOOLEAN, perm_write : BOOLEAN]
Used(f) == f.name # Free

EmptyFile == [dir |-> Free, name |-> Free, content |-> NoText,
              perm_read |-> TRUE, perm_write |-> TRUE]

(***************************************************************************)
(* init_server_manager, init_server_filesystem                             *)
(***************************************************************************)
Init ==
    /\ active = [s \in Servers |-> s \in InitialActive]
    /\ dirs = InitialDirs
    /\ files = [s \in Servers |-> [i \in FileSlots |->
                  IF s = Apache /\ i = 0
                  THEN [EmptyFile EXCEPT !.dir = Www, !.name = Index]
                  ELSE EmptyFile]]
    /\ snapshots = [s \in Servers |-> [valid |-> FALSE]]
    /\ current_role = VIEWER
    /\ session_authenticated = FALSE
    /\ audited = "nothing"

\* require_role
RequireRole(min_role) == session_authenticated /\ current_role >= min_role

\* fs_dir_exists, fs_find_file (every match; the code takes the first).
DirExists(s, dir) == \E d \in DirSlots : dirs[s][d] = dir
Matches(s, dir, name) ==
    {i \in FileSlots : files[s][i].dir = dir /\ files[s][i].name = name}

IsFirst(i, slots) == i \in slots /\ \A j \in slots : i <= j
FreeDirs(s) == {d \in DirSlots : dirs[s][d] = Free}
FreeFiles(s) == {i \in FileSlots : ~Used(files[s][i])}

(***************************************************************************)
(* Session                                                                 *)
(***************************************************************************)

\* command_login with the right password.  With a wrong one the session that
\* was open stays as it was.
Login(role) ==
    /\ current_role' = role
    /\ session_authenticated' = TRUE
    /\ audited' = "login"
    /\ UNCHANGED <<active, fs, snapshots>>

Logout ==
    /\ current_role' = VIEWER
    /\ session_authenticated' = FALSE
    /\ audited' = "logout"
    /\ UNCHANGED <<active, fs, snapshots>>

(***************************************************************************)
(* Servers and backups                                                     *)
(***************************************************************************)

\* command_server_start and command_server_restart (which also counts).
Start(s) ==
    /\ RequireRole(OPERATOR)
    /\ active' = [active EXCEPT ![s] = TRUE]
    /\ audited' = "server start"
    /\ UNCHANGED <<fs, snapshots, session>>

Stop(s) ==
    /\ RequireRole(OPERATOR)
    /\ active' = [active EXCEPT ![s] = FALSE]
    /\ audited' = "server stop"
    /\ UNCHANGED <<fs, snapshots, session>>

Backup(s) ==
    /\ RequireRole(OPERATOR)
    /\ snapshots' = [snapshots EXCEPT ![s] =
                        [valid |-> TRUE, dirs |-> dirs[s], files |-> files[s]]]
    /\ audited' = "backup"
    /\ UNCHANGED <<active, fs, session>>

Restore(s) ==
    /\ RequireRole(ADMIN)
    /\ snapshots[s].valid
    /\ dirs' = [dirs EXCEPT ![s] = snapshots[s].dirs]
    /\ files' = [files EXCEPT ![s] = snapshots[s].files]
    /\ audited' = "restore"
    /\ UNCHANGED <<active, snapshots, session>>

(***************************************************************************)
(* server fs                                                               *)
(***************************************************************************)

Mkdir(s, dir) ==
    /\ RequireRole(OPERATOR)
    /\ active[s]
    /\ ~DirExists(s, dir)
    /\ \E d \in DirSlots :
          /\ IsFirst(d, FreeDirs(s))
          /\ dirs' = [dirs EXCEPT ![s][d] = dir]
    /\ audited' = "mkdir"
    /\ UNCHANGED <<active, files, snapshots, session>>

\* The content of the slot's previous file stays.
Touch(s, dir, name) ==
    /\ RequireRole(OPERATOR)
    /\ active[s]
    /\ DirExists(s, dir)
    /\ Matches(s, dir, name) = {}
    /\ \E i \in FileSlots :
          /\ IsFirst(i, FreeFiles(s))
          /\ files' = [files EXCEPT ![s][i] =
                          [@ EXCEPT !.dir = dir, !.name = name,
                                    !.perm_read = TRUE, !.perm_write = TRUE]]
    /\ audited' = "touch"
    /\ UNCHANGED <<active, dirs, snapshots, session>>

\* Mutant: ignores the write permission.
WriteAnyway(s, dir, name, content) ==
    /\ RequireRole(OPERATOR)
    /\ active[s]
    /\ \E i \in FileSlots :
          /\ IsFirst(i, Matches(s, dir, name))
          /\ files' = [files EXCEPT ![s][i].content = content]
    /\ audited' = "write"
    /\ UNCHANGED <<active, dirs, snapshots, session>>

Write(s, dir, name, content) ==
    /\ RequireRole(OPERATOR)
    /\ active[s]
    /\ \E i \in FileSlots :
          /\ IsFirst(i, Matches(s, dir, name))
          /\ files[s][i].perm_write
          /\ files' = [files EXCEPT ![s][i].content = content]
    /\ audited' = "write"
    /\ UNCHANGED <<active, dirs, snapshots, session>>

\* What rm and apache rm do to the slot they find.
Release(s, i) ==
    files' = [files EXCEPT ![s][i] = [@ EXCEPT !.dir = Free, !.name = Free]]

Rm(s, dir, name) ==
    /\ RequireRole(ADMIN)
    /\ \E i \in FileSlots : IsFirst(i, Matches(s, dir, name)) /\ Release(s, i)
    /\ audited' = "rm"
    /\ UNCHANGED <<active, dirs, snapshots, session>>

\* Mutant: removes a directory that still has files.
RmdirFull(s, dir) ==
    /\ RequireRole(ADMIN)
    /\ \E d \in DirSlots :
          /\ IsFirst(d, {e \in DirSlots : dirs[s][e] = dir})
          /\ dirs' = [dirs EXCEPT ![s][d] = Free]
    /\ audited' = "rmdir"
    /\ UNCHANGED <<active, files, snapshots, session>>

Rmdir(s, dir) ==
    /\ RequireRole(ADMIN)
    /\ \A i \in FileSlots : files[s][i].dir # dir
    /\ \E d \in DirSlots :
          /\ IsFirst(d, {e \in DirSlots : dirs[s][e] = dir})
          /\ dirs' = [dirs EXCEPT ![s][d] = Free]
    /\ audited' = "rmdir"
    /\ UNCHANGED <<active, files, snapshots, session>>

\* mode is the pair of permissions that r, w and rw stand for.
Modes == (BOOLEAN \X BOOLEAN) \ {<<FALSE, FALSE>>}

\* Mutant: asks for an operator only.
ChmodByOperator(s, dir, name, mode) ==
    /\ RequireRole(OPERATOR)
    /\ \E i \in FileSlots :
          /\ IsFirst(i, Matches(s, dir, name))
          /\ files' = [files EXCEPT ![s][i] =
                          [@ EXCEPT !.perm_read = mode[1], !.perm_write = mode[2]]]
    /\ audited' = "chmod"
    /\ UNCHANGED <<active, dirs, snapshots, session>>

Chmod(s, dir, name, mode) ==
    /\ RequireRole(ADMIN)
    /\ \E i \in FileSlots :
          /\ IsFirst(i, Matches(s, dir, name))
          /\ files' = [files EXCEPT ![s][i] =
                          [@ EXCEPT !.perm_read = mode[1], !.perm_write = mode[2]]]
    /\ audited' = "chmod"
    /\ UNCHANGED <<active, dirs, snapshots, session>>

(***************************************************************************)
(* apache                                                                  *)
(***************************************************************************)

\* command_apache_add: unlike touch it does not look for a file of that name,
\* nor reset the slot's permissions, nor ask for a running server.
ApacheAdd(name, content) ==
    /\ RequireRole(OPERATOR)
    /\ DirExists(Apache, Www)
    /\ \E i \in FileSlots :
          /\ IsFirst(i, FreeFiles(Apache))
          /\ files' = [files EXCEPT ![Apache][i] =
                          [@ EXCEPT !.dir = Www, !.name = name, !.content = content]]
    /\ audited' = "apache: file added"
    /\ UNCHANGED <<active, dirs, snapshots, session>>

ApacheRm(name) ==
    /\ RequireRole(OPERATOR)
    /\ \E i \in FileSlots : IsFirst(i, Matches(Apache, Www, name)) /\ Release(Apache, i)
    /\ audited' = "apache: file removed"
    /\ UNCHANGED <<active, dirs, snapshots, session>>

FsCommand(s) ==
    \E dir \in DirNames :
        \/ Mkdir(s, dir)
        \/ Rmdir(s, dir)
        \/ \E name \in FileNames :
              \/ Touch(s, dir, name)
              \/ \E content \in Contents \cup {NoText} : Write(s, dir, name, content)
              \/ Rm(s, dir, name)
              \/ \E mode \in Modes : Chmod(s, dir, name, mode)

Next ==
    \/ \E role \in Roles : Login(role)
    \/ Logout
    \/ \E s \in Servers : Start(s) \/ Stop(s) \/ Backup(s) \/ Restore(s) \/ FsCommand(s)
    \/ \E name \in FileNames :
          \/ \E content \in Contents : ApacheAdd(name, content)
          \/ ApacheRm(name)

Spec == Init /\ [][Next]_vars

(***************************************************************************)
(* Properties                                                              *)
(***************************************************************************)
Tree == [dirs : [DirSlots -> DirNames \cup {Free}], files : [FileSlots -> File]]
LiveTree(s) == [dirs |-> dirs[s], files |-> files[s]]
SavedTree(s) == [dirs |-> snapshots[s].dirs, files |-> snapshots[s].files]
\* The trees a server has: the live one, and the backup if there is one.
Trees(s) == {LiveTree(s)} \cup (IF snapshots[s].valid THEN {SavedTree(s)} ELSE {})

\* Every slot of every tree holds a name, text and permissions the commands can
\* store, and an unused slot has neither a directory nor a name.
TypeOK ==
    /\ active \in [Servers -> BOOLEAN]
    /\ \A s \in Servers : Trees(s) \subseteq Tree
    /\ \A s \in Servers, i \in FileSlots : files[s][i].dir = Free <=> ~Used(files[s][i])
    /\ current_role \in Roles
    /\ session_authenticated \in BOOLEAN

\* A file always lies in an existing directory, in the live tree and in the
\* backup: no order of mkdir, rmdir, touch, apache add, backup and restore
\* leaves a file that cannot be reached by name.
NoOrphanFiles ==
    \A s \in Servers : \A t \in Trees(s) : \A i \in FileSlots :
        Used(t.files[i]) => \E d \in DirSlots : t.dirs[d] = t.files[i].dir

\* A directory name occupies one slot of a tree, so rmdir really removes it.
DirNamesUnique ==
    \A s \in Servers : \A t \in Trees(s) : \A d, e \in DirSlots :
        t.dirs[d] = t.dirs[e] /\ t.dirs[d] # Free => d = e

\* Outside the web root, dir and name identify one file.  (apache add may store
\* the same name twice in www.)
FileNamesUniqueOutsideWww ==
    \A s \in Servers : \A t \in Trees(s) : \A i, j \in FileSlots :
        /\ Used(t.files[i]) /\ Used(t.files[j]) /\ t.files[i].dir # Www
        /\ t.files[i].dir = t.files[j].dir /\ t.files[i].name = t.files[j].name
        => i = j

\* Closing the session, or never having opened it, leaves no privilege behind.
NoRoleWithoutSession == ~session_authenticated => current_role = VIEWER

\* No order of commands, backups and restores leaves a server in a state its own
\* commands could not handle: a name that is in two places or in none, or a role
\* that outlives its session.
Consistent ==
    /\ TypeOK
    /\ NoOrphanFiles
    /\ DirNamesUnique
    /\ FileNamesUniqueOutsideWww
    /\ NoRoleWithoutSession

\* While the name of a write-protected file stays in its slot, its content only
\* changes by a restore of the whole server.
ProtectedContentKept ==
    [][\A s \in Servers, i \in FileSlots :
          /\ Used(files[s][i]) /\ ~files[s][i].perm_write
          /\ files'[s][i].content # files[s][i].content
          => audited' = "restore" /\ snapshots[s].valid]_vars

InWww(s, f) == s = Apache /\ f.dir = Www

\* What may become of a file slot f of server s without an administrator: a new
\* file, with both permissions outside Apache's web root; another text in a file
\* that may be written; no file any more, in Apache's web root only.
OperatorMay(s, f, g) ==
    \/ g = f
    \/ ~Used(f) /\ Used(g) /\ (InWww(s, g) \/ (g.perm_read /\ g.perm_write))
    \/ Used(f) /\ f.perm_write /\ g = [f EXCEPT !.content = g.content]
    \/ InWww(s, f) /\ ~Used(g)

\* Whatever a command changes, an operator or an administrator was logged in when
\* it ran.  Without an administrator no directory goes or changes its name, and
\* files change only as OperatorMay says: none is removed outside the web root of
\* Apache, none replaced, none gets other permissions, and no protected text is
\* replaced, in whatever order restore, rmdir, rm and chmod were tried.
ChangesAuthorised ==
    [][/\ <<active, dirs, files, snapshots>>' # <<active, dirs, files, snapshots>>
          => session_authenticated /\ current_role >= OPERATOR
       /\ \A s \in Servers, d \in DirSlots :
             dirs[s][d] # Free /\ dirs'[s][d] # dirs[s][d] => current_role = ADMIN
       /\ \A s \in Servers, i \in FileSlots :
             ~OperatorMay(s, files[s][i], files'[s][i]) => current_role = ADMIN
      ]_vars

(***************************************************************************)
(* The file store this implements, but for the web root                    *)
(***************************************************************************)
PathsOf(t) ==
    {<<t.files[i].dir, t.files[i].name>> :
        i \in {j \in FileSlots : Used(t.files[j]) /\ t.files[j].dir # Www}}
FileAt(t, path) ==
    LET i == CHOOSE j \in FileSlots :
                t.files[j].dir = path[1] /\ t.files[j].name = path[2]
    IN [content |-> t.files[i].content, perm_read |-> t.files[i].perm_read,
        perm_write |-> t.files[i].perm_write]

DirsOf(t) == {t.dirs[d] : d \in DirSlots} \ {Free}
FilesOf(t) == [path \in PathsOf(t) |-> FileAt(t, path)]
\* No directory is called Free, so no backup is this.
NoBackup == [dirs |-> {Free}, files |-> <<>>]

Store(s) == INSTANCE FileStore WITH
    Texts <- Contents \cup {NoText},
    dirs <- DirsOf(LiveTree(s)),
    files <- FilesOf(LiveTree(s)),
    saved <- IF snapshots[s].valid
             THEN [dirs |-> DirsOf(SavedTree(s)), files |-> FilesOf(SavedTree(s))]
             ELSE NoBackup

\* Outside www, where apache add stores a name twice, the slots are a map from
\* paths to files: every command, apache's and restore included, does to that
\* map what its name says, whatever slot it uses and whatever was in it.  (It is
\* [Next]_vars of the store, with the steps that cannot reach it named first.)
ImplementsStore ==
    /\ \A s \in Servers : Store(s)!Init
    /\ [][\A s \in Servers :
             <<fs, snapshots>>' # <<fs, snapshots>> =>
                 Store(s)!vars' = Store(s)!vars \/ Store(s)!Next]_vars
=============================================================================
