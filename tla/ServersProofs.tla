---------------------------- MODULE ServersProofs ----------------------------
(***************************************************************************)
(* No order of commands, backups and restores leaves a server's tree       *)
(* inconsistent, whatever the numbers of servers, slots and names; every   *)
(* change was authorised; and outside www the slots are a file store.      *)
(***************************************************************************)
EXTENDS Servers, TLAPS

(***************************************************************************)
(* One tree: what NoOrphanFiles, DirNamesUnique and                        *)
(* FileNamesUniqueOutsideWww ask of it, and that a slot is free as a whole.*)
(***************************************************************************)
Typed(d, f) == d \in [DirSlots -> DirNames \cup {Free}] /\ f \in [FileSlots -> File]
FreeAsAWhole(f) == \A i \in FileSlots : f[i].dir = Free <=> f[i].name = Free
NoOrphan(d, f) == \A i \in FileSlots : f[i].name # Free => \E e \in DirSlots : d[e] = f[i].dir
DirsDiffer(d) == \A a, b \in DirSlots : d[a] = d[b] /\ d[a] # Free => a = b
FilesDiffer(f) ==
    \A i, j \in FileSlots :
        /\ f[i].name # Free /\ f[j].name # Free /\ f[i].dir # Www
        /\ f[i].dir = f[j].dir /\ f[i].name = f[j].name
        => i = j

Good(d, f) ==
    /\ Typed(d, f) /\ FreeAsAWhole(f) /\ NoOrphan(d, f) /\ DirsDiffer(d) /\ FilesDiffer(f)

\* A record with another content and other permissions is such a record.
LEMMA FileFields ==
    ASSUME NEW g \in File
    PROVE  /\ g.dir \in DirNames \cup {Free} /\ g.name \in FileNames \cup {Free}
           /\ g.content \in Contents \cup {NoText}
           /\ g.perm_read \in BOOLEAN /\ g.perm_write \in BOOLEAN
BY DEF File

LEMMA PermissionsKeepFile ==
    ASSUME NEW g \in File, NEW r \in BOOLEAN, NEW w \in BOOLEAN
    PROVE  LET h == [g EXCEPT !.perm_read = r, !.perm_write = w]
           IN  h \in File /\ h.dir = g.dir /\ h.name = g.name
BY DEF File

\* mkdir: a name no slot has, put in a free slot.
LEMMA NewDirGood ==
    ASSUME NEW d, NEW f, Good(d, f), NEW k \in DirSlots, d[k] = Free,
           NEW dir \in DirNames, \A e \in DirSlots : d[e] # dir
    PROVE  Good([d EXCEPT ![k] = dir], f)
<1> DEFINE dd == [d EXCEPT ![k] = dir]
<1>1. /\ dd \in [DirSlots -> DirNames \cup {Free}]
      /\ \A e \in DirSlots : dd[e] = IF e = k THEN dir ELSE d[e]
  BY DEF Good, Typed
<1> HIDE DEF dd
<1>2. NoOrphan(dd, f)
  <2> SUFFICES ASSUME NEW i \in FileSlots, f[i].name # Free
               PROVE  \E e \in DirSlots : dd[e] = f[i].dir
    BY DEF NoOrphan
  <2>1. PICK e \in DirSlots : d[e] = f[i].dir
    BY DEF Good, NoOrphan
  <2>2. f[i].dir # Free
    BY DEF Good, FreeAsAWhole
  <2> QED
    BY <1>1, <2>1, <2>2
<1>3. DirsDiffer(dd)
  BY <1>1 DEF Good, DirsDiffer
<1> QED
  BY <1>1, <1>2, <1>3 DEF Good, Typed, dd

\* rmdir: the slot of a directory without files.
LEMMA EmptyDirGood ==
    ASSUME NEW d, NEW f, Good(d, f), NEW k \in DirSlots,
           \A i \in FileSlots : f[i].dir # d[k]
    PROVE  Good([d EXCEPT ![k] = Free], f)
<1> DEFINE dd == [d EXCEPT ![k] = Free]
<1>1. /\ dd \in [DirSlots -> DirNames \cup {Free}]
      /\ \A e \in DirSlots : dd[e] = IF e = k THEN Free ELSE d[e]
  BY DEF Good, Typed
<1> HIDE DEF dd
<1>2. NoOrphan(dd, f)
  BY <1>1 DEF Good, NoOrphan
<1>3. DirsDiffer(dd)
  BY <1>1 DEF Good, DirsDiffer
<1> QED
  BY <1>1, <1>2, <1>3 DEF Good, Typed, dd

\* touch and apache add: a name in a free slot, in an existing directory; where
\* the directory is not www, no slot has the pair yet.
LEMMA NewFileGood ==
    ASSUME NEW d, NEW f, Good(d, f), NEW k \in FileSlots, f[k].name = Free,
           NEW g \in File, g.dir \in DirNames, g.name \in FileNames,
           \E e \in DirSlots : d[e] = g.dir,
           \/ g.dir = Www
           \/ \A i \in FileSlots : ~(f[i].dir = g.dir /\ f[i].name = g.name)
    PROVE  Good(d, [f EXCEPT ![k] = g])
<1> DEFINE ff == [f EXCEPT ![k] = g]
<1>1. /\ ff \in [FileSlots -> File]
      /\ \A i \in FileSlots : ff[i] = IF i = k THEN g ELSE f[i]
  BY DEF Good, Typed
<1>2. g.dir # Free /\ g.name # Free
  BY ServersAssumption
<1> HIDE DEF ff
<1>3. FreeAsAWhole(ff)
  BY <1>1, <1>2 DEF Good, FreeAsAWhole
<1>4. NoOrphan(d, ff)
  BY <1>1, <1>2 DEF Good, NoOrphan
<1>5. FilesDiffer(ff)
  BY <1>1, <1>2 DEF Good, FilesDiffer
<1> QED
  BY <1>1, <1>3, <1>4, <1>5 DEF Good, Typed, ff

\* write and chmod: the slot keeps its directory and its name.
LEMMA SameNameGood ==
    ASSUME NEW d, NEW f, Good(d, f), NEW k \in FileSlots,
           NEW g \in File, g.dir = f[k].dir, g.name = f[k].name
    PROVE  Good(d, [f EXCEPT ![k] = g])
<1> DEFINE ff == [f EXCEPT ![k] = g]
<1>1. /\ ff \in [FileSlots -> File]
      /\ \A i \in FileSlots : ff[i].dir = f[i].dir /\ ff[i].name = f[i].name
  BY DEF Good, Typed
<1> HIDE DEF ff
<1>2. FreeAsAWhole(ff) /\ NoOrphan(d, ff) /\ FilesDiffer(ff)
  BY <1>1 DEF Good, FreeAsAWhole, NoOrphan, FilesDiffer
<1> QED
  BY <1>1, <1>2 DEF Good, Typed, ff

\* rm and apache rm: the slot becomes free as a whole.
LEMMA NoFileGood ==
    ASSUME NEW d, NEW f, Good(d, f), NEW k \in FileSlots,
           NEW g \in File, g.dir = Free, g.name = Free
    PROVE  Good(d, [f EXCEPT ![k] = g])
<1> DEFINE ff == [f EXCEPT ![k] = g]
<1>1. /\ ff \in [FileSlots -> File]
      /\ \A i \in FileSlots : ff[i] = IF i = k THEN g ELSE f[i]
  BY DEF Good, Typed
<1> HIDE DEF ff
<1>2. FreeAsAWhole(ff) /\ NoOrphan(d, ff) /\ FilesDiffer(ff)
  BY <1>1 DEF Good, FreeAsAWhole, NoOrphan, FilesDiffer
<1> QED
  BY <1>1, <1>2 DEF Good, Typed, ff

(***************************************************************************)
(* The machine                                                             *)
(***************************************************************************)
Snapshot == [valid : {FALSE}]
              \cup [valid : {TRUE}, dirs : [DirSlots -> DirNames \cup {Free}],
                    files : [FileSlots -> File]]

Types ==
    /\ active \in [Servers -> BOOLEAN]
    /\ dirs \in [Servers -> [DirSlots -> DirNames \cup {Free}]]
    /\ files \in [Servers -> [FileSlots -> File]]
    /\ snapshots \in [Servers -> Snapshot]
    /\ current_role \in Roles
    /\ session_authenticated \in BOOLEAN

LiveGood == \A s \in Servers : Good(dirs[s], files[s])
SavedGood ==
    \A s \in Servers : snapshots[s].valid => Good(snapshots[s].dirs, snapshots[s].files)

IInv == Types /\ LiveGood /\ SavedGood /\ NoRoleWithoutSession

\* init_server_manager and init_server_filesystem leave good trees, no backup
\* and a closed session.
LEMMA InvInit == Init => IInv
<1> SUFFICES ASSUME Init PROVE IInv
  OBVIOUS
<1>1. EmptyFile \in File /\ EmptyFile.dir = Free /\ EmptyFile.name = Free
  BY DEF EmptyFile, File
<1> DEFINE page == [EmptyFile EXCEPT !.dir = Www, !.name = Index]
<1>2. page \in File /\ page.dir = Www /\ page.name = Index
  BY ServersAssumption DEF EmptyFile, File
<1>3. Www # Free /\ Index # Free
  BY ServersAssumption
<1> HIDE DEF page
<1>4. \A s \in Servers : files[s] = [i \in FileSlots |->
                              IF s = Apache /\ i = 0 THEN page ELSE EmptyFile]
  BY DEF Init, page
<1>5. files \in [Servers -> [FileSlots -> File]]
  BY <1>1, <1>2 DEF Init, page
<1>6. Types
  <2>1. active \in [Servers -> BOOLEAN]
    BY DEF Init
  <2>2. dirs \in [Servers -> [DirSlots -> DirNames \cup {Free}]]
    BY ServersAssumption DEF Init, DirSlots
  <2>3. snapshots \in [Servers -> Snapshot]
    BY DEF Init, Snapshot
  <2>4. current_role \in Roles
    BY DEF Init, Roles, VIEWER, OPERATOR, ADMIN
  <2>5. session_authenticated \in BOOLEAN
    BY DEF Init
  <2> QED
    BY <1>5, <2>1, <2>2, <2>3, <2>4, <2>5 DEF Types
<1>7. ASSUME NEW s \in Servers
      PROVE  Good(dirs[s], files[s])
  <2>1. Typed(dirs[s], files[s])
    BY <1>6 DEF Types, Typed
  <2>2. FreeAsAWhole(files[s]) /\ FilesDiffer(files[s])
    BY <1>1, <1>2, <1>3, <1>4 DEF FreeAsAWhole, FilesDiffer
  <2>3. NoOrphan(dirs[s], files[s])
    BY <1>1, <1>2, <1>4, ServersAssumption DEF NoOrphan, Init, DirSlots
  <2>4. DirsDiffer(dirs[s])
    BY ServersAssumption DEF DirsDiffer, Init, DirSlots
  <2> QED
    BY <2>1, <2>2, <2>3, <2>4 DEF Good
<1> QED
  BY <1>6, <1>7 DEF Init, IInv, LiveGood, SavedGood, NoRoleWithoutSession

\* A command that puts one good tree in place of a server's and touches nothing
\* else of the invariant keeps it.
LEMMA OneTreePreserves ==
    ASSUME IInv, NEW s \in Servers, NEW d, NEW f, Good(d, f),
           dirs' = [dirs EXCEPT ![s] = d], files' = [files EXCEPT ![s] = f],
           UNCHANGED <<active, snapshots, session>>
    PROVE  IInv'
<1>1. d \in [DirSlots -> DirNames \cup {Free}] /\ f \in [FileSlots -> File]
  BY DEF Good, Typed
<1>2. Types'
  BY <1>1 DEF IInv, Types, session
<1>3. \A t \in Servers : /\ dirs'[t] = IF t = s THEN d ELSE dirs[t]
                         /\ files'[t] = IF t = s THEN f ELSE files[t]
  BY DEF IInv, Types
<1>4. LiveGood'
  BY <1>3 DEF IInv, LiveGood
<1>5. SavedGood' /\ NoRoleWithoutSession'
  BY DEF IInv, SavedGood, NoRoleWithoutSession, session
<1> QED
  BY <1>2, <1>4, <1>5 DEF IInv

\* The same when only the files, or only the directories, are written.
LEMMA FilesPreserve ==
    ASSUME IInv, NEW s \in Servers, NEW f, Good(dirs[s], f),
           files' = [files EXCEPT ![s] = f],
           UNCHANGED <<active, dirs, snapshots, session>>
    PROVE  IInv'
<1>1. dirs' = [dirs EXCEPT ![s] = dirs[s]]
  BY DEF IInv, Types
<1> QED
  BY <1>1, OneTreePreserves

LEMMA DirsPreserve ==
    ASSUME IInv, NEW s \in Servers, NEW d, Good(d, files[s]),
           dirs' = [dirs EXCEPT ![s] = d],
           UNCHANGED <<active, files, snapshots, session>>
    PROVE  IInv'
<1>1. files' = [files EXCEPT ![s] = files[s]]
  BY DEF IInv, Types
<1> QED
  BY <1>1, OneTreePreserves

\* login and logout set role and session together.
LEMMA SessionStep ==
    ASSUME IInv, Logout \/ \E role \in Roles : Login(role)
    PROVE  IInv'
<1>1. UNCHANGED <<active, dirs, files, snapshots>>
  BY DEF Logout, Login, fs
<1>2. current_role' \in Roles /\ session_authenticated' \in BOOLEAN
  <2>1. current_role' \in Roles
    BY DEF Logout, Login, Roles, VIEWER, OPERATOR, ADMIN
  <2>2. session_authenticated' \in BOOLEAN
    BY DEF Logout, Login
  <2> QED
    BY <2>1, <2>2
<1>3. NoRoleWithoutSession'
  BY DEF Logout, Login, NoRoleWithoutSession
<1>4. Types'
  BY <1>1, <1>2 DEF IInv, Types
<1>5. LiveGood' /\ SavedGood'
  BY <1>1 DEF IInv, LiveGood, SavedGood
<1> QED
  BY <1>3, <1>4, <1>5 DEF IInv

\* server start, stop and backup leave the live trees alone.
LEMMA ServerStep ==
    ASSUME IInv, NEW s \in Servers, Start(s) \/ Stop(s) \/ Backup(s)
    PROVE  IInv'
<1>1. UNCHANGED <<dirs, files, session>>
  BY DEF Start, Stop, Backup, fs
<1>2. LiveGood' /\ NoRoleWithoutSession'
  BY <1>1 DEF IInv, LiveGood, NoRoleWithoutSession, session
<1>3. CASE Start(s) \/ Stop(s)
  <2>1. active' \in [Servers -> BOOLEAN] /\ UNCHANGED snapshots
    BY <1>3 DEF Start, Stop, IInv, Types
  <2> QED
    BY <1>1, <1>2, <2>1 DEF IInv, Types, SavedGood, session
<1>4. CASE Backup(s)
  <2> DEFINE copy == [valid |-> TRUE, dirs |-> dirs[s], files |-> files[s]]
  <2>1. snapshots' = [snapshots EXCEPT ![s] = copy] /\ UNCHANGED active
    BY <1>4 DEF Backup
  <2>2. copy \in Snapshot
    BY DEF IInv, Types, Snapshot
  <2>3. copy.dirs = dirs[s] /\ copy.files = files[s]
    OBVIOUS
  <2> HIDE DEF copy
  <2>4. \A t \in Servers : snapshots'[t] = IF t = s THEN copy ELSE snapshots[t]
    BY <2>1 DEF IInv, Types
  <2>5. SavedGood'
    BY <2>3, <2>4 DEF IInv, SavedGood, LiveGood
  <2>6. Types'
    BY <1>1, <2>1, <2>2 DEF IInv, Types, session
  <2> QED
    BY <1>2, <2>5, <2>6 DEF IInv
<1> QED
  BY <1>3, <1>4

\* Slots of the live tree, and what a slot that matches a path holds.
LEMMA SlotTypes ==
    ASSUME IInv, NEW s \in Servers
    PROVE  /\ dirs[s] \in [DirSlots -> DirNames \cup {Free}]
           /\ files[s] \in [FileSlots -> File]
           /\ Good(dirs[s], files[s])
BY DEF IInv, Types, LiveGood

LEMMA MkdirStep ==
    ASSUME IInv, NEW s \in Servers, NEW dir \in DirNames, Mkdir(s, dir)
    PROVE  IInv'
<1>1. PICK k \in DirSlots : /\ IsFirst(k, FreeDirs(s))
                            /\ dirs' = [dirs EXCEPT ![s][k] = dir]
  BY DEF Mkdir
<1>2. dirs[s][k] = Free /\ \A e \in DirSlots : dirs[s][e] # dir
  BY <1>1 DEF IsFirst, FreeDirs, Mkdir, DirExists
<1>3. Good([dirs[s] EXCEPT ![k] = dir], files[s])
  BY <1>2, SlotTypes, NewDirGood
<1>4. dirs' = [dirs EXCEPT ![s] = [dirs[s] EXCEPT ![k] = dir]]
  BY <1>1
<1> QED
  BY <1>3, <1>4, DirsPreserve DEF Mkdir

LEMMA RmdirStep ==
    ASSUME IInv, NEW s \in Servers, NEW dir \in DirNames, Rmdir(s, dir)
    PROVE  IInv'
<1>1. PICK k \in DirSlots : /\ dirs[s][k] = dir
                            /\ dirs' = [dirs EXCEPT ![s][k] = Free]
  BY DEF Rmdir, IsFirst
<1>2. \A i \in FileSlots : files[s][i].dir # dirs[s][k]
  BY <1>1 DEF Rmdir
<1>3. Good([dirs[s] EXCEPT ![k] = Free], files[s])
  BY <1>2, SlotTypes, EmptyDirGood
<1>4. dirs' = [dirs EXCEPT ![s] = [dirs[s] EXCEPT ![k] = Free]]
  BY <1>1
<1> QED
  BY <1>3, <1>4, DirsPreserve DEF Rmdir

LEMMA RestoreStep ==
    ASSUME IInv, NEW s \in Servers, Restore(s)
    PROVE  IInv'
<1>1. Good(snapshots[s].dirs, snapshots[s].files)
  BY DEF IInv, SavedGood, Restore
<1> QED
  BY <1>1, OneTreePreserves DEF Restore

\* One slot written: what the four lemmas about a file's slot are used for.
LEMMA SlotPreserves ==
    ASSUME IInv, NEW s \in Servers, NEW k \in FileSlots, NEW g,
           Good(dirs[s], [files[s] EXCEPT ![k] = g]),
           files' = [files EXCEPT ![s] = [files[s] EXCEPT ![k] = g]],
           UNCHANGED <<active, dirs, snapshots, session>>
    PROVE  IInv'
BY FilesPreserve

LEMMA TouchStep ==
    ASSUME IInv, NEW s \in Servers, NEW dir \in DirNames, NEW name \in FileNames,
           Touch(s, dir, name)
    PROVE  IInv'
<1>1. PICK k \in FileSlots :
         /\ IsFirst(k, FreeFiles(s))
         /\ files' = [files EXCEPT ![s][k] =
                         [@ EXCEPT !.dir = dir, !.name = name,
                                   !.perm_read = TRUE, !.perm_write = TRUE]]
  BY DEF Touch
<1> DEFINE g == [files[s][k] EXCEPT !.dir = dir, !.name = name,
                                    !.perm_read = TRUE, !.perm_write = TRUE]
<1>2. files[s][k].name = Free
  BY <1>1 DEF IsFirst, FreeFiles, Used
<1>3. g \in File /\ g.dir = dir /\ g.name = name
  BY SlotTypes DEF File
<1>4. files' = [files EXCEPT ![s] = [files[s] EXCEPT ![k] = g]]
  BY <1>1
<1> HIDE DEF g
<1>5. \E e \in DirSlots : dirs[s][e] = g.dir
  BY <1>3 DEF Touch, DirExists
<1>6. \A i \in FileSlots : ~(files[s][i].dir = g.dir /\ files[s][i].name = g.name)
  BY <1>3 DEF Touch, Matches
<1>7. Good(dirs[s], [files[s] EXCEPT ![k] = g])
  BY <1>2, <1>3, <1>5, <1>6, SlotTypes, NewFileGood
<1> QED
  BY <1>4, <1>7, SlotPreserves DEF Touch, fs

LEMMA ApacheAddStep ==
    ASSUME IInv, NEW name \in FileNames, NEW content \in Contents,
           ApacheAdd(name, content)
    PROVE  IInv'
<1>1. PICK k \in FileSlots :
         /\ IsFirst(k, FreeFiles(Apache))
         /\ files' = [files EXCEPT ![Apache][k] =
                         [@ EXCEPT !.dir = Www, !.name = name, !.content = content]]
  BY DEF ApacheAdd
<1> DEFINE g == [files[Apache][k] EXCEPT !.dir = Www, !.name = name, !.content = content]
<1>2. files[Apache][k].name = Free
  BY <1>1 DEF IsFirst, FreeFiles, Used
<1>3. Apache \in Servers /\ Www \in DirNames
  BY ServersAssumption
<1>4. g \in File /\ g.dir = Www /\ g.name = name
  BY <1>3, SlotTypes DEF File
<1>5. files' = [files EXCEPT ![Apache] = [files[Apache] EXCEPT ![k] = g]]
  BY <1>1
<1> HIDE DEF g
<1>6. \E e \in DirSlots : dirs[Apache][e] = g.dir
  BY <1>4 DEF ApacheAdd, DirExists
<1>7. Good(dirs[Apache], [files[Apache] EXCEPT ![k] = g])
  BY <1>2, <1>3, <1>4, <1>6, SlotTypes, NewFileGood
<1> QED
  BY <1>3, <1>5, <1>7, SlotPreserves DEF ApacheAdd

\* write and chmod.
LEMMA ContentStep ==
    ASSUME IInv, NEW s \in Servers, NEW dir \in DirNames, NEW name \in FileNames,
           \/ \E content \in Contents \cup {NoText} : Write(s, dir, name, content)
           \/ \E mode \in Modes : Chmod(s, dir, name, mode)
    PROVE  IInv'
<1>1. PICK k \in FileSlots, g \in File :
         /\ g.dir = files[s][k].dir /\ g.name = files[s][k].name
         /\ files' = [files EXCEPT ![s] = [files[s] EXCEPT ![k] = g]]
  <2>1. ASSUME NEW content \in Contents \cup {NoText}, Write(s, dir, name, content)
        PROVE  \E k \in FileSlots, g \in File :
                  /\ g.dir = files[s][k].dir /\ g.name = files[s][k].name
                  /\ files' = [files EXCEPT ![s] = [files[s] EXCEPT ![k] = g]]
    <3>1. PICK k \in FileSlots : files' = [files EXCEPT ![s][k].content = content]
      BY <2>1 DEF Write, IsFirst, Matches
    <3> DEFINE g == [files[s][k] EXCEPT !.content = content]
    <3>2. g \in File /\ g.dir = files[s][k].dir /\ g.name = files[s][k].name
      BY SlotTypes DEF File
    <3>3. files' = [files EXCEPT ![s] = [files[s] EXCEPT ![k] = g]]
      BY <3>1
    <3> HIDE DEF g
    <3> QED
      BY <3>2, <3>3
  <2>2. ASSUME NEW mode \in Modes, Chmod(s, dir, name, mode)
        PROVE  \E k \in FileSlots, g \in File :
                  /\ g.dir = files[s][k].dir /\ g.name = files[s][k].name
                  /\ files' = [files EXCEPT ![s] = [files[s] EXCEPT ![k] = g]]
    <3>1. PICK k \in FileSlots :
             files' = [files EXCEPT ![s][k] =
                          [@ EXCEPT !.perm_read = mode[1], !.perm_write = mode[2]]]
      BY <2>2 DEF Chmod, IsFirst, Matches
    <3> DEFINE g == [files[s][k] EXCEPT !.perm_read = mode[1], !.perm_write = mode[2]]
    <3>2. mode[1] \in BOOLEAN /\ mode[2] \in BOOLEAN
      BY DEF Modes
    <3>3. g \in File /\ g.dir = files[s][k].dir /\ g.name = files[s][k].name
      <4>1. files[s][k] \in File
        BY SlotTypes
      <4> QED
        BY <3>2, <4>1, PermissionsKeepFile
    <3>4. files' = [files EXCEPT ![s] = [files[s] EXCEPT ![k] = g]]
      BY <3>1
    <3> HIDE DEF g
    <3> QED
      BY <3>3, <3>4
  <2> QED
    BY <2>1, <2>2
<1>2. Good(dirs[s], [files[s] EXCEPT ![k] = g])
  BY <1>1, SlotTypes, SameNameGood
<1>3. UNCHANGED <<active, dirs, snapshots, session>>
  BY DEF Write, Chmod, fs
<1> QED
  BY <1>1, <1>2, <1>3, SlotPreserves

\* rm and apache rm.
LEMMA ReleaseStep ==
    ASSUME IInv, NEW s \in Servers, NEW k \in FileSlots, Release(s, k),
           UNCHANGED <<active, dirs, snapshots, session>>
    PROVE  IInv'
<1> DEFINE g == [files[s][k] EXCEPT !.dir = Free, !.name = Free]
<1>1. g \in File /\ g.dir = Free /\ g.name = Free
  BY SlotTypes DEF File
<1>2. files' = [files EXCEPT ![s] = [files[s] EXCEPT ![k] = g]]
  BY DEF Release
<1> HIDE DEF g
<1>3. Good(dirs[s], [files[s] EXCEPT ![k] = g])
  BY <1>1, SlotTypes, NoFileGood
<1> QED
  BY <1>2, <1>3, SlotPreserves

LEMMA RmStep ==
    ASSUME IInv, NEW s \in Servers, NEW dir \in DirNames, NEW name \in FileNames,
           Rm(s, dir, name)
    PROVE  IInv'
BY ReleaseStep DEF Rm, IsFirst, Matches, fs

LEMMA ApacheRmStep ==
    ASSUME IInv, NEW name \in FileNames, ApacheRm(name)
    PROVE  IInv'
BY ReleaseStep, ServersAssumption DEF ApacheRm, IsFirst, Matches, fs

\* Every command keeps the invariant.
LEMMA InvStep == IInv /\ [Next]_vars => IInv'
<1> SUFFICES ASSUME IInv, [Next]_vars PROVE IInv'
  OBVIOUS
<1>1. CASE Logout \/ \E role \in Roles : Login(role)
  BY <1>1, SessionStep
<1>2. CASE \E s \in Servers : Start(s) \/ Stop(s) \/ Backup(s)
  BY <1>2, ServerStep
<1>3. CASE \E s \in Servers : Restore(s)
  BY <1>3, RestoreStep
<1>4. CASE \E s \in Servers : FsCommand(s)
  BY <1>4, MkdirStep, RmdirStep, TouchStep, ContentStep, RmStep DEF FsCommand
<1>5. CASE \E name \in FileNames : \/ \E content \in Contents : ApacheAdd(name, content)
                                   \/ ApacheRm(name)
  BY <1>5, ApacheAddStep, ApacheRmStep
<1>6. CASE UNCHANGED vars
  <2>1. UNCHANGED <<active, dirs, files, snapshots, current_role, session_authenticated>>
    BY <1>6 DEF vars, fs, session
  <2>2. Types'
    BY <2>1 DEF IInv, Types
  <2>3. LiveGood' /\ SavedGood'
    BY <2>1 DEF IInv, LiveGood, SavedGood
  <2>4. NoRoleWithoutSession'
    BY <2>1 DEF IInv, NoRoleWithoutSession
  <2> QED
    BY <2>2, <2>3, <2>4 DEF IInv
<1> QED
  BY <1>1, <1>2, <1>3, <1>4, <1>5, <1>6 DEF Next

LEMMA Invariant == Spec => []IInv
<1>1. IInv /\ [Next]_vars => IInv'
  BY InvStep
<1> QED
  BY InvInit, <1>1, PTL DEF Spec

\* A tree of a server, live or saved, is a good one.
LEMMA TreesGood ==
    ASSUME IInv, NEW s \in Servers, NEW t \in Trees(s)
    PROVE  t \in Tree /\ Good(t.dirs, t.files)
<1>1. CASE t = LiveTree(s)
  <2>1. t = [dirs |-> dirs[s], files |-> files[s]]
    BY <1>1 DEF LiveTree
  <2>2. t.dirs = dirs[s] /\ t.files = files[s]
    BY <2>1
  <2>3. t \in Tree
    BY <2>1, SlotTypes DEF Tree
  <2> QED
    BY <2>2, <2>3, SlotTypes
<1>2. CASE snapshots[s].valid /\ t = SavedTree(s)
  <2>1. Good(snapshots[s].dirs, snapshots[s].files)
    BY <1>2 DEF IInv, SavedGood
  <2>2. t = [dirs |-> snapshots[s].dirs, files |-> snapshots[s].files]
    BY <1>2 DEF SavedTree
  <2>3. t.dirs = snapshots[s].dirs /\ t.files = snapshots[s].files
    BY <2>2
  <2>4. t \in Tree
    BY <2>1, <2>2 DEF Good, Typed, Tree
  <2> QED
    BY <2>1, <2>3, <2>4
<1> QED
  BY <1>1, <1>2 DEF Trees

\* The server manager's trees, live and saved, stay consistent under every order
\* of the commands of servers.c, and no role outlives its session: for any
\* numbers of servers, slots and names.
THEOREM StaysConsistent == Spec => []Consistent
<1>1. ASSUME IInv
      PROVE  Consistent
  <2>1. \A s \in Servers : Trees(s) \subseteq Tree
    BY <1>1, TreesGood
  <2>2. \A s \in Servers, i \in FileSlots : files[s][i].dir = Free <=> ~Used(files[s][i])
    BY <1>1, SlotTypes DEF Good, FreeAsAWhole, Used
  <2>3. TypeOK
    BY <1>1, <2>1, <2>2 DEF IInv, Types, TypeOK
  <2>4. NoOrphanFiles
    BY <1>1, TreesGood DEF NoOrphanFiles, Good, NoOrphan, Used
  <2>5. DirNamesUnique
    BY <1>1, TreesGood DEF DirNamesUnique, Good, DirsDiffer
  <2>6. FileNamesUniqueOutsideWww
    BY <1>1, TreesGood DEF FileNamesUniqueOutsideWww, Good, FilesDiffer, Used
  <2> QED
    BY <1>1, <2>3, <2>4, <2>5, <2>6 DEF IInv, Consistent
<1> QED
  BY <1>1, Invariant, PTL

\* Without an administrator a file slot only changes as OperatorMay says.
LEMMA FileChangesAuthorised ==
    ASSUME IInv, [Next]_vars, current_role # ADMIN,
           NEW s \in Servers, NEW i \in FileSlots
    PROVE  OperatorMay(s, files[s][i], files'[s][i])
<1>1. files \in [Servers -> [FileSlots -> File]]
  BY DEF IInv, Types
<1>2. ~RequireRole(ADMIN)
  BY DEF RequireRole, IInv, Types, Roles, VIEWER, ADMIN
<1>3. files' = files => OperatorMay(s, files[s][i], files'[s][i])
  BY DEF OperatorMay
<1>4. ASSUME NEW r \in Servers, NEW dir \in DirNames, NEW name \in FileNames,
             Touch(r, dir, name)
      PROVE  OperatorMay(s, files[s][i], files'[s][i])
  <2>1. PICK k \in FileSlots :
           /\ ~Used(files[r][k])
           /\ files' = [files EXCEPT ![r][k] =
                           [@ EXCEPT !.dir = dir, !.name = name,
                                     !.perm_read = TRUE, !.perm_write = TRUE]]
    BY <1>4 DEF Touch, IsFirst, FreeFiles
  <2>2. files[r][k] \in File
    BY <1>1
  <2>3. LET g == files'[r][k] IN g.name = name /\ g.perm_read /\ g.perm_write
    BY <1>1, <2>1, <2>2 DEF File
  <2>4. Used(files'[r][k])
    BY <2>3, ServersAssumption DEF Used
  <2>5. r # s \/ k # i => files'[s][i] = files[s][i]
    BY <1>1, <2>1
  <2> QED
    BY <2>1, <2>3, <2>4, <2>5 DEF OperatorMay
<1>5. ASSUME NEW name \in FileNames, NEW content \in Contents, ApacheAdd(name, content)
      PROVE  OperatorMay(s, files[s][i], files'[s][i])
  <2>1. PICK k \in FileSlots :
           /\ ~Used(files[Apache][k])
           /\ files' = [files EXCEPT ![Apache][k] =
                           [@ EXCEPT !.dir = Www, !.name = name, !.content = content]]
    BY <1>5 DEF ApacheAdd, IsFirst, FreeFiles
  <2>2. files[Apache][k] \in File /\ Apache \in Servers
    BY <1>1, ServersAssumption
  <2>3. LET g == files'[Apache][k] IN g.name = name /\ g.dir = Www
    BY <1>1, <2>1, <2>2 DEF File
  <2>4. Used(files'[Apache][k]) /\ InWww(Apache, files'[Apache][k])
    BY <2>3, ServersAssumption DEF Used, InWww
  <2>5. Apache # s \/ k # i => files'[s][i] = files[s][i]
    BY <1>1, <2>1, <2>2
  <2> QED
    BY <2>1, <2>4, <2>5 DEF OperatorMay
<1>6. ASSUME NEW r \in Servers, NEW dir \in DirNames, NEW name \in FileNames,
             NEW content \in Contents \cup {NoText}, Write(r, dir, name, content)
      PROVE  OperatorMay(s, files[s][i], files'[s][i])
  <2>1. PICK k \in FileSlots : /\ k \in Matches(r, dir, name)
                               /\ files[r][k].perm_write
                               /\ files' = [files EXCEPT ![r][k].content = content]
    BY <1>6 DEF Write, IsFirst
  <2>2. files[r][k] \in File /\ files[r][k].name = name
    BY <1>1, <2>1 DEF Matches
  <2>3. Used(files[r][k])
    BY <2>2, ServersAssumption DEF Used
  <2>4. files'[r][k] = [files[r][k] EXCEPT !.content = content]
    BY <1>1, <2>1
  <2>5. files'[r][k].content = content
    BY <2>2, <2>4 DEF File
  <2>6. r # s \/ k # i => files'[s][i] = files[s][i]
    BY <1>1, <2>1
  <2> QED
    BY <2>1, <2>3, <2>4, <2>5, <2>6 DEF OperatorMay
<1>7. ASSUME NEW name \in FileNames, ApacheRm(name)
      PROVE  OperatorMay(s, files[s][i], files'[s][i])
  <2>1. PICK k \in FileSlots : k \in Matches(Apache, Www, name) /\ Release(Apache, k)
    BY <1>7 DEF ApacheRm, IsFirst
  <2>2. files[Apache][k] \in File /\ InWww(Apache, files[Apache][k])
    BY <1>1, <2>1, ServersAssumption DEF Matches, InWww
  <2>3. ~Used(files'[Apache][k])
    BY <1>1, <2>1, <2>2, ServersAssumption DEF Release, File, Used
  <2>4. Apache # s \/ k # i => files'[s][i] = files[s][i]
    BY <1>1, <2>1, ServersAssumption DEF Release
  <2> QED
    BY <2>2, <2>3, <2>4 DEF OperatorMay
<1>8. /\ ~\E r \in Servers : Restore(r)
      /\ ~\E r \in Servers, dir \in DirNames :
             \/ Rmdir(r, dir)
             \/ \E name \in FileNames : \/ Rm(r, dir, name)
                                        \/ \E mode \in Modes : Chmod(r, dir, name, mode)
  BY <1>2 DEF Restore, Rmdir, Rm, Chmod
<1>9. CASE \/ Logout \/ \E role \in Roles : Login(role)
           \/ \E r \in Servers : Start(r) \/ Stop(r) \/ Backup(r)
           \/ \E r \in Servers, dir \in DirNames : Mkdir(r, dir)
           \/ UNCHANGED vars
  <2>1. files' = files
    BY <1>9 DEF Logout, Login, Start, Stop, Backup, Mkdir, vars, fs
  <2> QED
    BY <1>3, <2>1
<1> QED
  BY <1>4, <1>5, <1>6, <1>7, <1>8, <1>9 DEF Next, FsCommand

\* An operator or an administrator was logged in whenever a command changed a
\* server, and an administrator whenever a directory went, a file outside the web
\* root went or was replaced, permissions changed or a protected text did
\* (require_role in every command of servers.c).
THEOREM EveryChangeAuthorised == Spec => ChangesAuthorised
<1> DEFINE
      ByRole ==
        /\ <<active, dirs, files, snapshots>>' # <<active, dirs, files, snapshots>>
              => session_authenticated /\ current_role >= OPERATOR
        /\ \A s \in Servers, d \in DirSlots :
              dirs[s][d] # Free /\ dirs'[s][d] # dirs[s][d] => current_role = ADMIN
      FilesByRole ==
        \A s \in Servers, i \in FileSlots :
            ~OperatorMay(s, files[s][i], files'[s][i]) => current_role = ADMIN
<1>1. ASSUME IInv, [Next]_vars
      PROVE  ByRole
  <2> USE <1>1
  <2>1. current_role \in 0..2 /\ OPERATOR = 1 /\ ADMIN = 2
    BY DEF IInv, Types, Roles, VIEWER, OPERATOR, ADMIN
  <2>2. RequireRole(ADMIN) => RequireRole(OPERATOR) /\ current_role = ADMIN
    BY <2>1 DEF RequireRole
  <2>3. CASE \/ Logout \/ \E role \in Roles : Login(role)
             \/ UNCHANGED vars
    BY <2>3 DEF Logout, Login, vars, fs
  <2>4. CASE \/ \E s \in Servers : Start(s) \/ Stop(s) \/ Backup(s)
             \/ \E s \in Servers, dir \in DirNames, name \in FileNames :
                   \/ Touch(s, dir, name)
                   \/ \E content \in Contents \cup {NoText} : Write(s, dir, name, content)
             \/ \E name \in FileNames : \/ \E content \in Contents : ApacheAdd(name, content)
                                        \/ ApacheRm(name)
    <3>1. RequireRole(OPERATOR) /\ UNCHANGED dirs
      BY <2>4 DEF Start, Stop, Backup, Touch, Write, ApacheAdd, ApacheRm, fs
    <3> QED
      BY <3>1, <2>1 DEF RequireRole
  <2>5. CASE \/ \E s \in Servers : Restore(s)
             \/ \E s \in Servers, dir \in DirNames :
                   \/ Rmdir(s, dir)
                   \/ \E name \in FileNames : \/ Rm(s, dir, name)
                                              \/ \E mode \in Modes : Chmod(s, dir, name, mode)
    <3>1. RequireRole(ADMIN)
      BY <2>5 DEF Restore, Rmdir, Rm, Chmod
    <3> QED
      BY <3>1, <2>1, <2>2 DEF RequireRole
  <2>6. CASE \E s \in Servers, dir \in DirNames : Mkdir(s, dir)
    <3>1. PICK s \in Servers, dir \in DirNames : Mkdir(s, dir)
      BY <2>6
    <3>2. RequireRole(OPERATOR)
      BY <3>1 DEF Mkdir
    <3>3. PICK k \in DirSlots : dirs[s][k] = Free /\ dirs' = [dirs EXCEPT ![s][k] = dir]
      BY <3>1 DEF Mkdir, IsFirst, FreeDirs
    <3>4. \A t \in Servers, d \in DirSlots : dirs[t][d] # Free => dirs'[t][d] = dirs[t][d]
      BY <3>3, SlotTypes DEF IInv, Types
    <3> QED
      BY <3>2, <3>4, <2>1 DEF RequireRole
  <2> QED
    BY <2>3, <2>4, <2>5, <2>6 DEF Next, FsCommand
<1>2. ASSUME IInv, [Next]_vars
      PROVE  FilesByRole
  BY <1>2, FileChangesAuthorised
<1>3. IInv /\ [Next]_vars => [ByRole /\ FilesByRole]_vars
  BY <1>1, <1>2
<1> QED
  BY <1>3, Invariant, PTL DEF Spec, ChangesAuthorised

\* Only restore writes over the content of a file that lost its write
\* permission (the perm_write test of command_server_write), whatever slots
\* touch, apache add, rm and chmod have used before.
THEOREM ProtectionHolds == Spec => ProtectedContentKept
<1> DEFINE Kept ==
      \A s \in Servers, i \in FileSlots :
          /\ Used(files[s][i]) /\ ~files[s][i].perm_write
          /\ files'[s][i].content # files[s][i].content
          => audited' = "restore" /\ snapshots[s].valid
<1>1. ASSUME IInv, [Next]_vars
      PROVE  Kept
  <2> USE <1>1
  <2> SUFFICES ASSUME NEW s \in Servers, NEW i \in FileSlots,
                      Used(files[s][i]), ~files[s][i].perm_write,
                      files'[s][i].content # files[s][i].content
               PROVE  audited' = "restore" /\ snapshots[s].valid
    OBVIOUS
  <2>1. files \in [Servers -> [FileSlots -> File]]
    BY DEF IInv, Types
  <2>2. files' # files
    OBVIOUS
  <2>3. ASSUME NEW r \in Servers, Restore(r)
        PROVE  audited' = "restore" /\ snapshots[s].valid
    BY <2>1, <2>3 DEF Restore
  <2>4. ASSUME NEW r \in Servers, NEW dir \in DirNames, NEW name \in FileNames,
               Touch(r, dir, name)
        PROVE  FALSE
    <3>1. PICK k \in FileSlots :
             /\ ~Used(files[r][k])
             /\ files' = [files EXCEPT ![r][k] =
                             [@ EXCEPT !.dir = dir, !.name = name,
                                       !.perm_read = TRUE, !.perm_write = TRUE]]
      BY <2>4 DEF Touch, IsFirst, FreeFiles
    <3>2. files'[s][i] = files[s][i]
      BY <2>1, <3>1
    <3> QED
      BY <3>2
  <2>5. ASSUME NEW name \in FileNames, NEW content \in Contents, ApacheAdd(name, content)
        PROVE  FALSE
    <3>1. PICK k \in FileSlots :
             /\ ~Used(files[Apache][k])
             /\ files' = [files EXCEPT ![Apache][k] =
                             [@ EXCEPT !.dir = Www, !.name = name, !.content = content]]
      BY <2>5 DEF ApacheAdd, IsFirst, FreeFiles
    <3>2. files'[s][i] = files[s][i]
      BY <2>1, <3>1, ServersAssumption
    <3> QED
      BY <3>2
  <2>6. ASSUME NEW r \in Servers, NEW dir \in DirNames, NEW name \in FileNames,
               NEW content \in Contents \cup {NoText}, Write(r, dir, name, content)
        PROVE  FALSE
    <3>1. PICK k \in FileSlots : /\ files[r][k].perm_write
                                 /\ files' = [files EXCEPT ![r][k].content = content]
      BY <2>6 DEF Write
    <3>2. files'[s][i] = files[s][i]
      BY <2>1, <3>1
    <3> QED
      BY <3>2
  <2>7. ASSUME NEW r \in Servers, NEW k \in FileSlots, Release(r, k)
        PROVE  FALSE
    <3>1. files[r][k] \in File
      BY <2>1
    <3>2. files'[r][k].content = files[r][k].content
      BY <2>1, <2>7, <3>1 DEF Release, File
    <3>3. r # s \/ k # i => files'[s][i] = files[s][i]
      BY <2>1, <2>7 DEF Release
    <3> QED
      BY <3>2, <3>3
  <2>8. ASSUME NEW r \in Servers, NEW dir \in DirNames, NEW name \in FileNames,
               NEW mode \in Modes, Chmod(r, dir, name, mode)
        PROVE  FALSE
    <3>1. PICK k \in FileSlots :
             files' = [files EXCEPT ![r][k] =
                          [@ EXCEPT !.perm_read = mode[1], !.perm_write = mode[2]]]
      BY <2>8 DEF Chmod
    <3>2. files[r][k] \in File
      BY <2>1
    <3>3. files'[r][k].content = files[r][k].content
      BY <2>1, <3>1, <3>2 DEF File
    <3>4. r # s \/ k # i => files'[s][i] = files[s][i]
      BY <2>1, <3>1
    <3> QED
      BY <3>3, <3>4
  <2>9. ~\E r \in Servers, dir \in DirNames, name \in FileNames : Rm(r, dir, name)
    BY <2>7 DEF Rm
  <2>10. ~\E name \in FileNames : ApacheRm(name)
    BY <2>7, ServersAssumption DEF ApacheRm
  <2>11. /\ ~Logout /\ ~\E role \in Roles : Login(role)
         /\ ~\E r \in Servers : Start(r) \/ Stop(r) \/ Backup(r)
         /\ ~\E r \in Servers, dir \in DirNames : Mkdir(r, dir) \/ Rmdir(r, dir)
         /\ ~UNCHANGED vars
    BY <2>2 DEF Logout, Login, Start, Stop, Backup, Mkdir, Rmdir, vars, fs
  <2> QED
    BY <2>3, <2>4, <2>5, <2>6, <2>8, <2>9, <2>10, <2>11 DEF Next, FsCommand
<1>2. IInv /\ [Next]_vars => [Kept]_vars
  BY <1>1
<1> QED
  BY <1>2, Invariant, PTL DEF Spec, ProtectedContentKept

(***************************************************************************)
(* The slots are a file store                                              *)
(***************************************************************************)
\* FilesOf, for the files of a tree alone.
Seen(g) == g.name # Free /\ g.dir # Www
Path(g) == <<g.dir, g.name>>
Shown(g) == [content |-> g.content, perm_read |-> g.perm_read, perm_write |-> g.perm_write]
PathsIn(f) == {Path(f[i]) : i \in {j \in FileSlots : Seen(f[j])}}
FileIn(f, path) ==
    Shown(f[CHOOSE j \in FileSlots : f[j].dir = path[1] /\ f[j].name = path[2]])
FilesIn(f) == [path \in PathsIn(f) |-> FileIn(f, path)]
NamesIn(d) == {d[e] : e \in DirSlots} \ {Free}

LEMMA StoreIsOfTree ==
    ASSUME NEW d, NEW f
    PROVE  /\ DirsOf([dirs |-> d, files |-> f]) = NamesIn(d)
           /\ FilesOf([dirs |-> d, files |-> f]) = FilesIn(f)
BY DEF DirsOf, NamesIn, FilesOf, FilesIn, PathsOf, PathsIn, FileAt, FileIn, Used, Seen, Path, Shown

\* A path shows the one slot that has it.
LEMMA SlotOfPath ==
    ASSUME NEW d, NEW f, Good(d, f), NEW i \in FileSlots, Seen(f[i])
    PROVE  Path(f[i]) \in PathsIn(f) /\ FileIn(f, Path(f[i])) = Shown(f[i])
<1> DEFINE j == CHOOSE k \in FileSlots : f[k].dir = Path(f[i])[1] /\ f[k].name = Path(f[i])[2]
<1>1. j \in FileSlots /\ f[j].dir = f[i].dir /\ f[j].name = f[i].name
  BY DEF Path
<1> HIDE DEF j
<1>2. j = i
  BY <1>1 DEF Good, FilesDiffer, Seen
<1>3. FileIn(f, Path(f[i])) = Shown(f[j])
  BY DEF FileIn, j
<1> QED
  BY <1>2, <1>3 DEF PathsIn

\* What a slot shows depends on its own record, wherever the others are.
LEMMA SlotWritten ==
    ASSUME NEW d, NEW f, Good(d, f), NEW k \in FileSlots, NEW g
    PROVE  \A i \in FileSlots : [f EXCEPT ![k] = g][i] = IF i = k THEN g ELSE f[i]
BY DEF Good, Typed

\* touch, write, chmod: the slot now shows g at its path.
LEMMA PutStep ==
    ASSUME NEW d, NEW f, Good(d, f), NEW k \in FileSlots, NEW g,
           Good(d, [f EXCEPT ![k] = g]), Seen(g),
           Seen(f[k]) => Path(f[k]) = Path(g)
    PROVE  FilesIn([f EXCEPT ![k] = g])
             = [p \in DOMAIN FilesIn(f) \cup {Path(g)} |->
                   IF p = Path(g) THEN Shown(g) ELSE FilesIn(f)[p]]
<1> DEFINE ff == [f EXCEPT ![k] = g]
<1>1. \A i \in FileSlots : ff[i] = IF i = k THEN g ELSE f[i]
  BY SlotWritten
<1>2. Good(d, ff)
  OBVIOUS
<1> HIDE DEF ff
<1>3. PathsIn(ff) = PathsIn(f) \cup {Path(g)}
  BY <1>1 DEF PathsIn
<1>4. FileIn(ff, Path(g)) = Shown(g)
  BY <1>1, <1>2, SlotOfPath
<1>5. ASSUME NEW p \in PathsIn(f), p # Path(g)
      PROVE  FileIn(ff, p) = FileIn(f, p)
  <2>1. PICK i \in FileSlots : Seen(f[i]) /\ p = Path(f[i])
    BY <1>5 DEF PathsIn
  <2>2. ff[i] = f[i]
    BY <1>1, <1>5, <2>1
  <2> QED
    BY <1>2, <2>1, <2>2, SlotOfPath
<1>6. FilesIn(ff) = [p \in PathsIn(f) \cup {Path(g)} |-> FileIn(ff, p)]
  BY <1>3 DEF FilesIn
<1>7. DOMAIN FilesIn(f) = PathsIn(f) /\ \A p \in PathsIn(f) : FilesIn(f)[p] = FileIn(f, p)
  BY DEF FilesIn
<1>8. \A p \in PathsIn(f) \cup {Path(g)} :
         FileIn(ff, p) = IF p = Path(g) THEN Shown(g) ELSE FilesIn(f)[p]
  BY <1>4, <1>5, <1>7
<1> QED
  BY <1>6, <1>7, <1>8 DEF ff

\* rm: the slot's path shows nothing any more.
LEMMA RemoveStep ==
    ASSUME NEW d, NEW f, Good(d, f), NEW k \in FileSlots, NEW g,
           Good(d, [f EXCEPT ![k] = g]), ~Seen(g), Seen(f[k])
    PROVE  FilesIn([f EXCEPT ![k] = g])
             = [p \in DOMAIN FilesIn(f) \ {Path(f[k])} |-> FilesIn(f)[p]]
<1> DEFINE ff == [f EXCEPT ![k] = g]
<1>1. \A i \in FileSlots : ff[i] = IF i = k THEN g ELSE f[i]
  BY SlotWritten
<1>2. Good(d, ff)
  OBVIOUS
<1> HIDE DEF ff
<1>3. \A i \in FileSlots : i # k /\ Seen(f[i]) => Path(f[i]) # Path(f[k])
  BY DEF Good, FilesDiffer, Seen, Path
<1>4. PathsIn(ff) = PathsIn(f) \ {Path(f[k])}
  BY <1>1, <1>3 DEF PathsIn
<1>5. ASSUME NEW p \in PathsIn(ff)
      PROVE  FileIn(ff, p) = FileIn(f, p)
  <2>1. PICK i \in FileSlots : Seen(ff[i]) /\ p = Path(ff[i])
    BY DEF PathsIn
  <2>2. ff[i] = f[i]
    BY <1>1, <2>1
  <2> QED
    BY <1>2, <2>1, <2>2, SlotOfPath
<1>6. FilesIn(ff) = [p \in PathsIn(f) \ {Path(f[k])} |-> FileIn(ff, p)]
  BY <1>4 DEF FilesIn
<1>7. DOMAIN FilesIn(f) = PathsIn(f) /\ \A p \in PathsIn(f) : FilesIn(f)[p] = FileIn(f, p)
  BY DEF FilesIn
<1>8. \A p \in PathsIn(f) \ {Path(f[k])} : FileIn(ff, p) = FilesIn(f)[p]
  BY <1>4, <1>5, <1>7
<1> QED
  BY <1>6, <1>7, <1>8 DEF ff

\* Free slots and those of the web root are not seen.
LEMMA UnseenStep ==
    ASSUME NEW d, NEW f, Good(d, f), NEW k \in FileSlots, NEW g,
           Good(d, [f EXCEPT ![k] = g]), ~Seen(g), ~Seen(f[k])
    PROVE  FilesIn([f EXCEPT ![k] = g]) = FilesIn(f)
<1> DEFINE ff == [f EXCEPT ![k] = g]
<1>1. \A i \in FileSlots : ff[i] = IF i = k THEN g ELSE f[i]
  BY SlotWritten
<1>2. Good(d, ff)
  OBVIOUS
<1> HIDE DEF ff
<1>3. PathsIn(ff) = PathsIn(f)
  BY <1>1 DEF PathsIn
<1>4. ASSUME NEW p \in PathsIn(f)
      PROVE  FileIn(ff, p) = FileIn(f, p)
  <2>1. PICK i \in FileSlots : Seen(f[i]) /\ p = Path(f[i])
    BY DEF PathsIn
  <2>2. ff[i] = f[i]
    BY <1>1, <2>1
  <2> QED
    BY <1>2, <2>1, <2>2, SlotOfPath
<1> QED
  BY <1>3, <1>4 DEF FilesIn, ff

(***************************************************************************)
(* A command is a step of the file store of its server                     *)
(***************************************************************************)
\* The backup, as the store sees it.
SavedIn(snap) == IF snap.valid
                 THEN [dirs |-> NamesIn(snap.dirs), files |-> FilesIn(snap.files)]
                 ELSE NoBackup

\* The variables of the store, before and after a step.
LEMMA StoreState ==
    ASSUME NEW s \in Servers
    PROVE  /\ Store(s)!vars = <<NamesIn(dirs[s]), FilesIn(files[s]), SavedIn(snapshots[s])>>
           /\ Store(s)!vars' = <<NamesIn(dirs'[s]), FilesIn(files'[s]), SavedIn(snapshots'[s])>>
BY StoreIsOfTree DEF Store!vars, LiveTree, SavedTree, SavedIn

\* A step of the manager is a step of the store, or none.
Simulates(s) == Store(s)!vars' = Store(s)!vars \/ Store(s)!Next

\* A step that leaves what is seen of a server leaves its store.
LEMMA StoreStutters ==
    ASSUME NEW s \in Servers, dirs'[s] = dirs[s], snapshots'[s] = snapshots[s],
           FilesIn(files'[s]) = FilesIn(files[s])
    PROVE  Simulates(s)
BY StoreState DEF Simulates

\* mkdir and rmdir: the slot taken or freed is the only one with that name.
LEMMA StoreMkdir ==
    ASSUME IInv, NEW s \in Servers, NEW dir \in DirNames, Mkdir(s, dir)
    PROVE  Simulates(s)
<1>1. PICK k \in DirSlots : dirs[s][k] = Free /\ dirs' = [dirs EXCEPT ![s][k] = dir]
  BY DEF Mkdir, IsFirst, FreeDirs
<1>2. \A e \in DirSlots : dirs'[s][e] = IF e = k THEN dir ELSE dirs[s][e]
  BY <1>1 DEF IInv, Types
<1>3. dir # Free /\ \A e \in DirSlots : dirs[s][e] # dir
  BY ServersAssumption DEF Mkdir, DirExists
<1>4. dir \notin NamesIn(dirs[s]) /\ NamesIn(dirs'[s]) = NamesIn(dirs[s]) \cup {dir}
  BY <1>1, <1>2, <1>3 DEF NamesIn
<1>5. UNCHANGED <<files, snapshots>>
  BY DEF Mkdir
<1>6. Store(s)!Mkdir(dir)
  BY <1>4, <1>5, StoreIsOfTree DEF Store!Mkdir, LiveTree, SavedTree
<1> QED
  BY <1>6 DEF Store!Next, Simulates

LEMMA StoreRmdir ==
    ASSUME IInv, NEW s \in Servers, NEW dir \in DirNames, Rmdir(s, dir)
    PROVE  Simulates(s)
<1>1. PICK k \in DirSlots : dirs[s][k] = dir /\ dirs' = [dirs EXCEPT ![s][k] = Free]
  BY DEF Rmdir, IsFirst
<1>2. \A e \in DirSlots : dirs'[s][e] = IF e = k THEN Free ELSE dirs[s][e]
  BY <1>1 DEF IInv, Types
<1>3. dir # Free /\ \A e \in DirSlots : dirs[s][e] = dir => e = k
  BY <1>1, ServersAssumption, SlotTypes DEF Good, DirsDiffer
<1>4. dir \in NamesIn(dirs[s]) /\ NamesIn(dirs'[s]) = NamesIn(dirs[s]) \ {dir}
  BY <1>1, <1>2, <1>3 DEF NamesIn
<1>5. \A name \in FileNames : <<dir, name>> \notin DOMAIN FilesIn(files[s])
  BY DEF Rmdir, FilesIn, PathsIn, Path
<1>6. UNCHANGED <<files, snapshots>>
  BY DEF Rmdir
<1>7. Store(s)!Rmdir(dir)
  BY <1>4, <1>5, <1>6, StoreIsOfTree DEF Store!Rmdir, Store!Exists, LiveTree, SavedTree
<1> QED
  BY <1>7 DEF Store!Next, Simulates

\* backup and restore copy what is seen along with the slots.
LEMMA StoreBackup ==
    ASSUME IInv, NEW s \in Servers, Backup(s)
    PROVE  Simulates(s)
<1> DEFINE copy == [valid |-> TRUE, dirs |-> dirs[s], files |-> files[s]]
<1>1. snapshots'[s] = copy
  BY DEF Backup, IInv, Types
<1>2. UNCHANGED <<dirs, files>>
  BY DEF Backup, fs
<1>3. Store(s)!Backup
  BY <1>1, <1>2, StoreIsOfTree DEF Store!Backup, LiveTree, SavedTree
<1> QED
  BY <1>3 DEF Store!Next, Simulates

LEMMA StoreRestore ==
    ASSUME IInv, NEW s \in Servers, Restore(s)
    PROVE  Simulates(s)
<1>1. dirs'[s] = snapshots[s].dirs /\ files'[s] = snapshots[s].files
  BY DEF Restore, IInv, Types
<1>2. snapshots[s].valid /\ UNCHANGED snapshots
  BY DEF Restore
<1> DEFINE tree == [dirs |-> NamesIn(snapshots[s].dirs), files |-> FilesIn(snapshots[s].files)]
<1>3. tree # NoBackup
  <2>1. tree.dirs = NamesIn(snapshots[s].dirs) /\ NoBackup.dirs = {Free}
    BY DEF NoBackup
  <2>2. Free \notin NamesIn(snapshots[s].dirs)
    BY DEF NamesIn
  <2> QED
    BY <2>1, <2>2
<1>4. Store(s)!Restore
  BY <1>1, <1>2, <1>3, StoreIsOfTree DEF Store!Restore, LiveTree, SavedTree
<1> QED
  BY <1>4 DEF Store!Next, Simulates

\* What the store sees of one slot written.
Written(s, k, g) ==
    /\ files' = [files EXCEPT ![s] = [files[s] EXCEPT ![k] = g]]
    /\ UNCHANGED <<dirs, snapshots>>

\* Both trees are good ones, and the new one differs in that slot.
LEMMA WrittenGood ==
    ASSUME IInv, IInv', NEW s \in Servers, NEW k \in FileSlots, NEW g, Written(s, k, g)
    PROVE  /\ Good(dirs[s], files[s])
           /\ files'[s] = [files[s] EXCEPT ![k] = g]
           /\ Good(dirs[s], [files[s] EXCEPT ![k] = g])
<1>1. files'[s] = [files[s] EXCEPT ![k] = g] /\ dirs'[s] = dirs[s]
  BY DEF Written, IInv, Types
<1>2. Good(dirs[s], files[s]) /\ Good(dirs'[s], files'[s])
  BY DEF IInv, LiveGood
<1> QED
  BY <1>1, <1>2

\* A slot that is not seen, before or after.
LEMMA StoreUnseen ==
    ASSUME IInv, IInv', NEW s \in Servers, NEW k \in FileSlots, NEW g, Written(s, k, g),
           ~Seen(g), ~Seen(files[s][k])
    PROVE  Simulates(s)
<1>1. /\ Good(dirs[s], files[s])
      /\ files'[s] = [files[s] EXCEPT ![k] = g]
      /\ Good(dirs[s], [files[s] EXCEPT ![k] = g])
  BY WrittenGood
<1>2. FilesIn([files[s] EXCEPT ![k] = g]) = FilesIn(files[s])
  BY <1>1, UnseenStep
<1> QED
  BY <1>1, <1>2, StoreStutters DEF Written

\* A slot that is seen afterwards: the store puts what it shows at its path.
LEMMA StorePut ==
    ASSUME IInv, IInv', NEW s \in Servers, NEW k \in FileSlots, NEW g, Written(s, k, g),
           Seen(g), Seen(files[s][k]) => Path(files[s][k]) = Path(g)
    PROVE  Store(s)!Put(Path(g), Shown(g))
<1>1. /\ Good(dirs[s], files[s])
      /\ files'[s] = [files[s] EXCEPT ![k] = g]
      /\ Good(dirs[s], [files[s] EXCEPT ![k] = g])
  BY WrittenGood
<1>2. FilesIn([files[s] EXCEPT ![k] = g])
        = [p \in DOMAIN FilesIn(files[s]) \cup {Path(g)} |->
              IF p = Path(g) THEN Shown(g) ELSE FilesIn(files[s])[p]]
  BY <1>1, PutStep
<1> QED
  BY <1>1, <1>2, StoreIsOfTree DEF Store!Put, LiveTree

\* The store's directories and backup, for the commands that write one slot.
LEMMA StoreUnchanged ==
    ASSUME NEW s \in Servers, UNCHANGED <<dirs, snapshots>>
    PROVE  /\ DirsOf(LiveTree(s))' = DirsOf(LiveTree(s))
           /\ (IF snapshots[s].valid
               THEN [dirs |-> DirsOf(SavedTree(s)), files |-> FilesOf(SavedTree(s))]
               ELSE NoBackup)'
              = IF snapshots[s].valid
                THEN [dirs |-> DirsOf(SavedTree(s)), files |-> FilesOf(SavedTree(s))]
                ELSE NoBackup
BY StoreIsOfTree DEF LiveTree, SavedTree

\* touch: the new file shows whatever text was in the slot.
LEMMA StoreTouch ==
    ASSUME IInv, IInv', NEW s \in Servers, NEW dir \in DirNames, NEW name \in FileNames,
           Touch(s, dir, name)
    PROVE  Simulates(s)
<1>1. PICK k \in FileSlots :
         /\ IsFirst(k, FreeFiles(s))
         /\ files' = [files EXCEPT ![s][k] =
                         [@ EXCEPT !.dir = dir, !.name = name,
                                   !.perm_read = TRUE, !.perm_write = TRUE]]
  BY DEF Touch
<1> DEFINE g == [files[s][k] EXCEPT !.dir = dir, !.name = name,
                                    !.perm_read = TRUE, !.perm_write = TRUE]
<1>2. files[s][k].name = Free /\ ~Seen(files[s][k])
  BY <1>1 DEF IsFirst, FreeFiles, Used, Seen
<1>3. files[s][k] \in File
  BY SlotTypes
<1>4. g \in File /\ g.dir = dir /\ g.name = name /\ g.perm_read /\ g.perm_write
  BY <1>3 DEF File
<1>5. Written(s, k, g)
  BY <1>1 DEF Written, Touch
<1> HIDE DEF g
<1>6. CASE dir = Www
  BY <1>2, <1>4, <1>5, <1>6, StoreUnseen DEF Seen
<1>7. CASE dir # Www
  <2>1. Seen(g) /\ Path(g) = <<dir, name>>
    BY <1>4, <1>7, ServersAssumption DEF Seen, Path
  <2>2. Store(s)!Put(<<dir, name>>, Shown(g))
    BY <1>2, <1>5, <2>1, StorePut
  <2>3. dir \in NamesIn(dirs[s])
    BY ServersAssumption DEF Touch, DirExists, NamesIn
  <2>4. <<dir, name>> \notin DOMAIN FilesIn(files[s])
    BY DEF Touch, Matches, FilesIn, PathsIn, Path
  <2>5. /\ g.content \in Contents \cup {NoText}
        /\ Shown(g) = [content |-> g.content, perm_read |-> TRUE, perm_write |-> TRUE]
    BY <1>4, FileFields DEF Shown
  <2>6. <<dir, name>> \in DirNames \X FileNames /\ <<dir, name>>[1] = dir
    OBVIOUS
  <2>7. UNCHANGED <<dirs, snapshots>>
    BY DEF Touch
  <2>8. Store(s)!Touch(<<dir, name>>)
    BY <2>2, <2>3, <2>4, <2>5, <2>6, <2>7, StoreIsOfTree, StoreUnchanged
    DEF Store!Touch, Store!Exists, LiveTree
  <2> QED
    BY <2>6, <2>8 DEF Store!Next, Store!Paths, Simulates
<1> QED
  BY <1>6, <1>7

\* rm and apache rm.
LEMMA StoreRelease ==
    ASSUME IInv, IInv', NEW s \in Servers, NEW k \in FileSlots, Release(s, k),
           UNCHANGED <<dirs, snapshots>>
    PROVE  Simulates(s)
<1> DEFINE g == [files[s][k] EXCEPT !.dir = Free, !.name = Free]
<1>1. files[s][k] \in File
  BY SlotTypes
<1>2. g.name = Free /\ ~Seen(g)
  BY <1>1 DEF File, Seen
<1>3. Written(s, k, g)
  BY DEF Release, Written
<1> HIDE DEF g
<1>4. CASE ~Seen(files[s][k])
  BY <1>2, <1>3, <1>4, StoreUnseen
<1>5. CASE Seen(files[s][k])
  <2> DEFINE p == Path(files[s][k])
  <2> DEFINE ff == [files[s] EXCEPT ![k] = g]
  <2>0. Good(dirs[s], files[s]) /\ files'[s] = ff /\ Good(dirs[s], ff)
    BY <1>3, WrittenGood
  <2>1. FilesIn(ff) = [q \in DOMAIN FilesIn(files[s]) \ {p} |-> FilesIn(files[s])[q]]
    BY <1>2, <1>5, <2>0, RemoveStep
  <2>2. p \in DOMAIN FilesIn(files[s])
    BY <1>5 DEF FilesIn, PathsIn
  <2>3. p \in DirNames \X FileNames
    BY <1>1, <1>5, SlotTypes, FileFields DEF Path, Seen, Good, FreeAsAWhole
  <2> HIDE DEF p
  <2>4. Store(s)!Rm(p)
    BY <2>0, <2>1, <2>2, StoreIsOfTree, StoreUnchanged DEF Store!Rm, Store!Exists, LiveTree
  <2> QED
    BY <2>3, <2>4 DEF Store!Next, Store!Paths, Simulates
<1> QED
  BY <1>4, <1>5

\* What the store knows of the file a seen slot holds.
LEMMA StoreFile ==
    ASSUME IInv, NEW s \in Servers, NEW k \in FileSlots, Seen(files[s][k])
    PROVE  /\ Path(files[s][k]) \in DirNames \X FileNames
           /\ Path(files[s][k]) \in DOMAIN FilesIn(files[s])
           /\ FilesIn(files[s])[Path(files[s][k])] = Shown(files[s][k])
<1>1. Good(dirs[s], files[s]) /\ files[s][k] \in File
  BY SlotTypes
<1>2. /\ Path(files[s][k]) \in PathsIn(files[s])
      /\ FileIn(files[s], Path(files[s][k])) = Shown(files[s][k])
  BY <1>1, SlotOfPath
<1>3. Path(files[s][k]) \in DirNames \X FileNames
  BY <1>1, FileFields DEF Path, Seen, Good, FreeAsAWhole
<1> QED
  BY <1>2, <1>3 DEF FilesIn

\* write and chmod: the slot keeps its path, so both or neither are seen.
LEMMA StoreRewrite ==
    ASSUME IInv, IInv', NEW s \in Servers, NEW k \in FileSlots, NEW g, Written(s, k, g),
           g.dir = files[s][k].dir, g.name = files[s][k].name, Seen(files[s][k])
    PROVE  /\ Store(s)!Put(Path(files[s][k]), Shown(g))
           /\ UNCHANGED <<dirs, snapshots>>
<1>1. Seen(g) /\ Path(g) = Path(files[s][k])
  BY DEF Seen, Path
<1>2. Store(s)!Put(Path(g), Shown(g))
  BY <1>1, StorePut
<1> QED
  BY <1>1, <1>2 DEF Written

\* write: only a slot whose permission the store sees too.
LEMMA StoreWrite ==
    ASSUME IInv, IInv', NEW s \in Servers, NEW dir \in DirNames, NEW name \in FileNames,
           NEW content \in Contents \cup {NoText}, Write(s, dir, name, content)
    PROVE  Simulates(s)
<1>1. PICK k \in FileSlots : /\ files[s][k].perm_write
                             /\ files' = [files EXCEPT ![s][k].content = content]
  BY DEF Write
<1> DEFINE g == [files[s][k] EXCEPT !.content = content]
<1>2. files[s][k] \in File
  BY SlotTypes
<1>3. g.dir = files[s][k].dir /\ g.name = files[s][k].name
  BY <1>2 DEF File
<1>4. Shown(g) = [Shown(files[s][k]) EXCEPT !.content = content]
  BY <1>2 DEF File, Shown
<1>5. Written(s, k, g)
  BY <1>1 DEF Written, Write
<1> HIDE DEF g
<1>6. CASE ~Seen(files[s][k])
  BY <1>3, <1>5, <1>6, StoreUnseen DEF Seen
<1>7. CASE Seen(files[s][k])
  <2> DEFINE p == Path(files[s][k])
  <2>1. Store(s)!Put(p, [Shown(files[s][k]) EXCEPT !.content = content])
    BY <1>3, <1>4, <1>5, <1>7, StoreRewrite
  <2>2. /\ p \in DirNames \X FileNames /\ p \in DOMAIN FilesIn(files[s])
        /\ FilesIn(files[s])[p] = Shown(files[s][k])
    BY <1>7, StoreFile
  <2>3. Shown(files[s][k]).perm_write
    BY <1>1 DEF Shown
  <2>4. UNCHANGED <<dirs, snapshots>>
    BY DEF Write
  <2> HIDE DEF p
  <2>5. Store(s)!Write(p, content)
    BY <2>1, <2>2, <2>3, <2>4, StoreIsOfTree, StoreUnchanged
    DEF Store!Write, Store!Exists, LiveTree
  <2> QED
    BY <2>2, <2>5 DEF Store!Next, Store!Paths, Simulates
<1> QED
  BY <1>6, <1>7

\* chmod, of a slot and of what the store shows of it.
WithModes(file, r, w) == [file EXCEPT !.perm_read = r, !.perm_write = w]

LEMMA ChmodShows ==
    ASSUME NEW g \in File, NEW r, NEW w
    PROVE  Shown(WithModes(g, r, w)) = WithModes(Shown(g), r, w)
<1> DEFINE h == [g EXCEPT !.perm_read = r, !.perm_write = w]
           shown == [content |-> g.content, perm_read |-> r, perm_write |-> w]
<1>1. h.content = g.content /\ h.perm_read = r /\ h.perm_write = w
  <2>1. DOMAIN g = {"dir", "name", "content", "perm_read", "perm_write"}
    BY DEF File
  <2>2. h.content = g.content
    BY DEF File
  <2>3. h.perm_read = r
    BY <2>1, Zenon
  <2>4. h.perm_write = w
    BY <2>1, Zenon
  <2> QED
    BY <2>2, <2>3, <2>4
<1> HIDE DEF h
<1>2. Shown(h) = shown
  BY <1>1 DEF Shown
<1>3. [Shown(g) EXCEPT !.perm_read = r, !.perm_write = w] = shown
  <2> DEFINE file == Shown(g)
             c == g.content
             b == g.perm_write
             read == [file EXCEPT !.perm_read = r]
  <2>1. file = [content |-> c, perm_read |-> g.perm_read, perm_write |-> b]
    BY Zenon DEF Shown
  <2> HIDE DEF file, c, b
  <2>2. read = [content |-> c, perm_read |-> r, perm_write |-> b]
    BY <2>1
  <2> HIDE DEF read
  <2>3. [read EXCEPT !.perm_write = w] = [content |-> c, perm_read |-> r, perm_write |-> w]
    BY <2>2
  <2> QED
    BY <2>3, Zenon DEF read, file, c
<1> QED
  BY <1>2, <1>3, Zenon DEF h, WithModes

LEMMA StoreChmod ==
    ASSUME IInv, IInv', NEW s \in Servers, NEW dir \in DirNames, NEW name \in FileNames,
           NEW mode \in Modes, Chmod(s, dir, name, mode)
    PROVE  Simulates(s)
<1>1. PICK k \in FileSlots :
         files' = [files EXCEPT ![s][k] =
                      [@ EXCEPT !.perm_read = mode[1], !.perm_write = mode[2]]]
  BY DEF Chmod
<1> DEFINE r == mode[1]
           w == mode[2]
           g == WithModes(files[s][k], r, w)
<1>2. files[s][k] \in File /\ r \in BOOLEAN /\ w \in BOOLEAN
  BY SlotTypes DEF Modes
<1>3. g.dir = files[s][k].dir /\ g.name = files[s][k].name
  BY <1>2 DEF File, WithModes
<1>4. Shown(g) = WithModes(Shown(files[s][k]), r, w)
  BY <1>2, ChmodShows
<1>5. Written(s, k, g)
  BY <1>1 DEF Written, Chmod, WithModes
<1> HIDE DEF g, r, w
<1>6. CASE ~Seen(files[s][k])
  BY <1>3, <1>5, <1>6, StoreUnseen DEF Seen
<1>7. CASE Seen(files[s][k])
  <2> DEFINE p == Path(files[s][k])
  <2>1. Store(s)!Put(p, WithModes(Shown(files[s][k]), r, w))
    BY <1>3, <1>4, <1>5, <1>7, StoreRewrite
  <2>2. /\ p \in DirNames \X FileNames /\ p \in DOMAIN FilesIn(files[s])
        /\ FilesIn(files[s])[p] = Shown(files[s][k])
    BY <1>7, StoreFile
  <2>3. UNCHANGED <<dirs, snapshots>>
    BY DEF Chmod
  <2> HIDE DEF p
  <2>4. Store(s)!Chmod(p, r, w)
    BY <2>1, <2>2, <2>3, StoreIsOfTree, StoreUnchanged
    DEF Store!Chmod, Store!Exists, LiveTree, WithModes
  <2> QED
    BY <1>2, <2>2, <2>4 DEF Store!Next, Store!Paths, Simulates
<1> QED
  BY <1>6, <1>7

\* apache add only writes in the web root.
LEMMA StoreApacheAdd ==
    ASSUME IInv, IInv', NEW name \in FileNames, NEW content \in Contents,
           ApacheAdd(name, content)
    PROVE  Simulates(Apache)
<1>1. PICK k \in FileSlots :
         /\ IsFirst(k, FreeFiles(Apache))
         /\ files' = [files EXCEPT ![Apache][k] =
                         [@ EXCEPT !.dir = Www, !.name = name, !.content = content]]
  BY DEF ApacheAdd
<1> DEFINE g == [files[Apache][k] EXCEPT !.dir = Www, !.name = name, !.content = content]
<1>2. ~Seen(files[Apache][k])
  BY <1>1 DEF IsFirst, FreeFiles, Used, Seen
<1>3. Apache \in Servers /\ files[Apache][k] \in File
  BY ServersAssumption, SlotTypes
<1>4. ~Seen(g)
  BY <1>3 DEF File, Seen
<1>5. Written(Apache, k, g)
  BY <1>1 DEF Written, ApacheAdd
<1> HIDE DEF g
<1> QED
  BY <1>2, <1>3, <1>4, <1>5, StoreUnseen

\* Only the tree or the backup of the command's server is written.
LEMMA OtherServers ==
    ASSUME IInv, NEW s \in Servers, NEW t \in Servers \ {s},
           \/ Start(s) \/ Stop(s) \/ Backup(s) \/ Restore(s) \/ FsCommand(s)
           \/ s = Apache /\ \E name \in FileNames :
                 (\E content \in Contents : ApacheAdd(name, content)) \/ ApacheRm(name)
    PROVE  Simulates(t)
<1>1. /\ dirs'[t] = dirs[t] /\ files'[t] = files[t] /\ snapshots'[t] = snapshots[t]
  BY DEF Start, Stop, Backup, Restore, FsCommand, Mkdir, Rmdir, Touch, Write, Rm, Chmod,
         Release, ApacheAdd, ApacheRm, fs, IInv, Types
<1> QED
  BY <1>1, StoreStutters

\* A command is a step of the store of the server it works on.
LEMMA StoreFsCommand ==
    ASSUME IInv, IInv', NEW s \in Servers, FsCommand(s)
    PROVE  Simulates(s)
<1>1. PICK dir \in DirNames :
         \/ Mkdir(s, dir)
         \/ Rmdir(s, dir)
         \/ \E name \in FileNames :
               \/ Touch(s, dir, name)
               \/ \E content \in Contents \cup {NoText} : Write(s, dir, name, content)
               \/ Rm(s, dir, name)
               \/ \E mode \in Modes : Chmod(s, dir, name, mode)
  BY DEF FsCommand
<1>2. ASSUME NEW name \in FileNames, Rm(s, dir, name)
      PROVE  Simulates(s)
  BY <1>2, StoreRelease DEF Rm
<1> QED
  BY <1>1, <1>2, StoreMkdir, StoreRmdir, StoreTouch, StoreWrite, StoreChmod

\* So every step of the manager is, for every store, a step or none.
LEMMA StoreStep ==
    ASSUME IInv, IInv', Next, NEW t \in Servers
    PROVE  Simulates(t)
<1>1. CASE Logout \/ \E role \in Roles : Login(role)
  <2>1. UNCHANGED <<dirs, files, snapshots>>
    BY <1>1 DEF Logout, Login, fs
  <2> QED
    BY <2>1, StoreStutters
<1>2. ASSUME NEW s \in Servers,
             Start(s) \/ Stop(s) \/ Backup(s) \/ Restore(s) \/ FsCommand(s)
      PROVE  Simulates(t)
  <2>1. CASE t # s
    BY <1>2, <2>1, OtherServers
  <2>2. CASE t = s /\ (Start(s) \/ Stop(s))
    <3>1. UNCHANGED <<dirs, files, snapshots>>
      BY <2>2 DEF Start, Stop, fs
    <3> QED
      BY <3>1, StoreStutters
  <2>3. CASE t = s /\ (Backup(s) \/ Restore(s) \/ FsCommand(s))
    BY <2>3, StoreBackup, StoreRestore, StoreFsCommand
  <2> QED
    BY <1>2, <2>1, <2>2, <2>3
<1>3. ASSUME NEW name \in FileNames,
             (\E content \in Contents : ApacheAdd(name, content)) \/ ApacheRm(name)
      PROVE  Simulates(t)
  <2>1. Apache \in Servers
    BY ServersAssumption
  <2>2. CASE t # Apache
    BY <1>3, <2>1, <2>2, OtherServers
  <2>3. CASE t = Apache
    <3>1. ApacheRm(name) => Simulates(Apache)
      BY <2>1, StoreRelease DEF ApacheRm
    <3> QED
      BY <1>3, <2>3, <3>1, StoreApacheAdd
  <2> QED
    BY <2>2, <2>3
<1> QED
  BY <1>1, <1>2, <1>3 DEF Next

\* At boot the only file is the page in the web root, and nothing is saved.
LEMMA StoreInit ==
    ASSUME Init, NEW s \in Servers
    PROVE  Store(s)!Init
<1>1. IInv
  BY InvInit
<1>2. NamesIn(dirs[s]) \in SUBSET DirNames
  BY <1>1, SlotTypes DEF NamesIn
<1>3. \A i \in FileSlots : ~Seen(files[s][i])
  <2>1. EmptyFile.name = Free
    BY DEF EmptyFile
  <2>2. [EmptyFile EXCEPT !.dir = Www, !.name = Index].dir = Www
    BY DEF EmptyFile
  <2> QED
    BY <2>1, <2>2 DEF Init, Seen
<1>4. PathsIn(files[s]) = {}
  BY <1>3 DEF PathsIn
<1>5. FilesIn(files[s]) = <<>>
  BY <1>4 DEF FilesIn
<1>6. ~snapshots[s].valid
  BY DEF Init
<1> QED
  BY <1>2, <1>5, <1>6, StoreIsOfTree DEF Store!Init, LiveTree

\* Whatever slots the commands of servers.c use, and whatever was left in them,
\* outside www every server is a map from paths to files, with one saved copy,
\* on which each command does what its name says.
THEOREM StoreImplemented == Spec => ImplementsStore
<1> DEFINE Step == \A s \in Servers :
                      <<fs, snapshots>>' # <<fs, snapshots>> =>
                          Store(s)!vars' = Store(s)!vars \/ Store(s)!Next
<1>1. Init => \A s \in Servers : Store(s)!Init
  BY StoreInit
<1>2. ASSUME IInv, IInv', [Next]_vars
      PROVE  [Step]_vars
  <2>1. CASE Next
    BY <1>2, <2>1, StoreStep DEF Simulates
  <2>2. CASE UNCHANGED vars
    BY <2>2
  <2> QED
    BY <1>2, <2>1, <2>2
<1>3. IInv /\ IInv' /\ [Next]_vars => [Step]_vars
  BY <1>2
<1> QED
  BY <1>1, <1>3, Invariant, PTL DEF Spec, ImplementsStore
=============================================================================
