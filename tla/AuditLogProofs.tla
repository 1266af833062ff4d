--------------------------- MODULE AuditLogProofs ----------------------------
(***************************************************************************)
(* Without IRQ0 inside add_audit_log the log holds the last MaxLogs texts  *)
(* in order, for every size of the log.  (With it the run AuditRace shows  *)
(* what happens.)  And the commands that list it print it, with at most    *)
(* one entry missing, wherever a tick falls.                               *)
(***************************************************************************)
EXTENDS AuditListing, SequenceTheorems, WellFoundedInduction, TLAPS

PCs == {"idle", "test", "load", "store", "shift", "copy"}

Types ==
    /\ audit_logs \in [Slots -> Entries \cup {Blank}]
    /\ audit_count \in 0..MaxLogs
    /\ pc \in PCs
    /\ text \in Texts
    /\ loaded \in 0..MaxLogs
    /\ shift \in 1..MaxLogs
    /\ recent \in Seq(Entries)
    /\ Len(recent) <= MaxLogs

\* The log shows recent from the first entry on.
InOrder == \A i \in 1..Len(recent) : audit_logs[i - 1] = recent[i]

\* The first k slots have moved one entry on, the others not yet.
MovedUpTo(k) ==
    /\ \A i \in 0..(k - 1) : audit_logs[i] = recent[i + 2]
    /\ \A i \in k..(MaxLogs - 1) : audit_logs[i] = recent[i + 1]

\* What each instruction of add_audit_log can rely on.
AtEach ==
    /\ pc \in {"idle", "test", "load", "store"} => audit_count = Len(recent) /\ InOrder
    /\ pc \in {"load", "store"} => Len(recent) < MaxLogs
    /\ pc = "store" => loaded = audit_count
    /\ pc = "shift" => /\ audit_count = MaxLogs /\ Len(recent) = MaxLogs
                       /\ MovedUpTo(shift - 1)
    /\ pc = "copy" /\ Len(recent) < MaxLogs =>
          audit_count = Len(recent) + 1 /\ loaded = Len(recent) /\ InOrder
    /\ pc = "copy" /\ Len(recent) >= MaxLogs =>
          audit_count = MaxLogs /\ loaded = MaxLogs - 1 /\ MovedUpTo(MaxLogs - 1)

IInv == Types /\ AtEach

\* The history keeps the last MaxLogs of what it had and the new text.
LEMMA RememberKeeps ==
    ASSUME NEW e \in Entries, Types, Remember(e)
    PROVE  /\ recent' \in Seq(Entries)
           /\ Len(recent) < MaxLogs =>
                /\ Len(recent') = Len(recent) + 1
                /\ \A i \in 1..Len(recent) : recent'[i] = recent[i]
                /\ recent'[Len(recent) + 1] = e
           /\ Len(recent) = MaxLogs =>
                /\ Len(recent') = MaxLogs
                /\ \A i \in 1..(MaxLogs - 1) : recent'[i] = recent[i + 1]
                /\ recent'[MaxLogs] = e
<1> DEFINE all == Append(recent, e)
<1>1. /\ all \in Seq(Entries) /\ Len(all) = Len(recent) + 1
      /\ \A i \in 1..Len(recent) : all[i] = recent[i]
      /\ all[Len(recent) + 1] = e
  BY DEF Types
<1>2. recent' = IF Len(all) > MaxLogs THEN Tail(all) ELSE all
  BY DEF Remember
<1> HIDE DEF all
<1>3. CASE Len(recent) < MaxLogs
  <2>1. recent' = all
    BY <1>1, <1>2, <1>3, AuditLogAssumption DEF Types
  <2> QED
    BY <1>1, <1>3, <2>1, AuditLogAssumption DEF Types
<1>4. CASE Len(recent) = MaxLogs
  <2>1. recent' = Tail(all)
    BY <1>1, <1>2, <1>4, AuditLogAssumption DEF Types
  <2>2. /\ Tail(all) \in Seq(Entries) /\ Len(Tail(all)) = MaxLogs
        /\ \A i \in 1..MaxLogs : Tail(all)[i] = all[i + 1]
    BY <1>1, <1>4, AuditLogAssumption DEF Types
  <2> QED
    BY <1>1, <1>4, <2>1, <2>2, AuditLogAssumption DEF Types
<1> QED
  BY <1>3, <1>4, AuditLogAssumption DEF Types

\* A text written behind the last one, in the log and in the history.
LEMMA BehindTheLast ==
    ASSUME Types, InOrder, Len(recent) < MaxLogs, NEW e \in Entries,
           audit_logs' = [audit_logs EXCEPT ![Len(recent)] = e],
           Len(recent') = Len(recent) + 1,
           \A i \in 1..Len(recent) : recent'[i] = recent[i],
           recent'[Len(recent) + 1] = e
    PROVE  InOrder'
<1> SUFFICES ASSUME NEW i \in 1..(Len(recent) + 1)
             PROVE  audit_logs'[i - 1] = recent'[i]
  BY DEF InOrder
<1>1. Len(recent) \in Nat /\ Len(recent) \in Slots /\ i - 1 \in Slots
  BY AuditLogAssumption DEF Types, Slots
<1>2. CASE i = Len(recent) + 1
  BY <1>1, <1>2 DEF Types
<1>3. CASE i # Len(recent) + 1
  <2>1. i \in 1..Len(recent) /\ i - 1 # Len(recent)
    BY <1>1, <1>3
  <2>2. audit_logs'[i - 1] = audit_logs[i - 1]
    BY <1>1, <2>1 DEF Types
  <2> QED
    BY <2>1, <2>2 DEF InOrder
<1> QED
  BY <1>2, <1>3

LEMMA InvInit == Init => IInv
BY AuditLogAssumption
   DEF Init, IInv, Types, AtEach, InOrder, PCs, Slots, Entries

\* server_tick's entry, between two calls of the shell.
LEMMA TickStep ==
    ASSUME IInv, ServerTick, pc = "idle"
    PROVE  IInv'
<1> USE AuditLogAssumption
<1>1. /\ audit_count = Len(recent) /\ InOrder /\ Remember(RequestText)
      /\ UNCHANGED <<pc, text, loaded, shift>>
  BY DEF IInv, AtEach, ServerTick, shellLocals
<1>2. RequestText \in Entries
  BY DEF Entries
<1>3. CASE audit_count < MaxLogs
  <2>1. /\ audit_logs' = [audit_logs EXCEPT ![audit_count] = RequestText]
        /\ audit_count' = audit_count + 1
    BY <1>3 DEF ServerTick
  <2>2. /\ recent' \in Seq(Entries) /\ Len(recent') = Len(recent) + 1
        /\ \A i \in 1..Len(recent) : recent'[i] = recent[i]
        /\ recent'[Len(recent) + 1] = RequestText
    BY <1>1, <1>2, <1>3, RememberKeeps DEF IInv
  <2>3. Types'
    BY <1>1, <1>2, <1>3, <2>1, <2>2 DEF IInv, Types, Slots
  <2>4. InOrder'
    BY <1>1, <1>2, <1>3, <2>1, <2>2, BehindTheLast DEF IInv
  <2> QED
    BY <1>1, <2>1, <2>2, <2>3, <2>4 DEF IInv, AtEach
<1>4. CASE audit_count = MaxLogs
  <2>1. audit_logs' = [ShiftedLogs EXCEPT ![MaxLogs - 1] = RequestText]
        /\ UNCHANGED audit_count
    BY <1>4 DEF ServerTick
  <2>2. /\ recent' \in Seq(Entries) /\ Len(recent') = MaxLogs
        /\ \A i \in 1..(MaxLogs - 1) : recent'[i] = recent[i + 1]
        /\ recent'[MaxLogs] = RequestText
    BY <1>1, <1>2, <1>4, RememberKeeps DEF IInv
  <2>3. /\ audit_logs' \in [Slots -> Entries \cup {Blank}]
        /\ \A i \in 0..(MaxLogs - 2) : audit_logs'[i] = audit_logs[i + 1]
        /\ audit_logs'[MaxLogs - 1] = RequestText
    BY <1>2, <2>1 DEF ShiftedLogs, IInv, Types, Slots
  <2>4. Types'
    BY <1>1, <1>4, <2>1, <2>2, <2>3 DEF IInv, Types
  <2>5. InOrder'
    BY <1>1, <1>4, <2>2, <2>3 DEF IInv, Types, InOrder
  <2> QED
    BY <1>1, <1>4, <2>1, <2>2, <2>4, <2>5 DEF IInv, AtEach
<1> QED
  BY <1>3, <1>4 DEF IInv, Types

\* The call, the test and the two reads of audit_count.
LEMMA CountStep ==
    ASSUME IInv, (\E t \in Texts : Call(t)) \/ Test \/ Load \/ Store
    PROVE  IInv'
<1> USE AuditLogAssumption
<1>1. CASE \E t \in Texts : Call(t)
  BY <1>1 DEF Call, IInv, Types, AtEach, InOrder, PCs
<1>2. CASE Test
  <2>1. Types'
    BY <1>2 DEF Test, IInv, Types, PCs
  <2>2. AtEach'
    BY <1>2 DEF Test, IInv, Types, AtEach, InOrder, MovedUpTo
  <2> QED
    BY <2>1, <2>2 DEF IInv
<1>3. CASE Load
  BY <1>3 DEF Load, IInv, Types, AtEach, InOrder, PCs
<1>4. CASE Store
  BY <1>4 DEF Store, IInv, Types, AtEach, InOrder, PCs
<1> QED
  BY <1>1, <1>2, <1>3, <1>4

\* One turn of the loop that moves the entries, and its end.
LEMMA ShiftStep ==
    ASSUME IInv, Shift
    PROVE  IInv'
<1> USE AuditLogAssumption
<1>1. /\ audit_count = MaxLogs /\ Len(recent) = MaxLogs /\ MovedUpTo(shift - 1)
      /\ UNCHANGED <<audit_count, text, recent>>
  BY DEF IInv, AtEach, Shift
<1>2. CASE shift < MaxLogs
  <2>1. /\ audit_logs' = [audit_logs EXCEPT ![shift - 1] = audit_logs[shift]]
        /\ shift' = shift + 1 /\ pc = "shift" /\ UNCHANGED <<pc, loaded>>
    BY <1>2 DEF Shift
  <2>2. Types'
    BY <1>1, <1>2, <2>1 DEF IInv, Types, Slots
  <2>3. MovedUpTo(shift - 1)'
    BY <1>1, <1>2, <2>1 DEF IInv, Types, MovedUpTo, Slots
  <2> QED
    BY <1>1, <2>1, <2>2, <2>3 DEF IInv, AtEach
<1>3. CASE shift = MaxLogs
  BY <1>1, <1>3 DEF Shift, IInv, Types, AtEach, MovedUpTo, PCs
<1> QED
  BY <1>2, <1>3 DEF IInv, Types

\* The copy into the slot that was found or made free.
LEMMA CopyStep ==
    ASSUME IInv, Copy
    PROVE  IInv'
<1> USE AuditLogAssumption
<1>1. /\ pc = "copy" /\ pc' = "idle" /\ Remember(text)
      /\ audit_logs' = [audit_logs EXCEPT ![loaded] = text]
      /\ UNCHANGED <<audit_count, text, loaded, shift>>
  BY DEF Copy
<1>2. text \in Entries
  BY DEF IInv, Types, Entries
<1>3. CASE Len(recent) < MaxLogs
  <2>1. audit_count = Len(recent) + 1 /\ loaded = Len(recent) /\ InOrder
    BY <1>1, <1>3 DEF IInv, AtEach
  <2>2. /\ recent' \in Seq(Entries) /\ Len(recent') = Len(recent) + 1
        /\ \A i \in 1..Len(recent) : recent'[i] = recent[i]
        /\ recent'[Len(recent) + 1] = text
    BY <1>1, <1>2, <1>3, RememberKeeps DEF IInv
  <2>3. Types'
    BY <1>1, <1>2, <1>3, <2>1, <2>2 DEF IInv, Types, Slots, PCs
  <2>4. InOrder'
    BY <1>1, <1>2, <1>3, <2>1, <2>2, BehindTheLast DEF IInv
  <2> QED
    BY <1>1, <2>1, <2>2, <2>3, <2>4 DEF IInv, AtEach
<1>4. CASE Len(recent) = MaxLogs
  <2>1. audit_count = MaxLogs /\ loaded = MaxLogs - 1 /\ MovedUpTo(MaxLogs - 1)
    BY <1>1, <1>4 DEF IInv, AtEach
  <2>2. /\ recent' \in Seq(Entries) /\ Len(recent') = MaxLogs
        /\ \A i \in 1..(MaxLogs - 1) : recent'[i] = recent[i + 1]
        /\ recent'[MaxLogs] = text
    BY <1>1, <1>2, <1>4, RememberKeeps DEF IInv
  <2>3. Types'
    BY <1>1, <1>2, <1>4, <2>1, <2>2 DEF IInv, Types, Slots, PCs
  <2>4. InOrder'
    <3>1. /\ audit_logs'[MaxLogs - 1] = text
          /\ \A i \in 0..(MaxLogs - 2) : audit_logs'[i] = audit_logs[i]
      BY <1>1, <2>1 DEF IInv, Types, Slots
    <3>2. \A i \in 0..(MaxLogs - 2) : audit_logs[i] = recent[i + 2]
      BY <2>1 DEF MovedUpTo
    <3> QED
      BY <2>2, <3>1, <3>2 DEF InOrder
  <2> QED
    BY <1>1, <1>4, <2>1, <2>2, <2>3, <2>4 DEF IInv, AtEach
<1> QED
  BY <1>3, <1>4 DEF IInv, Types

LEMMA InvStep == ~Interruptible /\ IInv /\ [Next]_vars => IInv'
<1> SUFFICES ASSUME ~Interruptible, IInv, [Next]_vars PROVE IInv'
  OBVIOUS
<1>1. CASE ServerTick
  BY <1>1, TickStep DEF ServerTick
<1>2. CASE (\E t \in Texts : Call(t)) \/ Test \/ Load \/ Store
  BY <1>2, CountStep
<1>3. CASE Shift
  BY <1>3, ShiftStep
<1>4. CASE Copy
  BY <1>4, CopyStep
<1>5. CASE UNCHANGED vars
  BY <1>5 DEF vars, shellLocals, IInv, Types, AtEach, InOrder, MovedUpTo
<1> QED
  BY <1>1, <1>2, <1>3, <1>4, <1>5 DEF Next, AddAuditLog

\* If IRQ0 does not come inside add_audit_log, the log shows the last MaxLogs
\* texts, oldest first, whenever no call is under way.
THEOREM LogInOrder == ASSUME ~Interruptible PROVE Spec => []LogIsRecent
<1>1. IInv /\ [Next]_vars => IInv'
  BY InvStep
<1>2. IInv => LogIsRecent
  BY DEF IInv, AtEach, InOrder, LogIsRecent
<1> QED
  BY InvInit, <1>1, <1>2, PTL DEF Spec

(***************************************************************************)
(* What a listing shows of some entries                                    *)
(***************************************************************************)

\* A set of naturals that starts at 0 and never ends holds them all.
LEMMA Counting ==
    ASSUME NEW T, 0 \in T, \A n \in Nat : n \in T => n + 1 \in T
    PROVE  \A n \in Nat : n \in T
<1> SUFFICES ASSUME Nat \ T # {} PROVE FALSE
  OBVIOUS
<1> DEFINE R == {ss \in Nat \X Nat : ss[1] < ss[2]}
<1>1. IsWellFoundedOn(R, Nat)
  BY NatLessThanWellFounded DEF OpToRel
<1>2. \A x, y \in Nat : y < x => <<y, x>> \in R
  OBVIOUS
<1> HIDE DEF R
<1>3. PICK n \in Nat \ T : \A m \in Nat \ T : ~(<<m, n>> \in R)
  BY <1>1, WFMin
<1>4. n - 1 \in Nat /\ n - 1 < n
  BY <1>3
<1>5. n - 1 \in T
  BY <1>2, <1>3, <1>4
<1> QED
  BY <1>3, <1>4, <1>5

\* The function Shown is defined by.
RowsUpTo(rows, command, entries, n) ==
    rows = [k \in 0..n |->
               IF k = 0 THEN <<>>
               ELSE IF Shows(command, entries[k]) THEN Append(rows[k - 1], entries[k])
               ELSE rows[k - 1]]

\* There is one, row by row.
LEMMA RowsExist ==
    ASSUME NEW command, NEW entries, NEW n \in Nat
    PROVE  \E rows : RowsUpTo(rows, command, entries, n)
<1> DEFINE T == {m \in Nat : \E rows : RowsUpTo(rows, command, entries, m)}
<1>1. 0 \in T
  <2> DEFINE g == [k \in 0..0 |-> <<>>]
  <2>1. RowsUpTo(g, command, entries, 0)
    BY DEF RowsUpTo
  <2> QED
    BY <2>1
<1>2. ASSUME NEW m \in Nat, m \in T PROVE m + 1 \in T
  <2>1. PICK g : RowsUpTo(g, command, entries, m)
    BY <1>2
  <2> DEFINE Step(f, k) == IF k = 0 THEN <<>>
                           ELSE IF Shows(command, entries[k]) THEN Append(f[k - 1], entries[k])
                           ELSE f[k - 1]
             h == [k \in 0..(m + 1) |-> Step(g, k)]
             h2 == [k \in 0..(m + 1) |-> Step(h, k)]
  <2>2. ASSUME NEW k \in 0..m PROVE g[k] = h[k]
    <3>1. k \in 0..(m + 1)
      OBVIOUS
    <3>2. g[k] = Step(g, k)
      BY <2>1, Zenon DEF RowsUpTo
    <3>3. h[k] = Step(g, k)
      BY <3>1, Zenon
    <3> QED
      BY <3>2, <3>3, Zenon
  <2>3. ASSUME NEW k \in 0..(m + 1) PROVE h[k] = h2[k]
    <3>1. k # 0 => k - 1 \in 0..m
      OBVIOUS
    <3>2. k # 0 => g[k - 1] = h[k - 1]
      BY <2>2, <3>1, Zenon
    <3>3. h[k] = Step(g, k) /\ h2[k] = Step(h, k)
      BY Zenon
    <3>4. Step(g, k) = Step(h, k)
      <4> HIDE DEF h
      <4> QED
        BY <3>2, Zenon
    <3> QED
      BY <3>3, <3>4, Zenon
  <2>4. h = h2
    BY <2>3, Zenon
  <2>5. RowsUpTo(h, command, entries, m + 1)
    <3> HIDE DEF h
    <3> QED
      BY <2>4, Zenon DEF RowsUpTo
  <2> HIDE DEF h
  <2> QED
    BY <2>5
<1>3. n \in T
  <2> HIDE DEF T
  <2> QED
    BY <1>1, <1>2, Counting
<1> QED
  BY <1>3

\* Rows of the same first entries are the same.
LEMMA RowsAgree ==
    ASSUME NEW command, NEW e1, NEW e2, NEW n1 \in Nat, NEW n2 \in Nat,
           NEW f, RowsUpTo(f, command, e1, n1), NEW g, RowsUpTo(g, command, e2, n2),
           NEW n \in Nat, n <= n1, n <= n2, \A k \in 1..n : e1[k] = e2[k]
    PROVE  f[n] = g[n]
<1> DEFINE T == {m \in Nat : m <= n => f[m] = g[m]}
<1>0. ASSUME NEW m \in 0..n
      PROVE  /\ f[m] = IF m = 0 THEN <<>>
                       ELSE IF Shows(command, e1[m]) THEN Append(f[m - 1], e1[m]) ELSE f[m - 1]
             /\ g[m] = IF m = 0 THEN <<>>
                       ELSE IF Shows(command, e2[m]) THEN Append(g[m - 1], e2[m]) ELSE g[m - 1]
  <2>1. m \in 0..n1 /\ m \in 0..n2
    OBVIOUS
  <2> QED
    BY <2>1, Zenon DEF RowsUpTo
<1>1. 0 \in T
  <2>1. 0 \in 0..n
    OBVIOUS
  <2>2. f[0] = g[0]
    BY <1>0, <2>1
  <2> QED
    BY <2>2
<1>2. ASSUME NEW m \in Nat, m \in T PROVE m + 1 \in T
  <2>1. SUFFICES ASSUME m + 1 <= n PROVE f[m + 1] = g[m + 1]
    OBVIOUS
  <2>2. m + 1 \in 0..n /\ m + 1 \in 1..n /\ m + 1 # 0 /\ (m + 1) - 1 = m /\ f[m] = g[m]
    BY <1>2, <2>1
  <2>3. e1[m + 1] = e2[m + 1]
    BY <2>2
  <2> QED
    BY <1>0, <2>2, <2>3, Zenon
<1>3. n \in T
  <2> HIDE DEF T
  <2> QED
    BY <1>1, <1>2, Counting
<1> QED
  BY <1>3

\* Shown is the value of such a function.
LEMMA ShownIsRows ==
    ASSUME NEW command, NEW entries, NEW n \in Nat
    PROVE  \E rows : RowsUpTo(rows, command, entries, n) /\ Shown(command, entries, n) = rows[n]
<1> DEFINE h == CHOOSE rows : RowsUpTo(rows, command, entries, n)
<1>1. RowsUpTo(h, command, entries, n)
  BY RowsExist, Zenon
<1>2. Shown(command, entries, n) = h[n]
  BY Zenon DEF Shown, RowsUpTo
<1> QED
  BY <1>1, <1>2

\* What a command shows of the first entries depends on these alone.
LEMMA ShownAgree ==
    ASSUME NEW command, NEW e1, NEW e2, NEW n \in Nat, \A k \in 1..n : e1[k] = e2[k]
    PROVE  Shown(command, e1, n) = Shown(command, e2, n)
<1>1. PICK f : RowsUpTo(f, command, e1, n) /\ Shown(command, e1, n) = f[n]
  BY ShownIsRows
<1>2. PICK g : RowsUpTo(g, command, e2, n) /\ Shown(command, e2, n) = g[n]
  BY ShownIsRows
<1> QED
  BY <1>1, <1>2, RowsAgree

\* One entry more is one row more, or none.
LEMMA ShownSteps ==
    ASSUME NEW command, NEW entries
    PROVE  /\ Shown(command, entries, 0) = <<>>
           /\ \A n \in Nat : Shown(command, entries, n + 1) =
                  IF Shows(command, entries[n + 1])
                  THEN Append(Shown(command, entries, n), entries[n + 1])
                  ELSE Shown(command, entries, n)
<1>1. Shown(command, entries, 0) = <<>>
  <2>1. PICK f : RowsUpTo(f, command, entries, 0) /\ Shown(command, entries, 0) = f[0]
    BY ShownIsRows
  <2>2. 0 \in 0..0
    OBVIOUS
  <2> QED
    BY <2>1, <2>2, Zenon DEF RowsUpTo
<1>2. ASSUME NEW n \in Nat
      PROVE  Shown(command, entries, n + 1) =
                  IF Shows(command, entries[n + 1])
                  THEN Append(Shown(command, entries, n), entries[n + 1])
                  ELSE Shown(command, entries, n)
  <2>1. n + 1 \in Nat /\ n + 1 # 0 /\ n + 1 \in 0..(n + 1) /\ (n + 1) - 1 = n /\ n <= n /\ n <= n + 1
    OBVIOUS
  <2>2. PICK f : RowsUpTo(f, command, entries, n) /\ Shown(command, entries, n) = f[n]
    BY ShownIsRows
  <2>3. PICK g : RowsUpTo(g, command, entries, n + 1) /\ Shown(command, entries, n + 1) = g[n + 1]
    BY <2>1, ShownIsRows
  <2>4. f[n] = g[n]
    BY <2>1, <2>2, <2>3, RowsAgree
  <2>5. g[n + 1] = IF Shows(command, entries[n + 1]) THEN Append(g[n], entries[n + 1]) ELSE g[n]
    BY <2>1, <2>3, Zenon DEF RowsUpTo
  <2> QED
    BY <2>2, <2>3, <2>4, <2>5, Zenon
<1> QED
  BY <1>1, <1>2

(***************************************************************************)
(* How far a listing has come                                              *)
(***************************************************************************)

\* The entries from the m-th after k on are the log's from the loop's row on.
Ahead(entries, k, m) ==
    \A i \in m..(Len(entries) - k) : entries[k + i] = recent[row + i]

\* Where a listing is: k entries are past.  The heads are those of one reachable
\* list of entries and the tails those of another, of the same length: between
\* the head and the tail of a row the log may have moved.
Course(E, F, k) ==
    /\ k <= Len(E) /\ Len(E) - k = Len(recent) - row
    /\ Heads = Shown(listing, E, k)
    /\ head = NotReading => Ahead(E, k, 1)
    /\ head # NotReading => /\ k < Len(E) /\ head = E[k + 1] /\ Shows(listing, head)
                            /\ Ahead(E, k, 2)
    /\ listing = "audit" => /\ Len(F) = Len(E) /\ Tails = SubSeq(F, 1, k)
                            /\ Ahead(F, k, 1)

\* What a listing keeps in its locals; only a running one is inside a row.
ReaderTypes ==
    /\ listing \in {"none", "audit", "apache"}
    /\ row \in Nat
    /\ head \in Entries \cup {NotReading}
    /\ listing = "none" => head = NotReading
    /\ printed \in Seq(Entries \X Entries)
    /\ before \in Seq(Entries)
    /\ logged \in BOOLEAN

\* A running listing is somewhere on such a course, and no call is under way.
Reading ==
    listing # "none" =>
        /\ pc = "idle"
        /\ \E E, F \in Reachable, k \in Nat : Course(E, F, k)

\* The inductive invariant of the log and its readers.
LInv == IInv /\ ReaderTypes /\ Reading

\* The entries with the tick's behind, but for one.
LEMMA PassedOver ==
    ASSUME NEW entries \in Seq(Entries), NEW i \in 1..Len(entries), NEW moved,
           moved = Append(RemoveAt(entries, i), RequestText)
    PROVE  /\ moved \in Seq(Entries) /\ Len(moved) = Len(entries)
           /\ \A j \in 1..(i - 1) : moved[j] = entries[j]
           /\ \A j \in i..(Len(entries) - 1) : moved[j] = entries[j + 1]
           /\ moved[Len(entries)] = RequestText
<1> DEFINE left == SubSeq(entries, 1, i - 1)
           right == SubSeq(entries, i + 1, Len(entries))
           n == Len(entries)
<1>0. n \in Nat /\ i \in 1..n /\ i - 1 \in 0..n /\ \A j \in 1..n : entries[j] \in Entries
  OBVIOUS
<1>1. /\ left \in Seq(Entries) /\ Len(left) = i - 1
      /\ \A j \in 1..(i - 1) : left[j] = entries[j]
  BY <1>0
<1>2. /\ right \in Seq(Entries) /\ Len(right) = n - i
      /\ \A j \in 1..(n - i) : right[j] = entries[j + i]
  BY <1>0
<1>3. moved = Append(left \o right, RequestText)
  BY Zenon DEF RemoveAt
<1> HIDE DEF left, right, n
<1>4. /\ left \o right \in Seq(Entries) /\ Len(left \o right) = n - 1
      /\ \A j \in 1..(i - 1) : (left \o right)[j] = entries[j]
      /\ \A j \in i..(n - 1) : (left \o right)[j] = entries[j + 1]
  <2>1. left \o right \in Seq(Entries) /\ Len(left \o right) = n - 1
    <3>1. left \o right \in Seq(Entries) /\ Len(left \o right) = Len(left) + Len(right)
      BY <1>1, <1>2, ConcatProperties
    <3> QED
      BY <1>0, <1>1, <1>2, <3>1
  <2>2. ASSUME NEW j \in 1..(i - 1) PROVE (left \o right)[j] = entries[j]
    <3>1. j \in 1..(Len(left) + Len(right)) /\ j <= Len(left)
      <4>1. Len(left) = i - 1 /\ Len(right) \in Nat
        BY <1>0, <1>1, <1>2
      <4> QED
        BY <1>0, <4>1
    <3>2. (left \o right)[j] = left[j]
      BY <1>1, <1>2, <3>1, ConcatProperties
    <3> QED
      BY <1>1, <3>2
  <2>3. ASSUME NEW j \in i..(n - 1) PROVE (left \o right)[j] = entries[j + 1]
    <3>1. j - (i - 1) \in 1..(n - i) /\ j - (i - 1) + i = j + 1
      BY <1>0
    <3>2. j \in 1..(Len(left) + Len(right)) /\ ~(j <= Len(left))
      BY <1>0, <1>1, <1>2
    <3>3. (left \o right)[j] = right[j - Len(left)]
      BY <1>1, <1>2, <3>2, ConcatProperties
    <3> QED
      BY <1>1, <1>2, <3>1, <3>3
  <2> QED
    BY <2>1, <2>2, <2>3
<1>5. /\ moved \in Seq(Entries) /\ Len(moved) = n
      /\ \A j \in 1..(n - 1) : moved[j] = (left \o right)[j]
      /\ moved[n] = RequestText
  BY <1>0, <1>3, <1>4 DEF Entries
<1>6. n = Len(entries)
  BY DEF n
<1>7. ASSUME NEW j \in 1..(i - 1) PROVE moved[j] = entries[j]
  <2>1. j \in 1..(n - 1)
    BY <1>0
  <2> QED
    BY <1>4, <1>5, <2>1
<1>8. ASSUME NEW j \in i..(n - 1) PROVE moved[j] = entries[j + 1]
  <2>1. j \in 1..(n - 1)
    BY <1>0
  <2> QED
    BY <1>4, <1>5, <2>1
<1> QED
  BY <1>5, <1>6, <1>7, <1>8

\* Reachable entries are entries.
LEMMA ReachableTypes ==
    ASSUME ReaderTypes
    PROVE  Reachable \subseteq Seq(Entries)
<1>1. RequestText \in Entries
  BY DEF Entries
<1>2. ASSUME NEW i \in DOMAIN before PROVE Append(RemoveAt(before, i), RequestText) \in Seq(Entries)
  <2>1. i \in 1..Len(before)
    BY DEF ReaderTypes
  <2> QED
    BY <1>1, <2>1, PassedOver DEF ReaderTypes
<1>3. before \in Seq(Entries) /\ Append(before, RequestText) \in Seq(Entries)
  BY <1>1 DEF ReaderTypes
<1>4. ASSUME NEW E \in Reachable PROVE E \in Seq(Entries)
  <2>1. \/ E = before \/ E = Append(before, RequestText)
        \/ \E i \in DOMAIN before : E = Append(RemoveAt(before, i), RequestText)
    BY Zenon DEF Reachable
  <2> QED
    BY <1>2, <1>3, <2>1, Zenon
<1> QED
  BY <1>4

\* One row more on the screen.
LEMMA RowAdded ==
    ASSUME ReaderTypes, NEW h \in Entries, NEW t \in Entries, printed' = Append(printed, <<h, t>>)
    PROVE  /\ printed' \in Seq(Entries \X Entries)
           /\ Heads' = Append(Heads, h) /\ Tails' = Append(Tails, t)
<1>1. printed \in Seq(Entries \X Entries)
  BY DEF ReaderTypes
<1>2. /\ printed' \in Seq(Entries \X Entries) /\ Len(printed') = Len(printed) + 1
      /\ \A k \in 1..Len(printed) : printed'[k] = printed[k]
      /\ printed'[Len(printed) + 1] = <<h, t>>
  BY <1>1
<1>3. /\ Heads \in Seq(Entries) /\ Len(Heads) = Len(printed)
      /\ \A k \in 1..Len(printed) : Heads[k] = printed[k][1]
  BY <1>1 DEF Heads
<1>4. /\ Tails \in Seq(Entries) /\ Len(Tails) = Len(printed)
      /\ \A k \in 1..Len(printed) : Tails[k] = printed[k][2]
  BY <1>1 DEF Tails
<1>5. /\ Heads' \in Seq(Entries) /\ Len(Heads') = Len(printed')
      /\ \A k \in 1..Len(printed') : Heads'[k] = printed'[k][1]
  BY <1>2 DEF Heads
<1>6. /\ Tails' \in Seq(Entries) /\ Len(Tails') = Len(printed')
      /\ \A k \in 1..Len(printed') : Tails'[k] = printed'[k][2]
  BY <1>2 DEF Tails
<1>7. Heads' = Append(Heads, h)
  <2> DEFINE all == Append(Heads, h)
  <2>1. /\ all \in Seq(Entries) /\ Len(all) = Len(printed) + 1
        /\ \A k \in 1..Len(printed) : all[k] = Heads[k]
        /\ all[Len(printed) + 1] = h
    BY <1>3
  <2> HIDE DEF all
  <2>2. ASSUME NEW k \in 1..(Len(printed) + 1) PROVE Heads'[k] = all[k]
    <3>1. CASE k = Len(printed) + 1
      BY <1>2, <1>5, <2>1, <3>1
    <3>2. CASE k # Len(printed) + 1
      <4>1. k \in 1..Len(printed)
        BY <1>1, <3>2
      <4> QED
        BY <1>2, <1>3, <1>5, <2>1, <4>1
    <3> QED
      BY <3>1, <3>2
  <2>3. Heads' = all
    BY <1>2, <1>5, <2>1, <2>2, SeqEqual
  <2> QED
    BY <2>3 DEF all
<1>8. Tails' = Append(Tails, t)
  <2> DEFINE all == Append(Tails, t)
  <2>1. /\ all \in Seq(Entries) /\ Len(all) = Len(printed) + 1
        /\ \A k \in 1..Len(printed) : all[k] = Tails[k]
        /\ all[Len(printed) + 1] = t
    BY <1>4
  <2> HIDE DEF all
  <2>2. ASSUME NEW k \in 1..(Len(printed) + 1) PROVE Tails'[k] = all[k]
    <3>1. CASE k = Len(printed) + 1
      BY <1>2, <1>6, <2>1, <3>1
    <3>2. CASE k # Len(printed) + 1
      <4>1. k \in 1..Len(printed)
        BY <1>1, <3>2
      <4> QED
        BY <1>2, <1>4, <1>6, <2>1, <4>1
    <3> QED
      BY <3>1, <3>2
  <2>3. Tails' = all
    BY <1>2, <1>6, <2>1, <2>2, SeqEqual
  <2> QED
    BY <2>3 DEF all
<1> QED
  BY <1>2, <1>7, <1>8

(***************************************************************************)
(* The steps of a listing                                                  *)
(***************************************************************************)

\* Between calls the loop's row is an entry of the history.
LEMMA RowIsEntry ==
    ASSUME IInv, pc = "idle", row \in Nat, row < audit_count
    PROVE  /\ audit_count = Len(recent) /\ row + 1 \in 1..Len(recent)
           /\ audit_logs[row] = recent[row + 1] /\ recent[row + 1] \in Entries
<1>1. audit_count = Len(recent) /\ InOrder /\ recent \in Seq(Entries)
  BY DEF IInv, Types, AtEach
<1>2. row + 1 \in 1..Len(recent) /\ (row + 1) - 1 = row
  BY <1>1
<1>3. audit_logs[(row + 1) - 1] = recent[row + 1]
  BY <1>1, <1>2 DEF InOrder
<1> QED
  BY <1>1, <1>2, <1>3

\* A command starts with none of its entries past.
LEMMA StartReads ==
    ASSUME LInv, NEW command \in {"audit", "apache"}, NEW first \in Nat,
           NEW entries \in Seq(Entries), Start(command, first, entries),
           Len(entries) = Len(recent) - first,
           \A i \in 1..Len(entries) : entries[i] = recent[first + i]
    PROVE  ReaderTypes' /\ Reading'
<1>1. /\ pc = "idle" /\ pc' = pc /\ recent' = recent
      /\ listing' = command /\ row' = first /\ head' = NotReading
      /\ printed' = <<>> /\ before' = entries /\ logged' = FALSE
  BY DEF Start, vars, shellLocals
<1>2. ReaderTypes'
  <2>1. printed' \in Seq(Entries \X Entries)
    BY <1>1
  <2>2. head' \in Entries \cup {NotReading} /\ logged' \in BOOLEAN
    BY <1>1
  <2>3. listing' \in {"none", "audit", "apache"} /\ row' \in Nat /\ before' \in Seq(Entries)
    BY <1>1
  <2> QED
    BY <1>1, <2>1, <2>2, <2>3 DEF ReaderTypes
<1>3. entries \in Reachable'
  BY <1>1 DEF Reachable
<1>4. Heads' = <<>> /\ Tails' = <<>>
  <2>1. /\ Heads' \in Seq(Entries) /\ Len(Heads') = 0
        /\ Tails' \in Seq(Entries) /\ Len(Tails') = 0
    BY <1>1 DEF Heads, Tails
  <2> QED
    BY <2>1, EmptySeq
<1>5. Shown(command, entries, 0) = <<>>
  BY ShownSteps
<1>6. SubSeq(entries, 1, 0) = <<>>
  OBVIOUS
<1>7. Ahead(entries, 0, 1)'
  BY <1>1 DEF Ahead
<1>8. Course(entries, entries, 0)'
  BY <1>1, <1>4, <1>5, <1>6, <1>7 DEF Course
<1> QED
  BY <1>1, <1>2, <1>3, <1>8 DEF Reading

\* What lies ahead of a row lies ahead of the next, but for one.
LEMMA NextAhead ==
    ASSUME NEW E, Len(E) \in Nat, NEW k \in Nat, row \in Nat, row' = row + 1, recent' = recent,
           Ahead(E, k, 1) \/ Ahead(E, k, 2)
    PROVE  Ahead(E, k + 1, 1)'
<1> SUFFICES ASSUME NEW i \in 1..(Len(E) - (k + 1))
             PROVE  E[(k + 1) + i] = recent[(row + 1) + i]
  BY DEF Ahead
<1>1. /\ i + 1 \in 1..(Len(E) - k) /\ i + 1 \in 2..(Len(E) - k)
      /\ k + (i + 1) = (k + 1) + i /\ row + (i + 1) = (row + 1) + i
  OBVIOUS
<1>2. E[k + (i + 1)] = recent[row + (i + 1)]
  BY <1>1 DEF Ahead
<1> QED
  BY <1>1, <1>2

\* A row of no interest is passed.
LEMMA SkipReads ==
    ASSUME LInv, SkipRow
    PROVE  ReaderTypes' /\ Reading'
<1>1. /\ listing # "none" /\ head = NotReading /\ row < audit_count
      /\ ~Shows(listing, audit_logs[row]) /\ row' = row + 1
      /\ UNCHANGED <<pc, recent, listing, head, printed, before, logged>>
  BY DEF SkipRow, vars, shellLocals
<1>2. ReaderTypes'
  BY <1>1 DEF LInv, ReaderTypes
<1>3. PICK E \in Reachable, F \in Reachable, k \in Nat : Course(E, F, k)
  BY <1>1 DEF LInv, Reading
<1>4. pc = "idle" /\ row \in Nat /\ E \in Seq(Entries) /\ recent \in Seq(Entries)
  BY <1>1, ReachableTypes DEF LInv, Reading, ReaderTypes, IInv, Types
<1>5. /\ audit_count = Len(recent) /\ row + 1 \in 1..Len(recent)
      /\ audit_logs[row] = recent[row + 1]
  BY <1>1, <1>4, RowIsEntry DEF LInv
<1>6. /\ k <= Len(E) /\ Len(E) - k = Len(recent) - row /\ Heads = Shown(listing, E, k)
      /\ Ahead(E, k, 1)
  BY <1>1, <1>3 DEF Course
<1>7. k + 1 <= Len(E) /\ Len(E) - (k + 1) = Len(recent) - (row + 1) /\ 1 \in 1..(Len(E) - k)
  BY <1>4, <1>5, <1>6
<1>8. E[k + 1] = recent[row + 1]
  BY <1>6, <1>7 DEF Ahead
<1>9. Shown(listing, E, k + 1) = Shown(listing, E, k)
  BY <1>1, <1>5, <1>8, ShownSteps
<1>10. Ahead(E, k + 1, 1)'
  BY <1>1, <1>4, <1>6, NextAhead
<1>11. listing # "audit"
  BY <1>1 DEF Shows
<1>12. Heads' = Heads
  BY <1>1 DEF Heads
<1>13. Course(E, F, k + 1)'
  BY <1>1, <1>6, <1>7, <1>9, <1>10, <1>11, <1>12 DEF Course
<1>14. E \in Reachable' /\ F \in Reachable'
  BY <1>1 DEF Reachable
<1> QED
  BY <1>1, <1>2, <1>4, <1>13, <1>14 DEF Reading

\* The first characters of a row.
LEMMA HeadReads ==
    ASSUME LInv, PrintHead
    PROVE  ReaderTypes' /\ Reading'
<1>1. /\ listing # "none" /\ head = NotReading /\ row < audit_count
      /\ Shows(listing, audit_logs[row]) /\ head' = audit_logs[row]
      /\ UNCHANGED <<pc, recent, listing, row, printed, before, logged>>
  BY DEF PrintHead, vars, shellLocals
<1>3. PICK E \in Reachable, F \in Reachable, k \in Nat : Course(E, F, k)
  BY <1>1 DEF LInv, Reading
<1>4. pc = "idle" /\ row \in Nat /\ E \in Seq(Entries) /\ recent \in Seq(Entries)
  BY <1>1, ReachableTypes DEF LInv, Reading, ReaderTypes, IInv, Types
<1>5. /\ audit_count = Len(recent) /\ row + 1 \in 1..Len(recent)
      /\ audit_logs[row] = recent[row + 1] /\ recent[row + 1] \in Entries
  BY <1>1, <1>4, RowIsEntry DEF LInv
<1>2. ReaderTypes'
  BY <1>1, <1>5 DEF LInv, ReaderTypes
<1>6. /\ k <= Len(E) /\ Len(E) - k = Len(recent) - row /\ Heads = Shown(listing, E, k)
      /\ Ahead(E, k, 1)
      /\ listing = "audit" => Len(F) = Len(E) /\ Tails = SubSeq(F, 1, k) /\ Ahead(F, k, 1)
  BY <1>1, <1>3 DEF Course
<1>7. k < Len(E) /\ 1 \in 1..(Len(E) - k)
  BY <1>4, <1>5, <1>6
<1>8. E[k + 1] = recent[row + 1]
  BY <1>6, <1>7 DEF Ahead
<1>9. head' # NotReading
  BY <1>1, <1>5, AuditLogAssumption DEF Entries, NotReading
<1>10. Ahead(E, k, 2)' /\ (Ahead(F, k, 1) => Ahead(F, k, 1)')
  BY <1>1, <1>6 DEF Ahead
<1>11. Heads' = Heads /\ Tails' = Tails
  BY <1>1 DEF Heads, Tails
<1>12. Course(E, F, k)'
  BY <1>1, <1>5, <1>6, <1>7, <1>8, <1>9, <1>10, <1>11 DEF Course
<1>13. E \in Reachable' /\ F \in Reachable'
  BY <1>1 DEF Reachable
<1> QED
  BY <1>1, <1>2, <1>4, <1>12, <1>13 DEF Reading

\* The rest of a row.
LEMMA TailReads ==
    ASSUME LInv, PrintTail
    PROVE  ReaderTypes' /\ Reading'
<1>1. /\ head # NotReading /\ printed' = Append(printed, <<head, audit_logs[row]>>)
      /\ head' = NotReading /\ row' = row + 1
      /\ UNCHANGED <<pc, recent, listing, before, logged>>
  BY DEF PrintTail, vars, shellLocals
<1>2. listing # "none"
  BY <1>1 DEF LInv, ReaderTypes
<1>3. PICK E \in Reachable, F \in Reachable, k \in Nat : Course(E, F, k)
  BY <1>2 DEF LInv, Reading
<1>4. /\ pc = "idle" /\ row \in Nat /\ head \in Entries
      /\ E \in Seq(Entries) /\ F \in Seq(Entries) /\ recent \in Seq(Entries)
  BY <1>1, <1>2, ReachableTypes DEF LInv, Reading, ReaderTypes, IInv, Types
<1>5. /\ k < Len(E) /\ Len(E) - k = Len(recent) - row /\ Heads = Shown(listing, E, k)
      /\ head = E[k + 1] /\ Shows(listing, head) /\ Ahead(E, k, 2)
      /\ listing = "audit" => Len(F) = Len(E) /\ Tails = SubSeq(F, 1, k) /\ Ahead(F, k, 1)
  BY <1>1, <1>3 DEF Course
<1>6. row < audit_count
  <2>1. audit_count = Len(recent)
    BY <1>4 DEF LInv, IInv, AtEach
  <2> QED
    BY <1>4, <1>5, <2>1
<1>7. /\ audit_count = Len(recent) /\ row + 1 \in 1..Len(recent)
      /\ audit_logs[row] = recent[row + 1] /\ recent[row + 1] \in Entries
  BY <1>4, <1>6, RowIsEntry DEF LInv
<1>8. /\ printed' \in Seq(Entries \X Entries)
      /\ Heads' = Append(Heads, head) /\ Tails' = Append(Tails, recent[row + 1])
  BY <1>1, <1>4, <1>7, RowAdded DEF LInv
<1>9. ReaderTypes'
  BY <1>1, <1>4, <1>8 DEF LInv, ReaderTypes
<1>10. Heads' = Shown(listing, E, k + 1)
  BY <1>5, <1>8, ShownSteps
<1>11. Ahead(E, k + 1, 1)'
  BY <1>1, <1>4, <1>5, NextAhead
<1>12. ASSUME listing = "audit"
       PROVE  Len(F) = Len(E) /\ Tails' = SubSeq(F, 1, k + 1) /\ Ahead(F, k + 1, 1)'
  <2>1. Len(F) = Len(E) /\ Tails = SubSeq(F, 1, k) /\ Ahead(F, k, 1)
    BY <1>5, <1>12
  <2>2. Ahead(F, k + 1, 1)'
    BY <1>1, <1>4, <2>1, NextAhead
  <2>3. F[k + 1] = recent[row + 1]
    <3>1. 1 \in 1..(Len(F) - k)
      BY <1>4, <1>5, <2>1
    <3> QED
      BY <2>1, <3>1 DEF Ahead
  <2>4. Append(SubSeq(F, 1, k), F[k + 1]) = SubSeq(F, 1, k + 1)
    BY <1>4, <1>5, <2>1
  <2> QED
    BY <1>8, <2>1, <2>2, <2>3, <2>4
<1>13. k + 1 \in Nat /\ k + 1 <= Len(E) /\ Len(E) - (k + 1) = Len(recent) - (row + 1)
  BY <1>4, <1>5
<1>14. Course(E, F, k + 1)'
  BY <1>1, <1>10, <1>11, <1>12, <1>13 DEF Course
<1>15. E \in Reachable' /\ F \in Reachable'
  BY <1>1 DEF Reachable
<1> QED
  BY <1>1, <1>4, <1>9, <1>13, <1>14, <1>15 DEF Reading

\* The three commands start where their entries do.
LEMMA CommandReads ==
    ASSUME LInv,
           CommandServerAudit \/ CommandApacheLogs \/ \E n \in 0..MaxTail : CommandApacheTail(n)
    PROVE  ReaderTypes' /\ Reading'
<1>1. recent \in Seq(Entries) /\ Len(recent) \in Nat
  BY DEF LInv, IInv, Types
<1>2. ASSUME NEW command \in {"audit", "apache"}, Start(command, 0, recent)
      PROVE  ReaderTypes' /\ Reading'
  BY <1>1, <1>2, StartReads
<1>3. ASSUME NEW n \in 0..MaxTail, CommandApacheTail(n)
      PROVE  ReaderTypes' /\ Reading'
  <2> DEFINE last == IF n = 0 THEN 5 ELSE n
             size == Len(recent)
             from == IF last < size THEN size - last + 1 ELSE 1
  <2>1. Start("apache", TailStart(n), LastEntries(n))
    BY <1>3 DEF CommandApacheTail
  <2>2. audit_count = size
    BY <2>1 DEF Start, LInv, IInv, AtEach
  <2>3. last \in Nat /\ last > 0
    BY AuditListingAssumption
  <2>4. LastEntries(n) = SubSeq(recent, from, size)
    BY DEF LastEntries
  <2>5. TailStart(n) = IF size - last < 0 THEN 0 ELSE size - last
    BY <2>2 DEF TailStart
  <2>6. TailStart(n) = from - 1 /\ from \in 1..(size + 1) /\ from - 1 \in Nat
    BY <1>1, <2>3, <2>5
  <2> HIDE DEF last, from
  <2>7. /\ LastEntries(n) \in Seq(Entries) /\ Len(LastEntries(n)) = size - (from - 1)
        /\ \A i \in 1..Len(LastEntries(n)) : LastEntries(n)[i] = recent[(from - 1) + i]
    BY <1>1, <2>4, <2>6
  <2> QED
    BY <2>1, <2>6, <2>7, StartReads
<1> QED
  BY <1>2, <1>3 DEF CommandServerAudit, CommandApacheLogs

\* What IRQ0 makes of the history when the log is not full, and when it is.
LEMMA TickRemembers ==
    ASSUME IInv, pc = "idle", ServerTick
    PROVE  /\ recent \in Seq(Entries) /\ recent' \in Seq(Entries)
           /\ Len(recent) < MaxLogs =>
                /\ Len(recent') = Len(recent) + 1
                /\ \A i \in 1..Len(recent) : recent'[i] = recent[i]
                /\ recent'[Len(recent) + 1] = RequestText
           /\ Len(recent) >= MaxLogs =>
                /\ Len(recent') = Len(recent)
                /\ \A i \in 1..(Len(recent) - 1) : recent'[i] = recent[i + 1]
                /\ recent'[Len(recent)] = RequestText
<1>1. RequestText \in Entries /\ Remember(RequestText) /\ Types
  BY DEF ServerTick, Entries, IInv
<1>2. /\ Len(recent) \in Nat /\ MaxLogs \in Nat /\ Len(recent) <= MaxLogs
      /\ recent \in Seq(Entries)
  BY <1>1, AuditLogAssumption DEF Types
<1>3. CASE Len(recent) < MaxLogs
  BY <1>1, <1>2, <1>3, RememberKeeps
<1>4. CASE Len(recent) = MaxLogs
  BY <1>1, <1>2, <1>4, RememberKeeps
<1> QED
  BY <1>2, <1>3, <1>4

\* A tick inside a listing: an entry more at its end or, if the log was full,
\* the entry under the loop's row (or, in the middle of a row, the one after it)
\* is passed over.
LEMMA TickReads ==
    ASSUME LInv, TickInListing
    PROVE  ReaderTypes' /\ Reading'
<1>0. PICK b : b = before
  OBVIOUS
<1> DEFINE n == Len(b)
           size == Len(recent)
<1>1. /\ listing # "none" /\ ~logged /\ ServerTick /\ logged' = TRUE
      /\ UNCHANGED <<pc, listing, row, head, printed, before>>
  BY DEF TickInListing, ServerTick, shellLocals
<1>2. ReaderTypes'
  BY <1>1 DEF LInv, ReaderTypes
<1>3. PICK k \in Nat : Course(b, b, k)
  BY <1>0, <1>1 DEF LInv, Reading, Reachable
<1>4. /\ pc = "idle" /\ row \in Nat /\ b \in Seq(Entries) /\ n \in Nat
      /\ RequestText \in Entries
  BY <1>0, <1>1 DEF LInv, Reading, ReaderTypes, Entries
<1>5. /\ k <= n /\ n - k = size - row /\ Heads = Shown(listing, b, k)
      /\ head = NotReading => Ahead(b, k, 1)
      /\ head # NotReading => /\ k < n /\ head = b[k + 1] /\ Shows(listing, head)
                              /\ Ahead(b, k, 2)
      /\ listing = "audit" => Tails = SubSeq(b, 1, k) /\ Ahead(b, k, 1)
  BY <1>3 DEF Course
<1>6. /\ recent \in Seq(Entries) /\ recent' \in Seq(Entries) /\ size \in Nat
      /\ size < MaxLogs =>
           /\ Len(recent') = size + 1
           /\ \A i \in 1..size : recent'[i] = recent[i]
           /\ recent'[size + 1] = RequestText
      /\ size >= MaxLogs =>
           /\ Len(recent') = size
           /\ \A i \in 1..(size - 1) : recent'[i] = recent[i + 1]
           /\ recent'[size] = RequestText
  BY <1>1, <1>4, TickRemembers DEF LInv
<1>7. Heads' = Heads /\ Tails' = Tails
  BY <1>1 DEF Heads, Tails
<1>8. /\ b \in Reachable' /\ Append(b, RequestText) \in Reachable'
      /\ \A i \in 1..n : Append(RemoveAt(b, i), RequestText) \in Reachable'
  <2>1. DOMAIN b = 1..n
    BY <1>4
  <2>2. Reachable' = {b} \cup
                     ({Append(b, RequestText)} \cup
                      {Append(RemoveAt(b, i), RequestText) : i \in DOMAIN b})
    BY <1>0, <1>1 DEF Reachable
  <2> QED
    BY <2>1, <2>2, Zenon
<1> HIDE DEF n, size
\* E and F share the entries past with before; what follows is up to them.
<1>9. ASSUME NEW E \in Seq(Entries), NEW F \in Seq(Entries),
             E \in Reachable', F \in Reachable',
             k <= Len(E), Len(E) - k = Len(recent') - row,
             \A i \in 1..k : E[i] = b[i],
             head = NotReading => Ahead(E, k, 1)',
             head # NotReading => k < Len(E) /\ E[k + 1] = b[k + 1] /\ Ahead(E, k, 2)',
             Len(F) = Len(E), \A i \in 1..k : F[i] = b[i],
             listing = "audit" => Ahead(F, k, 1)'
      PROVE  Reading'
  <2>1. Shown(listing, E, k) = Shown(listing, b, k)
    BY <1>9, ShownAgree
  <2>2. SubSeq(F, 1, k) = SubSeq(b, 1, k)
    <3>1. /\ SubSeq(F, 1, k) \in Seq(Entries) /\ Len(SubSeq(F, 1, k)) = k
          /\ \A i \in 1..k : SubSeq(F, 1, k)[i] = F[i]
      BY <1>9
    <3>2. /\ SubSeq(b, 1, k) \in Seq(Entries) /\ Len(SubSeq(b, 1, k)) = k
          /\ \A i \in 1..k : SubSeq(b, 1, k)[i] = b[i]
      BY <1>4, <1>5 DEF n
    <3> QED
      BY <1>9, <3>1, <3>2, SeqEqual
  <2>3. Course(E, F, k)'
    BY <1>1, <1>5, <1>7, <1>9, <2>1, <2>2 DEF Course
  <2> QED
    BY <1>1, <1>4, <1>9, <2>3 DEF Reading
<1>10. CASE size < MaxLogs
  <2>0. PICK E : E = Append(b, RequestText)
    OBVIOUS
  <2>1. /\ E \in Seq(Entries) /\ Len(E) = n + 1
        /\ \A i \in 1..n : E[i] = b[i]
        /\ E[n + 1] = RequestText
    BY <1>4, <2>0 DEF n
  <2>2. E \in Reachable'
    BY <1>8, <2>0
  <2>3. ASSUME NEW m \in {1, 2}, Ahead(b, k, m) PROVE Ahead(E, k, m)'
    <3> SUFFICES ASSUME NEW i \in m..(Len(E) - k) PROVE E[k + i] = recent'[row + i]
      BY <1>1 DEF Ahead
    <3>1. CASE i = n + 1 - k
      <4>1. k + i = n + 1 /\ row + i = size + 1
        BY <1>4, <1>5, <1>6, <3>1
      <4> QED
        BY <1>6, <1>10, <2>1, <4>1
    <3>2. CASE i # n + 1 - k
      <4>1. i \in m..(n - k) /\ k + i \in 1..n /\ row + i \in 1..size
        BY <1>4, <1>5, <1>6, <2>1, <3>2
      <4>2. b[k + i] = recent[row + i]
        BY <2>3, <4>1 DEF Ahead, n
      <4> QED
        BY <1>6, <1>10, <2>1, <4>1, <4>2
    <3> QED
      BY <3>1, <3>2
  <2>4. k <= Len(E) /\ Len(E) - k = Len(recent') - row /\ \A i \in 1..k : i \in 1..n
    BY <1>4, <1>5, <1>6, <1>10, <2>1
  <2>5. k < n => k < Len(E) /\ E[k + 1] = b[k + 1]
    BY <1>4, <2>1
  <2>6. Reading'
    BY <1>5, <1>9, <2>1, <2>2, <2>3, <2>4, <2>5
  <2> QED
    BY <1>2, <2>6
<1>11. CASE size >= MaxLogs
  <2>0. /\ Len(recent') = size
        /\ \A i \in 1..(size - 1) : recent'[i] = recent[i + 1]
        /\ recent'[size] = RequestText
    BY <1>6, <1>11
  <2>1. ASSUME NEW d \in 1..n, NEW E, E = Append(RemoveAt(b, d), RequestText)
        PROVE  /\ E \in Seq(Entries) /\ Len(E) = n /\ E \in Reachable'
               /\ \A i \in 1..(d - 1) : E[i] = b[i]
               /\ \A i \in d..(n - 1) : E[i] = b[i + 1]
               /\ E[n] = RequestText
    <3>1. E \in Reachable'
      BY <1>8, <2>1
    <3>2. b \in Seq(Entries) /\ n = Len(b)
      BY <1>4 DEF n
    <3>3. /\ E \in Seq(Entries) /\ Len(E) = Len(b)
          /\ \A i \in 1..(d - 1) : E[i] = b[i]
          /\ \A i \in d..(Len(b) - 1) : E[i] = b[i + 1]
          /\ E[Len(b)] = RequestText
      BY <2>1, <3>2, PassedOver, Zenon
    <3> QED
      BY <3>1, <3>2, <3>3, Zenon
  \* Without the entry m places on, what follows is what the log now has.
  <2>2. ASSUME NEW m \in {1, 2}, k + m \in 1..n, Ahead(b, k, m), NEW E,
               E = Append(RemoveAt(b, k + m), RequestText)
        PROVE  Ahead(E, k, m)'
    <3> SUFFICES ASSUME NEW i \in m..(n - k) PROVE E[k + i] = recent'[row + i]
      BY <1>1, <2>1, <2>2 DEF Ahead
    <3>1. CASE i = n - k
      <4>1. k + i = n /\ row + i = size
        BY <1>4, <1>5, <1>6, <3>1
      <4> QED
        BY <2>0, <2>1, <2>2, <4>1
    <3>2. CASE i # n - k
      <4>1. /\ k + i \in (k + m)..(n - 1) /\ row + i \in 1..(size - 1)
            /\ i + 1 \in m..(n - k)
            /\ (k + i) + 1 = k + (i + 1) /\ (row + i) + 1 = row + (i + 1)
        BY <1>4, <1>5, <1>6, <3>2
      <4>2. b[k + (i + 1)] = recent[row + (i + 1)]
        BY <2>2, <4>1 DEF Ahead, n
      <4>3. E[k + i] = b[(k + i) + 1]
        BY <2>1, <2>2, <4>1
      <4>4. recent'[row + i] = recent[(row + i) + 1]
        BY <2>0, <4>1
      <4> QED
        BY <4>1, <4>2, <4>3, <4>4
    <3> QED
      BY <3>1, <3>2
  <2>3. CASE k = n
    <3>1. Ahead(b, k, 1)' /\ head = NotReading
      <4>1. Len(b) - k = 0
        BY <1>4, <2>3 DEF n
      <4> QED
        BY <1>1, <1>4, <1>5, <2>3, <4>1 DEF Ahead
    <3>2. Len(b) = n
      BY DEF n
    <3> QED
      BY <1>2, <1>4, <1>5, <1>8, <1>9, <2>0, <2>3, <3>1, <3>2
  <2>4. CASE k # n
    <3>0. PICK F : F = Append(RemoveAt(b, k + 1), RequestText)
      OBVIOUS
    <3>1. k + 1 \in 1..n /\ \A i \in 1..k : i \in 1..((k + 1) - 1)
      BY <1>4, <1>5, <2>4
    <3>2. /\ F \in Seq(Entries) /\ Len(F) = n /\ F \in Reachable'
          /\ \A i \in 1..k : F[i] = b[i]
      BY <2>1, <3>0, <3>1
    <3>3. Ahead(b, k, 1) => Ahead(F, k, 1)'
      BY <2>2, <3>0, <3>1
    <3>4. CASE head = NotReading
      BY <1>2, <1>4, <1>5, <1>9, <2>0, <3>2, <3>3, <3>4
    <3>5. CASE head # NotReading /\ k + 1 = n
      <4>1. Ahead(b, k, 2)' /\ Len(b) = n
        <5>1. Len(b) - k = 1
          BY <1>4, <3>5 DEF n
        <5> QED
          BY <1>1, <5>1 DEF Ahead, n
      <4> QED
        BY <1>2, <1>4, <1>5, <1>8, <1>9, <2>0, <3>2, <3>3, <3>5, <4>1
    <3>6. CASE head # NotReading /\ k + 1 # n
      <4>0. PICK E : E = Append(RemoveAt(b, k + 2), RequestText)
        OBVIOUS
      <4>1. /\ k + 2 \in 1..n /\ k + 1 \in 1..((k + 2) - 1)
            /\ \A i \in 1..k : i \in 1..((k + 2) - 1)
        BY <1>4, <1>5, <3>1, <3>6
      <4>2. /\ E \in Seq(Entries) /\ Len(E) = n /\ E \in Reachable'
            /\ \A i \in 1..k : E[i] = b[i]
            /\ E[k + 1] = b[k + 1]
        BY <2>1, <4>0, <4>1
      <4>3. Ahead(E, k, 2)'
        BY <1>5, <2>2, <3>6, <4>0, <4>1
      <4> QED
        BY <1>2, <1>4, <1>5, <1>9, <2>0, <3>2, <3>3, <3>6, <4>2, <4>3
    <3> QED
      BY <3>4, <3>5, <3>6
  <2> QED
    BY <2>3, <2>4
<1> QED
  BY <1>6, <1>10, <1>11, AuditLogAssumption

\* Every step keeps the invariant.
LEMMA ListingStep == ~Interruptible /\ LInv /\ [ListingNext]_listingVars => LInv'
<1> SUFFICES ASSUME ~Interruptible, LInv, [ListingNext]_listingVars PROVE LInv'
  OBVIOUS
<1>1. IInv'
  <2>1. [Next]_vars
    BY DEF ListingNext, CommandServerAudit, CommandApacheLogs, CommandApacheTail, Start, List,
       SkipRow, PrintHead, PrintTail, EndListing, TickInListing, Elsewhere, Next, listingVars
  <2> QED
    BY <2>1, InvStep DEF LInv
<1>2. CASE CommandServerAudit \/ CommandApacheLogs \/ \E n \in 0..MaxTail : CommandApacheTail(n)
  BY <1>1, <1>2, CommandReads DEF LInv
<1>3. CASE SkipRow \/ PrintHead \/ PrintTail
  BY <1>1, <1>3, SkipReads, HeadReads, TailReads DEF LInv
<1>4. CASE EndListing
  BY <1>1, <1>4 DEF LInv, EndListing, Finished, ReaderTypes, Reading
<1>5. CASE TickInListing
  BY <1>1, <1>5, TickReads DEF LInv
<1>6. CASE Elsewhere
  BY <1>1, <1>6 DEF LInv, Elsewhere, reader, ReaderTypes, Reading
<1>7. CASE UNCHANGED listingVars
  <2>1. UNCHANGED <<pc, recent, listing, row, head, printed, before, logged>>
    BY <1>7 DEF listingVars, vars, reader, shellLocals
  <2>2. ReaderTypes'
    BY <2>1 DEF LInv, ReaderTypes
  <2>3. Heads' = Heads /\ Tails' = Tails /\ Reachable' = Reachable
    BY <2>1 DEF Heads, Tails, Reachable
  <2>4. ASSUME NEW E, NEW F, NEW k \in Nat, Course(E, F, k) PROVE Course(E, F, k)'
    BY <2>1, <2>3, <2>4 DEF Course, Ahead
  <2>5. Reading'
    BY <2>1, <2>3, <2>4 DEF LInv, Reading
  <2> QED
    BY <1>1, <2>2, <2>5 DEF LInv
<1> QED
  BY <1>2, <1>3, <1>4, <1>5, <1>6, <1>7 DEF ListingNext, List

\* A listing that comes to its end has printed one of the lists it may print.
LEMMA EndIsList == LInv => ListsTheLog
<1> SUFFICES ASSUME LInv, Finished PROVE ListsTheLog
  BY DEF ListsTheLog
<1>1. listing # "none" /\ head = NotReading /\ row >= audit_count
  BY DEF Finished
<1>2. PICK E \in Reachable, F \in Reachable, k \in Nat : Course(E, F, k)
  BY <1>1 DEF LInv, Reading
<1>3. /\ E \in Seq(Entries) /\ F \in Seq(Entries) /\ row \in Nat
      /\ audit_count = Len(recent) /\ Len(recent) \in Nat
  BY <1>1, ReachableTypes DEF LInv, Reading, ReaderTypes, IInv, Types, AtEach
<1>4. /\ k <= Len(E) /\ Len(E) - k = Len(recent) - row /\ Heads = Shown(listing, E, k)
      /\ listing = "audit" => Len(F) = Len(E) /\ Tails = SubSeq(F, 1, k)
  BY <1>2 DEF Course
<1>5. k = Len(E)
  BY <1>1, <1>3, <1>4
<1>6. Heads \in {Shown(listing, entries, Len(entries)) : entries \in Reachable}
  BY <1>4, <1>5
<1>7. listing = "audit" => Tails \in Reachable
  <2>1. SubSeq(F, 1, Len(F)) = F
    BY <1>3
  <2> QED
    BY <1>4, <1>5, <2>1
<1> QED
  BY <1>6, <1>7 DEF ListsTheLog

\* It holds in every reachable state of the log and its readers.
LEMMA ListingInv == ASSUME ~Interruptible PROVE ListingSpec => []LInv
<1>1. ListingInit => LInv
  <2> SUFFICES ASSUME ListingInit PROVE LInv
    OBVIOUS
  <2>1. IInv
    BY InvInit DEF ListingInit
  <2>2. printed \in Seq(Entries \X Entries) /\ before \in Seq(Entries)
    BY DEF ListingInit
  <2>3. ReaderTypes /\ Reading
    BY <2>2 DEF ListingInit, ReaderTypes, Reading
  <2> QED
    BY <2>1, <2>3 DEF LInv
<1>2. LInv /\ [ListingNext]_listingVars => LInv'
  BY ListingStep
<1> QED
  BY <1>1, <1>2, PTL DEF ListingSpec

\* Whatever a tick does between two rows or inside one, a listing prints entries
\* of the log in their order, none twice, and misses at most one.
THEOREM ListingsAreTheLog == ASSUME ~Interruptible PROVE ListingSpec => []ListsTheLog
BY ListingInv, EndIsList, PTL
=============================================================================
