------------------------------ MODULE AuditLog ------------------------------
(***************************************************************************)
(* The audit log of src/servers.c and its two writers.  Shell commands     *)
(* call add_audit_log with interrupts on; server_tick calls it from IRQ0   *)
(* when apache is up.  The handler is atomic; the shell's call is followed *)
(* instruction by instruction, as MakeFile builds it (no optimisation:     *)
(* audit_count is read once for the test and again for the increment).     *)
(* Copying one 64-byte entry is a single step.                             *)
(***************************************************************************)
EXTENDS Integers, Sequences

CONSTANTS
    MaxLogs,        \* MAX_AUDIT_LOGS (32)
    Texts,          \* what shell commands log
    RequestText,    \* what server_tick logs for apache
    Blank,          \* the content of an entry never written
    Interruptible   \* IRQ0 may arrive inside add_audit_log

ASSUME AuditLogAssumption ==
    /\ MaxLogs \in Nat \ {0}
    /\ Blank \notin Texts \cup {RequestText}
    /\ Interruptible \in BOOLEAN

VARIABLES
    audit_logs,
    audit_count,
    pc,       \* where the shell's add_audit_log is
    text,     \* its argument
    loaded,   \* its copy of audit_count, then its idx
    shift,    \* its loop variable i
    ticked,   \* IRQ0 already logged during this call: it does so once a second
    recent    \* history: the last MaxLogs texts, in the order they were written

shellLocals == <<pc, text, loaded, shift>>
vars == <<audit_logs, audit_count, shellLocals, ticked, recent>>

\* One slot more than the array has, for the index the race can produce.
Slots == 0..MaxLogs
Entries == Texts \cup {RequestText}

Init ==
    /\ audit_logs = [i \in Slots |-> Blank]
    /\ audit_count = 0
    /\ pc = "idle"
    /\ text \in Texts
    /\ loaded = 0
    /\ shift = 1
    /\ ticked = FALSE
    /\ recent = <<>>

Remember(e) ==
    recent' = LET all == Append(recent, e)
              IN IF Len(all) > MaxLogs THEN Tail(all) ELSE all

(***************************************************************************)
(* IRQ0: server_tick -> add_audit_log, in one go                           *)
(***************************************************************************)
ShiftedLogs == [i \in Slots |-> IF i < MaxLogs - 1 THEN audit_logs[i + 1] ELSE audit_logs[i]]

ServerTick ==
    /\ pc = "idle" \/ (Interruptible /\ ~ticked)
    /\ IF audit_count < MaxLogs
       THEN /\ audit_logs' = [audit_logs EXCEPT ![audit_count] = RequestText]
            /\ audit_count' = audit_count + 1
       ELSE /\ audit_logs' = [ShiftedLogs EXCEPT ![MaxLogs - 1] = RequestText]
            /\ UNCHANGED audit_count
    /\ Remember(RequestText)
    /\ ticked' = (pc # "idle")
    /\ UNCHANGED shellLocals

(***************************************************************************)
(* The shell's add_audit_log                                               *)
(***************************************************************************)
Call(t) ==
    /\ pc = "idle"
    /\ pc' = "test"
    /\ text' = t
    /\ ticked' = FALSE
    /\ UNCHANGED <<audit_logs, audit_count, loaded, shift, recent>>

Test ==
    /\ pc = "test"
    /\ pc' = IF audit_count < MaxLogs THEN "load" ELSE "shift"
    /\ shift' = 1
    /\ UNCHANGED <<audit_logs, audit_count, text, loaded, ticked, recent>>

Load ==
    /\ pc = "load"
    /\ loaded' = audit_count
    /\ pc' = "store"
    /\ UNCHANGED <<audit_logs, audit_count, text, shift, ticked, recent>>

Store ==
    /\ pc = "store"
    /\ audit_count' = loaded + 1
    /\ pc' = "copy"
    /\ UNCHANGED <<audit_logs, text, loaded, shift, ticked, recent>>

\* Mutant: the loop ends one entry early.
ShiftShort ==
    /\ pc = "shift"
    /\ IF shift < MaxLogs - 1
       THEN /\ audit_logs' = [audit_logs EXCEPT ![shift - 1] = audit_logs[shift]]
            /\ shift' = shift + 1
            /\ UNCHANGED <<pc, loaded>>
       ELSE /\ loaded' = MaxLogs - 1
            /\ pc' = "copy"
            /\ UNCHANGED <<audit_logs, shift>>
    /\ UNCHANGED <<audit_count, text, ticked, recent>>

Shift ==
    /\ pc = "shift"
    /\ IF shift < MaxLogs
       THEN /\ audit_logs' = [audit_logs EXCEPT ![shift - 1] = audit_logs[shift]]
            /\ shift' = shift + 1
            /\ UNCHANGED <<pc, loaded>>
       ELSE /\ loaded' = MaxLogs - 1
            /\ pc' = "copy"
            /\ UNCHANGED <<audit_logs, shift>>
    /\ UNCHANGED <<audit_count, text, ticked, recent>>

Copy ==
    /\ pc = "copy"
    /\ audit_logs' = [audit_logs EXCEPT ![loaded] = text]
    /\ pc' = "idle"
    /\ Remember(text)
    /\ UNCHANGED <<audit_count, text, loaded, shift, ticked>>

AddAuditLog == Test \/ Load \/ Store \/ Shift \/ Copy

Next == ServerTick \/ (\E t \in Texts : Call(t)) \/ AddAuditLog

Spec == Init /\ [][Next]_vars

(***************************************************************************)
(* Properties                                                              *)
(***************************************************************************)

\* The log never counts more entries than it has, so no index leaves the array.
CountBounded == audit_count <= MaxLogs

\* Between commands the log shows exactly the last MaxLogs texts, oldest first:
\* what server audit prints.
LogIsRecent ==
    pc = "idle" =>
        /\ audit_count = Len(recent)
        /\ \A i \in 1..Len(recent) : audit_logs[i - 1] = recent[i]
=============================================================================
