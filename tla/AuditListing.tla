---------------------------- MODULE AuditListing -----------------------------
(***************************************************************************)
(* The commands that print the audit log of src/servers.c, row by row with *)
(* interrupts on: server audit, apache logs and apache tail.  IRQ0 may add *)
(* an entry between two rows, or in the middle of a row, which is printed  *)
(* a character at a time (here: its head, then its tail).  A listing takes *)
(* less than the second between two entries of server_tick, so at most one *)
(* arrives while it runs.  The shell prints and logs in turn: its          *)
(* add_audit_log is idle during a listing, and atomic for this module's    *)
(* instances (Interruptible FALSE).                                        *)
(***************************************************************************)
EXTENDS AuditLog, SequencesExt

CONSTANTS
    ApacheTexts,  \* the texts that begin with "apa"
    MaxTail       \* the largest argument of apache tail tried

\* server_tick's text begins with the time of day, never with "apa".
ASSUME AuditListingAssumption == ApacheTexts \subseteq Texts /\ MaxTail \in Nat

VARIABLES
    listing,  \* the command that prints: "none", "audit" or "apache"
    row,      \* its loop variable i
    head,     \* the text whose first characters the row shows
    printed,  \* the rows on the screen: <<head, tail>>
    before,   \* history: the entries it set out to print
    logged    \* IRQ0 already logged during this listing

reader == <<listing, row, head, printed, before, logged>>
listingVars == <<vars, reader>>

NotReading == Blank

ListingInit ==
    /\ Init
    /\ listing = "none"
    /\ row = 0
    /\ head = NotReading
    /\ printed = <<>>
    /\ before = <<>>
    /\ logged = FALSE

Start(command, first, entries) ==
    /\ pc = "idle" /\ listing = "none"
    /\ listing' = command
    /\ row' = first
    /\ head' = NotReading
    /\ printed' = <<>>
    /\ before' = entries
    /\ logged' = FALSE
    /\ UNCHANGED vars

\* command_server_audit and command_apache_logs begin with the oldest entry.
CommandServerAudit == Start("audit", 0, recent)
CommandApacheLogs == Start("apache", 0, recent)

\* For the history: the entries apache tail n is about.
LastEntries(n) ==
    LET kept == IF n = 0 THEN 5 ELSE n
    IN SubSeq(recent, IF kept < Len(recent) THEN Len(recent) - kept + 1 ELSE 1, Len(recent))

\* Mutant: one entry too few.
TailStartLate(n) ==
    LET last == IF n = 0 THEN 5 ELSE n
    IN IF audit_count - last + 1 < 0 THEN 0 ELSE audit_count - last + 1

\* command_apache_tail: n entries from the end, 5 when n is 0.
TailStart(n) ==
    LET last == IF n = 0 THEN 5 ELSE n
    IN IF audit_count - last < 0 THEN 0 ELSE audit_count - last

CommandApacheTail(n) == Start("apache", TailStart(n), LastEntries(n))

Shows(command, entry) == command = "audit" \/ entry \in ApacheTexts

\* The loop's test, with audit_count read anew, and the prefix check.
SkipRow ==
    /\ listing # "none" /\ head = NotReading
    /\ row < audit_count /\ ~Shows(listing, audit_logs[row])
    /\ row' = row + 1
    /\ UNCHANGED <<vars, listing, head, printed, before, logged>>

PrintHead ==
    /\ listing # "none" /\ head = NotReading
    /\ row < audit_count /\ Shows(listing, audit_logs[row])
    /\ head' = audit_logs[row]
    /\ UNCHANGED <<vars, listing, row, printed, before, logged>>

PrintTail ==
    /\ head # NotReading
    /\ printed' = Append(printed, <<head, audit_logs[row]>>)
    /\ head' = NotReading
    /\ row' = row + 1
    /\ UNCHANGED <<vars, listing, before, logged>>

Finished == listing # "none" /\ head = NotReading /\ row >= audit_count

EndListing ==
    /\ Finished
    /\ listing' = "none"
    /\ UNCHANGED <<vars, row, head, printed, before, logged>>

\* IRQ0 while a listing runs.
TickInListing ==
    /\ listing # "none" /\ ~logged
    /\ ServerTick
    /\ logged' = TRUE
    /\ UNCHANGED <<listing, row, head, printed, before>>

List == SkipRow \/ PrintHead \/ PrintTail \/ EndListing

\* The rest of the system, between two listings.
Elsewhere == listing = "none" /\ Next /\ UNCHANGED reader

ListingNext ==
    \/ CommandServerAudit \/ CommandApacheLogs
    \/ \E n \in 0..MaxTail : CommandApacheTail(n)
    \/ List
    \/ TickInListing
    \/ Elsewhere

ListingSpec == ListingInit /\ [][ListingNext]_listingVars

(***************************************************************************)
(* Properties                                                              *)
(***************************************************************************)
Heads == [k \in DOMAIN printed |-> printed[k][1]]
Tails == [k \in DOMAIN printed |-> printed[k][2]]

\* The entries a listing can come by: those it set out to print; with the one
\* IRQ0 added behind them; or, when that pushed the oldest entry out and every
\* other one place down, without the entry that moved under the loop's row.
Reachable ==
    {before} \cup
    IF logged
    THEN {Append(before, RequestText)} \cup
         {Append(RemoveAt(before, i), RequestText) : i \in DOMAIN before}
    ELSE {}

\* The rows a command makes of the first n entries.
Shown(command, entries, n) ==
    LET rows[k \in 0..n] ==
            IF k = 0 THEN <<>>
            ELSE IF Shows(command, entries[k]) THEN Append(rows[k - 1], entries[k])
            ELSE rows[k - 1]
    IN rows[n]

\* A listing prints real entries, oldest first, no entry twice, those it is for
\* and no others; at most one is missing, and only if IRQ0 logged meanwhile.
\* With no tick server audit prints the whole log and apache tail all of apache
\* among the last n entries.
ListsTheLog ==
    Finished =>
        /\ Heads \in {Shown(listing, entries, Len(entries)) : entries \in Reachable}
        /\ listing = "audit" => Tails \in Reachable
=============================================================================
