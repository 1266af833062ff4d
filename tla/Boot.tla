-------------------------------- MODULE Boot ---------------------------------
(***************************************************************************)
(* The boot sector (boot.asm): it asks the BIOS for the kernel's sectors,  *)
(* again when that fails, switches to protected mode and jumps.  What runs *)
(* behind the jump is not modelled: it goes to the linear address 0x1000,  *)
(* where linker.ld places the image, and not to the buffer that was read.  *)
(***************************************************************************)
EXTENDS Integers

CONSTANTS
    Tries,          \* 3: read_tries
    Sectors,        \* 30: what one int 0x13 is asked for
    ImageSectors,   \* the sectors kernel.bin has (73 in the repository)
    SectorSize,     \* 512
    LoadAddress     \* the buffer ES:BX = 0x1000:0x0000, linear 0x10000

ASSUME BootAssumption ==
    /\ Tries \in Nat \ {0}
    /\ Sectors \in Nat \ {0} /\ ImageSectors \in Nat \ {0}
    /\ SectorSize \in Nat \ {0}
    /\ LoadAddress \in Nat

VARIABLES
    label,        \* where it is: try, read, failed, error; loaded, protected, jumped
    read_tries,
    memory,       \* the sectors of the image in memory: sector -> address
    next,         \* the sector the BIOS reads next, its count of this attempt
    attempts      \* history: the reads asked for, counted up to Tries + 1

bootVars == <<label, read_tries, memory, next, attempts>>

NotLoaded == -1
Image == 0..(ImageSectors - 1)

BootInit ==
    /\ label = "try"
    /\ read_tries = Tries
    /\ memory = [s \in Image |-> NotLoaded]
    /\ next = 0
    /\ attempts = 0

\* .read_try: every attempt starts from the first sector and the same address.
Try ==
    /\ label = "try"
    /\ label' = "read"
    /\ next' = 0
    /\ attempts' = IF attempts <= Tries THEN attempts + 1 ELSE attempts
    /\ UNCHANGED <<read_tries, memory>>

\* int 0x13, the BIOS: a sector, or an error in the middle of the read.
ReadSector ==
    /\ label = "read" /\ next < Sectors
    /\ memory' = [s \in Image |-> IF s = next THEN LoadAddress + s * SectorSize ELSE memory[s]]
    /\ next' = next + 1
    /\ UNCHANGED <<label, read_tries, attempts>>

\* Mutant: does not look at the carry flag.
FailsUnseen ==
    /\ label = "read"
    /\ label' = "loaded"
    /\ UNCHANGED <<read_tries, memory, next, attempts>>

Fails ==
    /\ label = "read"
    /\ label' = "failed"
    /\ UNCHANGED <<read_tries, memory, next, attempts>>

Succeeds ==
    /\ label = "read" /\ next = Sectors
    /\ label' = "loaded"
    /\ UNCHANGED <<read_tries, memory, next, attempts>>

\* Mutant: tries on for ever.
RetryAlways ==
    /\ label = "failed"
    /\ label' = "try"
    /\ UNCHANGED <<read_tries, memory, next, attempts>>

\* Mutant: looks at the count before taking the failed read off it.
RetryPastZero ==
    /\ label = "failed"
    /\ read_tries' = read_tries - 1
    /\ label' = IF read_tries = 0 THEN "error" ELSE "try"
    /\ UNCHANGED <<memory, next, attempts>>

\* jnc .disk_ok not taken.
Retry ==
    /\ label = "failed"
    /\ read_tries' = read_tries - 1
    /\ label' = IF read_tries' = 0 THEN "error" ELSE "try"
    /\ UNCHANGED <<memory, next, attempts>>

\* .disk_ok: interrupts off, the descriptor table, the far jump.
Protect ==
    /\ label = "loaded"
    /\ label' = "protected"
    /\ UNCHANGED <<read_tries, memory, next, attempts>>

\* protected_mode: segments, stack, and the last instruction, jmp 0x1000.
Jump ==
    /\ label = "protected"
    /\ label' = "jumped"
    /\ UNCHANGED <<read_tries, memory, next, attempts>>

BootNext == Try \/ ReadSector \/ Fails \/ Succeeds \/ Retry \/ Protect \/ Jump

BootSpec == BootInit /\ [][BootNext]_bootVars

\* The processor goes on, and the BIOS ends every read one way or the other.
FairBootSpec == BootSpec /\ WF_bootVars(BootNext)

-----------------------------------------------------------------------------
BootTypeOK ==
    /\ label \in {"try", "read", "failed", "error", "loaded", "protected", "jumped"}
    /\ read_tries \in 0..Tries
    /\ memory \in [Image -> Int]
    /\ next \in 0..Sectors
    /\ attempts \in 0..(Tries + 1)

Loaded(s) == memory[s] = LoadAddress + s * SectorSize

\* The retry loop is left towards protected mode only with every sector that was
\* asked for in the buffer, each at its place there: neither a read that stopped
\* half way nor what an earlier attempt left is taken for a whole one.
LeftAfterWholeRead ==
    label \in {"loaded", "protected", "jumped"} => \A s \in Image : s < Sectors => Loaded(s)

\* The error message comes after exactly Tries failed reads, never earlier.
ErrorAfterAllTries ==
    /\ attempts <= Tries
    /\ label = "error" => attempts = Tries

\* Either the jump or the error message: the sector does not try for ever.
BootEnds == <>(label \in {"error", "jumped"})
=============================================================================
