--------------------------- MODULE DeviceProofs ------------------------------
(***************************************************************************)
(* The two drivers next to the hardware: the keyboard ring of any size     *)
(* loses no key to an interrupt, and the boot sector leaves its retry     *)
(* loop only after a whole read or after all its tries.                    *)
(***************************************************************************)
EXTENDS Keyboard, Boot, SequenceTheorems, TLAPS

(***************************************************************************)
(* The keyboard ring                                                       *)
(***************************************************************************)

\* The index arithmetic of the ring, without the remainder.
LEMMA NextSlotStep ==
  ASSUME NEW i \in Slots
  PROVE  /\ NextSlot(i) = IF i + 1 = Size THEN 0 ELSE i + 1
         /\ NextSlot(i) \in Slots
<1>1. Size \in Nat /\ Size > 1 /\ i \in 0..(Size - 1)
  BY KeyboardAssumption DEF Slots
<1>2. CASE i + 1 = Size
  <2>1. (i + 1) % Size = 0
    BY <1>1, <1>2
  <2> QED
    BY <1>1, <1>2, <2>1 DEF NextSlot, Slots
<1>3. CASE i + 1 # Size
  <2>1. i + 1 \in 0..(Size - 1)
    BY <1>1, <1>3
  <2>2. \A a \in Nat, b \in Nat : a < b => a % b = a
    OBVIOUS
  <2>3. (i + 1) % Size = i + 1
    BY <1>1, <2>1, <2>2
  <2> QED
    BY <1>3, <2>1, <2>3 DEF NextSlot, Slots
<1> QED
  BY <1>2, <1>3

\* A push keeps the ring well typed, never turns a non-empty ring into an empty
\* one, and never touches the slot the reader is at.
LEMMA PushIsSafe ==
  ASSUME TypeOK, NEW c \in Chars, Push(c)
  PROVE  /\ keyboard_buffer' \in [Slots -> Chars \cup {NoChar}]
         /\ keyboard_head' \in Slots
         /\ keyboard_tail # keyboard_head
              => /\ keyboard_tail # keyboard_head'
                 /\ keyboard_buffer'[keyboard_tail] = keyboard_buffer[keyboard_tail]
<1>1. NextSlot(keyboard_head) \in Slots
  BY NextSlotStep DEF TypeOK
<1>2. CASE NextSlot(keyboard_head) = keyboard_tail
  BY <1>2 DEF Push, TypeOK
<1>3. CASE NextSlot(keyboard_head) # keyboard_tail
  BY <1>1, <1>3 DEF Push, TypeOK
<1> QED
  BY <1>2, <1>3

\* The empty buffer of the booted kernel has the right types.
LEMMA TypeInit == Init => TypeOK
BY KeyboardAssumption DEF Init, TypeOK, Slots, Places

\* No key and no instruction of get_key moves an index off the buffer.
LEMMA TypeStep == TypeOK /\ [Next]_vars => TypeOK'
<1> SUFFICES ASSUME TypeOK, [Next]_vars PROVE TypeOK'
  OBVIOUS
<1>1. ASSUME NEW c \in Chars, KeyIRQ(c)
      PROVE  TypeOK'
  BY <1>1, PushIsSafe DEF KeyIRQ, Wake, TypeOK, Places
<1>2. CASE OtherIRQ
  BY <1>2 DEF OtherIRQ, Wake, TypeOK, Places
<1>3. CASE Call
  BY <1>3 DEF Call, TypeOK, Places
<1>4. CASE Test
  BY <1>4 DEF Test, TypeOK, Places
<1>5. CASE Take
  BY <1>5 DEF Take, TypeOK, Places
<1>6. CASE Advance
  BY <1>6, NextSlotStep DEF Advance, TypeOK, Places
<1>7. CASE Halt
  BY <1>7 DEF Halt, TypeOK, Places
<1>8. CASE UNCHANGED vars
  BY <1>8 DEF vars, TypeOK
<1> QED
  BY <1>1, <1>2, <1>3, <1>4, <1>5, <1>6, <1>7, <1>8 DEF Next, GetKeyStep

\* No step of IRQ1 or of get_key spoils the key get_key has read.
LEMMA TakenStep == TypeOK /\ TakenKeySafe /\ [Next]_vars => TakenKeySafe'
<1> SUFFICES ASSUME TypeOK, TakenKeySafe, [Next]_vars PROVE TakenKeySafe'
  OBVIOUS
<1>1. ASSUME NEW c \in Chars, KeyIRQ(c)
      PROVE  TakenKeySafe'
  <2>1. /\ pc' \in {"take", "advance"} => pc = pc'
        /\ UNCHANGED <<keyboard_tail, buffered>>
        /\ Push(c)
    BY <1>1 DEF KeyIRQ, Wake
  <2> QED
    BY <2>1, PushIsSafe DEF TakenKeySafe
<1>2. CASE OtherIRQ
  BY <1>2 DEF OtherIRQ, Wake, TakenKeySafe
<1>3. CASE Call
  BY <1>3 DEF Call, TakenKeySafe
<1>4. CASE Test
  BY <1>4 DEF Test, TakenKeySafe
<1>5. CASE Take
  BY <1>5 DEF Take, TakenKeySafe
<1>6. CASE Advance
  BY <1>6 DEF Advance, TakenKeySafe
<1>7. CASE Halt
  BY <1>7 DEF Halt, TakenKeySafe
<1>8. CASE UNCHANGED vars
  BY <1>8 DEF vars, TakenKeySafe
<1> QED
  BY <1>1, <1>2, <1>3, <1>4, <1>5, <1>6, <1>7, <1>8 DEF Next, GetKeyStep

\* The indices stay in the ring and the slots hold characters, for every size.
THEOREM KeyboardTypeCorrect == Spec => []TypeOK
BY TypeInit, TypeStep, PTL DEF Spec

\* A key get_key has found survives every key typed while it is being taken.
THEOREM TakenKeySurvives == Spec => []TakenKeySafe
<1>1. Init => TakenKeySafe
  BY DEF Init, TakenKeySafe
<1> QED
  BY <1>1, TypeInit, TypeStep, TakenStep, PTL DEF Spec

(***************************************************************************)
(* The ring is a queue                                                     *)
(***************************************************************************)

\* A remainder of less than twice the ring's size.
LEMMA RingModulo ==
  ASSUME NEW a \in 0..(2 * Size - 1)
  PROVE  a % Size = IF a < Size THEN a ELSE a - Size
<1>1. Size \in Nat /\ Size > 1 /\ a \in Int
  BY KeyboardAssumption
<1>2. \A x, y \in Int : 0 <= x /\ x < y => x % y = x
  OBVIOUS
<1>3. \A x, y \in Int : y > 0 /\ y <= x /\ x < 2 * y => x % y = x - y
  OBVIOUS
<1> QED
  BY <1>1, <1>2, <1>3

\* The place of the i-th key, and the number of keys.
Place(i) == IF keyboard_tail + i - 1 < Size THEN keyboard_tail + i - 1
            ELSE keyboard_tail + i - 1 - Size
Count == IF keyboard_tail <= keyboard_head THEN keyboard_head - keyboard_tail
         ELSE keyboard_head + Size - keyboard_tail

\* What the ring holds, without the remainders.
KeysInPlace ==
    /\ RingContents \in Seq(Chars \cup {NoChar})
    /\ Len(RingContents) = Count /\ Count \in 0..(Size - 1)
    /\ \A i \in 1..Count : /\ Place(i) \in Slots
                           /\ RingContents[i] = keyboard_buffer[Place(i)]

\* Indices in the ring are enough for it to hold a sequence of keys.
LEMMA RingIsSequence == TypeOK => KeysInPlace
<1> SUFFICES ASSUME TypeOK PROVE KeysInPlace
  OBVIOUS
<1>1. /\ Size \in Nat /\ Size > 1
      /\ keyboard_head \in 0..(Size - 1) /\ keyboard_tail \in 0..(Size - 1)
  BY KeyboardAssumption DEF TypeOK, Slots
<1>2. Pending = Count /\ Count \in 0..(Size - 1)
  <2>1. keyboard_head + Size - keyboard_tail \in 0..(2 * Size - 1)
    BY <1>1
  <2> QED
    BY <1>1, <2>1, RingModulo DEF Pending, Count
<1>3. ASSUME NEW i \in 1..Count
      PROVE  Place(i) \in Slots /\ (keyboard_tail + i - 1) % Size = Place(i)
  <2>1. keyboard_tail + i - 1 \in 0..(2 * Size - 1) /\ i \in 1..(Size - 1)
    BY <1>1, <1>2
  <2> QED
    BY <1>1, <2>1, RingModulo DEF Place, Slots
<1>4. RingContents = [i \in 1..Count |-> keyboard_buffer[Place(i)]]
  BY <1>2, <1>3 DEF RingContents
<1>5. \A i \in 1..Count : keyboard_buffer[Place(i)] \in Chars \cup {NoChar}
  BY <1>3 DEF TypeOK
<1> QED
  BY <1>2, <1>3, <1>4, <1>5 DEF KeysInPlace

\* A key that finds room joins the end of the queue.
LEMMA PushAppends ==
  ASSUME TypeOK, TypeOK', NEW c \in Chars, Push(c), UNCHANGED keyboard_tail,
         NextSlot(keyboard_head) # keyboard_tail
  PROVE  Len(RingContents) < Size - 1 /\ RingContents' = Append(RingContents, c)
<1>1. /\ Size \in Nat /\ Size > 1
      /\ keyboard_head \in 0..(Size - 1) /\ keyboard_tail \in 0..(Size - 1)
  BY KeyboardAssumption DEF TypeOK, Slots
<1>2. /\ keyboard_buffer' = [keyboard_buffer EXCEPT ![keyboard_head] = c]
      /\ keyboard_head' = IF keyboard_head + 1 = Size THEN 0 ELSE keyboard_head + 1
  BY NextSlotStep DEF Push, TypeOK
<1>3. Count' = Count + 1 /\ Count \in 0..(Size - 2) /\ Place(Count + 1) = keyboard_head
  BY <1>1, <1>2, NextSlotStep DEF Count, Place, TypeOK
<1>4. \A i \in 1..Count : Place(i) # keyboard_head
  BY <1>1, <1>3 DEF Count, Place
<1>5. \A i \in Int : Place(i)' = Place(i)
  BY DEF Place
<1>6. /\ RingContents' \in Seq(Chars \cup {NoChar}) /\ Len(RingContents') = Count + 1
      /\ \A i \in 1..(Count + 1) : RingContents'[i] = keyboard_buffer'[Place(i)]
  <2>1. /\ RingContents' \in Seq(Chars \cup {NoChar}) /\ Len(RingContents') = Count'
        /\ \A i \in 1..Count' : RingContents'[i] = keyboard_buffer'[Place(i)']
    <3>1. KeysInPlace'
      BY RingIsSequence, PTL
    <3> QED
      BY <3>1 DEF KeysInPlace
  <2> QED
    BY <1>3, <1>5, <2>1
<1>7. /\ RingContents \in Seq(Chars \cup {NoChar}) /\ Len(RingContents) = Count
      /\ \A i \in 1..Count : Place(i) \in Slots /\ RingContents[i] = keyboard_buffer[Place(i)]
  BY RingIsSequence DEF KeysInPlace
<1>8. \A i \in 1..Count : RingContents'[i] = RingContents[i]
  <2> SUFFICES ASSUME NEW i \in 1..Count PROVE RingContents'[i] = RingContents[i]
    OBVIOUS
  <2>1. i \in 1..(Count + 1)
    BY <1>3
  <2>2. keyboard_buffer'[Place(i)] = keyboard_buffer[Place(i)]
    BY <1>2, <1>4, <1>7 DEF TypeOK
  <2> QED
    BY <1>6, <1>7, <2>1, <2>2
<1>9. RingContents'[Count + 1] = c
  <2>1. keyboard_buffer'[keyboard_head] = c
    BY <1>2 DEF TypeOK
  <2> QED
    BY <1>3, <1>6, <2>1
<1>10. RingContents' = Append(RingContents, c)
  <2> DEFINE longer == Append(RingContents, c)
  <2>1. /\ longer \in Seq(Chars \cup {NoChar}) /\ Len(longer) = Count + 1
        /\ \A i \in 1..Count : longer[i] = RingContents[i]
        /\ longer[Count + 1] = c
    BY <1>3, <1>7
  <2> HIDE DEF longer
  <2>2. \A i \in 1..Len(RingContents') : RingContents'[i] = longer[i]
    <3> SUFFICES ASSUME NEW i \in 1..(Count + 1) PROVE RingContents'[i] = longer[i]
      BY <1>6
    <3>1. i = Count + 1 \/ i \in 1..Count
      BY <1>3
    <3> QED
      BY <1>8, <1>9, <2>1, <3>1
  <2>3. RingContents' = longer
    BY <1>6, <2>1, <2>2, SeqEqual
  <2> QED
    BY <2>3 DEF longer
<1> QED
  BY <1>1, <1>3, <1>7, <1>10

\* Moving the tail takes the oldest key away.
LEMMA AdvanceTakesHead ==
  ASSUME TypeOK, TypeOK', keyboard_tail # keyboard_head,
         keyboard_tail' = NextSlot(keyboard_tail), UNCHANGED <<keyboard_buffer, keyboard_head>>
  PROVE  /\ RingContents # <<>>
         /\ Head(RingContents) = keyboard_buffer[keyboard_tail]
         /\ RingContents' = Tail(RingContents)
<1>1. /\ Size \in Nat /\ Size > 1
      /\ keyboard_head \in 0..(Size - 1) /\ keyboard_tail \in 0..(Size - 1)
  BY KeyboardAssumption DEF TypeOK, Slots
<1>2. keyboard_tail' = IF keyboard_tail + 1 = Size THEN 0 ELSE keyboard_tail + 1
  BY NextSlotStep DEF TypeOK
<1>3. Count' = Count - 1 /\ Count \in 1..(Size - 1) /\ Place(1) = keyboard_tail
  BY <1>1, <1>2 DEF Count, Place
<1>4. \A i \in 1..(Count - 1) : Place(i)' = Place(i + 1)
  BY <1>1, <1>2, <1>3 DEF Place
<1>5. /\ RingContents \in Seq(Chars \cup {NoChar}) /\ Len(RingContents) = Count
      /\ \A i \in 1..Count : RingContents[i] = keyboard_buffer[Place(i)]
  BY RingIsSequence DEF KeysInPlace
<1>6. /\ RingContents' \in Seq(Chars \cup {NoChar}) /\ Len(RingContents') = Count - 1
      /\ \A i \in 1..(Count - 1) : RingContents'[i] = keyboard_buffer[Place(i)']
  <2>1. /\ RingContents' \in Seq(Chars \cup {NoChar}) /\ Len(RingContents') = Count'
        /\ \A i \in 1..Count' : RingContents'[i] = keyboard_buffer'[Place(i)']
    <3>1. KeysInPlace'
      BY RingIsSequence, PTL
    <3> QED
      BY <3>1 DEF KeysInPlace
  <2> QED
    BY <1>3, <2>1
<1>7. RingContents # <<>> /\ Head(RingContents) = keyboard_buffer[keyboard_tail]
  BY <1>3, <1>5
<1>8. RingContents' = Tail(RingContents)
  <2> DEFINE rest == Tail(RingContents)
  <2>1. /\ rest \in Seq(Chars \cup {NoChar}) /\ Len(rest) = Count - 1
        /\ \A i \in 1..(Count - 1) : rest[i] = RingContents[i + 1]
    BY <1>3, <1>5, <1>7
  <2> HIDE DEF rest
  <2>2. \A i \in 1..Len(RingContents') : RingContents'[i] = rest[i]
    <3> SUFFICES ASSUME NEW i \in 1..(Count - 1) PROVE RingContents'[i] = rest[i]
      BY <1>6
    <3>1. i + 1 \in 1..Count
      BY <1>3
    <3> QED
      BY <1>4, <1>5, <1>6, <2>1, <3>1
  <2>3. RingContents' = rest
    BY <1>6, <2>1, <2>2, SeqEqual
  <2> QED
    BY <2>3 DEF rest
<1> QED
  BY <1>7, <1>8

\* What KeyQueue calls result.
Result == IF pc = "idle" THEN buffered ELSE Waiting

\* Every step of IRQ1 and of get_key is a step of the queue, or none.
LEMMA QueueStep == TypeOK /\ TypeOK' /\ TakenKeySafe /\ [Next]_vars => [Fifo!Next]_Fifo!vars
<1> SUFFICES ASSUME TypeOK, TypeOK', TakenKeySafe, [Next]_vars
             PROVE  [Fifo!Next]_Fifo!vars
  OBVIOUS
<1>1. CASE UNCHANGED <<RingContents, Result>>
  BY <1>1 DEF Fifo!vars, Result
<1>2. ASSUME UNCHANGED <<keyboard_buffer, keyboard_head, keyboard_tail>>
      PROVE  UNCHANGED RingContents
  BY <1>2 DEF RingContents, Pending
<1>3. ASSUME NEW c \in Chars, KeyIRQ(c)
      PROVE  [Fifo!Next]_Fifo!vars
  <2>1. UNCHANGED Result
    BY <1>3 DEF KeyIRQ, Wake, Result
  <2>2. CASE NextSlot(keyboard_head) = keyboard_tail
    BY <1>1, <1>2, <1>3, <2>1, <2>2 DEF KeyIRQ, Push
  <2>3. CASE NextSlot(keyboard_head) # keyboard_tail
    <3>1. Len(RingContents) < Size - 1 /\ RingContents' = Append(RingContents, c)
      BY <1>3, <2>3, PushAppends DEF KeyIRQ
    <3> QED
      BY <2>1, <3>1 DEF Fifo!Next, Fifo!Type, Result
  <2> QED
    BY <2>2, <2>3
<1>4. CASE Call
  <2>1. UNCHANGED RingContents
    BY <1>2, <1>4 DEF Call
  <2> QED
    BY <1>4, <2>1, KeyboardAssumption DEF Call, TypeOK, Fifo!Next, Fifo!StartRead
<1>5. CASE Advance
  <2>1. /\ RingContents # <<>> /\ RingContents' = Tail(RingContents)
        /\ Head(RingContents) = buffered
    BY <1>5, AdvanceTakesHead DEF Advance, TakenKeySafe
  <2> QED
    BY <1>5, <2>1 DEF Advance, Fifo!Next, Fifo!FinishRead
<1>6. CASE OtherIRQ \/ Test \/ Take \/ Halt \/ UNCHANGED vars
  <2>1. UNCHANGED <<keyboard_buffer, keyboard_head, keyboard_tail, Result>>
    BY <1>6 DEF OtherIRQ, Wake, Test, Take, Halt, vars, Result
  <2> QED
    BY <1>1, <1>2, <2>1
<1> QED
  BY <1>3, <1>4, <1>5, <1>6 DEF Next, GetKeyStep

\* The ring of interrupts.c, for every size, with get_key interrupted between
\* any two instructions, is a first-in first-out queue of Size - 1 keys.
THEOREM RingIsQueue == Spec => ImplementsQueue
<1>1. Init => Fifo!Init
  <2> SUFFICES ASSUME Init PROVE Fifo!Init
    OBVIOUS
  <2>1. TypeOK /\ Count = 0
    BY TypeInit DEF Init, Count
  <2>2. RingContents = <<>>
    BY <2>1, RingIsSequence, EmptySeq DEF KeysInPlace
  <2> QED
    BY <2>2 DEF Init, Fifo!Init
<1> QED
  BY <1>1, QueueStep, KeyboardTypeCorrect, TakenKeySurvives, PTL
     DEF Spec, ImplementsQueue, Fifo!Spec

(***************************************************************************)
(* The boot sector                                                         *)
(***************************************************************************)

\* What the current attempt has read is in its place; when it has ended well,
\* all of it.
ReadSoFar ==
    /\ label = "read" => \A s \in Image : s < next => Loaded(s)
    /\ LeftAfterWholeRead

\* The count of tries and the attempts made add up.
TriesAddUp ==
    /\ label \in {"try", "error"} => attempts = Tries - read_tries
    /\ label \in {"read", "failed", "loaded", "protected", "jumped"} => attempts = Tries - read_tries + 1
    /\ label = "error" <=> read_tries = 0

BootInv == BootTypeOK /\ ReadSoFar /\ TriesAddUp

LEMMA AddressIsInt == \A s \in Image : LoadAddress + s * SectorSize \in Int
BY BootAssumption DEF Image

\* The boot sector starts with nothing read and all its tries.
LEMMA BootInvInit == BootInit => BootInv
BY BootAssumption
   DEF BootInit, BootInv, BootTypeOK, ReadSoFar, LeftAfterWholeRead, TriesAddUp, NotLoaded

\* One sector more is in its place, and those before it stay.
LEMMA SectorStep == BootInv /\ ReadSector => BootInv'
<1> SUFFICES ASSUME BootInv, ReadSector PROVE BootInv'
  OBVIOUS
<1>1. BootTypeOK'
  <2>1. memory' \in [Image -> Int]
    BY AddressIsInt DEF BootInv, BootTypeOK, ReadSector
  <2> QED
    BY <2>1, BootAssumption DEF BootInv, BootTypeOK, ReadSector
<1>2. ASSUME NEW s \in Image, s < next + 1
      PROVE  Loaded(s)'
  <2>1. s \in Int /\ next \in Int
    BY BootAssumption DEF Image, BootInv, BootTypeOK
  <2>2. memory'[s] = IF s = next THEN LoadAddress + s * SectorSize ELSE memory[s]
    BY DEF ReadSector
  <2>3. CASE s = next
    BY <2>2, <2>3 DEF Loaded
  <2>4. CASE s # next
    <3>1. s < next
      BY <1>2, <2>1, <2>4
    <3>2. Loaded(s)
      BY <3>1 DEF BootInv, ReadSoFar, ReadSector
    <3> QED
      BY <2>2, <2>4, <3>2 DEF Loaded
  <2> QED
    BY <2>3, <2>4
<1>3. ReadSoFar'
  BY <1>2 DEF ReadSector, ReadSoFar, LeftAfterWholeRead
<1>4. TriesAddUp'
  BY DEF BootInv, TriesAddUp, ReadSector
<1> QED
  BY <1>1, <1>3, <1>4 DEF BootInv

\* Every step of the boot sector and of the BIOS keeps the invariant.
LEMMA BootInvStep == BootInv /\ [BootNext]_bootVars => BootInv'
<1> SUFFICES ASSUME BootInv, [BootNext]_bootVars PROVE BootInv'
  OBVIOUS
<1> USE BootAssumption
<1>1. CASE Try
  <2>1. \A s \in Image : ~(s < 0)
    BY DEF Image
  <2>2. attempts' = attempts + 1
    BY <1>1 DEF Try, BootInv, BootTypeOK, TriesAddUp
  <2> QED
    BY <1>1, <2>1, <2>2 DEF Try, BootInv, BootTypeOK, ReadSoFar, LeftAfterWholeRead, TriesAddUp
<1>2. CASE ReadSector
  BY <1>2, SectorStep
<1>3. CASE Fails
  BY <1>3 DEF Fails, BootInv, BootTypeOK, ReadSoFar, LeftAfterWholeRead, TriesAddUp
<1>4. CASE Succeeds
  BY <1>4 DEF Succeeds, BootInv, BootTypeOK, ReadSoFar, LeftAfterWholeRead, TriesAddUp, Loaded
<1>5. CASE Retry
  <2>1. read_tries \in 1..Tries /\ attempts = Tries - read_tries + 1
    BY <1>5 DEF Retry, BootInv, BootTypeOK, TriesAddUp
  <2>2. /\ read_tries' = read_tries - 1
        /\ read_tries' = 0 => label' = "error"
        /\ read_tries' # 0 => label' = "try"
        /\ UNCHANGED <<memory, next, attempts>>
    BY <1>5 DEF Retry
  <2>3. BootTypeOK'
    BY <2>1, <2>2 DEF BootInv, BootTypeOK
  <2>4. ReadSoFar'
    BY <2>2 DEF ReadSoFar, LeftAfterWholeRead
  <2>5. TriesAddUp'
    BY <2>1, <2>2 DEF TriesAddUp
  <2> QED
    BY <2>3, <2>4, <2>5 DEF BootInv
<1>6. CASE Protect \/ Jump
  BY <1>6 DEF Protect, Jump, BootInv, BootTypeOK, ReadSoFar, LeftAfterWholeRead, TriesAddUp, Loaded
<1>7. CASE UNCHANGED bootVars
  BY <1>7 DEF bootVars, BootInv, BootTypeOK, ReadSoFar, LeftAfterWholeRead, TriesAddUp, Loaded
<1> QED
  BY <1>1, <1>2, <1>3, <1>4, <1>5, <1>6, <1>7 DEF BootNext

\* The invariant holds of every run of the boot sector.
LEMMA BootInvariant == BootSpec => []BootInv
<1>1. BootInv /\ [BootNext]_bootVars => BootInv'
  BY BootInvStep
<1> QED
  BY BootInvInit, <1>1, PTL DEF BootSpec

\* The retry loop is left for .disk_ok only with every sector asked for in the
\* buffer (jnc .disk_ok), for any number of sectors and tries.
THEOREM LoopLeftAfterWholeRead == BootSpec => []LeftAfterWholeRead
<1>1. BootInv => LeftAfterWholeRead
  BY DEF BootInv, ReadSoFar
<1> QED
  BY <1>1, BootInvariant, PTL

\* disk_error is reached after exactly Tries reads (dec read_tries, jnz), and no
\* run makes more.
THEOREM TriesExhausted == BootSpec => []ErrorAfterAllTries
<1>1. BootInv => ErrorAfterAllTries
  BY BootAssumption DEF BootInv, BootTypeOK, TriesAddUp, ErrorAfterAllTries
<1> QED
  BY <1>1, BootInvariant, PTL
=============================================================================
