-------------------------------- MODULE Vkbd --------------------------------
(***************************************************************************)
(* examples/vkbd.c and the read and write handlers of examples/vinput.c:    *)
(* one virtual keyboard.  Processes write key codes to /dev/vinputN, which  *)
(* press (n) and release (-n) keys, and read the last code back.            *)
(*                                                                          *)
(* The sections under vinput->lock are single steps.  A number written is   *)
(* an integer of the width of long (LONG_MIN .. -LONG_MIN - 1); the input   *)
(* core (external) takes an unsigned int and ignores keys that the device   *)
(* does not have.  The decimal text of a number is a sequence of as many    *)
(* bytes as it has, each naming the number and the place it stands at.      *)
(***************************************************************************)
EXTENDS Integers, Sequences

CONSTANTS
    Writer,          \* processes that write
    Reader,          \* processes that read, like cat, up to the end of file
    Numbers,         \* the numbers that are written
    LONG_MIN,        \* the smallest long
    UINTS,           \* the number of unsigned ints
    KEY_MAX,         \* vkeymap has KEY_MAX keys
    VINPUT_MAX_LEN,  \* the longest message
    Counts           \* the lengths that user space passes to read()

ASSUME VkbdAssumption ==
    /\ LONG_MIN \in -999 .. -1
    /\ Numbers \subseteq LONG_MIN .. (-LONG_MIN - 1)
    /\ UINTS \in Nat \ {0} /\ (-LONG_MIN) % UINTS = 0
    /\ KEY_MAX \in 1 .. UINTS
    /\ VINPUT_MAX_LEN \in Nat /\ VINPUT_MAX_LEN >= 5
    /\ Counts \subseteq Nat \ {0}

VARIABLES
    last_entry,      \* of struct vinput
    pressed,         \* the keys that the input core holds for pressed
    key,             \* what each writer has stored and not reported yet
    pending,         \* the writers that have stored and not reported, in order
    overtaken,       \* one of the pending reports has been overtaken by a later
    reader           \* each reader: its file position, what it has read, whether
                     \* last_entry is the same since it opened the file, and
                     \* whether its reads asked for more than VINPUT_MAX_LEN

VkbdVars == <<last_entry, pressed, key, pending, overtaken, reader>>

KEY_RESERVED == 0

Abs(k)   == IF k < 0 THEN -k ELSE k
Digits(k) == IF Abs(k) < 10 THEN 1 ELSE IF Abs(k) < 100 THEN 2 ELSE 3
Text(k)  == [i \in 1 .. Digits(k) + 2 |-> <<k, i>>]    \* sign, digits, newline
Garbage  == <<0, 0>>                    \* a byte of buff that nobody has set

Closed == [open |-> FALSE, offset |-> 0, out |-> <<>>, same |-> TRUE, big |-> TRUE]

VkbdTypeOK ==
    /\ last_entry \in Numbers \cup {0}
    /\ pressed \subseteq 1 .. KEY_MAX - 1
    /\ key \in [Writer -> Numbers \cup {0}]
    /\ pending \in Seq(Writer)
    /\ overtaken \in BOOLEAN
    /\ \A r \in Reader : /\ reader[r].offset \in Nat
                         /\ reader[r].same \in BOOLEAN

VkbdInit ==
    /\ last_entry = 0
    /\ pressed = {}
    /\ key = [w \in Writer |-> 0]
    /\ pending = <<>>
    /\ overtaken = FALSE
    /\ reader = [r \in Reader |-> Closed]

Pending == {pending[i] : i \in DOMAIN pending}

-----------------------------------------------------------------------------
(* vinput_write and vinput_vkbd_send                                        *)

(* What a text denotes: kstrtol leaves 0 in key when it cannot parse it.    *)
Parsed == Numbers \cup {0}

Remember(k) ==
    reader' = [r \in Reader |-> IF reader[r].open
                                THEN [reader[r] EXCEPT !.same = @ /\ k = last_entry]
                                ELSE reader[r]]

(* vinput_vkbd_send, up to the end of its critical section.                 *)
Store(w, k) ==
    /\ last_entry' = k
    /\ key' = [key EXCEPT ![w] = k]
    /\ Remember(k)
    /\ overtaken' = IF pending = <<>> THEN FALSE ELSE overtaken
    /\ pending' = Append(pending, w)
    /\ UNCHANGED pressed

(* A message that is too long changes nothing; any other is sent.           *)
vinput_write(w) == w \notin Pending /\ \E k \in Parsed : Store(w, k)

(* -key, in the arithmetic of long; code as an unsigned int.                *)
Negated(k) == IF k = LONG_MIN THEN LONG_MIN ELSE -k
Code(k)    == (IF k < 0 THEN Negated(k) ELSE k) % UINTS

(* The keys of the device: vkeymap without the reserved one.                *)
Keys == (0 .. KEY_MAX - 1) \ {KEY_RESERVED}

(* input_report_key: a key that the device does not have is ignored.        *)
InputReport(code, type) ==
    pressed' = IF code \notin Keys THEN pressed
               ELSE IF type = "press" THEN pressed \cup {code} ELSE pressed \ {code}

(* A writer stands once in the sequence of those that have not reported.    *)
Leaves(w) ==
    \E i \in DOMAIN pending :
        /\ pending[i] = w
        /\ pending' = SubSeq(pending, 1, i - 1) \o SubSeq(pending, i + 1, Len(pending))

(* Mutant: every event is reported as a press.                              *)
ReportPresses(w) ==
    /\ Leaves(w)
    /\ InputReport(Code(key[w]), "press")
    /\ overtaken' = (overtaken \/ pending[1] # w)
    /\ key' = [key EXCEPT ![w] = 0]
    /\ UNCHANGED <<last_entry, reader>>

(* The event of the number that was written, whatever was stored since.     *)
Report(w) ==
    /\ Leaves(w)
    /\ InputReport(Code(key[w]), IF key[w] < 0 THEN "release" ELSE "press")
    /\ overtaken' = (overtaken \/ pending[1] # w)
    /\ key' = [key EXCEPT ![w] = 0]
    /\ UNCHANGED <<last_entry, reader>>

-----------------------------------------------------------------------------
(* vinput_read and vinput_vkbd_read                                         *)

(* buff after snprintf(buff, count, ...): the text cut at count - 1 bytes,  *)
(* its NUL, which is no byte of the text, and what was there before.        *)
Buff(k, count) ==
    [i \in 1 .. VINPUT_MAX_LEN + 1 |->
        IF i <= Len(Text(k)) /\ i < count THEN Text(k)[i] ELSE Garbage]

(* The number of bytes copied.  snprintf returns the length of the whole    *)
(* text, and the length that was asked for is adjusted to it only when the  *)
(* request goes past the end of buff.                                       *)
CopiedAll(k, offset, count) == IF offset > Len(Text(k)) THEN 0 ELSE count

Copied(k, offset, count) ==
    IF offset > Len(Text(k)) THEN 0
    ELSE IF count + offset > VINPUT_MAX_LEN THEN Len(Text(k)) - offset
    ELSE count

OpenFile(r) ==
    /\ ~reader[r].open
    /\ reader' = [reader EXCEPT ![r] = [Closed EXCEPT !.open = TRUE]]
    /\ UNCHANGED <<last_entry, pressed, key, pending, overtaken>>

(* Mutant: the position is not advanced.                                    *)
ReadStays(r, count) ==
    LET f == reader[r]
        n == Copied(last_entry, f.offset, count) IN
    /\ f.open /\ n > 0
    /\ reader' = [reader EXCEPT ![r] = [f EXCEPT
          !.out = SubSeq(Buff(last_entry, count), f.offset + 1, f.offset + n),
          !.big = @ /\ count > VINPUT_MAX_LEN]]
    /\ UNCHANGED <<last_entry, pressed, key, pending, overtaken>>

(* A read() that returns bytes.                                             *)
Read(r, count) ==
    LET f == reader[r]
        n == Copied(last_entry, f.offset, count) IN
    /\ f.open /\ n > 0
    /\ reader' = [reader EXCEPT ![r] = [f EXCEPT
          !.out = @ \o SubSeq(Buff(last_entry, count), f.offset + 1, f.offset + n),
          !.offset = @ + n,
          !.big = @ /\ count > VINPUT_MAX_LEN]]
    /\ UNCHANGED <<last_entry, pressed, key, pending, overtaken>>

(* A read() that returns 0, after which the reader closes the file.         *)
ReadEnds(r, count) ==
    /\ reader[r].open
    /\ Copied(last_entry, reader[r].offset, count) = 0
    /\ reader' = [reader EXCEPT ![r] = Closed]
    /\ UNCHANGED <<last_entry, pressed, key, pending, overtaken>>

Reading(r) == \E count \in Counts : Read(r, count) \/ ReadEnds(r, count)

VkbdNext ==
    \/ \E w \in Writer : vinput_write(w) \/ Report(w)
    \/ \E r \in Reader : OpenFile(r) \/ Reading(r)

VkbdSpec == VkbdInit /\ [][VkbdNext]_VkbdVars

(* A reader reads on until a read() returns 0.                              *)
VkbdFairSpec == VkbdSpec /\ \A r \in Reader : WF_VkbdVars(Reading(r))

-----------------------------------------------------------------------------
(* Properties                                                               *)

(* When every write has returned, last_entry and the keyboard agree: the    *)
(* key that last_entry names is pressed or released as its sign says, for   *)
(* every number including those that do not fit an unsigned int.  The       *)
(* report is made after the lock has been dropped, so this fails when it    *)
(* was overtaken by the report of a later write.                            *)
KeyboardAgrees ==
    /\ VkbdTypeOK
    /\ pending = <<>> /\ ~overtaken /\ Code(last_entry) \in Keys =>
          (Code(last_entry) \in pressed <=> last_entry > 0)

(* A reader that asks for more than VINPUT_MAX_LEN bytes at a time gets the *)
(* whole text of the last number, and then the end of file, unless another  *)
(* number is written meanwhile; and no byte that nobody has set.            *)
ReadsLastEntry ==
    \A r \in Reader : reader[r].open /\ reader[r].big /\ reader[r].out # <<>> =>
        /\ \A i \in 1 .. Len(reader[r].out) : reader[r].out[i] # Garbage
        /\ reader[r].same => reader[r].out = Text(last_entry)

(* Even if numbers are written all the time, reading comes to an end.       *)
ReadingEnds == \A r \in Reader : reader[r].open ~> ~reader[r].open
=============================================================================
