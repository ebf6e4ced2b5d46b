----------------------------- MODULE SingleOpen -----------------------------
(***************************************************************************)
(* examples/chardev.c and examples/static_key.c: character devices that one *)
(* process at a time may have open and that make, at open time, the message *)
(* that the process will read: how often the device has been opened before, *)
(* or whether the static key is enabled.                                    *)
(*                                                                          *)
(* A process has several threads, which may read and write the open file at *)
(* the same time, each with its own copy of the file position.  The file is *)
(* released when it has been closed and the last system call on it has      *)
(* ended.  A text is a sequence of bytes; the texts of the two key states   *)
(* have different lengths, as "enabled" and "disabled" have.                *)
(***************************************************************************)
EXTENDS Naturals, Sequences

CONSTANTS
    Proc,            \* the processes
    Thread,          \* the threads of a process
    NoProc,          \* the owner of a device that nobody has open
    MaxOpens,        \* bound: successful opens
    ReadLens         \* the lengths user space passes to read()

ASSUME SingleOpenAssumption ==
    /\ NoProc \notin Proc
    /\ MaxOpens \in Nat
    /\ ReadLens \subseteq Nat

VARIABLES
    driver,          \* which of the two drivers this is
    already_open,    \* atomic_t
    msg,             \* msg[]
    counter,         \* device_open of chardev.c; counts the opens of static_key.c
    fkey,            \* the static key
    at,              \* where each process is
    f_pos,           \* the position of its open file
    call,            \* the read() that each of its threads is in
    made,            \* the text made by its open
    got              \* the bytes it has read since position 0, or Mixed

vars == <<driver, already_open, msg, counter, fkey, at, f_pos, call, made, got>>

BUF_LEN == 3                            \* room for the longest text
Buffer == 0 .. BUF_LEN                  \* the indices of msg[]
Mixed  == <<0>>                         \* reads of two threads have overlapped
Idle   == [at |-> "idle", left |-> 0, start |-> 0, out |-> <<>>]

(* The text of the n-th open of chardev.c and of the states of the key.     *)
Text(n, enabled) ==
    IF driver = "chardev" THEN << 2 * n + 1, 2 * n + 2 >>
    ELSE IF enabled THEN <<1, 2>> ELSE <<3, 4, 5>>

TypeOK ==
    /\ driver \in {"chardev", "static_key"}
    /\ already_open \in {0, 1}
    /\ msg \in [Buffer -> Nat]
    /\ counter \in 0 .. MaxOpens
    /\ fkey \in BOOLEAN
    /\ at \in [Proc -> {"out", "asking", "refused", "opening", "open", "closing"}]
    /\ f_pos \in [Proc -> Buffer]
    /\ call \in [Proc -> [Thread -> [at : {"idle", "eof", "copy"}, left : Nat,
                                     start : Buffer, out : Seq(Nat)]]]
    /\ made \in [Proc -> Seq(Nat)]
    /\ got \in [Proc -> Seq(Nat)]

Init ==
    /\ driver \in {"chardev", "static_key"}
    /\ already_open = 0
    /\ msg = [i \in Buffer |-> 0]
    /\ counter = 0
    /\ fkey = FALSE
    /\ at = [p \in Proc |-> "out"]
    /\ f_pos = [p \in Proc |-> 0]
    /\ call = [p \in Proc |-> [t \in Thread |-> Idle]]
    /\ made = [p \in Proc |-> <<>>]
    /\ got = [p \in Proc |-> <<>>]

Goes(p, from, to) ==
    /\ at[p] = from
    /\ at' = [at EXCEPT ![p] = to]

-----------------------------------------------------------------------------
(* device_open and device_release                                           *)

OpenCall(p) ==
    /\ Goes(p, "out", "asking")
    /\ UNCHANGED <<driver, already_open, msg, counter, fkey, f_pos, call, made, got>>

(* Mutant: the flag is tested and set in two steps.                         *)
CmpXchgTestOnly(p) ==
    /\ \/ already_open = 0 /\ Goes(p, "asking", "opening")
       \/ already_open = 1 /\ Goes(p, "asking", "refused")
    /\ UNCHANGED <<driver, already_open, msg, counter, fkey, f_pos, call, made, got>>

(* atomic_cmpxchg; -EBUSY for everybody but the first.                      *)
CmpXchg(p) ==
    /\ \/ already_open = 0 /\ Goes(p, "asking", "opening") /\ already_open' = 1
       \/ already_open = 1 /\ Goes(p, "asking", "refused") /\ UNCHANGED already_open
    /\ UNCHANGED <<driver, msg, counter, fkey, f_pos, call, made, got>>

ReturnEbusy(p) ==
    /\ Goes(p, "refused", "out")
    /\ UNCHANGED <<driver, already_open, msg, counter, fkey, f_pos, call, made, got>>

(* sprintf: the text and its NUL; what stood behind stays.                  *)
Sprintf(text) ==
    msg' = [i \in Buffer |-> IF i < Len(text) THEN text[i + 1]
                             ELSE IF i = Len(text) THEN 0 ELSE msg[i]]

MakeMessage(p) ==
    LET text == Text(counter, fkey) IN
    /\ counter < MaxOpens
    /\ Goes(p, "opening", "open")
    /\ Sprintf(text)
    /\ counter' = counter + 1
    /\ made' = [made EXCEPT ![p] = text]
    /\ UNCHANGED <<driver, already_open, fkey, f_pos, call, got>>

CloseCall(p) ==
    /\ Goes(p, "open", "closing")
    /\ UNCHANGED <<driver, already_open, msg, counter, fkey, f_pos, call, made, got>>

(* The open file of p is no more.                                           *)
FileFreed(p) ==
    /\ f_pos' = [f_pos EXCEPT ![p] = 0]
    /\ made' = [made EXCEPT ![p] = <<>>]
    /\ got' = [got EXCEPT ![p] = <<>>]

(* Mutant: the flag is not cleared.                                         *)
device_releaseNot(p) ==
    /\ \A t \in Thread : call[p][t] = Idle
    /\ Goes(p, "closing", "out")
    /\ FileFreed(p)
    /\ UNCHANGED <<driver, already_open, msg, counter, fkey, call>>

device_release(p) ==
    /\ \A t \in Thread : call[p][t] = Idle
    /\ Goes(p, "closing", "out")
    /\ already_open' = 0
    /\ FileFreed(p)
    /\ UNCHANGED <<driver, msg, counter, fkey, call>>

-----------------------------------------------------------------------------
(* device_read                                                              *)

Busy(p) == \E t \in Thread : call[p][t] # Idle

(* read() copies the file position.                                         *)
ReadCall(p, t) ==
    /\ at[p] = "open" /\ call[p][t] = Idle
    /\ \E len \in ReadLens :
          call' = [call EXCEPT ![p][t] = [at |-> "eof", left |-> len,
                                          start |-> f_pos[p], out |-> <<>>]]
    /\ got' = [got EXCEPT ![p] = IF Busy(p) THEN Mixed ELSE @]
    /\ UNCHANGED <<driver, already_open, msg, counter, fkey, at, f_pos, made>>

(* The position after a read, written back to the file.                     *)
EndsAt(p, t, pos) ==
    /\ f_pos' = [f_pos EXCEPT ![p] = pos]
    /\ call' = [call EXCEPT ![p][t] = Idle]

AtEof(p, t) == call[p][t].at = "eof" /\ msg[call[p][t].start] = 0

(* End of the message: the position is reset and 0 is returned.             *)
ReadEof(p, t) ==
    /\ AtEof(p, t)
    /\ EndsAt(p, t, 0)
    /\ got' = [got EXCEPT ![p] = IF @ = Mixed THEN Mixed ELSE <<>>]
    /\ UNCHANGED <<driver, already_open, msg, counter, fkey, at, made>>

ReadStart(p, t) ==
    /\ call[p][t].at = "eof" /\ ~AtEof(p, t)
    /\ call' = [call EXCEPT ![p][t] = [at |-> "copy", left |-> @.left,
                                       start |-> @.start, out |-> @.out]]
    /\ UNCHANGED <<driver, already_open, msg, counter, fkey, at, f_pos, made, got>>

NextByte(p, t) == msg[call[p][t].start + Len(call[p][t].out)]

(* One round of the loop: while (length && *msg_ptr) put_user.              *)
PutByte(p, t) ==
    /\ call[p][t].at = "copy"
    /\ call[p][t].left > 0 /\ NextByte(p, t) # 0
    /\ call' = [call EXCEPT ![p][t] = [at |-> "copy", left |-> @.left - 1, start |-> @.start,
                                       out |-> Append(@.out, NextByte(p, t))]]
    /\ UNCHANGED <<driver, already_open, msg, counter, fkey, at, f_pos, made, got>>

ReadReturns(p, t) ==
    /\ call[p][t].at = "copy"
    /\ call[p][t].left = 0 \/ NextByte(p, t) = 0
    /\ EndsAt(p, t, call[p][t].start + Len(call[p][t].out))
    /\ got' = [got EXCEPT ![p] = IF @ = Mixed THEN Mixed ELSE @ \o call[p][t].out]
    /\ UNCHANGED <<driver, already_open, msg, counter, fkey, at, made>>

-----------------------------------------------------------------------------
(* device_write: chardev.c refuses it.  In static_key.c the command is      *)
(* compared with "enable" and then with "disable", over their whole length; *)
(* a shorter command goes on with what stood in command[], which is not     *)
(* initialised.                                                             *)

Commands == {"enable", "disable", "part_of_enable", "part_of_disable", "empty",
             "other", "too_long"}

(* The key states a command can lead to.                                    *)
KeyAfter(command) ==
    CASE driver = "chardev"             -> {fkey}
      [] command = "enable"             -> {TRUE}
      [] command = "disable"            -> {FALSE}
      [] command = "part_of_enable"     -> {TRUE, fkey}
      [] command = "part_of_disable"    -> {FALSE, fkey}
      [] command = "empty"              -> BOOLEAN
      [] command \in {"other", "too_long"} -> {fkey}

(* Mutant: the message follows the key.                                     *)
device_writeRefreshes(p) ==
    /\ at[p] = "open"
    /\ \E command \in Commands : fkey' \in KeyAfter(command)
    /\ Sprintf(Text(counter - 1, fkey'))
    /\ UNCHANGED <<driver, already_open, counter, at, f_pos, call, made, got>>

device_write(p) ==
    /\ at[p] = "open"
    /\ \E command \in Commands : fkey' \in KeyAfter(command)
    /\ UNCHANGED <<driver, already_open, msg, counter, at, f_pos, call, made, got>>

-----------------------------------------------------------------------------
Reading(p, t) == ReadEof(p, t) \/ ReadStart(p, t) \/ PutByte(p, t) \/ ReadReturns(p, t)

Next == \E p \in Proc :
    \/ OpenCall(p) \/ CmpXchg(p) \/ ReturnEbusy(p) \/ MakeMessage(p)
    \/ CloseCall(p) \/ device_release(p) \/ device_write(p)
    \/ \E t \in Thread : ReadCall(p, t) \/ Reading(p, t)

Spec == Init /\ [][Next]_vars

(* A read() that has begun goes on, and so does a close().                  *)
FairSpec == Spec /\ \A p \in Proc : /\ WF_vars(device_release(p))
                                    /\ \A t \in Thread : WF_vars(Reading(p, t))

-----------------------------------------------------------------------------
(* Properties                                                               *)

Owns(p) == at[p] \in {"opening", "open", "closing"}

owner == IF \E p \in Proc : Owns(p) THEN CHOOSE p \in Proc : Owns(p) ELSE NoProc

callerOf(p) == IF Owns(p) THEN "owning"
               ELSE IF at[p] = "out" THEN "idle" ELSE at[p]

caller == [p \in Proc |-> callerOf(p)]

Exclusive == INSTANCE ExclusiveFile WITH owner <- owner, caller <- caller

(* The compare-and-exchange makes the devices exclusive files: one owner at *)
(* a time, refused only while there is one ("Used to prevent multiple       *)
(* access to device"), and free again only when the last call on the file   *)
(* has ended.                                                               *)
ImplementsExclusiveFile == Exclusive!Spec

(* Every read() returns a piece of the message made by its own open, from a *)
(* position inside it; a command that changes the key meanwhile does not    *)
(* show, whatever state it leads to.  Threads that read at the same time    *)
(* may get the same bytes twice; without them a process that reads up to    *)
(* the end of file, in pieces of any length, has read that message and      *)
(* nothing else.                                                            *)
ReadsOwnMessage ==
    /\ TypeOK
    /\ \A p \in Proc, t \in Thread : call[p][t] # Idle =>
          /\ call[p][t].start <= Len(made[p])
          /\ call[p][t].out = SubSeq(made[p], call[p][t].start + 1,
                                     call[p][t].start + Len(call[p][t].out))
          /\ AtEof(p, t) /\ got[p] # Mixed => got[p] = made[p]

(* After close() the device becomes free, although another thread of the    *)
(* process may still be in the middle of a read().                          *)
CloseFreesDevice == \A p \in Proc : (at[p] = "closing") ~> (already_open = 0)
=============================================================================
