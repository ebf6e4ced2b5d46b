------------------------------ MODULE Chardev2 ------------------------------
(***************************************************************************)
(* examples/chardev2.c and its client examples/other/userspace_ioctl.c: a   *)
(* device with one message.  Clients set it, fetch it byte by byte and      *)
(* fetch it whole, through ioctls that already_open serialises; other       *)
(* processes use read(), pread() and write() (cat, dd, echo), which it does *)
(* not cover, and pass IOCTL_GET_NTH_BYTE parameters of their own.          *)
(*                                                                          *)
(* The buffer is copied one byte per step, as get_user and put_user do it.  *)
(* A byte is 0 or one of the bytes of Strings.  A process that uses write() *)
(* passes no NUL.  Each process has its own open file, on which lseek() is  *)
(* not possible, for fops has no llseek.                                    *)
(***************************************************************************)
EXTENDS Naturals, Sequences

CONSTANTS
    Client,          \* processes that run userspace_ioctl
    Raw,             \* processes that call the device in other ways
    BUF_LEN,         \* message[] has BUF_LEN + 1 bytes
    GET_LEN,         \* the length that IOCTL_GET_MSG passes to device_read
    Strings,         \* the strings user space passes, without their NUL
    ReadLens,        \* the lengths user space passes to read() and pread(),
    Offsets,         \* the offsets it passes to pread(),
    Params           \* and the parameters to IOCTL_GET_NTH_BYTE

ASSUME Chardev2Assumption ==
    /\ Client \cap Raw = {}
    /\ BUF_LEN \in Nat \ {0}
    /\ GET_LEN \in Nat /\ GET_LEN > BUF_LEN
    /\ Strings \subseteq Seq(Nat \ {0})
    /\ ReadLens \subseteq Nat /\ Offsets \subseteq Nat /\ Params \subseteq Nat

VARIABLES
    already_open,    \* the flag of device_ioctl
    message,         \* message[]
    at,              \* where each process is
    call,            \* the ioctl a process is in or about to call
    frame,           \* the arguments and local variables of its handler
    offset,          \* *offset: f_pos of an open file
    n,               \* the parameter of IOCTL_GET_NTH_BYTE
    latest           \* the last string but an empty one that an IOCTL_SET_MSG
                     \* which has returned was given, or Mixed if write() has
                     \* put bytes in the message since

vars == <<already_open, message, at, call, frame, offset, n, latest>>

Proc  == Client \cup Raw
Mixed == <<0>>       \* no string of user space holds a NUL
Bytes == {0} \cup UNION {{s[i] : i \in DOMAIN s} : s \in Strings}

(* "out": not in the device; "call": about to call ioctl; "leave": the end   *)
(* of device_ioctl; "killed" and "stuck": killed by a page fault in read()   *)
(* or in an ioctl; the others are points of the handlers.                    *)
Inside == {"write", "eof", "test", "put", "nth"}
At     == {"out", "call", "leave", "killed", "stuck"} \cup Inside

(* arg: the string passed; left: the length that remains; by: the call that  *)
(* has come to device_read; start: *offset at its entry; pos: i of           *)
(* device_write or message_ptr of device_read; seen: the byte tested last;   *)
(* out: the bytes put in the user's buffer.                                  *)
Frame == [arg : Strings \cup {<<>>}, left : Nat, by : {"ioctl", "read", "pread"},
          start : Nat, pos : Nat, seen : Bytes, out : Seq(Bytes)]

NoFrame == [arg |-> <<>>, left |-> 0, by |-> "ioctl", start |-> 0, pos |-> 0,
            seen |-> 0, out |-> <<>>]

TypeOK ==
    /\ already_open \in {0, 1}
    /\ message \in [0 .. BUF_LEN -> Bytes]
    /\ at \in [Proc -> At]
    /\ call \in [Proc -> {"SET_MSG", "GET_NTH_BYTE", "GET_MSG"}]
    /\ frame \in [Proc -> Frame]
    /\ offset \in [Proc -> 0 .. BUF_LEN]
    /\ n \in [Proc -> Nat]
    /\ latest \in Strings \cup {<<>>, Mixed}

(* The ioctl a process begins with: that of main in userspace_ioctl.c, or    *)
(* the only one of the others.                                               *)
FirstCall(p) == IF p \in Client THEN "SET_MSG" ELSE "GET_NTH_BYTE"

Init ==
    /\ already_open = 0
    /\ message = [i \in 0 .. BUF_LEN |-> 0]
    /\ at = [p \in Proc |-> "out"]
    /\ call = [p \in Proc |-> FirstCall(p)]
    /\ frame = [p \in Proc |-> NoFrame]
    /\ offset = [p \in Proc |-> 0]
    /\ n = [p \in Proc |-> 0]
    /\ latest = <<>>

Goes(p, from, to) ==
    /\ at[p] = from
    /\ at' = [at EXCEPT ![p] = to]

Set(f, p, v) == [f EXCEPT ![p] = v]

(* device_write or device_read returns, to device_ioctl or to user space.    *)
Returns(p, from) ==
    /\ Goes(p, from, IF p \in Client THEN "leave" ELSE "out")
    /\ frame' = IF p \in Client THEN frame ELSE Set(frame, p, NoFrame)

-----------------------------------------------------------------------------
(* device_write and device_read                                             *)

ByteAt(s, i) == IF i < Len(s) THEN s[i + 1] ELSE 0

(* What a load of message[i] may give: behind the array, any byte.           *)
Peek(i) == IF i <= BUF_LEN THEN {message[i]} ELSE Bytes

(* f_pos follows *offset when read() returns; pread() and IOCTL_GET_MSG have *)
(* an offset of their own.                                                   *)
Position(p, o) == offset' = IF frame[p].by = "read" THEN Set(offset, p, o) ELSE offset

(* Mutant: the loop writes the last byte of message[] too.                   *)
WriteByteToTheEnd(p) ==
    LET i == frame[p].pos IN
    /\ frame[p].left > 0 /\ i <= BUF_LEN
    /\ Goes(p, "write", "write")
    /\ message' = [message EXCEPT ![i] = ByteAt(frame[p].arg, i)]
    /\ frame' = [frame EXCEPT ![p].pos = @ + 1, ![p].left = @ - 1]
    /\ latest' = IF p \in Raw THEN Mixed ELSE latest
    /\ UNCHANGED <<already_open, call, offset, n>>

(* One round of the loop of device_write: get_user(message[i], buffer + i).  *)
WriteByte(p) ==
    LET i == frame[p].pos IN
    /\ frame[p].left > 0 /\ i < BUF_LEN
    /\ Goes(p, "write", "write")
    /\ message' = [message EXCEPT ![i] = ByteAt(frame[p].arg, i)]
    /\ frame' = [frame EXCEPT ![p].pos = @ + 1, ![p].left = @ - 1]
    /\ latest' = IF p \in Raw THEN Mixed ELSE latest
    /\ UNCHANGED <<already_open, call, offset, n>>

WriteReturns(p) ==
    /\ frame[p].left = 0 \/ frame[p].pos = BUF_LEN
    /\ Returns(p, "write")
    /\ UNCHANGED <<already_open, message, call, offset, n, latest>>

(* At the end of the message the offset is reset and 0 is returned.  The     *)
(* offset is not compared with the size of message[].                        *)
ReadEof(p) ==
    /\ \E b \in Peek(frame[p].start) :
          IF b = 0
          THEN Returns(p, "eof") /\ Position(p, 0)
          ELSE /\ Goes(p, "eof", "test")
               /\ frame' = [frame EXCEPT ![p].pos = frame[p].start]
               /\ UNCHANGED offset
    /\ UNCHANGED <<already_open, message, call, n, latest>>

(* while (length && *message_ptr)                                            *)
ReadTest(p) ==
    /\ frame[p].left > 0
    /\ Goes(p, "test", "put")
    /\ \E b \in Peek(frame[p].pos) \ {0} : frame' = [frame EXCEPT ![p].seen = b]
    /\ UNCHANGED <<already_open, message, call, offset, n, latest>>

(* put_user: the compiler may use the byte that was tested or load it again. *)
ReadPut(p) ==
    /\ Goes(p, "put", "test")
    /\ \E b \in {frame[p].seen} \cup Peek(frame[p].pos) :
          frame' = [frame EXCEPT ![p].out = Append(@, b), ![p].pos = @ + 1,
                                 ![p].left = @ - 1]
    /\ UNCHANGED <<already_open, message, call, offset, n, latest>>

(* *offset += bytes_read                                                     *)
ReadReturns(p) ==
    /\ frame[p].left = 0 \/ 0 \in Peek(frame[p].pos)
    /\ Returns(p, "test")
    /\ Position(p, frame[p].start + Len(frame[p].out))
    /\ UNCHANGED <<already_open, message, call, n, latest>>

-----------------------------------------------------------------------------
(* device_ioctl                                                             *)

(* Mutant: the length found by IOCTL_SET_MSG does not count the NUL.         *)
SetLenNoNul(s) == IF Len(s) < BUF_LEN THEN Len(s) ELSE BUF_LEN

(* The loop of IOCTL_SET_MSG reads the first byte twice, so that its count   *)
(* includes the NUL; for an empty string it is not entered.                  *)
SetLen(s) == IF s = <<>> THEN 0 ELSE IF Len(s) < BUF_LEN THEN Len(s) + 1 ELSE BUF_LEN

(* switch (ioctl_num).  While a message is being set there is no latest one; *)
(* the empty string leaves the message as it is.                             *)
Switch(p) ==
    \/ /\ call[p] = "SET_MSG"
       /\ Goes(p, "call", "write")
       /\ frame' = [frame EXCEPT ![p].left = SetLen(frame[p].arg)]
       /\ latest' = IF frame[p].arg = <<>> THEN latest ELSE <<>>
    \/ /\ call[p] = "GET_MSG"
       /\ Goes(p, "call", "eof")
       /\ frame' = [frame EXCEPT ![p].left = GET_LEN]
       /\ UNCHANGED latest
    \/ /\ call[p] = "GET_NTH_BYTE"
       /\ Goes(p, "call", "nth")
       /\ UNCHANGED <<frame, latest>>

(* Mutant: already_open is not tested.                                       *)
device_ioctlAnyway(p) ==
    /\ already_open' = 1
    /\ Switch(p)
    /\ UNCHANGED <<message, call, offset, n>>

(* atomic_cmpxchg: one ioctl at a time; -EBUSY makes the client close the    *)
(* file and exit.                                                            *)
device_ioctl(p) ==
    /\ \/ /\ already_open = 0
          /\ already_open' = 1
          /\ Switch(p)
          /\ UNCHANGED <<call, n>>
       \/ /\ already_open = 1
          /\ Goes(p, "call", "out")
          /\ frame' = Set(frame, p, NoFrame)
          /\ call' = Set(call, p, FirstCall(p))
          /\ n' = Set(n, p, 0)
          /\ UNCHANGED <<already_open, latest>>
    /\ UNCHANGED <<message, offset>>

(* message[ioctl_param]: the parameter is not compared with anything.        *)
NthByte(p) ==
    /\ Goes(p, "nth", "leave")
    /\ \E b \in Peek(n[p]) : frame' = [frame EXCEPT ![p].seen = b]
    /\ UNCHANGED <<already_open, message, call, offset, n, latest>>

(* A load behind message[] may also fault.  The process is killed where it   *)
(* is, in an ioctl with already_open set.                                    *)
Fault(p) ==
    /\ \/ /\ \/ at[p] = "eof" /\ frame[p].start > BUF_LEN
             \/ at[p] = "test" /\ frame[p].left > 0 /\ frame[p].pos > BUF_LEN
          /\ Goes(p, at[p], "killed")
       \/ at[p] = "nth" /\ n[p] > BUF_LEN /\ Goes(p, "nth", "stuck")
    /\ frame' = Set(frame, p, NoFrame)
    /\ UNCHANGED <<already_open, message, call, offset, n, latest>>

(* Mutant: IOCTL_GET_NTH_BYTE returns from inside the switch.                *)
ReleaseDeviceNotNth(p) == already_open' = IF call[p] = "GET_NTH_BYTE" THEN already_open ELSE 0

ReleaseDevice(p) == already_open' = 0

(* The ioctl returns.  main goes on: set, the bytes up to the NUL, get, exit.*)
LeaveIoctl(p) ==
    LET done == p \notin Client \/ call[p] = "GET_MSG"
        more == call[p] = "GET_NTH_BYTE" /\ frame[p].seen # 0
    IN
    /\ Goes(p, "leave", IF done THEN "out" ELSE "call")
    /\ ReleaseDevice(p)
    /\ call' = Set(call, p, IF done THEN FirstCall(p)
                            ELSE IF call[p] = "SET_MSG" \/ more THEN "GET_NTH_BYTE" ELSE "GET_MSG")
    /\ n' = Set(n, p, IF done THEN 0 ELSE IF more THEN n[p] + 1 ELSE n[p])
    /\ latest' = IF call[p] = "SET_MSG" /\ frame[p].arg # <<>> /\ latest # Mixed
                 THEN frame[p].arg ELSE latest
    /\ frame' = Set(frame, p, NoFrame)
    /\ UNCHANGED <<message, offset>>

-----------------------------------------------------------------------------
(* User space                                                               *)

(* userspace_ioctl starts: main opens the device and has a string to set.    *)
ClientStart(p) ==
    /\ p \in Client
    /\ Goes(p, "out", "call")
    /\ \E s \in Strings : frame' = [frame EXCEPT ![p].arg = s]
    /\ UNCHANGED <<already_open, message, call, offset, n, latest>>

RawWrite(p) ==
    /\ p \in Raw
    /\ Goes(p, "out", "write")
    /\ \E s \in Strings : frame' = [frame EXCEPT ![p].arg = s, ![p].left = Len(s)]
    /\ UNCHANGED <<already_open, message, call, offset, n, latest>>

RawRead(p) ==
    /\ p \in Raw
    /\ Goes(p, "out", "eof")
    /\ \E len \in ReadLens :
          \/ frame' = [frame EXCEPT ![p].left = len, ![p].by = "read", ![p].start = offset[p]]
          \/ \E o \in Offsets :
                frame' = [frame EXCEPT ![p].left = len, ![p].by = "pread", ![p].start = o]
    /\ UNCHANGED <<already_open, message, call, offset, n, latest>>

(* IOCTL_GET_NTH_BYTE with any parameter.                                    *)
RawNth(p) ==
    /\ p \in Raw
    /\ Goes(p, "out", "call")
    /\ \E i \in Params : n' = Set(n, p, i)
    /\ UNCHANGED <<already_open, message, call, frame, offset, latest>>

Handler(p) ==
    \/ WriteByte(p) \/ WriteReturns(p)
    \/ ReadEof(p) \/ ReadTest(p) \/ ReadPut(p) \/ ReadReturns(p)
    \/ NthByte(p) \/ Fault(p) \/ LeaveIoctl(p)

Next == \E p \in Proc :
    \/ ClientStart(p) \/ RawWrite(p) \/ RawRead(p) \/ RawNth(p)
    \/ device_ioctl(p) \/ Handler(p)

Spec == Init /\ [][Next]_vars

(* A handler that has been entered runs to its end.                          *)
FairSpec == Spec /\ \A p \in Proc : WF_vars(Handler(p))

-----------------------------------------------------------------------------
(* Properties                                                               *)

(* A process is in device_ioctl, between its atomic accesses.               *)
InIoctl(p) == at[p] \in {"nth", "leave"} \/ (p \in Client /\ at[p] \in Inside)

(* The device does not talk to two processes at the same time: while one is *)
(* in the middle of setting or fetching the message no other is, in any of  *)
(* the ioctls ("Used to prevent concurrent access into the same device"),   *)
(* although others read and write the message meanwhile.                    *)
OneProcessAtATime ==
    \A p, q \in Proc : InIoctl(p) /\ InIoctl(q) => p = q

(* IOCTL_GET_MSG returns the last string that an IOCTL_SET_MSG was given,   *)
(* cut at BUF_LEN bytes, unless write() has put bytes in the message during *)
(* that ioctl or since: nothing of an older, longer message shows behind it *)
(* and nothing of two messages is mixed, although both are copied byte by   *)
(* byte.  Empty strings do not count: the ioctl is to "set that to be the   *)
(* device's message", but given an empty string it leaves the old one.      *)
LatestMessage ==
    \A p \in Client : at[p] = "leave" /\ call[p] = "GET_MSG" /\ latest # Mixed =>
        frame[p].out = SubSeq(latest, 1, IF Len(latest) < BUF_LEN THEN Len(latest) ELSE BUF_LEN)

(* Who may leave message[].  Whatever read, write and ioctl calls           *)
(* interleave, its last byte stays NUL; f_pos, device_write and the loop of *)
(* ioctl_get_nth_byte stay inside; and device_read, copying byte by byte    *)
(* what others overwrite meanwhile, goes past the end only if it was        *)
(* started there, by a pread() with an offset beyond BUF_LEN.  Such an      *)
(* offset, like such a parameter of IOCTL_GET_NTH_BYTE, is not looked at.   *)
NeverPastTheEnd ==
    /\ message[BUF_LEN] = 0
    /\ \A p \in Proc :
          /\ offset[p] <= BUF_LEN
          /\ p \in Client => n[p] <= BUF_LEN
          /\ at[p] = "write" => frame[p].pos <= BUF_LEN
          /\ at[p] \in {"put", "test"} /\ frame[p].pos > BUF_LEN =>
                frame[p].by = "pread" /\ frame[p].start > BUF_LEN

(* An ioctl gives the device back on every path through the switch, so that *)
(* no later caller finds it busy for ever, unless the caller was killed by  *)
(* the load behind message[] that it asked for: then nobody clears          *)
(* already_open.                                                            *)
DeviceFreed ==
    (already_open = 1) ~> (already_open = 0 \/ \E p \in Raw : at[p] = "stuck")
=============================================================================
