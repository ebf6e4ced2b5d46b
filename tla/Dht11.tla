-------------------------------- MODULE Dht11 -------------------------------
(***************************************************************************)
(* examples/dht11.c: a driver that reads a humidity and temperature sensor  *)
(* when its device is opened, over one pin that both sides drive.           *)
(*                                                                          *)
(* The driver drives the pin low for 20 ms, releases it, and then watches   *)
(* the sensor: a low and a high level as an answer, and for each bit a low  *)
(* level and a high one that is shorter (0) or longer (1) than the 50 us    *)
(* after which the driver looks again.  Nothing keeps the driver from being *)
(* preempted in between, or two processes from opening the device at once.  *)
(*                                                                          *)
(* The sensor (external) is a position in the sequence of levels it sends.  *)
(* It leaves a level when everybody who watches has noticed it, which is    *)
(* what the delays ensure, or else somebody has been too slow: a slip.      *)
(***************************************************************************)
EXTENDS Naturals, Sequences

CONSTANTS
    Proc,            \* the processes that open the device
    Width,           \* the bits of a byte
    Readings,        \* what the sensor may measure: four bytes
    Retries,         \* the attempts that device_open makes (5)
    ReadLens,        \* the lengths user space passes to read()
    MaxSlips,        \* bound: how often somebody is too slow
    MaxOpens         \* bound: how often the device is opened

ASSUME Dht11Assumption ==
    /\ Width \in Nat \ {0}
    /\ Readings \subseteq [1 .. 4 -> 0 .. 2^Width - 1]
    /\ Retries \in Nat \ {0}
    /\ ReadLens \subseteq Nat \ {0}
    /\ MaxSlips \in Nat /\ MaxOpens \in Nat \ {0}
    /\ 0 \notin Proc

(* What a proof has to be told of powers of two.                            *)
ASSUME PowersOfTwo ==
    /\ 2^0 = 1
    /\ \A k \in 0 .. Width : 2^k \in Nat \ {0} /\ 2^(k + 1) = 2 * 2^k

VARIABLES
    pin,             \* is the pin an output, and the value set for it
    pulled,          \* the process that has pulled the line low, or 0
    sensor,          \* has it heard a start signal, where it is, what it sends
    at,              \* where each process is in device_open
    retry,           \* the attempts that it has begun
    got,             \* the bits it has read
    msg,             \* msg[]: humidity and temperature
    file,            \* its open file: the position, the bytes read, and
                     \* what its open has put into msg; a read has
                     \* returned 0
    from,            \* the bits the sensor was sending when it noticed an answer
    alone,           \* nobody else has called device_open since it did
    slips,           \* how often somebody was too slow, and how often the
    opens            \* device was opened, since it was last unused

vars == <<pin, pulled, sensor, at, retry, got, msg, file, from, alone, slips, opens>>

N     == 5 * Width                      \* the bits of a transfer
Bytes == 0 .. 2^Width - 1

(* Byte j of a sequence of bits, the most significant bit first: each bit   *)
(* is shifted into a variable of Width bits.                                *)
Byte(bits, j) ==
    LET value[i \in 0 .. Width] ==
            IF i = 0 THEN 0
            ELSE (2 * value[i - 1] + bits[(j - 1) * Width + i]) % 2^Width
    IN value[Width]

Sum(bits) == Byte(bits, 1) + Byte(bits, 2) + Byte(bits, 3) + Byte(bits, 4)

(* The bits of a reading and of its checksum.                               *)
Frame(m) ==
    LET byte(j) == IF j = 5 THEN (m[1] + m[2] + m[3] + m[4]) % 2^Width ELSE m[j] IN
    [i \in 1 .. N |-> (byte((i - 1) \div Width + 1) \div 2^(Width - 1 - ((i - 1) % Width))) % 2]

(* The text: two numbers, of which 0 stands for those of one digit.         *)
Digits(k)  == IF k > 0 THEN <<k, k>> ELSE <<k>>
Text(m)    == Digits(m[1]) \o Digits(m[2])

Waiting == {"reply", "ready", "go", "bitlow", "bithigh"}
Inside  == {"start", "low", "high", "sample", "check", "sleep", "sprintf"} \cup Waiting
Closed  == [offset |-> 0, out |-> <<>>, own |-> <<>>, eof |-> FALSE]

(* What the sensor sends, and nothing.                                      *)
Sendings == {Frame(m) : m \in Readings} \cup {<<>>}

TypeOK ==
    /\ pin \in [out : BOOLEAN, value : {0, 1}]
    /\ pulled \in Proc \cup {0}
    /\ sensor \in [heard : BOOLEAN, pos : 0 .. 2 * N + 3, bits : Sendings]
    /\ at \in [Proc -> Inside \cup {"out", "open"}]
    /\ retry \in [Proc -> 0 .. Retries]
    /\ got \in [Proc -> Seq({0, 1})]
    /\ \A p \in Proc : Len(got[p]) <= N
    /\ file \in [Proc -> [offset : 0 .. 4, out : Seq(Bytes), own : Seq(Bytes), eof : BOOLEAN]]
    /\ from \in [Proc -> Sendings]
    /\ msg \in [1 .. 2 -> Bytes]
    /\ alone \in [Proc -> BOOLEAN]
    /\ slips \in 0 .. MaxSlips /\ opens \in 0 .. MaxOpens

(* After dht11_init, which makes the pin an output.                         *)
Init ==
    /\ pin = [out |-> TRUE, value |-> 1]
    /\ pulled = 0
    /\ sensor = [heard |-> FALSE, pos |-> 0, bits |-> <<>>]
    /\ at = [p \in Proc |-> "out"]
    /\ retry = [p \in Proc |-> 0]
    /\ got = [p \in Proc |-> <<>>]
    /\ msg = [i \in 1 .. 2 |-> 0]
    /\ file = [p \in Proc |-> Closed]
    /\ from = [p \in Proc |-> <<>>]
    /\ alone = [p \in Proc |-> TRUE]
    /\ slips = 0 /\ opens = 0

Goes(p, to) == at' = [at EXCEPT ![p] = to]

-----------------------------------------------------------------------------
(* The line and the sensor                                                  *)

(* Position 0 is the released line, 1 and 2 are the answer, 2k + 1 and      *)
(* 2k + 2 are bit k, and 2N + 3 is the low level that ends the transfer.    *)
Sent == IF sensor.pos % 2 = 1 THEN 0 ELSE 1

(* The levels that gpio_get_value may see: two when both sides drive.       *)
Line == IF pin.out THEN {pin.value, IF Sent = 0 THEN 0 ELSE pin.value} ELSE {Sent}

ZeroBitHigh ==
    /\ sensor.pos > 3 /\ sensor.pos % 2 = 0
    /\ sensor.bits[(sensor.pos - 2) \div 2] = 0

(* The line that was pulled low goes up: a start signal for the sensor when *)
(* it lasted 20 ms; when others have shortened it, perhaps.                 *)
Rises(sure) ==
    /\ pulled' = 0
    /\ \E heard \in IF sure THEN {TRUE} ELSE BOOLEAN :
          sensor' = [sensor EXCEPT !.heard = @ \/ (heard /\ sensor.pos = 0)]

SetPin(out, value, sure) ==
    /\ pin' = [out |-> out, value |-> value]
    /\ IF pulled # 0 /\ (~out \/ value = 1) THEN Rises(sure) ELSE UNCHANGED <<pulled, sensor>>

gpio_direction_output(p) == SetPin(TRUE, 1, FALSE)

gpio_direction_input(p)  == SetPin(FALSE, pin.value, FALSE)

Wanted(p) == IF at[p] \in {"reply", "go", "bitlow"} THEN 0 ELSE 1

(* The driver's next look at the line is due before the sensor moves on.    *)
Due(p) ==
    \/ at[p] = "high" /\ sensor.pos = 1
    \/ at[p] \in Waiting /\ Line = {Wanted(p)}
    \/ at[p] = "sample" /\ (pin.out \/ ~ZeroBitHigh)

(* A delay of 10 ms or more outlasts all that the sensor has to say, unless *)
(* another process makes it say more.                                       *)
Elapsed(p) ==
    \/ sensor.pos = 0 /\ ~sensor.heard
    \/ \E q \in Proc \ {p} : at[q] \in Inside

Answer ==
    /\ sensor.heard
    /\ \E m \in Readings : sensor' = [heard |-> FALSE, pos |-> 1, bits |-> Frame(m)]
    /\ UNCHANGED <<pin, pulled, at, retry, got, msg, file, from, alone, slips, opens>>

(* The sensor may have nothing to say (it measures once a second).          *)
StaySilent ==
    /\ sensor.heard
    /\ sensor' = [sensor EXCEPT !.heard = FALSE]
    /\ UNCHANGED <<pin, pulled, at, retry, got, msg, file, from, alone, slips, opens>>

NextLevel ==
    /\ sensor.pos > 0
    /\ sensor' = IF sensor.pos = 2 * N + 3 THEN [sensor EXCEPT !.pos = 0, !.bits = <<>>]
                 ELSE [sensor EXCEPT !.pos = @ + 1]
    /\ slips' = IF \E p \in Proc : Due(p) THEN slips + 1 ELSE slips
    /\ slips' <= MaxSlips
    /\ UNCHANGED <<pin, pulled, at, retry, got, msg, file, from, alone, opens>>

-----------------------------------------------------------------------------
(* dht11_read_data                                                          *)

(* gpio_set_value(pin, 0): nothing happens on the line of an input.         *)
SetLow(p) ==
    /\ at[p] = "start" /\ Goes(p, "low")
    /\ got' = [got EXCEPT ![p] = <<>>]
    /\ pin' = [pin EXCEPT !.value = 0]
    /\ pulled' = IF pin.out /\ pulled = 0 THEN p ELSE pulled
    /\ UNCHANGED <<sensor, retry, msg, file, from, alone, slips, opens>>

(* 20 ms later.                                                             *)
SetHigh(p) ==
    /\ at[p] = "low" /\ Elapsed(p) /\ Goes(p, "high")
    /\ SetPin(pin.out, 1, pulled = p)
    /\ UNCHANGED <<retry, got, msg, file, from, alone, slips, opens>>

Listen(p) ==
    /\ at[p] = "high" /\ Goes(p, "reply")
    /\ gpio_direction_input(p)
    /\ UNCHANGED <<retry, got, msg, file, from, alone, slips, opens>>

(* A wait ends: the line has the level that the driver waits for.           *)
Notice(p) ==
    /\ at[p] \in Waiting /\ Wanted(p) \in Line
    /\ Goes(p, CASE at[p] = "reply" -> "ready" [] at[p] = "ready" -> "go"
                 [] at[p] = "go" -> "bitlow" [] at[p] = "bitlow" -> "bithigh"
                 [] at[p] = "bithigh" -> "sample")
    /\ from' = IF at[p] = "reply" THEN [from EXCEPT ![p] = sensor.bits] ELSE from
    /\ UNCHANGED <<pin, pulled, sensor, retry, got, msg, file, alone, slips, opens>>

(* udelay(50): the high level of a 0 is over.                               *)
Sample(p) ==
    /\ at[p] = "sample" /\ (pin.out \/ ~ZeroBitHigh)
    /\ \E level \in Line : got' = [got EXCEPT ![p] = Append(@, level)]
    /\ Goes(p, IF Len(got[p]) + 1 < N THEN "bitlow" ELSE "check")
    /\ UNCHANGED <<pin, pulled, sensor, retry, msg, file, from, alone, slips, opens>>

(* Mutant: a failed attempt makes the pin an output again.                  *)
FailsRestored(p) ==
    /\ Goes(p, "sleep")
    /\ gpio_direction_output(p)
    /\ UNCHANGED <<retry, got, msg, file, from, alone, slips, opens>>

(* Another attempt has failed, with the pin as it is.                       *)
Fails(p) ==
    /\ Goes(p, "sleep")
    /\ UNCHANGED <<pin, pulled, sensor, retry, got, msg, file, from, alone, slips, opens>>

(* 300 us have passed: no level lasts that long unless the sensor is silent *)
(* or somebody drives the line.                                             *)
TimedOut(p) ==
    /\ at[p] \in Waiting /\ Line # {Wanted(p)}
    /\ pin.out \/ (sensor.pos = 0 /\ ~sensor.heard)
    /\ Fails(p)

(* Mutant: the sum is not looked at.                                        *)
ChecksumOKNot(bits) == TRUE

ChecksumOK(bits) == Byte(bits, 5) = Sum(bits) % 2^Width

WrongSum(p) == at[p] = "check" /\ ~ChecksumOK(got[p]) /\ Fails(p)

RightSum(p) ==
    /\ at[p] = "check" /\ ChecksumOK(got[p]) /\ Goes(p, "sprintf")
    /\ gpio_direction_output(p)
    /\ UNCHANGED <<retry, got, msg, file, from, alone, slips, opens>>

Shown(bits) == <<Byte(bits, 1), Byte(bits, 3)>>

(* The local variables of device_open are gone.                             *)
Forget(p) ==
    /\ retry' = [retry EXCEPT ![p] = 0]
    /\ got' = [got EXCEPT ![p] = <<>>]
    /\ from' = [from EXCEPT ![p] = <<>>]

(* sprintf, and device_open returns 0.                                      *)
Sprintf(p) ==
    /\ at[p] = "sprintf" /\ Goes(p, "open")
    /\ msg' = Shown(got[p])
    /\ file' = [file EXCEPT ![p].own = Shown(got[p])]
    /\ Forget(p)
    /\ UNCHANGED <<pin, pulled, sensor, alone, slips, opens>>

-----------------------------------------------------------------------------
(* device_open, device_read, device_release                                 *)

(* The counters start again when the device is not in use.                  *)
Unused == (\A p \in Proc : at[p] = "out") /\ sensor.pos = 0 /\ ~sensor.heard

device_open(p) ==
    /\ at[p] = "out" /\ Goes(p, "start")
    /\ Unused \/ opens < MaxOpens
    /\ opens' = IF Unused THEN 1 ELSE opens + 1
    /\ slips' = IF Unused THEN 0 ELSE slips
    /\ retry' = [retry EXCEPT ![p] = 0]
    /\ alone' = [q \in Proc |->
          IF q = p THEN \A r \in Proc : at[r] \notin Inside ELSE at[q] = "out"]
    /\ UNCHANGED <<pin, pulled, sensor, got, msg, file, from>>

(* Mutant: the attempts are not counted.                                    *)
RetryUncounted(p) ==
    /\ at[p] = "sleep" /\ Elapsed(p) /\ retry[p] + 1 < Retries /\ Goes(p, "start")
    /\ UNCHANGED <<pin, pulled, sensor, retry, got, msg, file, from, alone, slips, opens>>

(* msleep(10) is over, and there is an attempt left.                        *)
Retry(p) ==
    /\ at[p] = "sleep" /\ Elapsed(p) /\ retry[p] + 1 < Retries /\ Goes(p, "start")
    /\ retry' = [retry EXCEPT ![p] = @ + 1]
    /\ UNCHANGED <<pin, pulled, sensor, got, msg, file, from, alone, slips, opens>>

(* Mutant: the pin stays what it is.                                        *)
GiveUpAsIs(p) ==
    /\ at[p] = "sleep" /\ Elapsed(p) /\ retry[p] + 1 = Retries /\ Goes(p, "out")
    /\ Forget(p)
    /\ alone' = [alone EXCEPT ![p] = TRUE]
    /\ UNCHANGED <<pin, pulled, sensor, msg, file, slips, opens>>

GiveUp(p) ==
    /\ at[p] = "sleep" /\ Elapsed(p) /\ retry[p] + 1 = Retries /\ Goes(p, "out")
    /\ gpio_direction_output(p)
    /\ Forget(p)
    /\ alone' = [alone EXCEPT ![p] = TRUE]
    /\ UNCHANGED <<msg, file, slips, opens>>

(* Mutant: the test for the end is off by one.                              *)
AtEndTooEarly(offset) == offset + 1 >= Len(Text(msg))

AtEnd(offset) == offset >= Len(Text(msg))

device_read(p, length) ==
    LET f == file[p]
        n == Len(Text(msg)) - f.offset
        k == IF length < n THEN length ELSE n IN
    /\ at[p] = "open" /\ ~f.eof
    /\ file' = IF AtEnd(f.offset) THEN [file EXCEPT ![p].eof = TRUE]
               ELSE [file EXCEPT
                       ![p].offset = @ + k,
                       ![p].out = @ \o SubSeq(Text(msg), f.offset + 1, f.offset + k)]
    /\ UNCHANGED <<pin, pulled, sensor, at, retry, got, msg, from, alone, slips, opens>>

device_release(p) ==
    /\ at[p] = "open" /\ Goes(p, "out")
    /\ file' = [file EXCEPT ![p] = Closed]
    /\ alone' = [alone EXCEPT ![p] = TRUE]
    /\ UNCHANGED <<pin, pulled, sensor, retry, got, msg, from, slips, opens>>

Transfer(p) == \/ SetLow(p) \/ SetHigh(p) \/ Listen(p) \/ Notice(p) \/ Sample(p)
               \/ TimedOut(p) \/ WrongSum(p) \/ RightSum(p) \/ Sprintf(p)

Opening(p) == Transfer(p) \/ Retry(p) \/ GiveUp(p)

Sensor == Answer \/ StaySilent \/ NextLevel

Next ==
    \/ Sensor
    \/ \E p \in Proc : \/ device_open(p) \/ Opening(p) \/ device_release(p)
                       \/ \E length \in ReadLens : device_read(p, length)

Spec == Init /\ [][Next]_vars

FairSpec == Spec /\ WF_vars(Sensor) /\ \A p \in Proc : WF_vars(Opening(p))
-----------------------------------------------------------------------------
(* Properties                                                               *)

(* When no process is inside device_open the pin is an output again and     *)
(* high, so that the next open can give its start signal, whatever way the  *)
(* opens before it ended and however they overlapped.                       *)
PinRestored ==
    /\ TypeOK
    /\ (\A p \in Proc : at[p] \notin Inside) => pin = [out |-> TRUE, value |-> 1]

Wrong(p) == {i \in 1 .. N : got[p][i] # from[p][i]}

Punctual(p) == alone[p] /\ slips = 0 /\ at[p] \in Inside

NothingMisread(p) == \A i \in 1 .. Len(got[p]) : from[p] # <<>> /\ got[p][i] = from[p][i]

(* An open that returns 0 has what the sensor sent, if no more than one bit *)
(* was misread: the sum modulo the width of a byte catches every single     *)
(* wrong bit, also one in the sum itself.  A process that is alone and      *)
(* never too slow misreads nothing: the waits for the answer and the bits,  *)
(* and the look after 50 us, fit the levels of the sensor one by one, and   *)
(* the sum is right.                                                        *)
ReadingIsRight ==
    \A p \in Proc :
        /\ at[p] = "sprintf" /\ from[p] # <<>> =>
              \A i \in 1 .. N : Wrong(p) \subseteq {i} => Wrong(p) = {}
        /\ Punctual(p) => NothingMisread(p) /\ (at[p] = "check" => ChecksumOK(got[p]))

(* A process that is alone succeeds at its first attempt or not at all: the *)
(* attempt that failed has left the pin an input, so the ones that follow   *)
(* send no start signal.                                                    *)
RetryIsInVain ==
    \A p \in Proc : alone[p] /\ at[p] = "sprintf" => retry[p] = 0

(* A process reads, piece by piece, the reading that its own open has made, *)
(* unless another process opens the device before it has closed it.         *)
ReadsOwnReading ==
    \A p \in Proc : at[p] = "open" /\ alone[p] =>
        /\ msg = file[p].own
        /\ file[p].out = SubSeq(Text(msg), 1, file[p].offset)
        /\ file[p].eof => file[p].out = Text(msg)

(* Every open returns: no wait for the sensor is endless, and the attempts  *)
(* come to an end.                                                          *)
OpenReturns == \A p \in Proc : at[p] \in Inside ~> at[p] \notin Inside
=============================================================================
