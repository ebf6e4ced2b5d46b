---------------------------- MODULE Dht11Proofs -----------------------------
(***************************************************************************)
(* dht11.c for any number of processes, any readings, any width of a byte   *)
(* and any number of attempts and late looks: the pin is restored, what an  *)
(* open reports is what the sensor sent unless two bits were misread, and   *)
(* a reader gets the reading of its own open.                               *)
(***************************************************************************)
EXTENDS Dht11, SequenceTheorems, NaturalsInduction, WellFoundedInduction, TLAPS

(* A set of natural numbers that is not empty has a least member: the form  *)
(* of induction that the proofs below use.                                  *)
LEMMA LeastMember ==
    ASSUME NEW T \in SUBSET Nat, T # {}
    PROVE  \E x \in T : \A y \in T : x <= y
<1> DEFINE R == OpToRel(<, Nat)
<1>1. IsWellFoundedOn(R, Nat)
  BY NatLessThanWellFounded
<1>2. \A x, y \in Nat : <<x, y>> \in R <=> x < y
  BY DEF OpToRel
<1> HIDE DEF R
<1>3. PICK x \in T : \A y \in T : ~ (<<y, x>> \in R)
  BY <1>1, WFMin
<1>4. \A y \in T : x <= y
  <2> TAKE y \in T
  <2>1. x \in Nat /\ y \in Nat /\ ~ (<<y, x>> \in R)
    BY <1>3
  <2>2. ~ (y < x)
    BY <1>2, <2>1
  <2> QED
    BY <2>1, <2>2
<1> QED
  BY <1>4

-----------------------------------------------------------------------------
(* The bits of a byte                                                       *)

(* The values of the byte while w bits are shifted in.                      *)
Shifts(bits, j, w, f) ==
    f = [i \in 0 .. w |-> IF i = 0 THEN 0
                          ELSE (2 * f[i - 1] + bits[(j - 1) * Width + i]) % 2^Width]

(* There are such values for every number of bits: the recursion of Byte is *)
(* well-defined.                                                            *)
LEMMA ShiftsExist ==
    ASSUME NEW bits, NEW j, NEW w \in Nat
    PROVE  \E f : Shifts(bits, j, w, f)
<1> DEFINE T == {v \in Nat : ~ \E f : Shifts(bits, j, v, f)}
<1>1. ASSUME T # {} PROVE FALSE
  <2>1. PICK v \in T : \A y \in T : v <= y
    BY <1>1, LeastMember
  <2>2. CASE v = 0
    <3> DEFINE f == [i \in 0 .. 0 |-> 0]
    <3>1. Shifts(bits, j, 0, f)
      BY DEF Shifts
    <3> QED
      BY <2>1, <2>2, <3>1
  <2>3. CASE v # 0
    <3>1. v - 1 \in Nat /\ v - 1 \notin T
      BY <2>1, <2>3
    <3>2. PICK g : Shifts(bits, j, v - 1, g)
      BY <3>1
    <3> DEFINE b == (2 * g[v - 1] + bits[(j - 1) * Width + v]) % 2^Width
               f == [i \in 0 .. v |-> IF i = v THEN b ELSE g[i]]
    <3>3. ASSUME NEW i \in 0 .. v
          PROVE  f[i] = IF i = 0 THEN 0 ELSE (2 * f[i - 1] + bits[(j - 1) * Width + i]) % 2^Width
      <4>1. CASE i = v
        BY <2>3, <3>1, <4>1
      <4>2. CASE i # v
        <5>1. i \in 0 .. v - 1
          BY <2>1, <4>2
        <5>2. g[i] = IF i = 0 THEN 0 ELSE (2 * g[i - 1] + bits[(j - 1) * Width + i]) % 2^Width
          BY <3>2, <5>1 DEF Shifts
        <5>3. i # 0 => f[i - 1] = g[i - 1]
          BY <2>1, <5>1
        <5> QED
          BY <4>2, <5>2, <5>3
      <4> QED
        BY <4>1, <4>2
    <3>4. f = [i \in 0 .. v |-> f[i]]
      OBVIOUS
    <3> HIDE DEF f
    <3>5. Shifts(bits, j, v, f)
      BY <3>3, <3>4 DEF Shifts
    <3> QED
      BY <2>1, <3>5
  <2> QED
    BY <2>2, <2>3
<1> QED
  BY <1>1

(* The values that Byte goes through.                                       *)
LEMMA ByteShifts ==
    ASSUME NEW bits, NEW j
    PROVE  \E f : Shifts(bits, j, Width, f) /\ Byte(bits, j) = f[Width]
<1> DEFINE f == CHOOSE g : Shifts(bits, j, Width, g)
<1>1. Byte(bits, j) = f[Width]
  BY DEF Byte, Shifts
<1>2. \E g : Shifts(bits, j, Width, g)
  BY ShiftsExist, Dht11Assumption
<1>3. Shifts(bits, j, Width, f)
  BY <1>2
<1> QED
  BY <1>1, <1>3

(* A byte of N bits is a byte.                                              *)
LEMMA ByteType ==
    ASSUME NEW bits \in Seq({0, 1}), Len(bits) = N, NEW j \in 1 .. 5
    PROVE  Byte(bits, j) \in Bytes
<1>1. PICK f : Shifts(bits, j, Width, f) /\ Byte(bits, j) = f[Width]
  BY ByteShifts
<1>2. Width \in Nat /\ 2^Width \in Nat \ {0}
  BY Dht11Assumption, PowersOfTwo
<1>3. \A i \in 1 .. Width : (j - 1) * Width + i \in 1 .. N
  BY <1>2 DEF N
<1>4. \A i \in 1 .. Width : bits[(j - 1) * Width + i] \in Nat
  BY <1>3
<1>5. 0 \in Bytes /\ \A x \in Nat : x % 2^Width \in Bytes
  BY <1>2 DEF Bytes
<1>6. Bytes \subseteq Nat
  BY <1>2 DEF Bytes
<1> DEFINE T == {i \in Nat : i <= Width /\ f[i] \notin Bytes}
<1>7. ASSUME T # {} PROVE FALSE
  <2>1. PICK v \in T : \A y \in T : v <= y
    BY <1>7, LeastMember
  <2>2. v # 0
    BY <1>1, <1>2, <1>5, <2>1 DEF Shifts
  <2>3. v - 1 \in 0 .. Width /\ f[v - 1] \in Bytes /\ v \in 1 .. Width
    BY <1>2, <2>1, <2>2
  <2>4. f[v] = (2 * f[v - 1] + bits[(j - 1) * Width + v]) % 2^Width
    BY <1>1, <2>2, <2>3 DEF Shifts
  <2>5. 2 * f[v - 1] + bits[(j - 1) * Width + v] \in Nat
    <3>1. PICK x \in Nat : x = f[v - 1]
      BY <1>6, <2>3
    <3>2. PICK y \in Nat : y = bits[(j - 1) * Width + v]
      BY <1>4, <2>3
    <3> QED
      BY <3>1, <3>2
  <2> QED
    BY <1>5, <2>1, <2>4, <2>5
<1> QED
  BY <1>1, <1>2, <1>7

-----------------------------------------------------------------------------
(* Types                                                                    *)

PinType    == [out : BOOLEAN, value : {0, 1}]
SensorType == [heard : BOOLEAN, pos : 0 .. 2 * N + 3, bits : Sendings]
FileType   == [offset : 0 .. 4, out : Seq(Bytes), own : Seq(Bytes), eof : BOOLEAN]

(* How many bits a process has read at each point of device_open, and that  *)
(* its file is fresh until device_open returns.                             *)
Steps(p) ==
    /\ at[p] \in {"out", "open", "low", "high", "reply", "ready", "go"} => got[p] = <<>>
    /\ at[p] \in {"bitlow", "bithigh", "sample"} => Len(got[p]) < N
    /\ at[p] \in {"check", "sprintf"} => Len(got[p]) = N
    /\ at[p] # "open" => file[p] = Closed

TInv == TypeOK /\ \A p \in Proc : Steps(p)

(* The numbers that bound the model.                                        *)
LEMMA Sizes ==
    /\ N \in Nat /\ N > 0
    /\ Retries \in Nat /\ Retries > 0 /\ MaxSlips \in Nat /\ MaxOpens \in Nat /\ MaxOpens > 0
    /\ 0 \in Bytes /\ <<>> \in Sendings /\ Closed \in FileType
<1>1. Width \in Nat /\ Width > 0 /\ Retries \in Nat /\ Retries > 0 /\ MaxSlips \in Nat /\ MaxOpens \in Nat /\ MaxOpens > 0
  BY Dht11Assumption
<1>2. N \in Nat /\ N > 0
  BY <1>1 DEF N
<1>3. 0 \in Bytes
  BY PowersOfTwo, <1>1 DEF Bytes
<1>4. <<>> \in Sendings
  BY DEF Sendings
<1>5. Closed \in FileType
  BY DEF Closed, FileType
<1> QED
  BY <1>1, <1>2, <1>3, <1>4, <1>5

(* gpio_direction_output, gpio_direction_input and gpio_set_value: the pin, *)
(* and what the sensor may notice.                                          *)
LEMMA SetPinFacts ==
    ASSUME TypeOK, NEW o \in BOOLEAN, NEW v \in {0, 1}, NEW sure \in BOOLEAN, SetPin(o, v, sure)
    PROVE  /\ pin' = [out |-> o, value |-> v] /\ pin' \in PinType
           /\ pulled' \in Proc \cup {0}
           /\ pulled = 0 => pulled' = 0 /\ sensor' = sensor
           /\ ~o => pulled' = 0
           /\ sensor' \in SensorType
           /\ sensor'.pos = sensor.pos /\ sensor'.bits = sensor.bits
           /\ sensor.pos > 0 => sensor' = sensor
<1>1. pin' = [out |-> o, value |-> v] /\ pin' \in PinType
  BY DEF SetPin, PinType
<1>2. sensor \in SensorType /\ pulled \in Proc \cup {0}
  BY DEF TypeOK, SensorType
<1>3. CASE pulled # 0 /\ (~o \/ v = 1)
  <2>1. pulled' = 0
    BY <1>3 DEF SetPin, Rises
  <2>2. PICK h \in BOOLEAN : sensor' = [sensor EXCEPT !.heard = @ \/ (h /\ sensor.pos = 0)]
    <3>1. (IF sure THEN {TRUE} ELSE BOOLEAN) \subseteq BOOLEAN
      OBVIOUS
    <3>2. \E h \in IF sure THEN {TRUE} ELSE BOOLEAN :
             sensor' = [sensor EXCEPT !.heard = @ \/ (h /\ sensor.pos = 0)]
      BY <1>3, Zenon DEF SetPin, Rises
    <3> QED
      BY <3>1, <3>2, Zenon
  <2> DEFINE b == sensor.heard \/ (h /\ sensor.pos = 0)
  <2>3. b \in BOOLEAN /\ sensor' = [sensor EXCEPT !.heard = b]
    BY <2>2
  <2> HIDE DEF b
  <2>4. sensor' \in SensorType /\ sensor'.pos = sensor.pos /\ sensor'.bits = sensor.bits
    BY <1>2, <2>3 DEF SensorType
  <2>5. ASSUME sensor.pos > 0 PROVE sensor' = sensor
    <3>1. b = sensor.heard
      <4>1. sensor.pos # 0
        BY <1>2, <2>5 DEF SensorType
      <4>2. sensor.heard \in BOOLEAN
        BY <1>2 DEF SensorType
      <4> QED
        BY <4>1, <4>2, Zenon DEF b
    <3> QED
      BY <1>2, <2>3, <3>1 DEF SensorType
  <2> QED
    BY <1>1, <1>3, <2>1, <2>4, <2>5
<1>4. CASE ~(pulled # 0 /\ (~o \/ v = 1))
  <2>1. pulled' = pulled /\ sensor' = sensor
    BY <1>4 DEF SetPin
  <2> QED
    BY <1>1, <1>2, <1>4, <2>1
<1> QED
  BY <1>3, <1>4

(* The variables of one process change, and only they.                      *)
Moves(p) ==
    /\ at' = [at EXCEPT ![p] = at'[p]] /\ got' = [got EXCEPT ![p] = got'[p]]
    /\ file' = [file EXCEPT ![p] = file'[p]] /\ from' = [from EXCEPT ![p] = from'[p]]
    /\ retry' = [retry EXCEPT ![p] = retry'[p]]

(* What has to be shown of a step of p.                                     *)
LEMMA MoverKeeps ==
    ASSUME TInv, NEW p \in Proc, Moves(p),
           at'[p] \in Inside \cup {"out", "open"},
           got'[p] \in Seq({0, 1}) /\ Len(got'[p]) <= N,
           file'[p] \in FileType, from'[p] \in Sendings, retry'[p] \in 0 .. Retries,
           pin' \in PinType, pulled' \in Proc \cup {0}, sensor' \in SensorType,
           msg' \in [1 .. 2 -> Bytes], alone' \in [Proc -> BOOLEAN],
           slips' \in 0 .. MaxSlips, opens' \in 0 .. MaxOpens,
           Steps(p)'
    PROVE  TInv'
<1>1. /\ at' \in [Proc -> Inside \cup {"out", "open"}] /\ got' \in [Proc -> Seq({0, 1})]
      /\ file' \in [Proc -> FileType] /\ from' \in [Proc -> Sendings]
      /\ retry' \in [Proc -> 0 .. Retries]
  BY DEF TInv, TypeOK, Moves, FileType
<1>2. ASSUME NEW q \in Proc, q # p
      PROVE  at'[q] = at[q] /\ got'[q] = got[q] /\ file'[q] = file[q]
  BY <1>2 DEF TInv, TypeOK, Moves
<1>3. ASSUME NEW q \in Proc PROVE Steps(q)' /\ Len(got'[q]) <= N
  BY <1>2 DEF TInv, TypeOK, Steps
<1>4. TypeOK'
  BY <1>1, <1>3 DEF TypeOK, PinType, SensorType, FileType
<1> QED
  BY <1>3, <1>4 DEF TInv

(* What holds of a process and of the rest before a step.                   *)
LEMMA Here ==
    ASSUME TInv, NEW p \in Proc
    PROVE  /\ TypeOK /\ Steps(p)
           /\ at[p] \in Inside \cup {"out", "open"}
           /\ got[p] \in Seq({0, 1}) /\ Len(got[p]) <= N /\ Len(got[p]) \in Nat
           /\ file[p] \in FileType /\ from[p] \in Sendings /\ retry[p] \in 0 .. Retries
           /\ pin \in PinType /\ pulled \in Proc \cup {0} /\ sensor \in SensorType
           /\ msg \in [1 .. 2 -> Bytes] /\ alone \in [Proc -> BOOLEAN]
           /\ slips \in 0 .. MaxSlips /\ opens \in 0 .. MaxOpens
BY DEF TInv, TypeOK, PinType, SensorType, FileType

(* The steps of the sensor.                                                 *)
LEMMA SensorKeeps ==
    ASSUME TInv, Sensor
    PROVE  TInv' /\ UNCHANGED <<pin, pulled, at, retry, got, msg, file, from, alone, opens>>
<1>0. sensor \in SensorType /\ N \in Nat /\ slips \in 0 .. MaxSlips /\ MaxSlips \in Nat
  BY Sizes DEF TInv, TypeOK, SensorType
<1>1. UNCHANGED <<pin, pulled, at, retry, got, msg, file, from, alone, opens>>
  BY DEF Sensor, Answer, StaySilent, NextLevel
<1>2. sensor' \in SensorType /\ slips' \in 0 .. MaxSlips
  <2>1. CASE Answer
    <3>1. PICK m \in Readings : sensor' = [heard |-> FALSE, pos |-> 1, bits |-> Frame(m)]
      BY <2>1 DEF Answer
    <3> QED
      BY <1>0, <2>1, <3>1 DEF Answer, SensorType, Sendings
  <2>2. CASE StaySilent
    BY <1>0, <2>2 DEF StaySilent, SensorType
  <2>3. CASE NextLevel
    <3>1. slips' \in 0 .. MaxSlips
      BY <1>0, <2>3 DEF NextLevel
    <3>2. CASE sensor.pos = 2 * N + 3
      <4>1. sensor' = [sensor EXCEPT !.pos = 0, !.bits = <<>>]
        BY <2>3, <3>2 DEF NextLevel
      <4>2. <<>> \in Sendings /\ 0 \in 0 .. 2 * N + 3
        BY <1>0, Sizes
      <4> DEFINE e == <<>>
      <4> HIDE DEF e
      <4>3. sensor' = [sensor EXCEPT !.pos = 0, !.bits = e] /\ e \in Sendings
        BY <4>1, <4>2 DEF e
      <4> QED
        BY <1>0, <3>1, <4>2, <4>3 DEF SensorType
    <3>3. CASE sensor.pos # 2 * N + 3
      <4> DEFINE x == sensor.pos + 1
      <4>1. sensor' = [sensor EXCEPT !.pos = x] /\ x \in 0 .. 2 * N + 3
        BY <1>0, <2>3, <3>3 DEF NextLevel, SensorType
      <4> HIDE DEF x
      <4> QED
        BY <1>0, <3>1, <4>1 DEF SensorType
    <3> QED
      BY <3>2, <3>3
  <2> QED
    BY <2>1, <2>2, <2>3 DEF Sensor
<1> QED
  BY <1>1, <1>2 DEF TInv, TypeOK, Steps, SensorType

(* The start signal: SetLow, SetHigh and Listen.                            *)
LEMMA StartKeeps ==
    ASSUME TInv, NEW p \in Proc, SetLow(p) \/ SetHigh(p) \/ Listen(p)
    PROVE  TInv'
<1>0. TypeOK /\ Steps(p) /\ pin \in PinType /\ pulled \in Proc \cup {0} /\ sensor \in SensorType
  BY Here
<1>1. CASE SetLow(p)
  <2>1. /\ at[p] = "start" /\ at'[p] = "low" /\ got'[p] = <<>> /\ UNCHANGED <<file, from, retry>>
        /\ Moves(p)
    BY <1>0, <1>1 DEF SetLow, Goes, Moves, TypeOK
  <2>2. pin' \in PinType /\ pulled' \in Proc \cup {0} /\ sensor' = sensor
    BY <1>0, <1>1 DEF SetLow, PinType
  <2>3. UNCHANGED <<msg, alone, slips, opens>>
    BY <1>1 DEF SetLow
  <2>4. Steps(p)' /\ got'[p] \in Seq({0, 1}) /\ Len(got'[p]) <= N
    BY <1>0, <2>1, Sizes DEF Steps
  <2> QED
    BY <2>1, <2>2, <2>3, <2>4, Here, MoverKeeps DEF Inside
<1>2. CASE SetHigh(p)
  <2>1. /\ at[p] = "low" /\ at'[p] = "high" /\ UNCHANGED <<got, file, from, retry>> /\ Moves(p)
    BY <1>0, <1>2 DEF SetHigh, Goes, Moves, TypeOK
  <2>2. pin' \in PinType /\ pulled' \in Proc \cup {0} /\ sensor' \in SensorType
    <3>1. pin.out \in BOOLEAN /\ (pulled = p) \in BOOLEAN /\ SetPin(pin.out, 1, pulled = p)
      BY <1>0, <1>2 DEF SetHigh, PinType
    <3> QED
      BY <1>0, <3>1, SetPinFacts
  <2>3. UNCHANGED <<msg, alone, slips, opens>>
    BY <1>2 DEF SetHigh
  <2>4. Steps(p)'
    BY <1>0, <2>1 DEF Steps
  <2> QED
    BY <2>1, <2>2, <2>3, <2>4, Here, MoverKeeps DEF Inside
<1>3. CASE Listen(p)
  <2>1. /\ at[p] = "high" /\ at'[p] = "reply" /\ UNCHANGED <<got, file, from, retry>> /\ Moves(p)
    BY <1>0, <1>3 DEF Listen, Goes, Moves, TypeOK
  <2>2. pin' \in PinType /\ pulled' \in Proc \cup {0} /\ sensor' \in SensorType
    <3>1. pin.value \in {0, 1} /\ SetPin(FALSE, pin.value, FALSE)
      BY <1>0, <1>3 DEF Listen, gpio_direction_input, PinType
    <3> QED
      BY <1>0, <3>1, SetPinFacts
  <2>3. UNCHANGED <<msg, alone, slips, opens>>
    BY <1>3 DEF Listen
  <2>4. Steps(p)'
    BY <1>0, <2>1 DEF Steps
  <2> QED
    BY <2>1, <2>2, <2>3, <2>4, Here, MoverKeeps DEF Inside, Waiting
<1> QED
  BY <1>1, <1>2, <1>3

(* The levels that the driver may see.                                      *)
LEMMA LineType ==
    ASSUME TypeOK
    PROVE  Line \subseteq {0, 1} /\ (~pin.out => Line = {Sent}) /\ Sent \in {0, 1}
BY DEF TypeOK, Line, Sent

(* The waits and the bits: Notice and Sample.                               *)
LEMMA TransferKeeps ==
    ASSUME TInv, NEW p \in Proc, Notice(p) \/ Sample(p)
    PROVE  TInv'
<1>0. TypeOK /\ Steps(p) /\ got[p] \in Seq({0, 1}) /\ sensor \in SensorType /\ N \in Nat /\ N > 0
  BY Here, Sizes
<1>1. CASE Notice(p)
  <2>1. /\ at[p] \in Waiting /\ at'[p] \in {"ready", "go", "bitlow", "bithigh", "sample"}
        /\ at'[p] \in {"ready", "go"} => at[p] \in {"reply", "ready"}
        /\ at'[p] = "bitlow" => at[p] = "go"
        /\ at'[p] \in {"bithigh", "sample"} => at[p] \in {"bitlow", "bithigh"}
        /\ UNCHANGED <<got, file, retry>>
    BY <1>0, <1>1 DEF Notice, Goes, TypeOK, Waiting
  <2>2. Moves(p) /\ from'[p] \in Sendings
    <3>1. from' = [from EXCEPT ![p] = from'[p]] /\ from'[p] \in Sendings
      <4>1. from[p] \in Sendings /\ sensor.bits \in Sendings /\ from = [from EXCEPT ![p] = from[p]]
        BY <1>0 DEF TypeOK, SensorType
      <4>2. \E b \in Sendings : from' = [from EXCEPT ![p] = b]
        BY <1>1, <4>1 DEF Notice
      <4> QED
        BY <1>0, <4>2 DEF TypeOK
    <3>2. \E a : at' = [at EXCEPT ![p] = a]
      BY <1>1, Zenon DEF Notice, Goes
    <3> QED
      BY <1>0, <2>1, <3>1, <3>2 DEF TypeOK, Moves
  <2>3. UNCHANGED <<pin, pulled, sensor, msg, alone, slips, opens>>
    BY <1>1 DEF Notice
  <2>4. Steps(p)'
    <3>1. at'[p] = "bitlow" => Len(got'[p]) < N
      BY <1>0, <2>1 DEF Steps
    <3> QED
      BY <1>0, <2>1, <3>1 DEF Steps
  <2> QED
    BY <2>1, <2>2, <2>3, <2>4, Here, MoverKeeps DEF Inside, Waiting
<1>2. CASE Sample(p)
  <2>1. PICK level \in Line : got' = [got EXCEPT ![p] = Append(@, level)]
    BY <1>2 DEF Sample
  <2> DEFINE g == Append(got[p], level)
             a == IF Len(got[p]) + 1 < N THEN "bitlow" ELSE "check"
  <2>2. level \in {0, 1}
    BY <1>0, <2>1, LineType
  <2>3. /\ g \in Seq({0, 1}) /\ Len(g) = Len(got[p]) + 1 /\ Len(got[p]) \in Nat
    BY <1>0, <2>2
  <2>4. at[p] = "sample" /\ Len(got[p]) < N
    BY <1>0, <1>2 DEF Sample, Steps
  <2>5. /\ got' = [got EXCEPT ![p] = g] /\ at' = [at EXCEPT ![p] = a]
        /\ UNCHANGED <<file, from, retry, pin, pulled, sensor, msg, alone, slips, opens>>
    BY <1>2, <2>1 DEF Sample, Goes
  <2>6. Len(g) <= N /\ (a = "bitlow" => Len(g) < N) /\ (a = "check" => Len(g) = N) /\ a \in {"bitlow", "check"}
    BY <1>0, <2>3, <2>4
  <2> HIDE DEF g, a
  <2>7. got'[p] = g /\ at'[p] = a /\ Moves(p)
    BY <1>0, <2>5 DEF TypeOK, Moves
  <2>8. Steps(p)'
    BY <1>0, <2>4, <2>5, <2>6, <2>7 DEF Steps
  <2> QED
    BY <2>3, <2>5, <2>6, <2>7, <2>8, Here, MoverKeeps DEF Inside, Waiting
<1> QED
  BY <1>1, <1>2

(* An attempt ends: with a failure, or with the right sum.                  *)
LEMMA EndKeeps ==
    ASSUME TInv, NEW p \in Proc, TimedOut(p) \/ WrongSum(p) \/ RightSum(p)
    PROVE  TInv'
<1>0. TypeOK /\ Steps(p)
  BY Here
<1>1. CASE TimedOut(p) \/ WrongSum(p)
  <2>1. at[p] \in Waiting \cup {"check"} /\ Fails(p)
    BY <1>1 DEF TimedOut, WrongSum
  <2>2. /\ at'[p] = "sleep" /\ Moves(p)
        /\ UNCHANGED <<got, file, from, retry, pin, pulled, sensor, msg, alone, slips, opens>>
    BY <1>0, <2>1 DEF Fails, Goes, Moves, TypeOK
  <2>3. Steps(p)'
    BY <1>0, <2>1, <2>2 DEF Steps, Waiting
  <2> QED
    BY <2>2, <2>3, Here, MoverKeeps DEF Inside
<1>2. CASE RightSum(p)
  <2>1. /\ at[p] = "check" /\ at'[p] = "sprintf" /\ Moves(p)
        /\ UNCHANGED <<got, file, from, retry, msg, alone, slips, opens>>
    BY <1>0, <1>2 DEF RightSum, Goes, Moves, TypeOK
  <2>2. pin' \in PinType /\ pulled' \in Proc \cup {0} /\ sensor' \in SensorType
    BY <1>0, <1>2, SetPinFacts DEF RightSum, gpio_direction_output
  <2>3. Steps(p)'
    BY <1>0, <2>1 DEF Steps
  <2> QED
    BY <2>1, <2>2, <2>3, Here, MoverKeeps DEF Inside
<1> QED
  BY <1>1, <1>2

(* device_open returns 0 or an error.                                       *)
LEMMA ReturnKeeps ==
    ASSUME TInv, NEW p \in Proc, Sprintf(p) \/ GiveUp(p)
    PROVE  TInv'
<1>0. TypeOK /\ Steps(p) /\ got[p] \in Seq({0, 1})
  BY Here
<1>1. /\ retry' = [retry EXCEPT ![p] = 0] /\ got' = [got EXCEPT ![p] = <<>>]
      /\ from' = [from EXCEPT ![p] = <<>>]
  BY DEF Sprintf, GiveUp, Forget
<1>2. /\ retry'[p] \in 0 .. Retries /\ got'[p] \in Seq({0, 1}) /\ Len(got'[p]) <= N
      /\ from'[p] \in Sendings /\ got'[p] = <<>>
  <2>1. retry'[p] = 0 /\ got'[p] = <<>> /\ from'[p] = <<>>
    BY <1>0, <1>1 DEF TypeOK
  <2> QED
    BY <2>1, Sizes
<1>3. CASE Sprintf(p)
  <2> DEFINE s == Shown(got[p])
             f == [Closed EXCEPT !.own = s]
  <2>1. at[p] = "sprintf" /\ Len(got[p]) = N /\ file[p] = Closed
    BY <1>0, <1>3 DEF Sprintf, Steps
  <2>2. Byte(got[p], 1) \in Bytes /\ Byte(got[p], 3) \in Bytes
    BY <1>0, <2>1, ByteType
  <2>3. s \in [1 .. 2 -> Bytes] /\ s \in Seq(Bytes)
    BY <2>2 DEF Shown
  <2>4. /\ at' = [at EXCEPT ![p] = "open"] /\ msg' = s
        /\ file' = [file EXCEPT ![p].own = s]
        /\ UNCHANGED <<pin, pulled, sensor, alone, slips, opens>>
    BY <1>3 DEF Sprintf, Goes
  <2> HIDE DEF s
  <2>5. f \in FileType
    BY <2>3, Sizes DEF FileType
  <2>6. file' = [file EXCEPT ![p] = f]
    BY <1>0, <2>1, <2>4 DEF TypeOK
  <2> HIDE DEF f
  <2>7. Moves(p) /\ at'[p] = "open" /\ file'[p] = f
    BY <1>0, <1>1, <2>4, <2>6 DEF Moves, TypeOK
  <2>8. Steps(p)'
    BY <1>2, <2>7 DEF Steps
  <2> QED
    BY <1>2, <2>3, <2>4, <2>5, <2>7, <2>8, Here, MoverKeeps
<1>4. CASE GiveUp(p)
  <2>1. /\ at[p] = "sleep" /\ at'[p] = "out" /\ Moves(p)
        /\ alone' = [alone EXCEPT ![p] = TRUE]
        /\ UNCHANGED <<file, msg, slips, opens>>
    BY <1>0, <1>1, <1>4 DEF GiveUp, Goes, Moves, TypeOK
  <2>2. pin' \in PinType /\ pulled' \in Proc \cup {0} /\ sensor' \in SensorType
    BY <1>0, <1>4, SetPinFacts DEF GiveUp, gpio_direction_output
  <2>3. Steps(p)' /\ alone' \in [Proc -> BOOLEAN]
    BY <1>0, <1>2, <2>1 DEF Steps, TypeOK
  <2> QED
    BY <1>2, <2>1, <2>2, <2>3, Here, MoverKeeps
<1> QED
  BY <1>3, <1>4

(* device_open begins, and the loop goes round.                             *)
LEMMA OpenKeeps ==
    ASSUME TInv, NEW p \in Proc, device_open(p) \/ Retry(p)
    PROVE  TInv'
<1>0. TypeOK /\ Steps(p) /\ retry[p] \in 0 .. Retries
  BY Here
<1>1. CASE device_open(p)
  <2>1. /\ at[p] = "out" /\ at'[p] = "start" /\ Moves(p) /\ retry'[p] = 0
        /\ UNCHANGED <<got, file, from, pin, pulled, sensor, msg>>
    BY <1>0, <1>1 DEF device_open, Goes, Moves, TypeOK
  <2>2. alone' \in [Proc -> BOOLEAN] /\ 0 \in 0 .. Retries
    <3>1. alone' = [q \in Proc |->
             IF q = p THEN \A r \in Proc : at[r] \notin Inside ELSE at[q] = "out"]
      BY <1>1 DEF device_open
    <3>2. alone' \in [Proc -> BOOLEAN]
      BY <3>1, Zenon
    <3> QED
      BY <3>2, Sizes
  <2>3. slips' \in 0 .. MaxSlips
    BY <1>0, <1>1, Sizes DEF device_open, TypeOK
  <2>4. Unused => opens' = 1
    BY <1>1 DEF device_open
  <2>5. opens' \in 0 .. MaxOpens
    BY <1>0, <1>1, Sizes DEF device_open, TypeOK
  <2>6. Steps(p)'
    BY <1>0, <2>1 DEF Steps
  <2> QED
    BY <2>1, <2>2, <2>3, <2>5, <2>6, Here, MoverKeeps DEF Inside
<1>2. CASE Retry(p)
  <2>1. /\ at[p] = "sleep" /\ at'[p] = "start" /\ Moves(p) /\ retry'[p] = retry[p] + 1
        /\ retry[p] + 1 < Retries
        /\ UNCHANGED <<got, file, from, pin, pulled, sensor, msg, alone, slips, opens>>
    BY <1>0, <1>2 DEF Retry, Goes, Moves, TypeOK
  <2>2. retry'[p] \in 0 .. Retries
    BY <1>0, <2>1, Sizes
  <2>3. Steps(p)'
    BY <1>0, <2>1 DEF Steps
  <2> QED
    BY <2>1, <2>2, <2>3, Here, MoverKeeps DEF Inside
<1> QED
  BY <1>1, <1>2

-----------------------------------------------------------------------------
(* The text has one to two characters for each number.                      *)
LEMMA TextType ==
    ASSUME NEW m \in [1 .. 2 -> Bytes]
    PROVE  Text(m) \in Seq(Bytes) /\ Len(Text(m)) \in 0 .. 4
<1>1. ASSUME NEW k \in Bytes PROVE Digits(k) \in Seq(Bytes) /\ Len(Digits(k)) \in {1, 2}
  BY DEF Digits
<1>2. m[1] \in Bytes /\ m[2] \in Bytes
  OBVIOUS
<1>3. /\ Digits(m[1]) \in Seq(Bytes) /\ Len(Digits(m[1])) \in {1, 2}
      /\ Digits(m[2]) \in Seq(Bytes) /\ Len(Digits(m[2])) \in {1, 2}
  BY <1>1, <1>2
<1> QED
  BY <1>3, ConcatProperties DEF Text

(* device_read copies the next piece of the text, or returns 0.             *)
LEMMA ReadFacts ==
    ASSUME TInv, NEW p \in Proc, NEW length \in ReadLens, device_read(p, length)
    PROVE  /\ file'[p] \in FileType /\ at[p] = "open" /\ Moves(p)
           /\ UNCHANGED <<pin, pulled, sensor, at, retry, got, msg, from, alone, slips, opens>>
           /\ file'[p].own = file[p].own /\ ~file[p].eof
           /\ \/ /\ file[p].offset >= Len(Text(msg))
                 /\ file'[p].offset = file[p].offset /\ file'[p].out = file[p].out
              \/ /\ file[p].offset < Len(Text(msg)) /\ ~file'[p].eof
                 /\ \E e \in file[p].offset .. Len(Text(msg)) :
                       /\ file'[p].offset = e
                       /\ file'[p].out = file[p].out \o SubSeq(Text(msg), file[p].offset + 1, e)
<1> DEFINE f == file[p]
           t == Text(msg)
           x == Len(t) - f.offset
           k == IF length < x THEN length ELSE x
           e == f.offset + k
           z == f.out \o SubSeq(t, f.offset + 1, f.offset + k)
<1>1. TypeOK /\ f \in FileType /\ t \in Seq(Bytes) /\ Len(t) \in 0 .. 4 /\ length \in Nat
  BY Here, TextType, Dht11Assumption
<1>2. /\ at[p] = "open" /\ ~f.eof
      /\ UNCHANGED <<pin, pulled, sensor, at, retry, got, msg, from, alone, slips, opens>>
  BY DEF device_read
<1>3. f.offset \in 0 .. 4 /\ f.out \in Seq(Bytes)
  BY <1>1 DEF FileType
<1>4. CASE f.offset >= Len(t)
  <2> DEFINE h == [f EXCEPT !.eof = TRUE]
  <2>1. file' = [file EXCEPT ![p] = h]
    BY <1>1, <1>4 DEF device_read, AtEnd, TypeOK
  <2>2. h \in FileType /\ h.offset = f.offset /\ h.out = f.out /\ h.own = f.own
    BY <1>1 DEF FileType
  <2> HIDE DEF h
  <2>3. file'[p] = h /\ Moves(p)
    BY <1>1, <1>2, <2>1 DEF TypeOK, Moves
  <2> QED
    BY <1>2, <1>4, <2>2, <2>3
<1>5. CASE ~(f.offset >= Len(t))
  <2> DEFINE h == [f EXCEPT !.offset = e, !.out = z]
  <2>1. k \in Nat /\ e \in 0 .. 4 /\ e \in f.offset .. Len(t)
    <3>1. PICK o \in 0 .. 4 : o = f.offset
      BY <1>3
    <3>2. PICK c \in 0 .. 4 : c = Len(t)
      BY <1>1
    <3>3. ~(o >= c)
      BY <1>5, <3>1, <3>2
    <3>4. k = IF length < c - o THEN length ELSE c - o
      BY <3>1, <3>2
    <3>5. k \in Nat /\ k <= c - o
      BY <1>1, <3>3, <3>4
    <3>6. e = o + k
      BY <3>1
    <3> HIDE DEF k, e
    <3>7. e \in 0 .. 4 /\ e \in o .. c
      BY <3>5, <3>6
    <3> QED
      BY <3>1, <3>2, <3>5, <3>7
  <2>2. z \in Seq(Bytes)
    <3>1. \A i \in f.offset + 1 .. e : t[i] \in Bytes
      <4>1. \A i \in f.offset + 1 .. e : i \in 1 .. Len(t)
        <5> HIDE DEF f, t, k
        <5> QED
          BY <1>1, <1>3, <2>1
      <4> QED
        BY <1>1, <4>1, ElementOfSeq
    <3>2. SubSeq(t, f.offset + 1, e) \in Seq(Bytes)
      <4> HIDE DEF f, t, k
      <4> QED
        BY <1>1, <1>3, <2>1, <3>1, SubSeqProperties
    <3> QED
      BY <1>3, <3>2, ConcatProperties
  <2>3. file' = [file EXCEPT ![p].offset = @ + k,
                             ![p].out = @ \o SubSeq(t, f.offset + 1, f.offset + k)]
    BY <1>5 DEF device_read, AtEnd
  <2> HIDE DEF k
  <2>4. file' = [file EXCEPT ![p] = h]
    BY <1>1, <2>3 DEF TypeOK
  <2>5. z = f.out \o SubSeq(t, f.offset + 1, e)
    OBVIOUS
  <2> HIDE DEF e, z
  <2>6. h \in FileType /\ h.offset = e /\ h.out = z /\ h.own = f.own /\ h.eof = f.eof
    BY <1>1, <2>1, <2>2 DEF FileType
  <2> HIDE DEF h
  <2>7. file'[p] = h /\ Moves(p)
    BY <1>1, <1>2, <2>4 DEF TypeOK, Moves
  <2>8. f.offset < Len(t)
    BY <1>1, <1>3, <1>5
  <2> QED
    BY <1>2, <2>1, <2>5, <2>6, <2>7, <2>8
<1> QED
  BY <1>4, <1>5

(* device_read and device_release.                                          *)
LEMMA FileKeeps ==
    ASSUME TInv, NEW p \in Proc, device_release(p) \/ \E length \in ReadLens : device_read(p, length)
    PROVE  TInv'
<1>0. TypeOK /\ Steps(p)
  BY Here
<1>1. ASSUME NEW length \in ReadLens, device_read(p, length) PROVE TInv'
  <2>1. /\ file'[p] \in FileType /\ at[p] = "open" /\ Moves(p)
        /\ UNCHANGED <<pin, pulled, sensor, at, retry, got, msg, from, alone, slips, opens>>
    BY <1>1, ReadFacts
  <2>2. Steps(p)'
    BY <1>0, <2>1 DEF Steps
  <2> QED
    BY <2>1, <2>2, Here, MoverKeeps
<1>2. CASE device_release(p)
  <2>1. /\ at[p] = "open" /\ at'[p] = "out" /\ file'[p] = Closed /\ Moves(p)
        /\ alone' = [alone EXCEPT ![p] = TRUE]
        /\ UNCHANGED <<pin, pulled, sensor, retry, got, msg, from, slips, opens>>
    BY <1>0, <1>2 DEF device_release, Goes, Moves, TypeOK
  <2>2. Steps(p)' /\ alone' \in [Proc -> BOOLEAN]
    BY <1>0, <2>1 DEF Steps, TypeOK
  <2> QED
    BY <2>1, <2>2, Sizes, Here, MoverKeeps
<1> QED
  BY <1>1, <1>2

(* TInv holds in every state.                                               *)
LEMMA TypeInit == Init => TInv
<1> SUFFICES ASSUME Init PROVE TInv
  OBVIOUS
<1>1. N \in Nat /\ Retries \in Nat /\ MaxSlips \in Nat /\ MaxOpens \in Nat
  BY Sizes
<1>2. 0 \in Bytes /\ <<>> \in Sendings /\ Closed \in FileType
  BY Sizes
<1>3. TypeOK
  <2>1. pin \in PinType
    BY DEF Init, PinType
  <2>2. sensor \in SensorType
    <3> DEFINE e == <<>>
    <3>1. sensor = [heard |-> FALSE, pos |-> 0, bits |-> e] /\ e \in Sendings
      BY <1>2 DEF Init
    <3> HIDE DEF e
    <3> QED
      BY <1>1, <3>1 DEF SensorType
  <2>3. file \in [Proc -> FileType]
    BY <1>2 DEF Init
  <2>4. from \in [Proc -> Sendings] /\ got \in [Proc -> Seq({0, 1})] /\ \A p \in Proc : Len(got[p]) <= N
    BY <1>1, <1>2 DEF Init
  <2>5. retry \in [Proc -> 0 .. Retries] /\ msg \in [1 .. 2 -> Bytes]
    BY <1>1, <1>2 DEF Init
  <2> QED
    BY <1>1, <2>1, <2>2, <2>3, <2>4, <2>5 DEF Init, TypeOK, PinType, SensorType, FileType
<1>4. \A p \in Proc : Steps(p)
  BY DEF Init, Steps
<1> QED
  BY <1>3, <1>4 DEF TInv

(* Every step keeps TInv.                                                   *)
LEMMA TypeStep == TInv /\ [Next]_vars => TInv'
<1> SUFFICES ASSUME TInv, [Next]_vars PROVE TInv'
  OBVIOUS
<1>1. CASE UNCHANGED vars
  BY <1>1 DEF vars, TInv, TypeOK, Steps
<1>2. CASE Sensor
  BY <1>2, SensorKeeps
<1>3. ASSUME NEW p \in Proc, device_open(p) \/ Opening(p) PROVE TInv'
  BY <1>3, OpenKeeps, StartKeeps, TransferKeeps, EndKeeps, ReturnKeeps DEF Opening, Transfer
<1>4. ASSUME NEW p \in Proc, device_release(p) \/ \E length \in ReadLens : device_read(p, length)
      PROVE  TInv'
  BY <1>4, FileKeeps
<1> QED
  BY <1>1, <1>2, <1>3, <1>4 DEF Next

-----------------------------------------------------------------------------
(* The pin and the line                                                     *)

High == [out |-> TRUE, value |-> 1]

(* As long as the pin is not high there is a process in device_open that    *)
(* has yet to make it an output, and the line is pulled low only by the     *)
(* driver.  PinRestored alone is not inductive: one process may have left   *)
(* the pin an input while another prints its reading.                       *)
Pin ==
    /\ pin = High \/ \E p \in Proc : at[p] \in Inside \ {"sprintf"}
    /\ pulled # 0 => pin = [out |-> TRUE, value |-> 0]

(* The sensor hears a start signal when it is silent, and sends a frame.    *)
SensorOK ==
    /\ sensor.heard => sensor.pos = 0
    /\ sensor.pos > 0 => sensor.bits # <<>>

(* alone: nobody else is in device_open.                                    *)
AloneOK(p) == alone[p] /\ at[p] # "out" => \A q \in Proc \ {p} : at[q] \notin Inside

Quiet == sensor.pos = 0 /\ ~sensor.heard

(* A process that is alone has the pin as input from the moment when it     *)
(* listens until it succeeds, and after a failed attempt nothing answers.   *)
Vain(p) ==
    alone[p] /\ at[p] \in Inside =>
        /\ at[p] \in Waiting \cup {"sample", "check", "sleep"} => ~pin.out /\ pulled = 0
        /\ retry[p] > 0 => /\ at[p] \in {"start", "low", "high", "reply", "sleep"}
                           /\ ~pin.out /\ pulled = 0 /\ Quiet

(* What a process reads that is alone since its device_open.                *)
Own(p) ==
    at[p] = "open" /\ alone[p] =>
        /\ msg = file[p].own
        /\ file[p].offset <= Len(Text(msg))
        /\ file[p].out = SubSeq(Text(msg), 1, file[p].offset)
        /\ file[p].eof => file[p].offset = Len(Text(msg))

(* Where the sensor is when a process that is alone and not late has read k *)
(* bits.                                                                    *)
Level(p) ==
    LET k == Len(got[p]) IN
    /\ at[p] = "start" /\ retry[p] = 0 => pin = High
    /\ at[p] = "low" /\ retry[p] = 0 => pulled = p
    /\ at[p] = "high" /\ retry[p] = 0 => pin = High
    /\ at[p] \in {"high", "reply"} => sensor.pos \in {0, 1}
    /\ at[p] = "ready" => sensor.pos \in {1, 2}
    /\ at[p] = "go" => sensor.pos \in {2, 3}
    /\ at[p] = "bitlow" => sensor.pos \in {2 * k + 2, 2 * k + 3}
    /\ at[p] = "bithigh" => sensor.pos \in {2 * k + 3, 2 * k + 4}
    /\ at[p] = "sample" => \/ sensor.pos = 2 * k + 4
                           \/ sensor.pos = 2 * k + 5 /\ sensor.bits[k + 1] = 0
    /\ at[p] \in {"ready", "go", "bitlow", "bithigh", "sample"} => from[p] = sensor.bits

InStep(p) == Punctual(p) => Level(p) /\ NothingMisread(p)

DInv ==
    /\ TInv /\ Pin /\ SensorOK
    /\ \A p \in Proc : AloneOK(p) /\ Vain(p) /\ Own(p) /\ InStep(p)

(* A step of device_open does not move another process.                     *)
LEMMA OpeningFacts ==
    ASSUME TInv, NEW r \in Proc, Opening(r)
    PROVE  /\ at[r] \in Inside
           /\ \E a : at' = [at EXCEPT ![r] = a]
           /\ \A q \in Proc \ {r} : at'[q] = at[q] /\ alone'[q] = alone[q]
<1>1. at[r] \in Inside
  BY DEF Opening, Transfer, SetLow, SetHigh, Listen, Notice, Sample, TimedOut, WrongSum, RightSum,
         Sprintf, Retry, GiveUp, Inside, Waiting
<1>2. \E a : at' = [at EXCEPT ![r] = a]
  <2>1. CASE Notice(r)
    BY <2>1, Zenon DEF Notice, Goes
  <2>2. CASE Sample(r)
    BY <2>2, Zenon DEF Sample, Goes
  <2> QED
    BY <2>1, <2>2 DEF Opening, Transfer, SetLow, SetHigh, Listen, TimedOut, WrongSum, RightSum,
         Sprintf, Retry, GiveUp, Goes, Fails
<1>3. \A q \in Proc \ {r} : alone'[q] = alone[q]
  <2>1. CASE GiveUp(r)
    BY <2>1 DEF GiveUp, TInv, TypeOK
  <2>2. CASE ~GiveUp(r)
    <3>1. alone' = alone
      BY <2>2 DEF Opening, Transfer, SetLow, SetHigh, Listen, Notice, Sample, TimedOut, WrongSum,
         RightSum, Sprintf, Retry, Fails
    <3> QED
      BY <3>1
  <2> QED
    BY <2>1, <2>2
<1> QED
  BY <1>1, <1>2, <1>3 DEF TInv, TypeOK

(* What is known of p depends on these variables only.                      *)
Same(p) ==
    /\ at'[p] = at[p] /\ got'[p] = got[p] /\ file'[p] = file[p] /\ from'[p] = from[p]
    /\ retry'[p] = retry[p] /\ alone'[p] = alone[p]
    /\ UNCHANGED <<pin, pulled, sensor, msg, slips>>

Known(p) == AloneOK(p) /\ Vain(p) /\ Own(p) /\ InStep(p)

(* Steps that leave those variables alone leave what is known of p alone.   *)
LEMMA SameKnown ==
    ASSUME NEW p \in Proc, Known(p), Same(p),
           \A q \in Proc \ {p} : at'[q] \in Inside => at[q] \in Inside
    PROVE  Known(p)'
<1>1. AloneOK(p)'
  BY DEF Known, Same, AloneOK
<1>2. Vain(p)'
  BY DEF Known, Same, Vain, Quiet
<1>3. Own(p)'
  BY DEF Known, Same, Own
<1>4. InStep(p)'
  BY DEF Known, Same, InStep, Punctual, Level, NothingMisread
<1> QED
  BY <1>1, <1>2, <1>3, <1>4 DEF Known

(* A process that is out, or not alone, has nothing to lose.                *)
LEMMA NothingKnown ==
    ASSUME NEW p, ~alone'[p] \/ at'[p] = "out"
    PROVE  Known(p)'
BY DEF Known, AloneOK, Vain, Own, InStep, Punctual, Inside, Waiting

(* The steps of another process r: if p is alone r is not in device_open.   *)
LEMMA OthersKnow ==
    ASSUME DInv, NEW r \in Proc, NEW p \in Proc \ {r},
           \/ device_open(r) \/ Opening(r) \/ device_release(r)
           \/ \E length \in ReadLens : device_read(r, length)
    PROVE  Known(p)'
<1>0. TInv /\ TypeOK /\ Known(p) /\ AloneOK(p)
  BY DEF DInv, TInv, Known
<1>1. CASE device_open(r)
  <2>1. at'[p] = at[p] /\ alone'[p] = (at[p] = "out")
    BY <1>0, <1>1 DEF device_open, Goes, TypeOK
  <2> QED
    BY <2>1, NothingKnown
<1>2. CASE Opening(r)
  <2>1. at[r] \in Inside /\ at'[p] = at[p] /\ alone'[p] = alone[p]
    BY <1>0, <1>2, OpeningFacts
  <2>2. ~alone[p] \/ at[p] = "out"
    BY <1>0, <2>1 DEF AloneOK
  <2> QED
    BY <2>1, <2>2, NothingKnown
<1>3. CASE device_release(r)
  <2>1. Same(p) /\ \A q \in Proc \ {p} : at'[q] \in Inside => at[q] \in Inside
    BY <1>0, <1>3 DEF device_release, Goes, Same, TypeOK, Inside, Waiting
  <2> QED
    BY <1>0, <2>1, SameKnown
<1>4. ASSUME NEW length \in ReadLens, device_read(r, length) PROVE Known(p)'
  <2>1. Moves(r) /\ UNCHANGED <<pin, pulled, sensor, at, retry, got, msg, from, alone, slips, opens>>
    BY <1>0, <1>4, ReadFacts
  <2>2. Same(p) /\ \A q \in Proc \ {p} : at'[q] \in Inside => at[q] \in Inside
    BY <1>0, <2>1 DEF Moves, Same, TypeOK
  <2> QED
    BY <1>0, <2>2, SameKnown
<1> QED
  BY <1>1, <1>2, <1>3, <1>4

(* Frames are bits, and none is the empty sequence.                         *)
LEMMA FrameBits ==
    ASSUME NEW m \in Readings
    PROVE  Frame(m) # <<>> /\ DOMAIN Frame(m) = 1 .. N /\ \A i \in 1 .. N : Frame(m)[i] \in {0, 1}
<1> DEFINE byte(j) == IF j = 5 THEN (m[1] + m[2] + m[3] + m[4]) % 2^Width ELSE m[j]
           bit(i) == (byte((i - 1) \div Width + 1) \div 2^(Width - 1 - ((i - 1) % Width))) % 2
<1>1. Frame(m) = [i \in 1 .. N |-> bit(i)]
  BY DEF Frame
<1>2. Width \in Nat /\ Width > 0 /\ N = 5 * Width /\ m \in [1 .. 4 -> 0 .. 2^Width - 1]
  BY Dht11Assumption DEF N
<1>3. 2^Width \in Nat \ {0}
  BY <1>2, PowersOfTwo
<1>4. ASSUME NEW j \in 1 .. 5 PROVE byte(j) \in 0 .. 2^Width - 1
  <2>1. CASE j = 5
    <3>1. m[1] \in Nat /\ m[2] \in Nat /\ m[3] \in Nat /\ m[4] \in Nat
      BY <1>2, <1>3
    <3>2. m[1] + m[2] + m[3] + m[4] \in Nat
      BY <3>1
    <3> QED
      BY <1>3, <2>1, <3>2
  <2>2. CASE j # 5
    BY <1>2, <2>2
  <2> QED
    BY <2>1, <2>2
<1>5. ASSUME NEW i \in 1 .. N PROVE bit(i) \in {0, 1}
  <2>1. (i - 1) % Width \in 0 .. Width - 1
    BY <1>2
  <2>2. (i - 1) \div Width + 1 \in 1 .. 5
    <3>1. i - 1 \in Nat /\ i - 1 < 5 * Width
      BY <1>2
    <3>2. PICK x \in Nat : x = i - 1
      BY <3>1
    <3>3. PICK q \in Nat : q = x \div Width /\ q * Width <= x
      BY <1>2, <3>2
    <3>4. ~(q >= 5)
      <4>1. q >= 5 => q * Width >= 5 * Width
        BY <1>2
      <4> QED
        BY <1>2, <3>1, <3>2, <3>3, <4>1
    <3> QED
      BY <3>2, <3>3, <3>4
  <2>3. PICK k \in 0 .. Width : k = Width - 1 - ((i - 1) % Width)
    BY <1>2, <2>1
  <2>4. 2^k \in Nat \ {0}
    BY PowersOfTwo
  <2>5. PICK b \in Nat : b = byte((i - 1) \div Width + 1)
    BY <1>3, <1>4, <2>2
  <2>6. bit(i) = (b \div 2^k) % 2
    BY <2>3, <2>5
  <2>7. b \div 2^k \in Nat
    BY <2>4
  <2> HIDE DEF bit
  <2> QED
    BY <2>6, <2>7
<1> HIDE DEF bit
<1>6. DOMAIN Frame(m) = 1 .. N /\ 1 \in 1 .. N
  BY <1>1, <1>2
<1>7. Frame(m) # <<>>
  <2>1. ASSUME NEW e \in Seq(Nat), Len(e) = 0 PROVE 1 \notin DOMAIN e
    BY <2>1
  <2>2. <<>> \in Seq(Nat) /\ Len(<<>>) = 0
    BY EmptySeq
  <2>3. ASSUME Frame(m) = <<>> PROVE FALSE
    BY <1>6, <2>1, <2>2, <2>3, Zenon
  <2> QED
    BY <2>3
<1> QED
  BY <1>1, <1>5, <1>6, <1>7

(* What the sensor sends.                                                   *)
LEMMA SentBits ==
    ASSUME NEW b \in Sendings, b # <<>>
    PROVE  \A i \in 1 .. N : b[i] \in {0, 1}
BY FrameBits DEF Sendings

(* The facts of the steps that set the pin.                                 *)
LEMMA SetLowFacts ==
    ASSUME TInv, Pin, NEW p \in Proc, SetLow(p)
    PROVE  /\ at[p] = "start" /\ at'[p] = "low" /\ got'[p] = <<>> /\ sensor' = sensor
           /\ pin' = [out |-> pin.out, value |-> 0]
           /\ pin.out /\ pulled = 0 => pulled' = p
           /\ ~(pin.out /\ pulled = 0) => pulled' = pulled
           /\ UNCHANGED <<retry, msg, file, from, alone, slips, opens>>
<1>1. TypeOK /\ pin \in PinType
  BY Here
<1> QED
  BY <1>1 DEF SetLow, Goes, TypeOK, PinType

(* SetHigh: the line goes up, and the sensor may have heard the signal.     *)
LEMMA SetHighFacts ==
    ASSUME TInv, NEW p \in Proc, SetHigh(p)
    PROVE  /\ at[p] = "low" /\ at'[p] = "high" /\ Elapsed(p)
           /\ pin' = [out |-> pin.out, value |-> 1]
           /\ pulled = 0 => pulled' = 0 /\ sensor' = sensor
           /\ sensor' \in SensorType /\ sensor'.pos = sensor.pos /\ sensor'.bits = sensor.bits
           /\ sensor.pos > 0 => sensor' = sensor
           /\ pulled' = 0
           /\ UNCHANGED <<got, retry, msg, file, from, alone, slips, opens>>
<1>1. TypeOK /\ pin \in PinType
  BY Here
<1>2. /\ at[p] = "low" /\ at'[p] = "high" /\ Elapsed(p)
      /\ UNCHANGED <<got, retry, msg, file, from, alone, slips, opens>>
  BY <1>1 DEF SetHigh, Goes, TypeOK
<1>3. pin.out \in BOOLEAN /\ (pulled = p) \in BOOLEAN /\ SetPin(pin.out, 1, pulled = p)
  BY <1>1 DEF SetHigh, PinType
<1>4. /\ pin' = [out |-> pin.out, value |-> 1]
      /\ pulled = 0 => pulled' = 0 /\ sensor' = sensor
      /\ sensor' \in SensorType /\ sensor'.pos = sensor.pos /\ sensor'.bits = sensor.bits
      /\ sensor.pos > 0 => sensor' = sensor
  BY <1>1, <1>3, SetPinFacts
<1>5. pulled' = 0
  BY <1>3 DEF SetPin, Rises
<1> QED
  BY <1>2, <1>4, <1>5

(* Listen: the pin becomes an input.                                        *)
LEMMA ListenFacts ==
    ASSUME TInv, NEW p \in Proc, Listen(p)
    PROVE  /\ at[p] = "high" /\ at'[p] = "reply"
           /\ ~pin'.out /\ pulled' = 0
           /\ pulled = 0 => sensor' = sensor
           /\ sensor' \in SensorType /\ sensor'.pos = sensor.pos /\ sensor'.bits = sensor.bits
           /\ sensor.pos > 0 => sensor' = sensor
           /\ UNCHANGED <<got, retry, msg, file, from, alone, slips, opens>>
<1>1. TypeOK /\ pin \in PinType
  BY Here
<1>2. /\ at[p] = "high" /\ at'[p] = "reply"
      /\ UNCHANGED <<got, retry, msg, file, from, alone, slips, opens>>
  BY <1>1 DEF Listen, Goes, TypeOK
<1>3. pin.value \in {0, 1} /\ SetPin(FALSE, pin.value, FALSE)
  BY <1>1 DEF Listen, gpio_direction_input, PinType
<1>4. /\ pin' = [out |-> FALSE, value |-> pin.value] /\ pulled' = 0
      /\ pulled = 0 => sensor' = sensor
      /\ sensor' \in SensorType /\ sensor'.pos = sensor.pos /\ sensor'.bits = sensor.bits
      /\ sensor.pos > 0 => sensor' = sensor
  BY <1>1, <1>3, SetPinFacts
<1> QED
  BY <1>2, <1>4

(* RightSum and GiveUp make the pin an output.                              *)
LEMMA OutputFacts ==
    ASSUME TInv, NEW p \in Proc, gpio_direction_output(p)
    PROVE  /\ pin' = High /\ pulled' = 0
           /\ sensor' \in SensorType /\ sensor'.pos = sensor.pos /\ sensor'.bits = sensor.bits
           /\ sensor.pos > 0 => sensor' = sensor
<1>1. TypeOK
  BY Here
<1>2. SetPin(TRUE, 1, FALSE)
  BY DEF gpio_direction_output
<1>3. pulled' = 0
  BY <1>2 DEF SetPin, Rises
<1> QED
  BY <1>1, <1>2, <1>3, SetPinFacts DEF High

-----------------------------------------------------------------------------
(* Somebody will make the pin an output, at every step.                     *)
LEMMA PinStep ==
    ASSUME TInv, Pin, [Next]_vars
    PROVE  Pin'
<1>0. TypeOK /\ pin \in PinType /\ 0 \notin Proc
  BY Dht11Assumption DEF TInv, TypeOK, PinType
<1>1. ASSUME UNCHANGED <<pin, pulled>>, NEW p \in Proc, \A q \in Proc \ {p} : at'[q] = at[q],
             at[p] \in Inside \ {"sprintf"} => at'[p] \in Inside \ {"sprintf"}
      PROVE  Pin'
  BY <1>1 DEF Pin
<1>2. CASE UNCHANGED vars \/ Sensor \/ \E p \in Proc, length \in ReadLens : device_read(p, length)
  <2>1. UNCHANGED <<pin, pulled, at>>
    BY <1>2 DEF vars, Sensor, Answer, StaySilent, NextLevel, device_read
  <2> QED
    BY <2>1 DEF Pin
<1>3. ASSUME NEW p \in Proc,
             device_open(p) \/ device_release(p) \/ Notice(p) \/ Sample(p) \/ TimedOut(p)
             \/ WrongSum(p) \/ Sprintf(p) \/ Retry(p)
      PROVE  Pin'
  <2>1. UNCHANGED <<pin, pulled>>
    BY <1>3 DEF device_open, device_release, Notice, Sample, TimedOut, WrongSum, Sprintf, Retry, Fails
  <2>2. CASE device_open(p) \/ device_release(p) \/ TimedOut(p) \/ WrongSum(p) \/ Sprintf(p) \/ Retry(p)
    <3>1. /\ \A q \in Proc \ {p} : at'[q] = at[q]
          /\ at[p] \in Inside \ {"sprintf"} => at'[p] \in Inside \ {"sprintf"}
      BY <1>0, <2>2 DEF device_open, device_release, TimedOut, WrongSum, Sprintf, Retry, Fails, Goes,
                        TypeOK, Inside, Waiting
    <3> QED
      BY <1>1, <2>1, <3>1
  <2>3. CASE Notice(p)
    <3>1. /\ \A q \in Proc \ {p} : at'[q] = at[q]
          /\ at'[p] \in Inside \ {"sprintf"}
      BY <1>0, <2>3 DEF Notice, Goes, TypeOK, Inside, Waiting
    <3> QED
      BY <1>1, <2>1, <3>1
  <2>4. CASE Sample(p)
    <3>1. /\ \A q \in Proc \ {p} : at'[q] = at[q]
          /\ at'[p] \in Inside \ {"sprintf"}
      BY <1>0, <2>4 DEF Sample, Goes, TypeOK, Inside, Waiting
    <3> QED
      BY <1>1, <2>1, <3>1
  <2> QED
    BY <1>3, <2>2, <2>3, <2>4
<1>4. ASSUME NEW p \in Proc, SetLow(p) PROVE Pin'
  <2>1. /\ at'[p] = "low" /\ pin' = [out |-> pin.out, value |-> 0]
        /\ pulled' = 0 \/ pin.out
    BY <1>4, SetLowFacts DEF Pin
  <2>2. at'[p] \in Inside \ {"sprintf"}
    BY <2>1 DEF Inside
  <2> QED
    BY <1>0, <2>1, <2>2 DEF Pin, PinType
<1>5. ASSUME NEW p \in Proc, SetHigh(p) \/ Listen(p) PROVE Pin'
  <2>1. at'[p] \in {"high", "reply"} /\ pulled' = 0
    BY <1>5, SetHighFacts, ListenFacts
  <2>2. at'[p] \in Inside \ {"sprintf"}
    BY <2>1 DEF Inside, Waiting
  <2> QED
    BY <2>1, <2>2 DEF Pin
<1>6. ASSUME NEW p \in Proc, RightSum(p) \/ GiveUp(p) PROVE Pin'
  <2>1. pin' = High /\ pulled' = 0
    BY <1>6, OutputFacts DEF RightSum, GiveUp
  <2> QED
    BY <2>1 DEF Pin
<1> QED
  BY <1>2, <1>3, <1>4, <1>5, <1>6 DEF Next, Opening, Transfer

(* When no process is in device_open the pin is an output and high again,   *)
(* for any number of processes, however their opens overlapped and whatever *)
(* the sensor did.  The types hold always.                                  *)
THEOREM PinIsRestored == Spec => []PinRestored
<1>1. Init => TInv /\ Pin
  BY TypeInit DEF Init, Pin, High
<1>2. TInv /\ Pin /\ [Next]_vars => TInv' /\ Pin'
  BY TypeStep, PinStep
<1>3. TInv /\ Pin => PinRestored
  BY DEF TInv, Pin, High, PinRestored
<1> QED
  BY <1>1, <1>2, <1>3, PTL DEF Spec

-----------------------------------------------------------------------------
(* The sensor                                                               *)

(* Nothing but the sensor itself changes what it sends.                     *)
LEMMA SensorOKStep ==
    ASSUME TInv, SensorOK, [Next]_vars
    PROVE  SensorOK'
<1>0. sensor \in SensorType /\ N \in Nat
  BY Sizes DEF TInv, TypeOK, SensorType
<1>1. ASSUME sensor' \in SensorType, sensor'.pos = sensor.pos, sensor'.bits = sensor.bits,
             sensor.pos > 0 => sensor' = sensor
      PROVE  SensorOK'
  BY <1>0, <1>1 DEF SensorOK, SensorType
<1>2. CASE sensor' = sensor
  BY <1>2 DEF SensorOK
<1>3. CASE Answer
  <2>1. PICK m \in Readings : sensor' = [heard |-> FALSE, pos |-> 1, bits |-> Frame(m)]
    BY <1>3 DEF Answer
  <2>2. Frame(m) # <<>>
    BY FrameBits
  <2> QED
    BY <2>1, <2>2 DEF SensorOK
<1>4. CASE StaySilent
  BY <1>0, <1>4 DEF StaySilent, SensorOK, SensorType
<1>5. CASE NextLevel
  <2>1. sensor.pos > 0 /\ ~sensor.heard
    BY <1>0, <1>5 DEF NextLevel, SensorOK, SensorType
  <2>2. \/ sensor' = [sensor EXCEPT !.pos = 0, !.bits = <<>>]
        \/ sensor' = [sensor EXCEPT !.pos = @ + 1]
    BY <1>5 DEF NextLevel
  <2>3. CASE sensor' = [sensor EXCEPT !.pos = 0, !.bits = <<>>]
    <3> DEFINE e == <<>>
    <3>1. sensor' = [sensor EXCEPT !.pos = 0, !.bits = e]
      BY <2>3
    <3> HIDE DEF e
    <3> QED
      BY <1>0, <2>1, <3>1 DEF SensorOK, SensorType
  <2>4. CASE sensor' = [sensor EXCEPT !.pos = @ + 1]
    BY <1>0, <2>1, <2>4 DEF SensorOK, SensorType
  <2> QED
    BY <2>2, <2>3, <2>4
<1>6. ASSUME NEW p \in Proc, Opening(p), sensor' # sensor PROVE SensorOK'
  <2>1. SetHigh(p) \/ Listen(p) \/ RightSum(p) \/ GiveUp(p)
    BY <1>6 DEF Opening, Transfer, SetLow, Notice, Sample, TimedOut, WrongSum, Sprintf, Retry, Fails
  <2> QED
    BY <1>1, <2>1, SetHighFacts, ListenFacts, OutputFacts DEF RightSum, GiveUp
<1>7. ASSUME NEW p \in Proc,
             device_open(p) \/ device_release(p) \/ \E length \in ReadLens : device_read(p, length)
      PROVE  sensor' = sensor
  BY <1>7 DEF device_open, device_release, device_read
<1>8. CASE UNCHANGED vars
  BY <1>2, <1>8 DEF vars
<1> QED
  BY <1>2, <1>3, <1>4, <1>5, <1>6, <1>7, <1>8 DEF Next, Sensor

(* A process that listens, alone, sees what the sensor sends.               *)
LEMMA NotDue ==
    ASSUME TypeOK, NEW p \in Proc, ~pin.out, ~Due(p)
    PROVE  /\ at[p] = "high" => sensor.pos # 1
           /\ at[p] \in Waiting => Sent # Wanted(p)
           /\ at[p] = "sample" => ZeroBitHigh
<1>1. Line = {Sent}
  BY LineType
<1> QED
  BY <1>1 DEF Due

(* Level when the sensor goes on to the next level and nobody is late.      *)
LEMMA NextLevelInStep ==
    ASSUME DInv, NEW p \in Proc, NextLevel, Punctual(p)'
    PROVE  Level(p)' /\ NothingMisread(p)'
<1>0. TInv /\ TypeOK /\ Steps(p) /\ SensorOK /\ Vain(p) /\ InStep(p) /\ sensor \in SensorType /\ N \in Nat /\ N > 0
  BY Sizes DEF DInv, TInv, TypeOK, SensorType
<1>1. UNCHANGED <<pin, pulled, at, retry, got, msg, file, from, alone>>
  BY DEF NextLevel
<1>2. slips = 0 /\ ~Due(p)
  <2>1. slips' = 0 /\ slips \in Nat
    BY <1>0, Sizes DEF Punctual, TypeOK
  <2> QED
    BY <2>1 DEF NextLevel
<1>3. alone[p] /\ at[p] \in Inside /\ Level(p) /\ NothingMisread(p)
  BY <1>0, <1>1, <1>2 DEF Punctual, InStep
<1>4. NothingMisread(p)'
  BY <1>1, <1>3 DEF NothingMisread
<1>5. PICK x \in Nat : x = sensor.pos /\ x > 0
  BY <1>0 DEF NextLevel, SensorType
<1>6. PICK k \in Nat : k = Len(got[p]) /\ k <= N
  BY <1>0, Here
<1>7. Sent = IF x % 2 = 1 THEN 0 ELSE 1
  BY <1>5 DEF Sent
<1>8. ~(x > 3 /\ x % 2 = 0 /\ sensor.bits[(x - 2) \div 2] = 0) => ~ZeroBitHigh
  BY <1>5 DEF ZeroBitHigh
<1>9. x # 2 * N + 3 => sensor'.pos = x + 1 /\ sensor'.bits = sensor.bits
  BY <1>0, <1>5 DEF NextLevel, SensorType
<1>10. ~(at[p] \in {"start", "low", "check", "sleep", "sprintf"}) =>
          at[p] \in Waiting \cup {"high", "sample"}
  BY <1>3 DEF Inside
<1>11. CASE at[p] \in {"start", "low", "check", "sleep", "sprintf"}
  BY <1>1, <1>3, <1>4, <1>11 DEF Level
<1>12. CASE at[p] = "high"
  <2>1. x = 1
    BY <1>3, <1>5, <1>12 DEF Level
  <2> QED
    BY <1>2, <1>5, <1>12, <2>1 DEF Due
<1>13. CASE at[p] = "reply"
  <2>1. x = 1 /\ ~pin.out
    BY <1>0, <1>3, <1>5, <1>13 DEF Level, Vain, Waiting
  <2> QED
    BY <1>0, <1>2, <1>7, <1>13, <2>1, NotDue DEF Wanted, Waiting
<1>14. CASE at[p] = "ready"
  <2>1. x \in {1, 2} /\ ~pin.out
    BY <1>0, <1>3, <1>5, <1>14 DEF Level, Vain, Waiting
  <2>2. x = 1
    BY <1>0, <1>2, <1>7, <1>14, <2>1, NotDue DEF Wanted, Waiting
  <2>3. sensor'.pos = 2 /\ sensor'.bits = sensor.bits
    BY <1>0, <1>9, <2>2
  <2> QED
    BY <1>1, <1>3, <1>4, <1>14, <2>3 DEF Level
<1>15. CASE at[p] = "go"
  <2>1. x \in {2, 3} /\ ~pin.out
    BY <1>0, <1>3, <1>5, <1>15 DEF Level, Vain, Waiting
  <2>2. x = 2
    BY <1>0, <1>2, <1>7, <1>15, <2>1, NotDue DEF Wanted, Waiting
  <2>3. sensor'.pos = 3 /\ sensor'.bits = sensor.bits
    BY <1>0, <1>9, <2>2
  <2> QED
    BY <1>1, <1>3, <1>4, <1>15, <2>3 DEF Level
<1>16. CASE at[p] = "bitlow"
  <2>1. x \in {2 * k + 2, 2 * k + 3} /\ ~pin.out /\ k < N
    BY <1>0, <1>3, <1>5, <1>6, <1>16 DEF Level, Vain, Waiting, Steps
  <2>2. (2 * k + 3) % 2 = 1
    OBVIOUS
  <2>3. x = 2 * k + 2
    BY <1>0, <1>2, <1>7, <1>16, <2>1, <2>2, NotDue DEF Wanted, Waiting
  <2>4. sensor'.pos = 2 * k + 3 /\ sensor'.bits = sensor.bits
    BY <1>0, <1>9, <2>1, <2>3
  <2> QED
    BY <1>1, <1>3, <1>4, <1>6, <1>16, <2>4 DEF Level
<1>17. CASE at[p] = "bithigh"
  <2>1. x \in {2 * k + 3, 2 * k + 4} /\ ~pin.out /\ k < N
    BY <1>0, <1>3, <1>5, <1>6, <1>17 DEF Level, Vain, Waiting, Steps
  <2>2. (2 * k + 4) % 2 # 1
    OBVIOUS
  <2>3. x = 2 * k + 3
    BY <1>0, <1>2, <1>7, <1>17, <2>1, <2>2, NotDue DEF Wanted, Waiting
  <2>4. sensor'.pos = 2 * k + 4 /\ sensor'.bits = sensor.bits
    BY <1>0, <1>9, <2>1, <2>3
  <2> QED
    BY <1>1, <1>3, <1>4, <1>6, <1>17, <2>4 DEF Level
<1>18. CASE at[p] = "sample"
  <2>1. ~pin.out /\ k < N /\ (x = 2 * k + 4 \/ x = 2 * k + 5)
    BY <1>0, <1>3, <1>5, <1>6, <1>18 DEF Level, Vain, Steps
  <2>2. ZeroBitHigh
    BY <1>0, <1>2, <1>18, <2>1, NotDue
  <2>3. (2 * k + 5) % 2 # 0 /\ (2 * k + 4 - 2) \div 2 = k + 1
    OBVIOUS
  <2>4. x % 2 = 0 /\ sensor.bits[(x - 2) \div 2] = 0
    BY <1>5, <2>2 DEF ZeroBitHigh
  <2>5. x = 2 * k + 4
    BY <2>1, <2>3, <2>4
  <2>6. sensor.bits[k + 1] = 0
    BY <2>3, <2>4, <2>5
  <2>7. sensor'.pos = 2 * k + 5 /\ sensor'.bits = sensor.bits
    BY <1>0, <1>9, <2>1, <2>5
  <2> QED
    BY <1>1, <1>3, <1>4, <1>6, <1>18, <2>6, <2>7 DEF Level
<1> QED
  BY <1>10, <1>11, <1>12, <1>13, <1>14, <1>15, <1>16, <1>17, <1>18 DEF Waiting

(* What is known of a process when the sensor moves: it is not after a      *)
(* failed attempt, because then the sensor is silent.                       *)
LEMMA SensorKnows ==
    ASSUME DInv, NEW p \in Proc, Sensor
    PROVE  Known(p)'
<1>0. /\ TInv /\ TypeOK /\ SensorOK /\ Vain(p) /\ InStep(p) /\ AloneOK(p) /\ Own(p)
      /\ sensor \in SensorType /\ N \in Nat
  BY Sizes DEF DInv, TInv, TypeOK, SensorType
<1>1. UNCHANGED <<pin, pulled, at, retry, got, msg, file, from, alone, opens>>
  BY <1>0, SensorKeeps
<1>2. ~Quiet
  BY <1>0 DEF Sensor, Answer, StaySilent, NextLevel, Quiet, SensorType
<1>3. AloneOK(p)'
  BY <1>0, <1>1 DEF AloneOK
<1>4. Own(p)'
  BY <1>0, <1>1 DEF Own
<1>5. Vain(p)'
  <2>1. alone[p] /\ at[p] \in Inside => ~(retry[p] > 0)
    BY <1>0, <1>2 DEF Vain
  <2>2. alone[p] /\ at[p] \in Inside /\ at[p] \in Waiting \cup {"sample", "check", "sleep"}
           => ~pin.out /\ pulled = 0
    BY <1>0 DEF Vain
  <2> QED
    BY <1>1, <2>1, <2>2 DEF Vain
<1>6. InStep(p)'
  <2>1. SUFFICES ASSUME Punctual(p)' PROVE Level(p)' /\ NothingMisread(p)'
    BY DEF InStep
  <2>2. CASE NextLevel
    BY <2>1, <2>2, NextLevelInStep
  <2>3. CASE Answer \/ StaySilent
    <3>1. slips' = slips /\ sensor.pos = 0
      BY <1>0, <2>3 DEF Answer, StaySilent, SensorOK, SensorType
    <3>2. Level(p) /\ NothingMisread(p)
      BY <1>0, <1>1, <2>1, <3>1 DEF InStep, Punctual
    <3>3. NothingMisread(p)'
      BY <1>1, <3>2 DEF NothingMisread
    <3>4. PICK k \in Nat : k = Len(got[p])
      BY <1>0, Here
    <3>5. at[p] \notin {"ready", "go", "bitlow", "bithigh", "sample"}
      BY <3>1, <3>2, <3>4 DEF Level
    <3>6. sensor'.pos \in {0, 1}
      BY <1>0, <2>3, <3>1 DEF Answer, StaySilent, SensorType
    <3>7. Level(p)'
      BY <1>1, <3>2, <3>5, <3>6 DEF Level
    <3> QED
      BY <3>3, <3>7
  <2> QED
    BY <2>2, <2>3 DEF Sensor
<1> QED
  BY <1>3, <1>4, <1>5, <1>6 DEF Known

-----------------------------------------------------------------------------
(* The steps of the process itself                                          *)

(* Nobody else moves.                                                       *)
LEMMA StillAlone ==
    ASSUME NEW p \in Proc, AloneOK(p), at[p] # "out", alone'[p] = alone[p],
           \A q \in Proc \ {p} : at'[q] = at[q]
    PROVE  AloneOK(p)'
BY DEF AloneOK

(* What a process knows before a step of device_open, and that it does not  *)
(* lose its being alone.                                                    *)
LEMMA Before ==
    ASSUME DInv, NEW p \in Proc, Opening(p)
    PROVE  /\ TInv /\ TypeOK /\ Pin /\ SensorOK /\ Steps(p)
           /\ AloneOK(p) /\ Vain(p) /\ Own(p) /\ InStep(p)
           /\ at[p] \in Inside
           /\ alone'[p] = alone[p] => AloneOK(p)'
           /\ alone[p] /\ Elapsed(p) => Quiet
<1>1. /\ TInv /\ TypeOK /\ Pin /\ SensorOK /\ Steps(p)
      /\ AloneOK(p) /\ Vain(p) /\ Own(p) /\ InStep(p)
  BY DEF DInv, TInv
<1>2. at[p] \in Inside /\ \A q \in Proc \ {p} : at'[q] = at[q]
  BY <1>1, OpeningFacts
<1>3. at[p] # "out"
  BY <1>2 DEF Inside, Waiting
<1>4. alone'[p] = alone[p] => AloneOK(p)'
  BY <1>1, <1>2, <1>3, StillAlone
<1>5. alone[p] /\ Elapsed(p) => Quiet
  BY <1>1, <1>3 DEF AloneOK, Elapsed, Quiet
<1> QED
  BY <1>1, <1>2, <1>4, <1>5

(* The start signal, which reaches the line only at the first attempt.      *)
LEMMA StartKnows ==
    ASSUME DInv, NEW p \in Proc, SetLow(p) \/ SetHigh(p) \/ Listen(p)
    PROVE  Known(p)'
<1>0. Opening(p) /\ 0 \notin Proc
  BY Dht11Assumption DEF Opening, Transfer
<1>1. /\ TInv /\ TypeOK /\ Pin /\ SensorOK /\ Steps(p)
      /\ AloneOK(p) /\ Vain(p) /\ Own(p) /\ InStep(p)
      /\ at[p] \in Inside
      /\ alone'[p] = alone[p] => AloneOK(p)'
      /\ alone[p] /\ Elapsed(p) => Quiet
  BY <1>0, Before
<1>2. pin \in PinType /\ retry[p] \in Nat /\ sensor \in SensorType
  BY <1>1, Here
<1>3. CASE SetLow(p)
  <2>1. /\ at[p] = "start" /\ at'[p] = "low" /\ got'[p] = <<>> /\ sensor' = sensor
        /\ pin' = [out |-> pin.out, value |-> 0]
        /\ pin.out /\ pulled = 0 => pulled' = p
        /\ ~(pin.out /\ pulled = 0) => pulled' = pulled
        /\ UNCHANGED <<retry, msg, file, from, alone, slips, opens>>
    BY <1>1, <1>3, SetLowFacts
  <2>2. AloneOK(p)' /\ Own(p)'
    BY <1>1, <2>1 DEF Own
  <2>3. Vain(p)'
    BY <1>1, <1>2, <2>1 DEF Vain, Quiet, Waiting
  <2>4. ASSUME Punctual(p)' PROVE Level(p)' /\ NothingMisread(p)'
    <3>1. retry[p] = 0 => pin = High
      BY <1>1, <2>1, <2>4 DEF InStep, Punctual, Level
    <3>2. retry[p] = 0 => pulled' = p
      BY <1>1, <2>1, <3>1 DEF Pin, High
    <3> QED
      BY <2>1, <3>2 DEF Level, NothingMisread
  <2> QED
    BY <2>2, <2>3, <2>4 DEF Known, InStep
<1>4. CASE SetHigh(p)
  <2>1. /\ at[p] = "low" /\ at'[p] = "high" /\ Elapsed(p)
        /\ pin' = [out |-> pin.out, value |-> 1]
        /\ pulled = 0 => pulled' = 0 /\ sensor' = sensor
        /\ sensor'.pos = sensor.pos /\ sensor'.bits = sensor.bits
        /\ pulled' = 0
        /\ UNCHANGED <<got, retry, msg, file, from, alone, slips, opens>>
    BY <1>1, <1>4, SetHighFacts
  <2>2. AloneOK(p)' /\ Own(p)'
    BY <1>1, <2>1 DEF Own
  <2>3. Vain(p)'
    BY <1>1, <1>2, <2>1 DEF Vain, Quiet, Waiting
  <2>4. ASSUME Punctual(p)' PROVE Level(p)' /\ NothingMisread(p)'
    <3>1. alone[p] /\ Level(p) /\ NothingMisread(p)
      BY <1>1, <2>1, <2>4 DEF InStep, Punctual
    <3>2. retry[p] = 0 => pin' = High
      <4>1. retry[p] = 0 => pulled = p
        BY <2>1, <3>1 DEF Level
      <4>2. p # 0
        BY <1>0
      <4>3. retry[p] = 0 => pin = [out |-> TRUE, value |-> 0]
        BY <1>1, <4>1, <4>2 DEF Pin
      <4>4. retry[p] = 0 => pin.out = TRUE
        BY <4>3
      <4> QED
        BY <2>1, <4>4 DEF High
    <3>3. sensor'.pos = 0
      BY <1>1, <2>1, <3>1 DEF Quiet
    <3> QED
      BY <2>1, <3>1, <3>2, <3>3 DEF Level, NothingMisread
  <2> QED
    BY <2>2, <2>3, <2>4 DEF Known, InStep
<1>5. CASE Listen(p)
  <2>1. /\ at[p] = "high" /\ at'[p] = "reply"
        /\ ~pin'.out /\ pulled' = 0
        /\ pulled = 0 => sensor' = sensor
        /\ sensor'.pos = sensor.pos /\ sensor'.bits = sensor.bits
        /\ UNCHANGED <<got, retry, msg, file, from, alone, slips, opens>>
    BY <1>1, <1>5, ListenFacts
  <2>2. AloneOK(p)' /\ Own(p)'
    BY <1>1, <2>1 DEF Own
  <2>3. Vain(p)'
    BY <1>1, <1>2, <2>1 DEF Vain, Quiet
  <2>4. ASSUME Punctual(p)' PROVE Level(p)' /\ NothingMisread(p)'
    <3>1. Level(p) /\ NothingMisread(p)
      BY <1>1, <2>1, <2>4 DEF InStep, Punctual
    <3> QED
      BY <2>1, <3>1 DEF Level, NothingMisread
  <2> QED
    BY <2>2, <2>3, <2>4 DEF Known, InStep
<1> QED
  BY <1>3, <1>4, <1>5

(* A level that the driver waits for: the one that the sensor sends.        *)
LEMMA NoticeKnows ==
    ASSUME DInv, NEW p \in Proc, Notice(p)
    PROVE  Known(p)'
<1>0. Opening(p)
  BY DEF Opening, Transfer
<1>1. /\ TInv /\ TypeOK /\ SensorOK /\ Steps(p)
      /\ Vain(p) /\ InStep(p) /\ at[p] \in Inside
      /\ alone'[p] = alone[p] => AloneOK(p)'
  BY <1>0, Before
<1>2. retry[p] \in Nat /\ sensor \in SensorType
  BY <1>1, Here
<1>3. /\ at[p] \in Waiting /\ Wanted(p) \in Line
      /\ UNCHANGED <<pin, pulled, sensor, retry, got, msg, file, alone, slips, opens>>
  BY DEF Notice
<1>4. /\ at[p] = "reply" => at'[p] = "ready" /\ from'[p] = sensor.bits
      /\ at[p] = "ready" => at'[p] = "go"
      /\ at[p] = "go" => at'[p] = "bitlow"
      /\ at[p] = "bitlow" => at'[p] = "bithigh"
      /\ at[p] = "bithigh" => at'[p] = "sample"
      /\ at[p] # "reply" => from' = from
  BY <1>1, <1>3 DEF Notice, Goes, TypeOK, Waiting
<1>5. at'[p] \in {"ready", "go", "bitlow", "bithigh", "sample"}
  BY <1>3, <1>4 DEF Waiting
<1>6. AloneOK(p)' /\ Own(p)'
  BY <1>1, <1>3, <1>5 DEF Own
<1>7. alone[p] => ~pin.out /\ pulled = 0 /\ Line = {Sent} /\ Sent = Wanted(p)
  <2>1. alone[p] => ~pin.out /\ pulled = 0
    BY <1>1, <1>3 DEF Vain
  <2> QED
    BY <1>1, <1>3, <2>1, LineType
<1>8. PICK x \in Nat : x = sensor.pos
  BY <1>2 DEF SensorType
<1>9. Sent = IF x % 2 = 1 THEN 0 ELSE 1
  BY <1>8 DEF Sent
<1>10. Vain(p)'
  <2>1. ASSUME alone[p], retry[p] > 0 PROVE FALSE
    <3>1. at[p] = "reply" /\ x = 0
      BY <1>1, <1>3, <1>8, <2>1 DEF Vain, Quiet, Waiting
    <3> QED
      BY <1>7, <1>9, <2>1, <3>1 DEF Wanted
  <2> QED
    BY <1>3, <1>5, <1>7, <2>1 DEF Vain
<1>11. ASSUME Punctual(p)' PROVE Level(p)' /\ NothingMisread(p)'
  <2>1. alone[p] /\ Level(p) /\ NothingMisread(p)
    BY <1>1, <1>3, <1>11 DEF InStep, Punctual
  <2>2. NothingMisread(p)'
    <3>1. CASE at[p] = "reply"
      BY <1>1, <1>3, <3>1 DEF Steps, NothingMisread
    <3>2. CASE at[p] # "reply"
      BY <1>3, <1>4, <2>1, <3>2 DEF NothingMisread
    <3> QED
      BY <3>1, <3>2
  <2>3. PICK k \in Nat : k = Len(got[p])
    BY <1>1, Here
  <2>4. CASE at[p] = "reply"
    <3>1. x = 1
      BY <1>7, <1>8, <1>9, <2>1, <2>4 DEF Wanted, Level
    <3> QED
      BY <1>3, <1>4, <1>8, <2>2, <2>4, <3>1 DEF Level
  <2>5. CASE at[p] = "ready"
    <3>1. x = 2 /\ from[p] = sensor.bits
      BY <1>7, <1>8, <1>9, <2>1, <2>5 DEF Wanted, Level
    <3> QED
      BY <1>3, <1>4, <1>8, <2>2, <2>5, <3>1 DEF Level
  <2>6. CASE at[p] = "go"
    <3>1. x = 3 /\ k = 0 /\ from[p] = sensor.bits
      BY <1>1, <1>7, <1>8, <1>9, <2>1, <2>3, <2>6 DEF Wanted, Level, Steps
    <3> QED
      BY <1>3, <1>4, <1>8, <2>2, <2>3, <2>6, <3>1 DEF Level
  <2>7. CASE at[p] = "bitlow"
    <3>1. x \in {2 * k + 2, 2 * k + 3} /\ from[p] = sensor.bits /\ Sent = 0
      BY <1>7, <1>8, <2>1, <2>3, <2>7 DEF Wanted, Level
    <3>2. x = 2 * k + 3
      BY <1>9, <3>1
    <3> QED
      BY <1>3, <1>4, <1>8, <2>2, <2>3, <2>7, <3>1, <3>2 DEF Level
  <2>8. CASE at[p] = "bithigh"
    <3>1. x \in {2 * k + 3, 2 * k + 4} /\ from[p] = sensor.bits /\ Sent = 1
      BY <1>7, <1>8, <2>1, <2>3, <2>8 DEF Wanted, Level
    <3>2. x = 2 * k + 4
      BY <1>9, <3>1
    <3> QED
      BY <1>3, <1>4, <1>8, <2>2, <2>3, <2>8, <3>1, <3>2 DEF Level
  <2> QED
    BY <1>3, <2>4, <2>5, <2>6, <2>7, <2>8 DEF Waiting
<1> QED
  BY <1>6, <1>10, <1>11 DEF Known, InStep

(* A look at the line after 50 us: the bit that the sensor sends.           *)
LEMMA SampleKnows ==
    ASSUME DInv, NEW p \in Proc, Sample(p)
    PROVE  Known(p)'
<1>0. Opening(p)
  BY DEF Opening, Transfer
<1>1. /\ TInv /\ TypeOK /\ SensorOK /\ Steps(p)
      /\ Vain(p) /\ InStep(p) /\ at[p] \in Inside
      /\ alone'[p] = alone[p] => AloneOK(p)'
  BY <1>0, Before
<1>2. retry[p] \in Nat /\ sensor \in SensorType /\ got[p] \in Seq({0, 1}) /\ N \in Nat
  BY <1>1, Here, Sizes
<1>3. /\ at[p] = "sample" /\ (pin.out \/ ~ZeroBitHigh)
      /\ at'[p] \in {"bitlow", "check"}
      /\ UNCHANGED <<pin, pulled, sensor, retry, msg, file, from, alone, slips, opens>>
  BY <1>1 DEF Sample, Goes, TypeOK
<1>4. PICK level \in Line : got' = [got EXCEPT ![p] = Append(@, level)]
  BY DEF Sample
<1>5. AloneOK(p)' /\ Own(p)'
  BY <1>1, <1>3 DEF Own
<1>6. alone[p] => ~pin.out /\ pulled = 0 /\ ~(retry[p] > 0)
  BY <1>1, <1>3 DEF Vain
<1>7. Vain(p)'
  BY <1>2, <1>3, <1>6 DEF Vain
<1>8. ASSUME Punctual(p)' PROVE Level(p)' /\ NothingMisread(p)'
  <2>1. alone[p] /\ Level(p) /\ NothingMisread(p)
    BY <1>1, <1>3, <1>8 DEF InStep, Punctual
  <2>2. PICK k \in Nat : k = Len(got[p]) /\ k < N
    BY <1>1, <1>2, <1>3 DEF Steps
  <2>3. PICK x \in Nat : x = sensor.pos
    BY <1>2 DEF SensorType
  <2>4. /\ from[p] = sensor.bits
        /\ x = 2 * k + 4 \/ (x = 2 * k + 5 /\ sensor.bits[k + 1] = 0)
    BY <1>3, <2>1, <2>2, <2>3 DEF Level
  <2>5. sensor.bits # <<>> /\ sensor.bits \in Sendings
    BY <1>1, <1>2, <2>3, <2>4 DEF SensorOK, SensorType
  <2>6. sensor.bits[k + 1] \in {0, 1}
    BY <1>2, <2>2, <2>5, SentBits
  <2>7. level = Sent /\ Sent = IF x % 2 = 1 THEN 0 ELSE 1
    BY <1>1, <1>4, <1>6, <2>1, <2>3, LineType DEF Sent
  <2>8. level = sensor.bits[k + 1]
    <3>1. CASE x = 2 * k + 4
      <4>1. (x - 2) \div 2 = k + 1 /\ x % 2 = 0 /\ x > 3
        BY <3>1
      <4>2. sensor.bits[k + 1] # 0
        BY <1>3, <1>6, <2>1, <2>3, <4>1 DEF ZeroBitHigh
      <4> QED
        BY <2>6, <2>7, <4>1, <4>2
    <3>2. CASE x = 2 * k + 5 /\ sensor.bits[k + 1] = 0
      <4>1. x % 2 = 1
        BY <3>2
      <4> QED
        BY <2>7, <3>2, <4>1
    <3> QED
      BY <2>4, <3>1, <3>2
  <2> DEFINE g == Append(got[p], level)
  <2>9. /\ got'[p] = g /\ Len(g) = k + 1 /\ g[k + 1] = level
        /\ \A i \in 1 .. k : g[i] = got[p][i]
    BY <1>1, <1>2, <1>4, <2>2 DEF TypeOK
  <2> HIDE DEF g
  <2>10. NothingMisread(p)'
    <3>1. \A i \in 1 .. k : from[p] # <<>> /\ got[p][i] = from[p][i]
      BY <2>1, <2>2 DEF NothingMisread
    <3>2. ASSUME NEW i \in 1 .. k + 1 PROVE from[p] # <<>> /\ g[i] = from[p][i]
      <4>1. CASE i = k + 1
        BY <2>4, <2>5, <2>8, <2>9, <4>1
      <4>2. CASE i # k + 1
        <5>1. i \in 1 .. k
          BY <4>2
        <5> QED
          BY <2>9, <3>1, <5>1
      <4> QED
        BY <4>1, <4>2
    <3> QED
      BY <1>3, <2>9, <3>2 DEF NothingMisread
  <2>11. Level(p)'
    <3>1. x \in {2 * (k + 1) + 2, 2 * (k + 1) + 3} /\ Len(got'[p]) = k + 1
      BY <2>4, <2>9
    <3> QED
      BY <1>3, <2>3, <2>4, <3>1 DEF Level
  <2> QED
    BY <2>10, <2>11
<1> QED
  BY <1>5, <1>7, <1>8 DEF Known, InStep

(* An attempt ends, and another one begins: a failed one leaves the pin an  *)
(* input, and when the sleep is over the sensor is silent.                  *)
LEMMA EndKnows ==
    ASSUME DInv, NEW p \in Proc, TimedOut(p) \/ WrongSum(p) \/ RightSum(p) \/ Retry(p)
    PROVE  Known(p)'
<1>0. Opening(p)
  BY DEF Opening, Transfer
<1>1. /\ TInv /\ TypeOK /\ Vain(p) /\ InStep(p) /\ at[p] \in Inside
      /\ alone'[p] = alone[p] => AloneOK(p)'
      /\ alone[p] /\ Elapsed(p) => Quiet
  BY <1>0, Before
<1>2. retry[p] \in Nat
  BY <1>1, Here
<1>3. /\ at'[p] \in {"sleep", "sprintf", "start"}
      /\ UNCHANGED <<got, msg, file, from, alone, slips, opens>>
  BY <1>1 DEF TimedOut, WrongSum, RightSum, Retry, Fails, Goes, TypeOK
<1>4. AloneOK(p)' /\ Own(p)'
  BY <1>1, <1>3 DEF Own
<1>5. Vain(p)'
  <2>1. CASE TimedOut(p) \/ WrongSum(p)
    <3>1. /\ at[p] \in Waiting \cup {"check"} /\ at'[p] = "sleep"
          /\ UNCHANGED <<pin, pulled, sensor, retry, alone>>
      BY <1>1, <2>1 DEF TimedOut, WrongSum, Fails, Goes, TypeOK
    <3> QED
      BY <1>1, <3>1 DEF Vain, Quiet
  <2>2. CASE RightSum(p)
    <3>1. at[p] = "check" /\ at'[p] = "sprintf" /\ UNCHANGED <<retry, alone>>
      BY <1>1, <2>2 DEF RightSum, Goes, TypeOK
    <3> QED
      BY <1>1, <3>1 DEF Vain, Waiting
  <2>3. CASE Retry(p)
    <3>1. /\ at[p] = "sleep" /\ at'[p] = "start" /\ Elapsed(p)
          /\ UNCHANGED <<pin, pulled, sensor, alone>>
      BY <1>1, <2>3 DEF Retry, Goes, TypeOK
    <3>2. alone[p] => ~pin.out /\ pulled = 0 /\ Quiet
      BY <1>1, <3>1 DEF Vain
    <3> QED
      BY <3>1, <3>2 DEF Vain, Quiet, Waiting
  <2> QED
    BY <2>1, <2>2, <2>3
<1>6. ASSUME Punctual(p)' PROVE Level(p)' /\ NothingMisread(p)'
  <2>1. NothingMisread(p)
    BY <1>1, <1>3, <1>6 DEF InStep, Punctual
  <2>2. at'[p] = "start" => retry'[p] # 0
    <3>1. CASE Retry(p)
      BY <1>1, <1>2, <3>1 DEF Retry, TypeOK
    <3>2. CASE ~Retry(p)
      BY <1>1, <3>2 DEF TimedOut, WrongSum, RightSum, Fails, Goes, TypeOK
    <3> QED
      BY <3>1, <3>2
  <2> QED
    BY <1>3, <2>1, <2>2 DEF Level, NothingMisread
<1> QED
  BY <1>4, <1>5, <1>6 DEF Known, InStep

(* device_open returns 0 with its own reading in msg, and a fresh file.     *)
LEMMA SprintfKnows ==
    ASSUME DInv, NEW p \in Proc, Sprintf(p)
    PROVE  Known(p)'
<1>0. Opening(p)
  BY DEF Opening, Transfer
<1>1. /\ TInv /\ TypeOK /\ Steps(p) /\ at[p] = "sprintf" /\ at'[p] = "open" /\ alone' = alone
      /\ alone'[p] = alone[p] => AloneOK(p)'
  BY <1>0, Before DEF Sprintf, Goes, TypeOK
<1>2. AloneOK(p)' /\ Vain(p)' /\ InStep(p)'
  BY <1>1 DEF Vain, InStep, Punctual, Inside, Waiting
<1>3. Own(p)'
  <2> DEFINE s == Shown(got[p])
             f == [Closed EXCEPT !.own = s]
  <2>1. file[p] = Closed
    BY <1>1 DEF Steps
  <2>2. msg' = s /\ file' = [file EXCEPT ![p].own = s]
    BY DEF Sprintf
  <2> HIDE DEF s
  <2>3. f.own = s /\ f.offset = 0 /\ f.out = <<>> /\ ~f.eof
    BY DEF Closed
  <2>4. file'[p] = f
    BY <1>1, <2>1, <2>2 DEF TypeOK
  <2> HIDE DEF f
  <2>5. TInv'
    BY <1>1, ReturnKeeps
  <2>6. msg' \in [1 .. 2 -> Bytes]
    BY <2>5 DEF TInv, TypeOK
  <2> DEFINE t == Text(msg')
  <2>7. t \in Seq(Bytes) /\ Len(t) \in Nat
    BY <2>6, TextType
  <2>8. SubSeq(t, 1, 0) = <<>>
    BY <2>7, SubSeqEmpty
  <2>9. /\ msg' = file'[p].own /\ file'[p].offset <= Len(t)
        /\ file'[p].out = SubSeq(t, 1, file'[p].offset)
    <3> DEFINE e == <<>>
    <3>1. msg' = s /\ f.own = s /\ f.offset = 0 /\ f.out = e /\ SubSeq(t, 1, 0) = e
      BY <2>2, <2>3, <2>8
    <3> HIDE DEF t, e
    <3> QED
      BY <2>4, <2>7, <3>1
  <2>10. ~file'[p].eof
    BY <2>3, <2>4
  <2> QED
    BY <2>9, <2>10, Zenon DEF Own
<1> QED
  BY <1>2, <1>3 DEF Known

(* device_open finds the pin high when nobody is in device_open.            *)
LEMMA OpenKnows ==
    ASSUME DInv, NEW p \in Proc, device_open(p)
    PROVE  Known(p)'
<1>1. TInv /\ TypeOK /\ Pin /\ Steps(p)
  BY DEF DInv, TInv
<1>2. /\ at[p] = "out" /\ at'[p] = "start" /\ retry'[p] = 0
      /\ \A q \in Proc \ {p} : at'[q] = at[q]
      /\ UNCHANGED <<pin, pulled, sensor, got, msg, file, from>>
  BY <1>1 DEF device_open, Goes, TypeOK
<1>3. alone'[p] => \A r \in Proc : at[r] \notin Inside
  BY Zenon DEF device_open
<1>4. AloneOK(p)' /\ Own(p)'
  BY <1>2, <1>3 DEF AloneOK, Own
<1>5. Vain(p)'
  BY <1>2 DEF Vain, Waiting
<1>6. ASSUME Punctual(p)' PROVE Level(p)' /\ NothingMisread(p)'
  <2>1. pin' = High
    BY <1>1, <1>2, <1>3, <1>6 DEF Punctual, Pin
  <2>2. got'[p] = <<>>
    BY <1>1, <1>2 DEF Steps
  <2> QED
    BY <1>2, <2>1, <2>2 DEF Level, NothingMisread
<1> QED
  BY <1>4, <1>5, <1>6 DEF Known, InStep

(* device_read adds the next piece of the text to what has been read.       *)
LEMMA ReadKnows ==
    ASSUME DInv, NEW p \in Proc, NEW length \in ReadLens, device_read(p, length)
    PROVE  Known(p)'
<1>1. TInv /\ TypeOK /\ AloneOK(p) /\ Own(p)
  BY DEF DInv, TInv
<1>2. /\ at[p] = "open"
      /\ UNCHANGED <<pin, pulled, sensor, at, retry, got, msg, from, alone, slips, opens>>
      /\ file'[p] \in FileType /\ file'[p].own = file[p].own /\ ~file[p].eof
      /\ \/ /\ file[p].offset >= Len(Text(msg))
            /\ file'[p].offset = file[p].offset /\ file'[p].out = file[p].out
         \/ /\ file[p].offset < Len(Text(msg)) /\ ~file'[p].eof
            /\ \E e \in file[p].offset .. Len(Text(msg)) :
                  /\ file'[p].offset = e
                  /\ file'[p].out = file[p].out \o SubSeq(Text(msg), file[p].offset + 1, e)
  BY <1>1, ReadFacts
<1>3. AloneOK(p)' /\ Vain(p)' /\ InStep(p)'
  BY <1>1, <1>2 DEF AloneOK, Vain, InStep, Punctual, Inside, Waiting
<1>4. ASSUME alone[p] PROVE Own(p)'
  <2> DEFINE t == Text(msg)
  <2>1. t \in Seq(Bytes) /\ Len(t) \in Nat
    BY <1>1, TextType DEF TypeOK
  <2>2. PICK o \in Nat : o = file[p].offset
    BY <1>1, Here DEF FileType
  <2>3. /\ msg = file[p].own /\ o <= Len(t) /\ file[p].out = SubSeq(t, 1, o)
    BY <1>1, <1>2, <1>4, <2>2 DEF Own
  <2> HIDE DEF t
  <2>4. CASE o >= Len(t)
    <3>1. o = Len(t)
      BY <2>1, <2>3, <2>4
    <3>2. file'[p].offset = o /\ file'[p].out = file[p].out
      BY <1>2, <2>1, <2>2, <2>4 DEF t
    <3> QED
      BY <1>2, <2>2, <2>3, <3>1, <3>2 DEF Own, t
  <2>5. CASE ~(o >= Len(t))
    <3>1. PICK e \in o .. Len(t) : /\ file'[p].offset = e
                                   /\ file'[p].out = file[p].out \o SubSeq(t, o + 1, e)
                                   /\ ~file'[p].eof
      BY <1>2, <2>1, <2>2, <2>5 DEF t
    <3>2. SubSeq(t, 1, o) \o SubSeq(t, o + 1, e) = SubSeq(t, 1, e)
      <4>1. 1 \in 1 .. Len(t) + 1 /\ o \in 0 .. Len(t) /\ e \in o .. Len(t)
        BY <2>1, <2>3
      <4> QED
        BY <2>1, <4>1, ConcatAdjacentSubSeq
    <3>3. /\ msg' = msg /\ msg = file'[p].own /\ file'[p].offset <= Len(t)
          /\ file'[p].out = SubSeq(t, 1, file'[p].offset)
      <4>1. msg' = msg /\ msg = file'[p].own
        BY <1>2, <2>3
      <4>2. file'[p].offset <= Len(t)
        BY <2>1, <2>2, <3>1
      <4>3. file'[p].out = SubSeq(t, 1, file'[p].offset)
        BY <2>3, <3>1, <3>2
      <4> QED
        BY <4>1, <4>2, <4>3
    <3> QED
      BY <3>1, <3>3, Zenon DEF Own, t
  <2> QED
    BY <2>4, <2>5
<1>5. ASSUME ~alone[p] PROVE Own(p)'
  <2>1. ~(at'[p] = "open" /\ alone'[p])
    BY <1>2, <1>5
  <2> QED
    BY <2>1, Zenon DEF Own
<1> QED
  BY <1>3, <1>4, <1>5 DEF Known

-----------------------------------------------------------------------------
(* The invariant                                                            *)

(* Every step keeps what is known of every process.                         *)
LEMMA KnownStep ==
    ASSUME DInv, [Next]_vars, NEW p \in Proc
    PROVE  Known(p)'
<1>0. TInv /\ TypeOK /\ Known(p)
  BY DEF DInv, TInv, Known
<1>1. CASE UNCHANGED vars
  <2>1. Same(p) /\ \A q \in Proc \ {p} : at'[q] \in Inside => at[q] \in Inside
    BY <1>1 DEF vars, Same
  <2> QED
    BY <1>0, <2>1, SameKnown
<1>2. CASE Sensor
  BY <1>2, SensorKnows
<1>3. ASSUME NEW r \in Proc, r # p,
             \/ device_open(r) \/ Opening(r) \/ device_release(r)
             \/ \E length \in ReadLens : device_read(r, length)
      PROVE  Known(p)'
  <2>1. p \in Proc \ {r}
    BY <1>3
  <2> QED
    BY <1>3, <2>1, OthersKnow
<1>4. CASE device_open(p)
  BY <1>4, OpenKnows
<1>5. CASE device_release(p) \/ GiveUp(p)
  <2>1. at'[p] = "out"
    BY <1>0, <1>5 DEF device_release, GiveUp, Goes, TypeOK
  <2> QED
    BY <2>1, NothingKnown
<1>6. ASSUME NEW length \in ReadLens, device_read(p, length) PROVE Known(p)'
  BY <1>6, ReadKnows
<1>7. CASE Opening(p) /\ ~GiveUp(p)
  BY <1>7, StartKnows, NoticeKnows, SampleKnows, EndKnows, SprintfKnows DEF Opening, Transfer
<1> QED
  BY <1>1, <1>2, <1>3, <1>4, <1>5, <1>6, <1>7 DEF Next

(* The invariant holds in every state.                                      *)
LEMMA DInvAlways == Spec => []DInv
<1>1. Init => DInv
  <2> SUFFICES ASSUME Init PROVE DInv
    OBVIOUS
  <2>1. TInv /\ Pin /\ SensorOK
    BY TypeInit DEF Init, Pin, High, SensorOK
  <2>2. ASSUME NEW p \in Proc PROVE AloneOK(p) /\ Vain(p) /\ Own(p) /\ InStep(p)
    BY DEF Init, AloneOK, Vain, Own, InStep, Punctual, Inside, Waiting
  <2> QED
    BY <2>1, <2>2 DEF DInv
<1>2. DInv /\ [Next]_vars => DInv'
  <2> SUFFICES ASSUME DInv, [Next]_vars PROVE DInv'
    OBVIOUS
  <2>1. TInv' /\ Pin' /\ SensorOK'
    BY TypeStep, PinStep, SensorOKStep DEF DInv
  <2>2. ASSUME NEW p \in Proc PROVE (AloneOK(p) /\ Vain(p) /\ Own(p) /\ InStep(p))'
    BY KnownStep DEF Known
  <2> QED
    BY <2>1, <2>2 DEF DInv
<1> QED
  BY <1>1, <1>2, PTL DEF Spec

(* A process that is alone succeeds at its first attempt or not at all: the *)
(* four further attempts of device_open, which find the pin an input, never *)
(* bring a reading.                                                         *)
THEOREM RetriesAreInVain == Spec => []RetryIsInVain
<1>1. DInv => RetryIsInVain
  <2> SUFFICES ASSUME DInv, NEW p \in Proc, alone[p], at[p] = "sprintf" PROVE retry[p] = 0
    BY DEF RetryIsInVain
  <2>1. Vain(p) /\ retry[p] \in Nat /\ at[p] \in Inside
    BY Here DEF DInv, Inside
  <2>2. ~(retry[p] > 0)
    BY <2>1 DEF Vain
  <2> QED
    BY <2>1, <2>2
<1> QED
  BY <1>1, DInvAlways, PTL

(* A process reads, piece by piece and whatever the lengths it asks for,    *)
(* the reading that its own open has put into msg, unless another process   *)
(* opens the device in between.                                             *)
THEOREM ReadsTheReading == Spec => []ReadsOwnReading
<1>1. DInv => ReadsOwnReading
  <2> SUFFICES ASSUME DInv, NEW p \in Proc, at[p] = "open", alone[p]
               PROVE  /\ msg = file[p].own
                      /\ file[p].out = SubSeq(Text(msg), 1, file[p].offset)
                      /\ file[p].eof => file[p].out = Text(msg)
    BY DEF ReadsOwnReading
  <2>1. Own(p) /\ msg \in [1 .. 2 -> Bytes]
    BY Here DEF DInv
  <2>2. SubSeq(Text(msg), 1, Len(Text(msg))) = Text(msg)
    BY <2>1, TextType, SubSeqFull
  <2> QED
    BY <2>1, <2>2 DEF Own
<1> QED
  BY <1>1, DInvAlways, PTL

-----------------------------------------------------------------------------
(* The sum                                                                  *)

(* Quotient and remainder.                                                  *)
LEMMA DivFacts ==
    ASSUME NEW a \in Nat, NEW c \in Nat \ {0}
    PROVE  /\ a \div c \in Nat /\ a % c \in 0 .. c - 1 /\ a = (c * (a \div c)) + (a % c)
OBVIOUS

(* There is only one quotient and one remainder.                            *)
LEMMA DivUnique ==
    ASSUME NEW a \in Nat, NEW c \in Nat \ {0}, NEW q \in Nat, NEW r \in 0 .. c - 1, a = c * q + r
    PROVE  a \div c = q /\ a % c = r
OBVIOUS

(* A quotient is twice the next one and its last bit: what a shift undoes.  *)
LEMMA Halves ==
    ASSUME NEW a \in Nat, NEW c \in Nat \ {0}
    PROVE  a \div c = 2 * (a \div (2 * c)) + ((a \div c) % 2)
<1>1. PICK q \in Nat, r \in 0 .. c - 1 : q = a \div c /\ a = c * q + r
  BY DivFacts
<1>2. PICK h \in Nat, e \in {0, 1} : q = 2 * h + e /\ e = q % 2
  OBVIOUS
<1>3. PICK d \in Nat \ {0} : d = 2 * c
  OBVIOUS
<1>4. PICK s \in 0 .. d - 1 : s = c * e + r
  BY <1>3
<1>5. c * q = d * h + c * e
  BY <1>2, <1>3
<1>6. a = d * h + s
  BY <1>1, <1>4, <1>5
<1>7. a \div d = h
  BY <1>6, DivUnique
<1> QED
  BY <1>1, <1>2, <1>3, <1>7

(* A number that grows by less than c has another remainder.                *)
LEMMA RemainderMoves ==
    ASSUME NEW a \in Nat, NEW c \in Nat \ {0}, NEW d \in 1 .. c - 1
    PROVE  (a + d) % c # a % c
<1>1. PICK q \in Nat, r \in 0 .. c - 1 : r = a % c /\ a = c * q + r
  BY DivFacts
<1>2. CASE r + d < c
  <2>1. PICK s \in 0 .. c - 1 : s = r + d
    BY <1>2
  <2>2. a + d \in Nat /\ a + d = c * q + s
    BY <1>1, <2>1
  <2>3. (a + d) % c = s
    BY <2>2, DivUnique
  <2> QED
    BY <1>1, <2>1, <2>3
<1>3. CASE ~(r + d < c)
  <2>1. PICK s \in 0 .. c - 1 : s = r + d - c
    BY <1>3
  <2>2. c * (q + 1) = c * q + c
    OBVIOUS
  <2>3. a + d \in Nat /\ q + 1 \in Nat /\ a + d = c * (q + 1) + s
    BY <1>1, <2>1, <2>2
  <2>4. (a + d) % c = s
    BY <2>3, DivUnique
  <2> QED
    BY <1>1, <2>1, <2>4
<1> QED
  BY <1>2, <1>3

(* The powers of two up to the width are no greater than the last one.      *)
LEMMA PowersGrow ==
    ASSUME NEW k \in 0 .. Width
    PROVE  2^k <= 2^Width /\ 2^k \in Nat \ {0}
<1>0. Width \in Nat /\ \A i \in 0 .. Width : 2^i \in Nat \ {0} /\ 2^(i + 1) = 2 * 2^i
  BY Dht11Assumption, PowersOfTwo
<1> DEFINE T == {v \in Nat : v <= Width /\ ~(2^(Width - v) <= 2^Width)}
<1>1. ASSUME T # {} PROVE FALSE
  <2>1. PICK v \in T : \A y \in T : v <= y
    BY <1>1, LeastMember
  <2>2. v # 0
    <3>1. ASSUME v = 0 PROVE FALSE
      <4>1. Width - v = Width
        BY <1>0, <3>1
      <4>2. 2^(Width - v) = 2^Width /\ 2^Width \in Nat
        BY <1>0, <4>1
      <4> QED
        BY <2>1, <4>2
    <3> QED
      BY <3>1
  <2>3. v - 1 \in Nat /\ v - 1 <= Width /\ v - 1 \notin T
    BY <1>0, <2>1, <2>2
  <2>4. PICK i \in 0 .. Width : i = Width - v
    BY <1>0, <2>1
  <2>5. Width - (v - 1) = i + 1
    BY <1>0, <2>1, <2>4
  <2>6. 2^(i + 1) <= 2^Width
    BY <2>3, <2>5
  <2>7. PICK x \in Nat : x = 2^i /\ 2^(i + 1) = 2 * x
    BY <1>0
  <2>8. PICK y \in Nat : y = 2^Width
    BY <1>0
  <2>9. x <= y
    BY <2>6, <2>7, <2>8
  <2>10. ~(2^i <= 2^Width)
    BY <2>1, <2>4
  <2> QED
    BY <2>7, <2>8, <2>9, <2>10
<1>2. Width - k \in Nat /\ Width - k <= Width /\ Width - (Width - k) = k
  BY <1>0
<1> QED
  BY <1>0, <1>1, <1>2

(* A sequence of N bits.                                                    *)
Bits(b) == \A i \in 1 .. N : b[i] \in {0, 1}

(* Bit e of byte j is bit i.                                                *)
LEMMA BitOfByte ==
    ASSUME NEW j \in 1 .. 5, NEW e \in 1 .. Width, NEW i, i = (j - 1) * Width + e
    PROVE  i \in 1 .. N /\ (i - 1) \div Width = j - 1 /\ (i - 1) % Width = e - 1
<1>0. Width \in Nat \ {0}
  BY Dht11Assumption
<1>1. i \in 1 .. N
  BY <1>0 DEF N
<1>2. PICK q \in Nat : q = j - 1
  OBVIOUS
<1>3. PICK r \in 0 .. Width - 1 : r = e - 1
  BY <1>0
<1>4. i - 1 \in Nat /\ i - 1 = Width * q + r
  BY <1>0, <1>1, <1>2, <1>3
<1> QED
  BY <1>0, <1>1, <1>2, <1>3, <1>4, DivUnique

(* Every bit is a bit of some byte.                                         *)
LEMMA ByteOfBit ==
    ASSUME NEW i \in 1 .. N
    PROVE  \E j \in 1 .. 5, e \in 1 .. Width : i = (j - 1) * Width + e
<1>0. Width \in Nat \ {0} /\ N = 5 * Width
  BY Dht11Assumption DEF N
<1>1. PICK x \in Nat : x = i - 1 /\ x < 5 * Width
  BY <1>0
<1>2. PICK q \in Nat, r \in 0 .. Width - 1 : x = Width * q + r
  BY <1>0, DivFacts
<1>3. q < 5
  <2>1. q >= 5 => Width * q >= Width * 5
    BY <1>0
  <2> QED
    BY <1>0, <1>1, <1>2, <2>1
<1>4. q + 1 \in 1 .. 5 /\ r + 1 \in 1 .. Width /\ (q + 1) - 1 = q
  BY <1>0, <1>3
<1>5. i = q * Width + (r + 1)
  BY <1>0, <1>1, <1>2
<1> QED
  BY <1>4, <1>5

(* Nothing is lost while a byte is shifted in.                              *)
LEMMA NoOverflow ==
    ASSUME NEW bits, Bits(bits), NEW j \in 1 .. 5, NEW f, Shifts(bits, j, Width, f)
    PROVE  /\ f[0] = 0
           /\ \A i \in 0 .. Width : f[i] \in Nat /\ f[i] < 2^i
           /\ \A i \in 1 .. Width : f[i] = 2 * f[i - 1] + bits[(j - 1) * Width + i]
<1>0. Width \in Nat \ {0} /\ \A i \in 0 .. Width : 2^i \in Nat \ {0} /\ 2^(i + 1) = 2 * 2^i
  BY Dht11Assumption, PowersOfTwo
<1>1. f[0] = 0
  BY <1>0 DEF Shifts
<1>2. ASSUME NEW i \in 1 .. Width
      PROVE  f[i] = (2 * f[i - 1] + bits[(j - 1) * Width + i]) % 2^Width
  BY <1>0 DEF Shifts
<1>3. ASSUME NEW i \in 1 .. Width PROVE bits[(j - 1) * Width + i] \in {0, 1}
  <2>1. (j - 1) * Width + i \in 1 .. N
    BY BitOfByte
  <2> QED
    BY <2>1 DEF Bits
<1>4. ASSUME NEW i \in 1 .. Width, f[i - 1] \in Nat, f[i - 1] < 2^(i - 1)
      PROVE  f[i] = 2 * f[i - 1] + bits[(j - 1) * Width + i] /\ f[i] \in Nat /\ f[i] < 2^i
  <2>1. PICK x \in Nat : x = f[i - 1]
    BY <1>4
  <2>2. PICK b \in {0, 1} : b = bits[(j - 1) * Width + i]
    BY <1>3
  <2>3. i - 1 \in 0 .. Width /\ (i - 1) + 1 = i /\ i \in 0 .. Width
    BY <1>0
  <2>4. PICK y \in Nat : y = 2^(i - 1) /\ 2^i = 2 * y
    BY <1>0, <2>3
  <2>5. x < y
    BY <1>4, <2>1, <2>4
  <2>6. PICK z \in Nat \ {0} : z = 2^Width /\ 2 * y <= z
    <3>1. 2^i <= 2^Width
      BY <2>3, PowersGrow
    <3>2. Width \in 0 .. Width
      BY <1>0
    <3> QED
      BY <1>0, <2>4, <3>1, <3>2
  <2>7. 2 * x + b \in Nat /\ 2 * x + b < 2 * y
    BY <2>5
  <2>8. (2 * x + b) % z = 2 * x + b
    BY <2>6, <2>7
  <2>9. f[i] = (2 * x + b) % z
    BY <1>2, <2>1, <2>2, <2>6
  <2> QED
    BY <2>1, <2>2, <2>4, <2>7, <2>8, <2>9
<1> DEFINE T == {i \in Nat : i <= Width /\ ~(f[i] \in Nat /\ f[i] < 2^i)}
<1>5. ASSUME T # {} PROVE FALSE
  <2>1. PICK v \in T : \A y \in T : v <= y
    BY <1>5, LeastMember
  <2>2. v # 0
    BY <1>1, <2>1, PowersOfTwo
  <2>3. v \in 1 .. Width /\ v - 1 \in Nat /\ v - 1 <= Width /\ v - 1 \notin T
    BY <1>0, <2>1, <2>2
  <2>4. f[v - 1] \in Nat /\ f[v - 1] < 2^(v - 1)
    BY <2>3
  <2> QED
    BY <1>4, <2>1, <2>3, <2>4
<1>6. \A i \in 0 .. Width : f[i] \in Nat /\ f[i] < 2^i
  BY <1>0, <1>5
<1>7. ASSUME NEW i \in 1 .. Width PROVE f[i] = 2 * f[i - 1] + bits[(j - 1) * Width + i]
  <2>1. i - 1 \in 0 .. Width
    BY <1>0
  <2> QED
    BY <1>4, <1>6, <2>1
<1> QED
  BY <1>1, <1>6, <1>7

(* The bits of byte j in two sequences.                                     *)
SameBits(bits, cits, j) ==
    \A e \in 1 .. Width : bits[(j - 1) * Width + e] = cits[(j - 1) * Width + e]

(* The bits determine the byte.                                             *)
LEMMA SameByte ==
    ASSUME NEW bits, Bits(bits), NEW cits, Bits(cits), NEW j \in 1 .. 5, SameBits(bits, cits, j)
    PROVE  Byte(bits, j) = Byte(cits, j)
<1>0. Width \in Nat \ {0}
  BY Dht11Assumption
<1>1. PICK f : Shifts(bits, j, Width, f) /\ Byte(bits, j) = f[Width]
  BY ByteShifts
<1>2. PICK g : Shifts(cits, j, Width, g) /\ Byte(cits, j) = g[Width]
  BY ByteShifts
<1>3. f[0] = 0 /\ \A i \in 1 .. Width : f[i] = 2 * f[i - 1] + bits[(j - 1) * Width + i]
  BY <1>1, NoOverflow
<1>4. g[0] = 0 /\ \A i \in 1 .. Width : g[i] = 2 * g[i - 1] + cits[(j - 1) * Width + i]
  BY <1>2, NoOverflow
<1> DEFINE T == {i \in Nat : i <= Width /\ f[i] # g[i]}
<1>5. ASSUME T # {} PROVE FALSE
  <2>1. PICK v \in T : \A y \in T : v <= y
    BY <1>5, LeastMember
  <2>2. v # 0
    BY <1>3, <1>4, <2>1
  <2>3. v \in 1 .. Width /\ v - 1 \in Nat /\ v - 1 <= Width /\ v - 1 \notin T
    BY <1>0, <2>1, <2>2
  <2>4. f[v - 1] = g[v - 1] /\ bits[(j - 1) * Width + v] = cits[(j - 1) * Width + v]
    BY <2>3 DEF SameBits
  <2> QED
    BY <1>3, <1>4, <2>1, <2>3, <2>4
<1> QED
  BY <1>0, <1>1, <1>2, <1>5

(* The byte determines the bits.                                            *)
LEMMA ByteDetermines ==
    ASSUME NEW bits, Bits(bits), NEW cits, Bits(cits), NEW j \in 1 .. 5,
           Byte(bits, j) = Byte(cits, j)
    PROVE  SameBits(bits, cits, j)
<1>0. Width \in Nat \ {0}
  BY Dht11Assumption
<1>1. PICK f : Shifts(bits, j, Width, f) /\ Byte(bits, j) = f[Width]
  BY ByteShifts
<1>2. PICK g : Shifts(cits, j, Width, g) /\ Byte(cits, j) = g[Width]
  BY ByteShifts
<1>3. /\ \A i \in 0 .. Width : f[i] \in Nat
      /\ \A i \in 1 .. Width : f[i] = 2 * f[i - 1] + bits[(j - 1) * Width + i]
  BY <1>1, NoOverflow
<1>4. /\ \A i \in 0 .. Width : g[i] \in Nat
      /\ \A i \in 1 .. Width : g[i] = 2 * g[i - 1] + cits[(j - 1) * Width + i]
  BY <1>2, NoOverflow
<1>5. ASSUME NEW i \in 1 .. Width, f[i] = g[i]
      PROVE  f[i - 1] = g[i - 1] /\ bits[(j - 1) * Width + i] = cits[(j - 1) * Width + i]
  <2>1. i - 1 \in 0 .. Width
    BY <1>0
  <2>2. PICK x \in Nat, y \in Nat : x = f[i - 1] /\ y = g[i - 1]
    BY <1>3, <1>4, <2>1
  <2>3. (j - 1) * Width + i \in 1 .. N
    BY BitOfByte
  <2>4. PICK b \in {0, 1}, c \in {0, 1} :
           b = bits[(j - 1) * Width + i] /\ c = cits[(j - 1) * Width + i]
    BY <2>3 DEF Bits
  <2>5. 2 * x + b = 2 * y + c
    BY <1>3, <1>4, <1>5, <2>2, <2>4
  <2>6. x = y /\ b = c
    BY <2>5
  <2> QED
    BY <2>2, <2>4, <2>6
<1> DEFINE T == {v \in Nat : v <= Width /\ f[Width - v] # g[Width - v]}
<1>6. ASSUME T # {} PROVE FALSE
  <2>1. PICK v \in T : \A y \in T : v <= y
    BY <1>6, LeastMember
  <2>2. v # 0
    <3>1. ASSUME v = 0 PROVE FALSE
      <4>1. Width - v = Width
        BY <1>0, <3>1
      <4> QED
        BY <1>1, <1>2, <2>1, <4>1
    <3> QED
      BY <3>1
  <2>3. v - 1 \in Nat /\ v - 1 <= Width /\ v - 1 \notin T
    BY <1>0, <2>1, <2>2
  <2>4. PICK i \in 1 .. Width : i = Width - (v - 1) /\ i - 1 = Width - v
    BY <1>0, <2>1, <2>2
  <2>5. f[i] = g[i]
    BY <2>3, <2>4
  <2> QED
    BY <1>5, <2>1, <2>4, <2>5
<1>7. ASSUME NEW i \in 0 .. Width PROVE f[i] = g[i]
  <2>1. Width - i \in Nat /\ Width - i <= Width /\ Width - (Width - i) = i
    BY <1>0
  <2> QED
    BY <1>6, <2>1
<1>8. \A i \in 1 .. Width : i \in 0 .. Width
  BY <1>0
<1> QED
  BY <1>5, <1>7, <1>8 DEF SameBits

(* The five bytes that the sensor sends.                                    *)
FrameByte(m, j) == IF j = 5 THEN (m[1] + m[2] + m[3] + m[4]) % 2^Width ELSE m[j]

(* The driver's bytes are those of the sensor.                              *)
LEMMA FrameBytes ==
    ASSUME NEW m \in Readings, NEW j \in 1 .. 5
    PROVE  Byte(Frame(m), j) = FrameByte(m, j)
<1>0. /\ Width \in Nat \ {0} /\ m \in [1 .. 4 -> 0 .. 2^Width - 1] /\ 2^0 = 1
      /\ \A i \in 0 .. Width : 2^i \in Nat \ {0} /\ 2^(i + 1) = 2 * 2^i
  BY Dht11Assumption, PowersOfTwo
<1>1. PICK z \in Nat \ {0} : z = 2^Width
  BY <1>0
<1>2. PICK b \in Nat : b = FrameByte(m, j) /\ b < z
  <2>1. CASE j = 5
    <3>1. m[1] \in Nat /\ m[2] \in Nat /\ m[3] \in Nat /\ m[4] \in Nat
      BY <1>0, <1>1
    <3>2. m[1] + m[2] + m[3] + m[4] \in Nat
      BY <3>1
    <3> QED
      BY <1>1, <2>1, <3>2 DEF FrameByte
  <2>2. CASE j # 5
    <3>1. j \in 1 .. 4 /\ FrameByte(m, j) = m[j]
      BY <2>2 DEF FrameByte
    <3> QED
      BY <1>0, <1>1, <3>1
  <2> QED
    BY <2>1, <2>2
<1>3. ASSUME NEW i \in 1 .. Width
      PROVE  Frame(m)[(j - 1) * Width + i] = (b \div 2^(Width - i)) % 2
  <2>1. PICK x \in 1 .. N : /\ x = (j - 1) * Width + i
                            /\ (x - 1) \div Width = j - 1 /\ (x - 1) % Width = i - 1
    BY BitOfByte
  <2>2. Frame(m)[x] = (FrameByte(m, (x - 1) \div Width + 1) \div 2^(Width - 1 - ((x - 1) % Width))) % 2
    BY DEF Frame, FrameByte
  <2>3. (j - 1) + 1 = j /\ Width - 1 - (i - 1) = Width - i
    BY <1>0
  <2> QED
    BY <1>2, <2>1, <2>2, <2>3
<1>4. Bits(Frame(m))
  BY FrameBits DEF Bits
<1>5. PICK f : Shifts(Frame(m), j, Width, f) /\ Byte(Frame(m), j) = f[Width]
  BY ByteShifts
<1>6. f[0] = 0 /\ \A i \in 1 .. Width : f[i] = 2 * f[i - 1] + Frame(m)[(j - 1) * Width + i]
  BY <1>4, <1>5, NoOverflow
<1> DEFINE T == {i \in Nat : i <= Width /\ f[i] # b \div 2^(Width - i)}
<1>7. ASSUME T # {} PROVE FALSE
  <2>1. PICK v \in T : \A y \in T : v <= y
    BY <1>7, LeastMember
  <2>2. v # 0
    <3>1. ASSUME v = 0 PROVE FALSE
      <4>1. Width - v = Width
        BY <1>0, <3>1
      <4>2. b \div z = 0
        BY <1>2
      <4> QED
        BY <1>1, <1>6, <2>1, <3>1, <4>1, <4>2
    <3> QED
      BY <3>1
  <2>3. v \in 1 .. Width /\ v - 1 \in Nat /\ v - 1 <= Width /\ v - 1 \notin T
    BY <1>0, <2>1, <2>2
  <2>4. PICK k \in 0 .. Width : k = Width - v /\ k + 1 = Width - (v - 1)
    BY <1>0, <2>1
  <2>5. PICK c \in Nat \ {0} : c = 2^k /\ 2^(k + 1) = 2 * c
    BY <1>0
  <2>6. f[v - 1] = b \div (2 * c)
    BY <2>3, <2>4, <2>5
  <2>7. f[v] = 2 * (b \div (2 * c)) + ((b \div c) % 2)
    BY <1>3, <1>6, <2>3, <2>4, <2>5, <2>6
  <2>8. f[v] = b \div c
    BY <2>7, Halves
  <2> QED
    BY <2>1, <2>4, <2>5, <2>8
<1>8. f[Width] = b \div 2^(Width - Width) /\ Width - Width = 0
  <2>1. Width \in Nat /\ Width <= Width /\ Width - Width = 0
    BY <1>0
  <2>2. Width \notin T
    <3> HIDE DEF T
    <3> QED
      BY <1>7
  <2> QED
    BY <2>1, <2>2
<1>9. f[Width] = b \div 1
  BY <1>0, <1>8
<1>10. b \div 1 = b
  OBVIOUS
<1> QED
  BY <1>2, <1>5, <1>9, <1>10

(* What the sensor sends passes the driver's check.                         *)
LEMMA FrameSum ==
    ASSUME NEW m \in Readings
    PROVE  ChecksumOK(Frame(m))
<1>1. /\ Byte(Frame(m), 1) = m[1] /\ Byte(Frame(m), 2) = m[2]
      /\ Byte(Frame(m), 3) = m[3] /\ Byte(Frame(m), 4) = m[4]
      /\ Byte(Frame(m), 5) = (m[1] + m[2] + m[3] + m[4]) % 2^Width
  BY FrameBytes DEF FrameByte
<1> QED
  BY <1>1 DEF ChecksumOK, Sum

(* Two sequences of the same bits have the same sum.                        *)
LEMMA SameSum ==
    ASSUME NEW bits, Bits(bits), NEW cits, Bits(cits),
           \A i \in 1 .. N : bits[i] = cits[i], ChecksumOK(cits)
    PROVE  ChecksumOK(bits)
<1>1. ASSUME NEW j \in 1 .. 5 PROVE Byte(bits, j) = Byte(cits, j)
  <2>1. \A e \in 1 .. Width : (j - 1) * Width + e \in 1 .. N
    BY BitOfByte
  <2>2. SameBits(bits, cits, j)
    BY <2>1 DEF SameBits
  <2> QED
    BY <2>2, SameByte
<1>2. /\ Byte(bits, 1) = Byte(cits, 1) /\ Byte(bits, 2) = Byte(cits, 2)
      /\ Byte(bits, 3) = Byte(cits, 3) /\ Byte(bits, 4) = Byte(cits, 4)
      /\ Byte(bits, 5) = Byte(cits, 5)
  BY <1>1
<1> QED
  BY <1>2 DEF ChecksumOK, Sum

(* The values of a byte.                                                    *)
LEMMA ByteRange ==
    ASSUME NEW bits, Bits(bits), NEW j \in 1 .. 5
    PROVE  Byte(bits, j) \in Nat /\ Byte(bits, j) < 2^Width
<1>1. PICK f : Shifts(bits, j, Width, f) /\ Byte(bits, j) = f[Width]
  BY ByteShifts
<1>2. Width \in 0 .. Width
  BY Dht11Assumption
<1> QED
  BY <1>1, <1>2, NoOverflow

(* Two sums with the same remainder that differ in one byte do not differ.  *)
LEMMA OneByte ==
    ASSUME NEW z \in Nat \ {0}, NEW a \in Nat, NEW b \in 0 .. z - 1, NEW c \in 0 .. z - 1,
           (a + b) % z = (a + c) % z
    PROVE  b = c
<1>1. CASE b < c
  <2>1. PICK d \in 1 .. z - 1 : d = c - b
    BY <1>1
  <2>2. a + b \in Nat /\ (a + b) + d = a + c
    BY <2>1
  <2> QED
    BY <2>2, RemainderMoves
<1>2. CASE c < b
  <2>1. PICK d \in 1 .. z - 1 : d = b - c
    BY <1>2
  <2>2. a + c \in Nat /\ (a + c) + d = a + b
    BY <2>1
  <2> QED
    BY <2>2, RemainderMoves
<1> QED
  BY <1>1, <1>2

(* The sum catches every single wrong bit: two sequences with the right sum *)
(* that agree everywhere but at one bit agree there too.                    *)
LEMMA SumCatches ==
    ASSUME NEW bits, Bits(bits), ChecksumOK(bits), NEW cits, Bits(cits), ChecksumOK(cits),
           NEW i \in 1 .. N, \A k \in 1 .. N \ {i} : bits[k] = cits[k]
    PROVE  bits[i] = cits[i]
<1>0. Width \in Nat \ {0}
  BY Dht11Assumption
<1>1. PICK j \in 1 .. 5, e \in 1 .. Width : i = (j - 1) * Width + e
  BY ByteOfBit
<1>2. ASSUME NEW h \in 1 .. 5, h # j PROVE Byte(bits, h) = Byte(cits, h)
  <2>1. ASSUME NEW d \in 1 .. Width
        PROVE  (h - 1) * Width + d \in 1 .. N /\ (h - 1) * Width + d # i
    <3>1. (i - 1) \div Width = j - 1
      BY <1>1, BitOfByte
    <3> DEFINE x == (h - 1) * Width + d
    <3>2. x \in 1 .. N /\ (x - 1) \div Width = h - 1
      BY BitOfByte
    <3> HIDE DEF x
    <3>3. x # i
      BY <1>2, <3>1, <3>2
    <3> QED
      BY <3>2, <3>3 DEF x
  <2>2. SameBits(bits, cits, h)
    BY <2>1 DEF SameBits
  <2> QED
    BY <2>2, SameByte
<1>3. PICK z \in Nat \ {0} : z = 2^Width
  BY <1>0, PowersOfTwo
<1> DEFINE b(h) == Byte(bits, h)
           c(h) == Byte(cits, h)
<1>4. ASSUME NEW h \in 1 .. 5 PROVE b(h) \in 0 .. z - 1 /\ c(h) \in 0 .. z - 1
  <2>1. b(h) \in Nat /\ b(h) < z /\ c(h) \in Nat /\ c(h) < z
    BY <1>3, ByteRange
  <2> HIDE DEF b, c
  <2> QED
    BY <2>1
<1>5. /\ b(5) = (b(1) + b(2) + b(3) + b(4)) % z
      /\ c(5) = (c(1) + c(2) + c(3) + c(4)) % z
  BY <1>3 DEF ChecksumOK, Sum
<1>6. \A h \in 1 .. 5 : h # j => b(h) = c(h)
  BY <1>2
<1> HIDE DEF b, c
<1>7. /\ b(1) \in Nat /\ b(2) \in Nat /\ b(3) \in Nat /\ b(4) \in Nat
      /\ c(1) \in Nat /\ c(2) \in Nat /\ c(3) \in Nat /\ c(4) \in Nat
  BY <1>4
<1>8. b(j) = c(j)
  <2>1. CASE j = 5
    BY <1>5, <1>6, <2>1
  <2>2. ASSUME NEW a \in Nat, j # 5, (a + b(j)) % z = b(5), (a + c(j)) % z = c(5)
        PROVE  b(j) = c(j)
    <3>1. b(5) = c(5)
      BY <1>6, <2>2
    <3>2. PICK u \in 0 .. z - 1, v \in 0 .. z - 1 : u = b(j) /\ v = c(j)
      BY <1>4
    <3>3. (a + u) % z = (a + v) % z
      BY <2>2, <3>1, <3>2
    <3>4. u = v
      BY <2>2, <3>3, OneByte
    <3> QED
      BY <3>2, <3>4
  <2>3. CASE j = 1
    <3>1. b(2) = c(2) /\ b(3) = c(3) /\ b(4) = c(4)
      BY <1>6, <2>3
    <3>2. PICK a \in Nat : a = b(2) + b(3) + b(4)
      BY <1>7
    <3>3. b(1) + b(2) + b(3) + b(4) = a + b(1) /\ c(1) + c(2) + c(3) + c(4) = a + c(1)
      BY <1>7, <3>1, <3>2
    <3> QED
      BY <1>5, <2>2, <2>3, <3>3
  <2>4. CASE j = 2
    <3>1. b(1) = c(1) /\ b(3) = c(3) /\ b(4) = c(4)
      BY <1>6, <2>4
    <3>2. PICK a \in Nat : a = b(1) + b(3) + b(4)
      BY <1>7
    <3>3. b(1) + b(2) + b(3) + b(4) = a + b(2) /\ c(1) + c(2) + c(3) + c(4) = a + c(2)
      BY <1>7, <3>1, <3>2
    <3> QED
      BY <1>5, <2>2, <2>4, <3>3
  <2>5. CASE j = 3
    <3>1. b(1) = c(1) /\ b(2) = c(2) /\ b(4) = c(4)
      BY <1>6, <2>5
    <3>2. PICK a \in Nat : a = b(1) + b(2) + b(4)
      BY <1>7
    <3>3. b(1) + b(2) + b(3) + b(4) = a + b(3) /\ c(1) + c(2) + c(3) + c(4) = a + c(3)
      BY <1>7, <3>1, <3>2
    <3> QED
      BY <1>5, <2>2, <2>5, <3>3
  <2>6. CASE j = 4
    <3>1. b(1) = c(1) /\ b(2) = c(2) /\ b(3) = c(3)
      BY <1>6, <2>6
    <3>2. PICK a \in Nat : a = b(1) + b(2) + b(3)
      BY <1>7
    <3>3. b(1) + b(2) + b(3) + b(4) = a + b(4) /\ c(1) + c(2) + c(3) + c(4) = a + c(4)
      BY <1>7, <3>1, <3>2
    <3> QED
      BY <1>5, <2>2, <2>6, <3>3
  <2> QED
    BY <2>1, <2>3, <2>4, <2>5, <2>6
<1>9. SameBits(bits, cits, j)
  BY <1>8, ByteDetermines DEF b, c
<1> QED
  BY <1>1, <1>9 DEF SameBits

(* A process that has passed the check keeps the bits that passed it.       *)
Summed(p) == at[p] = "sprintf" => ChecksumOK(got[p])

(* No step of any process changes them.                                     *)
LEMMA SummedStep ==
    ASSUME TInv, [Next]_vars, NEW p \in Proc, Summed(p)
    PROVE  Summed(p)'
<1>0. TypeOK
  BY DEF TInv
<1>1. CASE at'[p] = at[p] /\ got'[p] = got[p]
  BY <1>1 DEF Summed
<1>2. CASE at'[p] # "sprintf"
  BY <1>2 DEF Summed
<1>3. CASE RightSum(p)
  <2>1. ChecksumOK(got[p]) /\ got' = got
    BY <1>3 DEF RightSum
  <2> QED
    BY <2>1 DEF Summed
<1>4. CASE UNCHANGED vars \/ Sensor \/ \E r \in Proc, length \in ReadLens : device_read(r, length)
  <2>1. UNCHANGED <<at, got>>
    BY <1>4 DEF vars, Sensor, Answer, StaySilent, NextLevel, device_read
  <2> QED
    BY <1>1, <2>1
<1>5. ASSUME NEW r \in Proc, device_open(r) \/ device_release(r) \/ Opening(r), r # p
      PROVE  at'[p] = at[p] /\ got'[p] = got[p]
  <2>1. p \in Proc \ {r}
    BY <1>5
  <2>2. CASE Opening(r)
    <3>1. at'[p] = at[p]
      BY <2>1, <2>2, OpeningFacts
    <3>2. CASE Sample(r)
      <4>1. \E g : got' = [got EXCEPT ![r] = g]
        BY <3>2, Zenon DEF Sample
      <4> QED
        BY <1>0, <2>1, <3>1, <4>1 DEF TypeOK
    <3>3. CASE ~Sample(r)
      <4>1. got' = got \/ got' = [got EXCEPT ![r] = <<>>]
        BY <2>2, <3>3 DEF Opening, Transfer, SetLow, SetHigh, Listen, Notice, TimedOut, WrongSum,
                          RightSum, Sprintf, Retry, GiveUp, Forget, Fails
      <4> QED
        BY <1>0, <2>1, <3>1, <4>1 DEF TypeOK
    <3> QED
      BY <3>2, <3>3
  <2>3. CASE device_open(r) \/ device_release(r)
    BY <1>0, <2>1, <2>3 DEF device_open, device_release, Goes, TypeOK
  <2> QED
    BY <1>5, <2>2, <2>3
<1>6. ASSUME device_open(p) \/ device_release(p) \/ Opening(p), ~RightSum(p)
      PROVE  at'[p] # "sprintf"
  <2>1. CASE Notice(p)
    BY <1>0, <2>1 DEF Notice, Goes, TypeOK, Waiting
  <2>2. CASE Sample(p)
    BY <1>0, <2>2 DEF Sample, Goes, TypeOK
  <2>3. CASE ~Notice(p) /\ ~Sample(p)
    BY <1>0, <1>6, <2>3 DEF device_open, device_release, Opening, Transfer, SetLow, SetHigh, Listen,
                            TimedOut, WrongSum, Sprintf, Retry, GiveUp, Goes, Fails, TypeOK
  <2> QED
    BY <2>1, <2>2, <2>3
<1> QED
  BY <1>1, <1>2, <1>3, <1>4, <1>5, <1>6 DEF Next

(* An open that returns 0 has what the sensor sent, if no more than one bit *)
(* was misread, and a process that is alone and never too slow misreads     *)
(* nothing and finds the sum right: for bytes of any width, any readings    *)
(* and any number of processes.                                             *)
THEOREM ReadingsAreRight == Spec => []ReadingIsRight
<1>1. Init => \A p \in Proc : Summed(p)
  BY DEF Init, Summed
<1>2. DInv /\ (\A p \in Proc : Summed(p)) /\ [Next]_vars => (\A p \in Proc : Summed(p))'
  BY SummedStep DEF DInv
<1>3. DInv /\ (\A p \in Proc : Summed(p)) => ReadingIsRight
  <2> SUFFICES ASSUME DInv, NEW p \in Proc, Summed(p)
               PROVE  /\ at[p] = "sprintf" /\ from[p] # <<>> =>
                            \A i \in 1 .. N : Wrong(p) \subseteq {i} => Wrong(p) = {}
                      /\ Punctual(p) => NothingMisread(p) /\ (at[p] = "check" => ChecksumOK(got[p]))
    BY DEF ReadingIsRight
  <2>1. TInv /\ Steps(p) /\ InStep(p) /\ got[p] \in Seq({0, 1}) /\ from[p] \in Sendings
    BY Here DEF DInv
  <2>2. at[p] \in {"check", "sprintf"} => Len(got[p]) = N /\ Bits(got[p])
    <3>1. at[p] \in {"check", "sprintf"} => Len(got[p]) = N
      BY <2>1 DEF Steps
    <3>2. \A i \in 1 .. Len(got[p]) : got[p][i] \in {0, 1}
      BY <2>1, ElementOfSeq
    <3> QED
      BY <3>1, <3>2 DEF Bits
  <2>3. from[p] # <<>> => Bits(from[p]) /\ ChecksumOK(from[p])
    <3>1. from[p] # <<>> => \E m \in Readings : from[p] = Frame(m)
      BY <2>1 DEF Sendings
    <3>2. \A m \in Readings : Bits(Frame(m)) /\ ChecksumOK(Frame(m))
      BY FrameBits, FrameSum DEF Bits
    <3> QED
      BY <3>1, <3>2
  <2>4. ASSUME at[p] = "sprintf", from[p] # <<>>, NEW i \in 1 .. N, Wrong(p) \subseteq {i}
        PROVE  Wrong(p) = {}
    <3>1. ChecksumOK(got[p])
      BY <2>4 DEF Summed
    <3>2. \A k \in 1 .. N \ {i} : got[p][k] = from[p][k]
      BY <2>4 DEF Wrong
    <3>3. Bits(got[p]) /\ Bits(from[p]) /\ ChecksumOK(from[p])
      BY <2>2, <2>3, <2>4
    <3>4. got[p][i] = from[p][i]
      BY <3>1, <3>2, <3>3, SumCatches
    <3>5. i \notin Wrong(p)
      BY <3>4 DEF Wrong
    <3> QED
      BY <2>4, <3>5
  <2>5. ASSUME Punctual(p) PROVE NothingMisread(p) /\ (at[p] = "check" => ChecksumOK(got[p]))
    <3>1. NothingMisread(p)
      BY <2>1, <2>5 DEF InStep
    <3>2. ASSUME at[p] = "check" PROVE ChecksumOK(got[p])
      <4>1. Len(got[p]) = N /\ Bits(got[p]) /\ 1 \in 1 .. N
        BY <2>2, <3>2, Sizes
      <4>2. from[p] # <<>> /\ \A i \in 1 .. N : got[p][i] = from[p][i]
        BY <3>1, <4>1 DEF NothingMisread
      <4> QED
        BY <2>3, <4>1, <4>2, SameSum
    <3> QED
      BY <3>1, <3>2
  <2> QED
    BY <2>4, <2>5
<1> QED
  BY <1>1, <1>2, <1>3, DInvAlways, PTL DEF Spec
=============================================================================
