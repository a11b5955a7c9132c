--------------------------------- MODULE Varint ---------------------------------
(***************************************************************************)
(* The integers of variable length of a ByteArray (blue/bytearray.cpp):    *)
(* writeInt32, writeUint32, readInt32, readUint32 and their 64-bit twins.  *)
(* An unsigned number goes out in groups of bits, the lowest first, each   *)
(* byte but the last with a flag; a signed one is mapped to an unsigned one*)
(* before (zigzag).  The bytes go through the sequence that ByteArray      *)
(* keeps; nothing in it says where a number ends but the numbers.          *)
(***************************************************************************)
EXTENDS Integers, Sequences

CONSTANTS
    Width,         \* bits of a number: 32 or 64
    Group,         \* bits of it in a byte: 7
    MaxUnread      \* bound: the numbers in the stream

VarintAssumption == Width \in Nat \ {0} /\ Group \in Nat \ {0} /\ MaxUnread \in Nat

VARIABLES
    stream,    \* the bytes between the position of the reader and the end
    unread,    \* history: the numbers written and not yet read
    got        \* history: the number just read, and the one it should be

vars == <<stream, unread, got>>

\* 2^n, in a form that can be unfolded in a proof.
Power[n \in Nat] == IF n = 0 THEN 1 ELSE 2 * Power[n - 1]

Span == Power[Width]
Unsigned == 0 .. Span - 1
Signed == -(Span \div 2) .. (Span \div 2) - 1
Flag == Power[Group]
Octets == 0 .. 2 * Flag - 1

Numbers == [signed : {TRUE}, value : Signed] \cup [signed : {FALSE}, value : Unsigned]
NoNumber == [signed |-> FALSE, value |-> 0]

TypeOK ==
    /\ stream \in Seq(Octets)
    /\ unread \in Seq(Numbers)
    /\ got \in [number : Numbers, wanted : Numbers]

Nothing == [number |-> NoNumber, wanted |-> NoNumber]

Init == stream = <<>> /\ unread = <<>> /\ got = Nothing

-----------------------------------------------------------------------------

\* x ^ 11...1, and what a conversion to the signed type makes of a number.
Complement(x) == Span - 1 - x
ToSigned(x) == IF x >= Span \div 2 THEN x - Span ELSE x

\* Mutant: the sign is shifted down without its copies.
EncodeZigzag_LogicalShift(val) == ((2 * val) % Span) + (IF val < 0 THEN 1 ELSE 0)

\* (val << 1) ^ (val >> Width - 1): the second is all ones or zero.
EncodeZigzag(val) ==
    IF val < 0 THEN Complement((2 * val) % Span) ELSE (2 * val) % Span

\* (val >> 1) ^ -(val & 1)
DecodeZigzag(val) ==
    ToSigned(IF val % 2 = 1 THEN Complement(val \div 2) ELSE val \div 2)

\* The loop of writeUint32 and writeUint64.
Groups[val \in Unsigned] ==
    IF val >= Flag THEN <<Flag + (val % Flag)>> \o Groups[val \div Flag] ELSE <<val>>

\* The loop of readUint32 and readUint64: up to the first byte without a flag.
Taken == CHOOSE n \in DOMAIN stream : stream[n] < Flag /\ \A i \in 1 .. n - 1 : stream[i] >= Flag

Collected[n \in 0 .. Len(stream)] ==
    IF n = 0 THEN 0
    ELSE (Collected[n - 1] + (stream[n] % Flag) * Power[Group * (n - 1)]) % Span

-----------------------------------------------------------------------------

WriteNumber(number) ==
    /\ Len(unread) < MaxUnread
    /\ stream' = stream \o Groups[IF number.signed THEN EncodeZigzag(number.value)
                                  ELSE number.value]
    /\ unread' = Append(unread, number)
    /\ got' = Nothing

\* The reader knows what it is to read.
ReadNumber ==
    /\ unread # <<>>
    /\ got' = [wanted |-> Head(unread),
               number |-> [signed |-> Head(unread).signed,
                           value |-> IF Head(unread).signed
                                     THEN DecodeZigzag(Collected[Taken])
                                     ELSE Collected[Taken]]]
    /\ stream' = SubSeq(stream, Taken + 1, Len(stream))
    /\ unread' = Tail(unread)

Next == ReadNumber \/ \E number \in Numbers : WriteNumber(number)

Spec == Init /\ [][Next]_vars

-----------------------------------------------------------------------------

\* Every number of the type, the least and the greatest too, is read as it was
\* written, and the reader ends where the next one begins (bytearray.cpp:39-75,
\* 173-207, 305-341): the groups and the width do not divide one another.
NumbersReadBack ==
    /\ got.number = got.wanted
    /\ unread = <<>> => stream = <<>>
=============================================================================
