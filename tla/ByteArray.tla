-------------------------------- MODULE ByteArray --------------------------------
(***************************************************************************)
(* ByteArray (blue/bytearray.cpp): a list of pages of m_baseSize bytes, a  *)
(* position, and m_curr, the page it is on; and the way a SocketStream     *)
(* receives into it and sends from it (blue/msocketstream.cpp).            *)
(*                                                                         *)
(* The pages are one sequence, memory, and m_curr is the number of a page, *)
(* from 0; it is the number of pages when the pointer is null.  What a     *)
(* call reads or writes is found through m_curr, not through the position. *)
(* A call that runs past the last page follows a null pointer: the program *)
(* is over and there is no such step.                                      *)
(***************************************************************************)
EXTENDS Integers, Sequences

CONSTANTS
    Bytes,
    NoByte,        \* what new char[] leaves in a page
    m_baseSize,
    MaxWrite,      \* bound: the bytes of one call
    MaxPages       \* bound: of the list

ByteArrayAssumption ==
    /\ NoByte \notin Bytes
    /\ m_baseSize \in Nat \ {0} /\ MaxWrite \in Nat /\ MaxPages \in Nat

VARIABLES
    memory,
    m_curr, m_position, m_size,
    out,           \* what was read last
    strayed        \* history: since the last clear setPosition has gone too far, or a
                   \* recv was not at the end

vars == <<memory, m_curr, m_position, m_size, out, strayed>>

TypeOK ==
    /\ memory \in Seq(Bytes \cup {NoByte})
    /\ m_curr \in Nat /\ m_position \in Nat /\ m_size \in Nat
    /\ out \in Seq(Bytes \cup {NoByte})
    /\ strayed \in BOOLEAN

m_capacity == Len(memory)
Blank(pages) == [i \in 1 .. pages * m_baseSize |-> NoByte]

Init ==
    /\ memory = Blank(1)
    /\ m_curr = 0 /\ m_position = 0 /\ m_size = 0
    /\ out = <<>>
    /\ strayed = FALSE

-----------------------------------------------------------------------------
(* Helpers *)

\* Where the next byte is read or written.
Start == m_curr * m_baseSize + (m_position % m_baseSize)

\* addCapacity, which counts the room behind m_size; a null m_curr becomes the
\* first new page, whose number it has already.
getCapacity == m_capacity - m_size
addCapacity(n) ==
    IF n <= getCapacity THEN memory
    ELSE memory \o Blank((n - getCapacity + m_baseSize - 1) \div m_baseSize)

Fits(mem, n) == Start + n <= Len(mem) /\ Len(mem) <= MaxPages * m_baseSize

Put(mem, data) ==
    [i \in DOMAIN mem |->
        IF i \in Start + 1 .. Start + Len(data) THEN data[i - Start] ELSE mem[i]]

Inputs == UNION {[1 .. n -> Bytes] : n \in 1 .. MaxWrite}

\* At the end of the content and of a page: the page that follows is taken for
\* the last one with content, and if nothing follows it one is added.
TooFar(mem, size, v) ==
    v = size /\ (v % m_baseSize) = 0 /\ v + m_baseSize = Len(mem)

\* setPosition(v).
MoveTo(mem, size, v) ==
    /\ m_position' = v
    /\ m_size' = size
    /\ memory' = IF TooFar(mem, size, v) THEN mem \o Blank(1) ELSE mem
    /\ m_curr' = IF TooFar(mem, size, v) THEN v \div m_baseSize + 1 ELSE v \div m_baseSize
    /\ Len(memory') <= MaxPages * m_baseSize

-----------------------------------------------------------------------------
(* Calls *)

\* Mutant: m_curr stays on a page that has just become full.
Write_StaysOnPage(data) ==
    LET mem == addCapacity(Len(data))
        n == Len(data)
    IN  /\ Fits(mem, n)
        /\ memory' = Put(mem, data)
        /\ m_curr' = (Start + n - 1) \div m_baseSize
        /\ m_position' = m_position + n
        /\ m_size' = IF m_position + n > m_size THEN m_position + n ELSE m_size
        /\ UNCHANGED <<out, strayed>>

\* write(buf, size): the loop over the pages as one assignment.
Write(data) ==
    LET mem == addCapacity(Len(data))
        n == Len(data)
    IN  /\ Fits(mem, n)
        /\ memory' = Put(mem, data)
        /\ m_curr' = (Start + n) \div m_baseSize
        /\ m_position' = m_position + n
        /\ m_size' = IF m_position + n > m_size THEN m_position + n ELSE m_size
        /\ UNCHANGED <<out, strayed>>

\* read(buf, size); it throws when there is not so much.
Read(n) ==
    /\ n <= m_size - m_position /\ Fits(memory, n)
    /\ out' = SubSeq(memory, Start + 1, Start + n)
    /\ m_curr' = (Start + n) \div m_baseSize
    /\ m_position' = m_position + n
    /\ UNCHANGED <<memory, m_size, strayed>>

\* read(buf, size, position), which looks for its page from the first on.
ReadAt(v, n) ==
    /\ v + n <= m_size
    /\ out' = SubSeq(memory, v + 1, v + n)
    /\ UNCHANGED <<memory, m_curr, m_position, m_size, strayed>>

SetPosition(v) ==
    /\ v <= m_size
    /\ MoveTo(memory, m_size, v)
    /\ strayed' = (strayed \/ TooFar(memory, m_size, v))
    /\ UNCHANGED out

Clear ==
    /\ memory' = SubSeq(memory, 1, m_baseSize)
    /\ m_curr' = 0 /\ m_position' = 0 /\ m_size' = 0
    /\ strayed' = FALSE
    /\ UNCHANGED out

\* getWriteBuffers, which goes on adding pages when m_curr is too far.
Room(len) ==
    LET mem == addCapacity(len)
        more == Start + len - Len(mem)
    IN  IF more > 0 THEN mem \o Blank((more + m_baseSize - 1) \div m_baseSize) ELSE mem

\* SocketStream::read(data, len): getWriteBuffers, recv, setSize, setPosition.
\* Some of what was asked for comes.
Receive(len, data) ==
    LET mem == Room(len)
        v == m_position + Len(data)
        size == m_size + Len(data)
    IN  /\ Len(data) <= len /\ Fits(mem, len)
        /\ MoveTo(Put(mem, data), size, v)
        /\ strayed' = (strayed \/ m_position # m_size \/ TooFar(mem, size, v))
        /\ UNCHANGED out

\* Nothing comes, or recv fails.
ReceiveNothing(len) ==
    /\ Fits(Room(len), len)
    /\ memory' = Room(len)
    /\ UNCHANGED <<m_curr, m_position, m_size, out, strayed>>

\* SocketStream::write(data, len): getReadBuffers, send, setPosition.
Send(n) ==
    /\ n <= m_size - m_position /\ Fits(memory, n)
    /\ out' = SubSeq(memory, Start + 1, Start + n)
    /\ MoveTo(memory, m_size, m_position + n)
    /\ strayed' = (strayed \/ TooFar(memory, m_size, m_position + n))

Next ==
    \/ \E data \in Inputs : Write(data)
    \/ \E n \in 1 .. MaxWrite : Read(n) \/ Send(n) \/ ReceiveNothing(n)
    \/ \E v \in 0 .. m_size : SetPosition(v) \/ \E n \in 1 .. MaxWrite : ReadAt(v, n)
    \/ \E len \in 1 .. MaxWrite, data \in Inputs : Receive(len, data)
    \/ Clear

Spec == Init /\ [][Next]_vars

-----------------------------------------------------------------------------

Content == SubSeq(memory, 1, m_size)

S == INSTANCE ByteSequence WITH content <- Content, position <- m_position

\* A ByteArray is a sequence of bytes with a position: its pages, its capacity
\* and m_curr do not show, however calls, received bytes and sent bytes follow
\* on one another (bytearray.cpp:395-578, 640-842), until setPosition goes a
\* page too far or a stream receives in the middle.
ImplementsByteSequence ==
    S!Init /\ [][strayed' \/ S!Next]_<<Content, m_position, out>>
=============================================================================
