------------------------------ MODULE RequestBuffer ------------------------------
(***************************************************************************)
(* The buffer of HttpSession::recvRequest (http/httpsession.cpp) and its   *)
(* size: a session that needs more room sets the global configuration      *)
(* variable http.request.buffer_size, whose listener sets                  *)
(* s_http_request_buffer_size, and reads that back.  HttpConnection::      *)
(* recvResponse does the same with http.response.buffer_size.              *)
(*                                                                         *)
(* ConfigVar::setValue (blue/config.h) compares and assigns under its lock *)
(* and calls the listeners without it, with a reference to the value.      *)
(***************************************************************************)
EXTENDS Integers

CONSTANTS Sessions, FirstSize,    \* the size the configuration starts with
          MaxData                 \* bound: the bytes of a request

BufferAssumption == FirstSize \in Nat \ {0} /\ MaxData \in Nat

VARIABLES
    m_val,        \* of the ConfigVar
    bufferSize,   \* s_http_request_buffer_size
    step,         \* of a session
    offset,
    room,         \* requestbuffersize
    loaded,       \* new_val, read and not yet stored by the listener
    raced         \* history: two sessions have grown at the same time

vars == <<m_val, bufferSize, step, offset, room, loaded, raced>>

TypeOK ==
    /\ m_val \in Nat /\ bufferSize \in Nat
    /\ step \in [Sessions -> {"idle", "read", "set", "announce", "store", "fetch"}]
    /\ offset \in [Sessions -> Nat] /\ room \in [Sessions -> Nat]
    /\ loaded \in [Sessions -> Nat]
    /\ raced \in BOOLEAN

Init ==
    /\ m_val = FirstSize /\ bufferSize = FirstSize
    /\ step = [s \in Sessions |-> "idle"]
    /\ offset = [s \in Sessions |-> 0] /\ room = [s \in Sessions |-> 0]
    /\ loaded = [s \in Sessions |-> 0]
    /\ raced = FALSE

-----------------------------------------------------------------------------

Growing(s) == step[s] \in {"set", "announce", "store", "fetch"}

Goto(s, label) ==
    /\ step' = [step EXCEPT ![s] = label]
    /\ raced' = (raced \/ \E t, u \in Sessions : t # u /\ Growing(t)' /\ Growing(u)')

\* recvRequest is called for the next request.
Begin(s) ==
    /\ step[s] = "idle"
    /\ offset' = [offset EXCEPT ![s] = 0]
    /\ room' = [room EXCEPT ![s] = bufferSize]
    /\ Goto(s, "read")
    /\ UNCHANGED <<m_val, bufferSize, loaded>>

\* A read; the parser is not through with the request.
ReadPart(s) ==
    /\ step[s] = "read"
    /\ \E n \in 1 .. room[s] - offset[s] :
        /\ offset[s] + n <= MaxData
        /\ offset' = [offset EXCEPT ![s] = @ + n]
        /\ Goto(s, IF offset[s] + n >= room[s] THEN "set" ELSE "read")
    /\ UNCHANGED <<m_val, bufferSize, room, loaded>>

\* The request is complete, or malformed, or the connection is over.
Finish(s) ==
    /\ step[s] = "read"
    /\ Goto(s, "idle")
    /\ offset' = [offset EXCEPT ![s] = 0] /\ room' = [room EXCEPT ![s] = 0]
    /\ UNCHANGED <<m_val, bufferSize, loaded>>

\* Mutant: the size is set to what has been read, not to twice that.
SetValue_NotDoubled(s) ==
    /\ step[s] = "set"
    /\ m_val' = offset[s]
    /\ Goto(s, IF m_val = offset[s] THEN "fetch" ELSE "announce")
    /\ UNCHANGED <<bufferSize, offset, room, loaded>>

\* SetRequestBufferSize(offset * 2); nothing is announced when it has this
\* value already.
SetValue(s) ==
    /\ step[s] = "set"
    /\ m_val' = offset[s] * 2
    /\ Goto(s, IF m_val = offset[s] * 2 THEN "fetch" ELSE "announce")
    /\ UNCHANGED <<bufferSize, offset, room, loaded>>

\* s_http_request_buffer_size = new_val, where new_val is m_val as it is now.
Announce(s) ==
    /\ step[s] = "announce"
    /\ loaded' = [loaded EXCEPT ![s] = m_val]
    /\ Goto(s, "store")
    /\ UNCHANGED <<m_val, bufferSize, offset, room>>

Store(s) ==
    /\ step[s] = "store"
    /\ bufferSize' = loaded[s]
    /\ loaded' = [loaded EXCEPT ![s] = 0]
    /\ Goto(s, "fetch")
    /\ UNCHANGED <<m_val, offset, room>>

\* newsize; the vector is resized to it, and the loop reads again.
Fetch(s) ==
    /\ step[s] = "fetch"
    /\ room' = [room EXCEPT ![s] = bufferSize]
    /\ Goto(s, "read")
    /\ UNCHANGED <<m_val, bufferSize, offset, loaded>>

Next ==
    \E s \in Sessions :
        \/ Begin(s) \/ ReadPart(s) \/ Finish(s)
        \/ SetValue(s) \/ Announce(s) \/ Store(s) \/ Fetch(s)

Spec == Init /\ [][Next]_vars

-----------------------------------------------------------------------------

\* A read has room: one of 0 bytes would return 0 and be taken for the end of
\* the connection, and with room < offset its length would wrap
\* (httpsession.cpp:17-85).  It holds as long as no two sessions grow at the
\* same time: then one of them may be left with the size the other has set,
\* and m_val and bufferSize may differ from then on.
RoomToRead == raced \/ \A s \in Sessions : step[s] = "read" => room[s] > offset[s]
=============================================================================
