--------------------------------- MODULE Tunnel ---------------------------------
(***************************************************************************)
(* _handleConnect and _handleWebSocket (http/httpserver.cpp): a client and *)
(* a remote host are joined by a loop around select() that runs in the     *)
(* fiber of the client's handler.                                          *)
(*                                                                         *)
(* The bytes a side sends are numbered 1, 2, ...; Garbage is one that      *)
(* nobody sent.  select() is not hooked and stops the thread, and recv()   *)
(* finds the descriptor readable then.  send() is the hooked one on a      *)
(* descriptor in non-blocking mode: it may take a part of the bytes, and   *)
(* while the socket takes none it waits, for no timeout is set.            *)
(***************************************************************************)
EXTENDS Integers, Sequences

CONSTANTS MaxBytes,   \* bound: what each side sends
          BufSize     \* sizeof(buf)

TunnelAssumption == MaxBytes \in Nat /\ BufSize \in Nat \ {0}

Sides == {"client", "remote"}
Other(s) == IF s = "client" THEN "remote" ELSE "client"
Garbage == 0

\* The places of a send(): of "200 Connection Established", of the upgrade
\* request, of the first answer to it, and in the loop.
SendingTo(t) == IF t = "client" THEN {"greet", "pass", "to client"}
                                ELSE {"request", "to remote"}
Gone == {"held", "closed", "crashed"}
Places == {"connect", "answer", "select"} \cup Gone \cup Sides
              \cup SendingTo("client") \cup SendingTo("remote")

VARIABLES
    websocket,    \* which of the two handlers it is
    at,           \* where the handler is; at a side: FD_ISSET of it is next
    ready,        \* fds after select()
    buf,          \* the bytes between recv() and send()
    sent,         \* how much a side has sent
    closed,       \* the sides that have closed their end
    full,         \* the sides that do not read, and whose socket takes no more
    taken,        \* how much of it the handler has received
    delivered,    \* what went to the other side
    short,        \* history: the sides of whose bytes a send() left some
    garbled       \* history: the first recv() of a WebSocket failed

vars == <<websocket, at, ready, buf, sent, closed, full, taken, delivered, short, garbled>>
peers == <<sent, closed>>
flow == <<taken, delivered, short, garbled>>

TypeOK ==
    /\ websocket \in BOOLEAN /\ garbled \in BOOLEAN
    /\ at \in Places
    /\ ready \subseteq Sides /\ closed \subseteq Sides /\ full \subseteq Sides
    /\ short \subseteq Sides
    /\ sent \in [Sides -> 0 .. MaxBytes] /\ taken \in [Sides -> 0 .. MaxBytes]
    /\ buf \in Seq(0 .. MaxBytes) /\ delivered \in [Sides -> Seq(0 .. MaxBytes)]

Init ==
    /\ websocket \in BOOLEAN
    /\ at = "connect" /\ buf = <<>>
    /\ ready = {} /\ closed = {} /\ full \in {{}, {"client"}}
    /\ sent = [s \in Sides |-> 0] /\ taken = [s \in Sides |-> 0]
    /\ delivered = [s \in Sides |-> <<>>]
    /\ short = {} /\ garbled = FALSE

-----------------------------------------------------------------------------

Goto(place) == at' = place /\ UNCHANGED websocket

\* After a send() to t its socket may take no more.
MayFill(t) == t \notin full /\ full' \in {full, full \cup {t}}

\* The remote host is reached.
Connect ==
    /\ at = "connect"
    /\ Goto(IF websocket THEN "request" ELSE "greet")
    /\ UNCHANGED <<ready, buf, peers, full, flow>>

\* No address or no connection: the handler returns and the client's socket
\* goes with it.
ConnectFails ==
    /\ at = "connect"
    /\ Goto("closed")
    /\ UNCHANGED <<ready, buf, peers, full, flow>>

\* std::stoi throws for a port that is no number; url or addr is null and used.
Crash ==
    /\ at = "connect"
    /\ Goto("crashed")
    /\ UNCHANGED <<ready, buf, peers, full, flow>>

\* The result of these two is not looked at.
Greet ==
    /\ at = "greet" /\ MayFill("client")
    /\ Goto("select")
    /\ UNCHANGED <<ready, buf, peers, flow>>

PassRequest ==
    /\ at = "request" /\ MayFill("remote")
    /\ Goto("answer")
    /\ UNCHANGED <<ready, buf, peers, flow>>

Smaller(m, n) == IF m < n THEN m ELSE n

\* recv() gets what there is of side s, as much as the buffer holds.
Receive(s) ==
    LET n == Smaller(sent[s] - taken[s], BufSize)
    IN  /\ taken' = [taken EXCEPT ![s] = @ + n]
        /\ buf' = [i \in 1 .. n |-> taken[s] + i]

\* remote->recv() is hooked and waits; 0 bytes are passed on as well.
RecvAnswer ==
    /\ at = "answer" /\ (taken["remote"] < sent["remote"] \/ "remote" \in closed)
    /\ Receive("remote")
    /\ Goto("pass")
    /\ UNCHANGED <<ready, peers, full, delivered, short, garbled>>

\* It returns -1, which send() takes for a size: what happens to lie in buf and
\* behind it goes to the client, as far as the memory can be read.
RecvAnswerFails ==
    /\ at = "answer"
    /\ buf' = [i \in 1 .. BufSize |-> Garbage]
    /\ garbled' = TRUE
    /\ Goto("pass")
    /\ UNCHANGED <<ready, peers, full, taken, delivered, short>>

-----------------------------------------------------------------------------
(* The loop *)

Readable == {s \in Sides : taken[s] < sent[s] \/ s \in closed}

Select ==
    /\ at = "select" /\ Readable # {}
    /\ ready' = Readable
    /\ Goto("client")
    /\ UNCHANGED <<buf, peers, full, flow>>

\* select() returns 0: YieldToHold.  No timer and no event names the fiber.
SelectTimeout ==
    /\ at = "select" /\ Readable = {}
    /\ Goto("held")
    /\ UNCHANGED <<ready, buf, peers, full, flow>>

\* select() returns -1.
SelectFails ==
    /\ at = "select"
    /\ Goto("closed")
    /\ UNCHANGED <<ready, buf, peers, full, flow>>

After(s) == IF s = "client" THEN "remote" ELSE "select"

\* FD_ISSET is false.
Skip(s) ==
    /\ at = s /\ s \notin ready
    /\ Goto(After(s))
    /\ UNCHANGED <<ready, buf, peers, full, flow>>

Recv(s) ==
    /\ at = s /\ s \in ready /\ taken[s] < sent[s]
    /\ Receive(s)
    /\ ready' = ready \ {s}
    /\ Goto(IF s = "client" THEN "to remote" ELSE "to client")
    /\ UNCHANGED <<peers, full, delivered, short, garbled>>

\* Mutant: only a recv() that fails ends the loop, not one that returns 0.
RecvEnds_OnError(s) ==
    /\ at = s /\ s \in ready /\ taken[s] = sent[s]
    /\ Goto(After(s))
    /\ ready' = ready \ {s}
    /\ UNCHANGED <<buf, peers, full, flow>>

\* recv() returns 0: the loop ends and the remote socket is closed.
RecvEnds(s) ==
    /\ at = s /\ s \in ready /\ taken[s] = sent[s]
    /\ Goto("closed")
    /\ ready' = {}
    /\ UNCHANGED <<buf, peers, full, flow>>

\* Where the handler goes on: both handlers look at the other side next.
AfterSend(t) == IF at = "pass" THEN "select" ELSE After(Other(t))

Has(t) == at \in SendingTo(t) \ {"greet", "request"}

\* Mutant: what send() left is sent again, from the start of the buffer.
Send_FromStart(t) ==
    /\ Has(t) /\ MayFill(t)
    /\ \E m \in 0 .. Len(buf) :
        /\ m = 0 => buf = <<>>
        /\ delivered' = [delivered EXCEPT ![Other(t)] = @ \o SubSeq(buf, 1, m)]
        /\ IF m < Len(buf) THEN UNCHANGED <<websocket, at, buf>>
                           ELSE Goto(AfterSend(t)) /\ buf' = <<>>
    /\ UNCHANGED <<ready, peers, taken, short, garbled>>

\* send() takes m of the bytes; the rest is not sent again.
Send(t) ==
    /\ Has(t) /\ MayFill(t)
    /\ \E m \in 0 .. Len(buf) :
        /\ m = 0 => buf = <<>>
        /\ delivered' = [delivered EXCEPT ![Other(t)] = @ \o SubSeq(buf, 1, m)]
        /\ short' = IF m < Len(buf) THEN short \cup {Other(t)} ELSE short
    /\ buf' = <<>>
    /\ Goto(AfterSend(t))
    /\ UNCHANGED <<ready, peers, taken, garbled>>

\* t is gone, or the memory behind buf cannot be read: only the loop of CONNECT
\* looks at the result.
SendFails(t) ==
    /\ Has(t) /\ t \notin full
    /\ t \in closed \/ Garbage \in {buf[i] : i \in DOMAIN buf}
    /\ short' = short \cup {Other(t)}
    /\ buf' = <<>>
    /\ Goto(IF websocket THEN AfterSend(t) ELSE "closed")
    /\ UNCHANGED <<ready, peers, full, taken, delivered, garbled>>

\* t has reset the connection: send() raises SIGPIPE, which nobody ignores.
SendKills(t) ==
    /\ at \in SendingTo(t) /\ t \in closed \ full
    /\ short' = short \cup {Other(t)}
    /\ buf' = <<>>
    /\ Goto("crashed")
    /\ UNCHANGED <<ready, peers, full, taken, delivered, garbled>>

-----------------------------------------------------------------------------
(* The two sides *)

\* While there is a tunnel; what the sides do later concerns nobody.
Joined(s) == at \notin Gone /\ (s = "remote" => at # "connect")

SideSends(s) ==
    /\ Joined(s) /\ s \notin closed /\ sent[s] < MaxBytes
    /\ sent' = [sent EXCEPT ![s] = @ + 1]
    /\ UNCHANGED <<websocket, at, ready, buf, closed, full, flow>>

SideCloses(s) ==
    /\ Joined(s) /\ s \notin closed
    /\ closed' = closed \cup {s}
    /\ UNCHANGED <<websocket, at, ready, buf, sent, full, flow>>

\* It reads again, or is gone for good.
SideReads(s) ==
    /\ Joined(s) /\ s \in full
    /\ full' = full \ {s}
    /\ UNCHANGED <<websocket, at, ready, buf, peers, flow>>

-----------------------------------------------------------------------------

Step ==
    \/ Connect \/ ConnectFails \/ Crash \/ Greet \/ PassRequest \/ RecvAnswer
    \/ Select \/ SelectTimeout \/ SelectFails
    \/ \E s \in Sides :
        \/ Skip(s) \/ Recv(s) \/ RecvEnds(s)
        \/ Send(s) \/ SendFails(s) \/ SendKills(s)

Next ==
    \/ Step \/ RecvAnswerFails
    \/ \E s \in Sides : SideSends(s) \/ SideCloses(s) \/ SideReads(s)

\* The thread runs the fiber on, and select() and connect() return.  What the
\* sides do, and an error of the network, is left to them.
Spec == Init /\ [][Next]_vars /\ WF_vars(Step)

-----------------------------------------------------------------------------

\* Once a side has closed its end the tunnel is taken down (lines 1289-1390,
\* 1392-1442), whatever was in hand, if the sides read on, which send() waits
\* for, and the remote host answers a WebSocket or closes, which recv() waits
\* for; unless a select() that timed out before has put the fiber to HOLD, where
\* it stays.
TunnelEnds ==
    ([]<>(full = {}) /\ []<>(at = "answer" => "remote" \in Readable))
        => (closed # {} ~> at \in Gone)

\* What is under way from s.
InHand(s) == IF at \in SendingTo(Other(s)) THEN buf ELSE <<>>

\* What a side is given is what the other sent, each byte once, in its order,
\* and all of it but what is in hand, if no send() left any.  Bytes that nobody
\* sent are given to the client of a WebSocket only, before all others, and only
\* after the first recv() failed (line 1410).
InOrder ==
    \A s \in Sides :
        /\ s \notin short /\ ~(s = "remote" /\ garbled)
               => delivered[s] \o InHand(s) = [i \in 1 .. taken[s] |-> i]
        /\ \A i, j \in DOMAIN delivered[s] :
               i < j => \/ delivered[s][i] < delivered[s][j]
                        \/ delivered[s][i] = Garbage /\ delivered[s][j] = Garbage
        /\ \A i \in DOMAIN delivered[s] :
               /\ delivered[s][i] <= sent[s]
               /\ delivered[s][i] = Garbage => s = "remote" /\ websocket /\ garbled
=============================================================================
