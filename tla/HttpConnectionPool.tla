-------------------------- MODULE HttpConnectionPool --------------------------
(***************************************************************************)
(* One HttpConnectionPool (http/httpconnection.cpp): getConnnection, the   *)
(* request and its response on the borrowed connection (doRequest,         *)
(* recvResponse), and ReleasePtr, the deleter that takes the connection    *)
(* back when the last pointer to it goes.                                  *)
(*                                                                         *)
(* Every client is a fiber; it may be switched out in each connect, send   *)
(* and recv, and other threads run in between.  isConnected() is not       *)
(* modelled: a connected MSocket answers TRUE until somebody closes it,    *)
(* and the pool closes a connection only by deleting it.                   *)
(***************************************************************************)
EXTENDS Integers, Sequences, FiniteSets

CONSTANTS
    Clients,     \* the fibers that send requests through the pool
    Conns,       \* HttpConnection objects; an address is reused after delete
    NoConn,      \* nullptr
    Urls,        \* what is asked for
    NoUrl,
    Answers,     \* what the host may answer: [url, status]; "malformed" is the
                 \* status of one the parser rejects
    https,       \* m_scheme == "https"
    MaxSize, MaxRequest, MaxAlive,   \* m_maxSize, m_maxRequest, m_maxAliveTime
    Boot,        \* the time at which the program starts
    MaxTime      \* bound: the clock stops here

PoolAssumption ==
    /\ NoConn \notin Conns /\ NoUrl \notin Urls
    /\ \A a \in Answers : a.url \in Urls
    /\ https \in BOOLEAN
    /\ IsFiniteSet(Clients) /\ IsFiniteSet(Conns)
    /\ MaxSize \in Nat /\ MaxRequest \in Nat /\ MaxAlive \in Nat
    /\ Boot \in Nat /\ MaxTime \in Nat

NoAnswer == [url |-> NoUrl, status |-> "none"]
Results == [kind : {"none", "ok", "failed"}, answer : Answers \cup {NoAnswer}, sure : BOOLEAN]
NoResult == [kind |-> "none", answer |-> NoAnswer, sure |-> TRUE]

VARIABLES
    now,          \* GetCurrentMs()
    m_pool,       \* the idle connections, the next to be used first
    m_total,
    createTime,   \* of a connection: m_createTime, m_requestSize, m_isBusy
    requestSize,
    isBusy,
    asked,        \* upstream host: the requests on a connection not yet answered
    inbound,      \* kernel: the answers on a connection not yet read
    partial,      \* kernel: the connections with unread bytes that end no answer
    stalled,      \* kernel: the connections whose send buffer has no room
    hungUp,       \* the connections the upstream host has closed
    abandoned,    \* history: connections on which a request was given up
    pc,
    held,         \* the connection a client has borrowed
    popped,       \* invalid_conn
    nowms,        \* the local of getConnnection
    url,          \* the request
    result        \* what doRequest returned last, see Results

connVars == <<createTime, requestSize, isBusy>>
peerVars == <<asked, inbound, partial, stalled, hungUp>>
clientVars == <<pc, held, popped, nowms, url, result>>
vars == <<now, m_pool, m_total, connVars, peerVars, abandoned, clientVars>>

Labels == {"idle", "pop", "discard", "connect", "send", "recv", "release", "drain", "push"}

TypeOK ==
    /\ now \in Nat
    /\ m_pool \in Seq(Conns)
    /\ m_total \in Int
    /\ createTime \in [Conns -> Nat]
    /\ requestSize \in [Conns -> Nat]
    /\ isBusy \in [Conns -> BOOLEAN]
    /\ asked \in [Conns -> Seq(Urls)]
    /\ inbound \in [Conns -> Seq(Answers)]
    /\ partial \subseteq Conns /\ stalled \subseteq Conns /\ hungUp \subseteq Conns
    /\ abandoned \subseteq Conns
    /\ pc \in [Clients -> Labels]
    /\ held \in [Clients -> Conns \cup {NoConn}]
    /\ popped \in [Clients -> SUBSET Conns]
    /\ nowms \in [Clients -> Nat]
    /\ url \in [Clients -> Urls \cup {NoUrl}]
    /\ result \in [Clients -> Results]

Init ==
    /\ now = Boot
    /\ m_pool = <<>>
    /\ m_total = 0
    /\ createTime = [k \in Conns |-> 0]
    /\ requestSize = [k \in Conns |-> 0]
    /\ isBusy = [k \in Conns |-> FALSE]
    /\ asked = [k \in Conns |-> <<>>]
    /\ inbound = [k \in Conns |-> <<>>]
    /\ partial = {} /\ stalled = {} /\ hungUp = {}
    /\ abandoned = {}
    /\ pc = [c \in Clients |-> "idle"]
    /\ held = [c \in Clients |-> NoConn]
    /\ popped = [c \in Clients |-> {}]
    /\ nowms = [c \in Clients |-> Boot]
    /\ url = [c \in Clients |-> NoUrl]
    /\ result = [c \in Clients |-> NoResult]

-----------------------------------------------------------------------------
(* Helpers *)

Goto(c, label) == pc' = [pc EXCEPT ![c] = label]

Idle == {m_pool[i] : i \in DOMAIN m_pool}
Borrowed == {held[c] : c \in Clients} \ {NoConn}
Invalid == UNION {popped[c] : c \in Clients}
InUse == Idle \cup Borrowed \cup Invalid

\* createTime + maxAliveTime <= time.
Expired(k, time) == createTime[k] + MaxAlive <= time

\* getConnnection takes from the front of the pool the first connection that
\* is neither expired nor busy; with Len(m_pool) + 1 there is none.
Usable(i, time) == ~Expired(m_pool[i], time) /\ ~isBusy[m_pool[i]]
FirstUsable(i, time) ==
    /\ i \in DOMAIN m_pool => Usable(i, time)
    /\ \A j \in 1 .. i - 1 : ~Usable(j, time)

\* The address of a new connection; which one it is makes no difference.
Fresh == CHOOSE k \in Conns \ InUse : TRUE

Failed == [kind |-> "failed", answer |-> NoAnswer, sure |-> TRUE]

Return(c, res) == result' = [result EXCEPT ![c] = res]

\* delete conn: the object goes, its socket is closed, and what was under way
\* on it is gone.
Delete(gone) ==
    /\ createTime' = [k \in Conns |-> IF k \in gone THEN 0 ELSE createTime[k]]
    /\ requestSize' = [k \in Conns |-> IF k \in gone THEN 0 ELSE requestSize[k]]
    /\ isBusy' = [k \in Conns |-> k \notin gone /\ isBusy[k]]
    /\ asked' = [k \in Conns |-> IF k \in gone THEN <<>> ELSE asked[k]]
    /\ inbound' = [k \in Conns |-> IF k \in gone THEN <<>> ELSE inbound[k]]
    /\ partial' = partial \ gone /\ stalled' = stalled \ gone
    /\ hungUp' = hungUp \ gone
    /\ abandoned' = abandoned \ gone

-----------------------------------------------------------------------------
(* A request *)

\* doRequest; getConnnection reads the clock before it takes m_mutex.
Request(c, u) ==
    /\ pc[c] = "idle" /\ result[c] = NoResult
    /\ url' = [url EXCEPT ![c] = u]
    /\ nowms' = [nowms EXCEPT ![c] = now]
    /\ Goto(c, "pop")
    /\ UNCHANGED <<now, m_pool, m_total, connVars, peerVars, abandoned, held, popped,
                   result>>

\* The loop under m_mutex.
Pop(c) ==
    /\ pc[c] = "pop"
    /\ \E i \in 1 .. Len(m_pool) + 1 :
        LET found == i \in DOMAIN m_pool
        IN  /\ FirstUsable(i, nowms[c])
            /\ popped' = [popped EXCEPT ![c] = {m_pool[j] : j \in 1 .. i - 1}]
            /\ held' = [held EXCEPT ![c] = IF found THEN m_pool[i] ELSE NoConn]
            /\ isBusy' = IF found THEN [isBusy EXCEPT ![m_pool[i]] = TRUE] ELSE isBusy
            /\ m_pool' = SubSeq(m_pool, i + 1, Len(m_pool))
            /\ Goto(c, IF i > 1 THEN "discard" ELSE IF found THEN "send" ELSE "connect")
    /\ nowms' = [nowms EXCEPT ![c] = Boot]   \* not used any more
    /\ UNCHANGED <<now, m_total, createTime, requestSize, peerVars, abandoned, url,
                   result>>

\* Mutant: m_total counts what was pushed and popped, not what is deleted here.
Discard_NotCounted(c) ==
    /\ pc[c] = "discard"
    /\ Delete(popped[c])
    /\ popped' = [popped EXCEPT ![c] = {}]
    /\ Goto(c, IF held[c] = NoConn THEN "connect" ELSE "send")
    /\ UNCHANGED <<now, m_pool, m_total, held, nowms, url, result>>

\* After unlock: m_total -= invalid_conn.size(), and each of them is deleted.
Discard(c) ==
    /\ pc[c] = "discard"
    /\ m_total' = m_total - Cardinality(popped[c])
    /\ Delete(popped[c])
    /\ popped' = [popped EXCEPT ![c] = {}]
    /\ Goto(c, IF held[c] = NoConn THEN "connect" ELSE "send")
    /\ UNCHANGED <<now, m_pool, held, nowms, url, result>>

\* A new connection.  One over TLS is constructed without a time, so that its
\* m_createTime is 0; m_isBusy starts as false for both.
Connect(c) ==
    LET k == Fresh
    IN  /\ pc[c] = "connect" /\ Conns \ InUse # {}
        /\ held' = [held EXCEPT ![c] = k]
        /\ createTime' = [createTime EXCEPT ![k] = IF https THEN 0 ELSE now]
        /\ m_total' = m_total + 1
        /\ Goto(c, "send")
        /\ UNCHANGED <<now, m_pool, requestSize, isBusy, peerVars, abandoned, popped,
                       nowms, url, result>>

\* No address, no socket, no connection or no handshake: POOL_GET_CONNECTION_FAILED.
ConnectFails(c) ==
    /\ pc[c] = "connect"
    /\ Return(c, Failed)
    /\ Goto(c, "idle")
    /\ UNCHANGED <<now, m_pool, m_total, connVars, peerVars, abandoned, held, popped,
                   nowms, url>>

\* sendRequest; what is sent after the host hung up gets no answer.
Send(c) ==
    /\ pc[c] = "send" /\ held[c] \notin stalled
    /\ asked' = IF held[c] \in hungUp THEN asked
                ELSE [asked EXCEPT ![held[c]] = Append(@, url[c])]
    /\ Goto(c, "recv")
    /\ UNCHANGED <<now, m_pool, m_total, connVars, inbound, partial, stalled, hungUp,
                   abandoned, held, popped, nowms, url, result>>

\* The buffer is full: the fiber holds for WRITE, and no timeout is set for it.
SendWaits(c) ==
    /\ pc[c] = "send" /\ held[c] \notin stalled \cup hungUp
    /\ stalled' = stalled \cup {held[c]}
    /\ UNCHANGED <<now, m_pool, m_total, connVars, asked, inbound, partial, hungUp, abandoned,
                   clientVars>>

\* SEND_CLOSE_BY_PEER, SEND_SOCKET_ERROR.
SendFails(c) ==
    /\ pc[c] = "send" /\ held[c] \in hungUp
    /\ Return(c, Failed)
    /\ Goto(c, "release")
    /\ UNCHANGED <<now, m_pool, m_total, connVars, peerVars, abandoned, held, popped,
                   nowms, url>>

\* A read of recvResponse that ends no message, after which it reads again,
\* with a timeout of its own.  What is left of a request that was given up is
\* no beginning of a message either.
RecvPart(c) ==
    /\ pc[c] = "recv" /\ inbound[held[c]] = <<>> /\ held[c] \in partial
    /\ partial' = partial \ {held[c]}
    /\ \/ UNCHANGED <<pc, result>>
       \/ held[c] \in abandoned /\ Return(c, Failed) /\ Goto(c, "release")
    /\ UNCHANGED <<now, m_pool, m_total, connVars, asked, inbound, stalled, hungUp, abandoned,
                   held, popped, nowms, url>>

\* recvResponse hands all that one read returned to its parser.  It takes the
\* first message: the next one fails on its version, which is appended to that
\* of the first, and whether there was a message is asked before whether there
\* was an error.  A malformed one is given up in its middle.
Recv(c) ==
    /\ pc[c] = "recv" /\ inbound[held[c]] # <<>>
    /\ LET k == held[c]
           first == Head(inbound[k])
       IN  \/ /\ first.status = "malformed" \/ k \in abandoned \cap partial
              /\ abandoned' = abandoned \cup {k}
              /\ Return(c, Failed)
           \/ /\ first.status # "malformed"
              /\ Return(c, [kind |-> "ok", answer |-> first, sure |-> k \notin abandoned])
              /\ UNCHANGED abandoned
    /\ \E n \in 1 .. Len(inbound[held[c]]) :
        inbound' = [inbound EXCEPT ![held[c]] = SubSeq(@, n + 1, Len(@))]
    /\ partial' = partial \ {held[c]}
    /\ Goto(c, "release")
    /\ UNCHANGED <<now, m_pool, m_total, connVars, asked, stalled, hungUp, held, popped, nowms,
                   url>>

\* Nothing to read.
Silent(k) == inbound[k] = <<>> /\ k \notin partial

\* recv returns 0 with nothing before it: CLOSE.  (An answer that lasts until
\* the host closes has come when it has.)
RecvClosed(c) ==
    /\ pc[c] = "recv"
    /\ Silent(held[c]) /\ held[c] \in hungUp
    /\ Return(c, Failed)
    /\ Goto(c, "release")
    /\ UNCHANGED <<now, m_pool, m_total, connVars, peerVars, abandoned, held, popped,
                   nowms, url>>

\* The receive timeout set by doRequest passes: ERROR or TIMEOUT.
RecvTimeout(c) ==
    /\ pc[c] = "recv"
    /\ Silent(held[c]) /\ held[c] \notin hungUp
    /\ abandoned' = abandoned \cup {held[c]}
    /\ Return(c, Failed)
    /\ Goto(c, "release")
    /\ UNCHANGED <<now, m_pool, m_total, connVars, peerVars, held, popped, nowms, url>>

\* The caller lets go of the url and of the HttpResult.
Forget(c) ==
    /\ pc[c] = "idle" /\ result[c] # NoResult
    /\ Return(c, NoResult)
    /\ url' = [url EXCEPT ![c] = NoUrl]
    /\ UNCHANGED <<now, m_pool, m_total, connVars, peerVars, abandoned, pc, held, popped,
                   nowms>>

-----------------------------------------------------------------------------
(* ReleasePtr *)

\* Counts the request, frees the connection, and deletes it when it has had
\* its time or its requests.
Release(c) ==
    LET k == held[c]
        worn == Expired(k, now) \/ requestSize[k] + 1 >= MaxRequest
    IN  /\ pc[c] = "release"
        /\ \/ /\ worn
              /\ Delete({k})
              /\ m_total' = m_total - 1
              /\ held' = [held EXCEPT ![c] = NoConn]
              /\ Goto(c, "idle")
           \/ /\ ~worn
              /\ requestSize' = [requestSize EXCEPT ![k] = @ + 1]
              /\ isBusy' = [isBusy EXCEPT ![k] = FALSE]
              /\ Goto(c, "drain")
              /\ UNCHANGED <<m_total, createTime, peerVars, abandoned, held>>
        /\ UNCHANGED <<now, m_pool, popped, nowms, url, result>>

\* while (recv(...) > 0)
Drain(c) ==
    /\ pc[c] = "drain" /\ ~Silent(held[c])
    /\ inbound' = [inbound EXCEPT ![held[c]] = <<>>]
    /\ partial' = partial \ {held[c]}
    /\ UNCHANGED <<now, m_pool, m_total, connVars, asked, stalled, hungUp, abandoned, clientVars>>

\* Mutant: the drain has no timeout and ends when the host closes.
DrainEnds_AtHangUp(c) ==
    /\ pc[c] = "drain" /\ Silent(held[c]) /\ held[c] \in hungUp
    /\ Goto(c, "push")
    /\ UNCHANGED <<now, m_pool, m_total, connVars, peerVars, abandoned, held, popped,
                   nowms, url, result>>

\* recv returns 0, or -1 when its timeout has passed.
DrainEnds(c) ==
    /\ pc[c] = "drain" /\ Silent(held[c])
    /\ Goto(c, "push")
    /\ UNCHANGED <<now, m_pool, m_total, connVars, peerVars, abandoned, held, popped,
                   nowms, url, result>>

\* Under m_mutex: back into the pool if there is room.
Push(c) ==
    /\ pc[c] = "push"
    /\ IF Len(m_pool) < MaxSize
       THEN /\ m_pool' = Append(m_pool, held[c])
            /\ UNCHANGED <<m_total, connVars, peerVars, abandoned>>
       ELSE /\ Delete({held[c]})
            /\ m_total' = m_total - 1
            /\ UNCHANGED m_pool
    /\ held' = [held EXCEPT ![c] = NoConn]
    /\ Goto(c, "idle")
    /\ UNCHANGED <<now, popped, nowms, url, result>>

-----------------------------------------------------------------------------
(* The upstream host and the clock *)

\* The host answers the requests on a connection in their order.
Answer(k) ==
    /\ k \notin hungUp /\ asked[k] # <<>>
    /\ \E a \in Answers :
        /\ a.url = Head(asked[k])
        /\ inbound' = [inbound EXCEPT ![k] = Append(@, a)]
    /\ asked' = [asked EXCEPT ![k] = Tail(@)]
    /\ UNCHANGED <<now, m_pool, m_total, connVars, partial, stalled, hungUp, abandoned, clientVars>>

\* It sends a part of an answer, or more of one that was given up.  What comes
\* before somebody reads is there when he does.
Drip(k) ==
    /\ k \notin hungUp /\ Silent(k)
    /\ asked[k] # <<>> \/ k \in abandoned
    /\ \E c \in Clients : held[c] = k /\ pc[c] \in {"recv", "drain"}
    /\ partial' = partial \cup {k}
    /\ UNCHANGED <<now, m_pool, m_total, connVars, asked, inbound, stalled, hungUp, abandoned,
                   clientVars>>

\* It reads what was sent, and there is room again.
Reads(k) ==
    /\ k \in stalled
    /\ stalled' = stalled \ {k}
    /\ UNCHANGED <<now, m_pool, m_total, connVars, asked, inbound, partial, hungUp, abandoned,
                   clientVars>>

HangUp(k) ==
    /\ k \in InUse \ hungUp
    /\ hungUp' = hungUp \cup {k}
    /\ stalled' = stalled \ {k}
    /\ asked' = [asked EXCEPT ![k] = <<>>]
    /\ UNCHANGED <<now, m_pool, m_total, connVars, inbound, partial, abandoned, clientVars>>

Tick ==
    /\ now < MaxTime
    /\ now' = now + 1
    /\ UNCHANGED <<m_pool, m_total, connVars, peerVars, abandoned, clientVars>>

-----------------------------------------------------------------------------
(* Specification *)

\* The steps of a client inside doRequest.
Hindered(c) == ConnectFails(c) \/ SendWaits(c)

Proceeds(c) ==
    \/ Pop(c) \/ Discard(c) \/ Connect(c) \/ Send(c) \/ SendFails(c)
    \/ RecvPart(c) \/ Recv(c) \/ RecvClosed(c) \/ RecvTimeout(c)
    \/ Release(c) \/ Drain(c) \/ DrainEnds(c) \/ Push(c)

Step(c) == Proceeds(c) \/ Hindered(c)

Environment == Tick \/ \E k \in Conns : Answer(k) \/ Drip(k) \/ Reads(k) \/ HangUp(k)

Next ==
    \/ \E c \in Clients : Step(c) \/ Forget(c) \/ \E u \in Urls : Request(c, u)
    \/ Environment

Spec == Init /\ [][Next]_vars

-----------------------------------------------------------------------------
(* Properties *)

\* m_total counts the connections there are: idle, borrowed, or taken from the
\* pool by getConnnection and not yet subtracted.  It is changed on four paths,
\* none of them under m_mutex throughout (httpconnection.cpp:355, 407, 573, 596).
TotalExact == m_total = Cardinality(InUse)

\* A connection is in one place: it has one borrower, or is in the pool once,
\* or waits to be deleted by one client (lines 325-359, 563-598).
OneHolder ==
    /\ \A i, j \in DOMAIN m_pool : m_pool[i] = m_pool[j] => i = j
    /\ Idle \cap (Borrowed \cup Invalid) = {}
    /\ Borrowed \cap Invalid = {}
    /\ \A c, d \in Clients :
        c # d => /\ held[c] = held[d] => held[c] = NoConn
                 /\ popped[c] \cap popped[d] = {}

\* m_maxSize bounds what is idle, and an idle connection is not marked busy, so
\* that getConnnection never throws one away for it.
IdleReady == Len(m_pool) <= MaxSize /\ \A k \in Idle : ~isBusy[k]

PoolConsistent == TotalExact /\ OneHolder /\ IdleReady

\* The response doRequest returns is the answer to this request, unless an
\* earlier request on the connection was given up: ReleasePtr drains only what
\* has come so far, and the late answer finds the next borrower.
AnswerIsOwn ==
    \A c \in Clients :
        (result[c].kind = "ok" /\ result[c].sure) => result[c].answer.url = url[c]
=============================================================================
