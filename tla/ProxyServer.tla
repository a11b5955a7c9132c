------------------------------ MODULE ProxyServer ------------------------------
(***************************************************************************)
(* HttpServer<T>::handleClient and _forwardRequest (http/httpserver.cpp):  *)
(* the handlers of client connections, the Redis cache and rate limit they *)
(* share, and the connection pool of the upstream host they ask.  The pool *)
(* is HttpConnectionPool, whose variables this module declares again and   *)
(* whose steps are steps of this module.  All targets are on one host: each*)
(* host has a pool of its own in s_pools and they share nothing.           *)
(*                                                                         *)
(* Redis may fail any command.  A handler is a fiber; other handlers run   *)
(* between any two of its commands.                                        *)
(***************************************************************************)
EXTENDS Integers, Sequences, FiniteSets

CONSTANTS
    Clients, Conns, NoConn, Urls, NoUrl, Answers, https,
    MaxSize, MaxRequest, MaxAlive, Boot, MaxTime,      \* of HttpConnectionPool
    Addresses, NoAddress,  \* of clients
    AddressOf,             \* [Clients -> Addresses]
    KeepAlive,             \* HttpServer::m_keepAlive
    RateLimit,             \* s_rate_limit
    Requests,              \* of each client: what it sends, a set of AllRequests
    MaxRequests,           \* bound: the requests all the clients send
    MaxFaults              \* bound: see faults

VARIABLES
    now, m_pool, m_total, createTime, requestSize, isBusy, asked, inbound, partial,
    stalled, hungUp, abandoned, pc, held, popped, nowms, url, result,    \* of HttpConnectionPool
    m_remoteIP,    \* of the server
    hpc,           \* of a handler: where it is
    req,           \* the request it serves
    counted,       \* the address whose counter it incremented
    keepAlive,     \* temkeepAlive
    response,      \* what it answers
    cache,         \* Redis: cache:<url> and rcache:<url>
    rate,          \* Redis: rate:<address>; 0 when there is no such key
    ttl,           \* Redis: the rate keys that have an expiry
    noExpiry,      \* history: the addresses whose counter was made by an INCR
                   \* without a reply, or whose EXPIRE failed
    received,      \* history: how many requests there were
    faults         \* history: how often Redis failed, a connection could not be
                   \* made, had no room or was closed by the host, an entry expired, or
                   \* time passed

Pool == INSTANCE HttpConnectionPool

\* "other" is what is answered here: /proxy.pac, /admin and the servlets.  A
\* target that is no URL is NoUrl.
AllRequests ==
    [mode : {"forward", "reverse", "other"}, url : Urls \cup {NoUrl}, get : BOOLEAN,
     keep : BOOLEAN]

ASSUME ProxyAssumption ==
    /\ Pool!PoolAssumption
    /\ NoAddress \notin Addresses
    /\ AddressOf \in [Clients -> Addresses]
    /\ KeepAlive \in BOOLEAN
    /\ Requests \in [Clients -> SUBSET AllRequests]
    /\ RateLimit \in Nat /\ MaxRequests \in Nat /\ MaxFaults \in Nat

poolVars ==
    <<now, m_pool, m_total, createTime, requestSize, isBusy, asked, inbound, partial,
      stalled, hungUp, abandoned, pc, held, popped, nowms, url, result>>
redisVars == <<cache, rate, ttl, noExpiry>>
handlerVars == <<hpc, req, counted, keepAlive, response>>
serverVars == <<m_remoteIP, handlerVars, redisVars, received, faults>>
vars == <<poolVars, serverVars>>

NoRequest == [mode |-> "other", url |-> NoUrl, get |-> FALSE, keep |-> FALSE]

\* A body: the answer it was made from, and whether that is sure to be the
\* answer to the request (HttpConnectionPool).
NoBody == [answer |-> Pool!NoAnswer, sure |-> TRUE]
Bodies == [answer : Answers \cup {Pool!NoAnswer}, sure : BOOLEAN]
Statuses == {a.status : a \in Answers}
Responses == [status : Statuses \cup {"none", "200", "400", "429", "502"}, body : Bodies]
NoResponse == [status |-> "none", body |-> NoBody]
Local(status) == [status |-> status, body |-> NoBody]

Keys == {"forward", "reverse"} \X Urls
Key(c) == <<req[c].mode, req[c].url>>

Redirects == {"301", "302", "307", "308"}

TypeOK ==
    /\ Pool!TypeOK
    /\ m_remoteIP \in Addresses \cup {NoAddress}
    /\ hpc \in [Clients -> {"none", "recv", "get", "incr", "expire", "forward", "pool", "respond"}]
    /\ req \in [Clients -> AllRequests]
    /\ counted \in [Clients -> Addresses \cup {NoAddress}]
    /\ keepAlive \in [Clients -> BOOLEAN]
    /\ response \in [Clients -> Responses]
    /\ cache \in [Keys -> Bodies]
    /\ rate \in [Addresses -> Nat]
    /\ ttl \subseteq Addresses /\ noExpiry \subseteq Addresses
    /\ received \in Nat /\ faults \in Nat

Init ==
    /\ Pool!Init
    /\ m_remoteIP = NoAddress
    /\ hpc = [c \in Clients |-> "none"]
    /\ req = [c \in Clients |-> NoRequest]
    /\ counted = [c \in Clients |-> NoAddress]
    /\ keepAlive = [c \in Clients |-> KeepAlive]
    /\ response = [c \in Clients |-> NoResponse]
    /\ cache = [k \in Keys |-> NoBody]
    /\ rate = [a \in Addresses |-> 0]
    /\ ttl = {} /\ noExpiry = {}
    /\ received = 0 /\ faults = 0

-----------------------------------------------------------------------------
(* handleClient *)

Fault == faults < MaxFaults /\ faults' = faults + 1

At(c, label) == hpc[c] = label
Goto(c, label) == hpc' = [hpc EXCEPT ![c] = label]

Answered(c, resp) ==
    /\ response' = [response EXCEPT ![c] = resp]
    /\ Goto(c, "respond")

\* A connection is accepted and its handler starts.
Accept(c) ==
    /\ At(c, "none") /\ received < MaxRequests
    /\ m_remoteIP' = AddressOf[c]
    /\ Goto(c, "recv")
    /\ UNCHANGED <<poolVars, req, counted, keepAlive, response, redisVars, received, faults>>

\* recvRequest, and the choice of what to do with the request.  The answers
\* given here are those of status 200.
RecvRequest(c) ==
    /\ At(c, "recv") /\ received < MaxRequests
    /\ \E r \in Requests[c] :
        /\ req' = [req EXCEPT ![c] = r]
        /\ keepAlive' = [keepAlive EXCEPT ![c] = r.keep \/ @]
        /\ IF r.mode = "other"
           THEN Answered(c, Local("200"))
           ELSE Goto(c, IF r.get THEN "get" ELSE "incr") /\ UNCHANGED response
    /\ received' = received + 1
    /\ UNCHANGED <<poolVars, m_remoteIP, counted, redisVars, faults>>

\* recvRequest says ERROR or CLOSE.
CloseClient(c) ==
    /\ At(c, "recv")
    /\ Goto(c, "none")
    /\ keepAlive' = [keepAlive EXCEPT ![c] = KeepAlive]
    /\ UNCHANGED <<poolVars, m_remoteIP, req, counted, response, redisVars, received, faults>>

\* sendResponse; again as long as any request asked to keep the connection.
Respond(c) ==
    /\ At(c, "respond")
    /\ Goto(c, IF keepAlive[c] THEN "recv" ELSE "none")
    /\ req' = [req EXCEPT ![c] = NoRequest]
    /\ counted' = [counted EXCEPT ![c] = NoAddress]
    /\ response' = [response EXCEPT ![c] = NoResponse]
    /\ UNCHANGED <<poolVars, m_remoteIP, keepAlive, redisVars, received, faults>>

-----------------------------------------------------------------------------
(* _forwardRequest *)

\* GET of the cache: a hit is answered with 200, before the rate is looked at.
CacheGet(c) ==
    /\ At(c, "get")
    /\ \/ /\ req[c].url # NoUrl /\ cache[Key(c)] # NoBody
          /\ Answered(c, [status |-> "200", body |-> cache[Key(c)]])
       \/ Goto(c, "incr") /\ UNCHANGED response   \* no such key, or no reply
    /\ UNCHANGED <<poolVars, m_remoteIP, req, counted, keepAlive, redisVars, received, faults>>

Judge(c, count) ==
    IF count > RateLimit THEN Answered(c, Local("429"))
    ELSE Goto(c, "forward") /\ UNCHANGED response

\* Mutant: the window starts when the limit is passed.
Incr_ExpiryAtLimit(c) ==
    /\ At(c, "incr")
    /\ counted' = [counted EXCEPT ![c] = m_remoteIP]
    /\ rate' = [rate EXCEPT ![m_remoteIP] = @ + 1]
    /\ IF rate'[m_remoteIP] = RateLimit + 1
       THEN Goto(c, "expire") /\ UNCHANGED response
       ELSE Judge(c, rate'[m_remoteIP])
    /\ UNCHANGED <<poolVars, m_remoteIP, req, keepAlive, cache, ttl, noExpiry, received,
                   faults>>

\* INCR of the counter of m_remoteIP, as it is now.
Incr(c) ==
    /\ At(c, "incr")
    /\ counted' = [counted EXCEPT ![c] = m_remoteIP]
    /\ rate' = [rate EXCEPT ![m_remoteIP] = @ + 1]
    /\ IF rate'[m_remoteIP] = 1
       THEN Goto(c, "expire") /\ UNCHANGED response
       ELSE Judge(c, rate'[m_remoteIP])
    /\ UNCHANGED <<poolVars, m_remoteIP, req, keepAlive, cache, ttl, noExpiry, received,
                   faults>>

\* The count is -1: INCR was not executed, or its reply was lost.
IncrFails(c) ==
    /\ At(c, "incr") /\ Fault
    /\ \/ UNCHANGED <<counted, redisVars>>
       \/ /\ counted' = [counted EXCEPT ![c] = m_remoteIP]
          /\ rate' = [rate EXCEPT ![m_remoteIP] = @ + 1]
          /\ noExpiry' = IF rate[m_remoteIP] = 0 THEN noExpiry \cup {m_remoteIP} ELSE noExpiry
          /\ UNCHANGED <<cache, ttl>>
    /\ Judge(c, -1)
    /\ UNCHANGED <<poolVars, m_remoteIP, req, keepAlive, received>>

\* EXPIRE; its result is not looked at.
Expire(c) ==
    /\ At(c, "expire")
    /\ \/ ttl' = ttl \cup {counted[c]} /\ UNCHANGED <<noExpiry, faults>>
       \/ noExpiry' = noExpiry \cup {counted[c]} /\ Fault /\ UNCHANGED ttl
    /\ Judge(c, 1)
    /\ UNCHANGED <<poolVars, m_remoteIP, req, counted, keepAlive, cache, rate, received>>

\* The pool is asked, unless the target is no URL.
Forward(c) ==
    /\ At(c, "forward")
    /\ IF req[c].url = NoUrl
       THEN Answered(c, Local("400")) /\ UNCHANGED poolVars
       ELSE Pool!Request(c, req[c].url) /\ Goto(c, "pool") /\ UNCHANGED response
    /\ UNCHANGED <<m_remoteIP, req, counted, keepAlive, redisVars, received, faults>>

\* SETEX, which may fail.  "" is as good as nothing.
CacheSet(c, body) ==
    \/ req[c].get /\ cache' = [cache EXCEPT ![Key(c)] = body] /\ UNCHANGED faults
    \/ ~req[c].get /\ UNCHANGED <<cache, faults>>
    \/ req[c].get /\ Fault /\ UNCHANGED cache

\* Mutant: the forward path caches answers of any status, as the reverse path does.
Deliver_AnyStatus(c) ==
    LET body == [answer |-> result[c].answer, sure |-> result[c].sure]
    IN  /\ result[c].kind = "ok"
        /\ Answered(c, [status |-> body.answer.status, body |-> body])
        /\ CacheSet(c, body)

\* The client is given what the host answered: rewritten if it came by the
\* reverse path, where every answer is cached and a redirect is either a loop
\* (its error text is cached) or moved below /blue (nothing is).
Deliver(c) ==
    LET answer == result[c].answer
        body == [answer |-> answer, sure |-> result[c].sure]
        given == [status |-> answer.status, body |-> body]
    IN  /\ result[c].kind = "ok"
        /\ \/ /\ req[c].mode = "forward"
              /\ Answered(c, given)
              /\ IF answer.status = "200" THEN CacheSet(c, body) ELSE UNCHANGED <<cache, faults>>
           \/ /\ req[c].mode = "reverse"    \* no redirect, or one without Location
              /\ Answered(c, given) /\ CacheSet(c, body)
           \/ /\ req[c].mode = "reverse" /\ answer.status \in Redirects
              /\ \/ Answered(c, Local("502")) /\ CacheSet(c, body)
                 \/ Answered(c, given) /\ CacheSet(c, NoBody)

\* doRequest has returned.
PoolReturns(c) ==
    /\ At(c, "pool")
    /\ \/ Deliver(c)
       \/ result[c].kind = "failed" /\ Answered(c, Local("502")) /\ UNCHANGED <<cache, faults>>
    /\ Pool!Forget(c)
    /\ UNCHANGED <<m_remoteIP, req, counted, keepAlive, rate, ttl, noExpiry, received>>

PoolStep(c) ==
    /\ At(c, "pool")
    /\ \/ Pool!Proceeds(c) /\ UNCHANGED faults
       \/ Pool!Hindered(c) /\ Fault
    /\ UNCHANGED <<m_remoteIP, handlerVars, redisVars, received>>

-----------------------------------------------------------------------------
(* Time passes in Redis; the upstream host and the clock *)

WindowEnds(a) ==
    /\ a \in ttl
    /\ rate' = [rate EXCEPT ![a] = 0]
    /\ ttl' = ttl \ {a}
    /\ UNCHANGED <<poolVars, m_remoteIP, handlerVars, cache, noExpiry, received, faults>>

CacheExpires(k) ==
    /\ cache[k] # NoBody /\ Fault
    /\ cache' = [cache EXCEPT ![k] = NoBody]
    /\ UNCHANGED <<poolVars, m_remoteIP, handlerVars, rate, ttl, noExpiry, received>>

Environment ==
    \/ \E a \in Addresses : WindowEnds(a)
    \/ \E k \in Keys : CacheExpires(k)
    \/ /\ \/ Pool!Tick /\ Fault
          \/ \E k \in Conns : Pool!HangUp(k) /\ Fault
          \/ \E k \in Conns : (Pool!Answer(k) \/ Pool!Drip(k) \/ Pool!Reads(k)) /\ UNCHANGED faults
       /\ UNCHANGED <<m_remoteIP, handlerVars, redisVars, received>>

-----------------------------------------------------------------------------
(* Specification *)

\* The steps a handler takes once it has a request.
Serve(c) ==
    \/ CacheGet(c) \/ Incr(c) \/ IncrFails(c) \/ Expire(c) \/ Forward(c)
    \/ PoolReturns(c) \/ PoolStep(c) \/ Respond(c)

Next ==
    \/ \E c \in Clients : Accept(c) \/ RecvRequest(c) \/ CloseClient(c) \/ Serve(c)
    \/ Environment

\* A fiber that can run is run, and Redis drops a key whose time has come.
Fairness ==
    /\ \A c \in Clients : WF_vars(Serve(c))
    /\ \A a \in Addresses : WF_vars(WindowEnds(a))

Spec == Init /\ [][Next]_vars /\ Fairness

-----------------------------------------------------------------------------
(* Properties *)

\* A client gets the answer to its own request, through the cache or not
\* (httpserver.cpp:842-1076; httpconnection.cpp:563-598), unless the
\* connection it came on had been given up; and a forward client is told the
\* status the host answered, though a hit is always answered with 200.
ResponseIsOwn ==
    \A c \in Clients :
        LET body == response[c].body
        IN  (At(c, "respond") /\ body # NoBody /\ body.sure) =>
                /\ body.answer.url = req[c].url
                /\ req[c].mode = "forward" => response[c].status = body.answer.status

\* The pool of the upstream host counts its connections and has each in one
\* place, whatever the handlers that borrow them do (httpserver.cpp:940-1076,
\* httpconnection.cpp:325-411, 563-598).
PoolConsistent == Pool!PoolConsistent

\* The counter of an address goes away again: INCR and EXPIRE are two commands
\* (httpserver.cpp:884-888), and EXPIRE is sent by the handler that is told 1.
\* A counter stays for ever only when the reply with that 1 was lost
\* (redismanager.cpp:80-84) or EXPIRE failed.
CounterExpires ==
    \A a \in Addresses : rate[a] > 0 ~> (rate[a] = 0 \/ a \in noExpiry)

\* The upstream host reads what it is sent, and ends what it sends: nothing
\* bounds the time of a send, or of a response that goes on coming.
HostGoesOn == []<>(stalled = {}) /\ <>[][partial' \subseteq partial]_partial

\* A request is answered, whatever Redis and the other handlers do, and whether
\* the host answers, is silent or hangs up, as long as it reads and does not
\* go on sending parts for ever (httpserver.cpp:842-1076,
\* httpconnection.cpp:514-598).
RequestAnswered ==
    HostGoesOn => \A c \in Clients : At(c, "get") \/ At(c, "incr") ~> At(c, "respond")

\* "Rate limiting for the requests of one client" (httpserver.cpp:880): what is
\* counted is the address of the client whose request it is.
RateKeyIsOwn == \A c \in Clients : counted[c] \in {NoAddress, AddressOf[c]}
=============================================================================
