----------------------------- MODULE Services_proofs -----------------------------
(***************************************************************************)
(* What the parts above the scheduler promise, for every value of the      *)
(* constants: a client of the proxy gets the response to its own request,  *)
(* the buffer of a session has room for each read, no database connection  *)
(* is lost or forgotten, a tunnel keeps the order of what it passes on, and*)
(* a ByteArray implements a sequence of bytes with a position.             *)
(***************************************************************************)
EXTENDS Services, TLAPS, FiniteSetTheorems, SequenceTheorems

-----------------------------------------------------------------------------
(* The pool inside the proxy; PoolFacts is HttpConnectionPool once more, with its theorems *)

PoolFacts == INSTANCE HttpConnectionPool_proofs

\* The two instances of the pool start alike.
LEMMA SamePoolInit == Pool!Init => PoolFacts!Init
  BY DEF Pool!Init, PoolFacts!Init, Pool!NoResult, PoolFacts!NoResult, Pool!NoAnswer, PoolFacts!NoAnswer

\* ... and make the same steps.
LEMMA SamePoolNext == Pool!Next => PoolFacts!Next
  BY DEF Pool!Next, PoolFacts!Next, Pool!Step, PoolFacts!Step, Pool!Environment, PoolFacts!Environment,
     Pool!Request, PoolFacts!Request, Pool!Pop, PoolFacts!Pop, Pool!Discard, PoolFacts!Discard,
     Pool!Connect, PoolFacts!Connect, Pool!ConnectFails, PoolFacts!ConnectFails, Pool!Send, PoolFacts!Send,
     Pool!SendFails, PoolFacts!SendFails, Pool!SendWaits, PoolFacts!SendWaits, Pool!RecvPart,
     PoolFacts!RecvPart, Pool!Silent, PoolFacts!Silent, Pool!Drip, PoolFacts!Drip, Pool!Reads,
     PoolFacts!Reads, Pool!Proceeds, PoolFacts!Proceeds, Pool!Hindered, PoolFacts!Hindered,
     Pool!Recv, PoolFacts!Recv, Pool!RecvClosed, PoolFacts!RecvClosed,
     Pool!RecvTimeout, PoolFacts!RecvTimeout, Pool!Forget, PoolFacts!Forget, Pool!Release,
     PoolFacts!Release, Pool!Drain, PoolFacts!Drain, Pool!DrainEnds, PoolFacts!DrainEnds, Pool!Push,
     PoolFacts!Push, Pool!Answer, PoolFacts!Answer, Pool!HangUp, PoolFacts!HangUp, Pool!Tick, PoolFacts!Tick,
     Pool!Goto, PoolFacts!Goto, Pool!Return, PoolFacts!Return, Pool!Delete, PoolFacts!Delete,
     Pool!Failed, PoolFacts!Failed, Pool!NoResult, PoolFacts!NoResult, Pool!NoAnswer, PoolFacts!NoAnswer,
     Pool!Fresh, PoolFacts!Fresh, Pool!InUse, PoolFacts!InUse, Pool!Idle, PoolFacts!Idle, Pool!Borrowed,
     PoolFacts!Borrowed, Pool!Invalid, PoolFacts!Invalid, Pool!Expired, PoolFacts!Expired, Pool!Usable,
     PoolFacts!Usable, Pool!FirstUsable, PoolFacts!FirstUsable, Pool!connVars, PoolFacts!connVars,
     Pool!peerVars, PoolFacts!peerVars, Pool!clientVars, PoolFacts!clientVars,
     Pool!Cardinality, PoolFacts!Cardinality

\* What a handler serves is a request, from its arrival on.
ReqType == req \in [Clients -> AllRequests]

\* A request is what the client sent, or none.
LEMMA ReqIsTyped == ReqType /\ [Next]_vars => ReqType'
<1> SUFFICES ASSUME ReqType, [Next]_vars PROVE ReqType'
  OBVIOUS
<1>1. NoRequest \in AllRequests
  BY DEF NoRequest, AllRequests
<1>2. CASE UNCHANGED req
  BY <1>2 DEF ReqType
<1>3. ASSUME NEW c \in Clients, RecvRequest(c) PROVE ReqType'
  <2>1. PICK r \in Requests[c] : req' = [req EXCEPT ![c] = r]
    BY <1>3 DEF RecvRequest
  <2>2. r \in AllRequests
    BY <2>1, ProxyAssumption
  <2> QED  BY <2>1, <2>2 DEF ReqType
<1>4. ASSUME NEW c \in Clients, Respond(c) PROVE ReqType'
  BY <1>1, <1>4 DEF Respond, ReqType
<1>5. ASSUME NEW c \in Clients,
             Accept(c) \/ CloseClient(c) \/ (Serve(c) /\ ~Respond(c))
      PROVE  UNCHANGED req
  BY <1>5 DEF Accept, CloseClient, Serve, CacheGet, Incr, IncrFails, Expire, Forward,
              PoolReturns, PoolStep, handlerVars
<1>6. CASE Environment
  BY <1>2, <1>6 DEF Environment, WindowEnds, CacheExpires, handlerVars
<1>7. CASE UNCHANGED vars
  BY <1>2, <1>7 DEF vars, serverVars, handlerVars
<1> QED  BY <1>2, <1>3, <1>4, <1>5, <1>6, <1>7 DEF Next

\* Every step of the proxy is a step of the pool or leaves it alone.
LEMMA PoolMoves == ReqType /\ [Next]_vars => [Pool!Next]_(Pool!vars)
<1> SUFFICES ASSUME ReqType, [Next]_vars PROVE [Pool!Next]_(Pool!vars)
  OBVIOUS
<1> USE DEF Pool!vars, Pool!connVars, Pool!peerVars, Pool!clientVars
<1>1. CASE UNCHANGED poolVars
  BY <1>1 DEF poolVars
<1>2. ASSUME NEW c \in Clients, Serve(c) PROVE [Pool!Next]_(Pool!vars)
  <2>1. CASE CacheGet(c) \/ Incr(c) \/ IncrFails(c) \/ Expire(c) \/ Respond(c)
    BY <2>1, <1>1 DEF CacheGet, Incr, IncrFails, Expire, Respond
  <2>2. CASE Forward(c)
    <3>1. CASE req[c].url = NoUrl
      BY <2>2, <3>1, <1>1 DEF Forward
    <3>2. CASE req[c].url # NoUrl
      <4>1. req[c].url \in Urls
        BY <3>2 DEF ReqType, AllRequests
      <4> QED  BY <2>2, <3>2, <4>1 DEF Forward, Pool!Next
    <3> QED  BY <3>1, <3>2
  <2>3. CASE PoolReturns(c)
    BY <2>3 DEF PoolReturns, Pool!Next
  <2>4. CASE PoolStep(c)
    BY <2>4 DEF PoolStep, Pool!Next, Pool!Step
  <2> QED  BY <1>2, <2>1, <2>2, <2>3, <2>4 DEF Serve
<1>3. ASSUME NEW c \in Clients, Accept(c) \/ RecvRequest(c) \/ CloseClient(c)
      PROVE  [Pool!Next]_(Pool!vars)
  BY <1>1, <1>3 DEF Accept, RecvRequest, CloseClient
<1>4. CASE Environment
  BY <1>4, <1>1 DEF Environment, WindowEnds, CacheExpires, Pool!Next, Pool!Environment
<1>5. CASE UNCHANGED vars
  BY <1>5, <1>1 DEF vars
<1> QED  BY <1>2, <1>3, <1>4, <1>5 DEF Next

\* The composition keeps to the specification of the pool: its handlers ask for
\* a connection, use it and let go of the answer as the callers of the pool do.
THEOREM ServerRunsPool == Spec => Pool!Spec
<1>1. Init => Pool!Init /\ ReqType
  BY DEF Init, ReqType, NoRequest, AllRequests
<1>2. ReqType /\ [Next]_vars => ReqType'
  BY ReqIsTyped
<1>3. ReqType /\ [Next]_vars => [Pool!Next]_(Pool!vars)
  BY PoolMoves
<1> QED  BY <1>1, <1>2, <1>3, PTL DEF Spec, Pool!Spec

\* What is proved about the pool holds of the pool in the proxy.
LEMMA PoolKeeps == Spec => [](Pool!TypeOK /\ Pool!AnswerIsOwn /\ PoolConsistent)
<1>1. PoolFacts!PoolAssumption
  BY ProxyAssumption
  DEF Pool!PoolAssumption, PoolFacts!PoolAssumption, Pool!IsFiniteSet, PoolFacts!IsFiniteSet
<1>2. Pool!TypeOK <=> PoolFacts!TypeOK
  BY DEF Pool!TypeOK, PoolFacts!TypeOK, Pool!Labels, PoolFacts!Labels, Pool!Results, PoolFacts!Results,
         Pool!NoAnswer, PoolFacts!NoAnswer
<1>3. [Pool!Next]_(Pool!vars) => [PoolFacts!Next]_(PoolFacts!vars)
  BY SamePoolNext DEF Pool!vars, PoolFacts!vars, Pool!connVars, PoolFacts!connVars, Pool!peerVars,
     PoolFacts!peerVars, Pool!clientVars, PoolFacts!clientVars
<1>4. Pool!Spec => PoolFacts!Spec
  BY SamePoolInit, <1>3, PTL DEF Pool!Spec, PoolFacts!Spec
<1>5. PoolFacts!Spec => []PoolFacts!TypeOK
  BY <1>1, PoolFacts!TypeCorrect
<1>6. PoolFacts!Spec => []PoolFacts!AnswerIsOwn
  BY <1>1, PoolFacts!ResponsesMatch
<1>7. PoolFacts!AnswerIsOwn => Pool!AnswerIsOwn
  BY DEF Pool!AnswerIsOwn, PoolFacts!AnswerIsOwn
<1>8. PoolFacts!Spec => []PoolFacts!PoolConsistent
  BY <1>1, PoolFacts!PoolIsConsistent
<1>9. PoolFacts!PoolConsistent => PoolConsistent
  <2>1. Pool!InUse = PoolFacts!InUse
    BY DEF Pool!InUse, PoolFacts!InUse, Pool!Idle, PoolFacts!Idle, Pool!Borrowed, PoolFacts!Borrowed,
           Pool!Invalid, PoolFacts!Invalid
  <2>2. PoolFacts!TotalExact => Pool!TotalExact
    BY <2>1 DEF Pool!TotalExact, PoolFacts!TotalExact, Pool!Cardinality, PoolFacts!Cardinality
  <2>3. PoolFacts!OneHolder => Pool!OneHolder
    BY DEF Pool!OneHolder, PoolFacts!OneHolder, Pool!Idle, PoolFacts!Idle, Pool!Borrowed,
           PoolFacts!Borrowed, Pool!Invalid, PoolFacts!Invalid
  <2>4. PoolFacts!IdleReady => Pool!IdleReady
    BY DEF Pool!IdleReady, PoolFacts!IdleReady, Pool!Idle, PoolFacts!Idle
  <2> QED  BY <2>2, <2>3, <2>4 DEF PoolConsistent, Pool!PoolConsistent, PoolFacts!PoolConsistent
<1> QED  BY ServerRunsPool, <1>2, <1>4, <1>5, <1>6, <1>7, <1>8, <1>9, PTL

\* The pool in the proxy counts its connections and has each in one place: for
\* any number of clients, requests and connections, with any Redis and host
\* (httpserver.cpp:940-1076, httpconnection.cpp:325-411, 563-598).
THEOREM PoolInServer == Spec => []PoolConsistent
  BY PoolKeeps, PTL

-----------------------------------------------------------------------------
(* The responses *)

\* TypeOK without that of the pool.
HandlerType ==
    /\ m_remoteIP \in Addresses \cup {NoAddress}
    /\ hpc \in [Clients -> {"none", "recv", "get", "incr", "expire", "forward", "pool", "respond"}]
    /\ req \in [Clients -> AllRequests]
    /\ counted \in [Clients -> Addresses \cup {NoAddress}]
    /\ keepAlive \in [Clients -> BOOLEAN]
    /\ response \in [Clients -> Responses]
    /\ cache \in [Keys -> Bodies]
    /\ rate \in [Addresses -> Nat]
    /\ ttl \subseteq Addresses /\ noExpiry \subseteq Addresses
    /\ received \in Nat /\ faults \in Nat

\* While there is a handler the server has an address, and what a handler counts
\* and asks for is that of a request to be forwarded.
Forwarding == {"get", "incr", "expire", "forward", "pool"}
Served ==
    /\ \A c \in Clients : hpc[c] # "none" => m_remoteIP \in Addresses
    /\ \A c \in Clients : hpc[c] = "expire" => counted[c] \in Addresses
    /\ \A c \in Clients : hpc[c] \in Forwarding => req[c].mode # "other"

\* The pool is asked for the target of the request.
AskedForTarget == \A c \in Clients : hpc[c] = "pool" => url[c] = req[c].url

\* An entry of the cache is the answer for its key, and on the forward path one
\* of status 200.
CacheIsOwn ==
    \A k \in Keys :
        (cache[k] # NoBody /\ cache[k].sure) =>
            /\ cache[k].answer.url = k[2]
            /\ k[1] = "forward" => cache[k].answer.status = "200"

ProxyInv == HandlerType /\ Served /\ AskedForTarget /\ CacheIsOwn /\ ResponseIsOwn

\* Inside doRequest the target stays what it is.
LEMMA StepKeepsUrl == ASSUME NEW c, Pool!Step(c) PROVE UNCHANGED url
  BY DEF Pool!Step, Pool!Proceeds, Pool!Hindered, Pool!Pop, Pool!Discard, Pool!Connect,
     Pool!ConnectFails, Pool!Send, Pool!SendWaits, Pool!SendFails, Pool!RecvPart, Pool!Recv, Pool!RecvClosed, Pool!RecvTimeout, Pool!Release, Pool!Drain,
     Pool!DrainEnds, Pool!Push, Pool!clientVars

\* Nothing has come and nothing is stored at the start.
LEMMA InitInv == Init => ProxyInv
<1> SUFFICES ASSUME Init PROVE ProxyInv
  OBVIOUS
<1>1. NoBody \in Bodies /\ NoResponse \in Responses /\ NoRequest \in AllRequests
  BY DEF NoBody, Bodies, NoResponse, Responses, NoRequest, AllRequests
<1>2. HandlerType
  BY <1>1, ProxyAssumption DEF Init, HandlerType
<1>3. Served /\ AskedForTarget /\ ResponseIsOwn
  BY DEF Init, Served, AskedForTarget, ResponseIsOwn, At, Forwarding
<1>4. CacheIsOwn
  BY DEF Init, CacheIsOwn
<1> QED  BY <1>2, <1>3, <1>4 DEF ProxyInv

\* The steps that leave the cache and what is asked of the pool alone, and give
\* no answer but one of this server.
Plain(c) ==
    /\ UNCHANGED cache
    /\ hpc' = [hpc EXCEPT ![c] = hpc'[c]] /\ hpc'[c] # "pool"
    /\ req' = [req EXCEPT ![c] = req'[c]]
    /\ response' = [response EXCEPT ![c] = response'[c]]
    /\ hpc'[c] = "respond" => response'[c].body = NoBody
    /\ \A d \in Clients : d # c => url'[d] = url[d]

\* They keep what is said of targets, cache and responses.
LEMMA PlainKeeps ==
    ASSUME ProxyInv, NEW c \in Clients, Plain(c)
    PROVE  AskedForTarget' /\ CacheIsOwn' /\ ResponseIsOwn'
<1>1. AskedForTarget'
  BY DEF ProxyInv, HandlerType, AskedForTarget, Plain
<1>2. CacheIsOwn'
  BY DEF ProxyInv, CacheIsOwn, Plain
<1>3. ResponseIsOwn'
  BY DEF ProxyInv, HandlerType, ResponseIsOwn, Plain, At
<1> QED  BY <1>1, <1>2, <1>3

\* An answer of this server is a response.
LEMMA LocalResponse ==
    ASSUME NEW status \in {"200", "400", "429", "502"}
    PROVE  Local(status) \in Responses /\ Local(status).body = NoBody
  BY DEF Local, Responses, NoBody, Bodies

\* A connection is accepted, or closed, or served to its end.
LEMMA ConnectionSteps ==
    ASSUME ProxyInv, NEW c \in Clients, Accept(c) \/ CloseClient(c) \/ Respond(c)
    PROVE  ProxyInv'
<1>1. NoRequest \in AllRequests /\ NoResponse \in Responses /\ AddressOf[c] \in Addresses
  BY ProxyAssumption DEF NoRequest, AllRequests, NoResponse, Responses, NoBody, Bodies
<1>2. HandlerType'
  BY <1>1, ProxyAssumption DEF ProxyInv, HandlerType, Accept, CloseClient, Respond, redisVars, Goto
<1>3. Served'
  BY <1>1 DEF ProxyInv, HandlerType, Served, Forwarding, Accept, CloseClient, Respond, Goto, At
<1>4. Plain(c)
  BY DEF ProxyInv, HandlerType, Plain, Accept, CloseClient, Respond, Goto, At, redisVars, poolVars
<1> QED  BY <1>2, <1>3, <1>4, PlainKeeps DEF ProxyInv

\* A request comes and is answered here or passed on.
LEMMA RecvRequestStep == ASSUME ProxyInv, NEW c \in Clients, RecvRequest(c) PROVE ProxyInv'
<1>1. PICK r \in Requests[c] :
        /\ req' = [req EXCEPT ![c] = r]
        /\ keepAlive' = [keepAlive EXCEPT ![c] = r.keep \/ @]
        /\ IF r.mode = "other"
           THEN Answered(c, Local("200"))
           ELSE Goto(c, IF r.get THEN "get" ELSE "incr") /\ UNCHANGED response
  BY DEF RecvRequest
<1>2. r \in AllRequests /\ r.keep \in BOOLEAN
  BY ProxyAssumption DEF AllRequests
<1>3. hpc'[c] = "respond" \/ (hpc'[c] \in {"get", "incr"} /\ r.mode # "other")
  BY <1>1 DEF ProxyInv, HandlerType, Answered, Goto
<1>4. /\ hpc' = [hpc EXCEPT ![c] = hpc'[c]] /\ response' = [response EXCEPT ![c] = response'[c]]
      /\ hpc'[c] = "respond" => response'[c] = Local("200")
      /\ response'[c] \in Responses
  BY <1>1, LocalResponse DEF ProxyInv, HandlerType, Answered, Goto
<1>5. HandlerType'
  <2>1. hpc' \in [Clients -> {"none", "recv", "get", "incr", "expire", "forward", "pool",
                             "respond"}]
    BY <1>3, <1>4 DEF ProxyInv, HandlerType
  <2>2. keepAlive' \in [Clients -> BOOLEAN]
    BY <1>1, <1>2 DEF ProxyInv, HandlerType
  <2> QED  BY <1>1, <1>2, <1>4, <2>1, <2>2 DEF ProxyInv, HandlerType, RecvRequest, redisVars
<1>6. Served'
  BY <1>1, <1>3, <1>4 DEF ProxyInv, HandlerType, Served, Forwarding, RecvRequest, At
<1>7. Plain(c)
  BY <1>1, <1>3, <1>4, LocalResponse
  DEF ProxyInv, HandlerType, Plain, RecvRequest, redisVars, poolVars
<1> QED  BY <1>5, <1>6, <1>7, PlainKeeps DEF ProxyInv

\* What Judge decides.
LEMMA Judged ==
    ASSUME ProxyInv, NEW c \in Clients, NEW count, Judge(c, count)
    PROVE  /\ hpc' = [hpc EXCEPT ![c] = hpc'[c]] /\ hpc'[c] \in {"respond", "forward"}
           /\ response' = [response EXCEPT ![c] = response'[c]] /\ response'[c] \in Responses
           /\ hpc'[c] = "respond" => response'[c].body = NoBody
<1>1. CASE count > RateLimit
  BY <1>1, LocalResponse DEF Judge, Answered, Goto, ProxyInv, HandlerType
<1>2. CASE ~(count > RateLimit)
  BY <1>2 DEF Judge, Goto, ProxyInv, HandlerType
<1> QED  BY <1>1, <1>2

\* The counter of the rate limit.
LEMMA RateSteps ==
    ASSUME ProxyInv, NEW c \in Clients, Incr(c) \/ IncrFails(c) \/ Expire(c)
    PROVE  ProxyInv'
<1> DEFINE Outcome ==
        /\ hpc' = [hpc EXCEPT ![c] = hpc'[c]] /\ hpc'[c] \in {"respond", "forward", "expire"}
        /\ response' = [response EXCEPT ![c] = response'[c]] /\ response'[c] \in Responses
        /\ hpc'[c] = "respond" => response'[c].body = NoBody
        /\ hpc'[c] = "expire" => counted'[c] = m_remoteIP
<1>1. m_remoteIP \in Addresses /\ req[c].mode # "other"
  BY DEF ProxyInv, Served, Forwarding, Incr, IncrFails, Expire, At
<1>2. Outcome
  <2>1. CASE Incr(c)
    <3>1. CASE rate'[m_remoteIP] = 1
      BY <2>1, <3>1 DEF Incr, Goto, ProxyInv, HandlerType
    <3>2. CASE rate'[m_remoteIP] # 1
      BY <2>1, <3>2, Judged DEF Incr
    <3> QED  BY <3>1, <3>2
  <2>2. CASE IncrFails(c)
    BY <2>2, Judged DEF IncrFails
  <2>3. CASE Expire(c)
    BY <2>3, Judged DEF Expire
  <2> QED  BY <2>1, <2>2, <2>3
<1>3. HandlerType'
  <2>1. /\ hpc' \in [Clients -> {"none", "recv", "get", "incr", "expire", "forward", "pool",
                             "respond"}]
        /\ response' \in [Clients -> Responses]
    BY <1>2 DEF ProxyInv, HandlerType
  <2>2. CASE Incr(c)
    BY <1>1, <2>1, <2>2 DEF Incr, ProxyInv, HandlerType
  <2>3. CASE IncrFails(c)
    <3>1. faults' \in Nat /\ rate' \in [Addresses -> Nat] /\ noExpiry' \subseteq Addresses
      BY <1>1, <2>3 DEF IncrFails, Fault, ProxyInv, HandlerType, redisVars
    <3>2. counted' \in [Clients -> Addresses \cup {NoAddress}]
      BY <1>1, <2>3 DEF IncrFails, ProxyInv, HandlerType
    <3>3. UNCHANGED <<m_remoteIP, req, keepAlive, cache, ttl, received>>
      BY <2>3 DEF IncrFails, redisVars
    <3> QED  BY <2>1, <3>1, <3>2, <3>3 DEF ProxyInv, HandlerType
  <2>4. CASE Expire(c)
    BY <2>1, <2>4 DEF Expire, At, Fault, ProxyInv, HandlerType, Served
  <2> QED  BY <2>2, <2>3, <2>4
<1>4. UNCHANGED <<poolVars, m_remoteIP, req, cache>>
  BY DEF Incr, IncrFails, Expire, redisVars
<1>5. counted' = [counted EXCEPT ![c] = counted'[c]]
  BY DEF Incr, IncrFails, Expire, ProxyInv, HandlerType
<1>6. Served'
  BY <1>1, <1>2, <1>4, <1>5 DEF ProxyInv, HandlerType, Served, Forwarding
<1>7. Plain(c)
  BY <1>2, <1>4 DEF Plain, ProxyInv, HandlerType, poolVars
<1> QED  BY <1>3, <1>6, <1>7, PlainKeeps DEF ProxyInv

\* A hit of the cache is what was stored for the key of the request.
LEMMA CacheGetStep == ASSUME ProxyInv, NEW c \in Clients, CacheGet(c) PROVE ProxyInv'
<1>1. req[c].mode \in {"forward", "reverse"}
  BY DEF ProxyInv, HandlerType, Served, Forwarding, AllRequests, CacheGet, At
<1>2. UNCHANGED <<poolVars, m_remoteIP, req, counted, keepAlive, redisVars, received, faults>>
  BY DEF CacheGet
<1>3. CASE req[c].url # NoUrl /\ cache[Key(c)] # NoBody
           /\ Answered(c, [status |-> "200", body |-> cache[Key(c)]])
  <2>1. req[c].url \in Urls
    BY <1>3 DEF ProxyInv, HandlerType, AllRequests
  <2>2. Key(c) \in Keys /\ Key(c)[1] = req[c].mode /\ Key(c)[2] = req[c].url
    BY <1>1, <2>1 DEF Key, Keys
  <2> DEFINE body == cache[Key(c)]
             resp == [status |-> "200", body |-> body]
  <2>3. resp \in Responses
    BY <2>2 DEF ProxyInv, HandlerType, Responses
  <2>4. HandlerType'
    BY <1>2, <1>3, <2>3 DEF ProxyInv, HandlerType, Answered, Goto, redisVars
  <2>5. hpc' = [hpc EXCEPT ![c] = "respond"] /\ response' = [response EXCEPT ![c] = resp]
    BY <1>3 DEF Answered, Goto
  <2>6. Served' /\ AskedForTarget' /\ CacheIsOwn'
    BY <1>2, <2>5 DEF ProxyInv, HandlerType, Served, Forwarding, AskedForTarget, CacheIsOwn, CacheGet,
                      At, redisVars, poolVars
  <2>7. body.sure => /\ body.answer.url = req[c].url
                     /\ req[c].mode = "forward" => body.answer.status = "200"
    BY <1>3, <2>2 DEF ProxyInv, CacheIsOwn
  <2>8. ResponseIsOwn'
    BY <1>2, <2>5, <2>7 DEF ProxyInv, HandlerType, ResponseIsOwn, At
  <2> QED  BY <2>4, <2>6, <2>8 DEF ProxyInv
<1>4. CASE Goto(c, "incr") /\ UNCHANGED response
  <2>1. HandlerType'
    BY <1>2, <1>4 DEF ProxyInv, HandlerType, Goto, redisVars
  <2>2. Served'
    BY <1>1, <1>2, <1>4 DEF ProxyInv, HandlerType, Served, Forwarding, Goto, CacheGet, At
  <2>3. Plain(c)
    BY <1>2, <1>4 DEF ProxyInv, HandlerType, Plain, Goto, redisVars, poolVars
  <2> QED  BY <2>1, <2>2, <2>3, PlainKeeps DEF ProxyInv
<1> QED  BY <1>3, <1>4 DEF CacheGet

\* The pool is asked for the target of the request.
LEMMA ForwardStep == ASSUME ProxyInv, Pool!TypeOK, NEW c \in Clients, Forward(c) PROVE ProxyInv'
<1>1. UNCHANGED <<m_remoteIP, req, counted, keepAlive, redisVars, received, faults>>
  BY DEF Forward
<1>2. CASE req[c].url = NoUrl
  <2>1. Answered(c, Local("400")) /\ UNCHANGED poolVars
    BY <1>2 DEF Forward
  <2>2. HandlerType'
    BY <1>1, <2>1, LocalResponse DEF ProxyInv, HandlerType, Answered, Goto, redisVars
  <2>3. Served'
    BY <1>1, <2>1 DEF ProxyInv, HandlerType, Served, Forwarding, Answered, Goto, Forward, At
  <2>4. Plain(c)
    BY <1>1, <2>1, LocalResponse DEF ProxyInv, HandlerType, Plain, Answered, Goto, redisVars, poolVars
  <2> QED  BY <2>2, <2>3, <2>4, PlainKeeps DEF ProxyInv
<1>3. CASE req[c].url # NoUrl
  <2>1. Pool!Request(c, req[c].url) /\ Goto(c, "pool") /\ UNCHANGED response
    BY <1>3 DEF Forward
  <2>2. HandlerType'
    BY <1>1, <2>1 DEF ProxyInv, HandlerType, Goto, redisVars
  <2>3. Served'
    BY <1>1, <2>1 DEF ProxyInv, HandlerType, Served, Forwarding, Goto, Forward, At
  <2>4. AskedForTarget'
    BY <1>1, <2>1 DEF ProxyInv, HandlerType, AskedForTarget, Goto, Pool!Request, Pool!TypeOK
  <2>5. CacheIsOwn' /\ ResponseIsOwn'
    BY <1>1, <2>1 DEF ProxyInv, HandlerType, CacheIsOwn, ResponseIsOwn, Goto, At, redisVars
  <2> QED  BY <2>2, <2>3, <2>4, <2>5 DEF ProxyInv
<1> QED  BY <1>2, <1>3

\* The environment and the steps inside doRequest leave the handlers alone.
LEMMA OutsideSteps ==
    ASSUME ProxyInv, Environment \/ \E c \in Clients : PoolStep(c)
    PROVE  ProxyInv'
<1>1. UNCHANGED <<m_remoteIP, handlerVars, noExpiry, received, url>>
  <2>1. ASSUME NEW c \in Clients, PoolStep(c)
        PROVE  UNCHANGED <<m_remoteIP, handlerVars, noExpiry, received, url>>
    <3>1. Pool!Step(c)
      BY <2>1 DEF PoolStep, Pool!Step
    <3> QED  BY <2>1, <3>1, StepKeepsUrl DEF PoolStep, redisVars
  <2>2. CASE Environment
    BY <2>2 DEF Environment, WindowEnds, CacheExpires, redisVars, poolVars, Pool!Tick,
                Pool!HangUp, Pool!Answer, Pool!Drip, Pool!Reads, Pool!clientVars
  <2> QED  BY <2>1, <2>2
<1>2. NoBody \in Bodies
  BY DEF NoBody, Bodies
<1>3. /\ faults' \in Nat /\ rate' \in [Addresses -> Nat] /\ ttl' \subseteq Addresses
      /\ cache' \in [Keys -> Bodies]
      /\ \A k \in Keys : cache'[k] \in {cache[k], NoBody}
  BY <1>2 DEF Environment, WindowEnds, CacheExpires, redisVars, PoolStep, Fault, ProxyInv, HandlerType
<1>4. HandlerType'
  BY <1>1, <1>3 DEF ProxyInv, HandlerType, handlerVars
<1>5. Served' /\ AskedForTarget' /\ ResponseIsOwn'
  BY <1>1 DEF ProxyInv, Served, AskedForTarget, ResponseIsOwn, At, handlerVars
<1>6. CacheIsOwn'
  BY <1>3 DEF ProxyInv, CacheIsOwn
<1> QED  BY <1>4, <1>5, <1>6 DEF ProxyInv

\* SETEX stores the body under the key of the request, or nothing.
LEMMA Stored ==
    ASSUME ProxyInv, NEW c \in Clients, NEW body \in Bodies, CacheSet(c, body),
           body # NoBody /\ body.sure =>
               /\ body.answer.url = req[c].url
               /\ req[c].mode = "forward" => body.answer.status = "200"
    PROVE  cache' \in [Keys -> Bodies] /\ faults' \in Nat /\ CacheIsOwn'
<1>1. faults' \in Nat
  BY DEF CacheSet, Fault, ProxyInv, HandlerType
<1>2. CASE UNCHANGED cache
  BY <1>1, <1>2 DEF ProxyInv, HandlerType, CacheIsOwn
<1>3. CASE cache' = [cache EXCEPT ![Key(c)] = body]
  <2>1. cache' \in [Keys -> Bodies]
    BY <1>3 DEF ProxyInv, HandlerType
  <2>2. Key(c)[1] = req[c].mode /\ Key(c)[2] = req[c].url
    BY DEF Key
  <2>3. ASSUME NEW k \in Keys, k # Key(c) PROVE cache'[k] = cache[k]
    BY <1>3, <2>3 DEF ProxyInv, HandlerType
  <2>4. ASSUME NEW k \in Keys, k = Key(c) PROVE cache'[k] = body
    BY <1>3, <2>4 DEF ProxyInv, HandlerType
  <2>5. CacheIsOwn'
    BY <2>2, <2>3, <2>4 DEF ProxyInv, CacheIsOwn
  <2> QED  BY <1>1, <2>1, <2>5
<1> QED  BY <1>2, <1>3 DEF CacheSet

\* The answer of the host, or 502, goes to the client and into the cache.
LEMMA PoolReturnsStep ==
    ASSUME ProxyInv, Pool!TypeOK, Pool!AnswerIsOwn, NEW c \in Clients, PoolReturns(c)
    PROVE  ProxyInv'
<1> DEFINE answer == result[c].answer
           body == [answer |-> answer, sure |-> result[c].sure]
           given == [status |-> answer.status, body |-> body]
<1>1. UNCHANGED <<m_remoteIP, req, counted, keepAlive, rate, ttl, noExpiry, received>>
  BY DEF PoolReturns
<1>2. url[c] = req[c].url /\ \A d \in Clients : d # c => url'[d] = url[d]
  BY DEF ProxyInv, AskedForTarget, PoolReturns, At, Pool!Forget, Pool!TypeOK
<1>3. body \in Bodies /\ body.answer = answer /\ given \in Responses
  <2>1. result[c] \in Pool!Results
    BY DEF Pool!TypeOK
  <2>2. answer \in Answers \cup {Pool!NoAnswer} /\ result[c].sure \in BOOLEAN
    BY <2>1 DEF Pool!Results
  <2>3. answer.status \in Statuses \cup {"none"}
    BY <2>2 DEF Statuses, Pool!NoAnswer
  <2> QED  BY <2>2, <2>3 DEF Bodies, Responses
<1>4. result[c].kind = "ok" /\ body.sure => body.answer.url = req[c].url
  BY <1>2 DEF Pool!AnswerIsOwn
<1>5. \E resp \in Responses :
        /\ Answered(c, resp)
        /\ cache' \in [Keys -> Bodies] /\ faults' \in Nat /\ CacheIsOwn'
        /\ resp.body = NoBody
           \/ (resp.body = body /\ resp.status = body.answer.status /\ result[c].kind = "ok")
  <2>1. CASE result[c].kind = "failed" /\ Answered(c, Local("502")) /\ UNCHANGED <<cache, faults>>
    BY <2>1, LocalResponse DEF ProxyInv, HandlerType, CacheIsOwn
  <2>2. CASE Deliver(c)
    <3>0. result[c].kind = "ok"
      BY <2>2 DEF Deliver
    <3>1. CASE /\ req[c].mode = "forward"
               /\ Answered(c, given)
               /\ IF answer.status = "200" THEN CacheSet(c, body) ELSE UNCHANGED <<cache, faults>>
      <4>1. CASE answer.status = "200"
        <5>1. cache' \in [Keys -> Bodies] /\ faults' \in Nat /\ CacheIsOwn'
          BY <3>0, <3>1, <4>1, <1>3, <1>4, Stored
        <5> QED  BY <3>0, <3>1, <5>1, <1>3
      <4>2. CASE answer.status # "200"
        BY <3>0, <3>1, <4>2, <1>3 DEF ProxyInv, HandlerType, CacheIsOwn
      <4> QED  BY <4>1, <4>2
    <3>2. CASE req[c].mode = "reverse" /\ Answered(c, given) /\ CacheSet(c, body)
      <4>1. cache' \in [Keys -> Bodies] /\ faults' \in Nat /\ CacheIsOwn'
        BY <3>0, <3>2, <1>3, <1>4, Stored
      <4> QED  BY <3>0, <3>2, <4>1, <1>3
    <3>3. CASE req[c].mode = "reverse" /\ Answered(c, Local("502")) /\ CacheSet(c, body)
      <4>1. cache' \in [Keys -> Bodies] /\ faults' \in Nat /\ CacheIsOwn'
        BY <3>0, <3>3, <1>3, <1>4, Stored
      <4> QED  BY <3>3, <4>1, LocalResponse
    <3>4. CASE req[c].mode = "reverse" /\ Answered(c, given) /\ CacheSet(c, NoBody)
      <4>1. NoBody \in Bodies
        BY DEF NoBody, Bodies
      <4>2. cache' \in [Keys -> Bodies] /\ faults' \in Nat /\ CacheIsOwn'
        BY <3>4, <4>1, Stored
      <4> QED  BY <3>0, <3>4, <4>2, <1>3
    <3> QED  BY <2>2, <3>1, <3>2, <3>3, <3>4 DEF Deliver
  <2> QED  BY <2>1, <2>2 DEF PoolReturns
<1>6. PICK resp \in Responses :
        /\ Answered(c, resp)
        /\ cache' \in [Keys -> Bodies] /\ faults' \in Nat /\ CacheIsOwn'
        /\ resp.body = NoBody
           \/ (resp.body = body /\ resp.status = body.answer.status /\ result[c].kind = "ok")
  BY <1>5
<1>7. HandlerType'
  BY <1>1, <1>6 DEF ProxyInv, HandlerType, Answered, Goto
<1>8. Served' /\ AskedForTarget'
  BY <1>1, <1>2, <1>6 DEF ProxyInv, HandlerType, Served, Forwarding, AskedForTarget, Answered, Goto,
                          PoolReturns, At
<1>9. ResponseIsOwn'
  BY <1>1, <1>4, <1>6 DEF ProxyInv, HandlerType, ResponseIsOwn, Answered, Goto, At
<1> QED  BY <1>6, <1>7, <1>8, <1>9 DEF ProxyInv

\* Whatever the next step is.
LEMMA NextInv == Pool!TypeOK /\ Pool!AnswerIsOwn /\ ProxyInv /\ [Next]_vars => ProxyInv'
<1> SUFFICES ASSUME Pool!TypeOK, Pool!AnswerIsOwn, ProxyInv, [Next]_vars PROVE ProxyInv'
  OBVIOUS
<1>1. CASE UNCHANGED vars
  <2>1. UNCHANGED <<m_remoteIP, hpc, req, counted, keepAlive, response, cache, rate, ttl,
                    noExpiry, received, faults, url>>
    BY <1>1 DEF vars, serverVars, handlerVars, redisVars, poolVars
  <2> QED  BY <2>1 DEF ProxyInv, HandlerType, Served, AskedForTarget, CacheIsOwn, ResponseIsOwn, At
<1>2. CASE Environment
  BY <1>2, OutsideSteps
<1>3. ASSUME NEW c \in Clients,
             Accept(c) \/ RecvRequest(c) \/ CloseClient(c) \/ Serve(c)
      PROVE  ProxyInv'
  BY <1>3, ConnectionSteps, RecvRequestStep, CacheGetStep, RateSteps, ForwardStep,
     PoolReturnsStep, OutsideSteps DEF Serve
<1> QED  BY <1>1, <1>2, <1>3 DEF Next

\* A client gets the answer to its own request, through the cache or not, and on
\* the forward path with the status of the host, unless it came on a connection
\* that had been given up before: for any number of clients, requests, keys and
\* connections, whatever Redis and the host do (httpserver.cpp:842-1076).
THEOREM ResponsesAreOwn == Spec => []ResponseIsOwn
<1>1. ProxyInv => ResponseIsOwn
  BY DEF ProxyInv
<1> QED  BY <1>1, InitInv, NextInv, PoolKeeps, PTL DEF Spec

\* Every variable of the proxy keeps its type, those of the pool too.
THEOREM ProxyTypeCorrect == Spec => []TypeOK
<1>1. ProxyInv /\ Pool!TypeOK => TypeOK
  BY DEF ProxyInv, HandlerType, TypeOK
<1> QED  BY <1>1, InitInv, NextInv, PoolKeeps, PTL DEF Spec

-----------------------------------------------------------------------------
(* A step of the whole is a step of one part, and the others stutter *)

LEMMA StepOfParts ==
    ASSUME [ServicesNext]_allVars
    PROVE  /\ [Array!Next /\ ~(strayed /\ strayed')]_arrayVars
           /\ [MySQL!Next]_mysqlVars /\ [Tun!Next]_tunnelVars
           /\ [Buffer!Next]_bufferVars /\ [Codec!Next]_codecVars
           /\ [Parser!Next]_parserVars
BY DEF ServicesNext, ProxyStep, Proxy, ArrayStep, MySQLStep, TunnelStep, InTunnel,
       BufferStep, TcpStep, InTcp, CodecStep, ParserStep, allVars

-----------------------------------------------------------------------------
(* The buffer of a session *)

\* Until two sessions have grown at the same time: only one grows, the
\* configuration variable and the size its listener keeps differ only between
\* its setValue and its store, and what it reads back is twice what it has read.
Alone ==
    /\ \A s, t \in Sessions : s # t => ~(Buffer!Growing(s) /\ Buffer!Growing(t))
    /\ \A s \in Sessions :
        /\ step[s] = "read" => room[s] > offset[s]
        /\ Buffer!Growing(s) => offset[s] > 0
        /\ step[s] \in {"announce", "store", "fetch"} => m_val = offset[s] * 2
        /\ step[s] = "store" => loaded[s] = m_val
        /\ step[s] = "fetch" => bufferSize = m_val
    /\ (\A s \in Sessions : step[s] \notin {"announce", "store"}) => bufferSize = m_val
    /\ m_val > 0 /\ bufferSize > 0

BufferInv == Buffer!TypeOK /\ (raced \/ Alone)

\* What a step of one session does to its place, to the others' places, and to
\* raced.
LEMMA GotoLemma ==
    ASSUME Buffer!TypeOK, NEW s \in Sessions, NEW label, Buffer!Goto(s, label)
    PROVE  /\ step'[s] = label /\ \A t \in Sessions \ {s} : step'[t] = step[t]
           /\ raced => raced'
           /\ ~raced' => \A t, u \in Sessions :
                            t # u => ~(Buffer!Growing(t)' /\ Buffer!Growing(u)')
<1>1. step'[s] = label /\ \A t \in Sessions \ {s} : step'[t] = step[t]
  BY DEF Buffer!Goto, Buffer!TypeOK
<1>2. raced => raced'
  BY Zenon DEF Buffer!Goto
<1>3. ~raced' => \A t, u \in Sessions :
                    t # u => ~(Buffer!Growing(t)' /\ Buffer!Growing(u)')
  BY Zenon DEF Buffer!Goto
<1> QED  BY <1>1, <1>2, <1>3

\* Every step keeps the types.
LEMMA BufferTypes ==
    ASSUME Buffer!BufferAssumption, Buffer!TypeOK, [Buffer!Next]_bufferVars
    PROVE  Buffer!TypeOK'
<1> USE DEF Buffer!TypeOK
<1>0. ASSUME NEW s \in Sessions, NEW label, Buffer!Goto(s, label),
             label \in {"idle", "read", "set", "announce", "store", "fetch"}
      PROVE  /\ step' \in [Sessions -> {"idle", "read", "set", "announce", "store", "fetch"}]
             /\ raced' \in BOOLEAN
  <2>1. step' \in [Sessions -> {"idle", "read", "set", "announce", "store", "fetch"}]
    BY <1>0 DEF Buffer!Goto
  <2>2. raced' \in BOOLEAN
    BY <1>0, Zenon DEF Buffer!Goto
  <2> QED  BY <2>1, <2>2
<1>1. ASSUME NEW s \in Sessions, Buffer!Begin(s) PROVE Buffer!TypeOK'
  BY <1>0, <1>1 DEF Buffer!Begin
<1>2. ASSUME NEW s \in Sessions, Buffer!ReadPart(s) PROVE Buffer!TypeOK'
  <2>1. PICK n \in 1 .. room[s] - offset[s] :
          /\ offset' = [offset EXCEPT ![s] = @ + n]
          /\ Buffer!Goto(s, IF offset[s] + n >= room[s] THEN "set" ELSE "read")
    BY <1>2 DEF Buffer!ReadPart
  <2>2. offset' \in [Sessions -> Nat]
    BY <2>1
  <2>3. UNCHANGED <<m_val, bufferSize, room, loaded>>
    BY <1>2 DEF Buffer!ReadPart
  <2> QED  BY <1>0, <2>1, <2>2, <2>3
<1>3. ASSUME NEW s \in Sessions, Buffer!Finish(s) PROVE Buffer!TypeOK'
  BY <1>0, <1>3 DEF Buffer!Finish
<1>4. ASSUME NEW s \in Sessions, Buffer!SetValue(s) PROVE Buffer!TypeOK'
  BY <1>0, <1>4 DEF Buffer!SetValue
<1>5. ASSUME NEW s \in Sessions, Buffer!Announce(s) PROVE Buffer!TypeOK'
  BY <1>0, <1>5 DEF Buffer!Announce
<1>6. ASSUME NEW s \in Sessions, Buffer!Store(s) PROVE Buffer!TypeOK'
  BY <1>0, <1>6 DEF Buffer!Store
<1>7. ASSUME NEW s \in Sessions, Buffer!Fetch(s) PROVE Buffer!TypeOK'
  BY <1>0, <1>7 DEF Buffer!Fetch
<1>8. CASE UNCHANGED bufferVars
  BY <1>8 DEF bufferVars
<1> QED  BY <1>1, <1>2, <1>3, <1>4, <1>5, <1>6, <1>7, <1>8 DEF Buffer!Next

\* Every step that does not make two sessions grow leaves the one that grows
\* alone.
LEMMA BufferAlone ==
    ASSUME Buffer!BufferAssumption, Buffer!TypeOK, Buffer!TypeOK', Alone, Buffer!Next, ~raced'
    PROVE  Alone'
<1>0. ASSUME NEW s \in Sessions, NEW label, Buffer!Goto(s, label)
      PROVE  /\ step'[s] = label /\ \A t \in Sessions \ {s} : step'[t] = step[t]
             /\ \A t, u \in Sessions : t # u => ~(Buffer!Growing(t)' /\ Buffer!Growing(u)')
  BY <1>0, GotoLemma
<1> USE DEF Alone, Buffer!TypeOK
<1>1. ASSUME NEW s \in Sessions, Buffer!Begin(s) PROVE Alone'
  <2>1. /\ step[s] = "idle" /\ Buffer!Goto(s, "read")
        /\ offset' = [offset EXCEPT ![s] = 0] /\ room' = [room EXCEPT ![s] = bufferSize]
        /\ UNCHANGED <<m_val, bufferSize, loaded>>
    BY <1>1 DEF Buffer!Begin
  <2> QED  BY <1>0, <2>1 DEF Buffer!Growing
<1>2. ASSUME NEW s \in Sessions, Buffer!ReadPart(s) PROVE Alone'
  <2>1. PICK n \in 1 .. room[s] - offset[s] :
          /\ offset' = [offset EXCEPT ![s] = @ + n]
          /\ Buffer!Goto(s, IF offset[s] + n >= room[s] THEN "set" ELSE "read")
    BY <1>2 DEF Buffer!ReadPart
  <2>2. step[s] = "read" /\ UNCHANGED <<m_val, bufferSize, room, loaded>>
    BY <1>2 DEF Buffer!ReadPart
  <2>3. n \in Nat \ {0} /\ offset'[s] = offset[s] + n
        /\ \A t \in Sessions \ {s} : offset'[t] = offset[t] /\ step'[t] = step[t]
    BY <1>0, <2>1
  <2>4. \/ step'[s] = "set"
        \/ step'[s] = "read" /\ room[s] > offset'[s]
    BY <1>0, <2>1, <2>3
  <2>5. \A t, u \in Sessions : t # u => ~(Buffer!Growing(t)' /\ Buffer!Growing(u)')
    BY <1>0, <2>1
  <2>6. offset'[s] > 0
    BY <2>3
  <2>7. ASSUME NEW t \in Sessions
        PROVE  /\ step'[t] = "read" => room'[t] > offset'[t]
               /\ Buffer!Growing(t)' => offset'[t] > 0
               /\ step'[t] \in {"announce", "store", "fetch"} => m_val' = offset'[t] * 2
               /\ step'[t] = "store" => loaded'[t] = m_val'
               /\ step'[t] = "fetch" => bufferSize' = m_val'
    <3>1. CASE t = s
      BY <2>2, <2>4, <2>6, <3>1
    <3>2. CASE t # s
      BY <2>2, <2>3, <3>2 DEF Buffer!Growing
    <3> QED  BY <3>1, <3>2
  <2>8. (\A t \in Sessions : step'[t] \notin {"announce", "store"}) => bufferSize' = m_val'
    BY <2>2, <2>3
  <2> QED  BY <2>2, <2>5, <2>7, <2>8
<1>3. ASSUME NEW s \in Sessions, Buffer!Finish(s) PROVE Alone'
  <2>1. /\ step[s] = "read" /\ Buffer!Goto(s, "idle")
        /\ offset' = [offset EXCEPT ![s] = 0] /\ room' = [room EXCEPT ![s] = 0]
        /\ UNCHANGED <<m_val, bufferSize, loaded>>
    BY <1>3 DEF Buffer!Finish
  <2> QED  BY <1>0, <2>1 DEF Buffer!Growing
<1>4. ASSUME NEW s \in Sessions, Buffer!SetValue(s) PROVE Alone'
  <2>1. /\ step[s] = "set" /\ m_val' = offset[s] * 2
        /\ Buffer!Goto(s, IF m_val = offset[s] * 2 THEN "fetch" ELSE "announce")
        /\ UNCHANGED <<bufferSize, offset, room, loaded>>
    BY <1>4 DEF Buffer!SetValue
  <2>2. \A t \in Sessions \ {s} : ~Buffer!Growing(t)
    BY <2>1 DEF Buffer!Growing
  <2>3. bufferSize = m_val
    BY <2>1, <2>2 DEF Buffer!Growing
  <2>4. /\ step'[s] = IF m_val = offset[s] * 2 THEN "fetch" ELSE "announce"
        /\ \A t \in Sessions \ {s} : step'[t] = step[t]
        /\ \A t, u \in Sessions : t # u => ~(Buffer!Growing(t)' /\ Buffer!Growing(u)')
    BY <1>0, <2>1
  <2>5. offset[s] > 0
    BY <2>1 DEF Buffer!Growing
  <2>6. ASSUME NEW t \in Sessions
        PROVE  /\ step'[t] = "read" => room'[t] > offset'[t]
               /\ Buffer!Growing(t)' => offset'[t] > 0
               /\ step'[t] \in {"announce", "store", "fetch"} => m_val' = offset'[t] * 2
               /\ step'[t] = "store" => loaded'[t] = m_val'
               /\ step'[t] = "fetch" => bufferSize' = m_val'
    <3>1. CASE t = s
      BY <2>1, <2>3, <2>4, <2>5, <3>1
    <3>2. CASE t # s
      BY <2>1, <2>2, <2>4, <3>2 DEF Buffer!Growing
    <3> QED  BY <3>1, <3>2
  <2>7. (\A t \in Sessions : step'[t] \notin {"announce", "store"}) => bufferSize' = m_val'
    BY <2>1, <2>3, <2>4
  <2>8. m_val' > 0 /\ bufferSize' > 0
    BY <2>1, <2>5
  <2> QED  BY <2>4, <2>6, <2>7, <2>8
<1>5. ASSUME NEW s \in Sessions, Buffer!Announce(s) PROVE Alone'
  <2>1. /\ step[s] = "announce" /\ Buffer!Goto(s, "store")
        /\ loaded' = [loaded EXCEPT ![s] = m_val]
        /\ UNCHANGED <<m_val, bufferSize, offset, room>>
    BY <1>5 DEF Buffer!Announce
  <2> QED  BY <1>0, <2>1 DEF Buffer!Growing
<1>6. ASSUME NEW s \in Sessions, Buffer!Store(s) PROVE Alone'
  <2>1. /\ step[s] = "store" /\ Buffer!Goto(s, "fetch") /\ bufferSize' = loaded[s]
        /\ loaded' = [loaded EXCEPT ![s] = 0]
        /\ UNCHANGED <<m_val, offset, room>>
    BY <1>6 DEF Buffer!Store
  <2> QED  BY <1>0, <2>1 DEF Buffer!Growing
<1>7. ASSUME NEW s \in Sessions, Buffer!Fetch(s) PROVE Alone'
  <2>1. /\ step[s] = "fetch" /\ Buffer!Goto(s, "read")
        /\ room' = [room EXCEPT ![s] = bufferSize]
        /\ UNCHANGED <<m_val, bufferSize, offset, loaded>>
    BY <1>7 DEF Buffer!Fetch
  <2> QED  BY <1>0, <2>1 DEF Buffer!Growing
<1> QED  BY <1>1, <1>2, <1>3, <1>4, <1>5, <1>6, <1>7 DEF Buffer!Next

\* Once two sessions have grown at the same time, they have.
LEMMA RacedStays == ASSUME Buffer!TypeOK, [Buffer!Next]_bufferVars, raced PROVE raced'
<1>1. ASSUME NEW s \in Sessions, NEW label, Buffer!Goto(s, label) PROVE raced'
  BY <1>1, GotoLemma
<1>2. ASSUME NEW s \in Sessions, Buffer!ReadPart(s) PROVE raced'
  <2>1. PICK n \in 1 .. room[s] - offset[s] :
          Buffer!Goto(s, IF offset[s] + n >= room[s] THEN "set" ELSE "read")
    BY <1>2 DEF Buffer!ReadPart
  <2> QED  BY <1>1, <2>1
<1>3. ASSUME NEW s \in Sessions,
             \/ Buffer!Begin(s) \/ Buffer!Finish(s) \/ Buffer!SetValue(s)
             \/ Buffer!Announce(s) \/ Buffer!Store(s) \/ Buffer!Fetch(s)
      PROVE  raced'
  BY <1>1, <1>3 DEF Buffer!Begin, Buffer!Finish, Buffer!SetValue, Buffer!Announce, Buffer!Store,
                     Buffer!Fetch
<1>4. CASE UNCHANGED bufferVars
  BY <1>4 DEF bufferVars
<1> QED  BY <1>2, <1>3, <1>4 DEF Buffer!Next

-----------------------------------------------------------------------------

\* A session has room for its next read, unless two sessions have grown at the
\* same time: one that grows alone gets twice what it has read, whatever the
\* others read meanwhile (httpsession.cpp:17-85, config.h:412-437).
THEOREM EachReadHasRoom == ServicesSpec => []RoomToRead
<1>0. Buffer!BufferAssumption
  BY ServicesAssumption
<1>1. ServicesInit => BufferInv
  <2> SUFFICES ASSUME Buffer!Init PROVE Buffer!TypeOK /\ Alone
    BY DEF BufferInv, ServicesInit
  <2>1. Buffer!TypeOK
    BY <1>0 DEF Buffer!Init, Buffer!TypeOK, Buffer!BufferAssumption
  <2>2. Alone
    BY <1>0 DEF Buffer!Init, Alone, Buffer!Growing, Buffer!BufferAssumption
  <2> QED  BY <2>1, <2>2
<1>2. BufferInv /\ [ServicesNext]_allVars => BufferInv'
  <2> SUFFICES ASSUME Buffer!TypeOK, raced \/ Alone, [ServicesNext]_allVars
               PROVE  Buffer!TypeOK' /\ (raced' \/ Alone')
    BY DEF BufferInv
  <2>0. [Buffer!Next]_bufferVars
    BY StepOfParts
  <2>1. Buffer!TypeOK'
    BY <1>0, <2>0, BufferTypes
  <2>2. CASE raced
    <3>1. raced'
      BY <2>0, <2>2, RacedStays
    <3> QED  BY <2>1, <3>1
  <2>3. CASE Alone /\ Buffer!Next
    BY <1>0, <2>1, <2>3, BufferAlone
  <2>4. CASE Alone /\ UNCHANGED bufferVars
    BY <2>1, <2>4 DEF Alone, Buffer!Growing, bufferVars
  <2> QED  BY <2>0, <2>1, <2>2, <2>3, <2>4
<1>3. BufferInv => RoomToRead
  BY DEF BufferInv, Alone, RoomToRead, Buffer!RoomToRead
<1> QED  BY <1>1, <1>2, <1>3, PTL DEF ServicesSpec

-----------------------------------------------------------------------------
(* The database connections; MySQLFacts is MySQLPool once more, with its theorems *)

MySQLFacts == INSTANCE MySQLPool_proofs WITH m_pool <- my_pool

\* The two instances start alike.
LEMMA SameInit == MySQL!Init => MySQLFacts!Init
  BY DEF MySQL!Init, MySQLFacts!Init, MySQL!SetToSeq, MySQLFacts!SetToSeq,
     MySQL!IsInjective, MySQLFacts!IsInjective, MySQL!Cardinality, MySQLFacts!Cardinality

\* ... and make the same steps.
LEMMA SameNext == [MySQL!Next]_mysqlVars => [MySQLFacts!Next]_(MySQLFacts!vars)
  BY DEF MySQL!Next, MySQLFacts!Next, MySQL!Lock, MySQLFacts!Lock, MySQL!Take,
     MySQLFacts!Take, MySQL!Sleep, MySQLFacts!Sleep, MySQL!GiveUp, MySQLFacts!GiveUp,
     MySQL!Timeout, MySQLFacts!Timeout, MySQL!Ping, MySQLFacts!Ping, MySQL!Use,
     MySQLFacts!Use, MySQL!Release, MySQLFacts!Release, MySQL!Drop, MySQLFacts!Drop,
     MySQL!Goto, MySQLFacts!Goto, mysqlVars, MySQLFacts!vars

\* The pool of database connections keeps all of them, m_idle counts the idle
\* ones, and while threads sleep there is one awake for each of these: for any
\* number of threads and connections (mysqlpool.cpp:50-79).
THEOREM NoDatabaseConnectionLost == ServicesSpec => []ConnectionsServed
<1>1. MySQLFacts!MySQLAssumption
  <2>1. MySQL!MySQLAssumption
    BY ServicesAssumption
  <2> QED  BY <2>1 DEF MySQL!MySQLAssumption, MySQLFacts!MySQLAssumption,
              MySQL!IsFiniteSet, MySQLFacts!IsFiniteSet
<1>2. ServicesInit => MySQLFacts!Init
  BY SameInit DEF ServicesInit
<1>3. [ServicesNext]_allVars => [MySQLFacts!Next]_(MySQLFacts!vars)
  BY StepOfParts, SameNext
<1>4. MySQLFacts!Spec => []MySQLFacts!ConnectionsServed
  BY <1>1, MySQLFacts!NoConnectionLost
<1>5. MySQLFacts!ConnectionsServed => ConnectionsServed
  BY DEF ConnectionsServed, MySQL!ConnectionsServed, MySQLFacts!ConnectionsServed,
     MySQL!NoneLost, MySQLFacts!NoneLost, MySQL!NoneForgotten, MySQLFacts!NoneForgotten,
     MySQL!Cardinality, MySQLFacts!Cardinality
<1> QED  BY <1>2, <1>3, <1>4, <1>5, PTL DEF ServicesSpec, MySQLFacts!Spec

-----------------------------------------------------------------------------
(* What a tunnel passes on *)

\* What has been received of s and not been left by a send(): given to the other
\* side, or in the buffer on its way there.
Strand(s) == delivered[s] \o Tun!InHand(s)

\* Each element is greater than those before it, but for Garbage, which comes
\* first.
Rising(f) ==
    \A i, j \in DOMAIN f : i < j => f[i] < f[j] \/ (f[i] = Tun!Garbage /\ f[j] = Tun!Garbage)

StrandSound(s) ==
    /\ taken[s] <= sent[s]
    /\ Rising(Strand(s))
    /\ \A i \in DOMAIN Strand(s) :
        /\ Strand(s)[i] <= taken[s]
        /\ Strand(s)[i] = Tun!Garbage => s = "remote" /\ websocket /\ garbled
    /\ s \notin short /\ ~(s = "remote" /\ garbled) => Strand(s) = [i \in 1 .. taken[s] |-> i]

\* The buffer holds something between a recv() and its send() only, and nothing
\* comes from the remote host before the first recv().
Handing == {"pass", "to client", "to remote"}
BufferInPlace ==
    /\ at \notin Handing => buf = <<>>
    /\ at \in {"connect", "request", "answer"} => delivered["remote"] = <<>> /\ taken["remote"] = 0
    /\ at \in {"request", "answer", "pass"} => websocket

TunnelInv == Tun!TypeOK /\ BufferInPlace /\ \A s \in Tun!Sides : StrandSound(s)

\* What is received next, p, comes after all that was received before, q.
ComesAfter(q, k, n, p) ==
    /\ Rising(q \o p)
    /\ \A i \in DOMAIN (q \o p) :
        /\ (q \o p)[i] <= k + n
        /\ (q \o p)[i] = Tun!Garbage => i \in DOMAIN q /\ q[i] = Tun!Garbage
    /\ q = [i \in 1 .. k |-> i] => q \o p = [i \in 1 .. k + n |-> i]

\* It does, if what came before is at most k and p goes on from k.
LEMMA ReceivedNext ==
    ASSUME NEW q \in Seq(Nat), NEW k \in Nat, NEW n \in Nat, NEW p \in Seq(Nat), Len(p) = n,
           \A i \in 1 .. n : p[i] = k + i,
           \A i \in DOMAIN q : q[i] <= k,
           Rising(q)
    PROVE  ComesAfter(q, k, n, p)
<1> DEFINE r == q \o p
<1>1. /\ DOMAIN r = 1 .. Len(q) + n /\ DOMAIN q = 1 .. Len(q) /\ Len(q) \in Nat
      /\ \A i \in 1 .. Len(q) + n : r[i] = IF i <= Len(q) THEN q[i] ELSE p[i - Len(q)]
  OBVIOUS
<1>2. \A i \in 1 .. Len(q) + n : \/ i \in DOMAIN q /\ r[i] = q[i]
                                 \/ i > Len(q) /\ r[i] = k + (i - Len(q))
  BY <1>1
<1>3. \A i \in DOMAIN q : q[i] \in Nat
  OBVIOUS
<1> HIDE DEF r
<1>4. Rising(r)
  BY <1>1, <1>2, <1>3 DEF Rising
<1>5. \A i \in DOMAIN r :
        r[i] <= k + n /\ (r[i] = Tun!Garbage => i \in DOMAIN q /\ q[i] = Tun!Garbage)
  BY <1>1, <1>2, <1>3 DEF Tun!Garbage
<1>6. ASSUME q = [i \in 1 .. k |-> i] PROVE r = [i \in 1 .. k + n |-> i]
  <2>1. Len(q) = k
    BY <1>6
  <2>2. DOMAIN r = 1 .. k + n /\ \A i \in 1 .. k + n : r[i] = i
    BY <1>1, <1>2, <1>6, <2>1
  <2>3. r \in Seq(Nat)
    BY DEF r
  <2> QED  BY <2>2, <2>3
<1> QED  BY <1>4, <1>5, <1>6 DEF r, ComesAfter

\* The elements of a strand that has lost some at its end.
LEMMA CutStrand ==
    ASSUME NEW q \in Seq(Nat), NEW p \in Seq(Nat), NEW m \in 0 .. Len(p)
    PROVE  LET f == q \o p
               g == q \o SubSeq(p, 1, m)
           IN  /\ \A i \in DOMAIN g : i \in DOMAIN f /\ g[i] = f[i]
               /\ m = Len(p) => g = f
<1>1. SubSeq(p, 1, m) \in Seq(Nat) /\ Len(SubSeq(p, 1, m)) = m /\ Len(p) \in Nat /\ m \in Nat
      /\ \A i \in 1 .. m : SubSeq(p, 1, m)[i] = p[i]
  <2>1. Len(p) \in Nat /\ m \in 0 .. Len(p) /\ \A i \in 1 .. m : p[i] \in Nat
    OBVIOUS
  <2> QED  BY <2>1, SubSeqProperties
<1>2. m = Len(p) => SubSeq(p, 1, m) = p
  BY <1>1
<1> DEFINE g0 == SubSeq(p, 1, m)
<1> HIDE DEF g0
<1>3. g0 \in Seq(Nat) /\ Len(g0) = m /\ \A i \in 1 .. m : g0[i] = p[i]
  BY <1>1 DEF g0
<1>4. \A i \in DOMAIN (q \o g0) : i \in DOMAIN (q \o p) /\ (q \o g0)[i] = (q \o p)[i]
  <2>1. /\ DOMAIN (q \o g0) = 1 .. Len(q) + m /\ DOMAIN (q \o p) = 1 .. Len(q) + Len(p)
        /\ Len(q) \in Nat /\ Len(p) \in Nat /\ m \in 0 .. Len(p)
    <3>1. DOMAIN (q \o g0) = 1 .. Len(q) + m
      <4>1. q \o g0 \in Seq(Nat) /\ Len(q \o g0) = Len(q) + m
        BY <1>3, ConcatProperties
      <4> QED  BY <4>1
    <3>2. DOMAIN (q \o p) = 1 .. Len(q) + Len(p)
      <4>1. q \o p \in Seq(Nat) /\ Len(q \o p) = Len(q) + Len(p)
        BY ConcatProperties
      <4> QED  BY <4>1
    <3> QED  BY <1>1, <3>1, <3>2
  <2>2. ASSUME NEW i \in 1 .. Len(q) + m PROVE (q \o g0)[i] = (q \o p)[i]
    <3>1. CASE i <= Len(q)
      BY <1>3, <2>1, <3>1
    <3>2. CASE i > Len(q)
      <4>1. i - Len(q) \in 1 .. m
        BY <2>1, <3>2
      <4> QED  BY <1>3, <2>1, <3>2, <4>1
    <3> QED  BY <2>1, <3>1, <3>2
  <2> QED  BY <2>1, <2>2
<1> QED  BY <1>2, <1>4 DEF g0

\* A strand that loses what is at its end, which the send() to the other side
\* has left, stays sound.
LEMMA CutSound ==
    ASSUME Tun!TypeOK, NEW s \in Tun!Sides, StrandSound(s),
           \A i \in DOMAIN Strand(s)' : i \in DOMAIN Strand(s) /\ Strand(s)'[i] = Strand(s)[i],
           s \notin short' => s \notin short /\ Strand(s)' = Strand(s),
           UNCHANGED <<websocket, sent, taken, garbled>>
    PROVE  StrandSound(s)'
  BY DEF StrandSound, Rising

\* A strand nothing happens to stays sound.
LEMMA SameSound ==
    ASSUME NEW s \in Tun!Sides, StrandSound(s), Strand(s)' = Strand(s), taken'[s] = taken[s],
           sent'[s] \in Int, sent[s] \in Int, taken[s] \in Int, sent'[s] >= sent[s],
           websocket' = websocket, garbled => garbled', s \notin short' => s \notin short
    PROVE  StrandSound(s)'
  BY DEF StrandSound, Rising

\* Every step of a tunnel keeps the types and what is said of the strands.
LEMMA TunnelMoves ==
    ASSUME Tun!TunnelAssumption, TunnelInv, [Tun!Next]_tunnelVars
    PROVE  TunnelInv'
<1> USE DEF Tun!TunnelAssumption
<1>0. /\ Tun!TypeOK /\ BufferInPlace /\ \A s \in Tun!Sides : StrandSound(s)
      /\ \A s \in Tun!Sides : taken[s] \in Nat /\ sent[s] \in Nat
  BY DEF TunnelInv, Tun!TypeOK
<1>1. ASSUME \/ Tun!Connect \/ Tun!ConnectFails \/ Tun!Crash \/ Tun!Greet \/ Tun!PassRequest
             \/ Tun!Select \/ Tun!SelectTimeout \/ Tun!SelectFails
             \/ \E s \in Tun!Sides : Tun!Skip(s) \/ Tun!RecvEnds(s)
      PROVE  TunnelInv'
  <2>1. /\ UNCHANGED <<websocket, buf, sent, taken, delivered, short, garbled>>
        /\ at \notin Handing /\ at' \notin Handing
    BY <1>0, <1>1
    DEF Tun!Connect, Tun!ConnectFails, Tun!Crash, Tun!Greet, Tun!PassRequest, Tun!Select,
        Tun!SelectTimeout, Tun!SelectFails, Tun!Skip, Tun!RecvEnds, Tun!Goto, Tun!After, Tun!Sides,
        Tun!peers, Tun!flow, Handing
  <2>2. Tun!TypeOK'
    BY <1>0, <1>1, <2>1
    DEF Tun!Connect, Tun!ConnectFails, Tun!Crash, Tun!Greet, Tun!PassRequest, Tun!Select,
        Tun!SelectTimeout, Tun!SelectFails, Tun!Skip, Tun!RecvEnds, Tun!Goto, Tun!After, Tun!Sides,
        Tun!peers, Tun!flow, Tun!TypeOK, Tun!Places, Tun!Gone, Tun!SendingTo, Tun!Readable,
        Tun!MayFill
  <2>3. BufferInPlace'
    BY <1>0, <1>1, <2>1
    DEF Tun!Connect, Tun!ConnectFails, Tun!Crash, Tun!Greet, Tun!PassRequest, Tun!Select,
        Tun!SelectTimeout, Tun!SelectFails, Tun!Skip, Tun!RecvEnds, Tun!Goto, Tun!After, Tun!Sides,
        BufferInPlace, Handing
  <2>4. ASSUME NEW s \in Tun!Sides PROVE StrandSound(s)'
    <3>1. Strand(s)' = Strand(s)
      <4>1. buf = <<>> /\ buf' = <<>>
        BY <1>0, <2>1 DEF BufferInPlace
      <4>2. Tun!InHand(s) = <<>> /\ Tun!InHand(s)' = <<>>
        BY <4>1 DEF Tun!InHand
      <4> QED  BY <2>1, <4>2 DEF Strand
    <3> QED  BY <1>0, <2>1, <3>1, SameSound
  <2> QED  BY <2>2, <2>3, <2>4 DEF TunnelInv
<1>2. ASSUME NEW t \in Tun!Sides,
             Tun!SideSends(t) \/ Tun!SideCloses(t) \/ Tun!SideReads(t) \/ UNCHANGED tunnelVars
      PROVE  TunnelInv'
  <2>1. /\ UNCHANGED <<websocket, at, buf, taken, delivered, short, garbled>>
        /\ \A s \in Tun!Sides : sent'[s] \in Nat /\ sent'[s] >= sent[s]
    BY <1>0, <1>2 DEF Tun!SideSends, Tun!SideCloses, Tun!SideReads, tunnelVars, Tun!peers, Tun!flow,
                      Tun!TypeOK
  <2>2. Tun!TypeOK'
    <3>1. sent' \in [Tun!Sides -> 0 .. MaxBytes]
      <4>1. CASE Tun!SideSends(t)
        <5>1. sent[t] \in 0 .. MaxBytes /\ sent[t] < MaxBytes /\ sent' = [sent EXCEPT ![t] = @ + 1]
          BY <1>0, <4>1 DEF Tun!SideSends, Tun!TypeOK
        <5>2. sent[t] + 1 \in 0 .. MaxBytes
          BY <5>1
        <5> QED  BY <1>0, <5>1, <5>2 DEF Tun!TypeOK
      <4>2. CASE UNCHANGED sent
        BY <1>0, <4>2 DEF Tun!TypeOK
      <4> QED  BY <1>2, <4>1, <4>2 DEF Tun!SideCloses, Tun!SideReads, tunnelVars, Tun!peers
    <3>2. closed' \subseteq Tun!Sides /\ full' \subseteq Tun!Sides /\ ready' \subseteq Tun!Sides
      BY <1>0, <1>2 DEF Tun!SideSends, Tun!SideCloses, Tun!SideReads, tunnelVars, Tun!peers,
                        Tun!TypeOK
    <3> QED  BY <1>0, <2>1, <3>1, <3>2 DEF Tun!TypeOK
  <2>3. BufferInPlace'
    BY <1>0, <2>1 DEF BufferInPlace
  <2>4. ASSUME NEW s \in Tun!Sides PROVE StrandSound(s)'
    <3>1. Strand(s)' = Strand(s)
      BY <2>1 DEF Strand, Tun!InHand
    <3> QED  BY <1>0, <2>1, <3>1, SameSound
  <2> QED  BY <2>2, <2>3, <2>4 DEF TunnelInv
<1>3. ASSUME NEW t \in Tun!Sides, Tun!Send(t) \/ Tun!SendFails(t) \/ Tun!SendKills(t)
      PROVE  TunnelInv'
  <2> DEFINE o == Tun!Other(t)
  <2>1. /\ o \in Tun!Sides /\ Tun!Other(o) = t /\ at \in Tun!SendingTo(t)
        /\ \A s \in Tun!Sides : s # o => Tun!Other(s) = o
    BY <1>3 DEF Tun!Sides, Tun!Other, Tun!Send, Tun!SendFails, Tun!SendKills, Tun!Has
  <2>2. UNCHANGED <<websocket, sent, taken, garbled>> /\ buf' = <<>>
    BY <1>3 DEF Tun!Send, Tun!SendFails, Tun!SendKills, Tun!peers, Tun!Goto
  <2>3. /\ delivered[o] \in Seq(Nat) /\ buf \in Seq(Nat) /\ Len(buf) \in Nat
    <3>1. delivered[o] \in Seq(0 .. MaxBytes) /\ buf \in Seq(0 .. MaxBytes)
      BY <1>0, <2>1 DEF Tun!TypeOK
    <3> QED  BY <3>1
  <2>4. PICK m \in 0 .. Len(buf) :
          /\ delivered' = [delivered EXCEPT ![o] = @ \o SubSeq(buf, 1, m)]
          /\ o \notin short' => m = Len(buf) /\ o \notin short
          /\ \A s \in Tun!Sides : s # o /\ s \notin short' => s \notin short
    <3>1. CASE Tun!Send(t)
      <4>1. PICK m \in 0 .. Len(buf) :
              /\ delivered' = [delivered EXCEPT ![o] = @ \o SubSeq(buf, 1, m)]
              /\ short' = IF m < Len(buf) THEN short \cup {o} ELSE short
        BY <3>1, Zenon DEF Tun!Send
      <4>2. /\ o \notin short' => m = Len(buf) /\ o \notin short
            /\ \A s \in Tun!Sides : s # o /\ s \notin short' => s \notin short
        <5>1. CASE m < Len(buf)
          BY <4>1, <5>1
        <5>2. CASE m = Len(buf)
          BY <2>3, <4>1, <5>2
        <5>3. m < Len(buf) \/ m = Len(buf)
          BY <2>3, <4>1
        <5> QED  BY <5>1, <5>2, <5>3
      <4> QED  BY <4>1, <4>2
    <3>2. CASE Tun!SendFails(t) \/ Tun!SendKills(t)
      <4>1. delivered' = delivered /\ short' = short \cup {o}
        BY <3>2 DEF Tun!SendFails, Tun!SendKills
      <4>2. delivered[o] \o SubSeq(buf, 1, 0) = delivered[o]
        BY <2>3
      <4>3. delivered = [delivered EXCEPT ![o] = @ \o SubSeq(buf, 1, 0)]
        <5> DEFINE x == delivered[o] \o SubSeq(buf, 1, 0)
        <5>1. x = delivered[o] /\ delivered \in [Tun!Sides -> Seq(0 .. MaxBytes)]
          BY <1>0, <4>2 DEF Tun!TypeOK
        <5> HIDE DEF x
        <5>2. delivered = [delivered EXCEPT ![o] = x]
          BY <5>1
        <5> QED  BY <5>2 DEF x
      <4>4. 0 \in 0 .. Len(buf)
        BY <2>3
      <4> QED  BY <4>1, <4>3, <4>4
    <3> QED  BY <1>3, <3>1, <3>2
  <2>5. /\ at' \in Tun!Places \ {"connect", "request", "answer", "pass"}
        /\ ready' \subseteq Tun!Sides /\ full' \subseteq Tun!Sides /\ short' \subseteq Tun!Sides
        /\ closed' = closed
    BY <1>0, <1>3, <2>1
    DEF Tun!Send, Tun!SendFails, Tun!SendKills, Tun!AfterSend, Tun!After, Tun!Goto, Tun!Places,
        Tun!Gone, Tun!SendingTo, Tun!Sides, Tun!TypeOK, Tun!MayFill, Tun!peers
  <2>6. delivered' \in [Tun!Sides -> Seq(0 .. MaxBytes)]
    <3>1. delivered[o] \in Seq(0 .. MaxBytes) /\ buf \in Seq(0 .. MaxBytes)
      BY <1>0, <2>1 DEF Tun!TypeOK
    <3>2. SubSeq(buf, 1, m) \in Seq(0 .. MaxBytes)
      <4>1. m \in 0 .. Len(buf) /\ \A i \in 1 .. m : buf[i] \in 0 .. MaxBytes
        BY <2>4, <3>1
      <4> QED  BY <3>1, <4>1, SubSeqProperties
    <3>3. delivered[o] \o SubSeq(buf, 1, m) \in Seq(0 .. MaxBytes)
      BY <3>1, <3>2, ConcatProperties
    <3> QED  BY <1>0, <2>4, <3>3 DEF Tun!TypeOK
  <2>7. Tun!TypeOK'
    BY <1>0, <2>2, <2>5, <2>6 DEF Tun!TypeOK
  <2>8. BufferInPlace'
    BY <2>2, <2>5 DEF BufferInPlace
  <2>9. \A s \in Tun!Sides : Tun!InHand(s)' = <<>>
    BY <2>2 DEF Tun!InHand
  <2>10. Strand(o)' = delivered[o] \o SubSeq(buf, 1, m) /\ Strand(o) = delivered[o] \o buf
    <3>1. delivered'[o] = delivered[o] \o SubSeq(buf, 1, m) /\ delivered'[o] \in Seq(0 .. MaxBytes)
      BY <1>0, <2>1, <2>4, <2>6 DEF Tun!TypeOK
    <3>2. delivered'[o] \o <<>> = delivered'[o]
      BY <3>1
    <3> QED  BY <2>1, <2>9, <3>1, <3>2, Zenon DEF Strand, Tun!InHand
  <2>11. StrandSound(o)'
    <3>1. LET f == delivered[o] \o buf
              g == delivered[o] \o SubSeq(buf, 1, m)
          IN  /\ \A i \in DOMAIN g : i \in DOMAIN f /\ g[i] = f[i]
              /\ m = Len(buf) => g = f
      BY <2>3, <2>4, CutStrand
    <3>2. \A i \in DOMAIN Strand(o)' : i \in DOMAIN Strand(o) /\ Strand(o)'[i] = Strand(o)[i]
      BY <2>10, <3>1, Zenon
    <3>3. o \notin short' => o \notin short /\ Strand(o)' = Strand(o)
      BY <2>4, <2>10, <3>1, Zenon
    <3> QED  BY <1>0, <2>1, <2>2, <3>2, <3>3, CutSound
  <2>12. ASSUME NEW s \in Tun!Sides, s # o PROVE StrandSound(s)'
    <3>1. Tun!InHand(s) = <<>>
      BY <2>1, <2>12 DEF Tun!InHand, Tun!SendingTo, Tun!Sides, Tun!Other
    <3>2. delivered'[s] = delivered[s]
      BY <1>0, <2>4, <2>12 DEF Tun!TypeOK
    <3>3. Strand(s)' = Strand(s)
      BY <2>9, <3>1, <3>2 DEF Strand
    <3> QED  BY <1>0, <2>2, <2>4, <2>12, <3>3, SameSound
  <2> QED  BY <2>7, <2>8, <2>11, <2>12 DEF TunnelInv
<1>4. ASSUME NEW t \in Tun!Sides, Tun!Recv(t) \/ (t = "remote" /\ Tun!RecvAnswer)
      PROVE  TunnelInv'
  <2>1. /\ Tun!Receive(t)
        /\ UNCHANGED <<websocket, sent, closed, full, delivered, short, garbled>>
        /\ at \notin Handing /\ at' \in Tun!SendingTo(Tun!Other(t)) \cap Handing
        /\ at' = "pass" => at = "answer"
        /\ ready' \subseteq Tun!Sides
    BY <1>0, <1>4 DEF Tun!Recv, Tun!RecvAnswer, Tun!Goto, Tun!peers, Tun!TypeOK, Tun!Sides, Tun!Other,
                      Tun!SendingTo, Handing
  <2>2. buf = <<>> /\ \A s \in Tun!Sides : Tun!InHand(s) = <<>>
    BY <1>0, <2>1 DEF BufferInPlace, Tun!InHand
  <2>3. PICK n \in Nat :
          /\ taken' = [taken EXCEPT ![t] = @ + n] /\ taken[t] + n <= sent[t]
          /\ buf' = [i \in 1 .. n |-> taken[t] + i]
    <3>1. taken[t] <= sent[t]
      BY <1>0 DEF StrandSound
    <3>2. Tun!Smaller(sent[t] - taken[t], BufSize) \in Nat
          /\ taken[t] + Tun!Smaller(sent[t] - taken[t], BufSize) <= sent[t]
      BY <1>0, <3>1 DEF Tun!Smaller
    <3> QED  BY <2>1, <3>2 DEF Tun!Receive
  <2>4. /\ taken[t] \in Nat /\ sent[t] \in 0 .. MaxBytes
        /\ taken'[t] = taken[t] + n /\ \A s \in Tun!Sides \ {t} : taken'[s] = taken[s]
    BY <1>0, <2>3 DEF Tun!TypeOK
  <2>5. buf' \in Seq(0 .. MaxBytes) /\ buf' \in Seq(Nat) /\ Len(buf') = n
        /\ \A i \in 1 .. n : buf'[i] = taken[t] + i
    <3>1. buf' \in [1 .. n -> 0 .. MaxBytes]
      BY <2>3, <2>4
    <3> QED  BY <2>3, <3>1
  <2>6. Tun!TypeOK'
    <3>1. taken' \in [Tun!Sides -> 0 .. MaxBytes]
      BY <1>0, <2>3, <2>4 DEF Tun!TypeOK
    <3>2. at' \in Tun!Places
      BY <2>1 DEF Handing, Tun!Places, Tun!SendingTo
    <3> QED  BY <1>0, <2>1, <2>5, <3>1, <3>2 DEF Tun!TypeOK
  <2>7. BufferInPlace'
    BY <1>0, <2>1 DEF BufferInPlace, Handing
  <2>8. StrandSound(t)'
    <3>1. Strand(t) = delivered[t] /\ Strand(t)' = delivered[t] \o buf' /\ delivered[t] \in Seq(Nat)
      <4>1. delivered[t] \in Seq(Nat)
        <5>1. delivered[t] \in Seq(0 .. MaxBytes)
          BY <1>0 DEF Tun!TypeOK
        <5> QED  BY <5>1
      <4>2. delivered[t] \o <<>> = delivered[t]
        BY <4>1
      <4>3. Tun!InHand(t)' = buf'
        BY <2>1 DEF Tun!InHand
      <4> QED  BY <2>1, <2>2, <4>1, <4>2, <4>3, Zenon DEF Strand
    <3> DEFINE q == delivered[t]
               p == buf'
               k == taken[t]
    <3>2. q \in Seq(Nat) /\ p \in Seq(Nat) /\ k \in Nat /\ n \in Nat /\ Len(p) = n
          /\ (\A i \in 1 .. n : p[i] = k + i)
      BY <2>4, <2>5, <3>1
    <3>3. (\A i \in DOMAIN q : q[i] <= k) /\ Rising(q)
      BY <1>0, <3>1 DEF StrandSound
    <3>4. ComesAfter(q, k, n, p)
      <4> HIDE DEF q, p, k
      <4> QED  BY <3>2, <3>3, ReceivedNext
    <3>5. taken'[t] <= sent'[t] /\ taken'[t] = k + n
      BY <2>1, <2>3, <2>4
    <3>6. \A i \in DOMAIN q : q[i] = Tun!Garbage => t = "remote" /\ websocket' /\ garbled'
      BY <1>0, <2>1, <3>1 DEF StrandSound
    <3>7. t \notin short' /\ ~(t = "remote" /\ garbled') => q = [i \in 1 .. k |-> i]
      BY <1>0, <2>1, <3>1 DEF StrandSound
    <3>8. Strand(t)' = q \o p
      BY <3>1
    <3> HIDE DEF q, p, k
    <3>9. Rising(Strand(t)')
      BY <3>4, <3>8 DEF ComesAfter
    <3>10. \A i \in DOMAIN Strand(t)' :
             /\ Strand(t)'[i] <= taken'[t]
             /\ Strand(t)'[i] = Tun!Garbage => t = "remote" /\ websocket' /\ garbled'
      BY <3>4, <3>5, <3>6, <3>8 DEF ComesAfter
    <3>11. t \notin short' /\ ~(t = "remote" /\ garbled')
             => Strand(t)' = [i \in 1 .. taken'[t] |-> i]
      BY <3>4, <3>5, <3>7, <3>8 DEF ComesAfter
    <3> QED  BY <3>5, <3>9, <3>10, <3>11 DEF StrandSound, Rising
  <2>9. ASSUME NEW s \in Tun!Sides, s # t PROVE StrandSound(s)'
    <3>1. Tun!InHand(s)' = <<>>
      BY <2>1, <2>9 DEF Tun!InHand, Tun!SendingTo, Tun!Sides, Tun!Other
    <3>2. Strand(s)' = Strand(s)
      BY <2>1, <2>2, <3>1 DEF Strand
    <3>3. taken'[s] = taken[s]
      BY <2>4, <2>9
    <3> QED  BY <1>0, <2>1, <2>9, <3>2, <3>3, SameSound
  <2> QED  BY <2>6, <2>7, <2>8, <2>9 DEF TunnelInv
<1>5. CASE Tun!RecvAnswerFails
  <2>1. /\ at = "answer" /\ at' = "pass" /\ garbled' = TRUE
        /\ buf' = [i \in 1 .. BufSize |-> Tun!Garbage]
        /\ UNCHANGED <<websocket, ready, sent, closed, full, taken, delivered, short>>
    BY <1>5 DEF Tun!RecvAnswerFails, Tun!Goto, Tun!peers
  <2>2. /\ buf' \in Seq(0 .. MaxBytes) /\ \A i \in DOMAIN buf' : buf'[i] = 0
        /\ buf' \in Seq(Nat)
    <3>1. buf' \in [1 .. BufSize -> 0 .. MaxBytes] /\ BufSize \in Nat
      BY <2>1 DEF Tun!Garbage
    <3> QED  BY <2>1, <3>1 DEF Tun!Garbage
  <2>3. Tun!TypeOK'
    BY <1>0, <2>1, <2>2 DEF Tun!TypeOK, Tun!Places, Tun!SendingTo
  <2>4. BufferInPlace'
    BY <1>0, <2>1 DEF BufferInPlace, Handing
  <2>5. delivered["remote"] = <<>> /\ taken["remote"] = 0 /\ websocket /\ buf = <<>>
    BY <1>0, <2>1 DEF BufferInPlace, Handing
  <2>6. StrandSound("remote")'
    <3>1. Tun!InHand("remote")' = buf'
      BY <2>1 DEF Tun!InHand, Tun!SendingTo, Tun!Other
    <3>2. <<>> \o buf' = buf'
      BY <2>2
    <3>3. Strand("remote")' = buf'
      BY <2>1, <2>5, <3>1, <3>2, Zenon DEF Strand
    <3>4. "remote" \in Tun!Sides
      BY DEF Tun!Sides
    <3> QED  BY <1>0, <2>1, <2>2, <2>5, <3>3, <3>4 DEF StrandSound, Rising, Tun!Garbage
  <2>7. ASSUME NEW s \in Tun!Sides, s # "remote" PROVE StrandSound(s)'
    <3>1. Tun!InHand(s) = <<>> /\ Tun!InHand(s)' = <<>>
      BY <2>1, <2>5, <2>7 DEF Tun!InHand, Tun!SendingTo, Tun!Sides, Tun!Other
    <3>2. Strand(s)' = Strand(s)
      BY <2>1, <3>1 DEF Strand
    <3> QED  BY <1>0, <2>1, <2>7, <3>2, SameSound
  <2> QED  BY <2>3, <2>4, <2>6, <2>7 DEF TunnelInv
<1>6. "remote" \in Tun!Sides
  BY DEF Tun!Sides
<1>7. CASE Tun!Step
  BY <1>1, <1>3, <1>4, <1>6, <1>7 DEF Tun!Step
<1>8. CASE UNCHANGED tunnelVars
  BY <1>2, <1>6, <1>8
<1> QED  BY <1>2, <1>5, <1>7, <1>8 DEF Tun!Next

\* Whatever select(), recv() and send() return and whoever closes, stalls or
\* resets when, a side is given each byte of the other once and in its order, up
\* to where a send() leaves some, and none that nobody sent unless the first
\* recv() of a WebSocket fails, and then before all others
\* (httpserver.cpp:1289-1442).
THEOREM TunnelKeepsOrder == ServicesSpec => []InOrder
<1>0. Tun!TunnelAssumption
  BY ServicesAssumption
<1>1. ServicesInit => TunnelInv
  <2> SUFFICES ASSUME Tun!Init PROVE TunnelInv
    BY DEF ServicesInit
  <2>1. Tun!TypeOK /\ BufferInPlace
    <3>1. /\ websocket \in BOOLEAN /\ garbled = FALSE /\ at = "connect" /\ buf = <<>>
          /\ ready = {} /\ closed = {} /\ short = {} /\ full \subseteq Tun!Sides
          /\ sent = [s \in Tun!Sides |-> 0] /\ taken = [s \in Tun!Sides |-> 0]
          /\ delivered = [s \in Tun!Sides |-> <<>>]
      BY DEF Tun!Init, Tun!Sides
    <3>2. 0 \in 0 .. MaxBytes /\ <<>> \in Seq(0 .. MaxBytes)
      BY <1>0 DEF Tun!TunnelAssumption
    <3>3. Tun!TypeOK
      BY <3>1, <3>2 DEF Tun!TypeOK, Tun!Places
    <3>4. BufferInPlace
      BY <3>1 DEF BufferInPlace, Tun!Sides
    <3> QED  BY <3>3, <3>4
  <2>2. ASSUME NEW s \in Tun!Sides PROVE StrandSound(s)
    <3>1. taken[s] = 0 /\ sent[s] = 0 /\ delivered[s] = <<>> /\ Tun!InHand(s) = <<>>
      BY <2>2 DEF Tun!Init, Tun!InHand
    <3>2. Strand(s) = <<>>
      BY <3>1 DEF Strand
    <3> QED  BY <3>1, <3>2 DEF StrandSound, Rising
  <2> QED  BY <2>1, <2>2 DEF TunnelInv
<1>2. TunnelInv /\ [ServicesNext]_allVars => TunnelInv'
  BY <1>0, StepOfParts, TunnelMoves
<1>3. TunnelInv => InOrder
  <2> SUFFICES ASSUME TunnelInv, NEW s \in Tun!Sides
               PROVE  /\ s \notin short /\ ~(s = "remote" /\ garbled)
                            => delivered[s] \o Tun!InHand(s) = [i \in 1 .. taken[s] |-> i]
                      /\ Rising(delivered[s])
                      /\ \A i \in DOMAIN delivered[s] :
                            /\ delivered[s][i] <= sent[s]
                            /\ delivered[s][i] = Tun!Garbage => s = "remote" /\ websocket /\ garbled
    BY DEF InOrder, Tun!InOrder, Rising
  <2>1. StrandSound(s) /\ Tun!TypeOK
    BY DEF TunnelInv
  <2>2. /\ delivered[s] \in Seq(Nat) /\ Tun!InHand(s) \in Seq(Nat)
        /\ taken[s] \in Nat /\ sent[s] \in Nat
    <3>1. /\ delivered[s] \in Seq(0 .. MaxBytes) /\ buf \in Seq(0 .. MaxBytes)
          /\ taken[s] \in 0 .. MaxBytes /\ sent[s] \in 0 .. MaxBytes
      BY <2>1 DEF Tun!TypeOK
    <3>2. delivered[s] \in Seq(Nat) /\ buf \in Seq(Nat) /\ <<>> \in Seq(Nat)
      BY <1>0, <3>1 DEF Tun!TunnelAssumption
    <3>3. Tun!InHand(s) \in Seq(Nat)
      BY <3>2, Zenon DEF Tun!InHand
    <3> QED  BY <3>1, <3>2, <3>3
  <2>3. \A i \in DOMAIN delivered[s] : i \in DOMAIN Strand(s) /\ Strand(s)[i] = delivered[s][i]
    BY <2>2 DEF Strand
  <2>4. \A i \in DOMAIN delivered[s] : delivered[s][i] \in Nat
    BY <2>2
  <2>5. s \notin short /\ ~(s = "remote" /\ garbled)
          => delivered[s] \o Tun!InHand(s) = [i \in 1 .. taken[s] |-> i]
    BY <2>1, Zenon DEF StrandSound, Strand
  <2>6. Rising(delivered[s])
    BY <2>1, <2>3 DEF StrandSound, Rising
  <2>7. ASSUME NEW i \in DOMAIN delivered[s]
        PROVE  /\ delivered[s][i] <= sent[s]
               /\ delivered[s][i] = Tun!Garbage => s = "remote" /\ websocket /\ garbled
    <3>1. Strand(s)[i] = delivered[s][i] /\ Strand(s)[i] <= taken[s] /\ taken[s] <= sent[s]
      BY <2>1, <2>3 DEF StrandSound
    <3>2. delivered[s][i] = Tun!Garbage => s = "remote" /\ websocket /\ garbled
      BY <2>1, <2>3 DEF StrandSound
    <3> QED  BY <2>2, <2>4, <3>1, <3>2
  <2> QED  BY <2>5, <2>6, <2>7
<1> QED  BY <1>1, <1>2, <1>3, PTL DEF ServicesSpec

-----------------------------------------------------------------------------
(* A byte array and the sequence it stands for *)

\* What is in a page.
Cells == Bytes \cup {NoByte}

\* As long as the array has not strayed, m_curr is the page of the position, and
\* the position is in the content and the content in the pages.
OnPage ==
    /\ m_curr = m_position \div m_baseSize
    /\ m_position <= m_size /\ m_size <= Len(memory)

ArrayInv == Array!TypeOK /\ Len(memory) >= m_baseSize /\ (strayed \/ OnPage)

\* mem has the pages of memory, and perhaps more.
Extends(mem) ==
    /\ mem \in Seq(Cells) /\ Len(mem) >= Len(memory)
    /\ \A i \in 1 .. Len(memory) : mem[i] = memory[i]

LEMMA BaseSize == m_baseSize \in Nat \ {0}
  BY ServicesAssumption DEF Array!ByteArrayAssumption

LEMMA DivMod ==
    ASSUME NEW n \in Nat
    PROVE  /\ n \div m_baseSize \in Nat /\ n % m_baseSize \in Nat
           /\ (n \div m_baseSize) * m_baseSize + (n % m_baseSize) = n
BY BaseSize

\* New pages.
LEMMA BlankPages ==
    ASSUME NEW k \in Nat
    PROVE  Array!Blank(k) \in Seq(Cells) /\ Len(Array!Blank(k)) = k * m_baseSize
<1>1. k * m_baseSize \in Nat
  BY BaseSize
<1>2. Array!Blank(k) \in [1 .. k * m_baseSize -> Cells]
  BY DEF Array!Blank, Cells
<1> QED  BY <1>1, <1>2

LEMMA MorePages ==
    ASSUME memory \in Seq(Cells), NEW mem, Extends(mem), NEW k \in Nat
    PROVE  Extends(mem \o Array!Blank(k)) /\ Len(mem \o Array!Blank(k)) >= Len(mem)
<1>1. /\ mem \in Seq(Cells) /\ Len(mem) >= Len(memory)
      /\ \A i \in 1 .. Len(memory) : mem[i] = memory[i]
      /\ Len(memory) \in Nat /\ Len(mem) \in Nat
  BY DEF Extends
<1>2. Array!Blank(k) \in Seq(Cells) /\ Len(Array!Blank(k)) \in Nat
  BY BlankPages
<1>3. /\ mem \o Array!Blank(k) \in Seq(Cells)
      /\ Len(mem \o Array!Blank(k)) = Len(mem) + Len(Array!Blank(k))
      /\ \A i \in 1 .. Len(mem) : (mem \o Array!Blank(k))[i] = mem[i]
  BY <1>1, <1>2
<1>4. \A i \in 1 .. Len(memory) : (mem \o Array!Blank(k))[i] = memory[i]
  BY <1>1, <1>3
<1> QED  BY <1>1, <1>2, <1>3, <1>4 DEF Extends

\* The pages there are after addCapacity and after getWriteBuffers.
LEMMA RoomExtends ==
    ASSUME Array!TypeOK, NEW n \in Nat
    PROVE  Extends(Array!addCapacity(n)) /\ Extends(Array!Room(n))
<1>1. /\ memory \in Seq(Cells) /\ Len(memory) \in Nat /\ m_size \in Nat /\ m_curr \in Nat
      /\ m_position \in Nat
  BY DEF Array!TypeOK, Cells
<1>2. Extends(memory)
  BY <1>1 DEF Extends
<1>3. ASSUME NEW d \in Int, d > 0 PROVE (d + m_baseSize - 1) \div m_baseSize \in Nat
  BY <1>3, BaseSize
<1>4. Extends(Array!addCapacity(n))
  <2>1. Array!getCapacity \in Int
    BY <1>1 DEF Array!getCapacity, Array!m_capacity
  <2>2. CASE n <= Array!getCapacity
    BY <1>2, <2>2 DEF Array!addCapacity
  <2>3. CASE ~(n <= Array!getCapacity)
    <3>1. n - Array!getCapacity \in Int /\ n - Array!getCapacity > 0
      BY <2>1, <2>3
    <3>2. (n - Array!getCapacity + m_baseSize - 1) \div m_baseSize \in Nat
      BY <1>3, <3>1
    <3> QED  BY <1>1, <1>2, <2>3, <3>2, MorePages DEF Array!addCapacity
  <2> QED  BY <2>2, <2>3
<1>5. Extends(Array!Room(n))
  <2> DEFINE mem == Array!addCapacity(n)
             more == Array!Start + n - Len(mem)
  <2>1. Array!Start \in Nat
    <3>1. m_curr * m_baseSize \in Nat
      BY <1>1, BaseSize
    <3>2. m_position % m_baseSize \in Nat
      BY <1>1, DivMod
    <3> QED  BY <3>1, <3>2 DEF Array!Start
  <2>2. Len(mem) \in Nat
    BY <1>4 DEF Extends
  <2>3. more \in Int
    BY <2>1, <2>2
  <2>4. CASE more > 0
    <3>1. (more + m_baseSize - 1) \div m_baseSize \in Nat
      BY <1>3, <2>3, <2>4
    <3>2. Array!Room(n) = mem \o Array!Blank((more + m_baseSize - 1) \div m_baseSize)
      BY <2>4 DEF Array!Room
    <3> QED  BY <1>1, <1>4, <3>1, <3>2, MorePages
  <2>5. CASE ~(more > 0)
    <3>1. Array!Room(n) = mem
      BY <2>5 DEF Array!Room
    <3> QED  BY <1>4, <3>1
  <2> QED  BY <2>4, <2>5
<1> QED  BY <1>4, <1>5

\* What one call brings.
LEMMA InputsAreBytes ==
    ASSUME NEW data \in Array!Inputs
    PROVE  data \in Seq(Bytes) /\ Len(data) \in 1 .. MaxWrite /\ Len(data) \in Nat \ {0}
           /\ DOMAIN data = 1 .. Len(data)
BY DEF Array!Inputs

\* Bytes that are put at the position are there, and the others where they were.
LEMMA PutLemma ==
    ASSUME NEW mem \in Seq(Cells), NEW data \in Seq(Bytes), Array!Start = m_position,
           m_position \in Nat
    PROVE  /\ Array!Put(mem, data) \in Seq(Cells)
           /\ Len(Array!Put(mem, data)) = Len(mem)
           /\ \A i \in 1 .. Len(mem) :
                Array!Put(mem, data)[i] =
                    IF i \in m_position + 1 .. m_position + Len(data)
                    THEN data[i - m_position] ELSE mem[i]
<1>1. DOMAIN mem = 1 .. Len(mem) /\ Len(mem) \in Nat /\ Len(data) \in Nat
  OBVIOUS
<1>2. ASSUME NEW i \in 1 .. Len(mem)
      PROVE  (IF i \in m_position + 1 .. m_position + Len(data)
              THEN data[i - m_position] ELSE mem[i]) \in Cells
  <2>1. CASE i \in m_position + 1 .. m_position + Len(data)
    <3>1. i - m_position \in 1 .. Len(data)
      BY <1>1, <2>1
    <3>2. data[i - m_position] \in Bytes
      BY <3>1
    <3> QED  BY <2>1, <3>2 DEF Cells
  <2>2. CASE i \notin m_position + 1 .. m_position + Len(data)
    BY <2>2
  <2> QED  BY <2>1, <2>2
<1>3. Array!Put(mem, data) =
        [i \in 1 .. Len(mem) |-> IF i \in m_position + 1 .. m_position + Len(data)
                                 THEN data[i - m_position] ELSE mem[i]]
  BY <1>1 DEF Array!Put
<1>4. Array!Put(mem, data) \in [1 .. Len(mem) -> Cells]
  BY <1>2, <1>3
<1> QED  BY <1>1, <1>3, <1>4

\* A part of a sequence, byte by byte.
LEMMA PartLemma ==
    ASSUME NEW q \in Seq(Cells), NEW k \in Nat, NEW n \in Nat, k + n <= Len(q)
    PROVE  /\ SubSeq(q, k + 1, k + n) \in Seq(Cells) /\ Len(SubSeq(q, k + 1, k + n)) = n
           /\ \A i \in 1 .. n : SubSeq(q, k + 1, k + n)[i] = q[k + i]
<1>1. \A i \in k + 1 .. k + n : q[i] \in Cells
  OBVIOUS
<1>2. /\ SubSeq(q, k + 1, k + n) \in Seq(Cells)
      /\ Len(SubSeq(q, k + 1, k + n)) = IF k + 1 <= k + n THEN (k + n) - (k + 1) + 1 ELSE 0
      /\ \A i \in 1 .. (k + n) - (k + 1) + 1 :
            SubSeq(q, k + 1, k + n)[i] = q[(k + 1) + i - 1]
  BY <1>1, SubSeqProperties
<1>3. /\ (k + n) - (k + 1) + 1 = n
      /\ \A i \in 1 .. n : (k + 1) + i - 1 = k + i
  OBVIOUS
<1> QED  BY <1>2, <1>3

\* On its page, a byte array finds the position.
LEMMA StartLemma ==
    ASSUME Array!TypeOK, OnPage
    PROVE  Array!Start = m_position
<1>1. m_position \in Nat
  BY DEF Array!TypeOK
<1> QED  BY <1>1, DivMod DEF Array!Start, OnPage

\* The content and what is read of it.
LEMMA ContentLemma ==
    ASSUME Array!TypeOK, OnPage
    PROVE  /\ Array!Content \in Seq(Cells) /\ Len(Array!Content) = m_size
           /\ \A i \in 1 .. m_size : Array!Content[i] = memory[i]
           /\ \A k, n \in Nat : k + n <= m_size =>
                SubSeq(memory, k + 1, k + n) = SubSeq(Array!Content, k + 1, k + n)
<1>1. memory \in Seq(Cells) /\ m_size \in Nat /\ m_size <= Len(memory)
  BY DEF Array!TypeOK, OnPage, Cells
<1>2. /\ Array!Content \in Seq(Cells) /\ Len(Array!Content) = m_size
      /\ \A i \in 1 .. m_size : Array!Content[i] = memory[i]
  <2>1. Array!Content = SubSeq(memory, 0 + 1, 0 + m_size)
    BY <1>1 DEF Array!Content
  <2>2. \A i \in 1 .. m_size : 0 + i = i
    BY <1>1
  <2> QED  BY <1>1, <2>1, <2>2, PartLemma
<1>3. ASSUME NEW k \in Nat, NEW n \in Nat, k + n <= m_size
      PROVE  SubSeq(memory, k + 1, k + n) = SubSeq(Array!Content, k + 1, k + n)
  <2> DEFINE p == SubSeq(memory, k + 1, k + n)
             q == SubSeq(Array!Content, k + 1, k + n)
  <2>1. k + n <= Len(memory) /\ k + n <= Len(Array!Content)
    BY <1>1, <1>2, <1>3
  <2>2. p \in Seq(Cells) /\ Len(p) = n /\ \A i \in 1 .. n : p[i] = memory[k + i]
    BY <1>1, <2>1, PartLemma
  <2>3. q \in Seq(Cells) /\ Len(q) = n /\ \A i \in 1 .. n : q[i] = Array!Content[k + i]
    BY <1>2, <2>1, PartLemma
  <2>4. \A i \in 1 .. n : k + i \in 1 .. m_size
    BY <1>1, <1>3
  <2> HIDE DEF p, q
  <2>5. \A i \in 1 .. n : p[i] = q[i]
    BY <1>2, <2>2, <2>3, <2>4
  <2>6. p = q
    BY <2>2, <2>3, <2>5, SeqEqual
  <2> QED  BY <2>6 DEF p, q
<1> QED  BY <1>2, <1>3

\* What is put at the position of the pages is written over the content, and the
\* content stays within the pages.
LEMMA WriteLemma ==
    ASSUME Array!TypeOK, OnPage, NEW mem, Extends(mem), NEW data \in Array!Inputs,
           m_position + Len(data) <= Len(mem),
           memory' = Array!Put(mem, data),
           m_size' = IF m_position + Len(data) > m_size THEN m_position + Len(data) ELSE m_size
    PROVE  /\ memory' \in Seq(Cells) /\ Len(memory') = Len(mem)
           /\ m_size' \in Nat /\ m_size' <= Len(memory')
           /\ Array!Content' = Array!S!Overwrite(data)
<1> DEFINE n == Len(data)
<1>1. /\ memory \in Seq(Cells) /\ Len(memory) \in Nat /\ m_size \in Nat
      /\ m_size <= Len(memory) /\ m_position \in Nat /\ m_position <= m_size
  BY DEF Array!TypeOK, OnPage, Cells
<1>2. /\ mem \in Seq(Cells) /\ Len(mem) \in Nat /\ Len(mem) >= Len(memory)
      /\ \A i \in 1 .. Len(memory) : mem[i] = memory[i]
  BY DEF Extends
<1>3. data \in Seq(Bytes) /\ n \in Nat
  BY InputsAreBytes
<1>4. /\ memory' \in Seq(Cells) /\ Len(memory') = Len(mem)
      /\ \A i \in 1 .. Len(mem) :
            memory'[i] = IF i \in m_position + 1 .. m_position + n
                         THEN data[i - m_position] ELSE mem[i]
  BY <1>1, <1>2, <1>3, StartLemma, PutLemma
<1>5. m_size' \in Nat /\ m_size' <= Len(memory')
  BY <1>1, <1>2, <1>3, <1>4
<1>6. /\ Array!Content' \in Seq(Cells) /\ Len(Array!Content') = m_size'
      /\ \A i \in 1 .. m_size' : Array!Content'[i] = memory'[i]
  <2>1. Array!Content' = SubSeq(memory', 0 + 1, 0 + m_size')
    BY <1>5 DEF Array!Content
  <2>2. \A i \in 1 .. m_size' : 0 + i = i
    BY <1>5
  <2> QED  BY <1>4, <1>5, <2>1, <2>2, PartLemma
<1>7. /\ Len(Array!Content) = m_size
      /\ \A i \in 1 .. m_size : Array!Content[i] = memory[i]
  BY ContentLemma
<1>8. Array!S!Overwrite(data) =
        [i \in 1 .. m_size' |-> IF i \in m_position + 1 .. m_position + n
                                THEN data[i - m_position] ELSE Array!Content[i]]
  BY <1>7 DEF Array!S!Overwrite
<1>9. \A i \in 1 .. m_size' :
        Array!Content'[i] = IF i \in m_position + 1 .. m_position + n
                            THEN data[i - m_position] ELSE Array!Content[i]
  <2> SUFFICES ASSUME NEW i \in 1 .. m_size'
               PROVE  Array!Content'[i] = IF i \in m_position + 1 .. m_position + n
                                          THEN data[i - m_position] ELSE Array!Content[i]
    OBVIOUS
  <2>1. i \in 1 .. Len(mem)
    BY <1>4, <1>5, <1>2
  <2>2. Array!Content'[i] = IF i \in m_position + 1 .. m_position + n
                            THEN data[i - m_position] ELSE mem[i]
    BY <1>4, <1>6, <2>1
  <2>3. CASE i \in m_position + 1 .. m_position + n
    BY <2>2, <2>3
  <2>4. CASE i \notin m_position + 1 .. m_position + n
    <3>1. i \in 1 .. m_size
      BY <1>1, <1>3, <2>4
    <3>2. mem[i] = Array!Content[i]
      BY <1>1, <1>2, <1>7, <3>1
    <3> QED  BY <2>2, <2>4, <3>2
  <2> QED  BY <2>3, <2>4
<1>10. Array!Content' = [i \in 1 .. m_size' |-> Array!Content'[i]]
  BY <1>5, <1>6
<1> QED  BY <1>4, <1>5, <1>8, <1>9, <1>10

\* setPosition keeps to numbers and pages.
LEMMA MoveLemma ==
    ASSUME NEW mem \in Seq(Cells), NEW size \in Nat, NEW v \in Nat,
           Len(mem) >= m_baseSize, Array!MoveTo(mem, size, v)
    PROVE  /\ memory' \in Seq(Cells) /\ Len(memory') >= m_baseSize
           /\ m_curr' \in Nat /\ m_position' = v /\ m_size' = size
           /\ ~Array!TooFar(mem, size, v) => memory' = mem /\ m_curr' = v \div m_baseSize
<1>1. v \div m_baseSize \in Nat
  BY DivMod
<1>2. m_position' = v /\ m_size' = size
  BY DEF Array!MoveTo
<1>3. CASE Array!TooFar(mem, size, v)
  <2>1. memory' = mem \o Array!Blank(1) /\ m_curr' = v \div m_baseSize + 1
    BY <1>3 DEF Array!MoveTo
  <2>2. Array!Blank(1) \in Seq(Cells) /\ Len(Array!Blank(1)) \in Nat
    BY BlankPages
  <2>3. memory' \in Seq(Cells) /\ Len(memory') = Len(mem) + Len(Array!Blank(1))
    BY <2>1, <2>2
  <2> QED  BY <1>1, <1>2, <1>3, <2>1, <2>2, <2>3, BaseSize
<1>4. CASE ~Array!TooFar(mem, size, v)
  <2>1. memory' = mem /\ m_curr' = v \div m_baseSize
    BY <1>4 DEF Array!MoveTo
  <2> QED  BY <1>1, <1>2, <2>1
<1> QED  BY <1>3, <1>4

\* A step of a byte array that has not strayed.
ArrayMoves == ArrayInv' /\ (strayed' \/ [Array!S!Next]_<<Array!Content, m_position, out>>)

LEMMA WriteMoves ==
    ASSUME Array!TypeOK, OnPage, Len(memory) >= m_baseSize, NEW data \in Array!Inputs,
           Array!Write(data)
    PROVE  ArrayMoves
<1> DEFINE n == Len(data)
<1>1. /\ memory \in Seq(Cells) /\ Len(memory) \in Nat /\ m_position \in Nat /\ m_size \in Nat
      /\ out \in Seq(Cells) /\ strayed \in BOOLEAN
  BY DEF Array!TypeOK, Cells
<1>2. n \in Nat /\ data \in Seq(Bytes)
  BY InputsAreBytes
<1>3. Extends(Array!addCapacity(n)) /\ Array!Start = m_position
  BY <1>2, RoomExtends, StartLemma
<1>4. /\ m_position + n <= Len(Array!addCapacity(n))
      /\ memory' = Array!Put(Array!addCapacity(n), data)
      /\ m_curr' = (m_position + n) \div m_baseSize
      /\ m_position' = m_position + n
      /\ m_size' = IF m_position + n > m_size THEN m_position + n ELSE m_size
      /\ UNCHANGED <<out, strayed>>
  BY <1>3 DEF Array!Write, Array!Fits
<1>5. /\ memory' \in Seq(Cells) /\ Len(memory') = Len(Array!addCapacity(n))
      /\ m_size' \in Nat /\ m_size' <= Len(memory')
      /\ Array!Content' = Array!S!Overwrite(data)
  BY <1>3, <1>4, WriteLemma
<1>6. Len(memory') >= m_baseSize
  BY <1>1, <1>3, <1>5, BaseSize DEF Extends
<1>7. m_curr' \in Nat /\ m_position' \in Nat /\ m_position' <= m_size'
  <2>1. m_position + n \in Nat /\ m_position + n <= m_size'
    BY <1>1, <1>2, <1>4
  <2>2. (m_position + n) \div m_baseSize \in Nat
    BY <2>1, DivMod
  <2> QED  BY <1>4, <2>1, <2>2
<1>8. Array!TypeOK' /\ OnPage'
  BY <1>1, <1>4, <1>5, <1>7 DEF Array!TypeOK, OnPage, Cells
<1>9. data \in Array!S!Inputs
  BY DEF Array!Inputs, Array!S!Inputs
<1>10. Array!S!Write
  BY <1>4, <1>5, <1>9 DEF Array!S!Write
<1> QED  BY <1>6, <1>8, <1>10 DEF ArrayMoves, ArrayInv, Array!S!Next

\* A read: the bytes at the position, and the position after them.
LEMMA ReadsContent ==
    ASSUME Array!TypeOK, OnPage, NEW n \in Nat \ {0}, n <= m_size - m_position,
           out' = SubSeq(memory, Array!Start + 1, Array!Start + n)
    PROVE  /\ out' \in Seq(Cells)
           /\ out' = SubSeq(Array!Content, m_position + 1, m_position + n)
           /\ n \in 1 .. Len(Array!Content) - m_position
           /\ m_position + n <= m_size
<1>1. /\ memory \in Seq(Cells) /\ Len(memory) \in Nat /\ m_position \in Nat /\ m_size \in Nat
      /\ m_size <= Len(memory)
  BY DEF Array!TypeOK, OnPage, Cells
<1>2. Array!Start = m_position /\ Len(Array!Content) = m_size
  BY StartLemma, ContentLemma
<1>3. n \in 1 .. Len(Array!Content) - m_position /\ m_position + n <= m_size
  BY <1>1, <1>2
<1>4. out' \in Seq(Cells)
  BY <1>1, <1>2, <1>3, PartLemma
<1>5. out' = SubSeq(Array!Content, m_position + 1, m_position + n)
  BY <1>1, <1>2, <1>3, ContentLemma
<1> QED  BY <1>3, <1>4, <1>5

LEMMA ReadMoves ==
    ASSUME Array!TypeOK, OnPage, Len(memory) >= m_baseSize, NEW n \in 1 .. MaxWrite,
           Array!Read(n) \/ Array!Send(n)
    PROVE  ArrayMoves
<1>1. /\ memory \in Seq(Cells) /\ Len(memory) \in Nat /\ m_position \in Nat /\ m_size \in Nat
      /\ strayed \in BOOLEAN
  BY DEF Array!TypeOK, Cells
<1>2. n \in Nat \ {0}
  OBVIOUS
<1>3. /\ n <= m_size - m_position
      /\ out' = SubSeq(memory, Array!Start + 1, Array!Start + n)
  BY DEF Array!Read, Array!Send
<1>4. /\ out' \in Seq(Cells)
      /\ out' = SubSeq(Array!Content, m_position + 1, m_position + n)
      /\ n \in 1 .. Len(Array!Content) - m_position
      /\ m_position + n <= m_size
  BY <1>2, <1>3, ReadsContent
<1>5. CASE Array!Read(n)
  <2>1. /\ m_curr' = (m_position + n) \div m_baseSize /\ m_position' = m_position + n
        /\ UNCHANGED <<memory, m_size, strayed>>
    BY <1>5, StartLemma DEF Array!Read
  <2>2. m_curr' \in Nat /\ m_position' \in Nat
    BY <1>1, <1>2, <2>1, DivMod
  <2>3. Array!TypeOK' /\ OnPage'
    BY <1>1, <1>4, <2>1, <2>2 DEF Array!TypeOK, OnPage, Cells
  <2>4. Array!Content' = Array!Content
    BY <2>1 DEF Array!Content
  <2>5. Array!S!Read
    BY <1>4, <2>1, <2>4 DEF Array!S!Read
  <2> QED  BY <2>1, <2>3, <2>5 DEF ArrayMoves, ArrayInv, Array!S!Next
<1>6. CASE Array!Send(n)
  <2>1. /\ Array!MoveTo(memory, m_size, m_position + n)
        /\ strayed' = (strayed \/ Array!TooFar(memory, m_size, m_position + n))
    BY <1>6 DEF Array!Send
  <2>2. m_position + n \in Nat
    BY <1>1, <1>2
  <2>3. /\ memory' \in Seq(Cells) /\ Len(memory') >= m_baseSize
        /\ m_curr' \in Nat /\ m_position' = m_position + n /\ m_size' = m_size
        /\ ~Array!TooFar(memory, m_size, m_position + n) =>
              memory' = memory /\ m_curr' = (m_position + n) \div m_baseSize
    BY <1>1, <2>1, <2>2, MoveLemma
  <2>4. strayed' \in BOOLEAN /\ (~strayed' => ~Array!TooFar(memory, m_size, m_position + n))
    BY <2>1, Zenon DEF Array!TooFar
  <2>5. Array!TypeOK'
    BY <1>1, <1>4, <2>2, <2>3, <2>4 DEF Array!TypeOK, Cells
  <2>6. CASE strayed'
    BY <2>3, <2>5, <2>6 DEF ArrayMoves, ArrayInv
  <2>7. CASE ~strayed'
    <3>1. OnPage'
      BY <1>4, <2>3, <2>4, <2>7 DEF OnPage
    <3>2. Array!Content' = Array!Content
      BY <2>3, <2>4, <2>7 DEF Array!Content
    <3>3. Array!S!Read
      BY <1>4, <2>3, <3>2 DEF Array!S!Read
    <3> QED  BY <2>3, <2>5, <3>1, <3>3 DEF ArrayMoves, ArrayInv, Array!S!Next
  <2> QED  BY <2>6, <2>7
<1> QED  BY <1>5, <1>6

LEMMA ReadAtMoves ==
    ASSUME Array!TypeOK, OnPage, Len(memory) >= m_baseSize,
           NEW v \in 0 .. m_size, NEW n \in 1 .. MaxWrite, Array!ReadAt(v, n)
    PROVE  ArrayMoves
<1>1. /\ memory \in Seq(Cells) /\ Len(memory) \in Nat /\ m_size \in Nat
      /\ m_size <= Len(memory)
  BY DEF Array!TypeOK, OnPage, Cells
<1>2. v \in Nat /\ n \in Nat
  OBVIOUS
<1>3. /\ v + n <= m_size /\ out' = SubSeq(memory, v + 1, v + n)
      /\ UNCHANGED <<memory, m_curr, m_position, m_size, strayed>>
  BY DEF Array!ReadAt
<1>4. v + n <= Len(memory)
  BY <1>1, <1>2, <1>3
<1>5. out' \in Seq(Cells)
  BY <1>1, <1>2, <1>3, <1>4, PartLemma
<1>6. out' = SubSeq(Array!Content, v + 1, v + n) /\ Len(Array!Content) = m_size
  BY <1>2, <1>3, ContentLemma
<1>7. v \in 0 .. Len(Array!Content) /\ n \in 1 .. Len(Array!Content) - v
  BY <1>1, <1>2, <1>3, <1>6
<1>8. Array!Content' = Array!Content
  BY <1>3 DEF Array!Content
<1>9. Array!S!Peek
  BY <1>3, <1>6, <1>7, <1>8 DEF Array!S!Peek
<1>10. Array!TypeOK' /\ OnPage'
  BY <1>3, <1>5 DEF Array!TypeOK, OnPage, Cells
<1> QED  BY <1>3, <1>9, <1>10 DEF ArrayMoves, ArrayInv, Array!S!Next

LEMMA SetPositionMoves ==
    ASSUME Array!TypeOK, OnPage, Len(memory) >= m_baseSize,
           NEW v \in 0 .. m_size, Array!SetPosition(v)
    PROVE  ArrayMoves
<1>1. /\ memory \in Seq(Cells) /\ m_size \in Nat /\ out \in Seq(Cells) /\ strayed \in BOOLEAN
      /\ v \in Nat
  BY DEF Array!TypeOK, Cells
<1>2. /\ Array!MoveTo(memory, m_size, v) /\ out' = out
      /\ strayed' = (strayed \/ Array!TooFar(memory, m_size, v))
  BY DEF Array!SetPosition
<1>3. /\ memory' \in Seq(Cells) /\ Len(memory') >= m_baseSize
      /\ m_curr' \in Nat /\ m_position' = v /\ m_size' = m_size
      /\ ~Array!TooFar(memory, m_size, v) => memory' = memory /\ m_curr' = v \div m_baseSize
  BY <1>1, <1>2, MoveLemma
<1>4. strayed' \in BOOLEAN /\ (~strayed' => ~Array!TooFar(memory, m_size, v))
  BY <1>2, Zenon DEF Array!TooFar
<1>5. Array!TypeOK'
  BY <1>1, <1>2, <1>3, <1>4 DEF Array!TypeOK, Cells
<1>6. CASE strayed'
  BY <1>3, <1>5, <1>6 DEF ArrayMoves, ArrayInv
<1>7. CASE ~strayed'
  <2>1. OnPage'
    BY <1>3, <1>4, <1>7 DEF OnPage
  <2>2. Array!Content' = Array!Content /\ Len(Array!Content) = m_size
    BY <1>3, <1>4, <1>7, ContentLemma DEF Array!Content
  <2>3. Array!S!SetPosition
    BY <1>2, <1>3, <2>2 DEF Array!S!SetPosition
  <2> QED  BY <1>3, <1>5, <2>1, <2>3 DEF ArrayMoves, ArrayInv, Array!S!Next
<1> QED  BY <1>6, <1>7

\* Clear, from wherever the array has strayed to.
LEMMA ClearMoves == ASSUME ArrayInv, Array!Clear PROVE ArrayMoves
<1>1. /\ memory \in Seq(Cells) /\ Len(memory) \in Nat /\ out \in Seq(Cells)
      /\ Len(memory) >= m_baseSize
  BY DEF ArrayInv, Array!TypeOK, Cells
<1>2. /\ memory' = SubSeq(memory, 1, m_baseSize)
      /\ m_curr' = 0 /\ m_position' = 0 /\ m_size' = 0 /\ strayed' = FALSE /\ out' = out
  BY DEF Array!Clear
<1>3. memory' \in Seq(Cells) /\ Len(memory') = m_baseSize
  <2>1. memory' = SubSeq(memory, 0 + 1, 0 + m_baseSize)
    BY <1>2, BaseSize
  <2>2. 0 + m_baseSize <= Len(memory)
    BY <1>1, BaseSize
  <2> QED  BY <1>1, <2>1, <2>2, BaseSize, PartLemma
<1>4. 0 \div m_baseSize = 0
  BY BaseSize
<1>5. Array!TypeOK' /\ OnPage'
  <2>1. Array!TypeOK'
    BY <1>1, <1>2, <1>3 DEF Array!TypeOK, Cells
  <2>2. m_curr' = m_position' \div m_baseSize
    BY <1>2, <1>4, Zenon
  <2>3. m_position' <= m_size' /\ m_size' <= Len(memory')
    BY <1>2, <1>3, BaseSize
  <2> QED  BY <2>1, <2>2, <2>3 DEF OnPage
<1>6. Array!Content' = <<>>
  BY <1>2, SubSeqEmpty DEF Array!Content
<1>7. Array!S!Clear
  BY <1>2, <1>6 DEF Array!S!Clear
<1> QED  BY <1>3, <1>5, <1>7, BaseSize DEF ArrayMoves, ArrayInv, Array!S!Next

LEMMA ReceiveMoves ==
    ASSUME Array!TypeOK, OnPage, Len(memory) >= m_baseSize,
           NEW len \in 1 .. MaxWrite, NEW data \in Array!Inputs, Array!Receive(len, data)
    PROVE  ArrayMoves
<1> DEFINE n == Len(data)
           mem == Array!Room(len)
<1>1. /\ memory \in Seq(Cells) /\ Len(memory) \in Nat /\ m_position \in Nat /\ m_size \in Nat
      /\ out \in Seq(Cells)
  BY DEF Array!TypeOK, Cells
<1>2. n \in Nat \ {0} /\ data \in Seq(Bytes)
  BY InputsAreBytes
<1>3. Extends(mem) /\ Array!Start = m_position
  <2>1. len \in Nat
    OBVIOUS
  <2> QED  BY <2>1, RoomExtends, StartLemma
<1>4. /\ n <= len /\ m_position + len <= Len(mem)
      /\ Array!MoveTo(Array!Put(mem, data), m_size + n, m_position + n)
      /\ strayed' = (strayed \/ m_position # m_size
                        \/ Array!TooFar(mem, m_size + n, m_position + n))
      /\ out' = out
  BY <1>3 DEF Array!Receive, Array!Fits
<1> HIDE DEF n, mem
<1>5. mem \in Seq(Cells) /\ Len(mem) \in Nat /\ Len(mem) >= m_baseSize
  BY <1>1, <1>3, BaseSize DEF Extends
<1>6. Array!Put(mem, data) \in Seq(Cells) /\ Len(Array!Put(mem, data)) = Len(mem)
  BY <1>1, <1>2, <1>3, <1>5, PutLemma
<1>7. /\ memory' \in Seq(Cells) /\ Len(memory') >= m_baseSize
      /\ m_curr' \in Nat /\ m_position' = m_position + n /\ m_size' = m_size + n
      /\ ~Array!TooFar(Array!Put(mem, data), m_size + n, m_position + n) =>
            /\ memory' = Array!Put(mem, data)
            /\ m_curr' = (m_position + n) \div m_baseSize
  <2>1. m_size + n \in Nat /\ m_position + n \in Nat
    BY <1>1, <1>2
  <2>2. Len(Array!Put(mem, data)) >= m_baseSize
    BY <1>5, <1>6
  <2> QED  BY <1>4, <1>6, <2>1, <2>2, MoveLemma
<1>8. /\ strayed' \in BOOLEAN
      /\ ~strayed' => /\ m_position = m_size
                      /\ ~Array!TooFar(Array!Put(mem, data), m_size + n, m_position + n)
  <2>1. Array!TooFar(Array!Put(mem, data), m_size + n, m_position + n)
          <=> Array!TooFar(mem, m_size + n, m_position + n)
    BY <1>6 DEF Array!TooFar
  <2>2. /\ strayed' \in BOOLEAN
        /\ ~strayed' => m_position = m_size /\ ~Array!TooFar(mem, m_size + n, m_position + n)
    BY <1>4, Zenon DEF Array!TooFar
  <2> QED  BY <2>1, <2>2
<1>9. Array!TypeOK'
  BY <1>1, <1>2, <1>4, <1>7, <1>8 DEF Array!TypeOK, Cells
<1>10. CASE strayed'
  BY <1>7, <1>9, <1>10 DEF ArrayMoves, ArrayInv
<1>11. CASE ~strayed'
  <2>1. /\ m_position = m_size /\ memory' = Array!Put(mem, data)
        /\ m_curr' = (m_position + n) \div m_baseSize
        /\ m_size' = IF m_position + n > m_size THEN m_position + n ELSE m_size
        /\ m_position' = m_size'
    BY <1>1, <1>2, <1>7, <1>8, <1>11
  <2>2. m_position + n <= Len(mem)
    BY <1>1, <1>2, <1>4, <1>5
  <2>3. m_size' <= Len(memory') /\ Array!Content' = Array!S!Overwrite(data)
    BY <1>3, <2>1, <2>2, WriteLemma DEF n
  <2>4. OnPage'
    BY <1>1, <1>2, <1>7, <2>1, <2>3 DEF OnPage
  <2>5. data \in Array!S!Inputs
    BY DEF Array!Inputs, Array!S!Inputs
  <2>6. Array!S!Write
    BY <1>4, <1>7, <2>3, <2>5 DEF Array!S!Write, n
  <2> QED  BY <1>7, <1>9, <2>4, <2>6 DEF ArrayMoves, ArrayInv, Array!S!Next
<1> QED  BY <1>10, <1>11

\* What did not come shows nowhere, only the pages for it are there.
LEMMA ReceiveNothingMoves ==
    ASSUME Array!TypeOK, OnPage, Len(memory) >= m_baseSize,
           NEW len \in 1 .. MaxWrite, Array!ReceiveNothing(len)
    PROVE  ArrayMoves
<1>1. /\ memory \in Seq(Cells) /\ Len(memory) \in Nat /\ m_size \in Nat
      /\ m_size <= Len(memory)
  BY DEF Array!TypeOK, OnPage, Cells
<1>2. /\ memory' = Array!Room(len)
      /\ UNCHANGED <<m_curr, m_position, m_size, out, strayed>>
  BY DEF Array!ReceiveNothing
<1>3. Extends(memory')
  <2>1. len \in Nat
    OBVIOUS
  <2> QED  BY <1>2, <2>1, RoomExtends
<1>4. /\ memory' \in Seq(Cells) /\ Len(memory') \in Nat /\ Len(memory') >= Len(memory)
      /\ \A i \in 1 .. Len(memory) : memory'[i] = memory[i]
  BY <1>3 DEF Extends
<1>5. Array!TypeOK' /\ OnPage' /\ Len(memory') >= m_baseSize
  BY <1>1, <1>2, <1>4, BaseSize DEF Array!TypeOK, OnPage, Cells
<1>6. Array!Content' = Array!Content
  <2> DEFINE p == SubSeq(memory, 0 + 1, 0 + m_size)
             q == SubSeq(memory', 0 + 1, 0 + m_size)
  <2>1. 0 + m_size <= Len(memory) /\ 0 + m_size <= Len(memory')
    BY <1>1, <1>4
  <2>2. p \in Seq(Cells) /\ Len(p) = m_size /\ \A i \in 1 .. m_size : p[i] = memory[0 + i]
    BY <1>1, <2>1, PartLemma
  <2>3. q \in Seq(Cells) /\ Len(q) = m_size /\ \A i \in 1 .. m_size : q[i] = memory'[0 + i]
    BY <1>1, <1>4, <2>1, PartLemma
  <2>4. \A i \in 1 .. m_size : 0 + i \in 1 .. Len(memory)
    BY <1>1
  <2>5. Array!Content = p /\ Array!Content' = q
    BY <1>1, <1>2 DEF Array!Content
  <2> HIDE DEF p, q
  <2>6. \A i \in 1 .. Len(q) : q[i] = p[i]
    BY <1>4, <2>2, <2>3, <2>4
  <2>7. q = p
    BY <2>2, <2>3, <2>6, SeqEqual
  <2> QED  BY <2>5, <2>7
<1> QED  BY <1>2, <1>5, <1>6 DEF ArrayMoves, ArrayInv

\* Whatever a byte array does, it stays on its page and the sequence makes the
\* same step, or it strays.
LEMMA NextArray ==
    ASSUME ArrayInv, [Array!Next /\ ~(strayed /\ strayed')]_arrayVars
    PROVE  ArrayInv' /\ [strayed' \/ Array!S!Next]_<<Array!Content, m_position, out>>
<1>1. CASE UNCHANGED arrayVars
  BY <1>1 DEF ArrayInv, Array!TypeOK, OnPage, Array!Content, arrayVars
<1>2. CASE Array!Clear
  BY <1>2, ClearMoves DEF ArrayMoves
<1>3. CASE Array!Next /\ ~Array!Clear /\ ~(strayed /\ strayed')
  <2>1. CASE strayed
    <3>1. strayed' = TRUE
      BY <1>3, <2>1, Zenon DEF Array!Next, Array!Write, Array!Read, Array!Send,
         Array!ReceiveNothing, Array!SetPosition, Array!ReadAt, Array!Receive
    <3> QED  BY <1>3, <2>1, <3>1
  <2>2. CASE ~strayed
    <3>1. Array!TypeOK /\ OnPage /\ Len(memory) >= m_baseSize
      BY <2>2 DEF ArrayInv
    <3>2. ArrayMoves
      BY <1>3, <3>1, WriteMoves, ReadMoves, ReadAtMoves, SetPositionMoves, ReceiveMoves,
         ReceiveNothingMoves DEF Array!Next
    <3> QED  BY <3>2 DEF ArrayMoves
  <2> QED  BY <2>1, <2>2
<1> QED  BY <1>1, <1>2, <1>3

LEMMA InitArray == ASSUME ServicesInit PROVE ArrayInv /\ Array!S!Init
<1>1. /\ memory = Array!Blank(1)
      /\ m_curr = 0 /\ m_position = 0 /\ m_size = 0 /\ out = <<>> /\ strayed = FALSE
  BY DEF ServicesInit, Array!Init
<1>2. memory \in Seq(Cells) /\ Len(memory) = m_baseSize
  <2>1. 1 * m_baseSize = m_baseSize
    BY BaseSize
  <2> QED  BY <1>1, <2>1, BlankPages
<1>3. 0 \div m_baseSize = 0
  BY BaseSize
<1>4. Array!TypeOK /\ OnPage
  <2>1. Array!TypeOK
    <3>1. <<>> \in Seq(Cells) /\ FALSE \in BOOLEAN
      OBVIOUS
    <3>2. out \in Seq(Cells) /\ strayed \in BOOLEAN
      BY <1>1, <3>1, Zenon
    <3>3. m_curr \in Nat /\ m_position \in Nat /\ m_size \in Nat
      BY <1>1
    <3> QED  BY <1>2, <3>2, <3>3 DEF Array!TypeOK, Cells
  <2>2. m_curr = m_position \div m_baseSize
    BY <1>1, <1>3, Zenon
  <2>3. m_position <= m_size /\ m_size <= Len(memory)
    BY <1>1, <1>2, BaseSize
  <2> QED  BY <2>1, <2>2, <2>3 DEF OnPage
<1>5. Array!Content = <<>>
  BY <1>1, SubSeqEmpty DEF Array!Content
<1> QED  BY <1>1, <1>2, <1>4, <1>5, BaseSize DEF ArrayInv, Array!S!Init

\* A byte array is a sequence of bytes with a position, for pages of any size:
\* each call does to the content, the position and what was read what the
\* sequence does, until setPosition has gone a page too far or a stream has
\* received in the middle; after a clear it does so again
\* (bytearray.cpp:395-578, 640-842).
THEOREM ByteArrayIsSequence == ServicesSpec => ImplementsByteSequence
<1>1. ServicesInit => ArrayInv /\ Array!S!Init
  BY InitArray
<1>2. ArrayInv /\ [ServicesNext]_allVars =>
        ArrayInv' /\ [strayed' \/ Array!S!Next]_<<Array!Content, m_position, out>>
  BY StepOfParts, NextArray
<1> QED  BY <1>1, <1>2, PTL DEF ServicesSpec, ImplementsByteSequence,
            Array!ImplementsByteSequence
=============================================================================
