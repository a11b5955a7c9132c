----------------------- MODULE HttpConnectionPool_proofs -----------------------
(* What is proved about the connection pool for every value of its constants. *)
EXTENDS HttpConnectionPool, TLAPS, FiniteSetTheorems, SequenceTheorems

\* Who has a connection in hand at which point of doRequest and ReleasePtr, that
\* it is free once ReleasePtr has freed it, and that there is a request.
Holding == {"send", "recv", "release", "drain", "push"}
Placed ==
    /\ \A c \in Clients : pc[c] \in Holding => held[c] # NoConn
    /\ \A c \in Clients : pc[c] \in {"idle", "pop", "connect"} => held[c] = NoConn
    /\ \A c \in Clients : pc[c] # "discard" => popped[c] = {}
    /\ \A c \in Clients : pc[c] \in {"drain", "push"} => ~isBusy[held[c]]
    /\ \A c \in Clients : pc[c] # "idle" => url[c] # NoUrl

\* OneHolder, place by place.
Apart ==
    /\ \A i, j \in 1 .. Len(m_pool) : m_pool[i] = m_pool[j] => i = j
    /\ \A i \in 1 .. Len(m_pool), c \in Clients :
        m_pool[i] # held[c] /\ m_pool[i] \notin popped[c]
    /\ \A c, d \in Clients : held[c] \notin popped[d]
    /\ \A c, d \in Clients :
        c # d => /\ held[c] = held[d] => held[c] = NoConn
                 /\ \A k \in popped[c] : k \notin popped[d]

Readiness ==
    /\ Len(m_pool) <= MaxSize
    /\ \A i \in 1 .. Len(m_pool) : ~isBusy[m_pool[i]]

-----------------------------------------------------------------------------
(* Type correctness *)

\* Deleting connections keeps the types of what is known of connections.
LEMMA DeleteType ==
    ASSUME TypeOK, NEW gone, Delete(gone)
    PROVE  /\ createTime' \in [Conns -> Nat] /\ requestSize' \in [Conns -> Nat]
           /\ isBusy' \in [Conns -> BOOLEAN]
           /\ asked' \in [Conns -> Seq(Urls)] /\ inbound' \in [Conns -> Seq(Answers)]
           /\ partial' \subseteq Conns /\ stalled' \subseteq Conns
           /\ hungUp' \subseteq Conns /\ abandoned' \subseteq Conns
<1>1. createTime' \in [Conns -> Nat] /\ requestSize' \in [Conns -> Nat]
  BY DEF TypeOK, Delete
<1>2. isBusy' \in [Conns -> BOOLEAN]
  BY Zenon DEF TypeOK, Delete
<1>3. asked' \in [Conns -> Seq(Urls)] /\ inbound' \in [Conns -> Seq(Answers)]
  <2>1. <<>> \in Seq(Urls) /\ <<>> \in Seq(Answers)
    OBVIOUS
  <2> QED  BY <2>1 DEF TypeOK, Delete
<1>4. /\ partial' \subseteq Conns /\ stalled' \subseteq Conns
      /\ hungUp' \subseteq Conns /\ abandoned' \subseteq Conns
  BY DEF TypeOK, Delete
<1> QED  BY <1>1, <1>2, <1>3, <1>4

\* The initial state has the right types.
LEMMA InitTypeOK == PoolAssumption /\ Init => TypeOK
<1> SUFFICES ASSUME PoolAssumption, Init PROVE TypeOK
  OBVIOUS
<1>1. result \in [Clients -> Results]
  BY DEF Init, NoResult, Results
<1>2. pc \in [Clients -> Labels]
  BY DEF Init, Labels
<1>3. /\ now \in Nat /\ nowms \in [Clients -> Nat]
      /\ createTime \in [Conns -> Nat] /\ requestSize \in [Conns -> Nat]
  BY DEF Init, PoolAssumption
<1>4. isBusy \in [Conns -> BOOLEAN]
  BY Zenon DEF Init
<1>5. asked \in [Conns -> Seq(Urls)] /\ inbound \in [Conns -> Seq(Answers)]
  <2>1. <<>> \in Seq(Urls) /\ <<>> \in Seq(Answers)
    OBVIOUS
  <2> QED  BY <2>1 DEF Init
<1>6. /\ m_pool \in Seq(Conns) /\ m_total \in Int /\ hungUp \subseteq Conns
      /\ partial \subseteq Conns /\ stalled \subseteq Conns
      /\ abandoned \subseteq Conns /\ held \in [Clients -> Conns \cup {NoConn}]
      /\ popped \in [Clients -> SUBSET Conns] /\ url \in [Clients -> Urls \cup {NoUrl}]
  BY DEF Init
<1> QED  BY <1>1, <1>2, <1>3, <1>4, <1>5, <1>6 DEF TypeOK

\* What the steps put into result.
LEMMA ResultType ==
    /\ Failed \in Results /\ NoResult \in Results
    /\ \A a \in Answers, b \in BOOLEAN : [kind |-> "ok", answer |-> a, sure |-> b] \in Results
  BY DEF Failed, NoResult, Results

\* A connection that is picked for its address is none in use.
LEMMA FreshLemma ==
    ASSUME Conns \ InUse # {}
    PROVE  Fresh \in Conns /\ Fresh \notin InUse
  BY DEF Fresh

\* Every step keeps the types.
LEMMA NextTypeOK ==
    ASSUME PoolAssumption, TypeOK, Placed, [Next]_vars
    PROVE  TypeOK'
<1> USE DEF Goto
<1>1. ASSUME NEW c \in Clients, NEW u \in Urls, Request(c, u) PROVE TypeOK'
  BY <1>1 DEF Request, TypeOK, Labels, connVars, peerVars
<1>2. ASSUME NEW c \in Clients, Pop(c) PROVE TypeOK'
  <2>1. PICK i \in 1 .. Len(m_pool) + 1 :
          /\ popped' = [popped EXCEPT ![c] = {m_pool[j] : j \in 1 .. i - 1}]
          /\ held' = [held EXCEPT ![c] = IF i \in DOMAIN m_pool THEN m_pool[i] ELSE NoConn]
          /\ isBusy' = IF i \in DOMAIN m_pool THEN [isBusy EXCEPT ![m_pool[i]] = TRUE]
                       ELSE isBusy
          /\ m_pool' = SubSeq(m_pool, i + 1, Len(m_pool))
          /\ \E label \in {"discard", "send", "connect"} : pc' = [pc EXCEPT ![c] = label]
    BY <1>2 DEF Pop
  <2>2. {m_pool[j] : j \in 1 .. i - 1} \subseteq Conns
    <3>1. m_pool \in Seq(Conns) /\ \A j \in 1 .. i - 1 : j \in 1 .. Len(m_pool)
      BY <2>1 DEF TypeOK
    <3> QED  BY <3>1, ElementOfSeq
  <2>3. m_pool' \in Seq(Conns)
    <3>1. m_pool \in Seq(Conns) /\ \A j \in i + 1 .. Len(m_pool) : m_pool[j] \in Conns
      <4>1. m_pool \in Seq(Conns)
        BY DEF TypeOK
      <4> QED  BY <4>1, ElementOfSeq
    <3>2. i + 1 \in Int /\ Len(m_pool) \in Int
      BY <3>1, LenProperties
    <3> QED  BY <2>1, <3>1, <3>2, SubSeqProperties
  <2>4. held' \in [Clients -> Conns \cup {NoConn}]
    BY <2>1 DEF TypeOK
  <2>5. isBusy' \in [Conns -> BOOLEAN]
    BY <2>1, Zenon DEF TypeOK
  <2>6. popped' \in [Clients -> SUBSET Conns]
    BY <2>1, <2>2, Zenon DEF TypeOK
  <2>7. pc' \in [Clients -> Labels]
    BY <2>1 DEF TypeOK, Labels
  <2>8. nowms' \in [Clients -> Nat]
    BY <1>2 DEF Pop, TypeOK, PoolAssumption
  <2> QED  BY <1>2, <2>3, <2>4, <2>5, <2>6, <2>7, <2>8 DEF Pop, TypeOK, peerVars
<1>3. ASSUME NEW c \in Clients, Discard(c) PROVE TypeOK'
  <2>1. IsFiniteSet(popped[c]) /\ Cardinality(popped[c]) \in Nat
    <3>1. popped[c] \subseteq Conns /\ IsFiniteSet(Conns)
      BY DEF TypeOK, PoolAssumption
    <3> QED  BY <3>1, FS_Subset, FS_CardinalityType
  <2>2. m_total' \in Int
    BY <1>3, <2>1 DEF Discard, TypeOK
  <2>3. Delete(popped[c])
    BY <1>3 DEF Discard
  <2>4. popped' \in [Clients -> SUBSET Conns]
    BY <1>3 DEF Discard, TypeOK
  <2>5. pc' \in [Clients -> Labels]
    BY <1>3 DEF Discard, TypeOK, Labels
  <2> QED  BY <1>3, <2>2, <2>3, <2>4, <2>5, DeleteType DEF Discard, TypeOK
<1>4. ASSUME NEW c \in Clients, Connect(c) PROVE TypeOK'
  <2>1. Fresh \in Conns
    BY <1>4, FreshLemma DEF Connect
  <2>2. createTime' \in [Conns -> Nat]
    BY <1>4, <2>1 DEF Connect, TypeOK
  <2>3. held' \in [Clients -> Conns \cup {NoConn}]
    BY <1>4, <2>1 DEF Connect, TypeOK
  <2>4. pc' \in [Clients -> Labels]
    BY <1>4 DEF Connect, TypeOK, Labels
  <2>5. m_total' \in Int
    BY <1>4 DEF Connect, TypeOK
  <2>6. UNCHANGED <<now, m_pool, requestSize, isBusy, asked, inbound, partial, stalled, hungUp,
                    abandoned, popped, nowms, url, result>>
    BY <1>4 DEF Connect, peerVars
  <2> QED  BY <2>2, <2>3, <2>4, <2>5, <2>6 DEF TypeOK
<1>5. ASSUME NEW c \in Clients, ConnectFails(c) PROVE TypeOK'
  BY <1>5, ResultType DEF ConnectFails, Return, TypeOK, Labels, connVars, peerVars
<1>6. ASSUME NEW c \in Clients, Send(c) PROVE TypeOK'
  <2>1. held[c] \in Conns /\ url[c] \in Urls /\ asked[held[c]] \in Seq(Urls)
    BY <1>6 DEF Send, Placed, Holding, TypeOK
  <2>2. Append(asked[held[c]], url[c]) \in Seq(Urls)
    BY <2>1, AppendProperties
  <2>3. asked' \in [Conns -> Seq(Urls)]
    BY <1>6, <2>1, <2>2 DEF Send, TypeOK
  <2> QED  BY <1>6, <2>3 DEF Send, TypeOK, Labels, connVars
<1>7. ASSUME NEW c \in Clients, SendFails(c) PROVE TypeOK'
  BY <1>7, ResultType DEF SendFails, Return, TypeOK, Labels, connVars, peerVars
<1>8. ASSUME NEW c \in Clients, Recv(c) PROVE TypeOK'
  <2>1. inbound' \in [Conns -> Seq(Answers)]
    <3>1. held[c] \in Conns /\ inbound[held[c]] \in Seq(Answers)
      BY <1>8 DEF Recv, Placed, Holding, TypeOK
    <3>2. PICK n \in 1 .. Len(inbound[held[c]]) :
            inbound' = [inbound EXCEPT ![held[c]] = SubSeq(@, n + 1, Len(@))]
      BY <1>8 DEF Recv
    <3>3. SubSeq(inbound[held[c]], n + 1, Len(inbound[held[c]])) \in Seq(Answers)
      BY <3>1, ElementOfSeq, SubSeqProperties
    <3> QED  BY <3>1, <3>2, <3>3 DEF TypeOK
  <2>2. Head(inbound[held[c]]) \in Answers /\ held[c] \in Conns
    <3>1. held[c] \in Conns /\ inbound[held[c]] \in Seq(Answers) /\ inbound[held[c]] # <<>>
      BY <1>8 DEF Recv, Placed, Holding, TypeOK
    <3> QED  BY <3>1, HeadTailProperties
  <2>3. abandoned' \subseteq Conns /\ partial' \subseteq Conns
    BY <1>8, <2>2 DEF Recv, TypeOK
  <2>4. (held[c] \notin abandoned) \in BOOLEAN
    OBVIOUS
  <2>5. \E res \in Results : result' = [result EXCEPT ![c] = res]
    BY <1>8, <2>2, <2>4, ResultType, Zenon DEF Recv, Return
  <2>6. result' \in [Clients -> Results]
    BY <2>5, Zenon DEF TypeOK
  <2> QED  BY <1>8, <2>1, <2>3, <2>6 DEF Recv, TypeOK, Labels, connVars
<1>8a. ASSUME NEW c \in Clients, SendWaits(c) PROVE TypeOK'
  <2>1. held[c] \in Conns
    BY <1>8a DEF SendWaits, Placed, Holding, TypeOK
  <2> QED  BY <1>8a, <2>1 DEF SendWaits, TypeOK, connVars, clientVars
<1>8b. ASSUME NEW c \in Clients, RecvPart(c) PROVE TypeOK'
  <2>1. partial' \subseteq Conns
    BY <1>8b DEF RecvPart, TypeOK
  <2>2. CASE UNCHANGED <<pc, result>>
    BY <1>8b, <2>1, <2>2 DEF RecvPart, TypeOK, connVars
  <2>3. CASE result' = [result EXCEPT ![c] = Failed] /\ pc' = [pc EXCEPT ![c] = "release"]
    <3>1. result' \in [Clients -> Results]
      BY <2>3, ResultType DEF TypeOK
    <3>2. pc' \in [Clients -> Labels]
      BY <2>3 DEF TypeOK, Labels
    <3> QED  BY <1>8b, <2>1, <3>1, <3>2 DEF RecvPart, TypeOK, connVars
  <2> QED  BY <1>8b, <2>2, <2>3 DEF RecvPart, Return
<1>9. ASSUME NEW c \in Clients, RecvClosed(c) PROVE TypeOK'
  BY <1>9, ResultType DEF RecvClosed, Return, TypeOK, Labels, connVars, peerVars
<1>10. ASSUME NEW c \in Clients, RecvTimeout(c) PROVE TypeOK'
  <2>1. held[c] \in Conns
    BY <1>10 DEF RecvTimeout, Placed, Holding, TypeOK
  <2> QED
    BY <1>10, <2>1, ResultType DEF RecvTimeout, Return, TypeOK, Labels, connVars, peerVars
<1>11. ASSUME NEW c \in Clients, Forget(c) PROVE TypeOK'
  BY <1>11, ResultType DEF Forget, Return, TypeOK, connVars, peerVars
<1>12. ASSUME NEW c \in Clients, Release(c) PROVE TypeOK'
  <2>1. CASE Delete({held[c]}) /\ m_total' = m_total - 1
             /\ held' = [held EXCEPT ![c] = NoConn] /\ Goto(c, "idle")
    BY <1>12, <2>1, DeleteType DEF Release, TypeOK, Labels
  <2>2. CASE /\ requestSize' = [requestSize EXCEPT ![held[c]] = @ + 1]
             /\ isBusy' = [isBusy EXCEPT ![held[c]] = FALSE]
             /\ Goto(c, "drain")
             /\ UNCHANGED <<m_total, createTime, peerVars, abandoned, held>>
    <3>1. isBusy' \in [Conns -> BOOLEAN]
      BY <2>2, Zenon DEF TypeOK
    <3> QED  BY <1>12, <2>2, <3>1 DEF Release, TypeOK, Labels, peerVars
  <2> QED  BY <1>12, <2>1, <2>2 DEF Release
<1>13. ASSUME NEW c \in Clients, Drain(c) PROVE TypeOK'
  <2>1. <<>> \in Seq(Answers)
    OBVIOUS
  <2> QED  BY <1>13, <2>1 DEF Drain, TypeOK, connVars, clientVars
<1>14. ASSUME NEW c \in Clients, DrainEnds(c) PROVE TypeOK'
  BY <1>14 DEF DrainEnds, TypeOK, Labels, connVars, peerVars
<1>15. ASSUME NEW c \in Clients, Push(c) PROVE TypeOK'
  <2>1. held[c] \in Conns
    BY <1>15 DEF Push, Placed, Holding, TypeOK
  <2>2. CASE Len(m_pool) < MaxSize
    <3>1. m_pool' \in Seq(Conns)
      <4>1. m_pool \in Seq(Conns) /\ m_pool' = Append(m_pool, held[c])
        BY <1>15, <2>2 DEF Push, TypeOK
      <4> QED  BY <2>1, <4>1, AppendProperties
    <3> QED  BY <1>15, <2>2, <3>1 DEF Push, TypeOK, Labels, connVars, peerVars
  <2>3. CASE ~(Len(m_pool) < MaxSize)
    BY <1>15, <2>3, DeleteType DEF Push, TypeOK, Labels
  <2> QED  BY <2>2, <2>3
<1>16. ASSUME NEW k \in Conns, Answer(k) PROVE TypeOK'
  BY <1>16 DEF Answer, TypeOK, connVars, clientVars
<1>17. ASSUME NEW k \in Conns, HangUp(k) PROVE TypeOK'
  BY <1>17 DEF HangUp, TypeOK, connVars, clientVars
<1>17a. ASSUME NEW k \in Conns, Drip(k) \/ Reads(k) PROVE TypeOK'
  BY <1>17a DEF Drip, Reads, TypeOK, connVars, clientVars
<1>18. CASE Tick
  BY <1>18 DEF Tick, TypeOK, connVars, peerVars, clientVars
<1>19. CASE UNCHANGED vars
  BY <1>19 DEF vars, TypeOK, connVars, peerVars, clientVars
<1> QED
  BY <1>1, <1>2, <1>3, <1>4, <1>5, <1>6, <1>7, <1>8, <1>8a, <1>8b, <1>9, <1>10, <1>11, <1>12,
     <1>13, <1>14, <1>15, <1>16, <1>17, <1>17a, <1>18, <1>19
     DEF Next, Step, Proceeds, Hindered, Environment

-----------------------------------------------------------------------------
(* Where the connections are *)

\* What Pop does, and that no connection it takes is in anybody's hand.
LEMMA PopLemma ==
    ASSUME TypeOK, Placed, Apart, NEW c \in Clients, Pop(c)
    PROVE  \E i \in 1 .. Len(m_pool) + 1 :
            /\ popped' = [popped EXCEPT ![c] = {m_pool[j] : j \in 1 .. i - 1}]
            /\ held' = [held EXCEPT ![c] = IF i <= Len(m_pool) THEN m_pool[i] ELSE NoConn]
            /\ isBusy' = IF i <= Len(m_pool) THEN [isBusy EXCEPT ![m_pool[i]] = TRUE]
                         ELSE isBusy
            /\ m_pool' = SubSeq(m_pool, i + 1, Len(m_pool))
            /\ Len(m_pool') = IF i <= Len(m_pool) THEN Len(m_pool) - i ELSE 0
            /\ \A j \in 1 .. Len(m_pool') : m_pool'[j] = m_pool[i + j]
            /\ pc' = [pc EXCEPT ![c] = IF i > 1 THEN "discard"
                                       ELSE IF i <= Len(m_pool) THEN "send" ELSE "connect"]
<1>1. PICK i \in 1 .. Len(m_pool) + 1 :
        /\ popped' = [popped EXCEPT ![c] = {m_pool[j] : j \in 1 .. i - 1}]
        /\ held' = [held EXCEPT ![c] = IF i \in DOMAIN m_pool THEN m_pool[i] ELSE NoConn]
        /\ isBusy' = IF i \in DOMAIN m_pool THEN [isBusy EXCEPT ![m_pool[i]] = TRUE]
                     ELSE isBusy
        /\ m_pool' = SubSeq(m_pool, i + 1, Len(m_pool))
        /\ pc' = [pc EXCEPT ![c] = IF i > 1 THEN "discard"
                                   ELSE IF i \in DOMAIN m_pool THEN "send" ELSE "connect"]
  BY DEF Pop, Goto
<1>2. m_pool \in Seq(Conns) /\ DOMAIN m_pool = 1 .. Len(m_pool) /\ Len(m_pool) \in Nat
  BY LenProperties DEF TypeOK
<1>3. i \in DOMAIN m_pool <=> i <= Len(m_pool)
  BY <1>1, <1>2
<1>4. \A j \in i + 1 .. Len(m_pool) : m_pool[j] \in Conns
  BY <1>2, ElementOfSeq
<1>5. /\ Len(m_pool') = IF i + 1 <= Len(m_pool) THEN Len(m_pool) - (i + 1) + 1 ELSE 0
      /\ \A j \in 1 .. Len(m_pool) - (i + 1) + 1 : m_pool'[j] = m_pool[(i + 1) + j - 1]
  BY <1>1, <1>2, <1>4, SubSeqProperties
<1>6. Len(m_pool') = IF i <= Len(m_pool) THEN Len(m_pool) - i ELSE 0
  <2>1. i \in Nat /\ Len(m_pool) \in Nat /\ i <= Len(m_pool) + 1
    BY <1>2
  <2>2. Len(m_pool') = IF i + 1 <= Len(m_pool) THEN Len(m_pool) - (i + 1) + 1 ELSE 0
    BY <1>5
  <2> QED  BY <2>1, <2>2
<1>7. \A j \in 1 .. Len(m_pool') : m_pool'[j] = m_pool[i + j]
  <2> SUFFICES ASSUME NEW j \in 1 .. Len(m_pool') PROVE m_pool'[j] = m_pool[i + j]
    OBVIOUS
  <2>1. i \in Int /\ j \in 1 .. Len(m_pool) - (i + 1) + 1
    <3>1. i \in 1 .. Len(m_pool) + 1
      BY <1>1
    <3>2. CASE i <= Len(m_pool)
      <4>1. Len(m_pool') = Len(m_pool) - i
        BY <1>6, <3>2
      <4> QED  BY <1>2, <3>1, <4>1
    <3>3. CASE ~(i <= Len(m_pool))
      <4>1. Len(m_pool') = 0
        BY <1>6, <3>3
      <4> QED  BY <1>2, <4>1
    <3> QED  BY <3>2, <3>3
  <2>2. (i + 1) + j - 1 = i + j
    BY <2>1
  <2> QED  BY <1>5, <2>1, <2>2
<1> QED  BY <1>1, <1>3, <1>6, <1>7

\* A client that stands where it holds nothing, or holds what it held.
LEMMA PlacedKept ==
    ASSUME TypeOK, Placed, NEW c \in Clients, NEW label \in Labels,
           pc' = [pc EXCEPT ![c] = label],
           UNCHANGED <<popped, isBusy, url>>,
           \/ UNCHANGED held
           \/ held' = [held EXCEPT ![c] = NoConn]
           \/ \E k \in Conns : held' = [held EXCEPT ![c] = k],
           label \in Holding => held'[c] # NoConn,
           label \in {"idle", "pop", "connect"} => held'[c] = NoConn,
           label # "discard" => popped[c] = {},
           label # "idle" => url[c] # NoUrl,
           label \in {"drain", "push"} => ~isBusy[held'[c]]
    PROVE  Placed'
<1>1. \A d \in Clients \ {c} : pc'[d] = pc[d] /\ held'[d] = held[d]
  BY DEF TypeOK
<1>2. pc'[c] = label
  BY DEF TypeOK
<1>3. \A d \in Clients : popped'[d] = popped[d] /\ url'[d] = url[d]
  OBVIOUS
<1>4. \A d \in Clients \ {c} :
        /\ pc'[d] \in Holding => held'[d] # NoConn
        /\ pc'[d] \in {"idle", "pop", "connect"} => held'[d] = NoConn
        /\ pc'[d] # "discard" => popped'[d] = {}
        /\ pc'[d] \in {"drain", "push"} => ~isBusy'[held'[d]]
        /\ pc'[d] # "idle" => url'[d] # NoUrl
  BY <1>1, <1>3 DEF Placed
<1>5. /\ pc'[c] \in Holding => held'[c] # NoConn
      /\ pc'[c] \in {"idle", "pop", "connect"} => held'[c] = NoConn
      /\ pc'[c] # "discard" => popped'[c] = {}
      /\ pc'[c] \in {"drain", "push"} => ~isBusy'[held'[c]]
      /\ pc'[c] # "idle" => url'[c] # NoUrl
  BY <1>2, <1>3
<1> QED  BY <1>4, <1>5 DEF Placed

\* Deleting connections makes none of them busy.
LEMMA DeleteIdle ==
    ASSUME TypeOK, NEW gone, Delete(gone), NEW k \in Conns, ~isBusy[k]
    PROVE  ~isBusy'[k]
  BY Zenon DEF Delete, TypeOK

\* Every step keeps Placed.
LEMMA NextPlaced ==
    ASSUME PoolAssumption, TypeOK, Placed, Apart, [Next]_vars
    PROVE  Placed'
<1> USE DEF Goto
<1>a. \A c \in Clients : pc[c] \in Holding => held[c] \in Conns
  BY DEF Placed, TypeOK
<1>1. ASSUME NEW c \in Clients, NEW u \in Urls, Request(c, u) PROVE Placed'
  BY <1>1 DEF Request, TypeOK, Placed, Holding, connVars, PoolAssumption
<1>2. ASSUME NEW c \in Clients, Pop(c) PROVE Placed'
  <2>1. PICK i \in 1 .. Len(m_pool) + 1 :
          /\ popped' = [popped EXCEPT ![c] = {m_pool[j] : j \in 1 .. i - 1}]
          /\ held' = [held EXCEPT ![c] = IF i <= Len(m_pool) THEN m_pool[i] ELSE NoConn]
          /\ isBusy' = IF i <= Len(m_pool) THEN [isBusy EXCEPT ![m_pool[i]] = TRUE]
                       ELSE isBusy
          /\ pc' = [pc EXCEPT ![c] = IF i > 1 THEN "discard"
                                     ELSE IF i <= Len(m_pool) THEN "send" ELSE "connect"]
    BY <1>2, PopLemma
  <2>2. i <= Len(m_pool) => m_pool[i] \in Conns
    <3>1. m_pool \in Seq(Conns) /\ Len(m_pool) \in Nat
      BY LenProperties DEF TypeOK
    <3> QED  BY <3>1, ElementOfSeq
  <2>3. pc[c] = "pop" /\ url' = url
    BY <1>2 DEF Pop
  <2>4. \A d \in Clients \ {c} : pc'[d] = pc[d] /\ held'[d] = held[d] /\ popped'[d] = popped[d]
    BY <2>1 DEF TypeOK
  <2>5. \A d \in Clients \ {c} : pc[d] \in {"drain", "push"} => ~isBusy'[held[d]]
    <3> SUFFICES ASSUME NEW d \in Clients \ {c}, pc[d] \in {"drain", "push"}
                 PROVE  ~isBusy'[held[d]]
      OBVIOUS
    <3>1. held[d] \in Conns /\ ~isBusy[held[d]]
      BY <1>a DEF Placed, Holding
    <3>2. i <= Len(m_pool) => m_pool[i] # held[d]
      BY DEF Apart
    <3>3. CASE i <= Len(m_pool)
      <4>1. isBusy' = [isBusy EXCEPT ![m_pool[i]] = TRUE]
        BY <2>1, <3>3
      <4> QED  BY <3>1, <3>2, <3>3, <4>1, Zenon DEF TypeOK
    <3>4. CASE ~(i <= Len(m_pool))
      BY <2>1, <3>1, <3>4
    <3> QED  BY <3>3, <3>4
  <2>6. /\ pc'[c] = IF i > 1 THEN "discard"
                    ELSE IF i <= Len(m_pool) THEN "send" ELSE "connect"
        /\ held'[c] = IF i <= Len(m_pool) THEN m_pool[i] ELSE NoConn
        /\ popped'[c] = {m_pool[j] : j \in 1 .. i - 1}
    BY <2>1 DEF TypeOK
  <2>7. pc'[c] # "discard" => popped'[c] = {}
    BY <2>1, <2>6
  <2>8. NoConn \notin Conns
    BY DEF PoolAssumption
  <2>9. pc'[c] \in Holding => held'[c] # NoConn
    BY <2>2, <2>6, <2>8 DEF Holding
  <2>10. /\ pc'[c] \in {"idle", "pop", "connect"} => held'[c] = NoConn
         /\ pc'[c] \notin {"drain", "push"} /\ url'[c] # NoUrl
    BY <2>3, <2>6 DEF Placed
  <2> QED  BY <2>3, <2>4, <2>5, <2>7, <2>9, <2>10 DEF Placed
<1>3. ASSUME NEW c \in Clients, Discard(c) PROVE Placed'
  <2>1. \A d \in Clients : pc[d] \in {"drain", "push"} => ~isBusy'[held[d]]
    BY <1>3, <1>a, DeleteIdle DEF Discard, Placed, Holding
  <2> QED  BY <1>3, <2>1 DEF Discard, TypeOK, Placed, Holding
<1>4. ASSUME NEW c \in Clients, Connect(c) PROVE Placed'
  <2>1. Fresh \in Conns /\ Fresh # NoConn
    BY <1>4, FreshLemma DEF Connect, PoolAssumption
  <2> QED  BY <1>4, <2>1, PlacedKept DEF Connect, TypeOK, Placed, Holding, Labels
<1>5. ASSUME NEW c \in Clients, ConnectFails(c) PROVE Placed'
  BY <1>5, PlacedKept DEF ConnectFails, Placed, Holding, Labels, connVars, TypeOK
<1>6. ASSUME NEW c \in Clients, Send(c) PROVE Placed'
  BY <1>6, PlacedKept DEF Send, Placed, Holding, Labels, connVars, TypeOK
<1>7. ASSUME NEW c \in Clients, SendFails(c) PROVE Placed'
  BY <1>7, PlacedKept DEF SendFails, Placed, Holding, Labels, connVars, TypeOK
<1>8. ASSUME NEW c \in Clients, Recv(c) PROVE Placed'
  BY <1>8, PlacedKept DEF Recv, Placed, Holding, Labels, connVars, TypeOK
<1>8a. ASSUME NEW c \in Clients, SendWaits(c) PROVE Placed'
  BY <1>8a DEF SendWaits, Placed, connVars, clientVars
<1>8b. ASSUME NEW c \in Clients, RecvPart(c) PROVE Placed'
  <2>1. CASE UNCHANGED pc
    BY <1>8b, <2>1 DEF RecvPart, Placed, connVars
  <2>2. CASE Goto(c, "release")
    BY <1>8b, <2>2, PlacedKept DEF RecvPart, Placed, Holding, Labels, connVars, TypeOK
  <2> QED  BY <1>8b, <2>1, <2>2 DEF RecvPart
<1>9. ASSUME NEW c \in Clients, RecvClosed(c) PROVE Placed'
  BY <1>9, PlacedKept DEF RecvClosed, Placed, Holding, Labels, connVars, TypeOK
<1>10. ASSUME NEW c \in Clients, RecvTimeout(c) PROVE Placed'
  BY <1>10, PlacedKept DEF RecvTimeout, Placed, Holding, Labels, connVars, TypeOK
<1>11. ASSUME NEW c \in Clients, Forget(c) PROVE Placed'
  BY <1>11 DEF Forget, Placed, Holding, connVars, TypeOK
<1>12. ASSUME NEW c \in Clients, Release(c) PROVE Placed'
  <2>1. held[c] \in Conns
    BY <1>12, <1>a DEF Release, Holding
  <2>2. CASE Delete({held[c]}) /\ held' = [held EXCEPT ![c] = NoConn] /\ Goto(c, "idle")
    <3>1. \A d \in Clients : pc[d] \in {"drain", "push"} => ~isBusy'[held[d]]
      BY <1>a, <2>2, DeleteIdle DEF Placed, Holding
    <3> QED  BY <1>12, <2>2, <3>1 DEF Release, TypeOK, Placed, Holding
  <2>3. CASE /\ isBusy' = [isBusy EXCEPT ![held[c]] = FALSE]
             /\ Goto(c, "drain") /\ held' = held
    <3>1. \A k \in Conns : ~isBusy[k] \/ k = held[c] => ~isBusy'[k]
      BY <2>1, <2>3, Zenon DEF TypeOK
    <3>2. \A d \in Clients : pc[d] \in {"drain", "push"} => ~isBusy'[held[d]]
      BY <1>a, <3>1 DEF Placed, Holding
    <3> QED  BY <1>12, <2>1, <2>3, <3>1, <3>2 DEF Release, TypeOK, Placed, Holding
  <2> QED  BY <1>12, <2>2, <2>3 DEF Release
<1>13. ASSUME NEW c \in Clients, Drain(c) PROVE Placed'
  BY <1>13 DEF Drain, Placed, connVars, clientVars
<1>14. ASSUME NEW c \in Clients, DrainEnds(c) PROVE Placed'
  BY <1>14, PlacedKept DEF DrainEnds, Placed, Holding, Labels, connVars, TypeOK
<1>15. ASSUME NEW c \in Clients, Push(c) PROVE Placed'
  <2>1. \A d \in Clients : pc[d] \in {"drain", "push"} => ~isBusy'[held[d]]
    BY <1>15, <1>a, DeleteIdle DEF Push, Placed, Holding, connVars
  <2> QED  BY <1>15, <2>1 DEF Push, TypeOK, Placed, Holding
<1>16. CASE \E k \in Conns : Answer(k) \/ Drip(k) \/ Reads(k) \/ HangUp(k)
  BY <1>16 DEF Answer, Drip, Reads, HangUp, Placed, connVars, clientVars
<1>17. CASE Tick \/ UNCHANGED vars
  BY <1>17 DEF Tick, vars, Placed, connVars, clientVars
<1> QED
  BY <1>1, <1>2, <1>3, <1>4, <1>5, <1>6, <1>7, <1>8, <1>8a, <1>8b, <1>9, <1>10, <1>11, <1>12,
     <1>13, <1>14, <1>15, <1>16, <1>17 DEF Next, Step, Proceeds, Hindered, Environment

\* Apart is about the pool, the hands and what is to be thrown away only.
LEMMA ApartSame ==
    ASSUME Apart, UNCHANGED <<m_pool, held, popped>>
    PROVE  Apart'
  BY DEF Apart

\* A client may let go of what it holds or is about to throw away, when that is
\* nowhere else, and take a connection that nobody has.
LEMMA ApartHand ==
    ASSUME PoolAssumption, TypeOK, Apart, NEW c \in Clients, NEW k \in Conns \cup {NoConn},
           k # NoConn => k \notin InUse,
           UNCHANGED <<m_pool, popped>>, held' = [held EXCEPT ![c] = k]
    PROVE  Apart'
<1>1. \A d \in Clients \ {c} : held'[d] = held[d]
  BY DEF TypeOK
<1>2. held'[c] = k
  BY DEF TypeOK
<1>3. \A i \in 1 .. Len(m_pool) : m_pool[i] # k
  <2>1. m_pool \in Seq(Conns) /\ DOMAIN m_pool = 1 .. Len(m_pool)
    BY LenProperties DEF TypeOK
  <2>2. \A i \in 1 .. Len(m_pool) : m_pool[i] \in Conns /\ m_pool[i] \in InUse
    BY <2>1, ElementOfSeq DEF InUse, Idle
  <2> QED  BY <2>2 DEF PoolAssumption
<1>4. \A d \in Clients : k \notin popped[d]
  BY DEF InUse, Invalid, TypeOK, PoolAssumption
<1>5. \A d \in Clients \ {c} : held[d] = k => k = NoConn
  BY DEF InUse, Borrowed
<1>6. \A i, j \in 1 .. Len(m_pool') : m_pool'[i] = m_pool'[j] => i = j
  BY DEF Apart
<1>7. \A i \in 1 .. Len(m_pool'), d \in Clients :
        m_pool'[i] # held'[d] /\ m_pool'[i] \notin popped'[d]
  BY <1>1, <1>2, <1>3 DEF Apart
<1>8. \A d, e \in Clients : held'[d] \notin popped'[e]
  BY <1>1, <1>2, <1>4 DEF Apart
<1>9. \A d, e \in Clients :
        d # e => /\ held'[d] = held'[e] => held'[d] = NoConn
                 /\ \A n \in popped'[d] : n \notin popped'[e]
  BY <1>1, <1>2, <1>5 DEF Apart
<1> QED  BY <1>6, <1>7, <1>8, <1>9 DEF Apart
\* What Pop takes from the pool is in one place afterwards.
LEMMA PopApart ==
    ASSUME PoolAssumption, TypeOK, Placed, Apart, NEW c \in Clients, Pop(c)
    PROVE  Apart'
<1>1. PICK i \in 1 .. Len(m_pool) + 1 :
        /\ popped' = [popped EXCEPT ![c] = {m_pool[j] : j \in 1 .. i - 1}]
        /\ held' = [held EXCEPT ![c] = IF i <= Len(m_pool) THEN m_pool[i] ELSE NoConn]
        /\ Len(m_pool') = IF i <= Len(m_pool) THEN Len(m_pool) - i ELSE 0
        /\ \A j \in 1 .. Len(m_pool') : m_pool'[j] = m_pool[i + j]
  BY PopLemma
<1>2. m_pool \in Seq(Conns) /\ Len(m_pool) \in Nat /\ i \in Nat
  BY <1>1, LenProperties DEF TypeOK
<1>3. \A j \in 1 .. Len(m_pool) : m_pool[j] \in Conns /\ m_pool[j] # NoConn
  BY <1>2, ElementOfSeq DEF PoolAssumption
<1>4. \A j \in 1 .. Len(m_pool') : i + j \in 1 .. Len(m_pool) /\ m_pool'[j] = m_pool[i + j]
  <2>1. CASE i <= Len(m_pool)
    <3>1. Len(m_pool') = Len(m_pool) - i
      BY <1>1, <2>1
    <3> QED  BY <1>1, <1>2, <3>1
  <2>2. CASE ~(i <= Len(m_pool))
    <3>1. Len(m_pool') = 0
      BY <1>1, <2>2
    <3> QED  BY <1>2, <3>1
  <2> QED  BY <2>1, <2>2
<1>5. \A d \in Clients \ {c} : held'[d] = held[d] /\ popped'[d] = popped[d]
  BY <1>1 DEF TypeOK
<1>6. /\ held'[c] = IF i <= Len(m_pool) THEN m_pool[i] ELSE NoConn
      /\ popped'[c] = {m_pool[j] : j \in 1 .. i - 1}
  BY <1>1 DEF TypeOK
<1>7. \A k \in popped'[c] : \E j \in 1 .. Len(m_pool) : j < i /\ k = m_pool[j]
  BY <1>2, <1>6
<1>8. held'[c] = NoConn \/ (i \in 1 .. Len(m_pool) /\ held'[c] = m_pool[i])
  BY <1>1, <1>2, <1>6
<1>9. \A j, n \in 1 .. Len(m_pool') : m_pool'[j] = m_pool'[n] => j = n
  <2> SUFFICES ASSUME NEW j \in 1 .. Len(m_pool'), NEW n \in 1 .. Len(m_pool'),
                      m_pool'[j] = m_pool'[n]
               PROVE  j = n
    OBVIOUS
  <2>1. i + j = i + n
    BY <1>4 DEF Apart
  <2> QED  BY <1>2, <2>1
<1>10. \A j \in 1 .. Len(m_pool'), d \in Clients :
        m_pool'[j] # held'[d] /\ m_pool'[j] \notin popped'[d]
  <2> SUFFICES ASSUME NEW j \in 1 .. Len(m_pool'), NEW d \in Clients
               PROVE  m_pool'[j] # held'[d] /\ m_pool'[j] \notin popped'[d]
    OBVIOUS
  <2>1. CASE d # c
    BY <1>4, <1>5, <2>1 DEF Apart
  <2>2. m_pool'[j] # held'[c]
    <3>1. i + j # i
      BY <1>2
    <3> QED  BY <1>3, <1>4, <1>8, <3>1 DEF Apart
  <2>3. m_pool'[j] \notin popped'[c]
    <3>1. \A n \in 1 .. Len(m_pool) : n < i => n # i + j
      BY <1>2
    <3>2. \A n \in 1 .. Len(m_pool) : n < i => m_pool[n] # m_pool[i + j]
      BY <1>4, <3>1 DEF Apart
    <3>3. m_pool'[j] = m_pool[i + j]
      BY <1>4
    <3> QED  BY <1>7, <3>2, <3>3
  <2> QED  BY <2>1, <2>2, <2>3
<1>11. \A d, e \in Clients : held'[d] \notin popped'[e]
  <2> SUFFICES ASSUME NEW d \in Clients, NEW e \in Clients PROVE held'[d] \notin popped'[e]
    OBVIOUS
  <2>1. CASE d # c /\ e # c
    BY <1>5, <2>1 DEF Apart
  <2>2. CASE d # c /\ e = c
    BY <1>5, <1>7, <2>2 DEF Apart
  <2>3. NoConn \notin popped'[e]
    <3>1. CASE e = c
      BY <1>3, <1>7, <3>1
    <3>2. CASE e # c
      BY <1>5, <3>2 DEF TypeOK, PoolAssumption
    <3> QED  BY <3>1, <3>2
  <2>4. CASE d = c /\ e # c
    BY <1>5, <1>8, <2>3, <2>4 DEF Apart
  <2>5. CASE d = c /\ e = c
    <3>1. CASE held'[c] = NoConn
      BY <2>3, <2>5, <3>1
    <3>2. CASE i \in 1 .. Len(m_pool) /\ held'[c] = m_pool[i]
      <4>1. \A n \in 1 .. Len(m_pool) : n < i => m_pool[n] # m_pool[i]
        BY <1>2, <3>2 DEF Apart
      <4> QED  BY <1>7, <2>5, <3>2, <4>1
    <3> QED  BY <1>8, <3>1, <3>2
  <2> QED  BY <2>1, <2>2, <2>4, <2>5
<1>12. \A d, e \in Clients :
        d # e => /\ held'[d] = held'[e] => held'[d] = NoConn
                 /\ \A k \in popped'[d] : k \notin popped'[e]
  <2>1. \A d \in Clients \ {c} : held'[d] = held'[c] => held'[d] = NoConn
    BY <1>5, <1>8 DEF Apart
  <2>2. \A d \in Clients \ {c} : \A k \in popped'[c] : k \notin popped'[d]
    BY <1>5, <1>7 DEF Apart
  <2>3. \A d, e \in Clients \ {c} :
        d # e => /\ held'[d] = held'[e] => held'[d] = NoConn
                 /\ \A k \in popped'[d] : k \notin popped'[e]
    BY <1>5 DEF Apart
  <2> QED  BY <2>1, <2>2, <2>3
<1> QED  BY <1>9, <1>10, <1>11, <1>12 DEF Apart

\* Throwing away what a client has taken from the pool.
LEMMA DiscardApart ==
    ASSUME TypeOK, Apart, NEW c \in Clients, UNCHANGED <<m_pool, held>>,
           popped' = [popped EXCEPT ![c] = {}]
    PROVE  Apart'
<1>1. \A d \in Clients : popped'[d] \subseteq popped[d]
  BY DEF TypeOK
<1> QED  BY <1>1 DEF Apart

\* Putting a connection back into the pool.
LEMMA PushApart ==
    ASSUME PoolAssumption, TypeOK, Apart, NEW c \in Clients, held[c] \in Conns,
           m_pool' = Append(m_pool, held[c]), held' = [held EXCEPT ![c] = NoConn],
           UNCHANGED popped
    PROVE  Apart'
<1>1. m_pool \in Seq(Conns) /\ Len(m_pool) \in Nat
  BY LenProperties DEF TypeOK
<1>2. /\ Len(m_pool') = Len(m_pool) + 1
      /\ \A i \in 1 .. Len(m_pool) : m_pool'[i] = m_pool[i]
      /\ m_pool'[Len(m_pool) + 1] = held[c]
  BY <1>1, AppendProperties
<1>3. \A i \in 1 .. Len(m_pool') : i \in 1 .. Len(m_pool) \/ i = Len(m_pool) + 1
  BY <1>1, <1>2
<1>4. \A d \in Clients \ {c} : held'[d] = held[d]
  BY DEF TypeOK
<1>5. held'[c] = NoConn
  BY DEF TypeOK
<1>6. \A i \in 1 .. Len(m_pool) : m_pool[i] \in Conns /\ m_pool[i] # NoConn
  BY <1>1, ElementOfSeq DEF PoolAssumption
<1>7. held[c] # NoConn
  BY DEF PoolAssumption
<1>8. \A i, j \in 1 .. Len(m_pool') : m_pool'[i] = m_pool'[j] => i = j
  BY <1>2, <1>3 DEF Apart
<1>9. \A i \in 1 .. Len(m_pool'), d \in Clients :
        m_pool'[i] # held'[d] /\ m_pool'[i] \notin popped'[d]
  <2> SUFFICES ASSUME NEW i \in 1 .. Len(m_pool'), NEW d \in Clients
               PROVE  m_pool'[i] # held'[d] /\ m_pool'[i] \notin popped'[d]
    OBVIOUS
  <2>1. CASE i \in 1 .. Len(m_pool)
    BY <1>2, <1>4, <1>5, <1>6, <2>1 DEF Apart
  <2>2. CASE i = Len(m_pool) + 1
    BY <1>2, <1>4, <1>5, <1>7, <2>2 DEF Apart
  <2> QED  BY <1>3, <2>1, <2>2
<1>10. \A d, e \in Clients : held'[d] \notin popped'[e]
  BY <1>4, <1>5 DEF Apart, TypeOK, PoolAssumption
<1>11. \A d, e \in Clients :
        d # e => /\ held'[d] = held'[e] => held'[d] = NoConn
                 /\ \A k \in popped'[d] : k \notin popped'[e]
  BY <1>4, <1>5 DEF Apart
<1> QED  BY <1>8, <1>9, <1>10, <1>11 DEF Apart

\* Every step leaves each connection in one place.
LEMMA NextApart ==
    ASSUME PoolAssumption, TypeOK, Placed, Apart, [Next]_vars
    PROVE  Apart'
<1>1. ASSUME NEW c \in Clients, Pop(c) PROVE Apart'
  BY <1>1, PopApart
<1>2. ASSUME NEW c \in Clients, Discard(c) PROVE Apart'
  BY <1>2, DiscardApart DEF Discard
<1>3. ASSUME NEW c \in Clients, Connect(c) PROVE Apart'
  <2>1. Fresh \in Conns /\ Fresh \notin InUse
    BY <1>3, FreshLemma DEF Connect
  <2> QED  BY <1>3, <2>1, ApartHand DEF Connect
<1>4. ASSUME NEW c \in Clients, Release(c) PROVE Apart'
  <2>1. CASE held' = [held EXCEPT ![c] = NoConn]
    BY <1>4, <2>1, ApartHand DEF Release
  <2>2. CASE held' = held
    BY <1>4, <2>2, ApartSame DEF Release
  <2> QED  BY <1>4, <2>1, <2>2 DEF Release
<1>5. ASSUME NEW c \in Clients, Push(c) PROVE Apart'
  <2>1. held[c] \in Conns
    BY <1>5 DEF Push, Placed, Holding, TypeOK
  <2>2. CASE m_pool' = Append(m_pool, held[c])
    BY <1>5, <2>1, <2>2, PushApart DEF Push
  <2>3. CASE m_pool' = m_pool
    BY <1>5, <2>3, ApartHand DEF Push
  <2> QED  BY <1>5, <2>2, <2>3 DEF Push
<1>6. ASSUME NEW c \in Clients,
             \/ \E u \in Urls : Request(c, u)
             \/ ConnectFails(c) \/ Send(c) \/ SendFails(c) \/ Recv(c) \/ RecvClosed(c)
             \/ RecvTimeout(c) \/ SendWaits(c) \/ RecvPart(c)
             \/ Drain(c) \/ DrainEnds(c) \/ Forget(c)
      PROVE  UNCHANGED <<m_pool, held, popped>>
  BY <1>6 DEF Request, ConnectFails, Send, SendWaits, SendFails, RecvPart, Recv, RecvClosed,
              RecvTimeout, Drain, DrainEnds, Forget, clientVars
<1>7. CASE Environment \/ UNCHANGED vars
  BY <1>7, ApartSame DEF Environment, Tick, Answer, Drip, Reads, HangUp, vars, clientVars
<1> QED  BY <1>1, <1>2, <1>3, <1>4, <1>5, <1>6, <1>7, ApartSame DEF Next, Step, Proceeds, Hindered

-----------------------------------------------------------------------------
(* What is in the pool *)

\* Every step keeps the pool within its size and what is in it free.
LEMMA NextReadiness ==
    ASSUME PoolAssumption, TypeOK, Placed, Apart, Readiness, [Next]_vars
    PROVE  Readiness'
<1>a. m_pool \in Seq(Conns) /\ Len(m_pool) \in Nat
  BY LenProperties DEF TypeOK
<1>b. \A i \in 1 .. Len(m_pool) : m_pool[i] \in Conns /\ ~isBusy[m_pool[i]]
  BY <1>a, ElementOfSeq DEF Readiness
<1>c. ASSUME UNCHANGED m_pool, \A k \in Conns : ~isBusy[k] => ~isBusy'[k] PROVE Readiness'
  BY <1>b, <1>c DEF Readiness
<1>1. ASSUME NEW c \in Clients, Pop(c) PROVE Readiness'
  <2>1. PICK i \in 1 .. Len(m_pool) + 1 :
          /\ isBusy' = IF i <= Len(m_pool) THEN [isBusy EXCEPT ![m_pool[i]] = TRUE]
                       ELSE isBusy
          /\ Len(m_pool') = IF i <= Len(m_pool) THEN Len(m_pool) - i ELSE 0
          /\ \A j \in 1 .. Len(m_pool') : m_pool'[j] = m_pool[i + j]
    BY <1>1, PopLemma
  <2>2. i \in Nat /\ i >= 1
    BY <1>a, <2>1
  <2>3. CASE i <= Len(m_pool)
    <3>1. Len(m_pool') = Len(m_pool) - i /\ isBusy' = [isBusy EXCEPT ![m_pool[i]] = TRUE]
      BY <2>1, <2>3
    <3>2. Len(m_pool') <= MaxSize
      BY <1>a, <2>2, <3>1 DEF Readiness, PoolAssumption
    <3>3. ASSUME NEW j \in 1 .. Len(m_pool') PROVE ~isBusy'[m_pool'[j]]
      <4>1. i \in 1 .. Len(m_pool) /\ i + j \in 1 .. Len(m_pool) /\ i + j # i
        BY <1>a, <2>2, <2>3, <3>1
      <4>2. m_pool'[j] = m_pool[i + j]
        BY <2>1
      <4>3. m_pool[i + j] # m_pool[i]
        BY <4>1 DEF Apart
      <4> QED  BY <1>b, <3>1, <4>1, <4>2, <4>3, Zenon DEF TypeOK
    <3> QED  BY <3>2, <3>3 DEF Readiness
  <2>4. CASE ~(i <= Len(m_pool))
    <3>1. Len(m_pool') = 0
      BY <2>1, <2>4
    <3> QED  BY <3>1 DEF Readiness, PoolAssumption
  <2> QED  BY <2>3, <2>4
<1>2. ASSUME NEW c \in Clients, Discard(c) PROVE Readiness'
  BY <1>2, <1>c, DeleteIdle DEF Discard
<1>3. ASSUME NEW c \in Clients, Release(c) PROVE Readiness'
  <2>1. CASE Delete({held[c]})
    BY <1>3, <1>c, <2>1, DeleteIdle DEF Release
  <2>2. CASE isBusy' = [isBusy EXCEPT ![held[c]] = FALSE]
    <3>1. \A k \in Conns : ~isBusy[k] => ~isBusy'[k]
      BY <2>2, Zenon DEF TypeOK
    <3> QED  BY <1>3, <1>c, <3>1 DEF Release
  <2> QED  BY <1>3, <2>1, <2>2 DEF Release
<1>4. ASSUME NEW c \in Clients, Push(c) PROVE Readiness'
  <2>1. held[c] \in Conns /\ ~isBusy[held[c]]
    BY <1>4 DEF Push, Placed, Holding, TypeOK
  <2>2. CASE Len(m_pool) < MaxSize
    <3>1. m_pool' = Append(m_pool, held[c]) /\ UNCHANGED isBusy
      BY <1>4, <2>2 DEF Push, connVars
    <3>2. /\ Len(m_pool') = Len(m_pool) + 1
          /\ \A i \in 1 .. Len(m_pool) : m_pool'[i] = m_pool[i]
          /\ m_pool'[Len(m_pool) + 1] = held[c]
      BY <1>a, <2>1, <3>1, AppendProperties
    <3>3. \A i \in 1 .. Len(m_pool') : i \in 1 .. Len(m_pool) \/ i = Len(m_pool) + 1
      BY <1>a, <3>2
    <3>4. Len(m_pool') <= MaxSize
      BY <1>a, <2>2, <3>2 DEF PoolAssumption
    <3> QED  BY <1>b, <2>1, <3>1, <3>2, <3>3, <3>4 DEF Readiness
  <2>3. CASE ~(Len(m_pool) < MaxSize)
    BY <1>4, <1>c, <2>3, DeleteIdle DEF Push
  <2> QED  BY <2>2, <2>3
<1>5. ASSUME NEW c \in Clients,
             \/ \E u \in Urls : Request(c, u)
             \/ Connect(c) \/ ConnectFails(c) \/ Send(c) \/ SendFails(c) \/ Recv(c)
             \/ SendWaits(c) \/ RecvPart(c) \/ RecvClosed(c) \/ RecvTimeout(c) \/ Drain(c) \/ DrainEnds(c) \/ Forget(c)
      PROVE  UNCHANGED <<m_pool, isBusy>>
  BY <1>5 DEF Request, Connect, ConnectFails, Send, SendWaits, SendFails, RecvPart, Recv,
              RecvClosed, RecvTimeout, Drain, DrainEnds, Forget, connVars, clientVars
<1>6. CASE Environment \/ UNCHANGED vars
  BY <1>6, <1>c DEF Environment, Tick, Answer, Drip, Reads, HangUp, vars, connVars
<1> QED  BY <1>1, <1>2, <1>3, <1>4, <1>5, <1>6, <1>c DEF Next, Step, Proceeds, Hindered

-----------------------------------------------------------------------------
(* How many connections there are *)

\* What it means to be in use, before and after a step.
LEMMA InUseLemma ==
    ASSUME PoolAssumption, TypeOK, TypeOK'
    PROVE  /\ InUse \subseteq Conns
           /\ \A k \in Conns :
                k \in InUse <=> \/ \E i \in 1 .. Len(m_pool) : m_pool[i] = k
                                \/ \E c \in Clients : held[c] = k \/ k \in popped[c]
           /\ InUse' \subseteq Conns
           /\ \A k \in Conns :
                k \in InUse' <=> \/ \E i \in 1 .. Len(m_pool') : m_pool'[i] = k
                                 \/ \E c \in Clients : held'[c] = k \/ k \in popped'[c]
<1>1. /\ m_pool \in Seq(Conns) /\ DOMAIN m_pool = 1 .. Len(m_pool)
      /\ m_pool' \in Seq(Conns) /\ DOMAIN m_pool' = 1 .. Len(m_pool')
  BY LenProperties DEF TypeOK
<1>2. /\ \A i \in 1 .. Len(m_pool) : m_pool[i] \in Conns
      /\ \A i \in 1 .. Len(m_pool') : m_pool'[i] \in Conns
  BY <1>1, ElementOfSeq
<1>3. NoConn \notin Conns
  BY DEF PoolAssumption
<1>4. /\ InUse \subseteq Conns
      /\ \A k \in Conns :
            k \in InUse <=> \/ \E i \in 1 .. Len(m_pool) : m_pool[i] = k
                            \/ \E c \in Clients : held[c] = k \/ k \in popped[c]
  <2>1. Idle \subseteq Conns /\ \A k \in Conns :
          k \in Idle <=> \E i \in 1 .. Len(m_pool) : m_pool[i] = k
    BY <1>1, <1>2 DEF Idle
  <2>2. Borrowed \subseteq Conns /\ \A k \in Conns :
          k \in Borrowed <=> \E c \in Clients : held[c] = k
    <3>1. \A c \in Clients : held[c] \in Conns \cup {NoConn}
      BY DEF TypeOK
    <3> QED  BY <1>3, <3>1 DEF Borrowed
  <2>3. Invalid \subseteq Conns /\ \A k \in Conns :
          k \in Invalid <=> \E c \in Clients : k \in popped[c]
    <3>1. \A c \in Clients : popped[c] \subseteq Conns
      BY DEF TypeOK
    <3> QED  BY <3>1 DEF Invalid
  <2> QED  BY <2>1, <2>2, <2>3 DEF InUse
<1>5. /\ InUse' \subseteq Conns
      /\ \A k \in Conns :
            k \in InUse' <=> \/ \E i \in 1 .. Len(m_pool') : m_pool'[i] = k
                             \/ \E c \in Clients : held'[c] = k \/ k \in popped'[c]
  <2>1. Idle' \subseteq Conns /\ \A k \in Conns :
          k \in Idle' <=> \E i \in 1 .. Len(m_pool') : m_pool'[i] = k
    BY <1>1, <1>2 DEF Idle
  <2>2. Borrowed' \subseteq Conns /\ \A k \in Conns :
          k \in Borrowed' <=> \E c \in Clients : held'[c] = k
    <3>1. \A c \in Clients : held'[c] \in Conns \cup {NoConn}
      BY DEF TypeOK
    <3> QED  BY <1>3, <3>1 DEF Borrowed
  <2>3. Invalid' \subseteq Conns /\ \A k \in Conns :
          k \in Invalid' <=> \E c \in Clients : k \in popped'[c]
    <3>1. \A c \in Clients : popped'[c] \subseteq Conns
      BY DEF TypeOK
    <3> QED  BY <3>1 DEF Invalid
  <2> QED  BY <2>1, <2>2, <2>3 DEF InUse
<1> QED  BY <1>4, <1>5

\* A client lets go of a connection, or takes one that nobody had.
LEMMA HandCount ==
    ASSUME PoolAssumption, TypeOK, TypeOK', Apart, TotalExact, NEW c \in Clients,
           UNCHANGED <<m_pool, popped>>
    PROVE  /\ held[c] \in Conns /\ held' = [held EXCEPT ![c] = NoConn] /\ m_total' = m_total - 1
                => TotalExact'
           /\ \A k \in Conns \ InUse :
                held[c] = NoConn /\ held' = [held EXCEPT ![c] = k] /\ m_total' = m_total + 1
                    => TotalExact'
<1>1. IsFiniteSet(InUse)
  BY InUseLemma, FS_Subset DEF PoolAssumption
<1>2. ASSUME held[c] \in Conns, held' = [held EXCEPT ![c] = NoConn], m_total' = m_total - 1
      PROVE  TotalExact'
  <2>1. (\A d \in Clients \ {c} : held'[d] = held[d]) /\ held'[c] = NoConn
    BY <1>2 DEF TypeOK
  <2>2. /\ \A i \in 1 .. Len(m_pool) : m_pool[i] # held[c]
        /\ \A d \in Clients : held[c] \notin popped[d]
        /\ \A d \in Clients \ {c} : held[d] # held[c]
    BY <1>2 DEF Apart, PoolAssumption
  <2>3. \A k \in Conns : k \in InUse' <=> k \in InUse /\ k # held[c]
    BY <1>2, <2>1, <2>2, InUseLemma DEF PoolAssumption
  <2>4. InUse' = InUse \ {held[c]}
    BY <2>3, InUseLemma
  <2>5. held[c] \in InUse
    BY <1>2, InUseLemma
  <2>6. Cardinality(InUse') = Cardinality(InUse) - 1
    BY <1>1, <2>4, <2>5, FS_RemoveElement
  <2> QED  BY <1>2, <2>6 DEF TotalExact
<1>3. ASSUME NEW k \in Conns \ InUse, held[c] = NoConn, held' = [held EXCEPT ![c] = k],
             m_total' = m_total + 1
      PROVE  TotalExact'
  <2>1. (\A d \in Clients \ {c} : held'[d] = held[d]) /\ held'[c] = k
    BY <1>3 DEF TypeOK
  <2>2. \A n \in Conns : n \in InUse' <=> n \in InUse \/ n = k
    BY <1>3, <2>1, InUseLemma DEF PoolAssumption
  <2>3. InUse' = InUse \cup {k}
    BY <2>2, InUseLemma
  <2>4. Cardinality(InUse') = Cardinality(InUse) + 1
    BY <1>1, <2>3, FS_AddElement
  <2> QED  BY <1>3, <2>4 DEF TotalExact
<1> QED  BY <1>2, <1>3

\* The same connections are in use, and are counted the same.
LEMMA SameCount ==
    ASSUME PoolAssumption, TypeOK, TypeOK', TotalExact, m_total' = m_total,
           \A k \in Conns : k \in InUse' <=> k \in InUse
    PROVE  TotalExact'
<1>1. InUse' = InUse
  BY InUseLemma
<1> QED  BY <1>1 DEF TotalExact

\* A connection from the pool is in a hand, or waits to be thrown away.
LEMMA PopCount ==
    ASSUME PoolAssumption, TypeOK, TypeOK', Placed, Apart, TotalExact,
           NEW c \in Clients, Pop(c)
    PROVE  TotalExact'
<1>1. PICK i \in 1 .. Len(m_pool) + 1 :
        /\ popped' = [popped EXCEPT ![c] = {m_pool[j] : j \in 1 .. i - 1}]
        /\ held' = [held EXCEPT ![c] = IF i <= Len(m_pool) THEN m_pool[i] ELSE NoConn]
        /\ Len(m_pool') = IF i <= Len(m_pool) THEN Len(m_pool) - i ELSE 0
        /\ \A j \in 1 .. Len(m_pool') : m_pool'[j] = m_pool[i + j]
  BY PopLemma
<1>2. Len(m_pool) \in Nat /\ i \in Nat /\ i >= 1
  BY <1>1, LenProperties DEF TypeOK
<1>3. held[c] = NoConn /\ popped[c] = {}
  BY DEF Pop, Placed
<1>4. \A d \in Clients \ {c} : held'[d] = held[d] /\ popped'[d] = popped[d]
  BY <1>1 DEF TypeOK
<1>5. /\ held'[c] = IF i <= Len(m_pool) THEN m_pool[i] ELSE NoConn
      /\ popped'[c] = {m_pool[j] : j \in 1 .. i - 1}
  BY <1>1 DEF TypeOK
<1>6. NoConn \notin Conns
  BY DEF PoolAssumption
<1>7. ASSUME NEW k \in Conns, k \in InUse PROVE k \in InUse'
  <2>1. CASE \E d \in Clients : held[d] = k \/ k \in popped[d]
    BY <1>3, <1>4, <1>6, <2>1, InUseLemma
  <2>2. ASSUME NEW j \in 1 .. Len(m_pool), m_pool[j] = k PROVE k \in InUse'
    <3>1. CASE j < i
      <4>1. j \in 1 .. i - 1
        BY <1>2, <3>1
      <4>2. k \in popped'[c]
        BY <1>5, <2>2, <4>1
      <4> QED  BY <4>2, InUseLemma
    <3>2. CASE j = i
      <4>1. held'[c] = k
        BY <1>2, <1>5, <2>2, <3>2
      <4> QED  BY <4>1, InUseLemma
    <3>3. CASE j > i
      <4>1. i <= Len(m_pool)
        BY <1>2, <3>3
      <4>2. Len(m_pool') = Len(m_pool) - i
        BY <1>1, <4>1
      <4>3. j - i \in 1 .. Len(m_pool') /\ i + (j - i) = j
        BY <1>2, <3>3, <4>2
      <4>4. m_pool'[j - i] = k
        BY <1>1, <2>2, <4>3
      <4> QED  BY <4>3, <4>4, InUseLemma
    <3> QED  BY <1>2, <3>1, <3>2, <3>3
  <2> QED  BY <1>7, <2>1, <2>2, InUseLemma
<1>8. ASSUME NEW k \in Conns, k \in InUse' PROVE k \in InUse
  <2>1. ASSUME NEW j \in 1 .. Len(m_pool'), m_pool'[j] = k PROVE k \in InUse
    <3>1. CASE i <= Len(m_pool)
      <4>1. Len(m_pool') = Len(m_pool) - i
        BY <1>1, <3>1
      <4>2. i + j \in 1 .. Len(m_pool) /\ m_pool[i + j] = k
        BY <1>1, <1>2, <2>1, <4>1
      <4> QED  BY <4>2, InUseLemma
    <3>2. CASE ~(i <= Len(m_pool))
      <4>1. Len(m_pool') = 0
        BY <1>1, <3>2
      <4> QED  BY <4>1
    <3> QED  BY <3>1, <3>2
  <2>2. ASSUME NEW d \in Clients \ {c}, held'[d] = k \/ k \in popped'[d] PROVE k \in InUse
    BY <1>4, <2>2, InUseLemma
  <2>3. CASE held'[c] = k
    <3>1. i \in 1 .. Len(m_pool) /\ m_pool[i] = k
      BY <1>2, <1>5, <1>6, <2>3
    <3> QED  BY <3>1, InUseLemma
  <2>4. CASE k \in popped'[c]
    <3>1. PICK j \in 1 .. i - 1 : k = m_pool[j]
      BY <1>5, <2>4
    <3>2. j \in 1 .. Len(m_pool)
      BY <1>1, <1>2, <3>1
    <3> QED  BY <3>1, <3>2, InUseLemma
  <2> QED  BY <1>8, <2>1, <2>2, <2>3, <2>4, InUseLemma
<1>9. m_total' = m_total
  BY DEF Pop
<1> QED  BY <1>7, <1>8, <1>9, SameCount

\* Every step counts the connections right.
LEMMA NextTotal ==
    ASSUME PoolAssumption, TypeOK, TypeOK', Placed, Apart, TotalExact, [Next]_vars
    PROVE  TotalExact'
<1>1. ASSUME NEW c \in Clients, Discard(c) PROVE TotalExact'
  <2>1. popped' = [popped EXCEPT ![c] = {}] /\ UNCHANGED <<m_pool, held>>
        /\ m_total' = m_total - Cardinality(popped[c])
    BY <1>1 DEF Discard
  <2>2. (\A d \in Clients \ {c} : popped'[d] = popped[d]) /\ popped'[c] = {}
    BY <2>1 DEF TypeOK
  <2>3. \A k \in popped[c] :
            /\ k \in Conns
            /\ \A i \in 1 .. Len(m_pool) : m_pool[i] # k
            /\ \A d \in Clients : held[d] # k
            /\ \A d \in Clients \ {c} : k \notin popped[d]
    <3> SUFFICES ASSUME NEW k \in popped[c]
                 PROVE  /\ k \in Conns
                        /\ \A i \in 1 .. Len(m_pool) : m_pool[i] # k
                        /\ \A d \in Clients : held[d] # k
                        /\ \A d \in Clients \ {c} : k \notin popped[d]
      OBVIOUS
    <3>1. k \in Conns
      BY DEF TypeOK
    <3>2. ASSUME NEW i \in 1 .. Len(m_pool) PROVE m_pool[i] # k
      <4>1. m_pool[i] \notin popped[c]
        BY Zenon DEF Apart
      <4> QED  BY <4>1
    <3>3. ASSUME NEW d \in Clients PROVE held[d] # k
      <4>1. held[d] \notin popped[c]
        BY Zenon DEF Apart
      <4> QED  BY <4>1
    <3>4. \A d \in Clients \ {c} : k \notin popped[d]
      BY Zenon DEF Apart
    <3> QED  BY <3>1, <3>2, <3>3, <3>4
  <2>4. \A k \in Conns : k \in InUse' <=> k \in InUse /\ k \notin popped[c]
    BY <2>1, <2>2, <2>3, InUseLemma
  <2>5. InUse' = InUse \ popped[c]
    BY <2>4, InUseLemma
  <2>6. popped[c] \subseteq InUse
    BY <2>3, InUseLemma
  <2>7. IsFiniteSet(InUse)
    BY InUseLemma, FS_Subset DEF PoolAssumption
  <2>8. InUse \cap popped[c] = popped[c]
    BY <2>6
  <2>9. Cardinality(InUse \ popped[c])
            = Cardinality(InUse) - Cardinality(InUse \cap popped[c])
    BY <2>7, FS_Difference, Zenon
  <2>10. Cardinality(InUse') = Cardinality(InUse) - Cardinality(popped[c])
    BY <2>5, <2>8, <2>9, Zenon
  <2> QED  BY <2>1, <2>10, Zenon DEF TotalExact
<1>2. ASSUME NEW c \in Clients, Connect(c) PROVE TotalExact'
  <2>1. Fresh \in Conns \ InUse
    BY <1>2, FreshLemma DEF Connect
  <2>2. held[c] = NoConn
    BY <1>2 DEF Connect, Placed
  <2> QED  BY <1>2, <2>1, <2>2, HandCount DEF Connect
<1>3. ASSUME NEW c \in Clients, Release(c) PROVE TotalExact'
  <2>1. held[c] \in Conns
    BY <1>3 DEF Release, Placed, Holding, TypeOK
  <2>2. CASE held' = [held EXCEPT ![c] = NoConn] /\ m_total' = m_total - 1
    BY <1>3, <2>1, <2>2, HandCount DEF Release
  <2>3. CASE UNCHANGED <<m_total, held>>
    <3>1. UNCHANGED <<m_pool, held, popped, m_total>>
      BY <1>3, <2>3 DEF Release
    <3> QED  BY <3>1, InUseLemma, SameCount
  <2> QED  BY <1>3, <2>2, <2>3 DEF Release
<1>4. ASSUME NEW c \in Clients, Push(c) PROVE TotalExact'
  <2>1. held[c] \in Conns
    BY <1>4 DEF Push, Placed, Holding, TypeOK
  <2>2. CASE Len(m_pool) < MaxSize
    <3>1. /\ m_pool' = Append(m_pool, held[c]) /\ held' = [held EXCEPT ![c] = NoConn]
          /\ UNCHANGED <<m_total, popped>>
      BY <1>4, <2>2 DEF Push
    <3>2. m_pool \in Seq(Conns) /\ Len(m_pool) \in Nat
      BY LenProperties DEF TypeOK
    <3>3. /\ Len(m_pool') = Len(m_pool) + 1
          /\ \A i \in 1 .. Len(m_pool) : m_pool'[i] = m_pool[i]
          /\ m_pool'[Len(m_pool) + 1] = held[c]
      BY <2>1, <3>1, <3>2, AppendProperties
    <3>4. \A k : (\E i \in 1 .. Len(m_pool') : m_pool'[i] = k)
                <=> k = held[c] \/ \E i \in 1 .. Len(m_pool) : m_pool[i] = k
      BY <3>2, <3>3
    <3>5. (\A d \in Clients \ {c} : held'[d] = held[d]) /\ held'[c] = NoConn
      BY <3>1 DEF TypeOK
    <3>6. \A k \in Conns : k \in InUse' <=> k \in InUse
      BY <3>1, <3>4, <3>5, InUseLemma DEF PoolAssumption
    <3> QED  BY <3>1, <3>6, SameCount
  <2>3. CASE ~(Len(m_pool) < MaxSize)
    BY <1>4, <2>1, <2>3, HandCount DEF Push
  <2> QED  BY <2>2, <2>3
<1>5. ASSUME NEW c \in Clients,
             \/ \E u \in Urls : Request(c, u)
             \/ ConnectFails(c) \/ Send(c) \/ SendFails(c) \/ Recv(c) \/ RecvClosed(c)
             \/ RecvTimeout(c) \/ SendWaits(c) \/ RecvPart(c)
             \/ Drain(c) \/ DrainEnds(c) \/ Forget(c)
      PROVE  UNCHANGED <<m_pool, held, popped, m_total>>
  BY <1>5 DEF Request, ConnectFails, Send, SendWaits, SendFails, RecvPart, Recv, RecvClosed,
              RecvTimeout, Drain, DrainEnds, Forget, clientVars
<1>6. ASSUME Environment \/ UNCHANGED vars
      PROVE  UNCHANGED <<m_pool, held, popped, m_total>>
  BY <1>6 DEF Environment, Tick, Answer, Drip, Reads, HangUp, vars, clientVars
<1>7. ASSUME UNCHANGED <<m_pool, held, popped, m_total>> PROVE TotalExact'
  BY <1>7, InUseLemma, SameCount
<1> QED  BY <1>1, <1>2, <1>3, <1>4, <1>5, <1>6, <1>7, PopCount DEF Next, Step, Proceeds, Hindered

-----------------------------------------------------------------------------
(* The theorems *)

Inv == TypeOK /\ Placed /\ Apart /\ Readiness /\ TotalExact

\* The invariant holds at first, ...
LEMMA InitInv == PoolAssumption /\ Init => Inv
<1> SUFFICES ASSUME PoolAssumption, Init PROVE Inv
  OBVIOUS
<1>1. TypeOK
  BY InitTypeOK
<1>2. Placed /\ Apart /\ Readiness
  BY DEF Init, Placed, Holding, Apart, Readiness, PoolAssumption
<1>3. InUse = {}
  BY DEF Init, InUse, Idle, Borrowed, Invalid
<1>4. TotalExact
  BY <1>3, FS_EmptySet DEF Init, TotalExact
<1> QED  BY <1>1, <1>2, <1>4 DEF Inv

\* ... by every step, ...
LEMMA NextInv == PoolAssumption /\ Inv /\ [Next]_vars => Inv'
  BY NextTypeOK, NextPlaced, NextApart, NextReadiness, NextTotal DEF Inv

\* ... and is what the runs check.
LEMMA InvImplies == PoolAssumption /\ Inv => PoolConsistent
<1> SUFFICES ASSUME PoolAssumption, Inv PROVE PoolConsistent
  OBVIOUS
<1>1. m_pool \in Seq(Conns) /\ DOMAIN m_pool = 1 .. Len(m_pool)
  BY LenProperties DEF Inv, TypeOK
<1>2. IdleReady
  BY <1>1 DEF Inv, Readiness, IdleReady, Idle
<1>3. OneHolder
  <2>1. \A i, j \in DOMAIN m_pool : m_pool[i] = m_pool[j] => i = j
    BY <1>1 DEF Inv, Apart
  <2>2. Idle \cap (Borrowed \cup Invalid) = {}
    <3>1. \A k \in Idle : \E i \in 1 .. Len(m_pool) : k = m_pool[i]
      BY <1>1 DEF Idle
    <3>2. \A k \in Borrowed : \E c \in Clients : k = held[c]
      BY DEF Borrowed
    <3>3. \A k \in Invalid : \E c \in Clients : k \in popped[c]
      BY DEF Invalid
    <3>4. \A i \in 1 .. Len(m_pool), c \in Clients :
            m_pool[i] # held[c] /\ m_pool[i] \notin popped[c]
      BY DEF Inv, Apart
    <3>5. ASSUME NEW k \in Idle, k \in Borrowed PROVE FALSE
      BY <3>1, <3>2, <3>4, <3>5, Zenon
    <3>6. ASSUME NEW k \in Idle, k \in Invalid PROVE FALSE
      BY <3>1, <3>3, <3>4, <3>6, Zenon
    <3> QED  BY <3>5, <3>6
  <2>3. Borrowed \cap Invalid = {}
    <3>1. \A k \in Borrowed : \E c \in Clients : k = held[c]
      BY DEF Borrowed
    <3>2. \A k \in Invalid : \E c \in Clients : k \in popped[c]
      BY DEF Invalid
    <3>3. \A c, d \in Clients : held[c] \notin popped[d]
      BY Zenon DEF Inv, Apart
    <3> QED  BY <3>1, <3>2, <3>3, Zenon
  <2>4. \A c, d \in Clients :
          c # d => /\ held[c] = held[d] => held[c] = NoConn
                   /\ popped[c] \cap popped[d] = {}
    BY DEF Inv, Apart
  <2> QED  BY <2>1, <2>2, <2>3, <2>4 DEF OneHolder
<1> QED  BY <1>2, <1>3 DEF Inv, PoolConsistent

\* Every variable of the pool keeps its type, whatever the clients, the host and
\* the clock do.
THEOREM TypeCorrect == ASSUME PoolAssumption PROVE Spec => []TypeOK
<1>1. Init => Inv
  BY InitInv
<1>2. Inv /\ [Next]_vars => Inv'
  BY NextInv
<1>3. Inv => TypeOK
  BY DEF Inv
<1> QED  BY <1>1, <1>2, <1>3, PTL DEF Spec

\* The pool counts its connections (m_total), has each of them in one place, and
\* keeps no more than maxSize of them, none marked busy: for any number of
\* clients and connections, any limits, and a host that answers late, hangs up
\* or answers malformed (httpconnection.cpp:325-411, 514-598).
THEOREM PoolIsConsistent == ASSUME PoolAssumption PROVE Spec => []PoolConsistent
<1>1. Init => Inv
  BY InitInv
<1>2. Inv /\ [Next]_vars => Inv'
  BY NextInv
<1>3. Inv => PoolConsistent
  BY InvImplies
<1> QED  BY <1>1, <1>2, <1>3, PTL DEF Spec

-----------------------------------------------------------------------------
(* Whose answer it is *)

\* Nothing is under way on a connection that no client receives from, unless a
\* request on it was given up; on one that a client does receive from there is
\* at most its own request, or the answer to it.
NoStray ==
    \A k \in Conns :
        (k \notin abandoned /\ \A c \in Clients : pc[c] = "recv" => held[c] # k)
            => asked[k] = <<>> /\ inbound[k] = <<>>
InFlight ==
    \A c \in Clients :
        (pc[c] = "recv" /\ held[c] \notin abandoned)
            => \/ asked[held[c]] = <<url[c]>> /\ inbound[held[c]] = <<>>
               \/ /\ asked[held[c]] = <<>>
                  /\ \/ inbound[held[c]] = <<>>
                     \/ \E a \in Answers : a.url = url[c] /\ inbound[held[c]] = <<a>>
Traffic == (\A k \in hungUp : asked[k] = <<>>) /\ NoStray /\ InFlight

\* A step of a client that does not receive, and leaves the connections alone.
LEMMA TrafficKept ==
    ASSUME Traffic, NEW c \in Clients, pc[c] # "recv", pc'[c] # "recv",
           \A d \in Clients \ {c} : pc'[d] = pc[d] /\ held'[d] = held[d] /\ url'[d] = url[d],
           UNCHANGED <<peerVars, abandoned>>
    PROVE  Traffic'
<1>1. UNCHANGED <<asked, inbound, hungUp, abandoned>>
  BY DEF peerVars
<1>2. (\A k \in hungUp : asked[k] = <<>>)'
  BY <1>1 DEF Traffic
<1>3. NoStray'
  <2> SUFFICES ASSUME NEW k \in Conns, k \notin abandoned,
                      \A d \in Clients : pc'[d] = "recv" => held'[d] # k
               PROVE  asked[k] = <<>> /\ inbound[k] = <<>>
    BY <1>1 DEF NoStray
  <2>1. \A d \in Clients : pc[d] = "recv" => held[d] # k
    OBVIOUS
  <2> QED  BY <2>1 DEF Traffic, NoStray
<1>4. InFlight'
  <2> SUFFICES ASSUME NEW d \in Clients, pc'[d] = "recv", held'[d] \notin abandoned'
               PROVE  \/ asked[held[d]] = <<url[d]>> /\ inbound[held[d]] = <<>>
                      \/ /\ asked[held[d]] = <<>>
                         /\ \/ inbound[held[d]] = <<>>
                            \/ \E a \in Answers : a.url = url[d] /\ inbound[held[d]] = <<a>>
    BY <1>1 DEF InFlight
  <2>1. pc[d] = "recv" /\ held[d] \notin abandoned
    BY <1>1
  <2> QED  BY <2>1 DEF Traffic, InFlight
<1> QED  BY <1>2, <1>3, <1>4 DEF Traffic

\* Deleting connections that no other client receives from.
LEMMA TrafficDeleted ==
    ASSUME TypeOK, Traffic, NEW c \in Clients, pc[c] # "recv", pc'[c] # "recv",
           \A d \in Clients \ {c} : pc'[d] = pc[d] /\ held'[d] = held[d] /\ url'[d] = url[d],
           NEW gone, Delete(gone),
           \A d \in Clients \ {c} : pc[d] = "recv" => held[d] \in Conns \ gone
    PROVE  Traffic'
<1>1. /\ hungUp' = hungUp \ gone /\ abandoned' = abandoned \ gone
      /\ \A k \in Conns : asked'[k] = IF k \in gone THEN <<>> ELSE asked[k]
      /\ \A k \in Conns : inbound'[k] = IF k \in gone THEN <<>> ELSE inbound[k]
  BY DEF Delete
<1>2. (\A k \in hungUp : asked[k] = <<>>)'
  BY <1>1 DEF Traffic, TypeOK
<1>3. NoStray'
  <2> SUFFICES ASSUME NEW k \in Conns, k \notin abandoned',
                      \A d \in Clients : pc'[d] = "recv" => held'[d] # k
               PROVE  asked'[k] = <<>> /\ inbound'[k] = <<>>
    BY DEF NoStray
  <2>1. CASE k \in gone
    BY <1>1, <2>1
  <2>2. CASE k \notin gone
    <3>1. k \notin abandoned /\ \A d \in Clients : pc[d] = "recv" => held[d] # k
      BY <1>1, <2>2
    <3>2. asked[k] = <<>> /\ inbound[k] = <<>>
      BY <3>1 DEF Traffic, NoStray
    <3> QED  BY <1>1, <2>2, <3>2
  <2> QED  BY <2>1, <2>2
<1>4. InFlight'
  <2> SUFFICES ASSUME NEW d \in Clients, pc'[d] = "recv", held'[d] \notin abandoned'
               PROVE  \/ asked'[held'[d]] = <<url'[d]>> /\ inbound'[held'[d]] = <<>>
                      \/ /\ asked'[held'[d]] = <<>>
                         /\ \/ inbound'[held'[d]] = <<>>
                            \/ \E a \in Answers : a.url = url'[d] /\ inbound'[held'[d]] = <<a>>
    BY DEF InFlight
  <2>1. d # c /\ pc[d] = "recv" /\ held'[d] = held[d] /\ url'[d] = url[d]
    OBVIOUS
  <2>2. held[d] \in Conns \ gone
    BY <2>1
  <2>3. /\ held[d] \notin abandoned
        /\ asked'[held[d]] = asked[held[d]] /\ inbound'[held[d]] = inbound[held[d]]
    BY <1>1, <2>1, <2>2
  <2>4. \/ asked[held[d]] = <<url[d]>> /\ inbound[held[d]] = <<>>
        \/ /\ asked[held[d]] = <<>>
           /\ \/ inbound[held[d]] = <<>>
              \/ \E a \in Answers : a.url = url[d] /\ inbound[held[d]] = <<a>>
    BY <2>1, <2>3 DEF Traffic, InFlight
  <2> QED  BY <2>1, <2>3, <2>4
<1> QED  BY <1>2, <1>3, <1>4 DEF Traffic

\* What a client that receives does to the connection it holds, and to no other:
\* when it goes on to release it, nothing is left there, or it is abandoned.
LEMMA TrafficReceived ==
    ASSUME PoolAssumption, TypeOK, Placed, Apart, Traffic,
           NEW c \in Clients, held[c] \in Conns, pc'[c] # "recv",
           \A d \in Clients \ {c} : pc'[d] = pc[d],
           UNCHANGED <<held, url, asked, hungUp>>,
           \A k \in Conns \ {held[c]} : /\ inbound'[k] = inbound[k]
                                        /\ k \in abandoned' <=> k \in abandoned,
           held[c] \in abandoned' \/ (asked[held[c]] = <<>> /\ inbound'[held[c]] = <<>>)
    PROVE  Traffic'
<1>1. NoStray'
  <2> SUFFICES ASSUME NEW k \in Conns, k \notin abandoned',
                      \A d \in Clients : pc'[d] = "recv" => held[d] # k
               PROVE  asked[k] = <<>> /\ inbound'[k] = <<>>
    BY DEF NoStray
  <2>1. CASE k # held[c]
    <3>1. k \notin abandoned /\ \A d \in Clients : pc[d] = "recv" => held[d] # k
      BY <2>1
    <3> QED  BY <2>1, <3>1 DEF Traffic, NoStray
  <2> QED  BY <2>1
<1>2. InFlight'
  <2> SUFFICES ASSUME NEW d \in Clients, pc'[d] = "recv", held[d] \notin abandoned'
               PROVE  \/ asked[held[d]] = <<url[d]>> /\ inbound'[held[d]] = <<>>
                      \/ /\ asked[held[d]] = <<>>
                         /\ \/ inbound'[held[d]] = <<>>
                            \/ \E a \in Answers : a.url = url[d] /\ inbound'[held[d]] = <<a>>
    BY DEF InFlight
  <2>1. d # c /\ pc[d] = "recv"
    OBVIOUS
  <2>2. held[d] # held[c]
    BY <2>1 DEF Apart, PoolAssumption
  <2>3. held[d] \in Conns
    BY <2>1 DEF Placed, Holding, TypeOK
  <2>4. held[d] \notin abandoned /\ inbound'[held[d]] = inbound[held[d]]
    BY <2>2, <2>3
  <2> QED  BY <2>1, <2>4 DEF Traffic, InFlight
<1> QED  BY <1>1, <1>2 DEF Traffic

\* Every step keeps Traffic.
LEMMA NextTraffic ==
    ASSUME PoolAssumption, TypeOK, TypeOK', Placed, Apart, Traffic, [Next]_vars
    PROVE  Traffic'
<1>a. \A c \in Clients : pc[c] \in Holding => held[c] \in Conns
  BY DEF Placed, TypeOK
<1>b. \A c, d \in Clients :
        c # d /\ pc[c] \in Holding /\ pc[d] \in Holding => held[c] # held[d]
  BY <1>a DEF Apart, PoolAssumption
<1>1. ASSUME NEW c \in Clients,
             \/ \E u \in Urls : Request(c, u)
             \/ Pop(c) \/ Connect(c) \/ ConnectFails(c) \/ SendFails(c) \/ DrainEnds(c)
             \/ Forget(c)
      PROVE  Traffic'
  <2>1. pc[c] # "recv" /\ pc'[c] # "recv" /\ UNCHANGED <<peerVars, abandoned>>
    BY <1>1 DEF Request, Pop, Connect, ConnectFails, SendFails, DrainEnds, Forget, Goto,
                TypeOK
  <2>2. \A d \in Clients \ {c} : pc'[d] = pc[d] /\ held'[d] = held[d] /\ url'[d] = url[d]
    BY <1>1 DEF Request, Pop, Connect, ConnectFails, SendFails, DrainEnds, Forget, Goto,
                TypeOK
  <2> QED  BY <2>1, <2>2, TrafficKept
<1>2. ASSUME NEW c \in Clients, Discard(c) PROVE Traffic'
  <2>1. pc[c] # "recv" /\ pc'[c] # "recv" /\ Delete(popped[c])
    BY <1>2 DEF Discard, Goto, TypeOK
  <2>2. \A d \in Clients \ {c} : pc'[d] = pc[d] /\ held'[d] = held[d] /\ url'[d] = url[d]
    BY <1>2 DEF Discard, Goto, TypeOK
  <2>3. \A d \in Clients \ {c} : pc[d] = "recv" => held[d] \in Conns \ popped[c]
    BY <1>a DEF Apart, Holding
  <2> QED  BY <2>1, <2>2, <2>3, TrafficDeleted
<1>3. ASSUME NEW c \in Clients, Release(c) \/ Push(c) PROVE Traffic'
  <2>1. pc[c] \in Holding /\ pc[c] # "recv" /\ pc'[c] # "recv"
    BY <1>3 DEF Release, Push, Goto, TypeOK, Holding
  <2>2. \A d \in Clients \ {c} : pc'[d] = pc[d] /\ held'[d] = held[d] /\ url'[d] = url[d]
    BY <1>3 DEF Release, Push, Goto, TypeOK
  <2>3. CASE Delete({held[c]})
    <3>1. \A d \in Clients \ {c} : pc[d] = "recv" => held[d] \in Conns \ {held[c]}
      BY <2>1, <1>a, <1>b DEF Holding
    <3> QED  BY <2>1, <2>2, <2>3, <3>1, TrafficDeleted
  <2>4. CASE UNCHANGED <<peerVars, abandoned>>
    BY <2>1, <2>2, <2>4, TrafficKept
  <2> QED  BY <1>3, <2>3, <2>4 DEF Release, Push
<1>4. ASSUME NEW c \in Clients, Send(c) PROVE Traffic'
  <2>1. /\ pc[c] = "send" /\ pc' = [pc EXCEPT ![c] = "recv"]
        /\ asked' = IF held[c] \in hungUp THEN asked
                    ELSE [asked EXCEPT ![held[c]] = Append(@, url[c])]
        /\ UNCHANGED <<inbound, hungUp, abandoned, held, url>>
    BY <1>4 DEF Send, Goto, peerVars
  <2>2. pc'[c] = "recv" /\ \A d \in Clients \ {c} : pc'[d] = pc[d]
    BY <2>1 DEF TypeOK
  <2>3. held[c] \in Conns
    BY <2>1, <1>a DEF Holding
  <2>4. held[c] \notin abandoned => asked[held[c]] = <<>> /\ inbound[held[c]] = <<>>
    BY <2>1, <2>3, <1>b DEF Traffic, NoStray, Holding
  <2>5. \A k \in Conns \ {held[c]} : asked'[k] = asked[k]
    BY <2>1 DEF TypeOK
  <2>6. held[c] \in hungUp => asked' = asked
    BY <2>1
  <2>7. held[c] \notin hungUp /\ asked[held[c]] = <<>> => asked'[held[c]] = <<url[c]>>
    BY <2>1, <2>3 DEF TypeOK
  <2>8. (\A k \in hungUp : asked[k] = <<>>)'
    BY <2>1, <2>5, <2>6 DEF Traffic, TypeOK
  <2>9. NoStray'
    <3> SUFFICES ASSUME NEW k \in Conns, k \notin abandoned,
                        \A d \in Clients : pc'[d] = "recv" => held[d] # k
                 PROVE  asked'[k] = <<>> /\ inbound[k] = <<>>
      BY <2>1 DEF NoStray
    <3>1. k # held[c] /\ \A d \in Clients : pc[d] = "recv" => held[d] # k
      BY <2>1, <2>2
    <3> QED  BY <3>1, <2>5 DEF Traffic, NoStray
  <2>10. InFlight'
    <3> SUFFICES ASSUME NEW d \in Clients, pc'[d] = "recv", held[d] \notin abandoned
                 PROVE  \/ asked'[held[d]] = <<url[d]>> /\ inbound[held[d]] = <<>>
                        \/ /\ asked'[held[d]] = <<>>
                           /\ \/ inbound[held[d]] = <<>>
                              \/ \E a \in Answers : a.url = url[d] /\ inbound[held[d]] = <<a>>
      BY <2>1 DEF InFlight
    <3>1. CASE d = c
      BY <2>4, <2>6, <2>7, <3>1
    <3>2. CASE d # c
      <4>1. pc[d] = "recv" /\ held[d] \in Conns \ {held[c]}
        BY <2>1, <2>2, <3>2, <1>a, <1>b DEF Holding
      <4> QED  BY <2>5, <4>1 DEF Traffic, InFlight
    <3> QED  BY <3>1, <3>2
  <2> QED  BY <2>8, <2>9, <2>10 DEF Traffic
<1>4a. ASSUME NEW c \in Clients, SendWaits(c) PROVE Traffic'
  <2>1. UNCHANGED <<asked, inbound, hungUp, abandoned, pc, held, url>>
    BY <1>4a DEF SendWaits, clientVars
  <2> QED  BY <2>1 DEF Traffic, NoStray, InFlight
<1>4b. ASSUME NEW c \in Clients, RecvPart(c) PROVE Traffic'
  <2>1. pc[c] = "recv" /\ UNCHANGED <<asked, inbound, hungUp, abandoned, held, url>>
    BY <1>4b DEF RecvPart
  <2>2. CASE UNCHANGED pc
    BY <2>1, <2>2 DEF Traffic, NoStray, InFlight
  <2>3. CASE held[c] \in abandoned /\ Goto(c, "release")
    <3>1. held[c] \in Conns
      BY <2>1, <1>a DEF Holding
    <3>2. pc'[c] # "recv" /\ \A d \in Clients \ {c} : pc'[d] = pc[d]
      BY <2>3 DEF Goto, TypeOK
    <3> QED  BY <2>1, <2>3, <3>1, <3>2, TrafficReceived
  <2> QED  BY <1>4b, <2>2, <2>3 DEF RecvPart
<1>5. ASSUME NEW c \in Clients, Recv(c) PROVE Traffic'
  <2>1. /\ pc[c] = "recv" /\ pc' = [pc EXCEPT ![c] = "release"]
        /\ inbound[held[c]] # <<>>
        /\ UNCHANGED <<asked, hungUp, held, url>>
        /\ abandoned' = abandoned \/ abandoned' = abandoned \cup {held[c]}
    BY <1>5 DEF Recv, Goto
  <2>2. PICK n \in 1 .. Len(inbound[held[c]]) :
          inbound' = [inbound EXCEPT ![held[c]] = SubSeq(@, n + 1, Len(@))]
    BY <1>5 DEF Recv
  <2>3. held[c] \in Conns /\ inbound[held[c]] \in Seq(Answers)
    BY <2>1, <1>a DEF Holding, TypeOK
  <2>4. pc'[c] # "recv" /\ \A d \in Clients \ {c} : pc'[d] = pc[d]
    BY <2>1 DEF TypeOK
  <2>5. \A k \in Conns \ {held[c]} : /\ inbound'[k] = inbound[k]
                                     /\ k \in abandoned' <=> k \in abandoned
    BY <2>1, <2>2 DEF TypeOK
  <2>6. ASSUME held[c] \notin abandoned'
        PROVE  asked[held[c]] = <<>> /\ inbound'[held[c]] = <<>>
    <3>1. held[c] \notin abandoned
      BY <2>1, <2>6
    <3>2. asked[held[c]] = <<>> /\ \E a \in Answers : inbound[held[c]] = <<a>>
      BY <2>1, <3>1 DEF Traffic, InFlight
    <3>3. PICK a \in Answers : inbound[held[c]] = <<a>>
      BY <3>2
    <3>4. Len(inbound[held[c]]) = 1 /\ n = 1
      BY <3>3
    <3>5. inbound'[held[c]] = SubSeq(inbound[held[c]], n + 1, Len(inbound[held[c]]))
      BY <2>2, <2>3 DEF TypeOK
    <3>6. SubSeq(<<a>>, 2, 1) = <<>>
      OBVIOUS
    <3> QED  BY <3>2, <3>3, <3>4, <3>5, <3>6
  <2>7. UNCHANGED <<held, url, asked, hungUp>>
    BY <2>1
  <2>8. held[c] \in abandoned' \/ (asked[held[c]] = <<>> /\ inbound'[held[c]] = <<>>)
    BY <2>6
  <2>9. held[c] \in Conns
    BY <2>3
  <2>10. pc'[c] # "recv"
    BY <2>4
  <2>11. \A d \in Clients \ {c} : pc'[d] = pc[d]
    BY <2>4
  <2> QED  BY <2>5, <2>7, <2>8, <2>9, <2>10, <2>11, TrafficReceived, Zenon
<1>6. ASSUME NEW c \in Clients, RecvClosed(c) \/ RecvTimeout(c) PROVE Traffic'
  <2>1. /\ pc[c] = "recv" /\ pc' = [pc EXCEPT ![c] = "release"]
        /\ inbound[held[c]] = <<>>
        /\ UNCHANGED <<asked, inbound, hungUp, held, url>>
        /\ \/ abandoned' = abandoned /\ held[c] \in hungUp
           \/ abandoned' = abandoned \cup {held[c]}
    BY <1>6 DEF RecvClosed, RecvTimeout, Silent, Goto, peerVars
  <2>2. held[c] \in Conns
    BY <2>1, <1>a DEF Holding
  <2>3. pc'[c] # "recv" /\ \A d \in Clients \ {c} : pc'[d] = pc[d]
    BY <2>1 DEF TypeOK
  <2>4. \A k \in Conns \ {held[c]} : /\ inbound'[k] = inbound[k]
                                     /\ k \in abandoned' <=> k \in abandoned
    BY <2>1
  <2>5. held[c] \in abandoned' \/ (asked[held[c]] = <<>> /\ inbound'[held[c]] = <<>>)
    BY <2>1 DEF Traffic
  <2> QED  BY <2>1, <2>2, <2>3, <2>4, <2>5, TrafficReceived
<1>7. ASSUME NEW c \in Clients, Drain(c) PROVE Traffic'
  <2>1. /\ pc[c] = "drain" /\ UNCHANGED <<asked, hungUp, abandoned, pc, held, url>>
        /\ inbound' = [inbound EXCEPT ![held[c]] = <<>>]
    BY <1>7 DEF Drain, clientVars
  <2>2. \A k \in Conns : inbound'[k] = inbound[k] \/ inbound'[k] = <<>>
    BY <2>1 DEF TypeOK
  <2>3. \A d \in Clients : pc[d] = "recv" => inbound'[held[d]] = inbound[held[d]]
    BY <2>1, <1>a, <1>b DEF Holding, TypeOK
  <2>4. (\A k \in hungUp : asked[k] = <<>>)'
    BY <2>1 DEF Traffic
  <2>5. NoStray'
    BY <2>1, <2>2 DEF Traffic, NoStray
  <2>6. InFlight'
    BY <2>1, <2>3 DEF Traffic, InFlight
  <2> QED  BY <2>4, <2>5, <2>6 DEF Traffic
<1>8. ASSUME NEW k \in Conns, Answer(k) PROVE Traffic'
  <2>1. PICK a \in Answers :
          /\ a.url = Head(asked[k]) /\ asked[k] # <<>>
          /\ inbound' = [inbound EXCEPT ![k] = Append(@, a)]
          /\ asked' = [asked EXCEPT ![k] = Tail(@)]
          /\ UNCHANGED <<hungUp, abandoned, pc, held, url>>
          /\ k \notin hungUp
    BY <1>8 DEF Answer, clientVars
  <2>2. \A n \in Conns \ {k} : asked'[n] = asked[n] /\ inbound'[n] = inbound[n]
    BY <2>1 DEF TypeOK
  <2>3. asked'[k] = Tail(asked[k]) /\ inbound'[k] = Append(inbound[k], a)
    BY <2>1 DEF TypeOK
  <2>4. (\A n \in hungUp : asked[n] = <<>>)'
    BY <2>1, <2>2 DEF Traffic, TypeOK
  <2>5. NoStray'
    <3> SUFFICES ASSUME NEW n \in Conns, n \notin abandoned,
                        \A d \in Clients : pc[d] = "recv" => held[d] # n
                 PROVE  asked'[n] = <<>> /\ inbound'[n] = <<>>
      BY <2>1 DEF NoStray
    <3>1. asked[n] = <<>> /\ inbound[n] = <<>>
      BY DEF Traffic, NoStray
    <3> QED  BY <2>1, <2>2, <3>1
  <2>6. InFlight'
    <3> SUFFICES ASSUME NEW d \in Clients, pc[d] = "recv", held[d] \notin abandoned
                 PROVE  \/ asked'[held[d]] = <<url[d]>> /\ inbound'[held[d]] = <<>>
                        \/ /\ asked'[held[d]] = <<>>
                           /\ \/ inbound'[held[d]] = <<>>
                              \/ \E b \in Answers : /\ b.url = url[d]
                                                    /\ inbound'[held[d]] = <<b>>
      BY <2>1 DEF InFlight
    <3>1. CASE held[d] # k
      <4>1. held[d] \in Conns \ {k}
        BY <1>a, <3>1 DEF Holding
      <4> QED  BY <2>2, <4>1 DEF Traffic, InFlight
    <3>2. CASE held[d] = k
      <4>1. asked[k] = <<url[d]>> /\ inbound[k] = <<>>
        BY <2>1, <3>2 DEF Traffic, InFlight
      <4>2. asked'[k] = <<>> /\ inbound'[k] = <<a>> /\ a.url = url[d]
        BY <2>1, <2>3, <4>1
      <4> QED  BY <3>2, <4>2
    <3> QED  BY <3>1, <3>2
  <2> QED  BY <2>4, <2>5, <2>6 DEF Traffic
<1>9. ASSUME NEW k \in Conns, HangUp(k) PROVE Traffic'
  <2>1. /\ hungUp' = hungUp \cup {k} /\ asked' = [asked EXCEPT ![k] = <<>>]
        /\ UNCHANGED <<inbound, abandoned, pc, held, url>>
    BY <1>9 DEF HangUp, clientVars
  <2>2. asked'[k] = <<>> /\ \A n \in Conns \ {k} : asked'[n] = asked[n]
    BY <2>1 DEF TypeOK
  <2>3. (\A n \in hungUp : asked[n] = <<>>)'
    BY <2>1, <2>2 DEF Traffic, TypeOK
  <2>4. NoStray'
    BY <2>1, <2>2 DEF Traffic, NoStray
  <2>5. InFlight'
    <3> SUFFICES ASSUME NEW d \in Clients, pc[d] = "recv", held[d] \notin abandoned
                 PROVE  \/ asked'[held[d]] = <<url[d]>> /\ inbound[held[d]] = <<>>
                        \/ /\ asked'[held[d]] = <<>>
                           /\ \/ inbound[held[d]] = <<>>
                              \/ \E b \in Answers : b.url = url[d] /\ inbound[held[d]] = <<b>>
      BY <2>1 DEF InFlight
    <3>1. held[d] \in Conns
      BY <1>a DEF Holding
    <3>2. asked'[held[d]] = <<>> \/ asked'[held[d]] = asked[held[d]]
      BY <2>2, <3>1
    <3> QED  BY <3>2 DEF Traffic, InFlight
  <2> QED  BY <2>3, <2>4, <2>5 DEF Traffic
<1>10. ASSUME Tick \/ UNCHANGED vars \/ \E k \in Conns : Drip(k) \/ Reads(k)
       PROVE  Traffic'
  <2>1. UNCHANGED <<asked, inbound, hungUp, abandoned, pc, held, url>>
    BY <1>10 DEF Tick, Drip, Reads, vars, peerVars, clientVars
  <2> QED  BY <2>1 DEF Traffic, NoStray, InFlight
<1> QED  BY <1>1, <1>2, <1>3, <1>4, <1>4a, <1>4b, <1>5, <1>6, <1>7, <1>8, <1>9, <1>10
         DEF Next, Step, Proceeds, Hindered, Environment

\* A response is put into result by Recv only, and stays there with its url.
LEMMA NextOwn ==
    ASSUME PoolAssumption, TypeOK, TypeOK', Traffic, AnswerIsOwn, [Next]_vars
    PROVE  AnswerIsOwn'
<1>2. ASSUME NEW c \in Clients, Recv(c) PROVE AnswerIsOwn'
  <2>1. UNCHANGED url /\ pc[c] = "recv" /\ inbound[held[c]] # <<>>
    BY <1>2 DEF Recv
  <2>2. \/ result' = [result EXCEPT ![c] = Failed]
        \/ result' = [result EXCEPT ![c] = [kind |-> "ok", answer |-> Head(inbound[held[c]]),
                                            sure |-> held[c] \notin abandoned]]
    BY <1>2 DEF Recv, Return
  <2>3. held[c] \notin abandoned => Head(inbound[held[c]]).url = url[c]
    BY <2>1 DEF Traffic, InFlight
  <2>4. UNCHANGED url /\ \A d \in Clients \ {c} : result'[d] = result[d]
    BY <2>1, <2>2 DEF TypeOK
  <2>5. result'[c].kind = "ok" /\ result'[c].sure => result'[c].answer.url = url[c]
    <3>1. CASE result' = [result EXCEPT ![c] = Failed]
      BY <3>1 DEF TypeOK, Failed
    <3>2. CASE result' = [result EXCEPT
                            ![c] = [kind |-> "ok", answer |-> Head(inbound[held[c]]),
                                    sure |-> held[c] \notin abandoned]]
      <4>1. result'[c] = [kind |-> "ok", answer |-> Head(inbound[held[c]]),
                          sure |-> held[c] \notin abandoned]
        BY <3>2 DEF TypeOK
      <4>2. result'[c].answer = Head(inbound[held[c]])
        BY <4>1
      <4>3. result'[c].sure = (held[c] \notin abandoned)
        BY <4>1
      <4> QED  BY <2>3, <4>2, <4>3, Zenon
    <3> QED  BY <2>2, <3>1, <3>2
  <2> QED  BY <2>4, <2>5 DEF AnswerIsOwn
<1>3. ASSUME NEW c \in Clients,
             ConnectFails(c) \/ SendFails(c) \/ RecvClosed(c) \/ RecvTimeout(c)
      PROVE  AnswerIsOwn'
  <2>1. UNCHANGED url /\ result' = [result EXCEPT ![c] = Failed]
    BY <1>3 DEF ConnectFails, SendFails, RecvClosed, RecvTimeout, Return
  <2> QED  BY <2>1 DEF AnswerIsOwn, TypeOK, Failed
<1>3a. ASSUME NEW c \in Clients, RecvPart(c) PROVE AnswerIsOwn'
  <2>1. UNCHANGED url
    BY <1>3a DEF RecvPart
  <2>2. CASE UNCHANGED result
    BY <2>1, <2>2 DEF AnswerIsOwn
  <2>3. CASE result' = [result EXCEPT ![c] = Failed]
    BY <2>1, <2>3 DEF AnswerIsOwn, TypeOK, Failed
  <2> QED  BY <1>3a, <2>2, <2>3 DEF RecvPart, Return
<1>4. ASSUME NEW c \in Clients, NEW u \in Urls, Request(c, u) PROVE AnswerIsOwn'
  <2>1. UNCHANGED result /\ result[c].kind = "none" /\ url' = [url EXCEPT ![c] = u]
    BY <1>4 DEF Request, NoResult
  <2> QED  BY <2>1 DEF AnswerIsOwn, TypeOK
<1>5. ASSUME NEW c \in Clients, Forget(c) PROVE AnswerIsOwn'
  <2>1. result' = [result EXCEPT ![c] = NoResult] /\ url' = [url EXCEPT ![c] = NoUrl]
    BY <1>5 DEF Forget, Return
  <2> QED  BY <2>1 DEF AnswerIsOwn, TypeOK, NoResult
<1>6. ASSUME NEW c \in Clients,
             \/ Pop(c) \/ Discard(c) \/ Connect(c) \/ Send(c) \/ SendWaits(c) \/ Release(c)
             \/ Drain(c) \/ DrainEnds(c) \/ Push(c)
      PROVE  UNCHANGED <<url, result>>
  BY <1>6 DEF Pop, Discard, Connect, Send, SendWaits, Release, Drain, DrainEnds, Push, clientVars
<1>7. ASSUME Environment \/ UNCHANGED vars PROVE UNCHANGED <<url, result>>
  BY <1>7 DEF Environment, Tick, Answer, Drip, Reads, HangUp, vars, clientVars
<1>8. ASSUME UNCHANGED <<url, result>> PROVE AnswerIsOwn'
  BY <1>8 DEF AnswerIsOwn
<1> QED  BY <1>2, <1>3, <1>3a, <1>4, <1>5, <1>6, <1>7, <1>8
         DEF Next, Step, Proceeds, Hindered

\* Unless an earlier request on the connection was given up, the response a
\* caller gets is the answer to its own request: for any number of clients and
\* connections, however the host answers and whatever the reads come with
\* (httpconnection.cpp:418-505, 581).
THEOREM ResponsesMatch == ASSUME PoolAssumption PROVE Spec => []AnswerIsOwn
<1>1. Init => Inv /\ Traffic /\ AnswerIsOwn
  <2> SUFFICES ASSUME Init PROVE Traffic /\ AnswerIsOwn
    BY InitInv
  <2>1. Traffic
    BY DEF Init, Traffic, NoStray, InFlight
  <2>2. AnswerIsOwn
    BY DEF Init, AnswerIsOwn, NoResult
  <2> QED  BY <2>1, <2>2
<1>2. (Inv /\ Traffic /\ AnswerIsOwn) /\ [Next]_vars => (Inv /\ Traffic /\ AnswerIsOwn)'
  <2> SUFFICES ASSUME Inv, Traffic, AnswerIsOwn, [Next]_vars
               PROVE  Inv' /\ Traffic' /\ AnswerIsOwn'
    OBVIOUS
  <2>1. Inv'
    BY NextInv
  <2> QED  BY <2>1, NextTraffic, NextOwn DEF Inv
<1> QED  BY <1>1, <1>2, PTL DEF Spec
=============================================================================
