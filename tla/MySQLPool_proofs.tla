----------------------------- MODULE MySQLPool_proofs -----------------------------
(***************************************************************************)
(* No database connection is lost or forgotten, for any number of threads  *)
(* and connections.                                                        *)
(***************************************************************************)
EXTENDS MySQLPool, TLAPS, FiniteSetTheorems, SequenceTheorems

\* A thread has a connection from the end of its wait until it gives it back.
HasOne == {"ping", "use", "used"}

\* NoneLost, place by place.
Placed ==
    /\ \A t \in Threads : borrowed[t] # NoConnection <=> where[t] \in HasOne
    /\ \A i, j \in 1 .. Len(m_pool) : m_pool[i] = m_pool[j] => i = j
    /\ \A t, u \in Threads :
        t # u /\ borrowed[t] = borrowed[u] => borrowed[t] = NoConnection
    /\ \A i \in 1 .. Len(m_pool), t \in Threads : m_pool[i] # borrowed[t]
    /\ \A c \in Connections :
        (\E i \in 1 .. Len(m_pool) : m_pool[i] = c) \/ \E t \in Threads : borrowed[t] = c
    /\ m_idle = Len(m_pool)

Awake == {t \in Threads : where[t] \in {"woken", "look"}}

Inv == TypeOK /\ Placed /\ NoneForgotten

-----------------------------------------------------------------------------

\* The connections _init has pushed: each of them once.
LEMMA Pushed ==
    ASSUME NEW S, IsFiniteSet(S)
    PROVE  /\ SetToSeq(S) \in Seq(S) /\ Len(SetToSeq(S)) = Cardinality(S)
           /\ \A i, j \in 1 .. Cardinality(S) : SetToSeq(S)[i] = SetToSeq(S)[j] => i = j
           /\ \A c \in S : \E i \in 1 .. Cardinality(S) : SetToSeq(S)[i] = c
<1> DEFINE n == Cardinality(S)
           q == SetToSeq(S)
<1>1. n \in Nat /\ ExistsBijection(1 .. n, S)
  BY FS_CardinalityType
<1>2. \E f \in [1 .. n -> S] : IsInjective(f)
  BY <1>1 DEF ExistsBijection, Bijection, Injection
<1>3. q \in [1 .. n -> S] /\ IsInjective(q)
  BY <1>2 DEF SetToSeq
<1>4. \A i, j \in 1 .. n : q[i] = q[j] => i = j
  BY <1>3 DEF IsInjective
<1>5. q \in Seq(S) /\ Len(q) = n
  BY <1>1, <1>3
<1>6. \A c \in S : \E i \in 1 .. n : q[i] = c
  <2>1. IsFiniteSet(1 .. n) /\ Cardinality(1 .. n) = n
    BY <1>1, FS_Interval
  <2>2. q \in Injection(1 .. n, S)
    BY <1>3 DEF Injection
  <2>3. q \in Surjection(1 .. n, S)
    BY <2>1, <2>2, FS_Injection
  <2> QED  BY <2>3 DEF Surjection
<1> QED  BY <1>4, <1>5, <1>6

\* At first every connection is idle and no thread is anywhere.
LEMMA InitInv == ASSUME MySQLAssumption, Init PROVE Inv
<1>1. /\ m_pool \in Seq(Connections) /\ Len(m_pool) = Cardinality(Connections)
      /\ \A i, j \in 1 .. Len(m_pool) : m_pool[i] = m_pool[j] => i = j
      /\ \A c \in Connections : \E i \in 1 .. Len(m_pool) : m_pool[i] = c
  BY Pushed DEF Init, MySQLAssumption
<1>2. Cardinality(Connections) \in Nat
  BY FS_CardinalityType DEF MySQLAssumption
<1>3. TypeOK
  BY <1>1, <1>2 DEF Init, TypeOK
<1>4. Placed
  <2>1. \A i \in 1 .. Len(m_pool) : m_pool[i] \in Connections
    BY <1>1, ElementOfSeq
  <2> QED  BY <1>1, <2>1 DEF Init, Placed, HasOne, MySQLAssumption
<1>5. NoneForgotten
  BY DEF Init, NoneForgotten
<1> QED  BY <1>3, <1>4, <1>5 DEF Inv

\* Every step keeps the types.
LEMMA NextTypeOK == ASSUME MySQLAssumption, TypeOK, Placed, [Next]_vars PROVE TypeOK'
<1> USE DEF TypeOK
<1>1. ASSUME NEW t \in Threads, Take(t) PROVE TypeOK'
  <2>1. Head(m_pool) \in Connections /\ Tail(m_pool) \in Seq(Connections)
    BY <1>1, HeadTailProperties DEF Take
  <2> QED  BY <1>1, <2>1 DEF Take, Goto
<1>2. ASSUME NEW t \in Threads, Release(t) PROVE TypeOK'
  <2>1. borrowed[t] \in Connections
    BY <1>2 DEF Release, Placed, HasOne
  <2>2. Append(m_pool, borrowed[t]) \in Seq(Connections)
    BY <2>1, AppendProperties
  <2>3. where' \in [Threads -> {"out", "look", "asleep", "woken", "ping", "use", "used"}]
    BY <1>2 DEF Release
  <2> QED  BY <1>2, <2>2, <2>3 DEF Release
<1>3. ASSUME NEW t \in Threads,
             Lock(t) \/ Sleep(t) \/ GiveUp(t) \/ Timeout(t) \/ Ping(t) \/ Use(t)
      PROVE  TypeOK'
  BY <1>3 DEF Lock, Sleep, GiveUp, Timeout, Ping, Use, Goto
<1>4. ASSUME NEW c \in Connections, Drop(c) PROVE TypeOK'
  BY <1>4 DEF Drop
<1>5. CASE UNCHANGED vars
  BY <1>5 DEF vars
<1> QED  BY <1>1, <1>2, <1>3, <1>4, <1>5 DEF Next

\* Every step leaves each connection in one place.
LEMMA NextPlaced == ASSUME MySQLAssumption, TypeOK, Placed, [Next]_vars PROVE Placed'
<1>a. m_pool \in Seq(Connections) /\ Len(m_pool) \in Nat
      /\ \A i \in 1 .. Len(m_pool) : m_pool[i] \in Connections
  BY LenProperties, ElementOfSeq DEF TypeOK
<1>b. NoConnection \notin Connections
  BY DEF MySQLAssumption
<1>1. ASSUME NEW t \in Threads, Take(t) PROVE Placed'
  <2>1. /\ where[t] = "look" /\ m_pool # <<>>
        /\ borrowed'[t] = Head(m_pool) /\ where'[t] = "ping"
        /\ \A u \in Threads \ {t} : borrowed'[u] = borrowed[u] /\ where'[u] = where[u]
        /\ m_pool' = Tail(m_pool) /\ m_idle' = m_idle - 1
    BY <1>1 DEF Take, Goto, TypeOK
  <2>2. /\ Len(m_pool) \in Nat \ {0} /\ Head(m_pool) = m_pool[1]
        /\ Len(m_pool') = Len(m_pool) - 1
        /\ \A i \in 1 .. Len(m_pool') : m_pool'[i] = m_pool[i + 1]
    BY <1>a, <2>1, HeadTailProperties
  <2>3. \A i \in 1 .. Len(m_pool') : i + 1 \in 1 .. Len(m_pool) /\ i + 1 # 1
    BY <2>2
  <2>4. \A i \in 1 .. Len(m_pool) : i = 1 \/ (i - 1 \in 1 .. Len(m_pool') /\ i - 1 + 1 = i)
    BY <2>2
  <2>5. m_pool[1] \in Connections /\ \A u \in Threads : m_pool[1] # borrowed[u]
    BY <1>a, <2>2 DEF Placed
  <2>6. (\A u \in Threads : borrowed[u] # NoConnection <=> where[u] \in HasOne)'
    BY <2>1, <2>2, <2>5, <1>b DEF Placed, HasOne
  <2>7. (\A i, j \in 1 .. Len(m_pool) : m_pool[i] = m_pool[j] => i = j)'
    BY <2>2, <2>3 DEF Placed
  <2>8. (\A u, v \in Threads : u # v /\ borrowed[u] = borrowed[v] => borrowed[u] = NoConnection)'
    BY <2>1, <2>2, <2>5 DEF Placed
  <2>9. (\A i \in 1 .. Len(m_pool), u \in Threads : m_pool[i] # borrowed[u])'
    BY <2>1, <2>2, <2>3 DEF Placed
  <2>10. ASSUME NEW c \in Connections
         PROVE  (\E i \in 1 .. Len(m_pool') : m_pool'[i] = c) \/ \E u \in Threads : borrowed'[u] = c
    <3>1. CASE \E u \in Threads : borrowed[u] = c
      BY <2>1, <3>1, <1>b DEF Placed, HasOne
    <3>2. CASE \E i \in 1 .. Len(m_pool) : m_pool[i] = c
      <4>1. PICK i \in 1 .. Len(m_pool) : m_pool[i] = c
        BY <3>2
      <4>2. CASE i = 1
        BY <2>1, <2>2, <4>1, <4>2
      <4>3. CASE i # 1
        BY <2>2, <2>4, <4>1, <4>3
      <4> QED  BY <4>2, <4>3
    <3> QED  BY <3>1, <3>2 DEF Placed
  <2>11. m_idle' = Len(m_pool')
    BY <2>1, <2>2 DEF Placed
  <2> QED  BY <2>6, <2>7, <2>8, <2>9, <2>10, <2>11 DEF Placed
<1>2. ASSUME NEW t \in Threads, Release(t) PROVE Placed'
  <2>1. /\ where[t] = "used" /\ where'[t] = "out" /\ borrowed'[t] = NoConnection
        /\ \A u \in Threads \ {t} :
            borrowed'[u] = borrowed[u] /\ (where'[u] \in HasOne <=> where[u] \in HasOne)
        /\ m_pool' = Append(m_pool, borrowed[t]) /\ m_idle' = m_idle + 1
    BY <1>2 DEF Release, TypeOK, HasOne
  <2>2. borrowed[t] \in Connections
    BY <2>1 DEF Placed, HasOne, TypeOK
  <2>3. /\ Len(m_pool') = Len(m_pool) + 1
        /\ \A i \in 1 .. Len(m_pool) : m_pool'[i] = m_pool[i]
        /\ m_pool'[Len(m_pool) + 1] = borrowed[t]
    BY <1>a, <2>1, <2>2, AppendProperties
  <2>4. \A i \in 1 .. Len(m_pool') : i \in 1 .. Len(m_pool) \/ i = Len(m_pool) + 1
    BY <1>a, <2>3
  <2>5. \A u \in Threads \ {t} : borrowed[u] # borrowed[t]
    BY <2>2, <1>b DEF Placed
  <2>6. (\A u \in Threads : borrowed[u] # NoConnection <=> where[u] \in HasOne)'
    BY <2>1 DEF Placed, HasOne
  <2>7. (\A i, j \in 1 .. Len(m_pool) : m_pool[i] = m_pool[j] => i = j)'
    BY <2>3, <2>4 DEF Placed
  <2>8. (\A u, v \in Threads : u # v /\ borrowed[u] = borrowed[v] => borrowed[u] = NoConnection)'
    BY <2>1 DEF Placed
  <2>9. (\A i \in 1 .. Len(m_pool), u \in Threads : m_pool[i] # borrowed[u])'
    BY <1>a, <1>b, <2>1, <2>2, <2>3, <2>4, <2>5 DEF Placed
  <2>10. ASSUME NEW c \in Connections
         PROVE  (\E i \in 1 .. Len(m_pool') : m_pool'[i] = c) \/ \E u \in Threads : borrowed'[u] = c
    <3>1. CASE c = borrowed[t]
      BY <1>a, <2>3, <3>1
    <3>2. CASE c # borrowed[t]
      BY <1>a, <2>1, <2>3, <3>2 DEF Placed
    <3> QED  BY <3>1, <3>2
  <2>11. m_idle' = Len(m_pool')
    BY <1>a, <2>1, <2>3 DEF Placed
  <2> QED  BY <2>6, <2>7, <2>8, <2>9, <2>10, <2>11 DEF Placed
<1>3. ASSUME NEW t \in Threads,
             Lock(t) \/ Sleep(t) \/ GiveUp(t) \/ Timeout(t) \/ Ping(t) \/ Use(t)
      PROVE  Placed'
  <2>1. /\ UNCHANGED <<m_pool, m_idle, borrowed>>
        /\ \A u \in Threads : where'[u] \in HasOne <=> where[u] \in HasOne
    BY <1>3 DEF Lock, Sleep, GiveUp, Timeout, Ping, Use, Goto, TypeOK, HasOne
  <2> QED  BY <2>1 DEF Placed
<1>4. ASSUME (\E c \in Connections : Drop(c)) \/ UNCHANGED vars PROVE Placed'
  <2>1. UNCHANGED <<m_pool, m_idle, borrowed, where>>
    BY <1>4 DEF Drop, vars
  <2> QED  BY <2>1 DEF Placed
<1> QED  BY <1>1, <1>2, <1>3, <1>4 DEF Next

\* Every step keeps a woken thread, or one that looks, for each idle connection
\* there is while others sleep.
LEMMA NextForgotten ==
    ASSUME MySQLAssumption, TypeOK, Placed, NoneForgotten, [Next]_vars
    PROVE  NoneForgotten'
<1>a. m_pool \in Seq(Connections) /\ Len(m_pool) \in Nat
  BY LenProperties DEF TypeOK
<1>b. /\ IsFiniteSet(Awake) /\ Cardinality(Awake) \in Nat
      /\ IsFiniteSet(Awake') /\ Cardinality(Awake') \in Nat
  <2>1. Awake \subseteq Threads /\ Awake' \subseteq Threads
    BY DEF Awake
  <2> QED  BY <2>1, FS_Subset, FS_CardinalityType DEF MySQLAssumption
<1>c. (\E t \in Threads : where[t] = "asleep") => Len(m_pool) <= Cardinality(Awake)
  BY DEF NoneForgotten, Awake
<1>d. SUFFICES ASSUME \E t \in Threads : where'[t] = "asleep"
               PROVE  Len(m_pool') <= Cardinality(Awake')
  BY DEF NoneForgotten, Awake
<1>1. ASSUME NEW t \in Threads, Lock(t) \/ Timeout(t) PROVE Len(m_pool') <= Cardinality(Awake')
  <2>1. /\ UNCHANGED m_pool
        /\ Awake' = Awake \cup {t}
        /\ \E u \in Threads : where[u] = "asleep"
    BY <1>1, <1>d DEF Lock, Timeout, Goto, TypeOK, Awake
  <2>2. Cardinality(Awake') >= Cardinality(Awake)
    BY <1>b, <2>1, FS_AddElement
  <2> QED  BY <1>a, <1>b, <1>c, <2>1, <2>2
<1>2. ASSUME NEW t \in Threads, Take(t) PROVE Len(m_pool') <= Cardinality(Awake')
  <2>1. /\ m_pool # <<>> /\ m_pool' = Tail(m_pool)
        /\ Awake' = Awake \ {t} /\ t \in Awake
        /\ \E u \in Threads : where[u] = "asleep"
    BY <1>2, <1>d DEF Take, Goto, TypeOK, Awake
  <2>2. Cardinality(Awake') = Cardinality(Awake) - 1
    BY <1>b, <2>1, FS_RemoveElement
  <2>3. Len(m_pool') = Len(m_pool) - 1
    BY <1>a, <2>1, HeadTailProperties
  <2> QED  BY <1>a, <1>b, <1>c, <2>1, <2>2, <2>3
<1>3. ASSUME NEW t \in Threads, Sleep(t) \/ GiveUp(t) PROVE Len(m_pool') <= Cardinality(Awake')
  <2>1. m_pool' = <<>>
    BY <1>3 DEF Sleep, GiveUp
  <2>2. Len(m_pool') = 0
    BY <2>1
  <2> QED  BY <1>b, <2>2
<1>4. ASSUME NEW t \in Threads, Ping(t) \/ Use(t) PROVE Len(m_pool') <= Cardinality(Awake')
  <2>1. UNCHANGED m_pool /\ Awake' = Awake /\ \E u \in Threads : where[u] = "asleep"
    BY <1>4, <1>d DEF Ping, Use, Goto, TypeOK, Awake
  <2> QED  BY <1>c, <2>1
<1>5. ASSUME NEW t \in Threads, Release(t) PROVE Len(m_pool') <= Cardinality(Awake')
  <2>1. where[t] = "used" /\ m_pool' = Append(m_pool, borrowed[t])
    BY <1>5 DEF Release
  <2>2. \E u \in Threads : where[u] = "asleep"
    BY <1>5, <1>d DEF Release, TypeOK
  <2>3. PICK u \in Threads : /\ where[u] = "asleep"
                             /\ where' = [[where EXCEPT ![t] = "out"] EXCEPT ![u] = "woken"]
    BY <1>5, <2>2 DEF Release
  <2>4. Awake' = Awake \cup {u} /\ u \notin Awake
    BY <2>1, <2>3 DEF Awake, TypeOK
  <2>5. Cardinality(Awake') = Cardinality(Awake) + 1
    BY <1>b, <2>4, FS_AddElement
  <2>6. borrowed[t] \in Connections
    BY <2>1 DEF Placed, HasOne, TypeOK
  <2>7. Len(m_pool') = Len(m_pool) + 1
    BY <1>a, <2>1, <2>6, AppendProperties
  <2> QED  BY <1>a, <1>b, <1>c, <2>2, <2>5, <2>7
<1>6. ASSUME (\E c \in Connections : Drop(c)) \/ UNCHANGED vars
      PROVE  Len(m_pool') <= Cardinality(Awake')
  <2>1. UNCHANGED <<m_pool, where>>
    BY <1>6 DEF Drop, vars
  <2>2. Awake' = Awake /\ \E u \in Threads : where[u] = "asleep"
    BY <1>d, <2>1 DEF Awake
  <2> QED  BY <1>c, <2>1, <2>2
<1> QED  BY <1>1, <1>2, <1>3, <1>4, <1>5, <1>6 DEF Next

\* Each connection is in one place: so the places it is in are one.
LEMMA PlacedOnce ==
    ASSUME MySQLAssumption, TypeOK, Placed, NEW c \in Connections
    PROVE  Cardinality({i \in DOMAIN m_pool : m_pool[i] = c})
                + Cardinality({t \in Threads : borrowed[t] = c}) = 1
<1> DEFINE I == {i \in DOMAIN m_pool : m_pool[i] = c}
           T == {t \in Threads : borrowed[t] = c}
<1>1. DOMAIN m_pool = 1 .. Len(m_pool)
  BY LenProperties DEF TypeOK
<1>2. c # NoConnection
  BY DEF MySQLAssumption
<1>3. CASE \E i \in 1 .. Len(m_pool) : m_pool[i] = c
  <2>1. PICK i \in 1 .. Len(m_pool) : m_pool[i] = c
    BY <1>3
  <2>2. I = {i}
    BY <1>1, <2>1 DEF Placed
  <2>3. T = {}
    BY <2>1 DEF Placed
  <2>4. Cardinality(I) = 1
    BY <2>2, FS_Singleton, Zenon
  <2>5. Cardinality(T) = 0
    BY <2>3, FS_EmptySet, Zenon
  <2> QED  BY <2>4, <2>5
<1>4. CASE \E t \in Threads : borrowed[t] = c
  <2>1. PICK t \in Threads : borrowed[t] = c
    BY <1>4
  <2>2. I = {}
    BY <1>1, <2>1 DEF Placed
  <2>3. T = {t}
    BY <1>2, <2>1 DEF Placed
  <2>4. Cardinality(I) = 0
    BY <2>2, FS_EmptySet, Zenon
  <2>5. Cardinality(T) = 1
    BY <2>3, FS_Singleton, Zenon
  <2> QED  BY <2>4, <2>5
<1> QED  BY <1>3, <1>4 DEF Placed

-----------------------------------------------------------------------------

\* Every connection is idle once or borrowed once, m_idle counts the idle ones,
\* and for each of these a thread is awake while others sleep: for any number of
\* threads and connections, and timeouts at any time (mysqlpool.cpp:50-79).
THEOREM NoConnectionLost == ASSUME MySQLAssumption PROVE Spec => []ConnectionsServed
<1>1. Init => Inv
  BY InitInv
<1>2. Inv /\ [Next]_vars => Inv'
  BY NextTypeOK, NextPlaced, NextForgotten DEF Inv
<1>3. Inv => ConnectionsServed
  <2> SUFFICES ASSUME TypeOK, Placed, NoneForgotten PROVE NoneLost
    BY DEF Inv, ConnectionsServed
  <2> QED  BY PlacedOnce DEF NoneLost, Placed
<1> QED  BY <1>1, <1>2, <1>3, PTL DEF Spec

\* The pool holds connections, and each thread one or none.
THEOREM TypeCorrect == ASSUME MySQLAssumption PROVE Spec => []TypeOK
<1>1. Init => Inv
  BY InitInv
<1>2. Inv /\ [Next]_vars => Inv'
  BY NextTypeOK, NextPlaced, NextForgotten DEF Inv
<1>3. Inv => TypeOK
  BY DEF Inv
<1> QED  BY <1>1, <1>2, <1>3, PTL DEF Spec
=============================================================================
