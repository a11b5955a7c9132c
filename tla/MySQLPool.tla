-------------------------------- MODULE MySQLPool --------------------------------
(***************************************************************************)
(* MySQLPool (blue/mysqlpool.cpp) and its only users, the statements of    *)
(* DbManager (blue/dbmanager.cpp): each borrows a connection, uses it, and *)
(* gives it back.                                                          *)
(*                                                                         *)
(* The mutex and the condition variable are those of the standard library: *)
(* a thread that waits there is stopped, fiber and all.  The connections   *)
(* were made before the scheduler ran, so that their descriptors are not   *)
(* hooked: a ping or a query stops the thread too.                         *)
(***************************************************************************)
EXTENDS Integers, Sequences, FiniteSets, SequencesExt

CONSTANTS Threads, NoThread, Connections, NoConnection

MySQLAssumption ==
    /\ NoThread \notin Threads /\ NoConnection \notin Connections
    /\ IsFiniteSet(Connections) /\ IsFiniteSet(Threads)

VARIABLES
    m_pool, m_idle,
    mutex,        \* who has m_mutex
    alive,        \* the connections the server has not dropped
    where,        \* of a thread
    borrowed,     \* conn
    late          \* the threads whose wait_for has timed out

vars == <<m_pool, m_idle, mutex, alive, where, borrowed, late>>

TypeOK ==
    /\ m_pool \in Seq(Connections) /\ m_idle \in Int
    /\ mutex \in Threads \cup {NoThread}
    /\ alive \subseteq Connections
    /\ where \in [Threads -> {"out", "look", "asleep", "woken", "ping", "use", "used"}]
    /\ borrowed \in [Threads -> Connections \cup {NoConnection}]
    /\ late \subseteq Threads

\* _init has pushed every connection.
Init ==
    /\ m_pool = SetToSeq(Connections)
    /\ m_idle = Cardinality(Connections)
    /\ mutex = NoThread
    /\ alive = Connections
    /\ where = [t \in Threads |-> "out"]
    /\ borrowed = [t \in Threads |-> NoConnection]
    /\ late = {}

-----------------------------------------------------------------------------

Goto(t, place) == where' = [where EXCEPT ![t] = place]

\* getConnection, and wait_for when it returns: the mutex is taken.
Lock(t) ==
    /\ where[t] \in {"out", "woken"} /\ mutex = NoThread
    /\ mutex' = t
    /\ Goto(t, "look")
    /\ UNCHANGED <<m_pool, m_idle, alive, borrowed, late>>

\* The predicate is true, in time or not: the first connection is taken.
Take(t) ==
    /\ where[t] = "look" /\ m_pool # <<>>
    /\ borrowed' = [borrowed EXCEPT ![t] = Head(m_pool)]
    /\ m_pool' = Tail(m_pool)
    /\ m_idle' = m_idle - 1
    /\ late' = late \ {t}
    /\ Goto(t, "ping")
    /\ UNCHANGED <<mutex, alive>>

\* The predicate is false.
Sleep(t) ==
    /\ where[t] = "look" /\ m_pool = <<>> /\ t \notin late
    /\ mutex' = NoThread
    /\ Goto(t, "asleep")
    /\ UNCHANGED <<m_pool, m_idle, alive, borrowed, late>>

\* ... and the time is over: nullptr, and the statement is not executed.
GiveUp(t) ==
    /\ where[t] = "look" /\ m_pool = <<>> /\ t \in late
    /\ mutex' = NoThread
    /\ late' = late \ {t}
    /\ Goto(t, "out")
    /\ UNCHANGED <<m_pool, m_idle, alive, borrowed>>

Timeout(t) ==
    /\ where[t] = "asleep"
    /\ late' = late \cup {t}
    /\ Goto(t, "woken")
    /\ UNCHANGED <<m_pool, m_idle, mutex, alive, borrowed>>

\* mysql_ping under m_mutex.  When it fails the connection is handed out as
\* the good one is.
Ping(t) ==
    /\ where[t] = "ping"
    /\ mutex' = NoThread
    /\ Goto(t, "use")
    /\ UNCHANGED <<m_pool, m_idle, alive, borrowed, late>>

\* mysql_query, mysql_store_result, mysql_real_escape_string; failed or not,
\* the connection is given back next.
Use(t) ==
    /\ where[t] = "use"
    /\ Goto(t, "used")
    /\ UNCHANGED <<m_pool, m_idle, mutex, alive, borrowed, late>>

\* Mutant: nobody is notified.
Release_NoNotify(t) ==
    /\ where[t] = "used" /\ mutex = NoThread
    /\ m_pool' = Append(m_pool, borrowed[t])
    /\ m_idle' = m_idle + 1
    /\ borrowed' = [borrowed EXCEPT ![t] = NoConnection]
    /\ Goto(t, "out")
    /\ UNCHANGED <<mutex, alive, late>>

\* releaseConnection; notify_one wakes one thread that sleeps, if there is one.
Release(t) ==
    /\ where[t] = "used" /\ mutex = NoThread
    /\ m_pool' = Append(m_pool, borrowed[t])
    /\ m_idle' = m_idle + 1
    /\ borrowed' = [borrowed EXCEPT ![t] = NoConnection]
    /\ LET asleep == {u \in Threads : where[u] = "asleep"}
           back == [where EXCEPT ![t] = "out"]
       IN  \/ asleep = {} /\ where' = back
           \/ \E u \in asleep : where' = [back EXCEPT ![u] = "woken"]
    /\ UNCHANGED <<mutex, alive, late>>

\* The server drops a connection.
Drop(c) ==
    /\ c \in alive
    /\ alive' = alive \ {c}
    /\ UNCHANGED <<m_pool, m_idle, mutex, where, borrowed, late>>

-----------------------------------------------------------------------------

Next ==
    \/ \E t \in Threads :
        Lock(t) \/ Take(t) \/ Sleep(t) \/ GiveUp(t) \/ Timeout(t) \/ Ping(t) \/ Use(t) \/ Release(t)
    \/ \E c \in Connections : Drop(c)

Spec == Init /\ [][Next]_vars

-----------------------------------------------------------------------------

\* Every connection is in the pool once or with one thread (lines 50-79 and
\* the three callers in dbmanager.cpp), and m_idle counts the ones in the pool.
NoneLost ==
    /\ m_idle = Len(m_pool)
    /\ \A c \in Connections :
        Cardinality({i \in DOMAIN m_pool : m_pool[i] = c})
            + Cardinality({t \in Threads : borrowed[t] = c}) = 1

\* A thread does not sleep beside an idle connection that nobody is about to
\* take: one notification for each release is enough, although a thread that
\* was not asleep may take the connection first and a notified one may be late.
NoneForgotten ==
    (\E t \in Threads : where[t] = "asleep") =>
        Len(m_pool) <= Cardinality({t \in Threads : where[t] \in {"woken", "look"}})

ConnectionsServed == NoneLost /\ NoneForgotten
=============================================================================
