-------------------------------- MODULE TcpServer --------------------------------
(***************************************************************************)
(* TcpServer (blue/tcpServer.cpp): start() schedules an accept loop for    *)
(* each listening socket, stop() raises a flag and schedules a task that   *)
(* closes them.  Loops and tasks are fibers of an IOManager; both managers *)
(* of the server are the one it was made in, as by default.                *)
(*                                                                         *)
(* accept is the hooked one, and a loop is followed from step to step of   *)
(* hook_io, the task from step to step of MSocket::cancelAll and the       *)
(* hooked close, for they run on different threads.  Two such tasks run    *)
(* one after the other, and a socket's number is not used again.           *)
(***************************************************************************)
EXTENDS Integers, FiniteSets

CONSTANTS Sockets,                \* that bind() has bound
          Loops,                  \* startAccept fibers
          MaxStarts, MaxClients   \* bounds

TcpAssumption == MaxStarts \in Nat /\ MaxClients \in Nat

NoLoop == [at |-> "none", sock |-> "none"]
NoTask == [at |-> "none", sock |-> "none", todo |-> {}]

VARIABLES
    m_isStop, m_socks,
    open,        \* the sockets that are not closed
    managed,     \* those that FdManager has an FdCxt of
    loops,       \* of a loop: where it is, and its socket
    closing,     \* how many tasks of stop() have not begun
    task,        \* the one that runs: where it is, its socket, and those after
    backlog,     \* kernel: the connections to accept
    aborted,     \* BLUE_ASSERT has ended the program
    missed,      \* history: the loops that wait since the last cancelAll
    starts, arrived    \* history: how many there were

vars ==
    <<m_isStop, m_socks, open, managed, loops, closing, task, backlog, aborted, missed,
      starts, arrived>>

Places == {"none", "queued", "check", "accept", "try", "again", "wait", "ended"}
TaskPlaces == {"none", "cancelAll", "close", "del", "close_f"}

TypeOK ==
    /\ m_isStop \in BOOLEAN /\ aborted \in BOOLEAN
    /\ m_socks \subseteq Sockets /\ open \subseteq Sockets /\ managed \subseteq Sockets
    /\ loops \in [Loops -> [at : Places, sock : Sockets \cup {"none"}]]
    /\ closing \in Nat
    /\ task \in [at : TaskPlaces, sock : Sockets \cup {"none"}, todo : SUBSET Sockets]
    /\ backlog \in [Sockets -> Nat]
    /\ missed \subseteq Loops
    /\ starts \in Nat /\ arrived \in Nat

Init ==
    /\ m_isStop = TRUE
    /\ m_socks = Sockets /\ open = Sockets /\ managed = Sockets
    /\ loops = [l \in Loops |-> NoLoop]
    /\ closing = 0 /\ task = NoTask
    /\ backlog = [k \in Sockets |-> 0]
    /\ aborted = FALSE /\ missed = {}
    /\ starts = 0 /\ arrived = 0

-----------------------------------------------------------------------------

\* Every socket in m_socks gets a loop.
Start ==
    /\ m_isStop /\ starts < MaxStarts
    /\ m_isStop' = FALSE
    /\ starts' = starts + 1
    /\ \E new \in SUBSET {l \in Loops : loops[l].at = "none"} :
        /\ Cardinality(new) = Cardinality(m_socks)
        /\ \E f \in [new -> m_socks] :
            /\ {f[l] : l \in new} = m_socks
            /\ loops' = [l \in Loops |->
                            IF l \in new THEN [at |-> "queued", sock |-> f[l]] ELSE loops[l]]
    /\ UNCHANGED <<m_socks, open, managed, closing, task, backlog, aborted, missed, arrived>>

\* stop() may be called again.
Stop ==
    /\ closing < MaxStarts
    /\ m_isStop' = TRUE
    /\ closing' = closing + 1
    /\ UNCHANGED <<m_socks, open, managed, loops, task, backlog, aborted, missed, starts,
                   arrived>>

-----------------------------------------------------------------------------
(* The task of stop() *)

others == <<m_isStop, backlog, aborted, starts, arrived>>

\* for (auto& sock : m_socks), and clear() at the end.
NextSocket(todo) ==
    IF todo = {}
    THEN task' = NoTask /\ m_socks' = {}
    ELSE /\ \E k \in todo : task' = [at |-> "cancelAll", sock |-> k, todo |-> todo \ {k}]
         /\ UNCHANGED m_socks

TaskBegins ==
    /\ task = NoTask /\ closing > 0
    /\ closing' = closing - 1
    /\ NextSocket(m_socks)
    /\ UNCHANGED <<others, open, managed, loops, missed>>

Waits(l, k) == loops[l].at = "wait" /\ loops[l].sock = k

\* IOManager::cancelAll: a loop that waits there is woken, and calls accept again.
CancelAll(k) ==
    /\ loops' = [l \in Loops |-> IF Waits(l, k) THEN [loops[l] EXCEPT !.at = "try"] ELSE loops[l]]
    /\ missed' = missed \ {l \in Loops : Waits(l, k)}

Cancels ==
    /\ task.at = "cancelAll"
    /\ CancelAll(task.sock)
    /\ task' = [task EXCEPT !.at = "close"]
    /\ UNCHANGED <<others, m_socks, open, managed, closing>>

\* Mutant: close leaves who waits there alone, as MSocket::cancelAll has run.
Closes_NoCancel ==
    /\ task.at = "close"
    /\ task' = [task EXCEPT !.at = "del"]
    /\ UNCHANGED <<others, m_socks, open, managed, closing, loops, missed>>

\* The hooked close cancels as well.
Closes ==
    /\ task.at = "close"
    /\ CancelAll(task.sock)
    /\ task' = [task EXCEPT !.at = "del"]
    /\ UNCHANGED <<others, m_socks, open, managed, closing>>

Unmanages ==
    /\ task.at = "del"
    /\ managed' = managed \ {task.sock}
    /\ task' = [task EXCEPT !.at = "close_f"]
    /\ UNCHANGED <<others, m_socks, open, closing, loops, missed>>

\* What epoll knows of the descriptor goes with it; who waits there is not told.
ClosesSocket ==
    /\ task.at = "close_f"
    /\ open' = open \ {task.sock}
    /\ NextSocket(task.todo)
    /\ UNCHANGED <<others, managed, closing, loops, missed>>

CloseAll == ~aborted /\ (TaskBegins \/ Cancels \/ Closes \/ Unmanages \/ ClosesSocket)

-----------------------------------------------------------------------------
(* startAccept *)

At(l, place) == loops[l].at = place
Goto(l, place) == loops' = [loops EXCEPT ![l].at = place]
server == <<m_isStop, m_socks, open, managed, closing, task, starts>>

Begin(l) ==
    /\ At(l, "queued")
    /\ Goto(l, "check")
    /\ UNCHANGED <<server, backlog, aborted, missed, arrived>>

\* while (!m_isStop)
Check(l) ==
    /\ At(l, "check")
    /\ Goto(l, IF m_isStop THEN "ended" ELSE "accept")
    /\ UNCHANGED <<server, backlog, aborted, missed, arrived>>

\* hook_io looks for the FdCxt.
Hook(l) ==
    /\ At(l, "accept") /\ loops[l].sock \in managed
    /\ Goto(l, "try")
    /\ UNCHANGED <<server, backlog, aborted, missed, arrived>>

\* Without one, or with one that is marked closed by now, the call does not
\* wait: EAGAIN or EBADF, and an error is logged.
NotHooked(l) ==
    /\ At(l, "accept") /\ loops[l].sock \notin managed
    /\ Goto(l, "check")
    /\ UNCHANGED <<server, backlog, aborted, missed, arrived>>

\* The handler of the client is scheduled.
Accept(l) ==
    /\ At(l, "try") \/ (At(l, "accept") /\ loops[l].sock \notin managed)
    /\ loops[l].sock \in open /\ backlog[loops[l].sock] > 0
    /\ backlog' = [backlog EXCEPT ![loops[l].sock] = @ - 1]
    /\ Goto(l, "check")
    /\ UNCHANGED <<server, aborted, missed, arrived>>

\* EBADF: an error is logged.
AcceptFails(l) ==
    /\ At(l, "try") /\ loops[l].sock \notin open
    /\ Goto(l, "check")
    /\ UNCHANGED <<server, backlog, aborted, missed, arrived>>

\* EAGAIN: the hooked accept registers for the event next...
AcceptAgain(l) ==
    /\ At(l, "try") /\ loops[l].sock \in open /\ backlog[loops[l].sock] = 0
    /\ Goto(l, "again")
    /\ UNCHANGED <<server, backlog, aborted, missed, arrived>>

\* ... which epoll refuses for a descriptor that is closed by now.
RegisterFails(l) ==
    /\ At(l, "again") /\ loops[l].sock \notin open
    /\ ~\E other \in Loops : Waits(other, loops[l].sock)
    /\ Goto(l, "check")
    /\ UNCHANGED <<server, backlog, aborted, missed, arrived>>

\* Nothing cancels it any more once the task is behind the last cancelAll.
Register(l) ==
    /\ At(l, "again") /\ loops[l].sock \in open
    /\ ~\E other \in Loops : Waits(other, loops[l].sock)
    /\ Goto(l, "wait")
    /\ missed' = IF task.at \in {"del", "close_f"} /\ task.sock = loops[l].sock
                 THEN missed \cup {l} ELSE missed
    /\ UNCHANGED <<server, backlog, aborted, arrived>>

\* Another loop of the socket has registered: BLUE_ASSERT of addEvent.
RegisterAsserts(l) ==
    /\ At(l, "again") /\ \E other \in Loops : Waits(other, loops[l].sock)
    /\ aborted' = TRUE
    /\ UNCHANGED <<server, loops, backlog, missed, arrived>>

Wake(l) ==
    /\ At(l, "wait") /\ loops[l].sock \in open /\ backlog[loops[l].sock] > 0
    /\ Goto(l, "try")
    /\ missed' = missed \ {l}
    /\ UNCHANGED <<server, backlog, aborted, arrived>>

Arrive(k) ==
    /\ k \in open /\ arrived < MaxClients
    /\ backlog' = [backlog EXCEPT ![k] = @ + 1]
    /\ arrived' = arrived + 1
    /\ UNCHANGED <<server, loops, aborted, missed>>

-----------------------------------------------------------------------------

LoopStep(l) ==
    \/ Begin(l) \/ Check(l) \/ Hook(l) \/ NotHooked(l) \/ Accept(l) \/ AcceptFails(l)
    \/ AcceptAgain(l) \/ RegisterFails(l) \/ Register(l) \/ RegisterAsserts(l) \/ Wake(l)

SomeLoop == ~aborted /\ \E l \in Loops : LoopStep(l)

Next ==
    \/ CloseAll \/ SomeLoop
    \/ ~aborted /\ (Start \/ Stop \/ \E k \in Sockets : Arrive(k))

\* The task of stop() is run, and some loop that can go on.
Spec == Init /\ [][Next]_vars /\ WF_vars(CloseAll) /\ WF_vars(SomeLoop)

-----------------------------------------------------------------------------

\* After stop() the accept loops come to their end, wherever they were, unless
\* start() takes the stop back (tcpServer.cpp:90-145).  Two are left out: a loop
\* that registered between the cancelAll of close() and the system's close
\* (hook.cpp:518-523), whom nobody wakes, and the program ended by the second
\* loop of a socket, which a start() gives before the task of stop() has run.
AcceptLoopsEnd ==
    (m_isStop /\ \E l \in Loops : ~At(l, "none") /\ ~At(l, "ended"))
        ~> \/ ~m_isStop \/ aborted
           \/ \A l \in Loops : At(l, "none") \/ At(l, "ended") \/ l \in missed
=============================================================================
