------------------------------- MODULE IOManager -------------------------------
(***************************************************************************)
(* Events of descriptors: IOManager::addEvent, delEvent, cancelEvent,      *)
(* cancelAll, FdContext::triggerContext, contextResize and the event loop  *)
(* of IOManager::idle (blue/iomanager.cpp), used as the hooked read, write *)
(* and close of blue/hook.cpp use them: a call that would block registers  *)
(* its fiber and holds, close cancels what is registered.                  *)
(*                                                                         *)
(* A step is one critical section of m_mutex or of the mutex of a context. *)
(* delEvent, cancelEvent and cancelAll find the context under m_mutex and  *)
(* use it under its own mutex; a context only leaves the table by a        *)
(* shrinking contextResize, so the two are one step.  A callback given to  *)
(* addEvent instead of a fiber is kept and scheduled the same way.         *)
(***************************************************************************)
EXTENDS Integers, FiniteSets

CONSTANTS
    Fibers,      \* the fibers that do input and output
    IOThreads,   \* the threads that run idle()
    Fds,         \* descriptor numbers
    NoFd,        \* not a descriptor
    NoFiber,     \* an empty EventContext
    InitSize,    \* the size of m_fdContexts after the constructor
    MaxGen,      \* bound: contexts allocated for one descriptor
    Shared       \* TRUE: fibers use and close each other's descriptors

Events == {"READ", "WRITE"}

\* The contexts that are ever allocated.
Contexts == [fd : Fds, gen : 1..MaxGen]

ASSUME IOAssumption ==
    /\ IsFiniteSet(Fds) /\ Fds \subseteq Nat \ {0}
    /\ NoFd \notin Fds
    /\ NoFiber \notin Fibers
    /\ InitSize \in Nat
    /\ MaxGen \in Nat \ {0}
    /\ Shared \in BOOLEAN

VARIABLES
    open,                 \* kernel: the open descriptors
    ready,                \* kernel: what a descriptor is ready for, or "HUP"
    epoll,                \* kernel: the interest list of m_epfd
    managed,              \* the keys of FdManager::m_datas
    owner,                \* the fiber that opened a descriptor last
    m_fdContexts,         \* the table: the context of a descriptor, 0 for none
    size,                 \* m_fdContexts.size()
    gens,                 \* contexts allocated so far for a descriptor
    shrunk,               \* history: a resize has made the table smaller
    m_events,             \* the registered events of a context
    fiber,                \* the fiber of each EventContext
    m_pendingEventCounts,
    scheduled,            \* fibers triggerContext has scheduled
    pc,                   \* where a fiber is
    op,                   \* the descriptor, event and context it works on
    batch,                \* the events a thread has from epoll_wait
    failed                \* "none", or the assertion that failed

kernelVars == <<open, ready, epoll>>
tableVars  == <<m_fdContexts, size, gens, shrunk>>
eventVars  == <<m_events, fiber, m_pendingEventCounts, scheduled>>
vars == <<kernelVars, managed, owner, tableVars, eventVars, pc, op, batch, failed>>

Ops == [fd : Fds, event : Events, gen : 0..MaxGen]
NoOp == [fd |-> NoFd, event |-> "NONE", gen |-> 0]

\* An entry of the array epevent: its data.ptr and its real_event.
Reports == [context : Contexts, real_event : SUBSET Events]

Watched == [gen : 1..MaxGen, events : SUBSET Events, armed : BOOLEAN]
NoEntry == [gen |-> 0, events |-> {}, armed |-> FALSE]
Entries == Watched \cup {NoEntry}

TypeOK ==
    /\ open \subseteq Fds
    /\ ready \in [Fds -> SUBSET (Events \cup {"HUP"})]
    /\ epoll \in [Fds -> Entries]
    /\ managed \subseteq Fds
    /\ owner \in [Fds -> Fibers \cup {NoFiber}]
    /\ m_fdContexts \in [Fds -> 0..MaxGen]
    /\ size \in Nat
    /\ gens \in [Fds -> 0..MaxGen]
    /\ shrunk \in BOOLEAN
    /\ m_events \in [Contexts -> SUBSET Events]
    /\ fiber \in [Contexts -> [Events -> Fibers \cup {NoFiber}]]
    /\ m_pendingEventCounts \in Nat
    /\ scheduled \subseteq Fibers
    /\ pc \in [Fibers -> {"run", "resize", "register", "held", "forget", "close"}]
    /\ op \in [Fibers -> Ops \cup {NoOp}]
    /\ batch \in [IOThreads -> SUBSET Reports]
    /\ failed \in {"none", "addEvent"}

Init ==
    /\ open = {}
    /\ ready = [fd \in Fds |-> {}]
    /\ epoll = [fd \in Fds |-> NoEntry]
    /\ managed = {}
    /\ owner = [fd \in Fds |-> NoFiber]
    /\ m_fdContexts = [fd \in Fds |-> IF fd < InitSize THEN 1 ELSE 0]
    /\ size = InitSize
    /\ gens = [fd \in Fds |-> IF fd < InitSize THEN 1 ELSE 0]
    /\ shrunk = FALSE
    /\ m_events = [c \in Contexts |-> {}]
    /\ fiber = [c \in Contexts |-> [e \in Events |-> NoFiber]]
    /\ m_pendingEventCounts = 0
    /\ scheduled = {}
    /\ pc = [f \in Fibers |-> "run"]
    /\ op = [f \in Fibers |-> NoOp]
    /\ batch = [t \in IOThreads |-> {}]
    /\ failed = "none"

-----------------------------------------------------------------------------
(* Helpers *)

Context(fd, g) == [fd |-> fd, gen |-> g]

Registered == {r \in Contexts \X Events : r[2] \in m_events[r[1]]}

Goto(f, label) == pc' = [pc EXCEPT ![f] = label]

MayUse(f, fd) == fd \in managed /\ (Shared \/ owner[fd] = f)

\* epoll_ctl(op, fd) succeeds: EBADF, EEXIST and ENOENT are what can go wrong.
CtlSucceeds(add, fd) == fd \in open /\ (add <=> epoll[fd].gen = 0)

\* After a successful EPOLL_CTL_ADD, MOD or DEL (an entry without events)
\* readiness is reported anew, although the registration is edge-triggered.
Ctl(c, events) ==
    epoll' = [epoll EXCEPT ![c.fd] =
                IF events = {} THEN NoEntry
                ELSE [gen |-> c.gen, events |-> events, armed |-> TRUE]]

\* Mutant: the counter is decremented once, not once per event.
Trigger_OnceForBoth(c, S) ==
    /\ m_events' = [m_events EXCEPT ![c] = @ \ S]
    /\ fiber' = [fiber EXCEPT ![c] = [e \in Events |-> IF e \in S THEN NoFiber ELSE @[e]]]
    /\ scheduled' = scheduled \cup {fiber[c][e] : e \in S}
    /\ m_pendingEventCounts' = m_pendingEventCounts - (IF S = {} THEN 0 ELSE 1)

\* Mutant: the bit of the event is cleared, its fiber is not scheduled.
Trigger_NotScheduled(c, S) ==
    /\ m_events' = [m_events EXCEPT ![c] = @ \ S]
    /\ fiber' = [fiber EXCEPT ![c] = [e \in Events |-> IF e \in S THEN NoFiber ELSE @[e]]]
    /\ m_pendingEventCounts' = m_pendingEventCounts - Cardinality(S)
    /\ UNCHANGED scheduled

\* Mutant: the bit of the event stays set.
Trigger_KeepsEvent(c, S) ==
    /\ fiber' = [fiber EXCEPT ![c] = [e \in Events |-> IF e \in S THEN NoFiber ELSE @[e]]]
    /\ scheduled' = scheduled \cup {fiber[c][e] : e \in S}
    /\ m_pendingEventCounts' = m_pendingEventCounts - Cardinality(S)
    /\ UNCHANGED m_events

\* triggerContext and --m_pendingEventCounts for each event of S, all of
\* them registered in c.
Trigger(c, S) ==
    /\ m_events' = [m_events EXCEPT ![c] = @ \ S]
    /\ fiber' = [fiber EXCEPT ![c] = [e \in Events |-> IF e \in S THEN NoFiber ELSE @[e]]]
    /\ scheduled' = scheduled \cup {fiber[c][e] : e \in S}
    /\ m_pendingEventCounts' = m_pendingEventCounts - Cardinality(S)

-----------------------------------------------------------------------------
(* Descriptors *)

\* socket or accept returns an unused number and FdManager::get creates its
\* FdCxt.
Open(f, fd) ==
    /\ pc[f] = "run"
    /\ fd \notin open
    /\ open' = open \cup {fd}
    /\ managed' = managed \cup {fd}
    /\ owner' = [owner EXCEPT ![fd] = f]
    /\ ready' = [ready EXCEPT ![fd] = {}]
    /\ UNCHANGED <<epoll, tableVars, eventVars, pc, op, batch, failed>>

\* The peer sends, makes room, or hangs up.
BecomeReady(fd, s) ==
    /\ fd \in open
    /\ s \notin ready[fd]
    /\ ready' = [ready EXCEPT ![fd] = @ \cup {s}]
    /\ epoll' = [epoll EXCEPT ![fd].armed = epoll[fd].gen # 0]
    /\ UNCHANGED <<open, managed, owner, tableVars, eventVars, pc, op, batch, failed>>

\* A read or write that does not block uses up what was ready.
Consume(f, fd, e) ==
    /\ pc[f] = "run"
    /\ MayUse(f, fd) /\ fd \in open
    /\ e \in ready[fd]
    /\ ready' = [ready EXCEPT ![fd] = @ \ {e}]
    /\ UNCHANGED <<open, epoll, managed, owner, tableVars, eventVars, pc, op, batch, failed>>

-----------------------------------------------------------------------------
(* addEvent *)

\* hook_io got EAGAIN; addEvent looks the context up under the read lock.
AddEvent(f, fd, e) ==
    /\ pc[f] = "run"
    /\ MayUse(f, fd) /\ fd \in open
    /\ ready[fd] \cap {e, "HUP"} = {}
    /\ op' = [op EXCEPT ![f] = [fd |-> fd, event |-> e, gen |-> m_fdContexts[fd]]]
    /\ Goto(f, IF size > fd THEN "register" ELSE "resize")
    /\ UNCHANGED <<kernelVars, managed, owner, tableVars, eventVars, batch, failed>>

\* The size that addEvent asks for.
NewSize(fd) == 2 * fd

\* Mutant: every entry is allocated anew, those in use too.
ContextResize_AllNew(n) ==
    /\ \A fd \in Fds : fd < n => gens[fd] < MaxGen
    /\ size' = n /\ shrunk' = (shrunk \/ n < size)
    /\ m_fdContexts' = [fd \in Fds |-> IF fd >= n THEN 0 ELSE gens[fd] + 1]
    /\ gens' = [fd \in Fds |-> IF fd < n THEN gens[fd] + 1 ELSE gens[fd]]

\* contextResize: entries beyond the new size are dropped, missing ones are
\* allocated.
ContextResize(n) ==
    /\ \A fd \in Fds : fd < n /\ m_fdContexts[fd] = 0 => gens[fd] < MaxGen
    /\ size' = n /\ shrunk' = (shrunk \/ n < size)
    /\ m_fdContexts' = [fd \in Fds |-> IF fd >= n THEN 0
                                       ELSE IF m_fdContexts[fd] = 0 THEN gens[fd] + 1
                                       ELSE m_fdContexts[fd]]
    /\ gens' = [fd \in Fds |-> IF fd < n /\ m_fdContexts[fd] = 0 THEN gens[fd] + 1
                               ELSE gens[fd]]

\* The write lock: the size is not tested again.
Resize(f) ==
    /\ pc[f] = "resize"
    /\ ContextResize(NewSize(op[f].fd))
    /\ op' = [op EXCEPT ![f].gen = m_fdContexts'[op[f].fd]]
    /\ Goto(f, "register")
    /\ UNCHANGED <<kernelVars, managed, owner, eventVars, batch, failed>>

\* Under the mutex of the context: the event is registered and the fiber
\* holds.
Register(f) ==
    LET fd == op[f].fd
        e  == op[f].event
        c  == Context(fd, op[f].gen)
    IN  /\ pc[f] = "register"
        /\ e \notin m_events[c]
        /\ CtlSucceeds(m_events[c] = {}, fd)
        /\ Ctl(c, m_events[c] \cup {e})
        /\ m_pendingEventCounts' = m_pendingEventCounts + 1
        /\ m_events' = [m_events EXCEPT ![c] = @ \cup {e}]
        /\ fiber' = [fiber EXCEPT ![c][e] = f]
        /\ Goto(f, "held")
        /\ UNCHANGED <<open, ready, managed, owner, tableVars, scheduled, op, batch, failed>>

\* epoll_ctl failed: addEvent returns -1 and so does the hooked call.
RegisterError(f) ==
    LET c == Context(op[f].fd, op[f].gen)
    IN  /\ pc[f] = "register"
        /\ op[f].event \notin m_events[c]
        /\ ~CtlSucceeds(m_events[c] = {}, op[f].fd)
        /\ op' = [op EXCEPT ![f] = NoOp]
        /\ Goto(f, "run")
        /\ UNCHANGED <<kernelVars, managed, owner, tableVars, eventVars, batch, failed>>

\* BLUE_ASSERT(!(fd_ctx->m_events & event))
RegisterAssert(f) ==
    /\ pc[f] = "register"
    /\ op[f].event \in m_events[Context(op[f].fd, op[f].gen)]
    /\ failed' = "addEvent"
    /\ UNCHANGED <<kernelVars, managed, owner, tableVars, eventVars, pc, op, batch>>

\* The scheduler resumes a fiber that was scheduled.
Resume(f) ==
    /\ pc[f] = "held"
    /\ f \in scheduled
    /\ scheduled' = scheduled \ {f}
    /\ op' = [op EXCEPT ![f] = NoOp]
    /\ Goto(f, "run")
    /\ UNCHANGED <<kernelVars, managed, owner, tableVars, m_events, fiber,
                   m_pendingEventCounts, batch, failed>>

-----------------------------------------------------------------------------
(* cancelEvent, cancelAll and close *)

\* Mutant: the kernel is not told which events are left.
CancelEvent_KeepsEpoll(fd, e) ==
    LET c == Context(fd, m_fdContexts[fd])
    IN  /\ size > fd
        /\ e \in m_events[c]
        /\ CtlSucceeds(FALSE, fd)
        /\ Trigger(c, {e})
        /\ UNCHANGED <<kernelVars, managed, owner, tableVars, pc, op, batch, failed>>

\* cancelEvent, by a timer or by cancelRead and its kin.
CancelEvent(fd, e) ==
    LET c == Context(fd, m_fdContexts[fd])
    IN  /\ size > fd
        /\ e \in m_events[c]
        /\ CtlSucceeds(FALSE, fd)
        /\ Ctl(c, m_events[c] \ {e})
        /\ Trigger(c, {e})
        /\ UNCHANGED <<open, ready, managed, owner, tableVars, pc, op, batch, failed>>

\* What cancelAll(fd) does; without a context, without an event, or when
\* epoll_ctl fails it does nothing.
CancelAll(fd) ==
    LET c == Context(fd, m_fdContexts[fd])
    IN  IF size > fd /\ m_events[c] # {} /\ CtlSucceeds(FALSE, fd)
          THEN Ctl(c, {}) /\ Trigger(c, m_events[c])
          ELSE UNCHANGED <<epoll, eventVars>>

\* The hooked close: cancelAll, then FdManager::del, then the real close; of
\* a descriptor without FdCxt only the last.
Close(f, fd) ==
    /\ pc[f] = "run"
    /\ fd \in open /\ (Shared \/ owner[fd] = f)
    /\ IF fd \in managed THEN CancelAll(fd) /\ Goto(f, "forget")
                         ELSE UNCHANGED <<epoll, eventVars>> /\ Goto(f, "close")
    /\ op' = [op EXCEPT ![f] = [fd |-> fd, event |-> "READ", gen |-> 0]]
    /\ UNCHANGED <<open, ready, managed, owner, tableVars, batch, failed>>

CloseForget(f) ==
    /\ pc[f] = "forget"
    /\ managed' = managed \ {op[f].fd}
    /\ Goto(f, "close")
    /\ UNCHANGED <<kernelVars, owner, tableVars, eventVars, op, batch, failed>>

\* The kernel drops the registration with the descriptor.
CloseFd(f) ==
    /\ pc[f] = "close"
    /\ open' = open \ {op[f].fd}
    /\ ready' = [ready EXCEPT ![op[f].fd] = {}]
    /\ epoll' = [epoll EXCEPT ![op[f].fd] = NoEntry]
    /\ op' = [op EXCEPT ![f] = NoOp]
    /\ Goto(f, "run")
    /\ UNCHANGED <<managed, owner, tableVars, eventVars, batch, failed>>

-----------------------------------------------------------------------------
(* idle() *)

\* Mutant: an error or a hang-up counts as nothing.
Reported_NoHangUp(fd) == ready[fd] \cap epoll[fd].events

\* The events of a registration that the kernel reports: an error or a
\* hang-up counts as both.
Reported(fd) ==
    IF "HUP" \in ready[fd] THEN Events ELSE ready[fd] \cap epoll[fd].events

\* epoll_wait hands every event it has to a thread, once; the array has
\* room for all of them.
EpollWait(t) ==
    LET fds == {fd \in Fds : epoll[fd].armed /\ Reported(fd) # {}}
    IN  /\ batch[t] = {}
        /\ fds # {}
        /\ batch' = [batch EXCEPT ![t] = {[context |-> Context(fd, epoll[fd].gen),
                                          real_event |-> Reported(fd)] : fd \in fds}]
        /\ epoll' = [fd \in Fds |-> [epoll[fd] EXCEPT !.armed = @ /\ fd \notin fds]]
        /\ UNCHANGED <<open, ready, managed, owner, tableVars, eventVars, pc, op, failed>>

\* Under the mutex of the context, the registered ones among the reported
\* events are triggered and the others stay with the kernel.
Handle(t, r) ==
    LET c == r.context
        trigger_events == r.real_event \cap m_events[c]
    IN  /\ r \in batch[t]
        /\ IF trigger_events # {} /\ CtlSucceeds(FALSE, c.fd)
             THEN Ctl(c, m_events[c] \ trigger_events) /\ Trigger(c, trigger_events)
             ELSE UNCHANGED <<epoll, eventVars>>
        /\ batch' = [batch EXCEPT ![t] = @ \ {r}]
        /\ UNCHANGED <<open, ready, managed, owner, tableVars, pc, op, failed>>

-----------------------------------------------------------------------------
(* The specification *)

\* What a fiber does once it has begun.
FiberStep(f) ==
    \/ Resize(f) \/ Register(f) \/ RegisterError(f) \/ RegisterAssert(f) \/ Resume(f)
    \/ CloseForget(f) \/ CloseFd(f)

FiberCall(f) ==
    \E fd \in Fds :
        \/ Open(f, fd) \/ Close(f, fd)
        \/ \E e \in Events : AddEvent(f, fd, e) \/ Consume(f, fd, e)

IOStep(t) == EpollWait(t) \/ \E r \in batch[t] : Handle(t, r)

Next ==
    /\ failed = "none"
    /\ \/ \E f \in Fibers : FiberStep(f) \/ FiberCall(f)
       \/ \E t \in IOThreads : IOStep(t)
       \/ \E fd \in Fds : \/ \E e \in Events : CancelEvent(fd, e)
                          \/ \E s \in Events \cup {"HUP"} : BecomeReady(fd, s)

Spec == Init /\ [][Next]_vars

\* Threads keep polling, and the scheduler runs what was scheduled; each of
\* these steps changes the variable its fairness names.
Fairness ==
    /\ \A f \in Fibers : WF_pc(failed = "none" /\ Resume(f))
    /\ \A t \in IOThreads : WF_batch(failed = "none" /\ IOStep(t))

FairSpec == Spec /\ Fairness

-----------------------------------------------------------------------------
(* Properties *)

\* m_pendingEventCounts is the number of registered events of all contexts,
\* on which IOManager::stopping relies (iomanager.cpp:171, 228, 283, 324).
PendingExact == m_pendingEventCounts = Cardinality(Registered)

\* An EventContext has a fiber exactly while its event is registered (the
\* assertion at iomanager.cpp:176 is part of this).
EventHasFiber ==
    \A c \in Contexts, e \in Events : e \in m_events[c] <=> fiber[c][e] # NoFiber

\* No fiber is in two of them.
FiberOnce ==
    \A r, s \in Registered : fiber[r[1]][r[2]] = fiber[s[1]][s[2]] => r = s

Waits(f) == pc[f] = "held" /\ f \notin scheduled

\* A fiber waits exactly while it is in one.
WaitsIffRegistered ==
    /\ \A r \in Registered : Waits(fiber[r[1]][r[2]])
    /\ \A f \in Fibers : Waits(f) => \E r \in Registered : fiber[r[1]][r[2]] = f

\* A fiber that holds for an event will be scheduled by exactly one of
\* epoll_wait, cancelEvent and cancelAll, and then only once
\* (triggerContext, iomanager.cpp:38-55).
OneWakeUp == EventHasFiber /\ FiberOnce /\ WaitsIffRegistered

\* Whatever the kernel watches is registered in the context it reports
\* (epoll_ctl in addEvent, cancelEvent, cancelAll and idle).
EpollAgrees ==
    \A fd \in Fds : epoll[fd].gen # 0 =>
        epoll[fd].events = m_events[Context(fd, epoll[fd].gen)]

\* Conversely, the kernel watches every registered event, for the context
\* that registered it: nobody waits for an event that cannot come.
RegisteredWatched ==
    \A c \in Contexts : m_events[c] # {} => /\ epoll[c.fd].gen = c.gen
                                            /\ epoll[c.fd].events = m_events[c]

\* A context with registered events stays in the table, where close, a
\* timeout or the next addEvent finds it (iomanager.cpp:134-145, 489-500),
\* unless two addEvents have resized the table and the second made it smaller.
RegisteredInTable ==
    shrunk \/ \A c \in Contexts : m_events[c] # {} => m_fdContexts[c.fd] = c.gen

\* addEvent never finds its event already registered (the assertion at
\* iomanager.cpp:154) where every fiber uses descriptors of its own.
AddEventAssertHolds == failed # "addEvent"

\* A fiber that holds for an event of a descriptor on which the event, an
\* error or a hang-up has come is resumed.
ReadyFiberResumes ==
    \A f \in Fibers :
        (pc[f] = "held" /\ ready[op[f].fd] \cap {op[f].event, "HUP"} # {}) ~> pc[f] = "run"

=============================================================================
