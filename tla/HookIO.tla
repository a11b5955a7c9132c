-------------------------------- MODULE HookIO --------------------------------
(***************************************************************************)
(* The hooked system calls (blue/hook.cpp) and the context FdManager keeps *)
(* for each descriptor (blue/fdmanager.cpp): the attempt loop of hook_io   *)
(* behind read, write and accept, connect_with_timeout, the sleep family,  *)
(* socket, close, fcntl and setsockopt.                                    *)
(*                                                                         *)
(* The event loop is what module IOManager shows it to be: an event has    *)
(* one registered fiber, which is scheduled once.  A timer is what module  *)
(* TimerManager shows it to be: cancel() removes it, or its callback was   *)
(* taken and runs later as a task of its own, on any thread.  A fiber uses *)
(* and closes only descriptors it opened.                                  *)
(***************************************************************************)
EXTENDS Integers, FiniteSets

CONSTANTS
    Fibers,
    Fds,         \* descriptor numbers; they are reused
    NoFd,
    NoFiber,
    NoCxt,       \* FdManager has no FdCxt
    SocketFds,   \* the numbers that socket(), not only accept(), returns
    IOEvents,    \* what a socket is used for once it is connected
    MaxCalls,    \* bound: calls made
    MaxOptions,  \* bound: calls of fcntl and setsockopt
    MaxStale     \* bound: late reports of earlier registrations

Events == {"READ", "WRITE"}
Kinds == {"io", "accept", "connect", "sleep"}

ASSUME HookAssumption ==
    /\ NoFd \notin Fds
    /\ NoFiber \notin Fibers
    /\ SocketFds \subseteq Fds
    /\ IOEvents \subseteq Events
    /\ MaxCalls \in Nat /\ MaxOptions \in Nat /\ MaxStale \in Nat
    /\ NoCxt \notin [userNonBlock : BOOLEAN, timeouts : SUBSET IOEvents]

VARIABLES
    conn,       \* kernel: the state of the socket behind a number
    nonBlock,   \* kernel: O_NONBLOCK of the descriptor
    ready,      \* kernel: what a descriptor is ready for
    owner,      \* the fiber that opened a descriptor last
    fdCxt,      \* FdManager::m_datas
    reg,        \* the fiber registered for an event of a descriptor
    timers,     \* the timers of hooked calls, see Timer
    pc,
    call,       \* the arguments and locals of a fiber's call
    calls,      \* the calls made so far
    cancelled,  \* TimerInfo::cancelled of a fiber's current call
    woken,      \* whether, and why, a fiber that holds was scheduled
    elapsed,    \* history: the fibers one of whose call's timers was due
    options,    \* the calls of fcntl and setsockopt so far
    stale,      \* late reports so far
    result      \* how the last call of a fiber ended

kernelVars == <<conn, nonBlock, ready, owner, fdCxt>>
bounds == <<options, stale>>
vars == <<kernelVars, reg, timers, pc, call, calls, cancelled, woken, elapsed, bounds, result>>

Calls == [kind : Kinds, fd : Fds \cup {NoFd}, event : Events, timed : BOOLEAN,
          direct : BOOLEAN, id : Nat, attempt : Nat]
NoCall == [kind |-> "sleep", fd |-> NoFd, event |-> "READ", timed |-> FALSE,
           direct |-> FALSE, id |-> 0, attempt |-> 0]

Cxts == [userNonBlock : BOOLEAN, timeouts : SUBSET IOEvents]

\* A timer is armed; or its callback was taken from m_timers and is queued,
\* about to set cancelled, or about to call cancelEvent.
Timer == [fiber : Fibers, call : Nat, attempt : Nat, kind : Kinds, fd : Fds \cup {NoFd},
          event : Events, at : {"armed", "queued", "store", "cancel"}]

Labels == {"idle", "func", "arm", "add", "hold", "blocked", "cancelTimer", "check",
           "getsockopt"}

TypeOK ==
    /\ conn \in [Fds -> {"none", "new", "listen", "connecting", "up", "refused"}]
    /\ nonBlock \in [Fds -> BOOLEAN]
    /\ ready \in [Fds -> SUBSET Events]
    /\ owner \in [Fds -> Fibers \cup {NoFiber}]
    /\ fdCxt \in [Fds -> Cxts \cup {NoCxt}]
    /\ reg \in [Fds \X Events -> Fibers \cup {NoFiber}]
    /\ timers \subseteq Timer
    /\ pc \in [Fibers -> Labels]
    /\ call \in [Fibers -> Calls]
    /\ calls \in Nat
    /\ cancelled \in [Fibers -> BOOLEAN]
    /\ woken \in [Fibers -> {"no", "ready", "other"}]
    /\ elapsed \subseteq Fibers
    /\ options \in Nat /\ stale \in Nat
    /\ result \in [Fibers -> {"none", "ok", "timeout", "error", "slept", "connected"}]

Init ==
    /\ conn = [fd \in Fds |-> "none"]
    /\ nonBlock = [fd \in Fds |-> FALSE]
    /\ ready = [fd \in Fds |-> {}]
    /\ owner = [fd \in Fds |-> NoFiber]
    /\ fdCxt = [fd \in Fds |-> NoCxt]
    /\ reg = [x \in Fds \X Events |-> NoFiber]
    /\ timers = {}
    /\ pc = [f \in Fibers |-> "idle"]
    /\ call = [f \in Fibers |-> NoCall]
    /\ calls = 0
    /\ cancelled = [f \in Fibers |-> FALSE]
    /\ woken = [f \in Fibers |-> "no"]
    /\ elapsed = {}
    /\ options = 0 /\ stale = 0
    /\ result = [f \in Fibers |-> "none"]

-----------------------------------------------------------------------------
(* Helpers *)

Goto(f, label) == pc' = [pc EXCEPT ![f] = label]

\* The armed timer of the current attempt of f.
OwnTimer(f) ==
    {tm \in timers : /\ tm.fiber = f /\ tm.call = call[f].id
                     /\ tm.attempt = call[f].attempt /\ tm.at = "armed"}

\* The call returns: its locals, with them its TimerInfo, are gone.
Return(f, r) ==
    /\ result' = [result EXCEPT ![f] = r]
    /\ call' = [call EXCEPT ![f] = NoCall]
    /\ cancelled' = [cancelled EXCEPT ![f] = FALSE]
    /\ woken' = [woken EXCEPT ![f] = "no"]
    /\ elapsed' = elapsed \ {f}
    /\ Goto(f, "idle")

\* Mutant: the event is removed, its fiber is not scheduled.
WakeAll_NotScheduled(S, why) ==
        /\ reg' = [x \in Fds \X Events |-> IF x \in S THEN NoFiber ELSE reg[x]]
        /\ UNCHANGED woken

\* Schedule the fibers registered in S.
WakeAll(S, why) ==
    LET fibers == {reg[x] : x \in S} \ {NoFiber}
    IN  /\ reg' = [x \in Fds \X Events |-> IF x \in S THEN NoFiber ELSE reg[x]]
        /\ woken' = [f \in Fibers |-> IF f \in fibers THEN why ELSE woken[f]]

-----------------------------------------------------------------------------
(* Descriptors *)

\* A new descriptor fd for fiber f.  FdManager::get with auto_create makes a
\* FdCxt, which sets O_NONBLOCK, unless it still has one for the number.
NewFd(f, fd, s) ==
    /\ conn[fd] = "none"
    /\ conn' = [conn EXCEPT ![fd] = s]
    /\ owner' = [owner EXCEPT ![fd] = f]
    /\ nonBlock' = [nonBlock EXCEPT ![fd] = fdCxt[fd] = NoCxt]
    /\ fdCxt' = [fdCxt EXCEPT ![fd] =
                    IF fdCxt[fd] = NoCxt THEN [userNonBlock |-> FALSE, timeouts |-> {}] ELSE @]

Uses(f, fd) == pc[f] = "idle" /\ conn[fd] # "none" /\ owner[fd] = f

\* socket(), and for a server bind() and listen().
Socket(f, fd, s) ==
    /\ pc[f] = "idle"
    /\ fd \in SocketFds
    /\ NewFd(f, fd, s)
    /\ UNCHANGED <<ready, reg, timers, pc, call, calls, cancelled, woken, elapsed, bounds, result>>

\* fcntl(F_SETFL): the kernel keeps O_NONBLOCK, FdCxt notes what the caller
\* asked for.
SetFl(f, fd, arg) ==
    /\ Uses(f, fd)
    /\ options < MaxOptions /\ options' = options + 1
    /\ fdCxt' = [fdCxt EXCEPT ![fd] = IF @ = NoCxt THEN @ ELSE [@ EXCEPT !.userNonBlock = arg]]
    /\ nonBlock' = [nonBlock EXCEPT ![fd] = IF fdCxt[fd] = NoCxt THEN arg ELSE TRUE]
    /\ UNCHANGED <<conn, ready, owner, reg, timers, pc, call, calls, cancelled, woken, elapsed,
                   stale, result>>

\* setsockopt(SO_RCVTIMEO or SO_SNDTIMEO).
SetTimeout(f, fd, e) ==
    /\ Uses(f, fd)
    /\ options < MaxOptions /\ options' = options + 1
    /\ fdCxt[fd] # NoCxt
    /\ fdCxt' = [fdCxt EXCEPT ![fd].timeouts = @ \cup {e}]
    /\ UNCHANGED <<conn, nonBlock, ready, owner, reg, timers, pc, call, calls, cancelled, woken,
                   elapsed, stale, result>>

\* Mutant: FdManager::del is not called.
Close_KeepsCxt(f, fd) ==
    /\ Uses(f, fd)
    /\ WakeAll({fd} \X Events, "other")
    /\ UNCHANGED fdCxt
    /\ conn' = [conn EXCEPT ![fd] = "none"]
    /\ ready' = [ready EXCEPT ![fd] = {}]
    /\ owner' = [owner EXCEPT ![fd] = NoFiber]
    /\ nonBlock' = [nonBlock EXCEPT ![fd] = FALSE]
    /\ UNCHANGED <<timers, pc, call, calls, cancelled, elapsed, bounds, result>>

\* close(): cancelAll, FdManager::del, the system call; see IOManager for
\* what happens between them when fibers share a descriptor.
Close(f, fd) ==
    /\ Uses(f, fd)
    /\ WakeAll({fd} \X Events, "other")
    /\ fdCxt' = [fdCxt EXCEPT ![fd] = NoCxt]
    /\ conn' = [conn EXCEPT ![fd] = "none"]
    /\ ready' = [ready EXCEPT ![fd] = {}]
    /\ owner' = [owner EXCEPT ![fd] = NoFiber]
    /\ nonBlock' = [nonBlock EXCEPT ![fd] = FALSE]
    /\ UNCHANGED <<timers, pc, call, calls, cancelled, elapsed, bounds, result>>

\* An event can be waited for on a connected or listening socket.
CarriesData(fd, e) ==
    (conn[fd] = "up" /\ e \in IOEvents) \/ (conn[fd] = "listen" /\ e = "READ")

\* The peer sends or makes room, a client arrives, a handshake ends.
Peer(fd) ==
    /\ \/ \E e \in Events : /\ CarriesData(fd, e)
                            /\ ready' = [ready EXCEPT ![fd] = @ \cup {e}]
                            /\ UNCHANGED conn
       \/ \E s \in {"up", "refused"} :
            /\ conn[fd] = "connecting"
            /\ conn' = [conn EXCEPT ![fd] = s]
            /\ ready' = [ready EXCEPT ![fd] = @ \cup {"WRITE"}]
    /\ UNCHANGED <<nonBlock, owner, fdCxt, reg, timers, pc, call, calls, cancelled, woken,
                   elapsed, bounds, result>>

-----------------------------------------------------------------------------
(* A call begins *)

\* The tests at the head of hook_io and connect_with_timeout: without FdCxt,
\* or when the caller set O_NONBLOCK itself, the system call is all.
Begin(f, c) ==
    /\ pc[f] = "idle"
    /\ calls < MaxCalls
    /\ calls' = calls + 1
    /\ call' = [call EXCEPT ![f] = [c EXCEPT !.id = calls + 1]]
    /\ result' = [result EXCEPT ![f] = "none"]
    /\ Goto(f, IF c.kind = "sleep" THEN "arm" ELSE "func")
    /\ UNCHANGED <<kernelVars, reg, timers, cancelled, woken, elapsed, bounds>>

IOCall(f, fd, e) ==
    /\ Uses(f, fd)
    /\ CarriesData(fd, e)
    /\ LET cxt == fdCxt[fd] IN
       Begin(f, [kind |-> IF conn[fd] = "up" THEN "io" ELSE "accept", fd |-> fd, event |-> e,
                 timed |-> cxt # NoCxt /\ e \in cxt.timeouts,
                 direct |-> cxt = NoCxt \/ cxt.userNonBlock, id |-> 0, attempt |-> 0])

\* The timeout of connect is the configured one, possibly none.
ConnectCall(f, fd, timed) ==
    /\ Uses(f, fd)
    /\ conn[fd] = "new"
    /\ fdCxt[fd] # NoCxt
    /\ Begin(f, [kind |-> "connect", fd |-> fd, event |-> "WRITE", timed |-> timed,
                 direct |-> fdCxt[fd].userNonBlock,
                 id |-> 0, attempt |-> 0])

SleepCall(f) == Begin(f, [NoCall EXCEPT !.timed = TRUE])

-----------------------------------------------------------------------------
(* The system call *)

\* read, write and their kin succeed.
Transfer(f) ==
    LET c == call[f]
    IN  /\ pc[f] \in {"func", "blocked"}
        /\ c.kind = "io" /\ c.event \in ready[c.fd]
        /\ ready' = [ready EXCEPT ![c.fd] = @ \ {c.event}]
        /\ Return(f, "ok")
        /\ UNCHANGED <<conn, nonBlock, owner, fdCxt, reg, timers, calls, bounds>>

\* accept succeeds; the new descriptor gets its FdCxt.
Accept(f) ==
    LET c == call[f]
    IN  /\ pc[f] \in {"func", "blocked"}
        /\ c.kind = "accept" /\ "READ" \in ready[c.fd]
        /\ \E fd \in Fds : NewFd(f, fd, "up")
        /\ ready' = [ready EXCEPT ![c.fd] = @ \ {"READ"}]
        /\ Return(f, "ok")
        /\ UNCHANGED <<reg, timers, calls, bounds>>

\* No number is free: EMFILE.
AcceptFails(f) ==
    /\ pc[f] \in {"func", "blocked"}
    /\ call[f].kind = "accept" /\ "READ" \in ready[call[f].fd]
    /\ \A fd \in Fds : conn[fd] # "none"
    /\ Return(f, "error")
    /\ UNCHANGED <<kernelVars, reg, timers, calls, bounds>>

\* EAGAIN, or a thread that blocks although it runs other fibers as well.
Again(f) ==
    LET c == call[f]
    IN  /\ pc[f] = "func"
        /\ c.kind \in {"io", "accept"} /\ c.event \notin ready[c.fd]
        /\ IF ~nonBlock[c.fd]
             THEN Goto(f, "blocked") /\ UNCHANGED <<call, cancelled, woken, elapsed, result>>
           ELSE IF c.direct THEN Return(f, "error")
           ELSE Goto(f, "arm") /\ UNCHANGED <<call, cancelled, woken, elapsed, result>>
        /\ UNCHANGED <<kernelVars, reg, timers, calls, bounds>>

\* connect succeeds or fails at once.
ConnectNow(f) ==
    LET c == call[f]
    IN  /\ pc[f] = "func"
        /\ c.kind = "connect"
        /\ \E s \in {"up", "refused"} :
            /\ conn' = [conn EXCEPT ![c.fd] = s]
            /\ Return(f, IF s = "up" THEN "connected" ELSE "error")
        /\ UNCHANGED <<nonBlock, ready, owner, fdCxt, reg, timers, calls, bounds>>

\* EINPROGRESS.
ConnectLater(f) ==
    LET c == call[f]
    IN  /\ pc[f] = "func"
        /\ c.kind = "connect" /\ nonBlock[c.fd]
        /\ conn' = [conn EXCEPT ![c.fd] = "connecting"]
        /\ IF c.direct THEN Return(f, "error")
           ELSE Goto(f, "arm") /\ UNCHANGED <<call, cancelled, woken, elapsed, result>>
        /\ UNCHANGED <<nonBlock, ready, owner, fdCxt, reg, timers, calls, bounds>>

-----------------------------------------------------------------------------
(* The fiber waits *)

\* addConditionTimer or addTimer, if the call has a timeout.
Arm(f) ==
    LET c == [call[f] EXCEPT !.attempt = @ + 1]
        tm == [fiber |-> f, call |-> c.id, attempt |-> c.attempt, kind |-> c.kind,
               fd |-> c.fd, event |-> c.event, at |-> "armed"]
    IN  /\ pc[f] = "arm"
        /\ call' = [call EXCEPT ![f] = c]
        /\ timers' = IF c.timed THEN timers \cup {tm} ELSE timers
        /\ Goto(f, IF c.kind = "sleep" THEN "hold" ELSE "add")
        /\ UNCHANGED <<kernelVars, reg, calls, cancelled, woken, elapsed, bounds, result>>

\* addEvent and YieldToHold.
AddEvent(f) ==
    LET x == <<call[f].fd, call[f].event>>
    IN  /\ pc[f] = "add"
        /\ reg[x] = NoFiber
        /\ reg' = [reg EXCEPT ![x] = f]
        /\ Goto(f, "hold")
        /\ UNCHANGED <<kernelVars, timers, call, calls, cancelled, woken, elapsed, bounds, result>>

\* Mutant: the timer stays armed.
AddEventFails_KeepsTimer(f) ==
    /\ pc[f] = "add"
    /\ timers' = timers
    /\ Return(f, "error")
    /\ UNCHANGED <<kernelVars, reg, calls, bounds>>

\* epoll_ctl fails, for want of memory.
AddEventFails(f) ==
    /\ pc[f] = "add"
    /\ timers' = timers \ OwnTimer(f)
    /\ Return(f, "error")
    /\ UNCHANGED <<kernelVars, reg, calls, bounds>>

\* The event loop finds the descriptor ready.
Report(fd, e) ==
    /\ reg[<<fd, e>>] # NoFiber
    /\ e \in ready[fd]
    /\ WakeAll({<<fd, e>>}, "ready")
    /\ UNCHANGED <<kernelVars, timers, pc, call, calls, cancelled, elapsed, bounds, result>>

\* A thread handles a report it got for an earlier registration.
ReportLate(fd, e) ==
    /\ reg[<<fd, e>>] # NoFiber
    /\ stale < MaxStale
    /\ stale' = stale + 1
    /\ WakeAll({<<fd, e>>}, "other")
    /\ UNCHANGED <<kernelVars, timers, pc, call, calls, cancelled, elapsed, options, result>>

\* The fiber runs again; a sleep ends here.
Resume(f) ==
    /\ pc[f] = "hold"
    /\ woken[f] # "no"
    /\ IF call[f].kind = "sleep"
         THEN Return(f, "slept")
         ELSE Goto(f, "cancelTimer") /\ UNCHANGED <<call, cancelled, woken, elapsed, result>>
    /\ UNCHANGED <<kernelVars, reg, timers, calls, bounds>>

\* timer->cancel()
CancelTimer(f) ==
    /\ pc[f] = "cancelTimer"
    /\ timers' = timers \ OwnTimer(f)
    /\ Goto(f, "check")
    /\ UNCHANGED <<kernelVars, reg, call, calls, cancelled, woken, elapsed, bounds, result>>

\* Mutant: a fiber that was not timed out holds again.
Check_HoldsAgain(f) ==
    /\ pc[f] = "check"
    /\ IF cancelled[f]
         THEN Return(f, "timeout")
         ELSE /\ Goto(f, IF call[f].kind = "connect" THEN "getsockopt" ELSE "hold")
              /\ woken' = [woken EXCEPT ![f] = IF call[f].kind = "connect" THEN @ ELSE "no"]
              /\ UNCHANGED <<call, cancelled, elapsed, result>>
    /\ UNCHANGED <<kernelVars, reg, timers, calls, bounds>>

\* The timer ran out, or hook_io tries again and connect asks the socket.
Check(f) ==
    /\ pc[f] = "check"
    /\ IF cancelled[f]
         THEN Return(f, "timeout")
         ELSE /\ Goto(f, IF call[f].kind = "connect" THEN "getsockopt" ELSE "func")
              /\ woken' = [woken EXCEPT ![f] = IF call[f].kind = "connect" THEN @ ELSE "no"]
              /\ UNCHANGED <<call, cancelled, elapsed, result>>
    /\ UNCHANGED <<kernelVars, reg, timers, calls, bounds>>

\* Mutant: the socket is not asked how the handshake ended.
GetSockOpt_NotAsked(f) ==
    /\ pc[f] = "getsockopt"
    /\ Return(f, "connected")
    /\ UNCHANGED <<kernelVars, reg, timers, calls, bounds>>

\* getsockopt(SO_ERROR): a handshake that goes on has no error.
GetSockOpt(f) ==
    /\ pc[f] = "getsockopt"
    /\ Return(f, IF conn[call[f].fd] = "refused" THEN "error" ELSE "connected")
    /\ UNCHANGED <<kernelVars, reg, timers, calls, bounds>>

-----------------------------------------------------------------------------
(* The callback of a timer *)

Advance(tm, label) == timers' = (timers \ {tm}) \cup {[tm EXCEPT !.at = label]}

\* The TimerInfo of the timer's call still exists.
Alive(tm) == call[tm.fiber].id = tm.call

\* The timer is due: listExpiredCb takes its callback and schedules it.
Take(tm) ==
    /\ tm.at = "armed"
    /\ Advance(tm, "queued")
    /\ elapsed' = IF Alive(tm) THEN elapsed \cup {tm.fiber} ELSE elapsed
    /\ UNCHANGED <<kernelVars, reg, pc, call, calls, cancelled, woken, bounds, result>>

\* The callback runs: weak_ptr::lock() and the test of cancelled; that of a
\* sleep schedules its fiber.
Run(tm) ==
    /\ tm.at = "queued"
    /\ IF tm.kind = "sleep"
         THEN timers' = timers \ {tm} /\ woken' = [woken EXCEPT ![tm.fiber] = "other"]
         ELSE /\ UNCHANGED woken
              /\ IF Alive(tm) /\ ~cancelled[tm.fiber]
                   THEN Advance(tm, "store") ELSE timers' = timers \ {tm}
    /\ UNCHANGED <<kernelVars, reg, pc, call, calls, cancelled, elapsed, bounds, result>>

\* Mutant: the flag outlives the call it was made for.
Store_AnyCall(tm) ==
    /\ tm.at = "store"
    /\ cancelled' = [cancelled EXCEPT ![tm.fiber] = TRUE]
    /\ Advance(tm, "cancel")
    /\ UNCHANGED <<kernelVars, reg, pc, call, calls, woken, elapsed, bounds, result>>

\* cancelled.store(ETIMEDOUT); the TimerInfo may be this callback's alone.
Store(tm) ==
    /\ tm.at = "store"
    /\ cancelled' = [cancelled EXCEPT ![tm.fiber] = @ \/ Alive(tm)]
    /\ Advance(tm, "cancel")
    /\ UNCHANGED <<kernelVars, reg, pc, call, calls, woken, elapsed, bounds, result>>

\* cancelEvent(fd, event): whoever is registered there now is scheduled.
CancelEvent(tm) ==
    /\ tm.at = "cancel"
    /\ timers' = timers \ {tm}
    /\ WakeAll({<<tm.fd, tm.event>>}, "other")
    /\ UNCHANGED <<kernelVars, pc, call, calls, cancelled, elapsed, bounds, result>>

-----------------------------------------------------------------------------
(* The specification *)

\* What a fiber inside a call does next.
FiberStep(f) ==
    \/ Transfer(f) \/ Accept(f) \/ AcceptFails(f) \/ Again(f) \/ ConnectNow(f) \/ ConnectLater(f)
    \/ Arm(f) \/ AddEvent(f) \/ Resume(f) \/ CancelTimer(f) \/ Check(f) \/ GetSockOpt(f)

TimerStep(tm) == Take(tm) \/ Run(tm) \/ Store(tm) \/ CancelEvent(tm)

FiberUse(f) ==
    \/ SleepCall(f)
    \/ \E fd \in Fds :
        \/ \E s \in {"new", "listen"} : Socket(f, fd, s)
        \/ \E arg \in BOOLEAN : SetFl(f, fd, arg)
        \/ \E timed \in BOOLEAN : ConnectCall(f, fd, timed)
        \/ \E e \in IOEvents : SetTimeout(f, fd, e)
        \/ \E e \in Events : IOCall(f, fd, e)
        \/ Close(f, fd)

Next ==
    \/ \E f \in Fibers : FiberStep(f) \/ FiberUse(f) \/ AddEventFails(f)
    \/ \E tm \in timers : TimerStep(tm)
    \/ \E fd \in Fds : Peer(fd) \/ \E e \in Events : Report(fd, e) \/ ReportLate(fd, e)

Spec == Init /\ [][Next]_vars

\* Fibers that can run do, timers become due and their callbacks are run,
\* the event loop reports what is ready.
Fairness ==
    /\ \A f \in Fibers : WF_vars(FiberStep(f))
    /\ \A fd \in Fds, e \in Events : WF_vars(Report(fd, e))
    /\ WF_vars(\E tm \in timers : TimerStep(tm))

FairSpec == Spec /\ Fairness

-----------------------------------------------------------------------------
(* Properties *)

\* What a hooked call leaves when it returns (hook.cpp:172-180, 196-207,
\* 272-281, 292-301): its fiber is registered for no event and no timer is
\* armed for it, so that nothing resumes the fiber in the middle of whatever
\* it does next.  Inside a call at most one timer is armed, that of the
\* current attempt.
LeavesNothing ==
    /\ \A x \in Fds \X Events : reg[x] # NoFiber => pc[reg[x]] = "hold" /\ woken[reg[x]] = "no"
    /\ \A tm \in timers : tm.at = "armed" => pc[tm.fiber] # "idle" /\ tm \in OwnTimer(tm.fiber)

\* A fiber that holds has been scheduled, or something is left that will:
\* its event is registered, or the timer of its sleep is on its way
\* (hook.cpp:184-185, 284-285, 340-342).
HoldsHaveAWaker ==
    \A f \in Fibers :
        pc[f] = "hold" /\ woken[f] = "no" =>
            \/ call[f].kind # "sleep" /\ reg[<<call[f].fd, call[f].event>>] = f
            \/ \E tm \in timers : tm.fiber = f /\ tm.kind = "sleep"

\* No fiber blocks the thread that other fibers run on: whatever was opened,
\* closed and opened again, and whatever fcntl asked for, the kernel's
\* descriptor is non-blocking (fdmanager.cpp:47-56, hook.cpp:543-550).
ThreadNotBlocked == \A f \in Fibers : pc[f] # "blocked"

\* A connect that was resumed because its socket became writable reports
\* success only if the handshake ended well (hook.cpp:306-319).
ConnectExact ==
    [][\A f \in Fibers :
        pc[f] = "getsockopt" /\ pc'[f] = "idle" /\ woken[f] = "ready" =>
            (result'[f] = "connected" <=> conn[call[f].fd] = "up")]_vars

\* Hooked calls are what BlockingCall says, whatever timers of earlier calls,
\* late reports and reused descriptor numbers do: data is taken by the call
\* that returns it, and ETIMEDOUT and the end of a sleep are due to a timer
\* that this very call armed (hook.cpp:120-212).
Abstract == INSTANCE BlockingCall WITH
    Targets <- Fds \X Events,
    NoTarget <- <<NoFd, "READ">>,
    pending <- {f \in Fibers : pc[f] # "idle"},
    target <- [f \in Fibers |-> IF call[f].kind \in {"io", "accept"}
                                  THEN <<call[f].fd, call[f].event>> ELSE <<NoFd, "READ">>],
    arrived <- {x \in Fds \X Events : x[2] \in ready[x[1]]}

ImplementsBlockingCall == Abstract!Spec

\* A call that holds returns once what it waits for has come, and so does a
\* sleep (hook.cpp:185, 207, 342): neither a late report nor the timer of an
\* earlier call makes it miss the event.
CallReturns ==
    \A f \in Fibers :
        (pc[f] = "hold" /\ (call[f].kind = "sleep" \/ call[f].event \in ready[call[f].fd]))
            ~> pc[f] = "idle"

\* What the comment at hook.cpp:144-147 says of a timed call: a timer that
\* will cancel the wait exists as long as the call waits.
TimedWaitEnds ==
    \A f \in Fibers :
        pc[f] = "hold" /\ woken[f] = "no" /\ call[f].timed =>
            \E tm \in timers : tm.fiber = f /\ tm.call = call[f].id

=============================================================================
