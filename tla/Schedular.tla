------------------------------ MODULE Schedular ------------------------------
(***************************************************************************)
(* The fiber scheduler: Schedular::schedule, start, stop, run, stopping    *)
(* and idle (blue/schedular.h, blue/schedular.cpp) together with the fiber *)
(* state machine they drive (swapIn, swapOut, YieldToReady, YieldToHold    *)
(* and MainFunc of blue/fiber.cpp).                                        *)
(*                                                                         *)
(* A step of a thread is one critical section of m_mutex or one load or    *)
(* store of an atomic that another thread can also reach.  A fiber is      *)
(* identified with the task it carries: the object behind cb_fiber is      *)
(* reused for a later callback only after a callback that never yielded,   *)
(* so no two tasks are ever visible through one object.                    *)
(*                                                                         *)
(* A failed BLUE_ASSERT aborts the process; resuming a fiber on whose      *)
(* stack another thread still runs is undefined behaviour.  Both are       *)
(* recorded in "failed" and end the behaviour: nothing is claimed after.   *)
(***************************************************************************)
EXTENDS Integers, Sequences, FiniteSets

CONSTANTS
    Workers,     \* the threads start() creates
    Main,        \* the thread that owns the scheduler and calls stop()
    UseCaller,   \* constructor argument: Main also runs run(), inside stop()
    Tasks,       \* fibers and callbacks that are scheduled
    AnyThread,   \* threadId = -1: any thread may take the task
    NoTask,      \* an empty FiberAndThread
    Pin,         \* [Tasks -> Threads or AnyThread]: the thr argument of schedule
    MayHold,     \* tasks that register an event and call YieldToHold
    MayThrow,    \* tasks whose body may end with an exception
    MaxYields,   \* bound: yields of one task
    MayBeSpawned, \* tasks that running tasks schedule, the rest only Main does
    MaxSubmits,  \* [Tasks -> Nat], bound: schedule calls for a task
    IdleKinds    \* the values of ioIdle that are considered

Threads == Workers \cup {Main}

ASSUME ConstantsAssumption ==
    /\ IsFiniteSet(Workers)
    /\ Main \notin Workers
    /\ AnyThread \notin Threads
    /\ NoTask \notin Tasks
    /\ UseCaller \in BOOLEAN /\ IdleKinds \subseteq BOOLEAN
    /\ UseCaller \/ Workers # {}
    /\ Pin \in [Tasks -> Threads \cup {AnyThread}]
    /\ MayHold \subseteq Tasks /\ MayThrow \subseteq Tasks /\ MayBeSpawned \subseteq Tasks
    /\ MaxYields \in Nat
    /\ MaxSubmits \in [Tasks -> Nat]

VARIABLES
    m_fibers,             \* the queue of FiberAndThread records
    m_activeThreadCounts,
    m_stopping,
    m_autoStopping,
    ioIdle,               \* the object is an IOManager, whose idle() and stopping()
                          \* override those of Schedular
    status,               \* m_status of each fiber
    pc,                   \* where each thread is, in run() or in stop()
    ft,                   \* the task a thread took from the queue
    noFibers,             \* local no_fibers of stopping()
    idleTerm,             \* the thread's idle fiber has reached TERM
    onStack,              \* the threads executing on a fiber's stack
    armed,                \* fibers held by an FdContext or a timer
    yields,               \* yields made so far, bounded by MaxYields
    submits,              \* schedule calls made by the application
    ended,                \* tasks whose body returned or threw
    failed                \* "none", or the assertion that failed

queueVars  == <<m_fibers, submits>>
stopVars   == <<m_stopping, m_autoStopping, ioIdle>>
fiberVars  == <<status, onStack, armed, yields, ended>>
threadVars == <<pc, ft, noFibers, idleTerm>>
vars == <<queueVars, m_activeThreadCounts, stopVars, fiberVars, threadVars, failed>>

Status == {"INIT", "EXEC", "READY", "HOLD", "TERM", "EXCEPT"}

Item == [task : Tasks, thr : Threads \cup {AnyThread}]

\* Between the pop that increments m_activeThreadCounts and its fetch_sub.
Counted == {"check", "swapIn", "enter", "user", "hold", "out", "outHold", "swap", "sub"}

CountedThreads == {t \in Threads : pc[t] \in Counted}

\* The thread's ft (or cb_fiber) refers to a task.
Holding == Counted \cup {"post", "postHold", "resched"}

Labels == Holding \cup {"new", "app", "stop1", "stopQ", "stopA", "join", "stopped",
                        "pop", "idle", "idleDecide", "exited"}

StateOK ==
    /\ m_fibers \in Seq(Item)
    /\ m_stopping \in BOOLEAN /\ m_autoStopping \in BOOLEAN /\ ioIdle \in BOOLEAN
    /\ status \in [Tasks -> Status]
    /\ pc \in [Threads -> Labels]
    /\ ft \in [Threads -> Tasks \cup {NoTask}]
    /\ noFibers \in [Threads -> BOOLEAN]
    /\ idleTerm \in [Threads -> BOOLEAN]
    /\ onStack \in [Tasks -> SUBSET Threads]
    /\ armed \subseteq Tasks
    /\ yields \in [Tasks -> 0..MaxYields]
    /\ submits \in [Tasks -> Nat]
    /\ ended \subseteq Tasks
    /\ failed \in {"none", "swapIn", "stack", "yield", "addEvent", "destroy"}

TypeOK == StateOK /\ m_activeThreadCounts \in Nat

-----------------------------------------------------------------------------
(* State and helpers *)

Init ==
    /\ m_fibers = <<>>
    /\ m_activeThreadCounts = 0
    /\ m_stopping = TRUE
    /\ m_autoStopping = FALSE
    /\ ioIdle \in IdleKinds
    /\ status = [k \in Tasks |-> "INIT"]
    /\ pc = [t \in Threads |-> "new"]
    /\ ft = [t \in Threads |-> NoTask]
    /\ noFibers = [t \in Threads |-> FALSE]
    /\ idleTerm = [t \in Threads |-> FALSE]
    /\ onStack = [k \in Tasks |-> {}]
    /\ armed = {}
    /\ yields = [k \in Tasks |-> 0]
    /\ submits = [k \in Tasks |-> 0]
    /\ ended = {}
    /\ failed = "none"

Goto(t, label) == pc' = [pc EXCEPT ![t] = label]

\* Back to the head of the loop in run(), where ft.reset() is called.
Loop(t) == Goto(t, "pop") /\ ft' = [ft EXCEPT ![t] = NoTask]

\* _scheduleNoLock: append under m_mutex.
Enqueue(k, thr) == m_fibers' = Append(m_fibers, [task |-> k, thr |-> thr])

\* Mutant: the task is copied out of the queue but not erased.
Without_NoErase(s, i) == s

\* m_fibers.erase(it)
Without(s, i) == [j \in 1..(Len(s) - 1) |-> IF j < i THEN s[j] ELSE s[j + 1]]

\* Mutant: the scan ignores threadId.
Eligible_AnyThread(t) ==
    {i \in DOMAIN m_fibers : status[m_fibers[i].task] # "EXEC"}

\* The entries of the queue that the scan in run() does not skip.
Eligible(t) ==
    {i \in DOMAIN m_fibers : /\ m_fibers[i].thr \in {AnyThread, t}
                             /\ status[m_fibers[i].task] # "EXEC"}

\* has_pending of Schedular::idle.
HasPending(t) == \E i \in DOMAIN m_fibers : m_fibers[i].thr \in {AnyThread, t}

\* No shared_ptr to k is left once thread t lets go of its own.  A fiber
\* suspended inside a yield is kept alive by the pointer on its own stack.
LastReference(t, k) ==
    /\ k \in ended
    /\ submits[k] = MaxSubmits[k]
    /\ \A i \in DOMAIN m_fibers : m_fibers[i].task # k
    /\ \A u \in Threads \ {t} : ~(ft[u] = k /\ pc[u] \in Holding)

-----------------------------------------------------------------------------
(* start() and schedule() *)

Start ==
    /\ \A t \in Threads : pc[t] = "new"
    /\ m_stopping' = FALSE
    /\ pc' = [t \in Threads |-> IF t = Main THEN "app" ELSE "pop"]
    /\ UNCHANGED <<queueVars, m_activeThreadCounts, m_autoStopping, ioIdle, fiberVars,
                   ft, noFibers, idleTerm, failed>>

\* schedule(task, thr), by the application or by a running task.
Submit(t, k) ==
    /\ (pc[t] = "user" /\ k \in MayBeSpawned) \/ (t = Main /\ pc[t] \in {"new", "app"})
    /\ submits[k] < MaxSubmits[k]
    /\ submits' = [submits EXCEPT ![k] = @ + 1]
    /\ Enqueue(k, Pin[k])
    /\ UNCHANGED <<m_activeThreadCounts, stopVars, fiberVars, threadVars, failed>>

\* Mutant: the event is cleared, its fiber is not scheduled.
Wake_NotScheduled(k) ==
    /\ k \in armed
    /\ armed' = armed \ {k}
    /\ UNCHANGED <<queueVars, m_activeThreadCounts, stopVars, status, onStack, yields,
                   ended, threadVars, failed>>

\* The event or timer a held fiber registered fires: triggerContext or the
\* timer callback calls schedule(fiber), always without a thread.
Wake(k) ==
    /\ k \in armed
    /\ armed' = armed \ {k}
    /\ Enqueue(k, AnyThread)
    /\ UNCHANGED <<submits, m_activeThreadCounts, stopVars, status, onStack, yields,
                   ended, threadVars, failed>>

-----------------------------------------------------------------------------
(* run(): taking a task and switching to it *)

\* The scan under m_mutex takes the first entry it may take.
Pop(t) ==
    /\ pc[t] = "pop"
    /\ \E i \in Eligible(t) :
        /\ \A j \in Eligible(t) : i <= j
        /\ m_fibers' = Without(m_fibers, i)
        /\ ft' = [ft EXCEPT ![t] = m_fibers[i].task]
    /\ m_activeThreadCounts' = m_activeThreadCounts + 1
    /\ Goto(t, "check")
    /\ UNCHANGED <<submits, stopVars, fiberVars, noFibers, idleTerm, failed>>

\* No task: swap to the idle fiber, or leave run() if it has terminated.
PopNothing(t) ==
    /\ pc[t] = "pop"
    /\ Eligible(t) = {}
    /\ Goto(t, IF ~idleTerm[t] THEN "idle" ELSE IF t = Main THEN "join" ELSE "exited")
    /\ UNCHANGED <<queueVars, m_activeThreadCounts, stopVars, fiberVars, ft, noFibers,
                   idleTerm, failed>>

\* A popped fiber that has already finished is dropped.
Drop(t) ==
    /\ pc[t] = "check"
    /\ status[ft[t]] \in {"TERM", "EXCEPT"}
    /\ m_activeThreadCounts' = m_activeThreadCounts - 1
    /\ Loop(t)
    /\ UNCHANGED <<queueVars, stopVars, fiberVars, noFibers, idleTerm, failed>>

\* Mutant: a finished fiber is not recognised.
Check_EvenFinished(t) ==
    /\ pc[t] = "check"
    /\ Goto(t, "swapIn")
    /\ UNCHANGED <<queueVars, m_activeThreadCounts, stopVars, fiberVars, ft, noFibers,
                   idleTerm, failed>>

Check(t) ==
    /\ pc[t] = "check"
    /\ status[ft[t]] \notin {"TERM", "EXCEPT"}
    /\ Goto(t, "swapIn")
    /\ UNCHANGED <<queueVars, m_activeThreadCounts, stopVars, fiberVars, ft, noFibers,
                   idleTerm, failed>>

\* swapIn: BLUE_ASSERT(m_status != EXEC).
SwapIn(t) ==
    /\ pc[t] = "swapIn"
    /\ IF status[ft[t]] = "EXEC"
         THEN failed' = "swapIn" /\ UNCHANGED pc
         ELSE Goto(t, "enter") /\ UNCHANGED failed
    /\ UNCHANGED <<queueVars, m_activeThreadCounts, stopVars, fiberVars, ft, noFibers,
                   idleTerm>>

\* swapIn: the status becomes EXEC and the thread moves to the fiber's stack.
Enter(t) ==
    /\ pc[t] = "enter"
    /\ status' = [status EXCEPT ![ft[t]] = "EXEC"]
    /\ onStack' = [onStack EXCEPT ![ft[t]] = @ \cup {t}]
    /\ failed' = IF onStack[ft[t]] # {} THEN "stack" ELSE failed
    /\ Goto(t, "user")
    /\ UNCHANGED <<queueVars, m_activeThreadCounts, stopVars, armed, yields, ended, ft,
                   noFibers, idleTerm>>

-----------------------------------------------------------------------------
(* The body of a task, up to the point where it leaves its stack *)

\* MainFunc: the body returned, or its exception was caught.
EndBody(t, s) ==
    /\ pc[t] = "user"
    /\ status' = [status EXCEPT ![ft[t]] = s]
    /\ ended' = ended \cup {ft[t]}
    /\ Goto(t, "out")
    /\ UNCHANGED <<queueVars, m_activeThreadCounts, stopVars, onStack, armed, yields, ft,
                   noFibers, idleTerm, failed>>

Finish(t) == EndBody(t, "TERM")

Throw(t) == ft[t] \in MayThrow /\ EndBody(t, "EXCEPT")

\* The common part of YieldToReady and YieldToHold, asserting EXEC first.
Yield(t, s) ==
    /\ IF status[ft[t]] # "EXEC"
         THEN failed' = "yield" /\ UNCHANGED <<status, pc>>
         ELSE /\ status' = [status EXCEPT ![ft[t]] = s]
              /\ Goto(t, "out")
              /\ UNCHANGED failed
    /\ UNCHANGED <<queueVars, m_activeThreadCounts, stopVars, onStack, armed, ended, ft,
                   noFibers, idleTerm>>

\* Mutant: the fiber queues itself before it has left its stack.
YieldToReady_QueuesItself(t) ==
    /\ pc[t] = "user"
    /\ yields[ft[t]] < MaxYields
    /\ yields' = [yields EXCEPT ![ft[t]] = @ + 1]
    /\ status' = [status EXCEPT ![ft[t]] = "READY"]
    /\ Enqueue(ft[t], AnyThread)
    /\ Goto(t, "out")
    /\ UNCHANGED <<submits, m_activeThreadCounts, stopVars, onStack, armed, ended, ft,
                   noFibers, idleTerm, failed>>

YieldToReady(t) ==
    /\ pc[t] = "user"
    /\ yields[ft[t]] < MaxYields
    /\ yields' = [yields EXCEPT ![ft[t]] = @ + 1]
    /\ Yield(t, "READY")

\* The body registers its fiber (addEvent, addTimer) before it holds.
Register(t) ==
    /\ pc[t] = "user"
    /\ ft[t] \in MayHold \ armed
    /\ yields[ft[t]] < MaxYields
    /\ yields' = [yields EXCEPT ![ft[t]] = @ + 1]
    /\ IF status[ft[t]] # "EXEC"
         THEN failed' = "addEvent" /\ UNCHANGED <<armed, pc>>
         ELSE armed' = armed \cup {ft[t]} /\ Goto(t, "hold") /\ UNCHANGED failed
    /\ UNCHANGED <<queueVars, m_activeThreadCounts, stopVars, status, onStack, ended, ft,
                   noFibers, idleTerm>>

YieldToHold(t) ==
    /\ pc[t] = "hold"
    /\ Yield(t, "HOLD")
    /\ UNCHANGED yields

\* swapOut: every status but TERM and READY is overwritten with HOLD.
SwapOut(t) ==
    /\ pc[t] = "out"
    /\ Goto(t, IF status[ft[t]] \in {"TERM", "READY"} THEN "swap" ELSE "outHold")
    /\ UNCHANGED <<queueVars, m_activeThreadCounts, stopVars, fiberVars, ft, noFibers,
                   idleTerm, failed>>

SwapOutHold(t) ==
    /\ pc[t] = "outHold"
    /\ status' = [status EXCEPT ![ft[t]] = "HOLD"]
    /\ Goto(t, "swap")
    /\ UNCHANGED <<queueVars, m_activeThreadCounts, stopVars, onStack, armed, yields,
                   ended, ft, noFibers, idleTerm, failed>>

\* Context::Swap: only now is the context saved and the stack left.
Swap(t) ==
    /\ pc[t] = "swap"
    /\ onStack' = [onStack EXCEPT ![ft[t]] = @ \ {t}]
    /\ Goto(t, "sub")
    /\ UNCHANGED <<queueVars, m_activeThreadCounts, stopVars, status, armed, yields, ended,
                   ft, noFibers, idleTerm, failed>>

-----------------------------------------------------------------------------
(* run(): after swapIn has returned *)

\* Mutant: the thread stays counted as active.
FetchSub_Missing(t) ==
    /\ pc[t] = "sub"
    /\ Goto(t, "post")
    /\ UNCHANGED <<queueVars, m_activeThreadCounts, stopVars, fiberVars, ft, noFibers,
                   idleTerm, failed>>

FetchSub(t) ==
    /\ pc[t] = "sub"
    /\ m_activeThreadCounts' = m_activeThreadCounts - 1
    /\ Goto(t, "post")
    /\ UNCHANGED <<queueVars, stopVars, fiberVars, ft, noFibers, idleTerm, failed>>

\* What run() does next depends on the status it now reads.
PostReady(t) ==
    /\ pc[t] = "post"
    /\ status[ft[t]] = "READY"
    /\ Goto(t, "resched")
    /\ UNCHANGED <<queueVars, m_activeThreadCounts, stopVars, fiberVars, ft, noFibers,
                   idleTerm, failed>>

PostDone(t) ==
    /\ pc[t] = "post"
    /\ status[ft[t]] \in {"TERM", "EXCEPT"}
    /\ Loop(t)
    /\ UNCHANGED <<queueVars, m_activeThreadCounts, stopVars, fiberVars, noFibers,
                   idleTerm, failed>>

PostOther(t) ==
    /\ pc[t] = "post"
    /\ status[ft[t]] \notin {"READY", "TERM", "EXCEPT"}
    /\ Goto(t, "postHold")
    /\ UNCHANGED <<queueVars, m_activeThreadCounts, stopVars, fiberVars, ft, noFibers,
                   idleTerm, failed>>

\* Mutant: a fiber that yielded is forgotten.
Reschedule_Forgotten(t) ==
    /\ pc[t] = "resched"
    /\ Loop(t)
    /\ UNCHANGED <<queueVars, m_activeThreadCounts, stopVars, fiberVars, noFibers,
                   idleTerm, failed>>

\* schedule(ft.fiber): the thread the task was pinned to is not passed on.
Reschedule(t) ==
    /\ pc[t] = "resched"
    /\ Enqueue(ft[t], AnyThread)
    /\ Loop(t)
    /\ UNCHANGED <<submits, m_activeThreadCounts, stopVars, fiberVars, noFibers,
                   idleTerm, failed>>

\* setStatus(HOLD), then the reference is dropped; ~Fiber asserts that a
\* destroyed fiber is INIT, TERM or EXCEPT.
PostHold(t) ==
    /\ pc[t] = "postHold"
    /\ status' = [status EXCEPT ![ft[t]] = "HOLD"]
    /\ failed' = IF LastReference(t, ft[t]) THEN "destroy" ELSE failed
    /\ Loop(t)
    /\ UNCHANGED <<queueVars, m_activeThreadCounts, stopVars, onStack, armed, yields,
                   ended, noFibers, idleTerm>>

-----------------------------------------------------------------------------
(* idle() and stopping() *)

\* Schedular::idle never yields: it spins until the scheduler is stopping,
\* no queued task is for this thread and no thread is active.
SpinIdleExit(t) ==
    /\ ~ioIdle
    /\ pc[t] = "idle"
    /\ m_stopping
    /\ ~HasPending(t)
    /\ m_activeThreadCounts = 0
    /\ idleTerm' = [idleTerm EXCEPT ![t] = TRUE]
    /\ Goto(t, "pop")
    /\ UNCHANGED <<queueVars, m_activeThreadCounts, stopVars, fiberVars, ft, noFibers,
                   failed>>

\* The first half of stopping(): pending events and timers, then the queue.
StoppingProbe(t, yes, no) ==
    /\ IF ioIdle /\ armed # {}
         THEN Goto(t, no) /\ UNCHANGED noFibers
         ELSE Goto(t, yes) /\ noFibers' = [noFibers EXCEPT ![t] = m_fibers = <<>>]
    /\ UNCHANGED <<queueVars, m_activeThreadCounts, stopVars, fiberVars, ft, idleTerm,
                   failed>>

\* The second half of stopping(), after m_mutex has been released.
StoppingResult(t) ==
    m_autoStopping /\ m_stopping /\ noFibers[t] /\ m_activeThreadCounts = 0

\* IOManager::idle: leave for good when stopping(), else wait in epoll_wait
\* for at most MAX_WAIT and return to run().
IdleProbe(t) ==
    /\ ioIdle
    /\ pc[t] = "idle"
    /\ StoppingProbe(t, "idleDecide", "pop")

IdleDecide(t) ==
    /\ pc[t] = "idleDecide"
    /\ idleTerm' = [idleTerm EXCEPT ![t] = StoppingResult(t)]
    /\ noFibers' = [noFibers EXCEPT ![t] = FALSE]
    /\ Goto(t, "pop")
    /\ UNCHANGED <<queueVars, m_activeThreadCounts, stopVars, fiberVars, ft, failed>>

-----------------------------------------------------------------------------
(* stop() *)

StopRequest ==
    /\ pc[Main] = "app"
    /\ m_autoStopping' = TRUE
    /\ Goto(Main, "stop1")
    /\ UNCHANGED <<queueVars, m_activeThreadCounts, m_stopping, ioIdle, fiberVars, ft, noFibers,
                   idleTerm, failed>>

StopStore ==
    /\ pc[Main] = "stop1"
    /\ m_stopping' = TRUE
    /\ Goto(Main, IF UseCaller THEN "stopQ" ELSE "join")
    /\ UNCHANGED <<queueVars, m_activeThreadCounts, m_autoStopping, ioIdle, fiberVars, ft, noFibers,
                   idleTerm, failed>>

StopProbe == pc[Main] = "stopQ" /\ StoppingProbe(Main, "stopA", "pop")

\* Mutant: stop() never runs the scheduler on the calling thread.
StopDecide_NoCall ==
    /\ pc[Main] = "stopA"
    /\ Goto(Main, "join")
    /\ noFibers' = [noFibers EXCEPT ![Main] = FALSE]
    /\ UNCHANGED <<queueVars, m_activeThreadCounts, stopVars, fiberVars, ft, idleTerm,
                   failed>>

\* Unless everything is already drained, m_mainfiber->call() runs run().
StopDecide ==
    /\ pc[Main] = "stopA"
    /\ Goto(Main, IF ~StoppingResult(Main) THEN "pop"
                  ELSE IF Workers = {} THEN "stopped" ELSE "join")
    /\ noFibers' = [noFibers EXCEPT ![Main] = FALSE]
    /\ UNCHANGED <<queueVars, m_activeThreadCounts, stopVars, fiberVars, ft, idleTerm,
                   failed>>

\* Mutant: stop() returns without joining the workers.
Join_NoWait ==
    /\ pc[Main] = "join"
    /\ Goto(Main, "stopped")
    /\ UNCHANGED <<queueVars, m_activeThreadCounts, stopVars, fiberVars, ft, noFibers,
                   idleTerm, failed>>

Join ==
    /\ pc[Main] = "join"
    /\ \A w \in Workers : pc[w] = "exited"
    /\ Goto(Main, "stopped")
    /\ UNCHANGED <<queueVars, m_activeThreadCounts, stopVars, fiberVars, ft, noFibers,
                   idleTerm, failed>>

-----------------------------------------------------------------------------
(* The specification *)

\* What a thread does without waiting for anyone's decision.
Step(t) ==
    \/ Pop(t) \/ PopNothing(t) \/ Drop(t) \/ Check(t) \/ SwapIn(t) \/ Enter(t)
    \/ Finish(t) \/ YieldToHold(t) \/ SwapOut(t) \/ SwapOutHold(t) \/ Swap(t)
    \/ FetchSub(t) \/ PostReady(t) \/ PostDone(t) \/ PostOther(t)
    \/ Reschedule(t) \/ PostHold(t)
    \/ SpinIdleExit(t) \/ IdleProbe(t) \/ IdleDecide(t)

StopStep == StopStore \/ StopProbe \/ StopDecide \/ Join

Next ==
    /\ failed = "none"
    /\ \/ Start \/ StopRequest \/ StopStep
       \/ \E t \in Threads : Step(t) \/ Throw(t) \/ YieldToReady(t) \/ Register(t)
       \/ \E t \in Threads, k \in Tasks : Submit(t, k)
       \/ \E k \in Tasks : Wake(k)

Spec == Init /\ [][Next]_vars

\* The owner starts the scheduler, the kernel runs every thread, task bodies
\* are finite, and an awaited event or timeout eventually comes.
Fairness ==
    /\ \A t \in Threads : WF_vars(failed = "none" /\ Step(t))
    /\ WF_vars(failed = "none" /\ (Start \/ StopStep))
    /\ \A k \in Tasks : WF_vars(failed = "none" /\ Wake(k))

FairSpec == Spec /\ Fairness

-----------------------------------------------------------------------------
(* Properties *)

\* m_activeThreadCounts is exactly the number of threads between the pop of
\* a task and the fetch_sub after it (run, schedular.cpp:226-288), so it
\* never wraps below zero and stopping() cannot miss a running task.
ActiveExact == m_activeThreadCounts = Cardinality(CountedThreads)

\* No two threads execute on the stack of one fiber (the EXEC test of the
\* scan, schedular.cpp:219, and the assertion of swapIn, fiber.cpp:258).
OneThreadPerStack ==
    /\ failed # "stack"
    /\ \A k \in Tasks : \A t, u \in onStack[k] : t = u

\* A fiber that yields is in status EXEC: the assertions of YieldToReady and
\* YieldToHold (fiber.cpp:77, 85).  False with two workers: run() stores HOLD
\* after swapIn has returned (schedular.cpp:246-249), when a second thread
\* may already have resumed the fiber.
YieldAssertHolds == failed # "yield"

\* A scheduled task is in one place: a single queue entry or the hands of a
\* single thread; a finished one is in none (run erases what it takes and
\* reschedules only what yielded).
OnePlace ==
    /\ \A i, j \in DOMAIN m_fibers : m_fibers[i].task = m_fibers[j].task => i = j
    /\ \A t, u \in Threads :
        pc[t] \in Holding /\ pc[u] \in Holding /\ ft[t] = ft[u] => t = u
    /\ \A t \in Threads, i \in DOMAIN m_fibers :
        pc[t] \in Holding => ft[t] # m_fibers[i].task
    /\ \A i \in DOMAIN m_fibers : m_fibers[i].task \notin ended

\* When stop() returns, every task that was scheduled has run to its end:
\* the two-part test of stopping() (schedular.cpp:318-326) is not atomic.
StopDrains ==
    pc[Main] = "stopped" => \A k \in Tasks : submits[k] > 0 => k \in ended

\* Until its first yield a task runs only on the thread it was pinned to.
FirstRunPinned ==
    \A k \in Tasks : \A t \in onStack[k] : yields[k] = 0 => Pin[k] \in {AnyThread, t}

\* The body of a task ends at most once: a finished fiber is never entered
\* again (run tests TERM before swapIn, schedular.cpp:236).
EndsOnce ==
    [][\A k \in Tasks : k \in ended => onStack'[k] \subseteq onStack[k]]_vars

\* Every task that a worker may take eventually runs to its end.  Only with
\* IOManager's idle: a worker never comes back from that of Schedular.
TaskCompletes ==
    \A k \in Tasks : (ioIdle /\ Pin[k] # Main /\ submits[k] > 0) ~> k \in ended

\* Until stop() is called, every scheduled task eventually runs to its end:
\* the event of a held fiber puts it back into the queue and a worker that
\* returns from idle() takes it.
TaskCompletesUnlessStopped ==
    \A k \in Tasks :
        submits[k] > 0 ~> (k \in ended \/ m_autoStopping \/ failed = "destroy")

\* stop() returns once it has been called, unless the process was aborted.
StopCompletes == m_autoStopping ~> (pc[Main] = "stopped" \/ failed = "destroy")

=============================================================================
