----------------------------- MODULE TimerManager -----------------------------
(***************************************************************************)
(* Timers: Timer::cancel, refresh and reset, TimerManager::addTimer,       *)
(* getNextTime and listExpiredCb (blue/timer.cpp), and the loop of         *)
(* IOManager::idle (blue/iomanager.cpp) that sleeps until the first timer  *)
(* and hands the expired callbacks to the scheduler.                       *)
(*                                                                         *)
(* A step is one critical section of m_mutex or one read of the clock      *)
(* outside it.  The test of m_cb under the read lock, repeated under the   *)
(* write lock, changes nothing and is part of the critical section.        *)
(* A timer's number is its address, the order of m_timers among equals.    *)
(* Locals are set back when they are dead.                                 *)
(***************************************************************************)
EXTENDS Integers, FiniteSets

CONSTANTS
    IOThreads,    \* the threads that run IOManager::idle when out of tasks
    OtherThreads, \* threads that only use timers
    Timers,       \* the addresses of the timers that are ever created
    Recurring,    \* the timers created with recurring = true
    Periods,      \* the values passed as ms
    MaxWait,      \* MAX_WAIT of IOManager::idle
    IntSpan,      \* 2^(the bits of an int)
    UintSpan,     \* 2^(the bits of m_previousTime)
    Hour,         \* 60 * 60 * 1000 of detectClockRollover
    Boot,         \* the monotonic clock when the manager is created
    MaxTime       \* bound: the last instant

Threads == IOThreads \cup OtherThreads

ASSUME TimerAssumption ==
    /\ Timers \subseteq Nat
    /\ Recurring \subseteq Timers
    /\ Periods \subseteq Nat
    /\ MaxWait \in Nat
    /\ IntSpan \in Nat /\ 2 * MaxWait < IntSpan
    /\ UintSpan \in Nat /\ MaxTime < UintSpan
    /\ Hour \in Nat /\ Hour < UintSpan
    /\ Boot \in Nat /\ MaxTime \in Nat

VARIABLES
    clock,          \* GetCurrentMsbyc(), CLOCK_MONOTONIC
    m_timers,
    armed,          \* the timers whose m_cb is set
    m_next,
    m_ms,
    m_tickle,
    m_previousTime,
    handles,        \* the timers addTimer has returned
    pipe,           \* an unread write to m_ticklefds
    pc,
    timer,          \* the timer a thread is working on
    now_ms,         \* local of listExpiredCb
    deadline,       \* when the thread's epoll_wait returns
    slept,          \* history: when it was called
    vcb,            \* the callbacks taken from m_timers, not yet scheduled
    fires,          \* how often each callback was scheduled
    cancelled       \* the timers whose cancel() returned true

setVars  == <<m_timers, armed, m_next, m_ms>>
mgrVars  == <<m_tickle, m_previousTime>>
histVars == <<handles, fires, cancelled>>
loopVars == <<now_ms, deadline, slept, vcb>>
vars == <<clock, setVars, mgrVars, histVars, pipe, pc, timer, loopVars>>

NoTimer == -1
Forever == -1

\* Inside idle(), counted in m_idleThreadCounts.
IdleLabels == {"clear", "next", "wait", "now", "expire", "deliver"}
Labels == IdleLabels \cup {"run", "insert", "tickle"}

TypeOK ==
    /\ clock \in Nat
    /\ m_timers \subseteq Timers
    /\ armed \subseteq Timers
    /\ m_next \in [Timers -> Nat]
    /\ m_ms \in [Timers -> Nat]
    /\ m_tickle \in BOOLEAN
    /\ m_previousTime \in Nat
    /\ handles \subseteq Timers
    /\ pipe \in BOOLEAN
    /\ pc \in [Threads -> Labels]
    /\ timer \in [Threads -> Timers \cup {NoTimer}]
    /\ now_ms \in [Threads -> Nat]
    /\ deadline \in [Threads -> Nat \cup {Forever}]
    /\ slept \in [Threads -> Nat]
    /\ vcb \in [Threads -> SUBSET Timers]
    /\ fires \in [Timers -> Nat]
    /\ cancelled \subseteq Timers

Init ==
    /\ clock = Boot
    /\ m_timers = {}
    /\ armed = {}
    /\ m_next = [k \in Timers |-> 0]
    /\ m_ms = [k \in Timers |-> 0]
    /\ m_tickle = FALSE
    /\ m_previousTime = Boot
    /\ handles = {}
    /\ pipe = FALSE
    /\ pc = [t \in Threads |-> "run"]
    /\ timer = [t \in Threads |-> NoTimer]
    /\ now_ms = [t \in Threads |-> 0]
    /\ deadline = [t \in Threads |-> 0]
    /\ slept = [t \in Threads |-> 0]
    /\ vcb = [t \in Threads |-> {}]
    /\ fires = [k \in Timers |-> 0]
    /\ cancelled = {}

-----------------------------------------------------------------------------
(* Helpers *)

Goto(t, label) == pc' = [pc EXCEPT ![t] = label]

\* Timer::Comparator, for the expiry times in next.
Before(j, k, next) == next[j] < next[k] \/ (next[j] = next[k] /\ j < k)

\* k is *m_timers.begin().
IsFirst(k, S, next) == k \in S /\ \A j \in S \ {k} : Before(k, j, next)

\* The address k is taken: by a timer addTimer returned or is working on.
Created(k) ==
    k \in handles \/ \E t \in Threads : pc[t] \in {"insert", "tickle"} /\ timer[t] = k

\* Mutant: m_tickle is ignored and no thread is woken.
AtFront_Never(t, k, S, next) ==
    /\ m_tickle' = m_tickle
    /\ Goto(t, "run")
    /\ timer' = [timer EXCEPT ![t] = NoTimer]
    /\ handles' = handles \cup {k}

\* at_front: the timer k just inserted into S is the first and no tickle is
\* due; then m_tickle is set under the lock and the tickle sent after it.
AtFront(t, k, S, next) ==
    LET at_front == IsFirst(k, S, next) /\ ~m_tickle
    IN  /\ m_tickle' = (m_tickle \/ at_front)
        /\ Goto(t, IF at_front THEN "tickle" ELSE "run")
        /\ timer' = [timer EXCEPT ![t] = IF at_front THEN k ELSE NoTimer]
        /\ handles' = IF at_front THEN handles ELSE handles \cup {k}

-----------------------------------------------------------------------------
(* Using timers *)

\* addTimer reads the clock in the constructor, before it takes m_mutex.
Create(t, k, ms) ==
    /\ pc[t] = "run"
    /\ ~Created(k)
    /\ clock + ms < MaxTime
    /\ m_ms' = [m_ms EXCEPT ![k] = ms]
    /\ m_next' = [m_next EXCEPT ![k] = clock + ms]
    /\ armed' = armed \cup {k}
    /\ timer' = [timer EXCEPT ![t] = k]
    /\ Goto(t, "insert")
    /\ UNCHANGED <<clock, m_timers, mgrVars, histVars, pipe, loopVars>>

Insert(t) ==
    /\ pc[t] = "insert"
    /\ m_timers' = m_timers \cup {timer[t]}
    /\ AtFront(t, timer[t], m_timers', m_next)
    /\ UNCHANGED <<clock, armed, m_next, m_ms, m_previousTime, fires, cancelled, pipe,
                   loopVars>>

\* Mutant: the callback is cleared, the timer stays in m_timers.
Cancel_NotErased(t, k) ==
    /\ pc[t] = "run"
    /\ k \in handles \cap armed
    /\ armed' = armed \ {k}
    /\ cancelled' = cancelled \cup {k}
    /\ UNCHANGED <<clock, m_timers, m_next, m_ms, mgrVars, handles, fires, pipe, pc, timer,
                   loopVars>>

Cancel(t, k) ==
    /\ pc[t] = "run"
    /\ k \in handles \cap armed
    /\ armed' = armed \ {k}
    /\ m_timers' = m_timers \ {k}
    /\ cancelled' = cancelled \cup {k}
    /\ UNCHANGED <<clock, m_next, m_ms, mgrVars, handles, fires, pipe, pc, timer, loopVars>>

\* Erase k and insert it again with another expiry time.
Reinsert(t, k, next) ==
    /\ k \in handles \cap armed \cap m_timers
    /\ next < MaxTime
    /\ m_next' = [m_next EXCEPT ![k] = next]
    /\ AtFront(t, k, m_timers, m_next')
    /\ UNCHANGED <<clock, m_timers, armed, m_previousTime, fires, cancelled, pipe, loopVars>>

Refresh(t, k) ==
    /\ pc[t] = "run"
    /\ Reinsert(t, k, m_ms[k] + clock)
    /\ UNCHANGED m_ms

\* With the period it already has, and not from now, reset does nothing.
Reset(t, k, ms, from_now) ==
    /\ pc[t] = "run"
    /\ ms # m_ms[k] \/ from_now
    /\ Reinsert(t, k, ms + (IF from_now THEN clock ELSE m_next[k] - m_ms[k]))
    /\ m_ms' = [m_ms EXCEPT ![k] = ms]

\* onTimerInsertedAtFront() is tickle(): a write to the pipe unless
\* m_idleThreadCounts is zero.
Tickle(t) ==
    /\ pc[t] = "tickle"
    /\ pipe' = (pipe \/ \E u \in IOThreads : pc[u] \in IdleLabels)
    /\ handles' = handles \cup {timer[t]}
    /\ timer' = [timer EXCEPT ![t] = NoTimer]
    /\ Goto(t, "run")
    /\ UNCHANGED <<clock, setVars, mgrVars, fires, cancelled, loopVars>>

-----------------------------------------------------------------------------
(* IOManager::idle *)

\* run() found no task and stopping() is false.
EnterIdle(t) ==
    /\ pc[t] = "run"
    /\ Goto(t, "clear")
    /\ UNCHANGED <<clock, setVars, mgrVars, histVars, pipe, timer, loopVars>>

\* Mutant: m_tickle is never reset.
ClearTickle_Missing(t) ==
    /\ pc[t] = "clear"
    /\ Goto(t, "next")
    /\ UNCHANGED <<clock, setVars, mgrVars, histVars, pipe, timer, loopVars>>

\* getNextTime, the section of the write lock.
ClearTickle(t) ==
    /\ pc[t] = "clear"
    /\ m_tickle' = FALSE
    /\ Goto(t, "next")
    /\ UNCHANGED <<clock, setVars, m_previousTime, histVars, pipe, timer, loopVars>>

\* The conversion (int)x.
ToInt(x) == IF x % IntSpan < IntSpan \div 2 THEN x % IntSpan ELSE (x % IntSpan) - IntSpan

\* The timeout given to epoll_wait for the value of getNextTime(); negative
\* means to wait for ever.
Timeout(x) == IF ToInt(x) > MaxWait THEN MaxWait ELSE ToInt(x)

\* getNextTime for the first timer k, and the cap that follows the call.
TimeUntil(k) == IF clock >= m_next[k] THEN 0 ELSE Timeout(m_next[k] - clock)

\* The deadline of an epoll_wait that is called now.
Deadline(ms) == IF ms < 0 THEN Forever ELSE clock + ms

\* getNextTime, the section of the read lock, and the call of epoll_wait in
\* the same instant.
Wait(t) ==
    /\ pc[t] = "next"
    /\ \/ m_timers = {} /\ deadline' = [deadline EXCEPT ![t] = Deadline(MaxWait)]
       \/ \E k \in m_timers :
            /\ IsFirst(k, m_timers, m_next)
            /\ deadline' = [deadline EXCEPT ![t] = Deadline(TimeUntil(k))]
    /\ slept' = [slept EXCEPT ![t] = clock]
    /\ Goto(t, "wait")
    /\ UNCHANGED <<clock, setVars, mgrVars, histVars, pipe, timer, now_ms, vcb>>

\* epoll_wait returns because its time is over or a tickle was written; the
\* pipe is edge-triggered, so a write wakes one thread.
Wake(t) ==
    /\ pc[t] = "wait"
    /\ \/ deadline[t] # Forever /\ clock >= deadline[t] /\ UNCHANGED pipe
       \/ pipe /\ pipe' = FALSE
    /\ deadline' = [deadline EXCEPT ![t] = 0]
    /\ slept' = [slept EXCEPT ![t] = 0]
    /\ Goto(t, "now")
    /\ UNCHANGED <<clock, setVars, mgrVars, histVars, timer, now_ms, vcb>>

\* epoll_wait returns for an event of another descriptor, or for a signal
\* while there is time left, and then starts again with getNextTime().
WakeOther(t) ==
    /\ pc[t] = "wait"
    /\ \/ Goto(t, "now")
       \/ (deadline[t] = Forever \/ clock < deadline[t]) /\ Goto(t, "clear")
    /\ deadline' = [deadline EXCEPT ![t] = 0]
    /\ slept' = [slept EXCEPT ![t] = 0]
    /\ UNCHANGED <<clock, setVars, mgrVars, histVars, pipe, timer, now_ms, vcb>>

\* listExpiredCb reads the clock before it takes m_mutex.
ReadNow(t) ==
    /\ pc[t] = "now"
    /\ now_ms' = [now_ms EXCEPT ![t] = clock]
    /\ Goto(t, "expire")
    /\ UNCHANGED <<clock, setVars, mgrVars, histVars, pipe, timer, deadline, slept, vcb>>

\* Mutant: any backward step counts as a changed clock.
Rollover_NoMargin(now) == now < m_previousTime

\* detectClockRollover; the subtraction is unsigned.
Rollover(now) == now < m_previousTime /\ now < (m_previousTime - Hour) % UintSpan

\* upper_bound compares the address of a fresh timer with those due exactly
\* now: the ones at lower addresses expire, the others do not.
Due(now, expired) ==
    IF Rollover(now)
      THEN expired = m_timers
      ELSE LET tied == {k \in m_timers : m_next[k] = now}
           IN  /\ {k \in m_timers : m_next[k] < now} \subseteq expired
               /\ \A k \in expired : m_next[k] <= now
               /\ \A j \in tied, k \in tied \cap expired : j < k => j \in expired

\* Mutant: the callback of an expired timer is copied but not cleared.
Expire_KeepsCb(t) ==
    /\ pc[t] = "expire"
    /\ \E expired \in SUBSET m_timers :
        /\ Due(now_ms[t], expired)
        /\ vcb' = [vcb EXCEPT ![t] = expired]
        /\ m_timers' = m_timers \ (expired \ Recurring)
        /\ m_next' = [k \in Timers |-> IF k \in expired \cap Recurring
                                         THEN m_ms[k] + now_ms[t] ELSE m_next[k]]
    /\ m_previousTime' = IF m_timers = {} THEN m_previousTime ELSE now_ms[t]
    /\ now_ms' = [now_ms EXCEPT ![t] = 0]
    /\ Goto(t, "deliver")
    /\ UNCHANGED <<clock, armed, m_ms, m_tickle, histVars, pipe, timer, deadline, slept>>

\* listExpiredCb under m_mutex: one-shot timers lose their callback,
\* recurring ones are inserted again.
Expire(t) ==
    /\ pc[t] = "expire"
    /\ \E expired \in SUBSET m_timers :
        /\ Due(now_ms[t], expired)
        /\ vcb' = [vcb EXCEPT ![t] = expired]
        /\ m_timers' = m_timers \ (expired \ Recurring)
        /\ armed' = armed \ (expired \ Recurring)
        /\ m_next' = [k \in Timers |-> IF k \in expired \cap Recurring
                                         THEN m_ms[k] + now_ms[t] ELSE m_next[k]]
    /\ m_previousTime' = IF m_timers = {} THEN m_previousTime ELSE now_ms[t]
    /\ now_ms' = [now_ms EXCEPT ![t] = 0]
    /\ Goto(t, "deliver")
    /\ UNCHANGED <<clock, m_ms, m_tickle, histVars, pipe, timer, deadline, slept>>

\* Mutant: the callbacks are cleared before they are scheduled.
Deliver_Dropped(t) ==
    /\ pc[t] = "deliver"
    /\ vcb' = [vcb EXCEPT ![t] = {}]
    /\ Goto(t, "run")
    /\ UNCHANGED <<clock, setVars, mgrVars, histVars, pipe, timer, now_ms, deadline, slept>>

\* schedule(cbs), then swapOut to run(), where the thread may find tasks.
Deliver(t) ==
    /\ pc[t] = "deliver"
    /\ fires' = [k \in Timers |-> IF k \in vcb[t] THEN fires[k] + 1 ELSE fires[k]]
    /\ vcb' = [vcb EXCEPT ![t] = {}]
    /\ Goto(t, "run")
    /\ UNCHANGED <<clock, setVars, mgrVars, handles, cancelled, pipe, timer, now_ms, deadline, slept>>

-----------------------------------------------------------------------------
(* The specification *)

TimePasses ==
    /\ clock < MaxTime
    /\ clock' = clock + 1
    /\ UNCHANGED <<setVars, mgrVars, histVars, pipe, pc, timer, loopVars>>

Use(t) ==
    \E k \in Timers :
        \/ Cancel(t, k) \/ Refresh(t, k)
        \/ \E ms \in Periods : Create(t, k, ms)
        \/ \E ms \in Periods, from_now \in BOOLEAN : Reset(t, k, ms, from_now)

IdleStep(t) ==
    \/ EnterIdle(t) \/ ClearTickle(t) \/ Wait(t) \/ Wake(t) \/ ReadNow(t) \/ Expire(t)
    \/ Deliver(t)

Next ==
    \/ TimePasses
    \/ \E t \in Threads : Use(t) \/ Insert(t) \/ Tickle(t)
    \/ \E t \in IOThreads : IdleStep(t) \/ WakeOther(t)

Spec == Init /\ [][Next]_vars

\* Time goes on, an operation that was begun ends, and a thread without tasks
\* runs idle().
Fairness ==
    /\ WF_vars(TimePasses)
    /\ \A t \in Threads : WF_vars(Insert(t) \/ Tickle(t))
    /\ \A t \in IOThreads : WF_vars(IdleStep(t))

FairSpec == Spec /\ Fairness

-----------------------------------------------------------------------------
(* Properties *)

\* m_cb is set exactly while the timer is in m_timers, or about to be put
\* there: cancel() erases what find() returns without testing it against
\* end() (timer.cpp:73-74), and refresh and reset rely on it as well.
ArmedIffMember ==
    \A k \in Timers :
        k \in armed <=> \/ k \in m_timers
                       \/ \E t \in Threads : pc[t] = "insert" /\ timer[t] = k

\* A one-shot timer has at most one outcome: its callback is scheduled once,
\* or cancel() returned true and it is never scheduled, whatever refresh,
\* reset and listExpiredCb do in between (timer.cpp:59-77, 242-263).
OneOutcome ==
    \A k \in Timers \ Recurring : fires[k] + (IF k \in cancelled THEN 1 ELSE 0) <= 1

\* No callback is taken before its time (timer.cpp:236-246).
NotEarly ==
    [][\A t \in IOThreads : \A k \in vcb'[t] \ vcb[t] : m_next[k] <= clock]_vars

\* While threads sleep in epoll_wait, the first timer is taken care of: one
\* of them wakes in time for it, a tickle is on its way, or a thread is in
\* idle() and will look at it (m_tickle, timer.cpp:193-200 and 275-278).  A
\* sleep that began 2^31 ms or more before a timer covers it as well: the
\* conversion to int may make it one without end (iomanager.cpp:378).
FirstTimerCovered ==
    \/ \A t \in IOThreads : pc[t] # "wait"
    \/ pipe
    \/ \E t \in Threads : pc[t] = "tickle"
    \/ \E t \in IOThreads : pc[t] \in IdleLabels \ {"wait"}
    \/ \A k \in m_timers : \E t \in IOThreads :
          /\ pc[t] = "wait"
          /\ \/ deadline[t] # Forever /\ (deadline[t] <= m_next[k] \/ deadline[t] <= clock)
             \/ m_next[k] - slept[t] >= IntSpan \div 2

\* No thread sleeps longer than MAX_WAIT (iomanager.cpp:374-385); false when
\* the first timer is 2^31 ms away, and proved when periods fit an int.
WaitBounded ==
    \A t \in IOThreads : pc[t] = "wait" => deadline[t] \in 0..(clock + MaxWait)

\* Every one-shot timer that is not cancelled is eventually scheduled, for
\* periods that fit an int, even when its tickle was suppressed while the other threads were asleep.
TimerFires ==
    \A k \in Timers \ Recurring : k \in m_timers ~> (fires[k] > 0 \/ k \in cancelled)

=============================================================================
