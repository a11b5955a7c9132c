------------------------- MODULE TimerManager_proofs -------------------------
(* What is proved about the timers for every value of the constants. *)
EXTENDS TimerManager, TLAPS

\* A thread that inserts a timer, or is about to send a tickle for one, has
\* it in hand.
TimerOf == \A t \in Threads : pc[t] \in {"insert", "tickle"} => timer[t] \in Timers

\* The last start of a timer, m_next - m_ms, is never negative: reset()
\* computes it in unsigned arithmetic.
StartNotNegative == \A k \in Timers : m_ms[k] <= m_next[k]

TypeInv == TypeOK /\ TimerOf /\ StartNotNegative

-----------------------------------------------------------------------------
(* Lemmas on the operators *)

\* The conversion to int yields an integer, and the number itself where an
\* int can hold it.
LEMMA ToIntLemma ==
    ASSUME NEW x \in Nat
    PROVE  /\ ToInt(x) \in Int
           /\ x < IntSpan \div 2 => ToInt(x) = x
<1>1. IntSpan \in Nat \ {0}
  BY TimerAssumption
<1>2. x % IntSpan \in 0..(IntSpan - 1)
  BY <1>1
<1>3. x < IntSpan \div 2 => x % IntSpan = x
  BY <1>1
<1> QED  BY <1>1, <1>2, <1>3 DEF ToInt

-----------------------------------------------------------------------------
(* Type correctness *)

LEMMA InitTypeInv == Init => TypeInv
<1> SUFFICES ASSUME Init PROVE TypeInv
  OBVIOUS
<1>1. /\ pc \in [Threads -> Labels] /\ timer \in [Threads -> Timers \cup {NoTimer}]
      /\ now_ms \in [Threads -> Nat] /\ deadline \in [Threads -> Nat \cup {Forever}]
      /\ vcb \in [Threads -> SUBSET Timers]
  BY DEF Init, Labels
<1>2. TypeOK
  BY <1>1, TimerAssumption DEF Init, TypeOK
<1>3. TimerOf /\ StartNotNegative
  BY DEF Init, TimerOf, StartNotNegative
<1> QED  BY <1>2, <1>3 DEF TypeInv

\* The deadline of a sleep is an instant or Forever.
LEMMA DeadlineLemma ==
    ASSUME TypeOK, NEW t \in IOThreads, Wait(t)
    PROVE  \E d \in Nat \cup {Forever} : deadline' = [deadline EXCEPT ![t] = d]
<1>1. \A ms \in Int : Deadline(ms) \in Nat \cup {Forever}
  BY DEF Deadline, TypeOK
<1>2. CASE m_timers = {}
  <2>1. MaxWait \in Int
    BY TimerAssumption
  <2>2. deadline' = [deadline EXCEPT ![t] = Deadline(MaxWait)]
    BY <1>2 DEF Wait
  <2> QED  BY <1>1, <2>1, <2>2
<1>3. CASE m_timers # {}
  <2>1. PICK k \in m_timers : deadline' = [deadline EXCEPT ![t] = Deadline(TimeUntil(k))]
    BY <1>3 DEF Wait
  <2>2. k \in Timers /\ m_next[k] \in Nat /\ clock \in Nat
    BY DEF TypeOK
  <2>3. clock < m_next[k] => m_next[k] - clock \in Nat
    BY <2>2
  <2>4. clock < m_next[k] => ToInt(m_next[k] - clock) \in Int
    BY <2>3, ToIntLemma
  <2>5. TimeUntil(k) \in Int
    BY <2>2, <2>4, TimerAssumption DEF TimeUntil, Timeout
  <2> QED  BY <1>1, <2>1, <2>5
<1> QED  BY <1>2, <1>3

\* An insertion keeps the types of what it writes.
LEMMA AtFrontTypes ==
    ASSUME TypeOK, TimerOf, NEW t \in Threads, NEW k \in Timers, NEW S, NEW next,
           AtFront(t, k, S, next)
    PROVE  /\ pc' \in [Threads -> Labels] /\ timer' \in [Threads -> Timers \cup {NoTimer}]
           /\ m_tickle' \in BOOLEAN /\ handles' \subseteq Timers /\ TimerOf'
<1>1. CASE /\ m_tickle' = TRUE /\ pc' = [pc EXCEPT ![t] = "tickle"]
           /\ timer' = [timer EXCEPT ![t] = k] /\ handles' = handles
  BY <1>1 DEF TypeOK, TimerOf, Labels
<1>2. CASE /\ m_tickle' = m_tickle /\ pc' = [pc EXCEPT ![t] = "run"]
           /\ timer' = [timer EXCEPT ![t] = NoTimer] /\ handles' = handles \cup {k}
  BY <1>2 DEF TypeOK, TimerOf, Labels
<1>3. m_tickle \in BOOLEAN
  BY DEF TypeOK
<1>4. \/ /\ m_tickle' = TRUE /\ pc' = [pc EXCEPT ![t] = "tickle"]
         /\ timer' = [timer EXCEPT ![t] = k] /\ handles' = handles
      \/ /\ m_tickle' = m_tickle /\ pc' = [pc EXCEPT ![t] = "run"]
         /\ timer' = [timer EXCEPT ![t] = NoTimer] /\ handles' = handles \cup {k}
  <2>1. CASE IsFirst(k, S, next) /\ ~m_tickle
    BY <2>1 DEF AtFront, Goto
  <2>2. CASE ~(IsFirst(k, S, next) /\ ~m_tickle)
    <3>1. m_tickle' = m_tickle
      BY <1>3, <2>2 DEF AtFront
    <3> QED  BY <2>2, <3>1 DEF AtFront, Goto
  <2> QED  BY <2>1, <2>2
<1> QED  BY <1>1, <1>2, <1>4

LEMMA NextTypeInv == TypeInv /\ [Next]_vars => TypeInv'
<1> USE TimerAssumption
    DEF Threads, Labels, IdleLabels, setVars, mgrVars, histVars, loopVars
<1> SUFFICES ASSUME TypeInv, [Next]_vars PROVE TypeInv'
  OBVIOUS
<1> USE DEF TypeInv, TypeOK, TimerOf, StartNotNegative
<1>0. CASE UNCHANGED vars
  BY <1>0 DEF vars
<1>1. CASE TimePasses
  BY <1>1 DEF TimePasses
<1>2. ASSUME NEW t \in Threads, NEW k \in Timers, Cancel(t, k) PROVE TypeInv'
  BY <1>2 DEF Cancel
<1>3. ASSUME NEW t \in Threads, NEW k \in Timers, NEW ms \in Periods, Create(t, k, ms)
      PROVE  TypeInv'
  BY <1>3 DEF Create, Goto
<1>4. ASSUME NEW t \in Threads, NEW k \in Timers, NEW next \in Nat,
             Reinsert(t, k, next), NEW ms \in Nat, ms <= next,
             m_ms' = [m_ms EXCEPT ![k] = ms] \/ (m_ms' = m_ms /\ m_ms[k] <= next)
      PROVE  TypeInv'
  <2>1. AtFront(t, k, m_timers, m_next')
    BY <1>4 DEF Reinsert
  <2>2. m_next' = [m_next EXCEPT ![k] = next]
    BY <1>4 DEF Reinsert
  <2>3. StartNotNegative'
    BY <1>4, <2>2
  <2>4. /\ pc' \in [Threads -> Labels] /\ timer' \in [Threads -> Timers \cup {NoTimer}]
        /\ m_tickle' \in BOOLEAN /\ handles' \subseteq Timers /\ TimerOf'
    BY <2>1, AtFrontTypes
  <2>5. m_next' \in [Timers -> Nat] /\ m_ms' \in [Timers -> Nat]
    BY <1>4, <2>2
  <2> QED  BY <1>4, <2>3, <2>4, <2>5 DEF Reinsert
<1>5. ASSUME NEW t \in Threads, NEW k \in Timers, Refresh(t, k) PROVE TypeInv'
  BY <1>4, <1>5 DEF Refresh
<1>6. ASSUME NEW t \in Threads, NEW k \in Timers, NEW ms \in Periods,
             NEW from_now \in BOOLEAN, Reset(t, k, ms, from_now)
      PROVE  TypeInv'
  <2>1. m_next[k] - m_ms[k] \in Nat
    OBVIOUS
  <2>2. ms + (IF from_now THEN clock ELSE m_next[k] - m_ms[k]) \in Nat
    BY <2>1
  <2>3. ms <= ms + (IF from_now THEN clock ELSE m_next[k] - m_ms[k])
    BY <2>1
  <2>4. ms \in Nat
    OBVIOUS
  <2> DEFINE next == ms + (IF from_now THEN clock ELSE m_next[k] - m_ms[k])
  <2>5. Reinsert(t, k, next) /\ m_ms' = [m_ms EXCEPT ![k] = ms]
    BY <1>6 DEF Reset
  <2>6. next \in Nat /\ ms <= next
    BY <2>2, <2>3
  <2> HIDE DEF next
  <2> QED  BY <1>4, <2>4, <2>5, <2>6
<1>7. ASSUME NEW t \in Threads, Insert(t) PROVE TypeInv'
  <2>1. timer[t] \in Timers
    BY <1>7 DEF Insert
  <2>2. AtFront(t, timer[t], m_timers', m_next)
    BY <1>7 DEF Insert
  <2>3. /\ pc' \in [Threads -> Labels] /\ timer' \in [Threads -> Timers \cup {NoTimer}]
        /\ m_tickle' \in BOOLEAN /\ handles' \subseteq Timers /\ TimerOf'
    BY <2>1, <2>2, AtFrontTypes
  <2> QED  BY <1>7, <2>1, <2>3 DEF Insert
<1>8. ASSUME NEW t \in Threads, Tickle(t) PROVE TypeInv'
  BY <1>8 DEF Tickle, Goto
<1>9. ASSUME NEW t \in IOThreads, WakeOther(t) PROVE TypeInv'
  BY <1>9 DEF WakeOther, Goto
<1>10. ASSUME NEW t \in IOThreads, IdleStep(t) PROVE TypeInv'
  <2>1. CASE EnterIdle(t)
    BY <2>1 DEF EnterIdle, Goto
  <2>2. CASE ClearTickle(t)
    BY <2>2 DEF ClearTickle, Goto
  <2>3. CASE Wait(t)
    <3>1. PICK d \in Nat \cup {Forever} : deadline' = [deadline EXCEPT ![t] = d]
      BY <2>3, DeadlineLemma
    <3> QED  BY <2>3, <3>1 DEF Wait, Goto
  <2>4. CASE Wake(t)
    BY <2>4 DEF Wake, Goto
  <2>5. CASE ReadNow(t)
    BY <2>5 DEF ReadNow, Goto
  <2>6. CASE Expire(t)
    <3>1. PICK expired \in SUBSET m_timers :
            /\ vcb' = [vcb EXCEPT ![t] = expired]
            /\ m_timers' = m_timers \ (expired \ Recurring)
            /\ armed' = armed \ (expired \ Recurring)
            /\ m_next' = [k \in Timers |-> IF k \in expired \cap Recurring
                                             THEN m_ms[k] + now_ms[t] ELSE m_next[k]]
      BY <2>6 DEF Expire
    <3>2. now_ms[t] \in Nat
      OBVIOUS
    <3>3. m_previousTime' \in Nat /\ m_next' \in [Timers -> Nat]
      BY <2>6, <3>1, <3>2 DEF Expire
    <3>4. StartNotNegative'
      BY <2>6, <3>1, <3>2 DEF Expire
    <3> QED  BY <2>6, <3>1, <3>3, <3>4 DEF Expire, Goto
  <2>7. CASE Deliver(t)
    BY <2>7 DEF Deliver, Goto
  <2> QED  BY <1>10, <2>1, <2>2, <2>3, <2>4, <2>5, <2>6, <2>7 DEF IdleStep
<1> QED  BY <1>0, <1>1, <1>2, <1>3, <1>5, <1>6, <1>7, <1>8, <1>9, <1>10 DEF Next, Use

\* Every variable keeps its type, however many threads and timers there are.
THEOREM TypeCorrect == Spec => []TypeOK
<1>1. TypeInv => TypeOK
  BY DEF TypeInv
<1> QED  BY <1>1, InitTypeInv, NextTypeInv, PTL DEF Spec

-----------------------------------------------------------------------------
(* One outcome per timer *)

\* A timer is created once, and its handle is out only after its insertion.
InsertOK ==
    \A t \in Threads : pc[t] = "insert" =>
        /\ timer[t] \notin handles \cup m_timers
        /\ \A u \in Threads \ {t} : pc[u] \in {"insert", "tickle"} => timer[u] # timer[t]

\* Only created timers are armed, and an armed one has had no outcome.  The
\* clause on vcb says where a callback is between the timer and schedule().
OutcomeOK ==
    /\ \A k \in armed \cup cancelled : Created(k)
    /\ \A k \in Timers \ Recurring :
        /\ k \in armed => k \notin cancelled
        /\ fires[k] <= 1
        /\ k \in armed \cup cancelled => fires[k] = 0 /\ \A t \in Threads : k \notin vcb[t]
        /\ \A t, u \in Threads : k \in vcb[t] \cap vcb[u] => t = u
        /\ \A t \in Threads : k \in vcb[t] => fires[k] = 0
        /\ ~Created(k) => fires[k] = 0 /\ \A t \in Threads : k \notin vcb[t]

OutcomeInv == TypeInv /\ InsertOK /\ ArmedIffMember /\ OutcomeOK


LEMMA InitOutcome == Init => InsertOK /\ ArmedIffMember /\ OutcomeOK
  BY DEF Init, InsertOK, ArmedIffMember, OutcomeOK, Created

\* The two outcomes of an insertion, and what they leave in the thread's hands.
LEMMA AtFrontCases ==
    ASSUME m_tickle \in BOOLEAN, NEW t \in Threads, NEW k \in Timers, NEW S, NEW next,
           AtFront(t, k, S, next)
    PROVE  \/ /\ pc' = [pc EXCEPT ![t] = "tickle"]
              /\ timer' = [timer EXCEPT ![t] = k] /\ handles' = handles
           \/ /\ pc' = [pc EXCEPT ![t] = "run"]
              /\ timer' = [timer EXCEPT ![t] = NoTimer] /\ handles' = handles \cup {k}
<1>1. CASE IsFirst(k, S, next) /\ ~m_tickle
  BY <1>1 DEF AtFront, Goto
<1>2. CASE ~(IsFirst(k, S, next) /\ ~m_tickle)
  BY <1>2 DEF AtFront, Goto
<1> QED  BY <1>1, <1>2

LEMMA NextOutcome == OutcomeInv /\ [Next]_vars => (InsertOK /\ ArmedIffMember /\ OutcomeOK)'
<1> USE DEF setVars, mgrVars, histVars, loopVars
<1> SUFFICES ASSUME OutcomeInv, [Next]_vars
             PROVE  (InsertOK /\ ArmedIffMember /\ OutcomeOK)'
  OBVIOUS
<1> USE DEF OutcomeInv, TypeInv, TypeOK, TimerOf, Created
<1>0. CASE UNCHANGED vars
  BY <1>0 DEF vars, InsertOK, ArmedIffMember, OutcomeOK
<1>1. CASE TimePasses
  BY <1>1 DEF TimePasses, InsertOK, ArmedIffMember, OutcomeOK
<1>2. ASSUME NEW t \in Threads, NEW k \in Timers, Cancel(t, k)
      PROVE  (InsertOK /\ ArmedIffMember /\ OutcomeOK)'
  <2>1. InsertOK'
    BY <1>2 DEF Cancel, InsertOK
  <2>2. ArmedIffMember'
    BY <1>2 DEF Cancel, ArmedIffMember, InsertOK
  <2>3. OutcomeOK'
    BY <1>2 DEF Cancel, OutcomeOK
  <2> QED  BY <2>1, <2>2, <2>3
<1>3. ASSUME NEW t \in Threads, NEW k \in Timers, NEW ms \in Periods, Create(t, k, ms)
      PROVE  (InsertOK /\ ArmedIffMember /\ OutcomeOK)'
  <2>1. InsertOK'
    BY <1>3 DEF Create, Goto, InsertOK, ArmedIffMember, OutcomeOK
  <2>2. ArmedIffMember'
    BY <1>3 DEF Create, Goto, ArmedIffMember
  <2>3. OutcomeOK'
    BY <1>3 DEF Create, Goto, OutcomeOK
  <2> QED  BY <2>1, <2>2, <2>3
<1>4. ASSUME NEW t \in Threads, NEW k \in Timers, NEW next \in Nat, Reinsert(t, k, next),
             pc[t] = "run"
      PROVE  (InsertOK /\ ArmedIffMember /\ OutcomeOK)'
  <2>1. \/ /\ pc' = [pc EXCEPT ![t] = "tickle"]
           /\ timer' = [timer EXCEPT ![t] = k] /\ handles' = handles
        \/ /\ pc' = [pc EXCEPT ![t] = "run"]
           /\ timer' = [timer EXCEPT ![t] = NoTimer] /\ handles' = handles \cup {k}
    BY <1>4, AtFrontCases DEF Reinsert
  <2>2. InsertOK'
    BY <1>4, <2>1 DEF Reinsert, InsertOK
  <2>3. ArmedIffMember'
    BY <1>4, <2>1 DEF Reinsert, ArmedIffMember
  <2>4. OutcomeOK'
    BY <1>4, <2>1 DEF Reinsert, OutcomeOK
  <2> QED  BY <2>2, <2>3, <2>4
<1>5. ASSUME NEW t \in Threads, Insert(t)
      PROVE  (InsertOK /\ ArmedIffMember /\ OutcomeOK)'
  <2>1. timer[t] \in Timers
    BY <1>5 DEF Insert
  <2>2. \/ /\ pc' = [pc EXCEPT ![t] = "tickle"]
           /\ timer' = [timer EXCEPT ![t] = timer[t]] /\ handles' = handles
        \/ /\ pc' = [pc EXCEPT ![t] = "run"]
           /\ timer' = [timer EXCEPT ![t] = NoTimer] /\ handles' = handles \cup {timer[t]}
    BY <1>5, <2>1, AtFrontCases DEF Insert
  <2>3. InsertOK'
    BY <1>5, <2>1, <2>2 DEF Insert, InsertOK
  <2>4. ArmedIffMember'
    BY <1>5, <2>1, <2>2 DEF Insert, InsertOK, ArmedIffMember
  <2>5. OutcomeOK'
    BY <1>5, <2>1, <2>2 DEF Insert, OutcomeOK
  <2> QED  BY <2>3, <2>4, <2>5
<1>6. ASSUME NEW t \in Threads, Tickle(t)
      PROVE  (InsertOK /\ ArmedIffMember /\ OutcomeOK)'
  <2>1. InsertOK'
    BY <1>6 DEF Tickle, Goto, InsertOK
  <2>2. ArmedIffMember'
    BY <1>6 DEF Tickle, Goto, ArmedIffMember
  <2>3. OutcomeOK'
    BY <1>6 DEF Tickle, Goto, OutcomeOK
  <2> QED  BY <2>1, <2>2, <2>3
<1>7. ASSUME NEW t \in IOThreads, NEW label \in IdleLabels,
             pc[t] \in IdleLabels \cup {"run"}, pc' = [pc EXCEPT ![t] = label],
             UNCHANGED <<timer, handles, armed, m_timers, fires, cancelled, vcb>>
      PROVE  (InsertOK /\ ArmedIffMember /\ OutcomeOK)'
  <2>1. t \in Threads
    BY DEF Threads
  <2>2. \A u \in Threads : pc'[u] \in {"insert", "tickle"} <=> pc[u] \in {"insert", "tickle"}
    BY <1>7, <2>1 DEF IdleLabels
  <2>3. \A u \in Threads : pc'[u] = "insert" <=> pc[u] = "insert"
    BY <1>7, <2>1 DEF IdleLabels
  <2>4. InsertOK'
    BY <1>7, <2>2, <2>3 DEF InsertOK
  <2>5. ArmedIffMember'
    BY <1>7, <2>3 DEF ArmedIffMember
  <2>6. OutcomeOK'
    BY <1>7, <2>2 DEF OutcomeOK
  <2> QED  BY <2>4, <2>5, <2>6
<1>8. ASSUME NEW t \in IOThreads, Expire(t)
      PROVE  (InsertOK /\ ArmedIffMember /\ OutcomeOK)'
  <2>1. PICK expired \in SUBSET m_timers :
          /\ vcb' = [vcb EXCEPT ![t] = expired]
          /\ m_timers' = m_timers \ (expired \ Recurring)
          /\ armed' = armed \ (expired \ Recurring)
    BY <1>8 DEF Expire
  <2>2. InsertOK'
    BY <1>8, <2>1 DEF Expire, Goto, InsertOK, Threads
  <2>3. ArmedIffMember'
    BY <1>8, <2>1 DEF Expire, Goto, InsertOK, ArmedIffMember, Threads
  <2>4. OutcomeOK'
    BY <1>8, <2>1 DEF Expire, Goto, OutcomeOK, ArmedIffMember, Threads
  <2> QED  BY <2>2, <2>3, <2>4
<1>9. ASSUME NEW t \in IOThreads, Deliver(t)
      PROVE  (InsertOK /\ ArmedIffMember /\ OutcomeOK)'
  <2>1. InsertOK'
    BY <1>9 DEF Deliver, Goto, InsertOK, Threads
  <2>2. ArmedIffMember'
    BY <1>9 DEF Deliver, Goto, ArmedIffMember, Threads
  <2>3. OutcomeOK'
    BY <1>9 DEF Deliver, Goto, OutcomeOK, Threads
  <2> QED  BY <2>1, <2>2, <2>3
<1>10. ASSUME NEW t \in Threads, Use(t)
       PROVE  (InsertOK /\ ArmedIffMember /\ OutcomeOK)'
  <2>1. ASSUME NEW k \in Timers, Refresh(t, k)
        PROVE  (InsertOK /\ ArmedIffMember /\ OutcomeOK)'
    <3>1. m_ms[k] + clock \in Nat
      OBVIOUS
    <3> QED  BY <1>4, <2>1, <3>1 DEF Refresh
  <2>2. ASSUME NEW k \in Timers, NEW ms \in Periods, NEW from_now \in BOOLEAN,
               Reset(t, k, ms, from_now)
        PROVE  (InsertOK /\ ArmedIffMember /\ OutcomeOK)'
    <3>1. ms \in Nat /\ m_next[k] - m_ms[k] \in Nat
      BY TimerAssumption DEF StartNotNegative
    <3>2. ms + (IF from_now THEN clock ELSE m_next[k] - m_ms[k]) \in Nat
      BY <3>1
    <3> QED  BY <1>4, <2>2, <3>2 DEF Reset
  <2> QED  BY <1>2, <1>3, <1>10, <2>1, <2>2 DEF Use
<1>11. ASSUME NEW t \in IOThreads, IdleStep(t) \/ WakeOther(t)
       PROVE  (InsertOK /\ ArmedIffMember /\ OutcomeOK)'
  <2>1. CASE EnterIdle(t)
    BY <1>7, <2>1 DEF EnterIdle, Goto, IdleLabels
  <2>2. CASE ClearTickle(t)
    BY <1>7, <2>2 DEF ClearTickle, Goto, IdleLabels
  <2>3. CASE Wait(t)
    BY <1>7, <2>3 DEF Wait, Goto, IdleLabels
  <2>4. CASE Wake(t)
    BY <1>7, <2>4 DEF Wake, Goto, IdleLabels
  <2>5. CASE ReadNow(t)
    BY <1>7, <2>5 DEF ReadNow, Goto, IdleLabels
  <2>6. CASE WakeOther(t)
    BY <1>7, <2>6 DEF WakeOther, Goto, IdleLabels
  <2> QED  BY <1>8, <1>9, <1>11, <2>1, <2>2, <2>3, <2>4, <2>5, <2>6 DEF IdleStep
<1> QED  BY <1>0, <1>1, <1>5, <1>6, <1>10, <1>11 DEF Next

LEMMA OutcomeInvariant == Spec => []OutcomeInv
<1>1. Init => OutcomeInv
  BY InitTypeInv, InitOutcome DEF OutcomeInv
<1>2. OutcomeInv /\ [Next]_vars => OutcomeInv'
  BY NextTypeInv, NextOutcome DEF OutcomeInv
<1> QED  BY <1>1, <1>2, PTL DEF Spec

\* cancel() always finds the timer it erases, whatever the other threads do
\* between the expiry of a timer and the call of its callback.
THEOREM CancelFindsTimer == Spec => []ArmedIffMember
<1>1. OutcomeInv => ArmedIffMember
  BY DEF OutcomeInv
<1> QED  BY <1>1, OutcomeInvariant, PTL

\* A one-shot timer is either scheduled once or cancelled, never both and
\* never twice.
THEOREM TimerHasOneOutcome == Spec => []OneOutcome
<1>1. OutcomeInv => OneOutcome
  <2> SUFFICES ASSUME OutcomeInv, NEW k \in Timers \ Recurring
               PROVE  fires[k] + (IF k \in cancelled THEN 1 ELSE 0) <= 1
    BY DEF OneOutcome
  <2>1. fires[k] \in Nat /\ fires[k] <= 1
    BY DEF OutcomeInv, TypeInv, TypeOK, OutcomeOK
  <2>2. k \in cancelled => fires[k] = 0
    BY DEF OutcomeInv, OutcomeOK
  <2> QED  BY <2>1, <2>2
<1> QED  BY <1>1, OutcomeInvariant, PTL

-----------------------------------------------------------------------------
(* How long idle() sleeps *)

\* No timer is created or reset with a period of 2^31 ms or more.
PeriodsFitInt == \A ms \in Periods : ms < IntSpan \div 2

\* A timer was started in the past, so what is left of it is at most its
\* period; deadlines of sleeping threads were computed from such a rest.
SleepOK ==
    /\ \A k \in Timers : m_ms[k] \in Periods \cup {0} /\ m_next[k] <= m_ms[k] + clock
    /\ \A t \in Threads : now_ms[t] <= clock
    /\ WaitBounded

SleepInv == TypeInv /\ SleepOK

\* What is left of a timer passes the conversion and the cap unharmed.
LEMMA TimeUntilLemma ==
    ASSUME PeriodsFitInt, SleepInv, NEW k \in Timers
    PROVE  /\ TimeUntil(k) \in 0..MaxWait
           /\ clock + TimeUntil(k) <= m_next[k] \/ TimeUntil(k) = 0
<1>1. m_next[k] \in Nat /\ clock \in Nat /\ m_ms[k] \in Nat /\ MaxWait \in Nat
  BY TimerAssumption DEF SleepInv, TypeInv, TypeOK
<1>2. CASE clock >= m_next[k]
  BY <1>1, <1>2 DEF TimeUntil
<1>3. CASE clock < m_next[k]
  <2>1. m_next[k] - clock \in Nat /\ m_next[k] - clock <= m_ms[k]
    BY <1>1, <1>3 DEF SleepInv, SleepOK
  <2>2. m_ms[k] \in Periods
    BY <1>1, <2>1, <1>3 DEF SleepInv, SleepOK
  <2>3. m_next[k] - clock < IntSpan \div 2
    BY <1>1, <2>1, <2>2, TimerAssumption DEF PeriodsFitInt
  <2>4. ToInt(m_next[k] - clock) = m_next[k] - clock
    BY <2>1, <2>3, ToIntLemma
  <2> QED  BY <1>1, <1>3, <2>1, <2>4 DEF TimeUntil, Timeout
<1> QED  BY <1>1, <1>2, <1>3

\* A thread that calls epoll_wait has a deadline, at most MAX_WAIT away.
LEMMA WaitLemma ==
    ASSUME PeriodsFitInt, SleepInv, NEW t \in IOThreads, Wait(t)
    PROVE  \E d \in 0..MaxWait :
              /\ deadline' = [deadline EXCEPT ![t] = clock + d]
              /\ \A k \in m_timers : clock + d <= m_next[k] \/ d = 0
<1>1. MaxWait \in Nat /\ clock \in Nat
  BY TimerAssumption DEF SleepInv, TypeInv, TypeOK
<1>2. CASE m_timers = {}
  <2>1. deadline' = [deadline EXCEPT ![t] = Deadline(MaxWait)]
    BY <1>2 DEF Wait
  <2>2. Deadline(MaxWait) = clock + MaxWait /\ MaxWait \in 0..MaxWait
    BY <1>1 DEF Deadline
  <2> QED  BY <1>2, <2>1, <2>2
<1>3. CASE m_timers # {}
  <2>1. PICK k \in m_timers :
          /\ IsFirst(k, m_timers, m_next)
          /\ deadline' = [deadline EXCEPT ![t] = Deadline(TimeUntil(k))]
    BY <1>3 DEF Wait
  <2>2. k \in Timers /\ m_timers \subseteq Timers /\ m_next \in [Timers -> Nat]
    BY DEF SleepInv, TypeInv, TypeOK
  <2>3. TimeUntil(k) \in 0..MaxWait /\ (clock + TimeUntil(k) <= m_next[k] \/ TimeUntil(k) = 0)
    BY <2>2, TimeUntilLemma
  <2>4. Deadline(TimeUntil(k)) = clock + TimeUntil(k)
    BY <1>1, <2>3 DEF Deadline
  <2>5. ASSUME NEW j \in m_timers
        PROVE  clock + TimeUntil(k) <= m_next[j] \/ TimeUntil(k) = 0
    <3>1. m_next[k] <= m_next[j]
      BY <2>1, <2>2 DEF IsFirst, Before
    <3> QED  BY <1>1, <2>2, <2>3, <3>1
  <2> QED  BY <2>1, <2>3, <2>4, <2>5
<1> QED  BY <1>2, <1>3

LEMMA InitSleep == Init => SleepOK
  BY TimerAssumption DEF Init, SleepOK, WaitBounded, Threads

LEMMA NextSleep == PeriodsFitInt /\ SleepInv /\ [Next]_vars => SleepOK'
<1> USE DEF setVars, mgrVars, histVars, loopVars
<1> SUFFICES ASSUME PeriodsFitInt, SleepInv, [Next]_vars PROVE SleepOK'
  OBVIOUS
<1>t. /\ clock \in Nat /\ MaxWait \in Nat /\ m_next \in [Timers -> Nat]
      /\ m_ms \in [Timers -> Nat] /\ now_ms \in [Threads -> Nat]
      /\ deadline \in [Threads -> Nat \cup {Forever}] /\ pc \in [Threads -> Labels]
      /\ \A k \in Timers : m_ms[k] <= m_next[k]
      /\ \A t \in Threads : pc[t] \in {"insert", "tickle"} => timer[t] \in Timers
      /\ m_tickle \in BOOLEAN /\ m_timers \subseteq Timers /\ IOThreads \subseteq Threads
  BY TimerAssumption
     DEF SleepInv, TypeInv, TypeOK, StartNotNegative, TimerOf, Threads
<1>s. /\ \A k \in Timers : m_ms[k] \in Periods \cup {0} /\ m_next[k] <= m_ms[k] + clock
      /\ \A t \in Threads : now_ms[t] <= clock
      /\ \A t \in IOThreads : pc[t] = "wait" => deadline[t] \in 0..(clock + MaxWait)
  BY DEF SleepInv, SleepOK, WaitBounded
<1> DEFINE Waiting == \A t \in IOThreads : pc'[t] = "wait" => deadline'[t] = deadline[t] /\ pc[t] = "wait"
\* Steps that start no sleep and change no timer.
<1>a. ASSUME clock' = clock, now_ms' = now_ms, m_ms' = m_ms, m_next' = m_next, Waiting
      PROVE  SleepOK'
  BY <1>s, <1>a DEF SleepOK, WaitBounded
\* Steps that start a timer again.
<1>b. ASSUME NEW k \in Timers, NEW ms \in Periods \cup {0}, NEW next \in Nat,
             next <= ms + clock, m_ms' = [m_ms EXCEPT ![k] = ms],
             m_next' = [m_next EXCEPT ![k] = next], clock' = clock, now_ms' = now_ms, Waiting
      PROVE  SleepOK'
  BY <1>t, <1>s, <1>b DEF SleepOK, WaitBounded
<1>0. CASE UNCHANGED vars
  BY <1>a, <1>0 DEF vars
<1>1. CASE TimePasses
  <2>1. \A k \in Timers : m_next[k] <= m_ms[k] + clock'
    BY <1>t, <1>s, <1>1 DEF TimePasses
  <2>2. \A t \in Threads : now_ms[t] <= clock'
    BY <1>t, <1>s, <1>1 DEF TimePasses
  <2>3. \A t \in IOThreads : pc[t] = "wait" => deadline[t] \in 0..(clock' + MaxWait)
    BY <1>t, <1>s, <1>1 DEF TimePasses
  <2> QED  BY <1>s, <1>1, <2>1, <2>2, <2>3 DEF TimePasses, SleepOK, WaitBounded
<1>2. ASSUME NEW t \in Threads, NEW k \in Timers, Cancel(t, k) PROVE SleepOK'
  BY <1>a, <1>2 DEF Cancel
<1>3. ASSUME NEW t \in Threads, NEW k \in Timers, NEW ms \in Periods, Create(t, k, ms)
      PROVE  SleepOK'
  <2>1. Waiting
    BY <1>t, <1>3 DEF Create, Goto
  <2>2. clock + ms \in Nat /\ clock + ms <= ms + clock
    BY <1>t, TimerAssumption
  <2> QED  BY <1>b, <1>3, <2>1, <2>2 DEF Create
<1>4. ASSUME NEW t \in Threads, NEW k \in Timers, NEW S, NEW next,
             AtFront(t, k, S, next), pc[t] \in {"run", "insert"}, deadline' = deadline
      PROVE  Waiting
  BY <1>t, <1>4, AtFrontCases
<1>5. ASSUME NEW t \in Threads, NEW k \in Timers, Refresh(t, k) PROVE SleepOK'
  <2>1. Waiting
    BY <1>t, <1>4, <1>5 DEF Refresh, Reinsert
  <2>2. m_ms[k] + clock \in Nat /\ m_ms' = [m_ms EXCEPT ![k] = m_ms[k]]
    BY <1>t, <1>5 DEF Refresh
  <2>3. /\ m_next' = [m_next EXCEPT ![k] = m_ms[k] + clock]
        /\ clock' = clock /\ now_ms' = now_ms
    BY <1>5 DEF Refresh, Reinsert
  <2>4. m_ms[k] \in Periods \cup {0} /\ m_ms[k] + clock <= m_ms[k] + clock
    BY <1>s, <2>2
  <2> DEFINE next == m_ms[k] + clock  ms == m_ms[k]
  <2>5. /\ next \in Nat /\ next <= ms + clock /\ ms \in Periods \cup {0}
        /\ m_ms' = [m_ms EXCEPT ![k] = ms] /\ m_next' = [m_next EXCEPT ![k] = next]
    BY <2>2, <2>3, <2>4
  <2> HIDE DEF next, ms
  <2> QED  BY <1>b, <2>1, <2>3, <2>5
<1>6. ASSUME NEW t \in Threads, NEW k \in Timers, NEW ms \in Periods,
             NEW from_now \in BOOLEAN, Reset(t, k, ms, from_now)
      PROVE  SleepOK'
  <2>1. Waiting
    BY <1>t, <1>4, <1>6 DEF Reset, Reinsert
  <2> DEFINE next == ms + (IF from_now THEN clock ELSE m_next[k] - m_ms[k])
  <2>2. ms \in Nat /\ m_next[k] - m_ms[k] \in Nat /\ m_next[k] - m_ms[k] <= clock
    BY <1>t, <1>s, TimerAssumption
  <2>3. next \in Nat /\ next <= ms + clock
    BY <1>t, <2>2
  <2>4. m_next' = [m_next EXCEPT ![k] = next] /\ m_ms' = [m_ms EXCEPT ![k] = ms]
    BY <1>6 DEF Reset, Reinsert
  <2>5. clock' = clock /\ now_ms' = now_ms
    BY <1>6 DEF Reset, Reinsert
  <2> HIDE DEF next
  <2> QED  BY <1>b, <2>1, <2>3, <2>4, <2>5
<1>7. ASSUME NEW t \in Threads, Insert(t) PROVE SleepOK'
  <2>1. Waiting
    BY <1>t, <1>4, <1>7 DEF Insert
  <2> QED  BY <1>a, <1>7, <2>1 DEF Insert
<1>8. ASSUME NEW t \in Threads, Tickle(t) PROVE SleepOK'
  <2>1. Waiting
    BY <1>t, <1>8 DEF Tickle, Goto
  <2> QED  BY <1>a, <1>8, <2>1 DEF Tickle
<1>9. ASSUME NEW t \in IOThreads, WakeOther(t) PROVE SleepOK'
  <2>1. Waiting
    BY <1>t, <1>9 DEF WakeOther, Goto
  <2> QED  BY <1>a, <1>9, <2>1 DEF WakeOther
<1>10. ASSUME NEW t \in IOThreads, IdleStep(t) PROVE SleepOK'
  <2>1. CASE EnterIdle(t)
    BY <1>a, <1>t, <2>1 DEF EnterIdle, Goto
  <2>2. CASE ClearTickle(t)
    BY <1>a, <1>t, <2>2 DEF ClearTickle, Goto
  <2>3. CASE Wait(t)
    <3>1. PICK d \in 0..MaxWait : deadline' = [deadline EXCEPT ![t] = clock + d]
      BY <2>3, WaitLemma
    <3>2. \A u \in IOThreads : pc'[u] = "wait" => deadline'[u] \in 0..(clock + MaxWait)
      BY <1>t, <1>s, <2>3, <3>1 DEF Wait, Goto
    <3> QED  BY <1>s, <2>3, <3>2 DEF Wait, SleepOK, WaitBounded
  <2>4. CASE Wake(t)
    BY <1>a, <1>t, <2>4 DEF Wake, Goto
  <2>5. CASE ReadNow(t)
    <3>1. \A u \in Threads : now_ms'[u] <= clock
      BY <1>t, <1>s, <2>5 DEF ReadNow
    <3>2. Waiting
      BY <1>t, <2>5 DEF ReadNow, Goto
    <3> QED  BY <1>s, <2>5, <3>1, <3>2 DEF ReadNow, SleepOK, WaitBounded
  <2>6. CASE Expire(t)
    <3>1. PICK expired \in SUBSET m_timers :
            m_next' = [k \in Timers |-> IF k \in expired \cap Recurring
                                         THEN m_ms[k] + now_ms[t] ELSE m_next[k]]
      BY <2>6 DEF Expire
    <3>2. \A k \in Timers : m_next'[k] <= m_ms[k] + clock
      BY <1>t, <1>s, <3>1
    <3>3. \A u \in Threads : now_ms'[u] <= clock
      BY <1>t, <1>s, <2>6 DEF Expire
    <3>4. Waiting
      BY <1>t, <2>6 DEF Expire, Goto
    <3> QED  BY <1>s, <2>6, <3>2, <3>3, <3>4 DEF Expire, SleepOK, WaitBounded
  <2>7. CASE Deliver(t)
    BY <1>a, <1>t, <2>7 DEF Deliver, Goto
  <2> QED  BY <1>10, <2>1, <2>2, <2>3, <2>4, <2>5, <2>6, <2>7 DEF IdleStep
<1> QED  BY <1>0, <1>1, <1>2, <1>3, <1>5, <1>6, <1>7, <1>8, <1>9, <1>10 DEF Next, Use

LEMMA SleepInvariant == ASSUME PeriodsFitInt PROVE Spec => []SleepInv
<1>1. Init => SleepInv
  BY InitTypeInv, InitSleep DEF SleepInv
<1>2. SleepInv /\ [Next]_vars => SleepInv'
  BY PeriodsFitInt, NextTypeInv, NextSleep DEF SleepInv
<1> QED  BY <1>1, <1>2, PTL DEF Spec

\* With periods below 2^31 ms no thread ever sleeps longer than MAX_WAIT.
THEOREM SleepIsBounded == ASSUME PeriodsFitInt PROVE Spec => []WaitBounded
<1>1. SleepInv => WaitBounded
  BY DEF SleepInv, SleepOK
<1> QED  BY <1>1, SleepInvariant, PTL

-----------------------------------------------------------------------------
(* The first timer, when one thread runs idle() *)

\* A sleep until d that began at s covers a timer that is due at n, when the
\* clock is at c.
Covers(d, s, c, n) ==
    \/ d # Forever /\ (d <= n \/ d <= c)
    \/ n - s >= IntSpan \div 2

\* It then covers every later one, and does so later on.
LEMMA CoversLater ==
    ASSUME NEW d \in Nat \cup {Forever}, NEW s \in Nat, NEW c \in Nat, NEW n \in Nat,
           NEW c2 \in Nat, NEW n2 \in Nat, c <= c2, n <= n2, Covers(d, s, c, n)
    PROVE  Covers(d, s, c2, n2)
<1>1. IntSpan \div 2 \in Int
  BY TimerAssumption
<1> QED  BY <1>1 DEF Covers, Forever

\* A sleep that begins covers all the timers.
LEMMA WaitCovers ==
    ASSUME TypeInv, NEW t \in IOThreads, Wait(t), NEW k \in m_timers
    PROVE  Covers(deadline'[t], clock, clock, m_next[k])
<1>t. /\ clock \in Nat /\ m_next \in [Timers -> Nat] /\ m_timers \subseteq Timers
      /\ t \in Threads /\ deadline \in [Threads -> Nat \cup {Forever}]
      /\ MaxWait \in Nat /\ IntSpan \div 2 \in Int
  BY TimerAssumption DEF TypeInv, TypeOK, Threads
<1>1. PICK f \in m_timers :
        /\ IsFirst(f, m_timers, m_next)
        /\ deadline' = [deadline EXCEPT ![t] = Deadline(TimeUntil(f))]
  BY DEF Wait
<1>2. deadline'[t] = Deadline(TimeUntil(f))
  BY <1>t, <1>1
<1>3. m_next[f] \in Nat /\ m_next[k] \in Nat /\ m_next[f] <= m_next[k]
  BY <1>t, <1>1 DEF IsFirst, Before
<1>4. Covers(deadline'[t], clock, clock, m_next[f])
  <2>1. CASE clock >= m_next[f]
    <3>1. deadline'[t] = clock
      BY <1>t, <1>2, <1>3, <2>1 DEF TimeUntil, Deadline
    <3> QED  BY <1>t, <3>1 DEF Covers, Forever
  <2>2. CASE clock < m_next[f] /\ m_next[f] - clock >= IntSpan \div 2
    BY <1>t, <1>3, <2>2 DEF Covers
  <2>3. CASE clock < m_next[f] /\ m_next[f] - clock < IntSpan \div 2
    <3>1. PICK d \in Nat : d = m_next[f] - clock
      BY <1>t, <1>3, <2>3
    <3>2. ToInt(d) = d
      BY <2>3, <3>1, ToIntLemma
    <3>3. deadline'[t] = Deadline(IF d > MaxWait THEN MaxWait ELSE d)
      BY <1>t, <1>2, <1>3, <2>3, <3>1, <3>2 DEF TimeUntil, Timeout
    <3>4. deadline'[t] # Forever /\ deadline'[t] <= m_next[f]
      BY <1>t, <1>3, <3>1, <3>3 DEF Deadline, Forever
    <3> QED  BY <3>4 DEF Covers
  <2> QED  BY <1>t, <1>3, <2>1, <2>2, <2>3
<1>5. deadline'[t] \in Nat \cup {Forever}
  <2>1. \E d \in Nat \cup {Forever} : deadline' = [deadline EXCEPT ![t] = d]
    BY DeadlineLemma DEF TypeInv
  <2> QED  BY <1>t, <2>1
<1>6. clock <= clock
  BY <1>t
<1> QED  BY <1>t, <1>3, <1>4, <1>5, <1>6, CoversLater

\* While the thread x is about to sleep or asleep, m_tickle is only set if a
\* tickle is under way; without one its sleep covers every timer.
CoverOK(x) ==
    /\ pc[x] \in {"next", "wait"} /\ m_tickle =>
          pipe \/ \E t \in Threads : pc[t] = "tickle"
    /\ pc[x] = "wait" =>
          \/ pipe
          \/ \E t \in Threads : pc[t] = "tickle"
          \/ \A k \in m_timers : Covers(deadline[x], slept[x], clock, m_next[k])

\* A timer that is not the first of a set has another before it.
LEMMA NotFirstLemma ==
    ASSUME NEW next \in [Timers -> Nat], NEW S \in SUBSET Timers, NEW k \in S,
           ~IsFirst(k, S, next)
    PROVE  \E j \in S \ {k} : next[j] <= next[k]
<1>1. PICK j \in S \ {k} : ~Before(k, j, next)
  BY DEF IsFirst
<1>2. next[j] \in Nat /\ next[k] \in Nat
  OBVIOUS
<1> QED  BY <1>1, <1>2 DEF Before

LEMMA NextCover ==
    ASSUME NEW x, IOThreads = {x}, OutcomeInv, CoverOK(x), [Next]_vars
    PROVE  CoverOK(x)'
<1> USE DEF setVars, mgrVars, histVars, loopVars
<1>t. /\ clock \in Nat /\ m_next \in [Timers -> Nat] /\ x \in Threads
      /\ deadline \in [Threads -> Nat \cup {Forever}] /\ pc \in [Threads -> Labels]
      /\ slept \in [Threads -> Nat]
      /\ \A t \in Threads : pc[t] \in {"insert", "tickle"} => timer[t] \in Timers
      /\ m_tickle \in BOOLEAN /\ pipe \in BOOLEAN /\ m_timers \subseteq Timers
      /\ \A k \in m_timers : Created(k)
      /\ \A t \in Threads : pc[t] = "insert" => timer[t] \notin m_timers
  BY DEF OutcomeInv, OutcomeOK, ArmedIffMember, InsertOK, TypeInv, TypeOK, TimerOf, Threads
<1>d. deadline[x] \in Nat \cup {Forever} /\ slept[x] \in Nat
  BY <1>t
\* Steps of other threads that insert no timer and send no tickle.
<1>a. ASSUME pc'[x] = pc[x], m_tickle' = m_tickle, pipe' = pipe,
             deadline' = deadline, slept' = slept,
             clock' = clock \/ clock' = clock + 1, m_timers' \subseteq m_timers,
             \A k \in m_timers : m_next'[k] = m_next[k],
             \A t \in Threads : pc[t] = "tickle" => pc'[t] = "tickle"
      PROVE  CoverOK(x)'
  <2>1. ASSUME NEW k \in m_timers', Covers(deadline[x], slept[x], clock, m_next[k])
        PROVE  Covers(deadline[x], slept[x], clock', m_next'[k])
    <3>1. m_next[k] \in Nat /\ m_next'[k] = m_next[k] /\ m_next[k] <= m_next[k]
      BY <1>t, <1>a
    <3>2. clock' \in Nat /\ clock <= clock'
      BY <1>t, <1>a
    <3> QED  BY <1>t, <1>d, <2>1, <3>1, <3>2, CoversLater
  <2> QED  BY <1>t, <1>a, <2>1 DEF CoverOK
\* Steps that leave x outside getNextTime and epoll_wait.
<1>b. ASSUME pc'[x] \notin {"next", "wait"} PROVE CoverOK(x)'
  BY <1>b DEF CoverOK
<1>0. CASE UNCHANGED vars
  BY <1>a, <1>0 DEF vars
<1>1. CASE TimePasses
  BY <1>a, <1>1 DEF TimePasses
<1>2. ASSUME NEW t \in Threads, NEW k \in Timers, Cancel(t, k) PROVE CoverOK(x)'
  BY <1>a, <1>2 DEF Cancel
<1>3. ASSUME NEW t \in Threads, NEW k \in Timers, NEW ms \in Periods, Create(t, k, ms)
      PROVE  CoverOK(x)'
  <2>1. CASE t = x
    BY <1>b, <1>t, <1>3, <2>1 DEF Create, Goto
  <2>2. CASE t # x
    <3>1. k \notin m_timers
      BY <1>t, <1>3 DEF Create
    <3> QED  BY <1>a, <1>t, <1>3, <2>2, <3>1 DEF Create, Goto
  <2> QED  BY <2>1, <2>2
\* An insertion at the front of the timers, or behind another one.
<1>4. ASSUME NEW t \in Threads, NEW k \in Timers, NEW next \in [Timers -> Nat],
             AtFront(t, k, m_timers', next), m_next' = next, k \in m_timers',
             m_timers' \subseteq m_timers \cup {k}, pc[t] \in {"run", "insert"},
             \A j \in Timers \ {k} : next[j] = m_next[j],
             UNCHANGED <<clock, pipe, deadline, slept>>
      PROVE  CoverOK(x)'
  <2>1. CASE t = x
    BY <1>b, <1>t, <1>4, <2>1 DEF AtFront, Goto
  <2>2. CASE t # x /\ IsFirst(k, m_timers', next) /\ ~m_tickle
    <3>1. pc'[t] = "tickle"
      BY <1>t, <1>4, <2>2 DEF AtFront, Goto
    <3> QED  BY <3>1 DEF CoverOK
  <2>3. CASE t # x /\ ~(IsFirst(k, m_timers', next) /\ ~m_tickle)
    <3>1. m_tickle' = m_tickle /\ pc' = [pc EXCEPT ![t] = "run"]
      <4>1. m_tickle' = m_tickle
        BY <1>t, <1>4, <2>3 DEF AtFront
      <4> QED  BY <1>4, <2>3, <4>1 DEF AtFront, Goto
    <3>2. /\ pc'[x] = pc[x]
          /\ \A u \in Threads : pc[u] = "tickle" => pc'[u] = "tickle"
      BY <1>t, <1>4, <2>3, <3>1
    <3>3. CASE m_tickle
      BY <1>4, <3>1, <3>2, <3>3 DEF CoverOK
    <3>4. CASE ~m_tickle
      <4>1. PICK j \in m_timers' \ {k} : next[j] <= next[k]
        BY <1>t, <1>4, <2>3, <3>4, NotFirstLemma
      <4>2. j \in m_timers /\ j \in Timers /\ next[j] = m_next[j]
        BY <1>t, <1>4, <4>1
      <4>3. ASSUME \A i \in m_timers : Covers(deadline[x], slept[x], clock, m_next[i])
            PROVE  \A i \in m_timers' : Covers(deadline[x], slept[x], clock, next[i])
        <5>1. Covers(deadline[x], slept[x], clock, next[k])
          <6>1. Covers(deadline[x], slept[x], clock, next[j])
            BY <4>2, <4>3
          <6>2. next[j] \in Nat /\ next[k] \in Nat /\ next[j] <= next[k] /\ clock <= clock
            BY <1>t, <4>1, <4>2
          <6> QED  BY <1>t, <1>d, <6>1, <6>2, CoversLater
        <5> QED  BY <1>t, <1>4, <4>3, <5>1
      <4> QED  BY <1>t, <1>4, <3>1, <3>2, <3>4, <4>3 DEF CoverOK
    <3> QED  BY <3>3, <3>4
  <2> QED  BY <2>1, <2>2, <2>3
<1>5. ASSUME NEW t \in Threads, NEW k \in Timers, NEW n \in Nat, pc[t] = "run",
             Reinsert(t, k, n)
      PROVE  CoverOK(x)'
  <2>1. m_next' = [m_next EXCEPT ![k] = n] /\ m_next' \in [Timers -> Nat] /\ m_timers' = m_timers
    BY <1>t, <1>5 DEF Reinsert
  <2>2. AtFront(t, k, m_timers', m_next') /\ k \in m_timers' /\ UNCHANGED <<clock, pipe, deadline, slept>>
    BY <1>5, <2>1 DEF Reinsert
  <2> QED  BY <1>t, <1>4, <1>5, <2>1, <2>2
<1>6. ASSUME NEW t \in Threads, Insert(t) PROVE CoverOK(x)'
  <2>1. timer[t] \in Timers /\ m_timers' = m_timers \cup {timer[t]} /\ m_next' = m_next
    BY <1>t, <1>6 DEF Insert
  <2>2. AtFront(t, timer[t], m_timers', m_next) /\ pc[t] = "insert"
        /\ UNCHANGED <<clock, pipe, deadline, slept>>
    BY <1>6 DEF Insert
  <2> QED  BY <1>t, <1>4, <2>1, <2>2
<1>7. ASSUME NEW t \in Threads, Tickle(t) PROVE CoverOK(x)'
  <2>1. CASE t = x
    BY <1>b, <1>t, <1>7, <2>1 DEF Tickle, Goto
  <2>2. CASE t # x /\ pc[x] \in {"next", "wait"}
    BY <1>t, <1>7, <2>2 DEF Tickle, IdleLabels, CoverOK
  <2>3. CASE t # x /\ pc[x] \notin {"next", "wait"}
    BY <1>b, <1>t, <1>7, <2>3 DEF Tickle, Goto
  <2> QED  BY <2>1, <2>2, <2>3
<1>8. CASE WakeOther(x)
  BY <1>b, <1>t, <1>8 DEF WakeOther, Goto
<1>9. CASE IdleStep(x)
  <2>1. CASE EnterIdle(x)
    BY <1>b, <1>t, <2>1 DEF EnterIdle, Goto
  <2>2. CASE ClearTickle(x)
    BY <1>t, <2>2 DEF ClearTickle, Goto, CoverOK
  <2>3. CASE Wait(x)
    <3>1. \A k \in m_timers : Covers(deadline'[x], clock, clock, m_next[k])
      BY <2>3, WaitCovers DEF OutcomeInv
    <3>2. slept'[x] = clock
      BY <1>t, <2>3 DEF Wait
    <3>3. \A k \in m_timers : Covers(deadline'[x], slept'[x], clock, m_next[k])
      BY <3>1, <3>2
    <3>4. \A t \in Threads : pc[t] = "tickle" => pc'[t] = "tickle"
      BY <1>t, <2>3 DEF Wait, Goto
    <3> QED  BY <2>3, <3>3, <3>4 DEF Wait, CoverOK
  <2>4. CASE Wake(x)
    BY <1>b, <1>t, <2>4 DEF Wake, Goto
  <2>5. CASE ReadNow(x)
    BY <1>b, <1>t, <2>5 DEF ReadNow, Goto
  <2>6. CASE Expire(x)
    BY <1>b, <1>t, <2>6 DEF Expire, Goto
  <2>7. CASE Deliver(x)
    BY <1>b, <1>t, <2>7 DEF Deliver, Goto
  <2> QED  BY <1>9, <2>1, <2>2, <2>3, <2>4, <2>5, <2>6, <2>7 DEF IdleStep
<1>10. ASSUME NEW t \in Threads, Use(t) PROVE CoverOK(x)'
  <2>1. ASSUME NEW k \in Timers, Refresh(t, k) PROVE CoverOK(x)'
    <3>1. m_ms[k] + clock \in Nat
      BY DEF OutcomeInv, TypeInv, TypeOK
    <3> QED  BY <1>5, <2>1, <3>1 DEF Refresh
  <2>2. ASSUME NEW k \in Timers, NEW ms \in Periods, NEW from_now \in BOOLEAN,
               Reset(t, k, ms, from_now)
        PROVE  CoverOK(x)'
    <3>1. ms \in Nat /\ m_next[k] - m_ms[k] \in Nat /\ clock \in Nat
      BY TimerAssumption DEF OutcomeInv, TypeInv, TypeOK, StartNotNegative
    <3>2. ms + (IF from_now THEN clock ELSE m_next[k] - m_ms[k]) \in Nat
      BY <3>1
    <3> QED  BY <1>5, <2>2, <3>2 DEF Reset
  <2> QED  BY <1>2, <1>3, <1>10, <2>1, <2>2 DEF Use
<1> QED  BY <1>0, <1>1, <1>6, <1>7, <1>8, <1>9, <1>10 DEF Next

\* With one thread in idle() and any number of users and timers, the thread
\* never sleeps past the first timer without a tickle under way, unless that
\* timer was 2^31 ms or more away when it fell asleep.
THEOREM OneThreadCoversFirstTimer ==
    ASSUME NEW CONSTANT x, IOThreads = {x}
    PROVE  Spec => []FirstTimerCovered
<1>1. Init => CoverOK(x)
  BY DEF Init, CoverOK, Threads
<1>2. OutcomeInv /\ CoverOK(x) /\ [Next]_vars => CoverOK(x)'
  BY IOThreads = {x}, NextCover
<1>3. CoverOK(x) => FirstTimerCovered
  BY IOThreads = {x} DEF FirstTimerCovered, CoverOK, Covers
<1> QED  BY <1>1, <1>2, <1>3, OutcomeInvariant, PTL DEF Spec

-----------------------------------------------------------------------------
(* No timer fires early *)

\* What a thread holds between reading the clock in listExpiredCb and taking
\* m_mutex: an instant of the past, which others may have overtaken.
ClockOK ==
    /\ Boot <= m_previousTime /\ m_previousTime <= clock
    /\ clock = Boot \/ clock <= MaxTime
    /\ \A t \in IOThreads : pc[t] = "expire" => Boot <= now_ms[t] /\ now_ms[t] <= clock

\* The instant is not older than the last one listExpiredCb has seen.
InOrder == \A t \in IOThreads : pc[t] = "expire" => m_previousTime <= now_ms[t]

\* No thread waits for m_mutex in listExpiredCb for more than an hour.
Prompt == \A t \in IOThreads : pc[t] = "expire" => clock - now_ms[t] <= Hour

\* What a step does to the instants, and that only Expire takes callbacks.
LEMMA InstantLemma ==
    ASSUME TypeInv, [Next]_vars
    PROVE  \/ /\ UNCHANGED <<clock, m_previousTime, now_ms>>
              /\ \A u \in IOThreads : pc'[u] = "expire" => pc[u] = "expire"
              /\ \A u \in IOThreads : vcb'[u] \subseteq vcb[u]
           \/ TimePasses
           \/ \E t \in IOThreads : ReadNow(t) \/ Expire(t)
<1> DEFINE Same ==
      /\ UNCHANGED <<clock, m_previousTime, now_ms>>
      /\ \A u \in IOThreads : pc'[u] = "expire" => pc[u] = "expire"
      /\ \A u \in IOThreads : vcb'[u] \subseteq vcb[u]
<1> USE DEF setVars, mgrVars, histVars, loopVars
<1>t. /\ pc \in [Threads -> Labels] /\ vcb \in [Threads -> SUBSET Timers]
      /\ m_tickle \in BOOLEAN /\ IOThreads \subseteq Threads
      /\ \A t \in Threads : pc[t] \in {"insert", "tickle"} => timer[t] \in Timers
  BY DEF TypeInv, TypeOK, TimerOf, Threads
<1>0. CASE UNCHANGED vars
  BY <1>0 DEF vars
<1>1. ASSUME NEW t \in Threads, NEW k \in Timers, NEW S, NEW next, AtFront(t, k, S, next),
             UNCHANGED <<clock, m_previousTime, now_ms, vcb>>
      PROVE  Same
  BY <1>t, <1>1, AtFrontCases
<1>2. ASSUME NEW t \in Threads, Use(t) PROVE Same
  <2>1. PICK k \in Timers :
          \/ Cancel(t, k) \/ Refresh(t, k)
          \/ \E ms \in Periods : Create(t, k, ms)
          \/ \E ms \in Periods, from_now \in BOOLEAN : Reset(t, k, ms, from_now)
    BY <1>2 DEF Use
  <2>2. CASE Cancel(t, k) \/ \E ms \in Periods : Create(t, k, ms)
    BY <1>t, <2>2 DEF Cancel, Create, Goto
  <2>3. CASE Refresh(t, k)
    BY <1>1, <2>3 DEF Refresh, Reinsert
  <2>4. CASE \E ms \in Periods, from_now \in BOOLEAN : Reset(t, k, ms, from_now)
    BY <1>1, <2>4 DEF Reset, Reinsert
  <2> QED  BY <2>1, <2>2, <2>3, <2>4
<1>3. ASSUME NEW t \in Threads, Insert(t) PROVE Same
  BY <1>t, <1>1, <1>3 DEF Insert
<1>4. ASSUME NEW t \in Threads, Tickle(t) PROVE Same
  BY <1>t, <1>4 DEF Tickle, Goto
<1>5. ASSUME NEW t \in IOThreads,
             EnterIdle(t) \/ ClearTickle(t) \/ Wait(t) \/ Wake(t) \/ WakeOther(t)
      PROVE  Same
  BY <1>t, <1>5 DEF EnterIdle, ClearTickle, Wait, Wake, WakeOther, Goto
<1>6. ASSUME NEW t \in IOThreads, Deliver(t) PROVE Same
  BY <1>t, <1>6 DEF Deliver, Goto
<1> QED  BY <1>0, <1>2, <1>3, <1>4, <1>5, <1>6 DEF Next, IdleStep

\* ClockOK is inductive.
LEMMA NextClockOK == TypeInv /\ ClockOK /\ [Next]_vars => ClockOK'
<1> SUFFICES ASSUME TypeInv, ClockOK, [Next]_vars PROVE ClockOK'
  OBVIOUS
<1>t. /\ pc \in [Threads -> Labels] /\ now_ms \in [Threads -> Nat] /\ IOThreads \subseteq Threads
      /\ clock \in Nat /\ m_previousTime \in Nat /\ Boot \in Nat /\ MaxTime \in Nat
  BY TimerAssumption DEF TypeInv, TypeOK, Threads
<1>1. CASE TimePasses
  BY <1>1, <1>t DEF TimePasses, ClockOK, mgrVars, loopVars
<1>2. ASSUME NEW t \in IOThreads, ReadNow(t) PROVE ClockOK'
  BY <1>2, <1>t DEF ReadNow, Goto, ClockOK, mgrVars
<1>3. ASSUME NEW t \in IOThreads, Expire(t) PROVE ClockOK'
  BY <1>3, <1>t DEF Expire, Goto, ClockOK
<1> QED  BY <1>1, <1>2, <1>3, InstantLemma DEF ClockOK

\* With one thread in idle() the instants are in order.
LEMMA NextInOrder ==
    (\A t, u \in IOThreads : t = u) /\ TypeInv /\ ClockOK /\ InOrder /\ [Next]_vars => InOrder'
<1> SUFFICES ASSUME \A t, u \in IOThreads : t = u, TypeInv, ClockOK, InOrder, [Next]_vars
             PROVE  InOrder'
  OBVIOUS
<1>t. /\ pc \in [Threads -> Labels] /\ now_ms \in [Threads -> Nat] /\ IOThreads \subseteq Threads
      /\ clock \in Nat /\ m_previousTime \in Nat
  BY DEF TypeInv, TypeOK, Threads
<1>1. CASE TimePasses
  BY <1>1 DEF TimePasses, InOrder, mgrVars, loopVars
<1>2. ASSUME NEW t \in IOThreads, ReadNow(t) PROVE InOrder'
  BY <1>2, <1>t DEF ReadNow, Goto, ClockOK, InOrder, mgrVars
<1>3. ASSUME NEW t \in IOThreads, Expire(t) PROVE InOrder'
  <2>1. \A u \in IOThreads : u = t
    OBVIOUS
  <2> QED  BY <1>3, <1>t, <2>1 DEF Expire, Goto, InOrder
<1> QED  BY <1>1, <1>2, <1>3, InstantLemma DEF InOrder

\* A callback is taken before its time only if the clock seems to have been
\* set back.
LEMMA EarlyLemma ==
    ASSUME TypeInv, ClockOK, [Next]_vars,
           \A t \in IOThreads : pc[t] = "expire" => ~Rollover(now_ms[t]),
           NEW t \in IOThreads, NEW k \in vcb'[t] \ vcb[t]
    PROVE  m_next[k] <= clock
<1>t. /\ vcb \in [Threads -> SUBSET Timers] /\ now_ms \in [Threads -> Nat]
      /\ IOThreads \subseteq Threads /\ clock \in Nat
      /\ m_next \in [Timers -> Nat] /\ m_timers \subseteq Timers
  BY DEF TypeInv, TypeOK, Threads
<1>1. PICK u \in IOThreads : Expire(u)
  BY InstantLemma DEF TimePasses, ReadNow, loopVars
<1>2. PICK expired \in SUBSET m_timers :
        Due(now_ms[u], expired) /\ vcb' = [vcb EXCEPT ![u] = expired]
  BY <1>1 DEF Expire
<1>3. u = t /\ k \in expired
  BY <1>t, <1>2
<1>4. m_next[k] <= now_ms[u] /\ now_ms[u] <= clock
  BY <1>1, <1>2, <1>3 DEF Expire, Due, ClockOK
<1> QED  BY <1>t, <1>3, <1>4

LEMMA InitClock == Init => ClockOK /\ InOrder
  BY TimerAssumption DEF Init, ClockOK, InOrder, Threads

\* One thread in idle(): no callback is taken before its time.
THEOREM OneThreadNotEarly ==
    ASSUME \A t, u \in IOThreads : t = u PROVE Spec => NotEarly
<1> DEFINE Inv == TypeInv /\ ClockOK /\ InOrder
<1>1. Inv /\ [Next]_vars
        => [\A t \in IOThreads : \A k \in vcb'[t] \ vcb[t] : m_next[k] <= clock]_vars
  <2> SUFFICES ASSUME Inv, [Next]_vars, NEW t \in IOThreads, NEW k \in vcb'[t] \ vcb[t]
               PROVE  m_next[k] <= clock
    OBVIOUS
  <2>1. m_previousTime \in Nat /\ \A u \in IOThreads : now_ms[u] \in Nat
    BY DEF TypeInv, TypeOK, Threads
  <2>2. \A u \in IOThreads : pc[u] = "expire" => ~Rollover(now_ms[u])
    BY <2>1 DEF InOrder, Rollover
  <2> QED  BY <2>2, EarlyLemma
<1>2. Inv /\ [Next]_vars => Inv'
  BY NextTypeInv, NextClockOK, NextInOrder
<1>3. Init => Inv
  BY InitTypeInv, InitClock
<1> QED  BY <1>1, <1>2, <1>3, PTL DEF Spec, NotEarly

\* Several threads: the clock does not seem set back if the machine has run
\* for an hour when the manager is created and nobody waits for an hour
\* between reading the clock and taking m_mutex.  In the first hour the
\* unsigned subtraction of detectClockRollover wraps and one overtaken
\* instant makes every timer expire.
THEOREM PromptThreadsNotEarly ==
    ASSUME Hour <= Boot PROVE Spec /\ []Prompt => NotEarly
<1> DEFINE Inv == TypeInv /\ ClockOK
<1>1. Inv /\ Prompt /\ [Next]_vars
        => [\A t \in IOThreads : \A k \in vcb'[t] \ vcb[t] : m_next[k] <= clock]_vars
  <2> SUFFICES ASSUME Inv, Prompt, [Next]_vars, NEW t \in IOThreads, NEW k \in vcb'[t] \ vcb[t]
               PROVE  m_next[k] <= clock
    OBVIOUS
  <2>1. /\ m_previousTime \in Nat /\ clock \in Nat /\ Hour \in Nat /\ UintSpan \in Nat
        /\ Boot \in Nat /\ MaxTime \in Nat /\ MaxTime < UintSpan
        /\ \A u \in IOThreads : now_ms[u] \in Nat
    BY TimerAssumption DEF TypeInv, TypeOK, Threads
  <2>2. ASSUME NEW u \in IOThreads, pc[u] = "expire", Rollover(now_ms[u]) PROVE FALSE
    <3>1. /\ Boot <= m_previousTime /\ m_previousTime <= clock
          /\ Boot <= now_ms[u] /\ now_ms[u] < m_previousTime
          /\ clock = Boot \/ clock <= MaxTime
          /\ clock - now_ms[u] <= Hour
      BY <2>2 DEF ClockOK, Prompt, Rollover
    <3>2. m_previousTime - Hour \in 0..(UintSpan - 1)
      BY <2>1, <3>1
    <3>3. (m_previousTime - Hour) % UintSpan = m_previousTime - Hour
      BY <2>1, <3>2
    <3>4. now_ms[u] < m_previousTime - Hour
      BY <2>2, <3>3 DEF Rollover
    <3> QED  BY <2>1, <3>1, <3>4
  <2> QED  BY <2>2, EarlyLemma
<1>2. Inv /\ [Next]_vars => Inv'
  BY NextTypeInv, NextClockOK
<1>3. Init => Inv
  BY InitTypeInv, InitClock
<1> QED  BY <1>1, <1>2, <1>3, PTL DEF Spec, NotEarly

=============================================================================
