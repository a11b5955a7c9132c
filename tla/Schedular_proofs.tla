--------------------------- MODULE Schedular_proofs ---------------------------
(* What is proved about the fiber scheduler for every value of its constants. *)
EXTENDS Schedular, TLAPS, FiniteSetTheorems

\* A thread between the pop and the end of the loop body has a task in hand.
HandOK == \A t \in Threads : pc[t] \in Holding => ft[t] \in Tasks

TypeInv == StateOK /\ HandOK

-----------------------------------------------------------------------------
(* Lemmas on the queue *)

\* Erasing the i-th entry of the queue keeps the others, in their order.
LEMMA WithoutLemma ==
    ASSUME NEW S, NEW s \in Seq(S), NEW i \in DOMAIN s
    PROVE  /\ Without(s, i) \in Seq(S)
           /\ Len(Without(s, i)) = Len(s) - 1
           /\ \A j \in 1..(Len(s) - 1) :
                Without(s, i)[j] = IF j < i THEN s[j] ELSE s[j + 1]
  BY DEF Without

-----------------------------------------------------------------------------
(* Type correctness *)

LEMMA InitTypeInv == Init => TypeInv
<1> SUFFICES ASSUME Init PROVE TypeInv
  OBVIOUS
<1>1. StateOK
  <2>1. m_fibers \in Seq(Item)
    BY DEF Init
  <2>2. noFibers \in [Threads -> BOOLEAN] /\ idleTerm \in [Threads -> BOOLEAN]
    BY DEF Init
  <2>3. yields \in [Tasks -> 0..MaxYields] /\ submits \in [Tasks -> Nat]
    BY ConstantsAssumption DEF Init
  <2>4. ioIdle \in BOOLEAN
    BY ConstantsAssumption DEF Init
  <2> QED  BY <2>1, <2>2, <2>3, <2>4 DEF Init, StateOK, Status, Labels
<1>2. HandOK
  BY DEF Init, HandOK, Holding, Counted
<1> QED  BY <1>1, <1>2 DEF TypeInv

\* What the first half of stopping() writes.
LEMMA ProbeLemma ==
    ASSUME NEW t, NEW yes, NEW no, StoppingProbe(t, yes, no)
    PROVE  /\ \/ noFibers' = noFibers
              \/ \E b \in BOOLEAN : noFibers' = [noFibers EXCEPT ![t] = b]
           /\ \E label \in {yes, no} : pc' = [pc EXCEPT ![t] = label]
           /\ UNCHANGED <<queueVars, m_activeThreadCounts, stopVars, fiberVars, ft, idleTerm,
                          failed>>
<1>1. (m_fibers = <<>>) \in BOOLEAN
  OBVIOUS
<1>2. CASE ioIdle /\ armed # {}
  BY <1>2 DEF StoppingProbe, Goto
<1>3. CASE ~(ioIdle /\ armed # {})
  <2>1. pc' = [pc EXCEPT ![t] = yes] /\ noFibers' = [noFibers EXCEPT ![t] = m_fibers = <<>>]
    BY <1>3 DEF StoppingProbe, Goto
  <2>2. \E b \in BOOLEAN : noFibers' = [noFibers EXCEPT ![t] = b]
    BY <1>1, <2>1, Zenon
  <2> QED  BY <2>1, <2>2 DEF StoppingProbe
<1> QED  BY <1>2, <1>3

LEMMA NextTypeInv == TypeInv /\ [Next]_vars => TypeInv'
<1> USE ConstantsAssumption
    DEF Threads, Labels, Holding, Counted, Goto, Loop, Enqueue, fiberVars, queueVars,
        stopVars, threadVars
<1> SUFFICES ASSUME TypeInv, [Next]_vars PROVE TypeInv'
  OBVIOUS
<1> USE DEF TypeInv, StateOK, HandOK
<1>item. \A k \in Tasks, r \in Threads \cup {AnyThread} : [task |-> k, thr |-> r] \in Item
  BY DEF Item
<1>0. CASE UNCHANGED vars
  BY <1>0 DEF vars
<1>1. CASE Start
  BY <1>1 DEF Start
<1>2. CASE StopRequest
  BY <1>2 DEF StopRequest
<1>3. CASE StopStep
  <2>1. CASE StopStore
    BY <2>1 DEF StopStore
  <2>2. CASE StopProbe
    <3>1. StoppingProbe(Main, "stopA", "pop")
      BY <2>2 DEF StopProbe
    <3>2. noFibers' \in [Threads -> BOOLEAN]
      <4>1. \/ noFibers' = noFibers
            \/ \E b \in BOOLEAN : noFibers' = [noFibers EXCEPT ![Main] = b]
        BY <3>1, ProbeLemma
      <4> QED  BY <4>1
    <3>3. \E label \in {"stopA", "pop"} : pc' = [pc EXCEPT ![Main] = label]
      BY <3>1, ProbeLemma
    <3>4. UNCHANGED <<queueVars, stopVars, fiberVars, ft, idleTerm, failed>>
      BY <3>1, ProbeLemma
    <3> QED  BY <3>2, <3>3, <3>4
  <2>3. CASE StopDecide
    <3>1. pc'[Main] \in Labels /\ pc'[Main] \notin Holding
      BY <2>3 DEF StopDecide
    <3>2. pc' = [pc EXCEPT ![Main] = pc'[Main]]
      BY <2>3 DEF StopDecide
    <3>3. noFibers' \in [Threads -> BOOLEAN]
      BY <2>3 DEF StopDecide
    <3> QED  BY <2>3, <3>1, <3>2, <3>3 DEF StopDecide
  <2>4. CASE Join
    BY <2>4 DEF Join
  <2> QED  BY <1>3, <2>1, <2>2, <2>3, <2>4 DEF StopStep
<1>4. ASSUME NEW t \in Threads, Step(t) PROVE TypeInv'
  <2>1. CASE Pop(t)
    <3>1. PICK i \in DOMAIN m_fibers : /\ m_fibers' = Without(m_fibers, i)
                                       /\ ft' = [ft EXCEPT ![t] = m_fibers[i].task]
      BY <2>1 DEF Pop, Eligible
    <3>2. m_fibers' \in Seq(Item)
      BY <3>1, WithoutLemma
    <3>3. m_fibers[i].task \in Tasks
      <4>1. m_fibers[i] \in Item
        OBVIOUS
      <4> QED  BY <4>1 DEF Item
    <3> QED  BY <2>1, <3>1, <3>2, <3>3 DEF Pop
  <2>2. CASE PopNothing(t)
    BY <2>2 DEF PopNothing
  <2>3. CASE Drop(t)
    BY <2>3 DEF Drop
  <2>4. CASE Check(t)
    BY <2>4 DEF Check
  <2>5. CASE SwapIn(t)
    BY <2>5 DEF SwapIn
  <2>6. CASE Enter(t)
    BY <2>6 DEF Enter, Status
  <2>7. CASE Finish(t)
    BY <2>7 DEF Finish, EndBody, Status
  <2>8. CASE YieldToHold(t)
    BY <2>8 DEF YieldToHold, Yield, Status
  <2>9. CASE SwapOut(t)
    BY <2>9 DEF SwapOut
  <2>10. CASE SwapOutHold(t)
    BY <2>10 DEF SwapOutHold, Status
  <2>11. CASE Swap(t)
    BY <2>11 DEF Swap
  <2>12. CASE FetchSub(t)
    BY <2>12 DEF FetchSub
  <2>13. CASE PostReady(t)
    BY <2>13 DEF PostReady
  <2>14. CASE PostDone(t)
    BY <2>14 DEF PostDone
  <2>15. CASE PostOther(t)
    BY <2>15 DEF PostOther
  <2>16. CASE Reschedule(t)
    BY <2>16, <1>item DEF Reschedule
  <2>17. CASE PostHold(t)
    BY <2>17 DEF PostHold, Status
  <2>18. CASE SpinIdleExit(t)
    BY <2>18 DEF SpinIdleExit
  <2>19. CASE IdleProbe(t)
    <3>1. StoppingProbe(t, "idleDecide", "pop")
      BY <2>19 DEF IdleProbe
    <3>2. noFibers' \in [Threads -> BOOLEAN]
      <4>1. \/ noFibers' = noFibers
            \/ \E b \in BOOLEAN : noFibers' = [noFibers EXCEPT ![t] = b]
        BY <3>1, ProbeLemma
      <4> QED  BY <4>1
    <3>3. \E label \in {"idleDecide", "pop"} : pc' = [pc EXCEPT ![t] = label]
      BY <3>1, ProbeLemma
    <3>4. UNCHANGED <<queueVars, stopVars, fiberVars, ft, idleTerm, failed>>
      BY <3>1, ProbeLemma
    <3> QED  BY <3>2, <3>3, <3>4
  <2>20. CASE IdleDecide(t)
    <3>1. idleTerm' \in [Threads -> BOOLEAN] /\ noFibers' \in [Threads -> BOOLEAN]
      BY <2>20 DEF IdleDecide, StoppingResult
    <3> QED  BY <2>20, <3>1 DEF IdleDecide
  <2> QED
    BY <1>4, <2>1, <2>2, <2>3, <2>4, <2>5, <2>6, <2>7, <2>8, <2>9, <2>10, <2>11, <2>12,
       <2>13, <2>14, <2>15, <2>16, <2>17, <2>18, <2>19, <2>20 DEF Step
<1>5. ASSUME NEW t \in Threads, Throw(t) PROVE TypeInv'
  BY <1>5 DEF Throw, EndBody, Status
<1>6. ASSUME NEW t \in Threads, YieldToReady(t) PROVE TypeInv'
  <2>1. yields' \in [Tasks -> 0..MaxYields]
    BY <1>6 DEF YieldToReady
  <2>2. CASE status[ft[t]] # "EXEC"
    BY <1>6, <2>1, <2>2 DEF YieldToReady, Yield
  <2>3. CASE status[ft[t]] = "EXEC"
    <3>1. status' \in [Tasks -> Status]
      <4>1. status' = [status EXCEPT ![ft[t]] = "READY"]
        BY <1>6, <2>3 DEF YieldToReady, Yield
      <4>2. "READY" \in Status
        BY DEF Status
      <4> QED  BY <4>1, <4>2
    <3>2. pc' = [pc EXCEPT ![t] = "out"]
      BY <1>6, <2>3 DEF YieldToReady, Yield
    <3>3. UNCHANGED <<queueVars, m_activeThreadCounts, stopVars, onStack, armed, ended, ft,
                      noFibers, idleTerm, failed>>
      BY <1>6, <2>3 DEF YieldToReady, Yield
    <3>4. ft[t] \in Tasks
      BY <1>6 DEF YieldToReady
    <3>5. StateOK'
      BY <2>1, <3>1, <3>2, <3>3
    <3>6. HandOK'
      BY <3>2, <3>3, <3>4
    <3> QED  BY <3>5, <3>6
  <2> QED  BY <2>2, <2>3
<1>7. ASSUME NEW t \in Threads, Register(t) PROVE TypeInv'
  <2>1. CASE status[ft[t]] # "EXEC"
    BY <1>7, <2>1 DEF Register
  <2>2. CASE status[ft[t]] = "EXEC"
    <3>1. armed' \subseteq Tasks /\ yields' \in [Tasks -> 0..MaxYields]
      BY <1>7, <2>2 DEF Register
    <3>2. pc' = [pc EXCEPT ![t] = "hold"]
      BY <1>7, <2>2 DEF Register
    <3> QED  BY <1>7, <2>2, <3>1, <3>2 DEF Register
  <2> QED  BY <2>1, <2>2
<1>8. ASSUME NEW t \in Threads, NEW k \in Tasks, Submit(t, k) PROVE TypeInv'
  BY <1>8, <1>item DEF Submit
<1>9. ASSUME NEW k \in Tasks, Wake(k) PROVE TypeInv'
  BY <1>9, <1>item DEF Wake
<1> QED
  BY <1>0, <1>1, <1>2, <1>3, <1>4, <1>5, <1>6, <1>7, <1>8, <1>9 DEF Next

-----------------------------------------------------------------------------
(* The active count *)

LEMMA ThreadsFinite == IsFiniteSet(Threads) /\ IsFiniteSet(CountedThreads)
<1>1. IsFiniteSet(Threads)
  BY ConstantsAssumption, FS_AddElement DEF Threads
<1>2. CountedThreads \subseteq Threads
  BY DEF CountedThreads
<1> QED  BY <1>1, <1>2, FS_Subset

\* A thread that goes to another label enters or leaves the counted region,
\* or neither.
LEMMA CountLemma ==
    ASSUME TypeInv, NEW t \in Threads, NEW label, pc' = [pc EXCEPT ![t] = label]
    PROVE  /\ pc[t] \notin Counted /\ label \in Counted =>
                Cardinality(CountedThreads') = Cardinality(CountedThreads) + 1
           /\ pc[t] \in Counted /\ label \notin Counted =>
                Cardinality(CountedThreads') = Cardinality(CountedThreads) - 1
           /\ (pc[t] \in Counted <=> label \in Counted) => CountedThreads' = CountedThreads
<1>1. \A u \in Threads : pc'[u] = IF u = t THEN label ELSE pc[u]
  BY DEF TypeInv, StateOK
<1>2. CASE pc[t] \notin Counted /\ label \in Counted
  <2>1. CountedThreads' = CountedThreads \cup {t} /\ t \notin CountedThreads
    BY <1>1, <1>2 DEF CountedThreads
  <2> QED  BY <1>2, <2>1, ThreadsFinite, FS_AddElement
<1>3. CASE pc[t] \in Counted /\ label \notin Counted
  <2>1. CountedThreads' = CountedThreads \ {t} /\ t \in CountedThreads
    BY <1>1, <1>3 DEF CountedThreads
  <2> QED  BY <1>3, <2>1, ThreadsFinite, FS_RemoveElement
<1>4. CASE pc[t] \in Counted <=> label \in Counted
  BY <1>1, <1>4 DEF CountedThreads
<1> QED  BY <1>2, <1>3, <1>4

LEMMA NextActiveExact == TypeInv /\ ActiveExact /\ [Next]_vars => ActiveExact'
<1> SUFFICES ASSUME TypeInv, ActiveExact, [Next]_vars PROVE ActiveExact'
  OBVIOUS
<1> USE DEF Goto, Loop
<1>inside. ASSUME NEW t \in Threads, NEW label, pc' = [pc EXCEPT ![t] = label],
                  pc[t] \in Counted <=> label \in Counted, UNCHANGED m_activeThreadCounts
           PROVE  ActiveExact'
  BY <1>inside, CountLemma DEF ActiveExact
<1>same. ASSUME pc' = pc, UNCHANGED m_activeThreadCounts PROVE ActiveExact'
  BY <1>same DEF ActiveExact, CountedThreads
<1>main. Main \in Threads
  BY DEF Threads
<1>0. CASE UNCHANGED vars
  BY <1>0, <1>same DEF vars, threadVars
<1>1. CASE Start
  <2>1. CountedThreads = {} /\ CountedThreads' = {}
    BY <1>1 DEF Start, CountedThreads, Counted, TypeInv, StateOK
  <2> QED  BY <1>1, <2>1 DEF Start, ActiveExact
<1>2. CASE StopRequest
  BY <1>2, <1>main, <1>inside DEF StopRequest, Counted
<1>3. CASE StopStep
  <2>1. CASE StopStore
    BY <2>1, <1>main, <1>inside DEF StopStore, Counted
  <2>2. CASE StopProbe
    <3>1. StoppingProbe(Main, "stopA", "pop") /\ pc[Main] = "stopQ"
      BY <2>2 DEF StopProbe
    <3>2. PICK label \in {"stopA", "pop"} : pc' = [pc EXCEPT ![Main] = label]
      BY <3>1, ProbeLemma
    <3>3. UNCHANGED m_activeThreadCounts
      BY <3>1, ProbeLemma
    <3> QED  BY <3>1, <3>2, <3>3, <1>main, <1>inside DEF Counted
  <2>3. CASE StopDecide
    <3>1. \E label \in {"pop", "stopped", "join"} : pc' = [pc EXCEPT ![Main] = label]
      BY <2>3 DEF StopDecide
    <3> QED  BY <2>3, <3>1, <1>main, <1>inside DEF StopDecide, Counted
  <2>4. CASE Join
    BY <2>4, <1>main, <1>inside DEF Join, Counted
  <2> QED  BY <1>3, <2>1, <2>2, <2>3, <2>4 DEF StopStep
<1>4. ASSUME NEW t \in Threads, Step(t) PROVE ActiveExact'
  <2>1. CASE Pop(t)
    <3>1. Cardinality(CountedThreads') = Cardinality(CountedThreads) + 1
      BY <2>1, CountLemma DEF Pop, Counted
    <3> QED  BY <2>1, <3>1 DEF Pop, ActiveExact
  <2>2. CASE PopNothing(t)
    <3>1. \E label \in {"idle", "join", "exited"} : pc' = [pc EXCEPT ![t] = label]
      BY <2>2 DEF PopNothing
    <3>2. pc[t] = "pop" /\ UNCHANGED m_activeThreadCounts
      BY <2>2 DEF PopNothing
    <3> QED  BY <3>1, <3>2, <1>inside DEF Counted
  <2>3. CASE Drop(t)
    <3>1. Cardinality(CountedThreads') = Cardinality(CountedThreads) - 1
      <4>1. pc[t] = "check" /\ pc' = [pc EXCEPT ![t] = "pop"]
        BY <2>3 DEF Drop
      <4>2. pc[t] \in Counted /\ "pop" \notin Counted
        BY <4>1 DEF Counted
      <4> QED  BY <4>1, <4>2, CountLemma
    <3> QED  BY <2>3, <3>1 DEF Drop, ActiveExact
  <2>4. CASE FetchSub(t)
    <3>1. Cardinality(CountedThreads') = Cardinality(CountedThreads) - 1
      <4>1. pc[t] = "sub" /\ pc' = [pc EXCEPT ![t] = "post"]
        BY <2>4 DEF FetchSub
      <4>2. pc[t] \in Counted /\ "post" \notin Counted
        BY <4>1 DEF Counted
      <4> QED  BY <4>1, <4>2, CountLemma
    <3> QED  BY <2>4, <3>1 DEF FetchSub, ActiveExact
  <2>5. CASE IdleProbe(t)
    <3>1. StoppingProbe(t, "idleDecide", "pop") /\ pc[t] = "idle"
      BY <2>5 DEF IdleProbe
    <3>2. PICK label \in {"idleDecide", "pop"} : pc' = [pc EXCEPT ![t] = label]
      BY <3>1, ProbeLemma
    <3>3. UNCHANGED m_activeThreadCounts
      BY <3>1, ProbeLemma
    <3> QED  BY <3>1, <3>2, <3>3, <1>inside DEF Counted
  <2>6. CASE Check(t)
    BY <2>6, <1>inside DEF Check, Counted
  <2>7. CASE SwapIn(t)
    <3>1. \/ pc' = pc
          \/ \E label \in {"enter"} : pc' = [pc EXCEPT ![t] = label]
      BY <2>7 DEF SwapIn
    <3> QED  BY <2>7, <3>1, <1>inside, <1>same DEF SwapIn, Counted
  <2>8. CASE Enter(t)
    BY <2>8, <1>inside DEF Enter, Counted
  <2>9. CASE Finish(t)
    BY <2>9, <1>inside DEF Finish, EndBody, Counted
  <2>10. CASE YieldToHold(t)
    <3>1. \/ pc' = pc
          \/ \E label \in {"out"} : pc' = [pc EXCEPT ![t] = label]
      BY <2>10 DEF YieldToHold, Yield
    <3> QED  BY <2>10, <3>1, <1>inside, <1>same DEF YieldToHold, Yield, Counted
  <2>11. CASE SwapOut(t)
    <3>1. \/ pc' = pc
          \/ \E label \in {"swap", "outHold"} : pc' = [pc EXCEPT ![t] = label]
      BY <2>11 DEF SwapOut
    <3> QED  BY <2>11, <3>1, <1>inside, <1>same DEF SwapOut, Counted
  <2>12. CASE SwapOutHold(t)
    BY <2>12, <1>inside DEF SwapOutHold, Counted
  <2>13. CASE Swap(t)
    BY <2>13, <1>inside DEF Swap, Counted
  <2>14. CASE PostReady(t)
    BY <2>14, <1>inside DEF PostReady, Counted
  <2>15. CASE PostDone(t)
    BY <2>15, <1>inside DEF PostDone, Counted
  <2>16. CASE PostOther(t)
    BY <2>16, <1>inside DEF PostOther, Counted
  <2>17. CASE Reschedule(t)
    BY <2>17, <1>inside DEF Reschedule, Counted
  <2>18. CASE PostHold(t)
    BY <2>18, <1>inside DEF PostHold, Counted
  <2>19. CASE SpinIdleExit(t)
    BY <2>19, <1>inside DEF SpinIdleExit, Counted
  <2>20. CASE IdleDecide(t)
    BY <2>20, <1>inside DEF IdleDecide, Counted
  <2> QED
    BY <1>4, <2>1, <2>2, <2>3, <2>4, <2>5, <2>6, <2>7, <2>8, <2>9, <2>10, <2>11, <2>12,
       <2>13, <2>14, <2>15, <2>16, <2>17, <2>18, <2>19, <2>20 DEF Step
<1>5. ASSUME NEW t \in Threads, Throw(t) PROVE ActiveExact'
  BY <1>5, <1>inside DEF Throw, EndBody, Counted
<1>6. ASSUME NEW t \in Threads, YieldToReady(t) PROVE ActiveExact'
  <2>1. pc' = pc \/ pc' = [pc EXCEPT ![t] = "out"]
    BY <1>6 DEF YieldToReady, Yield
  <2> QED  BY <1>6, <2>1, <1>inside, <1>same DEF YieldToReady, Yield, Counted
<1>7. ASSUME NEW t \in Threads, Register(t) PROVE ActiveExact'
  <2>1. pc' = pc \/ pc' = [pc EXCEPT ![t] = "hold"]
    BY <1>7 DEF Register
  <2> QED  BY <1>7, <2>1, <1>inside, <1>same DEF Register, Counted
<1>8. ASSUME NEW t \in Threads, NEW k \in Tasks, Submit(t, k) PROVE ActiveExact'
  BY <1>8, <1>same DEF Submit, threadVars
<1>9. ASSUME NEW k \in Tasks, Wake(k) PROVE ActiveExact'
  BY <1>9, <1>same DEF Wake, threadVars
<1> QED
  BY <1>0, <1>1, <1>2, <1>3, <1>4, <1>5, <1>6, <1>7, <1>8, <1>9 DEF Next

\* The active count is exact, so stopping() never overlooks a running task.
THEOREM ActiveCountExact == Spec => []ActiveExact
<1>1. Init => ActiveExact
  <2> SUFFICES ASSUME Init PROVE ActiveExact
    OBVIOUS
  <2>1. CountedThreads = {}
    BY DEF Init, CountedThreads, Counted
  <2> QED  BY <2>1, FS_EmptySet DEF Init, ActiveExact
<1> QED  BY <1>1, InitTypeInv, NextTypeInv, NextActiveExact, PTL DEF Spec

\* Every variable keeps its type; the count never drops below zero.
THEOREM TypeCorrect == Spec => []TypeOK
<1>1. TypeInv /\ ActiveExact => TypeOK
  <2> SUFFICES ASSUME TypeInv, ActiveExact PROVE TypeOK
    OBVIOUS
  <2>1. m_activeThreadCounts \in Nat
    BY ThreadsFinite, FS_CardinalityType DEF ActiveExact
  <2> QED  BY <2>1 DEF TypeInv, TypeOK
<1> QED  BY <1>1, ActiveCountExact, InitTypeInv, NextTypeInv, PTL DEF Spec

-----------------------------------------------------------------------------
(* Tasks that only yield to READY and are scheduled once *)

\* No task registers events or throws, none is scheduled twice.
ReadyOnly ==
    /\ MayHold = {} /\ MayThrow = {}
    /\ \A k \in Tasks : MaxSubmits[k] <= 1

\* Nothing has failed and no fiber is on its way to HOLD.
Quiet ==
    /\ failed = "none"
    /\ armed = {}
    /\ \A t \in Threads : pc[t] \notin {"hold", "outHold", "postHold"}

\* A task that was not scheduled is nowhere.
FreshOK == \A k \in Tasks : submits[k] = 0 =>
    /\ status[k] = "INIT" /\ k \notin ended
    /\ \A i \in DOMAIN m_fibers : m_fibers[i].task # k
    /\ \A t \in Threads : pc[t] \in Holding => ft[t] # k

QueueOK == \A i \in DOMAIN m_fibers : status[m_fibers[i].task] \in {"INIT", "READY"}

\* The status of a task in hand is determined by how far its thread has come.
HandStatus(t) ==
    /\ pc[t] \in {"check", "swapIn", "enter"} =>
         status[ft[t]] \in {"INIT", "READY"} /\ ft[t] \notin ended
    /\ pc[t] = "user" => status[ft[t]] = "EXEC" /\ ft[t] \notin ended
    /\ pc[t] \in {"out", "swap", "sub", "post"} =>
         \/ status[ft[t]] = "TERM" /\ ft[t] \in ended
         \/ status[ft[t]] = "READY" /\ ft[t] \notin ended
    /\ pc[t] = "resched" => status[ft[t]] = "READY" /\ ft[t] \notin ended

HandStatusOK == \A t \in Threads : HandStatus(t)

\* The labels of a thread that executes on the stack of its task.
OnStackLabels == {"user", "out", "swap"}

StackOK == \A k \in Tasks, t \in Threads :
    t \in onStack[k] <=> ft[t] = k /\ pc[t] \in OnStackLabels

ReadyInv ==
    TypeInv /\ Quiet /\ OnePlace /\ FreshOK /\ QueueOK /\ HandStatusOK /\ StackOK

\* Every entry of the queue names a task.
LEMMA QueueTasks ==
    ASSUME StateOK
    PROVE  \A i \in DOMAIN m_fibers : m_fibers[i].task \in Tasks
<1>1. \A i \in DOMAIN m_fibers : m_fibers[i] \in Item
  BY DEF StateOK
<1> QED  BY <1>1 DEF Item

\* A step of a thread with no task in hand that leaves tasks and queue alone.
LEMMA OutsideLemma ==
    ASSUME ReadyInv, NEW t \in Threads, NEW label,
           pc[t] \notin Holding, label \notin Holding, pc' = [pc EXCEPT ![t] = label],
           UNCHANGED <<m_fibers, submits, status, onStack, armed, ended, ft, failed>>
    PROVE  Quiet' /\ OnePlace' /\ FreshOK' /\ QueueOK' /\ HandStatusOK' /\ StackOK'
<1>1. \A u \in Threads : pc'[u] = IF u = t THEN label ELSE pc[u]
  BY DEF ReadyInv, TypeInv, StateOK
<1>2. Quiet'
  BY <1>1 DEF ReadyInv, Quiet, Holding, Counted
<1>3. OnePlace'
  BY <1>1 DEF ReadyInv, OnePlace
<1>4. FreshOK'
  BY <1>1 DEF ReadyInv, FreshOK
<1>5. QueueOK'
  BY DEF ReadyInv, QueueOK
<1>6. HandStatusOK'
  BY <1>1 DEF ReadyInv, HandStatusOK, HandStatus, Holding, Counted
<1>7. StackOK'
  BY <1>1 DEF ReadyInv, StackOK, OnStackLabels, Holding, Counted
<1> QED  BY <1>2, <1>3, <1>4, <1>5, <1>6, <1>7

\* A step of a thread with a task in hand leaves the other threads' tasks alone.
LEMMA OthersLemma ==
    ASSUME ReadyInv, NEW t \in Threads, pc[t] \in Holding, NEW u \in Threads, u # t,
           pc[u] \in Holding
    PROVE  ft[u] # ft[t]
  BY DEF ReadyInv, OnePlace

\* A step of a thread that keeps its task in hand and touches only that task.
LEMMA InsideLemma ==
    ASSUME ReadyInv, NEW t \in Threads, NEW label, pc' = [pc EXCEPT ![t] = label],
           pc[t] \in Holding, label \in Holding \ {"hold", "outHold", "postHold"},
           UNCHANGED <<m_fibers, submits, armed, ft, failed>>,
           \A k \in Tasks : k # ft[t] => status'[k] = status[k]
                                        /\ (k \in ended' <=> k \in ended),
           onStack' = [onStack EXCEPT ![ft[t]] =
                         IF label \in OnStackLabels THEN @ \cup {t} ELSE @ \ {t}],
           HandStatus(t)'
    PROVE  Quiet' /\ OnePlace' /\ FreshOK' /\ QueueOK' /\ HandStatusOK' /\ StackOK'
<1>1. /\ \A u \in Threads : pc'[u] = IF u = t THEN label ELSE pc[u]
      /\ ft[t] \in Tasks
  BY DEF ReadyInv, TypeInv, StateOK, HandOK
<1>2. Quiet'
  BY <1>1 DEF ReadyInv, Quiet
<1>3. \A i \in DOMAIN m_fibers : m_fibers[i].task \in Tasks /\ m_fibers[i].task # ft[t]
  BY QueueTasks DEF ReadyInv, TypeInv, OnePlace
<1>4. OnePlace'
  BY <1>1, <1>3 DEF ReadyInv, OnePlace
<1>5. FreshOK'
  BY <1>1 DEF ReadyInv, FreshOK
<1>6. QueueOK'
  BY <1>3 DEF ReadyInv, QueueOK
<1>7. HandStatusOK'
  <2>1. ASSUME NEW u \in Threads, u # t PROVE HandStatus(u)'
    <3>1. CASE pc[u] \in Holding
      <4>1. ft[u] \in Tasks /\ ft[u] # ft[t]
        BY <2>1, <3>1, OthersLemma DEF ReadyInv, TypeInv, HandOK
      <4>2. /\ pc'[u] = pc[u] /\ ft'[u] = ft[u]
            /\ status'[ft'[u]] = status[ft[u]] /\ (ft'[u] \in ended' <=> ft[u] \in ended)
        BY <1>1, <2>1, <4>1
      <4>3. HandStatus(u)
        BY DEF ReadyInv, HandStatusOK
      <4> QED  BY <4>2, <4>3 DEF HandStatus
    <3>2. CASE pc[u] \notin Holding
      BY <1>1, <2>1, <3>2 DEF HandStatus, Holding, Counted
    <3> QED  BY <3>1, <3>2
  <2> QED  BY <2>1 DEF HandStatusOK
<1>8. StackOK'
  <2> SUFFICES ASSUME NEW k \in Tasks, NEW u \in Threads
               PROVE  (u \in onStack[k] <=> ft[u] = k /\ pc[u] \in OnStackLabels)'
    BY DEF StackOK
  <2>1. u \in onStack[k] <=> ft[u] = k /\ pc[u] \in OnStackLabels
    BY DEF ReadyInv, StackOK
  <2>2. CASE u = t /\ k = ft[t]
    BY <1>1, <2>2 DEF ReadyInv, TypeInv, StateOK
  <2>3. CASE k # ft[t]
    <3>1. onStack'[k] = onStack[k]
      BY <2>3, <1>1 DEF ReadyInv, TypeInv, StateOK
    <3> QED  BY <1>1, <2>1, <2>3, <3>1
  <2>4. CASE u # t /\ k = ft[t]
    <3>1. u \in onStack'[k] <=> u \in onStack[k]
      BY <2>4, <1>1 DEF ReadyInv, TypeInv, StateOK
    <3> QED  BY <1>1, <2>1, <2>4, <3>1
  <2> QED  BY <2>2, <2>3, <2>4
<1> QED  BY <1>2, <1>4, <1>5, <1>6, <1>7, <1>8

\* What the queue holds after a task was appended.
LEMMA AppendLemma ==
    ASSUME StateOK, NEW e, m_fibers' = Append(m_fibers, e)
    PROVE  \A j \in DOMAIN m_fibers' :
             \/ j \in DOMAIN m_fibers /\ m_fibers'[j] = m_fibers[j]
             \/ j = Len(m_fibers) + 1 /\ m_fibers'[j] = e
  BY DEF StateOK

\* ReadyInv is inductive when tasks only yield to READY.
LEMMA NextReadyInv == ReadyOnly /\ ReadyInv /\ [Next]_vars => ReadyInv'
<1> SUFFICES ASSUME ReadyOnly, ReadyInv, [Next]_vars
             PROVE  Quiet' /\ OnePlace' /\ FreshOK' /\ QueueOK' /\ HandStatusOK' /\ StackOK'
  BY NextTypeInv DEF ReadyInv
<1> USE DEF Goto, Loop, Enqueue, fiberVars, queueVars, stopVars, threadVars
<1>main. Main \in Threads
  BY DEF Threads
<1>type. TypeInv /\ StateOK /\ HandOK
  BY DEF ReadyInv, TypeInv
<1> USE <1>type
<1>quiet. /\ failed = "none" /\ armed = {} /\ MayHold = {} /\ MayThrow = {}
          /\ \A t \in Threads : pc[t] \notin {"hold", "outHold", "postHold"}
  BY DEF ReadyInv, Quiet, ReadyOnly
<1>stack. \A t \in Threads : pc[t] \in {"swapIn", "enter"} =>
            status[ft[t]] # "EXEC" /\ onStack[ft[t]] = {}
  <2> SUFFICES ASSUME NEW t \in Threads, pc[t] \in {"swapIn", "enter"}
               PROVE  status[ft[t]] # "EXEC" /\ onStack[ft[t]] = {}
    OBVIOUS
  <2>1. pc[t] \in Holding /\ ft[t] \in Tasks
    BY DEF HandOK, Holding, Counted
  <2>2. \A u \in Threads : u \notin onStack[ft[t]]
    <3> SUFFICES ASSUME NEW u \in Threads, u \in onStack[ft[t]] PROVE FALSE
      OBVIOUS
    <3>1. ft[u] = ft[t] /\ pc[u] \in OnStackLabels
      BY <2>1 DEF ReadyInv, StackOK
    <3>2. pc[u] \in Holding /\ u # t
      BY <3>1 DEF OnStackLabels, Holding, Counted
    <3> QED  BY <2>1, <3>1, <3>2, OthersLemma
  <2>3. onStack[ft[t]] \subseteq Threads
    BY <2>1 DEF StateOK
  <2>4. status[ft[t]] # "EXEC"
    BY DEF ReadyInv, HandStatusOK, HandStatus
  <2> QED  BY <2>2, <2>3, <2>4
<1>user. \A t \in Threads : pc[t] = "user" => status[ft[t]] = "EXEC"
  BY DEF ReadyInv, HandStatusOK, HandStatus
<1>0. CASE UNCHANGED vars
  BY <1>0 DEF vars, ReadyInv, Quiet, OnePlace, FreshOK, QueueOK, HandStatusOK, HandStatus,
     StackOK
<1>1. CASE Start
  <2>1. /\ \A t \in Threads : pc[t] = "new" /\ pc'[t] \in {"app", "pop"}
        /\ UNCHANGED <<m_fibers, submits, status, onStack, armed, ended, ft, failed>>
    BY <1>1 DEF Start
  <2>2. Quiet'
    BY <2>1 DEF ReadyInv, Quiet
  <2>3. OnePlace'
    BY <2>1 DEF ReadyInv, OnePlace, Holding, Counted
  <2>4. FreshOK'
    BY <2>1 DEF ReadyInv, FreshOK, Holding, Counted
  <2>5. QueueOK'
    BY <2>1 DEF ReadyInv, QueueOK
  <2>6. HandStatusOK'
    BY <2>1 DEF ReadyInv, HandStatusOK, HandStatus
  <2>7. StackOK'
    BY <2>1 DEF ReadyInv, StackOK, OnStackLabels
  <2> QED  BY <2>2, <2>3, <2>4, <2>5, <2>6, <2>7
<1>2. CASE StopRequest
  <2>1. /\ pc[Main] = "app" /\ \E label \in {"stop1"} : pc' = [pc EXCEPT ![Main] = label]
        /\ UNCHANGED <<m_fibers, submits, status, onStack, armed, ended, ft, failed>>
    BY <1>2 DEF StopRequest
  <2> QED  BY <2>1, <1>main, OutsideLemma DEF Holding, Counted
<1>3. CASE StopStep
  <2>1. CASE StopStore
    <3>1. /\ pc[Main] = "stop1"
          /\ \E label \in {"stopQ", "join"} : pc' = [pc EXCEPT ![Main] = label]
          /\ UNCHANGED <<m_fibers, submits, status, onStack, armed, ended, ft, failed>>
      BY <2>1 DEF StopStore
    <3> QED  BY <3>1, <1>main, OutsideLemma DEF Holding, Counted
  <2>2. CASE StopProbe
    <3>1. pc[Main] = "stopQ" /\ StoppingProbe(Main, "stopA", "pop")
      BY <2>2 DEF StopProbe
    <3>2. /\ \E label \in {"stopA", "pop"} : pc' = [pc EXCEPT ![Main] = label]
          /\ UNCHANGED <<m_fibers, submits, status, onStack, armed, ended, ft, failed>>
      BY <3>1, ProbeLemma
    <3> QED  BY <3>1, <3>2, <1>main, OutsideLemma DEF Holding, Counted
  <2>3. CASE StopDecide
    <3>1. /\ pc[Main] = "stopA"
          /\ \E label \in {"pop", "stopped", "join"} : pc' = [pc EXCEPT ![Main] = label]
          /\ UNCHANGED <<m_fibers, submits, status, onStack, armed, ended, ft, failed>>
      BY <2>3 DEF StopDecide
    <3> QED  BY <3>1, <1>main, OutsideLemma DEF Holding, Counted
  <2>4. CASE Join
    <3>1. /\ pc[Main] = "join" /\ \E label \in {"stopped"} : pc' = [pc EXCEPT ![Main] = label]
          /\ UNCHANGED <<m_fibers, submits, status, onStack, armed, ended, ft, failed>>
      BY <2>4 DEF Join
    <3> QED  BY <3>1, <1>main, OutsideLemma DEF Holding, Counted
  <2> QED  BY <1>3, <2>1, <2>2, <2>3, <2>4 DEF StopStep
<1>4. ASSUME NEW t \in Threads, Step(t)
      PROVE  Quiet' /\ OnePlace' /\ FreshOK' /\ QueueOK' /\ HandStatusOK' /\ StackOK'
  <2>1. CASE Pop(t)
    <3>1. PICK i \in DOMAIN m_fibers : /\ m_fibers' = Without(m_fibers, i)
                                       /\ ft' = [ft EXCEPT ![t] = m_fibers[i].task]
      BY <2>1 DEF Pop, Eligible
    <3> DEFINE k == m_fibers[i].task
    <3>2. /\ pc[t] = "pop" /\ pc' = [pc EXCEPT ![t] = "check"]
          /\ UNCHANGED <<submits, status, onStack, armed, ended, failed>>
      BY <2>1 DEF Pop
    <3>3. k \in Tasks /\ k \notin ended /\ status[k] \in {"INIT", "READY"}
      BY QueueTasks DEF ReadyInv, OnePlace, QueueOK
    <3>4. /\ \A u \in Threads : /\ pc'[u] = IF u = t THEN "check" ELSE pc[u]
                               /\ ft'[u] = IF u = t THEN k ELSE ft[u]
          /\ "check" \in Holding /\ "pop" \notin Holding
      BY <3>1, <3>2 DEF StateOK, Holding, Counted
    <3>5. \A j \in DOMAIN m_fibers' :
            \E h \in DOMAIN m_fibers : h # i /\ m_fibers'[j] = m_fibers[h]
      <4> SUFFICES ASSUME NEW j \in DOMAIN m_fibers'
                   PROVE  \E h \in DOMAIN m_fibers : h # i /\ m_fibers'[j] = m_fibers[h]
        OBVIOUS
      <4>1. /\ DOMAIN m_fibers' = 1..(Len(m_fibers) - 1) /\ Len(m_fibers) \in Nat
            /\ i \in 1..Len(m_fibers) /\ DOMAIN m_fibers = 1..Len(m_fibers)
        BY <3>1, WithoutLemma DEF StateOK
      <4>2. m_fibers'[j] = IF j < i THEN m_fibers[j] ELSE m_fibers[j + 1]
        BY <3>1, <4>1, WithoutLemma DEF StateOK
      <4>3. CASE j < i
        BY <4>1, <4>2, <4>3
      <4>4. CASE ~(j < i)
        <5>1. j + 1 \in DOMAIN m_fibers /\ j + 1 # i
          BY <4>1, <4>4
        <5> QED  BY <4>2, <4>4, <5>1
      <4> QED  BY <4>3, <4>4
    <3>6. \A j1, j2 \in DOMAIN m_fibers' : m_fibers'[j1].task = m_fibers'[j2].task => j1 = j2
      <4> SUFFICES ASSUME NEW j1 \in DOMAIN m_fibers', NEW j2 \in DOMAIN m_fibers',
                          m_fibers'[j1].task = m_fibers'[j2].task
                   PROVE  j1 = j2
        OBVIOUS
      <4>1. /\ DOMAIN m_fibers' = 1..(Len(m_fibers) - 1) /\ Len(m_fibers) \in Nat
            /\ i \in 1..Len(m_fibers) /\ DOMAIN m_fibers = 1..Len(m_fibers)
        BY <3>1, WithoutLemma DEF StateOK
      <4> DEFINE old(j) == IF j < i THEN j ELSE j + 1
      <4>2. m_fibers'[j1] = m_fibers[old(j1)] /\ m_fibers'[j2] = m_fibers[old(j2)]
        BY <3>1, <4>1, WithoutLemma DEF StateOK
      <4>3. old(j1) \in DOMAIN m_fibers /\ old(j2) \in DOMAIN m_fibers
        BY <4>1
      <4>4. old(j1) = old(j2)
        BY <4>2, <4>3 DEF ReadyInv, OnePlace
      <4> QED  BY <4>1, <4>4
    <3>7. Quiet'
      BY <3>2, <3>4 DEF ReadyInv, Quiet
    <3>8. \A h \in DOMAIN m_fibers : h # i => m_fibers[h].task # k
      BY DEF ReadyInv, OnePlace
    <3>9. \A u \in Threads : u # t /\ pc[u] \in Holding => ft[u] # k
      BY DEF ReadyInv, OnePlace
    <3>10. OnePlace'
      BY <3>2, <3>3, <3>4, <3>5, <3>6, <3>8, <3>9 DEF ReadyInv, OnePlace
    <3>11. FreshOK'
      BY <3>2, <3>3, <3>4, <3>5 DEF ReadyInv, FreshOK
    <3>12. QueueOK'
      BY <3>2, <3>5 DEF ReadyInv, QueueOK
    <3>13. HandStatusOK'
      <4> SUFFICES ASSUME NEW u \in Threads PROVE HandStatus(u)'
        BY DEF HandStatusOK
      <4>1. CASE u = t
        BY <4>1, <3>2, <3>3, <3>4 DEF HandStatus
      <4>2. CASE u # t
        BY <4>2, <3>2, <3>4 DEF ReadyInv, HandStatusOK, HandStatus
      <4> QED  BY <4>1, <4>2
    <3>14. StackOK'
      BY <3>2, <3>4 DEF ReadyInv, StackOK, OnStackLabels
    <3> QED  BY <3>7, <3>10, <3>11, <3>12, <3>13, <3>14
  <2>2. CASE PopNothing(t)
    <3>1. /\ pc[t] = "pop"
          /\ \E label \in {"idle", "join", "exited"} : pc' = [pc EXCEPT ![t] = label]
          /\ UNCHANGED <<m_fibers, submits, status, onStack, armed, ended, ft, failed>>
      BY <2>2 DEF PopNothing
    <3> QED  BY <3>1, <1>main, OutsideLemma DEF Holding, Counted
  <2>3. CASE Drop(t)
    <3>1. HandStatus(t) /\ pc[t] = "check" /\ status[ft[t]] \in {"TERM", "EXCEPT"}
      BY <2>3 DEF Drop, ReadyInv, HandStatusOK
    <3> QED  BY <3>1 DEF HandStatus
  <2>4. CASE Check(t)
    <3>1. /\ pc[t] = "check" /\ pc' = [pc EXCEPT ![t] = "swapIn"]
          /\ UNCHANGED <<m_fibers, submits, armed, ft, failed>>
      BY <2>4, <1>stack DEF Check
    <3>2. ft[t] \in Tasks /\ pc'[t] = "swapIn" /\ HandStatus(t)
      <4>1. ft[t] \in Tasks
        BY <3>1 DEF HandOK, Holding, Counted
      <4>2. pc'[t] = "swapIn"
        BY <3>1 DEF StateOK
      <4>3. HandStatus(t)
        BY DEF ReadyInv, HandStatusOK
      <4> QED  BY <4>1, <4>2, <4>3
    <3>3. \A k \in Tasks : k # ft[t] => status'[k] = status[k]
                                        /\ (k \in ended' <=> k \in ended)
      BY <2>4, <3>2 DEF Check
    <3>4. onStack' = [onStack EXCEPT ![ft[t]] =
                        IF "swapIn" \in OnStackLabels THEN @ \cup {t} ELSE @ \ {t}]
      <4>1. t \in onStack[ft[t]] <=> "check" \in OnStackLabels
        BY <3>1, <3>2 DEF ReadyInv, StackOK
      <4> QED  BY <2>4, <3>2, <4>1 DEF Check, StateOK, OnStackLabels
    <3>5. HandStatus(t)'
      <4>1. ft'[t] = ft[t]
        BY <3>1
      <4>2. status'[ft[t]] \in {"INIT", "READY"} /\ ft[t] \notin ended'
        BY <2>4, <3>1, <3>2 DEF Check, HandStatus, StateOK
      <4> QED  BY <3>2, <4>1, <4>2 DEF HandStatus
    <3> QED
      BY <3>1, <3>3, <3>4, <3>5, InsideLemma DEF Holding, Counted
  <2>5. CASE SwapIn(t)
    <3>1. /\ pc[t] = "swapIn" /\ pc' = [pc EXCEPT ![t] = "enter"]
          /\ UNCHANGED <<m_fibers, submits, armed, ft, failed>>
      BY <2>5, <1>stack DEF SwapIn
    <3>2. ft[t] \in Tasks /\ pc'[t] = "enter" /\ HandStatus(t)
      <4>1. ft[t] \in Tasks
        BY <3>1 DEF HandOK, Holding, Counted
      <4>2. pc'[t] = "enter"
        BY <3>1 DEF StateOK
      <4>3. HandStatus(t)
        BY DEF ReadyInv, HandStatusOK
      <4> QED  BY <4>1, <4>2, <4>3
    <3>3. \A k \in Tasks : k # ft[t] => status'[k] = status[k]
                                        /\ (k \in ended' <=> k \in ended)
      BY <2>5, <3>2 DEF SwapIn
    <3>4. onStack' = [onStack EXCEPT ![ft[t]] =
                        IF "enter" \in OnStackLabels THEN @ \cup {t} ELSE @ \ {t}]
      <4>1. t \in onStack[ft[t]] <=> "swapIn" \in OnStackLabels
        BY <3>1, <3>2 DEF ReadyInv, StackOK
      <4> QED  BY <2>5, <3>2, <4>1 DEF SwapIn, StateOK, OnStackLabels
    <3>5. HandStatus(t)'
      <4>1. ft'[t] = ft[t]
        BY <3>1
      <4>2. status'[ft[t]] \in {"INIT", "READY"} /\ ft[t] \notin ended'
        BY <2>5, <3>1, <3>2 DEF SwapIn, HandStatus, StateOK
      <4> QED  BY <3>2, <4>1, <4>2 DEF HandStatus
    <3> QED
      BY <3>1, <3>3, <3>4, <3>5, InsideLemma DEF Holding, Counted
  <2>6. CASE Enter(t)
    <3>1. /\ pc[t] = "enter" /\ pc' = [pc EXCEPT ![t] = "user"]
          /\ UNCHANGED <<m_fibers, submits, armed, ft, failed>>
      BY <2>6, <1>stack DEF Enter
    <3>2. ft[t] \in Tasks /\ pc'[t] = "user" /\ HandStatus(t)
      <4>1. ft[t] \in Tasks
        BY <3>1 DEF HandOK, Holding, Counted
      <4>2. pc'[t] = "user"
        BY <3>1 DEF StateOK
      <4>3. HandStatus(t)
        BY DEF ReadyInv, HandStatusOK
      <4> QED  BY <4>1, <4>2, <4>3
    <3>3. \A k \in Tasks : k # ft[t] => status'[k] = status[k]
                                        /\ (k \in ended' <=> k \in ended)
      BY <2>6, <3>2 DEF Enter
    <3>4. onStack' = [onStack EXCEPT ![ft[t]] =
                        IF "user" \in OnStackLabels THEN @ \cup {t} ELSE @ \ {t}]
      <4>1. t \in onStack[ft[t]] <=> "enter" \in OnStackLabels
        BY <3>1, <3>2 DEF ReadyInv, StackOK
      <4> QED  BY <2>6, <3>2, <4>1 DEF Enter, StateOK, OnStackLabels
    <3>5. HandStatus(t)'
      <4>1. ft'[t] = ft[t]
        BY <3>1
      <4>2. status'[ft[t]] = "EXEC" /\ ft[t] \notin ended'
        BY <2>6, <3>1, <3>2 DEF Enter, HandStatus, StateOK
      <4> QED  BY <3>2, <4>1, <4>2 DEF HandStatus
    <3> QED
      BY <3>1, <3>3, <3>4, <3>5, InsideLemma DEF Holding, Counted
  <2>7. CASE Finish(t)
    <3>1. /\ pc[t] = "user" /\ pc' = [pc EXCEPT ![t] = "out"]
          /\ UNCHANGED <<m_fibers, submits, armed, ft, failed>>
      BY <2>7, <1>stack DEF Finish, EndBody
    <3>2. ft[t] \in Tasks /\ pc'[t] = "out" /\ HandStatus(t)
      <4>1. ft[t] \in Tasks
        BY <3>1 DEF HandOK, Holding, Counted
      <4>2. pc'[t] = "out"
        BY <3>1 DEF StateOK
      <4>3. HandStatus(t)
        BY DEF ReadyInv, HandStatusOK
      <4> QED  BY <4>1, <4>2, <4>3
    <3>3. \A k \in Tasks : k # ft[t] => status'[k] = status[k]
                                        /\ (k \in ended' <=> k \in ended)
      BY <2>7, <3>2 DEF Finish, EndBody
    <3>4. onStack' = [onStack EXCEPT ![ft[t]] =
                        IF "out" \in OnStackLabels THEN @ \cup {t} ELSE @ \ {t}]
      <4>1. t \in onStack[ft[t]] <=> "user" \in OnStackLabels
        BY <3>1, <3>2 DEF ReadyInv, StackOK
      <4> QED  BY <2>7, <3>2, <4>1 DEF Finish, EndBody, StateOK, OnStackLabels
    <3>5. HandStatus(t)'
      <4>1. ft'[t] = ft[t]
        BY <3>1
      <4>2. status'[ft[t]] = "TERM" /\ ft[t] \in ended'
        BY <2>7, <3>1, <3>2 DEF Finish, EndBody, HandStatus, StateOK
      <4> QED  BY <3>2, <4>1, <4>2 DEF HandStatus
    <3> QED
      BY <3>1, <3>3, <3>4, <3>5, InsideLemma DEF Holding, Counted
  <2>8. CASE YieldToHold(t)
    BY <2>8, <1>quiet DEF YieldToHold
  <2>9. CASE SwapOut(t)
    <3>1. /\ pc[t] = "out" /\ pc' = [pc EXCEPT ![t] = "swap"]
          /\ UNCHANGED <<m_fibers, submits, armed, ft, failed>>
      BY <2>9 DEF SwapOut, ReadyInv, HandStatusOK, HandStatus
    <3>2. ft[t] \in Tasks /\ pc'[t] = "swap" /\ HandStatus(t)
      <4>1. ft[t] \in Tasks
        BY <3>1 DEF HandOK, Holding, Counted
      <4>2. pc'[t] = "swap"
        BY <3>1 DEF StateOK
      <4>3. HandStatus(t)
        BY DEF ReadyInv, HandStatusOK
      <4> QED  BY <4>1, <4>2, <4>3
    <3>3. \A k \in Tasks : k # ft[t] => status'[k] = status[k]
                                        /\ (k \in ended' <=> k \in ended)
      BY <2>9, <3>2 DEF SwapOut
    <3>4. onStack' = [onStack EXCEPT ![ft[t]] =
                        IF "swap" \in OnStackLabels THEN @ \cup {t} ELSE @ \ {t}]
      <4>1. t \in onStack[ft[t]] <=> "out" \in OnStackLabels
        BY <3>1, <3>2 DEF ReadyInv, StackOK
      <4> QED  BY <2>9, <3>2, <4>1 DEF SwapOut, StateOK, OnStackLabels
    <3>5. HandStatus(t)'
      <4>1. ft'[t] = ft[t]
        BY <3>1
      <4>2. \/ status'[ft[t]] = "TERM" /\ ft[t] \in ended'
            \/ status'[ft[t]] = "READY" /\ ft[t] \notin ended'
        BY <2>9, <3>1, <3>2 DEF SwapOut, HandStatus, StateOK
      <4> QED  BY <3>2, <4>1, <4>2 DEF HandStatus
    <3> QED
      BY <3>1, <3>3, <3>4, <3>5, InsideLemma DEF Holding, Counted
  <2>10. CASE SwapOutHold(t)
    BY <2>10, <1>quiet DEF SwapOutHold
  <2>11. CASE Swap(t)
    <3>1. /\ pc[t] = "swap" /\ pc' = [pc EXCEPT ![t] = "sub"]
          /\ UNCHANGED <<m_fibers, submits, armed, ft, failed>>
      BY <2>11, <1>stack DEF Swap
    <3>2. ft[t] \in Tasks /\ pc'[t] = "sub" /\ HandStatus(t)
      <4>1. ft[t] \in Tasks
        BY <3>1 DEF HandOK, Holding, Counted
      <4>2. pc'[t] = "sub"
        BY <3>1 DEF StateOK
      <4>3. HandStatus(t)
        BY DEF ReadyInv, HandStatusOK
      <4> QED  BY <4>1, <4>2, <4>3
    <3>3. \A k \in Tasks : k # ft[t] => status'[k] = status[k]
                                        /\ (k \in ended' <=> k \in ended)
      BY <2>11, <3>2 DEF Swap
    <3>4. onStack' = [onStack EXCEPT ![ft[t]] =
                        IF "sub" \in OnStackLabels THEN @ \cup {t} ELSE @ \ {t}]
      <4>1. t \in onStack[ft[t]] <=> "swap" \in OnStackLabels
        BY <3>1, <3>2 DEF ReadyInv, StackOK
      <4> QED  BY <2>11, <3>2, <4>1 DEF Swap, StateOK, OnStackLabels
    <3>5. HandStatus(t)'
      <4>1. ft'[t] = ft[t]
        BY <3>1
      <4>2. \/ status'[ft[t]] = "TERM" /\ ft[t] \in ended'
            \/ status'[ft[t]] = "READY" /\ ft[t] \notin ended'
        BY <2>11, <3>1, <3>2 DEF Swap, HandStatus, StateOK
      <4> QED  BY <3>2, <4>1, <4>2 DEF HandStatus
    <3> QED
      BY <3>1, <3>3, <3>4, <3>5, InsideLemma DEF Holding, Counted
  <2>12. CASE FetchSub(t)
    <3>1. /\ pc[t] = "sub" /\ pc' = [pc EXCEPT ![t] = "post"]
          /\ UNCHANGED <<m_fibers, submits, armed, ft, failed>>
      BY <2>12, <1>stack DEF FetchSub
    <3>2. ft[t] \in Tasks /\ pc'[t] = "post" /\ HandStatus(t)
      <4>1. ft[t] \in Tasks
        BY <3>1 DEF HandOK, Holding, Counted
      <4>2. pc'[t] = "post"
        BY <3>1 DEF StateOK
      <4>3. HandStatus(t)
        BY DEF ReadyInv, HandStatusOK
      <4> QED  BY <4>1, <4>2, <4>3
    <3>3. \A k \in Tasks : k # ft[t] => status'[k] = status[k]
                                        /\ (k \in ended' <=> k \in ended)
      BY <2>12, <3>2 DEF FetchSub
    <3>4. onStack' = [onStack EXCEPT ![ft[t]] =
                        IF "post" \in OnStackLabels THEN @ \cup {t} ELSE @ \ {t}]
      <4>1. t \in onStack[ft[t]] <=> "sub" \in OnStackLabels
        BY <3>1, <3>2 DEF ReadyInv, StackOK
      <4> QED  BY <2>12, <3>2, <4>1 DEF FetchSub, StateOK, OnStackLabels
    <3>5. HandStatus(t)'
      <4>1. ft'[t] = ft[t]
        BY <3>1
      <4>2. \/ status'[ft[t]] = "TERM" /\ ft[t] \in ended'
            \/ status'[ft[t]] = "READY" /\ ft[t] \notin ended'
        BY <2>12, <3>1, <3>2 DEF FetchSub, HandStatus, StateOK
      <4> QED  BY <3>2, <4>1, <4>2 DEF HandStatus
    <3> QED
      BY <3>1, <3>3, <3>4, <3>5, InsideLemma DEF Holding, Counted
  <2>13. CASE PostReady(t)
    <3>1. /\ pc[t] = "post" /\ pc' = [pc EXCEPT ![t] = "resched"]
          /\ UNCHANGED <<m_fibers, submits, armed, ft, failed>>
      BY <2>13, <1>stack DEF PostReady
    <3>2. ft[t] \in Tasks /\ pc'[t] = "resched" /\ HandStatus(t)
      <4>1. ft[t] \in Tasks
        BY <3>1 DEF HandOK, Holding, Counted
      <4>2. pc'[t] = "resched"
        BY <3>1 DEF StateOK
      <4>3. HandStatus(t)
        BY DEF ReadyInv, HandStatusOK
      <4> QED  BY <4>1, <4>2, <4>3
    <3>3. \A k \in Tasks : k # ft[t] => status'[k] = status[k]
                                        /\ (k \in ended' <=> k \in ended)
      BY <2>13, <3>2 DEF PostReady
    <3>4. onStack' = [onStack EXCEPT ![ft[t]] =
                        IF "resched" \in OnStackLabels THEN @ \cup {t} ELSE @ \ {t}]
      <4>1. t \in onStack[ft[t]] <=> "post" \in OnStackLabels
        BY <3>1, <3>2 DEF ReadyInv, StackOK
      <4> QED  BY <2>13, <3>2, <4>1 DEF PostReady, StateOK, OnStackLabels
    <3>5. HandStatus(t)'
      <4>1. ft'[t] = ft[t]
        BY <3>1
      <4>2. status'[ft[t]] = "READY" /\ ft[t] \notin ended'
        BY <2>13, <3>1, <3>2 DEF PostReady, HandStatus, StateOK
      <4> QED  BY <3>2, <4>1, <4>2 DEF HandStatus
    <3> QED
      BY <3>1, <3>3, <3>4, <3>5, InsideLemma DEF Holding, Counted
  <2>14. CASE PostDone(t)
    <3>1. /\ pc[t] = "post" /\ pc' = [pc EXCEPT ![t] = "pop"] /\ ft' = [ft EXCEPT ![t] = NoTask]
          /\ UNCHANGED <<submits, status, onStack, armed, ended, failed>>
      BY <2>14 DEF PostDone
    <3>2. /\ ft[t] \in Tasks /\ pc[t] \in Holding /\ "pop" \notin Holding
          /\ \A u \in Threads : /\ pc'[u] = IF u = t THEN "pop" ELSE pc[u]
                               /\ ft'[u] = IF u = t THEN NoTask ELSE ft[u]
      BY <3>1 DEF StateOK, HandOK, Holding, Counted
    <3>3. Quiet'
      BY <3>1, <3>2 DEF ReadyInv, Quiet
    <3>4. HandStatusOK'
      <4> SUFFICES ASSUME NEW u \in Threads PROVE HandStatus(u)'
        BY DEF HandStatusOK
      <4>1. CASE u = t
        BY <4>1, <3>2 DEF HandStatus
      <4>2. CASE u # t
        BY <4>2, <3>1, <3>2 DEF ReadyInv, HandStatusOK, HandStatus
      <4> QED  BY <4>1, <4>2
    <3>5. StackOK'
      BY <3>1, <3>2 DEF ReadyInv, StackOK, OnStackLabels
    <3>6. m_fibers' = m_fibers
      BY <2>14 DEF PostDone
    <3>7. OnePlace'
      BY <3>1, <3>2, <3>6 DEF ReadyInv, OnePlace
    <3>8. FreshOK'
      BY <3>1, <3>2, <3>6 DEF ReadyInv, FreshOK
    <3>9. QueueOK'
      BY <3>1, <3>6 DEF ReadyInv, QueueOK
    <3> QED  BY <3>3, <3>4, <3>5, <3>7, <3>8, <3>9
  <2>15. CASE PostOther(t)
    <3>1. HandStatus(t) /\ pc[t] = "post" /\ status[ft[t]] \notin {"READY", "TERM", "EXCEPT"}
      BY <2>15 DEF PostOther, ReadyInv, HandStatusOK
    <3> QED  BY <3>1 DEF HandStatus
  <2>16. CASE Reschedule(t)
    <3>1. /\ pc[t] = "resched" /\ pc' = [pc EXCEPT ![t] = "pop"] /\ ft' = [ft EXCEPT ![t] = NoTask]
          /\ UNCHANGED <<submits, status, onStack, armed, ended, failed>>
      BY <2>16 DEF Reschedule
    <3>2. /\ ft[t] \in Tasks /\ pc[t] \in Holding /\ "pop" \notin Holding
          /\ \A u \in Threads : /\ pc'[u] = IF u = t THEN "pop" ELSE pc[u]
                               /\ ft'[u] = IF u = t THEN NoTask ELSE ft[u]
      BY <3>1 DEF StateOK, HandOK, Holding, Counted
    <3>3. Quiet'
      BY <3>1, <3>2 DEF ReadyInv, Quiet
    <3>4. HandStatusOK'
      <4> SUFFICES ASSUME NEW u \in Threads PROVE HandStatus(u)'
        BY DEF HandStatusOK
      <4>1. CASE u = t
        BY <4>1, <3>2 DEF HandStatus
      <4>2. CASE u # t
        BY <4>2, <3>1, <3>2 DEF ReadyInv, HandStatusOK, HandStatus
      <4> QED  BY <4>1, <4>2
    <3>5. StackOK'
      BY <3>1, <3>2 DEF ReadyInv, StackOK, OnStackLabels
    <3>6. /\ m_fibers' = Append(m_fibers, [task |-> ft[t], thr |-> AnyThread])
          /\ status[ft[t]] = "READY" /\ ft[t] \notin ended
      BY <2>16, <3>1 DEF Reschedule, ReadyInv, HandStatusOK, HandStatus
    <3>7. \A u \in Threads : u # t /\ pc[u] \in Holding => ft[u] # ft[t]
      BY <3>2, OthersLemma
    <3>8. \A i \in DOMAIN m_fibers : m_fibers[i].task # ft[t]
      BY <3>2 DEF ReadyInv, OnePlace
    <3>9. OnePlace'
      BY <3>1, <3>2, <3>6, <3>7, <3>8, AppendLemma DEF ReadyInv, OnePlace
    <3>10. FreshOK'
      BY <3>1, <3>2, <3>6, AppendLemma DEF ReadyInv, FreshOK
    <3>11. QueueOK'
      BY <3>1, <3>6, AppendLemma DEF ReadyInv, QueueOK
    <3> QED  BY <3>3, <3>4, <3>5, <3>9, <3>10, <3>11
  <2>17. CASE PostHold(t)
    BY <2>17, <1>quiet DEF PostHold
  <2>18. CASE SpinIdleExit(t)
    <3>1. /\ pc[t] = "idle" /\ \E label \in {"pop"} : pc' = [pc EXCEPT ![t] = label]
          /\ UNCHANGED <<m_fibers, submits, status, onStack, armed, ended, ft, failed>>
      BY <2>18 DEF SpinIdleExit
    <3> QED  BY <3>1, <1>main, OutsideLemma DEF Holding, Counted
  <2>19. CASE IdleProbe(t)
    <3>1. pc[t] = "idle" /\ StoppingProbe(t, "idleDecide", "pop")
      BY <2>19 DEF IdleProbe
    <3>2. /\ \E label \in {"idleDecide", "pop"} : pc' = [pc EXCEPT ![t] = label]
          /\ UNCHANGED <<m_fibers, submits, status, onStack, armed, ended, ft, failed>>
      BY <3>1, ProbeLemma
    <3> QED  BY <3>1, <3>2, <1>main, OutsideLemma DEF Holding, Counted
  <2>20. CASE IdleDecide(t)
    <3>1. /\ pc[t] = "idleDecide" /\ \E label \in {"pop"} : pc' = [pc EXCEPT ![t] = label]
          /\ UNCHANGED <<m_fibers, submits, status, onStack, armed, ended, ft, failed>>
      BY <2>20 DEF IdleDecide
    <3> QED  BY <3>1, <1>main, OutsideLemma DEF Holding, Counted
  <2> QED
    BY <1>4, <2>1, <2>2, <2>3, <2>4, <2>5, <2>6, <2>7, <2>8, <2>9, <2>10, <2>11, <2>12,
       <2>13, <2>14, <2>15, <2>16, <2>17, <2>18, <2>19, <2>20 DEF Step
<1>5. ASSUME NEW t \in Threads, Throw(t) PROVE FALSE
  BY <1>5, <1>quiet DEF Throw
<1>6. ASSUME NEW t \in Threads, YieldToReady(t)
      PROVE  Quiet' /\ OnePlace' /\ FreshOK' /\ QueueOK' /\ HandStatusOK' /\ StackOK'
  <2>1. /\ pc[t] = "user" /\ pc' = [pc EXCEPT ![t] = "out"]
        /\ UNCHANGED <<m_fibers, submits, armed, ft, failed>>
    BY <1>6, <1>user DEF YieldToReady, Yield, HandStatus
  <2>2. ft[t] \in Tasks /\ pc'[t] = "out" /\ HandStatus(t)
    <3>1. ft[t] \in Tasks
      BY <2>1 DEF HandOK, Holding, Counted
    <3>2. pc'[t] = "out"
      BY <2>1 DEF StateOK
    <3>3. HandStatus(t)
      BY DEF ReadyInv, HandStatusOK
    <3> QED  BY <3>1, <3>2, <3>3
  <2>3. \A k \in Tasks : k # ft[t] => status'[k] = status[k]
                                      /\ (k \in ended' <=> k \in ended)
    BY <1>6, <1>user, <2>1, <2>2 DEF YieldToReady, Yield, StateOK
  <2>4. onStack' = [onStack EXCEPT ![ft[t]] =
                      IF "out" \in OnStackLabels THEN @ \cup {t} ELSE @ \ {t}]
    <3>1. t \in onStack[ft[t]] <=> "user" \in OnStackLabels
      BY <2>1, <2>2 DEF ReadyInv, StackOK
    <3> QED  BY <1>6, <2>2, <3>1 DEF YieldToReady, Yield, StateOK, OnStackLabels
  <2>5. HandStatus(t)'
    <3>1. ft'[t] = ft[t]
      BY <2>1
    <3>2. status'[ft[t]] = "READY" /\ ft[t] \notin ended'
      BY <1>6, <2>1, <2>2 DEF YieldToReady, Yield, HandStatus, StateOK
    <3> QED  BY <2>2, <3>1, <3>2 DEF HandStatus
  <2> QED
    BY <2>1, <2>3, <2>4, <2>5, InsideLemma DEF Holding, Counted
<1>7. ASSUME NEW t \in Threads, Register(t) PROVE FALSE
  BY <1>7, <1>quiet DEF Register
<1>8. ASSUME NEW t \in Threads, NEW k \in Tasks, Submit(t, k)
      PROVE  Quiet' /\ OnePlace' /\ FreshOK' /\ QueueOK' /\ HandStatusOK' /\ StackOK'
  <2>1. /\ m_fibers' = Append(m_fibers, [task |-> k, thr |-> Pin[k]])
        /\ submits' = [submits EXCEPT ![k] = @ + 1]
        /\ UNCHANGED <<pc, ft, status, onStack, armed, ended, failed>>
    BY <1>8 DEF Submit
  <2>2. /\ submits[k] = 0 /\ submits'[k] = 1
        /\ \A h \in Tasks : h # k => submits'[h] = submits[h]
    <3>1. submits[k] \in Nat /\ MaxSubmits[k] \in Nat /\ MaxSubmits[k] <= 1
      BY ConstantsAssumption DEF ReadyOnly, StateOK
    <3>2. submits[k] < MaxSubmits[k]
      BY <1>8 DEF Submit
    <3>3. submits[k] = 0
      BY <3>1, <3>2
    <3> QED  BY <2>1, <3>3 DEF StateOK
  <2>3. /\ status[k] = "INIT" /\ k \notin ended
        /\ \A i \in DOMAIN m_fibers : m_fibers[i].task # k
        /\ \A u \in Threads : pc[u] \in Holding => ft[u] # k
    BY <2>2 DEF ReadyInv, FreshOK
  <2>4. Quiet' /\ HandStatusOK' /\ StackOK'
    BY <2>1 DEF ReadyInv, Quiet, HandStatusOK, HandStatus, StackOK
  <2>5. OnePlace'
    BY <2>1, <2>3, AppendLemma DEF ReadyInv, OnePlace
  <2>6. FreshOK'
    BY <2>1, <2>2, AppendLemma DEF ReadyInv, FreshOK
  <2>7. QueueOK'
    BY <2>1, <2>3, AppendLemma DEF ReadyInv, QueueOK
  <2> QED  BY <2>4, <2>5, <2>6, <2>7
<1>9. ASSUME NEW k \in Tasks, Wake(k) PROVE FALSE
  BY <1>9, <1>quiet DEF Wake
<1> QED
  BY <1>0, <1>1, <1>2, <1>3, <1>4, <1>5, <1>6, <1>7, <1>8, <1>9 DEF Next

LEMMA InitReadyInv == Init => ReadyInv
<1> SUFFICES ASSUME Init PROVE ReadyInv
  OBVIOUS
<1>1. TypeInv
  BY InitTypeInv
<1>2. Quiet /\ FreshOK
  BY DEF Init, Quiet, FreshOK, Holding, Counted
<1>3. DOMAIN m_fibers = {}
  BY DEF Init
<1>4. OnePlace /\ QueueOK
  BY <1>3 DEF Init, OnePlace, QueueOK, Holding, Counted
<1>5. HandStatusOK /\ StackOK
  BY DEF Init, HandStatusOK, HandStatus, StackOK, OnStackLabels
<1> QED  BY <1>1, <1>2, <1>4, <1>5 DEF ReadyInv

\* When every task only yields to READY and is scheduled once, no two
\* threads are ever on one fiber's stack.
THEOREM ReadyTasksExclusive == ASSUME ReadyOnly PROVE Spec => []OneThreadPerStack
<1>1. ReadyInv => OneThreadPerStack
  <2> SUFFICES ASSUME ReadyInv PROVE OneThreadPerStack
    OBVIOUS
  <2>1. failed # "stack"
    BY DEF ReadyInv, Quiet
  <2>2. ASSUME NEW k \in Tasks, NEW t \in onStack[k], NEW u \in onStack[k] PROVE t = u
    <3>1. t \in Threads /\ u \in Threads
      BY DEF ReadyInv, TypeInv, StateOK
    <3>2. ft[t] = k /\ ft[u] = k /\ pc[t] \in Holding /\ pc[u] \in Holding
      BY <3>1 DEF ReadyInv, StackOK, OnStackLabels, Holding, Counted
    <3> QED  BY <3>1, <3>2 DEF ReadyInv, OnePlace
  <2> QED  BY <2>1, <2>2 DEF OneThreadPerStack
<1>2. ReadyInv /\ [Next]_vars => ReadyInv'
  BY NextReadyInv
<1> QED  BY <1>1, <1>2, InitReadyInv, PTL DEF Spec

\* Under the same hypothesis no assertion fails and every task is in one place.
THEOREM ReadyTasksOnePlace == ASSUME ReadyOnly PROVE Spec => [](failed = "none" /\ OnePlace)
<1>1. ReadyInv => failed = "none" /\ OnePlace
  BY DEF ReadyInv, Quiet
<1>2. ReadyInv /\ [Next]_vars => ReadyInv'
  BY NextReadyInv
<1> QED  BY <1>1, <1>2, InitReadyInv, PTL DEF Spec

-----------------------------------------------------------------------------
(* Pinned tasks, of any kind *)

\* What has not yielded yet is queued with its pin, and in the hands of the
\* thread it is pinned to.
QueuePinned ==
    \A i \in DOMAIN m_fibers :
        yields[m_fibers[i].task] = 0 => m_fibers[i].thr = Pin[m_fibers[i].task]
HandPinned ==
    \A t \in Threads :
        (pc[t] \in Holding /\ yields[ft[t]] = 0) => Pin[ft[t]] \in {AnyThread, t}

\* What is scheduled again without its pin has yielded.
Yielded ==
    /\ \A k \in Tasks : status[k] = "READY" \/ k \in armed => yields[k] # 0
    /\ \A t \in Threads : pc[t] = "resched" => yields[ft[t]] # 0

PinInv == QueuePinned /\ HandPinned /\ Yielded /\ FirstRunPinned

\* A step that neither queues nor takes a task, nor makes one READY.
Calm ==
    /\ UNCHANGED <<m_fibers, yields>>
    /\ armed' \subseteq armed
    /\ \A k \in Tasks : status'[k] = "READY" => status[k] = "READY"
    /\ \A k \in Tasks : onStack'[k] \subseteq onStack[k]
    /\ \A t \in Threads : pc'[t] \in Holding => pc[t] \in Holding /\ ft'[t] = ft[t]
    /\ \A t \in Threads :
        pc'[t] = "resched" => pc[t] = "resched" \/ (pc[t] \in Holding /\ status[ft[t]] = "READY")

LEMMA CalmKeepsPins == TypeInv /\ PinInv /\ Calm => PinInv'
<1> SUFFICES ASSUME TypeInv, PinInv, Calm PROVE PinInv'
  OBVIOUS
<1>1. QueuePinned' /\ HandPinned'
  BY DEF PinInv, QueuePinned, HandPinned, Calm
<1>2. Yielded'
  BY DEF TypeInv, HandOK, PinInv, Yielded, Calm, Holding, Counted
<1>3. FirstRunPinned'
  BY DEF PinInv, FirstRunPinned, Calm
<1> QED  BY <1>1, <1>2, <1>3 DEF PinInv

\* Most steps are of this kind.
LEMMA CalmSteps ==
    ASSUME TypeInv, NEW t \in Threads,
           \/ PopNothing(t) \/ Drop(t) \/ Check(t) \/ SwapIn(t) \/ Finish(t) \/ Throw(t)
           \/ YieldToHold(t) \/ SwapOut(t) \/ SwapOutHold(t) \/ Swap(t) \/ FetchSub(t)
           \/ PostReady(t) \/ PostDone(t) \/ PostOther(t) \/ PostHold(t)
           \/ SpinIdleExit(t) \/ IdleProbe(t) \/ IdleDecide(t)
    PROVE  Calm
<1> USE DEF TypeInv, StateOK, HandOK, Calm, Goto, Loop, Holding, Counted, queueVars, fiberVars
<1>1. CASE PopNothing(t) \/ SpinIdleExit(t) \/ IdleDecide(t)
  BY <1>1 DEF PopNothing, SpinIdleExit, IdleDecide
<1>2. CASE IdleProbe(t)
  BY <1>2, ProbeLemma DEF IdleProbe
<1>3. CASE Drop(t) \/ PostDone(t)
  BY <1>3 DEF Drop, PostDone
<1>4. CASE Check(t) \/ SwapIn(t)
  BY <1>4 DEF Check, SwapIn
<1>5. CASE Finish(t) \/ Throw(t)
  BY <1>5 DEF Finish, Throw, EndBody
<1>6. CASE YieldToHold(t)
  BY <1>6 DEF YieldToHold, Yield
<1>7. CASE SwapOut(t) \/ SwapOutHold(t) \/ Swap(t)
  BY <1>7 DEF SwapOut, SwapOutHold, Swap
<1>8. CASE FetchSub(t) \/ PostReady(t) \/ PostOther(t)
  BY <1>8 DEF FetchSub, PostReady, PostOther
<1>9. CASE PostHold(t)
  BY <1>9 DEF PostHold
<1> QED  BY <1>1, <1>2, <1>3, <1>4, <1>5, <1>6, <1>7, <1>8, <1>9

\* PinInv is inductive, whatever tasks do.
LEMMA NextPinInv == TypeInv /\ PinInv /\ [Next]_vars => PinInv'
<1> SUFFICES ASSUME TypeInv, PinInv, [Next]_vars PROVE PinInv'
  OBVIOUS
<1> USE DEF Goto, Loop, Enqueue, fiberVars, queueVars, stopVars, threadVars
<1>main. Main \in Threads
  BY DEF Threads
<1>1. CASE UNCHANGED vars
  <2>1. Calm
    BY <1>1 DEF vars, Calm
  <2> QED  BY <2>1, CalmKeepsPins
<1>2. CASE Start \/ StopRequest \/ StopStep
  <2>1. CASE Start
    BY <2>1, CalmKeepsPins DEF Start, Calm, Holding, Counted
  <2>2. CASE StopRequest \/ StopStore \/ StopDecide \/ Join
    <3>1. Calm
      BY <2>2, <1>main DEF StopRequest, StopStore, StopDecide, Join, Calm, Holding, Counted,
                           TypeInv, StateOK
    <3> QED  BY <3>1, CalmKeepsPins
  <2>3. CASE StopProbe
    <3>1. Calm
      BY <2>3, <1>main, ProbeLemma DEF StopProbe, Calm, Holding, Counted, TypeInv, StateOK
    <3> QED  BY <3>1, CalmKeepsPins
  <2> QED  BY <1>2, <2>1, <2>2, <2>3 DEF StopStep
<1>3. ASSUME NEW t \in Threads, Pop(t) PROVE PinInv'
  <2>1. PICK i \in Eligible(t) :
          m_fibers' = Without(m_fibers, i) /\ ft' = [ft EXCEPT ![t] = m_fibers[i].task]
    BY <1>3 DEF Pop
  <2>2. /\ i \in DOMAIN m_fibers /\ m_fibers \in Seq(Item) /\ m_fibers[i] \in Item
        /\ m_fibers[i].thr \in {AnyThread, t}
    BY <2>1 DEF Eligible, TypeInv, StateOK
  <2>3. \A j \in DOMAIN m_fibers' : \E n \in DOMAIN m_fibers : m_fibers'[j] = m_fibers[n]
    <3>1. /\ Len(m_fibers') = Len(m_fibers) - 1 /\ m_fibers' \in Seq(Item)
          /\ \A j \in 1..(Len(m_fibers) - 1) :
                m_fibers'[j] = IF j < i THEN m_fibers[j] ELSE m_fibers[j + 1]
      BY <2>1, <2>2, WithoutLemma
    <3>2. ASSUME NEW j \in DOMAIN m_fibers'
          PROVE  \E n \in DOMAIN m_fibers : m_fibers'[j] = m_fibers[n]
      <4>1. j \in 1..(Len(m_fibers) - 1) /\ j \in DOMAIN m_fibers /\ j + 1 \in DOMAIN m_fibers
        BY <3>1, <2>2
      <4> QED  BY <3>1, <4>1
    <3> QED  BY <3>2
  <2>4. QueuePinned'
    BY <1>3, <2>3 DEF PinInv, QueuePinned, Pop
  <2>5. HandPinned'
    BY <1>3, <2>1, <2>2 DEF PinInv, HandPinned, QueuePinned, Pop, TypeInv, StateOK
  <2>6. Yielded' /\ FirstRunPinned'
    BY <1>3, <2>1 DEF PinInv, Yielded, FirstRunPinned, Pop, TypeInv, StateOK
  <2> QED  BY <2>4, <2>5, <2>6 DEF PinInv
<1>4. ASSUME NEW t \in Threads, Enter(t) PROVE PinInv'
  <2>1. ft[t] \in Tasks /\ pc[t] \in Holding
    BY <1>4 DEF Enter, TypeInv, HandOK, Holding, Counted
  <2>2. QueuePinned' /\ HandPinned'
    BY <1>4, <2>1 DEF PinInv, QueuePinned, HandPinned, Enter, TypeInv, StateOK
  <2>3. Yielded'
    BY <1>4, <2>1 DEF PinInv, Yielded, Enter, TypeInv, StateOK
  <2>4. FirstRunPinned'
    BY <1>4, <2>1 DEF PinInv, FirstRunPinned, HandPinned, Enter, TypeInv, StateOK
  <2> QED  BY <2>2, <2>3, <2>4 DEF PinInv
<1>5. ASSUME NEW t \in Threads, YieldToReady(t) \/ Register(t) PROVE PinInv'
  <2>1. ft[t] \in Tasks
    BY <1>5 DEF YieldToReady, Register, TypeInv, HandOK, Holding, Counted
  <2>2. /\ yields' = [yields EXCEPT ![ft[t]] = @ + 1]
        /\ UNCHANGED <<m_fibers, onStack, ft>>
    BY <1>5 DEF YieldToReady, Yield, Register
  <2>3. yields'[ft[t]] # 0 /\ \A k \in Tasks : k # ft[t] => yields'[k] = yields[k]
    BY <2>1, <2>2, ConstantsAssumption DEF TypeInv, StateOK
  <2>4. \A k \in Tasks : yields'[k] = 0 => yields[k] = 0
    BY <2>3
  <2>5. /\ \A k \in Tasks : k # ft[t] => status'[k] = status[k] /\ (k \in armed' => k \in armed)
        /\ \A u \in Threads : u # t => pc'[u] = pc[u]
        /\ pc'[t] # "resched"
    BY <1>5, <2>1 DEF YieldToReady, Yield, Register, TypeInv, StateOK
  <2>6. QueuePinned'
    BY <2>2, <2>4, QueueTasks DEF PinInv, QueuePinned, TypeInv
  <2>7. HandPinned'
    <3>1. pc[t] \in Holding
      BY <1>5 DEF YieldToReady, Register, Holding, Counted
    <3> QED  BY <2>2, <2>4, <2>5, <3>1 DEF PinInv, HandPinned, TypeInv, HandOK
  <2>8. Yielded'
    BY <2>2, <2>3, <2>5 DEF PinInv, Yielded, TypeInv, HandOK, Holding, Counted
  <2>9. FirstRunPinned'
    BY <2>2, <2>4 DEF PinInv, FirstRunPinned
  <2> QED  BY <2>6, <2>7, <2>8, <2>9 DEF PinInv
<1>6. ASSUME NEW t \in Threads, Reschedule(t) PROVE PinInv'
  <2>1. m_fibers' = Append(m_fibers, [task |-> ft[t], thr |-> AnyThread])
    BY <1>6 DEF Reschedule
  <2>2. yields[ft[t]] # 0 /\ UNCHANGED yields
    BY <1>6 DEF Reschedule, PinInv, Yielded
  <2>3. QueuePinned'
    BY <2>1, <2>2, AppendLemma DEF PinInv, QueuePinned, TypeInv
  <2>4. HandPinned' /\ Yielded' /\ FirstRunPinned'
    BY <1>6 DEF Reschedule, PinInv, HandPinned, Yielded, FirstRunPinned, TypeInv, StateOK,
                Holding, Counted
  <2> QED  BY <2>3, <2>4 DEF PinInv
<1>7. ASSUME NEW t \in Threads, NEW k \in Tasks, Submit(t, k) PROVE PinInv'
  <2>1. m_fibers' = Append(m_fibers, [task |-> k, thr |-> Pin[k]]) /\ UNCHANGED yields
    BY <1>7 DEF Submit
  <2>2. QueuePinned'
    BY <2>1, AppendLemma DEF PinInv, QueuePinned, TypeInv
  <2>3. HandPinned' /\ Yielded' /\ FirstRunPinned'
    BY <1>7 DEF Submit, PinInv, HandPinned, Yielded, FirstRunPinned
  <2> QED  BY <2>2, <2>3 DEF PinInv
<1>8. ASSUME NEW k \in Tasks, Wake(k) PROVE PinInv'
  <2>1. /\ m_fibers' = Append(m_fibers, [task |-> k, thr |-> AnyThread])
        /\ yields[k] # 0 /\ UNCHANGED yields
    BY <1>8 DEF Wake, PinInv, Yielded
  <2>2. QueuePinned'
    BY <2>1, AppendLemma DEF PinInv, QueuePinned, TypeInv
  <2>3. HandPinned' /\ Yielded' /\ FirstRunPinned'
    BY <1>8 DEF Wake, PinInv, HandPinned, Yielded, FirstRunPinned
  <2> QED  BY <2>2, <2>3 DEF PinInv
<1>9. ASSUME NEW t \in Threads, Step(t) \/ Throw(t) \/ YieldToReady(t) \/ Register(t)
      PROVE  PinInv'
  BY <1>3, <1>4, <1>5, <1>6, <1>9, CalmSteps, CalmKeepsPins DEF Step
<1> QED  BY <1>1, <1>2, <1>7, <1>8, <1>9 DEF Next

\* Until its first yield a task runs only on the thread it was pinned to: with
\* any threads, pins and tasks, those that hold, throw or are scheduled again
\* too (schedule and run, schedular.h:46-66, schedular.cpp:204-246).
THEOREM PinnedUntilYield == Spec => []FirstRunPinned
<1>1. Init => PinInv
  BY DEF Init, PinInv, QueuePinned, HandPinned, Yielded, FirstRunPinned, Holding, Counted
<1>2. PinInv => FirstRunPinned
  BY DEF PinInv
<1> QED  BY <1>1, <1>2, InitTypeInv, NextTypeInv, NextPinInv, PTL DEF Spec

-----------------------------------------------------------------------------
(* One thread that runs tasks *)

\* The threads that execute run(), and what they do there.
Runners == Workers \cup (IF UseCaller THEN {Main} ELSE {})
RunLabels == Holding \cup {"pop", "idle", "idleDecide"}

\* A scheduler of one thread, with or without its owner; tasks of any kind.
OneRunner == \A t, u \in Runners : t = u

\* The assertions of swapIn, the yields, addEvent and ~Fiber (fiber.cpp:77,
\* 85, 189, 258, iomanager.cpp:188) hold, but for one case: a task that
\* threw was relabelled HOLD by swapOut and is destroyed in that status.
OnlyThrowAborts == failed # "none" => failed = "destroy" /\ ended \cap MayThrow # {}

OnlyRunnersRun ==
    /\ \A t \in Threads : pc[t] \in RunLabels => t \in Runners
    /\ pc[Main] \in {"stopQ", "stopA"} => UseCaller

\* Nobody else changes the status of the task in hand.
AloneStatus(t) ==
    /\ pc[t] = "check" => status[ft[t]] # "EXEC"
    /\ pc[t] \in {"swapIn", "enter"} => status[ft[t]] \notin {"EXEC", "TERM", "EXCEPT"}
    /\ pc[t] \in {"user", "hold"} => status[ft[t]] = "EXEC"
    /\ pc[t] = "out" => status[ft[t]] \in {"READY", "HOLD", "TERM", "EXCEPT"}
    /\ pc[t] = "outHold" => status[ft[t]] \in {"HOLD", "EXCEPT"}
    /\ pc[t] \in {"swap", "sub", "post"} => status[ft[t]] \in {"READY", "HOLD", "TERM"}
    /\ pc[t] = "resched" => status[ft[t]] = "READY"
    /\ pc[t] = "postHold" => status[ft[t]] = "HOLD"
AloneStatusOK == \A t \in Threads : AloneStatus(t)

AloneStack ==
    \A k \in Tasks : \A t \in onStack[k] :
        ft[t] = k /\ pc[t] \in {"user", "hold", "out", "outHold", "swap"}

\* A body that returned leaves TERM, which nothing overwrites.
EndedStatus == \A k \in ended : k \in MayThrow \/ status[k] = "TERM"

AloneInv == OnlyRunnersRun /\ AloneStatusOK /\ AloneStack /\ EndedStatus /\ OnlyThrowAborts

\* Only one thread is in run().
LEMMA AloneLemma ==
    ASSUME OneRunner, OnlyRunnersRun, NEW t \in Threads, NEW u \in Threads,
           pc[t] \in RunLabels, pc[u] \in RunLabels
    PROVE  t = u
  BY DEF OneRunner, OnlyRunnersRun

\* AloneInv is inductive, for any tasks.
LEMMA NextAloneInv == OneRunner /\ TypeInv /\ AloneInv /\ [Next]_vars => AloneInv'
<1> SUFFICES ASSUME OneRunner, TypeInv, AloneInv, [Next]_vars PROVE AloneInv'
  OBVIOUS
<1> USE DEF AloneInv, AloneStatusOK, AloneStatus, AloneStack, EndedStatus, OnlyThrowAborts,
            Goto, Loop, queueVars, fiberVars, stopVars, threadVars
<1>main. Main \in Threads
  BY DEF Threads
<1>1. CASE UNCHANGED vars
  BY <1>1 DEF vars, OnlyRunnersRun
<1>2. CASE Start
  BY <1>2, <1>main DEF Start, OnlyRunnersRun, Threads, Runners, RunLabels, Holding, Counted, TypeInv, StateOK
<1>3. CASE StopRequest \/ StopStep
  <2>1. /\ UNCHANGED <<status, onStack, ended, failed, ft>>
        /\ \A u \in Threads \ {Main} : pc'[u] = pc[u]
        /\ \/ pc[Main] = "app" /\ pc'[Main] = "stop1"
           \/ pc[Main] = "stop1" /\ pc'[Main] = "join"
           \/ UseCaller /\ pc'[Main] \in {"stopQ", "stopA", "pop", "join", "stopped"}
           \/ pc'[Main] = "stopped"
    <3>1. CASE StopProbe
      <4>1. StoppingProbe(Main, "stopA", "pop") /\ pc[Main] = "stopQ"
        BY <3>1 DEF StopProbe
      <4>2. PICK label \in {"stopA", "pop"} : pc' = [pc EXCEPT ![Main] = label]
        BY <4>1, ProbeLemma
      <4>3. UNCHANGED <<fiberVars, ft, failed>>
        BY <4>1, ProbeLemma
      <4> QED  BY <4>1, <4>2, <4>3, <1>main DEF OnlyRunnersRun, TypeInv, StateOK
    <3>2. CASE StopRequest \/ StopStore \/ StopDecide \/ Join
      BY <3>2, <1>main DEF StopRequest, StopStore, StopDecide, Join, OnlyRunnersRun, TypeInv, StateOK
    <3> QED  BY <1>3, <3>1, <3>2 DEF StopStep
  <2>2. OnlyRunnersRun'
    BY <2>1, <1>main DEF OnlyRunnersRun, Runners, RunLabels, Holding, Counted
  <2>3. AloneStatusOK' /\ EndedStatus' /\ OnlyThrowAborts'
    BY <2>1, <1>main
  <2>4. \A k \in Tasks : Main \notin onStack[k]
    BY <1>3, <1>main DEF StopRequest, StopStep, StopStore, StopProbe, StopDecide, Join
  <2>5. AloneStack'
    BY <2>1, <2>4, <1>main DEF TypeInv, StateOK
  <2> QED  BY <2>2, <2>3, <2>5
<1>4. ASSUME NEW t \in Threads, Step(t) \/ Throw(t) \/ YieldToReady(t) \/ Register(t),
             failed = "none"
      PROVE  AloneInv'
  <2>1. pc[t] \in RunLabels
    BY <1>4 DEF Step, Pop, PopNothing, Drop, Check, SwapIn, Enter, Finish, Throw, EndBody,
                YieldToReady, Register, YieldToHold, SwapOut, SwapOutHold, Swap, FetchSub,
                PostReady, PostDone, PostOther, Reschedule, PostHold, SpinIdleExit,
                IdleProbe, IdleDecide, RunLabels, Holding, Counted
  <2>2. /\ \A u \in Threads \ {t} : pc[u] \notin RunLabels
        /\ \A u \in Threads \ {t}, k \in Tasks : u \notin onStack[k]
        /\ t \in Runners
    <3>1. \A u \in Threads \ {t} : pc[u] \notin RunLabels
      BY <2>1, AloneLemma
    <3> QED  BY <2>1, <3>1 DEF RunLabels, Holding, Counted, OnlyRunnersRun
  <2>3. pc[t] \in Holding => ft[t] \in Tasks
    BY DEF TypeInv, HandOK
  \* What each action does to the task in hand.
  <2> DEFINE Own ==
        /\ pc'[t] \in RunLabels \cup {"join", "exited"}
        /\ \A u \in Threads \ {t} : pc'[u] = pc[u]
        /\ AloneStatus(t)'
        /\ \A k \in Tasks : \A u \in onStack'[k] :
             u = t /\ ft'[u] = k /\ pc'[u] \in {"user", "hold", "out", "outHold", "swap"}
        /\ EndedStatus'
        /\ OnlyThrowAborts'
  <2> HIDE DEF AloneInv
  <2>own. \/ pc[t] \in Holding /\ ft[t] \in Tasks /\ \A k \in Tasks : onStack[k] # {} => k = ft[t]
          \/ pc[t] \notin Holding /\ \A k \in Tasks : onStack[k] = {}
    <3>1. \A k \in Tasks : \A u \in onStack[k] : u = t /\ ft[t] = k /\ pc[t] \in Holding
      <4>1. \A k \in Tasks : onStack[k] \subseteq Threads
        BY DEF TypeInv, StateOK
      <4> QED  BY <2>2, <4>1 DEF AloneInv, Holding, Counted
    <3> QED  BY <2>3, <3>1
  <2> USE DEF AloneInv, RunLabels, Holding, Counted
  <2>4. ASSUME Pop(t) PROVE Own
    BY <2>1, <2>2, <2>3, <2>own, <2>4, <1>4 DEF Pop, Eligible, TypeInv, StateOK
  <2>5. ASSUME PopNothing(t) PROVE Own
    BY <2>1, <2>2, <2>3, <2>own, <2>5, <1>4 DEF PopNothing, TypeInv, StateOK
  <2>6. ASSUME Drop(t) PROVE Own
    BY <2>1, <2>2, <2>3, <2>own, <2>6, <1>4 DEF Drop, TypeInv, StateOK
  <2>7. ASSUME Check(t) PROVE Own
    BY <2>1, <2>2, <2>3, <2>own, <2>7, <1>4 DEF Check, TypeInv, StateOK
  <2>8. ASSUME SwapIn(t) PROVE Own
    BY <2>1, <2>2, <2>3, <2>own, <2>8, <1>4 DEF SwapIn, TypeInv, StateOK
  <2>9. ASSUME Enter(t) PROVE Own
    BY <2>1, <2>2, <2>3, <2>own, <2>9, <1>4 DEF Enter, TypeInv, StateOK
  <2>10. ASSUME Finish(t) PROVE Own
    BY <2>1, <2>2, <2>3, <2>own, <2>10, <1>4 DEF Finish, EndBody, TypeInv, StateOK
  <2>11. ASSUME Throw(t) PROVE Own
    BY <2>1, <2>2, <2>3, <2>own, <2>11, <1>4 DEF Throw, EndBody, TypeInv, StateOK
  <2>12. ASSUME YieldToReady(t) PROVE Own
    BY <2>1, <2>2, <2>3, <2>own, <2>12, <1>4 DEF YieldToReady, Yield, TypeInv, StateOK
  <2>13. ASSUME Register(t) PROVE Own
    BY <2>1, <2>2, <2>3, <2>own, <2>13, <1>4 DEF Register, TypeInv, StateOK
  <2>14. ASSUME YieldToHold(t) PROVE Own
    BY <2>1, <2>2, <2>3, <2>own, <2>14, <1>4 DEF YieldToHold, Yield, TypeInv, StateOK
  <2>15. ASSUME SwapOut(t) PROVE Own
    BY <2>1, <2>2, <2>3, <2>own, <2>15, <1>4 DEF SwapOut, TypeInv, StateOK
  <2>16. ASSUME SwapOutHold(t) PROVE Own
    <3>1. ft[t] \in Tasks /\ (ft[t] \in ended => ft[t] \in MayThrow)
      BY <2>3, <2>16 DEF SwapOutHold
    <3>2. status' = [status EXCEPT ![ft[t]] = "HOLD"] /\ status \in [Tasks -> Status]
      BY <2>16 DEF SwapOutHold, TypeInv, StateOK
    <3>3. EndedStatus'
      BY <3>1, <3>2, <2>16 DEF SwapOutHold
    <3> QED  BY <2>2, <2>own, <2>16, <3>1, <3>2, <3>3, <1>4 DEF SwapOutHold, TypeInv, StateOK
  <2>17. ASSUME Swap(t) PROVE Own
    BY <2>1, <2>2, <2>3, <2>own, <2>17, <1>4 DEF Swap, TypeInv, StateOK
  <2>18. ASSUME FetchSub(t) PROVE Own
    BY <2>1, <2>2, <2>3, <2>own, <2>18, <1>4 DEF FetchSub, TypeInv, StateOK
  <2>19. ASSUME PostReady(t) PROVE Own
    BY <2>1, <2>2, <2>3, <2>own, <2>19, <1>4 DEF PostReady, TypeInv, StateOK
  <2>20. ASSUME PostDone(t) PROVE Own
    BY <2>1, <2>2, <2>3, <2>own, <2>20, <1>4 DEF PostDone, TypeInv, StateOK
  <2>21. ASSUME PostOther(t) PROVE Own
    BY <2>1, <2>2, <2>3, <2>own, <2>21, <1>4 DEF PostOther, TypeInv, StateOK
  <2>22. ASSUME Reschedule(t) PROVE Own
    BY <2>1, <2>2, <2>3, <2>own, <2>22, <1>4 DEF Reschedule, TypeInv, StateOK
  <2>23. ASSUME PostHold(t) PROVE Own
    BY <2>1, <2>2, <2>3, <2>own, <2>23, <1>4 DEF PostHold, LastReference, TypeInv, StateOK
  <2>24. ASSUME SpinIdleExit(t) PROVE Own
    BY <2>1, <2>2, <2>3, <2>own, <2>24, <1>4 DEF SpinIdleExit, TypeInv, StateOK
  <2>25. ASSUME IdleDecide(t) PROVE Own
    BY <2>1, <2>2, <2>3, <2>own, <2>25, <1>4 DEF IdleDecide, TypeInv, StateOK
  <2>26. ASSUME IdleProbe(t) PROVE Own
    <3>1. StoppingProbe(t, "idleDecide", "pop") /\ pc[t] = "idle"
      BY <2>26 DEF IdleProbe
    <3>2. PICK label \in {"idleDecide", "pop"} : pc' = [pc EXCEPT ![t] = label]
      BY <3>1, ProbeLemma
    <3>3. UNCHANGED <<fiberVars, ft, failed>>
      BY <3>1, ProbeLemma
    <3> QED  BY <2>2, <2>own, <3>1, <3>2, <3>3, <1>4 DEF TypeInv, StateOK
  <2>all. Own
    BY <1>4, <2>4, <2>5, <2>6, <2>7, <2>8, <2>9, <2>10, <2>11, <2>12, <2>13, <2>14, <2>15, <2>16, <2>17, <2>18, <2>19, <2>20, <2>21, <2>22, <2>23, <2>24, <2>25, <2>26 DEF Step
  <2>run. OnlyRunnersRun'
    BY <2>2, <2>all, <1>main DEF OnlyRunnersRun
  <2>status. AloneStatusOK'
    BY <2>2, <2>all
  <2>stack. AloneStack'
    BY <2>all
  <2> QED  BY <2>all, <2>run, <2>status, <2>stack
<1>5. ASSUME NEW t \in Threads, NEW k \in Tasks, Submit(t, k) PROVE AloneInv'
  BY <1>5 DEF Submit, OnlyRunnersRun
<1>6. ASSUME NEW k \in Tasks, Wake(k) PROVE AloneInv'
  BY <1>6 DEF Wake, OnlyRunnersRun
<1> QED  BY <1>1, <1>2, <1>3, <1>4, <1>5, <1>6 DEF Next

\* Before start() no thread runs tasks.
LEMMA InitAloneInv == Init => AloneInv
<1> SUFFICES ASSUME Init PROVE AloneInv
  OBVIOUS
<1>1. \A t \in Threads : pc[t] = "new"
  BY DEF Init
<1>2. OnlyRunnersRun /\ AloneStatusOK
  BY <1>1 DEF OnlyRunnersRun, RunLabels, Holding, Counted, AloneStatusOK, AloneStatus, Threads
<1>3. AloneStack /\ EndedStatus /\ OnlyThrowAborts
  BY DEF Init, AloneStack, EndedStatus, OnlyThrowAborts
<1> QED  BY <1>2, <1>3 DEF AloneInv

\* With one thread in run() no assertion fails, whatever the tasks do, but for
\* the destruction of a task that threw.
THEOREM OneRunnerAborts == ASSUME OneRunner PROVE Spec => []OnlyThrowAborts
<1>1. TypeInv /\ AloneInv /\ [Next]_vars => (TypeInv /\ AloneInv)'
  BY NextTypeInv, NextAloneInv
<1>2. AloneInv => OnlyThrowAborts
  BY DEF AloneInv
<1> QED  BY <1>1, <1>2, InitTypeInv, InitAloneInv, PTL DEF Spec

\* The thread will run the task in its hands, or queue it to be run.
Live(t) ==
    \/ pc[t] \in {"check", "swapIn", "enter", "user", "resched"}
    \/ pc[t] \in {"out", "swap", "sub", "post"} /\ status[ft[t]] = "READY"

InLiveHand(k) == \E t \in Threads : Live(t) /\ ft[t] = k

Queued(k) == \E i \in DOMAIN m_fibers : m_fibers[i].task = k

QueuedOnce(k) ==
    \A i, j \in DOMAIN m_fibers : m_fibers[i].task = k /\ m_fibers[j].task = k => i = j

\* A task that is scheduled once has one ticket to run: its queue entry, the
\* thread that runs it, or the event it waits for.  Its end spends it.
OneTicket(k) ==
    /\ QueuedOnce(k)
    /\ Queued(k) => ~InLiveHand(k) /\ k \notin armed
    /\ k \in armed => ~InLiveHand(k)
    /\ Queued(k) \/ InLiveHand(k) \/ k \in armed => k \notin ended /\ submits[k] > 0
    /\ k \in ended => submits[k] > 0

Single == {k \in Tasks : MaxSubmits[k] <= 1}

Tickets == \A k \in Single : OneTicket(k)

\* What an append does to the entries of one task.
LEMMA QueuedAppend ==
    ASSUME StateOK, NEW k, NEW e, m_fibers' = Append(m_fibers, e)
    PROVE  /\ Queued(k)' <=> Queued(k) \/ e.task = k
           /\ QueuedOnce(k) /\ (e.task = k => ~Queued(k)) => QueuedOnce(k)'
<1>1. /\ DOMAIN m_fibers = 1..Len(m_fibers) /\ DOMAIN m_fibers' = 1..(Len(m_fibers) + 1)
      /\ Len(m_fibers) \in Nat
      /\ \A j \in DOMAIN m_fibers' : m_fibers'[j] = IF j \in DOMAIN m_fibers THEN m_fibers[j] ELSE e
  BY DEF StateOK
<1>2. Len(m_fibers) + 1 \in DOMAIN m_fibers' /\ m_fibers'[Len(m_fibers) + 1] = e
  BY <1>1
<1>3. DOMAIN m_fibers \subseteq DOMAIN m_fibers'
  BY <1>1
<1>4. Queued(k)' <=> Queued(k) \/ e.task = k
  BY <1>1, <1>2, <1>3 DEF Queued
<1>5. ASSUME QueuedOnce(k), e.task = k => ~Queued(k) PROVE QueuedOnce(k)'
  BY <1>1, <1>5 DEF Queued, QueuedOnce
<1> QED  BY <1>4, <1>5

\* What the removal of an entry does to the entries of one task.
LEMMA QueuedWithout ==
    ASSUME StateOK, NEW k, NEW i \in DOMAIN m_fibers, m_fibers' = Without(m_fibers, i),
           QueuedOnce(k)
    PROVE  /\ Queued(k)' <=> Queued(k) /\ m_fibers[i].task # k
           /\ QueuedOnce(k)'
<1>1. /\ m_fibers' \in Seq(Item) /\ Len(m_fibers') = Len(m_fibers) - 1
      /\ \A j \in 1..(Len(m_fibers) - 1) :
           m_fibers'[j] = IF j < i THEN m_fibers[j] ELSE m_fibers[j + 1]
  BY WithoutLemma DEF StateOK
<1>2. /\ DOMAIN m_fibers = 1..Len(m_fibers) /\ Len(m_fibers) \in Nat
      /\ DOMAIN m_fibers' = 1..(Len(m_fibers) - 1)
  BY <1>1 DEF StateOK
<1>3. QueuedOnce(k)'
  <2> SUFFICES ASSUME NEW j \in DOMAIN m_fibers', NEW l \in DOMAIN m_fibers',
                      m_fibers'[j].task = k, m_fibers'[l].task = k
               PROVE  j = l
    BY DEF QueuedOnce
  <2> DEFINE Old(x) == IF x < i THEN x ELSE x + 1
  <2>1. /\ Old(j) \in DOMAIN m_fibers /\ Old(l) \in DOMAIN m_fibers
        /\ m_fibers[Old(j)].task = k /\ m_fibers[Old(l)].task = k
    BY <1>1, <1>2
  <2>2. Old(j) = Old(l)
    BY <2>1 DEF QueuedOnce
  <2> QED  BY <2>2, <1>2
<1>4. ASSUME Queued(k)' PROVE Queued(k) /\ m_fibers[i].task # k
  <2>1. PICK j \in DOMAIN m_fibers' : m_fibers'[j].task = k
    BY <1>4 DEF Queued
  <2>2. PICK l \in DOMAIN m_fibers : l # i /\ m_fibers[l].task = k
    BY <1>1, <1>2, <2>1
  <2> QED  BY <2>2 DEF Queued, QueuedOnce
<1>5. ASSUME Queued(k), m_fibers[i].task # k PROVE Queued(k)'
  <2>1. PICK l \in DOMAIN m_fibers : l # i /\ m_fibers[l].task = k
    BY <1>5 DEF Queued
  <2>2. CASE l < i
    BY <1>1, <1>2, <2>1, <2>2 DEF Queued
  <2>3. CASE l > i
    <3>1. l - 1 \in DOMAIN m_fibers' /\ m_fibers'[l - 1] = m_fibers[l]
      BY <1>1, <1>2, <2>3
    <3> QED  BY <2>1, <3>1 DEF Queued
  <2> QED  BY <1>2, <2>1, <2>2, <2>3
<1> QED  BY <1>3, <1>4, <1>5

\* Tickets is inductive when one thread runs tasks.
LEMMA NextTickets ==
    OneRunner /\ TypeInv /\ AloneInv /\ Tickets /\ [Next]_vars => Tickets'
<1> SUFFICES ASSUME OneRunner, TypeInv, AloneInv, Tickets, [Next]_vars,
                    NEW k \in Single
             PROVE  OneTicket(k)'
  BY DEF Tickets
<1> USE DEF Goto, Loop, queueVars, fiberVars, stopVars, threadVars
<1>main. Main \in Threads
  BY DEF Threads
<1>k. OneTicket(k) /\ k \in Tasks /\ MaxSubmits[k] \in Nat /\ MaxSubmits[k] <= 1
      /\ submits[k] \in Nat
  BY ConstantsAssumption DEF Tickets, Single, TypeInv, StateOK
<1>type. StateOK /\ HandOK
  BY DEF TypeInv
<1>queue. m_fibers' = m_fibers => (Queued(k)' <=> Queued(k)) /\ (QueuedOnce(k)' <=> QueuedOnce(k))
  BY DEF Queued, QueuedOnce
\* A step that leaves the tickets of k where they are.
<1>same. ASSUME UNCHANGED <<m_fibers, armed, ended, submits>>, InLiveHand(k)' => InLiveHand(k)
         PROVE  OneTicket(k)'
  BY <1>k, <1>queue, <1>same DEF OneTicket
<1>1. CASE UNCHANGED vars
  BY <1>1, <1>same DEF vars, InLiveHand, Live
<1>2. CASE Start
  BY <1>2, <1>same DEF Start, InLiveHand, Live, StateOK
<1>3. CASE StopRequest \/ StopStep
  <2>1. /\ UNCHANGED <<m_fibers, armed, ended, submits, status, ft>>
        /\ \A u \in Threads \ {Main} : pc'[u] = pc[u]
        /\ pc'[Main] \in {"stop1", "stopQ", "stopA", "pop", "join", "stopped"}
    <3>1. CASE StopProbe
      <4>1. StoppingProbe(Main, "stopA", "pop") /\ pc[Main] = "stopQ"
        BY <3>1 DEF StopProbe
      <4>2. PICK label \in {"stopA", "pop"} : pc' = [pc EXCEPT ![Main] = label]
        BY <4>1, ProbeLemma
      <4>3. UNCHANGED <<queueVars, fiberVars, ft, failed>>
        BY <4>1, ProbeLemma
      <4> QED  BY <4>1, <4>2, <4>3, <1>main, <1>type DEF StateOK
    <3>2. CASE StopRequest \/ StopStore \/ StopDecide \/ Join
      BY <3>2, <1>main, <1>type DEF StopRequest, StopStore, StopDecide, Join, StateOK
    <3> QED  BY <1>3, <3>1, <3>2 DEF StopStep
  <2>2. InLiveHand(k)' => InLiveHand(k)
    BY <2>1, <1>main DEF InLiveHand, Live
  <2> QED  BY <2>1, <2>2, <1>same
<1>4. ASSUME NEW t \in Threads, Step(t) \/ Throw(t) \/ YieldToReady(t) \/ Register(t)
      PROVE  OneTicket(k)'
  <2>1. pc[t] \in RunLabels
    BY <1>4 DEF Step, Pop, PopNothing, Drop, Check, SwapIn, Enter, Finish, Throw, EndBody,
                YieldToReady, Register, YieldToHold, SwapOut, SwapOutHold, Swap, FetchSub,
                PostReady, PostDone, PostOther, Reschedule, PostHold, SpinIdleExit,
                IdleProbe, IdleDecide, RunLabels, Holding, Counted
  <2>2. \A u \in Threads \ {t} : pc[u] \notin RunLabels
    BY <2>1, AloneLemma DEF AloneInv
  <2>3. (pc[t] \in Holding => ft[t] \in Tasks) /\ AloneStatus(t)
    BY <1>type DEF HandOK, AloneInv, AloneStatusOK
  <2>4. InLiveHand(k) <=> Live(t) /\ ft[t] = k
    BY <2>2 DEF InLiveHand, Live, RunLabels, Holding, Counted
  <2>5. ASSUME \A u \in Threads \ {t} : pc'[u] = pc[u]
        PROVE  InLiveHand(k)' <=> Live(t)' /\ ft'[t] = k
    BY <2>2, <2>5 DEF InLiveHand, Live, RunLabels, Holding, Counted
  \* An action that moves no ticket.
  <2>keep. ASSUME \A u \in Threads \ {t} : pc'[u] = pc[u],
                  UNCHANGED <<m_fibers, armed, ended, submits>>,
                  Live(t)' => Live(t) /\ ft'[t] = ft[t]
           PROVE  OneTicket(k)'
    BY <2>4, <2>5, <2>keep, <1>same
  <2> USE <1>type DEF AloneStatus
  <2>6. CASE Pop(t)
    <3>1. PICK i \in DOMAIN m_fibers :
            m_fibers' = Without(m_fibers, i) /\ ft' = [ft EXCEPT ![t] = m_fibers[i].task]
      BY <2>6 DEF Pop, Eligible
    <3>2. /\ Queued(k)' <=> Queued(k) /\ m_fibers[i].task # k
          /\ QueuedOnce(k)'
      BY <3>1, <1>k, QueuedWithout DEF OneTicket
    <3>3. /\ InLiveHand(k)' <=> m_fibers[i].task = k
          /\ ~InLiveHand(k)
      BY <2>4, <2>5, <2>6, <3>1 DEF Pop, Live, StateOK
    <3>4. m_fibers[i].task = k => Queued(k)
      BY <3>1 DEF Queued
    <3>5. UNCHANGED <<armed, ended, submits>>
      BY <2>6 DEF Pop
    <3> QED  BY <1>k, <3>2, <3>3, <3>4, <3>5 DEF OneTicket
  <2>7. CASE PopNothing(t) \/ Drop(t) \/ Check(t) \/ SwapIn(t) \/ Enter(t)
    <3>1. /\ \A u \in Threads \ {t} : pc'[u] = pc[u]
          /\ UNCHANGED <<m_fibers, armed, ended, submits>>
      BY <2>7 DEF PopNothing, Drop, Check, SwapIn, Enter, StateOK
    <3>2. Live(t)' => Live(t) /\ ft'[t] = ft[t]
      BY <2>7 DEF PopNothing, Drop, Check, SwapIn, Enter, Live, StateOK
    <3> QED  BY <3>1, <3>2, <2>keep
  <2>8. CASE Finish(t) \/ Throw(t)
    <3>1. /\ \A u \in Threads \ {t} : pc'[u] = pc[u]
          /\ UNCHANGED <<m_fibers, armed, submits, ft>>
          /\ ended' = ended \cup {ft[t]}
          /\ Live(t)
      BY <2>8 DEF Finish, Throw, EndBody, Live, StateOK
    <3>2. pc'[t] = "out" /\ ft[t] \in Tasks /\ status'[ft[t]] \in {"TERM", "EXCEPT"}
      BY <2>3, <2>8 DEF Finish, Throw, EndBody, Holding, Counted, StateOK
    <3>3. ~Live(t)'
      BY <3>1, <3>2 DEF Live
    <3> QED  BY <1>k, <1>queue, <2>4, <2>5, <3>1, <3>3 DEF OneTicket
  <2>9. CASE YieldToReady(t) \/ YieldToHold(t)
    <3>1. /\ \A u \in Threads \ {t} : pc'[u] = pc[u]
          /\ UNCHANGED <<m_fibers, armed, ended, submits>>
      BY <2>9 DEF YieldToReady, YieldToHold, Yield, StateOK
    <3>2. Live(t)' => Live(t) /\ ft'[t] = ft[t]
      BY <2>3, <2>9 DEF YieldToReady, YieldToHold, Yield, Live, Holding, Counted, StateOK
    <3> QED  BY <3>1, <3>2, <2>keep
  <2>10. CASE Register(t)
    <3>1. /\ \A u \in Threads \ {t} : pc'[u] = pc[u]
          /\ UNCHANGED <<m_fibers, ended, submits, ft, status>>
          /\ Live(t)
          /\ armed' = armed \cup {ft[t]} /\ pc'[t] = "hold"
      BY <2>3, <2>10 DEF Register, Live, StateOK
    <3>2. ~Live(t)'
      BY <3>1 DEF Live
    <3> QED  BY <1>k, <1>queue, <2>4, <2>5, <3>1, <3>2 DEF OneTicket
  <2>11. CASE SwapOut(t) \/ SwapOutHold(t) \/ Swap(t) \/ FetchSub(t) \/ PostReady(t)
              \/ PostDone(t) \/ PostOther(t) \/ PostHold(t)
    <3>1. /\ \A u \in Threads \ {t} : pc'[u] = pc[u]
          /\ UNCHANGED <<m_fibers, armed, ended, submits>>
      BY <2>11 DEF SwapOut, SwapOutHold, Swap, FetchSub, PostReady, PostDone, PostOther,
                   PostHold, StateOK
    <3>2. Live(t)' => Live(t) /\ ft'[t] = ft[t]
      BY <2>3, <2>11 DEF SwapOut, SwapOutHold, Swap, FetchSub, PostReady, PostDone,
                         PostOther, PostHold, Live, Holding, Counted, StateOK
    <3> QED  BY <3>1, <3>2, <2>keep
  <2>12. CASE Reschedule(t)
    <3>1. /\ \A u \in Threads \ {t} : pc'[u] = pc[u]
          /\ UNCHANGED <<armed, ended, submits>>
          /\ Live(t) /\ pc'[t] = "pop"
          /\ m_fibers' = Append(m_fibers, [task |-> ft[t], thr |-> AnyThread])
      BY <2>12 DEF Reschedule, Enqueue, Live, StateOK
    <3>2. ~Live(t)'
      BY <3>1 DEF Live
    <3>3. /\ Queued(k)' <=> Queued(k) \/ ft[t] = k
          /\ QueuedOnce(k) /\ (ft[t] = k => ~Queued(k)) => QueuedOnce(k)'
      BY <3>1, QueuedAppend
    <3> QED  BY <1>k, <2>4, <2>5, <3>1, <3>2, <3>3 DEF OneTicket
  <2>13. CASE SpinIdleExit(t) \/ IdleDecide(t)
    <3>1. /\ \A u \in Threads \ {t} : pc'[u] = pc[u]
          /\ UNCHANGED <<m_fibers, armed, ended, submits>>
          /\ ~Live(t)'
      BY <2>13 DEF SpinIdleExit, IdleDecide, Live, StateOK
    <3> QED  BY <3>1, <2>keep
  <2>14. CASE IdleProbe(t)
    <3>1. StoppingProbe(t, "idleDecide", "pop")
      BY <2>14 DEF IdleProbe
    <3>2. PICK label \in {"idleDecide", "pop"} : pc' = [pc EXCEPT ![t] = label]
      BY <3>1, ProbeLemma
    <3>3. UNCHANGED <<queueVars, fiberVars>>
      BY <3>1, ProbeLemma
    <3>4. ~Live(t)' /\ \A u \in Threads \ {t} : pc'[u] = pc[u]
      BY <3>2 DEF Live, StateOK
    <3> QED  BY <3>3, <3>4, <2>keep
  <2> QED  BY <1>4, <2>6, <2>7, <2>8, <2>9, <2>10, <2>11, <2>12, <2>13, <2>14 DEF Step
<1>5. ASSUME NEW t \in Threads, NEW l \in Tasks, Submit(t, l) PROVE OneTicket(k)'
  <2>1. /\ m_fibers' = Append(m_fibers, [task |-> l, thr |-> Pin[l]])
        /\ UNCHANGED <<armed, ended, pc, status, ft>>
        /\ submits[l] < MaxSubmits[l] /\ submits' = [submits EXCEPT ![l] = @ + 1]
    BY <1>5 DEF Submit, Enqueue
  <2>2. /\ Queued(k)' <=> Queued(k) \/ l = k
        /\ QueuedOnce(k) /\ (l = k => ~Queued(k)) => QueuedOnce(k)'
    BY <2>1, <1>type, QueuedAppend
  <2>3. InLiveHand(k)' <=> InLiveHand(k)
    BY <2>1 DEF InLiveHand, Live
  <2>4. submits'[k] = IF l = k THEN submits[k] + 1 ELSE submits[k]
    BY <2>1, <1>k, <1>type DEF StateOK
  <2>5. l = k => submits[k] = 0
    BY <2>1, <1>k
  <2> QED  BY <1>k, <2>1, <2>2, <2>3, <2>4, <2>5 DEF OneTicket
<1>6. ASSUME NEW l \in Tasks, Wake(l) PROVE OneTicket(k)'
  <2>1. /\ m_fibers' = Append(m_fibers, [task |-> l, thr |-> AnyThread])
        /\ l \in armed /\ armed' = armed \ {l}
        /\ UNCHANGED <<ended, pc, status, ft, submits>>
    BY <1>6 DEF Wake, Enqueue
  <2>2. /\ Queued(k)' <=> Queued(k) \/ l = k
        /\ QueuedOnce(k) /\ (l = k => ~Queued(k)) => QueuedOnce(k)'
    BY <2>1, <1>type, QueuedAppend
  <2>3. InLiveHand(k)' <=> InLiveHand(k)
    BY <2>1 DEF InLiveHand, Live
  <2> QED  BY <1>k, <2>1, <2>2, <2>3 DEF OneTicket
<1> QED  BY <1>1, <1>2, <1>3, <1>4, <1>5, <1>6 DEF Next

\* At first there are no tickets.
LEMMA InitTickets == Init => Tickets
<1> SUFFICES ASSUME Init PROVE Tickets
  OBVIOUS
<1>1. DOMAIN m_fibers = {} /\ armed = {} /\ ended = {} /\ \A t \in Threads : pc[t] = "new"
  BY DEF Init
<1> QED  BY <1>1 DEF Tickets, OneTicket, QueuedOnce, Queued, InLiveHand, Live

\* Only Enter puts a thread on a fiber's stack, and only on the stack of the
\* task the thread has in hand.
LEMMA StackGrows ==
    ASSUME TypeInv, [Next]_vars, NEW k \in Tasks, ~(onStack'[k] \subseteq onStack[k])
    PROVE  \E t \in Threads : pc[t] = "enter" /\ ft[t] = k
<1> USE DEF Goto, Loop, queueVars, fiberVars, stopVars, threadVars, TypeInv, StateOK
<1>1. ASSUME UNCHANGED onStack PROVE FALSE
  BY <1>1
<1>2. CASE StopStep
  <2>1. StopProbe => UNCHANGED onStack
    BY ProbeLemma DEF StopProbe
  <2> QED  BY <1>1, <1>2, <2>1 DEF StopStep, StopStore, StopDecide, Join
<1>3. ASSUME NEW t \in Threads, Step(t) PROVE pc[t] = "enter" /\ ft[t] = k
  <2>1. IdleProbe(t) => UNCHANGED onStack
    BY ProbeLemma DEF IdleProbe
  <2>2. CASE Enter(t)
    BY <2>2 DEF Enter
  <2>3. CASE Swap(t)
    <3>1. onStack' = [onStack EXCEPT ![ft[t]] = @ \ {t}] /\ onStack \in [Tasks -> SUBSET Threads]
      BY <2>3 DEF Swap
    <3>2. onStack'[k] \subseteq onStack[k]
      BY <3>1
    <3> QED  BY <3>2
  <2>4. ~Enter(t) /\ ~Swap(t) => UNCHANGED onStack
    BY <1>3, <2>1 DEF Step, Pop, PopNothing, Drop, Check, SwapIn, Finish, EndBody,
            YieldToHold, Yield, SwapOut, SwapOutHold, FetchSub, PostReady, PostDone,
            PostOther, Reschedule, PostHold, SpinIdleExit, IdleDecide
  <2> QED  BY <1>1, <2>2, <2>3, <2>4
<1>4. ~(UNCHANGED vars) /\ ~Start /\ ~StopRequest
  BY <1>1 DEF vars, Start, StopRequest
<1>5. \A t \in Threads : ~Throw(t) /\ ~YieldToReady(t) /\ ~Register(t)
  BY <1>1 DEF Throw, EndBody, YieldToReady, Yield, Register
<1>6. \A l \in Tasks : ~Wake(l) /\ \A t \in Threads : ~Submit(t, l)
  BY <1>1 DEF Wake, Submit
<1> QED  BY <1>2, <1>3, <1>4, <1>5, <1>6 DEF Next

\* One thread runs the tasks and those that throw are scheduled once, or the
\* tasks only yield to READY: then the body of a task ends at most once.
THEOREM TasksEndOnce ==
    ASSUME ReadyOnly \/ (OneRunner /\ \A k \in MayThrow : MaxSubmits[k] <= 1)
    PROVE  Spec => EndsOnce
<1>1. ASSUME ReadyOnly PROVE Spec => EndsOnce
  <2>1. ReadyInv /\ [Next]_vars => [\A k \in Tasks : k \in ended => onStack'[k] \subseteq onStack[k]]_vars
    <3> SUFFICES ASSUME ReadyInv, [Next]_vars, NEW k \in Tasks, k \in ended,
                        ~(onStack'[k] \subseteq onStack[k])
                 PROVE  FALSE
      OBVIOUS
    <3>1. PICK t \in Threads : pc[t] = "enter" /\ ft[t] = k
      BY StackGrows DEF ReadyInv
    <3> QED  BY <3>1 DEF ReadyInv, HandStatusOK, HandStatus
  <2>2. ReadyInv /\ [Next]_vars => ReadyInv'
    BY <1>1, NextReadyInv
  <2> QED  BY <2>1, <2>2, InitReadyInv, PTL DEF Spec, EndsOnce
<1>2. ASSUME OneRunner, \A k \in MayThrow : MaxSubmits[k] <= 1 PROVE Spec => EndsOnce
  <2> DEFINE Inv == TypeInv /\ AloneInv /\ Tickets
  <2>1. Inv /\ [Next]_vars => [\A k \in Tasks : k \in ended => onStack'[k] \subseteq onStack[k]]_vars
    <3> SUFFICES ASSUME Inv, [Next]_vars, NEW k \in Tasks, k \in ended,
                        ~(onStack'[k] \subseteq onStack[k])
                 PROVE  FALSE
      OBVIOUS
    <3>1. PICK t \in Threads : pc[t] = "enter" /\ ft[t] = k
      BY StackGrows
    <3>2. status[k] # "TERM"
      BY <3>1 DEF AloneInv, AloneStatusOK, AloneStatus
    <3>3. k \in Single
      BY <1>2, <3>2 DEF AloneInv, EndedStatus, Single
    <3>4. k \notin ended
      BY <3>1, <3>3 DEF Tickets, OneTicket, InLiveHand, Live
    <3> QED  BY <3>4
  <2>2. Inv /\ [Next]_vars => Inv'
    BY <1>2, NextTypeInv, NextAloneInv, NextTickets
  <2>3. Init => Inv
    BY InitTypeInv, InitAloneInv, InitTickets
  <2> QED  BY <2>1, <2>2, <2>3, PTL DEF Spec, EndsOnce
<1> QED  BY <1>1, <1>2

-----------------------------------------------------------------------------
(* stop() drains the queue *)

\* What running tasks schedule is for any thread, and nothing is for the
\* owner's thread unless that thread runs tasks.
PinsServed ==
    /\ \A k \in MayBeSpawned : Pin[k] = AnyThread
    /\ UseCaller \/ \A k \in Tasks : Pin[k] # Main

\* A thread that takes no task any more.
Gone(t) ==
    \/ pc[t] \in {"exited", "join", "stopped"}
    \/ t = Main /\ pc[t] = "stopA" /\ noFibers[t]

InHand(k) == \E t \in Threads : pc[t] \in Holding /\ ft[t] = k

Served == \A k \in Tasks : submits[k] > 0 => k \in ended \/ Queued(k) \/ InHand(k)

PinsKept == \A i \in DOMAIN m_fibers :
    m_fibers[i].thr = AnyThread \/ m_fibers[i].thr = Pin[m_fibers[i].task]

NoneForGone == \A t \in Threads : Gone(t) => \A i \in DOMAIN m_fibers : m_fibers[i].thr # t

\* The last thread to go has seen the queue empty.
LastDrains == (\A t \in Threads : Gone(t)) => m_fibers = <<>>

\* Nobody leaves before stop() has stored m_stopping.
NoneLeaves ==
    /\ pc[Main] = "new" => \A t \in Threads : pc[t] = "new"
    /\ pc[Main] \in {"app", "stop1"} => ~m_stopping
    /\ pc[Main] \in {"new", "app", "stop1"} =>
         \A t \in Threads : ~idleTerm[t] /\ pc[t] # "exited"
    /\ \A t \in Threads \ {Main} : pc[t] \notin {"app", "stop1", "stopQ", "stopA", "join", "stopped"}

Joined == pc[Main] = "stopped" => \A w \in Workers : pc[w] = "exited"

DrainInv == Served /\ PinsKept /\ NoneForGone /\ LastDrains /\ NoneLeaves /\ Joined

\* DrainInv is inductive together with ReadyInv.
LEMMA NextDrainInv ==
    ReadyOnly /\ PinsServed /\ ReadyInv /\ DrainInv /\ [Next]_vars => DrainInv'
<1> SUFFICES ASSUME ReadyOnly, PinsServed, ReadyInv, DrainInv, [Next]_vars
             PROVE  DrainInv'
  OBVIOUS
<1> USE DEF Goto, Loop, Enqueue, queueVars, fiberVars, stopVars, threadVars
<1>main. Main \in Threads /\ Main \notin Workers /\ Threads = Workers \cup {Main}
         /\ AnyThread \notin Threads /\ (UseCaller \/ Workers # {})
  BY ConstantsAssumption DEF Threads
<1>type. TypeInv /\ StateOK /\ HandOK
  BY DEF ReadyInv, TypeInv
<1>fun. /\ pc \in [Threads -> Labels] /\ ft \in [Threads -> Tasks \cup {NoTask}]
        /\ noFibers \in [Threads -> BOOLEAN] /\ idleTerm \in [Threads -> BOOLEAN]
        /\ submits \in [Tasks -> Nat]
  BY <1>type DEF StateOK
<1> USE <1>type, <1>fun
<1>quiet. /\ armed = {} /\ MayHold = {} /\ MayThrow = {} /\ failed = "none"
          /\ \A t \in Threads : pc[t] \notin {"hold", "outHold", "postHold"}
  BY DEF ReadyInv, Quiet, ReadyOnly
<1>queue. ASSUME UNCHANGED m_fibers
          PROVE  /\ \A k : Queued(k)' <=> Queued(k)
                 /\ PinsKept'
  BY <1>queue DEF Queued, DrainInv, PinsKept
\* A step that leaves the queue and every task alone.
<1>apart. ASSUME UNCHANGED <<m_fibers, submits, ended, ft>>,
                 \A t \in Threads : pc[t] \in Holding => pc'[t] = pc[t]
          PROVE  Served' /\ PinsKept'
  BY <1>queue, <1>apart DEF DrainInv, Served, InHand
<1>1. CASE UNCHANGED vars
  BY <1>1, <1>apart DEF vars, DrainInv, NoneForGone, LastDrains, Gone, NoneLeaves, Joined
<1>2. CASE Start
  <2>1. Served' /\ PinsKept'
    BY <1>2, <1>apart DEF Start, Holding, Counted
  <2>2. \A t \in Threads : ~Gone(t)'
    BY <1>2 DEF Start, Gone
  <2>3. NoneForGone' /\ LastDrains'
    BY <2>2, <1>main DEF NoneForGone, LastDrains
  <2>4. NoneLeaves' /\ Joined'
    BY <1>2, <1>main DEF Start, NoneLeaves, Joined, DrainInv
  <2> QED  BY <2>1, <2>3, <2>4 DEF DrainInv
<1>3. CASE StopRequest
  <2>1. Served' /\ PinsKept'
    BY <1>3, <1>main, <1>apart DEF StopRequest, Holding, Counted
  <2>2. \A t \in Threads : Gone(t)' => Gone(t)
    BY <1>3, <1>main DEF StopRequest, Gone
  <2>3. NoneForGone' /\ LastDrains'
    BY <1>3, <2>2 DEF StopRequest, DrainInv, NoneForGone, LastDrains
  <2>4. NoneLeaves' /\ Joined'
    BY <1>3, <1>main DEF StopRequest, NoneLeaves, Joined, DrainInv
  <2> QED  BY <2>1, <2>3, <2>4 DEF DrainInv
<1>4. CASE StopStore
  <2>1. Served' /\ PinsKept'
    BY <1>4, <1>main, <1>apart DEF StopStore, Holding, Counted
  <2>2. CASE UseCaller
    <3>1. \A t \in Threads : Gone(t)' => Gone(t)
      BY <1>4, <1>main, <2>2 DEF StopStore, Gone
    <3>2. NoneForGone' /\ LastDrains'
      BY <1>4, <3>1 DEF StopStore, DrainInv, NoneForGone, LastDrains
    <3>3. NoneLeaves' /\ Joined'
      BY <1>4, <1>main, <2>2 DEF StopStore, NoneLeaves, Joined, DrainInv
    <3> QED  BY <2>1, <3>2, <3>3 DEF DrainInv
  <2>3. CASE ~UseCaller
    <3>1. \A t \in Threads : ~Gone(t)
      BY <1>4, <1>main DEF StopStore, Gone, NoneLeaves, DrainInv
    <3>2. \A t \in Threads \ {Main} : ~Gone(t)'
      BY <1>4, <1>main, <3>1 DEF StopStore, Gone
    <3>3. \A i \in DOMAIN m_fibers : m_fibers[i].thr # Main
      BY <2>3, <1>main, QueueTasks DEF DrainInv, PinsKept, PinsServed
    <3>4. NoneForGone' /\ LastDrains'
      BY <1>4, <1>main, <2>3, <3>2, <3>3 DEF StopStore, NoneForGone, LastDrains
    <3>5. NoneLeaves' /\ Joined'
      BY <1>4, <1>main, <2>3 DEF StopStore, NoneLeaves, Joined, DrainInv
    <3> QED  BY <2>1, <3>4, <3>5 DEF DrainInv
  <2> QED  BY <2>2, <2>3
<1>5. CASE StopProbe
  <2>1. StoppingProbe(Main, "stopA", "pop") /\ pc[Main] = "stopQ"
    BY <1>5 DEF StopProbe
  <2>2. pc' = [pc EXCEPT ![Main] = "stopA"] /\ noFibers' = [noFibers EXCEPT ![Main] = m_fibers = <<>>]
        /\ UNCHANGED <<queueVars, stopVars, fiberVars, ft, idleTerm>>
    BY <2>1, <1>quiet DEF StoppingProbe
  <2>3. Served' /\ PinsKept'
    BY <2>1, <2>2, <1>main, <1>apart DEF Holding, Counted
  <2>4. /\ \A t \in Threads \ {Main} : Gone(t)' => Gone(t)
        /\ Gone(Main)' => m_fibers = <<>>
    BY <2>2, <1>main DEF Gone
  <2>5. NoneForGone'
    BY <2>2, <2>4 DEF DrainInv, NoneForGone
  <2>6. LastDrains'
    BY <2>2, <2>4, <1>main DEF LastDrains
  <2>7. NoneLeaves' /\ Joined'
    BY <2>1, <2>2, <1>main DEF NoneLeaves, Joined, DrainInv
  <2> QED  BY <2>3, <2>5, <2>6, <2>7 DEF DrainInv
<1>6. CASE StopDecide
  <2>1. Served' /\ PinsKept'
    BY <1>6, <1>main, <1>apart DEF StopDecide, Holding, Counted
  <2>2. \A t \in Threads : Gone(t)' => Gone(t)
    BY <1>6, <1>main DEF StopDecide, StoppingResult, Gone
  <2>3. NoneForGone' /\ LastDrains'
    BY <1>6, <2>2 DEF StopDecide, DrainInv, NoneForGone, LastDrains
  <2>4. NoneLeaves' /\ Joined'
    BY <1>6, <1>main DEF StopDecide, NoneLeaves, Joined, DrainInv
  <2> QED  BY <2>1, <2>3, <2>4 DEF DrainInv
<1>7. CASE Join
  <2>1. Served' /\ PinsKept'
    BY <1>7, <1>main, <1>apart DEF Join, Holding, Counted
  <2>2. \A t \in Threads : Gone(t)' => Gone(t)
    BY <1>7, <1>main DEF Join, Gone
  <2>3. NoneForGone' /\ LastDrains'
    BY <1>7, <2>2 DEF Join, DrainInv, NoneForGone, LastDrains
  <2>4. NoneLeaves' /\ Joined'
    BY <1>7, <1>main DEF Join, NoneLeaves, Joined, DrainInv
  <2> QED  BY <2>1, <2>3, <2>4 DEF DrainInv
<1>8. ASSUME NEW t \in Threads, Step(t) \/ Throw(t) \/ YieldToReady(t) \/ Register(t)
      PROVE  DrainInv'
  \* A step of a thread in run() that is not about to leave it.
  <2>stay. ASSUME pc[t] \in Holding \cup {"pop", "idle", "idleDecide"},
                  pc' = [pc EXCEPT ![t] = pc'[t]],
                  pc'[t] \in Holding \cup {"pop", "idle", "idleDecide"},
                  \A u \in Threads \ {t} : noFibers'[u] = noFibers[u],
                  pc[Main] \in {"new", "app", "stop1"} => UNCHANGED idleTerm,
                  UNCHANGED stopVars,
                  \A i \in DOMAIN m_fibers' : m_fibers'[i].thr = AnyThread
                     \/ \E j \in DOMAIN m_fibers : m_fibers'[i].thr = m_fibers[j].thr
           PROVE  NoneForGone' /\ LastDrains' /\ NoneLeaves' /\ Joined'
    <3>1. \A u \in Threads : pc'[u] = IF u = t THEN pc'[t] ELSE pc[u]
      BY <2>stay
    <3>2. ~Gone(t)' /\ \A u \in Threads : Gone(u)' => Gone(u)
      BY <2>stay, <3>1 DEF Gone, Holding, Counted
    <3>3. NoneForGone'
      BY <2>stay, <3>2, <1>main DEF NoneForGone, DrainInv
    <3>4. LastDrains'
      BY <3>2 DEF LastDrains
    <3>5. NoneLeaves'
      BY <2>stay, <3>1, <1>main DEF NoneLeaves, DrainInv, Holding, Counted
    <3>6. Joined'
      BY <2>stay, <3>1, <1>main DEF Joined, DrainInv, Holding, Counted
    <3> QED  BY <3>3, <3>4, <3>5, <3>6
  \* A step that keeps the task in hand, or lets go of one that has ended.
  <2>inside. ASSUME pc[t] \in Holding, pc' = [pc EXCEPT ![t] = pc'[t]],
                    \/ pc'[t] \in Holding /\ ft' = ft
                    \/ /\ pc'[t] = "pop" /\ ft[t] \in ended
                       /\ ft' = [ft EXCEPT ![t] = NoTask],
                    ended \subseteq ended',
                    UNCHANGED <<queueVars, stopVars, noFibers, idleTerm>>
             PROVE  DrainInv'
    <3>1. NoneForGone' /\ LastDrains' /\ NoneLeaves' /\ Joined'
      BY <2>stay, <2>inside
    <3>2. Served'
      <4>1. \A u \in Threads \ {t} : pc'[u] = pc[u] /\ ft'[u] = ft[u]
        BY <2>inside
      <4> QED  BY <2>inside, <4>1, <1>queue DEF DrainInv, Served, InHand
    <3> QED  BY <3>1, <3>2, <1>queue, <2>inside DEF DrainInv
  \* A step of a thread with empty hands that stays in run().
  <2>idle. ASSUME pc[t] \in {"pop", "idle", "idleDecide"}, pc' = [pc EXCEPT ![t] = pc'[t]],
                  pc'[t] \in {"pop", "idle", "idleDecide"},
                  \A u \in Threads \ {t} : noFibers'[u] = noFibers[u],
                  pc[Main] \in {"new", "app", "stop1"} => UNCHANGED idleTerm,
                  UNCHANGED <<queueVars, stopVars, ft, ended>>
           PROVE  DrainInv'
    <3>1. NoneForGone' /\ LastDrains' /\ NoneLeaves' /\ Joined'
      BY <2>stay, <2>idle
    <3>2. \A u \in Threads : pc[u] \in Holding => pc'[u] = pc[u]
      BY <2>idle DEF Holding, Counted
    <3> QED  BY <3>1, <3>2, <1>apart, <2>idle DEF DrainInv
  <2>hand. HandStatus(t)
    BY DEF ReadyInv, HandStatusOK
  <2>1. CASE Pop(t)
    <3>1. PICK i \in DOMAIN m_fibers :
            m_fibers' = Without(m_fibers, i) /\ ft' = [ft EXCEPT ![t] = m_fibers[i].task]
      BY <2>1 DEF Pop, Eligible
    <3>2. /\ pc[t] = "pop" /\ pc' = [pc EXCEPT ![t] = "check"]
          /\ UNCHANGED <<submits, stopVars, ended, noFibers, idleTerm>>
      BY <2>1 DEF Pop
    <3>3. \A j \in DOMAIN m_fibers' : \E l \in DOMAIN m_fibers : m_fibers'[j] = m_fibers[l]
      <4>1. m_fibers \in Seq(Item)
        BY <1>type DEF StateOK
      <4>2. /\ m_fibers' \in Seq(Item) /\ Len(m_fibers') = Len(m_fibers) - 1
            /\ \A j \in 1..(Len(m_fibers) - 1) :
                 m_fibers'[j] = IF j < i THEN m_fibers[j] ELSE m_fibers[j + 1]
        BY <3>1, <4>1, WithoutLemma
      <4>3. DOMAIN m_fibers = 1..Len(m_fibers) /\ DOMAIN m_fibers' = 1..(Len(m_fibers) - 1)
            /\ Len(m_fibers) \in Nat
        BY <4>1, <4>2
      <4>4. \A j \in DOMAIN m_fibers' : j \in DOMAIN m_fibers /\ j + 1 \in DOMAIN m_fibers
        BY <4>3
      <4>5. ASSUME NEW j \in DOMAIN m_fibers'
            PROVE  m_fibers'[j] = m_fibers[j] \/ m_fibers'[j] = m_fibers[j + 1]
        BY <4>2, <4>3
      <4> QED  BY <4>4, <4>5
    <3>4. NoneForGone' /\ LastDrains' /\ NoneLeaves' /\ Joined'
      BY <2>stay, <3>2, <3>3 DEF Holding, Counted
    <3>5. PinsKept'
      BY <3>3 DEF PinsKept, DrainInv
    <3>6. Served'
      <4> SUFFICES ASSUME NEW k \in Tasks, submits'[k] > 0
                   PROVE  k \in ended' \/ Queued(k)' \/ InHand(k)'
        BY DEF Served
      <4>1. k \in ended \/ Queued(k) \/ InHand(k)
        BY <3>2 DEF DrainInv, Served
      <4>2. InHand(k) => InHand(k)'
        BY <3>1, <3>2 DEF InHand, Holding, Counted
      <4>3. QueuedOnce(k)
        BY DEF ReadyInv, OnePlace, QueuedOnce
      <4>4. Queued(k) => Queued(k)' \/ m_fibers[i].task = k
        BY <3>1, <4>3, QueuedWithout
      <4>5. m_fibers[i].task = k => InHand(k)'
        BY <3>1, <3>2 DEF InHand, Holding, Counted
      <4> QED  BY <3>2, <4>1, <4>2, <4>4, <4>5
    <3> QED  BY <3>4, <3>5, <3>6 DEF DrainInv
  <2>2. CASE PopNothing(t)
    <3>1. pc[t] = "pop" /\ Eligible(t) = {}
          /\ UNCHANGED <<queueVars, stopVars, fiberVars, ft, noFibers, idleTerm>>
      BY <2>2 DEF PopNothing
    <3>2. CASE ~idleTerm[t]
      BY <2>2, <3>1, <3>2, <2>idle DEF PopNothing
    <3>3. CASE idleTerm[t]
      <4>1. /\ pc'[t] \in {"join", "exited"} /\ \A u \in Threads \ {t} : pc'[u] = pc[u]
            /\ pc'[t] = IF t = Main THEN "join" ELSE "exited"
        BY <2>2, <3>3 DEF PopNothing
      <4>2. \A i \in DOMAIN m_fibers : m_fibers[i].thr \notin {AnyThread, t}
        BY <3>1 DEF Eligible, ReadyInv, QueueOK
      <4>3. Served' /\ PinsKept'
        BY <3>1, <4>1, <1>apart DEF Holding, Counted
      <4>4. \A u \in Threads \ {t} : Gone(u)' => Gone(u)
        BY <3>1, <4>1 DEF Gone
      <4>5. NoneForGone'
        BY <3>1, <4>2, <4>4 DEF DrainInv, NoneForGone
      <4>6. LastDrains'
        <5> SUFFICES ASSUME \A u \in Threads : Gone(u)' PROVE m_fibers = <<>>
          BY <3>1 DEF LastDrains
        <5>1. \A i \in DOMAIN m_fibers : m_fibers[i].thr \notin Threads \cup {AnyThread}
          BY <4>2, <4>4 DEF DrainInv, NoneForGone
        <5>2. \A i \in DOMAIN m_fibers : m_fibers[i].thr \in Threads \cup {AnyThread}
          <6>1. \A i \in DOMAIN m_fibers : m_fibers[i] \in Item
            BY DEF StateOK
          <6> QED  BY <6>1 DEF Item
        <5>3. DOMAIN m_fibers = {}
          BY <5>1, <5>2
        <5> QED  BY <5>3 DEF StateOK
      <4>7. NoneLeaves' /\ Joined'
        BY <3>1, <3>3, <4>1, <1>main DEF DrainInv, NoneLeaves, Joined
      <4> QED  BY <4>3, <4>5, <4>6, <4>7 DEF DrainInv
    <3> QED  BY <3>2, <3>3
  <2>3. CASE Drop(t)
    BY <2>3, <2>hand DEF Drop, HandStatus
  <2>4a. CASE Check(t)
    <3>1. pc[t] \in Holding /\ pc' = [pc EXCEPT ![t] = "swapIn"]
      BY <2>4a DEF Check, Holding, Counted
    <3>2. ended \subseteq ended' /\ UNCHANGED <<queueVars, stopVars, noFibers, idleTerm, ft>>
      BY <2>4a DEF Check
    <3> QED  BY <3>1, <3>2, <2>inside DEF Holding, Counted
  <2>4b. CASE SwapIn(t)
    <3>1. pc[t] \in Holding /\ pc' = [pc EXCEPT ![t] = "enter"]
      BY <2>4b, <2>hand DEF SwapIn, Holding, Counted, HandStatus
    <3>2. ended \subseteq ended' /\ UNCHANGED <<queueVars, stopVars, noFibers, idleTerm, ft>>
      BY <2>4b DEF SwapIn
    <3> QED  BY <3>1, <3>2, <2>inside DEF Holding, Counted
  <2>4c. CASE Enter(t)
    <3>1. pc[t] \in Holding /\ pc' = [pc EXCEPT ![t] = "user"]
      BY <2>4c DEF Enter, Holding, Counted
    <3>2. ended \subseteq ended' /\ UNCHANGED <<queueVars, stopVars, noFibers, idleTerm, ft>>
      BY <2>4c DEF Enter
    <3> QED  BY <3>1, <3>2, <2>inside DEF Holding, Counted
  <2>5a. CASE Finish(t)
    <3>1. pc[t] \in Holding /\ pc' = [pc EXCEPT ![t] = "out"]
      BY <2>5a DEF Finish, EndBody, Holding, Counted
    <3>2. ended \subseteq ended' /\ UNCHANGED <<queueVars, stopVars, noFibers, idleTerm, ft>>
      BY <2>5a DEF Finish, EndBody
    <3> QED  BY <3>1, <3>2, <2>inside DEF Holding, Counted
  <2>5b. CASE YieldToReady(t)
    <3>1. pc[t] \in Holding /\ pc' = [pc EXCEPT ![t] = "out"]
      BY <2>5b, <2>hand DEF YieldToReady, Yield, Holding, Counted, HandStatus
    <3>2. ended \subseteq ended' /\ UNCHANGED <<queueVars, stopVars, noFibers, idleTerm, ft>>
      BY <2>5b DEF YieldToReady, Yield
    <3> QED  BY <3>1, <3>2, <2>inside DEF Holding, Counted
  <2>6. CASE Throw(t) \/ Register(t) \/ YieldToHold(t) \/ SwapOutHold(t) \/ PostHold(t)
    BY <2>6, <1>quiet DEF Throw, Register, YieldToHold, SwapOutHold, PostHold
  <2>7. CASE SwapOut(t)
    <3>1. pc[t] \in Holding /\ pc' = [pc EXCEPT ![t] = "swap"]
      BY <2>7, <2>hand DEF SwapOut, Holding, Counted, HandStatus
    <3>2. ended \subseteq ended' /\ UNCHANGED <<queueVars, stopVars, noFibers, idleTerm, ft>>
      BY <2>7 DEF SwapOut
    <3> QED  BY <3>1, <3>2, <2>inside DEF Holding, Counted
  <2>8a. CASE Swap(t)
    <3>1. pc[t] \in Holding /\ pc' = [pc EXCEPT ![t] = "sub"]
      BY <2>8a DEF Swap, Holding, Counted
    <3>2. ended \subseteq ended' /\ UNCHANGED <<queueVars, stopVars, noFibers, idleTerm, ft>>
      BY <2>8a DEF Swap
    <3> QED  BY <3>1, <3>2, <2>inside DEF Holding, Counted
  <2>8b. CASE FetchSub(t)
    <3>1. pc[t] \in Holding /\ pc' = [pc EXCEPT ![t] = "post"]
      BY <2>8b DEF FetchSub, Holding, Counted
    <3>2. ended \subseteq ended' /\ UNCHANGED <<queueVars, stopVars, noFibers, idleTerm, ft>>
      BY <2>8b DEF FetchSub
    <3> QED  BY <3>1, <3>2, <2>inside DEF Holding, Counted
  <2>8c. CASE PostReady(t)
    <3>1. pc[t] \in Holding /\ pc' = [pc EXCEPT ![t] = "resched"]
      BY <2>8c DEF PostReady, Holding, Counted
    <3>2. ended \subseteq ended' /\ UNCHANGED <<queueVars, stopVars, noFibers, idleTerm, ft>>
      BY <2>8c DEF PostReady
    <3> QED  BY <3>1, <3>2, <2>inside DEF Holding, Counted
  <2>9. CASE PostDone(t)
    BY <2>9, <2>hand, <2>inside DEF PostDone, Holding, Counted, HandStatus
  <2>10. CASE PostOther(t)
    BY <2>10, <2>hand DEF PostOther, HandStatus
  <2>11. CASE Reschedule(t)
    <3>1. /\ pc[t] = "resched" /\ pc' = [pc EXCEPT ![t] = "pop"]
          /\ ft' = [ft EXCEPT ![t] = NoTask]
          /\ m_fibers' = Append(m_fibers, [task |-> ft[t], thr |-> AnyThread])
          /\ UNCHANGED <<submits, stopVars, fiberVars, noFibers, idleTerm>>
      BY <2>11 DEF Reschedule
    <3>2. \A j \in DOMAIN m_fibers' :
            \/ j \in DOMAIN m_fibers /\ m_fibers'[j] = m_fibers[j]
            \/ m_fibers'[j] = [task |-> ft[t], thr |-> AnyThread]
      BY <3>1, AppendLemma
    <3>3. NoneForGone' /\ LastDrains' /\ NoneLeaves' /\ Joined'
      BY <2>stay, <3>1, <3>2 DEF Holding, Counted
    <3>4. PinsKept'
      BY <3>2 DEF PinsKept, DrainInv
    <3>5. \A k : Queued(k)' <=> Queued(k) \/ ft[t] = k
      BY <3>1, QueuedAppend
    <3>6. Served'
      <4>1. \A u \in Threads \ {t} : pc'[u] = pc[u] /\ ft'[u] = ft[u]
        BY <3>1
      <4> QED  BY <3>1, <3>5, <4>1 DEF DrainInv, Served, InHand
    <3> QED  BY <3>3, <3>4, <3>6 DEF DrainInv
  <2>12. CASE SpinIdleExit(t)
    BY <2>12, <1>main, <2>idle DEF SpinIdleExit, DrainInv, NoneLeaves
  <2>13. CASE IdleProbe(t)
    <3>1. StoppingProbe(t, "idleDecide", "pop") /\ pc[t] = "idle"
      BY <2>13 DEF IdleProbe
    <3>2. \E label \in {"idleDecide", "pop"} : pc' = [pc EXCEPT ![t] = label]
      BY <3>1, ProbeLemma
    <3>3. UNCHANGED <<queueVars, stopVars, fiberVars, ft, idleTerm>>
      BY <3>1, ProbeLemma
    <3>4. \A u \in Threads \ {t} : noFibers'[u] = noFibers[u]
      BY <3>1, ProbeLemma
    <3> QED  BY <3>1, <3>2, <3>3, <3>4, <2>idle
  <2>14. CASE IdleDecide(t)
    <3>1. /\ pc[t] = "idleDecide" /\ pc' = [pc EXCEPT ![t] = "pop"]
          /\ noFibers' = [noFibers EXCEPT ![t] = FALSE]
          /\ idleTerm' = [idleTerm EXCEPT ![t] = StoppingResult(t)]
          /\ UNCHANGED <<queueVars, stopVars, fiberVars, ft>>
      BY <2>14 DEF IdleDecide
    <3>2. pc[Main] \in {"new", "app", "stop1"} => UNCHANGED idleTerm
      <4> SUFFICES ASSUME pc[Main] \in {"new", "app", "stop1"} PROVE UNCHANGED idleTerm
        OBVIOUS
      <4>1. ~m_stopping /\ ~idleTerm[t]
        BY <3>1, <1>main DEF DrainInv, NoneLeaves
      <4>2. StoppingResult(t) = FALSE
        BY <4>1 DEF StoppingResult
      <4>3. idleTerm[t] = FALSE
        BY <4>1
      <4> QED  BY <3>1, <4>2, <4>3
    <3> QED  BY <3>1, <3>2, <2>idle
  <2> QED  BY <1>8, <2>1, <2>2, <2>3, <2>4a, <2>4b, <2>4c, <2>5a, <2>5b, <2>6,
              <2>7, <2>8a, <2>8b, <2>8c, <2>9, <2>10, <2>11, <2>12, <2>13, <2>14 DEF Step
<1>9. ASSUME NEW t \in Threads, NEW l \in Tasks, Submit(t, l) PROVE DrainInv'
  <2>1. /\ m_fibers' = Append(m_fibers, [task |-> l, thr |-> Pin[l]])
        /\ UNCHANGED <<stopVars, fiberVars, threadVars>>
        /\ submits' = [submits EXCEPT ![l] = @ + 1]
        /\ \/ pc[t] = "user" /\ Pin[l] = AnyThread
           \/ t = Main /\ pc[t] \in {"new", "app"}
    BY <1>9 DEF Submit, PinsServed
  <2>2. \A j \in DOMAIN m_fibers' :
          \/ j \in DOMAIN m_fibers /\ m_fibers'[j] = m_fibers[j]
          \/ m_fibers'[j] = [task |-> l, thr |-> Pin[l]]
    BY <2>1, AppendLemma
  <2>3. \A k : Queued(k)' <=> Queued(k) \/ l = k
    BY <2>1, QueuedAppend
  <2>4. Served'
    <3>1. \A k \in Tasks \ {l} : submits'[k] = submits[k]
      BY <2>1
    <3>2. \A k \in Tasks : InHand(k)' <=> InHand(k)
      BY <2>1 DEF InHand
    <3> QED  BY <2>1, <2>3, <3>1, <3>2 DEF Served, DrainInv
  <2>5. PinsKept'
    BY <2>2 DEF PinsKept, DrainInv
  <2>6. (\A u \in Threads : Gone(u)' <=> Gone(u)) /\ ~Gone(t)
    BY <2>1, <1>main DEF Gone
  <2>7. Pin[l] = AnyThread \/ \A u \in Threads : ~Gone(u)
    BY <2>1, <1>main DEF Gone, DrainInv, NoneLeaves
  <2>8. NoneForGone'
    BY <2>2, <2>6, <2>7, <1>main DEF NoneForGone, DrainInv
  <2>9. LastDrains'
    BY <2>6 DEF LastDrains
  <2>10. NoneLeaves' /\ Joined'
    BY <2>1 DEF DrainInv, NoneLeaves, Joined
  <2> QED  BY <2>4, <2>5, <2>8, <2>9, <2>10 DEF DrainInv
<1>10. ASSUME NEW l \in Tasks, Wake(l) PROVE DrainInv'
  BY <1>10, <1>quiet DEF Wake
<1> QED  BY <1>1, <1>2, <1>3, <1>4, <1>5, <1>6, <1>7, <1>8, <1>9, <1>10 DEF Next, StopStep

\* At first nothing was scheduled and nobody has left.
LEMMA InitDrainInv == Init => DrainInv
<1> SUFFICES ASSUME Init PROVE DrainInv
  OBVIOUS
<1>1. /\ m_fibers = <<>> /\ DOMAIN m_fibers = {} /\ \A t \in Threads : pc[t] = "new" /\ ~idleTerm[t]
      /\ \A k \in Tasks : submits[k] = 0
      /\ Main \in Threads
  BY DEF Init, Threads
<1> QED  BY <1>1 DEF DrainInv, Served, PinsKept, NoneForGone, LastDrains, NoneLeaves, Joined

\* Tasks that only yield to READY and are scheduled once: when stop() returns,
\* every one that was scheduled has run to its end.
THEOREM ReadyTasksDrained == ASSUME ReadyOnly, PinsServed PROVE Spec => []StopDrains
<1>1. ReadyInv /\ DrainInv => StopDrains
  <2> SUFFICES ASSUME ReadyInv, DrainInv, pc[Main] = "stopped",
                      NEW k \in Tasks, submits[k] > 0
               PROVE  k \in ended
    BY DEF StopDrains
  <2>1. \A t \in Threads : Gone(t) /\ pc[t] \notin Holding
    BY DEF DrainInv, Joined, Gone, Threads, Holding, Counted
  <2>2. m_fibers = <<>>
    BY <2>1 DEF DrainInv, LastDrains
  <2> QED  BY <2>1, <2>2 DEF DrainInv, Served, Queued, InHand
<1>2. ReadyInv /\ DrainInv /\ [Next]_vars => (ReadyInv /\ DrainInv)'
  BY NextReadyInv, NextDrainInv
<1> QED  BY <1>1, <1>2, InitReadyInv, InitDrainInv, PTL DEF Spec

=============================================================================
