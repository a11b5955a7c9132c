--------------------------- MODULE IOManager_proofs ---------------------------
(* What is proved about the events of descriptors for every value of the     *)
(* constants.                                                                *)
EXTENDS IOManager, TLAPS, FiniteSetTheorems

\* A fiber inside a call works on a descriptor, and on a context once it has
\* looked one up.
CallOK ==
    \A f \in Fibers :
        /\ pc[f] # "run" => op[f] \in Ops
        /\ pc[f] = "register" => op[f].gen # 0

\* Every entry of the table below its size has a context.
TableOK == \A fd \in Fds : fd < size => m_fdContexts[fd] # 0

\* A scheduled fiber holds.
ScheduledHolds == \A f \in scheduled : pc[f] = "held"

TypeInv == TypeOK /\ CallOK /\ TableOK
WakeInv == OneWakeUp /\ ScheduledHolds
Inv == TypeInv /\ PendingExact /\ WakeInv /\ EpollAgrees

-----------------------------------------------------------------------------
(* Lemmas on contexts and on the set of registered events *)

LEMMA ContextType ==
    ASSUME NEW fd \in Fds, NEW g \in 0..MaxGen, g # 0
    PROVE  Context(fd, g) \in Contexts
  BY IOAssumption DEF Context, Contexts

\* An entry of the interest list that is reported or has something to report.
LEMMA EntryArmed ==
    ASSUME NEW x \in Entries, NEW b \in BOOLEAN, b => x.gen # 0
    PROVE  LET y == [x EXCEPT !.armed = b]
           IN  y \in Entries /\ y.gen = x.gen /\ y.events = x.events
<1>1. CASE x = NoEntry
  <2>1. b = FALSE
    BY <1>1 DEF NoEntry
  <2>2. x \in [gen : {0}, events : {{}}, armed : BOOLEAN] /\ x.armed = FALSE
    BY <1>1 DEF NoEntry
  <2>3. [x EXCEPT !.armed = FALSE] = x
    BY <2>2
  <2> QED  BY <2>1, <2>3
<1>2. CASE x \in Watched
  BY <1>2 DEF Watched, Entries
<1> QED  BY <1>1, <1>2 DEF Entries

LEMMA ContextsFinite == IsFiniteSet(Contexts)
<1> DEFINE P == Fds \X (1..MaxGen)
           h == [p \in P |-> Context(p[1], p[2])]
<1>1. IsFiniteSet(P)
  <2>1. IsFiniteSet(Fds) /\ 1 \in Int /\ MaxGen \in Int
    BY IOAssumption
  <2>2. IsFiniteSet(1..MaxGen)
    BY <2>1, FS_Interval
  <2> QED  BY <2>1, <2>2, FS_Product
<1>2. h \in [P -> Contexts]
  BY DEF Context, Contexts
<1>3. ASSUME NEW c \in Contexts PROVE \E p \in P : h[p] = c
  <2>1. <<c.fd, c.gen>> \in P
    BY DEF Contexts
  <2>2. h[<<c.fd, c.gen>>] = [fd |-> c.fd, gen |-> c.gen]
    BY <2>1 DEF Context
  <2>3. [fd |-> c.fd, gen |-> c.gen] = c
    BY DEF Contexts
  <2> QED  BY <2>1, <2>2, <2>3
<1>4. h \in Surjection(P, Contexts)
  BY <1>2, <1>3 DEF Surjection
<1> QED  BY <1>1, <1>4, FS_Surjection

LEMMA EventsFinite == IsFiniteSet(Events)
<1>1. IsFiniteSet({"READ"})
  BY FS_Singleton
<1>2. Events = {"READ"} \cup {"WRITE"}
  BY DEF Events
<1> QED  BY <1>1, <1>2, FS_AddElement

LEMMA RegisteredFinite == IsFiniteSet(Registered)
<1>1. IsFiniteSet(Contexts \X Events)
  BY ContextsFinite, EventsFinite, FS_Product
<1> QED  BY <1>1, FS_Subset DEF Registered

\* Taking the events of S from a context takes as many from the registered
\* ones.
LEMMA RegisteredWithout ==
    ASSUME TypeOK, NEW c \in Contexts, NEW S \in SUBSET Events, S \subseteq m_events[c],
           m_events' = [m_events EXCEPT ![c] = @ \ S]
    PROVE  /\ Registered' = Registered \ ({c} \X S)
           /\ Cardinality(Registered') = Cardinality(Registered) - Cardinality(S)
           /\ Cardinality(S) \in Nat /\ Cardinality(Registered') \in Nat
<1>1. \A d \in Contexts : m_events'[d] = IF d = c THEN m_events[c] \ S ELSE m_events[d]
  BY DEF TypeOK
<1>2. Registered' = Registered \ ({c} \X S)
  BY <1>1 DEF Registered
<1>3. {c} \X S \subseteq Registered
  BY DEF Registered
<1>4. IsFiniteSet(S)
  BY EventsFinite, FS_Subset
<1>5. IsFiniteSet({c}) /\ Cardinality({c}) = 1
  BY FS_Singleton
<1>6. Cardinality(S) \in Nat
  BY <1>4, FS_CardinalityType
<1>7. Cardinality({c} \X S) = Cardinality(S)
  BY <1>4, <1>5, <1>6, FS_Product
<1>8. Registered \cap ({c} \X S) = {c} \X S
  BY <1>3
<1>9. Cardinality(Registered') = Cardinality(Registered) - Cardinality(S)
  <2>1. Cardinality(Registered \ ({c} \X S))
          = Cardinality(Registered) - Cardinality(Registered \cap ({c} \X S))
    BY RegisteredFinite, FS_Difference
  <2> QED  BY <1>2, <1>7, <1>8, <2>1
<1>10. IsFiniteSet(Registered')
  BY <1>2, RegisteredFinite, FS_Difference
<1> QED  BY <1>2, <1>6, <1>9, <1>10, FS_CardinalityType

\* Adding one does so by one.
LEMMA RegisteredWith ==
    ASSUME TypeOK, NEW c \in Contexts, NEW e \in Events, e \notin m_events[c],
           m_events' = [m_events EXCEPT ![c] = @ \cup {e}]
    PROVE  /\ Registered' = Registered \cup {<<c, e>>}
           /\ Cardinality(Registered') = Cardinality(Registered) + 1
           /\ Cardinality(Registered) \in Nat
<1>1. \A d \in Contexts :
        m_events'[d] = IF d = c THEN m_events[c] \cup {e} ELSE m_events[d]
  BY DEF TypeOK
<1>2. Registered' = Registered \cup {<<c, e>>}
  BY <1>1 DEF Registered
<1>3. <<c, e>> \notin Registered
  BY DEF Registered
<1> QED  BY <1>2, <1>3, RegisteredFinite, FS_AddElement, FS_CardinalityType

-----------------------------------------------------------------------------
(* Triggering and registering *)

LEMMA TriggerType ==
    ASSUME TypeOK, PendingExact, EventHasFiber, NEW c \in Contexts,
           NEW S \in SUBSET Events, S \subseteq m_events[c], Trigger(c, S)
    PROVE  /\ m_events' \in [Contexts -> SUBSET Events]
           /\ fiber' \in [Contexts -> [Events -> Fibers \cup {NoFiber}]]
           /\ m_pendingEventCounts' \in Nat
           /\ scheduled' \subseteq Fibers
           /\ PendingExact'
<1>1. m_events' \in [Contexts -> SUBSET Events]
  BY DEF TypeOK, Trigger
<1>2. fiber' \in [Contexts -> [Events -> Fibers \cup {NoFiber}]]
  BY DEF TypeOK, Trigger
<1>3. \A e \in S : fiber[c][e] \in Fibers
  BY DEF TypeOK, EventHasFiber
<1>4. scheduled' \subseteq Fibers
  BY <1>3 DEF TypeOK, Trigger
<1>5. PendingExact' /\ m_pendingEventCounts' \in Nat
  <2>1. /\ Cardinality(Registered') = Cardinality(Registered) - Cardinality(S)
        /\ Cardinality(Registered') \in Nat
    BY RegisteredWithout DEF Trigger
  <2>2. m_pendingEventCounts' = Cardinality(Registered')
    BY <2>1 DEF Trigger, PendingExact
  <2> QED  BY <2>1, <2>2 DEF PendingExact
<1> QED  BY <1>1, <1>2, <1>4, <1>5

\* The fibers of the events of S are scheduled and those of the others wait
\* on.
LEMMA TriggerWake ==
    ASSUME TypeOK, WakeInv, NEW c \in Contexts,
           NEW S \in SUBSET Events, S \subseteq m_events[c], Trigger(c, S),
           \A f \in Fibers : pc'[f] = "held" <=> pc[f] = "held"
    PROVE  WakeInv'
<1> USE DEF WakeInv, OneWakeUp, WaitsIffRegistered
<1>1. /\ m_events' = [m_events EXCEPT ![c] = @ \ S]
      /\ \A d \in Contexts : m_events'[d] = IF d = c THEN m_events[c] \ S ELSE m_events[d]
      /\ \A d \in Contexts, e \in Events :
           fiber'[d][e] = IF d = c /\ e \in S THEN NoFiber ELSE fiber[d][e]
      /\ scheduled' = scheduled \cup {fiber[c][e] : e \in S}
  BY DEF TypeOK, Trigger
<1>2. Registered' = Registered \ ({c} \X S)
  BY <1>1, RegisteredWithout
<1>3. \A r \in Registered' : r \in Registered /\ fiber'[r[1]][r[2]] = fiber[r[1]][r[2]]
  BY <1>1, <1>2 DEF Registered
<1>4. \A e \in S : <<c, e>> \in Registered
  BY DEF Registered
<1>f. \A r \in Registered : fiber[r[1]][r[2]] \in Fibers
  BY DEF Registered, TypeOK, EventHasFiber
<1>5. EventHasFiber'
  BY <1>1 DEF EventHasFiber
<1>6. FiberOnce'
  BY <1>3 DEF FiberOnce
<1>7. ASSUME NEW r \in Registered' PROVE Waits(fiber[r[1]][r[2]])'
  <2>1. fiber'[r[1]][r[2]] = fiber[r[1]][r[2]] /\ Waits(fiber[r[1]][r[2]])
    BY <1>3
  <2>2. \A e \in S : fiber[c][e] # fiber[r[1]][r[2]]
    <3> SUFFICES ASSUME NEW e \in S, fiber[c][e] = fiber[r[1]][r[2]] PROVE FALSE
      OBVIOUS
    <3>1. <<c, e>> = r
      BY <1>3, <1>4 DEF FiberOnce
    <3> QED  BY <1>2, <3>1
  <2> QED  BY <1>1, <1>3, <1>f, <2>1, <2>2 DEF Waits
<1>8. ASSUME NEW f \in Fibers, Waits(f)' PROVE \E r \in Registered' : fiber'[r[1]][r[2]] = f
  <2>1. Waits(f) /\ \A e \in S : fiber[c][e] # f
    BY <1>1, <1>8 DEF Waits
  <2>2. PICK r \in Registered : fiber[r[1]][r[2]] = f
    BY <2>1
  <2>3. r \in Registered'
    BY <1>2, <2>1, <2>2
  <2> QED  BY <1>3, <2>2, <2>3
<1>9. ScheduledHolds'
  <2>1. \A e \in S : pc[fiber[c][e]] = "held" /\ fiber[c][e] \in Fibers
    BY <1>4, <1>f DEF Waits
  <2> QED  BY <1>1, <2>1 DEF ScheduledHolds, TypeOK
<1> QED  BY <1>3, <1>5, <1>6, <1>7, <1>8, <1>9

\* epoll_ctl with what is left or added in the context.
LEMMA CtlEpoll ==
    ASSUME TypeOK, EpollAgrees, NEW c \in Contexts, NEW events \in SUBSET Events,
           Ctl(c, events), m_events' = [m_events EXCEPT ![c] = events]
    PROVE  epoll' \in [Fds -> Entries] /\ EpollAgrees'
<1>1. c.fd \in Fds /\ c.gen \in 1..MaxGen /\ c = Context(c.fd, c.gen)
  BY DEF Contexts, Context
<1>2. 0 \in 0..MaxGen /\ c.gen \in 0..MaxGen
  BY <1>1, IOAssumption
<1>3. epoll' \in [Fds -> Entries]
  BY <1>1, <1>2 DEF TypeOK, Ctl, Entries, Watched, NoEntry
<1>4. ASSUME NEW fd \in Fds, epoll'[fd].gen # 0
      PROVE  epoll'[fd].events = m_events'[Context(fd, epoll'[fd].gen)]
  <2>1. CASE fd = c.fd
    <3>1. epoll'[fd] = IF events = {} THEN NoEntry
                       ELSE [gen |-> c.gen, events |-> events, armed |-> TRUE]
      BY <1>1, <2>1 DEF TypeOK, Ctl
    <3>2. epoll'[fd].gen = c.gen /\ epoll'[fd].events = events
      BY <1>4, <3>1 DEF NoEntry
    <3> QED  BY <1>1, <2>1, <3>2 DEF TypeOK
  <2>2. CASE fd # c.fd
    <3>1. epoll'[fd] = epoll[fd] /\ Context(fd, epoll[fd].gen) # c
      BY <1>1, <2>2 DEF TypeOK, Ctl, Context
    <3>2. epoll[fd].gen \in 0..MaxGen
      <4>1. epoll[fd] \in Entries
        BY DEF TypeOK
      <4> QED  BY <4>1, IOAssumption DEF Entries, Watched, NoEntry
    <3>3. Context(fd, epoll[fd].gen) \in Contexts
      BY <1>4, <3>1, <3>2, ContextType
    <3> QED  BY <1>4, <3>1, <3>3 DEF TypeOK, EpollAgrees
  <2> QED  BY <2>1, <2>2
<1> QED  BY <1>3, <1>4 DEF EpollAgrees

\* The fiber that registers an event begins to wait.
LEMMA RegisterWake ==
    ASSUME TypeOK, PendingExact, WakeInv, NEW f \in Fibers, NEW c \in Contexts,
           NEW e \in Events, e \notin m_events[c], pc[f] # "held",
           m_events' = [m_events EXCEPT ![c] = @ \cup {e}],
           fiber' = [fiber EXCEPT ![c][e] = f],
           m_pendingEventCounts' = m_pendingEventCounts + 1,
           scheduled' = scheduled, pc' = [pc EXCEPT ![f] = "held"]
    PROVE  PendingExact' /\ WakeInv'
<1> USE DEF WakeInv, OneWakeUp, WaitsIffRegistered
<1>1. /\ \A d \in Contexts :
           m_events'[d] = IF d = c THEN m_events[c] \cup {e} ELSE m_events[d]
      /\ \A d \in Contexts, a \in Events :
           fiber'[d][a] = IF d = c /\ a = e THEN f ELSE fiber[d][a]
      /\ \A g \in Fibers : pc'[g] = IF g = f THEN "held" ELSE pc[g]
  BY DEF TypeOK
<1>2. /\ Registered' = Registered \cup {<<c, e>>}
      /\ Cardinality(Registered') = Cardinality(Registered) + 1
  BY RegisteredWith
<1>3. <<c, e>> \notin Registered
  BY DEF Registered
<1>4. \A r \in Registered : /\ fiber'[r[1]][r[2]] = fiber[r[1]][r[2]]
                            /\ fiber[r[1]][r[2]] \in Fibers
  <2> SUFFICES ASSUME NEW r \in Registered
               PROVE  /\ fiber'[r[1]][r[2]] = fiber[r[1]][r[2]]
                      /\ fiber[r[1]][r[2]] \in Fibers
    OBVIOUS
  <2>1. r[1] \in Contexts /\ r[2] \in Events /\ r[2] \in m_events[r[1]] /\ r = <<r[1], r[2]>>
    BY DEF Registered
  <2>2. fiber'[r[1]][r[2]] = fiber[r[1]][r[2]]
    BY <1>1, <1>3, <2>1
  <2>3. fiber[r[1]][r[2]] \in Fibers
    BY <2>1 DEF TypeOK, EventHasFiber
  <2> QED  BY <2>2, <2>3
<1>5. \A r \in Registered : fiber[r[1]][r[2]] # f
  BY DEF Waits
<1>6. fiber'[c][e] = f /\ f \notin scheduled
  BY <1>1 DEF ScheduledHolds
<1>7. PendingExact'
  BY <1>2 DEF PendingExact
<1>8. EventHasFiber'
  BY <1>1, IOAssumption DEF EventHasFiber
<1>9. FiberOnce'
  BY <1>2, <1>4, <1>5, <1>6 DEF FiberOnce
<1>10. ASSUME NEW r \in Registered' PROVE Waits(fiber[r[1]][r[2]])'
  <2>1. CASE r \in Registered
    BY <1>1, <1>4, <2>1 DEF Waits
  <2>2. CASE r = <<c, e>>
    BY <1>1, <1>6, <2>2 DEF Waits
  <2> QED  BY <1>2, <2>1, <2>2
<1>11. ASSUME NEW g \in Fibers, Waits(g)'
       PROVE  \E r \in Registered' : fiber'[r[1]][r[2]] = g
  <2>1. CASE g = f
    <3>1. <<c, e>> \in Registered' /\ fiber'[<<c, e>>[1]][<<c, e>>[2]] = g
      BY <1>2, <1>6, <2>1
    <3> QED  BY <3>1
  <2>2. CASE g # f
    BY <1>1, <1>2, <1>4, <1>11, <2>2 DEF Waits
  <2> QED  BY <2>1, <2>2
<1>12. ScheduledHolds'
  BY <1>1 DEF ScheduledHolds, TypeOK
<1> QED  BY <1>7, <1>8, <1>9, <1>10, <1>11, <1>12

\* Steps that neither register nor trigger.
LEMMA WakeKept ==
    ASSUME TypeOK, PendingExact, WakeInv, UNCHANGED eventVars,
           \A f \in Fibers : pc'[f] = "held" <=> pc[f] = "held"
    PROVE  PendingExact' /\ WakeInv'
<1> USE DEF WakeInv, OneWakeUp, WaitsIffRegistered
<1>1. Registered' = Registered
  BY DEF Registered, eventVars
<1>2. \A r \in Registered : fiber[r[1]][r[2]] \in Fibers
  BY DEF Registered, TypeOK, EventHasFiber
<1>3. \A f \in Fibers : Waits(f)' <=> Waits(f)
  BY DEF Waits, eventVars
<1>4. EventHasFiber' /\ FiberOnce'
  BY <1>1 DEF EventHasFiber, FiberOnce, eventVars
<1>5. WaitsIffRegistered'
  <2>1. ASSUME NEW r \in Registered' PROVE Waits(fiber[r[1]][r[2]])'
    BY <1>1, <1>2 DEF Waits, eventVars
  <2>2. ASSUME NEW f \in Fibers, Waits(f)'
        PROVE  \E r \in Registered' : fiber'[r[1]][r[2]] = f
    BY <1>1, <1>3, <2>2 DEF eventVars
  <2> QED  BY <2>1, <2>2
<1>6. ScheduledHolds' /\ PendingExact'
  BY <1>1 DEF ScheduledHolds, PendingExact, TypeOK, eventVars
<1> QED  BY <1>4, <1>5, <1>6

\* Steps after which the kernel watches nothing new.
LEMMA EpollKept ==
    ASSUME EpollAgrees, m_events' = m_events,
           \A fd \in Fds : \/ epoll'[fd].gen = 0
                           \/ /\ epoll'[fd].gen = epoll[fd].gen
                              /\ epoll'[fd].events = epoll[fd].events
    PROVE  EpollAgrees'
  BY DEF EpollAgrees

-----------------------------------------------------------------------------
(* The inductive invariant *)

LEMMA InitInv == Init => Inv
<1> SUFFICES ASSUME Init PROVE Inv
  OBVIOUS
<1>1. 0 \in 0..MaxGen /\ 1 \in 0..MaxGen
  BY IOAssumption
<1>2. TypeOK
  BY <1>1, IOAssumption DEF Init, TypeOK, Entries, Watched, NoEntry
<1>3. CallOK /\ TableOK
  BY IOAssumption DEF Init, CallOK, TableOK
<1>4. Registered = {}
  BY DEF Init, Registered
<1>5. PendingExact
  BY <1>4, FS_EmptySet DEF Init, PendingExact
<1>6. WakeInv
  BY <1>4 DEF Init, WakeInv, OneWakeUp, EventHasFiber, FiberOnce, WaitsIffRegistered,
              ScheduledHolds, Waits
<1>7. EpollAgrees
  BY DEF Init, EpollAgrees, NoEntry
<1> QED  BY <1>2, <1>3, <1>5, <1>6, <1>7 DEF Inv, TypeInv

\* A context with registered events has an entry of the table.
LEMMA ContextOfTable ==
    ASSUME TypeInv, NEW fd \in Fds, size > fd
    PROVE  /\ Context(fd, m_fdContexts[fd]) \in Contexts
           /\ Context(fd, m_fdContexts[fd]).fd = fd
<1>1. m_fdContexts[fd] \in 0..MaxGen /\ m_fdContexts[fd] # 0
  BY IOAssumption DEF TypeInv, TypeOK, TableOK
<1> QED  BY <1>1, ContextType DEF Context

\* What every use of epoll_ctl together with triggerContext keeps.
LEMMA CtlTrigger ==
    ASSUME Inv, NEW c \in Contexts, NEW S \in SUBSET Events, S \subseteq m_events[c],
           Ctl(c, m_events[c] \ S), Trigger(c, S),
           \A f \in Fibers : pc'[f] = "held" <=> pc[f] = "held"
    PROVE  /\ epoll' \in [Fds -> Entries]
           /\ m_events' \in [Contexts -> SUBSET Events]
           /\ fiber' \in [Contexts -> [Events -> Fibers \cup {NoFiber}]]
           /\ m_pendingEventCounts' \in Nat
           /\ scheduled' \subseteq Fibers
           /\ PendingExact' /\ WakeInv' /\ EpollAgrees'
<1> USE DEF Inv, TypeInv
<1>1. EventHasFiber
  BY DEF WakeInv, OneWakeUp
<1>2. m_events' = [m_events EXCEPT ![c] = m_events[c] \ S]
  BY DEF Trigger
<1>3. m_events[c] \ S \in SUBSET Events
  BY DEF TypeOK
<1>4. WakeInv'
  BY TriggerWake
<1> QED  BY <1>1, <1>2, <1>3, <1>4, TriggerType, CtlEpoll

\* cancelAll, whether it does something or not.
LEMMA CancelAllKeeps ==
    ASSUME Inv, NEW fd \in Fds, CancelAll(fd),
           \A f \in Fibers : pc'[f] = "held" <=> pc[f] = "held"
    PROVE  /\ epoll' \in [Fds -> Entries]
           /\ m_events' \in [Contexts -> SUBSET Events]
           /\ fiber' \in [Contexts -> [Events -> Fibers \cup {NoFiber}]]
           /\ m_pendingEventCounts' \in Nat
           /\ scheduled' \subseteq Fibers
           /\ PendingExact' /\ WakeInv' /\ EpollAgrees'
<1> DEFINE c == Context(fd, m_fdContexts[fd])
<1>1. CASE size > fd /\ m_events[c] # {} /\ CtlSucceeds(FALSE, fd)
  <2>1. c \in Contexts
    BY <1>1, ContextOfTable DEF Inv
  <2>2. m_events[c] \in SUBSET Events /\ m_events[c] \ m_events[c] = {}
    BY <2>1 DEF Inv, TypeInv, TypeOK
  <2>3. Ctl(c, {}) /\ Trigger(c, m_events[c])
    BY <1>1 DEF CancelAll
  <2> QED  BY <2>1, <2>2, <2>3, CtlTrigger
<1>2. CASE ~(size > fd /\ m_events[c] # {} /\ CtlSucceeds(FALSE, fd))
  <2>1. UNCHANGED <<epoll, eventVars>>
    BY <1>2 DEF CancelAll
  <2>2. PendingExact' /\ WakeInv'
    BY <2>1, WakeKept DEF Inv, TypeInv
  <2> QED  BY <2>1, <2>2 DEF Inv, TypeInv, TypeOK, EpollAgrees, eventVars
<1> QED  BY <1>1, <1>2

\* contextResize keeps the table in order.
LEMMA ResizeKeeps ==
    ASSUME TypeInv, NEW n \in Nat, ContextResize(n)
    PROVE  /\ m_fdContexts' \in [Fds -> 0..MaxGen] /\ gens' \in [Fds -> 0..MaxGen]
           /\ size' = n /\ shrunk' \in BOOLEAN
           /\ TableOK'
<1>1. \A fd \in Fds : /\ m_fdContexts[fd] \in 0..MaxGen /\ gens[fd] \in 0..MaxGen
                      /\ fd < n /\ m_fdContexts[fd] = 0 => gens[fd] + 1 \in 1..MaxGen
  BY IOAssumption DEF TypeInv, TypeOK, ContextResize
<1>2. /\ m_fdContexts' = [fd \in Fds |-> IF fd >= n THEN 0
                                         ELSE IF m_fdContexts[fd] = 0 THEN gens[fd] + 1
                                         ELSE m_fdContexts[fd]]
      /\ gens' = [fd \in Fds |-> IF fd < n /\ m_fdContexts[fd] = 0 THEN gens[fd] + 1
                                 ELSE gens[fd]]
      /\ size' = n
  BY DEF ContextResize
<1>3. \A fd \in Fds : fd \in Nat /\ 0 \in 0..MaxGen
  BY IOAssumption
<1>4. m_fdContexts' \in [Fds -> 0..MaxGen]
  BY <1>1, <1>2, <1>3
<1>5. gens' \in [Fds -> 0..MaxGen]
  BY <1>1, <1>2, <1>3
<1>6. TableOK'
  BY <1>1, <1>2, <1>3, IOAssumption DEF TableOK
<1>7. shrunk' \in BOOLEAN
  BY Zenon DEF ContextResize
<1> QED  BY <1>2, <1>4, <1>5, <1>6, <1>7

LEMMA NextInv == Inv /\ [Next]_vars => Inv'
<1> SUFFICES ASSUME Inv, [Next]_vars PROVE Inv'
  OBVIOUS
<1> USE IOAssumption DEF Inv, TypeInv, Goto
<1>ops. \A fd \in Fds, e \in Events, g \in 0..MaxGen :
          [fd |-> fd, event |-> e, gen |-> g] \in Ops
  BY DEF Ops
<1>0. CASE UNCHANGED vars
  <2>1. PendingExact' /\ WakeInv'
    BY <1>0, WakeKept DEF vars
  <2> QED  BY <1>0, <2>1 DEF vars, kernelVars, tableVars, eventVars, TypeOK, CallOK, TableOK,
                            EpollAgrees
<1>1. ASSUME NEW f \in Fibers, NEW fd \in Fds, Open(f, fd) PROVE Inv'
  <2> USE <1>1 DEF Open
  <2>1. PendingExact' /\ WakeInv'
    BY WakeKept
  <2>2. TypeOK'
    BY DEF TypeOK, tableVars, eventVars
  <2>3. CallOK' /\ TableOK' /\ EpollAgrees'
    BY DEF CallOK, TableOK, EpollAgrees, tableVars, eventVars
  <2> QED  BY <2>1, <2>2, <2>3
<1>2. ASSUME NEW fd \in Fds, NEW s \in Events \cup {"HUP"}, BecomeReady(fd, s) PROVE Inv'
  <2> USE <1>2 DEF BecomeReady
  <2>1. PendingExact' /\ WakeInv'
    BY WakeKept
  <2>2. /\ epoll' \in [Fds -> Entries]
        /\ \A d \in Fds : /\ epoll'[d].gen = epoll[d].gen
                          /\ epoll'[d].events = epoll[d].events
    <3> DEFINE b == epoll[fd].gen # 0
    <3>1. epoll' = [epoll EXCEPT ![fd] = [epoll[fd] EXCEPT !.armed = b]]
      OBVIOUS
    <3>2. epoll \in [Fds -> Entries] /\ epoll[fd] \in Entries
      BY DEF TypeOK
    <3>3. /\ [epoll[fd] EXCEPT !.armed = b] \in Entries
          /\ [epoll[fd] EXCEPT !.armed = b].gen = epoll[fd].gen
          /\ [epoll[fd] EXCEPT !.armed = b].events = epoll[fd].events
      BY <3>2, EntryArmed
    <3> HIDE <1>2 DEF b
    <3> QED  BY <3>1, <3>2, <3>3
  <2>3. TypeOK'
    BY <2>2 DEF TypeOK, tableVars, eventVars
  <2>4. EpollAgrees'
    BY <2>2, EpollKept DEF eventVars
  <2>5. CallOK' /\ TableOK'
    BY DEF CallOK, TableOK, tableVars
  <2> QED  BY <2>1, <2>3, <2>4, <2>5
<1>3. ASSUME NEW f \in Fibers, NEW fd \in Fds, NEW e \in Events, Consume(f, fd, e) PROVE Inv'
  <2> USE <1>3 DEF Consume
  <2>1. PendingExact' /\ WakeInv'
    BY WakeKept
  <2>2. TypeOK'
    BY DEF TypeOK, tableVars, eventVars
  <2>3. CallOK' /\ TableOK' /\ EpollAgrees'
    BY DEF CallOK, TableOK, EpollAgrees, tableVars, eventVars
  <2> QED  BY <2>1, <2>2, <2>3
<1>4. ASSUME NEW f \in Fibers, NEW fd \in Fds, NEW e \in Events, AddEvent(f, fd, e) PROVE Inv'
  <2> USE <1>4 DEF AddEvent
  <2>1. PendingExact' /\ WakeInv'
    BY WakeKept DEF TypeOK
  <2>2. m_fdContexts[fd] \in 0..MaxGen
    BY DEF TypeOK
  <2>3. TypeOK'
    BY <1>ops, <2>2 DEF TypeOK, kernelVars, tableVars, eventVars
  <2>4. CallOK'
    BY <1>ops, <2>2 DEF CallOK, TypeOK, TableOK
  <2>5. TableOK' /\ EpollAgrees'
    BY DEF TableOK, EpollAgrees, kernelVars, tableVars, eventVars
  <2> QED  BY <2>1, <2>3, <2>4, <2>5
<1>5. ASSUME NEW f \in Fibers, Resize(f) PROVE Inv'
  <2> USE <1>5 DEF Resize
  <2> DEFINE fd == op[f].fd
  <2>1. PendingExact' /\ WakeInv'
    BY WakeKept DEF TypeOK
  <2>2. op[f] \in Ops
    BY DEF CallOK
  <2>3. fd \in Fds /\ NewSize(fd) \in Nat /\ fd < NewSize(fd)
    BY <2>2 DEF Ops, NewSize
  <2>4. /\ m_fdContexts' \in [Fds -> 0..MaxGen] /\ gens' \in [Fds -> 0..MaxGen]
        /\ size' = NewSize(fd) /\ shrunk' \in BOOLEAN /\ TableOK'
    BY <2>3, ResizeKeeps
  <2>5. m_fdContexts'[fd] \in 0..MaxGen /\ m_fdContexts'[fd] # 0
    BY <2>3, <2>4 DEF TableOK
  <2>6. op' = [op EXCEPT ![f].gen = m_fdContexts'[fd]] /\ pc' = [pc EXCEPT ![f] = "register"]
    OBVIOUS
  <2> HIDE <1>5
  <2>7. /\ \A g \in Fibers : op'[g] \in Ops \cup {NoOp} /\ (g # f => op'[g] = op[g])
        /\ op' \in [Fibers -> Ops \cup {NoOp}]
        /\ op'[f] \in Ops /\ op'[f].gen # 0
    BY <2>2, <2>5, <2>6 DEF TypeOK, Ops
  <2>8. TypeOK'
    BY <1>5, <2>3, <2>4, <2>7 DEF TypeOK, kernelVars, eventVars
  <2>9. CallOK'
    BY <2>6, <2>7 DEF CallOK, TypeOK
  <2>10. EpollAgrees'
    BY <1>5 DEF EpollAgrees, kernelVars, eventVars
  <2> QED  BY <2>1, <2>4, <2>8, <2>9, <2>10
<1>6. ASSUME NEW f \in Fibers, Register(f) PROVE Inv'
  <2> DEFINE fd == op[f].fd
             e == op[f].event
             c == Context(fd, op[f].gen)
  <2>1. /\ pc[f] = "register" /\ e \notin m_events[c]
        /\ Ctl(c, m_events[c] \cup {e})
        /\ m_pendingEventCounts' = m_pendingEventCounts + 1
        /\ m_events' = [m_events EXCEPT ![c] = @ \cup {e}]
        /\ fiber' = [fiber EXCEPT ![c][e] = f]
        /\ pc' = [pc EXCEPT ![f] = "held"]
        /\ UNCHANGED <<open, ready, managed, owner, tableVars, scheduled, op, batch, failed>>
    BY <1>6 DEF Register
  <2>2. op[f] \in Ops /\ op[f].gen # 0
    BY <2>1 DEF CallOK
  <2>3. c \in Contexts /\ e \in Events
    BY <2>2, ContextType DEF Ops
  <2> HIDE DEF fd, e, c
  <2>4. PendingExact' /\ WakeInv'
    BY <2>1, <2>3, RegisterWake
  <2>5. m_events' = [m_events EXCEPT ![c] = m_events[c] \cup {e}]
        /\ m_events[c] \cup {e} \in SUBSET Events
    BY <2>1, <2>3 DEF TypeOK
  <2>6. epoll' \in [Fds -> Entries] /\ EpollAgrees'
    BY <2>1, <2>3, <2>5, CtlEpoll
  <2>7. /\ m_events' \in [Contexts -> SUBSET Events]
        /\ fiber' \in [Contexts -> [Events -> Fibers \cup {NoFiber}]]
    BY <2>1, <2>3 DEF TypeOK
  <2>8. TypeOK'
    BY <2>1, <2>6, <2>7 DEF TypeOK, tableVars
  <2>9. CallOK' /\ TableOK'
    BY <2>1, <2>2 DEF CallOK, TableOK, TypeOK, tableVars
  <2> QED  BY <2>4, <2>6, <2>8, <2>9
<1>7. ASSUME NEW f \in Fibers, RegisterError(f) PROVE Inv'
  <2> USE <1>7 DEF RegisterError
  <2>1. PendingExact' /\ WakeInv'
    BY WakeKept DEF TypeOK
  <2>2. TypeOK'
    BY DEF TypeOK, kernelVars, tableVars, eventVars
  <2>3. CallOK' /\ TableOK' /\ EpollAgrees'
    BY DEF CallOK, TypeOK, TableOK, EpollAgrees, kernelVars, tableVars, eventVars
  <2> QED  BY <2>1, <2>2, <2>3
<1>8. ASSUME NEW f \in Fibers, RegisterAssert(f) PROVE Inv'
  <2> USE <1>8 DEF RegisterAssert
  <2>1. PendingExact' /\ WakeInv'
    BY WakeKept
  <2>2. TypeOK'
    BY DEF TypeOK, kernelVars, tableVars, eventVars
  <2>3. CallOK' /\ TableOK' /\ EpollAgrees'
    BY DEF CallOK, TableOK, EpollAgrees, kernelVars, tableVars, eventVars
  <2> QED  BY <2>1, <2>2, <2>3
<1>9. ASSUME NEW f \in Fibers, Resume(f) PROVE Inv'
  <2> USE <1>9 DEF Resume
  <2>1. TypeOK'
    BY DEF TypeOK, kernelVars, tableVars
  <2>2. CallOK' /\ TableOK' /\ EpollAgrees'
    BY DEF CallOK, TypeOK, TableOK, EpollAgrees, kernelVars, tableVars
  <2>3. Registered' = Registered
    BY DEF Registered
  <2>4. \A r \in Registered : fiber[r[1]][r[2]] \in Fibers
    BY DEF Registered, TypeOK, WakeInv, OneWakeUp, EventHasFiber
  <2>5. \A g \in Fibers : Waits(g)' <=> Waits(g)
    BY DEF Waits, TypeOK
  <2>6. EventHasFiber' /\ FiberOnce'
    BY <2>3 DEF EventHasFiber, FiberOnce, WakeInv, OneWakeUp
  <2>7. WaitsIffRegistered'
    <3>1. \A r \in Registered' : fiber'[r[1]][r[2]] \in Fibers /\ Waits(fiber[r[1]][r[2]])
      BY <2>3, <2>4 DEF WaitsIffRegistered, WakeInv, OneWakeUp
    <3>2. \A r \in Registered' : Waits(fiber[r[1]][r[2]])'
      BY <3>1 DEF Waits, TypeOK
    <3>3. \A g \in Fibers : Waits(g)' => \E r \in Registered' : fiber'[r[1]][r[2]] = g
      BY <2>3, <2>5 DEF WaitsIffRegistered, WakeInv, OneWakeUp
    <3> QED  BY <3>2, <3>3 DEF WaitsIffRegistered
  <2>8. ScheduledHolds' /\ PendingExact'
    BY <2>3 DEF ScheduledHolds, PendingExact, WakeInv, TypeOK
  <2> QED  BY <2>1, <2>2, <2>6, <2>7, <2>8 DEF WakeInv, OneWakeUp
<1>10. ASSUME NEW fd \in Fds, NEW e \in Events, CancelEvent(fd, e) PROVE Inv'
  <2> DEFINE c == Context(fd, m_fdContexts[fd])
  <2>1. /\ size > fd /\ e \in m_events[c]
        /\ Ctl(c, m_events[c] \ {e}) /\ Trigger(c, {e})
        /\ UNCHANGED <<open, ready, managed, owner, tableVars, pc, op, batch, failed>>
    BY <1>10 DEF CancelEvent
  <2>2. c \in Contexts
    BY <2>1, ContextOfTable
  <2> HIDE DEF c
  <2>3. {e} \in SUBSET Events /\ {e} \subseteq m_events[c]
    BY <2>1
  <2>4. /\ epoll' \in [Fds -> Entries]
        /\ m_events' \in [Contexts -> SUBSET Events]
        /\ fiber' \in [Contexts -> [Events -> Fibers \cup {NoFiber}]]
        /\ m_pendingEventCounts' \in Nat
        /\ scheduled' \subseteq Fibers
        /\ PendingExact' /\ WakeInv' /\ EpollAgrees'
    BY <2>1, <2>2, <2>3, CtlTrigger
  <2>5. TypeOK'
    BY <2>1, <2>4 DEF TypeOK, tableVars
  <2>6. CallOK' /\ TableOK'
    BY <2>1 DEF CallOK, TableOK, tableVars
  <2> QED  BY <2>4, <2>5, <2>6
<1>11. ASSUME NEW f \in Fibers, NEW fd \in Fds, Close(f, fd) PROVE Inv'
  <2>1. /\ pc[f] = "run"
        /\ op' = [op EXCEPT ![f] = [fd |-> fd, event |-> "READ", gen |-> 0]]
        /\ \E label \in {"forget", "close"} : pc' = [pc EXCEPT ![f] = label]
        /\ UNCHANGED <<open, ready, managed, owner, tableVars, batch, failed>>
    BY <1>11 DEF Close
  <2>2. \A g \in Fibers : pc'[g] = "held" <=> pc[g] = "held"
    BY <2>1 DEF TypeOK
  <2>3. /\ epoll' \in [Fds -> Entries]
        /\ m_events' \in [Contexts -> SUBSET Events]
        /\ fiber' \in [Contexts -> [Events -> Fibers \cup {NoFiber}]]
        /\ m_pendingEventCounts' \in Nat
        /\ scheduled' \subseteq Fibers
        /\ PendingExact' /\ WakeInv' /\ EpollAgrees'
    <3>1. CASE CancelAll(fd)
      BY <2>2, <3>1, CancelAllKeeps
    <3>2. CASE UNCHANGED <<epoll, eventVars>>
      <4>1. PendingExact' /\ WakeInv'
        BY <2>2, <3>2, WakeKept
      <4> QED  BY <3>2, <4>1 DEF TypeOK, EpollAgrees, eventVars
    <3> QED  BY <1>11, <3>1, <3>2 DEF Close
  <2>4. op'[f] \in Ops /\ op' \in [Fibers -> Ops \cup {NoOp}]
    BY <2>1 DEF TypeOK, Ops, Events
  <2>5. TypeOK'
    BY <2>1, <2>3, <2>4 DEF TypeOK, tableVars
  <2>6. CallOK' /\ TableOK'
    BY <2>1, <2>4 DEF CallOK, TypeOK, TableOK, tableVars
  <2> QED  BY <2>3, <2>5, <2>6
<1>12. ASSUME NEW f \in Fibers, CloseForget(f) PROVE Inv'
  <2> USE <1>12 DEF CloseForget
  <2>1. PendingExact' /\ WakeInv'
    BY WakeKept DEF TypeOK
  <2>2. TypeOK'
    BY DEF TypeOK, kernelVars, tableVars, eventVars
  <2>3. CallOK' /\ TableOK' /\ EpollAgrees'
    BY DEF CallOK, TypeOK, TableOK, EpollAgrees, kernelVars, tableVars, eventVars
  <2> QED  BY <2>1, <2>2, <2>3
<1>13. ASSUME NEW f \in Fibers, CloseFd(f) PROVE Inv'
  <2> USE <1>13 DEF CloseFd
  <2>1. PendingExact' /\ WakeInv'
    BY WakeKept DEF TypeOK
  <2>2. op[f].fd \in Fds /\ NoEntry \in Entries /\ NoEntry.gen = 0
    BY DEF CallOK, Ops, NoEntry, Entries
  <2>3. TypeOK'
    BY <2>2 DEF TypeOK, tableVars, eventVars
  <2>4. EpollAgrees'
    BY <2>2, EpollKept DEF TypeOK, eventVars
  <2>5. CallOK' /\ TableOK'
    BY DEF CallOK, TypeOK, TableOK, tableVars
  <2> QED  BY <2>1, <2>3, <2>4, <2>5
<1>14. ASSUME NEW t \in IOThreads, EpollWait(t) PROVE Inv'
  <2> DEFINE fds == {fd \in Fds : epoll[fd].armed /\ Reported(fd) # {}}
             array == {[context |-> Context(fd, epoll[fd].gen),
                        real_event |-> Reported(fd)] : fd \in fds}
  <2>1. /\ batch' = [batch EXCEPT ![t] = array]
        /\ epoll' = [fd \in Fds |-> [epoll[fd] EXCEPT !.armed = @ /\ fd \notin fds]]
        /\ UNCHANGED <<open, ready, managed, owner, tableVars, eventVars, pc, op, failed>>
    BY <1>14 DEF EpollWait
  <2>2. ASSUME NEW fd \in fds
        PROVE  [context |-> Context(fd, epoll[fd].gen), real_event |-> Reported(fd)] \in Reports
    <3>1. epoll[fd].gen \in 0..MaxGen /\ epoll[fd].gen # 0
      BY DEF TypeOK, Entries, Watched, NoEntry
    <3>2. Context(fd, epoll[fd].gen) \in Contexts
      BY <3>1, ContextType
    <3>3. Reported(fd) \in SUBSET Events
      BY DEF TypeOK, Entries, Watched, NoEntry, Reported
    <3> QED  BY <3>2, <3>3 DEF Reports
  <2>3. array \subseteq Reports
    BY <2>2
  <2> HIDE DEF array, fds
  <2>4. PendingExact' /\ WakeInv'
    BY <2>1, WakeKept
  <2>5. \A fd \in Fds : /\ epoll'[fd] \in Entries
                        /\ epoll'[fd].gen = epoll[fd].gen
                        /\ epoll'[fd].events = epoll[fd].events
    <3> SUFFICES ASSUME NEW fd \in Fds
                 PROVE  /\ epoll'[fd] \in Entries
                        /\ epoll'[fd].gen = epoll[fd].gen
                        /\ epoll'[fd].events = epoll[fd].events
      OBVIOUS
    <3> DEFINE b == epoll[fd].armed /\ fd \notin fds
    <3>1. epoll[fd] \in Entries
      BY DEF TypeOK
    <3>2. epoll'[fd] = [epoll[fd] EXCEPT !.armed = b]
      BY <2>1
    <3>3. b \in BOOLEAN /\ (b => epoll[fd].gen # 0)
      BY <3>1 DEF Entries, Watched, NoEntry
    <3> HIDE DEF b
    <3> QED  BY <3>1, <3>2, <3>3, EntryArmed
  <2>6. TypeOK'
    BY <2>1, <2>3, <2>5 DEF TypeOK, tableVars, eventVars
  <2>7. EpollAgrees'
    BY <2>1, <2>5, EpollKept DEF eventVars
  <2>8. CallOK' /\ TableOK'
    BY <2>1 DEF CallOK, TableOK, tableVars
  <2> QED  BY <2>4, <2>6, <2>7, <2>8
<1>15. ASSUME NEW t \in IOThreads, NEW r \in batch[t], Handle(t, r) PROVE Inv'
  <2> DEFINE c == r.context
             S == r.real_event \cap m_events[c]
  <2>1. /\ \/ /\ Ctl(c, m_events[c] \ S) /\ Trigger(c, S)
           \/ UNCHANGED <<epoll, eventVars>>
        /\ batch' = [batch EXCEPT ![t] = @ \ {r}]
        /\ UNCHANGED <<open, ready, managed, owner, tableVars, pc, op, failed>>
    BY <1>15 DEF Handle
  <2>2. c \in Contexts
    BY DEF TypeOK, Reports
  <2>3. S \in SUBSET Events /\ S \subseteq m_events[c]
    BY <2>2 DEF TypeOK
  <2> HIDE DEF c, S
  <2>4. /\ epoll' \in [Fds -> Entries]
        /\ m_events' \in [Contexts -> SUBSET Events]
        /\ fiber' \in [Contexts -> [Events -> Fibers \cup {NoFiber}]]
        /\ m_pendingEventCounts' \in Nat
        /\ scheduled' \subseteq Fibers
        /\ PendingExact' /\ WakeInv' /\ EpollAgrees'
    <3>1. CASE Ctl(c, m_events[c] \ S) /\ Trigger(c, S)
      BY <2>1, <2>2, <2>3, <3>1, CtlTrigger
    <3>2. CASE UNCHANGED <<epoll, eventVars>>
      <4>1. PendingExact' /\ WakeInv'
        BY <2>1, <3>2, WakeKept
      <4> QED  BY <3>2, <4>1 DEF TypeOK, EpollAgrees, eventVars
    <3> QED  BY <2>1, <3>1, <3>2
  <2>5. batch' \in [IOThreads -> SUBSET Reports]
    BY <2>1 DEF TypeOK
  <2>6. TypeOK'
    BY <2>1, <2>4, <2>5 DEF TypeOK, tableVars
  <2>7. CallOK' /\ TableOK'
    BY <2>1 DEF CallOK, TableOK, tableVars
  <2> QED  BY <2>4, <2>6, <2>7
<1>16. CASE Next
  BY <1>1, <1>2, <1>3, <1>4, <1>5, <1>6, <1>7, <1>8, <1>9, <1>10, <1>11, <1>12, <1>13, <1>14,
     <1>15, <1>16 DEF Next, FiberStep, FiberCall, IOStep
<1> QED  BY <1>0, <1>16

LEMMA InvHolds == Spec => []Inv
  BY InitInv, NextInv, PTL DEF Spec

-----------------------------------------------------------------------------
(* The theorems *)

\* Every variable keeps its type: the counter of pending events never goes
\* below zero (iomanager.cpp:283, 324, 329, 473, 478) and a report always
\* names a context that was allocated.
THEOREM TypeCorrect == Spec => []TypeOK
<1>1. Inv => TypeOK
  BY DEF Inv, TypeInv
<1> QED  BY <1>1, InvHolds, PTL

\* The counter of pending events is exact, in every interleaving of addEvent,
\* cancelEvent, cancelAll, close and idle (iomanager.cpp:354 relies on it).
THEOREM PendingIsExact == Spec => []PendingExact
<1>1. Inv => PendingExact
  BY DEF Inv
<1> QED  BY <1>1, InvHolds, PTL

\* A fiber that holds for an event is woken by one of epoll_wait, a timeout
\* and close, once, whatever fibers share the descriptor
\* (FdContext::triggerContext).
THEOREM FiberIsWokenOnce == Spec => []OneWakeUp
<1>1. Inv => OneWakeUp
  BY DEF Inv, WakeInv
<1> QED  BY <1>1, InvHolds, PTL

\* The kernel watches only what is registered.
THEOREM EpollAgreesAlways == Spec => []EpollAgrees
<1>1. Inv => EpollAgrees
  BY DEF Inv
<1> QED  BY <1>1, InvHolds, PTL

-----------------------------------------------------------------------------
(* Descriptors that are not shared *)

\* A fiber inside a call is the owner of an open descriptor.
OwnCalls ==
    \A f \in Fibers : pc[f] # "run" => op[f].fd \in open /\ owner[op[f].fd] = f

\* An event is registered by the fiber that works on its descriptor.
OwnEvents == \A r \in Registered : op[fiber[r[1]][r[2]]].fd = r[1].fd

OwnInv == OwnCalls /\ OwnEvents /\ RegisteredWatched /\ AddEventAssertHolds

\* Only the owner of a descriptor has events of it registered, and it waits.
LEMMA OnlyOwnerWaits ==
    ASSUME Inv, OwnInv, NEW c \in Contexts, m_events[c] # {}
    PROVE  owner[c.fd] \in Fibers /\ pc[owner[c.fd]] = "held" /\ c.fd \in open
<1>1. PICK e \in m_events[c] : TRUE
  OBVIOUS
<1>2. <<c, e>> \in Registered
  BY <1>1 DEF Registered, Inv, TypeInv, TypeOK
<1>3. fiber[c][e] \in Fibers /\ Waits(fiber[c][e])
  BY <1>2 DEF Registered, Inv, TypeInv, TypeOK, WakeInv, OneWakeUp, EventHasFiber,
              WaitsIffRegistered
<1>4. op[fiber[c][e]].fd = c.fd
  BY <1>2 DEF OwnInv, OwnEvents
<1> QED  BY <1>3, <1>4 DEF Waits, OwnInv, OwnCalls

\* Steps that neither register, trigger nor change what is watched.
LEMMA OwnKept ==
    ASSUME Inv, OwnInv, UNCHANGED eventVars, failed' = failed, OwnCalls',
           \A f \in Fibers : pc[f] = "held" => op'[f] = op[f],
           \A fd \in Fds : \A c \in Contexts : c.fd = fd /\ m_events[c] # {} =>
               epoll'[fd].gen = epoll[fd].gen /\ epoll'[fd].events = epoll[fd].events
    PROVE  OwnInv'
<1>1. Registered' = Registered
  BY DEF Registered, eventVars
<1>2. \A r \in Registered : fiber[r[1]][r[2]] \in Fibers /\ pc[fiber[r[1]][r[2]]] = "held"
  BY DEF Registered, Inv, TypeInv, TypeOK, WakeInv, OneWakeUp, EventHasFiber,
         WaitsIffRegistered, Waits
<1>3. OwnEvents'
  BY <1>1, <1>2 DEF OwnInv, OwnEvents, eventVars
<1>4. \A c \in Contexts : c.fd \in Fds
  BY DEF Contexts
<1>5. RegisteredWatched'
  BY <1>4 DEF OwnInv, RegisteredWatched, eventVars
<1> QED  BY <1>3, <1>5 DEF OwnInv, AddEventAssertHolds

\* Triggering events of a context, whose owner has not moved.
LEMMA OwnTrigger ==
    ASSUME Inv, OwnInv, NEW c \in Contexts, NEW S \in SUBSET Events, S \subseteq m_events[c],
           S # {}, Ctl(c, m_events[c] \ S), Trigger(c, S), failed' = failed, OwnCalls',
           \A f \in Fibers : pc[f] = "held" => op'[f] = op[f]
    PROVE  OwnInv'
<1> USE DEF Inv, TypeInv
<1>1. /\ m_events' = [m_events EXCEPT ![c] = @ \ S]
      /\ \A d \in Contexts : m_events'[d] = IF d = c THEN m_events[c] \ S ELSE m_events[d]
      /\ \A d \in Contexts, e \in Events :
           fiber'[d][e] = IF d = c /\ e \in S THEN NoFiber ELSE fiber[d][e]
  BY DEF TypeOK, Trigger
<1>2. Registered' = Registered \ ({c} \X S)
  BY <1>1, RegisteredWithout
<1>3. \A r \in Registered' : r \in Registered /\ fiber'[r[1]][r[2]] = fiber[r[1]][r[2]]
  BY <1>1, <1>2 DEF Registered
<1>4. \A r \in Registered : fiber[r[1]][r[2]] \in Fibers /\ pc[fiber[r[1]][r[2]]] = "held"
  BY DEF Registered, TypeOK, WakeInv, OneWakeUp, EventHasFiber, WaitsIffRegistered, Waits
<1>5. OwnEvents'
  BY <1>3, <1>4 DEF OwnInv, OwnEvents
<1>6. \A d \in Contexts : d.fd \in Fds /\ d = Context(d.fd, d.gen)
  BY DEF Contexts, Context
<1>7. ASSUME NEW d \in Contexts, m_events'[d] # {}
      PROVE  epoll'[d.fd].gen = d.gen /\ epoll'[d.fd].events = m_events'[d]
  <2>1. m_events[d] # {} /\ m_events[c] # {}
    BY <1>1, <1>7
  <2>2. CASE d.fd = c.fd
    <3>1. d = c
      BY <1>6, <2>1, <2>2 DEF OwnInv, RegisteredWatched
    <3>2. epoll'[c.fd] = [gen |-> c.gen, events |-> m_events[c] \ S, armed |-> TRUE]
      BY <1>1, <1>6, <1>7, <3>1 DEF TypeOK, Ctl
    <3> QED  BY <1>1, <3>1, <3>2
  <2>3. CASE d.fd # c.fd
    <3>1. epoll'[d.fd] = epoll[d.fd] /\ m_events'[d] = m_events[d]
      BY <1>1, <1>6, <2>3 DEF TypeOK, Ctl
    <3> QED  BY <2>1, <3>1 DEF OwnInv, RegisteredWatched
  <2> QED  BY <2>2, <2>3
<1>8. RegisteredWatched'
  BY <1>7 DEF RegisteredWatched
<1> QED  BY <1>5, <1>8 DEF OwnInv, AddEventAssertHolds

LEMMA InitOwn == Init => OwnInv
<1> SUFFICES ASSUME Init PROVE OwnInv
  OBVIOUS
<1>1. Registered = {}
  BY DEF Init, Registered
<1> QED  BY <1>1 DEF Init, OwnInv, OwnCalls, OwnEvents, RegisteredWatched, AddEventAssertHolds

LEMMA NextOwn == ~Shared /\ Inv /\ OwnInv /\ [Next]_vars => OwnInv'
<1> SUFFICES ASSUME ~Shared, Inv, OwnInv, [Next]_vars PROVE OwnInv'
  OBVIOUS
<1> USE IOAssumption DEF Inv, TypeInv, Goto
<1>watched. \A c \in Contexts : c.fd \in Fds
  BY DEF Contexts
<1>0. CASE UNCHANGED vars
  <2>1. OwnCalls'
    BY <1>0 DEF OwnInv, OwnCalls, vars, kernelVars
  <2> QED  BY <1>0, <2>1, OwnKept DEF vars, kernelVars
<1>1. ASSUME NEW f \in Fibers, NEW fd \in Fds, Open(f, fd) PROVE OwnInv'
  <2> USE <1>1 DEF Open
  <2>1. OwnCalls'
    BY DEF OwnInv, OwnCalls, TypeOK
  <2> QED  BY <2>1, OwnKept
<1>2. ASSUME NEW fd \in Fds, NEW s \in Events \cup {"HUP"}, BecomeReady(fd, s) PROVE OwnInv'
  <2> USE <1>2 DEF BecomeReady
  <2>1. OwnCalls'
    BY DEF OwnInv, OwnCalls
  <2>2. \A d \in Fds : /\ epoll'[d].gen = epoll[d].gen
                       /\ epoll'[d].events = epoll[d].events
    <3> DEFINE b == epoll[fd].gen # 0
    <3>1. epoll' = [epoll EXCEPT ![fd] = [epoll[fd] EXCEPT !.armed = b]]
      OBVIOUS
    <3>2. epoll \in [Fds -> Entries] /\ epoll[fd] \in Entries
      BY DEF TypeOK
    <3>3. /\ [epoll[fd] EXCEPT !.armed = b].gen = epoll[fd].gen
          /\ [epoll[fd] EXCEPT !.armed = b].events = epoll[fd].events
      BY <3>2, EntryArmed
    <3> HIDE <1>2 DEF b
    <3> QED  BY <3>1, <3>2, <3>3
  <2> QED  BY <2>1, <2>2, OwnKept
<1>3. ASSUME NEW f \in Fibers, NEW fd \in Fds, NEW e \in Events, Consume(f, fd, e)
      PROVE  OwnInv'
  <2> USE <1>3 DEF Consume
  <2>1. OwnCalls'
    BY DEF OwnInv, OwnCalls
  <2> QED  BY <2>1, OwnKept
<1>4. ASSUME NEW f \in Fibers, NEW fd \in Fds, NEW e \in Events, AddEvent(f, fd, e)
      PROVE  OwnInv'
  <2> USE <1>4 DEF AddEvent, MayUse
  <2>1. OwnCalls'
    BY DEF OwnInv, OwnCalls, TypeOK, kernelVars
  <2>2. \A g \in Fibers : pc[g] = "held" => op'[g] = op[g]
    BY DEF TypeOK
  <2> QED  BY <2>1, <2>2, OwnKept DEF kernelVars
<1>5. ASSUME NEW f \in Fibers, Resize(f) PROVE OwnInv'
  <2>1. /\ op' = [op EXCEPT ![f].gen = m_fdContexts'[op[f].fd]]
        /\ pc[f] = "resize" /\ pc' = [pc EXCEPT ![f] = "register"]
        /\ UNCHANGED <<kernelVars, managed, owner, eventVars, batch, failed>>
    BY <1>5 DEF Resize
  <2>2. \A g \in Fibers : pc[g] = "held" => op'[g] = op[g]
    BY <2>1 DEF TypeOK
  <2>3. \A g \in Fibers : pc'[g] # "run" => pc[g] # "run" /\ op'[g].fd = op[g].fd
    BY <2>1 DEF TypeOK, Ops, CallOK
  <2>4. OwnCalls'
    BY <2>1, <2>3 DEF OwnInv, OwnCalls, kernelVars
  <2> QED  BY <2>1, <2>2, <2>4, OwnKept DEF kernelVars
<1>6. ASSUME NEW f \in Fibers, Register(f) PROVE OwnInv'
  <2> DEFINE fd == op[f].fd
             e == op[f].event
             c == Context(fd, op[f].gen)
  <2>1. /\ pc[f] = "register" /\ e \notin m_events[c]
        /\ Ctl(c, m_events[c] \cup {e})
        /\ m_events' = [m_events EXCEPT ![c] = @ \cup {e}]
        /\ fiber' = [fiber EXCEPT ![c][e] = f]
        /\ pc' = [pc EXCEPT ![f] = "held"]
        /\ UNCHANGED <<open, owner, op, failed>>
    BY <1>6 DEF Register
  <2>2. op[f] \in Ops /\ op[f].gen # 0
    BY <2>1 DEF CallOK
  <2>3. c \in Contexts /\ e \in Events /\ fd \in Fds
    BY <2>2, ContextType DEF Ops
  <2>4. c.fd = fd
    BY DEF Context
  <2>5. owner[fd] = f
    BY <2>1 DEF OwnInv, OwnCalls
  <2> HIDE DEF fd, e, c
  <2>6. \A d \in Contexts : m_events[d] # {} => d.fd # fd
    BY <2>1, <2>5, OnlyOwnerWaits
  <2>7. OwnCalls'
    BY <2>1 DEF OwnInv, OwnCalls, TypeOK
  <2>8. /\ \A d \in Contexts :
             m_events'[d] = IF d = c THEN m_events[c] \cup {e} ELSE m_events[d]
        /\ \A d \in Contexts, a \in Events :
             fiber'[d][a] = IF d = c /\ a = e THEN f ELSE fiber[d][a]
    BY <2>1, <2>3 DEF TypeOK
  <2>9. OwnEvents'
    <3>1. ASSUME NEW r \in Registered' PROVE op'[fiber'[r[1]][r[2]]].fd = r[1].fd
      <4>1. /\ r[1] \in Contexts /\ r[2] \in Events /\ r = <<r[1], r[2]>>
            /\ r[2] \in m_events'[r[1]]
        BY DEF Registered
      <4>2. CASE r[1] = c /\ r[2] = e
        BY <2>1, <2>4, <2>8, <4>1, <4>2 DEF fd
      <4>3. CASE ~(r[1] = c /\ r[2] = e)
        <5>1. r \in Registered /\ fiber'[r[1]][r[2]] = fiber[r[1]][r[2]]
          BY <2>8, <4>1, <4>3 DEF Registered
        <5> QED  BY <2>1, <5>1 DEF OwnInv, OwnEvents
      <4> QED  BY <4>2, <4>3
    <3> QED  BY <3>1 DEF OwnEvents
  <2>10. ASSUME NEW d \in Contexts, m_events'[d] # {}
         PROVE  epoll'[d.fd].gen = d.gen /\ epoll'[d.fd].events = m_events'[d]
    <3>1. CASE d = c
      <4>1. epoll'[fd] = [gen |-> c.gen, events |-> m_events[c] \cup {e}, armed |-> TRUE]
        BY <2>1, <2>3, <2>4 DEF TypeOK, Ctl
      <4> QED  BY <2>3, <2>4, <2>8, <3>1, <4>1
    <3>2. CASE d # c
      <4>1. m_events'[d] = m_events[d] /\ d.fd # fd
        BY <2>6, <2>8, <2>10, <3>2
      <4>2. epoll'[d.fd] = epoll[d.fd]
        BY <1>watched, <2>1, <2>4, <4>1 DEF TypeOK, Ctl
      <4> QED  BY <2>10, <4>1, <4>2 DEF OwnInv, RegisteredWatched
    <3> QED  BY <3>1, <3>2
  <2>11. RegisteredWatched' /\ AddEventAssertHolds'
    BY <2>1, <2>10 DEF RegisteredWatched, OwnInv, AddEventAssertHolds
  <2> QED  BY <2>7, <2>9, <2>11 DEF OwnInv
<1>7. ASSUME NEW f \in Fibers, RegisterError(f) PROVE OwnInv'
  <2> USE <1>7 DEF RegisterError
  <2>1. OwnCalls'
    BY DEF OwnInv, OwnCalls, TypeOK, kernelVars
  <2>2. \A g \in Fibers : pc[g] = "held" => op'[g] = op[g]
    BY DEF TypeOK
  <2> QED  BY <2>1, <2>2, OwnKept DEF kernelVars
<1>8. ASSUME NEW f \in Fibers, RegisterAssert(f) PROVE OwnInv'
  <2> DEFINE c == Context(op[f].fd, op[f].gen)
  <2>1. pc[f] = "register" /\ op[f].event \in m_events[c]
    BY <1>8 DEF RegisterAssert
  <2>2. op[f] \in Ops /\ op[f].gen # 0
    BY <2>1 DEF CallOK
  <2>3. c \in Contexts /\ c.fd = op[f].fd
    BY <2>2, ContextType DEF Ops, Context
  <2>4. owner[op[f].fd] = f
    BY <2>1 DEF OwnInv, OwnCalls
  <2> HIDE DEF c
  <2> QED  BY <2>1, <2>3, <2>4, OnlyOwnerWaits
<1>9. ASSUME NEW f \in Fibers, Resume(f) PROVE OwnInv'
  <2>1. /\ pc[f] = "held" /\ f \in scheduled
        /\ op' = [op EXCEPT ![f] = NoOp] /\ pc' = [pc EXCEPT ![f] = "run"]
        /\ UNCHANGED <<kernelVars, owner, m_events, fiber, failed>>
    BY <1>9 DEF Resume
  <2>2. Registered' = Registered
    BY <2>1 DEF Registered
  <2>3. OwnCalls'
    BY <2>1 DEF OwnInv, OwnCalls, TypeOK, kernelVars
  <2>4. \A r \in Registered : fiber[r[1]][r[2]] \in Fibers /\ fiber[r[1]][r[2]] # f
    BY <2>1 DEF Registered, TypeOK, WakeInv, OneWakeUp, EventHasFiber, WaitsIffRegistered,
                Waits
  <2>5. OwnEvents'
    BY <2>1, <2>2, <2>4 DEF OwnInv, OwnEvents, TypeOK
  <2>6. RegisteredWatched' /\ AddEventAssertHolds'
    BY <2>1 DEF OwnInv, RegisteredWatched, AddEventAssertHolds, kernelVars
  <2> QED  BY <2>3, <2>5, <2>6 DEF OwnInv
<1>10. ASSUME NEW fd \in Fds, NEW e \in Events, CancelEvent(fd, e) PROVE OwnInv'
  <2> DEFINE c == Context(fd, m_fdContexts[fd])
  <2>1. /\ size > fd /\ e \in m_events[c]
        /\ Ctl(c, m_events[c] \ {e}) /\ Trigger(c, {e})
        /\ UNCHANGED <<open, owner, pc, op, failed>>
    BY <1>10 DEF CancelEvent
  <2>2. c \in Contexts
    BY <2>1, ContextOfTable
  <2> HIDE DEF c
  <2>3. {e} \in SUBSET Events /\ {e} \subseteq m_events[c] /\ {e} # {}
    BY <2>1
  <2>4. OwnCalls'
    BY <2>1 DEF OwnInv, OwnCalls
  <2> QED  BY <2>1, <2>2, <2>3, <2>4, OwnTrigger
<1>11. ASSUME NEW f \in Fibers, NEW fd \in Fds, Close(f, fd) PROVE OwnInv'
  <2> DEFINE c == Context(fd, m_fdContexts[fd])
  <2>1. /\ pc[f] = "run" /\ fd \in open /\ owner[fd] = f
        /\ op' = [op EXCEPT ![f] = [fd |-> fd, event |-> "READ", gen |-> 0]]
        /\ \E label \in {"forget", "close"} : pc' = [pc EXCEPT ![f] = label]
        /\ UNCHANGED <<open, owner, failed>>
    BY <1>11 DEF Close
  <2>2. OwnCalls'
    BY <2>1 DEF OwnInv, OwnCalls, TypeOK
  <2>3. \A g \in Fibers : pc[g] = "held" => op'[g] = op[g]
    BY <2>1 DEF TypeOK
  <2>4. CASE UNCHANGED <<epoll, eventVars>>
    BY <2>1, <2>2, <2>3, <2>4, OwnKept
  <2>5. CASE size > fd /\ m_events[c] # {} /\ Ctl(c, {}) /\ Trigger(c, m_events[c])
    <3>1. c \in Contexts
      BY <2>5, ContextOfTable
    <3>2. m_events[c] \in SUBSET Events /\ m_events[c] \ m_events[c] = {}
      BY <3>1 DEF TypeOK
    <3> HIDE DEF c
    <3> QED  BY <2>1, <2>2, <2>3, <2>5, <3>1, <3>2, OwnTrigger
  <2> QED  BY <1>11, <2>4, <2>5 DEF Close, CancelAll
<1>12. ASSUME NEW f \in Fibers, CloseForget(f) PROVE OwnInv'
  <2> USE <1>12 DEF CloseForget
  <2>1. OwnCalls'
    BY DEF OwnInv, OwnCalls, TypeOK, kernelVars
  <2> QED  BY <2>1, OwnKept DEF kernelVars
<1>13. ASSUME NEW f \in Fibers, CloseFd(f) PROVE OwnInv'
  <2>1. /\ pc[f] = "close" /\ open' = open \ {op[f].fd}
        /\ epoll' = [epoll EXCEPT ![op[f].fd] = NoEntry]
        /\ op' = [op EXCEPT ![f] = NoOp] /\ pc' = [pc EXCEPT ![f] = "run"]
        /\ UNCHANGED <<owner, eventVars, failed>>
    BY <1>13 DEF CloseFd
  <2>2. owner[op[f].fd] = f
    BY <2>1 DEF OwnInv, OwnCalls
  <2>3. \A c \in Contexts : m_events[c] # {} => c.fd # op[f].fd
    BY <2>1, <2>2, OnlyOwnerWaits
  <2>4. OwnCalls'
    BY <2>1, <2>2 DEF OwnInv, OwnCalls, TypeOK
  <2>5. \A g \in Fibers : pc[g] = "held" => op'[g] = op[g]
    BY <2>1 DEF TypeOK
  <2>6. \A d \in Fds : \A c \in Contexts : c.fd = d /\ m_events[c] # {} => epoll'[d] = epoll[d]
    BY <2>1, <2>3 DEF TypeOK
  <2> QED  BY <2>1, <2>4, <2>5, <2>6, OwnKept
<1>14. ASSUME NEW t \in IOThreads, EpollWait(t) PROVE OwnInv'
  <2> DEFINE fds == {fd \in Fds : epoll[fd].armed /\ Reported(fd) # {}}
  <2>1. /\ epoll' = [fd \in Fds |-> [epoll[fd] EXCEPT !.armed = @ /\ fd \notin fds]]
        /\ UNCHANGED <<open, owner, eventVars, pc, op, failed>>
    BY <1>14 DEF EpollWait
  <2> HIDE DEF fds
  <2>2. ASSUME NEW fd \in Fds
        PROVE  epoll'[fd].gen = epoll[fd].gen /\ epoll'[fd].events = epoll[fd].events
    <3> DEFINE b == epoll[fd].armed /\ fd \notin fds
    <3>1. epoll[fd] \in Entries
      BY DEF TypeOK
    <3>2. epoll'[fd] = [epoll[fd] EXCEPT !.armed = b]
      BY <2>1
    <3>3. b \in BOOLEAN /\ (b => epoll[fd].gen # 0)
      BY <3>1 DEF Entries, Watched, NoEntry
    <3> HIDE DEF b
    <3> QED  BY <3>1, <3>2, <3>3, EntryArmed
  <2>3. OwnCalls'
    BY <2>1 DEF OwnInv, OwnCalls
  <2> QED  BY <2>1, <2>2, <2>3, OwnKept
<1>15. ASSUME NEW t \in IOThreads, NEW r \in batch[t], Handle(t, r) PROVE OwnInv'
  <2> DEFINE c == r.context
             S == r.real_event \cap m_events[c]
  <2>1. /\ \/ S # {} /\ Ctl(c, m_events[c] \ S) /\ Trigger(c, S)
           \/ UNCHANGED <<epoll, eventVars>>
        /\ UNCHANGED <<open, owner, pc, op, failed>>
    BY <1>15 DEF Handle
  <2>2. c \in Contexts
    BY DEF TypeOK, Reports
  <2>3. S \in SUBSET Events /\ S \subseteq m_events[c]
    BY <2>2 DEF TypeOK
  <2>4. OwnCalls'
    BY <2>1 DEF OwnInv, OwnCalls
  <2> HIDE DEF c, S
  <2>5. CASE S # {} /\ Ctl(c, m_events[c] \ S) /\ Trigger(c, S)
    BY <2>1, <2>2, <2>3, <2>4, <2>5, OwnTrigger
  <2>6. CASE UNCHANGED <<epoll, eventVars>>
    BY <2>1, <2>4, <2>6, OwnKept
  <2> QED  BY <2>1, <2>5, <2>6
<1>16. CASE Next
  BY <1>1, <1>2, <1>3, <1>4, <1>5, <1>6, <1>7, <1>8, <1>9, <1>10, <1>11, <1>12, <1>13, <1>14,
     <1>15, <1>16 DEF Next, FiberStep, FiberCall, IOStep
<1> QED  BY <1>0, <1>16

\* When no descriptor is shared, the kernel watches every registered event for
\* the context that registered it: no fiber waits for what cannot come, with
\* any reuse of numbers, any table size and any stale report (addEvent,
\* close, idle).
THEOREM OwnedEventsAreWatched == ASSUME ~Shared PROVE Spec => []RegisteredWatched
<1>1. Inv /\ OwnInv /\ [Next]_vars => OwnInv'
  BY NextOwn
<1>2. OwnInv => RegisteredWatched
  BY DEF OwnInv
<1> QED  BY <1>1, <1>2, InitOwn, InvHolds, PTL DEF Spec

\* Nor does addEvent then find its event registered: the assertion at
\* iomanager.cpp:154 holds.
THEOREM OwnedAssertHolds == ASSUME ~Shared PROVE Spec => []AddEventAssertHolds
<1>1. Inv /\ OwnInv /\ [Next]_vars => OwnInv'
  BY NextOwn
<1>2. OwnInv => AddEventAssertHolds
  BY DEF OwnInv
<1> QED  BY <1>1, <1>2, InitOwn, InvHolds, PTL DEF Spec

-----------------------------------------------------------------------------
(* The table, as long as it does not shrink *)

\* Only the entries below the size have contexts, every context with registered
\* events is in the table, and so is the one addEvent is about to use.
TableKept ==
    /\ \A fd \in Fds : m_fdContexts[fd] # 0 => fd < size
    /\ \A c \in Contexts : m_events[c] # {} => m_fdContexts[c.fd] = c.gen
    /\ \A f \in Fibers : pc[f] = "register" => m_fdContexts[op[f].fd] = op[f].gen

\* A resize that does not make the table smaller keeps what is in it.
LEMMA GrowsOnly ==
    ASSUME TypeInv, TableKept, NEW n \in Nat, ContextResize(n), ~shrunk'
    PROVE  /\ \A fd \in Fds : m_fdContexts[fd] # 0 => m_fdContexts'[fd] = m_fdContexts[fd]
           /\ \A fd \in Fds : m_fdContexts'[fd] # 0 => fd < size'
<1>0. ~(n < size)
  BY Zenon DEF ContextResize
<1>1. n >= size /\ size' = n
  BY <1>0 DEF ContextResize, TypeInv, TypeOK
<1>2. \A fd \in Fds : m_fdContexts'[fd] = IF fd >= n THEN 0
                                          ELSE IF m_fdContexts[fd] = 0 THEN gens[fd] + 1
                                          ELSE m_fdContexts[fd]
  BY DEF ContextResize
<1>3. \A fd \in Fds : fd \in Nat
  BY IOAssumption
<1> QED  BY <1>1, <1>2, <1>3 DEF TableKept, TypeInv, TypeOK

\* Every step keeps the table as it is, unless it makes it smaller.
LEMMA NextTable ==
    ASSUME Inv, TableKept, [Next]_vars, ~shrunk'
    PROVE  TableKept'
<1> USE IOAssumption DEF Inv, TypeInv, Goto
<1>c. \A c \in Contexts : c.fd \in Fds /\ c.gen # 0
  BY DEF Contexts
<1>0. CASE UNCHANGED vars
  BY <1>0 DEF TableKept, vars, tableVars, eventVars
<1>1. ASSUME NEW f \in Fibers, NEW fd \in Fds,
             Open(f, fd) \/ (\E e \in Events : Consume(f, fd, e))
      PROVE  TableKept'
  BY <1>1 DEF TableKept, Open, Consume, tableVars, eventVars
<1>2. ASSUME NEW fd \in Fds, NEW s \in Events \cup {"HUP"}, BecomeReady(fd, s)
      PROVE  TableKept'
  BY <1>2 DEF TableKept, BecomeReady, tableVars, eventVars
<1>3. ASSUME NEW f \in Fibers, NEW fd \in Fds, NEW e \in Events, AddEvent(f, fd, e)
      PROVE  TableKept'
  <2>1. /\ op' = [op EXCEPT ![f] = [fd |-> fd, event |-> e, gen |-> m_fdContexts[fd]]]
        /\ pc' = [pc EXCEPT ![f] = IF size > fd THEN "register" ELSE "resize"]
        /\ UNCHANGED <<tableVars, eventVars>>
    BY <1>3 DEF AddEvent
  <2>2. op'[f].fd = fd /\ op'[f].gen = m_fdContexts[fd]
    BY <2>1 DEF TypeOK
  <2>3. \A g \in Fibers \ {f} : op'[g] = op[g] /\ pc'[g] = pc[g]
    BY <2>1 DEF TypeOK
  <2> QED  BY <2>1, <2>2, <2>3 DEF TableKept, tableVars, eventVars
<1>4. ASSUME NEW f \in Fibers, Resize(f) PROVE TableKept'
  <2>1. /\ pc[f] = "resize" /\ ContextResize(NewSize(op[f].fd))
        /\ op' = [op EXCEPT ![f].gen = m_fdContexts'[op[f].fd]]
        /\ pc' = [pc EXCEPT ![f] = "register"]
        /\ UNCHANGED eventVars
    BY <1>4 DEF Resize
  <2>2. op[f] \in Ops /\ op[f].fd \in Fds /\ NewSize(op[f].fd) \in Nat
    BY <2>1 DEF CallOK, Ops, NewSize
  <2>3. op'[f].fd = op[f].fd /\ op'[f].gen = m_fdContexts'[op[f].fd]
    BY <2>1, <2>2 DEF TypeOK, Ops
  <2>4. \A g \in Fibers \ {f} : op'[g] = op[g] /\ pc'[g] = pc[g]
    BY <2>1 DEF TypeOK
  <2>5. /\ \A fd \in Fds : m_fdContexts[fd] # 0 => m_fdContexts'[fd] = m_fdContexts[fd]
        /\ \A fd \in Fds : m_fdContexts'[fd] # 0 => fd < size'
    BY <2>1, <2>2, GrowsOnly
  <2>6. (\A c \in Contexts : m_events[c] # {} => m_fdContexts[c.fd] = c.gen)'
    BY <2>1, <2>5, <1>c DEF TableKept, eventVars
  <2>7. ASSUME NEW g \in Fibers, pc'[g] = "register"
        PROVE  m_fdContexts'[op'[g].fd] = op'[g].gen
    <3>1. CASE g = f
      BY <2>3, <3>1
    <3>2. CASE g # f
      <4>1. pc[g] = "register" /\ op'[g] = op[g]
        BY <2>4, <2>7, <3>2
      <4>2. op[g].fd \in Fds /\ op[g].gen # 0 /\ m_fdContexts[op[g].fd] = op[g].gen
        BY <4>1 DEF CallOK, Ops, TableKept
      <4> QED  BY <2>5, <4>1, <4>2
    <3> QED  BY <3>1, <3>2
  <2> QED  BY <2>5, <2>6, <2>7 DEF TableKept
<1>5. ASSUME NEW f \in Fibers, Register(f) PROVE TableKept'
  <2> DEFINE c == Context(op[f].fd, op[f].gen)
  <2>1. /\ pc[f] = "register" /\ pc' = [pc EXCEPT ![f] = "held"]
        /\ m_events' = [m_events EXCEPT ![c] = @ \cup {op[f].event}]
        /\ UNCHANGED <<tableVars, op>>
    BY <1>5 DEF Register
  <2>2. m_fdContexts[c.fd] = c.gen
    BY <2>1 DEF TableKept, Context
  <2>3. \A d \in Contexts : d = c \/ m_events'[d] = m_events[d]
    BY <2>1 DEF TypeOK
  <2>4. \A g \in Fibers : pc'[g] = "register" => pc[g] = "register"
    BY <2>1 DEF TypeOK
  <2> HIDE DEF c
  <2>5. (\A d \in Contexts : m_events[d] # {} => m_fdContexts[d.fd] = d.gen)'
    BY <2>1, <2>2, <2>3 DEF TableKept, tableVars
  <2> QED  BY <2>1, <2>4, <2>5 DEF TableKept, tableVars
<1>6. ASSUME NEW f \in Fibers,
             \/ RegisterError(f) \/ RegisterAssert(f) \/ Resume(f) \/ CloseForget(f)
             \/ CloseFd(f)
      PROVE  TableKept'
  <2>1. UNCHANGED <<tableVars, m_events>>
    BY <1>6 DEF RegisterError, RegisterAssert, Resume, CloseForget, CloseFd, eventVars
  <2>2. \A g \in Fibers : pc'[g] = "register" => pc[g] = "register" /\ op'[g] = op[g]
    BY <1>6 DEF RegisterError, RegisterAssert, Resume, CloseForget, CloseFd, TypeOK
  <2> QED  BY <2>1, <2>2 DEF TableKept, tableVars
<1>7. ASSUME UNCHANGED tableVars,
             UNCHANGED eventVars \/ (\E c \in Contexts, S \in SUBSET Events : Trigger(c, S)),
             \A g \in Fibers : pc'[g] = "register" => pc[g] = "register" /\ op'[g] = op[g]
      PROVE  TableKept'
  <2>1. \A c \in Contexts : m_events'[c] # {} => m_events[c] # {}
    BY <1>7 DEF Trigger, eventVars, TypeOK
  <2> QED  BY <1>7, <2>1 DEF TableKept, tableVars
<1>8. ASSUME NEW fd \in Fds, NEW e \in Events, CancelEvent(fd, e) PROVE TableKept'
  <2>1. Context(fd, m_fdContexts[fd]) \in Contexts
    BY <1>8, ContextType DEF CancelEvent, TableOK, TypeOK
  <2>2. {e} \in SUBSET Events /\ Trigger(Context(fd, m_fdContexts[fd]), {e})
    BY <1>8 DEF CancelEvent
  <2>3. UNCHANGED <<tableVars, pc, op>>
    BY <1>8 DEF CancelEvent
  <2> QED  BY <1>7, <2>1, <2>2, <2>3
<1>9. ASSUME NEW f \in Fibers, NEW fd \in Fds, Close(f, fd) PROVE TableKept'
  <2> DEFINE c == Context(fd, m_fdContexts[fd])
  <2>1. UNCHANGED eventVars \/ (size > fd /\ Trigger(c, m_events[c]))
    BY <1>9 DEF Close, CancelAll
  <2>2. size > fd => c \in Contexts /\ m_events[c] \in SUBSET Events
    BY ContextType DEF TableOK, TypeOK
  <2>3. UNCHANGED tableVars
    BY <1>9 DEF Close
  <2>4. \A g \in Fibers : pc'[g] = "register" => pc[g] = "register" /\ op'[g] = op[g]
    BY <1>9 DEF Close, TypeOK
  <2> HIDE DEF c
  <2> QED  BY <1>7, <2>1, <2>2, <2>3, <2>4
<1>10. ASSUME NEW t \in IOThreads, EpollWait(t) PROVE TableKept'
  BY <1>10 DEF EpollWait, TableKept, tableVars, eventVars
<1>11. ASSUME NEW t \in IOThreads, NEW r \in batch[t], Handle(t, r) PROVE TableKept'
  <2>1. /\ \/ UNCHANGED eventVars
           \/ Trigger(r.context, r.real_event \cap m_events[r.context])
        /\ UNCHANGED <<tableVars, pc, op>>
    BY <1>11 DEF Handle
  <2>2. r.context \in Contexts
    BY DEF TypeOK, Reports
  <2>3. r.real_event \cap m_events[r.context] \in SUBSET Events
    BY <2>2 DEF TypeOK
  <2> QED  BY <1>7, <2>1, <2>2, <2>3
<1> QED  BY <1>0, <1>1, <1>2, <1>3, <1>4, <1>5, <1>6, <1>8, <1>9, <1>10, <1>11
         DEF Next, FiberStep, FiberCall, IOStep

\* A context with registered events stays in the table, where close, a timeout
\* or the next addEvent finds it, until a second resize makes the table smaller:
\* with descriptors shared or not, and for any size of the table (addEvent,
\* contextResize).
THEOREM RegisteredStaysInTable == Spec => []RegisteredInTable
<1>1. Init => shrunk \/ TableKept
  BY IOAssumption DEF Init, TableKept
<1>2. Inv /\ (shrunk \/ TableKept) /\ [Next]_vars => (shrunk \/ TableKept)'
  <2> SUFFICES ASSUME Inv, shrunk \/ TableKept, [Next]_vars, ~shrunk' PROVE TableKept'
    OBVIOUS
  <2>1. ~shrunk
    <3> SUFFICES ASSUME shrunk PROVE FALSE
      OBVIOUS
    <3>1. CASE UNCHANGED tableVars
      BY <3>1 DEF tableVars
    <3>2. ASSUME NEW f \in Fibers, Resize(f) PROVE FALSE
      BY <3>2 DEF Resize, ContextResize
    <3> QED  BY <3>1, <3>2
             DEF Next, FiberStep, FiberCall, IOStep, vars, Open, Consume, BecomeReady, AddEvent,
                 Register, RegisterError, RegisterAssert, Resume, CloseForget, CloseFd,
                 CancelEvent, Close, EpollWait, Handle
  <2> QED  BY <2>1, NextTable
<1>3. shrunk \/ TableKept => RegisteredInTable
  BY DEF TableKept, RegisteredInTable
<1> QED  BY <1>1, <1>2, <1>3, InvHolds, PTL DEF Spec
=============================================================================
