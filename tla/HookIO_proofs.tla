---------------------------- MODULE HookIO_proofs ----------------------------
(* What is proved about the hooked calls for every value of the constants.   *)
EXTENDS HookIO, TLAPS

\* A fiber inside a call has locals that fit the call, and uses a descriptor
\* it opened.
CallOK(f) ==
    /\ pc[f] = "idle" => call[f] = NoCall
    /\ pc[f] # "idle" => call[f].id \in 1..calls
    /\ pc[f] # "idle" /\ call[f].kind = "sleep" => pc[f] \in {"arm", "hold"} /\ call[f].timed
    /\ call[f].kind = "sleep" => call[f].fd = NoFd
    /\ call[f].kind # "sleep" =>
         call[f].fd \in Fds /\ owner[call[f].fd] = f /\ conn[call[f].fd] # "none"
    /\ call[f].kind = "accept" => call[f].event = "READ"
    /\ woken[f] # "no" => pc[f] \in {"hold", "cancelTimer", "check", "getsockopt"}

CallInv == \A f \in Fibers : CallOK(f)

\* A registered fiber holds for that event and was not scheduled yet.
RegInv ==
    \A x \in Fds \X Events :
        reg[x] # NoFiber =>
            /\ pc[reg[x]] = "hold" /\ woken[reg[x]] = "no"
            /\ call[reg[x]].kind # "sleep"
            /\ x = <<call[reg[x]].fd, call[reg[x]].event>>

\* An armed timer belongs to the current attempt of the current call; the one
\* timer of a sleep exists until it wakes the sleeper.
TimerOK(tm) ==
    /\ tm.call \in 1..calls
    /\ tm.at = "armed" =>
         /\ Alive(tm) /\ tm.attempt = call[tm.fiber].attempt
         /\ pc[tm.fiber] \in {"add", "hold", "cancelTimer"}
         /\ tm.kind = call[tm.fiber].kind
    /\ tm.kind = "sleep" =>
         /\ Alive(tm) /\ call[tm.fiber].kind = "sleep"
         /\ pc[tm.fiber] = "hold" /\ woken[tm.fiber] = "no"
         /\ tm.at \in {"armed", "queued"}
    /\ tm.kind # "sleep" => tm.fd \in Fds

\* Every step keeps what is said of timers.

TimerInv ==
    /\ \A tm \in timers : TimerOK(tm)
    /\ \A tm, other \in timers :
         tm.kind = "sleep" /\ other.kind = "sleep" /\ tm.fiber = other.fiber => tm = other

\* Whatever tells a fiber that its time is up stems from a timer of its call.
ElapsedInv ==
    /\ \A f \in Fibers :
        /\ cancelled[f] => f \in elapsed
        /\ pc[f] = "hold" /\ call[f].kind = "sleep" /\ woken[f] # "no" => f \in elapsed
    /\ \A tm \in timers : tm.at # "armed" /\ Alive(tm) => tm.fiber \in elapsed

Inv == TypeOK /\ CallInv /\ RegInv /\ TimerInv /\ ElapsedInv /\ HoldsHaveAWaker

-----------------------------------------------------------------------------
(* What the helpers do *)

Endings == {"ok", "timeout", "error", "slept", "connected"}

\* The fields of a call.
LEMMA CallFields ==
    ASSUME TypeOK, NEW f \in Fibers
    PROVE  /\ call[f] \in Calls
           /\ call[f].kind \in Kinds /\ call[f].fd \in Fds \cup {NoFd} /\ call[f].event \in Events
           /\ call[f].timed \in BOOLEAN /\ call[f].direct \in BOOLEAN
           /\ call[f].id \in Nat /\ call[f].attempt \in Nat
  BY DEF TypeOK, Calls

\* A fiber outside a call has locals, too.
LEMMA NoCallType == NoCall \in Calls
  BY DEF NoCall, Calls, Kinds, Events

\* The fields of a timer.
LEMMA TimerFields ==
    ASSUME TypeOK, NEW tm \in timers
    PROVE  /\ tm \in Timer
           /\ tm.fiber \in Fibers /\ tm.call \in Nat /\ tm.attempt \in Nat /\ tm.kind \in Kinds
           /\ tm.fd \in Fds \cup {NoFd} /\ tm.event \in Events
           /\ tm.at \in {"armed", "queued", "store", "cancel"}
  BY DEF TypeOK, Timer

\* What the locals of a fiber are after its call has returned.
LEMMA ReturnEffect ==
    ASSUME TypeOK, NEW f \in Fibers, NEW r \in Endings, Return(f, r)
    PROVE  /\ pc' = [pc EXCEPT ![f] = "idle"] /\ pc' \in [Fibers -> Labels]
           /\ call' = [call EXCEPT ![f] = NoCall] /\ call' \in [Fibers -> Calls]
           /\ cancelled' = [cancelled EXCEPT ![f] = FALSE] /\ cancelled' \in [Fibers -> BOOLEAN]
           /\ woken' = [woken EXCEPT ![f] = "no"]
           /\ woken' \in [Fibers -> {"no", "ready", "other"}]
           /\ elapsed' = elapsed \ {f} /\ elapsed' \subseteq Fibers
           /\ result' = [result EXCEPT ![f] = r]
           /\ result' \in [Fibers -> {"none"} \cup Endings]
<1>1. NoCall \in Calls
  BY NoCallType
<1> QED  BY <1>1 DEF TypeOK, Return, Goto, Labels, Endings

\* The fibers registered in S, and no others, are scheduled.
LEMMA WakeAllEffect ==
    ASSUME TypeOK, NEW S \in SUBSET (Fds \X Events), NEW why \in {"ready", "other"}, WakeAll(S, why)
    PROVE  /\ reg' \in [Fds \X Events -> Fibers \cup {NoFiber}]
           /\ woken' \in [Fibers -> {"no", "ready", "other"}]
           /\ \A x \in Fds \X Events : reg'[x] = IF x \in S THEN NoFiber ELSE reg[x]
           /\ \A f \in Fibers :
                woken'[f] = IF \E x \in S : reg[x] = f THEN why ELSE woken[f]
<1>1. \A f \in Fibers : f \in {reg[x] : x \in S} \ {NoFiber} <=> \E x \in S : reg[x] = f
  BY HookAssumption
<1> QED  BY <1>1 DEF TypeOK, WakeAll

\* A timer goes on to the next step of its callback.
LEMMA AdvanceEffect ==
    ASSUME TypeOK, NEW tm \in timers, NEW label \in {"queued", "store", "cancel"},
           Advance(tm, label)
    PROVE  \E next \in Timer :
             /\ timers' = (timers \ {tm}) \cup {next} /\ timers' \subseteq Timer
             /\ next.fiber = tm.fiber /\ next.call = tm.call /\ next.attempt = tm.attempt
             /\ next.kind = tm.kind /\ next.fd = tm.fd /\ next.event = tm.event
             /\ next.at = label
<1> DEFINE next == [tm EXCEPT !.at = label]
<1>1. tm \in Timer
  BY TimerFields
<1>2. next \in Timer
  BY <1>1 DEF Timer
<1>3. /\ next.fiber = tm.fiber /\ next.call = tm.call /\ next.attempt = tm.attempt
      /\ next.kind = tm.kind /\ next.fd = tm.fd /\ next.event = tm.event
      /\ next.at = label
  BY <1>1 DEF Timer
<1>4. timers' = (timers \ {tm}) \cup {next}
  BY DEF Advance
<1> HIDE DEF next
<1> QED  BY <1>2, <1>3, <1>4 DEF TypeOK

\* A descriptor is new, and its opener owns it.
LEMMA NewFdEffect ==
    ASSUME TypeOK, NEW f \in Fibers, NEW fd \in Fds, NEW s \in {"new", "listen", "up"},
           NewFd(f, fd, s)
    PROVE  /\ conn[fd] = "none" /\ conn' = [conn EXCEPT ![fd] = s]
           /\ conn' \in [Fds -> {"none", "new", "listen", "connecting", "up", "refused"}]
           /\ owner' = [owner EXCEPT ![fd] = f] /\ owner' \in [Fds -> Fibers \cup {NoFiber}]
           /\ nonBlock' \in [Fds -> BOOLEAN]
           /\ fdCxt' \in [Fds -> Cxts \cup {NoCxt}]
<1>1. [userNonBlock |-> FALSE, timeouts |-> {}] \in Cxts
  BY DEF Cxts
<1> QED  BY <1>1 DEF TypeOK, NewFd

\* A call begins with the next number.
LEMMA BeginEffect ==
    ASSUME TypeOK, NEW f \in Fibers, NEW c \in Calls, Begin(f, c)
    PROVE  \E begun \in Calls :
               /\ pc[f] = "idle" /\ calls' = calls + 1 /\ calls' \in Nat
               /\ begun.kind = c.kind /\ begun.fd = c.fd /\ begun.event = c.event
               /\ begun.timed = c.timed /\ begun.attempt = c.attempt /\ begun.id = calls + 1
               /\ call' = [call EXCEPT ![f] = begun] /\ call' \in [Fibers -> Calls]
               /\ pc' = [pc EXCEPT ![f] = IF c.kind = "sleep" THEN "arm" ELSE "func"]
               /\ pc' \in [Fibers -> Labels]
               /\ result' = [result EXCEPT ![f] = "none"]
               /\ result' \in [Fibers -> {"none"} \cup Endings]
               /\ UNCHANGED <<conn, nonBlock, ready, owner, fdCxt, reg, timers, cancelled, woken,
                              elapsed, options, stale>>
<1>1. calls + 1 \in Nat
  BY DEF TypeOK
<1>2. [c EXCEPT !.id = calls + 1] \in Calls
  BY <1>1 DEF Calls
<1>3. /\ [c EXCEPT !.id = calls + 1].kind = c.kind /\ [c EXCEPT !.id = calls + 1].fd = c.fd
      /\ [c EXCEPT !.id = calls + 1].event = c.event
      /\ [c EXCEPT !.id = calls + 1].timed = c.timed
      /\ [c EXCEPT !.id = calls + 1].attempt = c.attempt
      /\ [c EXCEPT !.id = calls + 1].id = calls + 1
  BY DEF Calls
<1>4. /\ pc[f] = "idle" /\ calls' = calls + 1
      /\ call' = [call EXCEPT ![f] = [c EXCEPT !.id = calls + 1]]
      /\ pc' = [pc EXCEPT ![f] = IF c.kind = "sleep" THEN "arm" ELSE "func"]
      /\ result' = [result EXCEPT ![f] = "none"]
      /\ UNCHANGED <<conn, nonBlock, ready, owner, fdCxt, reg, timers, cancelled, woken, elapsed>>
      /\ UNCHANGED <<options, stale>>
  BY DEF Begin, Goto, kernelVars, bounds
<1>5. /\ call' \in [Fibers -> Calls] /\ pc' \in [Fibers -> Labels] /\ calls' \in Nat
      /\ result' \in [Fibers -> {"none"} \cup Endings]
  BY <1>1, <1>2, <1>4 DEF TypeOK, Labels, Endings
<1> QED  BY <1>2, <1>3, <1>4, <1>5

\* Beginning a call keeps the types.
LEMMA BeginType ==
    ASSUME TypeOK, NEW f \in Fibers, NEW c \in Calls, Begin(f, c)
    PROVE  TypeOK'
  BY BeginEffect DEF TypeOK, Endings

\* An attempt begins, with a timer if the call is timed.
LEMMA ArmEffect ==
    ASSUME TypeOK, NEW f \in Fibers, Arm(f)
    PROVE  \E c \in Calls, tm \in Timer :
             /\ c.kind = call[f].kind /\ c.fd = call[f].fd /\ c.event = call[f].event
             /\ c.timed = call[f].timed /\ c.id = call[f].id
             /\ c.attempt = call[f].attempt + 1
             /\ call' = [call EXCEPT ![f] = c] /\ call' \in [Fibers -> Calls]
             /\ tm.fiber = f /\ tm.call = c.id /\ tm.attempt = c.attempt /\ tm.kind = c.kind
             /\ tm.fd = c.fd /\ tm.at = "armed"
             /\ timers' = IF c.timed THEN timers \cup {tm} ELSE timers
             /\ timers' \subseteq Timer
             /\ pc' = [pc EXCEPT ![f] = IF c.kind = "sleep" THEN "hold" ELSE "add"]
             /\ pc' \in [Fibers -> Labels]
<1> DEFINE c == [call[f] EXCEPT !.attempt = @ + 1]
           tm == [fiber |-> f, call |-> c.id, attempt |-> c.attempt, kind |-> c.kind,
                  fd |-> c.fd, event |-> c.event, at |-> "armed"]
<1>1. call[f] \in Calls
  BY CallFields
<1>2. /\ c \in Calls
      /\ c.kind = call[f].kind /\ c.fd = call[f].fd /\ c.event = call[f].event
      /\ c.timed = call[f].timed /\ c.id = call[f].id /\ c.attempt = call[f].attempt + 1
  BY <1>1 DEF Calls
<1>3. tm \in Timer
  BY <1>2 DEF Calls, Timer
<1>4. /\ call' = [call EXCEPT ![f] = c]
      /\ timers' = IF c.timed THEN timers \cup {tm} ELSE timers
      /\ pc' = [pc EXCEPT ![f] = IF c.kind = "sleep" THEN "hold" ELSE "add"]
  BY DEF Arm, Goto
<1>5. call' \in [Fibers -> Calls] /\ timers' \subseteq Timer /\ pc' \in [Fibers -> Labels]
  BY <1>2, <1>3, <1>4 DEF TypeOK, Labels
<1> HIDE DEF c
<1>6. tm.fiber = f /\ tm.call = c.id /\ tm.attempt = c.attempt /\ tm.kind = c.kind
      /\ tm.fd = c.fd /\ tm.at = "armed"
  OBVIOUS
<1> HIDE DEF tm
<1> QED  BY <1>2, <1>3, <1>4, <1>5, <1>6

\* The locals outside a call.
LEMMA NoCallIs ==
    /\ NoCall.kind = "sleep" /\ NoCall.fd = NoFd /\ NoCall.id = 0 /\ NoCall.event = "READ"
  BY DEF NoCall

-----------------------------------------------------------------------------
(* The locals of calls *)

\* What a step must leave to the fibers other than the one that takes it.
OthersKept(f) ==
    \A g \in Fibers \ {f} : pc'[g] = pc[g] /\ call'[g] = call[g] /\ woken'[g] = woken[g]

\* The descriptors that calls use stay open and keep their owner.
DescriptorsKept ==
    \A fd \in Fds : \A g \in Fibers :
        conn[fd] # "none" /\ owner[fd] = g /\ pc[g] # "idle" =>
            conn'[fd] # "none" /\ owner'[fd] = g

\* A step of one fiber keeps CallInv if it keeps it for that fiber.
LEMMA CallStep ==
    ASSUME TypeOK, CallInv, TypeOK', NEW f \in Fibers, OthersKept(f), DescriptorsKept,
           calls <= calls', CallOK(f)'
    PROVE  CallInv'
<1> SUFFICES ASSUME NEW g \in Fibers \ {f} PROVE CallOK(g)'
  BY DEF CallInv
<1>1. CallOK(g) /\ pc'[g] = pc[g] /\ call'[g] = call[g] /\ woken'[g] = woken[g]
  BY DEF CallInv, OthersKept
<1>2. call[g].id \in Nat /\ calls \in Nat /\ calls' \in Nat
  BY CallFields DEF TypeOK
<1>3. pc[g] = "idle" => call[g].kind = "sleep"
  BY <1>1, NoCallIs DEF CallOK
<1> QED  BY <1>1, <1>2, <1>3 DEF CallOK, DescriptorsKept

\* No fiber moves; a fiber that holds may be scheduled.
LEMMA CallKept ==
    ASSUME TypeOK, CallInv, UNCHANGED <<pc, call, calls>>, DescriptorsKept,
           \A g \in Fibers : woken'[g] = woken[g] \/ pc[g] = "hold"
    PROVE  CallInv'
<1> SUFFICES ASSUME NEW g \in Fibers PROVE CallOK(g)'
  BY DEF CallInv
<1>1. CallOK(g)
  BY DEF CallInv
<1>2. pc[g] = "idle" => call[g].kind = "sleep"
  BY <1>1, NoCallIs DEF CallOK
<1> QED  BY <1>1, <1>2 DEF CallOK, DescriptorsKept

\* A return keeps CallInv.
LEMMA ReturnCall ==
    ASSUME TypeOK, CallInv, TypeOK', NEW f \in Fibers, NEW r \in Endings, Return(f, r),
           DescriptorsKept, calls' = calls
    PROVE  CallInv' /\ OthersKept(f)
<1>1. /\ pc'[f] = "idle" /\ call'[f] = NoCall /\ woken'[f] = "no"
      /\ \A g \in Fibers \ {f} : pc'[g] = pc[g] /\ call'[g] = call[g] /\ woken'[g] = woken[g]
  BY ReturnEffect DEF TypeOK
<1>2. CallOK(f)'
  BY <1>1, NoCallIs DEF CallOK
<1> QED  BY <1>1, <1>2, CallStep DEF OthersKept, TypeOK

\* A call that fits its descriptor keeps CallInv when it begins.
LEMMA BeginCall ==
    ASSUME TypeOK, CallInv, TypeOK', NEW f \in Fibers, NEW c \in Calls, Begin(f, c),
           c.kind = "sleep" => c.fd = NoFd /\ c.timed,
           c.kind # "sleep" => c.fd \in Fds /\ owner[c.fd] = f /\ conn[c.fd] # "none",
           c.kind = "accept" => c.event = "READ"
    PROVE  CallInv' /\ OthersKept(f)
<1>1. /\ pc[f] = "idle" /\ pc'[f] = IF c.kind = "sleep" THEN "arm" ELSE "func"
      /\ call'[f].kind = c.kind /\ call'[f].fd = c.fd /\ call'[f].event = c.event
      /\ call'[f].timed = c.timed /\ call'[f].id = calls + 1 /\ calls' = calls + 1
      /\ \A g \in Fibers \ {f} : pc'[g] = pc[g] /\ call'[g] = call[g]
      /\ UNCHANGED <<owner, conn, woken>>
  BY BeginEffect DEF TypeOK
<1>2. woken[f] = "no" /\ calls \in Nat
  BY <1>1 DEF CallInv, CallOK, TypeOK
<1>3. CallOK(f)'
  BY <1>1, <1>2 DEF CallOK
<1> QED  BY <1>1, <1>2, <1>3, CallStep DEF OthersKept, DescriptorsKept

-----------------------------------------------------------------------------
(* Every step keeps the invariant *)

\* Every step keeps the types.
LEMMA NextType == ASSUME Inv, [Next]_vars PROVE TypeOK'
<1>1. ASSUME NEW f \in Fibers, NEW fd \in Fds, NEW s \in {"new", "listen"}, Socket(f, fd, s)
     PROVE  TypeOK'
  BY <1>1, NewFdEffect DEF Socket, TypeOK, Inv, kernelVars, bounds
<1>2. ASSUME NEW f \in Fibers, NEW fd \in Fds, NEW arg \in BOOLEAN, SetFl(f, fd, arg)
     PROVE  TypeOK'
  <2>1. \A c \in Cxts : [c EXCEPT !.userNonBlock = arg] \in Cxts
    BY DEF Cxts
  <2>2. fdCxt' \in [Fds -> Cxts \cup {NoCxt}]
    BY <1>2, <2>1 DEF SetFl, TypeOK, Inv
  <2>3. nonBlock' \in [Fds -> BOOLEAN]
    BY <1>2 DEF SetFl, TypeOK, Inv
  <2>4. /\ UNCHANGED <<conn, ready, owner, reg, timers, pc, call, calls, cancelled, woken, elapsed>>
        /\ UNCHANGED <<stale, result>> /\ options' = options + 1
    BY <1>2 DEF SetFl
  <2> QED  BY <2>2, <2>3, <2>4 DEF TypeOK, Inv
<1>3. ASSUME NEW f \in Fibers, NEW fd \in Fds, NEW e \in IOEvents, SetTimeout(f, fd, e)
     PROVE  TypeOK'
  <2>1. \A c \in Cxts : [c EXCEPT !.timeouts = @ \cup {e}] \in Cxts
    BY DEF Cxts
  <2> QED  BY <1>3, <2>1 DEF SetTimeout, TypeOK, Inv, kernelVars, bounds
<1>4. ASSUME NEW f \in Fibers, NEW fd \in Fds, Close(f, fd) PROVE TypeOK'
  <2>1. {fd} \X Events \in SUBSET (Fds \X Events) /\ WakeAll({fd} \X Events, "other")
    BY <1>4 DEF Close
  <2> QED  BY <1>4, <2>1, WakeAllEffect DEF Close, TypeOK, Inv, kernelVars, bounds
<1>5. ASSUME NEW fd \in Fds, Peer(fd) PROVE TypeOK'
  <2>1. ready' \in [Fds -> SUBSET Events]
    BY <1>5 DEF Peer, TypeOK, Inv, Events
  <2>2. conn' \in [Fds -> {"none", "new", "listen", "connecting", "up", "refused"}]
    BY <1>5 DEF Peer, TypeOK, Inv
  <2> QED  BY <1>5, <2>1, <2>2 DEF Peer, TypeOK, Inv, kernelVars, bounds
<1>6. ASSUME NEW f \in Fibers, NEW fd \in Fds, NEW e \in Events, IOCall(f, fd, e) PROVE TypeOK'
  <2>1. PICK c \in Calls : Begin(f, c)
    BY <1>6 DEF IOCall, Inv, TypeOK, Cxts, Calls, Kinds
  <2> QED  BY <2>1, BeginType DEF Inv
<1>7. ASSUME NEW f \in Fibers, NEW fd \in Fds, NEW timed \in BOOLEAN, ConnectCall(f, fd, timed)
     PROVE  TypeOK'
  <2>1. PICK c \in Calls : Begin(f, c)
    BY <1>7 DEF ConnectCall, Inv, TypeOK, Cxts, Calls, Kinds, Events
  <2> QED  BY <2>1, BeginType DEF Inv
<1>8. ASSUME NEW f \in Fibers, SleepCall(f) PROVE TypeOK'
  <2>1. PICK c \in Calls : Begin(f, c)
    BY <1>8 DEF SleepCall, NoCall, Calls, Kinds, Events
  <2> QED  BY <2>1, BeginType DEF Inv
<1>9. ASSUME NEW f \in Fibers, Transfer(f) PROVE TypeOK'
  <2>1. Return(f, "ok") /\ "ok" \in Endings
    BY <1>9 DEF Transfer, Endings
  <2> QED  BY <1>9, <2>1, ReturnEffect DEF Transfer, TypeOK, Inv, kernelVars, bounds, Endings
<1>10. ASSUME NEW f \in Fibers, Accept(f) PROVE TypeOK'
  <2>1. Return(f, "ok") /\ "ok" \in Endings
    BY <1>10 DEF Accept, Endings
  <2>2. PICK fd \in Fds : NewFd(f, fd, "up")
    BY <1>10 DEF Accept
  <2>3. ready' \in [Fds -> SUBSET Events]
    BY <1>10, CallFields DEF Accept, TypeOK, Inv
  <2> QED  BY <1>10, <2>1, <2>2, <2>3, ReturnEffect, NewFdEffect
           DEF Accept, TypeOK, Inv, kernelVars, bounds, Endings
<1>11. ASSUME NEW f \in Fibers, AcceptFails(f) PROVE TypeOK'
  <2>1. \E r \in Endings : Return(f, r)
    BY <1>11 DEF AcceptFails, Endings
  <2> QED  BY <1>11, <2>1, ReturnEffect DEF AcceptFails, TypeOK, Inv, kernelVars, bounds, Endings
<1>12. ASSUME NEW f \in Fibers, Again(f) PROVE TypeOK'
  <2>1. CASE \E r \in Endings : Return(f, r)
    BY <1>12, <2>1, ReturnEffect DEF Again, TypeOK, Inv, kernelVars, bounds, Endings
  <2>2. CASE \A r \in Endings : ~Return(f, r)
    BY <1>12, <2>2 DEF Again, Goto, Labels, TypeOK, Inv, kernelVars, bounds, Endings
  <2> QED  BY <2>1, <2>2
<1>13. ASSUME NEW f \in Fibers, ConnectNow(f) PROVE TypeOK'
  <2>1. PICK r \in Endings : Return(f, r)
    BY <1>13 DEF ConnectNow, Endings
  <2>2. conn' \in [Fds -> {"none", "new", "listen", "connecting", "up", "refused"}]
    BY <1>13 DEF ConnectNow, TypeOK, Inv
  <2> QED  BY <1>13, <2>1, <2>2, ReturnEffect
           DEF ConnectNow, TypeOK, Inv, kernelVars, bounds, Endings
<1>14. ASSUME NEW f \in Fibers, ConnectLater(f) PROVE TypeOK'
  <2>1. CASE \E r \in Endings : Return(f, r)
    BY <1>14, <2>1, ReturnEffect DEF ConnectLater, TypeOK, Inv, kernelVars, bounds, Endings
  <2>2. CASE \A r \in Endings : ~Return(f, r)
    BY <1>14, <2>2 DEF ConnectLater, Goto, Labels, TypeOK, Inv, kernelVars, bounds, Endings
  <2> QED  BY <2>1, <2>2
<1>15. ASSUME NEW f \in Fibers, Arm(f) PROVE TypeOK'
  BY <1>15, ArmEffect DEF Arm, TypeOK, Inv, kernelVars, bounds
<1>16. ASSUME NEW f \in Fibers, AddEvent(f) PROVE TypeOK'
  BY <1>16, CallFields DEF AddEvent, Goto, Labels, TypeOK, Inv, kernelVars, bounds
<1>17. ASSUME NEW f \in Fibers, AddEventFails(f) PROVE TypeOK'
  <2>1. Return(f, "error") /\ "error" \in Endings /\ timers' \subseteq timers
    BY <1>17 DEF AddEventFails, Endings
  <2> QED  BY <1>17, <2>1, ReturnEffect DEF AddEventFails, TypeOK, Inv, kernelVars, bounds, Endings
<1>18. ASSUME NEW fd \in Fds, NEW e \in Events, Report(fd, e) PROVE TypeOK'
  <2>1. {<<fd, e>>} \in SUBSET (Fds \X Events) /\ WakeAll({<<fd, e>>}, "ready")
    BY <1>18 DEF Report
  <2> QED  BY <1>18, <2>1, WakeAllEffect DEF Report, TypeOK, Inv, kernelVars, bounds
<1>19. ASSUME NEW fd \in Fds, NEW e \in Events, ReportLate(fd, e) PROVE TypeOK'
  <2>1. {<<fd, e>>} \in SUBSET (Fds \X Events) /\ WakeAll({<<fd, e>>}, "other")
    BY <1>19 DEF ReportLate
  <2> QED  BY <1>19, <2>1, WakeAllEffect DEF ReportLate, TypeOK, Inv, kernelVars, bounds
<1>20. ASSUME NEW f \in Fibers, Resume(f) PROVE TypeOK'
  <2>1. CASE \E r \in Endings : Return(f, r)
    BY <1>20, <2>1, ReturnEffect DEF Resume, TypeOK, Inv, kernelVars, bounds, Endings
  <2>2. CASE \A r \in Endings : ~Return(f, r)
    BY <1>20, <2>2 DEF Resume, Goto, Labels, TypeOK, Inv, kernelVars, bounds, Endings
  <2> QED  BY <2>1, <2>2
<1>21. ASSUME NEW f \in Fibers, CancelTimer(f) PROVE TypeOK'
  BY <1>21 DEF CancelTimer, Goto, TypeOK, Inv, Labels, kernelVars, bounds, OwnTimer
<1>22. ASSUME NEW f \in Fibers, Check(f) PROVE TypeOK'
  <2>1. CASE \E r \in Endings : Return(f, r)
    BY <1>22, <2>1, ReturnEffect DEF Check, TypeOK, Inv, kernelVars, bounds, Endings
  <2>2. CASE \A r \in Endings : ~Return(f, r)
    BY <1>22, <2>2 DEF Check, Goto, Labels, TypeOK, Inv, kernelVars, bounds, Endings
  <2> QED  BY <2>1, <2>2
<1>23. ASSUME NEW f \in Fibers, GetSockOpt(f) PROVE TypeOK'
  <2>1. \E r \in Endings : Return(f, r)
    BY <1>23 DEF GetSockOpt, Endings
  <2> QED  BY <1>23, <2>1, ReturnEffect DEF GetSockOpt, TypeOK, Inv, kernelVars, bounds, Endings
<1>24. ASSUME NEW tm \in timers, Take(tm) PROVE TypeOK'
  <2>1. timers' \subseteq Timer
    BY <1>24, AdvanceEffect DEF Take, Inv
  <2>2. elapsed' \subseteq Fibers
    BY <1>24, TimerFields DEF Take, TypeOK, Inv
  <2> QED  BY <1>24, <2>1, <2>2 DEF Take, TypeOK, Inv, kernelVars, bounds
<1>25. ASSUME NEW tm \in timers, Run(tm) PROVE TypeOK'
  <2>1. timers' \subseteq Timer
    BY <1>25, AdvanceEffect DEF Run, Inv, TypeOK
  <2>2. woken' \in [Fibers -> {"no", "ready", "other"}]
    BY <1>25 DEF Run, TypeOK, Inv
  <2> QED  BY <1>25, <2>1, <2>2 DEF Run, TypeOK, Inv, kernelVars, bounds
<1>26. ASSUME NEW tm \in timers, Store(tm) PROVE TypeOK'
  BY <1>26, AdvanceEffect, TimerFields DEF Store, Alive, TypeOK, Inv, kernelVars, bounds
<1>27. ASSUME NEW tm \in timers, CancelEvent(tm) PROVE TypeOK'
  <2>1. tm.kind # "sleep" /\ tm.fd \in Fds /\ tm.event \in Events
    BY <1>27, TimerFields DEF Inv, TimerInv, TimerOK, CancelEvent
  <2>2. {<<tm.fd, tm.event>>} \in SUBSET (Fds \X Events) /\ WakeAll({<<tm.fd, tm.event>>}, "other")
    BY <1>27, <2>1 DEF CancelEvent
  <2> QED  BY <1>27, <2>2, WakeAllEffect DEF CancelEvent, TypeOK, Inv, kernelVars, bounds
<1>28. ASSUME UNCHANGED vars PROVE TypeOK'
  BY <1>28 DEF vars, kernelVars, bounds, Inv, TypeOK
<1> QED
  BY <1>1, <1>2, <1>3, <1>4, <1>5, <1>6, <1>7, <1>8, <1>9, <1>10, <1>11, <1>12, <1>13,
     <1>14, <1>15, <1>16, <1>17, <1>18, <1>19, <1>20, <1>21, <1>22, <1>23, <1>24, <1>25,
     <1>26, <1>27, <1>28 DEF Next, FiberStep, FiberUse, TimerStep

\* Every step keeps what is said of the locals of calls.
LEMMA NextCall == ASSUME Inv, [Next]_vars PROVE CallInv'
<1>1. ASSUME NEW f \in Fibers, NEW fd \in Fds, NEW s \in {"new", "listen"}, Socket(f, fd, s)
     PROVE  CallInv'
  <2>1. DescriptorsKept
    BY <1>1, NewFdEffect DEF Socket, DescriptorsKept, Inv, TypeOK
  <2> QED  BY <1>1, <2>1, CallKept DEF Socket, Inv
<1>2. ASSUME NEW f \in Fibers, NEW fd \in Fds, NEW arg \in BOOLEAN, SetFl(f, fd, arg)
     PROVE  CallInv'
  <2>1. DescriptorsKept
    BY <1>2 DEF SetFl, DescriptorsKept
  <2> QED  BY <1>2, <2>1, CallKept DEF SetFl, Inv
<1>3. ASSUME NEW f \in Fibers, NEW fd \in Fds, NEW e \in IOEvents, SetTimeout(f, fd, e)
     PROVE  CallInv'
  <2>1. DescriptorsKept
    BY <1>3 DEF SetTimeout, DescriptorsKept
  <2> QED  BY <1>3, <2>1, CallKept DEF SetTimeout, Inv
<1>4. ASSUME NEW f \in Fibers, NEW fd \in Fds, Close(f, fd) PROVE CallInv'
  <2>1. ({fd} \X Events) \in SUBSET (Fds \X Events) /\ WakeAll(({fd} \X Events), "other")
    BY <1>4 DEF Close
  <2>2. \A g \in Fibers : woken'[g] = woken[g] \/ pc[g] = "hold"
    BY <2>1, WakeAllEffect, HookAssumption DEF Inv, RegInv, TypeOK
  <2>3. DescriptorsKept
    BY <1>4 DEF Close, Uses, DescriptorsKept, Inv, TypeOK
  <2> QED  BY <1>4, <2>2, <2>3, CallKept DEF Close, Inv, kernelVars
<1>5. ASSUME NEW fd \in Fds, Peer(fd) PROVE CallInv'
  <2>1. DescriptorsKept
    BY <1>5 DEF Peer, DescriptorsKept, Inv, TypeOK
  <2> QED  BY <1>5, <2>1, CallKept DEF Peer, Inv
<1>6. ASSUME NEW f \in Fibers, NEW fd \in Fds, NEW e \in Events, IOCall(f, fd, e) PROVE CallInv'
  <2> DEFINE c == [kind |-> IF conn[fd] = "up" THEN "io" ELSE "accept", fd |-> fd, event |-> e,
                    timed |-> fdCxt[fd] # NoCxt /\ e \in fdCxt[fd].timeouts,
                    direct |-> fdCxt[fd] = NoCxt \/ fdCxt[fd].userNonBlock, id |-> 0,
                    attempt |-> 0]
  <2>1. c \in Calls /\ Begin(f, c)
    BY <1>6 DEF IOCall, Inv, TypeOK, Cxts, Calls, Kinds, Events
  <2>2. /\ c.kind = "sleep" => c.fd = NoFd /\ c.timed
        /\ c.kind # "sleep" => c.fd \in Fds /\ owner[c.fd] = f /\ conn[c.fd] # "none"
        /\ c.kind = "accept" => c.event = "READ"
    BY <1>6 DEF IOCall, Uses, CarriesData
  <2> HIDE DEF c
  <2> QED  BY <2>1, <2>2, BeginCall, NextType DEF Inv
<1>7. ASSUME NEW f \in Fibers, NEW fd \in Fds, NEW timed \in BOOLEAN, ConnectCall(f, fd, timed)
     PROVE  CallInv'
  <2> DEFINE c == [kind |-> "connect", fd |-> fd, event |-> "WRITE", timed |-> timed,
                    direct |-> fdCxt[fd].userNonBlock, id |-> 0, attempt |-> 0]
  <2>1. c \in Calls /\ Begin(f, c)
    BY <1>7 DEF ConnectCall, Inv, TypeOK, Cxts, Calls, Kinds, Events
  <2>2. /\ c.kind = "sleep" => c.fd = NoFd /\ c.timed
        /\ c.kind # "sleep" => c.fd \in Fds /\ owner[c.fd] = f /\ conn[c.fd] # "none"
        /\ c.kind = "accept" => c.event = "READ"
    BY <1>7 DEF ConnectCall, Uses
  <2> HIDE DEF c
  <2> QED  BY <2>1, <2>2, BeginCall, NextType DEF Inv
<1>8. ASSUME NEW f \in Fibers, SleepCall(f) PROVE CallInv'
  <2> DEFINE c == [NoCall EXCEPT !.timed = TRUE]
  <2>1. c \in Calls /\ Begin(f, c)
    BY <1>8 DEF SleepCall, Inv, TypeOK, Cxts, Calls, Kinds, Events, NoCall
  <2>2. /\ c.kind = "sleep" => c.fd = NoFd /\ c.timed
        /\ c.kind # "sleep" => c.fd \in Fds /\ owner[c.fd] = f /\ conn[c.fd] # "none"
        /\ c.kind = "accept" => c.event = "READ"
    BY <1>8 DEF SleepCall, NoCall
  <2> HIDE DEF c
  <2> QED  BY <2>1, <2>2, BeginCall, NextType DEF Inv
<1>9. ASSUME NEW f \in Fibers, Transfer(f) PROVE CallInv'
  <2>1. PICK r \in Endings : Return(f, r)
    BY <1>9 DEF Transfer, Endings
  <2>2. DescriptorsKept /\ calls' = calls
    BY <1>9 DEF Transfer, DescriptorsKept, kernelVars, bounds, Inv, TypeOK
  <2> QED  BY <2>1, <2>2, ReturnCall, NextType DEF Inv
<1>10. ASSUME NEW f \in Fibers, Accept(f) PROVE CallInv'
  <2>1. Return(f, "ok") /\ "ok" \in Endings
    BY <1>10 DEF Accept, Endings
  <2>2. PICK fd \in Fds : NewFd(f, fd, "up")
    BY <1>10 DEF Accept
  <2>3. DescriptorsKept /\ calls' = calls
    BY <1>10, <2>2, NewFdEffect DEF Accept, DescriptorsKept, Inv, TypeOK
  <2> QED  BY <2>1, <2>3, ReturnCall, NextType DEF Inv
<1>11. ASSUME NEW f \in Fibers, AcceptFails(f) PROVE CallInv'
  <2>1. PICK r \in Endings : Return(f, r)
    BY <1>11 DEF AcceptFails, Endings
  <2>2. DescriptorsKept /\ calls' = calls
    BY <1>11 DEF AcceptFails, DescriptorsKept, kernelVars, bounds, Inv, TypeOK
  <2> QED  BY <2>1, <2>2, ReturnCall, NextType DEF Inv
<1>12. ASSUME NEW f \in Fibers, Again(f) PROVE CallInv'
  <2>1. CASE \E r \in Endings : Return(f, r)
    <3>1. DescriptorsKept /\ calls' = calls
      BY <1>12, CallFields DEF Again, DescriptorsKept, kernelVars, Inv, TypeOK
    <3> QED  BY <2>1, <3>1, ReturnCall, NextType DEF Inv
  <2>2. CASE \A r \in Endings : ~Return(f, r)
    <3>1. OthersKept(f) /\ DescriptorsKept /\ calls' = calls
      BY <1>12, <2>2, CallFields
      DEF Again, Goto, OthersKept, DescriptorsKept, Inv, TypeOK, kernelVars, Endings
    <3>2. CallOK(f) /\ calls \in Nat
      BY DEF Inv, CallInv, TypeOK
    <3>3. CallOK(f)'
      BY <1>12, <2>2, <3>2, CallFields
      DEF Again, Goto, CallOK, Inv, TypeOK, kernelVars, Endings
    <3> QED  BY <3>1, <3>2, <3>3, CallStep, NextType DEF Inv
  <2> QED  BY <2>1, <2>2
<1>13. ASSUME NEW f \in Fibers, ConnectNow(f) PROVE CallInv'
  <2>1. PICK r \in Endings : Return(f, r)
    BY <1>13 DEF ConnectNow, Endings
  <2>2. DescriptorsKept /\ calls' = calls
    BY <1>13, CallFields DEF ConnectNow, DescriptorsKept, kernelVars, bounds, Inv, TypeOK
  <2> QED  BY <2>1, <2>2, ReturnCall, NextType DEF Inv
<1>14. ASSUME NEW f \in Fibers, ConnectLater(f) PROVE CallInv'
  <2>1. CASE \E r \in Endings : Return(f, r)
    <3>1. DescriptorsKept /\ calls' = calls
      BY <1>14, CallFields DEF ConnectLater, DescriptorsKept, kernelVars, Inv, TypeOK
    <3> QED  BY <2>1, <3>1, ReturnCall, NextType DEF Inv
  <2>2. CASE \A r \in Endings : ~Return(f, r)
    <3>1. OthersKept(f) /\ DescriptorsKept /\ calls' = calls
      BY <1>14, <2>2, CallFields
      DEF ConnectLater, Goto, OthersKept, DescriptorsKept, Inv, TypeOK, kernelVars, Endings
    <3>2. CallOK(f) /\ calls \in Nat
      BY DEF Inv, CallInv, TypeOK
    <3>3. CallOK(f)'
      BY <1>14, <2>2, <3>2, CallFields
      DEF ConnectLater, Goto, CallOK, Inv, TypeOK, kernelVars, Endings
    <3> QED  BY <3>1, <3>2, <3>3, CallStep, NextType DEF Inv
  <2> QED  BY <2>1, <2>2
<1>15. ASSUME NEW f \in Fibers, Arm(f) PROVE CallInv'
  <2>1. OthersKept(f) /\ DescriptorsKept /\ calls' = calls
    BY <1>15, ArmEffect DEF Arm, Goto, OthersKept, DescriptorsKept, Inv, TypeOK, kernelVars
  <2>2. CallOK(f) /\ calls \in Nat
    BY DEF Inv, CallInv, TypeOK
  <2>3. CallOK(f)'
    BY <1>15, <2>2, CallFields, ArmEffect DEF Arm, Goto, CallOK, Inv, TypeOK, kernelVars
  <2> QED  BY <2>1, <2>2, <2>3, CallStep, NextType DEF Inv
<1>16. ASSUME NEW f \in Fibers, AddEvent(f) PROVE CallInv'
  <2>1. OthersKept(f) /\ DescriptorsKept /\ calls' = calls
    BY <1>16 DEF AddEvent, Goto, OthersKept, DescriptorsKept, Inv, TypeOK, kernelVars
  <2>2. CallOK(f) /\ calls \in Nat
    BY DEF Inv, CallInv, TypeOK
  <2>3. CallOK(f)'
    BY <1>16, <2>2, CallFields DEF AddEvent, Goto, CallOK, Inv, TypeOK, kernelVars
  <2> QED  BY <2>1, <2>2, <2>3, CallStep, NextType DEF Inv
<1>17. ASSUME NEW f \in Fibers, AddEventFails(f) PROVE CallInv'
  <2>1. PICK r \in Endings : Return(f, r)
    BY <1>17 DEF AddEventFails, Endings
  <2>2. DescriptorsKept /\ calls' = calls
    BY <1>17 DEF AddEventFails, DescriptorsKept, kernelVars, bounds, Inv, TypeOK
  <2> QED  BY <2>1, <2>2, ReturnCall, NextType DEF Inv
<1>18. ASSUME NEW fd \in Fds, NEW e \in Events, Report(fd, e) PROVE CallInv'
  <2>1. {<<fd, e>>} \in SUBSET (Fds \X Events) /\ WakeAll({<<fd, e>>}, "ready")
    BY <1>18 DEF Report
  <2>2. \A g \in Fibers : woken'[g] = woken[g] \/ pc[g] = "hold"
    BY <2>1, WakeAllEffect, HookAssumption DEF Inv, RegInv, TypeOK
  <2>3. DescriptorsKept
    BY <1>18 DEF Report, DescriptorsKept, kernelVars
  <2> QED  BY <1>18, <2>2, <2>3, CallKept DEF Report, Inv, kernelVars
<1>19. ASSUME NEW fd \in Fds, NEW e \in Events, ReportLate(fd, e) PROVE CallInv'
  <2>1. {<<fd, e>>} \in SUBSET (Fds \X Events) /\ WakeAll({<<fd, e>>}, "other")
    BY <1>19 DEF ReportLate
  <2>2. \A g \in Fibers : woken'[g] = woken[g] \/ pc[g] = "hold"
    BY <2>1, WakeAllEffect, HookAssumption DEF Inv, RegInv, TypeOK
  <2>3. DescriptorsKept
    BY <1>19 DEF ReportLate, DescriptorsKept, kernelVars
  <2> QED  BY <1>19, <2>2, <2>3, CallKept DEF ReportLate, Inv, kernelVars
<1>20. ASSUME NEW f \in Fibers, Resume(f) PROVE CallInv'
  <2>1. CASE \E r \in Endings : Return(f, r)
    <3>1. DescriptorsKept /\ calls' = calls
      BY <1>20, CallFields DEF Resume, DescriptorsKept, kernelVars, Inv, TypeOK
    <3> QED  BY <2>1, <3>1, ReturnCall, NextType DEF Inv
  <2>2. CASE \A r \in Endings : ~Return(f, r)
    <3>1. OthersKept(f) /\ DescriptorsKept /\ calls' = calls
      BY <1>20, <2>2, CallFields
      DEF Resume, Goto, OthersKept, DescriptorsKept, Inv, TypeOK, kernelVars, Endings
    <3>2. CallOK(f) /\ calls \in Nat
      BY DEF Inv, CallInv, TypeOK
    <3>3. CallOK(f)'
      BY <1>20, <2>2, <3>2, CallFields
      DEF Resume, Goto, CallOK, Inv, TypeOK, kernelVars, Endings
    <3> QED  BY <3>1, <3>2, <3>3, CallStep, NextType DEF Inv
  <2> QED  BY <2>1, <2>2
<1>21. ASSUME NEW f \in Fibers, CancelTimer(f) PROVE CallInv'
  <2>1. OthersKept(f) /\ DescriptorsKept /\ calls' = calls
    BY <1>21 DEF CancelTimer, Goto, OthersKept, DescriptorsKept, Inv, TypeOK, kernelVars
  <2>2. CallOK(f) /\ calls \in Nat
    BY DEF Inv, CallInv, TypeOK
  <2>3. CallOK(f)'
    BY <1>21, <2>2, CallFields DEF CancelTimer, Goto, CallOK, Inv, TypeOK, kernelVars
  <2> QED  BY <2>1, <2>2, <2>3, CallStep, NextType DEF Inv
<1>22. ASSUME NEW f \in Fibers, Check(f) PROVE CallInv'
  <2>1. CASE \E r \in Endings : Return(f, r)
    <3>1. DescriptorsKept /\ calls' = calls
      BY <1>22, CallFields DEF Check, DescriptorsKept, kernelVars, Inv, TypeOK
    <3> QED  BY <2>1, <3>1, ReturnCall, NextType DEF Inv
  <2>2. CASE \A r \in Endings : ~Return(f, r)
    <3>1. OthersKept(f) /\ DescriptorsKept /\ calls' = calls
      BY <1>22, <2>2, CallFields
      DEF Check, Goto, OthersKept, DescriptorsKept, Inv, TypeOK, kernelVars, Endings
    <3>2. CallOK(f) /\ calls \in Nat
      BY DEF Inv, CallInv, TypeOK
    <3>3. CallOK(f)'
      BY <1>22, <2>2, <3>2, CallFields
      DEF Check, Goto, CallOK, Inv, TypeOK, kernelVars, Endings
    <3> QED  BY <3>1, <3>2, <3>3, CallStep, NextType DEF Inv
  <2> QED  BY <2>1, <2>2
<1>23. ASSUME NEW f \in Fibers, GetSockOpt(f) PROVE CallInv'
  <2>1. PICK r \in Endings : Return(f, r)
    BY <1>23 DEF GetSockOpt, Endings
  <2>2. DescriptorsKept /\ calls' = calls
    BY <1>23 DEF GetSockOpt, DescriptorsKept, kernelVars, bounds, Inv, TypeOK
  <2> QED  BY <2>1, <2>2, ReturnCall, NextType DEF Inv
<1>24. ASSUME NEW tm \in timers, Take(tm) PROVE CallInv'
  <2>1. DescriptorsKept
    BY <1>24 DEF Take, DescriptorsKept, kernelVars
  <2> QED  BY <1>24, <2>1, CallKept DEF Take, Inv
<1>25. ASSUME NEW tm \in timers, Run(tm) PROVE CallInv'
  <2>1. DescriptorsKept
    BY <1>25 DEF Run, DescriptorsKept, kernelVars
  <2>2. \A g \in Fibers : woken'[g] = woken[g] \/ pc[g] = "hold"
    BY <1>25, TimerFields DEF Run, Inv, TypeOK, TimerInv, TimerOK
  <2> QED  BY <1>25, <2>1, <2>2, CallKept DEF Run, Inv
<1>26. ASSUME NEW tm \in timers, Store(tm) PROVE CallInv'
  <2>1. DescriptorsKept
    BY <1>26 DEF Store, DescriptorsKept, kernelVars
  <2> QED  BY <1>26, <2>1, CallKept DEF Store, Inv
<1>27. ASSUME NEW tm \in timers, CancelEvent(tm) PROVE CallInv'
  <2>0. tm.fd \in Fds /\ tm.event \in Events
    BY <1>27, TimerFields DEF Inv, TimerInv, TimerOK, CancelEvent
  <2>1. {<<tm.fd, tm.event>>} \in SUBSET (Fds \X Events) /\ WakeAll({<<tm.fd, tm.event>>}, "other")
    BY <1>27, <2>0 DEF CancelEvent
  <2>2. \A g \in Fibers : woken'[g] = woken[g] \/ pc[g] = "hold"
    BY <2>1, WakeAllEffect, HookAssumption DEF Inv, RegInv, TypeOK
  <2>3. DescriptorsKept
    BY <1>27 DEF CancelEvent, DescriptorsKept, kernelVars
  <2> QED  BY <1>27, <2>2, <2>3, CallKept DEF CancelEvent, Inv, kernelVars
<1>28. ASSUME UNCHANGED vars PROVE CallInv'
  BY <1>28 DEF vars, kernelVars, bounds, Inv, CallInv, CallOK
<1> QED
  BY <1>1, <1>2, <1>3, <1>4, <1>5, <1>6, <1>7, <1>8, <1>9, <1>10, <1>11, <1>12, <1>13,
     <1>14, <1>15, <1>16, <1>17, <1>18, <1>19, <1>20, <1>21, <1>22, <1>23, <1>24, <1>25,
     <1>26, <1>27, <1>28 DEF Next, FiberStep, FiberUse, TimerStep

-----------------------------------------------------------------------------
(* The steps of one fiber *)

FiberMove(f) ==
    \/ FiberStep(f) \/ AddEventFails(f) \/ SleepCall(f)
    \/ \E fd \in Fds : \/ \E timed \in BOOLEAN : ConnectCall(f, fd, timed)
                       \/ \E e \in Events : IOCall(f, fd, e)

\* A fiber that takes a step does not wait, and touches only what is its own.
Moved(f) ==
    /\ OthersKept(f)
    /\ calls <= calls'
    /\ pc[f] # "hold" \/ woken[f] # "no"
    /\ \A g \in Fibers \ {f} : cancelled'[g] = cancelled[g] /\ (g \in elapsed' <=> g \in elapsed)
    /\ \/ call'[f].id = 0 /\ pc'[f] = "idle" /\ ~cancelled'[f]
       \/ /\ call'[f].id \in {call[f].id, calls + 1}
          /\ cancelled'[f] = cancelled[f] /\ (f \in elapsed' <=> f \in elapsed)
    /\ reg' = reg \/ AddEvent(f)
    /\ pc'[f] = "hold" => AddEvent(f) \/ Arm(f)
    /\ \A tm \in timers : tm.fiber # f => tm \in timers'
    /\ Arm(f) \/ timers' \subseteq timers

\* A return is a move.
LEMMA ReturnMoves ==
    ASSUME Inv, NEW f \in Fibers, NEW r \in Endings, Return(f, r),
           pc[f] # "hold" \/ woken[f] # "no", calls' = calls, reg' = reg, timers' \subseteq timers,
           \A tm \in timers : tm.fiber # f => tm \in timers'
    PROVE  Moved(f)
<1>1. \A g \in Fibers \ {f} : /\ pc'[g] = pc[g] /\ call'[g] = call[g] /\ woken'[g] = woken[g]
                              /\ cancelled'[g] = cancelled[g] /\ (g \in elapsed' <=> g \in elapsed)
  BY ReturnEffect DEF Inv, TypeOK
<1>2. call'[f] = NoCall /\ pc'[f] = "idle" /\ ~cancelled'[f]
  BY ReturnEffect DEF Inv, TypeOK
<1>3. calls <= calls'
  BY DEF Inv, TypeOK
<1> QED  BY <1>1, <1>2, <1>3, NoCallIs DEF Moved, OthersKept

\* The beginning of a call is a move.
LEMMA BeginMoves ==
    ASSUME Inv, NEW f \in Fibers, NEW c \in Calls, Begin(f, c)
    PROVE  Moved(f)
<1>1. PICK begun \in Calls :
        /\ begun.id = calls + 1 /\ pc[f] = "idle" /\ calls' = calls + 1
        /\ call' = [call EXCEPT ![f] = begun]
        /\ pc' = [pc EXCEPT ![f] = IF c.kind = "sleep" THEN "arm" ELSE "func"]
        /\ UNCHANGED <<reg, timers, cancelled, woken, elapsed>>
  BY BeginEffect DEF Inv
<1>2. /\ call'[f].id = calls + 1 /\ pc'[f] # "hold"
      /\ \A g \in Fibers \ {f} : pc'[g] = pc[g] /\ call'[g] = call[g] /\ woken'[g] = woken[g]
  BY <1>1 DEF Inv, TypeOK
<1>3. calls <= calls'
  BY <1>1 DEF Inv, TypeOK
<1> QED  BY <1>1, <1>2, <1>3 DEF Moved, OthersKept

\* A fiber goes from one line of its call to another.
LEMMA GotoMoves ==
    ASSUME Inv, NEW f \in Fibers, NEW label \in Labels, Goto(f, label),
           pc[f] # "hold" \/ woken[f] # "no",
           label = "hold" => AddEvent(f) \/ Arm(f),
           \A g \in Fibers \ {f} : call'[g] = call[g] /\ woken'[g] = woken[g],
           call'[f].id = call[f].id, UNCHANGED <<calls, cancelled, elapsed>>,
           reg' = reg \/ AddEvent(f), Arm(f) \/ timers' \subseteq timers,
           \A tm \in timers : tm.fiber # f => tm \in timers'
    PROVE  Moved(f)
<1>1. pc'[f] = label /\ \A g \in Fibers \ {f} : pc'[g] = pc[g]
  BY DEF Goto, Inv, TypeOK
<1>2. calls <= calls'
  BY DEF Inv, TypeOK
<1> QED  BY <1>1, <1>2 DEF Moved, OthersKept

\* What a fiber does inside a call, and how it enters one, is a move.
LEMMA FiberMoves == ASSUME Inv, NEW f \in Fibers, FiberMove(f) PROVE Moved(f)
<1> USE DEF kernelVars, bounds
<1>1. CASE Transfer(f)
  <2>1. Return(f, "ok") /\ "ok" \in Endings /\ pc[f] # "hold"
    BY <1>1 DEF Transfer, Endings
  <2> QED  BY <1>1, <2>1, ReturnMoves DEF Transfer
<1>2. CASE Accept(f)
  <2>1. Return(f, "ok") /\ "ok" \in Endings /\ pc[f] # "hold"
    BY <1>2 DEF Accept, Endings
  <2> QED  BY <1>2, <2>1, ReturnMoves DEF Accept
<1>3. CASE AcceptFails(f)
  <2>1. Return(f, "error") /\ "error" \in Endings /\ pc[f] # "hold"
    BY <1>3 DEF AcceptFails, Endings
  <2> QED  BY <1>3, <2>1, ReturnMoves DEF AcceptFails
<1>4. CASE Again(f)
  <2>1. CASE Return(f, "error")
    BY <1>4, <2>1, ReturnMoves DEF Again, Endings
  <2>2. CASE ~Return(f, "error")
    BY <1>4, <2>2, GotoMoves DEF Again, Labels
  <2> QED  BY <2>1, <2>2
<1>5. CASE ConnectNow(f)
  <2>1. PICK r \in Endings : Return(f, r)
    BY <1>5 DEF ConnectNow, Endings
  <2> QED  BY <1>5, <2>1, ReturnMoves DEF ConnectNow
<1>6. CASE ConnectLater(f)
  <2>1. CASE Return(f, "error")
    BY <1>6, <2>1, ReturnMoves DEF ConnectLater, Endings
  <2>2. CASE ~Return(f, "error")
    BY <1>6, <2>2, GotoMoves DEF ConnectLater, Labels
  <2> QED  BY <2>1, <2>2
<1>7. CASE Arm(f)
  <2>1. PICK label \in Labels : Goto(f, label)
    BY <1>7 DEF Arm, Labels
  <2>2. /\ call'[f].id = call[f].id /\ \A g \in Fibers \ {f} : call'[g] = call[g]
        /\ timers \subseteq timers'
    BY <1>7, ArmEffect DEF Inv, TypeOK
  <2> QED  BY <1>7, <2>1, <2>2, GotoMoves DEF Arm
<1>8. CASE AddEvent(f)
  BY <1>8, GotoMoves DEF AddEvent, Labels
<1>9. CASE AddEventFails(f)
  <2>1. Return(f, "error") /\ "error" \in Endings /\ pc[f] # "hold"
    BY <1>9 DEF AddEventFails, Endings
  <2>2. timers' \subseteq timers /\ \A tm \in timers : tm.fiber # f => tm \in timers'
    BY <1>9 DEF AddEventFails, OwnTimer
  <2> QED  BY <1>9, <2>1, <2>2, ReturnMoves DEF AddEventFails
<1>10. CASE Resume(f)
  <2>1. CASE Return(f, "slept")
    BY <1>10, <2>1, ReturnMoves DEF Resume, Endings
  <2>2. CASE ~Return(f, "slept")
    BY <1>10, <2>2, GotoMoves DEF Resume, Labels
  <2> QED  BY <2>1, <2>2
<1>11. CASE CancelTimer(f)
  <2>1. timers' \subseteq timers /\ \A tm \in timers : tm.fiber # f => tm \in timers'
    BY <1>11 DEF CancelTimer, OwnTimer
  <2> QED  BY <1>11, <2>1, GotoMoves DEF CancelTimer, Labels
<1>12. CASE Check(f)
  <2>1. CASE Return(f, "timeout")
    BY <1>12, <2>1, ReturnMoves DEF Check, Endings
  <2>2. CASE ~Return(f, "timeout")
    <3>1. PICK label \in Labels : Goto(f, label) /\ label # "hold"
      BY <1>12, <2>2 DEF Check, Labels
    <3>2. \A g \in Fibers \ {f} : woken'[g] = woken[g]
      BY <1>12, <2>2 DEF Check, Inv, TypeOK
    <3> QED  BY <1>12, <2>2, <3>1, <3>2, GotoMoves DEF Check
  <2> QED  BY <2>1, <2>2
<1>13. CASE GetSockOpt(f)
  <2>1. PICK r \in Endings : Return(f, r)
    BY <1>13 DEF GetSockOpt, Endings
  <2> QED  BY <1>13, <2>1, ReturnMoves DEF GetSockOpt
<1>14. CASE \E fd \in Fds, timed \in BOOLEAN : ConnectCall(f, fd, timed)
  <2>1. PICK c \in Calls : Begin(f, c)
    BY <1>14 DEF ConnectCall, Inv, TypeOK, Cxts, Calls, Kinds, Events
  <2> QED  BY <2>1, BeginMoves
<1>15. CASE \E fd \in Fds, e \in Events : IOCall(f, fd, e)
  <2>1. PICK c \in Calls : Begin(f, c)
    BY <1>15 DEF IOCall, Inv, TypeOK, Cxts, Calls, Kinds
  <2> QED  BY <2>1, BeginMoves
<1>16. CASE SleepCall(f)
  <2>1. PICK c \in Calls : Begin(f, c)
    BY <1>16 DEF SleepCall, NoCall, Calls, Kinds, Events
  <2> QED  BY <2>1, BeginMoves
<1> QED
  BY <1>1, <1>2, <1>3, <1>4, <1>5, <1>6, <1>7, <1>8, <1>9, <1>10, <1>11, <1>12, <1>13, <1>14,
     <1>15, <1>16 DEF FiberMove, FiberStep

\* Every step is one of a fiber, wakes fibers, is one of a timer, or concerns
\* descriptors only.
LEMMA StepCases ==
    ASSUME [Next]_vars
    PROVE  \/ \E f \in Fibers : FiberMove(f)
           \/ \E f \in Fibers, fd \in Fds : Close(f, fd)
           \/ \E fd \in Fds, e \in Events : Report(fd, e) \/ ReportLate(fd, e)
           \/ \E tm \in timers : Take(tm) \/ Run(tm) \/ Store(tm) \/ CancelEvent(tm)
           \/ UNCHANGED <<reg, timers, pc, call, calls, cancelled, woken, elapsed>>
<1>1. ASSUME NEW f \in Fibers, NEW fd \in Fds, NEW s \in {"new", "listen"}, Socket(f, fd, s)
      PROVE  UNCHANGED <<reg, timers, pc, call, calls, cancelled, woken, elapsed>>
  BY <1>1 DEF Socket
<1>2. ASSUME NEW f \in Fibers, NEW fd \in Fds, NEW arg \in BOOLEAN, SetFl(f, fd, arg)
      PROVE  UNCHANGED <<reg, timers, pc, call, calls, cancelled, woken, elapsed>>
  BY <1>2 DEF SetFl
<1>3. ASSUME NEW f \in Fibers, NEW fd \in Fds, NEW e \in IOEvents, SetTimeout(f, fd, e)
      PROVE  UNCHANGED <<reg, timers, pc, call, calls, cancelled, woken, elapsed>>
  BY <1>3 DEF SetTimeout
<1>4. ASSUME NEW fd \in Fds, Peer(fd)
      PROVE  UNCHANGED <<reg, timers, pc, call, calls, cancelled, woken, elapsed>>
  BY <1>4 DEF Peer
<1>5. CASE UNCHANGED vars
  BY <1>5 DEF vars
<1> QED  BY <1>1, <1>2, <1>3, <1>4, <1>5 DEF Next, FiberMove, FiberUse, TimerStep

\* Fibers that wait for an event are scheduled; nothing else happens to them.
Woke ==
    /\ \E S \in SUBSET (Fds \X Events), why \in {"ready", "other"} : WakeAll(S, why)
    /\ UNCHANGED <<pc, call, calls, cancelled, elapsed>>
    /\ \/ UNCHANGED timers
       \/ \E tm \in timers : tm.kind # "sleep" /\ tm.at = "cancel" /\ timers' = timers \ {tm}

\* close, the event loop and cancelEvent wake fibers and do nothing else to them.
LEMMA WakeSteps ==
    ASSUME Inv,
           \/ \E f \in Fibers, fd \in Fds : Close(f, fd)
           \/ \E fd \in Fds, e \in Events : Report(fd, e) \/ ReportLate(fd, e)
           \/ \E tm \in timers : CancelEvent(tm)
    PROVE  Woke
<1>1. ASSUME NEW f \in Fibers, NEW fd \in Fds, Close(f, fd) PROVE Woke
  <2>1. {fd} \X Events \in SUBSET (Fds \X Events)
    OBVIOUS
  <2> QED  BY <1>1, <2>1 DEF Close, Woke
<1>2. ASSUME NEW fd \in Fds, NEW e \in Events, Report(fd, e) PROVE Woke
  <2>1. {<<fd, e>>} \in SUBSET (Fds \X Events)
    OBVIOUS
  <2> QED  BY <1>2, <2>1 DEF Report, Woke
<1>3. ASSUME NEW fd \in Fds, NEW e \in Events, ReportLate(fd, e) PROVE Woke
  <2>1. {<<fd, e>>} \in SUBSET (Fds \X Events)
    OBVIOUS
  <2> QED  BY <1>3, <2>1 DEF ReportLate, Woke
<1>4. ASSUME NEW tm \in timers, CancelEvent(tm) PROVE Woke
  <2>1. tm.kind # "sleep" /\ tm.fd \in Fds /\ tm.event \in Events
    BY <1>4, TimerFields DEF Inv, TimerInv, TimerOK, CancelEvent
  <2>2. {<<tm.fd, tm.event>>} \in SUBSET (Fds \X Events)
    BY <2>1
  <2> QED  BY <1>4, <2>1, <2>2 DEF CancelEvent, Woke
<1> QED  BY <1>1, <1>2, <1>3, <1>4

\* What waking means for the fibers: those registered in S, and no others.
LEMMA WokeEffect ==
    ASSUME Inv, Woke
    PROVE  /\ \A x \in Fds \X Events : reg'[x] # NoFiber => reg'[x] = reg[x]
           /\ \A x \in Fds \X Events : reg'[x] # NoFiber => woken'[reg[x]] = woken[reg[x]]
           /\ \A x \in Fds \X Events :
                reg[x] # NoFiber /\ woken'[reg[x]] = "no" => reg'[x] = reg[x]
           /\ \A f \in Fibers : woken'[f] = woken[f] \/ \E x \in Fds \X Events : reg[x] = f
           /\ \A f \in Fibers : woken'[f] = "no" => woken[f] = "no"
<1>1. PICK S \in SUBSET (Fds \X Events), why \in {"ready", "other"} : WakeAll(S, why)
  BY DEF Woke
<1>2. /\ \A x \in Fds \X Events : reg'[x] = IF x \in S THEN NoFiber ELSE reg[x]
      /\ \A f \in Fibers : woken'[f] = IF \E x \in S : reg[x] = f THEN why ELSE woken[f]
  BY <1>1, WakeAllEffect DEF Inv
<1>3. \A x, y \in Fds \X Events : reg[x] # NoFiber /\ reg[x] = reg[y] => x = y
  BY DEF Inv, RegInv
<1>4. \A x \in Fds \X Events : reg[x] # NoFiber => reg[x] \in Fibers
  BY DEF Inv, TypeOK
<1>5. ASSUME NEW x \in Fds \X Events, reg'[x] # NoFiber
      PROVE  reg'[x] = reg[x] /\ woken'[reg[x]] = woken[reg[x]]
  BY <1>2, <1>3, <1>4, <1>5
<1>6. ASSUME NEW x \in Fds \X Events, reg[x] # NoFiber, woken'[reg[x]] = "no"
      PROVE  reg'[x] = reg[x]
  BY <1>2, <1>4, <1>6
<1> QED  BY <1>2, <1>5, <1>6

-----------------------------------------------------------------------------
(* Every step keeps the rest of the invariant *)

\* Every step keeps what is said of registered fibers.
LEMMA NextReg == ASSUME Inv, [Next]_vars PROVE RegInv'
<1> SUFFICES ASSUME NEW x \in Fds \X Events, reg'[x] # NoFiber
             PROVE  /\ pc'[reg'[x]] = "hold" /\ woken'[reg'[x]] = "no"
                    /\ call'[reg'[x]].kind # "sleep"
                    /\ x = <<call'[reg'[x]].fd, call'[reg'[x]].event>>
  BY DEF RegInv
<1>0. /\ reg[x] # NoFiber =>
           /\ reg[x] \in Fibers /\ pc[reg[x]] = "hold" /\ woken[reg[x]] = "no"
           /\ call[reg[x]].kind # "sleep"
           /\ x = <<call[reg[x]].fd, call[reg[x]].event>>
  BY DEF Inv, RegInv, TypeOK
<1>1. ASSUME NEW f \in Fibers, FiberMove(f)
      PROVE  \/ reg'[x] \in Fibers \ {f} /\ reg'[x] = reg[x]
             \/ AddEvent(f) /\ reg'[x] = f
  <2>1. Moved(f)
    BY <1>1, FiberMoves
  <2>2. CASE AddEvent(f)
    BY <2>1, <2>2, <1>0 DEF AddEvent, Moved, Inv, TypeOK
  <2> QED  BY <2>1, <2>2, <1>0 DEF Moved
<1>2. CASE \E f \in Fibers : FiberMove(f)
  <2>1. PICK f \in Fibers : FiberMove(f)
    BY <1>2
  <2>2. CASE AddEvent(f) /\ reg'[x] = f
    <3>1. pc'[f] = "hold" /\ call'[f] = call[f] /\ woken'[f] = woken[f]
      BY <2>2 DEF AddEvent, Goto, Inv, TypeOK
    <3>2. x = <<call[f].fd, call[f].event>>
      BY <1>0, <2>2, HookAssumption DEF AddEvent, Inv, TypeOK
    <3> QED  BY <2>2, <3>1, <3>2 DEF AddEvent, Inv, CallInv, CallOK
  <2> QED  BY <1>0, <1>1, <2>1, <2>2, FiberMoves DEF Moved, OthersKept
<1>3. CASE Woke
  BY <1>0, <1>3, WokeEffect DEF Woke
<1>4. CASE \E tm \in timers : Take(tm) \/ Run(tm) \/ Store(tm)
  <2>1. \A f \in Fibers : woken'[f] = woken[f] \/ call[f].kind = "sleep"
    BY <1>4, TimerFields DEF Take, Run, Store, Inv, TimerInv, TimerOK, TypeOK
  <2> QED  BY <1>0, <1>4, <2>1 DEF Take, Run, Store
<1>5. CASE UNCHANGED <<reg, timers, pc, call, calls, cancelled, woken, elapsed>>
  BY <1>0, <1>5
<1> QED  BY <1>2, <1>3, <1>4, <1>5, StepCases, WakeSteps

\* The timers of fibers other than the one that moves stay as they are.
LEMMA OthersTimers ==
    ASSUME Inv, TypeOK', NEW f \in Fibers, Moved(f),
           NEW tm \in timers, tm.fiber # f \/ (tm.at # "armed" /\ tm.kind # "sleep")
    PROVE  TimerOK(tm)'
<1>1. tm.fiber \in Fibers /\ tm.call \in Nat /\ TimerOK(tm)
  BY TimerFields DEF Inv, TimerInv
<1>2. calls <= calls' /\ calls \in Nat /\ calls' \in Nat
  BY DEF Moved, Inv, TypeOK
<1>3. CASE tm.fiber # f
  BY <1>1, <1>2, <1>3 DEF Moved, OthersKept, TimerOK, Alive
<1>4. CASE tm.at # "armed" /\ tm.kind # "sleep"
  BY <1>1, <1>2, <1>4 DEF TimerOK
<1> QED  BY <1>3, <1>4

\* A move that arms no timer keeps TimerInv if it leaves its fiber none that
\* does not fit.
LEMMA MoveTimer ==
    ASSUME Inv, TypeOK', NEW f \in Fibers, Moved(f), timers' \subseteq timers,
           \A tm \in timers' :
             tm.fiber = f => TimerOK(tm)' \/ (tm.at # "armed" /\ tm.kind # "sleep")
    PROVE  TimerInv'
<1>1. \A tm \in timers' : TimerOK(tm)'
  BY OthersTimers
<1> QED  BY <1>1 DEF TimerInv, Inv

\* A fiber has a timer that waits for it only in the middle of an attempt.
LEMMA AttemptMoves ==
    ASSUME NEW f \in Fibers, FiberMove(f), pc[f] \in {"add", "hold", "cancelTimer"}
    PROVE  AddEvent(f) \/ AddEventFails(f) \/ Resume(f) \/ CancelTimer(f)
  BY DEF FiberMove, FiberStep, Transfer, Accept, AcceptFails, Again, ConnectNow, ConnectLater, Arm,
         Check, GetSockOpt, SleepCall, ConnectCall, IOCall, Begin, Uses

\* The moves keep what is said of timers.
LEMMA FiberTimer == ASSUME Inv, TypeOK', NEW f \in Fibers, FiberMove(f) PROVE TimerInv'
<1> USE FiberMoves
<1>0. \A tm \in timers : TimerOK(tm) /\ tm \in Timer /\ tm.fiber \in Fibers
  BY TimerFields DEF Inv, TimerInv
<1>1. CASE Arm(f)
  <2>1. PICK c \in Calls, own \in Timer :
          /\ c.kind = call[f].kind /\ c.id = call[f].id
          /\ call' = [call EXCEPT ![f] = c]
          /\ own.fiber = f /\ own.call = c.id /\ own.attempt = c.attempt /\ own.kind = c.kind
          /\ own.fd = call[f].fd /\ own.at = "armed"
          /\ timers' = IF c.timed THEN timers \cup {own} ELSE timers
          /\ pc' = [pc EXCEPT ![f] = IF c.kind = "sleep" THEN "hold" ELSE "add"]
    BY <1>1, ArmEffect DEF Inv
  <2>2. \A tm \in timers : tm.fiber = f => tm.at # "armed" /\ tm.kind # "sleep"
    BY <1>0, <1>1 DEF TimerOK, Arm
  <2>3. \A tm \in timers : TimerOK(tm)'
    BY <2>2, OthersTimers
  <2>4. TimerOK(own)'
    <3>1. /\ pc[f] = "arm" /\ call[f].id \in 1..calls /\ woken[f] = "no"
          /\ call[f].kind # "sleep" => call[f].fd \in Fds
          /\ UNCHANGED <<calls, woken>>
      BY <1>1 DEF Arm, Inv, CallInv, CallOK
    <3>2. call'[f] = c /\ pc'[f] = IF c.kind = "sleep" THEN "hold" ELSE "add"
      BY <2>1 DEF Inv, TypeOK
    <3> QED  BY <2>1, <3>1, <3>2 DEF TimerOK, Alive
  <2> QED  BY <2>1, <2>2, <2>3, <2>4 DEF TimerInv, Inv
<1>2. CASE AddEvent(f)
  <2>1. /\ pc[f] = "add" /\ pc'[f] = "hold" /\ UNCHANGED <<call, calls, timers, woken>>
    BY <1>2 DEF AddEvent, Goto, Inv, TypeOK
  <2>2. \A tm \in timers : tm.fiber = f => TimerOK(tm)'
    BY <1>0, <2>1 DEF TimerOK, Alive
  <2> QED  BY <2>1, <2>2, MoveTimer
<1>3. CASE AddEventFails(f) \/ CancelTimer(f)
  <2>1. timers' = timers \ OwnTimer(f) /\ pc[f] \in {"add", "cancelTimer"}
    BY <1>3 DEF AddEventFails, CancelTimer
  <2>2. \A tm \in timers' : tm.fiber = f => tm.at # "armed" /\ tm.kind # "sleep"
    BY <1>0, <2>1 DEF TimerOK, Alive, OwnTimer
  <2> QED  BY <2>1, <2>2, MoveTimer
<1>4. CASE Resume(f)
  <2>1. pc[f] = "hold" /\ woken[f] # "no" /\ timers' = timers
    BY <1>4 DEF Resume
  <2>2. \A tm \in timers : tm.fiber = f => tm.kind # "sleep"
    BY <1>0, <2>1 DEF TimerOK
  <2>3. CASE call[f].kind = "sleep"
    BY <1>0, <2>1, <2>2, <2>3, MoveTimer DEF TimerOK
  <2>4. CASE call[f].kind # "sleep"
    <3>1. pc'[f] = "cancelTimer" /\ UNCHANGED <<call, calls, woken>>
      BY <1>4, <2>4 DEF Resume, Goto, Inv, TypeOK
    <3>2. \A tm \in timers : tm.fiber = f => TimerOK(tm)'
      BY <1>0, <2>2, <3>1 DEF TimerOK, Alive
    <3> QED  BY <2>1, <3>2, MoveTimer
  <2> QED  BY <2>3, <2>4
<1>5. CASE pc[f] \notin {"add", "hold", "cancelTimer"} /\ ~Arm(f)
  <2>1. \A tm \in timers : tm.fiber = f => tm.at # "armed" /\ tm.kind # "sleep"
    BY <1>0, <1>5 DEF TimerOK
  <2> QED  BY <1>5, <2>1, MoveTimer DEF Moved
<1> QED  BY <1>1, <1>2, <1>3, <1>4, <1>5, AttemptMoves

\* A timer of a call goes on to the next step of its callback.
LEMMA AdvanceTimer ==
    ASSUME Inv, NEW tm \in timers, NEW label \in {"queued", "store", "cancel"},
           Advance(tm, label), tm.kind = "sleep" => label = "queued",
           UNCHANGED <<pc, call, calls, woken>>
    PROVE  TimerInv'
<1>1. \A other \in timers : TimerOK(other) /\ TimerOK(other)'
  BY DEF Inv, TimerInv, TimerOK, Alive
<1>2. PICK next \in Timer :
        /\ timers' = (timers \ {tm}) \cup {next}
        /\ next.fiber = tm.fiber /\ next.call = tm.call /\ next.kind = tm.kind
        /\ next.fd = tm.fd /\ next.at = label
  BY AdvanceEffect DEF Inv
<1>3. TimerOK(next)'
  BY <1>1, <1>2 DEF TimerOK, Alive
<1> QED  BY <1>1, <1>2, <1>3 DEF TimerInv, Inv

\* Every step keeps what is said of timers.
LEMMA NextTimer == ASSUME Inv, [Next]_vars PROVE TimerInv'
<1>0. TypeOK' /\ \A tm \in timers : TimerOK(tm) /\ tm.fiber \in Fibers
  BY NextType, TimerFields DEF Inv, TimerInv
<1>1. CASE \E f \in Fibers : FiberMove(f)
  BY <1>0, <1>1, FiberTimer
<1>2. CASE Woke
  <2>1. \A tm \in timers : tm.kind = "sleep" => woken'[tm.fiber] = "no"
    BY <1>0, <1>2, WokeEffect, HookAssumption DEF TimerOK, Inv, RegInv
  <2>2. \A tm \in timers : TimerOK(tm)'
    BY <1>0, <1>2, <2>1 DEF Woke, TimerOK, Alive
  <2> QED  BY <1>2, <2>2 DEF Woke, TimerInv, Inv
<1>3. ASSUME NEW tm \in timers, Take(tm) PROVE TimerInv'
  BY <1>3, AdvanceTimer DEF Take
<1>4. ASSUME NEW tm \in timers, Run(tm) PROVE TimerInv'
  <2>1. CASE tm.kind = "sleep"
    <3>1. \A other \in timers' : other.kind = "sleep" => other.fiber # tm.fiber
      BY <1>4, <2>1 DEF Run, Inv, TimerInv
    <3>2. /\ UNCHANGED <<pc, call, calls>> /\ timers' \subseteq timers
          /\ \A f \in Fibers : f # tm.fiber => woken'[f] = woken[f]
      BY <1>4, <2>1, <1>0 DEF Run, Inv, TypeOK
    <3>3. \A other \in timers' : TimerOK(other)'
      BY <1>0, <3>1, <3>2 DEF TimerOK, Alive
    <3> QED  BY <3>2, <3>3 DEF TimerInv, Inv
  <2>2. CASE tm.kind # "sleep" /\ Advance(tm, "store")
    BY <1>4, <2>2, AdvanceTimer DEF Run
  <2>3. CASE tm.kind # "sleep" /\ timers' = timers \ {tm}
    <3>1. UNCHANGED <<pc, call, calls, woken>>
      BY <1>4, <2>3 DEF Run
    <3>2. \A other \in timers' : TimerOK(other)'
      BY <1>0, <2>3, <3>1 DEF TimerOK, Alive
    <3> QED  BY <2>3, <3>2 DEF TimerInv, Inv
  <2> QED  BY <1>4, <2>1, <2>2, <2>3 DEF Run
<1>5. ASSUME NEW tm \in timers, Store(tm) PROVE TimerInv'
  BY <1>0, <1>5, AdvanceTimer DEF Store, TimerOK
<1>6. CASE UNCHANGED <<reg, timers, pc, call, calls, cancelled, woken, elapsed>>
  BY <1>6 DEF Inv, TimerInv, TimerOK, Alive
<1> QED  BY <1>1, <1>2, <1>3, <1>4, <1>5, <1>6, StepCases, WakeSteps

\* Every step keeps what is said of timers that elapsed.
LEMMA NextElapsed == ASSUME Inv, [Next]_vars PROVE ElapsedInv'
<1>0. /\ TypeOK /\ TypeOK' /\ calls \in Nat
      /\ \A tm \in timers : tm.call \in 1..calls /\ tm.fiber \in Fibers /\ tm \in Timer
  BY NextType, TimerFields DEF Inv, TypeOK, TimerInv, TimerOK
<1>1. ASSUME NEW f \in Fibers, FiberMove(f) PROVE ElapsedInv'
  <2>1. Moved(f)
    BY <1>1, FiberMoves
  <2>2. \A tm \in timers' : tm.at # "armed" => tm \in timers
    BY <2>1, ArmEffect, <1>0 DEF Moved
  <2>3. \A tm \in timers' : tm.at # "armed" /\ Alive(tm)' => tm.fiber \in elapsed'
    BY <1>0, <2>1, <2>2 DEF Moved, OthersKept, Alive, Inv, ElapsedInv
  <2>4. \A g \in Fibers : cancelled'[g] => g \in elapsed'
    BY <2>1 DEF Moved, Inv, ElapsedInv
  <2>5. pc'[f] = "hold" /\ call'[f].kind = "sleep" => woken'[f] = "no"
    <3>1. CASE AddEvent(f) \/ Arm(f)
      BY <3>1 DEF AddEvent, Arm, Inv, CallInv, CallOK
    <3> QED  BY <2>1, <3>1 DEF Moved
  <2>6. \A g \in Fibers : pc'[g] = "hold" /\ call'[g].kind = "sleep" /\ woken'[g] # "no"
                            => g \in elapsed'
    BY <2>1, <2>5 DEF Moved, OthersKept, Inv, ElapsedInv
  <2> QED  BY <2>3, <2>4, <2>6 DEF ElapsedInv
<1>2. CASE Woke
  <2>1. \A g \in Fibers : call[g].kind = "sleep" => woken'[g] = woken[g]
    BY <1>2, WokeEffect, HookAssumption DEF Inv, RegInv
  <2>2. timers' \subseteq timers
    BY <1>2 DEF Woke
  <2> QED  BY <1>2, <2>1, <2>2 DEF Woke, Inv, ElapsedInv, Alive
<1>3. ASSUME NEW tm \in timers, Take(tm) PROVE ElapsedInv'
  <2>1. PICK next \in Timer : /\ timers' = (timers \ {tm}) \cup {next}
                              /\ next.fiber = tm.fiber /\ next.call = tm.call
    BY <1>0, <1>3, AdvanceEffect DEF Take
  <2> QED  BY <1>0, <1>3, <2>1 DEF Take, Inv, ElapsedInv, Alive
<1>4. ASSUME NEW tm \in timers, Run(tm) PROVE ElapsedInv'
  <2>1. CASE Advance(tm, "store") /\ tm.kind # "sleep" /\ Alive(tm)
    <3>1. PICK next \in Timer : /\ timers' = (timers \ {tm}) \cup {next}
                                /\ next.fiber = tm.fiber /\ next.call = tm.call
      BY <1>0, <2>1, AdvanceEffect
    <3>2. tm.fiber \in elapsed
      BY <1>4, <2>1 DEF Run, Inv, ElapsedInv
    <3>3. UNCHANGED <<pc, call, cancelled, woken, elapsed>>
      BY <1>4, <2>1 DEF Run
    <3> QED  BY <1>0, <3>1, <3>2, <3>3 DEF Inv, ElapsedInv, Alive
  <2>2. CASE timers' = timers \ {tm}
    <3>1. tm.kind = "sleep" => tm.fiber \in elapsed
      BY <1>0, <1>4 DEF Run, Inv, ElapsedInv, TimerInv, TimerOK
    <3>2. \A g \in Fibers : woken'[g] = woken[g] \/ g \in elapsed
      BY <1>0, <1>4, <3>1 DEF Run, TypeOK
    <3> QED  BY <1>4, <2>2, <3>2 DEF Run, Inv, ElapsedInv, Alive
  <2> QED  BY <1>4, <2>1, <2>2 DEF Run
<1>5. ASSUME NEW tm \in timers, Store(tm) PROVE ElapsedInv'
  <2>1. PICK next \in Timer : /\ timers' = (timers \ {tm}) \cup {next}
                              /\ next.fiber = tm.fiber /\ next.call = tm.call
    BY <1>0, <1>5, AdvanceEffect DEF Store
  <2>2. \A g \in Fibers : cancelled'[g] => g \in elapsed
    BY <1>0, <1>5 DEF Store, Alive, Inv, ElapsedInv, TypeOK
  <2> QED  BY <1>0, <1>5, <2>1, <2>2 DEF Store, Inv, ElapsedInv, Alive
<1>6. CASE UNCHANGED <<reg, timers, pc, call, calls, cancelled, woken, elapsed>>
  BY <1>6 DEF Inv, ElapsedInv, Alive
<1> QED  BY <1>1, <1>2, <1>3, <1>4, <1>5, <1>6, StepCases, WakeSteps

\* Every step keeps a waker for every fiber that holds.
LEMMA NextHold == ASSUME Inv, [Next]_vars PROVE HoldsHaveAWaker'
<1> SUFFICES ASSUME NEW g \in Fibers, pc'[g] = "hold", woken'[g] = "no"
             PROVE  \/ call'[g].kind # "sleep" /\ reg'[<<call'[g].fd, call'[g].event>>] = g
                    \/ \E tm \in timers' : tm.fiber = g /\ tm.kind = "sleep"
  BY DEF HoldsHaveAWaker
<1>0. /\ pc[g] = "hold" /\ woken[g] = "no" =>
           \/ call[g].kind # "sleep" /\ reg[<<call[g].fd, call[g].event>>] = g
           \/ \E tm \in timers : tm.fiber = g /\ tm.kind = "sleep"
      /\ call[g].kind # "sleep" => <<call[g].fd, call[g].event>> \in Fds \X Events
      /\ \A tm \in timers : tm.fiber \in Fibers /\ tm \in Timer
  BY CallFields, TimerFields DEF Inv, HoldsHaveAWaker, CallInv, CallOK
<1>1. ASSUME NEW f \in Fibers, FiberMove(f)
      PROVE  \/ call'[g].kind # "sleep" /\ reg'[<<call'[g].fd, call'[g].event>>] = g
             \/ \E tm \in timers' : tm.fiber = g /\ tm.kind = "sleep"
  <2>0. Moved(f)
    BY <1>1, FiberMoves
  <2>1. CASE g # f
    <3>1. pc[g] = "hold" /\ woken[g] = "no" /\ call'[g] = call[g]
      BY <2>0, <2>1 DEF Moved, OthersKept
    <3>2. ASSUME reg[<<call[g].fd, call[g].event>>] = g, call[g].kind # "sleep"
          PROVE  reg'[<<call[g].fd, call[g].event>>] = g
      BY <2>0, <3>2, <1>0, HookAssumption DEF Moved, AddEvent, Inv, TypeOK
    <3>3. \A tm \in timers : tm.fiber = g => tm \in timers'
      BY <2>0, <2>1 DEF Moved
    <3> QED  BY <1>0, <3>1, <3>2, <3>3
  <2>2. CASE g = f /\ AddEvent(f)
    <3>1. call'[f] = call[f] /\ pc[f] = "add" /\ call[f].kind # "sleep"
      BY <2>2 DEF AddEvent, Inv, CallInv, CallOK
    <3>2. reg'[<<call[f].fd, call[f].event>>] = f
      BY <1>0, <2>2, <3>1 DEF AddEvent, Inv, TypeOK
    <3> QED  BY <2>2, <3>1, <3>2
  <2>3. CASE g = f /\ Arm(f)
    <3>1. PICK c \in Calls, own \in Timer :
            /\ c.timed = call[f].timed /\ c.kind = call[f].kind
            /\ call' = [call EXCEPT ![f] = c]
            /\ own.fiber = f /\ own.kind = c.kind
            /\ timers' = IF c.timed THEN timers \cup {own} ELSE timers
            /\ pc' = [pc EXCEPT ![f] = IF c.kind = "sleep" THEN "hold" ELSE "add"]
      BY <2>3, ArmEffect DEF Inv
    <3>2. c.kind = "sleep" /\ c.timed
      BY <2>3, <3>1 DEF Arm, Inv, CallInv, CallOK, TypeOK
    <3> QED  BY <2>3, <3>1, <3>2
  <2> QED  BY <2>0, <2>1, <2>2, <2>3 DEF Moved
<1>2. CASE Woke
  <2>1. pc[g] = "hold" /\ woken[g] = "no" /\ call'[g] = call[g]
    BY <1>2, WokeEffect DEF Woke
  <2>2. ASSUME reg[<<call[g].fd, call[g].event>>] = g, call[g].kind # "sleep"
        PROVE  reg'[<<call[g].fd, call[g].event>>] = g
    BY <1>0, <1>2, <2>2, WokeEffect, HookAssumption
  <2>3. \A tm \in timers : tm.kind = "sleep" => tm \in timers'
    BY <1>2 DEF Woke
  <2> QED  BY <1>0, <2>1, <2>2, <2>3
<1>3. ASSUME NEW tm \in timers, Take(tm) \/ Run(tm) \/ Store(tm)
      PROVE  \/ call'[g].kind # "sleep" /\ reg'[<<call'[g].fd, call'[g].event>>] = g
             \/ \E other \in timers' : other.fiber = g /\ other.kind = "sleep"
  <2>1. UNCHANGED <<reg, pc, call>>
    BY <1>3 DEF Take, Run, Store
  <2>2. woken[g] = "no" /\ (tm.fiber = g /\ tm.kind = "sleep" => ~Run(tm))
    BY <1>0, <1>3 DEF Take, Run, Store, Inv, TypeOK
  <2>3. \A label \in {"queued", "store", "cancel"} : Advance(tm, label) =>
          \E next \in Timer : /\ timers' = (timers \ {tm}) \cup {next}
                              /\ next.fiber = tm.fiber /\ next.kind = tm.kind
    BY AdvanceEffect DEF Inv
  <2>4. \A other \in timers : other.fiber = g /\ other.kind = "sleep" =>
          \E next \in timers' : next.fiber = g /\ next.kind = "sleep"
    BY <1>3, <2>2, <2>3 DEF Take, Run, Store
  <2> QED  BY <1>0, <2>1, <2>2, <2>4
<1>4. CASE UNCHANGED <<reg, timers, pc, call, calls, cancelled, woken, elapsed>>
  BY <1>0, <1>4
<1> QED  BY <1>1, <1>2, <1>3, <1>4, StepCases, WakeSteps

\* The invariant holds at first.
LEMMA InitInv == Init => Inv
<1> SUFFICES ASSUME Init PROVE Inv
  OBVIOUS
<1>1. TypeOK
  BY NoCallType DEF Init, TypeOK, Labels
<1>2. CallInv
  BY NoCallIs DEF Init, CallInv, CallOK
<1>3. RegInv /\ TimerInv /\ HoldsHaveAWaker
  BY DEF Init, RegInv, TimerInv, HoldsHaveAWaker
<1>4. ElapsedInv
  BY DEF Init, ElapsedInv
<1> QED  BY <1>1, <1>2, <1>3, <1>4 DEF Inv

-----------------------------------------------------------------------------
(* The theorems *)

\* The inductive invariant: a fiber inside a call has locals that fit it, a
\* registered fiber holds for its event, armed timers are those of current
\* attempts, and whatever ends a call early stems from a timer of the call.
THEOREM InvHolds == Spec => []Inv
<1>1. Inv /\ [Next]_vars => Inv'
  BY NextType, NextCall, NextReg, NextTimer, NextElapsed, NextHold DEF Inv
<1> QED  BY <1>1, InitInv, PTL DEF Spec

\* The variables keep their types (hook.cpp, fdmanager.cpp).
THEOREM TypeCorrect == Spec => []TypeOK
<1>1. Inv => TypeOK
  BY DEF Inv
<1> QED  BY <1>1, InvHolds, PTL

\* A hooked call leaves no registration and no armed timer behind that would
\* resume its fiber later (hook.cpp:172-207, 272-301).
THEOREM NothingLeft == Spec => []LeavesNothing
<1>1. Inv => LeavesNothing
  <2> SUFFICES ASSUME Inv PROVE LeavesNothing
    OBVIOUS
  <2>1. \A tm \in timers : tm.at = "armed" => pc[tm.fiber] # "idle" /\ tm \in OwnTimer(tm.fiber)
    BY DEF Inv, TimerInv, TimerOK, Alive, OwnTimer
  <2> QED  BY <2>1 DEF Inv, RegInv, LeavesNothing
<1> QED  BY <1>1, InvHolds, PTL

\* A fiber that holds was scheduled, or its event is registered or the timer
\* of its sleep is on its way (hook.cpp:184-185, 284-285, 340-342).
THEOREM HoldersHaveAWaker == Spec => []HoldsHaveAWaker
<1>1. Inv => HoldsHaveAWaker
  BY DEF Inv
<1> QED  BY <1>1, InvHolds, PTL

-----------------------------------------------------------------------------
(* The hooked calls implement BlockingCall *)

\* The abstract variables, as HookIO maps them.
Pending == {f \in Fibers : pc[f] # "idle"}
Target == [f \in Fibers |-> IF call[f].kind \in {"io", "accept"}
                              THEN <<call[f].fd, call[f].event>> ELSE <<NoFd, "READ">>]
Arrived == {x \in Fds \X Events : x[2] \in ready[x[1]]}

AbstractStep == Abstract!Next \/ UNCHANGED <<Pending, Target, elapsed, Arrived, result>>

\* A step that no fiber notices, unless data arrives or a descriptor that no
\* call uses is closed.
LEMMA Unnoticed ==
    ASSUME UNCHANGED <<pc, call, elapsed, result>>,
           \A f \in Pending : Target[f] \in Arrived => Target[f] \in Arrived'
    PROVE  AbstractStep
<1>1. Pending' = Pending /\ Target' = Target /\ Arrived' \subseteq Fds \X Events
  BY DEF Pending, Target, Arrived
<1> QED
  BY <1>1 DEF AbstractStep, Abstract!Next, Abstract!Environment, Pending, Target, Arrived

\* A fiber goes from one line of its call to another.
LEMMA Inside ==
    ASSUME TypeOK, NEW f \in Fibers, NEW label \in Labels \ {"idle"}, Goto(f, label),
           pc[f] # "idle",
           call'[f].kind = call[f].kind, call'[f].fd = call[f].fd,
           call'[f].event = call[f].event,
           \A g \in Fibers \ {f} : call'[g] = call[g], UNCHANGED <<elapsed, result, ready>>
    PROVE  AbstractStep
<1>1. Pending' = Pending
  BY DEF Pending, Goto, TypeOK
<1>2. Target' = Target
  BY DEF Target
<1>3. Arrived' = Arrived
  BY DEF Arrived
<1> QED  BY <1>1, <1>2, <1>3 DEF AbstractStep

\* A call begins.
LEMMA CallBegins ==
    ASSUME TypeOK, NEW f \in Fibers, NEW c \in Calls, Begin(f, c),
           c.kind = "sleep" \/ c.fd \in Fds
    PROVE  AbstractStep
<1>1. PICK begun \in Calls :
        /\ begun.kind = c.kind /\ begun.fd = c.fd /\ begun.event = c.event
        /\ pc[f] = "idle" /\ call' = [call EXCEPT ![f] = begun]
        /\ pc' = [pc EXCEPT ![f] = IF c.kind = "sleep" THEN "arm" ELSE "func"]
        /\ result' = [result EXCEPT ![f] = "none"] /\ UNCHANGED <<elapsed, ready>>
  BY BeginEffect
<1> DEFINE x == IF c.kind \in {"io", "accept"} THEN <<c.fd, c.event>> ELSE <<NoFd, "READ">>
<1>2. x \in (Fds \X Events) \cup {<<NoFd, "READ">>}
  BY DEF Calls, Kinds
<1>3. Target' = [Target EXCEPT ![f] = x]
  BY <1>1 DEF Target, TypeOK
<1>4. f \notin Pending /\ Pending' = Pending \cup {f}
  BY <1>1 DEF Pending, TypeOK
<1>5. Arrived' = Arrived
  BY <1>1 DEF Arrived
<1> HIDE DEF x
<1>6. Abstract!Call(f, x)
  BY <1>1, <1>3, <1>4, <1>5 DEF Abstract!Call, Pending, Target, Arrived
<1> QED  BY <1>2, <1>6 DEF AbstractStep, Abstract!Next

\* A call returns: what it took it found there, and its timer elapsed if it
\* says so.
LEMMA CallReturned ==
    ASSUME TypeOK, NEW f \in Fibers, NEW r \in Endings, Return(f, r), pc[f] # "idle",
           r \in {"timeout", "slept"} => f \in elapsed,
           IF r = "ok" THEN Target[f] \in Arrived /\ Arrived' = Arrived \ {Target[f]}
                       ELSE Arrived' = Arrived
    PROVE  AbstractStep
<1>1. /\ pc' = [pc EXCEPT ![f] = "idle"] /\ call' = [call EXCEPT ![f] = NoCall]
      /\ elapsed' = elapsed \ {f} /\ result' = [result EXCEPT ![f] = r]
  BY ReturnEffect
<1>2. f \in Pending /\ Pending' = Pending \ {f}
  BY <1>1 DEF Pending, TypeOK
<1>3. Target' = [Target EXCEPT ![f] = <<NoFd, "READ">>]
  BY <1>1, NoCallIs DEF Target, TypeOK
<1>4. Abstract!Return(f, r)
  BY <1>1, <1>2, <1>3 DEF Abstract!Return, Pending, Target, Arrived
<1> QED  BY <1>4 DEF AbstractStep, Abstract!Next, Abstract!Results, Endings

\* What the data that arrived is when one event of a descriptor is taken.
LEMMA Taken ==
    ASSUME TypeOK, NEW fd \in Fds, NEW e \in Events,
           ready' = [ready EXCEPT ![fd] = @ \ {e}]
    PROVE  Arrived' = Arrived \ {<<fd, e>>}
<1>1. \A x \in Fds \X Events : x[2] \in ready'[x[1]] <=> x[2] \in ready[x[1]] /\ x # <<fd, e>>
  <2> SUFFICES ASSUME NEW g \in Fds, NEW d \in Events
               PROVE  d \in ready'[g] <=> d \in ready[g] /\ <<g, d>> # <<fd, e>>
    OBVIOUS
  <2> QED  BY DEF TypeOK
<1> QED  BY <1>1 DEF Arrived

\* Every step of a fiber inside a call is one of BlockingCall.
LEMMA FiberAbstract ==
    ASSUME Inv, NEW f \in Fibers, FiberStep(f) \/ AddEventFails(f)
    PROVE  AbstractStep
<1> USE DEF kernelVars, bounds
<1>0. /\ TypeOK /\ CallOK(f) /\ call[f] \in Calls
      /\ pc[f] # "idle" /\ call[f].kind \in {"io", "accept"} =>
           call[f].fd \in Fds /\ Target[f] = <<call[f].fd, call[f].event>>
  BY CallFields DEF Inv, CallInv, CallOK, Target
<1>1. CASE Transfer(f)
  <2>1. /\ pc[f] # "idle" /\ Return(f, "ok") /\ "ok" \in Endings
        /\ call[f].kind = "io" /\ call[f].event \in ready[call[f].fd]
        /\ ready' = [ready EXCEPT ![call[f].fd] = @ \ {call[f].event}]
    BY <1>1 DEF Transfer, Endings
  <2>2. Target[f] \in Arrived /\ Arrived' = Arrived \ {Target[f]}
    <3>1. /\ Target[f] = <<call[f].fd, call[f].event>>
          /\ call[f].fd \in Fds /\ call[f].event \in Events
      BY <1>0, <2>1, CallFields
    <3>2. Arrived' = Arrived \ {Target[f]}
      BY <1>0, <2>1, <3>1, Taken
    <3> QED  BY <2>1, <3>1, <3>2 DEF Arrived
  <2> QED  BY <1>0, <2>1, <2>2, CallReturned
<1>2. CASE Accept(f)
  <2>1. /\ pc[f] # "idle" /\ Return(f, "ok") /\ "ok" \in Endings
        /\ call[f].kind = "accept" /\ "READ" \in ready[call[f].fd]
        /\ ready' = [ready EXCEPT ![call[f].fd] = @ \ {"READ"}]
    BY <1>2 DEF Accept, Endings
  <2>2. call[f].event = "READ"
    BY <1>0, <2>1 DEF CallOK
  <2>3. Target[f] \in Arrived /\ Arrived' = Arrived \ {Target[f]}
    <3>1. Target[f] = <<call[f].fd, "READ">> /\ call[f].fd \in Fds /\ "READ" \in Events
      BY <1>0, <2>1, <2>2 DEF Events
    <3>2. Arrived' = Arrived \ {Target[f]}
      BY <1>0, <2>1, <3>1, Taken
    <3> QED  BY <2>1, <3>1, <3>2 DEF Arrived
  <2> QED  BY <1>0, <2>1, <2>3, CallReturned
<1>3. CASE AcceptFails(f)
  BY <1>0, <1>3, CallReturned DEF AcceptFails, Arrived, Endings
<1>4. CASE Again(f)
  <2>1. CASE Return(f, "error")
    BY <1>0, <1>4, <2>1, CallReturned DEF Again, Arrived, Endings
  <2>2. CASE ~Return(f, "error")
    BY <1>0, <1>4, <2>2, Inside DEF Again, Labels
  <2> QED  BY <2>1, <2>2
<1>5. CASE ConnectNow(f)
  <2>1. PICK r \in {"connected", "error"} : Return(f, r)
    BY <1>5 DEF ConnectNow
  <2> QED  BY <1>0, <1>5, <2>1, CallReturned DEF ConnectNow, Arrived, Endings
<1>6. CASE ConnectLater(f)
  <2>1. CASE Return(f, "error")
    BY <1>0, <1>6, <2>1, CallReturned DEF ConnectLater, Arrived, Endings
  <2>2. CASE ~Return(f, "error")
    BY <1>0, <1>6, <2>2, Inside DEF ConnectLater, Labels
  <2> QED  BY <2>1, <2>2
<1>7. CASE Arm(f)
  <2>1. /\ call'[f].kind = call[f].kind /\ call'[f].fd = call[f].fd
        /\ call'[f].event = call[f].event
        /\ \A g \in Fibers \ {f} : call'[g] = call[g]
    BY <1>0, <1>7, ArmEffect DEF TypeOK
  <2>2. PICK label \in Labels \ {"idle"} : Goto(f, label)
    BY <1>7 DEF Arm, Labels
  <2> QED  BY <1>0, <1>7, <2>1, <2>2, Inside DEF Arm
<1>8. CASE AddEvent(f)
  BY <1>0, <1>8, Inside DEF AddEvent, Labels
<1>9. CASE AddEventFails(f)
  BY <1>0, <1>9, CallReturned DEF AddEventFails, Arrived, Endings
<1>10. CASE Resume(f)
  <2>1. CASE call[f].kind = "sleep"
    <3>1. Return(f, "slept") /\ pc[f] # "idle" /\ f \in elapsed
      BY <1>10, <2>1 DEF Resume, Inv, ElapsedInv
    <3> QED  BY <1>0, <1>10, <3>1, CallReturned DEF Resume, Arrived, Endings
  <2>2. CASE call[f].kind # "sleep"
    BY <1>0, <1>10, <2>2, Inside DEF Resume, Labels
  <2> QED  BY <2>1, <2>2
<1>11. CASE CancelTimer(f)
  BY <1>0, <1>11, Inside DEF CancelTimer, Labels
<1>12. CASE Check(f)
  <2>1. CASE cancelled[f]
    <3>1. Return(f, "timeout") /\ pc[f] # "idle" /\ f \in elapsed
      BY <1>12, <2>1 DEF Check, Inv, ElapsedInv
    <3> QED  BY <1>0, <1>12, <3>1, CallReturned DEF Check, Arrived, Endings
  <2>2. CASE ~cancelled[f]
    <3>1. PICK label \in Labels \ {"idle"} : Goto(f, label)
      BY <1>12, <2>2 DEF Check, Labels
    <3> QED  BY <1>0, <1>12, <2>2, <3>1, Inside DEF Check
  <2> QED  BY <2>1, <2>2
<1>13. CASE GetSockOpt(f)
  <2>1. PICK r \in {"connected", "error"} : Return(f, r)
    BY <1>13 DEF GetSockOpt
  <2> QED  BY <1>0, <1>13, <2>1, CallReturned DEF GetSockOpt, Arrived, Endings
<1> QED
  BY <1>1, <1>2, <1>3, <1>4, <1>5, <1>6, <1>7, <1>8, <1>9, <1>10, <1>11, <1>12, <1>13
  DEF FiberStep

\* Every other step of a fiber is one of BlockingCall, or is not noticed.
LEMMA UseAbstract == ASSUME Inv, NEW f \in Fibers, FiberUse(f) PROVE AbstractStep
<1> USE DEF kernelVars, bounds
<1>1. CASE SleepCall(f)
  <2>1. [NoCall EXCEPT !.timed = TRUE] \in Calls /\ [NoCall EXCEPT !.timed = TRUE].kind = "sleep"
    BY DEF NoCall, Calls, Kinds, Events
  <2> QED  BY <1>1, <2>1, CallBegins DEF SleepCall, Inv
<1>2. ASSUME NEW fd \in Fds, NEW e \in Events, IOCall(f, fd, e) PROVE AbstractStep
  <2> DEFINE c == [kind |-> IF conn[fd] = "up" THEN "io" ELSE "accept", fd |-> fd, event |-> e,
                    timed |-> fdCxt[fd] # NoCxt /\ e \in fdCxt[fd].timeouts,
                    direct |-> fdCxt[fd] = NoCxt \/ fdCxt[fd].userNonBlock, id |-> 0,
                    attempt |-> 0]
  <2>1. c \in Calls /\ Begin(f, c) /\ c.fd \in Fds
    BY <1>2 DEF IOCall, Inv, TypeOK, Cxts, Calls, Kinds
  <2> HIDE DEF c
  <2> QED  BY <2>1, CallBegins DEF Inv
<1>3. ASSUME NEW fd \in Fds, NEW timed \in BOOLEAN, ConnectCall(f, fd, timed) PROVE AbstractStep
  <2>1. PICK c \in Calls : Begin(f, c) /\ c.fd \in Fds
    BY <1>3 DEF ConnectCall, Inv, TypeOK, Cxts, Calls, Kinds, Events
  <2> QED  BY <2>1, CallBegins DEF Inv
<1>4. ASSUME NEW fd \in Fds, Close(f, fd) PROVE AbstractStep
  <2>1. ASSUME NEW g \in Pending, Target[g] \in Arrived PROVE call[g].fd # fd /\ call[g].fd \in Fds
    <3>1. call[g].kind \in {"io", "accept"}
      BY <2>1, HookAssumption DEF Target, Arrived, Pending
    <3> QED  BY <1>4, <2>1, <3>1 DEF Close, Uses, Inv, CallInv, CallOK, Pending
  <2>2. \A x \in Fds \X Events : x[1] # fd => ready'[x[1]] = ready[x[1]]
    BY <1>4 DEF Close, Inv, TypeOK
  <2>3. \A g \in Pending : Target[g] \in Arrived => Target[g] \in Arrived'
    BY <2>1, <2>2, HookAssumption DEF Target, Arrived, Pending
  <2> QED  BY <1>4, <2>3, Unnoticed DEF Close
<1>5. ASSUME NEW fd \in Fds, NEW s \in {"new", "listen"}, Socket(f, fd, s) PROVE AbstractStep
  BY <1>5, Unnoticed DEF Socket, Arrived
<1>6. ASSUME NEW fd \in Fds, NEW arg \in BOOLEAN, SetFl(f, fd, arg) PROVE AbstractStep
  BY <1>6, Unnoticed DEF SetFl, Arrived
<1>7. ASSUME NEW fd \in Fds, NEW e \in IOEvents, SetTimeout(f, fd, e) PROVE AbstractStep
  BY <1>7, Unnoticed DEF SetTimeout, Arrived
<1> QED  BY <1>1, <1>2, <1>3, <1>4, <1>5, <1>6, <1>7 DEF FiberUse

\* Hooked calls are what BlockingCall says: data is taken by the call that
\* returns it, and ETIMEDOUT and the end of a sleep are due to a timer that
\* this very call armed (hook.cpp:120-212).
THEOREM HookImplementsBlockingCall == Spec => ImplementsBlockingCall
<1>1. Init => Abstract!Init
  BY NoCallIs DEF Init, Abstract!Init
<1>2. Inv /\ [Next]_vars => [Abstract!Next]_(Abstract!vars)
  <2> SUFFICES ASSUME Inv, [Next]_vars PROVE AbstractStep
    BY DEF AbstractStep, Abstract!vars, Pending, Target, Arrived
  <2> USE DEF kernelVars, bounds
  <2>1. ASSUME NEW f \in Fibers, FiberStep(f) \/ FiberUse(f) \/ AddEventFails(f)
        PROVE  AbstractStep
    BY <2>1, FiberAbstract, UseAbstract
  <2>2. ASSUME NEW tm \in timers, Take(tm) PROVE AbstractStep
    <3>1. CASE Alive(tm)
      <4>1. tm.fiber \in Pending
        BY <3>1, TimerFields, NoCallIs
        DEF Pending, Alive, Inv, TypeOK, TimerInv, TimerOK, CallInv, CallOK
      <4>2. /\ UNCHANGED <<Pending, Target, Arrived, result>>
            /\ elapsed' = elapsed \cup {tm.fiber}
        BY <2>2, <3>1 DEF Take, Pending, Target, Arrived
      <4>3. Abstract!Elapse(tm.fiber)
        BY <4>1, <4>2 DEF Abstract!Elapse, Pending, Target, Arrived
      <4> QED  BY <4>1, <4>3 DEF AbstractStep, Abstract!Next, Pending
    <3>2. CASE ~Alive(tm)
      BY <2>2, <3>2, Unnoticed DEF Take, Arrived
    <3> QED  BY <3>1, <3>2
  <2>3. ASSUME NEW tm \in timers, Run(tm) \/ Store(tm) \/ CancelEvent(tm) PROVE AbstractStep
    BY <2>3, Unnoticed DEF Run, Store, CancelEvent, Arrived
  <2>4. ASSUME NEW fd \in Fds, Peer(fd) PROVE AbstractStep
    <3>1. \A g \in Fds : ready[g] \subseteq ready'[g]
      BY <2>4 DEF Peer, Inv, TypeOK
    <3>2. \A g \in Pending : Target[g] \in Arrived => Target[g] \in Arrived'
      BY <2>4, <3>1 DEF Peer, Target, Arrived
    <3> QED  BY <2>4, <3>2, Unnoticed DEF Peer
  <2>5. ASSUME NEW fd \in Fds, NEW e \in Events, Report(fd, e) \/ ReportLate(fd, e)
        PROVE  AbstractStep
    BY <2>5, Unnoticed DEF Report, ReportLate, Arrived
  <2>6. CASE UNCHANGED vars
    BY <2>6, Unnoticed DEF vars, Arrived
  <2> QED  BY <2>1, <2>2, <2>3, <2>4, <2>5, <2>6 DEF Next, TimerStep
<1> QED  BY <1>1, <1>2, InvHolds, PTL DEF Spec, ImplementsBlockingCall, Abstract!Spec

-----------------------------------------------------------------------------
(* Descriptors *)

\* An open descriptor has its FdCxt and is non-blocking, a closed one has
\* none.
CxtInv ==
    \A fd \in Fds : IF conn[fd] = "none" THEN fdCxt[fd] = NoCxt
                                         ELSE fdCxt[fd] # NoCxt /\ nonBlock[fd]

\* A new descriptor has its FdCxt and is non-blocking.
LEMMA NewFdCxt ==
    ASSUME Inv, CxtInv, NEW f \in Fibers, NEW fd \in Fds, NEW s \in {"new", "listen", "up"},
           NewFd(f, fd, s)
    PROVE  CxtInv'
<1>1. [userNonBlock |-> FALSE, timeouts |-> {}] \in Cxts /\ NoCxt \notin Cxts
  BY HookAssumption DEF Cxts
<1> QED  BY <1>1 DEF NewFd, CxtInv, Inv, TypeOK

\* Every step keeps descriptors non-blocking, and blocks no thread.
LEMMA NextCxt ==
    ASSUME Inv, CxtInv, ThreadNotBlocked, [Next]_vars PROVE CxtInv' /\ ThreadNotBlocked'
<1> USE DEF kernelVars, bounds
<1>0. /\ TypeOK /\ NoCxt \notin Cxts
      /\ \A f \in Fibers : call[f].kind # "sleep" => call[f].fd \in Fds /\ conn[call[f].fd] # "none"
  BY HookAssumption DEF Inv, Cxts, CallInv, CallOK
<1>1. ASSUME NEW f \in Fibers, NEW fd \in Fds, NEW s \in {"new", "listen"}, Socket(f, fd, s)
      PROVE  CxtInv' /\ ThreadNotBlocked'
  BY <1>1, NewFdCxt DEF Socket, ThreadNotBlocked
<1>2. ASSUME NEW f \in Fibers, NEW fd \in Fds, NEW arg \in BOOLEAN, SetFl(f, fd, arg)
      PROVE  CxtInv' /\ ThreadNotBlocked'
  <2>1. \A c \in Cxts : [c EXCEPT !.userNonBlock = arg] \in Cxts
    BY DEF Cxts
  <2> QED  BY <1>0, <1>2, <2>1 DEF SetFl, Uses, CxtInv, ThreadNotBlocked, TypeOK
<1>3. ASSUME NEW f \in Fibers, NEW fd \in Fds, NEW e \in IOEvents, SetTimeout(f, fd, e)
      PROVE  CxtInv' /\ ThreadNotBlocked'
  <2>1. \A c \in Cxts : [c EXCEPT !.timeouts = @ \cup {e}] \in Cxts
    BY DEF Cxts
  <2> QED  BY <1>0, <1>3, <2>1 DEF SetTimeout, Uses, CxtInv, ThreadNotBlocked, TypeOK
<1>4. ASSUME NEW f \in Fibers, NEW fd \in Fds, Close(f, fd) PROVE CxtInv' /\ ThreadNotBlocked'
  BY <1>0, <1>4 DEF Close, CxtInv, ThreadNotBlocked, TypeOK
<1>5. ASSUME NEW fd \in Fds, Peer(fd) PROVE CxtInv' /\ ThreadNotBlocked'
  BY <1>0, <1>5 DEF Peer, CxtInv, ThreadNotBlocked, TypeOK
<1>6. ASSUME NEW f \in Fibers, Accept(f) PROVE CxtInv' /\ ThreadNotBlocked'
  <2>1. PICK fd \in Fds : NewFd(f, fd, "up")
    BY <1>6 DEF Accept
  <2>2. Return(f, "ok")
    BY <1>6 DEF Accept
  <2> QED  BY <1>0, <2>1, <2>2, NewFdCxt DEF Return, Goto, ThreadNotBlocked, TypeOK
<1>7. ASSUME NEW f \in Fibers, Again(f) PROVE CxtInv' /\ ThreadNotBlocked'
  <2>1. nonBlock[call[f].fd]
    BY <1>0, <1>7 DEF Again, CxtInv
  <2> QED  BY <1>0, <1>7, <2>1 DEF Again, Return, Goto, CxtInv, ThreadNotBlocked, TypeOK
<1>8. ASSUME NEW f \in Fibers, ConnectNow(f) \/ ConnectLater(f)
      PROVE  CxtInv' /\ ThreadNotBlocked'
  BY <1>0, <1>8 DEF ConnectNow, ConnectLater, Return, Goto, CxtInv, ThreadNotBlocked, TypeOK
<1>9. ASSUME NEW f \in Fibers, NEW fd \in Fds,
             \/ \E timed \in BOOLEAN : ConnectCall(f, fd, timed)
             \/ \E e \in Events : IOCall(f, fd, e)
      PROVE  CxtInv' /\ ThreadNotBlocked'
  <2>1. UNCHANGED <<conn, nonBlock, fdCxt>>
    BY <1>9 DEF ConnectCall, IOCall, Begin
  <2>2. PICK label \in {"arm", "func"} : Goto(f, label)
    BY <1>9 DEF ConnectCall, IOCall, Begin
  <2> QED  BY <1>0, <2>1, <2>2 DEF Goto, CxtInv, ThreadNotBlocked, TypeOK
<1>10. ASSUME NEW f \in Fibers, SleepCall(f) PROVE CxtInv' /\ ThreadNotBlocked'
  BY <1>0, <1>10 DEF SleepCall, Begin, Goto, NoCall, CxtInv, ThreadNotBlocked, TypeOK
<1>11. ASSUME NEW f \in Fibers,
              Transfer(f) \/ AcceptFails(f) \/ AddEventFails(f) \/ GetSockOpt(f)
       PROVE  CxtInv' /\ ThreadNotBlocked'
  BY <1>0, <1>11
  DEF Transfer, AcceptFails, AddEventFails, GetSockOpt, Return, Goto, CxtInv, ThreadNotBlocked,
      TypeOK
<1>12. ASSUME NEW f \in Fibers, Arm(f) \/ AddEvent(f) \/ CancelTimer(f)
       PROVE  CxtInv' /\ ThreadNotBlocked'
  BY <1>0, <1>12 DEF Arm, AddEvent, CancelTimer, Goto, CxtInv, ThreadNotBlocked, TypeOK
<1>13. ASSUME NEW f \in Fibers, Resume(f) \/ Check(f) PROVE CxtInv' /\ ThreadNotBlocked'
  BY <1>0, <1>13 DEF Resume, Check, Return, Goto, CxtInv, ThreadNotBlocked, TypeOK
<1>14. ASSUME NEW tm \in timers, TimerStep(tm) PROVE CxtInv' /\ ThreadNotBlocked'
  BY <1>14 DEF TimerStep, Take, Run, Store, CancelEvent, CxtInv, ThreadNotBlocked
<1>15. ASSUME NEW fd \in Fds, NEW e \in Events, Report(fd, e) \/ ReportLate(fd, e)
       PROVE  CxtInv' /\ ThreadNotBlocked'
  BY <1>15 DEF Report, ReportLate, CxtInv, ThreadNotBlocked
<1>16. CASE UNCHANGED vars
  BY <1>16 DEF vars, CxtInv, ThreadNotBlocked
<1> QED
  BY <1>1, <1>2, <1>3, <1>4, <1>5, <1>6, <1>7, <1>8, <1>9, <1>10, <1>11, <1>12, <1>13, <1>14,
     <1>15, <1>16 DEF Next, FiberStep, FiberUse

\* Whatever was opened, closed and opened again, and whatever fcntl asked
\* for, no fiber blocks the thread that other fibers run on
\* (fdmanager.cpp:47-56, hook.cpp:543-550).
THEOREM NoThreadBlocked == Spec => []ThreadNotBlocked
<1>1. Init => CxtInv /\ ThreadNotBlocked
  BY DEF Init, CxtInv, ThreadNotBlocked
<1>2. Inv /\ CxtInv /\ ThreadNotBlocked /\ [Next]_vars => CxtInv' /\ ThreadNotBlocked'
  BY NextCxt
<1> QED  BY <1>1, <1>2, InvHolds, PTL DEF Spec

-----------------------------------------------------------------------------
(* Connecting *)

\* What the socket of a connect is at each of its lines; a socket is ready
\* for nothing before its handshake has ended.
ConnectInv ==
    /\ \A fd \in Fds : conn[fd] \in {"none", "new", "connecting"} => ready[fd] = {}
    /\ \A f \in Fibers :
        /\ call[f].kind = "connect" =>
             IF pc[f] = "func" THEN conn[call[f].fd] = "new"
                               ELSE conn[call[f].fd] \in {"connecting", "up", "refused"}
        /\ call[f].kind = "connect" /\ woken[f] = "ready" => conn[call[f].fd] # "connecting"
        /\ pc[f] = "getsockopt" => call[f].kind = "connect"

\* What the other fibers' connects rest on is left alone.
LEMMA ConnectStep ==
    ASSUME Inv, ConnectInv, NEW f \in Fibers, OthersKept(f),
           \A g \in Fibers \ {f} : call[g].kind # "sleep" => conn'[call[g].fd] = conn[call[g].fd],
           \A fd \in Fds : conn'[fd] \in {"none", "new", "connecting"} => ready'[fd] = {},
           call'[f].kind = "connect" =>
             IF pc'[f] = "func" THEN conn'[call'[f].fd] = "new"
                                ELSE conn'[call'[f].fd] \in {"connecting", "up", "refused"},
           call'[f].kind = "connect" /\ woken'[f] = "ready" => conn'[call'[f].fd] # "connecting",
           pc'[f] = "getsockopt" => call'[f].kind = "connect"
    PROVE  ConnectInv'
  BY DEF ConnectInv, OthersKept

\* A call returns.
LEMMA ConnectReturns ==
    ASSUME Inv, ConnectInv, NEW f \in Fibers, NEW r \in Endings, Return(f, r),
           \A g \in Fibers \ {f} : call[g].kind # "sleep" => conn'[call[g].fd] = conn[call[g].fd],
           \A fd \in Fds : conn'[fd] \in {"none", "new", "connecting"} => ready'[fd] = {}
    PROVE  ConnectInv'
<1>1. /\ pc'[f] = "idle" /\ call'[f] = NoCall /\ woken'[f] = "no"
      /\ \A g \in Fibers \ {f} : pc'[g] = pc[g] /\ call'[g] = call[g] /\ woken'[g] = woken[g]
  BY ReturnEffect DEF Inv, TypeOK
<1> QED  BY <1>1, ConnectStep, NoCallIs DEF OthersKept

\* A call goes on, or begins: neither the sockets nor what they are ready for
\* change.
LEMMA ConnectGoes ==
    ASSUME Inv, ConnectInv, NEW f \in Fibers, Moved(f), UNCHANGED <<conn, ready>>,
           pc'[f] \in {"getsockopt", "func"} => call'[f].kind = call[f].kind,
           pc'[f] = "getsockopt" => call[f].kind = "connect",
           call'[f].kind = "connect" =>
             /\ call[f].kind = "connect" /\ call'[f].fd = call[f].fd
             /\ pc[f] \notin {"func", "idle"} /\ pc'[f] \notin {"func", "idle"}
             /\ woken'[f] \in {"no", woken[f]}
    PROVE  ConnectInv'
<1>1. /\ call'[f].kind = "connect" => conn'[call'[f].fd] \in {"connecting", "up", "refused"}
      /\ call'[f].kind = "connect" /\ woken'[f] = "ready" => conn'[call'[f].fd] # "connecting"
      /\ \A fd \in Fds : conn'[fd] \in {"none", "new", "connecting"} => ready'[fd] = {}
  BY DEF ConnectInv
<1> QED  BY <1>1, ConnectStep DEF Moved

\* Every step keeps what connects rest on.
LEMMA NextConnect == ASSUME Inv, ConnectInv, [Next]_vars PROVE ConnectInv'
<1> USE DEF kernelVars, bounds
<1>0. /\ TypeOK
      /\ \A f \in Fibers : /\ pc[f] = "idle" => call[f].kind = "sleep"
                           /\ call[f].kind # "sleep" =>
                                /\ call[f].fd \in Fds /\ conn[call[f].fd] # "none"
                                /\ owner[call[f].fd] = f
                           /\ woken[f] # "no" =>
                                pc[f] \in {"hold", "cancelTimer", "check", "getsockopt"}
  BY NoCallIs DEF Inv, CallInv, CallOK
<1>1. ASSUME NEW f \in Fibers, FiberMove(f) PROVE ConnectInv'
  <2>0. Moved(f) /\ OthersKept(f)
    BY <1>1, FiberMoves DEF Moved
  <2>1. CASE Transfer(f)
    BY <1>0, <2>1, ConnectReturns DEF Transfer, Endings, ConnectInv, TypeOK
  <2>2. CASE Accept(f)
    <3>1. PICK fd \in Fds : NewFd(f, fd, "up")
      BY <2>2 DEF Accept
    <3>2. conn[fd] = "none" /\ conn' = [conn EXCEPT ![fd] = "up"]
      BY <3>1 DEF NewFd
    <3>3. \A g \in Fds : ready'[g] \subseteq ready[g]
      BY <1>0, <2>2 DEF Accept, TypeOK
    <3>4. \A g \in Fibers : call[g].kind # "sleep" => conn'[call[g].fd] = conn[call[g].fd]
      BY <1>0, <3>2 DEF TypeOK
    <3>5. \A g \in Fds : conn'[g] \in {"none", "new", "connecting"} => ready'[g] = {}
      BY <1>0, <3>2, <3>3 DEF ConnectInv, TypeOK
    <3> QED  BY <2>2, <3>4, <3>5, ConnectReturns DEF Accept, Endings
  <2>3. CASE AcceptFails(f) \/ AddEventFails(f) \/ GetSockOpt(f)
    <3>1. \E r \in Endings : Return(f, r)
      BY <2>3 DEF AcceptFails, AddEventFails, GetSockOpt, Endings
    <3> QED  BY <2>3, <3>1, ConnectReturns DEF AcceptFails, AddEventFails, GetSockOpt, ConnectInv
  <2>4. CASE Again(f)
    <3>1. CASE Return(f, "error")
      BY <2>4, <3>1, ConnectReturns DEF Again, Endings, ConnectInv
    <3>2. CASE ~Return(f, "error")
      BY <1>0, <2>0, <2>4, <3>2, ConnectGoes DEF Again, Goto, TypeOK
    <3> QED  BY <3>1, <3>2
  <2>5. CASE ConnectNow(f)
    <3>1. PICK s \in {"up", "refused"}, r \in Endings :
            conn' = [conn EXCEPT ![call[f].fd] = s] /\ Return(f, r)
      BY <2>5 DEF ConnectNow, Endings
    <3>2. call[f].kind = "connect" /\ UNCHANGED ready
      BY <2>5 DEF ConnectNow
    <3>3. \A g \in Fibers \ {f} : call[g].kind # "sleep" => conn'[call[g].fd] = conn[call[g].fd]
      BY <1>0, <3>1, <3>2 DEF TypeOK
    <3>4. \A fd \in Fds : conn'[fd] \in {"none", "new", "connecting"} => ready'[fd] = {}
      BY <1>0, <3>1, <3>2 DEF ConnectInv, TypeOK
    <3> QED  BY <3>1, <3>3, <3>4, ConnectReturns
  <2>6. CASE ConnectLater(f)
    <3>1. /\ pc[f] = "func" /\ call[f].kind = "connect" /\ UNCHANGED ready
          /\ conn' = [conn EXCEPT ![call[f].fd] = "connecting"]
      BY <2>6 DEF ConnectLater
    <3>2. \A g \in Fibers \ {f} : call[g].kind # "sleep" => conn'[call[g].fd] = conn[call[g].fd]
      BY <1>0, <3>1 DEF TypeOK
    <3>3. \A fd \in Fds : conn'[fd] \in {"none", "new", "connecting"} => ready'[fd] = {}
      BY <1>0, <3>1 DEF ConnectInv, TypeOK
    <3>4. CASE Return(f, "error")
      BY <3>2, <3>3, <3>4, ConnectReturns DEF Endings
    <3>5. CASE ~Return(f, "error")
      <4>1. pc'[f] = "arm" /\ call'[f] = call[f] /\ woken'[f] = woken[f]
        BY <1>0, <2>6, <3>5 DEF ConnectLater, Goto, TypeOK
      <4>2. woken[f] = "no" /\ conn'[call[f].fd] = "connecting"
        BY <1>0, <3>1 DEF TypeOK
      <4> QED  BY <2>0, <3>2, <3>3, <4>1, <4>2, ConnectStep
    <3> QED  BY <3>4, <3>5
  <2>7. CASE Arm(f)
    <3>1. /\ call'[f].kind = call[f].kind /\ call'[f].fd = call[f].fd
          /\ pc'[f] \in {"hold", "add"}
      BY <1>0, <2>7, ArmEffect DEF TypeOK
    <3> QED  BY <2>0, <2>7, <3>1, ConnectGoes DEF Arm
  <2>8. CASE AddEvent(f) \/ CancelTimer(f)
    BY <1>0, <2>0, <2>8, ConnectGoes DEF AddEvent, CancelTimer, Goto, TypeOK
  <2>9. CASE Resume(f)
    <3>1. CASE Return(f, "slept")
      BY <2>9, <3>1, ConnectReturns DEF Resume, Endings, ConnectInv
    <3>2. CASE ~Return(f, "slept")
      BY <1>0, <2>0, <2>9, <3>2, ConnectGoes DEF Resume, Goto, TypeOK
    <3> QED  BY <3>1, <3>2
  <2>10. CASE Check(f)
    <3>1. CASE Return(f, "timeout")
      BY <2>10, <3>1, ConnectReturns DEF Check, Endings, ConnectInv
    <3>2. CASE ~Return(f, "timeout")
      <4>1. /\ pc[f] = "check" /\ UNCHANGED <<call, conn, ready>>
            /\ pc'[f] = IF call[f].kind = "connect" THEN "getsockopt" ELSE "func"
            /\ woken'[f] \in {"no", woken[f]}
        BY <1>0, <2>10, <3>2 DEF Check, Goto, TypeOK
      <4> QED  BY <2>0, <4>1, ConnectGoes
    <3> QED  BY <3>1, <3>2
  <2>11. CASE \E fd \in Fds, timed \in BOOLEAN : ConnectCall(f, fd, timed)
    <3>1. PICK fd \in Fds, timed \in BOOLEAN : ConnectCall(f, fd, timed)
      BY <2>11
    <3>2. /\ pc'[f] = "func" /\ call'[f].fd = fd /\ conn[fd] = "new"
          /\ pc[f] = "idle" /\ UNCHANGED <<conn, ready, woken>>
      BY <1>0, <3>1 DEF ConnectCall, Begin, Goto, TypeOK
    <3>3. woken[f] = "no"
      BY <1>0, <3>2
    <3>4. \A g \in Fds : conn'[g] \in {"none", "new", "connecting"} => ready'[g] = {}
      BY <3>2 DEF ConnectInv
    <3> QED  BY <2>0, <3>2, <3>3, <3>4, ConnectStep
  <2>12. CASE SleepCall(f) \/ \E fd \in Fds, e \in Events : IOCall(f, fd, e)
    <3>0. PICK c \in Calls : Begin(f, c) /\ c.kind # "connect"
      <4>1. CASE SleepCall(f)
        <5> DEFINE c == [NoCall EXCEPT !.timed = TRUE]
        <5>1. c \in Calls /\ c.kind = "sleep" /\ Begin(f, c)
          BY <4>1 DEF SleepCall, NoCall, Calls, Kinds, Events
        <5> QED  BY <5>1
      <4>2. CASE \E fd \in Fds, e \in Events : IOCall(f, fd, e)
        <5>1. PICK fd \in Fds, e \in Events : IOCall(f, fd, e)
          BY <4>2
        <5> DEFINE c == [kind |-> IF conn[fd] = "up" THEN "io" ELSE "accept", fd |-> fd,
                         event |-> e, timed |-> fdCxt[fd] # NoCxt /\ e \in fdCxt[fd].timeouts,
                         direct |-> fdCxt[fd] = NoCxt \/ fdCxt[fd].userNonBlock, id |-> 0,
                         attempt |-> 0]
        <5>2. c \in Calls /\ c.kind # "connect" /\ Begin(f, c)
          BY <1>0, <5>1 DEF IOCall, TypeOK, Cxts, Calls, Kinds
        <5> QED  BY <5>2
      <4> QED  BY <2>12, <4>1, <4>2
    <3>1. /\ pc'[f] \in {"arm", "func"} /\ call'[f].kind # "connect" /\ UNCHANGED <<conn, ready>>
      BY <1>0, <3>0, BeginEffect DEF TypeOK
    <3>2. \A g \in Fds : conn'[g] \in {"none", "new", "connecting"} => ready'[g] = {}
      BY <3>1 DEF ConnectInv
    <3> QED  BY <2>0, <3>1, <3>2, ConnectStep
  <2> QED
    BY <1>1, <2>1, <2>2, <2>3, <2>4, <2>5, <2>6, <2>7, <2>8, <2>9, <2>10, <2>11, <2>12
    DEF FiberMove, FiberStep
<1>2. ASSUME NEW f \in Fibers, NEW fd \in Fds, Close(f, fd) PROVE ConnectInv'
  <2>1. /\ Woke /\ pc[f] = "idle" /\ owner[fd] = f
        /\ conn' = [conn EXCEPT ![fd] = "none"] /\ ready' = [ready EXCEPT ![fd] = {}]
    BY <1>2, WakeSteps DEF Close, Uses
  <2>2. \E S \in SUBSET (Fds \X Events) : WakeAll(S, "other")
    BY <1>2 DEF Close
  <2>3. \A g \in Fibers : woken'[g] = woken[g] \/ woken'[g] = "other"
    BY <2>2, WakeAllEffect DEF Inv
  <2>4. \A g \in Fibers : call[g].kind # "sleep" => conn'[call[g].fd] = conn[call[g].fd]
    BY <1>0, <2>1 DEF TypeOK
  <2> QED  BY <1>0, <2>1, <2>3, <2>4 DEF ConnectInv, Woke, TypeOK
<1>3. ASSUME NEW fd \in Fds, NEW e \in Events, Report(fd, e) PROVE ConnectInv'
  <2>1. /\ WakeAll({<<fd, e>>}, "ready") /\ conn[fd] \notin {"none", "new", "connecting"}
        /\ UNCHANGED <<pc, call, conn, ready>>
    BY <1>3 DEF Report, ConnectInv
  <2>2. {<<fd, e>>} \in SUBSET (Fds \X Events)
    OBVIOUS
  <2>3. \A g \in Fibers : woken'[g] = woken[g] \/ reg[<<fd, e>>] = g
    BY <2>1, <2>2, WakeAllEffect DEF Inv
  <2>4. \A g \in Fibers : reg[<<fd, e>>] = g => call[g].fd = fd
    BY HookAssumption DEF Inv, RegInv
  <2> QED  BY <2>1, <2>3, <2>4 DEF ConnectInv
<1>4. ASSUME NEW fd \in Fds, NEW e \in Events, ReportLate(fd, e) PROVE ConnectInv'
  <2>1. WakeAll({<<fd, e>>}, "other") /\ UNCHANGED <<pc, call, conn, ready>>
    BY <1>4 DEF ReportLate
  <2>2. {<<fd, e>>} \in SUBSET (Fds \X Events)
    OBVIOUS
  <2>3. \A g \in Fibers : woken'[g] = woken[g] \/ woken'[g] = "other"
    BY <2>1, <2>2, WakeAllEffect DEF Inv
  <2> QED  BY <2>1, <2>3 DEF ConnectInv
<1>5. ASSUME NEW tm \in timers, TimerStep(tm) PROVE ConnectInv'
  <2>1. UNCHANGED <<pc, call, conn, ready>>
    BY <1>5 DEF TimerStep, Take, Run, Store, CancelEvent
  <2>2. \A g \in Fibers : woken'[g] = woken[g] \/ woken'[g] = "other"
    <3>1. CASE CancelEvent(tm)
      <4>1. tm.fd \in Fds /\ tm.event \in Events
        BY <3>1, TimerFields DEF CancelEvent, Inv, TimerInv, TimerOK
      <4>2. {<<tm.fd, tm.event>>} \in SUBSET (Fds \X Events)
        BY <4>1
      <4> QED  BY <3>1, <4>2, WakeAllEffect DEF CancelEvent, Inv
    <3>2. CASE Take(tm) \/ Run(tm) \/ Store(tm)
      BY <1>0, <3>2 DEF Take, Run, Store, TypeOK
    <3> QED  BY <1>5, <3>1, <3>2 DEF TimerStep
  <2> QED  BY <2>1, <2>2 DEF ConnectInv
<1>6. ASSUME NEW fd \in Fds, Peer(fd) PROVE ConnectInv'
  <2>1. UNCHANGED <<pc, call, woken>>
    BY <1>6 DEF Peer
  <2>2. \A g \in Fds :
          /\ conn'[g] # conn[g] => conn[g] = "connecting" /\ conn'[g] \in {"up", "refused"}
          /\ ready'[g] = ready[g] \/ conn'[g] \notin {"none", "new", "connecting"}
    BY <1>0, <1>6 DEF Peer, CarriesData, TypeOK
  <2> QED  BY <1>0, <2>1, <2>2 DEF ConnectInv
<1>7. ASSUME NEW f \in Fibers, NEW fd \in Fds, NEW s \in {"new", "listen"}, Socket(f, fd, s)
      PROVE  ConnectInv'
  <2>1. /\ conn[fd] = "none" /\ conn' = [conn EXCEPT ![fd] = s]
        /\ UNCHANGED <<pc, call, woken, ready>>
    BY <1>7 DEF Socket, NewFd
  <2> QED  BY <1>0, <2>1 DEF ConnectInv, TypeOK
<1>8. ASSUME NEW f \in Fibers, NEW fd \in Fds,
             \/ \E arg \in BOOLEAN : SetFl(f, fd, arg)
             \/ \E e \in IOEvents : SetTimeout(f, fd, e)
      PROVE  ConnectInv'
  BY <1>8 DEF SetFl, SetTimeout, ConnectInv
<1>9. CASE UNCHANGED vars
  BY <1>9 DEF vars, ConnectInv
<1> QED
  BY <1>1, <1>2, <1>3, <1>4, <1>5, <1>6, <1>7, <1>8, <1>9 DEF Next, FiberUse, FiberMove

\* A connect that was resumed because its socket became writable reports
\* success exactly if the handshake ended well (hook.cpp:306-319).
THEOREM ConnectIsExact == Spec => ConnectExact
<1>1. Init => ConnectInv
  BY NoCallIs DEF Init, ConnectInv
<1>2. Inv /\ ConnectInv /\ [Next]_vars => ConnectInv'
  BY NextConnect
<1>3. ASSUME Inv, ConnectInv, [Next]_vars, NEW f \in Fibers,
             pc[f] = "getsockopt", pc'[f] = "idle", woken[f] = "ready"
      PROVE  result'[f] = "connected" <=> conn[call[f].fd] = "up"
  <2>1. GetSockOpt(f)
    <3>1. ASSUME NEW g \in Fibers, FiberMove(g) PROVE g = f
      BY <1>3, <3>1, FiberMoves DEF Moved, OthersKept
    <3>2. FiberMove(f)
      BY <1>3, <3>1, StepCases, WakeSteps DEF Woke, Take, Run, Store
    <3> QED
      BY <1>3, <3>2
      DEF FiberMove, FiberStep, Transfer, Accept, AcceptFails, Again, ConnectNow, ConnectLater,
          Arm, AddEvent, AddEventFails, Resume, CancelTimer, Check, SleepCall, ConnectCall,
          IOCall, Begin, Uses
  <2>2. conn[call[f].fd] \in {"up", "refused"}
    BY <1>3 DEF ConnectInv
  <2> QED  BY <1>3, <2>1, <2>2 DEF GetSockOpt, Return, Inv, TypeOK
<1>4. Inv /\ ConnectInv /\ [Next]_vars =>
        \A f \in Fibers : pc[f] = "getsockopt" /\ pc'[f] = "idle" /\ woken[f] = "ready" =>
          (result'[f] = "connected" <=> conn[call[f].fd] = "up")
  BY <1>3
<1> QED  BY <1>1, <1>2, <1>4, InvHolds, PTL DEF Spec, ConnectExact

=============================================================================
