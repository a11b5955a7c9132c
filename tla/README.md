# A TLA+ model of Blue Proxy

Blue Proxy is an HTTP/HTTPS proxy built on its own user-space runtime: fibers on
`ucontext`, an M:N scheduler, an epoll event loop with timers, hooked system calls that
turn blocking socket code into fiber switches, and, on top, an HTTP server with
connection pools, rate limiting and a response cache. This directory holds the TLA+
modules that model that runtime and the proxy's own state, the TLC configurations that
check them, and the TLAPS proofs about them. `PROJECT.json` lists the components, runs,
theorems, hazards and findings, and maps every definition to the lines it models.

## The system

| Component | State it keeps | Operations | Hard part | What makes it correct |
|---|---|---|---|---|
| Fiber (`blue/fiber.*`, `context.*`) | status, stack, saved context | swapIn, swapOut, YieldToReady, YieldToHold, reset, MainFunc | status and saved context change at different moments, other threads read the status | one thread per stack; a status is changed by who runs the fiber |
| Scheduler (`blue/schedular.*`) | task queue under `m_mutex`, atomic active and idle counts, stop flags, one `run` loop per thread | schedule, run, idle, tickle, stopping, start, stop | every worker races for the queue; `stopping()` is not atomic | every task runs once, nothing lost, `stop()` returns |
| IOManager (`blue/iomanager.*`) | per-descriptor `FdContext` (events, waiting fiber or callback), epoll set, pending count, tickle pipe | addEvent, delEvent, cancelEvent, cancelAll, idle, tickle, contextResize | events delivered by one thread while another cancels or registers | a registered event is triggered exactly once, the pending count equals the registered events |
| Timers (`blue/timer.*`) | ordered set of timers, `m_tickle`, previous time | addTimer, cancel, refresh, reset, listExpiredCb, getNextTime | clock steps, timers changed while they expire, waking the right sleeper | a timer holds a callback exactly while it is in the set; no expired timer is missed |
| Hooks (`blue/hook.*`, `fdmanager.*`) | `FdCxt` (socket, nonblocking flags, timeouts, closed) | read/write family, connect, accept, close, fcntl, setsockopt, sleep family | a timeout timer races the event it guards | a call returns on data, error or timeout, never waits for ever |
| Threads and locks (`blue/mthread.*`) | scoped locks, thread start handshake | lock, unlock, try_lock, Mthread start/join/detach | the scoped lock decides from its own flag whether to lock | mutual exclusion |
| Sockets (`blue/msocket.*`, `msocketstream.*`, `mstream.*`, `sslsocket.*`) | descriptor, connected flag | bind, listen, accept, connect, send, recv, close | partial reads and writes | a full read or write, or an error |
| TcpServer (`blue/tcpServer.*`) | listening sockets, stop flag | bind, start, startAccept, stop | accept loops register while stop cancels and closes in several steps | accept loops end after stop |
| HTTP messages, parser, session (`http/http.*`, `httpParser.*`, `httpsession.*`) | parser state, buffers | execute, recvRequest, sendResponse | message boundaries over a stream | a message is what was sent, however it is cut into reads |
| Servlets (`http/httpservlet.*`) | exact and glob tables | add, delete, getMatchedServlet | lookup and erase under different locks | exact match before glob before default |
| HTTP client pool (`http/httpconnection.*`) | idle list, total count | getConnection, ReleasePtr, doRequest | counts and list change under different conditions | an idle connection is alive, unexpired and used by one request |
| Proxy core (`http/httpserver.*`) | remote IP, pools by host, cache and rate keys in Redis | handleClient, _forwardRequest, _handleConnect, _handleWebSocket, _handleAdmin | one server object serves every client | a client is charged for its own requests; a tunnel ends |
| MySQL (`blue/mysqlpool.*`, `dbmanager.*`) | idle list under a mutex and condition variable | getConnection, releaseConnection, queries, logging | waiting borrowers, dead connections | a connection has one borrower and comes back |
| Redis (`blue/redismanager.*`) | one connection per manager | get, set, incr, expire | compound operations are not atomic | a rate key always expires |
| Configuration (`blue/config.*`, `configinit.*`) | variables and listeners | Lookup, setValue, addListener | listeners run while others change | listeners see each change |
| Logging (`blue/log.*`) | loggers, appenders, formatters | log, addAppender, setFormatter | shared appenders | a line is written whole |
| ByteArray (`blue/bytearray.*`) | linked nodes, position, size | read/write of integers and strings, setPosition | node boundaries | what is written is read back |
| URL, address, utilities (`blue/url.*`, `address.*`, `util.*`) | none | parsing and formatting | - | - |

Interaction: `HttpServer` is a `TcpServer` whose accept loops and client handlers are
scheduler tasks; a handler calls hooked socket functions; a hook registers an event with
the `IOManager` (and a timeout with its `TimerManager` base) and yields; an idle worker
waiting in `epoll_wait` triggers the event or the timer, which schedules the fiber again.
`IOManager` inherits from both `Schedular` and `TimerManager`.

## Modules

The order of work was: the runtime (scheduler, timers, events, hooked calls), because every
handler of the proxy runs on it; then the pools and the proxy's own state; then the data
structures and the configuration.

| Module | Models | Abstract specification or counterpart | Theorems in |
|---|---|---|---|
| `Schedular` | scheduler and fiber state machine | | `Schedular_proofs` |
| `TimerManager` | timers and the sleeping part of `IOManager::idle` | | `TimerManager_proofs` |
| `IOManager` | events of descriptors and the delivering part of `IOManager::idle` | | `IOManager_proofs` |
| `HookIO` | hooked calls | `BlockingCall`: what a caller may expect | `HookIO_proofs` |
| `HttpConnectionPool` | one client pool, a request and its response on a pooled connection, `ReleasePtr` | | `HttpConnectionPool_proofs` |
| `ProxyServer` | client handlers of one `HttpServer` over the pool, the cache and the rate limit in Redis | implements `HttpConnectionPool` | `Services_proofs` |
| `Tunnel` | `_handleConnect` and `_handleWebSocket`: reaching the remote host, the first answer, the `select` loop, hooked sends | | `Services_proofs` |
| `TcpServer` | accept loops through the hooked `accept`, `start`, and `stop` with the steps of its closing task | | |
| `MySQLPool` | the database pool and the statements that borrow from it | | `MySQLPool_proofs` |
| `RequestBuffer` | the buffer of `recvRequest` and the configuration variable behind its size | | `Services_proofs` |
| `HttpParser` | what the callbacks of the parsers make of the pieces llhttp reports | | `Messages_proofs` |
| `ByteArray` | pages, position and size of a `ByteArray`, with the stream calls | `ByteSequence`: bytes with a position | `Services_proofs` |
| `Varint` | integers of variable length | | `Messages_proofs` |
| `Services` | the parts above the scheduler side by side, with their fairness and properties | | `Services_proofs`, `Messages_proofs` |

`MCSchedular`, `MCTimerManager`, `MCIOManager`, `MCHookIO` and `MCServices` only declare the
model values and the function-valued constants of the instances. `Services` puts the parts
above the scheduler, which share no state, side by side: `part` says which of them a behaviour
is about. So one run checks them all, and a theorem about one of them is a theorem about
`ServicesSpec`.

How the modules fit together. The program composes the parts by inheritance and by calls
that hand over one thing at a time, and the modules meet at exactly these places:
`Schedular` has one action, `Register`, for "the fiber will be scheduled by somebody", and
one, `Wake`, for that somebody; `IOManager` shows that a registered fiber is scheduled
once, and `TimerManager` that a timer has one outcome; `HookIO` takes these as what its
`Report`, `ReportLate`, `Take` and `CancelEvent` may do. A product of the four modules
would be out of TLC's reach: each instance below already takes TLC between some seconds
and three minutes. Above the scheduler, `ProxyServer` instantiates `HttpConnectionPool`
with its own variables and takes the pool's actions as its own; the others use from below
only what `BlockingCall` promises: a call returns data, an error or a timeout, and other
fibers run meanwhile.

### Schedular

*State.* `m_fibers`, `m_activeThreadCounts`, `m_idleThreadCounts`, `m_autoStopping` are the
members. A task stands for its fiber: `state`, `saved` (the saved context is good) and
`onStack` (who runs on its stack) describe it; `submits`, `yields`, `ended` bound and record
its life. Per thread, `pc` says where in `run()`, `idle()`, `swapIn`, `swapOut` or `stop()`
it is. `failed` becomes the assertion that aborted the process (`"swapIn"`, `"yield"`,
`"addEvent"`, `"destroy"`), or `"stack"` when a fiber is resumed on whose stack another thread still runs;
both end the behaviour.

*Actions.* `Submit` is `schedule`; `Pop`, `PopNothing` the scan under `m_mutex`; `Drop`,
`Check`, `SwapIn`, `Enter` the way into a fiber; `Finish`, `Throw`, `YieldToReady`,
`Register`, `YieldToHold` what its body does; `SwapOut`, `SwapOutHold`, `Swap` the way back
(status first, then the saved context, as in `fiber.cpp:86-87`); `FetchSub` and the `Post`
actions the code after `swapIn`; `SpinIdleExit` and `IdleProbe`, `IdleDecide` the two idle
loops; `StopRequest` to `Join` the body of `stop()`. A step is one critical section or one
access to an atomic or to a field that another thread can reach.

*Why the identity of fiber and task is sound.* `run()` reuses `cb_fiber` for the next
callback only when the last one ended without yielding, so two tasks are never visible
through one fiber object.

### TimerManager

*State.* `m_timers`, `m_next`, `m_ms`, `m_tickle`, `m_previousTime` as in the code, `armed`
for `m_cb`, `clock` for `CLOCK_MONOTONIC`, `pipe` for the tickle pipe, `vcb` and `deadline`
for the locals of `idle()`. Widths matter: `m_previousTime` wraps at `UintSpan` and the
remaining time is converted to `int` (`IntSpan`), where the upper half is negative and makes
`epoll_wait` wait without limit. `slept` is history: when the sleep of a thread began.

*Actions.* `Create` and `Insert` are `addTimer` (timer object, then insertion under the
mutex, then `Tickle` when it came first); `Cancel`, `Refresh`, `Reset`; `ClearTickle` and
`Wait` are the two critical sections of `getNextTime` with the `epoll_wait` that follows;
`Wake`, `ReadNow`, `Expire`, `Deliver` the rest of the loop with `listExpiredCb`, whose
`now_ms` is read before the mutex is taken; `WakeOther` is a wake-up by a descriptor.

### IOManager

*State.* The table `m_fdContexts` with its `size` and contexts that are replaced when it shrinks
(`shrunk` is history); `m_events` and `fiber` of each context; `m_pendingEventCounts`; the
kernel's interest list `epoll` with the context that each entry names; `ready`; the reports
`batch` that a thread has from `epoll_wait` and has not handled; `managed` for `FdManager`.

*Actions.* `AddEvent` looks the context up under the read lock, `Resize` grows the table
under the write lock without a second test, `Register` runs under the mutex of the context,
with `RegisterError` and `RegisterAssert` for a failing `epoll_ctl` and the assertion;
`CancelEvent`; `Close`, `CloseForget`, `CloseFd` are the three steps of the hooked `close`
(`cancelAll`, `FdManager::del`, the system call); `EpollWait` and `Handle` the event loop;
`Resume` the scheduler. Every `epoll_ctl` may fail where the code has a path for it.
`Shared` says whether fibers use each other's descriptors.

### HookIO and BlockingCall

*State.* Kernel side: `conn`, `nonBlock`, `ready`, `owner`; `fdCxt` is `FdManager::m_datas`;
`reg` the fiber registered for an event; `timers` the timers of hooked calls with the way
their callbacks have come; per fiber `pc`, `call` (arguments and locals), `cancelled`
(`TimerInfo::cancelled`), `woken`. `elapsed` is history, used by the refinement only.

*Actions.* `Socket`, `SetFl`, `SetTimeout`, `Close`; `IOCall`, `ConnectCall`, `SleepCall`
begin a call, `Transfer`, `Accept`, `AcceptFails`, `Again`, `ConnectNow`, `ConnectLater` are
the outcomes of the system call, `Arm`, `AddEvent`, `AddEventFails`, `Resume`,
`CancelTimer`, `Check`, `GetSockOpt` one attempt of the loop in the order of the code;
`Take`, `Run`, `Store`, `CancelEvent` are the callback of a timer: due, `weak_ptr::lock` and
the test, the store, the `cancelEvent`. Each is a step of its own because the callback is a
task of its own and may run on any thread. `hook_io` and `connect_with_timeout` differ only
before the wait and after it, so they share the actions of the wait.

*The refinement.* `BlockingCall` promises a caller: what has arrived stays until a call
returns it and one call takes it; ETIMEDOUT and the end of a sleep are due to a timer armed
by that very call. `HookIO` implements it with `pending` as the fibers whose `pc` is not
idle and `arrived` as what the descriptors are ready for. The hazards are timers of earlier
calls whose callbacks run late, reports for earlier registrations, and reused numbers.

*Assumed.* A fiber uses and closes only descriptors it opened (sharing is what `IOManager`
has, with `Shared = TRUE`); all calls are made on threads with hooks enabled (a `close` on
another thread would skip `FdManager::del`, `hook.cpp:507-510`); the scheduler, event loop
and timers behave as their modules show.

### HttpConnectionPool

*State.* `m_pool` and `m_total` are the members; `createTime`, `requestSize` and `isBusy`
belong to each connection; `asked`, `inbound`, `partial`, `stalled` and `hungUp` are the other
end: requests not answered, answers not read, bytes that end no answer, a send buffer without
room, and whether the host has closed. Per client, `pc`, the borrowed
connection `held`, `invalid_conn` as `popped`, the clock it read as `nowms`, its `url` and
the `result` of `doRequest`. `abandoned` is history: the connections on which a request was
given up.

*Actions.* `Pop` is the loop under `m_mutex`; `Discard` what `getConnnection` does after it
has let the mutex go; `Connect`, `ConnectFails`; `Send`, which waits as long as there is no
room (`SendWaits`: only the receive timeout is set); `RecvPart` a read of `recvResponse` that
ends no message and is followed by another with a timeout of its own, and the four ways the
loop ends; `Release`, `Drain`, once for each read of its loop, `DrainEnds`, `Push` are
`ReleasePtr` in the order of the code, the last one under the mutex. `Answer`, `Drip` (a part
of an answer), `Reads`, `HangUp` and `Tick` are the host and the clock. A
connection made with TLS has `m_createTime` 0 (`https`), a new one is not marked busy.

### ProxyServer

*State.* `m_remoteIP`, the one member all handlers write; per handler where it is (`hpc`),
its request, the address it counted, `temkeepAlive` and what it answers; in Redis the cache,
the counters, and which of them have an expiry. A body is the answer it was made from.

*Actions.* `Accept`, `RecvRequest`, `CloseClient`, `Respond` are `handleClient`; `CacheGet`,
`Incr`, `IncrFails`, `Expire`, `Forward`, `PoolReturns` are `_forwardRequest` for the forward
and the reverse path, one step per command to Redis; `IncrFails` is an `INCR` whose count is
-1 because it was not executed, or because it was and its reply was lost
(`redismanager.cpp:80-84`). `PoolStep` is a step of the pool. What
is cached, and with which status it is answered, is in `Deliver`.

### Tunnel, TcpServer

`Tunnel` numbers the bytes each side sends. `Connect`, `ConnectFails` and `Crash` (the
unchecked `std::stoi`, `CreateUrl` and `createAddress`) reach the remote host or not; `Greet`
is the answer to CONNECT, `PassRequest` and `RecvAnswer` the first exchange of a WebSocket,
whose `recv` may return -1, which `send` takes for a size (`RecvAnswerFails`, then `Garbage` is
in the buffer). In the loop `Recv` and `Send` are steps of their own: the hooked `send` waits
while the other side does not read (`full`), for no timeout is set; what it did not take is
gone (`short`); it fails, or `SIGPIPE` ends the program (`SendFails`, `SendKills`). `select`
stops the thread; its timeout leads to `YieldToHold`, from which nothing wakes the fiber
(`held`).

`TcpServer` has `start`, `stop`, and the task that closes the sockets, socket by socket and
step by step: `MSocket::cancelAll`, the `cancelAll` of the hooked `close`, `FdManager::del`, the
system's `close` (`Cancels`, `Closes`, `Unmanages`, `ClosesSocket`). Each accept loop goes through
the hooked `accept`: it may have passed the test for its `FdCxt` (`try`), or been told to try
again (`again`) and not yet be registered (`wait`), at any of these steps. `missed` is history:
who registered behind the last `cancelAll`. A second loop of one socket that registers fails the
assertion of `addEvent` and ends the program (`aborted`).

### MySQLPool, RequestBuffer

`MySQLPool` has the mutex and the condition variable of the standard library, a timeout at
any moment, and a server that drops connections; `Ping` hands out a dead one all the same,
as the code does. `RequestBuffer` has `ConfigVar::setValue`, which compares and assigns
under its lock and calls the listener without it, with a reference to the value: `Announce`
reads it, `Store` writes `s_http_request_buffer_size`. `raced` is history.

### HttpParser

llhttp is external: it reports a span of the message for each `Execute` that sees some of
it. The module has what the callbacks collect (`curr`), the message so far, and the loop of
`recvRequest` and `recvResponse`, which hand over each read and look at the outcome. A read
may end anywhere. A text is a sequence of `Chars`; `ParserAssumption` says what llhttp grants,
no empty name, method or version, and that no known method or version is the beginning of
another.

### ByteArray, ByteSequence, Varint

The pages are one sequence, `m_curr` is the number of a page and decides where a byte is
read or written. A call that would follow a null page ends the program and is no step.
`strayed` is history: `setPosition` went a page too far, or a stream received in the middle
of the content. `ByteSequence` is what remains when pages, capacity and `m_curr` are
forgotten: bytes, a position, and what was read last. In `Varint` numbers of `Width` bits go
through the stream in groups of `Group` bits.

## Runs

| Run | Question | Instance |
|---|---|---|
| `schedular_ready` | Does every task run to its end, once, in one place and first on its own thread, and does `stop()` return with everything done? | two workers and the caller, either `idle()`; two tasks, one pinned to the caller, one that tasks may schedule |
| `schedular_hold` | Do finished fibers stay finished, and all tasks finish, with events, a fiber scheduled twice and a throwing task? | one worker, two tasks that hold |
| `schedular_late_hold` | Does a fiber that yields always have the status EXEC, as `fiber.cpp:77, 85` assert? Violated | two workers, one task that holds and yields |
| `schedular_two_stacks` | May a fiber be resumed before it has left its stack? Violated | two workers, one task |
| `timer_one_thread` | Does `cancel` find its timer, and does the sleeper wake in time, with clock rollover, although the remaining time may not fit an `int`? | one idle thread and a user, a one-shot and a recurring timer |
| `timer_two_threads` | Has a timer one outcome, never early, and does it fire although `m_tickle` suppresses wake-ups? | two idle threads that use timers |
| `io_owned` | Is a fiber whose event came always resumed, and the event found through the table, when numbers are reused? | two fibers, two numbers, both needing the table to grow |
| `io_shared` | Are the counter, the contexts and epoll consistent when fibers share a descriptor? | three fibers, one number, two polling threads |
| `hook_calls` | Do hooked calls keep what `BlockingCall` promises, leave nothing behind, never block the thread and return? | two fibers, two numbers, two calls |
| `hook_timeout` | Does a timed call always have a timer that can end it? Violated | one fiber, one call |
| `services` | Does a client get the answer to its own request, and an answer at all; are pools, buffers, arrays, messages, tunnels and accept loops sound? | the instance of each part given below |
| `services_rate_key` | Is a request counted for the address of its client? Violated | two clients with two addresses |

*Bounds, and why they are enough.* Each hazard needs two actors at one object and, where
something is stale, one earlier generation of it; each instance has that and little more.
Scheduler: two threads race for one task, a third is the caller; one yield shows a task
that comes back, two show a second one. Timers: two timers are needed for one to come
before the other, two sleepers for a suppressed wake-up; time runs to `MaxTime`, far enough
for a recurring timer to fire twice and for `m_previousTime` to pass `Hour`. In
`timer_one_thread` `IntSpan = 8` and one of the periods is 4, the first that is negative as an
`int`, so that the conversion of `iomanager.cpp:378` happens on both sides of its edge; in
`timer_two_threads`, where periods fit, it does not matter. `UintSpan` is beyond `MaxTime`: what
wraps is the subtraction of an hour. Descriptors:
`InitSize = 1` makes both numbers of `io_owned` need `contextResize`, so that of two that
found the table too small the second makes it smaller; `MaxGen = 2` gives one context an
earlier one to be confused with. Hooked calls: `MaxCalls = 2` gives a call one predecessor
whose timer or report may come late, on its own number or another's; `MaxStale = 1` report
is late; `MaxOptions = 1` so that a timeout or a non-blocking flag is set on either
descriptor; number 2 comes only from `accept` (`SocketFds = {1}`), and only reading calls
move data (`IOEvents`), while `connect` waits for writing. Proxy: two clients at one address and
two connections, a pool with room for one (`MaxSize`), which is worn after two requests; one
client asks twice for the same URL by the forward path, or posts to what is no URL, the
other uses the reverse path or asks for a page of this server. `MaxRequests = 2` requests,
because the second is the one that finds what the first has left; `MaxFaults = 1` fault of
any kind and anywhere, Redis, connection, hang-up, expiry or clock. Database: three threads
for two connections. Byte arrays: two pages of two bytes and one to grow, so that every
boundary is met from both sides; after `strayed` they are only cleared. Numbers: `Width = 5`
and `Group = 2`, which do not divide one another, as 32, 64 and 7 do not. Messages: two
characters in each part, one header name the end of another, an empty value in the middle
and at the end, names too long together, an unknown method, a second message behind the
first, cut into reads anywhere. Buffers, tunnels, accept loops: two sessions; two bytes each
way, a buffer for both of them, and at the start a client that may not read; one socket with
two loops, `start` and `stop` twice. The host may stall a send and send parts of answers; a
send that stalls counts among the faults, parts do not. The two-stack, late-HOLD and timeout
violations need one or two actors only.

*Deadlock.* It is checked where the system runs on. Where the cfg turns it off, behaviours
end: the scheduler stops after `stop()`, or an assertion ends the process, and a fiber of
`io_shared` may hold for an event of a closed descriptor for ever (see Observations); in the
`services` runs the requests, bytes and reads of a part come to an end, and a tunnel may be
held.

*Fairness.* `Schedular`: threads are run by the kernel, task bodies are finite, an awaited
event comes, and the owner who called `stop()` goes on with it; nobody is obliged to submit,
to register, to throw or to call `stop()`. `TimerManager`: time passes, an operation begun
ends, a thread without tasks runs `idle()`. `IOManager`: a scheduled fiber is resumed (that
is what `Schedular` shows) and the event loop polls and handles what is reported; fibers are
not obliged to anything. `HookIO`: fibers inside a call go on, ready events are reported,
callbacks taken from `m_timers` are run. A peer is never obliged to send, nor `epoll_ctl` to
fail. `services`: a handler that has a request goes on (`Serve`), Redis drops a key whose time
has come (`WindowEnds`), the handler of a tunnel, the task of `stop()` and some accept loop are
run. The host need not answer, since a receive has a timeout, but nothing bounds the time of a
send or of a response that goes on coming: `RequestAnswered` says that requests are answered if
the host does not leave what it was sent unread for ever and does not go on sending parts for ever
(`HostGoesOn`). In the same way `TunnelEnds` supposes that the sides read again, and that the remote
host of a WebSocket answers or closes. These are premises of the two properties, so that behaviours
without them are in the run, and they are needed: without either, the property is violated.

*Findings.* `schedular_two_stacks`: `YieldToHold` is called after the event was registered;
an event that fires before `swapcontext` has saved the fiber lets another worker resume it
on the same stack. `schedular_late_hold`: the `HOLD` that `run` stores after it has tested the
status of a fiber that has left its thread overwrites the `EXEC` of a second worker, which
resumed the fiber in between, and the fiber's next yield fails its assertion. `hook_timeout`: the
timeout timer is armed before `addEvent` and, if it fires first, finds nothing to cancel.
`services_rate_key`: `handleClient` writes `m_remoteIP` of the one server object at `accept`,
and the counter is chosen when the request has been read; a client that connects in between
is charged for it. Each run's counterexample is the shortest.

## Proofs

*Schedular.* `ActiveExact` and `TypeOK` for any threads, tasks, pins and both `idle()`: the
invariant `TypeInv` bounds the program counters, `ActiveExact` itself is inductive given
it, and only together do they bound the counter below (the counter is the cardinality of a
finite set of threads). `OneThreadPerStack` and `OnePlace` under `ReadyOnly` (no task holds
or throws, each is scheduled once): `ReadyInv` says of each task that it is either in the
queue with its context saved, or in the hands of one thread at a label that fits its
status. The hypothesis is needed: with events `schedular_two_stacks` refutes the property.
`FirstRunPinned` needs none: `PinInv` says that what is queued without its pin, woken or
rescheduled, has yielded before, and follows the pin from the queue into a thread's hands.
`OnlyThrowAborts` for tasks that do anything, but under `OneRunner`: one thread takes tasks, so
that no other is between a status and the context it belongs to; with two workers a task that
holds may end the program, which is the finding of `schedular_late_hold`, so that no run checks
it and the theorem is about a single worker only. `EndsOnce` under either hypothesis: with
`ReadyOnly` an ended task is in no queue entry and nobody's hands, with `OneRunner` the runner
drops the entries that are left, provided a task that throws is scheduled once: a fiber that has
thrown does not look finished. `StopDrains` under `ReadyOnly` and `PinsServed` (no task is pinned to a
caller that does not take part, and what tasks schedule is not pinned): a thread that has left
found the queue empty and nobody active, which `ActiveExact` makes exact, and from then on only
tasks in hand could add to it. Without `PinsServed` the property fails, since a worker leaves
a task pinned to a thread that has gone.

*TimerManager.* `OutcomeInv` carries, for each timer, whether it is armed, a member of the
set, or taken by one thread, and counts outcomes; from it `ArmedIffMember` and `OneOutcome`
for any number of threads and timers. `SleepInv` bounds the wait under `PeriodsFitInt`
(periods fit an `int`), in `SleepIsBounded`. `FirstTimerCovered` for one idle thread, any number
of users and any periods: a timer that was 2^31 ms or more away when the thread fell asleep is
the one exception it makes. For more threads it fails when the woken one is busy, and `timer_two_threads` checks the
liveness that remains. `NotEarly` twice: for one thread, whose reading of the clock is never
older than `m_previousTime`, without more; and for any number of threads if an hour has passed
since boot (`Hour <= Boot`) and no thread keeps a reading for an hour (`[]Prompt`, a hypothesis
about the behaviour), because then no reading looks like a rollover. Both leave out what the
Observations say of the first hour.

*IOManager.* One inductive invariant `Inv`: types, the exact counter, one context per
holding fiber (`WakeInv`) and the interest list (`EpollAgrees`), for any fibers, threads
and numbers, shared or not. With `~Shared`, `OwnInv` adds where an owner may be in `close`
or `addEvent`, and gives `RegisteredWatched` and the assertion. Without ownership both
fail: two fibers that wait for the same event of one descriptor meet the assertion. `RegisteredInTable` needs no ownership: until the table has shrunk
(`shrunk`) every context that was ever given out is the one the table holds (`TableKept`),
and resizing keeps it.

*HookIO.* `Inv` says of each fiber that the locals of its call fit the line it is at and that
it owns the descriptor it uses (`CallInv`), of each registration that its fiber holds for it
(`RegInv`), of each armed timer that it is of the current attempt of the current call
(`TimerInv`), and of whatever tells a fiber that its time is up that a timer of this call
elapsed (`ElapsedInv`). What a step of one fiber leaves to all others is proved once
(`Moved`, `FiberMoves`), and so is what waking does (`Woke`, `WakeSteps`); the invariants
follow from these two and the steps of timers. `LeavesNothing` and `HoldsHaveAWaker` are
read off `Inv`. The refinement `Spec => ImplementsBlockingCall` is proved step by step from
it: a return with `ok` takes what is there, one with `timeout` or `slept` has `ElapsedInv`
to show for it, and closing a descriptor takes nothing from a pending call because its
owner is idle. `CxtInv` (open descriptors are non-blocking and have an `FdCxt`) gives
`ThreadNotBlocked`, `ConnectInv` (the state of the socket at each line of a connect)
gives `ConnectExact`.

*HttpConnectionPool.* `Inv` has the types, who holds a connection at which line (`Placed`),
that idle, borrowed and discarded connections are apart, place by place (`Apart`), that idle
ones are free and within `maxSize` (`Readiness`), and that `m_total` is their number
(`TotalExact`), by the cardinalities of the sets each step moves a connection between.
`PoolConsistent` is read off it. `AnswerIsOwn` needs the traffic on a connection that was not
given up: between requests there is none (`NoStray`), and during one there is the request or
its answer, or a part of it (`InFlight`), because a borrower leaves nothing behind it did not
abandon.

*Services.* A step of `ServicesSpec` is a step of each part or leaves it alone
(`StepOfParts`); the following theorems are proved about the parts and hold in the composition.

*ProxyServer.* Every step is a step of the pool or leaves it alone, so that `Spec => Pool!Spec`
(`ServerRunsPool`) and what is proved about the pool holds inside the proxy (`PoolInServer` for
`PoolConsistent`). On top of it
`ProxyInv` says that a handler waits in the pool for the target of its own request
(`AskedForTarget`) and that an entry of the cache is the answer for its key and, on the
forward path, one of status 200 (`CacheIsOwn`): a hit is answered with 200 whatever is
stored, and only that makes it the right status. `ResponseIsOwn` follows for any requests
and any failures.

*MySQLPool.* `Placed` puts each connection into the pool or into one thread's hands, and the
invariant for `NoneForgotten` counts the threads that are awake beside the idle connections:
a release adds one of each, a thread that takes a connection or goes to sleep without one
keeps the balance. `ConnectionsServed` is carried into the composition by the same steps.
*RequestBuffer.* While nobody has grown together with another (`Alone`), the size a growing
session sets is the one it reads back. *Tunnel.* `InOrder` says that what a side is given is
what the other sent, each byte once and in order, and all of it but what is in hand if no
`send` left any; and that bytes nobody sent reach only the client of a WebSocket whose first
`recv` failed, before all others. The invariant looks at the `Strand` of a side, what was given
to the other side followed by what is in the buffer: it rises, ends where the handler has
received to, and has no gap unless a `send` left some (`StrandSound`). A `recv` makes it longer
(`ReceivedNext`), and whatever a `send` takes, or a failure drops, is cut off its end
(`CutStrand`, `CutSound`). That garbage comes first needs that nothing has come from the remote
host before the first `recv` (`BufferInPlace`).

*ByteArray.* `ImplementsByteSequence` for pages of any size. The invariant `ArrayInv` says that
the pages are whole, that the content fits them, and that `m_curr` is the page of the byte at the
position (`OnPage`), which at the end of a page is the next one: that is what write, read,
`setPosition` and the stream calls must agree on. Each operation is then shown to do to the content what the
one of `ByteSequence` does (`ArrayMoves`), writing across any number of pages. While `strayed`
nothing is promised, as in the code; a clear makes it whole again.

*Varint* (`Messages_proofs`). The number of bytes depends on the data, so this proof is by
induction. The library's induction theorems take an operator as a parameter; the first section
states induction for a set of numbers instead, from a well-founded relation, and shows that a
recursive function is what its equation says (`IterationExists`). Then: `Groups[v]` has `Size`
bytes, the n-th one made of the n-th block of v (`WrittenIs`); what `Collected` has after n of
them is the first n blocks (`CollectedIs`), also when more bytes follow; `Taken` is `Size`; zigzag
is undone, for the least and greatest numbers too. `CodecInv` says that the stream is cut at
some positions into what was written of each unread number, and reading takes the first cut away.

*HttpParser* (`Messages_proofs`). `MessageWhole` for any streams, any lengths of texts and any
reads. By the same induction the messages of a stream lie in its bytes one behind the other
(`Flattened`), and so do the headers of a message, so that the byte after any position is known
(`Laid`). `ParserInv` says that the parser is at one of the places of the first message: in its
start, before a header, in a name, in a value, in its body or behind it (`Somewhere`, `Complete`),
and what it has collected by then; or that it has refused what is not acceptable (`Refused`).
llhttp reports all that has come of a text (`SpanIs`), so a name is in two pieces only if a read
ended in it, and one after which nothing has come only if a read ended just behind it: both set
`nameCut`, and until then the headers are those of the message that have a value, without the one
being read (`Kept`), which the next name or the end of the headers stores (`SetHeader`). After a
cut nothing is said of the headers, but what is said of the start, the body and a refusal still
holds, since a cut name is never longer than the name. Behind the first message the start that
comes is appended to the old one, and that no known start begins another makes it an error
(`StartsApart`).

The proofs assume the named `ASSUME`s of the modules and what each theorem states (the
modules that are instantiated by others name theirs as operators, and the theorems about
them say `ASSUME PoolAssumption` and so on). Hypotheses such as `ReadyOnly`, `OneRunner`,
`PinsServed`, `PeriodsFitInt` and `~Shared` are met by instances the runs check, or are the
default use of the code; what happens without them is said above or under Observations.

Only model-checked: every liveness property (`TaskCompletes`, `TaskCompletesUnlessStopped`,
`StopCompletes`, `TimerFires`, `ReadyFiberResumes`, `CallReturns`, `CounterExpires`,
`RequestAnswered`, `TunnelEnds`, `AcceptLoopsEnd`): liveness under
fairness is out of the prover's reach.

## What the models assume

- The scoped locks exclude. `ScopedlockedImpl` decides from `m_locked`, which its
  constructor does not initialise (`mthread.h:74`); a garbage value would make it skip the
  lock. The modules take the outcome in which the lock is taken.
- The scan of the queue is atomic: it runs under `m_mutex`. A status that another thread
  writes without the mutex is read once per entry.
- `epoll_wait` begins in the instant the clock was read for its timeout, and its array of
  64 entries has room for everything.
- `delEvent` has no caller in the repository and is not modelled.
- The parts above the scheduler are looked at one by one; they share no state in the program
  but the scheduler and the sockets.
- Redis replies to a command or the command fails, with or without having been executed; a
  handler does not wait for it for ever.
- The host of a pool is connected to within the default timeout of the hooked `connect`.
  `SIGPIPE`, which nothing in the code ignores, is taken for the error of the `send` outside
  `Tunnel`.
- Two tasks of `stop()` run one after the other, and the number of a socket that was closed is
  not used again while a loop still names it.
- Undefined behaviour and failed assertions end a behaviour.

## Observations

Met while modelling. Each can be seen by adding the formula to a cfg, or follows from the
lines named; none is needed for the results above.

- A task that throws is relabelled `HOLD` by `swapOut` (`fiber.cpp:279`) and, destroyed in
  that status, fails the assertion of `~Fiber` (`fiber.cpp:189`): the exception of
  `OnlyThrowAborts`.
- A pinned fiber loses its thread after its first `YieldToReady` (`schedular.cpp:244`):
  `FirstRunPinned` says "first".
- With `Schedular::idle`, which spins without yielding, a worker never comes back to the
  queue: `TaskCompletes` needs `ioIdle`, the idle of `IOManager`.
- `stop()` may return before a task that holds has finished: `IOManager::stopping` tests the
  pending events first and the active count last (`iomanager.cpp:354`, `schedular.cpp:318-326`),
  and a task that registers and holds in between is in neither. `StopDrains` is violated in
  the instance of `schedular_hold`; hence `TaskCompletesUnlessStopped`.
- A tickle may be suppressed by `m_tickle` while the thread it woke is busy: in the instance
  of `timer_two_threads` `FirstTimerCovered` is violated; the timer may fire late, but it
  fires (`TimerFires`).
- In the first hour after boot `m_previousTime - 3600000` wraps (`timer.cpp:303`), so that any
  reading of the clock older than the last one counts as a rollover and every timer expires:
  with two threads and `Boot < Hour`, `NotEarly` is violated. The runs start at
  `Boot = Hour`.
- A recurring timer whose callback was taken is scheduled once more after `cancel()`
  returned true; `OneOutcome` is about one-shot timers.
- The remaining time is converted to `int` (`iomanager.cpp:378`): 2^31 ms or more become
  negative, and the thread sleeps without limit. When the far timer is then cancelled, a nearer
  one that was behind it in `m_timers` is not fired without another wake-up:
  `FirstTimerCovered` excludes it (`slept`).
- A shrinking `contextResize`: two `addEvent`s that both found the table too small resize
  it one after the other, possibly to the smaller size (`iomanager.cpp:143-147`), and drop
  contexts in use.
- A fiber that registers between the `cancelAll` of `close` and the system's `close`
  (`hook.cpp:518-523`) holds for ever: `stop()` may leave an accept loop behind in this way, the
  `missed` of `AcceptLoopsEnd`, which is violated without it.
- Two fibers that wait for the same event of one descriptor end the process
  (`iomanager.cpp:162-169`); with descriptors of their own they do not (`AddEventAssertHolds`).
- A connect that was resumed by something other than its own event, a late report or the
  `cancelEvent` of an earlier call's timer, asks `getsockopt` while the handshake goes on,
  finds no error and reports success: `ConnectExact` holds only for `woken[f] = "ready"`
  (drop that conjunct to see it).
- `connect` is not tried again and does not register again; `hook_io` is, so that a wrong
  wake-up costs it one attempt (`CallReturns`).
- A response that comes after its request has timed out: `ReleasePtr` means to read and throw
  away all that is left (`httpconnection.cpp:581`), but it reads what has come so far. The late
  answer finds the next borrower of the connection. `ResponseIsOwn` excludes it with `sure`;
  without that conjunct it is violated.
- A connection over TLS is made without a time, is expired from the start and never used a
  second time (`httpconnection.cpp:400-405`).
- The limit on idle connections is the only one: nothing bounds how many are borrowed.
- `m_remoteIP` also goes into `X-Forwarded-For` and into the log of the database
  (`httpserver.cpp:903, 963`).
- An `EXPIRE` that fails, or a first `INCR` whose reply is lost, after which nobody is told 1
  and nobody sends `EXPIRE`, leaves a counter that never goes away, and its address is refused
  for ever once the limit is reached (`httpserver.cpp:884-888`, `redismanager.cpp:80-84`): hence
  `noExpiry` in `CounterExpires`.
- A host that does not read what it is sent, or that goes on sending small parts, holds the
  handler, and in `ReleasePtr` the thread of control that let the connection go, for as long as
  it likes: each read has a fresh timeout and a send has none (`httpconnection.cpp:53-98, 531,
  581-585`). `RequestAnswered` is violated without `HostGoesOn`.
- The reverse path caches answers of every status, and a hit is answered with 200
  (`httpserver.cpp:985-1070`): `ResponseIsOwn` speaks of the status on the forward path only.
- One request with keep-alive keeps the connection for all that follow
  (`temkeepAlive`, `httpserver.cpp:643-660`).
- A tunnel whose `select` times out holds for ever (`httpserver.cpp:1347`); what `send` did not
  take is dropped; when one side has closed, what the other still sends is dropped as well. A
  side that does not read keeps the tunnel up after the other has closed: `TunnelEnds` is
  violated without its first premise.
- The first `recv` of a WebSocket is not checked: -1 is passed to `send` as a size, and what lies
  in the buffer and behind it goes to the client (`httpserver.cpp:1410-1413`). `std::stoi` of the
  port, and the url and address made from the target, are not checked either.
- Nothing ignores `SIGPIPE`: a `send` to a side that has reset its connection ends the process.
- Two sessions that grow their buffers at the same time: one may be left with the size the
  other set, even with less room than it has bytes, and its next read of no bytes is taken for
  the end of the connection. `m_val` and `s_http_request_buffer_size` may differ from then on.
- `start()` between `stop()` and its task gives a socket a second accept loop; when both wait,
  the assertion of `addEvent` ends the process (`aborted` in `AcceptLoopsEnd`), and when the task
  has closed the socket, they fail and try again at once, until the next `stop()`.
- The tasks of two `stop()`s may run at the same time, and one clears `m_socks` while the other
  walks it (`tcpServer.cpp:136-143`); the model runs them one after the other.
- `MySQLPool` pings a connection before it hands it out and hands it out if that fails
  (`mysqlpool.cpp:62-71`); the README's reconnection after a drop is left to the client library.
- `ByteArray::setPosition` to the end of the content, when that is the end of a page and one
  page follows, goes to the page after it (`bytearray.cpp:564-578`): `setPosition(0)` on an
  empty array does; what is written then is not what is read. A stream that receives in the
  middle makes the content longer by bytes nobody wrote.
- `writeStringVint` writes a length of variable size and `readStringVint` reads one of eight
  bytes; `readUint32` takes any number of groups.
- The name of a header that a read cut in two is replaced by its rest
  (`httpParser.cpp:554-568`), or lost when the cut is just behind it; a header without a value
  is dropped unless it is the last; a second request in the same read makes the first one
  refused, since the method is appended to. The limit of 8192 on a name counts the name before
  it too.

## Not modelled, and why

- *Threads and scoped locks*: the other modules assume that a scoped lock locks. That a new
  thread may set and notify `m_running` between the test and the wait of the constructor, and
  that the constructor then waits for ever (`mthread.cpp:37-41, 62-64`), is read off the two
  functions; it is a listed hazard.
- *Sockets, streams, TLS*: wrappers of system calls and of OpenSSL. What a `SocketStream` does
  with a `ByteArray` is in `ByteArray`, the calls are in `HookIO`.
- *The rest of the parsers*: target and query, cookies, gzip, trailers and the string
  conversions of `http.cpp` map text to text. So does the rewriting of HTML, CSS, cookies and
  locations in `httpserver.cpp`, and the pages of `_handleAdmin`.
- *Servlets*: two tables under one read-write lock; each operation is one critical section,
  but for `delServlet`, which nothing calls while the server runs.
- *The static requests of the HTTP client* make a connection of their own and share nothing.
- *Redis and MySQL client libraries, YAML, llhttp, the Ragel-generated URL parser*: foreign or
  generated code, used as external actions where their results matter. They are half of the
  source lines of the repository.
- *Logging, addresses, URLs, utilities*: formatting and conversion; the loggers change when
  the configuration is loaded, before the servers run.
- `ioctl(FIONBIO)` (`hook.cpp:623-640`) passes the caller's flag to the kernel, unlike `fcntl`;
  nothing in the repository calls it. `delEvent` has no caller either.
- *Tests and examples* were read for how the library is used.
