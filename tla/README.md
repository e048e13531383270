# A verification development of CPUSPM

CPUSPM sums, averages and converts images in a pool of stateful worker
processes behind a websocket. This directory holds TLA+ models of the program in
`src/src`, TLC configurations that check them on small instances, and TLAPS proofs of
the facts that hold for every instance. Line numbers below are those of
`src/src/core/worker/worker_manager.py` unless another file is named.

## 1. The system

| component | source | state | operations |
|---|---|---|---|
| WorkerProcessManager | `worker_manager.py:23-430` | `process_info` (pid → process, busy lock, pipe ends, memory, pipe event), `sessions` (id → search lock, pid), `free_process_event` | search of a process, exchange of a message and its answer, `init_session`, `clear_session[_with_result]`, restart, stop |
| CPUCommands | `worker_manager.py:433-525` | none of its own | the protocol of a session: init, any number of data requests, one clear in a `finally`; a grayscale request has no session |
| Worker | `worker_process/worker.py` | `sessions` (id → context), its pipe end | receive, dispatch to a processor, answer or send the exception |
| Processors | `processors/realizations/*.py` | a context per session: the sum of the images | `init_session`, `process_message`, `clear_session` |
| Transfer | `transport_utils.py`, `utils/io.py` | a shared memory segment per process; byte 0 is a flag | write and announce a result, whole or in chunks; retries |
| Endpoint, message cycle | `main.py`, `message_handler.py` | the metrics | accept, run the cycle, map errors to close codes |
| Flows, transport | `session_wrap/flow`, `session_wrap/transport` | a five-character session id | the conversation with one client; the factory knows only the summary flow, the others are reached through CPUCommands alone |
| Metrics | `utils/metrics/manager.py` | gauges, running averages | update, format |

How they interact. All requests of all clients are tasks of one asyncio event
loop and share the manager. A request first obtains a process: a session is tied
to the process that has its context, a request without a session takes any free
one. It holds that process's busy lock while it sends one message down the pipe
and waits for the answer; a result is left in shared memory and only announced
in the pipe. Every wait has a timer. A process that did not answer is killed
and replaced, and its sessions are forgotten. A connection is one task: the endpoint,
the message cycle and one flow after another. A client that goes away is noticed by
that task when it next reads or sends; nobody cancels it but the server that shuts
down. When its graceful timeout ends it cancels the tasks and stops the pool, without waiting
for the clears of the sessions in between.

What is hard. The tasks interleave at every `await`; a lock is handed over by
waking a waiter that runs later; one event is shared by all sleepers; a
cancelled request leaves its message, or its answer, in a pipe the next one will
read; a restart happens under the feet of the requests that wait for the old
process; the worker is a separate process that is slow, fails or dies. None of
this is covered by the scripts of `src/src/tests`, which make one request at a time.

What makes the components correct:

* the manager: one request at a time per process and no process leaked; no
  request asleep while a process is free; the session table consistent with the
  processes; every answer given to its own request; every request ends.
* worker and processors: each message handled once, in order, answered once; a
  context belongs to one session and is not changed by a refused message.
* the two together: a session behaves as one accumulator (`SessionService`).
* transfer: what is read is what was written, whole; writer and reader neither
  block for ever nor overtake each other.
* flows: whatever the client does, the session is cleared and a result is the sum
  of that flow's images; a connection ends; the gauge counts the open ones (it does,
  but for those never accepted, section 6).
* shutdown: no process is left, no request left waiting.
* sums: independent of the order and the sizes of the images, nothing cut off.

## 2. The modules

| module | models | how |
|---|---|---|
| `Requests` | `messages.py`, and what a request is | A call is one `WorkerMessage`; since its rack is a fresh uuid the call is its own rack. `Type` and `SessionOf` are its fields. `Bad` and `Oversize` pick the calls on which a processor fails before, or after, it changes a context. |
| `AsyncLock` | `asyncio.Lock` (external) | Holder and FIFO. `Release` leaves the lock free and only the head of the FIFO may `Take` it: `Unlocked` is `not locked()`, `Available` is "`acquire()` does not suspend". |
| `Worker` | `worker.py`, the processors, pipe and memory | `toW`, `toM`: the two directions of a pipe. `ctx[p][s]`: the set of the images summed for `s` in `p`. One action per outcome of handling a message, then `Reply`. |
| `WorkerManager` | the manager, CPUCommands | See below. Extends `Worker`, `AsyncLock`. |
| `SessionService` | what the pool promises | Abstract: `store[s]` is one accumulator, a request is applied at most once and answered, once it has taken effect, with the accumulator's value at that moment; when a request fails sessions may be lost, whole. |
| `WorkerManagerProofs` | | The inductive invariant of the manager and its theorems. |
| `ResultProofs` | | The layer above it: results belong to their requests. |
| `ServiceProofs` | | The layer above that: contexts, answers, and the refinement of `SessionService`. |
| `Shutdown` | `stop_processes`, the lifespan | Extends `WorkerManager` with `stopped` and with the actions of a pool whose pipes are closed. Nothing is removed from `process_info`, so locks and table work on and every pipe operation is an `OSError`. |
| `PipeBackpressure` | the pipes as buffers | A pipe of `Room` units each way and a `send()` that blocks the thread of the event loop: `sending` is the request it is writing, and while there is one no other task or timer takes a step. A worker that sends a reply blocks in the same way and reads nothing meanwhile. |
| `Metrics` | `utils/metrics/manager.py` | The gauge, and the folded average as an exact fraction. |
| `WebsocketEndpoint` | `main.py`, `session_wrap`, `summary_image_accumulator` | Connections over the abstract pool. Extends `SessionService`, `Metrics`. See below. |
| `ImageAccumulation` | what the summary and heatmap processors do to pixels | Canvas, laying an image on it, the cast to a byte; it justifies the sets of images of `Worker`. |
| `ShutdownProofs` | | The stop, on the invariants of `ServiceProofs`. |
| `EndpointProofs`, `FlowProofs` | | The tasks of the connections; what their results are. |
| `PipeProofs`, `ImageProofs` | | The messages in a pipe; the sums of images. |
| `MC...` | | The requests, clients and images of the TLC instances. |

**WorkerManager.** `pc[c]` is where the task of `c` is suspended: `search` (line
105), `busy` (83, 110, 137), `parked`/`woken` (89), `wait` (270), `done`. `at` and
`lk` are its local variables `pid` and `search_free_process_lock`. A search lock is
named by the request that created it (line 100), so that an entry deleted and made
anew has a new lock while tasks still wait in the old one, as in Python.

One action is one uninterrupted run of a task. `acquire()` of an uncontended lock
does not suspend, so `OpenEntry` may go from the table look-up over both locks and
`clear_pipe` to the message in the pipe; that is also why an entry with `pid = None`
is never seen by another task, and why lines 115 (for an existing entry), 378, 405 and
213-215 are not in the model. `Start` has one disjunct per way a request begins,
`Proceed` one per way it goes on, `Timeout` and `Cancel` interrupt it where it is
suspended. `ReleaseProcess` is the `finally` of `_send_message`, `Break` the `except`
that restarts the process. `Outcome` and `Forget` are the `finally: del` of a clear,
whose `KeyError` replaces the error in flight.

**WebsocketEndpoint.** `at[n]` is where the task of a connection is suspended: in `accept()`
(`main.py:82`), at the frame the cycle waits for (`message_handler.py:25`), in `init_session`, at the frame the
flow waits for (`ai_flow.py:20`), in `work_function`, in the clear. `raised[n]` is the
exception in flight through the `finally` of `summary_image_accumulator`; the clear is
awaited there, so anything can happen before it goes on, and when the clear itself
fails its exception is the one that goes on (`FailToClear`). `Raise` is the decision of
the cycle: report and read on, or leave to the `finally` of the endpoint (`Finish`).
`accept()` is inside the `try` of that `finally`: when it returns the gauge is raised (`Accept`),
and when it raises because the client is gone (`FailToAccept`), or is cancelled, the gauge is
lowered all the same. Frames wait in a queue, so a client may be far ahead, also of an aborted flow whose frames
the cycle reads next. The pool is `SessionService`, restricted in `PoolHandles` and
`PoolFails` to the failures the instance allows (`Fragile`) and their consequences;
`PoolLoses` is a neighbour whose failure takes these sessions with it.

**Shutdown.** A request broken by the stop goes through the handler that restarts its
process; there the stop runs a second time, and its `unlink()` of a segment already
unlinked is a `FileNotFoundError`: nothing is started (`BreakClosed`). That the model's
ending is `OSError` where the code's is this subclass is all that is abstracted. A
request that seizes a lock after the stop fails in `clear_pipe`, before the `try`, and
never gives it back (`SeizeClosed`): those behind it depend on their timers.

Four choices of `WorkerManager` to know about:

* Handing an answer over takes a task two turns of the loop (the event wakes it,
  `wait_for` returns); here it is one action enabled while there is a message.
  `SkipForeign` is separate from the next receive; nothing else can see the difference,
  since the process is locked.
* `wait_for` is that of Python 3.12 and later: a timer that expires when the inner
  task has just finished does not discard the result.
* `pipe_data_event` is folded into `Waiting`: the reader of line 160 is level-triggered
  and sets it again as long as the pipe is not empty, so a `clear()` at the wrong moment
  costs one turn of the loop.
* `of` in an exception message is a ghost: the real exception has no rack, and no
  action looks at it but to record it in `out`.

## 3. The TLC runs

| run | instance | shows |
|---|---|---|
| `PoolSummary` | 2 processes; init, two images in flight, clear; 2 grayscale requests, one bad (an OSError), one whose result overflows; timers on `d1` and `k1`, cancellation of `d1` and `g2` | `TypeOK`, `BusyLockExcludes`, `SessionsPointToLive`, `NoLostWakeup`, `OneContext`, `SessionResults` |
| `PoolHeatmap` | 1 process that may be killed; two heatmap sessions, one opened by two requests, two images in flight; timers and cancellations that leave answers in the pipe | `OwnResult`, `SessionResults`, `ImplementsService` (refinement) |
| `PoolCalm` | 2 processes, the six requests of `PoolSummary`, no fault | `EveryCallAnswered` |
| `PoolMortal` | 1 process that may be killed, five requests with every timer armed; three of them can queue on one busy lock and two on one search lock | `EveryCallEnds` |
| `EndpointFlows` | 3 connections, of which `n1` holds one of three conversations (open, two images, stop; open, stop, open; open, a text out of place), may be cancelled, and has a pool that can refuse its first init or lose its sessions; any client may send ahead, fall silent or leave, before it is accepted too | `TypeOK`, `FlowsClearUp`, `ResultIsWhole`, `GaugeIsShort`, `CancelIsHonoured`, `AverageInRange`, `ClientProtocol`, `EveryConnectionEnds` |
| `PoolShutdown` | 1 process that may have been killed and replaced; a session of two images and two grayscale requests; the pool is stopped at any moment | `NoProcessAfterStop`, `StopEndsWaiting`, `ImplementsService` (refinement) |
| `PipeBackpressure` | 2 processes, one of which may be killed; 3 small requests that may be cancelled and 2 larger than a pipe | `WholeMessages`, `JamTakesAbandoned`, `LoopComesBack`, `EveryTaskEnds` |
| `Accumulation` | 4 images (of the declared shape, wide, tall, with sums past a byte) in any order on canvases of 3 shapes | `SumOfImages`, `NothingIsCutOff`, `ResultShowsSum` |
| `ForeignException`, `SearchLockLeak`, `PlainBehindSession`, `GaugeDrift` | a small instance that shows it (`GaugeDrift`: that of `EndpointFlows`) | a counterexample each, section 6 |

Bounds. `ForeignLimit` is 2 instead of 5, so that one stale answer is skipped and two
restart the process. `MaxPid` bounds the processes ever started: a restart ends the
request that caused it, so `ProcessCount` plus the number of requests can never be
exceeded; the runs use that number or a larger one (in `PoolCalm` nothing restarts and
`MaxPid = ProcessCount`; in `PoolShutdown` no more than one restart ever happens, a larger `MaxPid` gives the same states). The guard `started < MaxPid` of `Restart` is never what
disables it. Two processes are the least
for which a choice of process, a misplaced session and a free process beside a busy
one exist; two requests of one session and two without are the least for a queue
in each lock, two sleepers on the event and an answer left for the next request.
Deadlock is not checked: requests are finite and the system stops when all have ended.

In `EndpointFlows`, `FoldAt` is 2 instead of a million, so that the third duration is
averaged after a fold; three connections are the least for that. Two flows of one
connection are the least for a session left behind by an earlier flow, and frames meant
for another flow. `StartFlow` is bounded by the ids drawn and `AddImage` by the requests there are; no script asks for more.
In `PipeBackpressure` a pipe holds two units, so a message of three blocks; three requests
that may be given up are one more than a pipe has room for replies, the least for a jam. `PoolShutdown`
has one replacement process, so that the stop meets a table that has changed. `Depth` of
`Accumulation` is 4 instead of 256 and its images have up to 6 pixels: sums below, at and
above the largest value, and canvases higher than wide and wider than high.

Fairness (`FairSpec`). Weak fairness of `Proceed(c)`: the event loop runs a task whose
future is done, and the task stays runnable until then. Weak fairness of `Work(p)`: the
operating system runs a live worker, which receives and answers. Weak fairness of
`Timeout(c)`: a timer that was set expires if the wait goes on. Nothing is assumed of
the clients (`Start`), of cancellations or of kills. `EveryCallEnds` needs the timers:
a stale busy lock, a leaked search lock and a dead worker are only survived by them.

Fairness of the other modules. `Shutdown`: `ProceedClosed` after the stop, and no timer:
`StopEndsWaiting` says the wake-up of line 204 is enough. `WebsocketEndpoint`: weak fairness
of `Serve(n) \/ ClientTimeout(n)` (the loop runs a task that can run, and a wait for a
frame has a timer) and of `PoolServes(n)`, which is what `EveryCallEnds` shows of the real
pool; clients owe nothing. `PipeBackpressure`: the loop's thread, which is one, runs
(`Loop(c)`), and live workers run (`Run(p)`); a timer is part of the loop, so it expires
only when the loop is free.

`LoopComesBack` and `EveryTaskEnds` name their exception, `Frozen`, the states from which
nothing recovers: the loop writes to a full pipe, no timer can run, and the service is lost.
The run reaches it in two ways, and the properties say that there is no third.

* The process was killed. The manager holds its own copy of the worker's end (lines
  179-181 close it on Windows only), so the write never fails.
* The process lives, and waits for the loop in its turn (`Jammed`): it was left with the messages of
  requests given up, has answered as many as the pipe back holds, and is sending the next reply,
  which nobody reads while the loop writes. `clear_pipe` (245) drops the replies that were
  there before the write, and the lock of the process keeps other requests away, so it
  takes more given-up requests than a pipe has room for replies; that is
  `JamTakesAbandoned` (`owed` is the history it needs). Nothing in the code bounds how many
  requests may be given up on one process (251-333): each sends its message before it waits.

The refinement mapping of `ImplementsService`: a call's phase from `pc` and `out`;
`applied` is the history `handled`; `store[s]` is the context of `s` in the one live
process that has it. So a message handled after its client gave up is a late `Apply`,
a restart is a `Fail` that loses the sessions of that process, and an answer must carry
the value computed when its own request was applied.

## 4. What is proved

With no bound on requests, sessions, processes, connections, images or faults (`MaxPid` is any
number), and assuming only what the modules assume of their constants:

| module | theorem | states |
|---|---|---|
| `WorkerManagerProofs` | `TypeCorrect` | `Spec => []TypeOK` |
| | `ProcessesExclude` | `Spec => []BusyLockExcludes` |
| | `SessionsStayLinked` | `Spec => []SessionsPointToLive` |
| | `NoWakeupIsLost` | `Spec => []NoLostWakeup` |
| `ResultProofs` | `ResultsAreOwn` | `Spec => []OwnResult` |
| `ServiceProofs` | `ContextsAreSingle` | `Spec => []OneContext` |
| | `ResultsAddUp` | `Spec => []SessionResults` |
| | `PoolImplementsService` | `Spec => ImplementsService` |
| `ShutdownProofs` | `StoppedForGood` | `ShutdownSpec => []NoProcessAfterStop` |
| | `StopImplementsService` | `ShutdownSpec => ImplementsService` |
| `EndpointProofs` | `FlowsAlwaysClearUp` | `Spec => []FlowsClearUp` |
| | `CancellationIsHonoured` | `Spec => []CancelIsHonoured` |
| | `GaugeIsShortByRefused` | `Spec => []GaugeIsShort` |
| | `AverageStaysInRange` | `Spec => []AverageInRange` |
| | `TypeCorrect` | `Spec => []TypeOK` |
| `FlowProofs` | `FlowsKeepTheProtocol` | `Spec => ClientProtocol` |
| | `ResultsAreWhole` | `Spec => []ResultIsWhole` |
| `PipeProofs` | `MessagesStayWhole` | `Spec => []WholeMessages` |
| | `JamsTakeAbandoned` | `Spec => []JamTakesAbandoned` |
| `ImageProofs` | `CanvasIsTheSum` | `Spec => []SumOfImages` |
| | `ResultIsTheSum` | `Spec => []ResultShowsSum` |
| | `CanvasHasTheShape` | `Spec => []NothingIsCutOff` |

Every invariant and every action property a passing run checks is in this table, and both
refinements. The assumptions are those on the constants: `None` is not a request, a session, a
set of requests or a record; session ids of different flows differ (`FlowSession`); `Conn` is a
finite set, bounds and durations are natural numbers. None of them bounds an instance.

### The manager

The argument. None of the four of `WorkerManagerProofs` is inductive. `IInv` is their conjunction with
`Placement` and `Mailbox`:

* `Placement` says that nothing refers to a process not yet started: a restart gives
  the next number a fresh lock, and without it `BusyLockExcludes` could fail for a
  lock that already has a holder; and that a task in the search queue has a lock.
* `SessionsPointToLive` is needed for `BusyLockExcludes`: a request that finds its
  process through the table must seize a live one.
* `NoLostWakeup` needs `BusyLockExcludes`: the holder that leaves is the one whose
  release sets the event, and it does so in the step that replaces a process.
* `TypeOK` is not inductive by itself: the result in `out` is read from the shared
  memory of a process, and that there is a message there at all follows from what is in
  the pipe. `Mailbox` says so: a reply is to a request that was received, an `ok` is
  never said of a request with a result, and as long as a notice is in the pipe the
  memory holds a pickled message.

`CoreStep` (one lemma per group of actions: starts, acquires, receives, give-ups,
worker steps) and `MailboxStep` show that `[Next]_vars` keeps them. TLC checked
`Placement` and `Mailbox` on the instances of `PoolSummary` and `PoolHeatmap` before
they were proved.

`OwnResult` needs one more layer, `PipeInv` in `ResultProofs`:

* `SentOnce`: a call is in one place of one pipe at most, and no longer in any once it
  was handled; nothing is in a pipe that its task has not sent.
* `HolderLast`: the request that holds a process is the last one in its pipe. When the
  worker has taken it, nothing is left that could overwrite its result; and as long as
  something is left, the holder's own result cannot have been announced.
* `NoticeFresh`: so a notice of the holder's own result finds that result in the memory.

TLC checked `PipeInv` on the instance of `PoolHeatmap` first. The proof needs
`BusyLockExcludes` (one holder per process) and `Mailbox` (a reply is to a call that was
handled), so the first theorem is an ingredient and not a by-product.

`OneContext` is the next layer, `ContextInv`. A context is found through the table, but it is also
made by messages still in a pipe, sent by requests that may be gone, so the invariant is
about everything of a session that is in a process or on its way to it (`Concerns`):

* `AtHome`: all of it is in the process the table names; when the table has no entry, the
  client has begun to clear the session, and so comes with no further request.
* `OneHome`: in one process. This is what `AtHome` leaves open once the entry is gone.
* `Blank`: a killed process, and one not yet started, has nothing.
* `ClientOrder`: only the request that opens a session makes an entry, which is the client's
  protocol (`MayStart`) and not the manager's. Without it the theorem would be false.

Each step of a task waits or leaves (`NoNews`), goes to the process of its session (`Joins`),
opens one (`Opens`) or restarts its process (`Breaks`): `ManagerMoves` classifies the actions
once, and the preservation has one case per class instead of one per action.

`SessionResults` needs what an answer is. `ValueInv`: the result in the memory, the reply in the pipe
and the outcome of the client are all the value (`answer`) the worker computed when it handled
the request. `FirstOnce`: two requests that open one session are never under way together, so
no context is ever emptied by a second init. `Sums`: each answer is
what the accumulator held at some moment, so answers are ordered by inclusion, and while
there is a context it holds all of them.

`PoolImplementsService` is the refinement under the mapping `Phase`, `Store`, `Replied` of
`WorkerManager`. Starting a request is `Submit`, and may also be `Fail` when it ends in
the same step; a worker's handling is `Apply`, with `OneContext` telling that the
context it changes is the one `Store` shows; `ReceiveAnswer` is `Answer`, with `ValueInv`
telling that the value is that of the `Apply`; an ending with an error is
`Fail`, and `OneContext` again says that the sessions it loses are lost whole. The rest stutters.
TLC checked `ContextInv`, `ValueInv`, `FirstOnce` and `Sums` on the instances of the pool runs first.

### The stop

`StoppedForGood`: `NoProcessAfterStop` is inductive only with the fact that every running
worker is in `process_info`, for the stop kills those that are; before the stop each action
of `WorkerManager` keeps it, and after the stop no action touches a worker.

`StopImplementsService`: as long as the pool is not stopped the invariant of `ServiceProofs` holds and
its steps are steps of `SessionService`. The stop itself changes nothing a client can see. After it no
pipe can be used, so a task fails or waits (`FailsOrWaits`), and neither an accumulator nor an
answer changes: each step is a `Submit`, a `Fail` that loses nothing, or a stutter. What
remains of the invariant is that a request already answered does not fail later.

### The connections

`GaugeIsShortByRefused`: the open connections are a finite set, and so are those that ended
without having been accepted (`Refused`). A step of a task adds its connection to the first, moves it out of
it, or adds it to the second without its having been in the first, and the gauge follows;
the invariant adds to `GaugeIsShort` the type of `at` and that a connection inside the cycle was
accepted (`accepted`, a history). The library facts about the cardinality of a set
with one element more or less do the rest. It assumes a finite `Conn`. So the gauge is
what it is described to be exactly as long as no connection ended before it was accepted.

`FlowsAlwaysClearUp`: `ClearInv` says of a connection inside a flow that all its earlier
flows are settled, and of one anywhere else that all are. A session once settled stays so,
because no action takes a request back from "ok" or "failed", and its init, once failed, is
not answered later. Leaving a flow settles the last one: either the clear is submitted and
the task waits in `clearing` until it is answered, or the clear has failed.

`CancellationIsHonoured` says how a cancellation can be lost: only when the clear of the very flow it
hit fails (`message_handler.py:45` takes that exception for an error of the client's and reads
on). `cut[n]` is that flow.
`CancelInv`, on top of `ClearInv`, says where a cancelled task may be: at its end; in its clear,
with the cancellation raised; at an image whose request has failed, with the cancellation
raised; or anywhere, if the clear of the flow it was cancelled in has failed. The third needs that the
request stays the one the task waits for, whatever the others do: requests of other
connections are of other sessions, the assumption on `FlowSession` that ids are fresh.
(`PoolHeatmap` has two requests open the same session, which is what a collision of
two ids is for the pool.)

`AverageInRange`: the fold divides numerator and denominator by the same number, so it keeps the
weight of the samples (`FoldedWeighsTheSame`) and can never divide by nothing: with no sample
the numerator is zero and the threshold is not reached. The new sample adds its weight to both sides.

`ClientProtocol` and `ResultIsWhole` share the invariant `FlowInv`. `ServiceInv` is what
`SessionService` gives to clients that keep the protocol: the answer to a clear holds every
image of the session whose request was answered, and none that was not made. `InFlow` is the
other half: a task at a frame of a flow has read nothing but images since the frame that opened it,
has made one request for each of them, and has had an answer to every one but the last; a
flow whose clear is under way without an exception has had all. So the protocol makes the pool's
promise usable, and the promise makes the result whole. It stands on the invariants of `FlowsAlwaysClearUp` and `CancellationIsHonoured`,
which say what a flow may be doing when its task is where it is. TLC checked the three on the instance of
`EndpointFlows`.

`TypeCorrect` needs more than types, for a frame is `script[n][read[n]]`: a task reads no
frame the client has not sent (`FeedInv`), and the gauge is bounded both ways because it is the number of open connections less that of
the refused ones.

### Messages and sums

`WholeMessages`: `PipeInv` says that the units of a message lie in one piece, that only the message
being written grows and that it is the last one, that what a worker holds is the beginning of
one message, and that a request that was written is not written again. The count of the
property then is the length of a piece. TLC checked `PipeInv` on the instance of `PipeBackpressure`.

`JamTakesAbandoned`: while the loop writes, what is in the pipe back, in the sending of a reply, in the hands of the
worker and on its way are messages of different requests, all of them in `owed` but for the one
being written, and no reply of that one can exist before it is written. A jam is a full pipe
back and one reply more, all of `owed`: that many requests and one.

`ResultIsTheSum` says that a pixel of the result is the sum where a byte holds it, and no more than the sum
where it does not. Whether the cast of a larger sum wraps around or saturates is undefined in C;
`Bytes` allows both, and the theorem promises neither.

`SumOfImages`: the sum over a set of images is the recursive function of the community modules,
which takes chosen elements one by one. The library's induction over finite sets has an
operator parameter, so `ImageProofs` does it by a least counterexample: a nonempty set of
finite sets has a least one (`LeastSet`, from `WellFoundedInduction`), and with it the function
exists (`SumsExist`), is unique (`SumsAgree`) and does not depend on the choice (`AnyFirst`).
`OneMore` is what the invariant needs: one more image adds what it holds at each pixel.

### Only model-checked

* The liveness properties `EveryCallAnswered`, `EveryCallEnds`, `EveryConnectionEnds`, `StopEndsWaiting`,
  `LoopComesBack` and `EveryTaskEnds`: they rest on fairness and `ENABLED`, which the prover does
  not reason about.
* The four disagreements of section 6, which are counterexamples.
* That the pool as `WebsocketEndpoint` uses it (`PoolHandles`, `PoolFails`, `PoolLoses`) and the
  proved refinement of it by `WorkerManager` fit together is by construction, both being
  `SessionService`; the two are not composed in one module. What the pool asks of its
  clients (`MayStart`) is `ClientProtocol`, which is proved.

## 5. What is not modelled, and the plan

Not modelled:

* The chunk protocol of `transport_utils.py:83-138` and `169-185`. It is entered by a result
  larger than the memory, and its first write, a chunk of the whole size at offset 1, fails
  (line 75). No execution reaches the rest; `OverflowResult` is all there is.
* The failure of `_start_process`, and the reuse of a pid by the system.
* The Windows thread that polls a pipe: it sets the event as the reader does.
* Retries on `BlockingIOError`: the pipes are blocking ones.
* The heatmap and grayscale flows, which no factory makes; `CPUCommands.heatmap_image_accumulator`
  is modelled in `WorkerManager` all the same.
* Floating point: encoding, colour conversion, the normalisation of a heatmap.
  `Image.fromarray(..., mode="L")` there (`heatmap_image_processor.py:109`) reads the
  bytes of floats as pixels; that is outside what a set or a sum of images can say.
* The text of the metrics, close codes, logging, settings. `PROCESS_HUNG_TIMEOUT` is read
  from the variable of another setting (`settings.py:30`); timers here have no length.
* A send to a websocket that suspends because its client does not read.

`NothingIsCutOff` is about clients of the websocket. `SIFlow` passes height and width swapped
(`ai_flow.py:10-11`) and the canvas is made with swapped axes, so the two cancel out; a
direct caller of `CPUCommands` gets a transposed canvas.

Next, in this order: the safety part of the liveness properties, that is, for each of them the
invariant which says that whoever waits has somebody or some timer to end the wait, so that only the fairness is left to
TLC; `WebsocketEndpoint` over `WorkerManager` itself, as far as TLC can go; the retries of
`utils/io.py` should a pipe ever be made non-blocking.

## 6. Disagreements met while modelling

* `ForeignException`: an exception object is raised in whichever request reads it
  (291), although the rack is there to correlate answers (`messages.py:25-26`).
* `SearchLockLeak`: a request that times out or is cancelled between the two acquires
  (110, 137) leaves the search lock locked; lines 94-96 describe a queue behind a
  request that waits.
* `PlainBehindSession`: a lock that is being handed over is not `locked()` (81), so a
  request without a session may queue on it while another process is free (75, 88).
* `GaugeDrift`: `accept()` (`main.py:82`) is inside the `try` whose `finally` lowers the gauge
  (114), but the gauge is raised only after it (84). A connection that fails or is cancelled
  there lowers a gauge it never raised; `metrics/manager.py:102` calls the gauge "Number
  current websocket connections".

Met and not a disagreement, for no document says otherwise: PIL's errors are OSErrors and the
manager takes an OSError for a broken process (317), so one bad image destroys the sessions of
its neighbours (the bad `g1` of `PoolSummary` does that); and the two ways in which the
event loop is lost for good (section 3).
