--------------------------- MODULE WorkerManager ----------------------------
(***************************************************************************)
(* WorkerProcessManager and its client CPUCommands (worker_manager.py): how*)
(* concurrent requests of an asyncio event loop are given worker processes,*)
(* answered, timed out, cancelled, and how a process is replaced.          *)
(*                                                                         *)
(* One action is one uninterrupted run of a task between two suspensions.  *)
(* Taking an uncontended lock does not suspend, so a request may go from   *)
(* its start to the message sent down the pipe in one step.                *)
(***************************************************************************)
EXTENDS Worker, AsyncLock

CONSTANTS
  ProcessCount,    \* settings.WORKER_PROCESS_COUNT
  ForeignLimit,    \* get_message_count that breaks the wait, 5 in the code
  Timed,           \* calls whose PROCESS_HUNG_TIMEOUT timers may expire
  Cancellable      \* calls whose task may be cancelled

ASSUME ManagerAssumption ==
  /\ ProcessCount \in 1..MaxPid
  /\ ForeignLimit \in Nat \ {0}
  /\ Timed \subseteq Call /\ Cancellable \subseteq Call
  /\ None \notin [lock : Call, pid : Pid] \cup [of : Call, data : SUBSET Call]

VARIABLES
  pc,        \* where the task of each call is suspended
  at,        \* the process whose busy lock it waits for or holds, else 0
  lk,        \* the search lock it waits for or holds, named by its creator
  foreign,   \* answers to other requests it has received (get_message_count)
  out,       \* how the call ended
  search,    \* search[c]: the search_free_process_lock created by c
  sessions,  \* sessions[s]: the search lock and the process of s
  live,      \* keys of process_info
  started,   \* processes started so far
  busy,      \* busy[p]: the busy lock of p
  event      \* free_process_event.is_set()

managerVars == <<pc, at, lk, foreign, out, search, sessions, live, started, busy, event>>
pipeVars    == <<worker, ctx, shm, handled, answer>>
vars        == <<managerVars, workerVars>>

Places == {"new", "search", "busy", "parked", "woken", "wait", "done"}

Endings == {"none", "ok", "nothing", "Exception", "OSError", "TypeError", "KeyError",
            "AlreadyExists", "HungTimeout", "ObtainTimeout", "Cancelled"}

\* `of' is the request the worker computed the answer or the exception for.
Ending(how)         == [how |-> how, of |-> None, data |-> {}]
EndingWith(how, c, data) == [how |-> how, of |-> c, data |-> data]

CallEnding   == [how : Endings, of : Call \cup {None}, data : SUBSET Call]
SessionTable == [Session -> [lock : Call, pid : Pid] \cup {None}]

TypeOK ==
  /\ WorkerTypeOK
  /\ pc \in [Call -> Places]
  /\ at \in [Call -> Pid \cup {0}]
  /\ lk \in [Call -> Call \cup {None}]
  /\ foreign \in [Call -> Nat]
  /\ out \in [Call -> CallEnding]
  /\ search \in [Call -> Lock]
  /\ sessions \in SessionTable
  /\ live \in SUBSET Pid
  /\ started \in Pid
  /\ busy \in [Pid -> Lock]
  /\ event \in BOOLEAN

Init ==
  /\ WorkerInit(1..ProcessCount)
  /\ pc = [c \in Call |-> "new"]
  /\ at = [c \in Call |-> 0]
  /\ lk = [c \in Call |-> None]
  /\ foreign = [c \in Call |-> 0]
  /\ out = [c \in Call |-> Ending("none")]
  /\ search = [c \in Call |-> NewLock]
  /\ sessions = [s \in Session |-> None]
  /\ live = 1..ProcessCount
  /\ started = ProcessCount
  /\ busy = [p \in Pid |-> NewLock]
  /\ event = FALSE

-----------------------------------------------------------------------------
(* The client: CPUCommands runs init, then any number of data requests,    *)
(* then one clear, in an `async with' of the session.                      *)

Sess(c) == SessionOf[c]

\* Calls of the session of c that are of one type.
Peers(c, type) == {d \in Call : Sess(d) = Sess(c) /\ Type[d] = type}

Opened(c) == \E i \in Peers(c, "init_session") : out[i].how = "ok"

MayStart(c) ==
  /\ pc[c] = "new"
  /\ CASE Type[c] = "init_session" -> ~Opened(c)
       [] Type[c] = "data" ->
            Sess(c) # None => Opened(c) /\ \A d \in Peers(c, "clear") : pc[d] = "new"
       [] Type[c] = "clear" ->
            /\ Opened(c)
            /\ \A d \in Peers(c, "clear") : pc[d] = "new"
            /\ \A d \in Peers(c, "data") : pc[d] \in {"new", "done"}

-----------------------------------------------------------------------------
(* How a call ends.                                                        *)

\* Mutant of Forget: the entry stays, without its lock.
ForgetLock(c, ss) ==
  IF Type[c] = "clear" /\ ss[Sess(c)] # None THEN [ss EXCEPT ![Sess(c)].lock = None] ELSE ss

\* clear_session's `finally: del self.sessions[session_id]'.
Forget(c, ss) == IF Type[c] = "clear" THEN [ss EXCEPT ![Sess(c)] = None] ELSE ss

\* The entry may be gone already: the KeyError replaces whatever was raised.
Outcome(c, ending, ss) ==
  IF Type[c] = "clear" /\ ss[Sess(c)] = None THEN Ending("KeyError") ELSE ending

\* c leaves the manager with this ending, in a step that makes the sessions ss.
Leave(c, ending, ss) ==
  /\ out' = [out EXCEPT ![c] = Outcome(c, ending, ss)]
  /\ sessions' = Forget(c, ss)
  /\ at' = [at EXCEPT ![c] = 0]
  /\ lk' = [lk EXCEPT ![c] = None]

\* free_process_event.set(): every task parked on the event is woken.
Woken(places) == [d \in Call |-> IF places[d] = "parked" THEN "woken" ELSE places[d]]

\* Mutants of ReleaseProcess: no release of the busy lock; no event.set().
ReleaseNothing(c) ==
  /\ event' = TRUE
  /\ pc' = Woken([pc EXCEPT ![c] = "done"])
  /\ UNCHANGED busy

ReleaseSilently(c) ==
  /\ busy' = [busy EXCEPT ![at[c]] = Release(@)]
  /\ pc' = [pc EXCEPT ![c] = "done"]
  /\ UNCHANGED event

\* The `finally' of _send_message.
ReleaseProcess(c) ==
  /\ busy' = [busy EXCEPT ![at[c]] = Release(@)]
  /\ event' = TRUE
  /\ pc' = Woken([pc EXCEPT ![c] = "done"])

\* Mutants of Surviving: nobody is unlinked; everybody is.
AllSurvive(p)  == sessions
NoneSurvive(p) == [s \in Session |-> None]

\* The sessions that survive the stop of process p.
Surviving(p) ==
  [s \in Session |-> IF sessions[s] # None /\ sessions[s].pid = p THEN None ELSE sessions[s]]

\* _restart_process: p is killed with its pipe and memory, a fresh one starts.
Restart(p) ==
  /\ started < MaxPid
  /\ started' = started + 1
  /\ live' = (live \ {p}) \cup {started + 1}
  /\ toW' = [toW EXCEPT ![p] = <<>>]
  /\ toM' = [toM EXCEPT ![p] = <<>>]
  /\ worker' = [worker EXCEPT ![p] = Dead, ![started + 1] = Idle]
  /\ ctx' = [ctx EXCEPT ![p] = NoContexts]
  /\ shm' = [shm EXCEPT ![p] = None]
  /\ UNCHANGED <<handled, answer>>

\* The holder of a process raises one of the errors that restart it.
Break(c, ending) ==
  /\ Restart(at[c])
  /\ Leave(c, ending, Surviving(at[c]))
  /\ ReleaseProcess(c)
  /\ UNCHANGED <<foreign, search>>

-----------------------------------------------------------------------------
(* Obtaining a process: _search_and_update_not_busy_process.               *)

\* c calls acquire() on the busy lock of p; if that does not suspend it goes
\* on to empty the pipe and send its message.
Seize(c, p) ==
  /\ at' = [at EXCEPT ![c] = p]
  /\ IF Available(busy[p])
       THEN /\ busy' = [busy EXCEPT ![p] = Take(@, c)]
            /\ pc' = [pc EXCEPT ![c] = "wait"]
            /\ toM' = [toM EXCEPT ![p] = <<>>]
            /\ toW' = [toW EXCEPT ![p] = Append(@, c)]
       ELSE /\ busy' = [busy EXCEPT ![p] = Enqueue(@, c)]
            /\ pc' = [pc EXCEPT ![c] = "busy"]
            /\ UNCHANGED <<toM, toW>>
  /\ UNCHANGED <<foreign, out, live, started, pipeVars>>

\* c, holding search lock l, goes to the process of its session; the search
\* lock is released as soon as the busy lock is its own.
SeizeForSession(c, p, l) ==
  /\ lk' = [lk EXCEPT ![c] = l]
  /\ search' = [search EXCEPT ![l] =
                  IF Available(busy[p]) THEN Release(Take(@, c)) ELSE Take(@, c)]
  /\ Seize(c, p)
  /\ UNCHANGED event

\* Processes with no session come first, then the one with the fewest.
Load(p) == Cardinality({s \in Session : sessions[s] # None /\ sessions[s].pid = p})
LeastLoaded == {p \in live : \A q \in live : Load(p) <= Load(q)}

\* The first request of a session links it to a process.
OpenEntry(c, p) ==
  /\ MayStart(c) /\ Type[c] # "clear"
  /\ Sess(c) # None /\ sessions[Sess(c)] = None
  /\ p \in LeastLoaded
  /\ sessions' = [sessions EXCEPT ![Sess(c)] = [lock |-> c, pid |-> p]]
  /\ SeizeForSession(c, p, c)

\* Another request of a linked session, nobody ahead of it in the search.
JoinEntry(c) ==
  /\ MayStart(c) /\ Type[c] # "init_session"
  /\ Sess(c) # None /\ sessions[Sess(c)] # None
  /\ Available(search[sessions[Sess(c)].lock])
  /\ SeizeForSession(c, sessions[Sess(c)].pid, sessions[Sess(c)].lock)
  /\ UNCHANGED sessions

\* ... and somebody ahead of it.
QueueSearch(c) ==
  /\ MayStart(c) /\ Type[c] # "init_session"
  /\ Sess(c) # None /\ sessions[Sess(c)] # None
  /\ LET l == sessions[Sess(c)].lock IN
       /\ ~Available(search[l])
       /\ search' = [search EXCEPT ![l] = Enqueue(@, c)]
       /\ lk' = [lk EXCEPT ![c] = l]
  /\ pc' = [pc EXCEPT ![c] = "search"]
  /\ UNCHANGED <<at, foreign, out, sessions, live, started, busy, event, workerVars>>

\* init_session of an id that is in the table.
RefuseInit(c) ==
  /\ MayStart(c) /\ Type[c] = "init_session" /\ sessions[Sess(c)] # None
  /\ pc' = [pc EXCEPT ![c] = "done"]
  /\ out' = [out EXCEPT ![c] = Ending("AlreadyExists")]
  /\ UNCHANGED <<at, lk, foreign, search, sessions, live, started, busy, event, workerVars>>

\* clear_session or clear_session_with_result of an id that is not.
SkipClear(c) ==
  /\ MayStart(c) /\ Type[c] = "clear" /\ sessions[Sess(c)] = None
  /\ pc' = [pc EXCEPT ![c] = "done"]
  /\ out' = [out EXCEPT ![c] = Ending("nothing")]
  /\ UNCHANGED <<at, lk, foreign, search, sessions, live, started, busy, event, workerVars>>

\* c gets the search lock; the session it waited for is still linked.
AcquireSearch(c) ==
  /\ pc[c] = "search" /\ Turn(search[lk[c]], c)
  /\ sessions[Sess(c)] # None
  /\ SeizeForSession(c, sessions[Sess(c)].pid, lk[c])
  /\ UNCHANGED sessions

\* ... and it is not: `self.sessions.get(session_id)[1]' is a TypeError, and
\* the search lock stays locked.
AcquireSearchLost(c) ==
  /\ pc[c] = "search" /\ Turn(search[lk[c]], c)
  /\ sessions[Sess(c)] = None
  /\ search' = [search EXCEPT ![lk[c]] = Take(@, c)]
  /\ pc' = [pc EXCEPT ![c] = "done"]
  /\ Leave(c, Ending("TypeError"), sessions)
  /\ UNCHANGED <<foreign, live, started, busy, event, workerVars>>

\* Mutant of GiveBackSearch: the search lock is kept.
KeepSearch(c) == UNCHANGED search

\* After the busy lock, a session's request gives back the search lock.
GiveBackSearch(c) ==
  search' = IF lk[c] = None THEN search ELSE [search EXCEPT ![lk[c]] = Release(@)]

AcquireBusy(c) ==
  /\ pc[c] = "busy" /\ at[c] \in live /\ Turn(busy[at[c]], c)
  /\ busy' = [busy EXCEPT ![at[c]] = Take(@, c)]
  /\ GiveBackSearch(c)
  /\ pc' = [pc EXCEPT ![c] = "wait"]
  /\ toM' = [toM EXCEPT ![at[c]] = <<>>]
  /\ toW' = [toW EXCEPT ![at[c]] = Append(@, c)]
  /\ UNCHANGED <<at, lk, foreign, out, sessions, live, started, event, pipeVars>>

\* The process was replaced while c waited: clear_pipe raises OSError on the
\* closed pipe, before the try, and the old busy lock stays locked.
AcquireStale(c) ==
  /\ pc[c] = "busy" /\ at[c] \notin live /\ Turn(busy[at[c]], c)
  /\ busy' = [busy EXCEPT ![at[c]] = Take(@, c)]
  /\ GiveBackSearch(c)
  /\ pc' = [pc EXCEPT ![c] = "done"]
  /\ Leave(c, Ending("OSError"), sessions)
  /\ UNCHANGED <<foreign, live, started, event, workerVars>>

\* A request without a session takes the first process that is not locked()
\* -- which may have waiters -- and else parks on the event.
Scan(c) ==
  LET unlocked == {p \in live : Unlocked(busy[p])} IN
  \/ \E p \in unlocked :
       /\ \A q \in unlocked : p <= q
       /\ Seize(c, p)
  \/ /\ unlocked = {}
     /\ pc' = [pc EXCEPT ![c] = "parked"]
     /\ UNCHANGED <<at, foreign, out, live, started, busy, workerVars>>

\* If the event is set already, wait() returns at once and clear() resets it:
\* the second scan finds what the first one did.
StartPlain(c) ==
  /\ MayStart(c) /\ Sess(c) = None
  /\ Scan(c)
  /\ event' = (event /\ \E p \in live : Unlocked(busy[p]))
  /\ UNCHANGED <<lk, search, sessions>>

Wake(c) ==
  /\ pc[c] = "woken"
  /\ Scan(c)
  /\ event' = FALSE
  /\ UNCHANGED <<lk, search, sessions>>

-----------------------------------------------------------------------------
(* Waiting for the answer: the body of _send_message.                      *)

Waiting(c) == pc[c] = "wait" /\ toM[at[c]] # <<>>
NextAnswer(c)   == Head(toM[at[c]])
Consume(c) == toM' = [toM EXCEPT ![at[c]] = Tail(@)]

\* Mutant of ReceiveAnswer: the rack is not compared.
ReceiveAnyAnswer(c) ==
  /\ Waiting(c)
  /\ NextAnswer(c).type \in {"ok", "check_shared_memory"}
  /\ Consume(c)
  /\ LET written == shm[at[c]] IN
       Leave(c, IF NextAnswer(c).type = "check_shared_memory"
                  THEN EndingWith("ok", written.of, written.data)
                  ELSE EndingWith("ok", NextAnswer(c).of, {}), sessions)
  /\ ReleaseProcess(c)
  /\ UNCHANGED <<foreign, search, live, started, toW, pipeVars>>

\* The answer to c, its result read from the shared memory in the same step.
ReceiveAnswer(c) ==
  /\ Waiting(c)
  /\ NextAnswer(c).type \in {"ok", "check_shared_memory"} /\ NextAnswer(c).of = c
  /\ Consume(c)
  /\ LET written == shm[at[c]] IN
       Leave(c, IF HasResult(c) THEN EndingWith("ok", written.of, written.data)
                ELSE EndingWith("ok", c, {}), sessions)
  /\ ReleaseProcess(c)
  /\ UNCHANGED <<foreign, search, live, started, toW, pipeVars>>

\* An exception is raised whoever's request it belongs to.
ReceiveException(c) ==
  /\ Waiting(c) /\ NextAnswer(c).type = "Exception"
  /\ Consume(c)
  /\ Leave(c, EndingWith("Exception", NextAnswer(c).of, {}), sessions)
  /\ ReleaseProcess(c)
  /\ UNCHANGED <<foreign, search, live, started, toW, pipeVars>>

\* An OSError sent by the worker is caught like one of the pipe's own.
ReceiveOSError(c) ==
  /\ Waiting(c) /\ NextAnswer(c).type = "OSError"
  /\ Break(c, EndingWith("OSError", NextAnswer(c).of, {}))

Foreign(c) == NextAnswer(c).type \in {"ok", "check_shared_memory"} /\ NextAnswer(c).of # c

\* An answer to somebody else is dropped.
SkipForeign(c) ==
  /\ Waiting(c) /\ Foreign(c) /\ foreign[c] + 1 < ForeignLimit
  /\ foreign' = [foreign EXCEPT ![c] = @ + 1]
  /\ Consume(c)
  /\ UNCHANGED <<pc, at, lk, out, search, sessions, live, started, busy, event, toW, pipeVars>>

TooManyForeign(c) ==
  /\ Waiting(c) /\ Foreign(c) /\ foreign[c] + 1 >= ForeignLimit
  /\ Break(c, Ending("OSError"))

\* No answer within PROCESS_HUNG_TIMEOUT: the process is slow, hung or dead.
HungTimeout(c) ==
  /\ c \in Timed /\ pc[c] = "wait"
  /\ Break(c, Ending("HungTimeout"))

-----------------------------------------------------------------------------
(* Giving up: the task is interrupted where it is suspended, by the timer  *)
(* of wait_for or by the cancellation of the request's task.               *)

\* Mutant of LeaveQueue: no timer around the acquire() of the search lock.
LeaveQueueButSearch(c, how) ==
  /\ pc[c] \in {"busy", "parked", "woken"}
  /\ busy' = IF pc[c] = "busy" THEN [busy EXCEPT ![at[c]] = Drop(@, c)] ELSE busy
  /\ pc' = [pc EXCEPT ![c] = "done"]
  /\ Leave(c, Ending(how), sessions)
  /\ UNCHANGED <<foreign, search, live, started, event, workerVars>>

\* Nothing gives back the search lock of a request that waits for a busy lock.
LeaveQueue(c, how) ==
  /\ pc[c] \in {"search", "busy", "parked", "woken"}
  /\ search' = IF pc[c] = "search" THEN [search EXCEPT ![lk[c]] = Drop(@, c)] ELSE search
  /\ busy' = IF pc[c] = "busy" THEN [busy EXCEPT ![at[c]] = Drop(@, c)] ELSE busy
  /\ pc' = [pc EXCEPT ![c] = "done"]
  /\ Leave(c, Ending(how), sessions)
  /\ UNCHANGED <<foreign, live, started, event, workerVars>>

ObtainTimeout(c)  == c \in Timed /\ LeaveQueue(c, "ObtainTimeout")
CancelQueued(c)   == c \in Cancellable /\ LeaveQueue(c, "Cancelled")

\* The message is in the pipe or being handled, and stays there.
CancelWaiting(c) ==
  /\ c \in Cancellable /\ pc[c] = "wait"
  /\ Leave(c, Ending("Cancelled"), sessions)
  /\ ReleaseProcess(c)
  /\ UNCHANGED <<foreign, search, live, started, workerVars>>

-----------------------------------------------------------------------------
Start(c) ==
  \/ \E p \in live : OpenEntry(c, p)
  \/ JoinEntry(c)
  \/ QueueSearch(c)
  \/ RefuseInit(c)
  \/ SkipClear(c)
  \/ StartPlain(c)

\* What the event loop does for c once it is able to run.
Proceed(c) ==
  \/ AcquireSearch(c)
  \/ AcquireSearchLost(c)
  \/ AcquireBusy(c)
  \/ AcquireStale(c)
  \/ Wake(c)
  \/ ReceiveAnswer(c)
  \/ ReceiveException(c)
  \/ ReceiveOSError(c)
  \/ SkipForeign(c)
  \/ TooManyForeign(c)

Timeout(c) ==
  \/ HungTimeout(c)
  \/ ObtainTimeout(c)

Cancel(c) ==
  \/ CancelQueued(c)
  \/ CancelWaiting(c)

Work(p) ==
  /\ \/ \E c \in Call : Handle(p, c)
     \/ Reply(p)
  /\ UNCHANGED managerVars

Kill(p) == Die(p) /\ UNCHANGED managerVars

Next ==
  \/ \E c \in Call : Start(c)
  \/ \E c \in Call : Proceed(c)
  \/ \E c \in Call : Timeout(c)
  \/ \E c \in Call : Cancel(c)
  \/ \E p \in live : Work(p)
  \/ \E p \in live : Kill(p)

Spec == Init /\ [][Next]_vars

(***************************************************************************)
(* The event loop runs every task that can run, the operating system every *)
(* worker, and a timer that was set expires.  Nobody has to make a request *)
(* or to cancel one.                                                       *)
(***************************************************************************)
FairSpec ==
  /\ Spec
  /\ \A c \in Call : WF_vars(Proceed(c)) /\ WF_vars(Timeout(c))
  /\ \A p \in Pid : WF_vars(p \in live /\ Work(p))

-----------------------------------------------------------------------------
(* Safety.                                                                 *)

\* A process serves one request at a time, and only a request that is waiting
\* for its answer keeps a process locked: whatever way a request ends, its
\* process is given back (the busy lock of _send_message).
BusyLockExcludes ==
  /\ \A c \in Call : pc[c] = "wait" => at[c] \in live /\ busy[at[c]].holder = c
  /\ \A p \in live : busy[p].holder # None =>
       pc[busy[p].holder] = "wait" /\ at[busy[p].holder] = p

\* The session table never names a process that has been replaced, so
\* `self.process_info[pid]' in the search cannot raise KeyError.
SessionsPointToLive == \A s \in Session : sessions[s] # None => sessions[s].pid \in live

\* A request parked on free_process_event is parked with the event reset and
\* every process locked, so that the release it needs is still to come.
NoLostWakeup ==
  (\E c \in Call : pc[c] = "parked") => ~event /\ \A p \in live : ~Unlocked(busy[p])

\* A result is the one the worker computed for this very request, although the
\* result in the shared memory is never compared with the rack.
OwnResult == \A c \in Call : out[c].how = "ok" => out[c].of = c

\* The accumulator of a session exists in one process at most, and that is the
\* process the session is linked to (the comment on lines 94-96 of the search).
OneContext ==
  \A s \in Session : \A p \in live : ctx[p][s] # None =>
    /\ \A q \in live : ctx[q][s] # None => q = p
    /\ sessions[s] # None => sessions[s].pid = p

\* The results of a session hold images of that session only, grow from one to
\* the next, and the final sum holds every image the client was told is in it.
SessionResults ==
  \A c, d \in Call :
    LET x == out[c] y == out[d] IN
    Sess(c) # None /\ Sess(c) = Sess(d) /\ x.how = "ok" /\ y.how = "ok" =>
      /\ x.data \subseteq Peers(c, "data")
      /\ HasResult(c) /\ HasResult(d) => x.data \subseteq y.data \/ y.data \subseteq x.data
      /\ HasResult(c) /\ Type[c] = "clear" /\ Type[d] = "data" => d \in x.data

\* What a client sees of its request, and what there is of a session.
Phase ==
  [c \in Call |-> CASE pc[c] = "new" -> "new"
                    [] pc[c] = "done" -> IF out[c].how = "ok" THEN "ok" ELSE "failed"
                    [] OTHER -> "pending"]

Store ==
  [s \in Session |->
     IF \E p \in live : ctx[p][s] # None
       THEN ctx[CHOOSE p \in live : ctx[p][s] # None][s] ELSE None]

Replied == [c \in Call |-> IF out[c].how = "ok" THEN out[c].data ELSE {}]

\* The pool implements one accumulator per session (SessionService).
Service == INSTANCE SessionService WITH
  phase <- Phase, applied <- handled, value <- answer, store <- Store, reply <- Replied

ImplementsService == Service!ServiceSpec

-----------------------------------------------------------------------------
(* Liveness, under FairSpec.                                               *)

\* Every request that is made comes to an end, whatever happens to the
\* processes: the timers of _send_message leave nothing waiting for ever.
EveryCallEnds == \A c \in Call : pc[c] # "new" ~> pc[c] = "done"

\* When nothing fails, expires or is cancelled, every request is answered: no
\* hand-over between the two locks, the event and the pipe is ever missed.
EveryCallAnswered == \A c \in Call : pc[c] # "new" ~> out[c].how = "ok"

-----------------------------------------------------------------------------
(* What the code's comments say and the code does not do.                  *)

\* messages.py:25-26: the rack "uses for validate that answer is correlated
\* with request message".  An exception that ends a request is its own.
ExceptionIsOwn ==
  \A c \in Call : out[c].how \in {"Exception", "OSError"} => out[c].of \in {c, None}

\* worker_manager.py:94: "only one request in session must wait for free
\* process": the others queue behind a request that does wait for one.
SearchWaitsForARequest ==
  \A c \in Call : pc[c] = "search" /\ ~Unlocked(search[lk[c]]) =>
    pc[search[lk[c]].holder] = "busy"

\* worker_manager.py:75 and 88: a request without a session takes any free
\* process and waits "if all process busy".
PlainWaitsWhenAllBusy ==
  \A c \in Call : pc[c] = "busy" /\ Sess(c) = None =>
    \A p \in live : ~Available(busy[p])

=============================================================================
