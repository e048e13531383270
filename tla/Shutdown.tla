------------------------------ MODULE Shutdown ------------------------------
(***************************************************************************)
(* The end of the service: the lifespan of main.py stops every process     *)
(* (stop_processes) while requests may still be in flight -- the clears of *)
(* flows that the server has just cancelled, for one.  Nothing is taken out*)
(* of process_info: the pool goes on, with every pipe closed and every     *)
(* memory segment unlinked.                                                *)
(***************************************************************************)
EXTENDS WorkerManager

VARIABLES
  stopped,   \* stop_processes was called
  alarmed    \* the processes whose pipe_data_event was set by it

shutdownVars == <<vars, stopped, alarmed>>

ShutdownInit == Init /\ stopped = FALSE /\ alarmed = {}

\* Mutant of StopProcesses: the waiters are not woken.
StopSilently ==
  /\ worker' = [p \in Pid |-> IF p \in live THEN Dead ELSE worker[p]]
  /\ toW' = [p \in Pid |-> <<>>]
  /\ toM' = [p \in Pid |-> <<>>]
  /\ stopped' = TRUE
  /\ UNCHANGED <<alarmed, managerVars, ctx, shm, handled, answer>>

\* Every process is killed, its pipe closed with what is in it and its waiter
\* woken.
StopProcesses ==
  /\ worker' = [p \in Pid |-> IF p \in live THEN Dead ELSE worker[p]]
  /\ toW' = [p \in Pid |-> <<>>]
  /\ toM' = [p \in Pid |-> <<>>]
  /\ stopped' = TRUE
  /\ alarmed' = live
  /\ UNCHANGED <<managerVars, ctx, shm, handled, answer>>

-----------------------------------------------------------------------------
(* The pool with its pipes closed.                                         *)

\* c calls acquire() on the busy lock of p; if that does not suspend, clear_pipe
\* raises OSError on the closed pipe, before the try: p stays locked.
SeizeClosed(c, p, l, ss) ==
  /\ IF Available(busy[p])
       THEN /\ busy' = [busy EXCEPT ![p] = Take(@, c)]
            /\ pc' = [pc EXCEPT ![c] = "done"]
            /\ Leave(c, Ending("OSError"), ss)
       ELSE /\ busy' = [busy EXCEPT ![p] = Enqueue(@, c)]
            /\ pc' = [pc EXCEPT ![c] = "busy"]
            /\ at' = [at EXCEPT ![c] = p]
            /\ lk' = [lk EXCEPT ![c] = l]
            /\ sessions' = ss
            /\ UNCHANGED out
  /\ search' = IF l = None THEN search
               ELSE [search EXCEPT ![l] = IF Available(busy[p]) THEN Release(Take(@, c))
                                                                ELSE Take(@, c)]
  /\ UNCHANGED <<foreign, live, started, workerVars>>

\* The first request of a session, which keeps its entry, and a later one.
OpenClosed(c, p) ==
  /\ MayStart(c) /\ Type[c] # "clear"
  /\ Sess(c) # None /\ sessions[Sess(c)] = None
  /\ p \in LeastLoaded
  /\ SeizeClosed(c, p, c, [sessions EXCEPT ![Sess(c)] = [lock |-> c, pid |-> p]])
  /\ UNCHANGED event

JoinClosed(c) ==
  /\ MayStart(c) /\ Type[c] # "init_session"
  /\ Sess(c) # None /\ sessions[Sess(c)] # None
  /\ LET entry == sessions[Sess(c)] IN
       /\ Available(search[entry.lock])
       /\ SeizeClosed(c, entry.pid, entry.lock, sessions)
  /\ UNCHANGED event

\* Requests that waited for a search lock or a busy lock and get it.
SearchClosed(c) ==
  /\ pc[c] = "search" /\ Turn(search[lk[c]], c)
  /\ sessions[Sess(c)] # None
  /\ SeizeClosed(c, sessions[Sess(c)].pid, lk[c], sessions)
  /\ UNCHANGED event

AcquireClosed(c) ==
  /\ pc[c] = "busy" /\ Turn(busy[at[c]], c)
  /\ busy' = [busy EXCEPT ![at[c]] = Take(@, c)]
  /\ GiveBackSearch(c)
  /\ pc' = [pc EXCEPT ![c] = "done"]
  /\ Leave(c, Ending("OSError"), sessions)
  /\ UNCHANGED <<foreign, live, started, event, workerVars>>

\* A request without a session, made or woken after the stop.
PlainClosed(c) ==
  LET unlocked == {p \in live : Unlocked(busy[p])} IN
  /\ pc[c] = "woken" \/ (MayStart(c) /\ Sess(c) = None)
  /\ \/ \E p \in unlocked :
          /\ \A q \in unlocked : p <= q
          /\ SeizeClosed(c, p, None, sessions)
     \/ /\ unlocked = {}
        /\ pc' = [pc EXCEPT ![c] = "parked"]
        /\ UNCHANGED <<at, lk, foreign, out, search, sessions, live, started, busy, workerVars>>
  /\ event' = (pc[c] # "woken" /\ event /\ unlocked # {})

\* Mutants of BreakClosed: a second stop succeeds, and a process is started; the
\* request is ended as if it were answered.
BreakRestarting(c) == Break(c, Ending("OSError"))

BreakAnswered(c) ==
  /\ Leave(c, EndingWith("ok", c, {}), sessions)
  /\ ReleaseProcess(c)
  /\ UNCHANGED <<foreign, search, live, started, workerVars>>

\* The pipe raises OSError in the body of _send_message, whose handler restarts
\* the process: the stop of it unlinks the memory once more, and that is a
\* FileNotFoundError.  Nothing is started, and p stays in process_info.
BreakClosed(c) ==
  /\ Leave(c, Ending("OSError"), sessions)
  /\ ReleaseProcess(c)
  /\ UNCHANGED <<foreign, search, live, started, workerVars>>

-----------------------------------------------------------------------------
StartClosed(c) ==
  \/ \E p \in live : OpenClosed(c, p)
  \/ JoinClosed(c)
  \/ QueueSearch(c)
  \/ RefuseInit(c)
  \/ SkipClear(c)
  \/ pc[c] = "new" /\ PlainClosed(c)

ProceedClosed(c) ==
  \/ SearchClosed(c)
  \/ AcquireSearchLost(c)
  \/ AcquireClosed(c)
  \/ pc[c] = "woken" /\ PlainClosed(c)
  \/ pc[c] = "wait" /\ at[c] \in alarmed /\ BreakClosed(c)

TimeoutClosed(c) ==
  \/ c \in Timed /\ pc[c] = "wait" /\ BreakClosed(c)
  \/ ObtainTimeout(c)

Running == Next /\ UNCHANGED <<stopped, alarmed>>

Closed(c) ==
  /\ StartClosed(c) \/ ProceedClosed(c) \/ TimeoutClosed(c) \/ Cancel(c)
  /\ UNCHANGED <<stopped, alarmed>>

ShutdownNext ==
  \/ ~stopped /\ Running
  \/ ~stopped /\ StopProcesses
  \/ stopped /\ \E c \in Call : Closed(c)

ShutdownSpec == ShutdownInit /\ [][ShutdownNext]_shutdownVars

\* The event loop runs the tasks that can run; nothing is assumed of the timers.
FairShutdownSpec ==
  /\ ShutdownSpec
  /\ \A c \in Call :
       WF_shutdownVars(stopped /\ ProceedClosed(c) /\ UNCHANGED <<stopped, alarmed>>)

-----------------------------------------------------------------------------
(* Properties.                                                             *)

\* Once the pool is stopped no worker process runs again: a request broken by
\* the stop does not start a new one, which nobody would stop any more
\* (_restart_process from the handler of _send_message).
NoProcessAfterStop == stopped => \A p \in Pid : ~worker[p].up

\* worker_manager.py:203, "awake all process pipe waiters": a request that is
\* waiting for its answer when the pool stops ends, no timer needed.
StopEndsWaiting == \A c \in Call : stopped /\ pc[c] = "wait" ~> pc[c] = "done"

=============================================================================
