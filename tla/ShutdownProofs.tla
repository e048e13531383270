--------------------------- MODULE ShutdownProofs ---------------------------
(***************************************************************************)
(* Nothing runs once the pool is stopped, for every pool and every set of  *)
(* requests.  The processes that run are among those of process_info, and  *)
(* only a restart starts one: after the stop there is none.                *)
(*                                                                         *)
(* The stop is no more than failures to the clients: until then the pool is*)
(* that of ServiceProofs, and after it requests are made and fail, and     *)
(* nothing is answered.  A request that fails was not answered before.     *)
(***************************************************************************)
EXTENDS Shutdown, ServiceProofs

Same(w) == [p \in Pid |-> [up |-> w[p].up, reply |-> w[p].reply]]

RunningAreLive == \A p \in Pid : worker[p].up => p \in live

\* The inductive invariant: stop_processes reaches every process that runs.
StopInv ==
  /\ worker = Same(worker)
  /\ RunningAreLive
  /\ NoProcessAfterStop

-----------------------------------------------------------------------------
\* Only a restart adds a process to the pool, and it is the one it starts.
LEMMA RestartKeeps ==
  ASSUME NEW p, StopInv, Restart(p)
  PROVE  worker' = Same(worker') /\ RunningAreLive'
<1>1. /\ worker' = [worker EXCEPT ![p] = Dead, ![started + 1] = Idle]
      /\ live' = (live \ {p}) \cup {started + 1}
  BY DEF Restart
<1>2. worker' = Same(worker')
  BY <1>1 DEF StopInv, Same, Dead, Idle
<1>3. \A q \in Pid : worker'[q].up => q \in live'
  <2> SUFFICES ASSUME NEW q \in Pid, worker'[q].up PROVE q \in live'
    OBVIOUS
  <2>1. CASE q = started + 1
    BY <2>1, <1>1
  <2>2. CASE q # started + 1 /\ q = p
    BY <2>2, <1>1 DEF StopInv, Same, Dead, Idle
  <2>3. CASE q # started + 1 /\ q # p
    BY <2>3, <1>1 DEF StopInv, Same, RunningAreLive
  <2> QED
    BY <2>1, <2>2, <2>3
<1> QED
  BY <1>2, <1>3 DEF RunningAreLive

\* The steps of the workers and of the operating system start nothing.
LEMMA WorkKeeps ==
  ASSUME NEW p, StopInv, Work(p) \/ Kill(p)
  PROVE  worker' = Same(worker') /\ RunningAreLive'
<1>0. worker = Same(worker)
  BY DEF StopInv
<1>1. live' = live
  BY DEF Work, Kill, managerVars
\* A worker that takes a message or sends its reply is up if it was before.
<1>5. ASSUME NEW r, worker' = [worker EXCEPT ![p].reply = r]
      PROVE  worker' = Same(worker') /\ \A q \in Pid : worker'[q].up = worker[q].up
  <2>1. \A q \in Pid : worker[q] = [up |-> worker[q].up, reply |-> worker[q].reply]
    BY <1>0 DEF Same
  <2>2. worker = [q \in Pid |-> worker[q]]
    BY <1>0 DEF Same
  <2>3. CASE p \in Pid
    <3>1. \A a, b : [[up |-> a, reply |-> b] EXCEPT !.reply = r] = [up |-> a, reply |-> r]
      OBVIOUS
    <3>2. [worker[p] EXCEPT !.reply = r] = [up |-> worker[p].up, reply |-> r]
      BY <2>1, <2>3, <3>1, Zenon
    <3>3. worker' = [q \in Pid |-> IF q = p THEN [up |-> worker[p].up, reply |-> r] ELSE worker[q]]
      BY <1>5, <2>2, <3>2
    <3> QED
      BY <2>1, <3>3 DEF Same
  <2>4. CASE p \notin Pid
    <3>1. worker' = worker
      BY <1>5, <2>2, <2>4
    <3> QED
      BY <3>1, <1>0
  <2> QED
    BY <2>3, <2>4
<1>2. CASE \E c \in Call : Handle(p, c)
  <2>0. PICK c \in Call : Handle(p, c)
    BY <1>2
  <2>1. PICK reply : Receives(p, c, reply)
    BY <2>0 DEF Handle, Reject, FailEarly, Acknowledge, WriteResult, OverflowResult
  <2>2. worker' = [worker EXCEPT ![p].reply = <<reply>>]
    BY <2>1 DEF Receives
  <2>3. worker' = Same(worker') /\ \A q \in Pid : worker'[q].up = worker[q].up
    BY <2>2, <1>5
  <2> QED
    BY <2>3, <1>1 DEF StopInv, RunningAreLive
<1>3. CASE Reply(p)
  <2>1. worker' = [worker EXCEPT ![p].reply = <<>>]
    BY <1>3 DEF Reply
  <2>2. worker' = Same(worker') /\ \A q \in Pid : worker'[q].up = worker[q].up
    BY <2>1, <1>5
  <2> QED
    BY <2>2, <1>1 DEF StopInv, RunningAreLive
<1>4. CASE Kill(p)
  BY <1>4, <1>1 DEF Kill, Die, StopInv, Same, RunningAreLive, Dead
<1> QED
  BY <1>2, <1>3, <1>4 DEF Work

\* What the manager does without a restart leaves the processes as they are.
LEMMA StartLeavesWorkers ==
  ASSUME NEW c \in Call, Start(c)
  PROVE  worker' = worker /\ live' = live
BY DEF Start, OpenEntry, JoinEntry, QueueSearch, RefuseInit, SkipClear, StartPlain,
       SeizeForSession, Seize, Scan, pipeVars, workerVars

LEMMA BreakRestarts ==
  ASSUME NEW c \in Call, ReceiveOSError(c) \/ TooManyForeign(c) \/ HungTimeout(c)
  PROVE  Restart(at[c])
BY DEF ReceiveOSError, TooManyForeign, HungTimeout, Break

LEMMA OthersLeaveWorkers ==
  ASSUME NEW c \in Call, Proceed(c) \/ Timeout(c) \/ Cancel(c),
         ~ReceiveOSError(c), ~TooManyForeign(c), ~HungTimeout(c)
  PROVE  worker' = worker /\ live' = live
<1>1. CASE AcquireSearch(c) \/ AcquireSearchLost(c) \/ AcquireBusy(c) \/ AcquireStale(c)
  BY <1>1 DEF AcquireSearch, AcquireSearchLost, AcquireBusy, AcquireStale,
              SeizeForSession, Seize, pipeVars, workerVars
<1>2. CASE Wake(c)
  BY <1>2 DEF Wake, Scan, Seize, pipeVars, workerVars
<1>3. CASE ReceiveAnswer(c) \/ ReceiveException(c) \/ SkipForeign(c)
  BY <1>3 DEF ReceiveAnswer, ReceiveException, SkipForeign, pipeVars
<1>4. CASE ObtainTimeout(c) \/ Cancel(c)
  BY <1>4 DEF ObtainTimeout, Cancel, CancelQueued, CancelWaiting, LeaveQueue, workerVars
<1> QED
  BY <1>1, <1>2, <1>3, <1>4 DEF Proceed, Timeout

\* With the pipes closed nothing restarts.
LEMMA ClosedLeavesWorkers ==
  ASSUME NEW c \in Call, Closed(c)
  PROVE  worker' = worker /\ live' = live /\ stopped' = stopped
<1>1. CASE StartClosed(c)
  BY <1>1 DEF Closed, StartClosed, OpenClosed, JoinClosed, QueueSearch, RefuseInit, SkipClear,
              PlainClosed, SeizeClosed, workerVars
<1>2. CASE ProceedClosed(c)
  BY <1>2 DEF Closed, ProceedClosed, SearchClosed, AcquireSearchLost, AcquireClosed,
              PlainClosed, SeizeClosed, BreakClosed, workerVars
<1>3. CASE TimeoutClosed(c) \/ Cancel(c)
  BY <1>3 DEF Closed, TimeoutClosed, BreakClosed, ObtainTimeout, Cancel, CancelQueued,
              CancelWaiting, LeaveQueue, workerVars
<1> QED
  BY <1>1, <1>2, <1>3 DEF Closed

-----------------------------------------------------------------------------
\* Once the pool is stopped no worker process runs again: a request broken by
\* the stop does not start a new one (_restart_process, stop_processes).
THEOREM StoppedForGood == ShutdownSpec => []NoProcessAfterStop
<1>1. ShutdownInit => StopInv
  <2> SUFFICES ASSUME ShutdownInit PROVE StopInv
    OBVIOUS
  <2>1. /\ worker = [p \in Pid |-> IF p \in 1..ProcessCount THEN Idle ELSE Dead]
        /\ live = 1..ProcessCount
        /\ ~stopped
    BY DEF ShutdownInit, Init, WorkerInit
  <2>2. \A p \in Pid : worker[p] = IF p \in live THEN Idle ELSE Dead
    BY <2>1
  <2>3. worker = Same(worker)
    BY <2>1, <2>2 DEF Same, Idle, Dead
  <2> QED
    BY <2>1, <2>2, <2>3 DEF StopInv, RunningAreLive, NoProcessAfterStop, Dead
<1>2. StopInv /\ [ShutdownNext]_shutdownVars => StopInv'
  <2> SUFFICES ASSUME StopInv, [ShutdownNext]_shutdownVars PROVE StopInv'
    OBVIOUS
  <2>1. CASE ~stopped /\ Running
    <3>1. ~stopped'
      BY <2>1 DEF Running
    <3>2. worker' = Same(worker') /\ RunningAreLive'
      <4>1. ASSUME NEW c \in Call, Start(c) \/ Proceed(c) \/ Timeout(c) \/ Cancel(c)
            PROVE  worker' = Same(worker') /\ RunningAreLive'
        <5>1. CASE ReceiveOSError(c) \/ TooManyForeign(c) \/ HungTimeout(c)
          <6>1. Restart(at[c])
            BY <5>1, BreakRestarts
          <6> QED
            BY <6>1, RestartKeeps
        <5>2. CASE worker' = worker /\ live' = live
          BY <5>2 DEF StopInv, Same, RunningAreLive
        <5> QED
          BY <4>1, <5>1, <5>2, StartLeavesWorkers, OthersLeaveWorkers
      <4>2. ASSUME NEW p \in live, Work(p) \/ Kill(p)
            PROVE  worker' = Same(worker') /\ RunningAreLive'
        BY <4>2, WorkKeeps
      <4> QED
        BY <2>1, <4>1, <4>2 DEF Running, Next
    <3> QED
      BY <3>1, <3>2 DEF StopInv, NoProcessAfterStop
  <2>2. CASE ~stopped /\ StopProcesses
    BY <2>2 DEF StopProcesses, managerVars, StopInv, Same, RunningAreLive, NoProcessAfterStop, Dead
  <2>3. CASE stopped /\ \E c \in Call : Closed(c)
    <3>1. worker' = worker /\ live' = live /\ stopped' = stopped
      BY <2>3, ClosedLeavesWorkers
    <3> QED
      BY <3>1 DEF StopInv, Same, RunningAreLive, NoProcessAfterStop
  <2>4. CASE UNCHANGED shutdownVars
    BY <2>4 DEF shutdownVars, vars, managerVars, workerVars, StopInv, Same, RunningAreLive,
                NoProcessAfterStop
  <2> QED
    BY <2>1, <2>2, <2>3, <2>4 DEF ShutdownNext
<1>3. StopInv => NoProcessAfterStop
  BY DEF StopInv
<1> QED
  BY <1>1, <1>2, <1>3, PTL DEF ShutdownSpec

-----------------------------------------------------------------------------
(* What the clients see of the stop.                                       *)

\* Of the invariant of the pool, what is needed once its pipes are closed.
AnswersOK ==
  /\ pc \in [Call -> Places]
  /\ out = [c \in Call |-> out[c]]
  /\ \A c \in Call : out[c].how = "ok" => pc[c] = "done"

\* The task of c fails, or waits on.
FailsOrWaits(c) ==
  /\ pc[c] # "done" /\ pc'[c] # "new"
  /\ out'[c].how # "ok"
  /\ pc'[c] # "done" => out' = out
  /\ \A d \in Call : d # c =>
       /\ out'[d] = out[d]
       /\ pc'[d] = pc[d] \/ (pc[d] = "parked" /\ pc'[d] = "woken")
  /\ pc' \in [Call -> Places] /\ out' = [d \in Call |-> out'[d]]

\* c leaves without an answer.
LEMMA LeaveFails ==
  ASSUME AnswersOK, NEW c \in Call, NEW ending, NEW ss, ending.how # "ok", pc[c] # "done",
         Leave(c, ending, ss),
         \/ pc' = [pc EXCEPT ![c] = "done"]
         \/ pc' = Woken([pc EXCEPT ![c] = "done"])
  PROVE  FailsOrWaits(c)
<1>1. Outcome(c, ending, ss).how # "ok"
  BY DEF Outcome, Ending
<1>2. out' = [out EXCEPT ![c] = Outcome(c, ending, ss)]
  BY DEF Leave
<1>3. /\ out' = [d \in Call |-> out'[d]] /\ out'[c].how # "ok"
      /\ \A d \in Call : d # c => out'[d] = out[d]
  BY <1>1, <1>2 DEF AnswersOK
<1>4. /\ pc' \in [Call -> Places] /\ pc'[c] = "done"
      /\ \A d \in Call : d # c => pc'[d] = pc[d] \/ (pc[d] = "parked" /\ pc'[d] = "woken")
  BY DEF AnswersOK, Woken, Places
<1> QED BY <1>3, <1>4 DEF FailsOrWaits

LEMMA WaitsOn ==
  ASSUME AnswersOK, NEW c \in Call, NEW place \in Places, pc[c] # "done",
         place \notin {"new", "done"}, pc' = [pc EXCEPT ![c] = place], out' = out
  PROVE  FailsOrWaits(c)
BY DEF AnswersOK, FailsOrWaits

LEMMA SeizeFails ==
  ASSUME AnswersOK, NEW c \in Call, NEW p, NEW l, NEW ss, pc[c] # "done",
         SeizeClosed(c, p, l, ss)
  PROVE  FailsOrWaits(c)
<1>1. CASE Available(busy[p])
  <2>1. pc' = [pc EXCEPT ![c] = "done"] /\ Leave(c, Ending("OSError"), ss)
    BY <1>1 DEF SeizeClosed
  <2>2. Ending("OSError").how # "ok"
    BY DEF Ending
  <2> QED BY <2>1, <2>2, LeaveFails
<1>2. CASE ~Available(busy[p])
  <2>1. pc' = [pc EXCEPT ![c] = "busy"] /\ out' = out
    BY <1>2 DEF SeizeClosed
  <2> QED BY <2>1, WaitsOn DEF Places
<1> QED BY <1>1, <1>2

LEMMA PlainFails ==
  ASSUME AnswersOK, NEW c \in Call, pc[c] # "done", PlainClosed(c)
  PROVE  FailsOrWaits(c)
<1>1. CASE \E p \in live : SeizeClosed(c, p, None, sessions)
  BY <1>1, SeizeFails
<1>2. CASE pc' = [pc EXCEPT ![c] = "parked"] /\ out' = out
  BY <1>2, WaitsOn DEF Places
<1> QED BY <1>1, <1>2 DEF PlainClosed

\* With the pipes closed every request fails, or waits for one that does.
LEMMA ClosedFails ==
  ASSUME AnswersOK, NEW c \in Call, Closed(c)
  PROVE  FailsOrWaits(c)
<1>0. \A how : Ending(how).how = how
  BY DEF Ending
<1>1. CASE (\E p \in live : OpenClosed(c, p)) \/ JoinClosed(c)
  BY <1>1, SeizeFails DEF OpenClosed, JoinClosed, MayStart
<1>2. CASE QueueSearch(c)
  BY <1>2, WaitsOn DEF QueueSearch, MayStart, Places
<1>3. CASE RefuseInit(c) \/ SkipClear(c)
  <2>1. PICK how \in {"AlreadyExists", "nothing"} :
          /\ pc[c] = "new" /\ pc' = [pc EXCEPT ![c] = "done"]
          /\ out' = [out EXCEPT ![c] = Ending(how)]
    BY <1>3 DEF RefuseInit, SkipClear, MayStart
  <2>2. /\ out' = [d \in Call |-> out'[d]] /\ out'[c].how # "ok"
        /\ \A d \in Call : d # c => out'[d] = out[d]
    BY <1>0, <2>1 DEF AnswersOK
  <2>3. /\ pc' \in [Call -> Places] /\ pc'[c] = "done"
        /\ \A d \in Call : d # c => pc'[d] = pc[d]
    BY <2>1 DEF AnswersOK, Places
  <2> QED BY <2>1, <2>2, <2>3 DEF FailsOrWaits
<1>4. CASE PlainClosed(c)
  BY <1>4, PlainFails DEF PlainClosed, MayStart
<1>5. CASE SearchClosed(c)
  BY <1>5, SeizeFails DEF SearchClosed
<1>6. CASE AcquireSearchLost(c) \/ AcquireClosed(c)
  <2>1. CASE AcquireSearchLost(c)
    BY <1>0, <2>1, LeaveFails DEF AcquireSearchLost
  <2>2. CASE AcquireClosed(c)
    BY <1>0, <2>2, LeaveFails DEF AcquireClosed
  <2> QED BY <1>6, <2>1, <2>2
<1>7. CASE pc[c] = "wait" /\ BreakClosed(c)
  BY <1>0, <1>7, LeaveFails DEF BreakClosed, ReleaseProcess
<1>8. CASE ObtainTimeout(c) \/ CancelQueued(c)
  <2>1. CASE ObtainTimeout(c)
    BY <1>0, <2>1, LeaveFails DEF ObtainTimeout, LeaveQueue
  <2>2. CASE CancelQueued(c)
    BY <1>0, <2>2, LeaveFails DEF CancelQueued, LeaveQueue
  <2> QED BY <1>8, <2>1, <2>2
<1>9. CASE CancelWaiting(c)
  BY <1>0, <1>9, LeaveFails DEF CancelWaiting, ReleaseProcess
<1> QED
  BY <1>1, <1>2, <1>3, <1>4, <1>5, <1>6, <1>7, <1>8, <1>9
  DEF Closed, StartClosed, ProceedClosed, TimeoutClosed, Cancel

\* ... and touches no accumulator.
LEMMA ClosedTouchesNone ==
  ASSUME NEW c \in Call, Closed(c)
  PROVE  UNCHANGED <<live, ctx, handled, answer>>
<1>1. CASE StartClosed(c)
  BY <1>1 DEF StartClosed, OpenClosed, JoinClosed, QueueSearch, RefuseInit, SkipClear,
              PlainClosed, SeizeClosed, workerVars
<1>2. CASE ProceedClosed(c)
  BY <1>2 DEF ProceedClosed, SearchClosed, AcquireSearchLost, AcquireClosed,
              PlainClosed, SeizeClosed, BreakClosed, workerVars
<1>3. CASE TimeoutClosed(c) \/ Cancel(c)
  BY <1>3 DEF TimeoutClosed, BreakClosed, ObtainTimeout, Cancel, CancelQueued,
              CancelWaiting, LeaveQueue, workerVars
<1> QED BY <1>1, <1>2, <1>3 DEF Closed

LEMMA ClosedKeepsAnswers ==
  ASSUME AnswersOK, NEW c \in Call, FailsOrWaits(c)
  PROVE  AnswersOK'
<1>1. ASSUME NEW d \in Call, out'[d].how = "ok" PROVE pc'[d] = "done"
  BY <1>1 DEF AnswersOK, FailsOrWaits
<1> QED BY <1>1 DEF AnswersOK, FailsOrWaits

\* The clients see a request that is made, or that fails.
LEMMA ClosedImplements ==
  ASSUME AnswersOK, NEW c \in Call, Closed(c)
  PROVE  Service!ServiceNext \/ UNCHANGED Service!serviceVars
<1>0. FailsOrWaits(c) /\ UNCHANGED <<live, ctx, handled, answer>>
  BY ClosedFails, ClosedTouchesNone
<1>1. Store' = Store
  BY <1>0 DEF Store
<1>2. out[c].how # "ok" /\ out'[c].how # "ok" /\ pc[c] # "done" /\ pc'[c] # "new"
  BY <1>0 DEF AnswersOK, FailsOrWaits
<1>3. \A d \in Call : d # c => Phase'[d] = Phase[d] /\ Replied'[d] = Replied[d]
  BY <1>0 DEF FailsOrWaits, Phase, Replied
<1>4. /\ Phase[c] = IF pc[c] = "new" THEN "new" ELSE "pending"
      /\ Phase'[c] = IF pc'[c] = "done" THEN "failed" ELSE "pending"
      /\ Replied'[c] = Replied[c]
  BY <1>2 DEF Phase, Replied
<1>5. /\ Phase = [d \in Call |-> Phase[d]] /\ Phase' = [d \in Call |-> Phase'[d]]
      /\ Replied = [d \in Call |-> Replied[d]] /\ Replied' = [d \in Call |-> Replied'[d]]
  BY DEF Phase, Replied
<1>6. Replied' = Replied
  BY <1>3, <1>4, <1>5
<1>7. Phase' = [Phase EXCEPT ![c] = Phase'[c]]
  BY <1>3, <1>5
<1>8. CASE pc'[c] = "done"
  <2> DEFINE lost == {}
  <2>1. Store' = [s \in Session |-> IF s \in lost THEN None ELSE Store[s]]
    BY <1>1 DEF Store
  <2>2. Service!Fail(c, lost)
    BY <1>0, <1>4, <1>6, <1>7, <1>8, <2>1 DEF Service!Fail
  <2>3. lost \in SUBSET Session
    OBVIOUS
  <2> HIDE DEF lost
  <2> QED BY <2>2, <2>3 DEF Service!ServiceNext
<1>9. CASE pc'[c] # "done" /\ pc[c] = "new"
  <2>1. Service!Submit(c)
    BY <1>0, <1>1, <1>4, <1>6, <1>7, <1>9 DEF Service!Submit
  <2> QED BY <2>1 DEF Service!ServiceNext
<1>10. CASE pc'[c] # "done" /\ pc[c] # "new"
  <2>1. Phase' = Phase
    BY <1>3, <1>4, <1>5, <1>10
  <2> QED BY <1>0, <1>1, <1>6, <2>1 DEF Service!serviceVars
<1> QED BY <1>8, <1>9, <1>10

LEMMA FullAnswers == FullInv => AnswersOK
BY DEF FullInv, PoolInv, ContextInv, ClientOrder, IInv, CoreInv, TypeOK, AnswersOK

\* Until the stop, the invariant of the pool; after it, only that of the answers.
StoppedInv == AnswersOK /\ (~stopped => FullInv)

LEMMA StoppedStep ==
  StoppedInv /\ [ShutdownNext]_shutdownVars =>
    StoppedInv' /\ [Service!ServiceNext]_(Service!serviceVars)
<1> SUFFICES ASSUME StoppedInv, [ShutdownNext]_shutdownVars
             PROVE  StoppedInv' /\ (Service!ServiceNext \/ UNCHANGED Service!serviceVars)
  OBVIOUS
<1>1. CASE ~stopped /\ Running
  <2>1. FullInv /\ Next /\ stopped' = stopped
    BY <1>1 DEF Running, StoppedInv
  <2>2. FullInv'
    BY <2>1, FullStep
  <2>3. AnswersOK'
    BY <2>2, FullAnswers, PTL
  <2>4. Service!ServiceNext \/ UNCHANGED Service!serviceVars
    BY <2>1, <2>2, NextImplements
  <2> QED BY <2>2, <2>3, <2>4 DEF StoppedInv
<1>2. CASE ~stopped /\ StopProcesses
  <2>1. UNCHANGED <<managerVars, ctx, handled, answer>> /\ stopped'
    BY <1>2 DEF StopProcesses
  <2>2. AnswersOK'
    BY <2>1 DEF managerVars, StoppedInv, AnswersOK
  <2>3. UNCHANGED Service!serviceVars
    BY <2>1 DEF managerVars, Service!serviceVars, Phase, Store, Replied
  <2> QED BY <2>1, <2>2, <2>3 DEF StoppedInv
<1>3. CASE stopped /\ \E c \in Call : Closed(c)
  <2>1. PICK c \in Call : Closed(c)
    BY <1>3
  <2>2. AnswersOK'
    BY <2>1, ClosedFails, ClosedKeepsAnswers DEF StoppedInv
  <2>3. stopped'
    BY <1>3, <2>1 DEF Closed
  <2> QED BY <2>1, <2>2, <2>3, ClosedImplements DEF StoppedInv
<1>4. CASE UNCHANGED shutdownVars
  <2>1. UNCHANGED vars /\ stopped' = stopped
    BY <1>4 DEF shutdownVars
  <2>2. FullInv => FullInv'
    BY <2>1, FullStep
  <2>3. AnswersOK'
    BY <2>1 DEF vars, managerVars, StoppedInv, AnswersOK
  <2>4. UNCHANGED Service!serviceVars
    BY <2>1 DEF vars, managerVars, workerVars, Service!serviceVars, Phase, Store, Replied
  <2> QED BY <2>1, <2>2, <2>3, <2>4 DEF StoppedInv
<1> QED BY <1>1, <1>2, <1>3, <1>4 DEF ShutdownNext

\* A pool that is stopped at any moment (stop_processes under requests in flight) keeps
\* what it promised: a request still takes effect once at most, nobody is answered with
\* anything but the value of that moment, and all that the requests in flight and the
\* later ones see of the stop is that they fail.
THEOREM StopImplementsService == ShutdownSpec => ImplementsService
<1>1. ShutdownInit => StoppedInv /\ Service!ServiceInit
  <2> SUFFICES ASSUME ShutdownInit PROVE StoppedInv /\ Service!ServiceInit
    OBVIOUS
  <2>1. Init
    BY DEF ShutdownInit
  <2> QED BY <2>1, FullInit, FullAnswers, InitImplements DEF StoppedInv
<1> QED BY <1>1, StoppedStep, PTL DEF ShutdownSpec, ImplementsService, Service!ServiceSpec

=============================================================================
