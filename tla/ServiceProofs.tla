--------------------------- MODULE ServiceProofs ----------------------------
(***************************************************************************)
(* What the pool promises its clients, for every pool and every set of     *)
(* requests: one context per session, results that add up, and that it     *)
(* implements SessionService.                                              *)
(*                                                                         *)
(* Why the accumulator of a session is in one process.  The table names one*)
(* process per session, but the table forgets: an entry goes with a restart*)
(* or with a clear, while messages and contexts may be left behind, and a  *)
(* request that is queued for a process does not look at the table again.  *)
(* What holds is that everything left of a session -- its context, messages*)
(* in a pipe, tasks queued for or waiting on a process -- is in one process*)
(* that is alive; that the entry, when there is one, names that process;   *)
(* and that it is missing only when the session has been closed, so that no*)
(* request comes any more that would link the session somewhere else.      *)
(*                                                                         *)
(* The answers need more: where a value goes from the worker that computed *)
(* it to the client (ValueInv), that a session is not opened once more     *)
(* while it has answers (FirstOnce), and that its answers are what one     *)
(* accumulator held, one after the other (Sums).                           *)
(***************************************************************************)
EXTENDS ResultProofs

Queued(c, p) == \E i \in 1..Len(toW[p]) : toW[p][i] = c

\* The task of c is queued for the busy lock of p, or waits for its answer.
Here(c, p) == pc[c] \in {"busy", "wait"} /\ at[c] = p

Involved(c, p) == Queued(c, p) \/ Here(c, p)

\* Something of session s is in process p, or on its way to it.
Concerns(p, s) ==
  ctx[p][s] # None \/ \E c \in Call : Sess(c) = s /\ Involved(c, p)

\* The client has begun to clear s: it makes no further request of it.
Ended(s) ==
  \E k \in Call : Sess(k) = s /\ Type[k] = "clear" /\ pc[k] # "new" /\ Opened(k)

AtHome ==
  \A s \in Session : \A p \in live :
    Concerns(p, s) => IF sessions[s] # None THEN sessions[s].pid = p ELSE Ended(s)

OneHome ==
  \A s \in Session : \A p, q \in live : Concerns(p, s) /\ Concerns(q, s) => p = q

\* Nothing is left of a process that was killed, and nothing precedes a new one.
Blank == \A p \in Pid \ live : toW[p] = <<>> /\ ctx[p] = NoContexts

\* Only the first request of a session opens it, and only requests without a
\* session wait for the event.
ClientOrder ==
  \A c \in Call :
    /\ out[c].how = "ok" => pc[c] = "done"
    /\ pc[c] # "new" /\ Type[c] # "init_session" /\ Sess(c) # None => Opened(c)
    /\ pc[c] = "search" => Type[c] # "init_session"
    /\ pc[c] \in {"parked", "woken"} => Sess(c) = None

ContextInv == AtHome /\ OneHome /\ Blank /\ ClientOrder

-----------------------------------------------------------------------------
(* What one step of the task of c is to the contexts.                      *)

\* No other call is started, ended or moved to another process by it.
Undisturbed(c) ==
  \A d \in Call : d # c =>
    /\ out'[d] = out[d] /\ at'[d] = at[d]
    /\ pc'[d] = pc[d] \/ (pc[d] = "parked" /\ pc'[d] = "woken")

\* The task is made when the client may make the request, and ends once.
Lives(c) ==
  /\ pc[c] # "done" /\ pc'[c] # "new"
  /\ pc[c] = "new" => MayStart(c)
  /\ pc'[c] = "done" \/ out'[c] = out[c]
  /\ pc'[c] = "search" => Type[c] # "init_session"
  /\ pc'[c] \in {"parked", "woken"} => Sess(c) = None

\* It waits on, or leaves.
NoNews(c) ==
  /\ live' = live /\ toW' = toW /\ ctx' = ctx /\ shm' = shm
  /\ pc'[c] \in {"busy", "wait"} => pc'[c] = pc[c] /\ at'[c] = at[c]
  /\ sessions' = sessions \/ sessions' = Forget(c, sessions)

Takes(c, p) ==
  /\ live' = live /\ ctx' = ctx /\ shm' = shm
  /\ toW' = toW \/ toW' = [toW EXCEPT ![p] = Append(@, c)]
  /\ pc'[c] \in {"busy", "wait"} /\ at'[c] = p

\* It takes, or queues for, the process of its session or one it is queued for.
Joins(c, p) ==
  /\ Takes(c, p) /\ sessions' = sessions
  /\ \/ Sess(c) = None
     \/ Involved(c, p)
     \/ /\ Type[c] # "init_session"
        /\ sessions[Sess(c)] # None /\ sessions[Sess(c)].pid = p

Opens(c, p) ==
  /\ Takes(c, p) /\ MayStart(c) /\ Type[c] # "clear"
  /\ Sess(c) # None /\ sessions[Sess(c)] = None
  /\ sessions' = [sessions EXCEPT ![Sess(c)] = [lock |-> c, pid |-> p]]

Breaks(c, p) ==
  /\ pc[c] = "wait" /\ at[c] = p /\ pc'[c] = "done"
  /\ live' = (live \ {p}) \cup {started + 1}
  /\ toW' = [toW EXCEPT ![p] = <<>>]
  /\ ctx' = [ctx EXCEPT ![p] = NoContexts]
  /\ shm' = [shm EXCEPT ![p] = None]
  /\ sessions' = Forget(c, Surviving(p))

Moves(c) ==
  /\ Undisturbed(c) /\ Lives(c)
  /\ \/ NoNews(c)
     \/ \E p \in live : Joins(c, p) \/ Opens(c, p) \/ Breaks(c, p)

\* Every step of the manager is one of these.
LEMMA ManagerMoves ==
  ASSUME CoreInv, ClientOrder, NEW c \in Call,
         Start(c) \/ Proceed(c) \/ Timeout(c) \/ Cancel(c)
  PROVE  Moves(c)
<1> USE DEF CoreInv, TypeOK, WorkerTypeOK
<1>1. ASSUME NEW p \in live, Seize(c, p)
      PROVE  Undisturbed(c) /\ Takes(c, p) /\ out' = out /\ pc'[c] \in {"busy", "wait"}
  BY <1>1 DEF Seize, Undisturbed, Takes, pipeVars
<1>2. ASSUME NEW ending, pc' = [pc EXCEPT ![c] = "done"], Leave(c, ending, sessions),
             live' = live, toW' = toW, ctx' = ctx, shm' = shm
      PROVE  Undisturbed(c) /\ NoNews(c) /\ pc'[c] = "done"
  BY <1>2 DEF Leave, Undisturbed, NoNews
<1>3. ASSUME ReleaseProcess(c)
      PROVE  /\ pc'[c] = "done"
             /\ \A d \in Call : d # c =>
                  pc'[d] = pc[d] \/ (pc[d] = "parked" /\ pc'[d] = "woken")
  BY <1>3 DEF ReleaseProcess, Woken
<1>4. ASSUME NEW ending, ReleaseProcess(c), Leave(c, ending, sessions),
             live' = live, toW' = toW, ctx' = ctx, shm' = shm
      PROVE  Undisturbed(c) /\ NoNews(c) /\ pc'[c] = "done"
  BY <1>3, <1>4 DEF Leave, Undisturbed, NoNews
<1>5. ASSUME NEW ending, pc[c] = "wait", Break(c, ending)
      PROVE  Moves(c)
  <2>1. at[c] \in live /\ live \subseteq Pid
    BY <1>5 DEF BusyLockExcludes
  <2>2. Undisturbed(c) /\ pc'[c] = "done"
    BY <1>3, <1>5 DEF Break, Leave, Undisturbed
  <2>3. Breaks(c, at[c])
    BY <1>5, <2>2 DEF Break, Leave, Restart, Breaks
  <2> QED BY <1>5, <2>1, <2>2, <2>3 DEF Moves, Lives
<1>6. ASSUME pc[c] = "new", MayStart(c), Sess(c) = None, Scan(c), sessions' = sessions
      PROVE  Moves(c)
  <2>1. CASE \E p \in live : Seize(c, p)
    BY <1>1, <1>6, <2>1 DEF Moves, Lives, Joins
  <2>2. CASE pc' = [pc EXCEPT ![c] = "parked"] /\ UNCHANGED <<at, out, live, workerVars>>
    BY <1>6, <2>2 DEF Moves, Lives, NoNews, Undisturbed, workerVars
  <2> QED BY <1>6, <2>1, <2>2 DEF Scan
<1>7. CASE Start(c)
  <2>0. pc[c] = "new" /\ MayStart(c)
    BY <1>7 DEF Start, OpenEntry, JoinEntry, QueueSearch, RefuseInit, SkipClear, StartPlain, MayStart
  <2>1. CASE \E p \in live : OpenEntry(c, p)
    <3>1. PICK p \in live : OpenEntry(c, p)
      BY <2>1
    <3>2. Seize(c, p)
      BY <3>1 DEF OpenEntry, SeizeForSession
    <3> QED BY <1>1, <2>0, <3>1, <3>2 DEF OpenEntry, Moves, Lives, Opens
  <2>2. CASE JoinEntry(c)
    <3>1. sessions[Sess(c)].pid \in live
      BY <2>2, RequestsAssumption DEF JoinEntry, Sess, SessionsPointToLive
    <3>2. Seize(c, sessions[Sess(c)].pid)
      BY <2>2 DEF JoinEntry, SeizeForSession
    <3> QED BY <1>1, <2>0, <2>2, <3>1, <3>2 DEF JoinEntry, Moves, Lives, Joins
  <2>3. CASE QueueSearch(c)
    BY <2>0, <2>3 DEF QueueSearch, workerVars, Moves, Lives, NoNews, Undisturbed
  <2>4. CASE RefuseInit(c) \/ SkipClear(c)
    BY <2>0, <2>4 DEF RefuseInit, SkipClear, workerVars, Moves, Lives, NoNews, Undisturbed
  <2>5. CASE StartPlain(c)
    BY <1>6, <2>0, <2>5 DEF StartPlain
  <2> QED BY <1>7, <2>1, <2>2, <2>3, <2>4, <2>5 DEF Start
<1>8. CASE Proceed(c)
  <2>1. CASE AcquireSearch(c)
    <3>1. sessions[Sess(c)].pid \in live
      BY <2>1, RequestsAssumption DEF AcquireSearch, Sess, SessionsPointToLive, Placement
    <3>2. Seize(c, sessions[Sess(c)].pid)
      BY <2>1 DEF AcquireSearch, SeizeForSession
    <3>3. Type[c] # "init_session"
      BY <2>1 DEF AcquireSearch, ClientOrder
    <3> QED BY <1>1, <2>1, <3>1, <3>2, <3>3 DEF AcquireSearch, Moves, Lives, Joins
  <2>2. CASE AcquireSearchLost(c) \/ AcquireStale(c)
    BY <1>2, <2>2 DEF AcquireSearchLost, AcquireStale, workerVars, Moves, Lives
  <2>3. CASE AcquireBusy(c)
    <3>1. Takes(c, at[c]) /\ Undisturbed(c) /\ Involved(c, at[c]) /\ sessions' = sessions
      BY <2>3 DEF AcquireBusy, pipeVars, Takes, Undisturbed, Involved, Here
    <3> QED BY <2>3, <3>1 DEF AcquireBusy, Moves, Lives, Joins
  <2>4. CASE Wake(c)
    <3>1. Sess(c) = None
      BY <2>4 DEF Wake, ClientOrder
    <3>2. CASE \E p \in live : Seize(c, p)
      BY <1>1, <2>4, <3>1, <3>2 DEF Wake, Moves, Lives, Joins
    <3>3. CASE pc' = [pc EXCEPT ![c] = "parked"] /\ UNCHANGED <<at, out, live, workerVars>>
      BY <2>4, <3>1, <3>3 DEF Wake, Moves, Lives, NoNews, Undisturbed, workerVars
    <3> QED BY <2>4, <3>2, <3>3 DEF Wake, Scan
  <2>5. CASE ReceiveAnswer(c) \/ ReceiveException(c)
    <3>1. /\ pc[c] = "wait" /\ ReleaseProcess(c) /\ live' = live /\ toW' = toW /\ ctx' = ctx /\ shm' = shm
          /\ \E ending : Leave(c, ending, sessions)
      BY <2>5 DEF ReceiveAnswer, ReceiveException, Waiting, pipeVars
    <3> QED BY <1>4, <3>1 DEF Moves, Lives
  <2>6. CASE ReceiveOSError(c) \/ TooManyForeign(c)
    BY <1>5, <2>6 DEF ReceiveOSError, TooManyForeign, Waiting
  <2>7. CASE SkipForeign(c)
    BY <2>7 DEF SkipForeign, Waiting, Moves, Lives, NoNews, Undisturbed, pipeVars
  <2> QED BY <1>8, <2>1, <2>2, <2>3, <2>4, <2>5, <2>6, <2>7 DEF Proceed
<1>9. CASE Timeout(c) \/ Cancel(c)
  <2>1. CASE HungTimeout(c)
    BY <1>5, <2>1 DEF HungTimeout
  <2>2. CASE ObtainTimeout(c) \/ CancelQueued(c)
    <3>1. PICK how : LeaveQueue(c, how)
      BY <2>2 DEF ObtainTimeout, CancelQueued
    <3> QED BY <1>2, <3>1 DEF LeaveQueue, workerVars, Moves, Lives
  <2>3. CASE CancelWaiting(c)
    BY <1>4, <2>3 DEF CancelWaiting, workerVars, Moves, Lives
  <2> QED BY <1>9, <2>1, <2>2, <2>3 DEF Timeout, Cancel
<1> QED BY <1>7, <1>8, <1>9

-----------------------------------------------------------------------------
\* Opened is about the session of a request only.
LEMMA SameOpened ==
  ASSUME NEW c \in Call, NEW d \in Call, Sess(c) = Sess(d)
  PROVE  Opened(c) <=> Opened(d)
BY DEF Opened, Peers

\* A request that may link its session comes before any clear of it.
LEMMA LinksEarly ==
  ASSUME NEW c \in Call, MayStart(c), Type[c] # "clear", Sess(c) # None
  PROVE  ~Ended(Sess(c)) /\ (Type[c] = "init_session" => ~Opened(c))
<1>1. Type[c] \in {"init_session", "data"}
  BY RequestsAssumption
<1>2. CASE Type[c] = "init_session"
  <2>1. ~Opened(c)
    BY <1>2, Zenon DEF MayStart
  <2> QED BY <1>2, <2>1, SameOpened DEF Ended
<1>3. CASE Type[c] = "data"
  <2>1. \A d \in Peers(c, "clear") : pc[d] = "new"
    BY <1>3, Zenon DEF MayStart
  <2> QED BY <1>3, <2>1 DEF Ended, Peers
<1> QED BY <1>1, <1>2, <1>3

\* The other requests come when the session has been opened.
LEMMA ComesAfterOpen ==
  ASSUME NEW c \in Call, MayStart(c), Type[c] # "init_session", Sess(c) # None
  PROVE  Opened(c)
<1>1. Type[c] \in {"data", "clear"}
  BY RequestsAssumption
<1>2. CASE Type[c] = "data"
  BY <1>2, Zenon DEF MayStart
<1>3. CASE Type[c] = "clear"
  BY <1>3, Zenon DEF MayStart
<1> QED BY <1>1, <1>2, <1>3

\* A step of a task keeps the order of the client's requests; what has been
\* opened and what has been ended stays so.
LEMMA OrderKeeps ==
  ASSUME ClientOrder, NEW c \in Call, Undisturbed(c), Lives(c)
  PROVE  /\ ClientOrder'
         /\ \A d \in Call : Opened(d) => Opened(d)'
         /\ \A s : Ended(s) => Ended(s)'
<1>1. ASSUME NEW i \in Call, out[i].how = "ok"
      PROVE  out'[i].how = "ok"
  BY <1>1 DEF ClientOrder, Lives, Undisturbed
<1>2. \A d \in Call : Opened(d) => Opened(d)'
  BY <1>1 DEF Opened, Peers
<1>3. \A d \in Call : pc[d] # "new" => pc'[d] # "new"
  BY DEF Undisturbed, Lives
<1>4. \A s : Ended(s) => Ended(s)'
  BY <1>2, <1>3 DEF Ended
<1>5. ASSUME NEW d \in Call
      PROVE  /\ out'[d].how = "ok" => pc'[d] = "done"
             /\ pc'[d] # "new" /\ Type[d] # "init_session" /\ Sess(d) # None => Opened(d)'
             /\ pc'[d] = "search" => Type[d] # "init_session"
             /\ pc'[d] \in {"parked", "woken"} => Sess(d) = None
  <2>1. CASE d # c
    BY <1>2, <2>1 DEF ClientOrder, Undisturbed
  <2>2. CASE d = c
    <3>1. pc[c] # "new" /\ Type[c] # "init_session" /\ Sess(c) # None => Opened(c)'
      BY <1>2 DEF ClientOrder
    <3>2. pc[c] = "new" /\ Type[c] # "init_session" /\ Sess(c) # None => Opened(c)'
      BY <1>2, ComesAfterOpen DEF Lives
    <3>3. out'[c].how = "ok" => pc'[c] = "done"
      BY DEF Lives, ClientOrder
    <3> QED BY <2>2, <3>1, <3>2, <3>3 DEF Lives
  <2> QED BY <2>1, <2>2
<1>6. ClientOrder'
  BY <1>5 DEF ClientOrder
<1> QED BY <1>2, <1>4, <1>6

\* A step that brings nothing of a session to a process, and takes an entry away
\* only from a session that ends or that leaves nothing behind.
LEMMA HomeKeeps ==
  ASSUME ContextInv, \A s : Ended(s) => Ended(s)',
         \A s \in Session : \A q \in live' :
           Concerns(q, s)' => q \in live /\ Concerns(q, s),
         \A s \in Session :
           \/ sessions'[s] = sessions[s]
           \/ sessions'[s] = None /\ Ended(s)'
           \/ \A q \in live' : ~Concerns(q, s)'
  PROVE  AtHome' /\ OneHome'
BY DEF ContextInv, AtHome, OneHome

\* A step that brings something of s to p, where s is at home or at home nowhere.
LEMMA HomeComes ==
  ASSUME ContextInv, \A s : Ended(s) => Ended(s)', NEW p \in live, NEW r, live' = live,
         \A s \in Session : \A q \in live :
           Concerns(q, s)' => Concerns(q, s) \/ (q = p /\ s = r),
         \A s \in Session : s # r => sessions'[s] = sessions[s],
         r \in Session =>
           /\ \A q \in live : Concerns(q, r) => q = p
           /\ IF sessions'[r] # None THEN sessions'[r].pid = p ELSE Ended(r)'
  PROVE  AtHome' /\ OneHome'
<1>1. AtHome'
  <2>1. ASSUME NEW s \in Session, NEW q \in live, Concerns(q, s)'
        PROVE  IF sessions'[s] # None THEN sessions'[s].pid = q ELSE Ended(s)'
    <3>1. CASE s = r
      BY <2>1, <3>1
    <3>2. CASE s # r
      BY <2>1, <3>2 DEF ContextInv, AtHome
    <3> QED BY <3>1, <3>2
  <2> QED BY <2>1 DEF AtHome
<1>2. OneHome'
  <2>1. ASSUME NEW s \in Session, NEW q1 \in live, NEW q2 \in live,
               Concerns(q1, s)', Concerns(q2, s)'
        PROVE  q1 = q2
    <3>1. CASE s = r
      BY <2>1, <3>1
    <3>2. CASE s # r
      BY <2>1, <3>2 DEF ContextInv, OneHome
    <3> QED BY <3>1, <3>2
  <2> QED BY <2>1 DEF OneHome
<1> QED BY <1>1, <1>2

\* Where a call is after a step of the task of c.
LEMMA StaysInvolved ==
  ASSUME CoreInv, NEW c \in Call, Undisturbed(c), live' = live, NEW d \in Call, NEW q \in Pid,
         \/ NoNews(c)
         \/ \E p \in live : Takes(c, p) /\ ~(d = c /\ q = p),
         Involved(d, q)'
  PROVE  Involved(d, q)
<1>0. toW \in [Pid -> Seq(Call)]
  BY DEF CoreInv, TypeOK, WorkerTypeOK
<1>1. ASSUME NoNews(c) PROVE Involved(d, q)
  <2>1. Queued(d, q)' => Queued(d, q)
    BY <1>1 DEF NoNews, Queued
  <2>2. Here(d, q)' => Here(d, q)
    BY <1>1 DEF NoNews, Here, Undisturbed
  <2> QED BY <2>1, <2>2 DEF Involved
<1>2. ASSUME NEW p \in live, Takes(c, p), ~(d = c /\ q = p) PROVE Involved(d, q)
  <2>1. Queued(d, q)' => Queued(d, q)
    <3>1. CASE toW' = toW
      BY <3>1 DEF Queued
    <3>2. CASE toW' = [toW EXCEPT ![p] = Append(@, c)]
      <4>1. CASE q # p
        BY <1>0, <3>2, <4>1 DEF Queued
      <4>2. CASE q = p
        <5>1. toW'[p] = Append(toW[p], c) /\ toW[p] \in Seq(Call) /\ d # c
          BY <1>0, <1>2, <3>2, <4>2
        <5> QED BY <4>2, <5>1 DEF Queued
      <4> QED BY <4>1, <4>2
    <3> QED BY <1>2, <3>1, <3>2 DEF Takes
  <2>2. Here(d, q)' => Here(d, q)
    BY <1>2 DEF Takes, Here, Undisturbed
  <2> QED BY <2>1, <2>2 DEF Involved
<1> QED BY <1>1, <1>2

\* After the restart of p nothing is left of it, and nothing is yet of the process
\* that replaces it.
LEMMA BreakLeaves ==
  ASSUME CoreInv, ContextInv, NEW c \in Call, NEW p \in live, Undisturbed(c), Breaks(c, p),
         started + 1 \in Pid,
         NEW q \in live'
  PROVE  /\ \A d \in Call : Involved(d, q)' => Involved(d, q) /\ q \in live /\ q # p
         /\ \A s \in Session : ctx'[q][s] # None => ctx[q][s] # None /\ q \in live /\ q # p
         /\ ctx'[q] = ctx[q]
<1>0. /\ toW \in [Pid -> Seq(Call)] /\ live \subseteq Pid /\ started \in Nat
      /\ DOMAIN ctx = Pid
      /\ live \subseteq 1..started /\ \A d \in Call : at[d] <= started
  <2>1. WorkerTypeOK /\ live \subseteq Pid /\ started \in Nat
    BY DEF CoreInv, TypeOK, Pid
  <2>2. live \subseteq 1..started /\ \A d \in Call : at[d] <= started
    BY DEF CoreInv, Placement
  <2> QED BY <2>1, <2>2 DEF WorkerTypeOK
<1>1. q \in Pid /\ q # p /\ (q \in live \/ q = started + 1)
  <2>1. (q \in live /\ q # p) \/ q = started + 1
    BY DEF Breaks
  <2>2. p # started + 1
    BY <1>0
  <2> QED BY <1>0, <2>1, <2>2
<1>2. toW'[q] = toW[q] /\ ctx'[q] = ctx[q]
  BY <1>0, <1>1 DEF Breaks
<1>3. q \notin live => toW[q] = <<>> /\ ctx[q] = NoContexts
  BY <1>1 DEF ContextInv, Blank
<1>4. ASSUME NEW d \in Call, Involved(d, q)'
      PROVE  Involved(d, q) /\ q \in live /\ q # p
  <2>1. Queued(d, q)' => Queued(d, q) /\ q \in live
    BY <1>2, <1>3 DEF Queued
  <2>2. Here(d, q)' => Here(d, q)
    BY DEF Breaks, Here, Undisturbed
  <2>3. Here(d, q) => q \in live
    BY <1>0, <1>1 DEF Here
  <2> QED BY <1>1, <1>4, <2>1, <2>2, <2>3 DEF Involved
<1>5. ASSUME NEW s \in Session, ctx'[q][s] # None
      PROVE  ctx[q][s] # None /\ q \in live /\ q # p
  BY <1>1, <1>2, <1>3, <1>5 DEF NoContexts
<1> QED BY <1>2, <1>4, <1>5

\* A step of a task leaves a session in one process.
LEMMA TaskKeepsHome ==
  ASSUME CoreInv, CoreInv', ContextInv, NEW c \in Call, Moves(c)
  PROVE  ContextInv'
<1> USE DEF ContextInv
<1>0. /\ Undisturbed(c) /\ Lives(c)
      /\ ClientOrder' /\ (\A s : Ended(s) => Ended(s)')
      /\ live \subseteq Pid
      /\ sessions \in SessionTable
  BY OrderKeeps DEF Moves, CoreInv, TypeOK
<1>1. Type[c] = "clear" /\ Sess(c) # None => Ended(Sess(c))'
  BY <1>0 DEF ClientOrder, Lives, Ended
<1>2. CASE NoNews(c)
  <2>1. live' = live /\ ctx' = ctx /\ toW' = toW
    BY <1>2 DEF NoNews
  <2>2. \A s \in Session : \A q \in live : Concerns(q, s)' => Concerns(q, s)
    BY <1>0, <1>2, <2>1, StaysInvolved DEF Concerns
  <2>3. \A s \in Session :
          sessions'[s] = sessions[s] \/ (sessions'[s] = None /\ Ended(s)')
    <3>1. CASE sessions' = sessions
      BY <3>1
    <3>2. CASE sessions' = Forget(c, sessions)
      <4>1. CASE Type[c] # "clear"
        BY <3>2, <4>1 DEF Forget
      <4>2. CASE Type[c] = "clear"
        <5>1. \A s \in Session : s # Sess(c) => sessions'[s] = sessions[s]
          BY <1>0, <3>2, <4>2 DEF Forget, SessionTable
        <5>2. Sess(c) \in Session => sessions'[Sess(c)] = None
          BY <1>0, <3>2, <4>2 DEF Forget, SessionTable
        <5>3. Sess(c) \in Session => Sess(c) # None
          BY RequestsAssumption
        <5> QED BY <1>1, <4>2, <5>1, <5>2, <5>3
      <4> QED BY <4>1, <4>2
    <3> QED BY <1>2, <3>1, <3>2 DEF NoNews
  <2>4. AtHome' /\ OneHome'
    BY <1>0, <2>1, <2>2, <2>3, HomeKeeps
  <2>5. Blank'
    BY <2>1 DEF Blank
  <2> QED BY <1>0, <2>4, <2>5
<1>3. ASSUME NEW p \in live, Joins(c, p) \/ Opens(c, p) PROVE ContextInv'
  <2>0. Takes(c, p) /\ live' = live /\ ctx' = ctx /\ p \in Pid
    BY <1>0, <1>3 DEF Joins, Opens, Takes
  <2>1. \A s \in Session : \A q \in live :
          Concerns(q, s)' => Concerns(q, s) \/ (q = p /\ s = Sess(c))
    BY <1>0, <2>0, StaysInvolved DEF Concerns
  <2>2. \A s \in Session : s # Sess(c) => sessions'[s] = sessions[s]
    BY <1>0, <1>3 DEF Joins, Opens, SessionTable
  <2>3. Sess(c) \in Session =>
           /\ \A q \in live : Concerns(q, Sess(c)) => q = p
           /\ IF sessions'[Sess(c)] # None THEN sessions'[Sess(c)].pid = p ELSE Ended(Sess(c))'
    <3> SUFFICES ASSUME Sess(c) \in Session
                 PROVE  /\ \A q \in live : Concerns(q, Sess(c)) => q = p
                        /\ IF sessions'[Sess(c)] # None THEN sessions'[Sess(c)].pid = p
                             ELSE Ended(Sess(c))'
      OBVIOUS
    <3>0. Sess(c) # None
      BY RequestsAssumption
    <3>1. CASE Joins(c, p)
      <4>1. sessions' = sessions
        BY <3>1 DEF Joins
      <4>2. CASE Involved(c, p)
        <5>1. Concerns(p, Sess(c))
          BY <4>2 DEF Concerns
        <5> QED BY <1>0, <4>1, <5>1 DEF AtHome, OneHome
      <4>3. CASE sessions[Sess(c)] # None /\ sessions[Sess(c)].pid = p
        BY <4>1, <4>3 DEF AtHome
      <4> QED BY <3>0, <3>1, <4>2, <4>3 DEF Joins
    <3>2. CASE Opens(c, p)
      <4>1. ~Ended(Sess(c)) /\ sessions[Sess(c)] = None
        BY <3>0, <3>2, LinksEarly DEF Opens
      <4>2. \A q \in live : ~Concerns(q, Sess(c))
        BY <4>1 DEF AtHome
      <4>3. sessions'[Sess(c)].pid = p /\ sessions'[Sess(c)] # None
        <5>1. sessions'[Sess(c)] = [lock |-> c, pid |-> p]
          BY <1>0, <3>2 DEF Opens, SessionTable
        <5>2. sessions'[Sess(c)] # None
          BY <5>1, <2>0, ManagerAssumption
        <5> QED BY <5>1, <5>2
      <4> QED BY <4>2, <4>3
    <3> QED BY <1>3, <3>1, <3>2
  <2>4. AtHome' /\ OneHome'
    BY <1>0, <2>0, <2>1, <2>2, <2>3, HomeComes
  <2>5. Blank'
    BY <1>0, <2>0 DEF Blank, Takes, CoreInv, TypeOK, WorkerTypeOK
  <2> QED BY <1>0, <2>4, <2>5
<1>4. ASSUME NEW p \in live, Breaks(c, p) PROVE ContextInv'
  <2>0. started + 1 \in Pid
    BY <1>4 DEF Breaks, CoreInv, TypeOK
  <2>1. \A s \in Session : \A q \in live' :
          Concerns(q, s)' => q \in live /\ q # p /\ Concerns(q, s)
    BY <1>0, <1>4, <2>0, BreakLeaves DEF Concerns
  <2>2. ASSUME NEW s \in Session
        PROVE  \/ sessions'[s] = sessions[s]
               \/ sessions'[s] = None /\ Ended(s)'
               \/ \A q \in live' : ~Concerns(q, s)'
    <3>0. Sess(c) \in Session => Sess(c) # None
      BY RequestsAssumption
    <3>1. CASE sessions[s] # None /\ sessions[s].pid = p
      BY <2>1, <3>1 DEF AtHome
    <3>2. CASE ~(sessions[s] # None /\ sessions[s].pid = p)
      <4>1. Surviving(p)[s] = sessions[s] /\ Surviving(p) = [x \in Session |-> Surviving(p)[x]]
        BY <3>2 DEF Surviving
      <4>2. CASE Type[c] = "clear" /\ s = Sess(c)
        BY <1>1, <1>4, <3>0, <4>1, <4>2 DEF Breaks, Forget
      <4>3. CASE ~(Type[c] = "clear" /\ s = Sess(c))
        BY <1>4, <4>1, <4>3 DEF Breaks, Forget
      <4> QED BY <4>2, <4>3
    <3> QED BY <3>1, <3>2
  <2>3. AtHome' /\ OneHome'
    BY <1>0, <2>1, <2>2, HomeKeeps
  <2>4. Blank'
    BY <1>0, <1>4 DEF Blank, Breaks, CoreInv, TypeOK, WorkerTypeOK
  <2> QED BY <1>0, <2>3, <2>4
<1> QED BY <1>2, <1>3, <1>4 DEF Moves

-----------------------------------------------------------------------------
(* What the workers do to the contexts.                                    *)

\* The handling of a message changes the context of its own session, if any, and
\* never adds a context but for a message that opens the session.
LEMMA HandleContext ==
  ASSUME TypeOK, NEW p \in Pid, NEW d \in Call, Handle(p, d)
  PROVE  /\ Queued(d, p)
         /\ \A c \in Call : \A q \in Pid : Queued(c, q)' => Queued(c, q)
         /\ toW'[p] = Tail(toW[p]) /\ \A q \in Pid : q # p => toW'[q] = toW[q]
         /\ \A q \in Pid : \A s \in Session :
              ctx'[q][s] # ctx[q][s] => q = p /\ s = Sess(d)
<1> USE DEF TypeOK, WorkerTypeOK
<1>1. PICK t \in Classes : Receives(p, d, Msg(t, d))
  BY DEF Handle, Reject, FailEarly, Acknowledge, WriteResult, OverflowResult, Classes
<1>2. /\ toW[p] \in Seq(Call) /\ toW[p] # <<>> /\ toW[p][1] = d
      /\ toW'[p] = Tail(toW[p]) /\ \A q \in Pid : q # p => toW'[q] = toW[q]
  BY <1>1 DEF Receives
<1>3. Queued(d, p)
  <2>1. 1 \in 1..Len(toW[p])
    BY <1>2
  <2> QED BY <1>2, <2>1 DEF Queued
<1>4. ASSUME NEW c \in Call, NEW q \in Pid, Queued(c, q)'
      PROVE  Queued(c, q)
  <2>1. CASE q = p
    <3>1. PICK i \in 1..Len(toW'[p]) : toW'[p][i] = c
      BY <1>4, <2>1 DEF Queued
    <3>2. i + 1 \in 1..Len(toW[p]) /\ toW[p][i+1] = c
      BY <1>2, <3>1
    <3> QED BY <2>1, <3>2 DEF Queued
  <2>2. CASE q # p
    BY <1>2, <1>4, <2>2 DEF Queued
  <2> QED BY <2>1, <2>2
<1>5. \/ ctx' = ctx
      \/ ctx' = [ctx EXCEPT ![p] = Updated(p, d)]
  BY DEF Handle, Reject, FailEarly, Acknowledge, WriteResult, OverflowResult
<1>6. ASSUME NEW q \in Pid, NEW s \in Session, ctx'[q][s] # ctx[q][s]
      PROVE  q = p /\ s = Sess(d)
  BY <1>5, <1>6 DEF Updated, Sess
<1> QED BY <1>2, <1>3, <1>4, <1>6

\* A step of a worker leaves a session in one process.
LEMMA WorkerKeepsHome ==
  ASSUME CoreInv, ContextInv, UNCHANGED managerVars, NEW p \in live,
         (\E d \in Call : Handle(p, d)) \/ Reply(p) \/ Die(p)
  PROVE  ContextInv'
<1> USE DEF ContextInv
<1>0. p \in Pid /\ live' = live /\ sessions' = sessions /\ live \subseteq Pid
  BY DEF CoreInv, TypeOK, managerVars
<1>1. (\A s : Ended(s)' <=> Ended(s)) /\ ClientOrder'
  BY DEF managerVars, Ended, ClientOrder, Opened
<1>2. \A d \in Call : \A q : Here(d, q)' <=> Here(d, q)
  BY DEF managerVars, Here
<1>3. ASSUME NEW s \in Session, NEW q \in live, Concerns(q, s)'
      PROVE  Concerns(q, s)
  <2>1. CASE \E d \in Call : Handle(p, d)
    <3>1. PICK d \in Call : Handle(p, d)
      BY <2>1
    <3>2. CASE ctx'[q][s] = ctx[q][s]
      BY <1>0, <1>2, <1>3, <3>1, <3>2, HandleContext DEF Concerns, Involved, CoreInv
    <3>3. CASE ctx'[q][s] # ctx[q][s]
      BY <1>0, <3>1, <3>3, HandleContext DEF Concerns, Involved, CoreInv
    <3> QED BY <3>2, <3>3
  <2>2. CASE Reply(p) \/ Die(p)
    BY <1>2, <1>3, <2>2 DEF Reply, Die, Concerns, Involved, Queued
  <2> QED BY <2>1, <2>2
<1>4. AtHome' /\ OneHome'
  BY <1>0, <1>1, <1>3, HomeKeeps
<1>5. Blank'
  <2>1. CASE \E d \in Call : Handle(p, d)
    <3>1. PICK d \in Call : Handle(p, d)
      BY <2>1
    <3>2. \/ ctx' = ctx
          \/ ctx' = [ctx EXCEPT ![p] = Updated(p, d)]
      BY <3>1 DEF Handle, Reject, FailEarly, Acknowledge, WriteResult, OverflowResult
    <3>3. \A q \in Pid : q # p => toW'[q] = toW[q] /\ ctx'[q] = ctx[q]
      BY <1>0, <3>1, <3>2, HandleContext DEF CoreInv, TypeOK, WorkerTypeOK
    <3> QED BY <1>0, <3>3 DEF Blank
  <2>2. CASE Reply(p) \/ Die(p)
    BY <1>0, <2>2 DEF Reply, Die, Blank
  <2> QED BY <2>1, <2>2
<1> QED BY <1>1, <1>4, <1>5

\* Before the first request there is nothing of any session.
LEMMA ContextInit == Init => ContextInv
<1> SUFFICES ASSUME Init PROVE ContextInv
  OBVIOUS
<1>1. /\ \A p \in Pid : toW[p] = <<>> /\ ctx[p] = NoContexts
      /\ \A c \in Call : pc[c] = "new" /\ out[c].how = "none"
  BY DEF Init, WorkerInit, Ending
<1>2. live \subseteq Pid
  BY ManagerAssumption, RequestsAssumption DEF Init, Pid
<1>3. \A p \in live : \A s \in Session : ~Concerns(p, s)
  BY <1>1, <1>2 DEF Concerns, Involved, Queued, Here, NoContexts
<1> QED BY <1>1, <1>2, <1>3 DEF ContextInv, AtHome, OneHome, Blank, ClientOrder

\* Every step leaves a session in one process.
LEMMA ContextStep ==
  ASSUME CoreInv, CoreInv', ContextInv, [Next]_vars
  PROVE  ContextInv'
<1>1. ASSUME NEW c \in Call, Start(c) \/ Proceed(c) \/ Timeout(c) \/ Cancel(c)
      PROVE  ContextInv'
  BY <1>1, ManagerMoves, TaskKeepsHome DEF ContextInv
<1>2. ASSUME NEW p \in live, Work(p) \/ Kill(p) PROVE ContextInv'
  BY <1>2, WorkerKeepsHome DEF Work, Kill
<1>3. CASE UNCHANGED vars
  BY <1>3 DEF vars, managerVars, workerVars, ContextInv, AtHome, OneHome, Blank, ClientOrder,
              Concerns, Ended, Involved, Queued, Here, Opened
<1> QED BY <1>1, <1>2, <1>3 DEF Next

\* All that the later theorems need of the pool.
PoolInv == IInv /\ PipeInv /\ ContextInv

\* The three parts together: locks and places, pipes, contexts.
LEMMA PoolInit == Init => PoolInv
<1> SUFFICES ASSUME Init PROVE PoolInv
  OBVIOUS
<1>1. Mailbox
  BY DEF Init, WorkerInit, Mailbox, Replies, Idle, Dead
<1> QED BY <1>1, InitInv, PipeInit, ContextInit DEF IInv, PoolInv

\* No step breaks them.
LEMMA PoolStep ==
  ASSUME PoolInv, [Next]_vars
  PROVE  PoolInv'
<1>1. IInv'
  BY CoreStep, MailboxStep DEF IInv, PoolInv
<1> QED BY <1>1, PipeStep, ContextStep DEF IInv, PoolInv

\* What is left of a session is in one process, in every state.
THEOREM PoolInvariant == Spec => []PoolInv
<1>1. Init => PoolInv
  BY PoolInit
<1>2. PoolInv /\ [Next]_vars => PoolInv'
  BY PoolStep
<1> QED BY <1>1, <1>2, PTL DEF Spec

\* The accumulator of a session exists in one process at most, and that is the one
\* the table names: for any number of sessions, however restarts, timeouts of the
\* init and of the clear, and requests that queue on the locks interleave.
THEOREM ContextsAreSingle == Spec => []OneContext
<1>1. PoolInv => OneContext
  BY DEF PoolInv, ContextInv, AtHome, OneHome, Concerns, OneContext
<1> QED BY <1>1, PoolInvariant, PTL

-----------------------------------------------------------------------------
(* What a request is answered: the value its worker computed.              *)

\* An answer was computed by a worker, and is empty if there is no result.
Given ==
  \A c \in Call : answer[c] # None => c \in handled /\ (~HasResult(c) => answer[c] = {})

\* The memory holds the result of a call; so does a reply that is not an exception.
Pickled == \A p \in Pid : shm[p] # None =>
  shm[p].of \in handled /\ shm[p].data = answer[shm[p].of]

Told ==
  \A p \in Pid : \A m \in Replies(p) :
    /\ m.type = "ok" => answer[m.of] = {}
    /\ m.type = "check_shared_memory" => answer[m.of] # None

\* The client is given the answer itself.
Received ==
  \A c \in Call : out[c].how = "ok" =>
    c \in handled /\ answer[c] # None /\ out[c].data = answer[c]

ValueInv == Given /\ Pickled /\ Told /\ Received

\* A call in a pipe has not been handled; a call that is handled then is.
LEMMA QueuedIsFresh ==
  ASSUME PipeInv, NEW p \in Pid, NEW c \in Call, Queued(c, p)
  PROVE  c \notin handled /\ Sent(c)
BY DEF Queued, PipeInv, SentOnce

\* What handling d does to its answer, to the memory and to the pipe.
LEMMA HandleAnswer ==
  ASSUME PoolInv, NEW p \in Pid, NEW d \in Call, Handle(p, d)
  PROVE  /\ d \notin handled /\ handled' = handled \cup {d}
         /\ \/ answer' = answer
            \/ /\ answer' = [answer EXCEPT ![d] = {}] /\ ~HasResult(d)
            \/ /\ answer' = [answer EXCEPT ![d] = Result(p, d)]
               /\ HasResult(d) /\ Accepts(p, d) /\ Result(p, d) \in SUBSET Call
         /\ \/ shm' = shm
            \/ /\ shm' = [shm EXCEPT ![p] = [of |-> d, data |-> Result(p, d)]]
               /\ answer' = [answer EXCEPT ![d] = Result(p, d)]
         /\ \E t \in Classes :
              /\ Replies(p)' \subseteq Replies(p) \cup {Msg(t, d)}
              /\ \A q \in Pid : q # p => Replies(q)' = Replies(q)
              /\ t = "ok" => answer' = [answer EXCEPT ![d] = {}]
              /\ t = "check_shared_memory" =>
                   answer' = [answer EXCEPT ![d] = Result(p, d)] /\ Result(p, d) \in SUBSET Call
<1>0. CoreInv /\ TypeOK
  BY DEF PoolInv, IInv, CoreInv
<1>1. d \notin handled
  BY <1>0, HandleContext, QueuedIsFresh DEF PoolInv
<1>2. ASSUME NEW t \in Classes, Receives(p, d, Msg(t, d))
      PROVE  /\ handled' = handled \cup {d}
             /\ Replies(p)' \subseteq Replies(p) \cup {Msg(t, d)}
             /\ \A q \in Pid : q # p => Replies(q)' = Replies(q)
  BY <1>0, <1>2, WorkerPipes DEF Receives
<1>3. CASE Reject(p, d) \/ FailEarly(p, d) \/ OverflowResult(p, d)
  <2>1. PICK t \in {"Exception", "OSError"} : Receives(p, d, Msg(t, d))
    BY <1>3 DEF Reject, FailEarly, OverflowResult
  <2>2. answer' = answer /\ shm' = shm
    BY <1>3 DEF Reject, FailEarly, OverflowResult
  <2> QED BY <1>1, <1>2, <2>1, <2>2 DEF Classes
<1>4. CASE Acknowledge(p, d)
  BY <1>1, <1>2, <1>4 DEF Acknowledge, Classes
<1>5. CASE WriteResult(p, d)
  <2>1. Result(p, d) \in SUBSET Call
    BY <1>0, <1>5, ResultType DEF WriteResult
  <2> QED BY <1>1, <1>2, <1>5, <2>1 DEF WriteResult, Classes
<1> QED BY <1>3, <1>4, <1>5 DEF Handle

\* The worker that handles d gives it the first and only answer it has.
LEMMA HandleKeepsAnswers ==
  ASSUME PoolInv, ValueInv, NEW p \in Pid, NEW d \in Call, Handle(p, d),
         UNCHANGED managerVars
  PROVE  ValueInv'
<1> USE DEF ValueInv
<1>0. /\ answer \in [Call -> {None} \cup SUBSET Call] /\ shm \in [Pid -> [of : Call, data : SUBSET Call] \cup {None}]
      /\ handled \subseteq Call /\ Mailbox
      /\ \A S \in SUBSET Call : S # None
  BY RequestsAssumption DEF PoolInv, IInv, CoreInv, TypeOK, WorkerTypeOK
<1>1. d \notin handled /\ handled' = handled \cup {d}
  BY HandleAnswer
<1>2. \A c \in Call : c # d => answer'[c] = answer[c]
  BY <1>0, HandleAnswer
<1>3. Given'
  BY <1>0, <1>1, HandleAnswer DEF Given
<1>4. Pickled'
  <2>1. ASSUME NEW q \in Pid, shm'[q] # None
        PROVE  shm'[q].of \in handled' /\ shm'[q].data = answer'[shm'[q].of]
    <3>1. CASE shm'[q] = shm[q]
      <4>1. shm[q].of \in handled /\ shm[q].data = answer[shm[q].of]
        BY <2>1, <3>1 DEF Pickled
      <4> QED BY <1>0, <1>1, <1>2, <3>1, <4>1
    <3>2. CASE shm'[q] # shm[q]
      <4>1. shm'[q] = [of |-> d, data |-> Result(p, d)] /\ answer' = [answer EXCEPT ![d] = Result(p, d)]
        BY <1>0, <3>2, HandleAnswer
      <4> QED BY <1>0, <1>1, <4>1
    <3> QED BY <3>1, <3>2
  <2> QED BY <2>1 DEF Pickled
<1>5. Told'
  <2>1. PICK t \in Classes :
          /\ Replies(p)' \subseteq Replies(p) \cup {Msg(t, d)}
          /\ \A q \in Pid : q # p => Replies(q)' = Replies(q)
          /\ t = "ok" => answer' = [answer EXCEPT ![d] = {}]
          /\ t = "check_shared_memory" =>
               answer' = [answer EXCEPT ![d] = Result(p, d)] /\ Result(p, d) \in SUBSET Call
    BY HandleAnswer
  <2>2. ASSUME NEW q \in Pid, NEW m \in Replies(q)'
        PROVE  /\ m.type = "ok" => answer'[m.of] = {}
               /\ m.type = "check_shared_memory" => answer'[m.of] # None
    <3>1. CASE m \in Replies(q)
      <4>1. m.of \in handled
        BY <1>0, <3>1 DEF Mailbox
      <4> QED BY <1>0, <1>1, <1>2, <3>1, <4>1 DEF Told
    <3>2. CASE m = Msg(t, d)
      <4>1. m.type = t /\ m.of = d
        BY <3>2 DEF Msg
      <4> QED BY <1>0, <2>1, <4>1
    <3> QED BY <2>1, <2>2, <3>1, <3>2
  <2> QED BY <2>2 DEF Told
<1>6. Received'
  BY <1>1, <1>2 DEF Received, managerVars
<1> QED BY <1>3, <1>4, <1>5, <1>6

\* What a request ends well with is its answer.
LEMMA EndsWithAnswer ==
  ASSUME PoolInv, ValueInv, NEW c \in Call, ReceiveAnswer(c)
  PROVE  /\ c \in handled /\ answer[c] # None /\ pc[c] = "wait"
         /\ \E ending : /\ ending.how = "ok" /\ ending.data = answer[c]
                        /\ Leave(c, ending, sessions)
         /\ \A d \in Call : d # c => out'[d] = out[d]
         /\ out'[c].how = "ok" => out'[c].data = answer[c]
<1> DEFINE p == at[c]
           m == NextAnswer(c)
           ending == IF HasResult(c) THEN EndingWith("ok", shm[p].of, shm[p].data)
                     ELSE EndingWith("ok", c, {})
<1>0. IInv /\ PipeInv /\ \A S \in SUBSET Call : S # None
  BY RequestsAssumption DEF PoolInv
<1>1. p \in Pid /\ toM[p] \in Seq(Message) /\ toM[p] # <<>> /\ pc[c] = "wait"
  BY <1>0 DEF ReceiveAnswer, Waiting, IInv, CoreInv, BusyLockExcludes, TypeOK, WorkerTypeOK
<1>2. m \in Replies(p)
  BY <1>1 DEF NextAnswer, Replies
<1>3. m.of = c /\ m.type \in {"ok", "check_shared_memory"}
  BY DEF ReceiveAnswer
<1>4. c \in handled /\ answer[c] # None
  BY <1>0, <1>1, <1>2, <1>3 DEF IInv, Mailbox, ValueInv, Told
<1>5. ending.how = "ok" /\ ending.data = answer[c]
  <2>1. CASE HasResult(c)
    <3>1. m.type = "check_shared_memory"
      BY <1>0, <1>1, <1>2, <1>3, <2>1 DEF IInv, Mailbox
    <3>2. shm[p].of = c
      BY <1>0, <1>1, <1>2, <1>3, <3>1 DEF PipeInv, NoticeFresh
    <3>3. shm[p] \in [of : Call, data : SUBSET Call]
      BY <1>0, <1>1, <1>2, <3>1 DEF IInv, Mailbox
    <3>4. shm[p].data = answer[c]
      <4>1. CASE shm[p] # None
        BY <1>1, <3>2, <4>1 DEF ValueInv, Pickled
      <4>2. CASE shm[p] = None
        BY <3>3, <4>2, ManagerAssumption
      <4> QED BY <4>1, <4>2
    <3> QED BY <2>1, <3>4 DEF EndingWith
  <2>2. CASE ~HasResult(c)
    BY <1>4, <2>2 DEF EndingWith, ValueInv, Given
  <2> QED BY <2>1, <2>2
<1>6. Leave(c, ending, sessions)
  BY DEF ReceiveAnswer
<1>7. out' = [out EXCEPT ![c] = Outcome(c, ending, sessions)]
  BY <1>6 DEF Leave
<1>8. Outcome(c, ending, sessions) = ending \/ Outcome(c, ending, sessions).how # "ok"
  BY DEF Outcome, Ending
<1> HIDE DEF ending
<1> QED BY <1>0, <1>1, <1>4, <1>5, <1>6, <1>7, <1>8 DEF IInv, CoreInv, TypeOK

\* What a step of a task does to the values, which are the workers'.
LEMMA TaskKeepsValues ==
  ASSUME PoolInv, CoreInv', ValueInv, NEW c \in Call,
         Start(c) \/ Proceed(c) \/ Timeout(c) \/ Cancel(c)
  PROVE  ValueInv'
<1> USE DEF ValueInv
<1>0. IInv /\ CoreInv /\ ClientOrder /\ live \subseteq Pid /\ shm \in [Pid -> [of : Call, data : SUBSET Call] \cup {None}]
  BY DEF PoolInv, IInv, ContextInv, CoreInv, TypeOK, WorkerTypeOK
<1>1. handled' = handled /\ answer' = answer
  BY <1>0, ManagerPipes
<1>2. Given'
  BY <1>1 DEF Given
<1>3. \A q \in Pid : shm'[q] = shm[q] \/ shm'[q] = None
  BY <1>0, ManagerMoves DEF Moves, NoNews, Joins, Opens, Takes, Breaks
<1>4. Pickled'
  BY <1>1, <1>3 DEF Pickled
<1>5. \A q \in Pid : Replies(q)' \subseteq Replies(q)
  BY <1>0, ManagerShrinks
<1>6. Told'
  BY <1>1, <1>5 DEF Told
<1>7. Received'
  <2>1. CASE ReceiveAnswer(c)
    BY <1>1, <2>1, EndsWithAnswer DEF Received
  <2>2. CASE ~ReceiveAnswer(c)
    BY <1>0, <1>1, <2>2, OtherEndings DEF Received
  <2> QED BY <2>1, <2>2
<1> QED BY <1>2, <1>4, <1>6, <1>7

\* A reply that is sent, or lost with its worker, is no new reply.
LEMMA NoNewReply ==
  ASSUME PoolInv, CoreInv', NEW p \in Pid, Reply(p) \/ Die(p)
  PROVE  \A q \in Pid : Replies(q)' \subseteq Replies(q)
<1>0. CoreInv /\ Mailbox
  BY DEF PoolInv, IInv
<1>1. CASE Reply(p)
  BY <1>0, <1>1, ReplyPipes
<1>2. CASE Die(p)
  <2>1. \A q \in Pid : toM'[q] = toM[q] /\ (worker'[q].reply = worker[q].reply \/ worker'[q].reply = <<>>)
    BY <1>0, <1>2 DEF Die, Dead, CoreInv, TypeOK, WorkerTypeOK
  <2>2. WorkerTypeOK'
    BY DEF CoreInv, TypeOK
  <2> QED BY <1>0, <2>1, <2>2, RepliesShrink
<1> QED BY <1>1, <1>2

\* No step of a task or a worker changes an answer that was given, or its way.
LEMMA ValueStep ==
  ASSUME PoolInv, CoreInv', ValueInv, [Next]_vars
  PROVE  ValueInv'
<1>0. live \subseteq Pid
  BY DEF PoolInv, IInv, CoreInv, TypeOK
<1>1. ASSUME NEW c \in Call, Start(c) \/ Proceed(c) \/ Timeout(c) \/ Cancel(c)
      PROVE  ValueInv'
  BY <1>1, TaskKeepsValues
<1>2. ASSUME NEW p \in live, NEW d \in Call, Handle(p, d), UNCHANGED managerVars
      PROVE  ValueInv'
  BY <1>0, <1>2, HandleKeepsAnswers
<1>3. ASSUME NEW p \in live, Reply(p) \/ Die(p), UNCHANGED managerVars
      PROVE  ValueInv'
  <2>1. UNCHANGED <<handled, answer, shm, out>>
    BY <1>3 DEF Reply, Die, managerVars
  <2>2. \A q \in Pid : Replies(q)' \subseteq Replies(q)
    BY <1>0, <1>3, NoNewReply
  <2> QED BY <2>1, <2>2 DEF ValueInv, Given, Pickled, Told, Received
<1>4. CASE UNCHANGED vars
  BY <1>4 DEF vars, managerVars, workerVars, ValueInv, Given, Pickled, Told, Received, Replies
<1> QED BY <1>1, <1>2, <1>3, <1>4 DEF Next, Work, Kill

\* Nobody has been answered at first.
LEMMA ValueInit == Init => ValueInv
<1> SUFFICES ASSUME Init PROVE ValueInv
  OBVIOUS
<1>1. /\ \A c \in Call : answer[c] = None /\ out[c].how = "none"
      /\ \A p \in Pid : shm[p] = None /\ Replies(p) = {}
  BY DEF Init, WorkerInit, Ending, Replies, Idle, Dead
<1> QED BY <1>1 DEF ValueInv, Given, Pickled, Told, Received

-----------------------------------------------------------------------------
(* A session is opened once.                                               *)

Opener(c) == Type[c] = "init_session"

\* Of the requests that open a session, one at a time is on its way to a worker,
\* and none once the client knows the session to be open.
FirstOnce ==
  /\ \A c, d \in Call : \A p, q \in live :
       /\ Opener(c) /\ Opener(d) /\ Sess(c) = Sess(d)
       /\ Involved(c, p) /\ Involved(d, q)
       => c = d
  /\ \A c \in Call : \A p \in live : Opener(c) /\ Involved(c, p) => ~Opened(c)

\* A step that moves no opener to a process, and answers none that another of the
\* session could follow.
LEMMA FirstKeeps ==
  ASSUME FirstOnce,
         \A d \in Call : \A q \in live' :
           Opener(d) /\ Involved(d, q)' => q \in live /\ Involved(d, q) /\ ~Opened(d)'
  PROVE  FirstOnce'
BY DEF FirstOnce

\* A session becomes known to be open by the answer to an opener.
LEMMA OpenedByAnswer ==
  ASSUME PoolInv, NEW c \in Call, Start(c) \/ Proceed(c) \/ Timeout(c) \/ Cancel(c),
         NEW d \in Call, ~Opened(d), Opened(d)'
  PROVE  ReceiveAnswer(c) /\ Opener(c) /\ Sess(c) = Sess(d)
<1>1. PICK i \in Call : Sess(i) = Sess(d) /\ Type[i] = "init_session" /\ out'[i].how = "ok"
  BY DEF Opened, Peers
<1>2. out[i].how # "ok"
  BY <1>1 DEF Opened, Peers
<1>3. ReceiveAnswer(c)
  BY <1>1, <1>2, OtherEndings DEF PoolInv
<1>4. i = c
  BY <1>1, <1>2, <1>3 DEF ReceiveAnswer, Leave
<1> QED BY <1>1, <1>3, <1>4 DEF Opener

\* No task opens a session again, whose first request may still be on its way.
LEMMA TaskKeepsFirst ==
  ASSUME PoolInv, PoolInv', ValueInv, FirstOnce, NEW c \in Call,
         Start(c) \/ Proceed(c) \/ Timeout(c) \/ Cancel(c)
  PROVE  FirstOnce'
<1>0. CoreInv /\ ContextInv /\ ClientOrder /\ live \subseteq Pid /\ Moves(c)
  BY ManagerMoves DEF PoolInv, IInv, ContextInv, CoreInv, TypeOK
<1>1. ASSUME ReceiveAnswer(c), NEW q \in Pid
      PROVE  ~Involved(c, q)'
  <2>1. c \in handled /\ handled' = handled
    BY <1>0, <1>1, EndsWithAnswer, ManagerPipes
  <2>2. ~Queued(c, q)'
    BY <2>1 DEF PoolInv, PipeInv, SentOnce, Queued
  <2>3. pc'[c] = "done"
    BY <1>0, <1>1 DEF ReceiveAnswer, ReleaseProcess, Woken, CoreInv, TypeOK
  <2> QED BY <2>2, <2>3 DEF Involved, Here
<1>2. ASSUME ReceiveAnswer(c)
      PROVE  Involved(c, at[c]) /\ at[c] \in live
  BY <1>0, <1>2 DEF ReceiveAnswer, Waiting, Involved, Here, CoreInv, BusyLockExcludes
\* Whatever was involved before the step is not opened by it.
<1>3. ASSUME NEW d \in Call, Opener(d), NEW q \in live, Involved(d, q), Involved(d, q)'
      PROVE  ~Opened(d)'
  <2>1. ~Opened(d)
    BY <1>3 DEF FirstOnce
  <2>2. ASSUME Opened(d)' PROVE FALSE
    <3>1. ReceiveAnswer(c) /\ Opener(c) /\ Sess(c) = Sess(d)
      BY <2>1, <2>2, OpenedByAnswer
    <3>2. d = c
      BY <1>2, <1>3, <3>1 DEF FirstOnce
    <3> QED BY <1>0, <1>1, <1>3, <3>1, <3>2
  <2> QED BY <2>2
<1>4. CASE NoNews(c)
  <2>1. live' = live
    BY <1>4 DEF NoNews
  <2>2. \A d \in Call : \A q \in live : Involved(d, q)' => Involved(d, q)
    BY <1>0, <1>4, <2>1, StaysInvolved DEF Moves
  <2> QED BY <1>3, <2>1, <2>2, FirstKeeps
<1>5. ASSUME NEW p \in live, Joins(c, p) PROVE FirstOnce'
  <2>1. live' = live /\ Takes(c, p)
    BY <1>5 DEF Joins, Takes
  <2>2. \A d \in Call : \A q \in live :
          Involved(d, q)' => Involved(d, q) \/ (d = c /\ q = p)
    BY <1>0, <2>1, StaysInvolved DEF Moves
  <2>3. Opener(c) => Involved(c, p)
    BY <1>5, RequestsAssumption DEF Joins, Opener, Sess
  <2> QED BY <1>3, <2>1, <2>2, <2>3, FirstKeeps
<1>6. ASSUME NEW p \in live, Opens(c, p) PROVE FirstOnce'
  <2>1. live' = live /\ Takes(c, p)
    BY <1>6 DEF Opens, Takes
  <2>2. \A d \in Call : \A q \in live :
          Involved(d, q)' => Involved(d, q) \/ (d = c /\ q = p)
    BY <1>0, <2>1, StaysInvolved DEF Moves
  <2>3. CASE ~Opener(c)
    BY <1>3, <2>1, <2>2, <2>3, FirstKeeps
  <2>4. CASE Opener(c)
    <3>1. ~Opened(c) /\ ~Ended(Sess(c)) /\ Sess(c) \in Session /\ sessions[Sess(c)] = None
      BY <1>6, <2>4, LinksEarly, RequestsAssumption DEF Opens, Opener, Sess
    <3>2. \A d \in Call : \A q \in live : Sess(d) = Sess(c) => ~Involved(d, q)
      BY <1>0, <3>1 DEF ContextInv, AtHome, Concerns
    <3>3. ~Opened(c)'
      <4>1. ~ReceiveAnswer(c)
        BY <1>6 DEF Opens, MayStart, ReceiveAnswer, Waiting
      <4> QED BY <3>1, <4>1, OpenedByAnswer
    <3>4. ASSUME NEW d \in Call, NEW q \in live, Opener(d), Involved(d, q)'
          PROVE  /\ ~Opened(d)'
                 /\ Sess(d) = Sess(c) => d = c /\ q = p
                 /\ Sess(d) # Sess(c) => Involved(d, q)
      BY <1>3, <2>2, <3>2, <3>3, <3>4
    <3> QED BY <2>1, <3>4 DEF FirstOnce
  <2> QED BY <2>3, <2>4
<1>7. ASSUME NEW p \in live, Breaks(c, p) PROVE FirstOnce'
  <2>1. started + 1 \in Pid
    BY <1>7 DEF Breaks, PoolInv, IInv, CoreInv, TypeOK
  <2>2. \A d \in Call : \A q \in live' : Involved(d, q)' => Involved(d, q) /\ q \in live
    BY <1>0, <1>7, <2>1, BreakLeaves DEF Moves
  <2> QED BY <1>3, <2>2, FirstKeeps
<1> QED BY <1>0, <1>4, <1>5, <1>6, <1>7 DEF Moves

\* ... and neither does any other step.
LEMMA FirstStep ==
  ASSUME PoolInv, PoolInv', ValueInv, FirstOnce, [Next]_vars
  PROVE  FirstOnce'
<1>0. live \subseteq Pid /\ TypeOK
  BY DEF PoolInv, IInv, CoreInv, TypeOK
<1>1. ASSUME NEW c \in Call, Start(c) \/ Proceed(c) \/ Timeout(c) \/ Cancel(c)
      PROVE  FirstOnce'
  BY <1>1, TaskKeepsFirst
<1>2. ASSUME UNCHANGED managerVars,
             \A d \in Call : \A q \in Pid : Queued(d, q)' => Queued(d, q)
      PROVE  FirstOnce'
  <2>1. \A d \in Call : \A q \in Pid : Involved(d, q)' => Involved(d, q)
    BY <1>2 DEF managerVars, Involved, Here
  <2>2. live' = live /\ \A d \in Call : Opened(d)' <=> Opened(d)
    BY <1>2 DEF managerVars, Opened
  <2> QED BY <1>0, <2>1, <2>2, FirstKeeps DEF FirstOnce
<1>3. ASSUME NEW p \in live, Work(p) \/ Kill(p) PROVE FirstOnce'
  <2>1. CASE \E d \in Call : Handle(p, d)
    BY <1>0, <1>2, <1>3, <2>1, HandleContext DEF Work, Kill
  <2>2. CASE Reply(p) \/ Die(p)
    <3>1. toW' = toW
      BY <2>2 DEF Reply, Die
    <3> QED BY <1>2, <1>3, <3>1 DEF Work, Kill, Queued
  <2> QED BY <1>3, <2>1, <2>2 DEF Work, Kill
<1>4. CASE UNCHANGED vars
  BY <1>2, <1>4 DEF vars, workerVars, Queued
<1> QED BY <1>1, <1>3, <1>4 DEF Next

-----------------------------------------------------------------------------
(* What the answers of a session hold.                                     *)

ImagesOf(s) == {d \in Call : Sess(d) = s /\ Type[d] = "data"}

\* c was accepted after its session had been opened.
Counted(c) == answer[c] # None /\ ~Opener(c) /\ Sess(c) # None

\* The answers of a session are what its accumulator held one after the other;
\* while there is a context, every image that was accepted is in it.
Sums ==
  /\ \A p \in Pid : \A s \in Session : ctx[p][s] # None => ctx[p][s] \subseteq ImagesOf(s)
  /\ \A c \in Call : Counted(c) =>
       /\ answer[c] \subseteq ImagesOf(Sess(c))
       /\ \A p \in live : ctx[p][Sess(c)] # None =>
            Type[c] = "data" /\ c \in ctx[p][Sess(c)] /\ answer[c] \subseteq ctx[p][Sess(c)]
       /\ \A d \in Call : Counted(d) /\ Sess(d) = Sess(c) =>
            /\ answer[c] \subseteq answer[d] \/ answer[d] \subseteq answer[c]
            /\ Type[c] = "clear" /\ HasResult(c) /\ Type[d] = "data" => d \in answer[c]

\* What the handling of d does to the answer of d and to the context of its session.
LEMMA HandleSum ==
  ASSUME PoolInv, NEW p \in Pid, NEW d \in Call, Handle(p, d)
  PROVE  \/ UNCHANGED <<ctx, answer>>
         \/ /\ Accepts(p, d) /\ ctx' = [ctx EXCEPT ![p] = Updated(p, d)]
            /\ \/ answer' = answer
               \/ answer' = [answer EXCEPT ![d] = {}] /\ ~HasResult(d)
               \/ answer' = [answer EXCEPT ![d] = Result(p, d)] /\ HasResult(d)
BY DEF Handle, Reject, FailEarly, Acknowledge, WriteResult, OverflowResult

\* A message that opens a session finds no answer of it.
LEMMA NothingCounted ==
  ASSUME PoolInv, ValueInv, FirstOnce, NEW p \in live, NEW d \in Call, Queued(d, p),
         Opener(d), NEW c \in Call, Counted(c)
  PROVE  Sess(c) # Sess(d)
<1> SUFFICES ASSUME Sess(c) = Sess(d) PROVE FALSE
  OBVIOUS
<1>1. ~Opened(d)
  BY DEF FirstOnce, Involved
<1>2. Sent(c)
  BY DEF ValueInv, Given, Counted, PoolInv, PipeInv, SentOnce
<1>3. Opened(c)
  BY <1>2 DEF PoolInv, ContextInv, ClientOrder, Counted, Opener, Sent
<1> QED BY <1>1, <1>3, SameOpened

\* A worker that adds an image, or hands out the sum, keeps the answers in line.
LEMMA HandleKeepsSums ==
  ASSUME PoolInv, ValueInv, FirstOnce, Sums, NEW p \in live, NEW d \in Call, Handle(p, d),
         UNCHANGED managerVars
  PROVE  Sums'
<1> DEFINE s == Sess(d)
           sum == ctx[p][s]
<1>0. /\ p \in Pid /\ live \subseteq Pid /\ live' = live /\ TypeOK
      /\ answer \in [Call -> {None} \cup SUBSET Call]
      /\ ctx \in [Pid -> [Session -> {None} \cup SUBSET Call]]
      /\ s \in Session \cup {None} /\ None \notin Session
      /\ \A S \in SUBSET Call : S # None
      /\ Type[d] \in {"init_session", "data", "clear"}
  BY RequestsAssumption DEF PoolInv, IInv, CoreInv, TypeOK, WorkerTypeOK, managerVars, Sess
<1>1. Queued(d, p) /\ d \notin handled
  BY <1>0, HandleContext, HandleAnswer
<1>2. answer[d] = None
  BY <1>1 DEF ValueInv, Given
<1>3. CASE UNCHANGED <<ctx, answer>>
  BY <1>0, <1>3 DEF Sums, Counted
<1>4. CASE /\ Accepts(p, d) /\ ctx' = [ctx EXCEPT ![p] = Updated(p, d)]
           /\ \/ answer' = answer
              \/ answer' = [answer EXCEPT ![d] = {}] /\ ~HasResult(d)
              \/ answer' = [answer EXCEPT ![d] = Result(p, d)] /\ HasResult(d)
  <2>1. \A c \in Call : c # d => answer'[c] = answer[c]
    BY <1>0, <1>4
  <2>2. \A q \in Pid : \A x \in Session : x # s \/ q # p => ctx'[q][x] = ctx[q][x]
    BY <1>0, <1>4 DEF Updated, Sess
  <2>3. CASE s = None
    <3>1. \A q \in Pid : \A x \in Session : ctx'[q][x] = ctx[q][x]
      BY <1>0, <2>2, <2>3
    <3>2. \A c \in Call : Counted(c)' <=> Counted(c) /\ c # d
      BY <1>2, <2>1, <2>3 DEF Counted
    <3>3. \A c \in Call : Counted(c) => Sess(c) \in Session
      BY RequestsAssumption DEF Counted, Sess
    <3> QED BY <1>0, <2>1, <3>1, <3>2, <3>3 DEF Sums
  <2>4. CASE s # None /\ Opener(d)
    <3>1. s \in Session /\ ctx'[p][s] = {}
      BY <1>0, <1>4, <2>4 DEF Updated, Sess, Opener
    <3>2. \A c \in Call : Counted(c)' <=> Counted(c) /\ c # d
      BY <1>2, <2>1, <2>4 DEF Counted
    <3>3. \A c \in Call : Counted(c) => Sess(c) # s /\ Sess(c) \in Session
      BY <1>1, <2>4, NothingCounted, RequestsAssumption DEF Counted, Sess
    <3> QED BY <1>0, <2>1, <2>2, <3>1, <3>2, <3>3 DEF Sums
  <2>5. CASE s # None /\ Type[d] = "data"
    <3>1. s \in Session /\ sum # None /\ ctx'[p][s] = sum \cup {d} /\ sum \subseteq ImagesOf(s)
      BY <1>0, <1>4, <2>5 DEF Updated, Sess, Accepts, NoSuchSession, Sums
    <3>2. Counted(d)' => answer'[d] = {} \/ answer'[d] = sum \cup {d}
      BY <1>0, <1>2, <1>4, <2>5 DEF Counted, Result, Sess
    <3>3. d \in ImagesOf(s)
      BY <2>5 DEF ImagesOf
    <3>4. \A c \in Call : Counted(c)' => c = d \/ Counted(c)
      BY <2>1 DEF Counted
    <3>5. \A c \in Call : Counted(c) => Sess(c) \in Session
      BY RequestsAssumption DEF Counted, Sess
    <3>6. \A x \in Session : \A q \in live : q # p /\ ctx[q][x] # None => x # s
      BY <1>0, <3>1 DEF PoolInv, ContextInv, OneHome, Concerns
    <3>7. \A q \in Pid : \A x \in Session : ctx'[q][x] # None => ctx'[q][x] \subseteq ImagesOf(x)
      BY <1>0, <2>2, <3>1, <3>3 DEF Sums
    <3>8. ASSUME NEW c \in Call, Counted(c)'
          PROVE  /\ answer'[c] \subseteq ImagesOf(Sess(c))
                 /\ \A q \in live : ctx'[q][Sess(c)] # None =>
                      Type[c] = "data" /\ c \in ctx'[q][Sess(c)] /\ answer'[c] \subseteq ctx'[q][Sess(c)]
      <4>1. CASE c = d
        BY <1>0, <2>2, <2>5, <3>1, <3>2, <3>3, <3>6, <3>8, <4>1
      <4>2. CASE c # d
        <5>1. Counted(c) /\ answer'[c] = answer[c] /\ Sess(c) \in Session
          BY <2>1, <3>4, <3>5, <3>8, <4>2
        <5>2. \A q \in live : ctx'[q][Sess(c)] # None =>
                ctx[q][Sess(c)] # None /\ ctx[q][Sess(c)] \subseteq ctx'[q][Sess(c)]
          BY <1>0, <2>2, <3>1, <5>1
        <5> QED BY <5>1, <5>2 DEF Sums
      <4> QED BY <4>1, <4>2
    <3>9. ASSUME NEW c \in Call, NEW e \in Call, Counted(c)', Counted(e)', Sess(e) = Sess(c)
          PROVE  /\ answer'[c] \subseteq answer'[e] \/ answer'[e] \subseteq answer'[c]
                 /\ Type[c] = "clear" /\ HasResult(c) /\ Type[e] = "data" => e \in answer'[c]
      <4>1. CASE c # d /\ e # d
        BY <2>1, <3>4, <3>9, <4>1 DEF Sums
      <4>2. ASSUME NEW x \in Call, Counted(x), Sess(x) = s
            PROVE  Type[x] = "data" /\ answer[x] \subseteq sum
        BY <3>1, <4>2 DEF Sums
      <4>3. CASE c = d
        <5>1. CASE e = d
          BY <2>5, <4>3, <5>1
        <5>2. CASE e # d
          BY <2>1, <2>5, <3>2, <3>4, <3>9, <4>2, <4>3, <5>2
        <5> QED BY <5>1, <5>2
      <4>4. CASE c # d /\ e = d
        BY <2>1, <3>2, <3>4, <3>9, <4>2, <4>4
      <4> QED BY <4>1, <4>3, <4>4
    <3> QED BY <1>0, <3>7, <3>8, <3>9 DEF Sums
  <2>6. CASE s # None /\ Type[d] = "clear"
    <3>1. s \in Session /\ ctx'[p][s] = None
      BY <1>0, <1>4, <2>6 DEF Updated, Sess
    <3>2. Counted(d)' =>
            \/ answer'[d] = {} /\ ~HasResult(d)
            \/ answer'[d] = sum /\ sum # None /\ sum \subseteq ImagesOf(s)
      BY <1>0, <1>2, <1>4, <2>6, <3>1 DEF Counted, Result, Sess, Accepts, NoSuchSession, HasResult, Sums
    <3>3. \A q \in live : ctx'[q][s] = None
      <4>1. ASSUME NEW q \in live, q # p PROVE ctx[q][s] = None
        BY <1>1, <3>1, <4>1 DEF PoolInv, ContextInv, OneHome, Concerns, Involved
      <4> QED BY <1>0, <2>2, <3>1, <4>1
    <3>4. \A c \in Call : Counted(c)' => c = d \/ Counted(c)
      BY <2>1 DEF Counted
    <3>5. \A c \in Call : Counted(c) => Sess(c) \in Session
      BY RequestsAssumption DEF Counted, Sess
    <3>7. \A q \in Pid : \A x \in Session : ctx'[q][x] # None => ctx'[q][x] \subseteq ImagesOf(x)
      BY <1>0, <2>2, <3>1 DEF Sums
    <3>8. ASSUME NEW c \in Call, Counted(c)'
          PROVE  /\ answer'[c] \subseteq ImagesOf(Sess(c))
                 /\ \A q \in live : ctx'[q][Sess(c)] # None =>
                      Type[c] = "data" /\ c \in ctx'[q][Sess(c)] /\ answer'[c] \subseteq ctx'[q][Sess(c)]
      <4>1. CASE c = d
        BY <3>2, <3>3, <3>8, <4>1
      <4>2. CASE c # d
        <5>1. Counted(c) /\ answer'[c] = answer[c] /\ Sess(c) \in Session
          BY <2>1, <3>4, <3>5, <3>8, <4>2
        <5>2. \A q \in live : ctx'[q][Sess(c)] # None => ctx'[q][Sess(c)] = ctx[q][Sess(c)]
          BY <1>0, <2>2, <3>3, <5>1
        <5> QED BY <5>1, <5>2 DEF Sums
      <4> QED BY <4>1, <4>2
    <3>9. ASSUME NEW c \in Call, NEW e \in Call, Counted(c)', Counted(e)', Sess(e) = Sess(c)
          PROVE  /\ answer'[c] \subseteq answer'[e] \/ answer'[e] \subseteq answer'[c]
                 /\ Type[c] = "clear" /\ HasResult(c) /\ Type[e] = "data" => e \in answer'[c]
      <4>1. CASE c # d /\ e # d
        BY <2>1, <3>4, <3>9, <4>1 DEF Sums
      <4>2. ASSUME NEW x \in Call, Counted(x), Sess(x) = s, sum # None
            PROVE  Type[x] = "data" /\ x \in sum /\ answer[x] \subseteq sum
        BY <3>1, <4>2 DEF Sums
      <4>3. CASE c = d
        <5>1. CASE e = d
          BY <2>6, <4>3, <5>1
        <5>2. CASE e # d
          BY <2>1, <2>6, <3>2, <3>4, <3>9, <4>2, <4>3, <5>2
        <5> QED BY <5>1, <5>2
      <4>4. CASE c # d /\ e = d
        BY <2>1, <2>6, <3>2, <3>4, <3>9, <4>2, <4>4
      <4> QED BY <4>1, <4>3, <4>4
    <3> QED BY <1>0, <3>7, <3>8, <3>9 DEF Sums
  <2> QED BY <1>0, <2>3, <2>4, <2>5, <2>6 DEF Opener
<1> QED BY <1>0, <1>3, <1>4, HandleSum

\* A task moves answers and loses contexts, but changes none.
LEMMA TaskKeepsSums ==
  ASSUME PoolInv, ValueInv, Sums, PoolInv', NEW c \in Call,
         Start(c) \/ Proceed(c) \/ Timeout(c) \/ Cancel(c)
  PROVE  Sums'
<1>0. CoreInv /\ ContextInv /\ ClientOrder /\ live \subseteq Pid /\ Moves(c)
  BY ManagerMoves DEF PoolInv, IInv, ContextInv, CoreInv, TypeOK
<1>1. answer' = answer
  BY <1>0, ManagerPipes
<1>2. \A d \in Call : Counted(d)' <=> Counted(d)
  BY <1>1 DEF Counted
<1>3. \A d \in Call : Counted(d) => Sess(d) \in Session
  BY RequestsAssumption DEF Counted, Sess
<1>4. CASE live' = live /\ ctx' = ctx
  BY <1>1, <1>2, <1>4 DEF Sums
<1>5. ASSUME NEW p \in live, Breaks(c, p) PROVE Sums'
  <2>1. started + 1 \in Pid
    BY <1>5 DEF Breaks, PoolInv, IInv, CoreInv, TypeOK
  <2>2. \A q \in live' : \A s \in Session :
          ctx'[q][s] # None => ctx'[q] = ctx[q] /\ q \in live
    BY <1>0, <1>5, <2>1, BreakLeaves DEF Moves
  <2>3. \A q \in Pid : \A s \in Session : ctx'[q][s] # None => ctx'[q] = ctx[q]
    BY <1>0, <1>5 DEF Breaks, NoContexts, CoreInv, TypeOK, WorkerTypeOK
  <2>4. live' \subseteq Pid
    BY DEF PoolInv, IInv, CoreInv, TypeOK
  <2> QED BY <1>1, <1>2, <1>3, <2>2, <2>3, <2>4 DEF Sums
<1> QED BY <1>0, <1>4, <1>5 DEF Moves, NoNews, Joins, Opens, Takes

\* No step takes an image out of a sum.
LEMMA SumStep ==
  ASSUME PoolInv, PoolInv', ValueInv, FirstOnce, Sums, [Next]_vars
  PROVE  Sums'
<1>1. ASSUME NEW c \in Call, Start(c) \/ Proceed(c) \/ Timeout(c) \/ Cancel(c)
      PROVE  Sums'
  BY <1>1, TaskKeepsSums
<1>2. ASSUME UNCHANGED <<answer, ctx, live>> PROVE Sums'
  BY <1>2 DEF Sums, Counted
<1>3. ASSUME NEW p \in live, Work(p) \/ Kill(p) PROVE Sums'
  <2>1. CASE \E d \in Call : Handle(p, d)
    BY <1>3, <2>1, HandleKeepsSums DEF Work, Kill
  <2>2. CASE Reply(p) \/ Die(p)
    BY <1>2, <1>3, <2>2 DEF Work, Kill, Reply, Die, managerVars
  <2> QED BY <1>3, <2>1, <2>2 DEF Work, Kill
<1>4. CASE UNCHANGED vars
  BY <1>2, <1>4 DEF vars, managerVars, workerVars
<1> QED BY <1>1, <1>3, <1>4 DEF Next

\* The pool's inductive invariant, with what its answers hold.
FullInv == PoolInv /\ ValueInv /\ FirstOnce /\ Sums

LEMMA FullInit == Init => FullInv
<1>1. Init => PoolInv
  BY PoolInit
<1>2. Init => FirstOnce /\ Sums
  <2> SUFFICES ASSUME Init PROVE FirstOnce /\ Sums
    OBVIOUS
  <2>1. /\ \A p \in Pid : toW[p] = <<>> /\ ctx[p] = NoContexts
        /\ \A c \in Call : pc[c] = "new" /\ answer[c] = None
        /\ live \subseteq Pid
    BY ManagerAssumption, RequestsAssumption DEF Init, WorkerInit, Pid
  <2> QED BY <2>1 DEF FirstOnce, Sums, Counted, Involved, Queued, Here, NoContexts
<1> QED BY <1>1, <1>2, ValueInit DEF FullInv

LEMMA FullStep == FullInv /\ [Next]_vars => FullInv'
<1> SUFFICES ASSUME FullInv, [Next]_vars PROVE FullInv'
  OBVIOUS
<1>1. PoolInv'
  BY PoolStep DEF FullInv
<1>2. ValueInv'
  BY <1>1, ValueStep DEF FullInv, PoolInv, IInv
<1> QED BY <1>1, <1>2, FirstStep, SumStep DEF FullInv

\* All of it holds in every state of the pool.
THEOREM FullInvariant == Spec => []FullInv
BY FullInit, FullStep, PTL DEF Spec

\* The results of a session hold images of that session only, grow from one to the
\* next, and the final sum holds every image the client was told is in it: for any
\* number of images in flight at once, and whatever is cancelled or times out.
THEOREM ResultsAddUp == Spec => []SessionResults
<1>1. FullInv => SessionResults
  <2> SUFFICES ASSUME FullInv, NEW c \in Call, NEW d \in Call, Sess(c) # None, Sess(c) = Sess(d),
                      out[c].how = "ok", out[d].how = "ok"
               PROVE  /\ out[c].data \subseteq Peers(c, "data")
                      /\ HasResult(c) /\ HasResult(d) =>
                           out[c].data \subseteq out[d].data \/ out[d].data \subseteq out[c].data
                      /\ HasResult(c) /\ Type[c] = "clear" /\ Type[d] = "data" => d \in out[c].data
    BY DEF SessionResults
  <2>1. /\ out[c].data = answer[c] /\ answer[c] # None /\ (~HasResult(c) => answer[c] = {})
        /\ out[d].data = answer[d] /\ answer[d] # None
    BY DEF FullInv, ValueInv, Received, Given
  <2>2. \A e \in Call : Sess(e) # None /\ HasResult(e) => ~Opener(e)
    BY DEF HasResult, Opener, Sess
  <2>3. CASE Opener(c)
    BY <2>1, <2>2, <2>3 DEF Opener
  <2>4. CASE ~Opener(c)
    <3>1. Counted(c) /\ answer[c] \subseteq ImagesOf(Sess(c))
      BY <2>1, <2>4 DEF Counted, FullInv, Sums
    <3>2. ImagesOf(Sess(c)) = Peers(c, "data")
      BY DEF ImagesOf, Peers
    <3>3. ~Opener(d) => Counted(d)
      BY <2>1 DEF Counted
    <3>4. Type[d] = "data" => ~Opener(d)
      BY DEF Opener
    <3> QED BY <2>1, <2>2, <3>1, <3>2, <3>3, <3>4 DEF FullInv, Sums
  <2> QED BY <2>3, <2>4
<1> QED BY <1>1, FullInvariant, PTL

-----------------------------------------------------------------------------
(* The pool implements SessionService.                                     *)

\* The context that is chosen for a session is the only one there is.
LEMMA OnlyContext ==
  ASSUME NEW S, NEW f, NEW s, NEW p \in S, \A q \in S : f[q][s] # None => q = p
  PROVE  (IF \E q \in S : f[q][s] # None THEN f[CHOOSE q \in S : f[q][s] # None][s] ELSE None)
           = f[p][s]
<1>1. CASE f[p][s] # None
  <2>1. (CHOOSE q \in S : f[q][s] # None) = p
    BY <1>1
  <2> QED BY <1>1, <2>1
<1>2. CASE f[p][s] = None
  BY <1>2
<1> QED BY <1>1, <1>2

\* The process a message is sent to has the context, if there is one.
LEMMA StoreHere ==
  ASSUME PoolInv, NEW p \in live, NEW s \in Session, Concerns(p, s)
  PROVE  /\ Store[s] = ctx[p][s]
         /\ \A q \in live : ctx[q][s] # None => q = p
<1>1. \A q \in live : ctx[q][s] # None => q = p
  BY DEF PoolInv, ContextInv, OneHome, Concerns
<1>2. Store[s] = IF \E q \in live : ctx[q][s] # None
                   THEN ctx[CHOOSE q \in live : ctx[q][s] # None][s] ELSE None
  BY DEF Store
<1> QED BY <1>1, <1>2, OnlyContext

\* A session whose contexts do not change keeps its accumulator.
LEMMA StoreKeeps ==
  ASSUME PoolInv, live' = live, NEW s \in Session, \A q \in live : ctx'[q][s] = ctx[q][s]
  PROVE  Store'[s] = Store[s]
<1>1. /\ Store'[s] = IF \E q \in live' : ctx'[q][s] # None
                       THEN ctx'[CHOOSE q \in live' : ctx'[q][s] # None][s] ELSE None
      /\ Store[s] = IF \E q \in live : ctx[q][s] # None
                      THEN ctx[CHOOSE q \in live : ctx[q][s] # None][s] ELSE None
  BY DEF Store
<1>2. CASE \E q \in live : ctx[q][s] # None
  <2>1. PICK p \in live : ctx[p][s] # None
    BY <1>2
  <2>2. \A q \in live : ctx[q][s] # None => q = p
    BY <2>1 DEF PoolInv, ContextInv, OneHome, Concerns
  <2>3. \A q \in live' : ctx'[q][s] # None => q = p
    BY <2>2
  <2>4. Store[s] = ctx[p][s]
    BY <1>1, <2>2, OnlyContext
  <2>5. Store'[s] = ctx'[p][s]
    BY <1>1, <2>3, OnlyContext
  <2> QED BY <2>4, <2>5
<1>3. CASE ~\E q \in live : ctx[q][s] # None
  BY <1>1, <1>3
<1> QED BY <1>2, <1>3

\* What its clients see of a step of the task of c.
LEMMA TaskSeen ==
  ASSUME PoolInv, PoolInv', NEW c \in Call, Undisturbed(c), Lives(c)
  PROVE  /\ Phase' = [Phase EXCEPT ![c] = IF pc'[c] # "done" THEN "pending"
                                          ELSE IF out'[c].how = "ok" THEN "ok" ELSE "failed"]
         /\ Phase[c] = IF pc[c] = "new" THEN "new" ELSE "pending"
         /\ Replied' = [Replied EXCEPT ![c] = IF out'[c].how = "ok" THEN out'[c].data ELSE {}]
         /\ Replied[c] = {} /\ out[c].how # "ok"
<1>1. pc[c] # "done" /\ pc'[c] # "new" /\ out[c].how # "ok"
  BY DEF PoolInv, ContextInv, ClientOrder, Lives
<1>2. \A d \in Call : d # c => Phase'[d] = Phase[d] /\ Replied'[d] = Replied[d]
  BY DEF Undisturbed, Phase, Replied
<1>3. /\ Phase'[c] = IF pc'[c] # "done" THEN "pending"
                     ELSE IF out'[c].how = "ok" THEN "ok" ELSE "failed"
      /\ Phase[c] = IF pc[c] = "new" THEN "new" ELSE "pending"
  BY <1>1 DEF Phase
<1>4. /\ Replied'[c] = IF out'[c].how = "ok" THEN out'[c].data ELSE {}
      /\ Replied[c] = {}
  BY <1>1 DEF Replied
<1>5. Phase = [d \in Call |-> Phase[d]] /\ Phase' = [d \in Call |-> Phase'[d]]
  BY DEF Phase
<1>6. Replied = [d \in Call |-> Replied[d]] /\ Replied' = [d \in Call |-> Replied'[d]]
  BY DEF Replied
<1>7. Phase' = [Phase EXCEPT ![c] = Phase'[c]]
  BY <1>2, <1>5
<1>8. Replied' = [Replied EXCEPT ![c] = Replied'[c]]
  BY <1>2, <1>6
<1> QED BY <1>1, <1>3, <1>4, <1>7, <1>8

\* A restart loses the sessions of the process, and no other.
LEMMA BreakLoses ==
  ASSUME PoolInv, PoolInv', NEW c \in Call, NEW p \in live, Undisturbed(c), Breaks(c, p)
  PROVE  Store' = [s \in Session |->
                     IF s \in {x \in Session : ctx[p][x] # None} THEN None ELSE Store[s]]
<1>0. CoreInv /\ ContextInv /\ started + 1 \in Pid /\ live' = (live \ {p}) \cup {started + 1}
  BY DEF PoolInv, IInv, Breaks, CoreInv, TypeOK
<1>1. \A q \in live' : ctx'[q] = ctx[q]
  BY <1>0, BreakLeaves
<1>2. \A q \in live' : \A s \in Session : ctx'[q][s] # None => q \in live /\ q # p
  BY <1>0, BreakLeaves
<1>3. ASSUME NEW s \in Session
      PROVE  Store'[s] = IF ctx[p][s] # None THEN None ELSE Store[s]
  <2>0. /\ Store'[s] = IF \E q \in live' : ctx'[q][s] # None
                         THEN ctx'[CHOOSE q \in live' : ctx'[q][s] # None][s] ELSE None
        /\ Store[s] = IF \E q \in live : ctx[q][s] # None
                        THEN ctx[CHOOSE q \in live : ctx[q][s] # None][s] ELSE None
    BY DEF Store
  <2>1. CASE \E q \in live' : ctx'[q][s] # None
    <3>1. PICK q \in live' : ctx'[q][s] # None
      BY <2>1
    <3>2. q \in live /\ q # p /\ ctx'[q] = ctx[q]
      BY <1>1, <1>2, <3>1
    <3>3. \A r \in live : ctx[r][s] # None => r = q
      BY <1>0, <3>1, <3>2 DEF ContextInv, OneHome, Concerns
    <3>4. \A r \in live' : ctx'[r][s] # None => r = q
      BY <1>1, <1>2, <3>3
    <3>5. Store'[s] = ctx'[q][s]
      BY <2>0, <3>4, OnlyContext
    <3>6. Store[s] = ctx[q][s]
      BY <2>0, <3>2, <3>3, OnlyContext
    <3> QED BY <3>2, <3>3, <3>5, <3>6
  <2>2. CASE ~\E q \in live' : ctx'[q][s] # None
    <3>1. \A q \in live : ctx[q][s] # None => q = p
      BY <1>0, <1>1, <2>2
    <3> QED BY <2>0, <2>2, <3>1
  <2> QED BY <2>1, <2>2
<1> QED BY <1>3 DEF Store

\* A step of a task is a request, an answer or a failure, or it is not seen.
LEMMA TaskImplements ==
  ASSUME FullInv, PoolInv', NEW c \in Call,
         Start(c) \/ Proceed(c) \/ Timeout(c) \/ Cancel(c)
  PROVE  \/ Service!ServiceNext
         \/ UNCHANGED Service!serviceVars
<1>0. PoolInv /\ ValueInv /\ IInv /\ CoreInv /\ ClientOrder /\ Moves(c) /\ Undisturbed(c) /\ Lives(c)
  BY ManagerMoves DEF FullInv, PoolInv, ContextInv, IInv, Moves
<1>1. handled' = handled /\ answer' = answer
  BY <1>0, ManagerPipes
<1>2. /\ Phase' = [Phase EXCEPT ![c] = IF pc'[c] # "done" THEN "pending"
                                       ELSE IF out'[c].how = "ok" THEN "ok" ELSE "failed"]
      /\ Phase[c] = IF pc[c] = "new" THEN "new" ELSE "pending"
      /\ Replied' = [Replied EXCEPT ![c] = IF out'[c].how = "ok" THEN out'[c].data ELSE {}]
      /\ Replied[c] = {} /\ out[c].how # "ok"
  BY <1>0, TaskSeen
<1>3. /\ Phase = [d \in Call |-> Phase[d]] /\ Replied = [d \in Call |-> Replied[d]]
      /\ Store = [s \in Session |-> Store[s]]
  BY DEF Phase, Replied, Store
<1>4. Store' = Store \/ \E p \in live : Breaks(c, p)
  BY <1>0 DEF Moves, NoNews, Joins, Opens, Takes, Store
<1>5. CASE pc'[c] # "done"
  <2>1. out'[c] = out[c]
    BY <1>0, <1>5 DEF Lives
  <2>2. Store' = Store
    BY <1>4, <1>5 DEF Breaks
  <2>3. Replied' = Replied
    BY <1>2, <1>3, <2>1
  <2>4. CASE pc[c] = "new"
    <3>1. Service!Submit(c)
      BY <1>1, <1>2, <1>5, <2>2, <2>3, <2>4 DEF Service!Submit
    <3> QED BY <3>1 DEF Service!ServiceNext
  <2>5. CASE pc[c] # "new"
    <3>1. Phase' = Phase
      BY <1>2, <1>3, <1>5, <2>5
    <3> QED BY <1>1, <2>2, <2>3, <3>1 DEF Service!serviceVars
  <2> QED BY <2>4, <2>5
<1>6. CASE pc'[c] = "done" /\ out'[c].how = "ok"
  <2>1. ReceiveAnswer(c)
    BY <1>0, <1>2, <1>6, OtherEndings
  <2>2. pc[c] = "wait" /\ answer[c] # None /\ out'[c].data = answer[c]
    BY <1>0, <1>6, <2>1, EndsWithAnswer
  <2>3. Store' = Store
    BY <2>1 DEF ReceiveAnswer, pipeVars, Store
  <2>4. Service!Answer(c)
    BY <1>1, <1>2, <1>6, <2>2, <2>3 DEF Service!Answer
  <2> QED BY <2>4 DEF Service!ServiceNext
<1>7. CASE pc'[c] = "done" /\ out'[c].how # "ok"
  <2>1. Phase[c] \in {"new", "pending"} /\ Phase' = [Phase EXCEPT ![c] = "failed"]
    BY <1>2, <1>7
  <2>2. Replied' = Replied
    BY <1>2, <1>3, <1>7
  <2>3. \E lost \in SUBSET Session :
          Store' = [s \in Session |-> IF s \in lost THEN None ELSE Store[s]]
    <3>1. CASE Store' = Store
      <4> DEFINE lost == {}
      <4>1. lost \in SUBSET Session /\ \A s \in Session : s \notin lost
        OBVIOUS
      <4> HIDE DEF lost
      <4>2. [s \in Session |-> IF s \in lost THEN None ELSE Store[s]] = [s \in Session |-> Store[s]]
        BY <4>1
      <4> QED BY <1>3, <3>1, <4>1, <4>2
    <3>2. CASE \E p \in live : Breaks(c, p)
      <4>1. PICK p \in live : Breaks(c, p)
        BY <3>2
      <4> DEFINE lost == {x \in Session : ctx[p][x] # None}
      <4>2. lost \in SUBSET Session
        OBVIOUS
      <4>3. Store' = [s \in Session |-> IF s \in lost THEN None ELSE Store[s]]
        BY <1>0, <4>1, BreakLoses
      <4> HIDE DEF lost
      <4> QED BY <4>2, <4>3
    <3> QED BY <1>4, <3>1, <3>2
  <2>4. \E lost \in SUBSET Session : Service!Fail(c, lost)
    BY <1>1, <2>1, <2>2, <2>3 DEF Service!Fail
  <2> QED BY <2>4 DEF Service!ServiceNext
<1> QED BY <1>5, <1>6, <1>7

\* The worker does to the accumulator of the request's session what the service does.
LEMMA AcceptImplements ==
  ASSUME FullInv, NEW p \in live, NEW d \in Call, Accepts(p, d), Sess(d) # None,
         Queued(d, p), live' = live, ctx' = [ctx EXCEPT ![p] = Updated(p, d)]
  PROVE  /\ Service!Effect(d, Sess(d))
         /\ ~HasResult(d) => Service!Answered(d, Store[Sess(d)]) = {}
         /\ HasResult(d) => Service!Answered(d, Store[Sess(d)]) = Result(p, d)
<1> DEFINE s == Sess(d)
<1>0. /\ p \in Pid /\ s \in Session /\ s = SessionOf[d] /\ live \subseteq Pid
      /\ ctx \in [Pid -> [Session -> {None} \cup SUBSET Call]]
      /\ Type[d] \in {"init_session", "data", "clear"}
      /\ SI \subseteq Session
  BY RequestsAssumption DEF FullInv, PoolInv, IInv, CoreInv, TypeOK, WorkerTypeOK, Sess
<1>1. Concerns(p, s)
  BY DEF Concerns, Involved
<1>2. Store[s] = ctx[p][s] /\ \A q \in live : ctx[q][s] # None => q = p
  BY <1>0, <1>1, StoreHere DEF FullInv
<1>3. /\ \A q \in live : q # p => ctx'[q] = ctx[q]
      /\ \A x \in Session : x # s => ctx'[p][x] = ctx[p][x]
  BY <1>0 DEF Updated
<1>4. Store'[s] = ctx'[p][s]
  <2>1. \A q \in live : ctx'[q][s] # None => q = p
    BY <1>2, <1>3
  <2>2. Store'[s] = IF \E q \in live' : ctx'[q][s] # None
                      THEN ctx'[CHOOSE q \in live' : ctx'[q][s] # None][s] ELSE None
    BY <1>0 DEF Store
  <2> QED BY <2>1, <2>2, OnlyContext
<1>5. \A x \in Session : x # s => Store'[x] = Store[x]
  BY <1>3, StoreKeeps DEF FullInv
<1>6. Store' = [Store EXCEPT ![s] = ctx'[p][s]]
  BY <1>0, <1>4, <1>5 DEF Store
<1>7. /\ Type[d] = "init_session" => ctx[p][s] = None /\ ctx'[p][s] = {}
      /\ Type[d] = "data" => ctx[p][s] # None /\ ctx'[p][s] = ctx[p][s] \cup {d}
      /\ Type[d] = "clear" => (HasResult(d) => ctx[p][s] # None) /\ ctx'[p][s] = None
  BY <1>0 DEF Updated, Accepts, NoSuchSession, HasResult
<1>8. Service!HasResult(d) <=> HasResult(d)
  BY DEF Service!HasResult, HasResult
<1>9. Service!Effect(d, s)
  BY <1>0, <1>2, <1>6, <1>7, <1>8 DEF Service!Effect
<1>10. ~HasResult(d) => Service!Answered(d, Store[s]) = {}
  BY <1>8, Zenon DEF Service!Answered
<1>11. HasResult(d) => Service!Answered(d, Store[s]) = Result(p, d)
  <2> SUFFICES ASSUME HasResult(d) PROVE Service!Answered(d, Store[s]) = Result(p, d)
    OBVIOUS
  <2>1. CASE Type[d] = "clear"
    BY <1>0, <1>2, <1>8, <2>1 DEF Service!Answered, Result
  <2>2. CASE Type[d] # "clear"
    BY <1>0, <1>2, <1>8, <2>2 DEF Service!Answered, Result
  <2> QED BY <2>1, <2>2
<1> QED BY <1>9, <1>10, <1>11

\* The handling of a message is the moment its request takes effect.
LEMMA HandleImplements ==
  ASSUME FullInv, NEW p \in live, NEW d \in Call, Handle(p, d), UNCHANGED managerVars
  PROVE  Service!Apply(d)
<1>0. p \in Pid /\ TypeOK /\ PoolInv /\ PipeInv /\ live' = live
  BY DEF FullInv, PoolInv, IInv, CoreInv, TypeOK, managerVars
<1>1. Queued(d, p)
  BY <1>0, HandleContext
<1>2. d \notin handled /\ handled' = handled \cup {d} /\ Sent(d)
  BY <1>0, <1>1, HandleAnswer, QueuedIsFresh
<1>3. Phase[d] # "new"
  BY <1>2 DEF Phase, Sent
<1>4. Phase' = Phase /\ Replied' = Replied
  BY DEF Phase, Replied, managerVars
<1>5. CASE UNCHANGED <<ctx, answer>>
  <2>1. Store' = Store
    BY <1>0, <1>5 DEF Store
  <2> QED BY <1>2, <1>3, <1>4, <1>5, <2>1 DEF Service!Apply
<1>6. CASE /\ Accepts(p, d) /\ ctx' = [ctx EXCEPT ![p] = Updated(p, d)]
           /\ \/ answer' = answer
              \/ answer' = [answer EXCEPT ![d] = {}] /\ ~HasResult(d)
              \/ answer' = [answer EXCEPT ![d] = Result(p, d)] /\ HasResult(d)
  <2>1. CASE Sess(d) = None
    <3>1. HasResult(d) /\ Result(p, d) = {d}
      BY <2>1 DEF HasResult, Result, Sess
    <3>2. Store' = Store
      <4>1. ctx' = ctx
        BY <1>0, <1>6, <2>1 DEF Updated, Sess, TypeOK, WorkerTypeOK
      <4> QED BY <1>0, <4>1 DEF Store
    <3>3. UNCHANGED <<Store, answer>> \/ answer' = [answer EXCEPT ![d] = {d}]
      BY <1>6, <3>1, <3>2
    <3> QED BY <1>2, <1>3, <1>4, <2>1, <3>2, <3>3 DEF Service!Apply, Sess
  <2>2. CASE Sess(d) # None
    <3>1. /\ Service!Effect(d, Sess(d))
          /\ ~HasResult(d) => Service!Answered(d, Store[Sess(d)]) = {}
          /\ HasResult(d) => Service!Answered(d, Store[Sess(d)]) = Result(p, d)
      BY <1>0, <1>1, <1>6, <2>2, AcceptImplements
    <3>2. answer' \in {answer, [answer EXCEPT ![d] = Service!Answered(d, Store[Sess(d)])]}
      BY <1>6, <3>1
    <3> QED BY <1>2, <1>3, <1>4, <2>2, <3>1, <3>2 DEF Service!Apply, Sess
  <2> QED BY <2>1, <2>2
<1> QED BY <1>0, <1>5, <1>6, HandleSum

LEMMA InitImplements == Init => Service!ServiceInit
<1> SUFFICES ASSUME Init PROVE Service!ServiceInit
  OBVIOUS
<1>1. /\ pc = [c \in Call |-> "new"] /\ \A c \in Call : out[c].how = "none"
      /\ handled = {} /\ answer = [c \in Call |-> None]
  BY DEF Init, WorkerInit, Ending
<1>2. live \subseteq Pid /\ \A p \in Pid : ctx[p] = NoContexts
  BY ManagerAssumption, RequestsAssumption DEF Init, WorkerInit, Pid
<1>3. Phase = [c \in Call |-> "new"] /\ Replied = [c \in Call |-> {}]
  BY <1>1 DEF Phase, Replied
<1>4. Store = [s \in Session |-> None]
  BY <1>2 DEF Store, NoContexts
<1> QED BY <1>1, <1>3, <1>4 DEF Service!ServiceInit

LEMMA NextImplements ==
  FullInv /\ FullInv' /\ [Next]_vars => [Service!ServiceNext]_(Service!serviceVars)
<1> SUFFICES ASSUME FullInv, FullInv', [Next]_vars
             PROVE  Service!ServiceNext \/ UNCHANGED Service!serviceVars
  OBVIOUS
<1>1. ASSUME NEW c \in Call, Start(c) \/ Proceed(c) \/ Timeout(c) \/ Cancel(c)
      PROVE  Service!ServiceNext \/ UNCHANGED Service!serviceVars
  BY <1>1, TaskImplements DEF FullInv
<1>2. ASSUME NEW p \in live, Work(p) \/ Kill(p)
      PROVE  Service!ServiceNext \/ UNCHANGED Service!serviceVars
  <2>1. UNCHANGED managerVars
    BY <1>2 DEF Work, Kill
  <2>2. CASE \E d \in Call : Handle(p, d)
    BY <2>1, <2>2, HandleImplements DEF Service!ServiceNext
  <2>3. CASE Reply(p) \/ Die(p)
    BY <2>1, <2>3 DEF Reply, Die, managerVars, Service!serviceVars, Phase, Store, Replied
  <2> QED BY <1>2, <2>2, <2>3 DEF Work, Kill
<1>3. CASE UNCHANGED vars
  BY <1>3 DEF vars, managerVars, workerVars, Service!serviceVars, Phase, Store, Replied
<1> QED BY <1>1, <1>2, <1>3 DEF Next

\* The pool is one accumulator per session: each request takes effect at most once, at
\* the moment a worker handles it and after it was made, and whoever is answered is
\* answered with the value of that moment; sessions are lost only when a request fails,
\* and as a whole.  The search, the locks, the pipes and the restarts are not seen.
THEOREM PoolImplementsService == Spec => ImplementsService
BY InitImplements, NextImplements, FullInvariant, PTL
DEF Spec, ImplementsService, Service!ServiceSpec

=============================================================================
