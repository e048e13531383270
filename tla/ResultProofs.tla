---------------------------- MODULE ResultProofs -----------------------------
(***************************************************************************)
(* Why a request that ends well ends with its own result.  A result is read*)
(* from the shared memory as soon as its notice is taken out of the pipe,  *)
(* and nothing compares what is in the memory with the request.  It is the *)
(* right one because the request that holds a process is the last one sent *)
(* down its pipe: once the worker has written that result, it has nothing  *)
(* left to write until the process is given back.                          *)
(***************************************************************************)
EXTENDS WorkerManagerProofs

\* A call that is in a pipe, or past it, has been sent by its task.
Sent(c) == pc[c] \in {"wait", "done"}

\* Calls are handled once: a call in a pipe has not been handled, and is in one
\* place of one pipe.
SentOnce ==
  /\ \A c \in handled : Sent(c)
  /\ \A p \in Pid : \A i \in 1..Len(toW[p]) : Sent(toW[p][i]) /\ toW[p][i] \notin handled
  /\ \A p, q \in Pid : \A i \in 1..Len(toW[p]) : \A j \in 1..Len(toW[q]) :
       toW[p][i] = toW[q][j] => p = q /\ i = j

\* The holder of a process is the last call in its pipe.
HolderLast ==
  \A c \in Call : pc[c] = "wait" /\ toW[at[c]] # <<>> =>
    toW[at[c]][Len(toW[at[c]])] = c

\* A notice of the holder's own result finds it in the memory.
NoticeFresh ==
  \A c \in Call : \A p \in Pid : pc[c] = "wait" /\ at[c] = p =>
    \A m \in Replies(p) :
      m.type = "check_shared_memory" /\ m.of = c => shm[p].of = c

PipeInv == SentOnce /\ HolderLast /\ NoticeFresh

\* What one step of the task of c does to the pipes: it sends c down the pipe of
\* the process it has seized, or sends nothing.
Sends(c, p) ==
  /\ ~Sent(c)
  /\ pc'[c] = "wait" /\ at'[c] = p
  /\ toW' = [toW EXCEPT ![p] = Append(@, c)]
  /\ toM'[p] = <<>>
  /\ shm' = shm /\ worker' = worker

SendsNothing(c) ==
  /\ \A q \in Pid : toW'[q] = toW[q] \/ toW'[q] = <<>>
  /\ pc'[c] = "wait" => pc[c] = "wait" /\ at'[c] = at[c]
  /\ Sent(c) => pc'[c] = "done" \/ (pc'[c] = "wait" /\ pc[c] = "wait")

OthersStay(c) ==
  \A d \in Call : d # c =>
    /\ at'[d] = at[d]
    /\ pc'[d] = "wait" <=> pc[d] = "wait"
    /\ Sent(d) <=> pc'[d] \in {"wait", "done"}

-----------------------------------------------------------------------------
\* The task of c sends its own call, once, or nothing, and moves nobody else
\* into or out of a wait.
LEMMA ManagerSends ==
  ASSUME CoreInv, NEW c \in Call,
         Start(c) \/ Proceed(c) \/ Timeout(c) \/ Cancel(c)
  PROVE  /\ OthersStay(c)
         /\ SendsNothing(c) \/ \E p \in live : Sends(c, p)
<1> USE DEF CoreInv, TypeOK, WorkerTypeOK, Sent
<1>1. ASSUME NEW p \in live, Seize(c, p), ~Sent(c)
      PROVE  OthersStay(c) /\ (SendsNothing(c) \/ \E q \in live : Sends(c, q))
  <2>1. CASE Available(busy[p])
    <3>1. OthersStay(c)
      BY <1>1, <2>1 DEF Seize, OthersStay
    <3>2. Sends(c, p)
      BY <1>1, <2>1 DEF Seize, Sends, pipeVars
    <3> QED BY <3>1, <3>2
  <2>2. CASE ~Available(busy[p])
    BY <1>1, <2>2 DEF Seize, OthersStay, SendsNothing
  <2> QED BY <2>1, <2>2
<1>2. ASSUME pc' = [pc EXCEPT ![c] = "done"], at' = [at EXCEPT ![c] = 0], toW' = toW
      PROVE  OthersStay(c) /\ SendsNothing(c)
  BY <1>2 DEF OthersStay, SendsNothing
<1>3. ASSUME pc[c] = "wait", ReleaseProcess(c), at' = [at EXCEPT ![c] = 0],
             \A q \in Pid : toW'[q] = toW[q] \/ toW'[q] = <<>>
      PROVE  OthersStay(c) /\ SendsNothing(c)
  <2>1. pc'[c] = "done"
    BY <1>3 DEF ReleaseProcess, Woken
  <2>2. \A d \in Call : d # c => /\ pc'[d] = "wait" <=> pc[d] = "wait"
                                 /\ pc'[d] = "done" <=> pc[d] = "done"
    BY <1>3 DEF ReleaseProcess, Woken
  <2> QED BY <1>3, <2>1, <2>2 DEF OthersStay, SendsNothing
<1>4. ASSUME NEW ending, pc[c] = "wait", Break(c, ending)
      PROVE  OthersStay(c) /\ SendsNothing(c)
  <2>1. \A q \in Pid : toW'[q] = toW[q] \/ toW'[q] = <<>>
    BY <1>4 DEF Break, Restart
  <2> QED BY <1>3, <1>4, <2>1 DEF Break, Leave
<1>5. CASE Start(c)
  <2>0. pc[c] = "new"
    BY <1>5 DEF Start, OpenEntry, JoinEntry, QueueSearch, RefuseInit, SkipClear, StartPlain, MayStart
  <2>1. CASE \E p \in live : OpenEntry(c, p)
    BY <1>1, <2>0, <2>1 DEF OpenEntry, SeizeForSession
  <2>2. CASE JoinEntry(c)
    <3>1. sessions[Sess(c)].pid \in live
      BY <2>2, RequestsAssumption DEF JoinEntry, Sess, SessionsPointToLive
    <3> QED BY <1>1, <2>0, <2>2, <3>1 DEF JoinEntry, SeizeForSession
  <2>3. CASE QueueSearch(c) \/ RefuseInit(c) \/ SkipClear(c)
    BY <2>0, <2>3 DEF QueueSearch, RefuseInit, SkipClear, workerVars, OthersStay, SendsNothing
  <2>4. CASE StartPlain(c)
    <3>1. CASE \E p \in live : Seize(c, p)
      BY <1>1, <2>0, <3>1
    <3>2. CASE pc' = [pc EXCEPT ![c] = "parked"] /\ UNCHANGED <<at, workerVars>>
      BY <2>0, <3>2 DEF workerVars, OthersStay, SendsNothing
    <3> QED BY <2>4, <3>1, <3>2 DEF StartPlain, Scan
  <2> QED BY <1>5, <2>1, <2>2, <2>3, <2>4 DEF Start
<1>6. CASE Proceed(c)
  <2>1. CASE AcquireSearch(c)
    <3>1. sessions[Sess(c)].pid \in live
      BY <2>1, RequestsAssumption DEF AcquireSearch, Sess, SessionsPointToLive, Placement
    <3> QED BY <1>1, <2>1, <3>1 DEF AcquireSearch, SeizeForSession
  <2>2. CASE AcquireSearchLost(c) \/ AcquireStale(c)
    BY <1>2, <2>2 DEF AcquireSearchLost, AcquireStale, workerVars, Leave
  <2>3. CASE AcquireBusy(c)
    <3>1. OthersStay(c)
      BY <2>3 DEF AcquireBusy, OthersStay
    <3>2. Sends(c, at[c])
      BY <2>3 DEF AcquireBusy, Sends, pipeVars
    <3> QED BY <2>3, <3>1, <3>2 DEF AcquireBusy
  <2>4. CASE Wake(c)
    <3>1. CASE \E p \in live : Seize(c, p)
      BY <1>1, <2>4, <3>1 DEF Wake
    <3>2. CASE pc' = [pc EXCEPT ![c] = "parked"] /\ UNCHANGED <<at, workerVars>>
      BY <2>4, <3>2 DEF Wake, workerVars, OthersStay, SendsNothing
    <3> QED BY <2>4, <3>1, <3>2 DEF Wake, Scan
  <2>5. CASE ReceiveAnswer(c) \/ ReceiveException(c)
    BY <1>3, <2>5 DEF ReceiveAnswer, ReceiveException, Waiting, Leave
  <2>6. CASE ReceiveOSError(c) \/ TooManyForeign(c)
    BY <1>4, <2>6 DEF ReceiveOSError, TooManyForeign, Waiting
  <2>7. CASE SkipForeign(c)
    BY <2>7 DEF SkipForeign, Waiting, OthersStay, SendsNothing
  <2> QED BY <1>6, <2>1, <2>2, <2>3, <2>4, <2>5, <2>6, <2>7 DEF Proceed
<1>7. CASE Timeout(c) \/ Cancel(c)
  <2>1. CASE HungTimeout(c)
    BY <1>4, <2>1 DEF HungTimeout
  <2>2. CASE ObtainTimeout(c) \/ CancelQueued(c)
    <3>1. PICK how : LeaveQueue(c, how)
      BY <2>2 DEF ObtainTimeout, CancelQueued
    <3> QED BY <1>2, <3>1 DEF LeaveQueue, Leave, workerVars
  <2>3. CASE CancelWaiting(c)
    BY <1>3, <2>3 DEF CancelWaiting, Leave, workerVars
  <2> QED BY <1>7, <2>1, <2>2, <2>3 DEF Timeout, Cancel
<1> QED BY <1>5, <1>6, <1>7

\* No call has been sent in the initial state.
LEMMA PipeInit == Init => PipeInv
<1> SUFFICES ASSUME Init PROVE PipeInv
  OBVIOUS
<1>1. \A p \in Pid : toW[p] = <<>>
  BY DEF Init, WorkerInit
<1>2. \A c \in Call : pc[c] # "wait"
  BY DEF Init
<1>3. handled = {}
  BY DEF Init, WorkerInit
<1> QED BY <1>1, <1>2, <1>3 DEF PipeInv, SentOnce, HolderLast, NoticeFresh

\* A step that sends nothing keeps what is known of the pipes.
LEMMA NothingSent ==
  ASSUME IInv, PipeInv, CoreInv', NEW c \in Call, OthersStay(c), SendsNothing(c),
         handled' = handled,
         \A q \in Pid : /\ Replies(q)' \subseteq Replies(q)
                        /\ shm'[q] = shm[q] \/ Replies(q)' = {}
  PROVE  PipeInv'
<1>1. \A d \in Call : Sent(d) => Sent(d)'
  BY DEF OthersStay, SendsNothing, Sent
<1>2. \A d \in Call : pc'[d] = "wait" => pc[d] = "wait" /\ at'[d] = at[d]
  BY DEF OthersStay, SendsNothing
<1>3. \A q \in Pid : toW'[q] = toW[q] \/ toW'[q] = <<>>
  BY DEF SendsNothing
<1>4. \A q \in Pid : toW[q] \in Seq(Call)
  BY DEF IInv, CoreInv, TypeOK, WorkerTypeOK
<1>5. SentOnce'
  <2>1. \A d \in handled' : Sent(d)'
    BY <1>1 DEF PipeInv, SentOnce, IInv, CoreInv, TypeOK, WorkerTypeOK
  <2>2. ASSUME NEW q \in Pid, NEW i \in 1..Len(toW'[q])
        PROVE  i \in 1..Len(toW[q]) /\ toW'[q][i] = toW[q][i] /\ toW[q][i] \in Call
    BY <1>3, <1>4, <2>2
  <2>3. ASSUME NEW q \in Pid, NEW i \in 1..Len(toW'[q])
        PROVE  Sent(toW[q][i])' /\ toW'[q][i] \notin handled'
    <3>1. Sent(toW[q][i]) /\ toW[q][i] \notin handled
      BY <2>2, <2>3 DEF PipeInv, SentOnce
    <3> QED BY <1>1, <2>2, <3>1 DEF Sent
  <2>4. ASSUME NEW p \in Pid, NEW q \in Pid, NEW i \in 1..Len(toW'[p]), NEW j \in 1..Len(toW'[q]),
               toW'[p][i] = toW'[q][j]
        PROVE  p = q /\ i = j
    BY <2>2, <2>4 DEF PipeInv, SentOnce
  <2> QED BY <2>1, <2>3, <2>4 DEF SentOnce
<1>6. HolderLast'
  <2>1. ASSUME NEW d \in Call, pc'[d] = "wait", toW'[at'[d]] # <<>>
        PROVE  toW'[at'[d]][Len(toW'[at'[d]])] = d
    <3>1. pc[d] = "wait" /\ at'[d] = at[d]
      BY <1>2, <2>1
    <3>2. at[d] \in Pid
      BY <3>1 DEF IInv, CoreInv, BusyLockExcludes, TypeOK
    <3>3. toW'[at[d]] = toW[at[d]]
      BY <1>3, <2>1, <3>1, <3>2
    <3> QED BY <2>1, <3>1, <3>3 DEF PipeInv, HolderLast
  <2> QED BY <2>1 DEF HolderLast
<1>7. NoticeFresh'
  <2>1. ASSUME NEW d \in Call, NEW q \in Pid, pc'[d] = "wait", at'[d] = q,
               NEW m \in Replies(q)', m.type = "check_shared_memory", m.of = d
        PROVE  shm'[q].of = d
    <3>1. pc[d] = "wait" /\ at[d] = q
      BY <1>2, <2>1
    <3>2. m \in Replies(q) /\ shm'[q] = shm[q]
      BY <2>1
    <3> QED BY <2>1, <3>1, <3>2 DEF PipeInv, NoticeFresh
  <2> QED BY <2>1 DEF NoticeFresh
<1> QED BY <1>5, <1>6, <1>7 DEF PipeInv

\* A call is at one place of one pipe.
LEMMA AtOnePlace ==
  ASSUME PipeInv, NEW p \in Pid, NEW q \in Pid,
         NEW i \in 1..Len(toW[p]), NEW j \in 1..Len(toW[q]), toW[p][i] = toW[q][j]
  PROVE  p = q /\ i = j
BY DEF PipeInv, SentOnce

\* A call that is sent becomes the last one in its pipe, in front of a pipe that
\* was emptied; it has not been handled, since it had not been sent.
LEMMA CallSent ==
  ASSUME IInv, PipeInv, CoreInv', NEW c \in Call, NEW p \in live, OthersStay(c), Sends(c, p),
         handled' = handled,
         \A q \in Pid : Replies(q)' \subseteq Replies(q)
  PROVE  PipeInv'
<1>0. p \in Pid /\ \A q \in Pid : toW[q] \in Seq(Call)
  BY DEF IInv, CoreInv, TypeOK, WorkerTypeOK
<1>1. \A d \in Call : Sent(d) => Sent(d)'
  BY DEF OthersStay, Sends, Sent
<1>2. Sent(c)' /\ ~Sent(c) /\ c \notin handled
  BY DEF Sends, Sent, PipeInv, SentOnce
<1>3. toW'[p] = Append(toW[p], c) /\ \A q \in Pid : q # p => toW'[q] = toW[q]
  BY <1>0 DEF Sends, IInv, CoreInv, TypeOK, WorkerTypeOK
<1>4. ASSUME NEW q \in Pid, NEW i \in 1..Len(toW'[q])
      PROVE  \/ q = p /\ i = Len(toW[p]) + 1 /\ toW'[q][i] = c
             \/ i \in 1..Len(toW[q]) /\ toW'[q][i] = toW[q][i] /\ toW[q][i] # c /\ toW[q][i] \in Call
  <2>1. CASE q = p /\ i = Len(toW[p]) + 1
    BY <1>0, <1>3, <2>1
  <2>2. CASE ~(q = p /\ i = Len(toW[p]) + 1)
    <3>1. i \in 1..Len(toW[q]) /\ toW'[q][i] = toW[q][i] /\ toW[q][i] \in Call
      BY <1>0, <1>3, <1>4, <2>2
    <3>2. Sent(toW[q][i])
      BY <3>1 DEF PipeInv, SentOnce
    <3> QED BY <1>2, <3>1, <3>2
  <2> QED BY <2>1, <2>2
<1>5. SentOnce'
  <2>1. \A d \in handled' : Sent(d)'
    BY <1>1 DEF PipeInv, SentOnce, IInv, CoreInv, TypeOK, WorkerTypeOK
  <2>2. ASSUME NEW q \in Pid, NEW i \in 1..Len(toW'[q])
        PROVE  Sent(toW[q][i])' /\ toW'[q][i] \notin handled'
    <3>1. CASE toW'[q][i] = c
      BY <1>2, <3>1 DEF Sent
    <3>2. CASE i \in 1..Len(toW[q]) /\ toW'[q][i] = toW[q][i] /\ toW[q][i] \in Call
      <4>1. Sent(toW[q][i]) /\ toW[q][i] \notin handled
        BY <3>2 DEF PipeInv, SentOnce
      <4> QED BY <1>1, <3>2, <4>1 DEF Sent
    <3> QED BY <1>4, <2>2, <3>1, <3>2
  <2>3. ASSUME NEW q \in Pid, NEW r \in Pid, NEW i \in 1..Len(toW'[q]), NEW j \in 1..Len(toW'[r]),
               toW'[q][i] = toW'[r][j]
        PROVE  q = r /\ i = j
    <3>1. \/ q = p /\ i = Len(toW[p]) + 1 /\ toW'[q][i] = c
          \/ i \in 1..Len(toW[q]) /\ toW'[q][i] = toW[q][i] /\ toW[q][i] # c
      BY <1>4, <2>3
    <3>2. \/ r = p /\ j = Len(toW[p]) + 1 /\ toW'[r][j] = c
          \/ j \in 1..Len(toW[r]) /\ toW'[r][j] = toW[r][j] /\ toW[r][j] # c
      BY <1>4, <2>3
    <3>3. CASE toW'[q][i] = c
      BY <2>3, <3>1, <3>2, <3>3
    <3>4. CASE toW'[q][i] # c
      <4>1. /\ i \in 1..Len(toW[q]) /\ toW'[q][i] = toW[q][i]
            /\ j \in 1..Len(toW[r]) /\ toW'[r][j] = toW[r][j]
        BY <2>3, <3>1, <3>2, <3>4
      <4>2. toW[q][i] = toW[r][j]
        BY <2>3, <4>1
      <4> QED BY <4>1, <4>2, AtOnePlace
    <3> QED BY <3>3, <3>4
  <2> QED BY <2>1, <2>2, <2>3 DEF SentOnce
<1>6. HolderLast'
  <2>1. ASSUME NEW d \in Call, pc'[d] = "wait", toW'[at'[d]] # <<>>
        PROVE  toW'[at'[d]][Len(toW'[at'[d]])] = d
    <3>1. CASE d = c
      BY <1>0, <1>3, <3>1 DEF Sends
    <3>2. CASE d # c
      <4>1. pc[d] = "wait" /\ at'[d] = at[d]
        BY <2>1, <3>2 DEF OthersStay
      <4>2. at[d] \in Pid
        BY <4>1 DEF IInv, CoreInv, BusyLockExcludes, TypeOK
      <4>3. at[d] # p
        <5>1. at'[c] = p /\ pc'[c] = "wait"
          BY DEF Sends
        <5>2. busy'[p].holder = c /\ busy'[at'[d]].holder = d
          BY <2>1, <5>1 DEF CoreInv, BusyLockExcludes
        <5> QED BY <3>2, <4>1, <5>2
      <4> QED BY <1>3, <2>1, <4>1, <4>2, <4>3 DEF PipeInv, HolderLast
    <3> QED BY <3>1, <3>2
  <2> QED BY <2>1 DEF HolderLast
<1>7. NoticeFresh'
  <2>1. ASSUME NEW d \in Call, NEW q \in Pid, pc'[d] = "wait", at'[d] = q,
               NEW m \in Replies(q)', m.type = "check_shared_memory", m.of = d
        PROVE  shm'[q].of = d
    <3>0. m \in Replies(q) /\ shm' = shm
      BY <2>1 DEF Sends
    <3>1. CASE d = c
      <4>1. m.of \in handled
        BY <3>0 DEF IInv, Mailbox
      <4> QED BY <1>2, <2>1, <3>1, <4>1
    <3>2. CASE d # c
      <4>1. pc[d] = "wait" /\ at[d] = q
        BY <2>1, <3>2 DEF OthersStay
      <4> QED BY <2>1, <3>0, <4>1 DEF PipeInv, NoticeFresh
    <3> QED BY <3>1, <3>2
  <2> QED BY <2>1 DEF NoticeFresh
<1> QED BY <1>5, <1>6, <1>7 DEF PipeInv

\* What the handling of the head of a pipe does: the call at the head moves to
\* `handled', and if its result is written the worker says so in the reply.
LEMMA HandleEffect ==
  ASSUME IInv, NEW p \in Pid, NEW d \in Call, Handle(p, d)
  PROVE  /\ toW[p] # <<>> /\ Head(toW[p]) = d
         /\ toW' = [toW EXCEPT ![p] = Tail(@)]
         /\ handled' = handled \cup {d}
         /\ \E t \in Classes :
              /\ Replies(p)' \subseteq Replies(p) \cup {Msg(t, d)}
              /\ \A q \in Pid : q # p => Replies(q)' = Replies(q)
              /\ \/ t = "check_shared_memory" /\ shm' = [shm EXCEPT ![p] = [of |-> d, data |-> Result(p, d)]]
                 \/ t # "check_shared_memory" /\ shm' = shm
<1>1. PICK t \in Classes :
        /\ Receives(p, d, Msg(t, d))
        /\ \/ t = "check_shared_memory" /\ shm' = [shm EXCEPT ![p] = [of |-> d, data |-> Result(p, d)]]
           \/ t # "check_shared_memory" /\ shm' = shm
  BY DEF Handle, Reject, FailEarly, Acknowledge, WriteResult, OverflowResult, Classes
<1>2. /\ Replies(p)' \subseteq Replies(p) \cup {Msg(t, d)}
      /\ \A q \in Pid : q # p => Replies(q)' = Replies(q)
  BY <1>1, WorkerPipes DEF IInv
<1> QED BY <1>1, <1>2 DEF Receives

\* Handling a call keeps what is known of the pipes.
LEMMA HandleKeeps ==
  ASSUME IInv, PipeInv, NEW p \in Pid, NEW d \in Call, Handle(p, d), UNCHANGED managerVars
  PROVE  PipeInv'
<1>0. /\ \A q \in Pid : toW[q] \in Seq(Call)
      /\ DOMAIN toW = Pid /\ DOMAIN shm = Pid
  BY DEF IInv, CoreInv, TypeOK, WorkerTypeOK
<1>1. toW[p] # <<>> /\ toW[p][1] = d /\ handled' = handled \cup {d}
  BY <1>0, HandleEffect
<1>2. toW'[p] = Tail(toW[p]) /\ \A q \in Pid : q # p => toW'[q] = toW[q]
  BY <1>0, HandleEffect
<1>3. pc' = pc /\ at' = at
  BY DEF managerVars
<1>4. ASSUME NEW q \in Pid, NEW i \in 1..Len(toW'[q])
      PROVE  /\ q = p => i + 1 \in 2..Len(toW[p]) /\ toW'[q][i] = toW[p][i+1]
             /\ q # p => i \in 1..Len(toW[q]) /\ toW'[q][i] = toW[q][i]
  <2>1. CASE q = p
    <3>1. Len(toW'[p]) = Len(toW[p]) - 1 /\ Len(toW[p]) \in Nat
      BY <1>0, <1>1, <1>2
    <3>2. i + 1 \in 2..Len(toW[p])
      BY <1>4, <2>1, <3>1
    <3>3. toW'[p][i] = toW[p][i+1]
      BY <1>0, <1>1, <1>2, <1>4, <2>1
    <3> QED BY <2>1, <3>2, <3>3
  <2>2. CASE q # p
    BY <1>2, <1>4, <2>2
  <2> QED BY <2>1, <2>2
<1>5. SentOnce'
  <2>1. 1 \in 1..Len(toW[p])
    BY <1>0, <1>1
  <2>2. \A c \in handled' : Sent(c)'
    BY <1>1, <1>3, <2>1 DEF PipeInv, SentOnce, Sent
  <2>3. ASSUME NEW q \in Pid, NEW i \in 1..Len(toW'[q])
        PROVE  Sent(toW[q][i])' /\ toW'[q][i] \notin handled'
    <3>1. CASE q = p
      <4>1. i + 1 \in 1..Len(toW[p]) /\ i + 1 # 1 /\ toW'[q][i] = toW[p][i+1]
        BY <1>4, <2>3, <3>1
      <4>2. Sent(toW[p][i+1]) /\ toW[p][i+1] \notin handled /\ toW[p][i+1] # d
        BY <1>1, <2>1, <4>1 DEF PipeInv, SentOnce
      <4> QED BY <1>1, <1>3, <4>1, <4>2 DEF Sent
    <3>2. CASE q # p
      <4>1. i \in 1..Len(toW[q]) /\ toW'[q][i] = toW[q][i]
        BY <1>4, <2>3, <3>2
      <4>2. Sent(toW[q][i]) /\ toW[q][i] \notin handled /\ toW[q][i] # d
        BY <1>1, <2>1, <3>2, <4>1 DEF PipeInv, SentOnce
      <4> QED BY <1>1, <1>3, <4>1, <4>2 DEF Sent
    <3> QED BY <3>1, <3>2
  <2>4. ASSUME NEW q \in Pid, NEW r \in Pid, NEW i \in 1..Len(toW'[q]), NEW j \in 1..Len(toW'[r]),
               toW'[q][i] = toW'[r][j]
        PROVE  q = r /\ i = j
    <3> DEFINE ii == IF q = p THEN i + 1 ELSE i
               jj == IF r = p THEN j + 1 ELSE j
    <3>1. ii \in 1..Len(toW[q]) /\ toW'[q][i] = toW[q][ii]
      BY <1>4, <2>4
    <3>2. jj \in 1..Len(toW[r]) /\ toW'[r][j] = toW[r][jj]
      BY <1>4, <2>4
    <3>3. q = r /\ ii = jj
      <4> HIDE DEF ii, jj
      <4>1. toW[q][ii] = toW[r][jj]
        BY <2>4, <3>1, <3>2
      <4> QED BY <3>1, <3>2, <4>1, AtOnePlace
    <3> QED BY <3>3
  <2> QED BY <2>2, <2>3, <2>4 DEF SentOnce
<1>6. HolderLast'
  <2>1. ASSUME NEW c \in Call, pc[c] = "wait", toW'[at[c]] # <<>>
        PROVE  toW'[at[c]][Len(toW'[at[c]])] = c
    <3>1. at[c] \in Pid
      BY <2>1 DEF IInv, CoreInv, BusyLockExcludes, TypeOK
    <3>2. toW'[at[c]] # <<>> => toW[at[c]] # <<>> /\ toW'[at[c]][Len(toW'[at[c]])] = toW[at[c]][Len(toW[at[c]])]
      <4>1. CASE at[c] = p
        <5> DEFINE s == toW[p]
        <5>1. s \in Seq(Call) /\ s # <<>> /\ toW'[p] = Tail(s)
          BY <1>0, <1>1, <1>2
        <5> HIDE DEF s
        <5>2. Tail(s) # <<>> => Tail(s)[Len(Tail(s))] = s[Len(s)]
          BY <5>1
        <5> QED BY <1>1, <4>1, <5>1, <5>2 DEF s
      <4>2. CASE at[c] # p
        BY <1>2, <3>1, <4>2
      <4> QED BY <4>1, <4>2
    <3> QED BY <2>1, <3>2 DEF PipeInv, HolderLast
  <2> QED BY <1>3, <2>1 DEF HolderLast
<1>7. NoticeFresh'
  <2>1. ASSUME NEW c \in Call, NEW q \in Pid, pc[c] = "wait", at[c] = q,
               NEW m \in Replies(q)', m.type = "check_shared_memory", m.of = c
        PROVE  shm'[q].of = c
    <3>1. PICK t \in Classes :
            /\ Replies(p)' \subseteq Replies(p) \cup {Msg(t, d)}
            /\ \A r \in Pid : r # p => Replies(r)' = Replies(r)
            /\ \/ t = "check_shared_memory" /\ shm' = [shm EXCEPT ![p] = [of |-> d, data |-> Result(p, d)]]
               \/ t # "check_shared_memory" /\ shm' = shm
      BY HandleEffect
    <3>2. CASE q # p \/ (t # "check_shared_memory" /\ m \in Replies(q))
      <4>1. m \in Replies(q) /\ shm'[q] = shm[q]
        BY <1>0, <2>1, <3>1, <3>2
      <4> QED BY <2>1, <4>1 DEF PipeInv, NoticeFresh
    <3>3. CASE q = p /\ m = Msg(t, d)
      <4>1. t = "check_shared_memory" /\ d = c
        BY <2>1, <3>3 DEF Msg
      <4> QED BY <1>0, <3>1, <3>3, <4>1
    <3>4. CASE q = p /\ t = "check_shared_memory" /\ m \in Replies(q)
      <4>1. c \in handled
        BY <2>1, <3>4 DEF IInv, Mailbox
      <4>2. toW[p][Len(toW[p])] = c /\ Len(toW[p]) \in 1..Len(toW[p])
        BY <1>0, <1>1, <2>1, <3>4 DEF PipeInv, HolderLast
      <4>3. c \notin handled
        BY <4>2 DEF PipeInv, SentOnce
      <4> QED BY <4>1, <4>3
    <3> QED BY <2>1, <3>1, <3>2, <3>3, <3>4
  <2> QED BY <1>3, <2>1 DEF NoticeFresh
<1> QED BY <1>5, <1>6, <1>7 DEF PipeInv

\* Every step keeps what is known of the pipes.
LEMMA PipeStep ==
  ASSUME IInv, PipeInv, CoreInv', [Next]_vars
  PROVE  PipeInv'
<1>0. CoreInv /\ Mailbox /\ live \subseteq Pid
  BY DEF IInv, CoreInv, TypeOK
<1>1. ASSUME NEW c \in Call, Start(c) \/ Proceed(c) \/ Timeout(c) \/ Cancel(c)
      PROVE  PipeInv'
  <2>1. handled' = handled
    BY <1>0, <1>1, ManagerPipes
  <2>2. \A q \in Pid : Replies(q)' \subseteq Replies(q) /\ (shm'[q] = shm[q] \/ Replies(q)' = {})
    BY <1>1, ManagerShrinks
  <2>3. OthersStay(c) /\ (SendsNothing(c) \/ \E p \in live : Sends(c, p))
    BY <1>0, <1>1, ManagerSends
  <2>4. CASE SendsNothing(c)
    BY <2>1, <2>2, <2>3, <2>4, NothingSent
  <2>5. CASE \E p \in live : Sends(c, p)
    BY <2>1, <2>2, <2>3, <2>5, CallSent
  <2> QED BY <2>3, <2>4, <2>5
<1>2. ASSUME NEW p \in live, NEW c \in Call, Handle(p, c), UNCHANGED managerVars
      PROVE  PipeInv'
  BY <1>0, <1>2, HandleKeeps
<1>3. ASSUME NEW p \in live, Reply(p) \/ Die(p), UNCHANGED managerVars
      PROVE  PipeInv'
  <2>0. p \in Pid
    BY <1>0
  <2>1. UNCHANGED <<handled, shm, toW, pc, at>>
    BY <1>3 DEF Reply, Die, managerVars
  <2>2. \A q \in Pid : Replies(q)' \subseteq Replies(q)
    <3>1. CASE Reply(p)
      BY <1>0, <2>0, <3>1, ReplyPipes
    <3>2. CASE Die(p)
      <4>1. \A q \in Pid : toM'[q] = toM[q] /\ (worker'[q].reply = worker[q].reply \/ worker'[q].reply = <<>>)
        BY <1>0, <2>0, <3>2 DEF Die, Dead, CoreInv, TypeOK, WorkerTypeOK
      <4>2. WorkerTypeOK'
        BY DEF CoreInv, TypeOK
      <4> QED BY <1>0, <4>1, <4>2, RepliesShrink
    <3> QED BY <1>3, <3>1, <3>2
  <2>3. SentOnce' /\ HolderLast'
    BY <2>1 DEF PipeInv, SentOnce, HolderLast, Sent
  <2>4. NoticeFresh'
    BY <2>1, <2>2 DEF PipeInv, NoticeFresh
  <2> QED BY <2>3, <2>4 DEF PipeInv
<1>4. CASE UNCHANGED vars
  BY <1>4 DEF vars, managerVars, workerVars, PipeInv, SentOnce, HolderLast, NoticeFresh, Sent, Replies
<1> QED BY <1>1, <1>2, <1>3, <1>4 DEF Next, Work, Kill

\* A request that ends well in a step ends with its own result.
LEMMA OwnEnding ==
  ASSUME IInv, PipeInv, NEW c \in Call, ReceiveAnswer(c)
  PROVE  \A d \in Call : out'[d].how = "ok" => out'[d] = out[d] \/ out'[d].of = d
<1> DEFINE p == at[c]
           m == NextAnswer(c)
           ending == IF HasResult(c) THEN EndingWith("ok", shm[p].of, shm[p].data)
                     ELSE EndingWith("ok", c, {})
<1>1. p \in Pid /\ toM[p] \in Seq(Message) /\ toM[p] # <<>> /\ pc[c] = "wait"
  BY DEF ReceiveAnswer, Waiting, IInv, CoreInv, BusyLockExcludes, TypeOK, WorkerTypeOK
<1>2. m \in Replies(p)
  BY <1>1 DEF NextAnswer, Replies
<1>3. m.of = c /\ m.type \in {"ok", "check_shared_memory"}
  BY DEF ReceiveAnswer
<1>4. HasResult(c) => shm[p].of = c
  <2>1. HasResult(c) => m.type = "check_shared_memory"
    BY <1>1, <1>2, <1>3 DEF IInv, Mailbox
  <2> QED BY <1>1, <1>2, <1>3, <2>1 DEF PipeInv, NoticeFresh
<1>5. ending.of = c
  BY <1>4 DEF EndingWith
<1>6. out' = [out EXCEPT ![c] = Outcome(c, ending, sessions)]
  BY DEF ReceiveAnswer, Leave
<1>7. Outcome(c, ending, sessions) = ending \/ Outcome(c, ending, sessions).how # "ok"
  BY DEF Outcome, Ending
<1> HIDE DEF ending
<1> QED BY <1>5, <1>6, <1>7 DEF IInv, CoreInv, TypeOK

\* The other steps of a task leave `out' alone or end a request some other way.
LEMMA OtherEndings ==
  ASSUME IInv, NEW c \in Call,
         Start(c) \/ Proceed(c) \/ Timeout(c) \/ Cancel(c), ~ReceiveAnswer(c)
  PROVE  \A d \in Call : out'[d].how = "ok" => out'[d] = out[d]
<1> USE DEF IInv, CoreInv, TypeOK
<1>1. ASSUME NEW ending, NEW ss, ending.how # "ok", Leave(c, ending, ss)
      PROVE  \A d \in Call : out'[d].how = "ok" => out'[d] = out[d]
  BY <1>1 DEF Leave, Outcome, Ending
<1>2. ASSUME out' = out
      PROVE  \A d \in Call : out'[d].how = "ok" => out'[d] = out[d]
  BY <1>2
<1>3. CASE Start(c)
  <2>1. CASE out' = out
    BY <1>2, <2>1
  <2>2. CASE RefuseInit(c) \/ SkipClear(c)
    BY <2>2 DEF RefuseInit, SkipClear, Ending
  <2> QED BY <1>3, <2>1, <2>2 DEF Start, OpenEntry, JoinEntry, QueueSearch, StartPlain, Scan,
                                   SeizeForSession, Seize
<1>4. CASE Proceed(c)
  <2>1. CASE out' = out
    BY <1>2, <2>1
  <2>2. CASE AcquireSearchLost(c) \/ AcquireStale(c)
    BY <1>1, <2>2 DEF AcquireSearchLost, AcquireStale, Ending
  <2>3. CASE ReceiveException(c)
    BY <1>1, <2>3 DEF ReceiveException, EndingWith
  <2>4. CASE ReceiveOSError(c) \/ TooManyForeign(c)
    BY <1>1, <2>4 DEF ReceiveOSError, TooManyForeign, Break, Ending, EndingWith
  <2> QED BY <1>4, <2>1, <2>2, <2>3, <2>4
          DEF Proceed, AcquireSearch, AcquireBusy, Wake, Scan, SkipForeign, SeizeForSession, Seize
<1>5. CASE Timeout(c) \/ Cancel(c)
  BY <1>1, <1>5 DEF Timeout, Cancel, HungTimeout, ObtainTimeout, CancelQueued, CancelWaiting,
                    LeaveQueue, Break, Ending
<1> QED BY <1>3, <1>4, <1>5

\* A result is the one the worker computed for this very request, although what
\* is in the shared memory is never compared with the rack: for any number of
\* processes and requests, and whatever was left in the pipe by others.
THEOREM ResultsAreOwn == Spec => []OwnResult
<1> DEFINE Inv == IInv /\ PipeInv /\ OwnResult
<1>1. Init => Inv
  <2>1. ASSUME Init PROVE IInv
    <3>1. Mailbox
      BY <2>1 DEF Init, WorkerInit, Mailbox, Replies, Idle, Dead
    <3> QED BY <2>1, <3>1, InitInv DEF IInv
  <2>2. ASSUME Init PROVE OwnResult
    BY <2>2 DEF Init, OwnResult, Ending
  <2> QED BY <2>1, <2>2, PipeInit
<1>2. Inv /\ [Next]_vars => Inv'
  <2> SUFFICES ASSUME Inv, [Next]_vars PROVE Inv'
    OBVIOUS
  <2>1. IInv'
    BY CoreStep, MailboxStep DEF IInv
  <2>2. PipeInv'
    BY <2>1, PipeStep DEF IInv
  <2>3. OwnResult'
    <3>1. ASSUME NEW c \in Call, Start(c) \/ Proceed(c) \/ Timeout(c) \/ Cancel(c)
          PROVE  \A d \in Call : out'[d].how = "ok" => out'[d] = out[d] \/ out'[d].of = d
      BY <3>1, OwnEnding, OtherEndings
    <3>2. CASE out' = out
      BY <3>2 DEF OwnResult
    <3>3. CASE \E c \in Call : Start(c) \/ Proceed(c) \/ Timeout(c) \/ Cancel(c)
      BY <3>1, <3>3 DEF OwnResult
    <3> QED BY <3>2, <3>3 DEF Next, Work, Kill, vars, managerVars
  <2> QED BY <2>1, <2>2, <2>3
<1>3. Inv => OwnResult
  OBVIOUS
<1> HIDE DEF Inv
<1> QED BY <1>1, <1>2, <1>3, PTL DEF Spec

=============================================================================
