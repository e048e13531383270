------------------------ MODULE WorkerManagerProofs -------------------------
(***************************************************************************)
(* What is true of a pool of any size, for any requests and any timeouts,  *)
(* cancellations and killed processes.  CoreInv is inductive for the       *)
(* manager's own state but for one fact that comes from the workers: what  *)
(* a request reads from the shared memory is a pickled message.  Mailbox   *)
(* says so, and \* The inductive invariant.
IInv == CoreInv /\ Mailbox is inductive.                   *)
(***************************************************************************)
EXTENDS WorkerManager, SequenceTheorems, TLAPS

\* The queue of a lock stays a queue of calls when one of them leaves it.
LEMMA WithoutType ==
  ASSUME NEW q \in Seq(Call), NEW c
  PROVE  Without(q, c) \in Seq(Call)
<1>1. CASE Contains(q, c)
  <2> DEFINE i == CHOOSE j \in 1..Len(q) : q[j] = c
  <2>1. i \in 1..Len(q)
    BY <1>1 DEF Contains
  <2>2. SubSeq(q, 1, i-1) \in Seq(Call) /\ SubSeq(q, i+1, Len(q)) \in Seq(Call)
    <3> HIDE DEF i
    <3>1. i - 1 <= Len(q) /\ 1 <= Len(q)
      BY <2>1
    <3> QED BY <2>1, <3>1, SubSeqProperties
  <2> QED BY <1>1, <2>2 DEF Without, RemoveAt
<1>2. CASE ~Contains(q, c)
  BY <1>2 DEF Without
<1> QED BY <1>1, <1>2

\* What the operations on a lock do to its holder.
LEMMA LockTypes ==
  ASSUME NEW l \in Lock, NEW c \in Call
  PROVE  /\ Drop(l, c) \in Lock /\ Drop(l, c).holder = l.holder
         /\ Take(l, c) \in Lock /\ Take(l, c).holder = c
         /\ Enqueue(l, c) \in Lock /\ Enqueue(l, c).holder = l.holder
         /\ Release(l) \in Lock /\ Release(l).holder = None
<1>1. Drop(l, c) \in Lock /\ Drop(l, c).holder = l.holder
  BY WithoutType DEF Drop, Lock
<1>2. Take(l, c) \in Lock /\ Take(l, c).holder = c
  BY <1>1 DEF Take, Lock
<1>3. Enqueue(l, c) \in Lock /\ Enqueue(l, c).holder = l.holder
  BY DEF Enqueue, Lock
<1>4. Release(l) \in Lock /\ Release(l).holder = None
  BY DEF Release, Lock
<1> QED BY <1>1, <1>2, <1>3, <1>4

-----------------------------------------------------------------------------
\* No process, lock or queue is used before it exists: only processes that were
\* started are in the table or waited for, only a lock that is known is.
Placement ==
  /\ live \subseteq 1..started
  /\ \A c \in Call : at[c] <= started
  /\ \A c \in Call : pc[c] = "search" => lk[c] # None /\ Sess(c) # None
  /\ \A p \in Pid : p > started => busy[p].holder = None

\* The manager's part of the inductive invariant.
CoreInv ==
  /\ TypeOK
  /\ Placement
  /\ BusyLockExcludes
  /\ SessionsPointToLive
  /\ NoLostWakeup

\* What is in p's pipe for the manager, or about to be.
Replies(p) ==
  {toM[p][i] : i \in 1..Len(toM[p])} \cup
  {worker[p].reply[i] : i \in 1..Len(worker[p].reply)}

\* Every reply is to a request the worker has received; an `ok' is only said
\* of a request that has no result; a notice to read the shared memory finds a
\* pickled message there.
Mailbox ==
  \A p \in Pid : \A m \in Replies(p) :
    /\ m.of \in handled
    /\ m.type = "ok" => ~HasResult(m.of)
    /\ m.type = "check_shared_memory" => shm[p] \in [of : Call, data : SUBSET Call]

IInv == CoreInv /\ Mailbox

-----------------------------------------------------------------------------
\* The pool starts with every process free.
LEMMA InitInv == Init => CoreInv
<1> SUFFICES ASSUME Init PROVE CoreInv
  OBVIOUS
<1> USE RequestsAssumption, ManagerAssumption
<1>1. NewLock \in Lock /\ NewLock.holder = None
  BY DEF NewLock, Lock
<1>2. Ending("none") \in CallEnding
  BY DEF Ending, CallEnding, Endings
<1>3. Idle \in [up : BOOLEAN, reply : Seq(Message)] /\ Dead \in [up : BOOLEAN, reply : Seq(Message)]
  BY DEF Idle, Dead
<1>4. WorkerTypeOK
  BY <1>3 DEF Init, WorkerInit, WorkerTypeOK, NoContexts
<1>5. TypeOK
  <2>1. /\ pc \in [Call -> Places] /\ at \in [Call -> Pid \cup {0}]
        /\ lk \in [Call -> Call \cup {None}] /\ foreign \in [Call -> Nat]
    BY DEF Init, Places
  <2>2. out \in [Call -> CallEnding] /\ search \in [Call -> Lock] /\ busy \in [Pid -> Lock]
    BY <1>1, <1>2 DEF Init
  <2>3. sessions \in SessionTable /\ live \in SUBSET Pid /\ started \in Pid /\ event \in BOOLEAN
    <3>1. sessions \in SessionTable
      BY DEF Init, SessionTable
    <3>2. live \in SUBSET Pid /\ started \in Pid
      BY DEF Init, Pid
    <3>3. event \in BOOLEAN
      BY DEF Init
    <3> QED BY <3>1, <3>2, <3>3
  <2> QED BY <1>4, <2>1, <2>2, <2>3 DEF TypeOK
<1>6. Placement
  BY <1>1 DEF Init, Placement, Pid
<1>7. BusyLockExcludes /\ SessionsPointToLive /\ NoLostWakeup
  BY <1>1 DEF Init, BusyLockExcludes, SessionsPointToLive, NoLostWakeup, Pid
<1> QED BY <1>5, <1>6, <1>7 DEF CoreInv

\* A call that leaves gives up its place; a session entry that is left is
\* unchanged.
LEMMA LeaveLemma ==
  ASSUME TypeOK, NEW c \in Call, NEW ending \in CallEnding, NEW ss \in SessionTable,
         Leave(c, ending, ss)
  PROVE  /\ out' \in [Call -> CallEnding]
         /\ sessions' \in SessionTable
         /\ at' \in [Call -> Pid \cup {0}] /\ at' = [at EXCEPT ![c] = 0]
         /\ lk' \in [Call -> Call \cup {None}] /\ lk' = [lk EXCEPT ![c] = None]
         /\ \A s \in Session : sessions'[s] # None => sessions'[s] = ss[s]
<1>1. Outcome(c, ending, ss) \in CallEnding
  BY DEF Outcome, Ending, CallEnding, Endings
<1>2. /\ Forget(c, ss) \in SessionTable
      /\ \A s \in Session : Forget(c, ss)[s] # None => Forget(c, ss)[s] = ss[s]
  BY DEF Forget, SessionTable
<1> QED BY <1>1, <1>2 DEF Leave, TypeOK

\* The finally of _send_message frees one lock, sets the event and wakes every
\* parked task.
LEMMA ReleaseLemma ==
  ASSUME TypeOK, NEW c \in Call, at[c] \in Pid, ReleaseProcess(c)
  PROVE  /\ busy' \in [Pid -> Lock]
         /\ busy'[at[c]].holder = None
         /\ \A p \in Pid : p # at[c] => busy'[p] = busy[p]
         /\ event' \in BOOLEAN
         /\ pc' \in [Call -> Places]
         /\ pc'[c] = "done"
         /\ \A d \in Call : d # c /\ pc[d] # "parked" => pc'[d] = pc[d]
         /\ \A d \in Call : pc[d] = "parked" => pc'[d] \in {"woken", "done"}
         /\ \A d \in Call : pc'[d] # "parked"
<1>1. Release(busy[at[c]]) \in Lock /\ Release(busy[at[c]]).holder = None
  BY LockTypes DEF TypeOK
<1>2. busy' \in [Pid -> Lock] /\ busy'[at[c]].holder = None
      /\ \A p \in Pid : p # at[c] => busy'[p] = busy[p]
  BY <1>1 DEF ReleaseProcess, TypeOK
<1>3. /\ event' \in BOOLEAN
      /\ pc' \in [Call -> Places]
      /\ pc'[c] = "done"
      /\ \A d \in Call : d # c /\ pc[d] # "parked" => pc'[d] = pc[d]
      /\ \A d \in Call : pc[d] = "parked" => pc'[d] \in {"woken", "done"}
      /\ \A d \in Call : pc'[d] # "parked"
  BY DEF ReleaseProcess, TypeOK, Woken, Places
<1> QED BY <1>2, <1>3

\* A restart replaces one key of process_info by a fresh one.
LEMMA RestartLemma ==
  ASSUME TypeOK, NEW p \in Pid, Restart(p)
  PROVE  /\ WorkerTypeOK'
         /\ started' \in Pid /\ started' = started + 1
         /\ live' \in SUBSET Pid /\ live' = (live \ {p}) \cup {started + 1}
<1>1. started + 1 \in Pid
  BY RequestsAssumption DEF TypeOK, Restart, Pid
<1>2. /\ Idle \in [up : BOOLEAN, reply : Seq(Message)]
      /\ Dead \in [up : BOOLEAN, reply : Seq(Message)]
      /\ NoContexts \in [Session -> {None} \cup SUBSET Call]
  BY DEF Idle, Dead, NoContexts
<1>3. toW' \in [Pid -> Seq(Call)] /\ toM' \in [Pid -> Seq(Message)]
  BY DEF Restart, TypeOK, WorkerTypeOK
<1>4. worker' \in [Pid -> [up : BOOLEAN, reply : Seq(Message)]]
  BY <1>2 DEF Restart, TypeOK, WorkerTypeOK
<1>5. /\ ctx' \in [Pid -> [Session -> {None} \cup SUBSET Call]]
      /\ shm' \in [Pid -> [of : Call, data : SUBSET Call] \cup {None}]
  BY <1>2 DEF Restart, TypeOK, WorkerTypeOK
<1>6. handled' \in SUBSET Call /\ answer' \in [Call -> {None} \cup SUBSET Call]
  BY DEF Restart, TypeOK, WorkerTypeOK
<1>7. WorkerTypeOK'
  BY <1>3, <1>4, <1>5, <1>6 DEF WorkerTypeOK
<1> QED BY <1>1, <1>7 DEF Restart, TypeOK

\* What one acquire() of a busy lock does.
LEMMA SeizeLemma ==
  ASSUME TypeOK, NEW c \in Call, NEW p \in Pid, Seize(c, p)
  PROVE  /\ WorkerTypeOK'
         /\ at' \in [Call -> Pid \cup {0}] /\ at' = [at EXCEPT ![c] = p]
         /\ busy' \in [Pid -> Lock]
         /\ \A q \in Pid : q # p => busy'[q] = busy[q]
         /\ pc' \in [Call -> Places]
         /\ \A d \in Call : d # c => pc'[d] = pc[d]
         /\ \/ /\ busy[p].holder = None /\ busy'[p].holder = c /\ pc'[c] = "wait"
            \/ busy'[p].holder = busy[p].holder /\ pc'[c] = "busy"
<1>1. at' \in [Call -> Pid \cup {0}] /\ at' = [at EXCEPT ![c] = p]
  BY DEF Seize, TypeOK
<1>2. CASE Available(busy[p])
  <2>1. /\ busy' = [busy EXCEPT ![p] = Take(@, c)]
        /\ pc' = [pc EXCEPT ![c] = "wait"]
        /\ toM' = [toM EXCEPT ![p] = <<>>]
        /\ toW' = [toW EXCEPT ![p] = Append(@, c)]
        /\ UNCHANGED pipeVars
    BY <1>2 DEF Seize
  <2>2. WorkerTypeOK'
    BY <2>1 DEF WorkerTypeOK, TypeOK, pipeVars
  <2>3. busy' \in [Pid -> Lock] /\ busy'[p].holder = c /\ \A q \in Pid : q # p => busy'[q] = busy[q]
    BY <2>1, LockTypes DEF TypeOK
  <2>4. /\ pc' \in [Call -> Places] /\ pc'[c] = "wait"
        /\ \A d \in Call : d # c => pc'[d] = pc[d]
    BY <2>1 DEF TypeOK, Places
  <2> QED BY <1>1, <1>2, <2>2, <2>3, <2>4 DEF Available, Unlocked
<1>3. CASE ~Available(busy[p])
  <2>1. /\ busy' = [busy EXCEPT ![p] = Enqueue(@, c)]
        /\ pc' = [pc EXCEPT ![c] = "busy"]
        /\ UNCHANGED <<toM, toW, pipeVars>>
    BY <1>3 DEF Seize
  <2>2. WorkerTypeOK'
    BY <2>1 DEF WorkerTypeOK, TypeOK, pipeVars
  <2>3. /\ busy' \in [Pid -> Lock] /\ busy'[p].holder = busy[p].holder
        /\ \A q \in Pid : q # p => busy'[q] = busy[q]
    BY <2>1, LockTypes DEF TypeOK
  <2>4. /\ pc' \in [Call -> Places] /\ pc'[c] = "busy"
        /\ \A d \in Call : d # c => pc'[d] = pc[d]
    BY <2>1 DEF TypeOK, Places
  <2> QED BY <1>1, <2>2, <2>3, <2>4
<1> QED BY <1>2, <1>3

(***************************************************************************)
(* A request that seizes a process, whatever it was doing before.          *)
(***************************************************************************)
LEMMA SeizeInv ==
  ASSUME CoreInv, NEW c \in Call, pc[c] # "wait", NEW p \in live, Seize(c, p),
         event' = event \/ event' = FALSE,
         \A d \in Call : pc'[d] = "search" => lk'[d] # None,
         SessionsPointToLive',
         lk' \in [Call -> Call \cup {None}], search' \in [Call -> Lock],
         sessions' \in SessionTable
  PROVE  CoreInv'
<1> USE DEF CoreInv
<1>0. p \in Pid /\ live' = live /\ started' = started /\ out' = out /\ foreign' = foreign
  BY DEF TypeOK, Seize
<1>1. /\ WorkerTypeOK'
      /\ at' \in [Call -> Pid \cup {0}] /\ at' = [at EXCEPT ![c] = p]
      /\ busy' \in [Pid -> Lock]
      /\ \A q \in Pid : q # p => busy'[q] = busy[q]
      /\ pc' \in [Call -> Places]
      /\ \A d \in Call : d # c => pc'[d] = pc[d]
      /\ \/ /\ busy[p].holder = None /\ busy'[p].holder = c /\ pc'[c] = "wait"
         \/ busy'[p].holder = busy[p].holder /\ pc'[c] = "busy"
  BY <1>0, SeizeLemma
<1>2. TypeOK'
  BY <1>0, <1>1 DEF TypeOK
<1>3. Placement'
  <2>1. p <= started /\ started \in Nat
    <3>1. p \in 1..started
      BY DEF Placement
    <3>2. started \in Nat
      <4>1. started \in 1..MaxPid
        BY DEF TypeOK, Pid
      <4> HIDE DEF CoreInv
      <4> QED BY <4>1, RequestsAssumption
    <3> HIDE DEF CoreInv
    <3> QED BY <3>1, <3>2
  <2>2. \A d \in Call : at'[d] <= started'
    BY <1>0, <1>1, <2>1 DEF Placement, TypeOK
  <2>3. \A q \in Pid : q > started' => busy'[q].holder = None
    BY <1>0, <1>1, <2>1 DEF Placement, Pid
  <2>4. \A d \in Call : pc'[d] = "search" => lk'[d] # None /\ Sess(d) # None
    BY <1>1 DEF Placement
  <2> QED BY <1>0, <2>2, <2>3, <2>4 DEF Placement
<1>4. BusyLockExcludes'
  <2>1. c # None /\ \A d \in Call : d # None
    BY RequestsAssumption
  <2>2. ASSUME NEW d \in Call, pc'[d] = "wait"
        PROVE  at'[d] \in live /\ busy'[at'[d]].holder = d
    <3>1. CASE d = c
      BY <1>0, <1>1, <2>2, <3>1 DEF TypeOK
    <3>2. CASE d # c
      <4>1. at'[d] = at[d] /\ at[d] \in live /\ busy[at[d]].holder = d /\ at[d] \in Pid
        BY <1>0, <1>1, <2>2, <3>2 DEF TypeOK, BusyLockExcludes
      <4> QED BY <1>0, <1>1, <2>1, <4>1
    <3> QED BY <3>1, <3>2
  <2>3. ASSUME NEW q \in live, busy'[q].holder # None
        PROVE  pc'[busy'[q].holder] = "wait" /\ at'[busy'[q].holder] = q
    <3>1. q \in Pid /\ busy[q].holder \in Call \cup {None}
      BY DEF TypeOK, Lock
    <3>2. CASE busy'[q].holder = busy[q].holder
      <4>1. pc[busy[q].holder] = "wait" /\ at[busy[q].holder] = q /\ busy[q].holder # c
        BY <2>3, <3>2 DEF BusyLockExcludes
      <4> QED BY <1>1, <2>3, <3>1, <3>2, <4>1 DEF TypeOK
    <3>3. CASE busy'[q].holder # busy[q].holder
      BY <1>0, <1>1, <3>1, <3>3 DEF TypeOK
    <3> QED BY <3>2, <3>3
  <2> QED BY <1>0, <2>2, <2>3 DEF BusyLockExcludes
<1>5. NoLostWakeup'
  BY <1>0, <1>1, RequestsAssumption DEF NoLostWakeup, TypeOK, Unlocked
<1> QED BY <1>2, <1>3, <1>4, <1>5

(***************************************************************************)
(* The holder of a process leaves: BusyLockExcludes and NoLostWakeup from  *)
(* what happens to `live', with or without a restart.                      *)
(***************************************************************************)
LEMMA HolderLeaves ==
  ASSUME CoreInv, NEW c \in Call, pc[c] = "wait",
         ReleaseProcess(c),
         at' = [at EXCEPT ![c] = 0],
         live' \subseteq Pid,
         \/ live' = live /\ started' = started
         \/ started' = started + 1 /\ live' = (live \ {at[c]}) \cup {started + 1}
  PROVE  /\ BusyLockExcludes'
         /\ NoLostWakeup'
         /\ \A p \in Pid : p > started' => busy'[p].holder = None
         /\ pc' \in [Call -> Places] /\ busy' \in [Pid -> Lock] /\ event' \in BOOLEAN
         /\ \A d \in Call : pc'[d] = "search" => pc[d] = "search" /\ d # c
<1> USE DEF CoreInv
<1>1. at[c] \in live /\ at[c] \in Pid /\ busy[at[c]].holder = c
  BY DEF TypeOK, BusyLockExcludes
<1>2. /\ busy' \in [Pid -> Lock]
      /\ busy'[at[c]].holder = None
      /\ \A p \in Pid : p # at[c] => busy'[p] = busy[p]
      /\ event' \in BOOLEAN
      /\ pc' \in [Call -> Places]
      /\ pc'[c] = "done"
      /\ \A d \in Call : d # c /\ pc[d] # "parked" => pc'[d] = pc[d]
      /\ \A d \in Call : pc[d] = "parked" => pc'[d] \in {"woken", "done"}
      /\ \A d \in Call : pc'[d] # "parked"
  BY <1>1, ReleaseLemma
<1>3. \A d \in Call : d # c => at'[d] = at[d]
  BY DEF TypeOK
<1>4. started \in Nat /\ \A p \in live : p <= started /\ p \in Pid
  BY RequestsAssumption DEF TypeOK, Placement, Pid
<1>5. ASSUME NEW d \in Call, pc'[d] = "wait"
      PROVE  at'[d] \in live' /\ busy'[at'[d]].holder = d
  <2>1. d # c /\ pc[d] = "wait"
    BY <1>2, <1>5
  <2>2. at'[d] = at[d] /\ at[d] \in live /\ busy[at[d]].holder = d /\ at[d] \in Pid
    BY <1>3, <2>1 DEF BusyLockExcludes, TypeOK
  <2>3. at[d] # at[c]
    BY <1>1, <2>1, <2>2
  <2> QED BY <1>2, <2>2, <2>3
<1>6. ASSUME NEW q \in live', q \in Pid, busy'[q].holder # None
      PROVE  pc'[busy'[q].holder] = "wait" /\ at'[busy'[q].holder] = q
  <2>1. q # at[c] /\ busy'[q] = busy[q]
    BY <1>2, <1>6
  <2>2. q \in live
    <3>1. q # started + 1
      BY <1>4, <1>6, <2>1 DEF Placement
    <3> QED BY <1>6, <3>1
  <2>3. /\ busy[q].holder \in Call
        /\ pc[busy[q].holder] = "wait"
        /\ at[busy[q].holder] = q
    BY <1>6, <2>1, <2>2 DEF BusyLockExcludes, TypeOK, Lock
  <2> QED BY <1>2, <1>3, <2>1, <2>3
<1>7. BusyLockExcludes'
  BY <1>5, <1>6 DEF BusyLockExcludes
<1>8. NoLostWakeup'
  BY <1>2 DEF NoLostWakeup
<1>9. \A p \in Pid : p > started' => busy'[p].holder = None
  BY <1>1, <1>2, <1>4 DEF Placement, Pid
<1>10. \A d \in Call : pc'[d] = "search" => pc[d] = "search" /\ d # c
  BY <1>2
<1> QED BY <1>2, <1>7, <1>8, <1>9, <1>10

\* The answers and exceptions that do not restart the process, a cancellation.
LEMMA AnswerInv ==
  ASSUME CoreInv, NEW c \in Call, pc[c] = "wait",
         NEW ending \in CallEnding,
         Leave(c, ending, sessions), ReleaseProcess(c),
         WorkerTypeOK', UNCHANGED <<foreign, search, live, started>>
  PROVE  CoreInv'
<1> USE DEF CoreInv
<1>1. /\ out' \in [Call -> CallEnding]
      /\ sessions' \in SessionTable
      /\ at' \in [Call -> Pid \cup {0}] /\ at' = [at EXCEPT ![c] = 0]
      /\ lk' \in [Call -> Call \cup {None}] /\ lk' = [lk EXCEPT ![c] = None]
      /\ \A s \in Session : sessions'[s] # None => sessions'[s] = sessions[s]
  BY LeaveLemma DEF TypeOK
<1>2. /\ BusyLockExcludes' /\ NoLostWakeup'
      /\ \A p \in Pid : p > started' => busy'[p].holder = None
      /\ pc' \in [Call -> Places] /\ busy' \in [Pid -> Lock] /\ event' \in BOOLEAN
      /\ \A d \in Call : pc'[d] = "search" => pc[d] = "search" /\ d # c
  BY <1>1, HolderLeaves DEF TypeOK
<1>3. TypeOK'
  BY <1>1, <1>2 DEF TypeOK
<1>4. Placement'
  <2>1. started \in Nat
    BY RequestsAssumption DEF TypeOK, Pid
  <2>2. \A d \in Call : at'[d] <= started'
    BY <1>1, <2>1 DEF Placement, TypeOK
  <2>3. \A d \in Call : pc'[d] = "search" => lk'[d] # None /\ Sess(d) # None
    BY <1>1, <1>2 DEF Placement, TypeOK
  <2> QED BY <1>2, <2>2, <2>3 DEF Placement
<1>5. SessionsPointToLive'
  BY <1>1 DEF SessionsPointToLive
<1> QED BY <1>2, <1>3, <1>4, <1>5

\* A failure that restarts the process of c.
LEMMA BreakInv ==
  ASSUME CoreInv, NEW c \in Call, pc[c] = "wait", NEW ending \in CallEnding, Break(c, ending)
  PROVE  CoreInv'
<1> USE DEF CoreInv
<1> DEFINE p == at[c]
<1>0. p \in live /\ p \in Pid
  BY DEF TypeOK, BusyLockExcludes
<1>1. /\ WorkerTypeOK'
      /\ started' \in Pid /\ started' = started + 1
      /\ live' \in SUBSET Pid /\ live' = (live \ {p}) \cup {started + 1}
  BY <1>0, RestartLemma DEF Break
<1>2. /\ Surviving(p) \in SessionTable
      /\ \A s \in Session : Surviving(p)[s] # None =>
           Surviving(p)[s] = sessions[s] /\ sessions[s].pid # p
  BY DEF Surviving, SessionTable, TypeOK
<1>3. /\ out' \in [Call -> CallEnding]
      /\ sessions' \in SessionTable
      /\ at' \in [Call -> Pid \cup {0}] /\ at' = [at EXCEPT ![c] = 0]
      /\ lk' \in [Call -> Call \cup {None}] /\ lk' = [lk EXCEPT ![c] = None]
      /\ \A s \in Session : sessions'[s] # None => sessions'[s] = Surviving(p)[s]
  BY <1>2, LeaveLemma DEF Break
<1>4. /\ BusyLockExcludes' /\ NoLostWakeup'
      /\ \A q \in Pid : q > started' => busy'[q].holder = None
      /\ pc' \in [Call -> Places] /\ busy' \in [Pid -> Lock] /\ event' \in BOOLEAN
      /\ \A d \in Call : pc'[d] = "search" => pc[d] = "search" /\ d # c
  BY <1>1, <1>3, HolderLeaves DEF Break
<1>5. TypeOK'
  BY <1>1, <1>3, <1>4 DEF TypeOK, Break
<1>6. Placement'
  <2>1. started \in Nat
    BY RequestsAssumption DEF TypeOK, Pid
  <2>2. ASSUME NEW q \in live' PROVE q \in 1..started'
    <3>1. CASE q = started + 1
      BY <1>1, <2>1, <3>1
    <3>2. CASE q \in live
      <4>1. q \in 1..started
        BY <3>2 DEF Placement
      <4> QED BY <1>1, <2>1, <4>1
    <3> QED BY <1>1, <3>1, <3>2
  <2>3. \A d \in Call : at'[d] <= started'
    BY <1>1, <1>3, <2>1 DEF Placement, TypeOK, Pid
  <2>4. \A d \in Call : pc'[d] = "search" => lk'[d] # None /\ Sess(d) # None
    BY <1>3, <1>4 DEF Placement, TypeOK
  <2> QED BY <1>4, <2>2, <2>3, <2>4 DEF Placement
<1>7. SessionsPointToLive'
  <2> SUFFICES ASSUME NEW s \in Session, sessions'[s] # None
               PROVE  sessions'[s].pid \in live'
    BY DEF SessionsPointToLive
  <2>1. sessions'[s] = sessions[s] /\ sessions[s].pid # p
    BY <1>2, <1>3
  <2> QED BY <1>1, <2>1 DEF SessionsPointToLive
<1> QED BY <1>4, <1>5, <1>6, <1>7

\* Steps of the workers leave the manager's own variables alone.
LEMMA WorkerInv ==
  ASSUME CoreInv, UNCHANGED managerVars, WorkerTypeOK'
  PROVE  CoreInv'
BY DEF CoreInv, managerVars, TypeOK, Placement, BusyLockExcludes, SessionsPointToLive,
       NoLostWakeup

\* A result is computed from a context that is there: None, which stands for
\* a missing one, never gets into a pickled message.
LEMMA ResultType ==
  ASSUME TypeOK, NEW p \in Pid, NEW c \in Call, Accepts(p, c), HasResult(c)
  PROVE  Result(p, c) \in SUBSET Call
<1> USE DEF TypeOK, WorkerTypeOK
<1>1. SessionOf[c] # None => SessionOf[c] \in Session
  BY RequestsAssumption
<1>2. SessionOf[c] # None => ctx[p][SessionOf[c]] \in SUBSET Call
  BY <1>1, RequestsAssumption DEF Accepts, NoSuchSession, HasResult
<1> QED BY <1>2 DEF Result

\* Type correctness of the handlers of a worker.
LEMMA HandleType ==
  ASSUME TypeOK, NEW p \in Pid, NEW c \in Call, Handle(p, c)
  PROVE  WorkerTypeOK'
<1> USE DEF TypeOK, WorkerTypeOK
<1>1. ASSUME NEW t \in Classes, Receives(p, c, Msg(t, c))
      PROVE  /\ toW' \in [Pid -> Seq(Call)] /\ toM' \in [Pid -> Seq(Message)]
             /\ worker' \in [Pid -> [up : BOOLEAN, reply : Seq(Message)]]
             /\ handled' \in SUBSET Call
  <2>1. <<Msg(t, c)>> \in Seq(Message)
    BY DEF Msg, Message
  <2>2. worker' \in [Pid -> [up : BOOLEAN, reply : Seq(Message)]]
    BY <1>1, <2>1 DEF Receives
  <2>3. toW' \in [Pid -> Seq(Call)]
    BY <1>1 DEF Receives
  <2> QED BY <1>1, <2>2, <2>3 DEF Receives
<1>2. ASSUME Accepts(p, c) PROVE Updated(p, c) \in [Session -> {None} \cup SUBSET Call]
  <2>1. CASE SessionOf[c] = None
    BY <2>1 DEF Updated
  <2>2. CASE SessionOf[c] # None
    <3>1. SessionOf[c] \in Session /\ Type[c] \in {"init_session", "data", "clear"}
      BY <2>2, RequestsAssumption
    <3>2. Type[c] = "data" => ctx[p][SessionOf[c]] \in SUBSET Call
      BY <1>2, <2>2, <3>1 DEF Accepts, NoSuchSession
    <3> QED BY <2>2, <3>1, <3>2 DEF Updated
  <2> QED BY <2>1, <2>2
<1>3. ASSUME Accepts(p, c), HasResult(c) PROVE Result(p, c) \in SUBSET Call
  BY <1>3, ResultType
<1>4. CASE Reject(p, c)
  BY <1>1, <1>4 DEF Reject, Classes
<1>5. CASE FailEarly(p, c)
  BY <1>1, <1>5 DEF FailEarly, Classes
<1>6. CASE Acknowledge(p, c)
  <2>1. ctx' \in [Pid -> [Session -> {None} \cup SUBSET Call]]
    BY <1>2, <1>6 DEF Acknowledge
  <2> QED BY <1>1, <1>6, <2>1 DEF Acknowledge, Classes
<1>7. CASE WriteResult(p, c)
  <2>1. ctx' \in [Pid -> [Session -> {None} \cup SUBSET Call]]
    BY <1>2, <1>7 DEF WriteResult
  <2>2. /\ shm' \in [Pid -> [of : Call, data : SUBSET Call] \cup {None}]
        /\ answer' \in [Call -> {None} \cup SUBSET Call]
    BY <1>3, <1>7 DEF WriteResult
  <2> QED BY <1>1, <1>7, <2>1, <2>2 DEF WriteResult, Classes
<1>8. CASE OverflowResult(p, c)
  <2>1. ctx' \in [Pid -> [Session -> {None} \cup SUBSET Call]]
    BY <1>2, <1>8 DEF OverflowResult
  <2> QED BY <1>1, <1>8, <2>1 DEF OverflowResult, Classes
<1> QED BY <1>4, <1>5, <1>6, <1>7, <1>8 DEF Handle

\* Type correctness of a reply and of a death.
LEMMA ReplyType ==
  ASSUME TypeOK, NEW p \in Pid, Reply(p) \/ Die(p)
  PROVE  WorkerTypeOK'
<1> USE DEF TypeOK, WorkerTypeOK
<1>1. CASE Reply(p)
  <2>1. worker[p].reply \in Seq(Message) /\ toM[p] \in Seq(Message)
    OBVIOUS
  <2>2. toM[p] \o worker[p].reply \in Seq(Message)
    BY <2>1, ConcatProperties
  <2>3. toM' \in [Pid -> Seq(Message)]
    BY <1>1, <2>2 DEF Reply
  <2>4. worker' \in [Pid -> [up : BOOLEAN, reply : Seq(Message)]]
    <3>1. <<>> \in Seq(Message)
      BY EmptySeq
    <3> QED BY <1>1, <3>1 DEF Reply
  <2> QED BY <1>1, <2>3, <2>4 DEF Reply
<1>2. CASE Die(p)
  BY <1>2 DEF Die, Dead
<1> QED BY <1>1, <1>2

\* A step in which no request begins or stops waiting for an answer.
LEMMA QuietInv ==
  ASSUME CoreInv, TypeOK',
         UNCHANGED <<live, started>>,
         \A p \in Pid : \/ busy'[p].holder = busy[p].holder
                        \/ p \notin live /\ p <= started,
         NEW c \in Call,
         pc[c] # "wait", pc'[c] # "wait",
         \A d \in Call : d # c => pc'[d] = pc[d] /\ at'[d] = at[d] /\ lk'[d] = lk[d],
         at'[c] \in {at[c], 0},
         pc'[c] = "search" => lk'[c] # None /\ Sess(c) # None,
         \A s \in Session : sessions'[s] # None => sessions'[s] = sessions[s],
         \/ event' = event /\ pc'[c] # "parked"
         \/ event' = FALSE /\ \A p \in live : busy[p].holder # None
  PROVE  CoreInv'
<1> USE DEF CoreInv
<1>1. started \in Nat /\ \A p \in live : p \in Pid /\ p <= started
  BY RequestsAssumption DEF TypeOK, Placement, Pid
<1>2. Placement'
  <2>1. \A d \in Call : at'[d] <= started
    BY <1>1 DEF Placement
  <2>2. \A d \in Call : pc'[d] = "search" => lk'[d] # None /\ Sess(d) # None
    BY DEF Placement
  <2>3. \A p \in Pid : p > started => busy'[p].holder = None
    BY <1>1 DEF Placement, Pid
  <2> QED BY <2>1, <2>2, <2>3 DEF Placement
<1>3. BusyLockExcludes'
  <2>1. ASSUME NEW d \in Call, pc'[d] = "wait"
        PROVE  at'[d] \in live /\ busy'[at'[d]].holder = d
    <3>1. d # c /\ pc[d] = "wait" /\ at'[d] = at[d]
      BY <2>1
    <3> QED BY <1>1, <3>1 DEF BusyLockExcludes
  <2>2. ASSUME NEW p \in live, busy'[p].holder # None
        PROVE  pc'[busy'[p].holder] = "wait" /\ at'[busy'[p].holder] = p
    <3>1. busy'[p].holder = busy[p].holder /\ busy[p].holder \in Call
      BY <1>1, <2>2 DEF TypeOK, Lock
    <3> QED BY <2>2, <3>1 DEF BusyLockExcludes
  <2> QED BY <2>1, <2>2 DEF BusyLockExcludes
<1>4. SessionsPointToLive'
  BY DEF SessionsPointToLive
<1>5. NoLostWakeup'
  BY <1>1 DEF NoLostWakeup, Unlocked
<1> QED BY <1>2, <1>3, <1>4, <1>5

\* A request without session scans the processes and seizes one or parks.
LEMMA ScanInv ==
  ASSUME CoreInv, NEW c \in Call, pc[c] \in {"new", "woken"}, Scan(c),
         \/ event' = FALSE
         \/ event' = (event /\ \E p \in live : Unlocked(busy[p])),
         UNCHANGED <<lk, search, sessions>>
  PROVE  CoreInv'
<1> USE DEF CoreInv
<1>1. ASSUME NEW p \in live, Seize(c, p), \E q \in live : Unlocked(busy[q]) PROVE CoreInv'
  <2>1. live' = live /\ event' \in {event, FALSE}
    BY <1>1 DEF Seize, TypeOK
  <2>2. \A d \in Call : pc'[d] = "search" => lk'[d] # None
    BY <1>1, SeizeLemma DEF TypeOK, Placement
  <2>3. SessionsPointToLive'
    BY <2>1 DEF SessionsPointToLive
  <2> QED BY <1>1, <2>1, <2>2, <2>3, SeizeInv DEF TypeOK
<1>2. CASE /\ {p \in live : Unlocked(busy[p])} = {}
           /\ pc' = [pc EXCEPT ![c] = "parked"]
           /\ UNCHANGED <<at, foreign, out, live, started, busy, workerVars>>
  <2>1. event' = FALSE /\ \A p \in live : busy[p].holder # None
    BY <1>2 DEF Unlocked, TypeOK
  <2>2. WorkerTypeOK'
    BY <1>2 DEF TypeOK, WorkerTypeOK, workerVars
  <2>3. TypeOK'
    BY <1>2, <2>1, <2>2 DEF TypeOK, Places
  <2>4. pc'[c] = "parked" /\ \A d \in Call : d # c => pc'[d] = pc[d]
    BY <1>2 DEF TypeOK
  <2> QED BY <1>2, <2>1, <2>3, <2>4, QuietInv
<1> QED BY <1>1, <1>2 DEF Scan

-----------------------------------------------------------------------------
\* The start of a request keeps the invariant.
LEMMA StartInv ==
  ASSUME CoreInv, NEW c \in Call, Start(c)
  PROVE  CoreInv'
<1> USE DEF CoreInv
<1>0. pc[c] = "new" /\ (Sess(c) # None => Sess(c) \in Session)
  BY RequestsAssumption DEF Start, OpenEntry, JoinEntry, QueueSearch, RefuseInit,
     SkipClear, StartPlain, MayStart, Sess
<1>1. ASSUME NEW p \in live, NEW l \in Call, SeizeForSession(c, p, l)
      PROVE  /\ Seize(c, p) /\ event' = event
             /\ lk' \in [Call -> Call \cup {None}] /\ search' \in [Call -> Lock]
             /\ \A d \in Call : pc'[d] = "search" => lk'[d] # None
  <2>1. Take(search[l], c) \in Lock /\ Release(Take(search[l], c)) \in Lock
    BY LockTypes DEF TypeOK
  <2>2. search' \in [Call -> Lock]
    BY <1>1, <2>1 DEF SeizeForSession, TypeOK
  <2>3. lk' \in [Call -> Call \cup {None}] /\ lk'[c] = l /\ l # None
        /\ \A d \in Call : d # c => lk'[d] = lk[d]
    BY <1>1, RequestsAssumption DEF SeizeForSession, TypeOK
  <2>4. \A d \in Call : d # c => pc'[d] = pc[d]
    BY <1>1, SeizeLemma DEF SeizeForSession, TypeOK
  <2> QED BY <1>1, <2>2, <2>3, <2>4 DEF SeizeForSession, Placement
<1>2. ASSUME NEW p \in live, OpenEntry(c, p) PROVE CoreInv'
  <2>1. SeizeForSession(c, p, c) /\ p \in Pid
    BY <1>2 DEF OpenEntry, TypeOK
  <2>2. /\ sessions' \in SessionTable
        /\ \A s \in Session : sessions'[s] = sessions[s] \/ sessions'[s].pid = p
    BY <1>0, <1>2, <2>1 DEF OpenEntry, TypeOK, SessionTable
  <2>3. live' = live
    BY <2>1 DEF SeizeForSession, Seize
  <2>4. SessionsPointToLive'
    BY <2>2, <2>3 DEF SessionsPointToLive
  <2> QED BY <1>0, <1>1, <2>1, <2>2, <2>4, SeizeInv
<1>3. CASE JoinEntry(c)
  <2> DEFINE e == sessions[Sess(c)]
  <2>1. e.lock \in Call /\ e.pid \in live /\ SeizeForSession(c, e.pid, e.lock)
    BY <1>0, <1>3 DEF JoinEntry, TypeOK, SessionTable, SessionsPointToLive
  <2>2. sessions' = sessions /\ live' = live
    BY <1>3, <2>1 DEF JoinEntry, SeizeForSession, Seize
  <2>3. sessions' \in SessionTable /\ SessionsPointToLive'
    BY <2>2 DEF TypeOK, SessionsPointToLive
  <2> HIDE DEF e
  <2> QED BY <1>0, <1>1, <2>1, <2>3, SeizeInv
<1>4. CASE QueueSearch(c)
  <2> DEFINE l == sessions[Sess(c)].lock
  <2>1. l \in Call /\ l # None
    BY <1>0, <1>4, RequestsAssumption DEF QueueSearch, TypeOK, SessionTable
  <2>2. Enqueue(search[l], c) \in Lock
    BY <2>1, LockTypes DEF TypeOK
  <2>3. /\ search' = [search EXCEPT ![l] = Enqueue(@, c)]
        /\ lk' = [lk EXCEPT ![c] = l]
        /\ pc' = [pc EXCEPT ![c] = "search"]
        /\ UNCHANGED <<at, foreign, out, sessions, live, started, busy, event, workerVars>>
    BY <1>4 DEF QueueSearch
  <2> HIDE DEF l
  <2>4. WorkerTypeOK'
    BY <2>3 DEF TypeOK, WorkerTypeOK, workerVars
  <2>5. TypeOK'
    BY <2>1, <2>2, <2>3, <2>4 DEF TypeOK, Places
  <2>6. /\ pc'[c] = "search" /\ lk'[c] = l /\ Sess(c) # None
        /\ \A d \in Call : d # c => pc'[d] = pc[d] /\ lk'[d] = lk[d]
    BY <1>4, <2>3 DEF TypeOK, QueueSearch
  <2> QED BY <1>0, <2>1, <2>3, <2>5, <2>6, QuietInv
<1>5. CASE RefuseInit(c) \/ SkipClear(c)
  <2>1. PICK how \in Endings :
          /\ pc' = [pc EXCEPT ![c] = "done"]
          /\ out' = [out EXCEPT ![c] = Ending(how)]
          /\ UNCHANGED <<at, lk, foreign, search, sessions, live, started, busy, event, workerVars>>
    BY <1>5 DEF RefuseInit, SkipClear, Endings
  <2>2. Ending(how) \in CallEnding
    BY DEF Ending, CallEnding
  <2>3. WorkerTypeOK'
    BY <2>1 DEF TypeOK, WorkerTypeOK, workerVars
  <2>4. TypeOK'
    BY <2>1, <2>2, <2>3 DEF TypeOK, Places
  <2>5. pc'[c] = "done" /\ \A d \in Call : d # c => pc'[d] = pc[d]
    BY <2>1 DEF TypeOK
  <2> QED BY <1>0, <2>1, <2>4, <2>5, QuietInv
<1>6. CASE StartPlain(c)
  BY <1>0, <1>6, ScanInv DEF StartPlain
<1> QED BY <1>2, <1>3, <1>4, <1>5, <1>6 DEF Start

\* The search lock that a request gives back when it has the busy lock.
LEMMA GiveBackType ==
  ASSUME TypeOK, NEW c \in Call, GiveBackSearch(c)
  PROVE  search' \in [Call -> Lock]
<1>1. CASE lk[c] = None
  BY <1>1 DEF GiveBackSearch, TypeOK
<1>2. CASE lk[c] # None
  <2>1. lk[c] \in Call
    BY <1>2 DEF TypeOK
  <2>2. Release(search[lk[c]]) \in Lock
    BY <2>1, LockTypes DEF TypeOK
  <2> QED BY <1>2, <2>1, <2>2 DEF GiveBackSearch, TypeOK
<1> QED BY <1>1, <1>2

\* A task woken in one of its queues keeps the invariant.
LEMMA AcquireInv ==
  ASSUME CoreInv, NEW c \in Call,
         AcquireSearch(c) \/ AcquireSearchLost(c) \/ AcquireBusy(c) \/ AcquireStale(c)
  PROVE  CoreInv'
<1> USE DEF CoreInv
<1>0. \A how \in Endings : Ending(how) \in CallEnding
  BY DEF Ending, CallEnding
<1>1. CASE AcquireSearch(c)
  <2> DEFINE p == sessions[Sess(c)].pid
             l == lk[c]
  <2>1. l \in Call /\ l # None /\ pc[c] = "search"
    BY <1>1 DEF AcquireSearch, TypeOK, Placement
  <2>2. p \in live /\ SeizeForSession(c, p, l)
    <3>1. Sess(c) \in Session
      BY <1>1, RequestsAssumption DEF AcquireSearch, Sess, Placement
    <3> QED BY <1>1, <3>1 DEF AcquireSearch, SessionsPointToLive
  <2>3. sessions' = sessions /\ live' = live
    BY <1>1, <2>2 DEF AcquireSearch, SeizeForSession, Seize
  <2>4. sessions' \in SessionTable /\ SessionsPointToLive'
    BY <2>3 DEF TypeOK, SessionsPointToLive
  <2> HIDE DEF p, l
  <2>5. Take(search[l], c) \in Lock /\ Release(Take(search[l], c)) \in Lock
    BY <2>1, LockTypes DEF TypeOK
  <2>6. search' \in [Call -> Lock] /\ lk' = [lk EXCEPT ![c] = l] /\ Seize(c, p) /\ event' = event
    BY <2>1, <2>2, <2>5 DEF SeizeForSession, TypeOK
  <2>7. lk' \in [Call -> Call \cup {None}] /\ lk'[c] = l /\ \A d \in Call : d # c => lk'[d] = lk[d]
    BY <2>1, <2>6 DEF TypeOK
  <2>8. \A d \in Call : d # c => pc'[d] = pc[d]
    BY <2>2, <2>6, SeizeLemma DEF TypeOK
  <2> QED BY <2>1, <2>2, <2>4, <2>6, <2>7, <2>8, SeizeInv DEF Placement
<1>2. CASE AcquireSearchLost(c)
  <2>1. lk[c] \in Call /\ pc[c] = "search"
    BY <1>2 DEF AcquireSearchLost, TypeOK, Placement
  <2>2. search' \in [Call -> Lock]
    BY <1>2, <2>1, LockTypes DEF AcquireSearchLost, TypeOK
  <2>3. /\ out' \in [Call -> CallEnding] /\ sessions' \in SessionTable
        /\ at' \in [Call -> Pid \cup {0}] /\ at' = [at EXCEPT ![c] = 0]
        /\ lk' \in [Call -> Call \cup {None}] /\ lk' = [lk EXCEPT ![c] = None]
        /\ \A s \in Session : sessions'[s] # None => sessions'[s] = sessions[s]
    BY <1>0, <1>2, LeaveLemma DEF AcquireSearchLost, TypeOK, Endings
  <2>4. WorkerTypeOK'
    BY <1>2 DEF AcquireSearchLost, TypeOK, WorkerTypeOK, workerVars
  <2>5. TypeOK'
    BY <1>2, <2>2, <2>3, <2>4 DEF AcquireSearchLost, TypeOK, Places
  <2>6. /\ pc'[c] = "done" /\ at'[c] = 0
        /\ \A d \in Call : d # c => pc'[d] = pc[d] /\ at'[d] = at[d] /\ lk'[d] = lk[d]
    BY <1>2, <2>3 DEF AcquireSearchLost, TypeOK
  <2> QED BY <1>2, <2>1, <2>3, <2>5, <2>6, QuietInv DEF AcquireSearchLost
<1>3. CASE AcquireBusy(c)
  <2> DEFINE p == at[c]
  <2>1. p \in live /\ p \in Pid /\ pc[c] = "busy" /\ busy[p].holder = None
    BY <1>3 DEF AcquireBusy, TypeOK, Turn, Unlocked
  <2>2. Take(busy[p], c) \in Lock /\ Take(busy[p], c).holder = c
    BY <2>1, LockTypes DEF TypeOK
  <2>3. /\ busy' = [busy EXCEPT ![p] = Take(@, c)]
        /\ pc' = [pc EXCEPT ![c] = "wait"]
        /\ toM' = [toM EXCEPT ![p] = <<>>]
        /\ toW' = [toW EXCEPT ![p] = Append(@, c)]
        /\ UNCHANGED <<at, lk, foreign, out, sessions, live, started, event, pipeVars>>
    BY <1>3 DEF AcquireBusy
  <2>4. search' \in [Call -> Lock]
    BY <1>3, GiveBackType DEF AcquireBusy
  <2> HIDE DEF p
  <2>5. WorkerTypeOK'
    BY <2>1, <2>3 DEF TypeOK, WorkerTypeOK, pipeVars
  <2>6. TypeOK'
    BY <2>1, <2>2, <2>3, <2>4, <2>5 DEF TypeOK, Places
  <2>7. /\ busy'[p].holder = c /\ \A q \in Pid : q # p => busy'[q] = busy[q]
        /\ pc'[c] = "wait" /\ \A d \in Call : d # c => pc'[d] = pc[d]
    BY <2>1, <2>2, <2>3 DEF TypeOK
  <2>8. at[c] = p /\ started \in Nat /\ p <= started /\ c # None
    BY <2>1, RequestsAssumption DEF p, Placement, TypeOK, Pid
  <2>9. Placement'
    <3>1. \A q \in Pid : q > started => busy'[q].holder = None
      BY <2>7, <2>8 DEF Placement, Pid
    <3> QED BY <2>3, <2>7, <3>1 DEF Placement
  <2>10. BusyLockExcludes'
    <3>1. ASSUME NEW d \in Call, pc'[d] = "wait"
          PROVE  at[d] \in live /\ busy'[at[d]].holder = d
      <4>1. CASE d = c
        BY <2>1, <2>7, <2>8, <4>1
      <4>2. CASE d # c
        <5>1. at[d] \in live /\ at[d] \in Pid /\ busy[at[d]].holder = d /\ d # None
          BY <2>7, <3>1, <4>2, RequestsAssumption DEF BusyLockExcludes, TypeOK
        <5> QED BY <2>1, <2>7, <5>1
      <4> QED BY <4>1, <4>2
    <3>2. ASSUME NEW q \in live, busy'[q].holder # None
          PROVE  pc'[busy'[q].holder] = "wait" /\ at[busy'[q].holder] = q
      <4>1. q \in Pid /\ busy[q].holder \in Call \cup {None}
        BY DEF TypeOK, Lock
      <4>2. CASE q = p
        BY <2>7, <2>8, <4>2
      <4>3. CASE q # p
        BY <2>1, <2>7, <3>2, <4>1, <4>3 DEF BusyLockExcludes
      <4> QED BY <4>2, <4>3
    <3> QED BY <2>3, <3>1, <3>2 DEF BusyLockExcludes
  <2>11. SessionsPointToLive'
    BY <2>3 DEF SessionsPointToLive
  <2>12. NoLostWakeup'
    BY <2>1, <2>3, <2>7, <2>8 DEF NoLostWakeup, Unlocked, TypeOK
  <2> QED BY <2>6, <2>9, <2>10, <2>11, <2>12
<1>4. CASE AcquireStale(c)
  <2> DEFINE p == at[c]
  <2>1. p \notin live /\ pc[c] = "busy" /\ busy' = [busy EXCEPT ![p] = Take(@, c)]
    BY <1>4 DEF AcquireStale
  <2>2. busy' \in [Pid -> Lock] /\ \A q \in Pid : q # p => busy'[q] = busy[q]
    BY <2>1, LockTypes DEF TypeOK
  <2>3. search' \in [Call -> Lock]
    BY <1>4, GiveBackType DEF AcquireStale
  <2>4. /\ out' \in [Call -> CallEnding] /\ sessions' \in SessionTable
        /\ at' \in [Call -> Pid \cup {0}] /\ at' = [at EXCEPT ![c] = 0]
        /\ lk' \in [Call -> Call \cup {None}] /\ lk' = [lk EXCEPT ![c] = None]
        /\ \A s \in Session : sessions'[s] # None => sessions'[s] = sessions[s]
    BY <1>0, <1>4, LeaveLemma DEF AcquireStale, TypeOK, Endings
  <2>5. WorkerTypeOK'
    BY <1>4 DEF AcquireStale, TypeOK, WorkerTypeOK, workerVars
  <2>6. TypeOK'
    BY <1>4, <2>2, <2>3, <2>4, <2>5 DEF AcquireStale, TypeOK, Places
  <2>7. /\ pc'[c] = "done" /\ at'[c] = 0
        /\ \A d \in Call : d # c => pc'[d] = pc[d] /\ at'[d] = at[d] /\ lk'[d] = lk[d]
    BY <1>4, <2>4 DEF AcquireStale, TypeOK
  <2>8. \A q \in Pid : busy'[q].holder = busy[q].holder \/ (q \notin live /\ q <= started)
    BY <2>1, <2>2 DEF Placement
  <2>9. UNCHANGED <<live, started, event>>
    BY <1>4 DEF AcquireStale
  <2> QED BY <2>1, <2>4, <2>6, <2>7, <2>8, <2>9, QuietInv
<1> QED BY <1>1, <1>2, <1>3, <1>4

\* What c reads from the shared memory is a pickled message.
LEMMA ReadType ==
  ASSUME CoreInv, Mailbox, NEW c \in Call, ReceiveAnswer(c)
  PROVE  \E ending \in CallEnding : Leave(c, ending, sessions)
<1> DEFINE p == at[c]
           m == NextAnswer(c)
           written == shm[p]
           ending == IF HasResult(c) THEN EndingWith("ok", written.of, written.data)
                     ELSE EndingWith("ok", c, {})
<1>1. p \in Pid /\ toM[p] \in Seq(Message) /\ toM[p] # <<>>
  BY DEF ReceiveAnswer, Waiting, CoreInv, BusyLockExcludes, TypeOK, WorkerTypeOK
<1>2. m \in Replies(p)
  BY <1>1 DEF NextAnswer, Replies
<1>3. m.of = c /\ m.type \in {"ok", "check_shared_memory"}
  BY DEF ReceiveAnswer
<1>4. HasResult(c) => written \in [of : Call, data : SUBSET Call]
  BY <1>1, <1>2, <1>3 DEF Mailbox
<1>5. ending \in CallEnding
  BY <1>4 DEF EndingWith, CallEnding, Endings
<1>6. Leave(c, ending, sessions)
  BY DEF ReceiveAnswer
<1> QED BY <1>5, <1>6

\* A message received from the pipe keeps the invariant.
LEMMA ReceiveInv ==
  ASSUME CoreInv, Mailbox, NEW c \in Call,
         \/ ReceiveAnswer(c) \/ ReceiveException(c) \/ ReceiveOSError(c)
         \/ SkipForeign(c) \/ TooManyForeign(c)
  PROVE  CoreInv'
<1> USE DEF CoreInv
<1>1. pc[c] = "wait" /\ at[c] \in live /\ at[c] \in Pid
  BY DEF ReceiveAnswer, ReceiveException, ReceiveOSError, SkipForeign, TooManyForeign,
     Waiting, BusyLockExcludes, TypeOK
<1>2. toM[at[c]] \in Seq(Message) /\ toM[at[c]] # <<>>
  BY <1>1 DEF ReceiveAnswer, ReceiveException, ReceiveOSError, SkipForeign, TooManyForeign,
     Waiting, TypeOK, WorkerTypeOK
<1>3. NextAnswer(c) \in Message /\ Tail(toM[at[c]]) \in Seq(Message)
  BY <1>2 DEF NextAnswer
<1>4. ASSUME Consume(c) PROVE toM' \in [Pid -> Seq(Message)]
  BY <1>1, <1>3, <1>4 DEF Consume, TypeOK, WorkerTypeOK
<1>5. CASE ReceiveException(c)
  <2>1. EndingWith("Exception", NextAnswer(c).of, {}) \in CallEnding
    BY <1>3 DEF EndingWith, CallEnding, Endings, Message
  <2>2. WorkerTypeOK'
    BY <1>4, <1>5 DEF ReceiveException, TypeOK, WorkerTypeOK, pipeVars
  <2> QED BY <1>1, <1>5, <2>1, <2>2, AnswerInv DEF ReceiveException
<1>6. CASE ReceiveOSError(c)
  <2>1. EndingWith("OSError", NextAnswer(c).of, {}) \in CallEnding
    BY <1>3 DEF EndingWith, CallEnding, Endings, Message
  <2> QED BY <1>1, <1>6, <2>1, BreakInv DEF ReceiveOSError
<1>7. CASE TooManyForeign(c)
  <2>1. Ending("OSError") \in CallEnding
    BY DEF Ending, CallEnding, Endings
  <2> QED BY <1>1, <1>7, <2>1, BreakInv DEF TooManyForeign
<1>8. CASE SkipForeign(c)
  <2>1. foreign' \in [Call -> Nat] /\ WorkerTypeOK'
    BY <1>4, <1>8 DEF SkipForeign, TypeOK, WorkerTypeOK, pipeVars
  <2>2. UNCHANGED <<pc, at, lk, out, search, sessions, live, started, busy, event>>
    BY <1>8 DEF SkipForeign
  <2> QED BY <2>1, <2>2 DEF TypeOK, Placement, BusyLockExcludes, SessionsPointToLive, NoLostWakeup
<1>9. CASE ReceiveAnswer(c)
  <2>0. PICK ending \in CallEnding : Leave(c, ending, sessions)
    BY <1>9, ReadType DEF ReceiveAnswer
  <2>1. WorkerTypeOK'
    BY <1>4, <1>9 DEF ReceiveAnswer, TypeOK, WorkerTypeOK, pipeVars
  <2> QED BY <1>1, <1>9, <2>0, <2>1, AnswerInv DEF ReceiveAnswer
<1> QED BY <1>5, <1>6, <1>7, <1>8, <1>9

\* A timeout or a cancellation keeps the invariant.
LEMMA GiveUpInv ==
  ASSUME CoreInv, NEW c \in Call,
         HungTimeout(c) \/ ObtainTimeout(c) \/ CancelQueued(c) \/ CancelWaiting(c)
  PROVE  CoreInv'
<1> USE DEF CoreInv
<1>0. \A how \in Endings : Ending(how) \in CallEnding
  BY DEF Ending, CallEnding
<1>1. CASE HungTimeout(c)
  BY <1>0, <1>1, BreakInv DEF HungTimeout, Endings
<1>2. CASE CancelWaiting(c)
  <2>1. WorkerTypeOK'
    BY <1>2 DEF CancelWaiting, TypeOK, WorkerTypeOK, workerVars
  <2> QED BY <1>0, <1>2, <2>1, AnswerInv DEF CancelWaiting, Endings
<1>3. ASSUME NEW how \in Endings, LeaveQueue(c, how) PROVE CoreInv'
  <2>1. pc[c] \in {"search", "busy", "parked", "woken"}
    BY <1>3 DEF LeaveQueue
  <2>2. search' \in [Call -> Lock]
    <3>1. CASE pc[c] = "search"
      <4>1. lk[c] \in Call
        BY <3>1 DEF TypeOK, Placement
      <4>2. Drop(search[lk[c]], c) \in Lock
        BY <4>1, LockTypes DEF TypeOK
      <4> QED BY <1>3, <3>1, <4>1, <4>2 DEF LeaveQueue, TypeOK
    <3>2. CASE pc[c] # "search"
      BY <1>3, <3>2 DEF LeaveQueue, TypeOK
    <3> QED BY <3>1, <3>2
  <2>3. busy' \in [Pid -> Lock] /\ \A p \in Pid : busy'[p].holder = busy[p].holder
    <3>1. CASE pc[c] = "busy"
      <4>1. \A p \in Pid : Drop(busy[p], c) \in Lock /\ Drop(busy[p], c).holder = busy[p].holder
        BY LockTypes DEF TypeOK
      <4> QED BY <1>3, <3>1, <4>1 DEF LeaveQueue, TypeOK
    <3>2. CASE pc[c] # "busy"
      BY <1>3, <3>2 DEF LeaveQueue, TypeOK
    <3> QED BY <3>1, <3>2
  <2>4. /\ out' \in [Call -> CallEnding] /\ sessions' \in SessionTable
        /\ at' \in [Call -> Pid \cup {0}] /\ at' = [at EXCEPT ![c] = 0]
        /\ lk' \in [Call -> Call \cup {None}] /\ lk' = [lk EXCEPT ![c] = None]
        /\ \A s \in Session : sessions'[s] # None => sessions'[s] = sessions[s]
    BY <1>0, <1>3, LeaveLemma DEF LeaveQueue, TypeOK
  <2>5. WorkerTypeOK'
    BY <1>3 DEF LeaveQueue, TypeOK, WorkerTypeOK, workerVars
  <2>6. UNCHANGED <<foreign, live, started, event>> /\ pc' = [pc EXCEPT ![c] = "done"]
    BY <1>3 DEF LeaveQueue
  <2>7. TypeOK'
    BY <2>2, <2>3, <2>4, <2>5, <2>6 DEF TypeOK, Places
  <2>8. /\ pc'[c] = "done" /\ at'[c] = 0
        /\ \A d \in Call : d # c => pc'[d] = pc[d] /\ at'[d] = at[d] /\ lk'[d] = lk[d]
    BY <2>4, <2>6 DEF TypeOK
  <2> QED BY <2>1, <2>3, <2>4, <2>6, <2>7, <2>8, QuietInv
<1> QED BY <1>1, <1>2, <1>3 DEF ObtainTimeout, CancelQueued, Endings

\* Every step keeps CoreInv, given what Mailbox says of the pipes.
LEMMA CoreStep ==
  ASSUME IInv, [Next]_vars
  PROVE  CoreInv'
<1> USE DEF IInv
<1>1. ASSUME NEW c \in Call, Start(c) PROVE CoreInv'
  BY <1>1, StartInv
<1>2. ASSUME NEW c \in Call, Proceed(c) PROVE CoreInv'
  <2>1. CASE Wake(c)
    BY <2>1, ScanInv DEF Wake
  <2> QED BY <1>2, <2>1, AcquireInv, ReceiveInv DEF Proceed
<1>3. ASSUME NEW c \in Call, Timeout(c) \/ Cancel(c) PROVE CoreInv'
  BY <1>3, GiveUpInv DEF Timeout, Cancel
<1>4. ASSUME NEW p \in live, Work(p) \/ Kill(p) PROVE CoreInv'
  <2>1. p \in Pid /\ UNCHANGED managerVars
    BY <1>4 DEF Work, Kill, CoreInv, TypeOK
  <2>2. WorkerTypeOK'
    BY <1>4, <2>1, HandleType, ReplyType DEF Work, Kill, CoreInv
  <2> QED BY <2>1, <2>2, WorkerInv
<1>5. CASE UNCHANGED vars
  <2>1. WorkerTypeOK'
    BY <1>5 DEF vars, workerVars, CoreInv, TypeOK, WorkerTypeOK
  <2> QED BY <1>5, <2>1, WorkerInv DEF vars
<1> QED BY <1>1, <1>2, <1>3, <1>4, <1>5 DEF Next

-----------------------------------------------------------------------------
\* A step that only takes replies out of the pipes, or loses them.
LEMMA RepliesShrink ==
  ASSUME CoreInv, Mailbox, WorkerTypeOK', NEW q \in Pid,
         \/ toM'[q] = toM[q] \/ toM'[q] = <<>>
         \/ toM[q] # <<>> /\ toM'[q] = Tail(toM[q]),
         worker'[q].reply = worker[q].reply \/ worker'[q].reply = <<>>
  PROVE  Replies(q)' \subseteq Replies(q)
<1>1. toM[q] \in Seq(Message)
  BY DEF CoreInv, TypeOK, WorkerTypeOK
<1>2. ASSUME NEW j \in 1..Len(toM'[q])
      PROVE  \E k \in 1..Len(toM[q]) : toM[q][k] = toM'[q][j]
  <2>1. CASE toM'[q] = toM[q]
    BY <2>1
  <2>2. CASE toM'[q] = <<>>
    BY <2>2
  <2>3. CASE toM[q] # <<>> /\ toM'[q] = Tail(toM[q])
    <3>1. Len(toM'[q]) = Len(toM[q]) - 1 /\ toM'[q][j] = toM[q][j+1]
      BY <1>1, <2>3
    <3>2. j + 1 \in 1..Len(toM[q])
      BY <1>1, <3>1
    <3> QED BY <3>1, <3>2
  <2> QED BY <2>1, <2>2, <2>3
<1>3. ASSUME NEW j \in 1..Len(worker'[q].reply)
      PROVE  \E k \in 1..Len(worker[q].reply) : worker[q].reply[k] = worker'[q].reply[j]
  BY <1>3
<1>4. ASSUME NEW m \in Replies(q)' PROVE m \in Replies(q)
  <2>1. CASE \E j \in 1..Len(toM'[q]) : m = toM'[q][j]
    BY <1>2, <2>1 DEF Replies
  <2>2. CASE \E j \in 1..Len(worker'[q].reply) : m = worker'[q].reply[j]
    BY <1>3, <2>2 DEF Replies
  <2> QED BY <1>4, <2>1, <2>2 DEF Replies
<1> QED BY <1>4

\* With no new reply, Mailbox is kept.
LEMMA MailboxShrink ==
  ASSUME Mailbox, handled \subseteq handled',
         \A q \in Pid : /\ Replies(q)' \subseteq Replies(q)
                        /\ shm'[q] = shm[q] \/ Replies(q)' = {}
  PROVE  Mailbox'
BY DEF Mailbox

\* What every step of the manager does to the pipes.
LEMMA ManagerPipes ==
  ASSUME CoreInv, NEW c \in Call,
         Start(c) \/ Proceed(c) \/ Timeout(c) \/ Cancel(c)
  PROVE  /\ handled' = handled /\ answer' = answer
         /\ \A q \in Pid :
              /\ \/ toM'[q] = toM[q] \/ toM'[q] = <<>>
                 \/ toM[q] # <<>> /\ toM'[q] = Tail(toM[q])
              /\ \/ worker'[q].reply = worker[q].reply /\ shm'[q] = shm[q]
                 \/ q = started + 1 /\ worker'[q].reply = <<>> /\ shm'[q] = shm[q]
                 \/ worker'[q].reply = <<>> /\ toM'[q] = <<>>
<1> USE DEF CoreInv, TypeOK, WorkerTypeOK
<1>1. ASSUME NEW p \in live, Seize(c, p)
      PROVE  /\ UNCHANGED <<handled, answer, worker, shm>>
             /\ \A q \in Pid : toM'[q] = toM[q] \/ toM'[q] = <<>>
  BY <1>1 DEF Seize, pipeVars
<1>2. ASSUME NEW ending, Break(c, ending)
      PROVE  /\ UNCHANGED <<handled, answer>>
             /\ \A q \in Pid :
                  /\ toM'[q] = toM[q] \/ toM'[q] = <<>>
                  /\ \/ worker'[q].reply = worker[q].reply /\ shm'[q] = shm[q]
                     \/ q = started + 1 /\ worker'[q].reply = <<>> /\ shm'[q] = shm[q]
                     \/ worker'[q].reply = <<>> /\ toM'[q] = <<>>
  BY <1>2 DEF Break, Restart, Idle, Dead
<1>3. ASSUME Consume(c), Waiting(c)
      PROVE  \A q \in Pid : toM'[q] = toM[q] \/ (toM[q] # <<>> /\ toM'[q] = Tail(toM[q]))
  BY <1>3 DEF Consume, Waiting
<1>4. CASE Start(c)
  <2>1. CASE \E p \in live : OpenEntry(c, p)
    BY <1>1, <2>1 DEF OpenEntry, SeizeForSession
  <2>2. CASE JoinEntry(c)
    <3>1. sessions[Sess(c)].pid \in live
      BY <2>2, RequestsAssumption DEF JoinEntry, Sess, SessionsPointToLive
    <3> QED BY <1>1, <2>2, <3>1 DEF JoinEntry, SeizeForSession
  <2>3. CASE QueueSearch(c) \/ RefuseInit(c) \/ SkipClear(c)
    BY <2>3 DEF QueueSearch, RefuseInit, SkipClear, workerVars
  <2>4. CASE StartPlain(c)
    BY <1>1, <2>4 DEF StartPlain, Scan, workerVars
  <2> QED BY <1>4, <2>1, <2>2, <2>3, <2>4 DEF Start
<1>5. CASE Proceed(c)
  <2>1. CASE AcquireSearch(c)
    <3>1. sessions[Sess(c)].pid \in live
      BY <2>1, RequestsAssumption DEF AcquireSearch, Sess, SessionsPointToLive, Placement
    <3> QED BY <1>1, <2>1, <3>1 DEF AcquireSearch, SeizeForSession
  <2>2. CASE AcquireSearchLost(c) \/ AcquireStale(c)
    BY <2>2 DEF AcquireSearchLost, AcquireStale, workerVars
  <2>3. CASE AcquireBusy(c)
    BY <2>3 DEF AcquireBusy, pipeVars
  <2>4. CASE Wake(c)
    BY <1>1, <2>4 DEF Wake, Scan, workerVars
  <2>5. CASE ReceiveAnswer(c) \/ ReceiveException(c) \/ SkipForeign(c)
    BY <1>3, <2>5 DEF ReceiveAnswer, ReceiveException, SkipForeign, pipeVars
  <2>6. CASE ReceiveOSError(c) \/ TooManyForeign(c)
    BY <1>2, <2>6 DEF ReceiveOSError, TooManyForeign
  <2> QED BY <1>5, <2>1, <2>2, <2>3, <2>4, <2>5, <2>6 DEF Proceed
<1>6. CASE Timeout(c) \/ Cancel(c)
  <2>1. CASE HungTimeout(c)
    BY <1>2, <2>1 DEF HungTimeout
  <2>2. CASE ObtainTimeout(c) \/ CancelQueued(c) \/ CancelWaiting(c)
    BY <2>2 DEF ObtainTimeout, CancelQueued, CancelWaiting, LeaveQueue, workerVars
  <2> QED BY <1>6, <2>1, <2>2 DEF Timeout, Cancel
<1> QED BY <1>4, <1>5, <1>6

\* What a worker's step does to the pipes: one reply more, at most.
LEMMA WorkerPipes ==
  ASSUME CoreInv, NEW p \in Pid, NEW c \in Call, NEW t \in Classes,
         Receives(p, c, Msg(t, c))
  PROVE  /\ Replies(p)' \subseteq Replies(p) \cup {Msg(t, c)}
         /\ \A q \in Pid : q # p => Replies(q)' = Replies(q)
<1> USE DEF CoreInv, TypeOK, WorkerTypeOK
<1>1. toM' = toM /\ worker' = [worker EXCEPT ![p].reply = <<Msg(t, c)>>]
  BY DEF Receives
<1>2. worker'[p].reply = <<Msg(t, c)>> /\ \A q \in Pid : q # p => worker'[q] = worker[q]
  BY <1>1
<1>3. \A q \in Pid : q # p => Replies(q)' = Replies(q)
  BY <1>1, <1>2 DEF Replies
<1>4. ASSUME NEW m \in Replies(p)' PROVE m \in Replies(p) \cup {Msg(t, c)}
  <2>1. CASE \E j \in 1..Len(toM'[p]) : m = toM'[p][j]
    BY <1>1, <2>1 DEF Replies
  <2>2. CASE \E j \in 1..Len(worker'[p].reply) : m = worker'[p].reply[j]
    BY <1>2, <2>2
  <2> QED BY <1>4, <2>1, <2>2 DEF Replies
<1> QED BY <1>3, <1>4

\* A reply that is sent was there before, about to be sent.
LEMMA ReplyPipes ==
  ASSUME CoreInv, NEW p \in Pid, Reply(p)
  PROVE  \A q \in Pid : Replies(q)' \subseteq Replies(q)
<1> USE DEF CoreInv, TypeOK, WorkerTypeOK
<1> DEFINE a == toM[p]
           b == worker[p].reply
<1>1. a \in Seq(Message) /\ b \in Seq(Message)
  OBVIOUS
<1>2. /\ toM'[p] = a \o b /\ worker'[p].reply = <<>>
      /\ \A q \in Pid : q # p => toM'[q] = toM[q] /\ worker'[q] = worker[q]
  BY DEF Reply
<1>3. ASSUME NEW q \in Pid, NEW m \in Replies(q)', q # p PROVE m \in Replies(q)
  BY <1>2, <1>3 DEF Replies
<1>4. ASSUME NEW m \in Replies(p)' PROVE m \in Replies(p)
  <2>1. PICK j \in 1..Len(a \o b) : m = (a \o b)[j]
    BY <1>2 DEF Replies
  <2> HIDE DEF a, b
  <2>2. CASE j <= Len(a)
    <3>1. m = a[j] /\ j \in 1..Len(a)
      BY <1>1, <2>1, <2>2
    <3> QED BY <3>1 DEF Replies, a
  <2>3. CASE j > Len(a)
    <3>1. m = b[j - Len(a)] /\ j - Len(a) \in 1..Len(b)
      BY <1>1, <2>1, <2>3
    <3> QED BY <3>1 DEF Replies, b
  <2> QED BY <1>1, <2>1, <2>2, <2>3
<1> QED BY <1>3, <1>4

\* No step of the manager puts a reply in a pipe, or changes a shared memory
\* segment whose replies remain.
LEMMA ManagerShrinks ==
  ASSUME IInv, CoreInv', NEW c \in Call,
         Start(c) \/ Proceed(c) \/ Timeout(c) \/ Cancel(c), NEW q \in Pid
  PROVE  /\ Replies(q)' \subseteq Replies(q)
         /\ shm'[q] = shm[q] \/ Replies(q)' = {}
<1>1. WorkerTypeOK' /\ CoreInv /\ Mailbox
  BY DEF IInv, CoreInv, TypeOK
<1>2. /\ \/ toM'[q] = toM[q] \/ toM'[q] = <<>>
         \/ toM[q] # <<>> /\ toM'[q] = Tail(toM[q])
      /\ \/ worker'[q].reply = worker[q].reply /\ shm'[q] = shm[q]
         \/ q = started + 1 /\ worker'[q].reply = <<>> /\ shm'[q] = shm[q]
         \/ worker'[q].reply = <<>> /\ toM'[q] = <<>>
  BY <1>1, ManagerPipes
<1>3. Replies(q)' \subseteq Replies(q)
  BY <1>1, <1>2, RepliesShrink
<1>4. CASE worker'[q].reply = <<>> /\ toM'[q] = <<>>
  BY <1>4 DEF Replies
<1> QED BY <1>2, <1>3, <1>4

\* Every step keeps Mailbox.
LEMMA MailboxStep ==
  ASSUME IInv, CoreInv', [Next]_vars
  PROVE  Mailbox'
<1>0. CoreInv /\ Mailbox
  BY DEF IInv
<1>1. ASSUME NEW c \in Call, Start(c) \/ Proceed(c) \/ Timeout(c) \/ Cancel(c)
      PROVE  Mailbox'
  <2>1. handled' = handled
    BY <1>0, <1>1, ManagerPipes
  <2>2. \A q \in Pid : Replies(q)' \subseteq Replies(q) /\ (shm'[q] = shm[q] \/ Replies(q)' = {})
    BY <1>1, ManagerShrinks
  <2> QED BY <1>0, <2>1, <2>2, MailboxShrink
<1>2. ASSUME NEW p \in live, NEW c \in Call, Handle(p, c) PROVE Mailbox'
  <2>0. p \in Pid
    BY <1>0 DEF CoreInv, TypeOK
  <2>1. PICK t \in Classes :
          /\ Receives(p, c, Msg(t, c))
          /\ t = "ok" => ~HasResult(c)
          /\ t = "check_shared_memory" => Accepts(p, c) /\ HasResult(c)
          /\ t = "check_shared_memory" => shm' = [shm EXCEPT ![p] = [of |-> c, data |-> Result(p, c)]]
          /\ t # "check_shared_memory" => shm' = shm
    BY <1>2 DEF Handle, Reject, FailEarly, Acknowledge, WriteResult, OverflowResult, Classes
  <2>2. /\ Replies(p)' \subseteq Replies(p) \cup {Msg(t, c)}
        /\ \A q \in Pid : q # p => Replies(q)' = Replies(q)
    BY <1>0, <2>0, <2>1, WorkerPipes
  <2>3. handled' = handled \cup {c}
    BY <2>1 DEF Receives
  <2>4. \A q \in Pid : q # p => shm'[q] = shm[q]
    BY <2>0, <2>1 DEF CoreInv, TypeOK, WorkerTypeOK
  <2>5. \/ t = "check_shared_memory" /\ shm'[p] \in [of : Call, data : SUBSET Call]
        \/ t # "check_shared_memory" /\ shm'[p] = shm[p]
    <3>1. t = "check_shared_memory" => Result(p, c) \in SUBSET Call
      BY <1>0, <2>0, <2>1, ResultType DEF CoreInv
    <3>2. DOMAIN shm = Pid
      BY <1>0 DEF CoreInv, TypeOK, WorkerTypeOK
    <3>3. CASE t = "check_shared_memory"
      <4>1. shm'[p] = [of |-> c, data |-> Result(p, c)]
        BY <2>0, <2>1, <3>2, <3>3
      <4> QED BY <3>1, <3>3, <4>1
    <3>4. CASE t # "check_shared_memory"
      BY <2>1, <3>4
    <3> QED BY <3>3, <3>4
  <2> QED BY <1>0, <2>0, <2>1, <2>2, <2>3, <2>4, <2>5 DEF Mailbox, Msg
<1>3. ASSUME NEW p \in live, Reply(p) \/ Die(p) PROVE Mailbox'
  <2>0. p \in Pid
    BY <1>0 DEF CoreInv, TypeOK
  <2>1. UNCHANGED <<handled, shm>>
    BY <1>3 DEF Reply, Die
  <2>2. \A q \in Pid : Replies(q)' \subseteq Replies(q)
    <3>1. CASE Reply(p)
      BY <1>0, <2>0, <3>1, ReplyPipes
    <3>2. CASE Die(p)
      <4>1. \A q \in Pid : toM'[q] = toM[q] /\ (worker'[q].reply = worker[q].reply \/ worker'[q].reply = <<>>)
        BY <1>0, <2>0, <3>2 DEF Die, Dead, CoreInv, TypeOK, WorkerTypeOK
      <4>2. WorkerTypeOK'
        BY DEF CoreInv, TypeOK
      <4> QED BY <1>0, <4>1, <4>2, RepliesShrink
    <3> QED BY <1>3, <3>1, <3>2
  <2> QED BY <1>0, <2>1, <2>2, MailboxShrink
<1>4. CASE UNCHANGED vars
  BY <1>0, <1>4 DEF vars, workerVars, Mailbox, Replies
<1> QED BY <1>1, <1>2, <1>3, <1>4 DEF Next, Work, Kill

\* The inductive invariant holds in every state of every pool.
THEOREM InductiveInvariant == Spec => []IInv
<1>1. Init => IInv
  <2>1. ASSUME Init PROVE Mailbox
    BY <2>1 DEF Init, WorkerInit, Mailbox, Replies, Idle, Dead
  <2> QED BY <2>1, InitInv DEF IInv
<1>2. IInv /\ [Next]_vars => IInv'
  BY CoreStep, MailboxStep DEF IInv
<1> QED BY <1>1, <1>2, PTL DEF Spec

\* Every variable of the manager and of the workers keeps its type, so a result
\* read from the shared memory is always a message some worker pickled.
THEOREM TypeCorrect == Spec => []TypeOK
<1>1. IInv => TypeOK
  BY DEF IInv, CoreInv
<1> QED BY <1>1, InductiveInvariant, PTL

\* A process serves one request at a time, and whatever way a request ends, it
\* gives its process back: the busy lock, acquired and released by hand around
\* the try of _send_message, is never leaked by a process that is in use.
THEOREM ProcessesExclude == Spec => []BusyLockExcludes
<1>1. IInv => BusyLockExcludes
  BY DEF IInv, CoreInv
<1> QED BY <1>1, InductiveInvariant, PTL

\* The look-up of a session's process in process_info finds it, however restarts
\* and requests that hold a search lock interleave.
THEOREM SessionsStayLinked == Spec => []SessionsPointToLive
<1>1. IInv => SessionsPointToLive
  BY DEF IInv, CoreInv
<1> QED BY <1>1, InductiveInvariant, PTL

\* No request sleeps on free_process_event while a process is free: the clear()
\* after wait() never erases a release another task has yet to see.
THEOREM NoWakeupIsLost == Spec => []NoLostWakeup
<1>1. IInv => NoLostWakeup
  BY DEF IInv, CoreInv
<1> QED BY <1>1, InductiveInvariant, PTL

=============================================================================
