----------------------------- MODULE AsyncLock ------------------------------
(***************************************************************************)
(* asyncio.Lock, as worker_manager.py uses it: the task that holds it and  *)
(* the FIFO of the tasks that wait.  release() only wakes the head of the  *)
(* FIFO: until that task runs the lock is not locked(), and a task that    *)
(* calls acquire() meanwhile queues behind it.                             *)
(***************************************************************************)
EXTENDS Requests

Lock == [holder : Call \cup {None}, queue : Seq(Call)]

NewLock == [holder |-> None, queue |-> <<>>]

\* not lock.locked()
Unlocked(lock) == lock.holder = None

\* acquire() returns without suspending the task.
Available(lock) == Unlocked(lock) /\ lock.queue = <<>>

\* c waits in acquire() and has been woken.
Turn(lock, c) == Unlocked(lock) /\ lock.queue # <<>> /\ Head(lock.queue) = c

\* A waiter leaves: it got the lock, was cancelled or timed out.  A task waits
\* at most once in a lock.
Without(queue, c) ==
  IF Contains(queue, c)
    THEN RemoveAt(queue, CHOOSE i \in 1..Len(queue) : queue[i] = c)
    ELSE queue

Drop(lock, c) == [lock EXCEPT !.queue = Without(@, c)]

Take(lock, c)    == [Drop(lock, c) EXCEPT !.holder = c]
Enqueue(lock, c) == [lock EXCEPT !.queue = Append(@, c)]
Release(lock)    == [lock EXCEPT !.holder = None]

=============================================================================
