-------------------------- MODULE PipeBackpressure --------------------------
(***************************************************************************)
(* The pipes as buffers (transport_utils.py): a pipe holds Room units, and *)
(* send() blocks until the whole message is in it.  In the manager that    *)
(* blocks the thread of the event loop, with every task and every timer:   *)
(* while it writes to a process that is busy, or dead, nothing else runs.  *)
(* A process that dies closes nothing, for the manager keeps its own copy  *)
(* of the worker's end of the pipe.  A worker blocks in send() too, and    *)
(* takes in no message then.                                               *)
(*                                                                         *)
(* What a request does to a session, and how it obtains its process, is    *)
(* left to WorkerManager; a request here takes a process nobody waits for. *)
(***************************************************************************)
EXTENDS Naturals, Sequences, FiniteSets

CONSTANTS
  Call,         \* the requests ever made
  Proc,         \* the worker processes
  At,           \* At[c]: the process that c obtains
  Size,         \* Size[c]: the units of the message of c; a reply is one unit
  Room,         \* the units a pipe holds in each direction
  Cancellable,  \* the requests whose task may be cancelled
  Mortal,       \* the processes that may be killed from outside
  None

ASSUME BackpressureAssumption ==
  /\ At \in [Call -> Proc]
  /\ Size \in [Call -> Nat \ {0}]
  /\ Room \in Nat \ {0}
  /\ Cancellable \subseteq Call /\ Mortal \subseteq Proc
  /\ None \notin Call

VARIABLES
  task,      \* task[c]: "new", "wait" or "done"
  sending,   \* the request the loop is writing to a pipe, else None
  sent,      \* how many units of it are written
  owed,      \* history: the given-up requests its process had not answered by then
  pipe,      \* pipe[p]: the units on their way to p, each named for its request
  hand,      \* hand[p]: the units of a message p has read so far
  reply,     \* reply[p]: the request whose reply p is sending, else None
  back,      \* back[p]: the replies on their way to the manager
  up         \* up[p]: p is alive

taskVars   == <<task, sending, sent, owed>>
workerVars == <<hand, reply, up>>
vars       == <<taskVars, workerVars, pipe, back>>

Init ==
  /\ task = [c \in Call |-> "new"]
  /\ sending = None /\ sent = 0 /\ owed = {}
  /\ pipe = [p \in Proc |-> <<>>]
  /\ hand = [p \in Proc |-> <<>>]
  /\ reply = [p \in Proc |-> None]
  /\ back = [p \in Proc |-> <<>>]
  /\ up = [p \in Proc |-> TRUE]

-----------------------------------------------------------------------------
(* The event loop: one step of it at a time, none while it writes.         *)

\* Requests given up whose message p has yet to answer.
Abandoned(p) ==
  {c \in Call : /\ task[c] = "done"
                /\ \/ c = reply[p]
                   \/ \E i \in DOMAIN hand[p] : hand[p][i] = c
                   \/ \E i \in DOMAIN pipe[p] : pipe[p][i] = c}

\* Mutant of Send: the pipe is not cleared.
SendOnto(c) ==
  /\ sending = None /\ task[c] = "new"
  /\ \A d \in Call : task[d] = "wait" => At[d] # At[c]
  /\ task' = [task EXCEPT ![c] = "wait"]
  /\ sending' = c
  /\ owed' = Abandoned(At[c])
  /\ UNCHANGED <<sent, pipe, back, workerVars>>

\* clear_pipe, then send().
Send(c) ==
  /\ sending = None /\ task[c] = "new"
  /\ \A d \in Call : task[d] = "wait" => At[d] # At[c]
  /\ task' = [task EXCEPT ![c] = "wait"]
  /\ sending' = c
  /\ owed' = Abandoned(At[c])
  /\ back' = [back EXCEPT ![At[c]] = <<>>]
  /\ UNCHANGED <<sent, pipe, workerVars>>

\* One more unit of the message; with the last one the loop is free again.
Write(c) ==
  /\ sending = c /\ Len(pipe[At[c]]) < Room
  /\ pipe' = [pipe EXCEPT ![At[c]] = Append(@, c)]
  /\ IF sent + 1 = Size[c] THEN sending' = None /\ sent' = 0
                           ELSE sent' = sent + 1 /\ UNCHANGED sending
  /\ UNCHANGED <<task, owed, back, workerVars>>

Waits(c) == sending = None /\ task[c] = "wait"

End(c) == task' = [task EXCEPT ![c] = "done"] /\ UNCHANGED <<sending, sent, owed>>

\* The answer, or a reply to somebody who has given up.
Receive(c) ==
  /\ Waits(c) /\ back[At[c]] # <<>>
  /\ back' = [back EXCEPT ![At[c]] = Tail(@)]
  /\ IF Head(back[At[c]]) = c THEN End(c) ELSE UNCHANGED taskVars
  /\ UNCHANGED <<pipe, workerVars>>

\* Mutant of Restart: the new process is given the pipe of the old one.
RestartOnPipe(p) ==
  /\ hand' = [hand EXCEPT ![p] = <<>>]
  /\ reply' = [reply EXCEPT ![p] = None]
  /\ up' = [up EXCEPT ![p] = TRUE]
  /\ UNCHANGED <<pipe, back>>

\* A fresh process, with a pipe of its own, takes the place of p.
Restart(p) ==
  /\ pipe' = [pipe EXCEPT ![p] = <<>>]
  /\ back' = [back EXCEPT ![p] = <<>>]
  /\ hand' = [hand EXCEPT ![p] = <<>>]
  /\ reply' = [reply EXCEPT ![p] = None]
  /\ up' = [up EXCEPT ![p] = TRUE]

\* Mutant of HungTimeout: the timer runs only once something was received.
HungTimeoutAfterPoll(c) ==
  Waits(c) /\ back[At[c]] # <<>> /\ End(c) /\ Restart(At[c])

\* PROCESS_HUNG_TIMEOUT; it runs from the moment the message is written.
HungTimeout(c) == Waits(c) /\ End(c) /\ Restart(At[c])

\* The exception leaves the message on its way, and its reply to come.
Cancel(c) ==
  /\ c \in Cancellable /\ Waits(c)
  /\ End(c)
  /\ UNCHANGED <<pipe, back, workerVars>>

-----------------------------------------------------------------------------
(* The workers.                                                            *)

Whole(p) == hand[p] # <<>> /\ Len(hand[p]) = Size[Head(hand[p])]

\* Mutant of Read: the worker waits until the whole message has arrived.
ReadArrived(p) ==
  /\ up[p] /\ reply[p] = None /\ ~Whole(p) /\ pipe[p] # <<>>
  /\ hand[p] = <<>> => Len(pipe[p]) >= Size[Head(pipe[p])]
  /\ hand' = [hand EXCEPT ![p] = Append(@, Head(pipe[p]))]
  /\ pipe' = [pipe EXCEPT ![p] = Tail(@)]
  /\ UNCHANGED <<taskVars, reply, up, back>>

Read(p) ==
  /\ up[p] /\ reply[p] = None /\ ~Whole(p) /\ pipe[p] # <<>>
  /\ hand' = [hand EXCEPT ![p] = Append(@, Head(pipe[p]))]
  /\ pipe' = [pipe EXCEPT ![p] = Tail(@)]
  /\ UNCHANGED <<taskVars, reply, up, back>>

\* The message is handled; its reply is next.
Work(p) ==
  /\ up[p] /\ Whole(p)
  /\ reply' = [reply EXCEPT ![p] = Head(hand[p])]
  /\ hand' = [hand EXCEPT ![p] = <<>>]
  /\ UNCHANGED <<taskVars, pipe, up, back>>

\* send() blocks the worker as it does the manager.
Reply(p) ==
  /\ up[p] /\ reply[p] # None /\ Len(back[p]) < Room
  /\ back' = [back EXCEPT ![p] = Append(@, reply[p])]
  /\ reply' = [reply EXCEPT ![p] = None]
  /\ UNCHANGED <<taskVars, pipe, hand, up>>

Die(p) ==
  /\ p \in Mortal /\ up[p]
  /\ up' = [up EXCEPT ![p] = FALSE]
  /\ UNCHANGED <<taskVars, pipe, hand, reply, back>>

-----------------------------------------------------------------------------
Loop(c) == Write(c) \/ Receive(c) \/ HungTimeout(c)

Run(p) == Read(p) \/ Work(p) \/ Reply(p)

Next ==
  \/ \E c \in Call : Send(c)
  \/ \E c \in Call : Loop(c)
  \/ \E c \in Call : Cancel(c)
  \/ \E p \in Proc : Run(p)
  \/ \E p \in Proc : Die(p)

Spec == Init /\ [][Next]_vars

\* The thread of the loop and the processes run, and a timer that was set
\* expires if the loop is free to see it.
FairSpec ==
  /\ Spec
  /\ \A c \in Call : WF_vars(Loop(c))
  /\ \A p \in Proc : WF_vars(Run(p))

-----------------------------------------------------------------------------
(* Properties.                                                             *)

\* A worker never reads the end of a message without its beginning: the units
\* before it are whole messages, but for one that the loop is still writing.
WholeMessages ==
  \A p \in Proc :
    LET units == hand[p] \o pipe[p] IN
    \A c \in {units[i] : i \in DOMAIN units} :
      /\ Cardinality({i \in DOMAIN units : units[i] = c}) =
           IF sending = c THEN sent ELSE Size[c]
      /\ \A i, j \in DOMAIN units : units[i] = c /\ units[j] = c => 
           \A k \in i..j : units[k] = c

\* The reply of p does not fit, and p reads nothing until it does.
Jammed(p) == reply[p] # None /\ Len(back[p]) = Room

\* The loop waits for room that nobody will ever make: the process is dead, or it
\* waits for the loop in its turn.
Frozen ==
  /\ sending # None
  /\ Len(pipe[At[sending]]) = Room
  /\ ~up[At[sending]] \/ Jammed(At[sending])

\* The loop and a worker wait for each other only if, when the loop began to
\* write, the process still owed replies to more given-up requests than a pipe has
\* room for: those it had sent by then were dropped (clear_pipe), and the lock of
\* the process lets no other request add to them.
JamTakesAbandoned ==
  sending # None /\ Jammed(At[sending]) => Cardinality(owed) > Room

\* A send that blocks the event loop comes to an end, but for two cases: the
\* process was killed with its pipe full, or it is stuck with the replies to
\* requests that were given up.  The loop is lost then, with all of its timers.
LoopComesBack == sending # None ~> sending = None \/ Frozen

\* Every request ends, on the other processes too, or the loop is lost in one of
\* those two ways.
EveryTaskEnds == \A c \in Call : task[c] = "wait" ~> task[c] = "done" \/ Frozen

=============================================================================
