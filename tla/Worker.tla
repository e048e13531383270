------------------------------- MODULE Worker -------------------------------
(***************************************************************************)
(* The worker processes (worker_process/worker.py) with the processors     *)
(* they run, the two directions of each process's pipe and its shared      *)
(* memory segment.  A worker receives one message, handles it completely   *)
(* and replies before it receives the next.                                *)
(***************************************************************************)
EXTENDS Requests

CONSTANT Mortal     \* processes that may be killed from outside (OOM killer)

ASSUME MortalAssumption == Mortal \subseteq Pid

VARIABLES
  toW,      \* toW[p]: calls sent down p's pipe and not yet received
  toM,      \* toM[p]: replies in p's pipe, not yet received by the manager
  worker,   \* worker[p]: is p alive, and the reply it is about to send
  ctx,      \* ctx[p][s]: Worker.sessions, the calls accumulated for s
  shm,      \* shm[p]: the pickled message in the shared memory of p
  handled,  \* history: the calls some worker has received
  answer    \* history: the result of each call a worker accepted, else None

workerVars == <<toW, toM, worker, ctx, shm, handled, answer>>

NoContexts == [s \in Session |-> None]
Idle       == [up |-> TRUE, reply |-> <<>>]
Dead       == [up |-> FALSE, reply |-> <<>>]

WorkerTypeOK ==
  /\ toW \in [Pid -> Seq(Call)]
  /\ toM \in [Pid -> Seq(Message)]
  /\ worker \in [Pid -> [up : BOOLEAN, reply : Seq(Message)]]
  /\ ctx \in [Pid -> [Session -> {None} \cup SUBSET Call]]
  /\ shm \in [Pid -> [of : Call, data : SUBSET Call] \cup {None}]
  /\ handled \in SUBSET Call
  /\ answer \in [Call -> {None} \cup SUBSET Call]

WorkerInit(started) ==
  /\ toW = [p \in Pid |-> <<>>]
  /\ toM = [p \in Pid |-> <<>>]
  /\ worker = [p \in Pid |-> IF p \in started THEN Idle ELSE Dead]
  /\ ctx = [p \in Pid |-> NoContexts]
  /\ shm = [p \in Pid |-> None]
  /\ handled = {}
  /\ answer = [c \in Call |-> None]

-----------------------------------------------------------------------------
(* The processors.                                                         *)

\* The session already exists, or it is not in this process: an Exception (a
\* KeyError for the clear of a sum) before anything is changed.
NoSuchSession(p, c) ==
  LET s == SessionOf[c] IN
  /\ s # None
  /\ \/ Type[c] = "init_session" /\ ctx[p][s] # None
     \/ Type[c] = "data" /\ ctx[p][s] = None
     \/ Type[c] = "clear" /\ s \in SI /\ ctx[p][s] = None

\* The sum cannot be encoded, the init data is bad, the image is not one; a
\* heatmap's clear_session has nothing to fail on.
Fails(c) == c \in Bad /\ (Type[c] = "clear" => SessionOf[c] \in SI)

Accepts(p, c) == ~NoSuchSession(p, c) /\ ~Fails(c)

\* Mutants of Updated: an image replaces the sum; a clear keeps an empty sum.
UpdatedReplacing(p, c) ==
  LET s == SessionOf[c] IN
  IF s = None THEN ctx[p]
  ELSE [ctx[p] EXCEPT ![s] = CASE Type[c] = "init_session" -> {}
                               [] Type[c] = "data"  -> {c}
                               [] Type[c] = "clear" -> None]

UpdatedEmptying(p, c) ==
  LET s == SessionOf[c] IN
  IF s = None THEN ctx[p]
  ELSE [ctx[p] EXCEPT ![s] = CASE Type[c] = "data" -> @ \cup {c} [] OTHER -> {}]

\* The contexts of p after it has handled c.
Updated(p, c) ==
  LET s == SessionOf[c] IN
  IF s = None THEN ctx[p]
  ELSE [ctx[p] EXCEPT ![s] = CASE Type[c] = "init_session" -> {}
                               [] Type[c] = "data"  -> @ \cup {c}
                               [] Type[c] = "clear" -> None]

\* Mutant of Result: one accumulator for all the sessions of the process.
ResultOfAllSessions(p, c) ==
  {c} \cup UNION {ctx[p][s] : s \in {x \in Session : ctx[p][x] # None}}

\* The images summed into the result that c is answered with.
Result(p, c) ==
  CASE SessionOf[c] = None -> {c}
    [] SessionOf[c] # None /\ Type[c] = "clear" -> ctx[p][SessionOf[c]]
    [] OTHER -> ctx[p][SessionOf[c]] \cup {c}

-----------------------------------------------------------------------------
(* Actions.                                                                *)

\* p receives the next message and is left with one reply to send.
Receives(p, c, reply) ==
  /\ worker[p].up /\ worker[p].reply = <<>>
  /\ toW[p] # <<>> /\ Head(toW[p]) = c
  /\ toW' = [toW EXCEPT ![p] = Tail(@)]
  /\ worker' = [worker EXCEPT ![p].reply = <<reply>>]
  /\ handled' = handled \cup {c}
  /\ UNCHANGED toM

\* The processor raises at once; run() sends the exception itself.
Reject(p, c) ==
  /\ NoSuchSession(p, c)
  /\ Receives(p, c, Msg("Exception", c))
  /\ UNCHANGED <<ctx, shm, answer>>

\* Reading or writing an image may fail with an OSError as with any other.
FailEarly(p, c) ==
  /\ ~NoSuchSession(p, c) /\ Fails(c)
  /\ \E class \in {"Exception", "OSError"} :
       /\ Type[c] = "init_session" => class = "Exception"
       /\ Receives(p, c, Msg(class, c))
  /\ UNCHANGED <<ctx, shm, answer>>

\* A session is opened, summed into or (heatmap) closed: answered `ok'.
Acknowledge(p, c) ==
  /\ Accepts(p, c) /\ ~HasResult(c)
  /\ Receives(p, c, Msg("ok", c))
  /\ ctx' = [ctx EXCEPT ![p] = Updated(p, c)]
  /\ answer' = [answer EXCEPT ![c] = {}]
  /\ UNCHANGED shm

\* The result is pickled into the shared memory.
WriteResult(p, c) ==
  /\ Accepts(p, c) /\ HasResult(c) /\ c \notin Oversize
  /\ Receives(p, c, Msg("check_shared_memory", c))
  /\ ctx' = [ctx EXCEPT ![p] = Updated(p, c)]
  /\ shm' = [shm EXCEPT ![p] = [of |-> c, data |-> Result(p, c)]]
  /\ answer' = [answer EXCEPT ![c] = Result(p, c)]

\* The first chunk is as long as the segment and is written from offset 1:
\* the assignment raises ValueError, after the context has been changed.
OverflowResult(p, c) ==
  /\ Accepts(p, c) /\ HasResult(c) /\ c \in Oversize
  /\ Receives(p, c, Msg("Exception", c))
  /\ ctx' = [ctx EXCEPT ![p] = Updated(p, c)]
  /\ UNCHANGED <<shm, answer>>

\* blocking_retry_send of the reply.
Reply(p) ==
  /\ worker[p].up /\ worker[p].reply # <<>>
  /\ toM' = [toM EXCEPT ![p] = @ \o worker[p].reply]
  /\ worker' = [worker EXCEPT ![p].reply = <<>>]
  /\ UNCHANGED <<toW, ctx, shm, handled, answer>>

\* The process is killed from outside.  The manager keeps its own copy of the
\* worker's pipe end, so the pipe stays open and nothing signals the death.
Die(p) ==
  /\ p \in Mortal /\ worker[p].up
  /\ worker' = [worker EXCEPT ![p] = Dead]
  /\ UNCHANGED <<toW, toM, ctx, shm, handled, answer>>

Handle(p, c) ==
  \/ Reject(p, c)
  \/ FailEarly(p, c)
  \/ Acknowledge(p, c)
  \/ WriteResult(p, c)
  \/ OverflowResult(p, c)

=============================================================================
