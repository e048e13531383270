------------------------------ MODULE Requests ------------------------------
(***************************************************************************)
(* The requests the service makes of its worker processes.  One element of *)
(* Call stands for one WorkerMessage: its rack is the call itself, since a *)
(* fresh uuid4 is drawn for every message (messages.py:27).  An image is   *)
(* the call that carries it, so an accumulator is the set of the calls     *)
(* summed into it.                                                         *)
(***************************************************************************)
EXTENDS Naturals, Sequences, SequencesExt

CONSTANTS
  Call,        \* the requests ever made
  Session,     \* session ids of the summary and heatmap accumulators
  SI,          \* the sessions of CommandType.summary_image; the others are heatmaps
  Type,        \* Type[c] is the MessageTypes member of c
  SessionOf,   \* SessionOf[c] is message.session_id; None is a grayscale request
  Bad,         \* calls a processor raises on before it changes anything
  Oversize,    \* calls whose pickled result does not fit the shared memory
  MaxPid,      \* bound on the processes ever started
  None

ASSUME RequestsAssumption ==
  /\ SI \subseteq Session
  /\ Type \in [Call -> {"init_session", "data", "clear"}]
  /\ SessionOf \in [Call -> Session \cup {None}]
  /\ None \notin Call \cup Session
  /\ \A images \in SUBSET Call : images # None
  /\ \A c \in Call : SessionOf[c] = None => Type[c] = "data"
  /\ Bad \subseteq Call /\ Oversize \subseteq Call
  /\ MaxPid \in Nat

\* Processes are numbered in the order they are started, which is the order
\* of process_info.
Pid == 1..MaxPid

\* The calls answered through the shared memory: a converted image, a heatmap
\* after each image, the sum of a session when it is cleared.
HasResult(c) ==
  \/ SessionOf[c] = None
  \/ SessionOf[c] \in SI /\ Type[c] = "clear"
  \/ SessionOf[c] \in Session \ SI /\ Type[c] = "data"

\* What the worker puts in the pipe.  An exception object carries no rack and
\* no session id: for the two exception classes `of' is kept for the
\* properties only.  PIL reports a bad image with UnidentifiedImageError or a
\* plain OSError, and both are OSErrors.
Classes == {"ok", "check_shared_memory", "Exception", "OSError"}

Message == [type : Classes, of : Call]

Msg(type, c) == [type |-> type, of |-> c]

=============================================================================
