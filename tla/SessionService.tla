--------------------------- MODULE SessionService ---------------------------
(***************************************************************************)
(* What the pool promises its clients, with no process, lock or pipe in it:*)
(* every session is one accumulator.  A request takes effect at most once, *)
(* at a single moment -- after it was made, even if its client has given   *)
(* up by then -- and a request that is answered has taken effect: it is    *)
(* answered with the value of the accumulator at that moment.  Whenever a  *)
(* request fails, sessions may be lost; a lost session is never half there.*)
(***************************************************************************)
EXTENDS Requests

VARIABLES
  phase,    \* phase[c]: "new", "pending", "ok" or "failed"
  applied,  \* the requests a worker has taken
  value,    \* value[c]: what c is to be answered, None before it took effect
  store,    \* store[s]: the images accumulated for s, None if s is not open
  reply     \* reply[c]: the result given to the client

serviceVars == <<phase, applied, value, store, reply>>

ServiceInit ==
  /\ phase = [c \in Call |-> "new"]
  /\ applied = {}
  /\ value = [c \in Call |-> None]
  /\ store = [s \in Session |-> None]
  /\ reply = [c \in Call |-> {}]

Submit(c) ==
  /\ phase[c] = "new"
  /\ phase' = [phase EXCEPT ![c] = "pending"]
  /\ UNCHANGED <<applied, value, store, reply>>

\* The images in the answer to c when the accumulator of its session holds sum.
Answered(c, sum) ==
  CASE ~HasResult(c)                     -> {}
    [] HasResult(c) /\ Type[c] = "clear" -> sum
    [] OTHER                             -> sum \cup {c}

\* The request does what its type says to the accumulator of its session.
Effect(c, s) ==
  \/ Type[c] = "init_session" /\ store[s] = None /\ store' = [store EXCEPT ![s] = {}]
  \/ Type[c] = "data" /\ store[s] # None /\ store' = [store EXCEPT ![s] = @ \cup {c}]
  \/ /\ Type[c] = "clear" /\ (HasResult(c) => store[s] # None)
     /\ store' = [store EXCEPT ![s] = None]

\* A request is refused, or takes effect; its answer may still be lost then,
\* when it does not fit the memory it is to be read from.
Apply(c) ==
  /\ c \notin applied /\ phase[c] # "new"
  /\ applied' = applied \cup {c}
  /\ LET s == SessionOf[c] IN
     \/ UNCHANGED <<store, value>>
     \/ s = None /\ value' = [value EXCEPT ![c] = {c}] /\ UNCHANGED store
     \/ /\ s # None /\ Effect(c, s)
        /\ value' \in {value, [value EXCEPT ![c] = Answered(c, store[s])]}
  /\ UNCHANGED <<phase, reply>>

Answer(c) ==
  /\ phase[c] = "pending" /\ value[c] # None
  /\ phase' = [phase EXCEPT ![c] = "ok"]
  /\ reply' = [reply EXCEPT ![c] = value[c]]
  /\ UNCHANGED <<applied, value, store>>

Fail(c, lost) ==
  /\ phase[c] \in {"new", "pending"}
  /\ phase' = [phase EXCEPT ![c] = "failed"]
  /\ store' = [s \in Session |-> IF s \in lost THEN None ELSE store[s]]
  /\ UNCHANGED <<applied, value, reply>>

ServiceNext ==
  \E c \in Call :
    \/ Submit(c)
    \/ Apply(c)
    \/ Answer(c)
    \/ \E lost \in SUBSET Session : Fail(c, lost)

ServiceSpec == ServiceInit /\ [][ServiceNext]_serviceVars

=============================================================================
