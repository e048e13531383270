----------------------------- MODULE FlowProofs -----------------------------
(***************************************************************************)
(* The result of a flow is the sum of exactly the images its client sent in*)
(* it.  Three facts make it so.  The flows keep the protocol of a session  *)
(* (ClientProtocol): its init first, then one image after the other, the   *)
(* clear last.  The pool is one accumulator per session: so the answer to  *)
(* the clear holds every image whose request was answered, and none that   *)
(* was not made (SumOK).  And a flow that ends well has had every request  *)
(* answered, one for each frame since the one that opened it (InFlow).     *)
(***************************************************************************)
EXTENDS EndpointProofs

\* The images of s whose requests were made.
Accepted(s) == {d \in DataOf(s) : phase[d] # "new"}

-----------------------------------------------------------------------------
(* What the protocol makes of the pool.                                    *)

ServiceTypes ==
  /\ phase \in [Call -> Phases]
  /\ applied \subseteq Call
  /\ value \in [Call -> {None} \cup SUBSET Call]
  /\ store \in [Session -> {None} \cup SUBSET Call]
  /\ reply \in [Call -> SUBSET Call]

ByProtocol ==
  /\ \A c \in Call : SessionOf[c] # None /\ phase[c] # "new" =>
       c \in {InitOf(SessionOf[c]), ClearOf(SessionOf[c])} \cup DataOf(SessionOf[c])
  /\ \A s \in Session :
       phase[ClearOf(s)] # "new" \/ Accepted(s) # {} => phase[InitOf(s)] = "ok"

\* A value is that of a request that took effect, which had been made; the client
\* is given the value itself.
ValueOK ==
  /\ \A c \in Call : value[c] # None => c \in applied
  /\ \A c \in applied : phase[c] # "new"
  /\ \A c \in Call : phase[c] = "ok" => value[c] # None /\ reply[c] = value[c]

\* sum holds the images of s that took effect, and none that was not made.
Holds(sum, s) ==
  sum # None => sum \subseteq Accepted(s) /\ \A d \in DataOf(s) : value[d] # None => d \in sum

SumOK ==
  \A s \in Session :
    /\ Holds(store[s], s) /\ Holds(value[ClearOf(s)], s)
    /\ value[ClearOf(s)] # None => store[s] = None

ServiceInv == ServiceTypes /\ ByProtocol /\ ValueOK /\ SumOK

\* The protocol of a session lets c be made.
Permitted(c) ==
  LET s == SessionOf[c] IN
  \/ c = InitOf(s) /\ \A d \in Call : SessionOf[d] = s => phase[d] = "new"
  \/ /\ c \in DataOf(s) \cup {ClearOf(s)}
     /\ phase[InitOf(s)] = "ok" /\ phase[ClearOf(s)] = "new"
     /\ \A d \in DataOf(s) : phase[d] # "pending"

\* A step of the pool in which c is made, fails, is answered or takes effect.
ServiceStep(c) ==
  \/ Submit(c) /\ SessionOf[c] # None /\ Permitted(c)
  \/ /\ \E lost : Fail(c, lost)
     /\ phase[c] = "new" /\ SessionOf[c] # None => Permitted(c)
  \/ Answer(c)
  \/ Apply(c)

-----------------------------------------------------------------------------
LEMMA SessionRequests ==
  ASSUME NEW s \in Session
  PROVE  /\ InitOf(s) \in Call /\ SessionOf[InitOf(s)] = s /\ Type[InitOf(s)] = "init_session"
         /\ ClearOf(s) \in Call /\ SessionOf[ClearOf(s)] = s /\ Type[ClearOf(s)] = "clear"
         /\ \A d \in DataOf(s) : d \in Call /\ SessionOf[d] = s /\ Type[d] = "data"
         /\ s # None
<1>1. \A type \in {"init_session", "clear"} :
        \E c \in Call : SessionOf[c] = s /\ Type[c] = type
  BY EndpointAssumption
<1> QED
  BY <1>1, RequestsAssumption DEF InitOf, ClearOf, DataOf

\* Whatever is made by the protocol was permitted, so the init has been answered.
LEMMA MakingKeeps ==
  ASSUME ServiceInv, NEW c \in Call, NEW to \in Phases \ {"new", "ok"},
         phase' = [phase EXCEPT ![c] = to], phase[c] \in {"new", "pending"},
         phase[c] = "new" /\ SessionOf[c] # None => Permitted(c)
  PROVE  /\ ByProtocol' /\ phase' \in [Call -> Phases]
         /\ \A s \in Session : Accepted(s) \subseteq Accepted(s)'
<1> USE DEF ServiceInv, ServiceTypes
<1>0. /\ phase' \in [Call -> Phases] /\ \A d \in Call : d # c => phase'[d] = phase[d]
      /\ phase'[c] # "new"
  OBVIOUS
<1>1. \A s \in Session : Accepted(s) \subseteq Accepted(s)'
  BY <1>0, SessionRequests DEF Accepted
<1>2. ASSUME NEW d \in Call, SessionOf[d] # None, phase'[d] # "new"
      PROVE  d \in {InitOf(SessionOf[d]), ClearOf(SessionOf[d])} \cup DataOf(SessionOf[d])
  <2>1. CASE d # c \/ phase[c] # "new"
    BY <1>0, <1>2, <2>1 DEF ByProtocol
  <2>2. CASE d = c /\ phase[c] = "new"
    BY <1>2, <2>2 DEF Permitted
  <2> QED BY <2>1, <2>2
<1>3. ASSUME NEW s \in Session, phase'[ClearOf(s)] # "new" \/ Accepted(s)' # {}
      PROVE  phase'[InitOf(s)] = "ok"
  <2>0. /\ InitOf(s) \in Call /\ ClearOf(s) \in Call /\ s # None
        /\ \A d \in DataOf(s) : d \in Call /\ SessionOf[d] = s
        /\ InitOf(s) # ClearOf(s) /\ InitOf(s) \notin DataOf(s)
        /\ SessionOf[ClearOf(s)] = s
    BY SessionRequests
  <2>1. CASE phase[InitOf(s)] = "ok"
    BY <1>0, <2>0, <2>1
  <2>2. CASE phase[InitOf(s)] # "ok"
    <3>1. phase[ClearOf(s)] = "new" /\ Accepted(s) = {}
      BY <2>2 DEF ByProtocol
    <3>2. c \in {ClearOf(s)} \cup DataOf(s) /\ phase[c] = "new" /\ SessionOf[c] = s
      BY <1>0, <1>3, <2>0, <3>1 DEF Accepted
    <3>3. Permitted(c)
      BY <2>0, <3>2
    <3>4. c # InitOf(s)
      BY <2>0, <3>2
    <3> QED BY <2>2, <3>2, <3>3, <3>4 DEF Permitted
  <2> QED BY <2>1, <2>2
<1> QED BY <1>0, <1>1, <1>2, <1>3 DEF ByProtocol

\* A sum that holds the images goes on to, when requests are made and stores lost.
LEMMA SumsStay ==
  ASSUME SumOK, UNCHANGED value, \A s \in Session : Accepted(s) \subseteq Accepted(s)',
         \A s \in Session : store'[s] = store[s] \/ store'[s] = None
  PROVE  SumOK'
<1> SUFFICES ASSUME NEW s \in Session
             PROVE  /\ Holds(store[s], s)' /\ Holds(value[ClearOf(s)], s)'
                    /\ value[ClearOf(s)] # None => store'[s] = None
  BY DEF SumOK
<1>1. ASSUME NEW sum, Holds(sum, s)
      PROVE  sum # None => sum \subseteq Accepted(s)' /\ \A d \in DataOf(s) : value'[d] # None => d \in sum
  BY <1>1 DEF Holds
<1>2. Holds(value[ClearOf(s)], s)'
  BY <1>1 DEF SumOK, Holds
<1>3. Holds(store[s], s)'
  BY <1>1 DEF SumOK, Holds
<1> QED BY <1>2, <1>3 DEF SumOK

\* A request that takes effect adds its image to the sum of its session, or opens it,
\* before there is anything in it.
LEMMA ApplySums ==
  ASSUME ServiceInv, NEW c \in Call, Apply(c)
  PROVE  SumOK'
<1> USE DEF ServiceInv, ServiceTypes
<1>0. /\ phase' = phase /\ c \notin applied /\ phase[c] # "new"
      /\ \A images \in SUBSET Call : images # None
  BY RequestsAssumption DEF Apply
<1>1. \A s \in Session : Accepted(s)' = Accepted(s)
  BY <1>0 DEF Accepted
<1>2. value[c] = None
  BY <1>0 DEF ValueOK
<1>3. CASE UNCHANGED <<store, value>>
  BY <1>1, <1>3, SumsStay
<1>4. CASE SessionOf[c] = None /\ value' = [value EXCEPT ![c] = {c}] /\ UNCHANGED store
  <2>1. ASSUME NEW s \in Session
        PROVE  value'[ClearOf(s)] = value[ClearOf(s)] /\ \A d \in DataOf(s) : value'[d] = value[d]
    BY <1>4, SessionRequests
  <2>2. ASSUME NEW s \in Session, NEW sum
        PROVE  Holds(sum, s) /\ sum # None =>
                 /\ sum \subseteq Accepted(s)'
                 /\ \A d \in DataOf(s) : value'[d] # None => d \in sum
    BY <1>1, <2>1 DEF Holds
  <2> QED BY <1>4, <2>1, <2>2 DEF SumOK, Holds
<1>5. CASE /\ SessionOf[c] # None /\ Effect(c, SessionOf[c])
           /\ value' \in {value, [value EXCEPT ![c] = Answered(c, store[SessionOf[c]])]}
  <2> DEFINE t == SessionOf[c]
  <2>0. t \in Session
    BY <1>5, RequestsAssumption
  <2>1. \A s \in Session \ {t} : store'[s] = store[s]
    BY <1>5, <2>0 DEF Effect
  <2>2. ASSUME NEW d \in Call, d # c PROVE value'[d] = value[d]
    BY <1>5, <2>2
  <2>3. ASSUME NEW s \in Session \ {t}
        PROVE  /\ Holds(store[s], s)' /\ Holds(value[ClearOf(s)], s)'
               /\ value'[ClearOf(s)] # None => store'[s] = None
    <3>1. ClearOf(s) \in Call /\ ClearOf(s) # c /\ \A d \in DataOf(s) : d \in Call /\ d # c
      BY SessionRequests
    <3>2. value'[ClearOf(s)] = value[ClearOf(s)] /\ \A d \in DataOf(s) : value'[d] = value[d]
      BY <2>2, <3>1
    <3> QED BY <1>1, <2>1, <3>2 DEF SumOK, Holds
  <2>4. /\ InitOf(t) \in Call /\ ClearOf(t) \in Call /\ Type[ClearOf(t)] = "clear"
        /\ Type[InitOf(t)] = "init_session"
        /\ \A d \in DataOf(t) : d \in Call /\ Type[d] = "data"
        /\ c \in {InitOf(t), ClearOf(t)} \cup DataOf(t)
    BY <1>0, <1>5, <2>0, SessionRequests DEF ByProtocol
  <2>5. CASE Type[c] = "init_session"
    <3>1. c = InitOf(t) /\ store'[t] = {} /\ store' \in [Session -> {None} \cup SUBSET Call]
      BY <1>5, <2>0, <2>4, <2>5 DEF Effect
    <3>2. phase[c] # "ok"
      BY <1>2 DEF ValueOK
    <3>3. phase[ClearOf(t)] = "new" /\ Accepted(t) = {}
      BY <2>0, <3>1, <3>2 DEF ByProtocol
    <3>4. \A d \in DataOf(t) \cup {ClearOf(t)} : value[d] = None /\ value'[d] = None
      BY <2>2, <2>4, <2>5, <3>3 DEF Accepted, ValueOK
    <3>5. Holds(store[t], t)' /\ Holds(value[ClearOf(t)], t)' /\ value'[ClearOf(t)] = None
      BY <1>0, <3>1, <3>4 DEF Holds
    <3> QED BY <2>3, <3>5 DEF SumOK
  <2>6. CASE Type[c] = "data"
    <3>1. /\ store[t] # None /\ store'[t] = store[t] \cup {c}
      BY <1>5, <2>0, <2>6 DEF Effect
    <3>2. value[ClearOf(t)] = None /\ value'[ClearOf(t)] = None
      BY <2>0, <2>2, <2>4, <2>6, <3>1 DEF SumOK
    <3>3. c \in Accepted(t)
      BY <1>0, <2>4, <2>6 DEF Accepted
    <3>4. Holds(store[t], t)
      BY <2>0 DEF SumOK
    <3>5. Holds(store[t], t)'
      <4>1. store'[t] \subseteq Accepted(t)'
        BY <1>1, <2>0, <3>1, <3>3, <3>4 DEF Holds
      <4>2. \A d \in DataOf(t) : value'[d] # None => d \in store'[t]
        BY <2>2, <2>4, <3>1, <3>4 DEF Holds
      <4> QED BY <4>1, <4>2 DEF Holds
    <3>6. Holds(value[ClearOf(t)], t)'
      BY <3>2 DEF Holds
    <3> QED BY <2>3, <3>2, <3>5, <3>6 DEF SumOK
  <2>7. CASE Type[c] = "clear"
    <3>1. /\ c = ClearOf(t) /\ store'[t] = None
          /\ HasResult(c) /\ store[t] # None
      BY <1>5, <2>0, <2>4, <2>7, EndpointAssumption DEF Effect, HasResult
    <3>2. Answered(c, store[t]) = store[t]
      BY <2>7, <3>1 DEF Answered
    <3>3. value' = value \/ value' = [value EXCEPT ![c] = store[t]]
      BY <1>5, <3>2
    <3>4. value'[c] \in {None, store[t]}
      BY <1>2, <3>3
    <3>5. Holds(store[t], t) /\ \A d \in DataOf(t) : value'[d] = value[d]
      BY <2>0, <2>2, <2>4, <2>7 DEF SumOK
    <3>6. Holds(value[ClearOf(t)], t)'
      BY <1>1, <2>0, <3>1, <3>4, <3>5 DEF Holds
    <3>7. Holds(store[t], t)'
      BY <3>1 DEF Holds
    <3> QED BY <2>3, <3>1, <3>6, <3>7 DEF SumOK
  <2>8. Type[c] \in {"init_session", "data", "clear"}
    BY <2>4
  <2> QED BY <2>5, <2>6, <2>7, <2>8
<1> QED BY <1>3, <1>4, <1>5 DEF Apply

\* What a request that takes effect is to be answered.
LEMMA ApplyTypes ==
  ASSUME ServiceInv, NEW c \in Call, Apply(c)
  PROVE  /\ value' \in [Call -> {None} \cup SUBSET Call]
         /\ store' \in [Session -> {None} \cup SUBSET Call]
         /\ \A d \in Call \ {c} : value'[d] = value[d]
<1> USE DEF ServiceInv, ServiceTypes
<1>1. CASE UNCHANGED <<store, value>>
  BY <1>1
<1>2. CASE value' = [value EXCEPT ![c] = {c}] /\ UNCHANGED store
  BY <1>2
<1>3. CASE /\ SessionOf[c] # None /\ Effect(c, SessionOf[c])
           /\ value' \in {value, [value EXCEPT ![c] = Answered(c, store[SessionOf[c]])]}
  <2>0. SessionOf[c] \in Session
    BY <1>3, RequestsAssumption
  <2>1. store' \in [Session -> {None} \cup SUBSET Call]
    BY <1>3, <2>0 DEF Effect
  <2>2. Answered(c, store[SessionOf[c]]) \in {None} \cup SUBSET Call
    <3>1. CASE ~HasResult(c)
      BY <3>1 DEF Answered
    <3>2. CASE HasResult(c)
      <4>1. Type[c] = "clear"
        BY <1>3, <2>0, <3>2, EndpointAssumption DEF HasResult
      <4>2. Answered(c, store[SessionOf[c]]) = store[SessionOf[c]]
        BY <3>2, <4>1 DEF Answered
      <4> QED BY <2>0, <4>2
    <3> QED BY <3>1, <3>2
  <2> QED BY <1>3, <2>1, <2>2
<1> QED BY <1>1, <1>2, <1>3 DEF Apply

\* The pool goes on being the sums of what its clients sent.
LEMMA ServiceKeeps ==
  ASSUME ServiceInv, NEW c \in Call, ServiceStep(c)
  PROVE  ServiceInv'
<1> USE DEF ServiceInv, ServiceTypes
<1>1. CASE Submit(c) /\ SessionOf[c] # None /\ Permitted(c)
  <2>1. /\ phase' = [phase EXCEPT ![c] = "pending"] /\ phase[c] = "new"
        /\ UNCHANGED <<applied, value, store, reply>>
    BY <1>1 DEF Submit
  <2>2. "pending" \in Phases \ {"new", "ok"}
    BY DEF Phases
  <2>3. /\ ByProtocol' /\ phase' \in [Call -> Phases]
        /\ \A s \in Session : Accepted(s) \subseteq Accepted(s)'
    BY <1>1, <2>1, <2>2, MakingKeeps
  <2>4. SumOK'
    BY <2>1, <2>3, SumsStay
  <2>5. ValueOK'
    BY <2>1 DEF ValueOK
  <2> QED BY <2>1, <2>3, <2>4, <2>5
<1>2. CASE /\ \E lost : Fail(c, lost)
           /\ phase[c] = "new" /\ SessionOf[c] # None => Permitted(c)
  <2>0. PICK lost : Fail(c, lost)
    BY <1>2
  <2>1. /\ phase' = [phase EXCEPT ![c] = "failed"] /\ phase[c] \in {"new", "pending"}
        /\ store' = [s \in Session |-> IF s \in lost THEN None ELSE store[s]]
        /\ UNCHANGED <<applied, value, reply>>
    BY <2>0 DEF Fail
  <2>2. "failed" \in Phases \ {"new", "ok"}
    BY DEF Phases
  <2>3. /\ ByProtocol' /\ phase' \in [Call -> Phases]
        /\ \A s \in Session : Accepted(s) \subseteq Accepted(s)'
    BY <1>2, <2>1, <2>2, MakingKeeps
  <2>4. store' \in [Session -> {None} \cup SUBSET Call]
    BY <2>1
  <2>5. SumOK'
    BY <2>1, <2>3, SumsStay
  <2>6. ValueOK'
    BY <2>1 DEF ValueOK
  <2> QED BY <2>1, <2>3, <2>4, <2>5, <2>6
<1>3. CASE Answer(c)
  <2>1. /\ phase' = [phase EXCEPT ![c] = "ok"] /\ phase[c] = "pending" /\ value[c] # None
        /\ reply' = [reply EXCEPT ![c] = value[c]]
        /\ UNCHANGED <<applied, value, store>>
    BY <1>3 DEF Answer
  <2>2. /\ phase' \in [Call -> Phases] /\ reply' \in [Call -> SUBSET Call]
        /\ \A d \in Call : /\ (phase'[d] = "new") <=> (phase[d] = "new")
                           /\ phase[d] = "ok" => phase'[d] = "ok"
    BY <2>1 DEF Phases
  <2>3. \A s \in Session : /\ Accepted(s)' = Accepted(s)
                           /\ InitOf(s) \in Call /\ ClearOf(s) \in Call
    BY <2>2, SessionRequests DEF Accepted, DataOf
  <2>4. ByProtocol'
    BY <2>2, <2>3 DEF ByProtocol
  <2>5. SumOK'
    BY <2>1, <2>3, SumsStay
  <2>6. ValueOK'
    BY <2>1, <2>2 DEF ValueOK
  <2> QED BY <2>1, <2>2, <2>4, <2>5, <2>6
<1>4. CASE Apply(c)
  <2>1. /\ UNCHANGED <<phase, reply>> /\ applied' = applied \cup {c}
        /\ c \notin applied /\ phase[c] # "new"
    BY <1>4 DEF Apply
  <2>2. /\ value' \in [Call -> {None} \cup SUBSET Call]
        /\ store' \in [Session -> {None} \cup SUBSET Call]
        /\ \A d \in Call \ {c} : value'[d] = value[d]
    BY <1>4, ApplyTypes
  <2>3. ByProtocol'
    BY <2>1 DEF ByProtocol, Accepted
  <2>4. ValueOK'
    BY <2>1, <2>2 DEF ValueOK
  <2>5. SumOK'
    BY <1>4, ApplySums
  <2> QED BY <2>1, <2>2, <2>3, <2>4, <2>5
<1> QED BY <1>1, <1>2, <1>3, <1>4 DEF ServiceStep

-----------------------------------------------------------------------------
(* What the flows make of their sessions.                                  *)

\* The requests that were made carry an image, and no others do.
Carried ==
  \A c \in Call :
    (carried[c] # 0) <=> (SessionOf[c] # None /\ Type[c] = "data" /\ phase[c] # "new")

\* Nothing was asked of a session that no flow has drawn.
Untouched ==
  \A s \in Session : (\A n \in Conn : \A i \in 1..flow[n] : FlowSession[n][i] # s) =>
    \A c \in Call : SessionOf[c] = s => phase[c] = "new"

\* The frames up to last are those of the flow that n is in: the requests of its
\* session carry the images among them, each one once.
Taken(n, last) ==
  \E first \in 1..last :
    /\ script[n][first] = "open"
    /\ \A i \in (first + 1)..last : script[n][i] = "image"
    /\ {carried[d] : d \in Accepted(Current(n))} = (first + 1)..last

AllAnswered(n) == \A d \in Accepted(Current(n)) : phase[d] = "ok"

\* Only the request for the frame read last may not have been answered.
OthersAnswered(n) ==
  \A d \in Accepted(Current(n)) :
    \/ phase[d] = "ok"
    \/ carried[d] = read[n] /\ \A e \in Accepted(Current(n)) : carried[e] = read[n] => e = d

InFlow(n) ==
  /\ at[n] \in {"opening", "flow", "adding"} =>
       Taken(n, read[n]) /\ phase[ClearOf(Current(n))] = "new"
  /\ at[n] = "opening" => Accepted(Current(n)) = {}
  /\ at[n] \in {"flow", "adding"} => phase[InitOf(Current(n))] = "ok"
  /\ at[n] = "flow" => AllAnswered(n)
  /\ at[n] = "adding" => OthersAnswered(n)
  /\ at[n] = "clearing" /\ raised[n] = "none" =>
       /\ script[n][read[n]] = "stop"
       /\ Taken(n, read[n] - 1) /\ AllAnswered(n)

\* The inductive invariant, on top of ClearInv and CancelInv.
FlowInv == ServiceInv /\ Carried /\ Untouched /\ \A n \in Conn : InFlow(n)

\* A task asks c of the pool, or gives up on it.
Makes(c) ==
  \/ Submit(c) /\ SessionOf[c] # None /\ Permitted(c)
  \/ (\E lost : Fail(c, lost)) /\ (phase[c] = "new" => Permitted(c))

\* What a step of the task of n may change.
TaskStep(n) ==
  /\ script' = script /\ flow'[n] >= flow[n]
  /\ \A m \in Conn \ {n} : /\ at'[m] = at[m] /\ flow'[m] = flow[m]
                           /\ read'[m] = read[m] /\ raised'[m] = raised[m]
  /\ \/ UNCHANGED <<serviceVars, carried>>
     \/ \E c \in Call :
          /\ flow'[n] \in DOMAIN FlowSession[n] /\ SessionOf[c] = Current(n)'
          /\ Makes(c)
          /\ \A d \in Call : d # c \/ Type[d] # "data" => carried'[d] = carried[d]
          /\ Type[c] = "data" => carried'[c] # 0

\* Where the task of n is suspended, a step finds and leaves it: at most a request
\* of its session ends.
Quiet(n) ==
  /\ script' = script
  /\ at'[n] = at[n] /\ flow'[n] = flow[n] /\ read'[n] = read[n]
  /\ raised'[n] = raised[n] \/ at[n] # "clearing"
  /\ at[n] \notin Over => \A c \in Call : SessionOf[c] = Current(n) =>
       /\ carried'[c] = carried[c]
       /\ phase'[c] = phase[c] \/ (phase[c] = "pending" /\ phase'[c] \in {"ok", "failed"})

LEMMA CurrentIsSession ==
  ASSUME NEW n \in Conn, PlaceOK, at[n] \notin Over
  PROVE  Current(n) \in Session /\ flow[n] \in DOMAIN FlowSession[n]
BY InOneFlow, EndpointAssumption DEF Current

LEMMA QuietKeeps ==
  ASSUME NEW n \in Conn, PlaceOK, InFlow(n), Quiet(n)
  PROVE  InFlow(n)'
<1>1. CASE at[n] \in Over
  BY <1>1 DEF InFlow, Quiet, Over
<1>2. CASE at[n] \notin Over
  <2>0. PICK s \in Session : Current(n) = s /\ Current(n)' = s
    BY <1>2, CurrentIsSession DEF Quiet, Current
  <2>1. /\ InitOf(s) \in Call /\ SessionOf[InitOf(s)] = s
        /\ ClearOf(s) \in Call /\ SessionOf[ClearOf(s)] = s
        /\ \A d \in DataOf(s) : d \in Call /\ SessionOf[d] = s
    BY <2>0, SessionRequests
  <2>2. /\ phase[ClearOf(s)] = "new" => phase'[ClearOf(s)] = "new"
        /\ phase[InitOf(s)] = "ok" => phase'[InitOf(s)] = "ok"
        /\ \A d \in DataOf(s) : /\ carried'[d] = carried[d]
                                /\ (phase'[d] = "new") <=> (phase[d] = "new")
                                /\ phase[d] = "ok" => phase'[d] = "ok"
    BY <1>2, <2>0, <2>1 DEF Quiet
  <2>3. Accepted(s)' = Accepted(s) /\ \A d \in Accepted(s) : d \in DataOf(s)
    BY <2>2 DEF Accepted
  <2>4. /\ Accepted(Current(n))' = Accepted(s) /\ Accepted(Current(n)) = Accepted(s)
        /\ ClearOf(Current(n))' = ClearOf(s) /\ InitOf(Current(n))' = InitOf(s)
        /\ ClearOf(Current(n)) = ClearOf(s) /\ InitOf(Current(n)) = InitOf(s)
    BY <2>0, <2>3 DEF Accepted, ClearOf, InitOf
  <2> DEFINE T(last) ==
        \E first \in 1..last :
          /\ script'[n][first] = "open"
          /\ \A i \in (first + 1)..last : script'[n][i] = "image"
          /\ {carried'[d] : d \in Accepted(Current(n))'} = (first + 1)..last
  <2>5. \A last : Taken(n, last) => T(last)
    <3>1. {carried'[d] : d \in Accepted(s)} = {carried[d] : d \in Accepted(s)}
      BY <2>2, <2>3
    <3> QED BY <2>4, <3>1 DEF Taken, Quiet
  <2>6. AllAnswered(n) => AllAnswered(n)'
    BY <2>2, <2>3, <2>4 DEF AllAnswered
  <2>7. OthersAnswered(n) => OthersAnswered(n)'
    BY <2>2, <2>3, <2>4 DEF OthersAnswered, Quiet
  <2>8. Taken(n, read[n]) => Taken(n, read[n])'
    <3>1. T(read[n]) => Taken(n, read[n])'
      BY DEF Taken, Quiet
    <3> QED BY <2>5, <3>1
  <2>9. Taken(n, read[n] - 1) => Taken(n, read[n] - 1)'
    <3>1. T(read[n] - 1) => Taken(n, read[n] - 1)'
      BY DEF Taken, Quiet
    <3> QED BY <2>5, <3>1
  <2> HIDE DEF T
  <2> QED BY <2>2, <2>4, <2>6, <2>7, <2>8, <2>9 DEF InFlow, Quiet
<1> QED BY <1>1, <1>2

LEMMA MakesOne ==
  ASSUME ServiceInv, NEW c \in Call, Makes(c), SessionOf[c] # None
  PROVE  /\ ServiceStep(c) /\ phase[c] \in {"new", "pending"}
         /\ phase'[c] \in {"pending", "failed"}
         /\ \A d \in Call \ {c} : phase'[d] = phase[d]
         /\ phase[c] = "new" => Permitted(c)
<1>1. ServiceStep(c) /\ (phase[c] = "new" => Permitted(c))
  BY DEF Makes, ServiceStep
<1>2. PICK to \in {"pending", "failed"} :
        phase' = [phase EXCEPT ![c] = to] /\ phase[c] \in {"new", "pending"}
  BY DEF Makes, Submit, Fail
<1> QED BY <1>1, <1>2 DEF ServiceInv, ServiceTypes

\* A task keeps to the session of its own flow.
LEMMA TaskTouches ==
  ASSUME NEW n \in Conn, PlaceOK', FlowInv, TaskStep(n)
  PROVE  /\ ServiceInv' /\ Carried'
         /\ \A d \in Call : \/ phase'[d] = phase[d] /\ carried'[d] = carried[d]
                            \/ flow'[n] \in DOMAIN FlowSession[n] /\ SessionOf[d] = Current(n)'
<1>1. CASE UNCHANGED <<serviceVars, carried>>
  <2>1. ServiceInv'
    BY <1>1 DEF FlowInv, ServiceInv, ServiceTypes, ByProtocol, ValueOK, SumOK, Holds, Accepted,
                serviceVars
  <2> QED BY <1>1, <2>1 DEF FlowInv, Carried, serviceVars
<1>2. ASSUME NEW c \in Call,
             flow'[n] \in DOMAIN FlowSession[n] /\ SessionOf[c] = Current(n)',
             Makes(c),
             \A d \in Call : d # c \/ Type[d] # "data" => carried'[d] = carried[d],
             Type[c] = "data" => carried'[c] # 0
      PROVE  /\ ServiceInv' /\ Carried'
             /\ \A d \in Call : \/ phase'[d] = phase[d] /\ carried'[d] = carried[d]
                                \/ flow'[n] \in DOMAIN FlowSession[n] /\ SessionOf[d] = Current(n)'
  <2>1. SessionOf[c] # None
    BY <1>2, EndpointAssumption, RequestsAssumption DEF Current
  <2>2. /\ ServiceStep(c) /\ phase'[c] # "new" /\ \A d \in Call \ {c} : phase'[d] = phase[d]
    BY <1>2, <2>1, MakesOne DEF FlowInv
  <2>3. ServiceInv'
    BY <2>2, ServiceKeeps DEF FlowInv
  <2>4. Carried'
    BY <1>2, <2>1, <2>2 DEF FlowInv, Carried
  <2> QED BY <1>2, <2>2, <2>3, <2>4
<1> QED BY <1>1, <1>2 DEF TaskStep

LEMMA TaskKeeps ==
  ASSUME NEW n \in Conn, PlaceOK, PlaceOK', FlowInv, TaskStep(n), InFlow(n)'
  PROVE  FlowInv'
<1>1. /\ ServiceInv' /\ Carried'
      /\ \A d \in Call : \/ phase'[d] = phase[d] /\ carried'[d] = carried[d]
                         \/ flow'[n] \in DOMAIN FlowSession[n] /\ SessionOf[d] = Current(n)'
  BY TaskTouches
<1>2. \A m \in Conn : flow[m] \in Nat /\ flow'[m] \in Nat /\ flow'[m] >= flow[m]
  <2>1. \A m \in Conn : flow[m] \in Nat /\ flow'[m] \in Nat
    BY DEF PlaceOK
  <2>2. flow'[n] >= flow[n] /\ \A m \in Conn \ {n} : flow'[m] = flow[m]
    BY DEF TaskStep
  <2>3. \A m \in Conn : m = n \/ m \in Conn \ {n}
    OBVIOUS
  <2> QED BY <2>1, <2>2, <2>3
<1>3. Untouched'
  <2> SUFFICES ASSUME NEW s \in Session,
                      \A m \in Conn : \A i \in 1..flow'[m] : FlowSession[m][i] # s,
                      NEW c \in Call, SessionOf[c] = s
               PROVE  phase'[c] = "new"
    BY DEF Untouched
  <2>1. \A m \in Conn : 1..flow[m] \subseteq 1..flow'[m]
    BY <1>2
  <2>2. phase[c] = "new"
    BY <2>1 DEF FlowInv, Untouched
  <2>3. SessionOf[c] # Current(n)' \/ flow'[n] \notin DOMAIN FlowSession[n]
    <3>1. ASSUME flow'[n] \in DOMAIN FlowSession[n] PROVE flow'[n] \in 1..flow'[n]
      BY <1>2, <3>1, EndpointAssumption
    <3> QED BY <3>1 DEF Current
  <2> QED BY <1>1, <2>2, <2>3
<1>4. ASSUME NEW m \in Conn \ {n} PROVE InFlow(m)'
  <2>1. ASSUME at[m] \notin Over, NEW c \in Call, SessionOf[c] = Current(m)
        PROVE  phase'[c] = phase[c] /\ carried'[c] = carried[c]
    <3>1. flow[m] \in DOMAIN FlowSession[m]
      BY <2>1, CurrentIsSession
    <3>2. flow'[n] \in DOMAIN FlowSession[n] => Current(n)' # Current(m)
      BY <3>1, EndpointAssumption DEF Current
    <3> QED BY <1>1, <2>1, <3>2
  <2>2. Quiet(m)
    BY <2>1 DEF Quiet, TaskStep
  <2> QED BY <2>2, QuietKeeps DEF FlowInv
<1> QED BY <1>1, <1>3, <1>4 DEF FlowInv

\* The pool ends the requests of a flow, and makes none.
LEMMA PoolFlow ==
  ASSUME NEW c \in Call, PlaceOK, FlowInv, Pool(c)
  PROVE  /\ FlowInv'
         /\ \A d \in Call : SessionOf[d] # None /\ phase[d] = "new" => phase'[d] = "new"
<1>0. UNCHANGED connVars
  BY DEF Pool, PoolHandles, PoolAnswers, PoolFails, PoolLoses
<1>1. ServiceStep(c)
  BY DEF Pool, PoolHandles, PoolAnswers, PoolFails, PoolLoses, ServiceStep
<1>2. \/ phase' = phase
      \/ \E to \in {"ok", "failed"} :
           phase' = [phase EXCEPT ![c] = to] /\ (phase[c] = "pending" \/ SessionOf[c] = None)
  BY DEF Pool, PoolHandles, PoolAnswers, PoolFails, PoolLoses, Apply, Answer, Fail
<1>3. \A d \in Call : phase'[d] = phase[d] \/ SessionOf[d] = None
                      \/ (phase[d] = "pending" /\ phase'[d] \in {"ok", "failed"})
  BY <1>2 DEF PlaceOK
<1>4. ServiceInv'
  BY <1>1, ServiceKeeps DEF FlowInv
<1>5. Carried'
  BY <1>0, <1>3 DEF FlowInv, Carried, connVars
<1>6. Untouched'
  BY <1>0, <1>3, SessionRequests DEF FlowInv, Untouched, connVars
<1>7. ASSUME NEW m \in Conn PROVE InFlow(m)'
  <2>1. at[m] \notin Over => Current(m) # None
    BY CurrentIsSession, SessionRequests
  <2>2. Quiet(m)
    BY <1>0, <1>3, <2>1 DEF Quiet, connVars
  <2> QED BY <2>2, QuietKeeps DEF FlowInv
<1> QED BY <1>3, <1>4, <1>5, <1>6, <1>7 DEF FlowInv

-----------------------------------------------------------------------------
(* The steps of a task.                                                    *)

LEMMA TakenOn ==
  ASSUME NEW n \in Conn, NEW s, Current(n) = s, Current(n)' = s, script' = script,
         NEW last \in Int, Taken(n, last),
         \A d \in DataOf(s) : carried'[d] = carried[d] /\ ((phase'[d] = "new") <=> (phase[d] = "new"))
  PROVE  Taken(n, last)'
<1>1. Accepted(Current(n))' = Accepted(s) /\ Accepted(Current(n)) = Accepted(s)
  BY DEF Accepted
<1>2. {carried'[d] : d \in Accepted(s)} = {carried[d] : d \in Accepted(s)}
  BY DEF Accepted
<1> QED BY <1>1, <1>2 DEF Taken

\* Outside the flows there is nothing to keep.
LEMMA LandsOver ==
  ASSUME NEW n \in Conn, PlaceOK, at'[n] \in Over,
         UNCHANGED <<script, flow, carried, serviceVars>>,
         \A m \in Conn \ {n} : at'[m] = at[m] /\ read'[m] = read[m] /\ raised'[m] = raised[m]
  PROVE  TaskStep(n) /\ InFlow(n)'
<1>1. InFlow(n)'
  BY DEF InFlow, Over
<1>2. flow'[n] >= flow[n]
  BY DEF PlaceOK
<1> QED BY <1>1, <1>2 DEF TaskStep

\* Whatever ends a flow, its session is cleared after all that was asked of it; a
\* flow that ends well has had everything answered.
LEMMA LeaveFlowFlow ==
  ASSUME NEW n \in Conn, NEW what, PlaceOK, CarryTypes, FlowInv, at[n] \notin Over,
         LeaveFlow(n, what), UNCHANGED <<script, flow, carried>>,
         \A m \in Conn \ {n} : read'[m] = read[m],
         Permitted(ClearOf(Current(n))),
         NEW last \in Int, last = read'[n],
         what = "none" =>
           script[n][last] = "stop" /\ Taken(n, last - 1) /\ AllAnswered(n)
  PROVE  TaskStep(n) /\ InFlow(n)'
<1>0. PICK s \in Session : /\ Current(n) = s /\ Current(n)' = s
                           /\ flow[n] \in DOMAIN FlowSession[n] /\ flow[n] \in Nat
  BY CurrentIsSession DEF Current, PlaceOK
<1>1. /\ ClearOf(s) \in Call /\ SessionOf[ClearOf(s)] = s /\ Type[ClearOf(s)] = "clear" /\ s # None
      /\ \A d \in DataOf(s) : d \in Call /\ d # ClearOf(s)
  BY SessionRequests
<1>2. Makes(ClearOf(s))
  BY <1>0, <1>1 DEF LeaveFlow, Makes
<1>3. /\ \A m \in Conn \ {n} : at'[m] = at[m] /\ raised'[m] = raised[m]
      /\ at'[n] \in Over \/ (at'[n] = "clearing" /\ raised'[n] = what)
  <2>1. CASE raised' = [raised EXCEPT ![n] = what] /\ Goto(n, "clearing")
    BY <2>1, GotoLands DEF CarryTypes
  <2>2. CASE UNCHANGED raised /\ \E why : Raise(n, why)
    BY <2>2, RaiseLands DEF Over
  <2> QED BY <2>1, <2>2 DEF LeaveFlow
<1>4. TaskStep(n)
  <2>1. \A d \in Call : carried'[d] = carried[d]
    OBVIOUS
  <2> QED BY <1>0, <1>1, <1>2, <1>3, <2>1 DEF TaskStep
<1>5. ASSUME at'[n] = "clearing", what = "none" PROVE Taken(n, read[n] - 1)' /\ AllAnswered(n)'
  <2>1. \A d \in DataOf(s) : phase'[d] = phase[d] /\ carried'[d] = carried[d]
    BY <1>1, <1>2, MakesOne DEF FlowInv
  <2>2. Taken(n, last - 1)'
    BY <1>0, <1>5, <2>1, TakenOn
  <2>3. Accepted(Current(n))' = Accepted(s) /\ \A d \in Accepted(s) : d \in DataOf(s)
    BY <1>0, <2>1 DEF Accepted
  <2>4. AllAnswered(n)'
    BY <1>0, <1>5, <2>1, <2>3 DEF AllAnswered
  <2> QED BY <2>2, <2>4 DEF Taken
<1>6. InFlow(n)'
  BY <1>3, <1>5 DEF InFlow, Over
<1> QED BY <1>4, <1>6

\* A flow draws a session that nobody has used.
LEMMA StartFlowFlow ==
  ASSUME NEW n \in Conn, PlaceOK, CarryTypes, FlowInv, StartFlow(n)
  PROVE  TaskStep(n) /\ InFlow(n)'
<1>0. /\ flow[n] \in Nat /\ flow[n] < Len(FlowSession[n]) /\ FlowSession[n] \in Seq(Session)
      /\ flow'[n] = flow[n] + 1 /\ \A m \in Conn \ {n} : flow'[m] = flow[m]
  <2>1. flow \in [Conn -> Nat] /\ FlowSession[n] \in Seq(Session)
    BY EndpointAssumption DEF PlaceOK
  <2>2. flow' = [flow EXCEPT ![n] = @ + 1] /\ flow[n] < Len(FlowSession[n])
    BY DEF StartFlow
  <2> QED BY <2>1, <2>2
<1>1. flow'[n] \in DOMAIN FlowSession[n] /\ flow'[n] \in Nat /\ flow'[n] >= flow[n]
  BY <1>0
<1>2. PICK s \in Session : s = FlowSession[n][flow[n] + 1] /\ Current(n)' = s
  BY <1>0, <1>1 DEF Current
<1>3. /\ InitOf(s) \in Call /\ SessionOf[InitOf(s)] = s /\ Type[InitOf(s)] = "init_session"
      /\ ClearOf(s) \in Call /\ SessionOf[ClearOf(s)] = s /\ Type[ClearOf(s)] = "clear"
      /\ \A d \in DataOf(s) : d \in Call /\ SessionOf[d] = s /\ Type[d] = "data"
      /\ s # None
  BY SessionRequests
<1>4. \A c \in Call : SessionOf[c] = s => phase[c] = "new"
  <2>1. ASSUME NEW m \in Conn, NEW i \in 1..flow[m], FlowSession[m][i] = s PROVE FALSE
    <3>1. i \in DOMAIN FlowSession[m] /\ flow[n] + 1 \in DOMAIN FlowSession[n]
      BY <1>0, <1>1, EndpointAssumption DEF PlaceOK
    <3>2. m = n /\ i = flow[n] + 1
      BY <1>2, <2>1, <3>1, EndpointAssumption
    <3> QED BY <1>0, <3>2
  <2> QED BY <2>1 DEF FlowInv, Untouched
<1>5. Submit(InitOf(s)) /\ Permitted(InitOf(s))
  BY <1>2, <1>3, <1>4 DEF StartFlow, Permitted
<1>6. Makes(InitOf(s))
  BY <1>3, <1>5 DEF Makes
<1>7. at'[n] = "opening" /\ \A m \in Conn \ {n} : at'[m] = at[m]
  BY GotoLands DEF StartFlow
<1>8. /\ read[n] \in Nat /\ read'[n] = read[n] + 1 /\ \A m \in Conn \ {n} : read'[m] = read[m]
      /\ UNCHANGED <<script, raised, carried>> /\ script[n][read[n] + 1] = "open"
  BY ReadOn DEF StartFlow, Frame, CarryTypes
<1>9. TaskStep(n)
  BY <1>0, <1>1, <1>2, <1>3, <1>6, <1>7, <1>8 DEF TaskStep
<1>10. phase'[ClearOf(s)] = "new" /\ \A d \in DataOf(s) : phase'[d] = "new"
  BY <1>3, <1>4, <1>6, MakesOne DEF FlowInv
<1>11. Accepted(Current(n))' = {} /\ ClearOf(Current(n))' = ClearOf(s)
  BY <1>2, <1>10 DEF Accepted, ClearOf
<1>12. Taken(n, read[n])'
  <2>1. /\ read'[n] \in 1..read'[n] /\ script'[n][read'[n]] = "open"
        /\ (read'[n] + 1)..read'[n] = {}
    BY <1>8
  <2>2. {carried'[d] : d \in Accepted(Current(n))'} = {}
    BY <1>11
  <2> QED BY <2>1, <2>2 DEF Taken
<1> QED BY <1>7, <1>9, <1>10, <1>11, <1>12 DEF InFlow

\* A flow that waits for a frame or a request of which it has been told the outcome
\* may be left.
LEMMA ReadyToLeave ==
  ASSUME NEW n \in Conn, PlaceOK, FlowInv,
         at[n] \in {"opening", "flow", "adding"},
         at[n] = "opening" => phase[InitOf(Current(n))] = "ok",
         at[n] = "adding" =>
           \A d \in Accepted(Current(n)) : carried[d] = read[n] => phase[d] # "pending"
  PROVE  Permitted(ClearOf(Current(n)))
<1>0. PICK s \in Session : Current(n) = s
  BY CurrentIsSession DEF Over
<1>1. ClearOf(s) \in Call /\ SessionOf[ClearOf(s)] = s
  BY SessionRequests
<1>2. phase[InitOf(s)] = "ok" /\ phase[ClearOf(s)] = "new"
  BY <1>0 DEF FlowInv, InFlow
<1>3. ASSUME NEW d \in DataOf(s) PROVE phase[d] # "pending"
  <2>1. CASE d \notin Accepted(s)
    BY <2>1 DEF Accepted
  <2>2. CASE d \in Accepted(s)
    BY <1>0, <2>2 DEF FlowInv, InFlow, AllAnswered, OthersAnswered
  <2> QED BY <2>1, <2>2
<1> QED BY <1>0, <1>1, <1>2, <1>3 DEF Permitted

LEMMA PermitFlow ==
  ASSUME NEW n \in Conn, PlaceOK, CarryTypes, FlowInv, Permit(n)
  PROVE  TaskStep(n) /\ InFlow(n)'
<1>1. /\ at[n] = "opening" /\ phase[InitOf(Current(n))] = "ok"
      /\ UNCHANGED <<script, read, flow, carried>> /\ flow[n] \in Nat /\ read[n] \in Int
  BY DEF Permit, PlaceOK, CarryTypes
<1>2. PICK s \in Session : Current(n) = s /\ Current(n)' = s
  BY <1>1, CurrentIsSession DEF Over, Current
<1>3. CASE Goto(n, "flow") /\ UNCHANGED <<raised, serviceVars>>
  <2>1. at'[n] = "flow" /\ \A m \in Conn \ {n} : at'[m] = at[m]
    BY <1>3, GotoLands
  <2>2. phase' = phase
    BY <1>3 DEF serviceVars
  <2>3. Taken(n, read[n]) /\ phase[ClearOf(s)] = "new" /\ Accepted(s) = {}
    BY <1>1, <1>2 DEF FlowInv, InFlow
  <2>4. PICK last \in Int : last = read[n] /\ last = read'[n]
    BY <1>1
  <2>5. Taken(n, last)'
    BY <1>1, <1>2, <2>2, <2>3, <2>4, TakenOn
  <2>6. Taken(n, read[n])'
    BY <2>4, <2>5 DEF Taken
  <2>7. Accepted(Current(n))' = {}
    BY <1>2, <2>2, <2>3 DEF Accepted
  <2>8. InFlow(n)'
    BY <1>1, <1>2, <2>1, <2>2, <2>3, <2>6, <2>7 DEF InFlow, AllAnswered, ClearOf, InitOf
  <2> QED BY <1>1, <1>3, <2>1, <2>8 DEF TaskStep
<1>4. CASE LeaveFlow(n, "disconnect")
  <2>1. Permitted(ClearOf(Current(n)))
    BY <1>1, ReadyToLeave
  <2>2. PICK last \in Int : last = read'[n]
    BY <1>1
  <2> QED BY <1>1, <1>4, <2>1, <2>2, LeaveFlowFlow DEF Over
<1> QED BY <1>3, <1>4 DEF Permit

\* The image of the frame read goes into a request that carried nothing.
LEMMA AddImageFlow ==
  ASSUME NEW n \in Conn, PlaceOK, CarryTypes, FlowInv, AddImage(n)
  PROVE  TaskStep(n) /\ InFlow(n)'
<1>0. PICK d \in DataOf(Current(n)) :
        Submit(d) /\ carried' = [carried EXCEPT ![d] = read[n] + 1]
  BY DEF AddImage
<1>1. /\ at[n] = "flow" /\ UNCHANGED <<script, flow, raised>> /\ flow[n] \in Nat
      /\ script[n][read[n] + 1] = "image"
  BY DEF AddImage, PlaceOK, Frame
<1>2. PICK s \in Session : Current(n) = s /\ Current(n)' = s /\ flow[n] \in DOMAIN FlowSession[n]
  BY <1>1, CurrentIsSession DEF Over, Current
<1>3. /\ InitOf(s) \in Call /\ ClearOf(s) \in Call /\ s # None
      /\ SessionOf[InitOf(s)] = s /\ Type[InitOf(s)] = "init_session"
      /\ SessionOf[ClearOf(s)] = s /\ Type[ClearOf(s)] = "clear"
      /\ d \in DataOf(s) /\ d \in Call /\ SessionOf[d] = s /\ Type[d] = "data"
  BY <1>0, <1>2, SessionRequests
<1>4. /\ Taken(n, read[n]) /\ phase[ClearOf(s)] = "new" /\ phase[InitOf(s)] = "ok"
      /\ \A e \in Accepted(s) : phase[e] = "ok"
  BY <1>1, <1>2 DEF FlowInv, InFlow, AllAnswered
<1>5. Permitted(d)
  BY <1>3, <1>4 DEF Permitted, Accepted
<1>6. Makes(d) /\ phase[d] = "new"
  BY <1>0, <1>3, <1>5 DEF Makes, Submit
<1>7. phase'[d] # "new" /\ \A e \in Call \ {d} : phase'[e] = phase[e]
  BY <1>3, <1>6, MakesOne DEF FlowInv
<1>8. at'[n] = "adding" /\ \A m \in Conn \ {n} : at'[m] = at[m]
  BY GotoLands DEF AddImage
<1>9. PICK k \in Nat : /\ read[n] = k /\ read'[n] = k + 1
                       /\ \A m \in Conn \ {n} : read'[m] = read[m]
  BY ReadOn DEF AddImage, CarryTypes
<1>10. carried'[d] = k + 1 /\ \A e \in Call \ {d} : carried'[e] = carried[e]
  BY <1>0, <1>3, <1>9 DEF CarryTypes
<1>11. TaskStep(n)
  BY <1>1, <1>2, <1>3, <1>6, <1>8, <1>9, <1>10 DEF TaskStep
<1>12. Accepted(Current(n))' = Accepted(s) \cup {d} /\ d \notin Accepted(s)
  BY <1>2, <1>3, <1>6, <1>7 DEF Accepted, DataOf
<1>13. PICK first \in 1..k :
         /\ script[n][first] = "open"
         /\ \A i \in (first + 1)..k : script[n][i] = "image"
         /\ {carried[e] : e \in Accepted(s)} = (first + 1)..k
  BY <1>2, <1>4, <1>9 DEF Taken
<1>14. Taken(n, read[n])'
  <2>1. {carried'[e] : e \in Accepted(s) \cup {d}} = {carried[e] : e \in Accepted(s)} \cup {k + 1}
    BY <1>3, <1>10, <1>12 DEF Accepted, DataOf
  <2>2. ((first + 1)..k) \cup {k + 1} = (first + 1)..(k + 1) /\ first \in 1..(k + 1)
    BY <1>9, <1>13
  <2>3. \A i \in (first + 1)..(k + 1) : script[n][i] = "image"
    BY <1>1, <1>9, <1>13
  <2> QED BY <1>1, <1>9, <1>12, <1>13, <2>1, <2>2, <2>3 DEF Taken
<1>15. OthersAnswered(n)'
  <2>1. ASSUME NEW e \in Accepted(s) PROVE e # d /\ phase'[e] = "ok" /\ carried'[e] # k + 1
    <3>1. e \in Call \ {d} /\ carried[e] \in (first + 1)..k
      BY <1>12, <1>13, <2>1 DEF Accepted, DataOf
    <3> QED BY <1>4, <1>7, <1>9, <1>10, <2>1, <3>1
  <2> QED BY <1>9, <1>10, <1>12, <2>1 DEF OthersAnswered
<1>16. phase'[ClearOf(s)] = "new" /\ phase'[InitOf(s)] = "ok"
  BY <1>3, <1>4, <1>7
<1> QED BY <1>2, <1>8, <1>11, <1>14, <1>15, <1>16 DEF InFlow, ClearOf, InitOf

\* Once the request that work_function waits for has ended, all others have been
\* answered.
LEMMA AddingIsLast ==
  ASSUME NEW n \in Conn, PlaceOK, FlowInv, AddsOne(n), at[n] = "adding",
         phase[Adding(n)] # "new"
  PROVE  /\ Adding(n) \in Accepted(Current(n)) /\ carried[Adding(n)] = read[n]
         /\ \A d \in Accepted(Current(n)) : phase[d] = "ok" \/ d = Adding(n)
<1>1. Adding(n) \in Accepted(Current(n)) /\ carried[Adding(n)] = read[n]
  BY AddingIsOne DEF Accepted
<1>2. OthersAnswered(n)
  BY DEF FlowInv, InFlow
<1> QED BY <1>1, <1>2 DEF OthersAnswered

LEMMA AddedFlow ==
  ASSUME NEW n \in Conn, PlaceOK, CarryTypes, AddsOne(n), FlowInv, Added(n)
  PROVE  TaskStep(n) /\ InFlow(n)'
<1>1. /\ at[n] = "adding" /\ phase[Adding(n)] \in {"ok", "failed"}
      /\ UNCHANGED <<script, read, flow, carried>> /\ flow[n] \in Nat /\ read[n] \in Int
  BY DEF Added, PlaceOK, CarryTypes
<1>2. PICK s \in Session : Current(n) = s /\ Current(n)' = s
  BY <1>1, CurrentIsSession DEF Over, Current
<1>3. PICK a : a = Adding(n)
  OBVIOUS
<1>4. /\ a \in Accepted(s) /\ carried[a] = read[n] /\ phase[a] \in {"ok", "failed"}
      /\ \A d \in Accepted(s) : phase[d] = "ok" \/ d = a
  BY <1>1, <1>2, <1>3, AddingIsLast
<1>5. PICK last \in Int : last = read[n] /\ last = read'[n]
  BY <1>1
<1>6. CASE phase[a] = "ok" /\ Goto(n, "flow") /\ UNCHANGED <<raised, serviceVars>>
  <2>1. at'[n] = "flow" /\ \A m \in Conn \ {n} : at'[m] = at[m]
    BY <1>6, GotoLands
  <2>2. phase' = phase
    BY <1>6 DEF serviceVars
  <2>3. Taken(n, last) /\ phase[ClearOf(s)] = "new" /\ phase[InitOf(s)] = "ok"
    BY <1>1, <1>2, <1>5 DEF FlowInv, InFlow
  <2>4. Taken(n, last)'
    BY <1>1, <1>2, <2>2, <2>3, TakenOn
  <2>5. Taken(n, read[n])'
    BY <1>5, <2>4 DEF Taken
  <2>6. AllAnswered(n)'
    BY <1>2, <1>4, <1>6, <2>2 DEF AllAnswered, Accepted
  <2>7. InFlow(n)'
    BY <1>2, <2>1, <2>2, <2>3, <2>5, <2>6 DEF InFlow, ClearOf, InitOf
  <2> QED BY <1>1, <1>6, <2>1, <2>7 DEF TaskStep
<1>7. CASE LeaveFlow(n, IF raised[n] = "cancelled" THEN "cancelled" ELSE "error")
  <2>1. \A d \in Accepted(Current(n)) : phase[d] # "pending"
    BY <1>2, <1>4
  <2>2. Permitted(ClearOf(Current(n)))
    BY <1>1, <2>1, ReadyToLeave
  <2>3. PICK what : LeaveFlow(n, what) /\ what # "none"
    BY <1>7
  <2> QED BY <1>1, <1>5, <2>2, <2>3, LeaveFlowFlow DEF Over
<1> QED BY <1>3, <1>6, <1>7 DEF Added

LEMMA EndFlowFlow ==
  ASSUME NEW n \in Conn, PlaceOK, CarryTypes, FlowInv, EndFlow(n)
  PROVE  TaskStep(n) /\ InFlow(n)'
<1>1. /\ at[n] = "flow" /\ UNCHANGED <<script, flow, carried>> /\ read[n] \in Nat
      /\ read'[n] = read[n] + 1 /\ \A m \in Conn \ {n} : read'[m] = read[m]
  BY ReadOn DEF EndFlow, CarryTypes
<1>2. PICK what : /\ LeaveFlow(n, what)
                  /\ what = "none" => script[n][read[n] + 1] = "stop"
  BY DEF EndFlow, Frame
<1>3. Permitted(ClearOf(Current(n)))
  BY <1>1, ReadyToLeave
<1>4. Taken(n, read[n]) /\ AllAnswered(n)
  BY <1>1 DEF FlowInv, InFlow
<1>5. PICK last \in Int : last = read'[n] /\ read[n] = last - 1
  BY <1>1
<1>6. Taken(n, last - 1)
  BY <1>4, <1>5
<1>7. what = "none" => script[n][last] = "stop"
  BY <1>1, <1>2, <1>5
<1> QED BY <1>1, <1>2, <1>3, <1>4, <1>5, <1>6, <1>7, LeaveFlowFlow DEF Over

LEMMA InterruptFlow ==
  ASSUME NEW n \in Conn, NEW what, what # "none", PlaceOK, CarryTypes, FlowInv,
         Interrupt(n, what)
  PROVE  TaskStep(n) /\ InFlow(n)'
<1>1. UNCHANGED <<script, read, flow, carried>> /\ read[n] \in Int
  BY DEF Interrupt, CarryTypes
<1>2. CASE Raise(n, what) /\ UNCHANGED <<raised, serviceVars>>
  BY <1>1, <1>2, RaiseLands, LandsOver DEF Over
<1>3. CASE at[n] = "flow" /\ LeaveFlow(n, what)
  <2>1. Permitted(ClearOf(Current(n)))
    BY <1>3, ReadyToLeave
  <2>2. PICK last \in Int : last = read'[n]
    BY <1>1
  <2> QED BY <1>1, <1>3, <2>1, <2>2, LeaveFlowFlow DEF Over
<1> QED BY <1>2, <1>3 DEF Interrupt

\* The steps that land outside a flow.
LEMMA LandingFlow ==
  ASSUME NEW n \in Conn, PlaceOK, CarryTypes,
         \/ RefuseFrame(n) \/ FailToOpen(n) \/ Cleared(n) \/ FailToClear(n)
         \/ Connect(n) \/ Accept(n) \/ FailToAccept(n)
  PROVE  TaskStep(n) /\ InFlow(n)'
<1>1. UNCHANGED <<script, flow, carried, serviceVars>>
  BY DEF RefuseFrame, FailToOpen, Cleared, FailToClear, Connect, Accept, FailToAccept
<1>2. at'[n] \in Over /\ \A m \in Conn \ {n} : at'[m] = at[m]
  <2>1. \/ (\E what : Raise(n, what)) \/ Goto(n, "cycle")
        \/ \E stop \in {"accepting", "cycle", "done"} : at' = [at EXCEPT ![n] = stop]
    BY DEF RefuseFrame, FailToOpen, Cleared, FailToClear, Connect, Accept, FailToAccept, Finish
  <2>2. CASE \E what : Raise(n, what)
    BY <2>2, RaiseLands DEF Over
  <2>3. CASE Goto(n, "cycle")
    BY <2>3, GotoLands DEF Over
  <2>4. CASE \E stop \in {"accepting", "cycle", "done"} : at' = [at EXCEPT ![n] = stop]
    BY <2>4 DEF PlaceOK, Over
  <2> QED BY <2>1, <2>2, <2>3, <2>4
<1>3. \A m \in Conn \ {n} : read'[m] = read[m]
  BY ReadOn DEF RefuseFrame, FailToOpen, Cleared, FailToClear, Connect, Accept, FailToAccept
<1>4. \A m \in Conn \ {n} : raised'[m] = raised[m]
  BY DEF RefuseFrame, FailToOpen, Cleared, FailToClear, Connect, Accept, FailToAccept, CarryTypes
<1> QED BY <1>1, <1>2, <1>3, <1>4, LandsOver

LEMMA CancelFlow ==
  ASSUME NEW n \in Conn, PlaceOK, CarryTypes, AddsOne(n), FlowInv, Cancel(n)
  PROVE  TaskStep(n) /\ InFlow(n)'
<1>0. /\ script' = script /\ flow' = flow /\ read' = read /\ carried' = carried
      /\ \A m \in Conn : flow[m] \in Nat
  BY DEF Cancel, Interrupt, PlaceOK
<1>1. CASE Interrupt(n, "cancelled")
  BY <1>1, InterruptFlow
<1>2. ASSUME NEW c \in {InitOf(Current(n)), ClearOf(Current(n))}, at[n] \notin Over,
             phase[c] = "pending", Fail(c, {}), Finish(n),
             raised' \in {raised, [raised EXCEPT ![n] = "none"]}
      PROVE  TaskStep(n) /\ InFlow(n)'
  <2>1. at'[n] = "done" /\ \A m \in Conn \ {n} : at'[m] = at[m] /\ raised'[m] = raised[m]
    BY <1>2 DEF Finish, PlaceOK, CarryTypes
  <2>2. PICK s \in Session : Current(n) = s /\ Current(n)' = s /\ flow'[n] \in DOMAIN FlowSession[n]
    BY <1>0, <1>2, CurrentIsSession DEF Current
  <2>3. c \in Call /\ SessionOf[c] = s /\ Type[c] # "data"
    BY <2>2, SessionRequests
  <2>4. Makes(c)
    BY <1>2 DEF Makes
  <2>5. TaskStep(n)
    BY <1>0, <2>1, <2>2, <2>3, <2>4 DEF TaskStep
  <2> QED BY <2>1, <2>5 DEF InFlow
<1>3. CASE /\ at[n] = "adding" /\ phase[Adding(n)] = "pending"
           /\ Fail(Adding(n), {}) /\ Goto(n, "adding")
           /\ raised' = [raised EXCEPT ![n] = "cancelled"]
  <2>1. at'[n] = "adding" /\ \A m \in Conn \ {n} : at'[m] = at[m] /\ raised'[m] = raised[m]
    BY <1>3, GotoLands DEF CarryTypes
  <2>2. PICK s \in Session : Current(n) = s /\ Current(n)' = s /\ flow'[n] \in DOMAIN FlowSession[n]
    BY <1>0, <1>3, CurrentIsSession DEF Current, Over
  <2>3. PICK a \in DataOf(s) : a = Adding(n)
    BY <1>3, <2>2, AddingIsOne
  <2>4. a \in Call /\ SessionOf[a] = s /\ Type[a] = "data" /\ s # None
    BY SessionRequests
  <2>5. Makes(a) /\ phase[a] = "pending"
    BY <1>3, <2>3 DEF Makes
  <2>6. carried[a] # 0
    BY <2>4, <2>5 DEF FlowInv, Carried
  <2>7. TaskStep(n)
    BY <1>0, <2>1, <2>2, <2>4, <2>5, <2>6 DEF TaskStep
  <2>8. phase'[a] = "failed" /\ \A d \in Call \ {a} : phase'[d] = phase[d]
    BY <1>3, <2>3, <2>4 DEF Fail, PlaceOK
  <2>9. Quiet(n)
    BY <1>0, <1>3, <2>1, <2>5, <2>8 DEF Quiet
  <2> QED BY <2>7, <2>9, QuietKeeps DEF FlowInv
<1>4. CASE at[n] = "accepting" /\ Finish(n) /\ UNCHANGED <<raised, serviceVars>>
  <2>1. at'[n] \in Over /\ \A m \in Conn \ {n} : at'[m] = at[m]
    BY <1>4 DEF Finish, PlaceOK, Over
  <2> QED BY <1>0, <1>4, <2>1, LandsOver
<1> QED BY <1>0, <1>1, <1>2, <1>3, <1>4 DEF Cancel, Over

\* A step of a task, whichever it is.
LEMMA ConnFlow ==
  ASSUME NEW n \in Conn, PlaceOK, CarryTypes, AddsOne(n), FlowInv,
         Connect(n) \/ Serve(n) \/ ClientTimeout(n) \/ Cancel(n)
  PROVE  TaskStep(n) /\ InFlow(n)'
<1>1. CASE NoticeGone(n)
  BY <1>1, InterruptFlow DEF NoticeGone
<1>2. CASE ClientTimeout(n)
  BY <1>2, InterruptFlow DEF ClientTimeout
<1>3. CASE Cancel(n)
  BY <1>3, CancelFlow
<1> QED
  BY <1>1, <1>2, <1>3, StartFlowFlow, PermitFlow, AddImageFlow, AddedFlow, EndFlowFlow,
     LandingFlow DEF Serve

\* Only the sending and the going of a client change nothing of all this.
LEMMA IdleFlow ==
  ASSUME PlaceOK, FlowInv,
         UNCHANGED <<script, at, flow, read, raised, carried, serviceVars>>
  PROVE  FlowInv'
<1>1. ServiceInv'
  BY DEF FlowInv, ServiceInv, ServiceTypes, ByProtocol, ValueOK, SumOK, Holds, Accepted,
         serviceVars
<1>2. Carried' /\ Untouched'
  BY DEF FlowInv, Carried, Untouched, serviceVars
<1>3. ASSUME NEW m \in Conn PROVE InFlow(m)'
  <2>1. Quiet(m)
    BY DEF Quiet, serviceVars
  <2> QED BY <2>1, QuietKeeps DEF FlowInv
<1> QED BY <1>1, <1>2, <1>3 DEF FlowInv

\* Whatever is asked of the pool, the protocol permits.
OnlyPermitted ==
  \A c \in Call : SessionOf[c] # None /\ phase[c] = "new" /\ phase'[c] # "new" => Permitted(c)

LEMMA TaskProtocol ==
  ASSUME NEW n \in Conn, PlaceOK', FlowInv, TaskStep(n)
  PROVE  OnlyPermitted
<1> SUFFICES ASSUME NEW c \in Call, SessionOf[c] # None, phase[c] = "new", phase'[c] # "new"
             PROVE  Permitted(c)
  BY DEF OnlyPermitted
<1>1. PICK d \in Call : SessionOf[d] = Current(n)' /\ flow'[n] \in DOMAIN FlowSession[n] /\ Makes(d)
  BY DEF TaskStep, serviceVars
<1>2. SessionOf[d] # None
  BY <1>1, EndpointAssumption, RequestsAssumption DEF Current
<1>3. c = d
  BY <1>1, <1>2, MakesOne DEF FlowInv
<1> QED BY <1>1, <1>2, <1>3, MakesOne DEF FlowInv

LEMMA FlowStep ==
  ASSUME ClearInv, CancelInv, FlowInv, [Next]_vars
  PROVE  FlowInv' /\ OnlyPermitted
<1>0. PlaceOK /\ PlaceOK' /\ CarryTypes /\ \A n \in Conn : AddsOne(n)
  BY ClearStep DEF ClearInv, CancelInv, Fine
<1>1. ASSUME NEW n \in Conn, Connect(n) \/ Serve(n) \/ ClientTimeout(n) \/ Cancel(n)
      PROVE  FlowInv' /\ OnlyPermitted
  <2>1. TaskStep(n) /\ InFlow(n)'
    BY <1>0, <1>1, ConnFlow
  <2> QED BY <1>0, <2>1, TaskKeeps, TaskProtocol
<1>2. ASSUME NEW n \in Conn, SendFrame(n) \/ GoAway(n)
      PROVE  FlowInv' /\ OnlyPermitted
  <2>1. UNCHANGED <<script, at, flow, read, raised, carried, serviceVars>>
    BY <1>2 DEF SendFrame, GoAway
  <2> QED BY <1>0, <2>1, IdleFlow DEF OnlyPermitted, serviceVars
<1>3. ASSUME NEW c \in Call, Pool(c)
      PROVE  FlowInv' /\ OnlyPermitted
  BY <1>0, <1>3, PoolFlow DEF OnlyPermitted
<1>4. CASE UNCHANGED vars
  <2>1. UNCHANGED <<script, at, flow, read, raised, carried, serviceVars>>
    BY <1>4 DEF vars, connVars
  <2> QED BY <1>0, <2>1, IdleFlow DEF OnlyPermitted, serviceVars
<1> QED BY <1>1, <1>2, <1>3, <1>4 DEF Next, Client

LEMMA FlowInit == Init => FlowInv
<1> SUFFICES ASSUME Init PROVE FlowInv
  OBVIOUS
<1>1. \A s \in Session : InitOf(s) \in Call /\ ClearOf(s) \in Call /\ DataOf(s) \subseteq Call
  BY SessionRequests
<1>2. \A s \in Session : Accepted(s) = {}
  BY <1>1 DEF Init, ServiceInit, Accepted
<1>3. ServiceTypes /\ ByProtocol /\ ValueOK
  BY <1>1, <1>2 DEF Init, ServiceInit, ServiceTypes, ByProtocol, ValueOK, Phases
<1>4. SumOK
  BY <1>1 DEF Init, ServiceInit, SumOK, Holds
<1>5. Carried /\ Untouched
  BY DEF Init, ServiceInit, Carried, Untouched
<1>6. \A n \in Conn : InFlow(n)
  BY DEF Init, InFlow
<1> QED BY <1>3, <1>4, <1>5, <1>6 DEF FlowInv, ServiceInv

-----------------------------------------------------------------------------
(* The results.                                                            *)

\* A result is sent when the clear of a flow that ended well is answered: with the
\* sum of its session, in which every image of the flow is, and no other.
LEMMA ClearedIsWhole ==
  ASSUME NEW n \in Conn, PlaceOK, CarryTypes, FlowInv, ResultIsWhole, Cleared(n)
  PROVE  ResultIsWhole'
<1>0. script' = script /\ at[n] = "clearing"
  BY DEF Cleared
<1>1. CASE results' = results
  BY <1>0, <1>1 DEF ResultIsWhole
<1>2. CASE results' # results
  <2>1. PICK s \in Session : Current(n) = s
    BY <1>0, CurrentIsSession DEF Over
  <2>2. /\ phase[ClearOf(s)] = "ok" /\ raised[n] = "none"
        /\ results' = results \cup {[conn |-> n, frame |-> read[n],
                                     images |-> {carried[c] : c \in reply[ClearOf(s)]}]}
    BY <1>2, <2>1 DEF Cleared
  <2>3. PICK k \in Nat : k = read[n]
    BY DEF CarryTypes
  <2>4. /\ script[n][k] = "stop" /\ \A d \in Accepted(s) : phase[d] = "ok"
        /\ Taken(n, k - 1)
    BY <1>0, <2>1, <2>2, <2>3 DEF FlowInv, InFlow, AllAnswered
  <2>5. PICK first \in 1..(k - 1) :
          /\ script[n][first] = "open"
          /\ \A i \in (first + 1)..(k - 1) : script[n][i] = "image"
          /\ {carried[d] : d \in Accepted(s)} = (first + 1)..(k - 1)
    BY <2>1, <2>4 DEF Taken
  <2>6. reply[ClearOf(s)] = Accepted(s)
    <3>1. ClearOf(s) \in Call
      BY SessionRequests
    <3>2. value[ClearOf(s)] # None /\ reply[ClearOf(s)] = value[ClearOf(s)]
      BY <2>2, <3>1 DEF FlowInv, ServiceInv, ValueOK
    <3>3. \A d \in Accepted(s) : d \in DataOf(s) /\ value[d] # None
      BY <2>4, SessionRequests DEF FlowInv, ServiceInv, ValueOK, Accepted
    <3>4. Holds(value[ClearOf(s)], s)
      BY DEF FlowInv, ServiceInv, SumOK
    <3> QED BY <3>2, <3>3, <3>4 DEF Holds
  <2> DEFINE r == [conn |-> n, frame |-> k, images |-> {carried[d] : d \in Accepted(s)}]
  <2>7. results' = results \cup {r}
    BY <2>2, <2>3, <2>6
  <2>8. r.conn = n /\ r.frame = k /\ r.images = (first + 1)..(k - 1) /\ first \in 1..k
    BY <2>5
  <2> HIDE DEF r
  <2>9. \E f \in 1..r.frame :
          /\ script'[r.conn][f] = "open"
          /\ \A i \in (f + 1)..(r.frame - 1) : script'[r.conn][i] = "image"
          /\ r.images = (f + 1)..(r.frame - 1)
    BY <1>0, <2>5, <2>8
  <2>10. script'[r.conn][r.frame] = "stop"
    BY <1>0, <2>4, <2>8
  <2> QED BY <1>0, <2>7, <2>9, <2>10 DEF ResultIsWhole
<1> QED BY <1>1, <1>2

LEMMA OnlyClearedSends ==
  ASSUME [Next]_vars, \A n \in Conn : ~Cleared(n)
  PROVE  script' = script /\ results' = results
<1>1. ASSUME NEW n \in Conn, Interrupt(n, "disconnect") \/ Interrupt(n, "timeout")
      PROVE  script' = script /\ results' = results
  BY <1>1 DEF Interrupt
<1>2. ASSUME NEW n \in Conn, Cancel(n)
      PROVE  script' = script /\ results' = results
  BY <1>2 DEF Cancel, Interrupt
<1>3. ASSUME NEW n \in Conn, Client(n) \/ Serve(n)
      PROVE  script' = script /\ results' = results
  BY <1>1, <1>3 DEF Client, Connect, SendFrame, GoAway, Serve, Accept, FailToAccept, StartFlow,
                    RefuseFrame, Permit, FailToOpen, AddImage, Added, EndFlow, FailToClear, NoticeGone
<1>4. ASSUME NEW c \in Call, Pool(c)
      PROVE  script' = script /\ results' = results
  BY <1>4 DEF Pool, PoolHandles, PoolAnswers, PoolFails, PoolLoses, connVars
<1>5. CASE UNCHANGED vars
  BY <1>5 DEF vars, connVars
<1> QED BY <1>1, <1>2, <1>3, <1>4, <1>5 DEF Next, ClientTimeout

-----------------------------------------------------------------------------
\* What is true of every state: where the sessions are settled, what work_function
\* waits for, and what the flows have in the sums of the pool.
LEMMA AllInvariants == Spec => [](ClearInv /\ CancelInv /\ FlowInv)
<1>1. Init => ClearInv /\ CancelInv /\ FlowInv
  BY ClearInit, CancelInit, FlowInit
<1>2. ClearInv /\ CancelInv /\ FlowInv /\ [Next]_vars => (ClearInv /\ CancelInv /\ FlowInv)'
  BY ClearStep, CancelStep, FlowStep
<1> QED BY <1>1, <1>2, PTL DEF Spec

\* A session is opened before anything else is asked of it, its requests are made one
\* at a time, and its clear comes last, whatever clients send and however the flows
\* of main.py are cut short.
THEOREM FlowsKeepTheProtocol == Spec => ClientProtocol
<1>1. OnlyPermitted =>
        \A c \in Call : SessionOf[c] # None /\ phase[c] = "new" /\ phase'[c] # "new" =>
          LET s == SessionOf[c] IN
          IF Type[c] = "init_session"
            THEN \A d \in DataOf(s) \cup {ClearOf(s)} : phase[d] = "new"
            ELSE /\ phase[InitOf(s)] = "ok"
                 /\ phase[ClearOf(s)] = "new"
                 /\ \A d \in DataOf(s) : phase[d] # "pending"
  <2> SUFFICES ASSUME NEW c \in Call, NEW s \in Session, SessionOf[c] = s, Permitted(c)
               PROVE  IF Type[c] = "init_session"
                        THEN \A d \in DataOf(s) \cup {ClearOf(s)} : phase[d] = "new"
                        ELSE /\ phase[InitOf(s)] = "ok"
                             /\ phase[ClearOf(s)] = "new"
                             /\ \A d \in DataOf(s) : phase[d] # "pending"
    BY RequestsAssumption DEF OnlyPermitted
  <2>1. /\ ClearOf(s) \in Call /\ SessionOf[ClearOf(s)] = s /\ Type[ClearOf(s)] = "clear"
        /\ Type[InitOf(s)] = "init_session"
        /\ \A d \in DataOf(s) : d \in Call /\ SessionOf[d] = s /\ Type[d] = "data"
    BY SessionRequests
  <2> QED BY <2>1 DEF Permitted
<1>2. ClearInv /\ CancelInv /\ FlowInv /\ [Next]_vars => OnlyPermitted
  BY FlowStep
<1> QED BY <1>1, <1>2, AllInvariants, PTL DEF Spec, ClientProtocol

\* The result of a flow is the sum of exactly the images its client sent between the
\* request for the flow and the byte that ended it, however far ahead the client was
\* and whatever the pool did to other requests.
THEOREM ResultsAreWhole == Spec => []ResultIsWhole
<1>1. Init => ResultIsWhole
  BY DEF Init, ResultIsWhole
<1>2. ClearInv /\ CancelInv /\ FlowInv /\ ResultIsWhole /\ [Next]_vars => ResultIsWhole'
  <2> SUFFICES ASSUME ClearInv, CancelInv, FlowInv, ResultIsWhole, [Next]_vars
               PROVE  ResultIsWhole'
    OBVIOUS
  <2>1. CASE \E n \in Conn : Cleared(n)
    BY <2>1, ClearedIsWhole DEF ClearInv, CancelInv
  <2>2. CASE \A n \in Conn : ~Cleared(n)
    BY <2>2, OnlyClearedSends DEF ResultIsWhole
  <2> QED BY <2>1, <2>2
<1> QED BY <1>1, <1>2, AllInvariants, PTL DEF Spec

=============================================================================
