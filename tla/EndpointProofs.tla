--------------------------- MODULE EndpointProofs ---------------------------
(***************************************************************************)
(* What the task of a client does whatever the frames, the timeouts, the   *)
(* disconnections, the cancellations, the pool and the number of clients.  *)
(*                                                                         *)
(* Its flows leave no session behind: a flow is over only when its session *)
(* is settled -- it was not opened, or its clear has been answered or has  *)
(* failed -- and settled it remains, since an ended request never changes. *)
(*                                                                         *)
(* A cancellation is only lost in a clear that fails: wherever the task is *)
(* suspended it either ends at once, or carries the cancellation through   *)
(* the clear of its session (Masked is the one way out).  On the way to the*)
(* clear it stands at a request that has failed, which nothing but another *)
(* request of the same session could make it forget.                       *)
(*                                                                         *)
(* Each step of it accepts a connection and raises the gauge, or leaves the*)
(* connection open and the metrics alone, or ends the task, lowers the     *)
(* gauge -- accepted or not -- and averages one more duration.  With the   *)
(* types ClearInv and CancelInv know of, that is the type invariant.       *)
(***************************************************************************)
EXTENDS WebsocketEndpoint, FiniteSetTheorems, TLAPS

Phases == {"new", "pending", "ok", "failed"}

Over == {"idle", "accepting", "cycle", "done"}

Settled(s) == phase[InitOf(s)] = "failed" \/ phase[ClearOf(s)] \in {"ok", "failed"}

PlaceOK ==
  /\ phase \in [Call -> Phases]
  /\ at \in [Conn -> Stops]
  /\ flow \in [Conn -> Nat]
  /\ \A n \in Conn : flow[n] <= Len(FlowSession[n])
  /\ \A n \in Conn : at[n] \notin Over => flow[n] >= 1

EarlierSettled ==
  \A n \in Conn : \A i \in 1..flow[n] :
    i < flow[n] \/ at[n] \in Over => Settled(FlowSession[n][i])

\* The inductive invariant.
ClearInv == PlaceOK /\ EarlierSettled

\* How a step may change a request.
PhaseStep ==
  \/ UNCHANGED phase
  \/ \E c : Submit(c) \/ Answer(c) \/ \E lost : Fail(c, lost)

\* How a step of n moves its task within a flow, or out of it with the session
\* of the flow settled.
Moves(n) ==
  /\ at[n] \in Stops \ {"done"}
  /\ flow' = flow
  /\ \E stop \in Stops :
       /\ at' = [at EXCEPT ![n] = stop]
       /\ stop \in Over => at[n] \in Over \/ Settled(Current(n))'
       /\ stop \notin Over => at[n] \notin Over

-----------------------------------------------------------------------------
LEMMA CurrentRequests ==
  ASSUME NEW n \in Conn, PlaceOK, at[n] \notin Over
  PROVE  InitOf(Current(n)) \in Call /\ ClearOf(Current(n)) \in Call
<1>1. Current(n) \in Session
  BY EndpointAssumption DEF PlaceOK, Current
<1>2. \A type \in {"init_session", "clear"} :
        \E c \in Call : SessionOf[c] = Current(n) /\ Type[c] = type
  BY <1>1, EndpointAssumption
<1> QED
  BY <1>2 DEF InitOf, ClearOf

LEMMA FailSets ==
  ASSUME NEW c \in Call, NEW lost, PlaceOK, Fail(c, lost)
  PROVE  phase'[c] = "failed"
BY DEF Fail, PlaceOK

\* An ended request never changes.
LEMMA EndedStays ==
  ASSUME PlaceOK, PhaseStep
  PROVE  /\ phase' \in [Call -> Phases]
         /\ \A c \in Call : phase[c] \in {"ok", "failed"} => phase'[c] = phase[c]
BY DEF PlaceOK, PhaseStep, Submit, Answer, Fail, Phases

LEMMA SettledStays ==
  ASSUME PlaceOK, PhaseStep, NEW s \in Session, Settled(s)
  PROVE  Settled(s)'
<1>1. InitOf(s) \in Call /\ ClearOf(s) \in Call
  BY EndpointAssumption DEF InitOf, ClearOf
<1> QED
  BY <1>1, EndedStays DEF Settled

-----------------------------------------------------------------------------
(* The steps of a task.                                                    *)

LEMMA RaiseMoves ==
  ASSUME NEW n \in Conn, NEW what, at[n] \in Stops \ {"done"}, flow' = flow,
         Raise(n, what), at[n] \in Over \/ Settled(Current(n))'
  PROVE  Moves(n)
BY DEF Raise, Goto, Finish, Moves, Stops, Over

LEMMA LeaveFlowMoves ==
  ASSUME NEW n \in Conn, NEW what, PlaceOK, at[n] \in Stops \ Over, flow' = flow,
         LeaveFlow(n, what)
  PROVE  Moves(n) /\ PhaseStep
<1>1. CASE Goto(n, "clearing") /\ Submit(ClearOf(Current(n)))
  BY <1>1 DEF Goto, Moves, PhaseStep, Stops, Over
<1>2. CASE ~(Goto(n, "clearing") /\ Submit(ClearOf(Current(n))))
  <2>1. PICK why : Fail(ClearOf(Current(n)), {}) /\ Raise(n, why)
    BY <1>2 DEF LeaveFlow
  <2>2. phase'[ClearOf(Current(n))] = "failed"
    BY <2>1, CurrentRequests, FailSets
  <2>3. Settled(Current(n))'
    BY <2>2 DEF Settled, Current
  <2> QED
    BY <2>1, <2>3, RaiseMoves DEF PhaseStep, Over
<1> QED
  BY <1>1, <1>2

LEMMA InterruptMoves ==
  ASSUME NEW n \in Conn, NEW what, PlaceOK, Interrupt(n, what)
  PROVE  Moves(n) /\ PhaseStep
<1>1. flow' = flow
  BY DEF Interrupt
<1>2. CASE at[n] = "cycle" /\ Raise(n, what) /\ UNCHANGED serviceVars
  BY <1>1, <1>2, RaiseMoves DEF Stops, Over, serviceVars, PhaseStep
<1>3. CASE at[n] = "flow" /\ LeaveFlow(n, what)
  BY <1>1, <1>3, LeaveFlowMoves DEF Stops, Over
<1> QED
  BY <1>2, <1>3 DEF Interrupt

LEMMA ServeMoves ==
  ASSUME NEW n \in Conn, PlaceOK, Serve(n), ~StartFlow(n)
  PROVE  Moves(n) /\ PhaseStep
<1>1. CASE RefuseFrame(n)
  BY <1>1, RaiseMoves DEF RefuseFrame, Stops, Over, serviceVars, PhaseStep
<1>2. CASE Permit(n)
  <2>1. CASE Goto(n, "flow") /\ UNCHANGED serviceVars
    BY <1>2, <2>1 DEF Permit, Goto, Moves, Stops, Over, serviceVars, PhaseStep
  <2>2. CASE LeaveFlow(n, "disconnect")
    BY <1>2, <2>2, LeaveFlowMoves DEF Permit, Stops, Over
  <2> QED
    BY <1>2, <2>1, <2>2 DEF Permit
<1>3. CASE FailToOpen(n)
  <2>1. Settled(Current(n))'
    BY <1>3 DEF FailToOpen, Settled, Current, serviceVars, InitOf
  <2> QED
    BY <1>3, <2>1, RaiseMoves DEF FailToOpen, Stops, serviceVars, PhaseStep
<1>4. CASE AddImage(n)
  BY <1>4 DEF AddImage, Goto, Moves, Stops, Over, PhaseStep
<1>5. CASE Added(n)
  <2>1. CASE Goto(n, "flow") /\ UNCHANGED serviceVars
    BY <1>5, <2>1 DEF Added, Goto, Moves, Stops, Over, serviceVars, PhaseStep
  <2>2. CASE \E what : LeaveFlow(n, what)
    BY <1>5, <2>2, LeaveFlowMoves DEF Added, Stops, Over
  <2> QED
    BY <1>5, <2>1, <2>2 DEF Added
<1>6. CASE EndFlow(n)
  BY <1>6, LeaveFlowMoves DEF EndFlow, Stops, Over
<1>7. CASE Cleared(n)
  <2>1. Settled(Current(n))' /\ UNCHANGED <<flow, phase>> /\ at[n] = "clearing"
    BY <1>7 DEF Cleared, Settled, Current, serviceVars
  <2>2. CASE Goto(n, "cycle")
    BY <2>1, <2>2 DEF Goto, Moves, Stops, Over, PhaseStep
  <2>3. CASE \E what : Raise(n, what)
    BY <2>1, <2>3, RaiseMoves DEF Stops, PhaseStep
  <2> QED
    BY <1>7, <2>2, <2>3 DEF Cleared
<1>8. CASE FailToClear(n)
  <2>1. Settled(Current(n))' /\ UNCHANGED <<flow, phase>> /\ at[n] = "clearing"
    BY <1>8 DEF FailToClear, Settled, Current, serviceVars
  <2> QED
    BY <1>8, <2>1, RaiseMoves DEF FailToClear, Stops, PhaseStep
<1>9. CASE NoticeGone(n)
  BY <1>9, InterruptMoves DEF NoticeGone
<1>10. CASE Accept(n)
  BY <1>10 DEF Accept, Moves, Stops, Over, serviceVars, PhaseStep
<1>11. CASE FailToAccept(n)
  BY <1>11 DEF FailToAccept, Finish, Moves, Stops, Over, serviceVars, PhaseStep
<1> QED
  BY <1>1, <1>2, <1>3, <1>4, <1>5, <1>6, <1>7, <1>8, <1>9, <1>10, <1>11 DEF Serve

LEMMA CancelMoves ==
  ASSUME NEW n \in Conn, PlaceOK, Cancel(n)
  PROVE  Moves(n) /\ PhaseStep
<1>1. CASE Interrupt(n, "cancelled")
  BY <1>1, InterruptMoves
<1>2. CASE at[n] = "opening" /\ Fail(InitOf(Current(n)), {}) /\ Finish(n) /\ flow' = flow
  <2>1. phase'[InitOf(Current(n))] = "failed"
    BY <1>2, CurrentRequests, FailSets DEF Over
  <2>2. Settled(Current(n))'
    BY <1>2, <2>1 DEF Settled, Current
  <2> QED
    BY <1>2, <2>2 DEF Finish, Moves, Stops, Over, PhaseStep
<1>3. CASE at[n] = "adding" /\ Fail(Adding(n), {}) /\ Goto(n, "adding") /\ flow' = flow
  BY <1>3 DEF Goto, Moves, Stops, Over, PhaseStep
<1>4. CASE at[n] = "clearing" /\ Fail(ClearOf(Current(n)), {}) /\ Finish(n) /\ flow' = flow
  <2>1. phase'[ClearOf(Current(n))] = "failed"
    BY <1>4, CurrentRequests, FailSets DEF Over
  <2>2. Settled(Current(n))'
    BY <1>4, <2>1 DEF Settled, Current
  <2> QED
    BY <1>4, <2>2 DEF Finish, Moves, Stops, Over, PhaseStep
<1>5. CASE at[n] = "accepting" /\ Finish(n) /\ UNCHANGED serviceVars /\ flow' = flow
  BY <1>5 DEF Finish, Moves, Stops, Over, serviceVars, PhaseStep
<1> QED
  BY <1>1, <1>2, <1>3, <1>4, <1>5 DEF Cancel

-----------------------------------------------------------------------------
(* The invariant is kept.                                                  *)

LEMMA MovesKeeps ==
  ASSUME NEW n \in Conn, ClearInv, Moves(n), PhaseStep
  PROVE  ClearInv'
<1>0. PICK stop \in Stops :
        /\ at' = [at EXCEPT ![n] = stop]
        /\ stop \in Over => at[n] \in Over \/ Settled(Current(n))'
        /\ stop \notin Over => at[n] \notin Over
  BY DEF Moves
<1>1. PlaceOK'
  <2>1. phase' \in [Call -> Phases]
    BY EndedStays DEF ClearInv
  <2> QED
    BY <1>0, <2>1 DEF Moves, ClearInv, PlaceOK
<1>2. EarlierSettled'
  <2> SUFFICES ASSUME NEW m \in Conn, NEW i \in 1..flow[m], i < flow[m] \/ at'[m] \in Over
               PROVE  Settled(FlowSession[m][i])'
    BY DEF EarlierSettled, Moves
  <2>1. FlowSession[m][i] \in Session
    BY EndpointAssumption DEF ClearInv, PlaceOK
  <2>2. CASE i < flow[m] \/ at[m] \in Over
    BY <2>1, <2>2, SettledStays DEF ClearInv, EarlierSettled
  <2>3. CASE i = flow[m] /\ at[m] \notin Over
    <3>1. m = n /\ stop \in Over
      BY <1>0, <2>3 DEF ClearInv, PlaceOK
    <3> QED
      BY <1>0, <3>1, <2>3 DEF Current, Moves
  <2> QED
    BY <2>2, <2>3 DEF ClearInv, PlaceOK
<1> QED
  BY <1>1, <1>2 DEF ClearInv

LEMMA StartFlowKeeps ==
  ASSUME NEW n \in Conn, ClearInv, StartFlow(n)
  PROVE  ClearInv'
<1>0. /\ at[n] = "cycle" /\ at' = [at EXCEPT ![n] = "opening"]
      /\ flow' = [flow EXCEPT ![n] = @ + 1]
      /\ flow[n] < Len(FlowSession[n])
      /\ PhaseStep
  BY DEF StartFlow, Goto, PhaseStep
<1>1. PlaceOK'
  <2>1. phase' \in [Call -> Phases]
    BY <1>0, EndedStays DEF ClearInv
  <2>2. Len(FlowSession[n]) \in Nat
    BY EndpointAssumption
  <2> QED
    BY <1>0, <2>1, <2>2 DEF ClearInv, PlaceOK, Stops
<1>2. EarlierSettled'
  <2> SUFFICES ASSUME NEW m \in Conn, NEW i \in 1..flow'[m], i < flow'[m] \/ at'[m] \in Over
               PROVE  Settled(FlowSession[m][i])'
    BY DEF EarlierSettled
  <2>1. i \in 1..flow[m] /\ (i < flow[m] \/ at[m] \in Over)
    BY <1>0 DEF ClearInv, PlaceOK, Over
  <2>2. FlowSession[m][i] \in Session
    BY <2>1, EndpointAssumption DEF ClearInv, PlaceOK
  <2> QED
    BY <1>0, <2>1, <2>2, SettledStays DEF ClearInv, EarlierSettled
<1> QED
  BY <1>1, <1>2 DEF ClearInv

\* The steps of the clients and of the pool.
LEMMA StaysKeeps ==
  ASSUME ClearInv, UNCHANGED <<at, flow>>, PhaseStep
  PROVE  ClearInv'
<1>1. PlaceOK'
  BY EndedStays DEF ClearInv, PlaceOK
<1>2. EarlierSettled'
  <2> SUFFICES ASSUME NEW m \in Conn, NEW i \in 1..flow[m], i < flow[m] \/ at[m] \in Over
               PROVE  Settled(FlowSession[m][i])'
    BY DEF EarlierSettled
  <2>1. FlowSession[m][i] \in Session
    BY EndpointAssumption DEF ClearInv, PlaceOK
  <2> QED
    BY <2>1, SettledStays DEF ClearInv, EarlierSettled
<1> QED
  BY <1>1, <1>2 DEF ClearInv

LEMMA ClientKeeps ==
  ASSUME NEW n \in Conn, ClearInv, Client(n)
  PROVE  ClearInv'
<1>1. CASE Connect(n)
  <2>1. Moves(n) /\ PhaseStep
    BY <1>1 DEF Connect, Moves, Stops, Over, PhaseStep, serviceVars
  <2> QED
    BY <2>1, MovesKeeps
<1>2. CASE SendFrame(n) \/ GoAway(n)
  BY <1>2, StaysKeeps DEF SendFrame, GoAway, serviceVars, PhaseStep
<1> QED
  BY <1>1, <1>2 DEF Client

LEMMA PoolKeeps ==
  ASSUME NEW c \in Call, ClearInv, Pool(c)
  PROVE  ClearInv'
<1>1. UNCHANGED <<at, flow>>
  BY DEF Pool, PoolHandles, PoolAnswers, PoolFails, PoolLoses, connVars
<1>2. PhaseStep
  BY DEF Pool, PoolHandles, PoolAnswers, PoolFails, PoolLoses, Apply, PhaseStep
<1> QED
  BY <1>1, <1>2, StaysKeeps

-----------------------------------------------------------------------------
LEMMA ClearInit == Init => ClearInv
<1> SUFFICES ASSUME Init PROVE ClearInv
  OBVIOUS
<1>1. \A n \in Conn : Len(FlowSession[n]) \in Nat
  BY EndpointAssumption
<1> QED
  BY <1>1 DEF Init, ServiceInit, ClearInv, PlaceOK, EarlierSettled, Phases, Stops, Over

LEMMA ClearStep == ClearInv /\ [Next]_vars => ClearInv'
<1> SUFFICES ASSUME ClearInv, [Next]_vars PROVE ClearInv'
  OBVIOUS
<1>1. PlaceOK
  BY DEF ClearInv
<1>2. ASSUME NEW n \in Conn, Client(n) PROVE ClearInv'
  BY <1>2, ClientKeeps
<1>3. ASSUME NEW n \in Conn, Serve(n) PROVE ClearInv'
  BY <1>1, <1>3, StartFlowKeeps, ServeMoves, MovesKeeps
<1>4. ASSUME NEW n \in Conn, ClientTimeout(n) PROVE ClearInv'
  BY <1>1, <1>4, InterruptMoves, MovesKeeps DEF ClientTimeout
<1>5. ASSUME NEW n \in Conn, Cancel(n) PROVE ClearInv'
  BY <1>1, <1>5, CancelMoves, MovesKeeps
<1>6. ASSUME NEW c \in Call, Pool(c) PROVE ClearInv'
  BY <1>6, PoolKeeps
<1>7. CASE UNCHANGED vars
  BY <1>7, StaysKeeps DEF vars, connVars, serviceVars, PhaseStep
<1> QED
  BY <1>2, <1>3, <1>4, <1>5, <1>6, <1>7 DEF Next

\* Between two flows, and after the last one, every session that was opened has
\* been cleared, or the pool has been asked to and failed (the `finally' of
\* summary_image_accumulator).
THEOREM FlowsAlwaysClearUp == Spec => []FlowsClearUp
<1>1. ClearInv => FlowsClearUp
  BY DEF ClearInv, EarlierSettled, Settled, FlowsClearUp, Over
<1> QED
  BY <1>1, ClearInit, ClearStep, PTL DEF Spec

-----------------------------------------------------------------------------
(* Cancellations.                                                          *)

\* The clear of the flow in which n was cancelled has failed.
Masked(n) == cut[n] \in 1..flow[n] /\ phase[ClearOf(FlowSession[n][cut[n]])] = "failed"

\* The task of n carries a cancellation to its end.
Carries(n) ==
  \/ at[n] = "done"
  \/ at[n] = "clearing" /\ raised[n] = "cancelled" /\ cut[n] = flow[n]
  \/ /\ at[n] = "adding" /\ raised[n] = "cancelled" /\ cut[n] = flow[n]
     /\ phase[Adding(n)] = "failed"

\* work_function was called with the frame read last.
AddsOne(n) == at[n] = "adding" => \E c \in DataOf(Current(n)) : carried[c] = read[n]

CarryTypes ==
  /\ raised \in [Conn -> Raised]
  /\ cut \in [Conn -> Nat] /\ \A n \in Conn : cut[n] <= flow[n]
  /\ carried \in [Call -> Nat]
  /\ read \in [Conn -> Nat]

\* All that is to be known of the task of n.
Fine(n) == AddsOne(n) /\ (cut[n] # 0 => Masked(n) \/ Carries(n))

\* The inductive invariant, on top of ClearInv.
CancelInv == CarryTypes /\ \A n \in Conn : Fine(n)

\* A step of the task of m leaves that of n where it is.
Same(n) ==
  /\ at'[n] = at[n] /\ flow'[n] = flow[n] /\ raised'[n] = raised[n]
  /\ cut'[n] = cut[n] /\ read'[n] = read[n]
  /\ at[n] = "adding" => \A c \in DataOf(Current(n)) : carried'[c] = carried[c]

-----------------------------------------------------------------------------
LEMMA AddingIsOne ==
  ASSUME NEW n \in Conn, AddsOne(n), at[n] = "adding"
  PROVE  Adding(n) \in DataOf(Current(n)) /\ carried[Adding(n)] = read[n]
BY DEF AddsOne, Adding

LEMMA MaskedStays ==
  ASSUME NEW n \in Conn, PlaceOK, PhaseStep, flow'[n] \in Nat, flow'[n] >= flow[n],
         cut'[n] = cut[n], Masked(n)
  PROVE  Masked(n)'
<1>1. PICK i \in 1..flow[n] : i = cut[n] /\ phase[ClearOf(FlowSession[n][i])] = "failed"
  BY DEF Masked
<1>2. FlowSession[n][i] \in Session
  BY EndpointAssumption DEF PlaceOK
<1>3. ClearOf(FlowSession[n][i]) \in Call
  BY <1>2, EndpointAssumption DEF ClearOf
<1>4. phase'[ClearOf(FlowSession[n][i])] = "failed"
  BY <1>1, <1>3, EndedStays
<1>5. i \in 1..flow'[n] /\ i = cut'[n]
  BY <1>1 DEF PlaceOK
<1> QED
  BY <1>4, <1>5 DEF Masked

\* A clear that fails masks what was raised in its flow.
LEMMA FailedClearMasks ==
  ASSUME NEW n \in Conn, PlaceOK, at[n] \notin Over, flow' = flow, cut'[n] = flow[n],
         phase'[ClearOf(Current(n))] = "failed"
  PROVE  Masked(n)'
<1>1. flow[n] \in 1..flow[n]
  BY DEF PlaceOK
<1> QED
  BY <1>1 DEF Masked, Current

\* What AddsOne and Carries say of n does not depend on other tasks.
LEMMA SameAdding ==
  ASSUME NEW n \in Conn, Same(n), at[n] = "adding"
  PROVE  Adding(n)' = Adding(n)
<1>1. Current(n)' = Current(n)
  BY DEF Same, Current
<1> DEFINE P(c) == carried[c] = read[n]
           Q(c) == carried'[c] = read'[n]
<1>2. \A c \in DataOf(Current(n)) : P(c) <=> Q(c)
  BY DEF Same
<1>3. (CHOOSE c \in DataOf(Current(n)) : P(c)) = (CHOOSE c \in DataOf(Current(n)) : Q(c))
  BY <1>2
<1>4. Adding(n)' = CHOOSE c \in DataOf(Current(n)) : Q(c)
  BY <1>1 DEF Adding
<1> QED
  BY <1>3, <1>4 DEF Adding

LEMMA SameKeeps ==
  ASSUME NEW n \in Conn, PlaceOK, PhaseStep, Fine(n), Same(n)
  PROVE  Fine(n)'
<1>0. AddsOne(n)
  BY DEF Fine
<1>1. Current(n)' = Current(n)
  BY DEF Same, Current
<1>2. AddsOne(n)'
  BY <1>0, <1>1 DEF Same, AddsOne
<1>3. ASSUME Carries(n) PROVE Carries(n)'
  <2>1. CASE at[n] = "adding"
    <3>1. Adding(n) \in Call
      BY <1>0, <2>1, AddingIsOne DEF DataOf
    <3>2. phase[Adding(n)] = "failed" /\ raised[n] = "cancelled" /\ cut[n] = flow[n]
      BY <1>3, <2>1 DEF Carries
    <3>3. phase'[Adding(n)] = "failed"
      BY <3>1, <3>2, EndedStays
    <3>4. Adding(n)' = Adding(n)
      BY <2>1, SameAdding
    <3>5. phase'[Adding(n)'] = "failed"
      BY <3>3, <3>4
    <3> QED
      BY <2>1, <3>2, <3>5 DEF Same, Carries
  <2>2. CASE at[n] # "adding"
    BY <1>3, <2>2 DEF Same, Carries
  <2> QED
    BY <2>1, <2>2
<1>4. ASSUME Masked(n) PROVE Masked(n)'
  <2>1. flow'[n] \in Nat /\ flow'[n] >= flow[n] /\ cut'[n] = cut[n]
    BY DEF Same, PlaceOK
  <2> QED
    BY <1>4, <2>1, MaskedStays
<1> QED
  BY <1>2, <1>3, <1>4 DEF Same, Fine

-----------------------------------------------------------------------------
(* The steps of the task of n: what they leave alone, and where they take  *)
(* the task itself.                                                        *)

Local(n) == CarryTypes' /\ \A m \in Conn \ {n} : Same(m)

LEMMA StepKeeps ==
  ASSUME NEW n \in Conn, PlaceOK, PhaseStep, CancelInv, Local(n), Fine(n)'
  PROVE  CancelInv'
<1>1. ASSUME NEW m \in Conn \ {n} PROVE Fine(m)'
  BY SameKeeps DEF CancelInv, Local
<1> QED
  BY <1>1 DEF CancelInv, Local

LEMMA AllSameKeeps ==
  ASSUME PlaceOK, PhaseStep, CancelInv, CarryTypes', \A n \in Conn : Same(n)
  PROVE  CancelInv'
BY SameKeeps DEF CancelInv

\* Where it waits for a frame or for its init, a task that was cancelled has had
\* the cancellation masked, and it stays masked.
LEMMA MaskedBefore ==
  ASSUME NEW n \in Conn, PlaceOK, PhaseStep, CancelInv, UNCHANGED <<flow, cut>>, cut[n] # 0,
         at[n] \in {"idle", "accepting", "cycle", "opening", "flow"}
  PROVE  Masked(n)'
<1>1. Masked(n)
  BY DEF CancelInv, Fine, Carries
<1> QED
  BY <1>1, MaskedStays DEF PlaceOK

LEMMA CutGrows ==
  ASSUME NEW n \in Conn, PlaceOK, CarryTypes, cut' = [cut EXCEPT ![n] = flow[n]]
  PROVE  /\ cut' \in [Conn -> Nat] /\ cut'[n] = flow[n]
         /\ \A m \in Conn : cut'[m] <= flow[m]
         /\ \A m \in Conn \ {n} : cut'[m] = cut[m]
<1>1. \A m \in Conn : flow[m] \in Nat /\ flow[m] <= flow[m]
  BY DEF PlaceOK
<1>2. cut \in [Conn -> Nat] /\ \A m \in Conn : cut[m] <= flow[m]
  BY DEF CarryTypes
<1> QED BY <1>1, <1>2

LEMMA RaiseLands ==
  ASSUME NEW n \in Conn, NEW what, PlaceOK, Raise(n, what)
  PROVE  /\ at'[n] \in {"cycle", "done"}
         /\ what = "cancelled" => at'[n] = "done"
         /\ \A m \in Conn \ {n} : at'[m] = at[m]
BY DEF Raise, Goto, Finish, PlaceOK

\* Leaving a flow with a cancellation, the task carries it on.
LEMMA LeaveFlowFine ==
  ASSUME NEW n \in Conn, NEW what \in Raised, PlaceOK, CarryTypes, at[n] \notin Over,
         flow' = flow, LeaveFlow(n, what),
         cut'[n] # 0 => (what = "cancelled" /\ cut'[n] = flow[n]) \/ Masked(n)'
  PROVE  /\ Fine(n)'
         /\ raised' \in [Conn -> Raised]
         /\ \A m \in Conn \ {n} : at'[m] = at[m] /\ raised'[m] = raised[m]
<1>1. CASE raised' = [raised EXCEPT ![n] = what] /\ Goto(n, "clearing")
  <2>1. at'[n] = "clearing" /\ raised'[n] = what
    BY <1>1 DEF Goto, PlaceOK, CarryTypes
  <2>2. Fine(n)'
    BY <2>1 DEF Fine, AddsOne, Carries
  <2> QED
    BY <1>1, <2>2 DEF Goto, PlaceOK, CarryTypes
<1>2. CASE ~(raised' = [raised EXCEPT ![n] = what] /\ Goto(n, "clearing"))
  <2>1. PICK why : Fail(ClearOf(Current(n)), {}) /\ Raise(n, why) /\ UNCHANGED raised
    BY <1>2 DEF LeaveFlow
  <2>2. phase'[ClearOf(Current(n))] = "failed"
    BY <2>1, CurrentRequests, FailSets
  <2>3. cut'[n] # 0 => Masked(n)'
    BY <2>2, FailedClearMasks
  <2>4. at'[n] # "adding" /\ \A m \in Conn \ {n} : at'[m] = at[m]
    BY <2>1, RaiseLands
  <2>5. Fine(n)'
    BY <2>3, <2>4 DEF Fine, AddsOne
  <2> QED
    BY <2>1, <2>4, <2>5 DEF CarryTypes
<1> QED
  BY <1>1, <1>2

-----------------------------------------------------------------------------
(* One lemma for each step that has more than one way to go.               *)

LEMMA InterruptKeeps ==
  ASSUME NEW n \in Conn, NEW what \in Raised, PlaceOK, CancelInv, Interrupt(n, what),
         \/ UNCHANGED cut
         \/ what = "cancelled" /\ cut' = [cut EXCEPT ![n] = flow[n]]
  PROVE  CancelInv'
<1>1. PhaseStep /\ flow' = flow
  BY InterruptMoves DEF Interrupt
<1>2. CarryTypes /\ UNCHANGED <<read, carried>>
  BY DEF Interrupt, CancelInv
<1>3. /\ cut' \in [Conn -> Nat] /\ \A m \in Conn : cut'[m] <= flow[m]
      /\ \A m \in Conn \ {n} : cut'[m] = cut[m]
  BY <1>2, CutGrows DEF CarryTypes
<1>4. at[n] \in {"cycle", "flow"}
  BY DEF Interrupt
<1>5. cut'[n] # 0 => (what = "cancelled" /\ cut'[n] = flow[n]) \/ Masked(n)'
  <2>1. CASE UNCHANGED cut
    BY <1>1, <1>4, <2>1, MaskedBefore
  <2>2. CASE what = "cancelled" /\ cut' = [cut EXCEPT ![n] = flow[n]]
    BY <1>2, <2>2 DEF CarryTypes
  <2> QED BY <2>1, <2>2
<1>6. CASE at[n] = "cycle" /\ Raise(n, what) /\ UNCHANGED raised
  <2>1. /\ at'[n] \in {"cycle", "done"}
        /\ what = "cancelled" => at'[n] = "done"
        /\ \A m \in Conn \ {n} : at'[m] = at[m]
    BY <1>6, RaiseLands
  <2>2. Fine(n)'
    BY <1>5, <2>1 DEF Fine, AddsOne, Carries
  <2>3. Local(n)
    BY <1>1, <1>2, <1>3, <1>6, <2>1 DEF Local, Same, CarryTypes
  <2> QED
    BY <1>1, <2>2, <2>3, StepKeeps
<1>7. CASE at[n] = "flow" /\ LeaveFlow(n, what)
  <2>1. at[n] \notin Over
    BY <1>7 DEF Over
  <2>2. /\ Fine(n)'
        /\ raised' \in [Conn -> Raised]
        /\ \A m \in Conn \ {n} : at'[m] = at[m] /\ raised'[m] = raised[m]
    BY <1>1, <1>2, <1>5, <1>7, <2>1, LeaveFlowFine
  <2>3. Local(n)
    BY <1>1, <1>2, <1>3, <2>2 DEF Local, Same, CarryTypes
  <2> QED
    BY <1>1, <2>2, <2>3, StepKeeps
<1> QED
  BY <1>6, <1>7 DEF Interrupt

\* A flow that is left in a step of its own accord.
LEMMA LeavingKeeps ==
  ASSUME NEW n \in Conn, NEW what \in Raised, PlaceOK, CancelInv,
         at[n] \in Stops \ Over, LeaveFlow(n, what),
         UNCHANGED <<flow, carried, cut>>, read' \in [Conn -> Nat],
         \A m \in Conn \ {n} : read'[m] = read[m],
         cut[n] # 0 => (what = "cancelled" /\ cut[n] = flow[n]) \/ Masked(n)'
  PROVE  CancelInv'
<1>1. PhaseStep
  BY LeaveFlowMoves
<1>2. CarryTypes
  BY DEF CancelInv
<1>3. /\ Fine(n)'
      /\ raised' \in [Conn -> Raised]
      /\ \A m \in Conn \ {n} : at'[m] = at[m] /\ raised'[m] = raised[m]
  BY <1>2, LeaveFlowFine
<1>4. Local(n)
  BY <1>2, <1>3 DEF Local, Same, CarryTypes
<1> QED
  BY <1>1, <1>3, <1>4, StepKeeps

\* A step after which n waits for a frame, or has ended, or opens a session.
LEMMA LandingKeeps ==
  ASSUME NEW n \in Conn, PlaceOK, PhaseStep, CancelInv,
         UNCHANGED <<carried, cut>>,
         UNCHANGED flow \/ (flow'[n] \in Nat /\ flow'[n] >= flow[n]),
         raised' \in [Conn -> Raised], read' \in [Conn -> Nat],
         at'[n] # "adding",
         \A m \in Conn \ {n} : /\ at'[m] = at[m] /\ flow'[m] = flow[m]
                               /\ raised'[m] = raised[m] /\ read'[m] = read[m],
         cut[n] # 0 => at'[n] = "done" \/ Masked(n)'
  PROVE  CancelInv'
<1>1. Fine(n)'
  BY DEF Fine, AddsOne, Carries
<1>2. ASSUME NEW m \in Conn PROVE cut'[m] <= flow'[m]
  <2>1. cut'[m] = cut[m] /\ cut[m] \in Nat /\ flow[m] \in Nat /\ cut[m] <= flow[m]
    BY DEF PlaceOK, CancelInv, CarryTypes
  <2>2. flow'[m] = flow[m] \/ (flow'[m] \in Nat /\ flow'[m] >= flow[m])
    OBVIOUS
  <2> QED BY <2>1, <2>2
<1>3. Local(n)
  BY <1>2 DEF Local, Same, CarryTypes, CancelInv
<1> QED
  BY <1>1, <1>3, StepKeeps

LEMMA ReadOn ==
  ASSUME NEW n \in Conn, CarryTypes, Consume(n)
  PROVE  /\ read' \in [Conn -> Nat] /\ read'[n] = read[n] + 1
         /\ \A m \in Conn \ {n} : read'[m] = read[m]
BY DEF Consume, CarryTypes

LEMMA GotoLands ==
  ASSUME NEW n \in Conn, NEW stop, PlaceOK, Goto(n, stop)
  PROVE  at'[n] = stop /\ \A m \in Conn \ {n} : at'[m] = at[m]
BY DEF Goto, PlaceOK

-----------------------------------------------------------------------------
(* The steps of a task that serves its client.                             *)

LEMMA StartFlowCancel ==
  ASSUME NEW n \in Conn, ClearInv, CancelInv, StartFlow(n)
  PROVE  CancelInv'
<1>1. PlaceOK /\ CarryTypes
  BY DEF ClearInv, CancelInv
<1>2. PhaseStep /\ at[n] = "cycle" /\ UNCHANGED <<carried, cut, raised>>
  BY DEF StartFlow, PhaseStep
<1>3. flow'[n] = flow[n] + 1 /\ \A m \in Conn \ {n} : flow'[m] = flow[m]
  BY <1>1 DEF StartFlow, PlaceOK
<1>4. at'[n] = "opening" /\ \A m \in Conn \ {n} : at'[m] = at[m]
  BY <1>1, GotoLands DEF StartFlow
<1>5. /\ read' \in [Conn -> Nat]
      /\ \A m \in Conn \ {n} : read'[m] = read[m]
  BY <1>1, ReadOn DEF StartFlow
<1>6. cut[n] # 0 => Masked(n)
  BY <1>2 DEF CancelInv, Fine, Carries
<1>7. cut[n] # 0 => Masked(n)'
  BY <1>1, <1>2, <1>3, <1>6, MaskedStays DEF PlaceOK
<1>8. /\ PlaceOK /\ at'[n] # "adding" /\ raised' \in [Conn -> Raised]
      /\ flow'[n] \in Nat /\ flow'[n] >= flow[n]
      /\ \A m \in Conn \ {n} : raised'[m] = raised[m]
  BY <1>1, <1>2, <1>3, <1>4 DEF PlaceOK, CarryTypes
<1> QED
  BY <1>2, <1>3, <1>4, <1>5, <1>7, <1>8, LandingKeeps

LEMMA RefuseFrameCancel ==
  ASSUME NEW n \in Conn, PlaceOK, CancelInv, RefuseFrame(n)
  PROVE  CancelInv'
<1>1. /\ PhaseStep /\ at[n] = "cycle"
      /\ UNCHANGED <<carried, cut, raised, flow>>
  BY DEF RefuseFrame, PhaseStep, serviceVars
<1>2. CarryTypes
  BY DEF CancelInv
<1>3. at'[n] \in {"cycle", "done"} /\ \A m \in Conn \ {n} : at'[m] = at[m]
  BY RaiseLands DEF RefuseFrame
<1>4. /\ read' \in [Conn -> Nat]
      /\ \A m \in Conn \ {n} : read'[m] = read[m]
  BY <1>2, ReadOn DEF RefuseFrame
<1>5. cut[n] # 0 => Masked(n)'
  BY <1>1, MaskedBefore
<1> QED
  BY <1>1, <1>2, <1>3, <1>4, <1>5, LandingKeeps DEF CarryTypes

LEMMA OpeningCancel ==
  ASSUME NEW n \in Conn, PlaceOK, CancelInv, Permit(n) \/ FailToOpen(n)
  PROVE  CancelInv'
<1>1. /\ PhaseStep /\ at[n] = "opening"
      /\ UNCHANGED <<carried, cut, flow, read>>
  <2>1. Serve(n) /\ ~StartFlow(n)
    BY DEF Serve, StartFlow, Permit, FailToOpen
  <2> QED
    BY <2>1, ServeMoves DEF Permit, FailToOpen
<1>2. CarryTypes
  BY DEF CancelInv
<1>3. cut[n] # 0 => Masked(n)'
  BY <1>1, MaskedBefore
<1>4. CASE Permit(n) /\ Goto(n, "flow") /\ UNCHANGED raised
  <2>1. at'[n] = "flow" /\ \A m \in Conn \ {n} : at'[m] = at[m]
    BY <1>4, GotoLands
  <2> QED
    BY <1>1, <1>2, <1>3, <1>4, <2>1, LandingKeeps DEF CarryTypes
<1>5. CASE Permit(n) /\ LeaveFlow(n, "disconnect")
  BY <1>1, <1>2, <1>3, <1>5, LeavingKeeps DEF CarryTypes, Raised, Stops, Over
<1>6. CASE FailToOpen(n)
  <2>1. at'[n] \in {"cycle", "done"} /\ \A m \in Conn \ {n} : at'[m] = at[m]
    BY <1>6, RaiseLands DEF FailToOpen
  <2> QED
    BY <1>1, <1>2, <1>3, <1>6, <2>1, LandingKeeps DEF CarryTypes, FailToOpen
<1> QED
  BY <1>4, <1>5, <1>6 DEF Permit

LEMMA InOneFlow ==
  ASSUME NEW n \in Conn, PlaceOK, at[n] \notin Over
  PROVE  flow[n] \in DOMAIN FlowSession[n]
<1>1. FlowSession[n] \in Seq(Session)
  BY EndpointAssumption
<1>2. flow[n] \in 1..Len(FlowSession[n])
  BY <1>1 DEF PlaceOK
<1> QED
  BY <1>1, <1>2

\* The request is one of the session of n: no other task waits for it.
LEMMA AddImageCancel ==
  ASSUME NEW n \in Conn, PlaceOK, CancelInv, AddImage(n)
  PROVE  CancelInv'
<1>1. /\ PhaseStep /\ at[n] = "flow"
      /\ UNCHANGED <<cut, flow, raised>>
  BY DEF AddImage, PhaseStep
<1>2. CarryTypes
  BY DEF CancelInv
<1>3. cut[n] # 0 => Masked(n)'
  BY <1>1, MaskedBefore
<1>4. at'[n] = "adding" /\ \A m \in Conn \ {n} : at'[m] = at[m]
  BY GotoLands DEF AddImage
<1>5. /\ read' \in [Conn -> Nat] /\ read'[n] = read[n] + 1
      /\ \A m \in Conn \ {n} : read'[m] = read[m]
  BY <1>2, ReadOn DEF AddImage
<1>6. PICK d \in DataOf(Current(n)) : carried' = [carried EXCEPT ![d] = read[n] + 1]
  BY DEF AddImage
<1>7. d \in Call /\ SessionOf[d] = Current(n)
  BY DEF DataOf
<1>8. carried' \in [Call -> Nat] /\ carried'[d] = read'[n]
  BY <1>2, <1>5, <1>6, <1>7 DEF CarryTypes
<1>9. AddsOne(n)'
  <2>1. Current(n)' = Current(n)
    BY <1>1 DEF Current
  <2> QED
    BY <1>8, <2>1 DEF AddsOne
<1>10. ASSUME NEW m \in Conn \ {n} PROVE Same(m)
  <2>1. SUFFICES ASSUME at[m] = "adding", NEW c \in DataOf(Current(m))
                 PROVE  carried'[c] = carried[c]
    BY <1>1, <1>4, <1>5 DEF Same
  <2>2. flow[m] \in DOMAIN FlowSession[m] /\ flow[n] \in DOMAIN FlowSession[n]
    BY <1>1, <2>1, InOneFlow DEF Over
  <2>3. Current(m) # Current(n)
    BY <2>2, EndpointAssumption DEF Current
  <2>4. c # d
    BY <1>7, <2>1, <2>3 DEF DataOf
  <2> QED
    BY <1>2, <1>6, <2>4 DEF CarryTypes
<1>11. Fine(n)' /\ Local(n)
  BY <1>1, <1>2, <1>3, <1>5, <1>8, <1>9, <1>10 DEF Fine, Local, CarryTypes
<1> QED
  BY <1>1, <1>11, StepKeeps

LEMMA AddedCancel ==
  ASSUME NEW n \in Conn, PlaceOK, CancelInv, Added(n)
  PROVE  CancelInv'
<1>1. /\ PhaseStep /\ at[n] = "adding"
      /\ UNCHANGED <<carried, cut, flow, read>>
  <2>1. Serve(n) /\ ~StartFlow(n)
    BY DEF Serve, StartFlow, Added
  <2> QED
    BY <2>1, ServeMoves DEF Added
<1>2. CarryTypes /\ Fine(n)
  BY DEF CancelInv
<1>3. Masked(n) => Masked(n)'
  BY <1>1, MaskedStays DEF PlaceOK
<1>4. cut[n] # 0 => \/ Masked(n)
                 \/ /\ raised[n] = "cancelled" /\ cut[n] = flow[n]
                    /\ phase[Adding(n)] = "failed"
  BY <1>1, <1>2 DEF Fine, Carries
<1>5. CASE phase[Adding(n)] = "ok" /\ Goto(n, "flow") /\ UNCHANGED raised
  <2>1. at'[n] = "flow" /\ \A m \in Conn \ {n} : at'[m] = at[m]
    BY <1>5, GotoLands
  <2>2. cut[n] # 0 => Masked(n)'
    BY <1>3, <1>4, <1>5
  <2> QED
    BY <1>1, <1>2, <1>5, <2>1, <2>2, LandingKeeps DEF CarryTypes
<1>6. CASE LeaveFlow(n, IF raised[n] = "cancelled" THEN "cancelled" ELSE "error")
  <2> DEFINE what == IF raised[n] = "cancelled" THEN "cancelled" ELSE "error"
  <2>1. /\ what \in Raised
        /\ cut[n] # 0 => (what = "cancelled" /\ cut[n] = flow[n]) \/ Masked(n)'
    BY <1>3, <1>4 DEF Raised
  <2>2. at[n] \in Stops \ Over
    BY <1>1 DEF Stops, Over
  <2> HIDE DEF what
  <2>3. LeaveFlow(n, what)
    BY <1>6 DEF what
  <2>4. read' \in [Conn -> Nat] /\ \A m \in Conn \ {n} : read'[m] = read[m]
    BY <1>1, <1>2 DEF CarryTypes
  <2> QED
    BY <1>1, <2>1, <2>2, <2>3, <2>4, LeavingKeeps
<1> QED
  BY <1>5, <1>6 DEF Added

LEMMA EndFlowCancel ==
  ASSUME NEW n \in Conn, PlaceOK, CancelInv, EndFlow(n)
  PROVE  CancelInv'
<1>1. at[n] = "flow" /\ UNCHANGED <<carried, cut, flow>>
  BY DEF EndFlow
<1>2. CarryTypes
  BY DEF CancelInv
<1>3. PICK what \in Raised : LeaveFlow(n, what)
  BY DEF EndFlow, Raised
<1>4. at[n] \in Stops \ Over
  BY <1>1 DEF Stops, Over
<1>5. PhaseStep
  BY <1>1, <1>3, <1>4, LeaveFlowMoves
<1>6. cut[n] # 0 => Masked(n)'
  BY <1>1, <1>5, MaskedBefore
<1>7. read' \in [Conn -> Nat] /\ \A m \in Conn \ {n} : read'[m] = read[m]
  BY <1>2, ReadOn DEF EndFlow
<1> QED
  BY <1>1, <1>3, <1>4, <1>6, <1>7, LeavingKeeps

\* A clear that is answered lets the cancellation go on; one that fails masks it.
LEMMA ClearingCancel ==
  ASSUME NEW n \in Conn, PlaceOK, CancelInv, Cleared(n) \/ FailToClear(n)
  PROVE  CancelInv'
<1>1. /\ PhaseStep /\ at[n] = "clearing" /\ UNCHANGED phase
      /\ UNCHANGED <<carried, cut, flow, read>>
      /\ raised' = [raised EXCEPT ![n] = "none"]
  BY DEF Cleared, FailToClear, serviceVars, PhaseStep
<1>2. CarryTypes /\ Fine(n)
  BY DEF CancelInv
<1>3. Masked(n) => Masked(n)'
  BY <1>1, MaskedStays DEF PlaceOK
<1>4. cut[n] # 0 => Masked(n) \/ (raised[n] = "cancelled" /\ cut[n] = flow[n])
  BY <1>1, <1>2 DEF Fine, Carries
<1>5. at'[n] \in {"cycle", "done"} /\ \A m \in Conn \ {n} : at'[m] = at[m]
  <2>1. CASE Goto(n, "cycle")
    BY <2>1, GotoLands
  <2>2. CASE \E what : Raise(n, what)
    BY <2>2, RaiseLands
  <2> QED
    BY <2>1, <2>2 DEF Cleared, FailToClear
<1>6. cut[n] # 0 => at'[n] = "done" \/ Masked(n)'
  <2>1. CASE Cleared(n) /\ raised[n] = "cancelled"
    <3>1. Raise(n, "cancelled")
      BY <2>1 DEF Cleared
    <3> QED
      BY <3>1, RaiseLands
  <2>2. CASE FailToClear(n)
    <3>1. phase'[ClearOf(Current(n))] = "failed"
      BY <1>1, <2>2 DEF FailToClear
    <3> QED
      BY <1>1, <1>3, <1>4, <3>1, FailedClearMasks DEF Over
  <2> QED
    BY <1>3, <1>4, <2>1, <2>2
<1>7. raised' \in [Conn -> Raised] /\ \A m \in Conn \ {n} : raised'[m] = raised[m]
  BY <1>1, <1>2 DEF CarryTypes, Raised
<1> QED
  BY <1>1, <1>2, <1>5, <1>6, <1>7, LandingKeeps DEF CarryTypes

\* Before it is accepted, nothing is masked and nothing carried.
LEMMA AcceptingCancel ==
  ASSUME NEW n \in Conn, PlaceOK, CancelInv, Connect(n) \/ Accept(n) \/ FailToAccept(n)
  PROVE  CancelInv'
<1>1. /\ PhaseStep /\ at[n] \in {"idle", "accepting"}
      /\ \E stop \in {"accepting", "cycle", "done"} : at' = [at EXCEPT ![n] = stop]
      /\ UNCHANGED <<carried, cut, flow, read, raised>>
  BY DEF Connect, Accept, FailToAccept, Finish, PhaseStep, serviceVars
<1>2. at'[n] # "adding" /\ \A m \in Conn \ {n} : at'[m] = at[m]
  BY <1>1 DEF PlaceOK
<1>3. cut[n] # 0 => Masked(n)'
  BY <1>1, MaskedBefore
<1> QED
  BY <1>1, <1>2, <1>3, LandingKeeps DEF CancelInv, CarryTypes, PlaceOK

-----------------------------------------------------------------------------
(* Every step, and the theorem.                                            *)

LEMMA ServeCancel ==
  ASSUME NEW n \in Conn, ClearInv, CancelInv, Serve(n)
  PROVE  CancelInv'
<1>1. PlaceOK
  BY DEF ClearInv
<1>2. CASE NoticeGone(n)
  BY <1>1, <1>2, InterruptKeeps DEF NoticeGone, Raised
<1> QED
  BY <1>1, <1>2, StartFlowCancel, RefuseFrameCancel, OpeningCancel, AddImageCancel,
     AddedCancel, EndFlowCancel, ClearingCancel, AcceptingCancel DEF Serve

LEMMA CancelCancel ==
  ASSUME NEW n \in Conn, PlaceOK, CancelInv, Cancel(n)
  PROVE  CancelInv'
<1>0. CarryTypes /\ PhaseStep
  BY CancelMoves DEF CancelInv
<1>1. /\ cut' \in [Conn -> Nat] /\ cut'[n] = flow[n]
      /\ \A m \in Conn : cut'[m] <= flow[m]
      /\ \A m \in Conn \ {n} : cut'[m] = cut[m]
  BY <1>0, CutGrows DEF Cancel
<1>2. CASE Interrupt(n, "cancelled")
  BY <1>2, InterruptKeeps DEF Cancel, Raised
<1>3. CASE /\ Finish(n) /\ UNCHANGED <<read, flow, carried>>
           /\ raised' \in {raised, [raised EXCEPT ![n] = "none"]}
  <2>1. at'[n] = "done" /\ \A m \in Conn \ {n} : at'[m] = at[m]
    BY <1>3 DEF Finish, PlaceOK
  <2>2. /\ raised' \in [Conn -> Raised]
        /\ \A m \in Conn \ {n} : raised'[m] = raised[m]
    BY <1>0, <1>3 DEF CarryTypes, Raised
  <2>3. Fine(n)'
    BY <2>1 DEF Fine, AddsOne, Carries
  <2>4. Local(n)
    BY <1>0, <1>1, <1>3, <2>1, <2>2 DEF Local, Same, CarryTypes
  <2> QED
    BY <1>0, <2>3, <2>4, StepKeeps
<1>4. CASE /\ at[n] = "adding" /\ Fail(Adding(n), {}) /\ Goto(n, "adding")
           /\ raised' = [raised EXCEPT ![n] = "cancelled"]
           /\ UNCHANGED <<read, flow, carried>>
  <2>1. at'[n] = "adding" /\ \A m \in Conn \ {n} : at'[m] = at[m]
    BY <1>4, GotoLands
  <2>2. /\ raised' \in [Conn -> Raised] /\ raised'[n] = "cancelled"
        /\ \A m \in Conn \ {n} : raised'[m] = raised[m]
    BY <1>0, <1>4 DEF CarryTypes, Raised
  <2>3. AddsOne(n)
    BY DEF CancelInv, Fine
  <2>4. Adding(n) \in Call
    BY <1>4, <2>3, AddingIsOne DEF DataOf
  <2>5. phase'[Adding(n)] = "failed"
    BY <1>4, <2>4, FailSets
  <2>6. Current(n)' = Current(n)
    BY <1>4 DEF Current
  <2>7. Adding(n)' = Adding(n)
    BY <1>4, <2>6 DEF Adding
  <2>8. AddsOne(n)'
    BY <1>4, <2>3, <2>6 DEF AddsOne
  <2>9. phase'[Adding(n)'] = "failed"
    BY <2>5, <2>7
  <2>10. Fine(n)'
    BY <1>1, <1>4, <2>1, <2>2, <2>8, <2>9 DEF Fine, Carries
  <2>11. Local(n)
    BY <1>0, <1>1, <1>4, <2>1, <2>2 DEF Local, Same, CarryTypes
  <2> QED
    BY <1>0, <2>10, <2>11, StepKeeps
<1> QED
  BY <1>2, <1>3, <1>4 DEF Cancel

LEMMA OthersCancel ==
  ASSUME PlaceOK, CancelInv, PhaseStep, UNCHANGED <<at, flow, raised, cut, read, carried>>
  PROVE  CancelInv'
BY AllSameKeeps DEF CancelInv, CarryTypes, Same

LEMMA CancelInit == Init => CancelInv
BY DEF Init, CancelInv, CarryTypes, Fine, AddsOne, Raised

LEMMA CancelStep == ClearInv /\ CancelInv /\ [Next]_vars => CancelInv'
<1> SUFFICES ASSUME ClearInv, CancelInv, [Next]_vars PROVE CancelInv'
  OBVIOUS
<1>1. PlaceOK
  BY DEF ClearInv
<1>2. ASSUME NEW n \in Conn, Client(n) PROVE CancelInv'
  <2>1. CASE SendFrame(n) \/ GoAway(n)
    BY <1>1, <2>1, OthersCancel DEF SendFrame, GoAway, serviceVars, PhaseStep
  <2> QED
    BY <1>1, <1>2, <2>1, AcceptingCancel DEF Client
<1>3. ASSUME NEW n \in Conn, Serve(n) PROVE CancelInv'
  BY <1>3, ServeCancel
<1>4. ASSUME NEW n \in Conn, ClientTimeout(n) PROVE CancelInv'
  BY <1>1, <1>4, InterruptKeeps DEF ClientTimeout, Raised
<1>5. ASSUME NEW n \in Conn, Cancel(n) PROVE CancelInv'
  BY <1>1, <1>5, CancelCancel
<1>6. ASSUME NEW c \in Call, Pool(c) PROVE CancelInv'
  <2>1. UNCHANGED <<at, flow, raised, cut, read, carried>>
    BY <1>6 DEF Pool, PoolHandles, PoolAnswers, PoolFails, PoolLoses, connVars
  <2>2. PhaseStep
    BY <1>6 DEF Pool, PoolHandles, PoolAnswers, PoolFails, PoolLoses, Apply, PhaseStep
  <2> QED
    BY <1>1, <2>1, <2>2, OthersCancel
<1>7. CASE UNCHANGED vars
  BY <1>1, <1>7, OthersCancel DEF vars, connVars, serviceVars, PhaseStep
<1> QED
  BY <1>2, <1>3, <1>4, <1>5, <1>6, <1>7 DEF Next

\* A cancelled task ends without serving another frame, unless the clear of the flow
\* it was cancelled in has failed: that exception takes the place of the
\* cancellation in the `finally' of summary_image_accumulator, and the message
\* cycle survives it.
THEOREM CancellationIsHonoured == Spec => []CancelIsHonoured
<1>1. CancelInv => CancelIsHonoured
  BY DEF CancelInv, Fine, Carries, Masked, CancelIsHonoured
<1> QED
  BY <1>1, ClearInit, ClearStep, CancelInit, CancelStep, PTL DEF Spec

-----------------------------------------------------------------------------
(* What the endpoint counts and measures.                                  *)

OpenStops == Stops \ {"idle", "accepting", "done"}

\* The inductive invariant: a connection is open only once it was accepted.
GaugeInv ==
  /\ at \in [Conn -> Stops]
  /\ accepted \subseteq Conn
  /\ \A n \in Conn : at[n] \in {"idle", "accepting"} => n \notin accepted
  /\ Open \subseteq accepted
  /\ gauge = Cardinality(Open) - Cardinality(Refused)

\* What a step of the task of n that serves its client does to its place.
Serves(n) ==
  /\ at[n] \in OpenStops /\ UNCHANGED accepted
  /\ (\E stop \in OpenStops : Goto(n, stop)) \/ Finish(n)

\* The task of n ends before accept() has returned.
Refuses(n) == at[n] = "accepting" /\ UNCHANGED accepted /\ Finish(n)

-----------------------------------------------------------------------------
LEMMA CountsFinite ==
  /\ IsFiniteSet(Open) /\ Cardinality(Open) \in Nat
  /\ IsFiniteSet(Refused) /\ Cardinality(Refused) \in Nat
<1>1. Open \subseteq Conn /\ Refused \subseteq Conn
  BY DEF Open, Refused
<1> QED
  BY <1>1, EndpointAssumption, FS_Subset, FS_CardinalityType

LEMMA RaiseServes ==
  ASSUME NEW n \in Conn, NEW what, at[n] \in OpenStops, UNCHANGED accepted, Raise(n, what)
  PROVE  Serves(n)
BY DEF Raise, Serves, OpenStops, Stops

LEMMA LeaveFlowServes ==
  ASSUME NEW n \in Conn, NEW what, at[n] \in OpenStops, UNCHANGED accepted, LeaveFlow(n, what)
  PROVE  Serves(n)
BY RaiseServes DEF LeaveFlow, Serves, OpenStops, Stops

LEMMA InterruptServes ==
  ASSUME NEW n \in Conn, NEW what, Interrupt(n, what)
  PROVE  Serves(n)
<1>1. at[n] \in OpenStops /\ UNCHANGED accepted
  BY DEF Interrupt, OpenStops, Stops
<1> QED
  BY <1>1, RaiseServes, LeaveFlowServes DEF Interrupt

LEMMA ServeServes ==
  ASSUME NEW n \in Conn, Serve(n), ~Accept(n)
  PROVE  Serves(n) \/ Refuses(n)
<1>1. CASE StartFlow(n) \/ AddImage(n)
  BY <1>1 DEF StartFlow, AddImage, Serves, OpenStops, Stops
<1>2. CASE RefuseFrame(n) \/ FailToOpen(n) \/ FailToClear(n)
  <2>1. at[n] \in OpenStops /\ UNCHANGED accepted
    BY <1>2 DEF RefuseFrame, FailToOpen, FailToClear, OpenStops, Stops
  <2> QED
    BY <1>2, <2>1, RaiseServes DEF RefuseFrame, FailToOpen, FailToClear
<1>3. CASE Permit(n) \/ Added(n) \/ EndFlow(n)
  <2>1. at[n] \in OpenStops /\ UNCHANGED accepted
    BY <1>3 DEF Permit, Added, EndFlow, OpenStops, Stops
  <2>2. Goto(n, "flow") \/ \E what : LeaveFlow(n, what)
    BY <1>3 DEF Permit, Added, EndFlow
  <2>3. CASE Goto(n, "flow")
    BY <2>1, <2>3 DEF Serves, OpenStops, Stops
  <2> QED
    BY <2>1, <2>2, <2>3, LeaveFlowServes
<1>4. CASE Cleared(n)
  <2>1. at[n] \in OpenStops /\ UNCHANGED accepted
    BY <1>4 DEF Cleared, OpenStops, Stops
  <2>2. Goto(n, "cycle") \/ \E what : Raise(n, what)
    BY <1>4 DEF Cleared
  <2>3. CASE Goto(n, "cycle")
    BY <2>1, <2>3 DEF Serves, OpenStops, Stops
  <2> QED
    BY <2>1, <2>2, <2>3, RaiseServes
<1>5. CASE NoticeGone(n)
  BY <1>5, InterruptServes DEF NoticeGone
<1>6. CASE FailToAccept(n)
  BY <1>6 DEF FailToAccept, Refuses
<1> QED
  BY <1>1, <1>2, <1>3, <1>4, <1>5, <1>6 DEF Serve

LEMMA CancelServes ==
  ASSUME NEW n \in Conn, Cancel(n)
  PROVE  Serves(n) \/ Refuses(n)
<1>1. CASE Interrupt(n, "cancelled")
  BY <1>1, InterruptServes
<1>2. CASE ~Interrupt(n, "cancelled")
  BY <1>2 DEF Cancel, Serves, Refuses, OpenStops, Stops
<1> QED
  BY <1>1, <1>2

-----------------------------------------------------------------------------
\* A task that goes on leaves the gauge as it is; one that ends lowers it by one.
LEMMA ServesKeeps ==
  ASSUME NEW n \in Conn, GaugeInv, Serves(n)
  PROVE  GaugeInv'
<1>1. n \in Open /\ n \in accepted /\ n \notin Refused
  BY DEF Serves, Open, OpenStops, GaugeInv, Refused
<1>2. ASSUME NEW stop \in OpenStops, Goto(n, stop) PROVE GaugeInv'
  <2>1. at' = [at EXCEPT ![n] = stop] /\ gauge' = gauge /\ accepted' = accepted
    BY <1>2 DEF Goto, metricVars, Serves
  <2>2. at' \in [Conn -> Stops]
    BY <2>1 DEF GaugeInv, OpenStops
  <2>3. Open' = Open /\ Refused' = Refused
    BY <1>1, <2>1 DEF Open, Refused, OpenStops, GaugeInv
  <2>4. \A m \in Conn : at'[m] \in {"idle", "accepting"} => m \notin accepted
    BY <2>1 DEF GaugeInv, OpenStops
  <2> QED
    BY <2>1, <2>2, <2>3, <2>4 DEF GaugeInv
<1>3. CASE Finish(n)
  <2>1. at' = [at EXCEPT ![n] = "done"] /\ gauge' = gauge - 1 /\ accepted' = accepted
    BY <1>3, CountsFinite DEF Finish, UpdateGauge, GaugeInv, Serves
  <2>2. at' \in [Conn -> Stops]
    BY <2>1 DEF GaugeInv, Stops
  <2>3. Open' = Open \ {n} /\ Refused' = Refused
    BY <1>1, <2>1 DEF Open, Refused, GaugeInv
  <2>4. Cardinality(Open \ {n}) = Cardinality(Open) - 1
    BY <1>1, CountsFinite, FS_RemoveElement
  <2>5. gauge' = Cardinality(Open') - Cardinality(Refused')
    BY <2>1, <2>3, <2>4, CountsFinite DEF GaugeInv
  <2>6. /\ Open' \subseteq accepted
        /\ \A m \in Conn : at'[m] \in {"idle", "accepting"} => m \notin accepted
    BY <2>1, <2>3 DEF GaugeInv
  <2> QED
    BY <2>1, <2>2, <2>5, <2>6 DEF GaugeInv
<1> QED
  BY <1>2, <1>3 DEF Serves

\* So does one that was never accepted, for which it was not raised.
LEMMA RefusesKeeps ==
  ASSUME NEW n \in Conn, GaugeInv, Refuses(n)
  PROVE  GaugeInv'
<1>1. /\ at' = [at EXCEPT ![n] = "done"] /\ gauge' = gauge - 1 /\ accepted' = accepted
      /\ at[n] = "accepting" /\ n \notin accepted
  BY CountsFinite DEF Refuses, Finish, UpdateGauge, GaugeInv
<1>2. at' \in [Conn -> Stops]
  BY <1>1 DEF GaugeInv, Stops
<1>3. Open' = Open /\ Refused' = Refused \cup {n} /\ n \notin Refused
  BY <1>1 DEF Open, Refused, GaugeInv
<1>4. Cardinality(Refused \cup {n}) = Cardinality(Refused) + 1
  BY <1>3, CountsFinite, FS_AddElement
<1>5. gauge' = Cardinality(Open') - Cardinality(Refused')
  BY <1>1, <1>3, <1>4, CountsFinite DEF GaugeInv
<1>6. /\ Open' \subseteq accepted
      /\ \A m \in Conn : at'[m] \in {"idle", "accepting"} => m \notin accepted
  BY <1>1, <1>3 DEF GaugeInv
<1> QED
  BY <1>1, <1>2, <1>5, <1>6 DEF GaugeInv

LEMMA ConnectKeeps ==
  ASSUME NEW n \in Conn, GaugeInv, Connect(n)
  PROVE  GaugeInv'
<1>1. /\ at' = [at EXCEPT ![n] = "accepting"] /\ UNCHANGED <<gauge, accepted>>
      /\ at[n] = "idle" /\ n \notin accepted
  BY DEF Connect, metricVars, GaugeInv
<1>2. at' \in [Conn -> Stops]
  BY <1>1 DEF GaugeInv, Stops
<1>3. Open' = Open /\ Refused' = Refused
  BY <1>1 DEF Open, Refused, GaugeInv
<1>4. \A m \in Conn : at'[m] \in {"idle", "accepting"} => m \notin accepted
  BY <1>1 DEF GaugeInv
<1> QED
  BY <1>1, <1>2, <1>3, <1>4 DEF GaugeInv

LEMMA AcceptKeeps ==
  ASSUME NEW n \in Conn, GaugeInv, Accept(n)
  PROVE  GaugeInv'
<1>1. /\ at' = [at EXCEPT ![n] = "cycle"] /\ gauge' = gauge + 1
      /\ accepted' = accepted \cup {n} /\ at[n] = "accepting"
  BY DEF Accept, UpdateGauge
<1>2. at' \in [Conn -> Stops] /\ accepted' \subseteq Conn
  BY <1>1 DEF GaugeInv, Stops
<1>3. Open' = Open \cup {n} /\ n \notin Open /\ Refused' = Refused
  BY <1>1 DEF Open, Refused, GaugeInv
<1>4. Cardinality(Open \cup {n}) = Cardinality(Open) + 1
  BY <1>3, CountsFinite, FS_AddElement
<1>5. gauge' = Cardinality(Open') - Cardinality(Refused')
  BY <1>1, <1>3, <1>4, CountsFinite DEF GaugeInv
<1>6. /\ Open' \subseteq accepted'
      /\ \A m \in Conn : at'[m] \in {"idle", "accepting"} => m \notin accepted'
  BY <1>1, <1>3 DEF GaugeInv
<1> QED
  BY <1>2, <1>5, <1>6 DEF GaugeInv

LEMMA GaugeInit == Init => GaugeInv
<1> SUFFICES ASSUME Init PROVE GaugeInv
  OBVIOUS
<1>1. at = [n \in Conn |-> "idle"] /\ gauge = 0 /\ accepted = {}
  BY DEF Init, MetricsInit
<1>2. Open = {} /\ Refused = {}
  BY <1>1 DEF Open, Refused
<1> QED
  BY <1>1, <1>2, FS_EmptySet DEF GaugeInv, Stops

LEMMA GaugeStep == GaugeInv /\ [Next]_vars => GaugeInv'
<1> SUFFICES ASSUME GaugeInv, [Next]_vars PROVE GaugeInv'
  OBVIOUS
<1>1. CASE UNCHANGED <<at, gauge, accepted>>
  BY <1>1 DEF GaugeInv, Open, Refused
<1>2. ASSUME NEW n \in Conn, Client(n) PROVE GaugeInv'
  BY <1>2, <1>1, ConnectKeeps DEF Client, SendFrame, GoAway, metricVars
<1>3. ASSUME NEW n \in Conn, Serve(n) PROVE GaugeInv'
  BY <1>3, ServeServes, ServesKeeps, RefusesKeeps, AcceptKeeps
<1>4. ASSUME NEW n \in Conn, ClientTimeout(n) PROVE GaugeInv'
  BY <1>4, InterruptServes, ServesKeeps DEF ClientTimeout
<1>5. ASSUME NEW n \in Conn, Cancel(n) PROVE GaugeInv'
  BY <1>5, CancelServes, ServesKeeps, RefusesKeeps
<1>6. ASSUME NEW c \in Call, Pool(c) PROVE GaugeInv'
  BY <1>6, <1>1 DEF Pool, PoolHandles, PoolAnswers, PoolFails, PoolLoses, connVars, metricVars
<1>7. CASE UNCHANGED vars
  BY <1>7, <1>1 DEF vars, connVars, metricVars
<1> QED
  BY <1>2, <1>3, <1>4, <1>5, <1>6, <1>7 DEF Next

\* main.py:84 and 114: the gauge is the number of the connections that are open,
\* however many there are and in whatever way the others ended, less one for each that
\* ended before it was accepted -- and only those make it wrong.
THEOREM GaugeIsShortByRefused == Spec => []GaugeIsShort
<1>1. GaugeInv => GaugeIsShort
  BY DEF GaugeInv, GaugeIsShort
<1> QED
  BY <1>1, GaugeInit, GaugeStep, PTL DEF Spec

-----------------------------------------------------------------------------
(* The average.                                                            *)

\* The inductive invariant.
AverageInv ==
  /\ average \in AverageMetric
  /\ samples \subseteq Nat
  /\ average.den = 0 => average.num = 0
  /\ samples = {} => average.den = 0
  /\ AverageInRange

LEMMA ProductGrows ==
  ASSUME NEW x \in Nat, NEW y \in Nat, NEW w \in Nat, x <= y
  PROVE  x * w <= y * w
OBVIOUS

\* Folding keeps the weight of the samples: numerator and denominator are divided
\* by the same number.
LEMMA FoldedWeighsTheSame ==
  ASSUME NEW a \in AverageMetric, a.den = 0 => a.num = 0
  PROVE  /\ Folded(a) \in AverageMetric /\ Folded(a).num = a.num
         /\ Folded(a).unit * Folded(a).den = a.unit * a.den
<1>1. a.num \in Nat /\ a.unit \in Nat \ {0} /\ a.den \in Nat
  BY DEF AverageMetric
<1>2. CASE ~(a.num >= FoldAt * a.unit \/ a.den >= FoldAt)
  BY <1>2 DEF Folded
<1>3. CASE a.num >= FoldAt * a.unit \/ a.den >= FoldAt
  <2>1. a.den # 0
    <3>1. FoldAt * a.unit > 0
      BY <1>1, FoldAssumption
    <3> QED BY <1>1, <1>3, <3>1, FoldAssumption
  <2>2. a.unit * a.den \in Nat \ {0}
    BY <1>1, <2>1
  <2>3. Folded(a) = [num |-> a.num, unit |-> a.unit * a.den, den |-> 1]
    BY <1>3 DEF Folded, AverageMetric
  <2> QED BY <1>1, <2>2, <2>3 DEF AverageMetric
<1> QED BY <1>2, <1>3

LEMMA AverageKeeps ==
  ASSUME AverageInv, NEW x \in Nat, UpdateAverage(x)
  PROVE  AverageInv'
<1>0. PICK a \in AverageMetric :
        /\ a = Folded(average) /\ a.num = average.num
        /\ a.unit * a.den = average.unit * average.den
  BY FoldedWeighsTheSame DEF AverageInv
<1>1. PICK n \in Nat, u \in Nat \ {0}, d \in Nat : n = a.num /\ u = a.unit /\ d = a.den
  BY DEF AverageMetric
<1>2. /\ average' = [num |-> n + x * u, unit |-> u, den |-> d + 1]
      /\ samples' = samples \cup {x}
  BY <1>0, <1>1 DEF UpdateAverage, AverageMetric
<1>3. PICK w \in Nat : w = u * d /\ w = average.unit * average.den
  BY <1>0, <1>1
<1>4. /\ x * u \in Nat /\ u * (d + 1) = w + u /\ average.num = n
      /\ \A y \in Nat : y * (w + u) = y * w + y * u
  BY <1>0, <1>1, <1>3
<1>5. average' \in AverageMetric /\ samples' \subseteq Nat /\ average'.den # 0
  <2>1. PICK p \in Nat : p = x * u
    BY <1>4
  <2>2. average' = [num |-> n + p, unit |-> u, den |-> d + 1]
    BY <1>2, <2>1
  <2>3. n + p \in Nat /\ d + 1 \in Nat /\ d + 1 # 0
    BY <1>1, <2>1
  <2> QED BY <1>1, <1>2, <2>2, <2>3 DEF AverageMetric, AverageInv
<1>6. /\ \E low \in samples' : low * (w + u) <= n + x * u
      /\ \E high \in samples' : n + x * u <= high * (w + u)
  <2>1. CASE samples = {}
    <3>1. n = 0 /\ w = 0
      BY <1>0, <1>1, <1>3, <2>1 DEF AverageInv, AverageMetric
    <3> QED BY <1>2, <1>4, <3>1
  <2>2. CASE samples # {}
    <3>1. PICK low \in samples, high \in samples : low * w <= n /\ n <= high * w
      BY <1>3, <1>4, <2>2 DEF AverageInv, AverageInRange
    <3>2. low \in Nat /\ high \in Nat
      BY DEF AverageInv
    <3>3. \E y \in {low, x} : y * w <= n /\ y * u <= x * u
      <4>1. CASE low <= x
        BY <3>1, <3>2, <4>1, ProductGrows
      <4>2. CASE x <= low
        <5>1. x * w <= low * w
          BY <3>2, <4>2, ProductGrows
        <5> QED BY <3>1, <3>2, <5>1
      <4> QED BY <3>2, <4>1, <4>2
    <3>4. \E y \in {high, x} : n <= y * w /\ x * u <= y * u
      <4>1. CASE x <= high
        BY <3>1, <3>2, <4>1, ProductGrows
      <4>2. CASE high <= x
        <5>1. high * w <= x * w
          BY <3>2, <4>2, ProductGrows
        <5> QED BY <3>1, <3>2, <5>1
      <4> QED BY <3>2, <4>1, <4>2
    <3>5. \A y \in Nat : y * w \in Nat /\ y * u \in Nat
      BY <1>1
    <3>6. {low, high, x} \subseteq Nat /\ {low, high, x} \subseteq samples'
      BY <1>2, <3>2
    <3>7. PICK y \in {low, x} : y * w <= n /\ y * u <= x * u
      BY <3>3
    <3>8. y * (w + u) <= n + x * u
      BY <1>4, <3>5, <3>6, <3>7
    <3>9. PICK z \in {high, x} : n <= z * w /\ x * u <= z * u
      BY <3>4
    <3>10. n + x * u <= z * (w + u)
      BY <1>4, <3>5, <3>6, <3>9
    <3> QED BY <3>6, <3>8, <3>10
  <2> QED BY <2>1, <2>2
<1>7. AverageInRange'
  BY <1>2, <1>4, <1>6 DEF AverageInRange
<1> QED BY <1>2, <1>5, <1>7 DEF AverageInv

LEMMA FinishAverages ==
  ASSUME NEW n \in Conn, AverageInv, Finish(n)
  PROVE  AverageInv'
<1>1. PICK x \in Durations[n] : UpdateAverage(x)
  BY DEF Finish
<1>2. x \in Nat
  BY EndpointAssumption
<1> QED BY <1>1, <1>2, AverageKeeps

LEMMA ServesAverages ==
  ASSUME NEW n \in Conn, AverageInv, Serves(n) \/ Refuses(n)
  PROVE  AverageInv'
<1>1. CASE UNCHANGED metricVars
  BY <1>1 DEF metricVars, AverageInv, AverageInRange
<1> QED BY <1>1, FinishAverages DEF Serves, Refuses, Goto

\* How a step may change the metrics: only the end of a connection averages.
LEMMA AverageStep == AverageInv /\ [Next]_vars => AverageInv'
<1> SUFFICES ASSUME AverageInv, [Next]_vars PROVE AverageInv'
  OBVIOUS
<1>1. CASE UNCHANGED <<average, samples>>
  BY <1>1 DEF AverageInv, AverageInRange
<1>2. ASSUME NEW n \in Conn, Client(n) PROVE AverageInv'
  BY <1>1, <1>2 DEF Client, Connect, SendFrame, GoAway, metricVars
<1>3. ASSUME NEW n \in Conn, Serve(n) PROVE AverageInv'
  BY <1>1, <1>3, ServeServes, ServesAverages DEF Accept
<1>4. ASSUME NEW n \in Conn, ClientTimeout(n) PROVE AverageInv'
  BY <1>4, InterruptServes, ServesAverages DEF ClientTimeout
<1>5. ASSUME NEW n \in Conn, Cancel(n) PROVE AverageInv'
  BY <1>5, CancelServes, ServesAverages
<1>6. ASSUME NEW c \in Call, Pool(c) PROVE AverageInv'
  BY <1>1, <1>6 DEF Pool, PoolHandles, PoolAnswers, PoolFails, PoolLoses, metricVars
<1>7. CASE UNCHANGED vars
  BY <1>1, <1>7 DEF vars, metricVars
<1> QED BY <1>2, <1>3, <1>4, <1>5, <1>6, <1>7 DEF Next

LEMMA AverageInit == Init => AverageInv
BY DEF Init, MetricsInit, AverageInv, AverageInRange, AverageMetric

\* utils/metrics/manager.py:44-58: the average that is shown is one of durations there
\* were, wherever the threshold of the fold is and however often it is crossed.
THEOREM AverageStaysInRange == Spec => []AverageInRange
<1>1. AverageInv => AverageInRange
  BY DEF AverageInv
<1> QED BY <1>1, AverageInit, AverageStep, PTL DEF Spec

-----------------------------------------------------------------------------
(* The types.                                                              *)

\* The conversation of a client, and how far it has got.
FeedInv ==
  /\ script \in [Conn -> UNION {Scripts[n] : n \in Conn}]
  /\ fed \in [Conn -> Nat]
  /\ gone \in [Conn -> BOOLEAN]
  /\ \A n \in Conn : read[n] <= fed[n] /\ fed[n] <= Len(script[n])

\* A frame is read after it was sent.
Reads ==
  /\ UNCHANGED <<script, fed, gone>>
  /\ read' = read \/ \E n \in Conn : HasFrame(n) /\ Consume(n)

LEMMA ReadsKeeps ==
  ASSUME CarryTypes, FeedInv, Reads
  PROVE  FeedInv'
<1>1. CASE read' = read
  BY <1>1 DEF FeedInv, Reads
<1>2. ASSUME NEW n \in Conn, HasFrame(n), Consume(n) PROVE FeedInv'
  <2>1. read'[n] = read[n] + 1 /\ \A m \in Conn \ {n} : read'[m] = read[m]
    BY <1>2, ReadOn
  <2>2. read[n] \in Nat /\ fed[n] \in Nat /\ read[n] < fed[n]
    BY <1>2 DEF CarryTypes, FeedInv, HasFrame
  <2>3. ASSUME NEW m \in Conn PROVE read'[m] <= fed[m]
    <3>1. CASE m = n
      BY <2>1, <2>2, <3>1
    <3> QED BY <2>1, <3>1 DEF FeedInv
  <2> QED BY <2>3 DEF FeedInv, Reads
<1> QED BY <1>1, <1>2 DEF Reads

LEMMA SendFrameKeeps ==
  ASSUME NEW n \in Conn, CarryTypes, FeedInv, SendFrame(n)
  PROVE  FeedInv'
<1>1. /\ fed' = [fed EXCEPT ![n] = @ + 1] /\ UNCHANGED <<script, read, gone>>
      /\ fed[n] < Len(script[n])
  BY DEF SendFrame
<1>2. Len(script[n]) \in Nat
  <2>1. script[n] \in UNION {Scripts[m] : m \in Conn}
    BY DEF FeedInv
  <2>2. script[n] \in Seq(Frames)
    BY <2>1, EndpointAssumption
  <2> QED BY <2>2
<1>3. fed' \in [Conn -> Nat] /\ fed'[n] = fed[n] + 1 /\ \A m \in Conn \ {n} : fed'[m] = fed[m]
  <2>1. fed \in [Conn -> Nat]
    BY DEF FeedInv
  <2> QED BY <1>1, <2>1
<1>4. fed'[n] <= Len(script[n]) /\ read[n] <= fed'[n]
  <2>1. fed[n] \in Nat /\ read[n] \in Nat /\ read[n] <= fed[n]
    BY DEF FeedInv, CarryTypes
  <2> QED BY <1>1, <1>2, <1>3, <2>1
<1>5. ASSUME NEW m \in Conn PROVE read[m] <= fed'[m] /\ fed'[m] <= Len(script[m])
  <2>1. CASE m = n
    BY <1>4, <2>1
  <2> QED BY <1>3, <2>1 DEF FeedInv
<1> QED BY <1>1, <1>3, <1>5 DEF FeedInv

LEMMA FeedStep ==
  ASSUME CarryTypes, FeedInv, [Next]_vars
  PROVE  FeedInv'
<1>1. ASSUME NEW n \in Conn, Client(n) PROVE FeedInv'
  <2>1. CASE Connect(n)
    BY <2>1, ReadsKeeps DEF Connect, Reads
  <2>2. CASE GoAway(n)
    BY <2>2 DEF GoAway, FeedInv
  <2> QED BY <1>1, <2>1, <2>2, SendFrameKeeps DEF Client
<1>2. ASSUME NEW n \in Conn, NEW what, Interrupt(n, what) PROVE Reads
  BY <1>2 DEF Interrupt, Reads
<1>3. ASSUME NEW n \in Conn, Serve(n) PROVE Reads
  BY <1>2, <1>3 DEF Serve, StartFlow, RefuseFrame, Permit, FailToOpen, AddImage, Added, EndFlow,
                    Cleared, FailToClear, NoticeGone, Accept, FailToAccept, Reads
<1>4. ASSUME NEW n \in Conn, ClientTimeout(n) \/ Cancel(n) PROVE Reads
  BY <1>2, <1>4 DEF ClientTimeout, Cancel, Reads
<1>5. ASSUME NEW c \in Call, Pool(c) PROVE Reads
  BY <1>5 DEF Pool, PoolHandles, PoolAnswers, PoolFails, PoolLoses, connVars, Reads
<1>6. CASE UNCHANGED vars
  BY <1>6, ReadsKeeps DEF vars, connVars, Reads
<1> QED BY <1>1, <1>3, <1>4, <1>5, <1>6, ReadsKeeps DEF Next

\* The types of the state, with their bounds: no task reads more than its client has
\* sent, and no other connection than an accepted one raises the gauge, no other than
\* one that was not accepted takes it below zero.
THEOREM TypeCorrect == Spec => []TypeOK
<1>1. Init => FeedInv
  <2> SUFFICES ASSUME Init PROVE FeedInv
    OBVIOUS
  <2>1. \A n \in Conn : script[n] \in Seq(Frames)
    BY EndpointAssumption DEF Init
  <2> QED BY <2>1 DEF Init, FeedInv
<1>2. ClearInv /\ CancelInv /\ FeedInv /\ GaugeInv /\ AverageInv => TypeOK
  <2> SUFFICES ASSUME ClearInv, CancelInv, FeedInv, GaugeInv, AverageInv PROVE TypeOK
    OBVIOUS
  <2>1. gauge \in -Cardinality(Conn \ accepted)..Cardinality(accepted)
    <3>1. Open \subseteq accepted /\ Refused \subseteq Conn \ accepted /\ accepted \subseteq Conn
      BY DEF GaugeInv, Refused
    <3>2. IsFiniteSet(accepted) /\ IsFiniteSet(Conn \ accepted)
      BY <3>1, EndpointAssumption, FS_Subset
    <3>3. /\ Cardinality(accepted) \in Nat /\ Cardinality(Conn \ accepted) \in Nat
          /\ Cardinality(Open) <= Cardinality(accepted)
          /\ Cardinality(Refused) <= Cardinality(Conn \ accepted)
      BY <3>1, <3>2, FS_Subset, FS_CardinalityType
    <3>4. PICK open \in Nat, refused \in Nat, most \in Nat, others \in Nat :
            /\ open = Cardinality(Open) /\ refused = Cardinality(Refused)
            /\ most = Cardinality(accepted) /\ others = Cardinality(Conn \ accepted)
            /\ open <= most /\ refused <= others /\ gauge = open - refused
      BY <3>3, CountsFinite DEF GaugeInv
    <3>5. gauge \in -others..most
      BY <3>4
    <3> QED BY <3>4, <3>5
  <2>2. \A n \in Conn : flow[n] \in 0..Len(FlowSession[n]) /\ cut[n] \in 0..flow[n]
    BY EndpointAssumption DEF ClearInv, PlaceOK, CancelInv, CarryTypes
  <2> QED BY <2>1, <2>2 DEF TypeOK, ClearInv, PlaceOK, CancelInv, CarryTypes, FeedInv, AverageInv, Phases
<1>3. CancelInv => CarryTypes
  BY DEF CancelInv
<1> QED
  BY <1>1, <1>2, <1>3, ClearInit, ClearStep, CancelInit, CancelStep, FeedStep, GaugeInit, GaugeStep,
     AverageInit, AverageStep, PTL DEF Spec

=============================================================================
