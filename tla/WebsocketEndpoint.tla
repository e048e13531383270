------------------------- MODULE WebsocketEndpoint --------------------------
(***************************************************************************)
(* The websocket side (main.py, session_wrap): an endpoint task for every  *)
(* connection runs the message cycle, which runs one summary flow after    *)
(* another.  The pool below is what it promises to be, SessionService: it  *)
(* may fail a request, and lose sessions when it does.                     *)
(*                                                                         *)
(* A client sends frames, possibly far ahead of what the server reads, and *)
(* goes away at any moment.  Sending to a client does not suspend the task *)
(* here; it fails once the client is gone.                                 *)
(***************************************************************************)
EXTENDS SessionService, Metrics, FiniteSets

CONSTANTS
  Conn,         \* the connections ever made
  Scripts,      \* Scripts[n]: the conversations the client of n may hold
  FlowSession,  \* FlowSession[n]: the session ids drawn by the flows of n, in order
  Fragile,      \* the requests the pool may fail of its own accord
  Cancellable,  \* the connections whose task may be cancelled, once
  Durations     \* Durations[n]: how long the connection of n may last

\* What handle_cycle or the flow makes of a frame: a request for a summary flow,
\* a text it refuses (no JSON, or a flow type without a flow), an image, or the
\* byte 5 that ends a flow.
Frames == {"open", "text", "image", "stop"}

ASSUME EndpointAssumption ==
  /\ IsFiniteSet(Conn)
  /\ Scripts \in [Conn -> SUBSET Seq(Frames)]
  /\ FlowSession \in [Conn -> Seq(Session)]
  /\ \A n, m \in Conn : \A i \in DOMAIN FlowSession[n], j \in DOMAIN FlowSession[m] :
       FlowSession[n][i] = FlowSession[m][j] => n = m /\ i = j
  /\ Session \subseteq SI
  /\ \A s \in Session : \A type \in {"init_session", "clear"} :
       \E c \in Call : SessionOf[c] = s /\ Type[c] = type
  /\ Fragile \subseteq Call /\ Cancellable \subseteq Conn
  /\ Durations \in [Conn -> SUBSET Nat]

VARIABLES
  script,    \* script[n]: the conversation its client holds
  fed,       \* fed[n]: how many of its frames the client has sent
  read,      \* read[n]: how many of them the server has read
  gone,      \* gone[n]: the client has closed the connection
  at,        \* where the task of n is suspended
  flow,      \* flow[n]: how many flows n has started
  raised,    \* raised[n]: the exception that waits for the clear to end
  cut,       \* cut[n]: the flow of n in which its task was cancelled, else 0
  carried,   \* carried[c]: the frame whose image the request c carries
  accepted,  \* history: the connections whose accept() returned
  results    \* history: the results sent, with the frame that ended the flow

connVars == <<script, accepted, fed, read, gone, at, flow, raised, cut, carried, results>>
vars     == <<connVars, serviceVars, metricVars>>

Stops == {"idle", "accepting", "cycle", "opening", "flow", "adding", "clearing", "done"}

\* none: the flow ended well; error: any Exception the cycle reports and survives.
Raised == {"none", "error", "timeout", "disconnect", "cancelled"}

-----------------------------------------------------------------------------
(* The session of a flow and its requests.                                 *)

Current(n) == FlowSession[n][flow[n]]

InitOf(s)  == CHOOSE c \in Call : SessionOf[c] = s /\ Type[c] = "init_session"
ClearOf(s) == CHOOSE c \in Call : SessionOf[c] = s /\ Type[c] = "clear"
DataOf(s)  == {c \in Call : SessionOf[c] = s /\ Type[c] = "data"}

\* The request that work_function is in, or has made last.
Adding(n) == CHOOSE c \in DataOf(Current(n)) : carried[c] = read[n]

TypeOK ==
  /\ phase \in [Call -> {"new", "pending", "ok", "failed"}]
  /\ script \in [Conn -> UNION {Scripts[n] : n \in Conn}]
  /\ \A n \in Conn : read[n] <= fed[n] /\ fed[n] <= Len(script[n])
  /\ gone \in [Conn -> BOOLEAN]
  /\ at \in [Conn -> Stops] /\ raised \in [Conn -> Raised]
  /\ \A n \in Conn : flow[n] \in 0..Len(FlowSession[n]) /\ cut[n] \in 0..flow[n]
  /\ carried \in [Call -> Nat]
  /\ gauge \in -Cardinality(Conn \ accepted)..Cardinality(accepted)
  /\ average \in AverageMetric

Init ==
  /\ ServiceInit
  /\ MetricsInit
  /\ script \in {f \in [Conn -> UNION {Scripts[n] : n \in Conn}] :
                   \A n \in Conn : f[n] \in Scripts[n]}
  /\ accepted = {}
  /\ fed = [n \in Conn |-> 0]
  /\ read = [n \in Conn |-> 0]
  /\ gone = [n \in Conn |-> FALSE]
  /\ at = [n \in Conn |-> "idle"]
  /\ flow = [n \in Conn |-> 0]
  /\ raised = [n \in Conn |-> "none"]
  /\ cut = [n \in Conn |-> 0]
  /\ carried = [c \in Call |-> 0]
  /\ results = {}

-----------------------------------------------------------------------------
(* The client.                                                             *)

\* The task of the endpoint starts, and awaits accept().
Connect(n) ==
  /\ at[n] = "idle"
  /\ at' = [at EXCEPT ![n] = "accepting"]
  /\ UNCHANGED <<script, accepted, fed, read, gone, flow, raised, cut, carried, results,
                 metricVars, serviceVars>>

SendFrame(n) ==
  /\ at[n] \notin {"idle", "accepting", "done"} /\ ~gone[n]
  /\ fed[n] < Len(script[n])
  /\ fed' = [fed EXCEPT ![n] = @ + 1]
  /\ UNCHANGED <<script, accepted, read, gone, at, flow, raised, cut, carried, results,
                 metricVars, serviceVars>>

GoAway(n) ==
  /\ at[n] \notin {"idle", "done"} /\ ~gone[n]
  /\ gone' = [gone EXCEPT ![n] = TRUE]
  /\ UNCHANGED <<script, accepted, fed, read, at, flow, raised, cut, carried, results,
                 metricVars, serviceVars>>

-----------------------------------------------------------------------------
(* How an exception is handled.                                            *)

Goto(n, stop) == at' = [at EXCEPT ![n] = stop] /\ UNCHANGED metricVars

\* Mutant of Finish: the gauge is only lowered by connections that were closed
\* by their clients.
FinishGone(n) ==
  /\ at' = [at EXCEPT ![n] = "done"]
  /\ UpdateGauge(IF gone[n] THEN -1 ELSE 0)
  /\ \E duration \in Durations[n] : UpdateAverage(duration)

\* The `finally' of websocket_endpoint.
Finish(n) ==
  /\ at' = [at EXCEPT ![n] = "done"]
  /\ UpdateGauge(-1)
  /\ \E duration \in Durations[n] : UpdateAverage(duration)

\* Mutant of Raise: a cancellation is reported to the client like an error.
RaiseAny(n, what) ==
  IF what \in {"error", "cancelled"} /\ ~gone[n] THEN Goto(n, "cycle") ELSE Finish(n)

\* handle_cycle reports an error to the client and goes on, if the client is
\* there to be told; a timeout, a disconnection or a cancellation ends the task.
Raise(n, what) ==
  IF what = "error" /\ ~gone[n] THEN Goto(n, "cycle") ELSE Finish(n)

\* Mutant of LeaveFlow: no `finally' around the body of the flow.
LeaveFlowAsIs(n, what) ==
  IF what = "none"
    THEN /\ raised' = [raised EXCEPT ![n] = what]
         /\ Submit(ClearOf(Current(n))) /\ Goto(n, "clearing")
    ELSE Raise(n, what) /\ UNCHANGED <<raised, serviceVars>>

\* The body of the flow ends, well or with an exception: the session is cleared
\* whatever it was.  A session the pool has lost may be unknown to it: there is
\* nothing to clear then, and no result -- send_bytes(None) is a TypeError.
LeaveFlow(n, what) ==
  \/ /\ raised' = [raised EXCEPT ![n] = what]
     /\ Submit(ClearOf(Current(n)))
     /\ Goto(n, "clearing")
  \/ /\ store[Current(n)] = None
     /\ Fail(ClearOf(Current(n)), {})
     /\ Raise(n, IF what = "none" THEN "error" ELSE what)
     /\ UNCHANGED raised

-----------------------------------------------------------------------------
(* The message cycle and the flow.                                         *)

HasFrame(n) == read[n] < fed[n]
Frame(n)    == script[n][read[n] + 1]
Consume(n)  == read' = [read EXCEPT ![n] = @ + 1]

\* accept() returns: the gauge is raised, and the cycle begins.
Accept(n) ==
  /\ at[n] = "accepting"
  /\ at' = [at EXCEPT ![n] = "cycle"]
  /\ accepted' = accepted \cup {n}
  /\ UpdateGauge(1)
  /\ UNCHANGED <<script, fed, read, gone, flow, raised, cut, carried, results,
                 average, samples, serviceVars>>

\* accept() raises, in the `try' already: the client is gone.
FailToAccept(n) ==
  /\ at[n] = "accepting" /\ gone[n]
  /\ Finish(n)
  /\ UNCHANGED <<script, accepted, fed, read, gone, flow, raised, cut, carried, results,
                 serviceVars>>

\* A request for a summary flow: a flow with a fresh id opens its session.
\* Bound: no more flows than ids drawn.
StartFlow(n) ==
  /\ at[n] = "cycle" /\ HasFrame(n) /\ Frame(n) = "open"
  /\ flow[n] < Len(FlowSession[n])
  /\ Consume(n)
  /\ flow' = [flow EXCEPT ![n] = @ + 1]
  /\ Submit(InitOf(FlowSession[n][flow[n] + 1]))
  /\ Goto(n, "opening")
  /\ UNCHANGED <<script, accepted, fed, gone, raised, cut, carried, results>>

\* Any other frame: a ValidationError or a KeyError.
RefuseFrame(n) ==
  /\ at[n] = "cycle" /\ HasFrame(n) /\ Frame(n) # "open"
  /\ Consume(n)
  /\ Raise(n, "error")
  /\ UNCHANGED <<script, accepted, fed, gone, flow, raised, cut, carried, results,
                 serviceVars>>

\* "Transferring permitted", if there is anyone to be told.
Permit(n) ==
  /\ at[n] = "opening" /\ phase[InitOf(Current(n))] = "ok"
  /\ \/ /\ ~gone[n]
        /\ Goto(n, "flow")
        /\ UNCHANGED <<raised, serviceVars>>
     \/ gone[n] /\ LeaveFlow(n, "disconnect")
  /\ UNCHANGED <<script, accepted, fed, read, gone, flow, cut, carried, results>>

\* init_session raises: the `async with' was never entered, nothing is cleared.
FailToOpen(n) ==
  /\ at[n] = "opening" /\ phase[InitOf(Current(n))] = "failed"
  /\ Raise(n, "error")
  /\ UNCHANGED <<script, accepted, fed, read, gone, flow, raised, cut, carried, results,
                 serviceVars>>

\* The next request of a flow; AddImage has the bound that there is one.
Unused(n) == CHOOSE c \in DataOf(Current(n)) : carried[c] = 0

\* Mutant of AddImage: work_function is not awaited.
AddImageUnawaited(n) ==
  /\ at[n] = "flow" /\ HasFrame(n) /\ Frame(n) = "image"
  /\ Consume(n)
  /\ \E d \in DataOf(Current(n)) :
       /\ d = Unused(n)
       /\ Submit(d)
       /\ carried' = [carried EXCEPT ![d] = read[n] + 1]
  /\ Goto(n, "flow")
  /\ UNCHANGED <<script, accepted, fed, gone, flow, raised, cut, results>>

AddImage(n) ==
  /\ at[n] = "flow" /\ HasFrame(n) /\ Frame(n) = "image"
  /\ Consume(n)
  /\ \E d \in DataOf(Current(n)) :
       /\ d = Unused(n)
       /\ Submit(d)
       /\ carried' = [carried EXCEPT ![d] = read[n] + 1]
  /\ Goto(n, "adding")
  /\ UNCHANGED <<script, accepted, fed, gone, flow, raised, cut, results>>

\* Mutant of Added: the exception of a refused image is swallowed.
AddedAnyhow(n) ==
  /\ at[n] = "adding"
  /\ phase[Adding(n)] \in {"ok", "failed"}
  /\ Goto(n, "flow")
  /\ UNCHANGED <<script, accepted, fed, read, gone, flow, raised, cut, carried, results,
                 serviceVars>>

Added(n) ==
  /\ at[n] = "adding"
  /\ \/ phase[Adding(n)] = "ok" /\ Goto(n, "flow") /\ UNCHANGED <<raised, serviceVars>>
     \/ /\ phase[Adding(n)] = "failed"
        /\ LeaveFlow(n, IF raised[n] = "cancelled" THEN "cancelled" ELSE "error")
  /\ UNCHANGED <<script, accepted, fed, read, gone, flow, cut, carried, results>>

\* The byte that ends the flow; a text frame has no bytes and is a KeyError.
EndFlow(n) ==
  /\ at[n] = "flow" /\ HasFrame(n) /\ Frame(n) # "image"
  /\ Consume(n)
  /\ LeaveFlow(n, IF Frame(n) = "stop" THEN "none" ELSE "error")
  /\ UNCHANGED <<script, accepted, fed, gone, flow, cut, carried, results>>

\* The clear is answered: the result is sent, or the exception goes on.
Cleared(n) ==
  LET k == ClearOf(Current(n)) IN
  /\ at[n] = "clearing" /\ phase[k] = "ok"
  /\ \/ /\ raised[n] = "none" /\ ~gone[n]
        /\ results' = results \cup {[conn |-> n, frame |-> read[n],
                                     images |-> {carried[c] : c \in reply[k]}]}
        /\ Goto(n, "cycle")
     \/ /\ raised[n] # "none" \/ gone[n]
        /\ Raise(n, IF raised[n] = "none" THEN "disconnect" ELSE raised[n])
        /\ UNCHANGED results
  /\ raised' = [raised EXCEPT ![n] = "none"]
  /\ UNCHANGED <<script, accepted, fed, read, gone, flow, cut, carried, serviceVars>>

\* The clear raises, in the `finally': its exception takes the place of the one
\* in flight, be that a timeout or a cancellation.
FailToClear(n) ==
  /\ at[n] = "clearing" /\ phase[ClearOf(Current(n))] = "failed"
  /\ raised' = [raised EXCEPT ![n] = "none"]
  /\ Raise(n, "error")
  /\ UNCHANGED <<script, accepted, fed, read, gone, flow, cut, carried, results,
                 serviceVars>>

\* An exception where the task waits for a frame.
Interrupt(n, what) ==
  /\ \/ at[n] = "cycle" /\ Raise(n, what) /\ UNCHANGED <<raised, serviceVars>>
     \/ at[n] = "flow" /\ LeaveFlow(n, what)
  /\ UNCHANGED <<script, accepted, fed, read, gone, flow, carried, results>>

\* The frames of a client that has gone are read before its going is noticed.
NoticeGone(n) == gone[n] /\ ~HasFrame(n) /\ Interrupt(n, "disconnect") /\ UNCHANGED cut

\* Mutant of ClientTimeout: no timer runs inside a flow.
ClientTimeoutBetweenFlows(n) ==
  ~gone[n] /\ ~HasFrame(n) /\ at[n] = "cycle" /\ Interrupt(n, "timeout") /\ UNCHANGED cut

\* MESSAGE_WAIT_TIMEOUT.
ClientTimeout(n) == ~gone[n] /\ ~HasFrame(n) /\ Interrupt(n, "timeout") /\ UNCHANGED cut

\* The server cancels the task, once: before it is accepted, or wherever it waits.
\* A cancelled init leaves no flow to clear; a cancelled data request raises in the
\* body of the flow; a cancelled clear ends the task.
Cancel(n) ==
  /\ n \in Cancellable /\ cut[n] = 0
  /\ cut' = [cut EXCEPT ![n] = flow[n]]
  /\ \/ Interrupt(n, "cancelled")
     \/ /\ \/ at[n] = "accepting" /\ Finish(n) /\ UNCHANGED <<raised, serviceVars>>
           \/ at[n] = "opening" /\ phase[InitOf(Current(n))] = "pending"
              /\ Fail(InitOf(Current(n)), {}) /\ Finish(n) /\ UNCHANGED raised
           \/ at[n] = "adding" /\ phase[Adding(n)] = "pending"
              /\ Fail(Adding(n), {}) /\ Goto(n, "adding")
              /\ raised' = [raised EXCEPT ![n] = "cancelled"]
           \/ at[n] = "clearing" /\ phase[ClearOf(Current(n))] = "pending"
              /\ Fail(ClearOf(Current(n)), {}) /\ Finish(n)
              /\ raised' = [raised EXCEPT ![n] = "none"]
        /\ UNCHANGED <<script, accepted, fed, read, gone, flow, carried, results>>

-----------------------------------------------------------------------------
(* The pool.                                                               *)

\* A request is refused for a reason of the pool's own, or because its session
\* was lost.
MayRefuse(c) ==
  c \in Fragile \/ (Type[c] # "init_session" /\ store[SessionOf[c]] = None)

PoolHandles(c) ==
  /\ SessionOf[c] # None /\ Apply(c)
  /\ value'[c] = None => MayRefuse(c)
  /\ UNCHANGED <<connVars, metricVars>>

PoolAnswers(c) == Answer(c) /\ UNCHANGED <<connVars, metricVars>>

Opened == {s \in Session : store[s] # None}

\* A request that was refused fails; a failure may also be the end of a process
\* and of the sessions in it.
PoolFails(c) ==
  /\ phase[c] = "pending"
  /\ \/ c \in applied /\ value[c] = None /\ Fail(c, {})
     \/ c \in Fragile /\ \E lost \in SUBSET Opened : Fail(c, lost)
  /\ UNCHANGED <<connVars, metricVars>>

\* So may that of a request without a session, which no connection here made.
PoolLoses(c) ==
  /\ SessionOf[c] = None /\ c \in Fragile
  /\ \E lost \in SUBSET Opened \ {{}} : Fail(c, lost)
  /\ UNCHANGED <<connVars, metricVars>>

-----------------------------------------------------------------------------
Client(n) == Connect(n) \/ SendFrame(n) \/ GoAway(n)

Serve(n) ==
  \/ Accept(n)
  \/ FailToAccept(n)
  \/ StartFlow(n)
  \/ RefuseFrame(n)
  \/ Permit(n)
  \/ FailToOpen(n)
  \/ AddImage(n)
  \/ Added(n)
  \/ EndFlow(n)
  \/ Cleared(n)
  \/ FailToClear(n)
  \/ NoticeGone(n)

Pool(c) == PoolHandles(c) \/ PoolAnswers(c) \/ PoolFails(c) \/ PoolLoses(c)

\* The pool goes on with a request of n that waits for it.
PoolServes(n) ==
  \E c \in Call : phase[c] = "pending" /\ SessionOf[c] \in Range(FlowSession[n]) /\ Pool(c)

Next ==
  \/ \E n \in Conn : Client(n)
  \/ \E n \in Conn : Serve(n)
  \/ \E n \in Conn : ClientTimeout(n)
  \/ \E n \in Conn : Cancel(n)
  \/ \E c \in Call : Pool(c)

Spec == Init /\ [][Next]_vars

(***************************************************************************)
(* The event loop runs every task that can run, the timer of a wait expires*)
(* if it lasts, and the pool ends every request (EveryCallEnds).  Clients  *)
(* owe nothing, and nobody has to cancel a task.                           *)
(***************************************************************************)
FairSpec ==
  /\ Spec
  /\ \A n \in Conn : WF_vars(Serve(n) \/ ClientTimeout(n))
  /\ \A n \in Conn : WF_vars(PoolServes(n))

-----------------------------------------------------------------------------
(* Safety.                                                                 *)

\* Between two flows, and after the last one, every session that was opened has
\* been cleared, or the pool has been asked to and failed: no frame, timeout,
\* disconnection or cancellation leaves one behind (the `finally' of
\* summary_image_accumulator).
FlowsClearUp ==
  \A n \in Conn : at[n] \in {"cycle", "done"} =>
    \A i \in 1..flow[n] :
      phase[InitOf(FlowSession[n][i])] = "ok" =>
        phase[ClearOf(FlowSession[n][i])] \in {"ok", "failed"}

\* The result of a flow is the sum of exactly the images its client sent between
\* the request for the flow and the byte that ended it, however far ahead the
\* client was and whatever the pool did to other requests.
ResultIsWhole ==
  \A r \in results :
    /\ script[r.conn][r.frame] = "stop"
    /\ \E first \in 1..r.frame :
         /\ script[r.conn][first] = "open"
         /\ \A i \in (first + 1)..(r.frame - 1) : script[r.conn][i] = "image"
         /\ r.images = (first + 1)..(r.frame - 1)

\* The protocol the pool relies on (MayStart of WorkerManager): a session is
\* opened first, its requests are made one at a time, its clear comes last.
ClientProtocol ==
  [][\A c \in Call : SessionOf[c] # None /\ phase[c] = "new" /\ phase'[c] # "new" =>
       LET s == SessionOf[c] IN
       IF Type[c] = "init_session"
         THEN \A d \in DataOf(s) \cup {ClearOf(s)} : phase[d] = "new"
         ELSE /\ phase[InitOf(s)] = "ok"
              /\ phase[ClearOf(s)] = "new"
              /\ \A d \in DataOf(s) : phase[d] # "pending"]_vars

Open == {n \in Conn : at[n] \notin {"idle", "accepting", "done"}}

\* The connections that ended without having been accepted.
Refused == {n \in Conn : at[n] = "done" /\ n \notin accepted}

\* The gauge is the number of the connections that are open, in whatever way the
\* others ended, short by one for each that was never accepted: the `finally' lowers
\* it for those as well.
GaugeIsShort == gauge = Cardinality(Open) - Cardinality(Refused)

\* metrics/manager.py:102, "Number current websocket connections".
GaugeCountsOpen == gauge = Cardinality(Open)

\* A cancelled task ends without serving another frame -- unless the clear of the
\* very flow it was cancelled in failed: that exception has replaced the
\* cancellation then, and the failure of no other clear does.
CancelIsHonoured ==
  \A n \in Conn : cut[n] # 0 /\ at[n] \in {"cycle", "opening", "flow"} =>
    phase[ClearOf(FlowSession[n][cut[n]])] = "failed"

-----------------------------------------------------------------------------
(* Liveness, under FairSpec.                                               *)

\* Every connection ends: its client leaves, or falls silent and is timed out,
\* and no request, however it fails, keeps the task from noticing.
EveryConnectionEnds == \A n \in Conn : at[n] # "idle" ~> at[n] = "done"

=============================================================================
