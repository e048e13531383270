----------------------------- MODULE PipeProofs -----------------------------
(***************************************************************************)
(* What a worker reads is always a sequence of whole messages, whatever the*)
(* sizes, the room in a pipe, the cancellations and the restarts.  Each    *)
(* message lies in one piece (Piece), since only the message being written *)
(* grows and it is the last one (LastOK); the worker takes its units from  *)
(* the front and stops at the end of each message (HandOK); and no message *)
(* is written twice, for a request is sent but once (UnitsOK).  The second *)
(* part is about the replies, and when they can block a worker for ever.   *)
(***************************************************************************)
EXTENDS PipeBackpressure, FiniteSetTheorems, SequenceTheorems, TLAPS

\* The units on their way to p, the ones it holds first.
Units(p) == hand[p] \o pipe[p]

\* Where the units of c are in u.
Places(u, c) == {i \in 1..Len(u) : u[i] = c}

\* How many units of c there are.
Due(c) == IF sending = c THEN sent ELSE Size[c]

\* The n places of S, if there are any, follow one another.
Piece(S, n) == S = {} \/ \E a \in Nat : S = a..(a + n - 1)

PipeTypes ==
  /\ task \in [Call -> {"new", "wait", "done"}]
  /\ sending \in Call \cup {None}
  /\ sent \in Nat
  /\ pipe \in [Proc -> Seq(Call)]
  /\ hand \in [Proc -> Seq(Call)]

SendingOK ==
  /\ sending = None => sent = 0
  /\ sending # None => sent < Size[sending] /\ task[sending] # "new"

\* A request is in one pipe at most, once it was made.
UnitsOK ==
  \A p \in Proc : \A c \in Call :
    /\ Piece(Places(Units(p), c), Due(c))
    /\ Places(Units(p), c) # {} => At[c] = p /\ task[c] # "new"

\* The message being written is the last one in its pipe.
LastOK ==
  sending # None /\ sent > 0 =>
    Len(Units(At[sending])) \in Places(Units(At[sending]), sending)

\* A worker holds units of one message.
HandOK ==
  \A p \in Proc : \A i \in 1..Len(hand[p]) :
    hand[p][i] = hand[p][1] /\ i <= Size[hand[p][1]]

\* The inductive invariant.
PipeInv == PipeTypes /\ SendingOK /\ UnitsOK /\ LastOK /\ HandOK

-----------------------------------------------------------------------------
(* Sequences of units.                                                     *)

\* A unit goes to the end.
LEMMA AppendPlaces ==
  ASSUME NEW u \in Seq(Call), NEW c \in Call
  PROVE  /\ Append(u, c) \in Seq(Call) /\ Len(Append(u, c)) = Len(u) + 1
         /\ Places(Append(u, c), c) = Places(u, c) \cup {Len(u) + 1}
         /\ \A d \in Call \ {c} : Places(Append(u, c), d) = Places(u, d)
BY DEF Places

LEMMA WriteUnits ==
  ASSUME NEW h \in Seq(Call), NEW q \in Seq(Call), NEW c \in Call
  PROVE  h \o Append(q, c) = Append(h \o q, c)
OBVIOUS

LEMMA ReadUnits ==
  ASSUME NEW h \in Seq(Call), NEW q \in Seq(Call), q # <<>>
  PROVE  /\ Append(h, Head(q)) \in Seq(Call) /\ Tail(q) \in Seq(Call)
         /\ Append(h, Head(q)) \o Tail(q) = h \o q
<1>1. /\ Append(h, Head(q)) \in Seq(Call) /\ Tail(q) \in Seq(Call)
      /\ Len(q) \in Nat \ {0} /\ Len(Tail(q)) = Len(q) - 1
  OBVIOUS
<1> DEFINE l == Append(h, Head(q)) \o Tail(q)
           r == h \o q
<1>2. l \in Seq(Call) /\ r \in Seq(Call) /\ Len(l) = Len(r)
  BY <1>1
<1>3. ASSUME NEW i \in 1..Len(l) PROVE l[i] = r[i]
  <2>1. CASE i <= Len(h)
    BY <1>1, <2>1
  <2>2. CASE i = Len(h) + 1
    BY <1>1, <2>2
  <2>3. CASE i > Len(h) + 1
    BY <1>1, <2>3
  <2> QED BY <2>1, <2>2, <2>3
<1> HIDE DEF l, r
<1>4. l = r
  BY <1>2, <1>3, SeqEqual
<1> QED BY <1>1, <1>4 DEF l, r

\* The units held come first.
LEMMA FrontUnits ==
  ASSUME NEW h \in Seq(Call), NEW q \in Seq(Call), NEW i \in 1..Len(h)
  PROVE  (h \o q)[i] = h[i] /\ i \in 1..Len(h \o q)
OBVIOUS

LEMMA UnitLengths ==
  ASSUME NEW h \in Seq(Call), NEW q \in Seq(Call)
  PROVE  /\ h \o q \in Seq(Call) /\ Len(h \o q) = Len(h) + Len(q)
         /\ Len(h) \in Nat /\ Len(q) \in Nat /\ Len(h \o q) \in Nat
<1>1. Len(h \o q) = Len(h) + Len(q) /\ Len(h) \in Nat /\ Len(q) \in Nat
  OBVIOUS
<1>2. Len(h \o q) \in Nat
  BY <1>1
<1>3. h \o q \in Seq(Call)
  OBVIOUS
<1> QED BY <1>1, <1>2, <1>3

\* What follows the units held is as before, only nearer.
LEMMA DropPlaces ==
  ASSUME NEW h \in Seq(Call), NEW q \in Seq(Call), NEW d \in Call
  PROVE  Places(q, d) = {i \in 1..Len(q) : i + Len(h) \in Places(h \o q, d)}
BY DEF Places

-----------------------------------------------------------------------------
(* What the invariant says of one pipe.                                    *)

LEMMA UnitsType ==
  ASSUME PipeTypes, NEW p \in Proc
  PROVE  /\ hand[p] \in Seq(Call) /\ pipe[p] \in Seq(Call) /\ Units(p) \in Seq(Call)
         /\ Len(Units(p)) = Len(hand[p]) + Len(pipe[p])
         /\ Len(hand[p]) \in Nat /\ Len(pipe[p]) \in Nat /\ Len(Units(p)) \in Nat
<1>1. hand[p] \in Seq(Call) /\ pipe[p] \in Seq(Call)
  BY DEF PipeTypes
<1> QED BY <1>1, UnitLengths DEF Units

\* The message at the front, as far as it is written, begins at the first unit.
LEMMA FrontPiece ==
  ASSUME PipeInv, NEW p \in Proc, hand[p] # <<>>
  PROVE  \E c \in Call :
           /\ c = hand[p][1] /\ At[c] = p /\ Due(c) \in Nat \ {0} /\ Due(c) <= Size[c]
           /\ Places(Units(p), c) = 1..Due(c)
           /\ \A i \in 1..Len(hand[p]) : Units(p)[i] = c /\ i <= Due(c)
<1> USE DEF PipeInv
<1>1. /\ hand[p] \in Seq(Call) /\ pipe[p] \in Seq(Call) /\ Units(p) \in Seq(Call)
      /\ Len(Units(p)) = Len(hand[p]) + Len(pipe[p])
      /\ Len(hand[p]) \in Nat /\ Len(pipe[p]) \in Nat
  BY UnitsType
<1>2. PICK c \in Call : c = hand[p][1] /\ 1 \in 1..Len(hand[p])
  BY <1>1
<1>3. ASSUME NEW i \in 1..Len(hand[p]) PROVE Units(p)[i] = c
  <2>1. Units(p)[i] = hand[p][i]
    BY <1>1, FrontUnits DEF Units
  <2> QED BY <1>2, <2>1 DEF HandOK
<1>4. 1..Len(hand[p]) \subseteq Places(Units(p), c)
  <2>1. ASSUME NEW i \in 1..Len(hand[p]) PROVE i \in 1..Len(Units(p))
    BY <1>1, FrontUnits DEF Units
  <2> QED BY <1>3, <2>1 DEF Places
<1>5. At[c] = p /\ Piece(Places(Units(p), c), Due(c))
  BY <1>2, <1>4 DEF UnitsOK
<1>6. Due(c) \in Nat /\ Due(c) <= Size[c]
  BY BackpressureAssumption DEF Due, PipeTypes, SendingOK
<1>7. PICK a \in Nat : Places(Units(p), c) = a..(a + Due(c) - 1)
  BY <1>2, <1>4, <1>5 DEF Piece
<1>8. 1 \in a..(a + Due(c) - 1) /\ 0 \notin a..(a + Due(c) - 1)
  BY <1>2, <1>4, <1>7 DEF Places
<1>9. a = 1 /\ Due(c) # 0
  BY <1>6, <1>8
<1>10. Places(Units(p), c) = 1..Due(c)
  BY <1>6, <1>7, <1>9
<1>11. \A i \in 1..Len(hand[p]) : i <= Due(c)
  BY <1>4, <1>6, <1>10
<1> QED BY <1>2, <1>3, <1>5, <1>6, <1>9, <1>10, <1>11

-----------------------------------------------------------------------------
(* One lemma for each kind of step.                                        *)

\* Steps that move no units.
LEMMA StillKeeps ==
  ASSUME PipeInv, UNCHANGED <<sending, sent, pipe, hand>>,
         task' \in [Call -> {"new", "wait", "done"}],
         \A c \in Call : task[c] # "new" => task'[c] # "new"
  PROVE  PipeInv'
<1>1. PipeTypes' /\ SendingOK'
  BY DEF PipeInv, PipeTypes, SendingOK
<1>2. LastOK' /\ HandOK'
  BY DEF PipeInv, LastOK, HandOK, Units
<1>3. UnitsOK'
  BY DEF PipeInv, UnitsOK, Units, Due
<1> QED BY <1>1, <1>2, <1>3 DEF PipeInv

\* The request is new: there is nothing of it in any pipe.
LEMMA SendKeeps ==
  ASSUME PipeInv, NEW c \in Call, Send(c)
  PROVE  PipeInv'
<1>1. /\ sending = None /\ sent = 0 /\ task[c] = "new" /\ c # None
      /\ task' = [task EXCEPT ![c] = "wait"] /\ sending' = c
      /\ UNCHANGED <<sent, pipe, hand>>
  BY BackpressureAssumption DEF Send, workerVars, PipeInv, SendingOK
<1>2. /\ task' \in [Call -> {"new", "wait", "done"}] /\ task'[c] # "new"
      /\ \A d \in Call \ {c} : task'[d] = task[d]
  BY <1>1 DEF PipeInv, PipeTypes
<1>3. PipeTypes' /\ SendingOK'
  BY <1>1, <1>2, BackpressureAssumption DEF PipeInv, PipeTypes, SendingOK
<1>4. LastOK' /\ HandOK'
  BY <1>1 DEF PipeInv, LastOK, HandOK
<1>5. ASSUME NEW p \in Proc, NEW d \in Call
      PROVE  /\ Piece(Places(Units(p), d), Due(d))'
             /\ Places(Units(p), d)' # {} => At[d] = p /\ task'[d] # "new"
  <2>1. Places(Units(p), d)' = Places(Units(p), d)
    BY <1>1 DEF Units
  <2>2. CASE d = c
    <3>1. Places(Units(p), c) = {}
      BY <1>1 DEF PipeInv, UnitsOK
    <3> QED BY <2>1, <2>2, <3>1 DEF Piece
  <2>3. CASE d # c
    <3>1. Due(d)' = Due(d)
      BY <1>1, <2>3, BackpressureAssumption DEF Due
    <3>2. Piece(Places(Units(p), d), Due(d)) /\ (Places(Units(p), d) # {} => At[d] = p /\ task[d] # "new")
      BY DEF PipeInv, UnitsOK
    <3> QED BY <1>2, <2>1, <2>3, <3>1, <3>2 DEF Piece
  <2> QED BY <2>2, <2>3
<1> QED BY <1>3, <1>4, <1>5 DEF PipeInv, UnitsOK

\* The message grows at the end, where it is the last one.
LEMMA WriteKeeps ==
  ASSUME PipeInv, NEW c \in Call, Write(c)
  PROVE  PipeInv'
<1> USE DEF PipeInv
<1>1. PICK p \in Proc : p = At[c]
  BY BackpressureAssumption
<1>2. /\ sending = c /\ UNCHANGED <<task, hand>>
      /\ pipe' = [pipe EXCEPT ![p] = Append(@, c)]
      /\ \/ sent + 1 = Size[c] /\ sending' = None /\ sent' = 0
         \/ sent + 1 # Size[c] /\ sending' = c /\ sent' = sent + 1
  BY <1>1 DEF Write, workerVars
<1>3. /\ c # None /\ sent \in Nat /\ sent < Size[c] /\ Size[c] \in Nat /\ task[c] # "new"
  BY <1>2, BackpressureAssumption DEF PipeTypes, SendingOK
<1>4. /\ pipe[p] \in Seq(Call) /\ pipe' \in [Proc -> Seq(Call)]
      /\ pipe'[p] = Append(pipe[p], c) /\ \A q \in Proc \ {p} : pipe'[q] = pipe[q]
  BY <1>2 DEF PipeTypes
<1>5. PipeTypes' /\ SendingOK'
  <2>1. PipeTypes'
    BY <1>2, <1>3, <1>4 DEF PipeTypes
  <2>2. SendingOK'
    BY <1>2, <1>3 DEF SendingOK
  <2> QED BY <2>1, <2>2
<1>6. PICK u \in Seq(Call) : /\ u = Units(p) /\ Units(p)' = Append(u, c)
                             /\ Len(u) \in Nat
  <2>1. hand[p] \in Seq(Call) /\ Units(p) \in Seq(Call) /\ Len(Units(p)) \in Nat
    BY UnitsType
  <2>2. hand[p] \o Append(pipe[p], c) = Append(hand[p] \o pipe[p], c)
    BY <1>4, <2>1, WriteUnits
  <2>3. Units(p)' = Append(Units(p), c)
    BY <1>2, <1>4, <2>2 DEF Units
  <2> QED BY <2>1, <2>3
<1>7. \A q \in Proc \ {p} : Units(q)' = Units(q)
  BY <1>2, <1>4 DEF Units
<1>8. /\ Places(Units(p), c)' = Places(u, c) \cup {Len(u) + 1}
      /\ Len(Units(p))' = Len(u) + 1
      /\ \A d \in Call \ {c} : Places(Units(p), d)' = Places(u, d)
  BY <1>6, AppendPlaces DEF Places
<1>9. Due(c) = sent /\ Due(c)' = sent + 1 /\ \A d \in Call \ {c} : Due(d)' = Due(d)
  BY <1>2, <1>3, BackpressureAssumption DEF Due
<1>10. Piece(Places(u, c) \cup {Len(u) + 1}, sent + 1)
  <2>1. Piece(Places(u, c), sent)
    BY <1>6, <1>9 DEF UnitsOK
  <2>2. CASE sent = 0
    <3>1. Places(u, c) = {}
      BY <2>1, <2>2 DEF Piece
    <3>2. {Len(u) + 1} = (Len(u) + 1)..((Len(u) + 1) + (sent + 1) - 1) /\ Len(u) + 1 \in Nat
      BY <1>6, <2>2
    <3> QED BY <3>1, <3>2 DEF Piece
  <2>3. CASE sent > 0
    <3>1. Len(u) \in Places(u, c)
      BY <1>1, <1>2, <1>3, <1>6, <2>3 DEF LastOK
    <3>2. PICK a \in Nat : Places(u, c) = a..(a + sent - 1)
      BY <2>1, <3>1 DEF Piece
    <3>3. a + sent - 1 \in Places(u, c)
      BY <1>3, <2>3, <3>2
    <3>4. a + sent - 1 = Len(u)
      BY <1>3, <1>6, <3>1, <3>2, <3>3 DEF Places
    <3>5. (a..(a + sent - 1)) \cup {Len(u) + 1} = a..(a + (sent + 1) - 1)
      BY <1>3, <3>4
    <3> QED BY <3>2, <3>5 DEF Piece
  <2> QED BY <1>3, <2>2, <2>3
<1>11. ASSUME NEW q \in Proc, NEW d \in Call
       PROVE  /\ Piece(Places(Units(q), d), Due(d))'
              /\ Places(Units(q), d)' # {} => At[d] = q /\ task'[d] # "new"
  <2>1. CASE q = p /\ d = c
    BY <1>1, <1>2, <1>3, <1>8, <1>9, <1>10, <2>1 DEF Piece
  <2>2. CASE q = p /\ d # c
    <3>1. Places(Units(q), d)' = Places(Units(q), d) /\ Due(d)' = Due(d)
      BY <1>6, <1>8, <1>9, <2>2
    <3> QED BY <1>2, <3>1 DEF UnitsOK, Piece
  <2>3. CASE q # p
    <3>1. Places(Units(q), d)' = Places(Units(q), d)
      BY <1>7, <2>3
    <3>2. CASE d = c
      BY <1>1, <2>3, <3>1, <3>2 DEF UnitsOK, Piece
    <3>3. CASE d # c
      BY <1>2, <1>9, <3>1, <3>3 DEF UnitsOK, Piece
    <3> QED BY <3>2, <3>3
  <2> QED BY <2>1, <2>2, <2>3
<1>12. LastOK'
  BY <1>1, <1>2, <1>8 DEF LastOK
<1>13. HandOK'
  BY <1>2 DEF HandOK
<1> QED BY <1>5, <1>11, <1>12, <1>13 DEF UnitsOK

\* Units that are read stay where they are among those of the worker; the next one
\* is of the message it holds a part of.
LEMMA ReadKeeps ==
  ASSUME PipeInv, NEW p \in Proc, Read(p)
  PROVE  PipeInv'
<1> USE DEF PipeInv
<1>1. /\ ~Whole(p) /\ pipe[p] # <<>> /\ UNCHANGED <<task, sending, sent>>
      /\ hand' = [hand EXCEPT ![p] = Append(@, Head(pipe[p]))]
      /\ pipe' = [pipe EXCEPT ![p] = Tail(@)]
  BY DEF Read, taskVars
<1>2. PICK h \in Seq(Call), q \in Seq(Call) : h = hand[p] /\ q = pipe[p]
  BY DEF PipeTypes
<1>3. /\ Append(h, Head(q)) \in Seq(Call) /\ Tail(q) \in Seq(Call)
      /\ Append(h, Head(q)) \o Tail(q) = h \o q
  BY <1>1, <1>2, ReadUnits
<1>4. /\ hand' \in [Proc -> Seq(Call)] /\ pipe' \in [Proc -> Seq(Call)]
      /\ hand'[p] = Append(h, Head(q)) /\ pipe'[p] = Tail(q)
      /\ \A r \in Proc \ {p} : hand'[r] = hand[r] /\ pipe'[r] = pipe[r]
  BY <1>1, <1>2, <1>3 DEF PipeTypes
<1>5. ASSUME NEW r \in Proc PROVE Units(r)' = Units(r)
  BY <1>2, <1>3, <1>4 DEF Units
<1>6. PipeTypes' /\ SendingOK'
  BY <1>1, <1>4 DEF PipeTypes, SendingOK
<1>7. UnitsOK'
  BY <1>1, <1>5 DEF UnitsOK, Due
<1>8. LastOK'
  BY <1>1, <1>5, BackpressureAssumption DEF LastOK, PipeTypes
<1>9. ASSUME NEW i \in 1..Len(hand'[p])
      PROVE  hand'[p][i] = hand'[p][1] /\ i <= Size[hand'[p][1]]
  <2>0. Len(h) \in Nat /\ Len(hand'[p]) = Len(h) + 1 /\ Len(q) \in Nat \ {0}
        /\ hand'[p][Len(h) + 1] = Head(q) /\ Head(q) \in Call
        /\ \A j \in 1..Len(h) : hand'[p][j] = h[j]
    BY <1>1, <1>2, <1>4
  <2>1. CASE h = <<>>
    <3>1. i = 1 /\ hand'[p][1] = Head(q)
      BY <2>0, <2>1
    <3>2. Size[Head(q)] \in Nat \ {0}
      BY <2>0, BackpressureAssumption
    <3> QED BY <3>1, <3>2
  <2>2. CASE h # <<>>
    <3>1. PICK c \in Call :
            /\ c = h[1] /\ At[c] = p /\ Due(c) \in Nat \ {0} /\ Due(c) <= Size[c]
            /\ Places(Units(p), c) = 1..Due(c)
            /\ \A j \in 1..Len(h) : j <= Due(c)
      BY <1>2, <2>2, FrontPiece
    <3>2. Size[c] \in Nat /\ 1 \in 1..Len(h) /\ hand'[p][1] = c
      BY <2>0, <2>2, <3>1, BackpressureAssumption
    <3>3. Len(h) < Size[c]
      <4>1. Len(h) # Size[c]
        BY <1>1, <1>2, <2>2, <3>1 DEF Whole
      <4>2. Len(h) <= Due(c)
        BY <2>0, <2>2, <3>1
      <4> QED BY <2>0, <3>1, <3>2, <4>1, <4>2
    <3>4. Len(h) + 1 \in 1..Due(c)
      <4>1. CASE sending # c
        BY <2>0, <3>1, <3>2, <3>3, <4>1 DEF Due
      <4>2. CASE sending = c
        <5>1. sending # None /\ sent > 0 /\ Due(c) = sent
          BY <3>1, <4>2, BackpressureAssumption DEF Due
        <5>2. Len(Units(p)) \in 1..Due(c)
          BY <3>1, <4>2, <5>1 DEF LastOK
        <5>3. Len(Units(p)) = Len(h) + Len(q)
          BY <1>2, UnitsType
        <5> QED BY <2>0, <3>1, <5>2, <5>3
      <4> QED BY <4>1, <4>2
    <3>5. Units(p)[Len(h) + 1] = c
      BY <3>1, <3>4 DEF Places
    <3>6. Units(p)[Len(h) + 1] = Head(q)
      <4>1. (h \o q)[Len(h) + 1] = Head(q)
        BY <2>0
      <4> QED BY <1>2, <4>1 DEF Units
    <3>7. CASE i = Len(h) + 1
      BY <2>0, <3>2, <3>3, <3>5, <3>6, <3>7
    <3>8. CASE i # Len(h) + 1
      <4>1. i \in 1..Len(h)
        BY <2>0, <3>8
      <4>2. h[i] = h[1] /\ i <= Size[h[1]]
        BY <1>2, <4>1 DEF HandOK
      <4> QED BY <2>0, <3>1, <3>2, <4>1, <4>2
    <3> QED BY <3>7, <3>8
  <2> QED BY <2>1, <2>2
<1>10. HandOK'
  <2>1. ASSUME NEW r \in Proc, r # p, NEW i \in 1..Len(hand'[r])
        PROVE  hand'[r][i] = hand'[r][1] /\ i <= Size[hand'[r][1]]
    <3>1. hand'[r] = hand[r]
      BY <1>4, <2>1
    <3> QED BY <2>1, <3>1 DEF HandOK
  <2> QED BY <1>9, <2>1 DEF HandOK
<1> QED BY <1>6, <1>7, <1>8, <1>10

\* The whole message at the front is taken: the others move up.
LEMMA WorkKeeps ==
  ASSUME PipeInv, NEW p \in Proc, Work(p)
  PROVE  PipeInv'
<1> USE DEF PipeInv
<1>1. /\ Whole(p) /\ hand' = [hand EXCEPT ![p] = <<>>]
      /\ UNCHANGED <<task, sending, sent, pipe>>
  BY DEF Work, taskVars
<1>2. PICK h \in Seq(Call), q \in Seq(Call) :
        /\ h = hand[p] /\ q = pipe[p] /\ h # <<>>
        /\ Units(p) = h \o q /\ Len(Units(p)) = Len(h) + Len(q)
  BY <1>1, UnitsType DEF PipeTypes, Whole, Units
<1>3. PICK n \in Nat \ {0}, m \in Nat :
        n = Len(h) /\ m = Len(q) /\ Len(Units(p)) = n + m
  <2>1. Len(h) \in Nat \ {0} /\ Len(q) \in Nat
    BY <1>2
  <2> QED BY <1>2, <2>1
<1>4. PICK c \in Call :
        /\ c = h[1] /\ At[c] = p /\ Due(c) <= Size[c] /\ Due(c) \in Nat
        /\ Places(Units(p), c) = 1..Due(c)
        /\ \A i \in 1..n : Units(p)[i] = c /\ i <= Due(c)
  BY <1>2, <1>3, FrontPiece
<1>5. n = Size[c] /\ Due(c) = n
  <2>1. n = Size[c]
    BY <1>1, <1>2, <1>3, <1>4 DEF Whole
  <2> QED BY <1>3, <1>4, <2>1
<1>6. sending # c
  BY <1>5, BackpressureAssumption DEF SendingOK, Due
<1>7. /\ hand' \in [Proc -> Seq(Call)] /\ hand'[p] = <<>>
      /\ \A r \in Proc \ {p} : hand'[r] = hand[r]
  BY <1>1 DEF PipeTypes
<1>8. Units(p)' = q /\ \A r \in Proc \ {p} : Units(r)' = Units(r)
  BY <1>1, <1>2, <1>7 DEF Units
<1>9. \A d \in Call : Places(q, d) = {i \in 1..m : i + n \in Places(Units(p), d)}
  BY <1>2, <1>3, DropPlaces
<1>10. Places(q, c) = {}
  BY <1>3, <1>4, <1>5, <1>9
<1>11. ASSUME NEW d \in Call \ {c}
       PROVE  /\ \A i \in Places(Units(p), d) : i - n \in Places(q, d)
              /\ Piece(Places(q, d), Due(d))
              /\ Places(q, d) # {} => Places(Units(p), d) # {}
  <2>1. ASSUME NEW i \in Places(Units(p), d) PROVE i \in Nat /\ i > n /\ i <= n + m
    <3>1. i \in 1..(n + m) /\ Units(p)[i] = d
      BY <1>3 DEF Places
    <3>2. ~(i \in 1..n)
      BY <1>4, <3>1
    <3> QED BY <1>3, <3>1, <3>2
  <2>2. \A i \in Places(Units(p), d) : i - n \in Places(q, d)
    <3> SUFFICES ASSUME NEW i \in Places(Units(p), d) PROVE i - n \in Places(q, d)
      OBVIOUS
    <3>1. i - n \in 1..m /\ (i - n) + n = i
      BY <1>3, <2>1
    <3> QED BY <1>9, <3>1
  <2>3. Piece(Places(Units(p), d), Due(d))
    BY DEF UnitsOK
  <2>4. ASSUME Places(q, d) # {}
        PROVE  Places(Units(p), d) # {} /\ Piece(Places(q, d), Due(d))
    <3>1. Places(Units(p), d) # {}
      BY <1>9, <2>4
    <3>2. PICK a \in Nat : Places(Units(p), d) = a..(a + Due(d) - 1)
      BY <2>3, <3>1 DEF Piece
    <3>3. Due(d) \in Nat
      BY BackpressureAssumption DEF Due, PipeTypes
    <3>4. a \in Places(Units(p), d)
      BY <3>1, <3>2, <3>3
    <3>5. a > n
      BY <2>1, <3>4
    <3>6. Places(q, d) = (a - n)..((a - n) + Due(d) - 1)
      <4>1. ASSUME NEW i \in Places(q, d) PROVE i \in (a - n)..((a - n) + Due(d) - 1)
        <5>0. i \in 1..m /\ i + n \in Places(Units(p), d)
          BY <1>9, <4>1
        <5>1. i \in Nat /\ i + n \in a..(a + Due(d) - 1)
          BY <3>2, <5>0
        <5>2. a \in Nat /\ Due(d) \in Nat /\ n \in Nat
          BY <1>3, <3>2, <3>3
        <5> QED BY <5>1, <5>2
      <4>2. ASSUME NEW i \in (a - n)..((a - n) + Due(d) - 1) PROVE i \in Places(q, d)
        <5>1. i + n \in Places(Units(p), d) /\ (i + n) - n = i
          BY <1>3, <3>2, <3>3
        <5> QED BY <2>2, <5>1
      <4> QED BY <4>1, <4>2
    <3>7. a - n \in Nat
      BY <1>3, <3>2, <3>5
    <3> QED BY <3>1, <3>6, <3>7 DEF Piece
  <2> QED BY <2>2, <2>4 DEF Piece
<1>12. ASSUME NEW r \in Proc, NEW d \in Call
       PROVE  /\ Piece(Places(Units(r), d), Due(d))'
              /\ Places(Units(r), d)' # {} => At[d] = r /\ task'[d] # "new"
  <2>0. Due(d)' = Due(d)
    BY <1>1 DEF Due
  <2>1. CASE r = p /\ d = c
    BY <1>8, <1>10, <2>1 DEF Piece
  <2>2. CASE r = p /\ d # c
    <3>1. Piece(Places(q, d), Due(d)) /\ (Places(q, d) # {} => At[d] = p /\ task[d] # "new")
      BY <1>11, <2>2 DEF UnitsOK
    <3> QED BY <1>1, <1>8, <2>0, <2>2, <3>1
  <2>3. CASE r # p
    <3>1. Units(r)' = Units(r)
      BY <1>8, <2>3
    <3> QED BY <1>1, <2>0, <3>1 DEF UnitsOK
  <2> QED BY <2>1, <2>2, <2>3
<1>13. LastOK'
  <2>1. CASE sending = None \/ ~(sent > 0)
    BY <1>1, <2>1 DEF LastOK
  <2>2. CASE sending # None /\ sent > 0
    <3>1. PICK r \in Proc, d \in Call : d = sending /\ r = At[d]
      BY <2>2, BackpressureAssumption DEF PipeTypes
    <3>2. Len(Units(r)) \in Places(Units(r), d)
      BY <2>2, <3>1 DEF LastOK
    <3>3. Len(Units(r)') \in Places(Units(r)', d)
      <4>1. CASE r # p
        BY <1>8, <3>2, <4>1
      <4>2. CASE r = p
        <5>1. (n + m) - n \in Places(q, d)
          BY <1>3, <1>6, <1>11, <3>1, <3>2, <4>2
        <5>2. (n + m) - n = m
          BY <1>3
        <5> QED BY <1>3, <1>8, <4>2, <5>1, <5>2
      <4> QED BY <4>1, <4>2
    <3> QED BY <1>1, <3>1, <3>3 DEF LastOK, Places
  <2> QED BY <2>1, <2>2
<1>14. HandOK'
  <2>1. ASSUME NEW r \in Proc, NEW i \in 1..Len(hand'[r])
        PROVE  hand'[r][i] = hand'[r][1] /\ i <= Size[hand'[r][1]]
    <3>1. r # p
      BY <1>7, <2>1
    <3>2. hand'[r] = hand[r]
      BY <1>7, <3>1
    <3> QED BY <2>1, <3>2 DEF HandOK
  <2> QED BY <2>1 DEF HandOK
<1>15. PipeTypes' /\ SendingOK'
  BY <1>1, <1>7 DEF PipeTypes, SendingOK
<1> QED BY <1>12, <1>13, <1>14, <1>15 DEF UnitsOK

\* A fresh pipe is empty; the loop is not writing to the old one.
LEMMA HungTimeoutKeeps ==
  ASSUME PipeInv, NEW c \in Call, HungTimeout(c)
  PROVE  PipeInv'
<1> USE DEF PipeInv
<1>1. PICK p \in Proc : p = At[c]
  BY BackpressureAssumption
<1>2. /\ sending = None /\ UNCHANGED <<sending, sent>>
      /\ task' = [task EXCEPT ![c] = "done"]
      /\ pipe' = [pipe EXCEPT ![p] = <<>>]
      /\ hand' = [hand EXCEPT ![p] = <<>>]
  BY <1>1 DEF HungTimeout, Waits, End, Restart
<1>3. /\ task' \in [Call -> {"new", "wait", "done"}]
      /\ \A d \in Call : task[d] # "new" => task'[d] # "new"
  BY <1>2 DEF PipeTypes
<1>4. /\ hand' \in [Proc -> Seq(Call)] /\ pipe' \in [Proc -> Seq(Call)]
      /\ hand'[p] = <<>> /\ pipe'[p] = <<>>
      /\ \A r \in Proc \ {p} : hand'[r] = hand[r] /\ pipe'[r] = pipe[r]
  BY <1>2 DEF PipeTypes
<1>5. PipeTypes' /\ SendingOK' /\ LastOK'
  BY <1>2, <1>3, <1>4 DEF PipeTypes, SendingOK, LastOK
<1>6. HandOK'
  <2>1. ASSUME NEW r \in Proc, NEW i \in 1..Len(hand'[r])
        PROVE  hand'[r][i] = hand'[r][1] /\ i <= Size[hand'[r][1]]
    <3>1. r # p
      BY <1>4, <2>1
    <3>2. hand'[r] = hand[r]
      BY <1>4, <3>1
    <3> QED BY <2>1, <3>2 DEF HandOK
  <2> QED BY <2>1 DEF HandOK
<1>7. ASSUME NEW r \in Proc, NEW d \in Call
      PROVE  /\ Piece(Places(Units(r), d), Due(d))'
             /\ Places(Units(r), d)' # {} => At[d] = r /\ task'[d] # "new"
  <2>0. Due(d)' = Due(d)
    BY <1>2 DEF Due
  <2>1. CASE r = p
    <3>1. Places(Units(p), d)' = {}
      BY <1>4 DEF Units, Places
    <3> QED BY <2>1, <3>1 DEF Piece
  <2>2. CASE r # p
    <3>1. Units(r)' = Units(r)
      BY <1>4, <2>2 DEF Units
    <3> QED BY <1>3, <2>0, <3>1 DEF UnitsOK
  <2> QED BY <2>1, <2>2
<1> QED BY <1>5, <1>6, <1>7 DEF UnitsOK

-----------------------------------------------------------------------------
LEMMA PipeInit == Init => PipeInv
<1> SUFFICES ASSUME Init PROVE PipeInv
  OBVIOUS
<1>1. PipeTypes /\ SendingOK /\ LastOK
  BY DEF Init, PipeTypes, SendingOK, LastOK
<1>2. HandOK
  BY DEF Init, HandOK
<1>3. UnitsOK
  BY DEF Init, UnitsOK, Units, Places, Piece
<1> QED BY <1>1, <1>2, <1>3 DEF PipeInv

LEMMA PipeStep == PipeInv /\ [Next]_vars => PipeInv'
<1> SUFFICES ASSUME PipeInv, [Next]_vars PROVE PipeInv'
  OBVIOUS
<1>1. ASSUME NEW c \in Call, Receive(c) \/ Cancel(c) PROVE PipeInv'
  <2>1. /\ UNCHANGED <<sending, sent, pipe, hand>>
        /\ task' = task \/ task' = [task EXCEPT ![c] = "done"]
    BY <1>1 DEF Receive, Cancel, End, taskVars, workerVars
  <2>2. task \in [Call -> {"new", "wait", "done"}]
    BY DEF PipeInv, PipeTypes
  <2> QED BY <2>1, <2>2, StillKeeps
<1>2. CASE UNCHANGED <<taskVars, pipe, hand>>
  BY <1>2, StillKeeps DEF taskVars, PipeInv, PipeTypes
<1>3. ASSUME NEW p \in Proc, Reply(p) \/ Die(p) PROVE PipeInv'
  BY <1>2, <1>3 DEF Reply, Die
<1>4. CASE UNCHANGED vars
  BY <1>2, <1>4 DEF vars, workerVars
<1> QED
  BY <1>1, <1>3, <1>4, SendKeeps, WriteKeeps, HungTimeoutKeeps, ReadKeeps, WorkKeeps
  DEF Next, Loop, Run

\* Each message lies in one piece, and whole but for the one being written.
LEMMA PiecesAreWhole == PipeInv => WholeMessages
<1> SUFFICES ASSUME PipeInv PROVE WholeMessages
  OBVIOUS
<1>1. ASSUME NEW p \in Proc, NEW u, u = Units(p), NEW c \in {u[i] : i \in DOMAIN u}
      PROVE  /\ Cardinality({i \in DOMAIN u : u[i] = c}) =
                   IF sending = c THEN sent ELSE Size[c]
             /\ \A i, j \in DOMAIN u : u[i] = c /\ u[j] = c => \A k \in i..j : u[k] = c
  <2>1. u \in Seq(Call) /\ DOMAIN u = 1..Len(u)
    <3>1. u \in Seq(Call)
      BY <1>1, UnitsType DEF PipeInv
    <3> QED BY <3>1
  <2>2. c \in Call
    BY <1>1, <2>1
  <2>3. {i \in DOMAIN u : u[i] = c} = Places(u, c) /\ Places(u, c) # {}
    BY <1>1, <2>1 DEF Places
  <2>4. PICK a \in Nat : Places(u, c) = a..(a + Due(c) - 1)
    BY <1>1, <2>2, <2>3 DEF PipeInv, UnitsOK, Piece
  <2>5. Due(c) \in Nat /\ Due(c) = IF sending = c THEN sent ELSE Size[c]
    BY <2>2, BackpressureAssumption DEF Due, PipeInv, PipeTypes
  <2>6. PICK b \in Int : b = a + Due(c) - 1
    BY <2>5
  <2>7. a <= b
    BY <2>3, <2>4, <2>6
  <2>8. Cardinality(a..b) = b - a + 1
    BY <2>7, FS_Interval
  <2>9. Cardinality(Places(u, c)) = Due(c)
    BY <2>4, <2>5, <2>6, <2>8
  <2>10. ASSUME NEW i \in Places(u, c), NEW j \in Places(u, c), NEW k \in i..j PROVE u[k] = c
    <3>1. k \in a..b
      BY <2>4, <2>6
    <3> QED BY <2>4, <2>6, <3>1 DEF Places
  <2> QED BY <2>3, <2>5, <2>9, <2>10
<1>2. ASSUME NEW p \in Proc, NEW c \in {Units(p)[i] : i \in DOMAIN Units(p)}
      PROVE  /\ Cardinality({i \in DOMAIN Units(p) : Units(p)[i] = c}) =
                   IF sending = c THEN sent ELSE Size[c]
             /\ \A i, j \in DOMAIN Units(p) :
                  Units(p)[i] = c /\ Units(p)[j] = c => \A k \in i..j : Units(p)[k] = c
  BY <1>1
<1> QED BY <1>2, Zenon DEF WholeMessages, Units

\* A worker never reads the end of a message without its beginning, whatever the
\* sizes of the messages, the room in the pipes, and the requests that are given up
\* while what they sent is on its way.
THEOREM MessagesStayWhole == Spec => []WholeMessages
BY PipeInit, PipeStep, PiecesAreWhole, PTL DEF Spec

-----------------------------------------------------------------------------
(* The loop and a worker that wait for each other (JamTakesAbandoned).  The*)
(* replies on their way are of different requests (OnceOK), all answered   *)
(* and all made before the one being written (RepliedOK); while the loop   *)
(* writes, they and the messages before it are of requests given up before *)
(* it began (OwedOK), for no two requests wait for one process (LockOK).   *)

\* The reply to c is on its way, or about to be.
Replied(p, c) == c = reply[p] \/ \E i \in 1..Len(back[p]) : back[p][i] = c

\* A unit of c is on its way to p, or held by it.
Asked(p, c) == Places(Units(p), c) # {}

ReplyTypes == back \in [Proc -> Seq(Call)] /\ reply \in [Proc -> Call \cup {None}]

OnceOK ==
  \A p \in Proc : \A i \in 1..Len(back[p]) :
    /\ back[p][i] # reply[p]
    /\ \A j \in 1..Len(back[p]) : back[p][i] = back[p][j] => i = j

\* A worker reads nothing before it has replied.
IdleOK == \A p \in Proc : reply[p] # None => hand[p] = <<>>

RepliedOK ==
  \A p \in Proc : \A c \in Call : Replied(p, c) =>
    At[c] = p /\ task[c] # "new" /\ c # sending /\ ~Asked(p, c)

LockOK ==
  /\ sending # None => task[sending] = "wait"
  /\ \A c, d \in Call : task[c] = "wait" /\ task[d] = "wait" /\ At[c] = At[d] => c = d

OwedOK ==
  /\ IsFiniteSet(owed)
  /\ \A p \in Proc : \A c \in Call :
       sending # None /\ p = At[sending] /\ c # sending /\ (Replied(p, c) \/ Asked(p, c)) =>
         c \in owed

ReplyInv == ReplyTypes /\ OnceOK /\ IdleOK /\ RepliedOK /\ LockOK /\ OwedOK

\* Where no request is made and nothing that was not asked for is answered.
LEMMA RepliesKeep ==
  ASSUME PipeInv, ReplyInv, ReplyTypes', OnceOK', IdleOK',
         UNCHANGED owed, sending' = sending \/ sending' = None,
         sending # None => task' = task,
         \A c \in Call : /\ task[c] # "new" => task'[c] # "new"
                         /\ task'[c] = "wait" => task[c] = "wait",
         \A p \in Proc : \A c \in Call :
           /\ Replied(p, c)' => Replied(p, c)
           /\ c # sending /\ Asked(p, c)' => Asked(p, c)
  PROVE  ReplyInv'
<1>1. RepliedOK'
  BY BackpressureAssumption DEF RepliedOK, ReplyInv
<1>2. LockOK'
  BY DEF LockOK, ReplyInv
<1>3. OwedOK'
  BY DEF OwedOK, ReplyInv
<1> QED BY <1>1, <1>2, <1>3 DEF ReplyInv

\* The units of a request that is not being written stay as they are.
LEMMA WriteAsks ==
  ASSUME PipeInv, NEW c \in Call, Write(c), NEW p \in Proc, NEW d \in Call \ {c}
  PROVE  Asked(p, d)' => Asked(p, d)
<1>1. PICK h \in Seq(Call), q \in Seq(Call) : h = hand[p] /\ q = pipe[p]
  BY DEF PipeInv, PipeTypes
<1>2. hand'[p] = h /\ (pipe'[p] = q \/ pipe'[p] = Append(q, c))
  BY <1>1 DEF Write, workerVars, PipeInv, PipeTypes
<1>3. h \o q \in Seq(Call) /\ h \o Append(q, c) = Append(h \o q, c)
  BY UnitLengths, WriteUnits
<1>4. Places(Append(h \o q, c), d) = Places(h \o q, d)
  BY <1>3, AppendPlaces
<1>5. Places(Units(p), d)' = Places(hand'[p] \o pipe'[p], d) /\ Places(Units(p), d) = Places(h \o q, d)
  BY <1>1 DEF Units, Places
<1>6. Places(Units(p), d)' = Places(h \o q, d)
  <2>1. CASE pipe'[p] = q
    BY <1>2, <1>5, <2>1
  <2>2. CASE pipe'[p] = Append(q, c)
    BY <1>2, <1>3, <1>4, <1>5, <2>2
  <2> QED BY <1>2, <2>1, <2>2
<1> QED BY <1>5, <1>6 DEF Asked

\* What is read stays among the units of the process.
LEMMA ReadAsks ==
  ASSUME PipeInv, NEW p \in Proc, Read(p), NEW q \in Proc, NEW d \in Call
  PROVE  (Asked(q, d)' <=> Asked(q, d))
<1>1. PICK h \in Seq(Call), u \in Seq(Call) : h = hand[p] /\ u = pipe[p] /\ u # <<>>
  BY DEF Read, PipeInv, PipeTypes
<1>2. /\ hand'[p] = Append(h, Head(u)) /\ pipe'[p] = Tail(u)
      /\ q # p => hand'[q] = hand[q] /\ pipe'[q] = pipe[q]
  BY <1>1 DEF Read, PipeInv, PipeTypes
<1>3. Append(h, Head(u)) \o Tail(u) = h \o u
  BY <1>1, ReadUnits
<1>4. Units(q)' = Units(q)
  <2>1. CASE q = p
    BY <1>1, <1>2, <1>3, <2>1 DEF Units
  <2>2. CASE q # p
    BY <1>2, <2>2 DEF Units
  <2> QED BY <2>1, <2>2
<1> QED BY <1>4 DEF Asked, Places

\* The request that is handled had its message in the process, whole, and has no
\* unit of it left there.
LEMMA WorkAsks ==
  ASSUME PipeInv, NEW p \in Proc, Work(p)
  PROVE  \E c \in Call :
           /\ reply' = [reply EXCEPT ![p] = c] /\ At[c] = p /\ c # sending
           /\ Asked(p, c) /\ ~Asked(p, c)'
           /\ \A q \in Proc : \A d \in Call : Asked(q, d)' => Asked(q, d)
<1>1. PICK h \in Seq(Call), u \in Seq(Call) : h = hand[p] /\ u = pipe[p]
  BY DEF PipeInv, PipeTypes
<1>2. /\ h # <<>> /\ Len(h) = Size[h[1]] /\ reply' = [reply EXCEPT ![p] = h[1]]
      /\ hand' = [hand EXCEPT ![p] = <<>>] /\ pipe' = pipe /\ Head(h) = h[1]
  BY <1>1 DEF Work, Whole
<1>3. PICK c \in Call :
        /\ c = h[1] /\ At[c] = p /\ Due(c) \in Nat \ {0} /\ Due(c) <= Size[c]
        /\ Places(Units(p), c) = 1..Due(c)
        /\ \A i \in 1..Len(h) : i <= Due(c)
  BY <1>1, <1>2, FrontPiece
<1>4. Len(h) \in Nat \ {0} /\ Due(c) = Len(h) /\ Size[c] = Len(h)
  <2>1. Len(h) \in Nat \ {0}
    BY <1>2
  <2>2. Len(h) <= Due(c)
    BY <1>3, <2>1
  <2> QED BY <1>2, <1>3, <2>1, <2>2
<1>5. c # sending
  BY <1>4, BackpressureAssumption DEF Due, PipeInv, SendingOK, PipeTypes
<1>6. Asked(p, c)
  <2>1. 1 \in Places(Units(p), c)
    BY <1>3
  <2> QED BY <2>1 DEF Asked
<1>7. \A d \in Call : Places(u, d) = {i \in 1..Len(u) : i + Len(h) \in Places(Units(p), d)}
  BY <1>1, DropPlaces DEF Units
<1>8. /\ hand'[p] = <<>> /\ pipe'[p] = u /\ hand'[p] \o pipe'[p] = u
      /\ \A q \in Proc \ {p} : hand'[q] = hand[q] /\ pipe'[q] = pipe[q]
  BY <1>1, <1>2 DEF PipeInv, PipeTypes
<1>9. \A d \in Call : Places(Units(p), d)' = Places(u, d)
  BY <1>8 DEF Units, Places
<1>10. ~Asked(p, c)'
  <2>1. \A i \in 1..Len(u) : i + Len(h) \notin 1..Due(c)
    BY <1>4
  <2> QED BY <1>3, <1>7, <1>9, <2>1 DEF Asked
<1>11. ASSUME NEW q \in Proc, NEW d \in Call, Asked(q, d)' PROVE Asked(q, d)
  <2>1. CASE q = p
    BY <1>7, <1>9, <1>11, <2>1 DEF Asked
  <2>2. CASE q # p
    BY <1>8, <1>11, <2>2 DEF Asked, Units, Places
  <2> QED BY <2>1, <2>2
<1> QED BY <1>2, <1>3, <1>5, <1>6, <1>10, <1>11

\* A unit of c in the pipe, or in the hands of p.
LEMMA AskedOf ==
  ASSUME PipeTypes, NEW p \in Proc, NEW c \in Call, Asked(p, c)
  PROVE  \/ \E i \in DOMAIN hand[p] : hand[p][i] = c
         \/ \E i \in DOMAIN pipe[p] : pipe[p][i] = c
<1>1. PICK h \in Seq(Call), u \in Seq(Call) : h = hand[p] /\ u = pipe[p]
  BY DEF PipeTypes
<1>2. PICK i \in 1..Len(h \o u) : (h \o u)[i] = c
  BY <1>1 DEF Asked, Places, Units
<1>3. (i \in 1..Len(h) /\ h[i] = c) \/ (i - Len(h) \in 1..Len(u) /\ u[i - Len(h)] = c)
  BY <1>2
<1> QED BY <1>1, <1>3

LEMMA FiniteRange ==
  ASSUME NEW u \in Seq(Call)
  PROVE  IsFiniteSet({u[i] : i \in DOMAIN u})
<1>1. DOMAIN u = 1..Len(u) /\ Len(u) \in Nat
  OBVIOUS
<1>2. IsFiniteSet(DOMAIN u)
  BY <1>1, FS_Interval
<1>3. u \in Surjection(DOMAIN u, {u[i] : i \in DOMAIN u})
  BY DEF Surjection
<1> QED BY <1>2, <1>3, FS_Surjection

LEMMA AbandonedFinite ==
  ASSUME PipeTypes, NEW p \in Proc
  PROVE  IsFiniteSet(Abandoned(p))
<1>1. /\ IsFiniteSet({hand[p][i] : i \in DOMAIN hand[p]})
      /\ IsFiniteSet({pipe[p][i] : i \in DOMAIN pipe[p]})
  BY FiniteRange DEF PipeTypes
<1>2. IsFiniteSet({reply[p]})
  BY FS_Singleton
<1> DEFINE all == ({hand[p][i] : i \in DOMAIN hand[p]} \cup {pipe[p][i] : i \in DOMAIN pipe[p]})
                     \cup {reply[p]}
<1>3. IsFiniteSet(all)
  BY <1>1, <1>2, FS_Union
<1>4. Abandoned(p) \subseteq all
  BY DEF Abandoned
<1> QED BY <1>3, <1>4, FS_Subset

\* The requests whose replies or messages are on their way when the loop begins to
\* write have all been given up.
LEMMA SendReplies ==
  ASSUME PipeInv, ReplyInv, NEW c \in Call, Send(c)
  PROVE  ReplyInv'
<1>1. PICK p \in Proc : p = At[c]
  BY BackpressureAssumption
<1>2. /\ sending = None /\ task[c] = "new" /\ sending' = c /\ c # None
      /\ \A d \in Call : task[d] = "wait" => At[d] # p
      /\ task' = [task EXCEPT ![c] = "wait"]
      /\ owed' = Abandoned(p) /\ back' = [back EXCEPT ![p] = <<>>]
      /\ UNCHANGED <<pipe, hand, reply>>
  BY <1>1, BackpressureAssumption DEF Send, workerVars
<1>3. /\ task'[c] = "wait" /\ \A d \in Call \ {c} : task'[d] = task[d]
      /\ \A d \in Call : task[d] \in {"new", "wait", "done"}
  BY <1>2 DEF PipeInv, PipeTypes
<1>4. /\ back' \in [Proc -> Seq(Call)] /\ back'[p] = <<>>
      /\ \A q \in Proc \ {p} : back'[q] = back[q]
  BY <1>2 DEF ReplyInv, ReplyTypes
<1>5. ReplyTypes' /\ OnceOK' /\ IdleOK'
  BY <1>2, <1>4 DEF ReplyInv, ReplyTypes, OnceOK, IdleOK
<1>6. \A q \in Proc : \A d \in Call :
        /\ Replied(q, d)' => Replied(q, d)
        /\ Asked(q, d)' <=> Asked(q, d)
        /\ Replied(p, d)' => d = reply[p]
  BY <1>2, <1>4 DEF Replied, Asked, Units, Places
<1>7. RepliedOK'
  BY <1>2, <1>3, <1>6 DEF ReplyInv, RepliedOK
<1>8. LockOK'
  BY <1>1, <1>2, <1>3 DEF ReplyInv, LockOK
<1>9. ASSUME NEW d \in Call, d # c, Replied(p, d)' \/ Asked(p, d)'
      PROVE  d \in owed'
  <2>1. At[d] = p /\ task[d] # "new"
    <3>1. CASE Replied(p, d)'
      BY <1>6, <3>1 DEF ReplyInv, RepliedOK
    <3>2. CASE Asked(p, d)'
      BY <1>6, <3>2 DEF Asked, PipeInv, UnitsOK
    <3> QED BY <1>9, <3>1, <3>2
  <2>2. task[d] = "done"
    BY <1>2, <1>3, <2>1
  <2>3. d = reply[p] \/ Asked(p, d)
    BY <1>6, <1>9
  <2>4. d \in Abandoned(p)
    BY <2>2, <2>3, AskedOf DEF Abandoned, PipeInv
  <2> QED BY <1>2, <2>4
<1>10. IsFiniteSet(owed')
  BY <1>2, AbandonedFinite DEF PipeInv
<1>11. OwedOK'
  BY <1>1, <1>2, <1>9, <1>10 DEF OwedOK
<1> QED BY <1>5, <1>7, <1>8, <1>11 DEF ReplyInv

\* The reply comes to a message that is whole, and so was not being written.
LEMMA WorkReplies ==
  ASSUME PipeInv, ReplyInv, NEW p \in Proc, Work(p)
  PROVE  ReplyInv'
<1>1. PICK c \in Call :
        /\ reply' = [reply EXCEPT ![p] = c] /\ At[c] = p /\ c # sending
        /\ Asked(p, c) /\ ~Asked(p, c)'
        /\ \A q \in Proc : \A d \in Call : Asked(q, d)' => Asked(q, d)
  BY WorkAsks
<1>2. /\ UNCHANGED <<task, sending, owed, back>> /\ hand' = [hand EXCEPT ![p] = <<>>]
      /\ reply' \in [Proc -> Call \cup {None}]
      /\ reply'[p] = c /\ \A q \in Proc \ {p} : reply'[q] = reply[q]
      /\ hand'[p] = <<>> /\ \A q \in Proc \ {p} : hand'[q] = hand[q]
  BY <1>1 DEF Work, taskVars, ReplyInv, ReplyTypes, PipeInv, PipeTypes
<1>3. ReplyTypes' /\ IdleOK'
  BY <1>2 DEF ReplyInv, ReplyTypes, IdleOK
<1>4. \A q \in Proc : \A d \in Call :
        Replied(q, d)' => Replied(q, d) \/ (q = p /\ d = c)
  BY <1>2 DEF Replied
<1>5. OnceOK'
  <2>1. \A i \in 1..Len(back[p]) : back[p][i] # c
    BY <1>1 DEF ReplyInv, RepliedOK, Replied
  <2> QED BY <1>2, <2>1 DEF ReplyInv, OnceOK
<1>6. RepliedOK'
  <2>1. task[c] # "new"
    BY <1>1 DEF PipeInv, UnitsOK, Asked
  <2> QED BY <1>1, <1>2, <1>4, <2>1 DEF ReplyInv, RepliedOK
<1>7. LockOK'
  BY <1>2 DEF ReplyInv, LockOK
<1>8. OwedOK'
  BY <1>1, <1>2, <1>4 DEF ReplyInv, OwedOK
<1> QED BY <1>3, <1>5, <1>6, <1>7, <1>8 DEF ReplyInv

LEMMA WriteReplies ==
  ASSUME PipeInv, ReplyInv, NEW c \in Call, Write(c)
  PROVE  ReplyInv'
<1>1. /\ sending = c /\ (sending' = sending \/ sending' = None)
      /\ UNCHANGED <<task, owed, back, reply, hand>>
  BY DEF Write, workerVars
<1>2. ReplyTypes' /\ OnceOK' /\ IdleOK'
  BY <1>1 DEF ReplyInv, ReplyTypes, OnceOK, IdleOK
<1>3. \A p \in Proc : \A d \in Call : Replied(p, d)' => Replied(p, d)
  BY <1>1 DEF Replied
<1>4. ASSUME NEW p \in Proc, NEW d \in Call, d # sending, Asked(p, d)' PROVE Asked(p, d)
  <2>1. d \in Call \ {c}
    BY <1>1, <1>4
  <2> QED BY <1>4, <2>1, WriteAsks
<1> QED BY <1>1, <1>2, <1>3, <1>4, RepliesKeep

LEMMA ReadReplies ==
  ASSUME PipeInv, ReplyInv, NEW p \in Proc, Read(p)
  PROVE  ReplyInv'
<1>1. /\ UNCHANGED <<task, sending, owed, back, reply>> /\ reply[p] = None
      /\ hand' = [hand EXCEPT ![p] = Append(@, Head(pipe[p]))]
  BY DEF Read, taskVars
<1>2. ReplyTypes' /\ OnceOK' /\ IdleOK'
  BY <1>1 DEF ReplyInv, ReplyTypes, OnceOK, IdleOK
<1>3. \A q \in Proc : \A d \in Call : Replied(q, d)' => Replied(q, d)
  BY <1>1 DEF Replied
<1>4. \A q \in Proc : \A d \in Call : Asked(q, d)' => Asked(q, d)
  BY ReadAsks
<1> QED BY <1>1, <1>2, <1>3, <1>4, RepliesKeep

\* The reply goes to the end of the pipe; it is the same requests that are answered.
LEMMA ReplyReplies ==
  ASSUME PipeInv, ReplyInv, NEW p \in Proc, Reply(p)
  PROVE  ReplyInv'
<1>1. PICK b \in Seq(Call), c \in Call : b = back[p] /\ c = reply[p] /\ c # None
  BY BackpressureAssumption DEF Reply, ReplyInv, ReplyTypes
<1>2. /\ UNCHANGED <<task, sending, owed, pipe, hand>>
      /\ back' = [back EXCEPT ![p] = Append(b, c)] /\ reply' = [reply EXCEPT ![p] = None]
  BY <1>1 DEF Reply, taskVars
<1>3. /\ back' \in [Proc -> Seq(Call)] /\ reply' \in [Proc -> Call \cup {None}]
      /\ back'[p] = Append(b, c) /\ reply'[p] = None
      /\ \A q \in Proc \ {p} : back'[q] = back[q] /\ reply'[q] = reply[q]
  BY <1>1, <1>2 DEF ReplyInv, ReplyTypes
<1>4. /\ Len(Append(b, c)) = Len(b) + 1 /\ Len(b) \in Nat /\ Append(b, c)[Len(b) + 1] = c
      /\ \A i \in 1..Len(b) : Append(b, c)[i] = b[i]
  OBVIOUS
<1>5. ASSUME NEW i \in 1..(Len(b) + 1)
      PROVE  /\ Append(b, c)[i] \in Call /\ Append(b, c)[i] # None
             /\ \A j \in 1..(Len(b) + 1) : Append(b, c)[i] = Append(b, c)[j] => i = j
  <2>1. \A k \in 1..Len(b) : b[k] # c /\ \A j \in 1..Len(b) : b[k] = b[j] => k = j
    BY <1>1 DEF ReplyInv, OnceOK
  <2>2. \A k \in 1..(Len(b) + 1) : k \in 1..Len(b) \/ k = Len(b) + 1
    BY <1>4
  <2>3. Append(b, c)[i] \in Call
    BY <1>4
  <2>4. ASSUME NEW j \in 1..(Len(b) + 1), Append(b, c)[i] = Append(b, c)[j] PROVE i = j
    <3>1. CASE i \in 1..Len(b) /\ j \in 1..Len(b)
      BY <1>4, <2>1, <2>4, <3>1
    <3>2. CASE i = Len(b) + 1 \/ j = Len(b) + 1
      BY <1>4, <2>1, <2>2, <2>4, <3>2
    <3> QED BY <2>2, <3>1, <3>2
  <2> QED BY <2>3, <2>4, BackpressureAssumption
<1>6. ReplyTypes' /\ IdleOK'
  BY <1>2, <1>3 DEF ReplyInv, ReplyTypes, IdleOK
<1>7. OnceOK'
  <2>1. ASSUME NEW q \in Proc, q # p, NEW i \in 1..Len(back'[q])
        PROVE  /\ back'[q][i] # reply'[q]
               /\ \A j \in 1..Len(back'[q]) : back'[q][i] = back'[q][j] => i = j
    BY <1>3, <2>1 DEF ReplyInv, OnceOK
  <2>2. \A i \in 1..Len(back'[p]) :
          /\ back'[p][i] # reply'[p]
          /\ \A j \in 1..Len(back'[p]) : back'[p][i] = back'[p][j] => i = j
    BY <1>3, <1>4, <1>5
  <2> QED BY <2>1, <2>2 DEF OnceOK
<1>8. \A q \in Proc : \A d \in Call : Replied(q, d)' => Replied(q, d)
  <2>1. ASSUME NEW d \in Call, Replied(p, d)' PROVE Replied(p, d)
    <3>1. PICK i \in 1..(Len(b) + 1) : Append(b, c)[i] = d
      BY <1>3, <1>4, <2>1, BackpressureAssumption DEF Replied
    <3>2. CASE i = Len(b) + 1
      BY <1>1, <1>4, <3>1, <3>2 DEF Replied
    <3>3. CASE i # Len(b) + 1
      BY <1>1, <1>4, <3>1, <3>3 DEF Replied
    <3> QED BY <3>2, <3>3
  <2> QED BY <1>3, <2>1 DEF Replied
<1>9. \A q \in Proc : \A d \in Call : Asked(q, d)' => Asked(q, d)
  BY <1>2 DEF Asked, Units, Places
<1> QED BY <1>2, <1>6, <1>7, <1>8, <1>9, RepliesKeep

\* The first reply is taken from the pipe.
LEMMA ReceiveReplies ==
  ASSUME PipeInv, ReplyInv, NEW c \in Call, Receive(c)
  PROVE  ReplyInv'
<1>1. PICK p \in Proc : p = At[c]
  BY BackpressureAssumption
<1>2. PICK b \in Seq(Call) : b = back[p] /\ b # <<>>
  BY <1>1 DEF Receive, ReplyInv, ReplyTypes
<1>3. /\ UNCHANGED <<sending, owed, pipe, hand, reply>> /\ sending = None
      /\ back' = [back EXCEPT ![p] = Tail(b)]
      /\ task' = task \/ task' = [task EXCEPT ![c] = "done"]
  BY <1>1, <1>2 DEF Receive, Waits, End, taskVars, workerVars
<1>4. /\ back' \in [Proc -> Seq(Call)] /\ back'[p] = Tail(b)
      /\ \A q \in Proc \ {p} : back'[q] = back[q]
  BY <1>2, <1>3 DEF ReplyInv, ReplyTypes
<1>5. /\ \A i \in 1..Len(Tail(b)) : i + 1 \in 1..Len(b) /\ Tail(b)[i] = b[i + 1]
      /\ \A i, j \in 1..Len(Tail(b)) : i + 1 = j + 1 => i = j
  BY <1>2
<1>6. ReplyTypes' /\ IdleOK'
  BY <1>3, <1>4 DEF ReplyInv, ReplyTypes, IdleOK
<1>7. OnceOK'
  BY <1>2, <1>3, <1>4, <1>5 DEF ReplyInv, OnceOK
<1>8. \A q \in Proc : \A d \in Call : Replied(q, d)' => Replied(q, d)
  BY <1>2, <1>3, <1>4, <1>5 DEF Replied
<1>9. \A q \in Proc : \A d \in Call : Asked(q, d)' => Asked(q, d)
  BY <1>3 DEF Asked, Units, Places
<1>10. \A d \in Call : /\ task[d] # "new" => task'[d] # "new"
                       /\ task'[d] = "wait" => task[d] = "wait"
  BY <1>3 DEF PipeInv, PipeTypes
<1> QED BY <1>3, <1>6, <1>7, <1>8, <1>9, <1>10, RepliesKeep

\* Nothing is left of the pipes of a process that is replaced.
LEMMA HungTimeoutReplies ==
  ASSUME PipeInv, ReplyInv, NEW c \in Call, HungTimeout(c)
  PROVE  ReplyInv'
<1>1. PICK p \in Proc : p = At[c]
  BY BackpressureAssumption
<1>2. /\ sending = None /\ UNCHANGED <<sending, owed>>
      /\ task' = [task EXCEPT ![c] = "done"]
      /\ pipe' = [pipe EXCEPT ![p] = <<>>] /\ hand' = [hand EXCEPT ![p] = <<>>]
      /\ back' = [back EXCEPT ![p] = <<>>] /\ reply' = [reply EXCEPT ![p] = None]
  BY <1>1 DEF HungTimeout, Waits, End, Restart
<1>3. /\ back' \in [Proc -> Seq(Call)] /\ reply' \in [Proc -> Call \cup {None}]
      /\ back'[p] = <<>> /\ reply'[p] = None /\ hand'[p] = <<>> /\ pipe'[p] = <<>>
      /\ \A q \in Proc \ {p} : /\ back'[q] = back[q] /\ reply'[q] = reply[q]
                               /\ hand'[q] = hand[q] /\ pipe'[q] = pipe[q]
  BY <1>2 DEF ReplyInv, ReplyTypes, PipeInv, PipeTypes
<1>4. ReplyTypes' /\ IdleOK'
  BY <1>3 DEF ReplyInv, ReplyTypes, IdleOK
<1>5. OnceOK'
  <2>1. Len(back'[p]) = 0 /\ 1..0 = {}
    BY <1>3
  <2>2. ASSUME NEW q \in Proc, NEW i \in 1..Len(back'[q])
        PROVE  /\ back'[q][i] # reply'[q]
               /\ \A j \in 1..Len(back'[q]) : back'[q][i] = back'[q][j] => i = j
    <3>1. q # p
      BY <2>1, <2>2
    <3>2. back'[q] = back[q] /\ reply'[q] = reply[q]
      BY <1>3, <3>1
    <3> QED BY <2>2, <3>2 DEF ReplyInv, OnceOK
  <2> QED BY <2>2 DEF OnceOK
<1>6. ASSUME NEW q \in Proc, NEW d \in Call, Replied(q, d)' PROVE Replied(q, d)
  <2>1. CASE q = p
    <3>1. d # None /\ Len(back'[p]) = 0 /\ 1..0 = {}
      BY <1>3, BackpressureAssumption
    <3> QED BY <1>3, <1>6, <2>1, <3>1 DEF Replied
  <2>2. CASE q # p
    BY <1>3, <1>6, <2>2 DEF Replied
  <2> QED BY <2>1, <2>2
<1>7. \A q \in Proc : \A d \in Call : Asked(q, d)' => Asked(q, d)
  <2>1. \A d \in Call : ~Asked(p, d)'
    BY <1>3 DEF Asked, Units, Places
  <2>2. \A q \in Proc \ {p} : \A d \in Call : (Asked(q, d)' <=> Asked(q, d))
    BY <1>3 DEF Asked, Units, Places
  <2> QED BY <2>1, <2>2
<1>8. \A d \in Call : /\ task[d] # "new" => task'[d] # "new"
                      /\ task'[d] = "wait" => task[d] = "wait"
  BY <1>2 DEF PipeInv, PipeTypes
<1> QED BY <1>2, <1>4, <1>5, <1>6, <1>7, <1>8, RepliesKeep

\* A cancellation, a death, and a step of nobody move no message.
LEMMA StillReplies ==
  ASSUME PipeInv, ReplyInv, UNCHANGED <<sending, owed, pipe, hand, reply, back>>,
         task' = task \/ (sending = None /\ \E c \in Call : task' = [task EXCEPT ![c] = "done"])
  PROVE  ReplyInv'
<1>1. ReplyTypes' /\ OnceOK' /\ IdleOK'
  BY DEF ReplyInv, ReplyTypes, OnceOK, IdleOK
<1>2. \A q \in Proc : \A d \in Call :
        (Replied(q, d)' <=> Replied(q, d)) /\ (Asked(q, d)' <=> Asked(q, d))
  BY DEF Replied, Asked, Units, Places
<1>3. \A d \in Call : /\ task[d] # "new" => task'[d] # "new"
                      /\ task'[d] = "wait" => task[d] = "wait"
  BY DEF PipeInv, PipeTypes
<1> QED BY <1>1, <1>2, <1>3, RepliesKeep

LEMMA ReplyInit == Init => ReplyInv
<1> SUFFICES ASSUME Init PROVE ReplyInv
  OBVIOUS
<1>1. ReplyTypes /\ OnceOK /\ IdleOK /\ RepliedOK /\ LockOK
  BY BackpressureAssumption
  DEF Init, ReplyTypes, OnceOK, IdleOK, RepliedOK, LockOK, Replied, Asked, Units, Places
<1>2. OwedOK
  BY FS_EmptySet DEF Init, OwedOK
<1> QED BY <1>1, <1>2 DEF ReplyInv

LEMMA ReplyStep == PipeInv /\ ReplyInv /\ [Next]_vars => ReplyInv'
<1> SUFFICES ASSUME PipeInv, ReplyInv, [Next]_vars PROVE ReplyInv'
  OBVIOUS
<1>1. ASSUME NEW c \in Call, Cancel(c) PROVE ReplyInv'
  BY <1>1, StillReplies DEF Cancel, Waits, End, workerVars
<1>2. ASSUME NEW p \in Proc, Die(p) PROVE ReplyInv'
  BY <1>2, StillReplies DEF Die, taskVars
<1>3. CASE UNCHANGED vars
  BY <1>3, StillReplies DEF vars, taskVars, workerVars
<1> QED
  BY <1>1, <1>2, <1>3, SendReplies, WriteReplies, ReceiveReplies, HungTimeoutReplies,
     ReadReplies, WorkReplies, ReplyReplies
  DEF Next, Loop, Run

\* The replies of a worker that is stuck are of Room + 1 different requests.
LEMMA JamIsOwed == PipeInv /\ ReplyInv => JamTakesAbandoned
<1> SUFFICES ASSUME PipeInv, ReplyInv, sending # None, Jammed(At[sending])
             PROVE  Cardinality(owed) > Room
  BY DEF JamTakesAbandoned
<1>1. PICK p \in Proc : p = At[sending]
  BY BackpressureAssumption DEF PipeInv, PipeTypes
<1>2. PICK b \in Seq(Call), c \in Call : b = back[p] /\ c = reply[p]
  BY <1>1 DEF Jammed, ReplyInv, ReplyTypes
<1>3. Len(b) = Room /\ Room \in Nat
  BY <1>1, <1>2, BackpressureAssumption DEF Jammed
<1>4. \A i \in 1..Room : /\ b[i] \in Call /\ b[i] # c
                         /\ \A j \in 1..Room : b[i] = b[j] => i = j
  BY <1>2, <1>3 DEF ReplyInv, OnceOK
<1>5. c \in owed /\ \A i \in 1..Room : b[i] \in owed
  <2>1. Replied(p, c) /\ \A i \in 1..Room : Replied(p, b[i])
    BY <1>2, <1>3 DEF Replied
  <2>2. \A d \in Call : Replied(p, d) => d \in owed
    BY <1>1 DEF ReplyInv, OwedOK, RepliedOK
  <2> QED BY <1>4, <2>1, <2>2
<1> DEFINE f == [i \in 1..(Room + 1) |-> IF i = Room + 1 THEN c ELSE b[i]]
<1>6. \A i \in 1..(Room + 1) : i = Room + 1 \/ i \in 1..Room
  BY <1>3
<1>7. f \in Injection(1..(Room + 1), owed)
  <2>1. f \in [1..(Room + 1) -> owed]
    BY <1>5, <1>6
  <2>2. \A i, j \in 1..(Room + 1) : f[i] = f[j] => i = j
    BY <1>4, <1>6
  <2> QED BY <2>1, <2>2 DEF Injection, IsInjective
<1>8. IsFiniteSet(owed)
  BY DEF ReplyInv, OwedOK
<1>9. Cardinality(1..(Room + 1)) = Room + 1
  BY <1>3, FS_Interval
<1> HIDE DEF f
<1>10. Cardinality(1..(Room + 1)) <= Cardinality(owed)
  BY <1>7, <1>8, FS_Injection
<1> QED BY <1>3, <1>8, <1>9, <1>10, FS_CardinalityType

\* Only a process that owes more replies than a pipe holds, all to requests that were
\* given up, can keep the event loop waiting for ever while it lives, whatever the
\* sizes of the messages and the room in the pipes.
THEOREM JamsTakeAbandoned == Spec => []JamTakesAbandoned
BY PipeInit, PipeStep, ReplyInit, ReplyStep, JamIsOwed, PTL DEF Spec

=============================================================================
