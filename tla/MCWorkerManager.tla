-------------------------- MODULE MCWorkerManager ---------------------------
(***************************************************************************)
(* Small pools for TLC.  A call is named for what it is: i, d and k are the*)
(* init, data and clear requests of a session (1 or 2), g a grayscale      *)
(* request.  One MC_Call_* set per question, each with the faults its cfg  *)
(* allows.                                                                 *)
(***************************************************************************)
EXTENDS WorkerManager

MC_Session == {"s1", "s2"}

MC_Type == [c \in Call |->
  CASE c \in {"i1", "j1", "i2"} -> "init_session"
    [] c = "k1"                 -> "clear"
    [] OTHER                    -> "data"]

MC_SessionOf == [c \in Call |->
  CASE c \in {"i1", "j1", "d1", "e1", "k1"} -> "s1"
    [] c \in {"i2", "d2"}                   -> "s2"
    [] OTHER                                -> None]

\* A sum with two images in flight, beside requests without session.
MC_Call_Summary == {"i1", "d1", "e1", "k1", "g1", "g2"}

\* Two heatmaps that share a process; two requests open the first one.
MC_Call_Heatmap == {"i1", "j1", "d1", "e1", "k1", "i2", "d2"}

\* A sum and two grayscale requests with nothing going wrong.
MC_Call_Calm == {"i1", "d1", "e1", "k1", "g1", "g2"}

\* An open sum and two grayscale requests on a process that may die.
MC_Call_Mortal == {"i1", "d1", "e1", "g1", "g2"}

\* Two grayscale requests.
MC_Call_Plain == {"g1", "g2"}

\* A grayscale request beside a session.
MC_Call_Mixed == {"i1", "d1", "e1", "g1"}
=============================================================================
