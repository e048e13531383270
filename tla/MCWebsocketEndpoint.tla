------------------------ MODULE MCWebsocketEndpoint -------------------------
(***************************************************************************)
(* Three clients for TLC.  The first holds one of several conversations,   *)
(* with two flows, a frame out of place, or an end it never reaches; the   *)
(* others only connect.  Beside them a request without a session, x, may   *)
(* take the process of any session down.                                   *)
(***************************************************************************)
EXTENDS WebsocketEndpoint

MC_Call == {"i1", "d1", "e1", "k1", "i2", "k2", "x"}

MC_Session == {"s1", "s2"}

MC_Type == [c \in MC_Call |->
  CASE c \in {"i1", "i2"} -> "init_session"
    [] c \in {"k1", "k2"} -> "clear"
    [] OTHER              -> "data"]

MC_SessionOf == [c \in MC_Call |->
  CASE c \in {"i1", "d1", "e1", "k1"} -> "s1"
    [] c \in {"i2", "k2"}             -> "s2"
    [] OTHER                          -> None]

MC_FlowSession == [n \in {"n1", "n2", "n3"} |->
  IF n = "n1" THEN <<"s1", "s2">> ELSE <<>>]

MC_Scripts == [n \in {"n1", "n2", "n3"} |->
  IF n = "n1" THEN {<<"open", "image", "image", "stop">>,
                    <<"open", "stop", "open">>,
                    <<"open", "text">>}
              ELSE {<<>>}]

MC_Durations == [n \in {"n1", "n2", "n3"} |-> IF n = "n2" THEN {1} ELSE {3}]

=============================================================================
