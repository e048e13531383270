----------------------------- MODULE MCShutdown -----------------------------
(***************************************************************************)
(* A small pool for TLC that is stopped at any moment: a summary session   *)
(* from its init to its clear, beside requests without a session.          *)
(***************************************************************************)
EXTENDS Shutdown

MC_Call == {"i1", "d1", "e1", "k1", "g1", "g2"}

MC_Session == {"s1"}

MC_Type == [c \in MC_Call |->
  CASE c = "i1" -> "init_session" [] c = "k1" -> "clear" [] OTHER -> "data"]

MC_SessionOf == [c \in MC_Call |-> IF c \in {"g1", "g2"} THEN None ELSE "s1"]

=============================================================================
