------------------------- MODULE MCPipeBackpressure -------------------------
(***************************************************************************)
(* Requests of two sizes for TLC: a small one leaves room in a pipe of two *)
(* units, a large one never fits it.                                       *)
(***************************************************************************)
EXTENDS PipeBackpressure

MC_Small == {"a", "b", "c"}

MC_Call == MC_Small \cup {"x", "y"}

MC_Size == [c \in MC_Call |-> IF c \in MC_Small THEN 1 ELSE 3]

\* One large request goes to a process of its own.
MC_At == [c \in MC_Call |-> IF c = "y" THEN 2 ELSE 1]

=============================================================================
