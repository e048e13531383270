------------------------ MODULE MCImageAccumulation -------------------------
(***************************************************************************)
(* Images of a few pixels for TLC: of the declared shape, smaller, larger  *)
(* and transposed, with sums below, at and above the largest byte.         *)
(***************************************************************************)
EXTENDS ImageAccumulation

MC_Height == [i \in Image |-> CASE i = "wide" -> 1 [] i = "tall" -> 3 [] OTHER -> 2]
MC_Width  == [i \in Image |-> CASE i = "wide" -> 3 [] i = "tall" -> 1 [] OTHER -> 3]

MC_Pixel ==
  [i \in Image |->
     [rc \in (1..MC_Height[i]) \X (1..MC_Width[i]) |->
        CASE i = "flat" -> 1
          [] i = "wide" -> rc[2] - 1
          [] i = "tall" -> 3
          [] OTHER      -> (rc[1] + rc[2]) % 4]]

MC_Shape == {[height |-> 2, width |-> 3], [height |-> 3, width |-> 2],
             [height |-> 1, width |-> 1]}

=============================================================================
