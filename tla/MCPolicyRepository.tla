------------------------- MODULE MCPolicyRepository ------------------------
(* Every file of up to three policies with two numbers, which may repeat,  *)
(* and two holders, one of them spelled in two ways.                       *)
EXTENDS PolicyRepository

MCNumbers == {"POL-00001", "POL-00002", "POL-99999"}
MCNames   == {"Alex Chen", "alex chen", "Morgan Diaz"}
MCLowered == [name \in MCNames |-> IF name = "Morgan Diaz" THEN "morgan diaz" ELSE "alex chen"]
MCFiles   == UNION {[1..n -> [number : MCNumbers \ {"POL-99999"}, name : MCNames]] : n \in 0..3}
=============================================================================
