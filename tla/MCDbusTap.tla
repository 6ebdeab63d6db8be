------------------------------ MODULE MCDbusTap ------------------------------
(* DbusTap with one connection that carries several writes each way, or     *)
(* with two connections of which one bus and one client write.              *)
EXTENDS DbusTap

CONSTANTS c1, c2

MCPlans ==
  { [e \in {c1} \X {"client", "bus"} |-> IF e[2] = "bus" THEN 3 ELSE 1],
    [e \in Ends |-> IF e \in {<<c1, "bus">>, <<c2, "client">>} THEN 1 ELSE 0] }
=============================================================================
