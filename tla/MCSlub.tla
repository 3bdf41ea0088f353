------------------------------- MODULE MCSlub -------------------------------
(* Slub with contexts written <<CPU, level>>. *)
EXTENDS Slub

Nested == {<<0, 0>>, <<0, 1>>, <<1, 0>>}
Nested3 == {<<0, 0>>, <<0, 1>>, <<0, 2>>}
MCCpu == [x \in Ctx |-> x[1]]
MCLevel == [x \in Ctx |-> x[2]]
MCObjects == [p \in Pages |-> IF p = "big" THEN 3 ELSE 1]
MCBoot == <<0, 0>>
=============================================================================
