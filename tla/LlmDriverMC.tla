------------------------------ MODULE LlmDriverMC ------------------------------
(* A small instance of LlmDriver: prompts of at most three messages, over the   *)
(* text a user sends and the text the model writes.                             *)
EXTENDS LlmDriver

CONSTANTS a, r
DriverMessages == {a, r}
DriverPrompts == UNION {[1 .. n -> DriverMessages] : n \in 1 .. 3}

================================================================================
