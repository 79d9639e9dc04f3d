------------------------ MODULE MCExecutionAdmission ------------------------
(* Small instances of ExecutionAdmission for TLC. *)
EXTENDS ExecutionAdmission, TLC

CONSTANTS h1, h2, h3, h4, b1, b2

MCClassOf ==
    [c \in Calls |-> IF c \in {b1, b2} THEN "background" ELSE "interactive_heavy"]

\* A slot of its own for each class, as in the default policy, and one shared slot.
OneEach == [x \in Classes |-> 1]
=============================================================================
