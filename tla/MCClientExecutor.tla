--------------------------- MODULE MCClientExecutor ---------------------------
(* ClientExecutor on every plan of up to three steps, of every scope, gate    *)
(* flag and backward dependencies, and on chains of four steps.               *)
EXTENDS ClientExecutor

MCStepIds == {"step"}

StepAt(i) == [id : MCStepIds, scope : Scopes, gate : BOOLEAN, deps : SUBSET (1..(i - 1))]

(* A chain begins with a plain remote step; each other step depends on the    *)
(* one before it, or on the one before that.                                  *)
ChainStart == [id : MCStepIds, scope : {"remote"}, gate : {FALSE}, deps : {{}}]

ChainStepAt(i) ==
  [id : MCStepIds, scope : {"remote", "local"}, gate : BOOLEAN,
   deps : {{d} : d \in {i - 1, i - 2} \ {0}}]

MCPlans ==
  {<<>>}
    \cup {<<a>> : a \in StepAt(1)}
    \cup {<<a, b>> : a \in StepAt(1), b \in StepAt(2)}
    \cup {<<a, b, c>> : a \in StepAt(1), b \in StepAt(2), c \in StepAt(3)}
    \cup {<<a, b, c, d>> : a \in ChainStart, b \in ChainStepAt(2),
                           c \in ChainStepAt(3), d \in ChainStepAt(4)}
=============================================================================
