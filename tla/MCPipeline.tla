----------------------------- MODULE MCPipeline -----------------------------
(***************************************************************************)
(* Instances of Pipeline: a block and its child; two siblings and a child.  *)
(***************************************************************************)
EXTENDS Pipeline

CONSTANTS A1, B1, A2

\* A block and its child.
Line == {A1, A2}
LineParent == [b \in Line |-> IF b = A1 THEN Genesis ELSE A1]
LineNumber == [b \in Line \cup {Genesis} |-> CASE b = Genesis -> 0 [] b = A1 -> 1 [] b = A2 -> 2]

\* Two siblings, the first with a child.
Fork == {A1, B1, A2}
ForkParent == [b \in Fork |-> IF b = A2 THEN A1 ELSE Genesis]
ForkNumber == [b \in Fork \cup {Genesis} |-> CASE b = Genesis -> 0 [] b = A2 -> 2 [] OTHER -> 1]

=============================================================================
