--------------------------- MODULE MCGraphExecutor ---------------------------
(* A cycle a -> b -> a with a router on b; commands and sends may fan out, *)
(* end a branch, or name the start node, which no plan can run.            *)
EXTENDS GraphExecutor

CONSTANTS a, b

Edges == [n \in Node \cup {START} |->
             CASE n = START -> <<a, b>> [] n = a -> <<b>> [] OTHER -> <<>>]
Routes == {<<a>>, <<END>>}
Gotos == {<<>>, <<a, b>>, <<START>>}
NestedEdges == [n \in Node \cup {START} |-> IF n = b THEN <<END>> ELSE IF n = a THEN <<b>> ELSE <<a>>]
=============================================================================
