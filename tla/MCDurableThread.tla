--------------------------- MODULE MCDurableThread ---------------------------
(* Three nodes.  One that interrupts, or two in a row; one worker that may *)
(* stop anywhere, or two that save at the same time.                       *)
EXTENDS DurableThread
=============================================================================
