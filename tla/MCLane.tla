------------------------------- MODULE MCLane -------------------------------
(* Two arenas, so that an event of one can stand before events of the other *)
(* in the window; a window that fills; three sequence numbers in batches of *)
(* one or two, so that it is compacted and used again, and a refused batch  *)
(* is followed by one that succeeds behind it.                              *)
EXTENDS Roundtrip
=============================================================================
