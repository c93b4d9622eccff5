---------------------------- MODULE MCMediation ----------------------------
(* One event span suffices here: spans only take part in the comparison of  *)
(* a receipt with its reservation, which the journal's own run varies.     *)
EXTENDS Mediation

MCSpan == {<<1, 2>>}
=============================================================================
