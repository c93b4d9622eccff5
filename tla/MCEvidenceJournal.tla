------------------------- MODULE MCEvidenceJournal -------------------------
(* Three nonces: two leaves in one batch and a row beyond it.  Two announced *)
(* roots: a caller may announce the root the session already stands at.     *)
EXTENDS EvidenceJournal

MCSpan == {<<1, 1>>, <<2, 3>>}
=============================================================================
