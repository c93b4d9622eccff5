-------------------------- MODULE MediationProofs --------------------------
(***************************************************************************)
(* Proofs about mediated execution, for any set of kernels, any number of  *)
(* tokens and losses, and hosts that reconcile or not.  The journal's own  *)
(* inductive invariant carries over: every step of a kernel is one of the  *)
(* journal's transactions, or leaves the journal alone.                    *)
(***************************************************************************)
EXTENDS Mediation, FiniteSetTheorems, TLAPS

(* The journal's theorems, about the journal the kernels share.            *)
P == INSTANCE EvidenceJournalProofs

(* What the journal assumes of its constants is assumed here too.         *)
LEMMA JournalAssumption == P!SpanAssumption
BY MediationAssumption DEF P!SpanAssumption

-----------------------------------------------------------------------------
(* Finite sets are the same seen through either instance.                  *)
LEMMA SameFiniteSets ==
    \A S : J!Cardinality(S) = P!Cardinality(S) /\ J!IsFiniteSet(S) = P!IsFiniteSet(S)
<1>1. \A S : J!Cardinality(S) = P!Cardinality(S)
  BY DEF J!Cardinality, P!Cardinality
<1>2. \A S : J!IsFiniteSet(S) = P!IsFiniteSet(S)
  BY DEF J!IsFiniteSet, P!IsFiniteSet
<1>. QED  BY <1>1, <1>2

(* The transactions the kernels call are the ones the journal's lemmas are *)
(* about: both are EvidenceJournal's, instantiated with the same variables. *)

(* reserve, through either instance.                                      *)
LEMMA SameReserve == \A seq, r : J!reserve(seq, r) = P!reserve(seq, r)
BY DEF J!reserve, P!reserve, J!reservation_matches, P!reservation_matches,
       J!journal, P!journal, J!InState, P!InState,
       J!next_reservation_sequence, P!next_reservation_sequence,
       J!NextKey, P!NextKey, J!FreshNonce, P!FreshNonce,
       J!InsertReservation, P!InsertReservation, J!Insert, P!Insert

(* append, through either instance.                                       *)
LEMMA SameAppend == \A seq, r : J!append(seq, r) = P!append(seq, r)
BY DEF J!append, P!append, J!append_accepts, P!append_accepts,
       J!reservation_matches, P!reservation_matches, J!FreshNonce, P!FreshNonce,
       J!Insert, P!Insert, J!SetState, P!SetState, J!valid_receipt, P!valid_receipt,
       J!Outcome, P!Outcome, J!assert_reserved, P!assert_reserved,
       J!assert_extends, P!assert_extends

(* What is staged, through either instance.                               *)
LEMMA SameStaged ==
    /\ J!StagedLeaves = P!StagedLeaves
    /\ J!staged_count = P!staged_count
    /\ J!staged_rows = P!staged_rows
    /\ J!staged_digests = P!staged_digests
    /\ J!next_batch_id = P!next_batch_id
    /\ \A st : J!InState(st) = P!InState(st)
<1>1. J!StagedLeaves = P!StagedLeaves
  BY DEF J!StagedLeaves, P!StagedLeaves
<1>2. J!staged_count = P!staged_count
  BY <1>1, SameFiniteSets DEF J!staged_count, P!staged_count
<1>3. J!staged_rows = P!staged_rows
  BY <1>1, <1>2 DEF J!staged_rows, P!staged_rows
<1>4. J!staged_digests = P!staged_digests
  BY <1>3 DEF J!staged_digests, P!staged_digests
<1>5. J!next_batch_id = P!next_batch_id
  BY DEF J!next_batch_id, P!next_batch_id, J!NextKey, P!NextKey
<1>6. \A st : J!InState(st) = P!InState(st)
  BY DEF J!InState, P!InState
<1>. QED  BY <1>1, <1>2, <1>3, <1>4, <1>5, <1>6

(* stage_batched, through either instance.                                *)
LEMMA SameStage == \A seq, r : J!stage_batched(seq, r) = P!stage_batched(seq, r)
BY SameStaged
   DEF J!stage_batched, P!stage_batched, J!stage_accepts, P!stage_accepts,
       J!reservation_matches, P!reservation_matches, J!FreshNonce, P!FreshNonce,
       J!Insert, P!Insert, J!SetState, P!SetState, J!valid_receipt, P!valid_receipt,
       J!Outcome, P!Outcome, J!assert_reserved, P!assert_reserved,
       J!batched_evidence_leaf, P!batched_evidence_leaf

(* flush_batched, through either instance.                                *)
LEMMA SameFlush == \A d : J!flush_batched(d) = P!flush_batched(d)
BY SameStaged DEF J!flush_batched, P!flush_batched, J!Insert, P!Insert,
       J!SetState, P!SetState, J!batch_execution_root, P!batch_execution_root

(* The journal's properties, through either instance.                     *)
LEMMA SameProperties ==
    P!LedgerOrder /\ P!ReceiptsBound /\ P!LeafOrder /\ P!RootChain /\ P!BatchRanges
        => JournalIntact
<1>. SUFFICES ASSUME P!LedgerOrder, P!ReceiptsBound, P!LeafOrder, P!RootChain, P!BatchRanges
              PROVE  JournalIntact
  OBVIOUS
<1>1. J!LedgerOrder
  BY SameStaged DEF J!LedgerOrder, P!LedgerOrder
<1>2. J!ReceiptsBound
  BY SameStaged DEF J!ReceiptsBound, P!ReceiptsBound, J!reservation_matches, P!reservation_matches
<1>3. J!LeafOrder
  BY SameStaged DEF J!LeafOrder, P!LeafOrder
<1>4. J!RootChain
  BY SameStaged DEF J!RootChain, P!RootChain, J!RootAfter, P!RootAfter, J!ClosesBatch, P!ClosesBatch
<1>5. J!BatchRanges
  BY SameStaged, SameFiniteSets DEF J!BatchRanges, P!BatchRanges
<1>. QED  BY <1>1, <1>2, <1>3, <1>4, <1>5 DEF JournalIntact

-----------------------------------------------------------------------------
(* Before any kernel was opened the journal is empty.                     *)
LEMMA InitJournal == Init => P!IInv
<1>1. J!Init => P!Init
  BY DEF J!Init, P!Init, J!Empty, P!Empty
<1>. QED  BY <1>1, JournalAssumption, P!InitIInv DEF Init

(* Every step of a kernel is a transaction of the journal or none.        *)
LEMMA StepJournal == P!IInv /\ [Next]_vars => P!IInv'
<1>. SUFFICES ASSUME P!IInv, [Next]_vars PROVE P!IInv'
  OBVIOUS
<1>1. ASSUME UNCHANGED journal PROVE P!IInv'
  <2>1. UNCHANGED P!journal
    BY <1>1 DEF journal, P!journal
  <2>. QED  BY <2>1, JournalAssumption, P!UnchangedIInv
<1>2. ASSUME NEW k \in Kernel, strict_mediate(k) PROVE P!IInv'
  <2>1. PICK nonce \in Nonce, span \in Span, semantic \in SemanticRoot :
            J!reserve(kernel[k].seq + 1,
                [nonce |-> nonce, span |-> span, semantic |-> semantic,
                 before |-> kernel[k].root])
    BY <1>2 DEF strict_mediate
  <2>. DEFINE r == [nonce |-> nonce, span |-> span, semantic |-> semantic,
                    before |-> kernel[k].root]
  <2>2. P!reserve(kernel[k].seq + 1, r)
    BY <2>1, SameReserve
  <2>3. r.nonce \in Nonce /\ r.span \in Span /\ r.semantic \in SemanticRoot
    OBVIOUS
  <2>. HIDE DEF r
  <2>. QED  BY <2>2, <2>3, JournalAssumption, P!ReserveIInv
<1>3. ASSUME NEW k \in Kernel, finalize(k) PROVE P!IInv'
  <2>1. PICK c \in CommittedRoot :
            IF SinkReceipt(k, c).outcome = "buffered"
            THEN J!stage_batched(kernel[k].seq + 1, SinkReceipt(k, c))
            ELSE J!append(kernel[k].seq + 1, SinkReceipt(k, c))
    BY <1>3 DEF finalize
  <2>2. CASE P!stage_batched(kernel[k].seq + 1, SinkReceipt(k, c))
    BY <2>2, JournalAssumption, P!StageIInv
  <2>3. CASE P!append(kernel[k].seq + 1, SinkReceipt(k, c))
    BY <2>3, JournalAssumption, P!AppendIInv
  <2>. QED  BY <2>1, <2>2, <2>3, SameStage, SameAppend
<1>4. ASSUME NEW k \in Kernel, batched_flush(k) PROVE P!IInv'
  <2>1. P!flush_batched(KernelDigests(k))
    BY <1>4, SameFlush DEF batched_flush
  <2>. QED  BY <2>1, JournalAssumption, P!FlushIInv
<1>5. ASSUME NEW k \in Kernel,
             \/ session_open(k) \/ session_reconcile_evidence(k) \/ adapter_execute(k)
             \/ finalize_fails(k) \/ mediate_returns(k) \/ flush_returns(k)
             \/ session_cancel(k) \/ session_close(k) \/ session_release(k) \/ crash(k)
      PROVE  UNCHANGED journal
  BY <1>5 DEF session_open, session_reconcile_evidence, adapter_execute, finalize_fails,
              mediate_returns, Returned, flush_returns, session_cancel, session_close,
              session_release, crash
<1>6. UNCHANGED vars => UNCHANGED journal
  BY DEF vars
<1>. QED  BY <1>1, <1>2, <1>3, <1>4, <1>5, <1>6 DEF Next, Step

(* However many kernels share the journal, reconciled or not, and wherever *)
(* crashes and failed transactions cut their calls off, the three runs of  *)
(* the mediation sequence, the root chain and the batches stay intact: the *)
(* store's checks alone (evidence.py) do not depend on a well-behaved      *)
(* kernel.                                                                 *)
THEOREM SharedJournal == Spec => []JournalIntact
<1>1. P!IInv => JournalIntact
  BY SameProperties DEF P!IInv
<1>. QED  BY <1>1, InitJournal, StepJournal, PTL DEF Spec

-----------------------------------------------------------------------------
(* What the journal's invariant says of its tables, as the kernels see it. *)

(* The rows that are settled, the row that is not, and the staged leaves.  *)
Settled == head.seq + J!staged_count
Unsettled == J!InState("reserved")
JStaged ==
    [i \in 1..J!staged_count |-> [seq |-> head.seq + i, digest |-> leaves[head.seq + i].digest]]
AllNonces == {reservations[s].nonce : s \in DOMAIN reservations}

JournalShape ==
    /\ head.seq \in Nat /\ J!staged_count \in Nat /\ Settled \in Nat
    /\ J!StagedLeaves = (head.seq + 1)..Settled
    /\ Unsettled \subseteq {Settled + 1}
    /\ DOMAIN reservations = 1..Settled \cup Unsettled
    /\ DOMAIN evidence = 1..Settled
    /\ \A s \in 1..head.seq : reservations[s].state = "finalized"
    /\ \A s \in (head.seq + 1)..Settled : reservations[s].state = "staged"
    /\ \A s \in 1..Settled : evidence[s].nonce = reservations[s].nonce
    /\ J!next_reservation_sequence = IF Unsettled = {} THEN Settled + 1 ELSE Settled + 2
    /\ DOMAIN reservations = 1..(J!next_reservation_sequence - 1)
    /\ \A s \in DOMAIN reservations :
           /\ reservations[s].nonce \in Nonce
           /\ reservations[s].semantic \in SemanticRoot
           /\ reservations[s].state \in J!RowState
    /\ J!reconciliation.staged = JStaged
    /\ J!staged_digests = [i \in 1..J!staged_count |-> leaves[head.seq + i].digest]

(* The shape follows from the invariant of the journal.                    *)
LEMMA JournalShaped == P!IInv => JournalShape
<1>. SUFFICES ASSUME P!IInv PROVE JournalShape
  OBVIOUS
<1>1. /\ head.seq \in Nat /\ P!staged_count \in Nat
      /\ P!StagedLeaves = (head.seq + 1)..(head.seq + P!staged_count)
      /\ P!InState("reserved") = {} => DOMAIN reservations = 1..(head.seq + P!staged_count)
      /\ \A s \in P!InState("reserved") : s = head.seq + P!staged_count + 1
      /\ DOMAIN evidence = 1..(head.seq + P!staged_count)
  BY P!Shape, JournalAssumption
<1>2. \A i \in 1..P!staged_count : P!staged_rows[i] = head.seq + i
  BY P!StagedRows, JournalAssumption
<1>3. J!StagedLeaves = (head.seq + 1)..Settled /\ J!staged_count \in Nat /\ Settled \in Nat
  BY <1>1, SameStaged DEF Settled
<1>4. Unsettled \subseteq {Settled + 1} /\ DOMAIN evidence = 1..Settled
  BY <1>1, SameStaged DEF Settled, Unsettled
<1>5. /\ \A s \in 1..head.seq : s \in DOMAIN reservations /\ reservations[s].state = "finalized"
      /\ \A s \in (head.seq + 1)..Settled : s \in DOMAIN reservations /\ reservations[s].state = "staged"
  BY SameStaged DEF P!IInv, P!LedgerOrder, P!InState, Settled
<1>6. DOMAIN reservations = 1..Settled \cup Unsettled
  <2>1. \A s \in DOMAIN reservations : reservations[s].state \in {"reserved", "staged", "finalized"}
    BY DEF P!IInv, P!TypeOK, P!RowState
  <2>2. P!InState("finalized") = 1..head.seq /\ P!InState("staged") = (head.seq + 1)..Settled
    BY SameStaged DEF P!IInv, P!LedgerOrder, Settled
  <2>3. \A s \in DOMAIN reservations : s \in 1..head.seq \/ s \in (head.seq + 1)..Settled \/ s \in Unsettled
    BY <2>1, <2>2, SameStaged DEF P!InState, Unsettled
  <2>4. Unsettled \subseteq DOMAIN reservations
    BY DEF Unsettled, J!InState
  <2>5. \A s : s \in 1..Settled <=> s \in 1..head.seq \/ s \in (head.seq + 1)..Settled
    BY <1>1, <1>3 DEF Settled
  <2>. QED  BY <2>3, <2>4, <2>5, <1>5
<1>7. \A s \in 1..Settled : evidence[s].nonce = reservations[s].nonce
  BY <1>4 DEF P!IInv, P!ReceiptsBound, P!reservation_matches
<1>8. J!next_reservation_sequence = IF Unsettled = {} THEN Settled + 1 ELSE Settled + 2
  <2>1. J!next_reservation_sequence = P!NextKey(reservations)
    BY DEF J!next_reservation_sequence, J!NextKey, P!NextKey
  <2>2. CASE Unsettled = {}
    <3>1. DOMAIN reservations = 1..Settled
      BY <1>6, <2>2
    <3>. QED  BY <2>1, <2>2, <3>1, <1>3, P!NextKeyOfRun, JournalAssumption
  <2>3. CASE Unsettled # {}
    <3>1. Unsettled = {Settled + 1}
      BY <1>4, <2>3
    <3>2. 1..Settled \cup {Settled + 1} = 1..(Settled + 1) /\ Settled + 1 \in Nat
      BY <1>3
    <3>3. DOMAIN reservations = 1..(Settled + 1)
      BY <3>1, <3>2, <1>6
    <3>4. P!NextKey(reservations) = Settled + 1 + 1
      BY <3>2, <3>3, P!NextKeyOfRun, JournalAssumption
    <3>. QED  BY <2>1, <2>3, <3>4, <1>3
  <2>. QED  BY <2>2, <2>3
<1>9. J!staged_digests = [i \in 1..J!staged_count |-> leaves[head.seq + i].digest]
  <2>1. DOMAIN J!staged_rows = 1..J!staged_count
    BY DEF J!staged_rows
  <2>2. \A i \in 1..J!staged_count : J!staged_rows[i] = head.seq + i
    BY <1>2, SameStaged
  <2>. QED  BY <2>1, <2>2 DEF J!staged_digests
<1>10. J!reconciliation.staged = JStaged
  <2>1. DOMAIN J!staged_rows = 1..J!staged_count
    BY DEF J!staged_rows
  <2>2. \A i \in 1..J!staged_count : J!staged_rows[i] = head.seq + i
    BY <1>2, SameStaged
  <2>. QED  BY <2>1, <2>2, <1>9 DEF J!reconciliation, JStaged
<1>11. DOMAIN reservations = 1..(J!next_reservation_sequence - 1)
  <2>1. CASE Unsettled = {}
    BY <2>1, <1>3, <1>6, <1>8
  <2>2. CASE Unsettled = {Settled + 1}
    <3>1. 1..Settled \cup {Settled + 1} = 1..(Settled + 1) /\ Settled + 2 - 1 = Settled + 1
      BY <1>3
    <3>2. DOMAIN reservations = 1..(Settled + 1)
      BY <2>2, <3>1, <1>6
    <3>3. J!next_reservation_sequence = Settled + 2
      BY <2>2, <1>8
    <3>4. J!next_reservation_sequence - 1 = Settled + 1
      BY <1>3, <3>3
    <3>. QED  BY <3>2, <3>4, Zenon
  <2>. QED  BY <2>1, <2>2, <1>4
<1>12. \A s \in DOMAIN reservations :
           /\ reservations[s].nonce \in Nonce
           /\ reservations[s].semantic \in SemanticRoot
           /\ reservations[s].state \in J!RowState
  BY DEF P!IInv, P!TypeOK, P!RowState, J!RowState
<1>. QED  BY <1>1, <1>3, <1>4, <1>5, <1>6, <1>7, <1>8, <1>9, <1>10, <1>11, <1>12 DEF JournalShape

-----------------------------------------------------------------------------
(* What the transactions do to a journal of that shape.                    *)

(* A reservation that is not a replay.                                     *)
LEMMA ReserveEffect ==
    ASSUME JournalShape, NEW s, NEW r, s \notin DOMAIN reservations, J!reserve(s, r)
    PROVE  /\ Unsettled = {} /\ s = Settled + 1 /\ r.before = head.root
           /\ J!FreshNonce(reservations, r.nonce)
           /\ DOMAIN reservations' = DOMAIN reservations \cup {s}
           /\ DOMAIN reservations = 1..Settled
           /\ reservations'[s] = [nonce |-> r.nonce, span |-> r.span, semantic |-> r.semantic,
                                  before |-> r.before, state |-> "reserved"]
           /\ \A t \in DOMAIN reservations : reservations'[t] = reservations[t]
           /\ UNCHANGED <<evidence, leaves, batches, head>>
           /\ UNCHANGED <<JStaged, J!staged_count, Settled>>
           /\ AllNonces' = AllNonces \cup {r.nonce}
           /\ Unsettled' = {s}
<1>1. /\ J!InState("reserved") = {} /\ s = J!next_reservation_sequence /\ r.before = head.root
      /\ J!FreshNonce(reservations, r.nonce)
      /\ reservations' = J!Insert(reservations, s,
           [nonce |-> r.nonce, span |-> r.span, semantic |-> r.semantic,
            before |-> r.before, state |-> "reserved"])
      /\ UNCHANGED <<evidence, leaves, batches, head>>
  BY DEF J!reserve, J!InsertReservation
<1>2. Unsettled = {} /\ s = Settled + 1 /\ DOMAIN reservations = 1..Settled
  BY <1>1 DEF Unsettled, JournalShape
<1>3. /\ DOMAIN reservations' = DOMAIN reservations \cup {s}
      /\ reservations'[s] = [nonce |-> r.nonce, span |-> r.span, semantic |-> r.semantic,
                             before |-> r.before, state |-> "reserved"]
      /\ \A t \in DOMAIN reservations : reservations'[t] = reservations[t]
  BY <1>1 DEF J!Insert
<1>4. UNCHANGED <<JStaged, J!staged_count, Settled>>
  BY <1>1 DEF JStaged, J!staged_count, Settled, J!StagedLeaves
<1>5. AllNonces' = AllNonces \cup {r.nonce}
  BY <1>3 DEF AllNonces
<1>6. Unsettled' = {s}
  BY <1>1, <1>3 DEF Unsettled, J!InState
<1>. QED  BY <1>1, <1>2, <1>3, <1>4, <1>5, <1>6

(* Settling a row keeps what the row binds.                                *)
LEMMA SetStateKeeps ==
    ASSUME NEW rows, NEW to, reservations' = J!SetState(rows, to)
    PROVE  /\ DOMAIN reservations' = DOMAIN reservations
           /\ \A t \in DOMAIN reservations :
                  /\ reservations'[t].nonce = reservations[t].nonce
                  /\ reservations'[t].semantic = reservations[t].semantic
                  /\ reservations'[t].state = IF t \in rows THEN to ELSE reservations[t].state
           /\ AllNonces' = AllNonces
<1>1. /\ DOMAIN reservations' = DOMAIN reservations
      /\ \A t \in DOMAIN reservations :
             /\ reservations'[t].nonce = reservations[t].nonce
             /\ reservations'[t].semantic = reservations[t].semantic
             /\ reservations'[t].state = IF t \in rows THEN to ELSE reservations[t].state
  BY DEF J!SetState
<1>. QED  BY <1>1 DEF AllNonces

(* A receipt that is recorded at once.                                     *)
LEMMA AppendEffect ==
    ASSUME JournalShape, NEW s, NEW r, J!append(s, r)
    PROVE  /\ Unsettled = {s} /\ s = head.seq + 1 /\ J!staged_count = 0
           /\ s \in DOMAIN reservations
           /\ DOMAIN reservations' = DOMAIN reservations
           /\ \A t \in DOMAIN reservations :
                  /\ reservations'[t].nonce = reservations[t].nonce
                  /\ reservations'[t].semantic = reservations[t].semantic
                  /\ reservations'[t].state = IF t = s THEN "finalized" ELSE reservations[t].state
           /\ \A t \in DOMAIN evidence : t \in DOMAIN evidence' /\ evidence'[t] = evidence[t]
           /\ evidence'[s] = r /\ s \in DOMAIN evidence'
           /\ head' = [seq |-> s, root |-> r.after]
           /\ J!staged_count' = 0
           /\ JStaged = <<>> /\ JStaged' = <<>>
           /\ AllNonces' = AllNonces
<1>1. /\ s \in DOMAIN reservations /\ reservations[s].state = "reserved" /\ s = head.seq + 1
      /\ evidence' = J!Insert(evidence, s, r) /\ reservations' = J!SetState({s}, "finalized")
      /\ head' = [seq |-> s, root |-> r.after] /\ UNCHANGED leaves
      /\ s \notin DOMAIN evidence
  BY DEF J!append, J!append_accepts, J!assert_reserved, J!assert_extends
<1>2. Unsettled = {s} /\ J!staged_count = 0
  BY <1>1 DEF JournalShape, Unsettled, J!InState, Settled
<1>3. J!staged_count' = 0
  BY <1>1, <1>2 DEF J!staged_count, J!StagedLeaves
<1>4. JStaged = <<>> /\ JStaged' = <<>>
  BY <1>2, <1>3 DEF JStaged
<1>5. /\ \A t \in DOMAIN evidence : t \in DOMAIN evidence' /\ evidence'[t] = evidence[t]
      /\ evidence'[s] = r /\ s \in DOMAIN evidence'
  BY <1>1 DEF J!Insert
<1>6. /\ DOMAIN reservations' = DOMAIN reservations /\ AllNonces' = AllNonces
      /\ \A t \in DOMAIN reservations :
             /\ reservations'[t].nonce = reservations[t].nonce
             /\ reservations'[t].semantic = reservations[t].semantic
             /\ reservations'[t].state = IF t \in {s} THEN "finalized" ELSE reservations[t].state
  BY <1>1, SetStateKeeps
<1>. QED  BY <1>1, <1>2, <1>3, <1>4, <1>5, <1>6

(* What Append is, entry by entry.                                         *)
LEMMA AppendIs ==
    ASSUME NEW S, NEW q \in Seq(S), NEW e
    PROVE  Append(q, e) = [i \in 1..(Len(q) + 1) |-> IF i = Len(q) + 1 THEN e ELSE q[i]]
<1>1. q \in Seq(S \cup {e}) /\ e \in S \cup {e} /\ Len(q) \in Nat
  OBVIOUS
<1>2. DOMAIN Append(q, e) = 1..(Len(q) + 1)
  BY <1>1
<1>3. \A i \in 1..(Len(q) + 1) : Append(q, e)[i] = IF i = Len(q) + 1 THEN e ELSE q[i]
  BY <1>1
<1>4. Append(q, e) = [i \in DOMAIN Append(q, e) |-> Append(q, e)[i]]
  <2>1. Append(q, e) \in Seq(S \cup {e})
    BY <1>1
  <2>2. \A x \in Seq(S \cup {e}) : x \in [1..Len(x) -> S \cup {e}]
    OBVIOUS
  <2>. QED  BY <2>1, <2>2, Zenon
<1>. QED  BY <1>2, <1>3, <1>4

(* A receipt that is staged for a batch.                                   *)
LEMMA StageEffect ==
    ASSUME JournalShape, JournalShape', NEW s, NEW r, J!stage_batched(s, r)
    PROVE  /\ Unsettled = {s} /\ s = Settled + 1 /\ s \in DOMAIN reservations
           /\ DOMAIN reservations' = DOMAIN reservations
           /\ \A t \in DOMAIN reservations :
                  /\ reservations'[t].nonce = reservations[t].nonce
                  /\ reservations'[t].semantic = reservations[t].semantic
                  /\ reservations'[t].state = IF t = s THEN "staged" ELSE reservations[t].state
           /\ \A t \in DOMAIN evidence : t \in DOMAIN evidence' /\ evidence'[t] = evidence[t]
           /\ evidence'[s] = r /\ s \in DOMAIN evidence'
           /\ UNCHANGED head
           /\ J!staged_count' = J!staged_count + 1
           /\ JStaged' = Append(JStaged,
                  [seq |-> s, digest |-> J!batched_evidence_leaf(s, J!staged_count, r)])
           /\ AllNonces' = AllNonces
<1>1. /\ s \in DOMAIN reservations /\ reservations[s].state = "reserved"
      /\ evidence' = J!Insert(evidence, s, r) /\ reservations' = J!SetState({s}, "staged")
      /\ leaves' = J!Insert(leaves, s,
           [index |-> J!staged_count, digest |-> J!batched_evidence_leaf(s, J!staged_count, r),
            state |-> "staged", batch |-> 0])
      /\ UNCHANGED head
      /\ s \notin DOMAIN evidence /\ s \notin DOMAIN leaves
  BY DEF J!stage_batched, J!stage_accepts, J!assert_reserved
<1>2. Unsettled = {s} /\ s = Settled + 1
  BY <1>1 DEF JournalShape, Unsettled, J!InState
<1>3. J!staged_count' = J!staged_count + 1
  <2>1. J!StagedLeaves' = J!StagedLeaves \cup {s}
    BY <1>1 DEF J!StagedLeaves, J!Insert
  <2>2. (head.seq + 1)..(head.seq + J!staged_count') = (head.seq + 1)..(head.seq + J!staged_count + 1)
    <3>1. J!StagedLeaves' = (head.seq + 1)..(head.seq + J!staged_count')
      BY <1>1 DEF JournalShape, Settled
    <3>2. J!StagedLeaves = (head.seq + 1)..(head.seq + J!staged_count)
          /\ head.seq \in Nat /\ J!staged_count \in Nat
      BY DEF JournalShape, Settled
    <3>3. (head.seq + 1)..(head.seq + J!staged_count) \cup {s}
              = (head.seq + 1)..(head.seq + J!staged_count + 1)
      BY <1>2, <3>2 DEF Settled
    <3>. QED  BY <2>1, <3>1, <3>2, <3>3
  <2>3. head.seq \in Nat /\ J!staged_count \in Nat /\ J!staged_count' \in Nat
    BY DEF JournalShape
  <2>. QED  BY <2>2, <2>3
<1>4. JStaged' = Append(JStaged,
          [seq |-> s, digest |-> J!batched_evidence_leaf(s, J!staged_count, r)])
  <2>1. head.seq \in Nat /\ J!staged_count \in Nat
    BY DEF JournalShape
  <2>2. \A i \in 1..J!staged_count : leaves'[head.seq + i].digest = leaves[head.seq + i].digest
    <3>1. \A i \in 1..J!staged_count : head.seq + i \in DOMAIN leaves
      <4>1. \A i \in 1..J!staged_count : head.seq + i \in J!StagedLeaves
        <5>1. J!StagedLeaves = (head.seq + 1)..(head.seq + J!staged_count)
          BY DEF JournalShape, Settled
        <5>. QED  BY <5>1, <2>1
      <4>. QED  BY <4>1 DEF J!StagedLeaves
    <3>. QED  BY <3>1, <1>1 DEF J!Insert
  <2>3. leaves'[s].digest = J!batched_evidence_leaf(s, J!staged_count, r)
    BY <1>1 DEF J!Insert
  <2>4. s = head.seq + (J!staged_count + 1)
    BY <1>2, <2>1 DEF Settled
  <2>. DEFINE e == [seq |-> s, digest |-> J!batched_evidence_leaf(s, J!staged_count, r)]
              n == J!staged_count
  <2>5. JStaged' = [i \in 1..(n + 1) |-> IF i = n + 1 THEN e ELSE JStaged[i]]
    BY <1>1, <1>3, <2>1, <2>2, <2>3, <2>4 DEF JStaged
  <2>6. JStaged \in Seq({JStaged[i] : i \in 1..n}) /\ Len(JStaged) = n
    BY <2>1 DEF JStaged
  <2>. HIDE DEF e, n
  <2>7. n \in Nat
    BY <2>1 DEF n
  <2>8. Append(JStaged, e) = [i \in 1..(n + 1) |-> IF i = n + 1 THEN e ELSE JStaged[i]]
    BY <2>6, <2>7, AppendIs
  <2>. QED  BY <2>5, <2>8 DEF e
<1>5. /\ \A t \in DOMAIN evidence : t \in DOMAIN evidence' /\ evidence'[t] = evidence[t]
      /\ evidence'[s] = r /\ s \in DOMAIN evidence'
  BY <1>1 DEF J!Insert
<1>6. /\ DOMAIN reservations' = DOMAIN reservations /\ AllNonces' = AllNonces
      /\ \A t \in DOMAIN reservations :
             /\ reservations'[t].nonce = reservations[t].nonce
             /\ reservations'[t].semantic = reservations[t].semantic
             /\ reservations'[t].state = IF t \in {s} THEN "staged" ELSE reservations[t].state
  BY <1>1, SetStateKeeps
<1>. QED  BY <1>1, <1>2, <1>3, <1>4, <1>5, <1>6

(* The batch that is flushed.                                              *)
LEMMA FlushEffect ==
    ASSUME JournalShape, JournalShape', NEW d, J!flush_batched(d)
    PROVE  /\ DOMAIN reservations' = DOMAIN reservations
           /\ \A t \in DOMAIN reservations :
                  /\ reservations'[t].nonce = reservations[t].nonce
                  /\ reservations'[t].semantic = reservations[t].semantic
                  /\ reservations'[t].state = IF reservations[t].state = "staged" THEN "finalized"
                                              ELSE reservations[t].state
           /\ UNCHANGED evidence
           /\ J!staged_count > 0
           /\ J!staged_count' = 0 /\ JStaged' = <<>>
           /\ AllNonces' = AllNonces
<1>1. /\ J!StagedLeaves # {}
      /\ leaves' = [s \in DOMAIN leaves |->
                     IF s \in J!StagedLeaves
                     THEN [index |-> leaves[s].index, digest |-> leaves[s].digest,
                           state |-> "flushed", batch |-> J!next_batch_id]
                     ELSE leaves[s]]
      /\ reservations' = J!SetState(J!InState("staged"), "finalized")
      /\ UNCHANGED evidence
  BY DEF J!flush_batched
<1>2. J!StagedLeaves' = {}
  BY <1>1 DEF J!StagedLeaves
<1>3. J!staged_count' = 0
  <2>1. /\ J!StagedLeaves' = (head'.seq + 1)..(head'.seq + J!staged_count')
        /\ head'.seq \in Nat /\ J!staged_count' \in Nat
    BY DEF JournalShape, Settled
  <2>. QED  BY <1>2, <2>1
<1>4. JStaged' = <<>>
  BY <1>3 DEF JStaged
<1>5. J!staged_count > 0
  BY <1>1 DEF JournalShape, Settled
<1>6. /\ DOMAIN reservations' = DOMAIN reservations /\ AllNonces' = AllNonces
      /\ \A t \in DOMAIN reservations :
             /\ reservations'[t].nonce = reservations[t].nonce
             /\ reservations'[t].semantic = reservations[t].semantic
             /\ reservations'[t].state = IF t \in J!InState("staged") THEN "finalized"
                                         ELSE reservations[t].state
  BY <1>1, SetStateKeeps
<1>. QED  BY <1>1, <1>3, <1>4, <1>5, <1>6 DEF J!InState

-----------------------------------------------------------------------------
(* What hosts are told.  None of this needs a well-behaved host: any       *)
(* number of kernels, reconciled or not, may share the journal.            *)

(* The journal's answer was a success, which the host will be told.        *)
Claimed(k) == call[k].pc = "answered" /\ call[k].outcome \in {"committed", "buffered"}

(* A success is claimed by one kernel, and only for a receipt that is      *)
(* there: the receipt is inserted once, by the finalize that answered.     *)
ClaimsApart ==
    /\ \A k \in Kernel : Claimed(k) =>
           /\ kernel[k].seq + 1 \in DOMAIN evidence
           /\ evidence[kernel[k].seq + 1].outcome = call[k].outcome
           /\ \A r \in reports : Successful(r) => r.seq # kernel[k].seq + 1
    /\ \A k, l \in Kernel :
           Claimed(k) /\ Claimed(l) /\ kernel[k].seq = kernel[l].seq => k = l

(* A leaf's digest binds its sequence and the root its receipt started from. *)
LeavesBind ==
    \A s \in DOMAIN leaves :
        /\ s \in DOMAIN evidence
        /\ leaves[s].digest[1] = s /\ leaves[s].digest[6] = evidence[s].before

IsSession(r) == DOMAIN r = {"state", "root", "seq", "nonces", "semantic", "staged"}
IsSeq(q) == q \in Seq({q[i] : i \in DOMAIN q})

(* A kernel holds leaves of the journal.  They start from the kernel's own *)
(* root, unless another kernel has flushed one of them already: then the   *)
(* journal will not take this kernel's digests for a batch any more.       *)
Holds(k) ==
    /\ IsSeq(kernel[k].staged)
    /\ \A i \in DOMAIN kernel[k].staged :
           /\ kernel[k].staged[i].seq \in DOMAIN leaves
           /\ kernel[k].staged[i].digest[1] = kernel[k].staged[i].seq
Overtaken(k) ==
    \E i \in DOMAIN kernel[k].staged : leaves[kernel[k].staged[i].seq].state = "flushed"
Rooted(k) ==
    \A i \in DOMAIN kernel[k].staged : kernel[k].staged[i].digest[6] = kernel[k].root

HoldingInv(k) ==
    /\ kernel[k] # Absent =>
           /\ IsSession(kernel[k]) /\ kernel[k].seq \in Nat
           /\ Holds(k) /\ (Overtaken(k) \/ Rooted(k))
    /\ call[k].pc # "idle" => kernel[k] # Absent
    /\ call[k].pc # "forked"
    /\ call[k].pc = "answered" => call[k].outcome \in J!Outcome
    /\ call[k].pc = "answered" /\ call[k].outcome = "committed" =>
           kernel[k].staged = <<>> \/ Overtaken(k)
    /\ call[k].pc = "answered" /\ call[k].outcome = "buffered" =>
           /\ kernel[k].seq + 1 \in DOMAIN leaves
           /\ call[k].digest[1] = kernel[k].seq + 1 /\ call[k].digest[6] = kernel[k].root
    /\ call[k].pc = "flushed" =>
           \A i \in DOMAIN kernel[k].staged : leaves[kernel[k].staged[i].seq].state = "flushed"

ReportInv ==
    /\ DOMAIN kernel = Kernel /\ DOMAIN call = Kernel
    /\ ReportsDurable /\ ClaimsApart /\ LeavesBind
    /\ \A k \in Kernel : HoldingInv(k)

(* Receipts and leaves are never taken back, and a flushed leaf stays so.  *)
Grows ==
    /\ \A s \in DOMAIN evidence : s \in DOMAIN evidence' /\ evidence'[s] = evidence[s]
    /\ \A s \in DOMAIN leaves :
           /\ s \in DOMAIN leaves' /\ leaves'[s].digest = leaves[s].digest
           /\ leaves[s].state = "flushed" => leaves'[s].state = "flushed"

(* The journal's transactions, and their absence, only grow its tables.    *)
LEMMA SameGrows ==
    ASSUME UNCHANGED <<evidence, leaves>>, LeavesBind
    PROVE  Grows /\ LeavesBind'
BY DEF Grows, LeavesBind

(* A reservation touches neither table.                                    *)
LEMMA ReserveGrows ==
    ASSUME NEW s, NEW r, J!reserve(s, r)
    PROVE  UNCHANGED <<evidence, leaves>>
BY DEF J!reserve, J!journal

(* A receipt that is appended was not there.                               *)
LEMMA AppendGrows ==
    ASSUME NEW s, NEW r, J!append(s, r), LeavesBind
    PROVE  /\ Grows /\ LeavesBind' /\ s \notin DOMAIN evidence /\ r.outcome \in J!Outcome
           /\ s \in DOMAIN evidence' /\ evidence'[s] = r
<1>1. /\ r.outcome \in J!Outcome /\ s \notin DOMAIN evidence /\ evidence' = J!Insert(evidence, s, r) /\ UNCHANGED leaves
  BY DEF J!append, J!append_accepts, J!valid_receipt
<1>2. Grows /\ s \in DOMAIN evidence' /\ evidence'[s] = r
  BY <1>1 DEF Grows, J!Insert
<1>3. LeavesBind'
  BY <1>1, <1>2 DEF Grows, LeavesBind
<1>. QED  BY <1>1, <1>2, <1>3

(* Nor was one that is staged, and its leaf binds it.                      *)
LEMMA StageGrows ==
    ASSUME NEW s, NEW r, J!stage_batched(s, r), LeavesBind
    PROVE  /\ Grows /\ LeavesBind' /\ s \notin DOMAIN evidence /\ r.outcome \in J!Outcome
           /\ s \in DOMAIN evidence' /\ evidence'[s] = r
           /\ s \in DOMAIN leaves'
<1>1. /\ r.outcome \in J!Outcome /\ s \notin DOMAIN evidence /\ s \notin DOMAIN leaves
      /\ evidence' = J!Insert(evidence, s, r)
      /\ leaves' = J!Insert(leaves, s,
           [index |-> J!staged_count, digest |-> J!batched_evidence_leaf(s, J!staged_count, r),
            state |-> "staged", batch |-> 0])
  BY DEF J!stage_batched, J!stage_accepts, J!valid_receipt
<1>2. Grows /\ s \in DOMAIN evidence' /\ evidence'[s] = r
  BY <1>1 DEF Grows, J!Insert
<1>3. /\ DOMAIN leaves' = DOMAIN leaves \cup {s}
      /\ leaves'[s].digest = <<s, J!staged_count, r.nonce, r.span, r.semantic, r.before>>
  BY <1>1 DEF J!Insert, J!batched_evidence_leaf
<1>4. LeavesBind'
  BY <1>1, <1>2, <1>3 DEF Grows, LeavesBind
<1>. QED  BY <1>1, <1>2, <1>3, <1>4

(* A flush turns every staged leaf into a flushed one.                     *)
LEMMA FlushGrows ==
    ASSUME NEW d, J!flush_batched(d), LeavesBind
    PROVE  /\ Grows /\ LeavesBind'
           /\ \A s \in J!StagedLeaves : s \in DOMAIN leaves' /\ leaves'[s].state = "flushed"
<1>1. /\ leaves' = [s \in DOMAIN leaves |->
                     IF s \in J!StagedLeaves
                     THEN [index |-> leaves[s].index, digest |-> leaves[s].digest,
                           state |-> "flushed", batch |-> J!next_batch_id]
                     ELSE leaves[s]]
      /\ UNCHANGED evidence
  BY DEF J!flush_batched
<1>2. /\ DOMAIN leaves' = DOMAIN leaves
      /\ \A s \in DOMAIN leaves :
             /\ leaves'[s].digest = leaves[s].digest
             /\ leaves[s].state = "flushed" => leaves'[s].state = "flushed"
             /\ s \in J!StagedLeaves => leaves'[s].state = "flushed"
  BY <1>1
<1>3. Grows /\ LeavesBind'
  BY <1>1, <1>2 DEF Grows, LeavesBind
<1>. QED  BY <1>2, <1>3 DEF J!StagedLeaves

(* The other kernels notice nothing.                                       *)
LEMMA HoldingFrame ==
    ASSUME Grows, NEW l \in Kernel, HoldingInv(l), kernel'[l] = kernel[l], call'[l] = call[l]
    PROVE  HoldingInv(l)'
<1>1. Overtaken(l) /\ Holds(l) => Overtaken(l)'
  BY DEF Overtaken, Holds, Grows
<1>2. Holds(l) => Holds(l)'
  BY DEF Holds, Grows
<1>3. Rooted(l) => Rooted(l)'
  BY DEF Rooted
<1>4. call[l].pc = "flushed" /\ Holds(l) =>
          \A i \in DOMAIN kernel'[l].staged : leaves'[kernel'[l].staged[i].seq].state = "flushed"
  BY DEF HoldingInv, Holds, Grows
<1>5. kernel[l] # Absent => Holds(l)
  BY DEF HoldingInv
<1>6. call[l].pc = "answered" /\ call[l].outcome = "buffered" => kernel[l].seq + 1 \in DOMAIN leaves'
  BY DEF HoldingInv, Grows
<1>7. call[l].pc \in {"answered", "flushed"} => Holds(l)
  BY <1>5 DEF HoldingInv
<1>. QED  BY <1>1, <1>2, <1>3, <1>4, <1>5, <1>6, <1>7 DEF HoldingInv

(* A step after which nobody is told of a new success.                     *)
LEMMA QuietStep ==
    ASSUME ReportInv, Grows, LeavesBind', UNCHANGED reports, NEW k \in Kernel,
           \A l \in Kernel : l # k => kernel'[l] = kernel[l] /\ call'[l] = call[l],
           ~Claimed(k)', HoldingInv(k)', DOMAIN kernel' = DOMAIN kernel, DOMAIN call' = DOMAIN call
    PROVE  ReportInv'
<1>1. \A l \in Kernel : HoldingInv(l)'
  BY HoldingFrame DEF ReportInv
<1>2. ClaimsApart'
  <2>1. \A l \in Kernel : Claimed(l)' => l # k /\ Claimed(l)
    BY DEF Claimed
  <2>2. \A l \in Kernel : Claimed(l)' =>
            /\ (kernel[l].seq + 1 \in DOMAIN evidence)'
            /\ (evidence[kernel[l].seq + 1].outcome = call[l].outcome)'
            /\ \A r \in reports' : Successful(r) => r.seq # kernel'[l].seq + 1
    BY <2>1 DEF ReportInv, ClaimsApart, Grows
  <2>. QED  BY <2>1, <2>2 DEF ReportInv, ClaimsApart
<1>3. ReportsDurable'
  <2>1. FlushNeverForks'
    BY <1>1 DEF HoldingInv, FlushNeverForks
  <2>. QED  BY <2>1 DEF ReportInv, ReportsDurable, Grows
<1>. QED  BY <1>1, <1>2, <1>3 DEF ReportInv

(* A kernel that is not in a call has no claim, and being in one is being  *)
(* alive.                                                                  *)
LEMMA OpenReports ==
    ASSUME ReportInv, NEW k \in Kernel, session_open(k) \/ session_release(k) \/ crash(k)
    PROVE  ReportInv'
<1>1. /\ UNCHANGED journal /\ UNCHANGED reports
      /\ DOMAIN kernel = Kernel /\ DOMAIN call = Kernel /\ HoldingInv(k) /\ LeavesBind
  BY DEF ReportInv, session_open, session_release, crash
<1>2. Grows /\ LeavesBind'
  BY <1>1, SameGrows DEF journal
<1>3. /\ kernel'[k] \in {FreshSession, Absent} /\ call'[k].pc = "idle"
      /\ \A l \in Kernel : l # k => kernel'[l] = kernel[l] /\ call'[l] = call[l]
      /\ DOMAIN kernel' = DOMAIN kernel /\ DOMAIN call' = DOMAIN call
  BY <1>1 DEF session_open, session_release, crash, HoldingInv, Idle
<1>4. HoldingInv(k)'
  <2>1. CASE kernel'[k] = Absent
    BY <1>3, <2>1 DEF HoldingInv
  <2>2. CASE kernel'[k] = FreshSession
    <3>1. IsSession(kernel'[k]) /\ kernel'[k].seq \in Nat /\ kernel'[k].staged = <<>>
      BY <2>2 DEF FreshSession, IsSession
    <3>2. IsSeq(<<>>)
      BY DEF IsSeq
    <3>3. Holds(k)' /\ Rooted(k)'
      BY <3>1, <3>2 DEF Holds, Rooted
    <3>. QED  BY <1>3, <3>1, <3>3 DEF HoldingInv
  <2>. QED  BY <1>3, <2>1, <2>2
<1>5. ~Claimed(k)'
  BY <1>3 DEF Claimed
<1>. QED  BY <1>1, <1>2, <1>3, <1>4, <1>5, QuietStep

(* Cancelling or closing a session keeps what it holds.                    *)
LEMMA EndReports ==
    ASSUME ReportInv, NEW k \in Kernel, session_cancel(k) \/ session_close(k)
    PROVE  ReportInv'
<1>1. /\ UNCHANGED journal /\ UNCHANGED <<call, reports>> /\ call[k] = Idle /\ kernel[k].state # "absent"
      /\ DOMAIN kernel = Kernel /\ DOMAIN call = Kernel /\ HoldingInv(k) /\ LeavesBind
  BY DEF ReportInv, session_cancel, session_close, Live
<1>2. PICK st \in {"cancelled", "closed"} : kernel' = [kernel EXCEPT ![k].state = st]
  BY DEF session_cancel, session_close
<1>3. Grows /\ LeavesBind'
  BY <1>1, SameGrows DEF journal
<1>4. kernel[k] # Absent /\ IsSession(kernel[k]) /\ kernel[k].seq \in Nat
      /\ Holds(k) /\ (Overtaken(k) \/ Rooted(k))
  BY <1>1 DEF Absent, HoldingInv
<1>5. /\ IsSession(kernel'[k]) /\ kernel'[k].root = kernel[k].root
      /\ kernel'[k].seq = kernel[k].seq /\ kernel'[k].staged = kernel[k].staged
      /\ \A l \in Kernel : l # k => kernel'[l] = kernel[l]
      /\ DOMAIN kernel' = DOMAIN kernel
  BY <1>1, <1>2, <1>4 DEF IsSession
<1>6. Holds(k)' /\ (Overtaken(k)' \/ Rooted(k)')
  BY <1>1, <1>4, <1>5 DEF Holds, Overtaken, Rooted, journal
<1>7. HoldingInv(k)' /\ ~Claimed(k)'
  BY <1>1, <1>4, <1>5, <1>6 DEF HoldingInv, Claimed, Idle, Absent, IsSession
<1>. QED  BY <1>1, <1>3, <1>5, <1>7, QuietStep

(* The leaves a reconciled kernel is given start from the root it is given. *)
LEMMA ReconcileReports ==
    ASSUME ReportInv, JournalShape, P!IInv, NEW k \in Kernel, session_reconcile_evidence(k)
    PROVE  ReportInv'
<1>1. /\ UNCHANGED journal /\ UNCHANGED <<call, reports>> /\ call[k] = Idle
      /\ DOMAIN kernel = Kernel /\ DOMAIN call = Kernel /\ HoldingInv(k) /\ LeavesBind
      /\ DOMAIN reservations # {}
      /\ kernel' = [kernel EXCEPT ![k] =
            [state |-> "open", root |-> J!reconciliation.root, seq |-> J!reconciliation.seq,
             nonces |-> J!reconciliation.nonces, semantic |-> J!reconciliation.semantic,
             staged |-> J!reconciliation.staged]]
  BY DEF ReportInv, session_reconcile_evidence, Restored
<1>2. Grows /\ LeavesBind'
  BY <1>1, SameGrows DEF journal
<1>3. /\ J!reconciliation.root = head.root
      /\ J!reconciliation.seq = J!next_reservation_sequence - 1
      /\ J!reconciliation.staged = JStaged
      /\ J!next_reservation_sequence - 1 \in Nat
  <2>1. J!reconciliation.staged = JStaged /\ J!next_reservation_sequence - 1 \in Nat
    BY DEF JournalShape
  <2>2. J!reconciliation.root = head.root /\ J!reconciliation.seq = J!next_reservation_sequence - 1
    BY DEF J!reconciliation
  <2>. QED  BY <2>1, <2>2
<1>4. /\ IsSession(kernel'[k]) /\ kernel'[k].root = head.root /\ kernel'[k].seq \in Nat
      /\ kernel'[k].staged = JStaged
      /\ \A l \in Kernel : l # k => kernel'[l] = kernel[l]
      /\ DOMAIN kernel' = DOMAIN kernel
  BY <1>1, <1>3 DEF IsSession
<1>5. /\ DOMAIN JStaged = 1..J!staged_count
      /\ \A i \in 1..J!staged_count :
             JStaged[i] = [seq |-> head.seq + i, digest |-> leaves[head.seq + i].digest]
  BY DEF JStaged
<1>6. \A i \in 1..J!staged_count : head.seq + i \in J!StagedLeaves
  <2>1. /\ head.seq \in Nat /\ J!staged_count \in Nat
        /\ J!StagedLeaves = (head.seq + 1)..(head.seq + J!staged_count)
    BY DEF JournalShape, Settled
  <2>. QED  BY <2>1
<1>7. \A s \in J!StagedLeaves : s \in DOMAIN leaves /\ evidence[s].before = head.root
  BY SameStaged DEF J!StagedLeaves, P!IInv, P!RootChain
<1>8. Holds(k)'
  <2>1. IsSeq(JStaged)
    <3>1. J!staged_count \in Nat
      BY DEF JournalShape
    <3>2. JStaged = [i \in 1..J!staged_count |-> JStaged[i]]
      BY DEF JStaged
    <3>. QED  BY <1>5, <3>1, <3>2 DEF IsSeq
  <2>2. \A i \in DOMAIN JStaged :
            JStaged[i].seq \in DOMAIN leaves /\ JStaged[i].digest[1] = JStaged[i].seq
    BY <1>1, <1>5, <1>6, <1>7 DEF LeavesBind
  <2>. QED  BY <1>1, <1>4, <2>1, <2>2 DEF Holds, journal
<1>9. Rooted(k)'
  <2>1. \A i \in DOMAIN JStaged : JStaged[i].digest[6] = head.root
    BY <1>1, <1>5, <1>6, <1>7 DEF LeavesBind
  <2>. QED  BY <1>4, <2>1 DEF Rooted
<1>10. HoldingInv(k)' /\ ~Claimed(k)'
  BY <1>1, <1>4, <1>8, <1>9 DEF HoldingInv, Claimed, Idle, Absent, IsSession
<1>. QED  BY <1>1, <1>2, <1>4, <1>10, QuietStep

(* Reserving and running an effect promise nothing yet.                    *)
LEMMA MediateReports ==
    ASSUME ReportInv, NEW k \in Kernel, strict_mediate(k)
    PROVE  ReportInv'
<1>1. /\ Live(k) /\ UNCHANGED reports
      /\ DOMAIN kernel = Kernel /\ DOMAIN call = Kernel /\ HoldingInv(k) /\ LeavesBind
  BY DEF ReportInv, strict_mediate
<1>2. PICK nonce \in Nonce, span \in Span, semantic \in SemanticRoot, durability \in {"strict", "batched"} :
           /\ J!reserve(kernel[k].seq + 1,
                  [nonce |-> nonce, span |-> span, semantic |-> semantic,
                   before |-> kernel[k].root])
           /\ kernel' = [kernel EXCEPT ![k].nonces = @ \cup {nonce}, ![k].semantic = semantic]
           /\ call' = [call EXCEPT ![k] =
                  [pc |-> "reserved", nonce |-> nonce, span |-> span,
                   semantic |-> semantic, durability |-> durability]]
  BY DEF strict_mediate
<1>3. UNCHANGED <<evidence, leaves>>
  BY <1>2, ReserveGrows
<1>4. Grows /\ LeavesBind'
  BY <1>1, <1>3, SameGrows
<1>5. kernel[k] # Absent /\ IsSession(kernel[k]) /\ kernel[k].seq \in Nat
      /\ Holds(k) /\ (Overtaken(k) \/ Rooted(k))
  BY <1>1 DEF Live, Absent, HoldingInv
<1>6. /\ IsSession(kernel'[k]) /\ kernel'[k].root = kernel[k].root
      /\ kernel'[k].seq = kernel[k].seq /\ kernel'[k].staged = kernel[k].staged
      /\ \A l \in Kernel : l # k => kernel'[l] = kernel[l] /\ call'[l] = call[l]
      /\ DOMAIN kernel' = DOMAIN kernel /\ DOMAIN call' = DOMAIN call
      /\ call'[k].pc = "reserved"
  BY <1>1, <1>2, <1>5 DEF IsSession
<1>7. Holds(k)' /\ (Overtaken(k)' \/ Rooted(k)')
  BY <1>3, <1>5, <1>6 DEF Holds, Overtaken, Rooted
<1>8. HoldingInv(k)' /\ ~Claimed(k)'
  BY <1>5, <1>6, <1>7 DEF HoldingInv, Claimed, Absent, IsSession
<1>. QED  BY <1>1, <1>4, <1>6, <1>8, QuietStep

(* Nothing is claimed before the journal has answered.                     *)
LEMMA ExecuteReports ==
    ASSUME ReportInv, NEW k \in Kernel, adapter_execute(k) \/ finalize_fails(k)
    PROVE  ReportInv'
<1>1. /\ UNCHANGED journal /\ UNCHANGED <<kernel, reports>> /\ call[k].pc \in {"reserved", "executed"}
      /\ DOMAIN kernel = Kernel /\ DOMAIN call = Kernel /\ HoldingInv(k) /\ LeavesBind
  BY DEF ReportInv, adapter_execute, finalize_fails
<1>2. Grows /\ LeavesBind'
  BY <1>1, SameGrows DEF journal
<1>3. /\ call'[k].pc = "executed" \/ (call'[k].pc = "answered" /\ call'[k].outcome = "indeterminate")
      /\ \A l \in Kernel : l # k => call'[l] = call[l]
      /\ DOMAIN call' = DOMAIN call
  BY <1>1 DEF adapter_execute, finalize_fails, Answered
<1>4. kernel[k] # Absent
  BY <1>1 DEF HoldingInv
<1>5. Holds(k)' /\ (Overtaken(k)' \/ Rooted(k)')
  BY <1>1, <1>4 DEF HoldingInv, Holds, Overtaken, Rooted, journal
<1>6. HoldingInv(k)' /\ ~Claimed(k)'
  BY <1>1, <1>3, <1>4, <1>5 DEF HoldingInv, Claimed, J!Outcome
<1>. QED  BY <1>1, <1>2, <1>3, <1>6, QuietStep

(* The kernel whose finalize inserted the receipt is the one that claims   *)
(* it: the row was not there before, so nobody else can.                   *)
LEMMA FinalizeReports ==
    ASSUME ReportInv, JournalShape, P!IInv, NEW k \in Kernel, finalize(k)
    PROVE  ReportInv'
<1>1. /\ call[k].pc = "executed" /\ UNCHANGED <<kernel, reports>>
      /\ DOMAIN kernel = Kernel /\ DOMAIN call = Kernel /\ HoldingInv(k) /\ LeavesBind
  BY DEF ReportInv, finalize
<1>2. PICK c \in CommittedRoot :
           /\ IF SinkReceipt(k, c).outcome = "buffered"
              THEN J!stage_batched(kernel[k].seq + 1, SinkReceipt(k, c))
              ELSE J!append(kernel[k].seq + 1, SinkReceipt(k, c))
           /\ Answered(k, SinkReceipt(k, c).outcome, SinkReceipt(k, c).after,
                       EvidenceDigest(k, SinkReceipt(k, c)))
  BY DEF finalize
<1>. DEFINE s == kernel[k].seq + 1
            r == SinkReceipt(k, c)
<1>3. r.before = kernel[k].root
  BY DEF SinkReceipt
<1>. HIDE DEF r
<1>4. /\ kernel[k] # Absent /\ IsSession(kernel[k]) /\ kernel[k].seq \in Nat
      /\ Holds(k) /\ (Overtaken(k) \/ Rooted(k))
  BY <1>1 DEF HoldingInv
<1>5. /\ call'[k].pc = "answered" /\ call'[k].outcome = r.outcome
      /\ call'[k].digest = EvidenceDigest(k, r)
      /\ DOMAIN call' = DOMAIN call
      /\ \A l \in Kernel : l # k => call'[l] = call[l]
  BY <1>1, <1>2 DEF Answered, r
<1>6. /\ Grows /\ LeavesBind' /\ s \notin DOMAIN evidence /\ r.outcome \in J!Outcome
      /\ s \in DOMAIN evidence' /\ evidence'[s] = r
  BY <1>1, <1>2, StageGrows, AppendGrows DEF r
<1>7. Holds(k)' /\ (Overtaken(k)' \/ Rooted(k)')
  BY <1>1, <1>4, <1>6 DEF Holds, Overtaken, Rooted, Grows
<1>8. HoldingInv(k)'
  <2>1. r.outcome = "committed" => kernel[k].staged = <<>> \/ Overtaken(k)'
    <3>. SUFFICES ASSUME r.outcome = "committed", kernel[k].staged # <<>> PROVE Overtaken(k)'
      OBVIOUS
    <3>1. J!append(s, r)
      BY <1>2 DEF r
    <3>2. J!StagedLeaves = {}
      <4>1. J!staged_count = 0
        BY <3>1, AppendEffect
      <4>2. J!StagedLeaves = (head.seq + 1)..(head.seq + J!staged_count) /\ head.seq \in Nat
        BY DEF JournalShape, Settled
      <4>. QED  BY <4>1, <4>2
    <3>3. \A t \in DOMAIN leaves : leaves[t].state = "flushed"
      BY <3>2 DEF J!StagedLeaves, P!IInv, P!TypeOK
    <3>4. PICK i \in DOMAIN kernel[k].staged : TRUE
      BY <1>4 DEF Holds, IsSeq
    <3>. QED  BY <1>1, <1>4, <1>6, <3>3, <3>4 DEF Overtaken, Holds, Grows
  <2>2. ASSUME r.outcome = "buffered"
        PROVE  s \in DOMAIN leaves' /\ call'[k].digest[1] = s /\ call'[k].digest[6] = kernel[k].root
    <3>1. J!stage_batched(s, r)
      BY <1>2, <2>2 DEF r
    <3>2. s \in DOMAIN leaves'
      BY <1>1, <3>1, StageGrows
    <3>3. call'[k].digest = <<s, J!staged_count, r.nonce, r.span, r.semantic, r.before>>
      BY <1>5, <2>2 DEF EvidenceDigest, J!batched_evidence_leaf
    <3>. QED  BY <1>3, <3>2, <3>3
  <2>. QED  BY <1>1, <1>4, <1>5, <1>6, <1>7, <2>1, <2>2 DEF HoldingInv
<1>9. \A l \in Kernel : HoldingInv(l)'
  BY <1>1, <1>5, <1>6, <1>8, HoldingFrame DEF ReportInv
<1>10. ClaimsApart'
  <2>1. \A l \in Kernel : l # k /\ Claimed(l)' => Claimed(l) /\ kernel[l].seq # kernel[k].seq
    BY <1>5, <1>6 DEF Claimed, ReportInv, ClaimsApart
  <2>2. \A q \in reports : Successful(q) => q.seq # s
    BY <1>6 DEF ReportInv, ReportsDurable
  <2>3. \A l \in Kernel : Claimed(l)' =>
            /\ (kernel[l].seq + 1 \in DOMAIN evidence)'
            /\ (evidence[kernel[l].seq + 1].outcome = call[l].outcome)'
            /\ \A q \in reports' : Successful(q) => q.seq # kernel'[l].seq + 1
    <3>. SUFFICES ASSUME NEW l \in Kernel, Claimed(l)'
                  PROVE  /\ (kernel[l].seq + 1 \in DOMAIN evidence)'
                         /\ (evidence[kernel[l].seq + 1].outcome = call[l].outcome)'
                         /\ \A q \in reports' : Successful(q) => q.seq # kernel'[l].seq + 1
      OBVIOUS
    <3>1. CASE l = k
      BY <1>1, <1>5, <1>6, <2>2, <3>1
    <3>2. CASE l # k
      BY <1>1, <1>5, <1>6, <2>1, <3>2 DEF ReportInv, ClaimsApart, Grows
    <3>. QED  BY <3>1, <3>2
  <2>4. \A l, m \in Kernel :
            Claimed(l)' /\ Claimed(m)' /\ kernel'[l].seq = kernel'[m].seq => l = m
    BY <1>1, <2>1 DEF ReportInv, ClaimsApart
  <2>. QED  BY <2>3, <2>4 DEF ClaimsApart
<1>11. ReportsDurable'
  <2>1. FlushNeverForks'
    BY <1>9 DEF HoldingInv, FlushNeverForks
  <2>. QED  BY <1>1, <1>6, <2>1 DEF ReportInv, ReportsDurable, Grows
<1>. QED  BY <1>1, <1>5, <1>6, <1>9, <1>10, <1>11 DEF ReportInv

(* The claim becomes a report of the same kernel.                          *)
LEMMA ReturnReports ==
    ASSUME ReportInv, NEW k \in Kernel, mediate_returns(k)
    PROVE  ReportInv'
<1>1. /\ call[k].pc = "answered" /\ UNCHANGED journal
      /\ DOMAIN kernel = Kernel /\ DOMAIN call = Kernel /\ HoldingInv(k) /\ LeavesBind
      /\ call' = [call EXCEPT ![k] = Idle]
      /\ kernel' = [kernel EXCEPT
               ![k].root = IF call[k].outcome = "committed" THEN call[k].after ELSE kernel[k].root,
               ![k].staged = IF call[k].outcome = "buffered"
                             THEN Append(@, [seq |-> kernel[k].seq + 1, digest |-> call[k].digest])
                             ELSE @,
               ![k].seq = kernel[k].seq + 1]
      /\ reports' = reports \cup
             {[kernel |-> k, seq |-> kernel[k].seq + 1, outcome |-> call[k].outcome]}
  BY DEF ReportInv, mediate_returns, Returned
<1>2. Grows /\ LeavesBind' /\ UNCHANGED <<evidence, leaves>>
  BY <1>1, SameGrows DEF journal
<1>3. /\ kernel[k] # Absent /\ IsSession(kernel[k]) /\ kernel[k].seq \in Nat
      /\ Holds(k) /\ (Overtaken(k) \/ Rooted(k))
  BY <1>1 DEF HoldingInv
<1>4. /\ IsSession(kernel'[k]) /\ kernel'[k].seq = kernel[k].seq + 1
      /\ kernel'[k].root = IF call[k].outcome = "committed" THEN call[k].after ELSE kernel[k].root
      /\ kernel'[k].staged = IF call[k].outcome = "buffered"
             THEN Append(kernel[k].staged, [seq |-> kernel[k].seq + 1, digest |-> call[k].digest])
             ELSE kernel[k].staged
      /\ call'[k] = Idle
      /\ \A l \in Kernel : l # k => kernel'[l] = kernel[l] /\ call'[l] = call[l]
      /\ DOMAIN kernel' = DOMAIN kernel /\ DOMAIN call' = DOMAIN call
  BY <1>1, <1>3 DEF IsSession
<1>5. Holds(k)' /\ (Overtaken(k)' \/ Rooted(k)')
  <2>1. CASE call[k].outcome = "buffered"
    <3>. DEFINE e == [seq |-> kernel[k].seq + 1, digest |-> call[k].digest]
                q == kernel[k].staged
    <3>1. e.seq \in DOMAIN leaves /\ e.digest[1] = e.seq /\ e.digest[6] = kernel[k].root
      BY <1>1, <2>1 DEF HoldingInv
    <3>. HIDE DEF e
    <3>2. q \in Seq({q[i] : i \in DOMAIN q}) /\ DOMAIN q = 1..Len(q) /\ Len(q) \in Nat
      BY <1>3 DEF Holds, IsSeq
    <3>3. /\ Append(q, e) = [i \in 1..(Len(q) + 1) |-> IF i = Len(q) + 1 THEN e ELSE q[i]]
      BY <3>2, AppendIs
    <3>4. /\ DOMAIN Append(q, e) = 1..(Len(q) + 1)
          /\ \A i \in 1..(Len(q) + 1) : Append(q, e)[i] = IF i = Len(q) + 1 THEN e ELSE q[i]
      BY <3>3
    <3>5. IsSeq(Append(q, e))
      <4>1. Append(q, e) = [i \in 1..(Len(q) + 1) |-> Append(q, e)[i]] /\ Len(q) + 1 \in Nat
        BY <3>2, <3>3
      <4>. QED  BY <3>4, <4>1 DEF IsSeq
    <3>6. \A i \in DOMAIN Append(q, e) : i = Len(q) + 1 \/ i \in DOMAIN q
      BY SMTT(30), <3>2, <3>4
    <3>7. \A i \in DOMAIN q : Append(q, e)[i] = q[i] /\ i \in DOMAIN Append(q, e)
      BY <3>2, <3>4
    <3>8. Append(q, e)[Len(q) + 1] = e
      BY <3>2, <3>4
    <3>9. kernel'[k].staged = Append(q, e) /\ kernel'[k].root = kernel[k].root
      BY <1>4, <2>1 DEF e
    <3>10. Holds(k)'
      BY <1>2, <1>3, <3>1, <3>5, <3>6, <3>7, <3>8, <3>9 DEF Holds
    <3>11. Overtaken(k) => Overtaken(k)'
      BY <1>2, <3>7, <3>9 DEF Overtaken
    <3>12. Rooted(k) => Rooted(k)'
      BY <3>1, <3>6, <3>7, <3>8, <3>9 DEF Rooted
    <3>. QED  BY <1>3, <3>10, <3>11, <3>12
  <2>2. CASE call[k].outcome # "buffered"
    <3>1. kernel'[k].staged = kernel[k].staged
      BY <1>4, <2>2
    <3>2. Holds(k)' /\ (Overtaken(k) => Overtaken(k)')
      BY <1>2, <1>3, <3>1 DEF Holds, Overtaken
    <3>3. call[k].outcome = "committed" => kernel[k].staged = <<>> \/ Overtaken(k)
      BY <1>1 DEF HoldingInv
    <3>4. kernel[k].staged = <<>> => Rooted(k)'
      BY <3>1 DEF Rooted
    <3>5. call[k].outcome # "committed" /\ Rooted(k) => Rooted(k)'
      BY <1>4, <3>1 DEF Rooted
    <3>. QED  BY <1>3, <3>2, <3>3, <3>4, <3>5
  <2>. QED  BY <2>1, <2>2
<1>6. HoldingInv(k)' /\ ~Claimed(k)'
  <2>1. kernel'[k] # Absent /\ kernel'[k].seq \in Nat
    BY <1>3, <1>4 DEF Absent, IsSession
  <2>. QED  BY <1>4, <1>5, <2>1 DEF HoldingInv, Claimed, Idle
<1>7. \A l \in Kernel : HoldingInv(l)'
  BY <1>2, <1>4, <1>6, HoldingFrame DEF ReportInv
<1>. DEFINE new == [kernel |-> k, seq |-> kernel[k].seq + 1, outcome |-> call[k].outcome]
<1>8. /\ new.seq = kernel[k].seq + 1 /\ new.outcome = call[k].outcome
      /\ new.outcome = "flushed" => FALSE
      /\ Successful(new) <=> Claimed(k)
      /\ reports' = reports \cup {new}
  BY <1>1 DEF Successful, Claimed, HoldingInv, J!Outcome
<1>. HIDE DEF new
<1>9. Claimed(k) =>
          /\ new.seq \in DOMAIN evidence /\ evidence[new.seq].outcome = new.outcome
          /\ \A r \in reports : Successful(r) => r.seq # new.seq
  BY <1>8 DEF ReportInv, ClaimsApart
<1>10. ClaimsApart'
  <2>1. \A l \in Kernel : Claimed(l)' => l # k /\ Claimed(l)
    BY <1>4, <1>6 DEF Claimed
  <2>2. ASSUME NEW l \in Kernel, Claimed(l)'
        PROVE  /\ (kernel[l].seq + 1 \in DOMAIN evidence)'
               /\ (evidence[kernel[l].seq + 1].outcome = call[l].outcome)'
               /\ \A r \in reports' : Successful(r) => r.seq # kernel'[l].seq + 1
    <3>1. l # k /\ Claimed(l) /\ kernel'[l] = kernel[l] /\ call'[l] = call[l]
      BY <1>4, <2>1, <2>2
    <3>2. /\ kernel[l].seq + 1 \in DOMAIN evidence
          /\ evidence[kernel[l].seq + 1].outcome = call[l].outcome
          /\ \A r \in reports : Successful(r) => r.seq # kernel[l].seq + 1
      BY <3>1 DEF ReportInv, ClaimsApart
    <3>3. Successful(new) => new.seq # kernel[l].seq + 1
      <4>1. Claimed(k) => kernel[l].seq # kernel[k].seq
        BY <3>1 DEF ReportInv, ClaimsApart
      <4>2. kernel[l].seq \in Nat
        BY <3>1 DEF ReportInv, HoldingInv, Claimed
      <4>. QED  BY <1>3, <1>8, <4>1, <4>2
    <3>. QED  BY <1>2, <1>8, <3>1, <3>2, <3>3
  <2>3. \A l, m \in Kernel :
            Claimed(l)' /\ Claimed(m)' /\ kernel'[l].seq = kernel'[m].seq => l = m
    BY <1>4, <2>1 DEF ReportInv, ClaimsApart
  <2>. QED  BY <2>2, <2>3 DEF ClaimsApart
<1>11. ReportsDurable'
  <2>1. FlushNeverForks'
    BY <1>7 DEF HoldingInv, FlushNeverForks
  <2>2. \A r \in reports' :
           /\ Successful(r) => r.seq \in DOMAIN evidence' /\ evidence'[r.seq].outcome = r.outcome
           /\ r.outcome = "flushed" => r.seq \in DOMAIN leaves' /\ leaves'[r.seq].state = "flushed"
    BY <1>2, <1>8, <1>9 DEF ReportInv, ReportsDurable
  <2>3. \A r, q \in reports' : Successful(r) /\ Successful(q) /\ r.seq = q.seq => r = q
    BY <1>8, <1>9 DEF ReportInv, ReportsDurable
  <2>. QED  BY <2>1, <2>2, <2>3 DEF ReportsDurable
<1>. QED  BY <1>1, <1>2, <1>4, <1>7, <1>10, <1>11 DEF ReportInv

(* A kernel whose digests the journal accepts holds exactly the staged     *)
(* leaves, so its root is the journal's: the comparison that comes after   *)
(* the commit succeeds.                                                    *)
LEMMA FlushReports ==
    ASSUME ReportInv, JournalShape, P!IInv, NEW k \in Kernel, batched_flush(k)
    PROVE  ReportInv'
<1>1. /\ Live(k) /\ call[k] = Idle /\ kernel[k].staged # <<>>
      /\ J!flush_batched(KernelDigests(k))
      /\ call' = [call EXCEPT ![k] =
             IF head.root = kernel[k].root THEN [pc |-> "flushed", after |-> head'.root]
             ELSE [pc |-> "forked"]]
      /\ UNCHANGED <<kernel, reports>>
      /\ DOMAIN kernel = Kernel /\ DOMAIN call = Kernel /\ HoldingInv(k) /\ LeavesBind
  BY DEF ReportInv, batched_flush
<1>2. /\ Grows /\ LeavesBind'
      /\ \A s \in J!StagedLeaves : s \in DOMAIN leaves' /\ leaves'[s].state = "flushed"
  BY <1>1, FlushGrows
<1>3. /\ kernel[k] # Absent /\ IsSession(kernel[k]) /\ kernel[k].seq \in Nat
      /\ Holds(k) /\ (Overtaken(k) \/ Rooted(k))
  BY <1>1 DEF Live, Absent, HoldingInv
<1>4. KernelDigests(k) = [i \in 1..J!staged_count |-> leaves[head.seq + i].digest]
  BY <1>1 DEF J!flush_batched, JournalShape
<1>5. /\ DOMAIN kernel[k].staged = 1..J!staged_count
      /\ \A i \in 1..J!staged_count : kernel[k].staged[i].digest = leaves[head.seq + i].digest
  BY <1>4 DEF KernelDigests
<1>6. \A i \in 1..J!staged_count : head.seq + i \in J!StagedLeaves
  <2>1. /\ head.seq \in Nat /\ J!staged_count \in Nat
        /\ J!StagedLeaves = (head.seq + 1)..(head.seq + J!staged_count)
    BY DEF JournalShape, Settled
  <2>. QED  BY <2>1
<1>7. \A s \in J!StagedLeaves :
          s \in DOMAIN leaves /\ leaves[s].state = "staged" /\ evidence[s].before = head.root
  BY SameStaged DEF J!StagedLeaves, P!IInv, P!RootChain
<1>8. \A i \in DOMAIN kernel[k].staged :
          /\ kernel[k].staged[i].seq \in J!StagedLeaves
          /\ kernel[k].staged[i].digest[6] = head.root
  <2>. SUFFICES ASSUME NEW i \in DOMAIN kernel[k].staged
                PROVE  /\ kernel[k].staged[i].seq \in J!StagedLeaves
                       /\ kernel[k].staged[i].digest[6] = head.root
    OBVIOUS
  <2>1. head.seq + i \in J!StagedLeaves /\ kernel[k].staged[i].digest = leaves[head.seq + i].digest
    BY <1>5, <1>6
  <2>2. leaves[head.seq + i].digest[1] = head.seq + i
        /\ leaves[head.seq + i].digest[6] = head.root
    BY <1>1, <1>7, <2>1 DEF LeavesBind
  <2>. QED  BY <1>3, <2>1, <2>2 DEF Holds
<1>9. head.root = kernel[k].root
  <2>1. ~Overtaken(k)
    BY <1>7, <1>8 DEF Overtaken
  <2>2. PICK i \in DOMAIN kernel[k].staged : TRUE
    BY <1>1, <1>3 DEF Holds, IsSeq
  <2>. QED  BY <1>3, <1>8, <2>1, <2>2 DEF Rooted
<1>10. /\ call'[k].pc = "flushed" /\ DOMAIN call' = DOMAIN call
       /\ \A l \in Kernel : l # k => call'[l] = call[l]
  BY <1>1, <1>9
<1>11. Holds(k)' /\ Rooted(k)'
  BY <1>1, <1>2, <1>3, <1>8, <1>9 DEF Holds, Rooted, Grows
<1>12. HoldingInv(k)' /\ ~Claimed(k)'
  BY <1>1, <1>2, <1>3, <1>8, <1>10, <1>11 DEF HoldingInv, Claimed
<1>. QED  BY <1>1, <1>2, <1>10, <1>12, QuietStep

(* The host is told of leaves that are flushed.                            *)
LEMMA FlushReturnReports ==
    ASSUME ReportInv, NEW k \in Kernel, flush_returns(k)
    PROVE  ReportInv'
<1>1. /\ call[k].pc = "flushed" /\ UNCHANGED journal
      /\ DOMAIN kernel = Kernel /\ DOMAIN call = Kernel /\ HoldingInv(k) /\ LeavesBind
      /\ call' = [call EXCEPT ![k] = Idle]
      /\ kernel' = [kernel EXCEPT ![k].root = call[k].after, ![k].staged = <<>>]
      /\ reports' = reports \cup
             {[kernel |-> k, seq |-> kernel[k].staged[i].seq,
               outcome |-> "flushed"] : i \in DOMAIN kernel[k].staged}
  BY DEF ReportInv, flush_returns, HoldingInv
<1>2. Grows /\ LeavesBind' /\ UNCHANGED <<evidence, leaves>>
  BY <1>1, SameGrows DEF journal
<1>3. kernel[k] # Absent /\ IsSession(kernel[k]) /\ kernel[k].seq \in Nat /\ Holds(k)
  BY <1>1 DEF HoldingInv
<1>4. /\ IsSession(kernel'[k]) /\ kernel'[k].seq = kernel[k].seq /\ kernel'[k].staged = <<>>
      /\ call'[k] = Idle
      /\ \A l \in Kernel : l # k => kernel'[l] = kernel[l] /\ call'[l] = call[l]
      /\ DOMAIN kernel' = DOMAIN kernel /\ DOMAIN call' = DOMAIN call
  BY <1>1, <1>3 DEF IsSession
<1>5. Holds(k)' /\ Rooted(k)'
  BY <1>4 DEF Holds, Rooted, IsSeq
<1>6. HoldingInv(k)' /\ ~Claimed(k)'
  BY <1>3, <1>4, <1>5 DEF HoldingInv, Claimed, Idle, Absent, IsSession
<1>7. \A l \in Kernel : HoldingInv(l)'
  BY <1>2, <1>4, <1>6, HoldingFrame DEF ReportInv
<1>8. \A r \in reports' : r \notin reports =>
          /\ r.outcome = "flushed" /\ ~Successful(r)
          /\ r.seq \in DOMAIN leaves /\ leaves[r.seq].state = "flushed"
  <2>. SUFFICES ASSUME NEW r \in reports', r \notin reports
                PROVE  /\ r.outcome = "flushed" /\ ~Successful(r)
                       /\ r.seq \in DOMAIN leaves /\ leaves[r.seq].state = "flushed"
    OBVIOUS
  <2>1. PICK i \in DOMAIN kernel[k].staged :
            r = [kernel |-> k, seq |-> kernel[k].staged[i].seq, outcome |-> "flushed"]
    BY <1>1
  <2>2. r.seq = kernel[k].staged[i].seq /\ r.outcome = "flushed"
    BY <2>1
  <2>. QED  BY <1>1, <1>3, <2>2 DEF Successful, Holds, HoldingInv
<1>9. reports \subseteq reports'
  BY <1>1
<1>10. ClaimsApart'
  <2>1. \A l \in Kernel : Claimed(l)' => l # k /\ Claimed(l)
    BY <1>4, <1>6 DEF Claimed
  <2>2. \A l \in Kernel : Claimed(l)' =>
            /\ (kernel[l].seq + 1 \in DOMAIN evidence)'
            /\ (evidence[kernel[l].seq + 1].outcome = call[l].outcome)'
            /\ \A r \in reports' : Successful(r) => r.seq # kernel'[l].seq + 1
    BY <1>2, <1>4, <1>8, <2>1 DEF ReportInv, ClaimsApart
  <2>. QED  BY <1>4, <2>1, <2>2 DEF ReportInv, ClaimsApart
<1>11. ReportsDurable'
  <2>1. FlushNeverForks'
    BY <1>7 DEF HoldingInv, FlushNeverForks
  <2>2. \A r \in reports' :
           /\ Successful(r) => r.seq \in DOMAIN evidence' /\ evidence'[r.seq].outcome = r.outcome
           /\ r.outcome = "flushed" => r.seq \in DOMAIN leaves' /\ leaves'[r.seq].state = "flushed"
    BY <1>2, <1>8 DEF ReportInv, ReportsDurable
  <2>3. \A r, q \in reports' : Successful(r) /\ Successful(q) /\ r.seq = q.seq => r = q
    BY <1>8 DEF ReportInv, ReportsDurable
  <2>. QED  BY <2>1, <2>2, <2>3 DEF ReportsDurable
<1>. QED  BY <1>1, <1>2, <1>4, <1>7, <1>10, <1>11 DEF ReportInv

(* Before any kernel was opened nothing was reported.                      *)
LEMMA InitReports == Init => ReportInv
<1>. SUFFICES ASSUME Init PROVE ReportInv
  OBVIOUS
<1>1. /\ kernel = [k \in Kernel |-> Absent] /\ call = [k \in Kernel |-> Idle]
      /\ reports = {} /\ DOMAIN leaves = {}
  BY DEF Init, J!Init, J!Empty
<1>2. \A k \in Kernel : HoldingInv(k) /\ ~Claimed(k) /\ call[k].pc # "forked"
  BY <1>1 DEF HoldingInv, Claimed, Idle
<1>3. ReportsDurable /\ ClaimsApart /\ LeavesBind
  BY <1>1, <1>2 DEF ReportsDurable, FlushNeverForks, ClaimsApart, LeavesBind
<1>. QED  BY <1>1, <1>2, <1>3 DEF ReportInv

(* Every step of any kernel keeps ReportInv.                               *)
LEMMA StepReports ==
    ASSUME ReportInv, JournalShape, P!IInv, [Next]_vars
    PROVE  ReportInv'
<1>1. CASE UNCHANGED vars
  <2>1. /\ UNCHANGED <<evidence, leaves>> /\ UNCHANGED <<kernel, call, reports>>
    BY <1>1 DEF vars, journal
  <2>2. Grows /\ LeavesBind'
    BY <2>1, SameGrows DEF ReportInv
  <2>3. \A l \in Kernel : HoldingInv(l)'
    BY <2>1, <2>2, HoldingFrame DEF ReportInv
  <2>4. ReportsDurable' /\ ClaimsApart'
    BY <2>1 DEF ReportInv, ReportsDurable, ClaimsApart, FlushNeverForks, Claimed
  <2>. QED  BY <2>1, <2>2, <2>3, <2>4 DEF ReportInv
<1>2. ASSUME NEW k \in Kernel, Step(k) PROVE ReportInv'
  BY <1>2, OpenReports, EndReports, ReconcileReports, MediateReports, ExecuteReports,
     FinalizeReports, ReturnReports, FlushReports, FlushReturnReports DEF Step
<1>. QED  BY <1>1, <1>2 DEF Next

(* However many kernels share the journal: a host that was told of success *)
(* finds that very receipt, no two are told of the same one, and no batch  *)
(* is durable and yet refused.  The sink's late comparison of roots never  *)
(* fails, because a leaf's digest binds the root it started from.          *)
THEOREM ReportsKept == Spec => []ReportsDurable
<1>1. Init => ReportInv /\ P!IInv
  BY InitReports, InitJournal
<1>2. ReportInv /\ P!IInv /\ [Next]_vars => ReportInv' /\ P!IInv'
  BY StepReports, StepJournal, JournalShaped
<1>3. ReportInv => ReportsDurable
  BY DEF ReportInv
<1>. QED  BY <1>1, <1>2, <1>3, PTL DEF Spec

-----------------------------------------------------------------------------
(***************************************************************************)
(* Mediated execution by one kernel at a time: at most one process opens   *)
(* the session, and its host reconciles a fresh session before it uses it. *)
(* Crashes, failed transactions and lost sessions come at any point, any   *)
(* number of times.  Then the volatile session always knows what the       *)
(* journal knows, effects run once, and kernel and journal together        *)
(* implement the effect ledger.                                            *)
(***************************************************************************)

(* One kernel whose host reconciles.  Sole says so; with two kernels on one *)
(* journal an identical reservation is accepted twice and its effect may   *)
(* run twice.                                                              *)
Sole == HostReconciles /\ \A k, l \in Kernel : k = l

(* A session that was opened and knows nothing yet.                        *)
Blank(r) ==
    r.seq = 0 /\ r.root = ZeroRoot /\ r.nonces = {} /\ r.semantic = NoRoot /\ r.staged = <<>>

(* What a kernel that has mediated or reconciled knows, in or out of calls. *)
Informed(k) ==
    /\ kernel[k].nonces = AllNonces
    /\ kernel[k].semantic \in SemanticRoot
    /\ \A s \in DOMAIN reservations : reservations[s].semantic = kernel[k].semantic

(* At which point of the journal's story each point of a call is.          *)
InStep(k) ==
    /\ call[k].pc \in {"executed", "answered"} => call[k].outcome \in J!Outcome
    /\ call[k].pc = "idle" =>
           /\ DOMAIN reservations = 1..kernel[k].seq
           /\ kernel[k].root = head.root /\ kernel[k].staged = JStaged
    /\ call[k].pc \in {"reserved", "executed", "answered"} =>
           DOMAIN reservations = 1..(kernel[k].seq + 1)
    /\ call[k].pc \in {"reserved", "executed"} =>
           /\ kernel[k].root = head.root /\ kernel[k].staged = JStaged
           /\ kernel[k].seq + 1 \in Unsettled
           /\ call[k].nonce \in Nonce
           /\ call[k].nonce = reservations[kernel[k].seq + 1].nonce
           /\ effects[call[k].nonce] = IF call[k].pc = "reserved" THEN 0 ELSE 1
    /\ call[k].pc = "answered" =>
           /\ IF call[k].outcome = "committed" THEN call[k].after = head.root
              ELSE kernel[k].root = head.root
           /\ JStaged = IF call[k].outcome = "buffered"
                        THEN Append(kernel[k].staged, [seq |-> kernel[k].seq + 1, digest |-> call[k].digest])
                        ELSE kernel[k].staged
    /\ call[k].pc = "flushed" =>
           /\ kernel[k].seq > 0 /\ DOMAIN reservations = 1..kernel[k].seq
           /\ call[k].after = head.root /\ JStaged = <<>>
    /\ call[k].pc # "forked"

(* There is room for what is being mediated.                               *)
Roomy(k) ==
    /\ Len(kernel[k].staged) <= MaxStaged
    /\ (\/ call[k].pc = "reserved" /\ call[k].durability = "batched"
        \/ call[k].pc = "executed" /\ call[k].outcome = "buffered")
           => Len(kernel[k].staged) < MaxStaged

KernelInv(k) ==
    /\ call[k].pc = "idle" => call[k] = Idle
    /\ call[k].pc \in Pc
    /\ kernel[k] = Absent => call[k] = Idle
    /\ kernel[k] # Absent =>
           /\ IsSession(kernel[k]) /\ kernel[k].state \in {"open", "cancelled", "closed"}
           /\ kernel[k].seq \in Nat
           /\ call[k] = Idle /\ kernel[k].seq = 0 => Blank(kernel[k])
           /\ call[k] # Idle \/ kernel[k].seq > 0 => Informed(k) /\ InStep(k) /\ Roomy(k)

(* What the journal holds on behalf of the kernel, whether one is alive    *)
(* or not: that an effect runs only after its token was reserved, and that *)
(* a fresh kernel has room for the whole history.                          *)
HistoryInv ==
    /\ effects \in [Nonce -> {0, 1}]
    /\ \A n \in Nonce : J!FreshNonce(reservations, n) => effects[n] = 0
    /\ J!CanReconcile
    /\ IsFiniteSet(AllNonces)
    /\ Cardinality(AllNonces) = J!next_reservation_sequence - 1
    /\ Cardinality(AllNonces) <= MaxNonces
    /\ J!staged_count <= MaxStaged
    /\ \A s \in J!InState("staged") : evidence[s].outcome = "buffered"

SoleInv ==
    /\ DOMAIN kernel = Kernel /\ DOMAIN call = Kernel
    /\ \A k \in Kernel : KernelInv(k)
    /\ HistoryInv
    /\ losses \in 0..MaxLosses

-----------------------------------------------------------------------------
(* Every step of the sole kernel keeps SoleInv.                            *)

(* A step that leaves the journal and the effects alone keeps the history. *)
LEMMA JournalSame ==
    ASSUME UNCHANGED journal
    PROVE  /\ UNCHANGED <<reservations, evidence, leaves, batches, head>>
           /\ UNCHANGED <<JStaged, J!staged_count, Settled, Unsettled, AllNonces>>
           /\ UNCHANGED J!next_reservation_sequence
<1>1. UNCHANGED <<reservations, evidence, leaves, batches, head>>
  BY DEF journal
<1>2. UNCHANGED <<J!staged_count, Settled, Unsettled, AllNonces>>
  BY <1>1 DEF J!staged_count, J!StagedLeaves, Settled, Unsettled, J!InState, AllNonces
<1>3. UNCHANGED JStaged
  BY <1>1, <1>2 DEF JStaged
<1>4. UNCHANGED J!next_reservation_sequence
  BY <1>1 DEF J!next_reservation_sequence, J!NextKey
<1>. QED  BY <1>1, <1>2, <1>3, <1>4

(* So the history stands.                                                  *)
LEMMA HistorySame ==
    ASSUME HistoryInv, UNCHANGED journal, UNCHANGED effects
    PROVE  HistoryInv'
BY JournalSame DEF HistoryInv, J!FreshNonce, J!CanReconcile, J!InState

(* The leaves the journal holds staged are as many as staged_count says.   *)
LEMMA StagedLength ==
    ASSUME JournalShape, HistoryInv
    PROVE  Len(JStaged) = J!staged_count /\ Len(JStaged) <= MaxStaged
<1>1. J!staged_count \in Nat /\ J!staged_count <= MaxStaged
  BY DEF JournalShape, HistoryInv
<1>2. Len(JStaged) = J!staged_count
  BY <1>1 DEF JStaged
<1>. QED  BY <1>1, <1>2

(* It is enough to look at the kernel that took the step.                  *)
LEMMA SoleKernel ==
    ASSUME Sole, SoleInv, NEW k \in Kernel, KernelInv(k)', HistoryInv',
           DOMAIN kernel' = DOMAIN kernel, DOMAIN call' = DOMAIN call, losses' \in 0..MaxLosses
    PROVE  SoleInv'
<1>1. \A l \in Kernel : l = k
  BY DEF Sole
<1>2. \A l \in Kernel : KernelInv(l)'
  BY <1>1
<1>. QED  BY <1>2 DEF SoleInv

(* Opening and ending a session, and losing it.                            *)
LEMMA OpenSole ==
    ASSUME Sole, SoleInv, NEW k \in Kernel, session_open(k)
    PROVE  SoleInv'
<1>1. kernel[k] = Absent /\ call[k] = Idle /\ HistoryInv /\ losses \in 0..MaxLosses
      /\ DOMAIN kernel = Kernel
  BY DEF SoleInv, KernelInv, session_open
<1>2. kernel' = [kernel EXCEPT ![k] = FreshSession] /\ UNCHANGED <<journal, call, effects, losses>>
  BY DEF session_open
<1>3. HistoryInv'
  BY <1>1, <1>2, HistorySame
<1>4. kernel'[k] = FreshSession /\ call'[k] = Idle
  BY <1>1, <1>2
<1>5. FreshSession # Absent
  BY DEF FreshSession, Absent
<1>6. KernelInv(k)'
  <2>1. (call[k].pc = "idle" => call[k] = Idle)' /\ (call[k].pc \in Pc)'
    BY <1>4 DEF Idle, Pc
  <2>2. (IsSession(kernel[k]) /\ kernel[k].state \in {"open", "cancelled", "closed"})'
    BY <1>4 DEF FreshSession, IsSession
  <2>3. (kernel[k].seq = 0 /\ Blank(kernel[k]))'
    BY <1>4 DEF FreshSession, Blank
  <2>. QED  BY <1>4, <1>5, <2>1, <2>2, <2>3 DEF KernelInv
<1>. QED  BY <1>1, <1>2, <1>3, <1>6, SoleKernel

(* A kernel that is gone leaves the history behind.                        *)
LEMMA GoneSole ==
    ASSUME Sole, SoleInv, NEW k \in Kernel, session_release(k) \/ crash(k)
    PROVE  SoleInv'
<1>1. HistoryInv /\ losses \in 0..MaxLosses /\ DOMAIN kernel = Kernel /\ DOMAIN call = Kernel
  BY DEF SoleInv
<1>2. /\ kernel' = [kernel EXCEPT ![k] = Absent]
      /\ DOMAIN call' = DOMAIN call /\ call'[k] = Idle
      /\ UNCHANGED <<journal, effects>>
      /\ losses' \in 0..MaxLosses
  BY <1>1, MediationAssumption DEF session_release, crash
<1>3. HistoryInv'
  BY <1>1, <1>2, HistorySame
<1>4. kernel'[k] = Absent
  BY <1>1, <1>2
<1>5. KernelInv(k)'
  BY <1>2, <1>4 DEF KernelInv, Idle, Pc
<1>. QED  BY <1>1, <1>2, <1>3, <1>5, SoleKernel

(* A cancelled or closed session still knows what it knew.                 *)
LEMMA EndSole ==
    ASSUME Sole, SoleInv, NEW k \in Kernel, session_cancel(k) \/ session_close(k)
    PROVE  SoleInv'
<1>1. HistoryInv /\ losses \in 0..MaxLosses /\ DOMAIN kernel = Kernel /\ KernelInv(k)
  BY DEF SoleInv
<1>2. PICK st \in {"cancelled", "closed"} : kernel' = [kernel EXCEPT ![k].state = st]
  BY DEF session_cancel, session_close
<1>3. /\ kernel[k].state # "absent"
      /\ UNCHANGED <<journal, call, effects>>
      /\ losses' \in 0..MaxLosses
      /\ call[k] = Idle
  BY <1>1, MediationAssumption DEF session_cancel, session_close, Live
<1>4. kernel[k] # Absent
  BY <1>3 DEF Absent
<1>5. HistoryInv'
  BY <1>1, <1>3, HistorySame
<1>6. IsSession(kernel[k])
  BY <1>1, <1>4 DEF KernelInv
<1>7. /\ IsSession(kernel'[k]) /\ kernel'[k].state = st
      /\ kernel'[k].root = kernel[k].root /\ kernel'[k].seq = kernel[k].seq
      /\ kernel'[k].nonces = kernel[k].nonces /\ kernel'[k].semantic = kernel[k].semantic
      /\ kernel'[k].staged = kernel[k].staged
  BY <1>1, <1>2, <1>6 DEF IsSession
<1>8. kernel'[k] # Absent
  BY <1>7 DEF Absent
<1>9. KernelInv(k)'
  BY <1>1, <1>3, <1>4, <1>7, <1>8, JournalSame
     DEF KernelInv, Blank, Informed, InStep, Roomy, Idle, Pc
<1>. QED  BY <1>1, <1>2, <1>3, <1>5, <1>9, SoleKernel

(* A fresh session that is handed the journal's reconciliation.            *)
LEMMA ReconcileSole ==
    ASSUME Sole, SoleInv, JournalShape, NEW k \in Kernel, session_reconcile_evidence(k)
    PROVE  SoleInv'
<1>1. HistoryInv /\ losses \in 0..MaxLosses /\ DOMAIN kernel = Kernel /\ KernelInv(k)
  BY DEF SoleInv
<1>2. /\ call[k] = Idle /\ DOMAIN reservations # {}
      /\ kernel' = [kernel EXCEPT ![k] =
            [state |-> "open", root |-> J!reconciliation.root, seq |-> J!reconciliation.seq,
             nonces |-> J!reconciliation.nonces, semantic |-> J!reconciliation.semantic,
             staged |-> J!reconciliation.staged]]
      /\ UNCHANGED <<journal, call, effects, losses>>
  BY DEF session_reconcile_evidence, Restored
<1>3. HistoryInv'
  BY <1>1, <1>2, HistorySame
<1>4. /\ J!reconciliation.root = head.root
      /\ J!reconciliation.seq = J!next_reservation_sequence - 1
      /\ J!reconciliation.nonces = AllNonces
      /\ J!reconciliation.semantic = reservations[1].semantic
      /\ J!reconciliation.staged = JStaged
  BY DEF J!reconciliation, AllNonces, JournalShape
<1>5. /\ IsSession(kernel'[k]) /\ kernel'[k].state = "open"
      /\ kernel'[k].root = head.root /\ kernel'[k].seq = J!next_reservation_sequence - 1
      /\ kernel'[k].nonces = AllNonces /\ kernel'[k].semantic = reservations[1].semantic
      /\ kernel'[k].staged = JStaged
  BY <1>1, <1>2, <1>4 DEF IsSession
<1>6. J!next_reservation_sequence - 1 \in Nat \ {0}
  <2>1. J!next_reservation_sequence \in Nat
    BY DEF JournalShape
  <2>. QED  BY <1>2, <2>1 DEF JournalShape
<1>7. 1 \in DOMAIN reservations
  BY <1>6 DEF JournalShape
<1>8. \A s \in DOMAIN reservations : reservations[s].semantic = reservations[1].semantic
  BY <1>1, <1>7 DEF HistoryInv, J!CanReconcile
<1>9. KernelInv(k)'
  <2>1. kernel'[k] # Absent
    BY <1>5 DEF Absent
  <2>2. Informed(k)'
    BY <1>2, <1>5, <1>7, <1>8, JournalSame DEF Informed, JournalShape
  <2>3. InStep(k)' /\ Roomy(k)' /\ call'[k].pc = "idle"
    BY SMTT(30), <1>1, <1>2, <1>5, JournalSame, StagedLength DEF InStep, Roomy, Idle, JournalShape
  <2>. QED  BY <1>2, <1>5, <1>6, <2>1, <2>2, <2>3 DEF KernelInv, Pc
<1>. QED  BY <1>1, <1>2, <1>3, <1>9, SoleKernel

(* A mediation reserves its token: the reservation is never a replay,      *)
(* since the session's sequence is the journal's.                          *)
LEMMA MediateReady ==
    ASSUME Sole, SoleInv, JournalShape, NEW k \in Kernel, Live(k), call[k] = Idle, HostReady(k)
    PROVE  /\ kernel[k] # Absent /\ IsSession(kernel[k]) /\ kernel[k].seq \in Nat
           /\ DOMAIN reservations = 1..kernel[k].seq
           /\ kernel[k].staged = JStaged /\ kernel[k].nonces = AllNonces
           /\ \A s \in DOMAIN reservations :
                  kernel[k].semantic # NoRoot /\ reservations[s].semantic = kernel[k].semantic
<1>1. KernelInv(k) /\ HostReconciles /\ kernel[k] # Absent
  BY DEF SoleInv, Sole, Live, Absent
<1>2. IsSession(kernel[k]) /\ kernel[k].seq \in Nat
  BY <1>1 DEF KernelInv
<1>3. CASE kernel[k].seq > 0
  <2>1. Informed(k) /\ InStep(k) /\ call[k].pc = "idle"
    BY <1>1, <1>3 DEF KernelInv, Idle
  <2>. QED  BY <1>1, <1>2, <2>1, MediationAssumption DEF Informed, InStep
<1>4. CASE kernel[k].seq = 0
  <2>1. Blank(kernel[k]) /\ DOMAIN reservations = {}
    BY <1>1, <1>4 DEF KernelInv, HostReady
  <2>2. J!staged_count = 0
    <3>1. 1..Settled = {} /\ Settled \in Nat
      BY <2>1 DEF JournalShape
    <3>2. Settled = 0
      BY <3>1
    <3>. QED  BY <3>2 DEF Settled, JournalShape
  <2>3. JStaged = <<>> /\ AllNonces = {}
    BY <2>1, <2>2 DEF JStaged, AllNonces
  <2>. QED  BY <1>1, <1>2, <1>4, <2>1, <2>3 DEF Blank
<1>. QED  BY <1>2, <1>3, <1>4

(* Reserving consumes the token in the kernel and in the journal alike.    *)
LEMMA MediateSole ==
    ASSUME Sole, SoleInv, JournalShape, JournalShape', NEW k \in Kernel, strict_mediate(k)
    PROVE  SoleInv'
<1>1. HistoryInv /\ losses \in 0..MaxLosses /\ DOMAIN kernel = Kernel /\ DOMAIN call = Kernel
      /\ KernelInv(k)
  BY DEF SoleInv
<1>2. Live(k) /\ call[k] = Idle /\ HostReady(k) /\ UNCHANGED <<effects, reports, losses>>
  BY DEF strict_mediate
<1>3. PICK nonce \in Nonce, span \in Span, semantic \in SemanticRoot,
           durability \in {"strict", "batched"} :
           /\ token_accepted(k, nonce, semantic, durability)
           /\ J!reserve(kernel[k].seq + 1,
                  [nonce |-> nonce, span |-> span, semantic |-> semantic,
                   before |-> kernel[k].root])
           /\ kernel' = [kernel EXCEPT ![k].nonces = @ \cup {nonce}, ![k].semantic = semantic]
           /\ call' = [call EXCEPT ![k] =
                  [pc |-> "reserved", nonce |-> nonce, span |-> span,
                   semantic |-> semantic, durability |-> durability]]
  BY DEF strict_mediate
<1>. DEFINE s == kernel[k].seq + 1
            r == [nonce |-> nonce, span |-> span, semantic |-> semantic, before |-> kernel[k].root]
<1>4. /\ kernel[k] # Absent /\ IsSession(kernel[k]) /\ kernel[k].seq \in Nat
      /\ DOMAIN reservations = 1..kernel[k].seq
      /\ kernel[k].staged = JStaged /\ kernel[k].nonces = AllNonces
      /\ \A t \in DOMAIN reservations :
             kernel[k].semantic # NoRoot /\ reservations[t].semantic = kernel[k].semantic
  BY <1>2, MediateReady
<1>5. s \notin DOMAIN reservations
  BY <1>4
<1>6. r.nonce = nonce /\ r.semantic = semantic /\ r.before = kernel[k].root
  OBVIOUS
<1>. HIDE DEF r
<1>7. /\ J!reserve(s, r)
      /\ Unsettled = {} /\ s = Settled + 1 /\ r.before = head.root
      /\ J!FreshNonce(reservations, r.nonce)
      /\ DOMAIN reservations' = DOMAIN reservations \cup {s}
      /\ reservations'[s] = [nonce |-> r.nonce, span |-> r.span, semantic |-> r.semantic,
                             before |-> r.before, state |-> "reserved"]
      /\ \A t \in DOMAIN reservations : reservations'[t] = reservations[t]
      /\ UNCHANGED <<evidence, leaves, batches, head>>
      /\ UNCHANGED <<JStaged, J!staged_count, Settled>>
      /\ AllNonces' = AllNonces \cup {r.nonce}
      /\ Unsettled' = {s}
  BY <1>3, <1>5, ReserveEffect DEF r
<1>8. /\ IsSession(kernel'[k]) /\ kernel'[k].state = kernel[k].state
      /\ kernel'[k].root = kernel[k].root /\ kernel'[k].seq = kernel[k].seq
      /\ kernel'[k].nonces = kernel[k].nonces \cup {nonce} /\ kernel'[k].semantic = semantic
      /\ kernel'[k].staged = kernel[k].staged
      /\ DOMAIN kernel' = DOMAIN kernel
  BY <1>1, <1>3, <1>4 DEF IsSession
<1>9. /\ call'[k].pc = "reserved" /\ call'[k].nonce = nonce /\ call'[k].durability = durability
      /\ DOMAIN call' = DOMAIN call
  BY <1>1, <1>3
<1>10. /\ durability = "batched" => Len(kernel[k].staged) < MaxStaged
       /\ kernel[k].semantic \in {NoRoot, semantic} /\ Cardinality(kernel[k].nonces) < MaxNonces
  BY <1>3 DEF token_accepted
<1>11. \A t \in DOMAIN reservations' : reservations'[t].semantic = semantic
  BY <1>4, <1>6, <1>7, <1>10
<1>12. effects[nonce] = 0
  BY <1>1, <1>6, <1>7 DEF HistoryInv
<1>13. HistoryInv'
  <2>1. \A n \in Nonce : J!FreshNonce(reservations, n)' => effects[n] = 0
    BY <1>1, <1>7 DEF HistoryInv, J!FreshNonce
  <2>2. J!CanReconcile'
    BY <1>11 DEF J!CanReconcile
  <2>3. /\ IsFiniteSet(AllNonces') /\ Cardinality(AllNonces') = Cardinality(AllNonces) + 1
    <3>1. nonce \notin AllNonces
      BY <1>6, <1>7 DEF J!FreshNonce, AllNonces
    <3>2. IsFiniteSet(AllNonces)
      BY <1>1 DEF HistoryInv
    <3>. QED  BY <1>6, <1>7, <3>1, <3>2, FS_AddElement
  <2>4. Cardinality(AllNonces) = Settled /\ J!next_reservation_sequence' = Settled + 2
        /\ Settled \in Nat
    <3>1. Cardinality(AllNonces) = J!next_reservation_sequence - 1
      BY <1>1 DEF HistoryInv
    <3>2. J!next_reservation_sequence = Settled + 1 /\ Settled \in Nat
      BY <1>7 DEF JournalShape
    <3>3. J!next_reservation_sequence' = Settled' + 2
      BY <1>7 DEF JournalShape
    <3>. QED  BY <1>7, <3>1, <3>2, <3>3
  <2>5. Cardinality(AllNonces') = J!next_reservation_sequence' - 1
        /\ Cardinality(AllNonces') <= MaxNonces
    BY <1>4, <1>10, <2>3, <2>4, MediationAssumption
  <2>6. (\A t \in J!InState("staged") : evidence[t].outcome = "buffered")'
    <3>1. J!InState("staged")' = J!InState("staged")
      BY <1>7 DEF J!InState
    <3>. QED  BY <1>1, <1>7, <3>1 DEF HistoryInv
  <2>. QED  BY <1>1, <1>2, <1>7, <2>1, <2>2, <2>3, <2>5, <2>6 DEF HistoryInv
<1>14. KernelInv(k)'
  <2>1. kernel'[k] # Absent /\ kernel'[k].state \in {"open", "cancelled", "closed"}
    BY <1>1, <1>4, <1>8 DEF Absent, KernelInv
  <2>2. Informed(k)'
    BY <1>4, <1>6, <1>7, <1>8, <1>11 DEF Informed
  <2>3. Roomy(k)'
    BY <1>1, <1>4, <1>8, <1>9, <1>10, StagedLength DEF Roomy
  <2>4. (DOMAIN reservations = 1..(kernel[k].seq + 1))'
    <3>1. 1..kernel[k].seq \cup {s} = 1..s
      BY <1>4
    <3>. QED  BY <1>4, <1>7, <1>8, <3>1
  <2>5. InStep(k)'
    <3>1. (kernel[k].root = head.root /\ kernel[k].staged = JStaged)'
      BY <1>4, <1>6, <1>7, <1>8
    <3>2. (kernel[k].seq + 1 \in Unsettled)' /\ (reservations[kernel[k].seq + 1].nonce = nonce)'
      BY <1>6, <1>7, <1>8
    <3>3. effects'[call'[k].nonce] = 0
      BY <1>2, <1>9, <1>12
    <3>. QED  BY <1>9, <2>4, <3>1, <3>2, <3>3 DEF InStep
  <2>. QED  BY <1>4, <1>8, <1>9, <2>1, <2>2, <2>3, <2>5 DEF KernelInv, Pc, Idle
<1>. QED  BY <1>1, <1>2, <1>8, <1>9, <1>13, <1>14, SoleKernel

(* A kernel that is in a call was informed before.                         *)
LEMMA InCall ==
    ASSUME SoleInv, NEW k \in Kernel, call[k].pc # "idle"
    PROVE  /\ kernel[k] # Absent /\ IsSession(kernel[k]) /\ kernel[k].seq \in Nat
           /\ kernel[k].state \in {"open", "cancelled", "closed"}
           /\ Informed(k) /\ InStep(k) /\ Roomy(k)
           /\ HistoryInv /\ losses \in 0..MaxLosses
           /\ DOMAIN kernel = Kernel /\ DOMAIN call = Kernel
BY DEF SoleInv, KernelInv, Idle

(* The adapter runs for a token whose effect has not run.                  *)
LEMMA ExecuteSole ==
    ASSUME Sole, SoleInv, NEW k \in Kernel, adapter_execute(k)
    PROVE  SoleInv'
<1>1. call[k].pc = "reserved" /\ UNCHANGED <<journal, kernel, reports, losses>>
      /\ effects' = [effects EXCEPT ![call[k].nonce] = @ + 1]
  BY DEF adapter_execute
<1>2. PICK answer \in {"committed", "indeterminate"} :
           call' = [call EXCEPT ![k] =
               [pc |-> "executed", nonce |-> call[k].nonce, span |-> call[k].span,
                semantic |-> call[k].semantic,
                outcome |-> MediationOutcome(answer, call[k].durability)]]
  BY DEF adapter_execute
<1>3. /\ kernel[k] # Absent /\ IsSession(kernel[k]) /\ kernel[k].seq \in Nat
      /\ kernel[k].state \in {"open", "cancelled", "closed"}
      /\ Informed(k) /\ InStep(k) /\ Roomy(k)
      /\ HistoryInv /\ losses \in 0..MaxLosses
      /\ DOMAIN kernel = Kernel /\ DOMAIN call = Kernel
  BY <1>1, InCall
<1>4. call'[k].pc = "executed" /\ call'[k].nonce = call[k].nonce /\ DOMAIN call' = DOMAIN call
      /\ call'[k].outcome = MediationOutcome(answer, call[k].durability)
  BY <1>2, <1>3
<1>5. call'[k].outcome \in J!Outcome /\ (call'[k].outcome = "buffered" => call[k].durability = "batched")
  BY <1>4 DEF MediationOutcome, J!Outcome
<1>6. call[k].nonce \in Nonce /\ effects[call[k].nonce] = 0
      /\ kernel[k].seq + 1 \in DOMAIN reservations
      /\ reservations[kernel[k].seq + 1].nonce = call[k].nonce
  BY <1>1, <1>3 DEF InStep, Unsettled, J!InState
<1>7. effects \in [Nonce -> {0, 1}]
  BY <1>3 DEF HistoryInv
<1>8. effects' \in [Nonce -> {0, 1}] /\ effects'[call[k].nonce] = 1
      /\ \A n \in Nonce : n # call[k].nonce => effects'[n] = effects[n]
  BY <1>1, <1>6, <1>7
<1>9. HistoryInv'
  <2>1. \A n \in Nonce : J!FreshNonce(reservations, n)' => effects'[n] = 0
    BY <1>1, <1>3, <1>6, <1>8 DEF HistoryInv, J!FreshNonce, journal
  <2>. QED  BY <1>1, <1>3, <1>8, <2>1, JournalSame DEF HistoryInv, J!CanReconcile, J!InState
<1>10. KernelInv(k)'
  <2>1. Informed(k)' /\ Roomy(k)' /\ kernel'[k] = kernel[k]
    BY <1>1, <1>3, <1>4, <1>5, JournalSame DEF Informed, Roomy
  <2>2. InStep(k)'
    BY <1>1, <1>3, <1>4, <1>5, <1>8, JournalSame DEF InStep
  <2>. QED  BY <1>3, <1>4, <2>1, <2>2 DEF KernelInv, Pc, Idle
<1>. QED  BY <1>1, <1>3, <1>4, <1>9, <1>10, SoleKernel

(* Settling rows adds no token: the history stands as far as the staged    *)
(* leaves fit and were buffered.                                           *)
LEMMA HistorySettled ==
    ASSUME HistoryInv, UNCHANGED effects, DOMAIN reservations' = DOMAIN reservations,
           \A t \in DOMAIN reservations : /\ reservations'[t].nonce = reservations[t].nonce
                                          /\ reservations'[t].semantic = reservations[t].semantic,
           AllNonces' = AllNonces, J!staged_count' <= MaxStaged,
           \A t \in J!InState("staged")' : evidence'[t].outcome = "buffered"
    PROVE  HistoryInv'
<1>1. UNCHANGED J!next_reservation_sequence
  BY DEF J!next_reservation_sequence, J!NextKey
<1>2. \A n \in Nonce : J!FreshNonce(reservations, n)' => effects'[n] = 0
  BY DEF HistoryInv, J!FreshNonce
<1>3. J!CanReconcile'
  BY DEF HistoryInv, J!CanReconcile
<1>. QED  BY <1>1, <1>2, <1>3 DEF HistoryInv

(* Nor does it change what the kernel was informed of.                     *)
LEMMA InformedSettled ==
    ASSUME NEW k \in Kernel, Informed(k), DOMAIN reservations' = DOMAIN reservations,
           kernel'[k].nonces = kernel[k].nonces, kernel'[k].semantic = kernel[k].semantic,
           \A t \in DOMAIN reservations : reservations'[t].semantic = reservations[t].semantic,
           AllNonces' = AllNonces
    PROVE  Informed(k)'
BY DEF Informed

(* The observation is recorded: appended when nothing is staged, or staged *)
(* behind what is.                                                         *)
LEMMA FinalizeSole ==
    ASSUME Sole, SoleInv, JournalShape, JournalShape', NEW k \in Kernel, finalize(k)
    PROVE  SoleInv'
<1>1. call[k].pc = "executed" /\ UNCHANGED <<kernel, effects, reports, losses>>
  BY DEF finalize
<1>2. PICK c \in CommittedRoot :
           /\ IF SinkReceipt(k, c).outcome = "buffered"
              THEN J!stage_batched(kernel[k].seq + 1, SinkReceipt(k, c))
              ELSE J!append(kernel[k].seq + 1, SinkReceipt(k, c))
           /\ Answered(k, SinkReceipt(k, c).outcome, SinkReceipt(k, c).after,
                       EvidenceDigest(k, SinkReceipt(k, c)))
  BY DEF finalize
<1>3. /\ kernel[k] # Absent /\ IsSession(kernel[k]) /\ kernel[k].seq \in Nat
      /\ kernel[k].state \in {"open", "cancelled", "closed"}
      /\ Informed(k) /\ InStep(k) /\ Roomy(k)
      /\ HistoryInv /\ losses \in 0..MaxLosses
      /\ DOMAIN kernel = Kernel /\ DOMAIN call = Kernel
  BY <1>1, InCall
<1>. DEFINE s == kernel[k].seq + 1
            r == SinkReceipt(k, c)
<1>4. /\ r.outcome = call[k].outcome /\ r.outcome \in J!Outcome
      /\ r.outcome # "committed" => r.after = kernel[k].root
  BY <1>1, <1>3 DEF SinkReceipt, InStep
<1>. HIDE DEF r
<1>5. /\ call'[k].pc = "answered" /\ call'[k].outcome = r.outcome /\ call'[k].after = r.after
      /\ call'[k].digest = EvidenceDigest(k, r)
      /\ DOMAIN call' = DOMAIN call
  BY <1>2, <1>3 DEF Answered, r
<1>6. /\ DOMAIN reservations = 1..s /\ kernel[k].root = head.root /\ kernel[k].staged = JStaged
  BY <1>1, <1>3 DEF InStep
<1>7. ASSUME Informed(k)', InStep(k)' PROVE KernelInv(k)'
  BY <1>1, <1>3, <1>5, <1>7 DEF KernelInv, Roomy, Pc, Idle
<1>8. CASE r.outcome = "buffered"
  <2>1. J!stage_batched(s, r)
    BY <1>2, <1>8 DEF r
  <2>2. /\ DOMAIN reservations' = DOMAIN reservations
        /\ \A t \in DOMAIN reservations :
               /\ reservations'[t].nonce = reservations[t].nonce
               /\ reservations'[t].semantic = reservations[t].semantic
               /\ reservations'[t].state = IF t = s THEN "staged" ELSE reservations[t].state
        /\ \A t \in DOMAIN evidence : t \in DOMAIN evidence' /\ evidence'[t] = evidence[t]
        /\ evidence'[s] = r /\ UNCHANGED head
        /\ J!staged_count' = J!staged_count + 1
        /\ JStaged' = Append(JStaged,
               [seq |-> s, digest |-> J!batched_evidence_leaf(s, J!staged_count, r)])
        /\ AllNonces' = AllNonces
    BY <2>1, StageEffect
  <2>3. J!staged_count' <= MaxStaged
    <3>1. Len(kernel[k].staged) < MaxStaged
      BY <1>1, <1>3, <1>4, <1>8 DEF Roomy
    <3>2. J!staged_count \in Nat
      BY DEF JournalShape
    <3>3. Len(JStaged) = J!staged_count
      BY <3>2 DEF JStaged
    <3>. QED  BY <1>6, <2>2, <3>1, <3>2, <3>3, MediationAssumption
  <2>4. \A t \in J!InState("staged")' : evidence'[t].outcome = "buffered"
    <3>. SUFFICES ASSUME NEW t \in J!InState("staged")' PROVE evidence'[t].outcome = "buffered"
      OBVIOUS
    <3>1. CASE t = s
      BY <1>8, <2>2, <3>1
    <3>2. CASE t # s
      <4>1. t \in J!InState("staged")
        BY <2>2, <3>2 DEF J!InState
      <4>2. t \in DOMAIN evidence
        BY <4>1 DEF JournalShape, J!InState, Unsettled
      <4>. QED  BY <1>3, <2>2, <4>1, <4>2 DEF HistoryInv
    <3>. QED  BY <3>1, <3>2
  <2>5. HistoryInv'
    BY <1>1, <1>3, <2>2, <2>3, <2>4, HistorySettled
  <2>6. Informed(k)'
    BY <1>1, <1>3, <2>2, InformedSettled
  <2>7. call'[k].digest = J!batched_evidence_leaf(s, J!staged_count, r)
    BY <1>5, <1>8 DEF EvidenceDigest
  <2>8. InStep(k)'
    BY <1>1, <1>4, <1>5, <1>6, <1>8, <2>2, <2>7 DEF InStep
  <2>. QED  BY <1>1, <1>3, <1>5, <1>7, <2>5, <2>6, <2>8, SoleKernel
<1>9. CASE r.outcome # "buffered"
  <2>1. J!append(s, r)
    BY <1>2, <1>9 DEF r
  <2>2. /\ DOMAIN reservations' = DOMAIN reservations
        /\ \A t \in DOMAIN reservations :
               /\ reservations'[t].nonce = reservations[t].nonce
               /\ reservations'[t].semantic = reservations[t].semantic
               /\ reservations'[t].state = IF t = s THEN "finalized" ELSE reservations[t].state
        /\ \A t \in DOMAIN evidence : t \in DOMAIN evidence' /\ evidence'[t] = evidence[t]
        /\ head' = [seq |-> s, root |-> r.after]
        /\ J!staged_count = 0 /\ J!staged_count' = 0
        /\ JStaged = <<>> /\ JStaged' = <<>>
        /\ AllNonces' = AllNonces
    BY <2>1, AppendEffect
  <2>3. \A t \in J!InState("staged")' : evidence'[t].outcome = "buffered"
    <3>. SUFFICES ASSUME NEW t \in J!InState("staged")' PROVE evidence'[t].outcome = "buffered"
      OBVIOUS
    <3>1. t \in J!InState("staged")
      BY <2>2 DEF J!InState
    <3>2. t \in DOMAIN evidence
      BY <3>1 DEF JournalShape, J!InState, Unsettled
    <3>. QED  BY <1>3, <2>2, <3>1, <3>2 DEF HistoryInv
  <2>4. HistoryInv'
    BY <1>1, <1>3, <2>2, <2>3, HistorySettled, MediationAssumption
  <2>5. Informed(k)'
    BY <1>1, <1>3, <2>2, InformedSettled
  <2>6. InStep(k)'
    BY <1>1, <1>4, <1>5, <1>6, <1>9, <2>2 DEF InStep
  <2>. QED  BY <1>1, <1>3, <1>5, <1>7, <2>4, <2>5, <2>6, SoleKernel
<1>. QED  BY <1>8, <1>9

(* Nothing was recorded, and the outcome is unknown.                       *)
LEMMA FailSole ==
    ASSUME Sole, SoleInv, NEW k \in Kernel, finalize_fails(k)
    PROVE  SoleInv'
<1>1. call[k].pc = "executed" /\ UNCHANGED <<journal, kernel, effects, reports, losses>>
      /\ call' = [call EXCEPT ![k] =
            [pc |-> "answered", nonce |-> call[k].nonce, outcome |-> "indeterminate",
             after |-> kernel[k].root, digest |-> <<>>]]
  BY DEF finalize_fails, Answered
<1>2. /\ kernel[k] # Absent /\ IsSession(kernel[k]) /\ kernel[k].seq \in Nat
      /\ kernel[k].state \in {"open", "cancelled", "closed"}
      /\ Informed(k) /\ InStep(k) /\ Roomy(k)
      /\ HistoryInv /\ losses \in 0..MaxLosses
      /\ DOMAIN kernel = Kernel /\ DOMAIN call = Kernel
  BY <1>1, InCall
<1>3. call'[k].pc = "answered" /\ call'[k].outcome = "indeterminate" /\ DOMAIN call' = DOMAIN call
  BY <1>1, <1>2
<1>4. HistoryInv'
  BY <1>1, <1>2, HistorySame
<1>5. Informed(k)' /\ InStep(k)' /\ Roomy(k)'
  BY <1>1, <1>2, <1>3, JournalSame DEF Informed, InStep, Roomy, J!Outcome
<1>6. KernelInv(k)'
  BY <1>1, <1>2, <1>3, <1>5 DEF KernelInv, Pc, Idle
<1>. QED  BY <1>1, <1>2, <1>3, <1>4, <1>6, SoleKernel

(* The mediation returns and the session moves on with the journal.        *)
LEMMA ReturnSole ==
    ASSUME Sole, SoleInv, JournalShape, NEW k \in Kernel, mediate_returns(k)
    PROVE  SoleInv'
<1>1. call[k].pc = "answered" /\ UNCHANGED <<journal, effects, losses>>
      /\ call' = [call EXCEPT ![k] = Idle]
      /\ kernel' = [kernel EXCEPT
               ![k].root = IF call[k].outcome = "committed" THEN call[k].after ELSE kernel[k].root,
               ![k].staged = IF call[k].outcome = "buffered"
                             THEN Append(@, [seq |-> kernel[k].seq + 1, digest |-> call[k].digest])
                             ELSE @,
               ![k].seq = kernel[k].seq + 1]
  BY DEF mediate_returns, Returned
<1>2. /\ kernel[k] # Absent /\ IsSession(kernel[k]) /\ kernel[k].seq \in Nat
      /\ kernel[k].state \in {"open", "cancelled", "closed"}
      /\ Informed(k) /\ InStep(k) /\ Roomy(k)
      /\ HistoryInv /\ losses \in 0..MaxLosses
      /\ DOMAIN kernel = Kernel /\ DOMAIN call = Kernel
  BY <1>1, InCall
<1>3. call'[k] = Idle /\ DOMAIN call' = DOMAIN call /\ DOMAIN kernel' = DOMAIN kernel
  BY <1>1, <1>2
<1>4. /\ IsSession(kernel'[k]) /\ kernel'[k].state = kernel[k].state
      /\ kernel'[k].root = IF call[k].outcome = "committed" THEN call[k].after ELSE kernel[k].root
      /\ kernel'[k].staged = IF call[k].outcome = "buffered"
             THEN Append(kernel[k].staged, [seq |-> kernel[k].seq + 1, digest |-> call[k].digest])
             ELSE kernel[k].staged
      /\ kernel'[k].seq = kernel[k].seq + 1
      /\ kernel'[k].nonces = kernel[k].nonces /\ kernel'[k].semantic = kernel[k].semantic
  BY <1>1, <1>2 DEF IsSession
<1>5. HistoryInv'
  BY <1>1, <1>2, HistorySame
<1>6. kernel'[k].root = head.root /\ kernel'[k].staged = JStaged
      /\ DOMAIN reservations = 1..(kernel[k].seq + 1)
  BY <1>1, <1>2, <1>4 DEF InStep
<1>7. Informed(k)' /\ Roomy(k)'
  <2>1. Informed(k)'
    BY ZenonT(30), <1>1, <1>2, <1>3, <1>4, JournalSame DEF Informed
  <2>2. Len(kernel'[k].staged) <= MaxStaged
    BY <1>2, <1>6, StagedLength
  <2>. QED  BY <1>3, <2>1, <2>2 DEF Roomy, Idle
<1>8. InStep(k)'
  <2>1. UNCHANGED <<JStaged, reservations, head>>
    BY <1>1, JournalSame
  <2>2. (DOMAIN reservations = 1..kernel[k].seq /\ kernel[k].root = head.root /\ kernel[k].staged = JStaged)'
    BY <1>4, <1>6, <2>1
  <2>. QED  BY <1>3, <2>2 DEF InStep, Idle
<1>9. KernelInv(k)'
  <2>1. kernel'[k] # Absent
    BY <1>2, <1>4 DEF Absent
  <2>2. kernel'[k].seq \in Nat /\ kernel'[k].seq > 0
    BY <1>2, <1>4
  <2>. QED  BY <1>2, <1>3, <1>4, <1>7, <1>8, <2>1, <2>2 DEF KernelInv, Pc, Idle
<1>. QED  BY <1>1, <1>2, <1>3, <1>5, <1>9, SoleKernel

(* A flush commits the batch the kernel holds, from the kernel's root.     *)
LEMMA FlushSole ==
    ASSUME Sole, SoleInv, JournalShape, JournalShape', NEW k \in Kernel, batched_flush(k)
    PROVE  SoleInv'
<1>1. /\ Live(k) /\ call[k] = Idle /\ kernel[k].staged # <<>>
      /\ J!flush_batched(KernelDigests(k))
      /\ call' = [call EXCEPT ![k] =
             IF head.root = kernel[k].root THEN [pc |-> "flushed", after |-> head'.root]
             ELSE [pc |-> "forked"]]
      /\ UNCHANGED <<kernel, effects, reports, losses>>
  BY DEF batched_flush
<1>2. HistoryInv /\ losses \in 0..MaxLosses /\ DOMAIN kernel = Kernel /\ DOMAIN call = Kernel
      /\ KernelInv(k)
  BY DEF SoleInv
<1>3. kernel[k] # Absent /\ kernel[k].seq > 0
  BY <1>1, <1>2 DEF Live, Absent, KernelInv, Blank
<1>4. /\ IsSession(kernel[k]) /\ kernel[k].seq \in Nat
      /\ kernel[k].state \in {"open", "cancelled", "closed"}
      /\ Informed(k) /\ InStep(k) /\ Roomy(k)
  BY <1>2, <1>3 DEF KernelInv
<1>5. DOMAIN reservations = 1..kernel[k].seq /\ kernel[k].root = head.root
  BY <1>1, <1>4 DEF InStep, Idle
<1>6. /\ DOMAIN reservations' = DOMAIN reservations
      /\ \A t \in DOMAIN reservations :
             /\ reservations'[t].nonce = reservations[t].nonce
             /\ reservations'[t].semantic = reservations[t].semantic
             /\ reservations'[t].state = IF reservations[t].state = "staged" THEN "finalized"
                                         ELSE reservations[t].state
      /\ UNCHANGED evidence
      /\ J!staged_count' = 0 /\ JStaged' = <<>>
      /\ AllNonces' = AllNonces
  BY <1>1, FlushEffect
<1>7. call'[k].pc = "flushed" /\ call'[k].after = head'.root /\ DOMAIN call' = DOMAIN call
  BY <1>1, <1>2, <1>5
<1>8. HistoryInv'
  <2>1. \A t \in J!InState("staged")' : evidence'[t].outcome = "buffered"
    BY <1>6 DEF J!InState
  <2>. QED  BY <1>1, <1>2, <1>6, <2>1, HistorySettled, MediationAssumption
<1>9. Informed(k)'
  BY <1>1, <1>4, <1>6, InformedSettled
<1>10. InStep(k)' /\ Roomy(k)'
  BY <1>1, <1>3, <1>4, <1>5, <1>6, <1>7 DEF InStep, Roomy
<1>11. KernelInv(k)'
  BY <1>1, <1>3, <1>4, <1>7, <1>9, <1>10 DEF KernelInv, Pc, Idle
<1>. QED  BY <1>1, <1>2, <1>7, <1>8, <1>11, SoleKernel

(* The flushed leaves leave the kernel.                                    *)
LEMMA FlushReturnSole ==
    ASSUME Sole, SoleInv, NEW k \in Kernel, flush_returns(k)
    PROVE  SoleInv'
<1>1. call[k].pc \in {"flushed", "forked"} /\ UNCHANGED <<journal, effects, losses>>
      /\ call' = [call EXCEPT ![k] = Idle]
  BY DEF flush_returns
<1>2. /\ kernel[k] # Absent /\ IsSession(kernel[k]) /\ kernel[k].seq \in Nat
      /\ kernel[k].state \in {"open", "cancelled", "closed"}
      /\ Informed(k) /\ InStep(k) /\ Roomy(k)
      /\ HistoryInv /\ losses \in 0..MaxLosses
      /\ DOMAIN kernel = Kernel /\ DOMAIN call = Kernel
  BY <1>1, InCall
<1>3. call[k].pc = "flushed"
  BY <1>1, <1>2 DEF InStep
<1>4. kernel' = [kernel EXCEPT ![k].root = call[k].after, ![k].staged = <<>>]
  BY <1>3 DEF flush_returns
<1>5. call'[k] = Idle /\ DOMAIN call' = DOMAIN call /\ DOMAIN kernel' = DOMAIN kernel
  BY <1>1, <1>2, <1>4
<1>6. /\ IsSession(kernel'[k]) /\ kernel'[k].state = kernel[k].state
      /\ kernel'[k].root = call[k].after /\ kernel'[k].staged = <<>>
      /\ kernel'[k].seq = kernel[k].seq
      /\ kernel'[k].nonces = kernel[k].nonces /\ kernel'[k].semantic = kernel[k].semantic
  BY <1>2, <1>4 DEF IsSession
<1>7. HistoryInv'
  BY <1>1, <1>2, HistorySame
<1>8. Informed(k)' /\ Roomy(k)'
  BY <1>1, <1>2, <1>5, <1>6, JournalSame, MediationAssumption DEF Informed, Roomy, Idle
<1>9. InStep(k)' /\ kernel[k].seq > 0
  <2>1. /\ kernel[k].seq > 0 /\ DOMAIN reservations = 1..kernel[k].seq
        /\ call[k].after = head.root /\ JStaged = <<>>
    BY <1>2, <1>3 DEF InStep
  <2>. QED  BY <1>1, <1>5, <1>6, <2>1, JournalSame DEF InStep, Idle
<1>10. KernelInv(k)'
  <2>1. kernel'[k] # Absent
    BY <1>2, <1>6 DEF Absent
  <2>. QED  BY <1>2, <1>5, <1>6, <1>8, <1>9, <2>1 DEF KernelInv, Pc, Idle
<1>. QED  BY <1>1, <1>2, <1>5, <1>7, <1>10, SoleKernel

-----------------------------------------------------------------------------
(* Before the kernel was opened the history is empty.                      *)
LEMMA SoleInit == Init => SoleInv
<1>. SUFFICES ASSUME Init PROVE SoleInv
  OBVIOUS
<1>1. /\ kernel = [k \in Kernel |-> Absent] /\ call = [k \in Kernel |-> Idle]
      /\ effects = [n \in Nonce |-> 0] /\ losses = 0
      /\ reservations = J!Empty /\ leaves = J!Empty
  BY DEF Init, J!Init
<1>2. DOMAIN reservations = {} /\ DOMAIN leaves = {}
  BY <1>1 DEF J!Empty
<1>3. \A k \in Kernel : KernelInv(k)
  BY <1>1 DEF KernelInv, Idle, Pc
<1>4. HistoryInv
  <2>1. AllNonces = {} /\ J!InState("staged") = {} /\ J!CanReconcile
    BY <1>2 DEF AllNonces, J!InState, J!CanReconcile
  <2>2. J!next_reservation_sequence = 1
    BY <1>2 DEF J!next_reservation_sequence, J!NextKey
  <2>3. J!staged_count = 0
    <3>1. J!StagedLeaves = {}
      BY <1>2 DEF J!StagedLeaves
    <3>2. J!staged_count = Cardinality({})
      BY <3>1 DEF J!staged_count, J!Cardinality, Cardinality
    <3>. QED  BY <3>2, FS_EmptySet
  <2>4. IsFiniteSet({}) /\ Cardinality({}) = 0
    BY FS_EmptySet
  <2>5. effects \in [Nonce -> {0, 1}] /\ \A n \in Nonce : effects[n] = 0
    BY <1>1
  <2>. QED  BY <2>1, <2>2, <2>3, <2>4, <2>5, MediationAssumption DEF HistoryInv
<1>. QED  BY <1>1, <1>3, <1>4, MediationAssumption DEF SoleInv

(* SoleInv is inductive relative to the journal's own invariant.           *)
LEMMA SoleStep ==
    ASSUME Sole, SoleInv, JournalShape, JournalShape', [Next]_vars
    PROVE  SoleInv'
<1>1. CASE UNCHANGED vars
  <2>1. UNCHANGED <<journal, kernel, call, effects, losses>>
    BY <1>1 DEF vars
  <2>2. HistoryInv'
    BY <2>1, HistorySame DEF SoleInv
  <2>3. ASSUME NEW k \in Kernel PROVE KernelInv(k)'
    <3>1. KernelInv(k)
      BY DEF SoleInv
    <3>. QED  BY <2>1, <3>1, JournalSame DEF KernelInv, Informed, InStep, Roomy
  <2>. QED  BY <2>1, <2>2, <2>3 DEF SoleInv
<1>2. ASSUME NEW k \in Kernel, Step(k) PROVE SoleInv'
  BY <1>2, OpenSole, GoneSole, EndSole, ReconcileSole, MediateSole, ExecuteSole, FinalizeSole,
     FailSole, ReturnSole, FlushSole, FlushReturnSole DEF Step
<1>. QED  BY <1>1, <1>2 DEF Next

(* Both invariants, always.                                                *)
LEMMA SoleAlways == ASSUME Sole PROVE Spec => [](SoleInv /\ JournalShape /\ P!IInv)
<1>1. Init => SoleInv /\ P!IInv
  BY SoleInit, InitJournal
<1>2. SoleInv /\ P!IInv /\ [Next]_vars => SoleInv' /\ P!IInv'
  <2>. SUFFICES ASSUME SoleInv, P!IInv, [Next]_vars PROVE SoleInv' /\ P!IInv'
    OBVIOUS
  <2>1. P!IInv'
    BY StepJournal
  <2>2. JournalShape
    BY JournalShaped
  <2>3. P!IInv' => JournalShape'
    BY JournalShaped, PTL
  <2>. QED  BY <2>1, <2>2, <2>3, SoleStep
<1>. QED  BY <1>1, <1>2, JournalShaped, PTL DEF Spec

(* What a kernel that is not in a call knows is what the journal would     *)
(* hand to a fresh one.                                                    *)
LEMMA SoleAgrees == SoleInv /\ JournalShape => KernelAgrees
<1>. SUFFICES ASSUME SoleInv, JournalShape, NEW k \in Kernel,
                     Live(k), call[k] = Idle, kernel[k].seq > 0
              PROVE  /\ kernel[k].root = J!reconciliation.root
                     /\ kernel[k].seq = J!reconciliation.seq
                     /\ kernel[k].nonces = J!reconciliation.nonces
                     /\ kernel[k].semantic = J!reconciliation.semantic
                     /\ kernel[k].staged = J!reconciliation.staged
  BY DEF KernelAgrees
<1>1. KernelInv(k) /\ kernel[k] # Absent
  BY DEF SoleInv, Live, Absent
<1>2. kernel[k].seq \in Nat /\ Informed(k) /\ InStep(k)
  BY <1>1 DEF KernelInv
<1>3. /\ DOMAIN reservations = 1..kernel[k].seq
      /\ kernel[k].root = head.root /\ kernel[k].staged = JStaged
  BY <1>2 DEF InStep, Idle
<1>4. /\ J!reconciliation.root = head.root
      /\ J!reconciliation.seq = J!next_reservation_sequence - 1
      /\ J!reconciliation.nonces = AllNonces
      /\ J!reconciliation.semantic = reservations[1].semantic
      /\ J!reconciliation.staged = JStaged
  BY DEF J!reconciliation, AllNonces, JournalShape
<1>5. kernel[k].seq = J!next_reservation_sequence - 1
  <2>1. J!next_reservation_sequence \in Nat /\ J!next_reservation_sequence > 0
    BY DEF JournalShape
  <2>2. 1..kernel[k].seq = 1..(J!next_reservation_sequence - 1)
    BY <1>3 DEF JournalShape
  <2>. QED  BY <1>2, <2>1, <2>2
<1>6. 1 \in DOMAIN reservations
  BY <1>2, <1>3
<1>. QED  BY <1>2, <1>3, <1>4, <1>5, <1>6 DEF Informed

(* The shape of sessions and calls.                                        *)
LEMMA SoleTyped == SoleInv /\ JournalShape /\ P!IInv => TypeOK
<1>. SUFFICES ASSUME SoleInv, JournalShape, P!IInv PROVE TypeOK
  OBVIOUS
<1>1. J!TypeOK
  BY SameFiniteSets DEF P!IInv, P!TypeOK, J!TypeOK, P!RowState, J!RowState, P!Outcome, J!Outcome
<1>2. ASSUME NEW k \in Kernel
      PROVE  /\ call[k].pc \in Pc
             /\ Live(k) =>
                  /\ kernel[k].state \in {"open", "cancelled", "closed"}
                  /\ kernel[k].seq \in Nat
                  /\ kernel[k].nonces \subseteq Nonce
                  /\ kernel[k].semantic \in SemanticRoot \cup {NoRoot}
                  /\ Len(kernel[k].staged) <= MaxStaged
             /\ call[k] # Idle => Live(k)
  <2>1. KernelInv(k)
    BY DEF SoleInv
  <2>2. call[k] # Idle => Live(k)
    <3>1. kernel[k] # Absent => kernel[k].state # "absent"
      BY <2>1 DEF KernelInv
    <3>. QED  BY <2>1, <3>1 DEF KernelInv, Live
  <2>3. ASSUME Live(k)
        PROVE  /\ kernel[k].state \in {"open", "cancelled", "closed"} /\ kernel[k].seq \in Nat
               /\ Blank(kernel[k]) \/ (Informed(k) /\ Roomy(k))
    <3>1. kernel[k] # Absent
      BY <2>3 DEF Live, Absent
    <3>2. kernel[k].seq \in Nat => kernel[k].seq = 0 \/ kernel[k].seq > 0
      OBVIOUS
    <3>. QED  BY <2>1, <3>1, <3>2 DEF KernelInv
  <2>4. ASSUME Blank(kernel[k]) PROVE Len(kernel[k].staged) <= MaxStaged
    BY <2>4, MediationAssumption DEF Blank
  <2>5. AllNonces \subseteq Nonce
    BY DEF AllNonces, JournalShape
  <2>. QED  BY <2>1, <2>2, <2>3, <2>4, <2>5 DEF Blank, Informed, Roomy, KernelInv
<1>3. (\A n \in Nonce : effects[n] \in Nat) /\ losses \in 0..MaxLosses
  BY DEF SoleInv, HistoryInv
<1>. QED  BY <1>1, <1>2, <1>3 DEF TypeOK

(* A fresh kernel has room for the journal's history.                      *)
LEMMA SoleRecovers == SoleInv /\ JournalShape => Recoverable
<1>. SUFFICES ASSUME SoleInv, JournalShape, DOMAIN reservations # {}
              PROVE  J!CanReconcile /\ well_formed(J!reconciliation)
  BY DEF Recoverable
<1>1. HistoryInv /\ Len(JStaged) = J!staged_count /\ Len(JStaged) <= MaxStaged
  BY StagedLength DEF SoleInv
<1>2. /\ J!reconciliation.seq = J!next_reservation_sequence - 1
      /\ J!reconciliation.nonces = AllNonces
      /\ J!reconciliation.staged = JStaged
  BY DEF J!reconciliation, AllNonces, JournalShape
<1>3. /\ Cardinality(AllNonces) = J!next_reservation_sequence - 1
      /\ Cardinality(AllNonces) <= MaxNonces
  BY <1>1 DEF HistoryInv
<1>4. /\ head.seq \in Nat /\ J!staged_count \in Nat /\ J!next_reservation_sequence \in Nat
      /\ head.seq + J!staged_count <= J!next_reservation_sequence - 1
  <2>1. /\ head.seq \in Nat /\ J!staged_count \in Nat /\ Settled = head.seq + J!staged_count
        /\ J!next_reservation_sequence = IF Unsettled = {} THEN Settled + 1 ELSE Settled + 2
    BY DEF JournalShape, Settled
  <2>. QED  BY <2>1
<1>5. /\ DOMAIN JStaged = 1..J!staged_count
      /\ \A i \in 1..J!staged_count : JStaged[i].seq = head.seq + i
  BY DEF JStaged
<1>6. \A i \in DOMAIN JStaged :
          /\ JStaged[i].seq \in 1..(J!next_reservation_sequence - 1)
          /\ i > 1 => JStaged[i - 1].seq < JStaged[i].seq
  BY <1>4, <1>5
<1>. QED  BY <1>1, <1>2, <1>3, <1>4, <1>6 DEF well_formed, HistoryInv

(* Under one kernel whose host reconciles, no token's effect runs twice,   *)
(* whatever is cut off, lost or retried: strict_mediate consumes the nonce *)
(* durably before the adapter is called (runtime_v0.c).                    *)
THEOREM EffectsOnce == ASSUME Sole PROVE Spec => []AtMostOnce
<1>1. SoleInv => AtMostOnce
  BY DEF SoleInv, HistoryInv, AtMostOnce
<1>. QED  BY <1>1, SoleAlways, PTL

(* Between calls the volatile session and the journal tell the same story. *)
THEOREM JournalAndSessionAgree == ASSUME Sole PROVE Spec => []SessionsAgree
<1>1. SoleInv /\ JournalShape /\ P!IInv => SessionsAgree
  BY SoleAgrees, SoleTyped DEF SessionsAgree
<1>. QED  BY <1>1, SoleAlways, PTL

(* session_reconcile_evidence never refuses what the journal hands it.     *)
THEOREM AlwaysRecoverable == ASSUME Sole PROVE Spec => []Recoverable
BY SoleRecovers, SoleAlways, PTL

-----------------------------------------------------------------------------
(* The refinement of the effect ledger. *)

Log == [s \in DOMAIN reservations |->
           [nonce |-> reservations[s].nonce, status |-> LedgerStatus(s)]]

Top == J!next_reservation_sequence - 1

(* The log is a sequence with an entry per row.                            *)
LEMMA LogShape ==
    ASSUME JournalShape
    PROVE  /\ Top \in Nat /\ DOMAIN reservations = 1..Top
           /\ Log \in Seq({Log[s] : s \in 1..Top}) /\ Len(Log) = Top /\ DOMAIN Log = 1..Top
           /\ \A s \in DOMAIN reservations :
                  Log[s] = [nonce |-> reservations[s].nonce, status |-> LedgerStatus(s)]
<1>1. Top \in Nat /\ DOMAIN reservations = 1..Top
  BY DEF JournalShape, Top
<1>2. DOMAIN Log = 1..Top
  BY <1>1 DEF Log
<1>3. \A s \in DOMAIN reservations :
          Log[s] = [nonce |-> reservations[s].nonce, status |-> LedgerStatus(s)]
  BY DEF Log
<1>4. Log = [s \in 1..Top |-> Log[s]]
  BY <1>1 DEF Log
<1>5. Log \in Seq({Log[s] : s \in 1..Top}) /\ Len(Log) = Top
  BY <1>1, <1>2, <1>4
<1>. QED  BY <1>1, <1>2, <1>3, <1>5

(* The status of a row tells its state.                                    *)
LEMMA StatusTells ==
    ASSUME JournalShape, NEW s \in DOMAIN reservations
    PROVE  /\ LedgerStatus(s) = "reserved" <=> reservations[s].state = "reserved"
           /\ LedgerStatus(s) = "buffered" <=> reservations[s].state = "staged"
           /\ reservations[s].state = "finalized" =>
                 LedgerStatus(s) = IF evidence[s].outcome = "indeterminate" THEN "indeterminate"
                                   ELSE "committed"
<1>1. reservations[s].state \in {"reserved", "staged", "finalized"}
  BY DEF JournalShape, J!RowState
<1>2. CASE reservations[s].state = "reserved"
  BY <1>2 DEF LedgerStatus
<1>3. CASE reservations[s].state = "staged"
  BY <1>3 DEF LedgerStatus
<1>4. CASE reservations[s].state = "finalized"
  BY <1>4 DEF LedgerStatus
<1>. QED  BY <1>1, <1>2, <1>3, <1>4

(* The ledger's entry is open exactly while a row is unresolved.           *)
LEMMA OpenTells ==
    ASSUME JournalShape
    PROVE  /\ Ledger!Open <=> Unsettled # {}
           /\ Unsettled # {} => Unsettled = {Top}
           /\ Ledger!Buffered = J!InState("staged")
<1>1. /\ Top \in Nat /\ DOMAIN reservations = 1..Top
      /\ Len(Log) = Top /\ DOMAIN Log = 1..Top
      /\ \A s \in DOMAIN reservations :
             Log[s] = [nonce |-> reservations[s].nonce, status |-> LedgerStatus(s)]
  BY LogShape
<1>2. Unsettled # {} => Unsettled = {Top}
  BY DEF JournalShape, Top
<1>3. Log # <<>> <=> Top > 0
  BY <1>1
<1>4. Ledger!Open <=> Log # <<>> /\ Log[Len(Log)].status = "reserved"
  BY DEF Ledger!Open, Log
<1>5. Ledger!Open <=> Unsettled # {}
  <2>1. CASE Unsettled # {}
    <3>1. Top \in DOMAIN reservations /\ reservations[Top].state = "reserved"
      BY <1>2, <2>1 DEF Unsettled, J!InState
    <3>2. Log[Top].status = "reserved"
      BY <1>1, <3>1, StatusTells
    <3>. QED  BY <1>1, <1>3, <1>4, <2>1, <3>1, <3>2
  <2>2. CASE Unsettled = {}
    <3>1. \A s \in DOMAIN reservations : Log[s].status # "reserved"
      BY <1>1, <2>2, StatusTells DEF Unsettled, J!InState
    <3>2. Top > 0 => Top \in DOMAIN reservations
      BY <1>1
    <3>. QED  BY <1>1, <1>3, <1>4, <2>2, <3>1, <3>2
  <2>. QED  BY <2>1, <2>2
<1>6. Ledger!Buffered = J!InState("staged")
  <2>1. Ledger!Buffered = {i \in DOMAIN Log : Log[i].status = "buffered"}
    BY DEF Ledger!Buffered, Log
  <2>2. \A i \in DOMAIN reservations : Log[i].status = "buffered" <=> reservations[i].state = "staged"
    BY <1>1, StatusTells
  <2>. QED  BY <1>1, <2>1, <2>2 DEF J!InState
<1>. QED  BY <1>2, <1>5, <1>6

(* Steps that leave the tables alone leave the log alone.                  *)
LEMMA LogSame ==
    ASSUME UNCHANGED journal PROVE UNCHANGED Log
BY DEF Log, LedgerStatus, journal

(* An empty journal is an empty ledger.                                    *)
LEMMA LedgerInit == Init => Ledger!Init
<1>. SUFFICES ASSUME Init PROVE Ledger!Init
  OBVIOUS
<1>1. DOMAIN reservations = {} /\ effects = [n \in Nonce |-> 0]
  BY DEF Init, J!Init, J!Empty
<1>2. Log = <<>>
  BY <1>1 DEF Log
<1>. QED  BY <1>1, <1>2 DEF Ledger!Init, Log

(* A mediation opens an entry.                                             *)
LEMMA LedgerReserve ==
    ASSUME Sole, SoleInv, JournalShape, JournalShape', NEW k \in Kernel, strict_mediate(k)
    PROVE  \E n \in Nonce : Ledger!Reserve(n)
<1>1. Live(k) /\ call[k] = Idle /\ HostReady(k) /\ UNCHANGED effects
  BY DEF strict_mediate
<1>2. PICK nonce \in Nonce, span \in Span, semantic \in SemanticRoot :
           J!reserve(kernel[k].seq + 1,
               [nonce |-> nonce, span |-> span, semantic |-> semantic, before |-> kernel[k].root])
  BY DEF strict_mediate
<1>. DEFINE r == [nonce |-> nonce, span |-> span, semantic |-> semantic, before |-> kernel[k].root]
<1>3. PICK s \in Nat \ {0} : s = kernel[k].seq + 1 /\ s \notin DOMAIN reservations
                       /\ DOMAIN reservations = 1..(s - 1)
  <2>1. kernel[k].seq \in Nat /\ DOMAIN reservations = 1..kernel[k].seq
    BY <1>1, MediateReady
  <2>2. kernel[k].seq + 1 \in Nat \ {0} /\ kernel[k].seq + 1 \notin DOMAIN reservations
        /\ kernel[k].seq + 1 - 1 = kernel[k].seq
    BY <2>1
  <2>. QED  BY <2>1, <2>2
<1>4. r.nonce = nonce
  OBVIOUS
<1>. HIDE DEF r
<1>5. /\ Unsettled = {}
      /\ J!FreshNonce(reservations, r.nonce)
      /\ DOMAIN reservations' = DOMAIN reservations \cup {s}
      /\ reservations'[s] = [nonce |-> r.nonce, span |-> r.span, semantic |-> r.semantic,
                             before |-> r.before, state |-> "reserved"]
      /\ \A t \in DOMAIN reservations : reservations'[t] = reservations[t]
      /\ UNCHANGED evidence
  BY <1>2, <1>3, ReserveEffect DEF r
<1>6. /\ Top \in Nat /\ DOMAIN reservations = 1..Top
      /\ Log \in Seq({Log[t] : t \in 1..Top}) /\ Len(Log) = Top /\ DOMAIN Log = 1..Top
      /\ \A t \in DOMAIN reservations :
             Log[t] = [nonce |-> reservations[t].nonce, status |-> LedgerStatus(t)]
  BY LogShape
<1>7. s = Top + 1
  BY <1>3, <1>6
<1>8. Log' = [t \in 1..(Top + 1) |->
                 IF t = Top + 1 THEN [nonce |-> nonce, status |-> "reserved"] ELSE Log[t]]
  <2>1. Log' = [t \in DOMAIN reservations' |->
                   [nonce |-> reservations'[t].nonce, status |-> LedgerStatus(t)']]
    BY DEF Log
  <2>2. DOMAIN reservations' = 1..(Top + 1)
    <3>1. 1..Top \cup {Top + 1} = 1..(Top + 1)
      BY <1>6
    <3>. QED  BY <1>5, <1>6, <1>7, <3>1
  <2>3. \A t \in DOMAIN reservations : LedgerStatus(t)' = LedgerStatus(t)
    BY <1>5 DEF LedgerStatus
  <2>4. LedgerStatus(s)' = "reserved"
    BY <1>5 DEF LedgerStatus
  <2>5. \A t \in 1..(Top + 1) : t # Top + 1 => t \in DOMAIN reservations
    BY <1>6
  <2>6. ASSUME NEW t \in 1..(Top + 1)
        PROVE  [nonce |-> reservations'[t].nonce, status |-> LedgerStatus(t)']
                   = IF t = Top + 1 THEN [nonce |-> nonce, status |-> "reserved"] ELSE Log[t]
    <3>1. CASE t = Top + 1
      BY <1>4, <1>5, <1>7, <2>4, <3>1
    <3>2. CASE t # Top + 1
      BY <1>5, <1>6, <2>3, <2>5, <3>2
    <3>. QED  BY <3>1, <3>2
  <2>. QED  BY <2>1, <2>2, <2>6
<1>9. Log' = Append(Log, [nonce |-> nonce, status |-> "reserved"])
  BY <1>6, <1>8, AppendIs
<1>10. \A t \in DOMAIN Log : Log[t].nonce # nonce
  BY <1>4, <1>5, <1>6 DEF J!FreshNonce
<1>11. ~Ledger!Open
  BY <1>5, OpenTells
<1>12. Ledger!Reserve(nonce)
  BY <1>1, <1>9, <1>10, <1>11 DEF Ledger!Reserve, Log
<1>. QED  BY <1>12

(* The adapter runs the open entry.                                        *)
LEMMA LedgerExecute ==
    ASSUME Sole, SoleInv, JournalShape, NEW k \in Kernel, adapter_execute(k)
    PROVE  Ledger!Execute
<1>1. call[k].pc = "reserved" /\ UNCHANGED journal
      /\ effects' = [effects EXCEPT ![call[k].nonce] = @ + 1]
  BY DEF adapter_execute
<1>2. InStep(k) /\ kernel[k].seq \in Nat /\ HistoryInv
  BY <1>1, InCall
<1>3. /\ kernel[k].seq + 1 \in Unsettled /\ call[k].nonce \in Nonce
      /\ call[k].nonce = reservations[kernel[k].seq + 1].nonce
      /\ effects[call[k].nonce] = 0
  BY <1>1, <1>2 DEF InStep
<1>4. Ledger!Open /\ Top = kernel[k].seq + 1
  BY <1>3, OpenTells
<1>5. Log[Len(Log)].nonce = call[k].nonce
  <2>1. /\ Len(Log) = Top
        /\ \A s \in DOMAIN reservations :
             Log[s] = [nonce |-> reservations[s].nonce, status |-> LedgerStatus(s)]
    BY LogShape
  <2>2. PICK s \in DOMAIN reservations : s = kernel[k].seq + 1
    BY <1>3 DEF Unsettled, J!InState
  <2>3. Log[s].nonce = reservations[s].nonce
    BY DEF Log
  <2>. QED  BY <1>3, <1>4, <2>1, <2>2, <2>3
<1>6. effects' = [effects EXCEPT ![call[k].nonce] = 1]
  BY <1>1, <1>2, <1>3 DEF HistoryInv
<1>7. UNCHANGED Log
  BY <1>1, LogSame
<1>. QED  BY <1>3, <1>4, <1>5, <1>6, <1>7 DEF Ledger!Execute, Log

(* Recording the observation settles the open entry.                       *)
LEMMA LedgerRecord ==
    ASSUME Sole, SoleInv, JournalShape, JournalShape', NEW k \in Kernel, finalize(k)
    PROVE  \E outcome \in Ledger!Status \ {"reserved"} : Ledger!Record(outcome)
<1>1. call[k].pc = "executed" /\ UNCHANGED effects
  BY DEF finalize
<1>2. PICK c \in CommittedRoot :
           IF SinkReceipt(k, c).outcome = "buffered"
           THEN J!stage_batched(kernel[k].seq + 1, SinkReceipt(k, c))
           ELSE J!append(kernel[k].seq + 1, SinkReceipt(k, c))
  BY DEF finalize
<1>. DEFINE r == SinkReceipt(k, c)
<1>0. InStep(k) /\ kernel[k].seq \in Nat /\ HistoryInv
  BY <1>1, InCall
<1>3. PICK s \in Nat : s = kernel[k].seq + 1
  BY <1>0
<1>4. /\ s \in Unsettled /\ call[k].nonce = reservations[s].nonce
      /\ effects[call[k].nonce] = 1 /\ call[k].outcome \in {"committed", "buffered", "indeterminate"}
  BY <1>0, <1>1, <1>3 DEF InStep, J!Outcome
<1>17. PICK o \in {"committed", "buffered", "indeterminate"} : o = call[k].outcome
  BY <1>4
<1>5. Ledger!Open /\ Top = s
  BY <1>4, OpenTells
<1>6. r.outcome = o
  BY <1>17 DEF SinkReceipt
<1>. HIDE DEF r
<1>7. /\ Top \in Nat /\ DOMAIN reservations = 1..Top /\ Len(Log) = Top /\ DOMAIN Log = 1..Top
      /\ \A t \in DOMAIN reservations :
             Log[t] = [nonce |-> reservations[t].nonce, status |-> LedgerStatus(t)]
  BY LogShape
<1>8. s \in DOMAIN reservations
  BY <1>4 DEF Unsettled, J!InState
<1>9. effects[Log[Len(Log)].nonce] = 1
  <2>1. Log[s].nonce = reservations[s].nonce
    BY <1>7, <1>8
  <2>. QED  BY <1>4, <1>5, <1>7, <2>1
<1>10. /\ DOMAIN reservations' = DOMAIN reservations
       /\ \A t \in DOMAIN reservations :
              /\ reservations'[t].nonce = reservations[t].nonce
              /\ t # s => reservations'[t].state = reservations[t].state
       /\ reservations'[s].state = IF r.outcome = "buffered" THEN "staged" ELSE "finalized"
       /\ \A t \in DOMAIN evidence : evidence'[t] = evidence[t]
       /\ evidence'[s] = r
       /\ r.outcome = "buffered" \/ J!staged_count = 0
  <2>1. CASE r.outcome = "buffered"
    <3>1. J!stage_batched(s, r)
      BY <1>2, <1>3, <2>1 DEF r
    <3>2. /\ DOMAIN reservations' = DOMAIN reservations
          /\ \A t \in DOMAIN reservations :
                 /\ reservations'[t].nonce = reservations[t].nonce
                 /\ reservations'[t].state = IF t = s THEN "staged" ELSE reservations[t].state
          /\ \A t \in DOMAIN evidence : evidence'[t] = evidence[t]
          /\ evidence'[s] = r
      <4>1. /\ DOMAIN reservations' = DOMAIN reservations
            /\ \A t \in DOMAIN reservations :
                   /\ reservations'[t].nonce = reservations[t].nonce
                   /\ reservations'[t].semantic = reservations[t].semantic
                   /\ reservations'[t].state = IF t = s THEN "staged" ELSE reservations[t].state
            /\ \A t \in DOMAIN evidence : t \in DOMAIN evidence' /\ evidence'[t] = evidence[t]
            /\ evidence'[s] = r /\ UNCHANGED head
            /\ J!staged_count' = J!staged_count + 1
            /\ JStaged' = Append(JStaged,
                   [seq |-> s, digest |-> J!batched_evidence_leaf(s, J!staged_count, r)])
            /\ AllNonces' = AllNonces
        BY <3>1, StageEffect
      <4>. QED  BY <4>1
    <3>. QED  BY <1>8, <2>1, <3>2
  <2>2. CASE r.outcome # "buffered"
    <3>1. J!append(s, r)
      BY <1>2, <1>3, <2>2 DEF r
    <3>2. /\ DOMAIN reservations' = DOMAIN reservations
          /\ \A t \in DOMAIN reservations :
                 /\ reservations'[t].nonce = reservations[t].nonce
                 /\ reservations'[t].state = IF t = s THEN "finalized" ELSE reservations[t].state
          /\ \A t \in DOMAIN evidence : evidence'[t] = evidence[t]
          /\ evidence'[s] = r /\ J!staged_count = 0
      BY <3>1, AppendEffect
    <3>. QED  BY <1>8, <2>2, <3>2
  <2>. QED  BY <2>1, <2>2
<1>11. LedgerStatus(s)' = o
  <2>1. CASE o = "buffered"
    BY <1>6, <1>10, <2>1 DEF LedgerStatus
  <2>2. CASE o \in {"committed", "indeterminate"}
    <3>1. reservations'[s].state = "finalized" /\ evidence'[s].outcome = o
      BY <1>6, <1>10, <2>2
    <3>. QED  BY <2>2, <3>1 DEF LedgerStatus
  <2>. QED  BY <1>4, <2>1, <2>2
<1>12. ASSUME NEW t \in DOMAIN reservations, t # s PROVE LedgerStatus(t)' = LedgerStatus(t)
  <2>1. t \in DOMAIN evidence
    <3>1. Unsettled = {s}
      BY <1>4, <1>5, OpenTells
    <3>. QED  BY <1>12, <3>1 DEF JournalShape
  <2>. QED  BY <1>10, <1>12, <2>1 DEF LedgerStatus
<1>13. Log' = [Log EXCEPT ![Len(Log)].status = o]
  <2>1. Log' = [t \in DOMAIN reservations' |->
                   [nonce |-> reservations'[t].nonce, status |-> LedgerStatus(t)']]
    BY DEF Log
  <2>2. ASSUME NEW t \in DOMAIN reservations
        PROVE  [nonce |-> reservations'[t].nonce, status |-> LedgerStatus(t)']
                   = IF t = s THEN [Log[t] EXCEPT !.status = o] ELSE Log[t]
    <3>1. CASE t = s
      BY <1>7, <1>10, <1>11, <3>1
    <3>2. CASE t # s
      BY <1>7, <1>10, <1>12, <3>2
    <3>. QED  BY <3>1, <3>2
  <2>3. Log' = [t \in DOMAIN reservations |->
                   IF t = s THEN [Log[t] EXCEPT !.status = o] ELSE Log[t]]
    BY <1>10, <2>1, <2>2
  <2>4. Log = [t \in DOMAIN reservations |-> Log[t]]
    BY DEF Log
  <2>. QED  BY <1>5, <1>7, <1>8, <2>3, <2>4
<1>14. o = "buffered" \/ Ledger!Buffered = {}
  <2>1. J!staged_count = 0 => J!InState("staged") = {}
    <3>1. ASSUME J!staged_count = 0, NEW t \in J!InState("staged") PROVE FALSE
      <4>1. t \in DOMAIN reservations /\ reservations[t].state = "staged"
        BY <3>1 DEF J!InState
      <4>2. t \notin Unsettled
        BY <4>1 DEF Unsettled, J!InState
      <4>3. t \in 1..Settled
        BY <4>1, <4>2 DEF JournalShape
      <4>4. head.seq \in Nat /\ Settled = head.seq + J!staged_count
        BY DEF JournalShape, Settled
      <4>5. t \in 1..head.seq
        BY <3>1, <4>3, <4>4
      <4>. QED  BY <4>1, <4>5 DEF JournalShape
    <3>. QED  BY <3>1
  <2>. QED  BY <1>6, <1>10, <2>1, OpenTells
<1>15. Ledger!Record(o)
  BY <1>1, <1>5, <1>9, <1>13, <1>14 DEF Ledger!Record, Log
<1>16. o \in Ledger!Status \ {"reserved"}
  BY DEF Ledger!Status
<1>. QED  BY <1>15, <1>16

(* The batch settles every buffered entry.                                 *)
LEMMA LedgerFlush ==
    ASSUME Sole, SoleInv, JournalShape, JournalShape', NEW k \in Kernel, batched_flush(k)
    PROVE  Ledger!Flush
<1>1. J!flush_batched(KernelDigests(k)) /\ UNCHANGED effects /\ HistoryInv
  BY DEF batched_flush, SoleInv
<1>2. /\ DOMAIN reservations' = DOMAIN reservations
      /\ \A t \in DOMAIN reservations :
             /\ reservations'[t].nonce = reservations[t].nonce
             /\ reservations'[t].state = IF reservations[t].state = "staged" THEN "finalized"
                                         ELSE reservations[t].state
      /\ UNCHANGED evidence
      /\ J!staged_count > 0
  BY <1>1, FlushEffect
<1>3. Ledger!Buffered = J!InState("staged")
  BY OpenTells
<1>4. Ledger!Buffered # {}
  <2>1. head.seq + 1 \in (head.seq + 1)..Settled /\ head.seq + 1 \in 1..Settled
    <3>1. head.seq \in Nat /\ J!staged_count \in Nat /\ Settled = head.seq + J!staged_count
      BY DEF JournalShape, Settled
    <3>. QED  BY <1>2, <3>1
  <2>2. head.seq + 1 \in DOMAIN reservations /\ reservations[head.seq + 1].state = "staged"
    BY <2>1 DEF JournalShape
  <2>. QED  BY <1>3, <2>2 DEF J!InState
<1>5. /\ DOMAIN Log = DOMAIN reservations
      /\ \A t \in DOMAIN reservations :
             Log[t] = [nonce |-> reservations[t].nonce, status |-> LedgerStatus(t)]
  BY DEF Log
<1>6. ASSUME NEW t \in DOMAIN reservations
      PROVE  LedgerStatus(t)' = IF t \in J!InState("staged") THEN "committed" ELSE LedgerStatus(t)
  <2>1. CASE t \in J!InState("staged")
    <3>1. reservations'[t].state = "finalized" /\ evidence'[t].outcome = "buffered"
      BY <1>1, <1>2, <2>1 DEF J!InState, HistoryInv
    <3>. QED  BY <2>1, <3>1 DEF LedgerStatus
  <2>2. CASE t \notin J!InState("staged")
    <3>1. reservations'[t].state = reservations[t].state
      BY <1>2, <2>2 DEF J!InState
    <3>2. LedgerStatus(t)' = LedgerStatus(t)
      BY <1>2, <3>1 DEF LedgerStatus
    <3>. QED  BY <2>2, <3>2
  <2>. QED  BY <2>1, <2>2
<1>7. Log' = [i \in DOMAIN Log |->
                 IF i \in Ledger!Buffered THEN [Log[i] EXCEPT !.status = "committed"] ELSE Log[i]]
  <2>1. Log' = [t \in DOMAIN reservations' |->
                   [nonce |-> reservations'[t].nonce, status |-> LedgerStatus(t)']]
    BY DEF Log
  <2>2. \A t \in DOMAIN reservations :
            [nonce |-> reservations'[t].nonce, status |-> LedgerStatus(t)']
                = IF t \in Ledger!Buffered THEN [Log[t] EXCEPT !.status = "committed"] ELSE Log[t]
    BY <1>2, <1>3, <1>5, <1>6
  <2>. QED  BY <1>2, <1>5, <2>1, <2>2
<1>. QED  BY <1>1, <1>4, <1>7 DEF Ledger!Flush, Log

(* Every step of the sole kernel is a step of the ledger or none.          *)
LEMMA LedgerStep ==
    ASSUME Sole, SoleInv, JournalShape, JournalShape', [Next]_vars
    PROVE  [Ledger!Next]_<<Log, effects>>
<1>1. ASSUME UNCHANGED journal, UNCHANGED effects PROVE UNCHANGED <<Log, effects>>
  BY <1>1, LogSame
<1>2. ASSUME NEW k \in Kernel,
             \/ session_open(k) \/ session_reconcile_evidence(k)
             \/ finalize_fails(k) \/ mediate_returns(k) \/ flush_returns(k)
             \/ session_cancel(k) \/ session_close(k) \/ session_release(k) \/ crash(k)
      PROVE  UNCHANGED journal /\ UNCHANGED effects
  BY <1>2 DEF session_open, session_reconcile_evidence, finalize_fails,
              mediate_returns, Returned, flush_returns, session_cancel, session_close,
              session_release, crash
<1>3. ASSUME NEW k \in Kernel, strict_mediate(k) \/ adapter_execute(k) \/ finalize(k) \/ batched_flush(k)
      PROVE  Ledger!Next
  BY <1>3, LedgerReserve, LedgerExecute, LedgerRecord, LedgerFlush DEF Ledger!Next
<1>4. UNCHANGED vars => UNCHANGED journal /\ UNCHANGED effects
  BY DEF vars
<1>. QED  BY <1>1, <1>2, <1>3, <1>4 DEF Next, Step

(* One kernel whose host reconciles, its crashes and its journal implement *)
(* the effect ledger: tokens are opened one at a time, each effect runs    *)
(* once before it has an outcome, and outcomes are settled in order.       *)
THEOREM LedgerImplemented == ASSUME Sole PROVE Spec => ImplementsLedger
<1>1. SoleInv /\ JournalShape /\ (SoleInv /\ JournalShape)' /\ [Next]_vars
          => [Ledger!Next]_<<Log, effects>>
  BY LedgerStep
<1>2. (Ledger!Init /\ [][Ledger!Next]_<<Log, effects>>) => ImplementsLedger
  BY DEF ImplementsLedger, Ledger!Spec, Log
<1>. QED  BY <1>1, <1>2, LedgerInit, SoleAlways, PTL DEF Spec

=============================================================================
