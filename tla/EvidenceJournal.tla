--------------------------- MODULE EvidenceJournal ---------------------------
(***************************************************************************)
(* The durable evidence journal of one runtime session:                    *)
(* TursoAuthorizedEffectEvidenceStore (evidence.py) with the batched       *)
(* staging and flush transactions (batched_evidence_store.py).             *)
(*                                                                         *)
(* Every query of the store filters by session_id, so the rows of one      *)
(* session never meet those of another: the module keeps one session.      *)
(* Each table is a function from its primary key to its row.  Every        *)
(* operation runs between "begin immediate" and commit, and rolls back on  *)
(* any error, so each is one atomic action and a refused call changes      *)
(* nothing: a refusal is the guard being false.  The callers are           *)
(* arbitrary: any process, in any order, with any receipt.                 *)
(***************************************************************************)
EXTENDS Integers, Sequences, FiniteSets

CONSTANTS
    Nonce,          \* the 128-bit one-shot tokens
    SemanticRoot,   \* digests of the authorised programme
    Span,           \* <<first_sequence, last_sequence>> of the leased events
    CommittedRoot,  \* roots a caller may announce for a committed effect
    ZeroRoot        \* the 32 zero bytes an empty session starts from

ASSUME SpanAssumption ==
    Span \subseteq {s \in Nat \X Nat : 1 <= s[1] /\ s[1] <= s[2]}

VARIABLES
    reservations,   \* table authorized_effect_reservations, by mediation_sequence
    evidence,       \* table authorized_effect_evidence, by mediation_sequence
    leaves,         \* table authorized_effect_batched_leaves, by mediation_sequence
    batches,        \* table authorized_effect_evidence_batches, by batch_id
    head            \* row of authorized_effect_evidence_heads; no row reads as (0, zero root)

journal == <<reservations, evidence, leaves, batches, head>>

Outcome == {"committed", "buffered", "indeterminate"}
RowState == {"reserved", "staged", "finalized"}

(* What the UPDATE and INSERT statements do to a table. *)
Insert(table, key, row) ==
    [k \in DOMAIN table \cup {key} |-> IF k = key THEN row ELSE table[k]]

Empty == [k \in {} |-> k]

-----------------------------------------------------------------------------
(* Digests.  A hash is collision free: it is the tuple of what is hashed.  *)
(* The input and observation digests are payload data and are left out.    *)

batched_evidence_leaf(seq, index, r) ==
    <<seq, index, r.nonce, r.span, r.semantic, r.before>>

batch_execution_root(before, digests) == <<"batch", before, digests>>

-----------------------------------------------------------------------------
(* Queries. *)

InState(state) == {s \in DOMAIN reservations : reservations[s].state = state}

NextKey(table) ==
    IF DOMAIN table = {} THEN 1
    ELSE 1 + CHOOSE s \in DOMAIN table : \A t \in DOMAIN table : t <= s

next_reservation_sequence == NextKey(reservations)

(* Fault: batch ids from zero. *)
next_batch_id_from_zero == NextKey(batches) - 1

next_batch_id == NextKey(batches)

reservation_matches(r, row) ==
    /\ r.span = row.span
    /\ r.nonce = row.nonce
    /\ r.semantic = row.semantic
    /\ r.before = row.before

FreshNonce(table, nonce) == \A s \in DOMAIN table : table[s].nonce # nonce

StagedLeaves == {s \in DOMAIN leaves : leaves[s].state = "staged"}

staged_count == Cardinality(StagedLeaves)

(* The mediation sequences of the staged leaves, in leaf_index order. *)
staged_rows ==
    [i \in 1..staged_count |->
        CHOOSE s \in StagedLeaves : leaves[s].index = i - 1]

staged_digests == [i \in DOMAIN staged_rows |-> leaves[staged_rows[i]].digest]

-----------------------------------------------------------------------------
(* The transactions. *)

(* Inputs: what a caller binds when it reserves, and when it records.      *)
Binding == [nonce : Nonce, span : Span, semantic : SemanticRoot]

assert_reserved(seq, r) ==
    /\ seq \in DOMAIN reservations
    /\ reservations[seq].state = "reserved"
    /\ reservation_matches(r, reservations[seq])

(* Fault: the sequence extends the head, the root is not compared. *)
assert_extends_sequence(seq, r) == seq = head.seq + 1

(* Fault: the root is compared, the sequence is not. *)
assert_extends_root(seq, r) == r.before = head.root

assert_extends(seq, r) ==
    /\ seq = head.seq + 1
    /\ r.before = head.root

(* A receipt that did not commit may not advance the execution root.       *)
valid_receipt(r) ==
    /\ r.outcome \in Outcome
    /\ r.outcome # "committed" => r.after = r.before

SetState(rows, to) ==
    [s \in DOMAIN reservations |->
        IF s \in rows
        THEN [nonce |-> reservations[s].nonce, span |-> reservations[s].span,
              semantic |-> reservations[s].semantic,
              before |-> reservations[s].before, state |-> to]
        ELSE reservations[s]]

InsertReservation(seq, r) ==
    reservations' = Insert(reservations, seq,
        [nonce |-> r.nonce, span |-> r.span, semantic |-> r.semantic,
         before |-> r.before, state |-> "reserved"])

(* Faults: a second effect may start while one is unresolved; the replayed *)
(* row is written with "insert or replace" and becomes reserved again.     *)
reserve_concurrent(seq, r) ==
    /\ seq \notin DOMAIN reservations
    /\ seq = next_reservation_sequence
    /\ r.before = head.root
    /\ FreshNonce(reservations, r.nonce)
    /\ InsertReservation(seq, r)
    /\ UNCHANGED <<evidence, leaves, batches, head>>

reserve_replaces(seq, r) ==
    /\ IF seq \in DOMAIN reservations
       THEN reservation_matches(r, reservations[seq])
       ELSE /\ InState("reserved") = {}
            /\ seq = next_reservation_sequence
            /\ r.before = head.root
            /\ FreshNonce(reservations, r.nonce)
    /\ InsertReservation(seq, r)
    /\ UNCHANGED <<evidence, leaves, batches, head>>

(* reserve: an identical row, in whatever state, is accepted again without *)
(* a change; a new row must be the next one, with nothing unresolved.      *)
reserve(seq, r) ==
    \/ /\ seq \in DOMAIN reservations
       /\ reservation_matches(r, reservations[seq])
       /\ UNCHANGED journal
    \/ /\ seq \notin DOMAIN reservations
       /\ InState("reserved") = {}
       /\ seq = next_reservation_sequence
       /\ r.before = head.root
       /\ FreshNonce(reservations, r.nonce)
       /\ InsertReservation(seq, r)
       /\ UNCHANGED <<evidence, leaves, batches, head>>

append_accepts(seq, r) ==
    /\ valid_receipt(r)
    /\ assert_reserved(seq, r)
    /\ assert_extends(seq, r)
    /\ seq \notin DOMAIN evidence
    /\ FreshNonce(evidence, r.nonce)

append(seq, r) ==
    /\ append_accepts(seq, r)
    /\ evidence' = Insert(evidence, seq, r)
    /\ reservations' = SetState({seq}, "finalized")
    /\ head' = [seq |-> seq, root |-> r.after]
    /\ UNCHANGED <<leaves, batches>>

stage_accepts(seq, r) ==
    /\ valid_receipt(r)
    /\ r.outcome = "buffered"
    /\ assert_reserved(seq, r)
    /\ r.before = head.root
    /\ seq \notin DOMAIN evidence \cup DOMAIN leaves
    /\ FreshNonce(evidence, r.nonce)

(* Fault: leaf_index counts every leaf of the session, not the staged ones. *)
stage_batched_global_index(seq, r) ==
    /\ stage_accepts(seq, r)
    /\ leaves' = Insert(leaves, seq,
           [index |-> Cardinality(DOMAIN leaves),
            digest |-> batched_evidence_leaf(seq, Cardinality(DOMAIN leaves), r),
            state |-> "staged", batch |-> 0])
    /\ evidence' = Insert(evidence, seq, r)
    /\ reservations' = SetState({seq}, "staged")
    /\ UNCHANGED <<batches, head>>

stage_batched(seq, r) ==
    /\ stage_accepts(seq, r)
    /\ leaves' = Insert(leaves, seq,
           [index |-> staged_count, digest |-> batched_evidence_leaf(seq, staged_count, r),
            state |-> "staged", batch |-> 0])
    /\ evidence' = Insert(evidence, seq, r)
    /\ reservations' = SetState({seq}, "staged")
    /\ UNCHANGED <<batches, head>>

flush_batched(digests) ==
    /\ StagedLeaves # {}
    /\ digests = staged_digests
    /\ LET first == staged_rows[1]
           last == staged_rows[staged_count]
           after == batch_execution_root(head.root, digests)
       IN  /\ batches' = Insert(batches, next_batch_id,
                  [first |-> first, last |-> last,
                   count |-> staged_count,
                   before |-> head.root, after |-> after])
           /\ head' = [seq |-> last, root |-> after]
    /\ leaves' = [s \in DOMAIN leaves |->
                     IF s \in StagedLeaves
                     THEN [index |-> leaves[s].index, digest |-> leaves[s].digest,
                           state |-> "flushed", batch |-> next_batch_id]
                     ELSE leaves[s]]
    /\ reservations' = SetState(InState("staged"), "finalized")
    /\ UNCHANGED evidence

(* reconciliation: what a fresh kernel is given after a restart.  It raises *)
(* when the history binds two semantic roots.                               *)
CanReconcile ==
    \A s, t \in DOMAIN reservations : reservations[s].semantic = reservations[t].semantic

(* Fault: a row that is only reserved is not handed back. *)
reconciliation_settled ==
    [semantic |-> reservations[1].semantic,
     root     |-> head.root,
     seq      |-> head.seq + staged_count,
     runtime  |-> reservations[next_reservation_sequence - 1].span[2],
     nonces   |-> {reservations[s].nonce : s \in 1..(head.seq + staged_count)},
     staged   |-> [i \in DOMAIN staged_rows |->
                      [seq |-> staged_rows[i], digest |-> staged_digests[i]]]]

reconciliation ==
    [semantic |-> reservations[1].semantic,
     root     |-> head.root,
     seq      |-> next_reservation_sequence - 1,
     runtime  |-> reservations[next_reservation_sequence - 1].span[2],
     nonces   |-> {reservations[s].nonce : s \in DOMAIN reservations},
     staged   |-> [i \in DOMAIN staged_rows |->
                      [seq |-> staged_rows[i], digest |-> staged_digests[i]]]]

-----------------------------------------------------------------------------
Init ==
    /\ reservations = Empty
    /\ evidence = Empty
    /\ leaves = Empty
    /\ batches = Empty
    /\ head = [seq |-> 0, root |-> ZeroRoot]

(* A caller may know any root it was ever shown: a stale one is refused.   *)
KnownRoots ==
    {ZeroRoot, head.root} \cup CommittedRoot
        \cup {reservations[s].before : s \in DOMAIN reservations}

Bound(b, before) ==
    [nonce |-> b.nonce, span |-> b.span, semantic |-> b.semantic, before |-> before]

Receipt(b, before, after, outcome) ==
    [nonce |-> b.nonce, span |-> b.span, semantic |-> b.semantic,
     before |-> before, after |-> after, outcome |-> outcome]

ReserveCall ==
    \E b \in Binding, before \in KnownRoots, seq \in 1..(next_reservation_sequence + 1) :
        reserve(seq, Bound(b, before))

AppendCall ==
    \E b \in Binding, before, after \in KnownRoots, outcome \in Outcome,
       seq \in DOMAIN reservations :
        append(seq, Receipt(b, before, after, outcome))

StageCall ==
    \E b \in Binding, before \in KnownRoots, seq \in DOMAIN reservations :
        stage_batched(seq, Receipt(b, before, before, "buffered"))

FlushCall == flush_batched(staged_digests)

Next == ReserveCall \/ AppendCall \/ StageCall \/ FlushCall

Spec == Init /\ [][Next]_journal

-----------------------------------------------------------------------------
(* Properties. *)

(* Every table holds rows of its schema. *)
TypeOK ==
    /\ DOMAIN reservations \subseteq Nat \ {0}
    /\ \A s \in DOMAIN reservations :
           /\ reservations[s].nonce \in Nonce
           /\ reservations[s].span \in Span
           /\ reservations[s].semantic \in SemanticRoot
           /\ reservations[s].state \in RowState
    /\ DOMAIN evidence \subseteq Nat \ {0}
    /\ \A s \in DOMAIN evidence : evidence[s].outcome \in Outcome
    /\ DOMAIN leaves \subseteq Nat \ {0} /\ IsFiniteSet(DOMAIN leaves)
    /\ \A s \in DOMAIN leaves :
           /\ leaves[s].index \in Nat
           /\ leaves[s].state \in {"staged", "flushed"}
           /\ leaves[s].batch \in Nat
    /\ DOMAIN batches \subseteq Nat \ {0}
    /\ \A b \in DOMAIN batches : batches[b].first \in Nat /\ batches[b].last \in Nat
    /\ head.seq \in Nat

(* The mediation sequence splits into three runs whatever the callers do:  *)
(* what the head covers is finalized, then come the staged rows, then at   *)
(* most one row whose effect is unresolved.  So "insert or replace" of the *)
(* head by append and by flush never passes over a row, and max() + 1 in   *)
(* _next_reservation_sequence never leaves a gap.                          *)
LedgerOrder ==
    /\ InState("finalized") = 1..head.seq
    /\ InState("staged") = (head.seq + 1)..(head.seq + staged_count)
    /\ InState("reserved") \subseteq {head.seq + staged_count + 1}

(* A receipt exists exactly for the rows that are no longer reserved, and  *)
(* it is bound to the reservation that was made before the effect ran.     *)
ReceiptsBound ==
    /\ DOMAIN evidence = InState("finalized") \cup InState("staged")
    /\ \A s \in DOMAIN evidence : reservation_matches(evidence[s], reservations[s])

(* The staged leaves are the staged reservations, and leaf_index counts    *)
(* them in mediation order: the Merkle order of a batch is the order in    *)
(* which the effects were mediated, also after earlier flushes.            *)
LeafOrder ==
    /\ StagedLeaves = InState("staged")
    /\ \A s \in StagedLeaves : leaves[s].index = s - head.seq - 1

(* The root the journal stands at once mediation s is covered by the head. *)
ClosesBatch(b, s) == batches[b].last = s

RootAfter(s) ==
    IF s = 0 THEN ZeroRoot
    ELSE IF \E b \in DOMAIN batches : ClosesBatch(b, s)
         THEN batches[CHOOSE b \in DOMAIN batches : ClosesBatch(b, s)].after
         ELSE evidence[s].after

(* The evidence history never forks: each receipt starts from the root its *)
(* predecessor (or the batch its predecessor closed) left, and the head    *)
(* stands at the end of that chain.  What is staged has not moved it.      *)
RootChain ==
    /\ \A s \in DOMAIN evidence : evidence[s].before = RootAfter(s - 1)
    /\ head.root = RootAfter(head.seq)
    /\ \A s \in StagedLeaves : evidence[s].before = head.root /\ evidence[s].after = head.root

(* A batch receipt attests exactly a contiguous run of leaves, each of     *)
(* which carries the batch's id and started from the batch's before root;  *)
(* batches are numbered without a gap and no leaf is in a missing batch.   *)
BatchRanges ==
    /\ IsFiniteSet(DOMAIN batches)
    /\ DOMAIN batches = 1..Cardinality(DOMAIN batches)
    /\ \A s \in DOMAIN leaves :
           IF s \in StagedLeaves THEN leaves[s].batch = 0 ELSE leaves[s].batch \in DOMAIN batches
    /\ \A b \in DOMAIN batches :
           /\ {s \in DOMAIN leaves : leaves[s].batch = b} = batches[b].first .. batches[b].last
           /\ batches[b].count = batches[b].last - batches[b].first + 1
           /\ batches[b].last <= head.seq
           /\ \A s \in batches[b].first .. batches[b].last :
                  leaves[s].state = "flushed" /\ evidence[s].before = batches[b].before

(* Receipts, leaves and batches attest what was reserved and staged, each  *)
(* exactly once, whatever the order of appends, stages and flushes.        *)
RecordsBound == ReceiptsBound /\ LeafOrder /\ BatchRanges

(* Nothing that was recorded is rewritten: receipts and batches are only   *)
(* added, the head never moves back, and a reservation only moves forward. *)
Rank(state) == CASE state = "reserved" -> 0 [] state = "staged" -> 1 [] state = "finalized" -> 2

AppendOnlyStep ==
    /\ \A s \in DOMAIN evidence : s \in DOMAIN evidence' /\ evidence'[s] = evidence[s]
    /\ \A b \in DOMAIN batches : b \in DOMAIN batches' /\ batches'[b] = batches[b]
    /\ \A s \in DOMAIN reservations :
           /\ s \in DOMAIN reservations'
           /\ reservation_matches(reservations[s], reservations'[s])
           /\ Rank(reservations[s].state) <= Rank(reservations'[s].state)
    /\ head.seq <= head'.seq
    /\ head' # head => head.seq < head'.seq

AppendOnly == [][AppendOnlyStep]_journal
=============================================================================
