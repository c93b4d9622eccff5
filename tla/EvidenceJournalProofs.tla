----------------------- MODULE EvidenceJournalProofs -----------------------
(* Proofs about the evidence journal, for any sets of nonces, roots and spans. *)
EXTENDS EvidenceJournal, FiniteSetTheorems, TLAPS

(* The inductive invariant: the properties are only inductive together.   *)
IInv ==
    /\ TypeOK
    /\ LedgerOrder
    /\ ReceiptsBound
    /\ LeafOrder
    /\ RootChain
    /\ BatchRanges

-----------------------------------------------------------------------------
(* Operators. *)

(* An interval that starts after h and has k members. *)
LEMMA IntervalCardinality ==
    ASSUME NEW h \in Nat, NEW k \in Nat
    PROVE  Cardinality((h + 1)..(h + k)) = k
BY FS_Interval, h + 1 \in Int, h + k \in Int

(* max(key) + 1 of a table whose keys have no gap. *)
LEMMA NextKeyOfRun ==
    ASSUME NEW table, NEW n \in Nat, DOMAIN table = 1..n
    PROVE  NextKey(table) = n + 1
<1>1. CASE n = 0
  <2>1. DOMAIN table = {}
    BY <1>1
  <2>. QED  BY <1>1, <2>1 DEF NextKey
<1>2. CASE n # 0
  <2>1. n \in DOMAIN table /\ \A t \in DOMAIN table : t <= n
    BY <1>2
  <2>2. \A m \in DOMAIN table : (\A t \in DOMAIN table : t <= m) => m = n
    BY <2>1
  <2>3. (CHOOSE s \in DOMAIN table : \A t \in DOMAIN table : t <= s) = n
    BY <2>1, <2>2
  <2>. QED  BY <2>1, <2>3 DEF NextKey
<1>. QED  BY <1>1, <1>2

-----------------------------------------------------------------------------
(* What the invariant says of the tables, in the form the steps use. *)
LEMMA Shape ==
    ASSUME IInv
    PROVE  /\ head.seq \in Nat /\ staged_count \in Nat
           /\ StagedLeaves = (head.seq + 1)..(head.seq + staged_count)
           /\ InState("reserved") = {} => DOMAIN reservations = 1..(head.seq + staged_count)
           /\ \A s \in InState("reserved") : s = head.seq + staged_count + 1
           /\ DOMAIN evidence = 1..(head.seq + staged_count)
<1>1. IsFiniteSet(StagedLeaves) /\ head.seq \in Nat
  BY FS_Subset DEF IInv, TypeOK, StagedLeaves
<1>2. staged_count \in Nat
  BY <1>1, FS_CardinalityType DEF staged_count
<1>3. DOMAIN reservations = InState("reserved") \cup InState("staged") \cup InState("finalized")
  BY DEF IInv, TypeOK, RowState, InState
<1>4. /\ InState("finalized") = 1..head.seq
      /\ InState("staged") = (head.seq + 1)..(head.seq + staged_count)
      /\ InState("reserved") \subseteq {head.seq + staged_count + 1}
      /\ StagedLeaves = InState("staged")
  BY DEF IInv, LedgerOrder, LeafOrder, staged_count
<1>5. 1..head.seq \cup (head.seq + 1)..(head.seq + staged_count) = 1..(head.seq + staged_count)
  BY <1>1, <1>2
<1>. QED  BY <1>1, <1>2, <1>3, <1>4, <1>5 DEF IInv, ReceiptsBound

(* The staged rows, read by leaf_index, are the mediations after the head. *)
LEMMA StagedRows ==
    ASSUME IInv
    PROVE  \A i \in 1..staged_count : staged_rows[i] = head.seq + i
<1>. SUFFICES ASSUME NEW i \in 1..staged_count
              PROVE  staged_rows[i] = head.seq + i
  OBVIOUS
<1>1. head.seq \in Nat /\ staged_count \in Nat
  BY Shape
<1>2. \A s \in StagedLeaves : s \in Nat /\ leaves[s].index = s - head.seq - 1
  BY Shape DEF IInv, LeafOrder
<1>3. head.seq + i \in StagedLeaves /\ leaves[head.seq + i].index = i - 1
  BY <1>1, <1>2, Shape
<1>4. \A s \in StagedLeaves : leaves[s].index = i - 1 => s = head.seq + i
  BY <1>1, <1>2
<1>5. (CHOOSE s \in StagedLeaves : leaves[s].index = i - 1) = head.seq + i
  BY <1>3, <1>4
<1>. QED  BY <1>5 DEF staged_rows, staged_count

-----------------------------------------------------------------------------
(* The invariant holds of the empty journal and every transaction keeps it. *)

(* The empty journal has the invariant.                                    *)
LEMMA InitIInv == Init => IInv
<1>. SUFFICES ASSUME Init PROVE IInv
  OBVIOUS
<1>1. /\ DOMAIN reservations = {} /\ DOMAIN evidence = {}
      /\ DOMAIN leaves = {} /\ DOMAIN batches = {}
      /\ head.seq = 0 /\ head.root = ZeroRoot
  BY DEF Init, Empty
<1>2. StagedLeaves = {} /\ \A st : InState(st) = {}
  BY <1>1 DEF StagedLeaves, InState
<1>3. staged_count = 0
  BY <1>2, FS_EmptySet DEF staged_count
<1>4. TypeOK
  BY <1>1, FS_EmptySet DEF TypeOK
<1>5. LedgerOrder
  BY <1>1, <1>2, <1>3 DEF LedgerOrder
<1>6. ReceiptsBound /\ LeafOrder
  BY <1>1, <1>2 DEF ReceiptsBound, LeafOrder
<1>7. RootChain
  BY <1>1, <1>2 DEF RootChain, RootAfter
<1>8. BatchRanges
  BY <1>1, FS_EmptySet DEF BatchRanges
<1>. QED  BY <1>4, <1>5, <1>6, <1>7, <1>8 DEF IInv

(* The invariant only speaks of the tables. *)
LEMMA UnchangedIInv == IInv /\ UNCHANGED journal => IInv'
<1>. SUFFICES ASSUME IInv, UNCHANGED journal PROVE IInv'
  OBVIOUS
<1>1. UNCHANGED <<reservations, evidence, leaves, batches, head>>
  BY DEF journal
<1>2. UNCHANGED <<StagedLeaves, staged_count>> /\ \A st : InState(st)' = InState(st)
  BY <1>1 DEF StagedLeaves, staged_count, InState
<1>3. TypeOK' /\ LedgerOrder' /\ LeafOrder' /\ BatchRanges'
  BY <1>1, <1>2 DEF IInv, TypeOK, LedgerOrder, LeafOrder, BatchRanges
<1>4. ReceiptsBound' /\ RootChain'
  BY <1>1, <1>2 DEF IInv, ReceiptsBound, reservation_matches, RootChain, RootAfter, ClosesBatch
<1>. QED  BY <1>3, <1>4 DEF IInv

(* A new reservation lands right after the staged rows. *)
LEMMA ReserveIInv ==
    ASSUME IInv, NEW seq, NEW r,
           r.nonce \in Nonce, r.span \in Span, r.semantic \in SemanticRoot,
           reserve(seq, r)
    PROVE  IInv'
<1>1. CASE UNCHANGED journal
  BY <1>1, UnchangedIInv
<1>2. CASE ~UNCHANGED journal
  <2>1. /\ seq \notin DOMAIN reservations
        /\ InState("reserved") = {}
        /\ seq = next_reservation_sequence
        /\ reservations' = Insert(reservations, seq,
              [nonce |-> r.nonce, span |-> r.span, semantic |-> r.semantic,
               before |-> r.before, state |-> "reserved"])
        /\ UNCHANGED <<evidence, leaves, batches, head>>
    BY <1>2 DEF reserve, InsertReservation
  <2>2. /\ head.seq \in Nat /\ staged_count \in Nat
        /\ seq = head.seq + staged_count + 1
    BY <2>1, Shape, NextKeyOfRun, head.seq + staged_count \in Nat DEF next_reservation_sequence
  <2>3. /\ DOMAIN reservations' = DOMAIN reservations \cup {seq}
        /\ reservations'[seq] = [nonce |-> r.nonce, span |-> r.span, semantic |-> r.semantic,
                                 before |-> r.before, state |-> "reserved"]
        /\ \A s \in DOMAIN reservations : reservations'[s] = reservations[s]
    BY <2>1 DEF Insert
  <2>4. /\ InState("finalized")' = InState("finalized")
        /\ InState("staged")' = InState("staged")
        /\ InState("reserved")' = {seq}
    BY <2>1, <2>3 DEF InState
  <2>5. StagedLeaves' = StagedLeaves /\ staged_count' = staged_count
    BY <2>1 DEF StagedLeaves, staged_count
  <2>6. TypeOK'
    BY <2>1, <2>2, <2>3 DEF IInv, TypeOK, RowState
  <2>7. LedgerOrder'
    BY <2>1, <2>2, <2>4, <2>5 DEF IInv, LedgerOrder
  <2>8. ReceiptsBound'
    BY <2>1, <2>3, <2>4 DEF IInv, ReceiptsBound, reservation_matches, InState
  <2>9. LeafOrder'
    BY <2>1, <2>4, <2>5 DEF IInv, LeafOrder
  <2>10. RootChain'
    BY <2>1, <2>5 DEF IInv, RootChain, RootAfter, ClosesBatch
  <2>11. BatchRanges'
    BY <2>1, <2>5 DEF IInv, BatchRanges
  <2>. QED  BY <2>6, <2>7, <2>8, <2>9, <2>10, <2>11 DEF IInv
<1>. QED  BY <1>1, <1>2

(* An appended receipt is only accepted when nothing is staged. *)
LEMMA AppendIInv ==
    ASSUME IInv, NEW seq, NEW r, append(seq, r)
    PROVE  IInv'
<1>1. /\ seq \in InState("reserved")
      /\ seq = head.seq + 1 /\ r.before = head.root
      /\ UNCHANGED <<leaves, batches>>
  BY DEF append, append_accepts, assert_reserved, assert_extends, InState
<1>2. /\ head.seq \in Nat /\ staged_count = 0
      /\ StagedLeaves = {} /\ DOMAIN evidence = 1..head.seq
      /\ InState("reserved") = {seq}
  <2>1. head.seq \in Nat /\ staged_count \in Nat /\ seq = head.seq + staged_count + 1
    BY <1>1, Shape
  <2>2. staged_count = 0
    BY <1>1, <2>1
  <2>3. (head.seq + 1)..(head.seq + 0) = {} /\ 1..(head.seq + 0) = 1..head.seq
    BY <2>1
  <2>4. StagedLeaves = {} /\ DOMAIN evidence = 1..head.seq
    BY <2>2, <2>3, Shape
  <2>5. InState("reserved") = {seq}
    BY <1>1, <2>1, Shape
  <2>. QED  BY <2>1, <2>2, <2>4, <2>5
<1>3. head'.seq = seq /\ head'.root = r.after
  BY DEF append
<1>4. /\ DOMAIN reservations' = DOMAIN reservations
      /\ \A s \in DOMAIN reservations :
            /\ reservations'[s].state = IF s = seq THEN "finalized" ELSE reservations[s].state
            /\ reservations'[s].nonce = reservations[s].nonce
            /\ reservations'[s].span = reservations[s].span
            /\ reservations'[s].semantic = reservations[s].semantic
            /\ reservations'[s].before = reservations[s].before
  BY DEF append, append_accepts, SetState
<1>5. /\ DOMAIN evidence' = DOMAIN evidence \cup {seq} /\ evidence'[seq] = r
      /\ \A s \in DOMAIN evidence : s # seq => evidence'[s] = evidence[s]
      /\ r.outcome \in Outcome /\ reservation_matches(r, reservations[seq])
  BY DEF append, append_accepts, Insert, valid_receipt, assert_reserved
<1>6. /\ InState("finalized")' = InState("finalized") \cup {seq}
      /\ InState("staged")' = InState("staged")
      /\ InState("reserved")' = {}
  BY <1>2, <1>4 DEF InState
<1>7. StagedLeaves' = StagedLeaves /\ staged_count' = staged_count
  BY <1>1 DEF StagedLeaves, staged_count
<1>8. InState("finalized") = 1..head.seq /\ InState("staged") = {}
  BY <1>2 DEF IInv, LedgerOrder, LeafOrder
<1>9. TypeOK'
  <2>1. \A s \in DOMAIN reservations' : /\ reservations'[s].nonce \in Nonce
                                        /\ reservations'[s].span \in Span
                                        /\ reservations'[s].semantic \in SemanticRoot
                                        /\ reservations'[s].state \in RowState
    BY <1>4 DEF IInv, TypeOK, RowState
  <2>2. /\ DOMAIN evidence' \subseteq Nat \ {0} /\ head'.seq \in Nat
        /\ \A s \in DOMAIN evidence' : evidence'[s].outcome \in Outcome
    BY <1>1, <1>2, <1>3, <1>5 DEF IInv, TypeOK
  <2>. QED  BY <1>1, <1>4, <2>1, <2>2 DEF IInv, TypeOK
<1>10. LedgerOrder'
  <2>1. 1..head.seq \cup {seq} = 1..seq
    BY <1>1, <1>2
  <2>2. (seq + 1)..(seq + 0) = {}
    BY <1>1, <1>2
  <2>. QED  BY <1>2, <1>3, <1>6, <1>7, <1>8, <2>1, <2>2 DEF LedgerOrder
<1>11. ReceiptsBound'
  <2>1. DOMAIN evidence' = (InState("finalized") \cup InState("staged"))'
    BY <1>2, <1>5, <1>6, <1>8
  <2>2. \A s \in DOMAIN evidence' : s \in DOMAIN reservations
    BY <1>1, <1>5 DEF IInv, ReceiptsBound, InState
  <2>3. \A s \in DOMAIN evidence' : reservation_matches(evidence'[s], reservations'[s])
    BY <1>4, <1>5, <2>2 DEF IInv, ReceiptsBound, reservation_matches
  <2>. QED  BY <2>1, <2>3 DEF ReceiptsBound, reservation_matches
<1>12. LeafOrder'
  BY <1>2, <1>6, <1>7, <1>8 DEF LeafOrder
<1>13. RootChain'
  <2>1. \A b \in DOMAIN batches : batches[b].last <= head.seq
    BY DEF IInv, BatchRanges
  <2>2. \A s \in 0..head.seq : RootAfter(s)' = RootAfter(s)
    BY <1>1, <1>2, <1>5 DEF RootAfter, ClosesBatch
  <2>3. RootAfter(seq)' = r.after
    BY <1>1, <1>2, <1>5, <2>1 DEF RootAfter, ClosesBatch
  <2>4. \A s \in DOMAIN evidence' : evidence'[s].before = RootAfter(s - 1)'
    BY <1>1, <1>2, <1>5, <2>2 DEF IInv, RootChain
  <2>. QED  BY <1>2, <1>3, <1>7, <2>3, <2>4 DEF RootChain
<1>14. BatchRanges'
  <2>1. ASSUME NEW b \in DOMAIN batches, NEW s \in batches[b].first .. batches[b].last
        PROVE  evidence'[s] = evidence[s]
    <3>1. s \in DOMAIN leaves /\ s \in Nat /\ s # 0
      BY DEF IInv, BatchRanges, TypeOK
    <3>2. s <= head.seq
      BY <1>2, <3>1 DEF IInv, BatchRanges, TypeOK
    <3>. QED  BY <1>1, <1>2, <1>5, <3>1, <3>2
  <2>2. \A b \in DOMAIN batches : batches[b].last <= head'.seq
    <3>1. \A b \in DOMAIN batches : batches[b].last <= head.seq /\ batches[b].last \in Nat
      BY DEF IInv, BatchRanges, TypeOK
    <3>. QED  BY <1>1, <1>2, <1>3, <3>1
  <2>. QED  BY <1>1, <1>7, <2>1, <2>2 DEF IInv, BatchRanges
<1>. QED  BY <1>9, <1>10, <1>11, <1>12, <1>13, <1>14 DEF IInv

(* A staged leaf is numbered after the leaves staged before it. *)
LEMMA StageIInv ==
    ASSUME IInv, NEW seq, NEW r, stage_batched(seq, r)
    PROVE  IInv'
<1>1. /\ seq \in InState("reserved")
      /\ r.before = head.root /\ r.after = head.root
      /\ UNCHANGED <<batches, head>>
  BY DEF stage_batched, stage_accepts, valid_receipt, assert_reserved, InState
<1>2. /\ head.seq \in Nat /\ staged_count \in Nat
      /\ seq = head.seq + staged_count + 1 /\ InState("reserved") = {seq}
      /\ DOMAIN evidence = 1..(head.seq + staged_count)
      /\ StagedLeaves = (head.seq + 1)..(head.seq + staged_count)
  BY <1>1, Shape
<1>3. /\ DOMAIN reservations' = DOMAIN reservations
      /\ \A s \in DOMAIN reservations :
            /\ reservations'[s].state = IF s = seq THEN "staged" ELSE reservations[s].state
            /\ reservations'[s].nonce = reservations[s].nonce
            /\ reservations'[s].span = reservations[s].span
            /\ reservations'[s].semantic = reservations[s].semantic
            /\ reservations'[s].before = reservations[s].before
  BY DEF stage_batched, stage_accepts, SetState
<1>4. /\ DOMAIN evidence' = DOMAIN evidence \cup {seq} /\ evidence'[seq] = r
      /\ \A s \in DOMAIN evidence : s # seq => evidence'[s] = evidence[s]
      /\ r.outcome \in Outcome /\ reservation_matches(r, reservations[seq])
  BY DEF stage_batched, stage_accepts, Insert, valid_receipt, assert_reserved
<1>5. /\ seq \notin DOMAIN leaves
      /\ DOMAIN leaves' = DOMAIN leaves \cup {seq}
      /\ leaves'[seq].index = staged_count
      /\ leaves'[seq].state = "staged" /\ leaves'[seq].batch = 0
      /\ \A s \in DOMAIN leaves : leaves'[s] = leaves[s]
  BY DEF stage_batched, stage_accepts, Insert
<1>6. /\ InState("finalized")' = InState("finalized")
      /\ InState("staged")' = InState("staged") \cup {seq}
      /\ InState("reserved")' = {}
  BY <1>1, <1>2, <1>3 DEF InState
<1>7. /\ StagedLeaves' = StagedLeaves \cup {seq}
      /\ StagedLeaves' = (head.seq + 1)..(head.seq + (staged_count + 1))
  <2>1. StagedLeaves' = StagedLeaves \cup {seq}
    BY <1>5 DEF StagedLeaves
  <2>. QED  BY <1>2, <2>1
<1>8. staged_count' = staged_count + 1
  <2>1. head.seq \in Nat /\ staged_count + 1 \in Nat
    BY <1>2
  <2>2. Cardinality((head.seq + 1)..(head.seq + (staged_count + 1))) = staged_count + 1
    BY <2>1, IntervalCardinality
  <2>3. staged_count' = Cardinality(StagedLeaves')
    BY DEF staged_count
  <2>. QED  BY <1>7, <2>2, <2>3
<1>9. TypeOK'
  <2>1. \A s \in DOMAIN reservations' : /\ reservations'[s].nonce \in Nonce
                                        /\ reservations'[s].span \in Span
                                        /\ reservations'[s].semantic \in SemanticRoot
                                        /\ reservations'[s].state \in RowState
    BY <1>3 DEF IInv, TypeOK, RowState
  <2>2. /\ DOMAIN evidence' \subseteq Nat \ {0}
        /\ \A s \in DOMAIN evidence' : evidence'[s].outcome \in Outcome
    BY <1>2, <1>4 DEF IInv, TypeOK
  <2>3. /\ DOMAIN leaves' \subseteq Nat \ {0}
        /\ \A s \in DOMAIN leaves' : /\ leaves'[s].index \in Nat
                                     /\ leaves'[s].state \in {"staged", "flushed"}
                                     /\ leaves'[s].batch \in Nat
    BY <1>2, <1>5 DEF IInv, TypeOK
  <2>4. IsFiniteSet(DOMAIN leaves')
    BY <1>5, FS_AddElement DEF IInv, TypeOK
  <2>. QED  BY <1>1, <1>3, <2>1, <2>2, <2>3, <2>4 DEF IInv, TypeOK
<1>10. LedgerOrder'
  <2>1. InState("staged") = StagedLeaves
    BY DEF IInv, LeafOrder
  <2>. QED  BY <1>1, <1>6, <1>7, <1>8, <2>1 DEF IInv, LedgerOrder
<1>11. ReceiptsBound'
  <2>1. DOMAIN evidence' = (InState("finalized") \cup InState("staged"))'
    BY <1>4, <1>6 DEF IInv, ReceiptsBound
  <2>2. \A s \in DOMAIN evidence' : s \in DOMAIN reservations
    BY <1>1, <1>4 DEF IInv, ReceiptsBound, InState
  <2>3. \A s \in DOMAIN evidence' : reservation_matches(evidence'[s], reservations'[s])
    BY <1>3, <1>4, <2>2 DEF IInv, ReceiptsBound, reservation_matches
  <2>. QED  BY <2>1, <2>3 DEF ReceiptsBound, reservation_matches
<1>12. LeafOrder'
  <2>1. \A s \in StagedLeaves' : leaves'[s].index = s - head'.seq - 1
    <3>1. leaves'[seq].index = seq - head.seq - 1
      BY <1>2, <1>5
    <3>2. \A s \in StagedLeaves : s \in DOMAIN leaves /\ leaves[s].index = s - head.seq - 1
      BY DEF IInv, LeafOrder, StagedLeaves
    <3>. QED  BY <1>1, <1>5, <1>7, <3>1, <3>2
  <2>. QED  BY <1>6, <1>7, <2>1 DEF IInv, LeafOrder
<1>13. RootChain'
  <2>1. \A b \in DOMAIN batches : batches[b].last <= head.seq /\ batches[b].last \in Nat
    BY DEF IInv, BatchRanges, TypeOK
  <2>2. \A s \in 0..(head.seq + staged_count) : RootAfter(s)' = RootAfter(s)
    BY <1>1, <1>2, <1>4 DEF RootAfter, ClosesBatch
  <2>3. RootAfter(head.seq + staged_count) = head.root
    <3>1. CASE staged_count = 0
      BY <1>2, <3>1 DEF IInv, RootChain
    <3>2. CASE staged_count # 0
      <4>1. head.seq + staged_count \in StagedLeaves
        BY <1>2, <3>2
      <4>2. evidence[head.seq + staged_count].after = head.root
        BY <4>1 DEF IInv, RootChain
      <4>3. ~ \E b \in DOMAIN batches : batches[b].last = head.seq + staged_count
        BY <1>2, <2>1, <3>2
      <4>4. head.seq + staged_count # 0
        BY <1>2, <3>2
      <4>. QED  BY <4>2, <4>3, <4>4 DEF RootAfter, ClosesBatch
    <3>. QED  BY <3>1, <3>2
  <2>4. \A s \in DOMAIN evidence' : evidence'[s].before = RootAfter(s - 1)'
    <3>1. evidence'[seq].before = RootAfter(seq - 1)'
      <4>1. seq - 1 = head.seq + staged_count /\ seq - 1 \in 0..(head.seq + staged_count)
        BY <1>2
      <4>. QED  BY <1>1, <1>4, <2>2, <2>3, <4>1
    <3>2. \A s \in DOMAIN evidence : evidence'[s].before = RootAfter(s - 1)'
      BY <1>2, <1>4, <2>2 DEF IInv, RootChain
    <3>. QED  BY <1>4, <3>1, <3>2
  <2>5. head'.root = RootAfter(head.seq)'
    <3>1. head.root = RootAfter(head.seq) /\ head.seq \in 0..(head.seq + staged_count)
      BY <1>2 DEF IInv, RootChain
    <3>. QED  BY <1>1, <2>2, <3>1
  <2>6. \A s \in StagedLeaves' : evidence'[s].before = head'.root /\ evidence'[s].after = head'.root
    <3>1. \A s \in StagedLeaves : s \in DOMAIN evidence /\ s # seq
      BY <1>2
    <3>2. \A s \in StagedLeaves : evidence[s].before = head.root /\ evidence[s].after = head.root
      BY DEF IInv, RootChain
    <3>. QED  BY <1>1, <1>4, <1>7, <3>1, <3>2
  <2>. QED  BY <1>1, <2>4, <2>5, <2>6 DEF RootChain
<1>14. BatchRanges'
  <2>1. \A s \in DOMAIN leaves : leaves'[s] = leaves[s] /\ (s \in StagedLeaves <=> s \in StagedLeaves')
    BY <1>5, <1>7
  <2>2. \A s \in DOMAIN leaves' :
           IF s \in StagedLeaves' THEN leaves'[s].batch = 0 ELSE leaves'[s].batch \in DOMAIN batches
    BY <1>5, <1>7, <2>1 DEF IInv, BatchRanges
  <2>3. ASSUME NEW b \in DOMAIN batches
        PROVE  {s \in DOMAIN leaves' : leaves'[s].batch = b} = {s \in DOMAIN leaves : leaves[s].batch = b}
    <3>1. b # 0
      BY DEF IInv, TypeOK
    <3>. QED  BY <1>5, <3>1
  <2>4. ASSUME NEW b \in DOMAIN batches, NEW s \in batches[b].first .. batches[b].last
        PROVE  evidence'[s] = evidence[s] /\ leaves'[s] = leaves[s]
    <3>1. s \in DOMAIN leaves /\ s \in Nat /\ s # 0
      BY DEF IInv, BatchRanges, TypeOK
    <3>2. s <= head.seq
      BY <1>2, <3>1 DEF IInv, BatchRanges, TypeOK
    <3>. QED  BY <1>2, <1>4, <1>5, <3>1, <3>2
  <2>. QED  BY <1>1, <2>2, <2>3, <2>4 DEF IInv, BatchRanges
<1>. QED  BY <1>9, <1>10, <1>11, <1>12, <1>13, <1>14 DEF IInv

(* A flush covers all that is staged with one batch. *)
LEMMA FlushIInv ==
    ASSUME IInv, NEW digests, flush_batched(digests)
    PROVE  IInv'
<1>. DEFINE id == next_batch_id
            top == head.seq + staged_count
            after == batch_execution_root(head.root, digests)
<1>1. /\ head.seq \in Nat /\ staged_count \in Nat /\ staged_count # 0
      /\ DOMAIN evidence = 1..top
      /\ StagedLeaves = (head.seq + 1)..top
      /\ InState("staged") = StagedLeaves
      /\ InState("finalized") = 1..head.seq
      /\ InState("reserved") \subseteq {top + 1}
  <2>1. StagedLeaves # {}
    BY DEF flush_batched
  <2>2. head.seq \in Nat /\ staged_count \in Nat /\ StagedLeaves = (head.seq + 1)..top
    BY Shape
  <2>3. staged_count # 0
    BY <2>1, <2>2
  <2>. QED  BY <2>2, <2>3, Shape DEF IInv, LeafOrder, LedgerOrder
<1>2. top \in Nat /\ head.seq < top
  BY <1>1
<1>3. staged_rows[1] = head.seq + 1 /\ staged_rows[staged_count] = top
  BY <1>1, StagedRows
<1>4. /\ id \in Nat \ {0} /\ id \notin DOMAIN batches
      /\ DOMAIN batches \cup {id} = 1..id /\ IsFiniteSet(1..id) /\ Cardinality(1..id) = id
  <2>. DEFINE m == Cardinality(DOMAIN batches)
  <2>1. m \in Nat /\ DOMAIN batches = 1..m
    BY FS_CardinalityType DEF IInv, BatchRanges
  <2>2. id = m + 1
    BY <2>1, NextKeyOfRun DEF next_batch_id
  <2>3. IsFiniteSet(1..id) /\ Cardinality(1..id) = id
    BY <2>1, <2>2, FS_Interval, 1 \in Int, id \in Int
  <2>. QED  BY <2>1, <2>2, <2>3
<1>5. /\ DOMAIN batches' = DOMAIN batches \cup {id}
      /\ batches'[id] = [first |-> head.seq + 1, last |-> top, count |-> staged_count,
                         before |-> head.root, after |-> after]
      /\ \A b \in DOMAIN batches : batches'[b] = batches[b]
      /\ head'.seq = top /\ head'.root = after
      /\ evidence' = evidence
  BY <1>3, <1>4 DEF flush_batched, Insert
<1>6. /\ DOMAIN leaves' = DOMAIN leaves
      /\ \A s \in DOMAIN leaves :
            /\ leaves'[s].index = leaves[s].index
            /\ s \in StagedLeaves => leaves'[s].state = "flushed" /\ leaves'[s].batch = id
            /\ s \notin StagedLeaves => leaves'[s] = leaves[s]
  BY DEF flush_batched
<1>7. /\ DOMAIN reservations' = DOMAIN reservations
      /\ \A s \in DOMAIN reservations :
            /\ reservations'[s].state =
                  IF s \in InState("staged") THEN "finalized" ELSE reservations[s].state
            /\ reservations'[s].nonce = reservations[s].nonce
            /\ reservations'[s].span = reservations[s].span
            /\ reservations'[s].semantic = reservations[s].semantic
            /\ reservations'[s].before = reservations[s].before
  BY DEF flush_batched, SetState
<1>8. /\ InState("finalized")' = InState("finalized") \cup InState("staged")
      /\ InState("staged")' = {}
      /\ InState("reserved")' = InState("reserved")
  BY <1>7 DEF InState
<1>9. StagedLeaves' = {} /\ staged_count' = 0
  <2>1. StagedLeaves' = {}
    BY <1>6 DEF StagedLeaves
  <2>. QED  BY <2>1, FS_EmptySet DEF staged_count
<1>10. TypeOK'
  <2>1. \A s \in DOMAIN reservations' : /\ reservations'[s].nonce \in Nonce
                                        /\ reservations'[s].span \in Span
                                        /\ reservations'[s].semantic \in SemanticRoot
                                        /\ reservations'[s].state \in RowState
    BY <1>7 DEF IInv, TypeOK, RowState
  <2>2. \A s \in DOMAIN leaves' : /\ leaves'[s].index \in Nat
                                  /\ leaves'[s].state \in {"staged", "flushed"}
                                  /\ leaves'[s].batch \in Nat
    BY <1>4, <1>6 DEF IInv, TypeOK
  <2>3. \A b \in DOMAIN batches' : batches'[b].first \in Nat /\ batches'[b].last \in Nat
    BY <1>1, <1>2, <1>5 DEF IInv, TypeOK
  <2>4. DOMAIN batches' \subseteq Nat \ {0}
    BY <1>4, <1>5 DEF IInv, TypeOK
  <2>. QED  BY <1>2, <1>5, <1>6, <1>7, <2>1, <2>2, <2>3, <2>4 DEF IInv, TypeOK
<1>11. LedgerOrder'
  <2>1. 1..head.seq \cup (head.seq + 1)..top = 1..top
    BY <1>1, <1>2
  <2>2. (top + 1)..(top + 0) = {} /\ top + 0 + 1 = top + 1
    BY <1>2
  <2>. QED  BY <1>1, <1>5, <1>8, <1>9, <2>1, <2>2 DEF LedgerOrder
<1>12. ReceiptsBound'
  <2>1. \A s \in DOMAIN evidence : s \in DOMAIN reservations
    BY DEF IInv, ReceiptsBound, InState
  <2>. QED  BY <1>5, <1>7, <1>8, <2>1 DEF IInv, ReceiptsBound, reservation_matches
<1>13. LeafOrder'
  BY <1>8, <1>9 DEF LeafOrder
<1>14. RootChain'
  <2>1. \A b \in DOMAIN batches : batches[b].last <= head.seq /\ batches[b].last \in Nat
    BY DEF IInv, BatchRanges, TypeOK
  <2>2. ASSUME NEW s \in 0..(top - 1)
        PROVE  RootAfter(s)' = RootAfter(s)
    <3>1. \A b \in DOMAIN batches' : batches'[b].last = s <=> b \in DOMAIN batches /\ batches[b].last = s
      BY <1>2, <1>4, <1>5
    <3>2. (CHOOSE b \in DOMAIN batches' : batches'[b].last = s)
            = (CHOOSE b \in DOMAIN batches : batches[b].last = s)
          \/ ~ \E b \in DOMAIN batches : batches[b].last = s
      <4>1. \A b : (b \in DOMAIN batches' /\ batches'[b].last = s)
                    <=> (b \in DOMAIN batches /\ batches[b].last = s)
        BY <1>5, <3>1
      <4>. QED  BY <4>1
    <3>3. CASE \E b \in DOMAIN batches : batches[b].last = s
      <4>1. PICK c : c = CHOOSE b \in DOMAIN batches : batches[b].last = s
        OBVIOUS
      <4>2. c \in DOMAIN batches
        BY <3>3, <4>1
      <4>3. batches'[c] = batches[c]
        BY <1>5, <4>2
      <4>. QED  BY <1>5, <3>1, <3>2, <3>3, <4>1, <4>2, <4>3 DEF RootAfter, ClosesBatch
    <3>4. CASE ~ \E b \in DOMAIN batches : batches[b].last = s
      BY <1>5, <3>1, <3>4 DEF RootAfter, ClosesBatch
    <3>. QED  BY <3>3, <3>4
  <2>3. RootAfter(head.seq)' = after
    <3>1. \A b \in DOMAIN batches' : batches'[b].last = top <=> b = id
      BY <1>1, <1>2, <1>4, <1>5, <2>1
    <3>2. (CHOOSE b \in DOMAIN batches' : batches'[b].last = head'.seq) = id
      BY <1>5, <3>1
    <3>3. (\E b \in DOMAIN batches' : batches'[b].last = head'.seq) /\ head'.seq # 0
      BY <1>1, <1>2, <1>5, <3>1
    <3>4. batches'[id].after = after
      BY <1>5
    <3>. QED  BY <3>2, <3>3, <3>4 DEF RootAfter, ClosesBatch
  <2>4. \A s \in DOMAIN evidence : s - 1 \in 0..(top - 1)
    BY <1>1, <1>2
  <2>5. \A s \in DOMAIN evidence' : evidence'[s].before = RootAfter(s - 1)'
    BY <1>5, <2>2, <2>4 DEF IInv, RootChain
  <2>. QED  BY <1>5, <1>9, <2>3, <2>5 DEF RootChain
<1>15. BatchRanges'
  <2>1. IsFiniteSet(DOMAIN batches') /\ DOMAIN batches' = 1..Cardinality(DOMAIN batches')
    BY <1>4, <1>5
  <2>2. \A s \in DOMAIN leaves' : leaves'[s].batch \in DOMAIN batches'
    BY <1>5, <1>6 DEF IInv, BatchRanges
  <2>3. ASSUME NEW b \in DOMAIN batches
        PROVE  /\ {s \in DOMAIN leaves' : leaves'[s].batch = b} = batches'[b].first .. batches'[b].last
               /\ batches'[b].count = batches'[b].last - batches'[b].first + 1
               /\ batches'[b].last <= head'.seq
               /\ \A s \in batches'[b].first .. batches'[b].last :
                     leaves'[s].state = "flushed" /\ evidence'[s].before = batches'[b].before
    <3>1. b # id /\ b # 0 /\ batches'[b] = batches[b]
      BY <1>4, <1>5 DEF IInv, TypeOK
    <3>2. \A s \in StagedLeaves : s \in DOMAIN leaves /\ leaves[s].batch = 0
      BY DEF IInv, BatchRanges, StagedLeaves
    <3>3. {s \in DOMAIN leaves' : leaves'[s].batch = b} = {s \in DOMAIN leaves : leaves[s].batch = b}
      BY <1>6, <3>1, <3>2
    <3>4. {s \in DOMAIN leaves : leaves[s].batch = b} = batches[b].first .. batches[b].last
      BY DEF IInv, BatchRanges
    <3>5. \A s \in batches[b].first .. batches[b].last : s \in DOMAIN leaves /\ s \notin StagedLeaves
      BY <3>1, <3>2, <3>4
    <3>6. batches[b].last <= head'.seq
      BY <1>1, <1>2, <1>5 DEF IInv, BatchRanges, TypeOK
    <3>. QED  BY <1>5, <1>6, <3>1, <3>3, <3>4, <3>5, <3>6 DEF IInv, BatchRanges
  <2>4. {s \in DOMAIN leaves' : leaves'[s].batch = id} = (head.seq + 1)..top
    <3>1. \A s \in DOMAIN leaves : s \notin StagedLeaves => leaves[s].batch # id
      BY <1>4 DEF IInv, BatchRanges
    <3>2. \A s \in StagedLeaves : s \in DOMAIN leaves
      BY DEF StagedLeaves
    <3>. QED  BY <1>1, <1>6, <3>1, <3>2
  <2>5. \A s \in (head.seq + 1)..top : leaves'[s].state = "flushed" /\ evidence'[s].before = head.root
    <3>1. \A s \in StagedLeaves : s \in DOMAIN leaves
      BY DEF StagedLeaves
    <3>. QED  BY <1>1, <1>5, <1>6, <3>1 DEF IInv, RootChain
  <2>6. staged_count = top - (head.seq + 1) + 1 /\ top <= head'.seq
    BY <1>1, <1>2, <1>5
  <2>7. \A b \in DOMAIN batches' :
           /\ {s \in DOMAIN leaves' : leaves'[s].batch = b} = batches'[b].first .. batches'[b].last
           /\ batches'[b].count = batches'[b].last - batches'[b].first + 1
           /\ batches'[b].last <= head'.seq
           /\ \A s \in batches'[b].first .. batches'[b].last :
                 leaves'[s].state = "flushed" /\ evidence'[s].before = batches'[b].before
    BY <1>5, <2>3, <2>4, <2>5, <2>6
  <2>. QED  BY <1>9, <2>1, <2>2, <2>7 DEF BatchRanges
<1>. QED  BY <1>10, <1>11, <1>12, <1>13, <1>14, <1>15 DEF IInv

-----------------------------------------------------------------------------
(* Results. *)

(* Every call keeps the invariant.                                         *)
LEMMA StepIInv == IInv /\ [Next]_journal => IInv'
<1>. SUFFICES ASSUME IInv, [Next]_journal PROVE IInv'
  OBVIOUS
<1>1. CASE ReserveCall
  <2>1. PICK b \in Binding, before \in KnownRoots, seq \in 1..(next_reservation_sequence + 1) :
            reserve(seq, Bound(b, before))
    BY <1>1 DEF ReserveCall
  <2>2. /\ Bound(b, before).nonce \in Nonce /\ Bound(b, before).span \in Span
        /\ Bound(b, before).semantic \in SemanticRoot
    BY DEF Binding, Bound
  <2>. QED  BY <2>1, <2>2, ReserveIInv
<1>2. CASE AppendCall
  BY <1>2, AppendIInv DEF AppendCall
<1>3. CASE StageCall
  BY <1>3, StageIInv DEF StageCall
<1>4. CASE FlushCall
  BY <1>4, FlushIInv DEF FlushCall
<1>5. CASE UNCHANGED journal
  BY <1>5, UnchangedIInv
<1>. QED  BY <1>1, <1>2, <1>3, <1>4, <1>5 DEF Next

(* The invariant holds in every state of every behaviour. *)
LEMMA Invariance == Spec => []IInv
BY InitIInv, StepIInv, PTL DEF Spec

(* The tables keep their schema whatever the callers do. *)
THEOREM Typing == Spec => []TypeOK
BY Invariance, PTL DEF IInv

(* The three runs of the mediation sequence, for any number of effects:    *)
(* evidence.py never leaves a gap, never has two unresolved reservations   *)
(* and never lets the head pass a row that is staged or reserved.          *)
THEOREM Ordered == Spec => []LedgerOrder
BY Invariance, PTL DEF IInv

(* No sequence of reserve, append, stage and flush forks the root chain,   *)
(* and every batch attests exactly its own leaves.                         *)
THEOREM NoFork == Spec => [](ReceiptsBound /\ LeafOrder /\ RootChain /\ BatchRanges)
<1>1. IInv => ReceiptsBound /\ LeafOrder /\ RootChain /\ BatchRanges
  BY DEF IInv
<1>. QED  BY <1>1, Invariance, PTL

(* Receipts attest their own reservation, leaves keep the order in which   *)
(* they were staged and batches cover consecutive leaves, each one once,   *)
(* for any number of appends, stages and flushes of                        *)
(* batched_evidence_store.py.                                              *)
THEOREM Attested == Spec => []RecordsBound
<1>1. IInv => RecordsBound
  BY DEF IInv, RecordsBound
<1>. QED  BY <1>1, Invariance, PTL

-----------------------------------------------------------------------------
(* A reservation changes state and nothing else. *)
LEMMA SetStateRank ==
    ASSUME IInv, NEW rows, NEW to \in RowState, reservations' = SetState(rows, to),
           \A s \in rows : s \in DOMAIN reservations =>
               Rank(reservations[s].state) <= Rank(to)
    PROVE  \A s \in DOMAIN reservations :
               /\ s \in DOMAIN reservations'
               /\ reservation_matches(reservations[s], reservations'[s])
               /\ Rank(reservations[s].state) <= Rank(reservations'[s].state)
<1>. SUFFICES ASSUME NEW s \in DOMAIN reservations
              PROVE  /\ s \in DOMAIN reservations'
                     /\ reservation_matches(reservations[s], reservations'[s])
                     /\ Rank(reservations[s].state) <= Rank(reservations'[s].state)
  OBVIOUS
<1>1. s \in DOMAIN reservations' /\ reservation_matches(reservations[s], reservations'[s])
  BY DEF SetState, reservation_matches
<1>2. reservations[s].state \in RowState
  BY DEF IInv, TypeOK
<1>3. CASE s \in rows
  <2>1. reservations'[s].state = to
    BY <1>3 DEF SetState
  <2>. QED  BY <1>1, <1>3, <2>1
<1>4. CASE s \notin rows
  <2>1. reservations'[s].state = reservations[s].state
    BY <1>4 DEF SetState
  <2>2. Rank(reservations[s].state) <= Rank(reservations[s].state)
    BY <1>2 DEF Rank, RowState
  <2>. QED  BY <1>1, <2>1, <2>2
<1>. QED  BY <1>3, <1>4

(* A refused call keeps the history.                                      *)
LEMMA UnchangedAppendOnly ==
    ASSUME IInv, UNCHANGED journal PROVE AppendOnlyStep
<1>1. UNCHANGED <<reservations, evidence, leaves, batches, head>>
  BY DEF journal
<1>2. \A s \in DOMAIN reservations : reservations[s].state \in RowState
  BY DEF IInv, TypeOK
<1>3. \A st \in RowState : Rank(st) <= Rank(st)
  BY DEF Rank, RowState
<1>4. head.seq \in Nat
  BY Shape
<1>. QED  BY <1>1, <1>2, <1>3, <1>4 DEF AppendOnlyStep, reservation_matches

(* A reservation adds one row and changes none.                           *)
LEMMA ReserveAppendOnly ==
    ASSUME IInv, NEW seq, NEW r, reserve(seq, r) PROVE AppendOnlyStep
<1>1. CASE UNCHANGED journal
  BY <1>1, UnchangedAppendOnly
<1>2. CASE ~UNCHANGED journal
  <2>1. /\ seq \notin DOMAIN reservations
        /\ reservations' = Insert(reservations, seq,
              [nonce |-> r.nonce, span |-> r.span, semantic |-> r.semantic,
               before |-> r.before, state |-> "reserved"])
        /\ UNCHANGED <<evidence, leaves, batches, head>>
    BY <1>2 DEF reserve, InsertReservation
  <2>2. \A s \in DOMAIN reservations :
           s \in DOMAIN reservations' /\ reservations'[s] = reservations[s]
    BY <2>1 DEF Insert
  <2>3. \A s \in DOMAIN reservations : reservations[s].state \in RowState
    BY DEF IInv, TypeOK
  <2>4. \A st \in RowState : Rank(st) <= Rank(st)
    BY DEF Rank, RowState
  <2>5. head.seq \in Nat
    BY Shape
  <2>. QED  BY <2>1, <2>2, <2>3, <2>4, <2>5 DEF AppendOnlyStep, reservation_matches
<1>. QED  BY <1>1, <1>2

(* A receipt is added, and its reservation becomes finalized.             *)
LEMMA AppendAppendOnly ==
    ASSUME IInv, NEW seq, NEW r, append(seq, r) PROVE AppendOnlyStep
<1>1. /\ seq = head.seq + 1 /\ seq \notin DOMAIN evidence
      /\ evidence' = Insert(evidence, seq, r)
      /\ head' = [seq |-> seq, root |-> r.after]
      /\ reservations' = SetState({seq}, "finalized")
      /\ batches' = batches
  BY DEF append, append_accepts, assert_extends
<1>2. head.seq <= head'.seq /\ head.seq < head'.seq
  BY <1>1, Shape
<1>3. \A s \in DOMAIN evidence : s \in DOMAIN evidence' /\ evidence'[s] = evidence[s]
  BY <1>1 DEF Insert
<1>4. \A s \in DOMAIN reservations : Rank(reservations[s].state) <= Rank("finalized")
  BY DEF IInv, TypeOK, Rank, RowState
<1>5. "finalized" \in RowState
  BY DEF RowState
<1>6. \A s \in DOMAIN reservations :
           /\ s \in DOMAIN reservations'
           /\ reservation_matches(reservations[s], reservations'[s])
           /\ Rank(reservations[s].state) <= Rank(reservations'[s].state)
  BY <1>1, <1>4, <1>5, SetStateRank
<1>7. \A b \in DOMAIN batches : b \in DOMAIN batches' /\ batches'[b] = batches[b]
  BY <1>1
<1>. QED  BY <1>2, <1>3, <1>6, <1>7 DEF AppendOnlyStep

(* A receipt and its leaf are added, and the reservation becomes staged.   *)
LEMMA StageAppendOnly ==
    ASSUME IInv, NEW seq, NEW r, stage_batched(seq, r) PROVE AppendOnlyStep
<1>1. /\ reservations[seq].state = "reserved" /\ seq \notin DOMAIN evidence
      /\ evidence' = Insert(evidence, seq, r)
      /\ reservations' = SetState({seq}, "staged")
      /\ batches' = batches /\ head' = head
  BY DEF stage_batched, stage_accepts, assert_reserved
<1>2. head.seq \in Nat
  BY Shape
<1>3. \A s \in DOMAIN evidence : s \in DOMAIN evidence' /\ evidence'[s] = evidence[s]
  BY <1>1 DEF Insert
<1>4. /\ \A s \in {seq} : s \in DOMAIN reservations =>
               Rank(reservations[s].state) <= Rank("staged")
      /\ "staged" \in RowState
  BY <1>1 DEF Rank, RowState
<1>5. \A s \in DOMAIN reservations :
           /\ s \in DOMAIN reservations'
           /\ reservation_matches(reservations[s], reservations'[s])
           /\ Rank(reservations[s].state) <= Rank(reservations'[s].state)
  BY <1>1, <1>4, SetStateRank
<1>. QED  BY <1>1, <1>2, <1>3, <1>5 DEF AppendOnlyStep

(* A batch is added; the staged rows become flushed and finalized.         *)
LEMMA FlushAppendOnly ==
    ASSUME IInv, NEW digests, flush_batched(digests) PROVE AppendOnlyStep
<1>1. /\ head.seq \in Nat /\ staged_count \in Nat
      /\ StagedLeaves = (head.seq + 1)..(head.seq + staged_count)
      /\ StagedLeaves # {}
  BY Shape DEF flush_batched
<1>2. staged_count > 0
  BY <1>1
<1>3. staged_rows[staged_count] = head.seq + staged_count
  BY <1>1, <1>2, StagedRows
<1>4. /\ head'.seq = staged_rows[staged_count]
      /\ reservations' = SetState(InState("staged"), "finalized")
      /\ evidence' = evidence
  BY DEF flush_batched
<1>5. next_batch_id \notin DOMAIN batches
  <2>1. PICK n \in Nat : DOMAIN batches = 1..n
    BY FS_CardinalityType DEF IInv, BatchRanges
  <2>2. next_batch_id = n + 1
    BY <2>1, NextKeyOfRun DEF next_batch_id
  <2>. QED  BY <2>1, <2>2
<1>6. \A b \in DOMAIN batches : b \in DOMAIN batches' /\ batches'[b] = batches[b]
  BY <1>5 DEF flush_batched, Insert
<1>7. \A s \in DOMAIN reservations : Rank(reservations[s].state) <= Rank("finalized")
  BY DEF IInv, TypeOK, Rank, RowState
<1>8. "finalized" \in RowState
  BY DEF RowState
<1>9. \A s \in DOMAIN reservations :
           /\ s \in DOMAIN reservations'
           /\ reservation_matches(reservations[s], reservations'[s])
           /\ Rank(reservations[s].state) <= Rank(reservations'[s].state)
  BY <1>4, <1>7, <1>8, SetStateRank
<1>. QED  BY <1>1, <1>2, <1>3, <1>4, <1>6, <1>9 DEF AppendOnlyStep

(* Receipts and batches are never rewritten, the head never moves back and *)
(* no reservation is reopened, in any order of calls.                      *)
THEOREM HistoryKept == Spec => AppendOnly
<1>1. IInv /\ [Next]_journal => [AppendOnlyStep]_journal
  <2>. SUFFICES ASSUME IInv, Next PROVE AppendOnlyStep
    OBVIOUS
  <2>. QED  BY ReserveAppendOnly, AppendAppendOnly, StageAppendOnly, FlushAppendOnly
            DEF Next, ReserveCall, AppendCall, StageCall, FlushCall
<1>. QED  BY <1>1, Invariance, PTL DEF Spec, AppendOnly
=============================================================================
