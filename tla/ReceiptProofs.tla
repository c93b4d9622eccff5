--------------------------- MODULE ReceiptProofs ----------------------------
(***************************************************************************)
(* What the proof packages decide and record, for inputs of any size.      *)
(* Two decisions run as a loop over a work list: which source text is read *)
(* for which declaration, and whether accepted receipts compose; their     *)
(* proofs say what the part of the list already taken has established.     *)
(* Three are made one request at a time: the audit of accepted receipts,   *)
(* the admission gates and the action trace; their proofs keep, beside     *)
(* every record, what it was decided of.  The impact of a change, the way  *)
(* from a closure to a bundle and the Merkle tree of a batch are again     *)
(* loops.  Where a proof is by induction the statement is turned into a    *)
(* set of naturals, which holds them all if it has no least exception.     *)
(***************************************************************************)
EXTENDS SourceRanges, ReceiptAudit, Admission, ActionTrace, ChangeImpact, ExactClosure,
        BatchedMerkle, NaturalsInduction, WellFoundedInduction, SequenceTheorems, FiniteSetTheorems, TLAPS

(* A nonempty set of naturals has a least member.                          *)
LEMMA LeastNat ==
    ASSUME NEW S, S \subseteq Nat, S # {}
    PROVE  \E x \in S : \A y \in S : x <= y
<1> DEFINE Less == {p \in Nat \X Nat : p[1] < p[2]}
<1>1. IsWellFoundedOn(Less, Nat)
      BY NatLessThanWellFounded DEF OpToRel
<1>2. PICK x \in S : \A y \in S : ~ (<<y, x>> \in Less)
  <2> HIDE DEF Less
  <2> QED
      BY <1>1, WFMin
<1>3. ASSUME NEW y \in S PROVE x <= y
  <2>1. x \in Nat /\ y \in Nat
        OBVIOUS
  <2>2. ~ (y < x)
        BY <1>2, <2>1 DEF Less
  <2> QED
      BY <2>1, <2>2
<1> QED
    BY <1>3

(* Induction over the naturals, for a set.                                 *)
LEMMA EveryNat ==
    ASSUME NEW S, 0 \in S, \A k \in Nat : k \in S => k + 1 \in S
    PROVE  \A k \in Nat : k \in S
<1> DEFINE T == {k \in Nat : k \notin S}
<1>1. ASSUME T # {} PROVE FALSE
  <2>1. PICK x \in T : \A y \in T : x <= y
        BY <1>1, LeastNat
  <2>2. x \in Nat /\ x # 0
        BY <2>1
  <2>3. x - 1 \in Nat /\ (x - 1) + 1 = x /\ ~(x <= x - 1)
        BY <2>2
  <2>4. x - 1 \in S
        BY <2>1, <2>3
  <2>5. (x - 1) + 1 \in S
        BY <2>3, <2>4
  <2> QED
      BY <2>1, <2>3, <2>5
<1> QED
    BY <1>1

-----------------------------------------------------------------------------
(* Source ranges. *)

RangeType == [start : Nat, end : Nat]

(* Among ranges that wait one comes before all others.                     *)
LEMMA FirstRange ==
    ASSUME NEW S, S \subseteq SourceRange, S # {}
    PROVE  \E r \in S : \A q \in S : q = r \/ RangeBefore(r, q)
<1> USE RangesAssumption
<1>1. \A r \in S : r \in RangeType /\ r.end <= MaxPosition
      BY DEF SourceRange, RangeType
<1>2. PICK s \in {r.start : r \in S} : \A t \in {r.start : r \in S} : s <= t
  <2>1. {r.start : r \in S} \subseteq Nat /\ {r.start : r \in S} # {}
        BY <1>1 DEF RangeType
  <2> QED
      BY <2>1, LeastNat
<1> DEFINE T == {MaxPosition - r.end : r \in {q \in S : q.start = s}}
<1>3. PICK m \in T : \A n \in T : m <= n
  <2>1. T \subseteq Nat
        BY <1>1 DEF RangeType
  <2>2. T # {}
        BY <1>2
  <2> QED
      BY <2>1, <2>2, LeastNat
<1>4. PICK r \in S : r.start = s /\ m = MaxPosition - r.end
      BY <1>3
<1>5. ASSUME NEW q \in S PROVE q = r \/ RangeBefore(r, q)
  <2>1. q \in RangeType /\ r \in RangeType /\ r.start <= q.start
        BY <1>1, <1>2, <1>4
  <2>2. CASE r.start < q.start
        BY <2>2 DEF RangeBefore
  <2>3. CASE r.start = q.start
    <3>1. MaxPosition - q.end \in T
          BY <1>4, <2>3
    <3>2. q.end <= r.end
      <4>1. m <= MaxPosition - q.end /\ m = MaxPosition - r.end
            BY <3>1, <1>3, <1>4
      <4>2. q.end \in Nat /\ r.end \in Nat
            BY <2>1 DEF RangeType
      <4> HIDE DEF T
      <4> QED
          BY <4>1, <4>2
    <3> QED
        BY <2>1, <2>3, <3>2 DEF RangeBefore, RangeType
  <2> QED
      BY <2>1, <2>2, <2>3 DEF RangeType
<1> QED
    BY <1>5

(* Parts that are kept: of ranges of declarations, each with the names     *)
(* that it contains, its own among them.                                   *)
Part == [range : SourceRange, names : SUBSET Ranged]

PartsKept(parts) ==
    /\ parts \in Seq(Part)
    /\ \A i \in 1..Len(parts) :
           /\ NamesAt(parts[i].range) # {} /\ NamesAt(parts[i].range) \subseteq parts[i].names
           /\ \A d \in parts[i].names : range_contains(parts[i].range, ranged[d])
    /\ \A i, j \in 1..Len(parts) :
           i < j => parts[i].range.end <= parts[j].range.start /\ parts[i].names \cap parts[j].names = {}

(* Those taken are in one part, those that wait in none, behind all parts. *)
PartsTaken(parts, rest) ==
    \A d \in Ranged :
        IF ranged[d] \in rest
        THEN \A i \in 1..Len(parts) : d \notin parts[i].names /\ RangeBefore(parts[i].range, ranged[d])
        ELSE \E i \in 1..Len(parts) : d \in parts[i].names

Crossing == \E d, e \in Ranged : ~Disjoint(ranged[d], ranged[e]) /\ ~Nested(ranged[d], ranged[e])

AliasesKept ==
    /\ waiting = {}
    /\ \A d \in Ranged : \E i \in 1..Len(coalesced) :
           /\ {d, aliases[d]} \subseteq coalesced[i].names /\ ranged[aliases[d]] = coalesced[i].range
           /\ \A e \in coalesced[i].names : aliases[e] = aliases[d]

RangesInv ==
    /\ ranged \in [Ranged -> SourceRange] /\ waiting \subseteq {ranged[d] : d \in Ranged}
    /\ coalescing \in {"ranges", "sliced", "partially-overlapping-source-ranges"}
    /\ coalescing \in {"ranges", "sliced"} => PartsKept(coalesced) /\ PartsTaken(coalesced, waiting)
    /\ coalescing = "sliced" => AliasesKept
    /\ coalescing = "partially-overlapping-source-ranges" => Crossing

(* A part has a range and names.                                           *)
LEMMA PartIs ==
    ASSUME NEW parts \in Seq(Part), NEW i \in 1..Len(parts)
    PROVE  /\ parts[i] \in Part /\ parts[i].range \in SourceRange /\ parts[i].names \subseteq Ranged
           /\ parts[i].range.start \in Nat /\ parts[i].range.end \in Nat
<1>1. parts[i] \in Part
      OBVIOUS
<1>2. parts[i].range \in SourceRange /\ parts[i].names \subseteq Ranged
      BY <1>1 DEF Part
<1> QED
    BY <1>1, <1>2, RangesAssumption DEF SourceRange

(* Every range waits at first.                                             *)
LEMMA RangesInitInv == RangesInit => RangesInv
BY DEF RangesInit, RangesInv, PartsKept, PartsTaken

(* The range that is taken, and what comes after it.                       *)
LEMMA TheNextRange ==
    ASSUME RangesInv, waiting # {}
    PROVE  /\ NextRange \in waiting /\ NextRange \in SourceRange /\ NamesAt(NextRange) # {}
           /\ \A q \in waiting : q = NextRange \/ RangeBefore(NextRange, q)
<1>1. waiting \subseteq SourceRange
      BY DEF RangesInv
<1>2. \E r \in waiting : \A q \in waiting : q = r \/ RangeBefore(r, q)
      BY <1>1, FirstRange
<1>3. NextRange \in waiting /\ \A q \in waiting : q = NextRange \/ RangeBefore(NextRange, q)
      BY <1>2 DEF NextRange
<1>4. PICK d \in Ranged : ranged[d] = NextRange
      BY <1>3 DEF RangesInv
<1> QED
    BY <1>1, <1>3, <1>4 DEF NamesAt

(* A range that is contained in one taken goes with the first such one.    *)
LEMMA ContainedInv ==
    ASSUME RangesInv, coalescing = "ranges", waiting # {},
           NEW i \in 1..Len(coalesced), range_contains(coalesced[i].range, NextRange)
    PROVE  LET parts == [coalesced EXCEPT ![i].names = @ \cup NamesAt(NextRange)]
           IN  PartsKept(parts) /\ PartsTaken(parts, waiting \ {NextRange})
<1> DEFINE range == NextRange
           parts == [coalesced EXCEPT ![i].names = @ \cup NamesAt(range)]
<1>1. PartsKept(coalesced) /\ PartsTaken(coalesced, waiting) /\ ranged \in [Ranged -> SourceRange]
      BY DEF RangesInv
<1>2. range \in waiting /\ \A q \in waiting : q = range \/ RangeBefore(range, q)
      BY TheNextRange
<1>3. NamesAt(range) \subseteq Ranged /\ \A d \in NamesAt(range) : ranged[d] = range
      BY DEF NamesAt
<1> HIDE DEF range
<1>4. /\ parts \in Seq(Part) /\ Len(parts) = Len(coalesced)
      /\ \A j \in 1..Len(coalesced) :
             /\ parts[j].range = coalesced[j].range
             /\ parts[j].names = IF j = i THEN coalesced[j].names \cup NamesAt(range) ELSE coalesced[j].names
  <2>1. coalesced \in Seq(Part) /\ coalesced[i] \in Part /\ coalesced[i].names \subseteq Ranged
        BY <1>1, PartIs DEF PartsKept
  <2>2. [coalesced[i] EXCEPT !.names = @ \cup NamesAt(range)] \in Part
        BY <2>1, <1>3 DEF Part
  <2>3. parts = [coalesced EXCEPT ![i] = [coalesced[i] EXCEPT !.names = @ \cup NamesAt(range)]]
        BY <2>1
  <2>4. parts \in Seq(Part) /\ Len(parts) = Len(coalesced)
        BY <2>1, <2>2, <2>3
  <2>5. /\ \A j \in 1..Len(coalesced) : j # i => parts[j] = coalesced[j]
        /\ parts[i].range = coalesced[i].range /\ parts[i].names = coalesced[i].names \cup NamesAt(range)
        BY <2>1, <2>2, <2>3 DEF Part
  <2> HIDE DEF parts
  <2> QED
      BY <2>4, <2>5
<1> HIDE DEF parts
<1>5. \A d \in NamesAt(range) : \A j \in 1..Len(coalesced) : d \notin coalesced[j].names
      BY <1>1, <1>2, <1>3 DEF PartsTaken
<1>6. PartsKept(parts)
  <2>1. ASSUME NEW j \in 1..Len(parts)
        PROVE  /\ NamesAt(parts[j].range) # {} /\ NamesAt(parts[j].range) \subseteq parts[j].names
               /\ \A d \in parts[j].names : range_contains(parts[j].range, ranged[d])
    <3>1. range_contains(coalesced[i].range, range)
          BY DEF range
    <3>2. j \in 1..Len(coalesced) /\ parts[j].range = coalesced[j].range
          BY <1>4
    <3>3. /\ NamesAt(coalesced[j].range) # {} /\ NamesAt(coalesced[j].range) \subseteq coalesced[j].names
          /\ \A d \in coalesced[j].names : range_contains(coalesced[j].range, ranged[d])
          BY <1>1, <3>2 DEF PartsKept
    <3>4. coalesced[j].names \subseteq parts[j].names
          BY <1>4, <3>2
    <3>5. ASSUME NEW d \in parts[j].names PROVE range_contains(parts[j].range, ranged[d])
      <4>1. CASE d \in coalesced[j].names
            BY <4>1, <3>2, <3>3
      <4>2. CASE j = i /\ d \in NamesAt(range)
            BY <4>2, <3>1, <3>2, <1>3
      <4> QED
          BY <4>1, <4>2, <1>4, <3>2
    <3> QED
        BY <3>2, <3>3, <3>4, <3>5
  <2>2. ASSUME NEW j \in 1..Len(parts), NEW k \in 1..Len(parts), j < k
        PROVE  parts[j].range.end <= parts[k].range.start /\ parts[j].names \cap parts[k].names = {}
    <3>1. /\ j \in 1..Len(coalesced) /\ k \in 1..Len(coalesced)
          /\ parts[j].range = coalesced[j].range /\ parts[k].range = coalesced[k].range
          BY <1>4
    <3>2. coalesced[j].range.end <= coalesced[k].range.start /\ coalesced[j].names \cap coalesced[k].names = {}
          BY <1>1, <2>2, <3>1 DEF PartsKept
    <3>3. j # k
          BY <2>2, <3>1
    <3>4. parts[j].names \cap parts[k].names = {}
          BY <1>4, <1>5, <3>1, <3>2, <3>3
    <3> QED
        BY <3>1, <3>2, <3>4
  <2> QED
      BY <1>4, <2>1, <2>2 DEF PartsKept
<1>7. PartsTaken(parts, waiting \ {range})
  <2> SUFFICES ASSUME NEW d \in Ranged
               PROVE  IF ranged[d] \in waiting \ {range}
                      THEN \A j \in 1..Len(parts) : d \notin parts[j].names /\ RangeBefore(parts[j].range, ranged[d])
                      ELSE \E j \in 1..Len(parts) : d \in parts[j].names
      BY DEF PartsTaken
  <2>1. CASE ranged[d] \in waiting \ {range}
        BY <2>1, <1>1, <1>3, <1>4 DEF PartsTaken
  <2>2. CASE ranged[d] = range
        BY <2>2, <1>4 DEF NamesAt
  <2>3. CASE ranged[d] \notin waiting
        BY <2>3, <1>1, <1>4 DEF PartsTaken
  <2> QED
      BY <2>1, <2>2, <2>3
<1> QED
    BY <1>6, <1>7 DEF parts, range

(* A range behind all those taken is a part of its own.                    *)
LEMMA BehindInv ==
    ASSUME RangesInv, coalescing = "ranges", waiting # {},
           \A i \in 1..Len(coalesced) : ~(NextRange.start < coalesced[i].range.end)
    PROVE  LET parts == Append(coalesced, [range |-> NextRange, names |-> NamesAt(NextRange)])
           IN  PartsKept(parts) /\ PartsTaken(parts, waiting \ {NextRange})
<1> DEFINE range == NextRange
           parts == Append(coalesced, [range |-> range, names |-> NamesAt(range)])
           last == Len(coalesced) + 1
<1>1. PartsKept(coalesced) /\ PartsTaken(coalesced, waiting) /\ ranged \in [Ranged -> SourceRange]
      BY DEF RangesInv
<1>2. /\ range \in waiting /\ range \in SourceRange /\ NamesAt(range) # {}
      /\ \A q \in waiting : q = range \/ RangeBefore(range, q)
      BY TheNextRange
<1>3. NamesAt(range) \subseteq Ranged /\ \A d \in NamesAt(range) : ranged[d] = range
      BY DEF NamesAt
<1>4. \A i \in 1..Len(coalesced) : coalesced[i].range.end <= range.start
  <2>1. range.start \in Nat
        BY <1>2, RangesAssumption DEF SourceRange
  <2>2. \A i \in 1..Len(coalesced) : coalesced[i].range.end \in Nat
        BY <1>1, PartIs DEF PartsKept
  <2> QED
      BY <2>1, <2>2
<1> HIDE DEF range
<1>5. [range |-> range, names |-> NamesAt(range)] \in Part
      BY <1>2, <1>3 DEF Part
<1>6. /\ parts \in Seq(Part) /\ Len(parts) = last
      /\ \A j \in 1..Len(coalesced) : parts[j] = coalesced[j]
      /\ parts[last].range = range /\ parts[last].names = NamesAt(range)
      BY <1>1, <1>5 DEF PartsKept
<1>7. last \in 1..Len(parts) /\ \A j \in 1..Len(parts) : j = last \/ j \in 1..Len(coalesced)
      BY <1>1, <1>6 DEF PartsKept
<1> HIDE DEF parts
<1>8. \A d \in NamesAt(range) : \A j \in 1..Len(coalesced) : d \notin coalesced[j].names
      BY <1>1, <1>2, <1>3 DEF PartsTaken
<1>9. PartsKept(parts)
  <2>1. ASSUME NEW j \in 1..Len(parts)
        PROVE  /\ NamesAt(parts[j].range) # {} /\ NamesAt(parts[j].range) \subseteq parts[j].names
               /\ \A d \in parts[j].names : range_contains(parts[j].range, ranged[d])
    <3>1. CASE j \in 1..Len(coalesced)
          BY <3>1, <1>1, <1>6 DEF PartsKept
    <3>2. CASE j = last
      <4>1. range_contains(range, range)
            BY <1>2, RangesAssumption DEF range_contains, SourceRange
      <4> QED
          BY <3>2, <4>1, <1>2, <1>3, <1>6
    <3> QED
        BY <3>1, <3>2, <1>7
  <2>2. ASSUME NEW j \in 1..Len(parts), NEW k \in 1..Len(parts), j < k
        PROVE  parts[j].range.end <= parts[k].range.start /\ parts[j].names \cap parts[k].names = {}
    <3>1. j \in 1..Len(coalesced) /\ Len(coalesced) \in Nat
          BY <2>2, <1>1, <1>6 DEF PartsKept
    <3>2. CASE k \in 1..Len(coalesced)
          BY <3>1, <3>2, <2>2, <1>1, <1>6 DEF PartsKept
    <3>3. CASE k = last
          BY <3>1, <3>3, <1>4, <1>6, <1>8
    <3> QED
        BY <3>2, <3>3, <1>7
  <2> QED
      BY <1>6, <2>1, <2>2 DEF PartsKept
<1>10. PartsTaken(parts, waiting \ {range})
  <2> SUFFICES ASSUME NEW d \in Ranged
               PROVE  IF ranged[d] \in waiting \ {range}
                      THEN \A j \in 1..Len(parts) : d \notin parts[j].names /\ RangeBefore(parts[j].range, ranged[d])
                      ELSE \E j \in 1..Len(parts) : d \in parts[j].names
      BY DEF PartsTaken
  <2>1. CASE ranged[d] \in waiting \ {range}
    <3>1. ASSUME NEW j \in 1..Len(parts)
          PROVE  d \notin parts[j].names /\ RangeBefore(parts[j].range, ranged[d])
      <4>1. CASE j \in 1..Len(coalesced)
            BY <4>1, <2>1, <1>1, <1>6 DEF PartsTaken
      <4>2. CASE j = last
            BY <4>2, <2>1, <1>2, <1>3, <1>6
      <4> QED
          BY <4>1, <4>2, <1>7
    <3> QED
        BY <2>1, <3>1
  <2>2. CASE ranged[d] = range
        BY <2>2, <1>6, <1>7 DEF NamesAt
  <2>3. CASE ranged[d] \notin waiting
    <3>1. PICK j \in 1..Len(coalesced) : d \in coalesced[j].names
          BY <2>3, <1>1 DEF PartsTaken
    <3>2. j \in 1..Len(parts)
          BY <1>6, <3>1, <1>1 DEF PartsKept
    <3> QED
        BY <2>3, <3>1, <3>2, <1>6
  <2> QED
      BY <2>1, <2>2, <2>3
<1> QED
    BY <1>9, <1>10 DEF parts, range

(* A range that is refused crosses one that was taken.                     *)
LEMMA RefusedCrosses ==
    ASSUME RangesInv, coalescing = "ranges", waiting # {},
           NEW i \in 1..Len(coalesced), ~range_contains(coalesced[i].range, NextRange),
           NextRange.start < coalesced[i].range.end
    PROVE  Crossing
<1>1. PartsKept(coalesced) /\ PartsTaken(coalesced, waiting) /\ ranged \in [Ranged -> SourceRange]
      BY DEF RangesInv
<1>2. PICK d \in Ranged : ranged[d] = coalesced[i].range
      BY <1>1 DEF PartsKept, NamesAt
<1>3. NextRange \in waiting
      BY TheNextRange
<1>4. PICK e \in Ranged : ranged[e] = NextRange
      BY <1>3 DEF RangesInv
<1>5. RangeBefore(ranged[d], ranged[e])
      BY <1>1, <1>2, <1>3, <1>4 DEF PartsTaken
<1>6. /\ ranged[d].start \in Nat /\ ranged[d].end \in Nat /\ ranged[d].start <= ranged[d].end
      /\ ranged[e].start \in Nat /\ ranged[e].end \in Nat /\ ranged[e].start <= ranged[e].end
      BY <1>1, RangesAssumption DEF SourceRange
<1>7. ~Disjoint(ranged[d], ranged[e]) /\ ~Nested(ranged[d], ranged[e])
      BY <1>2, <1>4, <1>5, <1>6 DEF Disjoint, Nested, range_contains, RangeBefore
<1> QED
    BY <1>7 DEF Crossing

(* Every range that is taken finds its place or crosses another.           *)
LEMMA CoalesceInv == ASSUME RangesInv, coalesce_range PROVE RangesInv'
<1> DEFINE containing == {i \in DOMAIN coalesced : range_contains(coalesced[i].range, NextRange)}
<1>1. /\ coalescing = "ranges" /\ waiting # {} /\ waiting' = waiting \ {NextRange}
      /\ ranged' = ranged /\ PartsKept(coalesced) /\ DOMAIN coalesced = 1..Len(coalesced)
      /\ Len(coalesced) \in Nat
      BY DEF coalesce_range, RangesInv, PartsKept
<1>2. /\ ranged' \in [Ranged -> SourceRange] /\ waiting' \subseteq {ranged'[d] : d \in Ranged}
      BY <1>1 DEF RangesInv
<1>3. CASE containing # {}
  <2>1. containing \subseteq Nat
        BY <1>1
  <2>2. PICK i \in containing : \A j \in containing : i <= j
        BY <2>1, <1>3, LeastNat
  <2> DEFINE i0 == CHOOSE k \in containing : \A j \in containing : k <= j
  <2>3. i0 \in containing
        BY <2>2
  <2>4. coalesced' = [coalesced EXCEPT ![i0].names = @ \cup NamesAt(NextRange)] /\ coalescing' = coalescing
        BY <1>3 DEF coalesce_range
  <2>5. PartsKept(coalesced') /\ PartsTaken(coalesced', waiting')
    <3>1. i0 \in 1..Len(coalesced) /\ range_contains(coalesced[i0].range, NextRange)
          BY <2>3, <1>1
    <3> HIDE DEF i0
    <3> QED
        BY <3>1, <2>4, <1>1, ContainedInv
  <2>6. (PartsKept(coalesced) /\ PartsTaken(coalesced, waiting))'
        BY <2>5, <1>1 DEF PartsKept, PartsTaken, NamesAt
  <2> QED
      BY <1>1, <1>2, <2>4, <2>6 DEF RangesInv
<1>4. CASE containing = {} /\ \E i \in DOMAIN coalesced : NextRange.start < coalesced[i].range.end
  <2>1. coalescing' = "partially-overlapping-source-ranges"
        BY <1>4 DEF coalesce_range
  <2>2. Crossing
        BY <1>1, <1>4, RefusedCrosses
  <2>3. Crossing'
        BY <2>2, <1>1 DEF Crossing
  <2> QED
      BY <1>2, <2>1, <2>3 DEF RangesInv
<1>5. CASE containing = {} /\ ~\E i \in DOMAIN coalesced : NextRange.start < coalesced[i].range.end
  <2>1. /\ coalesced' = Append(coalesced, [range |-> NextRange, names |-> NamesAt(NextRange)])
        /\ coalescing' = coalescing
        BY <1>5 DEF coalesce_range
  <2>2. PartsKept(coalesced') /\ PartsTaken(coalesced', waiting')
        BY <1>1, <1>5, <2>1, BehindInv
  <2>3. (PartsKept(coalesced) /\ PartsTaken(coalesced, waiting))'
        BY <2>2, <1>1 DEF PartsKept, PartsTaken, NamesAt
  <2> QED
      BY <1>1, <1>2, <2>1, <2>3 DEF RangesInv
<1> QED
    BY <1>3, <1>4, <1>5

(* A name is in one part only.                                             *)
LEMMA OnePart ==
    ASSUME PartsKept(coalesced), NEW d, NEW i \in 1..Len(coalesced), NEW j \in 1..Len(coalesced),
           d \in coalesced[i].names, d \in coalesced[j].names
    PROVE  i = j
<1>1. i \in Nat /\ j \in Nat /\ (i < j \/ j < i \/ i = j)
      BY DEF PartsKept
<1> QED
    BY <1>1 DEF PartsKept

(* The anchor of a part has exactly its range.                             *)
LEMMA AliasesInv == ASSUME RangesInv, source_declaration_aliases PROVE RangesInv'
<1> DEFINE anchor(p) == CHOOSE d \in NamesAt(p.range) : \A e \in NamesAt(p.range) : d <= e
           part(d) == CHOOSE p \in ToSet(coalesced) : d \in p.names
<1>1. /\ waiting = {} /\ coalescing' = "sliced" /\ UNCHANGED <<ranged, waiting, coalesced>>
      /\ PartsKept(coalesced) /\ PartsTaken(coalesced, waiting)
      BY DEF RangesInv, source_declaration_aliases
<1>2. aliases' = [d \in Ranged |-> anchor(part(d))]
      BY DEF source_declaration_aliases
<1>3. ToSet(coalesced) = {coalesced[i] : i \in 1..Len(coalesced)}
      BY <1>1 DEF PartsKept, ToSet
<1>4. ASSUME NEW d \in Ranged
      PROVE  \E i \in 1..Len(coalesced) : d \in coalesced[i].names /\ part(d) = coalesced[i]
  <2>1. PICK i \in 1..Len(coalesced) : d \in coalesced[i].names
        BY <1>1 DEF PartsTaken
  <2>2. part(d) \in ToSet(coalesced) /\ d \in part(d).names
        BY <2>1, <1>3
  <2>3. PICK j \in 1..Len(coalesced) : part(d) = coalesced[j]
        BY <2>2, <1>3
  <2> QED
      BY <2>2, <2>3
<1>5. ASSUME NEW i \in 1..Len(coalesced)
      PROVE  anchor(coalesced[i]) \in NamesAt(coalesced[i].range)
  <2>1. NamesAt(coalesced[i].range) \subseteq Nat /\ NamesAt(coalesced[i].range) # {}
        BY <1>1, RangesAssumption DEF PartsKept, NamesAt, Ranged
  <2>2. \E d \in NamesAt(coalesced[i].range) : \A e \in NamesAt(coalesced[i].range) : d <= e
        BY <2>1, LeastNat
  <2> QED
      BY <2>2
<1> HIDE DEF anchor, part
<1>6. ASSUME NEW d \in Ranged
      PROVE  \E i \in 1..Len(coalesced) :
                 /\ {d, aliases'[d]} \subseteq coalesced[i].names /\ ranged[aliases'[d]] = coalesced[i].range
                 /\ \A e \in coalesced[i].names : aliases'[e] = aliases'[d]
  <2>1. PICK i \in 1..Len(coalesced) : d \in coalesced[i].names /\ part(d) = coalesced[i]
        BY <1>4
  <2>2. aliases'[d] = anchor(coalesced[i])
        BY <2>1, <1>2
  <2>3. aliases'[d] \in NamesAt(coalesced[i].range)
        BY <2>2, <1>5
  <2>4. ASSUME NEW e \in coalesced[i].names PROVE aliases'[e] = anchor(coalesced[i])
    <3>1. e \in Ranged
          BY <1>1, PartIs DEF PartsKept
    <3>2. PICK j \in 1..Len(coalesced) : e \in coalesced[j].names /\ part(e) = coalesced[j]
          BY <1>4, <3>1
    <3>3. i = j
          BY <3>2, <1>1, OnePart
    <3> QED
        BY <3>1, <3>2, <3>3, <1>2
  <2> QED
      BY <2>1, <2>2, <2>3, <2>4, <1>1 DEF PartsKept, NamesAt
<1>7. (PartsKept(coalesced) /\ PartsTaken(coalesced, waiting))'
  <2>1. ranged' = ranged /\ waiting' = waiting /\ coalesced' = coalesced
        BY <1>1
  <2> QED
      BY <1>1, <2>1 DEF PartsKept, PartsTaken, NamesAt
<1>8. AliasesKept'
      BY <1>1, <1>6 DEF AliasesKept
<1> QED
    BY <1>1, <1>7, <1>8 DEF RangesInv

(* Every step.                                                             *)
LEMMA RangesStepInv == RangesInv /\ [RangesNext]_slicing => RangesInv'
<1> SUFFICES ASSUME RangesInv, [RangesNext]_slicing PROVE RangesInv'
    OBVIOUS
<1>1. CASE UNCHANGED slicing
      BY <1>1 DEF slicing, RangesInv, PartsKept, PartsTaken, AliasesKept, Crossing, NamesAt
<1> QED
    BY <1>1, CoalesceInv, AliasesInv DEF RangesNext

(* For any declarations and any ranges: what is sliced covers each of them *)
(* once, in order, and with its anchor; nothing is refused unless two      *)
(* ranges cross.                                                           *)
THEOREM RangesCovered == RangesSpec => []RangesCover
<1>1. ASSUME RangesInv PROVE RangesCover
  <2> SUFFICES ASSUME coalescing = "sliced"
               PROVE  /\ \A i, j \in DOMAIN coalesced :
                             i < j => coalesced[i].range.end <= coalesced[j].range.start
                      /\ \A d \in Ranged :
                             /\ Cardinality({i \in DOMAIN coalesced : d \in coalesced[i].names}) = 1
                             /\ range_contains(ranged[aliases[d]], ranged[d])
                             /\ aliases[aliases[d]] = aliases[d]
      BY <1>1 DEF RangesInv, RangesCover, Crossing
  <2>1. PartsKept(coalesced) /\ AliasesKept /\ DOMAIN coalesced = 1..Len(coalesced)
        BY <1>1 DEF RangesInv, PartsKept
  <2>2. ASSUME NEW d \in Ranged
        PROVE  /\ Cardinality({i \in DOMAIN coalesced : d \in coalesced[i].names}) = 1
               /\ range_contains(ranged[aliases[d]], ranged[d])
               /\ aliases[aliases[d]] = aliases[d]
    <3>1. PICK i \in 1..Len(coalesced) :
              /\ {d, aliases[d]} \subseteq coalesced[i].names /\ ranged[aliases[d]] = coalesced[i].range
              /\ \A e \in coalesced[i].names : aliases[e] = aliases[d]
          BY <2>1 DEF AliasesKept
    <3>2. {k \in DOMAIN coalesced : d \in coalesced[k].names} = {i}
          BY <2>1, <3>1, OnePart
    <3> QED
        BY <2>1, <3>1, <3>2, FS_Singleton DEF PartsKept
  <2> QED
      BY <2>1, <2>2 DEF PartsKept
<1> QED
    BY RangesInitInv, RangesStepInv, <1>1, PTL DEF RangesSpec

-----------------------------------------------------------------------------
(* Receipt graphs. *)

(* A graph as the constructors leave it: names are numbers in their sorted *)
(* order, and the edges are finitely many.                                 *)
GraphType(g) ==
    /\ g.nodes \in Seq(Nat) /\ IsFiniteSet(g.edges)
    /\ g.edges \subseteq [supplier : Nat, consumer : Nat, assumption : Nat]

(* A graph has finitely many nodes.                                        *)
LEMMA FiniteIds ==
    ASSUME NEW g, GraphType(g)
    PROVE  IsFiniteSet(NodeIds(g)) /\ NodeIds(g) \subseteq Nat /\ Cardinality(NodeIds(g)) \in Nat
<1>1. g.nodes \in Seq(Nat)
      BY DEF GraphType
<1>2. g.nodes \in Surjection(1..Len(g.nodes), NodeIds(g))
      BY <1>1 DEF NodeIds, ToSet, Surjection
<1>3. IsFiniteSet(1..Len(g.nodes))
      BY <1>1, FS_Interval
<1>4. IsFiniteSet(NodeIds(g))
      BY <1>2, <1>3, FS_Surjection
<1>5. NodeIds(g) \subseteq Nat
      BY <1>1 DEF NodeIds, ToSet
<1> QED
    BY <1>4, <1>5, FS_CardinalityType

(* Of edges that remain one comes before all others.                       *)
LEMMA FirstEdge ==
    ASSUME NEW S, S \subseteq [supplier : Nat, consumer : Nat, assumption : Nat], S # {}
    PROVE  \E e \in S : \A f \in S : f = e \/ Before(e, f)
<1>1. PICK s \in {e.supplier : e \in S} : \A t \in {e.supplier : e \in S} : s <= t
  <2>1. {e.supplier : e \in S} \subseteq Nat /\ {e.supplier : e \in S} # {}
        OBVIOUS
  <2> QED
      BY <2>1, LeastNat
<1> DEFINE S1 == {e \in S : e.supplier = s}
<1>2. PICK c \in {e.consumer : e \in S1} : \A t \in {e.consumer : e \in S1} : c <= t
  <2>1. {e.consumer : e \in S1} \subseteq Nat /\ {e.consumer : e \in S1} # {}
        BY <1>1
  <2> QED
      BY <2>1, LeastNat
<1> DEFINE S2 == {e \in S1 : e.consumer = c}
<1>3. PICK a \in {e.assumption : e \in S2} : \A t \in {e.assumption : e \in S2} : a <= t
  <2>1. {e.assumption : e \in S2} \subseteq Nat /\ {e.assumption : e \in S2} # {}
        BY <1>2
  <2> QED
      BY <2>1, LeastNat
<1>4. PICK e \in S : e.supplier = s /\ e.consumer = c /\ e.assumption = a
      BY <1>3
<1>5. ASSUME NEW f \in S PROVE f = e \/ Before(e, f)
  <2>1. s <= f.supplier
        BY <1>1
  <2>2. f.supplier = s => c <= f.consumer
        BY <1>2
  <2>3. f.supplier = s /\ f.consumer = c => a <= f.assumption
        BY <1>3
  <2>4. /\ f.supplier \in Nat /\ f.consumer \in Nat /\ f.assumption \in Nat
        /\ e.supplier \in Nat /\ e.consumer \in Nat /\ e.assumption \in Nat
        OBVIOUS
  <2>5. f.supplier = s /\ f.consumer = c /\ f.assumption = a => f = e
        BY <1>4
  <2> QED
      BY <1>4, <2>1, <2>2, <2>3, <2>4, <2>5 DEF Before
<1> QED
    BY <1>5

-----------------------------------------------------------------------------
(* What is known at each stage of verify. *)

Nodes == NodeIds(graph)
Checked == graph.edges \ remaining
Key(e) == <<e.consumer, e.assumption>>

NodesOk ==
    /\ Cardinality(Nodes) = Len(graph.nodes) /\ graph.terminal \in Nodes
    /\ \A n, m \in Nodes : graph.roots[n] \cap graph.roots[m] # {} => n = m

(* The edges checked so far, and what was noted of them.                   *)
EdgesOk ==
    /\ remaining \subseteq graph.edges
    /\ \A e \in Checked :
           /\ {e.supplier, e.consumer} \subseteq Nodes /\ Key(e) \in AssumptionsOf(graph)
           /\ graph.provides[e.supplier] = graph.assumes[e.consumer][e.assumption]
    /\ supplied = {Key(e) : e \in Checked}
    /\ \A e, f \in Checked : Key(e) = Key(f) => e = f
    /\ adjacency = [n \in Nodes |-> {e.consumer : e \in {f \in Checked : f.supplier = n}}]
    /\ indegree = [n \in Nodes |-> indegree[n]]

(* All edges are checked and every assumption is supplied.                 *)
AllSupplied == remaining = {} /\ supplied = AssumptionsOf(graph)

WaitsFor(n, out) == {m \in Nodes \ out : n \in adjacency[m]}
Indegrees(out) == \A n \in Nodes : indegree[n] = Cardinality(WaitsFor(n, out))

(* The nodes that may come next, and the first of them.                    *)
Nexts(out) == {n \in Nodes \ out : Suppliers(n) \subseteq out}
FirstOf(n, S) == n \in S /\ \A m \in S : n <= m

Out == ToSet(topological_order)
OrderOk ==
    /\ topological_order \in Seq(Nodes)
    /\ Cardinality(Out) = Len(topological_order)
    /\ \A i \in 1..Len(topological_order) :
           FirstOf(topological_order[i], Nexts({topological_order[k] : k \in 1..(i - 1)}))

(* What contributes to the terminal node as far as it was followed.        *)
SupplierClosed(part) == \A n \in part, m \in Nodes : Supplies(graph, m, n) => m \in part
ReachOk ==
    /\ graph.terminal \in reaches_terminal /\ reaches_terminal \subseteq Nodes
    /\ frontier \subseteq reaches_terminal
    /\ \A n \in reaches_terminal \ frontier : Suppliers(n) \subseteq reaches_terminal
    /\ \A part \in SUBSET Nodes : graph.terminal \in part /\ SupplierClosed(part) => reaches_terminal \subseteq part

Later == {"order", "reach", "verified"}

VerifyInv ==
    /\ GraphType(graph)
    /\ verdict \in {"nodes", "edges"} \cup Later => EdgesOk
    /\ verdict \in {"nodes", "edges"} => Indegrees({})
    /\ verdict \in {"nodes"} => topological_order = << >>
    /\ verdict \in {"edges"} => topological_order = << >>
    /\ verdict \in {"edges"} \cup Later => NodesOk
    /\ verdict \in Later => AllSupplied /\ OrderOk
    /\ verdict = "order" => Indegrees(Out) /\ ready = Nexts(Out)
    /\ verdict \in {"reach", "verified"} => Out = Nodes /\ ReachOk
    /\ verdict = "verified" => reaches_terminal = Nodes
    /\ verdict \notin Stages \cup {"verified"} => ~Composes(graph)

(* At first nothing is checked.                                            *)
LEMMA VerifyInitInv == ASSUME NEW g, GraphType(g), VerifyInit(g) PROVE VerifyInv
<1>1. graph = g /\ verdict = "nodes" /\ remaining = graph.edges /\ topological_order = << >>
      BY DEF VerifyInit
<1>2. Checked = {}
      BY <1>1 DEF Checked
<1>3. EdgesOk
      BY <1>1, <1>2 DEF EdgesOk, VerifyInit, Nodes
<1>4. \A n \in Nodes : WaitsFor(n, {}) = {}
      BY <1>1 DEF WaitsFor, VerifyInit, Nodes
<1>5. Indegrees({})
      BY <1>1, <1>4, FS_EmptySet DEF Indegrees, VerifyInit, Nodes
<1> QED
    BY <1>1, <1>3, <1>5 DEF VerifyInv, Later, Stages

(* What depends on the graph alone stays.                                  *)
LEMMA SameGraph ==
    ASSUME graph' = graph
    PROVE  /\ Nodes' = Nodes /\ (Composes(graph))' = Composes(graph) /\ GraphType(graph)' = GraphType(graph)
           /\ NodesOk' = NodesOk /\ AssumptionsOf(graph)' = AssumptionsOf(graph)
           /\ \A n : Suppliers(n)' = Suppliers(n)
           /\ \A out : Nexts(out)' = Nexts(out)
           /\ \A part : SupplierClosed(part)' = SupplierClosed(part)
<1>1. Nodes' = Nodes
      BY DEF Nodes
<1>2. \A n : Suppliers(n)' = Suppliers(n)
      BY <1>1 DEF Suppliers, Nodes
<1>3. (Composes(graph))' = Composes(graph) /\ GraphType(graph)' = GraphType(graph)
      /\ AssumptionsOf(graph)' = AssumptionsOf(graph)
      OBVIOUS
<1>4. NodesOk' = NodesOk
      BY <1>1 DEF NodesOk
<1>5. \A out : Nexts(out)' = Nexts(out)
      BY <1>1, <1>2 DEF Nexts
<1>6. \A part : SupplierClosed(part)' = SupplierClosed(part)
      BY <1>1 DEF SupplierClosed
<1> QED
    BY <1>1, <1>2, <1>3, <1>4, <1>5, <1>6

(* What was noted of the edges stays when nothing is noted.                *)
LEMMA SameEdges ==
    ASSUME graph' = graph, remaining' = remaining, supplied' = supplied, adjacency' = adjacency
    PROVE  /\ indegree' = indegree => EdgesOk' = EdgesOk
           /\ indegree' = indegree => \A out : Indegrees(out)' = Indegrees(out)
           /\ AllSupplied' = AllSupplied
           /\ \A n, out : WaitsFor(n, out)' = WaitsFor(n, out)
<1>1. Nodes' = Nodes /\ AssumptionsOf(graph)' = AssumptionsOf(graph)
      BY SameGraph
<1>2. Checked' = Checked
      BY DEF Checked
<1>3. \A n, out : WaitsFor(n, out)' = WaitsFor(n, out)
      BY <1>1 DEF WaitsFor
<1>4. AllSupplied' = AllSupplied
      BY <1>1 DEF AllSupplied
<1>5. ASSUME indegree' = indegree PROVE EdgesOk' = EdgesOk
      BY <1>1, <1>2, <1>5 DEF EdgesOk
<1>6. ASSUME indegree' = indegree PROVE \A out : Indegrees(out)' = Indegrees(out)
      BY <1>1, <1>3, <1>6 DEF Indegrees
<1> QED
    BY <1>3, <1>4, <1>5, <1>6

(* The checks of the nodes.                                                *)
LEMMA NodesInv == ASSUME VerifyInv, verify_nodes PROVE VerifyInv'
<1>1. /\ verdict = "nodes" /\ graph' = graph
      /\ UNCHANGED <<graph, caller, remaining, supplied, adjacency, indegree,
                     ready, topological_order, reaches_terminal, frontier>>
      /\ topological_order = << >>
      BY DEF verify_nodes, VerifyInv
<1>2. GraphType(graph)' /\ EdgesOk' /\ Indegrees({})' /\ topological_order' = << >>
  <2>1. EdgesOk /\ Indegrees({}) /\ GraphType(graph)
        BY <1>1 DEF VerifyInv
  <2> QED
      BY <1>1, <2>1, SameEdges, SameGraph
<1>3. CASE verdict' = "edges"
  <2>1. NodesOk
        BY <1>1, <1>3 DEF verify_nodes, Says, NodesOk, Nodes
  <2>2. NodesOk'
        BY <1>1, <2>1, SameGraph
  <2> QED
      BY <1>2, <1>3, <2>2 DEF VerifyInv, Later, Stages
<1>4. CASE verdict' # "edges"
  <2>1. ~Composes(graph)
    <3>1. GraphType(graph)
          BY DEF VerifyInv
    <3>2. graph.nodes = << >> => NodeIds(graph) = {}
          BY <3>1 DEF NodeIds, ToSet
    <3> QED
        BY <1>1, <1>4, <3>2 DEF verify_nodes, Says, Composes
  <2>2. ~Composes(graph)'
        BY <1>1, <2>1
  <2>3. verdict' \in {"empty-receipt-graph", "duplicate-node-id", "unresolved-terminal-node",
                      "root-declaration-owner-overlap"}
        BY <1>1, <1>4 DEF verify_nodes, Says
  <2> QED
      BY <1>2, <2>2, <2>3 DEF VerifyInv, Later, Stages
<1> QED
    BY <1>3, <1>4

(* verify takes the first of the edges that remain.                        *)
LEMMA TheNextEdge ==
    ASSUME GraphType(graph), remaining \subseteq graph.edges, remaining # {}
    PROVE  NextEdge \in remaining
<1>1. \E e \in remaining : \A f \in remaining : f = e \/ Before(e, f)
      BY FirstEdge DEF GraphType
<1> QED
    BY <1>1 DEF NextEdge

(* An edge in error keeps the graph from composing.                        *)
LEMMA EdgeRefused ==
    ASSUME GraphType(graph), EdgesOk, NEW e \in remaining,
           \/ ~({e.supplier, e.consumer} \subseteq Nodes)
           \/ Key(e) \notin AssumptionsOf(graph)
           \/ Key(e) \in supplied
           \/ graph.provides[e.supplier] # graph.assumes[e.consumer][e.assumption]
    PROVE  ~Composes(graph)
<1> SUFFICES ASSUME Composes(graph) PROVE FALSE
    OBVIOUS
<1>1. e \in graph.edges
      BY DEF EdgesOk
<1>2. /\ {e.supplier, e.consumer} \subseteq Nodes /\ e.assumption \in DOMAIN graph.assumes[e.consumer]
      /\ graph.provides[e.supplier] = graph.assumes[e.consumer][e.assumption]
      BY <1>1 DEF Composes, Nodes
<1>3. Key(e) \in AssumptionsOf(graph)
      BY <1>2 DEF AssumptionsOf, Key, Nodes
<1>4. PICK f \in Checked : Key(f) = Key(e)
      BY <1>2, <1>3 DEF EdgesOk
<1> DEFINE S == {d \in graph.edges : d.consumer = Key(e)[1] /\ d.assumption = Key(e)[2]}
<1>5. e \in S /\ f \in S /\ e # f
      BY <1>1, <1>4 DEF Checked, Key
<1>6. Cardinality(S) = 1
      BY <1>3 DEF Composes
<1>7. IsFiniteSet(S)
      BY FS_Subset DEF GraphType
<1> QED
    BY <1>5, <1>6, <1>7, FS_Singleton

(* The suppliers that a node waits for are finitely many.                  *)
LEMMA WaitingFinite ==
    ASSUME GraphType(graph), NEW n, NEW out
    PROVE  IsFiniteSet(WaitsFor(n, out)) /\ Cardinality(WaitsFor(n, out)) \in Nat
<1>1. IsFiniteSet(Nodes)
      BY FiniteIds DEF Nodes
<1>2. WaitsFor(n, out) \in SUBSET Nodes
      BY DEF WaitsFor
<1>3. IsFiniteSet(WaitsFor(n, out))
      BY <1>1, <1>2, FS_Subset
<1> QED
    BY <1>3, FS_CardinalityType

(* The check of one edge.                                                  *)
LEMMA EdgeInv == ASSUME VerifyInv, verify_edge PROVE VerifyInv'
<1>1. /\ verdict = "edges" /\ remaining # {} /\ graph' = graph /\ topological_order' = topological_order
      BY DEF verify_edge
<1>2. /\ GraphType(graph) /\ EdgesOk /\ Indegrees({}) /\ topological_order = << >> /\ NodesOk
      BY <1>1 DEF VerifyInv
<1> DEFINE e == NextEdge
<1>3. e \in remaining
      BY <1>1, <1>2, TheNextEdge DEF EdgesOk
<1> DEFINE Bad == \/ ~({e.supplier, e.consumer} \subseteq Nodes)
                  \/ Key(e) \notin AssumptionsOf(graph)
                  \/ Key(e) \in supplied
                  \/ graph.provides[e.supplier] # graph.assumes[e.consumer][e.assumption]
<1>4. /\ Bad => /\ UNCHANGED <<remaining, supplied, adjacency, indegree>>
                /\ verdict' \in {"unresolved-edge-node", "unresolved-interface-assumption",
                                 "multiply-supplied-interface-assumption", "canonical-interface-mismatch"}
      /\ ~Bad => /\ remaining' = remaining \ {e}
                 /\ supplied' = supplied \cup {Key(e)}
                 /\ adjacency' = [adjacency EXCEPT ![e.supplier] = @ \cup {e.consumer}]
                 /\ indegree' = IF e.consumer \in adjacency[e.supplier] THEN indegree
                                ELSE [indegree EXCEPT ![e.consumer] = @ + 1]
                 /\ verdict' = verdict
      BY DEF verify_edge, Says, Key, Nodes
<1>5. NodesOk' /\ GraphType(graph)'
      BY <1>1, <1>2, SameGraph
<1>6. CASE Bad
  <2>1. ~Composes(graph)
        BY <1>2, <1>3, <1>6, EdgeRefused
  <2>2. ~Composes(graph)'
        BY <1>1, <2>1
  <2> HIDE DEF Bad
  <2> QED
      BY <1>4, <1>5, <1>6, <2>2 DEF VerifyInv, Later, Stages
<1>7. CASE ~Bad
  <2> DEFINE s == e.supplier
             c == e.consumer
  <2>0. s \in Nodes /\ c \in Nodes
        BY <1>7
  <2>1. Nodes' = Nodes /\ AssumptionsOf(graph)' = AssumptionsOf(graph)
        BY <1>1, SameGraph
  <2>2. Checked' = Checked \cup {e} /\ e \notin Checked /\ remaining' \subseteq graph.edges
        BY <1>1, <1>2, <1>3, <1>4, <1>7 DEF Checked, EdgesOk
  <2>3. \A f \in Checked : Key(f) # Key(e)
        BY <1>2, <1>7 DEF EdgesOk
  <2>4. /\ adjacency = [n \in Nodes |-> {f.consumer : f \in {d \in Checked : d.supplier = n}}]
        /\ indegree = [n \in Nodes |-> indegree[n]]
        BY <1>2 DEF EdgesOk
  <2> HIDE DEF e, Bad
  <2>5. adjacency' = [n \in Nodes |-> {f.consumer : f \in {d \in Checked' : d.supplier = n}}]
    <3>1. adjacency' = [adjacency EXCEPT ![s] = @ \cup {c}]
          BY <1>4, <1>7
    <3>2. \A n \in Nodes : n # s =>
              {f.consumer : f \in {d \in Checked' : d.supplier = n}} = {f.consumer : f \in {d \in Checked : d.supplier = n}}
          BY <2>2
    <3>3. {f.consumer : f \in {d \in Checked' : d.supplier = s}}
              = {f.consumer : f \in {d \in Checked : d.supplier = s}} \cup {c}
          BY <2>2
    <3> QED
        BY <2>4, <3>1, <3>2, <3>3
  <2>6. indegree' = [n \in Nodes |-> indegree'[n]]
        BY <1>4, <1>7, <2>4
  <2>7. EdgesOk'
    <3>1. supplied' = {Key(f) : f \in Checked'}
          BY <1>2, <1>4, <1>7, <2>2 DEF EdgesOk
    <3>2. \A f, d \in Checked' : Key(f) = Key(d) => f = d
          BY <1>2, <2>2, <2>3 DEF EdgesOk
    <3>3. \A f \in Checked' :
              /\ {f.supplier, f.consumer} \subseteq Nodes /\ Key(f) \in AssumptionsOf(graph)
              /\ graph.provides[f.supplier] = graph.assumes[f.consumer][f.assumption]
          BY <1>2, <1>7, <2>2 DEF EdgesOk, Bad
    <3>4. remaining' \subseteq graph'.edges
          BY <1>1, <2>2
    <3> QED
        BY <1>1, <2>1, <2>5, <2>6, <3>1, <3>2, <3>3, <3>4 DEF EdgesOk
  <2>8. Indegrees({})'
    <3> SUFFICES ASSUME NEW n \in Nodes PROVE indegree'[n] = Cardinality(WaitsFor(n, {})')
        BY <2>1 DEF Indegrees
    <3>1. indegree[n] = Cardinality(WaitsFor(n, {})) /\ IsFiniteSet(WaitsFor(n, {}))
          BY <1>2, WaitingFinite DEF Indegrees
    <3>2. adjacency' = [adjacency EXCEPT ![s] = @ \cup {c}] /\ DOMAIN adjacency = Nodes
          BY <1>4, <1>7, <2>4
    <3>3. WaitsFor(n, {}) = {m \in Nodes : n \in adjacency[m]}
          BY DEF WaitsFor
    <3>4. WaitsFor(n, {})' = {m \in Nodes : n \in adjacency'[m]}
          BY <2>1 DEF WaitsFor
    <3>5. CASE c \in adjacency[s] \/ n # c
      <4>1. WaitsFor(n, {})' = WaitsFor(n, {})
            BY <2>0, <3>2, <3>3, <3>4, <3>5
      <4>2. indegree'[n] = indegree[n]
            BY <1>4, <1>7, <2>4, <3>5
      <4> QED
          BY <3>1, <4>1, <4>2
    <3>6. CASE c \notin adjacency[s] /\ n = c
      <4>1. WaitsFor(n, {})' = WaitsFor(n, {}) \cup {s} /\ s \notin WaitsFor(n, {})
            BY <2>0, <3>2, <3>3, <3>4, <3>6
      <4>2. indegree'[n] = indegree[n] + 1
            BY <1>4, <1>7, <2>4, <3>6
      <4> QED
          BY <3>1, <4>1, <4>2, FS_AddElement
    <3> QED
        BY <3>5, <3>6
  <2> QED
      BY <1>1, <1>2, <1>4, <1>5, <1>7, <2>7, <2>8 DEF VerifyInv, Later, Stages
<1> QED
    BY <1>6, <1>7

(* Once all edges are noted, adjacency holds the edges.                    *)
LEMMA Noted ==
    ASSUME EdgesOk, remaining = {}
    PROVE  /\ \A m \in Nodes : \A n : n \in adjacency[m] <=> Supplies(graph, m, n)
           /\ \A n, out : WaitsFor(n, out) = Suppliers(n) \ out
<1>1. Checked = graph.edges
      BY DEF Checked
<1>2. \A m \in Nodes : \A n : n \in adjacency[m] <=> Supplies(graph, m, n)
      BY <1>1 DEF EdgesOk, Supplies
<1>3. \A n, out : WaitsFor(n, out) = Suppliers(n) \ out
      BY <1>2 DEF WaitsFor, Suppliers, Nodes
<1> QED
    BY <1>2, <1>3

(* In a graph that composes the terminal node supplies no other: the nodes *)
(* that get anything from it would supply each other in a circle, or not   *)
(* contribute to it.                                                       *)
LEMMA TerminalLast ==
    ASSUME Composes(graph), NEW n \in Nodes
    PROVE  ~Supplies(graph, graph.terminal, n)
<1> DEFINE t == graph.terminal
           Closed(S) == \A x \in S, y \in Nodes : Supplies(graph, x, y) => y \in S
           F == {x \in Nodes : \A S \in SUBSET Nodes : t \in S /\ Closed(S) => x \in S}
<1> SUFFICES ASSUME Supplies(graph, t, n) PROVE FALSE
    OBVIOUS
<1>1. /\ t \in Nodes
      /\ \A part \in (SUBSET Nodes) \ {{}} : \E x \in part : \A m \in part : ~Supplies(graph, m, x)
      /\ \A part \in SUBSET Nodes :
             t \in part /\ (\A x \in part, m \in Nodes : Supplies(graph, m, x) => m \in part) => part = Nodes
      BY DEF Composes, Nodes
<1>2. t \in F /\ F \subseteq Nodes /\ Closed(F) /\ n \in F
      BY <1>1
<1>3. ASSUME NEW x \in F, x # t PROVE \E m \in F : Supplies(graph, m, x)
  <2> SUFFICES ASSUME \A m \in F : ~Supplies(graph, m, x) PROVE FALSE
      OBVIOUS
  <2>1. Closed(F \ {x})
        BY <1>2
  <2>2. F \ {x} \in SUBSET Nodes /\ t \in F \ {x}
        BY <1>2, <1>3
  <2> QED
      BY <1>3, <2>1, <2>2
<1>4. \E m \in F : Supplies(graph, m, t)
  <2> SUFFICES ASSUME \A m \in F : ~Supplies(graph, m, t) PROVE FALSE
      OBVIOUS
  <2> DEFINE part == Nodes \ (F \ {t})
  <2>1. t \in part /\ part \in SUBSET Nodes
        BY <1>1
  <2>2. ASSUME NEW x \in part, NEW m \in Nodes, Supplies(graph, m, x) PROVE m \in part
    <3>1. CASE x = t
          BY <2>2, <3>1
    <3>2. CASE x \notin F
          BY <1>2, <2>2, <3>2
    <3> QED
        BY <3>1, <3>2
  <2>3. part = Nodes
    <3> HIDE DEF part
    <3> QED
        BY <1>1, <2>1, <2>2
  <2>4. n = t
        BY <1>2, <2>3
  <2> QED
      BY <1>2, <2>4
<1>5. \A x \in F : \E m \in F : Supplies(graph, m, x)
      BY <1>3, <1>4
<1>6. F \in (SUBSET Nodes) \ {{}}
      BY <1>2
<1> HIDE DEF F
<1> QED
    BY <1>1, <1>5, <1>6

(* The checks when all edges are noted.                                    *)
LEMMA SuppliedInv == ASSUME VerifyInv, verify_supplied PROVE VerifyInv'
<1>1. /\ verdict = "edges" /\ remaining = {} /\ ready' = {n \in Nodes : indegree[n] = 0}
      /\ UNCHANGED <<graph, remaining, supplied, adjacency, indegree, topological_order>>
      BY DEF verify_supplied, Nodes
<1>2. /\ GraphType(graph) /\ EdgesOk /\ Indegrees({}) /\ topological_order = << >> /\ NodesOk
      BY <1>1 DEF VerifyInv
<1>3. /\ EdgesOk' /\ NodesOk' /\ GraphType(graph)' /\ Indegrees({})'
      /\ Nodes' = Nodes /\ AllSupplied' = AllSupplied /\ \A out : Nexts(out)' = Nexts(out)
      BY <1>1, <1>2, SameGraph, SameEdges
<1>4. CASE supplied # AssumptionsOf(graph)
  <2>1. verdict' = "unresolved-interface-assumption"
        BY <1>4 DEF verify_supplied, Says
  <2>2. PICK key \in AssumptionsOf(graph) : key \notin supplied
        BY <1>2, <1>4 DEF EdgesOk
  <2>3. \A e \in graph.edges : Key(e) # key
        BY <1>1, <1>2, <2>2 DEF EdgesOk, Checked
  <2>4. PICK n, a : key = <<n, a>>
        BY <2>2 DEF AssumptionsOf
  <2>5. {e \in graph.edges : e.consumer = key[1] /\ e.assumption = key[2]} = {}
        BY <2>3, <2>4 DEF Key
  <2>6. ~Composes(graph)
        BY <2>2, <2>5, FS_EmptySet DEF Composes
  <2>7. ~Composes(graph)'
        BY <1>1, <2>6
  <2> QED
      BY <1>3, <2>1, <2>7 DEF VerifyInv, Later, Stages
<1>5. CASE supplied = AssumptionsOf(graph) /\ adjacency[graph.terminal] # {}
  <2>1. verdict' = "terminal-node-has-consumer"
        BY <1>5 DEF verify_supplied, Says
  <2>2. PICK n : n \in adjacency[graph.terminal]
        BY <1>5
  <2>3. Supplies(graph, graph.terminal, n)
        BY <1>1, <1>2, <2>2, Noted DEF NodesOk
  <2>4. n \in Nodes
        BY <1>1, <1>2, <2>3 DEF EdgesOk, Checked, Supplies
  <2>5. ~Composes(graph)
        BY <2>3, <2>4, TerminalLast
  <2>6. ~Composes(graph)'
        BY <1>1, <2>5
  <2> QED
      BY <1>3, <2>1, <2>6 DEF VerifyInv, Later, Stages
<1>6. CASE supplied = AssumptionsOf(graph) /\ adjacency[graph.terminal] = {}
  <2>1. verdict' = "order"
        BY <1>6 DEF verify_supplied, Says
  <2>2. AllSupplied'
        BY <1>1, <1>3, <1>6 DEF AllSupplied
  <2>3. topological_order' = << >> /\ Out' = {}
        BY <1>1, <1>2 DEF Out, ToSet
  <2>4. OrderOk'
        BY <2>3, FS_EmptySet DEF OrderOk
  <2>5. ASSUME NEW n \in Nodes PROVE indegree[n] = 0 <=> Suppliers(n) \subseteq {}
    <3>1. indegree[n] = Cardinality(WaitsFor(n, {})) /\ WaitsFor(n, {}) = Suppliers(n) \ {}
          BY <1>1, <1>2, Noted DEF Indegrees
    <3> QED
        BY <1>2, <3>1, WaitingFinite, FS_EmptySet
  <2>6. ready' = Nexts({})
        BY <1>1, <2>5 DEF Nexts
  <2>7. ready' = Nexts({})' /\ Indegrees({})'
        BY <1>3, <2>6
  <2>8. (Indegrees(Out) /\ ready = Nexts(Out))'
        BY <2>3, <2>7
  <2> QED
      BY <1>3, <2>8, <2>1, <2>2, <2>4, <2>7 DEF VerifyInv, Later, Stages
<1> QED
    BY <1>4, <1>5, <1>6

(* Whatever is out, its suppliers are out before it.                       *)
LEMMA SuppliersOut ==
    ASSUME OrderOk, NEW n \in Out
    PROVE  Suppliers(n) \subseteq Out
<1>1. PICK i \in 1..Len(topological_order) : n = topological_order[i]
      BY DEF Out, ToSet, OrderOk
<1>2. Suppliers(n) \subseteq {topological_order[k] : k \in 1..(i - 1)}
      BY <1>1 DEF OrderOk, FirstOf, Nexts
<1>3. Len(topological_order) \in Nat
      BY DEF OrderOk
<1>4. \A k \in 1..(i - 1) : k \in 1..Len(topological_order)
      BY <1>3
<1>5. \A k \in 1..Len(topological_order) : topological_order[k] \in Out
      BY DEF OrderOk, Out, ToSet
<1> QED
    BY <1>2, <1>4, <1>5

(* The least ready node comes next.                                        *)
LEMMA OrderInv == ASSUME VerifyInv, order_node PROVE VerifyInv'
<1> DEFINE n == CHOOSE m \in ready : \A k \in ready : m <= k
<1>1. /\ verdict = "order" /\ verdict' = verdict /\ ready # {}
      /\ indegree' = [m \in DOMAIN indegree |->
                          IF m \in adjacency[n] THEN indegree[m] - 1 ELSE indegree[m]]
      /\ ready' = (ready \ {n}) \cup {m \in adjacency[n] : indegree'[m] = 0}
      /\ topological_order' = Append(topological_order, n)
      /\ UNCHANGED <<graph, remaining, supplied, adjacency>>
      BY DEF order_node
<1>2. /\ GraphType(graph) /\ EdgesOk /\ NodesOk /\ AllSupplied /\ OrderOk
      /\ Indegrees(Out) /\ ready = Nexts(Out)
      BY <1>1 DEF VerifyInv, Later
<1>3. /\ NodesOk' /\ GraphType(graph)' /\ Nodes' = Nodes /\ AllSupplied' = AllSupplied
      /\ \A out : Nexts(out)' = Nexts(out)
      /\ \A m, out : WaitsFor(m, out)' = WaitsFor(m, out)
      BY <1>1, <1>2, SameGraph, SameEdges
<1>4. FirstOf(n, Nexts(Out))
  <2>1. ready \subseteq Nat
        BY <1>2, FiniteIds DEF Nexts, Nodes
  <2>2. \E m \in ready : \A k \in ready : m <= k
        BY <1>1, <2>1, LeastNat
  <2> QED
      BY <1>2, <2>2 DEF FirstOf
<1> HIDE DEF n
<1>5. n \in Nodes /\ n \notin Out /\ Suppliers(n) \subseteq Out
      BY <1>4 DEF FirstOf, Nexts
<1>6. /\ \A m \in Nodes : \A k : k \in adjacency[m] <=> Supplies(graph, m, k)
      /\ \A m, out : WaitsFor(m, out) = Suppliers(m) \ out
      BY <1>2, Noted DEF AllSupplied
<1>7. DOMAIN indegree = Nodes
      BY <1>2 DEF EdgesOk
<1>s. \A m : Suppliers(m) = {k \in Nodes : m \in adjacency[k]}
      BY <1>6 DEF Suppliers, Nodes
<1>8. /\ topological_order \in Seq(Nodes) /\ Len(topological_order) \in Nat
      /\ topological_order' \in Seq(Nodes) /\ Len(topological_order') = Len(topological_order) + 1
      /\ topological_order'[Len(topological_order) + 1] = n
      /\ \A i \in 1..Len(topological_order) : topological_order'[i] = topological_order[i]
      BY <1>1, <1>2, <1>5 DEF OrderOk
<1>9. /\ Out = {topological_order[k] : k \in 1..Len(topological_order)}
      /\ Out' = Out \cup {n}
  <2>1. Out = {topological_order[k] : k \in 1..Len(topological_order)}
        BY <1>8 DEF Out, ToSet
  <2>2. Out' = {topological_order'[k] : k \in 1..Len(topological_order')}
        BY <1>8 DEF Out, ToSet
  <2>3. 1..Len(topological_order') = 1..Len(topological_order) \cup {Len(topological_order) + 1}
        BY <1>8
  <2> QED
      BY <1>8, <2>1, <2>2, <2>3
<1>10. EdgesOk'
  <2>1. indegree' = [m \in Nodes |-> indegree'[m]]
        BY <1>1, <1>7
  <2>2. Checked' = Checked /\ AssumptionsOf(graph)' = AssumptionsOf(graph)
        BY <1>1 DEF Checked
  <2> QED
      BY <1>1, <1>2, <1>3, <2>1, <2>2 DEF EdgesOk
<1>11. OrderOk'
  <2>1. IsFiniteSet(Out)
    <3>1. Out \in SUBSET Nodes
          BY <1>8, <1>9
    <3> QED
        BY <1>2, <3>1, FiniteIds, FS_Subset DEF Nodes
  <2>2. Cardinality(Out') = Len(topological_order')
    <3>1. Cardinality(Out \cup {n}) = Cardinality(Out) + 1
          BY <1>5, <2>1, FS_AddElement
    <3>2. Cardinality(Out) = Len(topological_order)
          BY <1>2 DEF OrderOk
    <3> QED
        BY <1>8, <1>9, <3>1, <3>2
  <2>3. ASSUME NEW i \in 1..Len(topological_order')
        PROVE  FirstOf(topological_order'[i], Nexts({topological_order'[k] : k \in 1..(i - 1)}))
    <3>1. CASE i \in 1..Len(topological_order)
      <4>1. \A k \in 1..(i - 1) : topological_order'[k] = topological_order[k]
            BY <1>8, <3>1
      <4>2. {topological_order'[k] : k \in 1..(i - 1)} = {topological_order[k] : k \in 1..(i - 1)}
            BY <4>1
      <4>3. topological_order'[i] = topological_order[i]
            BY <1>8, <3>1
      <4> QED
          BY <1>2, <3>1, <4>2, <4>3 DEF OrderOk
    <3>2. CASE i = Len(topological_order) + 1
      <4>1. i - 1 = Len(topological_order)
            BY <1>8, <3>2
      <4>2. {topological_order'[k] : k \in 1..(i - 1)} = Out
            BY <1>8, <1>9, <4>1
      <4> QED
          BY <1>4, <1>8, <3>2, <4>2
    <3>3. i \in 1..Len(topological_order) \/ i = Len(topological_order) + 1
          BY <1>8
    <3> QED
        BY <3>1, <3>2, <3>3
  <2>4. \A S, m : FirstOf(m, Nexts(S))' <=> FirstOf(m, Nexts(S))
        BY <1>3 DEF FirstOf
  <2> QED
      BY <1>3, <1>8, <2>2, <2>3 DEF OrderOk, FirstOf
<1>12. Indegrees(Out)'
  <2> SUFFICES ASSUME NEW m \in Nodes PROVE indegree'[m] = Cardinality(Suppliers(m) \ (Out \cup {n}))
    <3>1. ASSUME NEW m \in Nodes PROVE WaitsFor(m, Out)' = Suppliers(m) \ (Out \cup {n})
      <4>1. WaitsFor(m, Out)' = {k \in Nodes \ (Out \cup {n}) : m \in adjacency[k]}
            BY <1>1, <1>3, <1>9 DEF WaitsFor
      <4> QED
          BY <1>s, <4>1
    <3> QED
        BY <1>3, <3>1 DEF Indegrees
  <2>1. indegree[m] = Cardinality(Suppliers(m) \ Out) /\ IsFiniteSet(Suppliers(m) \ Out)
        BY <1>2, <1>6, WaitingFinite DEF Indegrees
  <2>2. n \in Suppliers(m) <=> m \in adjacency[n]
        BY <1>5, <1>6 DEF Suppliers, Nodes
  <2>3. CASE m \in adjacency[n]
    <3>1. /\ Suppliers(m) \ (Out \cup {n}) = (Suppliers(m) \ Out) \ {n}
          /\ n \in Suppliers(m) \ Out
          BY <1>5, <2>2, <2>3
    <3>2. indegree'[m] = indegree[m] - 1
          BY <1>1, <1>7, <2>3
    <3> QED
        BY <2>1, <3>1, <3>2, FS_RemoveElement
  <2>4. CASE m \notin adjacency[n]
    <3>1. Suppliers(m) \ (Out \cup {n}) = Suppliers(m) \ Out
          BY <2>2, <2>4
    <3>2. indegree'[m] = indegree[m]
          BY <1>1, <1>7, <2>4
    <3> QED
        BY <2>1, <3>1, <3>2
  <2> QED
      BY <2>3, <2>4
<1>13. ready' = Nexts(Out \cup {n})
  <2>1. \A m \in Nodes : indegree'[m] = 0 <=> Suppliers(m) \subseteq Out \cup {n}
    <3> SUFFICES ASSUME NEW m \in Nodes PROVE indegree'[m] = 0 <=> Suppliers(m) \subseteq Out \cup {n}
        OBVIOUS
    <3>0. WaitsFor(m, Out)' = {k \in Nodes \ (Out \cup {n}) : m \in adjacency[k]}
          BY <1>1, <1>3, <1>9 DEF WaitsFor
    <3>1. indegree'[m] = Cardinality(WaitsFor(m, Out)') /\ WaitsFor(m, Out)' = Suppliers(m) \ (Out \cup {n})
          BY <1>s, <1>3, <1>12, <3>0 DEF Indegrees
    <3>2. IsFiniteSet(Suppliers(m) \ (Out \cup {n}))
          BY <1>2, <1>6, WaitingFinite
    <3> QED
        BY <3>1, <3>2, FS_EmptySet
  <2>2. \A m \in adjacency[n] : m \in Nodes /\ n \in Suppliers(m)
    <3>1. \A m : Supplies(graph, n, m) => m \in Nodes
          BY <1>2 DEF EdgesOk, AllSupplied, Checked, Supplies
    <3> QED
        BY <1>5, <1>6, <3>1 DEF Suppliers, Nodes
  <2>3. \A m \in adjacency[n] : m \notin Out \cup {n}
        BY <1>2, <1>5, <2>2, SuppliersOut
  <2>4. \A m \in Nodes : n \in Suppliers(m) => m \in adjacency[n]
        BY <1>5, <1>6 DEF Suppliers
  <2> QED
      BY <1>1, <1>2, <2>1, <2>2, <2>3, <2>4 DEF Nexts
<1>14. (Indegrees(Out) /\ ready = Nexts(Out))'
      BY <1>3, <1>9, <1>12, <1>13
<1> QED
    BY <1>1, <1>2, <1>3, <1>10, <1>11, <1>14 DEF VerifyInv, Later, Stages

(* Nothing is ready any more: all nodes are out, or those that are not     *)
(* supply each other.                                                      *)
LEMMA OrderEndsInv == ASSUME VerifyInv, order_ends PROVE VerifyInv'
<1>1. /\ verdict = "order" /\ ready = {}
      /\ reaches_terminal' = {graph.terminal} /\ frontier' = {graph.terminal}
      /\ UNCHANGED <<graph, remaining, supplied, adjacency, indegree, topological_order>>
      /\ verdict' = IF Len(topological_order) # Len(graph.nodes) THEN "cyclic-receipt-graph" ELSE "reach"
      BY DEF order_ends, Says
<1>2. /\ GraphType(graph) /\ EdgesOk /\ NodesOk /\ AllSupplied /\ OrderOk /\ Nexts(Out) = {}
      BY <1>1 DEF VerifyInv, Later
<1>3. /\ NodesOk' /\ GraphType(graph)' /\ Nodes' = Nodes /\ AllSupplied' /\ EdgesOk'
      /\ \A out : Nexts(out)' = Nexts(out)
      /\ \A part : SupplierClosed(part)' = SupplierClosed(part)
      /\ \A n : Suppliers(n)' = Suppliers(n)
      BY <1>1, <1>2, SameGraph, SameEdges
<1>4. Out' = Out /\ OrderOk'
      BY <1>1, <1>2, <1>3 DEF Out, OrderOk, FirstOf
<1>5. Out \in SUBSET Nodes /\ IsFiniteSet(Nodes)
      BY <1>2, FiniteIds DEF Out, ToSet, OrderOk, Nodes
<1>6. CASE Len(topological_order) # Len(graph.nodes)
  <2>1. Nodes \ Out # {}
    <3>1. Cardinality(Out) # Cardinality(Nodes)
          BY <1>2, <1>6 DEF NodesOk, OrderOk
    <3>2. Out # Nodes
          BY <3>1
    <3> QED
        BY <1>5, <3>2
  <2>2. ~Composes(graph)
    <3> SUFFICES ASSUME Composes(graph) PROVE FALSE
        OBVIOUS
    <3>1. \A part \in (SUBSET Nodes) \ {{}} : \E n \in part : \A m \in part : ~Supplies(graph, m, n)
          BY DEF Composes, Nodes
    <3>2. PICK n \in Nodes \ Out : \A m \in Nodes \ Out : ~Supplies(graph, m, n)
          BY <2>1, <3>1
    <3>3. Suppliers(n) \subseteq Out
          BY <3>2 DEF Suppliers, Nodes
    <3> QED
        BY <1>2, <3>2, <3>3 DEF Nexts
  <2>3. ~Composes(graph)'
        BY <1>1, <2>2
  <2> QED
      BY <1>1, <1>3, <1>6, <2>3 DEF VerifyInv, Later, Stages
<1>7. CASE Len(topological_order) = Len(graph.nodes)
  <2>1. Out = Nodes
        BY <1>2, <1>5, <1>7, FS_Subset DEF NodesOk, OrderOk
  <2>2. ReachOk'
        BY <1>1, <1>2, <1>3 DEF ReachOk, NodesOk
  <2> QED
      BY <1>1, <1>3, <1>4, <1>7, <2>1, <2>2 DEF VerifyInv, Later, Stages
<1> QED
    BY <1>6, <1>7

(* What contributes is followed one node at a time, in any order.          *)
LEMMA ReachInv == ASSUME VerifyInv, reach_node PROVE VerifyInv'
<1>1. PICK n \in frontier :
          /\ reaches_terminal' = reaches_terminal \cup {m \in Nodes : n \in adjacency[m]}
          /\ frontier' = (frontier \ {n}) \cup ({m \in Nodes : n \in adjacency[m]} \ reaches_terminal)
      BY DEF reach_node, Nodes
<1>2. /\ verdict = "reach" /\ verdict' = verdict
      /\ UNCHANGED <<graph, remaining, supplied, adjacency, indegree, topological_order>>
      BY DEF reach_node
<1>3. /\ GraphType(graph) /\ EdgesOk /\ NodesOk /\ AllSupplied /\ OrderOk /\ Out = Nodes /\ ReachOk
      BY <1>2 DEF VerifyInv, Later
<1>4. /\ NodesOk' /\ GraphType(graph)' /\ Nodes' = Nodes /\ AllSupplied' /\ EdgesOk'
      /\ \A out : Nexts(out)' = Nexts(out)
      /\ \A part : SupplierClosed(part)' = SupplierClosed(part)
      /\ \A m : Suppliers(m)' = Suppliers(m)
      BY <1>2, <1>3, SameGraph, SameEdges
<1>5. Out' = Out /\ OrderOk'
      BY <1>2, <1>3, <1>4 DEF Out, OrderOk, FirstOf
<1>6. {m \in Nodes : n \in adjacency[m]} = Suppliers(n)
      BY <1>3, Noted DEF AllSupplied, Suppliers, Nodes
<1>7. n \in reaches_terminal /\ Suppliers(n) \subseteq Nodes
      BY <1>3 DEF ReachOk, Suppliers, Nodes
<1>8. ASSUME NEW m \in reaches_terminal' \ frontier' PROVE Suppliers(m) \subseteq reaches_terminal'
  <2>1. m = n \/ m \in reaches_terminal \ frontier
        BY <1>1
  <2> QED
      BY <1>1, <1>3, <1>6, <2>1 DEF ReachOk
<1>9. ASSUME NEW part \in SUBSET Nodes, graph.terminal \in part, SupplierClosed(part)
      PROVE  reaches_terminal' \subseteq part
  <2>1. reaches_terminal \subseteq part
        BY <1>3, <1>9 DEF ReachOk
  <2>2. Suppliers(n) \subseteq part
        BY <1>7, <1>9, <2>1 DEF SupplierClosed, Suppliers, Nodes
  <2> QED
      BY <1>1, <1>6, <2>1, <2>2
<1>10. ReachOk'
  <2>1. graph.terminal \in reaches_terminal' /\ reaches_terminal' \subseteq Nodes /\ frontier' \subseteq reaches_terminal'
        BY <1>1, <1>3, <1>6, <1>7 DEF ReachOk
  <2> QED
      BY <1>2, <1>4, <1>8, <1>9, <2>1 DEF ReachOk
<1> QED
    BY <1>2, <1>3, <1>4, <1>5, <1>10 DEF VerifyInv, Later, Stages

(* What contributes to the terminal is all there is, or the rest does not. *)
LEMMA ReachEndsInv == ASSUME VerifyInv, reach_ends PROVE VerifyInv'
<1>1. /\ verdict = "reach" /\ frontier = {}
      /\ UNCHANGED <<graph, remaining, supplied, adjacency, indegree, topological_order, reaches_terminal, frontier>>
      /\ verdict' = IF reaches_terminal # Nodes THEN "node-outside-terminal-closure" ELSE "verified"
      BY DEF reach_ends, Says, Nodes
<1>2. /\ GraphType(graph) /\ EdgesOk /\ NodesOk /\ AllSupplied /\ OrderOk /\ Out = Nodes /\ ReachOk
      BY <1>1 DEF VerifyInv, Later
<1>3. /\ NodesOk' /\ GraphType(graph)' /\ Nodes' = Nodes /\ AllSupplied' /\ EdgesOk'
      /\ \A out : Nexts(out)' = Nexts(out)
      /\ \A part : SupplierClosed(part)' = SupplierClosed(part)
      /\ \A m : Suppliers(m)' = Suppliers(m)
      BY <1>1, <1>2, SameGraph, SameEdges
<1>4. Out' = Out /\ OrderOk'
      BY <1>1, <1>2, <1>3 DEF Out, OrderOk, FirstOf
<1>5. ReachOk'
      BY <1>1, <1>2, <1>3 DEF ReachOk
<1>6. CASE reaches_terminal # Nodes
  <2>1. SupplierClosed(reaches_terminal)
        BY <1>1, <1>2 DEF SupplierClosed, ReachOk, Suppliers, Nodes
  <2>2. ~Composes(graph)
        BY <1>2, <1>6, <2>1 DEF Composes, SupplierClosed, ReachOk, Nodes
  <2>3. ~Composes(graph)'
        BY <1>1, <2>2
  <2> QED
      BY <1>1, <1>3, <1>6, <2>3 DEF VerifyInv, Later, Stages
<1>7. CASE reaches_terminal = Nodes
      BY <1>1, <1>2, <1>3, <1>4, <1>5, <1>7 DEF VerifyInv, Later, Stages
<1> QED
    BY <1>6, <1>7

(* Where verify stands does not depend on who asked.                       *)
LEMMA VerifySame ==
    ASSUME VerifyInv, UNCHANGED <<graph, verdict, remaining, supplied, adjacency, indegree, ready>>,
           UNCHANGED <<topological_order, reaches_terminal, frontier>>
    PROVE  VerifyInv'
<1>1. /\ Nodes' = Nodes /\ NodesOk' = NodesOk /\ EdgesOk' = EdgesOk /\ AllSupplied' = AllSupplied
      /\ GraphType(graph)' = GraphType(graph) /\ (Composes(graph))' = Composes(graph)
      /\ \A out : Nexts(out)' = Nexts(out) /\ Indegrees(out)' = Indegrees(out)
      /\ \A part : SupplierClosed(part)' = SupplierClosed(part)
      /\ \A m : Suppliers(m)' = Suppliers(m)
      BY SameGraph, SameEdges
<1>2. Out' = Out /\ OrderOk' = OrderOk /\ ReachOk' = ReachOk
      BY <1>1 DEF Out, OrderOk, ReachOk, FirstOf
<1>3. Indegrees(Out)' = Indegrees(Out) /\ Nexts(Out)' = Nexts(Out) /\ Indegrees({})' = Indegrees({})
      BY <1>1, <1>2
<1> QED
    BY <1>1, <1>2, <1>3 DEF VerifyInv

(* Every step of verify.                                                   *)
LEMMA VerifyStepInv == VerifyInv /\ [VerifyNext]_verifying => VerifyInv'
<1> SUFFICES ASSUME VerifyInv, [VerifyNext]_verifying PROVE VerifyInv'
    OBVIOUS
<1>1. CASE UNCHANGED verifying
      BY <1>1, VerifySame DEF verifying
<1> QED
    BY <1>1, NodesInv, EdgeInv, SuppliedInv, OrderInv, OrderEndsInv, ReachInv, ReachEndsInv DEF VerifyNext

(* A verified graph composes.                                              *)
LEMMA VerifiedComposes == ASSUME VerifyInv, verdict = "verified" PROVE Composes(graph)
<1>1. /\ GraphType(graph) /\ EdgesOk /\ NodesOk /\ AllSupplied /\ OrderOk /\ Out = Nodes /\ ReachOk
      /\ reaches_terminal = Nodes
      BY DEF VerifyInv, Later
<1>2. Checked = graph.edges /\ supplied = {Key(e) : e \in graph.edges}
      BY <1>1 DEF Checked, AllSupplied, EdgesOk
<1>3. ASSUME NEW e \in graph.edges
      PROVE  /\ {e.supplier, e.consumer} \subseteq Nodes /\ e.assumption \in DOMAIN graph.assumes[e.consumer]
             /\ graph.provides[e.supplier] = graph.assumes[e.consumer][e.assumption]
  <2>1. Key(e) \in AssumptionsOf(graph)
        BY <1>1, <1>2 DEF EdgesOk
  <2>2. e.assumption \in DOMAIN graph.assumes[e.consumer]
        BY <2>1 DEF Key, AssumptionsOf
  <2> QED
      BY <1>1, <1>2, <2>2 DEF EdgesOk
<1>4. ASSUME NEW key \in AssumptionsOf(graph)
      PROVE  Cardinality({e \in graph.edges : e.consumer = key[1] /\ e.assumption = key[2]}) = 1
  <2>1. PICK e \in graph.edges : key = Key(e)
        BY <1>1, <1>2, <1>4 DEF AllSupplied
  <2>2. {f \in graph.edges : f.consumer = key[1] /\ f.assumption = key[2]} = {e}
    <3>1. \A f \in graph.edges : f.consumer = key[1] /\ f.assumption = key[2] <=> Key(f) = Key(e)
          BY <2>1 DEF Key
    <3>2. \A f \in graph.edges : Key(f) = Key(e) => f = e
          BY <1>1, <1>2 DEF EdgesOk
    <3> QED
        BY <3>1, <3>2
  <2> QED
      BY <2>2, FS_Singleton
<1>5. ASSUME NEW part \in (SUBSET Nodes) \ {{}}
      PROVE  \E n \in part : \A m \in part : ~Supplies(graph, m, n)
  <2> DEFINE at == {i \in 1..Len(topological_order) : topological_order[i] \in part}
  <2>1. Len(topological_order) \in Nat /\ Nodes = {topological_order[k] : k \in 1..Len(topological_order)}
        BY <1>1 DEF Out, ToSet, OrderOk
  <2>2. at \subseteq Nat /\ at # {}
        BY <2>1
  <2>3. PICK i \in at : \A j \in at : i <= j
        BY <2>2, LeastNat
  <2>4. Suppliers(topological_order[i]) \subseteq {topological_order[k] : k \in 1..(i - 1)}
        BY <1>1, <2>3 DEF OrderOk, FirstOf, Nexts
  <2>5. \A k \in 1..(i - 1) : topological_order[k] \notin part
    <3> SUFFICES ASSUME NEW k \in 1..(i - 1), topological_order[k] \in part PROVE FALSE
        OBVIOUS
    <3>1. k \in 1..Len(topological_order) /\ k < i /\ i \in Nat /\ k \in Nat
          BY <2>1, <2>3
    <3>2. i <= k
          BY <2>3, <3>1
    <3> QED
        BY <3>1, <3>2
  <2>6. \A m \in part : m \notin Suppliers(topological_order[i])
        BY <2>4, <2>5
  <2>7. \A m \in part : ~Supplies(graph, m, topological_order[i])
        BY <1>5, <2>6 DEF Suppliers, Nodes
  <2> QED
      BY <2>3, <2>7
<1>6. ASSUME NEW part \in SUBSET Nodes, graph.terminal \in part,
             \A n \in part, m \in Nodes : Supplies(graph, m, n) => m \in part
      PROVE  part = Nodes
      BY <1>1, <1>6 DEF ReachOk, SupplierClosed
<1> QED
    BY <1>1, <1>3, <1>4, <1>5, <1>6 DEF Composes, NodesOk, Nodes

(* The verdict is right.                                                   *)
LEMMA VerdictRight == VerifyInv => GraphVerdict
<1> SUFFICES ASSUME VerifyInv PROVE GraphVerdict
    OBVIOUS
<1>1. CASE verdict = "verified"
  <2>1. OrderOk /\ Out = Nodes
        BY <1>1 DEF VerifyInv, Later
  <2>2. ASSUME NEW i \in DOMAIN topological_order
        PROVE  ToSet(SubSeq(topological_order, 1, i - 1)) = {topological_order[k] : k \in 1..(i - 1)}
    <3>1. topological_order \in Seq(Nodes) /\ i \in 1..Len(topological_order)
          BY <2>1 DEF OrderOk
    <3>2. /\ Len(SubSeq(topological_order, 1, i - 1)) = i - 1
          /\ \A k \in 1..(i - 1) : SubSeq(topological_order, 1, i - 1)[k] = topological_order[k]
          /\ DOMAIN SubSeq(topological_order, 1, i - 1) = 1..(i - 1)
          BY <3>1
    <3> QED
        BY <3>2 DEF ToSet
  <2>3. \A i \in DOMAIN topological_order : i \in 1..Len(topological_order)
        BY <2>1 DEF OrderOk
  <2> QED
      BY <1>1, <2>1, <2>2, <2>3, VerifiedComposes DEF GraphVerdict, OrderOk, FirstOf, Nexts, Out, Nodes, Stages
<1>2. CASE verdict # "verified"
      BY <1>2 DEF GraphVerdict, VerifyInv
<1> QED
    BY <1>1, <1>2

(* For every graph that the constructors let through: verify accepts it    *)
(* exactly when it composes, in whatever order the nodes that contribute   *)
(* are taken from the frontier, and the order it reports is the least one  *)
(* that has every supplier before its consumers.                           *)
THEOREM GraphsVerified ==
    ASSUME NEW g, GraphType(g)
    PROVE  VerifySpec(g) => []GraphVerdict
<1>1. VerifyInit(g) => VerifyInv
      BY VerifyInitInv
<1> QED
    BY <1>1, VerifyStepInv, VerdictRight, PTL DEF VerifySpec

-----------------------------------------------------------------------------
(* Audits of receipt graphs. *)

Parses(n) == theorem[n] /\ imports[n] = SortedImports(imports[n])

(* A node that was accepted says what its receipt says, and the owner      *)
(* would derive a receipt that parses.                                     *)
NodeOk(x, n) ==
    /\ x.identity = identity(x.receipt) /\ x.receipt.request.root = n
    /\ parse_axle_closure_artifact(x.receipt) /\ Parses(n)

(* The receipt of a graph with its order.                                  *)
ReceiptOf(g, order) ==
    [graph_digest |-> graph_digest(g), terminal |-> g.terminal, order |-> order,
     node_count |-> Len(g.nodes), edge_count |-> Cardinality(g.edges),
     root_count |-> Cardinality(UNION {g.roots[n] : n \in NodeIds(g)})]

NodesKept ==
    /\ declared = [n \in Ids |-> declared[n]] /\ node = [n \in Ids |-> node[n]]
    /\ \A n \in Ids : declared[n] # None => declared[n][1].request.root = n
    /\ \A n \in Ids : node[n] # None => NodeOk(node[n], n)

(* What was encoded composed, and carries its own receipt or one that says *)
(* there are no edges.                                                     *)
AuditKept ==
    audit # None =>
        /\ audit.nodes = [n \in Ids |-> audit.nodes[n]] /\ \A n \in Ids : NodeOk(audit.nodes[n], n)
        /\ Composes(GraphOf(audit.nodes))
        /\ audit.receipt = ReceiptOf(GraphOf(audit.nodes), <<1, 2>>) \/ audit.receipt.edge_count = 0

(* Which graph is being verified, and for whom.                            *)
CallerOk ==
    /\ caller = "encode" => audit = None /\ graph = GraphOf(node) /\ \A n \in Ids : node[n] # None
    /\ caller = "decode" => audit # None /\ decoded = 2 /\ graph = GraphOf(audit.nodes)
    /\ audit = None => outcome_of = "none"
    /\ outcome_of = "none" => decoded = 0

(* The nodes decoded so far were derived again.                            *)
DecodedOk ==
    /\ decoded \in 0..2 /\ reverified = [n \in Ids |-> reverified[n]] /\ calm \in BOOLEAN
    /\ \A n \in 1..decoded :
           /\ audit.nodes[n].identity = reverified[n]
           /\ calm => audit.nodes[n].identity = identity(reverify(n))

OutcomeOk ==
    /\ outcome_of = "accepted" => audit.canonical /\ caller = "decode" /\ verdict = "verified"
    /\ outcome_of = "authority-receipt-rejected" =>
           ~calm \/ \E n \in Ids : audit.nodes[n].identity # identity(reverify(n))
    /\ outcome_of = "verified-receipt-mismatch" => audit.receipt.edge_count = 0
    /\ outcome_of # "invalid-audit-graph"

AuditInv == VerifyInv /\ NodesKept /\ AuditKept /\ CallerOk /\ DecodedOk /\ OutcomeOk

(* The graph of two nodes is one that the constructors leave.              *)
LEMMA TwoNodes ==
    ASSUME NEW x
    PROVE  /\ GraphType(GraphOf(x)) /\ NodeIds(GraphOf(x)) = {1, 2} /\ GraphOf(x).terminal = 2
           /\ GraphOf(x).edges = {Edge(1, 2, 1)} /\ Len(GraphOf(x).nodes) = 2
<1>1. GraphOf(x).nodes = <<1, 2>> /\ GraphOf(x).edges = {Edge(1, 2, 1)} /\ GraphOf(x).terminal = 2
      BY DEF GraphOf
<1>2. <<1, 2>> \in Seq(Nat) /\ Len(<<1, 2>>) = 2
      OBVIOUS
<1>3. ToSet(<<1, 2>>) = {1, 2}
      BY DEF ToSet
<1>4. Edge(1, 2, 1) \in [supplier : Nat, consumer : Nat, assumption : Nat]
      BY DEF Edge
<1>5. IsFiniteSet({Edge(1, 2, 1)})
      BY FS_Singleton
<1> QED
    BY <1>1, <1>2, <1>3, <1>4, <1>5 DEF GraphType, NodeIds

(* Node 1 comes before node 2.                                             *)
LEMMA TwoInOrder ==
    ASSUME VerifyInv, verdict = "verified", NEW x, graph = GraphOf(x)
    PROVE  topological_order = <<1, 2>>
<1>1. OrderOk /\ Out = Nodes /\ NodesOk /\ Nodes = {1, 2} /\ Len(graph.nodes) = 2
      BY TwoNodes DEF VerifyInv, Later, Nodes
<1>2. topological_order \in Seq({1, 2}) /\ Len(topological_order) = 2
      BY <1>1 DEF OrderOk, NodesOk
<1>3. FirstOf(topological_order[1], Nexts({topological_order[k] : k \in 1..0}))
      BY <1>1, <1>2 DEF OrderOk
<1>4. topological_order[1] \in {1, 2} /\ Suppliers(topological_order[1]) = {}
      BY <1>1, <1>3 DEF FirstOf, Nexts
<1>5. 1 \in Suppliers(2)
  <2>1. Edge(1, 2, 1) \in graph.edges /\ Edge(1, 2, 1).supplier = 1 /\ Edge(1, 2, 1).consumer = 2
        BY TwoNodes DEF Edge
  <2> QED
      BY <1>1, <2>1 DEF Suppliers, Supplies, Nodes
<1>6. topological_order[1] = 1
      BY <1>4, <1>5
<1>7. topological_order[2] = 2
  <2>1. 2 \in {topological_order[i] : i \in 1..2}
        BY <1>1, <1>2 DEF Out, ToSet
  <2> QED
      BY <1>2, <1>6, <2>1
<1> QED
    BY <1>2, <1>6, <1>7

(* Verification starts from the beginning.                                 *)
LEMMA VerifyStarts ==
    ASSUME NEW g, NEW who, GraphType(g), Verify(g, who)
    PROVE  VerifyInv'
<1>1. graph' = g /\ verdict' = "nodes" /\ remaining' = g.edges /\ topological_order' = << >>
      BY DEF Verify
<1>2. Checked' = {}
      BY <1>1 DEF Checked
<1>3. EdgesOk'
      BY <1>1, <1>2 DEF EdgesOk, Verify, Nodes
<1>4. \A n \in Nodes' : WaitsFor(n, {})' = {}
      BY <1>1 DEF WaitsFor, Verify, Nodes
<1>5. Indegrees({})'
      BY <1>1, <1>4, FS_EmptySet DEF Indegrees, Verify, Nodes
<1>6. GraphType(graph)'
      BY <1>1 DEF GraphType
<1> QED
    BY <1>1, <1>3, <1>5, <1>6 DEF VerifyInv, Later, Stages

LEMMA AuditInitInv == ASSUME NEW g, GraphType(g), AuditInit(g) PROVE AuditInv
<1>1. VerifyInv
      BY VerifyInitInv DEF AuditInit
<1>2. NodesKept /\ AuditKept /\ CallerOk /\ DecodedOk /\ OutcomeOk
      BY DEF AuditInit, NodesKept, AuditKept, CallerOk, DecodedOk, OutcomeOk, Ids
<1> QED
    BY <1>1, <1>2 DEF AuditInv

(* What depends on the requests alone stays.                               *)
LEMMA SameRequests ==
    ASSUME UNCHANGED <<theorem, imports>>
    PROVE  \A x, n : NodeOk(x, n)' = NodeOk(x, n)
<1>1. \A n : Parses(n)' = Parses(n)
      BY DEF Parses
<1> QED
    BY <1>1 DEF NodeOk

(* Nothing of the audit changes, and the sources do not.                   *)
LEMMA AuditSame ==
    ASSUME NodesKept, AuditKept, DecodedOk, UNCHANGED <<theorem, imports, declared, node>>,
           UNCHANGED <<audit, lean_sources, decoded, reverified, calm>>
    PROVE  NodesKept' /\ AuditKept' /\ DecodedOk' /\ \A n : reverify(n)' = reverify(n)
<1>1. \A n : reverify(n)' = reverify(n)
      BY DEF reverify
<1>2. NodesKept' /\ AuditKept'
      BY SameRequests DEF NodesKept, AuditKept
<1>3. DecodedOk'
      BY <1>1 DEF DecodedOk
<1> QED
    BY <1>1, <1>2, <1>3

(* An edit ends the calm.                                                  *)
LEMMA EditInv == ASSUME AuditInv, NEW m \in Ids, EditLean(m) PROVE AuditInv'
<1>1. /\ UNCHANGED <<theorem, imports, declared, node, audit, decoded, outcome_of, reverified>>
      /\ UNCHANGED verifying /\ calm' = FALSE
      BY DEF EditLean
<1>2. VerifyInv' /\ graph' = graph /\ caller' = caller /\ verdict' = verdict
      BY <1>1, VerifySame DEF AuditInv, verifying
<1>3. NodesKept' /\ AuditKept'
      BY <1>1, SameRequests DEF AuditInv, NodesKept, AuditKept
<1>4. CallerOk' /\ OutcomeOk'
      BY <1>1, <1>2 DEF AuditInv, CallerOk, OutcomeOk
<1>5. DecodedOk'
      BY <1>1 DEF AuditInv, DecodedOk
<1> QED
    BY <1>2, <1>3, <1>4, <1>5 DEF AuditInv

(* A declared receipt names its own root.                                  *)
LEMMA DeclareReceiptInv ==
    ASSUME AuditInv, NEW n \in Ids, declare_axle_closure_receipt(n)
    PROVE  AuditInv'
<1>1. /\ UNCHANGED <<theorem, imports, node, audit, decoded, outcome_of, reverified, calm, lean_sources>>
      /\ UNCHANGED verifying /\ caller = "audit"
      /\ declared' = [declared EXCEPT ![n] = IF parse_axle_closure_artifact(reverify(n))
                                             THEN <<reverify(n)>> ELSE None]
      BY DEF declare_axle_closure_receipt
<1>2. VerifyInv' /\ graph' = graph /\ caller' = caller /\ verdict' = verdict
      BY <1>1, VerifySame DEF AuditInv, verifying
<1>3. \A k : reverify(k)' = reverify(k)
      BY <1>1 DEF reverify
<1>4. NodesKept'
  <2>1. reverify(n).request.root = n
        BY DEF reverify
  <2>2. \A x, k : NodeOk(x, k)' = NodeOk(x, k)
        BY <1>1, SameRequests
  <2> QED
      BY <1>1, <2>1, <2>2 DEF AuditInv, NodesKept
<1>5. AuditKept'
      BY <1>1, SameRequests DEF AuditInv, AuditKept
<1>6. CallerOk' /\ OutcomeOk' /\ DecodedOk'
      BY <1>1, <1>2, <1>3 DEF AuditInv, CallerOk, OutcomeOk, DecodedOk
<1> QED
    BY <1>2, <1>4, <1>5, <1>6 DEF AuditInv

(* What the authority accepts, it derives itself.                          *)
LEMMA ValidMeans ==
    ASSUME NEW r
    PROVE  LET n == r.request.root
           IN  validate(r) # None <=> /\ parse_axle_closure_artifact(r) /\ Parses(n)
                                      /\ identity(reverify(n)) = identity(r)
<1> DEFINE n == r.request.root
<1>1. parse_axle_closure_artifact(reverify(n)) <=> Parses(n)
      BY DEF parse_axle_closure_artifact, Parses, reverify
<1>2. <<identity(reverify(n))>> # << >>
      OBVIOUS
<1> QED
    BY <1>1, <1>2 DEF validate, None

LEMMA ValidIs ==
    ASSUME NEW r, validate(r) # None
    PROVE  validate(r)[1] = identity(reverify(r.request.root))
BY DEF validate, None

(* An accepted receipt makes a node that says the same.                    *)
LEMMA AcceptInv == ASSUME AuditInv, NEW n \in Ids, accept_node(n) PROVE AuditInv'
<1> DEFINE r == declared[n][1]
           x == [identity |-> validate(r)[1], receipt |-> r,
                 assumed |-> IF n = 2 THEN node[1].identity ELSE None]
<1>1. /\ UNCHANGED <<theorem, imports, audit, decoded, outcome_of, reverified, calm, lean_sources>>
      /\ UNCHANGED verifying /\ caller = "audit" /\ declared[n] # None
      /\ declared' = [declared EXCEPT ![n] = None]
      /\ node' = [node EXCEPT ![n] = IF validate(r) = None THEN @ ELSE x]
      BY DEF accept_node
<1>2. VerifyInv' /\ graph' = graph /\ caller' = caller /\ verdict' = verdict
      BY <1>1, VerifySame DEF AuditInv, verifying
<1>3. \A k : reverify(k)' = reverify(k)
      BY <1>1 DEF reverify
<1>4. ASSUME validate(r) # None PROVE NodeOk(x, n)
  <2>1. r.request.root = n
        BY <1>1 DEF AuditInv, NodesKept
  <2>2. /\ parse_axle_closure_artifact(r) /\ Parses(n) /\ identity(reverify(n)) = identity(r)
        /\ validate(r)[1] = identity(reverify(n))
        BY <1>4, <2>1, ValidMeans, ValidIs
  <2>3. x.identity = validate(r)[1] /\ x.receipt = r
        OBVIOUS
  <2> HIDE DEF x, r
  <2> QED
      BY <2>1, <2>2, <2>3 DEF NodeOk
<1> HIDE DEF x, r
<1>5. NodesKept'
  <2>1. \A y, k : NodeOk(y, k)' = NodeOk(y, k)
        BY <1>1, SameRequests
  <2>2. declared = [k \in Ids |-> declared[k]] /\ node = [k \in Ids |-> node[k]]
        BY DEF AuditInv, NodesKept
  <2>3. declared' = [k \in Ids |-> declared'[k]] /\ node' = [k \in Ids |-> node'[k]]
        BY <1>1, <2>2
  <2>4. \A k \in Ids : declared'[k] # None => declared'[k][1].request.root = k
        BY <1>1, <2>2 DEF AuditInv, NodesKept
  <2>5. ASSUME NEW k \in Ids, node'[k] # None PROVE NodeOk(node'[k], k)
        BY <1>1, <1>4, <2>2, <2>5 DEF AuditInv, NodesKept
  <2> QED
      BY <2>1, <2>3, <2>4, <2>5 DEF NodesKept
<1>6. AuditKept'
      BY <1>1, SameRequests DEF AuditInv, AuditKept
<1>7. CallerOk' /\ OutcomeOk' /\ DecodedOk'
      BY <1>1, <1>2, <1>3 DEF AuditInv, CallerOk, OutcomeOk, DecodedOk
<1> QED
    BY <1>2, <1>5, <1>6, <1>7 DEF AuditInv

(* Encoding verifies the graph of the accepted nodes.                      *)
LEMMA EncodeInv == ASSUME AuditInv, encode_audit PROVE AuditInv'
<1>1. /\ UNCHANGED <<theorem, imports, declared, node>>
      /\ UNCHANGED <<audit, lean_sources, decoded, reverified, calm>>
      /\ outcome_of' = outcome_of /\ audit = None /\ \A n \in Ids : node[n] # None
      /\ Verify(GraphOf(node), "encode")
      BY DEF encode_audit
<1>2. VerifyInv' /\ graph' = GraphOf(node) /\ caller' = "encode" /\ verdict' = "nodes"
      BY <1>1, VerifyStarts, TwoNodes DEF Verify
<1>3. NodesKept' /\ AuditKept' /\ DecodedOk' /\ \A n : reverify(n)' = reverify(n)
      BY <1>1, AuditSame DEF AuditInv
<1>4. outcome_of = "none"
      BY <1>1 DEF AuditInv, CallerOk
<1>5. CallerOk' /\ OutcomeOk'
      BY <1>1, <1>2, <1>4 DEF AuditInv, CallerOk, OutcomeOk
<1> QED
    BY <1>2, <1>3, <1>5 DEF AuditInv

(* What was encoded composes.                                              *)
LEMMA EncodedInv == ASSUME AuditInv, encoded PROVE AuditInv'
<1>1. /\ UNCHANGED <<graph, verdict, remaining, supplied, adjacency, indegree, ready>>
      /\ UNCHANGED <<topological_order, reaches_terminal, frontier>>
      /\ UNCHANGED <<lean_sources, theorem, imports, declared, node, decoded, outcome_of, reverified, calm>>
      /\ caller = "encode" /\ verdict = "verified" /\ caller' = "audit"
      BY DEF encoded
<1>2. PICK canonical \in BOOLEAN, other \in BOOLEAN :
          audit' = audit_object(node,
              IF other THEN [VerifiedReceipt EXCEPT !.edge_count = 0] ELSE VerifiedReceipt, canonical)
      BY DEF encoded
<1>3. VerifyInv'
      BY <1>1, VerifySame DEF AuditInv
<1>4. audit = None /\ graph = GraphOf(node) /\ (\A n \in Ids : node[n] # None) /\ outcome_of = "none" /\ decoded = 0
      BY <1>1 DEF AuditInv, CallerOk
<1>5. VerifiedReceipt = ReceiptOf(GraphOf(node), <<1, 2>>)
  <2>1. topological_order = <<1, 2>>
        BY <1>1, <1>4, TwoInOrder DEF AuditInv
  <2> QED
      BY <1>4, <2>1 DEF VerifiedReceipt, ReceiptOf
<1>6. /\ audit'.nodes = node
      /\ audit'.receipt = ReceiptOf(GraphOf(node), <<1, 2>>) \/ audit'.receipt.edge_count = 0
      BY <1>2, <1>5 DEF audit_object, ReceiptOf
<1>7. Composes(GraphOf(node))
      BY <1>1, <1>4, VerifiedComposes DEF AuditInv
<1>8. NodesKept'
      BY <1>1, SameRequests DEF AuditInv, NodesKept
<1>9. AuditKept'
  <2>1. node = [n \in Ids |-> node[n]] /\ \A n \in Ids : NodeOk(node[n], n)'
        BY <1>1, <1>4, SameRequests DEF AuditInv, NodesKept
  <2> QED
      BY <1>1, <1>6, <1>7, <2>1 DEF AuditKept
<1>10. CallerOk' /\ OutcomeOk'
      BY <1>1, <1>4 DEF CallerOk, OutcomeOk
<1>11. DecodedOk'
      BY <1>1, <1>4 DEF AuditInv, DecodedOk
<1> QED
    BY <1>3, <1>8, <1>9, <1>10, <1>11 DEF AuditInv

(* Encoding gives up.                                                      *)
LEMMA EncodeRaisesInv == ASSUME AuditInv, encode_raises PROVE AuditInv'
<1>1. /\ UNCHANGED <<graph, verdict, remaining, supplied, adjacency, indegree, ready>>
      /\ UNCHANGED <<topological_order, reaches_terminal, frontier>>
      /\ UNCHANGED <<theorem, imports, declared, node>>
      /\ UNCHANGED <<audit, lean_sources, decoded, reverified, calm>>
      /\ outcome_of' = outcome_of /\ caller = "encode" /\ caller' = "audit"
      BY DEF encode_raises
<1>2. VerifyInv'
      BY <1>1, VerifySame DEF AuditInv
<1>3. NodesKept' /\ AuditKept' /\ DecodedOk' /\ \A n : reverify(n)' = reverify(n)
      BY <1>1, AuditSame DEF AuditInv
<1>4. CallerOk' /\ OutcomeOk'
      BY <1>1, <1>3 DEF AuditInv, CallerOk, OutcomeOk
<1> QED
    BY <1>2, <1>3, <1>4 DEF AuditInv

(* Decoding begins, in calm.                                               *)
LEMMA DecodeInv == ASSUME AuditInv, decode_audit PROVE AuditInv'
<1>1. /\ UNCHANGED verifying /\ UNCHANGED <<theorem, imports, declared, node, audit, decoded, reverified>>
      /\ audit # None /\ outcome_of = "none" /\ outcome_of' = "decoding" /\ calm' = TRUE
      BY DEF decode_audit
<1>2. VerifyInv' /\ graph' = graph /\ caller' = caller /\ verdict' = verdict
      BY <1>1, VerifySame DEF AuditInv, verifying
<1>3. NodesKept' /\ AuditKept'
      BY <1>1, SameRequests DEF AuditInv, NodesKept, AuditKept
<1>4. decoded = 0
      BY <1>1 DEF AuditInv, CallerOk
<1>5. DecodedOk' /\ CallerOk' /\ OutcomeOk'
      BY <1>1, <1>2, <1>4 DEF AuditInv, DecodedOk, CallerOk, OutcomeOk
<1> QED
    BY <1>2, <1>3, <1>5 DEF AuditInv

(* There are two nodes to decode.                                          *)
LEMMA TwoEncoded == ASSUME AuditInv, audit # None PROVE Len(audit.nodes) = 2
<1>1. audit.nodes = [n \in Ids |-> audit.nodes[n]]
      BY DEF AuditInv, AuditKept
<1>2. Ids = 1..2
      BY DEF Ids
<1> DEFINE x == audit.nodes
           V == {x[n] : n \in Ids}
<1>3. x \in [1..2 -> V] /\ DOMAIN x = 1..2
      BY <1>1, <1>2
<1> HIDE DEF x, V
<1>4. x \in Seq(V)
      BY <1>3, SeqDef
<1>5. Len(x) \in Nat /\ DOMAIN x = 1..Len(x)
      BY <1>4
<1>6. Len(x) = 2
      BY <1>3, <1>5
<1> QED
    BY <1>6 DEF x

(* A node passes if the owner derives again what it says.                  *)
LEMMA ParseNodeInv == ASSUME AuditInv, parse_node PROVE AuditInv'
<1> DEFINE n == decoded + 1
           x == audit.nodes[n]
           derived == validate(x.receipt)
<1>1. /\ UNCHANGED verifying /\ UNCHANGED <<lean_sources, theorem, imports, declared, node, audit, calm>>
      /\ outcome_of = "decoding" /\ decoded < Len(audit.nodes)
      /\ \/ /\ derived # None /\ derived[1] = x.identity
            /\ decoded' = n /\ reverified' = [reverified EXCEPT ![n] = identity(reverify(n))]
            /\ outcome_of' = outcome_of
         \/ /\ derived # None => derived[1] # x.identity
            /\ outcome_of' = "authority-receipt-rejected" /\ UNCHANGED <<decoded, reverified>>
         \/ /\ outcome_of' = "axle-owner-reverification-failed" /\ UNCHANGED <<decoded, reverified>>
      BY DEF parse_node
<1>2. VerifyInv' /\ graph' = graph /\ caller' = caller /\ verdict' = verdict
      BY <1>1, VerifySame DEF AuditInv, verifying
<1>3. NodesKept' /\ AuditKept'
      BY <1>1, SameRequests DEF AuditInv, NodesKept, AuditKept
<1>4. audit # None /\ decoded \in 0..1 /\ n \in Ids
  <2>1. audit # None
        BY <1>1 DEF AuditInv, CallerOk
  <2>2. Len(audit.nodes) = 2
        BY <2>1, TwoEncoded
  <2> QED
      BY <1>1, <2>1, <2>2 DEF AuditInv, DecodedOk, Ids
<1>5. NodeOk(x, n)
      BY <1>4 DEF AuditInv, AuditKept
<1>6. \A k : reverify(k)' = reverify(k)
      BY <1>1 DEF reverify
<1>7. derived # None => derived[1] = identity(reverify(n))
      BY <1>5, ValidIs DEF NodeOk
<1>8. (derived # None => derived[1] # x.identity) => x.identity # identity(reverify(n))
      BY <1>5, <1>7, ValidMeans DEF NodeOk
<1> HIDE DEF derived
<1>9. caller # "decode"
      BY <1>4 DEF AuditInv, CallerOk
<1>10. DecodedOk'
  <2>1. DecodedOk
        BY DEF AuditInv
  <2>2. CASE decoded' = n /\ derived # None /\ derived[1] = x.identity
             /\ reverified' = [reverified EXCEPT ![n] = identity(reverify(n))]
    <3>1. x.identity = identity(reverify(n))
          BY <1>7, <2>2
    <3>2. /\ reverified' = [k \in Ids |-> reverified'[k]] /\ reverified'[n] = x.identity
          /\ \A k \in 1..decoded : reverified'[k] = reverified[k]
      <4>1. \A k \in 1..decoded : k \in Ids /\ k # n
            BY <1>4 DEF Ids
      <4>2. n \in Ids /\ reverified = [k \in Ids |-> reverified[k]]
            BY <1>4, <2>1 DEF DecodedOk
      <4>3. reverified' = [reverified EXCEPT ![n] = x.identity]
            BY <2>2, <3>1
      <4> HIDE DEF n, x
      <4> QED
          BY <4>1, <4>2, <4>3
    <3>3. ASSUME NEW k \in 1..n
          PROVE  /\ audit.nodes[k].identity = reverified'[k]
                 /\ calm => audit.nodes[k].identity = identity(reverify(k))
      <4>1. k = n \/ k \in 1..decoded
            BY <1>4
      <4> QED
          BY <2>1, <3>1, <3>2, <4>1 DEF DecodedOk
    <3>4. n \in 0..2
          BY <1>4
    <3> HIDE DEF n
    <3> QED
        BY <1>1, <1>6, <2>1, <2>2, <3>2, <3>3, <3>4 DEF DecodedOk
  <2>3. CASE UNCHANGED <<decoded, reverified>>
        BY <1>1, <1>6, <2>1, <2>3 DEF DecodedOk
  <2> QED
      BY <1>1, <2>2, <2>3
<1>11. CallerOk'
      BY <1>1, <1>2, <1>4, <1>9 DEF AuditInv, CallerOk
<1>12. OutcomeOk'
      BY <1>1, <1>4, <1>6, <1>8 DEF OutcomeOk
<1> QED
    BY <1>2, <1>3, <1>10, <1>11, <1>12 DEF AuditInv

(* All nodes are decoded: their graph is verified.                         *)
LEMMA DecodeGraphInv == ASSUME AuditInv, decode_graph PROVE AuditInv'
<1>1. /\ UNCHANGED <<theorem, imports, declared, node>>
      /\ UNCHANGED <<audit, lean_sources, decoded, reverified, calm>>
      /\ outcome_of' = outcome_of /\ outcome_of = "decoding" /\ decoded = Len(audit.nodes)
      /\ Verify(GraphOf(audit.nodes), "decode")
      BY DEF decode_graph
<1>2. VerifyInv' /\ graph' = GraphOf(audit.nodes) /\ caller' = "decode"
      BY <1>1, VerifyStarts, TwoNodes DEF Verify
<1>3. NodesKept' /\ AuditKept' /\ DecodedOk'
      BY <1>1, AuditSame DEF AuditInv
<1>4. audit # None /\ decoded = 2
      BY <1>1, TwoEncoded DEF AuditInv, CallerOk
<1>5. CallerOk' /\ OutcomeOk'
      BY <1>1, <1>2, <1>4 DEF AuditInv, CallerOk, OutcomeOk
<1> QED
    BY <1>2, <1>3, <1>5 DEF AuditInv

(* The graph composed when it was encoded, so it is verified now.          *)
LEMMA DecodeEndsInv == ASSUME AuditInv, decode_ends PROVE AuditInv'
<1>1. /\ UNCHANGED <<theorem, imports, declared, node>>
      /\ UNCHANGED <<audit, lean_sources, decoded, reverified, calm>>
      /\ UNCHANGED verifying /\ caller = "decode" /\ verdict \notin Stages
      /\ outcome_of' = IF verdict # "verified" THEN "invalid-audit-graph"
                       ELSE IF audit.receipt # VerifiedReceipt THEN "verified-receipt-mismatch"
                       ELSE IF ~audit.canonical THEN "noncanonical-audit-bytes" ELSE "accepted"
      BY DEF decode_ends
<1>2. VerifyInv' /\ graph' = graph /\ caller' = caller /\ verdict' = verdict
      BY <1>1, VerifySame DEF AuditInv, verifying
<1>3. NodesKept' /\ AuditKept' /\ DecodedOk'
      BY <1>1, AuditSame DEF AuditInv
<1>4. audit # None /\ decoded = 2 /\ graph = GraphOf(audit.nodes)
      BY <1>1 DEF AuditInv, CallerOk
<1>5. Composes(graph)
      BY <1>4 DEF AuditInv, AuditKept
<1>6. verdict = "verified"
      BY <1>1, <1>5 DEF AuditInv, VerifyInv
<1>7. audit.receipt # VerifiedReceipt => audit.receipt.edge_count = 0
  <2>1. topological_order = <<1, 2>>
        BY <1>4, <1>6, TwoInOrder DEF AuditInv
  <2>2. VerifiedReceipt = ReceiptOf(GraphOf(audit.nodes), <<1, 2>>)
        BY <1>4, <2>1 DEF VerifiedReceipt, ReceiptOf
  <2> QED
      BY <1>4, <2>2 DEF AuditInv, AuditKept
<1>8. OutcomeOk'
      BY <1>1, <1>2, <1>6, <1>7 DEF OutcomeOk
<1>9. CallerOk'
      BY <1>1, <1>2, <1>4 DEF AuditInv, CallerOk
<1> QED
    BY <1>2, <1>3, <1>8, <1>9 DEF AuditInv

(* A step of verify keeps its graph and its caller.                        *)
LEMMA VerifyAsks == ASSUME VerifyNext PROVE graph' = graph /\ caller' = caller /\ verdict \in Stages
BY DEF VerifyNext, verify_nodes, verify_edge, verify_supplied, order_node, order_ends, reach_node,
       reach_ends, Stages

LEMMA AuditStepInv == AuditInv /\ [AuditNext]_auditing => AuditInv'
<1> SUFFICES ASSUME AuditInv, [AuditNext]_auditing PROVE AuditInv'
    OBVIOUS
<1>1. CASE VerifyNext /\ UNCHANGED <<lean_sources, changes, theorem, imports, declared, node, audit,
                                     decoded, outcome_of, reverified, calm>>
  <2>1. VerifyInv'
        BY <1>1, VerifyStepInv DEF AuditInv
  <2>2. graph' = graph /\ caller' = caller /\ verdict \in Stages
        BY <1>1, VerifyAsks
  <2>3. NodesKept' /\ AuditKept' /\ DecodedOk' /\ \A n : reverify(n)' = reverify(n)
        BY <1>1, AuditSame DEF AuditInv
  <2>4. CallerOk' /\ OutcomeOk'
        BY <1>1, <2>2, <2>3 DEF AuditInv, CallerOk, OutcomeOk, Stages
  <2> QED
      BY <2>1, <2>3, <2>4 DEF AuditInv
<1>2. CASE UNCHANGED auditing
  <2>1. /\ UNCHANGED verifying /\ UNCHANGED <<theorem, imports, declared, node>>
        /\ UNCHANGED <<audit, lean_sources, decoded, reverified, calm>> /\ outcome_of' = outcome_of
        BY <1>2 DEF auditing
  <2>2. VerifyInv' /\ graph' = graph /\ caller' = caller /\ verdict' = verdict
        BY <2>1, VerifySame DEF AuditInv, verifying
  <2>3. NodesKept' /\ AuditKept' /\ DecodedOk' /\ \A n : reverify(n)' = reverify(n)
        BY <2>1, AuditSame DEF AuditInv
  <2>4. CallerOk' /\ OutcomeOk'
        BY <2>1, <2>2, <2>3 DEF AuditInv, CallerOk, OutcomeOk
  <2> QED
      BY <2>2, <2>3, <2>4 DEF AuditInv
<1>3. CASE \E n \in Ids : EditLean(n) \/ declare_axle_closure_receipt(n) \/ accept_node(n)
      BY <1>3, EditInv, DeclareReceiptInv, AcceptInv
<1>4. CASE encode_audit \/ encoded \/ encode_raises
      BY <1>4, EncodeInv, EncodedInv, EncodeRaisesInv
<1>5. CASE decode_audit \/ parse_node \/ decode_graph \/ decode_ends
      BY <1>5, DecodeInv, ParseNodeInv, DecodeGraphInv, DecodeEndsInv
<1> QED
    BY <1>1, <1>2, <1>3, <1>4, <1>5 DEF AuditNext

(* In calm both nodes are of the sources as they are.                      *)
LEMMA AuditInvBinds == AuditInv => AuditBinds
<1> SUFFICES ASSUME AuditInv PROVE AuditBinds
    OBVIOUS
<1>1. ASSUME outcome_of = "accepted"
      PROVE  /\ audit.canonical /\ Composes(graph)
             /\ \A n \in Ids : audit.nodes[n].identity = reverified[n]
             /\ calm => /\ \A n \in Ids : audit.nodes[n].identity = identity(reverify(n))
                        /\ audit.nodes[2].assumed[2][1] = audit.nodes[2].identity[2][1]
  <2>1. audit.canonical /\ caller = "decode" /\ verdict = "verified"
        BY <1>1 DEF AuditInv, OutcomeOk
  <2>2. decoded = 2 /\ graph = GraphOf(audit.nodes)
        BY <2>1 DEF AuditInv, CallerOk
  <2>3. Composes(graph)
        BY <2>1, VerifiedComposes DEF AuditInv
  <2>4. \A n \in Ids : /\ audit.nodes[n].identity = reverified[n]
                       /\ calm => audit.nodes[n].identity = identity(reverify(n))
        BY <2>2 DEF AuditInv, DecodedOk, Ids
  <2>5. audit.nodes[2].assumed = audit.nodes[1].identity
    <3> DEFINE e == Edge(1, 2, 1)
               x == audit.nodes
    <3>1. e \in graph.edges /\ e.supplier = 1 /\ e.consumer = 2 /\ e.assumption = 1
          BY <2>2, TwoNodes DEF Edge
    <3>2. graph.provides[1] = graph.assumes[2][1]
          BY <2>3, <3>1 DEF Composes
    <3> HIDE DEF x
    <3>3. GraphOf(x).provides[1] = x[1].identity /\ GraphOf(x).assumes[2][1] = x[2].assumed
          BY DEF GraphOf, Ids
    <3> QED
        BY <2>2, <3>2, <3>3 DEF x
  <2>6. ASSUME calm PROVE audit.nodes[1].identity[2][1] = audit.nodes[2].identity[2][1]
    <3>1. audit.nodes[1].identity = identity(reverify(1)) /\ audit.nodes[2].identity = identity(reverify(2))
          BY <2>4, <2>6 DEF Ids
    <3>2. identity(reverify(1))[2][1] = lean_sources[1] /\ identity(reverify(2))[2][1] = lean_sources[1]
          BY DEF identity, reverify, Uses
    <3> QED
        BY <3>1, <3>2
  <2> QED
      BY <2>1, <2>3, <2>4, <2>5, <2>6
<1>2. /\ outcome_of = "authority-receipt-rejected" =>
             ~calm \/ \E n \in Ids : audit.nodes[n].identity # identity(reverify(n))
      /\ outcome_of = "verified-receipt-mismatch" => audit.receipt.edge_count = 0
      /\ outcome_of # "invalid-audit-graph"
      BY DEF AuditInv, OutcomeOk
<1> QED
    BY <1>1, <1>2 DEF AuditBinds

(* Whenever sources are edited and receipts declared, accepted, encoded    *)
(* and decoded: an accepted audit composes and says what the owner derived *)
(* again, of one version if no edit fell in between, and no audit is       *)
(* refused for another reason than those that decode_audit names           *)
(* (AxleClosureReceiptAuthorityV1.validate, _parse_node, decode_audit).    *)
THEOREM AuditsBind ==
    ASSUME NEW g, GraphType(g)
    PROVE  AuditSpec(g) => []AuditBinds
<1>1. AuditInit(g) => AuditInv
      BY AuditInitInv
<1> QED
    BY <1>1, AuditStepInv, AuditInvBinds, PTL DEF AuditSpec

-----------------------------------------------------------------------------
(* The admission gates. *)

(* The copy says what the authority says, or was taken before it revoked.  *)
CopyOk ==
    /\ epoch \in 0..MaxEpoch /\ revoked_at \in Nat
    /\ copy = [revoked_at |-> copy.revoked_at, taken |-> copy.taken]
    /\ copy.revoked_at \in Nat /\ copy.taken \in 0..epoch
    /\ copy.revoked_at = revoked_at \/ copy.taken <= revoked_at

DeclarationOk ==
    declaration # << >> =>
        LET d == declaration[1]
            r == d.request
        IN  /\ d.admitted =>
                   /\ r.issuer_kind = "human" /\ Cardinality({r.proposer, r.executor, r.issuer}) = 3
                   /\ {r.candidate, r.provider} \cap {r.issuer} = {}
                   /\ r.candidate \notin {r.proposer, r.executor}
                   /\ d.revoked_at <= r.current_epoch => d.copied <= d.revoked_at
                   /\ r.revoked_at = d.revoked_at => r.current_epoch < d.revoked_at
            /\ ~receipt_in_force(r) /\ ValidFrom <= r.current_epoch =>
                   \A e \in r.current_epoch..MaxEpoch :
                       ~evaluate_authority_declaration_admission([r EXCEPT !.current_epoch = e])

(* The recovery receipt names who holds the fence, or it changed hands     *)
(* since.                                                                  *)
FenceOk ==
    /\ effects \in [Transaction -> [Domain -> {"none", "committed", "compensated"}]]
    /\ fence_receipt = [owner |-> fence_receipt.owner, superseded |-> fence_receipt.superseded]
    /\ fence_receipt.owner = fence \/ fence_receipt.superseded

(* What an effect d may be admitted for.                                   *)
Allowed(d) ==
    LET q == d.request
        done == d.effects[q.transaction]
    IN  /\ q.recovery.claimant = d.fence \/ d.superseded
        /\ q.outcome = "duplicate" => done[q.effect] # "none"
        /\ q.outcome \in {"rolled-back", "recovered"} =>
               \A e \in {q.observed[i] : i \in DOMAIN q.observed} \cup {q.effect} :
                   /\ \E i \in DOMAIN q.declared : q.declared[i].effect = e
                   /\ \A i \in DOMAIN q.declared : q.declared[i].effect = e =>
                          /\ q.declared[i].reversibility # "irreversible"
                          /\ q.declared[i].reversibility = "compensable" => done[e] = "compensated"
EffectOk == effect # << >> /\ effect[1].admitted => Allowed(effect[1])

CandidateOk ==
    candidate # << >> /\ candidate[1].admitted =>
        candidate[1].role_only_would_admit /\ candidate[1].request.issuer_kind # "ai-provider"

AdmissionInv == CopyOk /\ DeclarationOk /\ FenceOk /\ EffectOk /\ CandidateOk

(* Every declaration presented is a record with the copy at this epoch.    *)
LEMMA DeclarationIs ==
    ASSUME NEW r \in DeclarationRequests
    PROVE  /\ r.current_epoch = epoch /\ r.revoked_at = copy.revoked_at
           /\ DOMAIN r = DOMAIN DeclarationRequest
<1> DEFINE v == DeclarationRequest
           people == {"authority", "proposer", "candidate", "provider", Missing}
           People(p, a, x, q) == [v EXCEPT !.proposer = p, !.approver = a, !.executor = x, !.provider = q]
           Issuer(k, i) == [v EXCEPT !.issuer_kind = k, !.issuer = i, !.approver = i]
           A == {People(p, a, x, q) :
                    p \in people, a \in people, x \in people, q \in {"candidate", "provider"}}
           B == {Issuer(k, i) :
                    k \in {"human", "cedar", "lean", "ai-provider"}, i \in {"authority", "candidate", Missing}}
           C == {[v EXCEPT !.complete = FALSE], [v EXCEPT !.receipt_valid = FALSE],
                 [v EXCEPT !.receipt_id = Missing], [v EXCEPT !.receipt_act = "verification"],
                 [v EXCEPT !.receipt_subject = 2], [v EXCEPT !.delegation = FALSE],
                 [v EXCEPT !.responsibility = FALSE]}
           Is(q) == q.current_epoch = epoch /\ q.revoked_at = copy.revoked_at /\ DOMAIN q = DOMAIN v
<1>v. v = [complete |-> TRUE, issuer_kind |-> "human", receipt_valid |-> TRUE, receipt_id |-> "receipt",
           issuer |-> "authority", candidate |-> "candidate", provider |-> "candidate",
           act |-> "execution", receipt_act |-> "execution", subject |-> 1, receipt_subject |-> 1,
           current_epoch |-> epoch, revoked_at |-> copy.revoked_at,
           delegation |-> TRUE, responsibility |-> TRUE,
           proposer |-> "proposer", approver |-> "authority", executor |-> "executor"]
      BY DEF DeclarationRequest
<1>d. DeclarationRequests = A \cup B \cup C
      BY DEF DeclarationRequests
<1> HIDE DEF v
<1>1. ASSUME NEW p, NEW a, NEW x, NEW q PROVE Is(People(p, a, x, q))
      BY <1>v
<1>2. ASSUME NEW k, NEW i PROVE Is(Issuer(k, i))
      BY <1>v
<1>3. \A q \in C : Is(q)
      BY <1>v
<1> HIDE DEF Is, People, Issuer
<1>5. \A q \in A : Is(q)
      BY <1>1
<1>6. \A q \in B : Is(q)
      BY <1>2
<1> HIDE DEF A, B, C
<1>4. Is(r)
      BY <1>d, <1>3, <1>5, <1>6
<1> QED
    BY <1>4 DEF Is, v

(* Every effect requested is one of the first transaction, with receipts   *)
(* of what was done or with invalid ones, and with the recovery receipt    *)
(* that was taken or an invalid one.                                       *)
LEMMA EffectIs ==
    ASSUME NEW r \in EffectRequests
    PROVE  /\ r.transaction = 1 /\ r.effect = "motor"
           /\ r.prior_commits \subseteq Receipts({"committed", "compensated"}) \cup Invalid
           /\ r.compensations \subseteq Receipts({"compensated"}) \cup Invalid
           /\ r.recovery.valid => r.recovery.fence_owner = fence_receipt.owner
<1> DEFINE v == EffectRequest("recovered", Compensable, Own)
           Is(q) == /\ q.transaction = 1 /\ q.effect = "motor"
                    /\ q.prior_commits \subseteq Receipts({"committed", "compensated"}) \cup Invalid
                    /\ q.compensations \subseteq Receipts({"compensated"}) \cup Invalid
                    /\ q.recovery.valid => q.recovery.fence_owner = fence_receipt.owner
           Shaped(q) ==
              /\ q = [identified |-> q.identified, transaction |-> q.transaction, subject |-> q.subject,
                      effect |-> q.effect, outcome |-> q.outcome, authorization |-> q.authorization,
                      declared |-> q.declared, observed |-> q.observed,
                      prior_commits |-> q.prior_commits, compensations |-> q.compensations,
                      recovery |-> q.recovery]
              /\ q.recovery = [transaction |-> q.recovery.transaction, claimant |-> q.recovery.claimant,
                               fence_owner |-> q.recovery.fence_owner, phase |-> q.recovery.phase,
                               valid |-> q.recovery.valid]
<1>1. ASSUME NEW o, NEW h, NEW t, NEW c, NEW p
      PROVE  Is(EffectRequest(o, h, Recovery(t, c, p))) /\ Shaped(EffectRequest(o, h, Recovery(t, c, p)))
      BY DEF EffectRequest, Recovery
<1>2. \A q \in Plain : Is(q) /\ Shaped(q)
  <2> HIDE DEF Is, Shaped
  <2> QED
      BY <1>1 DEF Plain, Own
<1>3. Is(v) /\ Shaped(v)
  <2> HIDE DEF Is, Shaped
  <2> QED
      BY <1>1 DEF Own
<1>d. r \in Plain \cup {AlsoInvalid(q) : q \in Plain} \cup {OnlyInvalid(q) : q \in Plain}
              \cup Claims \cup {InvalidClaim(v, c) : c \in Claimant} \cup Cases(v)
      BY DEF EffectRequests
<1> HIDE DEF v
<1>4. ASSUME NEW q, Is(q), Shaped(q) PROVE Is(AlsoInvalid(q)) /\ Is(OnlyInvalid(q))
      BY <1>4 DEF AlsoInvalid, OnlyInvalid
<1>5. ASSUME NEW c PROVE Is(InvalidClaim(v, c))
      BY <1>3 DEF InvalidClaim
<1>6. Is([v EXCEPT !.identified = FALSE])
      BY <1>3
<1>7. Is([v EXCEPT !.authorization.valid = FALSE]) /\ Is([v EXCEPT !.authorization.subject = 2])
      BY <1>3
<1>8. Is([v EXCEPT !.authorization.effect = "audit"]) /\ Is([v EXCEPT !.authorization.authority = Missing])
      BY <1>3
<1>9. /\ Is([v EXCEPT !.declared = <<@[1], @[2], [effect |-> "audit", reversibility |-> "reversible"]>>])
      /\ Is([v EXCEPT !.declared = <<@[1]>>])
      BY <1>3
<1>10. /\ Is([v EXCEPT !.observed = <<"motor", "audit", "audit">>])
       /\ Is([v EXCEPT !.observed = <<"motor">>]) /\ Is([v EXCEPT !.observed = << >>])
       BY <1>3
<1>11. Is([v EXCEPT !.declared = <<@[2]>>, !.observed = <<"audit">>])
       BY <1>3
<1> HIDE DEF Is, Shaped
<1>12. \A q \in Plain : Is(q) /\ Is(AlsoInvalid(q)) /\ Is(OnlyInvalid(q))
       BY <1>2, <1>4
<1>13. \A q \in Claims : Is(q)
       BY <1>1 DEF Claims
<1>14. \A q \in Cases(v) : Is(q)
       BY <1>6, <1>7, <1>8, <1>9, <1>10, <1>11 DEF Cases
<1>15. Is(r)
       BY <1>d, <1>5, <1>12, <1>13, <1>14
<1> QED
    BY <1>15 DEF Is

(* At first nothing is presented and nothing revoked.                      *)
LEMMA AdmissionInitInv == AdmissionInit => AdmissionInv
BY EpochAssumption DEF AdmissionInit, AdmissionInv, CopyOk, DeclarationOk, FenceOk, EffectOk, CandidateOk, Never

(* A part of the invariant stays true while what it is about stays.        *)
LEMMA AdmissionKept ==
    /\ CopyOk /\ epoch' = epoch /\ revoked_at' = revoked_at /\ copy' = copy => CopyOk'
    /\ DeclarationOk /\ declaration' = declaration => DeclarationOk'
    /\ FenceOk /\ effects' = effects /\ fence' = fence /\ fence_receipt' = fence_receipt => FenceOk'
    /\ EffectOk /\ effect' = effect => EffectOk'
    /\ CandidateOk /\ candidate' = candidate => CandidateOk'
<1>1. CopyOk /\ epoch' = epoch /\ revoked_at' = revoked_at /\ copy' = copy => CopyOk'
      BY DEF CopyOk
<1>2. DeclarationOk /\ declaration' = declaration => DeclarationOk'
      BY Zenon DEF DeclarationOk
<1>3. FenceOk /\ effects' = effects /\ fence' = fence /\ fence_receipt' = fence_receipt => FenceOk'
      BY DEF FenceOk
<1>4. EffectOk /\ effect' = effect => EffectOk'
      BY DEF EffectOk
<1>5. CandidateOk /\ candidate' = candidate => CandidateOk'
      BY Zenon DEF CandidateOk
<1> QED
    BY <1>1, <1>2, <1>3, <1>4, <1>5

(* A declaration is admitted under what is in force by the copy presented. *)
LEMMA DeclareInv == ASSUME AdmissionInv, NEW r \in DeclarationRequests, declare(r) PROVE AdmissionInv'
<1>1. /\ declaration' = <<[request |-> r, admitted |-> evaluate_authority_declaration_admission(r),
                           revoked_at |-> revoked_at, copied |-> copy.taken]>>
      /\ UNCHANGED <<epoch, revoked_at, copy, effects, fence, fence_receipt, effect, candidate>>
      BY DEF declare
<1>2. CopyOk' /\ FenceOk' /\ EffectOk' /\ CandidateOk'
      BY <1>1, AdmissionKept DEF AdmissionInv
<1>3. /\ r.current_epoch = epoch /\ r.revoked_at = copy.revoked_at
      /\ DOMAIN r = DOMAIN DeclarationRequest
      BY DeclarationIs
<1>4. /\ epoch \in Nat /\ revoked_at \in Nat /\ copy.revoked_at \in Nat /\ copy.taken \in Nat /\ MaxEpoch \in Nat
      /\ copy.revoked_at = revoked_at \/ copy.taken <= revoked_at
      BY EpochAssumption DEF AdmissionInv, CopyOk
<1>5. ASSUME evaluate_authority_declaration_admission(r)
      PROVE  /\ r.issuer_kind = "human" /\ Cardinality({r.proposer, r.executor, r.issuer}) = 3
             /\ {r.candidate, r.provider} \cap {r.issuer} = {}
             /\ r.candidate \notin {r.proposer, r.executor}
             /\ revoked_at <= r.current_epoch => copy.taken <= revoked_at
             /\ r.revoked_at = revoked_at => r.current_epoch < revoked_at
  <2>1. actors_separate(r) /\ receipt_in_force(r) /\ r.issuer_kind = "human" /\ r.issuer \notin {r.candidate, r.provider}
        BY <1>5 DEF evaluate_authority_declaration_admission
  <2>2. {r.proposer, r.approver, r.executor} = {r.proposer, r.executor, r.issuer}
        BY <2>1 DEF actors_separate
  <2>3. Cardinality({r.proposer, r.executor, r.issuer}) = 3 /\ r.candidate \notin {r.proposer, r.executor}
        BY <2>1, <2>2 DEF actors_separate
  <2>4. ~(copy.revoked_at <= epoch)
        BY <1>3, <2>1 DEF receipt_in_force
  <2> QED
      BY <1>3, <1>4, <2>1, <2>3, <2>4
<1>6. ASSUME ~receipt_in_force(r), ValidFrom <= r.current_epoch, NEW e \in r.current_epoch..MaxEpoch
      PROVE  ~evaluate_authority_declaration_admission([r EXCEPT !.current_epoch = e])
  <2> DEFINE q == [r EXCEPT !.current_epoch = e]
  <2>1. "current_epoch" \in DOMAIN r /\ "revoked_at" \in DOMAIN r
        BY <1>3 DEF DeclarationRequest
  <2>2. q.current_epoch = e /\ q.revoked_at = r.revoked_at
        BY <2>1
  <2>3. ~receipt_in_force(q)
        BY <1>3, <1>4, <1>6, <2>2 DEF receipt_in_force, ValidFrom, ValidUntil
  <2> QED
      BY <2>3 DEF evaluate_authority_declaration_admission
<1>7. DeclarationOk'
  <2> DEFINE d == [request |-> r, admitted |-> evaluate_authority_declaration_admission(r),
                   revoked_at |-> revoked_at, copied |-> copy.taken]
  <2>1. declaration'[1] = d
        BY <1>1
  <2>2. d.request = r /\ d.admitted = evaluate_authority_declaration_admission(r)
        /\ d.revoked_at = revoked_at /\ d.copied = copy.taken
        OBVIOUS
  <2> HIDE DEF d
  <2> QED
      BY <1>5, <1>6, <2>1, <2>2 DEF DeclarationOk
<1> QED
    BY <1>2, <1>7 DEF AdmissionInv

(* An effect is admitted for what its own transaction did.                 *)
LEMMA EffectInv == ASSUME AdmissionInv, NEW r \in EffectRequests, request_effect(r) PROVE AdmissionInv'
<1>1. /\ effect' = <<[request |-> r, admitted |-> evaluate_constrained_effect(r), effects |-> effects,
                      fence |-> fence, superseded |-> fence_receipt.superseded]>>
      /\ UNCHANGED <<epoch, revoked_at, copy, declaration, effects, fence, fence_receipt, candidate>>
      BY DEF request_effect
<1>2. CopyOk' /\ DeclarationOk' /\ FenceOk' /\ CandidateOk'
      BY <1>1, AdmissionKept DEF AdmissionInv
<1>3. /\ r.transaction = 1 /\ r.effect = "motor"
      /\ r.prior_commits \subseteq Receipts({"committed", "compensated"}) \cup Invalid
      /\ r.compensations \subseteq Receipts({"compensated"}) \cup Invalid
      /\ r.recovery.valid => r.recovery.fence_owner = fence_receipt.owner
      BY EffectIs
<1>4. ASSUME NEW done, NEW c \in Receipts(done) \cup Invalid, c.valid, c.transaction = 1
      PROVE  effects[1][c.effect] \in done
  <2>1. \A p \in Invalid : ~p.valid
        BY DEF Invalid, Receipt
  <2>2. PICK p \in Transaction \X Domain : effects[p[1]][p[2]] \in done /\ c = Receipt(p, TRUE)
        BY <1>4, <2>1 DEF Receipts
  <2> QED
      BY <1>4, <2>2 DEF Receipt
<1>5. ASSUME evaluate_constrained_effect(r)
      PROVE  /\ r.recovery.claimant = fence \/ fence_receipt.superseded
             /\ r.outcome = "duplicate" => effects[r.transaction][r.effect] # "none"
             /\ r.outcome \in {"rolled-back", "recovered"} =>
                    \A e \in {r.observed[i] : i \in DOMAIN r.observed} \cup {r.effect} :
                        /\ \E i \in DOMAIN r.declared : r.declared[i].effect = e
                        /\ \A i \in DOMAIN r.declared : r.declared[i].effect = e =>
                               /\ r.declared[i].reversibility # "irreversible"
                               /\ r.declared[i].reversibility = "compensable" =>
                                      effects[r.transaction][e] = "compensated"
  <2>1. r.recovery.claimant = fence \/ fence_receipt.superseded
        BY <1>3, <1>5 DEF evaluate_constrained_effect, AdmissionInv, FenceOk
  <2>2. ASSUME r.outcome = "duplicate" PROVE effects[r.transaction][r.effect] # "none"
    <3>1. PICK p \in r.prior_commits : p.valid /\ p.transaction = 1 /\ p.effect = r.effect
          BY <1>3, <1>5, <2>2 DEF evaluate_constrained_effect, has_valid_prior_commit
    <3>2. effects[1][p.effect] \in {"committed", "compensated"}
          BY <1>3, <1>4, <3>1
    <3> QED
        BY <1>3, <3>1, <3>2
  <2>3. \A e \in {r.observed[i] : i \in DOMAIN r.observed} \cup {r.effect} :
            \E i \in DOMAIN r.declared : r.declared[i].effect = e
        BY <1>5 DEF evaluate_constrained_effect, domain_covered
  <2>4. ASSUME r.outcome \in {"rolled-back", "recovered"}, NEW i \in DOMAIN r.declared
        PROVE  /\ r.declared[i].reversibility # "irreversible"
               /\ r.declared[i].reversibility = "compensable" =>
                      effects[r.transaction][r.declared[i].effect] = "compensated"
    <3> DEFINE e == r.declared[i].effect
    <3>1. /\ r.declared[i].reversibility # "irreversible"
          /\ r.declared[i].reversibility = "compensable" => has_valid_compensation(r, e)
          BY <1>5, <2>4 DEF evaluate_constrained_effect
    <3>2. ASSUME has_valid_compensation(r, e) PROVE effects[1][e] = "compensated"
      <4>1. PICK c \in r.compensations : c.valid /\ c.transaction = 1 /\ c.effect = e
            BY <1>3, <3>2 DEF has_valid_compensation
      <4>2. effects[1][c.effect] \in {"compensated"}
            BY <1>3, <1>4, <4>1
      <4> QED
          BY <4>1, <4>2
    <3> QED
        BY <1>3, <3>1, <3>2
  <2> QED
      BY <2>1, <2>2, <2>3, <2>4
<1>6. EffectOk'
  <2> DEFINE d == [request |-> r, admitted |-> evaluate_constrained_effect(r), effects |-> effects,
                   fence |-> fence, superseded |-> fence_receipt.superseded]
  <2>1. effect'[1] = d
        BY <1>1
  <2>2. /\ d.request = r /\ d.admitted = evaluate_constrained_effect(r) /\ d.effects = effects
        /\ d.fence = fence /\ d.superseded = fence_receipt.superseded
        OBVIOUS
  <2> HIDE DEF d
  <2> QED
      BY <1>5, <2>1, <2>2 DEF EffectOk, Allowed
<1> QED
    BY <1>2, <1>6 DEF AdmissionInv

(* A candidate is admitted by its grants and not by a provider.            *)
LEMMA CandidateInv == ASSUME AdmissionInv, NEW r, present_candidate(r) PROVE AdmissionInv'
<1>1. CopyOk' /\ DeclarationOk' /\ FenceOk' /\ EffectOk'
      BY AdmissionKept DEF present_candidate, AdmissionInv
<1>2. CandidateOk'
      BY DEF present_candidate, CandidateOk, evaluate_provider_admission, role_only_admission
<1> QED
    BY <1>1, <1>2 DEF AdmissionInv

(* The world moves on: a revocation is not before the epoch of its day.    *)
LEMMA WorldInv ==
    ASSUME AdmissionInv,
           \/ advance_epoch \/ take_copy \/ \E at \in 0..MaxEpoch : revoke(at)
           \/ take_recovery \/ \E c \in {"c1", "c2"} : claim_fence(c)
    PROVE  AdmissionInv'
<1> USE EpochAssumption DEF AdmissionInv
<1>1. UNCHANGED <<declaration, effects, effect, candidate>>
      BY DEF advance_epoch, take_copy, revoke, claim_fence, take_recovery
<1>2. DeclarationOk' /\ EffectOk' /\ CandidateOk'
      BY <1>1, AdmissionKept
<1>f. advance_epoch \/ take_copy \/ (\E at \in 0..MaxEpoch : revoke(at)) => FenceOk'
      BY AdmissionKept DEF advance_epoch, take_copy, revoke
<1>3. CASE advance_epoch
  <2>1. CopyOk'
        BY <1>3 DEF advance_epoch, CopyOk
  <2> QED
      BY <1>2, <1>3, <1>f, <2>1
<1>4. CASE take_copy
  <2>1. CopyOk'
        BY <1>4 DEF take_copy, CopyOk
  <2> QED
      BY <1>2, <1>4, <1>f, <2>1
<1>5. ASSUME NEW at \in 0..MaxEpoch, revoke(at) PROVE AdmissionInv'
  <2>1. CopyOk'
        BY <1>5 DEF revoke, CopyOk
  <2> QED
      BY <1>2, <1>5, <1>f, <2>1
<1>6. ASSUME take_recovery \/ \E c \in {"c1", "c2"} : claim_fence(c) PROVE AdmissionInv'
  <2>1. CopyOk'
        BY <1>6, AdmissionKept DEF take_recovery, claim_fence
  <2>2. fence_receipt'.superseded \/ fence_receipt'.owner = fence'
        BY <1>6 DEF take_recovery, claim_fence, FenceOk
  <2>3. fence_receipt' = [owner |-> fence_receipt'.owner, superseded |-> fence_receipt'.superseded]
        BY <1>6 DEF take_recovery, claim_fence, FenceOk
  <2>4. FenceOk'
        BY <1>1, <2>2, <2>3 DEF FenceOk
  <2> QED
      BY <1>2, <2>1, <2>4
<1> QED
    BY <1>3, <1>4, <1>5, <1>6

(* Effects are committed and compensated.                                  *)
LEMMA DoneInv ==
    ASSUME AdmissionInv, NEW t \in Transaction, NEW e \in Domain, commit_effect(t, e) \/ compensate(t, e)
    PROVE  AdmissionInv'
<1>1. UNCHANGED <<epoch, revoked_at, copy, declaration, fence, fence_receipt, effect, candidate>>
      BY DEF commit_effect, compensate
<1>2. CopyOk' /\ DeclarationOk' /\ CandidateOk'
      BY <1>1, AdmissionKept DEF AdmissionInv
<1>3. FenceOk /\ EffectOk
      BY DEF AdmissionInv
<1>4. \E how \in {"committed", "compensated"} : effects' = [effects EXCEPT ![t][e] = how]
      BY DEF commit_effect, compensate
<1>5. effects' \in [Transaction -> [Domain -> {"none", "committed", "compensated"}]]
      BY <1>3, <1>4 DEF FenceOk
<1>6. FenceOk'
      BY <1>1, <1>3, <1>5 DEF FenceOk
<1>7. EffectOk'
      BY <1>1, <1>3, AdmissionKept
<1> QED
    BY <1>2, <1>6, <1>7 DEF AdmissionInv

(* Every step of the world and of the gates.                               *)
LEMMA AdmissionStepInv ==
    AdmissionInv /\ [DeclarationNext \/ EffectNext \/ CandidateNext]_admission => AdmissionInv'
<1> SUFFICES ASSUME AdmissionInv, [DeclarationNext \/ EffectNext \/ CandidateNext]_admission
             PROVE  AdmissionInv'
    OBVIOUS
<1>1. CASE DeclarationNext
      BY <1>1, WorldInv, DeclareInv DEF DeclarationNext
<1>2. CASE EffectNext
      BY <1>2, WorldInv, DoneInv, EffectInv DEF EffectNext
<1>3. CASE CandidateNext
      BY <1>3, CandidateInv DEF CandidateNext
<1>4. CASE UNCHANGED admission
      BY <1>4, AdmissionKept DEF admission, AdmissionInv
<1> QED
    BY <1>1, <1>2, <1>3, <1>4

(* For any validity and any course of epochs, revocations, copies, effects *)
(* and claims, and whatever invalid receipts are presented: what the gates *)
(* admit rests on an authority in force and a fence held as far as the     *)
(* copies presented can tell, on what the transaction itself did of what   *)
(* was declared, and never on a provider.                                  *)
THEOREM AdmittedRightly == AdmissionSpec => []AdmissionSound
<1>1. AdmissionInv => AdmissionSound
      BY DEF AdmissionInv, DeclarationOk, EffectOk, Allowed, CandidateOk, AdmissionSound
<1> QED
    BY <1>1, AdmissionInitInv, AdmissionStepInv, PTL DEF AdmissionSpec

-----------------------------------------------------------------------------
(* Action traces. *)

(* Of places in a sequence one is the last.                                *)
LEMMA LastPlace ==
    ASSUME NEW n \in Nat, NEW S \in SUBSET (1..n), S # {}
    PROVE  Max(S) \in S /\ \A y \in S : y <= Max(S)
<1> DEFINE T == {n - x : x \in S}
<1>0. \A x \in S : n - x \in Nat
      OBVIOUS
<1>1. T \subseteq Nat /\ T # {}
      BY <1>0
<1>2. PICK m \in T : \A y \in T : m <= y
      BY <1>1, LeastNat
<1>3. PICK x \in S : m = n - x
      OBVIOUS
<1>4. \A y \in S : x >= y
  <2> TAKE y \in S
  <2>1. n - y \in T
        OBVIOUS
  <2>2. n - x <= n - y
        BY <1>2, <1>3, <2>1
  <2>3. x \in Nat /\ y \in Nat
        OBVIOUS
  <2> QED
      BY <2>2, <2>3
<1>5. Max(S) \in S /\ \A y \in S : Max(S) >= y
      BY <1>4 DEF Max
<1>6. \A y \in S : y \in Nat
      OBVIOUS
<1> QED
    BY <1>5, <1>6

IsEnvelope(e) ==
    /\ DOMAIN e = {"exact", "canonical", "action", "tool", "capability", "domain", "requested",
                   "allowed", "parent", "root"}
    /\ e.action \in {1, 2}
IsPolicy(p) ==
    p = [granted |-> p.granted, tool |-> p.tool, domains |-> p.domains, parent |-> p.parent, root |-> p.root]

(* A receipt is what the transition gives of its envelope under its policy. *)
EntryOk(r) ==
    /\ IsEnvelope(r.envelope) /\ IsPolicy(r.policy)
    /\ r.receipt = execute_reference_transition(r.envelope, r.policy)

(* An accepted receipt follows the one accepted before it.                 *)
Follows(t, i) ==
    LET e      == t[i].envelope
        before == {j \in Accepted(t) : j < i}
    IN  /\ e.requested \subseteq e.allowed
        /\ before = {} => e.parent = Absent
        /\ \A j \in before :
               (\A k \in before : k <= j) =>
                   e.parent = <<t[j].envelope.action>> /\ e.root = <<t[j].receipt.trace_root>>

TraceOk ==
    /\ trace \in Seq({trace[i] : i \in DOMAIN trace})
    /\ \A p \in proposals : IsEnvelope(p)
    /\ \A i \in DOMAIN trace : EntryOk(trace[i])
    /\ \A i \in Accepted(trace) : Follows(trace, i)

ReplayOk ==
    replay.of # 0 =>
        LET r == trace[replay.of]
        IN  /\ replay.drifted => replay.ended = "raised"
            /\ r.receipt.decision = "accepted" /\ ~replay.drifted =>
                   (replay.ended = "replayed" <=> r.envelope.capability \in replay.policy.granted)

Authorities == {"replayer", "issuer", "log"}

EvidenceOk ==
    /\ evidence.ended # "none" =>
           /\ evidence.up \in SUBSET Authorities
           /\ evidence = [ended |-> evidence.ended, request |-> evidence.request, up |-> evidence.up,
                          again |-> evidence.again, receipt |-> evidence.receipt]
           /\ evidence.receipt = verify(evidence.request, evidence.up)
    /\ evidence.ended = "replayed" =>
           /\ evidence.again \in SUBSET Authorities
           /\ verify(evidence.request, evidence.again) = evidence.receipt
    /\ evidence.ended = "raised" => verify(evidence.request, evidence.again) # evidence.receipt

TraceInv == TraceOk /\ ReplayOk /\ EvidenceOk

(* What the transition decides, and what its receipt holds.                *)
LEMMA TransitionIs ==
    ASSUME NEW e, NEW p
    PROVE  LET c == <<e.capability \in p.granted, e.tool = p.tool,
                      e.domain \in p.domains /\ e.requested \subseteq e.allowed, causal_continuity(e, p)>>
               r == execute_reference_transition(e, p)
           IN  /\ r.decision \in {"accepted", "fail-closed"}
               /\ r.decision = "accepted" <=>
                      /\ e.capability \in p.granted /\ e.tool = p.tool
                      /\ e.domain \in p.domains /\ e.requested \subseteq e.allowed
                      /\ causal_continuity(e, p)
               /\ r.trace_root.envelope = e
               /\ r = [envelope_digest |-> e, decision |-> r.decision, invariants |-> c,
                       output_digest |-> [decision |-> r.decision, invariants |-> c],
                       trace_root |-> [envelope |-> e, parent |-> e.root,
                                       output |-> [decision |-> r.decision, invariants |-> c]]]
<1> DEFINE a == e.capability \in p.granted
           b == e.tool = p.tool
           d == e.domain \in p.domains /\ e.requested \subseteq e.allowed
           f == causal_continuity(e, p)
           c == <<a, b, d, f>>
           r == execute_reference_transition(e, p)
           decision == IF \A i \in DOMAIN c : c[i] THEN "accepted" ELSE "fail-closed"
<1>1. r = [envelope_digest |-> e, decision |-> decision, invariants |-> c,
           output_digest |-> [decision |-> decision, invariants |-> c],
           trace_root |-> [envelope |-> e, output |-> [decision |-> decision, invariants |-> c],
                           parent |-> e.root]]
      BY DEF execute_reference_transition, envelope_digest
<1> HIDE DEF a, b, d, f
<1>2. DOMAIN c = {1, 2, 3, 4} /\ c[1] = a /\ c[2] = b /\ c[3] = d /\ c[4] = f
      OBVIOUS
<1>3. (\A i \in DOMAIN c : c[i]) <=> a /\ b /\ d /\ f
      BY <1>2
<1> HIDE DEF c
<1>4. decision \in {"accepted", "fail-closed"} /\ (decision = "accepted" <=> a /\ b /\ d /\ f)
      BY <1>3
<1> HIDE DEF decision, r
<1>5. r.decision = decision /\ r.trace_root.envelope = e
      BY <1>1
<1>6. r = [envelope_digest |-> e, decision |-> r.decision, invariants |-> c,
           output_digest |-> [decision |-> r.decision, invariants |-> c],
           trace_root |-> [envelope |-> e, parent |-> e.root,
                           output |-> [decision |-> r.decision, invariants |-> c]]]
      BY <1>1, <1>5
<1> QED
    BY <1>4, <1>5, <1>6 DEF a, b, c, d, f, r

(* At first nothing is recorded.                                           *)
LEMMA TracingInitInv == TracingInit => TraceInv
BY DEF TracingInit, TraceInv, TraceOk, ReplayOk, EvidenceOk, Accepted

(* Proposals are envelopes in shape, with one of two names.                *)
LEMMA ProposeInv == ASSUME TraceInv, NEW a \in 1..2, propose(a) PROVE TraceInv'
<1>1. UNCHANGED <<granted, trace, replay, evidence>>
      BY DEF propose
<1>2. PICK p \in Projections(a, HeadOf(trace)) : proposals' = proposals \cup {p}
      BY DEF propose
<1>3. IsEnvelope(p)
  <2> DEFINE v == Projection(a, HeadOf(trace))
  <2>1. IsEnvelope(v)
        BY DEF Projection, IsEnvelope
  <2>2. p \in {v, [v EXCEPT !.exact = FALSE], [v EXCEPT !.canonical = FALSE], [v EXCEPT !.capability = Null],
               [v EXCEPT !.tool = "spoofed"], [v EXCEPT !.domain = "network"],
               [v EXCEPT !.requested = {"egress"}], [v EXCEPT !.root = Absent]}
        BY <1>2 DEF Projections
  <2> HIDE DEF v
  <2>3. /\ IsEnvelope([v EXCEPT !.exact = FALSE]) /\ IsEnvelope([v EXCEPT !.canonical = FALSE])
        /\ IsEnvelope([v EXCEPT !.capability = Null]) /\ IsEnvelope([v EXCEPT !.tool = "spoofed"])
        BY <2>1 DEF IsEnvelope
  <2>4. /\ IsEnvelope([v EXCEPT !.domain = "network"]) /\ IsEnvelope([v EXCEPT !.requested = {"egress"}])
        /\ IsEnvelope([v EXCEPT !.root = Absent])
        BY <2>1 DEF IsEnvelope
  <2> QED
      BY <2>1, <2>2, <2>3, <2>4
<1>4. ReplayOk' /\ EvidenceOk'
      BY <1>1 DEF TraceInv, ReplayOk, EvidenceOk
<1>5. TraceOk'
      BY <1>1, <1>2, <1>3 DEF TraceInv, TraceOk
<1> QED
    BY <1>4, <1>5 DEF TraceInv

(* A receipt is recorded under the policy that names the last accepted one. *)
LEMMA SubmitInv == ASSUME TraceInv, replay.of = 0, NEW p \in proposals, submit(p) PROVE TraceInv'
<1> DEFINE policy == Policy(HeadOf(trace))
           e == [p EXCEPT !.capability = Str(@)]
           entry == [envelope |-> e, policy |-> policy, receipt |-> execute_reference_transition(e, policy)]
           n == Len(trace)
<1>1. trace' = Append(trace, entry) /\ UNCHANGED <<proposals, granted, replay, evidence>>
      BY DEF submit, envelope_from_scheme_projection, Absent
<1>2. IsEnvelope(e)
  <2>1. IsEnvelope(p)
        BY DEF TraceInv, TraceOk
  <2> QED
      BY <2>1 DEF IsEnvelope
<1>3. IsPolicy(policy) /\ policy.parent = HeadOf(trace).parent /\ policy.root = HeadOf(trace).root
      BY DEF IsPolicy, Policy
<1>4. /\ entry.envelope = e /\ entry.policy = policy
      /\ entry.receipt = execute_reference_transition(e, policy)
      OBVIOUS
<1> HIDE DEF e, policy, entry
<1>5. EntryOk(entry)
      BY <1>2, <1>3, <1>4 DEF EntryOk
<1>6. /\ n \in Nat /\ DOMAIN trace = 1..n /\ DOMAIN trace' = 1..(n + 1) /\ trace'[n + 1] = entry
      /\ \A i \in 1..n : trace'[i] = trace[i]
      /\ trace' \in Seq({trace'[i] : i \in DOMAIN trace'})
  <2> DEFINE V == {trace[i] : i \in DOMAIN trace} \cup {entry}
  <2>1. trace \in Seq(V)
        BY DEF TraceInv, TraceOk
  <2> HIDE DEF V
  <2>2. entry \in V
        BY DEF V
  <2>3. /\ n \in Nat /\ DOMAIN trace = 1..n /\ DOMAIN trace' = 1..(n + 1) /\ trace'[n + 1] = entry
        /\ \A i \in 1..n : trace'[i] = trace[i] /\ trace' \in Seq(V) /\ Len(trace') = n + 1
        BY <1>1, <2>1, <2>2
  <2>4. trace' \in Seq({trace'[i] : i \in DOMAIN trace'})
        BY <1>1, <2>1, <2>2
  <2> QED
      BY <2>3, <2>4
<1>7. Accepted(trace) \in SUBSET (1..n) /\ \A i \in 1..n : i \in Accepted(trace)' <=> i \in Accepted(trace)
      BY <1>6 DEF Accepted
<1>8. \A i \in Accepted(trace)' : i \in 1..n \/ i = n + 1
      BY <1>6 DEF Accepted
<1>9. ASSUME NEW i \in 1..(n + 1) PROVE {j \in Accepted(trace)' : j < i} = {j \in Accepted(trace) : j < i}
  <2>1. \A j \in Accepted(trace)' : j < i => j \in 1..n
        BY <1>6, <1>8
  <2> QED
      BY <1>7, <2>1
<1>10. {j \in Accepted(trace) : j < n + 1} = Accepted(trace)
      BY <1>6, <1>7
<1>11. ASSUME NEW i \in Accepted(trace)', i \in 1..n PROVE Follows(trace', i)
  <2>1. Follows(trace, i)
        BY <1>7, <1>11 DEF TraceInv, TraceOk
  <2>2. {j \in Accepted(trace') : j < i} = {j \in Accepted(trace) : j < i}
        BY <1>6, <1>9, <1>11
  <2>3. \A j \in {k \in Accepted(trace) : k < i} : trace'[j] = trace[j]
        BY <1>6, <1>7
  <2> QED
      BY <1>6, <1>11, <2>1, <2>2, <2>3 DEF Follows
<1>12. ASSUME n + 1 \in Accepted(trace)' PROVE Follows(trace', n + 1)
  <2>1. entry.receipt.decision = "accepted"
        BY <1>6, <1>12 DEF Accepted
  <2>2. e.requested \subseteq e.allowed /\ causal_continuity(e, policy)
        BY <1>4, <2>1, TransitionIs
  <2>3. e.parent = HeadOf(trace).parent /\ e.root = HeadOf(trace).root
        BY <1>3, <2>2 DEF causal_continuity
  <2>4. {j \in Accepted(trace') : j < n + 1} = Accepted(trace)
        BY <1>6, <1>9, <1>10
  <2>5. Accepted(trace) = {} => e.parent = Absent
        BY <2>3 DEF HeadOf
  <2>6. ASSUME NEW j \in Accepted(trace), \A k \in Accepted(trace) : k <= j
        PROVE  e.parent = <<trace'[j].envelope.action>> /\ e.root = <<trace'[j].receipt.trace_root>>
    <3>1. Max(Accepted(trace)) \in Accepted(trace) /\ j <= Max(Accepted(trace)) /\ Max(Accepted(trace)) <= j
          BY <1>6, <1>7, <2>6, LastPlace
    <3>2. Max(Accepted(trace)) = j
          BY <1>6, <1>7, <3>1
    <3>3. trace'[j] = trace[j]
          BY <1>6, <1>7
    <3> QED
        BY <2>3, <3>2, <3>3 DEF HeadOf
  <2> QED
      BY <1>4, <1>6, <2>2, <2>4, <2>5, <2>6 DEF Follows
<1>13. TraceOk'
  <2>1. \A i \in DOMAIN trace' : EntryOk(trace'[i])
    <3>1. \A i \in 1..n : EntryOk(trace[i])
          BY <1>6 DEF TraceInv, TraceOk
    <3> QED
        BY <1>5, <1>6, <3>1
  <2>2. \A i \in Accepted(trace') : Follows(trace', i)
        BY <1>8, <1>11, <1>12
  <2> QED
      BY <1>1, <1>6, <2>1, <2>2 DEF TraceInv, TraceOk
<1>14. ReplayOk' /\ EvidenceOk'
      BY <1>1 DEF TraceInv, ReplayOk, EvidenceOk
<1> QED
    BY <1>13, <1>14 DEF TraceInv

(* Accepting leaves nothing to choose: the receipt is the same under any   *)
(* policy that accepts.                                                    *)
LEMMA AcceptedAlike ==
    ASSUME NEW e, NEW p, NEW q,
           execute_reference_transition(e, p).decision = "accepted",
           execute_reference_transition(e, q).decision = "accepted"
    PROVE  execute_reference_transition(e, p) = execute_reference_transition(e, q)
<1> DEFINE c(x) == <<e.capability \in x.granted, e.tool = x.tool,
                     e.domain \in x.domains /\ e.requested \subseteq e.allowed, causal_continuity(e, x)>>
           all == <<TRUE, TRUE, TRUE, TRUE>>
           accepted(i) == [envelope_digest |-> e, decision |-> "accepted", invariants |-> i,
                           output_digest |-> [decision |-> "accepted", invariants |-> i],
                           trace_root |-> [envelope |-> e, parent |-> e.root,
                                           output |-> [decision |-> "accepted", invariants |-> i]]]
<1>1. ASSUME NEW x, execute_reference_transition(e, x).decision = "accepted"
      PROVE  execute_reference_transition(e, x) = accepted(all)
  <2>1. /\ (e.capability \in x.granted) = TRUE /\ (e.tool = x.tool) = TRUE
        /\ (e.domain \in x.domains /\ e.requested \subseteq e.allowed) = TRUE
        /\ causal_continuity(e, x) = TRUE
        BY <1>1, TransitionIs DEF causal_continuity
  <2>2. c(x) = all
        BY ONLY <2>1, Zenon
  <2>3. execute_reference_transition(e, x) = accepted(c(x))
        BY <1>1, TransitionIs
  <2> QED
      BY ONLY <2>2, <2>3, Zenon
<1> QED
    BY <1>1

(* A receipt that drifted names another action.                            *)
LEMMA DriftedRoot ==
    ASSUME NEW e, NEW p, IsEnvelope(e)
    PROVE  Kept(execute_reference_transition(e, p), TRUE).trace_root.envelope.action = 0
<1> DEFINE c == <<e.capability \in p.granted, e.tool = p.tool,
                  e.domain \in p.domains /\ e.requested \subseteq e.allowed, causal_continuity(e, p)>>
           r == execute_reference_transition(e, p)
           d == r.decision
<1>1. r = [envelope_digest |-> e, decision |-> d, invariants |-> c,
           output_digest |-> [decision |-> d, invariants |-> c],
           trace_root |-> [envelope |-> e, parent |-> e.root, output |-> [decision |-> d, invariants |-> c]]]
      BY TransitionIs
<1>2. "action" \in DOMAIN e
      BY DEF IsEnvelope
<1> HIDE DEF c, d, r
<1>3. Kept(r, TRUE).trace_root.envelope.action = 0
      BY <1>1, <1>2 DEF Kept
<1> QED
    BY <1>3 DEF r

(* A replay compares a transition with a record of one.                    *)
LEMMA ReplayInv ==
    ASSUME TraceInv, trace # << >>, NEW today \in BOOLEAN, NEW drifted \in BOOLEAN,
           replay_reference_transition(Len(trace), today, drifted)
    PROVE  TraceInv'
<1> DEFINE n == Len(trace)
           r == trace[n]
           policy == IF today THEN [r.policy EXCEPT !.granted = granted] ELSE r.policy
           again == execute_reference_transition(r.envelope, policy)
           ended == IF again = Kept(r.receipt, drifted) THEN "replayed" ELSE "raised"
<1>1. /\ replay' = [of |-> n, policy |-> policy, drifted |-> drifted, ended |-> ended]
      /\ UNCHANGED <<proposals, granted, trace, evidence>>
      BY DEF replay_reference_transition
<1>2. EntryOk(r)
  <2>1. n \in DOMAIN trace
        BY DEF TraceInv, TraceOk
  <2> QED
      BY <2>1 DEF TraceInv, TraceOk
<1>3. r.receipt = execute_reference_transition(r.envelope, r.policy) /\ IsPolicy(r.policy) /\ IsEnvelope(r.envelope)
      BY <1>2 DEF EntryOk
<1> HIDE DEF n, r
<1>4. /\ policy.tool = r.policy.tool /\ policy.domains = r.policy.domains
      /\ policy.parent = r.policy.parent /\ policy.root = r.policy.root
      BY <1>3 DEF IsPolicy
<1> HIDE DEF policy
<1>5. drifted => ended = "raised"
  <2> SUFFICES ASSUME drifted PROVE again # Kept(r.receipt, drifted)
      OBVIOUS
  <2>1. again.trace_root.envelope.action \in {1, 2}
        BY <1>3, TransitionIs DEF IsEnvelope
  <2>2. Kept(r.receipt, drifted).trace_root.envelope.action = 0
        BY <1>3, DriftedRoot DEF Kept
  <2>3. again.trace_root.envelope.action # 0
        BY <2>1
  <2> QED
      BY ONLY <2>2, <2>3, Zenon
<1>6. r.receipt.decision = "accepted" /\ ~drifted =>
          (ended = "replayed" <=> r.envelope.capability \in policy.granted)
  <2> SUFFICES ASSUME r.receipt.decision = "accepted", ~drifted
               PROVE  again = r.receipt <=> r.envelope.capability \in policy.granted
      BY DEF Kept
  <2>1. again.decision = "accepted" <=> r.envelope.capability \in policy.granted
    <3>1. /\ r.envelope.tool = r.policy.tool /\ r.envelope.domain \in r.policy.domains
          /\ r.envelope.requested \subseteq r.envelope.allowed /\ causal_continuity(r.envelope, r.policy)
          BY <1>3, TransitionIs
    <3>2. causal_continuity(r.envelope, policy)
          BY <1>4, <3>1 DEF causal_continuity
    <3> QED
        BY <1>4, <3>1, <3>2, TransitionIs
  <2>2. again.decision = "accepted" => again = r.receipt
        BY <1>3, AcceptedAlike
  <2> HIDE DEF again
  <2> QED
      BY <2>1, <2>2
<1> HIDE DEF ended
<1>7. ReplayOk'
      BY <1>1, <1>5, <1>6 DEF ReplayOk, r
<1>8. TraceOk' /\ EvidenceOk'
      BY <1>1 DEF TraceInv, TraceOk, EvidenceOk
<1> QED
    BY <1>7, <1>8 DEF TraceInv

(* Verifying evidence, and verifying it once more.                         *)
LEMMA VerifyEvidenceInv ==
    ASSUME TraceInv, NEW q \in EvidenceRequests, NEW up \in SUBSET Authorities, verify_evidence(q, up)
    PROVE  TraceInv'
<1>1. /\ evidence' = [ended |-> "receipt", request |-> q, up |-> up, again |-> {}, receipt |-> verify(q, up)]
      /\ UNCHANGED <<proposals, granted, trace, replay>>
      BY DEF verify_evidence
<1>2. EvidenceOk'
      BY <1>1 DEF EvidenceOk
<1>3. TraceOk' /\ ReplayOk'
      BY <1>1 DEF TraceInv, TraceOk, ReplayOk
<1> QED
    BY <1>2, <1>3 DEF TraceInv

LEMMA ReplayEvidenceInv ==
    ASSUME TraceInv, NEW up \in SUBSET Authorities, replay_evidence(up)
    PROVE  TraceInv'
<1> DEFINE same == verify(evidence.request, up) = evidence.receipt
<1>1. /\ evidence.ended = "receipt" /\ UNCHANGED <<proposals, granted, trace, replay>>
      /\ evidence' = [evidence EXCEPT !.again = up, !.ended = IF same THEN "replayed" ELSE "raised"]
      BY DEF replay_evidence
<1>2. /\ evidence = [ended |-> evidence.ended, request |-> evidence.request, up |-> evidence.up,
                     again |-> evidence.again, receipt |-> evidence.receipt]
      /\ evidence.up \in SUBSET Authorities /\ evidence.receipt = verify(evidence.request, evidence.up)
      BY <1>1 DEF TraceInv, EvidenceOk
<1>3. /\ evidence'.request = evidence.request /\ evidence'.up = evidence.up
      /\ evidence'.receipt = evidence.receipt /\ evidence'.again = up
      /\ evidence'.ended = (IF same THEN "replayed" ELSE "raised")
      /\ evidence' = [ended |-> evidence'.ended, request |-> evidence'.request, up |-> evidence'.up,
                      again |-> evidence'.again, receipt |-> evidence'.receipt]
      BY <1>1, <1>2
<1>4. EvidenceOk'
      BY <1>2, <1>3 DEF EvidenceOk
<1>5. TraceOk' /\ ReplayOk'
      BY <1>1 DEF TraceInv, TraceOk, ReplayOk
<1> QED
    BY <1>4, <1>5 DEF TraceInv

LEMMA TracingStep == TraceInv /\ [TracingNext]_acting => TraceInv'
<1> SUFFICES ASSUME TraceInv, [TracingNext]_acting PROVE TraceInv'
    OBVIOUS
<1>1. CASE \E a \in 1..2 : propose(a)
      BY <1>1, ProposeInv
<1>2. CASE \E g \in {Capability, {"repo-read"}} : change_grants(g)
  <2>1. UNCHANGED <<proposals, trace, replay, evidence>>
        BY <1>2 DEF change_grants
  <2> QED
      BY <2>1 DEF TraceInv, TraceOk, ReplayOk, EvidenceOk
<1>3. CASE replay.of = 0 /\ \E p \in proposals : submit(p)
      BY <1>3, SubmitInv
<1>4. CASE \E t, d \in BOOLEAN : trace # << >> /\ replay_reference_transition(Len(trace), t, d)
      BY <1>4, ReplayInv
<1>5. CASE \E q \in EvidenceRequests, up \in SUBSET {"replayer", "issuer", "log"} : verify_evidence(q, up)
      BY <1>5, VerifyEvidenceInv DEF Authorities
<1>6. CASE \E up \in SUBSET {"replayer", "issuer", "log"} : replay_evidence(up)
      BY <1>6, ReplayEvidenceInv DEF Authorities
<1>7. CASE UNCHANGED acting
  <2>1. UNCHANGED <<proposals, trace, replay, evidence>>
        BY <1>7 DEF acting
  <2> QED
      BY <2>1 DEF TraceInv, TraceOk, ReplayOk, EvidenceOk
<1> QED
    BY <1>1, <1>2, <1>3, <1>4, <1>5, <1>6, <1>7 DEF TracingNext

(* Evidence is verified only if every stage is.                            *)
LEMMA VerifiedMeans ==
    ASSUME NEW q, NEW up \in SUBSET Authorities, verify(q, up).decision = "verified"
    PROVE  /\ q.artifact = q.expected /\ q.issuer = <<q.artifact>> /\ q.proof = <<q.artifact>>
           /\ up = {"replayer", "issuer", "log"}
<1> DEFINE s1 == Stage(TRUE, q.artifact = q.expected)
           s2 == Stage(TRUE, q.schema = "known" /\ "replayer" \in up)
           s3 == Stage(q.issuer # Absent, q.issuer = <<q.artifact>> /\ "issuer" \in up)
           s4 == Stage(q.proof # Absent, q.proof = <<q.artifact>> /\ "log" \in up)
           stages == <<s1, s2, s3, s4>>
<1>1. \A i \in DOMAIN stages : stages[i] = "verified"
      BY DEF verify
<1> HIDE DEF s1, s2, s3, s4
<1>2. DOMAIN stages = {1, 2, 3, 4} /\ stages[1] = s1 /\ stages[2] = s2 /\ stages[3] = s3 /\ stages[4] = s4
      OBVIOUS
<1>3. s1 = "verified" /\ s2 = "verified" /\ s3 = "verified" /\ s4 = "verified"
      BY <1>1, <1>2
<1>4. q.artifact = q.expected /\ "replayer" \in up
      BY <1>3 DEF Stage, s1, s2
<1>5. q.issuer = <<q.artifact>> /\ "issuer" \in up
      BY <1>3 DEF Stage, s3
<1>6. q.proof = <<q.artifact>> /\ "log" \in up
      BY <1>3 DEF Stage, s4
<1> QED
    BY <1>4, <1>5, <1>6 DEF Authorities

LEMMA TraceInvSound == TraceInv => TraceSound
<1> SUFFICES ASSUME TraceInv PROVE TraceSound
    OBVIOUS
<1>1. \A i \in Accepted(trace) : Follows(trace, i)
      BY DEF TraceInv, TraceOk
<1>2. ReplayOk
      BY DEF TraceInv
<1> DEFINE q == evidence.request
<1>3. ASSUME evidence.ended # "none"
      PROVE  /\ evidence.receipt.decision = "verified" =>
                    /\ q.artifact = q.expected /\ q.issuer = <<q.artifact>> /\ q.proof = <<q.artifact>>
                    /\ evidence.up = {"replayer", "issuer", "log"}
             /\ evidence.ended = "raised" => evidence.up # evidence.again
             /\ evidence.ended = "replayed" /\ evidence.receipt.decision = "verified" =>
                    evidence.again = evidence.up
  <2>1. evidence.up \in SUBSET Authorities /\ evidence.receipt = verify(q, evidence.up)
        BY <1>3 DEF TraceInv, EvidenceOk
  <2>2. evidence.ended = "raised" => verify(q, evidence.again) # evidence.receipt
        BY DEF TraceInv, EvidenceOk
  <2>3. evidence.ended = "replayed" =>
            evidence.again \in SUBSET Authorities /\ verify(q, evidence.again) = evidence.receipt
        BY DEF TraceInv, EvidenceOk
  <2>4. evidence.receipt.decision = "verified" =>
            /\ q.artifact = q.expected /\ q.issuer = <<q.artifact>> /\ q.proof = <<q.artifact>>
            /\ evidence.up = {"replayer", "issuer", "log"}
        BY <2>1, VerifiedMeans
  <2>5. evidence.ended = "raised" => evidence.up # evidence.again
        BY ONLY <2>1, <2>2, Zenon
  <2>6. evidence.ended = "replayed" /\ evidence.receipt.decision = "verified" =>
            evidence.again = {"replayer", "issuer", "log"}
        BY <2>3, VerifiedMeans
  <2> QED
      BY <2>4, <2>5, <2>6
<1> QED
    BY <1>1, <1>2, <1>3 DEF TraceSound, Follows, ReplayOk

(* The accepted receipts form one chain however submissions interleave; a  *)
(* replay tells drift and revoked grants; evidence counts only what the    *)
(* authorities confirmed (execute_reference_transition,                    *)
(* replay_reference_transition, EvidenceContentVerifier).                  *)
THEOREM TracesSound == TracingSpec => []TraceSound
<1>1. TracingInit => TraceInv
      BY TracingInitInv
<1>2. TraceInv /\ [TracingNext]_acting => TraceInv'
      BY TracingStep
<1>3. TraceInv => TraceSound
      BY TraceInvSound
<1> QED
    BY <1>1, <1>2, <1>3, PTL DEF TracingSpec

-----------------------------------------------------------------------------
(* What a change puts in question. *)

RelationKind == {"OWNS", "EXPOSED_TO", "REALIZES", "DERIVES", "IMPLEMENTED_BY", "VERIFIED_BY", "LEAVES",
                 "ACCEPTED_BY", "OBSERVED_BY"}

(* A graph as its types leave it: nodes and relations in some order, every *)
(* relation of one of the kinds.                                           *)
RelationGraphType(g) ==
    /\ g.nodes \in Seq({g.nodes[n] : n \in DOMAIN g.nodes})
    /\ g.relations \in Seq({g.relations[r] : r \in DOMAIN g.relations})
    /\ \A r \in DOMAIN g.relations : g.relations[r].kind \in RelationKind

(* The relations of a valid graph join nodes of the kinds theirs allows.   *)
LEMMA ValidRelation ==
    ASSUME NEW g, validate_typed_relation_graph(g), NEW r \in ToSet(g.relations)
    PROVE  /\ r.source_id \in NodeIdsOf(g) /\ r.target_id \in NodeIdsOf(g)
           /\ <<KindOf(g, r.source_id), KindOf(g, r.target_id)>> = ALLOWED_RELATION_KINDS[r.kind]
<1>1. PICK i \in DOMAIN g.relations : r = g.relations[i]
      BY DEF ToSet
<1>2. ~relation_issues(g, i)
      BY DEF validate_typed_relation_graph
<1> DEFINE ends == <<r.source_id, r.target_id>>
<1>3. /\ {ends[1], ends[2]} \subseteq NodeIdsOf(g)
      /\ <<KindOf(g, ends[1]), KindOf(g, ends[2])>> = ALLOWED_RELATION_KINDS[r.kind]
      BY <1>1, <1>2 DEF relation_issues
<1>4. ends[1] = r.source_id /\ ends[2] = r.target_id
      OBVIOUS
<1> HIDE DEF ends
<1> QED
    BY <1>3, <1>4

(* Which kinds each relation joins.                                        *)
LEMMA AllowedKinds ==
    /\ ALLOWED_RELATION_KINDS.OWNS = <<"component", "asset">>
    /\ ALLOWED_RELATION_KINDS.EXPOSED_TO = <<"asset", "threat">>
    /\ ALLOWED_RELATION_KINDS.REALIZES = <<"threat", "risk">>
    /\ ALLOWED_RELATION_KINDS.DERIVES = <<"risk", "requirement">>
    /\ ALLOWED_RELATION_KINDS.IMPLEMENTED_BY = <<"requirement", "control">>
    /\ ALLOWED_RELATION_KINDS.VERIFIED_BY = <<"control", "evidence">>
    /\ ALLOWED_RELATION_KINDS.LEAVES = <<"risk", "residual">>
    /\ ALLOWED_RELATION_KINDS.ACCEPTED_BY = <<"residual", "acceptance">>
    /\ ALLOWED_RELATION_KINDS.OBSERVED_BY = <<"component", "feedback">>
BY DEF ALLOWED_RELATION_KINDS

(* Only verification ends in evidence.                                     *)
LEMMA EvidenceKind ==
    ASSUME NEW k \in RelationKind, NEW a, <<a, "evidence">> = ALLOWED_RELATION_KINDS[k]
    PROVE  k = "VERIFIED_BY"
BY AllowedKinds DEF RelationKind

(* The nodes of the canonical graph are numbered in order.                 *)
CanonicalKinds ==
    <<"component", "asset", "threat", "risk", "requirement", "control", "evidence",
      "residual", "acceptance", "feedback">>
LEMMA CanonicalNodes ==
    /\ canonical_graph.nodes = [n \in 1..10 |-> ArchitectureNode(n, CanonicalKinds[n])]
    /\ DOMAIN canonical_graph.relations = 1..9
BY DEF canonical_graph, CanonicalKinds

LEMMA CanonicalRelations ==
    LET Is(r, kind, source, target) ==
            canonical_graph.relations[r] = ArchitectureRelation(r, kind, source, target)
    IN  /\ Is(1, "OWNS", 1, 2) /\ Is(2, "EXPOSED_TO", 2, 3) /\ Is(3, "REALIZES", 3, 4)
        /\ Is(4, "DERIVES", 4, 5) /\ Is(5, "IMPLEMENTED_BY", 5, 6) /\ Is(6, "VERIFIED_BY", 6, 7)
        /\ Is(7, "LEAVES", 4, 8) /\ Is(8, "ACCEPTED_BY", 8, 9) /\ Is(9, "OBSERVED_BY", 1, 10)
BY DEF canonical_graph

LEMMA CanonicalKind ==
    ASSUME NEW g, g.nodes = canonical_graph.nodes
    PROVE  /\ NodeIdsOf(g) = 1..10
           /\ \A n \in 1..10 : KindOf(g, n) = CanonicalKinds[n]
<1>1. DOMAIN g.nodes = 1..10 /\ \A n \in 1..10 : g.nodes[n] = ArchitectureNode(n, CanonicalKinds[n])
      BY CanonicalNodes
<1>2. \A n \in 1..10 : g.nodes[n].node_id = n /\ g.nodes[n].kind = CanonicalKinds[n]
      BY <1>1 DEF ArchitectureNode
<1>3. NodeIdsOf(g) = 1..10
      BY <1>1, <1>2 DEF NodeIdsOf
<1>4. ASSUME NEW n \in 1..10 PROVE KindOf(g, n) = CanonicalKinds[n]
  <2> DEFINE P(m) == g.nodes[m].node_id = n /\ \A q \in 1..(m - 1) : g.nodes[q].node_id # n
  <2>1. \A m \in 1..10 : P(m) <=> m = n
        BY <1>2
  <2>2. (CHOOSE m \in DOMAIN g.nodes : P(m)) = n
        BY <1>1, <2>1
  <2> QED
      BY <1>2, <2>2 DEF KindOf
<1> QED
    BY <1>3, <1>4

(* No part of the canonical graph has an issue.                            *)
LEMMA CanonicalValid ==
    ASSUME NEW g, RelationGraphType(g), CanonicalPart(g)
    PROVE  validate_typed_relation_graph(g)
<1>1. /\ NodeIdsOf(g) = 1..10 /\ \A n \in 1..10 : KindOf(g, n) = CanonicalKinds[n]
      BY CanonicalKind DEF CanonicalPart
<1>2. \A n \in DOMAIN g.nodes : g.nodes[n].node_id # 0 /\ \A q \in 1..(n - 1) : g.nodes[q].node_id # g.nodes[n].node_id
      BY CanonicalNodes DEF CanonicalPart, ArchitectureNode
<1>3. ASSUME NEW r \in DOMAIN g.relations
      PROVE  \E k \in 1..9 : g.relations[r] = canonical_graph.relations[k] /\ g.relations[r].relation_id = k
  <2>1. PICK k \in 1..9 : g.relations[r] = canonical_graph.relations[k]
        BY CanonicalNodes DEF CanonicalPart, ToSet
  <2>2. canonical_graph.relations[k].relation_id = k
    <3>1. k \in {1, 2, 3, 4, 5, 6, 7, 8, 9}
          OBVIOUS
    <3> QED
        BY <3>1, CanonicalRelations DEF ArchitectureRelation
  <2> QED
      BY <2>1, <2>2
<1>4. ASSUME NEW r \in DOMAIN g.relations PROVE ~relation_issues(g, r)
  <2>1. PICK k \in 1..9 : g.relations[r] = canonical_graph.relations[k] /\ g.relations[r].relation_id = k
        BY <1>3
  <2> DEFINE e == g.relations[r]
  <2>2. ASSUME NEW q \in 1..(r - 1) PROVE g.relations[q].relation_id # e.relation_id
    <3>1. q \in DOMAIN g.relations /\ q # r
          BY DEF RelationGraphType
    <3>2. PICK j \in 1..9 : g.relations[q] = canonical_graph.relations[j] /\ g.relations[q].relation_id = j
          BY <1>3, <3>1
    <3> QED
        BY <2>1, <3>1, <3>2 DEF CanonicalPart
  <2>3. /\ e.forward /\ e.evidence_requirements # {} /\ e.source_id \in 1..10 /\ e.target_id \in 1..10
        /\ <<CanonicalKinds[e.source_id], CanonicalKinds[e.target_id]>> = ALLOWED_RELATION_KINDS[e.kind]
    <3> DEFINE Fits(kind, source, target) ==
            /\ source \in 1..10 /\ target \in 1..10
            /\ <<CanonicalKinds[source], CanonicalKinds[target]>> = ALLOWED_RELATION_KINDS[kind]
    <3>1. Fits("OWNS", 1, 2) /\ Fits("EXPOSED_TO", 2, 3) /\ Fits("REALIZES", 3, 4)
          BY AllowedKinds DEF CanonicalKinds
    <3>2. Fits("DERIVES", 4, 5) /\ Fits("IMPLEMENTED_BY", 5, 6) /\ Fits("VERIFIED_BY", 6, 7)
          BY AllowedKinds DEF CanonicalKinds
    <3>3. Fits("LEAVES", 4, 8) /\ Fits("ACCEPTED_BY", 8, 9) /\ Fits("OBSERVED_BY", 1, 10)
          BY AllowedKinds DEF CanonicalKinds
    <3> HIDE DEF Fits
    <3>4. PICK kind, source, target : e = ArchitectureRelation(k, kind, source, target) /\ Fits(kind, source, target)
      <4>1. k \in {1, 2, 3, 4, 5, 6, 7, 8, 9}
            OBVIOUS
      <4> QED
          BY <2>1, <3>1, <3>2, <3>3, <4>1, CanonicalRelations
    <3>5. /\ e.forward /\ e.evidence_requirements # {} /\ e.source_id = source /\ e.target_id = target
          /\ e.kind = kind
          BY <3>4 DEF ArchitectureRelation
    <3> QED
        BY <3>4, <3>5 DEF Fits
  <2>4. e.relation_id # 0
        BY <2>1
  <2> HIDE DEF e
  <2>5. e = g.relations[r]
        BY DEF e
  <2> DEFINE ends == <<e.source_id, e.target_id>>
  <2>6. ends[1] = e.source_id /\ ends[2] = e.target_id
        OBVIOUS
  <2> HIDE DEF ends
  <2>7. /\ {ends[1], ends[2]} \subseteq NodeIdsOf(g)
        /\ <<KindOf(g, ends[1]), KindOf(g, ends[2])>> = ALLOWED_RELATION_KINDS[e.kind]
        BY <1>1, <2>3, <2>6
  <2> QED
      BY <2>2, <2>3, <2>4, <2>5, <2>7 DEF relation_issues, ends
<1> QED
    BY <1>2, <1>4 DEF validate_typed_relation_graph

(* What the walk has reached: all that follows from what was visited, and  *)
(* nothing that does not follow.                                           *)
ImpactInv ==
    /\ RelationGraphType(relation_graph)
    /\ impact.ended \in {"projecting", "receipt"} =>
           /\ validate_typed_relation_graph(relation_graph)
           /\ changed \subseteq affected /\ to_visit \subseteq affected
           /\ \A n \in affected \ to_visit : outgoing(relation_graph, n) \subseteq affected
           /\ \A n \in affected \ changed :
                  \E r \in ToSet(relation_graph.relations) : r.target_id = n /\ r.source_id \in affected
    /\ impact.ended = "receipt" =>
           /\ to_visit = {}
           /\ impact.invalidated_evidence = {n \in affected : KindOf(relation_graph, n) = "evidence"}
           /\ impact.invalidated_acceptance = {n \in affected : KindOf(relation_graph, n) = "acceptance"}
           /\ impact.reopened = {n \in affected : KindOf(relation_graph, n) = "control"}
    /\ impact.ended = "raised" =>
           \/ changed = {} \/ ~(changed \subseteq NodeIdsOf(relation_graph))
           \/ ~validate_typed_relation_graph(relation_graph)

LEMMA ImpactInitInv ==
    ASSUME NEW graphs, NEW edits, \A g \in graphs : RelationGraphType(g), ImpactInit(graphs, edits)
    PROVE  ImpactInv
BY DEF ImpactInit, ImpactInv

LEMMA ImpactStepInv == ImpactInv /\ [ImpactNext]_impacting => ImpactInv'
<1> SUFFICES ASSUME ImpactInv, [ImpactNext]_impacting PROVE ImpactInv'
    OBVIOUS
<1>1. CASE project_change_impact
      BY <1>1 DEF project_change_impact, ImpactInv
<1>2. CASE visit_node
  <2>1. /\ impact.ended = "projecting" /\ UNCHANGED <<relation_graph, changed, impact>>
        BY <1>2 DEF visit_node
  <2>2. PICK n \in to_visit :
            /\ affected' = affected \cup outgoing(relation_graph, n)
            /\ to_visit' = (to_visit \ {n}) \cup (outgoing(relation_graph, n) \ affected)
        BY <1>2 DEF visit_node
  <2>3. \A m \in outgoing(relation_graph, n) :
            \E r \in ToSet(relation_graph.relations) : r.target_id = m /\ r.source_id = n
        BY DEF outgoing, ToSet
  <2>4. n \in affected
        BY <2>1, <2>2 DEF ImpactInv
  <2>5. \A m \in affected' \ changed :
            \E r \in ToSet(relation_graph.relations) : r.target_id = m /\ r.source_id \in affected'
        BY <2>1, <2>2, <2>3, <2>4 DEF ImpactInv
  <2>6. \A m \in affected' \ to_visit' : outgoing(relation_graph, m) \subseteq affected'
        BY <2>1, <2>2 DEF ImpactInv
  <2>7. changed \subseteq affected' /\ to_visit' \subseteq affected'
        BY <2>1, <2>2 DEF ImpactInv
  <2> QED
      BY <2>1, <2>5, <2>6, <2>7 DEF ImpactInv
<1>3. CASE impact_receipt
      BY <1>3 DEF impact_receipt, ImpactInv
<1>4. CASE UNCHANGED impacting
      BY <1>4 DEF impacting, ImpactInv
<1> QED
    BY <1>1, <1>2, <1>3, <1>4 DEF ImpactNext

LEMMA ImpactInvExact == ImpactInv => ImpactExact
<1> SUFFICES ASSUME ImpactInv PROVE ImpactExact
    OBVIOUS
<1> DEFINE g == relation_graph
           rs == ToSet(g.relations)
<1>1. impact.ended = "raised" =>
          changed = {} \/ ~(changed \subseteq NodeIdsOf(g)) \/ ~CanonicalPart(g)
      BY CanonicalValid DEF ImpactInv
<1>2. ASSUME impact.ended = "receipt"
      PROVE  /\ changed \subseteq affected
             /\ \A r \in rs : r.source_id \in affected => r.target_id \in affected
             /\ \A n \in affected \ changed : \E r \in rs : r.target_id = n /\ r.source_id \in affected
             /\ \A r \in rs : r.kind = "VERIFIED_BY" /\ r.source_id \in impact.reopened =>
                    r.target_id \in impact.invalidated_evidence
             /\ \A n \in impact.invalidated_evidence \ changed :
                    \E r \in rs : r.kind = "VERIFIED_BY" /\ r.target_id = n /\ r.source_id \in impact.reopened
             /\ \A r, q \in rs :
                    (/\ r.kind = "LEAVES" /\ q.kind = "ACCEPTED_BY" /\ r.target_id = q.source_id
                     /\ r.source_id \in affected) => q.target_id \in impact.invalidated_acceptance
  <2>1. /\ changed \subseteq affected /\ \A n \in affected : outgoing(g, n) \subseteq affected
        /\ \A n \in affected \ changed : \E r \in rs : r.target_id = n /\ r.source_id \in affected
        /\ validate_typed_relation_graph(g)
        BY <1>2 DEF ImpactInv
  <2>2. /\ impact.invalidated_evidence = {n \in affected : KindOf(g, n) = "evidence"}
        /\ impact.invalidated_acceptance = {n \in affected : KindOf(g, n) = "acceptance"}
        /\ impact.reopened = {n \in affected : KindOf(g, n) = "control"}
        BY <1>2 DEF ImpactInv
  <2>3. \A r \in rs : r.source_id \in affected => r.target_id \in affected
    <3>1. \A r \in rs : r.target_id \in outgoing(g, r.source_id)
          BY DEF outgoing, ToSet
    <3> QED
        BY <2>1, <3>1
  <2>4. \A r \in rs : /\ <<KindOf(g, r.source_id), KindOf(g, r.target_id)>> = ALLOWED_RELATION_KINDS[r.kind]
                      /\ r.kind \in RelationKind
    <3>1. \A r \in rs : r.kind \in RelationKind
          BY DEF ToSet, ImpactInv, RelationGraphType
    <3> QED
        BY <2>1, <3>1, ValidRelation
  <2>5. \A r \in rs : r.kind = "VERIFIED_BY" => KindOf(g, r.source_id) = "control" /\ KindOf(g, r.target_id) = "evidence"
        BY <2>4, AllowedKinds
  <2>6. \A r \in rs : r.kind = "ACCEPTED_BY" => KindOf(g, r.target_id) = "acceptance"
        BY <2>4, AllowedKinds
  <2>7. \A r \in rs : KindOf(g, r.target_id) = "evidence" => r.kind = "VERIFIED_BY"
        BY <2>4, EvidenceKind
  <2> HIDE DEF rs, g
  <2>8. ASSUME NEW n \in impact.invalidated_evidence \ changed
        PROVE  \E r \in rs : r.kind = "VERIFIED_BY" /\ r.target_id = n /\ r.source_id \in impact.reopened
        BY <2>1, <2>2, <2>5, <2>7
  <2> QED
      BY <2>1, <2>2, <2>3, <2>5, <2>6, <2>8
<1> QED
    BY <1>1, <1>2 DEF ImpactExact

(* For every typed relation graph and every set of changed nodes           *)
(* (project_change_impact): a receipt leaves nothing standing that rests   *)
(* on what changed and touches nothing else, and no part of the canonical  *)
(* graph is refused.                                                       *)
THEOREM ImpactsExact ==
    ASSUME NEW graphs, NEW edits, \A g \in graphs : RelationGraphType(g)
    PROVE  ImpactSpec(graphs, edits) => []ImpactExact
<1>1. ImpactInit(graphs, edits) => ImpactInv
      BY ImpactInitInv
<1> QED
    BY <1>1, ImpactStepInv, ImpactInvExact, PTL DEF ImpactSpec

-----------------------------------------------------------------------------
(* Exact closure. *)

(* What each verdict is about, one conjunct of Bundleable each.            *)
ClosureOrdered ==
    \A i, j \in DOMAIN closure : closure[j] \in local_dependencies(closure[i]) => j < i
RootsOwned == roots \subseteq Owned
OwnersAcyclic == Acyclic(OwnerModules, [m \in OwnerModules |-> owner_dependencies(m)])
OwnersLocal == OwnerModules \cap external = {}
AllCovered == NoDocument \notin Chosen
NothingStray == \A d \in Needed : NoDocument \notin links[d]
NeededAcyclic == Acyclic(Needed, links)
SourcesExact == {normal[d] : d \in documents} \ BaseNames = Sources
SourcesAnchored == Sources \subseteq Anchors
BaseForeign == \A d \in BaseNames \cap documents : normal[d] \notin Anchors
SourcesOwned ==
    \A d \in Sources : d \notin depends[d] /\ \A n, k \in Owned : d \in within[n] \cap within[k] => owner[n] = owner[k]
RootsCovered == \A r \in roots : within[r] \cap Sources # {}
RootsApart ==
    \A r, q \in roots : Longest(within[r] \cap Sources) = Longest(within[q] \cap Sources) => r = q

Traced == ClosureOrdered /\ RootsOwned /\ OwnersAcyclic /\ OwnersLocal
Found == AllCovered /\ NothingStray /\ NeededAcyclic /\ SourcesExact /\ RootsCovered
Bound == SourcesAnchored /\ BaseForeign /\ SourcesOwned /\ RootsApart /\ Based

LEMMA BundleableParts == Bundleable <=> Traced /\ Found /\ Bound
<1>1. Wellformed <=> Traced
      BY DEF Wellformed, Traced, ClosureOrdered, RootsOwned, OwnersAcyclic, OwnersLocal
<1>2. Sourced <=> /\ AllCovered /\ NothingStray /\ NeededAcyclic /\ SourcesExact
                  /\ SourcesAnchored /\ BaseForeign /\ SourcesOwned
      BY DEF Sourced, AllCovered, NothingStray, NeededAcyclic, SourcesExact, SourcesAnchored,
             BaseForeign, SourcesOwned
<1>3. Rooted <=> RootsCovered /\ RootsApart
      BY DEF Rooted, RootsCovered, RootsApart
<1> QED
    BY <1>1, <1>2, <1>3 DEF Bundleable, Found, Bound

(* A sequence without repeats of members of a set.                         *)
OrderOf(s, set) ==
    /\ s \in Seq(set)
    /\ \A i, j \in DOMAIN s : s[i] = s[j] => i = j

ClosureTypes ==
    /\ within \in [Name -> SUBSET Name] /\ Dotted
    /\ depends \in [Name -> SUBSET Name] /\ documents \subseteq Name
    /\ alias \in [Name -> Name] /\ Aliased
    /\ normal \in [Name -> Name] /\ Normalized
    /\ owner \in [Name -> Name]
    /\ OrderOf(closure, Name) /\ closure # << >>
    /\ OrderOf(base, Name \ Owned)
    /\ roots # {}

(* Every wave of owner modules depends on earlier waves only.              *)
Waves ==
    /\ owners \in Seq(SUBSET OwnerModules)
    /\ \A i \in DOMAIN owners : \A m \in owners[i] :
           /\ \A e \in owner_dependencies(m) : \E j \in DOMAIN owners : j < i /\ e \in owners[j]
           /\ \A j \in DOMAIN owners : j < i => m \notin owners[j]

(* What is selected is needed; what is no longer pending has its           *)
(* dependencies selected.                                                  *)
Expansion ==
    /\ Chosen \subseteq selected /\ selected \subseteq Needed /\ pending \subseteq selected
    /\ \A n \in selected \ pending : links[n] \subseteq selected

(* The declarations being visited lead from one to the next, and those     *)
(* visited are in dependency order.                                        *)
Descent ==
    /\ OrderOf(visiting, selected) /\ OrderOf(ordered, selected)
    /\ visited = ToSet(ordered) /\ ToSet(visiting) \cap visited = {}
    /\ \A i \in DOMAIN visiting : i > 1 => visiting[i] \in source_dependencies(visiting[i - 1])
    /\ \A i \in DOMAIN ordered : source_dependencies(ordered[i]) \subseteq Earlier(ordered, i)

Verdicts == {"non-topological-declaration", "root-outside-closure", "owner-module-cycle",
             "external-proof-base-required", "lean-constant-without-source-declaration",
             "local-dependency-without-source-declaration", "source-declaration-cycle",
             "root-without-source-declaration", "exact-roundtrip-mismatch",
             "unclassified-exact-declaration", "source-declaration-owner-missing",
             "source-declaration-owner-ambiguous", "self-dependency", "bundle-validation-error"}
AfterAdmit == {"owners", "select", "expand", "order", "roundtrip", "project", "accepted"}
AfterOwners == {"select", "expand", "order", "roundtrip", "project", "accepted"}
AfterExpand == {"order", "roundtrip", "project", "accepted"}
AfterOrder == {"roundtrip", "project", "accepted"}

(* What each stage has established by the time it is left.                 *)
CloseInv ==
    /\ ClosureTypes
    /\ stage \in {"admit", "failed"} \cup AfterAdmit \cup Verdicts
    /\ stage \in Verdicts => ~Bundleable
    /\ stage \in AfterAdmit => ClosureOrdered /\ RootsOwned /\ Waves
    /\ stage \in AfterOwners => OwnersAcyclic /\ UNION ToSet(owners) = OwnerModules
    /\ stage \in AfterExpand \cup {"expand"} => OwnersLocal /\ AllCovered /\ Expansion
    /\ stage \in AfterExpand => pending = {} /\ Descent
    /\ stage \in AfterOrder => visited = selected /\ NeededAcyclic
    /\ stage \in {"project", "accepted"} => SourcesExact /\ RootsCovered
    /\ stage = "accepted" => Bound
    /\ stage = "admit" => owners = << >>
    /\ stage \in {"admit", "owners", "select", "expand"} =>
           visiting = << >> /\ visited = {} /\ ordered = << >>

LEMMA ToSetIs ==
    ASSUME NEW s
    PROVE  ToSet(s) = {s[i] : i \in DOMAIN s}
BY DEF ToSet

LEMMA OrdersAre ==
    ASSUME NEW set, NEW s \in Orders(set)
    PROVE  OrderOf(s, set)
<1>1. PICK k \in 0..MaxName : s \in [1..k -> set]
      BY DEF Orders
<1>2. s \in Seq(set)
      BY <1>1, MaxNameAssumption
<1> QED
    BY <1>2 DEF Orders, OrderOf

(* The closure owns names, and the proof base none of these.               *)
LEMMA OwnedNames ==
    ASSUME ClosureTypes
    PROVE  /\ Owned \subseteq Name /\ Owned # {}
           /\ BaseNames \subseteq Name /\ BaseNames \cap Owned = {}
<1>1. closure \in Seq(Name) /\ base \in Seq(Name \ Owned)
      BY DEF ClosureTypes, OrderOf
<1>2. Owned = {closure[i] : i \in DOMAIN closure} /\ BaseNames = {base[i] : i \in DOMAIN base}
      BY DEF Owned, BaseNames, ToSet
<1>3. Len(closure) \in DOMAIN closure
      BY <1>1 DEF ClosureTypes
<1> QED
    BY <1>1, <1>2, <1>3

(* Among some names there is a longest one.                                *)
LEMMA LongestIn ==
    ASSUME NEW names, names \subseteq Name, names # {}
    PROVE  Longest(names) \in names /\ \A m \in names : m <= Longest(names)
<1> DEFINE short == {MaxName - n : n \in names}
<1>1. names \subseteq Int /\ MaxName \in Int /\ \A n \in names : n <= MaxName
      BY MaxNameAssumption DEF Name
<1>2. short \subseteq Nat
      BY <1>1
<1>3. PICK k \in short : \A m \in short : k <= m
      BY <1>2, LeastNat
<1>4. PICK n \in names : k = MaxName - n
      BY <1>3
<1>5. ASSUME NEW m \in names PROVE m <= n
  <2>1. MaxName - m \in short
        BY <1>5
  <2> HIDE DEF short
  <2>2. MaxName - n <= MaxName - m
        BY <1>3, <1>4, <2>1
  <2> QED
      BY <1>1, <2>2
<1> QED
    BY <1>5 DEF Longest

(* A document that covers a name is one that the name begins with, and the *)
(* name itself if it has a document.                                       *)
LEMMA Covering ==
    ASSUME ClosureTypes, NEW n \in Name, NEW names, names \subseteq Name
    PROVE  /\ covering_document(n, names) # NoDocument <=> within[n] \cap names # {}
           /\ covering_document(n, names) # NoDocument =>
                  /\ covering_document(n, names) \in within[n] \cap names
                  /\ covering_document(n, names) = Longest(within[n] \cap names)
           /\ n \in names => covering_document(n, names) = n
<1>1. within[n] \subseteq Name /\ n \in within[n] /\ \A k \in within[n] : k <= n
      BY DEF ClosureTypes, Dotted
<1>2. NoDocument \notin Name /\ Name \subseteq Nat
      BY MaxNameAssumption DEF NoDocument, Name
<1>3. CASE within[n] \cap names = {}
      BY <1>1, <1>3 DEF covering_document
<1>4. CASE within[n] \cap names # {}
  <2> DEFINE mine == within[n] \cap names
  <2>1. mine \subseteq Name /\ mine # {}
        BY <1>1, <1>4
  <2>2. covering_document(n, names) = Longest(mine)
        BY <1>4 DEF covering_document
  <2>3. n \in names => n \in mine
        BY <1>1
  <2>4. mine \subseteq within[n] /\ mine \subseteq names
        OBVIOUS
  <2>5. Longest(mine) \in mine /\ \A m \in mine : m <= Longest(mine)
    <3> HIDE DEF mine
    <3> QED
        BY <2>1, LongestIn
  <2>6. n \in names => Longest(mine) = n
    <3> SUFFICES ASSUME n \in names PROVE Longest(mine) = n
        OBVIOUS
    <3> DEFINE longest == Longest(mine)
    <3>1. n \in mine
          BY <2>3
    <3> HIDE DEF mine
    <3>2. longest \in within[n] /\ longest \in Name /\ n <= longest
          BY <2>1, <2>4, <2>5, <3>1
    <3>3. longest <= n
          BY <1>1, <3>2
    <3>4. longest \in Nat /\ n \in Nat
          BY <1>2, <3>2
    <3> HIDE DEF longest
    <3>5. longest = n
          BY <3>2, <3>3, <3>4
    <3> QED
        BY <3>5 DEF longest
  <2> QED
      BY <1>2, <1>4, <2>1, <2>2, <2>5, <2>6
<1> QED
    BY <1>3, <1>4

(* What documents lead to.                                                 *)
LEMMA CoveredNames ==
    ASSUME ClosureTypes
    PROVE  /\ \A n \in Name : /\ covered(n) \in documents \cup {NoDocument}
                              /\ alias[n] \in documents => covered(n) = alias[n]
           /\ Chosen \subseteq documents \cup {NoDocument}
           /\ \A d \in Name : links[d] \subseteq documents \cup {NoDocument}
           /\ documents \subseteq Name /\ NoDocument \notin documents
<1>1. documents \subseteq Name /\ NoDocument \notin documents
      BY MaxNameAssumption DEF ClosureTypes, NoDocument, Name
<1>2. ASSUME NEW n \in Name
      PROVE  /\ covered(n) \in documents \cup {NoDocument}
             /\ alias[n] \in documents => covered(n) = alias[n]
  <2>1. alias[n] \in Name
        BY DEF ClosureTypes
  <2> QED
      BY <1>1, <2>1, Covering DEF covered
<1>3. Chosen \subseteq documents \cup {NoDocument}
      BY <1>2, OwnedNames DEF Chosen
<1>4. ASSUME NEW d \in Name PROVE links[d] \subseteq documents \cup {NoDocument}
  <2>1. links[d] = {covered(e) : e \in depends[d]} /\ depends[d] \subseteq Name
        BY DEF links, ClosureTypes
  <2> QED
      BY <1>2, <2>1
<1> QED
    BY <1>1, <1>2, <1>3, <1>4

LEMMA LocalNames ==
    ASSUME ClosureTypes, NEW n
    PROVE  local_dependencies(n) \subseteq Owned
BY DEF local_dependencies

LEMMA OwnerNames ==
    ASSUME NEW m
    PROVE  owner_dependencies(m) \subseteq OwnerModules \ {m}
<1>1. \A n : local_dependencies(n) \subseteq Owned
      BY DEF local_dependencies
<1> QED
    BY <1>1 DEF owner_dependencies, OwnerModules

(* The documents needed are a closed set of documents.                     *)
LEMMA NeededClosed ==
    ASSUME ClosureTypes
    PROVE  /\ Chosen \cap documents \subseteq Needed /\ Needed \subseteq documents
           /\ \A n \in Needed : links[n] \cap documents \subseteq Needed
<1>1. Chosen \cap documents \subseteq Needed /\ Needed \subseteq documents
      BY DEF Needed, Saturated
<1>2. ASSUME NEW n \in Needed, NEW e \in links[n] \cap documents PROVE e \in Needed
      BY <1>2 DEF Needed, Saturated
<1> QED
    BY <1>1, <1>2

(* A closed set holds every document needed.                               *)
LEMMA NeededLeast ==
    ASSUME NEW set, set \subseteq documents, Saturated(set)
    PROVE  Needed \subseteq set
BY DEF Needed

LEMMA CloseStart == CloseInit => CloseInv
<1> SUFFICES ASSUME CloseInit PROVE CloseInv
    OBVIOUS
<1>1. OrderOf(closure, Name) /\ OrderOf(base, Name \ Owned)
      BY OrdersAre DEF CloseInit
<1>2. ClosureTypes
      BY <1>1 DEF ClosureTypes, CloseInit
<1> QED
    BY <1>2 DEF CloseInv, CloseInit, AfterAdmit, AfterOwners, AfterExpand, AfterOrder, Verdicts

(* What the inputs decide stays as it is while they are kept.              *)
LEMMA NamesDecide ==
    ASSUME inputs_kept
    PROVE  /\ within' = within /\ depends' = depends /\ documents' = documents /\ normal' = normal
           /\ roots' = roots /\ owner' = owner /\ base' = base /\ closure' = closure /\ imported' = imported
           /\ ClosureTypes' <=> ClosureTypes
           /\ Owned' = Owned /\ BaseNames' = BaseNames /\ OwnerModules' = OwnerModules /\ Anchors' = Anchors
           /\ \A n : local_dependencies(n)' = local_dependencies(n)
           /\ \A m : owner_dependencies(m)' = owner_dependencies(m)
           /\ Chosen' = Chosen /\ links' = links /\ Needed' = Needed /\ Sources' = Sources
<1> USE DEF inputs_kept, closure_inputs
<1>1. Owned' = Owned /\ BaseNames' = BaseNames /\ Anchors' = Anchors
      BY DEF Owned, BaseNames, Anchors
<1>2. ClosureTypes' <=> ClosureTypes
      BY <1>1 DEF ClosureTypes, Dotted, Aliased, Normalized
<1>3. \A n : local_dependencies(n)' = local_dependencies(n)
      BY <1>1 DEF local_dependencies
<1>4. OwnerModules' = OwnerModules
      BY <1>1 DEF OwnerModules
<1>5. \A m : owner_dependencies(m)' = owner_dependencies(m)
      BY <1>1, <1>3 DEF owner_dependencies
<1>6. \A n : covered(n)' = covered(n)
      BY DEF covered, covering_document
<1>7. Chosen' = Chosen /\ links' = links
      BY <1>1, <1>6 DEF Chosen, links
<1>8. Needed' = Needed
      BY <1>7 DEF Needed, Saturated
<1>9. Sources' = Sources
      BY <1>1, <1>8 DEF Sources
<1> QED
    BY <1>1, <1>2, <1>3, <1>4, <1>5, <1>7, <1>8, <1>9

LEMMA InputsDecide ==
    ASSUME inputs_kept
    PROVE  /\ ClosureOrdered' <=> ClosureOrdered
           /\ RootsOwned' <=> RootsOwned
           /\ OwnersAcyclic' <=> OwnersAcyclic
           /\ OwnersLocal' <=> OwnersLocal
           /\ AllCovered' <=> AllCovered
           /\ NothingStray' <=> NothingStray
           /\ NeededAcyclic' <=> NeededAcyclic
           /\ SourcesExact' <=> SourcesExact
           /\ RootsCovered' <=> RootsCovered
           /\ Bound' <=> Bound
           /\ Bundleable' <=> Bundleable
<1>1. inputs_kept
      OBVIOUS
<1> USE NamesDecide
<1>2. (ClosureOrdered' <=> ClosureOrdered) /\ (RootsOwned' <=> RootsOwned)
      BY DEF ClosureOrdered, RootsOwned
<1>3. OwnersAcyclic' <=> OwnersAcyclic
  <2>1. [m \in OwnerModules |-> owner_dependencies(m)]' = [m \in OwnerModules |-> owner_dependencies(m)]
        OBVIOUS
  <2> QED
      BY <2>1 DEF OwnersAcyclic, Acyclic
<1>4. OwnersLocal' <=> OwnersLocal
      BY DEF OwnersLocal, inputs_kept, closure_inputs
<1>5. /\ AllCovered' <=> AllCovered
      /\ NothingStray' <=> NothingStray
      /\ NeededAcyclic' <=> NeededAcyclic
      BY DEF AllCovered, NothingStray, NeededAcyclic, Acyclic
<1>6. (SourcesExact' <=> SourcesExact) /\ (RootsCovered' <=> RootsCovered)
      BY DEF SourcesExact, RootsCovered
<1>7. /\ SourcesAnchored' <=> SourcesAnchored
      /\ BaseForeign' <=> BaseForeign
      /\ SourcesOwned' <=> SourcesOwned
      /\ RootsApart' <=> RootsApart
      /\ Based' <=> Based
      BY DEF SourcesAnchored, BaseForeign, SourcesOwned, RootsApart, Based
<1>8. Bound' <=> Bound
      BY <1>7 DEF Bound
<1>9. (Traced' <=> Traced) /\ (Found' <=> Found)
      BY <1>2, <1>3, <1>4, <1>5, <1>6 DEF Traced, Found
<1>10. Bundleable' <=> Bundleable
  <2>1. Bundleable <=> Traced /\ Found /\ Bound
        BY BundleableParts
  <2>2. (Bundleable <=> Traced /\ Found /\ Bound)'
        BY BundleableParts, PTL
  <2> QED
      BY <2>1, <2>2, <1>8, <1>9
<1> QED
    BY <1>2, <1>3, <1>4, <1>5, <1>6, <1>8, <1>10

(* The closure is admitted exactly when its dependencies come first.       *)
LEMMA AdmitDecides ==
    ASSUME ClosureTypes
    PROVE  ClosureOrdered <=>
               \A i \in DOMAIN closure : local_dependencies(closure[i]) \subseteq Earlier(closure, i)
<1>1. closure \in Seq(Name) /\ \A i, j \in DOMAIN closure : closure[i] = closure[j] => i = j
      BY DEF ClosureTypes, OrderOf
<1>2. Owned = {closure[i] : i \in DOMAIN closure}
      BY DEF Owned, ToSet
<1>3. ASSUME ClosureOrdered, NEW i \in DOMAIN closure, NEW e \in local_dependencies(closure[i])
      PROVE  e \in Earlier(closure, i)
  <2>1. PICK j \in DOMAIN closure : e = closure[j]
        BY <1>2, LocalNames
  <2>2. j < i /\ DOMAIN closure = 1..Len(closure) /\ Len(closure) \in Nat
        BY <1>1, <1>3, <2>1 DEF ClosureOrdered
  <2> QED
      BY <2>1, <2>2 DEF Earlier
<1>4. ASSUME \A i \in DOMAIN closure : local_dependencies(closure[i]) \subseteq Earlier(closure, i),
             NEW i \in DOMAIN closure, NEW j \in DOMAIN closure,
             closure[j] \in local_dependencies(closure[i])
      PROVE  j < i
  <2>1. PICK k \in 1..(i - 1) : closure[j] = closure[k]
        BY <1>4 DEF Earlier
  <2>2. DOMAIN closure = 1..Len(closure) /\ Len(closure) \in Nat
        BY <1>1
  <2>3. k \in DOMAIN closure
        BY <2>2
  <2> QED
      BY <1>1, <2>1, <2>2, <2>3
<1> QED
    BY <1>3, <1>4 DEF ClosureOrdered

LEMMA AdmitStep == CloseInv /\ admit_closure => CloseInv'
<1> SUFFICES ASSUME CloseInv, admit_closure PROVE CloseInv'
    OBVIOUS
<1>1. inputs_kept /\ owners' = owners /\ UNCHANGED <<visiting, visited, ordered>>
      BY DEF admit_closure
<1>2. ClosureTypes /\ owners = << >> /\ visiting = << >> /\ visited = {} /\ ordered = << >>
      BY DEF CloseInv, admit_closure
<1>3. \/ stage' = "owners" /\ ClosureOrdered /\ RootsOwned
      \/ stage' \in {"non-topological-declaration", "root-outside-closure"} /\ ~(ClosureOrdered /\ RootsOwned)
      BY <1>2, AdmitDecides DEF admit_closure, Result, RootsOwned
<1>4. Waves'
      BY <1>1, <1>2 DEF Waves
<1>5. ~(ClosureOrdered /\ RootsOwned) => ~Bundleable
      BY BundleableParts DEF Traced
<1>6. /\ ClosureTypes' /\ (ClosureOrdered' <=> ClosureOrdered) /\ (RootsOwned' <=> RootsOwned)
      /\ (Bundleable' <=> Bundleable)
      BY <1>1, <1>2, NamesDecide, InputsDecide
<1> QED
    BY <1>1, <1>2, <1>3, <1>4, <1>5, <1>6
    DEF CloseInv, AfterAdmit, AfterOwners, AfterExpand, AfterOrder, Verdicts

(* Owner modules that are none of them ready depend on each other.         *)
LEMMA NoneReady ==
    ASSUME NEW emitted, NEW m \in OwnerModules \ emitted,
           \A k \in OwnerModules \ emitted : ~(owner_dependencies(k) \subseteq emitted)
    PROVE  ~OwnersAcyclic
<1> DEFINE rest == OwnerModules \ emitted
           next == [k \in OwnerModules |-> owner_dependencies(k)]
<1>1. ASSUME NEW k \in rest PROVE ~(next[k] \cap rest \subseteq {k})
  <2>1. PICK e \in owner_dependencies(k) : e \notin emitted
        OBVIOUS
  <2>2. e \in OwnerModules \ {k}
        BY <2>1, OwnerNames
  <2> QED
      BY <2>1, <2>2
<1>2. rest \in (SUBSET OwnerModules) \ {{}}
      OBVIOUS
<1> HIDE DEF rest
<1>3. ~Acyclic(OwnerModules, next)
      BY <1>1, <1>2 DEF Acyclic
<1> QED
    BY <1>3 DEF OwnersAcyclic

(* When every owner module is in a wave none depends on itself through     *)
(* others: the earliest of any of them depends on none of these.           *)
LEMMA WavesAcyclic ==
    ASSUME Waves, UNION ToSet(owners) = OwnerModules
    PROVE  OwnersAcyclic
<1> DEFINE next == [k \in OwnerModules |-> owner_dependencies(k)]
<1> SUFFICES ASSUME NEW some \in (SUBSET OwnerModules) \ {{}}
             PROVE  \E n \in some : next[n] \cap some \subseteq {n}
    BY DEF OwnersAcyclic, Acyclic
<1> DEFINE I == {i \in DOMAIN owners : owners[i] \cap some # {}}
<1>1. DOMAIN owners \subseteq Nat
      BY DEF Waves
<1>2. I # {}
      BY DEF ToSet
<1>3. PICK i \in I : \A j \in I : i <= j
      BY <1>1, <1>2, LeastNat
<1>4. PICK m \in some : m \in owners[i]
      BY <1>3
<1>5. ASSUME NEW e \in next[m] \cap some PROVE FALSE
  <2>1. e \in owner_dependencies(m)
        BY <1>5
  <2>2. PICK j \in DOMAIN owners : j < i /\ e \in owners[j]
        BY <1>3, <1>4, <2>1 DEF Waves
  <2>3. j \in I
        BY <2>2, <1>5
  <2> QED
      BY <1>1, <1>3, <2>2, <2>3
<1> QED
    BY <1>5

LEMMA WaveKept ==
    ASSUME Waves, inputs_kept, NEW wave,
           wave \subseteq OwnerModules \ UNION ToSet(owners),
           \A m \in wave : owner_dependencies(m) \subseteq UNION ToSet(owners),
           owners' = Append(owners, wave)
    PROVE  Waves'
<1>1. /\ OwnerModules' = OwnerModules
      /\ \A m : owner_dependencies(m)' = owner_dependencies(m)
      BY NamesDecide, InputsDecide
<1>2. owners \in Seq(SUBSET OwnerModules) /\ wave \in SUBSET OwnerModules
      BY DEF Waves
<1>3. owners' \in Seq(SUBSET OwnerModules) /\ DOMAIN owners' = 1..(Len(owners) + 1)
      /\ Len(owners) \in Nat /\ DOMAIN owners = 1..Len(owners)
      BY <1>2
<1>4. /\ \A i \in DOMAIN owners : owners'[i] = owners[i]
      /\ owners'[Len(owners) + 1] = wave
      BY <1>2
<1>5. \A i \in DOMAIN owners' : i \in DOMAIN owners \/ i = Len(owners) + 1
      BY <1>3
<1>6. DOMAIN owners \subseteq DOMAIN owners' /\ DOMAIN owners \subseteq Nat
      /\ \A i \in DOMAIN owners : i < Len(owners) + 1 /\ ~(Len(owners) + 1 < i)
      BY <1>3
<1>7. ASSUME NEW i \in DOMAIN owners', NEW m \in owners'[i]
      PROVE  /\ \A e \in owner_dependencies(m) : \E j \in DOMAIN owners' : j < i /\ e \in owners'[j]
             /\ \A j \in DOMAIN owners' : j < i => m \notin owners'[j]
  <2>1. CASE i \in DOMAIN owners
        BY <2>1, <1>4, <1>5, <1>6, <1>7 DEF Waves
  <2>2. CASE i = Len(owners) + 1
    <3>1. m \in wave
          BY <2>2, <1>4
    <3>2. ASSUME NEW e \in owner_dependencies(m)
          PROVE  \E j \in DOMAIN owners' : j < i /\ e \in owners'[j]
      <4>1. PICK j \in DOMAIN owners : e \in owners[j]
            BY <3>1 DEF ToSet
      <4> QED
          BY <4>1, <2>2, <1>4, <1>6
    <3>3. ASSUME NEW j \in DOMAIN owners', j < i PROVE m \notin owners'[j]
      <4>1. j \in DOMAIN owners
            BY <3>3, <2>2, <1>5, <1>3
      <4> QED
          BY <4>1, <3>1, <1>4 DEF ToSet
    <3> QED
        BY <3>2, <3>3
  <2> QED
      BY <2>1, <2>2, <1>5
<1> QED
    BY <1>1, <1>3, <1>7 DEF Waves

LEMMA OwnersStep == CloseInv /\ emit_ready_owners => CloseInv'
<1> SUFFICES ASSUME CloseInv, emit_ready_owners PROVE CloseInv'
    OBVIOUS
<1> DEFINE emitted == UNION ToSet(owners)
           wave == {m \in OwnerModules \ emitted : owner_dependencies(m) \subseteq emitted}
<1>1. inputs_kept /\ UNCHANGED <<visiting, visited, ordered>>
      BY DEF emit_ready_owners
<1>2. ClosureTypes /\ ClosureOrdered /\ RootsOwned /\ Waves /\ visiting = << >> /\ visited = {} /\ ordered = << >>
      BY DEF CloseInv, emit_ready_owners, AfterAdmit
<1>3. /\ ClosureTypes' /\ ClosureOrdered' /\ RootsOwned' /\ (Bundleable' <=> Bundleable)
      /\ (OwnersAcyclic' <=> OwnersAcyclic) /\ OwnerModules' = OwnerModules
      /\ \A m : owner_dependencies(m)' = owner_dependencies(m)
      BY <1>1, <1>2, NamesDecide, InputsDecide
<1>4. /\ emitted \subseteq OwnerModules
      BY <1>2 DEF Waves, ToSet
<1>5. CASE emitted = OwnerModules
  <2>1. stage' = "select" /\ owners' = owners
        BY <1>5 DEF emit_ready_owners, Result
  <2>2. OwnersAcyclic'
        BY <1>2, <1>3, <1>5, WavesAcyclic
  <2>3. Waves'
        BY <1>2, <1>3, <2>1 DEF Waves
  <2>4. (UNION ToSet(owners) = OwnerModules)'
        BY <1>3, <1>5, <2>1
  <2> QED
      BY <1>1, <1>2, <1>3, <2>1, <2>2, <2>3, <2>4
      DEF CloseInv, AfterAdmit, AfterOwners, AfterExpand, AfterOrder, Verdicts
<1>6. CASE emitted # OwnerModules
  <2>1. /\ owners' = Append(owners, wave)
        /\ \/ stage' = "owners"
           \/ stage' = "owner-module-cycle" /\ wave = {}
        BY <1>6 DEF emit_ready_owners, Result
  <2>2. Waves'
    <3>1. /\ wave \subseteq OwnerModules \ UNION ToSet(owners)
          /\ \A m \in wave : owner_dependencies(m) \subseteq UNION ToSet(owners)
          OBVIOUS
    <3> HIDE DEF wave, emitted
    <3> QED
        BY <1>1, <1>2, <2>1, <3>1, WaveKept
  <2>3. wave = {} => ~Bundleable
    <3>1. wave = {} => \A k \in OwnerModules \ emitted : ~(owner_dependencies(k) \subseteq emitted)
          OBVIOUS
    <3>2. \E m : m \in OwnerModules \ emitted
          BY <1>4, <1>6
    <3> HIDE DEF emitted
    <3> QED
        BY <3>1, <3>2, NoneReady, BundleableParts DEF Traced
  <2> QED
      BY <1>1, <1>2, <1>3, <2>1, <2>2, <2>3
      DEF CloseInv, AfterAdmit, AfterOwners, AfterExpand, AfterOrder, Verdicts
<1> QED
    BY <1>5, <1>6

LEMMA WavesKept ==
    ASSUME Waves, inputs_kept, owners' = owners
    PROVE  Waves' /\ ((UNION ToSet(owners) = OwnerModules) => (UNION ToSet(owners) = OwnerModules)')
BY NamesDecide, InputsDecide DEF Waves

LEMMA SelectStep == CloseInv /\ select_documents => CloseInv'
<1> SUFFICES ASSUME CloseInv, select_documents PROVE CloseInv'
    OBVIOUS
<1>1. /\ inputs_kept /\ UNCHANGED <<owners, visiting, visited, ordered>>
      BY DEF select_documents
<1>2. /\ ClosureTypes /\ ClosureOrdered /\ RootsOwned /\ Waves /\ OwnersAcyclic
      /\ UNION ToSet(owners) = OwnerModules
      /\ visiting = << >> /\ visited = {} /\ ordered = << >>
      BY DEF CloseInv, select_documents, AfterAdmit, AfterOwners
<1>3. /\ ClosureTypes' /\ ClosureOrdered' /\ RootsOwned' /\ OwnersAcyclic' /\ Chosen' = Chosen
      /\ Needed' = Needed /\ (Bundleable' <=> Bundleable)
      /\ (OwnersLocal' <=> OwnersLocal) /\ (AllCovered' <=> AllCovered)
      BY <1>1, <1>2, NamesDecide, InputsDecide
<1>4. Waves' /\ (UNION ToSet(owners) = OwnerModules)'
      BY <1>1, <1>2, WavesKept
<1>5. CASE OwnersLocal /\ AllCovered
  <2>1. stage' = "expand" /\ selected' = Chosen /\ pending' = Chosen
        BY <1>5 DEF select_documents, Result, OwnersLocal, AllCovered
  <2>2. Chosen \subseteq Needed
        BY <1>2, <1>5, CoveredNames, NeededClosed DEF AllCovered
  <2>3. Expansion'
        BY <1>3, <2>1, <2>2 DEF Expansion
  <2> QED
      BY <1>1, <1>2, <1>3, <1>4, <1>5, <2>1, <2>3
      DEF CloseInv, AfterAdmit, AfterOwners, AfterExpand, AfterOrder, Verdicts
<1>6. CASE ~(OwnersLocal /\ AllCovered)
  <2>1. stage' \in {"external-proof-base-required", "lean-constant-without-source-declaration"}
        BY <1>6 DEF select_documents, Result, OwnersLocal, AllCovered
  <2>2. ~Bundleable
        BY <1>6, BundleableParts DEF Traced, Found
  <2> QED
      BY <1>3, <2>1, <2>2
      DEF CloseInv, AfterAdmit, AfterOwners, AfterExpand, AfterOrder, Verdicts
<1> QED
    BY <1>5, <1>6

LEMMA ExpandStep == CloseInv /\ expand_pending => CloseInv'
<1> SUFFICES ASSUME CloseInv, expand_pending PROVE CloseInv'
    OBVIOUS
<1>1. /\ inputs_kept /\ UNCHANGED <<owners, visiting, visited, ordered>>
      BY DEF expand_pending
<1>2. /\ ClosureTypes /\ ClosureOrdered /\ RootsOwned /\ Waves /\ OwnersAcyclic
      /\ UNION ToSet(owners) = OwnerModules /\ OwnersLocal /\ AllCovered
      /\ Expansion /\ visiting = << >> /\ visited = {} /\ ordered = << >>
      BY DEF CloseInv, expand_pending, AfterAdmit, AfterOwners
<1>3. /\ ClosureTypes' /\ ClosureOrdered' /\ RootsOwned' /\ OwnersAcyclic' /\ OwnersLocal' /\ AllCovered'
      /\ Chosen' = Chosen /\ Needed' = Needed /\ (Bundleable' <=> Bundleable) /\ links' = links
      BY <1>1, <1>2, NamesDecide, InputsDecide
<1>4. Waves' /\ (UNION ToSet(owners) = OwnerModules)'
      BY <1>1, <1>2, WavesKept
<1>5. PICK n \in pending :
          IF NoDocument \in links[n]
          THEN /\ stage' = "local-dependency-without-source-declaration"
               /\ UNCHANGED <<selected, pending>>
          ELSE /\ selected' = selected \cup links[n]
               /\ pending' = (pending \ {n}) \cup (links[n] \ selected)
               /\ stage' = IF pending' = {} THEN "order" ELSE "expand"
      BY DEF expand_pending, Result
<1>6. n \in Needed /\ n \in Name
      BY <1>2, NeededClosed, CoveredNames DEF Expansion
<1>7. CASE NoDocument \in links[n]
  <2>1. ~Bundleable
        BY <1>6, <1>7, BundleableParts DEF Found, NothingStray
  <2>2. stage' = "local-dependency-without-source-declaration"
        BY <1>5, <1>7
  <2> QED
      BY <1>3, <2>1, <2>2
      DEF CloseInv, AfterAdmit, AfterOwners, AfterExpand, AfterOrder, Verdicts
<1>8. CASE NoDocument \notin links[n]
  <2>1. /\ selected' = selected \cup links[n]
        /\ pending' = (pending \ {n}) \cup (links[n] \ selected)
        /\ stage' = IF pending' = {} THEN "order" ELSE "expand"
        BY <1>5, <1>8
  <2>2. links[n] \subseteq Needed
    <3>1. links[n] \subseteq documents
          BY <1>2, <1>6, <1>8, CoveredNames
    <3> QED
        BY <1>2, <1>6, <3>1, NeededClosed
  <2>3. Expansion'
        BY <1>2, <1>3, <2>1, <2>2 DEF Expansion
  <2>4. Descent'
    <3>1. OrderOf(<< >>, selected')
          BY DEF OrderOf
    <3>2. ToSet(<< >>) = {}
          BY DEF ToSet
    <3> QED
        BY <1>1, <1>2, <3>1, <3>2 DEF Descent
  <2> QED
      BY <1>1, <1>2, <1>3, <1>4, <2>1, <2>3, <2>4
      DEF CloseInv, AfterAdmit, AfterOwners, AfterExpand, AfterOrder, Verdicts
<1> QED
    BY <1>7, <1>8

(* When nothing is pending the documents selected are those needed, and    *)
(* none depends on a name without a document.                              *)
LEMMA ExpansionExact ==
    ASSUME ClosureTypes, Expansion, pending = {}
    PROVE  /\ selected = Needed /\ selected \subseteq documents /\ selected \subseteq Name
           /\ \A n \in selected : links[n] \subseteq selected
           /\ NothingStray
<1>1. /\ \A n \in selected : links[n] \subseteq selected
      /\ Chosen \subseteq selected /\ selected \subseteq Needed /\ Needed \subseteq documents
      BY NeededClosed DEF Expansion
<1>2. Needed \subseteq selected
      BY <1>1, NeededLeast DEF Saturated
<1>3. NoDocument \notin documents /\ documents \subseteq Name
      BY CoveredNames
<1>4. NothingStray
      BY <1>1, <1>2, <1>3 DEF NothingStray
<1> QED
    BY <1>1, <1>2, <1>3, <1>4

(* A member of a set of names is its least.                                *)
LEMMA LeastMember ==
    ASSUME NEW set, set \subseteq Name, set # {}
    PROVE  Least(set) \in set
<1>1. set \subseteq Nat
      BY MaxNameAssumption DEF Name
<1>2. \E n \in set : \A m \in set : n <= m
      BY <1>1, LeastNat
<1> QED
    BY <1>2 DEF Least

(* Declarations visited in dependency order do not depend on each other in *)
(* a cycle.                                                                *)
LEMMA OrderedAcyclic ==
    ASSUME ClosureTypes, Expansion, pending = {}, Descent, visited = selected
    PROVE  NeededAcyclic
<1>1. selected = Needed /\ \A n \in selected : links[n] \subseteq selected
      BY ExpansionExact
<1> SUFFICES ASSUME NEW some \in (SUBSET Needed) \ {{}}
             PROVE  \E n \in some : links[n] \cap some \subseteq {n}
    BY DEF NeededAcyclic, Acyclic
<1> DEFINE I == {i \in DOMAIN ordered : ordered[i] \in some}
<1>2. DOMAIN ordered \subseteq Nat
      BY DEF Descent, OrderOf
<1>3. I # {}
      BY <1>1 DEF Descent, ToSet
<1>4. PICK i \in I : \A j \in I : i <= j
      BY <1>2, <1>3, LeastNat
<1>5. ASSUME NEW e \in links[ordered[i]] \cap some, e # ordered[i] PROVE FALSE
  <2>1. e \in source_dependencies(ordered[i])
        BY <1>1, <1>5 DEF source_dependencies
  <2>2. PICK j \in 1..(i - 1) : e = ordered[j]
        BY <2>1 DEF Descent, Earlier
  <2>3. j \in DOMAIN ordered
        BY <2>2, <1>4 DEF Descent, OrderOf
  <2>4. j \in I
        BY <2>2, <2>3, <1>5
  <2> QED
      BY <1>2, <1>4, <2>2, <2>3, <2>4
<1> QED
    BY <1>4, <1>5

(* A dependency that is being visited closes a cycle: the declarations     *)
(* visited from it on each lead to another of them.                        *)
LEMMA VisitingCycle ==
    ASSUME ClosureTypes, Expansion, pending = {}, Descent, visiting # << >>,
           NEW e \in source_dependencies(visiting[Len(visiting)]), e \in ToSet(visiting)
    PROVE  ~NeededAcyclic
<1>1. selected = Needed
      BY ExpansionExact
<1>2. /\ visiting \in Seq(selected) /\ Len(visiting) \in Nat /\ DOMAIN visiting = 1..Len(visiting)
      /\ Len(visiting) >= 1
      BY DEF Descent, OrderOf
<1>3. PICK p \in DOMAIN visiting : e = visiting[p]
      BY DEF ToSet
<1> DEFINE some == {visiting[i] : i \in p..Len(visiting)}
<1>4. some \in (SUBSET Needed) \ {{}}
  <2>1. \A i \in p..Len(visiting) : visiting[i] \in selected
        BY <1>2
  <2>2. e \in some
        BY <1>2, <1>3
  <2> QED
      BY <1>1, <2>1, <2>2
<1>5. ASSUME NEW n \in some PROVE ~(links[n] \cap some \subseteq {n})
  <2>1. PICK i \in p..Len(visiting) : n = visiting[i]
        OBVIOUS
  <2>2. CASE i = Len(visiting)
        BY <2>1, <2>2, <1>2, <1>3 DEF source_dependencies
  <2>3. CASE i # Len(visiting)
    <3> HIDE DEF some
    <3>0. p \in Int /\ i \in Int /\ p >= 1 /\ i >= p /\ i <= Len(visiting)
          BY <1>2, <1>3, <2>1
    <3>1. i + 1 \in p..Len(visiting) /\ i + 1 \in DOMAIN visiting /\ i + 1 > 1 /\ (i + 1) - 1 = i
      <4> DEFINE l == Len(visiting)
      <4>1. l \in Nat /\ i # l /\ i <= l /\ DOMAIN visiting = 1..l
            BY <1>2, <2>3, <3>0
      <4> HIDE DEF l
      <4>2. i + 1 \in p..l /\ i + 1 \in 1..l /\ i + 1 > 1 /\ (i + 1) - 1 = i
            BY <3>0, <4>1
      <4> QED
          BY <4>1, <4>2 DEF l
    <3>2. visiting[i + 1] \in source_dependencies(n)
      <4>1. \A k \in DOMAIN visiting : k > 1 => visiting[k] \in source_dependencies(visiting[k - 1])
            BY DEF Descent
      <4>2. visiting[i + 1] \in source_dependencies(visiting[(i + 1) - 1])
            BY <3>1, <4>1
      <4> QED
          BY <2>1, <3>1, <4>2
    <3>3. visiting[i + 1] \in some
          BY <3>1 DEF some
    <3> QED
        BY <3>2, <3>3 DEF source_dependencies
  <2> QED
      BY <2>2, <2>3
<1> HIDE DEF some
<1> QED
    BY <1>4, <1>5 DEF NeededAcyclic, Acyclic

LEMMA OrderAppend ==
    ASSUME NEW set, NEW s, OrderOf(s, set), NEW e \in set, e \notin ToSet(s)
    PROVE  /\ OrderOf(Append(s, e), set) /\ ToSet(Append(s, e)) = ToSet(s) \cup {e}
           /\ Len(s) \in Nat /\ DOMAIN s = 1..Len(s)
           /\ DOMAIN Append(s, e) = 1..(Len(s) + 1)
           /\ \A i \in DOMAIN s : Append(s, e)[i] = s[i] /\ s[i] \in set
           /\ Append(s, e)[Len(s) + 1] = e
           /\ \A i \in DOMAIN Append(s, e) : i \in DOMAIN s \/ i = Len(s) + 1
<1>1. s \in Seq(set) /\ Append(s, e) \in Seq(set) /\ Len(s) \in Nat /\ DOMAIN s = 1..Len(s)
      BY DEF OrderOf
<1>2. /\ DOMAIN Append(s, e) = 1..(Len(s) + 1)
      /\ \A i \in DOMAIN s : Append(s, e)[i] = s[i] /\ s[i] \in set
      /\ Append(s, e)[Len(s) + 1] = e
      BY <1>1
<1>3. /\ \A i \in DOMAIN Append(s, e) : i \in DOMAIN s \/ i = Len(s) + 1
      /\ \A i \in DOMAIN s : i \in DOMAIN Append(s, e)
      /\ Len(s) + 1 \in DOMAIN Append(s, e)
      BY <1>1, <1>2
<1>4. ToSet(s) = {s[i] : i \in DOMAIN s} /\ ToSet(Append(s, e)) = {Append(s, e)[i] : i \in DOMAIN Append(s, e)}
      BY ToSetIs
<1> HIDE DEF ToSet
<1>5. ToSet(Append(s, e)) = ToSet(s) \cup {e}
      BY <1>2, <1>3, <1>4
<1>6. ASSUME NEW i \in DOMAIN Append(s, e), NEW j \in DOMAIN Append(s, e), Append(s, e)[i] = Append(s, e)[j]
      PROVE  i = j
      BY <1>2, <1>3, <1>4, <1>6 DEF OrderOf
<1> QED
    BY <1>1, <1>2, <1>3, <1>5, <1>6 DEF OrderOf

LEMMA OrderFront ==
    ASSUME NEW set, NEW s, OrderOf(s, set), s # << >>
    PROVE  /\ OrderOf(Front(s), set) /\ ToSet(Front(s)) = ToSet(s) \ {s[Len(s)]}
           /\ Len(s) \in Nat /\ Len(s) \in DOMAIN s /\ s[Len(s)] \in set
           /\ DOMAIN s = 1..Len(s) /\ DOMAIN Front(s) = 1..(Len(s) - 1)
           /\ \A i \in DOMAIN Front(s) : Front(s)[i] = s[i]
<1>1. s \in Seq(set) /\ Len(s) \in Nat /\ Len(s) >= 1 /\ DOMAIN s = 1..Len(s)
      BY DEF OrderOf
<1>2. Front(s) = SubSeq(s, 1, Len(s) - 1)
      BY DEF Front
<1>3. /\ Front(s) \in Seq(set) /\ DOMAIN Front(s) = 1..(Len(s) - 1)
      /\ \A i \in 1..(Len(s) - 1) : Front(s)[i] = s[i]
      BY <1>1, <1>2
<1>4. /\ Len(s) \in DOMAIN s
      /\ \A i \in DOMAIN s : i \in DOMAIN Front(s) \/ i = Len(s)
      /\ \A i \in DOMAIN Front(s) : i \in DOMAIN s /\ i # Len(s)
      BY <1>1, <1>3
<1>5. ToSet(s) = {s[i] : i \in DOMAIN s} /\ ToSet(Front(s)) = {Front(s)[i] : i \in DOMAIN Front(s)}
      BY ToSetIs
<1>6. ToSet(Front(s)) = ToSet(s) \ {s[Len(s)]}
  <2>1. \A i \in DOMAIN Front(s) : Front(s)[i] = s[i]
        BY <1>3
  <2>2. \A i, j \in DOMAIN s : s[i] = s[j] => i = j
        BY DEF OrderOf
  <2> QED
      BY <1>4, <1>5, <2>1, <2>2
<1>7. \A i, j \in DOMAIN Front(s) : Front(s)[i] = Front(s)[j] => i = j
      BY <1>3, <1>4 DEF OrderOf
<1> QED
    BY <1>1, <1>3, <1>4, <1>6, <1>7 DEF OrderOf

LEMMA EarlierAppend ==
    ASSUME NEW set, NEW s \in Seq(set), NEW e \in set
    PROVE  /\ \A i \in DOMAIN s : Earlier(Append(s, e), i) = Earlier(s, i)
           /\ Earlier(Append(s, e), Len(s) + 1) = ToSet(s)
<1>1. Len(s) \in Nat /\ DOMAIN s = 1..Len(s) /\ \A i \in DOMAIN s : Append(s, e)[i] = s[i]
      OBVIOUS
<1>2. ASSUME NEW i \in DOMAIN s PROVE Earlier(Append(s, e), i) = Earlier(s, i)
  <2>1. \A j \in 1..(i - 1) : Append(s, e)[j] = s[j]
        BY <1>1
  <2> QED
      BY <2>1 DEF Earlier
<1>3. Earlier(Append(s, e), Len(s) + 1) = ToSet(s)
  <2>1. (Len(s) + 1) - 1 = Len(s)
        BY <1>1
  <2> QED
      BY <1>1, <2>1 DEF Earlier, ToSet
<1> QED
    BY <1>2, <1>3

(* A visit descends into a dependency that is not being visited, or starts *)
(* at a declaration.                                                       *)
LEMMA Descend ==
    ASSUME Descent, UNCHANGED <<links, selected, visited, ordered>>,
           NEW e \in selected \ visited, e \notin ToSet(visiting),
           visiting # << >> => e \in source_dependencies(visiting[Len(visiting)]),
           visiting' = Append(visiting, e)
    PROVE  Descent'
<1>1. OrderOf(visiting, selected)
      BY DEF Descent
<1>2. /\ OrderOf(visiting', selected) /\ ToSet(visiting') = ToSet(visiting) \cup {e}
      /\ Len(visiting) \in Nat /\ DOMAIN visiting = 1..Len(visiting)
      /\ \A i \in DOMAIN visiting : visiting'[i] = visiting[i]
      /\ visiting'[Len(visiting) + 1] = e
      /\ \A i \in DOMAIN visiting' : i \in DOMAIN visiting \/ i = Len(visiting) + 1
  <2> HIDE DEF ToSet
  <2> QED
      BY <1>1, OrderAppend
<1>3. \A n : source_dependencies(n)' = source_dependencies(n)
      BY DEF source_dependencies
<1>4. ASSUME NEW i \in DOMAIN visiting', i > 1 PROVE visiting'[i] \in source_dependencies(visiting'[i - 1])
  <2>1. CASE i \in DOMAIN visiting
    <3>1. i - 1 \in DOMAIN visiting
          BY <1>2, <1>4, <2>1
    <3> QED
        BY <1>2, <1>4, <2>1, <3>1 DEF Descent
  <2>2. CASE i = Len(visiting) + 1
    <3>1. i - 1 = Len(visiting) /\ Len(visiting) \in DOMAIN visiting /\ visiting # << >>
          BY <1>2, <1>4, <2>2
    <3> QED
        BY <1>2, <2>2, <3>1
  <2> QED
      BY <1>2, <2>1, <2>2
<1>5. ToSet(visiting') \cap visited = {}
      BY <1>2 DEF Descent
<1> QED
    BY <1>2, <1>3, <1>4, <1>5 DEF Descent, Earlier

(* A declaration is visited when its dependencies are.                     *)
LEMMA Visited ==
    ASSUME Descent, UNCHANGED <<links, selected>>, visiting # << >>,
           source_dependencies(visiting[Len(visiting)]) \subseteq visited,
           visiting' = Front(visiting), visited' = visited \cup {visiting[Len(visiting)]},
           ordered' = Append(ordered, visiting[Len(visiting)])
    PROVE  Descent'
<1> DEFINE n == visiting[Len(visiting)]
<1>1. OrderOf(visiting, selected) /\ OrderOf(ordered, selected) /\ visited = ToSet(ordered)
      BY DEF Descent
<1>2. /\ OrderOf(visiting', selected) /\ ToSet(visiting') = ToSet(visiting) \ {n}
      /\ Len(visiting) \in Nat /\ Len(visiting) \in DOMAIN visiting /\ n \in selected
      /\ DOMAIN visiting = 1..Len(visiting) /\ DOMAIN visiting' = 1..(Len(visiting) - 1)
      /\ \A i \in DOMAIN visiting' : visiting'[i] = visiting[i]
      BY <1>1, OrderFront
<1>3. n \in ToSet(visiting) /\ n \notin ToSet(ordered)
  <2>1. n \in ToSet(visiting)
        BY <1>2, ToSetIs
  <2> QED
      BY <2>1 DEF Descent
<1> HIDE DEF n
<1>4. ordered' = Append(ordered, n) /\ visited' = visited \cup {n}
      BY DEF n
<1>5. /\ OrderOf(ordered', selected) /\ ToSet(ordered') = ToSet(ordered) \cup {n}
      /\ Len(ordered) \in Nat /\ DOMAIN ordered = 1..Len(ordered)
      /\ \A i \in DOMAIN ordered : ordered'[i] = ordered[i]
      /\ ordered'[Len(ordered) + 1] = n
      /\ \A i \in DOMAIN ordered' : i \in DOMAIN ordered \/ i = Len(ordered) + 1
      BY <1>1, <1>2, <1>3, <1>4, OrderAppend
<1>6. /\ \A i \in DOMAIN ordered : Earlier(ordered', i) = Earlier(ordered, i)
      /\ Earlier(ordered', Len(ordered) + 1) = ToSet(ordered)
      BY <1>1, <1>2, <1>4, EarlierAppend DEF OrderOf
<1>7. \A k : source_dependencies(k)' = source_dependencies(k)
      BY DEF source_dependencies
<1>8. ASSUME NEW i \in DOMAIN ordered' PROVE source_dependencies(ordered'[i]) \subseteq Earlier(ordered', i)
      BY <1>1, <1>5, <1>6 DEF Descent, n
<1>9. ASSUME NEW i \in DOMAIN visiting', i > 1 PROVE visiting'[i] \in source_dependencies(visiting'[i - 1])
  <2>1. i \in DOMAIN visiting /\ i - 1 \in DOMAIN visiting'
        BY <1>2, <1>9
  <2> QED
      BY <1>2, <1>9, <2>1 DEF Descent
<1>10. visited' = ToSet(ordered') /\ ToSet(visiting') \cap visited' = {}
      BY <1>1, <1>2, <1>4, <1>5 DEF Descent
<1>11. \A i : Earlier(ordered, i)' = Earlier(ordered', i)
      BY DEF Earlier
<1> QED
    BY <1>2, <1>5, <1>7, <1>8, <1>9, <1>10, <1>11 DEF Descent

LEMMA VisitStep == CloseInv /\ visit => CloseInv'
<1> SUFFICES ASSUME CloseInv, visit PROVE CloseInv'
    OBVIOUS
<1>1. /\ stage = "order" /\ inputs_kept /\ UNCHANGED <<owners, selected, pending>>
      BY DEF visit
<1>2. /\ ClosureTypes /\ ClosureOrdered /\ RootsOwned /\ Waves /\ OwnersAcyclic /\ UNION ToSet(owners) = OwnerModules
      /\ OwnersLocal /\ AllCovered /\ Expansion /\ pending = {} /\ Descent
      BY <1>1 DEF CloseInv, AfterAdmit, AfterOwners, AfterExpand
<1>3. /\ ClosureTypes' /\ ClosureOrdered' /\ RootsOwned' /\ OwnersAcyclic' /\ OwnersLocal' /\ AllCovered'
      /\ Chosen' = Chosen /\ Needed' = Needed
      /\ (Bundleable' <=> Bundleable) /\ (NeededAcyclic' <=> NeededAcyclic) /\ links' = links
      BY <1>1, <1>2, NamesDecide, InputsDecide
<1>4. Waves' /\ (UNION ToSet(owners) = OwnerModules)'
      BY <1>1, <1>2, WavesKept
<1>5. Expansion' /\ pending' = {}
      BY <1>1, <1>2, <1>3 DEF Expansion
<1>6. selected \subseteq Name
      BY <1>2, ExpansionExact
<1>7. ASSUME stage' = "order", Descent' PROVE CloseInv'
      BY <1>3, <1>4, <1>5, <1>7
      DEF CloseInv, AfterAdmit, AfterOwners, AfterExpand, AfterOrder, Verdicts
<1>8. CASE visiting = << >> /\ visited = selected
  <2>1. stage' = "roundtrip" /\ UNCHANGED <<visiting, visited, ordered>>
        BY <1>8 DEF visit, Result
  <2>2. NeededAcyclic
        BY <1>2, <1>8, OrderedAcyclic
  <2>3. Descent'
        BY <1>1, <1>2, <1>3, <2>1 DEF Descent, source_dependencies, Earlier
  <2> QED
      BY <1>1, <1>3, <1>4, <1>5, <1>8, <2>1, <2>2, <2>3
      DEF CloseInv, AfterAdmit, AfterOwners, AfterExpand, AfterOrder, Verdicts
<1>9. CASE visiting = << >> /\ visited # selected
  <2> DEFINE e == Least(selected \ visited)
  <2>1. visiting' = <<e>> /\ UNCHANGED <<stage, visited, ordered>>
        BY <1>9 DEF visit
  <2>2. selected \ visited # {}
    <3>1. ordered \in Seq(selected) /\ visited = {ordered[i] : i \in DOMAIN ordered}
          BY <1>2, ToSetIs DEF Descent, OrderOf
    <3>2. visited \subseteq selected
          BY <3>1
    <3> QED
        BY <1>9, <3>2
  <2>3. e \in selected \ visited
        BY <1>6, <2>2, LeastMember
  <2> HIDE DEF e
  <2>4. visiting' = Append(visiting, e) /\ e \notin ToSet(visiting)
    <3>1. ToSet(visiting) = {}
          BY <1>9 DEF ToSet
    <3> QED
        BY <1>9, <2>1, <3>1
  <2>5. Descent'
        BY <1>1, <1>2, <1>3, <1>9, <2>1, <2>3, <2>4, Descend
  <2> QED
      BY <1>1, <1>7, <2>1, <2>5
<1>10. CASE visiting # << >>
  <2> DEFINE n == visiting[Len(visiting)]
             open == source_dependencies(n) \ visited
  <2>1. CASE open = {}
    <3>1. /\ visiting' = Front(visiting) /\ UNCHANGED stage
          /\ visited' = visited \cup {n} /\ ordered' = Append(ordered, n)
          BY <1>10, <2>1 DEF visit
    <3>2. source_dependencies(n) \subseteq visited
          BY <2>1
    <3>3. Descent'
          BY <1>1, <1>2, <1>3, <1>10, <3>1, <3>2, Visited
    <3> QED
        BY <1>1, <1>7, <3>1, <3>3
  <2>2. CASE open # {}
    <3> DEFINE e == Least(open)
    <3>1. open \subseteq selected \ visited
          BY DEF source_dependencies
    <3>2. e \in open
          BY <1>6, <2>2, <3>1, LeastMember
    <3>3. CASE e \in ToSet(visiting)
      <4>1. stage' = "source-declaration-cycle"
            BY <1>10, <2>2, <3>3 DEF visit, Result
      <4>2. ~NeededAcyclic
        <5>1. e \in source_dependencies(visiting[Len(visiting)])
              BY <3>2
        <5> HIDE DEF e
        <5> QED
            BY <1>2, <1>10, <3>3, <5>1, VisitingCycle
      <4>3. ~Bundleable
            BY <4>2, BundleableParts DEF Found
      <4> QED
          BY <1>3, <4>1, <4>3
          DEF CloseInv, AfterAdmit, AfterOwners, AfterExpand, AfterOrder, Verdicts
    <3>4. CASE e \notin ToSet(visiting)
      <4>1. visiting' = Append(visiting, e) /\ UNCHANGED <<stage, visited, ordered>>
            BY <1>10, <2>2, <3>4 DEF visit
      <4>2. e \in selected \ visited /\ e \in source_dependencies(visiting[Len(visiting)])
            BY <3>1, <3>2
      <4> HIDE DEF e
      <4>3. Descent'
            BY <1>1, <1>2, <1>3, <3>4, <4>1, <4>2, Descend
      <4> QED
          BY <1>1, <1>7, <4>1, <4>3
    <3> QED
        BY <3>3, <3>4
  <2> QED
      BY <2>1, <2>2
<1> QED
    BY <1>8, <1>9, <1>10

(* The state of the later stages: nothing but the verdict changes.         *)
LEMMA Settled ==
    ASSUME CloseInv, stage \in {"roundtrip", "project"}, inputs_kept,
           UNCHANGED <<owners, selected, pending, visiting, visited, ordered>>
    PROVE  /\ ClosureTypes' /\ ClosureOrdered' /\ RootsOwned' /\ OwnersAcyclic'
           /\ OwnersLocal' /\ AllCovered' /\ NeededAcyclic'
           /\ Waves' /\ (UNION ToSet(owners) = OwnerModules)'
           /\ Expansion' /\ pending' = {} /\ Descent' /\ visited' = selected'
           /\ (Bundleable' <=> Bundleable) /\ (Bound' <=> Bound)
           /\ (SourcesExact' <=> SourcesExact) /\ (RootsCovered' <=> RootsCovered)
<1>1. /\ ClosureTypes /\ ClosureOrdered /\ RootsOwned /\ Waves /\ OwnersAcyclic
      /\ UNION ToSet(owners) = OwnerModules /\ OwnersLocal /\ AllCovered
      /\ Expansion /\ pending = {} /\ Descent /\ visited = selected /\ NeededAcyclic
      BY DEF CloseInv, AfterAdmit, AfterOwners, AfterExpand, AfterOrder
<1>2. /\ ClosureTypes' /\ ClosureOrdered' /\ RootsOwned' /\ OwnersAcyclic'
      /\ OwnersLocal' /\ AllCovered' /\ NeededAcyclic'
      /\ (Bundleable' <=> Bundleable) /\ (Bound' <=> Bound)
      /\ (SourcesExact' <=> SourcesExact) /\ (RootsCovered' <=> RootsCovered)
      BY <1>1, NamesDecide, InputsDecide
<1>3. Chosen' = Chosen /\ Needed' = Needed /\ links' = links
      BY NamesDecide
<1>4. Waves' /\ (UNION ToSet(owners) = OwnerModules)'
      BY <1>1, WavesKept
<1>5. Expansion' /\ pending' = {} /\ visited' = selected'
      BY <1>1, <1>3 DEF Expansion
<1>6. Descent'
      BY <1>1, <1>3 DEF Descent, source_dependencies, Earlier
<1> QED
    BY <1>2, <1>4, <1>5, <1>6

(* After ordering, the source declarations are the documents needed that   *)
(* the proof base does not have.                                           *)
LEMMA SourceNames ==
    ASSUME CloseInv, stage \in AfterOrder
    PROVE  /\ source_names = Sources /\ Sources = selected \ BaseNames /\ ToSet(ordered) = selected
           /\ selected \subseteq documents /\ selected \subseteq Name
           /\ \A n \in selected : links[n] \subseteq selected
           /\ \A i \in DOMAIN ordered : ordered[i] \in selected
           /\ \A i, j \in DOMAIN ordered : ordered[i] = ordered[j] => i = j
<1>1. /\ ClosureTypes /\ Expansion /\ pending = {} /\ Descent /\ visited = selected
      BY DEF CloseInv, AfterAdmit, AfterOwners, AfterExpand, AfterOrder
<1>2. ToSet(ordered) = selected
      BY <1>1 DEF Descent
<1>3. /\ selected = Needed /\ selected \subseteq documents /\ selected \subseteq Name
      /\ \A n \in selected : links[n] \subseteq selected
      BY <1>1, ExpansionExact
<1>4. \A i \in DOMAIN ordered : ordered[i] \in selected
      BY <1>2 DEF ToSet
<1>5. \A i, j \in DOMAIN ordered : ordered[i] = ordered[j] => i = j
      BY <1>1 DEF Descent, OrderOf
<1> QED
    BY <1>2, <1>3, <1>4, <1>5 DEF source_names, Sources

(* A root has a document of its own exactly when it begins with a source   *)
(* declaration, and then the longest of these.                             *)
LEMMA RootDocuments ==
    ASSUME CloseInv, stage \in AfterOrder, NEW r \in roots
    PROVE  /\ canonical_root(r) = NoDocument <=> within[r] \cap Sources = {}
           /\ canonical_root(r) # NoDocument =>
                  canonical_root(r) \in Sources /\ canonical_root(r) = Longest(within[r] \cap Sources)
<1>1. ClosureTypes /\ RootsOwned
      BY DEF CloseInv, AfterOrder, AfterAdmit
<1>2. r \in Name /\ source_names = Sources /\ Sources \subseteq Name
      BY <1>1, OwnedNames, SourceNames DEF RootsOwned
<1> QED
    BY <1>1, <1>2, Covering DEF canonical_root

LEMMA RoundTripStep == CloseInv /\ round_trip => CloseInv'
<1> SUFFICES ASSUME CloseInv, round_trip PROVE CloseInv'
    OBVIOUS
<1>1. /\ stage = "roundtrip" /\ inputs_kept
      /\ UNCHANGED <<owners, selected, pending, visiting, visited, ordered>>
      BY DEF round_trip
<1>2. source_names = Sources
      BY <1>1, SourceNames DEF AfterOrder
<1>3. (\E r \in roots : canonical_root(r) = NoDocument) <=> ~RootsCovered
      BY <1>1, RootDocuments DEF RootsCovered, AfterOrder
<1>4. \/ stage' = "project" /\ SourcesExact /\ RootsCovered
      \/ stage' \in {"exact-roundtrip-mismatch", "root-without-source-declaration"}
             /\ ~(SourcesExact /\ RootsCovered)
      BY <1>2, <1>3 DEF round_trip, Result, SourcesExact
<1>5. ~(SourcesExact /\ RootsCovered) => ~Bundleable
      BY BundleableParts DEF Found
<1>6. /\ ClosureTypes' /\ ClosureOrdered' /\ RootsOwned' /\ OwnersAcyclic'
      /\ OwnersLocal' /\ AllCovered' /\ NeededAcyclic'
      /\ Waves' /\ (UNION ToSet(owners) = OwnerModules)'
      /\ Expansion' /\ pending' = {} /\ Descent' /\ visited' = selected'
      /\ (Bundleable' <=> Bundleable)
      /\ (SourcesExact' <=> SourcesExact) /\ (RootsCovered' <=> RootsCovered)
      BY <1>1, Settled
<1> QED
    BY <1>4, <1>5, <1>6
    DEF CloseInv, AfterAdmit, AfterOwners, AfterExpand, AfterOrder, Verdicts

(* An anchor is a constant of the closure and stays as it is; aliases and  *)
(* normal names are anchors or the name itself.                            *)
LEMMA AnchorsFixed ==
    ASSUME ClosureTypes
    PROVE  /\ Anchors \subseteq Owned /\ Owned \subseteq Name
           /\ \A a \in Anchors : alias[a] = a /\ normal[a] = a
           /\ \A n \in Name : /\ alias[n] \in Anchors \/ alias[n] = n
                              /\ normal[n] \in Anchors \/ normal[n] = n
                              /\ normal[n] = alias[n] \/ (alias[n] = n /\ normal[n] \in Anchors)
<1>1. Owned \subseteq Name /\ \A n \in Name : within[n] \subseteq Name /\ n \in within[n]
      BY OwnedNames DEF ClosureTypes, Dotted
<1>2. \A n \in Owned : alias[n] \in Owned /\ alias[alias[n]] = alias[n]
      BY DEF ClosureTypes, Aliased
<1>3. Anchors \subseteq Owned /\ \A a \in Anchors : alias[a] = a
      BY <1>2 DEF Anchors
<1>4. ASSUME NEW n \in Name PROVE alias[n] \in Anchors \/ alias[n] = n
  <2>1. CASE n \in Owned
        BY <2>1 DEF Anchors
  <2>2. CASE n \notin Owned /\ within[n] \cap Owned # {}
    <3>1. alias[n] = alias[Longest(within[n] \cap Owned)]
          BY <2>2 DEF ClosureTypes, Aliased
    <3>2. Longest(within[n] \cap Owned) \in Owned
      <4>1. within[n] \cap Owned \subseteq Name
            BY <1>1
      <4> QED
          BY <2>2, <4>1, LongestIn
    <3> QED
        BY <3>1, <3>2 DEF Anchors
  <2>3. CASE n \notin Owned /\ within[n] \cap Owned = {}
        BY <2>3 DEF ClosureTypes, Aliased
  <2> QED
      BY <2>1, <2>2, <2>3
<1>5. ASSUME NEW n \in Name
      PROVE  normal[n] = alias[n] \/ (alias[n] = n /\ within[n] \cap Owned = {} /\ normal[n] \in Anchors)
      BY DEF ClosureTypes, Normalized
<1>6. \A a \in Anchors : normal[a] = a
      BY <1>1, <1>3, <1>5
<1> QED
    BY <1>1, <1>3, <1>4, <1>5, <1>6

(* What is extracted again and is not of the proof base is its own normal  *)
(* name.                                                                   *)
LEMMA SourceFixed ==
    ASSUME CloseInv, SourcesExact, NEW d \in Sources
    PROVE  normal[d] = d
<1>1. ClosureTypes
      BY DEF CloseInv
<1>2. PICK x \in documents : d = normal[x]
      BY DEF SourcesExact
<1>3. x \in Name
      BY <1>1, <1>2 DEF ClosureTypes
<1> QED
    BY <1>1, <1>2, <1>3, AnchorsFixed

(* The owner of a source declaration that is an anchor is never missing;   *)
(* it is refused exactly when it has two, or names itself.                 *)
LEMMA OwnerDecides ==
    ASSUME ClosureTypes, NEW d \in Anchors
    PROVE  refusal(d) = "none" <=>
               d \notin depends[d] /\ \A n, k \in Owned : d \in within[n] \cap within[k] => owner[n] = owner[k]
<1>1. d \in Owned /\ d \in within[d]
      BY AnchorsFixed DEF ClosureTypes, Dotted
<1>2. owner[d] \in owner_modules(d)
      BY <1>1 DEF owner_modules
<1>3. (\E m, k \in owner_modules(d) : m # k) <=>
          ~\A n, k \in Owned : d \in within[n] \cap within[k] => owner[n] = owner[k]
      BY DEF owner_modules
<1> QED
    BY <1>2, <1>3 DEF refusal

LEMMA RefusalIs ==
    ASSUME NEW d, refusal(d) # "none"
    PROVE  refusal(d) \in {"source-declaration-owner-missing", "source-declaration-owner-ambiguous",
                           "self-dependency"}
BY DEF refusal

(* Before the last stage the declarations projected are the anchors.       *)
LEMMA Projected ==
    ASSUME CloseInv, stage = "project"
    PROVE  /\ (exact_names = owned_exact \cup (BaseNames \cap documents)) <=> SourcesAnchored
           /\ Sources \cap Anchors \subseteq owned_exact
           /\ owned_exact \subseteq (Sources \cap Anchors) \cup (BaseNames \cap documents)
           /\ (owned_exact \cap BaseNames = {}) <=> BaseForeign
<1>1. source_names = Sources /\ SourcesExact
      BY SourceNames DEF CloseInv, AfterOrder
<1>2. Sources \cap BaseNames = {}
      BY DEF Sources
<1>3. \A d \in Sources : normal[d] = d
      BY <1>1, SourceFixed
<1>4. exact_names = Sources \cup (BaseNames \cap documents)
      BY <1>1 DEF exact_names
<1>5. \A d : d \in owned_exact <=>
          (d \in Sources /\ d \in Anchors) \/ (d \in BaseNames \cap documents /\ normal[d] \in Anchors)
      BY <1>3, <1>4 DEF owned_exact
<1> QED
    BY <1>2, <1>4, <1>5 DEF SourcesAnchored, BaseForeign

(* What a source declaration depends on comes before it in the bundle.     *)
LEMMA SourcesOrdered ==
    ASSUME CloseInv, stage = "project", BaseForeign, NEW i \in DOMAIN ordered, ordered[i] \in source_names
    PROVE  bundle_dependencies(ordered[i]) \subseteq
               BaseNames \cup (Earlier(ordered, i) \cap source_names)
<1> DEFINE d == ordered[i]
<1>1. /\ source_names = Sources /\ Sources = selected \ BaseNames
      /\ selected \subseteq documents /\ \A n \in selected : links[n] \subseteq selected
      BY SourceNames DEF AfterOrder
<1>2. ClosureTypes /\ SourcesExact /\ Descent
      BY DEF CloseInv, AfterExpand
<1>3. d \in selected /\ documents \subseteq Name /\ d \in Name
      BY <1>1, <1>2 DEF ClosureTypes
<1>4. source_dependencies(d) \subseteq Earlier(ordered, i)
      BY <1>2 DEF Descent
<1> SUFFICES ASSUME NEW e \in depends[d] \cap documents, normal[e] # d, normal[e] \notin BaseNames
             PROVE  normal[e] \in Earlier(ordered, i) \cap source_names
    BY DEF bundle_dependencies
<1>5. normal[e] \in Sources
      BY <1>2 DEF SourcesExact
<1>6. e \in Name /\ covered(e) \in links[d]
      BY <1>3 DEF links
<1>7. normal[e] = alias[e]
  <2>1. SUFFICES ASSUME normal[e] # alias[e] PROVE FALSE
        OBVIOUS
  <2>2. alias[e] = e /\ normal[e] \in Anchors
        BY <1>2, <1>6, <2>1, AnchorsFixed
  <2>3. covered(e) = e
        BY <1>2, <1>6, <2>2, CoveredNames
  <2>4. e \in selected
        BY <1>1, <1>3, <1>6, <2>3
  <2>5. e \notin BaseNames
        BY <2>2 DEF BaseForeign
  <2>6. normal[e] = e
        BY <1>1, <1>2, <2>4, <2>5, SourceFixed
  <2> QED
      BY <2>1, <2>2, <2>6
<1>8. covered(e) = normal[e]
      BY <1>1, <1>2, <1>5, <1>6, <1>7, CoveredNames
<1>9. normal[e] \in source_dependencies(d)
      BY <1>1, <1>3, <1>6, <1>8 DEF source_dependencies
<1> QED
    BY <1>1, <1>4, <1>5, <1>9

(* The proof base is in order exactly when each of its documents comes     *)
(* after those it depends on.                                              *)
LEMMA BaseDecides ==
    ASSUME ClosureTypes
    PROVE  (\A i \in DOMAIN base : base_dependencies(base[i]) \subseteq Earlier(base, i)) <=>
               \A i, j \in DOMAIN base :
                   base[i] \in documents /\ base[j] \in depends[base[i]] \cap documents => j <= i
<1>1. /\ base \in Seq(Name \ Owned) /\ DOMAIN base = 1..Len(base) /\ Len(base) \in Nat
      /\ \A i, j \in DOMAIN base : base[i] = base[j] => i = j
      BY DEF ClosureTypes, OrderOf
<1>2. BaseNames = {base[i] : i \in DOMAIN base}
      BY DEF BaseNames, ToSet
<1>3. \A n, e : e \in base_dependencies(n) <=>
          n \in documents /\ e \in depends[n] \cap documents /\ e \in BaseNames /\ e # n
      BY DEF base_dependencies
<1>4. ASSUME \A i, j \in DOMAIN base :
                 base[i] \in documents /\ base[j] \in depends[base[i]] \cap documents => j <= i,
             NEW i \in DOMAIN base, NEW e \in base_dependencies(base[i])
      PROVE  e \in Earlier(base, i)
  <2>1. PICK j \in DOMAIN base : e = base[j]
        BY <1>2, <1>3, <1>4
  <2>2. j <= i /\ j # i
        BY <1>3, <1>4, <2>1
  <2>3. j \in 1..(i - 1)
        BY <1>1, <2>2
  <2> QED
      BY <2>1, <2>3 DEF Earlier
<1>5. ASSUME \A i \in DOMAIN base : base_dependencies(base[i]) \subseteq Earlier(base, i),
             NEW i \in DOMAIN base, NEW j \in DOMAIN base,
             base[i] \in documents, base[j] \in depends[base[i]] \cap documents
      PROVE  j <= i
  <2>1. CASE base[j] = base[i]
        BY <1>1, <2>1
  <2>2. CASE base[j] # base[i]
    <3>1. base[j] \in Earlier(base, i)
          BY <1>2, <1>3, <1>5, <2>2
    <3>2. PICK k \in 1..(i - 1) : base[j] = base[k]
          BY <3>1 DEF Earlier
    <3>3. k \in DOMAIN base /\ k < i
          BY <1>1
    <3> QED
        BY <1>1, <3>2, <3>3
  <2> QED
      BY <2>1, <2>2
<1> QED
    BY <1>4, <1>5

(* The bundle is admitted exactly when the proof base is foreign and in    *)
(* order and the roots differ.                                             *)
LEMMA BundleDecides ==
    ASSUME CloseInv, stage = "project"
    PROVE  bundle_admitted <=> BaseForeign /\ RootsApart /\ Based
<1>1. ClosureTypes /\ RootsCovered /\ source_names = Sources
      BY SourceNames DEF CloseInv, AfterOrder
<1>2. \A i, j \in DOMAIN ordered : ordered[i] = ordered[j] => i = j
      BY SourceNames DEF AfterOrder
<1>3. \A r \in roots : canonical_root(r) \in source_names /\ canonical_root(r) = Longest(within[r] \cap Sources)
      BY <1>1, RootDocuments DEF RootsCovered, AfterOrder
<1>4. (\A r, q \in roots : canonical_root(r) \in source_names /\ (canonical_root(r) = canonical_root(q) => r = q))
          <=> RootsApart
      BY <1>3 DEF RootsApart
<1>5. (owned_exact \cap BaseNames = {}) <=> BaseForeign
      BY Projected
<1>6. BaseForeign => \A i \in DOMAIN ordered : ordered[i] \in source_names =>
          bundle_dependencies(ordered[i]) \subseteq BaseNames \cup (Earlier(ordered, i) \cap source_names)
      BY SourcesOrdered
<1>7. (imported = (base # << >>) /\ \A i \in DOMAIN base : base_dependencies(base[i]) \subseteq Earlier(base, i))
          <=> Based
      BY <1>1, BaseDecides DEF Based
<1> QED
    BY <1>2, <1>4, <1>5, <1>6, <1>7 DEF bundle_admitted

LEMMA BundleStep == CloseInv /\ build_bundle => CloseInv'
<1> SUFFICES ASSUME CloseInv, build_bundle PROVE CloseInv'
    OBVIOUS
<1>1. /\ stage = "project" /\ inputs_kept
      /\ UNCHANGED <<owners, selected, pending, visiting, visited, ordered>>
      BY DEF build_bundle
<1>2. ClosureTypes /\ SourcesExact /\ RootsCovered
      BY <1>1 DEF CloseInv
<1>3. \/ stage' = "accepted" /\ Bound
      \/ stage' \in Verdicts /\ ~Bound
  <2>1. CASE ~SourcesAnchored
    <3>1. stage' = "unclassified-exact-declaration"
          BY <1>1, <2>1, Projected DEF build_bundle, Result
    <3> QED
        BY <2>1, <3>1 DEF Bound, Verdicts
  <2>2. CASE SourcesAnchored /\ \E d \in owned_exact : refusal(d) # "none"
    <3>1. PICK d \in owned_exact : refusal(d) # "none" /\ stage' = refusal(d)
          BY <1>1, <2>2, Projected DEF build_bundle, Result
    <3>2. stage' \in Verdicts
          BY <3>1, RefusalIs DEF Verdicts
    <3>3. CASE d \in BaseNames
          BY <1>1, <3>1, <3>2, <3>3, Projected DEF Bound
    <3>4. CASE d \notin BaseNames
      <4>1. d \in Sources /\ d \in Anchors
            BY <1>1, <3>4, Projected
      <4> QED
          BY <1>2, <3>1, <3>2, <4>1, OwnerDecides DEF Bound, SourcesOwned
    <3> QED
        BY <3>3, <3>4
  <2>3. CASE SourcesAnchored /\ ~\E d \in owned_exact : refusal(d) # "none"
    <3>1. SourcesOwned
      <4>1. \A d \in Sources : d \in Anchors /\ d \in owned_exact
            BY <1>1, <2>3, Projected DEF SourcesAnchored
      <4> QED
          BY <1>2, <2>3, <4>1, OwnerDecides DEF SourcesOwned
    <3>2. stage' = IF bundle_admitted THEN "accepted" ELSE "bundle-validation-error"
          BY <1>1, <2>3, Projected DEF build_bundle, Result
    <3> QED
        BY <1>1, <2>3, <3>1, <3>2, BundleDecides DEF Bound, Verdicts
  <2> QED
      BY <2>1, <2>2, <2>3
<1>4. ~Bound => ~Bundleable
      BY BundleableParts
<1>5. /\ ClosureTypes' /\ ClosureOrdered' /\ RootsOwned' /\ OwnersAcyclic'
      /\ OwnersLocal' /\ AllCovered' /\ NeededAcyclic'
      /\ Waves' /\ (UNION ToSet(owners) = OwnerModules)'
      /\ Expansion' /\ pending' = {} /\ Descent' /\ visited' = selected'
      /\ (Bundleable' <=> Bundleable) /\ (Bound' <=> Bound)
      /\ (SourcesExact' <=> SourcesExact) /\ (RootsCovered' <=> RootsCovered)
      BY <1>1, Settled
<1>6. "admit" \notin Verdicts /\ "accepted" \notin Verdicts /\ Verdicts \cap AfterAdmit = {}
      BY DEF Verdicts, AfterAdmit
<1>7. CASE stage' = "accepted" /\ Bound
      BY <1>2, <1>5, <1>7 DEF CloseInv, AfterAdmit, AfterOwners, AfterExpand, AfterOrder, Verdicts
<1>8. CASE stage' \in Verdicts /\ ~Bound
      BY <1>4, <1>5, <1>6, <1>8 DEF CloseInv, AfterAdmit, AfterOwners, AfterExpand, AfterOrder
<1> QED
    BY <1>3, <1>7, <1>8

LEMMA FailStep == CloseInv /\ phase_fails => CloseInv'
<1> SUFFICES ASSUME CloseInv, phase_fails PROVE CloseInv'
    OBVIOUS
<1>1. inputs_kept /\ stage' = "failed" /\ ClosureTypes
      BY DEF phase_fails, Result, CloseInv
<1>2. ClosureTypes'
      BY <1>1, NamesDecide
<1> QED
    BY <1>1, <1>2 DEF CloseInv, AfterAdmit, AfterOwners, AfterExpand, AfterOrder, Verdicts

LEMMA CloseInvKept == CloseInv /\ [CloseNext]_closing => CloseInv'
<1>1. CloseInv /\ UNCHANGED closing => CloseInv'
  <2> SUFFICES ASSUME CloseInv, UNCHANGED closing PROVE CloseInv'
      OBVIOUS
  <2>1. /\ inputs_kept /\ UNCHANGED <<stage, owners, selected, pending, visiting, visited, ordered>>
        BY DEF closing, inputs_kept
  <2>2. /\ (ClosureTypes' <=> ClosureTypes) /\ (ClosureOrdered' <=> ClosureOrdered)
        /\ (RootsOwned' <=> RootsOwned) /\ (OwnersAcyclic' <=> OwnersAcyclic)
        /\ (OwnersLocal' <=> OwnersLocal) /\ (AllCovered' <=> AllCovered)
        /\ (NeededAcyclic' <=> NeededAcyclic) /\ (Bundleable' <=> Bundleable) /\ (Bound' <=> Bound)
        /\ (SourcesExact' <=> SourcesExact) /\ (RootsCovered' <=> RootsCovered)
        BY <2>1, NamesDecide, InputsDecide
  <2>3. /\ OwnerModules' = OwnerModules /\ Chosen' = Chosen /\ Needed' = Needed /\ links' = links
        /\ \A m : owner_dependencies(m)' = owner_dependencies(m)
        BY <2>1, NamesDecide
  <2>4. (Waves' <=> Waves) /\ ((UNION ToSet(owners) = OwnerModules)' <=> (UNION ToSet(owners) = OwnerModules))
        BY <2>1, <2>3 DEF Waves
  <2>5. (Expansion' <=> Expansion) /\ (Descent' <=> Descent)
        BY <2>1, <2>3 DEF Expansion, Descent, source_dependencies, Earlier
  <2> QED
      BY <2>1, <2>2, <2>4, <2>5 DEF CloseInv
<1> QED
    BY <1>1, AdmitStep, OwnersStep, SelectStep, ExpandStep, VisitStep, RoundTripStep, BundleStep, FailStep
    DEF CloseNext

LEMMA CloseInvExact == CloseInv => ClosureExact
<1> SUFFICES ASSUME CloseInv PROVE ClosureExact
    OBVIOUS
<1>1. ASSUME stage = "accepted"
      PROVE  /\ Bundleable
             /\ source_names = Sources
             /\ UNION ToSet(owners) = OwnerModules
             /\ \A i, j \in DOMAIN owners, m \in OwnerModules :
                    m \in owners[i] /\ owner_dependencies(m) \cap owners[j] # {} => j < i
             /\ \A i, j \in DOMAIN ordered : ordered[j] \in links[ordered[i]] => j <= i
  <2>1. /\ ClosureTypes /\ ClosureOrdered /\ RootsOwned /\ Waves /\ OwnersAcyclic
        /\ UNION ToSet(owners) = OwnerModules /\ OwnersLocal /\ AllCovered
        /\ Expansion /\ pending = {} /\ Descent /\ NeededAcyclic
        /\ SourcesExact /\ RootsCovered /\ Bound
        BY <1>1 DEF CloseInv, AfterAdmit, AfterOwners, AfterExpand, AfterOrder
  <2>2. Bundleable
        BY <2>1, ExpansionExact, BundleableParts DEF Traced, Found
  <2>3. source_names = Sources
        BY <1>1, SourceNames DEF AfterOrder
  <2>4. ASSUME NEW i \in DOMAIN owners, NEW j \in DOMAIN owners, NEW m \in owners[i],
               NEW e \in owner_dependencies(m), e \in owners[j]
        PROVE  j < i
    <3>1. PICK k \in DOMAIN owners : k < i /\ e \in owners[k]
          BY <2>1 DEF Waves
    <3>2. DOMAIN owners \subseteq Nat
          BY <2>1 DEF Waves
    <3>3. ~(k < j)
          BY <2>1, <2>4, <3>1 DEF Waves
    <3> QED
        BY <3>1, <3>2, <3>3
  <2>5. ASSUME NEW i \in DOMAIN ordered, NEW j \in DOMAIN ordered, ordered[j] \in links[ordered[i]]
        PROVE  j <= i
    <3>1. /\ \A k \in DOMAIN ordered : ordered[k] \in selected
          /\ \A k, l \in DOMAIN ordered : ordered[k] = ordered[l] => k = l
          BY <1>1, SourceNames DEF AfterOrder
    <3>2. DOMAIN ordered = 1..Len(ordered) /\ Len(ordered) \in Nat
          BY <2>1 DEF Descent, OrderOf
    <3>3. CASE ordered[j] = ordered[i]
          BY <3>1, <3>2, <3>3
    <3>4. CASE ordered[j] # ordered[i]
      <4>1. ordered[j] \in source_dependencies(ordered[i])
            BY <2>5, <3>1, <3>4 DEF source_dependencies
      <4>2. PICK k \in 1..(i - 1) : ordered[j] = ordered[k]
            BY <2>1, <4>1 DEF Descent, Earlier
      <4>3. k \in DOMAIN ordered /\ k < i
            BY <3>2
      <4> QED
          BY <3>1, <3>2, <4>2, <4>3
    <3> QED
        BY <3>3, <3>4
  <2> QED
      BY <2>1, <2>2, <2>3, <2>4, <2>5
<1>2. stage \notin {"admit", "owners", "select", "expand", "order", "roundtrip", "project", "accepted", "failed"}
          => ~Bundleable
      BY DEF CloseInv, AfterAdmit
<1> QED
    BY <1>1, <1>2 DEF ClosureExact

(* A Lean declaration closure of any number of names, in any dependencies, *)
(* owner modules and orders, becomes an independent bundle exactly when it *)
(* may be one, unless a file or an AXLE phase fails: whatever order        *)
(* source_declaration_closure takes its pending names in, no verdict       *)
(* refuses a closure that may be bundled and no stage lets through what a  *)
(* later one should have found.                                            *)
THEOREM ClosuresExact == CloseSpec => []ClosureExact
<1>1. CloseSpec => []CloseInv
      BY CloseStart, CloseInvKept, PTL DEF CloseSpec
<1> QED
    BY <1>1, CloseInvExact, PTL

-----------------------------------------------------------------------------
(* Batched Merkle tree. *)

(* A level of a tree: digests at positions 1 to its length.                *)
IsLevel(d) == Len(d) \in Nat /\ d = [i \in 1..Len(d) |-> d[i]]
Distinct(d) == \A i, j \in 1..Len(d) : d[i] = d[j] => i = j

LEMMA LevelOf ==
    ASSUME NEW n \in Nat, NEW d, d = [i \in 1..n |-> d[i]]
    PROVE  IsLevel(d) /\ Len(d) = n
<1>1. d \in Seq({d[i] : i \in 1..n})
      OBVIOUS
<1>2. Len(d) = n
      BY <1>1
<1> QED
    BY <1>2 DEF IsLevel

LEMMA Halves ==
    ASSUME NEW n \in Nat
    PROVE  /\ (n + 1) \div 2 \in Nat
           /\ 2 * ((n + 1) \div 2) = n \/ 2 * ((n + 1) \div 2) = n + 1
           /\ n >= 1 => (n + 1) \div 2 >= 1
           /\ n > 1 => (n + 1) \div 2 < n
OBVIOUS

LEMMA NodesDiffer ==
    ASSUME NEW a, NEW b, NEW c, NEW d, node_digest(a, b) = node_digest(c, d)
    PROVE  a = c /\ b = d
BY DEF node_digest

LEMMA LeafOrNode ==
    ASSUME NEW p, NEW i, NEW a, NEW b
    PROVE  batched_evidence_leaf(p, i) # node_digest(a, b)
BY DEF node_digest, batched_evidence_leaf

LEMMA NextLevel ==
    ASSUME NEW d, IsLevel(d)
    PROVE  /\ IsLevel(next_level(d))
           /\ Len(next_level(d)) = (Len(d) + 1) \div 2
           /\ \A i \in 1..((Len(d) + 1) \div 2) :
                  next_level(d)[i] = node_digest(d[2 * i - 1], d[IF 2 * i <= Len(d) THEN 2 * i ELSE 2 * i - 1])
<1> DEFINE h == (Len(d) + 1) \div 2
<1>1. h \in Nat
      BY Halves DEF IsLevel
<1>2. /\ next_level(d) = [i \in 1..h |-> next_level(d)[i]]
      /\ \A i \in 1..h :
             next_level(d)[i] = node_digest(d[2 * i - 1], d[IF 2 * i <= Len(d) THEN 2 * i ELSE 2 * i - 1])
      BY DEF next_level
<1> HIDE DEF h
<1>3. IsLevel(next_level(d)) /\ Len(next_level(d)) = h
      BY <1>1, <1>2, LevelOf
<1> QED
    BY <1>2, <1>3 DEF h

(* A level whose digests differ has nodes that differ above it.            *)
LEMMA NextDistinct ==
    ASSUME NEW d, IsLevel(d), Distinct(d)
    PROVE  Distinct(next_level(d))
<1> DEFINE h == (Len(d) + 1) \div 2
<1>1. Len(d) \in Nat /\ h \in Nat /\ (2 * h = Len(d) \/ 2 * h = Len(d) + 1) /\ Len(next_level(d)) = h
      BY Halves, NextLevel DEF IsLevel
<1>2. \A i \in 1..h : 2 * i - 1 \in 1..Len(d)
      BY <1>1
<1>3. ASSUME NEW i \in 1..h, NEW j \in 1..h, next_level(d)[i] = next_level(d)[j] PROVE i = j
  <2>1. d[2 * i - 1] = d[2 * j - 1]
        BY <1>3, NextLevel, NodesDiffer
  <2>2. 2 * i - 1 = 2 * j - 1
        BY <1>2, <2>1 DEF Distinct
  <2> QED
      BY <1>1, <2>2
<1> QED
    BY <1>1, <1>3 DEF Distinct

(* The level above decides the one below, if its digests differ.           *)
LEMMA NextInjective ==
    ASSUME NEW d, IsLevel(d), Distinct(d), Len(d) >= 1,
           NEW e, IsLevel(e), Distinct(e), Len(e) >= 1,
           next_level(d) = next_level(e)
    PROVE  d = e
<1> DEFINE h == (Len(d) + 1) \div 2
<1>1. /\ Len(d) \in Nat /\ Len(e) \in Nat /\ h \in Nat /\ h >= 1
      /\ 2 * h = Len(d) \/ 2 * h = Len(d) + 1
      /\ 2 * h = Len(e) \/ 2 * h = Len(e) + 1
      /\ Len(next_level(d)) = h /\ Len(next_level(e)) = h /\ (Len(e) + 1) \div 2 = h
      BY Halves, NextLevel DEF IsLevel
<1>2. ASSUME NEW i \in 1..h
      PROVE  /\ d[2 * i - 1] = e[2 * i - 1]
             /\ d[IF 2 * i <= Len(d) THEN 2 * i ELSE 2 * i - 1] =
                    e[IF 2 * i <= Len(e) THEN 2 * i ELSE 2 * i - 1]
  <2>1. /\ next_level(d)[i] = node_digest(d[2 * i - 1], d[IF 2 * i <= Len(d) THEN 2 * i ELSE 2 * i - 1])
        /\ next_level(e)[i] = node_digest(e[2 * i - 1], e[IF 2 * i <= Len(e) THEN 2 * i ELSE 2 * i - 1])
        BY <1>1, NextLevel
  <2> QED
      BY <2>1, NodesDiffer
<1> HIDE DEF h
<1>3. Len(d) = Len(e)
  <2>0. h \in 1..h
        BY <1>1
  <2>1. CASE Len(d) = 2 * h /\ Len(e) = 2 * h - 1
    <3>1. d[2 * h] = e[2 * h - 1] /\ d[2 * h - 1] = e[2 * h - 1]
          BY <1>1, <1>2, <2>0, <2>1
    <3>2. 2 * h \in 1..Len(d) /\ 2 * h - 1 \in 1..Len(d) /\ 2 * h # 2 * h - 1
          BY <1>1, <2>1
    <3> QED
        BY <3>1, <3>2 DEF Distinct
  <2>2. CASE Len(e) = 2 * h /\ Len(d) = 2 * h - 1
    <3>1. e[2 * h] = d[2 * h - 1] /\ e[2 * h - 1] = d[2 * h - 1]
          BY <1>1, <1>2, <2>0, <2>2
    <3>2. 2 * h \in 1..Len(e) /\ 2 * h - 1 \in 1..Len(e) /\ 2 * h # 2 * h - 1
          BY <1>1, <2>2
    <3> QED
        BY <3>1, <3>2 DEF Distinct
  <2> QED
      BY <1>1, <2>1, <2>2
<1>4. ASSUME NEW k \in 1..Len(d) PROVE d[k] = e[k]
  <2>1. PICK i \in 1..h : k = 2 * i \/ k = 2 * i - 1
    <3>1. (k + 1) \div 2 \in 1..h /\ (k = 2 * ((k + 1) \div 2) \/ k = 2 * ((k + 1) \div 2) - 1)
          BY <1>1
    <3> QED
        BY <3>1
  <2>2. CASE k = 2 * i - 1
        BY <1>2, <2>2
  <2>3. CASE k = 2 * i
    <3>1. 2 * i <= Len(d) /\ 2 * i <= Len(e)
          BY <1>1, <1>3, <2>3
    <3> QED
        BY <1>2, <2>3, <3>1
  <2> QED
      BY <2>1, <2>2, <2>3
<1> QED
    BY <1>3, <1>4 DEF IsLevel

Raised(d) == IF Len(d) > 1 THEN next_level(d) ELSE d

(* The rounds of the loop, as far as n of them.                            *)
Rounds(d, n, f) == f = [k \in 0..n |-> IF k = 0 THEN d ELSE Raised(f[k - 1])]

LEMMA RoundsExist ==
    ASSUME NEW d, NEW n \in Nat
    PROVE  \E f : Rounds(d, n, f)
<1> DEFINE S == {m \in Nat : ~ \E f : Rounds(d, m, f)}
<1>1. ASSUME S # {} PROVE FALSE
  <2>1. PICK x \in S : \A y \in S : x <= y
        BY <1>1, LeastNat
  <2>2. CASE x = 0
    <3> DEFINE f == [k \in 0..0 |-> d]
    <3>1. Rounds(d, 0, f)
          BY DEF Rounds
    <3> QED
        BY <2>1, <2>2, <3>1
  <2>3. CASE x # 0
    <3>1. x \in Nat /\ x - 1 \in Nat /\ x - 1 \notin S
          BY <2>1, <2>3
    <3>2. PICK f : Rounds(d, x - 1, f)
          BY <3>1
    <3> DEFINE g == [k \in 0..x |-> IF k = x THEN Raised(f[x - 1]) ELSE f[k]]
    <3>3. ASSUME NEW k \in 0..x PROVE g[k] = IF k = 0 THEN d ELSE Raised(g[k - 1])
      <4>1. CASE k = x
        <5>1. x - 1 \in 0..x /\ x - 1 # x
              BY <3>1
        <5>2. g[x - 1] = f[x - 1]
              BY <5>1
        <5> QED
            BY <4>1, <2>3, <5>2
      <4>2. CASE k # x
        <5>1. k \in 0..(x - 1) /\ g[k] = f[k]
              BY <3>1, <4>2
        <5>2. f[k] = IF k = 0 THEN d ELSE Raised(f[k - 1])
              BY <3>2, <5>1 DEF Rounds
        <5>3. k # 0 => k - 1 \in 0..x /\ k - 1 # x
              BY <3>1, <5>1
        <5>4. k # 0 => g[k - 1] = f[k - 1]
              BY <5>3
        <5> QED
            BY <5>1, <5>2, <5>4
      <4> QED
          BY <4>1, <4>2
    <3>4. g = [k \in 0..x |-> g[k]]
          OBVIOUS
    <3> HIDE DEF g
    <3>5. Rounds(d, x, g)
          BY <3>3, <3>4 DEF Rounds
    <3> QED
        BY <2>1, <3>5
  <2> QED
      BY <2>2, <2>3
<1> QED
    BY <1>1

LEMMA LevelsRounds ==
    ASSUME NEW d, IsLevel(d)
    PROVE  /\ levels(d)[0] = d
           /\ \A k \in 1..Len(d) : levels(d)[k] = Raised(levels(d)[k - 1])
<1>1. Len(d) \in Nat
      BY DEF IsLevel
<1> DEFINE n == Len(d)
<1>2. \E f : Rounds(d, n, f)
      BY <1>1, RoundsExist
<1>3. Rounds(d, n, CHOOSE f : Rounds(d, n, f))
      BY <1>2
<1>4. levels(d) = CHOOSE f : Rounds(d, n, f)
      BY DEF levels, Rounds, Raised
<1>5. Rounds(d, n, levels(d))
      BY <1>3, <1>4
<1>6. levels(d) = [k \in 0..n |-> IF k = 0 THEN d ELSE Raised(levels(d)[k - 1])]
      BY <1>5 DEF Rounds
<1>7. 0 \in 0..n /\ \A k \in 1..n : k \in 0..n /\ k # 0
      BY <1>1
<1> HIDE DEF n
<1>8. \A k \in 0..n : levels(d)[k] = IF k = 0 THEN d ELSE Raised(levels(d)[k - 1])
      BY <1>6
<1>9. levels(d)[0] = d /\ \A k \in 1..n : levels(d)[k] = Raised(levels(d)[k - 1])
      BY <1>7, <1>8
<1> QED
    BY <1>9 DEF n

(* A tree over the digests d: its levels L up to the one of height h, that *)
(* holds the root alone.                                                   *)
Tree(d, L, h) ==
    /\ h \in Nat /\ L[0] = d
    /\ \A k \in 0..(h - 1) : Len(L[k]) > 1 /\ L[k + 1] = next_level(L[k])
    /\ Len(L[h]) = 1

Proper(d) == IsLevel(d) /\ Distinct(d) /\ Len(d) >= 1

LEMMA ProperLength ==
    ASSUME NEW d, Proper(d)
    PROVE  Len(d) \in Nat /\ Len(d) >= 1
BY DEF Proper, IsLevel

LEMMA ProperNext ==
    ASSUME NEW d, Proper(d)
    PROVE  /\ Proper(next_level(d)) /\ Len(d) \in Nat
           /\ Len(d) > 1 => Len(next_level(d)) + 1 <= Len(d)
BY NextLevel, NextDistinct, Halves DEF Proper, IsLevel

LEMMA TreeProper ==
    ASSUME NEW d, Proper(d), NEW L, NEW h, Tree(d, L, h)
    PROVE  \A k \in 0..h : Proper(L[k])
<1> DEFINE S == {k \in Nat : k <= h => Proper(L[k])}
<1>1. h \in Nat
      BY DEF Tree
<1>2. 0 \in S
      BY DEF Tree
<1>3. ASSUME NEW k \in Nat, k \in S PROVE k + 1 \in S
  <2>1. CASE k + 1 <= h
    <3>1. k <= h /\ k \in 0..(h - 1)
          BY <1>1, <2>1
    <3>2. Proper(L[k]) /\ L[k + 1] = next_level(L[k])
          BY <1>3, <3>1 DEF Tree
    <3>3. Proper(L[k + 1])
          BY <3>2, ProperNext
    <3> QED
        BY <3>3
  <2> QED
      BY <2>1
<1> HIDE DEF S
<1>4. \A k \in Nat : k \in S
      BY <1>2, <1>3, EveryNat
<1> QED
    BY <1>1, <1>4 DEF S

(* The loop ends at the root of a tree.                                    *)
LEMMA LoopTree ==
    ASSUME NEW d, Proper(d)
    PROVE  \E h \in 0..Len(d) : Tree(d, levels(d), h) /\ levels(d)[Len(d)] = levels(d)[h]
<1> DEFINE n == Len(d)
           L == levels(d)
<1>1. n \in Nat /\ n >= 1 /\ L[0] = d /\ \A k \in 1..n : L[k] = Raised(L[k - 1])
      BY LevelsRounds DEF Proper, IsLevel
<1>2. ASSUME NEW k \in Nat, k + 1 <= n PROVE L[k + 1] = Raised(L[k])
  <2>1. k + 1 \in 1..n /\ (k + 1) - 1 = k
        BY <1>1, <1>2
  <2> QED
      BY <1>1, <2>1
<1> HIDE DEF n, L
<1> DEFINE size(k) == Len(L[k])
           S == {k \in Nat : k <= n => Proper(L[k]) /\ (size(k) = 1 \/ size(k) + k <= n)}
<1>3. 0 \in S
  <2>1. size(0) = n
        BY <1>1 DEF n
  <2> QED
      BY <1>1, <2>1
<1>4. ASSUME NEW k \in Nat, k \in S PROVE k + 1 \in S
  <2>1. CASE k + 1 <= n
    <3>1. Proper(L[k]) /\ (size(k) = 1 \/ size(k) + k <= n) /\ L[k + 1] = Raised(L[k])
          BY <1>1, <1>2, <1>4, <2>1
    <3>2. size(k) \in Nat /\ size(k) >= 1
          BY <3>1, ProperLength
    <3>3. CASE size(k) > 1
      <4>1. L[k + 1] = next_level(L[k])
            BY <3>1, <3>3 DEF Raised
      <4>2. Proper(L[k + 1]) /\ size(k + 1) + 1 <= size(k) /\ size(k + 1) \in Nat
            BY <3>1, <3>3, <4>1, ProperNext, ProperLength
      <4> HIDE DEF size
      <4>3. size(k + 1) + (k + 1) <= n
            BY <1>1, <3>1, <3>2, <3>3, <4>2
      <4> QED
          BY <4>2, <4>3
    <3>4. CASE ~(size(k) > 1)
      <4>1. L[k + 1] = L[k]
            BY <3>1, <3>4 DEF Raised
      <4>2. size(k + 1) = size(k)
            BY <4>1
      <4> HIDE DEF size
      <4> QED
          BY <3>1, <3>2, <3>4, <4>1, <4>2
    <3> QED
        BY <3>3, <3>4
  <2> QED
      BY <2>1
<1>5. \A k \in Nat : k \in S
  <2> HIDE DEF S
  <2> QED
      BY <1>3, <1>4, EveryNat
<1>6. Len(L[n]) = 1
  <2>1. Proper(L[n]) /\ (size(n) = 1 \/ size(n) + n <= n)
        BY <1>1, <1>5
  <2>2. size(n) \in Nat /\ size(n) >= 1
        BY <2>1, ProperLength
  <2>3. size(n) = 1
    <3> HIDE DEF size
    <3> QED
        BY <1>1, <2>1, <2>2
  <2> QED
      BY <2>3
<1> DEFINE H == {k \in Nat : k <= n /\ Len(L[k]) = 1}
<1>7. PICK h \in H : \A k \in H : h <= k
  <2>1. n \in H
        BY <1>1, <1>6
  <2> QED
      BY <2>1, LeastNat
<1>8. h \in Nat /\ h <= n /\ Len(L[h]) = 1
      BY <1>7
<1>9. ASSUME NEW k \in 0..(h - 1) PROVE Len(L[k]) > 1 /\ L[k + 1] = next_level(L[k])
  <2>1. k \in Nat /\ k + 1 <= n /\ k <= n /\ ~(h <= k)
        BY <1>1, <1>8
  <2>2. Len(L[k]) # 1 /\ Proper(L[k])
        BY <1>5, <1>7, <2>1
  <2>3. size(k) \in Nat /\ size(k) >= 1 /\ size(k) # 1
        BY <2>2, ProperLength
  <2>4. size(k) > 1
    <3> HIDE DEF size
    <3> QED
        BY <2>3
  <2> QED
      BY <1>2, <2>1, <2>4 DEF Raised
<1>10. Tree(d, L, h)
      BY <1>1, <1>8, <1>9 DEF Tree
<1> DEFINE R == {k \in Nat : h <= k /\ k <= n => L[k] = L[h]}
<1>11. 0 \in R
      BY <1>8
<1>12. ASSUME NEW k \in Nat, k \in R PROVE k + 1 \in R
  <2>1. CASE h <= k /\ k + 1 <= n
    <3>1. L[k] = L[h] /\ L[k + 1] = Raised(L[k])
          BY <1>1, <1>2, <1>12, <2>1
    <3>2. L[k + 1] = L[h]
          BY <1>8, <3>1 DEF Raised
    <3> QED
        BY <3>2
  <2>2. CASE h = k + 1
        BY <2>2
  <2>3. CASE ~(h <= k + 1 /\ k + 1 <= n)
        BY <2>3
  <2> QED
      BY <1>1, <1>8, <2>1, <2>2, <2>3
<1>13. \A k \in Nat : k \in R
  <2> HIDE DEF R
  <2> QED
      BY <1>11, <1>12, EveryNat
<1>14. L[n] = L[h]
      BY <1>1, <1>8, <1>13
<1>15. h \in 0..n
      BY <1>1, <1>8
<1> QED
    BY <1>10, <1>14, <1>15 DEF n, L

(* There is one tree over the digests.                                     *)
LEMMA TreeUnique ==
    ASSUME NEW d, NEW L, NEW h, Tree(d, L, h), NEW M, NEW g, Tree(d, M, g)
    PROVE  h = g /\ L[h] = M[g]
<1>1. h \in Nat /\ g \in Nat
      BY DEF Tree
<1> DEFINE S == {k \in Nat : k <= h /\ k <= g => L[k] = M[k]}
<1>2. 0 \in S
      BY DEF Tree
<1>3. ASSUME NEW k \in Nat, k \in S PROVE k + 1 \in S
  <2>1. CASE k + 1 <= h /\ k + 1 <= g
    <3>1. k \in 0..(h - 1) /\ k \in 0..(g - 1) /\ k <= h /\ k <= g
          BY <1>1, <2>1
    <3>2. L[k + 1] = next_level(L[k]) /\ M[k + 1] = next_level(M[k]) /\ L[k] = M[k]
          BY <1>3, <3>1 DEF Tree
    <3> QED
        BY <3>2
  <2> QED
      BY <2>1
<1>4. \A k \in Nat : k \in S
  <2> HIDE DEF S
  <2> QED
      BY <1>2, <1>3, EveryNat
<1>5. ASSUME h < g PROVE FALSE
  <2>1. L[h] = M[h] /\ h \in 0..(g - 1)
        BY <1>1, <1>4, <1>5
  <2>2. Len(M[h]) > 1 /\ Len(L[h]) = 1
        BY <2>1 DEF Tree
  <2> QED
      BY <2>1, <2>2
<1>6. ASSUME g < h PROVE FALSE
  <2>1. L[g] = M[g] /\ g \in 0..(h - 1)
        BY <1>1, <1>4, <1>6
  <2>2. Len(L[g]) > 1 /\ Len(M[g]) = 1
        BY <2>1 DEF Tree
  <2> QED
      BY <2>1, <2>2
<1>7. h = g
      BY <1>1, <1>5, <1>6
<1> QED
    BY <1>1, <1>4, <1>7

LeafLevel(d) == \A i \in 1..Len(d) : \E p, n : d[i] = batched_evidence_leaf(p, n)

(* Below one root the levels of two trees agree, down to the leaves of the *)
(* lower one.                                                              *)
LEMMA TreesAgree ==
    ASSUME NEW d, Proper(d), NEW L, NEW h, Tree(d, L, h),
           NEW e, Proper(e), NEW M, NEW g, Tree(e, M, g), L[h] = M[g]
    PROVE  \A i \in Nat : i <= h /\ i <= g => L[h - i] = M[g - i]
<1>1. h \in Nat /\ g \in Nat
      BY DEF Tree
<1> DEFINE S == {i \in Nat : i <= h /\ i <= g => L[h - i] = M[g - i]}
<1>2. 0 \in S
      BY <1>1
<1>3. ASSUME NEW i \in Nat, i \in S PROVE i + 1 \in S
  <2>1. CASE i + 1 <= h /\ i + 1 <= g
    <3> DEFINE x == h - (i + 1)
               y == g - (i + 1)
    <3>1. /\ x \in 0..(h - 1) /\ y \in 0..(g - 1) /\ x \in 0..h /\ y \in 0..g
          /\ x + 1 = h - i /\ y + 1 = g - i /\ i <= h /\ i <= g
          BY <1>1, <2>1
    <3> HIDE DEF x, y
    <3>2. L[x + 1] = next_level(L[x]) /\ M[y + 1] = next_level(M[y]) /\ L[x + 1] = M[y + 1]
          BY <1>3, <3>1 DEF Tree
    <3>3. Proper(L[x]) /\ Proper(M[y])
          BY <3>1, TreeProper
    <3>4. L[x] = M[y]
          BY <3>2, <3>3, NextInjective DEF Proper
    <3> QED
        BY <3>4 DEF x, y
  <2> QED
      BY <2>1
<1>4. \A i \in Nat : i \in S
  <2> HIDE DEF S
  <2> QED
      BY <1>2, <1>3, EveryNat
<1> QED
    BY <1>4

LEMMA NotTaller ==
    ASSUME NEW d, Proper(d), LeafLevel(d), NEW L, NEW h, Tree(d, L, h),
           NEW e, Proper(e), NEW M, NEW g, Tree(e, M, g), L[h] = M[g]
    PROVE  ~(h < g)
<1> SUFFICES ASSUME h < g PROVE FALSE
    OBVIOUS
<1>1. h \in Nat /\ g \in Nat
      BY DEF Tree
<1>2. L[h - h] = M[g - h]
      BY <1>1, TreesAgree
<1> DEFINE y == (g - h) - 1
<1>3. h - h = 0 /\ y \in 0..(g - 1) /\ y \in 0..g /\ y + 1 = g - h
      BY <1>1
<1> HIDE DEF y
<1>4. d = next_level(M[y]) /\ Proper(M[y])
      BY <1>2, <1>3, TreeProper DEF Tree
<1>5. 1 \in 1..Len(d)
      BY DEF Proper, IsLevel
<1>6. \E a, b : d[1] = node_digest(a, b)
  <2>1. 1 \in 1..((Len(M[y]) + 1) \div 2)
    <3> DEFINE m == Len(M[y])
    <3>1. m \in Nat /\ m >= 1
          BY <1>4, ProperLength
    <3> HIDE DEF m
    <3>2. 1 \in 1..((m + 1) \div 2)
          BY <3>1, Halves
    <3> QED
        BY <3>2 DEF m
  <2> DEFINE x == M[y]
  <2>2. d = next_level(x) /\ IsLevel(x) /\ 1 \in 1..((Len(x) + 1) \div 2)
        BY <1>4, <2>1 DEF Proper
  <2> HIDE DEF x
  <2>3. next_level(x)[1] = node_digest(x[2 * 1 - 1], x[IF 2 * 1 <= Len(x) THEN 2 * 1 ELSE 2 * 1 - 1])
        BY <2>2, NextLevel
  <2> QED
      BY <2>2, <2>3
<1>7. \E p, n : d[1] = batched_evidence_leaf(p, n)
      BY <1>5 DEF LeafLevel
<1> QED
    BY <1>6, <1>7, LeafOrNode

LEMMA RootBinds ==
    ASSUME NEW d, Proper(d), LeafLevel(d), NEW L, NEW h, Tree(d, L, h),
           NEW e, Proper(e), LeafLevel(e), NEW M, NEW g, Tree(e, M, g), L[h] = M[g]
    PROVE  d = e
<1>1. h \in Nat /\ g \in Nat
      BY DEF Tree
<1>2. ~(h < g) /\ ~(g < h)
      BY NotTaller
<1>3. h = g
      BY <1>1, <1>2
<1>4. L[h - h] = M[g - h]
      BY <1>1, <1>3, TreesAgree
<1> QED
    BY <1>1, <1>3, <1>4 DEF Tree

(* The leaves of a batch are different digests, and say what it holds.     *)
LEMMA BatchLevel ==
    ASSUME NEW a \in Seq(Payload), a # << >>
    PROVE  /\ Proper(Digests(a)) /\ LeafLevel(Digests(a)) /\ Len(Digests(a)) = Len(a)
           /\ \A i \in 1..Len(a) : Digests(a)[i] = batched_evidence_leaf(a[i], i - 1)
<1> DEFINE n == Len(a)
           d == Digests(a)
<1>1. n \in Nat /\ n >= 1 /\ DOMAIN a = 1..n
      OBVIOUS
<1>2. d = [i \in 1..n |-> d[i]] /\ \A i \in 1..n : d[i] = batched_evidence_leaf(a[i], i - 1)
      BY <1>1 DEF Digests
<1> HIDE DEF n, d
<1>3. IsLevel(d) /\ Len(d) = n
      BY <1>1, <1>2, LevelOf
<1>4. LeafLevel(d)
      BY <1>2, <1>3 DEF LeafLevel
<1>5. ASSUME NEW i \in 1..n, NEW j \in 1..n, d[i] = d[j] PROVE i = j
  <2>1. i - 1 = j - 1
        BY <1>2, <1>5 DEF batched_evidence_leaf
  <2> QED
      BY <1>1, <2>1
<1>6. Proper(d)
      BY <1>1, <1>3, <1>5 DEF Proper, Distinct
<1> QED
    BY <1>2, <1>3, <1>4, <1>6 DEF n, d

LEMMA DigestsBind ==
    ASSUME NEW a \in Seq(Payload), a # << >>, NEW b \in Seq(Payload), b # << >>,
           Digests(a) = Digests(b)
    PROVE  a = b
<1>1. Len(a) = Len(b)
      BY BatchLevel
<1>2. ASSUME NEW i \in 1..Len(a) PROVE a[i] = b[i]
  <2>1. batched_evidence_leaf(a[i], i - 1) = batched_evidence_leaf(b[i], i - 1)
        BY <1>1, BatchLevel
  <2> QED
      BY <2>1 DEF batched_evidence_leaf
<1> QED
    BY <1>1, <1>2

(* The root of a level of digests is that of the tree over it.             *)
LEMMA RootOfTree ==
    ASSUME NEW d, Proper(d)
    PROVE  \E L, h : Tree(d, L, h) /\ batched_merkle_root_digests(d) = L[h][1]
BY LoopTree DEF batched_merkle_root_digests

LEMMA SingleLevel ==
    ASSUME NEW x, NEW y, IsLevel(x), IsLevel(y), Len(x) = 1, Len(y) = 1, x[1] = y[1]
    PROVE  x = y
<1>1. x = [i \in 1..1 |-> x[i]] /\ y = [i \in 1..1 |-> y[i]]
      BY DEF IsLevel
<1>2. \A i \in 1..1 : x[i] = y[i]
      OBVIOUS
<1>3. [i \in 1..1 |-> x[i]] = [i \in 1..1 |-> y[i]]
      BY <1>2
<1> QED
    BY <1>1, <1>3

(* A batch root commits to one batch.                                      *)
LEMMA RootCommits ==
    ASSUME NEW a \in Seq(Payload), a # << >>, NEW b \in Seq(Payload), b # << >>,
           batched_merkle_root(a) = batched_merkle_root(b)
    PROVE  a = b
<1>1. Proper(Digests(a)) /\ LeafLevel(Digests(a)) /\ Proper(Digests(b)) /\ LeafLevel(Digests(b))
      BY BatchLevel
<1>2. PICK L, h : Tree(Digests(a), L, h) /\ batched_merkle_root(a) = L[h][1]
      BY <1>1, RootOfTree DEF batched_merkle_root
<1>3. PICK M, g : Tree(Digests(b), M, g) /\ batched_merkle_root(b) = M[g][1]
      BY <1>1, RootOfTree DEF batched_merkle_root
<1>4. h \in 0..h /\ g \in 0..g /\ Len(L[h]) = 1 /\ Len(M[g]) = 1
      BY <1>2, <1>3 DEF Tree
<1>5. IsLevel(L[h]) /\ IsLevel(M[g])
      BY <1>1, <1>2, <1>3, <1>4, TreeProper DEF Proper
<1>6. L[h] = M[g]
      BY <1>2, <1>3, <1>4, <1>5, SingleLevel
<1>7. Digests(a) = Digests(b)
      BY <1>1, <1>2, <1>3, <1>6, RootBinds
<1> QED
    BY <1>7, DigestsBind

(* The step of the proof that leaves a level d at position c.              *)
StepOf(d, c) ==
    [direction |-> IF c % 2 = 0 THEN "right" ELSE "left",
     sibling |-> d[(IF c % 2 # 0 THEN c - 1
                    ELSE IF c + 1 < Len(d) THEN c + 1 ELSE Len(d) - 1) + 1]]

(* Folding the sibling in, on its side, gives the digest above.            *)
LEMMA FoldUp ==
    ASSUME NEW d, Proper(d), NEW c \in Nat, c < Len(d)
    PROVE  /\ c \div 2 \in Nat /\ c \div 2 < Len(next_level(d))
           /\ next_level(d)[c \div 2 + 1] =
                  IF StepOf(d, c).direction = "left"
                  THEN node_digest(StepOf(d, c).sibling, d[c + 1])
                  ELSE node_digest(d[c + 1], StepOf(d, c).sibling)
<1> DEFINE n == Len(d)
           q == c \div 2
           i == c \div 2 + 1
<1>1. n \in Nat /\ n >= 1 /\ c < n
      BY ProperLength
<1>2. /\ next_level(d)[i] = node_digest(d[2 * i - 1], d[IF 2 * i <= n THEN 2 * i ELSE 2 * i - 1])
      /\ q \in Nat /\ q < Len(next_level(d))
  <2>1. /\ Len(next_level(d)) = (n + 1) \div 2
        /\ \A k \in 1..((n + 1) \div 2) :
               next_level(d)[k] = node_digest(d[2 * k - 1], d[IF 2 * k <= n THEN 2 * k ELSE 2 * k - 1])
        BY NextLevel DEF Proper
  <2> HIDE DEF n
  <2>2. q \in Nat /\ i \in 1..((n + 1) \div 2) /\ q < (n + 1) \div 2
        BY <1>1
  <2> HIDE DEF i, q
  <2> QED
      BY <2>1, <2>2 DEF n
<1>3. CASE c % 2 = 0
  <2>1. 2 * i - 1 = c + 1 /\ 2 * i = c + 2 /\ c \in Nat
        BY <1>3
  <2>2. StepOf(d, c).direction = "right"
        /\ StepOf(d, c).sibling = d[(IF c + 1 < n THEN c + 1 ELSE n - 1) + 1]
        BY <1>3 DEF StepOf
  <2> HIDE DEF i, n
  <2>3. (IF 2 * i <= n THEN 2 * i ELSE 2 * i - 1) = (IF c + 1 < n THEN c + 1 ELSE n - 1) + 1
        BY <1>1, <2>1
  <2> QED
      BY <1>2, <2>1, <2>2, <2>3 DEF i, n
<1>4. CASE c % 2 # 0
  <2>1. 2 * i - 1 = (c - 1) + 1 /\ 2 * i = c + 1 /\ c \in Nat
        BY <1>4
  <2>2. StepOf(d, c).direction = "left" /\ StepOf(d, c).sibling = d[(c - 1) + 1]
        BY <1>4 DEF StepOf
  <2> HIDE DEF i, n
  <2>3. 2 * i <= n
        BY <1>1, <2>1
  <2> QED
      BY <1>2, <2>1, <2>2, <2>3 DEF i, n
<1> QED
    BY <1>3, <1>4

(* On either side, the sibling gives the digest above only with the digest *)
(* it is the sibling of.                                                   *)
LEMMA FoldBinds ==
    ASSUME NEW d, Proper(d), NEW c \in Nat, c < Len(d), NEW e,
           \/ node_digest(StepOf(d, c).sibling, e) = next_level(d)[c \div 2 + 1]
           \/ node_digest(e, StepOf(d, c).sibling) = next_level(d)[c \div 2 + 1]
    PROVE  e = d[c + 1]
<1> DEFINE f == d[c + 1]
           s == StepOf(d, c).sibling
           x == next_level(d)[c \div 2 + 1]
<1>1. x = node_digest(s, f) \/ x = node_digest(f, s)
      BY FoldUp
<1> HIDE DEF f, s, x
<1>2. node_digest(s, e) = x \/ node_digest(e, s) = x
      BY DEF s, x
<1>3. e = f
      BY <1>1, <1>2, NodesDiffer
<1> QED
    BY <1>3 DEF f

(* The position above one of a level.                                      *)
Parent(c) == c \div 2

(* The climb of a proof with steps s from position c of the level d: the   *)
(* levels L and the positions C it passes.                                 *)
Climb(d, c, s, L, C) ==
    /\ IsLevel(s) /\ L[0] = d /\ C[0] = c
    /\ \A j \in 0..Len(s) : Proper(L[j]) /\ C[j] \in Nat /\ C[j] < Len(L[j])
    /\ \A j \in 0..(Len(s) - 1) :
           /\ Len(L[j]) > 1 /\ L[j + 1] = next_level(L[j])
           /\ C[j + 1] = Parent(C[j]) /\ s[j + 1] = StepOf(L[j], C[j])

LEMMA ClimbStart ==
    ASSUME NEW d, Proper(d), NEW c \in Nat, c < Len(d)
    PROVE  \E L, C : Climb(d, c, << >>, L, C) /\ L[Len(<< >>)] = d /\ C[Len(<< >>)] = c
<1> DEFINE L == [j \in {0} |-> d]
           C == [j \in {0} |-> c]
<1>1. Len(<< >>) = 0 /\ << >> = [i \in 1..0 |-> << >>[i]]
      OBVIOUS
<1>2. IsLevel(<< >>)
      BY <1>1 DEF IsLevel
<1>3. L[0] = d /\ C[0] = c /\ \A j \in 0..0 : j = 0
      OBVIOUS
<1>4. \A j \in 0..(0 - 1) : FALSE
      OBVIOUS
<1> HIDE DEF L, C
<1>5. Climb(d, c, << >>, L, C)
      BY <1>1, <1>2, <1>3, <1>4 DEF Climb
<1> QED
    BY <1>1, <1>3, <1>5

LEMMA LevelAppend ==
    ASSUME NEW s, IsLevel(s), NEW e
    PROVE  /\ IsLevel(Append(s, e)) /\ Len(Append(s, e)) = Len(s) + 1 /\ Len(s) \in Nat
           /\ \A i \in 1..Len(s) : Append(s, e)[i] = s[i]
           /\ Append(s, e)[Len(s) + 1] = e
<1> DEFINE n == Len(s)
           R == {s[i] : i \in 1..n} \cup {e}
<1>1. n \in Nat /\ s = [i \in 1..n |-> s[i]]
      BY DEF IsLevel
<1>2. s \in Seq(R)
  <2>1. \A i \in 1..n : s[i] \in R
        OBVIOUS
  <2> HIDE DEF R, n
  <2>2. s \in [1..n -> R]
        BY <1>1, <2>1
  <2> QED
      BY <1>1, <2>2
<1>3. e \in R
      OBVIOUS
<1> HIDE DEF R
<1>4. /\ Append(s, e) \in Seq(R) /\ Len(Append(s, e)) = Len(s) + 1
      /\ \A i \in 1..Len(s) : Append(s, e)[i] = s[i]
      /\ Append(s, e)[Len(s) + 1] = e
      BY <1>2, <1>3
<1>5. IsLevel(Append(s, e))
  <2> DEFINE t == Append(s, e)
  <2>1. t \in Seq(R)
        BY <1>4
  <2> HIDE DEF t
  <2>2. Len(t) \in Nat /\ t = [i \in 1..Len(t) |-> t[i]]
        BY <2>1
  <2> QED
      BY <2>2 DEF IsLevel, t
<1> QED
    BY <1>1, <1>4, <1>5

(* The climb with steps s has come to the level l and the position p.      *)
ClimbedTo(d, c, s, l, p) == \E L, C : Climb(d, c, s, L, C) /\ l = L[Len(s)] /\ p = C[Len(s)]

(* One more step of the proof.                                             *)
LEMMA ClimbOn ==
    ASSUME NEW d, NEW c, NEW s, NEW l, NEW p, ClimbedTo(d, c, s, l, p), Len(l) > 1
    PROVE  ClimbedTo(d, c, Append(s, StepOf(l, p)), next_level(l), Parent(p))
<1> DEFINE k == Len(s)
           t == Append(s, StepOf(l, p))
<1>0. PICK L, C : Climb(d, c, s, L, C) /\ l = L[k] /\ p = C[k]
      BY DEF ClimbedTo
<1>1. k \in Nat /\ IsLevel(s)
      BY <1>0 DEF Climb, IsLevel
<1>2. /\ IsLevel(t) /\ Len(t) = k + 1
      /\ \A i \in 1..k : t[i] = s[i]
      /\ t[k + 1] = StepOf(L[k], C[k])
      BY <1>0, <1>1, LevelAppend
<1> DEFINE M == [j \in 0..(k + 1) |-> IF j = k + 1 THEN next_level(L[k]) ELSE L[j]]
           B == [j \in 0..(k + 1) |-> IF j = k + 1 THEN Parent(C[k]) ELSE C[j]]
<1>3. /\ \A j \in 0..k : M[j] = L[j] /\ B[j] = C[j]
      /\ M[k + 1] = next_level(L[k]) /\ B[k + 1] = Parent(C[k])
      BY <1>1
<1> HIDE DEF M, B
<1>4. Proper(L[k]) /\ C[k] \in Nat /\ C[k] < Len(L[k])
      BY <1>0, <1>1 DEF Climb
<1>5. Proper(M[k + 1]) /\ B[k + 1] \in Nat /\ B[k + 1] < Len(M[k + 1])
  <2>1. Proper(next_level(L[k]))
        BY <1>4, ProperNext
  <2>2. Parent(C[k]) \in Nat /\ Parent(C[k]) < Len(next_level(L[k]))
        BY <1>4, FoldUp DEF Parent
  <2> QED
      BY <1>3, <2>1, <2>2
<1>6. ASSUME NEW j \in 0..(k + 1) PROVE Proper(M[j]) /\ B[j] \in Nat /\ B[j] < Len(M[j])
  <2>1. j \in 0..k \/ j = k + 1
        BY <1>1
  <2>2. ASSUME j \in 0..k PROVE Proper(M[j]) /\ B[j] \in Nat /\ B[j] < Len(M[j])
        BY <1>0, <1>3, <2>2 DEF Climb
  <2> QED
      BY <1>5, <2>1, <2>2
<1>7. ASSUME NEW j \in 0..k
      PROVE  /\ Len(M[j]) > 1 /\ M[j + 1] = next_level(M[j])
             /\ B[j + 1] = Parent(B[j]) /\ t[j + 1] = StepOf(M[j], B[j])
  <2>1. CASE j = k
        BY <1>0, <1>1, <1>2, <1>3, <2>1
  <2>2. CASE j # k
    <3>1. j \in 0..(k - 1) /\ j + 1 \in 0..k /\ j + 1 \in 1..k
          BY <1>1, <2>2
    <3>2. /\ Len(L[j]) > 1 /\ L[j + 1] = next_level(L[j])
          /\ C[j + 1] = Parent(C[j]) /\ s[j + 1] = StepOf(L[j], C[j])
          BY <1>0, <3>1 DEF Climb
    <3>3. M[j] = L[j] /\ B[j] = C[j] /\ M[j + 1] = L[j + 1] /\ B[j + 1] = C[j + 1] /\ t[j + 1] = s[j + 1]
          BY <1>2, <1>3, <3>1
    <3> QED
        BY <3>2, <3>3
  <2> QED
      BY <2>1, <2>2
<1>8. M[0] = d /\ B[0] = c
  <2>1. 0 \in 0..k
        BY <1>1
  <2> QED
      BY <1>0, <1>3, <2>1 DEF Climb
<1>9. (k + 1) - 1 = k
      BY <1>1
<1>10. Climb(d, c, t, M, B)
      BY <1>2, <1>6, <1>7, <1>8, <1>9 DEF Climb
<1>11. next_level(l) = M[Len(t)] /\ Parent(p) = B[Len(t)]
      BY <1>0, <1>2, <1>3
<1> QED
    BY <1>10, <1>11 DEF ClimbedTo

(* A climb that ends at a single digest ends at the root.                  *)
LEMMA ClimbTop ==
    ASSUME NEW d, Proper(d), NEW c, NEW s, NEW L, NEW C, Climb(d, c, s, L, C), Len(L[Len(s)]) = 1
    PROVE  L[Len(s)][1] = batched_merkle_root_digests(d) /\ C[Len(s)] = 0
<1> DEFINE k == Len(s)
<1>1. k \in Nat /\ k \in 0..k
      BY DEF Climb, IsLevel
<1>2. Tree(d, L, k)
      BY <1>1 DEF Climb, Tree
<1>3. PICK M, h : Tree(d, M, h) /\ batched_merkle_root_digests(d) = M[h][1]
      BY RootOfTree
<1>4. L[k] = M[h]
      BY <1>2, <1>3, TreeUnique
<1>5. C[k] \in Nat /\ C[k] < 1
      BY <1>1 DEF Climb
<1> QED
    BY <1>3, <1>4, <1>5

IsPresented(p) ==
    p = [digest |-> p.digest, index |-> p.index, proof |-> p.proof,
         left |-> p.left, root |-> p.root, current |-> p.current]

(* The proof given in j of whose steps are folded in: the steps made,      *)
(* on whatever side, and what is left of them.                             *)
Folding(s, p, j) ==
    /\ IsLevel(p.proof) /\ Len(p.proof) = Len(s)
    /\ \A i \in 1..Len(s) : p.proof[i].sibling = s[i].sibling
    /\ j \in 0..Len(s) /\ IsLevel(p.left) /\ Len(p.left) = Len(s) - j
    /\ \A i \in 1..(Len(s) - j) : p.left[i] = p.proof[j + i]

(* The digest folded so far is on the path only for the leaf proved, and   *)
(* for that leaf it is on the path while the sides are those of the steps. *)
OnPath(s, p, j, L, C) ==
    /\ p.current = L[j][C[j] + 1] => p.digest = L[0][C[0] + 1]
    /\ p.digest = L[0][C[0] + 1] /\ p.proof = s => p.current = L[j][C[j] + 1]

Answered ==
    LET proved == Digests(leaves)[presented.index + 1]
    IN  /\ checking = "verified" => presented.digest = proved
        /\ presented.digest = proved /\ presented.proof = steps => checking = "verified"

Checkings == {"staging", "proving", "proved", "verifying", "verified", "refused"}

(* There is a climb that the steps record; the check has folded in some of *)
(* them.                                                                   *)
Climbing ==
    \E L, C : /\ Climb(Digests(leaves), presented.index, steps, L, C)
              /\ level = L[Len(steps)] /\ cursor = C[Len(steps)]
              /\ checking = "verifying" =>
                     \E j \in Nat : Folding(steps, presented, j) /\ OnPath(steps, presented, j, L, C)

(* What has been staged, the climb the proof records, and what the check   *)
(* has folded of it.                                                       *)
MerkleInv ==
    /\ leaves \in Seq(Payload) /\ IsPresented(presented) /\ checking \in Checkings
    /\ checking # "staging" => leaves # << >>
    /\ checking # "staging" => Climbing
    /\ checking \notin {"staging", "proving"} => Len(level) = 1 /\ presented.root = level[1]
    /\ checking \in {"verified", "refused"} => Answered

LEMMA MerkleStart == MerkleInit => MerkleInv
BY DEF MerkleInit, MerkleInv, NoLeaf, IsPresented, Checkings

LEMMA StageStep == ASSUME NEW p \in Payload PROVE MerkleInv /\ stage_leaf(p) => MerkleInv'
<1> SUFFICES ASSUME MerkleInv, stage_leaf(p) PROVE MerkleInv'
    OBVIOUS
<1>1. /\ leaves' = Append(leaves, p) /\ checking' = "staging" /\ presented' = presented
      BY DEF stage_leaf
<1>2. leaves' \in Seq(Payload)
      BY <1>1 DEF MerkleInv
<1> QED
    BY <1>1, <1>2 DEF MerkleInv, IsPresented, Checkings

LEMMA ProofStartStep ==
    ASSUME NEW index \in 0..(MaxLeaves - 1)
    PROVE  MerkleInv /\ batched_merkle_proof(index) => MerkleInv'
<1> SUFFICES ASSUME MerkleInv, batched_merkle_proof(index) PROVE MerkleInv'
    OBVIOUS
<1>1. /\ index \in 0..(Len(leaves) - 1) /\ leaves' = leaves
      /\ level' = Digests(leaves) /\ cursor' = index /\ steps' = << >>
      /\ presented' = [NoLeaf EXCEPT !.index = index] /\ checking' = "proving"
      BY DEF batched_merkle_proof
<1>2. leaves \in Seq(Payload) /\ leaves # << >> /\ index \in Nat /\ index < Len(leaves)
      BY <1>1 DEF MerkleInv
<1>3. presented'.index = index /\ IsPresented(presented)'
      BY <1>1 DEF NoLeaf, IsPresented
<1>4. Proper(Digests(leaves)) /\ Len(Digests(leaves)) = Len(leaves)
      BY <1>2, BatchLevel
<1>5. \E L, C : Climb(Digests(leaves), index, << >>, L, C) /\ L[Len(<< >>)] = Digests(leaves)
                /\ C[Len(<< >>)] = index
      BY <1>2, <1>4, ClimbStart
<1>6. Digests(leaves)' = Digests(leaves)
      BY <1>1 DEF Digests
<1>7. \E L, C : /\ Climb(Digests(leaves)', presented'.index, steps', L, C)
                /\ level' = L[Len(steps')] /\ cursor' = C[Len(steps')]
      BY <1>1, <1>3, <1>5, <1>6
<1>8. Climbing'
      BY <1>1, <1>7 DEF Climbing
<1> QED
    BY <1>1, <1>2, <1>3, <1>8 DEF MerkleInv, Checkings

LEMMA ProofStepStep == MerkleInv /\ proof_step => MerkleInv'
<1> SUFFICES ASSUME MerkleInv, proof_step PROVE MerkleInv'
    OBVIOUS
<1>1. /\ checking = "proving" /\ Len(level) > 1 /\ UNCHANGED <<leaves, presented, checking>>
      /\ level' = next_level(level) /\ cursor' = Parent(cursor)
      BY DEF proof_step, Parent
<1>2. PICK L, C : /\ Climb(Digests(leaves), presented.index, steps, L, C)
                  /\ level = L[Len(steps)] /\ cursor = C[Len(steps)]
      BY <1>1 DEF MerkleInv, Climbing
<1>3. steps' = Append(steps, StepOf(level, cursor))
  <2>1. cursor \in Nat
    <3>1. Len(steps) \in 0..Len(steps)
          BY <1>2 DEF Climb, IsLevel
    <3> QED
        BY <1>2, <3>1 DEF Climb
  <2>2. CASE cursor % 2 = 0
        BY <2>2 DEF proof_step, StepOf
  <2>3. CASE cursor % 2 # 0
        BY <2>3 DEF proof_step, StepOf
  <2> QED
      BY <2>2, <2>3
<1>4. \E M, B : /\ Climb(Digests(leaves), presented.index, steps', M, B)
                /\ M[Len(steps')] = next_level(level) /\ B[Len(steps')] = Parent(cursor)
  <2>1. ClimbedTo(Digests(leaves), presented.index, steps, level, cursor)
        BY <1>2 DEF ClimbedTo
  <2>2. ClimbedTo(Digests(leaves), presented.index, steps', next_level(level), Parent(cursor))
        BY <1>1, <1>3, <2>1, ClimbOn
  <2> QED
      BY <2>2 DEF ClimbedTo
<1>5. Digests(leaves)' = Digests(leaves)
      BY <1>1 DEF Digests
<1>6. \E M, B : /\ Climb(Digests(leaves)', presented'.index, steps', M, B)
                /\ level' = M[Len(steps')] /\ cursor' = B[Len(steps')]
      BY <1>1, <1>4, <1>5
<1>7. Climbing'
      BY <1>1, <1>6 DEF Climbing
<1> QED
    BY <1>1, <1>7 DEF MerkleInv, Checkings

LEMMA ProofEndsStep == MerkleInv /\ proof_ends => MerkleInv'
<1> SUFFICES ASSUME MerkleInv, proof_ends PROVE MerkleInv'
    OBVIOUS
<1>1. /\ checking = "proving" /\ Len(level) = 1 /\ UNCHANGED <<leaves, level, cursor, steps>>
      /\ presented' = [presented EXCEPT !.root = level[1]] /\ checking' = "proved"
      BY DEF proof_ends
<1>2. presented'.index = presented.index /\ presented'.root = level[1] /\ IsPresented(presented')
      BY <1>1 DEF MerkleInv, IsPresented
<1>3. Digests(leaves)' = Digests(leaves)
      BY <1>1 DEF Digests
<1>4. \E L, C : /\ Climb(Digests(leaves)', presented'.index, steps', L, C)
                /\ level' = L[Len(steps')] /\ cursor' = C[Len(steps')]
      BY <1>1, <1>2, <1>3 DEF MerkleInv, Climbing
<1>5. Climbing'
      BY <1>1, <1>4 DEF Climbing
<1> QED
    BY <1>1, <1>2, <1>5 DEF MerkleInv, Checkings

(* A proof in transit has the siblings of the one made.                    *)
LEMMA InTransit ==
    ASSUME NEW d, NEW c, NEW L, NEW C, Climb(d, c, steps, L, C), NEW proof \in ProofsInTransit
    PROVE  /\ IsLevel(proof) /\ Len(proof) = Len(steps)
           /\ \A i \in 1..Len(steps) : proof[i].sibling = steps[i].sibling
<1>1. IsLevel(steps) /\ Len(steps) \in Nat /\ steps = [i \in 1..Len(steps) |-> steps[i]]
      BY DEF Climb, IsLevel
<1>2. CASE proof = steps
      BY <1>1, <1>2
<1>3. ASSUME NEW k \in DOMAIN steps, NEW way, proof = [steps EXCEPT ![k].direction = way]
      PROVE  /\ IsLevel(proof) /\ Len(proof) = Len(steps)
             /\ \A i \in 1..Len(steps) : proof[i].sibling = steps[i].sibling
  <2> DEFINE n == Len(steps)
  <2>1. n \in Nat /\ DOMAIN steps = 1..n
        BY <1>1
  <2> HIDE DEF n
  <2>2. /\ proof = [i \in 1..n |-> proof[i]]
        /\ \A i \in 1..n : proof[i] = IF i = k THEN [steps[k] EXCEPT !.direction = way] ELSE steps[i]
        BY <1>3, <2>1
  <2>3. IsLevel(proof) /\ Len(proof) = n
        BY <2>1, <2>2, LevelOf
  <2>4. PICK j \in 0..(n - 1) : k = j + 1
    <3>1. k - 1 \in 0..(n - 1) /\ k = (k - 1) + 1
          BY <1>3, <2>1
    <3> QED
        BY <3>1
  <2>5. steps[k] = StepOf(L[j], C[j])
        BY <2>4 DEF Climb, n
  <2>6. [steps[k] EXCEPT !.direction = way].sibling = steps[k].sibling
        BY <2>5 DEF StepOf
  <2>7. \A i \in 1..n : proof[i].sibling = steps[i].sibling
        BY <2>2, <2>6
  <2> QED
      BY <2>3, <2>7 DEF n
<1> QED
    BY <1>2, <1>3 DEF ProofsInTransit

LEMMA VerifyStartStep ==
    ASSUME NEW leaf, NEW proof \in ProofsInTransit
    PROVE  MerkleInv /\ batched_merkle_proof_verify(leaf, proof) => MerkleInv'
<1> SUFFICES ASSUME MerkleInv, batched_merkle_proof_verify(leaf, proof) PROVE MerkleInv'
    OBVIOUS
<1>1. /\ checking = "proved" /\ checking' = "verifying" /\ UNCHANGED <<leaves, level, cursor, steps>>
      /\ presented' = [presented EXCEPT !.digest = leaf, !.proof = proof, !.left = proof, !.current = leaf]
      BY DEF batched_merkle_proof_verify
<1>2. /\ presented'.index = presented.index /\ presented'.root = presented.root /\ IsPresented(presented')
      /\ presented'.digest = leaf /\ presented'.proof = proof /\ presented'.left = proof
      /\ presented'.current = leaf
      BY <1>1 DEF MerkleInv, IsPresented
<1>3. PICK L, C : /\ Climb(Digests(leaves), presented.index, steps, L, C)
                  /\ level = L[Len(steps)] /\ cursor = C[Len(steps)]
      BY <1>1 DEF MerkleInv, Climbing
<1>4. /\ IsLevel(proof) /\ Len(proof) = Len(steps)
      /\ \A i \in 1..Len(steps) : proof[i].sibling = steps[i].sibling
      BY <1>3, InTransit
<1>5. Folding(steps, presented', 0)
  <2> DEFINE n == Len(steps)
  <2>1. n \in Nat
        BY <1>3 DEF Climb, IsLevel
  <2> HIDE DEF n
  <2>2. 0 \in 0..n /\ n - 0 = n /\ \A i \in 1..n : 0 + i = i
        BY <2>1
  <2> QED
      BY <1>2, <1>4, <2>2 DEF Folding, n
<1>6. OnPath(steps, presented', 0, L, C)
      BY <1>2 DEF OnPath
<1>7. Digests(leaves)' = Digests(leaves)
      BY <1>1 DEF Digests
<1>8. /\ Climb(Digests(leaves)', presented'.index, steps', L, C)
      /\ level' = L[Len(steps')] /\ cursor' = C[Len(steps')]
      /\ Folding(steps', presented', 0) /\ OnPath(steps', presented', 0, L, C)
      BY <1>1, <1>2, <1>3, <1>5, <1>6, <1>7
<1>9. Climbing'
      BY <1>8 DEF Climbing
<1> QED
    BY <1>1, <1>2, <1>9 DEF MerkleInv, Checkings

LEMMA LevelTail ==
    ASSUME NEW s, IsLevel(s), s # << >>
    PROVE  /\ Len(s) >= 1 /\ Head(s) = s[1]
           /\ IsLevel(Tail(s)) /\ Len(Tail(s)) = Len(s) - 1
           /\ \A i \in 1..(Len(s) - 1) : Tail(s)[i] = s[i + 1]
<1> DEFINE n == Len(s)
           R == {s[i] : i \in 1..n}
<1>1. n \in Nat /\ s = [i \in 1..n |-> s[i]]
      BY DEF IsLevel
<1>2. s \in Seq(R)
  <2>1. \A i \in 1..n : s[i] \in R
        OBVIOUS
  <2> HIDE DEF R, n
  <2>2. s \in [1..n -> R]
        BY <1>1, <2>1
  <2> QED
      BY <1>1, <2>2
<1> HIDE DEF R, n
<1>3. /\ Len(s) >= 1 /\ Head(s) = s[1] /\ Len(s) \in Nat
      /\ Tail(s) \in Seq(R) /\ Len(Tail(s)) = Len(s) - 1
      /\ \A i \in 1..(Len(s) - 1) : Tail(s)[i] = s[i + 1]
      BY <1>2
<1>4. IsLevel(Tail(s))
  <2> DEFINE t == Tail(s)
  <2>1. t \in Seq(R)
        BY <1>3
  <2> HIDE DEF t
  <2>2. Len(t) \in Nat /\ t = [i \in 1..Len(t) |-> t[i]]
        BY <2>1
  <2> QED
      BY <2>2 DEF IsLevel, t
<1> QED
    BY <1>3, <1>4

(* The next step of a proof in transit.                                    *)
LEMMA FoldNext ==
    ASSUME NEW s, Len(s) \in Nat, NEW p, NEW j, Folding(s, p, j), p.left # << >>
    PROVE  /\ j \in 0..(Len(s) - 1) /\ Head(p.left) = p.proof[j + 1]
           /\ Head(p.left).sibling = s[j + 1].sibling
<1> DEFINE n == Len(s)
           m == Len(p.left)
<1>1. /\ n \in Nat /\ j \in 0..n /\ m = n - j
      /\ \A i \in 1..n : p.proof[i].sibling = s[i].sibling
      /\ \A i \in 1..(n - j) : p.left[i] = p.proof[j + i]
      BY DEF Folding
<1>2. m >= 1 /\ Head(p.left) = p.left[1]
      BY LevelTail DEF Folding
<1> HIDE DEF n, m
<1>3. j \in 0..(n - 1) /\ 1 \in 1..(n - j) /\ j + 1 \in 1..n
      BY <1>1, <1>2
<1>4. Head(p.left) = p.proof[j + 1]
      BY <1>1, <1>2, <1>3
<1> QED
    BY <1>1, <1>3, <1>4 DEF n

(* What is left of a proof in transit after that step.                     *)
LEMMA FoldOn ==
    ASSUME NEW s, Len(s) \in Nat, NEW p, NEW q, NEW j, Folding(s, p, j), p.left # << >>,
           q.proof = p.proof, q.left = Tail(p.left)
    PROVE  Folding(s, q, j + 1)
<1> DEFINE n == Len(s)
           m == Len(p.left)
<1>1. /\ n \in Nat /\ j \in 0..n /\ m = n - j
      /\ IsLevel(p.proof) /\ Len(p.proof) = n /\ \A i \in 1..n : p.proof[i].sibling = s[i].sibling
      /\ \A i \in 1..(n - j) : p.left[i] = p.proof[j + i]
      BY DEF Folding
<1>2. /\ m >= 1 /\ IsLevel(Tail(p.left)) /\ Len(Tail(p.left)) = m - 1
      /\ \A i \in 1..(m - 1) : Tail(p.left)[i] = p.left[i + 1]
      BY LevelTail DEF Folding
<1> HIDE DEF n, m
<1>3. j + 1 \in 0..n /\ m - 1 = n - (j + 1)
      BY <1>1, <1>2
<1>4. ASSUME NEW i \in 1..(n - (j + 1)) PROVE q.left[i] = q.proof[(j + 1) + i]
  <2>1. i \in 1..(m - 1) /\ i + 1 \in 1..(n - j) /\ j + (i + 1) = (j + 1) + i
        BY <1>1, <1>3
  <2>2. q.left[i] = p.left[i + 1]
        BY <1>2, <2>1
  <2>3. p.left[i + 1] = p.proof[j + (i + 1)]
        BY <1>1, <2>1
  <2> QED
      BY <2>1, <2>2, <2>3
<1> QED
    BY <1>1, <1>2, <1>3, <1>4 DEF Folding, n

LEMMA PathOn ==
    ASSUME NEW d, NEW c, NEW s, NEW L, NEW C, Climb(d, c, s, L, C), NEW j \in 0..(Len(s) - 1),
           NEW p, NEW q, OnPath(s, p, j, L, C), NEW step, step.sibling = s[j + 1].sibling,
           p.proof = s => step = s[j + 1],
           q.digest = p.digest, q.proof = p.proof,
           \/ step.direction = "left" /\ q.current = node_digest(step.sibling, p.current)
           \/ step.direction = "right" /\ q.current = node_digest(p.current, step.sibling)
    PROVE  OnPath(s, q, j + 1, L, C)
<1> DEFINE e == L[j][C[j] + 1]
           f == L[j + 1][C[j + 1] + 1]
<1>1. /\ Proper(L[j]) /\ C[j] \in Nat /\ C[j] < Len(L[j])
      /\ L[j + 1] = next_level(L[j]) /\ C[j + 1] = Parent(C[j]) /\ s[j + 1] = StepOf(L[j], C[j])
  <2>1. Len(s) \in Nat
        BY DEF Climb, IsLevel
  <2>2. j \in 0..Len(s)
        BY <2>1
  <2> QED
      BY <2>2 DEF Climb
<1>2. f = next_level(L[j])[C[j] \div 2 + 1]
      BY <1>1 DEF Parent
<1>3. step.sibling = StepOf(L[j], C[j]).sibling
      BY <1>1
<1>4. ASSUME q.current = f PROVE p.current = e
  <2> DEFINE l == L[j]
             k == C[j]
             y == p.current
  <2>1. /\ \/ node_digest(StepOf(l, k).sibling, y) = next_level(l)[k \div 2 + 1]
           \/ node_digest(y, StepOf(l, k).sibling) = next_level(l)[k \div 2 + 1]
        /\ Proper(l) /\ k \in Nat /\ k < Len(l)
        BY <1>1, <1>2, <1>3, <1>4
  <2> HIDE DEF l, k, y
  <2>2. y = l[k + 1]
        BY <2>1, FoldBinds
  <2> QED
      BY <2>2 DEF l, k, y
<1>5. ASSUME p.proof = s, p.current = e PROVE q.current = f
  <2>1. step = StepOf(L[j], C[j])
        BY <1>1, <1>5
  <2>2. f = IF step.direction = "left" THEN node_digest(step.sibling, e) ELSE node_digest(e, step.sibling)
        BY <1>1, <1>2, <2>1, FoldUp
  <2> HIDE DEF e, f
  <2> QED
      BY <1>5, <2>2
<1> QED
    BY <1>4, <1>5 DEF OnPath

LEMMA VerifyStepStep == MerkleInv /\ verify_step => MerkleInv'
<1> SUFFICES ASSUME MerkleInv, verify_step PROVE MerkleInv'
    OBVIOUS
<1> DEFINE step == Head(presented.left)
<1>1. checking = "verifying" /\ presented.left # << >> /\ UNCHANGED <<leaves, level, cursor, steps>>
      BY DEF verify_step
<1>2. PICK L, C : /\ Climb(Digests(leaves), presented.index, steps, L, C)
                  /\ level = L[Len(steps)] /\ cursor = C[Len(steps)]
                  /\ \E j \in Nat : Folding(steps, presented, j) /\ OnPath(steps, presented, j, L, C)
      BY <1>1 DEF MerkleInv, Climbing
<1>3. PICK j \in Nat : Folding(steps, presented, j) /\ OnPath(steps, presented, j, L, C)
      BY <1>2
<1>4. Len(steps) \in Nat
      BY <1>2 DEF Climb, IsLevel
<1>5. /\ j \in 0..(Len(steps) - 1) /\ step = presented.proof[j + 1]
      /\ step.sibling = steps[j + 1].sibling
      BY <1>1, <1>3, <1>4, FoldNext
<1>6. presented.proof = steps => step = steps[j + 1]
      BY <1>5
<1>7. Digests(leaves)' = Digests(leaves) /\ Len(level') = 1 /\ presented.root = level'[1]
      /\ leaves' \in Seq(Payload) /\ leaves' # << >> /\ IsPresented(presented)
      BY <1>1 DEF Digests, MerkleInv
<1> HIDE DEF step
<1>8. CASE step.direction \in {"left", "right"}
  <2>1. /\ checking' = "verifying"
        /\ \/ /\ step.direction = "left"
              /\ presented' = [presented EXCEPT !.current = node_digest(step.sibling, presented.current),
                                                !.left = Tail(@)]
           \/ /\ step.direction = "right"
              /\ presented' = [presented EXCEPT !.current = node_digest(presented.current, step.sibling),
                                                !.left = Tail(@)]
        BY <1>1, <1>8 DEF verify_step, step
  <2>2. /\ presented'.index = presented.index /\ presented'.root = presented.root
        /\ presented'.digest = presented.digest /\ presented'.proof = presented.proof
        /\ presented'.left = Tail(presented.left) /\ IsPresented(presented')
        BY <1>7, <2>1 DEF IsPresented
  <2>3. \/ step.direction = "left" /\ presented'.current = node_digest(step.sibling, presented.current)
        \/ step.direction = "right" /\ presented'.current = node_digest(presented.current, step.sibling)
        BY <1>7, <2>1 DEF IsPresented
  <2>4. Folding(steps, presented', j + 1)
        BY <1>1, <1>3, <1>4, <2>2, FoldOn
  <2>5. OnPath(steps, presented', j + 1, L, C)
    <3> DEFINE p == presented
               q == presented'
    <3>1. /\ OnPath(steps, p, j, L, C) /\ q.digest = p.digest /\ q.proof = p.proof
          /\ p.proof = steps => step = steps[j + 1]
          /\ \/ step.direction = "left" /\ q.current = node_digest(step.sibling, p.current)
             \/ step.direction = "right" /\ q.current = node_digest(p.current, step.sibling)
          BY <1>3, <1>6, <2>2, <2>3
    <3> HIDE DEF p, q
    <3>2. OnPath(steps, q, j + 1, L, C)
          BY <1>2, <1>5, <3>1, PathOn
    <3> QED
        BY <3>2 DEF q
  <2>6. j + 1 \in Nat
        OBVIOUS
  <2>7. /\ Climb(Digests(leaves)', presented'.index, steps', L, C)
        /\ level' = L[Len(steps')] /\ cursor' = C[Len(steps')]
        /\ Folding(steps', presented', j + 1) /\ OnPath(steps', presented', j + 1, L, C)
        BY <1>1, <1>2, <1>7, <2>2, <2>4, <2>5
  <2>8. Climbing'
        BY <2>6, <2>7 DEF Climbing
  <2> QED
      BY <1>7, <2>1, <2>2, <2>8 DEF MerkleInv, Checkings
<1>9. CASE step.direction \notin {"left", "right"}
  <2>1. checking' = "refused" /\ presented' = presented
        BY <1>1, <1>9 DEF verify_step, step
  <2>2. presented.proof # steps
    <3>1. steps[j + 1] = StepOf(L[j], C[j])
          BY <1>2, <1>5 DEF Climb
    <3>2. steps[j + 1].direction \in {"left", "right"}
          BY <3>1 DEF StepOf
    <3> QED
        BY <1>6, <1>9, <3>2
  <2>3. Answered'
        BY <1>1, <2>1, <2>2 DEF Answered
  <2>4. /\ Climb(Digests(leaves)', presented'.index, steps', L, C)
        /\ level' = L[Len(steps')] /\ cursor' = C[Len(steps')]
        BY <1>1, <1>2, <1>7, <2>1
  <2>5. Climbing'
        BY <2>1, <2>4 DEF Climbing
  <2> QED
      BY <1>7, <2>1, <2>3, <2>5 DEF MerkleInv, Checkings
<1> QED
    BY <1>8, <1>9

LEMMA VerifyEndsStep == MerkleInv /\ verify_ends => MerkleInv'
<1> SUFFICES ASSUME MerkleInv, verify_ends PROVE MerkleInv'
    OBVIOUS
<1>1. /\ checking = "verifying" /\ presented.left = << >>
      /\ UNCHANGED <<leaves, level, cursor, steps, presented>>
      /\ checking' = IF presented.current = presented.root THEN "verified" ELSE "refused"
      BY DEF verify_ends
<1>2. PICK L, C : /\ Climb(Digests(leaves), presented.index, steps, L, C)
                  /\ level = L[Len(steps)] /\ cursor = C[Len(steps)]
                  /\ \E j \in Nat : Folding(steps, presented, j) /\ OnPath(steps, presented, j, L, C)
      BY <1>1 DEF MerkleInv, Climbing
<1>3. PICK j \in Nat : Folding(steps, presented, j) /\ OnPath(steps, presented, j, L, C)
      BY <1>2
<1>4. /\ leaves \in Seq(Payload) /\ leaves # << >> /\ IsPresented(presented)
      /\ Len(level) = 1 /\ presented.root = level[1]
      BY <1>1 DEF MerkleInv
<1>5. j = Len(steps)
  <2>1. Len(steps) \in Nat /\ Len(presented.left) = 0
        BY <1>1, <1>2 DEF Climb, IsLevel
  <2>2. j \in 0..Len(steps) /\ Len(presented.left) = Len(steps) - j
        BY <1>3 DEF Folding
  <2> QED
      BY <2>1, <2>2
<1>6. Proper(Digests(leaves))
      BY <1>4, BatchLevel
<1>7. C[j] = 0
      BY <1>2, <1>4, <1>5, <1>6, ClimbTop
<1>8. presented.root = L[j][C[j] + 1]
  <2>1. C[j] + 1 = 1
        BY <1>7
  <2> QED
      BY <1>2, <1>4, <1>5, <2>1
<1>9. L[0] = Digests(leaves) /\ C[0] = presented.index
      BY <1>2 DEF Climb
<1>10. Answered'
      BY <1>1, <1>3, <1>8, <1>9 DEF Answered, OnPath, Digests
<1>11. Digests(leaves)' = Digests(leaves)
      BY <1>1 DEF Digests
<1>12. /\ Climb(Digests(leaves)', presented'.index, steps', L, C)
      /\ level' = L[Len(steps')] /\ cursor' = C[Len(steps')]
      BY <1>1, <1>2, <1>11
<1>13. checking' \in {"verified", "refused"}
      BY <1>1
<1>14. Climbing'
      BY <1>12, <1>13 DEF Climbing
<1> QED
    BY <1>1, <1>4, <1>10, <1>13, <1>14 DEF MerkleInv, Checkings

LEMMA MerkleInvKept == MerkleInv /\ [MerkleNext]_merkle => MerkleInv'
<1>1. MerkleInv /\ UNCHANGED merkle => MerkleInv'
  <2> SUFFICES ASSUME MerkleInv, UNCHANGED merkle PROVE MerkleInv'
      OBVIOUS
  <2>1. UNCHANGED <<leaves, level, cursor, steps, presented, checking>>
        BY DEF merkle
  <2>2. Digests(leaves)' = Digests(leaves)
        BY <2>1 DEF Digests
  <2>3. (Climbing <=> Climbing') /\ (Answered <=> Answered')
        BY <2>1, <2>2 DEF Climbing, Answered
  <2> QED
      BY <2>1, <2>3 DEF MerkleInv
<1> QED
    BY <1>1, StageStep, ProofStartStep, ProofStepStep, ProofEndsStep,
       VerifyStartStep, VerifyStepStep, VerifyEndsStep
    DEF MerkleNext

LEMMA MerkleInvBinds == MerkleInv => MerkleBinds
<1> SUFFICES ASSUME MerkleInv PROVE MerkleBinds
    OBVIOUS
<1>1. leaves \in Seq(Payload)
      BY DEF MerkleInv
<1>2. ASSUME leaves # << >>, NEW other \in Batches, batched_merkle_root(other) = batched_merkle_root(leaves)
      PROVE  other = leaves
  <2>1. PICK n \in 1..MaxLeaves : other \in [1..n -> Payload]
        BY DEF Batches
  <2>2. other \in Seq(Payload) /\ other # << >>
        BY <2>1, MaxLeavesAssumption
  <2> QED
      BY <1>1, <1>2, <2>2, RootCommits
<1>3. ASSUME checking \in {"verified", "refused"}
      PROVE  Answered /\ presented.root = batched_merkle_root(leaves)
  <2>1. /\ leaves # << >> /\ Len(level) = 1 /\ presented.root = level[1] /\ Answered
        BY <1>3 DEF MerkleInv
  <2>2. PICK L, C : /\ Climb(Digests(leaves), presented.index, steps, L, C)
                    /\ level = L[Len(steps)] /\ cursor = C[Len(steps)]
        BY <1>3 DEF MerkleInv, Climbing
  <2>3. Proper(Digests(leaves))
        BY <1>1, <2>1, BatchLevel
  <2>4. L[Len(steps)][1] = batched_merkle_root_digests(Digests(leaves))
        BY <2>1, <2>2, <2>3, ClimbTop
  <2> QED
      BY <2>1, <2>2, <2>4 DEF batched_merkle_root
<1> QED
    BY <1>2, <1>3 DEF MerkleBinds, Answered

(* For batches of any length and payloads of any kind: a batch root        *)
(* commits to one sequence of leaves although a level of odd length        *)
(* repeats its last digest, the proof made for a leaf ends in that root,   *)
(* and the check accepts it with that leaf and no other, even if a side    *)
(* was changed on the way.                                                 *)
THEOREM MerkleBinding == MerkleSpec => []MerkleBinds
<1>1. MerkleSpec => []MerkleInv
      BY MerkleStart, MerkleInvKept, PTL DEF MerkleSpec
<1> QED
    BY <1>1, MerkleInvBinds, PTL

=============================================================================
