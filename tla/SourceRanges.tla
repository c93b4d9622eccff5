---------------------------- MODULE SourceRanges ----------------------------
(***************************************************************************)
(* _coalesce_source_ranges and _source_declaration_aliases                 *)
(* (axle_exact_closure.py): the declarations of an owner module whose      *)
(* source lies inside that of another are read with it.  A position is a   *)
(* line and a column in UTF-16 units, compared as a pair: a number here.   *)
(* Declarations are numbers in the order of their anchor key.              *)
(***************************************************************************)
EXTENDS Naturals, Sequences, FiniteSets, SequencesExt

CONSTANTS MaxPosition, MaxRanged

ASSUME RangesAssumption == MaxPosition \in Nat /\ MaxRanged \in Nat

VARIABLES
    ranged,     \* the source range of each declaration
    waiting,    \* ranges not yet taken
    coalesced,  \* pairs of a range and the names read with it
    coalescing, \* "ranges", "aliases", or how it ended
    aliases     \* the anchor of each name

slicing == <<ranged, waiting, coalesced, coalescing, aliases>>

Ranged == 1..MaxRanged
SourceRange == {r \in [start : 0..MaxPosition, end : 0..MaxPosition] : r.start <= r.end}

range_contains(outer, inner) == outer.start <= inner.start /\ inner.end <= outer.end

(* By start, the longest of those first.  The ranges are taken in this     *)
(* order, each once.                                                       *)
RangeBefore(r, q) == r.start < q.start \/ (r.start = q.start /\ r.end > q.end)
NextRange == CHOOSE r \in waiting : \A q \in waiting : q = r \/ RangeBefore(r, q)

RangesInit ==
    /\ ranged \in [Ranged -> SourceRange]
    /\ waiting = {ranged[d] : d \in Ranged}
    /\ coalesced = << >> /\ coalescing = "ranges"
    /\ aliases = [d \in Ranged |-> 0]

NamesAt(range) == {d \in Ranged : ranged[d] = range}

(* Fault: a range is compared with the one before it and no other. *)
coalesce_range_last ==
    /\ coalescing = "ranges" /\ waiting # {}
    /\ LET range == NextRange
       IN  IF coalesced # << >> /\ range_contains(Last(coalesced).range, range)
           THEN /\ coalesced' = [coalesced EXCEPT ![Len(coalesced)].names = @ \cup NamesAt(range)]
                /\ UNCHANGED coalescing
           ELSE /\ coalesced' = Append(coalesced, [range |-> range, names |-> NamesAt(range)])
                /\ UNCHANGED coalescing
    /\ waiting' = waiting \ {NextRange}
    /\ UNCHANGED <<ranged, aliases>>

(* Into the first range that contains it, else behind those taken, which   *)
(* it must not overlap.                                                    *)
coalesce_range ==
    /\ coalescing = "ranges" /\ waiting # {}
    /\ LET range      == NextRange
           containing == {i \in DOMAIN coalesced : range_contains(coalesced[i].range, range)}
           overlaps   == \E i \in DOMAIN coalesced : range.start < coalesced[i].range.end
       IN  IF containing # {}
           THEN /\ LET i == CHOOSE i \in containing : \A j \in containing : i <= j
                   IN  coalesced' = [coalesced EXCEPT ![i].names = @ \cup NamesAt(range)]
                /\ UNCHANGED coalescing
           ELSE IF overlaps
           THEN /\ coalescing' = "partially-overlapping-source-ranges"
                /\ UNCHANGED coalesced
           ELSE /\ coalesced' = Append(coalesced, [range |-> range, names |-> NamesAt(range)])
                /\ UNCHANGED coalescing
    /\ waiting' = waiting \ {NextRange}
    /\ UNCHANGED <<ranged, aliases>>

(* The anchor of a range is the least name that has exactly that range.    *)
source_declaration_aliases ==
    /\ coalescing = "ranges" /\ waiting = {}
    /\ LET anchor(part) == CHOOSE d \in NamesAt(part.range) : \A e \in NamesAt(part.range) : d <= e
           part(d) == CHOOSE p \in ToSet(coalesced) : d \in p.names
       IN  aliases' = [d \in Ranged |-> anchor(part(d))]
    /\ coalescing' = "sliced"
    /\ UNCHANGED <<ranged, waiting, coalesced>>

RangesNext == coalesce_range \/ source_declaration_aliases

RangesSpec == RangesInit /\ [][RangesNext]_slicing

-----------------------------------------------------------------------------
(* Properties. *)

Disjoint(r, q) == r.end <= q.start \/ q.end <= r.start
Nested(r, q) == range_contains(r, q) \/ range_contains(q, r)

(* What is sliced from a module is every declaration's source, each text   *)
(* once and in the order of the file: the ranges kept are disjoint and in  *)
(* order, a name goes with the one that contains it, and its anchor is     *)
(* read from the same text, also when two ranges cross inside a third.     *)
(* Nothing is refused unless two ranges cross.                             *)
RangesCover ==
    /\ coalescing = "sliced" =>
           /\ \A i, j \in DOMAIN coalesced : i < j => coalesced[i].range.end <= coalesced[j].range.start
           /\ \A d \in Ranged :
                  /\ Cardinality({i \in DOMAIN coalesced : d \in coalesced[i].names}) = 1
                  /\ range_contains(ranged[aliases[d]], ranged[d])
                  /\ aliases[aliases[d]] = aliases[d]
    /\ coalescing = "partially-overlapping-source-ranges" =>
           \E d, e \in Ranged : ~Disjoint(ranged[d], ranged[e]) /\ ~Nested(ranged[d], ranged[e])

=============================================================================
