----------------------------- MODULE LaneProofs -----------------------------
(***************************************************************************)
(* Proofs about the hot lane (HotBatch) and the binding's use of it        *)
(* (Roundtrip): for windows, lease tables and arenas of any size, a host   *)
(* that makes the kernel's calls in any order, and roundtrips that fail at *)
(* any call.                                                               *)
(***************************************************************************)
EXTENDS Roundtrip, SequenceTheorems, FiniteSetTheorems, TLAPS

EventType ==
    [seq : Sequence, arena : Arena, gen : 0..MaxGeneration, end : Nat,
     polled : BOOLEAN, accepted : BOOLEAN, acked : BOOLEAN]

LeaseType ==
    [arena : Arena, gen : 0..MaxGeneration, count : Nat \ {0}, first : Sequence, last : Sequence]

ArenaType == [alive : BOOLEAN, gen : 0..MaxGeneration, cap : Nat, inflight : Nat]

LaneType ==
    /\ pending \in Seq(EventType) /\ Len(pending) <= Capacity
    /\ cursor \in 0..Len(pending)
    /\ watermark \in 0..MaxSequence /\ published \in 0..MaxSequence
    /\ arena \in [Arena -> ArenaType]
    /\ leases \in [DOMAIN leases -> LeaseType] /\ DOMAIN leases \subseteq 1..MaxLeases
    /\ accepts \in [Sequence -> Nat]

(* Any two events are in order, not only neighbours.                       *)
Sorted(window) == \A i, j \in 1..Len(window) : i < j => window[i].seq < window[j].seq

(* The marks of an event follow one another.                               *)
Marked(window, polled) ==
    \A i \in 1..Len(window) :
        /\ window[i].polled <=> i <= polled
        /\ window[i].acked => window[i].accepted
        /\ window[i].accepted => window[i].polled

(* The lease stands for the events behind place p: they are polled, of one *)
(* generation of its arena, and none of them is acknowledged.              *)
Placed(l, window, p) ==
    /\ l.first = window[p + 1].seq /\ l.last = window[p + l.count].seq
    /\ \A i \in (p + 1)..(p + l.count) :
           window[i].arena = l.arena /\ window[i].gen = l.gen /\ ~window[i].acked

LeasePlaced(l, window, polled) == \E p \in Nat : p + l.count <= polled /\ Placed(l, window, p)

LeasesPlaced == \A id \in DOMAIN leases : LeasePlaced(leases[id], pending, cursor)

Finite == \A a \in Arena : IsFiniteSet(UnderLease(a))

LaneInv ==
    /\ LaneType /\ Sorted(pending) /\ Marked(pending, cursor)
    /\ LeasesPlaced /\ Finite /\ LeasesCounted /\ LeasesDisjoint

(* With generations that are not used again: an event whose generation is  *)
(* its arena's lies within the arena.                                      *)
InArena(e, row) ==
    /\ e.gen <= row.gen
    /\ e.gen = row.gen /\ row.alive => e.end <= row.cap

PayloadInv == \A i \in 1..Len(pending) : InArena(pending[i], arena[pending[i].arena])

(* With sequence numbers that are not used again: nothing above published  *)
(* was heard of, and what was accepted is not waiting.                     *)
AcceptInv ==
    /\ watermark <= published
    /\ \A i \in 1..Len(pending) : pending[i].seq <= published
    /\ \A i \in 1..Len(pending) :
           pending[i].seq <= watermark \/ accepts[pending[i].seq] # 0 => pending[i].accepted
    /\ \A s \in Sequence : accepts[s] <= 1 /\ (s > published => accepts[s] = 0)

-----------------------------------------------------------------------------
(* The operators the lane is built from. *)

(* A nonempty set of naturals has a least member.                          *)
LEMMA LeastOf ==
    ASSUME NEW S, S \subseteq Nat, S # {}
    PROVE  \E x \in S : \A y \in S : x <= y
<1> DEFINE Less == {p \in Nat \X Nat : p[1] < p[2]}
<1>1. IsWellFoundedOn(Less, Nat)
      BY NatLessThanWellFounded DEF OpToRel
<1>2. PICK x \in S : \A y \in S : ~ (<<y, x>> \in Less)
  <2> HIDE DEF Less
  <2> QED
      BY <1>1, WFMin
<1>3. ASSUME NEW y \in S PROVE x <= y
  <2>1. x \in Nat /\ y \in Nat
        OBVIOUS
  <2>2. y < x => <<y, x>> \in Less
        BY <2>1
  <2> QED
      BY <1>2, <2>1, <2>2
<1> QED
    BY <1>3

(* Min of a nonempty set of naturals is its least member.                  *)
LEMMA MinOf ==
    ASSUME NEW S, S \subseteq Nat, S # {}
    PROVE  Min(S) \in S /\ \A y \in S : Min(S) <= y
<1>1. PICK x \in S : \A y \in S : x <= y
      BY LeastOf
<1> QED
    BY <1>1 DEF Min

(* Max of a nonempty bounded set of naturals is its greatest member.       *)
LEMMA MaxOf ==
    ASSUME NEW N \in Nat, NEW S, S \subseteq 0..N, S # {}
    PROVE  Max(S) \in S /\ \A y \in S : y <= Max(S)
<1> DEFINE T == {n \in Nat : \E y \in S : n = N - y}
<1>1. PICK s : s \in S
      OBVIOUS
<1>2. N - s \in T
      BY <1>1
<1>3. PICK x \in T : \A y \in T : x <= y
      BY <1>2, LeastOf
<1>4. PICK z \in S : x = N - z
      BY <1>3
<1>5. \A y \in S : z >= y
  <2> TAKE y \in S
  <2>1. y \in 0..N /\ z \in 0..N
        OBVIOUS
  <2>2. N - y \in T
        BY <2>1
  <2>3. N - z <= N - y
        BY <1>3, <1>4, <2>2
  <2> QED
      BY <2>1, <2>3
<1>6. Max(S) \in S /\ \A y \in S : Max(S) >= y
      BY <1>5 DEF Max
<1> QED
    BY <1>6

(* How far the head run of acknowledged events goes.                       *)
LEMMA ConsumedIs ==
    ASSUME NEW window \in Seq(EventType)
    PROVE  /\ Consumed(window) \in 0..Len(window)
           /\ \A i \in 1..Consumed(window) : window[i].acked
           /\ (\A i \in 1..Len(window) : window[i].acked) => Consumed(window) = Len(window)
<1> DEFINE S == {n \in 0..Len(window) : \A i \in 1..n : window[i].acked}
<1>1. 0 \in S /\ S \subseteq 0..Len(window) /\ Len(window) \in Nat
      OBVIOUS
<1>2. Max(S) \in S /\ \A n \in S : n <= Max(S)
      BY <1>1, MaxOf
<1> QED
    BY <1>1, <1>2 DEF Consumed

(* The events that poll may hand out.                                      *)
LEMMA ReadyIs ==
    ASSUME LaneType, NEW a
    PROVE  /\ Ready(a) \in 0..(Len(pending) - cursor)
           /\ \A i \in (cursor + 1)..(cursor + Ready(a)) : Pollable(a, pending[i])
           /\ \A n \in 0..(Len(pending) - cursor) :
                  (\A i \in (cursor + 1)..(cursor + n) : Pollable(a, pending[i])) => n <= Ready(a)
<1> DEFINE S == {n \in 0..(Len(pending) - cursor) :
                    \A i \in (cursor + 1)..(cursor + n) : Pollable(a, pending[i])}
<1>1. 0 \in S /\ S \subseteq 0..(Len(pending) - cursor) /\ Len(pending) - cursor \in Nat
      BY DEF LaneType
<1>2. Max(S) \in S /\ \A n \in S : n <= Max(S)
      BY <1>1, MaxOf
<1> QED
    BY <1>2 DEF Ready

(* A lease that poll takes was free.                                       *)
LEMMA FreeLease ==
    ASSUME FreeLeases # {}
    PROVE  Min(FreeLeases) \in 1..MaxLeases /\ Min(FreeLeases) \notin DOMAIN leases
<1>1. FreeLeases \subseteq Nat
      BY DEF FreeLeases
<1> QED
    BY <1>1, MinOf DEF FreeLeases

(* Setting one mark changes nothing else.                                  *)
Same(e, f) == e.seq = f.seq /\ e.arena = f.arena /\ e.gen = f.gen /\ e.end = f.end

(* poll marks one event.                                                   *)
LEMMA MarkPolledOne ==
    ASSUME NEW e \in EventType, NEW f, f = [e EXCEPT !.polled = TRUE]
    PROVE  f \in EventType /\ Same(f, e) /\ f.polled /\ f.accepted = e.accepted /\ f.acked = e.acked
BY DEF EventType, Same

(* submit marks one event.                                                 *)
LEMMA MarkAcceptedOne ==
    ASSUME NEW e \in EventType, NEW f, f = [e EXCEPT !.accepted = TRUE]
    PROVE  f \in EventType /\ Same(f, e) /\ f.accepted /\ f.polled = e.polled /\ f.acked = e.acked
BY DEF EventType, Same

(* ack marks one event.                                                    *)
LEMMA MarkAckedOne ==
    ASSUME NEW e \in EventType, NEW f, f = [e EXCEPT !.acked = TRUE]
    PROVE  f \in EventType /\ Same(f, e) /\ f.acked /\ f.polled = e.polled /\ f.accepted = e.accepted
BY DEF EventType, Same

(* A function on 1..n is a sequence of length n.                           *)
LEMMA WindowIs ==
    ASSUME NEW window, NEW n \in Nat, DOMAIN window = 1..n,
           window = [i \in 1..n |-> window[i]], \A i \in 1..n : window[i] \in EventType
    PROVE  window \in Seq(EventType) /\ Len(window) = n
<1>1. window \in [1..n -> EventType]
      OBVIOUS
<1> QED
    BY <1>1

-----------------------------------------------------------------------------
(* What each call does to the window. *)

(* A batch is one or two sequence numbers.                                 *)
LEMMA BatchIs ==
    ASSUME NEW seqs \in Batch
    PROVE  /\ seqs \in Seq(Sequence) /\ Len(seqs) \in 1..2 /\ DOMAIN seqs = 1..Len(seqs)
           /\ Increasing(seqs) => \A i, j \in 1..Len(seqs) : i < j => seqs[i] < seqs[j]
<1>1. CASE \E s \in Sequence : seqs = <<s>>
      BY <1>1
<1>2. ASSUME NEW s \in Sequence, NEW u \in Sequence, seqs = <<s, u>>
      PROVE  /\ seqs \in Seq(Sequence) /\ Len(seqs) = 2 /\ DOMAIN seqs = 1..2
             /\ seqs[1] = s /\ seqs[2] = u
      BY <1>2
<1>3. ASSUME NEW s \in Sequence, NEW u \in Sequence, seqs = <<s, u>>, Increasing(seqs)
      PROVE  \A i, j \in 1..Len(seqs) : i < j => seqs[i] < seqs[j]
  <2>1. s < u
        BY <1>2, <1>3 DEF Increasing
  <2> QED
      BY <1>2, <1>3, <2>1
<1>4. seqs \in {<<s>> : s \in Sequence} \/ \E s, u \in Sequence : seqs = <<s, u>>
      BY DEF Batch
<1> QED
    BY <1>1, <1>2, <1>3, <1>4

(* What publish_batch does to each place of the window.                    *)
LEMMA PublishEffect ==
    ASSUME LaneType, NEW a \in Arena, NEW seqs \in Batch, NEW end \in Size,
           publish_batch(a, seqs, end)
    PROVE  /\ pending' \in Seq(EventType) /\ Len(pending') = Len(pending) + Len(seqs)
           /\ Len(pending') <= Capacity
           /\ \A i \in 1..Len(pending) : pending'[i] = pending[i]
           /\ \A i \in (Len(pending) + 1)..Len(pending') :
                  LET e == pending'[i]
                  IN  /\ e.seq = seqs[i - Len(pending)] /\ e.seq \in Sequence
                      /\ e.arena = a /\ e.gen = arena[a].gen /\ e.end = end
                      /\ ~e.polled /\ ~e.accepted /\ ~e.acked
<1> DEFINE new == [i \in DOMAIN seqs |-> Event(a, seqs[i], end)]
<1>1. /\ seqs \in Seq(Sequence) /\ Len(seqs) \in Nat /\ DOMAIN seqs = 1..Len(seqs)
      BY BatchIs
<1>2. \A i \in 1..Len(seqs) : Event(a, seqs[i], end) \in EventType
  <2> TAKE i \in 1..Len(seqs)
  <2>1. seqs[i] \in Sequence /\ arena[a].gen \in 0..MaxGeneration /\ end \in Nat
        BY <1>1, HotBatchAssumption DEF LaneType, ArenaType
  <2> QED
      BY <2>1 DEF Event, EventType
<1>3. new \in Seq(EventType) /\ Len(new) = Len(seqs)
      BY <1>1, <1>2
<1>4. pending' = pending \o new /\ pending \in Seq(EventType)
      BY DEF publish_batch, LaneType
<1> HIDE DEF new
<1>5. /\ pending' \in Seq(EventType) /\ Len(pending') = Len(pending) + Len(seqs)
      /\ \A i \in 1..Len(pending') :
             pending'[i] = IF i <= Len(pending) THEN pending[i] ELSE new[i - Len(pending)]
  <2>1. /\ pending \o new \in Seq(EventType) /\ Len(pending \o new) = Len(pending) + Len(new)
        /\ \A i \in 1..(Len(pending) + Len(new)) :
               (pending \o new)[i] = IF i <= Len(pending) THEN pending[i] ELSE new[i - Len(pending)]
        BY <1>3, <1>4, ConcatProperties, Zenon
  <2> QED
      BY <1>3, <1>4, <2>1, Zenon
<1>6. Len(pending') <= Capacity
      BY <1>1, <1>5, HotBatchAssumption DEF publish_batch, publish_accepts, LaneType
<1>7. ASSUME NEW i \in (Len(pending) + 1)..Len(pending')
      PROVE  LET e == pending'[i]
             IN  /\ e.seq = seqs[i - Len(pending)] /\ e.seq \in Sequence
                 /\ e.arena = a /\ e.gen = arena[a].gen /\ e.end = end
                 /\ ~e.polled /\ ~e.accepted /\ ~e.acked
  <2>1. i - Len(pending) \in 1..Len(seqs) /\ i \in 1..Len(pending') /\ ~(i <= Len(pending))
        BY <1>1, <1>4, <1>5
  <2>2. pending'[i] = Event(a, seqs[i - Len(pending)], end)
        BY <1>1, <1>5, <2>1 DEF new
  <2>3. seqs[i - Len(pending)] \in Sequence
        BY <1>1, <2>1
  <2> QED
      BY <2>2, <2>3 DEF Event
<1>8. \A i \in 1..Len(pending) : pending'[i] = pending[i]
      BY <1>1, <1>4, <1>5
<1> QED
    BY <1>5, <1>6, <1>7, <1>8

(* What poll_batch does to each place of the window.                       *)
LEMMA PollEffect ==
    ASSUME LaneType, NEW n \in 0..(Len(pending) - cursor), MarkPolled(n)
    PROVE  /\ pending' \in Seq(EventType) /\ Len(pending') = Len(pending)
           /\ \A i \in 1..Len(pending) :
                  /\ Same(pending'[i], pending[i])
                  /\ pending'[i].accepted = pending[i].accepted
                  /\ pending'[i].acked = pending[i].acked
                  /\ pending'[i].polled <=> pending[i].polled \/ i \in (cursor + 1)..(cursor + n)
<1>1. pending \in Seq(EventType) /\ DOMAIN pending = 1..Len(pending) /\ Len(pending) \in Nat
      BY DEF LaneType
<1>2. ASSUME NEW i \in 1..Len(pending)
      PROVE  /\ pending'[i] \in EventType /\ Same(pending'[i], pending[i])
             /\ pending'[i].accepted = pending[i].accepted
             /\ pending'[i].acked = pending[i].acked
             /\ pending'[i].polled <=> pending[i].polled \/ i \in (cursor + 1)..(cursor + n)
  <2>1. pending[i] \in EventType
        BY <1>1
  <2>2. CASE i \in (cursor + 1)..(cursor + n)
    <3>1. pending'[i] = [pending[i] EXCEPT !.polled = TRUE]
          BY <1>1, <2>2 DEF MarkPolled
    <3> QED
        BY <2>1, <2>2, <3>1, MarkPolledOne
  <2>3. CASE ~(i \in (cursor + 1)..(cursor + n))
    <3>1. pending'[i] = pending[i]
          BY <1>1, <2>3 DEF MarkPolled
    <3> QED
        BY <2>1, <2>3, <3>1 DEF Same
  <2> QED
      BY <2>2, <2>3
<1>3. DOMAIN pending' = 1..Len(pending) /\ pending' = [i \in 1..Len(pending) |-> pending'[i]]
      BY <1>1 DEF MarkPolled
<1>4. pending' \in Seq(EventType) /\ Len(pending') = Len(pending)
      BY <1>1, <1>2, <1>3, WindowIs
<1> QED
    BY <1>2, <1>4

Taken(a, seqs) == {i \in 1..Len(pending) : pending[i].seq \in seqs /\ Acceptable(a, pending[i])}

(* What submit_batch does to each place of the window.                     *)
LEMMA SubmitEffect ==
    ASSUME LaneType, NEW a, NEW seqs, submit_batch(a, seqs)
    PROVE  /\ pending' \in Seq(EventType) /\ Len(pending') = Len(pending)
           /\ \A i \in 1..Len(pending) :
                  /\ Same(pending'[i], pending[i])
                  /\ pending'[i].polled = pending[i].polled
                  /\ pending'[i].acked = pending[i].acked
                  /\ pending'[i].accepted <=> pending[i].accepted \/ i \in Taken(a, seqs)
           /\ watermark' = advance_watermark(pending')
           /\ accepts' = [s \in Sequence |->
                  IF \E i \in Taken(a, seqs) : pending[i].seq = s THEN accepts[s] + 1 ELSE accepts[s]]
<1>1. pending \in Seq(EventType) /\ DOMAIN pending = 1..Len(pending) /\ Len(pending) \in Nat
      BY DEF LaneType
<1>2. /\ pending' = [i \in 1..Len(pending) |->
             IF i \in Taken(a, seqs) THEN [pending[i] EXCEPT !.accepted = TRUE] ELSE pending[i]]
      /\ watermark' = advance_watermark(pending')
      /\ accepts' = [s \in Sequence |->
             IF \E i \in Taken(a, seqs) : pending[i].seq = s THEN accepts[s] + 1 ELSE accepts[s]]
      BY <1>1 DEF submit_batch, Taken
<1>3. ASSUME NEW i \in 1..Len(pending)
      PROVE  /\ pending'[i] \in EventType /\ Same(pending'[i], pending[i])
             /\ pending'[i].polled = pending[i].polled
             /\ pending'[i].acked = pending[i].acked
             /\ pending'[i].accepted <=> pending[i].accepted \/ i \in Taken(a, seqs)
  <2>1. pending[i] \in EventType
        BY <1>1
  <2>2. CASE i \in Taken(a, seqs)
    <3>1. pending'[i] = [pending[i] EXCEPT !.accepted = TRUE]
          BY <1>2, <2>2
    <3> QED
        BY <2>1, <2>2, <3>1, MarkAcceptedOne
  <2>3. CASE i \notin Taken(a, seqs)
    <3>1. pending'[i] = pending[i]
          BY <1>2, <2>3
    <3> QED
        BY <2>1, <2>3, <3>1 DEF Same
  <2> QED
      BY <2>2, <2>3
<1>4. DOMAIN pending' = 1..Len(pending) /\ pending' = [i \in 1..Len(pending) |-> pending'[i]]
      BY <1>2
<1>5. pending' \in Seq(EventType) /\ Len(pending') = Len(pending)
      BY <1>1, <1>3, <1>4, WindowIs
<1> QED
    BY <1>2, <1>3, <1>5

(* The acknowledged window before compaction, and the window after it.     *)
LEMMA AckedWindow ==
    ASSUME LaneType, NEW l
    PROVE  /\ Acknowledged(l) \in Seq(EventType) /\ Len(Acknowledged(l)) = Len(pending)
           /\ \A i \in 1..Len(pending) :
                  LET e == Acknowledged(l)[i]
                  IN  /\ Same(e, pending[i])
                      /\ e.polled = pending[i].polled /\ e.accepted = pending[i].accepted
                      /\ e.acked <=> pending[i].acked \/ Acknowledges(l, pending[i])
<1> DEFINE window == Acknowledged(l)
<1>1. pending \in Seq(EventType) /\ DOMAIN pending = 1..Len(pending) /\ Len(pending) \in Nat
      BY DEF LaneType
<1>2. window = [i \in 1..Len(pending) |->
             IF Acknowledges(l, pending[i]) THEN [pending[i] EXCEPT !.acked = TRUE] ELSE pending[i]]
      BY <1>1 DEF Acknowledged
<1> HIDE DEF window
<1>3. ASSUME NEW i \in 1..Len(pending)
      PROVE  /\ window[i] \in EventType /\ Same(window[i], pending[i])
             /\ window[i].polled = pending[i].polled
             /\ window[i].accepted = pending[i].accepted
             /\ window[i].acked <=> pending[i].acked \/ Acknowledges(l, pending[i])
  <2>1. pending[i] \in EventType
        BY <1>1
  <2>2. CASE Acknowledges(l, pending[i])
    <3>1. window[i] = [pending[i] EXCEPT !.acked = TRUE]
          BY <1>2, <2>2
    <3> QED
        BY <2>1, <2>2, <3>1, MarkAckedOne
  <2>3. CASE ~Acknowledges(l, pending[i])
    <3>1. window[i] = pending[i]
          BY <1>2, <2>3
    <3> QED
        BY <2>1, <2>3, <3>1 DEF Same
  <2> QED
      BY <2>2, <2>3
<1>4. DOMAIN window = 1..Len(pending) /\ window = [i \in 1..Len(pending) |-> window[i]]
      BY <1>2
<1>5. window \in Seq(EventType) /\ Len(window) = Len(pending)
      BY <1>1, <1>3, <1>4, WindowIs
<1> QED
    BY <1>3, <1>5 DEF window

(* What batch_ack, with its compaction, does to each place of the window.  *)
LEMMA AckEffect ==
    ASSUME LaneType, Marked(pending, cursor), NEW id \in DOMAIN leases, batch_ack(id)
    PROVE  \E c \in 0..cursor :
               /\ pending' \in Seq(EventType) /\ Len(pending') = Len(pending) - c
               /\ cursor' = cursor - c
               /\ \A i \in 1..c : pending[i].acked \/ Acknowledges(leases[id], pending[i])
               /\ (\A i \in 1..Len(pending) : Acknowledges(leases[id], pending[i])) => c = Len(pending)
               /\ \A i \in 1..(Len(pending) - c) :
                      /\ Same(pending'[i], pending[i + c])
                      /\ pending'[i].polled = pending[i + c].polled
                      /\ pending'[i].accepted = pending[i + c].accepted
                      /\ pending'[i].acked <=>
                             pending[i + c].acked \/ Acknowledges(leases[id], pending[i + c])
<1> DEFINE l == leases[id]
           window == Acknowledged(l)
           c == Consumed(window)
           n == Len(pending)
<1>1. /\ window \in Seq(EventType) /\ Len(window) = n
      /\ \A i \in 1..n :
             /\ Same(window[i], pending[i])
             /\ window[i].polled = pending[i].polled /\ window[i].accepted = pending[i].accepted
             /\ window[i].acked <=> pending[i].acked \/ Acknowledges(l, pending[i])
      BY AckedWindow
<1>2. n \in Nat /\ cursor \in 0..n
      BY DEF LaneType
<1>3. pending' = SubSeq(window, c + 1, n)
      BY <1>1 DEF batch_ack, EndLease
<1>4. cursor' = IF cursor >= c THEN cursor - c ELSE 0
      BY DEF batch_ack
<1> HIDE DEF window
<1>5. /\ c \in 0..n /\ \A i \in 1..c : window[i].acked
      /\ (\A i \in 1..n : window[i].acked) => c = n
      BY <1>1, ConsumedIs
<1> HIDE DEF c
<1>6. \A i \in 1..c : pending[i].acked \/ Acknowledges(l, pending[i])
      BY <1>1, <1>2, <1>5
<1>7. c <= cursor
  <2>1. CASE c = 0
        BY <1>2, <2>1
  <2>2. CASE c # 0
    <3>1. c \in 1..n /\ c \in 1..c
          BY <1>2, <1>5, <2>2
    <3>2. pending[c].acked \/ pending[c].accepted
          BY <1>6, <3>1 DEF Acknowledges
    <3> QED
        BY <1>2, <1>5, <3>1, <3>2 DEF Marked
  <2> QED
      BY <2>1, <2>2
<1>8. /\ pending' \in Seq(EventType) /\ Len(pending') = n - c
      /\ \A i \in 1..(n - c) : pending'[i] = window[i + c]
  <2>1. \A i \in (c + 1)..n : window[i] \in EventType
        BY <1>1, <1>2, <1>5
  <2>2. c + 1 \in Int /\ n \in Int
        BY <1>2, <1>5
  <2>3. /\ SubSeq(window, c + 1, n) \in Seq(EventType)
        /\ Len(SubSeq(window, c + 1, n)) = IF c + 1 <= n THEN n - (c + 1) + 1 ELSE 0
        /\ \A i \in 1..(n - (c + 1) + 1) : SubSeq(window, c + 1, n)[i] = window[c + 1 + i - 1]
        BY <2>1, <2>2, SubSeqProperties
  <2>4. Len(pending') = n - c
        BY <1>2, <1>3, <1>5, <2>3
  <2>5. ASSUME NEW i \in 1..(n - c) PROVE pending'[i] = window[i + c]
    <3>1. i \in 1..(n - (c + 1) + 1) /\ c + 1 + i - 1 = i + c
          BY <1>2, <1>5
    <3> QED
        BY <1>3, <2>3, <3>1
  <2> QED
      BY <1>3, <2>3, <2>4, <2>5
<1>9. ASSUME NEW i \in 1..(n - c)
      PROVE  /\ Same(pending'[i], pending[i + c])
             /\ pending'[i].polled = pending[i + c].polled
             /\ pending'[i].accepted = pending[i + c].accepted
             /\ pending'[i].acked <=> pending[i + c].acked \/ Acknowledges(l, pending[i + c])
  <2>1. i + c \in 1..n
        BY <1>2, <1>5
  <2> QED
      BY <1>1, <1>8, <2>1
<1>10. c \in 0..cursor /\ cursor' = cursor - c
      BY <1>2, <1>4, <1>5, <1>7
<1>11. (\A i \in 1..n : Acknowledges(l, pending[i])) => c = n
      BY <1>1, <1>5
<1> QED
    BY <1>6, <1>8, <1>9, <1>10, <1>11

-----------------------------------------------------------------------------
(* Counting the events under lease. *)

Under(f, a) == UNION {{l} \X (1..f[l].count) : l \in {m \in DOMAIN f : f[m].arena = a}}

(* Under with the leases of the lane.                                      *)
LEMMA UnderIs ==
    ASSUME NEW a
    PROVE  UnderLease(a) = Under(leases, a)
BY DEF UnderLease, Under, LeasesOn

(* What is under the leases of an arena.                                   *)
LEMMA UnderMember ==
    ASSUME NEW f, NEW a, NEW x
    PROVE  x \in Under(f, a) <=>
               \E l \in DOMAIN f : f[l].arena = a /\ x \in {l} \X (1..f[l].count)
BY DEF Under

(* One more lease adds its own events and no others.                       *)
LEMMA OneMoreLease ==
    ASSUME NEW f, NEW g, NEW id, id \notin DOMAIN f, DOMAIN g = DOMAIN f \cup {id},
           \A l \in DOMAIN f : g[l] = f[l], NEW a
    PROVE  /\ g[id].arena = a =>
                  /\ Under(g, a) = Under(f, a) \cup ({id} \X (1..g[id].count))
                  /\ Under(f, a) \cap ({id} \X (1..g[id].count)) = {}
           /\ g[id].arena # a => Under(g, a) = Under(f, a)
<1>1. ASSUME NEW x
      PROVE  x \in Under(g, a) <=>
                 x \in Under(f, a) \/ (g[id].arena = a /\ x \in {id} \X (1..g[id].count))
      BY UnderMember
<1>2. ASSUME NEW x, x \in Under(f, a) PROVE x \notin {id} \X (1..g[id].count)
  <2>1. PICK l \in DOMAIN f : x \in {l} \X (1..f[l].count)
        BY <1>2, UnderMember
  <2>2. x[1] = l
        BY <2>1
  <2> QED
      BY <2>1, <2>2
<1> QED
    BY <1>1, <1>2

(* ... and as many as it counts.                                           *)
LEMMA CountLease ==
    ASSUME NEW f, NEW g, NEW id, id \notin DOMAIN f, DOMAIN g = DOMAIN f \cup {id},
           \A l \in DOMAIN f : g[l] = f[l], NEW a, g[id].count \in Nat,
           IsFiniteSet(Under(f, a)) \/ IsFiniteSet(Under(g, a))
    PROVE  /\ IsFiniteSet(Under(f, a)) /\ IsFiniteSet(Under(g, a))
           /\ Cardinality(Under(f, a)) \in Nat
           /\ Cardinality(Under(g, a)) =
                  Cardinality(Under(f, a)) + IF g[id].arena = a THEN g[id].count ELSE 0
<1> DEFINE n == g[id].count
           New == {id} \X (1..n)
<1>1. IsFiniteSet(New) /\ Cardinality(New) = n
  <2>1. IsFiniteSet({id}) /\ Cardinality({id}) = 1
        BY FS_Singleton
  <2>2. IsFiniteSet(1..n) /\ Cardinality(1..n) = n
    <3>1. 1 \in Int /\ n \in Int /\ n \in Nat
          OBVIOUS
    <3> HIDE DEF n
    <3>2. IsFiniteSet(1..n) /\ Cardinality(1..n) = IF 1 > n THEN 0 ELSE n - 1 + 1
          BY <3>1, FS_Interval
    <3> QED
        BY <3>1, <3>2
  <2>3. IsFiniteSet(New) /\ Cardinality(New) = Cardinality({id}) * Cardinality(1..n)
        BY <2>1, <2>2, FS_Product, Zenon
  <2> QED
      BY <2>1, <2>2, <2>3
<1>2. /\ g[id].arena = a => Under(g, a) = Under(f, a) \cup New /\ Under(f, a) \cap New = {}
      /\ g[id].arena # a => Under(g, a) = Under(f, a)
      BY OneMoreLease
<1> HIDE DEF New
<1>3. Under(f, a) \subseteq Under(g, a)
      BY <1>2
<1>4. IsFiniteSet(Under(f, a))
      BY <1>3, FS_Subset
<1>5. Cardinality(Under(f, a)) \in Nat
      BY <1>4, FS_CardinalityType
<1>6. CASE g[id].arena = a
  <2>0. IsFiniteSet(New)
        BY <1>1
  <2>1. /\ IsFiniteSet(Under(f, a) \cup New)
        /\ Cardinality(Under(f, a) \cup New) =
               Cardinality(Under(f, a)) + Cardinality(New) - Cardinality(Under(f, a) \cap New)
        BY <1>4, <2>0, FS_Union, Zenon
  <2>2. Cardinality(Under(f, a) \cap New) = 0
        BY <1>2, <1>6, FS_EmptySet
  <2>3. Cardinality(Under(f, a) \cup New) = Cardinality(Under(f, a)) + n
        BY <1>1, <1>5, <2>1, <2>2
  <2>4. Under(g, a) = Under(f, a) \cup New
        BY <1>2, <1>6
  <2> QED
      BY <1>4, <1>5, <1>6, <2>1, <2>3, <2>4
<1>7. CASE g[id].arena # a
      BY <1>2, <1>4, <1>5, <1>7
<1> QED
    BY <1>6, <1>7

(* No event under lease, no lease.                                         *)
LEMMA NoLease ==
    ASSUME LaneType, Finite, LeasesCounted, NEW a \in Arena, arena[a].inflight = 0
    PROVE  LeasesOn(a) = {}
<1>1. UnderLease(a) = {}
      BY FS_EmptySet DEF Finite, LeasesCounted
<1>2. ASSUME NEW l \in LeasesOn(a) PROVE FALSE
  <2>1. leases[l].count \in Nat \ {0}
        BY DEF LeasesOn, LaneType, LeaseType
  <2>2. <<l, 1>> \in {l} \X (1..leases[l].count)
        BY <2>1
  <2>3. <<l, 1>> \in Under(leases, a)
        BY <2>2, UnderMember DEF LeasesOn
  <2> QED
      BY <1>1, <2>3, UnderIs
<1> QED
    BY <1>2

(* A lease on an arena that is not alive does not exist.                   *)
LEMMA NothingUnder ==
    ASSUME NEW a, LeasesOn(a) = {}
    PROVE  UnderLease(a) = {} /\ Cardinality(UnderLease(a)) = 0
BY FS_EmptySet DEF UnderLease

-----------------------------------------------------------------------------
(* Leases keep their place. *)

(* A lease keeps its place when the window keeps the events polled.        *)
LEMMA KeepsPlace ==
    ASSUME NEW l \in LeaseType, NEW window, NEW next, NEW polled \in Nat, NEW polled2 \in Nat,
           polled <= polled2,
           \A i \in 1..polled : Same(next[i], window[i]) /\ (next[i].acked => window[i].acked),
           LeasePlaced(l, window, polled)
    PROVE  LeasePlaced(l, next, polled2)
<1>1. PICK p \in Nat : p + l.count <= polled /\ Placed(l, window, p)
      BY DEF LeasePlaced
<1>2. l.count \in Nat \ {0}
      BY DEF LeaseType
<1>3. p + 1 \in 1..polled /\ p + l.count \in 1..polled
      BY <1>1, <1>2
<1>4. \A i \in (p + 1)..(p + l.count) : i \in 1..polled
      BY <1>1, <1>2
<1>5. Placed(l, next, p)
      BY <1>1, <1>3, <1>4 DEF Placed, Same
<1>6. p + l.count <= polled2
      BY <1>1, <1>2
<1> QED
    BY <1>5, <1>6 DEF LeasePlaced

(* What a lease covers, by sequence number, is what it was placed on.      *)
LEMMA CoversItsOwn ==
    ASSUME NEW window \in Seq(EventType), Sorted(window), NEW l \in LeaseType,
           NEW p \in Nat, p + l.count <= Len(window), Placed(l, window, p),
           NEW i \in 1..Len(window)
    PROVE  l.first <= window[i].seq /\ window[i].seq <= l.last <=> i \in (p + 1)..(p + l.count)
<1>1. l.count \in Nat \ {0} /\ Len(window) \in Nat
      BY DEF LeaseType
<1>2. p + 1 \in 1..Len(window) /\ p + l.count \in 1..Len(window)
      BY <1>1
<1>3. \A j \in 1..Len(window) : window[j].seq \in Int
  <2> TAKE j \in 1..Len(window)
  <2>1. window[j] \in EventType
        OBVIOUS
  <2>2. window[j].seq \in Sequence
        BY <2>1 DEF EventType
  <2> QED
      BY <2>2, HotBatchAssumption DEF Sequence
<1>4. l.first = window[p + 1].seq /\ l.last = window[p + l.count].seq
      BY DEF Placed
<1>5. i < p + 1 => window[i].seq < l.first
      BY <1>2, <1>4 DEF Sorted
<1>6. p + l.count < i => l.last < window[i].seq
      BY <1>2, <1>4 DEF Sorted
<1>7. p + 1 < i => l.first < window[i].seq
      BY <1>2, <1>4 DEF Sorted
<1>8. i < p + l.count => window[i].seq < l.last
      BY <1>2, <1>4 DEF Sorted
<1>9. /\ window[i].seq \in Int /\ l.first \in Int /\ l.last \in Int
      /\ i = p + 1 => window[i].seq = l.first
      /\ i = p + l.count => window[i].seq = l.last
      BY <1>2, <1>3, <1>4
<1>10. i \in Int /\ p + 1 \in Int /\ p + l.count \in Int /\ p + 1 <= p + l.count
      BY <1>1
<1>11. CASE i < p + 1
      BY <1>5, <1>9, <1>10, <1>11
<1>12. CASE p + l.count < i
      BY <1>6, <1>9, <1>10, <1>12
<1>13. CASE p + 1 <= i /\ i <= p + l.count
  <2>1. l.first <= window[i].seq
        BY <1>7, <1>9, <1>10, <1>13
  <2>2. window[i].seq <= l.last
        BY <1>8, <1>9, <1>10, <1>13
  <2> QED
      BY <2>1, <2>2, <1>10, <1>13
<1> QED
    BY <1>10, <1>11, <1>12, <1>13

-----------------------------------------------------------------------------
(* LaneInv under the calls. *)

(* The empty lane has the invariant.                                       *)
LEMMA LaneInit == Init => LaneInv
<1> SUFFICES ASSUME Init PROVE LaneInv
    OBVIOUS
<1>1. pending \in Seq(EventType) /\ Len(pending) = 0
      BY DEF Init
<1>2. LaneType
      BY <1>1, HotBatchAssumption DEF Init, LaneType, ArenaType
<1>3. DOMAIN leases = {}
      BY DEF Init
<1>4. \A a \in Arena : LeasesOn(a) = {}
      BY <1>3 DEF LeasesOn
<1>5. Finite
      BY <1>4, NothingUnder, FS_EmptySet DEF Finite
<1>6. LeasesCounted
      BY <1>4, NothingUnder DEF Init, LeasesCounted
<1> QED
    BY <1>1, <1>2, <1>3, <1>5, <1>6 DEF LaneInv, Sorted, Marked, LeasesPlaced, LeasesDisjoint

(* An arena without leases is given another row.                           *)
LEMMA ArenaLane ==
    ASSUME LaneInv, NEW a \in Arena, LeasesOn(a) = {}, NEW r \in ArenaType, r.inflight = 0,
           arena' = [arena EXCEPT ![a] = r],
           UNCHANGED <<pending, cursor, watermark, leases, published, accepts>>
    PROVE  LaneInv'
<1>1. LaneType'
      BY DEF LaneInv, LaneType
<1>2. \A b \in Arena : UnderLease(b)' = UnderLease(b) /\ LeasesOn(b)' = LeasesOn(b)
      BY DEF UnderLease, LeasesOn
<1>3. Finite'
      BY <1>2 DEF LaneInv, Finite
<1>4. LeasesCounted'
  <2> SUFFICES ASSUME NEW b \in Arena
               PROVE  /\ arena'[b].inflight = Cardinality(UnderLease(b))
                      /\ \A l \in LeasesOn(b) : arena'[b].alive /\ leases[l].gen = arena'[b].gen
      BY <1>2 DEF LeasesCounted
  <2>1. CASE b = a
        BY <2>1, NothingUnder DEF LaneInv, LaneType
  <2>2. CASE b # a
        BY <2>2 DEF LaneInv, LaneType, LeasesCounted
  <2> QED
      BY <2>1, <2>2
<1> QED
    BY <1>1, <1>3, <1>4 DEF LaneInv, LeasesPlaced, LeasesDisjoint

(* An arena that is gone, or has nothing in flight, has no lease.          *)
LEMMA ArenaRow ==
    ASSUME LaneInv, NEW a \in Arena, NEW g \in Generation
    PROVE  /\ ~arena[a].alive => LeasesOn(a) = {}
           /\ arena[a].inflight = 0 => LeasesOn(a) = {}
           /\ arena[a] \in ArenaType /\ g \in 0..MaxGeneration
BY NoLease, HotBatchAssumption DEF LaneInv, LaneType, LeasesCounted, Generation

(* Registering an arena keeps the invariant of the lane.                   *)
LEMMA RegisterLane ==
    ASSUME LaneInv, NEW a \in Arena, NEW g \in Generation, NEW c \in Size, arena_register(a, g, c)
    PROVE  LaneInv'
<1> DEFINE r == [alive |-> TRUE, gen |-> g, cap |-> c, inflight |-> 0]
<1>1. r \in ArenaType /\ r.inflight = 0
      BY ArenaRow, HotBatchAssumption DEF ArenaType
<1>2. LeasesOn(a) = {}
      BY ArenaRow DEF arena_register
<1>3. /\ arena' = [arena EXCEPT ![a] = r]
      /\ UNCHANGED <<pending, cursor, watermark, leases, published, accepts>>
      BY DEF arena_register
<1> HIDE DEF r
<1> QED
    BY <1>1, <1>2, <1>3, ArenaLane

(* Releasing an arena keeps the invariant of the lane.                     *)
LEMMA ReleaseLane ==
    ASSUME LaneInv, NEW a \in Arena, arena_release(a)
    PROVE  LaneInv'
<1> DEFINE r == [arena[a] EXCEPT !.alive = FALSE, !.cap = 0]
<1>0. arena[a] \in ArenaType /\ arena[a].inflight = 0 /\ arena \in [Arena -> ArenaType]
      BY DEF LaneInv, LaneType, arena_release
<1>1. r \in ArenaType /\ r.inflight = 0
      BY <1>0 DEF ArenaType
<1>2. LeasesOn(a) = {}
      BY <1>0, NoLease DEF LaneInv
<1>3. /\ arena' = [arena EXCEPT ![a] = r]
      /\ UNCHANGED <<pending, cursor, watermark, leases, published, accepts>>
      BY <1>0 DEF arena_release, ArenaType
<1> HIDE DEF r
<1> QED
    BY <1>1, <1>2, <1>3, ArenaLane

(* Recycling an arena keeps the invariant of the lane.                     *)
LEMMA RecycleLane ==
    ASSUME LaneInv, NEW a \in Arena, NEW g \in Generation, arena_recycle(a, g)
    PROVE  LaneInv'
<1> DEFINE r == [arena[a] EXCEPT !.gen = g]
<1>0. /\ arena[a] \in ArenaType /\ arena[a].inflight = 0 /\ arena \in [Arena -> ArenaType]
      /\ g \in 0..MaxGeneration
      BY ArenaRow DEF LaneInv, LaneType, arena_recycle
<1>1. r \in ArenaType /\ r.inflight = 0
      BY <1>0 DEF ArenaType
<1>2. LeasesOn(a) = {}
      BY <1>0, NoLease DEF LaneInv
<1>3. /\ arena' = [arena EXCEPT ![a] = r]
      /\ UNCHANGED <<pending, cursor, watermark, leases, published, accepts>>
      BY <1>0 DEF arena_recycle
<1> HIDE DEF r
<1> QED
    BY <1>1, <1>2, <1>3, ArenaLane

(* Calls that change neither leases nor arenas, and of the window nothing  *)
(* that a lease stands for.                                                *)
LEMMA WindowLane ==
    ASSUME LaneInv, UNCHANGED <<leases, arena, cursor>>,
           \A i \in 1..cursor :
               Same(pending'[i], pending[i]) /\ (pending'[i].acked => pending[i].acked)
    PROVE  LeasesPlaced' /\ Finite' /\ LeasesCounted' /\ LeasesDisjoint'
<1>1. ASSUME NEW id \in DOMAIN leases PROVE LeasePlaced(leases[id], pending', cursor)
  <2>1. leases[id] \in LeaseType /\ cursor \in Nat
        BY DEF LaneInv, LaneType
  <2>2. LeasePlaced(leases[id], pending, cursor)
        BY DEF LaneInv, LeasesPlaced
  <2> QED
      BY <2>1, <2>2, KeepsPlace
<1>2. LeasesPlaced'
      BY <1>1 DEF LeasesPlaced, LeasePlaced, Placed
<1>3. \A a \in Arena : UnderLease(a)' = UnderLease(a) /\ LeasesOn(a)' = LeasesOn(a)
      BY DEF UnderLease, LeasesOn
<1> QED
    BY <1>2, <1>3 DEF LaneInv, Finite, LeasesCounted, LeasesDisjoint

(* publish_batch keeps the invariant of the lane.                          *)
LEMMA PublishLane ==
    ASSUME LaneInv, NEW a \in Arena, NEW seqs \in Batch, NEW end \in Size,
           publish_batch(a, seqs, end)
    PROVE  LaneInv'
<1> DEFINE n == Len(pending)
<1>1. /\ pending' \in Seq(EventType) /\ Len(pending') = n + Len(seqs)
      /\ Len(pending') <= Capacity
      /\ \A i \in 1..n : pending'[i] = pending[i]
      /\ \A i \in (n + 1)..Len(pending') :
             /\ pending'[i].seq = seqs[i - n]
             /\ ~pending'[i].polled /\ ~pending'[i].accepted /\ ~pending'[i].acked
      BY PublishEffect DEF LaneInv
<1>2. /\ seqs \in Seq(Sequence) /\ Len(seqs) \in 1..2
      /\ \A i, j \in 1..Len(seqs) : i < j => seqs[i] < seqs[j]
      BY BatchIs DEF publish_batch, publish_accepts
<1>3. /\ pending \in Seq(EventType) /\ n \in Nat /\ cursor \in 0..n
      /\ Sorted(pending) /\ Marked(pending, cursor)
      BY DEF LaneInv, LaneType
<1>4. /\ UNCHANGED <<cursor, watermark, arena, leases, accepts>>
      /\ published' = Max({published, Last(seqs)})
      /\ pending # <<>> => seqs[1] > pending[n].seq
      BY DEF publish_batch, publish_accepts, Last
<1>5. published' \in 0..MaxSequence
  <2>0. Len(seqs) \in 1..2 /\ seqs \in Seq(Sequence)
        BY <1>2
  <2>1. Last(seqs) \in Sequence
        BY <2>0 DEF Last
  <2>2. {published, Last(seqs)} \subseteq 0..MaxSequence
        BY <2>1, HotBatchAssumption DEF LaneInv, LaneType, Sequence
  <2> DEFINE S == {published, Last(seqs)}
  <2>3. published \in S /\ S \subseteq 0..MaxSequence /\ MaxSequence \in Nat
        BY <2>2, HotBatchAssumption
  <2> HIDE DEF S
  <2>4. Max(S) \in S
        BY <2>3, MaxOf
  <2> QED
      BY <1>4, <2>3, <2>4 DEF S
<1>6. LaneType'
      BY <1>1, <1>2, <1>3, <1>4, <1>5 DEF LaneInv, LaneType
<1>7. \A i \in 1..n : pending[i].seq \in Int
  <2> TAKE i \in 1..n
  <2>1. pending[i] \in EventType
        BY <1>3
  <2> QED
      BY <2>1, HotBatchAssumption DEF EventType, Sequence
<1>8. \A j \in 1..Len(seqs) : seqs[j] \in Int
      BY <1>2, HotBatchAssumption DEF Sequence
<1>9. \A i \in 1..n, j \in 1..Len(seqs) : pending[i].seq < seqs[j]
  <2> TAKE i \in 1..n, j \in 1..Len(seqs)
  <2>1. pending # <<>> /\ n \in 1..n
        BY <1>3
  <2>2. pending[i].seq <= pending[n].seq
        BY <1>3, <1>7, <2>1 DEF Sorted
  <2>3. 1 \in 1..Len(seqs) /\ seqs[1] <= seqs[j]
        BY <1>2, <1>8
  <2> QED
      BY <1>4, <1>7, <1>8, <2>1, <2>2, <2>3
<1>10. Sorted(pending')
  <2> SUFFICES ASSUME NEW i \in 1..Len(pending'), NEW j \in 1..Len(pending'), i < j
               PROVE  pending'[i].seq < pending'[j].seq
      BY DEF Sorted
  <2>1. CASE j <= n
        BY SMTT(30), <1>1, <1>2, <1>3, <2>1 DEF Sorted
  <2>2. CASE i <= n /\ n < j
    <3>1. i \in 1..n /\ j \in (n + 1)..Len(pending') /\ j - n \in 1..Len(seqs)
          BY <1>1, <1>2, <1>3, <2>2
    <3> QED
        BY <1>1, <1>9, <3>1
  <2>3. CASE n < i
    <3>1. /\ i \in (n + 1)..Len(pending') /\ j \in (n + 1)..Len(pending')
          /\ i - n \in 1..Len(seqs) /\ j - n \in 1..Len(seqs) /\ i - n < j - n
          BY <1>1, <1>2, <1>3, <2>3
    <3> QED
        BY <1>1, <1>2, <3>1
  <2> QED
      BY <1>3, <2>1, <2>2, <2>3
<1>11. Marked(pending', cursor)
  <2> SUFFICES ASSUME NEW i \in 1..Len(pending')
               PROVE  /\ pending'[i].polled <=> i <= cursor
                      /\ pending'[i].acked => pending'[i].accepted
                      /\ pending'[i].accepted => pending'[i].polled
      BY DEF Marked
  <2>1. CASE i <= n
        BY <1>1, <1>3, <2>1 DEF Marked
  <2>2. CASE n < i
        BY <1>1, <1>3, <2>2
  <2> QED
      BY <1>3, <2>1, <2>2
<1>12. \A i \in 1..cursor : Same(pending'[i], pending[i]) /\ (pending'[i].acked => pending[i].acked)
      BY <1>1, <1>3 DEF Same
<1>13. LeasesPlaced' /\ Finite' /\ LeasesCounted' /\ LeasesDisjoint'
      BY <1>4, <1>12, WindowLane
<1> QED
    BY <1>4, <1>6, <1>10, <1>11, <1>13 DEF LaneInv, Sorted, Marked

(* submit_batch keeps the invariant of the lane.                           *)
LEMMA SubmitLane ==
    ASSUME LaneInv, NEW a, NEW seqs, submit_batch(a, seqs)
    PROVE  LaneInv'
<1> DEFINE n == Len(pending)
<1>1. /\ pending' \in Seq(EventType) /\ Len(pending') = n
      /\ \A i \in 1..n :
             /\ Same(pending'[i], pending[i])
             /\ pending'[i].polled = pending[i].polled
             /\ pending'[i].acked = pending[i].acked
             /\ pending'[i].accepted <=> pending[i].accepted \/ i \in Taken(a, seqs)
      /\ watermark' = advance_watermark(pending')
      /\ accepts' = [s \in Sequence |->
             IF \E i \in Taken(a, seqs) : pending[i].seq = s THEN accepts[s] + 1 ELSE accepts[s]]
      BY SubmitEffect DEF LaneInv
<1>2. /\ pending \in Seq(EventType) /\ n \in Nat /\ cursor \in 0..n
      /\ Sorted(pending) /\ Marked(pending, cursor) /\ watermark \in 0..MaxSequence
      BY DEF LaneInv, LaneType
<1>3. UNCHANGED <<cursor, arena, leases, published>>
      BY DEF submit_batch
<1>4. accepts' \in [Sequence -> Nat]
      BY <1>1 DEF LaneInv, LaneType
<1>5. watermark' \in 0..MaxSequence
  <2> DEFINE S == {watermark} \cup {pending'[i].seq : i \in AcceptedPrefix(pending')}
  <2>1. \A i \in DOMAIN pending' : pending'[i].seq \in Sequence
    <3> TAKE i \in DOMAIN pending'
    <3>1. pending'[i] \in EventType
          BY <1>1
    <3> QED
        BY <3>1 DEF EventType
  <2>2. watermark \in S /\ S \subseteq 0..MaxSequence /\ MaxSequence \in Nat
        BY <1>2, <2>1, HotBatchAssumption DEF AcceptedPrefix, Sequence
  <2> HIDE DEF S
  <2>3. Max(S) \in S
        BY <2>2, MaxOf
  <2> USE DEF S
  <2> QED
      BY <1>1, <2>2, <2>3 DEF advance_watermark
<1>6. LaneType'
      BY <1>1, <1>2, <1>3, <1>4, <1>5 DEF LaneInv, LaneType
<1>7. Sorted(pending')
      BY <1>1, <1>2 DEF Sorted, Same
<1>8. Marked(pending', cursor)
      BY <1>1, <1>2 DEF Marked, Taken, Acceptable
<1>9. \A i \in 1..cursor : Same(pending'[i], pending[i]) /\ (pending'[i].acked => pending[i].acked)
      BY <1>1, <1>2
<1>10. LeasesPlaced' /\ Finite' /\ LeasesCounted' /\ LeasesDisjoint'
      BY <1>3, <1>9, WindowLane
<1> QED
    BY <1>3, <1>6, <1>7, <1>8, <1>10 DEF LaneInv, Sorted, Marked

(* poll_batch keeps the invariant of the lane.                             *)
LEMMA PollLane ==
    ASSUME LaneInv, NEW a \in Arena, poll_batch(a)
    PROVE  /\ LaneInv'
           /\ Min(FreeLeases) \notin DOMAIN leases
           /\ DOMAIN leases' = DOMAIN leases \cup {Min(FreeLeases)}
           /\ \A l \in DOMAIN leases : leases'[l] = leases[l]
           /\ leases'[Min(FreeLeases)].count = Ready(a)
           /\ leases'[Min(FreeLeases)].arena = a
           /\ Placed(leases'[Min(FreeLeases)], pending, cursor)
           /\ Ready(a) \in 1..(Len(pending) - cursor)
<1> DEFINE n == Ready(a)
           id == Min(FreeLeases)
           new == [arena |-> a, gen |-> arena[a].gen, count |-> n,
                   first |-> pending[cursor + 1].seq, last |-> pending[cursor + n].seq]
<1>1. /\ pending \in Seq(EventType) /\ Len(pending) \in Nat /\ cursor \in 0..Len(pending)
      /\ Sorted(pending) /\ Marked(pending, cursor)
      BY DEF LaneInv, LaneType
<1>2. /\ n \in 0..(Len(pending) - cursor)
      /\ \A i \in (cursor + 1)..(cursor + n) : Pollable(a, pending[i])
      BY ReadyIs DEF LaneInv
<1>3. id \in 1..MaxLeases /\ id \notin DOMAIN leases
      BY FreeLease DEF poll_batch, Lease
<1>4. /\ n > 0 /\ arena[a].alive
      /\ leases' = [l \in DOMAIN leases \cup {id} |-> IF l \in DOMAIN leases THEN leases[l] ELSE new]
      /\ arena' = [arena EXCEPT ![a].inflight = @ + n]
      /\ MarkPolled(n) /\ cursor' = cursor + n
      /\ UNCHANGED <<watermark, published, accepts>>
      BY DEF poll_batch, Lease
<1> HIDE DEF n, id
<1>5. n \in 1..(Len(pending) - cursor)
      BY <1>1, <1>2, <1>4
<1>6. /\ pending' \in Seq(EventType) /\ Len(pending') = Len(pending)
      /\ \A i \in 1..Len(pending) :
             /\ Same(pending'[i], pending[i])
             /\ pending'[i].accepted = pending[i].accepted
             /\ pending'[i].acked = pending[i].acked
             /\ pending'[i].polled <=> pending[i].polled \/ i \in (cursor + 1)..(cursor + n)
      BY <1>2, <1>4, PollEffect DEF LaneInv
<1>7. arena \in [Arena -> ArenaType] /\ arena[a] \in ArenaType
      BY DEF LaneInv, LaneType
<1>8. new \in LeaseType
  <2>1. cursor + 1 \in 1..Len(pending) /\ cursor + n \in 1..Len(pending)
        BY <1>1, <1>5
  <2>2. pending[cursor + 1] \in EventType /\ pending[cursor + n] \in EventType
        BY <1>1, <2>1
  <2>3. pending[cursor + 1].seq \in Sequence /\ pending[cursor + n].seq \in Sequence
        BY <2>2 DEF EventType
  <2>4. arena[a].gen \in 0..MaxGeneration
        BY <1>7 DEF ArenaType
  <2>5. n \in Nat \ {0}
        BY <1>1, <1>5
  <2> QED
      BY <2>3, <2>4, <2>5 DEF LeaseType
<1> HIDE DEF new
<1>9. /\ DOMAIN leases' = DOMAIN leases \cup {id} /\ leases'[id] = new
      /\ \A l \in DOMAIN leases : leases'[l] = leases[l]
      BY <1>3, <1>4
<1>10. /\ new.count = n /\ new.arena = a /\ new.gen = arena[a].gen
       /\ new.first = pending[cursor + 1].seq /\ new.last = pending[cursor + n].seq
      BY DEF new
<1>11. /\ arena' \in [Arena -> ArenaType]
       /\ \A b \in Arena : /\ arena'[b].alive = arena[b].alive /\ arena'[b].gen = arena[b].gen
                           /\ arena'[b].cap = arena[b].cap
                           /\ arena'[b].inflight = arena[b].inflight + IF b = a THEN n ELSE 0
  <2>1. n \in Nat
        BY <1>1, <1>5
  <2> QED
      BY <1>4, <1>7, <2>1 DEF ArenaType
<1>12. LaneType'
  <2>1. leases' \in [DOMAIN leases' -> LeaseType]
        BY <1>4, <1>8, <1>9 DEF LaneInv, LaneType
  <2>2. cursor' \in 0..Len(pending')
        BY <1>1, <1>4, <1>5, <1>6
  <2> QED
      BY <1>3, <1>4, <1>6, <1>9, <1>11, <2>1, <2>2 DEF LaneInv, LaneType
<1>13. Sorted(pending')
      BY <1>1, <1>6 DEF Sorted, Same
<1>14. Marked(pending', cursor')
      BY <1>1, <1>4, <1>5, <1>6 DEF Marked
<1>15. Placed(new, pending, cursor)
  <2>1. ASSUME NEW i \in (cursor + 1)..(cursor + n)
        PROVE  pending[i].arena = a /\ pending[i].gen = arena[a].gen /\ ~pending[i].acked
    <3>1. i \in 1..Len(pending)
          BY <1>1, <1>5
    <3> QED
        BY <1>1, <1>2, <3>1 DEF Marked, Pollable
  <2> QED
      BY <1>10, <2>1 DEF Placed
<1>16. ASSUME NEW l \in DOMAIN leases' PROVE LeasePlaced(leases'[l], pending', cursor')
  <2>0. /\ cursor \in Nat /\ cursor' \in Nat /\ cursor <= cursor'
        /\ cursor + n = cursor' /\ cursor' <= Len(pending)
        BY <1>1, <1>4, <1>5
  <2>1. CASE l = id
    <3>1. LeasePlaced(new, pending, cursor')
          BY <1>10, <1>15, <2>0 DEF LeasePlaced
    <3>2. \A i \in 1..cursor' : Same(pending'[i], pending[i]) /\ (pending'[i].acked => pending[i].acked)
          BY <1>1, <1>6, <2>0
    <3>3. cursor' \in Nat /\ cursor' <= cursor'
          BY <2>0
    <3>4. LeasePlaced(new, pending', cursor')
          BY <1>8, <3>1, <3>2, <3>3, KeepsPlace
    <3> QED
        BY <1>9, <2>1, <3>4
  <2>2. CASE l # id
    <3>1. l \in DOMAIN leases /\ leases'[l] = leases[l] /\ leases[l] \in LeaseType
          BY <1>9, <2>2 DEF LaneInv, LaneType
    <3>2. LeasePlaced(leases[l], pending, cursor)
          BY <3>1 DEF LaneInv, LeasesPlaced
    <3>3. \A i \in 1..cursor : Same(pending'[i], pending[i]) /\ (pending'[i].acked => pending[i].acked)
          BY <1>1, <1>6, <2>0
    <3> QED
        BY <2>0, <3>1, <3>2, <3>3, KeepsPlace
  <2> QED
      BY <2>1, <2>2
<1>17. LeasesPlaced'
      BY <1>16 DEF LeasesPlaced, LeasePlaced, Placed
<1>18. ASSUME NEW b \in Arena
       PROVE  /\ IsFiniteSet(Under(leases', b))
              /\ Cardinality(Under(leases', b)) = arena'[b].inflight
  <2>1. IsFiniteSet(Under(leases, b)) /\ arena[b].inflight = Cardinality(Under(leases, b))
        BY UnderIs DEF LaneInv, Finite, LeasesCounted
  <2>2. n \in Nat
        BY <1>1, <1>5
  <2>3. leases'[id].count \in Nat /\ leases'[id].count = n /\ leases'[id].arena = a
        BY <1>9, <1>10, <2>2
  <2>4. /\ IsFiniteSet(Under(leases', b))
        /\ Cardinality(Under(leases', b)) =
               Cardinality(Under(leases, b)) + IF leases'[id].arena = b THEN leases'[id].count ELSE 0
        BY <1>3, <1>9, <2>1, <2>3, CountLease
  <2> QED
      BY <1>11, <2>1, <2>3, <2>4
<1>19. \A b \in Arena : UnderLease(b)' = Under(leases', b)
      BY DEF UnderLease, Under, LeasesOn
<1>20. Finite'
      BY <1>18, <1>19 DEF Finite
<1>21. LeasesCounted'
  <2> SUFFICES ASSUME NEW b \in Arena
               PROVE  /\ arena'[b].inflight = Cardinality(UnderLease(b)')
                      /\ \A l \in LeasesOn(b)' : arena'[b].alive /\ leases'[l].gen = arena'[b].gen
      BY DEF LeasesCounted
  <2>1. ASSUME NEW l \in LeasesOn(b)'
        PROVE  arena'[b].alive /\ leases'[l].gen = arena'[b].gen
    <3>1. l \in DOMAIN leases' /\ leases'[l].arena = b
          BY <2>1 DEF LeasesOn
    <3>2. CASE l = id
          BY <1>4, <1>9, <1>10, <1>11, <3>1, <3>2
    <3>3. CASE l # id
          BY <1>9, <1>11, <3>1, <3>3 DEF LaneInv, LeasesCounted, LeasesOn
    <3> QED
        BY <3>2, <3>3
  <2> QED
      BY <1>18, <1>19, <2>1
<1>22. ASSUME NEW l \in DOMAIN leases PROVE leases[l].last < new.first
  <2>1. leases[l] \in LeaseType /\ leases[l].count \in Nat \ {0}
        BY DEF LaneInv, LaneType, LeaseType
  <2>2. PICK p \in Nat : p + leases[l].count <= cursor /\ Placed(leases[l], pending, p)
        BY DEF LaneInv, LeasesPlaced, LeasePlaced
  <2>3. /\ p + leases[l].count \in 1..Len(pending) /\ cursor + 1 \in 1..Len(pending)
        /\ p + leases[l].count < cursor + 1
        BY <1>1, <1>5, <2>1, <2>2
  <2> QED
      BY <1>1, <1>10, <2>2, <2>3 DEF Placed, Sorted
<1>23. LeasesDisjoint'
      BY <1>9, <1>22 DEF LaneInv, LeasesDisjoint
<1>24. LaneInv'
      BY <1>12, <1>13, <1>14, <1>17, <1>20, <1>21, <1>23 DEF LaneInv, Sorted, Marked
<1> QED
    BY <1>3, <1>5, <1>9, <1>10, <1>15, <1>24 DEF n, id

(* Acknowledging one lease acknowledges nothing of another.                *)
LEMMA OthersNotAcked ==
    ASSUME LaneInv, NEW id \in DOMAIN leases, NEW m \in DOMAIN leases, m # id,
           NEW p \in Nat, p + leases[m].count <= cursor, Placed(leases[m], pending, p),
           NEW i \in (p + 1)..(p + leases[m].count)
    PROVE  ~pending[i].acked /\ ~Acknowledges(leases[id], pending[i])
<1>1. /\ pending \in Seq(EventType) /\ Len(pending) \in Nat /\ cursor \in 0..Len(pending)
      /\ Sorted(pending) /\ leases[m] \in LeaseType /\ leases[id] \in LeaseType
      BY DEF LaneInv, LaneType
<1>2. leases[m].count \in Nat \ {0}
      BY <1>1 DEF LeaseType
<1>3. i \in 1..Len(pending) /\ p + leases[m].count <= Len(pending)
      BY <1>1, <1>2
<1>4. leases[m].first <= pending[i].seq /\ pending[i].seq <= leases[m].last
      BY <1>1, <1>3, CoversItsOwn
<1>5. pending[i].arena = leases[m].arena /\ ~pending[i].acked
      BY DEF Placed
<1>6. ASSUME Acknowledges(leases[id], pending[i]) PROVE FALSE
  <2>1. /\ leases[id].arena = leases[m].arena
        /\ leases[id].first <= pending[i].seq /\ pending[i].seq <= leases[id].last
        BY <1>5, <1>6 DEF Acknowledges
  <2>2. leases[id].last < leases[m].first \/ leases[m].last < leases[id].first
        BY <2>1 DEF LaneInv, LeasesDisjoint
  <2>3. /\ leases[id].first \in Int /\ leases[id].last \in Int
        /\ leases[m].first \in Int /\ leases[m].last \in Int
        BY <1>1, HotBatchAssumption DEF LeaseType, Sequence
  <2>4. pending[i] \in EventType
        BY <1>1, <1>3
  <2>5. pending[i].seq \in Int
        BY <2>4, HotBatchAssumption DEF EventType, Sequence
  <2> QED
      BY <1>4, <2>1, <2>2, <2>3, <2>5
<1> QED
    BY <1>5, <1>6

(* batch_ack keeps the invariant of the lane.                              *)
LEMMA AckLane ==
    ASSUME LaneInv, NEW id \in DOMAIN leases, batch_ack(id)
    PROVE  LaneInv' /\ DOMAIN leases' = DOMAIN leases \ {id}
<1> DEFINE l == leases[id]
<1>1. /\ pending \in Seq(EventType) /\ Len(pending) \in Nat /\ cursor \in 0..Len(pending)
      /\ Sorted(pending) /\ Marked(pending, cursor)
      BY DEF LaneInv, LaneType
<1>2. PICK c \in 0..cursor :
          /\ pending' \in Seq(EventType) /\ Len(pending') = Len(pending) - c
          /\ cursor' = cursor - c
          /\ \A i \in 1..c : pending[i].acked \/ Acknowledges(l, pending[i])
          /\ \A i \in 1..(Len(pending) - c) :
                 /\ Same(pending'[i], pending[i + c])
                 /\ pending'[i].polled = pending[i + c].polled
                 /\ pending'[i].accepted = pending[i + c].accepted
                 /\ pending'[i].acked <=> pending[i + c].acked \/ Acknowledges(l, pending[i + c])
      BY AckEffect DEF LaneInv
<1>3. /\ arena' = [arena EXCEPT ![l.arena].inflight = @ - l.count]
      /\ arena[l.arena].inflight >= l.count
      /\ leases' = [i \in DOMAIN leases \ {id} |-> leases[i]]
      /\ UNCHANGED <<watermark, published, accepts>>
      BY DEF batch_ack, EndLease
<1>4. /\ DOMAIN leases' = DOMAIN leases \ {id}
      /\ \A m \in DOMAIN leases' : leases'[m] = leases[m]
      BY <1>3
<1>5. l \in LeaseType /\ l.count \in Nat /\ l.arena \in Arena /\ arena \in [Arena -> ArenaType]
      BY DEF LaneInv, LaneType, LeaseType
<1> HIDE DEF l
<1>6. /\ arena' \in [Arena -> ArenaType]
      /\ \A b \in Arena : /\ arena'[b].alive = arena[b].alive /\ arena'[b].gen = arena[b].gen
                          /\ arena'[b].inflight = arena[b].inflight - IF b = l.arena THEN l.count ELSE 0
      BY <1>3, <1>5 DEF ArenaType
<1>7. LaneType'
  <2>1. leases' \in [DOMAIN leases' -> LeaseType] /\ DOMAIN leases' \subseteq 1..MaxLeases
        BY <1>3, <1>4 DEF LaneInv, LaneType
  <2>2. cursor' \in 0..Len(pending') /\ Len(pending') <= Len(pending)
        BY <1>1, <1>2
  <2>3. Len(pending') <= Capacity
        BY <1>1, <1>2, HotBatchAssumption DEF LaneInv, LaneType
  <2> QED
      BY <1>2, <1>3, <1>6, <2>1, <2>2, <2>3 DEF LaneInv, LaneType
<1>8. ASSUME NEW i \in 1..Len(pending') PROVE i \in 1..(Len(pending) - c) /\ i + c \in 1..Len(pending)
      BY <1>1, <1>2
<1>9. Sorted(pending')
  <2> SUFFICES ASSUME NEW i \in 1..Len(pending'), NEW j \in 1..Len(pending'), i < j
               PROVE  pending'[i].seq < pending'[j].seq
      BY DEF Sorted
  <2>1. i + c < j + c
        BY <1>2
  <2>2. pending[i + c].seq < pending[j + c].seq
        BY <1>1, <1>8, <2>1 DEF Sorted
  <2> QED
      BY <1>2, <1>8, <2>2 DEF Same
<1>10. Marked(pending', cursor')
  <2> SUFFICES ASSUME NEW i \in 1..Len(pending')
               PROVE  /\ pending'[i].polled <=> i <= cursor'
                      /\ pending'[i].acked => pending'[i].accepted
                      /\ pending'[i].accepted => pending'[i].polled
      BY DEF Marked
  <2>1. /\ pending[i + c].polled <=> i + c <= cursor
        /\ pending[i + c].acked => pending[i + c].accepted
        /\ pending[i + c].accepted => pending[i + c].polled
        BY <1>1, <1>8 DEF Marked
  <2>2. i + c <= cursor <=> i <= cursor'
        BY <1>1, <1>2, <1>8
  <2>3. pending'[i].acked => pending[i + c].accepted
        BY <1>2, <1>8, <2>1 DEF Acknowledges
  <2> QED
      BY <1>2, <1>8, <2>1, <2>2, <2>3
<1>11. ASSUME NEW m \in DOMAIN leases' PROVE LeasePlaced(leases'[m], pending', cursor')
  <2>1. m \in DOMAIN leases /\ m # id /\ leases'[m] = leases[m]
        BY <1>4
  <2>2. leases[m] \in LeaseType /\ leases[m].count \in Nat \ {0}
        BY <2>1 DEF LaneInv, LaneType, LeaseType
  <2> DEFINE k == leases[m].count
  <2>3. PICK p \in Nat : p + k <= cursor /\ Placed(leases[m], pending, p)
        BY <2>1 DEF LaneInv, LeasesPlaced, LeasePlaced
  <2>4. \A i \in (p + 1)..(p + k) : ~pending[i].acked /\ ~Acknowledges(l, pending[i])
        BY <2>1, <2>3, OthersNotAcked DEF l
  <2>5. /\ leases[m].first = pending[p + 1].seq /\ leases[m].last = pending[p + k].seq
        /\ \A i \in (p + 1)..(p + k) :
               pending[i].arena = leases[m].arena /\ pending[i].gen = leases[m].gen
        BY <2>3 DEF Placed
  <2>6. k \in Nat \ {0}
        BY <2>2
  <2> HIDE DEF k
  <2>7. c <= p
    <3> SUFFICES ASSUME p < c PROVE FALSE
        BY <1>1, <1>2
    <3>1. p + 1 \in 1..c /\ p + 1 \in (p + 1)..(p + k)
          BY <1>1, <1>2, <2>6
    <3> QED
        BY <1>2, <2>4, <3>1
  <2> DEFINE q == p - c
  <2>8. q \in Nat /\ q + k <= cursor' /\ q + 1 + c = p + 1 /\ q + k + c = p + k
        BY <1>1, <1>2, <2>3, <2>6, <2>7
  <2>9. ASSUME NEW i \in (q + 1)..(q + k)
        PROVE  /\ i \in 1..(Len(pending) - c) /\ i + c \in (p + 1)..(p + k)
               /\ Same(pending'[i], pending[i + c])
               /\ pending'[i].acked <=> pending[i + c].acked \/ Acknowledges(l, pending[i + c])
    <3>1. i \in 1..(Len(pending) - c) /\ i + c \in (p + 1)..(p + k)
          BY <1>1, <1>2, <2>3, <2>6, <2>7
    <3> QED
        BY <1>2, <3>1
  <2>10. ASSUME NEW i \in (q + 1)..(q + k)
         PROVE  /\ pending'[i].arena = leases[m].arena /\ pending'[i].gen = leases[m].gen
                /\ ~pending'[i].acked
         BY <2>4, <2>5, <2>9 DEF Same
  <2>11. q + 1 \in (q + 1)..(q + k) /\ q + k \in (q + 1)..(q + k)
         BY <2>6, <2>8
  <2>12. leases[m].first = pending'[q + 1].seq /\ leases[m].last = pending'[q + k].seq
         BY <2>5, <2>8, <2>9, <2>11 DEF Same
  <2> HIDE DEF q
  <2>13. Placed(leases[m], pending', q)
         BY <2>10, <2>12 DEF Placed, k
  <2> QED
      BY <2>1, <2>8, <2>13 DEF LeasePlaced, k
<1>12. LeasesPlaced'
      BY <1>11 DEF LeasesPlaced, LeasePlaced, Placed
<1>13. ASSUME NEW b \in Arena
       PROVE  /\ IsFiniteSet(Under(leases', b))
              /\ Cardinality(Under(leases', b)) = arena'[b].inflight
  <2>1. IsFiniteSet(Under(leases, b)) /\ arena[b].inflight = Cardinality(Under(leases, b))
        BY UnderIs DEF LaneInv, Finite, LeasesCounted
  <2>2. /\ id \notin DOMAIN leases' /\ DOMAIN leases = DOMAIN leases' \cup {id}
        /\ \A m \in DOMAIN leases' : leases[m] = leases'[m]
        /\ leases[id].count \in Nat
        BY <1>4, <1>5 DEF l
  <2>3. /\ IsFiniteSet(Under(leases', b)) /\ Cardinality(Under(leases', b)) \in Nat
        /\ Cardinality(Under(leases, b)) =
               Cardinality(Under(leases', b)) + IF leases[id].arena = b THEN leases[id].count ELSE 0
        BY <2>1, <2>2, CountLease
  <2>4. arena'[b].inflight = arena[b].inflight - IF b = leases[id].arena THEN leases[id].count ELSE 0
        BY <1>6 DEF l
  <2> QED
      BY <2>1, <2>2, <2>3, <2>4
<1>14. \A b \in Arena : UnderLease(b)' = Under(leases', b)
      BY DEF UnderLease, Under, LeasesOn
<1>15. Finite'
      BY <1>13, <1>14 DEF Finite
<1>16. LeasesCounted'
  <2> SUFFICES ASSUME NEW b \in Arena
               PROVE  /\ arena'[b].inflight = Cardinality(UnderLease(b)')
                      /\ \A m \in LeasesOn(b)' : arena'[b].alive /\ leases'[m].gen = arena'[b].gen
      BY DEF LeasesCounted
  <2>1. ASSUME NEW m \in LeasesOn(b)'
        PROVE  arena'[b].alive /\ leases'[m].gen = arena'[b].gen
        BY <1>4, <1>6, <2>1 DEF LaneInv, LeasesCounted, LeasesOn
  <2> QED
      BY <1>13, <1>14, <2>1
<1>17. LeasesDisjoint'
      BY <1>4 DEF LaneInv, LeasesDisjoint
<1> QED
    BY <1>4, <1>7, <1>9, <1>10, <1>12, <1>15, <1>16, <1>17 DEF LaneInv, Sorted, Marked

(* The invariant of the lane is about the lane only.                       *)
LEMMA StutterLane == ASSUME LaneInv, UNCHANGED lane PROVE LaneInv'
<1>1. UNCHANGED <<pending, cursor, watermark, arena, leases, published, accepts>>
      BY DEF lane
<1>2. LaneType' /\ Sorted(pending)' /\ Marked(pending, cursor)'
      BY <1>1 DEF LaneInv, LaneType, Sorted, Marked
<1>3. \A i \in 1..cursor : Same(pending'[i], pending[i]) /\ (pending'[i].acked => pending[i].acked)
      BY <1>1 DEF Same
<1>4. LeasesPlaced' /\ Finite' /\ LeasesCounted' /\ LeasesDisjoint'
      BY <1>1, <1>3, WindowLane
<1> QED
    BY <1>2, <1>4 DEF LaneInv

(* Every call to the lane keeps its invariant.                             *)
LEMMA LaneStep == ASSUME LaneInv, [Next]_lane PROVE LaneInv'
<1>1. ASSUME NEW a \in Arena, NEW g \in Generation, NEW c \in Size, arena_register(a, g, c)
      PROVE  LaneInv'
      BY <1>1, RegisterLane
<1>2. ASSUME NEW a \in Arena, arena_release(a) PROVE LaneInv'
      BY <1>2, ReleaseLane
<1>3. ASSUME NEW a \in Arena, NEW g \in Generation, arena_recycle(a, g) PROVE LaneInv'
      BY <1>3, RecycleLane
<1>4. ASSUME NEW a \in Arena, NEW seqs \in Batch, NEW end \in Size, publish_batch(a, seqs, end)
      PROVE  LaneInv'
      BY <1>4, PublishLane
<1>5. ASSUME NEW a \in Arena, poll_batch(a) PROVE LaneInv'
      BY <1>5, PollLane
<1>6. ASSUME NEW a \in Arena, NEW seqs \in SUBSET Sequence, submit_batch(a, seqs) PROVE LaneInv'
      BY <1>6, SubmitLane
<1>7. ASSUME NEW id \in DOMAIN leases, batch_ack(id) PROVE LaneInv'
      BY <1>7, AckLane
<1> QED
    BY <1>1, <1>2, <1>3, <1>4, <1>5, <1>6, <1>7, StutterLane DEF Next

-----------------------------------------------------------------------------
(* Payloads, when the host gives an arena a generation its slot never had. *)

(* Slices stay inside their arena as long as generations are fresh.        *)
LEMMA PayloadStep ==
    ASSUME HostFreshGeneration, LaneInv, PayloadInv, [Next]_lane
    PROVE  PayloadInv'
<1>w. /\ pending \in Seq(EventType) /\ Len(pending) \in Nat
      /\ arena \in [Arena -> ArenaType] /\ cursor \in 0..Len(pending)
      BY DEF LaneInv, LaneType
<1>e. \A i \in 1..Len(pending) : pending[i].arena \in Arena /\ pending[i].gen \in Nat
  <2> TAKE i \in 1..Len(pending)
  <2>1. pending[i] \in EventType
        BY <1>w
  <2> QED
      BY <2>1, HotBatchAssumption DEF EventType
<1>r. \A b \in Arena : arena[b].gen \in Nat /\ arena[b] \in ArenaType
      BY <1>w DEF ArenaType
<1>1. ASSUME NEW a \in Arena, NEW g \in Generation, NEW c \in Size, arena_register(a, g, c)
      PROVE  PayloadInv'
  <2>1. /\ pending' = pending /\ g > arena[a].gen /\ g \in Nat
        /\ arena' = [arena EXCEPT ![a] = [alive |-> TRUE, gen |-> g, cap |-> c, inflight |-> 0]]
        BY <1>1, HotBatchAssumption DEF arena_register, Generation
  <2> QED
      BY <1>w, <1>r, <1>e, <2>1 DEF PayloadInv, InArena
<1>2. ASSUME NEW a \in Arena, arena_release(a) PROVE PayloadInv'
  <2>1. /\ pending' = pending /\ ~arena'[a].alive /\ arena'[a].gen = arena[a].gen
        /\ \A b \in Arena : b # a => arena'[b] = arena[b]
        BY <1>w, <1>r, <1>2 DEF arena_release, ArenaType
  <2> QED
      BY <1>w, <1>r, <1>e, <2>1 DEF PayloadInv, InArena
<1>3. ASSUME NEW a \in Arena, NEW g \in Generation, arena_recycle(a, g) PROVE PayloadInv'
  <2>1. /\ pending' = pending /\ g > arena[a].gen /\ g \in Nat /\ arena'[a].gen = g
        /\ \A b \in Arena : b # a => arena'[b] = arena[b]
        BY <1>w, <1>r, <1>3, HotBatchAssumption DEF arena_recycle, Generation, ArenaType
  <2>2. \A i \in 1..Len(pending) :
            /\ InArena(pending[i], arena[pending[i].arena])
            /\ pending[i].gen \in Nat /\ pending[i].arena \in Arena /\ arena[a].gen \in Nat
        BY <1>r, <1>e DEF PayloadInv
  <2>3. ASSUME NEW i \in 1..Len(pending) PROVE InArena(pending[i], arena'[pending[i].arena])
    <3>1. CASE pending[i].arena = a
          BY <2>1, <2>2, <3>1 DEF InArena
    <3>2. CASE pending[i].arena # a
          BY <2>1, <2>2, <3>2
    <3> QED
        BY <3>1, <3>2
  <2> QED
      BY <2>1, <2>3 DEF PayloadInv
<1>4. ASSUME NEW a \in Arena, NEW seqs \in Batch, NEW end \in Size, publish_batch(a, seqs, end)
      PROVE  PayloadInv'
  <2>1. /\ Len(pending') = Len(pending) + Len(seqs)
        /\ \A i \in 1..Len(pending) : pending'[i] = pending[i]
        /\ \A i \in (Len(pending) + 1)..Len(pending') :
               pending'[i].arena = a /\ pending'[i].gen = arena[a].gen /\ pending'[i].end = end
        BY <1>4, PublishEffect DEF LaneInv
  <2>2. arena' = arena /\ end <= arena[a].cap
        BY <1>4 DEF publish_batch, publish_accepts
  <2>3. Len(seqs) \in Nat
        BY BatchIs
  <2> SUFFICES ASSUME NEW i \in 1..Len(pending')
               PROVE  InArena(pending'[i], arena'[pending'[i].arena])
      BY DEF PayloadInv
  <2>4. CASE i <= Len(pending)
    <3>1. i \in 1..Len(pending)
          BY <1>w, <2>1, <2>3, <2>4, SMTT(30)
    <3>2. pending'[i] = pending[i] /\ InArena(pending[i], arena[pending[i].arena])
          BY <2>1, <3>1 DEF PayloadInv
    <3> QED
        BY <2>2, <3>2
  <2>5. CASE ~(i <= Len(pending))
    <3>0. Len(pending) \in Nat /\ Len(pending') \in Nat
          BY <1>w, <2>1, <2>3, SMTT(30)
    <3>1. i \in (Len(pending) + 1)..Len(pending')
          BY <2>5, <3>0, SMTT(30)
    <3> QED
        BY <1>r, <2>1, <2>2, <3>1, SMTT(30) DEF InArena
  <2> QED
      BY <2>4, <2>5
<1>5. ASSUME NEW a \in Arena, poll_batch(a) PROVE PayloadInv'
  <2>1. /\ Len(pending') = Len(pending)
        /\ \A i \in 1..Len(pending) : Same(pending'[i], pending[i])
        BY <1>5, ReadyIs, PollEffect DEF poll_batch, LaneInv
  <2>2. \A b \in Arena : /\ arena'[b].alive = arena[b].alive /\ arena'[b].gen = arena[b].gen
                         /\ arena'[b].cap = arena[b].cap
        BY <1>w, <1>r, <1>5 DEF poll_batch, Lease, ArenaType
  <2> SUFFICES ASSUME NEW i \in 1..Len(pending)
               PROVE  InArena(pending'[i], arena'[pending'[i].arena])
      BY <2>1 DEF PayloadInv
  <2>3. Same(pending'[i], pending[i]) /\ InArena(pending[i], arena[pending[i].arena])
        BY <2>1 DEF PayloadInv
  <2>4. pending[i].arena \in Arena
        BY <1>e
  <2> QED
      BY <2>2, <2>3, <2>4 DEF InArena, Same
<1>6. ASSUME NEW a \in Arena, NEW seqs \in SUBSET Sequence, submit_batch(a, seqs) PROVE PayloadInv'
  <2>1. /\ Len(pending') = Len(pending)
        /\ \A i \in 1..Len(pending) : Same(pending'[i], pending[i])
        BY <1>6, SubmitEffect DEF LaneInv
  <2>2. arena' = arena
        BY <1>6 DEF submit_batch
  <2> SUFFICES ASSUME NEW i \in 1..Len(pending)
               PROVE  InArena(pending'[i], arena'[pending'[i].arena])
      BY <2>1 DEF PayloadInv
  <2>3. Same(pending'[i], pending[i]) /\ InArena(pending[i], arena[pending[i].arena])
        BY <2>1 DEF PayloadInv
  <2> QED
      BY <2>2, <2>3 DEF InArena, Same
<1>7. ASSUME NEW id \in DOMAIN leases, batch_ack(id) PROVE PayloadInv'
  <2>1. PICK c \in 0..cursor :
            /\ Len(pending') = Len(pending) - c
            /\ \A i \in 1..(Len(pending) - c) : Same(pending'[i], pending[i + c])
        BY <1>7, AckEffect DEF LaneInv
  <2>2. \A b \in Arena : /\ arena'[b].alive = arena[b].alive /\ arena'[b].gen = arena[b].gen
                         /\ arena'[b].cap = arena[b].cap
        BY <1>w, <1>r, <1>7 DEF batch_ack, EndLease, ArenaType
  <2> SUFFICES ASSUME NEW i \in 1..Len(pending')
               PROVE  InArena(pending'[i], arena'[pending'[i].arena])
      BY DEF PayloadInv
  <2>3. i \in 1..(Len(pending) - c) /\ i + c \in 1..Len(pending)
        BY <1>w, <2>1
  <2>4. Same(pending'[i], pending[i + c]) /\ InArena(pending[i + c], arena[pending[i + c].arena])
        BY <2>1, <2>3 DEF PayloadInv
  <2>5. pending[i + c].arena \in Arena
        BY <1>e, <2>3
  <2> QED
      BY <2>2, <2>4, <2>5 DEF InArena, Same
<1>8. CASE UNCHANGED lane
      BY <1>8 DEF lane, PayloadInv, InArena
<1> QED
    BY <1>1, <1>2, <1>3, <1>4, <1>5, <1>6, <1>7, <1>8 DEF Next

(* From the inductive parts to the properties.                             *)
LEMMA LaneOrdered == LaneInv => TypeOK /\ WindowOrdered /\ LeasesCounted /\ LeasesDisjoint
<1> SUFFICES ASSUME LaneInv PROVE TypeOK /\ WindowOrdered /\ LeasesCounted /\ LeasesDisjoint
    OBVIOUS
<1>1. pending \in Seq(EventType) /\ DOMAIN pending = 1..Len(pending) /\ Len(pending) \in Nat
      BY DEF LaneInv, LaneType
<1>2. TypeOK
      BY DEF LaneInv, LaneType, TypeOK, ArenaType
<1>3. WindowOrdered
      BY <1>1 DEF LaneInv, Sorted, Marked, WindowOrdered
<1> QED
    BY <1>2, <1>3 DEF LaneInv

(* The invariant gives the bounds of every slice handed out.               *)
LEMMA LanePayload == LaneInv /\ PayloadInv => PayloadInBounds
<1> SUFFICES ASSUME LaneInv, PayloadInv, NEW id \in DOMAIN leases, NEW i \in DOMAIN pending,
                    pending[i].arena = leases[id].arena,
                    leases[id].first <= pending[i].seq, pending[i].seq <= leases[id].last
             PROVE  pending[i].end <= arena[pending[i].arena].cap
    BY DEF PayloadInBounds
<1>1. /\ pending \in Seq(EventType) /\ i \in 1..Len(pending) /\ Len(pending) \in Nat
      /\ cursor \in 0..Len(pending) /\ leases[id] \in LeaseType /\ Sorted(pending)
      BY DEF LaneInv, LaneType
<1>2. leases[id].count \in Nat /\ leases[id].arena \in Arena
      BY <1>1 DEF LeaseType
<1>3. PICK p \in Nat : p + leases[id].count <= cursor /\ Placed(leases[id], pending, p)
      BY DEF LaneInv, LeasesPlaced, LeasePlaced
<1>4. p + leases[id].count <= Len(pending)
      BY <1>1, <1>2, <1>3
<1>5. i \in (p + 1)..(p + leases[id].count)
      BY <1>1, <1>3, <1>4, CoversItsOwn
<1>6. pending[i].gen = leases[id].gen
      BY <1>3, <1>5 DEF Placed
<1>7. arena[leases[id].arena].alive /\ leases[id].gen = arena[leases[id].arena].gen
      BY <1>2 DEF LaneInv, LeasesCounted, LeasesOn
<1> QED
    BY <1>1, <1>6, <1>7 DEF PayloadInv, InArena

-----------------------------------------------------------------------------
(* Acceptance, when the host never publishes a sequence number again.      *)

(* The sequence numbers of a window.                                       *)
LEMMA SeqsAre ==
    ASSUME LaneType
    PROVE  \A i \in 1..Len(pending) : pending[i].seq \in Sequence /\ pending[i].seq \in Int
<1> TAKE i \in 1..Len(pending)
<1>1. pending[i] \in EventType
      BY DEF LaneType
<1>2. pending[i].seq \in Sequence
      BY <1>1 DEF EventType
<1> QED
    BY <1>2, HotBatchAssumption DEF Sequence

(* The watermark is where it was, or on an event before which all is       *)
(* accepted.                                                               *)
LEMMA WatermarkIs ==
    ASSUME NEW window \in Seq(EventType), watermark \in 0..MaxSequence
    PROVE  /\ watermark <= advance_watermark(window)
           /\ \/ advance_watermark(window) = watermark
              \/ \E k \in 1..Len(window) :
                     /\ advance_watermark(window) = window[k].seq
                     /\ \A j \in 1..k : window[j].accepted
           /\ \A k \in 1..Len(window) :
                  (\A j \in 1..k : window[j].accepted) => window[k].seq <= advance_watermark(window)
<1> DEFINE S == {watermark} \cup {window[i].seq : i \in AcceptedPrefix(window)}
<1>1. \A i \in 1..Len(window) : window[i].seq \in 0..MaxSequence
  <2> TAKE i \in 1..Len(window)
  <2>1. window[i] \in EventType
        OBVIOUS
  <2> QED
      BY <2>1, HotBatchAssumption DEF EventType, Sequence
<1>2. DOMAIN window = 1..Len(window)
      OBVIOUS
<1>3. watermark \in S /\ S \subseteq 0..MaxSequence /\ MaxSequence \in Nat
      BY <1>1, <1>2, HotBatchAssumption DEF AcceptedPrefix
<1>4. Max(S) \in S /\ \A y \in S : y <= Max(S)
  <2> HIDE DEF S
  <2> QED
      BY <1>3, MaxOf
<1>5. advance_watermark(window) = Max(S)
      BY DEF advance_watermark
<1>6. \A k \in 1..Len(window) : (\A j \in 1..k : window[j].accepted) => window[k].seq \in S
      BY <1>2 DEF AcceptedPrefix
<1>7. \A y \in S : y = watermark \/ \E k \in 1..Len(window) :
                                        y = window[k].seq /\ \A j \in 1..k : window[j].accepted
      BY <1>2 DEF AcceptedPrefix
<1> HIDE DEF S
<1> QED
    BY <1>3, <1>4, <1>5, <1>6, <1>7

(* What is accepted stays exact as long as the host publishes upwards.     *)
LEMMA AcceptStep ==
    ASSUME HostMonotone, LaneInv, AcceptInv, [Next]_lane
    PROVE  AcceptInv'
<1>w. /\ pending \in Seq(EventType) /\ Len(pending) \in Nat /\ cursor \in 0..Len(pending)
      /\ watermark \in 0..MaxSequence /\ published \in 0..MaxSequence
      /\ accepts \in [Sequence -> Nat] /\ Sorted(pending) /\ LaneType /\ MaxSequence \in Nat
      BY HotBatchAssumption DEF LaneInv, LaneType
<1>s. \A i \in 1..Len(pending) : pending[i].seq \in Sequence /\ pending[i].seq \in Int
      BY <1>w, SeqsAre
<1>1. ASSUME NEW a \in Arena, NEW seqs \in Batch, NEW end \in Size, publish_batch(a, seqs, end)
      PROVE  AcceptInv'
  <2>1. /\ Len(pending') = Len(pending) + Len(seqs)
        /\ \A i \in 1..Len(pending) : pending'[i] = pending[i]
        /\ \A i \in (Len(pending) + 1)..Len(pending') : pending'[i].seq = seqs[i - Len(pending)]
        BY <1>1, <1>w, PublishEffect
  <2>2. seqs \in Seq(Sequence) /\ Len(seqs) \in 1..2
        BY BatchIs
  <2>3. \A i, j \in 1..Len(seqs) : i < j => seqs[i] < seqs[j]
        BY <1>1, BatchIs DEF publish_batch, publish_accepts
  <2>4. \A j \in 1..Len(seqs) : seqs[j] \in Sequence /\ seqs[j] \in Int
    <3> TAKE j \in 1..Len(seqs)
    <3>1. seqs[j] \in Sequence
          BY <2>2
    <3> QED
        BY <3>1, HotBatchAssumption DEF Sequence
  <2>5. UNCHANGED <<watermark, accepts>> /\ seqs[1] > published
        BY <1>1 DEF publish_batch
  <2>6. 1 \in 1..Len(seqs) /\ Len(seqs) \in 1..Len(seqs)
    <3>1. Len(seqs) \in Nat /\ 1 <= Len(seqs)
          BY <2>2
    <3> QED
        BY <3>1
  <2>7. \A j \in 1..Len(seqs) : seqs[j] > published /\ seqs[j] <= Last(seqs)
        BY SMTT(30), <1>w, <2>3, <2>4, <2>5, <2>6 DEF Last
  <2>8. published' \in Nat /\ published <= published' /\ Last(seqs) <= published'
    <3> DEFINE S == {published, Last(seqs)}
    <3>1. Last(seqs) \in 0..MaxSequence
      <4>1. Last(seqs) \in Sequence
            BY <2>4, <2>6 DEF Last
      <4> QED
          BY <4>1, HotBatchAssumption DEF Sequence
    <3>2. published \in S /\ Last(seqs) \in S /\ S \subseteq 0..MaxSequence
          BY <1>w, <3>1
    <3>3. published' = Max(S)
          BY <1>1 DEF publish_batch
    <3> HIDE DEF S
    <3>4. Max(S) \in S /\ \A y \in S : y <= Max(S)
          BY <1>w, <3>2, MaxOf
    <3>5. published' \in 0..MaxSequence
          BY <3>2, <3>3, <3>4
    <3>6. published <= Max(S) /\ Last(seqs) <= Max(S)
          BY <3>2, <3>4
    <3> QED
        BY <3>3, <3>5, <3>6, HotBatchAssumption
  <2>9. ASSUME NEW i \in 1..Len(pending')
        PROVE  /\ pending'[i].seq <= published'
               /\ pending'[i].seq <= watermark \/ accepts[pending'[i].seq] # 0 => pending'[i].accepted
    <3>1. CASE i <= Len(pending)
      <4>1. i \in 1..Len(pending) /\ pending'[i] = pending[i]
            BY <1>w, <2>1, <3>1
      <4> QED
          BY <1>w, <1>s, <2>8, <4>1 DEF AcceptInv
    <3>2. CASE ~(i <= Len(pending))
      <4>1. i \in (Len(pending) + 1)..Len(pending') /\ i - Len(pending) \in 1..Len(seqs)
            BY <1>w, <2>1, <2>2, <3>2
      <4>2. pending'[i].seq = seqs[i - Len(pending)]
            BY <2>1, <4>1
      <4>3. /\ pending'[i].seq > published /\ pending'[i].seq <= Last(seqs)
            /\ pending'[i].seq \in Sequence /\ pending'[i].seq \in Int
            BY <2>4, <2>7, <4>1, <4>2
      <4>4. Last(seqs) \in Int
            BY <2>4, <2>6 DEF Last
      <4> QED
          BY <1>w, <2>8, <4>3, <4>4 DEF AcceptInv
    <3> QED
        BY <3>1, <3>2
  <2>10. \A s \in Sequence : accepts[s] <= 1 /\ (s > published' => accepts[s] = 0)
         BY <1>w, <2>8 DEF AcceptInv, Sequence
  <2>11. watermark <= published'
         BY <1>w, <2>8 DEF AcceptInv
  <2> QED
      BY <2>5, <2>9, <2>10, <2>11 DEF AcceptInv
<1>2. ASSUME NEW a, NEW seqs, submit_batch(a, seqs) PROVE AcceptInv'
  <2>1. /\ pending' \in Seq(EventType) /\ Len(pending') = Len(pending)
        /\ \A i \in 1..Len(pending) :
               /\ pending'[i].seq = pending[i].seq
               /\ pending'[i].accepted <=> pending[i].accepted \/ i \in Taken(a, seqs)
        /\ watermark' = advance_watermark(pending')
        /\ accepts' = [s \in Sequence |->
               IF \E i \in Taken(a, seqs) : pending[i].seq = s THEN accepts[s] + 1 ELSE accepts[s]]
        BY <1>2, <1>w, SubmitEffect DEF Same
  <2>2. published' = published
        BY <1>2 DEF submit_batch
  <2>3. /\ \/ watermark' = watermark
           \/ \E k \in 1..Len(pending) :
                  watermark' = pending[k].seq /\ \A j \in 1..k : pending'[j].accepted
    <3>1. \/ advance_watermark(pending') = watermark
          \/ \E k \in 1..Len(pending') :
                 /\ advance_watermark(pending') = pending'[k].seq
                 /\ \A j \in 1..k : pending'[j].accepted
          BY <1>w, <2>1, WatermarkIs
    <3> QED
        BY <2>1, <3>1
  <2>4. watermark' <= published
        BY <1>w, <2>3 DEF AcceptInv
  <2>5. ASSUME NEW i \in 1..Len(pending), pending[i].seq <= watermark' PROVE pending'[i].accepted
    <3>1. CASE watermark' = watermark
          BY <2>1, <2>5, <3>1 DEF AcceptInv
    <3>2. ASSUME NEW k \in 1..Len(pending), watermark' = pending[k].seq,
                 \A j \in 1..k : pending'[j].accepted
          PROVE  pending'[i].accepted
      <4>1. ~(k < i)
            BY <1>w, <1>s, <2>5, <3>2 DEF Sorted
      <4>2. i \in 1..k
            BY <1>w, <4>1
      <4> QED
          BY <3>2, <4>2
    <3> QED
        BY <2>3, <3>1, <3>2
  <2>6. ASSUME NEW i \in 1..Len(pending), accepts'[pending[i].seq] # 0 PROVE pending'[i].accepted
    <3>1. CASE accepts[pending[i].seq] # 0
          BY <2>1, <3>1 DEF AcceptInv
    <3>2. CASE accepts[pending[i].seq] = 0
      <4>1. PICK j \in Taken(a, seqs) : pending[j].seq = pending[i].seq
            BY <1>s, <2>1, <2>6, <3>2
      <4>2. j \in 1..Len(pending)
            BY <4>1 DEF Taken
      <4>3. i = j
            BY <1>w, <1>s, <4>1, <4>2 DEF Sorted
      <4> QED
          BY <2>1, <4>1, <4>3
    <3> QED
        BY <3>1, <3>2
  <2>7. ASSUME NEW s \in Sequence PROVE accepts'[s] <= 1 /\ (s > published => accepts'[s] = 0)
    <3>1. CASE \E i \in Taken(a, seqs) : pending[i].seq = s
      <4>1. PICK i \in Taken(a, seqs) : pending[i].seq = s
            BY <3>1
      <4>2. i \in 1..Len(pending) /\ ~pending[i].accepted
            BY <4>1 DEF Taken, Acceptable
      <4>3. accepts[s] = 0 /\ s <= published
            BY <4>1, <4>2 DEF AcceptInv
      <4>4. accepts'[s] = 1
            BY <2>1, <3>1, <4>3
      <4> QED
          BY <1>w, <4>3, <4>4 DEF Sequence
    <3>2. CASE ~\E i \in Taken(a, seqs) : pending[i].seq = s
          BY <2>1, <3>2 DEF AcceptInv
    <3> QED
        BY <3>1, <3>2
  <2>8. \A i \in 1..Len(pending) : pending[i].seq <= published
        BY DEF AcceptInv
  <2> QED
      BY <2>1, <2>2, <2>4, <2>5, <2>6, <2>7, <2>8 DEF AcceptInv
<1>3. ASSUME UNCHANGED <<watermark, published, accepts>>,
             NEW c \in 0..Len(pending), Len(pending') = Len(pending) - c,
             \A i \in 1..(Len(pending) - c) :
                 /\ pending'[i].seq = pending[i + c].seq
                 /\ pending'[i].accepted = pending[i + c].accepted
      PROVE  AcceptInv'
  <2>1. ASSUME NEW i \in 1..Len(pending')
        PROVE  /\ pending'[i].seq <= published
               /\ pending'[i].seq <= watermark \/ accepts[pending'[i].seq] # 0 => pending'[i].accepted
    <3>1. i \in 1..(Len(pending) - c) /\ i + c \in 1..Len(pending)
          BY <1>w, <1>3
    <3>2. pending'[i].seq = pending[i + c].seq /\ pending'[i].accepted = pending[i + c].accepted
          BY <1>3, <3>1
    <3> QED
        BY <3>1, <3>2 DEF AcceptInv
  <2> QED
      BY <1>3, <2>1 DEF AcceptInv
<1>4. CASE UNCHANGED <<pending, watermark, published, accepts>>
      BY <1>4 DEF AcceptInv
<1>5. ASSUME NEW a \in Arena, poll_batch(a) PROVE AcceptInv'
  <2>1. /\ Len(pending') = Len(pending)
        /\ \A i \in 1..Len(pending) :
               Same(pending'[i], pending[i]) /\ pending'[i].accepted = pending[i].accepted
        BY <1>5, <1>w, ReadyIs, PollEffect DEF poll_batch
  <2>2. UNCHANGED <<watermark, published, accepts>>
        BY <1>5 DEF poll_batch
  <2> QED
      BY <2>1, <2>2 DEF AcceptInv, Same
<1>6. ASSUME NEW id \in DOMAIN leases, batch_ack(id) PROVE AcceptInv'
  <2>1. PICK c \in 0..cursor :
            /\ Len(pending') = Len(pending) - c
            /\ \A i \in 1..(Len(pending) - c) :
                   /\ Same(pending'[i], pending[i + c])
                   /\ pending'[i].accepted = pending[i + c].accepted
        BY <1>6, AckEffect DEF LaneInv
  <2>2. UNCHANGED <<watermark, published, accepts>> /\ c \in 0..Len(pending)
        BY <1>6, <1>w DEF batch_ack, EndLease
  <2> QED
      BY <1>3, <2>1, <2>2 DEF Same
<1>7. ASSUME NEW a \in Arena, NEW g \in Generation, NEW x \in Size,
             arena_register(a, g, x) \/ arena_release(a) \/ arena_recycle(a, g)
      PROVE  UNCHANGED <<pending, watermark, published, accepts>>
      BY <1>7 DEF arena_register, arena_release, arena_recycle
<1>8. ASSUME NEW a \in Arena, arena_release(a)
      PROVE  UNCHANGED <<pending, watermark, published, accepts>>
      BY <1>8 DEF arena_release
<1>9. ASSUME NEW a \in Arena, NEW g \in Generation, arena_recycle(a, g)
      PROVE  UNCHANGED <<pending, watermark, published, accepts>>
      BY <1>9 DEF arena_recycle
<1>10. UNCHANGED lane => UNCHANGED <<pending, watermark, published, accepts>>
      BY DEF lane
<1> QED
    BY <1>1, <1>2, <1>4, <1>5, <1>6, <1>7, <1>8, <1>9, <1>10 DEF Next

(* The invariant gives what was accepted, once and contiguous.             *)
LEMMA LaneAccepted == LaneInv /\ AcceptInv => AcceptanceExact
<1> SUFFICES ASSUME LaneInv, AcceptInv PROVE AcceptanceExact
    OBVIOUS
<1>1. DOMAIN pending = 1..Len(pending)
      BY DEF LaneInv, LaneType
<1> QED
    BY <1>1 DEF AcceptInv, AcceptanceExact, AcceptedOnce, WatermarkContiguous

-----------------------------------------------------------------------------
(* What leaves the window was accepted.                                    *)
LEMMA NoneDropped ==
    ASSUME LaneInv, [Next]_lane, NEW i \in DOMAIN pending
    PROVE  pending[i].accepted \/ \E j \in DOMAIN pending' : pending'[j].seq = pending[i].seq
<1>w. /\ pending \in Seq(EventType) /\ Len(pending) \in Nat /\ i \in 1..Len(pending)
      /\ cursor \in 0..Len(pending) /\ LaneType /\ Marked(pending, cursor)
      BY DEF LaneInv, LaneType
<1> DEFINE Kept == \E j \in DOMAIN pending' : pending'[j].seq = pending[i].seq
<1>1. ASSUME NEW a \in Arena, NEW seqs \in Batch, NEW end \in Size, publish_batch(a, seqs, end)
      PROVE  Kept
  <2>1. /\ pending' \in Seq(EventType) /\ Len(pending') = Len(pending) + Len(seqs)
        /\ pending'[i] = pending[i]
        BY <1>1, <1>w, PublishEffect
  <2>2. Len(seqs) \in Nat
        BY BatchIs
  <2>3. i \in DOMAIN pending'
        BY <1>w, <2>1, <2>2
  <2> QED
      BY <2>1, <2>3
<1>2. ASSUME NEW a, NEW seqs, submit_batch(a, seqs) PROVE Kept
  <2>1. pending' \in Seq(EventType) /\ Len(pending') = Len(pending) /\ Same(pending'[i], pending[i])
        BY <1>2, <1>w, SubmitEffect
  <2> QED
      BY <1>w, <2>1 DEF Same
<1>3. ASSUME NEW a \in Arena, poll_batch(a) PROVE Kept
  <2>1. pending' \in Seq(EventType) /\ Len(pending') = Len(pending) /\ Same(pending'[i], pending[i])
        BY <1>3, <1>w, ReadyIs, PollEffect DEF poll_batch
  <2> QED
      BY <1>w, <2>1 DEF Same
<1>4. ASSUME NEW id \in DOMAIN leases, batch_ack(id) PROVE pending[i].accepted \/ Kept
  <2>1. PICK c \in 0..cursor :
            /\ pending' \in Seq(EventType) /\ Len(pending') = Len(pending) - c
            /\ \A k \in 1..c : pending[k].acked \/ Acknowledges(leases[id], pending[k])
            /\ \A k \in 1..(Len(pending) - c) : Same(pending'[k], pending[k + c])
        BY <1>4, <1>w, AckEffect
  <2>2. CASE i <= c
        BY <1>w, <2>1, <2>2 DEF Marked, Acknowledges
  <2>3. CASE ~(i <= c)
    <3>1. i - c \in 1..(Len(pending) - c) /\ (i - c) + c = i
          BY <1>w, <2>1, <2>3
    <3>2. pending'[i - c].seq = pending[i].seq
          BY <2>1, <3>1 DEF Same
    <3>3. i - c \in DOMAIN pending'
          BY <2>1, <3>1
    <3> QED
        BY <3>2, <3>3
  <2> QED
      BY <2>2, <2>3
<1>5. pending' = pending => Kept
      OBVIOUS
<1>6. ASSUME NEW a \in Arena, NEW g \in Generation, NEW x \in Size, arena_register(a, g, x)
      PROVE  pending' = pending
      BY <1>6 DEF arena_register
<1>7. ASSUME NEW a \in Arena, arena_release(a) PROVE pending' = pending
      BY <1>7 DEF arena_release
<1>8. ASSUME NEW a \in Arena, NEW g \in Generation, arena_recycle(a, g) PROVE pending' = pending
      BY <1>8 DEF arena_recycle
<1>9. UNCHANGED lane => pending' = pending
      BY DEF lane
<1> HIDE DEF Kept
<1>10. pending[i].accepted \/ Kept
      BY <1>1, <1>2, <1>3, <1>4, <1>5, <1>6, <1>7, <1>8, <1>9 DEF Next
<1> QED
    BY <1>10 DEF Kept

-----------------------------------------------------------------------------
(* The binding.  What holds at each step of a roundtrip whatever the host  *)
(* does with generations: the calls it makes are on things that exist.     *)
Steps ==
    /\ pc \in {"free", "idle", "poll", "mediate", "ack"}
    /\ refused \in Nat /\ starved \in Nat
    /\ pc \in {"poll", "mediate", "ack"} => ArenaAlive /\ batch \in Batch
    /\ pc \in {"mediate", "ack"} => held \in DOMAIN leases

(* The arena an event names is registered, with the event's generation.    *)
Current(e) == arena[e.arena].alive /\ e.gen = arena[e.arena].gen

(* One arena at a time, and of the events that wait to be polled either    *)
(* none from some place on, or all, are still current.                     *)
OneArena == \A a, b \in Arena : arena[a].alive /\ arena[b].alive => a = b

WaitTogether ==
    \A i, j \in (cursor + 1)..Len(pending) : i <= j /\ Current(pending[i]) => Current(pending[j])

(* The batch handed in is the end of the window.                           *)
BatchLast ==
    /\ Len(batch) <= Len(pending)
    /\ \A k \in 1..Len(batch) : pending[Len(pending) - Len(batch) + k].seq = batch[k]

BatchWaits ==
    /\ cursor <= Len(pending) - Len(batch)
    /\ \A i \in (Len(pending) - Len(batch) + 1)..Len(pending) : Current(pending[i])

(* One lease, on the batch.                                                *)
BatchLeased ==
    /\ DOMAIN leases = {held} /\ leases[held].count = Len(batch)
    /\ cursor = Len(pending) /\ Placed(leases[held], pending, Len(pending) - Len(batch))

(* With no roundtrip refused or starved so far, there is nothing else in   *)
(* the window, and what is published is accepted with the batch.           *)
Drains ==
    /\ pc = "idle" => pending = <<>> /\ watermark = published
    /\ pc \in {"poll", "mediate"} =>
           /\ Len(pending) = Len(batch) /\ watermark <= published /\ Last(batch) <= published
           /\ published = watermark \/ published = Last(batch)
    /\ pc = "ack" =>
           /\ Len(pending) = Len(batch) /\ watermark = published
           /\ \A i \in 1..Len(pending) : pending[i].accepted

RoundInv ==
    pc # "free" =>
        /\ OneArena /\ WaitTogether
        /\ pc \in {"idle", "poll"} => DOMAIN leases = {}
        /\ pc \in {"poll", "mediate", "ack"} => BatchLast
        /\ pc = "poll" => BatchWaits
        /\ pc \in {"mediate", "ack"} => BatchLeased
        /\ refused = 0 /\ starved = 0 => Drains

(* The arena that a binding has open.                                      *)
LEMMA TheArena ==
    ASSUME ArenaAlive
    PROVE  CurrentArena \in Arena /\ arena[CurrentArena].alive
BY DEF ArenaAlive, CurrentArena

(* Every step of a roundtrip is a call of the lane, or leaves it alone.    *)
LEMMA LaneCall == ASSUME LaneInv, Steps, [RNext]_vars PROVE [Next]_lane
<1>1. CASE KernelCall
      BY <1>1 DEF KernelCall
<1>2. CASE OpenArena
      BY <1>2 DEF OpenArena, Next
<1>3. CASE RecycleArena
      BY <1>3, TheArena DEF RecycleArena, Next
<1>4. CASE CloseArena
      BY <1>4, TheArena DEF CloseArena, Next
<1>5. CASE Publish
      BY <1>5, TheArena DEF Publish, Next
<1>6. CASE Poll
  <2>1. ArenaAlive
        BY <1>6 DEF Poll, Steps
  <2>2. poll_batch(CurrentArena) \/ UNCHANGED lane
        BY <1>6 DEF Poll
  <2> QED
      BY <2>1, <2>2, TheArena DEF Next
<1>7. CASE PollStarved
      BY <1>7 DEF PollStarved
<1>8. CASE MediateRefused
      BY <1>8 DEF MediateRefused, Steps, Next
<1>9. CASE MediateExecutes
  <2>1. ArenaAlive /\ submit_batch(CurrentArena, Headers)
        BY <1>9 DEF MediateExecutes, Steps
  <2>2. Headers \in SUBSET Sequence
        BY SeqsAre DEF LaneInv, LaneType, Headers
  <2> QED
      BY <2>1, <2>2, TheArena DEF Next
<1>10. CASE Acknowledge
      BY <1>10 DEF Acknowledge, Steps, Next
<1>11. CASE UNCHANGED vars
      BY <1>11 DEF vars, lane
<1> QED
    BY <1>1, <1>2, <1>3, <1>4, <1>5, <1>6, <1>7, <1>8, <1>9, <1>10, <1>11 DEF RNext

(* A binding starts without a roundtrip.                                   *)
LEMMA StepsInit == RInit => Steps
BY DEF RInit, Steps

(* Every step leaves a binding at a step of a roundtrip with its lease.    *)
LEMMA StepsStep == ASSUME LaneInv, Steps, [RNext]_vars PROVE Steps'
<1>1. CASE KernelCall \/ OpenArena \/ RecycleArena \/ CloseArena
      BY <1>1 DEF KernelCall, OpenArena, RecycleArena, CloseArena, roundtrip, Steps
<1>2. CASE Publish
  <2>1. PICK seqs \in Batch, end \in Size : publish_batch(CurrentArena, seqs, end) /\ batch' = seqs
        BY <1>2 DEF Publish
  <2>2. arena' = arena /\ ArenaAlive
        BY <1>2, <2>1 DEF Publish, publish_batch
  <2> QED
      BY <1>2, <2>1, <2>2 DEF Publish, Steps, ArenaAlive
<1>3. CASE Poll
  <2>0. ArenaAlive /\ batch \in Batch
        BY <1>3 DEF Poll, Steps
  <2>1. CASE Ready(CurrentArena) \in 1..Len(batch)
    <3>1. poll_batch(CurrentArena) /\ held' = Min(FreeLeases) /\ CurrentArena \in Arena
          BY <1>3, <2>0, <2>1, TheArena DEF Poll
    <3>2. held' \in DOMAIN leases'
          BY <3>1, PollLane
    <3>3. \A b \in Arena : arena'[b].alive = arena[b].alive
          BY <3>1 DEF LaneInv, LaneType, poll_batch, Lease, ArenaType
    <3>4. ArenaAlive'
          BY <2>0, <3>3 DEF ArenaAlive
    <3> QED
        BY <1>3, <2>0, <3>2, <3>4 DEF Poll, Steps
  <2>2. CASE Ready(CurrentArena) \notin 1..Len(batch)
    <3>1. Len(batch) \in 1..Len(batch)
      <4>1. Len(batch) \in 1..2
            BY <2>0, BatchIs
      <4>2. Len(batch) \in Nat /\ 1 <= Len(batch)
            BY <4>1
      <4> QED
          BY <4>2
    <3>2. pc' = "idle"
          BY <1>3, <2>2, <3>1 DEF Poll
    <3> QED
        BY <1>3, <3>2 DEF Poll, Steps
  <2> QED
      BY <2>1, <2>2
<1>4. CASE PollStarved \/ MediateRefused \/ Acknowledge
      BY <1>4 DEF PollStarved, MediateRefused, Acknowledge, Steps
<1>5. CASE MediateExecutes
  <2>1. UNCHANGED <<arena, leases, batch, held, refused, starved>> /\ pc' = "ack" /\ pc = "mediate"
        BY <1>5 DEF MediateExecutes, submit_batch
  <2> QED
      BY <2>1 DEF Steps, ArenaAlive
<1>6. CASE UNCHANGED vars
      BY <1>6 DEF vars, lane, roundtrip, Steps, ArenaAlive
<1> QED
    BY <1>1, <1>2, <1>3, <1>4, <1>5, <1>6 DEF RNext

-----------------------------------------------------------------------------
(* The lane's properties, for every host. *)

(* Lane and binding start with their invariants.                           *)
LEMMA HostInit == RInit => LaneInv /\ Steps
BY LaneInit, StepsInit DEF RInit

(* Every step of host or binding keeps the invariants of lane and binding. *)
LEMMA HostStep == LaneInv /\ Steps /\ [RNext]_vars => (LaneInv /\ Steps)'
BY LaneCall, LaneStep, StepsStep

(* Whatever calls a host makes, with the binding or without, the window    *)
(* keeps its order and its marks, leases are counted, name the live        *)
(* generation of their arena, and share no event.                          *)
THEOREM WindowKept == RSpec => [](TypeOK /\ WindowOrdered /\ LeasesCounted /\ LeasesDisjoint)
BY HostInit, HostStep, LaneOrdered, PTL DEF RSpec

(* No call drops an event that was not accepted.                           *)
THEOREM NoEventDropped == RSpec => NothingDropped
<1>1. LaneInv /\ Steps /\ [RNext]_vars =>
          [\A i \in DOMAIN pending :
               pending[i].accepted
                   \/ \E j \in DOMAIN pending' : pending'[j].seq = pending[i].seq]_lane
      BY LaneCall, NoneDropped
<1> QED
    BY HostInit, HostStep, <1>1, PTL DEF RSpec, NothingDropped

(* At first there is no slice.                                             *)
LEMMA PayloadInit == RInit => PayloadInv
BY DEF RInit, Init, PayloadInv

(* When generations of an arena slot are not used again, what runs under a *)
(* lease also lies within its arena.                                       *)
THEOREM LaneKept == ASSUME HostFreshGeneration PROVE RSpec => []LaneIntact
<1>1. PayloadInv /\ LaneInv /\ Steps /\ [RNext]_vars => PayloadInv'
      BY LaneCall, PayloadStep
<1>2. LaneInv /\ PayloadInv => LaneIntact
      BY LaneOrdered, LanePayload DEF LaneIntact
<1> QED
    BY HostInit, HostStep, PayloadInit, <1>1, <1>2, PTL DEF RSpec

(* At first nothing is accepted.                                           *)
LEMMA AcceptInit == RInit => AcceptInv
BY HotBatchAssumption DEF RInit, Init, AcceptInv, Sequence

(* When sequence numbers are not published again, every attempt is         *)
(* accepted at most once and the watermark passes over nothing that waits. *)
THEOREM AcceptedExactly == ASSUME HostMonotone PROVE RSpec => []AcceptanceExact
<1>1. AcceptInv /\ LaneInv /\ Steps /\ [RNext]_vars => AcceptInv'
      BY LaneCall, AcceptStep
<1> QED
    BY HostInit, HostStep, AcceptInit, LaneAccepted, <1>1, PTL DEF RSpec

-----------------------------------------------------------------------------
(* Roundtrips. *)

(* A batch has at least one event.                                         *)
LEMMA BatchLen == ASSUME NEW seqs \in Batch PROVE Len(seqs) \in Nat /\ 1 <= Len(seqs)
<1>1. Len(seqs) \in 1..2
      BY BatchIs
<1> QED
    BY <1>1

(* What the window and the arenas are made of.                             *)
LEMMA Parts ==
    ASSUME LaneInv
    PROVE  /\ pending \in Seq(EventType) /\ Len(pending) \in Nat /\ cursor \in 0..Len(pending)
           /\ arena \in [Arena -> ArenaType] /\ LaneType /\ Sorted(pending)
           /\ \A i \in 1..Len(pending) : pending[i].arena \in Arena /\ pending[i].gen \in Nat
           /\ \A a \in Arena : arena[a].gen \in Nat
<1>1. /\ pending \in Seq(EventType) /\ Len(pending) \in Nat /\ cursor \in 0..Len(pending)
      /\ arena \in [Arena -> ArenaType] /\ LaneType /\ Sorted(pending)
      BY DEF LaneInv, LaneType
<1>2. \A i \in 1..Len(pending) : pending[i].arena \in Arena /\ pending[i].gen \in Nat
  <2> TAKE i \in 1..Len(pending)
  <2>1. pending[i] \in EventType
        BY <1>1
  <2> QED
      BY <2>1, HotBatchAssumption DEF EventType
<1>3. \A a \in Arena : arena[a].gen \in Nat
      BY <1>1 DEF ArenaType
<1> QED
    BY <1>1, <1>2, <1>3

(* An arena that gets a generation its slot never had leaves no event      *)
(* current, when it is the only arena alive.                               *)
LEMMA FreshArena ==
    ASSUME LaneInv, PayloadInv, NEW a \in Arena, NEW g \in Nat, g > arena[a].gen,
           \A b \in Arena : b # a => ~arena[b].alive /\ arena'[b] = arena[b],
           arena'[a].gen = g, UNCHANGED <<pending, cursor>>
    PROVE  OneArena' /\ WaitTogether'
<1>1. OneArena'
      BY DEF OneArena
<1>2. ASSUME NEW i \in 1..Len(pending)
      PROVE  ~(arena'[pending[i].arena].alive /\ pending[i].gen = arena'[pending[i].arena].gen)
  <2>1. pending[i].arena \in Arena /\ pending[i].gen \in Nat /\ arena[a].gen \in Nat
        BY Parts
  <2>2. pending[i].gen <= arena[pending[i].arena].gen
        BY DEF PayloadInv, InArena
  <2> QED
      BY <2>1, <2>2
<1>3. \A i \in (cursor + 1)..Len(pending) : i \in 1..Len(pending)
      BY Parts
<1> QED
    BY <1>1, <1>2, <1>3 DEF WaitTogether, Current

(* Opening an arena for a roundtrip.                                       *)
LEMMA OpenRound ==
    ASSUME HostFreshGeneration, LaneInv, PayloadInv, Steps, RoundInv, OpenArena
    PROVE  RoundInv'
<1>1. PICK a \in Arena, g \in Generation, c \in Size : arena_register(a, g, c)
      BY DEF OpenArena
<1>2. /\ g > arena[a].gen /\ g \in Nat /\ arena'[a].gen = g
      /\ \A b \in Arena : b # a => arena'[b] = arena[b]
      /\ UNCHANGED <<pending, cursor, watermark, leases, published>>
      BY <1>1, Parts, HotBatchAssumption DEF arena_register, Generation
<1>3. /\ \A b \in Arena : ~arena[b].alive
      /\ pc = "idle" /\ UNCHANGED <<pc, batch, held, refused, starved>>
      BY DEF OpenArena, ArenaAlive, roundtrip
<1>4. OneArena' /\ WaitTogether'
      BY <1>2, <1>3, FreshArena
<1> QED
    BY <1>2, <1>3, <1>4 DEF RoundInv, Drains

(* Recycling the arena of a roundtrip.                                     *)
LEMMA RecycleRound ==
    ASSUME LaneInv, PayloadInv, Steps, RoundInv, RecycleArena
    PROVE  RoundInv'
<1> DEFINE a == CurrentArena
<1>1. ArenaAlive /\ pc = "idle" /\ UNCHANGED <<pc, batch, held, refused, starved>>
      BY DEF RecycleArena, roundtrip
<1>2. a \in Arena /\ arena[a].alive
      BY <1>1, TheArena
<1>3. PICK g \in Generation : arena_recycle(a, g)
      BY DEF RecycleArena
<1> HIDE DEF a
<1>4. /\ g > arena[a].gen /\ g \in Nat /\ arena'[a].gen = g
      /\ \A b \in Arena : b # a => arena'[b] = arena[b]
      /\ UNCHANGED <<pending, cursor, watermark, leases, published>>
      BY <1>2, <1>3, Parts, HotBatchAssumption DEF arena_recycle, Generation, ArenaType
<1>5. \A b \in Arena : b # a => ~arena[b].alive
      BY <1>1, <1>2 DEF RoundInv, OneArena
<1>6. OneArena' /\ WaitTogether'
      BY <1>2, <1>4, <1>5, FreshArena
<1> QED
    BY <1>1, <1>4, <1>6 DEF RoundInv, Drains

(* Closing the arena of a binding.                                         *)
LEMMA CloseRound ==
    ASSUME LaneInv, Steps, RoundInv, CloseArena
    PROVE  RoundInv'
<1> DEFINE a == CurrentArena
<1>1. ArenaAlive /\ pc = "idle" /\ UNCHANGED <<pc, batch, held, refused, starved>>
      BY DEF CloseArena, roundtrip
<1>2. a \in Arena /\ arena[a].alive /\ arena_release(a)
      BY <1>1, TheArena DEF CloseArena
<1> HIDE DEF a
<1>3. /\ ~arena'[a].alive /\ \A b \in Arena : b # a => arena'[b] = arena[b]
      /\ UNCHANGED <<pending, cursor, watermark, leases, published>>
      BY <1>2, Parts DEF arena_release, ArenaType
<1>4. \A b \in Arena : ~arena'[b].alive
      BY <1>1, <1>2, <1>3 DEF RoundInv, OneArena
<1>5. \A i \in (cursor + 1)..Len(pending) : pending[i].arena \in Arena
      BY Parts
<1>6. OneArena' /\ WaitTogether'
      BY <1>3, <1>4, <1>5 DEF OneArena, WaitTogether, Current
<1> QED
    BY <1>1, <1>3, <1>6 DEF RoundInv, Drains

(* The batch of a roundtrip is published.                                  *)
LEMMA PublishRound ==
    ASSUME LaneInv, Steps, RoundInv, Publish
    PROVE  RoundInv'
<1> DEFINE a == CurrentArena
           n == Len(pending)
<1>1. /\ ArenaAlive /\ pc = "idle" /\ pc' = "poll" /\ UNCHANGED <<held, refused, starved>>
      BY DEF Publish
<1>2. PICK seqs \in Batch, end \in Size : publish_batch(a, seqs, end) /\ batch' = seqs
      BY DEF Publish
<1>3. a \in Arena /\ arena[a].alive
      BY <1>1, TheArena
<1> HIDE DEF a
<1>4. Len(seqs) \in Nat /\ 1 <= Len(seqs)
      BY BatchLen
<1>5. /\ Len(pending') = n + Len(seqs)
      /\ \A i \in 1..n : pending'[i] = pending[i]
      /\ \A i \in (n + 1)..Len(pending') :
             /\ pending'[i].seq = seqs[i - n]
             /\ pending'[i].arena = a /\ pending'[i].gen = arena[a].gen
      BY <1>2, <1>3, Parts, PublishEffect
<1>6. UNCHANGED <<cursor, arena, leases, watermark>> /\ published' = Max({published, Last(seqs)})
      BY <1>2 DEF publish_batch
<1>7. n \in Nat /\ cursor \in 0..n
      BY Parts
<1>8. \A i \in (n + 1)..Len(pending') : Current(pending'[i])
      BY <1>3, <1>5 DEF Current
<1>9. \A i, j \in (cursor + 1)..Len(pending') :
          i <= j /\ Current(pending'[i]) => Current(pending'[j])
  <2> TAKE i, j \in (cursor + 1)..Len(pending')
  <2>1. CASE n < j
        BY <1>5, <1>7, <1>8, <2>1
  <2>2. CASE ~(n < j) /\ i <= j
    <3>1. i \in (cursor + 1)..n /\ j \in (cursor + 1)..n /\ i \in 1..n /\ j \in 1..n
          BY <1>7, <2>2
    <3>2. pending'[i] = pending[i] /\ pending'[j] = pending[j]
          BY <1>5, <3>1
    <3>3. i <= j /\ Current(pending[i]) => Current(pending[j])
          BY <1>1, <3>1 DEF RoundInv, WaitTogether
    <3> QED
        BY <3>2, <3>3
  <2> QED
      BY <2>1, <2>2
<1>10. OneArena' /\ WaitTogether'
  <2>1. OneArena'
        BY <1>1, <1>6 DEF RoundInv, OneArena
  <2>2. WaitTogether'
        BY <1>6, <1>9 DEF WaitTogether, Current
  <2> QED
      BY <2>1, <2>2
<1>11. DOMAIN leases' = {}
      BY <1>1, <1>6 DEF RoundInv
<1>12. BatchLast'
  <2>1. Len(batch') <= Len(pending') /\ Len(pending') - Len(batch') = n
        BY <1>2, <1>4, <1>5, <1>7
  <2>2. ASSUME NEW k \in 1..Len(seqs) PROVE pending'[n + k].seq = seqs[k]
    <3>1. n + k \in (n + 1)..Len(pending') /\ (n + k) - n = k
          BY <1>4, <1>5, <1>7
    <3> QED
        BY <1>5, <3>1
  <2> QED
      BY <1>2, <2>1, <2>2 DEF BatchLast
<1>13. BatchWaits'
  <2>1. Len(pending') - Len(batch') = n
        BY <1>2, <1>4, <1>5, <1>7
  <2> QED
      BY <1>6, <1>7, <1>8, <2>1 DEF BatchWaits, Current
<1>14. ASSUME refused = 0, starved = 0 PROVE Drains'
  <2>1. pending = <<>> /\ watermark = published
        BY <1>1, <1>14 DEF RoundInv, Drains
  <2>2. Len(pending') = Len(batch')
        BY <1>2, <1>4, <1>5, <2>1
  <2> DEFINE S == {published, Last(seqs)}
  <2>3. Last(seqs) \in 0..MaxSequence
    <3>1. seqs \in Seq(Sequence) /\ Len(seqs) \in 1..Len(seqs)
          BY <1>4, BatchIs
    <3>2. Last(seqs) \in Sequence
          BY <3>1 DEF Last
    <3> QED
        BY <3>2, HotBatchAssumption DEF Sequence
  <2>4. published \in S /\ Last(seqs) \in S /\ S \subseteq 0..MaxSequence /\ MaxSequence \in Nat
        BY <2>3, HotBatchAssumption DEF LaneInv, LaneType
  <2>5. \A y \in S : y = published \/ y = Last(seqs)
        OBVIOUS
  <2>6. published' = Max(S)
        BY <1>6
  <2> HIDE DEF S
  <2>7. Max(S) \in S /\ \A y \in S : y <= Max(S)
        BY <2>4, MaxOf
  <2>8. /\ watermark' <= published' /\ Last(batch') <= published'
        /\ published' = watermark' \/ published' = Last(batch')
        BY <1>2, <1>6, <2>1, <2>4, <2>5, <2>6, <2>7
  <2> QED
      BY <1>1, <2>2, <2>8 DEF Drains
<1> QED
    BY <1>1, <1>10, <1>11, <1>12, <1>13, <1>14 DEF RoundInv

(* With one arena alive, an event that is current and was not polled can   *)
(* be polled from it.                                                      *)
LEMMA CurrentPolls ==
    ASSUME LaneInv, OneArena, NEW a \in Arena, arena[a].alive,
           NEW i \in (cursor + 1)..Len(pending), Current(pending[i])
    PROVE  Pollable(a, pending[i])
<1>1. i \in 1..Len(pending) /\ ~(i <= cursor)
      BY Parts
<1>2. pending[i].arena \in Arena
      BY <1>1, Parts
<1>3. pending[i].arena = a /\ pending[i].gen = arena[a].gen
      BY <1>2 DEF OneArena, Current
<1>4. ~pending[i].polled
      BY <1>1 DEF LaneInv, Marked
<1> QED
    BY <1>3, <1>4 DEF Pollable

(* What a roundtrip's poll finds ready, if it is no more than the batch,   *)
(* is the batch: nothing left behind by an earlier roundtrip is polled.    *)
LEMMA PollsBatch ==
    ASSUME LaneInv, OneArena, WaitTogether, BatchLast, BatchWaits, batch \in Batch,
           NEW a \in Arena, arena[a].alive, Ready(a) \in 1..Len(batch)
    PROVE  Ready(a) = Len(batch) /\ cursor = Len(pending) - Len(batch)
<1>1. Len(pending) \in Nat /\ cursor \in 0..Len(pending)
      BY Parts
<1>2. Len(batch) \in Nat /\ 1 <= Len(batch)
      BY BatchLen
<1>3. Ready(a) \in 0..(Len(pending) - cursor)
      BY Parts, ReadyIs
<1>4. /\ cursor + 1 \in (cursor + 1)..(cursor + Ready(a))
      /\ cursor + 1 \in (cursor + 1)..Len(pending)
      BY <1>1, <1>2, <1>3
<1>5. Pollable(a, pending[cursor + 1])
      BY <1>4, Parts, ReadyIs
<1>6. Current(pending[cursor + 1])
      BY <1>5 DEF Pollable, Current
<1>7. ASSUME NEW i \in (cursor + 1)..Len(pending) PROVE Pollable(a, pending[i])
  <2>1. cursor + 1 <= i
        BY <1>1
  <2>2. Current(pending[i])
        BY <1>4, <1>6, <2>1 DEF WaitTogether
  <2> QED
      BY <2>2, CurrentPolls
<1>8. Len(pending) - cursor \in 0..(Len(pending) - cursor)
      /\ cursor + (Len(pending) - cursor) = Len(pending)
      BY <1>1
<1>9. Len(pending) - cursor <= Ready(a)
      BY <1>7, <1>8, Parts, ReadyIs
<1>10. cursor <= Len(pending) - Len(batch)
      BY DEF BatchWaits
<1> QED
    BY <1>1, <1>2, <1>3, <1>9, <1>10

(* And when the window holds nothing but the batch, it is ready.           *)
LEMMA BatchReady ==
    ASSUME LaneInv, OneArena, BatchWaits, batch \in Batch, Len(pending) = Len(batch),
           NEW a \in Arena, arena[a].alive
    PROVE  Ready(a) \in 1..Len(batch)
<1>1. Len(pending) \in Nat /\ cursor \in 0..Len(pending)
      BY Parts
<1>2. Len(batch) \in Nat /\ 1 <= Len(batch)
      BY BatchLen
<1>3. cursor = 0
      BY <1>1, <1>2 DEF BatchWaits
<1>4. ASSUME NEW i \in (cursor + 1)..Len(pending) PROVE Pollable(a, pending[i])
  <2>1. i \in (Len(pending) - Len(batch) + 1)..Len(pending)
        BY <1>1, <1>2, <1>3
  <2>2. Current(pending[i])
        BY <2>1 DEF BatchWaits
  <2> QED
      BY <2>2, CurrentPolls
<1>5. Len(pending) - cursor \in 0..(Len(pending) - cursor)
      /\ cursor + (Len(pending) - cursor) = Len(pending)
      BY <1>1
<1>6. Len(pending) - cursor <= Ready(a)
      BY <1>4, <1>5, Parts, ReadyIs
<1>7. Ready(a) \in 0..(Len(pending) - cursor)
      BY Parts, ReadyIs
<1> QED
    BY <1>1, <1>2, <1>3, <1>6, <1>7

(* The batch of a roundtrip is polled.                                     *)
LEMMA PollRound ==
    ASSUME LaneInv, Steps, RoundInv, Poll
    PROVE  RoundInv'
<1> DEFINE a == CurrentArena
<1>1. /\ pc = "poll" /\ UNCHANGED <<batch, refused, starved>>
      /\ pc' = IF Ready(a) = Len(batch) THEN "mediate" ELSE "idle"
      /\ Ready(a) \in 1..Len(batch) => poll_batch(a) /\ held' = Min(FreeLeases)
      /\ Ready(a) \notin 1..Len(batch) => UNCHANGED <<lane, held>>
      BY DEF Poll
<1>2. ArenaAlive /\ batch \in Batch
      BY <1>1 DEF Steps
<1>3. a \in Arena /\ arena[a].alive
      BY <1>2, TheArena
<1> HIDE DEF a
<1>4. /\ OneArena /\ WaitTogether /\ DOMAIN leases = {} /\ BatchLast /\ BatchWaits
      /\ refused = 0 /\ starved = 0 => Drains
      BY <1>1 DEF RoundInv
<1>5. Len(pending) \in Nat /\ cursor \in 0..Len(pending) /\ LaneType
      BY Parts
<1>6. Len(batch) \in Nat /\ 1 <= Len(batch)
      BY <1>2, BatchLen
<1>7. CASE Ready(a) \in 1..Len(batch)
  <2>1. poll_batch(a) /\ held' = Min(FreeLeases)
        BY <1>1, <1>7
  <2>2. Ready(a) = Len(batch) /\ cursor = Len(pending) - Len(batch)
        BY <1>2, <1>3, <1>4, <1>7, PollsBatch
  <2>3. pc' = "mediate"
        BY <1>1, <2>2
  <2>4. /\ DOMAIN leases' = {held'} /\ leases'[held'].count = Len(batch)
        /\ Placed(leases'[held'], pending, cursor)
        BY <1>3, <1>4, <2>1, <2>2, PollLane
  <2>5. /\ cursor' = cursor + Ready(a) /\ MarkPolled(Ready(a)) /\ UNCHANGED <<watermark, published>>
        /\ arena' = [arena EXCEPT ![a].inflight = @ + Ready(a)]
        BY <2>1 DEF poll_batch, Lease
  <2>6. Ready(a) \in 0..(Len(pending) - cursor)
        BY <1>5, ReadyIs
  <2>7. /\ Len(pending') = Len(pending)
        /\ \A i \in 1..Len(pending) :
               Same(pending'[i], pending[i]) /\ pending'[i].acked = pending[i].acked
        BY <1>5, <2>5, <2>6, PollEffect
  <2>8. cursor' = Len(pending')
        BY <1>5, <1>6, <2>2, <2>5, <2>7
  <2>9. OneArena'
    <3>1. \A b \in Arena : arena'[b].alive = arena[b].alive
          BY <2>5 DEF LaneInv, LaneType, ArenaType
    <3> QED
        BY <1>4, <3>1 DEF OneArena
  <2>10. WaitTogether'
    <3>1. \A i \in (cursor' + 1)..Len(pending') : FALSE
          BY <1>5, <2>7, <2>8
    <3> QED
        BY <3>1 DEF WaitTogether
  <2>11. BatchLast'
    <3>1. ASSUME NEW k \in 1..Len(batch)
          PROVE  pending'[Len(pending) - Len(batch) + k].seq = batch[k]
      <4>1. Len(pending) - Len(batch) + k \in 1..Len(pending)
            BY <1>4, <1>5, <1>6 DEF BatchLast
      <4> QED
          BY <1>4, <2>7, <4>1 DEF BatchLast, Same
    <3> QED
        BY <1>1, <1>4, <2>7, <3>1 DEF BatchLast
  <2>12. BatchLeased'
    <3> DEFINE l == leases'[held']
               p == Len(pending) - Len(batch)
    <3>1. p \in Nat /\ cursor = p /\ p + l.count = Len(pending) /\ Len(batch) = l.count
          BY <1>5, <1>6, <2>2, <2>4
    <3>2. Placed(l, pending, p)
          BY <2>4, <3>1
    <3> HIDE DEF l, p
    <3>3. /\ p + 1 \in 1..Len(pending) /\ p + l.count \in 1..Len(pending)
          /\ \A i \in (p + 1)..(p + l.count) : i \in 1..Len(pending)
          BY <1>5, <1>6, <3>1
    <3>4. Placed(l, pending', p)
          BY <2>7, <3>2, <3>3 DEF Placed, Same
    <3> QED
        BY <1>1, <2>4, <2>7, <2>8, <3>4 DEF BatchLeased, l, p
  <2>13. ASSUME refused = 0, starved = 0 PROVE Drains'
        BY <1>1, <1>4, <2>3, <2>5, <2>7, <2>13 DEF Drains
  <2> QED
      BY <1>1, <2>3, <2>9, <2>10, <2>11, <2>12, <2>13 DEF RoundInv
<1>8. CASE Ready(a) \notin 1..Len(batch)
  <2>1. UNCHANGED <<pending, cursor, watermark, arena, leases, published>>
        BY <1>1, <1>8 DEF lane
  <2>2. Len(batch) \in 1..Len(batch)
        BY <1>6
  <2>3. pc' = "idle"
        BY <1>1, <1>8, <2>2
  <2>4. ~(refused = 0 /\ starved = 0)
    <3> SUFFICES ASSUME refused = 0, starved = 0 PROVE FALSE
        OBVIOUS
    <3>1. Len(pending) = Len(batch)
          BY <1>1, <1>4 DEF Drains
    <3> QED
        BY <1>2, <1>3, <1>4, <1>8, <3>1, BatchReady
  <2>5. OneArena' /\ WaitTogether' /\ DOMAIN leases' = {}
        BY <1>4, <2>1 DEF OneArena, WaitTogether, Current
  <2> QED
      BY <1>1, <2>3, <2>4, <2>5 DEF RoundInv
<1> QED
    BY <1>7, <1>8

(* The poll of a roundtrip comes back empty.                               *)
LEMMA StarvedRound ==
    ASSUME LaneInv, Steps, RoundInv, PollStarved
    PROVE  RoundInv'
<1>1. /\ pc = "poll" /\ pc' = "idle" /\ UNCHANGED <<pending, cursor, arena, leases>>
      /\ starved' # 0
      BY DEF PollStarved, lane, Steps
<1>2. OneArena /\ WaitTogether /\ DOMAIN leases = {}
      BY <1>1 DEF RoundInv
<1>3. OneArena' /\ WaitTogether' /\ DOMAIN leases' = {}
      BY <1>1, <1>2 DEF OneArena, WaitTogether, Current
<1> QED
    BY <1>1, <1>3 DEF RoundInv

(* Ending the roundtrip's lease, with all of the window accepted or not.   *)
LEMMA EndRound ==
    ASSUME LaneInv, OneArena, BatchLeased, held \in DOMAIN leases, batch_ack(held)
    PROVE  /\ OneArena' /\ WaitTogether' /\ DOMAIN leases' = {}
           /\ UNCHANGED <<watermark, published>>
           /\ (\A i \in 1..Len(pending) : Acknowledges(leases[held], pending[i])) => pending' = <<>>
<1>1. LaneType /\ Len(pending) \in Nat /\ cursor = Len(pending) /\ DOMAIN leases = {held}
      BY Parts DEF BatchLeased
<1>2. DOMAIN leases' = {}
      BY <1>1, AckLane
<1>3. PICK c \in 0..cursor :
          /\ pending' \in Seq(EventType) /\ Len(pending') = Len(pending) - c
          /\ cursor' = cursor - c
          /\ (\A i \in 1..Len(pending) : Acknowledges(leases[held], pending[i])) => c = Len(pending)
      BY <1>1, AckEffect DEF LaneInv
<1>4. \A i \in (cursor' + 1)..Len(pending') : FALSE
      BY <1>1, <1>3
<1>5. WaitTogether'
      BY <1>4 DEF WaitTogether
<1>6. OneArena'
  <2>1. arena' = [arena EXCEPT ![leases[held].arena].inflight = @ - leases[held].count]
        BY DEF batch_ack, EndLease
  <2>2. \A b \in Arena : arena'[b].alive = arena[b].alive
        BY <2>1 DEF LaneInv, LaneType, ArenaType
  <2> QED
      BY <2>2 DEF OneArena
<1>7. UNCHANGED <<watermark, published>>
      BY DEF batch_ack, EndLease
<1>8. ASSUME \A i \in 1..Len(pending) : Acknowledges(leases[held], pending[i])
      PROVE  pending' = <<>>
  <2>1. Len(pending') = 0
        BY <1>1, <1>3, <1>8
  <2> QED
      BY <1>3, <2>1, EmptySeq
<1> QED
    BY <1>2, <1>5, <1>6, <1>7, <1>8

(* The mediation of a roundtrip is refused and its lease goes back.        *)
LEMMA RefusedRound ==
    ASSUME LaneInv, Steps, RoundInv, MediateRefused
    PROVE  RoundInv'
<1>1. pc = "mediate" /\ pc' = "idle" /\ batch_ack(held) /\ refused' # 0 /\ held \in DOMAIN leases
      BY DEF MediateRefused, Steps
<1>2. OneArena /\ BatchLeased
      BY <1>1 DEF RoundInv
<1>3. OneArena' /\ WaitTogether' /\ DOMAIN leases' = {}
      BY <1>1, <1>2, EndRound
<1> QED
    BY <1>1, <1>3 DEF RoundInv

(* The roundtrip's lease covers the batch, and nothing else that is in the *)
(* window.                                                                 *)
LEMMA LeaseCovers ==
    ASSUME LaneInv, BatchLast, BatchLeased, NEW i \in 1..Len(pending)
    PROVE  /\ leases[held].first <= pending[i].seq /\ pending[i].seq <= leases[held].last
                  <=> i \in (Len(pending) - Len(batch) + 1)..Len(pending)
           /\ i \in (Len(pending) - Len(batch) + 1)..Len(pending) =>
                  pending[i].arena = leases[held].arena
<1> DEFINE p == Len(pending) - Len(batch)
<1>1. pending \in Seq(EventType) /\ Sorted(pending) /\ Len(pending) \in Nat /\ LaneType
      BY Parts
<1>2. leases[held] \in LeaseType /\ leases[held].count = Len(batch)
      BY <1>1 DEF LaneType, BatchLeased
<1>3. leases[held].count \in Nat \ {0}
      BY <1>2 DEF LeaseType
<1>4. Len(batch) <= Len(pending) /\ Placed(leases[held], pending, p)
      BY DEF BatchLast, BatchLeased
<1> HIDE DEF p
<1>5. p \in Nat /\ p + leases[held].count = Len(pending)
      BY <1>1, <1>2, <1>3, <1>4 DEF p
<1>6. leases[held].first <= pending[i].seq /\ pending[i].seq <= leases[held].last
          <=> i \in (p + 1)..(p + leases[held].count)
      BY SMTT(30), <1>1, <1>2, <1>4, <1>5, CoversItsOwn
<1>7. i \in (p + 1)..(p + leases[held].count) => pending[i].arena = leases[held].arena
      BY <1>4 DEF Placed
<1> QED
    BY <1>5, <1>6, <1>7 DEF p

(* When the window is the batch, submitting the headers accepts all of it. *)
LEMMA BatchAccepted ==
    ASSUME LaneInv, Steps, OneArena, BatchLast, BatchLeased, Len(pending) = Len(batch),
           pc = "mediate", submit_batch(CurrentArena, Headers), NEW i \in 1..Len(pending)
    PROVE  pending'[i].accepted
<1> DEFINE a == CurrentArena
           l == leases[held]
<1>1. a \in Arena /\ arena[a].alive
      BY TheArena DEF Steps
<1>2. /\ LaneType /\ DOMAIN pending = 1..Len(pending) /\ Len(pending) \in Nat
      /\ cursor = Len(pending) /\ held \in DOMAIN leases
      BY Parts DEF BatchLeased
<1>3. i \in (Len(pending) - Len(batch) + 1)..Len(pending)
      BY <1>2
<1>4. l.first <= pending[i].seq /\ pending[i].seq <= l.last /\ pending[i].arena = l.arena
      BY <1>3, LeaseCovers
<1>5. pending[i].seq \in Headers
      BY <1>2, <1>4 DEF Headers
<1>6. l.arena \in Arena /\ l \in LeaseType
      BY <1>2 DEF LaneType, LeaseType
<1>7. arena[l.arena].alive /\ l.gen = arena[l.arena].gen
  <2>1. held \in LeasesOn(l.arena)
        BY <1>2 DEF LeasesOn
  <2> QED
      BY <1>6, <2>1 DEF LaneInv, LeasesCounted
<1>8. l.arena = a
      BY <1>1, <1>6, <1>7 DEF OneArena
<1>9. pending[i].gen = l.gen
  <2>1. l.count = Len(batch) /\ Placed(l, pending, Len(pending) - Len(batch))
        BY DEF BatchLeased
  <2>2. i \in ((Len(pending) - Len(batch)) + 1)..((Len(pending) - Len(batch)) + l.count)
        BY <1>2, <2>1
  <2> QED
      BY <2>1, <2>2 DEF Placed
<1>10. pending[i].polled
      BY <1>2 DEF LaneInv, Marked
<1>11. pending[i].accepted \/ Acceptable(a, pending[i])
      BY <1>4, <1>7, <1>8, <1>9, <1>10 DEF Acceptable
<1>12. pending[i].accepted \/ i \in Taken(a, Headers)
      BY <1>5, <1>11 DEF Taken
<1>13. submit_batch(a, Headers)
      OBVIOUS
<1> HIDE DEF a
<1> QED
    BY <1>2, <1>12, <1>13, SubmitEffect

(* The batch of a roundtrip is mediated.                                   *)
LEMMA ExecutesRound ==
    ASSUME LaneInv, Steps, RoundInv, MediateExecutes
    PROVE  RoundInv'
<1>1. /\ pc = "mediate" /\ pc' = "ack" /\ submit_batch(CurrentArena, Headers)
      /\ UNCHANGED <<batch, held, refused, starved>>
      BY DEF MediateExecutes
<1>2. UNCHANGED <<cursor, arena, leases, published>>
      BY <1>1 DEF submit_batch
<1>3. OneArena /\ BatchLast /\ BatchLeased /\ (refused = 0 /\ starved = 0 => Drains)
      BY <1>1 DEF RoundInv
<1>4. /\ LaneType /\ Len(pending) \in Nat /\ cursor = Len(pending)
      /\ batch \in Batch /\ Len(batch) <= Len(pending)
      BY <1>1, <1>3, Parts DEF BatchLeased, BatchLast, Steps
<1>5. Len(batch) \in Nat /\ 1 <= Len(batch)
      BY <1>4, BatchLen
<1>6. /\ pending' \in Seq(EventType) /\ Len(pending') = Len(pending)
      /\ \A i \in 1..Len(pending) :
             Same(pending'[i], pending[i]) /\ pending'[i].acked = pending[i].acked
      /\ watermark' = advance_watermark(pending')
      BY <1>1, <1>4, SubmitEffect
<1>7. OneArena' /\ WaitTogether'
  <2>1. OneArena'
        BY <1>2, <1>3 DEF OneArena
  <2>2. \A i \in (cursor' + 1)..Len(pending') : FALSE
        BY <1>2, <1>4, <1>6
  <2> QED
      BY <2>1, <2>2 DEF WaitTogether
<1>8. BatchLast'
  <2>1. ASSUME NEW k \in 1..Len(batch)
        PROVE  pending'[Len(pending) - Len(batch) + k].seq = batch[k]
    <3>1. Len(pending) - Len(batch) + k \in 1..Len(pending)
          BY <1>4, <1>5
    <3> QED
        BY <1>3, <1>6, <3>1 DEF BatchLast, Same
  <2> QED
      BY <1>1, <1>4, <1>6, <2>1 DEF BatchLast
<1>9. BatchLeased'
  <2> DEFINE l == leases[held]
             p == Len(pending) - Len(batch)
  <2>1. p \in Nat /\ l.count = Len(batch) /\ p + l.count = Len(pending) /\ Placed(l, pending, p)
        BY <1>3, <1>4, <1>5 DEF BatchLeased
  <2> HIDE DEF l, p
  <2>2. /\ p + 1 \in 1..Len(pending) /\ p + l.count \in 1..Len(pending)
        /\ \A i \in (p + 1)..(p + l.count) : i \in 1..Len(pending)
        BY <1>4, <1>5, <2>1
  <2>3. Placed(l, pending', p)
        BY <1>6, <2>1, <2>2 DEF Placed, Same
  <2> QED
      BY <1>1, <1>2, <1>3, <1>6, <2>3 DEF BatchLeased, l, p
<1>10. ASSUME refused = 0, starved = 0 PROVE Drains'
  <2>1. /\ Len(pending) = Len(batch) /\ watermark <= published /\ Last(batch) <= published
        /\ published = watermark \/ published = Last(batch)
        BY <1>1, <1>3, <1>10 DEF Drains
  <2>2. \A i \in 1..Len(pending) : pending'[i].accepted
        BY <1>1, <1>3, <2>1, BatchAccepted
  <2>3. \A i \in 1..Len(pending') : pending'[i].accepted
        BY <1>6, <2>2
  <2>4. watermark \in 0..MaxSequence /\ published \in 0..MaxSequence /\ MaxSequence \in Nat
        BY <1>4, HotBatchAssumption DEF LaneType
  <2>5. /\ watermark <= watermark'
        /\ watermark' = watermark \/ \E k \in 1..Len(pending') : watermark' = pending'[k].seq
        /\ \A k \in 1..Len(pending') :
               (\A j \in 1..k : pending'[j].accepted) => pending'[k].seq <= watermark'
        BY <1>6, <2>4, WatermarkIs
  <2> DEFINE n == Len(pending')
  <2>6. n \in 1..n /\ n = Len(batch) /\ n \in Nat /\ \A j \in 1..n : pending'[j].accepted
        BY <1>5, <1>6, <2>1, <2>3
  <2>7. pending'[n].seq = Last(batch)
    <3>1. Len(pending') - Len(batch') + n = n /\ n \in 1..Len(batch')
          BY <1>1, <2>6
    <3>2. pending'[Len(pending') - Len(batch') + n].seq = batch'[n]
          BY <1>8, <3>1 DEF BatchLast
    <3> QED
        BY <1>1, <2>6, <3>1, <3>2 DEF Last
  <2>8. pending'[n].seq <= watermark'
        BY <2>5, <2>6
  <2>9. \A k \in 1..n : pending'[k].seq <= pending'[n].seq
    <3> TAKE k \in 1..n
    <3>1. Sorted(pending')
      <4>1. Sorted(pending)
            BY Parts
      <4> QED
          BY <1>6, <4>1 DEF Sorted, Same
    <3>2. pending'[n] \in EventType
          BY <1>6, <2>6
    <3>3. pending'[n].seq \in Int
          BY <3>2, HotBatchAssumption DEF EventType, Sequence
    <3>4. CASE k = n
          BY <3>3, <3>4
    <3>5. CASE k # n
      <4>1. k < n
            BY <2>6, <3>5
      <4>2. pending'[k].seq < pending'[n].seq
            BY <2>6, <3>1, <4>1 DEF Sorted
      <4>3. pending'[k] \in EventType
            BY <1>6
      <4>4. pending'[k].seq \in Int
            BY <4>3, HotBatchAssumption DEF EventType, Sequence
      <4> QED
          BY <3>3, <4>2, <4>4
    <3> QED
        BY <3>4, <3>5
  <2>10. watermark' <= published
    <3>1. CASE watermark' = watermark
          BY <2>1, <3>1
    <3>2. CASE \E k \in 1..n : watermark' = pending'[k].seq
      <4>1. watermark' <= Last(batch) /\ Last(batch) <= watermark'
            BY <2>7, <2>8, <2>9, <3>2
      <4>2. watermark' = pending'[n].seq \/ watermark' \in Int
        <5>1. PICK k \in 1..n : watermark' = pending'[k].seq
              BY <3>2
        <5>2. pending'[k] \in EventType
              BY <1>6, <5>1
        <5> QED
            BY <5>1, <5>2, HotBatchAssumption DEF EventType, Sequence
      <4>3. pending'[n] \in EventType
            BY <1>6, <2>6
      <4>4. Last(batch) \in Int
            BY <2>7, <4>3, HotBatchAssumption DEF EventType, Sequence
      <4> QED
          BY <2>1, <2>4, <2>7, <4>1, <4>2, <4>4
    <3> QED
        BY <2>5, <3>1, <3>2
  <2>11. published <= watermark'
        BY <2>1, <2>5, <2>7, <2>8
  <2>12. watermark' \in Int
    <3>1. CASE watermark' = watermark
          BY <2>4, <3>1
    <3>2. CASE \E k \in 1..n : watermark' = pending'[k].seq
      <4>1. PICK k \in 1..n : watermark' = pending'[k].seq
            BY <3>2
      <4>2. pending'[k] \in EventType
            BY <1>6, <4>1
      <4> QED
          BY <4>1, <4>2, HotBatchAssumption DEF EventType, Sequence
    <3> QED
        BY <2>5, <3>1, <3>2
  <2>13. watermark' = published
        BY <2>4, <2>10, <2>11, <2>12
  <2> QED
      BY <1>1, <1>2, <1>6, <2>1, <2>3, <2>13 DEF Drains
<1> QED
    BY <1>1, <1>7, <1>8, <1>9, <1>10 DEF RoundInv

(* A roundtrip acknowledges its lease.                                     *)
LEMMA AckRound ==
    ASSUME LaneInv, Steps, RoundInv, Acknowledge
    PROVE  RoundInv'
<1>1. /\ pc = "ack" /\ pc' = "idle" /\ batch_ack(held) /\ held \in DOMAIN leases
      /\ UNCHANGED <<batch, refused, starved>>
      BY DEF Acknowledge, Steps
<1>2. OneArena /\ BatchLast /\ BatchLeased /\ (refused = 0 /\ starved = 0 => Drains)
      BY <1>1 DEF RoundInv
<1>3. /\ OneArena' /\ WaitTogether' /\ DOMAIN leases' = {} /\ UNCHANGED <<watermark, published>>
      /\ (\A i \in 1..Len(pending) : Acknowledges(leases[held], pending[i])) => pending' = <<>>
      BY <1>1, <1>2, EndRound
<1>4. ASSUME refused = 0, starved = 0 PROVE Drains'
  <2>1. /\ Len(pending) = Len(batch) /\ watermark = published
        /\ \A i \in 1..Len(pending) : pending[i].accepted
        BY <1>1, <1>2, <1>4 DEF Drains
  <2>2. ASSUME NEW i \in 1..Len(pending) PROVE Acknowledges(leases[held], pending[i])
    <3>1. i \in (Len(pending) - Len(batch) + 1)..Len(pending)
          BY <2>1, Parts
    <3>2. /\ leases[held].first <= pending[i].seq /\ pending[i].seq <= leases[held].last
          /\ pending[i].arena = leases[held].arena
          BY <1>2, <3>1, LeaseCovers
    <3> QED
        BY <2>1, <3>2 DEF Acknowledges
  <2>3. pending' = <<>>
        BY <1>3, <2>2
  <2> QED
      BY <1>1, <1>3, <2>1, <2>3 DEF Drains
<1> QED
    BY <1>1, <1>3, <1>4 DEF RoundInv

(* At first there is no roundtrip.                                         *)
LEMMA RoundInit == RInit => RoundInv
BY DEF RInit, Init, RoundInv, OneArena, WaitTogether, Drains

(* Every step keeps the invariant of the roundtrips.                       *)
LEMMA RoundStep ==
    ASSUME HostFreshGeneration, LaneInv, PayloadInv, Steps, RoundInv, [RNext]_vars
    PROVE  RoundInv'
<1>1. CASE KernelCall
      BY <1>1 DEF KernelCall, roundtrip, RoundInv
<1>2. CASE UNCHANGED vars
      BY <1>2 DEF vars, lane, roundtrip, RoundInv, OneArena, WaitTogether, Current,
                  BatchLast, BatchWaits, BatchLeased, Placed, Drains
<1> QED
    BY <1>1, <1>2, OpenRound, RecycleRound, CloseRound, PublishRound, PollRound, StarvedRound,
       RefusedRound, ExecutesRound, AckRound DEF RNext

(* What was polled is the batch handed in.                                 *)
LEMMA HeadersAreBatch ==
    ASSUME LaneInv, Steps, BatchLast, BatchLeased, pc \in {"mediate", "ack"}
    PROVE  Headers = {batch[i] : i \in DOMAIN batch}
<1> DEFINE p == Len(pending) - Len(batch)
<1>1. /\ Len(pending) \in Nat /\ DOMAIN pending = 1..Len(pending)
      /\ batch \in Batch /\ Len(batch) <= Len(pending)
      BY Parts DEF Steps, BatchLast
<1>2. DOMAIN batch = 1..Len(batch)
  <2>1. batch \in Seq(Sequence)
        BY <1>1, BatchIs
  <2> QED
      BY <2>1
<1>3. Len(batch) \in Nat /\ 1 <= Len(batch)
      BY <1>1, BatchLen
<1>4. \A i \in 1..Len(pending) :
          leases[held].first <= pending[i].seq /\ pending[i].seq <= leases[held].last
              <=> i \in (p + 1)..Len(pending)
      BY LeaseCovers
<1>5. \A k \in 1..Len(batch) : pending[p + k].seq = batch[k]
      BY DEF BatchLast
<1>6. p \in Nat /\ p + Len(batch) = Len(pending)
      BY <1>1, <1>3
<1> HIDE DEF p
<1>7. \A i \in (p + 1)..Len(pending) : i - p \in 1..Len(batch) /\ p + (i - p) = i
      BY <1>1, <1>3, <1>6
<1>8. \A k \in 1..Len(batch) : p + k \in (p + 1)..Len(pending) /\ p + k \in 1..Len(pending)
      BY <1>1, <1>3, <1>6
<1>9. Headers \subseteq {batch[i] : i \in DOMAIN batch}
  <2> SUFFICES ASSUME NEW i \in 1..Len(pending), leases[held].first <= pending[i].seq,
                      pending[i].seq <= leases[held].last
               PROVE  \E k \in 1..Len(batch) : pending[i].seq = batch[k]
      BY <1>1, <1>2 DEF Headers
  <2>1. i \in (p + 1)..Len(pending)
        BY <1>4
  <2>2. i - p \in 1..Len(batch) /\ p + (i - p) = i
        BY <1>7, <2>1
  <2>3. pending[i].seq = batch[i - p]
        BY <1>5, <2>2
  <2> QED
      BY <2>2, <2>3
<1>10. {batch[i] : i \in DOMAIN batch} \subseteq Headers
  <2> SUFFICES ASSUME NEW k \in 1..Len(batch) PROVE batch[k] \in Headers
      BY <1>2
  <2>1. /\ p + k \in 1..Len(pending)
        /\ leases[held].first <= pending[p + k].seq /\ pending[p + k].seq <= leases[held].last
        BY <1>4, <1>8
  <2>2. pending[p + k].seq = batch[k]
        BY <1>5
  <2>3. p + k \in {j \in DOMAIN pending :
            leases[held].first <= pending[j].seq /\ pending[j].seq <= leases[held].last}
        BY <1>1, <2>1
  <2> QED
      BY <2>2, <2>3 DEF Headers
<1> QED
    BY <1>9, <1>10

(* The invariants give the property of the roundtrips.                     *)
LEMMA RoundWhole == LaneInv /\ Steps /\ RoundInv => RoundtripsWhole
<1> SUFFICES ASSUME LaneInv, Steps, RoundInv PROVE RoundtripsWhole
    OBVIOUS
<1>1. ASSUME pc = "idle" PROVE DOMAIN leases = {} /\ \A a \in Arena : arena[a].inflight = 0
  <2>1. DOMAIN leases = {}
        BY <1>1 DEF RoundInv
  <2>2. \A a \in Arena : LeasesOn(a) = {}
        BY <2>1 DEF LeasesOn
  <2>3. \A a \in Arena : arena[a].inflight = 0
        BY <2>2, NothingUnder DEF LaneInv, LeasesCounted
  <2> QED
      BY <2>1, <2>3
<1>2. ASSUME pc \in {"mediate", "ack"} PROVE Headers = {batch[i] : i \in DOMAIN batch}
  <2>1. BatchLast /\ BatchLeased
        BY <1>2 DEF RoundInv
  <2> QED
      BY <1>2, <2>1, HeadersAreBatch
<1>3. LaneDrained
      BY DEF LaneDrained, RoundInv, Drains
<1> QED
    BY <1>1, <1>2, <1>3 DEF RoundtripsWhole, RoundtripsApart

(* When generations of an arena slot are not used again, no roundtrip      *)
(* leaves a lease behind however it ends, what it mediates is the batch it *)
(* was handed, and as long as none was refused or starved the window is    *)
(* empty between roundtrips.                                               *)
THEOREM RoundtripsKept == ASSUME HostFreshGeneration PROVE RSpec => []RoundtripsWhole
<1>1. PayloadInv /\ LaneInv /\ Steps /\ [RNext]_vars => PayloadInv'
      BY LaneCall, PayloadStep
<1>2. RoundInv /\ PayloadInv /\ LaneInv /\ Steps /\ [RNext]_vars => RoundInv'
      BY RoundStep
<1> QED
    BY HostInit, HostStep, PayloadInit, RoundInit, RoundWhole, <1>1, <1>2, PTL DEF RSpec
=============================================================================
