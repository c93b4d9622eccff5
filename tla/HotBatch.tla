------------------------------ MODULE HotBatch ------------------------------
(***************************************************************************)
(* The hot lane of one session in the C kernel (runtime_v0.c): events are  *)
(* published against an arena, polled under a lease, submitted, and        *)
(* acknowledged.  The lane is session-thread-affine, so each call is one   *)
(* action; the caller may make the calls in any order.  A call that        *)
(* returns an error, or polls nothing, changes nothing.                    *)
(***************************************************************************)
EXTENDS Integers, Sequences, FiniteSets, FiniteSetsExt

CONSTANTS
    Arena,               \* slots of the resource table that hold arenas
    Capacity,            \* MAX_PENDING_EVENTS
    MaxLeases,           \* slots of the resource table left for leases
    MaxSequence,         \* bound on event sequence numbers
    MaxGeneration,       \* bound on arena generations
    Size,                \* arena capacities, and ends of payload slices
    HostMonotone,        \* the host never publishes a sequence number again
    HostFreshGeneration  \* the host registers an arena with a new generation

ASSUME HotBatchAssumption ==
    /\ Capacity \in Nat /\ MaxLeases \in Nat
    /\ MaxSequence \in Nat /\ MaxGeneration \in Nat /\ Size \subseteq Nat
    /\ HostMonotone \in BOOLEAN /\ HostFreshGeneration \in BOOLEAN

VARIABLES
    pending,    \* pending[0 .. pending_count), in publication order
    cursor,     \* poll_cursor
    watermark,  \* session sequence: accepted_watermark
    arena,      \* per slot: alive, arena_generation, arena_capacity, inflight_count
    leases,     \* live leases by resource slot
    published,  \* ghost: highest sequence published
    accepts     \* ghost: how often a sequence was accepted

lane == <<pending, cursor, watermark, arena, leases, published, accepts>>

Sequence == 1..MaxSequence
Generation == 1..MaxGeneration

Last(s) == s[Len(s)]
Increasing(s) == \A i \in 1..(Len(s) - 1) : s[i] < s[i + 1]

-----------------------------------------------------------------------------
(* Arenas. *)

(* The slot is reused; the generation is whatever the descriptor says.     *)
arena_register(a, generation, capacity) ==
    /\ ~arena[a].alive
    /\ HostFreshGeneration => generation > arena[a].gen
    /\ arena' = [arena EXCEPT ![a] =
           [alive |-> TRUE, gen |-> generation, cap |-> capacity, inflight |-> 0]]
    /\ UNCHANGED <<pending, cursor, watermark, leases, published, accepts>>

arena_release(a) ==
    /\ arena[a].alive
    /\ arena[a].inflight = 0
    /\ arena' = [arena EXCEPT ![a].alive = FALSE, ![a].cap = 0]
    /\ UNCHANGED <<pending, cursor, watermark, leases, published, accepts>>

arena_recycle(a, next) ==
    /\ arena[a].alive
    /\ next > arena[a].gen
    /\ arena[a].inflight = 0
    /\ arena' = [arena EXCEPT ![a].gen = next]
    /\ UNCHANGED <<pending, cursor, watermark, leases, published, accepts>>

-----------------------------------------------------------------------------
(* The batch calls. *)

Event(a, seq, end) ==
    [seq |-> seq, arena |-> a, gen |-> arena[a].gen, end |-> end,
     polled |-> FALSE, accepted |-> FALSE, acked |-> FALSE]

(* The new sequence numbers are compared with what is still pending only.  *)
publish_accepts(a, seqs, end) ==
    /\ arena[a].alive
    /\ Len(seqs) <= Capacity - Len(pending)
    /\ end <= arena[a].cap
    /\ Increasing(seqs)
    /\ pending # <<>> => seqs[1] > Last(pending).seq

publish_batch(a, seqs, end) ==
    /\ publish_accepts(a, seqs, end)
    /\ HostMonotone => seqs[1] > published
    /\ pending' = pending \o [i \in DOMAIN seqs |-> Event(a, seqs[i], end)]
    /\ published' = Max({published, Last(seqs)})
    /\ UNCHANGED <<cursor, watermark, arena, leases, accepts>>

Pollable(a, e) == ~e.polled /\ e.arena = a /\ e.gen = arena[a].gen

(* The run of pollable events that starts at the cursor.                   *)
Ready(a) ==
    Max({n \in 0..(Len(pending) - cursor) :
            \A i \in (cursor + 1)..(cursor + n) : Pollable(a, pending[i])})

(* allocate_resource takes the first free slot.                            *)
FreeLeases == (1..MaxLeases) \ DOMAIN leases

(* Grant a lease on the n events behind the cursor.                        *)
Lease(a, n) ==
    /\ arena[a].alive /\ n > 0 /\ FreeLeases # {}
    /\ leases' = [l \in DOMAIN leases \cup {Min(FreeLeases)} |->
           IF l \in DOMAIN leases THEN leases[l]
           ELSE [arena |-> a, gen |-> arena[a].gen, count |-> n,
                 first |-> pending[cursor + 1].seq, last |-> pending[cursor + n].seq]]
    /\ arena' = [arena EXCEPT ![a].inflight = @ + n]

MarkPolled(n) ==
    pending' = [i \in DOMAIN pending |->
        IF i \in (cursor + 1)..(cursor + n)
        THEN [pending[i] EXCEPT !.polled = TRUE] ELSE pending[i]]

(* Fault: nothing is marked as polled. *)
poll_batch_unmarked(a) ==
    /\ Lease(a, Ready(a))
    /\ UNCHANGED <<pending, cursor, watermark, published, accepts>>

(* All that is ready, or nothing when the caller's header capacity is less. *)
poll_batch(a) ==
    /\ Lease(a, Ready(a))
    /\ MarkPolled(Ready(a))
    /\ cursor' = cursor + Ready(a)
    /\ UNCHANGED <<watermark, published, accepts>>

Acceptable(a, e) == e.polled /\ e.arena = a /\ e.gen = arena[a].gen /\ ~e.accepted

AcceptedPrefix(window) ==
    {i \in DOMAIN window : \A j \in 1..i : window[j].accepted}

(* Fault: the highest accepted event, contiguous or not. *)
advance_watermark_highest(window) ==
    Max({watermark} \cup {window[i].seq : i \in {j \in DOMAIN window : window[j].accepted}})

advance_watermark(window) ==
    Max({watermark} \cup {window[i].seq : i \in AcceptedPrefix(window)})

(* The headers name any increasing sequence numbers; each item is judged   *)
(* by itself and the others are rejected.  No lease is asked for.          *)
submit_batch(a, seqs) ==
    /\ arena[a].alive
    /\ LET taken == {i \in DOMAIN pending : pending[i].seq \in seqs /\ Acceptable(a, pending[i])}
           window == [i \in DOMAIN pending |->
                         IF i \in taken THEN [pending[i] EXCEPT !.accepted = TRUE] ELSE pending[i]]
       IN  /\ pending' = window
           /\ watermark' = advance_watermark(window)
           /\ accepts' = [s \in Sequence |->
                  IF \E i \in taken : pending[i].seq = s THEN accepts[s] + 1 ELSE accepts[s]]
    /\ UNCHANGED <<cursor, arena, leases, published>>

(* Fault: everything the lease covers is acknowledged, accepted or not. *)
Acknowledges_all(l, e) ==
    e.arena = l.arena /\ l.first <= e.seq /\ e.seq <= l.last

(* Fault: the last event of the lease is left out of the range. *)
Acknowledges_but_last(l, e) ==
    e.accepted /\ e.arena = l.arena /\ l.first <= e.seq /\ e.seq < l.last

Acknowledges(l, e) ==
    e.accepted /\ e.arena = l.arena /\ l.first <= e.seq /\ e.seq <= l.last

(* The window after a lease's events are acknowledged, and its head run    *)
(* that is done with.                                                      *)
Acknowledged(l) ==
    [i \in DOMAIN pending |->
        IF Acknowledges(l, pending[i]) THEN [pending[i] EXCEPT !.acked = TRUE] ELSE pending[i]]

Consumed(window) == Max({n \in 0..Len(window) : \A i \in 1..n : window[i].acked})

EndLease(id, window) ==
    LET l == leases[id]
    IN  /\ arena[l.arena].alive
        /\ arena[l.arena].inflight >= l.count
        /\ arena' = [arena EXCEPT ![l.arena].inflight = @ - l.count]
        /\ pending' = SubSeq(window, Consumed(window) + 1, Len(window))
        /\ leases' = [i \in DOMAIN leases \ {id} |-> leases[i]]
        /\ UNCHANGED <<watermark, published, accepts>>

batch_ack(id) ==
    LET window == Acknowledged(leases[id])
    IN  /\ EndLease(id, window)
        /\ cursor' = IF cursor >= Consumed(window) THEN cursor - Consumed(window) ELSE 0

-----------------------------------------------------------------------------
Init ==
    /\ pending = <<>>
    /\ cursor = 0
    /\ watermark = 0
    /\ arena = [a \in Arena |-> [alive |-> FALSE, gen |-> 0, cap |-> 0, inflight |-> 0]]
    /\ leases = [l \in {} |-> l]
    /\ published = 0
    /\ accepts = [s \in Sequence |-> 0]

(* Batches of one or two events.                                           *)
Batch == {<<s>> : s \in Sequence} \cup {<<s, t>> : s, t \in Sequence}

Next ==
    \/ \E a \in Arena, g \in Generation, c \in Size : arena_register(a, g, c)
    \/ \E a \in Arena : arena_release(a)
    \/ \E a \in Arena, g \in Generation : arena_recycle(a, g)
    \/ \E a \in Arena, seqs \in Batch, end \in Size : publish_batch(a, seqs, end)
    \/ \E a \in Arena : poll_batch(a)
    \/ \E a \in Arena, seqs \in SUBSET Sequence : submit_batch(a, seqs)
    \/ \E id \in DOMAIN leases : batch_ack(id)

Spec == Init /\ [][Next]_lane

-----------------------------------------------------------------------------
(* Properties. *)

(* The window, the arenas and the leases keep their shape and limits.      *)
TypeOK ==
    /\ Len(pending) <= Capacity
    /\ cursor \in 0..Len(pending)
    /\ watermark \in 0..MaxSequence
    /\ \A a \in Arena : arena[a].inflight \in Nat /\ arena[a].gen \in 0..MaxGeneration
    /\ DOMAIN leases \subseteq 1..MaxLeases

(* What the binary search and the poll cursor rely on: sequence numbers    *)
(* strictly increase, exactly what lies before the cursor was polled, only *)
(* a polled event is accepted and only an accepted one acknowledged.       *)
WindowOrdered ==
    /\ \A i \in 1..(Len(pending) - 1) : pending[i].seq < pending[i + 1].seq
    /\ \A i \in DOMAIN pending : pending[i].polled <=> i <= cursor
    /\ \A i \in DOMAIN pending :
           (pending[i].acked => pending[i].accepted) /\ (pending[i].accepted => pending[i].polled)

LeasesOn(a) == {l \in DOMAIN leases : leases[l].arena = a}

(* The events under the leases on an arena, as places in a lease.          *)
UnderLease(a) == UNION {{l} \X (1..leases[l].count) : l \in LeasesOn(a)}

(* inflight_count is the number of events under a lease, so an arena is    *)
(* recycled or released only when no lease on it remains: a live lease     *)
(* always names the active generation of a live arena.                     *)
LeasesCounted ==
    \A a \in Arena :
        /\ arena[a].inflight = Cardinality(UnderLease(a))
        /\ \A l \in LeasesOn(a) : arena[a].alive /\ leases[l].gen = arena[a].gen

(* Two leases never cover the same event, so acknowledging one never       *)
(* acknowledges what is being executed under the other.                    *)
LeasesDisjoint ==
    \A l, m \in DOMAIN leases :
        l # m /\ leases[l].arena = leases[m].arena =>
            leases[l].last < leases[m].first \/ leases[m].last < leases[l].first

(* An accepted attempt is recorded once, however often it is resubmitted.  *)
AcceptedOnce == \A s \in Sequence : accepts[s] <= 1

(* Nothing published at or below the accepted watermark is still waiting   *)
(* to be accepted: the watermark is the highest contiguous accepted        *)
(* sequence.                                                               *)
WatermarkContiguous ==
    \A i \in DOMAIN pending : pending[i].seq <= watermark => pending[i].accepted

(* What the host is told of acceptance is exact: each attempt is recorded  *)
(* once, and the watermark passes over nothing that waits.                 *)
AcceptanceExact == AcceptedOnce /\ WatermarkContiguous

(* An event leaves the window only after it was accepted, whatever calls   *)
(* compact the window and whatever leases are open on it.                  *)
NothingDropped ==
    [][\A i \in DOMAIN pending :
           pending[i].accepted \/ \E j \in DOMAIN pending' : pending'[j].seq = pending[i].seq]_lane

(* The payload of an event that is being executed under a lease lies       *)
(* within the arena the lease is on.                                       *)
PayloadInBounds ==
    \A l \in DOMAIN leases : \A i \in DOMAIN pending :
        LET e == pending[i]
        IN  e.arena = leases[l].arena /\ leases[l].first <= e.seq /\ e.seq <= leases[l].last
                => e.end <= arena[e.arena].cap

(* What the calls of the lane rely on, in whatever order they are made:    *)
(* the window is ordered and its marks agree with the cursor, leases are   *)
(* counted, name the live generation of their arena and share no event,    *)
(* and what runs under a lease lies within the arena.                      *)
LaneIntact == TypeOK /\ WindowOrdered /\ LeasesCounted /\ LeasesDisjoint /\ PayloadInBounds
=============================================================================
