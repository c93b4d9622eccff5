----------------------------- MODULE Roundtrip -----------------------------
(***************************************************************************)
(* The Python binding's use of the hot lane: one arena at a time, and one  *)
(* synchronous roundtrip that publishes a batch, polls it, mediates it and *)
(* acknowledges it (runtime_v0_shim.c, _native/arena.py).  The steps of a  *)
(* roundtrip are the kernel's calls; each may fail, and the error path of  *)
(* each is the one the shim takes.                                         *)
(***************************************************************************)
EXTENDS HotBatch

VARIABLES
    pc,       \* the next kernel call of the roundtrip; "free" for a host without the binding
    batch,    \* the sequence numbers of the events handed in
    held,     \* the lease this roundtrip holds, 0 for none
    refused,  \* ghost: roundtrips whose mediation was refused
    starved   \* ghost: roundtrips whose poll found no free resource

roundtrip == <<pc, batch, held, refused, starved>>
vars == <<lane, roundtrip>>

(* The binding registers one arena; slot reuse is the kernel's business.   *)
CurrentArena == CHOOSE a \in Arena : arena[a].alive
ArenaAlive == \E a \in Arena : arena[a].alive

(* NativeArena(), recycle() and close(), between roundtrips.               *)
OpenArena ==
    /\ pc = "idle" /\ ~ArenaAlive
    /\ \E a \in Arena, g \in Generation, c \in Size : arena_register(a, g, c)
    /\ UNCHANGED roundtrip

RecycleArena ==
    /\ pc = "idle" /\ ArenaAlive
    /\ \E g \in Generation : arena_recycle(CurrentArena, g)
    /\ UNCHANGED roundtrip

CloseArena ==
    /\ pc = "idle" /\ ArenaAlive
    /\ arena_release(CurrentArena)
    /\ UNCHANGED roundtrip

(* A refused publication ends the roundtrip with nothing changed.          *)
Publish ==
    /\ pc = "idle" /\ ArenaAlive
    /\ \E seqs \in Batch, end \in Size :
           publish_batch(CurrentArena, seqs, end) /\ batch' = seqs
    /\ pc' = "poll"
    /\ UNCHANGED <<held, refused, starved>>

(* header_capacity is event_count: when more than the batch is ready the   *)
(* poll produces nothing, and a produced count other than event_count ends *)
(* the roundtrip without an acknowledgement.                               *)
Poll ==
    /\ pc = "poll"
    /\ IF Ready(CurrentArena) \in 1..Len(batch)
       THEN poll_batch(CurrentArena) /\ held' = Min(FreeLeases)
       ELSE UNCHANGED <<lane, held>>
    /\ pc' = IF Ready(CurrentArena) = Len(batch) THEN "mediate" ELSE "idle"
    /\ UNCHANGED <<batch, refused, starved>>

(* allocate_resource finds no free slot for the lease.                     *)
PollStarved ==
    /\ pc = "poll"
    /\ Ready(CurrentArena) \in 1..Len(batch)
    /\ pc' = "idle"
    /\ starved' = starved + 1
    /\ UNCHANGED <<lane, batch, held, refused>>

(* The poll wrote the headers it produced over the ones handed in.         *)
Headers ==
    {pending[i].seq : i \in {j \in DOMAIN pending :
        leases[held].first <= pending[j].seq /\ pending[j].seq <= leases[held].last}}

(* strict_mediate refuses before the adapter runs, for its own reasons or  *)
(* the journal's: the shim acknowledges the lease and reports the refusal. *)
MediateRefused ==
    /\ pc = "mediate"
    /\ batch_ack(held)
    /\ pc' = "idle"
    /\ refused' = refused + 1
    /\ held' = 0
    /\ UNCHANGED <<batch, starved>>

(* The adapter submits the polled headers from inside strict_mediate, which *)
(* wants them consecutive.                                                 *)
MediateExecutes ==
    /\ pc = "mediate"
    /\ leases[held].last - leases[held].first = leases[held].count - 1
    /\ submit_batch(CurrentArena, Headers)
    /\ pc' = "ack"
    /\ UNCHANGED <<batch, held, refused, starved>>

Acknowledge ==
    /\ pc = "ack"
    /\ batch_ack(held)
    /\ pc' = "idle"
    /\ held' = 0
    /\ UNCHANGED <<batch, refused, starved>>

(* A host that calls the kernel itself, in any order.                      *)
KernelCall == pc = "free" /\ Next /\ UNCHANGED roundtrip

RInit == Init /\ pc \in {"idle", "free"} /\ batch = <<>> /\ held = 0 /\ refused = 0 /\ starved = 0

RNext ==
    \/ KernelCall
    \/ OpenArena \/ RecycleArena \/ CloseArena
    \/ Publish \/ Poll \/ PollStarved
    \/ MediateRefused \/ MediateExecutes \/ Acknowledge

RSpec == RInit /\ [][RNext]_vars

-----------------------------------------------------------------------------
(* Properties. *)

(* No roundtrip, however it ends, leaves a lease behind, so the arena can  *)
(* be recycled or closed between any two of them; and what a roundtrip     *)
(* mediates is the batch it was handed, not an event that an earlier one   *)
(* left behind.                                                            *)
RoundtripsApart ==
    /\ pc = "idle" => DOMAIN leases = {} /\ \A a \in Arena : arena[a].inflight = 0
    /\ pc \in {"mediate", "ack"} => Headers = {batch[i] : i \in DOMAIN batch}

(* As long as no mediation was refused and no poll was starved, the window *)
(* is empty between roundtrips and the watermark stands at the last event  *)
(* published: the lane never fills up by being used.                       *)
LaneDrained ==
    pc = "idle" /\ refused = 0 /\ starved = 0 => pending = <<>> /\ watermark = published

(* A roundtrip leaves nothing behind for the next one.                     *)
RoundtripsWhole == RoundtripsApart /\ LaneDrained

=============================================================================
