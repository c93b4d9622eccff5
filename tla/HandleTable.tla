----------------------------- MODULE HandleTable -----------------------------
(***************************************************************************)
(* The resource table of the C kernel (runtime_v0.c): instances, profiles, *)
(* bundles, sessions, byte buffers, arenas and leases live in one array of *)
(* slots and are named by handles <<instance, slot, generation, kind>>.    *)
(* The host may call any operation, in any order, with any handle it was   *)
(* ever given; a call that returns an error changes nothing.  What happens *)
(* inside a session's event window is the module HotBatch's business: here *)
(* a poll grants a lease on some events and an ack ends it.                *)
(***************************************************************************)
EXTENDS Integers, FiniteSets, FiniteSetsExt

CONSTANTS
    MaxResources,    \* MAX_RESOURCES
    GenerationLimit, \* 2^32: generations are unsigned and skip zero
    Identity,        \* bundle identities: digest and epoch
    MaxInstances,    \* bound on instances created
    MaxAllocations   \* bound on allocations

ASSUME HandleAssumption ==
    /\ MaxResources \in Nat \ {0} /\ GenerationLimit \in Nat \ {0, 1}
    /\ MaxInstances \in Nat /\ MaxAllocations \in Nat

VARIABLES
    table,    \* resources[]
    next_id,  \* next_instance_id
    issued,   \* ghost: every handle the host was given (born: which use of the slot)
    packets,  \* checkpoint packets the host has stored
    count     \* ghost: allocations so far

vars == <<table, next_id, issued, packets, count>>

Slot == 1..MaxResources

Row(kind, gen, inst, born) ==
    [alive |-> TRUE, kind |-> kind, gen |-> gen, inst |-> inst, born |-> born,
     parent |-> 0, state |-> "none", outstanding |-> 0, inflight |-> 0,
     ident |-> {}, owner |-> 0]

(* A slot that was never used, or whose resource was released: only its    *)
(* generation is looked at again.                                          *)
Dead(gen, born) ==
    [Row("none", gen, 0, born) EXCEPT !.alive = FALSE]

-----------------------------------------------------------------------------
(* Handles. *)

(* The kind is the handle's own: the row's kind is not compared.           *)
Resolves(h, kind) ==
    /\ h.kind = kind
    /\ table[h.slot].gen = h.gen
    /\ table[h.slot].alive
    /\ table[h.slot].inst = h.inst

(* Fault: the memset clears the generation. *)
next_generation_cleared(g) == 1

next_generation(g) == IF (g + 1) % GenerationLimit = 0 THEN 1 ELSE (g + 1) % GenerationLimit

FreeSlots == {s \in Slot : ~table[s].alive}

(* allocate_resource: the first slot that is not alive.                    *)
FreeSlot == Min(FreeSlots)

NewRow(kind, inst) ==
    Row(kind, next_generation(table[FreeSlot].gen), inst, table[FreeSlot].born + 1)

HandleOf(s, row) ==
    [slot |-> s, gen |-> row.gen, kind |-> row.kind, inst |-> row.inst, born |-> row.born]

Allocation ==
    /\ FreeSlots # {}
    /\ count < MaxAllocations
    /\ count' = count + 1

(* row is the new row, with what its operation stores in it.               *)
allocate_resource(row) ==
    /\ Allocation
    /\ table' = [table EXCEPT ![FreeSlot] = row]
    /\ issued' = issued \cup {HandleOf(FreeSlot, row)}

release_resource(s) ==
    /\ table' = [table EXCEPT ![s] = Dead(table[s].gen, table[s].born)]
    /\ UNCHANGED <<next_id, issued, packets, count>>

-----------------------------------------------------------------------------
(* Instances and profiles. *)

(* The identity is used up even when the table is full.                    *)
instance_create ==
    /\ next_id <= MaxInstances
    /\ next_id' = next_id + 1
    /\ IF FreeSlots # {}
       THEN allocate_resource(NewRow("instance", next_id))
       ELSE UNCHANGED <<table, issued, count>>
    /\ UNCHANGED packets

instance_release(h) ==
    /\ Resolves(h, "instance")
    /\ ~ \E s \in Slot : table[s].alive /\ table[s].inst = h.inst /\ table[s].kind # "instance"
    /\ release_resource(h.slot)

negotiate(h) ==
    /\ Resolves(h, "instance")
    /\ allocate_resource(NewRow("profile", h.inst))
    /\ UNCHANGED <<next_id, packets>>

(* A bundle keeps a copy of what it needs of its profile.                  *)
profile_release(h) ==
    /\ Resolves(h, "profile")
    /\ release_resource(h.slot)

-----------------------------------------------------------------------------
(* Bundles and sessions. *)

bundle_open(p, ident) ==
    /\ Resolves(p, "profile")
    /\ allocate_resource(
           [NewRow("bundle", p.inst) EXCEPT !.parent = p.slot, !.ident = {ident}])
    /\ UNCHANGED <<next_id, packets>>

(* Fault: sessions of the bundle are not looked for. *)
bundle_release_unchecked(h) ==
    /\ Resolves(h, "bundle")
    /\ release_resource(h.slot)

bundle_release(h) ==
    /\ Resolves(h, "bundle")
    /\ ~ \E s \in Slot : table[s].alive /\ table[s].kind = "session" /\ table[s].parent = h.slot
    /\ release_resource(h.slot)

session_open(b, work) ==
    /\ Resolves(b, "bundle")
    /\ allocate_resource(
           [NewRow("session", b.inst) EXCEPT !.parent = b.slot, !.state = "open",
                                          !.outstanding = work, !.ident = table[b.slot].ident])
    /\ UNCHANGED <<next_id, packets>>

(* calloc of the event window fails, here or in session_restore: the slot  *)
(* is given back with its generation used up.                              *)
session_open_fails(b) ==
    /\ Resolves(b, "bundle")
    /\ Allocation
    /\ table' = [table EXCEPT ![FreeSlot] = Dead(next_generation(@.gen), @.born + 1)]
    /\ UNCHANGED <<next_id, issued, packets>>

session_cancel(h) ==
    /\ Resolves(h, "session")
    /\ table[h.slot].state # "closed"
    /\ table' = [table EXCEPT ![h.slot].state = "cancelled"]
    /\ UNCHANGED <<next_id, issued, packets, count>>

session_close(h, disposed) ==
    /\ Resolves(h, "session")
    /\ table[h.slot].state # "closed"
    /\ table[h.slot].outstanding # 0 => disposed
    /\ table' = [table EXCEPT ![h.slot].state = "closed", ![h.slot].outstanding = 0]
    /\ UNCHANGED <<next_id, issued, packets, count>>

(* Neither leases nor published events are looked for.                     *)
session_release(h) ==
    /\ Resolves(h, "session")
    /\ table[h.slot].state = "closed"
    /\ release_resource(h.slot)

(* The packet: bundle identity and lifecycle state, under a checksum.  The *)
(* sequence is the event lane's; the outstanding work is not part of it.   *)
session_checkpoint(h) ==
    /\ Resolves(h, "session")
    /\ packets' = packets \cup {[ident |-> table[h.slot].ident, state |-> table[h.slot].state]}
    /\ allocate_resource(NewRow("bytes", h.inst))
    /\ UNCHANGED next_id

(* A new session; a closed one comes back open, a cancelled one cancelled. *)
session_restore(b, packet) ==
    /\ Resolves(b, "bundle")
    /\ packet.ident = table[b.slot].ident
    /\ allocate_resource(
           [NewRow("session", b.inst) EXCEPT !.parent = b.slot, !.ident = packet.ident,
                                          !.state = IF packet.state = "closed" THEN "open" ELSE packet.state])
    /\ UNCHANGED <<next_id, packets>>

(* error_message: bytes the instance owns. *)
error_message(h) ==
    /\ Resolves(h, "instance")
    /\ allocate_resource(NewRow("bytes", h.inst))
    /\ UNCHANGED <<next_id, packets>>

owned_bytes_release(h) ==
    /\ Resolves(h, "bytes")
    /\ release_resource(h.slot)

-----------------------------------------------------------------------------
(* Arenas and leases. *)

arena_register(h) ==
    /\ Resolves(h, "instance")
    /\ allocate_resource(NewRow("arena", h.inst))
    /\ UNCHANGED <<next_id, packets>>

arena_release(h) ==
    /\ Resolves(h, "arena")
    /\ table[h.slot].inflight = 0
    /\ release_resource(h.slot)

(* A poll of a session, in any state, that produces one event.             *)
poll_batch(h, a) ==
    /\ Resolves(h, "session") /\ Resolves(a, "arena") /\ h.inst = a.inst
    /\ Allocation
    /\ table' = [table EXCEPT
           ![FreeSlot] = [NewRow("lease", h.inst) EXCEPT
                             !.parent = a.slot, !.outstanding = h.slot,
                             !.owner = table[h.slot].born],
           ![a.slot].inflight = @ + 1]
    /\ issued' = issued \cup {HandleOf(FreeSlot, NewRow("lease", h.inst))}
    /\ UNCHANGED <<next_id, packets>>

(* The lease names its session and its arena by slot alone.                *)
batch_ack(h, l) ==
    /\ Resolves(h, "session") /\ Resolves(l, "lease") /\ h.inst = l.inst
    /\ table[l.slot].outstanding = h.slot
    /\ LET a == table[l.slot].parent
       IN  /\ table[a].alive /\ table[a].kind = "arena" /\ table[a].inflight >= 1
           /\ table' = [table EXCEPT ![a].inflight = @ - 1,
                                     ![l.slot] = Dead(table[l.slot].gen, table[l.slot].born)]
    /\ UNCHANGED <<next_id, issued, packets, count>>

-----------------------------------------------------------------------------
Init ==
    /\ table = [s \in Slot |-> Dead(0, 0)]
    /\ next_id = 1
    /\ issued = {}
    /\ packets = {}
    /\ count = 0

Next ==
    \/ instance_create
    \/ \E h \in issued :
           \/ instance_release(h) \/ negotiate(h) \/ profile_release(h)
           \/ bundle_release(h)
           \/ session_open_fails(h) \/ session_cancel(h) \/ session_release(h)
           \/ session_checkpoint(h)
           \/ error_message(h) \/ owned_bytes_release(h)
           \/ arena_register(h) \/ arena_release(h)
    \/ \E h \in issued, ident \in Identity : bundle_open(h, ident)
    \/ \E h \in issued, work \in 0..1 : session_open(h, work)
    \/ \E h \in issued, disposed \in BOOLEAN : session_close(h, disposed)
    \/ \E h \in issued, packet \in packets : session_restore(h, packet)
    \/ \E h, g \in issued : poll_batch(h, g) \/ batch_ack(h, g)

Spec == Init /\ [][Next]_vars

-----------------------------------------------------------------------------
(* Properties. *)

(* Rows and handles keep their shape; the generation zero, which a slot    *)
(* that was never used has, is never given out.                            *)
TypeOK ==
    /\ \A s \in Slot :
           /\ table[s].gen \in 0..(GenerationLimit - 1)
           /\ table[s].alive => table[s].gen # 0
           /\ table[s].inflight \in Nat
    /\ \A h \in issued : h.slot \in Slot /\ h.gen \in 1..(GenerationLimit - 1)
    /\ count \in 0..MaxAllocations

(* A handle that resolves names the resource it was given out for, however *)
(* often its slot was released and reused, unless the generation went all  *)
(* the way round.                                                          *)
HandlesFresh ==
    \A h \in issued :
        Resolves(h, h.kind) =>
            table[h.slot].born = h.born \/ table[h.slot].born - h.born >= GenerationLimit - 1

(* No slot was used so often that its generations came round.              *)
NoWrap == \A s \in Slot : table[s].born < GenerationLimit

Living == {s \in Slot : table[s].alive}

(* Every resource belongs to a live instance: no order of releases leaves  *)
(* one behind, and no two live instances share an identity.                *)
OwnersAlive ==
    \A s \in Living :
        Cardinality({i \in Living : table[i].kind = "instance" /\ table[i].inst = table[s].inst}) = 1

(* A session is bound to one live bundle, of its own instance and with the *)
(* identity it was opened or checkpointed under, until it is released.     *)
SessionBound ==
    \A s \in Living :
        table[s].kind = "session" =>
            LET b == table[table[s].parent]
            IN  b.alive /\ b.kind = "bundle" /\ b.inst = table[s].inst /\ b.ident = table[s].ident

LeasesOn(a) == {l \in Living : table[l].kind = "lease" /\ table[l].parent = a}

(* The arena of a lease stays registered until the lease is acknowledged,  *)
(* also when the session it was polled for is gone.                        *)
ArenaPinned ==
    /\ \A l \in Living : table[l].kind = "lease" =>
           table[table[l].parent].alive /\ table[table[l].parent].kind = "arena"
    /\ \A a \in Living : table[a].kind = "arena" => table[a].inflight = Cardinality(LeasesOn(a))

(* No order of registering, releasing, closing and restoring leaves a row  *)
(* whose owner, bundle or arena is gone or has become something else,      *)
(* until a generation comes round: then an old handle may resolve to what  *)
(* is another kind of resource by now, and release it.                     *)
TableIntact == TypeOK /\ (NoWrap => OwnersAlive /\ SessionBound /\ ArenaPinned)

(* A lease is acknowledged through the session it was granted to: a later  *)
(* session in the same slot is not taken for it.                           *)
AckBySameSession ==
    [][\A l \in Slot :
           table[l].alive /\ table[l].kind = "lease" /\ ~table'[l].alive =>
               table[table[l].outstanding].born = table[l].owner]_vars
=============================================================================
