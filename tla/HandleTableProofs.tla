-------------------------- MODULE HandleTableProofs --------------------------
(***************************************************************************)
(* The resource table of the C kernel, for any number of slots, any limit  *)
(* of the generations and any order of calls: handles are fresh, and until *)
(* a generation comes round the table stays intact.                        *)
(***************************************************************************)
EXTENDS HandleTable, FiniteSetTheorems, WellFoundedInduction, TLAPS

-----------------------------------------------------------------------------
(* Typing. *)

Kind == {"none", "instance", "profile", "bundle", "session", "bytes", "arena", "lease"}
State == {"none", "open", "cancelled", "closed"}

Resource ==
    [alive : BOOLEAN, kind : Kind, gen : 0..(GenerationLimit - 1), inst : Nat, born : Nat,
     parent : Nat, state : State, outstanding : Nat, inflight : Nat, ident : SUBSET Identity,
     owner : Nat]

Handle == [slot : Slot, gen : 1..(GenerationLimit - 1), kind : Kind, inst : Nat, born : Nat \ {0}]

(* A session and a lease, and every row that names a slot in outstanding,  *)
(* have a parent in the table; instances are numbered below next_id.       *)
RowType(row, bound) ==
    /\ row \in Resource
    /\ row.alive => row.gen # 0
    /\ row.kind \in {"session", "lease"} \/ row.outstanding # 0 => row.parent \in Slot
    /\ row.inst < bound

TableType ==
    /\ next_id \in Nat \ {0} /\ count \in 0..MaxAllocations
    /\ DOMAIN table = Slot /\ table = [s \in Slot |-> table[s]]
    /\ \A s \in Slot : RowType(table[s], next_id)
    /\ issued \subseteq Handle
    /\ packets \subseteq [ident : SUBSET Identity, state : State]

-----------------------------------------------------------------------------
(* Generations and slots. *)

(* The generation after a generation.                                      *)
LEMMA NextGeneration ==
    ASSUME NEW g \in 0..(GenerationLimit - 1)
    PROVE  next_generation(g) = IF g = GenerationLimit - 1 THEN 1 ELSE g + 1
<1>1. GenerationLimit \in Nat /\ GenerationLimit > 1
      BY HandleAssumption
<1>2. CASE g = GenerationLimit - 1
  <2>1. GenerationLimit % GenerationLimit = 0
        BY <1>1
  <2> QED
      BY <1>1, <1>2, <2>1 DEF next_generation
<1>3. CASE g # GenerationLimit - 1
  <2>1. g + 1 \in 1..(GenerationLimit - 1)
        BY <1>1, <1>3
  <2>2. (g + 1) % GenerationLimit = g + 1
        BY <1>1, <2>1
  <2> QED
      BY <1>1, <1>3, <2>1, <2>2 DEF next_generation
<1> QED
    BY <1>2, <1>3

(* The first slot that is not alive, when there is one.                    *)
LEMMA FreeSlotIsFree == ASSUME FreeSlots # {} PROVE FreeSlot \in Slot /\ ~table[FreeSlot].alive
<1> DEFINE Less == {ss \in Nat \X Nat : ss[1] < ss[2]}
<1>1. FreeSlots \subseteq Nat
      BY HandleAssumption DEF FreeSlots, Slot
<1>2. IsWellFoundedOn(Less, Nat)
      BY NatLessThanWellFounded DEF OpToRel
<1>3. PICK x \in FreeSlots : \A y \in FreeSlots : ~ (<<y, x>> \in Less)
  <2> HIDE DEF Less
  <2> QED
      BY <1>1, <1>2, WFMin
<1>4. ASSUME NEW y \in FreeSlots PROVE x <= y
  <2>1. x \in Nat /\ y \in Nat
        BY <1>1
  <2>2. y < x => <<y, x>> \in Less
        BY <2>1
  <2> QED
      BY <1>3, <2>1, <2>2
<1>5. \E z \in FreeSlots : \A y \in FreeSlots : z <= y
      BY <1>4
<1>6. FreeSlot \in FreeSlots
      BY <1>5 DEF FreeSlot, Min
<1> QED
    BY <1>6 DEF FreeSlots

-----------------------------------------------------------------------------
(* Handles are fresh. *)

(* The generation that follows g after d allocations, d being less than    *)
(* what brings it back.                                                    *)
Advance(g, d) == IF g + d < GenerationLimit THEN g + d ELSE g + d - (GenerationLimit - 1)

(* What a handle knows of its slot, whatever has happened to it since.     *)
Traced(h, row) ==
    /\ h.born <= row.born
    /\ row.born - h.born < GenerationLimit - 1 => row.gen = Advance(h.gen, row.born - h.born)
    /\ row.born = h.born /\ row.alive => row.kind = h.kind /\ row.inst = h.inst

HandlesTraced == \A h \in issued : Traced(h, table[h.slot])

(* What a step may do to a slot: leave it in the same use, perhaps ending  *)
(* it, or begin its next use with the next generation.                     *)
SameUse(row, new) ==
    /\ new.born = row.born /\ new.gen = row.gen
    /\ new.alive => row.alive /\ new.kind = row.kind /\ new.inst = row.inst
NextUse(row, new) == new.born = row.born + 1 /\ new.gen = next_generation(row.gen)

SlotsUsed ==
    /\ \A s \in Slot : SameUse(table[s], table'[s]) \/ NextUse(table[s], table'[s])
    /\ \A h \in issued' :
           h \in issued \/ \E s \in Slot : table'[s].alive /\ h = HandleOf(s, table'[s])

(* A handle issued before stays traced to its row.                         *)
LEMMA TracedStep ==
    ASSUME TableType, TableType', HandlesTraced, SlotsUsed
    PROVE  HandlesTraced'
<1> SUFFICES ASSUME NEW h \in issued' PROVE Traced(h, table'[h.slot])
    BY DEF HandlesTraced, Traced
<1> USE HandleAssumption
<1>1. ASSUME NEW s \in Slot, table'[s].alive, h = HandleOf(s, table'[s])
      PROVE  Traced(h, table'[h.slot])
      BY <1>1 DEF HandleOf, Traced, Advance, TableType, RowType, Resource
<1>2. CASE h \in issued
  <2> DEFINE row == table[h.slot]
             new == table'[h.slot]
  <2>1. /\ h \in Handle /\ h.slot \in Slot /\ h.gen \in 1..(GenerationLimit - 1)
        /\ h.born \in Nat /\ row \in Resource /\ new \in Resource
        BY <1>2 DEF TableType, RowType, Handle
  <2>2. /\ row.born \in Nat /\ row.gen \in 0..(GenerationLimit - 1)
        /\ new.born \in Nat /\ new.gen \in 0..(GenerationLimit - 1)
        BY <2>1 DEF Resource
  <2>3. Traced(h, row)
        BY <1>2 DEF HandlesTraced
  <2> HIDE DEF row, new
  <2>4. ASSUME SameUse(row, new) PROVE Traced(h, new)
        BY <2>1, <2>2, <2>3, <2>4 DEF Traced, SameUse
  <2>5. ASSUME NextUse(row, new) PROVE Traced(h, new)
    <3>1. new.gen = IF row.gen = GenerationLimit - 1 THEN 1 ELSE row.gen + 1
          BY <2>2, <2>5, NextGeneration DEF NextUse
    <3>2. new.born = row.born + 1
          BY <2>5 DEF NextUse
    <3> QED
        BY <2>1, <2>2, <2>3, <3>1, <3>2 DEF Traced, Advance
  <2> QED
      BY <2>1, <2>4, <2>5 DEF SlotsUsed, row, new
<1> QED
    BY <1>1, <1>2 DEF SlotsUsed

(* Handles that are traced to their rows are not issued twice.             *)
LEMMA TracedFresh == ASSUME TableType, HandlesTraced PROVE HandlesFresh
<1> SUFFICES ASSUME NEW h \in issued, Resolves(h, h.kind)
             PROVE  \/ table[h.slot].born = h.born
                    \/ table[h.slot].born - h.born >= GenerationLimit - 1
    BY DEF HandlesFresh
<1> DEFINE row == table[h.slot]
<1>1. /\ h \in Handle /\ h.gen \in 1..(GenerationLimit - 1) /\ h.born \in Nat
      /\ row \in Resource /\ row.born \in Nat
      BY DEF TableType, RowType, Handle, Resource
<1>2. Traced(h, row) /\ row.gen = h.gen
      BY DEF HandlesTraced, Resolves
<1> HIDE DEF row
<1>3. row.born = h.born \/ row.born - h.born >= GenerationLimit - 1
      BY <1>1, <1>2, HandleAssumption DEF Traced, Advance
<1> QED
    BY <1>3 DEF row

(* As long as no generation came round, a handle that resolves names a row *)
(* of its own kind.                                                        *)
LEMMA ResolvesKind ==
    ASSUME TableType, HandlesTraced, NoWrap, NEW h \in issued, NEW kind, Resolves(h, kind)
    PROVE  /\ h.slot \in Slot /\ table[h.slot].alive
           /\ table[h.slot].kind = kind /\ table[h.slot].inst = h.inst
<1>1. h \in Handle /\ h.slot \in Slot /\ h.born \in Nat \ {0}
      BY DEF TableType, Handle
<1>2. table[h.slot].born \in Nat /\ table[h.slot].born < GenerationLimit
      BY <1>1 DEF TableType, RowType, Resource, NoWrap
<1>3. table[h.slot].born = h.born
      BY <1>1, <1>2, TracedFresh, HandleAssumption DEF HandlesFresh, Resolves
<1> QED
    BY <1>1, <1>3 DEF HandlesTraced, Traced, Resolves

-----------------------------------------------------------------------------
(* Four ways in which calls change the table.  An allocation takes the     *)
(* first free slot for the next use of it.                                 *)

Packet == [ident : SUBSET Identity, state : State]

Others ==
    /\ next_id' \in {next_id, next_id + 1} /\ count' \in 0..MaxAllocations
    /\ packets' \subseteq Packet

NewUse(row) ==
    /\ row.alive /\ row.inflight = 0
    /\ row.gen = next_generation(table[FreeSlot].gen) /\ row.born = table[FreeSlot].born + 1

Allocated(row) ==
    /\ FreeSlots # {} /\ table' = [table EXCEPT ![FreeSlot] = row]
    /\ NewUse(row) /\ RowType(row, next_id')
    /\ issued' = issued \cup {HandleOf(FreeSlot, row)}
    /\ Others

(* A slot is given back with the generation it has, or, when an allocation *)
(* was undone, with the next.                                              *)
Freed(s, gen, born) ==
    /\ table' = [table EXCEPT ![s] = Dead(gen, born)]
    /\ UNCHANGED <<next_id, issued, packets>>
    /\ count' \in 0..MaxAllocations

(* A session's row takes another state.                                    *)
Restated(s, state, outstanding) ==
    /\ table' = [table EXCEPT ![s] = [table[s] EXCEPT !.state = state, !.outstanding = outstanding]]
    /\ UNCHANGED <<next_id, issued, packets, count>>

(* A slot that is taken keeps what is known of handles.                    *)
LEMMA AllocatedStep ==
    ASSUME TableType, NEW row, Allocated(row)
    PROVE  TableType' /\ SlotsUsed
<1> DEFINE f == FreeSlot
<1>1. f \in Slot /\ ~table[f].alive
      BY FreeSlotIsFree DEF Allocated
<1> HIDE DEF f
<1>2. \A s \in Slot : table'[s] = IF s = f THEN row ELSE table[s]
      BY <1>1 DEF Allocated, TableType, f
<1>3. row \in Resource /\ row.alive /\ row.gen \in 1..(GenerationLimit - 1) /\ row.born \in Nat \ {0}
  <2>1. table[f] \in Resource /\ table[f].born \in Nat
        BY <1>1 DEF TableType, RowType, Resource
  <2> QED
      BY <2>1, HandleAssumption DEF Allocated, RowType, NewUse, Resource, f
<1>4. HandleOf(f, row) \in Handle
      BY <1>1, <1>3 DEF HandleOf, Handle, Resource
<1>5. \A s \in Slot : RowType(table'[s], next_id')
  <2> SUFFICES ASSUME NEW s \in Slot, s # f PROVE RowType(table[s], next_id')
      BY <1>2 DEF Allocated
  <2>1. RowType(table[s], next_id) /\ next_id \in Nat /\ next_id' \in {next_id, next_id + 1}
        BY DEF TableType, Allocated, Others
  <2>2. table[s].inst \in Nat
        BY <2>1 DEF RowType, Resource
  <2> QED
      BY <2>1, <2>2 DEF RowType
<1>6. TableType'
      BY <1>1, <1>4, <1>5 DEF TableType, Allocated, Others, Packet, f
<1>7. SlotsUsed
      BY <1>1, <1>2, <1>3 DEF SlotsUsed, SameUse, NextUse, Allocated, NewUse, f
<1> QED
    BY <1>6, <1>7

(* A freed row has its type.                                               *)
LEMMA DeadTyped ==
    ASSUME NEW gen \in 0..(GenerationLimit - 1), NEW born \in Nat, NEW bound \in Nat \ {0}
    PROVE  RowType(Dead(gen, born), bound)
<1> DEFINE row == Row("none", gen, 0, born)
<1>1. row \in Resource /\ row.kind = "none" /\ row.outstanding = 0 /\ row.inst = 0
      BY DEF Row, Resource, Kind, State
<1> HIDE DEF row
<1>2. [row EXCEPT !.alive = FALSE] \in Resource
      BY <1>1 DEF Resource
<1>3. /\ ~Dead(gen, born).alive /\ Dead(gen, born).kind = "none"
      /\ Dead(gen, born).outstanding = 0 /\ Dead(gen, born).inst = 0
      BY <1>1, <1>2 DEF Dead, Resource, row
<1> QED
    BY <1>2, <1>3 DEF RowType, Dead, row

(* A slot that is freed keeps what is known of handles.                    *)
LEMMA FreedStep ==
    ASSUME TableType, NEW s \in Slot, NEW gen, NEW born, Freed(s, gen, born),
           \/ gen = table[s].gen /\ born = table[s].born
           \/ gen = next_generation(table[s].gen) /\ born = table[s].born + 1
    PROVE  TableType' /\ SlotsUsed
<1>1. table[s] \in Resource /\ table[s].gen \in 0..(GenerationLimit - 1) /\ table[s].born \in Nat
      BY DEF TableType, RowType, Resource
<1>2. gen \in 0..(GenerationLimit - 1) /\ born \in Nat
      BY <1>1, NextGeneration, HandleAssumption
<1>3. \A u \in Slot : table'[u] = IF u = s THEN Dead(gen, born) ELSE table[u]
      BY DEF Freed, TableType
<1>4. RowType(Dead(gen, born), next_id)
      BY <1>2, DeadTyped DEF TableType
<1>5. TableType'
      BY <1>3, <1>4 DEF TableType, Freed
<1>6. ~Dead(gen, born).alive /\ Dead(gen, born).gen = gen /\ Dead(gen, born).born = born
      BY DEF Dead, Row
<1>7. SlotsUsed
      BY <1>3, <1>6 DEF SlotsUsed, SameUse, NextUse, Freed
<1> QED
    BY <1>5, <1>7

(* A row that changes its state keeps what is known of handles.            *)
LEMMA RestatedStep ==
    ASSUME TableType, NEW s \in Slot, NEW state \in State, NEW outstanding \in {0, table[s].outstanding},
           Restated(s, state, outstanding)
    PROVE  TableType' /\ SlotsUsed
<1> DEFINE new == [table[s] EXCEPT !.state = state, !.outstanding = outstanding]
<1>1. RowType(table[s], next_id) /\ table[s] \in Resource
      BY DEF TableType, RowType
<1>2. /\ new \in Resource
      /\ new.outstanding = outstanding
      /\ new.kind = table[s].kind /\ new.gen = table[s].gen /\ new.born = table[s].born
      /\ new.inst = table[s].inst /\ (new.alive <=> table[s].alive) /\ new.parent = table[s].parent
  <2>1. outstanding \in Nat
        BY <1>1 DEF Resource
  <2> QED
      BY <1>1, <2>1 DEF Resource
<1>3. RowType(new, next_id)
      BY <1>1, <1>2 DEF RowType
<1>4. \A u \in Slot : table'[u] = IF u = s THEN new ELSE table[u]
      BY DEF Restated, TableType
<1> HIDE DEF new
<1>5. TableType'
      BY <1>3, <1>4 DEF TableType, Restated, new
<1>6. SlotsUsed
      BY <1>2, <1>4 DEF SlotsUsed, SameUse, Restated
<1> QED
    BY <1>5, <1>6

-----------------------------------------------------------------------------
(* What the table keeps while no generation has come round. *)

(* OwnersAlive without counting.                                           *)
Owned ==
    /\ \A s \in Living : \E i \in Living : table[i].kind = "instance" /\ table[i].inst = table[s].inst
    /\ \A i, j \in Living :
           table[i].kind = "instance" /\ table[j].kind = "instance" /\ table[i].inst = table[j].inst
               => i = j

Intact == Owned /\ SessionBound /\ ArenaPinned

(* What an allocation owes: a new instance has a new identity, any other   *)
(* row one that is in use, and a session the identity of its live bundle.  *)
Rooted(row) ==
    /\ row.kind # "lease"
    /\ row.kind = "instance" => row.inst = next_id
    /\ row.kind # "instance" => \E s \in Living : table[s].inst = row.inst
    /\ row.kind = "session" =>
           LET b == table[row.parent]
           IN  b.alive /\ b.kind = "bundle" /\ b.inst = row.inst /\ b.ident = row.ident

(* What a release owes: nothing depends on the row any more.               *)
Loose(s) ==
    table[s].alive =>
        /\ table[s].kind # "lease"
        /\ table[s].kind = "instance" =>
               ~ \E u \in Living : table[u].inst = table[s].inst /\ table[u].kind # "instance"
        /\ table[s].kind = "bundle" =>
               ~ \E u \in Living : table[u].kind = "session" /\ table[u].parent = s
        /\ table[s].kind = "arena" => table[s].inflight = 0

(* There are finitely many rows to count.                                  *)
LEMMA LivingFinite == IsFiniteSet(Living) /\ \A a : IsFiniteSet(LeasesOn(a))
<1>1. IsFiniteSet(Slot)
      BY FS_Interval, HandleAssumption DEF Slot
<1>2. Living \subseteq Slot /\ \A a : LeasesOn(a) \subseteq Slot
      BY DEF Living, LeasesOn
<1> QED
    BY <1>1, <1>2, FS_Subset

(* A new row leaves owners alive and counters right.                       *)
LEMMA AllocatedIntact ==
    ASSUME TableType, Intact, NEW row, Allocated(row), Rooted(row)
    PROVE  Intact'
<1> DEFINE f == FreeSlot
<1>1. f \in Slot /\ ~table[f].alive
      BY FreeSlotIsFree DEF Allocated
<1> HIDE DEF f
<1>2. \A s \in Slot : table'[s] = IF s = f THEN row ELSE table[s]
      BY <1>1 DEF Allocated, TableType, f
<1>3. row.alive /\ row.inflight = 0
      BY DEF Allocated, NewUse
<1>4. f \notin Living /\ Living' = Living \cup {f} /\ Living \subseteq Slot
      BY <1>1, <1>2, <1>3 DEF Living
<1>5. \A s \in Living : table'[s] = table[s] /\ s # f
      BY <1>2, <1>4
<1>6. table'[f] = row
      BY <1>1, <1>2
<1>7. Owned'
  <2>1. ASSUME NEW s \in Living' PROVE \E i \in Living' : table'[i].kind = "instance" /\ table'[i].inst = table'[s].inst
    <3>1. CASE s \in Living
          BY <3>1, <1>4, <1>5 DEF Intact, Owned
    <3>2. CASE s = f /\ row.kind = "instance"
          BY <3>2, <1>4, <1>6
    <3>3. CASE s = f /\ row.kind # "instance"
      <4>1. PICK u \in Living : table[u].inst = row.inst
            BY <3>3 DEF Rooted
      <4> QED
          BY <3>3, <4>1, <1>4, <1>5, <1>6 DEF Intact, Owned
    <3> QED
        BY <3>1, <3>2, <3>3, <1>4
  <2>2. ASSUME NEW i \in Living', NEW j \in Living',
               table'[i].kind = "instance", table'[j].kind = "instance", table'[i].inst = table'[j].inst
        PROVE  i = j
    <3>1. ASSUME NEW u \in Living PROVE table[u].inst # next_id
      <4>1. RowType(table[u], next_id) /\ next_id \in Nat
            BY <1>4 DEF TableType
      <4>2. table[u].inst \in Nat /\ table[u].inst < next_id
            BY <4>1 DEF RowType, Resource
      <4> QED
          BY <4>1, <4>2
    <3> QED
        BY <2>2, <3>1, <1>4, <1>5, <1>6 DEF Intact, Owned, Rooted
  <2> QED
      BY <2>1, <2>2 DEF Owned
<1>8. SessionBound'
  <2> SUFFICES ASSUME NEW s \in Living', table'[s].kind = "session"
               PROVE  LET b == table'[table'[s].parent]
                      IN  b.alive /\ b.kind = "bundle" /\ b.inst = table'[s].inst /\ b.ident = table'[s].ident
      BY DEF SessionBound
  <2>1. CASE s \in Living
    <3>1. table[s].parent \in Slot
          BY <2>1, <1>4, <1>5 DEF TableType, RowType
    <3>2. table[s].parent \in Living
          BY <2>1, <3>1, <1>5 DEF Intact, SessionBound, Living
    <3> QED
        BY <2>1, <3>2, <1>5 DEF Intact, SessionBound
  <2>2. CASE s = f
    <3>1. row.parent \in Slot
          BY <2>2, <1>6 DEF Allocated, RowType
    <3>2. row.parent \in Living
          BY <2>2, <3>1, <1>6 DEF Rooted, Living
    <3> QED
        BY <2>2, <3>2, <1>5, <1>6 DEF Rooted
  <2> QED
      BY <2>1, <2>2, <1>4
<1>9. ArenaPinned'
  <2>1. \A a : LeasesOn(a)' = LeasesOn(a)
        BY <1>4, <1>5, <1>6 DEF LeasesOn, Rooted
  <2>2. ASSUME NEW l \in Living', table'[l].kind = "lease"
        PROVE  table'[table'[l].parent].alive /\ table'[table'[l].parent].kind = "arena"
    <3>1. l \in Living
          BY <2>2, <1>4, <1>6 DEF Rooted
    <3>2. table[l].parent \in Slot
          BY <2>2, <3>1, <1>4, <1>5 DEF TableType, RowType
    <3>3. table[l].parent \in Living
          BY <2>2, <3>1, <3>2, <1>5 DEF Intact, ArenaPinned, Living
    <3> QED
        BY <2>2, <3>1, <3>3, <1>5 DEF Intact, ArenaPinned
  <2>3. ASSUME NEW a \in Living', table'[a].kind = "arena"
        PROVE  table'[a].inflight = Cardinality(LeasesOn(a)')
    <3>1. CASE a \in Living
          BY <2>1, <2>3, <3>1, <1>5 DEF Intact, ArenaPinned
    <3>2. CASE a = f
      <4>1. LeasesOn(f) = {}
            BY <1>1 DEF Intact, ArenaPinned, LeasesOn
      <4> QED
          BY <2>1, <3>2, <4>1, <1>3, <1>6, FS_EmptySet
    <3> QED
        BY <3>1, <3>2, <1>4
  <2> QED
      BY <2>2, <2>3 DEF ArenaPinned
<1> QED
    BY <1>7, <1>8, <1>9 DEF Intact

(* A freed row leaves owners alive and counters right.                     *)
LEMMA FreedIntact ==
    ASSUME TableType, Intact, NEW s \in Slot, NEW gen, NEW born, Freed(s, gen, born), Loose(s)
    PROVE  Intact'
<1>1. \A u \in Slot : table'[u] = IF u = s THEN Dead(gen, born) ELSE table[u]
      BY DEF Freed, TableType
<1>2. ~Dead(gen, born).alive
      BY DEF Dead, Row
<1>3. Living' = Living \ {s} /\ Living \subseteq Slot
      BY <1>1, <1>2 DEF Living
<1>4. \A u \in Living' : table'[u] = table[u] /\ u # s /\ u \in Living
      BY <1>1, <1>3
<1>5. Owned'
  <2>1. ASSUME NEW u \in Living' PROVE \E i \in Living' : table'[i].kind = "instance" /\ table'[i].inst = table'[u].inst
    <3>1. PICK i \in Living : table[i].kind = "instance" /\ table[i].inst = table[u].inst
          BY <1>4 DEF Intact, Owned
    <3>2. i # s
      <4> SUFFICES ASSUME i = s PROVE FALSE
          OBVIOUS
      <4>1. table[s].alive /\ table[u].kind = "instance"
            BY <3>1, <1>4 DEF Loose, Living
      <4> QED
          BY <3>1, <4>1, <1>4 DEF Intact, Owned
    <3> QED
        BY <3>1, <3>2, <1>3, <1>4
  <2>2. ASSUME NEW i \in Living', NEW j \in Living',
               table'[i].kind = "instance", table'[j].kind = "instance", table'[i].inst = table'[j].inst
        PROVE  i = j
        BY <2>2, <1>4 DEF Intact, Owned
  <2> QED
      BY <2>1, <2>2 DEF Owned
<1>6. SessionBound'
  <2> SUFFICES ASSUME NEW u \in Living', table'[u].kind = "session"
               PROVE  LET b == table'[table'[u].parent]
                      IN  b.alive /\ b.kind = "bundle" /\ b.inst = table'[u].inst /\ b.ident = table'[u].ident
      BY DEF SessionBound
  <2>1. table[u].parent \in Slot
        BY <1>3, <1>4 DEF TableType, RowType
  <2>2. table[u].parent # s
        BY <1>4 DEF Intact, SessionBound, Loose
  <2> QED
      BY <2>1, <2>2, <1>1, <1>4 DEF Intact, SessionBound
<1>7. ArenaPinned'
  <2>1. \A a : LeasesOn(a)' = LeasesOn(a)
        BY <1>3, <1>4 DEF LeasesOn, Loose, Living
  <2>2. ASSUME NEW l \in Living', table'[l].kind = "lease"
        PROVE  table'[table'[l].parent].alive /\ table'[table'[l].parent].kind = "arena"
    <3>1. l \in Living /\ table[l].kind = "lease" /\ table'[l] = table[l]
          BY <2>2, <1>4
    <3>2. table[l].parent \in Slot
          BY <3>1, <1>3 DEF TableType, RowType
    <3>3. table[l].parent # s
      <4> SUFFICES ASSUME table[l].parent = s PROVE FALSE
          OBVIOUS
      <4>1. s \in Living /\ table[s].kind = "arena" /\ l \in LeasesOn(s)
            BY <3>1 DEF Intact, ArenaPinned, LeasesOn, Living
      <4>2. Cardinality(LeasesOn(s)) = 0
            BY <4>1 DEF Intact, ArenaPinned, Loose, Living
      <4> QED
          BY <4>1, <4>2, LivingFinite, FS_EmptySet
    <3> QED
        BY <3>1, <3>2, <3>3, <1>1 DEF Intact, ArenaPinned
  <2>3. ASSUME NEW a \in Living', table'[a].kind = "arena"
        PROVE  table'[a].inflight = Cardinality(LeasesOn(a)')
        BY <2>1, <2>3, <1>4 DEF Intact, ArenaPinned
  <2> QED
      BY <2>2, <2>3 DEF ArenaPinned
<1> QED
    BY <1>5, <1>6, <1>7 DEF Intact

(* A row that changes its state leaves owners alive.                       *)
LEMMA RestatedIntact ==
    ASSUME TableType, Intact, NEW s \in Slot, NEW state, NEW outstanding,
           Restated(s, state, outstanding)
    PROVE  Intact'
<1>1. table[s] \in Resource
      BY DEF TableType, RowType
<1>2. \A u \in Slot :
          /\ table'[u].alive <=> table[u].alive
          /\ table'[u].kind = table[u].kind /\ table'[u].inst = table[u].inst
          /\ table'[u].parent = table[u].parent /\ table'[u].ident = table[u].ident
          /\ table'[u].inflight = table[u].inflight
      BY <1>1 DEF Restated, TableType, Resource
<1>3. Living' = Living /\ Living \subseteq Slot
      BY <1>2 DEF Living
<1>4. Owned'
      BY <1>2, <1>3 DEF Intact, Owned
<1>5. ASSUME NEW u \in Living, table[u].kind \in {"session", "lease"} PROVE table[u].parent \in Slot
      BY <1>3, <1>5 DEF TableType, RowType
<1>6. SessionBound'
      BY <1>2, <1>3, <1>5 DEF Intact, SessionBound
<1>7. \A a : LeasesOn(a)' = LeasesOn(a)
      BY <1>2, <1>3 DEF LeasesOn
<1>8. ArenaPinned'
      BY <1>2, <1>3, <1>5, <1>7 DEF Intact, ArenaPinned
<1> QED
    BY <1>4, <1>6, <1>8 DEF Intact

-----------------------------------------------------------------------------
(* The calls.  Each keeps the types and the slots' order of uses, and,     *)
(* while no generation has come round, the table intact.                   *)

TableInv == TableType /\ HandlesTraced /\ (NoWrap => Intact)

(* Uses are counted upwards: a generation that has come round stays so.    *)
LEMMA NoWrapBefore == ASSUME TableType, SlotsUsed, NoWrap' PROVE NoWrap
<1> SUFFICES ASSUME NEW s \in Slot PROVE table[s].born < GenerationLimit
    BY DEF NoWrap
<1>1. table[s].born \in Nat
      BY DEF TableType, RowType, Resource
<1>2. table'[s].born \in {table[s].born, table[s].born + 1} /\ table'[s].born < GenerationLimit
      BY DEF SlotsUsed, SameUse, NextUse, NoWrap
<1> QED
    BY <1>1, <1>2, HandleAssumption

(* An allocation keeps the invariant.                                      *)
LEMMA AllocatedInv ==
    ASSUME TableInv, NEW row, Allocated(row), NoWrap => Rooted(row)
    PROVE  TableInv'
<1>1. TableType' /\ SlotsUsed
      BY AllocatedStep DEF TableInv
<1> QED
    BY <1>1, TracedStep, NoWrapBefore, AllocatedIntact DEF TableInv

(* A release keeps the invariant.                                          *)
LEMMA FreedInv ==
    ASSUME TableInv, NEW s \in Slot, NEW gen, NEW born, Freed(s, gen, born), NoWrap => Loose(s),
           \/ gen = table[s].gen /\ born = table[s].born
           \/ gen = next_generation(table[s].gen) /\ born = table[s].born + 1
    PROVE  TableInv'
<1>1. TableType' /\ SlotsUsed
      BY FreedStep DEF TableInv
<1> QED
    BY <1>1, TracedStep, NoWrapBefore, FreedIntact DEF TableInv

(* A change of state keeps the invariant.                                  *)
LEMMA RestatedInv ==
    ASSUME TableInv, NEW s \in Slot, NEW state \in State, NEW outstanding \in {0, table[s].outstanding},
           Restated(s, state, outstanding)
    PROVE  TableInv'
<1>1. TableType' /\ SlotsUsed
      BY RestatedStep DEF TableInv
<1> QED
    BY <1>1, TracedStep, NoWrapBefore, RestatedIntact DEF TableInv

(* A handle that the host has names a slot.                                *)
LEMMA HandleTyped ==
    ASSUME TableType, NEW h \in issued
    PROVE  h.slot \in Slot /\ h.slot \in Nat \ {0} /\ h.inst \in Nat /\ table[h.slot] \in Resource
BY HandleAssumption DEF TableType, RowType, Handle, Slot

(* A handle that resolves names a live row of its own instance.            *)
LEMMA ResolvesRow ==
    ASSUME TableType, NEW h \in issued, NEW kind, Resolves(h, kind)
    PROVE  /\ h.slot \in Living /\ table[h.slot].inst = h.inst
           /\ h.inst \in Nat /\ h.inst < next_id
BY HandleTyped DEF TableType, RowType, Resolves, Living

(* The row an allocation begins with, before its operation adds to it.     *)
LEMMA NewRowFits ==
    ASSUME TableType, FreeSlots # {}, NEW kind \in Kind, NEW inst \in Nat
    PROVE  LET row == NewRow(kind, inst)
           IN  /\ row \in Resource /\ NewUse(row) /\ row.gen # 0
               /\ row.kind = kind /\ row.inst = inst
               /\ row.outstanding = 0 /\ row.parent = 0
<1>1. table[FreeSlot].gen \in 0..(GenerationLimit - 1) /\ table[FreeSlot].born \in Nat
      BY FreeSlotIsFree DEF TableType, RowType, Resource
<1>2. /\ next_generation(table[FreeSlot].gen) \in 0..(GenerationLimit - 1)
      /\ next_generation(table[FreeSlot].gen) # 0
      BY <1>1, NextGeneration, HandleAssumption
<1> QED
    BY <1>1, <1>2 DEF NewRow, Row, NewUse, Resource, State

(* An allocation finds room.                                               *)
LEMMA CountKept == ASSUME TableType, Allocation PROVE count' \in 0..MaxAllocations /\ FreeSlots # {}
BY HandleAssumption DEF Allocation, TableType

(* instance_create. *)
LEMMA InstanceCreateInv == ASSUME TableInv, instance_create PROVE TableInv'
<1>1. TableType /\ next_id \in Nat \ {0}
      BY DEF TableInv, TableType
<1>2. CASE FreeSlots # {}
  <2> DEFINE row == NewRow("instance", next_id)
  <2>1. /\ row \in Resource /\ NewUse(row) /\ row.gen # 0 /\ row.outstanding = 0
        /\ row.kind = "instance" /\ row.inst = next_id
        BY <1>1, <1>2, NewRowFits DEF Kind
  <2>2. allocate_resource(row) /\ next_id' = next_id + 1 /\ UNCHANGED packets
        BY <1>2 DEF instance_create
  <2> HIDE DEF row
  <2>3. RowType(row, next_id')
        BY <2>1, <2>2, <1>1 DEF RowType
  <2>4. Allocated(row)
        BY <2>1, <2>2, <2>3, <1>1, CountKept DEF Allocated, Others, allocate_resource, TableType, Packet
  <2> QED
      BY <2>1, <2>4, AllocatedInv DEF Rooted
<1>3. CASE FreeSlots = {}
  <2>1. UNCHANGED <<table, issued, count, packets>> /\ next_id' = next_id + 1
        BY <1>3 DEF instance_create
  <2>2. \A s \in Slot : RowType(table[s], next_id + 1)
        BY <1>1 DEF TableType, RowType, Resource
  <2>3. TableType'
        BY <1>1, <2>1, <2>2 DEF TableType
  <2>4. HandlesTraced' /\ (NoWrap' => Intact')
        BY <2>1 DEF TableInv, HandlesTraced, NoWrap, Intact, Owned, SessionBound, ArenaPinned,
                    Living, LeasesOn
  <2> QED
      BY <2>3, <2>4 DEF TableInv
<1> QED
    BY <1>2, <1>3

(* negotiate, session_checkpoint, error_message, arena_register: a row of  *)
(* the handle's instance.                                                  *)
LEMMA PlainRowInv ==
    ASSUME TableInv, NEW h \in issued, NEW kind, Resolves(h, kind),
           NEW new \in {"profile", "bytes", "arena"}, allocate_resource(NewRow(new, h.inst)),
           UNCHANGED next_id, packets' \subseteq Packet
    PROVE  TableInv'
<1> DEFINE row == NewRow(new, h.inst)
<1>1. TableType /\ FreeSlots # {} /\ count' \in 0..MaxAllocations
      BY CountKept DEF TableInv, allocate_resource
<1>2. h.slot \in Living /\ table[h.slot].inst = h.inst /\ h.inst \in Nat /\ h.inst < next_id
      BY <1>1, ResolvesRow
<1>3. /\ row \in Resource /\ NewUse(row) /\ row.gen # 0 /\ row.outstanding = 0
      /\ row.kind = new /\ row.inst = h.inst
      BY <1>1, <1>2, NewRowFits DEF Kind
<1> HIDE DEF row
<1>4. RowType(row, next_id')
      BY <1>2, <1>3 DEF RowType
<1>5. Allocated(row)
      BY <1>1, <1>3, <1>4 DEF Allocated, Others, allocate_resource, row
<1>6. Rooted(row)
      BY <1>2, <1>3 DEF Rooted
<1> QED
    BY <1>5, <1>6, AllocatedInv

(* bundle_open under an instance.                                          *)
LEMMA BundleOpenInv ==
    ASSUME TableInv, NEW p \in issued, NEW ident \in Identity, bundle_open(p, ident)
    PROVE  TableInv'
<1> DEFINE plain == NewRow("bundle", p.inst)
           row == [plain EXCEPT !.parent = p.slot, !.ident = {ident}]
<1>1. TableType /\ FreeSlots # {} /\ count' \in 0..MaxAllocations
      BY CountKept DEF TableInv, allocate_resource, bundle_open
<1>2. /\ p.slot \in Living /\ table[p.slot].inst = p.inst /\ p.inst \in Nat /\ p.inst < next_id
      /\ p.slot \in Nat
      BY <1>1, ResolvesRow, HandleTyped DEF bundle_open
<1>3. /\ plain \in Resource /\ NewUse(plain) /\ plain.gen # 0 /\ plain.outstanding = 0
      /\ plain.kind = "bundle" /\ plain.inst = p.inst
      BY <1>1, <1>2, NewRowFits DEF Kind
<1>4. allocate_resource(row) /\ UNCHANGED <<next_id, packets>>
      BY DEF bundle_open
<1> HIDE DEF plain
<1>5. /\ row \in Resource /\ NewUse(row) /\ row.gen # 0 /\ row.outstanding = 0
      /\ row.kind = "bundle" /\ row.inst = p.inst
      BY <1>2, <1>3 DEF Resource, NewUse
<1> HIDE DEF row
<1>6. RowType(row, next_id')
      BY <1>2, <1>4, <1>5 DEF RowType
<1>7. Allocated(row)
      BY <1>1, <1>4, <1>5, <1>6 DEF Allocated, Others, allocate_resource, TableType, Packet
<1>8. Rooted(row)
      BY <1>2, <1>5 DEF Rooted
<1> QED
    BY <1>7, <1>8, AllocatedInv

(* session_open and session_restore: the bundle's identity is taken over.  *)
LEMMA SessionRowInv ==
    ASSUME TableInv, NEW b \in issued, Resolves(b, "bundle"),
           NEW row \in Resource, NewUse(row), row.gen # 0,
           row.kind = "session", row.inst = b.inst, row.parent = b.slot,
           row.ident = table[b.slot].ident,
           allocate_resource(row), UNCHANGED <<next_id, packets>>
    PROVE  TableInv'
<1>1. TableType /\ FreeSlots # {} /\ count' \in 0..MaxAllocations
      BY CountKept DEF TableInv, allocate_resource
<1>2. /\ b.slot \in Living /\ table[b.slot].inst = b.inst /\ b.inst \in Nat /\ b.inst < next_id
      /\ b.slot \in Slot
      BY <1>1, ResolvesRow, HandleTyped
<1>3. RowType(row, next_id')
      BY <1>2 DEF RowType
<1>4. Allocated(row)
      BY <1>1, <1>3 DEF Allocated, Others, allocate_resource, TableType, Packet
<1>5. NoWrap => Rooted(row)
      BY <1>1, <1>2, ResolvesKind DEF Rooted, TableInv
<1> QED
    BY <1>4, <1>5, AllocatedInv

(* session_open under a bundle.                                            *)
LEMMA SessionOpenInv ==
    ASSUME TableInv, NEW b \in issued, NEW work \in 0..1, session_open(b, work)
    PROVE  TableInv'
<1> DEFINE plain == NewRow("session", b.inst)
           row == [plain EXCEPT !.parent = b.slot, !.state = "open",
                                !.outstanding = work, !.ident = table[b.slot].ident]
<1>1. TableType /\ FreeSlots # {} /\ b.slot \in Nat /\ b.inst \in Nat /\ table[b.slot] \in Resource
      BY CountKept, HandleTyped DEF TableInv, allocate_resource, session_open
<1>2. plain \in Resource /\ NewUse(plain) /\ plain.gen # 0 /\ plain.kind = "session" /\ plain.inst = b.inst
      BY <1>1, NewRowFits DEF Kind
<1>3. Resolves(b, "bundle") /\ allocate_resource(row) /\ UNCHANGED <<next_id, packets>>
      BY DEF session_open
<1> HIDE DEF plain
<1>4. /\ row \in Resource /\ NewUse(row) /\ row.gen # 0
      /\ row.kind = "session" /\ row.inst = b.inst /\ row.parent = b.slot
      /\ row.ident = table[b.slot].ident
  <2>1. table[b.slot].ident \in SUBSET Identity /\ work \in Nat
        BY <1>1 DEF Resource
  <2> QED
      BY <2>1, <1>1, <1>2 DEF Resource, NewUse, State
<1> HIDE DEF row
<1> QED
    BY <1>3, <1>4, SessionRowInv

(* A session is restored from a checkpoint.                                *)
LEMMA SessionRestoreInv ==
    ASSUME TableInv, NEW b \in issued, NEW packet \in packets, session_restore(b, packet)
    PROVE  TableInv'
<1> DEFINE plain == NewRow("session", b.inst)
           state == IF packet.state = "closed" THEN "open" ELSE packet.state
           row == [plain EXCEPT !.parent = b.slot, !.ident = packet.ident, !.state = state]
<1>1. TableType /\ FreeSlots # {} /\ b.slot \in Nat /\ b.inst \in Nat
      BY CountKept, HandleTyped DEF TableInv, allocate_resource, session_restore
<1>2. plain \in Resource /\ NewUse(plain) /\ plain.gen # 0 /\ plain.kind = "session" /\ plain.inst = b.inst
      BY <1>1, NewRowFits DEF Kind
<1>3. /\ Resolves(b, "bundle") /\ allocate_resource(row) /\ UNCHANGED <<next_id, packets>>
      /\ packet.ident = table[b.slot].ident
      BY DEF session_restore
<1>4. packet.ident \in SUBSET Identity /\ state \in State
      BY <1>1 DEF TableType, State
<1> HIDE DEF plain, state
<1>5. /\ row \in Resource /\ NewUse(row) /\ row.gen # 0
      /\ row.kind = "session" /\ row.inst = b.inst /\ row.parent = b.slot
      /\ row.ident = packet.ident
      BY <1>1, <1>2, <1>4 DEF Resource, NewUse
<1> HIDE DEF row
<1> QED
    BY <1>3, <1>5, SessionRowInv

(* session_open_fails: the free slot stays free, one use later.            *)
LEMMA SessionOpenFailsInv ==
    ASSUME TableInv, NEW b \in issued, session_open_fails(b)
    PROVE  TableInv'
<1> DEFINE f == FreeSlot
<1>1. TableType /\ FreeSlots # {} /\ count' \in 0..MaxAllocations
      BY CountKept DEF TableInv, session_open_fails
<1>2. f \in Slot /\ ~table[f].alive
      BY <1>1, FreeSlotIsFree
<1>3. Freed(f, next_generation(table[f].gen), table[f].born + 1)
      BY <1>1 DEF Freed, session_open_fails
<1> HIDE DEF f
<1> QED
    BY <1>2, <1>3, FreedInv DEF Loose

(* The releases: a call that got past its checks leaves nothing behind     *)
(* that depends on the row.                                                *)
LEMMA ReleaseInv ==
    ASSUME TableInv, NEW h \in issued, NEW kind, Resolves(h, kind), release_resource(h.slot),
           NoWrap => Loose(h.slot)
    PROVE  TableInv'
<1>1. h.slot \in Slot /\ count \in 0..MaxAllocations
      BY HandleTyped DEF TableInv, TableType
<1>2. Freed(h.slot, table[h.slot].gen, table[h.slot].born)
      BY <1>1 DEF Freed, release_resource
<1> QED
    BY <1>1, <1>2, FreedInv

(* The calls that release a resource.                                      *)
LEMMA ReleasesInv ==
    ASSUME TableInv, NEW h \in issued,
           \/ instance_release(h) \/ profile_release(h) \/ bundle_release(h) \/ session_release(h)
           \/ owned_bytes_release(h) \/ arena_release(h)
    PROVE  TableInv'
<1> USE DEF TableInv
<1>1. ASSUME NEW kind, Resolves(h, kind), NoWrap PROVE table[h.slot].kind = kind /\ table[h.slot].inst = h.inst
      BY <1>1, ResolvesKind
<1>2. CASE instance_release(h)
  <2>1. NoWrap => Loose(h.slot)
        BY <1>1, <1>2 DEF instance_release, Loose, Living
  <2> QED
      BY <1>2, <2>1, ReleaseInv DEF instance_release
<1>3. CASE bundle_release(h)
  <2>1. NoWrap => Loose(h.slot)
        BY <1>1, <1>3 DEF bundle_release, Loose, Living
  <2> QED
      BY <1>3, <2>1, ReleaseInv DEF bundle_release
<1>4. CASE arena_release(h)
  <2>1. NoWrap => Loose(h.slot)
        BY <1>1, <1>4 DEF arena_release, Loose
  <2> QED
      BY <1>4, <2>1, ReleaseInv DEF arena_release
<1>5. ASSUME NEW kind \in {"profile", "session", "bytes"}, Resolves(h, kind), release_resource(h.slot)
      PROVE  TableInv'
  <2>1. NoWrap => Loose(h.slot)
        BY <1>1, <1>5 DEF Loose
  <2> QED
      BY <1>5, <2>1, ReleaseInv
<1> QED
    BY <1>2, <1>3, <1>4, <1>5 DEF profile_release, session_release, owned_bytes_release

(* The calls that change the state of a resource.                          *)
LEMMA RestatesInv ==
    ASSUME TableInv, NEW h \in issued,
           session_cancel(h) \/ \E disposed \in BOOLEAN : session_close(h, disposed)
    PROVE  TableInv'
<1>1. h.slot \in Slot /\ table[h.slot] \in Resource
      BY HandleTyped DEF TableInv
<1>2. CASE session_cancel(h)
  <2>1. [table[h.slot] EXCEPT !.state = "cancelled"] =
            [table[h.slot] EXCEPT !.state = "cancelled", !.outstanding = table[h.slot].outstanding]
        BY <1>1 DEF Resource
  <2>2. Restated(h.slot, "cancelled", table[h.slot].outstanding)
        BY <1>1, <1>2, <2>1 DEF Restated, session_cancel
  <2> QED
      BY <1>1, <2>2, RestatedInv DEF State
<1>3. ASSUME NEW disposed \in BOOLEAN, session_close(h, disposed) PROVE TableInv'
  <2>1. Restated(h.slot, "closed", 0)
        BY <1>1, <1>3 DEF Restated, session_close, TableInv, TableType
  <2> QED
      BY <1>1, <2>1, RestatedInv DEF State
<1> QED
    BY <1>2, <1>3

(* poll_batch: a lease in the free slot, counted by its arena.             *)
LEMMA PollInv ==
    ASSUME TableInv, NEW h \in issued, NEW a \in issued, poll_batch(h, a)
    PROVE  TableInv'
<1> DEFINE f == FreeSlot
           p == a.slot
           plain == NewRow("lease", h.inst)
           row == [plain EXCEPT !.parent = p, !.outstanding = h.slot, !.owner = table[h.slot].born]
           up == [table[p] EXCEPT !.inflight = table[p].inflight + 1]
<1>1. TableType /\ FreeSlots # {} /\ count' \in 0..MaxAllocations
      BY CountKept DEF TableInv, poll_batch
<1>2. /\ h.slot \in Living /\ table[h.slot].inst = h.inst /\ h.inst \in Nat /\ h.inst < next_id
      /\ h.slot \in Nat /\ table[h.slot].born \in Nat
      /\ p \in Living /\ p \in Nat /\ p \in Slot /\ table[p] \in Resource
      BY <1>1, ResolvesRow, HandleTyped DEF poll_batch, Resource
<1>3. f \in Slot /\ ~table[f].alive /\ f # p
      BY <1>1, <1>2, FreeSlotIsFree DEF Living
<1>4. plain \in Resource /\ NewUse(plain) /\ plain.gen # 0 /\ plain.kind = "lease" /\ plain.inst = h.inst
      BY <1>1, <1>2, NewRowFits DEF Kind
<1>5. /\ table' = [table EXCEPT ![f] = row, ![p] = up]
      /\ issued' = issued \cup {HandleOf(f, plain)} /\ UNCHANGED <<next_id, packets>>
      BY <1>1, <1>3 DEF poll_batch, TableType
<1> HIDE DEF plain, f, p
<1>6. /\ row \in Resource /\ row.alive /\ row.gen # 0 /\ row.kind = "lease" /\ row.inst = h.inst
      /\ row.parent = p /\ row.gen = plain.gen /\ row.born = plain.born
      BY <1>2, <1>4 DEF Resource, NewUse
<1>7. /\ up \in Resource /\ up.inflight = table[p].inflight + 1
      /\ (up.alive <=> table[p].alive) /\ up.kind = table[p].kind /\ up.inst = table[p].inst
      /\ up.gen = table[p].gen /\ up.born = table[p].born /\ up.parent = table[p].parent
      /\ up.outstanding = table[p].outstanding /\ up.ident = table[p].ident
      BY <1>2 DEF Resource
<1> HIDE DEF row, up
<1>8. \A s \in Slot : table'[s] = IF s = f THEN row ELSE IF s = p THEN up ELSE table[s]
      BY <1>1, <1>3, <1>5 DEF TableType
<1>9. RowType(row, next_id) /\ RowType(up, next_id)
      BY <1>1, <1>2, <1>6, <1>7 DEF RowType, TableType
<1>10. HandleOf(f, plain) \in Handle /\ HandleOf(f, plain) = HandleOf(f, row)
  <2>1. /\ plain.gen \in 1..(GenerationLimit - 1) /\ plain.born \in Nat \ {0} /\ plain.inst \in Nat
        BY <1>1, <1>2, <1>3, <1>4, HandleAssumption DEF Resource, NewUse, TableType, RowType, f
  <2> QED
      BY <2>1, <1>3, <1>4, <1>6 DEF HandleOf, Handle, Kind
<1>11. TableType'
      BY <1>1, <1>5, <1>8, <1>9, <1>10 DEF TableType
<1>12. SlotsUsed
  <2>1. SameUse(table[p], up) /\ NextUse(table[f], row)
        BY <1>4, <1>6, <1>7 DEF SameUse, NextUse, NewUse, f
  <2>2. \A s \in Slot : SameUse(table[s], table'[s]) \/ NextUse(table[s], table'[s])
    <3>1. \A s \in Slot : SameUse(table[s], table[s])
          BY DEF SameUse
    <3> QED
        BY <2>1, <3>1, <1>8
  <2>3. table'[f] = row /\ table'[f].alive
        BY <1>3, <1>6, <1>8
  <2> QED
      BY <2>2, <2>3, <1>3, <1>5, <1>10 DEF SlotsUsed
<1>13. ASSUME NoWrap PROVE Intact'
  <2> USE DEF TableInv, Intact
  <2>1. table[p].kind = "arena"
        BY <1>1, <1>13, ResolvesKind DEF poll_batch, p
  <2>2. Living' = Living \cup {f} /\ f \notin Living /\ Living \subseteq Slot
        BY <1>2, <1>3, <1>6, <1>7, <1>8 DEF Living
  <2>3. \A s \in Living :
            /\ table'[s].kind = table[s].kind /\ table'[s].inst = table[s].inst
            /\ table'[s].parent = table[s].parent /\ table'[s].ident = table[s].ident
            /\ table'[s].alive /\ s # p => table'[s].inflight = table[s].inflight
        BY <2>2, <1>7, <1>8 DEF Living
  <2>4. table'[f].kind = "lease" /\ table'[f].inst = h.inst /\ table'[f].parent = p
        BY <1>3, <1>6, <1>8
  <2>5. \A s \in Living : table'[s].alive
        BY <2>2, <1>2, <1>7, <1>8 DEF Living
  <2>6. Owned'
        BY <2>2, <2>3, <2>4, <1>2, <1>13 DEF Owned
  <2>7. ASSUME NEW s \in Living, table[s].kind \in {"session", "lease"} PROVE table[s].parent \in Slot
        BY <1>1, <2>2, <2>7 DEF TableType, RowType
  <2>8. SessionBound'
    <3> SUFFICES ASSUME NEW s \in Living', table'[s].kind = "session"
                 PROVE  LET b == table'[table'[s].parent]
                        IN  b.alive /\ b.kind = "bundle" /\ b.inst = table'[s].inst /\ b.ident = table'[s].ident
        BY DEF SessionBound
    <3>1. s \in Living /\ table[s].kind = "session" /\ table'[s].parent = table[s].parent
          BY <2>2, <2>3, <2>4
    <3>2. table[s].parent \in Living
          BY <3>1, <2>7, <1>13 DEF SessionBound, Living
    <3> QED
        BY <3>1, <3>2, <2>3, <2>5, <1>13 DEF SessionBound
  <2>9. \A b : LeasesOn(b)' = IF b = p THEN LeasesOn(b) \cup {f} ELSE LeasesOn(b)
        BY <2>2, <2>3, <2>4 DEF LeasesOn
  <2>10. ASSUME NEW l \in Living', table'[l].kind = "lease"
         PROVE  table'[table'[l].parent].alive /\ table'[table'[l].parent].kind = "arena"
    <3>1. CASE l = f
          BY <3>1, <2>1, <2>3, <2>4, <2>5, <1>2
    <3>2. CASE l \in Living
      <4>1. table[l].kind = "lease" /\ table'[l].parent = table[l].parent
            BY <2>3, <2>10, <3>2
      <4>2. table[l].parent \in Living
            BY <4>1, <3>2, <2>7, <1>13 DEF ArenaPinned, Living
      <4> QED
          BY <4>1, <4>2, <3>2, <2>3, <2>5, <1>13 DEF ArenaPinned
    <3> QED
        BY <3>1, <3>2, <2>2
  <2>11. ASSUME NEW b \in Living', table'[b].kind = "arena"
         PROVE  table'[b].inflight = Cardinality(LeasesOn(b)')
    <3>1. b \in Living /\ table[b].kind = "arena" /\ table[b].inflight = Cardinality(LeasesOn(b))
          BY <2>2, <2>3, <2>4, <2>11, <1>13 DEF ArenaPinned
    <3>2. CASE b = p
      <4>1. f \notin LeasesOn(p)
            BY <2>2 DEF LeasesOn
      <4>2. Cardinality(LeasesOn(p) \cup {f}) = Cardinality(LeasesOn(p)) + 1
            BY <4>1, LivingFinite, FS_AddElement
      <4> QED
          BY <3>1, <3>2, <4>2, <2>9, <1>2, <1>3, <1>7, <1>8
    <3>3. CASE b # p
          BY <3>1, <3>3, <2>3, <2>5, <2>9
    <3> QED
        BY <3>2, <3>3
  <2> QED
      BY <2>6, <2>8, <2>10, <2>11 DEF ArenaPinned
<1> QED
    BY <1>11, <1>12, <1>13, TracedStep, NoWrapBefore DEF TableInv

(* batch_ack: the lease is gone, and its arena has one less in flight.     *)
LEMMA AckInv ==
    ASSUME TableInv, NEW h \in issued, NEW l \in issued, batch_ack(h, l)
    PROVE  TableInv'
<1> DEFINE s == l.slot
           p == table[s].parent
           dead == Dead(table[s].gen, table[s].born)
           down == [table[p] EXCEPT !.inflight = table[p].inflight - 1]
<1>1. TableType
      BY DEF TableInv
<1>2. s \in Living /\ s \in Slot /\ h.slot # 0 /\ table[s].outstanding = h.slot /\ table[s] \in Resource
      BY <1>1, ResolvesRow, HandleTyped DEF batch_ack
<1>3. p \in Slot /\ table[p] \in Resource
      BY <1>1, <1>2 DEF TableType, RowType
<1>4. /\ table[p].alive /\ table[p].kind = "arena" /\ table[p].inflight >= 1
      /\ table' = [table EXCEPT ![p] = down, ![s] = dead]
      /\ UNCHANGED <<next_id, issued, packets, count>>
      BY <1>1, <1>2, <1>3 DEF batch_ack, TableType
<1>5. /\ down \in Resource /\ down.inflight = table[p].inflight - 1
      /\ (down.alive <=> table[p].alive) /\ down.kind = table[p].kind /\ down.inst = table[p].inst
      /\ down.gen = table[p].gen /\ down.born = table[p].born /\ down.parent = table[p].parent
      /\ down.outstanding = table[p].outstanding /\ down.ident = table[p].ident
  <2>1. table[p].inflight - 1 \in Nat
        BY <1>3, <1>4 DEF Resource
  <2> QED
      BY <2>1, <1>3 DEF Resource
<1>6. ~dead.alive /\ dead.gen = table[s].gen /\ dead.born = table[s].born
      BY DEF Dead, Row
<1>7. RowType(dead, next_id)
      BY <1>1, <1>2, DeadTyped DEF Resource, TableType
<1> HIDE DEF s, p, dead, down
<1>8. \A u \in Slot : table'[u] = IF u = s THEN dead ELSE IF u = p THEN down ELSE table[u]
      BY <1>1, <1>2, <1>3, <1>4 DEF TableType
<1>9. RowType(down, next_id)
      BY <1>1, <1>3, <1>4, <1>5 DEF RowType, TableType
<1>10. TableType'
      BY <1>1, <1>4, <1>7, <1>8, <1>9 DEF TableType
<1>11. SlotsUsed
      BY ZenonT(30), <1>4, <1>5, <1>6, <1>8 DEF SlotsUsed, SameUse
<1>12. ASSUME NoWrap PROVE Intact'
  <2> USE DEF TableInv, Intact
  <2>1. table[s].kind = "lease" /\ s # p
        BY <1>1, <1>4, <1>12, ResolvesKind DEF batch_ack, s
  <2>2. Living' = Living \ {s} /\ Living \subseteq Slot
    <3>1. \A u \in Slot : table'[u].alive <=> table[u].alive /\ u # s
          BY <2>1, <1>4, <1>5, <1>6, <1>8
    <3> QED
        BY <3>1 DEF Living
  <2>3. \A u \in Living' :
            /\ u \in Living /\ u # s /\ table'[u].alive
            /\ table'[u].kind = table[u].kind /\ table'[u].inst = table[u].inst
            /\ table'[u].parent = table[u].parent /\ table'[u].ident = table[u].ident
            /\ u # p => table'[u].inflight = table[u].inflight
        BY <2>2, <1>4, <1>5, <1>8 DEF Living
  <2>4. Owned'
        BY <2>1, <2>2, <2>3, <1>12 DEF Owned
  <2>5. ASSUME NEW u \in Living, table[u].kind \in {"session", "lease"} PROVE table[u].parent \in Slot
        BY <1>1, <2>2, <2>5 DEF TableType, RowType
  <2>6. SessionBound'
    <3> SUFFICES ASSUME NEW u \in Living', table'[u].kind = "session"
                 PROVE  LET b == table'[table'[u].parent]
                        IN  b.alive /\ b.kind = "bundle" /\ b.inst = table'[u].inst /\ b.ident = table'[u].ident
        BY DEF SessionBound
    <3>1. u \in Living /\ table[u].kind = "session" /\ table'[u].parent = table[u].parent
          BY <2>3
    <3>2. table[u].parent \in Living'
          BY <3>1, <2>1, <2>2, <2>5, <1>12 DEF SessionBound, Living
    <3> QED
        BY <3>1, <3>2, <2>3, <1>12 DEF SessionBound
  <2>7. \A b : LeasesOn(b)' = IF b = p THEN LeasesOn(b) \ {s} ELSE LeasesOn(b)
    <3>1. s \in LeasesOn(p) /\ \A b : b # p => s \notin LeasesOn(b)
          BY <2>1, <1>2 DEF LeasesOn, p, s
    <3> QED
        BY <3>1, <2>2, <2>3 DEF LeasesOn
  <2>8. ASSUME NEW u \in Living', table'[u].kind = "lease"
        PROVE  table'[table'[u].parent].alive /\ table'[table'[u].parent].kind = "arena"
    <3>1. u \in Living /\ table[u].kind = "lease" /\ table'[u].parent = table[u].parent
          BY <2>3, <2>8
    <3>2. table[u].parent \in Living'
          BY <3>1, <2>1, <2>2, <2>5, <1>12 DEF ArenaPinned, Living
    <3> QED
        BY <3>1, <3>2, <2>3, <1>12 DEF ArenaPinned
  <2>9. ASSUME NEW b \in Living', table'[b].kind = "arena"
        PROVE  table'[b].inflight = Cardinality(LeasesOn(b)')
    <3>1. b \in Living /\ table[b].kind = "arena" /\ table[b].inflight = Cardinality(LeasesOn(b))
          BY <2>3, <2>9, <1>12 DEF ArenaPinned
    <3>2. CASE b = p
      <4>1. s \in LeasesOn(p)
            BY <2>1, <1>2 DEF LeasesOn, p, s
      <4>2. Cardinality(LeasesOn(p) \ {s}) = Cardinality(LeasesOn(p)) - 1
            BY <4>1, LivingFinite, FS_RemoveElement
      <4> QED
          BY <3>1, <3>2, <4>2, <2>1, <2>7, <1>3, <1>5, <1>8
    <3>3. CASE b # p
          BY <3>1, <3>3, <2>3, <2>7
    <3> QED
        BY <3>2, <3>3
  <2> QED
      BY <2>4, <2>6, <2>8, <2>9 DEF ArenaPinned
<1> QED
    BY <1>10, <1>11, <1>12, TracedStep, NoWrapBefore DEF TableInv

-----------------------------------------------------------------------------
(* The empty table has the invariant.                                      *)
LEMMA TableInitInv == Init => TableInv
<1> SUFFICES ASSUME Init PROVE TableInv
    OBVIOUS
<1>1. RowType(Dead(0, 0), 1)
      BY DeadTyped, HandleAssumption
<1>2. TableType
      BY <1>1, HandleAssumption DEF Init, TableType
<1>3. ~Dead(0, 0).alive
      BY DEF Dead, Row
<1>4. Living = {}
      BY <1>3 DEF Init, Living
<1>5. HandlesTraced /\ Intact
      BY <1>4 DEF Init, HandlesTraced, Intact, Owned, SessionBound, ArenaPinned
<1> QED
    BY <1>2, <1>5 DEF TableInv

(* Every call keeps the invariant.                                         *)
LEMMA TableStepInv == TableInv /\ [Next]_vars => TableInv'
<1> SUFFICES ASSUME TableInv, [Next]_vars PROVE TableInv'
    OBVIOUS
<1>1. CASE UNCHANGED vars
      BY <1>1 DEF vars, TableInv, TableType, HandlesTraced, NoWrap, Intact, Owned, SessionBound,
                  ArenaPinned, Living, LeasesOn
<1>2. packets \subseteq Packet
      BY DEF TableInv, TableType, Packet
<1>3. ASSUME NEW h \in issued, negotiate(h) \/ error_message(h) \/ arena_register(h) PROVE TableInv'
      BY <1>2, <1>3, PlainRowInv DEF negotiate, error_message, arena_register
<1>4. ASSUME NEW h \in issued, session_checkpoint(h) PROVE TableInv'
  <2>1. table[h.slot] \in Resource
        BY HandleTyped DEF TableInv
  <2>2. packets' \subseteq Packet
        BY <1>2, <1>4, <2>1 DEF session_checkpoint, Packet, Resource
  <2> QED
      BY <1>4, <2>2, PlainRowInv DEF session_checkpoint
<1>5. ASSUME NEW h \in issued,
             \/ instance_release(h) \/ profile_release(h) \/ bundle_release(h) \/ session_release(h)
             \/ owned_bytes_release(h) \/ arena_release(h)
      PROVE  TableInv'
      BY <1>5, ReleasesInv
<1>6. ASSUME NEW h \in issued,
             session_cancel(h) \/ \E disposed \in BOOLEAN : session_close(h, disposed)
      PROVE  TableInv'
      BY <1>6, RestatesInv
<1> QED
    BY <1>1, <1>3, <1>4, <1>5, <1>6, InstanceCreateInv, BundleOpenInv, SessionOpenInv,
       SessionRestoreInv, SessionOpenFailsInv, PollInv, AckInv
    DEF Next

(* No call sequence, whatever handles it uses, leaves a row whose instance, *)
(* bundle or arena is gone, as long as no slot was used so often that its  *)
(* generation came round.                                                  *)
THEOREM TableKept == Spec => []TableIntact
<1>1. ASSUME TableInv PROVE TableIntact
  <2> USE <1>1 DEF TableInv
  <2>1. TypeOK
    <3>1. \A s \in Slot : table[s].gen \in 0..(GenerationLimit - 1) /\ table[s].inflight \in Nat
          BY DEF TableType, RowType, Resource
    <3>2. \A s \in Slot : table[s].alive => table[s].gen # 0
          BY DEF TableType, RowType
    <3>3. \A h \in issued : h.slot \in Slot /\ h.gen \in 1..(GenerationLimit - 1)
          BY DEF TableType, Handle
    <3> QED
        BY <3>1, <3>2, <3>3 DEF TypeOK, TableType
  <2>2. ASSUME NoWrap PROVE OwnersAlive
    <3> SUFFICES ASSUME NEW s \in Living
                 PROVE  Cardinality({i \in Living : table[i].kind = "instance" /\ table[i].inst = table[s].inst}) = 1
        BY DEF OwnersAlive
    <3>1. PICK i \in Living : table[i].kind = "instance" /\ table[i].inst = table[s].inst
          BY <2>2 DEF Intact, Owned
    <3>2. {j \in Living : table[j].kind = "instance" /\ table[j].inst = table[s].inst} = {i}
          BY <2>2, <3>1 DEF Intact, Owned
    <3> QED
        BY <3>2, FS_Singleton
  <2> QED
      BY <2>1, <2>2 DEF TableIntact, Intact
<1> QED
    BY TableInitInv, TableStepInv, <1>1, PTL DEF Spec

(* A handle that resolves names the use of the slot it was given out for,  *)
(* or one so much later that the generations came round in between.        *)
THEOREM HandlesNotReused == Spec => []HandlesFresh
<1>1. TableInv => HandlesFresh
      BY TracedFresh DEF TableInv
<1> QED
    BY TableInitInv, TableStepInv, <1>1, PTL DEF Spec
=============================================================================
