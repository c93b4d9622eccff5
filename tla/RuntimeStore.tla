---------------------------- MODULE RuntimeStore ----------------------------
(***************************************************************************)
(* One key of a runtime store: MemoryRuntimeGraphStore and                 *)
(* FileRuntimeGraphStore (stores.py) and TursoRuntimeGraphStore            *)
(* (durable.py).  A put reads the item it replaces to keep its created_at; *)
(* the memory and Turso stores read the clock before that, the file store  *)
(* after.  Callers are threads or processes and may stop between steps.    *)
(***************************************************************************)
EXTENDS ReplacedFile, Sequences

CONSTANTS Caller, MaxPuts

(* There is always a free inode, as in the checkpointer.                   *)
ASSUME StoreAssumption ==
    /\ Inodes \in Nat /\ IsFiniteSet(Caller)
    /\ Cardinality(Caller) + 2 <= Inodes

VARIABLES
    kind,     \* which store
    item,     \* the file of the key; the other stores use it as one cell
    clock,    \* time.time_ns()
    puts,     \* values put so far; the n-th put stores the value n
    at,       \* the next step of each caller
    offer,     \* the item a caller is putting: value, created, updated
    ofd,      \* the inode a caller has open
    expected, \* ghost: the item after the calls that returned, <<>> for none
    crossed   \* ghost: has a call ever begun while another was under way?

store == <<kind, item, clock, puts, at, offer, ofd, expected, crossed>>

NoItem == [value |-> 0, created |-> 0, updated |-> 0]

StoreInit ==
    /\ kind \in {"memory", "file", "turso"}
    /\ item = NoFile /\ clock = 0 /\ puts = 0
    /\ at = [c \in Caller |-> "idle"]
    /\ offer = [c \in Caller |-> NoItem]
    /\ ofd = [c \in Caller |-> NoInode]
    /\ expected = <<>> /\ crossed = FALSE

Starts(c) ==
    /\ at[c] = "idle"
    /\ crossed' = (crossed \/ \E d \in Caller \ {c} : at[d] # "idle")

Continue(c, step) == at' = [at EXCEPT ![c] = step]

(* A whole item in the cell of a store that needs no temporary file.       *)
Stored(f, it) == Replace(WriteOpened(OpenTmp(f, {}), OpenedInode(f, {}), it))

(* What the sequence of returned calls makes of a put.                     *)
PutOver(previous, it) ==
    <<[it EXCEPT !.created = IF previous = <<>> THEN it.updated ELSE previous[1].created]>>

put(c) ==
    /\ Starts(c) /\ puts < MaxPuts
    /\ puts' = puts + 1
    /\ offer' = [offer EXCEPT ![c] = [NoItem EXCEPT !.value = puts + 1]]
    /\ Continue(c, IF kind = "file" THEN "get" ELSE "now")
    /\ UNCHANGED <<kind, item, clock, ofd, expected>>

(* Fault: a put starts the life of its key again. *)
put_get_new(c) ==
    /\ at[c] = "get"
    /\ offer' = offer
    /\ Continue(c, IF kind = "file" THEN "now" ELSE "store")
    /\ UNCHANGED <<kind, item, clock, puts, ofd, expected, crossed>>

(* The item to replace is read for its created_at; created stays 0 when    *)
(* there is none.  A file that was opened and not yet written cannot be    *)
(* unpickled, and the put raises.                                          *)
put_get(c) ==
    /\ at[c] = "get"
    /\ offer' = [offer EXCEPT ![c].created = IF Loadable(item) THEN Read(item).created ELSE 0]
    /\ Continue(c, IF Exists(item) /\ ~Loadable(item) THEN "idle"
                   ELSE IF kind = "file" THEN "now" ELSE "store")
    /\ UNCHANGED <<kind, item, clock, puts, ofd, expected, crossed>>

put_now(c) ==
    /\ at[c] = "now"
    /\ clock' = clock + 1
    /\ offer' = [offer EXCEPT ![c].updated = clock + 1]
    /\ Continue(c, IF kind = "file" THEN "open" ELSE "get")
    /\ UNCHANGED <<kind, item, puts, ofd, expected, crossed>>

(* created_at is the previous item's, or now.                              *)
Item(c) == [offer[c] EXCEPT !.created = IF @ = 0 THEN offer[c].updated ELSE @]

(* Memory and Turso: the item is assigned, or the row inserted or replaced *)
(* and committed.                                                          *)
put_store(c) ==
    /\ at[c] = "store"
    /\ item' = Stored(item, Item(c))
    /\ expected' = PutOver(expected, offer[c])
    /\ Continue(c, "idle")
    /\ UNCHANGED <<kind, clock, puts, offer, ofd, crossed>>

put_open(c) ==
    /\ at[c] = "open"
    /\ LET held == {ofd[d] : d \in Caller}
       IN  item' = OpenTmp(item, held) /\ ofd' = [ofd EXCEPT ![c] = OpenedInode(item, held)]
    /\ Continue(c, "write")
    /\ UNCHANGED <<kind, clock, puts, offer, expected, crossed>>

put_write(c) ==
    /\ at[c] = "write"
    /\ item' = WriteOpened(item, ofd[c], Item(c))
    /\ ofd' = [ofd EXCEPT ![c] = NoInode]
    /\ Continue(c, "replace")
    /\ UNCHANGED <<kind, clock, puts, offer, expected, crossed>>

put_replace(c) ==
    /\ at[c] = "replace"
    /\ IF CanReplace(item)
       THEN item' = Replace(item) /\ expected' = PutOver(expected, offer[c])
       ELSE UNCHANGED <<item, expected>>
    /\ Continue(c, "idle")
    /\ UNCHANGED <<kind, clock, puts, offer, ofd, crossed>>

delete(c) ==
    /\ Starts(c)
    /\ item' = Unlink(item)
    /\ expected' = <<>>
    /\ UNCHANGED <<kind, clock, puts, at, offer, ofd>>

(* The caller stops; only a store that outlives it matters afterwards.     *)
stop(c) ==
    /\ kind # "memory" /\ at[c] # "idle"
    /\ Continue(c, "idle")
    /\ ofd' = [ofd EXCEPT ![c] = NoInode]
    /\ UNCHANGED <<kind, item, clock, puts, offer, expected, crossed>>

StoreNext ==
    \E c \in Caller :
        \/ put(c) \/ put_get(c) \/ put_now(c) \/ put_store(c)
        \/ put_open(c) \/ put_write(c) \/ put_replace(c)
        \/ delete(c) \/ stop(c)

StoreSpec == StoreInit /\ [][StoreNext]_store

(* search.  A namespace is a sequence of parts.  The Turso query matches   *)
(* the longer namespaces with SQL's like, which folds case and of which    *)
(* the underscore, not escaped, matches any one character.                 *)
Part == {"a", "A", "b", "_"}
Namespace == UNION {[1..n -> Part] : n \in 1..2}
Fold(part) == IF part = "A" THEN "a" ELSE part
like(pattern, part) == pattern = "_" \/ Fold(pattern) = Fold(part)

search_memory(prefix, namespace) ==
    Len(prefix) <= Len(namespace) /\ SubSeq(namespace, 1, Len(prefix)) = prefix

search_turso(prefix, namespace) ==
    \/ namespace = prefix
    \/ /\ Len(prefix) < Len(namespace)
       /\ \A i \in DOMAIN prefix : like(prefix[i], namespace[i])

-----------------------------------------------------------------------------
(* Properties. *)

(* What the two kinds of search say of literal names, part for part.      *)
SameSearch ==
    \A p, n \in {s \in Namespace : \A i \in DOMAIN s : s[i] \in {"a", "b"}} :
        search_turso(p, n) <=> search_memory(p, n)

(* The stores are one map: as long as no two calls overlapped, the item is *)
(* what the returned calls make it, created_at being the time of the first *)
(* put since the last delete, whoever stopped in between; in the file      *)
(* store no item is ever older than its creation, overlaps or not; and the *)
(* Turso search finds what the others find, for names that differ in more  *)
(* than case and hold no wildcard.                                         *)
StoreIsMap ==
    /\ ~crossed =>
           IF expected = <<>> THEN ~Exists(item)
           ELSE Loadable(item) /\ Read(item) = expected[1]
    /\ kind = "file" /\ Loadable(item) => Read(item).created <= Read(item).updated
    /\ kind = "turso" => SameSearch

=============================================================================
